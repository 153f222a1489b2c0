------------------------------ MODULE StrNumber ------------------------------
(***************************************************************************)
(* Characters and numbers of src/Str/Str.c, configured as Str.h stands.    *)
(*                                                                         *)
(* A string is the sequence of the codes (1 to 127) before its null        *)
(* character; a pointer into it is an index, Len + 1 being the null and 0  *)
(* being NULL.  What goes through a destination buffer is returned.        *)
(* Numbers have a width in bits (32 for Str_Num, 64 for Str_Long: the      *)
(* functions of the two are the same code).                                *)
(***************************************************************************)
EXTENDS Integers, SequencesExt, FiniteSetsExt

NULL == 0

Backspace == 8
NewLine   == 10
Space     == 32
Quote     == 34
Minus     == 45
Slash     == 47
Zero      == 48
Backslash == 92

Digit(c) == c \in Zero .. Zero + 9
Lower(c) == c \in 97 .. 122
Upper(c) == c \in 65 .. 90

\* The character at pointer i, the null at the end.
CharAt(str, i) == IF i <= Len(str) THEN str[i] ELSE 0

\* The string at pointer p, and the first len characters of a string.
From(str, p)  == SubSeq(str, p, Len(str))
Fix(str, len) == SubSeq(str, 1, Min({len, Len(str)}))

\* The first pointer from p on at a character with Test, else NULL.
First(str, p, Test(_)) == SelectInSubSeq(str, p, Len(str), Test)

Str_upperCase(str) == [i \in DOMAIN str |-> IF Lower(str[i]) THEN str[i] - 32 ELSE str[i]]
Str_lowerCase(str) == [i \in DOMAIN str |-> IF Upper(str[i]) THEN str[i] + 32 ELSE str[i]]

-----------------------------------------------------------------------------
(* Digits and the numbers they make.                                       *)

Str_findDigit(str, p) == First(str, p, Digit)

Str_findLastDigit(str, p) ==
  LET d   == Str_findDigit(str, p)
      end == First(str, d, LAMBDA c : ~ Digit(c))
  IN  CASE d = NULL   -> NULL
        [] end = NULL -> Len(str)
        [] OTHER      -> end - 1

\* Mutants: plausible bugs, each the code of the definition that follows it
\* but for one slip.
reverseOneShortMutant(arr, len) ==
  [i \in DOMAIN arr |-> IF i < len THEN arr[len - i] ELSE arr[i]]

\* The first len elements of arr change places, in pairs from both ends.
Mem_reverse(arr, len) ==
  [i \in DOMAIN arr |-> IF i <= len THEN arr[len + 1 - i] ELSE arr[i]]

DigitChar(d) == IF d < 10 THEN d + Zero ELSE d + 55

\* Least significant digit first, then reversed: as many digits as the number
\* needs, at least one and at least minLen.
Str_parseUNum(num, base, minLen) ==
  LET count == CHOOSE k \in 1 .. (num + minLen + 1) :
                 /\ k >= minLen /\ base^k > num
                 /\ \A j \in 1 .. k - 1 : j < minLen \/ base^j <= num
      digits == [i \in 1 .. count |-> DigitChar((num \div base^(i - 1)) % base)]
  IN  Mem_reverse(digits, count)

\* The least number of a width is left out: negating it overflows.
Str_parseNum(num, base, minLen) ==
  IF num < 0 THEN <<Minus>> \o Str_parseUNum(-num, base, minLen)
             ELSE Str_parseUNum(num, base, minLen)

\* The value of a character as a digit; none for a base has 36.
DigitValue(c) == CASE Digit(c) -> c - Zero
                   [] Upper(c) -> c - 55
                   [] Lower(c) -> c - 87
                   [] OTHER    -> 36

\* Stops with an error at the first character that is no digit of the base;
\* no character at all is a zero.
Str_convertUNumFix(str, base, len, bits) ==
  LET text  == Fix(str, len)
      bad   == SelectInSeq(text, LAMBDA c : DigitValue(c) >= base)
      value == FoldLeft(LAMBDA num, c : (num * base + DigitValue(c)) % 2^bits,
                        0, IF bad = 0 THEN text ELSE Fix(text, bad - 1))
  IN  [ok |-> bad = 0, num |-> value]

Signed(num, bits) == IF num < 2^(bits - 1) THEN num ELSE num - 2^bits

Str_convertNumFix(str, base, len, bits) ==
  LET minus == str # <<>> /\ str[1] = Minus
      r     == IF minus THEN Str_convertUNumFix(Tail(str), base, len - 1, bits)
                        ELSE Str_convertUNumFix(str, base, len, bits)
  IN  [r EXCEPT !.num = Signed(IF minus THEN (2^bits - @) % 2^bits ELSE @, bits)]

MaxLength == 1024

Str_convertUNum(str, base, bits) == Str_convertUNumFix(str, base, MaxLength, bits)
Str_convertNum(str, base, bits)  == Str_convertNumFix(str, base, MaxLength, bits)

-----------------------------------------------------------------------------
(* The first number in a text.                                             *)

\* From pointer p, the characters up to the last digit of the number there.
NumberText(str, p) == SubSeq(str, p, Str_findLastDigit(str, p))

Str_getUNum(str, bits) ==
  LET p == Str_findDigit(str, 1)
  IN  IF p = NULL THEN [ok |-> FALSE, num |-> 0]
      ELSE Str_convertUNumFix(From(str, p), 10, Len(NumberText(str, p)), bits)

\* A minus directly before the first digit belongs to the number.
Str_getNum(str, bits) ==
  LET d == Str_findDigit(str, 1)
      p == IF d > 1 /\ str[d - 1] = Minus THEN d - 1 ELSE d
  IN  IF d = NULL THEN [ok |-> FALSE, num |-> 0]
      ELSE Str_convertNumFix(From(str, p), 10, Len(NumberText(str, p)), bits)
=============================================================================
