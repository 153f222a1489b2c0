------------------------------- MODULE StrText -------------------------------
(***************************************************************************)
(* The functions of src/Str/Str.c that cut, change and quote a text.       *)
(* Strings and pointers are those of StrNumber.                            *)
(***************************************************************************)
EXTENDS StrNumber

-----------------------------------------------------------------------------
(* Finding characters.                                                     *)

Str_indexOf(str, p, c) == First(str, p, LAMBDA x : x = c)

Str_indexesOf(str, c) == SelectSeq([i \in DOMAIN str |-> i], LAMBDA i : str[i] = c)

\* Up to a limit, and up to the first endChar.
Str_indexesOfFix(str, c, len) == Str_indexesOf(Fix(str, len), c)
Str_indexesOfUntil(str, c, endChar) ==
  LET end == Str_indexOf(str, 1, endChar)
  IN  Str_indexesOf(IF end = NULL THEN str ELSE Fix(str, end - 1), c)

Str_reverseIndexOf(str, c, p, start) ==
  SelectLastInSubSeq(str, start, p, LAMBDA x : x = c)

\* The num-th c; the string itself for none.
Str_indexOfAt(str, c, num) ==
  LET at[n \in 0 .. num] == CASE n = 0 -> 1
                              [] n = 1 -> Str_indexOf(str, 1, c)
                              [] at[n - 1] = NULL -> NULL
                              [] OTHER -> Str_indexOf(str, at[n - 1] + 1, c)
  IN  at[num]

-----------------------------------------------------------------------------
(* Cutting at a separator.  Not for a text that ends with the separator:   *)
(* the empty piece after it has no Str_indexOfNull.                        *)

Str_copyUntil(src, endChar) ==
  LET end == Str_indexOf(src, 1, endChar)
  IN  [ok |-> end # NULL, dest |-> IF end = NULL THEN <<>> ELSE Fix(src, end - 1)]

Str_copyLine(src) == Str_copyUntil(src, NewLine)

\* Mutants: plausible bugs, each the code of the definition that follows it
\* but for one slip.
splitAfterLastMutant(src, separator, len) ==
  LET cut == Str_indexesOf(src, separator)
      n   == IF src = <<>> THEN 0 ELSE Min({len, Len(cut)})
  IN  [k \in 1 .. n |-> IF k = 1 THEN 1 ELSE cut[k - 1] + 1]

\* Where the pieces start, len of them at most.
Str_splitPtr(src, separator, len) ==
  LET cut == Str_indexesOf(src, separator)
      n   == IF src = <<>> THEN 0 ELSE Min({len, Len(cut) + 1})
  IN  [k \in 1 .. n |-> IF k = 1 THEN 1 ELSE cut[k - 1] + 1]

\* With setNull the pieces end where they were cut.
Piece(src, separator, p) ==
  LET end == Str_indexOf(src, p, separator)
  IN  IF end = NULL THEN From(src, p) ELSE SubSeq(src, p, end - 1)

\* Rows of rowLen characters, a null among them, hold what fits of the pieces.
Str_split(src, separator, rowLen, len) ==
  LET starts == Str_splitPtr(src, separator, len)
  IN  [k \in DOMAIN starts |-> Fix(Piece(src, separator, starts[k]), rowLen - 1)]

\* One call, given the pointer the last one left, not at the null.
Str_splitToken(str, separator, p) ==
  LET end == Str_indexOf(str, p, separator)
  IN  [token |-> Piece(str, separator, p),
       ptr   |-> IF end # NULL THEN end + 1 ELSE Len(str) + 1]

\* Token number index, counted from 0; a limit of 0 is none.
Str_getTokenFix(str, separator, index, len) ==
  LET at    == Str_indexOfAt(str, separator, index)
      p     == IF at # NULL /\ CharAt(str, at) = separator THEN at + 1 ELSE at
      whole == Piece(str, separator, p)
  IN  IF at = NULL THEN [ok |-> FALSE, token |-> <<>>]
      ELSE [ok |-> TRUE, token |-> IF len = 0 THEN whole ELSE Fix(whole, len)]

Str_getToken(str, separator, index) == Str_getTokenFix(str, separator, index, 0)

-----------------------------------------------------------------------------
(* Replacing.  The word is not empty.                                      *)

\* The first replacement from pointer p on, if any, and where it is.
Str_replace(str, p, word, replacement) ==
  LET found == {i \in p .. Len(str) : IsPrefix(word, From(str, i))}
      at    == Min(found)
  IN  IF found = {} THEN [at |-> NULL, str |-> str]
      ELSE [at  |-> at,
            str |-> SubSeq(str, 1, at - 1) \o replacement \o From(str, at + Len(word))]

RECURSIVE replaceFrom(_, _, _, _)
replaceOnPastNextMutant(str, p, word, replacement) ==
  LET r    == Str_replace(str, p, word, replacement)
      rest == replaceFrom(r.str, r.at + Len(replacement) + 1, word, replacement)
  IN  IF r.at = NULL THEN [count |-> 0, str |-> str] ELSE [rest EXCEPT !.count = @ + 1]

\* Goes on after each replacement.
replaceFrom(str, p, word, replacement) ==
  LET r    == Str_replace(str, p, word, replacement)
      rest == replaceFrom(r.str, r.at + Len(replacement), word, replacement)
  IN  IF r.at = NULL THEN [count |-> 0, str |-> str] ELSE [rest EXCEPT !.count = @ + 1]

Str_replaceAll(str, word, replacement) == replaceFrom(str, 1, word, replacement)

-----------------------------------------------------------------------------
(* Trimming and backspaces.                                                *)

Blank(c) == c <= Space

Str_ignoreWhitespace(str) ==
  LET p == First(str, 1, LAMBDA c : ~ Blank(c)) IN IF p = NULL THEN Len(str) + 1 ELSE p

\* Of a text that is not all blank: in one that is, it runs off the front.
Str_ignoreWhitespaceReverse(str) == SelectLastInSeq(str, LAMBDA c : ~ Blank(c))

Str_trimLeft(str) == From(str, Str_ignoreWhitespace(str))

Str_trimRight(str) == Fix(str, Str_ignoreWhitespaceReverse(str))

Str_trim(str) == Str_trimLeft(Str_trimRight(str))

Str_reverse(str) == Mem_reverse(str, Len(str))

\* Without the character before pointer p and the one there.
EraseAt(str, p) == SubSeq(str, 1, p - 2) \o From(str, p + 1)

\* From the end: a backspace goes with the character before it, one at the
\* start alone.  Each move of the code takes the null along and a byte behind
\* it, which is no part of the text.
Str_removeBackspaceFix(str, len) ==
  LET from == FoldRight(LAMBDA p, s : IF p <= Len(s) /\ s[p] = Backspace THEN EraseAt(s, p) ELSE s,
                        [i \in 1 .. len - 1 |-> i + 1], Fix(str, len))
  IN  IF from # <<>> /\ from[1] = Backspace THEN Tail(from) ELSE from

Str_removeBackspace(str) == Str_removeBackspaceFix(str, Len(str))

-----------------------------------------------------------------------------
(* Quoting.                                                                *)

\* The letter after a backslash for a character: \b \f \n \r \t " / \ .
EscapeLetter == [c \in {8, 10, 12, 13, 9, Quote, Slash, Backslash} |->
                   CASE c = 8  -> 98  [] c = 10 -> 110 [] c = 12 -> 102
                     [] c = 13 -> 114 [] c = 9  -> 116 [] OTHER  -> c]

escapeNotItselfMutant(c) ==
  CASE c \in DOMAIN EscapeLetter \ {Backslash} -> <<Backslash, EscapeLetter[c]>>
    [] c < Space                               -> <<Backslash>>
    [] OTHER                                   -> <<c>>

\* Of another control character only the backslash is written.
Escaped(c) == CASE c \in DOMAIN EscapeLetter -> <<Backslash, EscapeLetter[c]>>
                [] c < Space                 -> <<Backslash>>
                [] OTHER                     -> <<c>>

Str_convertStringFix(str, len) ==
  LET text == Fix(str, len)
  IN  <<Quote>> \o FlattenSeq([i \in DOMAIN text |-> Escaped(text[i])]) \o <<Quote>>

Str_convertString(str) == Str_convertStringFix(str, Len(str))

\* Four hexadecimal digits give one character or, the high byte first, two.
UnicodeChars(code) ==
  IF code \div 256 = 0 THEN <<code>> ELSE <<code \div 256, code % 256>>

Failed == [ok |-> FALSE, str |-> <<>>]

\* From pointer p of a quoted text up to the closing quote, after str.  A \u
\* has four characters after it.
RECURSIVE parseFrom(_, _, _)
parseFrom(string, p, str) ==
  LET c       == CharAt(string, p)
      letter  == CharAt(string, p + 1)
      plain   == {k \in DOMAIN EscapeLetter : EscapeLetter[k] = letter}
      unicode == Str_convertUNumFix(From(string, p + 2), 16, 4, 16)
  IN  CASE c = 0                       -> Failed
        [] c = Quote                   -> [ok |-> TRUE, str |-> str]
        [] c # Backslash               -> parseFrom(string, p + 1, Append(str, c))
        [] plain # {}                  -> parseFrom(string, p + 2, Append(str, Min(plain)))
        [] letter = 117 /\ unicode.ok  -> parseFrom(string, p + 6, str \o UnicodeChars(unicode.num))
        [] OTHER                       -> Failed

Str_parseString(string) ==
  IF CharAt(string, 1) = Quote THEN parseFrom(string, 2, <<>>) ELSE Failed

Str_fromString(string) == Str_parseString(string)
=============================================================================
