------------------------------ MODULE StrCalls -------------------------------
(***************************************************************************)
(* A caller of src/Str/Str.c: it types a text, collects words in an array  *)
(* or counts, one of them at a time, and calls the functions that change a *)
(* text or an array in place.  The properties relate functions that are    *)
(* written separately: one undoes another, or two find the same.           *)
(***************************************************************************)
EXTENDS StrText, StrSort

CONSTANTS
  Chars,     \* the characters typed
  MaxText,   \* the longest text
  Words,     \* the words collected, none empty
  MaxWords,  \* the largest array
  Bits       \* the width of a number

ASSUME CharsAssumption == Chars \subseteq 1 .. 127
ASSUME SizesAssumption == MaxText \in Nat /\ MaxWords \in Nat /\ Bits \in 2 .. 16
ASSUME WordsAssumption == Words \subseteq Seq(1 .. 127) \ {<<>>}

VARIABLES
  text,   \* a string of the caller's
  words,  \* an array of strings of the caller's
  num     \* a number of the caller's

strVars == <<text, words, num>>

InitStr == text = <<>> /\ words = <<>> /\ num = 0

Type(c) ==
  /\ words = <<>> /\ num = 0 /\ Len(text) < MaxText
  /\ text' = Append(text, c)
  /\ UNCHANGED <<words, num>>

\* The functions that change a text in place; Str_trim not on a blank one.
Edit(edited) == text # <<>> /\ text' = edited /\ UNCHANGED <<words, num>>

Trim     == Str_ignoreWhitespaceReverse(text) # NULL /\ Edit(Str_trim(text))
Erase    == Edit(Str_removeBackspace(text))
Turn     == Edit(Str_reverse(text))
Parse    == Str_parseString(text).ok /\ Edit(Str_fromString(text).str)
Replace(word, replacement) ==
  Len(replacement) <= Len(word) /\ Edit(Str_replaceAll(text, word, replacement).str)

Collect(word) ==
  /\ text = <<>> /\ num = 0 /\ Len(words) < MaxWords
  /\ words' = Append(words, word)
  /\ UNCHANGED <<text, num>>

Sort ==
  /\ words # <<>>
  /\ words' \in {Str_sort(words), Str_quickSortReverse(words)}
  /\ UNCHANGED <<text, num>>

\* The numbers of the width, the least left out.
Count ==
  /\ text = <<>> /\ words = <<>>
  /\ num' \in {num + 1, num - 1} \cap ((1 - 2^(Bits - 1)) .. (2^(Bits - 1) - 1))
  /\ UNCHANGED <<text, words>>

NextStr ==
  \/ \E c \in Chars : Type(c)
  \/ Trim \/ Erase \/ Turn \/ Parse
  \/ \E word \in Words, c \in Chars : Replace(word, <<c>>) \/ Replace(word, <<>>)
  \/ \E word \in Words : Collect(word)
  \/ Sort \/ Count

StrSpec == InitStr /\ [][NextStr]_strVars

-----------------------------------------------------------------------------
(* Texts.                                                                  *)

\* The n-th character of a kind is where the list of all of them says, and the
\* last one is what the search from the end finds (indexOfAt, indexesOf with a
\* limit and without, reverseIndexOf).
IndexesAgree ==
  \A c \in Chars :
    LET all == Str_indexesOf(text, c)
    IN  /\ \A n \in 1 .. Len(text) :
             /\ Str_indexOfAt(text, c, n) = IF n <= Len(all) THEN all[n] ELSE NULL
             /\ Str_indexesOfFix(text, c, n) = SelectSeq(all, LAMBDA i : i <= n)
        /\ Str_reverseIndexOf(text, c, Len(text), 1) = IF all = <<>> THEN NULL ELSE Last(all)

\* Texts that may be cut: the last piece is not empty.
Cuttable(separator) == text # <<>> /\ Last(text) # separator

\* The pieces of a text with the separator between them are the text, and the
\* rows of split are the first of them, each as much of one as a row holds
\* (splitPtr, split).
PiecesMakeText ==
  \A separator \in Chars : Cuttable(separator) =>
    LET starts == Str_splitPtr(text, separator, MaxText + 1)
        pieces == [k \in DOMAIN starts |-> Piece(text, separator, starts[k])]
    IN  /\ FlattenSeq([k \in DOMAIN pieces |-> pieces[k] \o <<separator>>]) = Append(text, separator)
        /\ \A len \in 0 .. MaxText, rowLen \in 1 .. 3 :
             Str_split(text, separator, rowLen, len)
               = [k \in 1 .. Min({len, Len(pieces)}) |-> Fix(pieces[k], rowLen - 1)]

RECURSIVE TokensFrom(_, _)
TokensFrom(separator, p) ==
  LET call == Str_splitToken(text, separator, p)
  IN  IF p > Len(text) THEN <<>> ELSE <<call.token>> \o TokensFrom(separator, call.ptr)

\* The tokens that call after call returns are those that can be had by number,
\* and there is no further one; the first is what copyUntil copies
\* (splitToken, getToken, getTokenFix, copyUntil).
TokensAgree ==
  \A separator \in Chars : (Cuttable(separator) /\ text[1] # separator) =>
    LET tokens == TokensFrom(separator, 1)
        until  == Str_copyUntil(text, separator)
    IN  /\ \A n \in 1 .. Len(tokens) :
             /\ Str_getToken(text, separator, n - 1) = [ok |-> TRUE, token |-> tokens[n]]
             /\ Str_getTokenFix(text, separator, n - 1, 1).token = Fix(tokens[n], 1)
        /\ ~ Str_getToken(text, separator, Len(tokens)).ok
        /\ until.ok <=> Len(tokens) > 1
        /\ until.ok => until.dest = tokens[1]

\* A word replaced by what the text does not have is gone from it, and replaced
\* back gives the text and the same count (replaceAll, with a replacement as
\* long as the word, longer and shorter).  A replacement that has the word in it
\* is not looked into: the text becomes the one got by way of the fresh one.
ReplaceUndone ==
  \A word \in Words, long \in 1 .. 3 :
    LET fresh == [k \in 1 .. long |-> 127]
        there == Str_replaceAll(text, word, fresh)
        quoted == <<126>> \o word \o word \o <<126>>
    IN  /\ Str_replaceAll(there.str, word, <<>>).count = 0
        /\ Str_replaceAll(there.str, fresh, word) = [count |-> there.count, str |-> text]
        /\ Str_replaceAll(text, word, quoted) = Str_replaceAll(there.str, fresh, quoted)

\* Trimming takes blanks off both ends and nothing else: the text is some
\* blanks, the trimmed text and some blanks (trim, trimLeft, trimRight).
TrimKeepsTheInside ==
  (\E i \in DOMAIN text : ~ Blank(text[i])) =>
    LET trimmed == Str_trim(text)
    IN  /\ trimmed # <<>> /\ ~ Blank(trimmed[1]) /\ ~ Blank(Last(trimmed))
        /\ \E l \in 0 .. Len(text) :
             /\ SubSeq(text, l + 1, l + Len(trimmed)) = trimmed
             /\ \A i \in DOMAIN text : i \in l + 1 .. l + Len(trimmed) \/ Blank(text[i])

Typed(line, c) ==
  IF c # Backspace THEN Append(line, c) ELSE IF line = <<>> THEN line ELSE Front(line)

\* Removing from the end leaves what a terminal shows that handles every
\* backspace as it is typed, where no backspace follows another
\* (removeBackspace).
BackspacesErase ==
  (\A i \in 1 .. Len(text) - 1 : ~ (text[i] = Backspace /\ text[i + 1] = Backspace)) =>
    Str_removeBackspace(text) = FoldLeft(Typed, <<>>, text)

\* Whatever part of a text is quoted, parsing gives it back, if every control
\* character in it has an escape (convertString, convertStringFix,
\* parseString).
QuotingUndone ==
  \A len \in 0 .. Len(text) :
    (\A i \in 1 .. len : text[i] >= Space \/ text[i] \in DOMAIN EscapeLetter) =>
      Str_parseString(Str_convertStringFix(text, len)) = [ok |-> TRUE, str |-> Fix(text, len)]

-----------------------------------------------------------------------------
(* Numbers.                                                                *)

Radix == {2, 4, 8, 10, 16}

\* A number written in any radix, padded or not, in capitals or not, is read
\* back as the same number, signed and unsigned (parseNum, parseUNum,
\* convertNum, convertUNum).
NumbersReadBack ==
  \A base \in Radix, minLen \in 0 .. 4 :
    LET unsigned == num % 2^Bits
        written  == Str_parseUNum(unsigned, base, minLen)
    IN  /\ Len(written) >= minLen
        /\ Str_convertNum(Str_parseNum(num, base, minLen), base, Bits) = [ok |-> TRUE, num |-> num]
        /\ \A str \in {written, Str_lowerCase(written), Str_upperCase(Str_lowerCase(written))} :
             Str_convertUNum(str, base, Bits) = [ok |-> TRUE, num |-> unsigned]

\* A digit too large for the radix is an error wherever it stands, never a
\* number (convertUNumFix).
BadDigitRefused ==
  \A base \in Radix :
    LET written == Str_parseUNum(num % 2^Bits, base, 0)
        bad     == DigitChar(base)
    IN  \A k \in 0 .. Len(written) :
          ~ Str_convertUNum(Fix(written, k) \o <<bad>> \o From(written, k + 1), base, Bits).ok

\* Texts around a number: blank, with a letter, with a minus of their own.
Around == {<<>>, <<Space>>, <<97, Minus>>, <<97, 46>>, <<Minus, Space>>}

\* The first number in a text is found with its own sign and its own digits
\* only, whatever is around it (getNum, getUNum, findDigit, findLastDigit).
NumberFound ==
  \A before \in Around, after \in Around :
    LET str   == before \o Str_parseNum(num, 10, 0) \o after
        minus == before # <<>> /\ Last(before) = Minus
    IN  /\ Str_getNum(str, Bits) = [ok |-> TRUE, num |-> IF minus /\ num > 0 THEN -num ELSE num]
        /\ Str_getUNum(str, Bits) = [ok |-> TRUE, num |-> IF num < 0 THEN -num ELSE num]

\* A \u and the four hexadecimal digits of a code are one character, or for a
\* code of more than a byte the two with the bytes of the code, high byte first
\* (parseString, convertUNumFix, parseUNum).
UnicodeInTwoBytes ==
  \A high \in 0 .. 2 :
    LET low    == num % 2^Bits
        parsed == Str_parseString(<<Quote, Backslash, 117>>
                    \o Str_parseUNum(high * 256 + low, 16, 4) \o <<Quote>>)
    IN  low < 256 => /\ parsed.ok
                     /\ parsed.str = IF high = 0 THEN <<low>> ELSE <<high, low>>

-----------------------------------------------------------------------------
(* Arrays.                                                                 *)

Ordered(strs) == \A i \in 1 .. Len(strs) - 1 : Str_compare(strs[i], strs[i + 1]) <= 0

Permuted(a, b) ==
  \A w \in Words : Len(SelectSeq(a, LAMBDA x : x = w)) = Len(SelectSeq(b, LAMBDA x : x = w))

\* Both sorts order every array and lose or double no element, in either
\* direction, and stepping by the bytes of an element is stepping by elements
\* (sort, quickSort, their reverses, Mem_sort, Mem_quickSort).
SortsAgree ==
  LET sorted == Str_sort(words)
  IN  /\ Ordered(sorted) /\ Permuted(sorted, words)
      /\ Str_quickSort(words) = sorted
      /\ Str_sortReverse(words) = Reverse(sorted)
      /\ Str_quickSortReverse(words) = Reverse(sorted)
      /\ \A itemLen \in 2 .. 3 : /\ Mem_sort(words, itemLen, "compare") = sorted
                                 /\ Mem_quickSort(words, itemLen, "compare") = sorted

\* In a sorted array the binary search finds a word exactly when the linear
\* search does, and a place where it is (multiCompare, multiCompareSorted).
SearchesAgree ==
  LET sorted == Str_sort(words)
  IN  \A w \in Words :
        LET linear == Str_multiCompare(sorted, w)
            binary == Str_multiCompareSorted(sorted, w)
        IN  /\ linear = -1 <=> binary = -1
            /\ \A at \in {linear, binary} \ {-1} : sorted[at + 1] = w

\* Of sorted words none of which begins another, the binary search in a text
\* finds the same word at the same place as the linear one, within any limit
\* (findStrs, findStrsFix, findStrsSorted, findStrsSortedFix).
FindsTheSameWord ==
  (Ordered(words) /\ \A i, j \in DOMAIN words : i # j => ~ IsPrefix(words[i], words[j])) =>
    \A a, b \in Words :
      LET src == a \o b
      IN  /\ Str_findStrsSorted(src, words) = Str_findStrs(src, words)
          /\ \A srcLen \in 0 .. Len(src) :
               Str_findStrsSortedFix(src, words, srcLen) = Str_findStrsFix(src, words, srcLen)

-----------------------------------------------------------------------------
(* The parts of the library.                                               *)

\* However a text is cut at a character, by its places, into rows, by pointers
\* or token by token, the pieces are the same.
PiecesAgree == IndexesAgree /\ PiecesMakeText /\ TokensAgree

\* An edit in place changes what it is for and nothing beside it: replaceAll,
\* trim, removeBackspace.
EditsKeepTheRest == ReplaceUndone /\ TrimKeepsTheInside /\ BackspacesErase

\* What the escapes stand for comes back from them: convertString, parseString.
EscapesUndone == QuotingUndone /\ UnicodeInTwoBytes

\* Numbers come back from their texts, alone or with others around them, and
\* what is not a number is not read as one.
NumbersAgree == NumbersReadBack /\ BadDigitRefused /\ NumberFound

\* All the sorts give one order and all the searches find in it what is there.
ArraysAgree == SortsAgree /\ SearchesAgree /\ FindsTheSameWord
=============================================================================
