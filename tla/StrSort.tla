------------------------------- MODULE StrSort -------------------------------
(***************************************************************************)
(* Sorting and searching arrays in src/Str/Str.c.                          *)
(*                                                                         *)
(* The Mem_ functions step through the bytes of an array of elements of    *)
(* itemLen bytes; the Str_ functions are the same code over an array of    *)
(* strings, steps of one.  Array indices start at 0.  len * itemLen is     *)
(* taken to fit in Mem_LenType.  A comparison is named, as the code passes *)
(* it by its address.                                                      *)
(***************************************************************************)
EXTENDS StrNumber

\* strcmp: the difference of the first characters that differ.
Str_compare(a, b) ==
  LET differ == {i \in 1 .. Max({Len(a), Len(b)}) : CharAt(a, i) # CharAt(b, i)}
  IN  IF differ = {} THEN 0 ELSE CharAt(a, Min(differ)) - CharAt(b, Min(differ))

Str_compareInverse(a, b) == Str_compare(b, a)

\* Only up to the end of a word, which is not empty.
Str_compareWord(str, word) ==
  LET differ == {i \in DOMAIN word : CharAt(str, i) # word[i]}
  IN  IF differ = {} THEN 0 ELSE CharAt(str, Min(differ)) - word[Min(differ)]

Compare(cmp, a, b) == CASE cmp = "compare"        -> Str_compare(a, b)
                        [] cmp = "compareInverse" -> Str_compareInverse(a, b)
                        [] cmp = "compareWord"    -> Str_compareWord(a, b)

-----------------------------------------------------------------------------
(* Sorting.  Element at byte b of the array, and the exchange of two.      *)

Item(items, b, itemLen) == items[b \div itemLen + 1]

Str_swap(items, a, b, itemLen) ==
  LET i == a \div itemLen + 1
      j == b \div itemLen + 1
  IN  [items EXCEPT ![i] = items[j], ![j] = items[i]]

\* The bytes low, low + itemLen, ... before end.
Steps(low, end, itemLen) ==
  [k \in 1 .. (IF low < end THEN (end - low + itemLen - 1) \div itemLen ELSE 0) |->
     low + (k - 1) * itemLen]

\* The first of the least elements from i on.
MinIdx(items, i, end, itemLen, cmp) ==
  FoldLeft(LAMBDA min, j :
             IF Compare(cmp, Item(items, j, itemLen), Item(items, min, itemLen)) < 0
             THEN j ELSE min,
           i, Steps(i + itemLen, end, itemLen))

Mem_sort(items, itemLen, cmp) ==
  LET end == Len(items) * itemLen
  IN  FoldLeft(LAMBDA s, i : Str_swap(s, MinIdx(s, i, end, itemLen, cmp), i, itemLen),
               items, Steps(0, end - itemLen, itemLen))

\* The elements below the last one go to the front, the last one after them.
Mem_partition(items, low, high, itemLen, cmp) ==
  LET pivot == Item(items, high, itemLen)
      moved == FoldLeft(LAMBDA s, j :
                 IF Compare(cmp, Item(s.items, j, itemLen), pivot) < 0
                 THEN [i     |-> s.i + itemLen,
                       items |-> Str_swap(s.items, s.i + itemLen, j, itemLen)]
                 ELSE s,
                 [i |-> low - itemLen, items |-> items], Steps(low, high, itemLen))
  IN  [pi    |-> moved.i + itemLen,
       items |-> Str_swap(moved.items, moved.i + itemLen, high, itemLen)]

RECURSIVE Mem_quickSortBlock(_, _, _, _, _)
Mem_quickSortBlock(items, low, high, itemLen, cmp) ==
  IF low >= high THEN items
  ELSE LET p    == Mem_partition(items, low, high, itemLen, cmp)
           left == Mem_quickSortBlock(p.items, low, p.pi - itemLen, itemLen, cmp)
       IN  Mem_quickSortBlock(left, p.pi + itemLen, high, itemLen, cmp)

Mem_quickSort(items, itemLen, cmp) ==
  Mem_quickSortBlock(items, 0, (Len(items) - 1) * itemLen, itemLen, cmp)

Str_selectionSortBlock(strs, cmp) == Mem_sort(strs, 1, cmp)
Str_quickSortBlock(strs, cmp)     == Mem_quickSort(strs, 1, cmp)

Str_sort(strs)             == Str_selectionSortBlock(strs, "compare")
Str_sortReverse(strs)      == Str_selectionSortBlock(strs, "compareInverse")
Str_quickSort(strs)        == Str_quickSortBlock(strs, "compare")
Str_quickSortReverse(strs) == Str_quickSortBlock(strs, "compareInverse")

-----------------------------------------------------------------------------
(* Searching.  -1 stands for not found.                                    *)

Mem_linearSearch(items, item, cmp) ==
  SelectInSeq(items, LAMBDA x : Compare(cmp, item, x) = 0) - 1

\* The conversion to char, signed as on x86.
toChar(n) == ((n + 128) % 256) - 128

\* Mutants: plausible bugs, each the code of the definition that follows it
\* but for one slip.
searchPastMiddleMutant(items, left, right, item, cmp) ==
  LET Halve[l \in Nat, r \in Int] ==
        LET mid    == (l + r) \div 2
            result == toChar(Compare(cmp, item, items[mid + 1]))
        IN  CASE l >= r     -> -1
              [] result = 0 -> mid
              [] result > 0 -> Halve[mid + 1, r]
              [] OTHER      -> Halve[l, mid - 1]
  IN  Halve[left, right]

\* Between left and right, both included, by halves.  The comparison is kept in
\* a char, which changes nothing for characters of seven bits.
binarySearchFrom(items, left, right, item, cmp) ==
  LET Halve[l \in Nat, r \in Int] ==
        LET mid    == (l + r) \div 2
            result == toChar(Compare(cmp, item, items[mid + 1]))
        IN  CASE l > r      -> -1
              [] result = 0 -> mid
              [] result > 0 -> Halve[mid + 1, r]
              [] OTHER      -> Halve[l, mid - 1]
  IN  Halve[left, right]

Mem_binarySearch(items, item, cmp) ==
  binarySearchFrom(items, 0, Len(items) - 1, item, cmp)

Str_linearSearch(strs, str, cmp) == Mem_linearSearch(strs, str, cmp)
Str_binarySearch(strs, str, cmp) == Mem_binarySearch(strs, str, cmp)

Str_multiCompare(strs, str)       == Str_linearSearch(strs, str, "compare")
Str_multiCompareSorted(strs, str) == Str_binarySearch(strs, str, "compare")

\* The words of strs one after the other at every pointer into src, srcLen of
\* them at most: the first pointer with a word, and the word's position.
Str_findStrsFix(src, strs, srcLen) ==
  LET word(p) == SelectInSeq(strs, LAMBDA w : Str_compareWord(From(src, p), w) = 0)
      found   == {p \in 1 .. Min({srcLen, Len(src)}) : word(p) # 0}
  IN  IF found = {} THEN [IndexOf |-> NULL, Position |-> -1]
      ELSE [IndexOf |-> Min(found), Position |-> word(Min(found)) - 1]

Str_findStrs(src, strs) == Str_findStrsFix(src, strs, Len(src))

\* The same with a binary search of the words.
Str_findStrsSortedFix(src, strs, srcLen) ==
  LET word(p) == Str_binarySearch(strs, From(src, p), "compareWord")
      found   == {p \in 1 .. Min({srcLen, Len(src)}) : word(p) >= 0}
  IN  IF found = {} THEN [IndexOf |-> NULL, Position |-> -1]
      ELSE [IndexOf |-> Min(found), Position |-> word(Min(found))]

Str_findStrsSorted(src, strs) == Str_findStrsSortedFix(src, strs, Len(src))
=============================================================================
