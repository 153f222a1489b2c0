---------------------------- MODULE StreamCalls ----------------------------
(***************************************************************************)
(* The program of StreamOps with the operations that are made of several   *)
(* calls, arrays of numbers and the readers that stop at a pattern, and    *)
(* what the functions that only look at a stream answer about every stream *)
(* that the program can reach.                                             *)
(***************************************************************************)
EXTENDS StreamOps, StreamPeek

CONSTANTS
  Widths,     \* bytes of the numbers in arrays
  MaxElements \* elements of the longest array

ASSUME WidthsAssumption   == Widths \subseteq Nat \ {0}
ASSUME ElementsAssumption == MaxElements \in Nat

Arrays    == UNION {[1 .. n -> [1 .. w -> Byte]] : n \in 0 .. MaxElements, w \in Widths}
Patterns  == UNION {[1 .. n -> Byte] : n \in 1 .. 2}
Indexes   == 0 .. Size

\* A number as its bytes come in the stream.
inOrder(val) == IF stream.OrderFn THEN Reverse(val) ELSE val

-----------------------------------------------------------------------------
\* writeCharArray ... writeDoubleArray: the numbers one by one, up to the first
\* that is refused, whose result is returned.  writeDoubleArray has one number
\* for all of them.
writeArray(s, vals) ==
  FoldLeft(LAMBDA r, val : IF r.res = "Stream_Ok" THEN writeNumber(r.s, val) ELSE r,
           Done(s), vals)

\* readCharArray ... readDoubleArray: the check counts bytes as elements, and
\* the numbers that are not there are 0.
readArray(s, n, width) ==
  IF Stream_available(s) < n
  THEN ReadRefuse("Stream_NoAvailable", s)
  ELSE FoldLeft(LAMBDA r, i : LET num == readNumber(r.s, width)
                              IN  Deliver(num.s, Append(r.val, num.val)),
                Deliver(s, <<>>), [i \in 1 .. n |-> i])

WriteArray(vals) ==
  LET r == writeArray(stream, vals)
  IN  /\ stream' = r.s
      /\ call' = Call("putArray", r.res, Len(vals),
                      [i \in DOMAIN vals |-> inOrder(vals[i])])

ReadArray(n, width) ==
  LET r == readArray(stream, n, width)
  IN  Returned("takeArray", r, n, [i \in DOMAIN r.val |-> inOrder(r.val[i])])

ReadBytesUntil(end, len) ==
  LET r == Stream_readBytesUntil(stream, end, len)
  IN  Returned("takeUntil", r, Len(r.val), r.val)

ReadBytesUntilPattern(pat, len) ==
  LET r == Stream_readBytesUntilPattern(stream, pat, len)
  IN  Returned("takeUntil", r, Len(r.val), r.val)

NextCall ==
  \/ Next
  \/ \E vals \in Arrays : WriteArray(vals)
  \/ \E n \in 0 .. MaxElements, width \in Widths : ReadArray(n, width)
  \/ \E end \in Byte, len \in Lens : ReadBytesUntil(end, len)
  \/ \E pat \in Patterns, len \in Lens : ReadBytesUntilPattern(pat, len)

CallsSpec == Init /\ [][NextCall]_vars

-----------------------------------------------------------------------------
(* What the answers should be, in terms of the bytes the stream holds. *)

Allowed == SubSeq(Contents(stream), 1, Stream_available(stream))

\* findByte looks at all bytes, those behind the read limit included.
AllAllowed == Stream_available(stream) = Stream_availableReal(stream)

Window(seq, index, len) == SubSeq(seq, index + 1, index + len)

Within(seq, index, len) == len > 0 /\ index + len <= Len(seq)

\* The bytes index .. index + len - 1 are in two pieces.
Crosses(index, len) == ((stream.RPos + index) % Size) + len > Size

FirstFrom(seq, pat, offset) ==
  LET Places == {at \in offset .. Len(seq) - Len(pat) : Window(seq, at, Len(pat)) = pat}
  IN  IF Places = {} THEN NotFound
      ELSE CHOOSE at \in Places : \A other \in Places : at <= other

\* A get function delivers what a read would deliver after index other bytes,
\* "without change the position of stream" (StreamBuffer.c:1416), whichever
\* way the bytes lie round the end of the buffer, and is refused when they are
\* not all there.  Numbers of the other byte order are excepted where they lie
\* in two pieces: getBytesReverseAt gets those wrong.  Arrays are of single
\* bytes: of wider numbers each is taken one byte behind the one before.  The
\* functions without an index take the read position for one and are right only
\* while it is 0.
GetLooksAhead ==
  LET bytes == Allowed IN
  \A index \in Indexes, len \in Lens :
    LET r == Stream_getBytesAt(stream, index, len)
        b == Stream_getBytesReverseAt(stream, index, len)
        a == getArrayAt(stream, index, len, 1)
        due == Window(bytes, index, len)
    IN  /\ (r.res = "Stream_Ok") = Within(bytes, index, len)
        /\ b.res = r.res
        /\ Within(bytes, index, len) =>
             /\ r.val = due
             /\ a.val = [i \in 1 .. len |-> Window(bytes, index + i - 1, 1)]
             /\ ~ Crosses(index, len) =>
                  /\ b.val = Reverse(due)
                  /\ getNumberAt(stream, index, len) = inOrder(due)
             /\ index = 0 => getArray(stream, len, 1, TRUE).val = a.val
        /\ stream.RPos = 0 /\ index = 0 =>
             /\ Stream_getBytes(stream, len) = r
             /\ len > 0 => getNumber(stream, len) = getNumberAt(stream, 0, len)

\* compareAt compares with the bytes as they follow one another in the stream,
\* wherever the ring ends ("compare a given bytes at index with available bytes
\* in stream", StreamBuffer.c:2384), and refuses when it is asked for more of
\* them than may be read.  Its answer is 0 for equal bytes only, whatever the
\* conversion to int8_t does to the difference; it tells which bytes are greater
\* as long as the first two that differ do so by less than half of the range.
ComparesContents ==
  LET bytes == Allowed IN
  \A index \in Indexes, pat \in Patterns :
    LET window == Window(bytes, index, Len(pat))
        order  == memcmp(window, pat)
        answer == Stream_compareAt(stream, index, pat)
    IN  /\ ~ Within(bytes, index, Len(pat)) => answer = -2
        /\ Within(bytes, index, Len(pat)) =>
             /\ (answer = 0) = (window = pat)
             /\ -Bytes < 2 * order /\ 2 * order < Bytes => answer = order
        /\ Stream_compare(stream, pat) = Stream_compareAt(stream, 0, pat)

\* findPattern and its relatives find the first place at or after the offset
\* where the pattern lies among the bytes that may be read, although the index
\* that findByteAt gives them is too small behind the end of the buffer; and
\* numbers of up to two bytes are found as writeNumber stores them.
FindsFirst ==
  LET bytes == Allowed IN
  \A pat \in Patterns :
    /\ \A offset \in Indexes :
         /\ Stream_findPatternAt(stream, offset, pat) = FirstFrom(bytes, pat, offset)
         /\ findNumberAt(stream, offset, pat) = FirstFrom(bytes, inOrder(pat), offset)
    /\ Stream_findPattern(stream, pat) = FirstFrom(bytes, pat, 0)
    /\ Len(pat) = 1 /\ AllAllowed =>
         Stream_findByte(stream, pat[1]) = FirstFrom(bytes, pat, 0)

\* The readers that stop at a pattern take the bytes up to and with the first
\* pattern, or the first len of them, and nothing when it is not there.
StopsAtPattern ==
  LET bytes == Allowed IN
  \A pat \in Patterns :
    LET at == FirstFrom(bytes, pat, 0) IN
    \A len \in Lens :
      LET n == IF len < at + Len(pat) THEN len ELSE at + Len(pat)
          r == Stream_readBytesUntilPattern(stream, pat, len)
      IN  /\ r.val = IF at = NotFound THEN <<>> ELSE Window(bytes, 0, n)
          /\ Len(pat) = 1 /\ AllAllowed =>
               Stream_readBytesUntil(stream, pat[1], len) = r

\* The addresses that the handlers and the peer threads use directly: the bytes
\* in a row from an index on are those of the stream, none of the bytes in a
\* row from a free place on is, and a row ends only at the end of the buffer or
\* of what was asked for.
RowsAreTheRing ==
  /\ \A index \in 0 .. Stream_availableReal(stream) - 1 :
       LET at == Stream_getReadPtrAt(stream, index)
           n  == Stream_directAvailableAt(stream, index)
       IN  /\ n > 0 /\ at + n <= Size
           /\ slice(stream.Data, at, n) = Window(Contents(stream), index, n)
           /\ index + n = Stream_availableReal(stream) \/ at + n = Size
  /\ \A index \in 0 .. Stream_spaceReal(stream) - 1 :
       LET at   == Stream_getWritePtrAt(stream, index)
           n    == Stream_directSpaceAt(stream, index)
           Used == {(stream.RPos + i) % Size : i \in 0 .. Stream_availableReal(stream) - 1}
       IN  /\ n > 0 /\ at + n <= Size
           /\ (at .. at + n - 1) \cap Used = {}
           /\ index + n = Stream_spaceReal(stream) \/ at + n = Size

\* Looking changes nothing and misses nothing: what the functions that get,
\* compare and point say of a ring, wrapped or not, is what its bytes are, one
\* after the other (the get, compare and direct functions of StreamBuffer.c), as
\* long as its limits hold.
LooksAhead == LimitsHold => GetLooksAhead /\ ComparesContents /\ RowsAreTheRing

\* A search answers with the first place there is, and the readers that search
\* stop just behind it (the find functions, readBytesUntil), as long as the
\* limits hold.
FindsAndStops == LimitsHold => FindsFirst /\ StopsAtPattern
=============================================================================
