----------------------------- MODULE StreamPeek -----------------------------
(***************************************************************************)
(* Looking into a stream without moving it: the get, find and compare      *)
(* functions of Stream/StreamBuffer.c and the addresses they work with,    *)
(* and the readers that stop at a pattern.  An index counts bytes from the *)
(* oldest one, from 0; NotFound is the code's -1.                          *)
(*                                                                         *)
(* The functions trust one another with lengths and addresses.  A byte     *)
(* outside the buffer is Outside, which is no byte: what is delivered with *)
(* one in it is never right.                                               *)
(***************************************************************************)
EXTENDS StreamBuffer

NotFound == -1
Outside  == -1

\* n bytes of memory from address at on, which may lie outside the buffer.
memory(data, at, n) ==
  [i \in 1 .. n |-> IF at + i - 1 \in DOMAIN data THEN data[at + i - 1] ELSE Outside]

\* The difference of the first two bytes that differ.  C promises its sign only;
\* this is the number that common libraries return.
memcmp(a, b) ==
  LET Differ == {i \in DOMAIN a : a[i] # b[i]}
      first  == CHOOSE i \in Differ : \A j \in Differ : i <= j
  IN  IF Differ = {} THEN 0 ELSE a[first] - b[first]

\* The distance to the first byte val among n bytes from at on, or NotFound.
memchr(data, at, val, n) ==
  LET Found == {i \in 0 .. n - 1 : data[at + i] = val}
  IN  IF Found = {} THEN NotFound ELSE CHOOSE i \in Found : \A j \in Found : i <= j

\* memreverse moves its two pointers apart, so that it exchanges the outermost
\* bytes only; from four bytes on it goes on with bytes outside the array,
\* which belong to the caller and are left out.
memreverse(val) ==
  [i \in DOMAIN val |-> CASE i = 1        -> val[Len(val)]
                          [] i = Len(val) -> val[1]
                          [] OTHER        -> val[i]]

-----------------------------------------------------------------------------
(* Addresses, and how many bytes are in a row from there. *)

Stream_directAvailableAt(s, index) ==
  LET dirLen == Stream_directAvailable(s)
  IN  IF Stream_availableReal(s) = dirLen \/ dirLen > index
      THEN dirLen - index
      ELSE s.WPos - (index - dirLen)

Stream_directSpaceAt(s, index) ==
  LET dirLen == Stream_directSpace(s)
  IN  IF Stream_spaceReal(s) = dirLen \/ dirLen > index
      THEN dirLen - index
      ELSE s.RPos - (index - dirLen)

ptrAt(s, pos) == IF pos >= s.Size THEN pos % s.Size ELSE pos

Stream_getWritePtrAt(s, index) == ptrAt(s, ToLen(index + s.WPos))
Stream_getReadPtrAt(s, index)  == ptrAt(s, ToLen(index + s.RPos))

-----------------------------------------------------------------------------
(* Get. *)

\* Mutants: plausible bugs, each the code of the definition that follows it but
\* for one slip.  The name of a mutant ends in Mutant.
getPastWrapMutant(s, index, len) ==
  LET at     == (s.RPos + index) % s.Size
      tmpLen == s.Size - at
  IN  CASE len = 0 -> ReadRefuse("Stream_ZeroLen", s)
        [] len > 0 /\ Stream_available(s) - index < len ->
             ReadRefuse("Stream_NoAvailable", s)
        [] OTHER ->
             Deliver(s, IF at + len >= s.Size
                        THEN slice(s.Data, at, tmpLen) \o
                             memory(s.Data, at, len - tmpLen)
                        ELSE slice(s.Data, at, len))

\* What both get functions do; they differ in how they copy the two pieces.
getAt(s, index, len, whole, wrapped) ==
  LET at == (s.RPos + index) % s.Size
  IN  CASE len = 0 -> ReadRefuse("Stream_ZeroLen", s)
        [] len > 0 /\ Stream_available(s) - index < len ->
             ReadRefuse("Stream_NoAvailable", s)
        [] OTHER -> Deliver(s, IF at + len >= s.Size THEN wrapped ELSE whole)

Stream_getBytesAt(s, index, len) ==
  LET at     == (s.RPos + index) % s.Size
      tmpLen == s.Size - at
  IN  getAt(s, index, len, memory(s.Data, at, len),
            slice(s.Data, at, tmpLen) \o memory(s.Data, 0, len - tmpLen))

\* The first piece is taken from as many bytes further on as the second has,
\* beyond the buffer, and the pieces keep their order.
Stream_getBytesReverseAt(s, index, len) ==
  LET at     == (s.RPos + index) % s.Size
      tmpLen == s.Size - at
  IN  getAt(s, index, len, Reverse(memory(s.Data, at, len)),
            Reverse(memory(s.Data, at + len - tmpLen, tmpLen)) \o
              Reverse(memory(s.Data, 0, len - tmpLen)))

\* getCharAt ... getDoubleAt: like readNumber.
getNumberAt(s, index, width) ==
  LET r == IF s.OrderFn THEN Stream_getBytesReverseAt(s, index, width)
                        ELSE Stream_getBytesAt(s, index, width)
  IN  IF r.res = "Stream_Ok" THEN r.val ELSE Repeat(0, width)

\* The functions without an index pass the read position for one.
Stream_getBytes(s, len)        == Stream_getBytesAt(s, s.RPos, len)
Stream_getBytesReverse(s, len) == Stream_getBytesAt(s, s.RPos, len)
getNumber(s, width)            == getNumberAt(s, s.RPos, width)

\* getCharArrayAt ... getDoubleArrayAt: the bytes are counted as elements, and
\* each element begins one byte after the one before, whatever its width.
getArrayAt(s, index, n, width) ==
  IF Stream_available(s) < n
  THEN ReadRefuse("Stream_NoAvailable", s)
  ELSE Deliver(s, [i \in 1 .. n |-> getNumberAt(s, index + i - 1, width)])

\* getUInt64Array and getDoubleArray do not advance the index at all.
getArray(s, n, width, advance) ==
  IF Stream_available(s) < n
  THEN ReadRefuse("Stream_NoAvailable", s)
  ELSE Deliver(s, [i \in 1 .. n |->
                     getNumberAt(s, IF advance THEN i - 1 ELSE 0, width)])

-----------------------------------------------------------------------------
(* Compare. *)

\* The conversion to int8_t, a number of as many values as a byte has: the sign
\* changes when two bytes differ by more than half of them.
toInt8(n) == ((n + Bytes \div 2) % Bytes) - Bytes \div 2

compareFromStartMutant(s, index, val) ==
  LET len    == Len(val)
      tmpLen == Stream_directAvailableAt(s, index)
      n      == IF tmpLen < len THEN tmpLen ELSE len
      first  == toInt8(memcmp(memory(s.Data, Stream_getReadPtrAt(s, index), n),
                              SubSeq(val, 1, n)))
      second == toInt8(memcmp(memory(s.Data, Stream_getReadPtrAt(s, index + n), len - n),
                              SubSeq(val, 1, len - n)))
  IN  CASE len = 0 -> 0
        [] len > 0 /\ Stream_available(s) - index < len -> -2
        [] OTHER -> IF tmpLen < len /\ first = 0 THEN second ELSE first

\* -2 is the answer when the stream does not have that many bytes, and also that
\* for some bytes that differ.
Stream_compareAt(s, index, val) ==
  LET len    == Len(val)
      tmpLen == Stream_directAvailableAt(s, index)
      n      == IF tmpLen < len THEN tmpLen ELSE len
      first  == toInt8(memcmp(memory(s.Data, Stream_getReadPtrAt(s, index), n),
                              SubSeq(val, 1, n)))
      second == toInt8(memcmp(memory(s.Data, Stream_getReadPtrAt(s, index + n), len - n),
                              SubSeq(val, n + 1, len)))
  IN  CASE len = 0 -> 0
        [] len > 0 /\ Stream_available(s) - index < len -> -2
        [] OTHER -> IF tmpLen < len /\ first = 0 THEN second ELSE first

Stream_compare(s, val) == Stream_compareAt(s, 0, val)

-----------------------------------------------------------------------------
(* Find. *)

Stream_findByte(s, val) ==
  LET first  == memchr(s.Data, s.RPos, val, Stream_directAvailable(s))
      second == memchr(s.Data, 0, val, s.WPos)
  IN  CASE Stream_available(s) = 0 -> NotFound
        [] Stream_available(s) # 0 /\ first # NotFound -> first
        [] OTHER -> IF s.Overflow = 1 /\ second # NotFound
                    THEN second + s.Size - s.RPos
                    ELSE NotFound

findPastFirstMutant(s, offset, val) ==
  LET tmpLen == Stream_directAvailableAt(s, offset)
      first  == memchr(s.Data, Stream_getReadPtrAt(s, offset), val, tmpLen)
      second == memchr(s.Data, 0, val, s.WPos)
  IN  CASE Stream_available(s) < offset -> NotFound
        [] Stream_available(s) >= offset /\ first # NotFound -> first + offset
        [] OTHER -> IF tmpLen + offset < Stream_available(s) /\ second # NotFound
                    THEN second + offset + tmpLen + 1
                    ELSE NotFound

\* In the second piece the distance is counted from its start and added to
\* offset, without the length of the first piece: the index is too small.
Stream_findByteAt(s, offset, val) ==
  LET tmpLen == Stream_directAvailableAt(s, offset)
      first  == memchr(s.Data, Stream_getReadPtrAt(s, offset), val, tmpLen)
      second == memchr(s.Data, 0, val, s.WPos)
  IN  CASE Stream_available(s) < offset -> NotFound
        [] Stream_available(s) >= offset /\ first # NotFound -> first + offset
        [] OTHER -> IF tmpLen + offset < Stream_available(s) /\ second # NotFound
                    THEN second + offset
                    ELSE NotFound

\* The loop looks for the first byte of the pattern and compares the rest, and
\* goes on one byte further until no first byte is found.
Stream_findPatternAt(s, offset, pat) ==
  LET from[i \in 0 .. s.Size + 1] ==
        LET at == Stream_findByteAt(s, i, pat[1])
        IN  IF at = NotFound \/ Stream_compareAt(s, at, pat) = 0
            THEN at
            ELSE from[at + 1]
  IN  IF Stream_available(s) < Len(pat) THEN NotFound ELSE from[offset]

Stream_findPattern(s, pat) == Stream_findPatternAt(s, 0, pat)

\* findUInt16At ... findDoubleAt, and those without an offset, where it is 0.
findNumberAt(s, offset, val) ==
  Stream_findPatternAt(s, offset, IF s.OrderFn /\ Len(val) > 1
                                  THEN memreverse(val) ELSE val)

-----------------------------------------------------------------------------
(* Read until: up to len bytes, no further than what was looked for. *)

\* What is delivered is empty when the functions return 0.
readUpTo(s, n, len) ==
  LET r == Stream_readBytes(s, IF len < n THEN len ELSE n)
  IN  IF r.res = "Stream_Ok" THEN r ELSE Deliver(s, <<>>)

Stream_readBytesUntil(s, end, len) ==
  LET at == Stream_findByte(s, end)
  IN  IF at >= 0 THEN readUpTo(s, at + 1, len) ELSE Deliver(s, <<>>)

Stream_readBytesUntilPattern(s, pat, len) ==
  LET at == Stream_findPattern(s, pat)
  IN  IF at >= 0 THEN readUpTo(s, at + Len(pat), len) ELSE Deliver(s, <<>>)
=============================================================================
