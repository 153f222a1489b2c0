------------------------------ MODULE ByteQueue ------------------------------
(***************************************************************************)
(* What a stream promises to the program that uses it: a bounded queue of  *)
(* bytes with an allowance on each side.  It knows nothing of positions,   *)
(* wrapping or an overflow flag.  The variable call is the last operation  *)
(* as its caller sees it: what was asked, with which bytes, and what came  *)
(* back.                                                                   *)
(***************************************************************************)
EXTENDS Integers, Sequences, SequencesExt

CONSTANTS Capacity, Unlimited

VARIABLES
  q,           \* the bytes accepted and not yet delivered, oldest first
  writeLimit,  \* how many bytes may still be written, or Unlimited
  readLimit,   \* how many bytes may still be read, or Unlimited
  call         \* [op, res, len, val]

qvars == <<q, writeLimit, readLimit, call>>

space     == IF writeLimit = Unlimited THEN Capacity - Len(q) ELSE writeLimit
available == IF readLimit = Unlimited THEN Len(q) ELSE readLimit

spend(limit, n) == IF limit = Unlimited THEN Unlimited ELSE limit - n

Init == /\ q = <<>>
        /\ writeLimit = Unlimited
        /\ readLimit = Unlimited
        /\ call.op = "init"

accepted == call'.res = "Stream_Ok"

\* The bytes of the call are queued behind those already there.  They fit, and
\* the allowance shrinks by as many.
Put == /\ call'.op = "put" /\ accepted
       /\ call'.len = Len(call'.val) /\ call'.len \in 1 .. space
       /\ Len(q) + call'.len <= Capacity
       /\ q' = q \o call'.val
       /\ writeLimit' = spend(writeLimit, call'.len)
       /\ UNCHANGED readLimit

\* Bytes whose values the queue does not promise.
PutAny == /\ call'.op = "putAny" /\ accepted
          /\ call'.len <= space
          /\ Len(q') = Len(q) + call'.len /\ Len(q') <= Capacity
          /\ SubSeq(q', 1, Len(q)) = q
          /\ writeLimit' \in {writeLimit, spend(writeLimit, call'.len)}
          /\ UNCHANGED readLimit

\* The oldest bytes are delivered, in the order they were written or, when the
\* caller asks for it, in the opposite one.
Take == /\ call'.op \in {"take", "takeReverse", "takeUntil"} /\ accepted
        /\ call'.len \in 1 .. available /\ call'.len <= Len(q)
        /\ call'.val = IF call'.op = "takeReverse"
                       THEN Reverse(SubSeq(q, 1, call'.len))
                       ELSE SubSeq(q, 1, call'.len)
        /\ q' = SubSeq(q, call'.len + 1, Len(q))
        /\ readLimit' = spend(readLimit, call'.len)
        /\ UNCHANGED writeLimit

\* A sequence of numbers is queued one by one, until one does not fit.
PutArray == /\ call'.op = "putArray"
            /\ \E n \in 0 .. Len(call'.val) :
                 LET put == FlattenSeq(SubSeq(call'.val, 1, n))
                 IN  /\ Len(put) <= space /\ Len(q) + Len(put) <= Capacity
                     /\ q' = q \o put
                     /\ writeLimit' = spend(writeLimit, Len(put))
                     /\ IF accepted
                        THEN n = Len(call'.val)
                        ELSE n < Len(call'.val) /\ Len(put) + Len(call'.val[n + 1]) > space
            /\ UNCHANGED readLimit

\* Numbers are taken one by one; the last ones are 0 when there are no more.
TakeArray == /\ call'.op = "takeArray" /\ accepted
             /\ call'.len <= available /\ Len(call'.val) = call'.len
             /\ \E n \in 0 .. call'.len :
                  LET taken == FlattenSeq(SubSeq(call'.val, 1, n))
                  IN  /\ Len(taken) <= available
                      /\ q = taken \o q'
                      /\ readLimit' = spend(readLimit, Len(taken))
                      /\ \A i \in n + 1 .. call'.len :
                           /\ Len(call'.val[i]) > available - Len(taken)
                           /\ \A j \in DOMAIN call'.val[i] : call'.val[i][j] = 0
             /\ UNCHANGED writeLimit

\* Nothing is delivered by a reader that does not find what it should stop at.
Miss == /\ call'.op = "takeUntil" /\ accepted /\ call'.val = <<>>
        /\ UNCHANGED <<q, writeLimit, readLimit>>

\* The oldest bytes are thrown away.
Drop == /\ call'.op = "drop" /\ accepted
        /\ call'.len <= available /\ call'.len <= Len(q)
        /\ q' = SubSeq(q, call'.len + 1, Len(q))
        /\ UNCHANGED <<writeLimit, readLimit>>

\* A call is refused only for a reason its caller can see.
Reject == /\ \/ call'.res = "Stream_ZeroLen" /\ call'.len = 0
             \/ call'.res = "Stream_NoSpace" /\ call'.len > space
             \/ call'.res = "Stream_NoAvailable" /\ call'.len > available
          /\ UNCHANGED <<q, writeLimit, readLimit>>

Clear == /\ call'.op = "clear"
         /\ q' = <<>>
         /\ UNCHANGED <<writeLimit, readLimit>>

\* An allowance is never larger than what there is.
Limit == /\ call'.op = "limit"
         /\ \/ /\ writeLimit' \in {Unlimited} \cup 0 .. (Capacity - Len(q))
               /\ UNCHANGED readLimit
            \/ /\ readLimit' \in {Unlimited} \cup 0 .. Len(q)
               /\ UNCHANGED writeLimit
         /\ UNCHANGED q

Next == \/ Put \/ PutAny \/ PutArray \/ Take \/ TakeArray \/ Miss
        \/ Drop \/ Reject \/ Clear \/ Limit

Spec == Init /\ [][Next]_qvars
=============================================================================
