----------------------------- MODULE ByteStream -----------------------------
(***************************************************************************)
(* What a buffer promises its callers: a FIFO of bytes.  An append takes   *)
(* every byte handed to it or none of them, and says which; a consumer     *)
(* gets the oldest bytes, in order; nothing else touches the contents.     *)
(* Buffer.tla is shown to implement this specification.                    *)
(***************************************************************************)
EXTENDS Naturals, Sequences

CONSTANTS Byte,    \* the values a byte of traffic can have
          Chunks   \* the byte strings producers append in one call

VARIABLES queue,   \* the bytes accepted and not yet consumed, oldest first
          taken,   \* the bytes the last call handed to its caller
          ret      \* how the last call returned

bsVars == <<queue, taken, ret>>

Init ==
    /\ queue = <<>>
    /\ taken = <<>>
    /\ ret = "ok"

Put(bs) ==
    /\ queue' = queue \o bs
    /\ taken' = <<>>
    /\ ret' = "ok"

\* A call that moves nothing: the producer had nothing, or there is no room.
Refuse ==
    /\ taken' = <<>>
    /\ ret' \in {"error", "eof"}
    /\ UNCHANGED queue

Take(n) ==
    /\ taken' = SubSeq(queue, 1, n)
    /\ queue' = SubSeq(queue, n + 1, Len(queue))
    /\ ret' = "ok"

\* Bytes dropped on purpose, without being handed to anyone.
Discard(n) ==
    /\ taken' = <<>>
    /\ queue' = SubSeq(queue, n + 1, Len(queue))
    /\ ret' = "ok"

Next ==
    \/ \E bs \in Chunks : Put(bs)
    \/ Refuse
    \/ \E n \in 0 .. Len(queue) : Take(n) \/ Discard(n)

Spec == Init /\ [][Next]_bsVars
=============================================================================
