---------------------------- MODULE TunnelLemmas ----------------------------
(***************************************************************************)
(* What the handlers of TunnelOps.tla preserve of a tunnel and of the      *)
(* bytes that go through it, whatever the payload and the size of the      *)
(* buffers: the lemmas on which TunnelProofs.tla rests.                    *)
(***************************************************************************)
EXTENDS Tunnel, SequenceTheorems, FiniteSetTheorems, TLAPS

-----------------------------------------------------------------------------
(* The inductive invariant.  What holds of a tunnel t also between the     *)
(* calls of one handler is Sound: nr tokens were read from each peer, gt   *)
(* is what each was sent, cn the remote connection and cs, rs what the     *)
(* client and the remote say in all.                                       *)

\* How many messages the handshake has taken out of the client's stream.
Taken(state) ==
    IF state = "open_state" THEN 0 ELSE IF state = "request_state" THEN 1 ELSE 2

\* There are no bytes in the buffers of a socket that is gone, none for a remote
\* before it is connected, and no connection before the request was handled.
Shape(t, cn) ==
    /\ t \in TunnelT(Tokens)
    /\ \A s \in Side : Len(t.rbuf[s]) <= BufMax /\ Len(t.wbuf[s]) <= BufMax
    /\ \A s \in Side : ~Open(t, s) => t.rbuf[s] = <<>> /\ t.wbuf[s] = <<>>
    /\ t.state \in {"open_state", "request_state"} => ~Open(t, "remote") /\ cn = "none"
    /\ t.state # "connected_state" => t.wbuf["remote"] = <<>>
    /\ t.state = "connected_state" => cn = "up"

\* The method reply is with the client or on its way.
Answered(t, gt) ==
    IF t.state = "open_state"
    THEN gt["client"] = <<>> /\ t.wbuf["client"] = <<>>
    ELSE \/ gt["client"] = <<>> /\ t.wbuf["client"] = <<method_reply>>
         \/ gt["client"] = <<method_reply>> /\ t.wbuf["client"] = <<>>

\* Until the tunnel is connected what was read waits, but for the messages of
\* the handshake, and nobody was sent more than the method reply.
Opens(t, cs, rs, nr, gt) ==
    t.state # "connected_state" =>
        /\ gt["remote"] = <<>>
        /\ gt["client"] \in {<<>>, <<method_reply>>}
        /\ t.state # "connecting_state" => nr["remote"] = 0
        /\ Open(t, "remote") => t.rbuf["remote"] = SubSeq(rs, 1, nr["remote"])
        /\ Open(t, "client") =>
              /\ nr["client"] >= Taken(t.state)
              /\ t.rbuf["client"] = SubSeq(cs, Taken(t.state) + 1, nr["client"])
              /\ Answered(t, gt)

\* BytesConserved, of the tunnel.
Flows(t) == t.state = "connected_state" /\ \A s \in Side : t.sock[s] = "connected"
Conserves(t, cs, rs, nr, gt) ==
    Flows(t) =>
        /\ nr["client"] >= 2
        /\ gt["remote"] \o t.wbuf["remote"] \o t.rbuf["client"] = SubSeq(cs, 3, nr["client"])
        /\ gt["client"] \o t.wbuf["client"] \o t.rbuf["remote"]
              = <<method_reply, connect_reply>> \o SubSeq(rs, 1, nr["remote"])

\* OutputArmed, of the tunnel.
Armed(t) ==
    \A s \in Side :
        (t.wbuf[s] # <<>> /\ "out" \notin t.interest[s])
            => t.state = "connected_state" /\ t.sock[Peer(s)] \in {"halfclosed", "null"}

Sound(t, cs, rs, nr, gt, cn) ==
    Shape(t, cn) /\ Opens(t, cs, rs, nr, gt) /\ Conserves(t, cs, rs, nr, gt) /\ Armed(t)

\* What also holds between two handlers.  During the handshake the client's
\* EPOLLOUT is on only for a reply that waits.
Calm(t) ==
    (t.state # "connected_state" /\ Open(t, "client") /\ "out" \in t.interest["client"])
        => t.wbuf["client"] # <<>>

\* Nothing of the client's stays in its read_buffer: what Gentle of
\* TunnelProofs.tla adds.
Passed(t, cs, nr, gt) ==
    t.state = "connected_state" =>
        /\ Open(t, "client") => nr["client"] >= 2
        /\ IF Open(t, "remote")
           THEN /\ t.rbuf["client"] = <<>>
                /\ gt["remote"] \o t.wbuf["remote"] = SubSeq(cs, 3, nr["client"])
           ELSE IsPrefix(gt["remote"], SubSeq(cs, 3, Len(cs)))

-----------------------------------------------------------------------------
(* What the functions of TunnelOps do, field by field.                     *)

LEMMA Sides ==
    /\ "client" \in Side /\ "remote" \in Side
    /\ Peer("client") = "remote" /\ Peer("remote") = "client"
    /\ \A s \in Side : /\ s \in {"client", "remote"}
                       /\ Peer(s) \in Side /\ Peer(s) # s /\ Peer(Peer(s)) = s
                       /\ \A x \in Side : x # s => x = Peer(s)
  BY DEF Side, Peer

\* The fields of a tunnel.
LEMMA TunnelParts ==
    ASSUME NEW t \in TunnelT(Tokens)
    PROVE  /\ t.state \in TunnelState /\ t.family \in Family
           /\ t.sock \in [Side -> SockState]
           /\ t.rbuf \in [Side -> Seq(Tokens)] /\ t.wbuf \in [Side -> Seq(Tokens)]
           /\ t.interest \in [Side -> SUBSET {"in", "out"}]
  BY DEF TunnelT

\* A tunnel with new fields.
Update(t, st, sock, rbuf, wbuf, interest) ==
    [t EXCEPT !.state = st, !.sock = sock, !.rbuf = rbuf, !.wbuf = wbuf,
              !.interest = interest]

LEMMA SockReleaseFields ==
    ASSUME NEW t \in TunnelT(Tokens), NEW s \in Side
    PROVE  LET u == SockRelease(t, s)
           IN  /\ u \in TunnelT(Tokens) /\ u.state = t.state
               /\ u.sock = [t.sock EXCEPT ![s] = "null"]
               /\ u.rbuf = [t.rbuf EXCEPT ![s] = <<>>]
               /\ u.wbuf = [t.wbuf EXCEPT ![s] = <<>>]
               /\ u.interest = [t.interest EXCEPT ![s] = {}]
<1> DEFINE sock == [t.sock EXCEPT ![s] = "null"]
           rbuf == [t.rbuf EXCEPT ![s] = <<>>]
           wbuf == [t.wbuf EXCEPT ![s] = <<>>]
           interest == [t.interest EXCEPT ![s] = {}]
           u == SockRelease(t, s)
<1>1. /\ sock \in [Side -> SockState] /\ rbuf \in [Side -> Seq(Tokens)]
      /\ wbuf \in [Side -> Seq(Tokens)]
      /\ interest \in [Side -> SUBSET {"in", "out"}]
  BY TunnelParts DEF SockState
<1>2. u = Update(t, t.state, sock, rbuf, wbuf, interest)
  BY DEF Update, SockRelease, TunnelT
<1>3. t.state \in TunnelState
  BY TunnelParts
<1> HIDE DEF u, sock, rbuf, wbuf, interest
<1>4. /\ u \in TunnelT(Tokens) /\ u.state = t.state /\ u.sock = sock
      /\ u.rbuf = rbuf /\ u.wbuf = wbuf /\ u.interest = interest
  BY <1>1, <1>2, <1>3 DEF Update, TunnelT
<1> QED
  BY <1>4 DEF u, sock, rbuf, wbuf, interest

\* The write_buffers after sock_shutdown moved what s had not forwarded.
Moved(t, s) ==
    LET to == ShutdownTarget(t, s)
    IN  IF t.state = "connected_state" /\ Open(t, to)
        THEN [t.wbuf EXCEPT ![to] = Concat(@, t.rbuf[s])] ELSE t.wbuf

LEMMA MovedType ==
    ASSUME NEW t \in TunnelT(Tokens), NEW s \in Side
    PROVE  Moved(t, s) \in [Side -> Seq(Tokens)] /\ ShutdownTarget(t, s) \in Side
<1>1. ShutdownTarget(t, s) \in Side
  BY DEF ShutdownTarget, Side
<1>2. Concat(t.wbuf[ShutdownTarget(t, s)], t.rbuf[s]) \in Seq(Tokens)
  BY <1>1, TunnelParts DEF Concat
<1> QED
  BY <1>1, <1>2, TunnelParts DEF Moved

LEMMA SockShutdownFields ==
    ASSUME NEW t \in TunnelT(Tokens), NEW s \in Side
    PROVE  LET u == SockShutdown(t, s)
               stays == Moved(t, s)[s] # <<>>
           IN  /\ u \in TunnelT(Tokens) /\ u.state = t.state
               /\ u.sock = [t.sock EXCEPT ![s] = IF stays THEN "halfclosed" ELSE "null"]
               /\ u.rbuf = [t.rbuf EXCEPT ![s] = IF stays THEN @ ELSE <<>>]
               /\ u.wbuf = Moved(t, s)
               /\ u.interest = [t.interest EXCEPT ![s] = IF stays THEN {"out"} ELSE {}]
<1> DEFINE to == ShutdownTarget(t, s)
           half == [t EXCEPT !.sock[s] = "halfclosed"]
           moved == IF t.state = "connected_state" /\ Open(t, to)
                    THEN [half EXCEPT !.wbuf[to] = Concat(@, t.rbuf[s])]
                    ELSE half
           sock == [t.sock EXCEPT ![s] = "halfclosed"]
           u == SockShutdown(t, s)
<1>1. /\ sock \in [Side -> SockState]
      /\ Moved(t, s) \in [Side -> Seq(Tokens)] /\ to \in Side
      /\ t.state \in TunnelState
  BY TunnelParts, MovedType DEF SockState
<1>2. moved = Update(t, t.state, sock, t.rbuf, Moved(t, s), t.interest)
  <2>1. half = [t EXCEPT !.sock = sock]
    BY DEF TunnelT
  <2>2. half.wbuf = t.wbuf
    BY DEF TunnelT
  <2> HIDE DEF half, sock
  <2>3. CASE t.state = "connected_state" /\ Open(t, to)
    <3>1. moved = [half EXCEPT !.wbuf = [t.wbuf EXCEPT ![to] = Concat(@, t.rbuf[s])]]
      BY <2>2, <2>3
    <3>2. moved = [half EXCEPT !.wbuf = Moved(t, s)]
      BY <2>3, <3>1 DEF Moved
    <3> HIDE DEF moved
    <3> QED
      BY <2>1, <3>2 DEF Update, TunnelT
  <2>4. CASE ~(t.state = "connected_state" /\ Open(t, to))
    <3>1. moved = half /\ Moved(t, s) = t.wbuf
      BY <2>4 DEF Moved
    <3> HIDE DEF moved
    <3> QED
      BY <2>1, <3>1 DEF Update, TunnelT
  <2> QED
    BY <2>3, <2>4
<1>3. u = IF moved.wbuf[s] # <<>> THEN [moved EXCEPT !.interest[s] = {"out"}]
                                  ELSE SockRelease(moved, s)
  BY Zenon DEF SockShutdown
<1> HIDE DEF moved, u, sock
<1>4. /\ moved \in TunnelT(Tokens) /\ moved.state = t.state /\ moved.sock = sock
      /\ moved.rbuf = t.rbuf /\ moved.wbuf = Moved(t, s)
      /\ moved.interest = t.interest
  BY <1>1, <1>2, TunnelParts DEF Update, TunnelT
<1>5. CASE Moved(t, s)[s] # <<>>
  <2> DEFINE interest == [t.interest EXCEPT ![s] = {"out"}]
  <2>1. interest \in [Side -> SUBSET {"in", "out"}]
    BY TunnelParts
  <2>2. u = [moved EXCEPT !.interest[s] = {"out"}]
    BY <1>3, <1>4, <1>5
  <2>3. u = Update(moved, t.state, sock, t.rbuf, Moved(t, s), interest)
    BY <1>4, <2>2 DEF Update, TunnelT
  <2> HIDE DEF interest
  <2>4. /\ u \in TunnelT(Tokens) /\ u.state = t.state /\ u.sock = sock
        /\ u.rbuf = t.rbuf /\ u.wbuf = Moved(t, s) /\ u.interest = interest
    BY <1>1, <1>4, <2>1, <2>3, TunnelParts DEF Update, TunnelT
  <2>5. t.rbuf = [t.rbuf EXCEPT ![s] = @]
    BY TunnelParts
  <2> QED
    BY <1>5, <2>4, <2>5 DEF u, sock, interest
<1>6. CASE Moved(t, s)[s] = <<>>
  <2>1. u = SockRelease(moved, s)
    BY <1>3, <1>4, <1>6
  <2>2. /\ u \in TunnelT(Tokens) /\ u.state = t.state
        /\ u.sock = [sock EXCEPT ![s] = "null"]
        /\ u.rbuf = [t.rbuf EXCEPT ![s] = <<>>]
        /\ u.wbuf = [Moved(t, s) EXCEPT ![s] = <<>>]
        /\ u.interest = [t.interest EXCEPT ![s] = {}]
    <3> DEFINE v == SockRelease(moved, s)
    <3>1. /\ v \in TunnelT(Tokens) /\ v.state = moved.state
          /\ v.sock = [moved.sock EXCEPT ![s] = "null"]
          /\ v.rbuf = [moved.rbuf EXCEPT ![s] = <<>>]
          /\ v.wbuf = [moved.wbuf EXCEPT ![s] = <<>>]
          /\ v.interest = [moved.interest EXCEPT ![s] = {}]
      BY <1>4, SockReleaseFields
    <3> HIDE DEF v
    <3> QED
      BY <1>4, <2>1, <3>1 DEF v
  <2>3. [sock EXCEPT ![s] = "null"] = [t.sock EXCEPT ![s] = "null"]
    BY TunnelParts DEF sock
  <2>4. [Moved(t, s) EXCEPT ![s] = <<>>] = Moved(t, s)
    BY <1>1, <1>6
  <2> QED
    BY <1>6, <2>2, <2>3, <2>4 DEF u
<1> QED
  BY <1>5, <1>6

LEMMA WriteClientFields ==
    ASSUME NEW t \in TunnelT(Tokens), NEW reply \in Tokens
    PROVE  LET u == WriteClient(t, reply)
           IN  /\ u \in TunnelT(Tokens) /\ u.state = t.state /\ u.sock = t.sock
               /\ u.rbuf = t.rbuf
               /\ u.wbuf = [t.wbuf EXCEPT !["client"] = Append(@, reply)]
               /\ u.interest = [t.interest EXCEPT !["client"] = {"in", "out"}]
<1> DEFINE wbuf == [t.wbuf EXCEPT !["client"] = Append(@, reply)]
           interest == [t.interest EXCEPT !["client"] = {"in", "out"}]
           u == WriteClient(t, reply)
<1>1. Append(t.wbuf["client"], reply) \in Seq(Tokens)
  BY Sides, TunnelParts
<1>2. wbuf \in [Side -> Seq(Tokens)] /\ interest \in [Side -> SUBSET {"in", "out"}]
  BY <1>1, Sides, TunnelParts
<1>3. u = Update(t, t.state, t.sock, t.rbuf, wbuf, interest)
  BY DEF Update, WriteClient, TunnelT
<1> HIDE DEF u, wbuf, interest
<1>4. /\ u \in TunnelT(Tokens) /\ u.state = t.state /\ u.sock = t.sock
      /\ u.rbuf = t.rbuf /\ u.wbuf = wbuf /\ u.interest = interest
  BY <1>2, <1>3, TunnelParts DEF Update, TunnelT
<1> QED
  BY <1>4 DEF u, wbuf, interest

LEMMA EstablishedFields ==
    ASSUME NEW t \in TunnelT(Tokens)
    PROVE  LET u == Established(t)
           IN  /\ u \in TunnelT(Tokens) /\ u.state = "connected_state"
               /\ u.sock = [t.sock EXCEPT !["remote"] = "connected"]
               /\ u.rbuf = t.rbuf /\ u.wbuf = t.wbuf /\ u.interest = t.interest
<1> DEFINE sock == [t.sock EXCEPT !["remote"] = "connected"]
           u == Established(t)
<1>1. sock \in [Side -> SockState]
  BY TunnelParts DEF SockState
<1>2. u = Update(t, "connected_state", sock, t.rbuf, t.wbuf, t.interest)
  BY DEF Update, Established, TunnelT
<1> HIDE DEF u, sock
<1>3. /\ u \in TunnelT(Tokens) /\ u.state = "connected_state" /\ u.sock = sock
      /\ u.rbuf = t.rbuf /\ u.wbuf = t.wbuf /\ u.interest = t.interest
  BY <1>1, <1>2, TunnelParts DEF Update, TunnelT, TunnelState
<1> QED
  BY <1>3 DEF u, sock

LEMMA ForwardedFields ==
    ASSUME NEW t \in TunnelT(Tokens), NEW s \in Side
    PROVE  LET u == Forwarded(t, s)
           IN  /\ u \in TunnelT(Tokens) /\ u.state = t.state /\ u.sock = t.sock
               /\ u.rbuf = [t.rbuf EXCEPT ![s] = <<>>]
               /\ u.wbuf = [t.wbuf EXCEPT ![Peer(s)] = @ \o t.rbuf[s]]
               /\ u.interest = [t.interest EXCEPT ![Peer(s)] = {"in", "out"}]
<1> DEFINE rbuf == [t.rbuf EXCEPT ![s] = <<>>]
           wbuf == [t.wbuf EXCEPT ![Peer(s)] = @ \o t.rbuf[s]]
           interest == [t.interest EXCEPT ![Peer(s)] = {"in", "out"}]
           u == Forwarded(t, s)
<1>1. t.wbuf[Peer(s)] \o t.rbuf[s] \in Seq(Tokens)
  BY Sides, TunnelParts
<1>2. /\ rbuf \in [Side -> Seq(Tokens)] /\ wbuf \in [Side -> Seq(Tokens)]
      /\ interest \in [Side -> SUBSET {"in", "out"}]
  BY <1>1, Sides, TunnelParts
<1>3. u = Update(t, t.state, t.sock, rbuf, wbuf, interest)
  BY DEF Update, Forwarded, TunnelT
<1> HIDE DEF u, rbuf, wbuf, interest
<1>4. /\ u \in TunnelT(Tokens) /\ u.state = t.state /\ u.sock = t.sock
      /\ u.rbuf = rbuf /\ u.wbuf = wbuf /\ u.interest = interest
  BY <1>2, <1>3, TunnelParts DEF Update, TunnelT
<1> QED
  BY <1>4 DEF u, rbuf, wbuf, interest

-----------------------------------------------------------------------------
(* Sequences.                                                              *)

\* What comes before the rest of a piece of a sequence is a prefix of what
\* the piece is a prefix of.
LEMMA FrontIsPrefix ==
    ASSUME NEW S, NEW cs \in Seq(S), NEW n \in Nat, n <= Len(cs),
           NEW a \in Seq(S), NEW b \in Seq(S), a \o b = SubSeq(cs, 3, n)
    PROVE  IsPrefix(a, SubSeq(cs, 3, Len(cs)))
<1> DEFINE p == SubSeq(cs, 3, n)
           q == SubSeq(cs, 3, Len(cs))
<1>1. /\ Len(cs) \in Nat
      /\ p \in Seq(S) /\ Len(p) = IF 3 <= n THEN n - 2 ELSE 0
      /\ q \in Seq(S) /\ Len(q) = IF 3 <= Len(cs) THEN Len(cs) - 2 ELSE 0
      /\ \A i \in 1 .. Len(p) : p[i] = cs[i + 2]
      /\ \A i \in 1 .. Len(q) : q[i] = cs[i + 2]
  <2>1. Len(cs) \in Nat
    BY LenProperties
  <2>2. /\ p \in Seq(S) /\ Len(p) = (IF 3 <= n THEN n - 3 + 1 ELSE 0)
        /\ \A i \in 1 .. n - 3 + 1 : p[i] = cs[3 + i - 1]
    BY <2>1, SubSeqProperties, SMTT(40)
  <2>3. /\ q \in Seq(S) /\ Len(q) = (IF 3 <= Len(cs) THEN Len(cs) - 3 + 1 ELSE 0)
        /\ \A i \in 1 .. Len(cs) - 3 + 1 : q[i] = cs[3 + i - 1]
    BY <2>1, SubSeqProperties
  <2> HIDE DEF p, q
  <2> QED
    BY <2>1, <2>2, <2>3
<1> HIDE DEF q
<1>2. Len(p) <= Len(q)
  BY <1>1
<1>3. Len(a \o b) = Len(a) + Len(b) /\ Len(a) \in Nat /\ Len(b) \in Nat
  BY ConcatProperties, LenProperties
<1>4. \A i \in 1 .. Len(a) : (a \o b)[i] = a[i]
  BY ConcatProperties
<1> HIDE DEF p
<1>5. a \o b = p
  BY DEF p
<1>6. Len(a) <= Len(q)
  BY <1>2, <1>3, <1>5
<1>7. SubSeq(a, 1, Len(a)) = a
  BY SubSeqFull
<1>8. /\ SubSeq(q, 1, Len(a)) \in Seq(S) /\ Len(SubSeq(q, 1, Len(a))) = Len(a)
      /\ \A i \in 1 .. Len(a) : SubSeq(q, 1, Len(a))[i] = q[i]
  BY <1>1, <1>3, <1>6, SubSeqProperties
<1>9. \A i \in 1 .. Len(a) : SubSeq(q, 1, Len(a))[i] = a[i]
  <2> SUFFICES ASSUME NEW i \in 1 .. Len(a)
               PROVE  SubSeq(q, 1, Len(a))[i] = a[i]
    OBVIOUS
  <2>1. i \in 1 .. Len(p) /\ i \in 1 .. Len(q)
    BY <1>1, <1>3, <1>5, <1>6
  <2>2. a[i] = p[i] /\ p[i] = cs[i + 2] /\ q[i] = cs[i + 2]
    BY <1>1, <1>4, <1>5, <2>1
  <2> QED
    BY <1>8, <2>2
<1>10. SubSeq(q, 1, Len(a)) = a
  <2> HIDE DEF p
  <2> DEFINE w == SubSeq(q, 1, Len(a))
  <2>1. w \in Seq(S) /\ Len(w) = Len(a) /\ \A i \in 1 .. Len(w) : w[i] = a[i]
    BY <1>8, <1>9
  <2> HIDE DEF w
  <2>2. w = a
    BY <2>1, SeqEqual
  <2> QED
    BY <2>2 DEF w
<1>11. Len(a) <= Len(q) /\ SubSeq(a, 1, Len(a)) = SubSeq(q, 1, Len(a))
  BY <1>6, <1>7, <1>10
<1> QED
  BY <1>11 DEF IsPrefix, q

LEMMA ConcatIsPrefix ==
    ASSUME NEW S, NEW cs \in Seq(S), NEW n \in Nat, n <= Len(cs),
           NEW a \in Seq(S), a = SubSeq(cs, 3, n)
    PROVE  IsPrefix(a, SubSeq(cs, 3, Len(cs)))
<1>1. a \o <<>> = a
  BY ConcatEmptySeq
<1>2. <<>> \in Seq(S)
  BY EmptySeq
<1> QED
  BY <1>1, <1>2, FrontIsPrefix

\* What is at the front of the rest joins what is before it.
LEMMA Regrouped ==
    ASSUME NEW a \in Seq(Tokens), NEW b \in Seq(Tokens), NEW c \in Seq(Tokens)
    PROVE  /\ (a \o (b \o c)) \o <<>> = (a \o b) \o c
           /\ a \o (b \o c) = (a \o b) \o c
           /\ (a \o b) \o c \in Seq(Tokens)
<1>1. a \o (b \o c) = (a \o b) \o c
  BY ConcatAssociative
<1>2. (a \o b) \o c \in Seq(Tokens)
  BY ConcatProperties
<1> QED
  BY <1>1, <1>2, ConcatEmptySeq

-----------------------------------------------------------------------------
(* What the functions of TunnelOps keep true.                              *)

\* What was read and sent is of the right kind, and no more than was said.
Given(cs, rs, nr, gt) ==
    /\ cs \in Seq(Tokens) /\ rs \in Seq(Tokens)
    /\ nr \in [Side -> Nat] /\ gt \in [Side -> Seq(Tokens)]
    /\ nr["client"] <= Len(cs) /\ nr["remote"] <= Len(rs)

\* Connected stays connected, and a socket that closes stays so.
Narrow(t, u) ==
    t.state = "connected_state" =>
        /\ u.state = "connected_state"
        /\ \A s \in Side : u.sock[s] = "connected" => t.sock[s] = "connected"

\* What waits for a client during the handshake stays.
Spares(t, u) ==
    (u.state # "connected_state" /\ Open(u, "client")) =>
        Open(t, "client") /\ u.wbuf["client"] = t.wbuf["client"]

\* From t to u nothing of the invariant is lost.
Preserves(t, u, cs, rs, nr, gt, cn) ==
    /\ Sound(u, cs, rs, nr, gt, cn)
    /\ Calm(t) => Calm(u)
    /\ Narrow(t, u) /\ Spares(t, u)
Keeps(t, u, cs, rs, nr, gt, cn) ==
    /\ Preserves(t, u, cs, rs, nr, gt, cn)
    /\ Passed(t, cs, nr, gt) => Passed(u, cs, nr, gt)

LEMMA SockReleaseKeeps ==
    ASSUME NEW t, NEW cs, NEW rs, NEW nr, NEW gt, NEW cn, Given(cs, rs, nr, gt),
           Sound(t, cs, rs, nr, gt, cn), NEW s \in Side
    PROVE  Keeps(t, SockRelease(t, s), cs, rs, nr, gt, cn)
<1> DEFINE u == SockRelease(t, s)
<1>1. t \in TunnelT(Tokens)
  BY DEF Sound, Shape
<1>2. /\ u \in TunnelT(Tokens) /\ u.state = t.state
      /\ \A x \in Side : /\ u.sock[x] = IF x = s THEN "null" ELSE t.sock[x]
                         /\ u.rbuf[x] = IF x = s THEN <<>> ELSE t.rbuf[x]
                         /\ u.wbuf[x] = IF x = s THEN <<>> ELSE t.wbuf[x]
                         /\ u.interest[x] = IF x = s THEN {} ELSE t.interest[x]
  <2>1. /\ u \in TunnelT(Tokens) /\ u.state = t.state
        /\ u.sock = [t.sock EXCEPT ![s] = "null"]
        /\ u.rbuf = [t.rbuf EXCEPT ![s] = <<>>]
        /\ u.wbuf = [t.wbuf EXCEPT ![s] = <<>>]
        /\ u.interest = [t.interest EXCEPT ![s] = {}]
    BY <1>1, SockReleaseFields
  <2> HIDE DEF u
  <2> QED
    BY <1>1, <2>1, TunnelParts
<1> HIDE DEF u
<1>3. Shape(u, cn)
  <2>1. Len(<<>>) <= BufMax
    BY TunnelAssumption, TunnelOpsAssumption
  <2> QED
    BY <1>2, <2>1, Sides DEF Sound, Shape, Open
<1>4. Opens(u, cs, rs, nr, gt)
  BY <1>2, Sides DEF Sound, Opens, Open, Answered
<1>5. Conserves(u, cs, rs, nr, gt)
  BY <1>2, Sides DEF Conserves, Flows
<1>6. Armed(u)
  BY <1>2, Sides DEF Sound, Armed
<1>7. Calm(t) => Calm(u)
  BY <1>2, Sides DEF Calm, Open
<1>8. Passed(t, cs, nr, gt) => Passed(u, cs, nr, gt)
  <2>1. CASE s = "remote" /\ t.state = "connected_state" /\ Open(t, "remote")
    <3> SUFFICES ASSUME Passed(t, cs, nr, gt)
                 PROVE  IsPrefix(gt["remote"], SubSeq(cs, 3, Len(cs)))
      BY <1>2, <2>1, Sides DEF Passed, Open
    <3>1. gt["remote"] \o t.wbuf["remote"] = SubSeq(cs, 3, nr["client"])
      BY <2>1 DEF Passed
    <3>2. gt["remote"] \in Seq(Tokens) /\ t.wbuf["remote"] \in Seq(Tokens)
      BY <1>1, Sides, TunnelParts DEF Given
    <3>3. cs \in Seq(Tokens) /\ nr["client"] \in Nat /\ nr["client"] <= Len(cs)
      BY Sides DEF Given
    <3> QED
      BY <3>1, <3>2, <3>3, FrontIsPrefix
  <2>2. CASE ~(s = "remote" /\ t.state = "connected_state" /\ Open(t, "remote"))
    BY <1>2, <2>2, Sides DEF Passed, Open
  <2> QED
    BY <2>1, <2>2
<1>9. Narrow(t, u)
  BY <1>2 DEF Narrow
<1>10. Spares(t, u)
  BY <1>2, Sides DEF Spares, Open
<1> QED
  BY <1>3, <1>4, <1>5, <1>6, <1>7, <1>8, <1>9, <1>10 DEF Keeps, Preserves, Sound, u

LEMMA PreservesTransitive ==
    ASSUME NEW t, NEW u, NEW v, NEW cs, NEW rs, NEW nr, NEW gt, NEW cn,
           Preserves(t, u, cs, rs, nr, gt, cn), Preserves(u, v, cs, rs, nr, gt, cn)
    PROVE  Preserves(t, v, cs, rs, nr, gt, cn)
<1>1. Narrow(t, v)
  BY DEF Preserves, Narrow
<1>2. Spares(t, v)
  BY DEF Preserves, Narrow, Spares
<1> QED
  BY <1>1, <1>2 DEF Preserves

LEMMA KeepsTransitive ==
    ASSUME NEW t, NEW u, NEW v, NEW cs, NEW rs, NEW nr, NEW gt, NEW cn,
           Keeps(t, u, cs, rs, nr, gt, cn), Keeps(u, v, cs, rs, nr, gt, cn)
    PROVE  Keeps(t, v, cs, rs, nr, gt, cn)
  BY PreservesTransitive DEF Keeps

\* What sock_shutdown moves fits, and moves nothing before the tunnel is
\* connected.
LEMMA MovedShape ==
    ASSUME NEW t, NEW cn, Shape(t, cn), NEW s \in Side
    PROVE  /\ Moved(t, s) \in [Side -> Seq(Tokens)]
           /\ \A x \in Side : Len(Moved(t, s)[x]) <= BufMax
           /\ t.state # "connected_state" => Moved(t, s) = t.wbuf
           /\ \A x \in Side : x # ShutdownTarget(t, s) => Moved(t, s)[x] = t.wbuf[x]
           /\ \A x \in Side : ~Open(t, x) => Moved(t, s)[x] = t.wbuf[x]
           /\ t.rbuf[s] = <<>> => Moved(t, s) = t.wbuf
<1> DEFINE to == ShutdownTarget(t, s)
           both == Concat(t.wbuf[to], t.rbuf[s])
<1>1. t \in TunnelT(Tokens) /\ to \in Side /\ Moved(t, s) \in [Side -> Seq(Tokens)]
  BY MovedType DEF Shape
<1>2. Moved(t, s) = IF t.state = "connected_state" /\ Open(t, to)
                    THEN [t.wbuf EXCEPT ![to] = both] ELSE t.wbuf
  BY DEF Moved
<1>3. t.wbuf[to] \in Seq(Tokens) /\ t.rbuf[s] \in Seq(Tokens) /\ Len(t.wbuf[to]) <= BufMax
  BY <1>1, TunnelParts DEF Shape
<1>4. Len(both) <= BufMax
  BY <1>3, ConcatProperties DEF Concat, FitsIn
<1>5. t.rbuf[s] = <<>> => both = t.wbuf[to]
  BY <1>3, ConcatEmptySeq DEF Concat
<1> HIDE DEF both, to
<1>6. \A x \in Side : Len(Moved(t, s)[x]) <= BufMax
  BY <1>1, <1>2, <1>4, TunnelParts DEF Shape
<1>7. /\ t.state # "connected_state" => Moved(t, s) = t.wbuf
      /\ \A x \in Side : x # to => Moved(t, s)[x] = t.wbuf[x]
      /\ \A x \in Side : ~Open(t, x) => Moved(t, s)[x] = t.wbuf[x]
      /\ t.rbuf[s] = <<>> => Moved(t, s) = t.wbuf
  BY <1>1, <1>2, <1>5, TunnelParts
<1> QED
  BY <1>1, <1>6, <1>7 DEF to

LEMMA SockShutdownKeeps ==
    ASSUME NEW t, NEW cs, NEW rs, NEW nr, NEW gt, NEW cn, Given(cs, rs, nr, gt),
           Sound(t, cs, rs, nr, gt, cn), NEW s \in Side, Open(t, s)
    PROVE  LET u == SockShutdown(t, s)
           IN  /\ Keeps(t, u, cs, rs, nr, gt, cn)
               /\ u.state = t.state
               /\ u.sock[s] # "connected" /\ u.sock[Peer(s)] = t.sock[Peer(s)]
<1> DEFINE u == SockShutdown(t, s)
           m == Moved(t, s)
<1>1. t \in TunnelT(Tokens)
  BY DEF Sound, Shape
<1>2. /\ m \in [Side -> Seq(Tokens)]
      /\ \A x \in Side : Len(m[x]) <= BufMax
      /\ t.state # "connected_state" => m = t.wbuf
      /\ \A x \in Side : x # ShutdownTarget(t, s) => m[x] = t.wbuf[x]
      /\ \A x \in Side : ~Open(t, x) => m[x] = t.wbuf[x]
      /\ t.rbuf[s] = <<>> => m = t.wbuf
  BY MovedShape DEF Sound
<1>3. /\ u \in TunnelT(Tokens) /\ u.state = t.state /\ u.wbuf = m
      /\ \A x \in Side :
            /\ u.sock[x] = IF x # s THEN t.sock[x]
                           ELSE IF m[s] # <<>> THEN "halfclosed" ELSE "null"
            /\ u.rbuf[x] = IF x = s /\ m[s] = <<>> THEN <<>> ELSE t.rbuf[x]
            /\ u.interest[x] = IF x # s THEN t.interest[x]
                               ELSE IF m[s] # <<>> THEN {"out"} ELSE {}
  <2>1. /\ u \in TunnelT(Tokens) /\ u.state = t.state
        /\ u.sock = [t.sock EXCEPT ![s] = IF m[s] # <<>> THEN "halfclosed" ELSE "null"]
        /\ u.rbuf = [t.rbuf EXCEPT ![s] = IF m[s] # <<>> THEN @ ELSE <<>>]
        /\ u.wbuf = m
        /\ u.interest = [t.interest EXCEPT ![s] = IF m[s] # <<>> THEN {"out"} ELSE {}]
    BY <1>1, SockShutdownFields
  <2> HIDE DEF u, m
  <2> QED
    BY <1>1, <2>1, TunnelParts
<1> HIDE DEF u, m
<1>4. Shape(u, cn)
  <2>1. \A x \in Side : Len(u.rbuf[x]) <= BufMax
    <3>1. Len(<<>>) <= BufMax
      BY TunnelAssumption, TunnelOpsAssumption
    <3> QED
      BY <1>3, <3>1 DEF Sound, Shape
  <2>2. \A x \in Side : ~Open(u, x) => u.rbuf[x] = <<>> /\ u.wbuf[x] = <<>>
    <3> SUFFICES ASSUME NEW x \in Side, u.sock[x] = "null"
                 PROVE  u.rbuf[x] = <<>> /\ m[x] = <<>>
      BY <1>3 DEF Open
    <3>1. CASE x = s
      BY <1>3, <3>1
    <3>2. CASE x # s
      BY <1>2, <1>3, <3>2 DEF Sound, Shape, Open
    <3> QED
      BY <3>1, <3>2
  <2>3. Open(u, "remote") => Open(t, "remote")
    BY <1>3, Sides DEF Open
  <2> QED
    BY <1>2, <1>3, <2>1, <2>2, <2>3 DEF Sound, Shape
<1>5. Opens(u, cs, rs, nr, gt)
  BY <1>2, <1>3, Sides DEF Sound, Opens, Open, Answered
<1>6. Conserves(u, cs, rs, nr, gt)
  BY <1>3, Sides DEF Conserves, Flows
<1>7. Armed(u)
  <2> SUFFICES ASSUME NEW x \in Side, u.wbuf[x] # <<>>, "out" \notin u.interest[x]
               PROVE  /\ t.state = "connected_state"
                      /\ u.sock[Peer(x)] \in {"halfclosed", "null"}
    BY <1>3 DEF Armed
  <2>1. x # s /\ Peer(x) = s /\ u.interest[x] = t.interest[x]
    BY <1>3, Sides
  <2>2. t.state # "connected_state" => t.wbuf[x] # <<>>
    BY <1>2, <1>3
  <2> QED
    BY <1>3, <2>1, <2>2 DEF Sound, Armed
<1>8. Calm(t) => Calm(u)
  BY <1>2, <1>3, Sides DEF Calm, Open
<1>9. Passed(t, cs, nr, gt) => Passed(u, cs, nr, gt)
  <2> SUFFICES ASSUME Passed(t, cs, nr, gt), t.state = "connected_state"
               PROVE  Passed(u, cs, nr, gt)
    BY <1>3 DEF Passed
  <2>1. CASE s = "remote" /\ m["remote"] = <<>>
    <3>1. ~Open(u, "remote") /\ ShutdownTarget(t, s) = "client"
      BY <1>3, <2>1 DEF Open, ShutdownTarget
    <3>2. t.wbuf["remote"] = <<>>
      BY <1>2, <2>1, <3>1, Sides
    <3>3. gt["remote"] = SubSeq(cs, 3, nr["client"])
      <4>1. gt["remote"] \o t.wbuf["remote"] = SubSeq(cs, 3, nr["client"])
        BY <2>1 DEF Passed
      <4> QED
        BY <3>2, <4>1, ConcatEmptySeq, Sides DEF Given
    <3>4. IsPrefix(gt["remote"], SubSeq(cs, 3, Len(cs)))
      <4>1. gt["remote"] \in Seq(Tokens)
        BY Sides DEF Given
      <4>2. cs \in Seq(Tokens) /\ nr["client"] \in Nat /\ nr["client"] <= Len(cs)
        BY Sides DEF Given
      <4> QED
        BY <3>3, <4>1, <4>2, ConcatIsPrefix
    <3> QED
      BY <1>3, <2>1, <3>1, <3>4, Sides DEF Passed, Open
  <2>2. CASE s = "remote" /\ m["remote"] # <<>>
    <3>1. m["remote"] = t.wbuf["remote"] /\ Open(u, "remote")
      BY <1>2, <1>3, <2>2, Sides DEF ShutdownTarget, Open
    <3> QED
      BY <1>3, <2>2, <3>1, Sides DEF Passed, Open
  <2>3. CASE s = "client"
    <3>1. Open(t, "remote") => m = t.wbuf
      BY <1>2, <2>3 DEF Passed
    <3> QED
      BY <1>3, <2>3, <3>1, Sides DEF Passed, Open
  <2> QED
    BY <2>1, <2>2, <2>3, Sides
<1>10. Narrow(t, u)
  BY <1>3 DEF Narrow
<1>11. Spares(t, u)
  BY <1>2, <1>3, Sides DEF Spares, Open
<1>12. u.sock[s] # "connected" /\ u.sock[Peer(s)] = t.sock[Peer(s)]
  BY <1>3, Sides
<1> QED
  BY <1>3, <1>4, <1>5, <1>6, <1>7, <1>8, <1>9, <1>10, <1>11, <1>12 DEF Keeps, Preserves, Sound, u

LEMMA TunnelShutdownKeeps ==
    ASSUME NEW t, NEW cs, NEW rs, NEW nr, NEW gt, NEW cn, Given(cs, rs, nr, gt),
           Sound(t, cs, rs, nr, gt, cn)
    PROVE  LET r == TunnelShutdown(t)
           IN  /\ Keeps(t, r.t, cs, rs, nr, gt, cn)
               /\ r.t.sock["client"] # "connected"
               /\ r.failed = FALSE /\ r.bad \in {"no", "dangling"}
<1> DEFINE u == IF Open(t, "client") THEN SockShutdown(t, "client") ELSE t
           v == SockShutdown(u, "remote")
           r == TunnelShutdown(t)
<1>1. r = IF Freed(u) THEN Broken(u, "dangling")
          ELSE IF Open(u, "remote") THEN Ok(v) ELSE Ok(u)
  BY Zenon DEF TunnelShutdown
<1>2. Keeps(t, t, cs, rs, nr, gt, cn)
  BY DEF Keeps, Preserves, Narrow, Spares
<1>3. Keeps(t, u, cs, rs, nr, gt, cn) /\ u.sock["client"] # "connected"
  <2>1. CASE Open(t, "client")
    <3>1. u = SockShutdown(t, "client")
      BY <2>1
    <3> HIDE DEF u
    <3> QED
      BY <2>1, <3>1, SockShutdownKeeps, Sides
  <2>2. CASE ~Open(t, "client")
    BY <1>2, <2>2 DEF Open
  <2> QED
    BY <2>1, <2>2
<1> HIDE DEF u
<1>4. Open(u, "remote") =>
          /\ Keeps(u, v, cs, rs, nr, gt, cn)
          /\ v.sock["client"] = u.sock["client"]
  BY <1>3, SockShutdownKeeps, Sides DEF Keeps, Preserves
<1> HIDE DEF v
<1>5. Open(u, "remote") => Keeps(t, v, cs, rs, nr, gt, cn)
  BY <1>3, <1>4, KeepsTransitive
<1>6. /\ Ok(u).t = u /\ Ok(u).failed = FALSE /\ Ok(u).bad = "no"
      /\ Ok(v).t = v /\ Ok(v).failed = FALSE /\ Ok(v).bad = "no"
      /\ Broken(u, "dangling").t = u /\ Broken(u, "dangling").failed = FALSE
      /\ Broken(u, "dangling").bad = "dangling"
  BY DEF Ok, Broken
<1>7. /\ Keeps(t, r.t, cs, rs, nr, gt, cn)
      /\ r.t.sock["client"] # "connected"
      /\ r.failed = FALSE /\ r.bad \in {"no", "dangling"}
  <2> HIDE DEF r
  <2> QED
    BY <1>1, <1>3, <1>4, <1>5, <1>6
<1> QED
  BY <1>7

LEMMA ForwardedSound ==
    ASSUME NEW t, NEW cs, NEW rs, NEW nr, NEW gt, NEW cn, Given(cs, rs, nr, gt),
           Sound(t, cs, rs, nr, gt, cn), t.state = "connected_state",
           NEW s \in Side, Open(t, Peer(s)), FitsIn(t.wbuf[Peer(s)], t.rbuf[s])
    PROVE  Sound(Forwarded(t, s), cs, rs, nr, gt, cn)
<1> DEFINE u == Forwarded(t, s)
           both == t.wbuf[Peer(s)] \o t.rbuf[s]
<1>1. t \in TunnelT(Tokens)
  BY DEF Sound, Shape
<1>2. /\ u \in TunnelT(Tokens) /\ u.state = "connected_state" /\ u.sock = t.sock
      /\ \A x \in Side : /\ u.rbuf[x] = IF x = s THEN <<>> ELSE t.rbuf[x]
                         /\ u.wbuf[x] = IF x = s THEN t.wbuf[x] ELSE both
                         /\ u.interest[x] = IF x = s THEN t.interest[x] ELSE {"in", "out"}
  <2>1. /\ u \in TunnelT(Tokens) /\ u.state = t.state /\ u.sock = t.sock
        /\ u.rbuf = [t.rbuf EXCEPT ![s] = <<>>]
        /\ u.wbuf = [t.wbuf EXCEPT ![Peer(s)] = @ \o t.rbuf[s]]
        /\ u.interest = [t.interest EXCEPT ![Peer(s)] = {"in", "out"}]
    BY <1>1, ForwardedFields
  <2>2. u.wbuf = [t.wbuf EXCEPT ![Peer(s)] = both]
    BY <2>1
  <2>3. \A x \in Side : x # s <=> x = Peer(s)
    BY DEF Side, Peer
  <2>5. /\ t.rbuf \in [Side -> Seq(Tokens)] /\ t.wbuf \in [Side -> Seq(Tokens)]
        /\ t.interest \in [Side -> SUBSET {"in", "out"}]
    BY <1>1, TunnelParts
  <2> HIDE DEF u, both
  <2>4. \A x \in Side : /\ u.rbuf[x] = IF x = s THEN <<>> ELSE t.rbuf[x]
                        /\ u.wbuf[x] = IF x = Peer(s) THEN both ELSE t.wbuf[x]
                        /\ u.interest[x] = IF x = Peer(s) THEN {"in", "out"} ELSE t.interest[x]
    BY <2>1, <2>2, <2>5
  <2> QED
    BY <2>1, <2>3, <2>4
<1>3. \A x \in Side : t.rbuf[x] \in Seq(Tokens) /\ t.wbuf[x] \in Seq(Tokens)
  BY <1>1, TunnelParts
<1>4. Len(both) <= BufMax
  <2>1. t.wbuf[Peer(s)] \in Seq(Tokens) /\ t.rbuf[s] \in Seq(Tokens)
    BY <1>3, Sides
  <2>2. Len(both) = Len(t.wbuf[Peer(s)]) + Len(t.rbuf[s])
    BY <2>1, ConcatProperties
  <2> QED
    BY <2>2 DEF FitsIn
<1> HIDE DEF u
<1>5. Shape(u, cn)
  <2>1. Len(<<>>) <= BufMax
    BY TunnelAssumption, TunnelOpsAssumption
  <2>2. \A x \in Side : Len(u.rbuf[x]) <= BufMax /\ Len(u.wbuf[x]) <= BufMax
    BY <1>2, <1>4, <2>1 DEF Sound, Shape
  <2>3. ASSUME NEW x \in Side, ~Open(u, x)
        PROVE  u.rbuf[x] = <<>> /\ u.wbuf[x] = <<>>
    <3>1. x = s
      BY <1>2, <2>3, Sides DEF Open
    <3> QED
      BY <1>2, <2>3, <3>1 DEF Sound, Shape, Open
  <2> QED
    BY <1>2, <2>2, <2>3 DEF Sound, Shape, Open
<1>6. Opens(u, cs, rs, nr, gt)
  BY <1>2 DEF Opens
<1>7. Conserves(u, cs, rs, nr, gt)
  <2> SUFFICES ASSUME Flows(t)
               PROVE  /\ nr["client"] >= 2
                      /\ gt["remote"] \o u.wbuf["remote"] \o u.rbuf["client"]
                            = SubSeq(cs, 3, nr["client"])
                      /\ gt["client"] \o u.wbuf["client"] \o u.rbuf["remote"]
                            = <<method_reply, connect_reply>> \o SubSeq(rs, 1, nr["remote"])
    BY <1>2 DEF Conserves, Flows
  <2>1. \A x \in Side : gt[x] \in Seq(Tokens)
    BY DEF Given
  <2>2. gt[Peer(s)] \o u.wbuf[Peer(s)] \o u.rbuf[s]
           = gt[Peer(s)] \o t.wbuf[Peer(s)] \o t.rbuf[s]
    <3>1. u.wbuf[Peer(s)] = t.wbuf[Peer(s)] \o t.rbuf[s] /\ u.rbuf[s] = <<>>
      <4>1. Peer(s) \in Side /\ Peer(s) # s
        BY Sides
      <4> QED
        BY <1>2, <4>1
    <3>a. /\ gt[Peer(s)] \in Seq(Tokens) /\ t.wbuf[Peer(s)] \in Seq(Tokens)
          /\ t.rbuf[s] \in Seq(Tokens)
      BY <1>3, <2>1, Sides
    <3>2. (gt[Peer(s)] \o (t.wbuf[Peer(s)] \o t.rbuf[s])) \o <<>>
             = (gt[Peer(s)] \o t.wbuf[Peer(s)]) \o t.rbuf[s]
      BY <3>a, Regrouped
    <3> QED
      BY <3>1, <3>2
  <2>3. gt[s] \o u.wbuf[s] \o u.rbuf[Peer(s)] = gt[s] \o t.wbuf[s] \o t.rbuf[Peer(s)]
    BY <1>2, Sides
  <2> QED
    BY <2>2, <2>3, Sides DEF Sound, Conserves
<1>8. Armed(u)
  BY <1>2 DEF Sound, Armed
<1> QED
  BY <1>5, <1>6, <1>7, <1>8 DEF Sound, u

\* epoll_modify at the end of tunnel_write_handle.
Rearm(t, s) ==
    [t EXCEPT !.interest[s] = IF t.wbuf[s] # <<>> THEN {"in", "out"} ELSE {"in"}]

LEMMA RearmKeeps ==
    ASSUME NEW t, NEW cs, NEW rs, NEW nr, NEW gt, NEW cn,
           Sound(t, cs, rs, nr, gt, cn), NEW s \in Side
    PROVE  LET u == Rearm(t, s)
           IN  /\ Sound(u, cs, rs, nr, gt, cn)
               /\ s = "client" \/ Calm(t) => Calm(u)
               /\ Passed(t, cs, nr, gt) => Passed(u, cs, nr, gt)
               /\ u.state = t.state /\ u.sock = t.sock
               /\ u.rbuf = t.rbuf /\ u.wbuf = t.wbuf
<1> DEFINE both == IF t.wbuf[s] # <<>> THEN {"in", "out"} ELSE {"in"}
           interest == [t.interest EXCEPT ![s] = both]
           u == Rearm(t, s)
<1>1. t \in TunnelT(Tokens)
  BY DEF Sound, Shape
<1>2. interest \in [Side -> SUBSET {"in", "out"}]
  BY <1>1, TunnelParts
<1>3. u = [t EXCEPT !.interest = interest]
  BY <1>1 DEF Rearm, TunnelT
<1>4. \A x \in Side : interest[x] = IF x = s THEN both ELSE t.interest[x]
  BY <1>1, TunnelParts
<1> HIDE DEF u, interest
<1>5. /\ u \in TunnelT(Tokens) /\ u.state = t.state /\ u.sock = t.sock
      /\ u.rbuf = t.rbuf /\ u.wbuf = t.wbuf /\ u.interest = interest
  BY <1>1, <1>2, <1>3 DEF TunnelT
<1>6. Shape(u, cn)
  BY <1>5 DEF Sound, Shape, Open
<1>7. Opens(u, cs, rs, nr, gt)
  BY <1>5 DEF Sound, Opens, Open, Answered
<1>8. Conserves(u, cs, rs, nr, gt)
  BY <1>5 DEF Sound, Conserves, Flows
<1>9. Armed(u)
  BY <1>4, <1>5 DEF Sound, Armed
<1>10. s = "client" \/ Calm(t) => Calm(u)
  BY <1>4, <1>5, Sides DEF Calm, Open
<1>11. Passed(t, cs, nr, gt) => Passed(u, cs, nr, gt)
  BY <1>5 DEF Passed, Open
<1> QED
  BY <1>5, <1>6, <1>7, <1>8, <1>9, <1>10, <1>11 DEF Sound, u

\* What s says in all, the n bytes of it that are read next, and how many of
\* each peer's are read then.
Said(cs, rs, s) == IF s = "client" THEN cs ELSE rs
NextBytes(cs, rs, nr, s, n) == SubSeq(Said(cs, rs, s), nr[s] + 1, nr[s] + n)
Advanced(nr, s, n) == [nr EXCEPT ![s] = @ + n]

ReadIn(t, s, bytes) == [t EXCEPT !.rbuf[s] = @ \o bytes]

LEMMA ReadInSound ==
    ASSUME NEW t, NEW cs, NEW rs, NEW nr, NEW gt, NEW cn, Given(cs, rs, nr, gt),
           Sound(t, cs, rs, nr, gt, cn), NEW s \in Side, Open(t, s), NEW n \in Nat,
           Len(t.rbuf[s]) + n <= BufMax, nr[s] + n <= Len(Said(cs, rs, s))
    PROVE  LET bytes == NextBytes(cs, rs, nr, s, n)
               u == ReadIn(t, s, bytes)
               nr2 == Advanced(nr, s, n)
           IN  /\ Given(cs, rs, nr2, gt) /\ Sound(u, cs, rs, nr2, gt, cn)
               /\ u.state = t.state /\ u.sock = t.sock /\ u.wbuf = t.wbuf
               /\ u.interest = t.interest
               /\ u.rbuf[s] = t.rbuf[s] \o bytes /\ u.rbuf[Peer(s)] = t.rbuf[Peer(s)]
               /\ bytes \in Seq(Tokens) /\ Len(bytes) = n
               /\ nr2[s] = nr[s] + n /\ nr2[Peer(s)] = nr[Peer(s)]
<1> DEFINE st == IF s = "client" THEN cs ELSE rs
           bytes == SubSeq(st, nr[s] + 1, nr[s] + n)
           rbuf == [t.rbuf EXCEPT ![s] = @ \o bytes]
           u == ReadIn(t, s, bytes)
           nr2 == [nr EXCEPT ![s] = @ + n]
<1>1. t \in TunnelT(Tokens)
  BY DEF Sound, Shape
<1>r. nr[s] + n <= Len(st)
  BY DEF Said
<1>2. st \in Seq(Tokens) /\ Len(st) \in Nat /\ nr[s] \in Nat
  <2>1. st \in Seq(Tokens) /\ nr[s] \in Nat
    BY DEF Given
  <2> QED
    BY <2>1, LenProperties
<1>3. bytes \in Seq(Tokens) /\ Len(bytes) = n
  <2> HIDE DEF st
  <2>1. \A i \in nr[s] + 1 .. nr[s] + n : st[i] \in Tokens
    BY <1>r, <1>2, ElementOfSeq
  <2>2. nr[s] + 1 \in Int /\ nr[s] + n \in Int
    BY <1>2
  <2>3. /\ bytes \in Seq(Tokens)
        /\ Len(bytes) = IF nr[s] + 1 <= nr[s] + n THEN (nr[s] + n) - (nr[s] + 1) + 1 ELSE 0
    BY <2>1, <2>2, SubSeqProperties
  <2> HIDE DEF bytes
  <2> QED
    BY <1>2, <2>3
<1>4. \A x \in Side : /\ t.rbuf[x] \in Seq(Tokens) /\ t.wbuf[x] \in Seq(Tokens)
                      /\ gt[x] \in Seq(Tokens)
  BY <1>1, TunnelParts DEF Given
<1>5. nr2 \in [Side -> Nat] /\ nr2[s] = nr[s] + n /\ nr2[Peer(s)] = nr[Peer(s)]
  BY <1>2, Sides DEF Given
<1>6. Given(cs, rs, nr2, gt)
  <2>1. CASE s = "client"
    BY <1>r, <1>5, <2>1, Sides DEF Given
  <2>2. CASE s = "remote"
    BY <1>r, <1>5, <2>2, Sides DEF Given
  <2> QED
    BY <2>1, <2>2, Sides
<1> HIDE DEF bytes
<1>7. t.rbuf[s] \o bytes \in Seq(Tokens) /\ Len(t.rbuf[s] \o bytes) = Len(t.rbuf[s]) + n
  BY <1>3, <1>4, ConcatProperties
<1>8. rbuf \in [Side -> Seq(Tokens)]
  BY <1>1, <1>7, TunnelParts
<1>9. /\ rbuf[s] = t.rbuf[s] \o bytes
      /\ \A x \in Side : x # s => rbuf[x] = t.rbuf[x]
  BY <1>1, TunnelParts
<1>10. u = [t EXCEPT !.rbuf = rbuf]
  BY <1>1 DEF ReadIn, TunnelT
<1> HIDE DEF u, rbuf, nr2
<1>11. /\ u \in TunnelT(Tokens) /\ u.state = t.state /\ u.sock = t.sock
       /\ u.rbuf = rbuf /\ u.wbuf = t.wbuf /\ u.interest = t.interest
  BY <1>1, <1>8, <1>10 DEF TunnelT
<1>12. Shape(u, cn)
  <2>1. \A x \in Side : Len(u.rbuf[x]) <= BufMax
    BY <1>7, <1>9, <1>11 DEF Sound, Shape
  <2>2. ASSUME NEW x \in Side, ~Open(u, x)
        PROVE  u.rbuf[x] = <<>> /\ u.wbuf[x] = <<>>
    <3>1. x # s
      BY <1>11, <2>2 DEF Open
    <3> QED
      BY <1>9, <1>11, <2>2, <3>1 DEF Sound, Shape, Open
  <2> QED
    BY <1>11, <2>1, <2>2 DEF Sound, Shape, Open
\* Consecutive pieces of the stream.
<1>13. ASSUME NEW k \in Nat, 1 <= k, k <= nr[s] + 1
       PROVE  SubSeq(st, k, nr[s]) \o bytes = SubSeq(st, k, nr2[s])
  <2>1. /\ k \in 1 .. Len(st) + 1 /\ nr[s] \in k - 1 .. Len(st)
        /\ nr[s] + n \in nr[s] .. Len(st)
    BY <1>r, <1>2, <1>13
  <2> HIDE DEF st
  <2>2. SubSeq(st, k, nr[s]) \o SubSeq(st, nr[s] + 1, nr[s] + n)
           = SubSeq(st, k, nr[s] + n)
    BY <1>2, <2>1, ConcatAdjacentSubSeq
  <2> QED
    BY <1>5, <2>2 DEF bytes
<1>s. (s = "client" => st = cs) /\ (s = "remote" => st = rs)
  OBVIOUS
<1> HIDE DEF st
<1>14. Opens(u, cs, rs, nr2, gt)
  <2> SUFFICES ASSUME t.state # "connected_state"
               PROVE  Opens(u, cs, rs, nr2, gt)
    BY <1>11 DEF Opens
  <2>1. t.state # "connecting_state" => s = "client"
    BY <1>1, TunnelParts, Sides DEF Sound, Shape, TunnelState
  <2>2. CASE s = "client"
    <3>1. Taken(t.state) \in Nat /\ Taken(t.state) <= nr["client"]
      BY <2>2 DEF Sound, Opens, Taken
    <3>2. t.rbuf["client"] \o bytes = SubSeq(cs, Taken(t.state) + 1, nr2["client"])
      <4>1. Taken(t.state) + 1 \in Nat /\ 1 <= Taken(t.state) + 1
            /\ Taken(t.state) + 1 <= nr[s] + 1
        BY <1>2, <2>2, <3>1
      <4>2. SubSeq(st, Taken(t.state) + 1, nr[s]) \o bytes
               = SubSeq(st, Taken(t.state) + 1, nr2[s])
        BY <1>13, <4>1
      <4>3. t.rbuf["client"] = SubSeq(cs, Taken(t.state) + 1, nr["client"])
        BY <2>2 DEF Sound, Opens
      <4> QED
        BY <1>s, <2>2, <4>2, <4>3
    <3>3. nr2["client"] >= Taken(t.state)
      BY <1>2, <1>5, <2>2, <3>1
    <3> QED
      BY <1>5, <1>9, <1>11, <2>2, <3>2, <3>3, Sides DEF Sound, Opens, Open, Answered
  <2>3. CASE s = "remote"
    <3>1. t.rbuf["remote"] = SubSeq(rs, 1, nr["remote"])
      BY <2>3 DEF Sound, Opens
    <3>2. t.rbuf["remote"] \o bytes = SubSeq(rs, 1, nr2["remote"])
      <4>1. 1 \in Nat /\ 1 <= 1 /\ 1 <= nr[s] + 1
        BY <1>2
      <4>2. SubSeq(st, 1, nr[s]) \o bytes = SubSeq(st, 1, nr2[s])
        BY <1>13, <4>1
      <4> QED
        BY <1>s, <2>3, <3>1, <4>2
    <3> QED
      BY <1>5, <1>9, <1>11, <2>1, <2>3, <3>2, Sides DEF Sound, Opens, Open, Answered
  <2> QED
    BY <2>2, <2>3, Sides
<1>15. Conserves(u, cs, rs, nr2, gt)
  <2> SUFFICES ASSUME Flows(t)
               PROVE  Conserves(u, cs, rs, nr2, gt)
    BY <1>11 DEF Conserves, Flows
  <2>1. CASE s = "client"
    <3>1. nr["client"] >= 2 /\ nr2["client"] >= 2
      BY <1>2, <1>5, <2>1 DEF Sound, Conserves
    <3>2. SubSeq(cs, 3, nr["client"]) \o bytes = SubSeq(cs, 3, nr2["client"])
      <4>1. 3 \in Nat /\ 1 <= 3 /\ 3 <= nr[s] + 1
        BY <1>2, <2>1, <3>1
      <4>2. SubSeq(st, 3, nr[s]) \o bytes = SubSeq(st, 3, nr2[s])
        BY <1>13, <4>1
      <4> QED
        BY <1>s, <2>1, <4>2
    <3>3. gt["remote"] \o t.wbuf["remote"] \o (t.rbuf["client"] \o bytes)
             = (gt["remote"] \o t.wbuf["remote"] \o t.rbuf["client"]) \o bytes
      <4> DEFINE a == gt["remote"]
                 b == t.wbuf["remote"]
                 c == t.rbuf["client"]
                 ab == a \o b
      <4>1. a \in Seq(Tokens) /\ b \in Seq(Tokens) /\ c \in Seq(Tokens)
        BY <1>4, Sides
      <4>2. ab \in Seq(Tokens)
        BY <4>1, ConcatProperties
      <4> HIDE DEF a, b, c, ab
      <4>3. ab \o (c \o bytes) = (ab \o c) \o bytes
        BY <1>3, <4>1, <4>2, Regrouped
      <4> QED
        BY <4>3 DEF a, b, c, ab
    <3>4. /\ gt["remote"] \o t.wbuf["remote"] \o t.rbuf["client"] = SubSeq(cs, 3, nr["client"])
          /\ gt["client"] \o t.wbuf["client"] \o t.rbuf["remote"]
                = <<method_reply, connect_reply>> \o SubSeq(rs, 1, nr["remote"])
      BY DEF Sound, Conserves
    <3>5. /\ u.rbuf["client"] = t.rbuf["client"] \o bytes
          /\ u.rbuf["remote"] = t.rbuf["remote"]
          /\ nr2["remote"] = nr["remote"]
      BY <1>5, <1>9, <1>11, <2>1, Sides
    <3> QED
      BY <1>11, <3>1, <3>2, <3>3, <3>4, <3>5 DEF Conserves
  <2>2. CASE s = "remote"
    <3> DEFINE replies == <<method_reply, connect_reply>>
               old == SubSeq(rs, 1, nr["remote"])
    <3>1. old \o bytes = SubSeq(rs, 1, nr2["remote"])
      <4>1. 1 \in Nat /\ 1 <= 1 /\ 1 <= nr[s] + 1
        BY <1>2
      <4>2. SubSeq(st, 1, nr[s]) \o bytes = SubSeq(st, 1, nr2[s])
        BY <1>13, <4>1
      <4> QED
        BY <1>s, <2>2, <4>2
    <3>2. gt["client"] \o t.wbuf["client"] \o (t.rbuf["remote"] \o bytes)
             = (gt["client"] \o t.wbuf["client"] \o t.rbuf["remote"]) \o bytes
      <4> DEFINE a == gt["client"]
                 b == t.wbuf["client"]
                 c == t.rbuf["remote"]
                 ab == a \o b
      <4>1. a \in Seq(Tokens) /\ b \in Seq(Tokens) /\ c \in Seq(Tokens)
        BY <1>4, Sides
      <4>2. ab \in Seq(Tokens)
        BY <4>1, ConcatProperties
      <4> HIDE DEF a, b, c, ab
      <4>3. ab \o (c \o bytes) = (ab \o c) \o bytes
        BY <1>3, <4>1, <4>2, Regrouped
      <4> QED
        BY <4>3 DEF a, b, c, ab
    <3>3. (replies \o old) \o bytes = replies \o (old \o bytes)
      <4>1. replies \in Seq(Tokens)
        BY DEF Tokens
      <4>2. old \in Seq(Tokens)
        <5>1. \A i \in 1 .. nr["remote"] : rs[i] \in Tokens
          BY <1>2, <2>2, ElementOfSeq DEF Given
        <5>2. 1 \in Int /\ nr["remote"] \in Int
          BY <1>2, <2>2
        <5> QED
          BY <5>1, <5>2, SubSeqProperties
      <4> HIDE DEF replies, old
      <4> QED
        BY <1>3, <4>1, <4>2, Regrouped
    <3>4. /\ gt["remote"] \o t.wbuf["remote"] \o t.rbuf["client"] = SubSeq(cs, 3, nr["client"])
          /\ gt["client"] \o t.wbuf["client"] \o t.rbuf["remote"] = replies \o old
          /\ nr["client"] >= 2
      BY DEF Sound, Conserves
    <3>5. /\ u.rbuf["remote"] = t.rbuf["remote"] \o bytes
          /\ u.rbuf["client"] = t.rbuf["client"]
          /\ nr2["client"] = nr["client"]
      BY <1>5, <1>9, <1>11, <2>2, Sides
    <3> HIDE DEF old
    <3> QED
      BY <1>11, <3>1, <3>2, <3>3, <3>4, <3>5 DEF Conserves
  <2> QED
    BY <2>1, <2>2, Sides
<1>16. Armed(u)
  BY <1>11 DEF Sound, Armed
<1>17. Sound(u, cs, rs, nr2, gt, cn)
  BY <1>12, <1>14, <1>15, <1>16 DEF Sound
<1>18. bytes = NextBytes(cs, rs, nr, s, n) /\ nr2 = Advanced(nr, s, n)
  BY DEF NextBytes, Said, Advanced, bytes, nr2, st
<1>19. u.rbuf[s] = t.rbuf[s] \o bytes /\ u.rbuf[Peer(s)] = t.rbuf[Peer(s)]
  BY <1>9, <1>11, Sides
<1>20. u = ReadIn(t, s, bytes)
  BY DEF u
<1> QED
  BY <1>3, <1>5, <1>6, <1>11, <1>17, <1>18, <1>19, <1>20

\* n bytes are written to s.
WrittenOut(t, s, n) == [t EXCEPT !.wbuf[s] = SubSeq(@, n + 1, Len(@))]
Lengthened(gt, s, front) == [gt EXCEPT ![s] = @ \o front]

LEMMA Split ==
    ASSUME NEW S, NEW w \in Seq(S), NEW n \in 1 .. Len(w)
    PROVE  /\ SubSeq(w, 1, n) \in Seq(S) /\ Len(SubSeq(w, 1, n)) = n
           /\ SubSeq(w, n + 1, Len(w)) \in Seq(S)
           /\ Len(SubSeq(w, n + 1, Len(w))) = Len(w) - n
           /\ SubSeq(w, 1, n) \o SubSeq(w, n + 1, Len(w)) = w
<1>1. Len(w) \in Nat /\ n \in Nat /\ 1 <= n /\ n <= Len(w)
  BY LenProperties
<1>2. \A i \in 1 .. Len(w) : w[i] \in S
  BY ElementOfSeq
<1>3. SubSeq(w, 1, n) \in Seq(S) /\ Len(SubSeq(w, 1, n)) = n
  <2>1. /\ SubSeq(w, 1, n) \in Seq(S)
        /\ Len(SubSeq(w, 1, n)) = IF 1 <= n THEN n - 1 + 1 ELSE 0
    BY <1>1, <1>2, SubSeqProperties
  <2> QED
    BY <1>1, <2>1
<1>4. /\ SubSeq(w, n + 1, Len(w)) \in Seq(S)
      /\ Len(SubSeq(w, n + 1, Len(w))) = Len(w) - n
  <2>1. \A i \in n + 1 .. Len(w) : w[i] \in S
    BY <1>1, <1>2
  <2>2. n + 1 \in Int /\ Len(w) \in Int
    BY <1>1
  <2>3. /\ SubSeq(w, n + 1, Len(w)) \in Seq(S)
        /\ Len(SubSeq(w, n + 1, Len(w)))
              = IF n + 1 <= Len(w) THEN Len(w) - (n + 1) + 1 ELSE 0
    BY <2>1, <2>2, SubSeqProperties
  <2> QED
    BY <1>1, <2>3
<1>5. SubSeq(w, 1, n) \o SubSeq(w, n + 1, Len(w)) = SubSeq(w, 1, Len(w))
  <2>1. 1 \in 1 .. Len(w) + 1 /\ n \in 1 - 1 .. Len(w) /\ Len(w) \in n .. Len(w)
    BY <1>1
  <2> QED
    BY <2>1, ConcatAdjacentSubSeq
<1>6. SubSeq(w, 1, Len(w)) = w
  BY SubSeqFull
<1> QED
  BY <1>3, <1>4, <1>5, <1>6

LEMMA WrittenOutSound ==
    ASSUME NEW t, NEW cs, NEW rs, NEW nr, NEW gt, NEW cn, Given(cs, rs, nr, gt),
           Sound(t, cs, rs, nr, gt, cn), NEW s \in Side, Open(t, s),
           NEW n \in 1 .. Len(t.wbuf[s])
    PROVE  LET u == WrittenOut(t, s, n)
               gt2 == Lengthened(gt, s, SubSeq(t.wbuf[s], 1, n))
           IN  /\ Given(cs, rs, nr, gt2) /\ Sound(u, cs, rs, nr, gt2, cn)
               /\ u.state = t.state /\ u.sock = t.sock /\ u.rbuf = t.rbuf
               /\ u.interest = t.interest
               /\ u.wbuf[s] = SubSeq(t.wbuf[s], n + 1, Len(t.wbuf[s]))
               /\ u.wbuf[Peer(s)] = t.wbuf[Peer(s)]
               /\ Passed(t, cs, nr, gt) => Passed(u, cs, nr, gt2)
               /\ t.state # "connected_state" =>
                     s = "client" /\ t.state # "open_state" /\ gt["client"] = <<>>
<1> DEFINE w == t.wbuf[s]
           front == SubSeq(w, 1, n)
           rest == SubSeq(w, n + 1, Len(w))
           wbuf == [t.wbuf EXCEPT ![s] = rest]
           u == WrittenOut(t, s, n)
           gt2 == [gt EXCEPT ![s] = @ \o front]
<1>1. t \in TunnelT(Tokens)
  BY DEF Sound, Shape
<1>2. \A x \in Side : /\ t.rbuf[x] \in Seq(Tokens) /\ t.wbuf[x] \in Seq(Tokens)
                      /\ gt[x] \in Seq(Tokens)
  BY <1>1, TunnelParts DEF Given
<1>3. /\ front \in Seq(Tokens) /\ Len(front) = n
      /\ rest \in Seq(Tokens) /\ Len(rest) = Len(w) - n
      /\ front \o rest = w /\ w \in Seq(Tokens) /\ n \in 1 .. Len(w)
      /\ Len(w) \in Nat /\ w # <<>>
  <2>1. w \in Seq(Tokens) /\ n \in 1 .. Len(w)
    BY <1>2
  <2> HIDE DEF w
  <2>2. Len(w) \in Nat /\ w # <<>>
    BY <2>1, LenProperties
  <2> QED
    BY <2>1, <2>2, Split
<1>4. /\ wbuf \in [Side -> Seq(Tokens)]
      /\ \A x \in Side : wbuf[x] = IF x = s THEN rest ELSE t.wbuf[x]
  <2> HIDE DEF rest
  <2> QED
    BY <1>1, <1>3, TunnelParts
<1>5. u = [t EXCEPT !.wbuf = wbuf]
  BY <1>1 DEF WrittenOut, TunnelT
<1>6. /\ gt2 \in [Side -> Seq(Tokens)]
      /\ \A x \in Side : gt2[x] = IF x = s THEN gt[s] \o front ELSE gt[x]
  <2>1. gt[s] \o front \in Seq(Tokens)
    BY <1>2, <1>3, ConcatProperties
  <2> HIDE DEF front
  <2> QED
    BY <2>1 DEF Given
<1> HIDE DEF u, wbuf, gt2
<1>7. /\ u \in TunnelT(Tokens) /\ u.state = t.state /\ u.sock = t.sock
      /\ u.rbuf = t.rbuf /\ u.wbuf = wbuf /\ u.interest = t.interest
  BY <1>1, <1>4, <1>5 DEF TunnelT
<1>8. Given(cs, rs, nr, gt2)
  BY <1>6 DEF Given
\* What is on its way to s is still on its way or has arrived.
<1>9. (gt[s] \o front) \o rest = gt[s] \o w
  <2> DEFINE g == gt[s]
  <2>1. g \in Seq(Tokens)
    BY <1>2
  <2> HIDE DEF front, rest, w, g
  <2>2. g \o (front \o rest) = (g \o front) \o rest
    BY <1>3, <2>1, Regrouped
  <2> QED
    BY <1>3, <2>2 DEF g
<1> HIDE DEF front, rest
<1>10. Shape(u, cn)
  <2>1. \A x \in Side : Len(u.wbuf[x]) <= BufMax
    <3>1. Len(w) <= BufMax
      BY DEF Sound, Shape
    <3> QED
      BY <1>3, <1>4, <1>7, <3>1, TunnelOpsAssumption DEF Sound, Shape
  <2>2. \A x \in Side : ~Open(u, x) => u.rbuf[x] = <<>> /\ u.wbuf[x] = <<>>
    BY <1>4, <1>7 DEF Sound, Shape, Open
  <2>3. t.state # "connected_state" => s # "remote"
    BY <1>3 DEF Sound, Shape
  <2>4. t.state # "connected_state" => u.wbuf["remote"] = <<>>
    BY <1>4, <1>7, <2>3, Sides DEF Sound, Shape
  <2> QED
    BY <1>7, <2>1, <2>2, <2>4 DEF Sound, Shape, Open
<1>11. t.state # "connected_state" =>
          /\ s = "client" /\ t.state # "open_state"
          /\ gt["client"] = <<>> /\ w = <<method_reply>>
  BY <1>3, Sides DEF Sound, Shape, Opens, Answered
<1>12. Opens(u, cs, rs, nr, gt2)
  <2> SUFFICES ASSUME t.state # "connected_state"
               PROVE  Opens(u, cs, rs, nr, gt2)
    BY <1>7 DEF Opens
  <2>1. n = 1
    BY <1>3, <1>11
  <2>2. front = <<method_reply>> /\ rest = <<>>
    <3> DEFINE one == <<method_reply>>
    <3>1. one \in Seq(Tokens) /\ Len(one) = 1
      BY DEF Tokens
    <3>2. SubSeq(one, 1, Len(one)) = one
      BY <3>1, SubSeqFull
    <3>3. SubSeq(one, 1 + 1, Len(one)) = <<>>
      BY <3>1, SubSeqEmpty
    <3> QED
      BY <1>11, <2>1, <3>1, <3>2, <3>3 DEF front, rest
  <2>3. gt2["client"] = <<method_reply>> /\ gt2["remote"] = gt["remote"]
    BY <1>6, <1>11, <2>2, Sides
  <2>4. u.wbuf["client"] = <<>>
    BY <1>4, <1>7, <1>11, <2>2, Sides
  <2> QED
    BY <1>7, <1>11, <2>3, <2>4 DEF Sound, Opens, Open, Answered
<1>13. \A x \in Side : gt2[x] \o u.wbuf[x] = gt[x] \o t.wbuf[x]
  BY <1>4, <1>6, <1>7, <1>9
<1>14. Conserves(u, cs, rs, nr, gt2)
  BY <1>7, <1>13, Sides DEF Sound, Conserves, Flows
<1>15. Armed(u)
  BY <1>3, <1>4, <1>7 DEF Sound, Armed
<1>16. Passed(t, cs, nr, gt) => Passed(u, cs, nr, gt2)
  <2>1. ~Open(t, "remote") => gt2["remote"] = gt["remote"]
    BY <1>6, Sides
  <2> QED
    BY <1>7, <1>13, <2>1, Sides DEF Passed, Open
<1>17. u.wbuf[s] = rest /\ u.wbuf[Peer(s)] = t.wbuf[Peer(s)]
  BY <1>4, <1>7, Sides
<1>18. gt2 = Lengthened(gt, s, SubSeq(t.wbuf[s], 1, n))
  BY DEF gt2, front, Lengthened
<1> QED
  BY <1>7, <1>8, <1>10, <1>11, <1>12, <1>14, <1>15, <1>16, <1>17, <1>18 DEF Sound, u, rest


-----------------------------------------------------------------------------
(* The handlers of the handshake.                                          *)

\* Both ways to have sent the two replies.
LEMMA BothReplies ==
    /\ Len(<<>>) = 0 /\ Len(<<method_reply>>) = 1
    /\ Append(<<method_reply>>, connect_reply) = <<method_reply, connect_reply>>
    /\ Append(<<>>, connect_reply) = <<connect_reply>>
    /\ <<>> \o <<method_reply, connect_reply>> = <<method_reply, connect_reply>>
    /\ <<method_reply>> \o <<connect_reply>> = <<method_reply, connect_reply>>
<1> DEFINE m == <<method_reply>>
           c == <<connect_reply>>
           both == <<method_reply, connect_reply>>
<1>1. m \in Seq(Tokens) /\ c \in Seq(Tokens) /\ both \in Seq(Tokens)
  BY DEF Tokens
<1>2. m \o c = both
  <2>1. /\ m \o c \in Seq(Tokens) /\ Len(m \o c) = Len(m) + Len(c)
        /\ \A i \in 1 .. Len(m) + Len(c) :
              (m \o c)[i] = IF i <= Len(m) THEN m[i] ELSE c[i - Len(m)]
    BY <1>1, ConcatProperties
  <2>2. Len(m) = 1 /\ Len(c) = 1 /\ Len(both) = 2 /\ m[1] = both[1] /\ c[1] = both[2]
    OBVIOUS
  <2> DEFINE mc == m \o c
  <2> HIDE DEF mc, m, c, both
  <2>3. Len(mc) = 2 /\ mc \in Seq(Tokens) /\ mc[1] = m[1] /\ mc[2] = c[1]
    BY <2>1, <2>2 DEF mc
  <2>4. \A i \in 1 .. Len(mc) : mc[i] = both[i]
    BY <2>2, <2>3
  <2>5. mc = both
    BY <1>1, <2>2, <2>3, <2>4, SeqEqual
  <2> QED
    BY <2>5 DEF mc
<1>3. Append(m, connect_reply) = m \o <<connect_reply>>
  <2>1. connect_reply \in Tokens
    BY DEF Tokens
  <2> HIDE DEF m
  <2> QED
    BY <1>1, <2>1, AppendIsConcat
<1>4. <<>> \o both = both
  BY <1>1, ConcatEmptySeq
<1>5. Append(<<>>, connect_reply) = c /\ Len(<<>>) = 0 /\ Len(m) = 1
  OBVIOUS
<1> QED
  BY <1>2, <1>3, <1>4, <1>5

\* The connection is made: the client, if there is one, is told.
LEMMA EstablishedSound ==
    ASSUME NEW t, NEW cs, NEW rs, NEW nr, NEW gt, Given(cs, rs, nr, gt),
           Sound(t, cs, rs, nr, gt, "up"), t.state = "connecting_state",
           Open(t, "remote")
    PROVE  LET e == Established(t)
               w == WriteClient(e, connect_reply)
           IN  /\ e.state = "connected_state" /\ w.state = "connected_state"
               /\ e.sock["client"] = t.sock["client"]
               /\ ~Open(t, "client") => Sound(e, cs, rs, nr, gt, "up")
               /\ Open(t, "client") => ClientWritable(e) /\ Sound(w, cs, rs, nr, gt, "up")
               /\ nr["client"] <= 2 => Passed(e, cs, nr, gt) /\ Passed(w, cs, nr, gt)
<1> DEFINE e == Established(t)
           w == WriteClient(e, connect_reply)
           told == Append(t.wbuf["client"], connect_reply)
<1>1. t \in TunnelT(Tokens) /\ connect_reply \in Tokens
  BY DEF Sound, Shape, Tokens
<1>2. \A x \in Side : /\ t.rbuf[x] \in Seq(Tokens) /\ t.wbuf[x] \in Seq(Tokens)
                      /\ gt[x] \in Seq(Tokens)
  BY <1>1, TunnelParts DEF Given
<1>3. /\ e \in TunnelT(Tokens) /\ e.state = "connected_state"
      /\ e.sock = [t.sock EXCEPT !["remote"] = "connected"]
      /\ e.rbuf = t.rbuf /\ e.wbuf = t.wbuf /\ e.interest = t.interest
  BY <1>1, EstablishedFields
<1> HIDE DEF e
<1>4. /\ w \in TunnelT(Tokens) /\ w.state = e.state /\ w.sock = e.sock /\ w.rbuf = e.rbuf
      /\ w.wbuf = [e.wbuf EXCEPT !["client"] = Append(@, connect_reply)]
      /\ w.interest = [e.interest EXCEPT !["client"] = {"in", "out"}]
  BY <1>1, <1>3, WriteClientFields
<1> HIDE DEF w
<1>5. /\ e.sock["remote"] = "connected" /\ e.sock["client"] = t.sock["client"]
      /\ w.wbuf["client"] = told /\ w.wbuf["remote"] = t.wbuf["remote"]
      /\ w.interest["client"] = {"in", "out"}
      /\ w.interest["remote"] = t.interest["remote"]
  BY <1>1, <1>3, <1>4, TunnelParts, Sides
<1>6. t.wbuf["remote"] = <<>> /\ gt["remote"] = <<>>
  BY DEF Sound, Shape, Opens
<1>7. \A s \in Side : t.wbuf[s] # <<>> => "out" \in t.interest[s]
  BY DEF Sound, Armed
<1>8. ASSUME ~Open(t, "client")
      PROVE  Sound(e, cs, rs, nr, gt, "up")
  <2>1. Shape(e, "up")
    BY <1>3, <1>5, <1>8, Sides DEF Sound, Shape, Open
  <2>2. Opens(e, cs, rs, nr, gt)
    BY <1>3 DEF Opens
  <2>3. Conserves(e, cs, rs, nr, gt)
    BY <1>5, <1>8, Sides DEF Conserves, Flows, Open
  <2>4. Armed(e)
    BY <1>3, <1>7 DEF Armed
  <2> QED
    BY <2>1, <2>2, <2>3, <2>4 DEF Sound
<1>9. ASSUME Open(t, "client")
      PROVE  ClientWritable(e) /\ Sound(w, cs, rs, nr, gt, "up")
  <2>1. /\ nr["client"] >= 2 /\ t.rbuf["client"] = SubSeq(cs, 3, nr["client"])
        /\ t.rbuf["remote"] = SubSeq(rs, 1, nr["remote"])
        /\ \/ gt["client"] = <<>> /\ t.wbuf["client"] = <<method_reply>>
           \/ gt["client"] = <<method_reply>> /\ t.wbuf["client"] = <<>>
    BY <1>9 DEF Sound, Opens, Answered, Taken
  <2>2. Len(t.wbuf["client"]) <= 1 /\ Len(t.wbuf["client"]) \in Nat
    <3>1. CASE t.wbuf["client"] = <<>>
      BY <3>1
    <3>2. CASE t.wbuf["client"] = <<method_reply>>
      BY <3>2
    <3> QED
      BY <2>1, <3>1, <3>2, Zenon
  <2>3. ClientWritable(e)
    <3>1. Len(<<method_reply>>) = 1
      OBVIOUS
    <3> QED
      BY <1>3, <1>5, <1>9, <2>2, <3>1, TunnelAssumption, TunnelOpsAssumption
      DEF ClientWritable, FitsIn, Open
  <2>4. told \in Seq(Tokens) /\ Len(told) <= BufMax
    BY <1>1, <1>2, <2>2, Sides, AppendProperties, TunnelAssumption, TunnelOpsAssumption
  <2>5. gt["client"] \o told = <<method_reply, connect_reply>>
    BY <2>1, BothReplies
  <2> HIDE DEF told
  <2>6. Shape(w, "up")
    <3>1. \A s \in Side : Len(w.wbuf[s]) <= BufMax
      BY <1>5, <1>6, <2>4, Sides, TunnelAssumption, TunnelOpsAssumption
      DEF Sound, Shape
    <3>2. \A s \in Side : Open(w, s)
      BY <1>4, <1>5, <1>9, Sides DEF Open
    <3> QED
      BY <1>3, <1>4, <3>1, <3>2 DEF Sound, Shape
  <2>7. Opens(w, cs, rs, nr, gt)
    BY <1>3, <1>4 DEF Opens
  <2>8. Conserves(w, cs, rs, nr, gt)
    <3>1. gt["remote"] \o w.wbuf["remote"] \o w.rbuf["client"] = SubSeq(cs, 3, nr["client"])
      <4>1. <<>> \o <<>> = <<>>
        BY EmptySeq, ConcatEmptySeq
      <4>2. <<>> \o t.rbuf["client"] = t.rbuf["client"]
        BY <1>2, Sides, ConcatEmptySeq
      <4> QED
        BY <1>3, <1>4, <1>5, <1>6, <2>1, <4>1, <4>2, ZenonT(60)
    <3> QED
      BY <1>3, <1>4, <1>5, <2>1, <2>5, <3>1, ZenonT(60) DEF Conserves
  <2>9. Armed(w)
    BY <1>5, <1>6, Sides DEF Armed
  <2> QED
    BY <2>3, <2>6, <2>7, <2>8, <2>9 DEF Sound
<1>10. ASSUME nr["client"] <= 2
       PROVE  Passed(e, cs, nr, gt) /\ Passed(w, cs, nr, gt)
  <2>1. SubSeq(cs, 3, nr["client"]) = <<>>
    <3>1. nr["client"] \in Int /\ 3 \in Int /\ nr["client"] < 3
      BY <1>10, Sides DEF Given
    <3> QED
      BY <3>1, SubSeqEmpty
  <2>2. t.rbuf["client"] = <<>>
    <3>1. Open(t, "client") => t.rbuf["client"] = SubSeq(cs, 3, nr["client"])
      BY DEF Sound, Opens, Taken
    <3> QED
      BY <2>1, <3>1, Sides DEF Sound, Shape
  <2>3. <<>> \o <<>> = <<>>
    BY EmptySeq, ConcatEmptySeq
  <2>4. Open(e, "remote") /\ Open(w, "remote")
    BY <1>4, <1>5 DEF Open
  <2>5. gt["remote"] \o t.wbuf["remote"] = SubSeq(cs, 3, nr["client"])
    BY <1>6, <2>1, <2>3
  <2>6. e.wbuf["remote"] = t.wbuf["remote"] /\ w.wbuf["remote"] = t.wbuf["remote"]
    BY <1>3, <1>5
  <2>7. e.rbuf["client"] = <<>> /\ w.rbuf["client"] = <<>>
    BY <1>3, <1>4, <2>2
  <2>8. (Open(e, "client") \/ Open(w, "client")) => nr["client"] >= 2
    BY <1>4, <1>5, Sides DEF Sound, Opens, Open, Taken, Given
  <2> QED
    BY <2>4, <2>5, <2>6, <2>7, <2>8 DEF Passed
<1> QED
  BY <1>3, <1>4, <1>5, <1>8, <1>9, <1>10 DEF e, w

\* tunnel_connecting_handle on an event of the remote's socket, which has an
\* error unless the connection is up.
LEMMA ConnectingHandleSound ==
    ASSUME NEW t, NEW cs, NEW rs, NEW nr, NEW gt, NEW cn, Given(cs, rs, nr, gt),
           Sound(t, cs, rs, nr, gt, cn), t.state = "connecting_state",
           Open(t, "remote"), NEW error \in BOOLEAN, ~error => cn = "up"
    PROVE  LET r == ConnectingHandle(t, error)
           IN  /\ Preserves(t, r.t, cs, rs, nr, gt, cn)
               /\ nr["client"] <= 2 => Passed(r.t, cs, nr, gt)
               /\ r.failed \in BOOLEAN /\ r.bad \in {"no", "crashed"}
<1> DEFINE e == Established(t)
           w == WriteClient(e, connect_reply)
           r == ConnectingHandle(t, error)
<1>1. CASE error
  <2>1. r.t = t /\ r.failed = TRUE /\ r.bad = "no"
    BY <1>1 DEF ConnectingHandle, Failed
  <2>2. Preserves(t, t, cs, rs, nr, gt, cn) /\ Passed(t, cs, nr, gt)
    BY DEF Preserves, Narrow, Spares, Passed
  <2> HIDE DEF r
  <2>3. /\ Preserves(t, r.t, cs, rs, nr, gt, cn) /\ Passed(r.t, cs, nr, gt)
        /\ r.failed \in BOOLEAN /\ r.bad \in {"no", "crashed"}
    BY <2>1, <2>2
  <2> QED
    BY <2>3 DEF r
<1>2. CASE ~error
  <2>1. cn = "up"
    BY <1>2
  <2>2. /\ e.state = "connected_state" /\ w.state = "connected_state"
        /\ e.sock["client"] = t.sock["client"]
        /\ ~Open(t, "client") => Sound(e, cs, rs, nr, gt, cn)
        /\ Open(t, "client") => ClientWritable(e) /\ Sound(w, cs, rs, nr, gt, cn)
        /\ nr["client"] <= 2 => Passed(e, cs, nr, gt) /\ Passed(w, cs, nr, gt)
    BY <2>1, EstablishedSound
  <2>3. r = NotifyConnected(e)
    BY <1>2 DEF ConnectingHandle
  <2> HIDE DEF e
  <2>4. r = IF ClientWritable(e) THEN Ok(w)
            ELSE IF e.family = 4 THEN Failed(e)
            ELSE IF Open(e, "client") THEN Ok(e) ELSE Broken(e, "crashed")
    BY <2>3 DEF NotifyConnected
  <2> HIDE DEF w, r
  <2>5. Open(e, "client") <=> Open(t, "client")
    BY <2>2 DEF Open
  <2>6. /\ r.t = IF Open(t, "client") THEN w ELSE e
        /\ r.failed \in BOOLEAN /\ r.bad \in {"no", "crashed"}
    <3>1. CASE Open(t, "client")
      BY <2>2, <2>4, <3>1 DEF Ok
    <3>2. CASE ~Open(t, "client")
      <4>1. ~ClientWritable(e)
        BY <2>5, <3>2 DEF ClientWritable
      <4> QED
        BY <2>4, <2>5, <3>2, <4>1 DEF Failed, Broken
    <3> QED
      BY <3>1, <3>2
  <2>7. Sound(r.t, cs, rs, nr, gt, cn) /\ r.t.state = "connected_state"
    BY <2>2, <2>6
  <2>8. Preserves(t, r.t, cs, rs, nr, gt, cn)
    BY <2>7 DEF Preserves, Calm, Narrow, Spares
  <2>9. nr["client"] <= 2 => Passed(r.t, cs, nr, gt)
    BY <2>2, <2>6
  <2> QED
    BY <2>6, <2>8, <2>9 DEF r
<1> QED
  BY <1>1, <1>2

\* The first message that waits is taken.
LEMMA TailOfRead ==
    ASSUME NEW cs \in Seq(Tokens), NEW k \in Nat, 1 <= k, NEW n \in Nat, n <= Len(cs),
           NEW bs, bs = SubSeq(cs, k, n), bs # <<>>
    PROVE  k <= n /\ Tail(bs) = SubSeq(cs, k + 1, n)
<1>1. Len(cs) \in Nat
  BY LenProperties
<1>2. k <= n
  <2>1. ASSUME n < k
        PROVE  FALSE
    BY <2>1, SubSeqEmpty
  <2> QED
    BY <2>1
<1>3. k \in 1 .. Len(cs) /\ n \in k .. Len(cs)
  BY <1>1, <1>2
<1>4. Tail(SubSeq(cs, k, n)) = SubSeq(cs, k + 1, n)
  BY <1>3, HeadTailOfSubSeq
<1> QED
  BY <1>2, <1>4

LEMMA NextMessage ==
    ASSUME NEW t, NEW cs, NEW rs, NEW nr, NEW gt, Given(cs, rs, nr, gt),
           Opens(t, cs, rs, nr, gt), Open(t, "client"), t.rbuf["client"] # <<>>
    PROVE  /\ t.state = "open_state" =>
                 1 <= nr["client"] /\ Tail(t.rbuf["client"]) = SubSeq(cs, 2, nr["client"])
           /\ t.state = "request_state" =>
                 2 <= nr["client"] /\ Tail(t.rbuf["client"]) = SubSeq(cs, 3, nr["client"])
<1> DEFINE k == Taken(t.state) + 1
           n == nr["client"]
<1>1. cs \in Seq(Tokens) /\ n \in Nat /\ n <= Len(cs)
  BY Sides DEF Given
<1>2. t.state # "connected_state" => t.rbuf["client"] = SubSeq(cs, k, n)
  BY DEF Opens
<1>3. k \in Nat /\ 1 <= k
  BY DEF Taken
<1>4. (t.state = "open_state" => k = 1) /\ (t.state = "request_state" => k = 2)
  BY DEF Taken
<1>5. n = nr["client"]
  OBVIOUS
<1> HIDE DEF k, n
<1>6. t.state # "connected_state" =>
         k <= n /\ Tail(t.rbuf["client"]) = SubSeq(cs, k + 1, n)
  BY <1>1, <1>2, <1>3, TailOfRead
<1>7. (k = 1 => k + 1 = 2) /\ (k = 2 => k + 1 = 3)
  BY <1>3
<1>8. CASE t.state = "open_state"
  <2>1. k = 1 /\ k + 1 = 2
    BY <1>4, <1>7, <1>8
  <2>2. 1 <= n /\ Tail(t.rbuf["client"]) = SubSeq(cs, 2, n)
    BY <1>6, <1>8, <2>1
  <2> QED
    BY <1>5, <1>8, <2>2
<1>9. CASE t.state = "request_state"
  <2>1. k = 2 /\ k + 1 = 3
    BY <1>4, <1>7, <1>9
  <2>2. 2 <= n /\ Tail(t.rbuf["client"]) = SubSeq(cs, 3, n)
    BY <1>6, <1>9, <2>1
  <2> QED
    BY <1>5, <1>9, <2>2
<1> QED
  BY <1>8, <1>9

\* The message at hand is taken and the state is set.
Consumed(t, st) == [t EXCEPT !.rbuf["client"] = Tail(@), !.state = st]

LEMMA ConsumedFields ==
    ASSUME NEW t \in TunnelT(Tokens), NEW st \in TunnelState, t.rbuf["client"] # <<>>
    PROVE  LET u == Consumed(t, st)
           IN  /\ u \in TunnelT(Tokens) /\ u.state = st /\ u.sock = t.sock
               /\ u.rbuf = [t.rbuf EXCEPT !["client"] = Tail(@)]
               /\ u.wbuf = t.wbuf /\ u.interest = t.interest
<1> DEFINE rbuf == [t.rbuf EXCEPT !["client"] = Tail(@)]
           u == Consumed(t, st)
<1>1. Tail(t.rbuf["client"]) \in Seq(Tokens)
  BY TunnelParts, Sides, HeadTailProperties
<1>2. rbuf \in [Side -> Seq(Tokens)]
  BY <1>1, TunnelParts, Sides
<1>3. u = Update(t, st, t.sock, rbuf, t.wbuf, t.interest)
  BY DEF Update, Consumed, TunnelT
<1> HIDE DEF u, rbuf
<1>4. /\ u \in TunnelT(Tokens) /\ u.state = st /\ u.sock = t.sock
      /\ u.rbuf = rbuf /\ u.wbuf = t.wbuf /\ u.interest = t.interest
  BY <1>2, <1>3, TunnelParts DEF Update, TunnelT
<1> QED
  BY <1>4 DEF u, rbuf

\* tunnel_open_handle: the greeting is answered.
LEMMA OpenHandleSound ==
    ASSUME NEW t, NEW cs, NEW rs, NEW nr, NEW gt, NEW cn, Given(cs, rs, nr, gt),
           Sound(t, cs, rs, nr, gt, cn), t.state = "open_state", Open(t, "client")
    PROVE  LET r == OpenHandle(t)
           IN  /\ Sound(r.t, cs, rs, nr, gt, cn)
               /\ Calm(t) => Calm(r.t)
               /\ r.t.state # "connected_state"
               /\ r.failed = FALSE /\ r.bad = "no"
<1> DEFINE u == Consumed(t, "request_state")
           w == WriteClient(u, method_reply)
           r == OpenHandle(t)
<1>1. t \in TunnelT(Tokens) /\ method_reply \in Tokens
  BY DEF Sound, Shape, Tokens
<1>2. CASE t.rbuf["client"] = <<>>
  <2>1. r = Ok(t)
    BY <1>2 DEF OpenHandle
  <2>2. r.t = t /\ r.failed = FALSE /\ r.bad = "no"
    BY <2>1 DEF Ok
  <2> QED
    BY <2>2
<1>3. CASE t.rbuf["client"] # <<>>
  <2>1. /\ u \in TunnelT(Tokens) /\ u.state = "request_state" /\ u.sock = t.sock
        /\ u.rbuf = [t.rbuf EXCEPT !["client"] = Tail(@)]
        /\ u.wbuf = t.wbuf /\ u.interest = t.interest
    BY <1>1, <1>3, ConsumedFields DEF TunnelState
  <2>2. OpenHandle(t) = IF ClientWritable(u) THEN Ok(w) ELSE Failed(u)
    BY <1>3 DEF OpenHandle, Consumed
  <2> HIDE DEF u
  <2>3. /\ w \in TunnelT(Tokens) /\ w.state = u.state /\ w.sock = u.sock /\ w.rbuf = u.rbuf
        /\ w.wbuf = [u.wbuf EXCEPT !["client"] = Append(@, method_reply)]
        /\ w.interest = [u.interest EXCEPT !["client"] = {"in", "out"}]
    BY <1>1, <2>1, WriteClientFields
  <2> HIDE DEF w
  <2>4. t.wbuf["client"] = <<>> /\ t.wbuf["remote"] = <<>> /\ gt["client"] = <<>>
    BY DEF Sound, Shape, Opens, Answered
  <2>5. ClientWritable(u)
    BY <2>1, <2>4, BothReplies, TunnelOpsAssumption DEF ClientWritable, FitsIn, Open
  <2>6. r = Ok(w)
    BY <2>2, <2>5
  <2>7. /\ w.wbuf["client"] = <<method_reply>> /\ w.wbuf["remote"] = <<>>
        /\ w.interest["client"] = {"in", "out"}
        /\ w.rbuf["client"] = Tail(t.rbuf["client"]) /\ w.rbuf["remote"] = t.rbuf["remote"]
    <3>1. Append(<<>>, method_reply) = <<method_reply>>
      OBVIOUS
    <3>2. u.rbuf["client"] = Tail(t.rbuf["client"]) /\ u.rbuf["remote"] = t.rbuf["remote"]
      BY <1>1, <2>1, TunnelParts, Sides
    <3>3. /\ w.wbuf["client"] = Append(u.wbuf["client"], method_reply)
          /\ w.wbuf["remote"] = u.wbuf["remote"]
      BY <2>1, <2>3, TunnelParts, Sides
    <3>4. w.interest["client"] = {"in", "out"}
      BY <2>1, <2>3, TunnelParts, Sides
    <3> QED
      BY <2>1, <2>3, <2>4, <3>1, <3>2, <3>3, <3>4
  <2>8. 1 <= nr["client"] /\ w.rbuf["client"] = SubSeq(cs, 2, nr["client"])
    <3>1. Opens(t, cs, rs, nr, gt)
      BY DEF Sound
    <3>2. t.state = "open_state" =>
             1 <= nr["client"] /\ Tail(t.rbuf["client"]) = SubSeq(cs, 2, nr["client"])
      BY <1>3, <3>1, NextMessage
    <3> QED
      BY <2>7, <3>2
  <2>9. Shape(w, cn)
    <3>1. Len(Tail(t.rbuf["client"])) <= BufMax
      <4>1. t.rbuf["client"] \in Seq(Tokens) /\ Len(t.rbuf["client"]) <= BufMax
        BY <1>1, TunnelParts, Sides DEF Sound, Shape
      <4>2. Len(Tail(t.rbuf["client"])) = Len(t.rbuf["client"]) - 1
        BY <1>3, <4>1, HeadTailProperties
      <4>3. Len(t.rbuf["client"]) \in Nat
        BY <4>1, LenProperties
      <4> QED
        BY <4>1, <4>2, <4>3, TunnelOpsAssumption
    <3>2. \A s \in Side : Len(w.rbuf[s]) <= BufMax /\ Len(w.wbuf[s]) <= BufMax
      <4>1. Len(w.rbuf["client"]) <= BufMax /\ Len(w.rbuf["remote"]) <= BufMax
        BY <2>7, <3>1, Sides DEF Sound, Shape
      <4>2. Len(w.wbuf["client"]) <= BufMax /\ Len(w.wbuf["remote"]) <= BufMax
        BY <2>7, BothReplies, TunnelOpsAssumption
      <4> QED
        BY <4>1, <4>2, Sides
    <3>3. ~Open(w, "remote") /\ Open(w, "client") /\ w.rbuf["remote"] = <<>> /\ cn = "none"
      BY <2>1, <2>3, <2>7, Sides DEF Sound, Shape, Open
    <3> QED
      BY <2>1, <2>3, <2>7, <3>2, <3>3, Sides DEF Shape
  <2>10. Opens(w, cs, rs, nr, gt)
    <3>1. ~Open(w, "remote") /\ gt["remote"] = <<>> /\ nr["remote"] = 0
      BY <2>1, <2>3 DEF Sound, Shape, Opens, Open
    <3>2. Taken(w.state) = 1 /\ Taken(w.state) + 1 = 2
      BY <2>1, <2>3 DEF Taken
    <3>3. Answered(w, gt)
      BY <2>1, <2>3, <2>4, <2>7 DEF Answered
    <3>4. nr["client"] >= Taken(w.state)
      BY <2>8, <3>2, Sides DEF Given
    <3> QED
      BY <2>4, <2>8, <3>1, <3>2, <3>3, <3>4 DEF Opens
  <2>11. Conserves(w, cs, rs, nr, gt)
    BY <2>1, <2>3 DEF Conserves, Flows
  <2>12. Armed(w)
    BY <2>7, Sides DEF Armed
  <2>13. Calm(w)
    BY <2>7 DEF Calm
  <2>14. r.t = w /\ r.failed = FALSE /\ r.bad = "no"
    BY <2>6 DEF Ok
  <2> HIDE DEF r
  <2> QED
    BY <2>1, <2>3, <2>9, <2>10, <2>11, <2>12, <2>13, <2>14 DEF Sound, r
<1> QED
  BY <1>2, <1>3

\* The connection is on its way, which cn2 says has been made or not.
LEMMA DialledSound ==
    ASSUME NEW t, NEW cs, NEW rs, NEW nr, NEW gt, NEW cn, Given(cs, rs, nr, gt),
           Sound(t, cs, rs, nr, gt, cn), t.state = "request_state", Open(t, "client"),
           t.rbuf["client"] # <<>>, NEW cn2
    PROVE  LET u == Consumed(t, "request_state")
               d == [Dialling(u) EXCEPT !.state = "connecting_state"]
           IN  /\ Sound(d, cs, rs, nr, gt, cn2)
               /\ Calm(t) => Calm(d)
               /\ d.state = "connecting_state" /\ Open(d, "remote") /\ Open(d, "client")
               /\ Established(Dialling(u)) = Established(d)
<1> DEFINE u == Consumed(t, "request_state")
           sock == [u.sock EXCEPT !["remote"] = "connecting"]
           interest == [u.interest EXCEPT !["remote"] = {"in", "out"}]
           d == [Dialling(u) EXCEPT !.state = "connecting_state"]
<1>1. t \in TunnelT(Tokens)
  BY DEF Sound, Shape
<1>2. /\ u \in TunnelT(Tokens) /\ u.state = "request_state" /\ u.sock = t.sock
      /\ u.rbuf = [t.rbuf EXCEPT !["client"] = Tail(@)]
      /\ u.wbuf = t.wbuf /\ u.interest = t.interest
  BY <1>1, ConsumedFields DEF TunnelState
<1> HIDE DEF u
<1>3. Established(Dialling(u)) = Established(d)
  BY <1>2 DEF Established, Dialling, TunnelT
<1>4. sock \in [Side -> SockState] /\ interest \in [Side -> SUBSET {"in", "out"}]
  BY <1>2, TunnelParts DEF SockState
<1>5. d = Update(u, "connecting_state", sock, u.rbuf, u.wbuf, interest)
  BY <1>2 DEF Update, Dialling, TunnelT
<1> HIDE DEF sock, interest, d
<1>6. /\ d \in TunnelT(Tokens) /\ d.state = "connecting_state" /\ d.sock = sock
      /\ d.rbuf = u.rbuf /\ d.wbuf = u.wbuf /\ d.interest = interest
  BY <1>2, <1>4, <1>5, TunnelParts DEF Update, TunnelT, TunnelState
<1>7. /\ d.sock["client"] = t.sock["client"] /\ d.sock["remote"] = "connecting"
      /\ d.rbuf["client"] = Tail(t.rbuf["client"]) /\ d.rbuf["remote"] = t.rbuf["remote"]
      /\ d.wbuf = t.wbuf
      /\ d.interest["client"] = t.interest["client"] /\ d.interest["remote"] = {"in", "out"}
  BY <1>1, <1>2, <1>6, TunnelParts, Sides DEF sock, interest
<1>8. Open(d, "client") /\ Open(d, "remote")
  BY <1>7 DEF Open
<1>9. /\ t.rbuf["remote"] = <<>> /\ t.wbuf["remote"] = <<>>
      /\ gt["remote"] = <<>> /\ nr["remote"] = 0
      /\ gt["client"] \in {<<>>, <<method_reply>>}
      /\ \/ gt["client"] = <<>> /\ t.wbuf["client"] = <<method_reply>>
         \/ gt["client"] = <<method_reply>> /\ t.wbuf["client"] = <<>>
  BY Sides DEF Sound, Shape, Opens, Answered
<1>10. /\ 2 <= nr["client"]
       /\ d.rbuf["client"] = SubSeq(cs, 3, nr["client"])
  <2>1. Opens(t, cs, rs, nr, gt)
    BY DEF Sound
  <2>2. t.state = "request_state" =>
           2 <= nr["client"] /\ Tail(t.rbuf["client"]) = SubSeq(cs, 3, nr["client"])
    BY <2>1, NextMessage
  <2> QED
    BY <1>7, <2>2
<1>11. Shape(d, cn2)
  <2>1. Len(Tail(t.rbuf["client"])) <= BufMax
    <3>1. t.rbuf["client"] \in Seq(Tokens) /\ Len(t.rbuf["client"]) <= BufMax
      BY <1>1, TunnelParts, Sides DEF Sound, Shape
    <3>2. Len(Tail(t.rbuf["client"])) = Len(t.rbuf["client"]) - 1
      BY <3>1, HeadTailProperties
    <3>3. Len(t.rbuf["client"]) \in Nat
      BY <3>1, LenProperties
    <3> QED
      BY <3>1, <3>2, <3>3, TunnelOpsAssumption
  <2>2. \A s \in Side : Len(d.rbuf[s]) <= BufMax /\ Len(d.wbuf[s]) <= BufMax
    BY <1>7, <2>1, Sides DEF Sound, Shape
  <2>3. \A s \in Side : Open(d, s)
    BY <1>8, Sides
  <2> QED
    BY <1>6, <1>7, <1>9, <2>2, <2>3 DEF Shape
<1>12. Opens(d, cs, rs, nr, gt)
  <2>1. SubSeq(rs, 1, nr["remote"]) = <<>>
    BY <1>9, SubSeqEmpty
  <2>2. Taken(d.state) = 2 /\ Taken(d.state) + 1 = 3
    BY <1>6 DEF Taken
  <2>3. Answered(d, gt)
    BY <1>6, <1>7, <1>9 DEF Answered
  <2>4. nr["client"] >= Taken(d.state)
    BY <1>10, <2>2, Sides DEF Given
  <2>5. d.rbuf["remote"] = SubSeq(rs, 1, nr["remote"])
    BY <1>7, <1>9, <2>1
  <2> QED
    BY <1>6, <1>9, <1>10, <2>2, <2>3, <2>4, <2>5 DEF Opens
<1>13. Conserves(d, cs, rs, nr, gt)
  BY <1>6 DEF Conserves, Flows
<1>14. Armed(d)
  BY <1>7, <1>9, Sides DEF Sound, Armed
<1>15. Calm(t) => Calm(d)
  BY <1>7 DEF Calm
<1> QED
  BY <1>3, <1>6, <1>8, <1>11, <1>12, <1>13, <1>14, <1>15 DEF Sound, d, u

\* A tunnel is its fields.
LEMMA SameParts ==
    ASSUME NEW t \in TunnelT(Tokens), NEW u \in TunnelT(Tokens),
           t.state = u.state, t.sock = u.sock, t.family = u.family,
           t.rbuf = u.rbuf, t.wbuf = u.wbuf, t.interest = u.interest
    PROVE  t = u
<1>1. /\ t = [state |-> t.state, sock |-> t.sock, family |-> t.family,
              rbuf |-> t.rbuf, wbuf |-> t.wbuf, interest |-> t.interest]
      /\ u = [state |-> u.state, sock |-> u.sock, family |-> u.family,
              rbuf |-> u.rbuf, wbuf |-> u.wbuf, interest |-> u.interest]
  BY DEF TunnelT
<1> QED
  BY <1>1

\* tunnel_request_handle: the outcome of the connect, or the client's socket
\* closed.
LEMMA RequestHandleSound ==
    ASSUME NEW t, NEW cs, NEW rs, NEW nr, NEW gt, NEW cn, Given(cs, rs, nr, gt),
           Sound(t, cs, rs, nr, gt, cn), t.state = "request_state", Open(t, "client"),
           t.rbuf["client"] # <<>>, NEW outcome \in {"failed", "pending", "up"}
    PROVE  LET r == ForceIfFailed(RequestHandle(t, outcome), "client")
               cn2 == IF outcome = "failed" THEN cn ELSE outcome
           IN  /\ Sound(r.t, cs, rs, nr, gt, cn2)
               /\ Calm(t) => Calm(r.t)
               /\ nr["client"] <= 2 => Passed(r.t, cs, nr, gt)
               /\ r.bad = "no"
<1> DEFINE u == Consumed(t, "request_state")
           d == [Dialling(u) EXCEPT !.state = "connecting_state"]
           e == Established(Dialling(u))
           w == WriteClient(e, connect_reply)
           q == RequestHandle(t, outcome)
           r == ForceIfFailed(q, "client")
           cn2 == IF outcome = "failed" THEN cn ELSE outcome
<1>1. t \in TunnelT(Tokens)
  BY DEF Sound, Shape
<1>2. q = ConnectToRemote(u, outcome)
  <2>1. u = [t EXCEPT !.rbuf["client"] = Tail(@)]
    BY <1>1 DEF Consumed, TunnelT
  <2> HIDE DEF u
  <2> QED
    BY <2>1 DEF RequestHandle
<1>3. CASE outcome = "failed"
  <2>1. q = Failed(u)
    BY <1>2, <1>3 DEF ConnectToRemote
  <2>2. q.failed = TRUE /\ q.t = u
    BY <2>1 DEF Failed
  <2>3. SockRelease(u, "client") = SockRelease(t, "client")
    <3>1. /\ u \in TunnelT(Tokens) /\ u.state = "request_state" /\ u.sock = t.sock
          /\ u.rbuf = [t.rbuf EXCEPT !["client"] = Tail(@)]
          /\ u.wbuf = t.wbuf /\ u.interest = t.interest
      BY <1>1, ConsumedFields DEF TunnelState
    <3>2. u.family = t.family
      BY <1>1 DEF Consumed, TunnelT
    <3> DEFINE v == SockRelease(u, "client")
               x == SockRelease(t, "client")
    <3>3. /\ v \in TunnelT(Tokens) /\ v.state = u.state
          /\ v.sock = [u.sock EXCEPT !["client"] = "null"]
          /\ v.rbuf = [u.rbuf EXCEPT !["client"] = <<>>]
          /\ v.wbuf = [u.wbuf EXCEPT !["client"] = <<>>]
          /\ v.interest = [u.interest EXCEPT !["client"] = {}]
      BY <3>1, SockReleaseFields, Sides, ZenonT(60)
    <3>4. /\ x \in TunnelT(Tokens) /\ x.state = t.state
          /\ x.sock = [t.sock EXCEPT !["client"] = "null"]
          /\ x.rbuf = [t.rbuf EXCEPT !["client"] = <<>>]
          /\ x.wbuf = [t.wbuf EXCEPT !["client"] = <<>>]
          /\ x.interest = [t.interest EXCEPT !["client"] = {}]
      BY <1>1, SockReleaseFields, Sides
    <3>5. v.family = u.family /\ x.family = t.family
      BY <1>1, <3>1 DEF SockRelease, TunnelT
    <3> DEFINE rest == Tail(t.rbuf["client"])
    <3> HIDE DEF u, v, x, rest
    <3>6. v.rbuf = x.rbuf
      <4>1. u.rbuf = [t.rbuf EXCEPT !["client"] = rest]
        BY <3>1 DEF rest
      <4>2. [[t.rbuf EXCEPT !["client"] = rest] EXCEPT !["client"] = <<>>]
               = [t.rbuf EXCEPT !["client"] = <<>>]
        BY <1>1, TunnelParts
      <4> QED
        BY <3>3, <3>4, <4>1, <4>2
    <3>7. /\ v.state = x.state /\ v.sock = x.sock /\ v.wbuf = x.wbuf
          /\ v.interest = x.interest /\ v.family = x.family
      BY <3>1, <3>2, <3>3, <3>4, <3>5
    <3>8. v = x
      BY <3>3, <3>4, <3>6, <3>7, SameParts
    <3> QED
      BY <3>8 DEF v, x
  <2>4. r = Ok(SockRelease(t, "client"))
    <3> HIDE DEF q, u
    <3> QED
      BY <2>2, <2>3 DEF ForceIfFailed
  <2>5. Keeps(t, SockRelease(t, "client"), cs, rs, nr, gt, cn)
    BY SockReleaseKeeps, Sides
  <2>6. r.t = SockRelease(t, "client") /\ r.bad = "no"
    BY <2>4 DEF Ok
  <2>7. Passed(t, cs, nr, gt)
    BY DEF Passed
  <2>8. cn2 = cn
    BY <1>3
  <2> HIDE DEF r, cn2
  <2>9. /\ Sound(r.t, cs, rs, nr, gt, cn2)
        /\ Calm(t) => Calm(r.t)
        /\ Passed(r.t, cs, nr, gt) /\ r.bad = "no"
    BY <2>5, <2>6, <2>7, <2>8 DEF Keeps, Preserves
  <2> QED
    BY <2>9 DEF r, q, cn2
<1>4. CASE outcome = "pending"
  <2>1. q = Ok(d)
    BY <1>2, <1>4 DEF ConnectToRemote
  <2>2. /\ Sound(d, cs, rs, nr, gt, "pending")
        /\ Calm(t) => Calm(d)
        /\ d.state = "connecting_state"
    BY DialledSound
  <2> HIDE DEF d, q
  <2>3. r = Ok(d)
    BY <2>1 DEF ForceIfFailed, Ok
  <2>4. r.t = d /\ r.bad = "no"
    BY <2>3 DEF Ok
  <2>5. cn2 = "pending"
    BY <1>4
  <2> HIDE DEF r, cn2
  <2>6. /\ Sound(r.t, cs, rs, nr, gt, cn2)
        /\ Calm(t) => Calm(r.t)
        /\ Passed(r.t, cs, nr, gt) /\ r.bad = "no"
    BY <2>2, <2>4, <2>5 DEF Passed
  <2> QED
    BY <2>6 DEF r, q, cn2
<1>5. CASE outcome = "up"
  <2>1. q = NotifyConnected(e)
    BY <1>2, <1>5 DEF ConnectToRemote
  <2>2. /\ Sound(d, cs, rs, nr, gt, "up") /\ d.state = "connecting_state"
        /\ Open(d, "remote") /\ Open(d, "client") /\ e = Established(d)
    BY DialledSound
  <2> HIDE DEF d, e
  <2>3. LET f == Established(d)
            g == WriteClient(f, connect_reply)
        IN  /\ f.state = "connected_state" /\ g.state = "connected_state"
            /\ f.sock["client"] = d.sock["client"]
            /\ ~Open(d, "client") => Sound(f, cs, rs, nr, gt, "up")
            /\ Open(d, "client") => ClientWritable(f) /\ Sound(g, cs, rs, nr, gt, "up")
            /\ nr["client"] <= 2 => Passed(f, cs, nr, gt) /\ Passed(g, cs, nr, gt)
    BY <2>2, EstablishedSound
  <2>4. /\ w.state = "connected_state" /\ ClientWritable(e)
        /\ Sound(w, cs, rs, nr, gt, "up")
        /\ nr["client"] <= 2 => Passed(w, cs, nr, gt)
    BY <2>2, <2>3
  <2>5. q = Ok(w)
    BY <2>1, <2>4 DEF NotifyConnected
  <2> HIDE DEF w, q
  <2>6. r = Ok(w)
    BY <2>5 DEF ForceIfFailed, Ok
  <2>7. r.t = w /\ r.bad = "no"
    BY <2>6 DEF Ok
  <2>8. cn2 = "up"
    BY <1>5
  <2> HIDE DEF r, cn2
  <2>9. /\ Sound(r.t, cs, rs, nr, gt, cn2)
        /\ Calm(t) => Calm(r.t)
        /\ nr["client"] <= 2 => Passed(r.t, cs, nr, gt)
        /\ r.bad = "no"
    BY <2>4, <2>7, <2>8 DEF Calm
  <2> QED
    BY <2>9 DEF r, q, cn2
<1> QED
  BY <1>3, <1>4, <1>5

-----------------------------------------------------------------------------
(* The handlers of the loop: tunnel_read_handle and tunnel_write_handle.   *)

LEMMA Lengths ==
    ASSUME NEW a \in Seq(Tokens), NEW b \in Seq(Tokens)
    PROVE  /\ a \o b \in Seq(Tokens) /\ Len(a \o b) = Len(a) + Len(b)
           /\ Len(a) \in Nat /\ Len(b) \in Nat
<1>1. a \o b \in Seq(Tokens) /\ Len(a \o b) = Len(a) + Len(b)
  BY ConcatProperties
<1>2. Len(a) \in Nat /\ Len(b) \in Nat
  BY LenProperties
<1> QED
  BY <1>1, <1>2

\* What ForwardedFields says, side by side.
LEMMA ForwardedSides ==
    ASSUME NEW t \in TunnelT(Tokens), NEW s \in Side
    PROVE  LET u == Forwarded(t, s)
           IN  /\ u.state = t.state /\ u.sock = t.sock
               /\ u.rbuf[s] = <<>> /\ u.rbuf[Peer(s)] = t.rbuf[Peer(s)]
               /\ u.wbuf[s] = t.wbuf[s]
               /\ u.wbuf[Peer(s)] = t.wbuf[Peer(s)] \o t.rbuf[s]
<1> DEFINE u == Forwarded(t, s)
           both == t.wbuf[Peer(s)] \o t.rbuf[s]
<1>1. /\ u \in TunnelT(Tokens) /\ u.state = t.state /\ u.sock = t.sock
      /\ u.rbuf = [t.rbuf EXCEPT ![s] = <<>>]
      /\ u.wbuf = [t.wbuf EXCEPT ![Peer(s)] = @ \o t.rbuf[s]]
  BY ForwardedFields
<1>2. u.wbuf = [t.wbuf EXCEPT ![Peer(s)] = both]
  BY <1>1
<1>3. Peer(s) \in Side /\ Peer(s) # s
  BY Sides
<1>4. t.rbuf \in [Side -> Seq(Tokens)] /\ t.wbuf \in [Side -> Seq(Tokens)]
  BY TunnelParts
<1> HIDE DEF u, both
<1>5. /\ u.rbuf[s] = <<>> /\ u.rbuf[Peer(s)] = t.rbuf[Peer(s)]
      /\ u.wbuf[s] = t.wbuf[s] /\ u.wbuf[Peer(s)] = both
  BY <1>1, <1>2, <1>3, <1>4
<1> QED
  BY <1>1, <1>5 DEF u, both

\* What the client of a connected tunnel said is all on its way to the remote,
\* and so is, once it is forwarded, what the client says next.
LEMMA ForwardedPassed ==
    ASSUME NEW t, NEW cs, NEW rs, NEW nr, NEW gt, NEW cn, Given(cs, rs, nr, gt),
           Sound(t, cs, rs, nr, gt, cn), t.state = "connected_state",
           Open(t, "client"), Open(t, "remote"), Passed(t, cs, nr, gt),
           Len(cs) <= BufMax + 2,
           NEW nr2, Given(cs, rs, nr2, gt), nr["client"] <= nr2["client"],
           NEW u \in TunnelT(Tokens), u.state = t.state, u.sock = t.sock,
           u.wbuf = t.wbuf,
           u.rbuf["client"] = t.rbuf["client"] \o
                                 SubSeq(cs, nr["client"] + 1, nr2["client"])
    PROVE  /\ FitsIn(u.wbuf["remote"], u.rbuf["client"])
           /\ Passed(Forwarded(u, "client"), cs, nr2, gt)
<1> DEFINE a == gt["remote"]
           b == t.wbuf["remote"]
           m == nr["client"]
           m2 == nr2["client"]
           bytes == SubSeq(cs, m + 1, m2)
           v == Forwarded(u, "client")
<1>1. /\ m \in Nat /\ m >= 2 /\ m2 \in m .. Len(cs) /\ cs \in Seq(Tokens) /\ Len(cs) \in Nat
      /\ a \in Seq(Tokens) /\ b \in Seq(Tokens) /\ bytes \in Seq(Tokens)
  <2>1. m \in Nat /\ m >= 2 /\ m2 \in Nat /\ m <= m2 /\ m2 <= Len(cs) /\ cs \in Seq(Tokens)
    BY Sides DEF Given, Passed
  <2>2. Len(cs) \in Nat
    BY <2>1, LenProperties
  <2>3. t \in TunnelT(Tokens)
    BY DEF Sound, Shape
  <2>4. t.wbuf \in [Side -> Seq(Tokens)] /\ gt \in [Side -> Seq(Tokens)]
    BY <2>3, TunnelParts DEF Given
  <2>5. a \in Seq(Tokens) /\ b \in Seq(Tokens)
    BY <2>4, Sides
  <2>6. bytes \in Seq(Tokens)
    <3>1. \A i \in m + 1 .. m2 : cs[i] \in Tokens
      BY <2>1, <2>2, ElementOfSeq
    <3>2. m + 1 \in Int /\ m2 \in Int
      BY <2>1
    <3> QED
      BY <3>1, <3>2, SubSeqProperties
  <2> QED
    BY <2>1, <2>2, <2>5, <2>6
<1>2. u.rbuf["client"] = bytes
  <2>1. t.rbuf["client"] = <<>> /\ u.rbuf["client"] = t.rbuf["client"] \o bytes
    BY DEF Passed
  <2> QED
    BY <1>1, <2>1, ConcatEmptySeq
<1>3. a \o b = SubSeq(cs, 3, m)
  BY DEF Passed
<1>4. bytes = SubSeq(cs, m + 1, m2)
  OBVIOUS
<1>5. m2 = nr2["client"]
  OBVIOUS
<1>6. /\ v.state = u.state /\ v.sock = u.sock /\ v.rbuf["client"] = <<>>
      /\ v.wbuf["remote"] = b \o bytes
  <2>1. /\ v.state = u.state /\ v.sock = u.sock
        /\ v.rbuf["client"] = <<>>
        /\ v.wbuf[Peer("client")] = u.wbuf[Peer("client")] \o u.rbuf["client"]
    <3>1. "client" \in Side
      BY Sides
    <3> QED
      BY <3>1, ForwardedSides
  <2>2. Peer("client") = "remote"
    BY Sides
  <2> HIDE DEF v
  <2> QED
    BY <1>2, <2>1, <2>2
<1>7. b = t.wbuf["remote"] /\ a = gt["remote"]
  OBVIOUS
<1> HIDE DEF a, b, m, m2, bytes, v
<1>8. (a \o b) \o bytes = SubSeq(cs, 3, m2)
  <2>1. 3 \in 1 .. Len(cs) + 1 /\ m \in 3 - 1 .. Len(cs) /\ m2 \in m .. Len(cs)
    BY <1>1
  <2>2. SubSeq(cs, 3, m) \o SubSeq(cs, m + 1, m2) = SubSeq(cs, 3, m2)
    BY <1>1, <2>1, ConcatAdjacentSubSeq
  <2> QED
    BY <1>3, <1>4, <2>2
<1>9. a \o (b \o bytes) = SubSeq(cs, 3, m2)
  BY <1>1, <1>8, Regrouped
<1>10. Len(b) + Len(bytes) <= BufMax
  <2> DEFINE p == SubSeq(cs, 3, m2)
             bb == b \o bytes
  <2>1. bb \in Seq(Tokens) /\ Len(bb) = Len(b) + Len(bytes)
    BY <1>1, ConcatProperties
  <2>2. Len(p) = (IF 3 <= m2 THEN m2 - 3 + 1 ELSE 0)
    BY <1>1, SubSeqProperties
  <2>3. Len(p) <= BufMax
    BY <1>1, <2>2, TunnelOpsAssumption
  <2>4. a \o bb = p
    BY <1>9
  <2> HIDE DEF p, bb
  <2>5. Len(p) = Len(a) + Len(bb) /\ Len(a) \in Nat /\ Len(bb) \in Nat
    BY <1>1, <2>1, <2>4, Lengths
  <2> QED
    BY <2>1, <2>3, <2>5, TunnelOpsAssumption
<1>11. FitsIn(u.wbuf["remote"], u.rbuf["client"])
  BY <1>2, <1>7, <1>10 DEF FitsIn
<1>12. nr2["client"] >= 2
  BY <1>1, <1>5
<1>13. gt["remote"] \o v.wbuf["remote"] = SubSeq(cs, 3, nr2["client"])
  BY <1>5, <1>6, <1>7, <1>9
<1>14. Open(v, "remote")
  BY <1>6 DEF Open
<1>15. Passed(v, cs, nr2, gt)
  BY <1>6, <1>12, <1>13, <1>14 DEF Passed
<1> QED
  BY <1>11, <1>15 DEF v

\* tunnel_connected_handle, and tunnel_shutdown when it fails.
LEMMA ConnectedHandleSound ==
    ASSUME NEW t, NEW cs, NEW rs, NEW nr, NEW gt, NEW cn, Given(cs, rs, nr, gt),
           Sound(t, cs, rs, nr, gt, cn), t.state = "connected_state",
           NEW s \in Side, NEW hold \in BOOLEAN
    PROVE  LET r == ShutIfFailed(ConnectedHandle(t, s, hold))
           IN  /\ Sound(r.t, cs, rs, nr, gt, cn)
               /\ Narrow(t, r.t) /\ r.t.state = "connected_state"
               /\ (Passed(t, cs, nr, gt) /\ (s = "remote" \/ ~Open(t, "remote")))
                     => Passed(r.t, cs, nr, gt)
               /\ (/\ ~hold /\ Open(t, Peer(s)) /\ FitsIn(t.wbuf[Peer(s)], t.rbuf[s])
                   /\ Passed(Forwarded(t, s), cs, nr, gt)) => Passed(r.t, cs, nr, gt)
               /\ (Flows(t) /\ Flows(r.t)) => r.t = t \/ (~hold /\ r.t = Forwarded(t, s))
               /\ r.bad \in {"no", "dangling"}
<1> DEFINE q == ConnectedHandle(t, s, hold)
           r == ShutIfFailed(q)
           v == Forwarded(t, s)
           goes == ~hold /\ Open(t, Peer(s)) /\ FitsIn(t.wbuf[Peer(s)], t.rbuf[s])
<1>1. t \in TunnelT(Tokens)
  BY DEF Sound, Shape
<1>2. CASE goes
  <2>1. q = Ok(v)
    BY <1>2 DEF ConnectedHandle
  <2>2. Sound(v, cs, rs, nr, gt, cn)
    BY <1>2, ForwardedSound
  <2>3. /\ v.state = t.state /\ v.sock = t.sock
        /\ v.rbuf[s] = <<>> /\ v.rbuf[Peer(s)] = t.rbuf[Peer(s)]
        /\ v.wbuf[s] = t.wbuf[s]
    BY <1>1, ForwardedSides
  <2>4. v = Forwarded(t, s) /\ ~hold
    BY <1>2
  <2> HIDE DEF v, q
  <2>5. r = Ok(v)
    BY <2>1 DEF ShutIfFailed, Ok
  <2>6. r.t = v /\ r.bad = "no"
    BY <2>5 DEF Ok
  <2>7. Narrow(t, v)
    BY <2>3 DEF Narrow
  <2>8. (Passed(t, cs, nr, gt) /\ (s = "remote" \/ ~Open(t, "remote")))
           => Passed(v, cs, nr, gt)
    <3>1. CASE s = "remote"
      BY <2>3, <3>1, Sides DEF Passed, Open
    <3>2. CASE ~Open(t, "remote")
      BY <2>3, <3>2, Sides DEF Passed, Open
    <3> QED
      BY <3>1, <3>2
  <2> HIDE DEF r
  <2>9. /\ Sound(r.t, cs, rs, nr, gt, cn)
        /\ Narrow(t, r.t) /\ r.t.state = "connected_state"
        /\ (Passed(t, cs, nr, gt) /\ (s = "remote" \/ ~Open(t, "remote")))
              => Passed(r.t, cs, nr, gt)
        /\ Passed(Forwarded(t, s), cs, nr, gt) => Passed(r.t, cs, nr, gt)
        /\ r.t = Forwarded(t, s) /\ ~hold
        /\ r.bad \in {"no", "dangling"}
    BY <2>2, <2>3, <2>4, <2>6, <2>7, <2>8
  <2> QED
    BY <2>9 DEF r, q
<1>3. CASE hold /\ Open(t, Peer(s))
  <2>1. q = Ok(t)
    BY <1>3 DEF ConnectedHandle
  <2> HIDE DEF q
  <2>2. r = Ok(t)
    BY <2>1 DEF ShutIfFailed, Ok
  <2>3. r.t = t /\ r.bad = "no"
    BY <2>2 DEF Ok
  <2>4. Narrow(t, t)
    BY DEF Narrow
  <2> HIDE DEF r
  <2>5. /\ Sound(r.t, cs, rs, nr, gt, cn)
        /\ Narrow(t, r.t) /\ r.t.state = "connected_state"
        /\ Passed(t, cs, nr, gt) => Passed(r.t, cs, nr, gt)
        /\ r.t = t /\ hold
        /\ r.bad \in {"no", "dangling"}
    BY <1>3, <2>3, <2>4
  <2> QED
    BY <2>5 DEF r, q
<1>4. CASE ~goes /\ ~(hold /\ Open(t, Peer(s)))
  <2>1. q = Failed(t)
    BY <1>4 DEF ConnectedHandle
  <2>2. ~goes
    BY <1>4
  <2> HIDE DEF q
  <2>3. r = TunnelShutdown(t)
    BY <2>1 DEF ShutIfFailed, Failed
  <2>4. /\ Keeps(t, TunnelShutdown(t).t, cs, rs, nr, gt, cn)
        /\ TunnelShutdown(t).t.sock["client"] # "connected"
        /\ TunnelShutdown(t).bad \in {"no", "dangling"}
    BY TunnelShutdownKeeps
  <2> HIDE DEF r, goes
  <2>5. /\ Keeps(t, r.t, cs, rs, nr, gt, cn)
        /\ r.t.sock["client"] # "connected"
        /\ r.bad \in {"no", "dangling"}
    BY <2>3, <2>4
  <2>6. /\ Sound(r.t, cs, rs, nr, gt, cn)
        /\ Narrow(t, r.t) /\ r.t.state = "connected_state"
        /\ Passed(t, cs, nr, gt) => Passed(r.t, cs, nr, gt)
        /\ ~Flows(r.t)
        /\ r.bad \in {"no", "dangling"}
    BY <2>5, Sides DEF Keeps, Preserves, Narrow, Flows
  <2> QED
    BY <2>2, <2>6 DEF r, q, goes
<1> QED
  BY <1>2, <1>3, <1>4

\* tunnel_read_handle after n bytes of s were read.
LEMMA ReadHandleSound ==
    ASSUME NEW t, NEW cs, NEW rs, NEW nr, NEW gt, NEW cn, Given(cs, rs, nr, gt),
           Sound(t, cs, rs, nr, gt, cn), NEW s \in Side, Open(t, s), NEW n \in Nat, n >= 1,
           Len(t.rbuf[s]) + n <= BufMax,
           nr[s] + n <= Len(Said(cs, rs, s)),
           NEW error \in BOOLEAN, NEW hold \in BOOLEAN, NEW outcome,
           outcome \in IF t.state = "request_state" THEN {"failed", "pending", "up"} ELSE {cn},
           (t.state = "connecting_state" /\ s = "remote" /\ ~error) => cn = "up"
    PROVE  LET bytes == NextBytes(cs, rs, nr, s, n)
               nr2 == Advanced(nr, s, n)
               u == ReadIn(t, s, bytes)
               r == ReadHandle(u, s, outcome, error, hold)
               cn2 == IF outcome = "failed" THEN cn ELSE outcome
           IN  /\ Given(cs, rs, nr2, gt)
               /\ Sound(r.t, cs, rs, nr2, gt, cn2)
               /\ Calm(t) => Calm(r.t)
               /\ Narrow(t, r.t)
               /\ s = "remote" => Spares(t, r.t)
               /\ (/\ ~hold /\ Len(cs) <= BufMax + 2 /\ Passed(t, cs, nr, gt)
                   /\ t.state # "connected_state" => nr2["client"] <= 2)
                     => Passed(r.t, cs, nr2, gt)
               /\ (Flows(t) /\ Flows(r.t)) => r.t = u \/ (~hold /\ r.t = Forwarded(u, s))
               /\ r.bad \in {"no", "aborted", "crashed", "dangling"}
               /\ r.bad = "aborted" => t.state = "connecting_state" /\ s = "client"
<1> DEFINE bytes == NextBytes(cs, rs, nr, s, n)
           nr2 == Advanced(nr, s, n)
           u == ReadIn(t, s, bytes)
           r == ReadHandle(u, s, outcome, error, hold)
           cn2 == IF outcome = "failed" THEN cn ELSE outcome
           gentle == /\ ~hold /\ Len(cs) <= BufMax + 2 /\ Passed(t, cs, nr, gt)
                     /\ t.state # "connected_state" => nr2["client"] <= 2
<1>1. /\ Given(cs, rs, nr2, gt) /\ Sound(u, cs, rs, nr2, gt, cn)
      /\ u.state = t.state /\ u.sock = t.sock /\ u.wbuf = t.wbuf
      /\ u.interest = t.interest
      /\ u.rbuf[s] = t.rbuf[s] \o bytes /\ u.rbuf[Peer(s)] = t.rbuf[Peer(s)]
      /\ bytes \in Seq(Tokens) /\ Len(bytes) = n
      /\ nr2[s] = nr[s] + n /\ nr2[Peer(s)] = nr[Peer(s)]
  <2> HIDE DEF bytes, nr2, u, r
  <2>1. LET bytes0 == NextBytes(cs, rs, nr, s, n)
            u0 == ReadIn(t, s, bytes0)
            nr0 == Advanced(nr, s, n)
        IN  /\ Given(cs, rs, nr0, gt) /\ Sound(u0, cs, rs, nr0, gt, cn)
            /\ u0.state = t.state /\ u0.sock = t.sock /\ u0.wbuf = t.wbuf
            /\ u0.interest = t.interest
            /\ u0.rbuf[s] = t.rbuf[s] \o bytes0 /\ u0.rbuf[Peer(s)] = t.rbuf[Peer(s)]
            /\ bytes0 \in Seq(Tokens) /\ Len(bytes0) = n
            /\ nr0[s] = nr[s] + n /\ nr0[Peer(s)] = nr[Peer(s)]
    BY ReadInSound
  <2> QED
    BY <2>1 DEF bytes, nr2, u
<1>2. /\ nr[s] \in Nat /\ nr[s] <= nr2[s]
      /\ s = "client" => bytes = SubSeq(cs, nr["client"] + 1, nr2["client"])
  <2>1. nr[s] \in Nat
    BY DEF Given
  <2>2. bytes = SubSeq(Said(cs, rs, s), nr[s] + 1, nr[s] + n)
    BY DEF NextBytes, bytes
  <2>3. bytes = SubSeq(Said(cs, rs, s), nr[s] + 1, nr2[s])
    BY <1>1, <2>2
  <2>4. s = "client" => Said(cs, rs, s) = cs
    BY DEF Said
  <2>5. CASE s = "client"
    <3>1. bytes = SubSeq(cs, nr["client"] + 1, nr2["client"])
      BY <2>3, <2>4, <2>5
    <3> QED
      BY <1>1, <2>1, <3>1
  <2>6. CASE s # "client"
    BY <1>1, <2>1, <2>6
  <2> QED
    BY <2>5, <2>6
<1>g. Given(cs, rs, nr2, gt) /\ Sound(u, cs, rs, nr2, gt, cn)
  BY <1>1
<1>3. t \in TunnelT(Tokens) /\ u \in TunnelT(Tokens)
  BY <1>1 DEF Sound, Shape
<1>4. r = ReadHandle(u, s, outcome, error, hold)
  OBVIOUS
<1> HIDE DEF bytes, nr2, u, r
<1>5. t.rbuf[s] \in Seq(Tokens) /\ t.rbuf[Peer(s)] \in Seq(Tokens)
  BY <1>3, TunnelParts, Sides
<1>6. /\ u.rbuf[s] = t.rbuf[s] \o bytes /\ u.rbuf[Peer(s)] = t.rbuf[Peer(s)]
      /\ u.rbuf[s] # <<>>
  <2>2. Len(t.rbuf[s] \o bytes) = Len(t.rbuf[s]) + n /\ Len(t.rbuf[s]) \in Nat
    BY <1>1, <1>5, Lengths
  <2>3. Len(u.rbuf[s]) >= 1
    BY <1>1, <2>2
  <2>4. Len(<<>>) = 0
    OBVIOUS
  <2> QED
    BY <1>1, <2>3, <2>4
<1>7. Calm(t) => Calm(u)
  BY <1>1 DEF Calm, Open
<1>8. ~Open(t, "remote") => s = "client"
  BY Sides
<1>9. Open(u, s)
  BY <1>1 DEF Open
\* Before the tunnel is connected the conclusion is this.
<1>10. ASSUME t.state # "connected_state", Sound(r.t, cs, rs, nr2, gt, cn2),
              Calm(u) => Calm(r.t), s = "remote" => Spares(u, r.t),
              nr2["client"] <= 2 => Passed(r.t, cs, nr2, gt),
              r.bad \in {"no", "aborted", "crashed", "dangling"},
              r.bad = "aborted" => t.state = "connecting_state" /\ s = "client"
       PROVE  /\ Sound(r.t, cs, rs, nr2, gt, cn2)
              /\ Calm(t) => Calm(r.t)
              /\ Narrow(t, r.t)
              /\ s = "remote" => Spares(t, r.t)
              /\ gentle => Passed(r.t, cs, nr2, gt)
              /\ (Flows(t) /\ Flows(r.t)) => r.t = u \/ (~hold /\ r.t = Forwarded(u, s))
              /\ r.bad \in {"no", "aborted", "crashed", "dangling"}
              /\ r.bad = "aborted" => t.state = "connecting_state" /\ s = "client"
  <2>1. Narrow(t, r.t) /\ ~Flows(t)
    BY <1>10 DEF Narrow, Flows
  <2>2. s = "remote" => Spares(t, r.t)
    BY <1>1, <1>10 DEF Spares, Open
  <2>3. gentle => nr2["client"] <= 2
    BY <1>10
  <2> HIDE DEF cn2, gentle
  <2> QED
    BY <1>7, <1>10, <2>1, <2>2, <2>3
<1> SUFFICES /\ Sound(r.t, cs, rs, nr2, gt, cn2)
             /\ Calm(t) => Calm(r.t)
             /\ Narrow(t, r.t)
             /\ s = "remote" => Spares(t, r.t)
             /\ gentle => Passed(r.t, cs, nr2, gt)
             /\ (Flows(t) /\ Flows(r.t)) => r.t = u \/ (~hold /\ r.t = Forwarded(u, s))
             /\ r.bad \in {"no", "aborted", "crashed", "dangling"}
             /\ r.bad = "aborted" => t.state = "connecting_state" /\ s = "client"
  BY <1>1 DEF bytes, nr2, u, r
<1>11. CASE t.state = "open_state"
  <2>1. s = "client"
    BY <1>8, <1>11 DEF Sound, Shape
  <2>2. LET q == OpenHandle(u)
        IN  /\ Sound(q.t, cs, rs, nr2, gt, cn)
            /\ Calm(u) => Calm(q.t)
            /\ q.t.state # "connected_state"
            /\ q.failed = FALSE /\ q.bad = "no"
    BY <1>1, <1>9, <1>11, <2>1, OpenHandleSound
  <2>3. r = OpenHandle(u)
    BY <1>1, <1>4, <1>11, <2>2 DEF ReadHandle, ForceIfFailed
  <2>4. cn2 = cn
    BY <1>11
  <2>5. /\ Sound(r.t, cs, rs, nr2, gt, cn2)
        /\ Calm(u) => Calm(r.t)
        /\ Passed(r.t, cs, nr2, gt)
        /\ r.bad = "no"
    BY <2>2, <2>3, <2>4 DEF Passed
  <2> HIDE DEF cn2, gentle
  <2> QED
    BY <1>10, <1>11, <2>1, <2>5
<1>12. CASE t.state = "request_state"
  <2>1. s = "client"
    BY <1>8, <1>12 DEF Sound, Shape
  <2>2. outcome \in {"failed", "pending", "up"}
    BY <1>12
  <2>3. u.state = "request_state" /\ Open(u, "client") /\ u.rbuf["client"] # <<>>
    BY <1>1, <1>6, <1>9, <1>12, <2>1
  <2>4. LET q == ForceIfFailed(RequestHandle(u, outcome), "client")
            c == IF outcome = "failed" THEN cn ELSE outcome
        IN  /\ Sound(q.t, cs, rs, nr2, gt, c)
            /\ Calm(u) => Calm(q.t)
            /\ nr2["client"] <= 2 => Passed(q.t, cs, nr2, gt)
            /\ q.bad = "no"
    BY <1>1, <2>2, <2>3, RequestHandleSound
  <2>5. r = ForceIfFailed(RequestHandle(u, outcome), "client")
    BY <1>4, <2>1, <2>3 DEF ReadHandle
  <2>6. /\ Sound(r.t, cs, rs, nr2, gt, cn2)
        /\ Calm(u) => Calm(r.t)
        /\ nr2["client"] <= 2 => Passed(r.t, cs, nr2, gt)
        /\ r.bad = "no"
    BY <2>4, <2>5
  <2> HIDE DEF cn2, gentle
  <2> QED
    BY <1>10, <1>12, <2>1, <2>6
<1>13. CASE t.state = "connecting_state" /\ s = "client"
  <2>1. r = Broken(u, "aborted")
    BY <1>1, <1>4, <1>13 DEF ReadHandle
  <2>2. r.t = u /\ r.bad = "aborted"
    BY <2>1 DEF Broken
  <2>3. cn2 = cn
    BY <1>13
  <2>4. /\ Sound(r.t, cs, rs, nr2, gt, cn2)
        /\ Calm(u) => Calm(r.t)
        /\ Passed(r.t, cs, nr2, gt)
    BY <1>1, <1>13, <2>2, <2>3 DEF Passed
  <2> HIDE DEF cn2, gentle
  <2> QED
    BY <1>10, <1>13, <2>2, <2>4
<1>14. CASE t.state = "connecting_state" /\ s = "remote"
  <2> DEFINE q == ConnectingHandle(u, error)
  <2>1. u.state = "connecting_state" /\ Open(u, "remote") /\ (~error => cn = "up")
    BY <1>1, <1>9, <1>14
  <2>2. /\ Preserves(u, q.t, cs, rs, nr2, gt, cn)
        /\ nr2["client"] <= 2 => Passed(q.t, cs, nr2, gt)
        /\ q.failed \in BOOLEAN /\ q.bad \in {"no", "crashed"}
    BY <1>1, <2>1, ConnectingHandleSound
  <2>3. r = IF q.failed THEN TunnelShutdown(q.t) ELSE q
    BY <1>4, <1>14, <2>1 DEF ReadHandle, ShutIfFailed
  <2> HIDE DEF q
  <2>4. LET x == TunnelShutdown(q.t)
        IN  /\ Keeps(q.t, x.t, cs, rs, nr2, gt, cn)
            /\ x.t.sock["client"] # "connected"
            /\ x.failed = FALSE /\ x.bad \in {"no", "dangling"}
    BY <1>1, <2>2, TunnelShutdownKeeps DEF Preserves
  <2>5. Preserves(u, TunnelShutdown(q.t).t, cs, rs, nr2, gt, cn)
    BY <2>2, <2>4, PreservesTransitive DEF Keeps
  <2>6. /\ Preserves(u, r.t, cs, rs, nr2, gt, cn)
        /\ nr2["client"] <= 2 => Passed(r.t, cs, nr2, gt)
        /\ r.bad \in {"no", "crashed", "dangling"}
    <3>1. CASE q.failed
      BY <2>2, <2>3, <2>4, <2>5, <3>1 DEF Keeps
    <3>2. CASE ~q.failed
      BY <2>2, <2>3, <3>2
    <3> QED
      BY <3>1, <3>2
  <2>7. cn2 = cn
    BY <1>14
  <2>8. /\ Sound(r.t, cs, rs, nr2, gt, cn2)
        /\ Calm(u) => Calm(r.t)
        /\ Spares(u, r.t)
    BY <2>6, <2>7 DEF Preserves
  <2> HIDE DEF cn2, gentle
  <2> QED
    BY <1>10, <1>14, <2>6, <2>8
<1>15. CASE t.state = "connected_state"
  <2>1. u.state = "connected_state"
    BY <1>1, <1>15
  <2>2. LET q == ShutIfFailed(ConnectedHandle(u, s, hold))
        IN  /\ Sound(q.t, cs, rs, nr2, gt, cn)
            /\ Narrow(u, q.t) /\ q.t.state = "connected_state"
            /\ (Passed(u, cs, nr2, gt) /\ (s = "remote" \/ ~Open(u, "remote")))
                  => Passed(q.t, cs, nr2, gt)
            /\ (/\ ~hold /\ Open(u, Peer(s)) /\ FitsIn(u.wbuf[Peer(s)], u.rbuf[s])
                /\ Passed(Forwarded(u, s), cs, nr2, gt)) => Passed(q.t, cs, nr2, gt)
            /\ (Flows(u) /\ Flows(q.t)) => q.t = u \/ (~hold /\ q.t = Forwarded(u, s))
            /\ q.bad \in {"no", "dangling"}
    BY <1>g, <2>1, ConnectedHandleSound
  <2>3. r = ShutIfFailed(ConnectedHandle(u, s, hold))
    BY <1>4, <2>1 DEF ReadHandle
  <2>4. /\ Sound(r.t, cs, rs, nr2, gt, cn)
        /\ Narrow(u, r.t) /\ r.t.state = "connected_state"
        /\ (Passed(u, cs, nr2, gt) /\ (s = "remote" \/ ~Open(u, "remote")))
              => Passed(r.t, cs, nr2, gt)
        /\ (/\ ~hold /\ Open(u, Peer(s)) /\ FitsIn(u.wbuf[Peer(s)], u.rbuf[s])
            /\ Passed(Forwarded(u, s), cs, nr2, gt)) => Passed(r.t, cs, nr2, gt)
        /\ (Flows(u) /\ Flows(r.t)) => r.t = u \/ (~hold /\ r.t = Forwarded(u, s))
        /\ r.bad \in {"no", "dangling"}
    BY <2>2, <2>3
  <2>5. gentle => Passed(r.t, cs, nr2, gt)
    <3> SUFFICES ASSUME ~hold, Len(cs) <= BufMax + 2, Passed(t, cs, nr, gt)
                 PROVE  Passed(r.t, cs, nr2, gt)
      OBVIOUS
    <3>1. CASE s = "remote"
      <4>1. u.rbuf["client"] = t.rbuf["client"] /\ nr2["client"] = nr["client"]
        BY <1>1, <3>1, Sides
      <4>2. Passed(u, cs, nr2, gt)
        BY <1>1, <4>1 DEF Passed, Open
      <4> QED
        BY <2>4, <3>1, <4>2
    <3>2. CASE s = "client" /\ ~Open(t, "remote")
      <4>1. nr2["client"] = nr["client"] + n /\ nr["client"] \in Nat
        BY <1>1, <1>2, <3>2
      <4>2. Passed(u, cs, nr2, gt)
        BY <1>1, <3>2, <4>1 DEF Passed, Open
      <4> QED
        BY <1>1, <2>4, <3>2, <4>2 DEF Open
    <3>3. CASE s = "client" /\ Open(t, "remote")
      <4>1. /\ u.rbuf["client"] = t.rbuf["client"] \o
                                     SubSeq(cs, nr["client"] + 1, nr2["client"])
            /\ Open(t, "client") /\ nr["client"] <= nr2["client"]
            /\ u.state = t.state /\ u.sock = t.sock /\ u.wbuf = t.wbuf
        <5>1. u.rbuf["client"] = t.rbuf["client"] \o bytes
          BY <1>1, <3>3
        <5>2. bytes = SubSeq(cs, nr["client"] + 1, nr2["client"])
          BY <1>2, <3>3
        <5> QED
          BY <1>1, <1>2, <3>3, <5>1, <5>2
      <4>2. /\ FitsIn(u.wbuf["remote"], u.rbuf["client"])
            /\ Passed(Forwarded(u, "client"), cs, nr2, gt)
        BY <1>g, <1>3, <1>15, <3>3, <4>1, ForwardedPassed
      <4>3. Open(u, "remote") /\ Peer(s) = "remote"
        BY <1>1, <3>3, Sides DEF Open
      <4> QED
        BY <2>4, <3>3, <4>2, <4>3
    <3> QED
      BY <3>1, <3>2, <3>3, Sides
  <2>6. Narrow(t, r.t) /\ Calm(r.t) /\ Spares(t, r.t) /\ (Flows(u) <=> Flows(t))
    BY <1>1, <2>4 DEF Narrow, Calm, Spares, Flows
  <2>7. cn2 = cn
    BY <1>15
  <2> HIDE DEF cn2, gentle
  <2> QED
    BY <2>4, <2>5, <2>6, <2>7
<1>16. t.state \in TunnelState
  BY <1>3, TunnelParts
<1> QED
  BY <1>11, <1>12, <1>13, <1>14, <1>15, <1>16, Sides DEF TunnelState

LEMMA RearmedParts ==
    ASSUME NEW t \in TunnelT(Tokens), NEW f, NEW b, NEW s \in Side
    PROVE  LET r == Rearmed([t |-> t, failed |-> f, bad |-> b], s)
           IN  /\ r.t = IF b = "no" /\ Open(t, s) THEN Rearm(t, s) ELSE t
               /\ r.bad = b
<1> DEFINE q == [t |-> t, failed |-> f, bad |-> b]
           both == IF t.wbuf[s] # <<>> THEN {"in", "out"} ELSE {"in"}
           r == Rearmed(q, s)
<1>1. CASE b = "no" /\ Open(t, s)
  <2>1. r = [q EXCEPT !.t.interest[s] = both]
    BY <1>1 DEF Rearmed
  <2>2. r.t = [t EXCEPT !.interest[s] = both] /\ r.bad = b
    BY <2>1
  <2>3. Rearm(t, s) = [t EXCEPT !.interest[s] = both]
    BY DEF Rearm
  <2> QED
    BY <1>1, <2>2, <2>3
<1>2. CASE ~(b = "no" /\ Open(t, s))
  <2>1. r = q
    BY <1>2 DEF Rearmed
  <2> QED
    BY <1>2, <2>1
<1> QED
  BY <1>1, <1>2

LEMMA ConnectingHandleParts ==
    ASSUME NEW t, NEW error \in BOOLEAN
    PROVE  LET r == ConnectingHandle(t, error)
           IN  r = [t |-> r.t, failed |-> r.failed, bad |-> r.bad]
<1>1. \A u, b : /\ Ok(u) = [t |-> Ok(u).t, failed |-> Ok(u).failed, bad |-> Ok(u).bad]
                /\ Failed(u) = [t |-> Failed(u).t, failed |-> Failed(u).failed,
                                bad |-> Failed(u).bad]
                /\ Broken(u, b) = [t |-> Broken(u, b).t, failed |-> Broken(u, b).failed,
                                   bad |-> Broken(u, b).bad]
  BY DEF Ok, Failed, Broken
<1> QED
  BY <1>1 DEF ConnectingHandle, NotifyConnected

\* tunnel_write_handle after the bytes are written.
LEMMA WriteHandleSound ==
    ASSUME NEW t, NEW cs, NEW rs, NEW nr, NEW gt, NEW cn, Given(cs, rs, nr, gt),
           Sound(t, cs, rs, nr, gt, cn), NEW s \in Side, Open(t, s),
           NEW error \in BOOLEAN,
           (t.state = "connecting_state" /\ s = "remote" /\ ~error) => cn = "up"
    PROVE  LET r == WriteHandle(t, s, error)
           IN  /\ Sound(r.t, cs, rs, nr, gt, cn)
               /\ ((s = "client" \/ Calm(t)) /\ r.bad # "aborted") => Calm(r.t)
               /\ Narrow(t, r.t)
               /\ s = "remote" => Spares(t, r.t)
               /\ (/\ Passed(t, cs, nr, gt)
                   /\ t.state # "connected_state" => nr["client"] <= 2)
                     => Passed(r.t, cs, nr, gt)
               /\ Flows(t) => r.t.rbuf = t.rbuf /\ r.t.wbuf = t.wbuf
               /\ r.bad \in {"no", "aborted", "crashed", "dangling"}
               /\ r.bad = "aborted" => t.state = "connecting_state" /\ s = "client"
<1> DEFINE r == WriteHandle(t, s, error)
           gentle == /\ Passed(t, cs, nr, gt)
                     /\ t.state # "connected_state" => nr["client"] <= 2
<1>1. t \in TunnelT(Tokens)
  BY DEF Sound, Shape
<1>2. CASE t.state # "connecting_state"
  <2> DEFINE u == Rearm(t, s)
  <2>1. r = Rearmed(Ok(t), s)
    BY <1>2 DEF WriteHandle
  <2>2. Ok(t) = [t |-> t, failed |-> FALSE, bad |-> "no"]
    BY DEF Ok
  <2>3. r.t = u /\ r.bad = "no"
    BY <1>1, <2>1, <2>2, RearmedParts
  <2>4. /\ Sound(u, cs, rs, nr, gt, cn)
        /\ s = "client" \/ Calm(t) => Calm(u)
        /\ Passed(t, cs, nr, gt) => Passed(u, cs, nr, gt)
        /\ u.state = t.state /\ u.sock = t.sock
        /\ u.rbuf = t.rbuf /\ u.wbuf = t.wbuf
    BY RearmKeeps
  <2> HIDE DEF u, r
  <2>5. Narrow(t, u) /\ Spares(t, u)
    BY <2>4 DEF Narrow, Spares, Open
  <2>6. /\ Sound(r.t, cs, rs, nr, gt, cn)
        /\ (s = "client" \/ Calm(t)) => Calm(r.t)
        /\ Narrow(t, r.t) /\ Spares(t, r.t)
        /\ Passed(t, cs, nr, gt) => Passed(r.t, cs, nr, gt)
        /\ r.t.rbuf = t.rbuf /\ r.t.wbuf = t.wbuf
        /\ r.bad = "no"
    BY <2>3, <2>4, <2>5
  <2> QED
    BY <2>6 DEF r
<1>3. CASE t.state = "connecting_state" /\ s = "client"
  <2>1. r = Broken(t, "aborted")
    BY <1>3 DEF WriteHandle
  <2>2. r.t = t /\ r.bad = "aborted"
    BY <2>1 DEF Broken
  <2>3. Narrow(t, t) /\ ~Flows(t)
    BY <1>3 DEF Narrow, Flows
  <2> HIDE DEF r
  <2>4. /\ Sound(r.t, cs, rs, nr, gt, cn)
        /\ Narrow(t, r.t) /\ ~Flows(t)
        /\ Passed(t, cs, nr, gt) => Passed(r.t, cs, nr, gt)
        /\ r.bad = "aborted"
    BY <2>2, <2>3
  <2> QED
    BY <1>3, <2>4 DEF r
<1>4. CASE t.state = "connecting_state" /\ s = "remote"
  <2> DEFINE q == ConnectingHandle(t, error)
             d == TunnelShutdown(q.t)
             v == Rearm(q.t, "remote")
  <2>1. Open(t, "remote") /\ (~error => cn = "up")
    BY <1>4
  <2>2. /\ Preserves(t, q.t, cs, rs, nr, gt, cn)
        /\ nr["client"] <= 2 => Passed(q.t, cs, nr, gt)
        /\ q.failed \in BOOLEAN /\ q.bad \in {"no", "crashed"}
    BY <1>4, <2>1, ConnectingHandleSound
  <2>3. r = IF q.failed THEN d ELSE Rearmed(q, "remote")
    BY <1>4 DEF WriteHandle
  <2>4. q = [t |-> q.t, failed |-> q.failed, bad |-> q.bad]
    BY ConnectingHandleParts
  <2> HIDE DEF q
  <2>5. q.t \in TunnelT(Tokens) /\ Sound(q.t, cs, rs, nr, gt, cn)
    BY <2>2 DEF Preserves, Sound, Shape
  <2>6. /\ Keeps(q.t, d.t, cs, rs, nr, gt, cn)
        /\ d.failed = FALSE /\ d.bad \in {"no", "dangling"}
    BY <2>5, TunnelShutdownKeeps
  <2>7. Preserves(t, d.t, cs, rs, nr, gt, cn)
    BY <2>2, <2>6, PreservesTransitive DEF Keeps
  <2> HIDE DEF d
  <2>8. /\ Sound(v, cs, rs, nr, gt, cn)
        /\ Calm(q.t) => Calm(v)
        /\ Passed(q.t, cs, nr, gt) => Passed(v, cs, nr, gt)
        /\ v.state = q.t.state /\ v.sock = q.t.sock
        /\ v.rbuf = q.t.rbuf /\ v.wbuf = q.t.wbuf
    BY <2>5, RearmKeeps, Sides, SMTT(40)
  <2> HIDE DEF v
  <2>9. Preserves(t, v, cs, rs, nr, gt, cn)
    BY <2>2, <2>8 DEF Preserves, Narrow, Spares, Open
  <2>10. LET x == Rearmed([t |-> q.t, failed |-> q.failed, bad |-> q.bad], "remote")
         IN  /\ x.t = IF q.bad = "no" /\ Open(q.t, "remote")
                      THEN Rearm(q.t, "remote") ELSE q.t
             /\ x.bad = q.bad
    BY <2>5, RearmedParts, Sides
  <2>11. /\ Rearmed(q, "remote").t \in {v, q.t}
         /\ Rearmed(q, "remote").bad = q.bad
    BY <2>4, <2>10 DEF v
  <2> HIDE DEF r
  <2>12. /\ Preserves(t, r.t, cs, rs, nr, gt, cn)
         /\ nr["client"] <= 2 => Passed(r.t, cs, nr, gt)
         /\ r.bad \in {"no", "crashed", "dangling"}
    <3>1. CASE q.failed
      <4>1. r = d
        BY <2>3, <3>1
      <4> QED
        BY <2>2, <2>6, <2>7, <4>1 DEF Keeps
    <3>2. CASE ~q.failed
      <4>1. r.t \in {v, q.t} /\ r.bad = q.bad
        BY <2>3, <2>11, <3>2
      <4>2. CASE r.t = v
        BY <2>2, <2>8, <2>9, <4>1, <4>2
      <4>3. CASE r.t = q.t
        BY <2>2, <4>1, <4>3
      <4> QED
        BY <4>1, <4>2, <4>3
    <3> QED
      BY <3>1, <3>2
  <2>13. ~Flows(t)
    BY <1>4 DEF Flows
  <2>14. s = "remote" /\ t.state # "connected_state"
    BY <1>4
  <2>15. /\ Sound(r.t, cs, rs, nr, gt, cn)
         /\ Calm(t) => Calm(r.t)
         /\ Narrow(t, r.t) /\ Spares(t, r.t)
    BY <2>12 DEF Preserves
  <2> QED
    BY <2>12, <2>13, <2>14, <2>15 DEF r
<1> QED
  BY <1>2, <1>3, <1>4, Sides

-----------------------------------------------------------------------------
(* The history of what each peer was sent.                                 *)

Handed(gt, s, front) == [gt EXCEPT ![s] = Recorded(@, front)]

LEMMA RecordedLength ==
    ASSUME NEW h \in Seq(Tokens), NEW bs \in Seq(Tokens), MaxGot \in Nat
    PROVE  /\ Recorded(h, bs) \in Seq(Tokens)
           /\ Len(Recorded(h, bs)) = IF Len(h) + Len(bs) < MaxGot
                                     THEN Len(h) + Len(bs) ELSE MaxGot
           /\ Len(h) + Len(bs) <= MaxGot => Recorded(h, bs) = h \o bs
<1> DEFINE both == h \o bs
           m == IF Len(h) + Len(bs) < MaxGot THEN Len(h) + Len(bs) ELSE MaxGot
<1>1. /\ both \in Seq(Tokens) /\ Len(both) = Len(h) + Len(bs)
      /\ Len(h) \in Nat /\ Len(bs) \in Nat
  BY Lengths
<1>2. m \in Nat /\ m <= Len(both) /\ (Len(h) + Len(bs) <= MaxGot => m = Len(both))
  BY <1>1
<1>3. Recorded(h, bs) = SubSeq(both, 1, m)
  BY DEF Recorded
<1>4. m = IF Len(h) + Len(bs) < MaxGot THEN Len(h) + Len(bs) ELSE MaxGot
  OBVIOUS
<1> HIDE DEF both, m
<1>5. SubSeq(both, 1, m) \in Seq(Tokens) /\ Len(SubSeq(both, 1, m)) = m
  <2>1. \A i \in 1 .. m : both[i] \in Tokens
    BY <1>1, <1>2, ElementOfSeq
  <2>2. /\ SubSeq(both, 1, m) \in Seq(Tokens)
        /\ Len(SubSeq(both, 1, m)) = IF 1 <= m THEN m - 1 + 1 ELSE 0
    BY <1>2, <2>1, SubSeqProperties
  <2> QED
    BY <1>2, <2>2
<1>6. Len(h) + Len(bs) <= MaxGot => SubSeq(both, 1, m) = both
  BY <1>1, <1>2, SubSeqFull
<1> QED
  BY <1>3, <1>4, <1>5, <1>6 DEF both

LEMMA PieceLength ==
    ASSUME NEW cs \in Seq(Tokens), NEW k \in Nat, 1 <= k, NEW n \in Nat, n <= Len(cs)
    PROVE  SubSeq(cs, k, n) \in Seq(Tokens) /\ Len(SubSeq(cs, k, n)) <= n
<1>1. Len(cs) \in Nat
  BY LenProperties
<1>2. \A i \in k .. n : cs[i] \in Tokens
  BY <1>1, ElementOfSeq
<1>3. /\ SubSeq(cs, k, n) \in Seq(Tokens)
      /\ Len(SubSeq(cs, k, n)) = IF k <= n THEN n - k + 1 ELSE 0
  BY <1>2, SubSeqProperties
<1> QED
  BY <1>3

\* What a tunnel that flows sends.
LEMMA FlowLength ==
    ASSUME NEW t, NEW cs, NEW rs, NEW nr, NEW gt, NEW cn, Given(cs, rs, nr, gt),
           Sound(t, cs, rs, nr, gt, cn), Flows(t), NEW s \in Side
    PROVE  Len(gt[s]) + Len(t.wbuf[s]) <= Len(cs) + Len(rs)
<1> DEFINE replies == <<method_reply, connect_reply>>
           old == SubSeq(rs, 1, nr["remote"])
           new == SubSeq(cs, 3, nr["client"])
<1>1. \A x \in Side : /\ t.rbuf[x] \in Seq(Tokens) /\ t.wbuf[x] \in Seq(Tokens)
                      /\ gt[x] \in Seq(Tokens)
  BY TunnelParts DEF Given, Sound, Shape
<1>2. /\ nr["client"] >= 2
      /\ gt["remote"] \o t.wbuf["remote"] \o t.rbuf["client"] = new
      /\ gt["client"] \o t.wbuf["client"] \o t.rbuf["remote"] = replies \o old
  BY DEF Sound, Conserves
<1>3. /\ cs \in Seq(Tokens) /\ rs \in Seq(Tokens)
      /\ nr["client"] \in Nat /\ nr["remote"] \in Nat
      /\ nr["client"] <= Len(cs) /\ nr["remote"] <= Len(rs)
  BY Sides DEF Given
<1>4. Len(cs) \in Nat /\ Len(rs) \in Nat
  BY <1>3, LenProperties
<1>5. old \in Seq(Tokens) /\ Len(old) <= nr["remote"]
  BY <1>3, PieceLength
<1>6. new \in Seq(Tokens) /\ Len(new) <= nr["client"]
  BY <1>3, PieceLength
<1>7. replies \in Seq(Tokens) /\ Len(replies) = 2
  BY DEF Tokens
<1> HIDE DEF replies, old, new
<1>8. Len(replies \o old) = 2 + Len(old)
  BY <1>5, <1>7, Lengths
<1>9. ASSUME NEW x \in Seq(Tokens), NEW y \in Seq(Tokens), NEW z \in Seq(Tokens)
      PROVE  Len(x) + Len(y) <= Len(x \o y \o z)
  <2>1. x \o y \in Seq(Tokens) /\ Len(x \o y) = Len(x) + Len(y)
    BY Lengths
  <2>2. Len((x \o y) \o z) = Len(x \o y) + Len(z) /\ Len(z) \in Nat
    BY <2>1, Lengths
  <2>3. Len(x) \in Nat /\ Len(y) \in Nat
    BY LenProperties
  <2> QED
    BY <2>1, <2>2, <2>3
<1>10. Len(gt["remote"]) + Len(t.wbuf["remote"]) <= Len(new)
  <2>1. /\ gt["remote"] \in Seq(Tokens) /\ t.wbuf["remote"] \in Seq(Tokens)
        /\ t.rbuf["client"] \in Seq(Tokens)
    BY <1>1, Sides
  <2>2. Len(gt["remote"]) + Len(t.wbuf["remote"])
           <= Len(gt["remote"] \o t.wbuf["remote"] \o t.rbuf["client"])
    BY <1>9, <2>1
  <2> QED
    BY <1>2, <2>2
<1>11. Len(gt["client"]) + Len(t.wbuf["client"]) <= 2 + Len(old)
  <2>1. /\ gt["client"] \in Seq(Tokens) /\ t.wbuf["client"] \in Seq(Tokens)
        /\ t.rbuf["remote"] \in Seq(Tokens)
    BY <1>1, Sides
  <2>2. Len(gt["client"]) + Len(t.wbuf["client"])
           <= Len(gt["client"] \o t.wbuf["client"] \o t.rbuf["remote"])
    BY <1>9, <2>1
  <2> QED
    BY <1>2, <1>8, <2>2
<1>12. Len(gt["remote"]) \in Nat /\ Len(t.wbuf["remote"]) \in Nat /\ Len(new) \in Nat
  BY <1>1, <1>6, Sides, LenProperties
<1>13. Len(gt["client"]) \in Nat /\ Len(t.wbuf["client"]) \in Nat /\ Len(old) \in Nat
  BY <1>1, <1>5, Sides, LenProperties
<1>a. \A p, q, l, m, c, r \in Nat : (p + q <= l /\ l <= m /\ m <= c) => p + q <= c + r
  OBVIOUS
<1>b. \A p, q, l, m, c, r \in Nat :
         (p + q <= 2 + l /\ l <= m /\ m <= r /\ 2 <= c) => p + q <= c + r
  OBVIOUS
<1>14. CASE s = "remote"
  <2>1. Len(gt["remote"]) + Len(t.wbuf["remote"]) <= Len(cs) + Len(rs)
    BY <1>a, <1>3, <1>4, <1>6, <1>10, <1>12, Zenon
  <2> QED
    BY <1>14, <2>1
<1>15. CASE s = "client"
  <2>1. Len(gt["client"]) + Len(t.wbuf["client"]) <= Len(cs) + Len(rs)
    <3>1. 2 <= Len(cs)
      BY <1>2, <1>3, <1>4
    <3> QED
      BY <1>b, <1>3, <1>4, <1>5, <1>11, <1>13, <3>1, Zenon
  <2> QED
    BY <1>15, <2>1
<1> QED
  BY <1>14, <1>15, Sides

\* The history has room for what the handshake and a tunnel that flows send,
\* and for what the client said; what else a closing tunnel sends is of no
\* matter.
LEMMA HandedSound ==
    ASSUME NEW t, NEW cs, NEW rs, NEW nr, NEW gt, NEW cn, Given(cs, rs, nr, gt),
           Sound(t, cs, rs, nr, gt, cn), NEW s \in Side, Open(t, s),
           NEW n \in 1 .. Len(t.wbuf[s]), Len(cs) + Len(rs) <= MaxGot, 2 <= MaxGot,
           MaxGot \in Nat
    PROVE  LET u == WrittenOut(t, s, n)
               front == SubSeq(t.wbuf[s], 1, n)
               gt2 == Handed(gt, s, front)
           IN  /\ Given(cs, rs, nr, gt2) /\ Sound(u, cs, rs, nr, gt2, cn)
               /\ u.state = t.state /\ u.sock = t.sock /\ u.rbuf = t.rbuf
               /\ u.interest = t.interest
               /\ u.wbuf[s] = SubSeq(t.wbuf[s], n + 1, Len(t.wbuf[s]))
               /\ u.wbuf[Peer(s)] = t.wbuf[Peer(s)]
               /\ Passed(t, cs, nr, gt) => Passed(u, cs, nr, gt2)
               /\ t.state # "connected_state" => s = "client" /\ t.state # "open_state"
               /\ Flows(t) => gt2 = Lengthened(gt, s, front)
               /\ gt2[Peer(s)] = gt[Peer(s)]
               /\ Len(gt[s]) < MaxGot => Len(gt2[s]) >= Len(gt[s]) + 1
               /\ Len(gt[s]) >= MaxGot => Len(gt2[s]) = MaxGot
               /\ Len(front) = n
<1> DEFINE w == t.wbuf[s]
           h == gt[s]
           u == WrittenOut(t, s, n)
           front == SubSeq(w, 1, n)
           gt1 == Lengthened(gt, s, front)
           gt2 == Handed(gt, s, front)
<1>1. t \in TunnelT(Tokens)
  BY DEF Sound, Shape
<1>2. w \in Seq(Tokens) /\ h \in Seq(Tokens)
  BY <1>1, TunnelParts DEF Given
<1>3. Len(w) \in Nat /\ Len(h) \in Nat /\ n \in Nat /\ 1 <= n /\ n <= Len(w)
  <2>1. Len(w) \in Nat /\ Len(h) \in Nat
    BY <1>2, LenProperties
  <2> QED
    BY <2>1
<1>4. front \in Seq(Tokens) /\ Len(front) = n
  BY <1>2, <1>3, Split
<1>5. /\ Given(cs, rs, nr, gt1) /\ Sound(u, cs, rs, nr, gt1, cn)
      /\ u.state = t.state /\ u.sock = t.sock /\ u.rbuf = t.rbuf
      /\ u.interest = t.interest
      /\ u.wbuf[s] = SubSeq(t.wbuf[s], n + 1, Len(t.wbuf[s]))
      /\ u.wbuf[Peer(s)] = t.wbuf[Peer(s)]
      /\ Passed(t, cs, nr, gt) => Passed(u, cs, nr, gt1)
      /\ t.state # "connected_state" =>
            s = "client" /\ t.state # "open_state" /\ gt["client"] = <<>>
  <2>1. Given(cs, rs, nr, gt1) /\ Sound(u, cs, rs, nr, gt1, cn)
    BY WrittenOutSound
  <2>2. /\ u.state = t.state /\ u.sock = t.sock /\ u.rbuf = t.rbuf
        /\ u.interest = t.interest
    BY WrittenOutSound
  <2>3. u.wbuf[s] = SubSeq(t.wbuf[s], n + 1, Len(t.wbuf[s]))
    BY WrittenOutSound, SMTT(40)
  <2>4. u.wbuf[Peer(s)] = t.wbuf[Peer(s)]
    BY WrittenOutSound
  <2>5. Passed(t, cs, nr, gt) => Passed(u, cs, nr, gt1)
    BY WrittenOutSound
  <2>6. t.state # "connected_state" =>
            s = "client" /\ t.state # "open_state" /\ gt["client"] = <<>>
    BY WrittenOutSound
  <2> HIDE DEF u, gt1, front
  <2> QED
    BY <2>1, <2>2, <2>3, <2>4, <2>5, <2>6
<1> HIDE DEF front, u
<1>6. /\ Recorded(h, front) \in Seq(Tokens)
      /\ Len(Recorded(h, front)) = IF Len(h) + n < MaxGot THEN Len(h) + n ELSE MaxGot
      /\ Len(h) + n <= MaxGot => Recorded(h, front) = h \o front
  BY <1>2, <1>4, RecordedLength
<1>7. /\ gt2 \in [Side -> Seq(Tokens)]
      /\ gt2[s] = Recorded(h, front) /\ gt2[Peer(s)] = gt[Peer(s)]
  BY <1>6, Sides DEF Given, Handed
<1>8. Len(h) + n <= MaxGot => gt2 = gt1
  BY <1>6 DEF Handed, Lengthened
<1>9. /\ Len(h) < MaxGot => Len(gt2[s]) >= Len(h) + 1
      /\ Len(h) >= MaxGot => Len(gt2[s]) = MaxGot
  BY <1>3, <1>6, <1>7
<1>10. gt1["remote"] = IF s = "remote" THEN h \o front ELSE gt["remote"]
  BY Sides DEF Given, Lengthened
<1>a. Flows(t) => Len(h) + Len(w) <= Len(cs) + Len(rs)
  BY FlowLength
<1>b. (s = "remote" /\ t.state = "connected_state" /\ Passed(t, cs, nr, gt))
         => Open(t, "remote") /\ h \o w = SubSeq(cs, 3, nr["client"])
  BY DEF Passed
<1>c. s = "client" => h = gt["client"] /\ w = t.wbuf["client"]
  OBVIOUS
<1> HIDE DEF gt1, gt2, h, w
<1>11. t.state # "connected_state" => Len(h) + n <= MaxGot
  <2> SUFFICES ASSUME t.state # "connected_state"
               PROVE  Len(h) + n <= MaxGot
    OBVIOUS
  <2>1. s = "client" /\ h = <<>> /\ t.state # "open_state"
    BY <1>5, <1>c
  <2>2. w = <<method_reply>>
    <3>1. Answered(t, gt)
      BY <2>1 DEF Sound, Opens
    <3>2. <<>> # <<method_reply>>
      OBVIOUS
    <3> QED
      BY <1>3, <1>c, <2>1, <3>1, <3>2 DEF Answered
  <2>3. Len(w) = 1 /\ Len(h) = 0
    BY <2>1, <2>2
  <2> QED
    BY <1>3, <2>3
<1>12. Flows(t) => Len(h) + n <= MaxGot
  <2> SUFFICES ASSUME Flows(t)
               PROVE  Len(h) + n <= MaxGot
    OBVIOUS
  <2>1. Len(h) + Len(w) <= Len(cs) + Len(rs)
    BY <1>a
  <2>2. Len(cs) \in Nat /\ Len(rs) \in Nat
    BY LenProperties DEF Given
  <2> QED
    BY <1>3, <2>1, <2>2
<1>13. (s = "remote" /\ t.state = "connected_state" /\ Passed(t, cs, nr, gt))
          => Len(h) + n <= MaxGot
  <2> SUFFICES ASSUME s = "remote", t.state = "connected_state", Passed(t, cs, nr, gt)
               PROVE  Len(h) + n <= MaxGot
    OBVIOUS
  <2>1. h \o w = SubSeq(cs, 3, nr["client"])
    BY <1>b
  <2>2. /\ cs \in Seq(Tokens) /\ nr["client"] \in Nat /\ nr["client"] <= Len(cs)
        /\ 3 \in Nat /\ 1 <= 3
    BY Sides DEF Given
  <2>3. Len(SubSeq(cs, 3, nr["client"])) <= nr["client"]
    BY <2>2, PieceLength
  <2>4. Len(cs) \in Nat /\ Len(rs) \in Nat
    BY LenProperties DEF Given
  <2>5. Len(h \o w) = Len(h) + Len(w)
    BY <1>2, Lengths
  <2> QED
    BY <1>3, <2>1, <2>2, <2>3, <2>4, <2>5
<1>14. Given(cs, rs, nr, gt2)
  BY <1>7 DEF Given
<1>15. Sound(u, cs, rs, nr, gt2, cn)
  <2>1. CASE Len(h) + n <= MaxGot
    BY <1>5, <1>8, <2>1
  <2>2. CASE ~(Len(h) + n <= MaxGot)
    <3>1. u.state = "connected_state" /\ ~Flows(u)
      BY <1>5, <1>11, <1>12, <2>2 DEF Flows
    <3>2. Opens(u, cs, rs, nr, gt2) /\ Conserves(u, cs, rs, nr, gt2)
      BY <3>1 DEF Opens, Conserves
    <3> QED
      BY <1>5, <3>2 DEF Sound
  <2> QED
    BY <2>1, <2>2
<1>16. Passed(t, cs, nr, gt) => Passed(u, cs, nr, gt2)
  <2> SUFFICES ASSUME Passed(t, cs, nr, gt)
               PROVE  Passed(u, cs, nr, gt2)
    OBVIOUS
  <2>1. CASE Len(h) + n <= MaxGot
    BY <1>5, <1>8, <2>1
  <2>2. CASE ~(Len(h) + n <= MaxGot)
    <3>1. s = "client"
      BY <1>5, <1>11, <1>13, <2>2, Sides
    <3>2. gt2["remote"] = gt1["remote"]
      BY <1>7, <1>10, <3>1, Sides
    <3> QED
      BY <1>5, <3>2 DEF Passed
  <2> QED
    BY <2>1, <2>2
<1>17. Flows(t) => gt2 = gt1
  BY <1>8, <1>12
<1>18. /\ t.state # "connected_state" => s = "client" /\ t.state # "open_state"
       /\ gt2[Peer(s)] = gt[Peer(s)]
  BY <1>5, <1>7
<1> QED
  BY <1>4, <1>5, <1>9, <1>14, <1>15, <1>16, <1>17, <1>18 DEF u, front, gt1, gt2, w, h

=============================================================================
