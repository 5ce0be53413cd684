---------------------------- MODULE ProxyProofs ----------------------------
(***************************************************************************)
(* Proofs about Proxy.tla, for any number of clients, addresses and        *)
(* descriptors.                                                            *)
(***************************************************************************)
EXTENDS Proxy, FiniteSetTheorems, TLAPS

\* Every order epoll_wait can give its events is a sequence of them without
\* repetition.
LEMMA OrdersAreSequences ==
    ASSUME NEW S, IsFiniteSet(S), NEW order \in SetToSeqs(S)
    PROVE  /\ order \in Seq(S)
           /\ \A i, j \in DOMAIN order : order[i] = order[j] => i = j
<1>1. Cardinality(S) \in Nat
  BY FS_CardinalityType
<1> QED
  BY <1>1 DEF SetToSeqs


-----------------------------------------------------------------------------
(* One tunnel: what the functions of TunnelOps.tla preserve.  k is the     *)
(* number of replies its client has been given.                            *)

\* How many replies a client can have been sent, and how many of its
\* messages have been read.
Replies(state) ==
    IF state = "open_state" THEN 0 ELSE IF state = "connected_state" THEN 2 ELSE 1
MessagesRead(state) ==
    IF state = "open_state" THEN 0 ELSE IF state = "request_state" THEN 1 ELSE 2

Sound(t, k) ==
    /\ t \in TunnelT(Tokens)
    /\ t.rbuf["remote"] = <<>> /\ t.wbuf["remote"] = <<>>
    /\ t.state \in {"open_state", "request_state"} => ~Open(t, "remote")
    /\ k + Len(t.wbuf["client"]) <= Replies(t.state)
    /\ \A i \in DOMAIN t.wbuf["client"] :
          t.wbuf["client"][i] = connect_reply => t.state = "connected_state"

\* Nothing of the client's is waiting to be handled.
Quiet(t) == t.rbuf["client"] = <<>>

\* u has no socket that t does not have.
Within(u, t) == \A s \in Side : Open(u, s) => Open(t, s)

\* The fields of a tunnel.
LEMMA TunnelParts ==
    ASSUME NEW t \in TunnelT(Tokens)
    PROVE  /\ t.state \in TunnelState /\ t.family \in Family
           /\ t.sock \in [Side -> SockState]
           /\ t.rbuf \in [Side -> Seq(Tokens)] /\ t.wbuf \in [Side -> Seq(Tokens)]
           /\ t.interest \in [Side -> SUBSET {"in", "out"}]
  BY DEF TunnelT

LEMMA SockReleaseSound ==
    ASSUME NEW t, NEW k \in Nat, Sound(t, k), NEW s \in Side
    PROVE  LET u == SockRelease(t, s)
           IN  /\ Sound(u, k) /\ Within(u, t) /\ u.state = t.state
               /\ (Quiet(t) \/ s = "client") => Quiet(u)
               /\ ~Open(u, s)
<1> DEFINE u == SockRelease(t, s)
<1>1. t \in TunnelT(Tokens)
  BY DEF Sound
<1> DEFINE sock == [t.sock EXCEPT ![s] = "null"]
           rbuf == [t.rbuf EXCEPT ![s] = <<>>]
           wbuf == [t.wbuf EXCEPT ![s] = <<>>]
           interest == [t.interest EXCEPT ![s] = {}]
<1>a. /\ sock \in [Side -> SockState] /\ rbuf \in [Side -> Seq(Tokens)]
      /\ wbuf \in [Side -> Seq(Tokens)]
      /\ interest \in [Side -> SUBSET {"in", "out"}]
  BY <1>1, TunnelParts DEF SockState
<1>b. u = [t EXCEPT !.sock = sock, !.rbuf = rbuf, !.wbuf = wbuf, !.interest = interest]
  BY <1>1 DEF SockRelease, TunnelT
<1>2. /\ u \in TunnelT(Tokens) /\ u.state = t.state
      /\ u.sock = sock /\ u.rbuf = rbuf /\ u.wbuf = wbuf
  <2> HIDE DEF u, sock, rbuf, wbuf, interest
  <2> QED
    BY <1>1, <1>a, <1>b DEF TunnelT
<1>3. /\ \A x \in Side : /\ u.sock[x] = IF x = s THEN "null" ELSE t.sock[x]
                         /\ u.rbuf[x] = IF x = s THEN <<>> ELSE t.rbuf[x]
                         /\ u.wbuf[x] = IF x = s THEN <<>> ELSE t.wbuf[x]
  BY <1>1, <1>2 DEF TunnelT
<1>4. "client" \in Side /\ "remote" \in Side
  BY DEF Side
<1>5. Len(t.wbuf["client"]) \in Nat /\ Replies(t.state) \in Nat
  BY <1>1, <1>4, TunnelParts DEF Replies
<1> HIDE DEF u
<1>6. k + Len(u.wbuf["client"]) <= Replies(u.state)
  BY <1>2, <1>3, <1>4, <1>5 DEF Sound
<1>7. Sound(u, k)
  BY <1>2, <1>3, <1>4, <1>6 DEF Sound, Open
<1>8. Within(u, t) /\ ~Open(u, s)
  BY <1>3 DEF Within, Open
<1>9. (Quiet(t) \/ s = "client") => Quiet(u)
  BY <1>3, <1>4 DEF Quiet
<1> QED
  BY <1>2, <1>7, <1>8, <1>9 DEF u

\* The closing of a socket of a tunnel in which nothing waits appends nothing.
LEMMA SockShutdownSound ==
    ASSUME NEW t, NEW k \in Nat, Sound(t, k), Quiet(t), NEW s \in Side, Open(t, s)
    PROVE  LET u == SockShutdown(t, s)
           IN  Sound(u, k) /\ Quiet(u) /\ Within(u, t) /\ u.state = t.state
<1> DEFINE half == [t EXCEPT !.sock[s] = "halfclosed"]
           to == ShutdownTarget(t, s)
           moved == IF t.state = "connected_state" /\ Open(t, to)
                    THEN [half EXCEPT !.wbuf[to] = Concat(@, t.rbuf[s])]
                    ELSE half
           u == SockShutdown(t, s)
<1>1. t \in TunnelT(Tokens)
  BY DEF Sound
<1>2. "client" \in Side /\ "remote" \in Side /\ to \in Side
  BY DEF Side, ShutdownTarget
<1>3. t.rbuf[s] = <<>>
  BY DEF Sound, Quiet, Side
<1>4. t.wbuf[to] \in Seq(Tokens)
  BY <1>1, <1>2, TunnelParts
<1>5. Concat(t.wbuf[to], t.rbuf[s]) = t.wbuf[to]
  BY <1>3, <1>4 DEF Concat
<1>6. /\ half \in TunnelT(Tokens) /\ half.state = t.state
      /\ half.rbuf = t.rbuf /\ half.wbuf = t.wbuf
      /\ half.sock = [t.sock EXCEPT ![s] = "halfclosed"]
  BY <1>1 DEF TunnelT, SockState
<1>7. Sound(half, k) /\ Quiet(half) /\ Within(half, t)
  <2>1. half.sock["remote"] # "null" => t.sock["remote"] # "null"
    BY <1>1, <1>2, <1>6 DEF Open, TunnelT
  <2>2. Within(half, t)
    BY <1>1, <1>6 DEF Within, Open, TunnelT
  <2> HIDE DEF half
  <2> QED
    BY <1>6, <2>1, <2>2 DEF Sound, Quiet, Open
<1>8. moved = half
  <2>1. half.wbuf[to] = t.wbuf[to] /\ [half EXCEPT !.wbuf[to] = half.wbuf[to]] = half
    BY <1>2, <1>6, ZenonT(60) DEF TunnelT
  <2> QED
    BY <1>5, <2>1
<1>9. u = IF half.wbuf[s] # <<>> THEN [half EXCEPT !.interest[s] = {"out"}]
                                 ELSE SockRelease(half, s)
  <2>1. u = IF moved.wbuf[s] # <<>> THEN [moved EXCEPT !.interest[s] = {"out"}]
                                    ELSE SockRelease(moved, s)
    BY Zenon DEF SockShutdown
  <2> HIDE DEF half, moved, u
  <2> QED
    BY <1>8, <2>1
<1> HIDE DEF half, moved
<1>10. CASE half.wbuf[s] # <<>>
  <2> DEFINE v == [half EXCEPT !.interest[s] = {"out"}]
  <2>1. /\ v \in TunnelT(Tokens) /\ v.state = half.state /\ v.sock = half.sock
        /\ v.rbuf = half.rbuf /\ v.wbuf = half.wbuf
    BY <1>6 DEF TunnelT
  <2> HIDE DEF v
  <2>2. Sound(v, k) /\ Quiet(v) /\ Within(v, t)
    BY <1>7, <2>1 DEF Sound, Quiet, Within, Open
  <2>3. u = v
    BY <1>9, <1>10 DEF v
  <2> QED
    BY <1>6, <2>1, <2>2, <2>3
<1>11. CASE half.wbuf[s] = <<>>
  <2>1. LET v == SockRelease(half, s)
        IN  Sound(v, k) /\ Quiet(v) /\ Within(v, half) /\ v.state = half.state
    BY <1>7, SockReleaseSound
  <2>2. u = SockRelease(half, s)
    BY <1>9, <1>11
  <2> QED
    BY <1>6, <1>7, <2>1, <2>2 DEF Within
<1> QED
  BY <1>10, <1>11

\* What a handler that returned r has made of t.
Bad == {"no", "aborted", "crashed", "dangling"}
Handled(r, t, k) ==
    Sound(r.t, k) /\ Quiet(r.t) /\ Within(r.t, t) /\ r.bad \in Bad

\* What a handler returns.
Result == [t : TunnelT(Tokens), failed : BOOLEAN, bad : Bad]

LEMMA TunnelShutdownSound ==
    ASSUME NEW t, NEW k \in Nat, Sound(t, k), Quiet(t)
    PROVE  Handled(TunnelShutdown(t), t, k) /\ TunnelShutdown(t).t.state = t.state
<1> DEFINE u == IF Open(t, "client") THEN SockShutdown(t, "client") ELSE t
           v == SockShutdown(u, "remote")
<1>1. "client" \in Side /\ "remote" \in Side
  BY DEF Side
<1>2. Sound(u, k) /\ Quiet(u) /\ Within(u, t) /\ u.state = t.state
  BY <1>1, SockShutdownSound DEF Within
<1>3. Open(u, "remote") =>
          Sound(v, k) /\ Quiet(v) /\ Within(v, u) /\ v.state = t.state
  BY <1>1, <1>2, SockShutdownSound
<1>4. TunnelShutdown(t) = IF Freed(u) THEN Broken(u, "dangling")
                          ELSE IF Open(u, "remote") THEN Ok(v) ELSE Ok(u)
  BY Zenon DEF TunnelShutdown
<1> HIDE DEF u, v
<1>5. /\ Ok(u).t = u /\ Ok(v).t = v /\ Broken(u, "dangling").t = u
      /\ Ok(u).bad = "no" /\ Ok(v).bad = "no" /\ Broken(u, "dangling").bad = "dangling"
  BY DEF Ok, Broken
<1> QED
  BY <1>2, <1>3, <1>4, <1>5 DEF Handled, Within, Bad

LEMMA WriteClientSound ==
    ASSUME NEW t, NEW k \in Nat, Sound(t, k), Quiet(t), Open(t, "client"),
           NEW reply \in {method_reply, connect_reply},
           k + Len(t.wbuf["client"]) < Replies(t.state),
           reply = connect_reply => t.state = "connected_state"
    PROVE  LET u == WriteClient(t, reply)
           IN  Sound(u, k) /\ Quiet(u) /\ Within(u, t) /\ u.state = t.state
<1> DEFINE wbuf == [t.wbuf EXCEPT !["client"] = Append(@, reply)]
           interest == [t.interest EXCEPT !["client"] = {"in", "out"}]
           u == WriteClient(t, reply)
<1>1. t \in TunnelT(Tokens)
  BY DEF Sound
<1>2. "client" \in Side /\ "remote" \in Side /\ reply \in Tokens
  BY DEF Side, Tokens
<1>3. t.wbuf["client"] \in Seq(Tokens)
  BY <1>1, <1>2, TunnelParts
<1>4. /\ Append(t.wbuf["client"], reply) \in Seq(Tokens)
      /\ Len(Append(t.wbuf["client"], reply)) = Len(t.wbuf["client"]) + 1
      /\ \A i \in DOMAIN Append(t.wbuf["client"], reply) :
            \/ i \in DOMAIN t.wbuf["client"] /\ Append(t.wbuf["client"], reply)[i] = t.wbuf["client"][i]
            \/ Append(t.wbuf["client"], reply)[i] = reply
  BY <1>2, <1>3
<1>5. wbuf \in [Side -> Seq(Tokens)] /\ interest \in [Side -> SUBSET {"in", "out"}]
  BY <1>1, <1>2, <1>4, TunnelParts
<1>6. /\ wbuf["client"] = Append(t.wbuf["client"], reply)
      /\ wbuf["remote"] = t.wbuf["remote"]
  BY <1>1, <1>2, TunnelParts
<1>7. u = [t EXCEPT !.wbuf = wbuf, !.interest = interest]
  BY <1>1 DEF WriteClient, TunnelT
<1> HIDE DEF u, wbuf, interest
<1>8. /\ u \in TunnelT(Tokens) /\ u.state = t.state /\ u.sock = t.sock
      /\ u.rbuf = t.rbuf /\ u.wbuf = wbuf
  BY <1>1, <1>5, <1>7 DEF TunnelT
<1>9. Len(t.wbuf["client"]) \in Nat /\ Replies(t.state) \in Nat
  BY <1>3 DEF Replies
<1>10. k + Len(u.wbuf["client"]) <= Replies(u.state)
  BY <1>4, <1>6, <1>8, <1>9
<1>11. Sound(u, k)
  BY <1>4, <1>6, <1>8, <1>10 DEF Sound, Open
<1> QED
  BY <1>8, <1>11 DEF Within, Open, Quiet, u

LEMMA NotifyConnectedSound ==
    ASSUME NEW t, NEW k \in Nat, Sound(t, k), Quiet(t), t.state = "connected_state",
           k + Len(t.wbuf["client"]) <= 1
    PROVE  /\ Handled(NotifyConnected(t), t, k)
           /\ NotifyConnected(t).t.state = "connected_state"
<1> DEFINE u == WriteClient(t, connect_reply)
<1>1. ClientWritable(t) =>
          Sound(u, k) /\ Quiet(u) /\ Within(u, t) /\ u.state = "connected_state"
  <2>1. Len(t.wbuf["client"]) \in Nat
    BY TunnelParts DEF Sound, Side
  <2>2. k + Len(t.wbuf["client"]) < Replies(t.state)
    BY <2>1 DEF Replies
  <2> QED
    BY <2>2, WriteClientSound DEF ClientWritable
<1> HIDE DEF u
<1>2. NotifyConnected(t) =
          IF ClientWritable(t) THEN Ok(u)
          ELSE IF t.family = 4 THEN Failed(t)
          ELSE IF Open(t, "client") THEN Ok(t) ELSE Broken(t, "crashed")
  BY DEF NotifyConnected, u
<1>3. /\ Ok(u).t = u /\ Ok(t).t = t /\ Failed(t).t = t /\ Broken(t, "crashed").t = t
      /\ Ok(u).bad = "no" /\ Ok(t).bad = "no" /\ Failed(t).bad = "no"
      /\ Broken(t, "crashed").bad = "crashed"
  BY DEF Ok, Failed, Broken
<1> QED
  BY <1>1, <1>2, <1>3 DEF Handled, Within, Bad

\* A tunnel that goes on to connecting or connected with its buffers as they
\* are.
LEMMA Advanced ==
    ASSUME NEW t, NEW k \in Nat, Sound(t, k), t.state # "connected_state",
           NEW u \in TunnelT(Tokens), u.rbuf = t.rbuf, u.wbuf = t.wbuf,
           u.state \in {"connecting_state", "connected_state"}
    PROVE  Sound(u, k) /\ k + Len(u.wbuf["client"]) <= 1
<1>1. Len(t.wbuf["client"]) \in Nat
  BY TunnelParts DEF Sound, Side
<1>2. k + Len(u.wbuf["client"]) <= 1
  BY <1>1 DEF Sound, Replies
<1> QED
  BY <1>1, <1>2 DEF Sound, Replies

LEMMA ConnectingHandleSound ==
    ASSUME NEW t, NEW k \in Nat, Sound(t, k), Quiet(t), t.state = "connecting_state",
           Open(t, "remote"), NEW error \in BOOLEAN
    PROVE  LET r == ConnectingHandle(t, error)
           IN  /\ Handled(r, t, k) /\ r.failed \in BOOLEAN /\ r \in Result
               /\ error => r = Failed(t)
               /\ r.t.state \in {"connecting_state", "connected_state"}
<1> DEFINE u == Established(t)
           sock == [t.sock EXCEPT !["remote"] = "connected"]
<1>1. t \in TunnelT(Tokens)
  BY DEF Sound
<1>2. sock \in [Side -> SockState]
  BY <1>1, TunnelParts DEF SockState
<1>3. u = [t EXCEPT !.state = "connected_state", !.sock = sock]
  BY <1>1 DEF Established, TunnelT
<1>4. Within(u, t)
  BY <1>1, <1>3 DEF Within, Open, TunnelT
<1> HIDE DEF u, sock
<1>5. /\ u \in TunnelT(Tokens) /\ u.rbuf = t.rbuf /\ u.wbuf = t.wbuf
      /\ u.state = "connected_state"
  BY <1>1, <1>2, <1>3 DEF TunnelT, TunnelState
<1>6. Sound(u, k) /\ Quiet(u) /\ k + Len(u.wbuf["client"]) <= 1
  BY <1>5, Advanced DEF Quiet
<1>7. /\ Handled(NotifyConnected(u), u, k)
      /\ NotifyConnected(u).t.state = "connected_state"
  BY <1>5, <1>6, NotifyConnectedSound
<1>8. NotifyConnected(u).failed \in BOOLEAN /\ NotifyConnected(u) \in Result
  <2>1. NotifyConnected(u) \in {Ok(WriteClient(u, connect_reply)), Failed(u), Ok(u),
                                Broken(u, "crashed")}
    BY DEF NotifyConnected
  <2>2. u \in TunnelT(Tokens) /\ NotifyConnected(u).t \in TunnelT(Tokens)
    BY <1>5, <1>7 DEF Handled, Sound
  <2>3. ASSUME NEW v, v \in TunnelT(Tokens)
        PROVE  Ok(v) \in Result /\ Failed(v) \in Result /\ Broken(v, "crashed") \in Result
    BY <2>3 DEF Ok, Failed, Broken, Result, Bad
  <2>4. Ok(WriteClient(u, connect_reply)).t = WriteClient(u, connect_reply)
    BY DEF Ok
  <2>5. NotifyConnected(u) \in Result
    BY <2>1, <2>2, <2>3, <2>4
  <2> QED
    BY <2>5 DEF Result
<1>9. Failed(t).t = t /\ Failed(t).failed = TRUE /\ Failed(t).bad = "no" /\ Failed(t) \in Result
  BY DEF Failed, Result, Bad, Sound
<1>10. ConnectingHandle(t, error) = IF error THEN Failed(t) ELSE NotifyConnected(u)
  BY DEF ConnectingHandle, u
<1> QED
  BY <1>4, <1>7, <1>8, <1>9, <1>10 DEF Handled, Within, Bad

LEMMA ForwardedSound ==
    ASSUME NEW t, NEW k \in Nat, Sound(t, k), Quiet(t), NEW s \in Side
    PROVE  LET u == Forwarded(t, s)
           IN  Sound(u, k) /\ Quiet(u) /\ Within(u, t) /\ u.state = t.state
<1> DEFINE u == Forwarded(t, s)
           interest == [t.interest EXCEPT ![Peer(s)] = {"in", "out"}]
<1>1. t \in TunnelT(Tokens)
  BY DEF Sound
<1>2. "client" \in Side /\ "remote" \in Side /\ Peer(s) \in Side
  BY DEF Side, Peer
<1>3. t.rbuf[s] = <<>>
  BY DEF Sound, Quiet, Side
<1>4. t.wbuf[Peer(s)] \o t.rbuf[s] = t.wbuf[Peer(s)]
  BY <1>1, <1>2, <1>3, TunnelParts
<1>5. /\ [t.wbuf EXCEPT ![Peer(s)] = @ \o t.rbuf[s]] = t.wbuf
      /\ [t.rbuf EXCEPT ![s] = <<>>] = t.rbuf
  BY <1>1, <1>2, <1>3, <1>4, TunnelParts
<1>6. interest \in [Side -> SUBSET {"in", "out"}]
  BY <1>1, <1>2, TunnelParts
<1>7. u = [t EXCEPT !.wbuf = [t.wbuf EXCEPT ![Peer(s)] = @ \o t.rbuf[s]],
                    !.rbuf = [t.rbuf EXCEPT ![s] = <<>>], !.interest = interest]
  BY <1>1 DEF Forwarded, TunnelT
<1> HIDE DEF u, interest
<1>8. u = [t EXCEPT !.wbuf = t.wbuf, !.rbuf = t.rbuf, !.interest = interest]
  BY <1>5, <1>7
<1>9. /\ u \in TunnelT(Tokens) /\ u.state = t.state /\ u.sock = t.sock
      /\ u.rbuf = t.rbuf /\ u.wbuf = t.wbuf
  BY <1>1, <1>6, <1>8 DEF TunnelT
<1> QED
  BY <1>9 DEF Sound, Quiet, Within, Open, u

LEMMA ConnectedHandleSound ==
    ASSUME NEW t, NEW k \in Nat, Sound(t, k), Quiet(t), NEW s \in Side
    PROVE  LET r == ConnectedHandle(t, s, FALSE)
           IN  Handled(r, t, k) /\ r.failed \in BOOLEAN /\ r.t.state = t.state
<1> DEFINE u == Forwarded(t, s)
<1>1. Sound(u, k) /\ Quiet(u) /\ Within(u, t) /\ u.state = t.state
  BY ForwardedSound
<1>2. ConnectedHandle(t, s, FALSE) \in {Failed(t), Ok(u)}
  BY DEF ConnectedHandle
<1> HIDE DEF u
<1>3. /\ Ok(u).t = u /\ Ok(u).failed = FALSE /\ Ok(u).bad = "no"
      /\ Failed(t).t = t /\ Failed(t).failed = TRUE /\ Failed(t).bad = "no"
  BY DEF Ok, Failed
<1> QED
  BY <1>1, <1>2, <1>3 DEF Handled, Within, Bad

\* A handler run for s leaves the state or completes a connect of the remote.
Proceeds(t, u, s, error) ==
    \/ u.state = t.state
    \/ /\ t.state = "connecting_state" /\ u.state = "connected_state"
       /\ s = "remote" /\ ~error

\* A socket of the tunnel is readable and there is nothing to read.
LEMMA ReadNothingSound ==
    ASSUME NEW t, NEW k \in Nat, Sound(t, k), Quiet(t), NEW s \in Side, Open(t, s),
           NEW error \in BOOLEAN
    PROVE  LET r == ReadHandle(t, s, "pending", error, FALSE)
           IN  Handled(r, t, k) /\ Proceeds(t, r.t, s, error)
<1> DEFINE r == ReadHandle(t, s, "pending", error, FALSE)
           c == ConnectingHandle(t, error)
           d == ConnectedHandle(t, s, FALSE)
<1>1. t.state \in TunnelState
  BY TunnelParts DEF Sound
<1>2. /\ Handled(Ok(t), t, k) /\ Handled(Broken(t, "aborted"), t, k)
      /\ Ok(t).t = t /\ Broken(t, "aborted").t = t
  BY DEF Handled, Ok, Broken, Within, Bad
<1>3. CASE t.state \in {"open_state", "request_state"}
  <2>1. r = Ok(t)
    BY <1>3 DEF ReadHandle, OpenHandle, RequestHandle, ForceIfFailed, Ok, Quiet
  <2> QED
    BY <1>2, <2>1 DEF Proceeds
<1>4. CASE t.state = "connecting_state" /\ s = "client"
  <2>1. r = Broken(t, "aborted")
    BY <1>4 DEF ReadHandle
  <2> QED
    BY <1>2, <2>1 DEF Proceeds
<1>5. CASE t.state = "connecting_state" /\ s # "client"
  <2>1. s = "remote"
    BY <1>5 DEF Side
  <2>2. /\ Handled(c, t, k) /\ c.failed \in BOOLEAN
        /\ error => c = Failed(t)
        /\ c.t.state \in {"connecting_state", "connected_state"}
    BY <1>5, <2>1, ConnectingHandleSound
  <2>3. r = IF c.failed THEN TunnelShutdown(c.t) ELSE c
    BY <1>5 DEF ReadHandle, ShutIfFailed
  <2> HIDE DEF c, r
  <2>4. error => c.t = t
    BY <2>2 DEF Failed
  <2>5. Handled(TunnelShutdown(c.t), c.t, k) /\ TunnelShutdown(c.t).t.state = c.t.state
    BY <2>2, TunnelShutdownSound DEF Handled
  <2>6. Handled(r, t, k) /\ r.t.state = c.t.state
    BY <2>2, <2>3, <2>5 DEF Handled, Within
  <2> QED
    BY <1>5, <2>1, <2>2, <2>4, <2>6 DEF r, Proceeds
<1>6. CASE t.state = "connected_state"
  <2>1. Handled(d, t, k) /\ d.failed \in BOOLEAN /\ d.t.state = t.state
    BY ConnectedHandleSound
  <2>2. r = IF d.failed THEN TunnelShutdown(d.t) ELSE d
    BY <1>6 DEF ReadHandle, ShutIfFailed
  <2> HIDE DEF d, r
  <2>3. Handled(TunnelShutdown(d.t), d.t, k) /\ TunnelShutdown(d.t).t.state = d.t.state
    BY <2>1, TunnelShutdownSound DEF Handled
  <2>4. Handled(r, t, k) /\ r.t.state = t.state
    BY <2>1, <2>2, <2>3 DEF Handled, Within
  <2> QED
    BY <2>4 DEF r, Proceeds
<1> QED
  BY <1>1, <1>3, <1>4, <1>5, <1>6 DEF TunnelState

\* A handler takes the one message that waits.
LEMMA Consumed ==
    ASSUME NEW t, NEW k \in Nat, Sound(t, k), NEW m, t.rbuf["client"] = <<m>>
    PROVE  LET u == [t EXCEPT !.rbuf["client"] = Tail(@)]
           IN  /\ Sound(u, k) /\ Quiet(u) /\ u.state = t.state /\ u.sock = t.sock
               /\ u.wbuf = t.wbuf /\ u.interest = t.interest /\ u.family = t.family
<1> DEFINE rbuf == [t.rbuf EXCEPT !["client"] = Tail(@)]
           u == [t EXCEPT !.rbuf["client"] = Tail(@)]
<1>1. t \in TunnelT(Tokens)
  BY DEF Sound
<1>2. "client" \in Side /\ "remote" \in Side /\ t.rbuf["client"] \in Seq(Tokens)
  BY <1>1, TunnelParts DEF Side
<1>3. Tail(t.rbuf["client"]) = <<>>
  BY <1>2
<1>4. /\ rbuf \in [Side -> Seq(Tokens)]
      /\ rbuf["client"] = <<>> /\ rbuf["remote"] = t.rbuf["remote"]
  BY <1>1, <1>2, <1>3, TunnelParts
<1>5. u = [t EXCEPT !.rbuf = rbuf]
  BY <1>1 DEF TunnelT
<1> HIDE DEF u, rbuf
<1>6. /\ u \in TunnelT(Tokens) /\ u.state = t.state /\ u.sock = t.sock
      /\ u.wbuf = t.wbuf /\ u.rbuf = rbuf /\ u.interest = t.interest
      /\ u.family = t.family
  BY <1>1, <1>4, <1>5 DEF TunnelT
<1>7. Sound(u, k) /\ Quiet(u)
  BY <1>4, <1>6 DEF Sound, Quiet, Open
<1> QED
  BY <1>6, <1>7 DEF u

\* The greeting arrives.
LEMMA ReadGreetingSound ==
    ASSUME NEW t, NEW k \in Nat, Sound(t, k), t.state = "open_state",
           Open(t, "client"), NEW m, t.rbuf["client"] = <<m>>, NEW error
    PROVE  LET r == ReadHandle(t, "client", "pending", error, FALSE)
           IN  Handled(r, t, k) /\ r.t.state = "request_state"
<1> DEFINE r == ReadHandle(t, "client", "pending", error, FALSE)
           u == [t EXCEPT !.rbuf["client"] = Tail(@)]
           v == [t EXCEPT !.rbuf["client"] = Tail(@), !.state = "request_state"]
           w == WriteClient(v, method_reply)
           x == SockRelease(v, "client")
<1>1. Sound(u, k) /\ Quiet(u) /\ u.sock = t.sock /\ u.state = "open_state"
  BY Consumed
<1>2. v = [u EXCEPT !.state = "request_state"]
  BY DEF Sound, TunnelT
<1> HIDE DEF u, v
<1>3. /\ v \in TunnelT(Tokens) /\ v.state = "request_state" /\ v.sock = u.sock
      /\ v.rbuf = u.rbuf /\ v.wbuf = u.wbuf
  BY <1>1, <1>2 DEF Sound, TunnelT, TunnelState
<1>4. k + Len(v.wbuf["client"]) <= 0 /\ Len(v.wbuf["client"]) \in Nat
  BY <1>1, <1>3, TunnelParts DEF Sound, Replies, Side
<1>5. Sound(v, k) /\ Quiet(v) /\ Within(v, t) /\ Open(v, "client")
  BY <1>1, <1>3, <1>4 DEF Sound, Quiet, Within, Open, Replies
<1>6. Sound(w, k) /\ Quiet(w) /\ Within(w, v) /\ w.state = "request_state"
  <2>1. k + Len(v.wbuf["client"]) < Replies(v.state)
    BY <1>3, <1>4 DEF Replies
  <2> QED
    BY <1>3, <1>5, <2>1, WriteClientSound, TunnelOpsAssumption
<1>7. Sound(x, k) /\ Quiet(x) /\ Within(x, v) /\ x.state = "request_state"
  BY <1>3, <1>5, SockReleaseSound DEF Side
<1>8. r = IF ClientWritable(v) THEN Ok(w) ELSE Ok(x)
  <2>1. OpenHandle(t) = IF ClientWritable(v) THEN Ok(w) ELSE Failed(v)
    BY DEF OpenHandle, v
  <2>2. r = ForceIfFailed(OpenHandle(t), "client")
    BY DEF ReadHandle
  <2> HIDE DEF w
  <2>3. ~Ok(w).failed /\ Failed(v).failed /\ Failed(v).t = v
    BY DEF Ok, Failed
  <2> QED
    BY <2>1, <2>2, <2>3 DEF ForceIfFailed
<1> HIDE DEF r, w, x
<1>9. Ok(w).t = w /\ Ok(x).t = x /\ Ok(w).bad = "no" /\ Ok(x).bad = "no"
  BY DEF Ok
<1>10. Handled(r, t, k) /\ r.t.state = "request_state"
  BY <1>5, <1>6, <1>7, <1>8, <1>9 DEF Handled, Within, Bad
<1> QED
  BY <1>10 DEF r

\* The resolver has answered, and connect(2) has been tried.
LEMMA RequestSound ==
    ASSUME NEW t, NEW k \in Nat, Sound(t, k), t.state = "request_state",
           NEW m, t.rbuf["client"] = <<m>>, NEW outcome \in {"failed", "pending", "up"}
    PROVE  LET r == ReadHandle(t, "client", outcome, FALSE, FALSE)
           IN  /\ Sound(r.t, k) /\ Quiet(r.t) /\ r.bad \in Bad
               /\ Open(r.t, "client") => Open(t, "client")
               /\ outcome = "failed" => Freed(r.t)
               /\ outcome = "pending" => r.t.state = "connecting_state"
               /\ outcome = "up" => r.t.state = "connected_state"
<1> DEFINE r == ReadHandle(t, "client", outcome, FALSE, FALSE)
           u == [t EXCEPT !.rbuf["client"] = Tail(@)]
           d == Dialling(u)
           p == [d EXCEPT !.state = "connecting_state"]
           e == Established(d)
           f == SockRelease(u, "client")
           n == NotifyConnected(e)
           x == SockRelease(n.t, "client")
<1>1. /\ Sound(u, k) /\ Quiet(u) /\ u.sock = t.sock /\ u.state = "request_state"
  BY Consumed
<1>2. r = ForceIfFailed(ConnectToRemote(u, outcome), "client")
  <2>1. t.rbuf["client"] # <<>>
    OBVIOUS
  <2> QED
    BY <2>1 DEF ReadHandle, RequestHandle
<1> HIDE DEF u, r
<1>3. /\ d \in TunnelT(Tokens) /\ d.rbuf = u.rbuf /\ d.wbuf = u.wbuf
      /\ d.sock = [u.sock EXCEPT !["remote"] = "connecting"]
  <2>1. u \in TunnelT(Tokens)
    BY <1>1 DEF Sound
  <2> DEFINE sock == [u.sock EXCEPT !["remote"] = "connecting"]
             interest == [u.interest EXCEPT !["remote"] = {"in", "out"}]
  <2>2. sock \in [Side -> SockState] /\ interest \in [Side -> SUBSET {"in", "out"}]
    BY <2>1, TunnelParts DEF SockState
  <2>3. d = [u EXCEPT !.sock = sock, !.interest = interest]
    BY <2>1 DEF Dialling, TunnelT
  <2> HIDE DEF sock, interest, d
  <2>4. d \in TunnelT(Tokens) /\ d.rbuf = u.rbuf /\ d.wbuf = u.wbuf /\ d.sock = sock
    BY <2>1, <2>2, <2>3 DEF TunnelT
  <2> QED
    BY <2>4 DEF sock
<1>4. d.sock["client"] = t.sock["client"]
  BY <1>1, <1>3, TunnelParts DEF Sound, Side
<1> HIDE DEF d
<1>5. /\ p \in TunnelT(Tokens) /\ p.rbuf = u.rbuf /\ p.wbuf = u.wbuf
      /\ p.sock = d.sock /\ p.state = "connecting_state"
  BY <1>3 DEF TunnelT, TunnelState
<1>6. /\ e \in TunnelT(Tokens) /\ e.rbuf = u.rbuf /\ e.wbuf = u.wbuf
      /\ e.sock["client"] = d.sock["client"] /\ e.state = "connected_state"
  <2> DEFINE sock == [d.sock EXCEPT !["remote"] = "connected"]
  <2>1. sock \in [Side -> SockState] /\ sock["client"] = d.sock["client"]
    BY <1>3, TunnelParts DEF SockState, Side
  <2>2. e = [d EXCEPT !.state = "connected_state", !.sock = sock]
    BY <1>3 DEF Established, TunnelT
  <2> HIDE DEF sock, e
  <2>3. /\ e \in TunnelT(Tokens) /\ e.rbuf = d.rbuf /\ e.wbuf = d.wbuf
        /\ e.sock = sock /\ e.state = "connected_state"
    BY <1>3, <2>1, <2>2 DEF TunnelT, TunnelState
  <2> QED
    BY <1>3, <2>1, <2>3
<1> HIDE DEF p, e
<1>7. /\ Sound(p, k) /\ Quiet(p)
      /\ Sound(e, k) /\ Quiet(e) /\ k + Len(e.wbuf["client"]) <= 1
  BY <1>1, <1>5, <1>6, Advanced DEF Quiet
<1>8. /\ Handled(n, e, k) /\ n.t.state = "connected_state" /\ n.failed \in BOOLEAN
  <2>1. n.failed \in BOOLEAN
    BY DEF NotifyConnected, Ok, Failed, Broken
  <2> QED
    BY <1>6, <1>7, <2>1, NotifyConnectedSound
<1> HIDE DEF n
<1>9. CASE outcome = "failed"
  <2>1. /\ Sound(f, k) /\ Quiet(f) /\ Within(f, u) /\ f.state = "request_state"
        /\ ~Open(f, "client")
    BY <1>1, SockReleaseSound DEF Side
  <2>2. ~Open(f, "remote")
    BY <2>1 DEF Sound
  <2> HIDE DEF f
  <2>3. ConnectToRemote(u, outcome) = Failed(u)
    BY <1>9 DEF ConnectToRemote
  <2>4. r = Ok(f)
    BY <1>2, <2>3 DEF ForceIfFailed, Failed, f
  <2>5. r.t = f /\ r.bad = "no"
    BY <2>4 DEF Ok
  <2> QED
    BY <1>9, <2>1, <2>2, <2>5 DEF r, Freed, Bad
<1>10. CASE outcome = "pending"
  <2>1. ConnectToRemote(u, outcome) = Ok(p)
    BY <1>10 DEF ConnectToRemote, p, d
  <2>2. r = Ok(p)
    BY <1>2, <2>1 DEF ForceIfFailed, Ok
  <2>3. r.t = p /\ r.bad = "no"
    BY <2>2 DEF Ok
  <2> QED
    BY <1>4, <1>5, <1>7, <1>10, <2>3 DEF r, Open, Bad
<1>11. CASE outcome = "up"
  <2>1. ConnectToRemote(u, outcome) = n
    BY <1>11 DEF ConnectToRemote, n, e, d
  <2>2. r = IF n.failed THEN Ok(x) ELSE n
    BY <1>2, <2>1 DEF ForceIfFailed
  <2>3. /\ Sound(x, k) /\ Quiet(x) /\ Within(x, n.t) /\ x.state = "connected_state"
    BY <1>8, SockReleaseSound DEF Handled, Side
  <2> HIDE DEF x
  <2>4. Ok(x).t = x /\ Ok(x).bad = "no"
    BY DEF Ok
  <2>5. /\ Sound(r.t, k) /\ Quiet(r.t) /\ r.bad \in Bad /\ Within(r.t, e)
        /\ r.t.state = "connected_state"
    BY <1>8, <2>2, <2>3, <2>4 DEF Handled, Within, Bad
  <2>6. Open(r.t, "client") => Open(t, "client")
    BY <1>4, <1>6, <2>5 DEF Within, Open, Side
  <2> QED
    BY <1>11, <2>5, <2>6 DEF r
<1> QED
  BY <1>9, <1>10, <1>11

\* Once everything waiting for s has been written.
LEMMA WriteHandleSound ==
    ASSUME NEW t, NEW k \in Nat, Sound(t, k), Quiet(t), NEW s \in Side, Open(t, s),
           NEW error \in BOOLEAN
    PROVE  LET r == WriteHandle(t, s, error)
           IN  Handled(r, t, k) /\ Proceeds(t, r.t, s, error)
<1> DEFINE r == WriteHandle(t, s, error)
           c == ConnectingHandle(t, error)
<1>1. ASSUME NEW q, NEW u, Handled(q, u, k), q \in Result
      PROVE  Handled(Rearmed(q, s), u, k) /\ Rearmed(q, s).t.state = q.t.state
  <2> DEFINE i == IF q.t.wbuf[s] # <<>> THEN {"in", "out"} ELSE {"in"}
             interest == [q.t.interest EXCEPT ![s] = i]
             v == [q.t EXCEPT !.interest[s] = i]
  <2>1. q.t \in TunnelT(Tokens)
    BY <1>1 DEF Handled, Sound
  <2>2. interest \in [Side -> SUBSET {"in", "out"}] /\ v = [q.t EXCEPT !.interest = interest]
    BY <2>1, TunnelParts DEF TunnelT
  <2>3. Rearmed(q, s) = IF q.bad = "no" /\ Open(q.t, s) THEN [q EXCEPT !.t = v] ELSE q
    BY DEF Rearmed
  <2> DEFINE w == [q EXCEPT !.t = v]
  <2>4. Rearmed(q, s) = w \/ Rearmed(q, s) = q
    BY <2>3
  <2> HIDE DEF v, interest
  <2>5. /\ v \in TunnelT(Tokens) /\ v.state = q.t.state /\ v.sock = q.t.sock
        /\ v.rbuf = q.t.rbuf /\ v.wbuf = q.t.wbuf
    BY <2>1, <2>2 DEF TunnelT
  <2>6. Sound(v, k) /\ Quiet(v) /\ Within(v, u)
    BY <1>1, <2>5 DEF Handled, Sound, Quiet, Within, Open
  <2>7. w.t = v /\ w.bad = q.bad
    BY <1>1 DEF Result
  <2> HIDE DEF w
  <2> QED
    BY <1>1, <2>4, <2>5, <2>6, <2>7 DEF Handled
<1>2. Ok(t).t = t /\ Handled(Ok(t), t, k) /\ Ok(t) \in Result
  BY DEF Ok, Handled, Within, Bad, Result, Sound
<1>3. CASE t.state # "connecting_state"
  <2>1. r = Rearmed(Ok(t), s)
    BY <1>3 DEF WriteHandle
  <2> QED
    BY <1>1, <1>2, <2>1 DEF Proceeds
<1>4. CASE t.state = "connecting_state" /\ s = "client"
  <2>1. r = Broken(t, "aborted")
    BY <1>4 DEF WriteHandle
  <2>2. r.t = t /\ r.bad = "aborted"
    BY <2>1 DEF Broken
  <2> QED
    BY <2>2 DEF Handled, Within, Bad, Proceeds
<1>5. CASE t.state = "connecting_state" /\ s # "client"
  <2>1. s = "remote"
    BY <1>5 DEF Side
  <2>2. /\ Handled(c, t, k) /\ c.failed \in BOOLEAN /\ c \in Result
        /\ error => c = Failed(t)
        /\ c.t.state \in {"connecting_state", "connected_state"}
    BY <1>5, <2>1, ConnectingHandleSound
  <2>3. r = IF c.failed THEN TunnelShutdown(c.t) ELSE Rearmed(c, s)
    BY <1>5 DEF WriteHandle
  <2> HIDE DEF c, r
  <2>4. error => c.t = t
    BY <2>2 DEF Failed
  <2>5. Handled(TunnelShutdown(c.t), c.t, k) /\ TunnelShutdown(c.t).t.state = c.t.state
    BY <2>2, TunnelShutdownSound DEF Handled
  <2>6. Handled(Rearmed(c, s), t, k) /\ Rearmed(c, s).t.state = c.t.state
    BY <1>1, <2>2
  <2>7. Handled(r, t, k) /\ r.t.state = c.t.state
    BY <2>2, <2>3, <2>5, <2>6 DEF Handled, Within
  <2> QED
    BY <1>5, <2>1, <2>2, <2>4, <2>7 DEF r, Proceeds
<1> QED
  BY <1>3, <1>4, <1>5

-----------------------------------------------------------------------------
(* The invariant *)

\* What is true of the tunnel of c and of its connections.
ClientInv(c) ==
    /\ Sound(tunnel[c], net[c].told)
    /\ resolving = c =>
          /\ tunnel[c].state = "request_state" /\ Open(tunnel[c], "client")
          /\ net[c].nread = 2
          /\ \E m \in Tokens : tunnel[c].rbuf["client"] = <<m>>
    /\ resolving # c =>
          Quiet(tunnel[c]) /\ net[c].nread = MessagesRead(tunnel[c].state)
    /\ tunnel[c].state \in {"open_state", "request_state"} => net[c].conn = "none"
    /\ tunnel[c].state = "connected_state" /\ c \notin strayed => net[c].conn = "up"
    /\ \A s \in Side : IF Open(tunnel[c], s) THEN address[c][s] \in Addresses
                                             ELSE address[c][s] = Nobody
    /\ stage[c] # "accepted" => tunnel[c] = NoTunnel

\* Each client waits in the queue once.
BacklogInv ==
    /\ \A i \in DOMAIN backlog : stage[backlog[i]] = "queued"
    /\ \A i, j \in DOMAIN backlog : backlog[i] = backlog[j] => i = j

\* There is a connection to accept for the one event of the listening socket,
\* and an event about a remote's socket is about a connect that has ended.
ConnectEnded(c) == net[c].conn \in {"up", "refused"} \/ stage[c] = "gone"
EventsInv ==
    \A i \in DOMAIN batch :
        IF batch[i].at = listenfd
        THEN backlog # <<>> /\ \A j \in DOMAIN batch : batch[j].at = listenfd => i = j
        ELSE \A c \in Clients : batch[i].about = <<c, "remote">> => ConnectEnded(c)

Event == [at : Addresses \cup {listenfd}, about : Sockets \cup {listenfd},
          handler : {"read", "write"}]

IInv == TypeOK /\ (\A c \in Clients : ClientInv(c)) /\ BacklogInv /\ EventsInv

LEMMA Tails ==
    ASSUME NEW S, NEW q \in Seq(S), q # <<>>
    PROVE  /\ Tail(q) \in Seq(S) /\ Head(q) \in S /\ q[1] = Head(q)
           /\ 1 \in DOMAIN q
           /\ \A i \in DOMAIN Tail(q) : i + 1 \in DOMAIN q /\ Tail(q)[i] = q[i + 1]
  OBVIOUS

LEMMA CreatedSound ==
    /\ Sound(Created(4), 0) /\ Quiet(Created(4)) /\ Created(4).state = "open_state"
    /\ Open(Created(4), "client") /\ ~Open(Created(4), "remote")
<1> DEFINE t == Created(4)
<1>1. /\ t.state = "open_state" /\ t.family = 4
      /\ t.sock = [s \in Side |-> IF s = "client" THEN "connected" ELSE "null"]
      /\ t.rbuf = [s \in Side |-> <<>>] /\ t.wbuf = [s \in Side |-> <<>>]
      /\ t.interest = [s \in Side |-> IF s = "client" THEN {"in"} ELSE {}]
  BY DEF Created
<1> HIDE DEF t
<1>2. /\ t.sock \in [Side -> SockState]
      /\ t.rbuf \in [Side -> Seq(Tokens)] /\ t.wbuf \in [Side -> Seq(Tokens)]
      /\ t.interest \in [Side -> SUBSET {"in", "out"}]
  BY <1>1 DEF SockState
<1>3. t \in TunnelT(Tokens)
  BY <1>2 DEF t, Created, TunnelT, TunnelState, Family
<1>4. /\ t.rbuf["client"] = <<>> /\ t.rbuf["remote"] = <<>>
      /\ t.wbuf["client"] = <<>> /\ t.wbuf["remote"] = <<>>
      /\ t.sock["client"] = "connected" /\ t.sock["remote"] = "null"
  BY <1>1 DEF Side
<1>5. Sound(t, 0)
  BY <1>1, <1>3, <1>4 DEF Sound, Open, Replies
<1> QED
  BY <1>1, <1>4, <1>5 DEF t, Quiet, Open

LEMMA NoTunnelSound ==
    /\ Sound(NoTunnel, 0) /\ Quiet(NoTunnel) /\ NoTunnel.state = "open_state"
    /\ \A s \in Side : ~Open(NoTunnel, s)
<1>1. /\ Sound(NoTunnel, 0) /\ Quiet(NoTunnel) /\ NoTunnel.state = "open_state"
      /\ Within(NoTunnel, Created(4)) /\ ~Open(NoTunnel, "client")
  BY CreatedSound, SockReleaseSound DEF NoTunnel, Side
<1> QED
  BY <1>1, CreatedSound DEF Within, Side

\* A step that leaves a client alone, but may let a stray event reach it.
LEMMA OtherClient ==
    ASSUME NEW c \in Clients, ClientInv(c),
           tunnel'[c] = tunnel[c], net'[c] = net[c], address'[c] = address[c],
           stage'[c] = stage[c], resolving' = c <=> resolving = c, strayed \subseteq strayed'
    PROVE  ClientInv(c)'
  BY DEF ClientInv

\* The queue and the batch after a step that takes at most the first event
\* and leaves the queue alone.
LEMMA EventsKept ==
    ASSUME TypeOK, EventsInv, BacklogInv,
           \/ UNCHANGED batch
           \/ batch # <<>> /\ batch' = Tail(batch),
           UNCHANGED backlog,
           \A c \in Clients : stage[c] = "queued" => stage'[c] = "queued",
           \A c \in Clients : ConnectEnded(c) => ConnectEnded(c)'
    PROVE  EventsInv' /\ BacklogInv'
<1>1. BacklogInv'
  BY DEF BacklogInv, TypeOK
<1>2. CASE UNCHANGED batch
  BY <1>1, <1>2 DEF EventsInv
<1>3. CASE batch # <<>> /\ batch' = Tail(batch)
  <2>1. \A i \in DOMAIN batch' : i + 1 \in DOMAIN batch /\ batch'[i] = batch[i + 1]
    BY <1>3, Tails DEF TypeOK
  <2>2. DOMAIN batch' \subseteq Nat
    BY <1>3, Tails DEF TypeOK
  <2> SUFFICES ASSUME NEW i \in DOMAIN batch'
               PROVE  IF batch'[i].at = listenfd
                      THEN /\ backlog' # <<>>
                           /\ \A j \in DOMAIN batch' : batch'[j].at = listenfd => i = j
                      ELSE \A c \in Clients :
                              batch'[i].about = <<c, "remote">> => ConnectEnded(c)'
    BY <1>1 DEF EventsInv
  <2>3. ASSUME batch'[i].at = listenfd, NEW j \in DOMAIN batch', batch'[j].at = listenfd
        PROVE  i = j
    <3>1. i + 1 = j + 1
      BY <2>1, <2>3 DEF EventsInv
    <3> QED
      BY <2>2, <3>1
  <2>4. batch'[i].at = listenfd => backlog' # <<>>
    BY <2>1 DEF EventsInv
  <2>5. batch'[i].at # listenfd =>
            \A c \in Clients : batch'[i].about = <<c, "remote">> => ConnectEnded(c)'
    BY <2>1 DEF EventsInv
  <2> QED
    BY <2>3, <2>4, <2>5
<1> QED
  BY <1>2, <1>3

\* A handler that was run for c has returned r, which leaves c as it should.
LEMMA Returned ==
    ASSUME IInv, NEW c \in Clients, stage[c] = "accepted",
           NEW r, NEW place, NEW n \in NetT, Returns(c, r, place, n),
           Sound(r.t, n.told), Quiet(r.t), r.bad \in Bad,
           ~Freed(r.t) => n.nread = MessagesRead(r.t.state),
           ~Freed(r.t) /\ r.t.state \in {"open_state", "request_state"} => n.conn = "none",
           ~Freed(r.t) /\ r.t.state = "connected_state" /\ c \notin strayed' => n.conn = "up",
           net[c].conn \in {"up", "refused"} => n.conn = net[c].conn,
           \A s \in Side : Open(r.t, s) => place[s] \in Addresses,
           strayed \subseteq strayed', resolving \in {c, Nobody}, resolving' = Nobody,
           \/ UNCHANGED batch
           \/ batch # <<>> /\ batch' = Tail(batch),
           UNCHANGED <<limit, backlog>>, strayed' \subseteq Clients
    PROVE  IInv'
<1> DEFINE gone == Freed(r.t)
<1>1. c # Nobody
  BY ProxyAssumption
<1>2. Unconnected \in NetT
  BY DEF Unconnected, NetT
<1>3. /\ tunnel'[c] = IF gone THEN NoTunnel ELSE r.t
      /\ stage'[c] = IF gone THEN "gone" ELSE "accepted"
      /\ address'[c] = [s \in Side |-> IF Open(r.t, s) THEN place[s] ELSE Nobody]
      /\ net'[c] = IF gone THEN Unconnected ELSE n
      /\ \A x \in Clients \ {c} : /\ tunnel'[x] = tunnel[x] /\ stage'[x] = stage[x]
                                  /\ address'[x] = address[x] /\ net'[x] = net[x]
  BY DEF Returns, IInv, TypeOK
<1>4. TypeOK'
  <2>1. tunnel' \in [Clients -> TunnelT(Tokens)]
    BY NoTunnelSound DEF Returns, IInv, TypeOK, Sound
  <2>2. stage' \in [Clients -> {"away", "queued", "accepted", "gone"}]
    BY DEF Returns, IInv, TypeOK
  <2>3. address' \in [Clients -> [Side -> Addresses \cup {Nobody}]]
    BY DEF Returns, IInv, TypeOK
  <2>4. net' \in [Clients -> NetT]
    BY <1>2 DEF Returns, IInv, TypeOK
  <2>5. fate' \in {"running", "aborted", "crashed", "dangling"}
    BY DEF Returns, Bad
  <2>6. batch' \in Seq(Event)
    <3>1. batch \in Seq(Event)
      BY DEF IInv, TypeOK, Event
    <3> QED
      BY <3>1, Tails
  <2> QED
    BY <2>1, <2>2, <2>3, <2>4, <2>5, <2>6 DEF IInv, TypeOK, Event
<1>5. ClientInv(c)'
  <2>1. CASE gone
    <3>1. /\ tunnel'[c] = NoTunnel /\ net'[c] = Unconnected
          /\ address'[c] = [s \in Side |-> Nobody]
      BY <1>3, <2>1 DEF Freed, Side
    <3> QED
      BY <1>1, <3>1, NoTunnelSound DEF ClientInv, Unconnected, MessagesRead
  <2>2. CASE ~gone
    BY <1>1, <1>3, <2>2 DEF ClientInv
  <2> QED
    BY <2>1, <2>2
<1>6. ASSUME NEW x \in Clients, x # c PROVE ClientInv(x)'
  <2>1. resolving' = x <=> resolving = x
    BY <1>6, ProxyAssumption
  <2> QED
    BY <1>3, <1>6, <2>1, OtherClient DEF IInv
<1>7. \A x \in Clients : stage[x] = "queued" => stage'[x] = "queued"
  BY <1>3
<1>8. \A x \in Clients : ConnectEnded(x) => ConnectEnded(x)'
  BY <1>3 DEF ConnectEnded
<1>9. EventsInv' /\ BacklogInv'
  BY <1>7, <1>8, EventsKept DEF IInv
<1> QED
  BY <1>4, <1>5, <1>6, <1>9 DEF IInv

-----------------------------------------------------------------------------
(* Its steps *)

\* What is known when an event is handed to the socket s of c.
LEMMA Dispatched ==
    ASSUME IInv, NEW c \in Clients, NEW s \in Side, NEW handler, Dispatching(c, s, handler)
    PROVE  /\ Open(tunnel[c], s) /\ stage[c] = "accepted"
           /\ resolving = Nobody /\ resolving # c
           /\ batch # <<>> /\ batch' = Tail(batch)
           /\ strayed \subseteq strayed' /\ strayed' \subseteq Clients
           /\ Sound(tunnel[c], net[c].told) /\ Quiet(tunnel[c])
           /\ net[c].nread = MessagesRead(tunnel[c].state)
           /\ \A x \in Side : Open(tunnel[c], x) => address[c][x] \in Addresses
           /\ s = "remote" /\ c \notin strayed' => net[c].conn \in {"up", "refused"}
<1> DEFINE event == Head(batch)
<1>1. /\ resolving = Nobody /\ batch # <<>> /\ batch' = Tail(batch)
      /\ event.at \in Addresses
      /\ strayed' = IF event.about = <<c, s>> THEN strayed ELSE strayed \cup {c}
  BY DEF Dispatching, Idle
<1>2. address[c][s] = event.at
  BY DEF Dispatching, At
<1>3. resolving # c
  BY <1>1, ProxyAssumption
<1>4. ClientInv(c)
  BY DEF IInv
<1>5. Open(tunnel[c], s)
  BY <1>1, <1>2, <1>4, ProxyAssumption DEF ClientInv
<1>6. stage[c] = "accepted"
  BY <1>4, <1>5, NoTunnelSound DEF ClientInv
<1>7. s = "remote" /\ c \notin strayed' => net[c].conn \in {"up", "refused"}
  <2> SUFFICES ASSUME s = "remote", c \notin strayed'
               PROVE  net[c].conn \in {"up", "refused"}
    OBVIOUS
  <2>1. event.about = <<c, "remote">> /\ event.at # listenfd
    BY <1>1, ProxyAssumption
  <2>2. batch[1] = event /\ 1 \in DOMAIN batch
    BY <1>1, Tails DEF IInv, TypeOK
  <2>3. ConnectEnded(c)
    BY <2>1, <2>2 DEF IInv, EventsInv
  <2> QED
    BY <1>6, <2>3 DEF ConnectEnded
<1>8. strayed \subseteq strayed' /\ strayed' \subseteq Clients
  BY <1>1 DEF IInv, TypeOK
<1>9. \A x \in Side : Open(tunnel[c], x) => address[c][x] \in Addresses
  BY <1>4 DEF ClientInv
<1> QED
  BY <1>1, <1>3, <1>4, <1>5, <1>6, <1>7, <1>8, <1>9 DEF ClientInv

\* The message that is read is the only one that waits.
LEMMA ReceivedSound ==
    ASSUME NEW c \in Clients, net[c] \in NetT, net[c].nread < 2,
           Sound(tunnel[c], net[c].told), Quiet(tunnel[c])
    PROVE  /\ Sound(Received(c), net[c].told) /\ Received(c).state = tunnel[c].state
           /\ Received(c).sock = tunnel[c].sock
           /\ Message(c) \in Tokens /\ Received(c).rbuf["client"] = <<Message(c)>>
<1> DEFINE t == tunnel[c]
           rbuf == [t.rbuf EXCEPT !["client"] = Append(@, Message(c))]
           u == Received(c)
<1>1. t \in TunnelT(Tokens)
  BY DEF Sound
<1>2. Message(c) \in Tokens
  BY DEF NetT, Message, Tokens
<1>3. "client" \in Side /\ "remote" \in Side
  BY DEF Side
<1>4. Append(t.rbuf["client"], Message(c)) = <<Message(c)>>
  BY DEF Quiet
<1>5. <<Message(c)>> \in Seq(Tokens)
  BY <1>2
<1>6. /\ rbuf \in [Side -> Seq(Tokens)] /\ rbuf["client"] = <<Message(c)>>
      /\ rbuf["remote"] = t.rbuf["remote"]
  BY <1>1, <1>3, <1>4, <1>5, TunnelParts
<1>7. u = [t EXCEPT !.rbuf = rbuf]
  BY <1>1 DEF Received, TunnelT
<1> HIDE DEF u, rbuf
<1>8. /\ u \in TunnelT(Tokens) /\ u.state = t.state /\ u.sock = t.sock
      /\ u.wbuf = t.wbuf /\ u.rbuf = rbuf
  BY <1>1, <1>6, <1>7 DEF TunnelT
<1>9. Sound(u, net[c].told)
  BY <1>6, <1>8 DEF Sound, Open
<1> QED
  BY <1>2, <1>6, <1>8, <1>9 DEF u

LEMMA DispatchReadStep ==
    ASSUME IInv, NEW c \in Clients, NEW s \in Side, DispatchRead(c, s)
    PROVE  IInv'
<1> DEFINE k == net[c].told
<1>1. /\ Dispatching(c, s, "read") /\ UNCHANGED <<limit, backlog, resolving>>
  BY DEF DispatchRead
<1>2. ClientInv(c) /\ net[c] \in NetT /\ k \in Nat /\ SoError(c) \in BOOLEAN
  BY DEF IInv, TypeOK, NetT, SoError
<1>3. CASE /\ Unread(c, s) > 0
           /\ tunnel[c].state # "request_state"
           /\ Returns(c, ReadHandle(Received(c), s, "pending", SoError(c), FALSE),
                      address[c], [net[c] EXCEPT !.nread = @ + 1])
  <2> DEFINE r == ReadHandle(Received(c), s, "pending", SoError(c), FALSE)
             n == [net[c] EXCEPT !.nread = @ + 1]
  <2>1. s = "client" /\ net[c].nread < 2
    BY <1>2, <1>3 DEF Unread, NetT
  <2>2. tunnel[c].state = "open_state" /\ net[c].nread = 0
    BY <1>1, <1>2, <1>3, <2>1, Dispatched, TunnelParts
       DEF MessagesRead, TunnelState, Sound
  <2>3. /\ Sound(Received(c), k) /\ Received(c).state = "open_state"
        /\ Received(c).sock = tunnel[c].sock
        /\ Received(c).rbuf["client"] = <<Message(c)>>
    BY <1>1, <1>2, <2>1, <2>2, Dispatched, ReceivedSound
  <2>4. Open(Received(c), "client")
    BY <1>1, <2>1, <2>3, Dispatched DEF Open
  <2>5. Handled(r, Received(c), k) /\ r.t.state = "request_state"
    BY <1>2, <2>1, <2>3, <2>4, ReadGreetingSound
  <2>6. n \in NetT /\ n.told = k /\ n.nread = 1 /\ n.conn = net[c].conn
    BY <1>2, <2>2 DEF NetT
  <2>7. n.conn = "none"
    BY <1>2, <2>2, <2>6 DEF ClientInv
  <2>8. \A x \in Side : Open(r.t, x) => address[c][x] \in Addresses
    BY <1>1, <2>3, <2>5, Dispatched DEF Handled, Within, Open
  <2>9. Returns(c, r, address[c], n)
    BY <1>3
  <2> HIDE DEF r, n
  <2> QED
    BY <1>1, <2>5, <2>6, <2>7, <2>8, <2>9, Dispatched, Returned DEF Handled, MessagesRead
<1>4. CASE /\ Unread(c, s) = 0
           /\ Returns(c, ReadHandle(tunnel[c], s, "pending", SoError(c), FALSE),
                      address[c], net[c])
  <2> DEFINE r == ReadHandle(tunnel[c], s, "pending", SoError(c), FALSE)
  <2>1. Handled(r, tunnel[c], k) /\ Proceeds(tunnel[c], r.t, s, SoError(c))
    BY <1>1, <1>2, Dispatched, ReadNothingSound
  <2> HIDE DEF r
  <2>2. net[c].nread = MessagesRead(r.t.state)
    BY <1>1, <2>1, Dispatched DEF MessagesRead, Proceeds
  <2>3. r.t.state \in {"open_state", "request_state"} => net[c].conn = "none"
    BY <1>2, <2>1 DEF ClientInv, Proceeds
  <2>4. r.t.state = "connected_state" /\ c \notin strayed' => net[c].conn = "up"
    BY <1>1, <1>2, <2>1, Dispatched DEF ClientInv, SoError, Proceeds
  <2>5. \A x \in Side : Open(r.t, x) => address[c][x] \in Addresses
    BY <1>1, <2>1, Dispatched DEF Handled, Within
  <2>6. Returns(c, r, address[c], net[c])
    BY <1>4 DEF r
  <2> QED
    BY <1>1, <1>2, <2>1, <2>2, <2>3, <2>4, <2>5, <2>6, Dispatched, Returned DEF Handled
<1>5. CASE /\ Unread(c, s) = 0
           /\ Returns(c, Ok(SockShutdown(tunnel[c], s)), address[c], net[c])
  <2> DEFINE u == SockShutdown(tunnel[c], s)
  <2>1. /\ Sound(u, k) /\ Quiet(u) /\ Within(u, tunnel[c]) /\ u.state = tunnel[c].state
    BY <1>1, <1>2, Dispatched, SockShutdownSound
  <2> HIDE DEF u
  <2>2. Ok(u).t = u /\ Ok(u).bad \in Bad
    BY DEF Ok, Bad
  <2>3. net[c].nread = MessagesRead(u.state)
    BY <1>1, <2>1, Dispatched
  <2>4. /\ u.state \in {"open_state", "request_state"} => net[c].conn = "none"
        /\ u.state = "connected_state" /\ c \notin strayed' => net[c].conn = "up"
    BY <1>1, <1>2, <2>1, Dispatched DEF ClientInv
  <2>5. \A x \in Side : Open(u, x) => address[c][x] \in Addresses
    BY <1>1, <2>1, Dispatched DEF Within
  <2>6. Returns(c, Ok(u), address[c], net[c])
    BY <1>5 DEF u
  <2> QED
    BY <1>1, <1>2, <2>1, <2>2, <2>3, <2>4, <2>5, <2>6, Dispatched, Returned
<1> QED
  BY <1>3, <1>4, <1>5 DEF DispatchRead

\* Emptying a write_buffer hands its replies to the client.
LEMMA WrittenSound ==
    ASSUME NEW t, NEW k \in Nat, Sound(t, k), Quiet(t), NEW s \in Side
    PROVE  LET u == [t EXCEPT !.wbuf[s] = <<>>]
               n == k + Len(t.wbuf[s])
           IN  /\ Sound(u, n) /\ Quiet(u) /\ u.state = t.state /\ u.sock = t.sock
               /\ n \in 0 .. 2
<1> DEFINE wbuf == [t.wbuf EXCEPT ![s] = <<>>]
           u == [t EXCEPT !.wbuf[s] = <<>>]
           n == k + Len(t.wbuf[s])
<1>1. t \in TunnelT(Tokens)
  BY DEF Sound
<1>2. "client" \in Side /\ "remote" \in Side /\ t.wbuf["client"] \in Seq(Tokens)
  BY <1>1, TunnelParts DEF Side
<1>3. /\ wbuf \in [Side -> Seq(Tokens)]
      /\ wbuf["client"] = IF s = "client" THEN <<>> ELSE t.wbuf["client"]
      /\ wbuf["remote"] = <<>>
  <2>1. wbuf \in [Side -> Seq(Tokens)]
    BY <1>1, TunnelParts
  <2> QED
    BY <1>1, <1>2, <2>1, TunnelParts DEF Sound
<1>4. u = [t EXCEPT !.wbuf = wbuf]
  BY <1>1 DEF TunnelT
<1> HIDE DEF u, wbuf
<1>5. /\ u \in TunnelT(Tokens) /\ u.state = t.state /\ u.sock = t.sock
      /\ u.rbuf = t.rbuf /\ u.wbuf = wbuf
  BY <1>1, <1>3, <1>4 DEF TunnelT
<1>6. Len(<<>>) = 0 /\ Len(t.wbuf["client"]) \in Nat /\ Replies(t.state) \in 0 .. 2
  BY <1>2 DEF Replies
<1>7. n \in 0 .. 2 /\ n + Len(u.wbuf["client"]) <= Replies(u.state)
  BY <1>3, <1>5, <1>6 DEF Sound, Side
<1> HIDE DEF n
<1>8. Sound(u, n) /\ Quiet(u)
  BY <1>3, <1>5, <1>7 DEF Sound, Quiet, Open
<1> QED
  BY <1>5, <1>7, <1>8 DEF u, n

LEMMA DispatchWriteStep ==
    ASSUME IInv, NEW c \in Clients, NEW s \in Side, DispatchWrite(c, s)
    PROVE  IInv'
<1> DEFINE k == net[c].told
           t == tunnel[c]
<1>1. /\ Dispatching(c, s, "write") /\ UNCHANGED <<limit, backlog, resolving>>
  BY DEF DispatchWrite
<1>2. ClientInv(c) /\ net[c] \in NetT /\ k \in Nat /\ SoError(c) \in BOOLEAN
  BY DEF IInv, TypeOK, NetT, SoError
<1>3. ASSUME NEW u, NEW n \in NetT, u.state = t.state, u.sock = t.sock,
             Sound(u, n.told), Quiet(u), n.nread = net[c].nread, n.conn = net[c].conn,
             Returns(c, WriteHandle(u, s, SoError(c)), address[c], n)
      PROVE  IInv'
  <2> DEFINE r == WriteHandle(u, s, SoError(c))
  <2>1. Open(u, s) /\ n.told \in Nat
    BY <1>1, <1>3, Dispatched DEF Open, NetT
  <2>2. Handled(r, u, n.told) /\ Proceeds(u, r.t, s, SoError(c))
    BY <1>2, <1>3, <2>1, WriteHandleSound
  <2> HIDE DEF r
  <2>3. n.nread = MessagesRead(r.t.state)
    BY <1>1, <1>3, <2>2, Dispatched DEF MessagesRead, Proceeds
  <2>4. r.t.state \in {"open_state", "request_state"} => n.conn = "none"
    BY <1>2, <1>3, <2>2 DEF ClientInv, Proceeds
  <2>5. r.t.state = "connected_state" /\ c \notin strayed' => n.conn = "up"
    BY <1>1, <1>2, <1>3, <2>2, Dispatched DEF ClientInv, SoError, Proceeds
  <2>6. \A x \in Side : Open(r.t, x) => address[c][x] \in Addresses
    BY <1>1, <1>3, <2>2, Dispatched DEF Handled, Within, Open
  <2>7. Returns(c, r, address[c], n)
    BY <1>3 DEF r
  <2> QED
    BY <1>1, <1>3, <2>2, <2>3, <2>4, <2>5, <2>6, <2>7, Dispatched, Returned DEF Handled
<1>4. CASE Returns(c, WriteHandle([t EXCEPT !.wbuf[s] = <<>>], s, SoError(c)),
                   address[c], [net[c] EXCEPT !.told = @ + Len(t.wbuf[s])])
  <2> DEFINE u == [t EXCEPT !.wbuf[s] = <<>>]
             m == k + Len(t.wbuf[s])
             n == [net[c] EXCEPT !.told = @ + Len(t.wbuf[s])]
  <2>1. /\ Sound(u, m) /\ Quiet(u) /\ u.state = t.state /\ u.sock = t.sock
        /\ m \in 0 .. 2
    BY <1>1, <1>2, Dispatched, WrittenSound
  <2>2. n = [net[c] EXCEPT !.told = m]
    BY <1>2 DEF NetT
  <2>3. Returns(c, WriteHandle(u, s, SoError(c)), address[c], n)
    BY <1>4
  <2> HIDE DEF u, m, n
  <2>4. n \in NetT /\ n.told = m /\ n.nread = net[c].nread /\ n.conn = net[c].conn
    BY <1>2, <2>1, <2>2 DEF NetT
  <2> QED
    BY <1>3, <2>1, <2>3, <2>4
<1>5. CASE Returns(c, Ok(SockRelease(t, s)), address[c], net[c])
  <2> DEFINE u == SockRelease(t, s)
  <2>1. /\ Sound(u, k) /\ Quiet(u) /\ Within(u, t) /\ u.state = t.state
    BY <1>1, <1>2, Dispatched, SockReleaseSound
  <2> HIDE DEF u
  <2>2. Ok(u).t = u /\ Ok(u).bad \in Bad
    BY DEF Ok, Bad
  <2>3. net[c].nread = MessagesRead(u.state)
    BY <1>1, <2>1, Dispatched
  <2>4. /\ u.state \in {"open_state", "request_state"} => net[c].conn = "none"
        /\ u.state = "connected_state" /\ c \notin strayed' => net[c].conn = "up"
    BY <1>1, <1>2, <2>1, Dispatched DEF ClientInv
  <2>5. \A x \in Side : Open(u, x) => address[c][x] \in Addresses
    BY <1>1, <2>1, Dispatched DEF Within
  <2>6. Returns(c, Ok(u), address[c], net[c])
    BY <1>5 DEF u
  <2> QED
    BY <1>1, <1>2, <2>1, <2>2, <2>3, <2>4, <2>5, <2>6, Dispatched, Returned
<1>6. CASE Returns(c, WriteHandle(t, s, SoError(c)), address[c], net[c])
  BY <1>1, <1>2, <1>3, <1>6, Dispatched
<1> QED
  BY <1>4, <1>5, <1>6 DEF DispatchWrite

\* The events and the queue after a step of one client that takes no event.
LEMMA NothingTaken ==
    ASSUME IInv, UNCHANGED <<stage, backlog, batch>>,
           \A c \in Clients : net[c].conn \in {"up", "refused"} => net'[c].conn = net[c].conn
    PROVE  EventsInv' /\ BacklogInv'
  BY EventsKept DEF IInv, ConnectEnded

LEMMA DispatchRequestStep ==
    ASSUME IInv, NEW c \in Clients, DispatchRequest(c)
    PROVE  IInv'
<1> DEFINE t == tunnel[c]
           n == [net[c] EXCEPT !.nread = @ + 1]
<1>1. /\ Dispatching(c, "client", "read") /\ t.state = "request_state"
      /\ resolving' = c
      /\ UNCHANGED <<limit, stage, backlog, address, fate>>
      /\ net' = [net EXCEPT ![c] = n]
      /\ tunnel' = [tunnel EXCEPT ![c] = Received(c)]
  BY DEF DispatchRequest, IInv, TypeOK
<1>2. ClientInv(c) /\ net[c] \in NetT
  BY DEF IInv, TypeOK
<1>3. /\ Open(t, "client") /\ net[c].nread = 1 /\ resolving = Nobody
      /\ Sound(t, net[c].told) /\ Quiet(t)
      /\ strayed \subseteq strayed' /\ strayed' \subseteq Clients
      /\ batch # <<>> /\ batch' = Tail(batch)
  BY <1>1, Dispatched DEF Side, MessagesRead
<1>4. n \in NetT /\ n.told = net[c].told /\ n.nread = 2 /\ n.conn = net[c].conn
  BY <1>2, <1>3 DEF NetT
<1>5. /\ Sound(Received(c), net[c].told) /\ Received(c).state = t.state
      /\ Received(c).sock = t.sock
      /\ Message(c) \in Tokens /\ Received(c).rbuf["client"] = <<Message(c)>>
  BY <1>2, <1>3, ReceivedSound
<1> HIDE DEF n
<1>6. /\ tunnel'[c] = Received(c) /\ net'[c] = n
      /\ \A x \in Clients \ {c} : tunnel'[x] = tunnel[x] /\ net'[x] = net[x]
  BY <1>1 DEF IInv, TypeOK
<1>7. TypeOK'
  <2>1. batch' \in Seq(Event)
    <3>1. batch \in Seq(Event)
      BY DEF IInv, TypeOK, Event
    <3> QED
      BY <1>3, <3>1, Tails
  <2>2. tunnel' \in [Clients -> TunnelT(Tokens)] /\ net' \in [Clients -> NetT]
    BY <1>1, <1>4, <1>5 DEF IInv, TypeOK, Sound
  <2> QED
    BY <1>1, <1>3, <2>1, <2>2 DEF IInv, TypeOK, Event
<1>8. ClientInv(c)'
  <2>1. Open(tunnel'[c], "client") /\ \A x \in Side : Open(tunnel'[c], x) <=> Open(t, x)
    BY <1>3, <1>5, <1>6 DEF Open
  <2>2. c \notin strayed' => c \notin strayed
    BY <1>3
  <2>3. stage'[c] = "accepted" /\ address'[c] = address[c]
    BY <1>1, Dispatched DEF Side
  <2> QED
    BY <1>1, <1>2, <1>4, <1>5, <1>6, <2>1, <2>2, <2>3 DEF ClientInv
<1>9. ASSUME NEW x \in Clients, x # c PROVE ClientInv(x)'
  <2>1. resolving' = x <=> resolving = x
    BY <1>1, <1>3, <1>9, ProxyAssumption
  <2> QED
    BY <1>1, <1>3, <1>6, <1>9, <2>1, OtherClient DEF IInv
<1>10. EventsInv' /\ BacklogInv'
  <2>1. \A x \in Clients : ConnectEnded(x) => ConnectEnded(x)'
    BY <1>1, <1>4, <1>6 DEF ConnectEnded
  <2> QED
    BY <1>1, <1>3, <2>1, EventsKept DEF IInv
<1> QED
  BY <1>7, <1>8, <1>9, <1>10 DEF IInv

LEMMA ResolverStep ==
    ASSUME IInv, NEW c \in Clients, ResolverAnswers(c)
    PROVE  IInv'
<1> DEFINE t == tunnel[c]
           k == net[c].told
<1>1. /\ resolving = c /\ resolving' = Nobody
      /\ UNCHANGED <<limit, backlog, batch, strayed>>
  BY DEF ResolverAnswers
<1>2. ClientInv(c) /\ net[c] \in NetT /\ k \in Nat /\ strayed \subseteq Clients
  BY DEF IInv, TypeOK, NetT
<1>3. /\ Sound(t, k) /\ t.state = "request_state" /\ Open(t, "client")
      /\ net[c].nread = 2 /\ net[c].conn = "none" /\ stage[c] = "accepted"
      /\ address[c]["client"] \in Addresses
  BY <1>1, <1>2, NoTunnelSound DEF ClientInv, Side
<1>4. PICK m \in Tokens : t.rbuf["client"] = <<m>>
  BY <1>1, <1>2 DEF ClientInv
<1>5. CASE Returns(c, ReadHandle(t, "client", "failed", FALSE, FALSE), address[c], net[c])
  <2> DEFINE r == ReadHandle(t, "client", "failed", FALSE, FALSE)
  <2>1. Sound(r.t, k) /\ Quiet(r.t) /\ r.bad \in Bad /\ Freed(r.t)
    BY <1>2, <1>3, <1>4, RequestSound
  <2>2. Returns(c, r, address[c], net[c])
    BY <1>5
  <2> HIDE DEF r
  <2>3. \A x \in Side : ~Open(r.t, x)
    BY <2>1 DEF Freed, Side
  <2> QED
    BY <1>1, <1>2, <1>3, <2>1, <2>2, <2>3, Returned
<1>6. ASSUME NEW outcome \in {"pending", "up"}, NEW a \in Addresses,
             Returns(c, ReadHandle(t, "client", outcome, FALSE, FALSE),
                     [address[c] EXCEPT !["remote"] = a],
                     [net[c] EXCEPT !.conn = outcome])
      PROVE  IInv'
  <2> DEFINE r == ReadHandle(t, "client", outcome, FALSE, FALSE)
             place == [address[c] EXCEPT !["remote"] = a]
             n == [net[c] EXCEPT !.conn = outcome]
  <2>1. /\ Sound(r.t, k) /\ Quiet(r.t) /\ r.bad \in Bad
        /\ outcome = "pending" => r.t.state = "connecting_state"
        /\ outcome = "up" => r.t.state = "connected_state"
    BY <1>2, <1>3, <1>4, RequestSound, ZenonT(60)
  <2>2. n \in NetT /\ n.told = k /\ n.nread = 2 /\ n.conn = outcome
    BY <1>2, <1>3 DEF NetT
  <2>3. \A x \in Side : place[x] \in Addresses
    BY <1>3 DEF IInv, TypeOK, Side
  <2>4. Returns(c, r, place, n)
    BY <1>6
  <2> HIDE DEF r, place, n
  <2>5. /\ n.nread = MessagesRead(r.t.state)
        /\ r.t.state \notin {"open_state", "request_state"}
        /\ r.t.state = "connected_state" => n.conn = "up"
    BY <2>1, <2>2 DEF MessagesRead
  <2> QED
    BY <1>1, <1>2, <1>3, <2>1, <2>2, <2>3, <2>4, <2>5, Returned
<1> QED
  BY <1>5, <1>6 DEF ResolverAnswers, FreeAddresses

LEMMA AcceptStep ==
    ASSUME IInv, Accept
    PROVE  IInv'
<1>1. /\ batch # <<>> /\ Head(batch).at = listenfd /\ batch' = Tail(batch)
      /\ backlog' = Tail(backlog) /\ resolving = Nobody
      /\ UNCHANGED <<limit, resolving, strayed, fate>>
  BY DEF Accept, Listening, Idle
<1>2. batch[1] = Head(batch) /\ 1 \in DOMAIN batch
  BY <1>1, Tails DEF IInv, TypeOK
<1>3. backlog # <<>> /\ \A j \in DOMAIN batch : batch[j].at = listenfd => 1 = j
  BY <1>1, <1>2 DEF IInv, EventsInv
<1>c. PICK c \in Clients : c = Head(backlog)
  BY <1>3, Tails DEF IInv, TypeOK
<1>4. /\ backlog' \in Seq(Clients) /\ c = backlog[1] /\ 1 \in DOMAIN backlog
      /\ \A i \in DOMAIN backlog' : i + 1 \in DOMAIN backlog /\ backlog'[i] = backlog[i + 1]
  BY <1>1, <1>3, <1>c, Tails DEF IInv, TypeOK
<1>5. stage[c] = "queued"
  BY <1>4 DEF IInv, BacklogInv
<1>6. /\ ClientInv(c) /\ tunnel[c] = NoTunnel /\ net[c] \in NetT /\ resolving # c
  BY <1>1, <1>4, <1>5, ProxyAssumption DEF IInv, TypeOK, ClientInv
<1>7. /\ net[c].told = 0 /\ net[c].nread = 0 /\ net[c].conn = "none"
      /\ \A s \in Side : address[c][s] = Nobody
  <2>1. Replies("open_state") = 0 /\ MessagesRead("open_state") = 0
    BY DEF Replies, MessagesRead
  <2>2. net[c].told \in Nat /\ Len(NoTunnel.wbuf["client"]) \in Nat
    BY <1>6, NoTunnelSound, TunnelParts DEF NetT, Sound, Side
  <2>3. net[c].told + Len(NoTunnel.wbuf["client"]) <= 0
    BY <1>6, <2>1, NoTunnelSound DEF ClientInv, Sound
  <2>4. net[c].nread = 0 /\ net[c].conn = "none" /\ \A s \in Side : address[c][s] = Nobody
    BY <1>6, <2>1, NoTunnelSound DEF ClientInv
  <2> QED
    BY <2>2, <2>3, <2>4
<1>8. BacklogInv' /\ EventsInv'
      /\ \A x \in Clients \ {c} : /\ stage'[x] = stage[x] /\ tunnel'[x] = tunnel[x]
                                  /\ address'[x] = address[x] /\ net'[x] = net[x]
  <2>1. \A x \in Clients \ {c} : /\ stage'[x] = stage[x] /\ tunnel'[x] = tunnel[x]
                                 /\ address'[x] = address[x] /\ net'[x] = net[x]
    BY <1>c DEF Accept, IInv, TypeOK
  <2>2. DOMAIN backlog' \subseteq Nat /\ DOMAIN batch' \subseteq Nat
    <3>1. batch' \in Seq(Event)
      BY <1>1, Tails DEF IInv, TypeOK, Event
    <3> QED
      BY <1>4, <3>1
  <2>3. \A i \in DOMAIN backlog' : backlog'[i] # c /\ backlog'[i] \in Clients
    <3> SUFFICES ASSUME NEW i \in DOMAIN backlog'
                 PROVE  backlog'[i] # c /\ backlog'[i] \in Clients
      OBVIOUS
    <3>1. i + 1 # 1 /\ backlog'[i] \in Clients
      BY <1>4, <2>2
    <3> QED
      BY <1>4, <3>1 DEF IInv, BacklogInv
  <2>4. \A i \in DOMAIN backlog' : stage'[backlog'[i]] = "queued"
    BY <1>4, <2>1, <2>3 DEF IInv, BacklogInv
  <2>5. ASSUME NEW i \in DOMAIN backlog', NEW j \in DOMAIN backlog', backlog'[i] = backlog'[j]
        PROVE  i = j
    <3>1. i + 1 = j + 1
      BY <1>4, <2>5 DEF IInv, BacklogInv
    <3> QED
      BY <2>2, <3>1
  <2>6. \A i \in DOMAIN batch' : /\ i + 1 \in DOMAIN batch /\ batch'[i] = batch[i + 1]
                                 /\ i + 1 # 1
    BY <1>1, <2>2, Tails DEF IInv, TypeOK
  <2>7. \A i \in DOMAIN batch' : batch'[i].at # listenfd
    BY <1>3, <2>6
  <2>8. \A x \in Clients : ConnectEnded(x) => ConnectEnded(x)'
    BY <1>5, <1>7, <2>1 DEF ConnectEnded
  <2>9. EventsInv'
    BY <2>6, <2>7, <2>8 DEF IInv, EventsInv
  <2> QED
    BY <2>1, <2>4, <2>5, <2>9 DEF BacklogInv
<1>9. ASSUME NEW x \in Clients, x # c PROVE ClientInv(x)'
  BY <1>1, <1>8, <1>9, OtherClient DEF IInv
<1>10. batch' \in Seq(Event)
  BY <1>1, Tails DEF IInv, TypeOK, Event
<1>11. CASE /\ stage' = [stage EXCEPT ![c] = "accepted"]
            /\ tunnel' = [tunnel EXCEPT ![c] = Created(4)]
            /\ \E a \in FreeAddresses : address' = [address EXCEPT ![c]["client"] = a]
            /\ UNCHANGED net
  <2>1. PICK a \in Addresses : address' = [address EXCEPT ![c]["client"] = a]
    BY <1>11 DEF FreeAddresses
  <2>2. /\ tunnel'[c] = Created(4) /\ stage'[c] = "accepted"
        /\ address'[c]["client"] = a /\ address'[c]["remote"] = Nobody
    BY <1>4, <1>7, <1>11, <2>1 DEF IInv, TypeOK, Side
  <2>3. ClientInv(c)'
    BY <1>1, <1>6, <1>7, <1>11, <2>2, CreatedSound DEF ClientInv, MessagesRead, Side
  <2>4. TypeOK'
    <3>1. tunnel' \in [Clients -> TunnelT(Tokens)]
      BY <1>11, CreatedSound DEF IInv, TypeOK, Sound
    <3>2. address' \in [Clients -> [Side -> Addresses \cup {Nobody}]]
      BY <1>4, <2>1 DEF IInv, TypeOK, Side
    <3> QED
      BY <1>1, <1>4, <1>10, <1>11, <3>1, <3>2 DEF IInv, TypeOK, Event
  <2> QED
    BY <1>8, <1>9, <2>3, <2>4 DEF IInv
<1>12. CASE /\ stage' = [stage EXCEPT ![c] = "gone"]
            /\ net' = [net EXCEPT ![c] = Unconnected]
            /\ UNCHANGED <<tunnel, address>>
  <2>1. Unconnected \in NetT
    BY DEF Unconnected, NetT
  <2>2. stage'[c] = "gone" /\ net'[c] = Unconnected
    BY <1>4, <1>12 DEF IInv, TypeOK
  <2>3. ClientInv(c)'
    BY <1>1, <1>6, <1>7, <1>12, <2>2, NoTunnelSound DEF ClientInv, Unconnected, MessagesRead
  <2>4. TypeOK'
    BY <1>1, <1>4, <1>10, <1>12, <2>1 DEF IInv, TypeOK, Event
  <2> QED
    BY <1>8, <1>9, <2>3, <2>4 DEF IInv
<1> QED
  BY <1>c, <1>11, <1>12 DEF Accept

\* There are finitely many events.
LEMMA EventsFinite ==
    ASSUME IInv
    PROVE  IsFiniteSet(Events)
<1> DEFINE ready == {l \in Live : CanRead(l[1], l[2]) \/ CanWrite(l[1], l[2])}
           event(k) == [at |-> address[k[1]][k[2]], about |-> k,
                        handler |-> IF CanRead(k[1], k[2]) THEN "read" ELSE "write"]
           own == {event(k) : k \in ready}
           one == [at |-> listenfd, about |-> listenfd, handler |-> "read"]
           listening == {one : i \in {1} \cap DOMAIN backlog}
<1>1. IsFiniteSet(Side)
  <2>1. IsFiniteSet({"client"}) /\ IsFiniteSet({"remote"})
    BY FS_Singleton
  <2>2. Side = {"client"} \cup {"remote"}
    BY DEF Side
  <2> QED
    BY <2>1, <2>2, FS_Union
<1>2. IsFiniteSet(Sockets)
  BY <1>1, FS_Product, ProxyAssumption DEF Sockets
<1>3. IsFiniteSet(ready)
  BY <1>2, FS_Subset DEF Live
<1>4. IsFiniteSet(own)
  <2> DEFINE f == [k \in ready |-> event(k)]
  <2>1. f \in Surjection(ready, own)
    <3> HIDE DEF ready
    <3>1. \A k \in ready : f[k] = event(k)
      OBVIOUS
    <3> HIDE DEF event
    <3> QED
      BY <3>1 DEF Surjection
  <2> HIDE DEF ready, own, f
  <2> QED
    BY <1>3, <2>1, FS_Surjection
<1>5. listening \subseteq {one}
  <2> HIDE DEF one
  <2> QED
    OBVIOUS
<1>6. IsFiniteSet(listening)
  <2>1. IsFiniteSet({one})
    BY FS_Singleton
  <2> HIDE DEF listening, one
  <2> QED
    BY <1>5, <2>1, FS_Subset
<1>7. Events = own \cup listening
  BY Zenon DEF Events
<1> HIDE DEF own, listening
<1> QED
  BY <1>4, <1>6, <1>7, FS_Union

LEMMA EpollWaitStep ==
    ASSUME IInv, EpollWait
    PROVE  IInv'
<1>1. /\ batch' \in SetToSeqs(Events)
      /\ UNCHANGED <<limit, stage, backlog, tunnel, address, net, resolving, strayed, fate>>
  BY DEF EpollWait
<1>2. /\ batch' \in Seq(Events)
      /\ \A i, j \in DOMAIN batch' : batch'[i] = batch'[j] => i = j
  BY <1>1, EventsFinite, OrdersAreSequences
<1>3. ASSUME NEW e \in Events
      PROVE  /\ e \in Event
             /\ e.at = listenfd => /\ e = [at |-> listenfd, about |-> listenfd, handler |-> "read"]
                                   /\ backlog # <<>>
             /\ e.at # listenfd => \A c \in Clients : e.about = <<c, "remote">> => ConnectEnded(c)
  <2>1. CASE e \in {[at |-> listenfd, about |-> listenfd, handler |-> "read"] :
                       i \in {1} \cap DOMAIN backlog}
    <3>1. e = [at |-> listenfd, about |-> listenfd, handler |-> "read"] /\ backlog # <<>>
      BY <2>1
    <3> QED
      BY <3>1 DEF Event
  <2>2. CASE \E k \in Live : /\ CanRead(k[1], k[2]) \/ CanWrite(k[1], k[2])
                             /\ e = [at |-> address[k[1]][k[2]], about |-> k,
                                     handler |-> IF CanRead(k[1], k[2]) THEN "read" ELSE "write"]
    <3>1. PICK c \in Clients, s \in Side :
              /\ Open(tunnel[c], s)
              /\ CanRead(c, s) \/ CanWrite(c, s)
              /\ e = [at |-> address[c][s], about |-> <<c, s>>,
                      handler |-> IF CanRead(c, s) THEN "read" ELSE "write"]
      BY <2>2 DEF Live, Sockets
    <3>2. address[c][s] \in Addresses /\ address[c][s] # listenfd
      <4>1. ClientInv(c)
        BY DEF IInv
      <4> QED
        BY <3>1, <4>1, ProxyAssumption DEF ClientInv
    <3>3. e \in Event
      BY <3>1, <3>2 DEF Event, Sockets
    <3>4. s = "remote" => ConnectEnded(c)
      BY <3>1 DEF CanRead, CanWrite, Connected, ConnectEnded
    <3> QED
      BY <3>1, <3>2, <3>3, <3>4
  <2> QED
    BY <2>1, <2>2 DEF Events
<1>4. batch' \in Seq(Event)
  <2>1. Events \subseteq Event
    BY <1>3
  <2> QED
    BY <1>2, <2>1
<1>5. TypeOK'
  BY <1>1, <1>4 DEF IInv, TypeOK, Event
<1>6. \A i \in DOMAIN batch' : batch'[i] \in Events
  BY <1>2
<1>7. EventsInv'
  <2> SUFFICES ASSUME NEW i \in DOMAIN batch'
               PROVE  IF batch'[i].at = listenfd
                      THEN /\ backlog' # <<>>
                           /\ \A j \in DOMAIN batch' : batch'[j].at = listenfd => i = j
                      ELSE \A c \in Clients :
                              batch'[i].about = <<c, "remote">> => ConnectEnded(c)'
    BY DEF EventsInv
  <2>1. ASSUME batch'[i].at = listenfd, NEW j \in DOMAIN batch', batch'[j].at = listenfd
        PROVE  i = j
    <3>1. batch'[i] = batch'[j]
      BY <1>3, <1>6, <2>1
    <3> QED
      BY <1>2, <3>1
  <2>2. batch'[i].at = listenfd => backlog' # <<>>
    BY <1>1, <1>3, <1>6
  <2>3. batch'[i].at # listenfd =>
            \A c \in Clients : batch'[i].about = <<c, "remote">> => ConnectEnded(c)'
    BY <1>1, <1>3, <1>6 DEF ConnectEnded
  <2> QED
    BY <2>1, <2>2, <2>3
<1>8. \A c \in Clients : ClientInv(c)'
  BY <1>1, OtherClient DEF IInv
<1>9. BacklogInv'
  BY <1>1 DEF IInv, BacklogInv
<1> QED
  BY <1>5, <1>7, <1>8, <1>9 DEF IInv

LEMMA AcceptFailsStep ==
    ASSUME IInv, AcceptFails
    PROVE  IInv'
<1>1. /\ batch # <<>> /\ batch' = Tail(batch)
      /\ UNCHANGED <<limit, stage, backlog, tunnel, address, net, resolving, strayed, fate>>
  BY DEF AcceptFails, Listening
<1>2. TypeOK'
  BY <1>1, Tails DEF IInv, TypeOK, Event
<1>3. EventsInv' /\ BacklogInv'
  <2>1. \A c \in Clients : ConnectEnded(c) => ConnectEnded(c)'
    BY <1>1 DEF ConnectEnded
  <2> QED
    BY <1>1, <2>1, EventsKept DEF IInv
<1>4. \A c \in Clients : ClientInv(c)'
  BY <1>1, OtherClient DEF IInv
<1> QED
  BY <1>2, <1>3, <1>4 DEF IInv

LEMMA DispatchDanglingStep ==
    ASSUME IInv, DispatchDangling
    PROVE  IInv'
<1>1. /\ batch # <<>> /\ batch' = Tail(batch) /\ fate' = "dangling"
      /\ UNCHANGED <<limit, stage, backlog, tunnel, address, net, resolving, strayed>>
  BY DEF DispatchDangling
<1>2. TypeOK'
  BY <1>1, Tails DEF IInv, TypeOK, Event
<1>3. EventsInv' /\ BacklogInv'
  <2>1. \A c \in Clients : ConnectEnded(c) => ConnectEnded(c)'
    BY <1>1 DEF ConnectEnded
  <2> QED
    BY <1>1, <2>1, EventsKept DEF IInv
<1>4. \A c \in Clients : ClientInv(c)'
  BY <1>1, OtherClient DEF IInv
<1> QED
  BY <1>2, <1>3, <1>4 DEF IInv

LEMMA ClientConnectsStep ==
    ASSUME IInv, NEW c \in Clients, ClientConnects(c)
    PROVE  IInv'
<1>1. /\ stage[c] = "away" /\ stage' = [stage EXCEPT ![c] = "queued"]
      /\ backlog' = Append(backlog, c) /\ backlog \in Seq(Clients)
      /\ UNCHANGED <<limit, tunnel, address, net, batch, resolving, strayed, fate>>
  BY DEF ClientConnects, IInv, TypeOK
<1>2. stage'[c] = "queued" /\ \A x \in Clients \ {c} : stage'[x] = stage[x]
  BY <1>1 DEF IInv, TypeOK
<1>3. /\ backlog' \in Seq(Clients) /\ backlog' # <<>>
      /\ \A i \in DOMAIN backlog' : \/ i \in DOMAIN backlog /\ backlog'[i] = backlog[i]
                                    \/ i = Len(backlog) + 1 /\ backlog'[i] = c
  BY <1>1
<1>4. \A i \in DOMAIN backlog : backlog[i] # c /\ backlog[i] \in Clients
  BY <1>1 DEF IInv, BacklogInv
<1>5. TypeOK'
  BY <1>1, <1>3 DEF IInv, TypeOK
<1>6. BacklogInv'
  <2>1. \A i \in DOMAIN backlog' : stage'[backlog'[i]] = "queued"
    BY <1>2, <1>3, <1>4 DEF IInv, BacklogInv
  <2>2. \A i, j \in DOMAIN backlog' : backlog'[i] = backlog'[j] => i = j
    BY <1>3, <1>4 DEF IInv, BacklogInv
  <2> QED
    BY <2>1, <2>2 DEF BacklogInv
<1>7. EventsInv'
  <2>1. \A x \in Clients : ConnectEnded(x) => ConnectEnded(x)'
    BY <1>1, <1>2 DEF ConnectEnded
  <2> QED
    BY <1>1, <1>3, <2>1 DEF IInv, EventsInv
<1>8. ClientInv(c)'
  BY <1>1, <1>2 DEF IInv, ClientInv
<1>9. ASSUME NEW x \in Clients, x # c PROVE ClientInv(x)'
  BY <1>1, <1>2, <1>9, OtherClient DEF IInv
<1> QED
  BY <1>5, <1>6, <1>7, <1>8, <1>9 DEF IInv

\* The network changes what the proxy has not seen yet of one client: never
\* a connection that has ended, nor one that was not asked for.
LEMMA NetChanges ==
    ASSUME IInv, NEW c \in Clients, NEW n \in NetT, NetStep(c, n),
           n.told = net[c].told, n.nread = net[c].nread,
           \/ n.conn = net[c].conn
           \/ net[c].conn = "pending"
    PROVE  IInv'
<1>1. /\ net' = [net EXCEPT ![c] = n]
      /\ UNCHANGED <<limit, stage, backlog, tunnel, address, batch, resolving, strayed, fate>>
  BY DEF NetStep
<1>2. net'[c] = n /\ \A x \in Clients \ {c} : net'[x] = net[x]
  BY <1>1 DEF IInv, TypeOK
<1>3. TypeOK'
  BY <1>1 DEF IInv, TypeOK
<1>4. EventsInv' /\ BacklogInv'
  BY <1>1, <1>2, NothingTaken
<1>5. ClientInv(c)'
  BY <1>1, <1>2 DEF IInv, ClientInv
<1>6. ASSUME NEW x \in Clients, x # c PROVE ClientInv(x)'
  BY <1>1, <1>2, <1>6, OtherClient DEF IInv
<1> QED
  BY <1>3, <1>4, <1>5, <1>6 DEF IInv

LEMMA NetworkStep ==
    ASSUME IInv, NEW c \in Clients,
           ClientSays(c) \/ (\E s \in Side : PeerEnds(c, s)) \/ ConnectResolves(c)
    PROVE  IInv'
<1>1. net[c] \in NetT
  BY DEF IInv, TypeOK
<1>2. CASE ClientSays(c)
  <2> DEFINE n == [net[c] EXCEPT !.said = @ + 1]
  <2>1. n \in NetT /\ n.told = net[c].told /\ n.nread = net[c].nread /\ n.conn = net[c].conn
    BY <1>1, <1>2 DEF ClientSays, NetT
  <2>2. NetStep(c, n)
    BY <1>2 DEF ClientSays
  <2> HIDE DEF n
  <2> QED
    BY <2>1, <2>2, NetChanges
<1>3. ASSUME NEW s \in Side, NEW how \in {"eof", "reset"},
             NetStep(c, [net[c] EXCEPT !.fin[s] = how])
      PROVE  IInv'
  <2> DEFINE fin == [net[c].fin EXCEPT ![s] = how]
             n == [net[c] EXCEPT !.fin = fin]
  <2>1. fin \in [Side -> {"open", "eof", "reset"}]
    BY <1>1, <1>3 DEF NetT
  <2>2. NetStep(c, n)
    BY <1>1, <1>3 DEF NetT
  <2> HIDE DEF fin
  <2>3. n \in NetT /\ n.told = net[c].told /\ n.nread = net[c].nread /\ n.conn = net[c].conn
    BY <1>1, <2>1 DEF NetT
  <2> HIDE DEF n
  <2> QED
    BY <2>2, <2>3, NetChanges
<1>4. ASSUME ConnectResolves(c), NEW outcome \in {"up", "refused"},
             NetStep(c, [net[c] EXCEPT !.conn = outcome])
      PROVE  IInv'
  <2> DEFINE n == [net[c] EXCEPT !.conn = outcome]
  <2>1. net[c].conn = "pending" /\ NetStep(c, n)
    BY <1>4 DEF ConnectResolves
  <2>2. n \in NetT /\ n.told = net[c].told /\ n.nread = net[c].nread
    BY <1>1 DEF NetT
  <2> HIDE DEF n
  <2> QED
    BY <2>1, <2>2, NetChanges
<1> QED
  BY <1>2, <1>3, <1>4 DEF PeerEnds, ConnectResolves

LEMMA InitInv == Init => IInv
<1> SUFFICES ASSUME Init PROVE IInv
  OBVIOUS
<1>1. Unconnected \in NetT /\ Nowhere \in [Side -> Addresses \cup {Nobody}]
  BY DEF Unconnected, Nowhere, NetT
<1>2. TypeOK
  BY <1>1, NoTunnelSound DEF Init, TypeOK, Sound
<1>3. \A c \in Clients : ClientInv(c)
  BY NoTunnelSound, ProxyAssumption DEF Init, ClientInv, Unconnected, Nowhere, MessagesRead
<1>4. BacklogInv /\ EventsInv
  BY DEF Init, BacklogInv, EventsInv
<1> QED
  BY <1>2, <1>3, <1>4 DEF IInv

LEMMA StepInv == IInv /\ [Next]_vars => IInv'
<1> SUFFICES ASSUME IInv, [Next]_vars PROVE IInv'
  OBVIOUS
<1>1. CASE EpollWait
  BY <1>1, EpollWaitStep
<1>2. CASE AcceptFails \/ Accept \/ DispatchDangling
  BY <1>2, AcceptFailsStep, AcceptStep, DispatchDanglingStep
<1>3. ASSUME NEW c \in Clients, NEW s \in Side, DispatchRead(c, s) \/ DispatchWrite(c, s)
      PROVE  IInv'
  BY <1>3, DispatchReadStep, DispatchWriteStep
<1>4. ASSUME NEW c \in Clients, DispatchRequest(c) \/ ResolverAnswers(c) \/ ClientConnects(c)
      PROVE  IInv'
  BY <1>4, DispatchRequestStep, ResolverStep, ClientConnectsStep
<1>5. ASSUME NEW c \in Clients,
             ClientSays(c) \/ (\E s \in Side : PeerEnds(c, s)) \/ ConnectResolves(c)
      PROVE  IInv'
  BY <1>5, NetworkStep
<1>6. CASE UNCHANGED vars
  <2>1. \A c \in Clients : ClientInv(c)'
    BY <1>6, OtherClient DEF IInv, vars
  <2> QED
    BY <1>6, <2>1 DEF IInv, TypeOK, BacklogInv, EventsInv, ConnectEnded, vars
<1> QED
  BY <1>1, <1>2, <1>3, <1>4, <1>5, <1>6 DEF Next, Dispatch

-----------------------------------------------------------------------------
(* The theorems *)

\* Every variable keeps its type: in particular no handler ever sends a
\* client more than the two replies it waits for, or reads more than its two
\* messages, whatever events stray to its sockets.
THEOREM TypeCorrect == Spec => []TypeOK
<1>1. IInv => TypeOK
  BY DEF IInv
<1> QED
  BY InitInv, StepInv, <1>1, PTL DEF Spec

\* tunnel_notify_connected: whoever waits, hangs up, or has its addresses
\* reused, a client none of whose events strayed has been told of success, or
\* has the reply in its write_buffer, only if its own connect succeeded.
THEOREM SuccessOnlyWhenConnected == Spec => []SuccessMeansConnected
<1>1. ASSUME IInv, NEW c \in Clients, Successful(c), c \notin strayed
      PROVE  net[c].conn = "up"
  <2> DEFINE t == tunnel[c]
  <2>1. ClientInv(c) /\ net[c] \in NetT /\ t \in TunnelT(Tokens)
    BY <1>1 DEF IInv, TypeOK
  <2>2. Sound(t, net[c].told)
    BY <2>1 DEF ClientInv
  <2>3. t.wbuf["client"] \in Seq(Tokens) /\ net[c].told \in Nat
    BY <2>1, TunnelParts DEF NetT, Side
  <2>4. net[c].told = 2 => t.state = "connected_state"
    BY <2>2, <2>3 DEF Sound, Replies
  <2>5. t.state = "connected_state"
    BY <1>1, <2>2, <2>4 DEF Sound, Successful
  <2> QED
    BY <1>1, <2>1, <2>5 DEF ClientInv
<1>2. IInv => SuccessMeansConnected
  BY <1>1 DEF SuccessMeansConnected
<1> QED
  BY InitInv, StepInv, <1>2, PTL DEF Spec
=============================================================================
