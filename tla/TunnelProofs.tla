---------------------------- MODULE TunnelProofs ----------------------------
(***************************************************************************)
(* Proofs about Tunnel.tla, for every payload, every way the two peers     *)
(* behave and every size of the buffers: the safety invariants, what a     *)
(* frozen proxy does not do, and that a tunnel implements Relay.tla.       *)
(***************************************************************************)
EXTENDS TunnelLemmas

-----------------------------------------------------------------------------
(* The inductive invariant.                                                *)

\* What the two peers say in all.
CS == Stream["client"]
RS == Stream["remote"]

\* Without freezing, early bytes and full buffers nothing of the client's stays
\* in its read_buffer.
Gentle == setup.lockstep /\ toggles = 0 /\ Len(ClientData) <= BufMax

\* An event of the batch is of a socket that was worth waking up for.
BatchOK ==
    /\ \A i, j \in DOMAIN batch : batch[i].sock = batch[j].sock => i = j
    /\ \A i \in DOMAIN batch :
          /\ batch[i].sock = "remote" => conn \in {"up", "refused"}
          /\ (/\ batch[i] = [sock |-> "client", handler |-> "write"]
              /\ tunnel.state # "connected_state" /\ Open(tunnel, "client"))
                => tunnel.wbuf["client"] # <<>>

\* What the peers said, and a client that waits does not say too early.
KernelOK ==
    /\ \A s \in Side : sent[s] <= Len(Stream[s])
    /\ setup.lockstep => \/ sent["client"] <= Len(got["client"]) + 1
                         \/ Len(got["client"]) >= 2
    /\ toggles = 0 => ~frozen

IInv ==
    /\ TypeOK
    /\ Sound(tunnel, CS, RS, nread, got, conn)
    /\ fate = "running" => Calm(tunnel)
    /\ Gentle => Passed(tunnel, CS, nread, got)
    /\ fate = "running" => BatchOK
    /\ KernelOK
    /\ NeverAborts

-----------------------------------------------------------------------------
(* What the invariant says of every state.                                 *)

LEMMA Streams ==
    ASSUME TypeOK
    PROVE  /\ CS = <<greeting, request>> \o ClientData /\ RS = RemoteData
           /\ CS \in Seq(Tokens) /\ RS \in Seq(Tokens)
           /\ ClientData \in Seq(Tokens)
           /\ Len(CS) = 2 + Len(ClientData)
           /\ Len(ClientData) \in Nat /\ Len(CS) \in Nat /\ Len(RS) \in Nat
           /\ Len(CS) + Len(RS) <= MaxGot /\ 2 <= MaxGot /\ MaxGot \in Nat
           /\ SubSeq(CS, 3, Len(CS)) = ClientData
           /\ \A s \in Side : Stream[s] = Said(CS, RS, s)
<1> DEFINE hello == <<greeting, request>>
           d == ClientData
           e == RemoteData
<1>1. CS = hello \o d /\ RS = e
  BY Sides DEF CS, RS, Stream
<1>2. \A s \in Side : Stream[s] = Said(CS, RS, s)
  BY Sides DEF CS, RS, Said
<1>3. setup \in SetupType /\ Len(d) + Len(e) + 2 <= MaxGot /\ MaxGot \in Nat
  BY TunnelAssumption DEF TypeOK, ClientData, RemoteData
<1>4. d \in Seq(Data) /\ e \in Seq(Data)
  BY <1>3 DEF SetupType, ClientData, RemoteData
<1>5. hello \in Seq(Tokens) /\ Len(hello) = 2
  BY DEF Tokens
<1>6. d \in Seq(Tokens) /\ e \in Seq(Tokens)
  <2>1. Data \subseteq Tokens
    BY DEF Tokens
  <2> QED
    BY <1>4, <2>1, SeqMonotonic
<1> HIDE DEF hello, d, e
<1>7. hello \o d \in Seq(Tokens) /\ Len(hello \o d) = 2 + Len(d)
  <2>1. hello \o d \in Seq(Tokens) /\ Len(hello \o d) = Len(hello) + Len(d)
    BY <1>5, <1>6, Lengths
  <2> QED
    BY <1>5, <2>1
<1>8. Len(d) \in Nat /\ Len(e) \in Nat
  BY <1>6, LenProperties
<1>9. SubSeq(hello \o d, 3, Len(hello \o d)) = d
  <2> DEFINE w == hello \o d
             x == SubSeq(w, 3, Len(w))
  <2>1. /\ w \in Seq(Tokens) /\ Len(w) = 2 + Len(d)
        /\ \A i \in 1 .. Len(d) : w[2 + i] = d[i]
    BY <1>5, <1>6, <1>7, <1>8, ConcatProperties
  <2> HIDE DEF w
  <2>2. \A i \in 3 .. Len(w) : w[i] \in Tokens
    BY <1>8, <2>1, ElementOfSeq
  <2>3. /\ x \in Seq(Tokens)
        /\ Len(x) = IF 3 <= Len(w) THEN Len(w) - 3 + 1 ELSE 0
        /\ \A i \in 1 .. Len(w) - 3 + 1 : x[i] = w[3 + i - 1]
    BY <1>8, <2>1, <2>2, SubSeqProperties
  <2> HIDE DEF x
  <2>4. Len(x) = Len(d)
    BY <1>8, <2>1, <2>3
  <2>5. \A i \in 1 .. Len(x) : x[i] = d[i]
    BY <1>8, <2>1, <2>3, <2>4
  <2>6. x = d
    BY <1>6, <2>3, <2>4, <2>5, SeqEqual
  <2> QED
    BY <2>6 DEF w, x
<1>10. /\ Len(CS) = 2 + Len(d) /\ Len(RS) = Len(e)
       /\ CS \in Seq(Tokens) /\ RS \in Seq(Tokens)
       /\ SubSeq(CS, 3, Len(CS)) = d
  BY <1>1, <1>6, <1>7, <1>9
<1>11. Len(CS) + Len(RS) <= MaxGot /\ 2 <= MaxGot
  BY <1>3, <1>8, <1>10
<1>12. Len(CS) \in Nat /\ Len(RS) \in Nat
  BY <1>8, <1>10
<1>13. CS = <<greeting, request>> \o ClientData /\ RS = RemoteData
  BY <1>1 DEF hello, d, e
<1> QED
  BY <1>2, <1>3, <1>6, <1>8, <1>10, <1>11, <1>12, <1>13 DEF d

\* Nothing is read that was not said.
LEMMA Facts ==
    ASSUME IInv
    PROVE  /\ Given(CS, RS, nread, got)
           /\ Sound(tunnel, CS, RS, nread, got, conn)
           /\ tunnel \in TunnelT(Tokens)
           /\ \A s \in Side : /\ sent[s] \in Nat /\ nread[s] \in Nat
                              /\ nread[s] <= sent[s] /\ sent[s] <= Len(Stream[s])
                              /\ Len(got[s]) \in Nat
           /\ SoError \in BOOLEAN /\ frozen \in BOOLEAN
<1>1. TypeOK /\ KernelOK
  BY DEF IInv
<1>2. \A s \in Side : /\ sent[s] \in Nat /\ nread[s] \in Nat
                      /\ nread[s] <= sent[s] /\ sent[s] <= Len(Stream[s])
                      /\ got[s] \in Seq(Tokens)
  BY <1>1 DEF TypeOK, KernelOK
<1>3. CS \in Seq(Tokens) /\ RS \in Seq(Tokens) /\ Len(CS) \in Nat /\ Len(RS) \in Nat
  BY <1>1, Streams
<1>4. nread["client"] <= Len(CS) /\ nread["remote"] <= Len(RS)
  <2>1. /\ sent["client"] <= Len(CS) /\ sent["remote"] <= Len(RS)
    BY <1>2, Sides DEF CS, RS
  <2> QED
    BY <1>2, <1>3, <2>1, Sides
<1>5. Given(CS, RS, nread, got)
  BY <1>1, <1>3, <1>4 DEF Given, TypeOK
<1>6. \A s \in Side : Len(got[s]) \in Nat
  BY <1>2, LenProperties
<1>7. Sound(tunnel, CS, RS, nread, got, conn)
  BY DEF IInv
<1>8. tunnel \in TunnelT(Tokens) /\ frozen \in BOOLEAN
  BY <1>1 DEF TypeOK
<1> QED
  BY <1>2, <1>5, <1>6, <1>7, <1>8 DEF SoError

\* A client that waits for each reply has said two messages at most when the
\* tunnel is not connected yet, and has been told of the first.
LEMMA Waits ==
    ASSUME IInv, setup.lockstep, tunnel.state # "connected_state"
    PROVE  /\ sent["client"] <= 2
           /\ (tunnel.state = "connecting_state" /\ Open(tunnel, "client"))
                 => nread["client"] = 2 /\ sent["client"] = 2 /\ tunnel.wbuf["client"] = <<>>
<1>1. /\ sent["client"] \in Nat /\ nread["client"] \in Nat /\ nread["client"] <= sent["client"]
      /\ Len(got["client"]) \in Nat
  BY Facts, Sides
<1>2. sent["client"] <= Len(got["client"]) + 1 \/ Len(got["client"]) >= 2
  BY DEF IInv, KernelOK
<1>3. got["client"] \in {<<>>, <<method_reply>>}
  BY DEF IInv, Sound, Opens
<1>4. Len(<<>>) = 0 /\ Len(<<method_reply>>) = 1
  OBVIOUS
<1>5. Len(got["client"]) \in {0, 1} /\ (got["client"] = <<>> => Len(got["client"]) = 0)
  BY <1>3, <1>4
<1>6. sent["client"] <= 2 /\ (sent["client"] = 2 => Len(got["client"]) = 1)
  <2>1. \A n, k \in Nat : (k \in {0, 1} /\ (n <= k + 1 \/ k >= 2))
                              => n <= 2 /\ (n = 2 => k = 1)
    OBVIOUS
  <2> QED
    BY <1>1, <1>2, <1>5, <2>1, Zenon
<1>7. ASSUME tunnel.state = "connecting_state", Open(tunnel, "client")
      PROVE  nread["client"] = 2 /\ sent["client"] = 2 /\ tunnel.wbuf["client"] = <<>>
  <2>1. nread["client"] >= 2 /\ Answered(tunnel, got)
    BY <1>7 DEF IInv, Sound, Opens, Taken
  <2>2. nread["client"] = 2 /\ sent["client"] = 2
    BY <1>1, <1>6, <2>1
  <2>3. got["client"] # <<>>
    BY <1>4, <1>6, <2>2
  <2> QED
    BY <1>7, <2>1, <2>2, <2>3 DEF Answered
<1> QED
  BY <1>6, <1>7

LEMMA TailParts ==
    ASSUME TypeOK, batch # <<>>
    PROVE  /\ Head(batch) = batch[1] /\ 1 \in DOMAIN batch
           /\ Tail(batch) \in Seq([sock : Side, handler : {"read", "write"}])
           /\ \A i \in DOMAIN Tail(batch) : /\ i \in Nat /\ i + 1 \in DOMAIN batch /\ i + 1 # 1
                                            /\ Tail(batch)[i] = batch[i + 1]
<1> DEFINE E == [sock : Side, handler : {"read", "write"}]
<1>1. batch \in Seq(E)
  BY DEF TypeOK
<1> HIDE DEF E
<1>2. /\ Tail(batch) \in Seq(E) /\ Len(Tail(batch)) = Len(batch) - 1
      /\ \A i \in 1 .. Len(Tail(batch)) : Tail(batch)[i] = batch[i + 1]
  BY <1>1, HeadTailProperties
<1>3. /\ Len(batch) \in Nat /\ Len(batch) # 0 /\ DOMAIN batch = 1 .. Len(batch)
      /\ DOMAIN Tail(batch) = 1 .. Len(Tail(batch)) /\ Head(batch) = batch[1]
  BY <1>1, <1>2
<1> QED
  BY <1>2, <1>3 DEF E

-----------------------------------------------------------------------------
(* The dispatch of an event.                                               *)

\* What a dispatch has to show for the invariant: the other events of the
\* batch are of the other socket, and stay worth their wake-up.
LEMMA Dispatched ==
    ASSUME IInv, NEW s \in Side, NEW h \in {"read", "write"}, Dispatching(s, h),
           UNCHANGED <<setup, sent, fin, frozen, toggles>>,
           room' \in [Side -> BOOLEAN],
           conn' \in {"none", "pending", "up", "refused"},
           conn' = conn \/ tunnel.state = "request_state",
           \A x \in Side : nread'[x] <= sent[x],
           Given(CS, RS, nread', got'),
           Sound(tunnel', CS, RS, nread', got', conn'),
           fate' \in {"running", "aborted", "crashed", "dangling"},
           fate' = "running" => Calm(tunnel'),
           Gentle => Passed(tunnel', CS, nread', got'),
           Narrow(tunnel, tunnel'),
           s = "remote" => Spares(tunnel, tunnel'),
           \/ Len(got'["client"]) >= Len(got["client"])
           \/ Len(got'["client"]) >= 2,
           setup.lockstep => fate' # "aborted"
    PROVE  IInv' /\ Narrow(tunnel, tunnel')
<1>1. TypeOK /\ fate = "running" /\ batch # <<>> /\ batch' = Tail(batch)
  BY DEF IInv, Dispatching
<1>2. batch[1].sock = s
  BY <1>1, TailParts DEF Dispatching
<1>3. CS' = CS /\ RS' = RS /\ Stream' = Stream
  BY DEF CS, RS, Stream, ClientData, RemoteData
<1>4. TypeOK'
  <2>1. /\ tunnel' \in TunnelT(Tokens)
        /\ \A x \in Side : Len(tunnel'.rbuf[x]) <= BufMax /\ Len(tunnel'.wbuf[x]) <= BufMax
    BY DEF Sound, Shape
  <2>2. batch' \in Seq([sock : Side, handler : {"read", "write"}])
    BY <1>1, TailParts
  <2>3. nread' \in [Side -> Nat] /\ got' \in [Side -> Seq(Tokens)]
    BY DEF Given
  <2> QED
    BY <1>1, <2>1, <2>2, <2>3 DEF TypeOK
<1>5. Sound(tunnel, CS, RS, nread, got, conn)'
  BY <1>3
<1>6. (fate = "running" => Calm(tunnel))'
  OBVIOUS
<1>7. (Gentle => Passed(tunnel, CS, nread, got))'
  <2>1. Gentle' = Gentle
    BY DEF Gentle, ClientData
  <2> QED
    BY <1>3, <2>1
<1>8. BatchOK'
  <2>1. BatchOK /\ conn \in {"none", "pending", "up", "refused"}
    BY <1>1 DEF IInv, TypeOK
  <2>2. ASSUME NEW i \in DOMAIN batch'
        PROVE  /\ i + 1 \in DOMAIN batch /\ i \in Nat
               /\ batch'[i] = batch[i + 1] /\ batch'[i].sock # s
    BY <1>1, <1>2, <2>1, TailParts DEF BatchOK
  <2>3. ASSUME NEW i \in DOMAIN batch', NEW j \in DOMAIN batch',
               batch'[i].sock = batch'[j].sock
        PROVE  i = j
    <3>1. i + 1 = j + 1 /\ i \in Nat /\ j \in Nat
      BY <2>1, <2>2, <2>3 DEF BatchOK
    <3> QED
      BY <3>1
  <2>4. ASSUME NEW i \in DOMAIN batch', batch'[i].sock = "remote"
        PROVE  conn' \in {"up", "refused"}
    <3>1. conn \in {"up", "refused"}
      BY <2>1, <2>2, <2>4 DEF BatchOK
    <3>2. tunnel.state = "request_state" => conn = "none"
      BY DEF IInv, Sound, Shape
    <3> QED
      BY <3>1, <3>2
  <2>5. ASSUME NEW i \in DOMAIN batch',
               batch'[i] = [sock |-> "client", handler |-> "write"],
               tunnel'.state # "connected_state", Open(tunnel', "client")
        PROVE  tunnel'.wbuf["client"] # <<>>
    <3>1. s = "remote"
      BY <2>2, <2>5, Sides
    <3>2. Open(tunnel, "client") /\ tunnel'.wbuf["client"] = tunnel.wbuf["client"]
      BY <2>5, <3>1 DEF Spares
    <3>3. tunnel.state # "connected_state"
      BY <2>5 DEF Narrow
    <3> QED
      BY <2>1, <2>2, <2>5, <3>2, <3>3 DEF BatchOK
  <2> QED
    BY <2>3, <2>4, <2>5 DEF BatchOK
<1>9. KernelOK'
  <2>1. KernelOK
    BY DEF IInv
  <2>2. /\ sent["client"] \in Nat /\ Len(got["client"]) \in Nat
        /\ Len(got'["client"]) \in Nat
    BY Facts, Sides, LenProperties DEF Given
  <2>3. ASSUME setup.lockstep
        PROVE  sent["client"] <= Len(got'["client"]) + 1 \/ Len(got'["client"]) >= 2
    <3>1. sent["client"] <= Len(got["client"]) + 1 \/ Len(got["client"]) >= 2
      BY <2>1, <2>3 DEF KernelOK
    <3>2. \A n, k, l \in Nat : (/\ n <= k + 1 \/ k >= 2
                                /\ l >= k \/ l >= 2) => n <= l + 1 \/ l >= 2
      OBVIOUS
    <3> QED
      BY <2>2, <3>1, <3>2, Zenon
  <2> QED
    BY <1>3, <2>1, <2>3 DEF KernelOK
<1>10. NeverAborts'
  BY DEF NeverAborts
<1> QED
  BY <1>4, <1>5, <1>6, <1>7, <1>8, <1>9, <1>10 DEF IInv

\* The events of a remote are those of a connection that was made or refused.
LEMMA RemoteEvent ==
    ASSUME IInv, NEW h \in {"read", "write"}, Dispatching("remote", h), ~SoError
    PROVE  conn = "up"
<1>1. TypeOK /\ batch # <<>> /\ BatchOK /\ Head(batch).sock = "remote"
  BY DEF IInv, Dispatching
<1>2. conn \in {"up", "refused"}
  BY <1>1, TailParts DEF BatchOK
<1> QED
  BY <1>2 DEF SoError

\* A handler that leaves the two connections as they are.
LEMMA Closed ==
    ASSUME IInv, NEW s \in Side, NEW h \in {"read", "write"}, Dispatching(s, h), NEW u,
           Keeps(tunnel, u, CS, RS, nread, got, conn),
           Returns(Ok(u)), UNCHANGED <<kernel, terminal>>
    PROVE  IInv' /\ Narrow(tunnel, tunnel')
<1>1. tunnel' = u /\ fate' = "running"
  BY DEF Returns, Ok
<1>2. UNCHANGED <<setup, sent, nread, fin, room, got, conn, frozen, toggles>>
  BY DEF kernel, terminal
<1>3. /\ Sound(u, CS, RS, nread, got, conn)
      /\ Calm(tunnel) => Calm(u)
      /\ Narrow(tunnel, u) /\ Spares(tunnel, u)
      /\ Passed(tunnel, CS, nread, got) => Passed(u, CS, nread, got)
  BY DEF Keeps, Preserves
<1>4. TypeOK /\ Calm(tunnel) /\ (Gentle => Passed(tunnel, CS, nread, got))
  BY DEF IInv, Dispatching
<1>5. /\ Given(CS, RS, nread, got) /\ \A x \in Side : nread[x] <= sent[x]
      /\ Len(got["client"]) \in Nat
  BY Facts, Sides
<1>6. room \in [Side -> BOOLEAN] /\ conn \in {"none", "pending", "up", "refused"}
  BY <1>4 DEF TypeOK
<1>7. Calm(u) /\ (Gentle => Passed(u, CS, nread, got))
  BY <1>3, <1>4
<1>8. /\ Given(CS, RS, nread', got') /\ \A x \in Side : nread'[x] <= sent[x]
      /\ Sound(tunnel', CS, RS, nread', got', conn')
      /\ Gentle => Passed(tunnel', CS, nread', got')
      /\ Calm(tunnel') /\ Narrow(tunnel, tunnel') /\ Spares(tunnel, tunnel')
      /\ Len(got'["client"]) >= Len(got["client"])
      /\ room' \in [Side -> BOOLEAN]
      /\ conn' \in {"none", "pending", "up", "refused"} /\ conn' = conn
  BY <1>1, <1>2, <1>3, <1>5, <1>6, <1>7
<1> QED
  BY <1>1, <1>2, <1>8, Dispatched

LEMMA DispatchReadStep ==
    ASSUME IInv, NEW s \in Side, DispatchRead(s)
    PROVE  IInv' /\ Narrow(tunnel, tunnel')
<1>1. /\ Dispatching(s, "read") /\ Open(tunnel, s) /\ fate = "running"
      /\ UNCHANGED <<setup, sent, fin, room, got, frozen, toggles>>
  BY DEF DispatchRead, Dispatching, terminal
<1>2. PICK n \in 1 .. Unread(s), outcome \in Outcomes(tunnel) :
          /\ Len(tunnel.rbuf[s]) + n <= BufMax
          /\ nread' = [nread EXCEPT ![s] = @ + n]
          /\ conn' = IF outcome = "failed" THEN conn ELSE outcome
          /\ LET bytes0 == SubSeq(Stream[s], nread[s] + 1, nread[s] + n)
             IN  Returns(ReadHandle([tunnel EXCEPT !.rbuf[s] = @ \o bytes0],
                                    s, outcome, SoError, frozen))
  BY DEF DispatchRead
<1> DEFINE bytes == NextBytes(CS, RS, nread, s, n)
           nr2 == Advanced(nread, s, n)
           u == ReadIn(tunnel, s, bytes)
           r == ReadHandle(u, s, outcome, SoError, frozen)
           cn2 == IF outcome = "failed" THEN conn ELSE outcome
<1>3. /\ TypeOK /\ KernelOK /\ BatchOK /\ Calm(tunnel)
      /\ Gentle => Passed(tunnel, CS, nread, got)
  BY <1>1 DEF IInv
<1>4. /\ Given(CS, RS, nread, got) /\ Sound(tunnel, CS, RS, nread, got, conn)
      /\ SoError \in BOOLEAN /\ frozen \in BOOLEAN
  BY Facts
<1>5. /\ sent[s] \in Nat /\ nread[s] \in Nat /\ nread[s] <= sent[s]
      /\ sent[s] <= Len(Said(CS, RS, s)) /\ Len(Said(CS, RS, s)) \in Nat
  <2>1. sent[s] \in Nat /\ nread[s] \in Nat /\ nread[s] <= sent[s] /\ sent[s] <= Len(Stream[s])
    BY Facts
  <2>2. Stream[s] = Said(CS, RS, s) /\ Len(CS) \in Nat /\ Len(RS) \in Nat
    BY <1>3, Streams
  <2> QED
    BY <2>1, <2>2 DEF Said
<1>6. n \in Nat /\ n >= 1 /\ nread[s] + n <= sent[s] /\ nread[s] + n <= Len(Said(CS, RS, s))
  <2>1. n \in 1 .. (sent[s] - nread[s])
    BY <1>2 DEF Unread
  <2> QED
    BY <1>5, <2>1
<1>7. outcome \in IF tunnel.state = "request_state" THEN {"failed", "pending", "up"} ELSE {conn}
  <2>1. CASE tunnel.state = "request_state"
    BY <1>2, <2>1 DEF Outcomes
  <2>2. CASE tunnel.state # "request_state"
    BY <1>2, <2>2 DEF Outcomes
  <2> QED
    BY <2>1, <2>2
<1>8. (tunnel.state = "connecting_state" /\ s = "remote" /\ ~SoError) => conn = "up"
  BY <1>1, RemoteEvent
<1>9. nread' = nr2 /\ conn' = cn2 /\ Returns(r)
  <2>1. Stream[s] = Said(CS, RS, s)
    BY <1>3, Streams
  <2> QED
    BY <1>2, <2>1 DEF NextBytes, Advanced, ReadIn
<1>10. Len(tunnel.rbuf[s]) + n <= BufMax
  BY <1>2
<1> HIDE DEF bytes, nr2, u, r, cn2
<1>11. LET bytes0 == NextBytes(CS, RS, nread, s, n)
           nr0 == Advanced(nread, s, n)
           u0 == ReadIn(tunnel, s, bytes0)
           r0 == ReadHandle(u0, s, outcome, SoError, frozen)
           cn0 == IF outcome = "failed" THEN conn ELSE outcome
       IN  /\ Given(CS, RS, nr0, got)
           /\ Sound(r0.t, CS, RS, nr0, got, cn0)
           /\ Calm(tunnel) => Calm(r0.t)
           /\ Narrow(tunnel, r0.t)
           /\ s = "remote" => Spares(tunnel, r0.t)
           /\ (/\ ~frozen /\ Len(CS) <= BufMax + 2 /\ Passed(tunnel, CS, nread, got)
               /\ tunnel.state # "connected_state" => nr0["client"] <= 2)
                 => Passed(r0.t, CS, nr0, got)
           /\ (Flows(tunnel) /\ Flows(r0.t)) => r0.t = u0 \/ (~frozen /\ r0.t = Forwarded(u0, s))
           /\ r0.bad \in {"no", "aborted", "crashed", "dangling"}
           /\ r0.bad = "aborted" => tunnel.state = "connecting_state" /\ s = "client"
  BY <1>1, <1>4, <1>6, <1>7, <1>8, <1>10, ReadHandleSound
<1>12. /\ Given(CS, RS, nr2, got)
       /\ Sound(r.t, CS, RS, nr2, got, cn2)
       /\ Calm(r.t) /\ Narrow(tunnel, r.t)
       /\ s = "remote" => Spares(tunnel, r.t)
       /\ (/\ ~frozen /\ Len(CS) <= BufMax + 2 /\ Passed(tunnel, CS, nread, got)
           /\ tunnel.state # "connected_state" => nr2["client"] <= 2)
             => Passed(r.t, CS, nr2, got)
       /\ r.bad \in {"no", "aborted", "crashed", "dangling"}
       /\ r.bad = "aborted" => tunnel.state = "connecting_state" /\ s = "client"
  BY <1>3, <1>11 DEF bytes, nr2, u, r, cn2
<1>13. /\ \A x \in Side : nr2[x] <= sent[x]
       /\ nr2[s] = nread[s] + n
  <2>1. \A x \in Side : /\ nr2[x] = IF x = s THEN nread[x] + n ELSE nread[x]
                        /\ nread[x] <= sent[x]
    BY <1>4, Facts DEF Given, Advanced, nr2
  <2> QED
    BY <1>6, <2>1
<1>14. (setup.lockstep /\ tunnel.state # "connected_state") => nr2["client"] <= 2
  <2>1. nr2["client"] \in Nat /\ sent["client"] \in Nat /\ nr2["client"] <= sent["client"]
    BY <1>12, <1>13, Facts, Sides DEF Given
  <2> QED
    BY <2>1, Waits
<1>15. Gentle => Passed(r.t, CS, nr2, got)
  <2> SUFFICES ASSUME Gentle PROVE Passed(r.t, CS, nr2, got)
    OBVIOUS
  <2>1. ~frozen /\ (tunnel.state # "connected_state" => nr2["client"] <= 2)
    BY <1>3, <1>14 DEF Gentle, KernelOK
  <2>2. Len(CS) <= BufMax + 2
    BY <1>3, Streams, TunnelOpsAssumption DEF Gentle
  <2> QED
    BY <1>3, <1>12, <2>1, <2>2
<1>16. setup.lockstep => r.bad # "aborted"
  <2> SUFFICES ASSUME setup.lockstep, r.bad = "aborted" PROVE FALSE
    OBVIOUS
  <2>1. tunnel.state = "connecting_state" /\ s = "client"
    BY <1>12
  <2>2. nread["client"] = 2 /\ sent["client"] = 2
    BY <1>1, <2>1, Waits
  <2> QED
    BY <1>6, <2>1, <2>2
<1>17. /\ tunnel' = r.t /\ fate' = IF r.bad = "no" THEN "running" ELSE r.bad
  BY <1>9 DEF Returns
<1>18. /\ conn' \in {"none", "pending", "up", "refused"}
       /\ conn' = conn \/ tunnel.state = "request_state"
  <2>1. conn \in {"none", "pending", "up", "refused"}
    BY <1>3 DEF TypeOK
  <2> QED
    BY <1>7, <1>9, <2>1 DEF cn2
<1>19. Len(got["client"]) \in Nat /\ room \in [Side -> BOOLEAN]
  BY <1>3, Facts, Sides DEF TypeOK
<1>20. /\ \A x \in Side : nread'[x] <= sent[x]
       /\ Given(CS, RS, nread', got')
       /\ Sound(tunnel', CS, RS, nread', got', conn')
       /\ Calm(tunnel') /\ Narrow(tunnel, tunnel')
       /\ s = "remote" => Spares(tunnel, tunnel')
       /\ Gentle => Passed(tunnel', CS, nread', got')
  BY <1>1, <1>9, <1>12, <1>13, <1>15, <1>17
<1>21. /\ fate' \in {"running", "aborted", "crashed", "dangling"}
       /\ setup.lockstep => fate' # "aborted"
  BY <1>12, <1>16, <1>17
<1>22. Len(got'["client"]) >= Len(got["client"]) /\ room' \in [Side -> BOOLEAN]
  BY <1>1, <1>19
<1> QED
  BY <1>1, <1>18, <1>20, <1>21, <1>22, Dispatched

LEMMA DispatchReadFailsStep ==
    ASSUME IInv, NEW s \in Side, DispatchReadFails(s)
    PROVE  IInv' /\ Narrow(tunnel, tunnel')
<1> DEFINE u == SockShutdown(tunnel, s)
<1>1. /\ Dispatching(s, "read") /\ Open(tunnel, s)
      /\ Returns(Ok(u)) /\ UNCHANGED <<kernel, terminal>>
  BY DEF DispatchReadFails, Dispatching
<1>2. Given(CS, RS, nread, got) /\ Sound(tunnel, CS, RS, nread, got, conn)
  BY Facts
<1>3. Keeps(tunnel, u, CS, RS, nread, got, conn)
  BY <1>1, <1>2, SockShutdownKeeps
<1> QED
  BY <1>1, <1>3, Closed

LEMMA DispatchWriteFailsStep ==
    ASSUME IInv, NEW s \in Side, DispatchWriteFails(s)
    PROVE  IInv' /\ Narrow(tunnel, tunnel')
<1> DEFINE u == SockRelease(tunnel, s)
<1>1. /\ Dispatching(s, "write") /\ Returns(Ok(u)) /\ UNCHANGED <<kernel, terminal>>
  BY DEF DispatchWriteFails
<1>2. Given(CS, RS, nread, got) /\ Sound(tunnel, CS, RS, nread, got, conn)
  BY Facts
<1>3. Keeps(tunnel, u, CS, RS, nread, got, conn)
  BY <1>2, SockReleaseKeeps
<1> QED
  BY <1>1, <1>3, Closed

LEMMA DispatchStaleStep ==
    ASSUME IInv, DispatchStale
    PROVE  IInv' /\ Narrow(tunnel, tunnel')
<1>1. /\ fate' = "dangling" /\ batch # <<>> /\ batch' = Tail(batch)
      /\ UNCHANGED <<tunnel, setup, sent, nread, fin, room, got, conn, frozen, toggles>>
  BY DEF DispatchStale, kernel, terminal
<1>2. batch' \in Seq([sock : Side, handler : {"read", "write"}])
  BY <1>1, TailParts DEF IInv
<1>3. TypeOK'
  BY <1>1, <1>2 DEF IInv, TypeOK
<1>4. CS' = CS /\ RS' = RS /\ Stream' = Stream /\ Gentle' = Gentle
  BY <1>1 DEF CS, RS, Stream, Gentle, ClientData, RemoteData
<1>5. KernelOK' /\ NeverAborts'
  BY <1>1, <1>4 DEF IInv, KernelOK, NeverAborts
<1>6. Sound(tunnel, CS, RS, nread, got, conn)'
  BY <1>1, <1>4 DEF IInv
<1>7. (Gentle => Passed(tunnel, CS, nread, got))'
  BY <1>1, <1>4 DEF IInv
<1>8. IInv'
  BY <1>1, <1>3, <1>5, <1>6, <1>7 DEF IInv
<1> QED
  BY <1>1, <1>8 DEF Narrow

\* tunnel_write_handle from a tunnel u and a history of what was sent that the
\* write(2) before it, if any, led to.
LEMMA WriteHandled ==
    ASSUME IInv, NEW s \in Side, Dispatching(s, "write"), NEW u, NEW gt,
           UNCHANGED <<setup, sent, nread, fin, conn, frozen, toggles>>,
           room' \in [Side -> BOOLEAN], got' = gt,
           Given(CS, RS, nread, gt), Sound(u, CS, RS, nread, gt, conn),
           Gentle => Passed(u, CS, nread, gt),
           u.state = tunnel.state, u.sock = tunnel.sock,
           \A x \in Side : x # s => u.wbuf[x] = tunnel.wbuf[x],
           u.interest = tunnel.interest,
           Len(gt["client"]) >= Len(got["client"]) \/ Len(gt["client"]) >= 2,
           (setup.lockstep /\ s = "client") => tunnel.state # "connecting_state",
           Returns(WriteHandle(u, s, SoError))
    PROVE  IInv' /\ Narrow(tunnel, tunnel')
<1> DEFINE r == WriteHandle(u, s, SoError)
<1>1. Open(tunnel, s) /\ Open(u, s) /\ SoError \in BOOLEAN /\ fate = "running"
  BY Facts DEF Dispatching, Open
<1>2. (u.state = "connecting_state" /\ s = "remote" /\ ~SoError) => conn = "up"
  BY RemoteEvent
<1>3. LET r0 == WriteHandle(u, s, SoError)
      IN  /\ Sound(r0.t, CS, RS, nread, gt, conn)
          /\ ((s = "client" \/ Calm(u)) /\ r0.bad # "aborted") => Calm(r0.t)
          /\ Narrow(u, r0.t)
          /\ s = "remote" => Spares(u, r0.t)
          /\ (/\ Passed(u, CS, nread, gt)
              /\ u.state # "connected_state" => nread["client"] <= 2)
                => Passed(r0.t, CS, nread, gt)
          /\ Flows(u) => r0.t.rbuf = u.rbuf /\ r0.t.wbuf = u.wbuf
          /\ r0.bad \in {"no", "aborted", "crashed", "dangling"}
          /\ r0.bad = "aborted" => u.state = "connecting_state" /\ s = "client"
  BY <1>1, <1>2, WriteHandleSound
<1> HIDE DEF r
<1>4. /\ Sound(r.t, CS, RS, nread, gt, conn)
      /\ ((s = "client" \/ Calm(u)) /\ r.bad # "aborted") => Calm(r.t)
      /\ Narrow(u, r.t)
      /\ s = "remote" => Spares(u, r.t)
      /\ (/\ Passed(u, CS, nread, gt)
          /\ u.state # "connected_state" => nread["client"] <= 2)
            => Passed(r.t, CS, nread, gt)
      /\ r.bad \in {"no", "aborted", "crashed", "dangling"}
      /\ r.bad = "aborted" => u.state = "connecting_state" /\ s = "client"
  BY <1>3 DEF r
<1>5. s = "client" \/ Calm(u)
  <2>1. CASE s = "client"
    BY <2>1
  <2>2. CASE s # "client"
    <3>1. Calm(tunnel) /\ u.wbuf["client"] = tunnel.wbuf["client"]
      BY <1>1, <2>2, Sides DEF IInv
    <3> QED
      BY <3>1 DEF Calm, Open
  <2> QED
    BY <2>1, <2>2
<1>6. Narrow(tunnel, r.t)
  BY <1>4 DEF Narrow
<1>7. s = "remote" => Spares(tunnel, r.t)
  <2> SUFFICES ASSUME s = "remote" PROVE Spares(tunnel, r.t)
    OBVIOUS
  <2>1. u.wbuf["client"] = tunnel.wbuf["client"] /\ Spares(u, r.t)
    BY <1>4, Sides
  <2> QED
    BY <2>1 DEF Spares, Open
<1>8. Gentle => Passed(r.t, CS, nread, gt)
  <2> SUFFICES ASSUME Gentle PROVE Passed(r.t, CS, nread, gt)
    OBVIOUS
  <2>1. u.state # "connected_state" => nread["client"] <= 2
    <3>1. u.state # "connected_state" => sent["client"] <= 2
      BY Waits DEF Gentle
    <3>2. nread["client"] \in Nat /\ sent["client"] \in Nat /\ nread["client"] <= sent["client"]
      BY Facts, Sides
    <3> QED
      BY <3>1, <3>2
  <2> QED
    BY <1>4, <2>1
<1>9. tunnel' = r.t /\ fate' = IF r.bad = "no" THEN "running" ELSE r.bad
  BY DEF Returns, r
<1>10. /\ fate' \in {"running", "aborted", "crashed", "dangling"}
       /\ setup.lockstep => fate' # "aborted"
       /\ fate' = "running" => Calm(tunnel')
  BY <1>4, <1>5, <1>9
<1>11. conn' \in {"none", "pending", "up", "refused"}
  BY DEF IInv, TypeOK
<1>12. /\ \A x \in Side : nread'[x] <= sent[x]
       /\ Given(CS, RS, nread', got')
       /\ Sound(tunnel', CS, RS, nread', got', conn')
       /\ Narrow(tunnel, tunnel')
       /\ s = "remote" => Spares(tunnel, tunnel')
       /\ Gentle => Passed(tunnel', CS, nread', got')
       /\ Len(got'["client"]) >= Len(got["client"]) \/ Len(got'["client"]) >= 2
  BY <1>4, <1>6, <1>7, <1>8, <1>9, Facts
<1> QED
  BY <1>10, <1>11, <1>12, Dispatched

LEMMA DispatchWriteStep ==
    ASSUME IInv, NEW s \in Side, DispatchWrite(s)
    PROVE  IInv' /\ Narrow(tunnel, tunnel')
<1>1. /\ Dispatching(s, "write") /\ Open(tunnel, s) /\ fate = "running"
      /\ tunnel.wbuf[s] # <<>>
      /\ UNCHANGED <<setup, sent, nread, fin, conn, frozen, toggles>>
  BY DEF DispatchWrite, Dispatching, terminal
<1>2. PICK n \in 1 .. Len(tunnel.wbuf[s]) :
          /\ got' = [got EXCEPT ![s] = Recorded(@, SubSeq(tunnel.wbuf[s], 1, n))]
          /\ \E more \in {FALSE, n = Len(tunnel.wbuf[s])} : room' = [room EXCEPT ![s] = more]
          /\ Returns(WriteHandle([tunnel EXCEPT !.wbuf[s] = SubSeq(@, n + 1, Len(@))],
                                 s, SoError))
  BY DEF DispatchWrite
<1> DEFINE u == WrittenOut(tunnel, s, n)
           front == SubSeq(tunnel.wbuf[s], 1, n)
           gt2 == Handed(got, s, front)
<1>3. TypeOK /\ Calm(tunnel) /\ (Gentle => Passed(tunnel, CS, nread, got))
  BY <1>1 DEF IInv
<1>4. Given(CS, RS, nread, got) /\ Sound(tunnel, CS, RS, nread, got, conn)
  BY Facts
<1>5. Len(CS) + Len(RS) <= MaxGot /\ 2 <= MaxGot /\ MaxGot \in Nat
  BY <1>3, Streams
<1>6. got' = gt2 /\ Returns(WriteHandle(u, s, SoError))
  BY <1>2 DEF Handed, WrittenOut
<1>7. room' \in [Side -> BOOLEAN]
  BY <1>2, <1>3 DEF TypeOK
<1> HIDE DEF u, front, gt2
<1>8. LET u0 == WrittenOut(tunnel, s, n)
          front0 == SubSeq(tunnel.wbuf[s], 1, n)
          gt0 == Handed(got, s, front0)
      IN  /\ Given(CS, RS, nread, gt0) /\ Sound(u0, CS, RS, nread, gt0, conn)
          /\ u0.state = tunnel.state /\ u0.sock = tunnel.sock /\ u0.rbuf = tunnel.rbuf
          /\ u0.interest = tunnel.interest
          /\ u0.wbuf[s] = SubSeq(tunnel.wbuf[s], n + 1, Len(tunnel.wbuf[s]))
          /\ u0.wbuf[Peer(s)] = tunnel.wbuf[Peer(s)]
          /\ Passed(tunnel, CS, nread, got) => Passed(u0, CS, nread, gt0)
          /\ tunnel.state # "connected_state" => s = "client" /\ tunnel.state # "open_state"
          /\ Flows(tunnel) => gt0 = Lengthened(got, s, front0)
          /\ gt0[Peer(s)] = got[Peer(s)]
          /\ Len(got[s]) < MaxGot => Len(gt0[s]) >= Len(got[s]) + 1
          /\ Len(got[s]) >= MaxGot => Len(gt0[s]) = MaxGot
          /\ Len(front0) = n
  BY <1>1, <1>4, <1>5, HandedSound
<1>9. /\ Given(CS, RS, nread, gt2) /\ Sound(u, CS, RS, nread, gt2, conn)
      /\ u.state = tunnel.state /\ u.sock = tunnel.sock
      /\ u.interest = tunnel.interest
      /\ u.wbuf[Peer(s)] = tunnel.wbuf[Peer(s)]
      /\ Passed(tunnel, CS, nread, got) => Passed(u, CS, nread, gt2)
      /\ gt2[Peer(s)] = got[Peer(s)]
      /\ Len(got[s]) < MaxGot => Len(gt2[s]) >= Len(got[s]) + 1
      /\ Len(got[s]) >= MaxGot => Len(gt2[s]) = MaxGot
  BY <1>8 DEF u, front, gt2
<1>10. Len(gt2["client"]) >= Len(got["client"]) \/ Len(gt2["client"]) >= 2
  <2>1. Len(gt2["client"]) \in Nat /\ Len(got["client"]) \in Nat
    BY <1>4, <1>9, Sides, LenProperties DEF Given
  <2>2. CASE s = "client"
    BY <1>5, <1>9, <2>1, <2>2
  <2>3. CASE s # "client"
    <3>1. gt2["client"] = got["client"]
      BY <1>9, <2>3, Sides
    <3> QED
      BY <2>1, <3>1
  <2> QED
    BY <2>2, <2>3
<1>11. (setup.lockstep /\ s = "client") => tunnel.state # "connecting_state"
  BY <1>1, Waits
<1>12. \A x \in Side : x # s => u.wbuf[x] = tunnel.wbuf[x]
  BY <1>9, Sides
<1> QED
  BY <1>1, <1>3, <1>6, <1>7, <1>9, <1>10, <1>11, <1>12, WriteHandled

LEMMA DispatchWriteNothingStep ==
    ASSUME IInv, NEW s \in Side, DispatchWriteNothing(s)
    PROVE  IInv' /\ Narrow(tunnel, tunnel')
<1>1. /\ Dispatching(s, "write") /\ Open(tunnel, s) /\ fate = "running"
      /\ tunnel.wbuf[s] = <<>> /\ UNCHANGED <<kernel, terminal>>
  BY DEF DispatchWriteNothing, Dispatching
<1>2. /\ Given(CS, RS, nread, got) /\ Sound(tunnel, CS, RS, nread, got, conn)
      /\ Len(got["client"]) \in Nat
  BY Facts, Sides
<1>3. /\ Calm(tunnel) /\ room \in [Side -> BOOLEAN]
      /\ Gentle => Passed(tunnel, CS, nread, got)
  BY <1>1 DEF IInv, TypeOK
<1>4. CASE tunnel.sock[s] = "halfclosed"
  <2> DEFINE u == SockRelease(tunnel, s)
  <2>1. Returns(Ok(u))
    BY <1>4 DEF DispatchWriteNothing
  <2>2. Keeps(tunnel, u, CS, RS, nread, got, conn)
    BY <1>2, SockReleaseKeeps
  <2> QED
    BY <1>1, <2>1, <2>2, Closed
<1>5. CASE tunnel.sock[s] # "halfclosed"
  <2>1. Returns(WriteHandle(tunnel, s, SoError))
    BY <1>5 DEF DispatchWriteNothing
  <2>2. UNCHANGED <<setup, sent, nread, fin, room, got, conn, frozen, toggles>>
    BY <1>1 DEF kernel, terminal
  <2>3. (setup.lockstep /\ s = "client") => tunnel.state # "connecting_state"
    <3> SUFFICES ASSUME s = "client", tunnel.state = "connecting_state" PROVE FALSE
      OBVIOUS
    <3>1. /\ TypeOK /\ BatchOK /\ batch # <<>>
          /\ Head(batch) = [sock |-> "client", handler |-> "write"]
      BY <1>1 DEF IInv, Dispatching
    <3>2. 1 \in DOMAIN batch /\ batch[1] = [sock |-> "client", handler |-> "write"]
      BY <3>1, TailParts
    <3> QED
      BY <1>1, <3>1, <3>2 DEF BatchOK
  <2>4. Len(got["client"]) >= Len(got["client"]) /\ room' \in [Side -> BOOLEAN]
    BY <1>2, <1>3, <2>2
  <2> QED
    BY <1>1, <1>2, <1>3, <2>1, <2>2, <2>3, <2>4, WriteHandled
<1> QED
  BY <1>4, <1>5

-----------------------------------------------------------------------------
(* epoll_wait, the peers, the kernel and the terminal.                     *)

\* Every order epoll_wait can give its events is a sequence of them without
\* repetition.
LEMMA Orders ==
    ASSUME NEW S, IsFiniteSet(S), NEW order \in SetToSeqs(S)
    PROVE  /\ order \in Seq(S)
           /\ \A i, j \in DOMAIN order : order[i] = order[j] => i = j
<1>1. Cardinality(S) \in Nat
  BY FS_CardinalityType
<1> QED
  BY <1>1 DEF SetToSeqs

LEMMA EventsFinite == IsFiniteSet(Events)
<1> DEFINE c == [sock |-> "client", handler |-> Handler("client")]
           r == [sock |-> "remote", handler |-> Handler("remote")]
<1>1. Events \subseteq {c} \cup {r}
  BY DEF Events, Side
<1>2. IsFiniteSet({c}) /\ IsFiniteSet({r})
  BY FS_Singleton
<1> HIDE DEF c, r
<1>3. IsFiniteSet({c} \cup {r})
  BY <1>2, FS_Union
<1> QED
  BY <1>1, <1>3, FS_Subset

LEMMA EpollWaitStep ==
    ASSUME IInv, EpollWait
    PROVE  IInv'
<1>1. /\ fate = "running" /\ batch' \in SetToSeqs(Events)
      /\ UNCHANGED <<tunnel, setup, sent, nread, fin, room, got, conn, frozen, toggles, fate>>
  BY DEF EpollWait, kernel, terminal
<1>2. /\ batch' \in Seq(Events)
      /\ \A i, j \in DOMAIN batch' : batch'[i] = batch'[j] => i = j
  BY <1>1, EventsFinite, Orders
<1>3. ASSUME NEW e \in Events
      PROVE  /\ e \in [sock : Side, handler : {"read", "write"}]
             /\ e = [sock |-> e.sock, handler |-> Handler(e.sock)]
             /\ CanRead(e.sock) \/ CanWrite(e.sock)
  BY DEF Events, Handler
<1>4. ASSUME NEW i \in DOMAIN batch' PROVE batch'[i] \in Events
  BY <1>2
<1>5. batch' \in Seq([sock : Side, handler : {"read", "write"}])
  <2>1. Events \subseteq [sock : Side, handler : {"read", "write"}]
    BY <1>3
  <2> QED
    BY <1>2, <2>1, SeqMonotonic
<1>6. TypeOK'
  BY <1>1, <1>5 DEF IInv, TypeOK
<1>7. BatchOK'
  <2>1. ASSUME NEW i \in DOMAIN batch', NEW j \in DOMAIN batch',
               batch'[i].sock = batch'[j].sock
        PROVE  i = j
    <3>1. /\ batch'[i] = [sock |-> batch'[i].sock, handler |-> Handler(batch'[i].sock)]
          /\ batch'[j] = [sock |-> batch'[j].sock, handler |-> Handler(batch'[j].sock)]
      BY <1>3, <1>4
    <3> QED
      BY <1>2, <2>1, <3>1
  <2>2. ASSUME NEW i \in DOMAIN batch', batch'[i].sock = "remote"
        PROVE  conn' \in {"up", "refused"}
    BY <1>1, <1>3, <1>4, <2>2 DEF CanRead, CanWrite, Connected
  <2>3. ASSUME NEW i \in DOMAIN batch',
               batch'[i] = [sock |-> "client", handler |-> "write"],
               tunnel'.state # "connected_state", Open(tunnel', "client")
        PROVE  tunnel'.wbuf["client"] # <<>>
    <3>1. batch'[i].sock = "client" /\ Handler("client") = "write"
      BY <1>3, <1>4, <2>3
    <3>2. CanWrite("client")
      BY <1>3, <1>4, <3>1 DEF Handler
    <3>3. "out" \in tunnel.interest["client"] /\ Calm(tunnel)
      BY <1>1, <3>2 DEF CanWrite, IInv
    <3> QED
      BY <1>1, <2>3, <3>3 DEF Calm, Open
  <2> QED
    BY <2>1, <2>2, <2>3 DEF BatchOK
<1>8. CS' = CS /\ RS' = RS /\ Stream' = Stream /\ Gentle' = Gentle
  BY <1>1 DEF CS, RS, Stream, Gentle, ClientData, RemoteData
<1>9. KernelOK' /\ NeverAborts'
  BY <1>1, <1>8 DEF IInv, KernelOK, NeverAborts
<1>10. /\ Sound(tunnel, CS, RS, nread, got, conn)'
       /\ (Gentle => Passed(tunnel, CS, nread, got))'
       /\ (fate = "running" => Calm(tunnel))'
  BY <1>1, <1>8 DEF IInv
<1> QED
  BY <1>6, <1>7, <1>9, <1>10 DEF IInv

\* What the peers and the kernel do changes neither the tunnel nor what was
\* read and sent.
LEMMA NetworkStep ==
    ASSUME IInv, NEW s \in Side, PeerSends(s) \/ PeerEnds(s) \/ PeerDrains(s)
    PROVE  IInv'
<1>1. UNCHANGED <<tunnel, setup, nread, got, conn, batch, frozen, toggles, fate>>
  BY DEF PeerSends, PeerEnds, PeerDrains, terminal
<1>2. TypeOK /\ KernelOK
  BY DEF IInv
<1>3. /\ fin' \in [Side -> {"open", "eof", "reset"}] /\ room' \in [Side -> BOOLEAN]
  BY <1>2 DEF PeerSends, PeerEnds, PeerDrains, TypeOK
<1>4. /\ sent' \in [Side -> Nat]
      /\ \A x \in Side : nread[x] <= sent'[x] /\ sent'[x] <= Len(Stream[x])
      /\ setup.lockstep => \/ sent'["client"] <= Len(got["client"]) + 1
                           \/ Len(got["client"]) >= 2
  <2>1. CASE sent' = sent
    BY <1>2, <2>1 DEF TypeOK, KernelOK
  <2>2. CASE PeerSends(s)
    <3>1. /\ sent' = [sent EXCEPT ![s] = @ + 1] /\ sent[s] < Len(Stream[s]) /\ MaySend(s)
      BY <2>2 DEF PeerSends
    <3>2. \A x \in Side : /\ sent[x] \in Nat /\ nread[x] \in Nat /\ nread[x] <= sent[x]
                          /\ sent[x] <= Len(Stream[x]) /\ Len(got[x]) \in Nat
                          /\ Len(Stream[x]) \in Nat
      BY <1>2, Facts, Streams DEF Said
    <3>3. \A x \in Side : sent'[x] = IF x = s THEN sent[x] + 1 ELSE sent[x]
      BY <1>2, <3>1 DEF TypeOK
    <3>4. sent' \in [Side -> Nat]
      BY <1>2, <3>1, <3>2 DEF TypeOK
    <3>5. \A x \in Side : nread[x] <= sent'[x] /\ sent'[x] <= Len(Stream[x])
      BY <3>1, <3>2, <3>3
    <3>6. ASSUME setup.lockstep
          PROVE  sent'["client"] <= Len(got["client"]) + 1 \/ Len(got["client"]) >= 2
      <4>1. CASE s = "client"
        <5>1. Len(got["client"]) >= (IF sent["client"] < 2 THEN sent["client"] ELSE 2)
          BY <3>1, <3>6, <4>1 DEF MaySend
        <5>2. sent'["client"] = sent["client"] + 1
          BY <3>3, <4>1
        <5> QED
          BY <3>2, <5>1, <5>2, Sides
      <4>2. CASE s # "client"
        <5>1. sent'["client"] = sent["client"]
          BY <3>3, <4>2, Sides
        <5> QED
          BY <1>2, <3>6, <5>1 DEF KernelOK
      <4> QED
        BY <4>1, <4>2
    <3> QED
      BY <3>4, <3>5, <3>6
  <2> QED
    BY <2>1, <2>2 DEF PeerEnds, PeerDrains
<1>5. TypeOK'
  BY <1>1, <1>2, <1>3, <1>4 DEF TypeOK
<1>6. CS' = CS /\ RS' = RS /\ Stream' = Stream /\ Gentle' = Gentle
  BY <1>1 DEF CS, RS, Stream, Gentle, ClientData, RemoteData
<1>7. KernelOK'
  BY <1>1, <1>2, <1>4, <1>6 DEF KernelOK
<1>8. NeverAborts' /\ (fate = "running" => BatchOK)'
  BY <1>1 DEF IInv, NeverAborts, BatchOK
<1>9. /\ Sound(tunnel, CS, RS, nread, got, conn)'
      /\ (Gentle => Passed(tunnel, CS, nread, got))'
      /\ (fate = "running" => Calm(tunnel))'
  BY <1>1, <1>6 DEF IInv
<1> QED
  BY <1>5, <1>7, <1>8, <1>9 DEF IInv

\* A connect that is answered was waited for in connecting_state.
LEMMA ConnectResolvesStep ==
    ASSUME IInv, ConnectResolves
    PROVE  IInv'
<1>1. /\ conn = "pending" /\ conn' \in {"up", "refused"}
      /\ UNCHANGED <<tunnel, setup, sent, nread, fin, room, got, batch, frozen, toggles, fate>>
  BY DEF ConnectResolves, terminal
<1>2. CS' = CS /\ RS' = RS /\ Stream' = Stream /\ Gentle' = Gentle
  BY <1>1 DEF CS, RS, Stream, Gentle, ClientData, RemoteData
<1>3. TypeOK' /\ KernelOK' /\ NeverAborts'
  BY <1>1, <1>2 DEF IInv, TypeOK, KernelOK, NeverAborts
<1>4. Sound(tunnel, CS, RS, nread, got, conn')
  <2>1. Sound(tunnel, CS, RS, nread, got, conn)
    BY DEF IInv
  <2>2. Shape(tunnel, conn')
    BY <1>1, <2>1 DEF Sound, Shape
  <2> QED
    BY <2>1, <2>2 DEF Sound
<1>5. (fate = "running" => BatchOK)'
  BY <1>1 DEF IInv, BatchOK
<1>6. /\ Sound(tunnel, CS, RS, nread, got, conn)'
      /\ (Gentle => Passed(tunnel, CS, nread, got))'
      /\ (fate = "running" => Calm(tunnel))'
  BY <1>1, <1>2, <1>4 DEF IInv
<1> QED
  BY <1>3, <1>5, <1>6 DEF IInv

LEMMA ToggleFreezeStep ==
    ASSUME IInv, ToggleFreeze
    PROVE  IInv'
<1>1. /\ frozen' = ~frozen /\ toggles < setup.max_toggles /\ toggles' = toggles + 1
      /\ UNCHANGED <<tunnel, setup, sent, nread, fin, room, got, conn, batch, fate>>
  BY DEF ToggleFreeze, kernel
<1>2. CS' = CS /\ RS' = RS /\ Stream' = Stream
  BY <1>1 DEF CS, RS, Stream, ClientData, RemoteData
<1>3. setup.max_toggles \in Nat
  BY TunnelAssumption DEF IInv, TypeOK, SetupType
<1>4. toggles' \in 0 .. setup.max_toggles /\ toggles' # 0
  BY <1>1, <1>3 DEF IInv, TypeOK
<1>5. TypeOK'
  BY <1>1, <1>4 DEF IInv, TypeOK
<1>6. KernelOK' /\ NeverAborts' /\ (fate = "running" => BatchOK)'
  BY <1>1, <1>2, <1>4 DEF IInv, KernelOK, NeverAborts, BatchOK
<1>7. ~Gentle'
  BY <1>4 DEF Gentle
<1>8. /\ Sound(tunnel, CS, RS, nread, got, conn)'
      /\ (fate = "running" => Calm(tunnel))'
  BY <1>1, <1>2 DEF IInv
<1> QED
  BY <1>5, <1>6, <1>7, <1>8 DEF IInv

\* SIGINT, and a step that changes nothing.
LEMMA StandStill ==
    ASSUME IInv, \/ fate' = "exited"
                 \/ fate' = fate,
           UNCHANGED <<tunnel, kernel, batch, terminal>>
    PROVE  IInv'
<1>1. UNCHANGED <<tunnel, setup, sent, nread, fin, room, got, conn, batch, frozen, toggles>>
  BY DEF kernel, terminal
<1>2. CS' = CS /\ RS' = RS /\ Stream' = Stream /\ Gentle' = Gentle
  BY <1>1 DEF CS, RS, Stream, Gentle, ClientData, RemoteData
<1>3. TypeOK' /\ KernelOK' /\ NeverAborts' /\ (fate = "running" => BatchOK)'
  BY <1>1, <1>2 DEF IInv, TypeOK, KernelOK, NeverAborts, BatchOK
<1>4. /\ Sound(tunnel, CS, RS, nread, got, conn)'
      /\ (Gentle => Passed(tunnel, CS, nread, got))'
      /\ (fate = "running" => Calm(tunnel))'
  BY <1>1, <1>2 DEF IInv
<1> QED
  BY <1>3, <1>4 DEF IInv

-----------------------------------------------------------------------------
(* The invariant is one.                                                   *)

LEMMA CreatedFields ==
    ASSUME NEW family \in Family
    PROVE  LET t == Created(family)
           IN  /\ t \in TunnelT(Tokens) /\ t.state = "open_state"
               /\ \A s \in Side : /\ t.rbuf[s] = <<>> /\ t.wbuf[s] = <<>>
                                  /\ t.sock[s] = IF s = "client" THEN "connected" ELSE "null"
               /\ t.interest["client"] = {"in"}
<1> DEFINE sock == [s \in Side |-> IF s = "client" THEN "connected" ELSE "null"]
           none == [s \in Side |-> <<>>]
           interest == [s \in Side |-> IF s = "client" THEN {"in"} ELSE {}]
           t == Created(family)
<1>1. /\ sock \in [Side -> SockState] /\ none \in [Side -> Seq(Tokens)]
      /\ interest \in [Side -> SUBSET {"in", "out"}]
  <2>1. sock \in [Side -> SockState]
    BY DEF SockState
  <2>2. none \in [Side -> Seq(Tokens)]
    OBVIOUS
  <2>3. interest \in [Side -> SUBSET {"in", "out"}]
    OBVIOUS
  <2> QED
    BY <2>1, <2>2, <2>3
<1>2. /\ \A s \in Side : /\ none[s] = <<>>
                         /\ sock[s] = IF s = "client" THEN "connected" ELSE "null"
      /\ interest["client"] = {"in"}
  BY Sides
<1>3. t = [state |-> "open_state", family |-> family, sock |-> sock, rbuf |-> none,
           wbuf |-> none, interest |-> interest]
  BY DEF Created
<1> HIDE DEF sock, none, interest
<1>4. /\ t \in TunnelT(Tokens) /\ t.state = "open_state"
      /\ t.sock = sock /\ t.rbuf = none /\ t.wbuf = none /\ t.interest = interest
  BY <1>1, <1>3 DEF TunnelT, TunnelState
<1> HIDE DEF t
<1> QED
  BY <1>2, <1>4 DEF t

LEMMA InitInv == Init => IInv
<1> SUFFICES ASSUME Init PROVE IInv
  OBVIOUS
<1>1. setup \in SetupType /\ setup \in Setups
  BY TunnelAssumption DEF Init
<1>2. setup.family \in Family /\ setup.max_toggles \in Nat
  BY <1>1 DEF SetupType
<1>3. /\ tunnel \in TunnelT(Tokens) /\ tunnel.state = "open_state"
      /\ \A s \in Side : /\ tunnel.rbuf[s] = <<>> /\ tunnel.wbuf[s] = <<>>
                         /\ tunnel.sock[s] = IF s = "client" THEN "connected" ELSE "null"
      /\ tunnel.interest["client"] = {"in"}
  BY <1>2, CreatedFields DEF Init
<1>4. /\ \A s \in Side : nread[s] = 0 /\ sent[s] = 0 /\ got[s] = <<>>
      /\ conn = "none" /\ batch = <<>> /\ frozen = FALSE /\ toggles = 0 /\ fate = "running"
  BY DEF Init
<1>5. \A s \in Side : Len(tunnel.rbuf[s]) = 0 /\ Len(tunnel.wbuf[s]) = 0 /\ Len(got[s]) = 0
  BY <1>3, <1>4
<1>6. BufMax \in Nat
  BY TunnelOpsAssumption
<1>7. TypeOK
  <2>1. /\ got \in [Side -> Seq(Tokens)] /\ sent \in [Side -> Nat] /\ nread \in [Side -> Nat]
        /\ fin \in [Side -> {"open", "eof", "reset"}] /\ room \in [Side -> BOOLEAN]
    BY DEF Init
  <2>2. batch \in Seq([sock : Side, handler : {"read", "write"}])
    BY <1>4
  <2>3. \A s \in Side : /\ Len(tunnel.rbuf[s]) <= BufMax /\ Len(tunnel.wbuf[s]) <= BufMax
                        /\ nread[s] <= sent[s]
    BY <1>4, <1>5, <1>6
  <2>4. toggles \in 0 .. setup.max_toggles
    BY <1>2, <1>4
  <2>5. frozen \in BOOLEAN
    BY <1>4
  <2> QED
    BY <1>1, <1>3, <1>4, <2>1, <2>2, <2>3, <2>4, <2>5 DEF TypeOK
<1>8. CS \in Seq(Tokens) /\ RS \in Seq(Tokens) /\ Len(CS) \in Nat /\ Len(RS) \in Nat
  BY <1>7, Streams
<1>9. Shape(tunnel, conn)
  BY <1>3, <1>4, <1>5, <1>6, Sides DEF Shape, Open
<1>10. Opens(tunnel, CS, RS, nread, got)
  <2>1. SubSeq(CS, 1, 0) = <<>>
    BY <1>8, SubSeqEmpty
  <2>2. got["remote"] = <<>> /\ got["client"] = <<>> /\ nread["client"] = 0 /\ nread["remote"] = 0
    BY <1>4, Sides
  <2>3. tunnel.rbuf["client"] = <<>> /\ tunnel.wbuf["client"] = <<>> /\ ~Open(tunnel, "remote")
    BY <1>3, Sides DEF Open
  <2>4. Taken("open_state") = 0 /\ Taken("open_state") + 1 = 1
    BY DEF Taken
  <2>5. tunnel.state = "open_state" /\ tunnel.state # "connected_state"
    BY <1>3
  <2>6. Answered(tunnel, got)
    BY <2>2, <2>3, <2>5 DEF Answered
  <2>7. /\ nread["client"] >= Taken(tunnel.state)
        /\ tunnel.rbuf["client"] = SubSeq(CS, Taken(tunnel.state) + 1, nread["client"])
    BY <2>1, <2>2, <2>3, <2>4, <2>5
  <2> QED
    BY <2>2, <2>3, <2>6, <2>7 DEF Opens
<1>11. Conserves(tunnel, CS, RS, nread, got) /\ Armed(tunnel)
  BY <1>3 DEF Conserves, Flows, Armed
<1>12. Calm(tunnel)
  BY <1>3 DEF Calm
<1>13. Passed(tunnel, CS, nread, got)
  BY <1>3 DEF Passed
<1>14. BatchOK
  BY <1>4 DEF BatchOK
<1>15. KernelOK
  <2>1. \A s \in Side : sent[s] <= Len(Stream[s])
    BY <1>4, <1>7, <1>8, Streams DEF Said
  <2>2. sent["client"] <= Len(got["client"]) + 1
    BY <1>4, <1>5, Sides
  <2> QED
    BY <1>4, <2>1, <2>2 DEF KernelOK
<1>16. NeverAborts
  BY <1>4 DEF NeverAborts
<1> QED
  BY <1>7, <1>9, <1>10, <1>11, <1>12, <1>13, <1>14, <1>15, <1>16 DEF IInv, Sound

LEMMA StepInv == IInv /\ [Next]_vars => IInv'
<1> SUFFICES ASSUME IInv, [Next]_vars PROVE IInv'
  OBVIOUS
<1>1. CASE EpollWait
  BY <1>1, EpollWaitStep
<1>2. ASSUME NEW s \in Side,
             \/ DispatchRead(s) \/ DispatchReadFails(s)
             \/ DispatchWrite(s) \/ DispatchWriteFails(s)
             \/ DispatchWriteNothing(s)
      PROVE  IInv'
  BY <1>2, DispatchReadStep, DispatchReadFailsStep, DispatchWriteStep,
     DispatchWriteFailsStep, DispatchWriteNothingStep
<1>3. CASE DispatchStale
  BY <1>3, DispatchStaleStep
<1>4. ASSUME NEW s \in Side, PeerSends(s) \/ PeerEnds(s) \/ PeerDrains(s)
      PROVE  IInv'
  BY <1>4, NetworkStep
<1>5. CASE ConnectResolves \/ ToggleFreeze
  BY <1>5, ConnectResolvesStep, ToggleFreezeStep
<1>6. CASE Stop
  BY <1>6, StandStill DEF Stop
<1>7. CASE UNCHANGED vars
  BY <1>7, StandStill DEF vars
<1> QED
  BY <1>1, <1>2, <1>3, <1>4, <1>5, <1>6, <1>7 DEF Next, Dispatch

-----------------------------------------------------------------------------
(* What one step does to the bytes of a tunnel that flows before and after *)
(* it.                                                                     *)

LEMMA FlowingFlows == Flowing <=> fate = "running" /\ Flows(tunnel)
  BY DEF Flowing, Flows

\* bs of s were read, and wait in its read_buffer.
Waiting(s, bs) ==
    /\ tunnel'.rbuf = [tunnel.rbuf EXCEPT ![s] = @ \o bs]
    /\ tunnel'.wbuf = tunnel.wbuf /\ got' = got

\* They were forwarded with what waited there before.
Passing(s, bs) ==
    /\ ~frozen
    /\ tunnel'.rbuf = [tunnel.rbuf EXCEPT ![s] = <<>>]
    /\ tunnel'.wbuf = [tunnel.wbuf EXCEPT ![Peer(s)] = @ \o (tunnel.rbuf[s] \o bs)]
    /\ got' = got

\* The first n tokens of its write_buffer were written to s.
Sending(s, n) ==
    /\ tunnel'.rbuf = tunnel.rbuf
    /\ tunnel'.wbuf = [tunnel.wbuf EXCEPT ![s] = SubSeq(@, n + 1, Len(@))]
    /\ got' = [got EXCEPT ![s] = @ \o SubSeq(tunnel.wbuf[s], 1, n)]

Resting == tunnel'.rbuf = tunnel.rbuf /\ tunnel'.wbuf = tunnel.wbuf /\ got' = got

LEMMA ReadFlows ==
    ASSUME IInv, NEW s \in Side, DispatchRead(s), Flowing, Flowing'
    PROVE  \E bs \in Seq(Tokens) : Waiting(s, bs) \/ Passing(s, bs)
<1>1. Dispatching(s, "read") /\ Open(tunnel, s) /\ fate = "running" /\ got' = got
  BY DEF DispatchRead, Dispatching
<1>2. PICK n \in 1 .. Unread(s), outcome \in Outcomes(tunnel) :
          /\ Len(tunnel.rbuf[s]) + n <= BufMax
          /\ LET bytes0 == SubSeq(Stream[s], nread[s] + 1, nread[s] + n)
             IN  Returns(ReadHandle([tunnel EXCEPT !.rbuf[s] = @ \o bytes0],
                                    s, outcome, SoError, frozen))
  BY DEF DispatchRead
<1> DEFINE bs == NextBytes(CS, RS, nread, s, n)
           u == ReadIn(tunnel, s, bs)
           c == ConnectedHandle(u, s, frozen)
           r == ReadHandle(u, s, outcome, SoError, frozen)
<1>3. TypeOK
  BY DEF IInv
<1>4. /\ Given(CS, RS, nread, got) /\ Sound(tunnel, CS, RS, nread, got, conn)
      /\ SoError \in BOOLEAN /\ frozen \in BOOLEAN
  BY Facts
<1>5. tunnel.state = "connected_state" /\ Flows(tunnel) /\ Flows(tunnel')
  BY FlowingFlows, FlowingFlows DEF Flowing, Flows
<1>6. /\ sent[s] \in Nat /\ nread[s] \in Nat /\ sent[s] <= Len(Said(CS, RS, s))
      /\ Len(Said(CS, RS, s)) \in Nat
  <2>1. sent[s] \in Nat /\ nread[s] \in Nat /\ sent[s] <= Len(Stream[s])
    BY Facts
  <2>2. Stream[s] = Said(CS, RS, s) /\ Len(CS) \in Nat /\ Len(RS) \in Nat
    BY <1>3, Streams
  <2> QED
    BY <2>1, <2>2 DEF Said
<1>7. n \in Nat /\ n >= 1 /\ nread[s] + n <= Len(Said(CS, RS, s))
  <2>1. n \in 1 .. (sent[s] - nread[s])
    BY <1>2 DEF Unread
  <2> QED
    BY <1>6, <2>1
<1>8. outcome \in IF tunnel.state = "request_state" THEN {"failed", "pending", "up"} ELSE {conn}
  BY <1>2, <1>5 DEF Outcomes
<1>9. (tunnel.state = "connecting_state" /\ s = "remote" /\ ~SoError) => conn = "up"
  BY <1>5
<1>10. Len(tunnel.rbuf[s]) + n <= BufMax
  BY <1>2
<1>11. tunnel' = r.t
  <2>1. Stream[s] = Said(CS, RS, s)
    BY <1>3, Streams
  <2>2. Returns(r)
    BY <1>2, <2>1 DEF NextBytes, ReadIn
  <2> QED
    BY <2>2 DEF Returns
<1> HIDE DEF bs, u, r
<1>12. (Flows(tunnel) /\ Flows(r.t)) => r.t = u \/ (~frozen /\ r.t = Forwarded(u, s))
  <2>1. LET bytes0 == NextBytes(CS, RS, nread, s, n)
            nr0 == Advanced(nread, s, n)
            u0 == ReadIn(tunnel, s, bytes0)
            r0 == ReadHandle(u0, s, outcome, SoError, frozen)
            cn0 == IF outcome = "failed" THEN conn ELSE outcome
        IN  /\ Given(CS, RS, nr0, got)
            /\ Sound(r0.t, CS, RS, nr0, got, cn0)
            /\ Calm(tunnel) => Calm(r0.t)
            /\ Narrow(tunnel, r0.t)
            /\ s = "remote" => Spares(tunnel, r0.t)
            /\ (/\ ~frozen /\ Len(CS) <= BufMax + 2 /\ Passed(tunnel, CS, nread, got)
                /\ tunnel.state # "connected_state" => nr0["client"] <= 2)
                  => Passed(r0.t, CS, nr0, got)
            /\ (Flows(tunnel) /\ Flows(r0.t)) => r0.t = u0 \/ (~frozen /\ r0.t = Forwarded(u0, s))
            /\ r0.bad \in {"no", "aborted", "crashed", "dangling"}
            /\ r0.bad = "aborted" => tunnel.state = "connecting_state" /\ s = "client"
    BY <1>1, <1>4, <1>7, <1>8, <1>9, <1>10, ReadHandleSound
  <2> QED
    BY <2>1 DEF bs, u, r
<1>13. tunnel' = u \/ (~frozen /\ tunnel' = Forwarded(u, s))
  BY <1>5, <1>11, <1>12
<1>14. /\ u.wbuf = tunnel.wbuf /\ u.rbuf[s] = tunnel.rbuf[s] \o bs
       /\ u.rbuf[Peer(s)] = tunnel.rbuf[Peer(s)]
       /\ bs \in Seq(Tokens)
  <2>1. LET bytes0 == NextBytes(CS, RS, nread, s, n)
            u0 == ReadIn(tunnel, s, bytes0)
            nr0 == Advanced(nread, s, n)
        IN  /\ Given(CS, RS, nr0, got) /\ Sound(u0, CS, RS, nr0, got, conn)
            /\ u0.state = tunnel.state /\ u0.sock = tunnel.sock /\ u0.wbuf = tunnel.wbuf
            /\ u0.interest = tunnel.interest
            /\ u0.rbuf[s] = tunnel.rbuf[s] \o bytes0
            /\ u0.rbuf[Peer(s)] = tunnel.rbuf[Peer(s)]
            /\ bytes0 \in Seq(Tokens) /\ Len(bytes0) = n
            /\ nr0[s] = nread[s] + n /\ nr0[Peer(s)] = nread[Peer(s)]
    BY <1>1, <1>4, <1>7, <1>10, ReadInSound
  <2> QED
    BY <2>1 DEF bs, u
<1>15. u \in TunnelT(Tokens) /\ u.rbuf = [tunnel.rbuf EXCEPT ![s] = @ \o bs]
  <2>1. tunnel \in TunnelT(Tokens) /\ tunnel.rbuf \in [Side -> Seq(Tokens)]
    BY <1>3, TunnelParts DEF TypeOK
  <2>2. tunnel.rbuf[s] \o bs \in Seq(Tokens)
    BY <1>14, <2>1, Lengths
  <2> DEFINE rb == [tunnel.rbuf EXCEPT ![s] = @ \o bs]
  <2>3. u = [tunnel EXCEPT !.rbuf = rb]
    BY <2>1 DEF u, ReadIn, TunnelT
  <2>4. rb \in [Side -> Seq(Tokens)]
    BY <2>1, <2>2
  <2> HIDE DEF rb
  <2>5. u \in TunnelT(Tokens) /\ u.rbuf = rb
    BY <2>1, <2>3, <2>4 DEF TunnelT
  <2> QED
    BY <2>5 DEF rb
<1>16. CASE tunnel' = u
  <2>1. Waiting(s, bs)
    BY <1>1, <1>14, <1>15, <1>16 DEF Waiting
  <2> QED
    BY <1>14, <2>1
<1>17. CASE ~frozen /\ tunnel' = Forwarded(u, s)
  <2>1. /\ Forwarded(u, s).rbuf = [u.rbuf EXCEPT ![s] = <<>>]
        /\ Forwarded(u, s).wbuf = [u.wbuf EXCEPT ![Peer(s)] = @ \o u.rbuf[s]]
    BY <1>15, ForwardedFields
  <2>2. [u.rbuf EXCEPT ![s] = <<>>] = [tunnel.rbuf EXCEPT ![s] = <<>>]
    BY <1>3, <1>15, TunnelParts DEF TypeOK
  <2>3. Passing(s, bs)
    BY <1>1, <1>14, <1>17, <2>1, <2>2 DEF Passing
  <2> QED
    BY <1>14, <2>3
<1> QED
  BY <1>13, <1>16, <1>17

LEMMA WriteFlows ==
    ASSUME IInv, NEW s \in Side, DispatchWrite(s), Flowing
    PROVE  \E n \in 1 .. Len(tunnel.wbuf[s]) : Sending(s, n)
<1>1. Dispatching(s, "write") /\ Open(tunnel, s) /\ fate = "running"
  BY DEF DispatchWrite, Dispatching
<1>2. PICK n \in 1 .. Len(tunnel.wbuf[s]) :
          /\ got' = [got EXCEPT ![s] = Recorded(@, SubSeq(tunnel.wbuf[s], 1, n))]
          /\ Returns(WriteHandle([tunnel EXCEPT !.wbuf[s] = SubSeq(@, n + 1, Len(@))],
                                 s, SoError))
  BY DEF DispatchWrite
<1> DEFINE u == WrittenOut(tunnel, s, n)
           front == SubSeq(tunnel.wbuf[s], 1, n)
           gt2 == Handed(got, s, front)
           r == WriteHandle(u, s, SoError)
<1>3. TypeOK
  BY DEF IInv
<1>4. /\ Given(CS, RS, nread, got) /\ Sound(tunnel, CS, RS, nread, got, conn)
      /\ SoError \in BOOLEAN
  BY Facts
<1>5. Len(CS) + Len(RS) <= MaxGot /\ 2 <= MaxGot /\ MaxGot \in Nat
  BY <1>3, Streams
<1>6. got' = gt2 /\ tunnel' = r.t
  BY <1>2 DEF Handed, WrittenOut, Returns
<1>7. Flows(tunnel)
  BY FlowingFlows
<1> HIDE DEF u, front, gt2, r
<1>8. LET u0 == WrittenOut(tunnel, s, n)
          front0 == SubSeq(tunnel.wbuf[s], 1, n)
          gt0 == Handed(got, s, front0)
      IN  /\ Given(CS, RS, nread, gt0) /\ Sound(u0, CS, RS, nread, gt0, conn)
          /\ u0.state = tunnel.state /\ u0.sock = tunnel.sock /\ u0.rbuf = tunnel.rbuf
          /\ u0.interest = tunnel.interest
          /\ u0.wbuf[s] = SubSeq(tunnel.wbuf[s], n + 1, Len(tunnel.wbuf[s]))
          /\ u0.wbuf[Peer(s)] = tunnel.wbuf[Peer(s)]
          /\ Passed(tunnel, CS, nread, got) => Passed(u0, CS, nread, gt0)
          /\ tunnel.state # "connected_state" => s = "client" /\ tunnel.state # "open_state"
          /\ Flows(tunnel) => gt0 = Lengthened(got, s, front0)
          /\ gt0[Peer(s)] = got[Peer(s)]
          /\ Len(got[s]) < MaxGot => Len(gt0[s]) >= Len(got[s]) + 1
          /\ Len(got[s]) >= MaxGot => Len(gt0[s]) = MaxGot
          /\ Len(front0) = n
  BY <1>1, <1>4, <1>5, HandedSound
<1>9. /\ Given(CS, RS, nread, gt2) /\ Sound(u, CS, RS, nread, gt2, conn)
      /\ u.state = tunnel.state /\ u.sock = tunnel.sock /\ u.rbuf = tunnel.rbuf
      /\ gt2 = Lengthened(got, s, front)
  BY <1>7, <1>8 DEF u, front, gt2
<1>10. Flows(u) /\ Open(u, s)
  BY <1>1, <1>7, <1>9 DEF Flows, Open
<1>11. u.state # "connecting_state"
  BY <1>10 DEF Flows
<1>12. r.t.rbuf = u.rbuf /\ r.t.wbuf = u.wbuf
  <2>1. LET r0 == WriteHandle(u, s, SoError)
        IN  /\ Sound(r0.t, CS, RS, nread, gt2, conn)
            /\ ((s = "client" \/ Calm(u)) /\ r0.bad # "aborted") => Calm(r0.t)
            /\ Narrow(u, r0.t)
            /\ s = "remote" => Spares(u, r0.t)
            /\ (/\ Passed(u, CS, nread, gt2)
                /\ u.state # "connected_state" => nread["client"] <= 2)
                  => Passed(r0.t, CS, nread, gt2)
            /\ Flows(u) => r0.t.rbuf = u.rbuf /\ r0.t.wbuf = u.wbuf
            /\ r0.bad \in {"no", "aborted", "crashed", "dangling"}
            /\ r0.bad = "aborted" => u.state = "connecting_state" /\ s = "client"
    BY <1>4, <1>9, <1>10, <1>11, WriteHandleSound
  <2> QED
    BY <1>10, <2>1 DEF r
<1>13. u.wbuf = [tunnel.wbuf EXCEPT ![s] = SubSeq(@, n + 1, Len(@))]
  <2>1. tunnel \in TunnelT(Tokens)
    BY <1>3 DEF TypeOK
  <2> QED
    BY <2>1 DEF u, WrittenOut, TunnelT
<1>14. Sending(s, n)
  BY <1>6, <1>9, <1>12, <1>13 DEF Sending, Lengthened, front
<1> QED
  BY <1>14

\* write(2) with nothing to write, on a socket that does not close.
LEMMA NothingFlows ==
    ASSUME IInv, NEW s \in Side, DispatchWriteNothing(s), Flowing
    PROVE  Resting
<1> DEFINE r == WriteHandle(tunnel, s, SoError)
<1>1. Dispatching(s, "write") /\ Open(tunnel, s) /\ got' = got
  BY DEF DispatchWriteNothing, Dispatching, kernel
<1>2. Flows(tunnel) /\ tunnel.sock[s] = "connected" /\ tunnel.state # "connecting_state"
  BY FlowingFlows DEF Flows
<1>3. tunnel' = r.t
  BY <1>2 DEF DispatchWriteNothing, Returns
<1>4. /\ Given(CS, RS, nread, got) /\ Sound(tunnel, CS, RS, nread, got, conn)
      /\ SoError \in BOOLEAN
  BY Facts
<1>5. Flows(tunnel) => r.t.rbuf = tunnel.rbuf /\ r.t.wbuf = tunnel.wbuf
  BY <1>1, <1>2, <1>4, WriteHandleSound
<1> QED
  BY <1>1, <1>2, <1>3, <1>5 DEF Resting

\* A read or a write that fails closes.
LEMMA FailureCloses ==
    ASSUME IInv, NEW s \in Side, DispatchReadFails(s) \/ DispatchWriteFails(s)
    PROVE  ~Flowing'
<1>1. Open(tunnel, s)
  BY DEF DispatchReadFails, DispatchWriteFails, Dispatching
<1>2. CASE DispatchReadFails(s)
  <2> DEFINE u == SockShutdown(tunnel, s)
  <2>1. tunnel' = u
    BY <1>2 DEF DispatchReadFails, Returns, Ok
  <2>2. u.sock[s] # "connected"
    BY <1>1, Facts, SockShutdownKeeps
  <2> HIDE DEF u
  <2> QED
    BY <2>1, <2>2 DEF Flowing
<1>3. CASE DispatchWriteFails(s)
  <2> DEFINE u == SockRelease(tunnel, s)
  <2>1. tunnel' = u
    BY <1>3 DEF DispatchWriteFails, Returns, Ok
  <2>2. u.sock = [tunnel.sock EXCEPT ![s] = "null"]
    BY Facts, SockReleaseFields
  <2> HIDE DEF u
  <2>3. tunnel'.sock[s] = "null"
    BY <2>1, <2>2, Facts, TunnelParts
  <2> QED
    BY <2>3 DEF Flowing
<1> QED
  BY <1>2, <1>3

LEMMA FlowingStep ==
    ASSUME IInv, [Next]_vars, Flowing, Flowing'
    PROVE  \/ \E s \in Side, bs \in Seq(Tokens) : Waiting(s, bs) \/ Passing(s, bs)
           \/ \E s \in Side : \E n \in 1 .. Len(tunnel.wbuf[s]) : Sending(s, n)
           \/ Resting
<1>1. ASSUME NEW s \in Side, DispatchRead(s)
      PROVE  \E bs \in Seq(Tokens) : Waiting(s, bs) \/ Passing(s, bs)
  BY <1>1, ReadFlows
<1>2. ASSUME NEW s \in Side, DispatchWrite(s)
      PROVE  \E n \in 1 .. Len(tunnel.wbuf[s]) : Sending(s, n)
  BY <1>2, WriteFlows
<1>3. ASSUME NEW s \in Side, DispatchWriteNothing(s)
      PROVE  Resting
  BY <1>3, NothingFlows
<1>4. ASSUME NEW s \in Side
      PROVE  ~DispatchReadFails(s) /\ ~DispatchWriteFails(s)
  BY FailureCloses
<1>5. CASE UNCHANGED <<tunnel, got>>
  BY <1>5 DEF Resting
<1>6. ~DispatchStale
  BY DEF DispatchStale, Flowing
<1>7. CASE EpollWait \/ ConnectResolves \/ ToggleFreeze \/ Stop \/ UNCHANGED vars
  BY <1>5, <1>7 DEF EpollWait, ConnectResolves, ToggleFreeze, Stop, vars, kernel
<1>8. ASSUME NEW s \in Side, PeerSends(s) \/ PeerEnds(s) \/ PeerDrains(s)
      PROVE  UNCHANGED <<tunnel, got>>
  BY <1>8 DEF PeerSends, PeerEnds, PeerDrains
<1> QED
  BY <1>1, <1>2, <1>3, <1>4, <1>5, <1>6, <1>7, <1>8 DEF Next, Dispatch

-----------------------------------------------------------------------------
(* The safety theorems.                                                    *)

\* Every buffer stays within its limit, no token is read twice and no handler
\* is left with a socket that is not there.
THEOREM TypeCorrect == Spec => []TypeOK
<1>1. IInv => TypeOK
  BY DEF IInv
<1> QED
  BY InitInv, StepInv, <1>1, PTL DEF Spec

\* tunnel_connected_handle with the partial writes of the loop: whatever the
\* payload, the sizes of the buffers, the order of the events and the freezing,
\* the bytes sent to a peer, those waiting for it and those read for it are the
\* bytes read from the other, the two replies first.
THEOREM BytesAreConserved == Spec => []BytesConserved
<1>1. IInv => BytesConserved
  <2> SUFFICES ASSUME IInv, Flowing PROVE BytesConserved
    BY DEF BytesConserved
  <2>1. Flows(tunnel) /\ Conserves(tunnel, CS, RS, nread, got)
    BY FlowingFlows DEF IInv, Sound
  <2>2. /\ PayloadRead("client") = SubSeq(CS, 3, nread["client"])
        /\ PayloadRead("remote") = SubSeq(RS, 1, nread["remote"])
    BY DEF PayloadRead, Before, CS, RS
  <2> QED
    BY <2>1, <2>2 DEF Conserves, BytesConserved
<1> QED
  BY InitInv, StepInv, <1>1, PTL DEF Spec

\* epoll_modify in tunnel.c and sock.c: output never waits with EPOLLOUT off,
\* but for what a closing socket leaves to the other one.
THEOREM OutputIsArmed == Spec => []OutputArmed
<1>1. IInv => OutputArmed
  BY DEF IInv, Sound, Armed, OutputArmed, Closing
<1> QED
  BY InitInv, StepInv, <1>1, PTL DEF Spec

\* tunnel_notify_connected: the success reply is neither sent nor queued unless
\* the connection to the remote was made.
THEOREM SuccessOnlyWhenConnected == Spec => []SuccessMeansConnected
<1>1. IInv => SuccessMeansConnected
  <2> SUFFICES ASSUME IInv,
                      connect_reply \in ToSet(got["client"]) \cup ToSet(tunnel.wbuf["client"])
               PROVE  conn = "up"
    BY DEF SuccessMeansConnected
  <2>1. Sound(tunnel, CS, RS, nread, got, conn)
    BY DEF IInv
  <2>2. CASE tunnel.state = "connected_state"
    BY <2>1, <2>2 DEF Sound, Shape
  <2>3. CASE tunnel.state # "connected_state"
    <3>1. got["client"] \in {<<>>, <<method_reply>>}
      BY <2>1, <2>3 DEF Sound, Opens
    <3>2. tunnel.wbuf["client"] \in {<<>>, <<method_reply>>}
      BY <2>1, <2>3, Sides DEF Sound, Opens, Answered, Shape
    <3>3. ToSet(<<>>) = {} /\ ToSet(<<method_reply>>) = {method_reply}
      BY DEF ToSet
    <3> QED
      BY <3>1, <3>2, <3>3, TunnelOpsAssumption
  <2> QED
    BY <2>2, <2>3
<1> QED
  BY InitInv, StepInv, <1>1, PTL DEF Spec

\* tunnel.c:175 and tunnel.c:249: the assertions of connecting_state do not
\* fail on a client that waits for each reply.
THEOREM AssertionsHold == Spec => []NeverAborts
<1>1. IInv => NeverAborts
  BY DEF IInv
<1> QED
  BY InitInv, StepInv, <1>1, PTL DEF Spec

\* What sock_shutdown and tunnel_connected_handle send on: through both kinds of
\* close, the remote of a client that waits for the replies, with a payload
\* that fits a buffer and nobody freezing, is sent that payload from its
\* beginning, each byte once.
THEOREM RemoteIsSentPayload == Spec => []RemoteGetsPrefix
<1>1. IInv => RemoteGetsPrefix
  <2> SUFFICES ASSUME IInv, Gentle PROVE IsPrefix(got["remote"], ClientData)
    BY DEF RemoteGetsPrefix, Gentle
  <2>1. /\ TypeOK /\ Passed(tunnel, CS, nread, got)
        /\ Sound(tunnel, CS, RS, nread, got, conn) /\ Given(CS, RS, nread, got)
    BY Facts DEF IInv
  <2>2. /\ CS \in Seq(Tokens) /\ SubSeq(CS, 3, Len(CS)) = ClientData
        /\ ClientData \in Seq(Tokens) /\ Len(ClientData) \in Nat
    BY <2>1, Streams
  <2>3. /\ nread["client"] \in Nat /\ nread["client"] <= Len(CS)
        /\ got["remote"] \in Seq(Tokens) /\ tunnel.wbuf["remote"] \in Seq(Tokens)
    BY <2>1, Sides, TunnelParts DEF Given, TypeOK
  <2>4. CASE tunnel.state # "connected_state"
    <3>1. got["remote"] = <<>>
      BY <2>1, <2>4 DEF Sound, Opens
    <3>2. Len(<<>>) = 0 /\ SubSeq(<<>>, 1, 0) = <<>> /\ SubSeq(ClientData, 1, 0) = <<>>
      BY <2>2
    <3>3. IsPrefix(<<>>, ClientData)
      BY <2>2, <3>2 DEF IsPrefix
    <3> QED
      BY <3>1, <3>3
  <2>5. CASE tunnel.state = "connected_state" /\ Open(tunnel, "remote")
    <3>1. got["remote"] \o tunnel.wbuf["remote"] = SubSeq(CS, 3, nread["client"])
      BY <2>1, <2>5 DEF Passed
    <3>2. IsPrefix(got["remote"], SubSeq(CS, 3, Len(CS)))
      BY <2>2, <2>3, <3>1, FrontIsPrefix
    <3> QED
      BY <2>2, <3>2
  <2>6. CASE tunnel.state = "connected_state" /\ ~Open(tunnel, "remote")
    BY <2>1, <2>2, <2>6 DEF Passed
  <2> QED
    BY <2>4, <2>5, <2>6
<1> QED
  BY InitInv, StepInv, <1>1, PTL DEF Spec

-----------------------------------------------------------------------------
(* Freezing.                                                               *)

LEMMA FrozenStep ==
    ASSUME IInv, [Next]_vars, frozen, Flowing, Flowing', NEW s \in Side
    PROVE  PutUp(s)' <= PutUp(s)
<1>1. \A x \in Side : /\ tunnel.wbuf[x] \in Seq(Tokens) /\ got[x] \in Seq(Tokens)
                      /\ Len(tunnel.wbuf[x]) \in Nat /\ Len(got[x]) \in Nat
  <2>1. \A x \in Side : tunnel.wbuf[x] \in Seq(Tokens) /\ got[x] \in Seq(Tokens)
    BY Facts, TunnelParts DEF Given
  <2> QED
    BY <2>1, LenProperties
<1>2. PutUp(s) \in Nat
  <2>1. Len(got[s]) \in Nat /\ Len(tunnel.wbuf[s]) \in Nat
    BY <1>1
  <2>2. \A a, b \in Nat : a + b \in Nat
    OBVIOUS
  <2> QED
    BY <2>1, <2>2, Zenon DEF PutUp
<1>3. CASE tunnel'.wbuf = tunnel.wbuf /\ got' = got
  <2>1. PutUp(s)' = PutUp(s)
    BY <1>3 DEF PutUp
  <2> QED
    BY <1>2, <2>1
<1>4. ASSUME NEW x \in Side, NEW n \in 1 .. Len(tunnel.wbuf[x]), Sending(x, n)
      PROVE  PutUp(s)' <= PutUp(s)
  <2> DEFINE front == SubSeq(tunnel.wbuf[x], 1, n)
             rest == SubSeq(tunnel.wbuf[x], n + 1, Len(tunnel.wbuf[x]))
  <2>1. n \in Nat /\ 1 <= n /\ n <= Len(tunnel.wbuf[x]) /\ Len(tunnel.wbuf[x]) \in Nat
    BY <1>1
  <2>2. front \in Seq(Tokens) /\ Len(front) = n
    BY <1>1, Split
  <2>3. Len(rest) = Len(tunnel.wbuf[x]) - n
    <3>1. \A i \in n + 1 .. Len(tunnel.wbuf[x]) : tunnel.wbuf[x][i] \in Tokens
      BY <1>1, <2>1, ElementOfSeq
    <3>2. Len(rest) = IF n + 1 <= Len(tunnel.wbuf[x])
                      THEN Len(tunnel.wbuf[x]) - (n + 1) + 1 ELSE 0
      BY <2>1, <3>1, SubSeqProperties
    <3> QED
      BY <2>1, <3>2
  <2>4. Len(got[x] \o front) = Len(got[x]) + n
    BY <1>1, <2>2, Lengths
  <2> HIDE DEF front, rest
  <2>5. /\ tunnel'.wbuf = [tunnel.wbuf EXCEPT ![x] = rest]
        /\ got' = [got EXCEPT ![x] = @ \o front]
    BY <1>4 DEF Sending, front, rest
  <2>6. tunnel.wbuf \in [Side -> Seq(Tokens)] /\ got \in [Side -> Seq(Tokens)]
    BY Facts, TunnelParts DEF Given
  <2>7. CASE s = x
    <3>1. tunnel'.wbuf[s] = rest /\ got'[s] = got[x] \o front
      BY <2>5, <2>6, <2>7
    <3>2. PutUp(s)' = Len(got[x] \o front) + Len(rest)
      BY <3>1 DEF PutUp
    <3> QED
      <4>1. Len(got[x]) \in Nat
        BY <1>1
      <4>2. \A g, w, k \in Nat : k <= w => (g + k) + (w - k) <= g + w
        OBVIOUS
      <4>3. (Len(got[x]) + n) + (Len(tunnel.wbuf[x]) - n) <= Len(got[x]) + Len(tunnel.wbuf[x])
        BY <2>1, <4>1, <4>2, Zenon
      <4> QED
        BY <2>3, <2>4, <2>7, <3>2, <4>3, Zenon DEF PutUp
  <2>8. CASE s # x
    <3>1. tunnel'.wbuf[s] = tunnel.wbuf[s] /\ got'[s] = got[s]
      BY <2>5, <2>6, <2>8
    <3>2. PutUp(s)' = PutUp(s)
      BY <3>1 DEF PutUp
    <3> QED
      BY <1>2, <3>2
  <2> QED
    BY <2>7, <2>8
<1> QED
  BY <1>3, <1>4, FlowingStep DEF Waiting, Passing, Resting

\* terminal.h:16 and the freeze_flag of tunnel_connected_handle: from one step
\* to the next, whatever is read, written or connected meanwhile, a frozen
\* proxy whose directions are open puts up nothing more for either peer.
THEOREM FreezingHolds == Spec => FrozenHoldsTraffic
<1>1. IInv /\ [Next]_vars =>
         [(frozen /\ Flowing /\ frozen' /\ Flowing') =>
              \A s \in Side : PutUp(s)' <= PutUp(s)]_vars
  BY FrozenStep
<1> QED
  BY InitInv, StepInv, <1>1, PTL DEF Spec, FrozenHoldsTraffic

-----------------------------------------------------------------------------
(* A tunnel implements the relay.                                          *)

\* What the two sides of the mapping of Tunnel.tla are called.
Q == [s \in Side |-> Way(s)]
D == [s \in Side |-> Arrived(s)]
Nothing == [s \in Side |-> <<>>]
Replies == [s \in Side |-> IF s = "client" THEN <<method_reply, connect_reply>> ELSE <<>>]

LEMMA Phases ==
    /\ Flowing => Phase = "flowing"
    /\ (~Flowing /\ fate = "running" /\ tunnel.state # "connected_state") => Phase = "setup"
    /\ (~Flowing /\ ~(fate = "running" /\ tunnel.state # "connected_state")) => Phase = "closed"
    /\ ~Flowing => Q = Nothing /\ D = Nothing
<1>1. Flowing => Phase = "flowing"
  BY DEF Phase, Flowing
<1>2. (~Flowing /\ fate = "running" /\ tunnel.state # "connected_state") => Phase = "setup"
  BY DEF Phase
<1>3. (~Flowing /\ ~(fate = "running" /\ tunnel.state # "connected_state")) => Phase = "closed"
  BY DEF Phase
<1>4. ~Flowing => Q = Nothing /\ D = Nothing
  BY DEF Q, D, Nothing, Way, Arrived
<1> QED
  BY <1>1, <1>2, <1>3, <1>4

LEMMA PhasesNext ==
    /\ Flowing' => Phase' = "flowing"
    /\ (~Flowing' /\ fate' = "running" /\ tunnel'.state # "connected_state") => Phase' = "setup"
    /\ (~Flowing' /\ ~(fate' = "running" /\ tunnel'.state # "connected_state"))
          => Phase' = "closed"
    /\ ~Flowing' => Q' = Nothing /\ D' = Nothing
<1>1. Flowing' => Phase' = "flowing"
  BY DEF Phase, Flowing
<1>2. (~Flowing' /\ fate' = "running" /\ tunnel'.state # "connected_state") => Phase' = "setup"
  BY DEF Phase
<1>3. (~Flowing' /\ ~(fate' = "running" /\ tunnel'.state # "connected_state"))
         => Phase' = "closed"
  BY DEF Phase
<1>4. ~Flowing' => Q' = Nothing /\ D' = Nothing
  BY DEF Q, D, Nothing, Way, Arrived
<1> QED
  BY <1>1, <1>2, <1>3, <1>4

\* Once the process is gone nothing happens, and a tunnel that was connected
\* never flows anew.
LEMMA Halted ==
    ASSUME [Next]_vars, fate # "running"
    PROVE  UNCHANGED vars
  BY DEF Next, EpollWait, Dispatch, DispatchRead, DispatchReadFails, DispatchWrite,
         DispatchWriteFails, DispatchWriteNothing, DispatchStale, Dispatching,
         PeerSends, PeerEnds, PeerDrains, Alive, ConnectResolves, ToggleFreeze, Stop

LEMMA StepNarrow ==
    ASSUME IInv, [Next]_vars
    PROVE  Narrow(tunnel, tunnel')
<1>1. ASSUME NEW s \in Side,
             \/ DispatchRead(s) \/ DispatchReadFails(s)
             \/ DispatchWrite(s) \/ DispatchWriteFails(s)
             \/ DispatchWriteNothing(s)
      PROVE  Narrow(tunnel, tunnel')
  BY <1>1, DispatchReadStep, DispatchReadFailsStep, DispatchWriteStep,
     DispatchWriteFailsStep, DispatchWriteNothingStep
<1>2. CASE tunnel' = tunnel
  BY <1>2 DEF Narrow
<1>3. ASSUME NEW s \in Side, PeerSends(s) \/ PeerEnds(s) \/ PeerDrains(s)
      PROVE  tunnel' = tunnel
  BY <1>3 DEF PeerSends, PeerEnds, PeerDrains
<1>4. CASE EpollWait \/ DispatchStale \/ ConnectResolves \/ ToggleFreeze \/ Stop
           \/ UNCHANGED vars
  BY <1>2, <1>4 DEF EpollWait, DispatchStale, ConnectResolves, ToggleFreeze, Stop, vars
<1> QED
  BY <1>1, <1>2, <1>3, <1>4 DEF Next, Dispatch

-----------------------------------------------------------------------------
(* Sequences.                                                              *)

LEMMA TailOfConcat ==
    ASSUME NEW a \in Seq(Tokens), NEW b \in Seq(Tokens)
    PROVE  SubSeq(a \o b, Len(a) + 1, Len(a \o b)) = b
<1> DEFINE w == a \o b
           x == SubSeq(w, Len(a) + 1, Len(w))
<1>1. /\ w \in Seq(Tokens) /\ Len(w) = Len(a) + Len(b)
      /\ Len(a) \in Nat /\ Len(b) \in Nat
  BY Lengths
<1>2. \A i \in 1 .. Len(b) : w[Len(a) + i] = b[i]
  BY <1>1, ConcatProperties
<1> HIDE DEF w
<1>3. \A i \in Len(a) + 1 .. Len(w) : w[i] \in Tokens
  BY <1>1, ElementOfSeq
<1>4. /\ x \in Seq(Tokens)
      /\ Len(x) = IF Len(a) + 1 <= Len(w) THEN Len(w) - (Len(a) + 1) + 1 ELSE 0
      /\ \A i \in 1 .. Len(w) - (Len(a) + 1) + 1 : x[i] = w[Len(a) + 1 + i - 1]
  BY <1>1, <1>3, SubSeqProperties
<1> HIDE DEF x
<1>5. Len(x) = Len(b)
  BY <1>1, <1>4
<1>6. \A i \in 1 .. Len(x) : x[i] = b[i]
  BY <1>1, <1>2, <1>4, <1>5
<1>7. x = b
  BY <1>4, <1>5, <1>6, SeqEqual
<1> QED
  BY <1>7 DEF w, x

LEMMA FrontOfConcat ==
    ASSUME NEW a \in Seq(Tokens), NEW b \in Seq(Tokens), NEW n \in Nat, n <= Len(a)
    PROVE  SubSeq(a \o b, 1, n) = SubSeq(a, 1, n)
<1> DEFINE w == a \o b
           x == SubSeq(w, 1, n)
           y == SubSeq(a, 1, n)
<1>1. /\ w \in Seq(Tokens) /\ Len(w) = Len(a) + Len(b)
      /\ Len(a) \in Nat /\ Len(b) \in Nat
  BY Lengths
<1>2. \A i \in 1 .. Len(a) : w[i] = a[i]
  BY <1>1, ConcatProperties
<1> HIDE DEF w
<1>3. \A i \in 1 .. n : w[i] \in Tokens /\ a[i] \in Tokens
  BY <1>1, ElementOfSeq
<1>4. /\ x \in Seq(Tokens)
      /\ Len(x) = IF 1 <= n THEN n - 1 + 1 ELSE 0
      /\ \A i \in 1 .. n - 1 + 1 : x[i] = w[1 + i - 1]
  BY <1>1, <1>3, SubSeqProperties
<1>5. /\ y \in Seq(Tokens)
      /\ Len(y) = IF 1 <= n THEN n - 1 + 1 ELSE 0
      /\ \A i \in 1 .. n - 1 + 1 : y[i] = a[1 + i - 1]
  BY <1>1, <1>3, SubSeqProperties
<1> HIDE DEF x, y
<1>6. Len(x) = Len(y) /\ Len(x) = n
  BY <1>4, <1>5
<1>7. \A i \in 1 .. Len(x) : x[i] = y[i]
  BY <1>1, <1>2, <1>4, <1>5, <1>6
<1>8. x = y
  BY <1>4, <1>5, <1>6, <1>7, SeqEqual
<1> QED
  BY <1>8 DEF w, x, y

LEMMA RestOfConcat ==
    ASSUME NEW a \in Seq(Tokens), NEW b \in Seq(Tokens), NEW n \in 1 .. Len(a)
    PROVE  SubSeq(a \o b, n + 1, Len(a \o b)) = SubSeq(a, n + 1, Len(a)) \o b
<1> DEFINE f == SubSeq(a, 1, n)
           g == SubSeq(a, n + 1, Len(a))
<1>1. f \in Seq(Tokens) /\ Len(f) = n /\ g \in Seq(Tokens) /\ f \o g = a
  BY Split
<1> HIDE DEF f, g
<1>2. g \o b \in Seq(Tokens) /\ a \o b = f \o (g \o b)
  <2>1. g \o b \in Seq(Tokens)
    BY <1>1, Lengths
  <2>2. (f \o g) \o b = f \o (g \o b)
    BY <1>1, Regrouped, ZenonT(60)
  <2> QED
    BY <1>1, <2>1, <2>2
<1>3. SubSeq(f \o (g \o b), Len(f) + 1, Len(f \o (g \o b))) = g \o b
  BY <1>1, <1>2, TailOfConcat
<1> QED
  BY <1>1, <1>2, <1>3 DEF g

-----------------------------------------------------------------------------
(* Every step maps to a step of the relay or to none.                      *)

LEMMA QueueTypes ==
    ASSUME IInv
    PROVE  /\ \A s \in Side : /\ tunnel.wbuf[s] \in Seq(Tokens) /\ tunnel.rbuf[s] \in Seq(Tokens)
                              /\ got[s] \in Seq(Tokens)
           /\ \A s \in Side : tunnel.wbuf[s] \o tunnel.rbuf[Peer(s)] \in Seq(Tokens)
           /\ tunnel.wbuf \in [Side -> Seq(Tokens)] /\ tunnel.rbuf \in [Side -> Seq(Tokens)]
           /\ got \in [Side -> Seq(Tokens)]
           /\ Q \in [Side -> Seq(Tokens)] /\ D \in [Side -> Seq(Tokens)]
<1>1. /\ tunnel.wbuf \in [Side -> Seq(Tokens)] /\ tunnel.rbuf \in [Side -> Seq(Tokens)]
      /\ got \in [Side -> Seq(Tokens)]
  BY Facts, TunnelParts DEF Given
<1>2. \A s \in Side : /\ tunnel.wbuf[s] \in Seq(Tokens) /\ tunnel.rbuf[s] \in Seq(Tokens)
                      /\ got[s] \in Seq(Tokens)
  BY <1>1
<1>3. \A s \in Side : tunnel.wbuf[s] \o tunnel.rbuf[Peer(s)] \in Seq(Tokens)
  BY <1>2, Sides, Lengths
<1>4. \A s \in Side : Way(s) \in Seq(Tokens) /\ Arrived(s) \in Seq(Tokens)
  <2>1. CASE Flowing
    BY <1>2, <1>3, <2>1 DEF Way, Arrived
  <2>2. CASE ~Flowing
    <3>1. <<>> \in Seq(Tokens)
      BY EmptySeq
    <3> QED
      BY <2>2, <3>1 DEF Way, Arrived
  <2> QED
    BY <2>1, <2>2
<1>5. Q \in [Side -> Seq(Tokens)] /\ D \in [Side -> Seq(Tokens)]
  BY <1>4 DEF Q, D
<1> QED
  BY <1>1, <1>2, <1>3, <1>5

\* While it flows, what is queued for s is in two buffers.
LEMMA Queued ==
    ASSUME Flowing
    PROVE  \A s \in Side : Q[s] = tunnel.wbuf[s] \o tunnel.rbuf[Peer(s)] /\ D[s] = got[s]
  BY DEF Q, D, Way, Arrived

LEMMA QueuedNext ==
    ASSUME Flowing'
    PROVE  \A s \in Side : Q'[s] = tunnel'.wbuf[s] \o tunnel'.rbuf[Peer(s)] /\ D'[s] = got'[s]
  BY DEF Q, D, Way, Arrived

\* tunnel_connected_handle, frozen or not, accepts bytes for the peer.
LEMMA AcceptsStep ==
    ASSUME IInv, Flowing, Flowing', NEW s \in Side, NEW bs \in Seq(Tokens),
           Waiting(s, bs) \/ Passing(s, bs)
    PROVE  R!Accepts(Peer(s), SubSeq(Q'[Peer(s)], Len(Q[Peer(s)]) + 1, Len(Q'[Peer(s)])))
<1> DEFINE p == Peer(s)
           w == tunnel.wbuf[p]
           b == tunnel.rbuf[s]
<1>1. p \in Side /\ Peer(p) = s /\ p # s /\ \A x \in Side : x # p => x = s /\ Peer(x) = p
  BY Sides
<1>2. /\ tunnel.wbuf \in [Side -> Seq(Tokens)] /\ tunnel.rbuf \in [Side -> Seq(Tokens)]
      /\ w \in Seq(Tokens) /\ b \in Seq(Tokens)
  BY <1>1, QueueTypes
<1>3. /\ tunnel'.wbuf[p] \o tunnel'.rbuf[s] = (w \o b) \o bs
      /\ tunnel'.wbuf[s] = tunnel.wbuf[s] /\ tunnel'.rbuf[p] = tunnel.rbuf[p]
      /\ got' = got
  <2>1. w \o (b \o bs) = (w \o b) \o bs /\ (w \o (b \o bs)) \o <<>> = (w \o b) \o bs
    BY <1>2, Regrouped
  <2>2. CASE Waiting(s, bs)
    <3>1. /\ tunnel'.wbuf[p] = w /\ tunnel'.rbuf[s] = b \o bs
          /\ tunnel'.wbuf[s] = tunnel.wbuf[s] /\ tunnel'.rbuf[p] = tunnel.rbuf[p]
          /\ got' = got
      BY <1>1, <1>2, <2>2 DEF Waiting
    <3> HIDE DEF w, b, p
    <3> QED
      BY <2>1, <3>1
  <2>3. CASE Passing(s, bs)
    <3>1. /\ tunnel'.wbuf[p] = w \o (b \o bs) /\ tunnel'.rbuf[s] = <<>>
          /\ tunnel'.wbuf[s] = tunnel.wbuf[s] /\ tunnel'.rbuf[p] = tunnel.rbuf[p]
          /\ got' = got
      BY <1>1, <1>2, <2>3 DEF Passing
    <3> HIDE DEF w, b, p
    <3> QED
      BY <2>1, <3>1
  <2> QED
    BY <2>2, <2>3
<1>4. /\ Q[p] = w \o b /\ Q'[p] = (w \o b) \o bs
      /\ Q'[s] = Q[s] /\ D'[p] = D[p] /\ D'[s] = D[s]
  <2>1. /\ Q[p] = tunnel.wbuf[p] \o tunnel.rbuf[Peer(p)] /\ D[p] = got[p]
        /\ Q[s] = tunnel.wbuf[s] \o tunnel.rbuf[Peer(s)] /\ D[s] = got[s]
    BY <1>1, Queued
  <2>2. /\ Q'[p] = tunnel'.wbuf[p] \o tunnel'.rbuf[Peer(p)] /\ D'[p] = got'[p]
        /\ Q'[s] = tunnel'.wbuf[s] \o tunnel'.rbuf[Peer(s)] /\ D'[s] = got'[s]
    BY <1>1, QueuedNext
  <2> QED
    BY <1>1, <1>3, <2>1, <2>2
<1>5. w \o b \in Seq(Tokens)
  BY <1>2, Lengths
<1> HIDE DEF w, b, p
<1>6. SubSeq(Q'[p], Len(Q[p]) + 1, Len(Q'[p])) = bs
  BY <1>4, <1>5, TailOfConcat
<1>7. /\ Q = [x \in Side |-> Q[x]] /\ Q' = [x \in Side |-> Q'[x]]
      /\ D = [x \in Side |-> D[x]] /\ D' = [x \in Side |-> D'[x]]
  BY DEF Q, D
<1>8. Q' = [Q EXCEPT ![p] = @ \o bs]
  BY <1>1, <1>4, <1>7
<1>9. D' = D
  BY <1>1, <1>4, <1>7
<1>10. Phase = "flowing" /\ Phase' = "flowing"
  BY Phases, PhasesNext
<1>11. R!Accepts(p, bs)
  BY <1>8, <1>9, <1>10 DEF R!Accepts, Q, D
<1> QED
  BY <1>6, <1>11 DEF p

\* write(2) delivers from the front of what is queued.
LEMMA DeliversStep ==
    ASSUME IInv, Flowing, Flowing', NEW s \in Side, NEW n \in 1 .. Len(tunnel.wbuf[s]),
           Sending(s, n)
    PROVE  n \in 1 .. Len(Q[s]) /\ R!Delivers(s, n)
<1> DEFINE p == Peer(s)
           w == tunnel.wbuf[s]
           b == tunnel.rbuf[p]
           front == SubSeq(w, 1, n)
           rest == SubSeq(w, n + 1, Len(w))
<1>1. p \in Side /\ Peer(p) = s /\ p # s /\ \A x \in Side : x # p => x = s
  BY Sides
<1>2. /\ tunnel.wbuf \in [Side -> Seq(Tokens)] /\ got \in [Side -> Seq(Tokens)]
      /\ w \in Seq(Tokens) /\ b \in Seq(Tokens)
  BY <1>1, QueueTypes
<1>3. /\ tunnel'.wbuf[s] = rest /\ tunnel'.wbuf[p] = tunnel.wbuf[p]
      /\ tunnel'.rbuf = tunnel.rbuf
      /\ got'[s] = got[s] \o front /\ got'[p] = got[p]
  BY <1>1, <1>2 DEF Sending
<1>4. /\ Q[s] = w \o b /\ Q'[s] = rest \o b /\ Q'[p] = Q[p]
      /\ D'[s] = D[s] \o front /\ D'[p] = D[p]
  <2>1. /\ Q[p] = tunnel.wbuf[p] \o tunnel.rbuf[Peer(p)] /\ D[p] = got[p]
        /\ Q[s] = tunnel.wbuf[s] \o tunnel.rbuf[Peer(s)] /\ D[s] = got[s]
    BY <1>1, Queued
  <2>2. /\ Q'[p] = tunnel'.wbuf[p] \o tunnel'.rbuf[Peer(p)] /\ D'[p] = got'[p]
        /\ Q'[s] = tunnel'.wbuf[s] \o tunnel'.rbuf[Peer(s)] /\ D'[s] = got'[s]
    BY <1>1, QueuedNext
  <2> HIDE DEF front, rest
  <2> QED
    BY <1>1, <1>3, <2>1, <2>2
<1>5. /\ Len(w) \in Nat /\ n \in Nat /\ 1 <= n /\ n <= Len(w) /\ Len(b) \in Nat
      /\ Len(w \o b) = Len(w) + Len(b)
  <2>1. Len(w) \in Nat /\ Len(b) \in Nat /\ Len(w \o b) = Len(w) + Len(b)
    BY <1>2, Lengths
  <2> QED
    BY <2>1
<1>6. n \in 1 .. Len(Q[s])
  <2>1. Len(Q[s]) = Len(w) + Len(b)
    BY <1>4, <1>5
  <2>2. \A i, k, l \in Nat : (1 <= i /\ i <= k) => i \in 1 .. (k + l)
    OBVIOUS
  <2> HIDE DEF w, b
  <2>3. n \in 1 .. (Len(w) + Len(b))
    BY <1>5, <2>2, Zenon
  <2> QED
    BY <2>1, <2>3
<1>7. front = SubSeq(w \o b, 1, n)
  BY <1>2, <1>5, FrontOfConcat
<1>8. rest \o b = SubSeq(w \o b, n + 1, Len(w \o b))
  BY <1>2, RestOfConcat
<1>9. /\ Q'[s] = SubSeq(Q[s], n + 1, Len(Q[s]))
      /\ D'[s] = D[s] \o SubSeq(Q[s], 1, n)
  <2> HIDE DEF front, rest, w, b
  <2> QED
    BY <1>4, <1>7, <1>8
<1>10. /\ Q = [x \in Side |-> Q[x]] /\ Q' = [x \in Side |-> Q'[x]]
       /\ D = [x \in Side |-> D[x]] /\ D' = [x \in Side |-> D'[x]]
  BY DEF Q, D
<1> HIDE DEF front, rest, w, b, p
<1>11. /\ Q' = [Q EXCEPT ![s] = SubSeq(@, n + 1, Len(@))]
       /\ D' = [D EXCEPT ![s] = @ \o SubSeq(Q[s], 1, n)]
  <2> DEFINE q == SubSeq(Q[s], n + 1, Len(Q[s]))
             d == D[s] \o SubSeq(Q[s], 1, n)
  <2>1. Q'[s] = q /\ Q'[p] = Q[p] /\ D'[s] = d /\ D'[p] = D[p]
    BY <1>4, <1>9
  <2> HIDE DEF q, d
  <2>2. Q' = [Q EXCEPT ![s] = q] /\ D' = [D EXCEPT ![s] = d]
    BY <1>1, <1>10, <2>1
  <2> QED
    BY <2>2 DEF q, d
<1>12. Phase = "flowing" /\ Phase' = "flowing"
  BY Phases, PhasesNext
<1>13. R!Delivers(s, n)
  BY <1>11, <1>12 DEF R!Delivers, Q, D
<1> QED
  BY <1>6, <1>13

\* When it starts to flow both replies are on their way to the client.
Begun ==
    /\ Q \in [Side -> Seq(Tokens)] /\ D \in [Side -> Seq(Tokens)]
    /\ \A s \in Side : Replies[s] = SubSeq(D[s] \o Q[s], 1, Len(Replies[s]))

LEMMA Beginning == (IInv /\ Flowing) => Begun
<1> SUFFICES ASSUME IInv, Flowing PROVE Begun
  OBVIOUS
<1> DEFINE both == <<method_reply, connect_reply>>
           old == SubSeq(RS, 1, nread["remote"])
           g == got["client"]
           w == tunnel.wbuf["client"]
           b == tunnel.rbuf["remote"]
<1>1. g \o w \o b = both \o old
  BY FlowingFlows DEF IInv, Sound, Conserves
<1>2. g \in Seq(Tokens) /\ w \in Seq(Tokens) /\ b \in Seq(Tokens)
  BY QueueTypes, Sides
<1>3. both \in Seq(Tokens) /\ Len(both) = 2
  BY DEF Tokens
<1>4. old \in Seq(Tokens)
  <2>1. RS \in Seq(Tokens) /\ nread["remote"] \in Nat /\ nread["remote"] <= Len(RS)
    BY Facts, Sides DEF Given
  <2> QED
    BY <2>1, PieceLength
<1>5. D["client"] = g /\ Q["client"] = w \o b
  BY Queued, Sides
<1>6. Replies["client"] = both /\ Replies["remote"] = <<>>
  BY Sides DEF Replies
<1>7. \A s \in Side : D[s] \o Q[s] \in Seq(Tokens)
  BY QueueTypes, Lengths
<1> HIDE DEF both, old, g, w, b
<1>8. D["client"] \o Q["client"] = both \o old
  <2>1. g \o (w \o b) = (g \o w) \o b
    BY <1>2, Regrouped
  <2> QED
    BY <1>1, <1>5, <2>1
<1>9. SubSeq(both \o old, 1, 2) = both
  <2>1. SubSeq(both, 1, Len(both)) = both
    BY <1>3, SubSeqFull
  <2>2. SubSeq(both \o old, 1, Len(both)) = SubSeq(both, 1, Len(both))
    <3>1. Len(both) \in Nat /\ Len(both) <= Len(both)
      BY <1>3
    <3> QED
      BY <1>3, <1>4, <3>1, FrontOfConcat
  <2> QED
    BY <1>3, <2>1, <2>2
<1>10. Replies["client"] = SubSeq(D["client"] \o Q["client"], 1, Len(Replies["client"]))
  BY <1>3, <1>6, <1>8, <1>9
<1>11. Replies["remote"] = SubSeq(D["remote"] \o Q["remote"], 1, Len(Replies["remote"]))
  <2>1. Len(<<>>) = 0
    OBVIOUS
  <2>2. SubSeq(D["remote"] \o Q["remote"], 1, 0) = <<>>
    BY <1>7, Sides, SubSeqEmpty
  <2> QED
    BY <1>6, <2>1, <2>2
<1> QED
  BY <1>10, <1>11, QueueTypes, Sides DEF Begun

LEMMA BeginningNext == (IInv' /\ Flowing') => Begun'
  BY Beginning, PTL

LEMMA InitRelay == Init => R!Init
<1> SUFFICES ASSUME Init PROVE R!Init
  OBVIOUS
<1>1. fate = "running" /\ tunnel.state = "open_state"
  BY DEF Init, Created
<1>2. ~Flowing
  BY <1>1 DEF Flowing
<1>3. Phase = "setup" /\ Q = Nothing /\ D = Nothing
  BY <1>1, <1>2, Phases
<1> QED
  BY <1>3 DEF R!Init, Q, D, Nothing

LEMMA StepRelay ==
    ASSUME IInv, IInv', [Next]_vars
    PROVE  [R!Next]_<<Phase, Q, D>>
<1>1. CASE Flowing /\ Flowing'
  <2>1. ASSUME NEW s \in Side, NEW bs \in Seq(Tokens), Waiting(s, bs) \/ Passing(s, bs)
        PROVE  R!Next
    <3> DEFINE p == Peer(s)
    <3>1. p \in Side /\ R!Accepts(p, SubSeq(Q'[p], Len(Q[p]) + 1, Len(Q'[p])))
      BY <1>1, <2>1, AcceptsStep, Sides
    <3> HIDE DEF p
    <3> QED
      BY <3>1 DEF R!Next, Q
  <2>2. ASSUME NEW s \in Side, NEW n \in 1 .. Len(tunnel.wbuf[s]), Sending(s, n)
        PROVE  R!Next
    <3>1. n \in 1 .. Len(Q[s]) /\ R!Delivers(s, n)
      BY <1>1, <2>2, DeliversStep
    <3> QED
      BY <3>1 DEF R!Next, Q
  <2>3. ASSUME Resting PROVE UNCHANGED <<Phase, Q, D>>
    <3>1. Phase = "flowing" /\ Phase' = "flowing"
      BY <1>1, Phases, PhasesNext
    <3>2. /\ \A s \in Side : Q[s] = tunnel.wbuf[s] \o tunnel.rbuf[Peer(s)] /\ D[s] = got[s]
          /\ \A s \in Side : /\ Q'[s] = tunnel'.wbuf[s] \o tunnel'.rbuf[Peer(s)]
                             /\ D'[s] = got'[s]
      BY <1>1, Queued, QueuedNext
    <3>3. \A s \in Side : Q'[s] = Q[s] /\ D'[s] = D[s]
      BY <2>3, <3>2 DEF Resting
    <3>4. /\ Q = [x \in Side |-> Q[x]] /\ Q' = [x \in Side |-> Q'[x]]
          /\ D = [x \in Side |-> D[x]] /\ D' = [x \in Side |-> D'[x]]
      BY DEF Q, D
    <3>5. Q' = Q /\ D' = D
      BY <3>3, <3>4
    <3> QED
      BY <3>1, <3>5
  <2> QED
    BY <1>1, <2>1, <2>2, <2>3, FlowingStep
<1>2. CASE Flowing /\ ~Flowing'
  <2>1. tunnel'.state = "connected_state"
    BY <1>2, StepNarrow DEF Narrow, Flowing
  <2>2. Phase' = "closed" /\ Q' = Nothing /\ D' = Nothing
    BY <1>2, <2>1, PhasesNext
  <2>3. R!Closes
    BY <2>2 DEF R!Closes, Q, D, Nothing
  <2> QED
    BY <2>3 DEF R!Next
<1>3. CASE ~Flowing /\ Flowing'
  <2>1. fate = "running"
    <3>1. fate # "running" => UNCHANGED <<tunnel, fate>>
      BY Halted DEF vars
    <3> QED
      BY <1>3, <3>1 DEF Flowing
  <2>2. tunnel.state # "connected_state"
    BY <1>3, <2>1, StepNarrow DEF Narrow, Flowing
  <2>3. Phase = "setup" /\ Phase' = "flowing" /\ Begun'
    BY <1>3, <2>1, <2>2, Phases, PhasesNext, BeginningNext
  <2>4. R!Starts
    BY <2>3 DEF R!Starts, Begun, Replies, Q, D
  <2> QED
    BY <2>4 DEF R!Next
<1>4. CASE ~Flowing /\ ~Flowing'
  <2>1. Q = Nothing /\ D = Nothing /\ Q' = Nothing /\ D' = Nothing
    BY <1>4, Phases, PhasesNext
  <2>2. Q' = Q /\ D' = D
    BY <2>1 DEF Nothing
  <2>3. CASE fate' = "running" /\ tunnel'.state # "connected_state"
    <3>1. fate = "running"
      BY <2>3, Halted DEF vars
    <3>2. tunnel.state # "connected_state"
      BY <2>3, StepNarrow DEF Narrow
    <3>3. Phase = "setup" /\ Phase' = "setup"
      BY <1>4, <2>3, <3>1, <3>2, Phases, PhasesNext
    <3> QED
      BY <2>2, <3>3
  <2>4. CASE ~(fate' = "running" /\ tunnel'.state # "connected_state")
    <3>1. Phase' = "closed"
      BY <1>4, <2>4, PhasesNext
    <3>2. R!Closes
      BY <2>1, <3>1 DEF R!Closes, Q, D, Nothing
    <3> QED
      BY <3>2 DEF R!Next
  <2> QED
    BY <2>3, <2>4
<1> QED
  BY <1>1, <1>2, <1>3, <1>4

\* From the success reply until a direction closes a tunnel is the relay of
\* Relay.tla: each step of the code queues bytes for one peer, delivers from the
\* front of one queue, or does nothing that a peer could tell.
THEOREM TunnelIsRelay == Spec => ImplementsRelay
<1>1. IInv /\ IInv' /\ [Next]_vars => [R!Next]_<<Phase, Q, D>>
  BY StepRelay
<1>2. <<Phase, Q, D>> = R!relayVars
  BY DEF R!relayVars, Q, D
<1> QED
  BY InitInv, StepInv, InitRelay, <1>1, <1>2, PTL
     DEF Spec, ImplementsRelay, R!Spec, R!relayVars, Q, D

=============================================================================
