------------------------------- MODULE Tunnel -------------------------------
(***************************************************************************)
(* One tunnel of the proxy with the event loop of src/src/server.c and the *)
(* two TCP connections underneath.  Each dispatch of an event is one       *)
(* action, made of the operators of TunnelOps.tla; the kernel, the peers,  *)
(* the terminal thread and a signal interleave with them.                  *)
(***************************************************************************)
EXTENDS TunnelOps, FiniteSets, SequencesExt

CONSTANTS Data,    \* tokens of payload
          Setups,  \* what may be set up: a subset of SetupType
          MaxGot   \* length of the history of what a peer was sent

\* Who talks through the tunnel, and what the operator may do meanwhile.
SetupType ==
    [client_data : Seq(Data),    \* payload of the two peers, in order
     remote_data : Seq(Data),
     family : Family,
     lockstep : BOOLEAN,         \* does the client wait for each reply
     dial_at_once : BOOLEAN,     \* can connect(2) complete immediately
     max_toggles : Nat,          \* times the operator types "freeze"
     may_stop : BOOLEAN]         \* can the operator stop the proxy

\* A buffer takes both replies, the 2 bytes of the one and the at most 22 of the
\* other: it is created with room for INIT_BUFF_CAP bytes (sock.c:76).
ASSUME TunnelAssumption ==
    /\ BufMax >= 2 /\ MaxGot \in Nat
    /\ Setups \subseteq SetupType
    /\ \A s \in Setups : Len(s.client_data) + Len(s.remote_data) + 2 <= MaxGot

VARIABLES
    setup,    \* one of Setups: it never changes
    tunnel,   \* the tunnel_t, its two sock_t and their epoll interest
    sent,     \* tokens each peer has sent
    nread,    \* tokens the proxy has read from each socket
    fin,      \* has the peer's stream ended: "open", "eof" or "reset"
    room,     \* does the kernel have room for more output to the peer
    got,      \* tokens handed to the kernel for each peer, oldest first
    conn,     \* the remote connection: "none", "pending", "up", "refused"
    batch,    \* events of the last epoll_wait not dispatched yet
    frozen,   \* freeze_flag
    toggles,  \* times it was toggled
    fate      \* of the process: "running", "exited", or how it went wrong

kernel == <<sent, nread, fin, room, got, conn>>
terminal == <<frozen, toggles, setup>>
vars == <<tunnel, kernel, batch, terminal, fate>>

ClientData == setup.client_data
RemoteData == setup.remote_data

Stream == [s \in Side |-> IF s = "client" THEN <<greeting, request>> \o ClientData
                                          ELSE RemoteData]

-----------------------------------------------------------------------------

Init ==
    /\ setup \in Setups
    /\ tunnel = Created(setup.family)
    /\ sent = [s \in Side |-> 0]
    /\ nread = [s \in Side |-> 0]
    /\ fin = [s \in Side |-> "open"]
    /\ room = [s \in Side |-> TRUE]
    /\ got = [s \in Side |-> <<>>]
    /\ conn = "none"
    /\ batch = <<>>
    /\ frozen = FALSE
    /\ toggles = 0
    /\ fate = "running"

-----------------------------------------------------------------------------
(* The event loop: server_start.                                           *)

Unread(s) == sent[s] - nread[s]

\* What poll would report on the socket of s.
Readable(s) == \/ s = "remote" /\ conn = "refused"
               \/ Unread(s) > 0 \/ fin[s] # "open"
Writable(s) == \/ s = "remote" /\ conn = "refused"
               \/ room[s] \/ fin[s] = "reset"
Connected(s) == s = "remote" => conn \in {"up", "refused"}

CanRead(s) == Connected(s) /\ Readable(s) /\ "in" \in tunnel.interest[s]
CanWrite(s) == Connected(s) /\ Writable(s) /\ "out" \in tunnel.interest[s]

\* The loop looks at EPOLLIN first and, when it is set, not at EPOLLOUT.
Handler(s) == IF CanRead(s) THEN "read" ELSE "write"

Events == {[sock |-> s, handler |-> Handler(s)] :
              s \in {x \in Side : CanRead(x) \/ CanWrite(x)}}

EpollWait ==
    /\ fate = "running"
    /\ batch = <<>>
    /\ Events # {}
    /\ batch' \in SetToSeqs(Events)
    /\ UNCHANGED <<tunnel, kernel, terminal, fate>>

\* The event at the head of the batch is for s, which is still there.
Dispatching(s, handler) ==
    /\ fate = "running"
    /\ batch # <<>>
    /\ Head(batch) = [sock |-> s, handler |-> handler]
    /\ Open(tunnel, s)
    /\ batch' = Tail(batch)

Returns(r) ==
    /\ tunnel' = r.t
    /\ fate' = IF r.bad = "no" THEN "running" ELSE r.bad

SoError == conn = "refused" \/ fin["remote"] = "reset"

\* What connect(2) can answer when this dispatch calls it.
Outcomes(t) ==
    IF t.state # "request_state" THEN {conn}
    ELSE {"failed", "pending"} \cup (IF setup.dial_at_once THEN {"up"} ELSE {})

DispatchRead(s) ==
    /\ Dispatching(s, "read")
    /\ Len(tunnel.rbuf[s]) < BufMax
    /\ \E n \in 1 .. Unread(s), outcome \in Outcomes(tunnel) :
          /\ Len(tunnel.rbuf[s]) + n <= BufMax
          /\ nread' = [nread EXCEPT ![s] = @ + n]
          /\ conn' = IF outcome = "failed" THEN conn ELSE outcome
          /\ LET bytes == SubSeq(Stream[s], nread[s] + 1, nread[s] + n)
             IN  Returns(ReadHandle([tunnel EXCEPT !.rbuf[s] = @ \o bytes],
                                    s, outcome, SoError, frozen))
    /\ UNCHANGED <<sent, fin, room, got, terminal>>

\* End of file, an error on the socket, or a read_buffer that cannot grow.
DispatchReadFails(s) ==
    /\ Dispatching(s, "read")
    /\ Unread(s) = 0 \/ Len(tunnel.rbuf[s]) = BufMax
    /\ Returns(Ok(SockShutdown(tunnel, s)))
    /\ UNCHANGED <<kernel, terminal>>

\* The history keeps the first MaxGot tokens.
Recorded(history, bs) ==
    SubSeq(history \o bs, 1, IF Len(history) + Len(bs) < MaxGot
                             THEN Len(history) + Len(bs) ELSE MaxGot)

\* write(2) takes some of the bytes; taking fewer means it ran out of room.
DispatchWrite(s) ==
    /\ Dispatching(s, "write")
    /\ tunnel.wbuf[s] # <<>>
    /\ fin[s] # "reset"
    /\ \E n \in 1 .. Len(tunnel.wbuf[s]) :
          /\ got' = [got EXCEPT ![s] = Recorded(@, SubSeq(tunnel.wbuf[s], 1, n))]
          /\ \E more \in {FALSE, n = Len(tunnel.wbuf[s])} : room' = [room EXCEPT ![s] = more]
          /\ Returns(WriteHandle([tunnel EXCEPT !.wbuf[s] = SubSeq(@, n + 1, Len(@))],
                                 s, SoError))
    /\ UNCHANGED <<sent, nread, fin, conn, terminal>>

\* Mutant: an error of write(2) is taken for a full socket.
DispatchWriteFailsIgnored(s) ==
    /\ Dispatching(s, "write")
    /\ tunnel.wbuf[s] # <<>>
    /\ fin[s] = "reset"
    /\ Returns(Ok(tunnel))
    /\ UNCHANGED <<kernel, terminal>>
DispatchWriteFails(s) ==
    /\ Dispatching(s, "write")
    /\ tunnel.wbuf[s] # <<>>
    /\ fin[s] = "reset"
    /\ Returns(Ok(SockRelease(tunnel, s)))
    /\ UNCHANGED <<kernel, terminal>>

DispatchWriteNothing(s) ==
    /\ Dispatching(s, "write")
    /\ tunnel.wbuf[s] = <<>>
    /\ IF tunnel.sock[s] = "halfclosed"
       THEN Returns(Ok(SockRelease(tunnel, s)))
       ELSE Returns(WriteHandle(tunnel, s, SoError))
    /\ UNCHANGED <<kernel, terminal>>

\* The sock_t the event points to was freed by an earlier event of the batch.
DispatchStale ==
    /\ fate = "running"
    /\ batch # <<>>
    /\ ~Open(tunnel, Head(batch).sock)
    /\ fate' = "dangling"
    /\ batch' = Tail(batch)
    /\ UNCHANGED <<tunnel, kernel, terminal>>

Dispatch ==
    \/ \E s \in Side : \/ DispatchRead(s) \/ DispatchReadFails(s)
                       \/ DispatchWrite(s) \/ DispatchWriteFails(s)
                       \/ DispatchWriteNothing(s)
    \/ DispatchStale

-----------------------------------------------------------------------------
(* The peers and the network.                                              *)

\* A connection that exists at both ends.
Alive(s) == /\ fate = "running"
            /\ Open(tunnel, s)
            /\ s = "remote" => conn = "up"

\* A client in lockstep says nothing before the reply to what it said.
MaySend(s) == (s = "client" /\ setup.lockstep) =>
                  Len(got["client"]) >= (IF sent[s] < 2 THEN sent[s] ELSE 2)

PeerSends(s) ==
    /\ Alive(s)
    /\ fin[s] = "open"
    /\ sent[s] < Len(Stream[s])
    /\ MaySend(s)
    /\ sent' = [sent EXCEPT ![s] = @ + 1]
    /\ UNCHANGED <<tunnel, nread, fin, room, got, conn, batch, terminal, fate>>

PeerEnds(s) ==
    /\ Alive(s)
    /\ \/ fin[s] = "open" /\ fin' = [fin EXCEPT ![s] = "eof"]
       \/ fin[s] # "reset" /\ fin' = [fin EXCEPT ![s] = "reset"]
    /\ UNCHANGED <<tunnel, sent, nread, room, got, conn, batch, terminal, fate>>

\* The peer reads, and the kernel has room again.
PeerDrains(s) ==
    /\ Alive(s)
    /\ ~room[s]
    /\ room' = [room EXCEPT ![s] = TRUE]
    /\ UNCHANGED <<tunnel, sent, nread, fin, got, conn, batch, terminal, fate>>

ConnectResolves ==
    /\ fate = "running"
    /\ Open(tunnel, "remote")
    /\ conn = "pending"
    /\ conn' \in {"up", "refused"}
    /\ UNCHANGED <<tunnel, sent, nread, fin, room, got, batch, terminal, fate>>

-----------------------------------------------------------------------------
(* The terminal thread and SIGINT.                                         *)

ToggleFreeze ==
    /\ fate = "running"
    /\ toggles < setup.max_toggles
    /\ frozen' = ~frozen
    /\ toggles' = toggles + 1
    /\ UNCHANGED <<setup, tunnel, kernel, batch, fate>>

\* handle_signal: exit(EXIT_SUCCESS), whatever the loop is doing.
Stop ==
    /\ setup.may_stop
    /\ fate = "running"
    /\ fate' = "exited"
    /\ UNCHANGED <<tunnel, kernel, batch, terminal>>

-----------------------------------------------------------------------------
Next ==
    \/ EpollWait
    \/ Dispatch
    \/ \E s \in Side : PeerSends(s) \/ PeerEnds(s) \/ PeerDrains(s)
    \/ ConnectResolves
    \/ ToggleFreeze
    \/ Stop

\* The loop runs, a connect is answered one way or the other, and peers read
\* what they are sent.  Nothing obliges a peer to send, to close or to reset.
Spec == /\ Init /\ [][Next]_vars
        /\ WF_vars(EpollWait) /\ WF_vars(Dispatch)
        /\ WF_vars(ConnectResolves)
        /\ \A s \in Side : WF_vars(PeerDrains(s))
-----------------------------------------------------------------------------
(* Properties *)

Tokens == {greeting, request, method_reply, connect_reply} \cup Data

TypeOK ==
    /\ setup \in Setups
    /\ tunnel \in TunnelT(Tokens)
    /\ \A s \in Side : /\ Len(tunnel.rbuf[s]) <= BufMax
                       /\ Len(tunnel.wbuf[s]) <= BufMax
    /\ got \in [Side -> Seq(Tokens)]
    /\ sent \in [Side -> Nat] /\ nread \in [Side -> Nat]
    /\ \A s \in Side : nread[s] <= sent[s]
    /\ fin \in [Side -> {"open", "eof", "reset"}]
    /\ room \in [Side -> BOOLEAN]
    /\ conn \in {"none", "pending", "up", "refused"}
    /\ batch \in Seq([sock : Side, handler : {"read", "write"}])
    /\ frozen \in BOOLEAN
    /\ toggles \in 0 .. setup.max_toggles
    /\ fate \in {"running", "exited", "aborted", "crashed", "dangling"}

\* The tunnel is established and neither direction has begun to close.
Flowing == /\ fate = "running"
           /\ tunnel.state = "connected_state"
           /\ \A s \in Side : tunnel.sock[s] = "connected"

\* What the proxy has read of the payload of s: a client's is behind its
\* greeting and its request.
Before(s) == IF s = "client" THEN 2 ELSE 0
PayloadRead(s) == SubSeq(Stream[s], Before(s) + 1, nread[s])

\* Until a direction closes, what a peer was sent, what waits to be sent to it
\* and what was read for it and not forwarded are, in that order, the bytes
\* read from the other peer: none lost, repeated or overtaken, across partial
\* writes, freezing and events in any order, and the client's replies first.
BytesConserved ==
    Flowing =>
        /\ got["remote"] \o tunnel.wbuf["remote"] \o tunnel.rbuf["client"]
              = PayloadRead("client")
        /\ got["client"] \o tunnel.wbuf["client"] \o tunnel.rbuf["remote"]
              = <<method_reply, connect_reply>> \o PayloadRead("remote")

\* No output waits on a socket whose EPOLLOUT is off, since nobody would ever
\* wake the loop for it.  The exception is what the closing of the other
\* socket put there: sock_shutdown appends it without epoll_modify, although
\* sock.h:69 says that it "forwards the remaining data".
Closing(s) == tunnel.sock[s] \in {"halfclosed", "null"}
OutputArmed ==
    fate = "running" =>
        \A s \in Side :
            (tunnel.wbuf[s] # <<>> /\ "out" \notin tunnel.interest[s])
                => tunnel.state = "connected_state" /\ Closing(Peer(s))

\* The client is told of success only if the connection was made, although
\* EPOLLIN and EPOLLOUT are also how the loop learns that it was refused.
SuccessMeansConnected ==
    connect_reply \in ToSet(got["client"]) \cup ToSet(tunnel.wbuf["client"])
        => conn = "up"

\* The remote gets a prefix of the client's payload: nothing but payload, in
\* order, once, also while and after either direction closes.  (What a freeze
\* holds back, or a client says before the connection is made, waits in
\* read_buffer, as does what a full write_buffer has no room for: a half-closed
\* socket that is closed again sends it twice.)
RemoteGetsPrefix ==
    (toggles = 0 /\ setup.lockstep /\ Len(ClientData) <= BufMax) =>
        IsPrefix(got["remote"], ClientData)

\* tunnel.c:175 and tunnel.c:249 assert that only the remote's socket has
\* events while the tunnel connects.  True of clients that wait for each
\* reply; a client that does not wait makes the assertion fail.
NeverAborts == setup.lockstep => fate # "aborted"

\* terminal.h:16 "reads and logs the data but does not send it on": while the
\* proxy is frozen and no direction closes, nothing more is put up for a peer
\* (sock_shutdown does not look at the flag, so it ends with the flow).
PutUp(s) == Len(got[s]) + Len(tunnel.wbuf[s])
FrozenHoldsTraffic ==
    [][(frozen /\ Flowing /\ frozen' /\ Flowing') =>
           \A s \in Side : PutUp(s)' <= PutUp(s)]_vars

Gone(s) == fin[s] = "reset"
AllGone == Gone("client") /\ (conn \in {"none", "refused"} \/ Gone("remote"))

\* When every peer is gone everything is released: no sequence of half-closes
\* leaves a descriptor that no event will close.
GonePeersFreeTunnel == AllGone ~> (Freed(tunnel) \/ fate # "running" \/ ~AllGone)

\* What a client sends reaches the remote, also when the client ends its
\* stream right after: again and again all of it has arrived, unless the
\* remote ends too, the client resets or the operator intervenes.
ClientDataDelivered ==
    []<>(\/ Len(got["remote"]) + 2 >= sent["client"]
         \/ ~setup.lockstep \/ toggles > 0 \/ fate # "running"
         \/ fin["remote"] # "open" \/ Gone("client"))

\* From the success reply until a direction closes, the tunnel is a relay:
\* each of its steps queues bytes for one peer, delivers to one peer, or does
\* nothing that a peer could tell.  What is on its way to s is in the
\* write_buffer of s and, behind it, in the read_buffer of the other peer.
Phase == CASE Flowing -> "flowing"
           [] fate = "running" /\ tunnel.state # "connected_state" -> "setup"
           [] OTHER -> "closed"
Way(s) == IF Flowing THEN tunnel.wbuf[s] \o tunnel.rbuf[Peer(s)] ELSE <<>>
Arrived(s) == IF Flowing THEN got[s] ELSE <<>>
R == INSTANCE Relay WITH
        Token <- Tokens,
        Opening <- [s \in Side |-> IF s = "client" THEN <<method_reply, connect_reply>>
                                                   ELSE <<>>],
        phase <- Phase,
        queue <- [s \in Side |-> Way(s)],
        delivered <- [s \in Side |-> Arrived(s)]
ImplementsRelay == R!Spec

-----------------------------------------------------------------------------
(* What the comments and the README say, and the code does not do.         *)

\* tunnel.h:69 "two-way forwarding": after the two replies a client is sent
\* what the remote sent, and nothing else.
ClientGetsRemoteData ==
    IsPrefix(got["client"], <<method_reply, connect_reply>> \o RemoteData)

\* README.md:21 "full SOCKS5 protocol": a client whose CONNECT cannot be made
\* is told, or at least let go.
RefusalReachesClient ==
    (conn = "refused")
        ~> (~Open(tunnel, "client") \/ tunnel.wbuf["client"] # <<>> \/ fate # "running")
=============================================================================
