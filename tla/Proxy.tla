-------------------------------- MODULE Proxy --------------------------------
(***************************************************************************)
(* The whole proxy of src/src/server.c: one thread, one listening socket   *)
(* and the tunnels of several clients.  An epoll event carries the address *)
(* of a sock_t; addresses are those malloc has given and may give again.   *)
(* getaddrinfo blocks the thread in the middle of a dispatch.              *)
(*                                                                         *)
(* The handshakes and the life of the sockets are kept, the payload is     *)
(* not: what a tunnel does with its bytes is Tunnel.tla's, as are partial  *)
(* writes and freezing.  Every client connects once and waits for each     *)
(* reply before it goes on.                                                *)
(***************************************************************************)
EXTENDS TunnelOps, FiniteSets, SequencesExt

CONSTANTS Clients,      \* who connects
          Addresses,    \* where malloc can put a sock_t
          Restless,     \* those of them whose connections may end or break
          Nobody,       \* no client
          listenfd,     \* the address SERVER.listenfd has in events
          Limits,       \* how many descriptors there may be for connections
          AllocMayFail  \* can malloc fail in tunnel_create

ASSUME ProxyAssumption ==
    /\ Restless \subseteq Clients
    /\ IsFiniteSet(Clients) /\ IsFiniteSet(Addresses)
    /\ Nobody \notin Clients \cup Addresses
    /\ listenfd \notin Addresses
    /\ Limits \subseteq 1 .. Cardinality(Addresses)
    /\ AllocMayFail \in BOOLEAN
    /\ BufMax >= 2

Sockets == Clients \X Side

VARIABLES
    limit,      \* the descriptors this process has for connections
    stage,      \* of a client: "away", "queued", "accepted" or "gone"
    backlog,    \* the connections accept(2) has not returned, oldest first
    tunnel,     \* the tunnel of each client
    address,    \* where its two sock_t are
    net,        \* the two connections of each client: see NetT
    batch,      \* events of the last epoll_wait not dispatched yet
    resolving,  \* whose request is inside getaddrinfo
    strayed,    \* whose tunnels have handled an event about another socket
    fate        \* "running", or how the process went wrong

vars == <<limit, stage, backlog, tunnel, address, net, batch, resolving, strayed, fate>>

NetT == [said : 0 .. 2,     \* messages the client has sent: greeting, request
         nread : 0 .. 2,    \* of these, read by the proxy
         told : 0 .. 2,     \* replies handed to the kernel
         fin : [Side -> {"open", "eof", "reset"}],
         conn : {"none", "pending", "up", "refused"}]

NoTunnel == SockRelease(Created(4), "client")
Unconnected == [said |-> 0, nread |-> 0, told |-> 0,
                fin |-> [s \in Side |-> "open"], conn |-> "none"]
Nowhere == [s \in Side |-> Nobody]

Init ==
    /\ limit \in Limits
    /\ stage = [c \in Clients |-> "away"]
    /\ backlog = <<>>
    /\ tunnel = [c \in Clients |-> NoTunnel]
    /\ address = [c \in Clients |-> Nowhere]
    /\ net = [c \in Clients |-> Unconnected]
    /\ batch = <<>>
    /\ resolving = Nobody
    /\ strayed = {}
    /\ fate = "running"

Live == {k \in Sockets : Open(tunnel[k[1]], k[2])}
At(a) == {k \in Sockets : address[k[1]][k[2]] = a}
FreeAddresses == {a \in Addresses : At(a) = {}}
DescriptorLeft == Cardinality(Live) < limit

-----------------------------------------------------------------------------
(* epoll_wait.  There are fewer sockets than MAX_EPOLL_EVENTS.             *)

Unread(c, s) == IF s = "client" THEN net[c].said - net[c].nread ELSE 0
Refused(c, s) == s = "remote" /\ net[c].conn = "refused"
Connected(c, s) == s = "remote" => net[c].conn \in {"up", "refused"}

Ended(c, s) == net[c].fin[s] # "open" \/ Refused(c, s)

CanRead(c, s) == /\ Connected(c, s)
                 /\ Unread(c, s) > 0 \/ Ended(c, s)
                 /\ "in" \in tunnel[c].interest[s]
CanWrite(c, s) == Connected(c, s) /\ "out" \in tunnel[c].interest[s]

Events ==
    {[at |-> address[k[1]][k[2]], about |-> k,
      handler |-> IF CanRead(k[1], k[2]) THEN "read" ELSE "write"] :
        k \in {l \in Live : CanRead(l[1], l[2]) \/ CanWrite(l[1], l[2])}}
    \cup {[at |-> listenfd, about |-> listenfd, handler |-> "read"] :
             i \in {1} \cap DOMAIN backlog}

Idle == fate = "running" /\ resolving = Nobody

\* Mutant: the loop over the events starts at the second one.
EpollWaitSkipping ==
    /\ Idle
    /\ batch = <<>>
    /\ Events # {}
    /\ \E order \in SetToSeqs(Events) : batch' = Tail(order)
    /\ UNCHANGED <<limit, stage, backlog, tunnel, address, net, resolving, strayed, fate>>
EpollWait ==
    /\ Idle
    /\ batch = <<>>
    /\ Events # {}
    /\ batch' \in SetToSeqs(Events)
    /\ UNCHANGED <<limit, stage, backlog, tunnel, address, net, resolving, strayed, fate>>

-----------------------------------------------------------------------------
(* accept_handle: one connection for each event.                           *)

Listening ==
    /\ Idle
    /\ batch # <<>>
    /\ Head(batch).at = listenfd

\* Mutant: accept(2) is tried again until there is a descriptor.
AcceptFailsRetrying ==
    /\ Listening
    /\ ~DescriptorLeft
    /\ UNCHANGED vars
\* EMFILE: the connection stays where it is.
AcceptFails ==
    /\ Listening
    /\ ~DescriptorLeft
    /\ batch' = Tail(batch)
    /\ UNCHANGED <<limit, stage, backlog, tunnel, address, net, resolving, strayed, fate>>

\* tunnel_create may fail, and closes the connection then.
Accept ==
    /\ Listening
    /\ DescriptorLeft
    /\ batch' = Tail(batch)
    /\ backlog' = Tail(backlog)
    /\ LET c == Head(backlog)
       IN  \/ /\ stage' = [stage EXCEPT ![c] = "accepted"]
              /\ tunnel' = [tunnel EXCEPT ![c] = Created(4)]
              /\ \E a \in FreeAddresses :
                    address' = [address EXCEPT ![c]["client"] = a]
              /\ UNCHANGED net
           \/ /\ AllocMayFail
              /\ stage' = [stage EXCEPT ![c] = "gone"]
              /\ net' = [net EXCEPT ![c] = Unconnected]
              /\ UNCHANGED <<tunnel, address>>
    /\ UNCHANGED <<limit, resolving, strayed, fate>>

-----------------------------------------------------------------------------
(* A dispatch to the socket that is now at the address the event carries:  *)
(* the one it is about, unless that was freed by an earlier event of the   *)
(* batch and the address given to a socket created since.                  *)

Dispatching(c, s, handler) ==
    /\ Idle
    /\ batch # <<>>
    /\ Head(batch).at \in Addresses
    /\ Head(batch).handler = handler
    /\ <<c, s>> \in At(Head(batch).at)
    /\ batch' = Tail(batch)
    /\ strayed' = IF Head(batch).about = <<c, s>> THEN strayed ELSE strayed \cup {c}

\* A handler returned r, with the sockets of c at place and its connections
\* in n.  Nothing of a tunnel is kept when both its sockets are closed.
Returns(c, r, place, n) ==
    /\ tunnel' = [tunnel EXCEPT ![c] = IF Freed(r.t) THEN NoTunnel ELSE r.t]
    /\ stage' = [stage EXCEPT ![c] = IF Freed(r.t) THEN "gone" ELSE @]
    /\ address' = [address EXCEPT ![c] =
                      [s \in Side |-> IF Open(r.t, s) THEN place[s] ELSE Nobody]]
    /\ net' = [net EXCEPT ![c] = IF Freed(r.t) THEN Unconnected ELSE n]
    /\ fate' = IF r.bad = "no" THEN "running" ELSE r.bad

SoError(c) == net[c].conn = "refused" \/ net[c].fin["remote"] = "reset"

Message(c) == <<greeting, request>>[net[c].nread + 1]
Received(c) == [tunnel[c] EXCEPT !.rbuf["client"] = Append(@, Message(c))]

\* Everything but a request, which DispatchRequest takes.  Nothing to read
\* is EAGAIN: a stray event; the handler of the state runs all the same.
DispatchRead(c, s) ==
    /\ Dispatching(c, s, "read")
    /\ \/ /\ Unread(c, s) > 0
          /\ tunnel[c].state # "request_state"
          /\ Returns(c, ReadHandle(Received(c), s, "pending", SoError(c), FALSE),
                     address[c], [net[c] EXCEPT !.nread = @ + 1])
       \/ /\ Unread(c, s) = 0
          /\ ~Ended(c, s)
          /\ Returns(c, ReadHandle(tunnel[c], s, "pending", SoError(c), FALSE),
                     address[c], net[c])
       \/ /\ Unread(c, s) = 0
          /\ Ended(c, s)
          /\ Returns(c, Ok(SockShutdown(tunnel[c], s)), address[c], net[c])
    /\ UNCHANGED <<limit, backlog, resolving>>

\* The request is read and getaddrinfo called.
DispatchRequest(c) ==
    /\ Dispatching(c, "client", "read")
    /\ tunnel[c].state = "request_state"
    /\ Unread(c, "client") > 0
    /\ net' = [net EXCEPT ![c].nread = @ + 1]
    /\ tunnel' = [tunnel EXCEPT ![c] = Received(c)]
    /\ resolving' = c
    /\ UNCHANGED <<limit, stage, backlog, address, fate>>

\* It answers; socket(2) needs a descriptor, and connect(2) starts, is done
\* at once, or fails; so may the memory for the sock_t.
ResolverAnswers(c) ==
    /\ fate = "running"
    /\ resolving = c
    /\ resolving' = Nobody
    /\ \/ Returns(c, ReadHandle(tunnel[c], "client", "failed", FALSE, FALSE),
                  address[c], net[c])
       \/ /\ DescriptorLeft
          /\ \E outcome \in {"pending", "up"}, a \in FreeAddresses :
                Returns(c, ReadHandle(tunnel[c], "client", outcome, FALSE, FALSE),
                        [address[c] EXCEPT !["remote"] = a],
                        [net[c] EXCEPT !.conn = outcome])
    /\ UNCHANGED <<limit, backlog, batch, strayed>>

DispatchWrite(c, s) ==
    /\ Dispatching(c, s, "write")
    /\ LET t == tunnel[c] IN
       \/ /\ t.wbuf[s] # <<>>
          /\ net[c].fin[s] # "reset"
          /\ Returns(c, WriteHandle([t EXCEPT !.wbuf[s] = <<>>], s, SoError(c)),
                     address[c], [net[c] EXCEPT !.told = @ + Len(t.wbuf[s])])
       \/ /\ IF t.wbuf[s] # <<>> THEN net[c].fin[s] = "reset"
                                  ELSE t.sock[s] = "halfclosed"
          /\ Returns(c, Ok(SockRelease(t, s)), address[c], net[c])
       \/ /\ t.wbuf[s] = <<>>
          /\ t.sock[s] # "halfclosed"
          /\ Returns(c, WriteHandle(t, s, SoError(c)), address[c], net[c])
    /\ UNCHANGED <<limit, backlog, resolving>>

\* No sock_t is at the address any more: the loop reads freed memory.
DispatchDangling ==
    /\ Idle
    /\ batch # <<>>
    /\ Head(batch).at \in FreeAddresses
    /\ fate' = "dangling"
    /\ batch' = Tail(batch)
    /\ UNCHANGED <<limit, stage, backlog, tunnel, address, net, resolving, strayed>>

Dispatch ==
    \/ AcceptFails \/ Accept
    \/ \E c \in Clients, s \in Side : DispatchRead(c, s) \/ DispatchWrite(c, s)
    \/ \E c \in Clients : DispatchRequest(c)
    \/ DispatchDangling

-----------------------------------------------------------------------------
(* The clients, the remotes and the network.                               *)

ClientConnects(c) ==
    /\ fate = "running"
    /\ stage[c] = "away"
    /\ stage' = [stage EXCEPT ![c] = "queued"]
    /\ backlog' = Append(backlog, c)
    /\ UNCHANGED <<limit, tunnel, address, net, batch, resolving, strayed, fate>>

\* The connection exists at both ends.
Alive(c, s) ==
    /\ fate = "running"
    /\ \/ <<c, s>> \in Live /\ (s = "remote" => net[c].conn = "up")
       \/ s = "client" /\ stage[c] = "queued"

NetStep(c, n) ==
    /\ net' = [net EXCEPT ![c] = n]
    /\ UNCHANGED <<limit, stage, backlog, tunnel, address, batch, resolving, strayed, fate>>

ClientSays(c) ==
    /\ Alive(c, "client")
    /\ net[c].fin["client"] = "open"
    /\ net[c].said < 2
    /\ net[c].said = net[c].told
    /\ NetStep(c, [net[c] EXCEPT !.said = @ + 1])

PeerEnds(c, s) ==
    /\ c \in Restless
    /\ Alive(c, s)
    /\ net[c].fin[s] = "open"
    /\ \E how \in {"eof", "reset"} : NetStep(c, [net[c] EXCEPT !.fin[s] = how])

ConnectResolves(c) ==
    /\ fate = "running"
    /\ <<c, "remote">> \in Live
    /\ net[c].conn = "pending"
    /\ \E outcome \in {"up", "refused"} : NetStep(c, [net[c] EXCEPT !.conn = outcome])

-----------------------------------------------------------------------------
Next ==
    \/ EpollWait
    \/ Dispatch
    \/ \E c \in Clients : \/ ResolverAnswers(c)
                          \/ ClientConnects(c) \/ ClientSays(c)
                          \/ \E s \in Side : PeerEnds(c, s)
                          \/ ConnectResolves(c)

\* The loop runs, the resolver answers or times out, and so does a connect.
Spec == /\ Init /\ [][Next]_vars
        /\ WF_vars(EpollWait) /\ WF_vars(Dispatch)
        /\ \A c \in Clients : WF_vars(ResolverAnswers(c)) /\ WF_vars(ConnectResolves(c))

-----------------------------------------------------------------------------
(* Properties *)

Tokens == {greeting, request, method_reply, connect_reply}

TypeOK ==
    /\ limit \in Limits
    /\ stage \in [Clients -> {"away", "queued", "accepted", "gone"}]
    /\ backlog \in Seq(Clients)
    /\ tunnel \in [Clients -> TunnelT(Tokens)]
    /\ address \in [Clients -> [Side -> Addresses \cup {Nobody}]]
    /\ net \in [Clients -> NetT]
    /\ batch \in Seq([at : Addresses \cup {listenfd}, about : Sockets \cup {listenfd},
                      handler : {"read", "write"}])
    /\ resolving \in Clients \cup {Nobody}
    /\ strayed \subseteq Clients
    /\ fate \in {"running", "aborted", "crashed", "dangling"}

\* As long as every event reached its own socket, a client is told of success
\* only for its own connection, and only once it is made.
Successful(c) == net[c].told = 2 \/ connect_reply \in {tunnel[c].wbuf["client"][i] :
                                        i \in DOMAIN tunnel[c].wbuf["client"]}
SuccessMeansConnected ==
    \A c \in Clients : (Successful(c) /\ c \notin strayed) => net[c].conn = "up"

\* Running out of descriptors delays clients and loses none: when some are
\* free for good, nobody is left in the listening socket's queue.
QueuedAreAccepted ==
    \A c \in Clients :
        <>[](DescriptorLeft /\ fate = "running") => []<>(stage[c] # "queued")

\* An accepted client is answered whatever the other clients do: while they
\* keep the resolver busy, wait for descriptors, hang up or are refused.
\* Excused are the cases in which no answer is promised here: a connection that
\* has ended or is to end, a refused connect of its own (RefusalReachesClient in
\* Tunnel), and a process that has ended, also through an event that strayed.
Heard(c, k) == stage[c] = "accepted" /\ net[c].said = k
Excused(c) == \/ ~Open(tunnel[c], "client") \/ fate # "running"
              \/ \E s \in Side : net[c].fin[s] # "open"
              \/ net[c].conn = "refused"
AcceptedAreAnswered ==
    \A c \in Clients, k \in 1 .. 2 : Heard(c, k) ~> (net[c].told >= k \/ Excused(c))

-----------------------------------------------------------------------------
(* What the comments and the README say, and the code does not do.         *)

\* server.c:100 "in the epoll user data we keep a pointer to the descriptor":
\* an event is handled by the socket it is about.
EventsReachTheirSocket == strayed = {} /\ fate # "dangling"
=============================================================================
