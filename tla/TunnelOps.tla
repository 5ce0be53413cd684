------------------------------ MODULE TunnelOps ------------------------------
(***************************************************************************)
(* What the functions of src/src/tunnel.c and src/src/sock.c do to one     *)
(* tunnel: operators from a tunnel to the tunnel after the call, shared by *)
(* Tunnel.tla (one tunnel, every byte of it) and Proxy.tla (several        *)
(* tunnels on one event loop).                                             *)
(*                                                                         *)
(* A call chain of the C code, from the handler the loop dispatches down   *)
(* to sock_release, runs to its end on one thread: it is one action of     *)
(* those modules, which applies these operators in the order of the calls. *)
(*                                                                         *)
(* Bytes are tokens: the greeting and the request of the client are one    *)
(* token each (Handshake.tla has their bytes), as are the two replies.     *)
(***************************************************************************)
EXTENDS Integers, Sequences

CONSTANTS greeting, request,            \* what a client opens with
          method_reply, connect_reply,  \* what the proxy answers
          BufMax                        \* tokens a buffer_t can be made to hold

ASSUME TunnelOpsAssumption == BufMax \in Nat \ {0} /\ method_reply # connect_reply

Side == {"client", "remote"}
Peer(s) == IF s = "client" THEN "remote" ELSE "client"

\* auth_state is Handshake.tla's: the servers of these modules ask for no
\* password.  "null" is a sock_t that does not exist.
TunnelState == {"open_state", "request_state", "connecting_state", "connected_state"}
SockState == {"null", "connecting", "connected", "halfclosed"}
Family == {4, 6}   \* of the remote's address

\* The tunnel_t with its two sock_t and their epoll interest.
TunnelT(Token) ==
    [state : TunnelState, sock : [Side -> SockState], family : Family,
     rbuf : [Side -> Seq(Token)], wbuf : [Side -> Seq(Token)],
     interest : [Side -> SUBSET {"in", "out"}]]

Open(t, s) == t.sock[s] # "null"
Freed(t) == ~Open(t, "client") /\ ~Open(t, "remote")

-----------------------------------------------------------------------------
(* sock.c *)

\* sock_release: the wrapper, its buffers and its registration go away.
SockRelease(t, s) ==
    [t EXCEPT !.sock[s] = "null", !.rbuf[s] = <<>>, !.wbuf[s] = <<>>,
              !.interest[s] = {}]

\* buffer_concat(front, rear); FitsIn says whether it succeeds.
\* Mutant: room for something is taken for room for everything.
FitsSome(front, rear) == Len(front) < BufMax
FitsIn(front, rear) == Len(front) + Len(rear) <= BufMax
Concat(front, rear) == IF FitsIn(front, rear) THEN front \o rear ELSE front

\* Mutant: the two directions swapped.
ShutdownTargetSwapped(t, s) ==
    IF s = "client" /\ Open(t, "remote") THEN "client" ELSE "remote"
\* Whose write_buffer sock_shutdown moves the unforwarded bytes of s to: the
\* remote's, for a client that has one; the client's in every other case.
ShutdownTarget(t, s) ==
    IF s = "client" /\ Open(t, "remote") THEN "remote" ELSE "client"

SockShutdown(t, s) ==
    LET to == ShutdownTarget(t, s)
        half == [t EXCEPT !.sock[s] = "halfclosed"]
        moved == IF t.state = "connected_state" /\ Open(t, to)
                 THEN [half EXCEPT !.wbuf[to] = Concat(@, t.rbuf[s])]
                 ELSE half
    IN  IF moved.wbuf[s] # <<>> THEN [moved EXCEPT !.interest[s] = {"out"}]
                                ELSE SockRelease(moved, s)

-----------------------------------------------------------------------------
(* tunnel.c.  A handler returns the tunnel and whether it returned -1;     *)
(* bad is what went wrong with the process, "no" when nothing did.         *)

Ok(t) == [t |-> t, failed |-> FALSE, bad |-> "no"]
Failed(t) == [t |-> t, failed |-> TRUE, bad |-> "no"]
Broken(t, why) == [t |-> t, failed |-> FALSE, bad |-> why]

\* tunnel_shutdown reads tunnel->remote_sock after it shut the client down.
TunnelShutdown(t) ==
    LET u == IF Open(t, "client") THEN SockShutdown(t, "client") ELSE t
    IN  IF Freed(u) THEN Broken(u, "dangling")
        ELSE IF Open(u, "remote") THEN Ok(SockShutdown(u, "remote"))
        ELSE Ok(u)

\* tunnel_write_client
ClientWritable(t) == Open(t, "client") /\ FitsIn(t.wbuf["client"], <<method_reply>>)
WriteClient(t, reply) ==
    [t EXCEPT !.wbuf["client"] = Append(@, reply), !.interest["client"] = {"in", "out"}]

\* tunnel_notify_connected.  The IPv6 branch does not look at what its writes
\* return, and logs tunnel->client_sock->fd whether or not there is a client.
NotifyConnected(t) ==
    IF ClientWritable(t) THEN Ok(WriteClient(t, connect_reply))
    ELSE IF t.family = 4 THEN Failed(t)
    ELSE IF Open(t, "client") THEN Ok(t)
    ELSE Broken(t, "crashed")

\* tunnel_connecting_handle; error is SO_ERROR of the remote's socket.
\* Mutant: tunnel->state is left as it was.
EstablishedTwice(t) == [t EXCEPT !.sock["remote"] = "connected"]
Established(t) ==
    [t EXCEPT !.state = "connected_state", !.sock["remote"] = "connected"]
ConnectingHandle(t, error) ==
    IF error THEN Failed(t) ELSE NotifyConnected(Established(t))

\* tunnel_connect_to_remote; outcome is that of getaddrinfo and connect.
Dialling(t) ==
    [t EXCEPT !.sock["remote"] = "connecting", !.interest["remote"] = {"in", "out"}]
\* Mutant: EINPROGRESS is taken for success.
ConnectToRemoteHasty(t, outcome) ==
    IF outcome = "failed" THEN Failed(t) ELSE NotifyConnected(Established(Dialling(t)))
ConnectToRemote(t, outcome) ==
    CASE outcome = "failed" -> Failed(t)
      [] outcome = "up" -> NotifyConnected(Established(Dialling(t)))
      [] outcome = "pending" -> Ok([Dialling(t) EXCEPT !.state = "connecting_state"])

\* tunnel_open_handle and tunnel_request_handle on whole messages; without
\* one they wait.
OpenHandle(t) ==
    LET u == [t EXCEPT !.rbuf["client"] = Tail(@), !.state = "request_state"]
    IN  IF t.rbuf["client"] = <<>> THEN Ok(t)
        ELSE IF ClientWritable(u) THEN Ok(WriteClient(u, method_reply))
        ELSE Failed(u)

RequestHandle(t, outcome) ==
    IF t.rbuf["client"] = <<>> THEN Ok(t)
    ELSE ConnectToRemote([t EXCEPT !.rbuf["client"] = Tail(@)], outcome)

\* Mutant: the new bytes are put before those already waiting.
ForwardedAhead(t, s) ==
    [t EXCEPT !.wbuf[Peer(s)] = t.rbuf[s] \o @, !.rbuf[s] = <<>>,
              !.interest[Peer(s)] = {"in", "out"}]
\* Mutant: epoll_modify forgotten.
ForwardedUnarmed(t, s) ==
    [t EXCEPT !.wbuf[Peer(s)] = @ \o t.rbuf[s], !.rbuf[s] = <<>>]
\* tunnel_connected_handle: forward what s sent, unless frozen.
Forwarded(t, s) ==
    [t EXCEPT !.wbuf[Peer(s)] = @ \o t.rbuf[s], !.rbuf[s] = <<>>,
              !.interest[Peer(s)] = {"in", "out"}]
\* Mutant: the flag is not looked at for one of the directions.
ConnectedHandleLeaking(t, s, hold) ==
    IF ~Open(t, Peer(s)) THEN Failed(t)
    ELSE IF hold /\ s = "client" THEN Ok(t)
    ELSE IF FitsIn(t.wbuf[Peer(s)], t.rbuf[s]) THEN Ok(Forwarded(t, s))
    ELSE Failed(t)
\* Mutant: what arrives while frozen is cleared all the same.
ConnectedHandleDropping(t, s, hold) ==
    IF ~Open(t, Peer(s)) THEN Failed(t)
    ELSE IF hold THEN Ok([t EXCEPT !.rbuf[s] = <<>>])
    ELSE IF FitsIn(t.wbuf[Peer(s)], t.rbuf[s]) THEN Ok(Forwarded(t, s))
    ELSE Failed(t)
ConnectedHandle(t, s, hold) ==
    IF ~Open(t, Peer(s)) THEN Failed(t)
    ELSE IF hold THEN Ok(t)
    ELSE IF FitsIn(t.wbuf[Peer(s)], t.rbuf[s]) THEN Ok(Forwarded(t, s))
    ELSE Failed(t)

\* tunnel_read_handle once the bytes are in read_buffer.  The handshake's
\* failures close the one socket, the others the whole tunnel.
ForceIfFailed(r, s) == IF r.failed THEN Ok(SockRelease(r.t, s)) ELSE r
ShutIfFailed(r) == IF r.failed THEN TunnelShutdown(r.t) ELSE r

ReadHandle(t, s, outcome, error, hold) ==
    CASE t.state = "open_state" -> ForceIfFailed(OpenHandle(t), s)
      [] t.state = "request_state" -> ForceIfFailed(RequestHandle(t, outcome), s)
      [] t.state = "connecting_state" ->
            IF s = "client" THEN Broken(t, "aborted")
                            ELSE ShutIfFailed(ConnectingHandle(t, error))
      [] t.state = "connected_state" -> ShutIfFailed(ConnectedHandle(t, s, hold))

\* tunnel_write_handle once the bytes are written: complete a connect, then
\* listen for room only if something is left.
\* Mutant: EPOLLOUT is switched off after every write.
RearmedForInput(r, s) ==
    IF r.bad = "no" /\ Open(r.t, s) THEN [r EXCEPT !.t.interest[s] = {"in"}] ELSE r
\* Mutant: EPOLLOUT is never switched off.
RearmedForBoth(r, s) ==
    IF r.bad = "no" /\ Open(r.t, s) THEN [r EXCEPT !.t.interest[s] = {"in", "out"}] ELSE r
Rearmed(r, s) ==
    IF r.bad = "no" /\ Open(r.t, s)
    THEN [r EXCEPT !.t.interest[s] =
              IF r.t.wbuf[s] # <<>> THEN {"in", "out"} ELSE {"in"}]
    ELSE r

WriteHandle(t, s, error) ==
    IF t.state # "connecting_state" THEN Rearmed(Ok(t), s)
    ELSE IF s = "client" THEN Broken(t, "aborted")
    ELSE LET r == ConnectingHandle(t, error)
         IN  IF r.failed THEN TunnelShutdown(r.t) ELSE Rearmed(r, s)

-----------------------------------------------------------------------------
\* tunnel_create, on a connection just accepted.
Created(family) ==
    [state |-> "open_state", family |-> family,
     sock |-> [s \in Side |-> IF s = "client" THEN "connected" ELSE "null"],
     rbuf |-> [s \in Side |-> <<>>],
     wbuf |-> [s \in Side |-> <<>>],
     interest |-> [s \in Side |-> IF s = "client" THEN {"in"} ELSE {}]]
=============================================================================
