------------------------------ MODULE Handshake ------------------------------
(***************************************************************************)
(* The SOCKS5 handshake of src/src/protocol.c, byte by byte.  A client     *)
(* says its messages (greeting, USER/PASS, request) on a stream that TCP   *)
(* cuts wherever it likes; each EPOLLIN appends what arrived to            *)
(* read_buffer and runs the handler of the tunnel's state, once.  The      *)
(* handlers keep their place in a message in read_count.                   *)
(***************************************************************************)
EXTENDS Integers, Sequences, FiniteSets

CONSTANTS Sessions,        \* a server's credentials and the client that connects
          MAX_UNAME_LEN,   \* longest name and password the server takes
          MAX_PASSWD_LEN,
          AllocMayFail     \* can an append to the reply buffer fail

IPV4 == 1
DOMAIN_NAME == 3
IPV6 == 4
NIPV4 == 4
NIPV6 == 16
NPORT == 2
SOCKS5 == 5
CONNECT == 1

Byte == 0 .. 255

\* SERVER.username and SERVER.passwd: strings that fit their arrays.
Credential == {bs \in Seq(1 .. 255) : Len(bs) < 255}
ServerT == [username : Credential, passwd : Credential]

\* What a client says.  Its fields have any values, but each length byte is
\* right: one byte holds it, and an address is as long as its type.
Field255 == {bs \in Seq(Byte) : Len(bs) <= 255}
ClientT ==
    {c \in [waits : BOOLEAN, ver : Byte, methods : Field255, auth : BOOLEAN,
            uname : Field255, passwd : Field255, cmd : Byte, atyp : Byte,
            addr : Field255, port : Seq(Byte)] :
        /\ Len(c.port) = NPORT
        /\ c.atyp = IPV4 => Len(c.addr) = NIPV4
        /\ c.atyp = IPV6 => Len(c.addr) = NIPV6}

ASSUME HandshakeAssumption ==
    /\ \A s \in Sessions : s.server \in ServerT /\ s.client \in ClientT
    /\ MAX_UNAME_LEN \in 1 .. 255 /\ MAX_PASSWD_LEN \in 1 .. 255
    /\ AllocMayFail \in BOOLEAN

Taken(bs, n) == SubSeq(bs, 1, n)
Left(bs, n) == SubSeq(bs, n + 1, Len(bs))

\* What strcmp and getaddrinfo see of a byte array filled from zeroed memory.
CString(bs) ==
    LET Text == {k \in 1 .. Len(bs) : \A i \in 1 .. k : bs[i] # 0}
    IN  Taken(bs, Cardinality(Text))

-----------------------------------------------------------------------------
(* The client's side of the protocol (RFC 1928, RFC 1929).                 *)

Greeting(c) == <<c.ver, Len(c.methods)>> \o c.methods
UserPass(c) == <<1, Len(c.uname)>> \o c.uname \o <<Len(c.passwd)>> \o c.passwd
Request(c) == <<c.ver, c.cmd, 0, c.atyp>>
              \o (IF c.atyp = DOMAIN_NAME THEN <<Len(c.addr)>> ELSE <<>>)
              \o c.addr \o c.port

\* A client that does not authenticate goes straight on to its request.
Messages(c) == IF c.auth THEN <<Greeting(c), UserPass(c), Request(c)>>
                         ELSE <<Greeting(c), Request(c)>>

\* Length of the first k messages of c.
Extent(c, k) == LET m == Messages(c)
                IN  (IF k >= 1 THEN Len(m[1]) ELSE 0)
                    + (IF k >= 2 THEN Len(m[2]) ELSE 0)
                    + (IF k >= 3 THEN Len(m[3]) ELSE 0)

-----------------------------------------------------------------------------
VARIABLES SERVER,        \* the server's credentials: they never change
          client,        \* who is connected
          said,          \* how many of its messages it has sent
          unread,        \* bytes in the socket the server has not read
          state,         \* tunnel->state
          read_count,    \* tunnel->read_count
          op, ap, rp,    \* fields kept between calls of a handler
          read_buffer,   \* client_sock->read_buffer
          replies,       \* bytes appended to client_sock->write_buffer
          dialled,       \* destination tunnel_connect_to_remote was given
          status         \* "serving", "rejected" or "exhausted" when the server
                         \* closed, "hungup" when the client did, "aborted"

stage == <<state, read_count, op, ap, rp>>
vars == <<SERVER, client, said, unread, stage, read_buffer, replies, dialled, status>>

AuthConfigured == SERVER.username # <<>> /\ SERVER.passwd # <<>>

NoDest == [atyp |-> 0, addr |-> <<>>, port |-> <<>>]

Init ==
    /\ \E s \in Sessions : SERVER = s.server /\ client = s.client
    /\ said = 0
    /\ unread = <<>>
    /\ state = "open_state"
    /\ read_count = 0
    /\ op = [nmethods |-> 0]
    /\ ap = [ver |-> 0, ulen |-> 0, uname |-> <<>>, plen |-> 0]
    /\ rp = [atyp |-> 0]
    /\ read_buffer = <<>>
    /\ replies = <<>>
    /\ dialled = NoDest
    /\ status = "serving"

-----------------------------------------------------------------------------
(* Ways a handler returns.  buf is what it leaves in read_buffer.          *)

\* 0: more bytes are needed.
Waits(buf) ==
    /\ read_buffer' = buf
    /\ UNCHANGED <<replies, dialled, status>>

\* -1: sock_force_shutdown of the client.
Rejects ==
    /\ status' = "rejected"
    /\ read_buffer' = <<>>
    /\ UNCHANGED <<stage, replies, dialled>>

\* assert(0)
Aborts ==
    /\ status' = "aborted"
    /\ UNCHANGED <<stage, read_buffer, replies, dialled>>

\* Mutant: the count of the finished message is carried into the next one.
RepliesKeepingCount(buf, reply, next) ==
    /\ replies' = replies \o reply
    /\ read_buffer' = buf
    /\ state' = next
    /\ UNCHANGED <<read_count, dialled, status>>
\* tunnel_write_client, then the state the handler moves to.
Replies(buf, reply, next) ==
    \/ /\ replies' = replies \o reply
       /\ read_buffer' = buf
       /\ state' = next
       /\ read_count' = 0
       /\ UNCHANGED <<dialled, status>>
    \/ /\ AllocMayFail
       /\ status' = "exhausted"
       /\ read_buffer' = <<>>
       /\ UNCHANGED <<state, read_count, replies, dialled>>

-----------------------------------------------------------------------------
(* tunnel_open_handle *)

OPEN_HEADER == 2

\* Mutant: waits for a byte more than the greeting has.
MethodsOneMore(buf, nmethods) ==
    /\ op' = [nmethods |-> nmethods]
    /\ UNCHANGED <<ap, rp>>
    /\ \/ /\ Len(buf) <= nmethods
          /\ read_count' = OPEN_HEADER
          /\ UNCHANGED state
          /\ Waits(buf)
       \/ /\ Len(buf) > nmethods
          /\ IF AuthConfigured
             THEN Replies(Left(buf, nmethods), <<SOCKS5, 2>>, "auth_state")
             ELSE Replies(Left(buf, nmethods), <<SOCKS5, 0>>, "request_state")

Methods(buf, nmethods) ==
    /\ op' = [nmethods |-> nmethods]
    /\ UNCHANGED <<ap, rp>>
    /\ \/ /\ Len(buf) < nmethods
          /\ read_count' = OPEN_HEADER
          /\ UNCHANGED state
          /\ Waits(buf)
       \/ /\ Len(buf) >= nmethods
          /\ IF AuthConfigured
             THEN Replies(Left(buf, nmethods), <<SOCKS5, 2>>, "auth_state")
             ELSE Replies(Left(buf, nmethods), <<SOCKS5, 0>>, "request_state")

OpenHandle(buf) ==
    \/ /\ read_count = 0 /\ Len(buf) < OPEN_HEADER
       /\ Waits(buf) /\ UNCHANGED stage
    \/ /\ read_count = 0 /\ Len(buf) >= OPEN_HEADER
       /\ IF buf[1] = SOCKS5 THEN Methods(Left(buf, OPEN_HEADER), buf[2])
                             ELSE Rejects
    \/ /\ read_count = OPEN_HEADER
       /\ Methods(buf, op.nmethods)
    \/ /\ read_count \notin {0, OPEN_HEADER}
       /\ Aborts

-----------------------------------------------------------------------------
(* tunnel_auth_handle: one field a call.  The tests of read_count are made *)
(* in this order, so that an empty name leaves it in the "uname" stage.    *)

AUTH_HEADER == 2

AuthStage ==
    CASE read_count = 0 -> "header"
      [] read_count = AUTH_HEADER -> "uname"
      [] read_count = AUTH_HEADER + ap.ulen /\ ap.ulen # 0 -> "plen"
      [] read_count = AUTH_HEADER + ap.ulen + 1 -> "passwd"
      [] OTHER -> "broken"

\* The field takes n bytes of buf and becomes f.
Field(buf, n, f) ==
    /\ ap' = f
    /\ read_count' = read_count + n
    /\ UNCHANGED <<state, op, rp>>
    /\ Waits(Left(buf, n))

AuthShort(buf, n) == Len(buf) < n /\ Waits(buf) /\ UNCHANGED stage

\* Mutant: ulen is not checked.
AuthHeaderUnchecked(buf) ==
    \/ AuthShort(buf, AUTH_HEADER)
    \/ /\ Len(buf) >= AUTH_HEADER
       /\ Field(buf, AUTH_HEADER, [ap EXCEPT !.ver = buf[1], !.ulen = buf[2]])

\* Mutant: the longest name allowed is refused.
AuthHeaderStrict(buf) ==
    \/ AuthShort(buf, AUTH_HEADER)
    \/ /\ Len(buf) >= AUTH_HEADER
       /\ IF buf[2] >= MAX_UNAME_LEN THEN Rejects
          ELSE Field(buf, AUTH_HEADER, [ap EXCEPT !.ver = buf[1], !.ulen = buf[2]])

AuthHeader(buf) ==
    \/ AuthShort(buf, AUTH_HEADER)
    \/ /\ Len(buf) >= AUTH_HEADER
       /\ IF buf[2] > MAX_UNAME_LEN THEN Rejects
          ELSE Field(buf, AUTH_HEADER, [ap EXCEPT !.ver = buf[1], !.ulen = buf[2]])

AuthUname(buf) ==
    \/ AuthShort(buf, ap.ulen)
    \/ /\ Len(buf) >= ap.ulen
       /\ Field(buf, ap.ulen, [ap EXCEPT !.uname = Taken(buf, ap.ulen)])

AuthPlen(buf) ==
    \/ AuthShort(buf, 1)
    \/ /\ Len(buf) >= 1
       /\ IF buf[1] > MAX_PASSWD_LEN THEN Rejects
          ELSE Field(buf, 1, [ap EXCEPT !.plen = buf[1]])

\* Mutant: one credential is enough.
AuthPasswdEither(buf) ==
    \/ AuthShort(buf, ap.plen)
    \/ /\ Len(buf) >= ap.plen
       /\ IF CString(ap.uname) = SERVER.username \/ CString(Taken(buf, ap.plen)) = SERVER.passwd
          THEN /\ Replies(Left(buf, ap.plen), <<ap.ver, 0>>, "request_state")
               /\ UNCHANGED <<op, ap, rp>>
          ELSE Rejects

AuthPasswd(buf) ==
    \/ AuthShort(buf, ap.plen)
    \/ /\ Len(buf) >= ap.plen
       /\ IF CString(ap.uname) = SERVER.username /\ CString(Taken(buf, ap.plen)) = SERVER.passwd
          THEN /\ Replies(Left(buf, ap.plen), <<ap.ver, 0>>, "request_state")
               /\ UNCHANGED <<op, ap, rp>>
          ELSE Rejects

AuthHandle(buf) ==
    \/ AuthStage = "header" /\ AuthHeader(buf)
    \/ AuthStage = "uname" /\ AuthUname(buf)
    \/ AuthStage = "plen" /\ AuthPlen(buf)
    \/ AuthStage = "passwd" /\ AuthPasswd(buf)
    \/ AuthStage = "broken" /\ Aborts

-----------------------------------------------------------------------------
(* tunnel_request_handle *)

REQUEST_HEADER == 4

\* tunnel_connect_to_remote: getaddrinfo, socket and connect may each fail;
\* the connect may also be done at once, and the success reply is queued.
Dials(buf, atyp, addr, port) ==
    /\ dialled' = [atyp |-> atyp, addr |-> addr, port |-> port]
    /\ rp' = [atyp |-> atyp]
    /\ UNCHANGED <<op, ap>>
    /\ read_count' = 0
    /\ \/ /\ status' = "rejected"
          /\ read_buffer' = <<>>
          /\ UNCHANGED <<state, replies>>
       \/ /\ state' = "connecting_state"
          /\ read_buffer' = buf
          /\ UNCHANGED <<replies, status>>
       \/ /\ state' = "connected_state"
          /\ read_buffer' = buf
          /\ replies' = replies \o <<SOCKS5, 0, 0>>
          /\ UNCHANGED status

\* The header is behind; the address is not complete.
AddrWaits(buf, atyp, count) ==
    /\ rp' = [atyp |-> atyp]
    /\ read_count' = count
    /\ UNCHANGED <<state, op, ap>>
    /\ Waits(buf)

\* Mutant: waits for a byte more than the request has.
FixedAddrOneMore(buf, atyp, n) ==
    \/ Len(buf) <= n + NPORT /\ AddrWaits(buf, atyp, REQUEST_HEADER)
    \/ /\ Len(buf) > n + NPORT
       /\ Dials(Left(buf, n + NPORT), atyp,
                Taken(buf, n), SubSeq(buf, n + 1, n + NPORT))

FixedAddr(buf, atyp, n) ==
    \/ Len(buf) < n + NPORT /\ AddrWaits(buf, atyp, REQUEST_HEADER)
    \/ /\ Len(buf) >= n + NPORT
       /\ Dials(Left(buf, n + NPORT), atyp,
                Taken(buf, n), SubSeq(buf, n + 1, n + NPORT))

\* domainlen is consumed, and counted, before the name has arrived.
DomainAddr(buf) ==
    \/ buf = <<>> /\ AddrWaits(buf, DOMAIN_NAME, REQUEST_HEADER)
    \/ /\ buf # <<>>
       /\ Len(buf) - 1 < buf[1] + NPORT
       /\ AddrWaits(Left(buf, 1), DOMAIN_NAME, REQUEST_HEADER + 1)
    \/ /\ buf # <<>>
       /\ Len(buf) - 1 >= buf[1] + NPORT
       /\ LET n == buf[1] + 1
          IN  Dials(Left(buf, n + NPORT), DOMAIN_NAME,
                    CString(SubSeq(buf, 2, n)), SubSeq(buf, n + 1, n + NPORT))

Addr(buf, atyp) ==
    \/ atyp = IPV4 /\ FixedAddr(buf, IPV4, NIPV4)
    \/ atyp = IPV6 /\ FixedAddr(buf, IPV6, NIPV6)
    \/ atyp = DOMAIN_NAME /\ DomainAddr(buf)
    \/ atyp \notin {IPV4, IPV6, DOMAIN_NAME} /\ Rejects

RequestHandle(buf) ==
    \/ /\ read_count = 0 /\ Len(buf) < REQUEST_HEADER
       /\ Waits(buf) /\ UNCHANGED stage
    \/ /\ read_count = 0 /\ Len(buf) >= REQUEST_HEADER
       /\ IF buf[1] = SOCKS5 /\ buf[2] = CONNECT
          THEN Addr(Left(buf, REQUEST_HEADER), buf[4])
          ELSE Rejects
    \/ /\ read_count = REQUEST_HEADER
       /\ Addr(buf, rp.atyp)
    \/ /\ read_count \notin {0, REQUEST_HEADER}
       /\ Aborts

-----------------------------------------------------------------------------
(* tunnel_read_handle in the three states of the handshake.  n = 0 is a    *)
(* read interrupted or answered EAGAIN: the handler runs all the same.     *)

ReadHandle(n) ==
    /\ status = "serving"
    /\ n \in 0 .. Len(unread)
    /\ LET buf == read_buffer \o Taken(unread, n)
       IN  \/ state = "open_state" /\ OpenHandle(buf)
           \/ state = "auth_state" /\ AuthHandle(buf)
           \/ state = "request_state" /\ RequestHandle(buf)
    /\ unread' = Left(unread, n)
    /\ UNCHANGED <<SERVER, client, said>>

\* End of file or an error on the client's socket.
ReadFails ==
    /\ status = "serving"
    /\ unread = <<>>
    /\ status' = "hungup"
    /\ UNCHANGED <<SERVER, client, said, unread, stage, read_buffer, replies, dialled>>

ClientSays ==
    /\ status = "serving"
    /\ said < Len(Messages(client))
    /\ client.waits => Len(replies) = 2 * said
    /\ said' = said + 1
    /\ unread' = unread \o Messages(client)[said + 1]
    /\ UNCHANGED <<SERVER, client, stage, read_buffer, replies, dialled, status>>

ReadSome == \E n \in 1 .. Len(unread) : ReadHandle(n)

Next == ReadSome \/ ReadHandle(0) \/ ReadFails \/ ClientSays

\* The event loop is level triggered: bytes in the socket get read.
Spec == Init /\ [][Next]_vars /\ WF_vars(ReadSome)

-----------------------------------------------------------------------------
(* Properties *)

TypeOK ==
    /\ \E s \in Sessions : SERVER = s.server /\ client = s.client
    /\ said \in 0 .. 3
    /\ unread \in Seq(Byte)
    /\ state \in {"open_state", "auth_state", "request_state",
                  "connecting_state", "connected_state"}
    /\ read_count \in 0 .. 258
    /\ op \in [nmethods : Byte]
    /\ ap \in [ver : Byte, ulen : 0 .. MAX_UNAME_LEN,
               uname : Seq(Byte), plen : 0 .. MAX_PASSWD_LEN]
    /\ rp \in [atyp : Byte]
    /\ read_buffer \in Seq(Byte)
    /\ replies \in Seq(Byte)
    /\ dialled \in [atyp : Byte, addr : Seq(Byte), port : Seq(Byte)]
    /\ status \in {"serving", "rejected", "exhausted", "hungup", "aborted"}

HasCredentials(c) == CString(c.uname) = SERVER.username /\ CString(c.passwd) = SERVER.passwd

Destination(c) ==
    [atyp |-> c.atyp, port |-> c.port,
     addr |-> IF c.atyp = DOMAIN_NAME THEN CString(c.addr) ELSE c.addr]

\* However the stream is cut and whatever was said before, the destination
\* dialled is the one the client's request names, and a server with
\* credentials dials only for a client that showed them.
DialsAsAsked ==
    dialled # NoDest =>
        /\ dialled = Destination(client)
        /\ AuthConfigured => client.auth /\ HasCredentials(client)

\* A client the server should take: every field of its messages in range.
Acceptable(c) ==
    /\ c.ver = SOCKS5 /\ c.cmd = CONNECT
    /\ c.atyp \in {IPV4, IPV6, DOMAIN_NAME}
    /\ c.auth = AuthConfigured
    /\ c.auth => /\ HasCredentials(c)
                 /\ Len(c.uname) <= MAX_UNAME_LEN
                 /\ Len(c.passwd) <= MAX_PASSWD_LEN

\* A client whose messages are all in order is never turned away, wherever
\* the stream is cut, before its destination is dialled.
AcceptsGoodClients ==
    status = "rejected" => ~Acceptable(client) \/ dialled # NoDest

\* Messages of the handshake the handlers have finished with.
Completed ==
    CASE state = "open_state" -> 0
      [] state = "auth_state" -> 1
      [] state = "request_state" -> IF AuthConfigured THEN 2 ELSE 1
      [] OTHER -> IF AuthConfigured THEN 3 ELSE 2

Consumed == Extent(client, said) - Len(unread) - Len(read_buffer)

\* read_count is exactly how far the handler is into the message it is at,
\* and every message finished before it was answered with two bytes.
StageAccounting ==
    (status = "serving" /\ client.auth = AuthConfigured
        /\ state \in {"open_state", "auth_state", "request_state"}) =>
        /\ Consumed = Extent(client, Completed) + read_count
        /\ Len(replies) = 2 * Completed

\* What ends the wait of a client besides an answer.  A failed assertion does
\* not count: it ends every other client as well.
Closed == status \in {"rejected", "exhausted", "hungup"}

\* Wherever the greeting is cut, and whatever comes behind it, the client is
\* told the method the server wants, or its connection ends.
GreetingIsAnswered ==
    said >= 1 ~> \/ /\ Len(replies) >= 2
                    /\ Taken(replies, 2) = <<SOCKS5, IF AuthConfigured THEN 2 ELSE 0>>
                 \/ Closed

\* Wherever it is cut, the request of a client that has waited for its replies
\* makes the server dial, or the connection ends.  Domain names are apart
\* (NoAssertionFails), and so is the answer, which is Tunnel's.
RequestIsDialled ==
    (/\ client.waits /\ said = Len(Messages(client))
     /\ client.auth = AuthConfigured /\ client.atyp # DOMAIN_NAME)
        ~> (dialled # NoDest \/ Closed)

-----------------------------------------------------------------------------
(* What the comments and the README say, and the code does not do.         *)

\* README.md:21 "optional USER/PASS (RFC1929)": a login is answered too.
LoginIsAnswered ==
    (client.waits /\ AuthConfigured /\ client.auth /\ said = 2)
        ~> (Len(replies) >= 4 \/ Closed)

\* protocol.h:96 lets the request arrive in pieces ("0 - more bytes are
\* needed"): no cut of the stream trips the assertion of protocol.c:231.
NoAssertionFails == status # "aborted"
=============================================================================
