-------------------------- MODULE HandshakeProofs --------------------------
(***************************************************************************)
(* Proofs about Handshake.tla, for every server, every set of clients and  *)
(* every cut of the stream: types, the destination and the credentials,    *)
(* good clients, and the place in the stream that read_count keeps.        *)
(***************************************************************************)
EXTENDS HandshakeLemmas

-----------------------------------------------------------------------------
(* The inductive invariant.                                                *)

\* Where in it the handlers are, by read_count; what was read and what was not
\* follow there.
Place == Extent(client, Completed) + read_count
Placed ==
    /\ Ahead(client, read_buffer, Place)
    /\ Ahead(client, unread, Place + Len(read_buffer))
    /\ Place + Len(read_buffer) + Len(unread) = Extent(client, said)

\* The fields of a message that read_count says were taken are the client's.
\* Where the client and the server disagree on the login, the login of a client
\* is refused as a request, and a request taken for a login has an empty name.
OpenFields ==
    /\ read_count \in {0, OPEN_HEADER}
    /\ read_count = OPEN_HEADER =>
          op.nmethods = Len(client.methods) /\ client.ver = SOCKS5

AuthFields ==
    /\ AuthConfigured
    /\ client.ver = SOCKS5
    /\ read_count \in {0, AUTH_HEADER, AUTH_HEADER + ap.ulen, AUTH_HEADER + ap.ulen + 1}
    /\ (read_count # 0 /\ client.auth) => ap.ulen = Len(client.uname)
    /\ read_count \notin {0, AUTH_HEADER} =>
          /\ ap.ulen # 0
          /\ client.auth => ap.uname = client.uname
          /\ ~client.auth => CString(ap.uname) = <<>>
    /\ (read_count = AUTH_HEADER + ap.ulen + 1 /\ ap.ulen # 0 /\ client.auth) =>
          ap.plen = Len(client.passwd)

RequestFields ==
    /\ client.ver = SOCKS5
    /\ AuthConfigured => client.auth /\ HasCredentials(client)
    /\ read_count \in {0, REQUEST_HEADER, REQUEST_HEADER + 1}
    /\ read_count # 0 =>
          /\ client.auth = AuthConfigured
          /\ client.cmd = CONNECT
          /\ rp.atyp = client.atyp /\ rp.atyp \in {IPV4, IPV6, DOMAIN_NAME}

Handshaking == status = "serving" /\ state \in {"open_state", "auth_state", "request_state"}

StageInv ==
    Handshaking =>
        /\ Placed
        /\ Len(replies) = 2 * Completed
        /\ dialled = NoDest
        /\ state = "open_state" => OpenFields
        /\ state = "auth_state" => AuthFields
        /\ state = "request_state" => RequestFields

IInv == TypeOK /\ StageInv /\ DialsAsAsked /\ AcceptsGoodClients

-----------------------------------------------------------------------------
(* One EPOLLIN: the buffer a handler is given, and what it may leave.      *)

\* The server and the client of a state are those of a session.
LEMMA Who ==
    ASSUME TypeOK
    PROVE  /\ client \in ClientT /\ SERVER \in ServerT
           /\ MAX_UNAME_LEN \in 1 .. 255 /\ MAX_PASSWD_LEN \in 1 .. 255
  BY HandshakeAssumption DEF TypeOK

\* Reading n bytes, and the buffer the handler finds.
Reading(n) ==
    /\ status = "serving"
    /\ unread' = Left(unread, n)
    /\ UNCHANGED <<SERVER, client, said>>
Buf(n) == read_buffer \o Taken(unread, n)

\* The buffer a handler is given starts at the handlers' place, and what was not
\* read follows it.
LEMMA Arrives ==
    ASSUME TypeOK, Placed, NEW n \in 0 .. Len(unread)
    PROVE  /\ Ahead(client, Buf(n), Place)
           /\ Buf(n) \in Seq(Byte) /\ Len(Buf(n)) \in Nat
           /\ Place \in Nat
           /\ Ahead(client, Left(unread, n), Place + Len(Buf(n)))
           /\ Place + Len(Buf(n)) + Len(Left(unread, n)) = Extent(client, said)
           /\ Left(unread, n) \in Seq(Byte)
<1> DEFINE b == read_buffer
           x == Taken(unread, n)
           y == Left(unread, n)
           p == Place
<1>1. client \in ClientT /\ b \in Seq(Byte) /\ unread \in Seq(Byte) /\ p \in Nat
  BY Who DEF TypeOK, Placed, Ahead
<1>2. /\ Ahead(client, b, p) /\ Ahead(client, unread, p + Len(b))
      /\ p + Len(b) + Len(unread) = Extent(client, said)
  BY DEF Placed
<1>3. Len(b) \in Nat /\ Len(unread) \in Nat /\ n \in Nat
  BY <1>1, LenProperties
<1> HIDE DEF b, p
<1>4. /\ Ahead(client, x, p + Len(b)) /\ Len(x) = n
      /\ Ahead(client, y, (p + Len(b)) + n) /\ Len(y) = Len(unread) - n
  BY <1>1, <1>2, AheadCut
<1> HIDE DEF x, y
<1>5. Ahead(client, b \o x, p) /\ Len(b \o x) = Len(b) + n
  BY <1>1, <1>2, <1>4, AheadJoin
<1>6. /\ (p + Len(b)) + n = p + (Len(b) + n) /\ Len(b) + n \in Nat
      /\ p + (Len(b) + n) + (Len(unread) - n) = p + Len(b) + Len(unread)
  BY <1>1, <1>3
<1>7. Ahead(client, y, p + Len(b \o x))
  BY <1>4, <1>5, <1>6
<1>8. b \o x \in Seq(Byte) /\ y \in Seq(Byte)
  BY <1>4, <1>5 DEF Ahead
<1>9. p + Len(b \o x) + Len(y) = Extent(client, said)
  BY <1>2, <1>4, <1>5, <1>6
<1>10. Buf(n) = b \o x /\ y = Left(unread, n) /\ p = Place
  BY DEF Buf, b, x, y, p
<1> QED
  BY <1>1, <1>5, <1>6, <1>7, <1>8, <1>9, <1>10

\* Types of what a handler keeps between calls.
StageType ==
    /\ state \in {"open_state", "auth_state", "request_state",
                  "connecting_state", "connected_state"}
    /\ read_count \in 0 .. 258
    /\ op \in [nmethods : Byte]
    /\ ap \in [ver : Byte, ulen : 0 .. MAX_UNAME_LEN,
               uname : Seq(Byte), plen : 0 .. MAX_PASSWD_LEN]
    /\ rp \in [atyp : Byte]

\* The handler took k bytes, and the tunnel is still in the handshake.
LEMMA Stays ==
    ASSUME IInv, Handshaking, NEW n \in 0 .. Len(unread), Reading(n),
           NEW k \in 0 .. Len(Buf(n)), read_buffer' = Left(Buf(n), k),
           Place' = Place + k, UNCHANGED <<dialled, status>>, StageType',
           state' \in {"open_state", "auth_state", "request_state"},
           replies' \in Seq(Byte), Len(replies') = 2 * Completed',
           (state = "open_state" => OpenFields)',
           (state = "auth_state" => AuthFields)',
           (state = "request_state" => RequestFields)'
    PROVE  IInv'
<1> DEFINE b == Buf(n)
           y == Left(unread, n)
           p == Place
           z == Left(b, k)
<1>1. TypeOK /\ Placed /\ client \in ClientT /\ dialled = NoDest
  BY Who DEF IInv, StageInv
<1>2. /\ Ahead(client, b, p) /\ b \in Seq(Byte) /\ Len(b) \in Nat /\ p \in Nat
      /\ Ahead(client, y, p + Len(b)) /\ p + Len(b) + Len(y) = Extent(client, said)
      /\ y \in Seq(Byte)
  BY <1>1, Arrives
<1>3. Len(y) \in Nat /\ k \in Nat /\ k <= Len(b) /\ k \in 0 .. Len(b)
  BY <1>2, LenProperties
<1>4. read_buffer' = z /\ unread' = y /\ client' = client /\ said' = said /\ Place' = p + k
  BY DEF Reading
<1> HIDE DEF b, y, p
<1>5. Ahead(client, z, p + k) /\ Len(z) = Len(b) - k /\ z \in Seq(Byte)
  BY <1>1, <1>2, <1>3, AheadCut, Cut
<1> HIDE DEF z
<1>6. p + k + Len(z) = p + Len(b)
  BY <1>2, <1>3, <1>5
<1>7. Placed'
  <2>1. Ahead(client, y, p + k + Len(z)) /\ p + k + Len(z) + Len(y) = Extent(client, said)
    BY <1>2, <1>6
  <2>2. Ahead(client', read_buffer', Place')
    BY <1>4, <1>5
  <2>3. Ahead(client', unread', Place' + Len(read_buffer'))
    BY <1>4, <2>1
  <2>4. Place' + Len(read_buffer') + Len(unread') = Extent(client', said')
    BY <1>4, <2>1
  <2> QED
    BY <2>2, <2>3, <2>4 DEF Placed, Ahead, Conversation, Greeting, UserPass, Request,
                            Extent, Messages
<1>8. TypeOK'
  BY <1>1, <1>2, <1>4, <1>5 DEF TypeOK, StageType, Reading
<1>9. StageInv'
  BY <1>1, <1>7 DEF StageInv
<1>10. DialsAsAsked' /\ AcceptsGoodClients'
  BY <1>1 DEF DialsAsAsked, AcceptsGoodClients, NoDest, Reading
<1> QED
  BY <1>8, <1>9, <1>10 DEF IInv

\* The handler ended the connection, or the process, without dialling.
LEMMA Ends ==
    ASSUME IInv, NEW n \in 0 .. Len(unread), Reading(n), StageType',
           read_buffer' \in Seq(Byte), UNCHANGED <<replies, dialled>>,
           status' \in {"rejected", "exhausted", "aborted"},
           status' = "rejected" => ~Acceptable(client)
    PROVE  IInv'
<1>1. unread \in Seq(Byte)
  BY DEF IInv, TypeOK
<1>2. unread' \in Seq(Byte)
  BY <1>1, Cut DEF Reading
<1>3. TypeOK'
  BY <1>2 DEF IInv, TypeOK, StageType, Reading
<1>4. StageInv'
  BY DEF StageInv, Handshaking
<1>5. DialsAsAsked'
  BY DEF IInv, DialsAsAsked, Destination, HasCredentials, AuthConfigured, CString, Taken, Reading
<1>6. AcceptsGoodClients'
  BY DEF AcceptsGoodClients, Acceptable, HasCredentials, AuthConfigured, Reading
<1> QED
  BY <1>3, <1>4, <1>5, <1>6 DEF IInv

-----------------------------------------------------------------------------
(* The greeting.                                                           *)

\* A reply is queued, and the next message begins; or there is no memory for it.
LEMMA Queues ==
    ASSUME NEW buf, NEW reply, NEW next, Replies(buf, reply, next)
    PROVE  \/ /\ replies' = replies \o reply /\ read_buffer' = buf /\ state' = next
              /\ read_count' = 0 /\ UNCHANGED <<dialled, status>>
           \/ /\ status' = "exhausted" /\ read_buffer' = <<>>
              /\ UNCHANGED <<state, read_count, replies, dialled>>
  BY DEF Replies

\* A reply of two bytes, queued.
LEMMA TwoMore ==
    ASSUME replies \in Seq(Byte), NEW v \in Byte, NEW w \in Byte
    PROVE  replies \o <<v, w>> \in Seq(Byte) /\ Len(replies \o <<v, w>>) = Len(replies) + 2
<1> DEFINE x == <<v, w>>
<1>1. x \in Seq(Byte) /\ Len(x) = 2
  OBVIOUS
<1> HIDE DEF x
<1>2. replies \o x \in Seq(Byte) /\ Len(replies \o x) = Len(replies) + Len(x)
  BY <1>1, Concat
<1> QED
  BY <1>1, <1>2 DEF x

\* tunnel_open_handle after its header, which is read in this call or was before.
LEMMA MethodsStep ==
    ASSUME IInv, Handshaking, NEW n \in 0 .. Len(unread), Reading(n),
           state = "open_state", client.ver = SOCKS5,
           NEW k \in Nat, k <= Len(Buf(n)), read_count + k = OPEN_HEADER,
           Methods(Left(Buf(n), k), Len(client.methods))
    PROVE  IInv'
<1> DEFINE b == Buf(n)
           m == Len(client.methods)
<1>1. /\ TypeOK /\ Placed /\ client \in ClientT /\ m \in Byte
      /\ read_count \in Nat /\ replies \in Seq(Byte) /\ Len(replies) = 2 * Completed
      /\ Completed = 0 /\ Place = read_count
  <2>1. TypeOK /\ Placed /\ Len(replies) = 2 * Completed
    BY DEF IInv, StageInv
  <2>2. client \in ClientT
    BY <2>1, Who
  <2>3. Completed = 0
    BY DEF Completed
  <2>4. m \in Byte /\ Extent(client, 0) = 0
    BY <2>2, ClientParts, Extents
  <2>5. read_count \in Nat /\ replies \in Seq(Byte)
    BY <2>1 DEF TypeOK
  <2>6. Place = read_count
    BY <2>3, <2>4, <2>5 DEF Place
  <2> QED
    BY <2>1, <2>2, <2>3, <2>4, <2>5, <2>6
<1>2. b \in Seq(Byte) /\ Len(b) \in Nat
  BY <1>1, Arrives
<1>3. m \in Nat
  BY <1>1, ByteIs, Zenon
<1>4. /\ op' = [nmethods |-> m] /\ UNCHANGED <<ap, rp>>
      /\ \/ /\ Len(Left(b, k)) < m
            /\ read_count' = OPEN_HEADER /\ UNCHANGED state /\ Waits(Left(b, k))
         \/ /\ Len(Left(b, k)) >= m
            /\ IF AuthConfigured
               THEN Replies(Left(Left(b, k), m), <<SOCKS5, 2>>, "auth_state")
               ELSE Replies(Left(Left(b, k), m), <<SOCKS5, 0>>, "request_state")
  BY DEF Methods
<1>5. SERVER' = SERVER /\ client' = client
  BY DEF Reading
<1> HIDE DEF b, m
<1>6. /\ Len(Left(b, k)) = Len(b) - k
      /\ m <= Len(b) - k => k + m \in 0 .. Len(b) /\ Left(Left(b, k), m) = Left(b, k + m)
  BY <1>2, <1>3, Further DEF b
<1>7. op' \in [nmethods : Byte]
  BY <1>1, <1>4
<1>8. CASE Len(Left(b, k)) < m /\ read_count' = OPEN_HEADER /\ UNCHANGED state
           /\ Waits(Left(b, k))
  <2>1. /\ read_buffer' = Left(b, k) /\ UNCHANGED <<replies, dialled, status>>
        /\ read_count' = 2
    BY <1>8 DEF Waits, OPEN_HEADER
  <2>2. StageType'
    BY <1>1, <1>4, <1>7, <1>8, <2>1 DEF StageType, TypeOK
  <2>3. Completed' = 0
    BY <1>8 DEF Completed
  <2>4. Place' = Place + k
    <3>1. Extent(client, 0) = 0
      BY <1>1, Extents
    <3>2. Place' = Extent(client, 0)' + read_count'
      BY <2>3 DEF Place
    <3>3. Extent(client, 0)' = 0
      BY <1>5, <3>1
    <3> QED
      BY <1>1, <2>1, <3>2, <3>3 DEF OPEN_HEADER
  <2>5. OpenFields'
    BY <1>4, <1>5, <2>1 DEF OpenFields, OPEN_HEADER, m
  <2>6. k \in 0 .. Len(Buf(n)) /\ read_buffer' = Left(Buf(n), k)
    BY <1>2, <2>1 DEF b
  <2>7. /\ replies' \in Seq(Byte) /\ Len(replies') = 2 * Completed'
        /\ state' = "open_state" /\ UNCHANGED <<dialled, status>>
    BY <1>1, <1>8, <2>1, <2>3
  <2> QED
    BY <2>2, <2>4, <2>5, <2>6, <2>7, Stays
<1>9. CASE Len(Left(b, k)) >= m
  <2>1. m <= Len(b) - k
    BY <1>2, <1>3, <1>6, <1>9
  <2>2. PICK v \in {0, 2} :
           /\ Replies(Left(b, k + m), <<SOCKS5, v>>,
                      IF AuthConfigured THEN "auth_state" ELSE "request_state")
    BY <1>2, <1>3, <1>4, <1>6, <1>9, <2>1
  <2>3. CASE /\ replies' = replies \o <<SOCKS5, v>> /\ read_buffer' = Left(b, k + m)
             /\ state' = (IF AuthConfigured THEN "auth_state" ELSE "request_state")
             /\ read_count' = 0 /\ UNCHANGED <<dialled, status>>
    <3>1. Completed' = 1 /\ AuthConfigured' = AuthConfigured
      BY <1>5, <2>3 DEF Completed, AuthConfigured
    <3>2. Place' = Place + (k + m)
      <4>1. Extent(client, 1) = 2 + m
        BY <1>1, Extents DEF GLen, m
      <4>2. Place' = Extent(client, 1)' + read_count'
        BY <3>1 DEF Place
      <4>3. Extent(client, 1)' = 2 + m
        BY <1>5, <4>1 DEF m
      <4> QED
        BY <1>1, <1>3, <2>3, <4>2, <4>3 DEF OPEN_HEADER
    <3>3. replies' \in Seq(Byte) /\ Len(replies') = 2 * Completed'
      <4>1. SOCKS5 \in Byte /\ v \in Byte
        BY DEF SOCKS5, Byte
      <4> QED
        BY <1>1, <2>3, <3>1, <4>1, TwoMore
    <3>4. StageType'
      <4>1. state' = "auth_state" \/ state' = "request_state"
        BY <2>3
      <4>2. read_count' \in 0 .. 258
        BY <2>3
      <4>3. ap' = ap /\ rp' = rp
        BY <1>4
      <4>4. /\ ap \in [ver : Byte, ulen : 0 .. MAX_UNAME_LEN,
                       uname : Seq(Byte), plen : 0 .. MAX_PASSWD_LEN]
            /\ rp \in [atyp : Byte]
        BY <1>1 DEF TypeOK
      <4> QED
        BY <1>7, <4>1, <4>2, <4>3, <4>4 DEF StageType
    <3>5. (state = "auth_state" => AuthFields)'
      <4>1. ap'.ulen \in Nat /\ AUTH_HEADER + ap'.ulen + 1 # 0
        BY <3>4, HandshakeAssumption DEF StageType, AUTH_HEADER
      <4> QED
        BY <1>5, <2>3, <3>1, <4>1 DEF AuthFields
    <3>6. (state = "request_state" => RequestFields)'
      BY <1>5, <2>3, <3>1 DEF RequestFields
    <3>7. k + m \in 0 .. Len(Buf(n)) /\ read_buffer' = Left(Buf(n), k + m)
      BY <1>6, <2>1, <2>3 DEF b
    <3> QED
      BY <2>3, <3>2, <3>3, <3>4, <3>5, <3>6, <3>7, Stays
  <2>4. CASE /\ status' = "exhausted" /\ read_buffer' = <<>>
             /\ UNCHANGED <<state, read_count, replies, dialled>>
    <3>1. StageType'
      BY <1>1, <1>4, <1>7, <2>4 DEF StageType, TypeOK
    <3> QED
      BY <2>4, <3>1, Ends
  <2> QED
    BY <2>2, <2>3, <2>4, Queues
<1> QED
  BY <1>4, <1>8, <1>9

\* tunnel_open_handle preserves the invariant.
LEMMA OpenStep ==
    ASSUME IInv, Handshaking, NEW n \in 0 .. Len(unread), Reading(n),
           state = "open_state", OpenHandle(Buf(n))
    PROVE  IInv'
<1> DEFINE b == Buf(n)
<1>1. /\ TypeOK /\ Placed /\ OpenFields /\ client \in ClientT
      /\ replies \in Seq(Byte) /\ Len(replies) = 2 * Completed /\ read_count \in Nat
      /\ client' = client /\ SERVER' = SERVER
  BY Who DEF IInv, StageInv, TypeOK, Reading
<1>2. /\ Ahead(client, b, Place) /\ b \in Seq(Byte) /\ Len(b) \in Nat /\ Place \in Nat
  BY <1>1, Arrives
<1>3. Place = read_count
  <2>1. Completed = 0 /\ Extent(client, 0) = 0
    BY <1>1, Extents DEF Completed
  <2> QED
    BY <1>1, <2>1 DEF Place
<1> HIDE DEF b
<1>4. CASE read_count = 0 /\ Len(b) < OPEN_HEADER /\ Waits(b) /\ UNCHANGED stage
  <2>1. /\ read_buffer' = Left(Buf(n), 0) /\ 0 \in 0 .. Len(Buf(n))
        /\ UNCHANGED <<replies, dialled, status, state, read_count, op, ap, rp>>
    BY <1>2, <1>4, LeftNone DEF Waits, stage, b
  <2>2. Completed' = Completed /\ Place' = Place + 0
    BY <1>1, <1>2, <2>1 DEF Completed, Place, AuthConfigured
  <2>3. StageType' /\ OpenFields'
    BY <1>1, <2>1 DEF StageType, TypeOK, OpenFields
  <2> QED
    BY <1>1, <2>1, <2>2, <2>3, Stays DEF Handshaking
<1>5. CASE read_count = 0 /\ Len(b) >= OPEN_HEADER
  <2>1. b[1] = client.ver /\ b[2] = Len(client.methods)
    <3>1. 1 \in 1 .. Len(b) /\ 2 \in 1 .. Len(b) /\ Place + 1 = 1 /\ Place + 2 = 2
      BY <1>2, <1>3, <1>5 DEF OPEN_HEADER
    <3>2. b[1] = Conversation(client)[1] /\ b[2] = Conversation(client)[2]
      BY <1>1, <1>2, <3>1, Heard
    <3>3. 1 \in 1 .. GLen(client) /\ 2 \in 1 .. GLen(client)
      BY <1>1, ConversationBytes
    <3> QED
      BY <1>1, <3>2, <3>3, ConversationBytes, GreetingBytes
  <2>2. CASE b[1] = SOCKS5
    <3>1. Methods(Left(b, OPEN_HEADER), b[2])
      BY <1>5, <2>2 DEF OpenHandle, b, OPEN_HEADER
    <3>2. OPEN_HEADER \in Nat /\ read_count + OPEN_HEADER = OPEN_HEADER
      BY <1>5 DEF OPEN_HEADER
    <3> QED
      BY <1>5, <2>1, <2>2, <3>1, <3>2, MethodsStep DEF b
  <2>3. CASE b[1] # SOCKS5
    <3>1. Rejects
      BY <1>5, <2>3 DEF OpenHandle, b, OPEN_HEADER
    <3>2. /\ status' = "rejected" /\ read_buffer' = <<>>
          /\ UNCHANGED <<state, read_count, op, ap, rp, replies, dialled>>
      BY <3>1 DEF Rejects, stage
    <3>3. ~Acceptable(client)
      BY <2>1, <2>3 DEF Acceptable
    <3>4. StageType' /\ read_buffer' \in Seq(Byte)
      BY <1>1, <3>2 DEF StageType, TypeOK
    <3> QED
      BY <3>2, <3>3, <3>4, Ends
  <2> QED
    BY <2>2, <2>3
<1>6. CASE read_count = OPEN_HEADER
  <2>1. Methods(Left(Buf(n), 0), Len(client.methods)) /\ client.ver = SOCKS5
    BY <1>1, <1>2, <1>6, LeftNone DEF OpenHandle, OpenFields, OPEN_HEADER, b
  <2>2. 0 \in Nat /\ 0 <= Len(Buf(n)) /\ read_count + 0 = OPEN_HEADER
    BY <1>1, <1>2, <1>6 DEF b
  <2> QED
    BY <2>1, <2>2, MethodsStep
<1> QED
  BY <1>1, <1>4, <1>5, <1>6 DEF OpenHandle, OpenFields, b

-----------------------------------------------------------------------------
(* The login.                                                              *)

\* The parts of TypeOK that the handlers use.
LEMMA Typed ==
    ASSUME TypeOK
    PROVE  /\ StageType /\ replies \in Seq(Byte) /\ read_count \in Nat
           /\ rp \in [atyp : Byte]
<1>1. read_count \in 0 .. 258
  BY DEF TypeOK
<1>2. read_count \in Nat
  BY <1>1
<1>3. StageType
  BY DEF TypeOK, StageType
<1>4. replies \in Seq(Byte) /\ rp \in [atyp : Byte]
  BY DEF TypeOK
<1> QED
  BY <1>2, <1>3, <1>4

\* What the handler of the login starts from.
LEMMA AuthFacts ==
    ASSUME IInv, Handshaking, NEW n \in 0 .. Len(unread), Reading(n), state = "auth_state"
    PROVE  /\ TypeOK /\ StageType /\ client \in ClientT /\ AuthFields
           /\ client' = client /\ SERVER' = SERVER /\ AuthConfigured' = AuthConfigured
           /\ replies \in Seq(Byte) /\ Len(replies) = 2
           /\ read_count \in Nat /\ ap.ulen \in Byte /\ ap.plen \in Byte
           /\ Ahead(client, Buf(n), Place) /\ Buf(n) \in Seq(Byte) /\ Len(Buf(n)) \in Nat
           /\ Place = GLen(client) + read_count /\ Place \in Nat
           /\ GLen(client) \in Nat /\ Completed = 1
           /\ dialled = NoDest
<1>1. /\ TypeOK /\ Placed /\ AuthFields /\ Len(replies) = 2 * Completed /\ dialled = NoDest
  BY DEF IInv, StageInv
<1>2. client \in ClientT /\ MAX_UNAME_LEN \in 1 .. 255 /\ MAX_PASSWD_LEN \in 1 .. 255
  BY <1>1, Who
<1>3. Completed = 1
  BY DEF Completed
<1>4. Place = GLen(client) + read_count
  BY <1>2, <1>3, Extents DEF Place
<1>5. StageType /\ replies \in Seq(Byte) /\ read_count \in Nat
  BY <1>1, Typed
<1>6. ap.ulen \in Byte /\ ap.plen \in Byte
  <2>1. ap.ulen \in 0 .. MAX_UNAME_LEN /\ ap.plen \in 0 .. MAX_PASSWD_LEN
    BY <1>5 DEF StageType
  <2>2. \A m \in 1 .. 255 : \A x \in 0 .. m : x \in 0 .. 255
    OBVIOUS
  <2> QED
    BY <1>2, <2>1, <2>2, Zenon DEF Byte
<1>7. client' = client /\ SERVER' = SERVER
  BY DEF Reading
<1>8. AuthConfigured' = AuthConfigured
  BY <1>7 DEF AuthConfigured
<1>9. GLen(client) \in Nat
  BY <1>2, ConversationBytes
<1> QED
  BY <1>1, <1>2, <1>3, <1>4, <1>5, <1>6, <1>7, <1>8, <1>9, Arrives

\* A field is taken: k bytes, and ap is what is known of the login then.
LEMMA FieldTaken ==
    ASSUME IInv, Handshaking, NEW n \in 0 .. Len(unread), Reading(n), state = "auth_state",
           NEW k \in Nat, k <= Len(Buf(n)), NEW f, Field(Buf(n), k, f),
           StageType', AuthFields'
    PROVE  IInv'
<1>1. /\ read_count' = read_count + k
      /\ UNCHANGED <<state, replies, dialled, status>>
      /\ read_buffer' = Left(Buf(n), k)
  BY DEF Field, Waits
<1>2. /\ client' = client /\ SERVER' = SERVER /\ client \in ClientT
      /\ Len(replies) = 2 /\ replies \in Seq(Byte)
      /\ Place = GLen(client) + read_count /\ Len(Buf(n)) \in Nat
      /\ read_count \in Nat /\ GLen(client) \in Nat
  BY AuthFacts
<1>3. Completed' = 1
  BY <1>1 DEF Completed
<1>4. Place' = Place + k
  <2>1. Place' = Extent(client, 1)' + read_count'
    BY <1>3 DEF Place
  <2>2. Extent(client, 1) = GLen(client)
    BY <1>2, Extents
  <2>3. Extent(client, 1)' = GLen(client)
    BY <1>2, <2>2
  <2> QED
    BY <1>1, <1>2, <2>1, <2>3
<1>5. k \in 0 .. Len(Buf(n))
  BY <1>2
<1>6. replies' \in Seq(Byte) /\ Len(replies') = 2 * Completed'
  BY <1>1, <1>2, <1>3
<1>7. state' = "auth_state" /\ UNCHANGED <<dialled, status>>
  BY <1>1
<1> QED
  BY <1>1, <1>4, <1>5, <1>6, <1>7, Stays

\* Nothing is taken.
LEMMA ShortStays ==
    ASSUME IInv, Handshaking, NEW n \in 0 .. Len(unread), Reading(n),
           Waits(Buf(n)), UNCHANGED stage
    PROVE  IInv'
<1>1. /\ TypeOK /\ Placed /\ client' = client /\ SERVER' = SERVER
      /\ Len(replies) = 2 * Completed
      /\ state = "open_state" => OpenFields
      /\ state = "auth_state" => AuthFields
      /\ state = "request_state" => RequestFields
  BY DEF IInv, StageInv, Reading
<1>2. Buf(n) \in Seq(Byte) /\ Len(Buf(n)) \in Nat /\ Place \in Nat
  BY <1>1, Arrives
<1>3. /\ read_buffer' = Left(Buf(n), 0) /\ 0 \in 0 .. Len(Buf(n))
      /\ UNCHANGED <<replies, dialled, status, state, read_count, op, ap, rp>>
  BY <1>2, LeftNone DEF Waits, stage
<1>4. Completed' = Completed /\ Place' = Place + 0
  BY <1>1, <1>2, <1>3 DEF Completed, Place, AuthConfigured
<1>5. StageType'
  BY <1>1, <1>3 DEF StageType, TypeOK
<1>6. /\ (state = "open_state" => OpenFields)'
      /\ (state = "auth_state" => AuthFields)'
      /\ (state = "request_state" => RequestFields)'
  BY <1>1, <1>3 DEF OpenFields, AuthFields, RequestFields, AuthConfigured, HasCredentials
<1>7. /\ replies' \in Seq(Byte) /\ Len(replies') = 2 * Completed'
      /\ state' \in {"open_state", "auth_state", "request_state"}
  BY <1>1, <1>3, <1>4 DEF TypeOK, Handshaking
<1> QED
  BY <1>3, <1>4, <1>5, <1>6, <1>7, Stays

\* A client turned away for what it says was not in order.
LEMMA RejectsEnds ==
    ASSUME IInv, Handshaking, NEW n \in 0 .. Len(unread), Reading(n),
           Rejects, ~Acceptable(client)
    PROVE  IInv'
<1>1. /\ status' = "rejected" /\ read_buffer' = <<>>
      /\ UNCHANGED <<state, read_count, op, ap, rp, replies, dialled>>
  BY DEF Rejects, stage
<1>2. StageType' /\ read_buffer' \in Seq(Byte)
  BY <1>1 DEF StageType, IInv, TypeOK
<1> QED
  BY <1>1, <1>2, Ends

\* A handler that trips its assertion leaves no handshake behind.
LEMMA AbortsEnds ==
    ASSUME IInv, Handshaking, NEW n \in 0 .. Len(unread), Reading(n), Aborts
    PROVE  IInv'
<1>1. /\ status' = "aborted"
      /\ UNCHANGED <<state, read_count, op, ap, rp, read_buffer, replies, dialled>>
  BY DEF Aborts, stage
<1>2. StageType' /\ read_buffer' \in Seq(Byte)
  BY <1>1 DEF StageType, IInv, TypeOK
<1> QED
  BY <1>1, <1>2, Ends

\* What the handler hears while it expects a login.
LEMMA HeardInLogin ==
    ASSUME IInv, Handshaking, NEW n \in 0 .. Len(unread), Reading(n), state = "auth_state"
    PROVE  /\ \A i \in 1 .. Len(Buf(n)) : Buf(n)[i] \in Byte
           /\ client.auth =>
                 \A i \in 1 .. Len(Buf(n)) :
                    read_count + i <= ULen(client) =>
                       Buf(n)[i] = UserPass(client)[read_count + i]
           /\ ~client.auth =>
                 \A i \in 1 .. Len(Buf(n)) :
                    read_count + i <= RLen(client) =>
                       Buf(n)[i] = Request(client)[read_count + i]
<1> DEFINE b == Buf(n)
           c == client
           g == GLen(client)
           r == read_count
<1>1. /\ c \in ClientT /\ Ahead(c, b, g + r) /\ Len(b) \in Nat /\ g \in Nat /\ r \in Nat
  BY AuthFacts
<1>2. /\ c.auth => \A i \in 1 .. ULen(c) : Conversation(c)[g + i] = UserPass(c)[i]
      /\ ~c.auth => \A i \in 1 .. RLen(c) : Conversation(c)[g + i] = Request(c)[i]
      /\ ULen(c) \in Nat /\ RLen(c) \in Nat
  BY <1>1, ConversationBytes DEF Start
<1> HIDE DEF b, c, g, r
<1>3. \A i \in 1 .. Len(b) : b[i] = Conversation(c)[g + r + i] /\ b[i] \in Byte
  BY <1>1, Heard
<1>4. \A i \in 1 .. Len(b) : g + r + i = g + (r + i) /\ r + i \in Nat /\ r + i >= 1
  BY <1>1
<1>5. ASSUME c.auth, NEW i \in 1 .. Len(b), r + i <= ULen(c)
      PROVE  b[i] = UserPass(c)[r + i]
  <2>1. r + i \in 1 .. ULen(c)
    BY <1>2, <1>4, <1>5
  <2> QED
    BY <1>2, <1>3, <1>4, <1>5, <2>1
<1>6. ASSUME ~c.auth, NEW i \in 1 .. Len(b), r + i <= RLen(c)
      PROVE  b[i] = Request(c)[r + i]
  <2>1. r + i \in 1 .. RLen(c)
    BY <1>2, <1>4, <1>6
  <2> QED
    BY <1>2, <1>3, <1>4, <1>6, <2>1
<1> QED
  BY <1>3, <1>5, <1>6 DEF b, c, r

\* tunnel_auth_handle: version and length of the name.
LEMMA HeaderStep ==
    ASSUME IInv, Handshaking, NEW n \in 0 .. Len(unread), Reading(n), state = "auth_state",
           read_count = 0, AuthHeader(Buf(n))
    PROVE  IInv'
<1> DEFINE b == Buf(n)
           f == [ap EXCEPT !.ver = b[1], !.ulen = b[2]]
<1>1. /\ client \in ClientT /\ AuthFields /\ StageType /\ Len(b) \in Nat
      /\ client' = client /\ SERVER' = SERVER /\ AuthConfigured' = AuthConfigured
  BY AuthFacts
<1>2. \/ AuthShort(b, AUTH_HEADER)
      \/ /\ Len(b) >= 2
         /\ \/ b[2] > MAX_UNAME_LEN /\ Rejects
            \/ ~(b[2] > MAX_UNAME_LEN) /\ Field(b, 2, f)
  BY DEF AuthHeader, AUTH_HEADER
<1>3. ASSUME Len(b) >= 2
      PROVE  b[1] \in Byte /\ b[2] \in Byte /\ (client.auth => b[2] = Len(client.uname))
  <2>1. 1 \in 1 .. Len(b) /\ 2 \in 1 .. Len(b) /\ read_count + 2 = 2
    BY <1>1, <1>3
  <2>2. 2 <= ULen(client)
    BY <1>1, ConversationBytes
  <2>3. b[1] \in Byte /\ b[2] \in Byte /\ (client.auth => b[2] = UserPass(client)[2])
    BY <2>1, <2>2, HeardInLogin
  <2> QED
    BY <1>1, <2>3, UserPassBytes
<1> HIDE DEF b, f
<1>4. CASE AuthShort(b, AUTH_HEADER)
  BY <1>4, ShortStays DEF AuthShort, b
<1>5. CASE Len(b) >= 2 /\ b[2] > MAX_UNAME_LEN /\ Rejects
  <2>1. client.auth => ~(Len(client.uname) <= MAX_UNAME_LEN)
    BY <1>3, <1>5, HandshakeAssumption DEF Byte
  <2>2. ~Acceptable(client)
    BY <1>1, <2>1 DEF Acceptable, AuthFields
  <2> QED
    BY <1>5, <2>2, RejectsEnds
<1>6. CASE Len(b) >= 2 /\ ~(b[2] > MAX_UNAME_LEN) /\ Field(b, 2, f)
  <2>1. ap' = f /\ read_count' = 2 /\ UNCHANGED <<state, op, rp>>
    BY <1>6 DEF Field
  <2>2. b[1] \in Byte /\ b[2] \in 0 .. MAX_UNAME_LEN
    BY <1>3, <1>6, HandshakeAssumption, Limited
  <2>3. /\ ap' \in [ver : Byte, ulen : 0 .. MAX_UNAME_LEN,
                    uname : Seq(Byte), plen : 0 .. MAX_PASSWD_LEN]
        /\ ap'.ulen = b[2]
    BY <1>1, <2>1, <2>2 DEF StageType, f
  <2>4. StageType'
    BY <1>1, <2>1, <2>3 DEF StageType
  <2>5. AUTH_HEADER + ap'.ulen + 1 # 2 /\ AUTH_HEADER = 2
    BY <2>2, <2>3, HandshakeAssumption DEF AUTH_HEADER
  <2>6. AuthFields'
    BY <1>1, <1>3, <1>6, <2>1, <2>3, <2>5 DEF AuthFields
  <2>7. 2 \in Nat /\ 2 <= Len(Buf(n)) /\ Field(Buf(n), 2, f)
    BY <1>6 DEF b
  <2> QED
    BY <2>4, <2>6, <2>7, FieldTaken
<1> QED
  BY <1>2, <1>4, <1>5, <1>6

\* tunnel_auth_handle: the name.
LEMMA UnameStep ==
    ASSUME IInv, Handshaking, NEW n \in 0 .. Len(unread), Reading(n), state = "auth_state",
           read_count = AUTH_HEADER, AuthUname(Buf(n))
    PROVE  IInv'
<1> DEFINE b == Buf(n)
           u == ap.ulen
           t == Taken(b, u)
           f == [ap EXCEPT !.uname = t]
<1>1. /\ client \in ClientT /\ AuthFields /\ StageType /\ b \in Seq(Byte) /\ Len(b) \in Nat
      /\ client' = client /\ SERVER' = SERVER /\ AuthConfigured' = AuthConfigured
      /\ u \in Byte
  BY AuthFacts
<1>2. \/ AuthShort(b, u)
      \/ Len(b) >= u /\ Field(b, u, f)
  BY DEF AuthUname
<1>3. client.auth => u = Len(client.uname)
  <2>1. read_count # 0
    BY DEF AUTH_HEADER
  <2> QED
    BY <1>1, <2>1 DEF AuthFields
<1>4. u \in Nat /\ u <= 255 /\ read_count = 2
  BY <1>1, ByteIs DEF AUTH_HEADER
<1>5. ASSUME Len(b) >= u
      PROVE  /\ t \in Seq(Byte)
             /\ client.auth => t = client.uname
             /\ (~client.auth /\ u # 0) => CString(t) = <<>>
  <2>1. u \in 0 .. Len(b)
    BY <1>1, <1>4, <1>5
  <2>2. t \in Seq(Byte) /\ Len(t) = u /\ \A i \in 1 .. u : t[i] = b[i]
    BY <1>1, <2>1, Cut
  <2> HIDE DEF b, u, t
  <2>3. CASE client.auth
    <3>1. client.uname \in Seq(Byte) /\ Len(client.uname) = u /\ Len(client.passwd) \in Nat
      BY <1>1, <1>3, <2>3, ClientParts, ByteIs
    <3>2. ULen(client) = 3 + u + Len(client.passwd)
      BY <3>1 DEF ULen
    <3>3. ASSUME NEW i \in 1 .. u PROVE b[i] = client.uname[i]
      <4>1. i \in 1 .. Len(b) /\ read_count + i = 2 + i
        BY <1>1, <1>4, <1>5 DEF AUTH_HEADER
      <4>2. read_count + i <= ULen(client)
        <5>1. \A y \in Nat : 2 + i <= 3 + u + y
          BY <1>4
        <5> QED
          BY <3>1, <3>2, <4>1, <5>1, Zenon
      <4>3. b[i] = UserPass(client)[2 + i]
        BY <2>3, <4>1, <4>2, HeardInLogin DEF b
      <4> QED
        BY <1>1, <3>1, <4>3, UserPassBytes
    <3> QED
      BY <2>2, <2>3, <3>1, <3>3, SeqEqual
  <2>4. CASE ~client.auth /\ u # 0
    <3>1. 1 \in 1 .. Len(b) /\ 1 \in 1 .. u /\ read_count + 1 = 3
      BY <1>1, <1>4, <1>5, <2>4 DEF AUTH_HEADER
    <3>2. read_count + 1 <= RLen(client)
      BY <1>1, <3>1, ConversationBytes
    <3>3. b[1] = Request(client)[3]
      BY <2>4, <3>1, <3>2, HeardInLogin DEF b
    <3>4. t[1] = 0 /\ Len(t) > 0
      BY <1>1, <1>4, <2>2, <2>4, <3>1, <3>3, RequestBytes
    <3> QED
      BY <2>2, <2>4, <3>4, CStringParts
  <2> QED
    BY <1>1, <2>2, <2>3, <2>4 DEF b, u, t
<1> HIDE DEF t
<1>6. CASE AuthShort(b, u)
  BY <1>6, ShortStays DEF AuthShort
<1>7. CASE Len(b) >= u /\ Field(b, u, f)
  <2>1. ap' = f /\ read_count' = AUTH_HEADER + u /\ UNCHANGED <<state, op, rp>>
    BY <1>7 DEF Field
  <2>2. /\ ap' \in [ver : Byte, ulen : 0 .. MAX_UNAME_LEN,
                    uname : Seq(Byte), plen : 0 .. MAX_PASSWD_LEN]
        /\ ap'.ulen = u /\ ap'.uname = t
    BY <1>1, <1>5, <1>7, <2>1 DEF StageType
  <2>3. read_count' \in 0 .. 258
    <3>1. \A x \in Nat : x <= 255 => 2 + x \in 0 .. 258
      OBVIOUS
    <3> QED
      BY <1>4, <2>1, <3>1, Zenon DEF AUTH_HEADER
  <2>4. StageType'
    BY <1>1, <2>1, <2>2, <2>3 DEF StageType
  <2>5. AUTH_HEADER + u # AUTH_HEADER + u + 1 /\ (u = 0 => AUTH_HEADER + u = AUTH_HEADER)
    BY <1>4 DEF AUTH_HEADER
  <2>6. AuthFields'
    BY <1>1, <1>3, <1>5, <1>7, <2>1, <2>2, <2>5 DEF AuthFields
  <2>7. u \in Nat /\ u <= Len(Buf(n))
    BY <1>1, <1>4, <1>7
  <2> QED
    BY <1>7, <2>4, <2>6, <2>7, FieldTaken
<1> QED
  BY <1>2, <1>6, <1>7

\* tunnel_auth_handle: the length of the password.
LEMMA PlenStep ==
    ASSUME IInv, Handshaking, NEW n \in 0 .. Len(unread), Reading(n), state = "auth_state",
           read_count = AUTH_HEADER + ap.ulen, ap.ulen # 0, AuthPlen(Buf(n))
    PROVE  IInv'
<1> DEFINE b == Buf(n)
           u == ap.ulen
           f == [ap EXCEPT !.plen = b[1]]
<1>1. /\ client \in ClientT /\ AuthFields /\ StageType /\ Len(b) \in Nat
      /\ client' = client /\ SERVER' = SERVER /\ AuthConfigured' = AuthConfigured
      /\ u \in Byte
  BY AuthFacts
<1>2. \/ AuthShort(b, 1)
      \/ /\ Len(b) >= 1
         /\ \/ b[1] > MAX_PASSWD_LEN /\ Rejects
            \/ ~(b[1] > MAX_PASSWD_LEN) /\ Field(b, 1, f)
  BY DEF AuthPlen
<1>3. /\ u \in Nat /\ u <= 255 /\ read_count = 2 + u
      /\ read_count \notin {0, AUTH_HEADER} /\ read_count # 0
  <2>1. u \in Nat /\ u <= 255
    BY <1>1, ByteIs
  <2> QED
    BY <2>1 DEF AUTH_HEADER
<1>4. /\ client.auth => u = Len(client.uname) /\ ap.uname = client.uname
      /\ ~client.auth => CString(ap.uname) = <<>>
  BY <1>1, <1>3 DEF AuthFields
<1>5. ASSUME Len(b) >= 1
      PROVE  b[1] \in Byte /\ (client.auth => b[1] = Len(client.passwd))
  <2>1. 1 \in 1 .. Len(b) /\ read_count + 1 = 3 + u
    BY <1>1, <1>3, <1>5
  <2>2. client.auth => read_count + 1 <= ULen(client)
    <3>1. Len(client.passwd) \in Nat
      BY <1>1, ClientParts, ByteIs
    <3>2. client.auth => ULen(client) = 3 + u + Len(client.passwd)
      BY <1>4 DEF ULen
    <3> QED
      BY <1>3, <3>1, <3>2
  <2>3. b[1] \in Byte /\ (client.auth => b[1] = UserPass(client)[3 + u])
    BY <2>1, <2>2, HeardInLogin
  <2> QED
    BY <1>1, <1>4, <2>3, UserPassBytes
<1> HIDE DEF b, f
<1>6. CASE AuthShort(b, 1)
  BY <1>6, ShortStays DEF AuthShort, b
<1>7. CASE Len(b) >= 1 /\ b[1] > MAX_PASSWD_LEN /\ Rejects
  <2>1. client.auth => ~(Len(client.passwd) <= MAX_PASSWD_LEN)
    BY <1>5, <1>7, HandshakeAssumption DEF Byte
  <2>2. ~Acceptable(client)
    BY <1>1, <2>1 DEF Acceptable, AuthFields
  <2> QED
    BY <1>7, <2>2, RejectsEnds
<1>8. CASE Len(b) >= 1 /\ ~(b[1] > MAX_PASSWD_LEN) /\ Field(b, 1, f)
  <2>1. ap' = f /\ read_count' = 2 + u + 1 /\ UNCHANGED <<state, op, rp>>
    BY <1>3, <1>8 DEF Field
  <2>2. b[1] \in 0 .. MAX_PASSWD_LEN
    BY <1>5, <1>8, HandshakeAssumption, Limited
  <2>3. /\ ap' \in [ver : Byte, ulen : 0 .. MAX_UNAME_LEN,
                    uname : Seq(Byte), plen : 0 .. MAX_PASSWD_LEN]
        /\ ap'.ulen = u /\ ap'.uname = ap.uname /\ ap'.plen = b[1]
    BY <1>1, <2>1, <2>2 DEF StageType, f
  <2>4. read_count' \in 0 .. 258
    <3>1. \A x \in Nat : x <= 255 => 2 + x + 1 \in 0 .. 258
      OBVIOUS
    <3> QED
      BY <1>3, <2>1, <3>1, Zenon
  <2>5. StageType'
    BY <1>1, <2>1, <2>3, <2>4 DEF StageType
  <2>6. AuthFields'
    BY <1>1, <1>4, <1>5, <1>8, <2>1, <2>3 DEF AuthFields, AUTH_HEADER
  <2>7. 1 \in Nat /\ 1 <= Len(Buf(n)) /\ Field(Buf(n), 1, f)
    BY <1>8 DEF b
  <2> QED
    BY <2>5, <2>6, <2>7, FieldTaken
<1> QED
  BY <1>2, <1>6, <1>7, <1>8

\* tunnel_auth_handle: the password, and the reply.
LEMMA PasswdStep ==
    ASSUME IInv, Handshaking, NEW n \in 0 .. Len(unread), Reading(n), state = "auth_state",
           read_count = AUTH_HEADER + ap.ulen + 1, ap.ulen # 0, AuthPasswd(Buf(n))
    PROVE  IInv'
<1> DEFINE b == Buf(n)
           u == ap.ulen
           p == ap.plen
           t == Taken(b, p)
           Match == CString(ap.uname) = SERVER.username /\ CString(t) = SERVER.passwd
<1>1. /\ TypeOK /\ client \in ClientT /\ AuthFields /\ StageType
      /\ b \in Seq(Byte) /\ Len(b) \in Nat
      /\ client' = client /\ SERVER' = SERVER /\ AuthConfigured' = AuthConfigured
      /\ u \in Byte /\ p \in Byte /\ replies \in Seq(Byte) /\ Len(replies) = 2
      /\ Place = GLen(client) + read_count /\ GLen(client) \in Nat
  BY AuthFacts
<1>2. \/ AuthShort(b, p)
      \/ /\ Len(b) >= p
         /\ \/ ~Match /\ Rejects
            \/ /\ Match /\ UNCHANGED <<op, ap, rp>>
               /\ Replies(Left(b, p), <<ap.ver, 0>>, "request_state")
  BY DEF AuthPasswd
<1>3. /\ u \in Nat /\ p \in Nat /\ read_count = 3 + u
      /\ read_count \notin {0, AUTH_HEADER} /\ read_count # 0
  <2>1. u \in Nat /\ p \in Nat
    BY <1>1, ByteIs
  <2> QED
    BY <2>1 DEF AUTH_HEADER
<1>4. /\ client.auth => /\ u = Len(client.uname) /\ ap.uname = client.uname
                        /\ p = Len(client.passwd)
      /\ ~client.auth => CString(ap.uname) = <<>>
      /\ client.ver = SOCKS5 /\ AuthConfigured
  BY <1>1, <1>3 DEF AuthFields
<1>5. ASSUME Len(b) >= p, client.auth PROVE t = client.passwd
  <2>1. p \in 0 .. Len(b)
    BY <1>1, <1>3, <1>5
  <2>2. t \in Seq(Byte) /\ Len(t) = p /\ \A i \in 1 .. p : t[i] = b[i]
    BY <1>1, <2>1, Cut
  <2> HIDE DEF b, u, p, t
  <2>3. client.passwd \in Seq(Byte) /\ Len(client.passwd) = p /\ Len(client.uname) = u
    BY <1>1, <1>4, <1>5, ClientParts
  <2>4. ASSUME NEW i \in 1 .. p PROVE b[i] = client.passwd[i]
    <3>1. i \in 1 .. Len(b) /\ read_count + i = 3 + u + i
      BY <1>1, <1>3, <1>5
    <3>2. read_count + i <= ULen(client)
      BY <1>3, <2>3, <3>1 DEF ULen
    <3>3. b[i] = UserPass(client)[3 + u + i]
      BY <1>5, <3>1, <3>2, HeardInLogin DEF b
    <3> QED
      BY <1>1, <2>3, <3>3, UserPassBytes
  <2> QED
    BY <2>2, <2>3, <2>4, SeqEqual
<1> HIDE DEF t
<1>6. ASSUME Len(b) >= p PROVE Match <=> (client.auth /\ HasCredentials(client))
  <2>1. SERVER.username # <<>>
    BY <1>4 DEF AuthConfigured
  <2> QED
    BY <1>4, <1>5, <1>6, <2>1 DEF HasCredentials
<1> HIDE DEF Match
<1>7. CASE AuthShort(b, p)
  BY <1>7, ShortStays DEF AuthShort
<1>8. CASE Len(b) >= p /\ ~Match /\ Rejects
  <2>1. ~Acceptable(client)
    BY <1>4, <1>6, <1>8 DEF Acceptable
  <2> QED
    BY <1>8, <2>1, RejectsEnds
<1>9. CASE /\ Len(b) >= p /\ Match /\ UNCHANGED <<op, ap, rp>>
           /\ Replies(Left(b, p), <<ap.ver, 0>>, "request_state")
  <2>1. client.auth /\ HasCredentials(client)
    BY <1>6, <1>9
  <2>2. CASE /\ replies' = replies \o <<ap.ver, 0>> /\ read_buffer' = Left(b, p)
             /\ state' = "request_state" /\ read_count' = 0 /\ UNCHANGED <<dialled, status>>
    <3>1. Completed' = 2
      BY <1>1, <1>4, <2>2 DEF Completed
    <3>2. Place' = Place + p
      <4>1. Extent(client, 2) = GLen(client) + (3 + u + p)
        BY <1>1, <1>4, <2>1, Extents DEF ULen
      <4>2. Place' = Extent(client, 2)' + read_count'
        BY <3>1 DEF Place
      <4>3. Extent(client, 2)' = Extent(client, 2)
        BY <1>1
      <4>4. Place = GLen(client) + (3 + u)
        BY <1>1, <1>3
      <4>5. Place' = GLen(client) + (3 + u + p)
        <5>1. \A x \in Nat : x + (3 + u + p) + 0 = x + (3 + u + p)
          BY <1>3
        <5>2. Place' = GLen(client) + (3 + u + p) + 0
          BY <2>2, <4>1, <4>2, <4>3, Zenon
        <5> QED
          BY <1>1, <5>1, <5>2, Zenon
      <4>6. \A x \in Nat : x + (3 + u + p) = x + (3 + u) + p
        BY <1>3
      <4> QED
        BY <1>1, <4>4, <4>5, <4>6
    <3>3. replies' \in Seq(Byte) /\ Len(replies') = 2 * Completed'
      <4>1. ap.ver \in Byte /\ 0 \in Byte
        BY <1>1 DEF StageType, Byte
      <4>2. replies' \in Seq(Byte) /\ Len(replies') = 4
        BY <1>1, <2>2, <4>1, TwoMore
      <4> QED
        BY <3>1, <4>2
    <3>4. StageType'
      BY <1>1, <1>9, <2>2 DEF StageType
    <3>5. HasCredentials(client)'
      BY <1>1, <2>1 DEF HasCredentials
    <3>6. RequestFields'
      BY <1>1, <1>4, <2>1, <2>2, <3>5 DEF RequestFields
    <3>7. p \in 0 .. Len(Buf(n)) /\ read_buffer' = Left(Buf(n), p)
      BY <1>1, <1>3, <1>9, <2>2
    <3> QED
      BY <2>2, <3>2, <3>3, <3>4, <3>6, <3>7, Stays
  <2>3. CASE /\ status' = "exhausted" /\ read_buffer' = <<>>
             /\ UNCHANGED <<state, read_count, replies, dialled>>
    <3>1. StageType' /\ read_buffer' \in Seq(Byte)
      BY <1>1, <1>9, <2>3 DEF StageType
    <3> QED
      BY <2>3, <3>1, Ends
  <2> QED
    BY <1>9, <2>2, <2>3, Queues
<1> QED
  BY <1>2, <1>7, <1>8, <1>9

\* tunnel_auth_handle preserves the invariant.
LEMMA AuthStep ==
    ASSUME IInv, Handshaking, NEW n \in 0 .. Len(unread), Reading(n), state = "auth_state",
           AuthHandle(Buf(n))
    PROVE  IInv'
<1>1. AuthFields /\ ap.ulen \in Byte
  BY AuthFacts
<1>2. CASE AuthStage = "header" /\ AuthHeader(Buf(n))
  <2>1. read_count = 0
    BY <1>2 DEF AuthStage
  <2> QED
    BY <1>2, <2>1, HeaderStep
<1>3. CASE AuthStage = "uname" /\ AuthUname(Buf(n))
  <2>1. read_count = AUTH_HEADER
    BY <1>3 DEF AuthStage
  <2> QED
    BY <1>3, <2>1, UnameStep
<1>4. CASE AuthStage = "plen" /\ AuthPlen(Buf(n))
  <2>1. read_count = AUTH_HEADER + ap.ulen /\ ap.ulen # 0
    BY <1>4 DEF AuthStage
  <2> QED
    BY <1>4, <2>1, PlenStep
<1>5. CASE AuthStage = "passwd" /\ AuthPasswd(Buf(n))
  <2>1. read_count = AUTH_HEADER + ap.ulen + 1
    BY <1>5 DEF AuthStage
  <2>2. read_count \notin {0, AUTH_HEADER}
    BY <1>1, <2>1, ByteIs DEF AUTH_HEADER
  <2>3. ap.ulen # 0
    BY <1>1, <2>2 DEF AuthFields
  <2> QED
    BY <1>5, <2>1, <2>3, PasswdStep
<1>6. CASE AuthStage = "broken" /\ Aborts
  BY <1>6, AbortsEnds
<1> QED
  BY <1>2, <1>3, <1>4, <1>5, <1>6 DEF AuthHandle

-----------------------------------------------------------------------------
(* The request.                                                            *)

\* What the handler of the request starts from.
LEMMA RequestFacts ==
    ASSUME IInv, Handshaking, NEW n \in 0 .. Len(unread), Reading(n), state = "request_state"
    PROVE  /\ TypeOK /\ StageType /\ client \in ClientT /\ RequestFields
           /\ client' = client /\ SERVER' = SERVER /\ AuthConfigured' = AuthConfigured
           /\ replies \in Seq(Byte) /\ Len(replies) = 2 * Completed /\ Completed \in Nat
           /\ read_count \in Nat /\ rp.atyp \in Byte
           /\ Ahead(client, Buf(n), Place) /\ Buf(n) \in Seq(Byte) /\ Len(Buf(n)) \in Nat
           /\ Place \in Nat /\ Place = Extent(client, Completed) + read_count
           /\ client.auth = AuthConfigured => Place = Start(client) + read_count
           /\ client.auth # AuthConfigured => client.auth /\ Place = GLen(client) + read_count
           /\ dialled = NoDest
<1>1. /\ TypeOK /\ Placed /\ RequestFields /\ Len(replies) = 2 * Completed /\ dialled = NoDest
  BY DEF IInv, StageInv
<1>2. client \in ClientT
  BY <1>1, Who
<1>3. client.auth \in BOOLEAN /\ AuthConfigured \in BOOLEAN
  BY <1>2, ClientParts DEF AuthConfigured
<1>4. Completed = IF AuthConfigured THEN 2 ELSE 1
  BY DEF Completed
<1>5. Place = Extent(client, Completed) + read_count
  BY DEF Place
<1>6. StageType /\ replies \in Seq(Byte) /\ read_count \in Nat /\ rp.atyp \in Byte
  <2>1. rp \in [atyp : Byte]
    BY <1>1, Typed
  <2> QED
    BY <1>1, <2>1, Typed
<1>7. client' = client /\ SERVER' = SERVER
  BY DEF Reading
<1>8. AuthConfigured' = AuthConfigured
  BY <1>7 DEF AuthConfigured
<1>9. /\ AuthConfigured => client.auth /\ Extent(client, Completed) = Start(client)
      /\ ~AuthConfigured => Extent(client, Completed) = GLen(client)
      /\ ~client.auth => Start(client) = GLen(client)
  BY <1>1, <1>2, <1>4, Extents DEF RequestFields, Start
<1>10. /\ client.auth = AuthConfigured => Place = Start(client) + read_count
       /\ client.auth # AuthConfigured => client.auth /\ Place = GLen(client) + read_count
  BY <1>3, <1>5, <1>9
<1>11. Completed \in Nat
  BY <1>4
<1> QED
  BY <1>1, <1>2, <1>5, <1>6, <1>7, <1>8, <1>10, <1>11, Arrives

\* What the handler hears while it expects a request: the request, or from a
\* client that was not asked for it, a login.
LEMMA HeardInRequest ==
    ASSUME IInv, Handshaking, NEW n \in 0 .. Len(unread), Reading(n), state = "request_state"
    PROVE  /\ \A i \in 1 .. Len(Buf(n)) : Buf(n)[i] \in Byte
           /\ client.auth = AuthConfigured =>
                 \A i \in 1 .. Len(Buf(n)) :
                    read_count + i <= RLen(client) =>
                       Buf(n)[i] = Request(client)[read_count + i]
           /\ (client.auth # AuthConfigured /\ read_count = 0 /\ Len(Buf(n)) >= 1) =>
                 Buf(n)[1] = 1
<1> DEFINE b == Buf(n)
           c == client
           g == GLen(client)
           s == Start(client)
           r == read_count
           p == Place
<1>1. /\ c \in ClientT /\ Ahead(c, b, p) /\ Len(b) \in Nat /\ r \in Nat
      /\ c.auth = AuthConfigured => p = s + r
      /\ c.auth # AuthConfigured => c.auth /\ p = g + r
  BY RequestFacts
<1>2. /\ c.auth => \A i \in 1 .. ULen(c) : Conversation(c)[g + i] = UserPass(c)[i]
      /\ \A i \in 1 .. RLen(c) : Conversation(c)[s + i] = Request(c)[i]
      /\ ULen(c) >= 3 /\ ULen(c) \in Nat /\ RLen(c) \in Nat /\ g \in Nat /\ s \in Nat
  BY <1>1, ConversationBytes
<1> HIDE DEF b, c, g, s, r, p
<1>3. \A i \in 1 .. Len(b) : b[i] = Conversation(c)[p + i] /\ b[i] \in Byte
  BY <1>1, Heard
<1>4. ASSUME c.auth = AuthConfigured, NEW i \in 1 .. Len(b), r + i <= RLen(c)
      PROVE  b[i] = Request(c)[r + i]
  <2>1. r + i \in 1 .. RLen(c)
    BY <1>1, <1>2, <1>4
  <2>2. s + r + i = s + (r + i)
    BY <1>1, <1>2, <1>4
  <2>3. b[i] = Conversation(c)[s + r + i]
    BY <1>1, <1>3, <1>4
  <2> QED
    BY <1>2, <2>1, <2>2, <2>3
<1>5. ASSUME c.auth # AuthConfigured, r = 0, Len(b) >= 1
      PROVE  b[1] = 1
  <2>1. p = g + 0 /\ c.auth
    BY <1>1, <1>5
  <2>2. g + 0 + 1 = g + 1 /\ 1 \in 1 .. ULen(c) /\ 1 \in 1 .. Len(b)
    BY <1>1, <1>2, <1>5
  <2>3. b[1] = UserPass(c)[1]
    BY <1>2, <1>3, <2>1, <2>2
  <2> QED
    BY <1>1, <2>3, UserPassBytes
<1> QED
  BY <1>3, <1>4, <1>5 DEF b, c, r

\* The header is behind and the address is not complete: rp keeps its type.
LEMMA AddressWaits ==
    ASSUME IInv, Handshaking, NEW n \in 0 .. Len(unread), Reading(n), state = "request_state",
           client.auth = AuthConfigured, client.cmd = CONNECT,
           client.atyp \in {IPV4, IPV6, DOMAIN_NAME},
           NEW k \in Nat, k <= Len(Buf(n)), NEW count \in {REQUEST_HEADER, REQUEST_HEADER + 1},
           read_count + k = count,
           AddrWaits(Left(Buf(n), k), client.atyp, count)
    PROVE  IInv'
<1>1. /\ rp' = [atyp |-> client.atyp] /\ read_count' = count
      /\ UNCHANGED <<state, op, ap, replies, dialled, status>>
      /\ read_buffer' = Left(Buf(n), k)
  BY DEF AddrWaits, Waits
<1>2. /\ StageType /\ client \in ClientT /\ RequestFields
      /\ client' = client /\ SERVER' = SERVER /\ AuthConfigured' = AuthConfigured
      /\ replies \in Seq(Byte) /\ Len(replies) = 2 * Completed
      /\ read_count \in Nat /\ Len(Buf(n)) \in Nat
      /\ Place \in Nat /\ Place = Extent(client, Completed) + read_count
  BY RequestFacts
<1>3. Completed' = Completed
  BY <1>1, <1>2 DEF Completed
<1>4. Place' = Place + k
  <2> DEFINE e == Extent(client, Completed)
  <2>1. e \in Nat
    <3>1. Completed \in {1, 2} /\ (Completed = 2 => AuthConfigured)
      BY DEF Completed
    <3>2. GLen(client) \in Nat /\ ULen(client) \in Nat
      BY <1>2, ConversationBytes
    <3>3. e = GLen(client) \/ e = GLen(client) + ULen(client)
      BY <1>2, <3>1, Extents
    <3> QED
      BY <3>2, <3>3
  <2>2. Place' = e + count
    <3>1. e' = e
      BY <1>2, <1>3
    <3> QED
      BY <1>1, <3>1 DEF Place
  <2>3. Place + k = e + read_count + k
    BY <1>2
  <2> HIDE DEF e
  <2>4. e + read_count + k = e + (read_count + k)
    BY <1>2, <2>1
  <2> QED
    BY <2>2, <2>3, <2>4
<1>5. StageType'
  <2>1. client.atyp \in Byte
    BY <1>2, ClientParts
  <2>2. rp' \in [atyp : Byte]
    BY <1>1, <2>1
  <2>3. read_count' \in 0 .. 258
    BY <1>1 DEF REQUEST_HEADER
  <2> QED
    BY <1>1, <1>2, <2>2, <2>3 DEF StageType
<1>6. RequestFields'
  <2>1. HasCredentials(client)' <=> HasCredentials(client)
    BY <1>2 DEF HasCredentials
  <2>2. rp'.atyp = client.atyp
    BY <1>1
  <2> QED
    BY <1>1, <1>2, <2>1, <2>2 DEF RequestFields
<1>7. k \in 0 .. Len(Buf(n))
  BY <1>2
<1>8. /\ replies' \in Seq(Byte) /\ Len(replies') = 2 * Completed'
      /\ state' = "request_state"
  BY <1>1, <1>2, <1>3
<1> QED
  BY <1>1, <1>4, <1>5, <1>6, <1>7, <1>8, Stays

\* Whatever becomes of the connect, the handshake is over, and the destination
\* is the client's.
LEMMA DialsStep ==
    ASSUME IInv, Handshaking, NEW n \in 0 .. Len(unread), Reading(n), state = "request_state",
           client.atyp \in {IPV4, IPV6, DOMAIN_NAME}, NEW buf \in Seq(Byte),
           NEW addr, NEW port, [atyp |-> client.atyp, addr |-> addr, port |-> port]
                                  = Destination(client),
           Dials(buf, client.atyp, addr, port)
    PROVE  IInv'
<1>1. /\ dialled' = Destination(client) /\ rp' = [atyp |-> client.atyp]
      /\ read_count' = 0 /\ UNCHANGED <<op, ap>>
      /\ \/ /\ status' = "rejected" /\ read_buffer' = <<>> /\ UNCHANGED <<state, replies>>
         \/ /\ state' = "connecting_state" /\ read_buffer' = buf /\ UNCHANGED <<replies, status>>
         \/ /\ state' = "connected_state" /\ read_buffer' = buf
            /\ replies' = replies \o <<SOCKS5, 0, 0>> /\ UNCHANGED status
  BY DEF Dials
<1>2. /\ TypeOK /\ StageType /\ client \in ClientT /\ RequestFields
      /\ client' = client /\ SERVER' = SERVER /\ AuthConfigured' = AuthConfigured
      /\ replies \in Seq(Byte)
  BY RequestFacts
<1>3. Destination(client) \in [atyp : Byte, addr : Seq(Byte), port : Seq(Byte)]
  <2>1. client.atyp \in Byte /\ client.addr \in Seq(Byte) /\ client.port \in Seq(Byte)
    BY <1>2, ClientParts
  <2>2. CString(client.addr) \in Seq(Byte)
    BY <2>1, CStringParts
  <2> QED
    BY <2>1, <2>2 DEF Destination
<1>4. Destination(client).atyp = client.atyp /\ client.atyp # 0
  BY DEF Destination, IPV4, IPV6, DOMAIN_NAME
<1>5. dialled' # NoDest
  BY <1>1, <1>4 DEF NoDest
<1>6. replies' \in Seq(Byte)
  <2> DEFINE x == <<SOCKS5, 0, 0>>
  <2>1. x \in Seq(Byte)
    BY DEF SOCKS5, Byte
  <2> HIDE DEF x
  <2>2. replies \o x \in Seq(Byte)
    BY <1>2, <2>1, Concat
  <2> QED
    BY <1>1, <1>2, <2>2 DEF x
<1>7. TypeOK'
  <2>1. rp' \in [atyp : Byte]
    BY <1>1, <1>2, ClientParts
  <2>2. read_count' \in 0 .. 258
    BY <1>1
  <2>3. read_buffer' \in Seq(Byte)
    <3>1. read_buffer' = <<>> \/ read_buffer' = buf
      BY <1>1
    <3>2. <<>> \in Seq(Byte)
      OBVIOUS
    <3> QED
      BY <3>1, <3>2
  <2>4. status' \in {"serving", "rejected", "exhausted", "hungup", "aborted"}
    BY <1>1, <1>2 DEF TypeOK
  <2>5. state' \in {"open_state", "auth_state", "request_state",
                    "connecting_state", "connected_state"}
    BY <1>1, <1>2 DEF TypeOK
  <2>6. unread' \in Seq(Byte) /\ said' \in 0 .. 3
    BY <1>2, Cut DEF TypeOK, Reading
  <2>7. dialled' \in [atyp : Byte, addr : Seq(Byte), port : Seq(Byte)]
    BY <1>1, <1>3
  <2>8. op' = op /\ ap' = ap /\ \E s \in Sessions : SERVER' = s.server /\ client' = s.client
    BY <1>1, <1>2 DEF TypeOK
  <2>9. op' \in [nmethods : Byte]
    BY <1>2, <2>8 DEF TypeOK
  <2>10. ap' \in [ver : Byte, ulen : 0 .. MAX_UNAME_LEN,
                  uname : Seq(Byte), plen : 0 .. MAX_PASSWD_LEN]
    BY <1>2, <2>8 DEF TypeOK
  <2> QED
    BY <1>6, <2>1, <2>2, <2>3, <2>4, <2>5, <2>6, <2>7, <2>8, <2>9, <2>10 DEF TypeOK
<1>8. StageInv'
  BY <1>1 DEF StageInv, Handshaking
<1>9. DialsAsAsked'
  <2>1. AuthConfigured => client.auth /\ HasCredentials(client)
    BY <1>2 DEF RequestFields
  <2>2. HasCredentials(client)' <=> HasCredentials(client)
    BY <1>2 DEF HasCredentials
  <2>3. Destination(client)' = Destination(client)
    BY <1>2
  <2> QED
    BY <1>1, <1>2, <2>1, <2>2, <2>3 DEF DialsAsAsked
<1>10. AcceptsGoodClients'
  <2>1. (dialled # NoDest)'
    BY <1>5 DEF NoDest
  <2> QED
    BY <2>1 DEF AcceptsGoodClients
<1> QED
  BY <1>7, <1>8, <1>9, <1>10 DEF IInv

\* What the handler finds behind the four bytes of the header.
LEMMA AddressHeard ==
    ASSUME IInv, Handshaking, NEW n \in 0 .. Len(unread), Reading(n), state = "request_state",
           client.auth = AuthConfigured,
           NEW k \in Nat, k <= Len(Buf(n)), read_count + k = REQUEST_HEADER
    PROVE  /\ Left(Buf(n), k) \in Seq(Byte) /\ Len(Left(Buf(n), k)) = Len(Buf(n)) - k
           /\ Len(Buf(n)) \in Nat
           /\ \A i \in 1 .. Len(Left(Buf(n), k)) :
                 4 + i <= RLen(client) => Left(Buf(n), k)[i] = Request(client)[4 + i]
<1> DEFINE b == Buf(n)
           r == read_count
<1>1. b \in Seq(Byte) /\ Len(b) \in Nat /\ r \in Nat /\ r + k = 4 /\ k <= Len(b)
  BY RequestFacts DEF REQUEST_HEADER
<1>2. \A i \in 1 .. Len(b) : r + i <= RLen(client) => b[i] = Request(client)[r + i]
  BY HeardInRequest
<1> HIDE DEF b, r
<1>3. k \in 0 .. Len(b)
  BY <1>1
<1>4. /\ Left(b, k) \in Seq(Byte) /\ Len(Left(b, k)) = Len(b) - k
      /\ \A i \in 1 .. Len(b) - k : Left(b, k)[i] = b[k + i]
  BY <1>1, <1>3, Cut
<1>5. ASSUME NEW i \in 1 .. Len(b) - k, 4 + i <= RLen(client)
      PROVE  Left(b, k)[i] = Request(client)[4 + i]
  <2>1. k + i \in 1 .. Len(b) /\ r + (k + i) = 4 + i
    BY <1>1
  <2>2. b[k + i] = Request(client)[r + (k + i)]
    BY <1>2, <1>5, <2>1
  <2> QED
    BY <1>4, <2>1, <2>2
<1> QED
  BY <1>1, <1>4, <1>5 DEF b

\* An address and a port that begin after d bytes of it.
LEMMA AddressIs ==
    ASSUME NEW c \in ClientT, NEW y \in Seq(Byte), NEW d \in {0, 1}, AddrAt(c) = 4 + d,
           d + Len(c.addr) + 2 <= Len(y),
           \A i \in 1 .. Len(y) : 4 + i <= RLen(c) => y[i] = Request(c)[4 + i]
    PROVE  /\ SubSeq(y, d + 1, d + Len(c.addr)) = c.addr
           /\ SubSeq(y, d + Len(c.addr) + 1, d + Len(c.addr) + 2) = c.port
<1> DEFINE a == c.addr
           q == c.port
<1>1. /\ a \in Seq(Byte) /\ Len(a) \in Nat /\ q \in Seq(Byte) /\ Len(q) = 2
      /\ Len(y) \in Nat /\ d \in Nat /\ d + Len(a) + 2 <= Len(y)
  BY ClientParts, ByteIs, LenProperties
<1>2. /\ \A i \in 1 .. Len(a) : Request(c)[4 + d + i] = a[i]
      /\ \A i \in 1 .. 2 : Request(c)[4 + d + Len(a) + i] = q[i]
  BY RequestBytes
<1>3. RLen(c) = 4 + d + Len(a) + 2
  BY DEF RLen
<1> HIDE DEF a, q
<1>4. ASSUME NEW i \in 1 .. Len(a) PROVE y[d + i] = a[i]
  <2>1. d + i \in 1 .. Len(y) /\ 4 + (d + i) = 4 + d + i /\ 4 + (d + i) <= RLen(c)
    BY <1>1, <1>3, <1>4
  <2> QED
    BY <1>2, <2>1
<1>5. ASSUME NEW i \in 1 .. Len(q) PROVE y[d + Len(a) + i] = q[i]
  <2>1. /\ d + Len(a) + i \in 1 .. Len(y) /\ i \in 1 .. 2
        /\ 4 + (d + Len(a) + i) = 4 + d + Len(a) + i
        /\ 4 + (d + Len(a) + i) <= RLen(c)
    BY <1>1, <1>3, <1>5
  <2> QED
    BY <1>2, <2>1
<1>6. d \in Nat /\ d + Len(a) <= Len(y) /\ d + Len(a) \in Nat /\ d + Len(a) + Len(q) <= Len(y)
  BY <1>1
<1>7. SubSeq(y, d + 1, d + Len(a)) = a
  BY <1>1, <1>4, <1>6, PieceIs
<1>8. SubSeq(y, d + Len(a) + 1, d + Len(a) + Len(q)) = q
  BY <1>1, <1>5, <1>6, PieceIs
<1> QED
  BY <1>1, <1>7, <1>8 DEF a, q

\* tunnel_request_handle: an IPv4 or IPv6 address.
LEMMA FixedStep ==
    ASSUME IInv, Handshaking, NEW n \in 0 .. Len(unread), Reading(n), state = "request_state",
           client.auth = AuthConfigured, client.cmd = CONNECT,
           NEW k \in Nat, k <= Len(Buf(n)), read_count + k = REQUEST_HEADER,
           client.atyp \in {IPV4, IPV6},
           FixedAddr(Left(Buf(n), k), client.atyp, Len(client.addr))
    PROVE  IInv'
<1> DEFINE y == Left(Buf(n), k)
           m == Len(client.addr)
<1>1. /\ y \in Seq(Byte) /\ Len(y) = Len(Buf(n)) - k /\ Len(Buf(n)) \in Nat
      /\ \A i \in 1 .. Len(y) : 4 + i <= RLen(client) => y[i] = Request(client)[4 + i]
  BY AddressHeard
<1>2. client \in ClientT
  BY RequestFacts
<1>3. m \in Nat /\ Len(y) \in Nat
  BY <1>1, <1>2, ClientParts, ByteIs, LenProperties
<1>4. client.atyp \in {IPV4, IPV6, DOMAIN_NAME} /\ client.atyp # DOMAIN_NAME
  BY DEF IPV4, IPV6, DOMAIN_NAME
<1>5. CASE AddrWaits(y, client.atyp, REQUEST_HEADER)
  BY <1>4, <1>5, AddressWaits
<1>6. CASE /\ Len(y) >= m + NPORT
           /\ Dials(Left(y, m + NPORT), client.atyp, Taken(y, m), SubSeq(y, m + 1, m + NPORT))
  <2>1. AddrAt(client) = 4
    BY <1>4 DEF AddrAt
  <2> HIDE DEF y
  <2>2. /\ SubSeq(y, 0 + 1, 0 + m) = client.addr
        /\ SubSeq(y, 0 + m + 1, 0 + m + 2) = client.port
    <3>1. 0 \in {0, 1} /\ AddrAt(client) = 4 + 0 /\ 0 + m + 2 <= Len(y)
      BY <1>3, <1>6, <2>1 DEF NPORT
    <3> QED
      BY <1>1, <1>2, <3>1, AddressIs DEF y
  <2>3. Taken(y, m) = client.addr /\ SubSeq(y, m + 1, m + NPORT) = client.port
    <3>1. 0 + 1 = 1 /\ 0 + m = m /\ m + 2 = m + NPORT
      BY <1>3 DEF NPORT
    <3> QED
      BY <2>2, <3>1 DEF Taken
  <2>4. [atyp |-> client.atyp, addr |-> client.addr, port |-> client.port] = Destination(client)
    BY <1>4 DEF Destination
  <2>5. Left(y, m + NPORT) \in Seq(Byte)
    <3>1. m + NPORT \in 0 .. Len(y)
      BY <1>3, <1>6 DEF NPORT
    <3> QED
      BY <1>1, <3>1, Cut DEF y
  <2>6. Dials(Left(y, m + NPORT), client.atyp, client.addr, client.port)
    BY <1>6, <2>3
  <2> QED
    BY <1>4, <2>4, <2>5, <2>6, DialsStep
<1> QED
  BY <1>5, <1>6 DEF FixedAddr

\* tunnel_request_handle: a domain name, whose length may be taken before it.
LEMMA DomainStep ==
    ASSUME IInv, Handshaking, NEW n \in 0 .. Len(unread), Reading(n), state = "request_state",
           client.auth = AuthConfigured, client.cmd = CONNECT,
           NEW k \in Nat, k <= Len(Buf(n)), read_count + k = REQUEST_HEADER,
           client.atyp = DOMAIN_NAME, DomainAddr(Left(Buf(n), k))
    PROVE  IInv'
<1> DEFINE y == Left(Buf(n), k)
           m == Len(client.addr)
<1>1. /\ y \in Seq(Byte) /\ Len(y) = Len(Buf(n)) - k /\ Len(Buf(n)) \in Nat
      /\ \A i \in 1 .. Len(y) : 4 + i <= RLen(client) => y[i] = Request(client)[4 + i]
  BY AddressHeard
<1>2. client \in ClientT /\ Buf(n) \in Seq(Byte) /\ read_count \in Nat
  BY RequestFacts
<1>3. m \in Nat /\ Len(y) \in Nat
  BY <1>1, <1>2, ClientParts, ByteIs, LenProperties
<1>4. client.atyp \in {IPV4, IPV6, DOMAIN_NAME}
  OBVIOUS
<1>5. AddrAt(client) = 4 + 1 /\ RLen(client) = 5 + m + 2
  BY DEF AddrAt, RLen
<1>6. ASSUME y # <<>> PROVE Len(y) >= 1 /\ y[1] = m
  <2> HIDE DEF y
  <2>1. Len(y) # 0
    BY <1>1, <1>6, EmptySeq DEF y
  <2>2. 1 \in 1 .. Len(y) /\ 4 + 1 <= RLen(client) /\ 4 + 1 = 5
    BY <1>3, <1>5, <2>1
  <2>3. y[1] = Request(client)[5]
    BY <1>1, <2>2 DEF y
  <2> QED
    BY <1>2, <2>2, <2>3, RequestBytes
<1>7. \/ AddrWaits(y, DOMAIN_NAME, REQUEST_HEADER)
      \/ y # <<>> /\ AddrWaits(Left(y, 1), DOMAIN_NAME, REQUEST_HEADER + 1)
      \/ /\ y # <<>> /\ Len(y) - 1 >= m + NPORT
         /\ Dials(Left(y, m + 1 + NPORT), DOMAIN_NAME, CString(SubSeq(y, 2, m + 1)),
                  SubSeq(y, m + 1 + 1, m + 1 + NPORT))
  BY <1>6 DEF DomainAddr
<1>8. CASE AddrWaits(y, DOMAIN_NAME, REQUEST_HEADER)
  BY <1>4, <1>8, AddressWaits
<1>9. CASE y # <<>> /\ AddrWaits(Left(y, 1), DOMAIN_NAME, REQUEST_HEADER + 1)
  <2>1. /\ k + 1 \in Nat /\ k + 1 <= Len(Buf(n)) /\ read_count + (k + 1) = REQUEST_HEADER + 1
        /\ k \in 0 .. Len(Buf(n)) /\ 1 \in 0 .. Len(Buf(n)) - k
    BY <1>1, <1>2, <1>6, <1>9 DEF REQUEST_HEADER
  <2>2. Left(y, 1) = Left(Buf(n), k + 1)
    BY <1>2, <2>1, LeftLeft
  <2>3. REQUEST_HEADER + 1 \in {REQUEST_HEADER, REQUEST_HEADER + 1}
    OBVIOUS
  <2>4. AddrWaits(Left(Buf(n), k + 1), client.atyp, REQUEST_HEADER + 1)
    BY <1>9, <2>2
  <2> QED
    BY <1>4, <2>1, <2>3, <2>4, AddressWaits
<1>10. CASE /\ y # <<>> /\ Len(y) - 1 >= m + NPORT
            /\ Dials(Left(y, m + 1 + NPORT), DOMAIN_NAME, CString(SubSeq(y, 2, m + 1)),
                     SubSeq(y, m + 1 + 1, m + 1 + NPORT))
  <2> HIDE DEF y
  <2>1. /\ SubSeq(y, 1 + 1, 1 + m) = client.addr
        /\ SubSeq(y, 1 + m + 1, 1 + m + 2) = client.port
    <3>1. 1 \in {0, 1} /\ 1 + m + 2 <= Len(y)
      BY <1>3, <1>10 DEF NPORT
    <3> QED
      BY <1>1, <1>2, <1>5, <3>1, AddressIs DEF y
  <2>2. SubSeq(y, 2, m + 1) = client.addr /\ SubSeq(y, m + 1 + 1, m + 1 + NPORT) = client.port
    <3>1. 1 + 1 = 2 /\ 1 + m = m + 1 /\ m + 1 + 2 = m + 1 + NPORT
      BY <1>3 DEF NPORT
    <3> QED
      BY <2>1, <3>1
  <2>3. [atyp |-> client.atyp, addr |-> CString(client.addr), port |-> client.port]
           = Destination(client)
    BY DEF Destination
  <2>4. Left(y, m + 1 + NPORT) \in Seq(Byte)
    <3>1. m + 1 + NPORT \in 0 .. Len(y)
      BY <1>3, <1>10 DEF NPORT
    <3> QED
      BY <1>1, <3>1, Cut DEF y
  <2>5. Dials(Left(y, m + 1 + NPORT), client.atyp, CString(client.addr), client.port)
    BY <1>10, <2>2
  <2> QED
    BY <1>4, <2>3, <2>4, <2>5, DialsStep
<1> QED
  BY <1>7, <1>8, <1>9, <1>10

\* tunnel_request_handle behind the header.
LEMMA AddrStep ==
    ASSUME IInv, Handshaking, NEW n \in 0 .. Len(unread), Reading(n), state = "request_state",
           client.auth = AuthConfigured, client.cmd = CONNECT,
           NEW k \in Nat, k <= Len(Buf(n)), read_count + k = REQUEST_HEADER,
           Addr(Left(Buf(n), k), client.atyp)
    PROVE  IInv'
<1>1. client \in ClientT
  BY RequestFacts
<1>2. CASE client.atyp = IPV4 /\ FixedAddr(Left(Buf(n), k), IPV4, NIPV4)
  <2>1. client.atyp \in {IPV4, IPV6} /\ Len(client.addr) = NIPV4
    BY <1>1, <1>2, ClientParts
  <2> QED
    BY <1>2, <2>1, FixedStep
<1>3. CASE client.atyp = IPV6 /\ FixedAddr(Left(Buf(n), k), IPV6, NIPV6)
  <2>1. client.atyp \in {IPV4, IPV6} /\ Len(client.addr) = NIPV6
    BY <1>1, <1>3, ClientParts
  <2> QED
    BY <1>3, <2>1, FixedStep
<1>4. CASE client.atyp = DOMAIN_NAME /\ DomainAddr(Left(Buf(n), k))
  BY <1>4, DomainStep
<1>5. CASE client.atyp \notin {IPV4, IPV6, DOMAIN_NAME} /\ Rejects
  <2>1. ~Acceptable(client)
    BY <1>5 DEF Acceptable
  <2> QED
    BY <1>5, <2>1, RejectsEnds
<1> QED
  BY <1>2, <1>3, <1>4, <1>5 DEF Addr

\* tunnel_request_handle preserves the invariant.
LEMMA RequestStep ==
    ASSUME IInv, Handshaking, NEW n \in 0 .. Len(unread), Reading(n), state = "request_state",
           RequestHandle(Buf(n))
    PROVE  IInv'
<1> DEFINE b == Buf(n)
<1>1. /\ client \in ClientT /\ RequestFields /\ b \in Seq(Byte) /\ Len(b) \in Nat
      /\ read_count \in Nat
  BY RequestFacts
<1>2. CASE read_count = 0 /\ Len(b) < REQUEST_HEADER /\ Waits(b) /\ UNCHANGED stage
  BY <1>2, ShortStays
<1>3. CASE /\ read_count = 0 /\ Len(b) >= REQUEST_HEADER
           /\ IF b[1] = SOCKS5 /\ b[2] = CONNECT THEN Addr(Left(b, REQUEST_HEADER), b[4])
                                                 ELSE Rejects
  <2>1. /\ 1 \in 1 .. Len(b) /\ 2 \in 1 .. Len(b) /\ 4 \in 1 .. Len(b) /\ Len(b) >= 1
        /\ read_count + 1 = 1 /\ read_count + 2 = 2 /\ read_count + 4 = 4
    BY <1>1, <1>3 DEF REQUEST_HEADER
  <2>2. CASE client.auth = AuthConfigured
    <3>1. 1 <= RLen(client) /\ 2 <= RLen(client) /\ 4 <= RLen(client)
      BY <1>1, ConversationBytes
    <3>2. /\ b[1] = Request(client)[1] /\ b[2] = Request(client)[2]
          /\ b[4] = Request(client)[4]
      BY <2>1, <2>2, <3>1, HeardInRequest
    <3>3. b[1] = client.ver /\ b[2] = client.cmd /\ b[4] = client.atyp
      BY <1>1, <3>2, RequestBytes
    <3>4. CASE b[1] = SOCKS5 /\ b[2] = CONNECT
      <4>1. /\ REQUEST_HEADER \in Nat /\ REQUEST_HEADER <= Len(Buf(n))
            /\ read_count + REQUEST_HEADER = REQUEST_HEADER
        BY <1>1, <1>3 DEF REQUEST_HEADER
      <4>2. Addr(Left(Buf(n), REQUEST_HEADER), client.atyp)
        BY <1>3, <3>3, <3>4
      <4>3. client.cmd = CONNECT
        BY <3>3, <3>4
      <4> QED
        BY <2>2, <4>1, <4>2, <4>3, AddrStep
    <3>5. CASE ~(b[1] = SOCKS5 /\ b[2] = CONNECT)
      <4>1. ~Acceptable(client)
        BY <3>3, <3>5 DEF Acceptable
      <4>2. Rejects
        BY <1>3, <3>5
      <4> QED
        BY <4>1, <4>2, RejectsEnds
    <3> QED
      BY <3>4, <3>5
  <2>3. CASE client.auth # AuthConfigured
    <3>1. b[1] = 1 /\ b[1] # SOCKS5
      BY <1>3, <2>1, <2>3, HeardInRequest DEF SOCKS5
    <3>2. Rejects
      BY <1>3, <3>1
    <3>3. ~Acceptable(client)
      BY <2>3 DEF Acceptable
    <3> QED
      BY <3>2, <3>3, RejectsEnds
  <2> QED
    BY <2>2, <2>3
<1>4. CASE read_count = REQUEST_HEADER /\ Addr(b, rp.atyp)
  <2>1. read_count # 0
    BY <1>4 DEF REQUEST_HEADER
  <2>2. client.auth = AuthConfigured /\ client.cmd = CONNECT /\ rp.atyp = client.atyp
    BY <1>1, <2>1 DEF RequestFields
  <2>3. Addr(Left(Buf(n), 0), client.atyp)
    BY <1>1, <1>4, <2>2, LeftNone
  <2>4. 0 \in Nat /\ 0 <= Len(Buf(n)) /\ read_count + 0 = REQUEST_HEADER
    BY <1>1, <1>4
  <2> QED
    BY <2>2, <2>3, <2>4, AddrStep
<1>5. CASE Aborts
  BY <1>5, AbortsEnds
<1> QED
  BY <1>2, <1>3, <1>4, <1>5 DEF RequestHandle

-----------------------------------------------------------------------------
(* Steps of the handshake, and what follows.                               *)

\* A read runs the handler of the state the tunnel is in, once.
LEMMA ReadHandleStep ==
    ASSUME IInv, NEW n, ReadHandle(n)
    PROVE  IInv'
<1>1. n \in 0 .. Len(unread) /\ Reading(n)
  BY DEF ReadHandle, Reading
<1>2. \/ state = "open_state" /\ OpenHandle(Buf(n))
      \/ state = "auth_state" /\ AuthHandle(Buf(n))
      \/ state = "request_state" /\ RequestHandle(Buf(n))
  BY DEF ReadHandle, Buf
<1>3. Handshaking
  BY <1>1, <1>2 DEF Handshaking, Reading
<1>4. CASE state = "open_state" /\ OpenHandle(Buf(n))
  BY <1>1, <1>3, <1>4, OpenStep
<1>5. CASE state = "auth_state" /\ AuthHandle(Buf(n))
  BY <1>1, <1>3, <1>5, AuthStep
<1>6. CASE state = "request_state" /\ RequestHandle(Buf(n))
  BY <1>1, <1>3, <1>6, RequestStep
<1> QED
  BY <1>2, <1>4, <1>5, <1>6

\* A client that leaves changes nothing else.
LEMMA ReadFailsStep ==
    ASSUME IInv, ReadFails
    PROVE  IInv'
<1>1. /\ status' = "hungup"
      /\ UNCHANGED <<SERVER, client, said, unread, state, read_count, op, ap, rp,
                     read_buffer, replies, dialled>>
  BY DEF ReadFails, stage
<1>2. TypeOK'
  BY <1>1 DEF IInv, TypeOK
<1>3. StageInv'
  BY <1>1 DEF StageInv, Handshaking
<1>4. DialsAsAsked'
  BY <1>1 DEF IInv, DialsAsAsked, Destination, HasCredentials, AuthConfigured, CString, Taken
<1>5. AcceptsGoodClients'
  BY <1>1 DEF AcceptsGoodClients
<1> QED
  BY <1>2, <1>3, <1>4, <1>5 DEF IInv

\* What a client says next follows what it said.
LEMMA ClientSaysStep ==
    ASSUME IInv, ClientSays
    PROVE  IInv'
<1> DEFINE m == Messages(client)[said + 1]
           e == Extent(client, said)
           p == Place
           lb == Len(read_buffer)
<1>1. /\ said < Len(Messages(client)) /\ said' = said + 1 /\ unread' = unread \o m
      /\ UNCHANGED <<SERVER, client, state, read_count, op, ap, rp,
                     read_buffer, replies, dialled, status>>
  BY DEF ClientSays, stage
<1>2. TypeOK /\ client \in ClientT /\ unread \in Seq(Byte) /\ said \in 0 .. 3
  BY Who DEF IInv, TypeOK
<1>3. said \in 0 .. 2
  <2>1. Len(Messages(client)) = 2 \/ Len(Messages(client)) = 3
    BY <1>2, ClientParts, Extents
  <2> QED
    BY <1>1, <1>2, <2>1
<1>4. Ahead(client, m, e) /\ Extent(client, said + 1) = e + Len(m)
  BY <1>1, <1>2, <1>3, MessageBytes
<1>5. m \in Seq(Byte) /\ e \in Nat /\ Len(m) \in Nat
  BY <1>4, LenProperties DEF Ahead
<1> HIDE DEF m
<1>6. unread' \in Seq(Byte)
  BY <1>1, <1>2, <1>5, Concat
<1>7. TypeOK'
  BY <1>1, <1>2, <1>3, <1>6 DEF TypeOK
<1>8. ASSUME Placed PROVE Placed'
  <2>1. /\ Ahead(client, read_buffer, p) /\ Ahead(client, unread, p + lb)
        /\ p + lb + Len(unread) = e
    BY <1>8 DEF Placed
  <2>2. p \in Nat /\ lb \in Nat /\ Len(unread) \in Nat
    BY <1>2, <2>1, LenProperties DEF Ahead, TypeOK
  <2>3. p' = p /\ lb' = lb
    BY <1>1 DEF Place, Completed, AuthConfigured
  <2>4. Extent(client, said)' = Extent(client, said + 1)
    BY <1>1
  <2> HIDE DEF p, lb, e
  <2>5. Ahead(client, unread \o m, p + lb) /\ Len(unread \o m) = Len(unread) + Len(m)
    <3>1. Ahead(client, m, p + lb + Len(unread))
      BY <1>4, <2>1
    <3> QED
      BY <1>2, <2>1, <3>1, AheadJoin
  <2>6. p + lb + Len(unread') = Extent(client, said)'
    <3>1. Len(unread') = Len(unread) + Len(m)
      BY <1>1, <2>5
    <3>2. Extent(client, said)' = e + Len(m)
      BY <1>4, <2>4
    <3> QED
      BY <1>5, <2>1, <2>2, <3>1, <3>2
  <2>7. Ahead(client', read_buffer', p') /\ Ahead(client', unread', p' + lb')
    BY <1>1, <2>1, <2>3, <2>5
  <2>8. p' + lb' + Len(unread') = Extent(client, said)'
    BY <2>3, <2>6
  <2> QED
    BY <1>1, <2>7, <2>8 DEF Placed, p, lb, Ahead, Conversation, Greeting, UserPass, Request,
                            Extent, Messages
<1>9. StageInv'
  <2> SUFFICES ASSUME Handshaking' PROVE StageInv'
    BY DEF StageInv
  <2>1. /\ Placed /\ Len(replies) = 2 * Completed /\ dialled = NoDest
        /\ state = "open_state" => OpenFields
        /\ state = "auth_state" => AuthFields
        /\ state = "request_state" => RequestFields
    BY <1>1 DEF IInv, StageInv, Handshaking
  <2>2. Placed'
    BY <1>8, <2>1
  <2>3. Len(replies') = 2 * Completed' /\ (dialled = NoDest)'
    BY <1>1, <2>1 DEF Completed, AuthConfigured, NoDest
  <2>4. (state = "open_state" => OpenFields)'
    BY <1>1, <2>1 DEF OpenFields
  <2>5. (state = "auth_state" => AuthFields)'
    BY <1>1, <2>1 DEF AuthFields, AuthConfigured
  <2>6. (state = "request_state" => RequestFields)'
    BY <1>1, <2>1 DEF RequestFields, AuthConfigured, HasCredentials
  <2> QED
    BY <2>2, <2>3, <2>4, <2>5, <2>6 DEF StageInv
<1>10. DialsAsAsked'
  BY <1>1 DEF IInv, DialsAsAsked, Destination, HasCredentials, AuthConfigured, CString, Taken
<1>11. AcceptsGoodClients'
  BY <1>1 DEF IInv, AcceptsGoodClients, Acceptable, HasCredentials, AuthConfigured, NoDest
<1> QED
  BY <1>7, <1>9, <1>10, <1>11 DEF IInv

\* A new tunnel waits at the first byte of the greeting.
LEMMA InitInv == Init => IInv
<1> SUFFICES ASSUME Init PROVE IInv
  OBVIOUS
<1>1. /\ said = 0 /\ unread = <<>> /\ state = "open_state" /\ read_count = 0
      /\ read_buffer = <<>> /\ replies = <<>> /\ dialled = NoDest /\ status = "serving"
      /\ \E s \in Sessions : SERVER = s.server /\ client = s.client
  BY DEF Init
<1>2. <<>> \in Seq(Byte) /\ Len(<<>>) = 0 /\ 0 \in Byte
  BY DEF Byte
<1>3. /\ 0 \in 0 .. MAX_UNAME_LEN /\ 0 \in 0 .. MAX_PASSWD_LEN
  BY HandshakeAssumption
<1>4. NoDest \in [atyp : Byte, addr : Seq(Byte), port : Seq(Byte)]
  BY <1>2 DEF NoDest
<1>5. TypeOK
  BY <1>1, <1>2, <1>3, <1>4 DEF Init, TypeOK
<1>6. client \in ClientT
  BY <1>5, Who
<1>7. Completed = 0 /\ Extent(client, 0) = 0 /\ Place = 0
  BY <1>1, <1>6, Extents DEF Completed, Place
<1>8. Placed
  <2>1. Len(Conversation(client)) \in Nat
    BY <1>6, ConversationBytes, LenProperties
  <2>2. Ahead(client, <<>>, 0)
    BY <1>2, <2>1 DEF Ahead
  <2> QED
    BY <1>1, <1>2, <1>7, <2>2 DEF Placed
<1>9. OpenFields
  BY <1>1 DEF OpenFields, OPEN_HEADER
<1>10. StageInv
  BY <1>1, <1>2, <1>7, <1>8, <1>9 DEF StageInv
<1> QED
  BY <1>1, <1>5, <1>10 DEF IInv, DialsAsAsked, AcceptsGoodClients

\* Every step preserves the invariant.
LEMMA StepInv == IInv /\ [Next]_vars => IInv'
<1> SUFFICES ASSUME IInv, [Next]_vars PROVE IInv'
  OBVIOUS
<1>1. CASE ReadSome
  BY <1>1, ReadHandleStep DEF ReadSome
<1>2. CASE ReadHandle(0)
  BY <1>2, ReadHandleStep
<1>3. CASE ReadFails
  BY <1>3, ReadFailsStep
<1>4. CASE ClientSays
  BY <1>4, ClientSaysStep
<1>5. CASE UNCHANGED vars
  <2>1. UNCHANGED <<SERVER, client, said, unread, state, read_count, op, ap, rp,
                    read_buffer, replies, dialled, status>>
    BY <1>5 DEF vars, stage
  <2>2. TypeOK'
    BY <2>1 DEF IInv, TypeOK
  <2>3. StageInv'
    <3>1. Handshaking' <=> Handshaking
      BY <2>1 DEF Handshaking
    <3>2. Placed' <=> Placed
      BY <2>1 DEF Placed, Place, Completed, AuthConfigured, Ahead, Conversation, Greeting,
                  UserPass, Request, Extent, Messages
    <3>3. Completed' = Completed
      BY <2>1 DEF Completed, AuthConfigured
    <3>4. /\ OpenFields' <=> OpenFields
          /\ AuthFields' <=> AuthFields
          /\ RequestFields' <=> RequestFields
      BY <2>1 DEF OpenFields, AuthFields, RequestFields, AuthConfigured, HasCredentials
    <3> QED
      BY <2>1, <3>1, <3>2, <3>3, <3>4 DEF IInv, StageInv, NoDest
  <2>4. DialsAsAsked'
    BY <2>1 DEF IInv, DialsAsAsked, Destination, HasCredentials, AuthConfigured, CString, Taken
  <2>5. AcceptsGoodClients'
    BY <2>1 DEF IInv, AcceptsGoodClients, Acceptable, HasCredentials, AuthConfigured, NoDest
  <2> QED
    BY <2>2, <2>3, <2>4, <2>5 DEF IInv
<1> QED
  BY <1>1, <1>2, <1>3, <1>4, <1>5 DEF Next

\* The invariant holds in every state of every behaviour.
THEOREM InductiveInvariant == Spec => []IInv
  BY InitInv, StepInv, PTL DEF Spec

-----------------------------------------------------------------------------
(* Theorems.                                                               *)

\* Every variable keeps its type; in particular read_count stays within a
\* message, and the lengths kept between calls within the limits of the server.
THEOREM TypeCorrect == Spec => []TypeOK
<1>1. IInv => TypeOK
  BY DEF IInv
<1> QED
  BY <1>1, InductiveInvariant, PTL

\* tunnel_request_handle gives tunnel_connect_to_remote the destination that
\* the client's own request names, and, on a server with credentials, only for
\* a client that showed them: for every cut of the stream, and every client.
THEOREM DialsOnlyAsAsked == Spec => []DialsAsAsked
<1>1. IInv => DialsAsAsked
  BY DEF IInv
<1> QED
  BY <1>1, InductiveInvariant, PTL

\* A client whose messages are all in order is not turned away by a handler
\* before its destination is dialled, wherever the stream is cut.
THEOREM GoodClientsAccepted == Spec => []AcceptsGoodClients
<1>1. IInv => AcceptsGoodClients
  BY DEF IInv
<1> QED
  BY <1>1, InductiveInvariant, PTL

\* The place is what the client said less what is not taken yet.
LEMMA StagesCounted == IInv => StageAccounting
<1> SUFFICES ASSUME IInv, Handshaking PROVE /\ Consumed = Extent(client, Completed) + read_count
                                            /\ Len(replies) = 2 * Completed
  BY DEF StageAccounting, Handshaking
<1>1. TypeOK /\ Placed /\ Len(replies) = 2 * Completed
  BY DEF IInv, StageInv
<1> DEFINE p == Place
           e == Extent(client, said)
           lb == Len(read_buffer)
           lu == Len(unread)
<1>2. p \in Nat /\ lb \in Nat /\ lu \in Nat /\ p + lb + lu = e
  BY <1>1, LenProperties DEF Placed, Ahead
<1>3. Consumed = e - lu - lb /\ p = Extent(client, Completed) + read_count
  BY DEF Consumed, Place
<1> HIDE DEF p, e, lb, lu
<1>4. e - lu - lb = p
  BY <1>2
<1> QED
  BY <1>1, <1>3, <1>4

\* read_count is exactly how far the handlers are into the message they are
\* at, and every message finished before it was answered with two bytes.
THEOREM StagesAreAccounted == Spec => []StageAccounting
  BY StagesCounted, InductiveInvariant, PTL

=============================================================================
