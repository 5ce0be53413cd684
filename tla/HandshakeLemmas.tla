-------------------------- MODULE HandshakeLemmas --------------------------
(***************************************************************************)
(* Where the fields of a client's messages are in what it says, and what a *)
(* handler of Handshake.tla may take from the front of a buffer: the       *)
(* lemmas on which HandshakeProofs.tla rests.                              *)
(***************************************************************************)
EXTENDS Handshake, SequenceTheorems, FiniteSetTheorems, TLAPS

-----------------------------------------------------------------------------
(* Sequences of bytes.                                                     *)

\* A piece of a sequence: its length and its elements.
LEMMA PieceParts ==
    ASSUME NEW bs \in Seq(Byte), NEW k \in 0 .. Len(bs), NEW n \in k .. Len(bs)
    PROVE  /\ SubSeq(bs, k + 1, n) \in Seq(Byte)
           /\ Len(SubSeq(bs, k + 1, n)) = n - k
           /\ \A i \in 1 .. n - k : SubSeq(bs, k + 1, n)[i] = bs[k + i]
<1>1. Len(bs) \in Nat /\ k \in Nat /\ n \in Nat /\ k <= n /\ n <= Len(bs)
  BY LenProperties
<1>2. \A i \in k + 1 .. n : bs[i] \in Byte
  BY <1>1, ElementOfSeq
<1>3. /\ SubSeq(bs, k + 1, n) \in Seq(Byte)
      /\ Len(SubSeq(bs, k + 1, n)) = IF k + 1 <= n THEN n - (k + 1) + 1 ELSE 0
      /\ \A i \in 1 .. n - (k + 1) + 1 : SubSeq(bs, k + 1, n)[i] = bs[(k + 1) + i - 1]
  BY <1>1, <1>2, SubSeqProperties
<1> QED
  BY <1>1, <1>3

\* A piece of a sequence with the elements of x is x.
LEMMA PieceIs ==
    ASSUME NEW bs \in Seq(Byte), NEW x \in Seq(Byte), NEW k \in Nat,
           k + Len(x) <= Len(bs), \A i \in 1 .. Len(x) : bs[k + i] = x[i]
    PROVE  SubSeq(bs, k + 1, k + Len(x)) = x
<1> DEFINE n == k + Len(x)
           y == SubSeq(bs, k + 1, n)
<1>1. Len(bs) \in Nat /\ Len(x) \in Nat
  BY LenProperties
<1>2. k \in 0 .. Len(bs) /\ n \in k .. Len(bs) /\ n - k = Len(x)
  BY <1>1
<1> HIDE DEF n
<1>3. /\ y \in Seq(Byte) /\ Len(y) = Len(x)
      /\ \A i \in 1 .. Len(x) : y[i] = bs[k + i]
  BY <1>2, PieceParts
<1> HIDE DEF y
<1>4. \A i \in 1 .. Len(y) : y[i] = x[i]
  BY <1>3
<1>5. y = x
  BY <1>3, <1>4, SeqEqual
<1> QED
  BY <1>5 DEF y, n

\* The first n bytes and the rest.
LEMMA Cut ==
    ASSUME NEW bs \in Seq(Byte), NEW n \in 0 .. Len(bs)
    PROVE  /\ Taken(bs, n) \in Seq(Byte) /\ Len(Taken(bs, n)) = n
           /\ \A i \in 1 .. n : Taken(bs, n)[i] = bs[i]
           /\ Left(bs, n) \in Seq(Byte) /\ Len(Left(bs, n)) = Len(bs) - n
           /\ \A i \in 1 .. Len(bs) - n : Left(bs, n)[i] = bs[n + i]
<1>1. Len(bs) \in Nat /\ n \in Nat /\ n <= Len(bs)
  BY LenProperties
<1>2. /\ 0 \in 0 .. Len(bs) /\ n \in 0 .. Len(bs) /\ Len(bs) \in n .. Len(bs)
      /\ 0 + 1 = 1 /\ n - 0 = n
  BY <1>1
<1>3. /\ SubSeq(bs, 1, n) \in Seq(Byte) /\ Len(SubSeq(bs, 1, n)) = n
      /\ \A i \in 1 .. n : SubSeq(bs, 1, n)[i] = bs[0 + i]
  BY <1>2, PieceParts
<1>4. /\ SubSeq(bs, n + 1, Len(bs)) \in Seq(Byte)
      /\ Len(SubSeq(bs, n + 1, Len(bs))) = Len(bs) - n
      /\ \A i \in 1 .. Len(bs) - n : SubSeq(bs, n + 1, Len(bs))[i] = bs[n + i]
  BY <1>2, PieceParts
<1> QED
  BY <1>3, <1>4 DEF Taken, Left

\* What strcmp sees is a prefix; of a name that begins with 0 it is nothing.
LEMMA CStringParts ==
    ASSUME NEW bs \in Seq(Byte)
    PROVE  /\ CString(bs) \in Seq(Byte)
           /\ (Len(bs) > 0 /\ bs[1] = 0) => CString(bs) = <<>>
<1> DEFINE Text == {k \in 1 .. Len(bs) : \A i \in 1 .. k : bs[i] # 0}
<1>1. Len(bs) \in Nat
  BY LenProperties
<1>2. IsFiniteSet(1 .. Len(bs)) /\ Cardinality(1 .. Len(bs)) = Len(bs)
  <2>1. 1 \in Int /\ Len(bs) \in Int
    BY <1>1
  <2>2. /\ IsFiniteSet(1 .. Len(bs))
        /\ Cardinality(1 .. Len(bs)) = IF 1 > Len(bs) THEN 0 ELSE Len(bs) - 1 + 1
    BY <2>1, FS_Interval
  <2> QED
    BY <1>1, <2>2
<1>3. Text \subseteq 1 .. Len(bs)
  OBVIOUS
<1> HIDE DEF Text
<1>4. IsFiniteSet(Text) /\ Cardinality(Text) <= Len(bs)
  BY <1>2, <1>3, FS_Subset
<1>5. Cardinality(Text) \in Nat
  BY <1>4, FS_CardinalityType
<1>6. Cardinality(Text) \in 0 .. Len(bs)
  BY <1>1, <1>4, <1>5
<1>7. CString(bs) = Taken(bs, Cardinality(Text))
  BY DEF CString, Text
<1>8. ASSUME Len(bs) > 0, bs[1] = 0 PROVE CString(bs) = <<>>
  <2>1. Text = {}
    BY <1>1, <1>8 DEF Text
  <2>2. Cardinality(Text) = 0
    BY <2>1, FS_EmptySet
  <2> QED
    BY <1>7, <2>2, SubSeqEmpty DEF Taken
<1> QED
  BY <1>6, <1>7, <1>8, Cut

\* Two sequences one behind the other: the length and the elements.
LEMMA Concat ==
    ASSUME NEW x \in Seq(Byte), NEW y \in Seq(Byte)
    PROVE  /\ x \o y \in Seq(Byte) /\ Len(x \o y) = Len(x) + Len(y)
           /\ Len(x) \in Nat /\ Len(y) \in Nat
           /\ \A i \in 1 .. Len(x) : (x \o y)[i] = x[i]
           /\ \A i \in 1 .. Len(y) : (x \o y)[Len(x) + i] = y[i]
<1>1. Len(x) \in Nat /\ Len(y) \in Nat
  BY LenProperties
<1>2. /\ x \o y \in Seq(Byte) /\ Len(x \o y) = Len(x) + Len(y)
      /\ \A i \in 1 .. Len(x) + Len(y) :
            (x \o y)[i] = IF i <= Len(x) THEN x[i] ELSE y[i - Len(x)]
  BY ConcatProperties
<1>3. \A i \in 1 .. Len(x) : (x \o y)[i] = x[i]
  BY <1>1, <1>2
<1>4. ASSUME NEW i \in 1 .. Len(y) PROVE (x \o y)[Len(x) + i] = y[i]
  <2>1. /\ Len(x) + i \in 1 .. Len(x) + Len(y) /\ ~(Len(x) + i <= Len(x))
        /\ (Len(x) + i) - Len(x) = i
    BY <1>1
  <2> QED
    BY <1>2, <2>1
<1> QED
  BY <1>1, <1>2, <1>3, <1>4

\* A byte is a number up to 255.
LEMMA ByteIs == \A x \in Byte : x \in Nat /\ x <= 255
  BY DEF Byte

\* Short messages, byte by byte.
LEMMA OneByte ==
    \A x \in Byte : <<x>> \in Seq(Byte) /\ Len(<<x>>) = 1 /\ <<x>>[1] = x
  OBVIOUS

LEMMA TwoBytes ==
    \A x, y \in Byte : /\ <<x, y>> \in Seq(Byte) /\ Len(<<x, y>>) = 2
                       /\ <<x, y>>[1] = x /\ <<x, y>>[2] = y
  OBVIOUS

LEMMA FourBytes ==
    \A x, y, z, w \in Byte :
        /\ <<x, y, z, w>> \in Seq(Byte) /\ Len(<<x, y, z, w>>) = 4
        /\ <<x, y, z, w>>[1] = x /\ <<x, y, z, w>>[2] = y
        /\ <<x, y, z, w>>[3] = z /\ <<x, y, z, w>>[4] = w
  OBVIOUS

\* What is not above a limit the server sets is within it.
LEMMA Limited == \A m \in 1 .. 255 : \A x \in Byte : ~(x > m) => x \in 0 .. m
  BY DEF Byte

-----------------------------------------------------------------------------
(* What a client says, byte by byte.                                       *)

\* All that a client says.
Conversation(c) ==
    IF c.auth THEN (Greeting(c) \o UserPass(c)) \o Request(c)
              ELSE Greeting(c) \o Request(c)

\* How long its messages are, and where the address begins in a request.
GLen(c) == 2 + Len(c.methods)
ULen(c) == 3 + Len(c.uname) + Len(c.passwd)
AddrAt(c) == IF c.atyp = DOMAIN_NAME THEN 5 ELSE 4
RLen(c) == AddrAt(c) + Len(c.addr) + 2

\* The fields of a client, and what their length bytes are worth.
LEMMA ClientParts ==
    ASSUME NEW c \in ClientT
    PROVE  /\ c.ver \in Byte /\ c.cmd \in Byte /\ c.atyp \in Byte
           /\ c.auth \in BOOLEAN /\ c.waits \in BOOLEAN
           /\ c.methods \in Seq(Byte) /\ Len(c.methods) \in Byte
           /\ c.uname \in Seq(Byte) /\ Len(c.uname) \in Byte
           /\ c.passwd \in Seq(Byte) /\ Len(c.passwd) \in Byte
           /\ c.addr \in Seq(Byte) /\ Len(c.addr) \in Byte
           /\ c.port \in Seq(Byte) /\ Len(c.port) = 2
           /\ c.atyp = IPV4 => Len(c.addr) = NIPV4
           /\ c.atyp = IPV6 => Len(c.addr) = NIPV6
<1>1. /\ c.methods \in Field255 /\ c.uname \in Field255 /\ c.passwd \in Field255
      /\ c.addr \in Field255 /\ c.port \in Seq(Byte)
      /\ Len(c.port) = NPORT
      /\ c.atyp = IPV4 => Len(c.addr) = NIPV4
      /\ c.atyp = IPV6 => Len(c.addr) = NIPV6
      /\ c.ver \in Byte /\ c.cmd \in Byte /\ c.atyp \in Byte
      /\ c.auth \in BOOLEAN /\ c.waits \in BOOLEAN
  BY DEF ClientT
<1>2. \A f \in Field255 : f \in Seq(Byte) /\ Len(f) \in Byte
  <2> TAKE f \in Field255
  <2>1. f \in Seq(Byte) /\ Len(f) <= 255
    BY DEF Field255
  <2>2. Len(f) \in Nat
    BY <2>1, LenProperties
  <2>3. \A n \in Nat : n <= 255 => n \in Byte
    BY DEF Byte
  <2> QED
    BY <2>1, <2>2, <2>3, Zenon
<1> QED
  BY <1>1, <1>2 DEF NPORT

\* Where the fields of a greeting are.
LEMMA GreetingBytes ==
    ASSUME NEW c \in ClientT
    PROVE  /\ Greeting(c) \in Seq(Byte) /\ Len(Greeting(c)) = GLen(c)
           /\ Greeting(c)[1] = c.ver /\ Greeting(c)[2] = Len(c.methods)
<1> DEFINE h == <<c.ver, Len(c.methods)>>
           m == c.methods
<1>1. h \in Seq(Byte) /\ Len(h) = 2 /\ h[1] = c.ver /\ h[2] = Len(c.methods) /\ m \in Seq(Byte)
  BY ClientParts
<1> HIDE DEF h, m
<1>2. /\ h \o m \in Seq(Byte) /\ Len(h \o m) = 2 + Len(m)
      /\ (h \o m)[1] = h[1] /\ (h \o m)[2] = h[2]
  <2>1. /\ h \o m \in Seq(Byte) /\ Len(h \o m) = Len(h) + Len(m)
        /\ \A i \in 1 .. Len(h) : (h \o m)[i] = h[i]
    BY <1>1, Concat
  <2> QED
    BY <1>1, <2>1
<1> QED
  BY <1>1, <1>2 DEF Greeting, GLen, h, m

\* Where the fields of a login are.
LEMMA UserPassBytes ==
    ASSUME NEW c \in ClientT
    PROVE  /\ UserPass(c) \in Seq(Byte) /\ Len(UserPass(c)) = ULen(c)
           /\ UserPass(c)[1] = 1 /\ UserPass(c)[2] = Len(c.uname)
           /\ \A i \in 1 .. Len(c.uname) : UserPass(c)[2 + i] = c.uname[i]
           /\ UserPass(c)[3 + Len(c.uname)] = Len(c.passwd)
           /\ \A i \in 1 .. Len(c.passwd) :
                 UserPass(c)[3 + Len(c.uname) + i] = c.passwd[i]
<1> DEFINE h == <<1, Len(c.uname)>>
           u == c.uname
           l == <<Len(c.passwd)>>
           p == c.passwd
           hu == h \o u
           hul == hu \o l
           all == hul \o p
<1>1. /\ h \in Seq(Byte) /\ Len(h) = 2 /\ h[1] = 1 /\ h[2] = Len(u)
      /\ u \in Seq(Byte) /\ p \in Seq(Byte)
      /\ l \in Seq(Byte) /\ Len(l) = 1 /\ l[1] = Len(p)
  <2>1. /\ u \in Seq(Byte) /\ p \in Seq(Byte) /\ Len(u) \in Byte /\ Len(p) \in Byte
    BY ClientParts
  <2>2. 1 \in Byte
    BY DEF Byte
  <2>3. h \in Seq(Byte) /\ Len(h) = 2 /\ h[1] = 1 /\ h[2] = Len(u)
    BY <2>1, <2>2, TwoBytes
  <2>4. l \in Seq(Byte) /\ Len(l) = 1 /\ l[1] = Len(p)
    BY <2>1, OneByte
  <2> QED
    BY <2>1, <2>3, <2>4
<1> HIDE DEF h, u, l, p
<1>2. /\ hu \in Seq(Byte) /\ Len(hu) = 2 + Len(u) /\ Len(u) \in Nat
      /\ hu[1] = 1 /\ hu[2] = Len(u)
      /\ \A i \in 1 .. Len(u) : hu[2 + i] = u[i]
  <2>1. /\ hu \in Seq(Byte) /\ Len(hu) = Len(h) + Len(u) /\ Len(u) \in Nat
        /\ \A i \in 1 .. Len(h) : hu[i] = h[i]
        /\ \A i \in 1 .. Len(u) : hu[Len(h) + i] = u[i]
    BY <1>1, Concat
  <2> QED
    BY <1>1, <2>1
<1> HIDE DEF hu
<1>3. /\ hul \in Seq(Byte) /\ Len(hul) = 3 + Len(u)
      /\ \A i \in 1 .. 2 + Len(u) : hul[i] = hu[i]
      /\ hul[3 + Len(u)] = Len(p)
  <2>1. /\ hul \in Seq(Byte) /\ Len(hul) = Len(hu) + Len(l)
        /\ \A i \in 1 .. Len(hu) : hul[i] = hu[i]
        /\ \A i \in 1 .. Len(l) : hul[Len(hu) + i] = l[i]
    BY <1>1, <1>2, Concat
  <2>2. hul[Len(hu) + 1] = Len(p)
    BY <1>1, <2>1
  <2>3. Len(hu) = 2 + Len(u) /\ Len(hu) + 1 = 3 + Len(u) /\ Len(l) = 1
    BY <1>1, <1>2
  <2>4. hul[3 + Len(u)] = Len(p)
    BY <2>2, <2>3
  <2>5. \A i \in 1 .. 2 + Len(u) : hul[i] = hu[i]
    BY <2>1, <2>3
  <2> QED
    BY <1>2, <2>1, <2>3, <2>4, <2>5
<1> HIDE DEF hul
<1>4. /\ all \in Seq(Byte) /\ Len(all) = 3 + Len(u) + Len(p) /\ Len(p) \in Nat
      /\ \A i \in 1 .. 3 + Len(u) : all[i] = hul[i]
      /\ \A i \in 1 .. Len(p) : all[3 + Len(u) + i] = p[i]
  <2>1. /\ all \in Seq(Byte) /\ Len(all) = Len(hul) + Len(p) /\ Len(p) \in Nat
        /\ \A i \in 1 .. Len(hul) : all[i] = hul[i]
        /\ \A i \in 1 .. Len(p) : all[Len(hul) + i] = p[i]
    BY <1>1, <1>3, Concat
  <2>2. Len(hul) = 3 + Len(u)
    BY <1>3
  <2> QED
    BY <2>1, <2>2
<1> HIDE DEF all
<1>5. all[1] = 1 /\ all[2] = Len(u) /\ all[3 + Len(u)] = Len(p)
  BY <1>2, <1>3, <1>4
<1>6. \A i \in 1 .. Len(u) : all[2 + i] = u[i]
  <2> TAKE i \in 1 .. Len(u)
  <2>1. 2 + i \in 1 .. 2 + Len(u) /\ 2 + i \in 1 .. 3 + Len(u)
    BY <1>2
  <2> QED
    BY <1>2, <1>3, <1>4, <2>1
<1>7. UserPass(c) = all
  BY DEF UserPass, all, hul, hu, h, u, l, p
<1> QED
  BY <1>4, <1>5, <1>6, <1>7 DEF ULen, u, p

\* Where the fields of a request are.
LEMMA RequestBytes ==
    ASSUME NEW c \in ClientT
    PROVE  /\ Request(c) \in Seq(Byte) /\ Len(Request(c)) = RLen(c)
           /\ Request(c)[1] = c.ver /\ Request(c)[2] = c.cmd /\ Request(c)[3] = 0
           /\ Request(c)[4] = c.atyp
           /\ c.atyp = DOMAIN_NAME => Request(c)[5] = Len(c.addr)
           /\ \A i \in 1 .. Len(c.addr) : Request(c)[AddrAt(c) + i] = c.addr[i]
           /\ \A i \in 1 .. 2 : Request(c)[AddrAt(c) + Len(c.addr) + i] = c.port[i]
<1> DEFINE h == <<c.ver, c.cmd, 0, c.atyp>>
           l == IF c.atyp = DOMAIN_NAME THEN <<Len(c.addr)>> ELSE <<>>
           a == c.addr
           p == c.port
           hl == h \o l
           hla == hl \o a
           all == hla \o p
           D == AddrAt(c)
<1>1. /\ h \in Seq(Byte) /\ Len(h) = 4
      /\ h[1] = c.ver /\ h[2] = c.cmd /\ h[3] = 0 /\ h[4] = c.atyp
      /\ a \in Seq(Byte) /\ p \in Seq(Byte) /\ Len(p) = 2 /\ Len(a) \in Byte
  <2>1. c.ver \in Byte /\ c.cmd \in Byte /\ c.atyp \in Byte
    BY ClientParts
  <2>2. 0 \in Byte
    BY DEF Byte
  <2>3. /\ h \in Seq(Byte) /\ Len(h) = 4
        /\ h[1] = c.ver /\ h[2] = c.cmd /\ h[3] = 0 /\ h[4] = c.atyp
    BY <2>1, <2>2, FourBytes
  <2>4. a \in Seq(Byte) /\ p \in Seq(Byte) /\ Len(p) = 2 /\ Len(a) \in Byte
    BY ClientParts
  <2> QED
    BY <2>3, <2>4
<1>2. /\ l \in Seq(Byte) /\ 4 + Len(l) = D /\ D \in {4, 5}
      /\ c.atyp = DOMAIN_NAME => l[1] = Len(a) /\ Len(l) = 1
  <2>1. CASE c.atyp = DOMAIN_NAME
    BY <1>1, <2>1 DEF AddrAt
  <2>2. CASE c.atyp # DOMAIN_NAME
    BY <2>2 DEF AddrAt
  <2> QED
    BY <2>1, <2>2
<1> HIDE DEF h, l, a, p, D
<1>3. /\ hl \in Seq(Byte) /\ Len(hl) = D
      /\ \A i \in 1 .. 4 : hl[i] = h[i]
      /\ c.atyp = DOMAIN_NAME => hl[5] = Len(a)
  <2>1. /\ hl \in Seq(Byte) /\ Len(hl) = Len(h) + Len(l)
        /\ \A i \in 1 .. Len(h) : hl[i] = h[i]
        /\ \A i \in 1 .. Len(l) : hl[Len(h) + i] = l[i]
    BY <1>1, <1>2, Concat
  <2>2. Len(h) = 4
    BY <1>1
  <2>3. \A i \in 1 .. 4 : hl[i] = h[i]
    BY <2>1, <2>2
  <2>4. ASSUME c.atyp = DOMAIN_NAME PROVE hl[5] = Len(a)
    <3>1. Len(l) = 1 /\ l[1] = Len(a)
      BY <1>2, <2>4
    <3>2. hl[Len(h) + 1] = l[1]
      BY <2>1, <3>1
    <3>3. Len(h) + 1 = 5
      BY <2>2
    <3> QED
      BY <3>1, <3>2, <3>3
  <2> QED
    BY <1>2, <2>1, <2>2, <2>3, <2>4
<1> HIDE DEF hl
<1>4. /\ hla \in Seq(Byte) /\ Len(hla) = D + Len(a) /\ Len(a) \in Nat
      /\ \A i \in 1 .. D : hla[i] = hl[i]
      /\ \A i \in 1 .. Len(a) : hla[D + i] = a[i]
  <2>1. /\ hla \in Seq(Byte) /\ Len(hla) = Len(hl) + Len(a) /\ Len(a) \in Nat
        /\ \A i \in 1 .. Len(hl) : hla[i] = hl[i]
        /\ \A i \in 1 .. Len(a) : hla[Len(hl) + i] = a[i]
    BY <1>1, <1>3, Concat, ZenonT(60)
  <2>2. Len(hl) = D
    BY <1>3
  <2> QED
    BY <2>1, <2>2
<1> HIDE DEF hla
<1>5. /\ all \in Seq(Byte) /\ Len(all) = (D + Len(a)) + 2
      /\ \A i \in 1 .. D + Len(a) : all[i] = hla[i]
      /\ \A i \in 1 .. 2 : all[(D + Len(a)) + i] = p[i]
  <2>1. /\ all \in Seq(Byte) /\ Len(all) = Len(hla) + Len(p)
        /\ \A i \in 1 .. Len(hla) : all[i] = hla[i]
        /\ \A i \in 1 .. Len(p) : all[Len(hla) + i] = p[i]
    BY <1>1, <1>4, Concat
  <2>2. Len(hla) = D + Len(a) /\ Len(p) = 2
    BY <1>1, <1>4
  <2> QED
    BY <2>1, <2>2
<1> HIDE DEF all
<1>6. \A i \in 1 .. 4 : all[i] = h[i]
  <2> TAKE i \in 1 .. 4
  <2>1. i \in 1 .. D /\ i \in 1 .. D + Len(a)
    BY <1>2, <1>4
  <2> QED
    BY <1>3, <1>4, <1>5, <2>1
<1>7. c.atyp = DOMAIN_NAME => all[5] = Len(a)
  <2> SUFFICES ASSUME c.atyp = DOMAIN_NAME PROVE all[5] = Len(a)
    OBVIOUS
  <2>1. D = 5
    BY DEF D, AddrAt
  <2>2. 5 \in 1 .. D /\ 5 \in 1 .. D + Len(a)
    BY <1>4, <2>1
  <2> QED
    BY <1>3, <1>4, <1>5, <2>2
<1>8. \A i \in 1 .. Len(a) : all[D + i] = a[i]
  <2> TAKE i \in 1 .. Len(a)
  <2>1. D + i \in 1 .. D + Len(a)
    BY <1>2, <1>4
  <2> QED
    BY <1>4, <1>5, <2>1
<1>9. Request(c) = all
  BY DEF Request, all, hla, hl, h, l, a, p
<1> QED
  BY <1>1, <1>5, <1>6, <1>7, <1>8, <1>9 DEF RLen, D, a, p

\* Where the request begins, for a server that asked for what the client shows.
Start(c) == IF c.auth THEN GLen(c) + ULen(c) ELSE GLen(c)

\* Where the messages are in what a client says.
LEMMA ConversationBytes ==
    ASSUME NEW c \in ClientT
    PROVE  /\ Conversation(c) \in Seq(Byte)
           /\ Len(Conversation(c)) = Start(c) + RLen(c)
           /\ GLen(c) \in Nat /\ ULen(c) \in Nat /\ RLen(c) \in Nat /\ Start(c) \in Nat
           /\ GLen(c) >= 2 /\ ULen(c) >= 3 /\ RLen(c) >= 6
           /\ \A i \in 1 .. GLen(c) : Conversation(c)[i] = Greeting(c)[i]
           /\ c.auth => \A i \in 1 .. ULen(c) :
                           Conversation(c)[GLen(c) + i] = UserPass(c)[i]
           /\ \A i \in 1 .. RLen(c) : Conversation(c)[Start(c) + i] = Request(c)[i]
<1> DEFINE g == Greeting(c)
           u == UserPass(c)
           r == Request(c)
           gu == g \o u
<1>1. /\ g \in Seq(Byte) /\ Len(g) = GLen(c) /\ u \in Seq(Byte) /\ Len(u) = ULen(c)
      /\ r \in Seq(Byte) /\ Len(r) = RLen(c)
  BY GreetingBytes, UserPassBytes, RequestBytes
<1>2. /\ GLen(c) \in Nat /\ ULen(c) \in Nat /\ RLen(c) \in Nat
      /\ GLen(c) >= 2 /\ ULen(c) >= 3 /\ RLen(c) >= 6
  <2>1. Len(c.methods) \in Nat /\ Len(c.uname) \in Nat /\ Len(c.passwd) \in Nat
        /\ Len(c.addr) \in Nat
    BY ClientParts, ByteIs
  <2>2. AddrAt(c) \in Nat /\ AddrAt(c) >= 4
    BY DEF AddrAt
  <2>3. \A m, v, p, a, d \in Nat : d >= 4 =>
           /\ 2 + m \in Nat /\ 3 + v + p \in Nat /\ d + a + 2 \in Nat
           /\ 2 + m >= 2 /\ 3 + v + p >= 3 /\ d + a + 2 >= 6
    OBVIOUS
  <2> QED
    BY <2>1, <2>2, <2>3, Zenon DEF GLen, ULen, RLen
<1>3. Conversation(c) = IF c.auth THEN gu \o r ELSE g \o r
  BY DEF Conversation
<1> HIDE DEF g, u, r
<1>4. CASE c.auth
  <2>1. /\ gu \in Seq(Byte) /\ Len(gu) = GLen(c) + ULen(c)
        /\ \A i \in 1 .. GLen(c) : gu[i] = g[i]
        /\ \A i \in 1 .. ULen(c) : gu[GLen(c) + i] = u[i]
    <3>1. /\ gu \in Seq(Byte) /\ Len(gu) = Len(g) + Len(u)
          /\ \A i \in 1 .. Len(g) : gu[i] = g[i]
          /\ \A i \in 1 .. Len(u) : gu[Len(g) + i] = u[i]
      BY <1>1, Concat
    <3> QED
      BY <1>1, <3>1
  <2> HIDE DEF gu
  <2>2. /\ gu \o r \in Seq(Byte) /\ Len(gu \o r) = Start(c) + RLen(c)
        /\ \A i \in 1 .. Start(c) : (gu \o r)[i] = gu[i]
        /\ \A i \in 1 .. RLen(c) : (gu \o r)[Start(c) + i] = r[i]
    <3>1. /\ gu \o r \in Seq(Byte) /\ Len(gu \o r) = Len(gu) + Len(r)
          /\ \A i \in 1 .. Len(gu) : (gu \o r)[i] = gu[i]
          /\ \A i \in 1 .. Len(r) : (gu \o r)[Len(gu) + i] = r[i]
      BY <1>1, <2>1, Concat
    <3>2. Start(c) = Len(gu) /\ Len(r) = RLen(c)
      BY <1>1, <1>4, <2>1 DEF Start
    <3> QED
      BY <3>1, <3>2
  <2>3. Start(c) = GLen(c) + ULen(c)
    BY <1>4 DEF Start
  <2>4. \A i \in 1 .. GLen(c) : i \in 1 .. Start(c)
    BY <1>2, <2>3
  <2>5. \A i \in 1 .. ULen(c) : GLen(c) + i \in 1 .. Start(c)
    BY <1>2, <2>3
  <2>6. \A i \in 1 .. GLen(c) : (gu \o r)[i] = g[i]
    BY <2>1, <2>2, <2>4
  <2>7. \A i \in 1 .. ULen(c) : (gu \o r)[GLen(c) + i] = u[i]
    BY <2>1, <2>2, <2>5
  <2>8. Start(c) \in Nat
    BY <1>2, <2>3
  <2> QED
    BY <1>2, <1>3, <1>4, <2>2, <2>6, <2>7, <2>8 DEF g, u, r
<1>5. CASE ~c.auth
  <2>1. /\ g \o r \in Seq(Byte) /\ Len(g \o r) = GLen(c) + RLen(c)
        /\ \A i \in 1 .. GLen(c) : (g \o r)[i] = g[i]
        /\ \A i \in 1 .. RLen(c) : (g \o r)[GLen(c) + i] = r[i]
    <3>1. /\ g \o r \in Seq(Byte) /\ Len(g \o r) = Len(g) + Len(r)
          /\ \A i \in 1 .. Len(g) : (g \o r)[i] = g[i]
          /\ \A i \in 1 .. Len(r) : (g \o r)[Len(g) + i] = r[i]
      BY <1>1, Concat
    <3> QED
      BY <1>1, <3>1
  <2> QED
    BY <1>2, <1>3, <1>5, <2>1 DEF Start, g, r
<1> QED
  BY <1>4, <1>5

\* The lengths of the first messages of a client.
LEMMA Extents ==
    ASSUME NEW c \in ClientT
    PROVE  /\ Extent(c, 0) = 0 /\ Extent(c, 1) = GLen(c)
           /\ c.auth => /\ Extent(c, 2) = GLen(c) + ULen(c)
                        /\ Extent(c, 3) = GLen(c) + ULen(c) + RLen(c)
                        /\ Len(Messages(c)) = 3
                        /\ Messages(c)[1] = Greeting(c) /\ Messages(c)[2] = UserPass(c)
                        /\ Messages(c)[3] = Request(c)
           /\ ~c.auth => /\ Extent(c, 2) = GLen(c) + RLen(c)
                         /\ Len(Messages(c)) = 2
                         /\ Messages(c)[1] = Greeting(c) /\ Messages(c)[2] = Request(c)
<1>1. /\ Len(Greeting(c)) = GLen(c) /\ Len(UserPass(c)) = ULen(c) /\ Len(Request(c)) = RLen(c)
      /\ GLen(c) \in Nat /\ ULen(c) \in Nat /\ RLen(c) \in Nat
  BY GreetingBytes, UserPassBytes, RequestBytes, ConversationBytes
<1>2. c.auth \in BOOLEAN
  BY ClientParts
<1>3. /\ c.auth => /\ Len(Messages(c)) = 3
                   /\ Messages(c)[1] = Greeting(c) /\ Messages(c)[2] = UserPass(c)
                   /\ Messages(c)[3] = Request(c)
      /\ ~c.auth => /\ Len(Messages(c)) = 2
                    /\ Messages(c)[1] = Greeting(c) /\ Messages(c)[2] = Request(c)
  BY DEF Messages
<1>4. Messages(c)[1] = Greeting(c)
  BY <1>2, <1>3
<1>8. Extent(c, 2) = Len(Messages(c)[1]) + Len(Messages(c)[2]) + 0
  BY DEF Extent
<1>9. Extent(c, 3) = Len(Messages(c)[1]) + Len(Messages(c)[2]) + Len(Messages(c)[3])
  BY DEF Extent
<1>5. Extent(c, 0) = 0 /\ Extent(c, 1) = GLen(c)
  BY <1>1, <1>4 DEF Extent
<1>6. ASSUME c.auth PROVE /\ Extent(c, 2) = GLen(c) + ULen(c)
                          /\ Extent(c, 3) = GLen(c) + ULen(c) + RLen(c)
  <2>1. /\ Len(Messages(c)[1]) = GLen(c) /\ Len(Messages(c)[2]) = ULen(c)
        /\ Len(Messages(c)[3]) = RLen(c)
    BY <1>1, <1>3, <1>6
  <2>2. \A a, b \in Nat : a + b + 0 = a + b
    OBVIOUS
  <2>3. Extent(c, 2) = GLen(c) + ULen(c)
    BY <1>1, <1>8, <2>1, <2>2, ZenonT(60)
  <2>4. Extent(c, 3) = GLen(c) + ULen(c) + RLen(c)
    BY <1>9, <2>1, Zenon
  <2> QED
    BY <2>3, <2>4
<1>7. ASSUME ~c.auth PROVE Extent(c, 2) = GLen(c) + RLen(c)
  <2>1. Len(Messages(c)[1]) = GLen(c) /\ Len(Messages(c)[2]) = RLen(c)
    BY <1>1, <1>3, <1>7
  <2>2. \A a, b \in Nat : a + b + 0 = a + b
    OBVIOUS
  <2> QED
    BY <1>1, <1>8, <2>1, <2>2, ZenonT(60)
<1> QED
  BY <1>3, <1>5, <1>6, <1>7

-----------------------------------------------------------------------------
(* How a handler moves through the stream.                                 *)

\* bs is what c says from byte pos + 1 on.
Ahead(c, bs, pos) ==
    /\ bs \in Seq(Byte) /\ pos \in Nat
    /\ pos + Len(bs) <= Len(Conversation(c))
    /\ \A i \in 1 .. Len(bs) : bs[i] = Conversation(c)[pos + i]

\* Nothing taken, everything left.
LEMMA LeftNone ==
    ASSUME NEW bs \in Seq(Byte)
    PROVE  Left(bs, 0) = bs
<1>1. SubSeq(bs, 1, Len(bs)) = bs
  BY SubSeqFull
<1> QED
  BY <1>1 DEF Left

\* Taking i bytes and then j is taking i + j.
LEMMA LeftLeft ==
    ASSUME NEW bs \in Seq(Byte), NEW i \in 0 .. Len(bs), NEW j \in 0 .. Len(bs) - i
    PROVE  Left(Left(bs, i), j) = Left(bs, i + j)
<1> DEFINE x == Left(bs, i)
           y == Left(x, j)
           z == Left(bs, i + j)
<1>1. Len(bs) \in Nat /\ i \in Nat /\ j \in Nat /\ i + j <= Len(bs)
  BY LenProperties
<1>2. /\ x \in Seq(Byte) /\ Len(x) = Len(bs) - i
      /\ \A k \in 1 .. Len(bs) - i : x[k] = bs[i + k]
  BY Cut
<1> HIDE DEF x
<1>3. j \in 0 .. Len(x) /\ i + j \in 0 .. Len(bs)
  BY <1>1, <1>2
<1>4. /\ y \in Seq(Byte) /\ Len(y) = Len(x) - j
      /\ \A k \in 1 .. Len(x) - j : y[k] = x[j + k]
  BY <1>2, <1>3, Cut
<1>5. /\ z \in Seq(Byte) /\ Len(z) = Len(bs) - (i + j)
      /\ \A k \in 1 .. Len(bs) - (i + j) : z[k] = bs[i + j + k]
  BY <1>3, Cut
<1> HIDE DEF y, z
<1>6. Len(y) = Len(z)
  BY <1>1, <1>2, <1>4, <1>5
<1>7. ASSUME NEW k \in 1 .. Len(y) PROVE y[k] = z[k]
  <2>1. /\ k \in 1 .. Len(x) - j /\ j + k \in 1 .. Len(bs) - i
        /\ k \in 1 .. Len(bs) - (i + j) /\ i + (j + k) = i + j + k
    BY <1>1, <1>2, <1>4
  <2>2. y[k] = x[j + k] /\ x[j + k] = bs[i + (j + k)] /\ z[k] = bs[i + j + k]
    BY <1>2, <1>4, <1>5, <2>1
  <2> QED
    BY <2>1, <2>2
<1>8. y = z
  BY <1>4, <1>5, <1>6, <1>7, SeqEqual
<1> QED
  BY <1>8 DEF x, y, z

\* What is ahead is cut in two: the first n bytes, and those behind them.
LEMMA AheadCut ==
    ASSUME NEW c \in ClientT, NEW bs, NEW pos, Ahead(c, bs, pos), NEW n \in 0 .. Len(bs)
    PROVE  /\ Ahead(c, Taken(bs, n), pos) /\ Len(Taken(bs, n)) = n
           /\ Ahead(c, Left(bs, n), pos + n) /\ Len(Left(bs, n)) = Len(bs) - n
<1> DEFINE C == Conversation(c)
           x == Taken(bs, n)
           y == Left(bs, n)
<1>1. /\ bs \in Seq(Byte) /\ pos \in Nat /\ pos + Len(bs) <= Len(C)
      /\ \A i \in 1 .. Len(bs) : bs[i] = C[pos + i]
  BY DEF Ahead
<1>2. Len(bs) \in Nat /\ Len(C) \in Nat /\ n \in Nat /\ n <= Len(bs)
  BY <1>1, ConversationBytes, LenProperties
<1>3. /\ x \in Seq(Byte) /\ Len(x) = n /\ \A i \in 1 .. n : x[i] = bs[i]
      /\ y \in Seq(Byte) /\ Len(y) = Len(bs) - n
      /\ \A i \in 1 .. Len(bs) - n : y[i] = bs[n + i]
  BY <1>1, Cut
<1> HIDE DEF C, x, y
<1>4. ASSUME NEW i \in 1 .. Len(x) PROVE x[i] = C[pos + i]
  <2>1. i \in 1 .. n /\ i \in 1 .. Len(bs)
    BY <1>2, <1>3
  <2> QED
    BY <1>1, <1>3, <2>1
<1>5. ASSUME NEW i \in 1 .. Len(y) PROVE y[i] = C[pos + n + i]
  <2>1. i \in 1 .. Len(bs) - n /\ n + i \in 1 .. Len(bs) /\ pos + (n + i) = pos + n + i
    BY <1>1, <1>2, <1>3
  <2>2. y[i] = bs[n + i] /\ bs[n + i] = C[pos + (n + i)]
    BY <1>1, <1>3, <2>1
  <2> QED
    BY <2>1, <2>2
<1>6. /\ pos + Len(x) <= Len(C) /\ pos + n \in Nat /\ pos + n + Len(y) <= Len(C)
  BY <1>1, <1>2, <1>3
<1> QED
  BY <1>1, <1>3, <1>4, <1>5, <1>6 DEF Ahead, C, x, y

\* Bytes that follow in what a client says, one behind the other.
LEMMA AheadJoin ==
    ASSUME NEW c \in ClientT, NEW x, NEW y, NEW pos,
           Ahead(c, x, pos), Ahead(c, y, pos + Len(x))
    PROVE  Ahead(c, x \o y, pos) /\ Len(x \o y) = Len(x) + Len(y)
<1> DEFINE C == Conversation(c)
           z == x \o y
<1>1. /\ x \in Seq(Byte) /\ pos \in Nat /\ y \in Seq(Byte)
      /\ pos + Len(x) + Len(y) <= Len(C)
      /\ \A i \in 1 .. Len(x) : x[i] = C[pos + i]
      /\ \A i \in 1 .. Len(y) : y[i] = C[pos + Len(x) + i]
  BY DEF Ahead
<1>2. /\ z \in Seq(Byte) /\ Len(z) = Len(x) + Len(y)
      /\ Len(x) \in Nat /\ Len(y) \in Nat
      /\ \A i \in 1 .. Len(x) : z[i] = x[i]
      /\ \A i \in 1 .. Len(y) : z[Len(x) + i] = y[i]
  BY <1>1, Concat
<1>3. Len(C) \in Nat
  BY ConversationBytes, LenProperties
<1> HIDE DEF C, z
<1>4. ASSUME NEW i \in 1 .. Len(z) PROVE z[i] = C[pos + i]
  <2>1. CASE i <= Len(x)
    <3>1. i \in 1 .. Len(x)
      BY <1>2, <2>1
    <3> QED
      BY <1>1, <1>2, <3>1
  <2>2. CASE ~(i <= Len(x))
    <3> DEFINE j == i - Len(x)
    <3>1. j \in 1 .. Len(y) /\ Len(x) + j = i /\ pos + Len(x) + j = pos + i
      BY <1>1, <1>2, <2>2
    <3> HIDE DEF j
    <3> QED
      BY <1>1, <1>2, <3>1
  <2> QED
    BY <2>1, <2>2
<1>5. pos + Len(z) <= Len(C)
  BY <1>1, <1>2, <1>3
<1> QED
  BY <1>1, <1>2, <1>4, <1>5 DEF Ahead, C, z

\* Every byte of the buffer is the client's.
LEMMA Heard ==
    ASSUME NEW c \in ClientT, NEW bs, NEW pos, Ahead(c, bs, pos), NEW i \in 1 .. Len(bs)
    PROVE  bs[i] = Conversation(c)[pos + i] /\ bs[i] \in Byte
  BY ElementOfSeq DEF Ahead

\* Taking k bytes of what is left of the buffer is taking more of the buffer.
LEMMA Further ==
    ASSUME NEW bs \in Seq(Byte), NEW i \in Nat, NEW j \in Nat, i <= Len(bs)
    PROVE  /\ Len(Left(bs, i)) = Len(bs) - i /\ Left(bs, i) \in Seq(Byte)
           /\ j <= Len(bs) - i => /\ i + j \in 0 .. Len(bs)
                                  /\ Left(Left(bs, i), j) = Left(bs, i + j)
<1>1. Len(bs) \in Nat /\ i \in 0 .. Len(bs)
  BY LenProperties
<1>2. ASSUME j <= Len(bs) - i PROVE j \in 0 .. Len(bs) - i /\ i + j \in 0 .. Len(bs)
  BY <1>1, <1>2
<1> QED
  BY <1>1, <1>2, Cut, LeftLeft

\* The bytes of the message numbered k + 1 are the conversation's after the
\* first k messages.
LEMMA MessageBytes ==
    ASSUME NEW c \in ClientT, NEW k \in 0 .. 2, k < Len(Messages(c))
    PROVE  /\ Ahead(c, Messages(c)[k + 1], Extent(c, k))
           /\ Extent(c, k + 1) = Extent(c, k) + Len(Messages(c)[k + 1])
<1> DEFINE g == Greeting(c)
           u == UserPass(c)
           r == Request(c)
           C == Conversation(c)
           gl == GLen(c)
           ul == ULen(c)
           rl == RLen(c)
<1>1. /\ g \in Seq(Byte) /\ Len(g) = gl /\ u \in Seq(Byte) /\ Len(u) = ul
      /\ r \in Seq(Byte) /\ Len(r) = rl /\ gl \in Nat /\ ul \in Nat /\ rl \in Nat
      /\ \A i \in 1 .. gl : C[i] = g[i]
      /\ c.auth => \A i \in 1 .. ul : C[gl + i] = u[i]
      /\ c.auth => Len(C) = gl + ul + rl /\ \A i \in 1 .. rl : C[gl + ul + i] = r[i]
      /\ ~c.auth => Len(C) = gl + rl /\ \A i \in 1 .. rl : C[gl + i] = r[i]
  BY GreetingBytes, UserPassBytes, RequestBytes, ConversationBytes DEF Start
<1>2. /\ Extent(c, 0) = 0 /\ Extent(c, 1) = gl
      /\ c.auth => /\ Extent(c, 2) = gl + ul /\ Extent(c, 3) = gl + ul + rl
                   /\ Len(Messages(c)) = 3 /\ Messages(c)[1] = g
                   /\ Messages(c)[2] = u /\ Messages(c)[3] = r
      /\ ~c.auth => /\ Extent(c, 2) = gl + rl
                    /\ Len(Messages(c)) = 2 /\ Messages(c)[1] = g /\ Messages(c)[2] = r
  BY Extents
<1>3. c.auth \in BOOLEAN
  BY ClientParts
<1> HIDE DEF g, u, r, C, gl, ul, rl
<1>4. gl \in Nat /\ ul \in Nat /\ rl \in Nat /\ gl + ul \in Nat /\ 0 + gl = gl
  BY <1>1
<1>5. CASE k = 0
  <2>1. Messages(c)[k + 1] = g /\ Extent(c, k) = 0 /\ Extent(c, k + 1) = gl
    BY <1>2, <1>3, <1>5
  <2>2. gl <= Len(C)
    BY <1>1, <1>3
  <2>3. \A i \in 1 .. gl : 0 + i = i
    BY <1>1
  <2>4. Ahead(c, g, 0)
    BY <1>1, <1>4, <2>2, <2>3 DEF Ahead, C
  <2> QED
    BY <1>1, <1>4, <2>1, <2>4
<1>6. CASE k = 1
  <2>1. CASE c.auth
    <3>1. Messages(c)[k + 1] = u /\ Extent(c, k) = gl /\ Extent(c, k + 1) = gl + ul
      BY <1>2, <1>6, <2>1
    <3>2. gl + ul <= Len(C)
      BY <1>1, <2>1
    <3>3. Ahead(c, u, gl)
      BY <1>1, <2>1, <3>2 DEF Ahead, C
    <3> QED
      BY <1>1, <3>1, <3>3
  <2>2. CASE ~c.auth
    <3>1. Messages(c)[k + 1] = r /\ Extent(c, k) = gl /\ Extent(c, k + 1) = gl + rl
      BY <1>2, <1>6, <2>2
    <3>2. gl + rl <= Len(C)
      BY <1>1, <2>2
    <3>3. Ahead(c, r, gl)
      BY <1>1, <2>2, <3>2 DEF Ahead, C
    <3> QED
      BY <1>1, <3>1, <3>3
  <2> QED
    BY <2>1, <2>2
<1>7. CASE k = 2
  <2>1. c.auth
    <3>1. ~(k < 2)
      BY <1>7
    <3>2. k < Len(Messages(c))
      OBVIOUS
    <3> QED
      BY <1>2, <3>1, <3>2, Zenon
  <2>2. /\ Messages(c)[k + 1] = r /\ Extent(c, k) = gl + ul
        /\ Extent(c, k + 1) = gl + ul + rl
    BY <1>2, <1>7, <2>1
  <2>3. gl + ul + rl <= Len(C)
    BY <1>1, <2>1
  <2>4. Ahead(c, r, gl + ul)
    BY <1>1, <1>4, <2>1, <2>3 DEF Ahead, C
  <2> QED
    BY <1>1, <2>2, <2>4
<1> QED
  BY <1>5, <1>6, <1>7

=============================================================================
