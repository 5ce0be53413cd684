---------------------------- MODULE ParserProofs ----------------------------
(***************************************************************************)
(* Parser.tla's invariants, for every set of messages, every capacity and  *)
(* every limit of the hexadecimal dump and of the logger's array.          *)
(***************************************************************************)
EXTENDS Parser, SequenceTheorems, WellFoundedInduction, TLAPS

-----------------------------------------------------------------------------
(* Sequences of bytes and places in them.                                  *)

\* The least element of a set of numbers.
LEMMA LeastIs ==
    ASSUME NEW S \in SUBSET Nat, S # {}
    PROVE  Min(S) \in S /\ \A y \in S : Min(S) <= y
<1>1. PICK x \in S : \A y \in S : ~(<<y, x>> \in OpToRel(<, Nat))
  BY NatLessThanWellFounded, WFMin, Zenon
<1>2. ASSUME NEW y \in S PROVE x <= y
  <2>1. x \in Nat /\ y \in Nat
    OBVIOUS
  <2>2. y < x => <<y, x>> \in OpToRel(<, Nat)
    BY <2>1, Zenon DEF OpToRel
  <2>3. ~(y < x)
    BY <1>1, <2>2
  <2> QED
    BY <2>1, <2>3
<1> QED
  BY <1>2 DEF Min

\* A piece of a sequence: its length and its elements.
LEMMA PieceParts ==
    ASSUME NEW bs \in Seq(Byte), NEW k \in 0 .. Len(bs), NEW n \in k .. Len(bs)
    PROVE  /\ SubSeq(bs, k + 1, n) \in Seq(Byte)
           /\ Len(SubSeq(bs, k + 1, n)) = n - k
           /\ \A i \in 1 .. n - k : SubSeq(bs, k + 1, n)[i] = bs[k + i]
<1>1. Len(bs) \in Nat /\ k \in Nat /\ n \in Nat /\ k <= n /\ n <= Len(bs)
  BY LenProperties
<1>2. \A i \in k + 1 .. n : bs[i] \in Byte
  BY <1>1, ElementOfSeq
<1>3. /\ SubSeq(bs, k + 1, n) \in Seq(Byte)
      /\ Len(SubSeq(bs, k + 1, n)) = IF k + 1 <= n THEN n - (k + 1) + 1 ELSE 0
      /\ \A i \in 1 .. n - (k + 1) + 1 : SubSeq(bs, k + 1, n)[i] = bs[(k + 1) + i - 1]
  BY <1>1, <1>2, SubSeqProperties
<1> QED
  BY <1>1, <1>3

\* The first bytes of a sequence.
LEMMA PrefixParts ==
    ASSUME NEW bs \in Seq(Byte), NEW n \in 0 .. Len(bs)
    PROVE  /\ Prefix(bs, n) \in Seq(Byte) /\ Len(Prefix(bs, n)) = n
           /\ \A i \in 1 .. n : Prefix(bs, n)[i] = bs[i]
<1>1. Len(bs) \in Nat /\ n \in Nat /\ n <= Len(bs)
  BY LenProperties
<1>2. 0 \in 0 .. Len(bs) /\ n \in 0 .. Len(bs) /\ n - 0 = n /\ 0 + 1 = 1
  BY <1>1
<1>3. /\ SubSeq(bs, 1, n) \in Seq(Byte) /\ Len(SubSeq(bs, 1, n)) = n
      /\ \A i \in 1 .. n : SubSeq(bs, 1, n)[i] = bs[0 + i]
  BY <1>2, PieceParts
<1> QED
  BY <1>1, <1>3 DEF Prefix

\* Two sequences that agree up to n have the same first n bytes.
LEMMA SamePrefix ==
    ASSUME NEW x \in Seq(Byte), NEW y \in Seq(Byte),
           NEW n \in 0 .. Len(x), n \in 0 .. Len(y), \A i \in 1 .. n : x[i] = y[i]
    PROVE  Prefix(x, n) = Prefix(y, n)
<1>1. /\ Prefix(x, n) \in Seq(Byte) /\ Len(Prefix(x, n)) = n
      /\ \A i \in 1 .. n : Prefix(x, n)[i] = x[i]
  BY PrefixParts
<1>2. /\ Prefix(y, n) \in Seq(Byte) /\ Len(Prefix(y, n)) = n
      /\ \A i \in 1 .. n : Prefix(y, n)[i] = y[i]
  BY PrefixParts
<1>3. \A i \in 1 .. Len(Prefix(x, n)) : Prefix(x, n)[i] = Prefix(y, n)[i]
  BY <1>1, <1>2
<1> QED
  BY <1>1, <1>2, <1>3, SeqEqual

\* The first bytes of the first bytes.
LEMMA ShorterPrefix ==
    ASSUME NEW bs \in Seq(Byte), NEW n \in 0 .. Len(bs), NEW m \in 0 .. n
    PROVE  Prefix(Prefix(bs, n), m) = Prefix(bs, m)
<1>1. Len(bs) \in Nat /\ n \in Nat /\ m \in Nat /\ m <= n /\ n <= Len(bs)
  BY LenProperties
<1>2. /\ Prefix(bs, n) \in Seq(Byte) /\ Len(Prefix(bs, n)) = n
      /\ \A i \in 1 .. n : Prefix(bs, n)[i] = bs[i]
  BY PrefixParts
<1>3. m \in 0 .. Len(Prefix(bs, n)) /\ m \in 0 .. Len(bs)
  BY <1>1, <1>2
<1>4. \A i \in 1 .. m : Prefix(bs, n)[i] = bs[i]
  BY <1>1, <1>2
<1> QED
  BY <1>2, <1>3, <1>4, SamePrefix

\* The places of a NUL are where the byte is 0.
LEMMA NulPlaces ==
    ASSUME NEW bs \in Seq(Byte)
    PROVE  /\ Places(bs, <<0>>) = {i \in 1 .. Len(bs) : bs[i] = 0}
           /\ Len(bs) \in Nat
<1>1. Len(bs) \in Nat /\ Len(bs) - 1 + 1 = Len(bs)
  BY LenProperties
<1>2. ASSUME NEW i \in 1 .. Len(bs)
      PROVE  SubSeq(bs, i, i + 1 - 1) = <<0>> <=> bs[i] = 0
  <2>1. /\ i - 1 \in 0 .. Len(bs) /\ i \in i - 1 .. Len(bs) /\ i - (i - 1) = 1
        /\ (i - 1) + 1 = i /\ i + 1 - 1 = i
    BY <1>1
  <2>2. /\ SubSeq(bs, i, i) \in Seq(Byte) /\ Len(SubSeq(bs, i, i)) = 1
        /\ \A j \in 1 .. 1 : SubSeq(bs, i, i)[j] = bs[(i - 1) + j]
    BY <2>1, PieceParts
  <2>3. SubSeq(bs, i, i)[1] = bs[i]
    BY <2>1, <2>2
  <2>4. <<0>> \in Seq(Byte) /\ Len(<<0>>) = 1 /\ <<0>>[1] = 0
    BY DEF Byte
  <2>5. bs[i] = 0 => \A j \in 1 .. Len(SubSeq(bs, i, i)) : SubSeq(bs, i, i)[j] = <<0>>[j]
    BY <2>2, <2>3, <2>4
  <2>6. bs[i] = 0 => SubSeq(bs, i, i) = <<0>>
    BY <2>2, <2>4, <2>5, SeqEqual
  <2> QED
    BY <2>1, <2>3, <2>4, <2>6
<1>3. Len(<<0>>) = 1
  OBVIOUS
<1> QED
  BY <1>1, <1>2, <1>3 DEF Places

\* Where a blank line is.
Blank(bs, i) == bs[i] = 13 /\ bs[i + 1] = 10 /\ bs[i + 2] = 13 /\ bs[i + 3] = 10

LEMMA BlankPlaces ==
    ASSUME NEW bs \in Seq(Byte)
    PROVE  Places(bs, CRLFCRLF) = {i \in 1 .. Len(bs) - 3 : Blank(bs, i)}
<1> DEFINE c == <<13, 10, 13, 10>>
<1>1. Len(bs) \in Nat /\ Len(bs) - 4 + 1 = Len(bs) - 3
  BY LenProperties
<1>2. /\ c \in Seq(Byte) /\ Len(c) = 4
      /\ c[1] = 13 /\ c[2] = 10 /\ c[3] = 13 /\ c[4] = 10
  BY DEF Byte
<1> HIDE DEF c
<1>3. ASSUME NEW i \in 1 .. Len(bs) - 3
      PROVE  SubSeq(bs, i, i + 4 - 1) = c <=> Blank(bs, i)
  <2> DEFINE p == SubSeq(bs, i, i + 3)
  <2>1. /\ i - 1 \in 0 .. Len(bs) /\ i + 3 \in i - 1 .. Len(bs) /\ i + 3 - (i - 1) = 4
        /\ (i - 1) + 1 = i /\ i + 4 - 1 = i + 3
        /\ (i - 1) + 2 = i + 1 /\ (i - 1) + 3 = i + 2 /\ (i - 1) + 4 = i + 3
    BY <1>1
  <2>2. p \in Seq(Byte) /\ Len(p) = 4 /\ \A j \in 1 .. 4 : p[j] = bs[(i - 1) + j]
    BY <2>1, PieceParts
  <2>3. 1 \in 1 .. 4 /\ 2 \in 1 .. 4 /\ 3 \in 1 .. 4 /\ 4 \in 1 .. 4
    OBVIOUS
  <2>4. p[1] = bs[i] /\ p[2] = bs[i + 1] /\ p[3] = bs[i + 2] /\ p[4] = bs[i + 3]
    BY <2>1, <2>2, <2>3, Zenon
  <2> HIDE DEF p
  <2>5. ASSUME Blank(bs, i) PROVE p = c
    <3>1. p[1] = c[1] /\ p[2] = c[2] /\ p[3] = c[3] /\ p[4] = c[4]
      BY <1>2, <2>4, <2>5 DEF Blank
    <3>2. \A j \in 1 .. Len(p) : p[j] = c[j]
      BY <2>2, <3>1
    <3> QED
      BY <1>2, <2>2, <3>2, SeqEqual
  <2>6. p = c => Blank(bs, i)
    BY <1>2, <2>4 DEF Blank
  <2> QED
    BY <2>1, <2>5, <2>6 DEF p
<1> QED
  BY <1>1, <1>2, <1>3 DEF Places, CRLFCRLF, c

\* %s prints a prefix without a NUL, and stops at a NUL or at the end.
LEMMA PrintedParts ==
    ASSUME NEW bs \in Seq(Byte)
    PROVE  \E m \in 0 .. Len(bs) :
              /\ Printed(bs) = Prefix(bs, m)
              /\ \A i \in 1 .. m : bs[i] # 0
              /\ m < Len(bs) => bs[m + 1] = 0
<1> DEFINE nuls == {i \in 1 .. Len(bs) : bs[i] = 0}
<1>1. Len(bs) \in Nat /\ Places(bs, <<0>>) = nuls
  BY NulPlaces
<1>2. CASE nuls = {}
  <2>1. Printed(bs) = Prefix(bs, Len(bs))
    BY <1>1, <1>2, SubSeqFull DEF Printed, Prefix
  <2> QED
    BY <1>1, <1>2, <2>1
<1>3. CASE nuls # {}
  <2> DEFINE z == Min(nuls)
  <2>1. nuls \in SUBSET Nat
    BY <1>1
  <2>2. z \in nuls /\ \A y \in nuls : z <= y
    <3> HIDE DEF nuls
    <3> QED
      BY <1>3, <2>1, LeastIs
  <2>3. Printed(bs) = Prefix(bs, z - 1)
    BY <1>1, <1>3 DEF Printed
  <2> HIDE DEF z
  <2>4. z - 1 \in 0 .. Len(bs) /\ (z - 1) + 1 = z /\ bs[z] = 0
    BY <1>1, <2>2
  <2>5. \A i \in 1 .. z - 1 : bs[i] # 0
    BY <1>1, <2>2
  <2> QED
    BY <2>3, <2>4, <2>5
<1> QED
  BY <1>2, <1>3

-----------------------------------------------------------------------------
(* HTTP.                                                                   *)

\* strstr finds a blank line with no NUL before its end, and nothing else.
LEMMA SplitsParts ==
    ASSUME NEW data \in Seq(Byte), NEW m \in 0 .. Len(data),
           Printed(data) = Prefix(data, m)
    PROVE  Splits(data) = {i \in 1 .. m - 3 : Blank(data, i)}
<1>1. /\ Prefix(data, m) \in Seq(Byte) /\ Len(Prefix(data, m)) = m
      /\ \A i \in 1 .. m : Prefix(data, m)[i] = data[i]
  BY PrefixParts
<1>2. Splits(data) = {i \in 1 .. m - 3 : Blank(Prefix(data, m), i)}
  BY <1>1, BlankPlaces DEF Splits
<1>3. ASSUME NEW i \in 1 .. m - 3 PROVE Blank(Prefix(data, m), i) <=> Blank(data, i)
  <2>1. i \in 1 .. m /\ i + 1 \in 1 .. m /\ i + 2 \in 1 .. m /\ i + 3 \in 1 .. m
    BY LenProperties
  <2> QED
    BY <1>1, <2>1 DEF Blank
<1> QED
  BY <1>2, <1>3

\* The logger keeps the first LogMax bytes of a text.
LEMMA CutParts ==
    ASSUME NEW bs \in Seq(Byte)
    PROVE  /\ Cut(bs) \in Seq(Byte) /\ Len(Cut(bs)) <= LogMax
           /\ Cut(bs) = Prefix(bs, IF Len(bs) <= LogMax THEN Len(bs) ELSE LogMax)
<1>1. Len(bs) \in Nat /\ LogMax \in Nat
  BY LenProperties, ParserAssumption
<1>2. CASE Len(bs) <= LogMax
  <2>1. Cut(bs) = bs /\ Prefix(bs, Len(bs)) = bs
    BY <1>2, SubSeqFull DEF Cut, Prefix
  <2> QED
    BY <1>2, <2>1
<1>3. CASE ~(Len(bs) <= LogMax)
  <2>1. LogMax \in 0 .. Len(bs)
    BY <1>1, <1>3
  <2>2. Cut(bs) = Prefix(bs, LogMax)
    BY <1>3 DEF Cut
  <2> QED
    BY <1>1, <1>3, <2>1, <2>2, PrefixParts
<1> QED
  BY <1>2, <1>3

\* What is logged is bytes, no more than fit.
LEMMA HttpParts ==
    ASSUME NEW data \in Seq(Byte), NEW n \in 0 .. Len(data), NEW b \in HttpBytes(data, n)
    PROVE  b \in Seq(Byte) /\ Len(b) <= LogMax
<1>1. Len(data) \in Nat /\ n \in Nat /\ n <= Len(data)
  BY LenProperties
<1>2. PICK m \in 0 .. Len(data) : /\ Printed(data) = Prefix(data, m)
                                  /\ \A i \in 1 .. m : data[i] # 0
                                  /\ m < Len(data) => data[m + 1] = 0
  BY PrintedParts
<1>3. Splits(data) = {i \in 1 .. m - 3 : Blank(data, i)}
  BY <1>2, SplitsParts
<1>4. ToLog(data, n) \in 0 .. Len(data)
  <2>1. CASE Splits(data) = {}
    BY <1>1, <2>1 DEF ToLog
  <2>2. CASE Splits(data) # {}
    <3>1. Splits(data) \in SUBSET Nat
      BY <1>1, <1>2, <1>3
    <3>2. Min(Splits(data)) \in Splits(data)
      BY <2>2, <3>1, LeastIs
    <3>3. Min(Splits(data)) \in 1 .. m - 3
      BY <1>3, <3>2
    <3>4. Min(Splits(data)) + 3 \in 0 .. Len(data)
      BY <1>1, <3>3
    <3> QED
      BY <2>2, <3>4 DEF ToLog
  <2> QED
    BY <2>1, <2>2
<1>5. Prefix(data, n) \in Seq(Byte)
  BY PrefixParts
<1>6. Printed(Prefix(data, ToLog(data, n))) \in Seq(Byte)
  <2> DEFINE t == Prefix(data, ToLog(data, n))
  <2>1. t \in Seq(Byte)
    BY <1>4, PrefixParts
  <2> HIDE DEF t
  <2>2. PICK l \in 0 .. Len(t) : Printed(t) = Prefix(t, l)
    BY <2>1, PrintedParts
  <2>3. Printed(t) \in Seq(Byte)
    BY <2>1, <2>2, PrefixParts
  <2> QED
    BY <2>3 DEF t
<1>7. b \in {Cut(Prefix(data, n)), Cut(data), Cut(Printed(Prefix(data, ToLog(data, n))))}
  BY DEF HttpBytes
<1> QED
  BY <1>5, <1>6, <1>7, CutParts

\* The first blank line, if it came before any NUL, ends what is logged, or the
\* logger's array does.
LEMMA FirstBlankEnds ==
    ASSUME NEW data \in Seq(Byte), NEW n \in 0 .. Len(data), NEW b \in HttpBytes(data, n),
           NEW e \in 1 .. n - 3, Blank(data, e), \A i \in 1 .. e : data[i] # 0,
           \A i \in 1 .. e - 1 : ~Blank(data, i)
    PROVE  b = Prefix(data, IF e + 3 < LogMax THEN e + 3 ELSE LogMax)
<1>1. Len(data) \in Nat /\ n \in Nat /\ n <= Len(data) /\ e \in Nat /\ LogMax \in Nat
  BY LenProperties, ParserAssumption
<1>2. PICK m \in 0 .. Len(data) : /\ Printed(data) = Prefix(data, m)
                                  /\ \A i \in 1 .. m : data[i] # 0
                                  /\ m < Len(data) => data[m + 1] = 0
  BY PrintedParts
<1>3. Splits(data) = {i \in 1 .. m - 3 : Blank(data, i)}
  BY <1>2, SplitsParts
<1>4. m >= e + 3
  <2>1. data[e] # 0 /\ data[e + 1] # 0 /\ data[e + 2] # 0 /\ data[e + 3] # 0
    BY DEF Blank
  <2>2. ASSUME NEW j \in 1 .. e + 3 PROVE data[j] # 0
    <3>1. j \in 1 .. e \/ j = e + 1 \/ j = e + 2 \/ j = e + 3
      BY <1>1
    <3> QED
      BY <2>1, <3>1
  <2>3. m < e + 3 => m + 1 \in 1 .. e + 3 /\ m < Len(data)
    BY <1>1
  <2> QED
    BY <1>1, <1>2, <2>2, <2>3
<1>5. e \in Splits(data)
  BY <1>1, <1>3, <1>4
<1>6. Min(Splits(data)) = e
  <2>1. Splits(data) \in SUBSET Nat
    BY <1>1, <1>2, <1>3
  <2>2. /\ Min(Splits(data)) \in Splits(data)
        /\ \A y \in Splits(data) : Min(Splits(data)) <= y
    BY <1>5, <2>1, LeastIs
  <2>3. /\ Min(Splits(data)) \in 1 .. m - 3 /\ Blank(data, Min(Splits(data)))
        /\ Min(Splits(data)) <= e
    BY <1>3, <1>5, <2>2
  <2>4. ~(Min(Splits(data)) \in 1 .. e - 1)
    BY <2>3
  <2> QED
    BY <1>1, <2>3, <2>4
<1> DEFINE t == e + 3
           f == Prefix(data, t)
<1>7. b = Cut(Printed(f))
  BY <1>5, <1>6 DEF HttpBytes, Overruns, ToLog
<1>8. t \in 0 .. Len(data) /\ t <= m /\ t \in Nat
  BY <1>1, <1>4
<1> HIDE DEF t
<1>9. f \in Seq(Byte) /\ Len(f) = t /\ \A i \in 1 .. t : f[i] = data[i]
  BY <1>8, PrefixParts
<1> HIDE DEF f
<1>10. Printed(f) = f
  <2>1. PICK l \in 0 .. t : Printed(f) = Prefix(f, l) /\ (l < t => f[l + 1] = 0)
    BY <1>9, PrintedParts
  <2>2. l < t => l + 1 \in 1 .. t /\ l + 1 \in 1 .. m
    BY <1>8
  <2>3. l = t
    BY <1>2, <1>8, <1>9, <2>1, <2>2
  <2> QED
    BY <1>9, <2>1, <2>3, SubSeqFull DEF Prefix
<1> DEFINE k == IF t < LogMax THEN t ELSE LogMax
<1>11. b = Prefix(f, k)
  <2>1. b = Prefix(f, IF t <= LogMax THEN t ELSE LogMax)
    BY <1>7, <1>9, <1>10, CutParts
  <2>2. (IF t <= LogMax THEN t ELSE LogMax) = k
    BY <1>1, <1>8
  <2> QED
    BY <2>1, <2>2
<1>12. k \in 0 .. t
  BY <1>1, <1>8
<1> HIDE DEF k
<1>13. b = Prefix(data, k)
  BY <1>8, <1>11, <1>12, ShorterPrefix DEF f
<1> QED
  BY <1>13 DEF k, t

-----------------------------------------------------------------------------
(* WebSocket.                                                              *)

\* The length of a payload is what is left of the second byte without its
\* highest bit.
LEMMA SevenBits ==
    \A x \in Byte : /\ x \in Nat /\ x % 128 \in 0 .. 127
                    /\ x < 128 => x % 128 = x
                    /\ x >= 128 => x % 128 = x - 128
  BY DEF Byte

\* The header and the payload of a frame that is all there.
LEMMA FrameParts ==
    ASSUME NEW data \in Seq(Byte), NEW n \in 0 .. Len(data), IsWebSocket(data, n)
    PROVE  LET h == HeaderLength(data)
               r == RawLength(data)
               p == SubSeq(data, h + 1, h + r)
           IN  /\ h \in {2, 6} /\ h = (IF data[2] < 128 THEN 2 ELSE 6)
               /\ r \in Nat /\ h + r <= n /\ data[2] \in {r, r + 128}
               /\ p \in Seq(Byte) /\ Len(p) = r
               /\ p = SubSeq(Prefix(data, n), h + 1, h + r)
<1> DEFINE h == HeaderLength(data)
           r == RawLength(data)
           p == SubSeq(data, h + 1, h + r)
           f == Prefix(data, n)
           q == SubSeq(f, h + 1, h + r)
<1>1. Len(data) \in Nat /\ n \in Nat /\ n <= Len(data) /\ n >= 2 /\ h + r <= n
  BY LenProperties DEF IsWebSocket
<1>2. data[2] \in Byte
  BY <1>1, ElementOfSeq
<1>3. /\ h \in {2, 6} /\ h = (IF data[2] < 128 THEN 2 ELSE 6)
      /\ r \in Nat /\ data[2] \in {r, r + 128}
  BY <1>2, SevenBits DEF HeaderLength, RawLength
<1>4. /\ f \in Seq(Byte) /\ Len(f) = n /\ \A i \in 1 .. n : f[i] = data[i]
  BY PrefixParts
<1> HIDE DEF h, r, f
<1> DEFINE e == h + r
<1>5. /\ h \in 0 .. Len(data) /\ e \in h .. Len(data) /\ e - h = r
      /\ h \in 0 .. Len(f) /\ e \in h .. Len(f)
  BY <1>1, <1>3, <1>4
<1> HIDE DEF e
<1>a. /\ SubSeq(data, h + 1, e) \in Seq(Byte) /\ Len(SubSeq(data, h + 1, e)) = r
      /\ \A i \in 1 .. r : SubSeq(data, h + 1, e)[i] = data[h + i]
  BY <1>5, PieceParts
<1>b. /\ SubSeq(f, h + 1, e) \in Seq(Byte) /\ Len(SubSeq(f, h + 1, e)) = r
      /\ \A i \in 1 .. r : SubSeq(f, h + 1, e)[i] = f[h + i]
  BY <1>4, <1>5, PieceParts
<1>6. p \in Seq(Byte) /\ Len(p) = r /\ \A i \in 1 .. r : p[i] = data[h + i]
  BY <1>a DEF e
<1>7. q \in Seq(Byte) /\ Len(q) = r /\ \A i \in 1 .. r : q[i] = f[h + i]
  BY <1>b DEF e
<1> HIDE DEF p, q
<1>8. \A i \in 1 .. Len(p) : p[i] = q[i]
  <2>1. \A i \in 1 .. r : h + i \in 1 .. n
    BY <1>1, <1>3
  <2> QED
    BY <1>4, <1>6, <1>7, <2>1
<1>9. p = q
  BY <1>6, <1>7, <1>8, SeqEqual
<1> QED
  BY <1>1, <1>3, <1>6, <1>9 DEF h, r, p, q, f

\* What is logged as a short payload is a piece of the bytes that came, right
\* behind the header.
LEMMA LoggedFrame ==
    ASSUME NEW data \in Seq(Byte), NEW n \in 0 .. Len(data), IsWebSocket(data, n)
    PROVE  /\ Payload(data) \in Seq(Byte) /\ n >= 2
           /\ data[2] <= 125 =>
                 \E j \in 2 .. data[2] + 2 :
                     data[2] + 2 <= n /\ Payload(data) = SubSeq(Prefix(data, n), 3, j)
<1> DEFINE h == HeaderLength(data)
           r == RawLength(data)
           p == SubSeq(data, h + 1, h + r)
           f == Prefix(data, n)
<1>1. /\ h \in {2, 6} /\ h = (IF data[2] < 128 THEN 2 ELSE 6)
      /\ r \in Nat /\ h + r <= n /\ data[2] \in {r, r + 128}
      /\ p \in Seq(Byte) /\ Len(p) = r
      /\ p = SubSeq(f, h + 1, h + r)
  BY FrameParts
<1>2. Payload(data) = Printed(p)
  BY DEF Payload
<1>3. Len(data) \in Nat /\ n \in Nat /\ n <= Len(data) /\ n >= 2
  <2>1. n >= 2
    BY Zenon DEF IsWebSocket
  <2> QED
    BY <2>1, LenProperties
<1>4. f \in Seq(Byte) /\ Len(f) = n
  BY PrefixParts
<1>5. data[2] \in Byte
  BY <1>3, ElementOfSeq
<1> HIDE DEF h, r, p, f
<1>6. PICK m \in 0 .. r : Printed(p) = Prefix(p, m)
  <2>1. p \in Seq(Byte) /\ Len(p) = r
    BY <1>1
  <2> QED
    BY <2>1, PrintedParts
<1>7. m \in Nat /\ m <= r /\ Prefix(p, m) \in Seq(Byte) /\ Len(Prefix(p, m)) = m
      /\ \A i \in 1 .. m : Prefix(p, m)[i] = p[i]
  <2>1. p \in Seq(Byte) /\ m \in 0 .. Len(p) /\ m \in Nat /\ m <= r
    BY <1>1
  <2> QED
    BY <2>1, PrefixParts
<1>8. ASSUME data[2] <= 125
      PROVE  /\ data[2] + 2 <= n /\ m + 2 \in 2 .. data[2] + 2
             /\ Prefix(p, m) = SubSeq(f, 3, m + 2)
  <2>1. h = 2 /\ data[2] = r /\ r + 2 <= n
    BY <1>1, <1>5, <1>8, SevenBits
  <2>2. p = SubSeq(f, 2 + 1, r + 2)
    BY <1>1, <2>1
  <2>3. 2 \in 0 .. Len(f) /\ r + 2 \in 2 .. Len(f) /\ m + 2 \in 2 .. Len(f)
        /\ m + 2 - 2 = m /\ r + 2 - 2 = r
    BY <1>1, <1>3, <1>4, <1>7, <2>1
  <2>4. \A i \in 1 .. r : SubSeq(f, 2 + 1, r + 2)[i] = f[2 + i]
    <3>1. \A i \in 1 .. r + 2 - 2 : SubSeq(f, 2 + 1, r + 2)[i] = f[2 + i]
      BY <1>1, <1>4, <2>3, PieceParts
    <3> QED
      BY <2>3, <3>1
  <2>5. /\ SubSeq(f, 2 + 1, m + 2) \in Seq(Byte) /\ Len(SubSeq(f, 2 + 1, m + 2)) = m
        /\ \A i \in 1 .. m : SubSeq(f, 2 + 1, m + 2)[i] = f[2 + i]
    BY <1>4, <2>3, PieceParts
  <2>6. \A i \in 1 .. m : i \in 1 .. r
    BY <1>1, <1>7
  <2>7. \A i \in 1 .. Len(Prefix(p, m)) : Prefix(p, m)[i] = SubSeq(f, 2 + 1, m + 2)[i]
    BY <1>7, <2>2, <2>4, <2>5, <2>6
  <2>8. Prefix(p, m) = SubSeq(f, 2 + 1, m + 2)
    BY <1>7, <2>5, <2>7, SeqEqual
  <2>9. m + 2 \in 2 .. data[2] + 2 /\ 2 + 1 = 3
    BY <1>1, <1>7, <2>1
  <2> QED
    BY <2>1, <2>8, <2>9
<1> QED
  BY <1>2, <1>3, <1>6, <1>7, <1>8 DEF f

\* Two sequences of bytes on end.
LEMMA JoinParts ==
    ASSUME NEW x \in Seq(Byte), NEW y \in Seq(Byte)
    PROVE  /\ x \o y \in Seq(Byte) /\ Len(x \o y) = Len(x) + Len(y)
           /\ \A i \in 1 .. Len(x) : (x \o y)[i] = x[i]
           /\ \A i \in 1 .. Len(y) : (x \o y)[Len(x) + i] = y[i]
<1>1. Len(x) \in Nat /\ Len(y) \in Nat
  BY LenProperties
<1>2. /\ x \o y \in Seq(Byte) /\ Len(x \o y) = Len(x) + Len(y)
      /\ \A i \in 1 .. Len(x) + Len(y) :
            (x \o y)[i] = IF i <= Len(x) THEN x[i] ELSE y[i - Len(x)]
  BY ConcatProperties
<1>3. ASSUME NEW i \in 1 .. Len(y)
      PROVE  /\ Len(x) + i \in 1 .. Len(x) + Len(y) /\ ~(Len(x) + i <= Len(x))
             /\ Len(x) + i - Len(x) = i
  BY <1>1
<1>4. \A i \in 1 .. Len(x) : i \in 1 .. Len(x) + Len(y) /\ i <= Len(x)
  BY <1>1
<1> QED
  BY <1>2, <1>3, <1>4

\* No byte of bs is a NUL.
NulFree(bs) == Places(bs, <<0>>) = {}

\* An unmasked text frame that came as a whole is taken for one, and its
\* payload logged.
LEMMA FrameIsLogged ==
    ASSUME NEW data \in Seq(Byte), NEW n \in 0 .. Len(data),
           NEW p \in Seq(Byte), Len(p) <= 125, NulFree(p),
           StartsWith(Prefix(data, n), TextFrame(p))
    PROVE  ~IsHttp(data, n) /\ IsWebSocket(data, n) /\ Payload(data) = p
<1> DEFINE f == Prefix(data, n)
           l == Len(p)
           c == <<129, l>>
           w == c \o p
<1>1. Len(data) \in Nat /\ n \in Nat /\ n <= Len(data) /\ l \in Nat /\ l <= 125
  BY LenProperties
<1>2. f \in Seq(Byte) /\ Len(f) = n /\ \A i \in 1 .. n : f[i] = data[i]
  BY PrefixParts
<1> HIDE DEF l
<1>a. l \in Byte /\ 129 \in Byte
  BY <1>1 DEF Byte
<1>3. c \in Seq(Byte) /\ Len(c) = 2 /\ c[1] = 129 /\ c[2] = l
  BY <1>a
<1>4. w = TextFrame(p)
  BY DEF TextFrame, l
<1> HIDE DEF c
<1>5. /\ w \in Seq(Byte) /\ Len(w) = 2 + l
      /\ \A i \in 1 .. 2 : w[i] = c[i]
      /\ \A i \in 1 .. l : w[2 + i] = p[i]
  <2>1. /\ w \in Seq(Byte) /\ Len(w) = Len(c) + Len(p)
        /\ \A i \in 1 .. Len(c) : w[i] = c[i]
        /\ \A i \in 1 .. Len(p) : w[Len(c) + i] = p[i]
    <3>1. ASSUME NEW x \in Seq(Byte), NEW y \in Seq(Byte), NEW z, z = x \o y
          PROVE  /\ z \in Seq(Byte) /\ Len(z) = Len(x) + Len(y)
                 /\ \A i \in 1 .. Len(x) : z[i] = x[i]
                 /\ \A i \in 1 .. Len(y) : z[Len(x) + i] = y[i]
      BY <3>1, JoinParts
    <3>2. c \in Seq(Byte) /\ w = c \o p
      BY <1>3
    <3> HIDE DEF w
    <3> QED
      BY <3>1, <3>2
  <2> QED
    BY <1>3, <2>1 DEF l
<1> HIDE DEF w, f
<1>6. 2 + l <= n /\ Prefix(f, 2 + l) = w
  BY <1>2, <1>4, <1>5 DEF StartsWith, f
<1>7. \A i \in 1 .. 2 + l : data[i] = w[i]
  <2>1. 2 + l \in 0 .. Len(f)
    BY <1>1, <1>2, <1>6
  <2>2. \A i \in 1 .. 2 + l : Prefix(f, 2 + l)[i] = f[i]
    BY <1>2, <2>1, PrefixParts
  <2>3. \A i \in 1 .. 2 + l : i \in 1 .. n
    BY <1>1, <1>6
  <2> QED
    BY <1>2, <1>6, <2>2, <2>3
<1>8. data[1] = 129 /\ data[2] = l /\ \A i \in 1 .. l : data[2 + i] = p[i]
  <2>1. 1 \in 1 .. 2 + l /\ 2 \in 1 .. 2 + l /\ 1 \in 1 .. 2 /\ 2 \in 1 .. 2
        /\ \A i \in 1 .. l : 2 + i \in 1 .. 2 + l
    BY <1>1
  <2>2. data[1] = w[1] /\ data[2] = w[2] /\ \A i \in 1 .. l : data[2 + i] = w[2 + i]
    BY <1>7, <2>1
  <2>3. w[1] = c[1] /\ w[2] = c[2]
    BY <1>5, <2>1
  <2> QED
    BY <1>3, <1>5, <2>2, <2>3
<1>9. HeaderLength(data) = 2 /\ RawLength(data) = l
  <2>1. l < 128 /\ ~(l >= 128)
    BY <1>1
  <2>2. l % 128 = l
    BY <1>a, <2>1, SevenBits
  <2> QED
    BY <1>8, <2>1, <2>2 DEF HeaderLength, RawLength
<1>10. IsWebSocket(data, n)
  <2>1. 129 % 16 = 1 /\ n >= 2 /\ n >= 2 + l
    BY <1>1, <1>6
  <2> QED
    BY <1>8, <1>9, <2>1 DEF IsWebSocket
<1>11. ~IsHttp(data, n)
  <2>1. ~isalpha(data[1])
    BY <1>8 DEF isalpha
  <2> QED
    BY <2>1 DEF IsHttp
<1>12. SubSeq(data, 2 + 1, 2 + l) = p
  <2>1. 2 \in 0 .. Len(data) /\ 2 + l \in 2 .. Len(data) /\ 2 + l - 2 = l
    BY <1>1, <1>6
  <2>2. /\ SubSeq(data, 2 + 1, 2 + l) \in Seq(Byte) /\ Len(SubSeq(data, 2 + 1, 2 + l)) = l
        /\ l = Len(p)
        /\ \A i \in 1 .. l : SubSeq(data, 2 + 1, 2 + l)[i] = data[2 + i]
    BY <1>1, <2>1, PieceParts DEF l
  <2>3. \A i \in 1 .. Len(p) : p[i] = SubSeq(data, 2 + 1, 2 + l)[i]
    BY <1>8, <2>2
  <2> QED
    BY <2>2, <2>3, SeqEqual
<1>13. Payload(data) = Printed(p)
  BY <1>9, <1>12 DEF Payload
<1>14. Printed(p) = p
  BY Zenon DEF Printed, NulFree
<1> QED
  BY <1>10, <1>11, <1>13, <1>14

-----------------------------------------------------------------------------
(* The inductive invariant.                                                *)

\* What a read logs depends on the memory it finds and on nothing logged before,
\* so that the invariants of the runs are inductive together.
IInv == TypeOK /\ HeadersAreLogged /\ FramesAreLogged

\* A function on 1 .. Capacity is a sequence.
LEMMA MemoryIsSeq ==
    ASSUME NEW m \in [1 .. Capacity -> Byte]
    PROVE  m \in Seq(Byte) /\ Len(m) = Capacity
<1>1. Capacity \in Nat
  BY ParserAssumption
<1> QED
  BY <1>1

\* What the handler sees after a read.
LEMMA ReadParts ==
    ASSUME TypeOK, NEW message \in Messages \cup {<<>>}, Read(message)
    PROVE  \E n \in length .. Capacity :
              /\ memory' \in [1 .. Capacity -> Byte]
              /\ memory' \in Seq(Byte) /\ Len(memory') = Capacity
              /\ \E entry \in Logs(memory', n) :
                    logged' = [kind |-> entry.kind, bytes |-> entry.bytes,
                               of |-> Prefix(memory', n)]
              /\ length' \in {0, n} /\ frozen' = frozen
<1> DEFINE n == length + Len(message)
           data == [i \in 1 .. Capacity |->
                       IF i \in length + 1 .. n THEN message[i - length] ELSE memory[i]]
<1>1. message \in Seq(Byte)
  <2>1. <<>> \in Seq(Byte)
    BY EmptySeq
  <2> QED
    BY <2>1, ParserAssumption
<1>2. Capacity \in Nat /\ length \in Nat /\ Len(message) \in Nat /\ n \in length .. Capacity
  BY <1>1, LenProperties, ParserAssumption DEF TypeOK, Read
<1>3. /\ memory' = data /\ length' \in {0, n} /\ frozen' = frozen
      /\ \E entry \in Logs(memory', n) :
            logged' = [kind |-> entry.kind, bytes |-> entry.bytes,
                       of |-> Prefix(memory', n)]
  BY DEF Read
<1>4. ASSUME NEW i \in 1 .. Capacity, i \in length + 1 .. n
      PROVE  message[i - length] \in Byte
  <2>1. i - length \in 1 .. Len(message)
    BY <1>2, <1>4
  <2> QED
    BY <1>1, <2>1, ElementOfSeq
<1>5. \A i \in 1 .. Capacity : memory[i] \in Byte
  BY DEF TypeOK
<1>6. data \in [1 .. Capacity -> Byte]
  BY <1>4, <1>5
<1> HIDE DEF n, data
<1> QED
  BY <1>2, <1>3, <1>6, MemoryIsSeq

\* The three kinds of entry.
LEMMA LogsParts ==
    ASSUME NEW data \in Seq(Byte), NEW n \in 0 .. Len(data), NEW entry \in Logs(data, n)
    PROVE  \/ /\ entry.kind = "http" /\ IsHttp(data, n) /\ entry.bytes \in HttpBytes(data, n)
           \/ /\ entry.kind = "websocket" /\ ~IsHttp(data, n) /\ IsWebSocket(data, n)
              /\ entry.bytes = Payload(data)
           \/ /\ entry.kind = "hex" /\ ~IsHttp(data, n) /\ ~IsWebSocket(data, n)
              /\ entry.bytes = DumpHex(data, n)
<1>1. CASE IsHttp(data, n)
  BY <1>1 DEF Logs
<1>2. CASE ~IsHttp(data, n) /\ IsWebSocket(data, n)
  BY <1>2 DEF Logs
<1>3. CASE ~IsHttp(data, n) /\ ~IsWebSocket(data, n)
  BY <1>3 DEF Logs
<1> QED
  BY <1>1, <1>2, <1>3

\* What comes out of the dump is no longer than its limit.
LEMMA DumpParts ==
    ASSUME NEW data \in Seq(Byte), NEW n \in 0 .. Len(data)
    PROVE  DumpHex(data, n) \in Seq(Byte) /\ Len(DumpHex(data, n)) <= HexMax
<1>1. Len(data) \in Nat /\ n \in Nat /\ n <= Len(data) /\ HexMax \in Nat
  BY LenProperties, ParserAssumption
<1> DEFINE k == IF n < HexMax THEN n ELSE HexMax
<1>2. k \in 0 .. Len(data) /\ k <= HexMax
  BY <1>1
<1> HIDE DEF k
<1>3. DumpHex(data, n) = Prefix(data, k)
  BY DEF DumpHex, k
<1> QED
  BY <1>2, <1>3, PrefixParts

\* No NUL comes before e.
FirstBefore(e, f) == \A nul \in Places(f, <<0>>) : e < nul

\* HTTP is logged up to its first blank line.
LEMMA HttpLogged ==
    ASSUME NEW data \in Seq(Byte), NEW n \in 0 .. Len(data), NEW b \in HttpBytes(data, n),
           NEW f, f = Prefix(data, n), Places(f, CRLFCRLF) # {},
           NEW e, e = Min(Places(f, CRLFCRLF)), FirstBefore(e, f)
    PROVE  b = Prefix(f, IF e + 3 < LogMax THEN e + 3 ELSE LogMax)
<1> DEFINE blanks == Places(f, CRLFCRLF)
<1>1. Len(data) \in Nat /\ n \in Nat /\ n <= Len(data) /\ LogMax \in Nat
  BY LenProperties, ParserAssumption
<1>2. f \in Seq(Byte) /\ Len(f) = n /\ \A i \in 1 .. n : f[i] = data[i]
  BY PrefixParts
<1>3. ASSUME NEW i \in 1 .. n - 3 PROVE Blank(f, i) <=> Blank(data, i)
  <2>1. i \in 1 .. n /\ i + 1 \in 1 .. n /\ i + 2 \in 1 .. n /\ i + 3 \in 1 .. n
    BY <1>1
  <2> QED
    BY <1>2, <2>1 DEF Blank
<1>4. blanks = {i \in 1 .. n - 3 : Blank(f, i)}
  BY <1>2, BlankPlaces
<1>5. blanks = {i \in 1 .. n - 3 : Blank(data, i)}
  BY <1>3, <1>4
<1> HIDE DEF blanks
<1>6. e \in blanks /\ \A y \in blanks : e <= y
  <2>1. blanks \in SUBSET Nat
    BY <1>1, <1>5
  <2> QED
    BY <2>1, LeastIs DEF blanks
<1>7. e \in 1 .. n - 3 /\ Blank(data, e)
  BY <1>5, <1>6
<1>8. ASSUME NEW i \in 1 .. e - 1 PROVE ~Blank(data, i)
  <2>1. i \in 1 .. n - 3 /\ ~(e <= i)
    BY <1>1, <1>7
  <2> QED
    BY <1>5, <1>6, <2>1
<1>9. ASSUME NEW i \in 1 .. e PROVE data[i] # 0
  <2>1. i \in 1 .. n /\ ~(e < i)
    BY <1>1, <1>7
  <2>2. f[i] # 0
    BY <1>2, <2>1, NulPlaces DEF FirstBefore
  <2> QED
    BY <1>2, <2>1, <2>2
<1> DEFINE k == IF e + 3 < LogMax THEN e + 3 ELSE LogMax
<1>10. b = Prefix(data, k)
  BY <1>7, <1>8, <1>9, FirstBlankEnds
<1>11. k \in 0 .. n
  BY <1>1, <1>7
<1> HIDE DEF k
<1>12. Prefix(f, k) = Prefix(data, k)
  BY <1>11, ShorterPrefix
<1> QED
  BY <1>10, <1>12 DEF k

\* A step that leaves what was logged, and what is held, as they were.
LEMMA NothingNew ==
    ASSUME IInv, memory' = memory, length' = length, frozen' \in BOOLEAN, logged' = logged
    PROVE  IInv'
<1>1. TypeOK'
  BY DEF IInv, TypeOK
<1>2. HeadersAreLogged' /\ FramesAreLogged'
  BY DEF IInv, HeadersAreLogged, FramesAreLogged
<1> QED
  BY <1>1, <1>2 DEF IInv

\* A read: whatever is in the memory, the three parsers log what they should.
LEMMA ReadKeeps ==
    ASSUME IInv, NEW message \in Messages \cup {<<>>}, Read(message)
    PROVE  IInv'
<1>1. TypeOK /\ length \in 0 .. Capacity /\ Capacity \in Nat /\ HexMax \in Nat
  BY ParserAssumption DEF IInv, TypeOK
<1>2. PICK n \in length .. Capacity :
         /\ memory' \in [1 .. Capacity -> Byte]
         /\ memory' \in Seq(Byte) /\ Len(memory') = Capacity
         /\ \E entry \in Logs(memory', n) :
               logged' = [kind |-> entry.kind, bytes |-> entry.bytes,
                          of |-> Prefix(memory', n)]
         /\ length' \in {0, n} /\ frozen' = frozen
  BY <1>1, ReadParts
<1>3. PICK entry \in Logs(memory', n) :
         logged' = [kind |-> entry.kind, bytes |-> entry.bytes, of |-> Prefix(memory', n)]
  BY <1>2
<1> DEFINE data == memory'
<1>4. data \in Seq(Byte) /\ n \in Nat /\ n \in 0 .. Len(data)
  BY <1>1, <1>2
<1>5. /\ logged'.kind = entry.kind /\ logged'.bytes = entry.bytes
      /\ logged'.of = Prefix(data, n)
  BY <1>3
<1>6. Prefix(data, n) \in Seq(Byte) /\ Len(Prefix(data, n)) = n
  BY <1>4, PrefixParts
<1>7. \/ /\ entry.kind = "http" /\ IsHttp(data, n) /\ entry.bytes \in HttpBytes(data, n)
      \/ /\ entry.kind = "websocket" /\ ~IsHttp(data, n) /\ IsWebSocket(data, n)
         /\ entry.bytes = Payload(data)
      \/ /\ entry.kind = "hex" /\ ~IsHttp(data, n) /\ ~IsWebSocket(data, n)
         /\ entry.bytes = DumpHex(data, n)
  BY <1>4, LogsParts
<1>8. TypeOK'
  <2>1. entry.bytes \in Seq(Byte)
    BY <1>4, <1>7, HttpParts, LoggedFrame, DumpParts
  <2>2. /\ entry.kind = "hex" => Len(entry.bytes) <= HexMax
        /\ entry.kind = "http" => Len(entry.bytes) <= LogMax
    BY <1>4, <1>7, DumpParts, HttpParts
  <2>3. length' \in 0 .. Capacity
    BY <1>1, <1>2
  <2> QED
    BY <1>1, <1>2, <1>5, <1>6, <1>7, <2>1, <2>2, <2>3 DEF TypeOK
<1>9. HeadersAreLogged'
  <2> DEFINE f == Prefix(data, n)
             e == Min(Places(f, CRLFCRLF))
  <2>1. ASSUME entry.kind = "http", Places(f, CRLFCRLF) # {}, FirstBefore(e, f)
        PROVE  entry.bytes = Prefix(f, IF e + 3 < LogMax THEN e + 3 ELSE LogMax)
    <3>1. entry.bytes \in HttpBytes(data, n)
      BY <1>7, <2>1
    <3> HIDE DEF data
    <3> QED
      BY <1>4, <2>1, <3>1, HttpLogged
  <2> QED
    BY <1>5, <2>1 DEF HeadersAreLogged, FirstBefore
<1>10. FramesAreLogged'
  <2> DEFINE f == Prefix(data, n)
  <2>1. ASSUME NEW j \in 2 .. n, Len(SubSeq(f, 3, j)) <= 125, NulFree(SubSeq(f, 3, j)),
               StartsWith(f, TextFrame(SubSeq(f, 3, j)))
        PROVE  entry.kind = "websocket" /\ entry.bytes = SubSeq(f, 3, j)
    <3>1. SubSeq(f, 3, j) \in Seq(Byte)
      <4>1. 2 \in 0 .. Len(f) /\ j \in 2 .. Len(f) /\ 2 + 1 = 3
        BY <1>4, <1>6
      <4> QED
        BY <1>6, <4>1, PieceParts
    <3>2. ~IsHttp(data, n) /\ IsWebSocket(data, n) /\ Payload(data) = SubSeq(f, 3, j)
      BY <1>4, <2>1, <3>1, FrameIsLogged
    <3> QED
      BY <1>7, <3>2
  <2>2. ASSUME entry.kind = "websocket"
        PROVE  /\ n >= 2
               /\ f[2] <= 125 =>
                     \E j \in 2 .. f[2] + 2 :
                         f[2] + 2 <= n /\ entry.bytes = SubSeq(f, 3, j)
    <3>1. IsWebSocket(data, n) /\ entry.bytes = Payload(data)
      BY <1>7, <2>2
    <3>2. /\ n >= 2
          /\ data[2] <= 125 =>
                \E j \in 2 .. data[2] + 2 :
                    data[2] + 2 <= n /\ entry.bytes = SubSeq(f, 3, j)
      BY <1>4, <3>1, LoggedFrame
    <3>3. f[2] = data[2]
      BY <1>4, <3>2, PrefixParts
    <3> QED
      BY <3>2, <3>3
  <2>3. logged'.of = f /\ Len(f) = n
    BY <1>5, <1>6
  <2> HIDE DEF f, data
  <2> QED
    BY <1>5, <2>1, <2>2, <2>3 DEF FramesAreLogged, NulFree
<1> QED
  BY <1>8, <1>9, <1>10 DEF IInv

LEMMA InitInvariant == Init => IInv
<1> SUFFICES ASSUME Init PROVE IInv
  OBVIOUS
<1>1. Capacity \in Nat /\ HexMax \in Nat
  BY ParserAssumption
<1>2. /\ logged.kind = "none" /\ logged.bytes = <<>> /\ logged.of = <<>>
      /\ length = 0 /\ frozen = FALSE
  BY DEF Init, Nothing
<1>3. <<>> \in Seq(Byte)
  BY EmptySeq
<1>4. memory \in [1 .. Capacity -> Byte]
  BY DEF Init, Byte
<1>5. TypeOK
  <2>1. length \in 0 .. Capacity
    BY <1>1, <1>2
  <2>2. frozen \in BOOLEAN
    BY <1>2, Zenon
  <2>3. /\ logged.kind \in {"none", "http", "websocket", "hex"}
        /\ logged.kind # "hex" /\ logged.kind # "http"
        /\ logged.bytes \in Seq(Byte) /\ logged.of \in Seq(Byte)
    BY <1>2, <1>3
  <2> QED
    BY <1>4, <2>1, <2>2, <2>3 DEF TypeOK
<1>6. HeadersAreLogged
  BY <1>2 DEF HeadersAreLogged
<1>7. FramesAreLogged
  <2>1. Len(logged.of) = 0 /\ 2 .. Len(logged.of) = {} /\ logged.kind # "websocket"
    BY <1>2
  <2> QED
    BY <2>1 DEF FramesAreLogged
<1> QED
  BY <1>5, <1>6, <1>7 DEF IInv

LEMMA NextKeeps == IInv /\ [Next]_vars => IInv'
<1> SUFFICES ASSUME IInv, [Next]_vars PROVE IInv'
  OBVIOUS
<1>1. CASE Freeze
  BY <1>1, NothingNew DEF Freeze, IInv, TypeOK
<1>2. ASSUME NEW message \in Messages \cup {<<>>}, Read(message) PROVE IInv'
  BY <1>2, ReadKeeps
<1>3. CASE UNCHANGED vars
  BY <1>3, NothingNew DEF vars, IInv, TypeOK
<1> QED
  BY <1>1, <1>2, <1>3 DEF Next

\* What every reachable state satisfies: the invariants of the runs.
THEOREM InductiveInvariant == Spec => []IInv
  BY InitInvariant, NextKeeps, PTL DEF Spec

\* The buffer holds bytes within its capacity, no dump is longer than its limit
\* (dump_hex) and no HTTP longer than the logger's array (log_message).
THEOREM TypeCorrect == Spec => []TypeOK
<1>1. IInv => TypeOK
  BY DEF IInv
<1> QED
  BY <1>1, InductiveInvariant, PTL

\* HTTP whose blank line has come is logged to the end of it, or as far as the
\* logger's array goes, whatever follows in the contents of the buffer and in
\* its memory behind them (parse_and_log_http).
THEOREM HeadersLogged == Spec => []HeadersAreLogged
<1>1. IInv => HeadersAreLogged
  BY DEF IInv
<1> QED
  BY <1>1, InductiveInvariant, PTL

\* An unmasked text frame that has come as a whole is logged with its payload,
\* and none is taken for whole that is not (parse_and_log_websocket).
THEOREM FramesLogged == Spec => []FramesAreLogged
<1>1. IInv => FramesAreLogged
  BY DEF IInv
<1> QED
  BY <1>1, InductiveInvariant, PTL

=============================================================================
