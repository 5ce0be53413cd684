---------------------------- MODULE BufferProofs ----------------------------
(***************************************************************************)
(* Proofs about Buffer for every set of bytes, every initial capacity and  *)
(* every width of int: the inductive invariant, and that the buffer        *)
(* implements ByteStream.                                                  *)
(***************************************************************************)
EXTENDS Buffer, SequenceTheorems, TLAPS

\* The inductive invariant: the type of taken needs that no readable cell is
\* garbage, which in turn needs the order of the indexes.
BufferInv == TypeOK /\ IndexesOrdered /\ NoGarbageReadable

\* A doubling that realloc accepts is a strict growth that stays an int.
LEMMA DoublingGrows ==
  ASSUME TypeOK, NewCap >= 0
  PROVE  NewCap = cap * 2 /\ NewCap \in 1 .. IntMax /\ NewCap > cap
<1> DEFINE low == (cap * 2) % IntRange
<1>1. cap \in 1 .. IntMax /\ IntMax \in Nat \ {0}
  BY BufferAssumption DEF TypeOK
<1>2. IntRange \in Nat /\ cap * 2 \in 0 .. IntRange - 1
  BY <1>1 DEF IntRange
<1>3. low = cap * 2
  BY <1>2
<1>4. NewCap = IF cap * 2 <= IntMax THEN cap * 2 ELSE cap * 2 - IntRange
  BY <1>3 DEF NewCap, ToInt
<1> QED
  BY <1>1, <1>2, <1>4 DEF IntRange

\* An append of bytes at an index that leaves room for them types the array
\* and leaves every cell below the index alone.
LEMMA FilledType ==
  ASSUME NEW n \in Nat, NEW a \in [1 .. n -> Byte \cup {Garbage}],
         NEW bs \in Seq(Byte), NEW at \in Nat, at + Len(bs) <= n
  PROVE  /\ Filled(a, at, bs) \in [1 .. n -> Byte \cup {Garbage}]
         /\ \A i \in 1 .. at : Filled(a, at, bs)[i] = a[i]
         /\ \A i \in at + 1 .. at + Len(bs) :
               /\ Filled(a, at, bs)[i] = bs[i - at]
               /\ Filled(a, at, bs)[i] \in Byte
<1>1. Len(bs) \in Nat /\ \A j \in 1 .. Len(bs) : bs[j] \in Byte
  OBVIOUS
<1>2. \A i \in at + 1 .. at + Len(bs) : i - at \in 1 .. Len(bs) /\ i \in 1 .. n
  BY <1>1
<1>3. DOMAIN a = 1 .. n
  OBVIOUS
<1> QED
  BY <1>1, <1>2, <1>3 DEF Filled

\* Doubling keeps every cell of the old array.
LEMMA GrownType ==
  ASSUME TypeOK, NewCap >= 0
  PROVE  /\ Grown \in [1 .. NewCap -> Byte \cup {Garbage}]
         /\ \A i \in 1 .. cap : Grown[i] = data[i]
<1>1. NewCap \in 1 .. IntMax /\ NewCap > cap /\ cap \in 1 .. IntMax
  BY DoublingGrows DEF TypeOK
<1>2. IntMax \in Nat
  BY BufferAssumption
<1>3. \A i \in 1 .. NewCap : i <= cap => i \in 1 .. cap
  BY <1>1, <1>2
<1>4. \A i \in 1 .. cap : i \in 1 .. NewCap /\ i <= cap
  BY <1>1, <1>2
<1> QED
  BY <1>3, <1>4 DEF Grown, TypeOK

\* Sliding moves the contents, all of them bytes, to the front.
LEMMA SlidType ==
  ASSUME BufferInv
  PROVE  /\ Slid \in [1 .. cap -> Byte \cup {Garbage}]
         /\ \A i \in 1 .. Readable : /\ Slid[i] = data[read_index + i]
                                     /\ Slid[i] \in Byte
<1>1. /\ cap \in Nat /\ read_index \in Nat /\ write_index \in Nat
      /\ read_index <= write_index /\ write_index <= cap
  BY BufferAssumption DEF BufferInv, TypeOK, IndexesOrdered
<1>2. \A i \in 1 .. cap : i <= Readable => read_index + i \in read_index + 1 .. write_index
  BY <1>1 DEF Readable
<1>3. \A i \in 1 .. Readable : i \in 1 .. cap /\ i <= Readable
  BY <1>1 DEF Readable
<1>4. DOMAIN data = 1 .. cap /\ data \in [1 .. cap -> Byte \cup {Garbage}]
  BY DEF BufferInv, TypeOK
<1>5. \A i \in read_index + 1 .. write_index : data[i] \in Byte
  BY DEF BufferInv, NoGarbageReadable
<1>6. \A i \in 1 .. cap : i <= Readable => data[read_index + i] \in Byte
  BY <1>2, <1>5
<1> QED
  BY <1>3, <1>4, <1>6 DEF Slid

-----------------------------------------------------------------------------
LEMMA InitInv == Init => BufferInv
<1> SUFFICES ASSUME Init PROVE BufferInv
  OBVIOUS
<1>1. INIT_BUFF_CAP \in 1 .. IntMax /\ IntMax \in Nat
  BY BufferAssumption
<1> QED
  BY <1>1 DEF Init, BufferInv, TypeOK, IndexesOrdered, NoGarbageReadable

LEMMA NextInv == BufferInv /\ [Next]_vars => BufferInv'
<1> SUFFICES ASSUME BufferInv, [Next]_vars PROVE BufferInv'
  OBVIOUS
<1>0. /\ cap \in 1 .. IntMax /\ IntMax \in Nat
      /\ read_index \in Nat /\ write_index \in Nat
      /\ read_index <= write_index /\ write_index <= cap
      /\ data \in [1 .. cap -> Byte \cup {Garbage}]
      /\ \A i \in read_index + 1 .. write_index : data[i] \in Byte
  BY BufferAssumption DEF BufferInv, TypeOK, IndexesOrdered, NoGarbageReadable
<1>t. TypeOK
  BY DEF BufferInv
<1>p. pending # NoChunk => pending \in Seq(Byte)
  BY BufferAssumption DEF BufferInv, TypeOK
<1>c. Chunks \subseteq Seq(Byte)
  BY BufferAssumption
<1> USE DEF BufferInv, IndexesOrdered, NoGarbageReadable
<1>1. ASSUME NEW bs \in Chunks, WriteCall(bs) PROVE BufferInv'
  BY <1>1, <1>0 DEF WriteCall, TypeOK, array
<1>2. CASE WriteFits
  <2>1. Len(pending) \in Nat /\ write_index + Len(pending) <= cap /\ cap \in Nat
    BY <1>2, <1>p, <1>0 DEF WriteFits, Idle, Writable
  <2>2. /\ data' \in [1 .. cap -> Byte \cup {Garbage}]
        /\ \A i \in 1 .. write_index : data'[i] = data[i]
        /\ \A i \in write_index + 1 .. write_index + Len(pending) : data'[i] \in Byte
    BY <1>2, <2>1, <1>0, <1>p, FilledType DEF WriteFits, Idle
  <2>3. \A i \in read_index + 1 .. write_index + Len(pending) : data'[i] \in Byte
    BY <2>1, <2>2, <1>0
  <2> QED
    BY <1>2, <2>1, <2>2, <2>3, <1>0 DEF WriteFits, TypeOK, Return
<1>3. CASE WriteSlides
  <2>1. /\ Len(pending) \in Nat /\ cap \in Nat
        /\ Readable \in Nat /\ Readable + Len(pending) <= cap
    BY <1>3, <1>p, <1>0 DEF WriteSlides, Idle, Writable, Prependable, Readable
  <2>2. /\ data' \in [1 .. cap -> Byte \cup {Garbage}]
        /\ \A i \in 1 .. Readable : data'[i] = Slid[i]
        /\ \A i \in Readable + 1 .. Readable + Len(pending) : data'[i] \in Byte
    BY <1>3, <2>1, <1>0, <1>p, SlidType, FilledType DEF WriteSlides, Idle
  <2>3. \A i \in 1 .. Readable + Len(pending) : data'[i] \in Byte
    BY <2>1, <2>2, SlidType
  <2> QED
    BY <1>3, <2>1, <2>2, <2>3, <1>0 DEF WriteSlides, TypeOK, Return
<1>4. CASE WriteExpands
  <2>1. NewCap >= 0
    BY <1>4 DEF WriteExpands, ExpandWorks
  <2> QED
    BY <1>4, <2>1, <1>t, <1>0, DoublingGrows, GrownType DEF WriteExpands, TypeOK
<1>5. CASE WriteFails
  BY <1>5, <1>0 DEF WriteFails, TypeOK, Return, array
<1>6. ASSUME NEW bs \in Chunks, ReadfdInto(bs) PROVE BufferInv'
  <2>1. bs \in Seq(Byte) /\ Len(bs) \in Nat /\ write_index + Len(bs) <= cap /\ cap \in Nat
    BY <1>6, <1>c, <1>0 DEF ReadfdInto, Writable
  <2>2. /\ data' \in [1 .. cap -> Byte \cup {Garbage}]
        /\ \A i \in 1 .. write_index : data'[i] = data[i]
        /\ \A i \in write_index + 1 .. write_index + Len(bs) : data'[i] \in Byte
    BY <1>6, <2>1, <1>0, FilledType DEF ReadfdInto
  <2>3. \A i \in read_index + 1 .. write_index + Len(bs) : data'[i] \in Byte
    BY <2>1, <2>2, <1>0
  <2> QED
    BY <1>6, <2>1, <2>2, <2>3, <1>0 DEF ReadfdInto, TypeOK, Return
<1>7. ASSUME NEW bs \in Chunks, ReadfdExpanding(bs) PROVE BufferInv'
  <2>1. NewCap >= 0
    BY <1>7 DEF ReadfdExpanding, ExpandWorks
  <2>2. NewCap \in 1 .. IntMax /\ NewCap > cap
    BY <2>1, <1>t, DoublingGrows
  <2>3. bs \in Seq(Byte) /\ Len(bs) \in Nat /\ write_index + Len(bs) <= NewCap /\ NewCap \in Nat
    BY <1>7, <1>c, <1>0, <2>2 DEF ReadfdExpanding
  <2>4. /\ data' \in [1 .. NewCap -> Byte \cup {Garbage}]
        /\ \A i \in 1 .. write_index : data'[i] = Grown[i]
        /\ \A i \in write_index + 1 .. write_index + Len(bs) : data'[i] \in Byte
    BY <1>7, <1>t, <2>1, <2>3, <1>0, GrownType, FilledType DEF ReadfdExpanding
  <2>5. \A i \in read_index + 1 .. write_index : data'[i] \in Byte
    BY <2>4, <1>0, <1>t, <2>1, GrownType
  <2>6. \A i \in read_index + 1 .. write_index + Len(bs) : data'[i] \in Byte
    BY <2>3, <2>4, <2>5, <1>0
  <2> QED
    BY <1>7, <2>2, <2>3, <2>4, <2>6, <1>0 DEF ReadfdExpanding, TypeOK, Return
<1>8. CASE ReadfdNothing
  <2>1. CASE Writable = 0 /\ ExpandWorks /\ data' = Grown /\ cap' = NewCap
    <3>1. NewCap >= 0
      BY <2>1 DEF ExpandWorks
    <3> QED
      BY <1>8, <2>1, <3>1, <1>t, <1>0, DoublingGrows, GrownType
         DEF ReadfdNothing, TypeOK, Return
  <2>2. CASE UNCHANGED <<data, cap>>
    BY <1>8, <2>2, <1>0 DEF ReadfdNothing, TypeOK, Return
  <2> QED
    BY <1>8, <2>1, <2>2 DEF ReadfdNothing
<1>9. CASE ReadfdFails
  BY <1>9, <1>0 DEF ReadfdFails, TypeOK, Return, array
<1>10. ASSUME NEW n \in 0 .. Readable, Consume(n) PROVE BufferInv'
  <2>1. n \in Nat /\ read_index + n <= write_index
    BY <1>0 DEF Readable
  <2>2. \A i \in 1 .. n : data[read_index + i] \in Byte
    BY <2>1, <1>0
  <2>3. [i \in 1 .. n |-> data[read_index + i]] \in Seq(Byte)
    BY <2>1, <2>2
  <2> QED
    BY <1>10, <2>1, <2>3, <1>0 DEF Consume, TypeOK, Return
<1>11. CASE WritefdNothing
  BY <1>11, <1>0 DEF WritefdNothing, TypeOK, Return, array
<1>12. ASSUME NEW n \in 0 .. Readable, Skip(n) PROVE BufferInv'
  <2>1. n \in Nat /\ read_index + n <= write_index
    BY <1>0 DEF Readable
  <2> QED
    BY <1>12, <2>1, <1>0 DEF Skip, TypeOK, Return
<1>13. CASE Clear
  BY <1>13, <1>0 DEF Clear, TypeOK, Return
<1>14. CASE UNCHANGED vars
  BY <1>14, <1>0 DEF vars, TypeOK
<1> QED
  BY <1>1, <1>2, <1>3, <1>4, <1>5, <1>6, <1>7, <1>8, <1>9, <1>10, <1>11, <1>12,
     <1>13, <1>14 DEF Next, WriteStep

-----------------------------------------------------------------------------
\* The three sizes of the buffer never wrap, for every capacity, every width
\* of int, every mix of failing and succeeding allocations (buffer.c:63-79).
THEOREM IndexesStayOrdered == Spec => []IndexesOrdered
<1>1. BufferInv => IndexesOrdered
  BY DEF BufferInv
<1> QED
  BY <1>1, InitInv, NextInv, PTL DEF Spec

\* Types, of the array and of the bytes handed out in particular.
THEOREM TypeCorrect == Spec => []TypeOK
<1>1. BufferInv => TypeOK
  BY DEF BufferInv
<1> QED
  BY <1>1, InitInv, NextInv, PTL DEF Spec

\* No call ever exposes a cell that no producer filled.
THEOREM NoGarbageIsReadable == Spec => []NoGarbageReadable
<1>1. BufferInv => NoGarbageReadable
  BY DEF BufferInv
<1> QED
  BY <1>1, InitInv, NextInv, PTL DEF Spec

-----------------------------------------------------------------------------
(* The buffer implements ByteStream.                                       *)

LEMMA ContentsType ==
  ASSUME BufferInv
  PROVE  Contents \in Seq(Byte) /\ Len(Contents) = Readable /\ Readable \in Nat
<1>1. Readable \in Nat /\ read_index \in Nat /\ write_index = read_index + Readable
  BY DEF BufferInv, TypeOK, IndexesOrdered, Readable
<1>2. \A i \in 1 .. Readable : data[read_index + i] \in Byte
  BY <1>1 DEF BufferInv, NoGarbageReadable
<1> QED
  BY <1>1, <1>2 DEF Contents

\* What "appended" means for the array: the old contents and the new bytes
\* are found one after the other from the new read_index on.
LEMMA AppendContents ==
  ASSUME BufferInv, NEW bs \in Seq(Byte),
         read_index' \in Nat,
         write_index' = read_index' + Readable + Len(bs),
         \A i \in 1 .. Readable : data'[read_index' + i] = data[read_index + i],
         \A i \in 1 .. Len(bs) : data'[read_index' + Readable + i] = bs[i]
  PROVE  Contents' = Contents \o bs
<1>1. /\ Contents \in Seq(Byte) /\ Len(Contents) = Readable
      /\ Readable \in Nat /\ Len(bs) \in Nat
  BY ContentsType
<1>2. Readable' = Readable + Len(bs)
  BY <1>1 DEF Readable
<1>3. Contents' = [i \in 1 .. Readable + Len(bs) |-> data'[read_index' + i]]
  BY <1>2 DEF Contents
<1>4. \A i \in 1 .. Readable + Len(bs) :
         data'[read_index' + i] = IF i <= Readable THEN Contents[i] ELSE bs[i - Readable]
  <2> SUFFICES ASSUME NEW i \in 1 .. Readable + Len(bs)
               PROVE  data'[read_index' + i] = IF i <= Readable THEN Contents[i] ELSE bs[i - Readable]
    OBVIOUS
  <2>1. CASE i <= Readable
    BY <2>1, <1>1 DEF Contents
  <2>2. CASE ~(i <= Readable)
    <3>1. i - Readable \in 1 .. Len(bs) /\ read_index' + i = read_index' + Readable + (i - Readable)
      BY <2>2, <1>1
    <3> QED
      BY <3>1, <2>2
  <2> QED
    BY <2>1, <2>2
<1>5. Contents' \in Seq(Byte) /\ Len(Contents') = Readable + Len(bs)
  <2>1. \A i \in 1 .. Len(bs) : bs[i] \in Byte
    OBVIOUS
  <2>2. \A i \in 1 .. Readable : Contents[i] \in Byte
    BY <1>1
  <2>3. ASSUME NEW i \in 1 .. Readable + Len(bs) PROVE data'[read_index' + i] \in Byte
    <3>1. (i <= Readable => i \in 1 .. Readable) /\ (~(i <= Readable) => i - Readable \in 1 .. Len(bs))
      BY <1>1
    <3> QED
      BY <3>1, <1>4, <2>1, <2>2
  <2> QED
    BY <1>1, <1>3, <2>3
<1>6. /\ Contents \o bs \in Seq(Byte)
      /\ Len(Contents \o bs) = Readable + Len(bs)
      /\ \A i \in 1 .. Readable + Len(bs) :
            (Contents \o bs)[i] = IF i <= Readable THEN Contents[i] ELSE bs[i - Readable]
  BY <1>1, ConcatProperties, ZenonT(60)
<1>7. \A i \in 1 .. Len(Contents') : Contents'[i] = (Contents \o bs)[i]
  BY <1>1, <1>3, <1>4, <1>5, <1>6
<1> QED
  BY <1>5, <1>6, <1>7, SeqEqual

\* What "consumed" means: the first n bytes go, the rest stays in order.
LEMMA ConsumeContents ==
  ASSUME BufferInv, NEW n \in 0 .. Readable,
         read_index' = read_index + n, UNCHANGED <<data, write_index>>
  PROVE  /\ Contents' = SubSeq(Contents, n + 1, Len(Contents))
         /\ [i \in 1 .. n |-> data[read_index + i]] = SubSeq(Contents, 1, n)
<1>1. /\ Contents \in Seq(Byte) /\ Len(Contents) = Readable /\ Readable \in Nat
      /\ read_index \in Nat /\ write_index = read_index + Readable
  BY ContentsType DEF BufferInv, TypeOK, Readable
<1>2. Readable' = Readable - n /\ n \in Nat
  BY <1>1 DEF Readable
<1>3. Contents' = [i \in 1 .. Readable - n |-> data[read_index + n + i]]
  BY <1>2 DEF Contents
<1>4. SubSeq(Contents, n + 1, Len(Contents)) = [i \in 1 .. Readable - n |-> Contents[n + i]]
  BY <1>1
<1>5. \A i \in 1 .. Readable - n : Contents[n + i] = data[read_index + n + i]
  BY <1>1 DEF Contents
<1>6. SubSeq(Contents, 1, n) = [i \in 1 .. n |-> Contents[i]]
  BY <1>1
<1>7. \A i \in 1 .. n : Contents[i] = data[read_index + i]
  BY <1>1 DEF Contents
<1> QED
  BY <1>3, <1>4, <1>5, <1>6, <1>7

LEMMA InitRefines == Init => Stream!Init
BY DEF Init, Stream!Init, Contents, Readable

LEMMA StepRefines == BufferInv /\ [Next]_vars => [Stream!Next]_<<Contents, taken, ret>>
<1> SUFFICES ASSUME BufferInv, [Next]_vars PROVE [Stream!Next]_<<Contents, taken, ret>>
  OBVIOUS
<1>0. /\ cap \in 1 .. IntMax /\ IntMax \in Nat
      /\ read_index \in Nat /\ write_index \in Nat
      /\ read_index <= write_index /\ write_index <= cap
      /\ data \in [1 .. cap -> Byte \cup {Garbage}]
      /\ Readable \in Nat /\ write_index = read_index + Readable
  BY BufferAssumption DEF BufferInv, TypeOK, IndexesOrdered, Readable
<1>t. TypeOK
  BY DEF BufferInv
<1>p. pending # NoChunk => pending \in Chunks
  BY DEF BufferInv, TypeOK
<1>c. Chunks \subseteq Seq(Byte)
  BY BufferAssumption
<1>s. UNCHANGED array => UNCHANGED Contents
  BY DEF array, Contents, Readable
<1>1. ASSUME NEW bs \in Chunks, WriteCall(bs) PROVE UNCHANGED <<Contents, taken, ret>>
  BY <1>1, <1>s DEF WriteCall
<1>2. CASE WriteFits
  <2>1. pending \in Chunks /\ pending \in Seq(Byte)
    BY <1>2, <1>p, <1>c DEF WriteFits, Idle
  <2>2. Len(pending) \in Nat /\ write_index + Len(pending) <= cap /\ cap \in Nat
    BY <1>2, <2>1, <1>0 DEF WriteFits, Writable
  <2>3. /\ \A i \in 1 .. write_index : data'[i] = data[i]
        /\ \A i \in write_index + 1 .. write_index + Len(pending) :
               data'[i] = pending[i - write_index]
    BY <1>2, <2>1, <2>2, <1>0, FilledType DEF WriteFits
  <2>4. \A i \in 1 .. Readable : data'[read_index + i] = data[read_index + i]
    BY <2>3, <1>0
  <2>5. ASSUME NEW i \in 1 .. Len(pending)
        PROVE  data'[read_index + Readable + i] = pending[i]
    <3>1. write_index + i \in write_index + 1 .. write_index + Len(pending) /\ (write_index + i) - write_index = i
      BY <2>2, <1>0
    <3> QED
      BY <3>1, <2>3, <1>0
  <2>6. Contents' = Contents \o pending
    BY <1>2, <2>1, <2>4, <2>5, <1>0, AppendContents DEF WriteFits
  <2> QED
    BY <1>2, <2>1, <2>6 DEF WriteFits, Return, Stream!Next, Stream!Put
<1>3. CASE WriteSlides
  <2>1. pending \in Chunks /\ pending \in Seq(Byte)
    BY <1>3, <1>p, <1>c DEF WriteSlides, Idle
  <2>2. Len(pending) \in Nat /\ Readable + Len(pending) <= cap /\ cap \in Nat
    BY <1>3, <2>1, <1>0 DEF WriteSlides, Writable, Prependable
  <2>3. /\ \A i \in 1 .. Readable : data'[i] = Slid[i]
        /\ \A i \in Readable + 1 .. Readable + Len(pending) : data'[i] = pending[i - Readable]
    BY <1>3, <2>1, <2>2, <1>0, SlidType, FilledType DEF WriteSlides
  <2>4. read_index' = 0
    BY <1>3 DEF WriteSlides
  <2>5. \A i \in 1 .. Readable : data'[read_index' + i] = data[read_index + i]
    BY <2>3, <2>4, SlidType, <1>0
  <2>6. ASSUME NEW i \in 1 .. Len(pending)
        PROVE  data'[read_index' + Readable + i] = pending[i]
    <3>1. Readable + i \in Readable + 1 .. Readable + Len(pending) /\ (Readable + i) - Readable = i
      BY <2>2, <1>0
    <3> QED
      BY <3>1, <2>3, <2>4, <1>0
  <2>7. write_index' = read_index' + Readable + Len(pending)
    BY <1>3, <2>2, <2>4, <1>0 DEF WriteSlides
  <2>8. Contents' = Contents \o pending
    BY <2>1, <2>4, <2>5, <2>6, <2>7, AppendContents
  <2> QED
    BY <1>3, <2>1, <2>8 DEF WriteSlides, Return, Stream!Next, Stream!Put
<1>4. CASE WriteExpands
  <2>1. \A i \in 1 .. cap : data'[i] = data[i]
    BY <1>4, <1>t, GrownType DEF WriteExpands, ExpandWorks
  <2>2. \A i \in 1 .. Readable : data'[read_index + i] = data[read_index + i]
    BY <2>1, <1>0
  <2> QED
    BY <1>4, <2>2 DEF WriteExpands, Contents, Readable
<1>5. CASE WriteFails
  BY <1>5, <1>s DEF WriteFails, Return, Stream!Next, Stream!Refuse
<1>6. ASSUME NEW bs \in Chunks, ReadfdInto(bs) PROVE Stream!Next
  <2>1. bs \in Seq(Byte) /\ Len(bs) \in Nat /\ write_index + Len(bs) <= cap /\ cap \in Nat
    BY <1>6, <1>c, <1>0 DEF ReadfdInto, Writable
  <2>2. /\ \A i \in 1 .. write_index : data'[i] = data[i]
        /\ \A i \in write_index + 1 .. write_index + Len(bs) : data'[i] = bs[i - write_index]
    BY <1>6, <2>1, <1>0, FilledType DEF ReadfdInto
  <2>3. \A i \in 1 .. Readable : data'[read_index + i] = data[read_index + i]
    BY <2>2, <1>0
  <2>4. ASSUME NEW i \in 1 .. Len(bs)
        PROVE  data'[read_index + Readable + i] = bs[i]
    <3>1. write_index + i \in write_index + 1 .. write_index + Len(bs) /\ (write_index + i) - write_index = i
      BY <2>1, <1>0
    <3> QED
      BY <3>1, <2>2, <1>0
  <2>5. Contents' = Contents \o bs
    BY <1>6, <2>1, <2>3, <2>4, <1>0, AppendContents DEF ReadfdInto
  <2> QED
    BY <1>6, <2>5 DEF ReadfdInto, Return, Stream!Next, Stream!Put
<1>7. ASSUME NEW bs \in Chunks, ReadfdExpanding(bs) PROVE Stream!Next
  <2>1. NewCap >= 0
    BY <1>7 DEF ReadfdExpanding, ExpandWorks
  <2>2. NewCap \in 1 .. IntMax /\ NewCap > cap
    BY <2>1, <1>t, DoublingGrows
  <2>3. bs \in Seq(Byte) /\ Len(bs) \in Nat /\ write_index + Len(bs) <= NewCap /\ NewCap \in Nat
    BY <1>7, <1>c, <1>0, <2>2 DEF ReadfdExpanding
  <2>4. /\ \A i \in 1 .. write_index : data'[i] = Grown[i]
        /\ \A i \in write_index + 1 .. write_index + Len(bs) : data'[i] = bs[i - write_index]
    BY <1>7, <1>t, <2>1, <2>3, <1>0, GrownType, FilledType DEF ReadfdExpanding
  <2>5. \A i \in 1 .. Readable : data'[read_index + i] = data[read_index + i]
    BY <2>4, <2>1, <1>0, <1>t, GrownType
  <2>6. ASSUME NEW i \in 1 .. Len(bs)
        PROVE  data'[read_index + Readable + i] = bs[i]
    <3>1. write_index + i \in write_index + 1 .. write_index + Len(bs) /\ (write_index + i) - write_index = i
      BY <2>3, <1>0
    <3> QED
      BY <3>1, <2>4, <1>0
  <2>7. Contents' = Contents \o bs
    BY <1>7, <2>3, <2>5, <2>6, <1>0, AppendContents DEF ReadfdExpanding
  <2> QED
    BY <1>7, <2>7 DEF ReadfdExpanding, Return, Stream!Next, Stream!Put
<1>8. CASE ReadfdNothing
  <2>1. UNCHANGED Contents
    <3>1. CASE UNCHANGED <<data, cap>>
      BY <1>8, <3>1 DEF ReadfdNothing, Contents, Readable
    <3>2. CASE ExpandWorks /\ data' = Grown
      <4>1. \A i \in 1 .. cap : data'[i] = data[i]
        BY <3>2, <1>t, GrownType DEF ExpandWorks
      <4>2. \A i \in 1 .. Readable : data'[read_index + i] = data[read_index + i]
        BY <4>1, <1>0
      <4> QED
        BY <1>8, <4>2 DEF ReadfdNothing, Contents, Readable
    <3> QED
      BY <1>8, <3>1, <3>2 DEF ReadfdNothing
  <2> QED
    BY <1>8, <2>1 DEF ReadfdNothing, Return, Stream!Next, Stream!Refuse
<1>9. CASE ReadfdFails
  BY <1>9, <1>s DEF ReadfdFails, Return, Stream!Next, Stream!Refuse
<1>10. ASSUME NEW n \in 0 .. Readable, Consume(n) PROVE Stream!Next
  <2>1. /\ Contents' = SubSeq(Contents, n + 1, Len(Contents))
        /\ taken' = SubSeq(Contents, 1, n)
        /\ ret' = "ok"
    BY <1>10, ConsumeContents DEF Consume, Return
  <2>2. n \in 0 .. Len(Contents)
    BY ContentsType
  <2> QED
    BY <2>1, <2>2 DEF Stream!Next, Stream!Take
<1>11. CASE WritefdNothing
  BY <1>11, <1>s DEF WritefdNothing, Return, Stream!Next, Stream!Refuse
<1>12. ASSUME NEW n \in 0 .. Readable, Skip(n) PROVE Stream!Next
  <2>1. Contents' = SubSeq(Contents, n + 1, Len(Contents)) /\ taken' = <<>> /\ ret' = "ok"
    BY <1>12, ConsumeContents DEF Skip, Return
  <2>2. n \in 0 .. Len(Contents)
    BY ContentsType
  <2> QED
    BY <2>1, <2>2 DEF Stream!Next, Stream!Discard
<1>13. CASE Clear
  <2>1. Readable' = 0
    BY <1>13 DEF Clear, Readable
  <2>2. Contents' = <<>>
    BY <2>1 DEF Contents
  <2>3. Len(Contents) \in Nat /\ SubSeq(Contents, Len(Contents) + 1, Len(Contents)) = <<>>
    BY ContentsType
  <2> QED
    BY <1>13, <2>2, <2>3 DEF Clear, Return, Stream!Next, Stream!Discard
<1>14. CASE UNCHANGED vars
  BY <1>14, <1>s DEF vars, array
<1> QED
  BY <1>1, <1>2, <1>3, <1>4, <1>5, <1>6, <1>7, <1>8, <1>9, <1>10, <1>11, <1>12,
     <1>13, <1>14 DEF Next, WriteStep

\* buffer.c implements a FIFO of bytes with all-or-nothing appends, for every
\* capacity, every width of int and every pattern of allocation failures.
THEOREM BufferIsByteStream == Spec => IsByteStream
BY InitInv, NextInv, InitRefines, StepRefines, PTL
   DEF Spec, IsByteStream, Stream!Spec, Stream!bsVars
=============================================================================
