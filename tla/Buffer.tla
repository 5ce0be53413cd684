------------------------------- MODULE Buffer -------------------------------
(***************************************************************************)
(* The growable buffer of src/src/buffer.c: an array, the index of the     *)
(* next byte to consume and the index of the next byte to fill.  Appending *)
(* slides the contents to the front when that makes enough room, and       *)
(* doubles the array when it does not; the doubled size goes through a C   *)
(* int.  The loop of buffer_write is kept as a loop: one step an iteration.*)
(***************************************************************************)
EXTENDS Integers, Sequences

CONSTANTS Byte,           \* values of a byte of traffic
          Chunks,         \* byte strings a producer appends in one call
          NoChunk,        \* no buffer_write call in progress
          Garbage,        \* content of a cell malloc / realloc returned
          INIT_BUFF_CAP,  \* capacity given to buffer_create
          IntMax,         \* largest value of a C int
          AllocMayFail    \* can malloc / realloc return NULL for a legal size

ASSUME BufferAssumption ==
    /\ Chunks \subseteq Seq(Byte)
    /\ NoChunk \notin Seq(Byte)
    /\ Garbage \notin Byte
    /\ IntMax \in Nat \ {0}
    /\ INIT_BUFF_CAP \in 1 .. IntMax
    /\ AllocMayFail \in BOOLEAN

VARIABLES data,         \* the array, cell i of C at position i + 1
          read_index, write_index, cap,
          pending,      \* the bytes buffer_write is still looking for room for
          taken,        \* bytes handed to the caller or the kernel by the last call
          ret           \* return code of the last call

array == <<data, read_index, write_index, cap>>
vars == <<data, read_index, write_index, cap, pending, taken, ret>>

Readable == write_index - read_index
Prependable == read_index
\* Mutant: room counted from the wrong index.
WritableFromReadIndex == cap - read_index
Writable == cap - write_index

\* The bytes between the two indexes: what the buffer holds.
Contents == [i \in 1 .. Readable |-> data[read_index + i]]

Idle == pending = NoChunk

-----------------------------------------------------------------------------
(* buffer_expand *)

\* Conversion of a size_t to a C int.
IntRange == 2 * (IntMax + 1)
ToInt(x) == LET low == x % IntRange
            IN  IF low <= IntMax THEN low ELSE low - IntRange

\* Mutant: the doubled size kept in a size_t.
NewCapWide == cap * 2
NewCap == ToInt(cap * 2)

\* realloc of a negative int is realloc of a size near 2^64: NULL.
ExpandFails == NewCap < 0 \/ AllocMayFail
ExpandWorks == NewCap >= 0

\* Mutant: malloc without copying the old array.
GrownAfresh == [i \in 1 .. NewCap |-> Garbage]
Grown == [i \in 1 .. NewCap |-> IF i <= cap THEN data[i] ELSE Garbage]

\* memcpy of bs at write_index of an array a.
Filled(a, at, bs) ==
    [i \in DOMAIN a |-> IF i \in at + 1 .. at + Len(bs) THEN bs[i - at] ELSE a[i]]

\* Mutant: the indexes move, the bytes do not.
SlidInPlace == data
\* memmove of the contents to the front.
Slid == [i \in DOMAIN data |-> IF i <= Readable THEN data[read_index + i] ELSE data[i]]

-----------------------------------------------------------------------------
(* Init: buffer_create *)

Init ==
    /\ data = [i \in 1 .. INIT_BUFF_CAP |-> Garbage]
    /\ read_index = 0
    /\ write_index = 0
    /\ cap = INIT_BUFF_CAP
    /\ pending = NoChunk
    /\ taken = <<>>
    /\ ret = "ok"

Return(code, bytes) ==
    /\ ret' = code
    /\ taken' = bytes

-----------------------------------------------------------------------------
(* buffer_write, entered with size bytes at src (buffer_concat passes the  *)
(* contents of another buffer).                                            *)

WriteCall(bs) ==
    /\ Idle
    /\ pending' = bs
    /\ UNCHANGED <<array, taken, ret>>

WriteFits ==
    /\ ~Idle
    /\ Writable >= Len(pending)
    /\ data' = Filled(data, write_index, pending)
    /\ write_index' = write_index + Len(pending)
    /\ pending' = NoChunk
    /\ Return("ok", <<>>)
    /\ UNCHANGED <<read_index, cap>>

WriteSlides ==
    /\ ~Idle
    /\ Writable < Len(pending)
    /\ Prependable + Writable >= Len(pending)
    /\ data' = Filled(Slid, Readable, pending)
    /\ read_index' = 0
    /\ write_index' = Readable + Len(pending)
    /\ pending' = NoChunk
    /\ Return("ok", <<>>)
    /\ UNCHANGED cap

WriteNeedsRoom ==
    /\ ~Idle
    /\ Prependable + Writable < Len(pending)

WriteExpands ==
    /\ WriteNeedsRoom
    /\ ExpandWorks
    /\ data' = Grown
    /\ cap' = NewCap
    /\ UNCHANGED <<read_index, write_index, pending, taken, ret>>

\* Mutant: the loop does not look at what buffer_expand returned.
WriteFailsUnnoticed ==
    /\ WriteNeedsRoom
    /\ ExpandFails
    /\ UNCHANGED vars
WriteFails ==
    /\ WriteNeedsRoom
    /\ ExpandFails
    /\ pending' = NoChunk
    /\ Return("error", <<>>)
    /\ UNCHANGED array

-----------------------------------------------------------------------------
(* buffer_readfd: read(2) of at most Writable bytes; the array is doubled  *)
(* first when it is full, and is never slid.                               *)

ReadfdInto(bs) ==
    /\ Idle
    /\ Writable > 0
    /\ Len(bs) \in 1 .. Writable
    /\ data' = Filled(data, write_index, bs)
    /\ write_index' = write_index + Len(bs)
    /\ Return("ok", <<>>)
    /\ UNCHANGED <<read_index, cap, pending>>

ReadfdExpanding(bs) ==
    /\ Idle
    /\ Writable = 0
    /\ ExpandWorks
    /\ Len(bs) \in 1 .. NewCap - write_index
    /\ data' = Filled(Grown, write_index, bs)
    /\ cap' = NewCap
    /\ write_index' = write_index + Len(bs)
    /\ Return("ok", <<>>)
    /\ UNCHANGED <<read_index, pending>>

\* read(2) returned 0 or -1: the bytes stay, a doubling already done stays.
ReadfdNothing ==
    /\ Idle
    /\ \/ Writable > 0 /\ UNCHANGED <<data, cap>>
       \/ Writable = 0 /\ ExpandWorks /\ data' = Grown /\ cap' = NewCap
    /\ \E code \in {"error", "eof"} : Return(code, <<>>)
    /\ UNCHANGED <<read_index, write_index, pending>>

ReadfdFails ==
    /\ Idle
    /\ Writable = 0
    /\ ExpandFails
    /\ Return("error", <<>>)
    /\ UNCHANGED <<array, pending>>

-----------------------------------------------------------------------------
(* Consumers: write(2) of a prefix of the contents, buffer_read,           *)
(* buffer_skip and buffer_clear.                                           *)

\* buffer_read asserts size <= readable; write(2) takes 1 .. readable bytes.
Consume(n) ==
    /\ Idle
    /\ n \in 0 .. Readable
    /\ read_index' = read_index + n
    /\ Return("ok", [i \in 1 .. n |-> data[read_index + i]])
    /\ UNCHANGED <<data, write_index, cap, pending>>

\* write(2) returned 0 or -1.
WritefdNothing ==
    /\ Idle
    /\ Return("error", <<>>)
    /\ UNCHANGED <<array, pending>>

Skip(n) ==
    /\ Idle
    /\ n \in 0 .. Readable
    /\ read_index' = read_index + n
    /\ Return("ok", <<>>)
    /\ UNCHANGED <<data, write_index, cap, pending>>

Clear ==
    /\ Idle
    /\ read_index' = 0
    /\ write_index' = 0
    /\ Return("ok", <<>>)
    /\ UNCHANGED <<data, cap, pending>>

-----------------------------------------------------------------------------
WriteStep == WriteFits \/ WriteSlides \/ WriteExpands \/ WriteFails

Next ==
    \/ \E bs \in Chunks : WriteCall(bs) \/ ReadfdInto(bs) \/ ReadfdExpanding(bs)
    \/ WriteStep
    \/ ReadfdNothing
    \/ ReadfdFails
    \/ \E n \in 0 .. Readable : Consume(n) \/ Skip(n)
    \/ WritefdNothing
    \/ Clear

\* The loop of buffer_write runs on the caller's thread until it returns.
Spec == Init /\ [][Next]_vars /\ WF_vars(WriteStep)

-----------------------------------------------------------------------------
(* Properties *)

\* Types of the variables.
TypeOK ==
    /\ cap \in 1 .. IntMax
    /\ read_index \in Nat
    /\ write_index \in Nat
    /\ data \in [1 .. cap -> Byte \cup {Garbage}]
    /\ pending \in Chunks \cup {NoChunk}
    /\ taken \in Seq(Byte)
    /\ ret \in {"ok", "error", "eof"}

\* The three sizes of buffer.c are unsigned subtractions: none may wrap, so
\* read_index <= write_index <= cap after every slide, doubling and clear.
IndexesOrdered == read_index <= write_index /\ write_index <= cap

\* Every byte between the indexes was put there by a producer: sliding and
\* doubling never expose a cell that malloc returned and nobody filled.
NoGarbageReadable == \A i \in read_index + 1 .. write_index : data[i] \in Byte

\* buffer_write always returns: its loop slides, doubles, or hits the
\* largest int and gives up.
WriteReturns == (~Idle) ~> Idle

\* The buffer is a FIFO of bytes; a refused append leaves it as it was.
Stream == INSTANCE ByteStream WITH queue <- Contents
IsByteStream == Stream!Spec
=============================================================================
