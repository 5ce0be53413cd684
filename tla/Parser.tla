------------------------------- MODULE Parser -------------------------------
(***************************************************************************)
(* What tunnel_connected_handle logs of the bytes it forwards: the HTTP    *)
(* and WebSocket parsers of src/src/protocol_parser.c and dump_hex.        *)
(*                                                                         *)
(* They are given a pointer into read_buffer and a length.  The buffer is  *)
(* cleared by resetting its indices, so that what follows the length is    *)
(* what earlier messages left there, and strstr, which looks for the end   *)
(* of the HTTP headers, knows nothing of the length.  While the traffic is *)
(* frozen nothing is cleared, and every read is logged together with all   *)
(* that is held.  The logger cuts what it is given to its own array.       *)
(* Bytes are numbers; labels and headers of the log lines are left out,    *)
(* and one direction is modelled.                                          *)
(***************************************************************************)
EXTENDS Integers, Sequences, FiniteSetsExt

CONSTANTS Messages,  \* what a read can bring
          Capacity,  \* of read_buffer
          HexMax,    \* bytes dump_hex shows: 128 in the code
          LogMax     \* bytes of HTTP that fit msgbuf behind their label: 985 or less

Byte == 0 .. 255
CRLFCRLF == <<13, 10, 13, 10>>

ASSUME ParserAssumption ==
    /\ Messages \subseteq Seq(Byte) \ {<<>>}
    /\ Capacity \in Nat \ {0}
    /\ HexMax \in Nat \ {0}
    /\ LogMax \in Nat \ {0}

VARIABLES
    memory,  \* the bytes of read_buffer, those past its contents included
    length,  \* buffer_readable: the contents are the first so many bytes
    frozen,  \* terminal_is_frozen()
    logged   \* what the last read has logged, and of which contents

vars == <<memory, length, frozen, logged>>

Nothing == [kind |-> "none", bytes |-> <<>>, of |-> <<>>]

Init ==
    /\ \E b \in {0, 65} : memory = [i \in 1 .. Capacity |-> b]   \* never written
    /\ length = 0
    /\ frozen = FALSE
    /\ logged = Nothing

Prefix(s, n) == SubSeq(s, 1, n)

\* The places of s where t is.
Places(s, t) == {i \in 1 .. Len(s) - Len(t) + 1 : SubSeq(s, i, i + Len(t) - 1) = t}
\* What %s prints of s: the bytes before the first NUL.
Printed(s) == LET nuls == Places(s, <<0>>)
              IN  IF nuls = {} THEN s ELSE Prefix(s, Min(nuls) - 1)

-----------------------------------------------------------------------------
(* parse_and_log_http                                                      *)

isalpha(b) == b \in 65 .. 90 \cup 97 .. 122
\* "HTTP" is letters too.
IsHttp(data, len) == len >= 4 /\ \A i \in 1 .. 4 : isalpha(data[i])

\* strstr: the first blank line, unless the string ends before it.
Splits(data) == Places(Printed(data), CRLFCRLF)
\* It runs on past the buffer's memory.
Overruns(data) == Places(data, <<0>>) \cup Splits(data) = {}

\* Mutant: the end of the headers is where the blank line starts.
ToLogShort(data, len) == IF Splits(data) = {} THEN len ELSE Min(Splits(data)) - 1
ToLog(data, len) == IF Splits(data) = {} THEN len ELSE Min(Splits(data)) + 3

\* log_message: vsnprintf stops at the end of msgbuf.  Payloads, of 127 bytes
\* at most, and dumps always fit.
Cut(text) == IF Len(text) <= LogMax THEN text ELSE Prefix(text, LogMax)

\* Past the memory strstr finds no blank line, or one.
HttpBytes(data, len) ==
    IF Overruns(data) THEN {Cut(Prefix(data, len)), Cut(data)}
    ELSE {Cut(Printed(Prefix(data, ToLog(data, len))))}

-----------------------------------------------------------------------------
(* parse_and_log_websocket                                                 *)

HeaderLength(data) == IF data[2] >= 128 THEN 6 ELSE 2
RawLength(data) == data[2] % 128

\* Mutant: the header is not counted in what has to be there.
IsWebSocketHeaderless(data, len) ==
    /\ data[1] % 16 = 1
    /\ len >= RawLength(data)

IsWebSocket(data, len) ==
    /\ len >= 2
    /\ data[1] % 16 = 1
    /\ len >= HeaderLength(data) + RawLength(data)

Payload(data) ==
    Printed(SubSeq(data, HeaderLength(data) + 1, HeaderLength(data) + RawLength(data)))

-----------------------------------------------------------------------------
(* dump_hex and tunnel_connected_handle                                    *)

\* Mutant: the limit is not applied.
DumpHexWhole(data, len) == Prefix(data, len)
DumpHex(data, len) == Prefix(data, IF len < HexMax THEN len ELSE HexMax)

Logs(data, len) ==
    CASE IsHttp(data, len) -> {[kind |-> "http", bytes |-> b] : b \in HttpBytes(data, len)}
      [] ~IsHttp(data, len) /\ IsWebSocket(data, len) ->
            {[kind |-> "websocket", bytes |-> Payload(data)]}
      [] OTHER -> {[kind |-> "hex", bytes |-> DumpHex(data, len)]}

\* buffer_readfd appends; the handler logs, and forwards all unless frozen.
\* A read that fails with EAGAIN brings nothing and is handled all the same.
\* Bounded: the buffer does not grow.
Read(message) ==
    LET n == length + Len(message)
        data == [i \in 1 .. Capacity |->
                    IF i \in length + 1 .. n THEN message[i - length] ELSE memory[i]]
    IN  /\ n <= Capacity
        /\ memory' = data
        /\ \E entry \in Logs(data, n) :
              logged' = [kind |-> entry.kind, bytes |-> entry.bytes, of |-> Prefix(data, n)]
        /\ length' = IF frozen THEN n ELSE 0
        /\ UNCHANGED frozen

Freeze ==
    /\ frozen' = ~frozen
    /\ UNCHANGED <<memory, length, logged>>

Next == Freeze \/ \E message \in Messages \cup {<<>>} : Read(message)

Spec == Init /\ [][Next]_vars

-----------------------------------------------------------------------------
(* Properties *)

TypeOK ==
    /\ memory \in [1 .. Capacity -> Byte]
    /\ length \in 0 .. Capacity
    /\ frozen \in BOOLEAN
    /\ logged.kind \in {"none", "http", "websocket", "hex"}
    /\ logged.bytes \in Seq(Byte)
    /\ logged.of \in Seq(Byte)
    /\ logged.kind = "hex" => Len(logged.bytes) <= HexMax
    /\ logged.kind = "http" => Len(logged.bytes) <= LogMax

StartsWith(s, t) == Len(t) <= Len(s) /\ Prefix(s, Len(t)) = t

\* HTTP whose blank line has come is logged from its first byte to the end of
\* that line, or to the end of the logger's array if that is nearer, whatever
\* body, later requests and stale bytes follow.
HeadersAreLogged ==
    LET blanks == Places(logged.of, CRLFCRLF)
    IN  /\ logged.kind = "http" /\ blanks # {}
        /\ \A nul \in Places(logged.of, <<0>>) : Min(blanks) < nul
        => LET n == Min(blanks) + 3
           IN  logged.bytes = Prefix(logged.of, IF n < LogMax THEN n ELSE LogMax)

\* An unmasked text frame that has come as a whole, its length in seven bits,
\* is logged with all of its payload, and while one has not nothing is logged
\* as its payload: stale bytes complete neither its header nor its payload.
TextFrame(payload) == <<129, Len(payload)>> \o payload
FramesAreLogged ==
    /\ \A payload \in {SubSeq(logged.of, 3, j) : j \in 2 .. Len(logged.of)} :
          /\ Len(payload) <= 125 /\ Places(payload, <<0>>) = {}
          /\ StartsWith(logged.of, TextFrame(payload))
          => logged.kind = "websocket" /\ logged.bytes = payload
    /\ logged.kind = "websocket" =>
          /\ Len(logged.of) >= 2
          /\ logged.of[2] <= 125 =>
                \E j \in 2 .. logged.of[2] + 2 :
                    /\ logged.of[2] + 2 <= Len(logged.of)
                    /\ logged.bytes = SubSeq(logged.of, 3, j)

-----------------------------------------------------------------------------
(* What the comments and the README say, and the code does not do.         *)

\* protocol_parser.c:28 "if the separator is found we log up to its end,
\* otherwise the whole buffer": what is logged is never what earlier messages
\* left behind the contents, and without the separator all of the contents.
OnlyTheContentsAreLogged ==
    logged.kind = "http" /\ Places(logged.of, CRLFCRLF) = {} => logged.bytes = Cut(logged.of)

\* protocol_parser.h:17 "a text frame without a mask": no other is logged.
OnlyUnmaskedFrames == logged.kind = "websocket" => logged.of[2] < 128

\* README.md:109 "logging still continues" and 171: what a read adds to the
\* bytes held by a freeze is logged.
FrozenReadsAreLogged ==
    [][length > 0 /\ length' > length =>
          \E i \in 1 .. Len(logged'.bytes) :
              SubSeq(logged'.bytes, i, Len(logged'.bytes)) = SubSeq(memory', length + 1, length')]_vars
=============================================================================
