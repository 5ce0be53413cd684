# A verification project for CLIProxyServer

CLIProxyServer is a SOCKS5 proxy in C for Linux: one thread runs an epoll loop
over non-blocking sockets, a second thread reads commands (`freeze`, `stop`)
from standard input. This directory holds TLA+ models of its parts, the TLC
configurations that check them on small instances, and proofs that TLAPS checks
for every instance. Paths such as `tunnel.c:335` are relative to `src/src/`,
headers to `src/src/include/`, `README.md:21` is the repository's own README.

To run a check: `tlc -workers 2 -config MCTunnel.cfg MCTunnel`; to check proofs:
`tlapm BufferProofs.tla` (likewise the other modules named `...Proofs` and
`...Lemmas`; `TunnelLemmas.tla` takes a few minutes).

## 1. The system

| component | state it keeps | operations | talks to |
|---|---|---|---|
| buffer (`buffer.c`) | array, `read_index`, `write_index`, `cap` | readfd, writefd, read, skip, write, concat, clear, expand | read(2), write(2); owned by a sock |
| sock (`sock.c`) | fd, state, two buffers, epoll interest, back pointer to the tunnel | create, epoll_add / del / modify, shutdown (half-close), force_shutdown, release | epoll; frees the tunnel with its last sock |
| SOCKS5 protocol (`protocol.c`) | `read_count` and the fields of the message at hand, in the tunnel | one handler each for greeting, USER/PASS, request | called by the read handler, appends replies through tunnel_write_client |
| tunnel (`tunnel.c`) | handshake state, the client's and the remote's sock | create, read and write handler, connect, connecting, connected (forwarding), notify, shutdown | called by the loop with a pointer kept in epoll |
| event loop (`server.c`) | listening fd, epoll fd, credentials, batch of events | accept, dispatch, SIGINT handler, start-up | kernel |
| terminal (`terminal.c`) | `freeze_flag` | freeze toggles it, stop raises SIGINT | a thread of its own; the flag is read by the tunnel |
| logger (`logger.c`) | file, level | message, extra message | called by both threads and by the signal handler |
| HTTP / WebSocket parser (`protocol_parser.c`) | none | look at bytes and log | called before forwarding |
| command line (`main.c`) | none | options, start-up order | all of the above |

How a byte travels: `epoll_wait` returns a batch of events; for each the loop
calls `tunnel_read_handle` if EPOLLIN is set and `tunnel_write_handle` only if
it is not. The read handler appends what read(2) gives to `read_buffer` and
calls the handler of the tunnel's state once. In `connected_state` that logs
`read_buffer`, moves it to the other sock's `write_buffer` and asks for EPOLLOUT
there, unless the proxy is frozen. The write handler writes a prefix of
`write_buffer` and asks for EPOLLOUT again only if something is left. End of
file, errors and a failed append lead to `sock_shutdown` (half-close: flush,
then release) or `sock_release`.

What is hard about it, and hard to test:

- **Framing.** TCP cuts the client's stream anywhere; `read_count` alone says
  where in a message a handler resumes, and no handler is called again for
  bytes already read.
- **Event order.** A batch holds events for several socks; the first may free
  what the second points to, and its memory may be a new sock by then. Success
  and failure of a connect are learnt through EPOLLIN or EPOLLOUT, whichever
  the loop looks at.
- **Wake-ups.** Output is sent only if some call asked for EPOLLOUT after it
  was appended; every append has to be paired with that call.
- **Closing.** Half-closes, resets, errors of write(2) and full buffers in any
  order, with bytes in four buffers; what is left must be forwarded once and
  everything must be released in the end.
- **One thread for all.** The resolver blocks it, and descriptors run out while
  clients wait to be accepted.
- **Two threads and a handler.** The flag and SIGINT change between any two
  steps; main, the terminal and the handler (on either thread, at the same time
  on both) log through one stream and one C library.
- **Numbers.** Unsigned index arithmetic; a size that doubles through an `int`;
  lengths of fields and frames; memory behind a buffer's contents.

`PROJECT.json` lists each hazard at its line with the properties for it.

What makes each part correct: the buffer is a FIFO of bytes and its indexes
never cross; the handshake never loses its place, dials what was asked and only
for those who may, and answers the greeting; a tunnel is a relay: it conserves
bytes in both directions, wakes for all its output, reports success only for a connection,
and is released when its peers are gone; the loop leaves nobody waiting for
ever and keeps tunnels apart; the process ends when asked, and its log says why
it ended; complete headers and frames are logged whole, and nothing stale for them.

## 2. The modules

| module | models |
|---|---|
| `ByteStream` | what a buffer promises: an append takes all or nothing, consumers get the oldest bytes |
| `Buffer`, `MCBuffer` | `buffer.c`, operation by operation, the loop of `buffer_write` iteration by iteration |
| `Handshake`, `MCHandshake` | `protocol.c` byte by byte, with the client and the server's credentials |
| `TunnelOps` | the functions of `tunnel.c` and `sock.c` as operators from a tunnel to the tunnel after the call |
| `Tunnel`, `MCTunnel` | one tunnel and every byte of it: the loop, the flag, the signal, two TCP connections |
| `Relay` | what a tunnel promises while it flows: two byte streams side by side |
| `Proxy`, `MCProxy` | several tunnels on one loop: accept, batches that mix tunnels, memory that is used again, the resolver, descriptors |
| `Process`, `MCProcess` | start-up, the two threads, SIGINT and what they log |
| `Parser`, `MCParser` | what is logged of the traffic, on real bytes |
| `BufferProofs`, `ProxyProofs`, `ProcessProofs` | theorems about `Buffer`, `Proxy` and `Process` |
| `HandshakeLemmas` | where the fields of a client's messages are in what it says, and what is left of it when a handler takes some |
| `HandshakeProofs` | theorems about `Handshake` |
| `TunnelLemmas` | the invariant of a tunnel and its bytes, and that every function of `TunnelOps` preserves it |
| `TunnelProofs` | theorems about `Tunnel`, with its refinement of `Relay` |
| `ParserProofs` | theorems about `Parser` |

The modules are layers of one system, each with the detail that its questions
need:

- `Buffer` has an array where the others have sequences. That a sequence with an
  all-or-nothing append is a right abstraction is the theorem `BufferIsByteStream`.
- `Handshake` has the bytes of the greeting and the request; `TunnelOps` has one
  token for each, which is right because nothing of a message is consumed twice
  or skipped (`StageAccounting`). USER/PASS is only in `Handshake`.
- `Tunnel` and `Proxy` share every operator of `TunnelOps`: `Tunnel` has the
  payload, partial writes and freezing, `Proxy` several tunnels and addresses.
- `Process` takes a dispatch of the loop as one step that logs; what it does is
  `Proxy`'s.

### Buffer

`data` is the array; a cell nobody wrote since `malloc` or `realloc` holds
`Garbage`. `Readable`, `Writable`, `Prependable` are the three size functions.
`pending` is the argument of a `buffer_write` whose loop is still running:
`WriteCall` enters it, `WriteFits`, `WriteSlides`, `WriteExpands`, `WriteFails`
are the four ways an iteration goes. `buffer_concat` is `buffer_write` of another
buffer's contents. `ReadfdInto`, `ReadfdExpanding`, `ReadfdNothing` and
`ReadfdFails` are `buffer_readfd` by what it finds; `Consume` is `buffer_read` and
`buffer_writefd`, `Skip` and `Clear` their namesakes. `NewCap` is the conversion
of `cap * 2` to an `int` of `IntMax` (`buffer.c:90`). `AllocMayFail` says whether
memory can run out. `taken` and `ret` are what the last call gave its caller.
The library functions malloc and realloc appear through `Garbage` and
`AllocMayFail`; `buffer_create` is `Init`, `buffer_release` ends the buffer with
the sock that owns it (`SockRelease` in `TunnelOps`).

### Handshake

A session is a server (with the credentials it was started with, or none) and a
`client`, a record with every field of the three messages, with faults of every
kind; `client.waits` says whether it waits for each reply or says everything at
once. `ReadHandle(n)` is one EPOLLIN that brings n of the bytes in the socket:
the append and the handler of the state, to its return; n = 0 is a read that was
interrupted or answered EAGAIN, after which the code runs the handler all the
same. The fields `op`, `ap`, `rp` and `read_count` are those of `tunnel_t` that
live from call to call. A handler that returns -1 ends in status `rejected` (or
`exhausted`, when the reply could not be queued), `assert(0)` in `aborted`.
`Dials` is `tunnel_connect_to_remote`, which fails, starts, or is done at once;
what becomes of the connection is `Tunnel`'s. `CString` is what `strcmp` and
`getaddrinfo` see of a byte array. The model stops a name that is longer than
its array at the array: `TypeOK` bounds `ulen` and `plen` by the limits the code
checks.

### TunnelOps and Tunnel

A tunnel is one record for the `tunnel_t`, both `sock_t`, their buffers and
their epoll interest. A function of the C code is an operator from such a record
to the record after the call, with a flag for a return of -1 and the reason if
the process went wrong; a dispatch applies them in the order of the calls and is
one action, since nothing else touches the tunnel while a handler runs. The
other actors are actions of their own, between any two dispatches: the peers
(`PeerSends`, `PeerEnds` with an end of stream or a reset, `PeerDrains`), the
network (`ConnectResolves`), the terminal (`ToggleFreeze`), the signal (`Stop`).
`EpollWait` takes every ready socket into `batch`, in either order and with the
handler the loop will choose; a dispatch later finds the state as it then is.
`setup`, chosen in `Init`, says who talks and what the operator may do. `fate`
records how the process ended: `exited`, `aborted` (an assertion), `crashed` (a
null pointer), `dangling` (a freed object was used); none of these is left again.

| C | TLA+ |
|---|---|
| `tunnel_create` | `Created` |
| `tunnel_read_handle` | `DispatchRead`, `ReadHandle`; `DispatchReadFails` for its `shutdown:` |
| `tunnel_write_handle` | `DispatchWrite`, `DispatchWriteFails`, `DispatchWriteNothing`, `WriteHandle`, `Rearmed` |
| `tunnel_connected_handle` | `ConnectedHandle`, `Forwarded` |
| `tunnel_connect_to_remote`, `tunnel_connecting_handle`, `tunnel_notify_connected` | `ConnectToRemote`, `ConnectingHandle`, `NotifyConnected` |
| `tunnel_write_client` | `WriteClient` |
| `sock_shutdown`, `tunnel_shutdown`, `sock_release` | `SockShutdown`, `TunnelShutdown`, `SockRelease` |
| `server_start` | `EpollWait`, `Dispatch`, `DispatchStale` |

`Relay` knows two queues and what was delivered from them, and three phases. The
mapping (`R` in `Tunnel`): the relay flows while both sockets are connected and
the tunnel is; what is on its way to a peer is its `write_buffer` followed by the
`read_buffer` of the other; a step queues for one peer, delivers to one peer, or
changes nothing a peer could tell (forwarding is such a stutter). `ImplementsRelay`
checks it for every step of `Tunnel`; it ends where a direction begins to close.

### Proxy

Per client: `stage` (away, in the listening queue, accepted, gone), `tunnel` (of
`TunnelOps`), `address` (where malloc put its two `sock_t`) and `net` (what the
client said, was told, and the state of both connections). An event is the
address in `epoll_event.data.ptr`, with the socket it was about; `Dispatching`
looks up who is at that address now. `Accept` and `AcceptFails` are
`accept_handle` with one accept(2) a call, `DispatchRequest` enters `getaddrinfo` and
`ResolverAnswers` leaves it: in between the thread does nothing (`Idle`), while
the network and the clients go on. A new `sock_t` may be put at any free address,
also one that an event of the current batch still carries. `strayed` remembers
whose tunnel has handled an event about another socket. A tunnel without sockets
is reset, since nothing refers to it.

### Process

`calls` is the stack of logging calls of each thread; the handler's call is put
on top of what it interrupted. A call goes `zone` (about to enter `localtime_r`),
`zoned` (inside, holding `zone`), `print`, `flush`: `LocaltimeBegins`,
`LocaltimeEnds`, `Prints`, `Flushes`. `pc` is where `main` is, from `log_init` to
the loop; `term` is the terminal's thread. `Interrupt` is SIGINT from outside: it
ends the process before `sigign` (`handled`), and otherwise runs `handle_signal`
on a thread that is not in it already, main first. `Raises` is `raise(SIGINT)` of
`stop`, on the terminal's own thread. `Flushes` of the handler's line is followed
by `exit`, which writes what the streams hold. `caught` remembers that a handler
was put on top of a `localtime_r`.

### Parser

`memory` is all of `read_buffer`'s array, `length` its contents: `buffer_clear`
resets indexes only, so that stale bytes follow the contents, and `strstr` knows
no length. `IsHttp`, `ToLog`, `HttpBytes` are `parse_and_log_http`; `IsWebSocket`,
`HeaderLength`, `RawLength`, `Payload` are `parse_and_log_websocket`; `DumpHex` is
the fallback. `Cut` is the array of `log_message` (1024 bytes, `logger.c:60`-63):
`LogMax` is what it has left behind the label of an HTTP entry, 985 bytes in the
code (one less for each digit beyond three of the length in that label); payloads and dumps always fit. `logged` holds what the last read logged and
the contents it was about. `Read` is one EPOLLIN, with the traffic frozen
(`length` keeps growing) or not (it is cleared after the forward).

## 3. What TLC checks

| run | question | result |
|---|---|---|
| `buffer` | is the buffer a FIFO, do its indexes stay in order, does an append return? | holds, 23,984 states |
| `handshake` | with and without credentials: can a cut of the stream make the server lose its place, dial another destination, let anybody in without the password, refuse a good client, leave a greeting unanswered, or not dial what a client that waits requests (domain names apart)? | holds, 2,841 states |
| `tunnel` | is a tunnel a relay: bytes conserved in both directions, a wake-up for all output, success only for a connection, nothing moved while frozen, no failed assertion for a client that waits, delivery, release? | holds, 170,082 states |
| `proxy` | while clients share the loop, the descriptors, the memory and the resolver: is everybody accepted, answered (unless refused or gone, or the process has ended), and told of success only for the own connection? | holds, 84,221 states |
| `process` | is what was logged in the log, does the log say why the process ended, does it end when asked (unless SIGINT came inside `localtime_r`)? | holds, 385,729 states |
| `parser` | are complete headers logged to their end or to that of the logger's array, and unmasked text frames with their payload and only when whole, whatever is left in the buffer from before? | holds, 616,842 states |
| `handshake_login` | is a login answered? | violated |
| `handshake_domain` | may a request with a domain name arrive in pieces? | violated |
| `tunnel_refused` | does a client learn that its CONNECT was refused? | violated |
| `tunnel_echo` | is what a client gets from the remote? | violated |
| `proxy_stray` | is an event handled by the socket it is about? | violated |
| `process_interrupt` | does SIGINT end the process? | violated |

Each property is stated, with the lines it is about, at the end of its module;
those of the violated runs are in a part of their own there. `PROJECT.json`
names for every property of a passing run a change of the code that breaks it.

### Bounds, and why they are enough

- `MCBuffer`: two byte values, chunks of up to three, capacity 1 doubling to 4
  and `IntMax` 7, so that one doubling and two in a row, the slide, both
  boundaries of every comparison and the overflow of the doubled size all happen.
  The number of operations is not bounded: the array is.
- `MCHandshake`: one client per behaviour, each saying everything at once and
  waiting for replies, every field at its smallest, its largest and one more;
  MAX_UNAME_LEN and MAX_PASSWD_LEN are 2 (20 in the code) so that the longest and
  the first too long name are two and three bytes. Addresses and ports have
  their real sizes. Every segmentation is explored. The theorems have no such
  bounds.
- `MCTunnel`: up to two bytes of payload each way and buffers of 3 tokens:
  enough for a buffer to fill while frozen, for partial writes, for a byte in
  each of the four buffers at once and for two bytes to be reordered. Two
  toggles are a freeze and a thaw. `MaxGot` bounds only the history of what was
  sent to a peer, at more than all there is to send. Three setups: a client
  that waits with an operator that toggles, one that does not wait with an
  IPv6 remote, and a proxy that may be stopped.
- `MCProxy`: two clients, so that one can be in the other's way. With two
  descriptors a client that has both keeps the other one in the queue, and two
  that have one each get no remote; with three, one of them gets it.
  Three addresses, so that a freed one can be given to the other client while
  another is free. Only `c2` may hang up or be reset (`Restless`): `c1` is the
  one that must be answered nevertheless. The theorems have no such bounds.
- `MCProcess`: two interrupts, so that the handler can be on both threads at
  once, on top of a logging call each. The theorems hold for any number.
- `MCParser`: a buffer of 9 bytes, in which the messages end, complete and
  overwrite one another. `LogMax` is 8, so that four letters and their blank line
  fit the logger's array and five are cut; `HexMax` (128 in the code) is 5, below
  and above what the buffer holds. The theorems have no such bounds.

Deadlock is checked for the buffer and the parser, which never stop. A handshake
whose client has nothing more to say, a released tunnel, a proxy whose clients
are served and a process that has ended stop for good reasons.

### Fairness

- `Buffer`: the loop of `buffer_write` goes on (it runs on its caller's thread).
- `Handshake`: epoll is level triggered, so bytes in the socket are read
  (`ReadSome`); nothing obliges the client to speak.
- `Tunnel`: the loop waits and dispatches, a connect in progress ends one way or
  the other (the kernel's own timeout), and a peer that is alive reads what it
  is sent.
- `Proxy`: the loop, and besides connects also the resolver, which has a timeout.
- `Process`: a thread inside a logging call goes on, and so does `raise`. The lock
  of `localtime_r` is a futex that does not starve its waiters: strong fairness
  of `LocaltimeBegins`. Nothing is assumed of the commands and of SIGINT.

No fairness is assumed of a peer sending, closing or resetting, of the operator
or of a signal: a liveness property that needs one has it in its premise.

About glibc the models assume: `exit` writes out every stream's buffer;
`signal` installs a handler that stays and blocks its signal on the thread that
runs it; `localtime_r` takes a process-wide lock that is not recursive.

### What the violated runs show

- `handshake_login`: `tunnel_auth_handle` returns after every field
  (`protocol.c:156`, 164, 174) although the next is already in `read_buffer`, and
  epoll reports nothing for bytes already read. A USER/PASS message that comes in
  one segment stops after its header; the client waits for ever. So does one that
  logs in with an empty name, however its message is cut: with a `ulen` of 0 the
  test for the name (`protocol.c:127`) holds again after the name was read.
- `handshake_domain`: the length byte of a name is consumed and counted
  (`protocol.c:287`) before the name is there; the next call finds `read_count`
  5, which is neither 0 nor 4, and asserts.
- `tunnel_refused`: a refused connect is reported with EPOLLIN too, which the
  loop looks at first; `read` fails, and only the remote's sock is closed
  (`tunnel.c:145`). The client gets no reply and its connection stays open.
- `tunnel_echo`: a client on its own takes the second branch of `sock_shutdown`
  (`sock.c:159`), whose target is the client: its own input comes back to it.
- `proxy_stray`: a handler that frees both wrappers of a tunnel leaves their
  later events in the batch. `server.c:102` reads freed memory then, or, when
  malloc has given the address to a sock accepted or connected since, runs
  the handler of another tunnel. Such an event can make that tunnel take a
  connect still in progress for a success, since `tunnel_connecting_handle` only
  looks at SO_ERROR: hence the premise `c \notin strayed` of `SuccessMeansConnected`.
- `process_interrupt`: the handler logs; if SIGINT interrupts a thread inside
  `localtime_r` (`logger.c:48`), the handler waits for a lock its own thread
  holds. The other thread then waits at its next line, so that `stop` hangs too.

### Also met while modelling

These follow from the same actions, or from reading the code for them; no run is
spent on them.

- A client that does not wait for replies trips an assertion: a request handled
  while the method reply is unsent leaves EPOLLOUT on for the client, and its
  payload raises EPOLLIN, both in `connecting_state` (`tunnel.c:175`, 249).
  `NeverAborts` is therefore about clients that wait.
- `sock_shutdown` appends to the other sock without `epoll_modify` (`sock.c:161`),
  so the last bytes of a peer that closes can stay unsent until that sock has
  another event: the exception in `OutputArmed`.
- EPOLLIN is re-armed on half-closed socks (`tunnel.c:259`, 338), so
  `sock_shutdown` runs again and appends `read_buffer` again, which it does not
  clear (`sock.c:157`): bytes held by a freeze can be forwarded twice. So can
  bytes that a full `write_buffer` has no room for, and those a client says
  before the connection is made. Hence the premise of `RemoteGetsPrefix` (no
  freezing, a client that waits, a payload that fits a buffer: its proof did not
  go through without the last part, and TLC found why), and `BytesConserved`
  speaks of a tunnel until a direction begins to close.
- Bytes the remote sends with the event that completes the connect stay in
  `read_buffer` until it sends more; so do bytes held by a freeze after the thaw
  (`tunnel.c:325`). Hence delivery is promised towards the remote, without
  freezing.
- The IPv6 branch of `tunnel_notify_connected` ignores failed writes and then
  logs `client_sock->fd`, null if the client has left (`tunnel.c:384`-397).
- `tunnel_connect_to_remote` looks at `errno` after a `LOG_INFO`, which may have
  changed it (`tunnel.c:524`).
- `handle_signal` exits at once: bytes in the tunnels' buffers are not sent,
  although `README.md:176` says that pending buffers are flushed. An extra
  message is printed to stdout as well as to the log, and only the log is
  flushed; stdout waits for `exit`.
- The lines of a multi-line message are printed one by one; two threads can mix
  them although `logger.c:66` wants to keep their structure.
- `strstr` in `parse_and_log_http` (`protocol_parser.c:27`) knows no length:
  headers whose blank line has not come yet are logged together with what earlier
  messages left behind them, or to a stale blank line, and a NUL ends them;
  `strstr` may even go past the array. `protocol_parser.c:28` says that without a
  blank line the whole buffer is logged (`OnlyTheContentsAreLogged` in `Parser`).
  `HeadersAreLogged` is about headers that are complete.
- Headers of more than 985 bytes are cut by `log_message` (`logger.c:60`-63);
  `README.md:25` says that HTTP headers are logged, and names no limit.
- Masked frames are logged, as they are on the wire, and a length of 126 or 127
  is taken literally, although `protocol_parser.h:17` and `protocol_parser.c:48`
  speak of frames without a mask (`OnlyUnmaskedFrames`). `FramesAreLogged` asks
  for neither.
- While the traffic is frozen each read is logged together with all that is held,
  and so only as far as the first blank line, the first frame or 128 bytes: what
  comes behind is never logged, although `README.md:109` and 171 say that logging
  goes on (`FrozenReadsAreLogged`).
  Each of the three named definitions is in `Parser`; TLC refutes it when it is
  added to `MCParser.cfg`.
- A server started with a name or password over 20 characters refuses the right
  credentials (`protocol.c:149`, 170), although it keeps up to 254.
- `README.md:23` promises no fixed-size limits; a buffer of 2^30 bytes cannot
  grow (`buffer.c:90`).

## 4. What is proved

### Buffer

`BufferProofs` holds, for every byte alphabet, set of chunks, initial capacity
and `int` width that satisfy `BufferAssumption`, and whether or not memory can
run out:

- `TypeCorrect`: `Spec => []TypeOK`, with the capacity in `1 .. IntMax`;
- `IndexesStayOrdered`: `Spec => []IndexesOrdered`;
- `NoGarbageIsReadable`: `Spec => []NoGarbageReadable`;
- `BufferIsByteStream`: `Spec => Stream!Spec`, where `Stream` is `ByteStream`
  with `queue <- Contents`.

None of the first three is inductive alone: that a consumer hands out bytes
(`taken \in Seq(Byte)`) needs `NoGarbageReadable`; that a slide stays inside the
array needs the order of the indexes; and that order survives a doubling only
because a `NewCap` that is not negative is larger than `cap`, which needs
`cap \in 1 .. IntMax` from `TypeOK` (lemma `DoublingGrows`: a doubled size that
leaves the `int` always comes out negative, never as a smaller capacity). The
inductive invariant `BufferInv` is their conjunction; `NextInv` proves it action
by action, on lemmas about the three ways the array changes (`FilledType`,
`GrownType`, `SlidType`). For the refinement, `AppendContents` says that filling
an array behind its contents appends to the contents, whichever array (the old
one, the slid one, the doubled one) it was; `ConsumeContents` that moving
`read_index` drops a prefix; `StepRefines` maps each action to a step of
`ByteStream` or to a stutter (a `WriteCall` and a doubling are stutters), under
`BufferInv`.

### Proxy

`ProxyProofs` holds for any finite sets of clients and of addresses, any number
of descriptors, every `BufMax` of at least 2, whether or not malloc can fail,
provided the two replies differ (`ProxyAssumption`, `TunnelOpsAssumption`):

- `TypeCorrect`: `Spec => []TypeOK`;
- `SuccessOnlyWhenConnected`: `Spec => []SuccessMeansConnected`.

Types alone are not inductive here: `told` stays below 3 only because replies
are counted. `Sound(t, k)` says of a tunnel whose client was given k replies
that these and the ones in its `write_buffer` are at most the number its state
allows (`Replies`: none before the greeting was read, two once connected), and
that the success reply is in the buffer only in `connected_state`. The lemmas of
the first half of the module show that every function of `TunnelOps` preserves
it, opens no socket of its own and leaves nothing of the handshake in
`read_buffer` (`Handled`), and how the state moves (`Proceeds`). For the system,
`ClientInv` ties the state of a tunnel to the two connections: none before the
request was handled, `up` when the tunnel is connected and no event strayed to
it. What makes that inductive is `EventsInv`: an event about a remote's socket
is about a connect that has ended, and stays so while the batch is worked off,
since ended connects do not come back (or their client has gone). So a
`connecting_state` left through the handler of the own event is left with a
connect that is up or refused, and SO_ERROR tells which. `EventsInv` also has the
one event of the listening socket with a client to accept behind it, and
`BacklogInv` that nobody is queued twice, so that `Accept` finds a client whose
tunnel is fresh. `Returned` is the step all dispatches share.

### Tunnel

`TunnelProofs` holds for every payload of the two peers, of any length, both
address families, every behaviour of `SetupType`, every `BufMax` of at least 2
and every `MaxGot` that is a number and leaves room for all there is to send
(`TunnelAssumption`, `TunnelOpsAssumption`). `BufMax >= 2` is needed for the two
replies, which are tokens there; the code creates a buffer with INIT_BUFF_CAP
bytes (`sock.c:76`). The theorems are

- `TypeCorrect`, `BytesAreConserved`, `OutputIsArmed`, `SuccessOnlyWhenConnected`,
  `AssertionsHold`, `RemoteIsSentPayload`: the invariants of the run `tunnel`;
- `FreezingHolds`: `Spec => FrozenHoldsTraffic`, an action property;
- `TunnelIsRelay`: `Spec => ImplementsRelay`, the refinement of `Relay`.

None of the invariants is inductive. `BytesConserved` says nothing before the
tunnel is connected, nor between two calls of one handler; the inductive
invariant `IInv` therefore has

- `Sound`, which holds of a tunnel also in the middle of a handler, in four
  parts: `Shape` (nothing is buffered for a socket that is gone, nothing for a
  remote before it is connected, a connected tunnel has a connection), `Opens`
  (before that, the client's `read_buffer` is what was read less the messages
  already handled, and the client was sent, or is about to be, the method reply
  at most), `Conserves` and `Armed`, which are `BytesConserved` and `OutputArmed`
  of a tunnel that is a parameter;
- `Calm`, between two handlers only: EPOLLOUT is on for the client during the
  handshake only for a reply that waits. With `BatchOK` (an event of the batch
  is for a connect that has ended, or for output that is still there) and the
  lockstep part of `KernelOK` (how much a waiting client may have said) it makes
  `NeverAborts` inductive;
- `Passed`, under `Gentle` (the premise of `RemoteGetsPrefix`): nothing of the
  client's stays in its `read_buffer` once the tunnel is connected, so that a
  half-close has nothing to send twice; from there on the remote has been sent,
  with what waits for it, exactly the payload that was read, and a prefix of it
  once it is gone.

TLC checked `IInv` on five setups with 691,008 states before it was proved.

The argument goes in three layers. `TunnelLemmas` takes each function of
`TunnelOps` in turn, from what it does to each field (`SockReleaseFields`,
`ForwardedFields`) to what it keeps of `Sound`, `Calm`, `Passed` and of the
sockets (`Narrow`: none is opened but the remote's), up to the two handlers
(`ReadHandleSound`, `WriteHandleSound`) and to what read(2) and write(2) do first
(`ReadInSound`, `HandedSound`). `Lengths`, `Regrouped` and `Split` are the facts
about sequences they share. `TunnelProofs` then has one lemma for each action
(`DispatchReadStep` and so on), all dispatches through `Dispatched`, and `StepInv`
collects them. For the action property and the refinement, `FlowingStep` says
all that a step between two flowing states can do to the bytes: some wait
(`Waiting`), some are forwarded (`Passing`), some are written (`Sending`), or
nothing moves (`Resting`). `FrozenStep` is immediate from it; `AcceptsStep` and
`DeliversStep` turn the cases into steps of `Relay`, where forwarding is a stutter
because `write_buffer` followed by `read_buffer` is the same before and after;
`StepRelay` adds the steps that begin and end the flow.

### Handshake

`HandshakeProofs` holds for every set of sessions: any credentials that fit the
arrays of the server, and any client of `ClientT`, whose fields have any values
(a wrong version, an unknown address type, an empty name, a login nobody asked
for) and whose length bytes are right (`HandshakeAssumption`); for any limits in
`1 .. 255`, and whether or not a reply can be queued:

- `TypeCorrect`: `Spec => []TypeOK`;
- `DialsOnlyAsAsked`: `Spec => []DialsAsAsked`;
- `GoodClientsAccepted`: `Spec => []AcceptsGoodClients`;
- `StagesAreAccounted`: `Spec => []StageAccounting`.

`StageAccounting` only counts, and only for clients that agree with the server
on whether there is a login. The inductive invariant says what the bytes are.
`Conversation` is all that the client says; `Placed` that `read_buffer` is what
it says from `Place` on, and the bytes in the socket what it says after that,
where `Place` is the extent of the messages completed plus `read_count`, whether
or not the two sides agree on what those messages are. So a handler that takes k
bytes and moves `read_count` or the state by as much keeps its place (`Stays`),
and what it finds at its place is the client's field (`HeardInLogin`,
`HeardInRequest`). `OpenFields`, `AuthFields` and `RequestFields` keep, for each
`read_count`, what was read of the message: the name taken is the client's name
once `read_count` is past it, the state `request_state` is reached with the
credentials shown. The cases where the two sides disagree are in them too: a
request taken for a login has its reserved byte 0 where the name begins, so that
the name is empty and no match (the `~client.auth` part of `AuthFields`, which
holds because a server with credentials has a name that is not empty); a login
taken for a request has the wrong version. A login whose name is empty stays in
its stage for ever, with `read_count` 2 (`UnameStep`). TLC checked `IInv` on the
sessions of the run `handshake` and a few more (3,160 states) before it was
proved.

`HandshakeLemmas` is about sequences: a piece of the buffer with the elements of
a field is that field (`PieceIs`), the places of the fields (`RequestBytes`), of
the messages (`ConversationBytes`), and what is ahead when some is taken or more
arrives (`AheadCut`, `AheadJoin`). `HandshakeProofs` then has a lemma for each
stage of each handler (`UnameStep`, `DomainStep`), one for each handler
(`OpenStep`, `AuthStep`, `RequestStep`) and one for each way to return
(`ShortStays`, `FieldTaken`, `RejectsEnds`, `DialsStep`).

### Process

`ProcessProofs` holds for any number of interrupts:

- `TypeCorrect`: `Spec => []TypeOK`, which includes that the thread in
  `localtime_r` is in a logging call;
- `ReturnedCallsWritten`: `Spec => []ReturnedCallsAreWritten`;
- `EndExplained`: `Spec => []EndIsExplained`.

A line that is printed can be flushed by another call, on another thread or by
the handler on the same one, before its own call flushes: `PrintedIsThere` says
that a call that has printed finds its line in the buffer or written, never
lost. `Opened` keeps the log open from `log_init` on, without which `Reached` has
no stream to speak of; `Fresh` says that nothing is logged and no handler
installed before it; `ReasonGiven` is what main owes before it may exit with a
failure. The proof goes action by action, with one lemma for each way a stack of
calls grows and shrinks (`SaysKeeps`, `CallKeeps`, `ReturnKeeps`).

### Parser

`ParserProofs` holds for every set of messages, any capacity and any limits of the
dump and of the logger (`ParserAssumption`):

- `TypeCorrect`: `Spec => []TypeOK`;
- `HeadersLogged`: `Spec => []HeadersAreLogged`;
- `FramesLogged`: `Spec => []FramesAreLogged`.

The invariants are about what the last read logged, so that every read has to
establish them from the memory alone, which may hold any bytes behind the
contents; together they are inductive as they stand (`IInv`). For HTTP
the proof follows `strstr`. `FirstBlankEnds` says that a blank line among the
contents that no NUL precedes is the first that `strstr` finds, whatever stands
behind it; `HttpParts` and `CutParts` that what is logged then is a prefix of the
memory, to the end of that line or of the logger's array, so that it is one of
the contents too (`HttpLogged`). For WebSocket, `LoggedFrame` says that a payload
is logged only from a frame within the contents, and `FrameIsLogged` that bytes
which form an unmasked text frame are not HTTP, are recognised, and give all of
their payload.

### Only model-checked

Liveness and the parts of it that speak of ENABLED (`WriteReturns`,
`GreetingIsAnswered`, `RequestIsDialled`, `GonePeersFreeTunnel`,
`ClientDataDelivered`, `QueuedAreAccepted`, `AcceptedAreAnswered`,
`StopsWhenAsked`), which the prover does not reach. Every invariant and every action property of the passing runs is
a theorem.

## 5. What is not modelled

- The command line beyond its order and exits: `getopt` and `strncpy` are
  replaced by a free choice of what they leave behind. `strncpy` without a
  terminator (`main.c:55`) is a fact about memory behind an array.
- Formatting: the wording of log lines, times, labels and levels; a message is
  one line. The 1024 bytes to which `vsnprintf` cuts a message are only in
  `Parser`, as `LogMax`. It follows one of the two directions, which differ in a
  label.
- The locks of stdio and of malloc, which the handler could also meet held, and
  `exit` on two threads at once, which is undefined; `Process` lets the first
  one win.
- USER/PASS in `Tunnel` and `Proxy`: those servers ask for no password.
- The success reply is one token: an append that fails between its three parts
  (`tunnel.c:366`-379) closes the tunnel like one that fails at the first.
- Payload in `Proxy`, several tunnels in `Tunnel`: what is about both (a stray
  event in the middle of forwarding) is in neither. A peer that sends without
  pause needs an endless stream.
- Clients of `Proxy` connect once and wait for each reply.

## 6. What could come next

1. A stream without end towards a peer that always has output waiting
   (`server.c:120`), with the payload as a counter.
2. Messages of several lines in `Process`.
