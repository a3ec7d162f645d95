# dubbo_ab: TLA+ models, checks and proofs

`dubbo_ab` is a command-line client for Dubbo services.  Without `-c` and `-n`
it sends one request and prints the response; with them it becomes a benchmark
that keeps up to `-c` requests under way on one connection until `-n` responses
have been counted.  The program is one process with one thread.  What makes it
hard is not parallelism inside it but everything around it: a kernel that
accepts and delivers any number of bytes, a server and a network that answer,
close and reset when they like, timers, and callbacks that close and reopen the
very descriptor whose event is being dispatched.

## Inventory

| Component | Source | State | Operations | Interacts through |
|---|---|---|---|---|
| Asynchronous client | `dubbo_client.c:15-548` | `run`, `connected`, `fd`, `pipe_left`, `req_left`, `ok_n`, `ko_n`, `timerid`, `rcv_buf`, `snd_buf` | `cli_connect`, `cli_connected`, `cli_pipe_send`, `cli_write`, `cli_on_connect`, `cli_on_write`, `cli_on_read`, `cli_connect_timeout`, `cli_reconnect`, `cli_close`, `cli_end` | callbacks registered with the event loop; system calls on `fd`; the codec |
| Event loop | `lib/ae/ae.c`, `ae_epoll.c` | `events[]` by descriptor, `fired[]`, list of timers, `maxfd`, `stop` | create and delete of file and time events, `aeProcessEvents`, `processTimeEvents`, `aeMain` | calls the callbacks, which change its state while it iterates |
| Buffer | `buffer.c` | `read_idx`, `write_idx`, `sz`, `p_sz`, `refcount`, `src`, `cache` | append, prepend, retrieve, make space, shrink, read-only views, `buf_readFd` | used by the client, the codec and the Hessian encoder |
| Packet codec | `dubbo_codec.c` | the next request id | `dubbo_encode`, `dubbo_decode`, `is_dubbo_pkt`, `is_completed_dubbo_pkt` | prepends headers to a buffer, decodes from a read-only view |
| Hessian encoding | `dubbo_hessian.c` | none | integers, strings, binaries in chunks, `utf8cpy`, `utf82ascii` | called by the codec |
| UTF-8 decoder | `lib/utf8_decode.c` | position in the input (global) | `utf8_decode_init`, `utf8_decode_next` | called by `utf82ascii` |
| Synchronous invocation | `dubbo_client.c:550-698`, `socket.c` | one buffer, one blocking socket | connect, send all, read until complete | system calls with timeouts |
| Start and exit | `dubbo.c`, `dubbo_client.c:216-249` | `g_cli` | option parsing, `exit_handler`, `sig_handler` | run `cli_end` from outside the loop |
| Sockets, addresses | `socket.c`, `sa.c` | none | wrappers of system calls | - |
| kqueue backend | `lib/ae/ae_kqueue.c` | one filter per descriptor and direction | the same | macOS only |
| cJSON | `lib/cJSON.*` | - | vendored: parse, print, compare, patch | rebuilds arguments, prints responses |

What must be true of each:

- *Asynchronous client*: never more than `-c` requests under way; every response
  counted once; the run ends, and exactly when `-n` have been counted; no byte of
  one connection reaches the next; no timer outlives the connect it guards; no
  callback runs on a client that is not in the state its assertion names; whatever
  fails, the client is woken again.
- *Event loop*: what the kernel watches is what is registered; `maxfd` is the
  largest registered descriptor; the list of timers survives callbacks that change
  it while it is walked; the loop sleeps past no timer and starves none.
- *Buffer*: a byte queue; indexes ordered and in the block; what a live view shows
  stays as it is.
- *Codec, Hessian, UTF-8, JSON strings*: what is encoded is decoded to the same
  value; nothing is read or written outside the buffer; every input is accepted or
  rejected in a bounded number of steps; what is allocated is freed, once.
- *Synchronous invocation*: it ends; what it prints is one whole packet; nothing is
  left open or allocated.
- *Start and exit*: a client that is ended is released once and not used
  afterwards, and the process ends, wherever a signal falls.

Where the code does not do that, the property says exactly which cases are left
out, and the section "What the models show of the code" lists them.

`PROJECT.json` lists 43 hazards, each at its line, with the properties that watch
it, or the reason why none does.

## The modules

| Module | What it is |
|---|---|
| `RequestWindow` | what `-c` and `-n` promise: requests are issued, counted or lost, at most `N` under way, the run over when `R` have been counted |
| `DubboClient` | the asynchronous client with one iteration of `aeProcessEvents`, the kernel's side of the connection and the server; implements `RequestWindow` |
| `EventLoop` | `ae.c` over epoll and over kqueue: several descriptors and timers, callbacks that change everything while the loop is in the middle of it |
| `ByteQueue` | what `buffer.h` promises: a queue of bytes |
| `Buffer` | the block, its indexes, growth, prepend space and read-only views; implements `ByteQueue` |
| `ByteOrder` | the integers of `buf_append/prepend/read/retrieveInt*` in every width and byte order |
| `Utf8` | `utf8_decode_next` on bytes, `utf82ascii`, and the encoder inside cJSON |
| `JsonText` | a JSON string literal through cJSON's parser and printer and `rebuild_json_args` |
| `Hessian` | integers and strings, encoder and decoder |
| `Conversions` | one call of any conversion at a time: what comes back (uses the four above) |
| `Codec` | a request encoded for one of its two callers, a response decoded, what is released of them and what is left, step by step (uses `Hessian`) |
| `SyncInvoke` | `dubbo_invoke_sync` with a server and a network, and its blocks on the heap |
| `Process` | `main`: the synchronous call, or the start and the end of a benchmark under signals (extends `SyncInvoke`) |
| `MC*` | constants of the TLC runs: environments, sizes, boundary values |
| `*_proofs` | the theorems about `DubboClient`, `EventLoop`, `Buffer`, `Hessian`, `Conversions`, `JsonText`, `Codec` and `Process` |

The whole program is not composed into one state machine.  Each module keeps the
control of one component and reduces its neighbours to what they can do to it:
`DubboClient` has a buffer as a number of units, `EventLoop` has callbacks that make
any sequence of calls, `Codec` has a packet as its lengths, `Process` has a client that
only closes, resets and releases.  What is assumed of a neighbour is what its own
module establishes: `ImplementsQueue` is why the buffers of `DubboClient` are counts,
`TimersLinked` and `InterestExact` are why its loop has one timer and two masks,
`IntsReadBack` is why header fields in `Codec` are plain numbers, `NothingAfterEnd` is
why `Process` needs no callback after `cli_end`.

A definition with a suffix (`ReleaseView_keeps_count`, `Send`'s
`ReadFails_without_timeout`) is a faulty variant of the definition that follows.  It is used by no action; each
property of a passing run fails when the right definition is replaced by one of them,
as `PROJECT.json` lists under "mutants".

### DubboClient: how it corresponds to the code

A step of the client is the code between two system calls, so the kernel and the
server may act between any two of them: between two `write` calls of the loop in
`cli_write`, between `close` and `connect` in a reconnection, between two turns of
`cli_pipe_send`.

- `phase` is the place in `aeMain`/`aeProcessEvents`: `poll`, the readable half
  (`read`), the writable half (`write`), `timers`; `init` is `cli_start` before
  `aeMain`; `ended` a finished run, `failed` a `main` that gave up after the first
  `cli_connect`, `aborted` a failed assertion.
- `pc` is the place in a callback: `connect` (`cli_connect`), `pipe` (the loop of
  `cli_pipe_send`), `flush` (`cli_write`), `reconnect` (`cli_reconnect`), `end`
  (`cli_end`).  `frame` says that a loop of `cli_pipe_send` is on the stack, which is
  what decides where `cli_write` and `cli_reconnect` return to.  A nested
  `cli_pipe_send` (a connect that succeeds at once inside the loop) empties the
  window, so that the outer loop ends with it: one flag is enough.
- `wproc` holds the single `wfileProc` of a descriptor: registering `cli_on_write`
  replaces `cli_on_connect`, as in `aeCreateFileEvent`.
- `fired` is the mask of `eventLoop->fired[j]`.  It outlives a reconnection made by
  the readable half, because the kernel hands out the descriptor number that was
  just closed.
- `sock`, `fin`, `outq`, `pend`, `resq`, `beats`, `inflight`, `kin` are the connection and the
  server: requests in the socket, requests at the server, packets on the way back
  and the bytes of them that have arrived.

Data is abstracted to units: a request is `ReqUnits` of them, a response `ResUnits`,
its header the first `HdrUnits`.  The kernel accepts and delivers any number of
units, so every partial write and read between the units is explored; the
buffers are numbers of units.  A response has a kind: `ok` and `fail` (the two
branches of `res->ok`), `bad` (`dubbo_decode` returns NULL), `badlen`
(`is_completed_dubbo_pkt` rejects the length), `heartbeat` (a request packet of the
server, which `decode_res_hdr` rejects with its body still in `rcv_buf`).  `buf_readFd` stores -1 in `*errno_`, so every
failed read takes the same branch of `cli_on_read`; and it can take 64 KiB beyond
the buffer, more than a window of the models, so a read drains the kernel's queue.
`EINTR` of `write` is a retry without any change and is left out.  A failing
`epoll_ctl` or `malloc` is left out.  Encoding a request does not fail: the
arguments are the same for every request and were parsed by `main`.
After `ConnectFails` the descriptor is closed or -1; what `aeDeleteFileEvent(el, -1)`
does with `events[-1]` is taken as nothing.

### EventLoop: how it corresponds to the code

`phase` is the place in `aeMain` (`main`), `aeApiPoll` (`sleep`), the loop over `fired[]`
(`files`) and `processTimeEvents` (`timers`); `outside` is the program before and after
`aeMain`.  A callback (`cb`) is not a function with a body: while it runs, any call of the API
may be made, any number of times (`Call`), then it returns (`FileReturns`,
`TimerReturns`).  So every callback there is, and every one somebody may add, is a
behaviour of the model, with one exception: `aeResizeSetSize` is called by timers and outside
`aeMain`, not by file callbacks.  There the loop holds a pointer into `events[]`, which the
call reallocates, and what it then reads is undefined; nothing in the repository calls it.

- `events`, `maxfd`, `setsize` are the fields of `aeEventLoop`; `interest` is what the kernel
  watches.  `Accepts`, `WithInterest` and `WithoutInterest` are the two backends: epoll takes
  the merged mask with ADD or MOD, kqueue adds and deletes single filters.
- `fired` is the set of entries not dealt with yet, because the kernel may
  report them in any order; epoll reports a descriptor once, and may add `AE_WRITABLE`
  for an error; kqueue reports one entry per filter.
- `timers` is the allocated `aeTimeEvent`s by creation number, with the list in `next` and
  `head`; a deleted timer keeps its place until `processTimeEvents` unlinks it (`RemoveTimer`).
  `te`, `prev` and `maxId` are the local variables of the walk.
- The clock counts ticks, `MsPerSec` of which are a second; times are pairs of second and
  millisecond, added and compared as the code does.  `SetClock` sets the clock back between any
  two steps; `left` is what remains of the kernel's timeout, which it does not shorten.

`finalizerProc` is always NULL in this program and `aeProcessEvents` is always called with
`AE_ALL_EVENTS`; `aeWait`, `beforesleep` and the variants of the flags are left out.  A failing
`epoll_ctl`, `kevent` or `malloc` is left out.

### Buffer: how it corresponds to the code

`buf` is `struct buffer` with its block `mem`; `view` holds the read-only views, which share the
block: `base` is where a view's byte 0 lies in it.  An action is a call a caller may make: the
assertions a function opens with are guards, and nothing else is but one rule that
callers keep although nothing asserts it (no room is asked for after a header was prepended below
`p_sz`, `MayEnsure`).  So `buf_prepend` and `buf_has_written` write a locked buffer, as they do in the
code.  The assertions inside functions, which no caller can see, set `failed`.  `buf_shrink` swaps the
block and leaves the indexes, and `buf_setReadIndex` takes any index: when the indexes no longer
delimit the readable bytes, `displaced` says so and the model goes no further, because what the code
then reads lies anywhere.  Nothing in the program calls the two so.
`MustGrow` subtracts in `size_t`
(`SizeMod`).  `Datas` are the byte sequences written, `Extra` the second vector of
`buf_readFd`.  A released view is `cached` by its source, or freed; a view that was cached by a
view that is reused is `lost` (a leak the code has).  Functions that only look
(`buf_find*`, `buf_peek*`) change nothing; their results are `Content`, and the integers are
in `ByteOrder`.

### ByteOrder, Utf8, JsonText, Hessian, Conversions

Pure functions.  `Conversions` has one variable, `call`: the last call, its argument and its
result, so that a property relates what went in to what came out.  Widths are real (one,
two, four bytes; eight as two halves of four), integers wrap where C does.  A string of the Hessian
encoding is known by its numbers of ASCII and of wide characters and by the first byte of
the wide ones, because that byte is all `utf8cpy` looks at.  `Utf8` and `JsonText`
work on bytes.  `Failed` is an error return, `Beyond` a copy past the end of the
input, `Never` a call that does not return.  What is UTF-8 is not taken from the code:
`CharAt` and `Utf8Text` are the well-formed byte sequences of the Unicode standard
(its table 3-7), against which `ArgsKept` measures the decoder of the code.

### Codec: how it corresponds to the code

`pc` is the function that runs next, `op` the caller: the benchmark (`async`), the synchronous call
(`sync`), or the decoding of a response.  Encoding goes through the nine fields of a generic call in
their order (`Fields`); `body` is the room and the bytes written of the 8192-byte buffer, `heap`
the blocks allocated, `twice` a double free.  Arguments may be no JSON (`NoJson`) or no UTF-8
(`Failed`); only the second leaves the array of `rebuild_json_args` behind.  The callers are
`cli_send_req`, which frees the packet and forgets the request, and the end of `dubbo_invoke_sync`, which
releases both (`dubbo_req_release`), or neither when the answer does not decode (`returned`).  A
request that is refused ends the benchmark in `PANIC` (`panicked`).  A response is its header fields
and either a text or its chunks `<<tag, length>>`; `data` is `res->data` with the `left` and the
capacity that `hs_decode_binary` keeps.  `aborted` is a failed assertion and `crashed` a copy of a
negative length or an endless recursion; both end the process.  What one call leaves allocated is
forgotten at the next (`NextCall`): it is out of reach.  What the callers do with the value of a response is
left out here; the text that the synchronous call makes of it is in `SyncInvoke`.

### SyncInvoke and Process: how they correspond to the code

In `SyncInvoke` bytes are counted.  `at` is the place in `dubbo_invoke_sync`; the server's answer
has a header, a body, a `kind` (rejected in its header, undecodable, JSON, or another value or
none), and a `surplus` of bytes that follow it; `heap` names the blocks of the request, the buffer,
and what decoding and printing leave (`LeftByAnswer`); `coming`
and `arrived` are the bytes it has still to send and those in the receive queue.  The
network delivers any part, closes, or resets; a blocking `send` or `read` may time out.

In `Process` (mode `bench`) `stack` is the stack of functions, each with the place where it goes
on, so that a signal handler runs on top of whatever it interrupted, `cli_end` itself
included, and `exit` cuts the stack.  `bad` collects every use of the client, the loop or
the descriptor that is wrong, with what had happened before.  A first `cli_connect` may fail and yet
return true, after a reconnection inside `cli_pipe_send` that failed: then `main` enters `aeMain`
without a descriptor (`Started`).  A signal arrives between any
two steps; the same signal is blocked while its handler runs.  What the callbacks
of the loop do is reduced to the two calls that matter here (`Callback`).

## Runs

| Run | Question | Bounds |
|---|---|---|
| `client_faults` | is every safety property kept, and `RequestWindow` implemented, when any two faults happen: connect failures, refusals, late timers, closes, resets, heartbeats, undecodable answers? | window 2, 3 requests, requests of 2 and responses of 3 units (header 2), a socket of 3 units: the third request must be refilled, a write and a read can stop inside a packet, a header can be split, and a fault can hit the recovery from another |
| `client_closing` | does a run with one request under way end, with every response counted, when the server closes, timers fire late and connects fail at once? Does the client leave a healthy connection alone? | window 1, 3 requests, 3 faults: every request can be lost once; headers of one unit, which no read can split |
| `event_loop` | does the loop survive everything its callbacks may do to it, with a clock that is set back? | 3 descriptors, 2 functions, both backends, 2 ticks a second, delays of 0 and 3 (a carry, and less than two seconds); budgets: 3 file calls, or 3 timers, or 2 timers and one clock step, or one of each. Three timers give the walk a predecessor, a node to unlink and a successor; three file calls register, drop and recycle a descriptor that is in `fired[]` |
| `buffer` | is the buffer a byte queue, and what may disturb a view? | blocks of at most 4 bytes, two values of a byte, one byte of extra vector, 2 views, header room of 1 and of 2 in front of a smaller buffer: every branch of `buf_makeSpace` and of the release of a view is taken, with a view of a view |
| `conversions` | what comes back? | both sides of every boundary in the code (byte widths, Hessian forms, 31/32, 1023/1024, 32768, 65535 characters), every sequence of at most 4 edge bytes, every pair of pieces of a JSON string (raw, escaped, surrogate, broken) |
| `codec` | which requests and responses come out how, and what is left? | real sizes: bodies of 8191 to 8193 bytes, arguments of 65536 and 65537, texts of 0 and 65536 characters, chunks of 0 to 32768 bytes in up to four chunks, type bytes on both sides of 0x80, 0x90, 0x92 and 0xbf, arguments that are refused, with and without attachment, both callers, three calls of request ids around the one skipped |
| `process` | what is released, and does the process end? | sync: header 2, bodies 1 and 3, surplus 0, 1 and 4 (less and more than a packet); bench: both signals, three deliveries, so that a handler interrupts a handler and `exit` |
| `buffer_locked` | "only read and not written" of `buffer.h` (violated) | the sizes of `buffer` |
| `client_refused` | `assert(cli->connected)` of `cli_on_write` (violated) | window 1, one refusal |
| `client_reset` | "we check if the event is still valid" of `ae.c` (violated) | window 1, one reset |
| `client_coalesced` | does a run with `-c2` and no fault end? (violated) | window 2, 2 requests |
| `codec_chunks` | the grammar above `hs_decode_binary` (violated) | one chunk of about the size a Java server cuts, then a last one in each form |

States: `client_faults` 1.2 million, `buffer` 0.8 million, `event_loop` 0.5 million,
`codec` 0.3 million, `process` 0.2 million, the others at most 0.1 million.  In `DubboClient` all counters are bounded by `PipeN`, `ReqN` and the
sizes, and `MaxFaults` bounds the faults of a behaviour (`budget`).  `EventLoop` is bounded by
`Budgets` (`file`, `timer`, `skew`, and `until`, the last time), `Buffer` by `MaxSz`, `Codec` by
the given packets and `MaxReqId`, `Process` by `MaxSignals`.  Nothing else is capped.
No symmetry is used.

Deadlock is checked in `conversions`, where a call always returns.  It is not checked
where the system may really stop or the bounds stop it: in `client_faults` and
`client_closing` a reconnection that cannot start leaves the program asleep for ever
(`dubbo_client.c:277`), and in the second `CompletesOrStrands` says that nothing else does;
runs with a window of more than one stop as described in 3 below; `event_loop` ends when
its budgets are used up; in `buffer` the buffer may be released or full; in `codec` a
failed assertion ends the process; in `process` the process ends.

## What the models show of the code

The five violated runs:

1. `client_refused`: `cli_on_connect` never looks at the outcome of the handshake.
   After a refusal the first `write` fails inside `cli_pipe_send`; `cli_send_req`
   reconnects; the loop then writes to the connecting socket, gets `EAGAIN` and
   replaces `cli_on_connect` by `cli_on_write`.  When the handshake completes, the
   assertion of `cli_on_write` aborts the program.
2. `client_reset`: a reset is reported as readable and writable.  The readable half
   reconnects; the writable half finds `AE_WRITABLE` registered again, on the new
   connection with the old number, and calls `cli_on_connect` for a handshake that
   has not completed.
3. `client_coalesced`: two responses in one read make `remaining` negative, which
   `cli_on_read` treats as incomplete.  With the window used up, nothing more ever
   happens.
4. `codec_chunks`: after a non-final chunk `hs_decode_binary` asserts that the last one has
   the tag `B`.  The grammar it quotes lets it be compact: a value whose last chunk is
   shorter than 1024 bytes ends the process.
5. `buffer_locked`: a buffer with a live view is to be read and not written, but `buf_prepend` and
   `buf_has_written` do not look at the count.  Once the viewed bytes were read, what they
   write lands where the view still looks.

Beside these, properties that hold say exactly where the code is not what one would expect:

- `EncodeExact`: a request whose body is one byte too long for 8192 ends the process, although
  `hs_encode_binary` has made the buffer grow, and arguments of more than one chunk never
  become a packet.
- `HeapExact`: the benchmark leaves all of every request allocated, the synchronous call its two
  strings and the rebuilt array, and the request as well when it was refused or the answer does not decode;
  every undecodable response leaves its description; the text of an empty response is freed
  twice.
- `DecodeExact`: a chunk of 32768 bytes is a negative length; a text of more than 65535 characters
  recurses without end.
- `IntsReadBack`: the Hessian integers from -2248 to -2049 come back as 47.
- `StringsReadBack`: strings are sent with their length in bytes and read with their length
  in characters, so only ASCII survives; the arguments are, since `utf82ascii` escapes them
  (`ArgsKept`), but a service or a method name need not be.
- `SyncExact`, `Ends`: every return of the synchronous call leaves blocks behind, the text of
  `cJSON_Print` among them, and the open socket when the response does not decode; it spins for ever when
  the server closes inside a packet, or after a surplus.
- `HandshakeTimed`: inside `cli_pipe_send` a write may delete the event of `cli_on_connect`
  while the handshake is being answered; only the connect timer then brings the client back.
- `CompletesOrStrands`: a reconnection that cannot start leaves the client asleep for ever.
- `ViewsKept`: which bytes the two unlocked writes can damage.
- `ShutdownExact`: when the first connection fails, `main` deletes the loop and the exit handler
  then uses it; a signal inside `cli_close` makes the handler close a descriptor again.

## Properties

### DubboClient

Type correctness apart (`TypeOK`, which includes that `pipe_left` never leaves the
window although `cli_on_read` increments it blindly):

- `OneConnectTimer`, `HandshakeTimed`: the connect timer exists when it must and not
  when it must not, under every combination of faults.
- `ReaderConnected`, `NeverAborts`: the assertions at the heads of `cli_on_read` and
  `cli_on_write`.
- `WindowKept`: conservation of the credits of the window over `pipe_left`, `snd_buf`,
  the socket, the server and the responses under way.
- `Framed`: conservation of packet boundaries on both streams.
- `Accounted`: REQ of the summary is SUCC plus FAIL when every packet is decodable.
- `NothingAfterEnd`: after `cli_end` has freed the client nothing refers to it.
- `SocketWatched`: a client that owns a socket is woken by something.
- `WritableNeeded`: a writable event stays registered only while `snd_buf` holds
  something, so the level-triggered loop does not spin; it also shows that the early
  return of `cli_write` for an empty `snd_buf` is never taken, which is why no action
  models it.
- `ImplementsWindow`: refinement of `RequestWindow` (`under` is `PipeN - pipe_left`,
  `left` is `req_left`, `over` is `~run`).
- `NeverReconnects`: before the first fault the client does not drop its connection (for headers
  that arrive whole).
- `CompletesOrStrands`: the run ends with every request answered, except after a connect that
  fails at once: then the client is asleep without a socket, or gave up at the start.
  `Completes`, without the exception, is what `client_coalesced` refutes.

### EventLoop

- `MaxfdExact`, `InterestExact`: `maxfd` and the kernel agree with `events[]` after any
  registration, deletion, close, reuse and resize.  The second is why EPOLL_CTL_ADD and MOD, chosen
  by the loop's own mask, never fail.
- `TimersLinked`, `WalkSafe`: the list of timers is complete, and the walk stands on allocated
  ones, while callbacks add and delete.
- `CheckUseless`: the comment that calls a check useless is right.
- `NoOversleep`: the timeout, computed from seconds and milliseconds apart, passes no timer.
- `TimerServed`: no timer starves.

### Buffer

- `ImplementsQueue`: refinement of `ByteQueue` (`queue` is `Content(buf)`), up to a call that displaces
  the indexes.
- `NeverFails`: the inner assertions.
- `LocksExact`, `CacheExact`: the count that locks a buffer is the number of its live views; what
  is cached is released, and by one source only.
- `ViewsKept` (action property): what a live view shows of unread bytes never changes, and of read
  ones only by the two writes that ignore the lock.  `ViewsStable`, what `buffer.h` says, has no such
  exception and is violated.

### Conversions

`IntsReadBack`, `StringsReadBack`, `DecoderStrict`, `ArgsKept`: each says for which inputs the inverse
function gives the input back, and what comes back otherwise.

### Codec

- `EncodeExact`, `DecodeExact`: exactly which requests and responses succeed, fail, abort, crash, and
  that a response holds every byte the server put into it.
- `NoOverrun`: the growing block of a chunked value has room for the next chunk and the zero.
- `HeapExact`: what is allocated when a call is over, for each caller and each outcome.

### Process

- `SyncExact`: what is printed is one whole packet; what a return leaves behind.
- `ShutdownExact`: the client is released once and not used afterwards; when the loop and the
  descriptor are used wrongly.
- `Ends`: the synchronous call returns unless it spins; an ended benchmark lets the
  process end.

Each module has one `TypeOK`; `Conversions` and `Process` have none, because their other properties
determine the types.

## Fairness

`DubboClient`: `FairSpec` assumes weak fairness of the client (it is a running process: whenever it
is not blocked in `epoll_wait` it goes on), of the handshake and delivery by the
network, and of a server that reads requests and answers them.  None is assumed of
faults, and `budget` makes them finite: a server that closes for ever lets no client
finish.  `CompletesOrStrands` is claimed for a window of one request, where two responses can
never meet in one read; `client_coalesced` shows that a run may not end with two.

`EventLoop`: weak fairness of the loop's own steps (a process that is not blocked goes on), of the
return of callbacks (they are part of those steps: `FileReturns`, `TimerReturns`), and of time.
Nothing is assumed of the calls callbacks make, of the kernel reporting descriptors, or of the clock
being set; `aeApiPoll` must return when its timeout has passed.

`Process`: weak fairness of the process in each mode.  In the synchronous mode a blocking
call that nobody answers ends with its `SO_RCVTIMEO` or `SO_SNDTIMEO`, which is why the step
that gives up needs no network.  Nothing is assumed of the server, of signals or of
callbacks.

## What is proved

The theorems hold for all values of the constants that satisfy the named assumptions; TLC
evaluates these in the runs.

`DubboClient_proofs`, under `SizesAssumption` (positive sizes, the window at most the run, a request
fits the socket, a header is shorter than a response) and `EnvironmentAssumption` (kinds and
faults are among the modelled ones):

| Theorem | Statement |
|---|---|
| `ControlInvariant` | `Spec => []ControlInv` |
| `TypeCorrect`, `TimerSafe`, `ReaderSafe`, `EndSafe` | `TypeOK`, `OneConnectTimer`, `ReaderConnected`, `NothingAfterEnd` are invariants |
| `WindowImplemented` | `Spec => ImplementsWindow` |
| `WindowInvariant`, `FramingInvariant` | `WindowKept`, `Framed` are invariants |
| `HandshakeIsTimed`, `SocketIsWatched` | `HandshakeTimed`, `SocketWatched` are invariants |
| `WritableIsNeeded`, `ResponsesAccounted` | `WritableNeeded`, `Accounted` are invariants |
| `AssertHolds`, `AssertHoldsForOne` | `NeverAborts` is an invariant where `WritesAccepted`, or where `OneSlot` |
| `KeepsConnection` | `NeverReconnects` is an invariant where `Undisturbed` |

The last three do not hold in general (see `client_refused` and `client_faults`) and name the environment they need.
`WritesAccepted` excludes refusals, resets and closes by the server, but neither timeouts, failed
connects, heartbeats nor packets the client rejects: `Writing` then says that a client which fills
its window is connected and stays so, since only a failing write leaves `cli_pipe_send` for a
reconnection.  `OneSlot` is a window of one request without refusals and injected resets, in which the
server may close and a write to it may reset the connection: `SlotInv` follows the one slot (open, in the
request stream, at the server, or in the response stream) and says that nothing is outstanding when
`cli_pipe_send` writes, so no reset can come between its loop and its `write`.  With two
requests the first may provoke the reset that fails the second.  `Undisturbed` allows no fault and no header that is cut by a read: `Smooth` adds
that the events `aeApiPoll` has reported are still true when `aeProcessEvents` comes to them.

The argument.  None of the properties is inductive.  That `pipe_left` stays in its
range after `pipe_left++` needs that it is 0 whenever `cli_on_read` runs
(`WindowUsed`: between callbacks a connected client has used its whole window), which
in turn needs the shape of the control flow (`Control`: a loop of `cli_pipe_send` is on
the stack only inside a callback, and ends only at 0).  That the run ends exactly at
`-n` needs `Unfinished` (a run that goes on has requests left to count).  That
`cli_connect` starts from a clean slate is `FreshConnect`, and that a complete packet
in `rcv_buf` means that there was one to take off the queue is `NothingUnsent`, which holds until
the client gives a connection up, since a heartbeat leaves its body in `rcv_buf` then.
`ControlInv` is the conjunction of these with the types and the four properties about
timer, registrations, writable event and end.  On top of it `WindowKept` is inductive; `Framed`
needs `Aligned`, which covers the connecting socket too, and says that the request
stream is a multiple of a request; `HandshakeTimed` is inductive on top of it, and `SocketWatched`
follows from both; `Accounted` needs `OnlyAnswers` (only decodable packets are on
their way).  The refinement maps `PipeTurn` to `Issue`, `ReadResponse` to `Count`,
`Reconnect` to `Lose`, `End` to `Finish`, and every other action to a stutter.

`EventLoop_proofs`, under `LoopAssumption`, for any number of descriptors, timers, delays and
budgets:

| Theorem | Statement |
|---|---|
| `FilesAgree` | `Spec => []FileInv`, with `MaxfdCorrect` and `InterestCorrect` for its parts |
| `AddNeverRefused` | the backend never refuses to add an event inside `setsize` |
| `TimersSafe` | `Spec => []TimerInv`, with `LinksCorrect`, `WalkCorrect` and `CheckIsUseless` for its parts |
| `SleepCorrect`, `TypesCorrect` | `NoOversleep` and `TypeOK` are invariants |

`FileInv` is the types of the file events with `MaxfdExact` and `InterestExact`: neither is
inductive alone, since a deletion scans downwards from a correct `maxfd`, and a close makes the kernel
forget what the loop forgot.  `MaxOf` is a CHOOSE; that a finite set of integers has the
element it names comes from the well-foundedness of the naturals (`NatLessThanWellFounded`), applied
to the distance to the bound.  `TimerInv` needs the list in a form that survives the removal of its middle
(`Linked`: `next` is the greatest smaller number there is), and the control facts about
the walk: a timer created while it runs has a number above `maxId`, so the walk,
which only descends, never meets it.  `NoOversleep` rests on lemmas that addition with
one carry and the field-wise comparison are addition and comparison of ticks, for every
`MsPerSec`.

`Buffer_proofs`, under `BufferAssumption`:

| Theorem | Statement |
|---|---|
| `BlockAlways` | `Spec => []BlockInv`; `AssertionsHold`, `OrderCorrect` for its parts |
| `BufferIsQueue` | `Spec => ImplementsQueue` |
| `ViewsAlways` | `[](BlockInv /\ LockInv)`; `LocksCorrect`, `CacheCorrect`, `BufferTypes` for its parts |
| `ViewsKeep` | `Spec => ViewsKept` |

`BlockInv` says that the buffer is well formed and no assertion has failed.  Each call is first
shown to do something to `Content(buf)` (lemmas about `Stored`, `Put`, `buf_makeSpace` and
`Retrieved`), then mapped to a step of `ByteQueue`; after a step that displaces the indexes nothing is
claimed.  `LockInv` counts live views (`CountsAre`), says
who is cached where (`CachesAre`), and `Rooted` that a chain of sources ends at the buffer: there is
a rank that grows from a source to its view.  It is what makes a live view imply a lock on
the buffer itself, which the lock check of a write looks at: without it two views could keep each other alive.

`Conversions_proofs`, under `ConversionsAssumption`, for integers, texts and byte sequences of any size:
`IntegersReadBack`, `TextsReadBack`, `DecodesStrictly` (the properties of the run), and
`CharactersRoundTrip` (each character through cJSON's encoder and the strict decoder).  They rest on
the arithmetic of the byte decompositions, done once per width.

`JsonText_proofs`, also under `ConversionsAssumption`, for literals of any length and any bytes:

| Theorem | Statement |
|---|---|
| `TextRebuilt` | for every sequence of bytes: printed, rewritten in ASCII and parsed it is what it was, or it is refused because it is not UTF-8 |
| `ArgumentsRebuilt` | the same for the text a literal stands for, up to its first zero |
| `ArgumentsKept` | `Spec => []ArgsKept` |

The parser, the search for the closing quote, the printer and `utf82ascii` are functions of an index,
each defined by its value at greater ones.  `Recursion` shows that such a definition is one of a
function, from the least index at which none exists; after it each is known by its step (`AsciiLaw`, `PrintLaw`,
`ClosingLaw`, `ParseLaw`), and looks at nothing in front of its index (`AsciiShift`, `PrintShift`,
`ClosingShift`, `ParseShift`).  So a text can be taken apart one character at a time: `TableDecoded` has
the decoder accept what table 3-7 lists and nothing else; a byte of ASCII is printed as bytes of ASCII
that are parsed back to it (`ParseOfPrinted`), a longer character is printed as it is and rewritten
as one escape or a pair, which are parsed back to it (`ParseOfChar`); where no character
starts in the text none starts in what is printed of it (`PrintedWide`).  `TextRebuilt` puts these together from the
shortest text for which it fails.

`Hessian_proofs`, under `HessianAssumption` (the three outcomes that are no value differ from each other
and from all values), holds what `Conversions` and `Codec` share: how many bytes and characters the
loop of `utf8cpy` copies, and `PeerTextDecoded`, what the decoder makes of any text the server sends.

`Codec_proofs`, under `CodecAssumption`, for requests with strings and arguments of any length and for
responses with texts of any length and values of any number of chunks:

| Theorem | Statement |
|---|---|
| `CodecInvariant` | `Spec => []CodecInv` |
| `EncodesExactly`, `DecodesExactly` | `EncodeExact`, `DecodeExact` are invariants |
| `NeverOverruns`, `HeapAccounted`, `CodecTypes` | `NoOverrun`, `HeapExact`, `TypeOK` are invariants |

`CodecAssumption` is the shape of the input: lengths are natural numbers, the last chunk of a value is the only
final one, and a chunk is no longer than its form can say, which is the grammar quoted above
`hs_decode_binary`.  The five properties speak of the end of a call; `CodecInv` says what holds in the
middle.  `Filled`: the buffer holds the sum of the fields before the next one, and has more
than its 8192 bytes only behind the arguments, and then no room, so that the one byte that follows
ends the process.  `Growing`: the block holds the sum of the chunks before the next one, which
exists, and `data.sz + data.left < data.cap`; a chunk keeps the sum of the first two and `GrowData` makes room
for any length that two bytes can announce.  `Stored` is what has come of it when the value is complete.  The heap is named at
every place, which makes each `free` one of a block that is allocated (`FreedOnce`), but for
`res->data` of an empty text.  A sum is `FoldLeft`, a recursive function on sets of indexes: `SumsExist` and
`SumLaws` show that it exists and grows by one element at a time, each from the least counterexample, which
the well-foundedness of the naturals provides (`Least`).

`Process_proofs`, under `SyncAssumption`: `SyncCorrect`, `Spec => []SyncExact`, from `SyncInv`, which ties
`remaining` to the bytes received from the first read on, and the heap and the socket to the place
in the function.

`ShutdownCorrect`, `Spec => []ShutdownExact`, for any set of signals, any number of them and any nesting of their
handlers.  `EndInv` first gives the stack its `Shape`: `main` at the bottom, each frame on top of one
that calls it (`May`), a handler anywhere.  On that rest: before the client is set a signal finds nothing to
end (`StartInv`); once the loop is stopped, only `cli_release` and handlers that return
are above it (`StopInv`); once the client is freed, each function of it still on the stack lies
below a handler that will call `exit` and so never goes on (`FreedInv`); and after a start, without a
signal, what closes the descriptor finds it open (`CalmInv`).  `ClientGoesOn`, `EntersClient` and
`MainGoesOn` carry these over the three kinds of steps; each function of the code is then one lemma.

Only model-checked: liveness, that is `CompletesOrStrands`, `TimerServed` and `Ends`.

## Not modelled

- The rest of cJSON (vendored): numbers, arrays, objects, comparison, patching, printing
  of anything but strings.
- Option parsing and usage (`dubbo.c`), printing and logging: formatting without state.
- The server and UDP helpers and `socket_recvAllSync` of `socket.c`, `utf8len`, `hs_decode_null` and
  `aeWait`: nothing calls them.  `sa.c`: formats and resolves addresses, one blocking call
  at start.
- A failing `malloc`, `epoll_ctl` or `kevent`, and `EINTR` of `write`, which is a retry
  without any change.
- The lock of the heap: a signal that falls inside `malloc` and calls `free` may hang or corrupt it.  In
  `Process` a signal falls between two steps, and each step is whole.
- The exit status, which is 1 for every synchronous call: nothing in the repository says what it means.
- Attachments of a request and of a response: sent as null, never read; the block of the former is
  in `Codec`.
- What `aeResizeSetSize` in a file callback, `buf_shrink` of a buffer not read from `p_sz` on, and a read
  index behind the write index lead to: the code then reads freed memory or any bytes, and
  nothing in the program does it.

## Running

    tlasany DubboClient.tla
    tlc -workers 2 -config client_faults.cfg MCDubboClient
    tlc -workers 2 -config event_loop.cfg MCEventLoop
    tlc -workers 2 -config buffer.cfg MCBuffer
    tlc -workers 2 -config conversions.cfg MCConversions
    tlc -workers 2 -config codec.cfg MCCodec
    tlc -workers 2 -config process.cfg Process
    tlapm Buffer_proofs.tla
