# CoSocket in TLA+

A verification project for CoSocket, a C++ library for network programs in which
every connection is served by a coroutine: calls such as `Read` look blocking and
suspend the coroutine until epoll reports the descriptor or a timeout expires.
Everything runs in one thread; a server may fork several such processes that share
their listening sockets.

## Inventory

| Component | Source | State | Operations |
|---|---|---|---|
| Coroutine library | `3rd/coroutine/coroutine.c` | table `S->co`, `nco`, `cap`, `running`, one shared stack, saved stack images | `coroutine_open`, `_new`, `_resume`, `_yield`, `_close`, return of the function |
| Event loop | `net/CoSocket.*`, `net/Epoller.*` | `m_coIdMap` (fd to reader and writer), `TimeoutSet`, `m_conditionMap`, `m_waitResumeList`, `m_coFuncList`, `m_handlingTimeout`, `m_events`, the kernel's epoll set | `Run` (`RunNewCoFunc`, `RunWaitResumeCo`, `Poll` and `EventHandler`, `RunTimeoutCo`), `NewCoroutine`, `Connect`, `Accept`, `Read`, `Write`, `ReadFull`, `WriteAll`, `GetCondition`, `ConditionWait`, `ConditionNotify` |
| Timestamp | `base/Timestamp.*` | a `timeval` | `AddMillisecond`, comparison, difference |
| CoQueue | `net/CoQueue.h` | `m_queue`, a condition | `Enque`, `Deque` |
| TcpServer | `net/TcpServer.*` | listeners, `m_numSlaveExpected`, `m_numSlaveRunning` | `Bind`, `ListenAndFork`, `MonitorSlavesLoop`, `DoAccept` |
| TcpClient, TcpConnector | `net/TcpClient.*`, `net/TcpConnector.*` | a descriptor | forwarding calls, `Close` |
| Timer | `net/Timer.*` | a timerfd | `Wait` |
| HTTP parser | `net/http/HttpParser.*`, `HttpDecoder.h` | header state, name, value, URL, body | callbacks of http_parser, `Parse`, `Reset` |
| HTTP dispatch | `net/http/HttpDispatch.*` | `m_isWebSocketReq`, `m_wsHandler` | `operator()`, `Dispatch`, `ProcessWebSocketData` |
| HTTP client, encoder | `net/http/HttpClient.h`, `HttpEncoder.h` | headers, body | `Request`, formatting |
| WebSocket frames | `net/http/WebSocketParser.h`, `WebSocketEncoder.h` | input cache, offset, payload | `Parse`, `Reset`, `GetFrame` |
| UrlCodec, base64 | `base/UrlCodec.*`, `3rd/base64` | none | encode, decode |
| http-parser | `3rd/http-parser` (vendored) | state and header state of its machine, flags, lengths, counts | `http_parser_init`, `http_parser_execute` |
| tcp_proxy | `example/tcp_proxy` | two descriptors per connection, shared by two coroutines | `HandleRequest`, `ReadServerCoroutine` |

How they interact. `CoSocket` owns a coroutine schedule and an `Epoller`. A call made
by a coroutine that would block registers the coroutine's id in `m_coIdMap`, the
descriptor in epoll and, with a timeout, a deadline in the `TimeoutSet`, and yields to
`Run`. `Poll` hands each reported event to `EventHandler`, which resumes the
coroutines registered for it; `RunTimeoutCo` resumes those whose deadline has passed
and tells them so by `m_handlingTimeout`. Conditions have no descriptor: a notified
coroutine moves to `m_waitResumeList`. All the other components are clients of these
calls.

What is hard here:

* Between a yield and the code after it anything may happen: other coroutines run on
  the same stack, close and reuse descriptors, take the data that was reported.
* The loop keeps plain coroutine ids in four structures, and ids are reused. Each
  entry must disappear with the call it was made for.
* An event and a timeout race for the same call.
* A batch of events is handled while coroutines change the state it was taken from.
* The lists of the loop grow while they are iterated.
* Arithmetic of deadlines: no carry in `AddMillisecond`, an inverted time gap.
* Descriptors have shared owners (`shared_ptr` in coroutines and in `m_coFuncList`): the
  last one closes, and must be gone from every call before it does. They may run out.
* A stream has no borders: a read ends anywhere in a request, a header, a chunk, a
  frame, a write may stop halfway, the peer may close, and an answer may come late.

## Modules

| Module | Models |
|---|---|
| `CoSched` | Abstract specification: what the coroutine library promises. A status per id and the id that runs. |
| `Coroutine` | `coroutine.c`: the table with its growth and its search for a free slot, and the shared stack. Implements `CoSched`. |
| `Timestamp` | `Timestamp.cpp`, as operators. |
| `CoSocket` | The event loop, on top of `CoSched` and `Timestamp`. |
| `CoQueue` | `CoQueue.h`, composed with `CoSocket`: coroutines that use queues. |
| `TcpServer` | The master process of `TcpServer.cpp`. |
| `Timer` | `Timer.cpp`, composed with `CoSocket`: a coroutine that sleeps beside others that do anything. |
| `TcpSlave` | A slave process: `SlaveRun` and `DoAccept` of `TcpServer.cpp`, `TcpConnector`, `TcpClient` and the TCP proxy of the examples, composed with `CoSocket`. |
| `HttpText` | Texts of HTTP messages, character classes, the words and methods the parser knows. |
| `http_parser` | `http_parser_execute`, an operator for each state of its machine. Its callbacks are parameters. |
| `HttpParser` | `HttpParser.cpp` and `HttpDecoder.h`: the callbacks, on an `INSTANCE` of `http_parser`. |
| `HttpEncoder`, `UrlCodec`, `Base64` | `HttpEncoder.h`, `UrlCodec.cpp`, `base64.cpp`, as operators. |
| `WebSocket` | `WebSocketEncoder.h`, `WebSocketParser.h` and the WebSocket half of `HttpDispatch.cpp`: a client, the byte stream and the server's coroutine. |
| `HttpDispatch` | `HttpDispatch.cpp` and `HttpClient.h`: one connection, from the first request to WebSocket messages. Extends `WebSocket`. |
| `MCCoroutine`, `MCCoSocket`, `MCTimer`, `MCCoQueue`, `MCTcpServer`, `MCTcpSlave`, `MCHttpDispatch`, `MCWebSocket` | Instances for TLC. |
| `CoroutineProofs`, `CoSocketProofs`, `CoSocketWakeProofs`, `CoQueueProofs`, `TimerProofs`, `TcpServerProofs`, `TcpSlaveProofs`, `WebSocketProofs` | Theorems. |

### Coroutine

`co` is the table, with `NULL` as a record whose status is DEAD. A stack image is its
size and one value for the local variables in it. `CoroutineWork` lets the running
coroutine change its locals and the depth of its stack; `save_stack` and the
SUSPEND case of `coroutine_resume` copy the image out and back. The history variable
`frame` remembers what each coroutine last saw on the stack, so that
`FramesAreIsolated` can compare. Registers are not modelled. The asserts of the code
are compiled out in the release build (`-DNDEBUG`); the two that matter, a search that
ends without a slot and an image larger than its buffer, are invariants here.

### CoSocket

One thread: either the loop runs (`running = NoCo`, at `phase`), or a coroutine does.
A coroutine's own code is the client's, so a running coroutine may make any call.
Blocking is in two steps, as in the code: `CallBlocks` is everything up to
`coroutine_yield` (guard, FdWatcher, epoll registration), the loop resumes the
coroutine in `EventHandlerIn`, `EventHandlerOut` or `RunTimeoutCo`, and `CallResumes`
is the code after the yield. `wait[c]` stands for the C++ frame in between: which
call, on which descriptor, with which timeout, since when.

| Code | Action |
|---|---|
| `Connect`, `Accept`, `Read`, `Write`, first system call succeeds | `CallAtOnce` |
| the same, would block | `CallBlocks` (`GuardBegin`, `AddEvent`) |
| the same, another coroutine already blocks on the event | `CallIsDuplicate` |
| the same, after the yield | `CallResumes` (`DeleteEvent`, `GuardEnd`) |
| `ConditionWait`, before and after the yield | `ConditionWait`, `WaitResumes` |
| `ConditionNotify`, `GetCondition` | actions of the same names |
| `NewCoroutine` in a coroutine, in the loop, before `Run` | `NewCoroutine`, `RunNewCoFunc`, `NewCoroutineInMain` |
| a coroutine's function returns | `Return` |
| `Epoller::Poll` | `PollEvents`, `PollTimesOut`, `PollInterrupted` |
| `EventHandler`, reader and writer | `EventHandlerIn`, `EventHandlerOut` |
| `RunTimeoutCo` | `RunTimeoutCoBegin`, `RunTimeoutCo`, `RunTimeoutCoEnd` |
| kernel, other processes, clock | `Close`, `Open`, `BecomesReady`, `TakenByOther`, `Tick` |

The result a call returns is not kept: what matters is whether it was woken by its
event or by its timeout. A call that fails at once with another errno changes nothing.
`ReadFull` and `WriteAll` are loops of `Read` and `Write`. `m_coFuncList` is a count,
because nothing in the loop depends on which function it is; module `TcpSlave` says
which, and what each holds. `m_waitResumeList` and `m_coFuncList` are kept from the iterator
on: what is before it is never looked at again and is cleared in the end.
The epoll set is the kernel's: level-triggered, closing a descriptor removes it, and
`EpollCtl` gives the errno.

Two constants lift rules of use that the library states nowhere but depends on:
`DuplicateUse` lets two coroutines block on one event of one descriptor, `HandClose`
lets a descriptor be closed while a coroutine is blocked on it (not one that other processes
share: its registration in epoll would outlive the close). A call that succeeds at once is
possible whoever is blocked on the same event; if it takes the data of an event that is still
to be handled, the history variable `stale` remembers that the wake-up will be in vain, as
it does for a number that is closed and opened again with an error in the batch.

### CoQueue

A queue is the number of its elements. `deque[c]` says that coroutine `c` is inside
`Deque`; each test of its `while` is a step (`DequeWaits` or `DequeTakes`), and
`DequeResumes` is the return of `ConditionWait`, after which the test is made again.
`Construct` is the constructor with its `GetCondition`, `Enque` is one step, since
nothing in it yields. The rest is the event loop of `CoSocket`, unchanged.

### TcpServer

The master alone: `ForkSlaves` is called from `ListenAndFork` and from
`MonitorSlavesLoop`, one step per `fork`, and `m_numSlaveRunning` is updated at its end.
The kernel keeps the children, `alive` and `zombie`. `waitpid` has three actions, one for each
of its results: a child, none that has died (0, the master sleeps), and no child at all
(-1, which the code takes for a child).

### Timer

`expiry` is the kernel's timerfd, `sleep[c]` the `Wait` that coroutine `c` is in. `Wait` is
`timerfd_settime`, which takes back an expiration that was not read; a time of zero
disarms. The `Read` that follows is the `CallAtOnce`, `CallBlocks` and `CallResumes` of the
event loop, so that a sleeper is woken, or not, by the very code that wakes everybody
else. `Destroy` and `Construct` let another `Timer` get the same number. One coroutine at
a time uses the `Timer`: two would be the duplicate use of a descriptor. `timerfd_settime`
fails only for negative times, which are not modelled.

### TcpSlave

`task[c]` is the C++ frame of coroutine `c`: its function, where it is, and the connector and
client it holds. `functions` is `m_coFuncList` with the arguments bound to each entry,
started entries included, because these live until `m_coFuncList.clear()`; `Clear` destroys them one by one.
`CloseIf` is the destructor of a `TcpConnector` or `TcpClient`: it closes if neither a task nor a function
holds the descriptor. `::accept` and `::socket` hand out the lowest free number out of `Pool`; when
there is none, `Accept` fails and is called again at once (`CallFails`), and `TcpClient` exits.
A `DoAccept` without a handler closes the number twice (`Refuse`), the second time in vain since
nothing runs in between. What is read and written is left out. Of the kernel's events those happen that somebody looks
at (`Wanted`): another is seen by nobody, so it may as well happen later.

### http_parser and HttpParser

A text is a sequence of numbers: characters, and from 256 on words. Names and
values of headers are words, two to each that the parser knows, so that a read can end inside one
while the machine needs no state per letter. Each state of the machine is an operator from a
parser and a character to the parser; `Round` is a turn of the loop with the count of header
characters, `Resumed` sets the marks with which a call begins, and `EndsInHeader` says when a call
ends inside a header name or value, which counts for one character more. An `assert` that fails is
an error of its own, for `AssertsHold`; the one on several marks at the end of the function is not
expressed, since the model keeps one mark. A length of `ULLONG_MAX` means "no length" as in the code,
with a small value for it. `HttpParser` gives the callbacks: they append to URL and body and
overwrite the header name and value, and `OnComplete` decodes and splits the URL.

### HttpDispatch

The client is `HttpClient` or another program (a browser, a client that sends chunks or
HTTP/1.0); the server is `HttpDispatch` or another program, which may answer in chunks or end the
body with the connection. Requests are records, and their text is what `HttpEncoder` or the other
program writes. `Request`, `ReadResponse` and `ReadResponseFails` are the steps of
`HttpClient::Request` between its blocking calls, `ParseHttpToDispatch` and `Response` those of the
server's loop; each read takes any of a few sizes or all there is, each write may stop
after `WriteCuts` characters and end the coroutine. After a request with a WebSocket key
`m_isWebSocketReq` is set, handler or not, and the server goes on with the actions of `WebSocket`
over the same stream. So does the client, if the answer is right or if it takes no notice of it;
a message that is complete while `m_wsHandler` is not set ends the process (`CallsUnsetHandler`): an
empty `std::function` throws and nothing catches. A client that takes no notice although one of its headers was
cut is left out, since its frames would go to the HTTP parser. The history variable `cut` tells that a read has cut a header, `reused` that
the client has gone on with a connection on which a request had failed: what the code
promises then is less, and the properties say so. SHA1 is a parameter.

### WebSocket

Encoder and parser are records with the members of the classes, and operators with the
names of their methods; bytes are numbers, so that masking (XOR, bit by bit) and lengths are what they are in the code.
The stream is one sequence of bytes; `ends` remembers where in it frames end.
The client encodes each message with a fresh `WebSocketEncoder`, frame by frame; the server
reads any number of the bytes there are, calls `Parse`, and when the message is complete
answers with an echo, as `example/http_server` does, and resets the decoder. What an incomplete
header leaves in the parser's members is not kept, because `ParseHeader` starts anew. Lengths of
2^30 and more count as one, above `kMaxLength` (10 MB in the code). A read may hold the end of a frame and bytes after it;
`ResetCurrentFrame` drops those bytes, so that the parser goes on in the middle of the next frame.
The variable `crossed` remembers that this happened: messages arrive whole only while it has not,
which is how `DeliveredIsSent` and `MessagesArrive` are stated. In the runs no length
is a multiple of the frame size: `Encode` gives such a message no FIN bit.

## Runs

| Run | Question | Instance |
|---|---|---|
| `coroutine` | Does the table keep count, always find a slot, isolate frames, and implement `CoSched`? | capacity 2 growing to 4, stack of 2, two values of locals: growth, reuse of an id and images of different depth all happen |
| `io` | Do FdWatchers, epoll and blocked coroutines agree, and are wake-ups genuine? | three coroutines, a connection that may fail with a reader and a writer, a shared listener, `m_events` of size 1 that doubles |
| `timeout` | Do deadlines belong to the call blocked now, even if the rules of use are broken? | two coroutines, a connect and a read, seconds of 3 ticks, timeouts 0, 2 and 4: below and above a second, with and without the missing carry; clock up to 5, time for two calls after each other; `DuplicateUse` and `HandClose` |
| `progress` | Does -ETIME mean what it says, does Poll return, is a ready descriptor served though `m_events` is too small, does a call with a timeout end, does a sleeper wake, and not too early? | two coroutines, a `Timer` waited on for 0, 1 or 4 ms and a connection read with a timeout of 2, 3 or none, `m_events` of size 1, seconds of 3 ticks (4 ms are a second and a fraction; a timeout of 2 meets the missing carry, one of 3 is a whole second), clock up to 4 |
| `queue` | Does a consumer overlook an element, or take one that is not there? Is a waiter lost, or resumed twice? Is it served? | four coroutines, two queues of at most 2 elements whose conditions share a key |
| `master` | Does the master know how many slaves it has, and replace those that die? | 1 or 3 slaves, 4 processes, up to 4 failed forks, 4 deaths and 6 calls of `waitpid` without a child: all slaves may die, and all forks of a round fail |
| `slave` | Does shared ownership keep the rules of use of the event loop, does it leak, is a connection handled? | one listener, three other descriptors (a proxied connection takes two; with two accepted, the second finds none left for its server, and with three `DoAccept` spins), four coroutines; no descriptor fails here (`FaultyFd` is empty: the errors that wake both directions at once, EPOLLERR, which stands for EPOLLHUP too, are in the steps of the slave, and the theorems about its safety are for any `FaultyFd`; with `FaultyFd = {4}` the same properties hold on a million states); with and without a request handler; clock up to 1, the proxy's timeout; `DuplicateUse` and `HandClose` are both set, so that it is the slave, not the instance, that keeps the rules |
| `connection` | Do handlers and clients get what was sent, is anything refused without need, does every `Request` return, do messages arrive? | two requests out of ten (parameters that need every rule of the encoding, chunks, `Connection: close`, HTTP/1.0 with a whole URL, CONNECT, headers above the limit of 80 and of exactly 80, three for WebSocket: right, with a zero byte in the digest, without a handler), three answers of other servers, reads of 5 or of all characters, writes that stop after 4 or 20; then two messages out of lengths 1, 3, 127 and 131 (above the limit of 130), frames of 2, 100 and 1446 bytes, two frames in flight, reads of 1, of 5 or of all bytes |
| `header_pieces` | violation, see findings | one request, reads of 1 or of all characters |
| `websocket_layout` | violation, see findings | a message of 126 bytes |
| `duplicate_use` | violation, see findings | `DuplicateUse` |
| `hand_close` | violation, see findings | `HandClose` |

Bounds. `MaxTime`, `MaxCondition`, `MaxCap` bound counters; `MayCreate` in `CoSocket`
bounds the coroutines that exist or are queued by the size of `Co`. `Second` is the
number of clock ticks (1 ms in the code) in a second and `IntKeys` the number of map
keys (2^32 in the code); both are small so that a carry and a collision of keys are
reached. `MaxElements` bounds a queue; `ReadSizes`, `HttpReadSizes`, `WriteCuts`,
`MaxRequests`, `MaxMessages` and `MaxInFlight` bound the traffic of a connection; `MaxFail`, `MaxDeath` and `MaxNoChild` bound what
goes wrong for the master. `coroutine` may end (`coroutine_close`), in `timeout` the process may abort,
`slave` may `exit(1)`, and `connection` ends
with the last request or message or a closed connection, so
they do not check for deadlock; all the other runs do, since neither the event loop nor the
master ever ends.

Fairness. `WF` of the loop's steps: `Run` is an endless loop of one thread.
`WF` of `CoroutineResumes` and `CoroutineLeaves`: scheduling is cooperative, so all
that follows assumes that a coroutine that runs comes back from its call and gives up
control in the end. `WF` of `Tick`: the clock runs. `SF` of `PollEvents`: epoll_wait
may be interrupted, but not each time. `LoopGoesRound` is a hypothesis, not fairness:
`RunNewCoFunc` and `RunWaitResumeCo` go on as long as coroutines append to their lists,
so two coroutines that notify each other for ever do keep the loop away from `Poll`;
`ReadyIsResumed` and `TimedCallEnds` are about the behaviours where that does not happen.
For the queue, `WF` of the steps inside `Deque`, and `SF` of `Return`: a coroutine outside
`Deque` gives up the control in the end, however much it enqueues before.
For the master, `WF` of its steps: it is a process of its own, in an endless loop.
For the timer, that and `WF` of its expiry: the kernel's timers expire. For the slave, `WF` of its
loop, of the steps of a running coroutine between two calls, and of `CallWaits`: a coroutine whose
calls always succeed at once could keep the control, but nothing else can.
For the connection, `WF` of the server's reads (its loop, and its timeout `kKeepAliveMs` when nothing
comes), of the client's reads and of its seeing the connection closed, of answers, and of the
frames of a message that was begun. A read's fairness is stated by what is read: a read is possible
whatever the parser makes of it. Nothing is assumed of the client's own timeout, so that
`RequestEnds` does not hold just because of it.

## Findings

* **duplicate_use.** `SaveToCoIdMap` refuses a second reader or writer ("fd read dumplicate in
  two coroutine is not allowed."), but `Connect`, `Accept`, `Read` and `Write` ignore that
  `AddEventAndYield` returned -1, go on as if resumed and call `DeleteEvent`. The refused
  coroutine removes the registration of the first one, which is then resumed by nothing
  but its timeout.
* **hand_close.** A descriptor closed while a coroutine is blocked on it: when the call
  times out, `DeleteEvent` gets EBADF from epoll_ctl and aborts the process. The comment
  at `CoSocket.cpp:419` names the case as a FIXME.
* **websocket_layout.** The frame diagram at the head of `WebSocketParser.h` puts an extended
  length after a payload length of 126. `Encode` tests `frameSize > 126`, so a frame of exactly
  126 bytes carries the marker and no extended length.

* **header_pieces.** http_parser.h says that the data callbacks are "called arbitrarily many
  times for each string". `OnHeaderName` and `OnHeaderValue` keep only the last piece, and the
  second piece of a value makes a pair of its own with the name that follows: a request
  whose headers cross the end of a read loses them.

Seen while modelling, and part of the model rather than findings, since no comment
promises otherwise: `AddMillisecond` does not carry, so a timeout may fire up to a second
early (`TimeoutIsGenuine` states what remains true); a call that is refused as a duplicate while the loop
handles timeouts returns -ETIME, with or without a timeout of its own (`TimeoutIsGenuine` does not hold
with `DuplicateUse`); `GetNeareastTimeGap` subtracts the
wrong way round, so `Poll` never sleeps longer than the slack of 10 ms before a deadline
(`PollReturns` holds because of that slack); a descriptor number that is closed and opened
again while a batch is handled gets the errors of its predecessor, and a coroutine whose data another one took
without blocking is still woken (the exceptions in `WakeIsGenuine`); the master takes the -1 of a `waitpid` without children for the death of
a slave, so that after a round in which all forks failed it starts one slave too many
for each such call (the `noChild` in `SlavesLimited`); `Timer::Wait(0)` sleeps for ever
(`SleeperWakes` is about longer waits); `DoAccept` spins when there is no descriptor left, and no
coroutine that could give one back runs again (`Spinning`); a digest with a zero byte is cut
short in the handshake (the exception in `HandshakeIsRight`); the URL is decoded before it is
split (the exception in `RequestArrives`); an answer that ends with the connection is reported
as -EPIPE (the `eof` in `FullAnswerIsTaken`); an answer that comes after its `Request` has timed
out is taken by the next one (`reused`); after a 404 to a request for WebSocket the server takes what
comes for frames: it closes the connection on a further HTTP request, and on a masked frame it calls `m_wsHandler`, which is
empty, so that the exception ends the process (`CallsUnsetHandler`, which the run `connection` reaches; `HandlerIsSet`
says that it happens after a 404 only); each read that ends inside a header name or value counts for one character more
(`http_parser.c:706` counts the first character of a pass, lines 1415 and 1689 count it again), so that a header
within HTTP_MAX_HEADER_SIZE is refused if it comes in pieces, and one that comes byte by byte is counted almost twice
(the `inHeader` in `HeaderLimitKept`; the run has a request at exactly the limit, taken in one read and refused in
several); `Connection: close` in a 404 is written, but the server waits for the client to
close.

## Proofs

TLC checks the instances above; the theorems hold for every value of the constants,
under the named assumptions `CoAssumption`, `SecondAssumption`, `CoSocketAssumption`,
`CoroutineAssumption`, `CoQueueAssumption` and `TcpServerAssumption` (finite sets, positive sizes),
`TimerAssumption` (the timerfd is only read, and is not shared with other processes) and
`TcpSlaveAssumption` (listeners are accepted on, other descriptors are not; there are at least as
many ids as descriptors, since the table of coroutines grows as needed) and `WebSocketAssumption`
(payloads and mask keys are bytes, a key has four, sizes are positive).

`CoroutineProofs`. The inductive invariant joins the type invariant, `CountIsLive` and
the relation between the saved images, `frame` and the stack. `CountIsLive` is what makes
the search succeed: if `nco < cap`, the live ids are fewer than the slots, so one is free,
and `(i + nco) % cap` visits every slot. `Refinement` maps `status` to the statuses in the table and
`running` to itself; every step is a step of `CoSched` or a stutter.

`CoSocketProofs`. Type correctness, with both rules of use lifted. Strengthened by
`HandlerInv`: `EventOut` has an event at the head of `m_events` (`Head` and `Tail` need it). Then the bookkeeping. `LoopInv` (the type, `HandlerInv`, `BlockedInv`, `SlotsInv`, `TimeoutInv`,
`ConditionInv`) is inductive however the API is used. Its parts need each other. A coroutine resumed
through `m_timeoutSet` is blocked in that very call because of `TimeoutInv`, one resumed through
`m_coIdMap` because of `SlotsInv` (a slot holds a coroutine blocked on that event of that descriptor, or
none); that it is suspended, and not finished, is `BlockedInv`; that its id is not also in
`m_waitResumeList` is `ConditionInv`. So `TimeoutCorrect`, `ConditionCorrect` and `ResumesCorrect` assume
no rule of use: even a program that breaks the rules never makes the loop resume a coroutine that is
not suspended. `WatchedInv` adds the other direction, that a blocked coroutine has its slot and its
open descriptor in the epoll set, and `NoAbort`. It is kept by a step if
`Disciplined == ~DuplicateUse /\ ~HandClose`, or if the step is `Orderly`: it closes no descriptor that
somebody is blocked on and frees no slot but its own. From it follow, under `Disciplined`, `WatchCorrect`,
`AbortFree` and the action property `SlotCorrect`; the two violation runs show that neither half of
`Disciplined` can be dropped.

`CoSocketWakeProofs`. `WokenInTimeHolds`, about the coroutines that `RunTimeoutCo` resumes, needs no rule of
use. `TimeoutsGenuine`, about every step that returns -ETIME, needs `~DuplicateUse`: a call that is refused returns
-ETIME too if the flag is set, whether it has a timeout or not; without `DuplicateUse` no call is refused. `HandlingInv` says that `m_handlingTimeout`
is set exactly in `RunTimeoutCo` and that `now` is a time the clock has shown; `ExpiredInv` that a coroutine
resumed there has missed its deadline. `WholeSeconds` is the arithmetic: without the carry, a time not before
`AddMillisecond(s, ms)` is still `ms \div Second` whole seconds after `s`. `WakesGenuine`, under `Disciplined`,
rests on `BatchInv`: each event of `m_events` not handled yet belongs to a coroutine that is
still blocked on it, and is still pending or known to be `stale`. What is pending is used up only by a call for that event: of the
blocked coroutine, which then runs, or of another that does not block, which is remembered; the two halves of an event (`EventIn`, then
`EventOut`) are told apart by `Handled`. An error stays until the number is closed, and its next life is remembered too.
Instead of `Disciplined` a step may be `Orderly`.

`CoQueueProofs`. Every step of coroutines that use queues is a step of the event loop or a
stutter, so `LoopInv` is kept. `QueueInv` adds that a blocked coroutine waits for the condition of the
queue it is dequeuing from, and that a consumer still in `m_conditionMap` has an empty queue. The
latter is `NoLostWakeup` in an inductive form: `ConditionWait` is only called with the queue
empty and nothing runs between the test and the call, `Enque` clears the whole set of its key, and a
consumer that has left the set is in `m_waitResumeList` by `ConditionInv`. No rule of use is assumed.

`TimerProofs`. `TimerUsesLoop` is the refinement: `TimerSpec` implements `Spec` of `CoSocket`. For
`SleepersRest`, `SleeperReads` says that a sleeper that is blocked is blocked in an untimed `Read` of the
timerfd, and `ExpiryInv` that the timerfd is armed for the sleeper there is and readable only after its
time; `OneSleeper` and `TimerfdIsSound` that nobody else reads the timerfd and that it has no errors, so that none of
its events is `stale`. Together with `WakesGenuine` and `WokenInTimeHolds`, which hold through the refinement, a `Wait` that returns
has slept. `Disciplined` comes from `WakesGenuine`.

`TcpSlaveProofs`. `SlaveUsesLoop` is the refinement again, and here the two rules are not assumed but proved.
`SlaveInv` adds to `LoopInv` what a function holds at each point of its code (`ShapeInv`), that a coroutine
that does not run is blocked in the call its task is at (`CallInv`), and who may share a descriptor
(`SharingInv`): two functions that do are the two directions of one connection, one reading what the other
writes, so they never want the same event. `DescriptorsOwned` is part of it. It follows that no call of a
slave is a duplicate (`RulesAreKept`), and that a descriptor whose last owner goes has nobody blocked on it, so that
every step of a slave is `Orderly`; hence `SlaveNeverAborts` and `SlaveWakesGenuine`,
whatever the constants `DuplicateUse` and `HandClose` would allow. Every step is also `Considerate`, it uses up no event
that another coroutine is blocked for (`SlaveStealsNothing`).

`TcpServerProofs`. `MasterInv` adds that `ForkSlaves` forks exactly the slaves that are missing and
that its list is empty outside.

`WebSocketProofs`. The theorems are about `Spec` of `WebSocket`: a connection on which only frames are
exchanged. `WebSocketTyped` needs `TypeInv`, which adds that the rest of a payload is as long as offset and
length say, and that a mask key has four bytes or none: then no byte beyond the input is looked at, and
`IsValidFrame`, tested at each read, keeps the payload within `kMaxLength`. This holds also after a read
that crosses the end of a frame, when the parser reads payload for headers.

`WebSocketDelivers` is the correctness of encoder and parser together, for all payloads, frame sizes, mask keys and
reads. Its invariant `DeliveryInv` speaks of all that was ever written: there are a sequence of bytes `wire`
and a list of frames (which message, which part of it, which key, where it starts) such that the bytes of
each frame are where they should be (`IsFrame`, `Follows`), the parser is in frame `cur` with that
frame's first bytes in `m_inputCache` and the message's earlier fragments in `m_payload` (`PartTaken`),
the stream is the rest of `wire`, and `ends` are the borders of the frames ahead. On the way:
`FrameOfClient` says byte by byte what `Encode` writes, `ParseOfFrame` what `Parse` makes of any beginning of a
frame, the header being cut anywhere; `XorTwice` that unmasking undoes masking, from the bits of a byte;
`ReadWithinFrame` that a read that crosses no border stays in its frame. The hypothesis is
`Framable(len, size)` for each message: no length is a multiple of the frame size and no frame has 126 or more than 65535
bytes. It cannot be dropped: `Encode` gives no FIN bit to a message that ends with a full frame,
so that the next message is appended to it, and writes the other lengths as the parser does not
read them (run `websocket_layout`). The messages of the run `connection` satisfy it.

The type invariants of `Coroutine`, `CoSocket` and `TcpServer` are theorems (`TypeCorrect`) and no
longer part of the runs.

Only model-checked: the invariants of `HttpDispatch`, with those of `WebSocket` on a connection that has begun with
HTTP (each is about what `http_parser` computes of a whole text, in a loop over its
characters: an induction over data with a recursive operator, which the prover cannot do), and all
liveness, which rests on fairness and ENABLED.

## Plan

Done: the event loop with the coroutine library, the queue, master and slaves of the server, the
timer, HTTP and WebSocket connections; proofs of all safety properties but those of HTTP. Next:

1. `CoQueue` with its elements: FIFO order, every element dequeued once; a refinement of an
   abstract queue, proved in `CoQueueProofs`.
2. `ReadFull` and `WriteAll` against a byte-stream specification.

## Not modelled

Of `http_parser.c`: `http_parser_parse_url` with its host states, `http_parser_pause` and
`F_SKIPBODY`, none of which CoSocket uses, the tab and other control characters, and single letters of
header names. `TcpServer::Bind` (system calls before anything runs). `SimpleLog.h` and
`NonCopyable.h` (no state), the examples but for the proxy (clients of the API; the model lets a
coroutine make any call). Memory: use of freed memory, stack overflow. Signals other than the
EINTR of epoll_wait. The fatal `exit(1)` paths of `Epoller` and `Timer`. Steps of the wall clock, which
delay or anticipate every deadline (`Timestamp.cpp:6`): the clock of the model only advances.
The wrap-around of a WebSocket payload length near 2^64.
