# A formal model of Linux-Learning

The repository is a course in Linux system programming in C++: small programs
per chapter (`chapter_1` to `chapter_5`) that lead up to `webserver/`, a
half-sync/half-reactive web server with a thread pool. These TLA+ modules model
the web server (the thread pool lock by lock, the epoll reactor with its
workers, one HTTP connection from the first byte to the last) and the concurrent
programs of chapters 2 to 5. TLC checks small instances; TLAPS proves the main
safety properties for every instance.

## 1. Inventory

### The web server (`webserver/`), modelled

| part | code | state | operations |
|---|---|---|---|
| thread pool | `threadpool.h`, `locker.h` | `m_workqueue`, `m_queuelocker`, `m_queuestat`, `m_stop` | constructor, `append`, `run` in each worker, destructor |
| reactor | `main.cpp`, `addfd`/`modfd`/`close_conn`/`init_conn` of `http_conn.cpp` | epoll's interest per descriptor, the array `users[]`, `m_user_count` | `epoll_wait`, accept (and refuse), hangup, read, write |
| connection | `http_conn.cpp`, `http_conn.h` | read buffer and its three indices, parser state, response buffer, `m_iv`, the mapped file | `read`, `process` (`process_read`, `do_request`, `process_write`), `write` |

How they interact: `main()` owns the event loop. Epoll reports a descriptor
once (EPOLLONESHOT) and forgets it. On input `main()` reads everything and
appends the connection object to the pool's queue; a worker pops it, parses,
composes the reply in the object's buffers, and arms the descriptor again for
input (request incomplete) or output (reply ready). On output `main()` sends.
A hangup is handled by `main()` alone. **No lock protects a connection
object**: that two threads never touch it at once follows from the one-shot
events and from the order of `modfd()` and `append()`, and from nothing else.
Shared without any discipline: `m_user_count`.

What is hard here: the hand-over of connections between threads; an `append()`
that is refused; `sem_post` after unlock; hangups that race with queued,
processed or blocked connections; requests cut into segments anywhere; short
writes, EAGAIN and a file that must stay mapped meanwhile; descriptors that run
out. PROJECT.json lists each of these hazards at its line with the property
that watches it, or the reason why none does.

What makes each part correct:

- *pool*: no request is left in the queue with all workers asleep; each is
  served once, in order, by one worker; threads end when told to and not before.
- *reactor*: one owner per connection; the pool never holds a closed one; a
  live connection is always owned by someone; bytes and hangups are noticed; the
  user count is right; resources of closed connections are released.
- *connection*: the verdict on a request does not depend on segmentation; each
  complete request gets its reply, whole; a file is mapped as long as, and no
  longer than, its reply needs it, and a file that was not mapped is not sent.

### The chapters

| part | what is in it | state | what makes it correct | module |
|---|---|---|---|---|
| ch. 5 `http_header_parser.cpp` | server of one client, first version of the parser | buffer, three indices, check state | the answer is the verdict on all bytes received | HeaderParser |
| ch. 5 `threadpool.h`, `locker.h` | draft of the pool, lacks an unlock | queue, semaphore, mutex, `m_stop` | it does not work: one request jams it | DraftPool |
| ch. 4 `tcp_server.cpp`, `main()` | a thread per client, a table of slots without a lock | `clientInfomations`, descriptors | no slot or descriptor has two owners; a scan ends | ThreadedServer |
| ch. 4 `tcp_server.cpp`, `server_multiprocess()` | a process per client, a handler that reaps | children, pending SIGCHLD | a waiting client is accepted, ended children are reaped | ForkServer |
| ch. 4 `select.cpp`, `poll.cpp`, `epoll.cpp` | event loops of one thread | sets and arrays of descriptors, `cur_max_fd` | a line is echoed; nothing but a reset ends the server | EventLoops |
| ch. 4 `udp_server.cpp`, `udp_client.cpp` | echo over datagrams | datagrams on their way | a reply reaches its sender; a client waits in vain only for what was lost | UdpEcho |
| ch. 3 `producer_consumer`, `pthread_cond`, `semaphore` | one vector, three synchronisations | `buf`, `cond`, `sem_p`, `sem_c` | no overflow, no underflow, no lost signal | BoundedBuffer, BoundedStack |
| ch. 3 `case_sell_tickets` | sellers under trylock | stock, counts, the mutex | each ticket is sold once, the sale ends | TicketSale |
| ch. 3 `rwlock` | readers, writers, and a counter under another mutex | lock, `rdlock_num` | the counter agrees with the lock | ReadersWriter |
| ch. 3 `pthread_create`, `_exit`, `_join`, `_attr` | a thread and how its creator ends | what was printed, and what is in the buffer of stdout | output is lost or doubled only by a return without a join | ThreadLife |
| ch. 2 `wait`, `waitpid`, `sig_child` | children and their parent | zombies, SIGCHLD, the handler | every child is reaped | ChildReaper |
| ch. 2 `sig_catch`, `setitimer`, `alarm`, `deamon`, `sig_set` | timers, handlers, blocked signals | timer, handler, mask, pending | a signal kills neither too early nor never | SignalTimers |
| ch. 2 `chatA`, `chatB` | two programs over two FIFOs | which FIFO exists, is open, holds what | they meet and take turns | Chat |
| ch. 2 `pipe`, `psaux`, `read_fifo`, `write_fifo` | a writer and a reader | the open write ends, what was written and read | the stream is read to its end | PipeStream |
| ch. 2 `mmap`, `mmap_anon` | a parent and a child with a shared mapping | how much of the text is there | what was waited for is read whole | SharedMapping |
| ch. 2 `sharedmm/` | a segment shared by programs | key, attachments, removal | no segment is left behind | SharedSegment |

The programs of a chapter do not interact with each other, nor with the web
server. What is hard in them is in `PROJECT.json` under `hazards`: unsynchronised
slots, merged signals, opens that wait for each other, lost datagrams, memory
that nobody initialised, a path without a return value.

## 2. Modules

| module | models | role |
|---|---|---|
| `RequestQueue` | what `threadpool<T>` promises | abstract specification: FIFO queue with a limit, one request per worker |
| `ThreadPool` | `threadpool.h` with `sem` and `locker`, one step per lock, unlock, semaphore operation and test of `m_stop` | implements RequestQueue |
| `ThreadPoolProofs` | | theorems on ThreadPool |
| `WebServer` | `main()`, workers, kernel; instance of RequestQueue for the pool | composition; a connection is a descriptor |
| `WebServerProofs` | | theorems on WebServer |
| `MCWebServer` | | symmetry for TLC |
| `HttpParse` | `parse_line` and the line parsers as operators, and the meaning of a whole buffer | used by HttpConn |
| `HttpConn` | one connection object with its client | what `process()` and `write()` do, which WebServer leaves open |
| `HttpParseProofs`, `HttpConnProofs` | | lemmas on parsing, also for HeaderParser; theorems on HttpConn |
| `MCHttpConn` | | the request streams for TLC |
| `BoundedStack` | what the producer-consumer programs promise | abstract specification |
| `BoundedBuffer`, `TicketSale`, `ReadersWriter`, `ThreadLife` | chapter 3 | BoundedBuffer implements BoundedStack |
| `ChildReaper`, `SignalTimers`, `Chat`, `PipeStream`, `SharedSegment`, `SharedMapping` | chapter 2 | |
| `MCProcesses` | | chapters 2 and 3 in one run |
| `ThreadedServer`, `ForkServer`, `EventLoops`, `UdpEcho` | chapter 4 | |
| `HeaderParser`, `DraftPool` | chapter 5 | HeaderParser uses HttpParse |
| `MCServers` | | chapters 4 and 5 in one run, with the request streams |
| `BoundedBufferProofs`, `ReadersWriterProofs` | | theorems on these modules |
| `ServersProofs` | | theorems on the modules of chapters 4 and 5 and on MCServers |
| `ProcessesProofs` | | theorems on the other modules of chapters 2 and 3 and on MCProcesses |

The modules of the chapters are specifications of their own (`BufferSpec`,
`SaleSpec`, ...), about which the theorems are. `MCProcesses` and `MCServers`
extend them all and add a variable `program`, fixed from the start: in a
behaviour one program runs and the others stay in their initial states. That is
no abstraction, since the programs share nothing; it is how one run asks the
questions of all. Where a module holds variants of one program, a variable
(`bufferKind`, `loopKind`, ...) says which one runs.

### How the state corresponds to the code

*ThreadPool.* `queue`, `mutex`, `tokens`, `stop` are `m_workqueue`,
`m_queuelocker`, the value of `m_queuestat`, and `m_stop`; `pc` and `item` are
where a thread is and its request. What a thread does between lock and unlock is
one step, because the mutex hides it. `stop` starts with any value of
`StopAtStart`: the constructor does not write it.
`WaitInterrupted` is `sem_wait()` returning EINTR, whose result `run()` ignores.
`Destroy` is the destructor's body; the memory it then frees is kept intact, the
best case.

*WebServer.* `interest[fd]` is what epoll is armed for ("off" after an event was
reported), `batch` the array `events[]` still to be handled, `live` the objects
with `m_sockfd # -1`, `open` the descriptors of the process, `reply` the objects
with `m_write_idx # 0`, and `store[t]` the value a thread has computed for
`m_user_count` and not yet written. `CloseConn` leaves `open` alone, as
`close_conn()` does. A handler is one step, except that its update of
`m_user_count` is a load and a store: `OneOwner` (proved) says no other thread
sees the object meanwhile. The comparison with MAX_FD and the load of the
increment are one step. `Event` puts hangup before input before output, like the
`if` chain of `main()`. The pool is `Pool!Accept`, `Pool!Dispatch`,
`Pool!Complete` of RequestQueue, which ThreadPool is proved to implement; that a
worker may end at once (garbage `m_stop`) is left to ThreadPool. `Outcomes` are
what `process()` may come to: incomplete, reply, or `process_write()` failing.

*HttpConn.* `stage` says where the object is (armed for input, being parsed,
about to be answered, armed for output, in `write()`, closed). `buf`, `checked`,
`start`, `checkState`, `contentLength`, `linger` are the members of these names.
The client's stream reaches `inbox` token by token, so every segmentation
occurs. A token is `\r`, `\n`, or a text the parsers tell apart. `response` lists
the statuses in `m_write_buf` (NO_RESOURCE puts two there: its case has no
`break`), `wire` the positions of the units that were sent since the last read.
`Writev(n)` sends the first n units *from the start*, as the code never advances
`m_iv`. `mapping` is `m_file_address`: null, a mapping, `MAP_FAILED` (resource
"unopenable", or "empty"), or, before the first request, whatever the memory holds,
since neither `init_conn()` nor `new` writes it. The build is the debug build of
`CMakeLists.txt`: `parse_content()` without a return value leaves `m_conten_length + m_checked_idx` in the return
register, which is larger than `m_read_idx` and so not GET_REQUEST, and
`add_headers()` without one is harmless since its result is unused.

*BoundedBuffer.* `buf` is the vector, `asleep` the consumers in
`pthread_cond_wait()`, `semP` and `semC` the semaphores. What happens between
lock and unlock is one step; in semaphore.cpp the waits and posts are steps of
their own. The signal wakes any one consumer, and a wait may return unasked.

*TicketSale, ReadersWriter, ThreadLife.* A trylock that fails changes nothing
and is left out. The sale joins its threads in order. `sleep(1)` before a return
promises nothing: the thread may or may not be done. A line of `cout` is in the
buffer of stdout until `endl` has written it; the exit of the process writes the
buffer out, without waiting for the thread that may be writing it, so that a line
is lost, written, or written twice (the question at the end of pthread_attr.cpp).

*ChildReaper, SignalTimers.* A signal that is pending is pending once. The
handler may interrupt the parent anywhere; while it runs its signal is blocked.
Time passes in ticks of a second, as many as it pleases between two statements;
`delay`, what has passed since the last one, is counted up to `MaxDelay` only, which
bounds the counter and not the time (`MaxDelay >= 2`, as 2 is what is compared).

*Chat, PipeStream, SharedSegment, SharedMapping.* Opening a FIFO waits for the other end. A
read with no data and no write end left returns the end of the stream; in psaux
every copy of the write end counts. `access()` and `mkfifo()` are two steps. A
segment that was marked for removal lives as long as somebody is attached. A
text is copied into a mapping byte by byte; mmap.cpp copies it out through an
uninitialised pointer, which ends the process or does not.

*ThreadedServer.* `slot` is `c_sockfd` of each `ClientInfo` (0 is free), `threadPc`
where each `do_thread()` is, and descriptors are given out lowest first, as the
kernel does. Closing the socket and freeing the slot are two steps. The
clients may send, close, or reset the connection; an error on a reset
connection ends the process.

*ForkServer.* The handler blocks the parent until `waitpid()` says that no child
is left. `keptFds` only grows: the parent never closes its copies.

*EventLoops.* `fds[p]` is the descriptor at position p; `ready` what the wait
reported. In poll.cpp the array is on the stack and its `revents` start with
anything, which `garbage` records. epoll.cpp registers its clients with EPOLLET
and nothing else, so it hears of their errors only; its inner loop then has no
way out (`spinning`).

*UdpEcho.* Datagrams are sets: lost ones leave, doubled ones stay when received,
and any may be received first. *HeaderParser.* Tokens as in HttpConn. What
`parse_content()` does not return is the outcome of its last loop test, 0, in the
build without optimisation that .vscode/tasks.json asks for and in the binary under
chapter_5/output; 0 is NO_REQUEST, and `main()` reads on. Another build may answer
anything. *DraftPool.* Requests are counted, the mutex is a Boolean that nobody
clears.

## 3. Runs

All runs use `CHECK_DEADLOCK FALSE`: when nobody connects, sends or appends, a
server rightly does nothing. Programs that have ended do nothing either.

| run | configuration | question |
|---|---|---|
| `pool` | `ThreadPool.cfg` | is any wakeup lost, does a token buy exactly one request, is the queue drained, is the pool a RequestQueue? |
| `server_owner` | `WebServerOwner.cfg` | can two threads have one connection, can the pool hold a closed one, is `write()` ever called without a reply or on a closed object, how can a live connection be forgotten? |
| `server_live` | `WebServerLive.cfg` | are bytes read and hangups noticed when the queue has room; can the user count go wrong otherwise than by two updates at once? |
| `http` | `HttpConn.cfg` | is parsing independent of segments, is a file mapped until its reply is over and no longer, is a request answered? |
| `processes` | `Processes.cfg` | chapters 2 and 3: is anything overwritten, sold twice, missed, left unreaped or waited for in vain? |
| `servers` | `Servers.cfg` | chapters 4 and 5: is each client served by one thread, accepted, echoed to, and answered rightly? |
| `pool_garbage_stop` (violated) | `ThreadPoolWorkersRunUntilStopped.cfg` | do workers run until they are told to stop? |
| `server_count_race` (violated) | `WebServerCountRace.cfg` | does `m_user_count` count the users? |
| `server_closed` (violated) | `WebServerClosed.cfg` | are the resources of a closed connection released? |
| `http_body` (violated) | `HttpConnIncompleteIsReadOn.cfg` | is an incomplete request read on? |
| `http_short_write` (violated) | `HttpConnBufferSent.cfg` | has the client the whole write buffer when `write()` is done? |
| `http_unmapped_file` (violated) | `HttpConnFileRequestMapped.cfg` | is a file mapped whenever `do_request()` says it is? |

What they show:

- The pool is sound despite posting after the unlock and despite interrupted
  waits (an interrupted worker may find the queue empty, or take a request whose
  token another worker then finds worthless).
- The queue admits `m_max_requsts + 1` requests: `append()` compares with `>` before
  it pushes, while the comment of threadpool.h:24 calls `m_max_requsts` the largest
  number allowed. This is a disagreement of code and comment that needs no model
  checker; `RequestQueue` has the limit as the code has it, and `QueueIsBounded`
  proves that it is passed by one and never by more.
- Connections are handed over safely. The one way to lose a live connection is
  the `append()` whose result `main()` ignores: the descriptor stays disarmed.
  With the code's 10000 requests and 65536 descriptors this can happen.
- `m_user_count` goes wrong by one thing only: BAD_REQUEST makes a worker close its
  connection, and if `main()` or another worker updates the count meanwhile an update
  is lost for good. Through hangups, failed reads, closes of closed objects and
  closes by workers that meet nobody it stays exact.
- `close_conn()` never closes the descriptor. After as many connections as the
  process may have descriptors, `accept()` fails for ever. As a side effect a
  descriptor, and so a connection object, is never used twice.
- Incremental parsing comes to what the whole buffer means, except that a
  request with an incomplete body is answered 500 at once. A malformed line
  (LINE_BAD) is answered by waiting. BAD_REQUEST closes the connection without
  the 400 that was composed. A request for a missing file gets a 400 and a 403.
- A file that `open()` or `mmap()` refuses is reported as ready: the reply has an
  iovec at MAP_FAILED, `writev()` fails with EFAULT, and the connection is closed
  without a reply. A file that *is* mapped stays so through every retry.
- `write()` ends a reply when half the header has been sent, starts again from
  the first byte after EAGAIN, and does not count the file.
- The producers and consumers are right in all three programs, pthread_cond.cpp
  in spite of its `if` around the wait: the loop around it tests again.
- The sale ends, and sells each ticket once: the unlock before `break` matters.
- The chat programs open their FIFOs in an order that lets them meet. Their talk
  stops for two reasons only: an empty line, which sends nothing, and the race
  between `access()` and `mkfifo()`, whose loser exits.
- The parent of mmap.cpp reads the whole text; the child of mmap_anon.cpp, which
  only sleeps, may print any part of it.
- deamon.cpp starts its timer of two seconds before it has a handler: it is killed
  if, and only if, two seconds pass between the two statements (`SignalsKillInTime`;
  the run includes that case).
- Output of a thread is lost, or written twice, only where `main()` returns without
  a join (pthread_attr.cpp, pthread_join.cpp): the answer to the question at
  pthread_attr.cpp:66.
- The threads of tcp_server.cpp own their slots although nothing locks the
  table, since a thread closes its socket before it frees its slot and only
  `main()` fills slots. One client that resets its connection ends the server.
- The process server accepts again only when *all* its clients have left, and
  stops for good when its descriptors are used up.
- poll.cpp may read a descriptor of -1 when its uninitialised `revents` say so
  and ends; with revents of 0 it, like select.cpp, ends for a reset only.
  epoll.cpp accepts but never reads (`EPOLLIN` is missing), and after the first
  client that resets its connection it accepts nobody either.
- The header parser answers rightly and reads on when a request is incomplete or
  stops in a bad line: the value that it does not return happens to be NO_REQUEST in
  the build of the repository.
- The draft of the pool serves one request in its life (`JamsAfterOneRequest`).
- Three facts of the web server's model have no property of their own, since no line of the
  code promises otherwise: connections that arrive together are accepted one per
  later event; a client that shuts its side down after its request gets no
  reply; what was read behind an answered request is discarded.

### Bounds

- *pool*: two workers and two callers are enough for every pair to race at each
  step, one request value suffices because requests are only moved, limit 1
  (capacity 2) makes the queue empty, full and over-full; one interrupt
  (`MaxInterrupts`) separates the interrupted from the exact case. `main()` is
  the only caller in the repository; two callers show the class is safe for more.
- *server_owner*: three descriptors and two workers let one connection be in
  each place at once. The limit of users (3) is reached with all three live, or
  before that by a lost update, and then a fourth is refused. When bytes of all three
  are read before a worker runs, the queue of limit 1 (capacity 2) refuses one. Batches of
  two events (`MaxEvents`) leave a third waiting. `MaxBacklog` = 1 makes accept fail
  and succeed. A refused connection gets a descriptor that need not be one of `Fds`.
- *server_live*: no symmetry (it is unsound for liveness), two descriptors, one
  worker, a queue with room for both. `main()` and the worker are the two threads
  whose updates may overlap.
- The violations need one or two descriptors.
- *http*: some 250 streams: a good, a bad, an empty and a flawed request line,
  up to two headers of each kind and flaw, a body that is absent, incomplete,
  complete or looks like a line end, and two requests on one connection. The
  longest stream fills the buffer of 12 tokens (`READ_BUFFER_SIZE`). A header of
  three units and a file of one tell apart writes of less than half, half, the
  header, and everything. `MaxShorts` = 2 bounds the calls that send a part or
  nothing: one may precede and one follow a retry.

- *processes*: two producers and two consumers race at each step, and capacity 2
  makes the vector empty, half and full; three sellers and three tickets let one
  seller find nothing at all; three readers and two writers. Four calls of fork
  let two children end at once and one in the handler. Four messages in a pipe
  of two with reads of up to three: reads cut and merge messages, writes block.
  A text of two bytes can be read half written. `MaxDelay` = 3 is past every interval that matters.
  `MaxLine` = 2 cuts a chat
  line. The unblocking round is 3 instead of 10.
- *servers*: two slots, three descriptors and three threads: one thread is late
  in freeing its slot while its descriptor is used again. Two children and three
  descriptors. Two clients with two lines and two faults over UDP. Two
  connections in the loops: one closes while the other sends. The parser's
  buffer of 7 tokens is filled by the longest streams (`RecvNothing`). Two
  callers and two workers of the draft, limit 1; `MaxPosts` bounds the semaphore.

### Fairness

Safety runs have none. `ThreadPool!Fairness`: weak fairness for the steps of
each thread (a runnable thread is scheduled, `process()` returns) and strong
fairness for taking the mutex, which is free again and again. Without the strong
part a worker might lose the race for the mutex for ever to callers that append
and are refused (TLC finds that behaviour when it is left out). POSIX does not
promise it; it is justified here because `main()`, the only caller, goes through
`epoll_wait()` and `recv()` between two `append()` calls and leaves the mutex free
meanwhile. No fairness for `append()` calls, the
destructor, or signals. `WebServer!Fairness`: weak fairness for `main()` as one
thread and for each worker; clients owe nothing, which is why `BytesAreRead`
excepts a client that does not take its reply. `HttpConn!FairSpec`: weak
fairness for the server's step only, and `RequestAnswered` makes the same
exception. In `MCProcesses`: weak fairness for each seller, for `main()` that
joins, for the parent that reaps, and for both ends of a pipe: they are threads
or processes that run when they can, and `trylock` with `usleep` never blocks. In
`MCServers`: weak fairness for `main()`, each thread, the parent and the event
loop, and for the *departure* of each client: nothing in the code ends a
connection whose client stays, and `AcceptedIsServed` and
`WaitingClientAccepted` say what holds if clients leave.

## 4. Proofs

Every safety property that a passing run checks is the subject of a theorem,
for all values of the constants (`EveryLiveConnOwned`, which depends on one, by way
of `NobodyForgotten`). `PROJECT.json` lists the theorems; what follows
is the inductive invariant of each and why the property alone is not enough. The
assumptions are those the modules state about their constants (finite disjoint
sets of threads, positive limits); no theorem has another hypothesis.

**The web server**

- `ThreadPoolProofs`. The inductive invariant is `IInv == TypeOK /\ ItemOK /\
  Balance /\ QueueBound`. `NoStrandedRequest` alone is not inductive with
  `TokenBuysRequest`: a worker that takes must know that no token is left over.
  `Balance` says that the queue is at most tokens + callers about to post +
  workers on their way, and *equal* to it as long as no wait was interrupted;
  `ItemOK` that a thread in the middle of an operation has a request. The lemmas
  `CallerMoves` and `WorkerMoves` say how one move changes the two counted sets.
  `Refinement`: each step maps to `Accept`, `Dispatch` or `Complete`, or is
  invisible (lemma `Invisible`).
- `WebServerProofs`. The inductive invariant adds to the three safety properties
  that only open descriptors are anywhere (`OwnedAreOpen`: a fresh descriptor is
  nowhere, so arming it gives it its only owner) and that an idle worker has
  nothing to store. It is proved per descriptor: `TakenApart` splits it, each
  action moves one descriptor, `Elsewhere` keeps the others.
  `OnlyFullQueueForgets` follows from `OwnerKept`: the one step that takes a live
  connection's owner away is the read whose `append()` is refused (`Refused`).
  `NobodyForgotten` says with it that all live connections, new ones included, keep
  an owner up to the first such step; nothing is assumed about the limit, so it is
  the theorem behind `EveryLiveConnOwned`, which holds only where the limit excludes
  the refusal.
  `CountIsExact` proves `CountDriftsByRaceOnly`: `Counts` says that what a thread is
  about to store, or the last one stored, is the number of live connections, and is
  inductive for behaviours in which no thread loads the count while another is about
  to store it. That these exist is not a property of the program
  (*server_count_race* shows the others); it is the premise of the property itself.
- `HttpConnProofs`. `ConnTypeOK` splits the type invariant as the module does
  (network, request, answer). `ConnParsesAsAWhole`: the inductive part is
  `LinesRead`, which relates the state of the resumable parser (`start`,
  `checked`, `checkState`, `contentLength`) to `Verdict`, the meaning of the whole
  buffer: everything before `start` is lines, the first a good request line, the
  others headers, and no line ends between `start` and `checked`. That bytes
  which arrive later leave all this true is `ParsedStays`, `HeadersStay` and
  `RequestLineStays` of `HttpParseProofs`, which also hold what one call of the
  line parsers learns (`RequestLineRead`, `HeaderRead`, `EmptyLineRead`).
  `ConnFileMappedForReply` needs that the mapping follows the verdict from
  `do_request()` on, before there is an iovec to look at (`MappingInv`);
  `ConnMappedUntilReplyOver` is the action property from the same invariant. Both
  hold whatever `m_file_address` was before the first request.

**Chapters 4 and 5: `ServersProofs`**

- `ThreadedServerOwnsSlots`. `SlotsInv` adds to the property that started threads
  have slots of their own, with a descriptor in each, that `main()` starts a thread
  only in an empty slot, and that the descriptor it has accepted is open and
  nobody's. A thread's name is always free, for there is one more than slots (`FreeThread`).
- `UdpEchoReachesSender`. `DatagramsInv` says of every datagram on the way who
  sent it, and, as long as nothing was duplicated, that there is one of a client's
  at most, with the line it sent last.
- `LoopsDieByResetOnly`. `PositionsInv` says that the positions of the array hold
  open connections, each once, `ReadyInv` what `select()` or `poll()` reported and
  the loop has not come to: these descriptors are still open and readable,
  because the loop only ever closes the one it serves.
- `ParserAnswersAsAWhole`. As for HttpConn, with the same lemmas.
- `DraftJams`. `Jammed`: the lock is held from the first request on.
- `ServersSafe` says it all of `MCServers`, with the type invariant.

**Chapters 2 and 3: `BoundedBufferProofs`, `ReadersWriterProofs`, `ProcessesProofs`**

- `BoundedBufferProofs`. `NumberForEachToken` is not inductive; `Balance` says
  where every unit of room and every number is: in the vector, in a semaphore, or
  with a thread between wait and post. `Moves` says how one thread changes the
  counted sets. From `Balance` follows that a producer never pushes into a full
  vector nor a consumer pops an empty one, which is `StackRefinement`.
  `NoSleepOverNumbers` is inductive by itself.
- `ReadersWriterProofs`: `LocksHeld` derives who holds the lock from where the
  threads are, `Counted` the counter from those inside.
- `TicketsAreSoldOnce`. `SaleInv` has the balance `ticketsNum` + sum of what the
  sellers sold = `TicketsNum`, and `saleSum` = the sum over those joined. The sum
  is a fold over a set, so what one sale adds to it (`OneMore`) is an induction
  over finite sets. The library's induction theorems take an operator and cannot
  be used; `SubsetInduction` states induction with a *set* of subsets in the
  place of the predicate and follows from the least cardinality of a
  counterexample (`NatLessThanWellFounded`). The recursive function behind the
  fold exists (`SumsExist`) and is the fold (`SumIsFold`).
- `ChatGoesOn`. `RaceHasWinner`: whoever lost `mkfifo()` lost it to a partner that
  is past it. `OneOfThemSpeaks`: A counts as the speaker before the opens are
  done, so that there is one at every moment. That the opens cannot wait for each
  other is read off the order in which both open the FIFOs.
- `SignalsKillOnlyInTime`. Time passes freely between `setitimer()` and `signal()` in
  deamon.cpp, and the theorem says when exactly the process dies of it. `TimerInv`
  knows how much of the first interval is left for each delay.
- `JoinedThreadPrintsAll`, `MappedTextIsWhole`, `SegmentsAreRemoved`,
  `PipeHasOneMessage`: small invariants about who may run when; together they are
  `NothingLeftAtExit` and, with the chat, `TalkersKeepTheirTurns`.
- `NoSignalLost` and `EndOfStreamIsTheEnd` are the safety behind two liveness
  properties: a zombie always has a pending signal or a running handler, and the
  end of the stream is met only when everything has been read.
- `ProcessesTypeCorrect` and `ProcessesSafe` say it all of `MCProcesses`. The
  latter includes the refinement of `BoundedStack`.

**Only model-checked**: liveness (`EveryRequestTaken`, `BytesAreRead`,
`HangupIsNoticed`, `RequestAnswered`, `AcceptedIsServed`, `WaitingClientAccepted`,
`SentIsEchoed`, `SaleEnds`, `EveryChildReaped`, `StreamIsReadToEnd`): it rests on
fairness and ENABLED, which the prover does not reason about.

## 5. Not modelled

*In the web server*: set-up failures before the loop (assertions), `epoll_wait()`
failing for good, `pthread_create()` failing, SIGPIPE (ignored by the program),
`perror` and logging. Paths near FILENAME_LEN and responses near
WRITE_BUFFER_SIZE (no response of the program comes near). Content-Length is
absent or one positive number. `cond` of `locker.h` is never used.

*In the chapters*: the functions that no `main()` calls (`server()` of
tcp_server.cpp, `signalTest`, `test_alarm`); the session set-up of deamon.cpp;
failures of system calls in set-ups.

*Whole programs*: the CGI process pool does not compile (`m_instence`,
`m_pidfd`, a loop variable used after its loop, `process()` missing), so that
its behaviour is not determined; `local_server.cpp` does not compile either.
`http_client.cpp` sends one fixed request for ever, `pthread_cancel.cpp` depends on
what the library leaves of `cout`. `byte_trans`, `ip_trans`, `bigorsmall`,
`fork.cpp`, `kill.cpp`, `pipeNoBlock.cpp`, `copy_with_mmap.cpp` and chapter 1 are
straight-line exercises of one call or one function. `markdown/`, `html/`, the
build directories (with the CompilerId files of CMake, the longest sources of
the repository), `.vscode` and `.idea` are no code of the system.

## 6. Plan

1. Done: the web server, the programs of chapters 2 to 5; a theorem for every
   safety property that a passing run checks.
2. Left: the safety behind the other liveness properties, as `NoSignalLost` is
   behind `EveryChildReaped`: a full table of tcp_server.cpp has a client per slot
   (`AcceptedIsServed`), what is unread of a live connection is armed, reported,
   queued or with a worker (`BytesAreRead`, whose first half is `NobodyForgotten`),
   and an unanswered request finds its connection waiting for events
   (`RequestAnswered`).
