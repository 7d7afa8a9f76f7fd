# A verification project for cpp_study

The repository is a collection of small C and C++ programs: a thread pool, a
ring of messages in shared memory, a heartbeat pair that fails over between two
machines, chat and HTTP servers, a hash table, classical algorithms. The
programs share no common core, so this project models them one by one, starting
with those that are concurrent, that talk to another process, or that keep state
which outlives a call. TLA+ modules are translated from the code under `src/`;
TLC checks them on small instances, and TLAPS proves theorems about them for
every value of their constants.

`PROJECT.json` maps each definition to the lines it models, lists the runs, a
mutant for every property (a plausible bug that the property must catch), the
hazards the properties are aimed at, and the theorems.

## Inventory

| Component | State | Operations | Interaction | What is hard | What makes it correct |
|---|---|---|---|---|---|
| pthread pool, `temp/pthread_pool.cpp` | list of jobs, list of workers, mutex, condition | `createPool`, `addJobToPool`, `workThread` | threads over a shared list | lost wakeups, double execution (and double `free`) | a job is in one place and is run once; no worker sleeps beside a waiting job |
| ShareMemory ring, `wzq_project/src/component/shm.{h,cpp}`, `application/app_shm.cpp` | control block (two positions, a direction) and bytes in a System V segment that outlives its users | `init`, `writeData`, `readData` | processes over unlocked shared memory | telling empty from full, laps, refused calls that still change the state, overlapping calls and initialisations, restarts | it is a FIFO queue |
| HeartBeat, `teleHeartBeat/` | retry count, error flag, main/backup flag, interfaces, descriptors | `RunAsClient`, `ExecClient`, `ExecServer` | TCP between standby and main machine | blocking reads, lost descriptors, half-done take-over, crashes | no early take-over; take-over and hand-back happen; every probe returns |
| thread_add_minus, `wzq_study/thread_add_minus.{h,cpp}` | one integer | `add`, `minus`, `test_thread` | threads, one condition | a wait in an `if`, one signal per adder, joins that hang | the sum accounts for every thread; few threads can be stuck |
| pipe, `temp/pipe_test.cpp` | bytes in a pipe | write, read | father and child | texts split and merged by `read`, SIGPIPE | the child never stops too early; both end |
| poll chat, `socket/network/poll_chat_{server,client}.cpp` | table of sockets, a buffer and a pointer per descriptor | accept, error, leave, receive, send | one thread, many clients | removal during a pass, pointers into other users' buffers, reused descriptors | the table is exact, the latest message gets through |
| MySocket, `wzq_study/mysocket.cpp`; select server, `socket/{server,client}.cpp` | tables of clients, descriptor sets, counters and maxima | accept, answer, close | one thread, many clients | full table, freed slots, stale sets, writes to clients that left | every client is watched and answered |
| EpollSocket, `wzq_project/src/component/epoll_socket.cpp`; `epoll_{server,client}.cpp` on several ports; HTTP server, `wzq_http/{http,client}.cpp`; edge triggered server and non-blocking connect, `socket/network/{epoll_tcp_udp,select_non_block_connect}.cpp` | epoll set, open connections, the batch being handled | accept, receive, send, close | one thread, many clients | descriptors handed on within a batch, merged edges, SIGPIPE, descriptors lost to clients that left, a connect that times out | no event is about another client, no edge is lost, requests are answered, ends are noticed |
| libevent programs, `socket/libevent/{zhongji,gaoji}_{client,server}.cpp` | bufferevents and events, each held by the other's callback | the callbacks | libevent's loop, TCP, the terminal | use after free, lines typed while connecting | nothing freed is used, no line is lost |
| CHash and CIndex, `wzq_project/src/component/hash.{h,cpp}` | array of indexes, buckets, a cursor | `BuildIndex`, `Insert`, `Find`, `Scan`, `Next` | none | the array grows with gaps, insertions during a scan | each index is a map |
| readIni, `wzq_project/src/component/readIni.{h,cpp}` | a map, a flag | `init`, `readString`, ... | a file that is edited | readings that fail half way and are repeated | the map is what one version of the file says |
| algorithms, `wzq_study/{avltree.cpp,minHeap.h,sort.cpp}`, `temp/reverse_list.cpp` | a tree, a heap, an array, a list | insert, add, top, sort, reverse | none | boundaries, pointers changed in order | order and elements are kept at every step |
| MRO and MRE files, `temp/dealMROandMRE.cpp` | directories, vectors and counters that outlive a file | `main`, `dealingFile`, `createCsvFile` | shell commands whose results are not looked at | state left by earlier files, commands that fail | a table holds the rows it should |
| the rest (string class, demonstrations, file tools, small network examples) | little | one task each | | | not modelled, see the end |

The programs share no state with each other; the parts that interact (threads
over a list, processes over a segment, servers and clients over sockets) are
composed inside a module.

## Modules

| Module | Models | State and actions |
|---|---|---|
| `JobPool` | what a pool promises | a status per job: new, queued, running, done |
| `ThreadPool` | `pthread_pool.cpp` | program counters of main and of the workers, mutex owner, both lists; one action per lock, unlock, wait, list change, callback, and per failed `malloc` or `pthread_create`; spurious wakeups |
| `ThreadPoolProofs` | theorems about `ThreadPool` | |
| `MessageQueue` | what the ring offers to processes that take turns | a queue and the result of the last call |
| `ShmRing` | `shm.cpp`, `shm.h`, `app_shm.cpp` | the control block and the bytes; an action is a whole `init`, `writeData` or `readData`, accepted or refused; processes start, return and are killed between any two calls; the segment stays |
| `ShmRace` | the same code, overlapping | one writer and one reader, a step per load, store, `memcpy` and `memset`; the functions of `ShmRing` through INSTANCE |
| `ShmInit` | `init` of several processes | the test of `iInitFlag` and each store of the control block is a step, and kills come between any two; the other calls are whole |
| `ShmRingProofs` | theorems about `ShmRing`, `ShmInit` and `ShmRace` | |
| `AddMinus` | `thread_add_minus.cpp` | a place per thread; an action is a critical section, or its part before or after the wait |
| `Pipe` | `pipe_test.cpp` | bytes in the pipe, how far into a text the child is, who holds a writing end |
| `HeartBeatClient` | `RunAsClient` | the loop of the standby machine, one action per outcome of a probe and per command; descriptors that failed probes leave open |
| `HeartBeatProbe` | `ExecServer` and `ExecClient` | system call by system call, with backlog, connections in every state the two ends can leave them in, crashes and vanishing machines on both sides |
| `ProgramsProofs` | theorems about `HeartBeatClient`, `Pipe`, `AddMinus` and `HeartBeatProbe` | |
| `TcpEnds` | external: the two ends of a TCP connection | operators only: send, receive, close and the arrival of a reset on a pair of ends; `"prov"` and `"pipe"` tell the send that provokes a reset from the one that raises SIGPIPE |
| `ChatServer` | `poll_chat_server.cpp` | the table, the slots, `revents` of the current pass; an action per branch of the loop |
| `ChatServerProofs` | theorems about `ChatServer` | |
| `MySocketServer` | `mysocket.cpp` | `AsServer`: select, accept, one action per entry of the pass; `AsClient`: ask, get the answer, leave |
| `SelectServer` | `socket/server.cpp`, `client.cpp` | the slots, `nready`, `maxi`, `maxFd`, both sets; time, echo, close and SIGPIPE |
| `SelectServersProofs` | theorems about `MySocketServer` and `SelectServer` | |
| `EpollEvent` | what is done with one event | shared by the next two |
| `EpollSocket` | `epoll_socket.cpp` | the rest of the batch, the epoll set and which descriptor a connection has; the client loop per client |
| `EpollPorts` | `epoll_server.cpp`, `epoll_client.cpp` | several ports, `icnt`, and a batch on each side |
| `HttpServer` | `http.cpp`, `wzq_http/client.cpp` | texts known by the words `DealRecv` looks for, of which one `recv` takes several and may cut the last; pages, browsers and a client that floods |
| `EdgeTriggered` | `epoll_tcp_udp.cpp`, `select_non_block_connect.cpp` | edges not yet reported, the read loop of a connection, datagrams, a connect that may time out |
| `Libevent` | the four `zhongji` and `gaoji` programs | allocated objects, the callbacks still to be called in this turn, lines in the terminal, the buffers and the sockets |
| `EpollServersProofs` | theorems about `EdgeTriggered`, `EpollPorts` and `HttpServer` | |
| `EpollSocketProofs` | theorems about `EpollSocket` and `Libevent`, and lemmas about `TcpEnds` and `EpollEvent` | |
| `KeyValueMap`, `CHash` | what `hash.h` promises, and `hash.h` | maps; an array of bucket vectors and the cursor of a scan |
| `MinQueue`, `MinHeap` | what `minHeap.h` promises, and `minHeap.h` | a bag; the array, with a step per turn of a sift |
| `AvlTree` | `avltree.cpp` | nodes with element, depth, parent and children; a step per call of `insert_into_tree` and per turn of `recover_avl` |
| `Sort` | `sort.cpp` | the array, the counters of the loops and the calls of `quick_sort` still to be made |
| `ReverseList` | `reverse_list.cpp` | the `next` fields of the allocated nodes; a step per iteration |
| `ReadIni` | `readIni.cpp` | the file as lines, the map, the flag, leaked files; a step per line |
| `MroFiles` | `dealMROandMRE.cpp` | the directories, the file being read and its line, the vectors, counters and tables |
| `SequentialProofs` | theorems about `ReadIni`, `MinHeap`, `CHash`, `MroFiles`, `ReverseList`, `Sort` and `AvlTree` | |

An operator whose comment says "A bug for X" is the mutated form of X that
`PROJECT.json` names; no specification uses it.

`MC*.tla` and `MC*.cfg` are the TLC instances. Six of the modules, the suites
(`MCPrograms`, `MCSelectServers`, `MCEpollServers`, `MCLargerServers`,
`MCSequential` and `MCShmOverlap`), explore several programs in one run. A variable
`prog` chooses in the initial state which of them runs; the others keep their
initial state, so the state space is the union and not the product of theirs.
A property of a suite is the conjunction of the named properties of its modules
(with the module's `TypeOK`), and a liveness property is implied by the fairness
of its own program only: `prog = "Sort" /\ Arrays!Fairness => Arrays!Ends`. In
`MCPrograms` the constant `Progs` says which programs a run explores: the probe
of the heartbeat is alone in `MCHeartBeatProbe.cfg`, with its fairness
(`ProbeSpec`), and the others are in `MCPrograms.cfg`.

A suite EXTENDS one of its modules and takes the others with INSTANCE; their
constants are constants of the suite, to which the .cfg gives values. So the
theorems, whose modules EXTEND the suites, state the definitions that the runs
check, of the specification of each program by itself and for all values of the
constants. The assumptions on constants of a module that is only instantiated are
definitions of that module, and the suite ASSUMEs them of its instances.

### Correspondence with the code, where it is not one to one

- *ThreadPool*: nothing ever sets `worker->terminate`, so the exits of
  `workThread` have no action. `LIST_ADD` and `LIST_REMOVE` are modelled by what
  they do to the sequence of elements, not by their pointers. Returning from main
  ends the process wherever its workers are.
- *ShmRing*: a cell stands for a byte. The first cell of a message holds the
  message as a whole, the others a mark; a cleared cell reads as a head of size 0.
  Messages have at least one byte: `judegeRead` would take an empty one for the
  end of a lap, and `app_shm` never sends one. A failure of `shmget`, `shmat` or
  `shmdt` makes app_shm return and is `StopEarly`.
- *ShmRace*: the build has no optimisation (`src/MakeCommon`), so every operand
  is loaded where the source names it; the processors keep stores in order.
- *ShmInit*: `startPos` and `endPos` always get the same values and are left out.
- *AddMinus*: `tids[i]` of a thread that could not be created is not initialised;
  its join is modelled as an error return. The real `NUM_THREADS` is 10.
- *HeartBeatClient*: `iRetryTimes` is only compared with `RetryTimes` and is
  capped one above it. A blocked read returns only if the environment lets it.
- *ChatServer*: `events |= ~POLLIN` sets every bit and `|= ~POLLOUT` clears none,
  so a user's events are either the initial ones or all. What clients do during
  a pass is noticed by the next poll; only a reset matters at once. A text is
  known by its speaker; descriptors are interchangeable, so the kernel's choice
  of the lowest is replaced by any.
- *Servers on TcpEnds*: messages have the size of the buffer, so a `recv` takes
  one, and an end holds `Room` of them. The exception is `HttpServer`, where a
  `recv` takes any number of the texts that have arrived, and may cut the last one.
- *EpollSocket*, *SelectServer*: descriptors are numbers and the kernel gives out
  the lowest free one (in `EpollSocket`, `NewFd(fd)` says that no lower one is free),
  since what happens to a number that is handed on is the question. Elsewhere a descriptor is known by the client at the other end.
- *EpollPorts*: one run of the client against one run of the server.
- *HttpServer*: the batches of `epoll_wait` are left out; only the server reads
  from its ends, so what was reported stays readable. A text is the set of words that
  `DealRecv` looks for in it ("GET ", "msisdn"). When `recv` returns the first part of a
  text, the rest is a text of its own, and a word that was cut through is in neither
  part. Empty parts are left out, and a text that fills the buffer of 1024 bytes, which
  leaves no terminating zero, is taken to end there.
- *Libevent*: libevent's loop is external: it finds ready events, calls their
  callbacks in some order, and does not call an event that was freed.
- *AvlTree*: the branches of `recover_avl` for a node out of balance are empty in
  the code, so there are no rotations, only depths that are put right.
- *CHash*: keys are numbered in the order of `memcmp`; hash codes are natural
  numbers. `HashFunc1` (hash.cpp:57) adds up signed characters, of which the last,
  `name[31]`, is set neither by the constructor of `TPersonKey` nor by its
  assignment (line 52): the code can be negative, and then `hashCode % m_Size`
  (hash.h:163) is no index of the vector. The model covers what the class does for
  a hash function that keeps to the natural numbers.
- *ReadIni*: the test for comments (readIni.cpp:62) wants one character to be two
  things and is never true, so a comment with a `=` is a pair like any other.
- *MroFiles*: a line is one of a few kinds; the numbers in it are left out but for
  the two counters that carry over from row to row. A file that was copied can be
  opened: the early return of a failing `fopen` (dealMROandMRE.cpp:282) is left out.
- *MinHeap*: `topItem` is called on a heap that holds something. On an empty one
  (minHeap.h:66-76) it would set `iSize` to -1, and nothing after that is a heap.
- *CHash*: `Scan` of an index is called once index 0 exists.
- *Libevent*: the sizes of the callbacks' buffers are left out; a line fits them.

## Runs

| Run | Instance | Shows |
|---|---|---|
| `thread_pool` | 3 workers, 3 jobs | exclusive access to the list, one place per job, no idle worker beside a job, every job runs, refinement of `JobPool` |
| `shm_ring` | 11 cells, heads of 2, totals of 3, 3, 5, 10 and 12 cells | the direction tells the lap, messages do not overlap and cleared cells stay clear, an empty ring refuses a message at most once, refinement of `MessageQueue` |
| `shm_overlap` | `ShmInit`: a writer and a reader, 8 cells; `ShmRace`: 12 cells (up to `RaceEnd`), totals of 3 and 5 | nobody passes `init` before the positions are set; the control block is sound once initialised, unless a process was killed between two stores; messages are lost only to a late initialisation; overlapping calls deliver messages whole and in order, and leave a sound control block |
| `programs` | `HeartBeatClient` (2 interfaces, 1 retry, 5 descriptors), `AddMinus` (8 threads), `ThreadPool` (size 0, 4 jobs), `Pipe` (its own sizes) | interfaces agree with the flag, no early take-over, take-over and hand-back happen (but for a take-over that stopped at `ps`, see the limits below); no update of `g_sum` is lost and few threads can stay in the wait; the pool size is clamped, so jobs run; the child never outruns the father and cuts a text only when texts have piled up; all end |
| `heartbeat_probe` | `HeartBeatProbe` of `MCPrograms`: 2 clients, 3 connections, backlog 2, 2 descriptors | descriptors are lost only to clients that went away, no mutual wait, every probe returns |
| `chat_server` | 3 users | the table is exact, no uninitialised pointer is used, the latest message is the one to be sent |
| `select_servers` | `MySocketServer` and `SelectServer` (2 slots, 3 clients), `ChatServer` (2 users) | no read blocks, no slot is leaked, `nready` is exact and everybody is watched, quiet leavers do no harm; questions are answered, messages echoed, users that left are removed |
| `epoll_servers` | `EdgeTriggered` (2 clients, 2 datagrams), `EpollPorts` (3 ports), `EpollSocket` and `HttpServer` (2 clients, 2 descriptors), `Libevent` (1) | no edge is lost beyond those that merged, connect returns only a connection that was made, though the server may have ended it since, `icnt` covers the open connections, a browser gets one page per request and one more per request that `recv` cut; requests are answered and ends are noticed |
| `larger_servers` | `EpollSocket` (3 connections, 2 descriptors), `Libevent` (2 clients) | no event is stale, the epoll set is exact, nothing freed is used, no line is lost, nobody that left nothing unread kills the server |
| `sequential` | see the header of `MCSequential` | the heap is a priority queue and the hash table maps; order and elements are kept in the tree, the arrays and the list; the configuration map is the file; tables hold their rows; all end |
| `shm_usage` | one process | *violated*: the usage message of app_shm swaps reading and writing |
| `mro_copy` | four files | *violated*: where /home is writable the directory is removed before the files are copied into it, and nothing is dealt with |

Refinements: `ThreadPool` of `JobPool`, `ShmRing` of `MessageQueue`, `CHash` of
`KeyValueMap`, `MinHeap` of `MinQueue`.

### Bounds

Three workers give a worker that sleeps, one that is on its way and one that is busy
while main adds a job, which are all the roles `NoIdleWorker` tells apart. The ring of
eleven cells is passed many times by messages of different sizes, with a message that
fits only an empty ring and one that never fits, so that all branches of `judegeWrite`
and `judegeRead` and all ways to leave a gap at the end occur; the theorems cover every
other size. Two clients of the heartbeat are enough for one to wait behind the other at
either address, and a third connection for one that was given up on. Three users are
needed in the chat for one to leave while a second is owed its text and a third is
moved.

Two slots and three clients fill a table, turn one client away, and let the slot below
the highest be freed and taken again. Two descriptors and three connections of
`EpollSocket` let a descriptor be closed and given out in one batch. Two messages per
end (`Room`; `Hold` in run `epoll_servers`) leave something unread when a client goes,
and fill an end (one in `EdgeTriggered`, where a message and the end of the stream are
already two things to be found by one edge). One cut per connection of `HttpServer`
(`MaxCuts`) gives a request two pages, and lets the surplus one meet the next request;
the bound of `PagesFit` grows by one with each cut, and is proved for any number. Two clients of `EdgeTriggered` are enough
for connections to merge, and two datagrams likewise. Six values give the heap a third
array and three levels; two indexes and three keys of `CHash` give a gap in the array
and two keys in a bucket (while one index is scanned the other one has at most one key);
seven nodes of three elements give every shape of tree with duplicates; five elements of
four values give `my_partition` empty, single and equal parts; files of three lines fail
at each line, and files of four with two sections enter a section twice.

`FdLimit`, `iMaxConnNum`, `NConns`, `NFds`, `MaxOpen`, `CONNECT_NUM` and `RetryTimes`
are small so that they are reached; `MaxTransit`, `MaxSize`, `MaxNodes`, `MaxCnt`,
`MaxLines`, `MaxEdits` and `MaxCuts` bound what would grow. No run uses a state constraint; in `MCSequential` the
environment is limited in three places (`ShortFiles`, `FewBeside`, one failed reading of
the longer files), which the theorems are not.
Symmetry of clients and descriptors is used in `chat_server` and `larger_servers`, which
check invariants and action properties only. Deadlock is checked except in `sequential`
and `mro_copy`, whose programs end.

### Fairness

- *ThreadPool*, *AddMinus*, *Pipe*: weak fairness of every thread or process: one
  that can go on does. Nothing is assumed about who gets a mutex, or that
  `getchar` returns, or that a spurious wakeup happens.
- *HeartBeatClient*, *HeartBeatProbe*: the programs go on when the system call
  they are in returns; a read from a machine that says nothing need not return,
  nobody need come back.
- *Servers*: the loop of the server goes on, and a reset that was provoked
  arrives; nobody need connect, speak or leave. Clients that the code makes read
  read what is there. `SF` is used where the loop serves all ready descriptors in
  turn but a step may be disabled in between: `Accept` of `MySocketServer`,
  `Accept`, `Recv` and `RecvFails` of `HttpServer` (the batches are left out there,
  and epoll rotates its ready list), and the reading client of `SelectServer`.
- *Sequential programs*: they go on.

### What the runs say about limits of the code

The properties name the exceptions the code really has, and without them they
fail:

- the standby does not take over while it is blocked in `Read` (HeartBeat.cpp:275)
  or `popen` keeps failing; it does not hand back when failed probes have used up
  its descriptors. A take-over that stops at `ps` (352-364) has the interfaces up and
  the flag unchanged: if the main machine answers before the next attempt, the test of
  line 378 is false for good, and both machines have the interfaces (`psFailed` in
  `StandbyIsConsistent` and `HandsBack`). The server serves nobody after one client vanished without a
  word (224);
- in `AddMinus` minus threads can be left in `pthread_cond_wait` for ever;
- in the chat a text is lost when another one is spoken before it was sent, or when
  its speaker leaves (POLLRDHUP is looked at before POLLIN, poll_chat_server.cpp:119);
- in the ring, a process that found `iInitFlag` unset and stores the control block
  after others have used it loses their messages; one killed between the stores of
  `iInitFlag` and `iDir` leaves a segment that refuses every call. When writer and
  reader wrap at the same time one of their negations of `iDir` may be lost: both are
  refused and exit, and a ring that holds messages may look empty to those that
  follow. With more than
  one writer or reader, or when a refused process is started again while the other
  is inside a call, both may negate `iDir` in one lap, and order is not kept:
  `ShmInit` and `ShmRace` have one writer and one reader;
- `EpollSocket`, `EpollPorts`, `SelectServer` and `HttpServer` are killed by SIGPIPE
  when a client leaves while something is still to be read, or, in `SelectServer`,
  before it is accepted; the client of `EpollPorts` never ends after a connection
  was closed by an error, since `icnt` is not decreased there;
- `HttpServer` never closes the connection of a client that left, and accepts
  nobody when descriptors have run out. It answers whatever one `recv` returns
  (http.cpp:238-245): a request that was cut gets a page per part, the part without
  "GET " gets "hello", and the page too many is taken for the answer to the next
  request (`PagesFit`);
- `EdgeTriggered` accepts one connection per edge: one that arrives upon an edge
  not yet reported waits until another comes. `non_block_connect` looks at `SO_ERROR`
  alone, so it also returns a connection that the server has ended since; and one that
  is refused at once leaves its socket open (select_non_block_connect.cpp:32-36);
- `my_partition` does not return when another element equals its pivot
  (sort.cpp:91): `Ends` asks for distinct elements where `quick_sort` is called;
- a reading of `readIni` that fails leaves its file open; when the descriptors are
  used up no reading succeeds.

Two further observations have no run, as no line of the repository says otherwise
in a way a run could refute: readIni.cpp:80 compares `sSection[0]` with `'0'` and
not with `0`, so its "not section!" branch is not taken for a pair before the first
section, which goes into the section with the empty name; and
dealMROandMRE.cpp:450-453 runs `cd /home` in one shell and `rm -rf hu_file` in
another, so the directory it removes is the one below the working directory.

## Proofs

Every theorem is about the specification of one program, for every value of the
constants that the named assumption of its module allows. Together the theorems
state every invariant, action property and refinement of the passing runs, except
what needs fairness. Each rests on an inductive invariant; the proof of the step has
one part per action, and under it one per conjunct that the action can disturb.

| Theorem | States | Assumptions on the constants |
|---|---|---|
| `ThreadPoolProofs`: `TypeCorrect`, `ListIsProtected`, `EachJobInOnePlace`, `NoWakeupIsLost` | the invariants of run `thread_pool` | `PoolSize \in Int` (the code clamps it), `JobSize \in Nat` |
| `ThreadPoolProofs`: `Refinement` | `ThreadPool` implements `JobPool` | the same |
| `ShmRingProofs`: `DirIsSound`, `CellsSound`, `NotRefusedForEver` | the invariants of run `shm_ring` | messages of at least one byte, heads of at least one, room for more than a head; the marks are no messages |
| `ShmRingProofs`: `RingIsQueue` | `ShmRing` implements `MessageQueue` | the same |
| `ShmRingProofs`: `InitSafe` | `InitIsSafe` of run `shm_overlap` | also: one process writes and another one reads |
| `ShmRingProofs`: `RaceSound` | `RaceIsSound` of run `shm_overlap` | those of the ring, for the segment of `ShmRace` |
| `ProgramsProofs`: `StandbyConsistent`, `TakeOverIsLate` | `StandbyIsConsistent` and the action property `NoEarlyTakeOver` of run `programs` | numbers of retries, interfaces and descriptors are naturals |
| `ProgramsProofs`: `PipeSound` | `PipeIsKept` of run `programs` | texts of at least one byte, the child's buffer is longer than a text |
| `ProgramsProofs`: `ThreadsAccounted` | `ThreadsAreAccounted` of run `programs` | an even number of threads |
| `ProgramsProofs`: `ServerSound` | `ServerIsSound` of run `heartbeat_probe` | numbers of connections and backlog are naturals, at least one descriptor |
| `ChatServerProofs`: `TableSound`, `TextsSound` | the invariants of run `chat_server` | at least one user, at least as many descriptors as users |
| `SelectServersProofs`: `MySocketSound` | `MySocketIsSound` of run `select_servers` | finitely many clients that are not the listening socket, at least one slot |
| `SelectServersProofs`: `SelectServerWatches`, `QuietLeavers` | `SelectWatchesAll` and the action property `QuietLeaversAreHarmless` of run `select_servers` | finitely many clients, at least one slot, room for one message |
| `EpollServersProofs`: `EdgesKept`, `ConnectReturnsMade` | `EdgesAreKept` and the action property `OnlyMadeIsReturned` of run `epoll_servers` | finitely many clients that are not the two sockets; backlog, room and datagrams of at least one |
| `EpollServersProofs`: `PortsAndPagesKept` | `PortsAndPages` of run `epoll_servers` | at least one port, descriptor and room for one message; finitely many clients |
| `EpollServersProofs`: `HttpUnharmed` | `UnharmedByReadClients` of `HttpServer`, a part of `EverybodyIsAnswered` | the same |
| `EpollSocketProofs`: `BatchSound`, `ReadClientsDoNoHarm` | `BatchIsSound` and the action property `UnharmedByReadClients` of run `larger_servers` | finitely many connections, at least one descriptor and room for one message |
| `EpollSocketProofs`: `CallbacksSound` | `CallbacksAreSound` of run `larger_servers` | finitely many clients, room for one message |
| `SequentialProofs`: `MapIsOneFile` | `MapIsTheFile` of run `sequential` | numbers of lines, edits and descriptors are naturals; the empty name is no section, name or value |
| `SequentialProofs`: `HeapIsBag` | `MinHeap` implements `MinQueue`, for every sequence of calls that takes only from a heap that holds something | finitely many integers; the size is a natural |
| `SequentialProofs`: `HashSound` | `CHash` implements `KeyValueMap` | hash codes are naturals, keys a finite set of naturals, at least one bucket; `NULL` and `END` are no values of the types they stand beside |
| `SequentialProofs`: `TablesSound` | `TablesHoldTheirRows` of run `sequential` | finitely many files; a row has an object above it |
| `SequentialProofs`: `OrderKept`, from `HeapSound`, `ScanSound`, `TreeSound`, `SortSound`, `ListSound` | `OrderIsKept` of run `sequential` | those above; elements of a tree are naturals, those of an array integers, lists have at least one node |

Why the invariants are needed and how the proofs go:

- *ThreadPool*. `MutualExclusion` needs to know who owns the mutex at each program
  counter (`LockInv`). That a job is in one place is preserved by `AddList` only if
  the job main is about to add is nowhere (`UntouchedInv`), which needs the range of
  main's loop counter (`CounterInv`). `NoIdleWorker` counts: each action changes the
  length of the list and the number of workers on their way, and the proof shows
  for each that the difference does not grow. The refinement rests on a step lemma:
  every action leaves all statuses alone or moves one job one place on.
- *ShmRing*. The control block holds two positions and a sign; nothing in it says
  where the messages are. `Laps(k)` does: the oldest `k` messages lie one behind
  the other from `readPos` on, the others one behind the other from `StartPos` to
  `writePos`, and the sign of `iDir` tells whether there are any of the second
  kind. `Holds` says that every message is where it was copied to and that every
  other cell is clear, which is why `judegeRead` recognises the end of a lap. With
  that, a read takes the head of the queue and a write that is accepted appends to
  it, which is the refinement; everything else leaves the queue alone.
- *ShmInit*. A process inside `init` found the flag unset, so if it is the writer
  nothing can have been written, and if it is the reader nothing can have been read
  (`StoresInv`): what it stores is there already, but for the position of a writer
  that has been at work. That store is the late one. Afterwards the queue says nothing
  about the segment, but what the writer wrote in its lap is whole (`LapInv`), by which
  the reader never passes it. The invariant of `ShmRing` holds until then (`RingsInv`).
- *ShmRace*. In the middle of a call the sign of `iDir` may be the old one, so `Lap`
  tells the lap of the writer from the places of the two processes; the messages lie
  as in a ring at rest but for the one being copied and the one being cleared
  (`Lies`). Each process has decided by values that the other may change since, and
  what it decided stays true (`WriterKnows`, `ReaderKnows`). All that fails when both
  wrap at once, where one of the negations of `iDir` may be lost; then both positions
  are at the start of the segment, and each process is refused and exits (`Doomed`).
- *HeartBeatClient*. `InterfacesFollowFlag` says nothing while the loops over the
  interfaces run; `LoopInv` says how far they are, and `CountInv` that the retry
  count runs ahead of the rounds that were really missed only when the descriptors
  are used up.
- *HeartBeatProbe*. No mutual wait: the connection that the server reads from is
  held by one client, whose place fits its state (`ClientInv`, `HeldInv`), and is in
  no backlog (`BacklogInv`). The leaks: every connection whose client is gone will
  cost the server at most one descriptor, so these are counted with those already
  lost (`LeftInv`); that is a cardinality argument over the connections.
- *AddMinus*. That few are left waiting is an argument about counts: each adder
  through that reaches `BOUNDARY` by itself has added at least four, and each minus
  thread through has taken one. So a minus thread waits, or such an adder finds
  nobody to signal, only when at least as many minus threads are through as such
  adders, and whenever anybody waits at least as many are through or woken (`Sums`).
  The sum itself is a number of pairs (`Ones`), one per unit added, so that what one
  thread does to it is a fact about a disjoint union and not about a fold.
- *Pipe*. A read takes at least a text if there is one and what is left if not, so
  reads never get ahead of texts written; a child that stops while the father goes
  on has made all its reads (`EndsInv`), so all texts are written by then. As long as
  the pipe has not piled up it holds whole texts (`TextsInv`).
- *ChatServer*. The pass goes over positions, and removal moves the last user into
  the place of the one that left. Positions beyond `user_counter` are quiet
  (`QuietInv`), so the pass never handles one; and what a user is owed is in the slot
  of another one, while a closed descriptor is owed nothing (`OwedInv`), so that
  neither a user's own message nor the reuse of its slot changes what it is owed.
- *MySocketServer*. Every connection is in one slot or once in the backlog also in
  the middle of a pass (`PlaceInv`); what select found readable and is still to be read
  is in the table (`LoopInv`); and a client has one question open at a time, which
  leaves few pairs of ends (`OneAtATime`).
- *SelectServer*. The same of slots, descriptors and clients (`Watched`, `PeersInv`).
  The count of what is ahead holds before `accept` too (`PassInv`), by a bijection from
  slots to descriptors; a client that waits finds a free descriptor by the pigeonhole
  principle. `QuietInv` follows a client that left quietly through the pass that
  finds it.
- *EpollSocket*. An event of the batch is the only one of its connection
  (`BatchInv`), so that no step but its own closes the connection; a descriptor given
  out by `accept` in the middle of a batch was free before, so no event is about it.
  That the server is killed only by clients that left something unread needs what
  the two ends know of each other (`EndsInv`): an end that has been told that the
  peer closed was reported readable, and unless something is unread `recv` returns 0
  before the second send.
- *EpollPorts*. A batch has one event of a connection, and what was reported as
  writable stays so until it is handled (`BatchInv` of a side): so the client closes
  only connections that are open, and takes each off `icnt` or counts it as an error.
- *HttpServer*. Since a browser waits for its page, its request, the page the server
  is about to write and the page to be read are one at a time, and one more for each
  text that `recv` has cut (`OneRequest`): a cut leaves the rest of the text to be read
  beside the page for its first part. A page is only written after something was read, and a
  client that left nothing unread has nothing to be read (`Follows`).
- *EdgeTriggered*. The count of what the server is behind is the number of reports
  that are due and of edges that merged (`BehindInv`); `PlaceInv` says that
  `epoll_wait` is called with no event left and that the connection being read is
  not among the events. Whatever a client does to its connection comes with an edge.
  A client that was not told of an end has the server at the other one, which holds the
  connection or has yet to accept it (`PeerInv`); so what `select` reports without an
  error was made.
- *Libevent*. Client by client (`ClientInv`): no event is due without the objects
  (`Turns`), and what was typed is in the terminal, in the bufferevent, on its way or
  read, or was lost with a connection (`Counts`).
- *ReadIni*. While a file is read, section and map are what the lines above the
  current one say (`ParseInv`); a reading that fails leaves the flag unset, and the
  next one begins with an empty map.
- *MinHeap*. `SkipInv`: the children of the place a sift has got to are in order with
  the parent of that place. The root is least because the first slot with a smaller
  value would have a parent with one. What the array holds as a bag changes by the
  cardinality of its slots of a value.
- *CHash*. Each key is in the bucket of its code and nowhere else (`HashTypes`), so
  that the map of an index is determined. A scan has seen of the keys it began with
  those the cursor has passed (`ScanOK`); a key inserted behind the cursor is passed
  and not seen, which is why it is not among those the scan owes.
- *MroFiles*. A table is a copy of a vector, so `VecInv` says what the vectors hold;
  `CurInv` says that the counters, which are global, count the rows since the last
  object of the file being read, if it has had one, and that no row comes before.
- *ReverseList*. What every node points to is known in closed form while the list is
  made (`MadeTo`), reversed (`TurnedAt`) and freed (`LeftTo`).
- *Sort*. The array with the pivot put into its hole only ever has two elements
  exchanged. Two elements that no call to come has in its range are in order and
  different (`Apart`), the ranges do not overlap, and what `my_partition` has passed is
  on the right side of the pivot (`PartInv`).
- *AvlTree*. A node has a greater number than its parent (`Linked`), so what is
  defined by going up or down the tree is shown from the first node on or from the last
  one back. Each depth is one more than the greatest of its children's except above
  the node `recover_avl` has reached (`DepthInv`); left of a node are smaller elements
  and right of it the others (`Searchable`), also along the path of an insertion
  (`PathInv`). The displays are walks, and where a node is in a walk is decided by
  the lowest node above both (`WalkIsRanked`).

The provers cannot instantiate a theorem that takes an operator, so the library's
induction theorems are of no use. Where an argument is an induction over numbers
(`RootIsLeast`, `WalkIs`, the node numbers of `AvlTree`) it is made with a least
counterexample, from `WFMin` and the order of the naturals; that determines also
recursive functions (`Walk`, the walks of `AvlTree`), as the functions that satisfy
their equation.

Some definitions are written so that they can be reasoned about: the next position
of the chat's pass and the lowest free descriptor of `EpollSocket` are described by
what they are and not as a minimum, nested cases are IFs, what `close` tells the
peer is an operator of `TcpEnds` (`Told`), the sum of `AddMinus` is a cardinality, and
what is defined by recursion is a recursive function.

Only model-checked, and why: every liveness property (`EveryJobRuns`,
`StandbyFollows`, `ProgramsEnd`, `EveryProbeReturns`, `ClientsAreServed`,
`GoneAreNoticed`, `EverybodyIsAnswered`, `SequentialEnds`). Liveness under fairness and
`ENABLED` are out of the prover's reach. What recursive definitions compute for
every input is proved only as far as the properties above say it.

## Plan

1. Done: the models of all components listed above, and the proofs of the section
   before.
2. Open: the pointers of `LIST_ADD` and `LIST_REMOVE` under the sequence of
   `ThreadPool`.

## Not modelled

- `secret` does not compile (`SEC_KEY`, line 130, is defined nowhere).
- `ldra`, `count_ip`, `file_test`, `wtmp` and `process` read and write files, without
  state that outlives a call; `mystring` copies buffers; `prime` is one function.
- The demonstrations of lambdas, binds, alignment, boost, regular expressions and
  `volte_config` are straight-line code.
- The libevent programs without bufferevents (`chuji_*`) hold the same conversation
  as those that are modelled; `example1` sets one timer.
- `socket/20160222` serves one client at a time, an earlier version of the select
  server; `tee_splice`, `httptest`, `gethost` and `addConvert` serve one connection
  or make one call; the long-connection example writes a byte past its buffer in
  every turn, so that what follows is not determined by its code.
- `delShm`, `Read` and `Write` of `EpollSocket`, and `DealNewConnect` are called by
  nothing. `readData` displays the control block through the pointer of the
  previous call, whose mapping was detached (shm.cpp:174); addresses are not
  modelled.
- Logging and display are left out everywhere, except in `AvlTree`, whose three
  displays are what the tree is for.
