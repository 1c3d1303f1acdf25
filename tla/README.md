# MpNetServer in TLA+

MpNetServer (`src/src`) is a multi-process network server: a parent process
owns the client sockets, one worker process per bind entry runs a plugin, and
parent and worker exchange blocks through two lock-free queues in shared memory,
with a pipe next to each queue to wake its reader. This directory models that
system in TLA+, model-checks it with TLC and proves the central results with
TLAPS. Paths below are relative to `src/src`, except `README.md`, which is the
repository's own, and `iniparser.c` and `dictionary.c`, which are in
`src/iniparser/src`.

## 1. Inventory

| Component | State | Operations | Interacts with |
|---|---|---|---|
| Shared-memory queue (`shmq.c`) | `head`, `tail`, a ring of blocks | `shmq_push`, `shmq_pop`, `align_queue_head`, `align_queue_tail` | one producer and one consumer process, no lock |
| Notification pipes (`shmq.c`, `net.c`) | bytes in each pipe | the `write` at the end of `shmq_push`, `handle_pipe_event` | wakes the reader of a queue in `epoll_wait` |
| Connection table and event loop (`net.c`) | `epi.fds` (type, id, buffers), close queue, etin queue, the event batch | `net_loop`, `do_add_conn`, `do_del_conn`, `do_open_conn`, `net_recv`, `schedule_output`, idle reaping | sockets, queues, hang-up of a worker |
| Sessions of a worker (`service.c`, `net_if.c`) | `fds.cn`, `fds.count` | `handle_recv_queue`, `handle_open`, `handle_process`, `handle_close`, `close_client_conn`, `send_pkg_to_client` | OPEN, DATA, CLOSE in; DATA, FIN out; plugin callbacks |
| Supervision (`main.c`, `service.c`, `net.c`) | workers, `restart_cnt`, watched pipes | boot loop, `restart_child_process`, `run_worker_process` | fork, EPOLLHUP |
| Daemon and signals (`daemon.c`) | `stop`, `restart`, `term_signal`, `child_pids` | `sigterm_handler`, `sighup_handler`, `sigchld_handler`, `killall_children`, `daemon_stop` | asynchronous with the main flow; inherited by fork |
| Pipe descriptors across fork (`shmq.c`, `service.c`) | four descriptor numbers per entry in every process | `pipe_create`, `shmq_create`, `close_shmq_pipe`, `net_start`, `net_exit` | fork copies the table, numbers are reused |
| Packet framing (`net.c`) | `recvlen`, `rcvprotlen`, the receive buffer, the etin queue | `do_read_conn`, `net_recv`, `iterate_etin_queue` | plugin's `get_pkg_len` and `proc_pkg_from_serv`, edge-triggered sockets |
| Send buffering (`net_if.c`, `net.c`) | `sendlen`, `sndbufsz`, EPOLLOUT armed or not, close queue | `net_send`, `do_write_conn`, `mod_events`, `iterate_close_queue` | socket buffer, peer |
| Back-end connections, UDP, multicast (`net_if.c`, `net.c`) | entries of the worker's own `epi.fds` | `connect_to_svr`, `close_svr`, `handle_asyn_connect` | plugin only |
| Bind file and configuration (`bindconf.c`, `config.c`, `daemon.c`) | `bindconf`, the settings in effect | `load_bind_file`, `str_split`, `rlimit_reset`, `daemon_start` | ini dictionary |
| Plugin (`dll.c`) | `dll.handle` and its function pointers | `register_plugin`, `unregister_plugin` | everything that calls the plugin |
| iniparser (`iniparser.c`, `dictionary.c`) | arrays of keys, values and hashes; section and held line while loading | `iniparser_load`, queries, `iniparser_set`, `iniparser_unset`, dump | settings; a plugin shares the dictionary |
| Helpers (`tcp.c`, `log.c`, `List.h`, `atomic.h`, `timer.h`), samples | – | – | – |

What is hard in this code, and what would make each part correct:

* two processes read and write one ring without a lock, and the consumer works
  on a block *after* it has given it back (correct: no overwrite, no misread
  header, FIFO);
* sleeping and waking rest on the order of four operations in two processes
  (correct: nobody sleeps on a non-empty queue);
* both processes may end a connection at the same time, blocks about it cross
  each other, descriptors are reused immediately, a batch of events may be
  stale, queues may be full (correct: answers reach only their own client;
  every connection has a session and every session a connection);
* a worker may crash and be restarted with all of that in flight (correct: its
  successor starts clean and is served);
* signals interrupt the parent anywhere, and the death of a worker is reported
  twice, in any order, and may be reported of a worker that lives (correct:
  whoever runs is told to stop, none is left behind, the shutdown ends);
* a death is seen only as the hang-up of a pipe whose ends fork copies in all
  directions, by descriptor numbers that are reused (correct: each worker holds
  its own two ends only, every death shows, only the dead are replaced);
* sockets are edge-triggered, read once per edge and take part of what is
  written (correct: packets are cut where the peer cut them, nothing unread or
  unsent is forgotten, bytes keep their order);
* nothing `main` calls at start-up is asked whether it succeeded (correct: a
  setting has the value its file gives, a registered plugin is whole).

`PROJECT.json` lists the hazards with their lines and the properties that cover
them.

## 2. Modules and their correspondence to the code

| Module | Models |
|---|---|
| `FifoChannel` | what a queue promises: a FIFO channel whose consumer works in place on one message |
| `ShmQueue` | `shmq_push` and `shmq_pop`, one step per access to shared memory |
| `ShmQueueProofs` | the theorems about `ShmQueue` |
| `PipeNotify` | queue lengths and pipes of one parent and one worker running `net_loop` |
| `PipeNotifyProofs` | the theorems about `PipeNotify` |
| `ConnSession` | connection table, sessions, both queues, clients and kernel |
| `ConnSessionProofs` | the theorems about `ConnSession` |
| `Supervisor` | parent, workers, signals, restarts, shutdown |
| `SupervisorProofs` | the theorems about `Supervisor` |
| `NetRecv` | a connection's bytes from the socket to the packets handed on |
| `NetRecvProofs` | the theorems about `NetRecv` |
| `NetSend` | a connection's bytes from `net_send` to the peer |
| `NetSendProofs` | the theorems about `NetSend` |
| `PipeHandles` | descriptor tables of the parent and of the workers |
| `PipeHandlesProofs` | the theorems about `PipeHandles` |
| `KeyMap` | what a dictionary promises: a map |
| `Dictionary` | the arrays of `dictionary.c` |
| `IniFile` | `iniparser_load`, the queries, changes and the dump (extends `Dictionary`) |
| `BindFile` | `str_split` and what it should return |
| `Startup` | `main` from the ini file to the running server (extends `IniFile` and `BindFile`) |
| `StartupProofs` | the theorems about `Startup`, and so about `Dictionary`, `IniFile` and `BindFile` |
| `MCShmQueue`, `MCPipeNotify`, `MCConnSession`, `MCSupervisor`, `MCNetRecv`, `MCNetSend`, `MCPipeHandles`, `MCStartup` | the roots TLC starts from |

They are layered. `ShmQueue` is shown to implement `FifoChannel`; `PipeNotify`
and `ConnSession` use queues that are FIFO channels with a bound. `ConnSession`
assumes that a process with work in its queue wakes up, which `PipeNotify`
examines, and sees supervision only as "the worker dies, its successor starts
empty", which `Supervisor` examines. `PipeHandles` examines which hang-ups are
the death of a worker; `Supervisor` takes from it that the death of a worker
shows, and that a restarted worker may also be reported without being dead
(`StaleHangup`). `NetRecv` and
`NetSend` give the bytes of one connection, which in `ConnSession` are whole
packets and answers. `Dictionary` is shown to implement `KeyMap` while `Startup`
uses it.

**ShmQueue.** `head`, `tail` are the offsets in `shm_head_t`; `mem` maps every
offset to the block header a reader would find there, `JUNK` where there is
none. A store wipes every header it overlaps and garbles the data of a block it
runs into, so that an overwrite is visible. `shmq_push` is the chain `Push`,
`AlignHead`, `PadHead`, `WrapHead`, `TestBehind`, `TestRoom`, `Copy`, `Publish`;
`shmq_pop` is `Pop`, `AlignTail`, `SkipTail`, `CheckEmpty`, `Take`; `Rewrite` is
the in-place change of a refused OPEN_BLOCK in `handle_recv_queue`. Every read
of the other process's offset is a step of its own, twice where the code reads
it twice. `pending` and `seam` are history variables. Stores are taken in
program order, which the code gets from x86 and from the compiler, as only
`head` and `tail` are volatile.

**PipeNotify.** Two processes, each with a program counter through `net_loop`.
The parent pops its queue, *then* handles its pipe; the worker handles its pipe,
*then* pops its queue. A queue is its length. The plugin answers a packet with
at most one block; a packet that finds no room becomes a CLOSE_BLOCK, which may
find none either.

**ConnSession.** The parent goes round `net_loop`: `IterateClose`, the etin
queue of the listening socket, `EpollWait`, `SendQueue`, the batch (`HandleConn`,
`ParsePacket`, `GiveUp`, `HandleListen` with `Accept`, `HandleHangup`), `Reap`.
A push that is refused and the CLOSE_BLOCK that follows it are two steps, so
that the worker may pop in between. `accept` may run out of descriptors
(`AcceptEnds`, which the etin queue remembers) or fail otherwise (`AcceptFails`,
of which nothing is remembered: `lrdy = "lost"`; only where `AcceptErrors`
holds). The worker
pops one block at a time and may call `close_client_conn` at any time, as a
plugin may. An id is a natural number given out by `do_add_conn`. `src` in a
block is history: the connection whose packet an answer stems from. Data is
whole packets; a read takes all there is and the socket takes an answer at once
(`NetRecv` and `NetSend` have the bytes). `EpollWait`
clears the edges it reports, as EPOLLET does; a hang-up of the pipe stays until
it is handled. The descriptors of pipes and of clients are kept apart
(`PipeHandles` mixes them).

**Supervisor.** One action per step of the main flow between which a handler
can run. `child_pids` is written by the flow (`Adopt`) and by `Sigchld`, which
looks at the first two slots like the code. `kill` of pid 0, which the double
read in `killall_children` allows, reaches all processes of the server. A fork
copies the flag `stop`. A hang-up that is not the pipe's own (`StaleHangup`,
possible once a worker was restarted) has a living worker replaced: it becomes
one of the `strays`, which have no slot, see the end of their pipe and end.

**NetRecv.** One entry of `epi.fds`, in the parent or in a worker (`is_parent`),
and its peer. `buf` is the received and unparsed part of the buffer (`recvlen`
is its length), `off` is `tmp_recvptr - recvptr`, `prot` is `rcvprotlen`, which
survives from one call to the next. `Read` is `do_read_conn`, called from the
etin queue (`IterateEtin`) or for an event (`Event`); after it `Refuse`,
`Incomplete`, `HandOn`, `PushRefused` and `PluginCloses` are the branches after
`parse_again`, and `Rest` is the final `memcpy`, whose regions may overlap: what
it leaves is then undefined (`garbled`, an end of the model). A byte is the pair
of its packet's length and its place in the packet; `get_pkg_len` of the plugin
(external) tells the length once it has `Hdr` bytes. The peer's bytes arrive cut
in any way. In the parent a FIN_BLOCK (`Fin`) moves the connection from the etin
queue to the close queue, which keeps it out of the former until `IterateClose`;
`Reap` is any deletion from outside.

**NetSend.** One connection, again in either process. `NetSend` (the
`do_write_conn` at the start of `net_send`), `SendData` and `ModEvents` are
separate steps, because the peer may make room in between; `HandleOut` and
`HandleHup` are the event branches of `net_loop`, `IterateClose` the close
queue. Four more ways to delete a connection pay no regard to its buffer:
`HandleIn` (its stream ends, or has a packet that is refused), `Reap` (its client
is idle), `WorkerHangup` (its worker died) and `CloseSvr` (the plugin of a worker
closes it); `fate` says which of them is due. A byte is its number. The limit applies in the parent only, and
`net_send` returns there before `mod_events`, as the code does.

**PipeHandles.** `ptab` and the `tab` of every worker say what is behind each
descriptor number; `kind` is the type and the entry in `epi.fds`; `hs` is
`pipe_handles`. The kernel gives out the lowest free number, `fork` copies
tables and `pipe_handles`. `shmq_create` may set up the two queues in either
order, since both calls are operands of one `|`. A worker that boots
closes the ends of the entries up to its own, a restarted one those of all
entries (`n_inited_bc`), by the numbers it has inherited. `epoll_wait` reports a
batch, and each event keeps (as history) what the descriptor was. `do_del_conn`
leaves it to `close` to end a registration, which it does only when no process
holds the descriptor any more: what a worker that was forked and has not started
still holds may be reported under its old number (`Outlives`, `Lingering`), and
a batch has any part of that. Descriptors
do not run out while pipes are made (`Room`); the code ignores the result of
`pipe_create` (`shmq.c:59`), so without that assumption nothing holds.

**Dictionary, IniFile.** Slots are numbered from 0 as in C; a key is the
sequence of its parts, so that "has a colon" is "has length 2"; `Hash` is a
constant, so that keys may collide. `HandleLine` is a line of the file after
`iniparser_line`, which has a kind, a name and, after the `=`, a text: a sequence
of words in which quotes, comment signs and the backslash are told apart, since
`ParseValue` (the `sscanf` formats) and `Printed` (the dump, without quotes and
with NULL as nothing) treat them differently. `HoldLine` keeps a line that ends
in a backslash, and `Joins` says what becomes of it and the next: a comment
swallows it, a value grows, a section or a syntax error may become any of the
three kinds with a text (as in `test/twisted-errors.ini`). `BlankLine` reads the
byte before the buffer. `errs` is overwritten as in the code. `NoMemory` is the
failed growth, with the deletion that follows it; that `xstrdup` finds no memory
for a key, which leaves `n` one too high (`dictionary.c:270`), is not modelled.

**BindFile, Startup.** `Fields` is the loop of `str_split`, `IsSplit` the
reference. `Startup` runs `main`: load, `DaemonStart`, the bind file line by
line, `register_plugin` with every way to fail, `init_service`; then a plugin
may change the dictionary it shares with the server, also by setting NULL; when
it cannot grow then (`ChangeFails`), arrays are NULL that the next use reads. States the code leaves by
undefined behaviour (an entry beyond `max_listen_fds`, `NULL + 1`, a call into a closed library) are
`undefined` or `crashed` and end the run.

## 3. Runs

| Run | Shows | States |
|---|---|---|
| `ring` | `WritesAreSafe`, `ReadsAreBlocks`, `OnlyConsumerMovesTail`, `ImplementsFifo`, `PushReturns`, `TypeOK` | 540 thousand |
| `pipe_worker` | `WorkerIsWoken`, `PacketsAreHandled`, `TypeOK` | 7 thousand |
| `pipe_parent` | *violation* of `RepliesAreSent` | |
| `conn` | `AnswersReachTheirClient`, `SessionsEnd`, `ConnectionsAreServed`, `BlocksMeetTheirSession` with a crash, a restart or a failing fork, and idle reaping | 4.0 million |
| `conn_full` | `AnswersReachTheirClient`, `ClientsAreAccepted`, `ClosingIsNoticed` with queues that fill, descriptors that run out, accepts that fail and restarts that are used up | 450 thousand |
| `sup` | `NoWorkerLeftBehind`, `AllAreTold`, `WorkersComeBack`, `OrphansEnd`, `KillallReturns` | 550 thousand |
| `sup_reap` | *violation* of `ReapedAreForgotten` | |
| `recv` | `PacketsArriveWhole`, `BufferHasRoom`, `UnreadIsRead` | 270 thousand |
| `send` | `InOrder`, `BufferFits`, `WaitingIsWatched`, `CloseFlushes`, `BufferDrains` | 160 thousand |
| `handles` | `WiredAsDocumented`, `DeathShows`, `OnlyTheDeadAreReplaced`, `OrphansNotice` | 170 thousand |
| `startup` | `ImplementsMap`, `ChangesAsAsked`, `SlotsAreCounted`, `LoadedAsWritten`, `DumpIsLoadable`, `SplitIsRight`, `PluginIsWhole` | 49 thousand |
| `settings` | *violation* of `SettingsInEffect` | |

**Bounds.** The ring has a header of 1 byte, block headers of 2 and pages of 3
in a mapping of 10, with pushes of 2, 3 and 4 bytes (the last one is refused):
the rest of the mapping at a wrap is then nothing, shorter than a block header
or exactly one, the ring runs full, and `exit` is reached. Pads longer than a
header need larger pages; the theorems cover them, as they cover every size.
`pipe_worker` has room for 2 blocks and 3 bytes and drains 2 bytes per read, so
that pipes fill up and a drain takes more than one read. `conn` has two
descriptors and three connections, so a descriptor is used again while blocks
of its first life are in both queues; `Cap = 12` is more than the blocks that
can exist (OPEN, DATA and CLOSE of every connection), so that run shows what
holds when no push fails. `conn_full` has queues of 2 blocks and one descriptor
for three connections, so that pushes do fail and `accept` does; its two
crashes with one restart reach a used-up restart counter. An `accept` that fails
otherwise is in `conn_full` only (`AcceptErrors`), to keep `conn` small; the
theorems cover both. `sup` has two entries, all
that `sigchld_handler` looks at, two crashes, which may be in one batch, two
restarts, so that a restarted worker is replaced by a stale hang-up, and one of
everything else; `sup_reap` has one more, and the theorems about
`Supervisor` any number.

`recv` has a page of 6 bytes and packets of 2 (the header alone), 5 (the longest
that fits a block), 6 (the longest that fits the buffer) and 7 bytes (too long),
so that every side of each limit occurs; three packets on a connection give
several packets in a read and a cut anywhere, two connections a reuse of the
entry. `send` has a socket of 2 bytes and answers of 1 and 3, so that writes are
partial and buffers grow more than once; the limits are none, one that a single
answer exceeds and one that it does not. `handles` has two entries and five
forks, enough for both entries to be booted, to fail to restart, and to meet the
number of a pipe that was closed for good; one client is enough to have its
number go to a new pipe. `startup` has files of three lines, all keys with a
section colliding, a value with a comment sign between quotes, a dictionary that
starts with one slot and so doubles twice, and three changes to a value or NULL, so that a slot below `n` is freed and used again; bind lines
of up to five characters with two fields distinguish words, runs of separators
and the last field.

**No deadlock check** except in the ring and pipe runs: the peers' moves are
bounded, and a process asleep in `epoll_wait` or ended is where the system may
stop.

**Fairness.** A process that can take a step takes it (weak fairness of the
parent's and the worker's loop): both are endless loops that block only in
`epoll_wait`. `PushReturns` asks it only inside a call of `shmq_push`.
`PipeNotify` asks nothing of a worker asleep with an empty pipe, so its results
do not depend on the timeout of the worker's `epoll_wait`, and nothing of
clients. `Supervisor` adds that SIGCHLD is delivered and that `handle_fini`
agrees in the end, which is up to the plugin. In `NetRecv` a worker's
`epoll_wait` returns by its timeout (`net_loop_interval`), the parent's need not
return for this connection at all, so the second half of `UnreadIsRead` is about workers. In
`NetSend` the peer goes on reading (a peer that does not is a full socket for
ever, and the code has no timeout for it), and `epoll_wait` returns when there
is an event. In `PipeHandles` only forked workers are asked to run on. Crashes,
signals, clients and a plugin that closes connections are never forced.

**What the violations are.** Each is a statement of the repository that the code
does not keep (`findings` in `PROJECT.json` quotes them): the parent can go to
sleep with answers in its queue; `killall_children` waits for ever with three or
more entries; settings that are asked for without their section (`max_open_fd`,
`run_mode`, `shmq_length`, ...) never have the value the file gives them.

Two more findings are about a run that passes, because its property states what
the code does and its comment what is said otherwise: `iniparser_set` adds an
entry that is not there, although its comment says that -1 is returned
(`ChangesAsAsked`; `iniparser.c:521`); and the dump "to a loadable ini file"
does not give back a value that needs quotes, nor NULL (`DumpIsLoadable`;
`iniparser.c:260`).

**Conditions in the properties.** Some properties hold only with an exception,
which each of them names; the models show what happens beyond it.

* `SessionsEnd`, `BlocksMeetTheirSession`, `ConnectionsAreServed`: no queue
  fills. A CLOSE_BLOCK or FIN_BLOCK that finds its queue full is dropped
  (`net.c:223`, `net_if.c:223`), and the two processes disagree from then on.
* `ClosingIsNoticed`: the end of file has an edge of its own. With EPOLLET and
  one `recv` per edge, one that arrives with the last packet is left behind
  (`net.c:317`).
* `ClientsAreAccepted`: no `accept` failed but for a lack of descriptors. After
  another error nothing remembers the backlog until the next client comes
  (`net.c:265-269`).
* `NoWorkerLeftBehind`, `AllAreTold`: the worker of an entry. One that a stale
  hang-up had replaced while it ran has no slot; it ends by itself, and nobody
  waits for it.
* `KillallReturns`: no pid was waited for before it was recorded. A worker that
  dies between `fork` and `atomic_set` leaves its pid in the slot (`main.c:78`).
* `WaitingIsWatched`, `BufferDrains`: the limit stands in the way of no single
  answer (`net_if.c:170`).
* `WiredAsDocumented`, `OnlyTheDeadAreReplaced`: a worker that does not meet the
  number of a pipe that was closed for good, and an event that was reported for
  the pipe itself (`shmq.c:209`, `net.c:528`).
* `CloseFlushes`: a connection in the close queue is deleted before its buffer is
  written when, in the turn that put it there, its stream ends or has a packet
  that is refused, its client is idle for too long, or its worker hangs up
  (`net.c:581`, `602`, `632`).
* `PacketsArriveWhole`, `UnreadIsRead`: the copy in `net_recv` did not overlap
  (`net.c:400`); for the second also that the connection is not in the close
  queue, which takes it out of the etin queue (`net.c:92`).
* `LoadedAsWritten`: a syntax error counts only if no section or value follows
  it (`iniparser.c:698`).
* `DumpIsLoadable`: every value has its section, and needs no quotes: it is not
  NULL and has no comment sign, no quote at its start and no backslash at its end
  (`iniparser.c:260`).
* `PluginIsWhole`: the library is open. After a failed registration the pointers
  into the closed one stay (`dll.c:20`).

The models show four more behaviours that no property speaks of, listed with
the hazards: a session that the plugin and the client end at the same time is
counted down twice (`service.c:87`); a SIGTERM between the test of `stop` and
`epoll_wait` is slept over (`main.c:95`); SIGHUP never restarts the server,
because the loop of `main` is left only with `term_signal` set (`main.c:89`); a
bind file whose last line has no newline crashes the server (`bindconf.c:43`).
They also have the states where no property can promise anything: the `exit` of
a ring that fills before its first pop (`shmq.c:92`), a listening socket whose
worker is out of restarts (`net.c:637`), a blank line of the ini file that reads
the byte before its buffer (`iniparser.c:685`), a bind entry stored behind the
table (`bindconf.c:45`). Ids are unbounded in the models: a 32-bit id would have
to wrap while one block is queued (`net.c:194`).

## 4. Proofs

All theorems hold for every value of the constants under the `ASSUME`s of the
modules. For the ring: sizes are positive, a page is at least a block header,
the mapping has room for the queue head and one page, and callers push blocks at
least as long as a header (the `assert` in `shmq_push`). For `NetRecv`: packets
are at least as long as the plugin's header, and that fits a page. For
`NetSend`: the socket takes at least a byte, answers are not empty. For
`Startup`: `Keys` and `Values` have everything that the lines and the plugin can
make of names and values, and the empty tuple, which stands for NULL, is neither;
a key has one part or two and is in lower case, as `strlwc` leaves it (so
`strlwc` changes nothing the second time); a bind line has characters of three
kinds. For `PipeHandles` only that the bounds are numbers.

**The ring** (`ShmQueueProofs`). `TypeCorrect`, `SafeWrites`, `SafeReads`,
`TailIsTheConsumers` and `RingImplementsFifo`. None of these is inductive. The
invariant `IInv` adds

* `OffsetInv`: while the producer has wrapped and the consumer has not
  (`seam # 0`), `head` stays a page behind `tail`, and the place of the wrap is
  recognisable, by a pad or by the lack of room for a header;
* `RunInv`: each unread block is intact in memory, inside the upper run (from
  `tail`) or the lower one (up to `head`), and they do not overlap;
* `ChainInv`: starting at `tail`, each block ends where the next one starts,
  across the wrap, and the last ends at `head`;
* `ProducerInv`, `ConsumerInv`: what each process may rely on between its own
  steps although the other one moves. The consumer's held block reaches at most
  a page below `tail`, and the producer copies only with a page to spare: this
  is where the slack of `shmq_push` is used.

There is one lemma per action. `RingImplementsFifo` then maps `Publish` to
`Send`, `Take` to `Receive`, `Pop` to `Release` and everything else to a stutter.

**Wake-ups** (`PipeNotifyProofs`). `PipesTypeCorrect` and `NoLostWakeup`;
`WorkerIsWoken` is inductive together with `TypeOK`: a push is followed by a
byte, a byte leaves the pipe non-empty even if it was full, and the worker only
goes to sleep having seen its queue empty.

**Processes** (`SupervisorProofs`). `ParentEndsLast` and `WaitsForTheToldOnly`
(that is `AllAreTold`), from an invariant that says that pids are fresh, also
those of workers that were replaced (so the handler never clears the slot of a
worker that runs), that a running worker's pid is in its slot or in the hands of
the parent between `fork` and `atomic_set`, and that the loop of
`killall_children` has told every worker of the slots behind it.

**Connections and sessions** (`ConnSessionProofs`). For any descriptors, queue
capacity and numbers of connections, crashes and restarts:

* `AnswersReachTheirClientThm`, without a condition. What makes it true is an
  order of the ids that neither process could see alone (`IdInv`): on one
  descriptor they grow from the session of the worker over the blocks in the
  receive queue to the entry of the parent (`RecvInv`), and an answer made from
  another connection's packet carries an id that is outdated by then
  (`SendInv`), so the comparison of ids in `schedule_output` drops it.
* `SessionsEndThm`, `ConnectionsAreServedThm`, `BlocksMeetTheirSessionThm`, of
  the form `Spec /\ []HasRoom => []...`. `HasRoom` says that neither queue is
  full, so that no push fails: with a full queue the code drops OPEN, CLOSE and
  FIN blocks, and the statements are false (section 3). The invariant
  (`SessionInv`) says that OPEN is the first and CLOSE the last of a
  connection's blocks, that an OPEN in the queue has its connection or its
  CLOSE, and that what the worker has ended stays ended from the FIN_BLOCK to
  the close queue. That `[]HasRoom` is not void is what the run `conn` shows,
  whose queues are longer than all blocks together.

**Bytes in** (`NetRecvProofs`). `PacketsArriveWholeThm`, `BufferHasRoomThm` and
`UnreadIsKeptThm` (the safety part of `UnreadIsRead`), for every page, header,
packet length and cut of the stream. `RecvInv` says that buffer, socket and
network together are exactly the packets not handed on yet (`StreamInv`), and
that a length once known is that of the next packet (`FrameInv`). The
concatenation of a sequence of packets is recursive in its length; the proof
reaches it without induction, by a least counterexample.

**Bytes out** (`NetSendProofs`). `BufferFitsThm`, `InOrderThm`,
`WaitingIsWatchedThm` and `CloseWritesThm` (the safety part of `CloseFlushes`),
for every size of socket, answer and limit. `SendInv` says that what the peer
has, what the socket has and what the buffer has follow each other without a gap
up to `total` (`StreamInv`), and that while bytes are buffered EPOLLOUT is armed,
except between the copy and `epoll_ctl` inside `net_send`, with the edge not
lost (`WatchInv`). `CloseWritesThm` names the deletions that do not wait for
`iterate_close_queue`; all others find the buffer written, the socket full, or
the connection reset.

**Descriptors** (`PipeHandlesProofs`). For any number of entries, descriptors,
clients, forks and restarts:

* `WiredAsDocumentedThm`, `OnlyTheDeadAreReplacedThm` and `DeathShowsThm`, which
  is without a condition on workers that are forked and have not started: their
  copies of other workers' write ends do not delay a hang-up, because the write
  end of a pipe never gets into a later fork (the parent closes its copy at
  once).
* `OrphansAreHungUpThm`, the safety part of `OrphansNotice`: with the parent gone
  and all workers started, no worker holds the end on which another one waits.

None is inductive: what a worker closes is decided by `pipe_handles` as it was at
the fork, the effect comes when it starts, and in between numbers are reused.
`IInv` connects the two. `ParentInv` says what the parent's table has: every end of
a living worker's pipe is at a number that `pipe_handles` names (`EndsNamed`), so
a later fork will close it; an entry keeps both ends until it is out of restarts
(`EndsKept`), which is where stale numbers come from; and the pipe that is watched
for an entry is written by its latest worker only (`LastWrites`). The parent breaks
these while it makes new pipes, so they are stated for a table and a set of
entries, and shown for every intermediate table. `WorkersInv` says that what a
worker holds of the pipes of others it holds only until it starts, at numbers it
will then close (`OwnInv`, `ApartInv`). `BatchInv` says that a reported hang-up is
final.

**Start-up** (`StartupProofs`). For any keys, any hash function, however many of
them collide, any initial size, and any lines:

* `SlotsAreCountedThm`; from it, `FreeSlotIsFree`: the search of
  `dictionary_set` for a free slot, which goes round the arrays from `n`, ends
  at one. The comment there only claims it.
* `ImplementsMapThm`, the refinement of `KeyMap`: one lemma each for replacing,
  adding (with or without doubling) and removing; all other steps leave the map
  alone. `ChangesAsAskedThm` is from the same lemmas.
* `LoadedAsWrittenThm`. `Written` says what a whole file means; the proof shows
  what one more line adds to it (`WrittenMore`) and that the dictionary changes
  by the same. `WriteInv` adds that `section` is the section of the last line and
  that `errs = 0` only if a later assignment has overtaken each error;
  `IniInv` that a value under continuation is a value of the file with what the
  lines read since have added (`JoinsFacts`).
* `DumpIsLoadableThm`, from the invariant of the slots alone. Every line of the
  dump says something the dictionary holds (`Truthful`), and together they say
  all of it: `iniparser_getsecname` goes through the sections because slots are
  numbered by how many come before them (`Ranks`), each section is followed by
  its values and a value by no other section (`SectionFollows`). `PlainIsRead`
  is where the text counts: what is printed bare is read as it was.
* `SplitIsRightThm`. The loop of `str_split` returns from each position the words
  from there on (`SplitFrom`); a round adds the first of them (`FirstWord`), or
  the rest of the line (`LastWord`).
* `PluginIsWholeThm`, from where `main` is while a plugin is open.

`str_split` and the concatenation of the dumped sections are recursive functions.
That such a function exists and what it returns is shown without induction, by a
least counterexample, as in `NetRecvProofs`.

The inductive invariants are defined in the modules of the proofs, except those
of the ring and of the dictionary's arrays, which stand beside the model.

**Only model-checked.** Liveness (`PushReturns`, `PacketsAreHandled`,
`ClientsAreAccepted`, `ClosingIsNoticed`, `WorkersComeBack`, `OrphansEnd`,
`KillallReturns`, `BufferDrains`, and all of `UnreadIsRead`, `CloseFlushes` and
`OrphansNotice` but their safety parts), which is beyond the prover. Every
invariant, action property and refinement that a passing run checks is also a
theorem.

## 5. What is not modelled, and the plan

Modelled in this order: the ring, wake-ups, connections and sessions,
supervision; then bytes in and out of a connection, descriptors across `fork`,
start-up with iniparser; the proofs followed in the same order. The plan is done.
What would carry further is a prover with fairness and ENABLED, for the liveness
properties; the invariants above are what such proofs would start from.

Left out for good: logging, process titles, the resource limits themselves, UDP
and multicast (a datagram is handed to the plugin at once and no state is kept),
`handle_asyn_connect` (nothing in the repository registers a connection for it),
the wrappers of `tcp.c` that only set options, the number conversions and debug
dumps of iniparser, and the samples. Memory for single strings is taken to be
there. Weak memory orders are out of scope.
