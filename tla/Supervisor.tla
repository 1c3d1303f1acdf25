----------------------------- MODULE Supervisor -----------------------------
(***************************************************************************)
(* The processes of the server: the parent forks one worker per bind entry *)
(* (main.c), restarts a worker that dies (net.c, service.c), and on        *)
(* SIGTERM ends the workers and itself (daemon.c).                         *)
(*                                                                         *)
(* Signal handlers run between any two steps of the parent's main flow.    *)
(* The parent learns of the death of a worker twice and in any order: by   *)
(* EPOLLHUP on the worker's pipe, upon which it forks a successor, and by  *)
(* SIGCHLD, upon which the handler forgets the pid.  An EPOLLHUP that was  *)
(* meant for an earlier descriptor of the same number is taken for the     *)
(* death of a worker, too (PipeHandles).  The flags of the handlers are    *)
(* inherited by whatever is forked after the signal.                       *)
(***************************************************************************)
EXTENDS Integers, FiniteSets

CONSTANTS N,             \* bind_num
          MaxRestarts,   \* restarts of one worker, 20
          Crashes,       \* bound: deaths of workers nobody asked for
          ForkFails,     \* bound: calls of fork that fail
          Terms, Hups,   \* bounds: SIGTERM and SIGHUP sent to the parent
          Kills,         \* bound: deaths of the parent
          Stales         \* bound: hang-ups that are not the pipe's own

ASSUME NAssumption ==
  /\ N \in Nat \ {0} /\ MaxRestarts \in Nat
  /\ Crashes \in Nat /\ ForkFails \in Nat
  /\ Terms \in Nat /\ Hups \in Nat /\ Kills \in Nat /\ Stales \in Nat

Entries == 1 .. N

VARIABLES
  ppc,                   \* where the parent is
  cur,                   \* the entry it boots, restarts or kills
  newpid,                \* what its last fork returned
  child_pids,            \* the pid of each entry's worker, 0 if forgotten
  stop, restart, term,   \* the flags set by the handlers
  cnt,                   \* restart_cnt of each entry
  watched,               \* entries whose pipe is in the parent's epoll set
  batch,                 \* entries whose hang-up is in the current batch
  run,                   \* pid of the worker that runs for an entry, 0 if none
  wstop,                 \* the flag stop in each worker
  strays,                \* workers that were replaced and still run
  zombies,               \* dead workers the parent has not waited for
  last,                  \* the last pid given out
  left                   \* what the environment may still do

flags == <<stop, restart, term>>
wvars == <<run, wstop, strays, zombies, last>>
vars  == <<ppc, cur, newpid, child_pids, flags, cnt, watched, batch, wvars, left>>

Init ==
  /\ ppc = "boot" /\ cur = 1 /\ newpid = 0
  /\ child_pids = [i \in Entries |-> 0]
  /\ stop = FALSE /\ restart = FALSE /\ term = FALSE
  /\ cnt = [i \in Entries |-> 0] /\ watched = {} /\ batch = {}
  /\ run = [i \in Entries |-> 0] /\ wstop = [i \in Entries |-> FALSE]
  /\ strays = {} /\ zombies = {} /\ last = 0
  /\ left = [crash |-> Crashes, fork |-> ForkFails, term |-> Terms,
             hup |-> Hups, kill |-> Kills, stale |-> Stales]

Ended == {"exited", "execed", "dead"}
Spend(what) == left[what] > 0 /\ left' = [left EXCEPT ![what] = @ - 1]

(* A signal interrupts epoll_wait, which then reports no event. *)
Interrupted == IF ppc = "poll" THEN "events" ELSE ppc
-----------------------------------------------------------------------------
(***************************************************************************)
(* The parent.                                                             *)
(***************************************************************************)

(* The parent has closed its ends of the pipes of the worker of i. *)
Abandon(i) == strays' = strays \cup ({run[i]} \ {0})

(* fork: the worker starts with the flags its parent has now. *)
Fork(i) ==
  /\ Abandon(i)
  /\ last' = last + 1 /\ newpid' = last + 1
  /\ run' = [run EXCEPT ![i] = last + 1]
  /\ wstop' = [wstop EXCEPT ![i] = stop]
  /\ UNCHANGED <<zombies, left>>

ForkFailed(i) ==
  /\ Spend("fork") /\ Abandon(i) /\ run' = [run EXCEPT ![i] = 0]
  /\ UNCHANGED <<newpid, wstop, zombies, last>>

Boot ==
  /\ ppc = "boot" /\ cur <= N
  /\ \/ Fork(cur) /\ ppc' = "bootset" /\ UNCHANGED cur
     \/ ForkFailed(cur) /\ cur' = cur + 1 /\ UNCHANGED ppc
  /\ UNCHANGED <<child_pids, flags, cnt, watched, batch>>

Booted ==
  /\ ppc = "boot" /\ cur > N /\ ppc' = "check"
  /\ UNCHANGED <<cur, newpid, child_pids, flags, cnt, watched, batch, wvars, left>>

(* What the parent does with the pid: the pipe joins the epoll set. *)
Adopt ==
  /\ watched' = watched \cup {cur}
  /\ child_pids' = [child_pids EXCEPT ![cur] = newpid]

BootSet ==
  /\ ppc = "bootset" /\ Adopt
  /\ ppc' = "boot" /\ cur' = cur + 1
  /\ UNCHANGED <<newpid, flags, cnt, batch, wvars, left>>

(* The loop of main tests the flags and calls net_loop, which comes to     *)
(* epoll_wait, without a timeout, only later.                              *)
Check ==
  /\ ppc = "check"
  /\ ppc' = IF stop /\ term THEN "kill" ELSE "loop"
  /\ cur' = 1
  /\ UNCHANGED <<newpid, child_pids, flags, cnt, watched, batch, wvars, left>>

Sleep ==
  /\ ppc = "loop" /\ ppc' = "poll"
  /\ UNCHANGED <<cur, newpid, child_pids, flags, cnt, watched, batch, wvars, left>>

(* The pipes with EPOLLHUP, whose other end nobody holds any more. *)
HungUp == {i \in watched : run[i] = 0}

(* epoll_wait reports the pipes that hung up, or events of clients. *)
Poll ==
  /\ ppc = "poll" /\ HungUp # {}
  /\ ppc' = "events" /\ batch' = HungUp
  /\ UNCHANGED <<cur, newpid, child_pids, flags, cnt, watched, wvars, left>>

PollClients ==
  /\ ppc = "poll" /\ HungUp = {} /\ ppc' = "events"
  /\ UNCHANGED <<cur, newpid, child_pids, flags, cnt, watched, batch, wvars, left>>

(* An event of the batch had the number that the pipe of a restarted       *)
(* worker has now, or the worker has closed its own end (PipeHandles).     *)
StaleHangup(i) ==
  /\ ppc = "events" /\ i \in watched /\ cnt[i] > 0
  /\ Spend("stale") /\ batch' = batch \cup {i}
  /\ UNCHANGED <<ppc, cur, newpid, child_pids, flags, cnt, watched, wvars>>

(* handle_pipe_event; restart_child_process up to its fork.  A worker that *)
(* runs is told by the end of its pipe, unless its restarts are used up.   *)
Hangup(i) ==
  /\ ppc = "events" /\ i \in batch /\ batch' = batch \ {i}
  /\ watched' = watched \ {i}
  /\ cnt' = [cnt EXCEPT ![i] = @ + 1]
  /\ \/ cnt[i] < MaxRestarts /\ Fork(i) /\ ppc' = "reset" /\ cur' = i
     \/ cnt[i] < MaxRestarts /\ ForkFailed(i) /\ UNCHANGED <<ppc, cur>>
     \/ cnt[i] >= MaxRestarts /\ UNCHANGED <<ppc, cur, newpid, wvars, left>>
  /\ UNCHANGED <<child_pids, flags>>

(* Mutant of Reset: the successor's pid is not recorded. *)
ResetForgets ==
  /\ ppc = "reset" /\ ppc' = "events" /\ watched' = watched \cup {cur}
  /\ UNCHANGED <<cur, newpid, child_pids, flags, cnt, batch, wvars, left>>

(* Mutant of Reset: the successor's pipe is not watched. *)
ResetUnwatched ==
  /\ ppc = "reset" /\ ppc' = "events"
  /\ child_pids' = [child_pids EXCEPT ![cur] = newpid]
  /\ UNCHANGED <<cur, newpid, flags, cnt, watched, batch, wvars, left>>

(* The rest of restart_child_process. *)
Reset ==
  /\ ppc = "reset" /\ Adopt /\ ppc' = "events"
  /\ UNCHANGED <<cur, newpid, flags, cnt, batch, wvars, left>>

EventsDone ==
  /\ ppc = "events" /\ batch = {} /\ ppc' = "check"
  /\ UNCHANGED <<cur, newpid, child_pids, flags, cnt, watched, batch, wvars, left>>

(* Mutant of KillTest: the last slot is left out. *)
KillTestShort ==
  /\ ppc = "kill"
  /\ \/ cur >= N /\ ppc' = "wait" /\ UNCHANGED cur
     \/ cur < N /\ child_pids[cur] # 0 /\ ppc' = "send" /\ UNCHANGED cur
     \/ cur < N /\ child_pids[cur] = 0 /\ cur' = cur + 1 /\ UNCHANGED ppc
  /\ UNCHANGED <<newpid, child_pids, flags, cnt, watched, batch, wvars, left>>

(* killall_children: the pid is tested, and read again to be used. *)
KillTest ==
  /\ ppc = "kill"
  /\ \/ cur > N /\ ppc' = "wait" /\ UNCHANGED cur
     \/ cur <= N /\ child_pids[cur] # 0 /\ ppc' = "send" /\ UNCHANGED cur
     \/ cur <= N /\ child_pids[cur] = 0 /\ cur' = cur + 1 /\ UNCHANGED ppc
  /\ UNCHANGED <<newpid, child_pids, flags, cnt, watched, batch, wvars, left>>

SigtermHandler == stop' = TRUE /\ restart' = FALSE /\ term' = TRUE

(* kill: pid 0 stands for the whole process group, the parent included. *)
KillSend ==
  /\ ppc = "send" /\ ppc' = "kill" /\ cur' = cur + 1
  /\ wstop' = [i \in Entries |->
                 wstop[i] \/ (run[i] # 0 /\ child_pids[cur] \in {0, run[i]})]
  /\ IF child_pids[cur] = 0 THEN SigtermHandler ELSE UNCHANGED flags
  /\ UNCHANGED <<newpid, child_pids, cnt, watched, batch, run, strays, zombies,
                 last, left>>

(* All pids are forgotten: the parent ends, or starts itself anew.         *)
WaitOver ==
  /\ ppc = "wait" /\ \A i \in Entries : child_pids[i] = 0
  /\ ppc' = IF restart THEN "execed" ELSE "exited"
  /\ UNCHANGED <<cur, newpid, child_pids, flags, cnt, watched, batch, wvars, left>>

Parent ==
  \/ Boot \/ Booted \/ BootSet \/ Check \/ Sleep \/ Poll \/ Reset
  \/ EventsDone \/ KillTest \/ KillSend \/ WaitOver
  \/ \E i \in Entries : Hangup(i)
-----------------------------------------------------------------------------
(***************************************************************************)
(* The parent's signal handlers, and its sudden death.                     *)
(***************************************************************************)
(* Mutant of Scanned: the loop of the handler ends one slot too early. *)
ScannedOne == {i \in Entries : i <= 1}

(* The slots that sigchld_handler looks at. *)
Scanned == {i \in Entries : i <= 2}

(* sigchld_handler waits for all the dead and looks for their pids in the  *)
(* first two slots.                                                        *)
Sigchld ==
  /\ ppc \notin Ended /\ zombies # {} /\ zombies' = {}
  /\ child_pids' = [i \in Entries |->
                      IF i \in Scanned /\ child_pids[i] \in zombies THEN 0
                      ELSE child_pids[i]]
  /\ ppc' = Interrupted
  /\ UNCHANGED <<cur, newpid, flags, cnt, watched, batch, run, wstop, strays, last,
                 left>>

Sigterm ==
  /\ ppc \notin Ended /\ Spend("term") /\ SigtermHandler /\ ppc' = Interrupted
  /\ UNCHANGED <<cur, newpid, child_pids, cnt, watched, batch, wvars>>

Sighup ==
  /\ ppc \notin Ended /\ Spend("hup") /\ ppc' = Interrupted
  /\ restart' = TRUE /\ stop' = TRUE
  /\ UNCHANGED <<cur, newpid, child_pids, term, cnt, watched, batch, wvars>>

ParentDies ==
  /\ ppc \notin Ended /\ Spend("kill") /\ ppc' = "dead"
  /\ UNCHANGED <<cur, newpid, child_pids, flags, cnt, watched, batch, wvars>>
-----------------------------------------------------------------------------
(***************************************************************************)
(* The workers.                                                            *)
(***************************************************************************)
Die(i) ==
  /\ zombies' = zombies \cup {run[i]}
  /\ run' = [run EXCEPT ![i] = 0]
  /\ UNCHANGED <<ppc, cur, newpid, child_pids, flags, cnt, watched, batch, wstop,
                 strays, last>>

WorkerCrash(i) == run[i] # 0 /\ Spend("crash") /\ Die(i)

(* The loop of run_worker_process ends when stop is set and handle_fini    *)
(* agrees.                                                                 *)
WorkerExit(i) == run[i] # 0 /\ wstop[i] /\ Die(i) /\ UNCHANGED left

(* Mutant of WorkerOrphaned: the end of the parent is only logged. *)
WorkerOrphanedStays(i) ==
  /\ ppc \in Ended /\ run[i] # 0 /\ ~wstop[i]
  /\ UNCHANGED vars

(* handle_pipe_event in a worker: the parent's end of the pipe is gone. *)
WorkerOrphaned(i) ==
  /\ ppc \in Ended /\ run[i] # 0 /\ ~wstop[i]
  /\ wstop' = [wstop EXCEPT ![i] = TRUE]
  /\ UNCHANGED <<ppc, cur, newpid, child_pids, flags, cnt, watched, batch, run,
                 strays, zombies, last, left>>

(* The same, and then the end, of a worker that was replaced. *)
StrayEnds(pid) ==
  /\ strays' = strays \ {pid} /\ zombies' = zombies \cup {pid}
  /\ UNCHANGED <<ppc, cur, newpid, child_pids, flags, cnt, watched, batch, run,
                 wstop, last, left>>

Worker(i) == WorkerExit(i) \/ WorkerOrphaned(i)
-----------------------------------------------------------------------------
Environment == \/ PollClients \/ Sigterm \/ Sighup \/ ParentDies
               \/ \E i \in Entries : WorkerCrash(i) \/ StaleHangup(i)

Workers == (\E i \in Entries : Worker(i)) \/ (\E pid \in strays : StrayEnds(pid))

Next == Parent \/ Sigchld \/ Environment \/ Workers

Spec == Init /\ [][Next]_vars

(* The parent keeps running, SIGCHLD is delivered, and a worker comes      *)
(* round to its loop condition, where handle_fini does not object for      *)
(* ever.  Nothing is assumed of clients, operators and crashes.            *)
FairSpec == /\ Spec /\ WF_vars(Parent) /\ WF_vars(Sigchld)
            /\ \A i \in Entries : WF_vars(Worker(i))
            /\ WF_vars(\E pid \in strays : StrayEnds(pid))
-----------------------------------------------------------------------------
(***************************************************************************)
(* Properties                                                              *)
(***************************************************************************)
(* killall_children returns, and the parent unmaps the queues and ends     *)
(* (main.c:99-106), only when the worker of no entry runs any more: no     *)
(* fork, restart, signal or stale hang-up in whatever order makes it lose  *)
(* one.  (A worker that was replaced while it ran has no slot, and is not  *)
(* waited for.)                                                            *)
NoWorkerLeftBehind ==
  ppc \in {"exited", "execed"} => \A i \in Entries : run[i] = 0

(* When killall_children starts to wait (daemon.c:185), every worker that  *)
(* still runs has got its SIGTERM or had stop set before, although the     *)
(* slots are emptied by the handler and filled by restarts meanwhile, and  *)
(* each is read twice (daemon.c:180-181): otherwise it waits for ever.     *)
AllAreTold ==
  ppc = "wait" => \A i \in Entries : run[i] # 0 => wstop[i]

(* "wait for all child exit" (daemon.c:185): the wait comes to an end if   *)
(* every slot has the pid of a worker that runs or was not waited for yet. *)
(* (Between fork and atomic_set a worker may die and be waited for: its    *)
(* pid is recorded afterwards and stays, main.c:78.)                       *)
KillallReturns ==
  /\ ppc = "wait"
  /\ \A i \in Entries : child_pids[i] \in {0, run[i]} \cup strays \cup zombies
  ~> ppc \in Ended

(* The same wait, "for all child exit", relies on sigchld_handler: a       *)
(* worker it has waited for is in no slot any more.                        *)
ReapedAreForgotten ==
  [][\A pid \in zombies \ zombies' : \A i \in Entries : child_pids'[i] # pid]_vars

(* A worker that is not running is (re)started, until its restarts are     *)
(* used up, a fork fails or the parent ends (net.c:637).                   *)
WorkersComeBack ==
  \A i \in Entries :
    run[i] = 0 ~> \/ run[i] # 0 \/ cnt[i] > MaxRestarts
                  \/ left["fork"] < ForkFails
                  \/ ppc \in Ended \cup {"kill", "send", "wait"}

(* Workers whose parent is gone end, too, those that were replaced         *)
(* included (net.c:640-643).                                               *)
OrphansEnd ==
  ppc = "dead" ~> strays = {} /\ \A i \in Entries : run[i] = 0
=============================================================================
