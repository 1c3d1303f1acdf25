-------------------------- MODULE SupervisorProofs --------------------------
(***************************************************************************)
(* The parent never ends while the worker of an entry runs, and never      *)
(* waits for one that was not told to end: for any number of bind entries, *)
(* of restarts, of crashes, of signals and of stale hang-ups.              *)
(***************************************************************************)
EXTENDS Supervisor, TLAPS

(***************************************************************************)
(* The inductive invariant.                                                *)
(***************************************************************************)
Between == ppc \in {"bootset", "reset"}

(* What the variables that matter range over. *)
PidsInv ==
  /\ last \in Nat /\ newpid \in Nat /\ cur \in Nat \ {0}
  /\ run \in [Entries -> Nat] /\ child_pids \in [Entries -> Nat]
  /\ wstop \in [Entries -> BOOLEAN] /\ stop \in BOOLEAN
  /\ zombies \subseteq 1 .. last /\ strays \subseteq 1 .. last
  /\ watched \subseteq Entries /\ batch \subseteq Entries

(* A pid is not given out twice: no worker has the pid of another one, of  *)
(* one that was replaced, or of a dead one, so the handler never forgets a *)
(* worker that runs.                                                       *)
FreshInv ==
  /\ \A i \in Entries : run[i] <= last /\ run[i] \notin zombies \cup strays
  /\ \A i, j \in Entries : run[i] # 0 /\ run[i] = run[j] => i = j

(* Between fork and atomic_set the parent's flow, and otherwise the slot,  *)
(* has the pid of the worker that runs.                                    *)
SlotInv ==
  /\ Between => cur \in Entries /\ run[cur] \in {0, newpid}
  /\ ppc # "dead" => \A i \in Entries :
       run[i] # 0 => child_pids[i] = run[i] \/ (Between /\ cur = i)

(* What killall_children has done so far. *)
ToldInv ==
  /\ ppc \in {"kill", "send", "wait"} =>
       \A i \in Entries : i < cur /\ run[i] # 0 => wstop[i]
  /\ ppc = "wait" => cur > N
  /\ ppc = "send" => cur \in Entries

IInv == PidsInv /\ FreshInv /\ SlotInv /\ ToldInv /\ NoWorkerLeftBehind

(* The pids of the workers that were replaced, and one more. *)
LEMMA PidSet ==
  ASSUME NEW S, NEW p \in Nat, NEW n \in Nat,
         S \subseteq 1 .. n, p <= n
  PROVE  S \cup ({p} \ {0}) \subseteq 1 .. n
<1> SUFFICES ASSUME NEW q \in S \cup ({p} \ {0}) PROVE q \in 1 .. n
  OBVIOUS
<1>1. CASE q \in S
  BY <1>1
<1>2. CASE q = p /\ q # 0
  BY <1>2
<1> QED
  BY <1>1, <1>2

(* What a fork does to the workers. *)
LEMMA ForkStep ==
  ASSUME IInv, NEW i \in Entries, Fork(i),
         ~Between, ppc # "dead", child_pids' = child_pids, cur' = i,
         ppc' \in {"bootset", "reset"},
         watched' \subseteq Entries, batch' \subseteq Entries, stop' = stop
  PROVE  IInv'
<1>1. /\ last' = last + 1 /\ newpid' = last + 1 /\ zombies' = zombies
      /\ run' = [run EXCEPT ![i] = last + 1]
      /\ wstop' = [wstop EXCEPT ![i] = stop]
      /\ strays' = strays \cup ({run[i]} \ {0})
  BY DEF Fork, Abandon
<1>2. /\ last \in Nat /\ run \in [Entries -> Nat] /\ zombies \subseteq 1 .. last
      /\ strays \subseteq 1 .. last /\ \A j \in Entries : run[j] <= last
  BY DEF IInv, PidsInv, FreshInv
<1>3. /\ run'[i] = last + 1
      /\ \A j \in Entries : j # i => run'[j] = run[j]
  BY <1>1, <1>2
<1>4. FreshInv'
  <2>1. ASSUME NEW j \in Entries
        PROVE  run'[j] <= last' /\ run'[j] \notin zombies' \cup strays'
    <3>1. CASE j = i
      BY <1>1, <1>2, <1>3, <3>1
    <3>2. CASE j # i
      BY <1>1, <1>2, <1>3, <3>2 DEF IInv, FreshInv
    <3> QED
      BY <3>1, <3>2
  <2>2. \A j, k \in Entries : run'[j] # 0 /\ run'[j] = run'[k] => j = k
    BY <1>2, <1>3 DEF IInv, FreshInv
  <2> QED
    BY <2>1, <2>2 DEF FreshInv
<1>5. SlotInv'
  BY <1>1, <1>2, <1>3 DEF IInv, SlotInv, Between
<1>6. PidsInv'
  <2>1. strays' \subseteq 1 .. last'
    <3>1. run[i] \in Nat /\ run[i] <= last
      BY <1>2
    <3>2. strays \cup ({run[i]} \ {0}) \subseteq 1 .. last
      BY <1>2, <3>1, PidSet
    <3>3. 1 .. last \subseteq 1 .. (last + 1)
      BY <1>2
    <3> QED
      BY <1>1, <3>2, <3>3
  <2>2. wstop' \in [Entries -> BOOLEAN]
    BY <1>1 DEF IInv, PidsInv
  <2> QED
    BY <1>1, <1>2, <2>1, <2>2 DEF IInv, PidsInv, Entries
<1> QED
  BY <1>4, <1>5, <1>6 DEF IInv, ToldInv, NoWorkerLeftBehind

(* A fork that fails. *)
LEMMA ForkFailedStep ==
  ASSUME IInv, NEW i \in Entries, ForkFailed(i),
         ~Between, ppc \in {"boot", "events"}, child_pids' = child_pids,
         ppc' = ppc, cur' \in {cur, cur + 1},
         watched' \subseteq Entries, batch' \subseteq Entries, stop' = stop
  PROVE  IInv'
<1>1. /\ UNCHANGED <<last, newpid, zombies, wstop>>
      /\ run' = [run EXCEPT ![i] = 0]
      /\ strays' = strays \cup ({run[i]} \ {0})
  BY DEF ForkFailed, Abandon
<1>2. /\ last \in Nat /\ run \in [Entries -> Nat] /\ zombies \subseteq 1 .. last
      /\ strays \subseteq 1 .. last /\ \A j \in Entries : run[j] <= last
  BY DEF IInv, PidsInv, FreshInv
<1>3. run'[i] = 0 /\ \A j \in Entries : j # i => run'[j] = run[j]
  BY <1>1, <1>2
<1>4. FreshInv'
  <2>1. ASSUME NEW j \in Entries
        PROVE  run'[j] <= last' /\ run'[j] \notin zombies' \cup strays'
    <3>1. CASE j = i
      BY <1>1, <1>2, <1>3, <3>1
    <3>2. CASE j # i
      BY <1>1, <1>2, <1>3, <3>2 DEF IInv, FreshInv
    <3> QED
      BY <3>1, <3>2
  <2>2. \A j, k \in Entries : run'[j] # 0 /\ run'[j] = run'[k] => j = k
    BY <1>2, <1>3 DEF IInv, FreshInv
  <2> QED
    BY <2>1, <2>2 DEF FreshInv
<1>5. SlotInv'
  BY <1>1, <1>2, <1>3 DEF IInv, SlotInv, Between
<1>6. PidsInv'
  <2>1. run[i] \in Nat /\ run[i] <= last
    BY <1>2
  <2>4. strays \cup ({run[i]} \ {0}) \subseteq 1 .. last
    BY <1>2, <2>1, PidSet
  <2>2. strays' \subseteq 1 .. last'
    BY <1>1, <2>4
  <2>3. run' \in [Entries -> Nat] /\ cur' \in Nat \ {0}
    BY <1>1, <1>2 DEF IInv, PidsInv
  <2> QED
    BY <1>1, <2>2, <2>3 DEF IInv, PidsInv
<1> QED
  BY <1>4, <1>5, <1>6 DEF IInv, ToldInv, NoWorkerLeftBehind

(* The parent's boot loop, up to the fork (main.c:68-82). *)
LEMMA BootStep == IInv /\ Boot => IInv'
<1> SUFFICES ASSUME IInv, Boot PROVE IInv'
  OBVIOUS
<1>1. /\ cur \in Entries /\ ~Between /\ ppc = "boot"
      /\ UNCHANGED <<child_pids, watched, batch, stop>>
      /\ watched \subseteq Entries /\ batch \subseteq Entries
  BY NAssumption DEF Boot, flags, IInv, PidsInv, Entries, Between
<1>2. CASE Fork(cur) /\ ppc' = "bootset" /\ UNCHANGED cur
  BY <1>1, <1>2, ForkStep
<1>3. CASE ForkFailed(cur) /\ cur' = cur + 1 /\ UNCHANGED ppc
  BY <1>1, <1>3, ForkFailedStep
<1> QED
  BY <1>2, <1>3 DEF Boot

(* The hang-up of a worker's pipe, up to the fork (net.c:625-639).         *)
LEMMA HangupStep == \A i \in Entries : IInv /\ Hangup(i) => IInv'
<1> SUFFICES ASSUME NEW i \in Entries, IInv, Hangup(i) PROVE IInv'
  OBVIOUS
<1>1. /\ ~Between /\ ppc = "events" /\ UNCHANGED <<child_pids, stop>>
      /\ watched' \subseteq Entries /\ batch' \subseteq Entries
  BY DEF Hangup, flags, IInv, PidsInv, Between
<1>2. CASE Fork(i) /\ ppc' = "reset" /\ cur' = i
  BY <1>1, <1>2, ForkStep
<1>3. CASE ForkFailed(i) /\ UNCHANGED <<ppc, cur>>
  BY <1>1, <1>3, ForkFailedStep
<1>4. CASE UNCHANGED <<ppc, cur, newpid, wvars>>
  BY <1>1, <1>4 DEF wvars, IInv, PidsInv, FreshInv, SlotInv, ToldInv, Between,
                    NoWorkerLeftBehind
<1> QED
  BY <1>2, <1>3, <1>4 DEF Hangup

(* Recording the pid (main.c:78, service.c:184). *)
LEMMA AdoptStep ==
  ASSUME IInv, Between, Adopt, ppc' \in {"boot", "events"},
         UNCHANGED <<newpid, batch, wvars>>
  PROVE  FreshInv' /\ SlotInv' /\ child_pids' \in [Entries -> Nat]
<1>1. cur \in Entries /\ run[cur] \in {0, newpid} /\ run' = run
  BY DEF IInv, SlotInv, wvars
<1>2. child_pids' = [child_pids EXCEPT ![cur] = newpid]
  BY DEF Adopt
<1>3. child_pids' \in [Entries -> Nat]
  BY <1>1, <1>2 DEF IInv, PidsInv
<1>4. \A i \in Entries : run[i] # 0 => child_pids'[i] = run[i]
  BY <1>1, <1>2 DEF IInv, PidsInv, SlotInv, Between
<1>5. FreshInv'
  BY DEF IInv, FreshInv, wvars
<1> QED
  BY <1>1, <1>3, <1>4, <1>5 DEF SlotInv, Between

(* Both places that record a pid preserve the invariant. *)
LEMMA SetStep == IInv /\ (BootSet \/ Reset) => IInv'
<1>1. ASSUME IInv, BootSet PROVE IInv'
  <2>1. FreshInv' /\ SlotInv' /\ child_pids' \in [Entries -> Nat]
    BY <1>1, AdoptStep DEF BootSet, Between
  <2>2. watched' \subseteq Entries
    BY <1>1 DEF BootSet, Adopt, IInv, PidsInv, SlotInv, Between
  <2>3. PidsInv'
    BY <1>1, <2>1, <2>2 DEF BootSet, flags, wvars, IInv, PidsInv, Entries
  <2> QED
    BY <1>1, <2>1, <2>3 DEF BootSet, IInv, ToldInv, NoWorkerLeftBehind
<1>2. ASSUME IInv, Reset PROVE IInv'
  <2>1. FreshInv' /\ SlotInv' /\ child_pids' \in [Entries -> Nat]
    BY <1>2, AdoptStep DEF Reset, Between
  <2>2. watched' \subseteq Entries
    BY <1>2 DEF Reset, Adopt, IInv, PidsInv, SlotInv, Between
  <2>3. PidsInv'
    BY <1>2, <2>1, <2>2 DEF Reset, flags, wvars, IInv, PidsInv
  <2> QED
    BY <1>2, <2>1, <2>3 DEF Reset, IInv, ToldInv, NoWorkerLeftBehind
<1> QED
  BY <1>1, <1>2

(* sigchld_handler forgets only pids of the dead (daemon.c:48-60). *)
LEMMA SigchldStep == IInv /\ Sigchld => IInv'
<1> SUFFICES ASSUME IInv, Sigchld PROVE IInv'
  OBVIOUS
<1>1. /\ child_pids' \in [Entries -> Nat]
      /\ \A i \in Entries : child_pids'[i] = child_pids[i] \/ child_pids[i] \in zombies
  BY DEF Sigchld, IInv, PidsInv
<1>2. \A i \in Entries : run[i] # 0 /\ child_pids[i] = run[i] => child_pids'[i] = run[i]
  BY <1>1 DEF IInv, FreshInv
<1>3. PidsInv'
  BY <1>1 DEF Sigchld, flags, IInv, PidsInv
<1>4. FreshInv' /\ ToldInv' /\ NoWorkerLeftBehind'
  BY DEF Sigchld, Interrupted, Ended, IInv, FreshInv, ToldInv, NoWorkerLeftBehind
<1>5. SlotInv'
  BY <1>2 DEF Sigchld, Interrupted, Ended, IInv, SlotInv, Between
<1> QED
  BY <1>3, <1>4, <1>5 DEF IInv

(* The end of a worker. *)
LEMMA DieStep == \A i \in Entries : IInv /\ run[i] # 0 /\ Die(i) => IInv'
<1> SUFFICES ASSUME NEW i \in Entries, IInv, run[i] # 0, Die(i) PROVE IInv'
  OBVIOUS
<1>1. /\ zombies' = zombies \cup {run[i]} /\ last' = last
      /\ run' = [run EXCEPT ![i] = 0]
  BY DEF Die
<1>2. /\ run' \in [Entries -> Nat] /\ run'[i] = 0
      /\ \A j \in Entries : j # i => \/ run'[j] = run[j] /\ run'[j] # run[i]
                                    \/ run'[j] = 0
  BY <1>1 DEF IInv, PidsInv, FreshInv
<1>3. zombies' \subseteq 1 .. last'
  <2>1. run[i] \in 1 .. last
    BY DEF IInv, PidsInv, FreshInv
  <2> QED
    BY <1>1, <2>1 DEF IInv, PidsInv
<1>4. PidsInv'
  BY <1>2, <1>3 DEF Die, flags, IInv, PidsInv
<1>5. 0 \notin zombies'
  BY <1>3 DEF IInv, PidsInv
<1>6. FreshInv'
  <2>1. 0 \notin zombies' \cup strays' /\ strays' = strays
    BY <1>5 DEF Die, IInv, PidsInv
  <2>2. \A j \in Entries : run'[j] # 0 =>
          run'[j] = run[j] /\ run'[j] \notin zombies' \cup strays'
    BY <1>1, <1>2, <2>1 DEF IInv, FreshInv
  <2> QED
    BY <1>1, <1>2, <2>1, <2>2 DEF IInv, FreshInv, PidsInv
<1>7. SlotInv' /\ ToldInv' /\ NoWorkerLeftBehind'
  BY <1>1, <1>2 DEF Die, IInv, PidsInv, SlotInv, ToldInv, Between,
                    NoWorkerLeftBehind
<1> QED
  BY <1>4, <1>6, <1>7 DEF IInv

(* The steps of the parent that fork nothing and record nothing. *)
LEMMA QuietStep ==
  IInv /\ (\/ Booted \/ Check \/ Sleep \/ Poll \/ PollClients \/ EventsDone
           \/ WaitOver \/ \E i \in Entries : StaleHangup(i)) => IInv'
<1> SUFFICES ASSUME IInv,
                    \/ Booted \/ Check \/ Sleep \/ Poll \/ PollClients
                    \/ EventsDone \/ WaitOver \/ \E i \in Entries : StaleHangup(i)
             PROVE  IInv'
  OBVIOUS
<1>1. UNCHANGED <<newpid, child_pids, flags, watched, wvars>>
  BY DEF Booted, Check, Sleep, Poll, PollClients, EventsDone, WaitOver, StaleHangup
<1>2. /\ ppc \notin {"dead", "kill", "send"} /\ ~Between /\ ~Between'
      /\ ppc' = "wait" => FALSE
      /\ ppc' = "send" => FALSE
      /\ ppc' = "kill" => cur' = 1
      /\ ppc' # "dead"
      /\ cur' \in {cur, 1}
  BY DEF Booted, Check, Sleep, Poll, PollClients, EventsDone, WaitOver, StaleHangup,
         Between
<1>3. batch' \subseteq Entries
  BY DEF Booted, Check, Sleep, Poll, PollClients, EventsDone, WaitOver, StaleHangup,
         HungUp, IInv, PidsInv
<1>4. PidsInv' /\ FreshInv'
  BY <1>1, <1>2, <1>3 DEF flags, wvars, IInv, PidsInv, FreshInv
<1>5. SlotInv'
  BY <1>1, <1>2 DEF wvars, IInv, SlotInv, Between
<1>6. ToldInv'
  BY <1>2 DEF ToldInv, Entries
<1>7. NoWorkerLeftBehind'
  <2>1. CASE WaitOver
    BY <1>1, <2>1 DEF WaitOver, wvars, IInv, PidsInv, SlotInv, Between,
                      NoWorkerLeftBehind
  <2>2. CASE ~WaitOver
    BY <1>1, <2>2 DEF Booted, Check, Sleep, Poll, PollClients, EventsDone,
                      StaleHangup, IInv, NoWorkerLeftBehind
  <2> QED
    BY <2>1, <2>2
<1> QED
  BY <1>4, <1>5, <1>6, <1>7 DEF IInv

(* killall_children passes over a slot only if no worker of it runs, or it *)
(* has been told (daemon.c:178-183).                                       *)
LEMMA KillStep == IInv /\ (KillTest \/ KillSend) => IInv'
<1>1. ASSUME IInv, KillTest PROVE IInv'
  <2>1. /\ UNCHANGED <<newpid, child_pids, flags, watched, batch, wvars>>
        /\ ppc = "kill" /\ ppc' \in {"kill", "send", "wait"}
        /\ cur' \in {cur, cur + 1}
    BY <1>1 DEF KillTest
  <2>2. PidsInv' /\ FreshInv' /\ SlotInv' /\ NoWorkerLeftBehind'
    BY <1>1, <2>1 DEF flags, wvars, IInv, PidsInv, FreshInv, SlotInv, Between,
                      NoWorkerLeftBehind
  <2>3. cur \in Entries /\ child_pids[cur] = 0 => run[cur] = 0
    BY <1>1, <2>1 DEF IInv, SlotInv, Between, PidsInv
  <2>4. ToldInv'
    BY <1>1, <2>1, <2>3 DEF KillTest, wvars, IInv, PidsInv, ToldInv, Entries
  <2> QED
    BY <2>2, <2>4 DEF IInv
<1>2. ASSUME IInv, KillSend PROVE IInv'
  <2>1. /\ UNCHANGED <<newpid, child_pids, watched, batch, run, strays, zombies, last>>
        /\ ppc = "send" /\ ppc' = "kill" /\ cur' = cur + 1
        /\ stop' \in {stop, TRUE} /\ cur \in Entries
        /\ wstop' = [i \in Entries |->
                       wstop[i] \/ (run[i] # 0 /\ child_pids[cur] \in {0, run[i]})]
    BY <1>2 DEF KillSend, SigtermHandler, flags, IInv, ToldInv
  <2>2. wstop' \in [Entries -> BOOLEAN]
    BY <2>1
  <2>3. PidsInv'
    <3>1. cur' \in Nat \ {0}
      BY <1>2, <2>1 DEF IInv, PidsInv
    <3>2. stop' \in BOOLEAN
      <4>1. stop \in BOOLEAN /\ stop' \in {stop, TRUE}
        BY <1>2, <2>1 DEF IInv, PidsInv
      <4> QED
        BY <4>1, Zenon
    <3> QED
      BY <1>2, <2>1, <2>2, <3>1, <3>2 DEF IInv, PidsInv
  <2>7. FreshInv' /\ SlotInv' /\ NoWorkerLeftBehind'
    BY <1>2, <2>1 DEF IInv, FreshInv, SlotInv, Between, NoWorkerLeftBehind
  <2>4. run[cur] # 0 => child_pids[cur] = run[cur]
    BY <1>2, <2>1 DEF IInv, SlotInv, Between
  <2>5. ASSUME NEW i \in Entries, i < cur + 1, run[i] # 0 PROVE wstop'[i]
    <3>1. i < cur \/ i = cur
      BY <1>2, <2>5 DEF IInv, PidsInv, Entries
    <3>2. CASE i < cur
      <4>1. wstop[i]
        BY <1>2, <2>1, <2>5, <3>2 DEF IInv, ToldInv
      <4> QED
        BY <2>1, <4>1
    <3>3. CASE i = cur
      BY <2>1, <2>4, <2>5, <3>3
    <3> QED
      BY <3>1, <3>2, <3>3
  <2>6. ToldInv'
    BY <2>1, <2>5 DEF ToldInv
  <2> QED
    BY <2>3, <2>6, <2>7 DEF IInv
<1> QED
  BY <1>1, <1>2

(* Signals of the operator, the death of the parent, workers that learn of *)
(* it, and the end of a worker that was replaced.                          *)
LEMMA SignalStep ==
  IInv /\ (Sigterm \/ Sighup \/ ParentDies) => IInv'
<1> SUFFICES ASSUME IInv, Sigterm \/ Sighup \/ ParentDies PROVE IInv'
  OBVIOUS
<1>1. /\ UNCHANGED <<cur, newpid, child_pids, watched, batch, wvars>>
      /\ stop' \in {stop, TRUE}
  BY DEF Sigterm, SigtermHandler, Sighup, ParentDies, flags
<1>2. \/ ppc' = ppc
      \/ ppc = "poll" /\ ppc' = "events"
      \/ ppc' = "dead"
  BY DEF Sigterm, Sighup, ParentDies, Interrupted
<1> QED
  BY <1>1, <1>2 DEF wvars, IInv, PidsInv, FreshInv, SlotInv, ToldInv, Between,
                    NoWorkerLeftBehind

LEMMA OrphanStep ==
  IInv /\ (\/ \E i \in Entries : WorkerOrphaned(i)
           \/ \E pid \in strays : StrayEnds(pid)) => IInv'
<1>1. ASSUME IInv, NEW i \in Entries, WorkerOrphaned(i) PROVE IInv'
  <2>1. wstop' = [wstop EXCEPT ![i] = TRUE]
    BY <1>1 DEF WorkerOrphaned
  <2>2. /\ wstop' \in [Entries -> BOOLEAN]
        /\ \A j \in Entries : wstop[j] => wstop'[j]
    BY <1>1, <2>1 DEF IInv, PidsInv
  <2> QED
    BY <1>1, <2>2 DEF WorkerOrphaned, flags, IInv, PidsInv, FreshInv, SlotInv,
                      ToldInv, Between, NoWorkerLeftBehind
<1>2. ASSUME IInv, NEW pid \in strays, StrayEnds(pid) PROVE IInv'
  <2>1. /\ strays' \subseteq 1 .. last /\ zombies' \subseteq 1 .. last
        /\ zombies' \cup strays' = zombies \cup strays
    BY <1>2 DEF StrayEnds, IInv, PidsInv
  <2>2. FreshInv'
    BY <1>2, <2>1 DEF StrayEnds, IInv, FreshInv
  <2> QED
    BY <1>2, <2>1, <2>2 DEF StrayEnds, flags, IInv, PidsInv, SlotInv, ToldInv,
                            Between, NoWorkerLeftBehind
<1> QED
  BY <1>1, <1>2

(* Every step preserves the invariant. *)
LEMMA NextIInv == IInv /\ [Next]_vars => IInv'
<1> SUFFICES ASSUME IInv, [Next]_vars PROVE IInv'
  OBVIOUS
<1>1. CASE Parent
  BY <1>1, BootStep, HangupStep, SetStep, QuietStep, KillStep DEF Parent
<1>2. CASE Sigchld
  BY <1>2, SigchldStep
<1>3. CASE Environment
  BY <1>3, QuietStep, SignalStep, DieStep DEF Environment, WorkerCrash
<1>4. CASE Workers
  BY <1>4, OrphanStep, DieStep DEF Workers, Worker, WorkerExit
<1>5. CASE UNCHANGED vars
  BY <1>5 DEF vars, wvars, flags, IInv, PidsInv, FreshInv, SlotInv, ToldInv, Between,
              NoWorkerLeftBehind
<1> QED
  BY <1>1, <1>2, <1>3, <1>4, <1>5 DEF Next

(* A worker's pid is in its slot, or in the hands of the parent between    *)
(* fork and atomic_set, at any time; no pid is used twice.                 *)
THEOREM Invariance == Spec => []IInv
<1>1. ASSUME Init PROVE IInv
  <2>1. /\ run = [i \in Entries |-> 0] /\ strays = {} /\ zombies = {} /\ last = 0
        /\ ppc = "boot"
    BY <1>1 DEF Init
  <2>2. PidsInv
    <3>1. /\ newpid = 0 /\ cur = 1 /\ stop = FALSE /\ watched = {} /\ batch = {}
          /\ child_pids = [i \in Entries |-> 0]
          /\ wstop = [i \in Entries |-> FALSE]
      BY <1>1 DEF Init
    <3>2. wstop \in [Entries -> BOOLEAN] /\ stop \in BOOLEAN
      BY <3>1
    <3>3. run \in [Entries -> Nat] /\ child_pids \in [Entries -> Nat]
      BY <2>1, <3>1
    <3> QED
      BY <2>1, <3>1, <3>2, <3>3 DEF PidsInv
  <2> QED
    BY <2>1, <2>2 DEF IInv, FreshInv, SlotInv, ToldInv, Between, NoWorkerLeftBehind
<1> QED
  BY <1>1, NextIInv, PTL DEF Spec

(* The parent ends (main.c:99-106) only when the worker of no entry runs.  *)
THEOREM ParentEndsLast == Spec => []NoWorkerLeftBehind
<1>1. IInv => NoWorkerLeftBehind
  BY DEF IInv
<1> QED
  BY <1>1, Invariance, PTL

(* killall_children waits (daemon.c:185) for no worker that was not told.  *)
THEOREM WaitsForTheToldOnly == Spec => []AllAreTold
<1>1. IInv => AllAreTold
  <2> SUFFICES ASSUME IInv, ppc = "wait", NEW i \in Entries, run[i] # 0
               PROVE  wstop[i]
    BY DEF AllAreTold
  <2>1. i < cur
    BY NAssumption DEF IInv, PidsInv, ToldInv, Entries
  <2> QED
    BY <2>1 DEF IInv, ToldInv
<1> QED
  BY <1>1, Invariance, PTL
=============================================================================
