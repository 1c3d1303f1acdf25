---------------------------- MODULE PipeHandles ----------------------------
(***************************************************************************)
(* Which process holds which end of which pipe.  For each bind entry the   *)
(* parent makes two pipes, one for each queue, and forks a worker; each    *)
(* side closes the ends of the other (shmq.c, service.c, main.c).  The     *)
(* death of either side reaches the other only as EPOLLHUP, when the last  *)
(* descriptor of a write end is gone, and the parent takes any EPOLLHUP on *)
(* a descriptor of type pipe for the crash of a worker (net.c).            *)
(*                                                                         *)
(* Descriptors are numbers, the kernel gives out the lowest free one, fork *)
(* copies the table, and pipe_handles keeps numbers.  A client's           *)
(* descriptor may be closed and its number given to a pipe while an event  *)
(* for it is still in the batch; and its registration with epoll outlives  *)
(* close() as long as a worker forked meanwhile has not closed its copy.   *)
(***************************************************************************)
EXTENDS Integers, Sequences, FiniteSetsExt

CONSTANTS Entries,      \* number of bind entries
          MaxFd,        \* the highest descriptor number
          MaxForks,     \* bound: workers forked
          MaxRestarts,  \* 20 in the code
          MaxClients    \* bound: clients accepted

ASSUME HandlesAssumption ==
  /\ Entries \in Nat \ {0} /\ MaxFd \in Nat
  /\ MaxForks \in Nat /\ MaxRestarts \in Nat /\ MaxClients \in Nat

VARIABLES
  ptab,      \* the descriptors of the parent: <<>>, a pipe's end, a socket
  kind,      \* epi.fds of the parent: type and entry, <<>> for unused
  hs,        \* pipe_handles of each entry: s0, s1 of sendq, r0, r1 of recvq
  restarts,  \* restart_cnt of each entry
  booted,    \* the entries that main has set up
  up,        \* the parent lives
  ended,     \* the clients that have hung up or closed: <<descriptor, hup>>
  batch,     \* events to handle: <<descriptor, hup, what it was>>
  ws,        \* the workers in the order of their forks
  pipes, clients

vars == <<ptab, kind, hs, restarts, booted, up, ended, batch, ws, pipes, clients>>

Fds == 0 .. MaxFd
Free == <<>>
NoTable == [f \in Fds |-> Free]

Init ==
  /\ ptab = NoTable /\ kind = [f \in Fds |-> <<>>]
  /\ hs = [e \in 1 .. Entries |-> [s0 |-> -1, s1 |-> -1, r0 |-> -1, r1 |-> -1]]
  /\ restarts = [e \in 1 .. Entries |-> 0]
  /\ booted = 0 /\ up = TRUE /\ ended = {} /\ batch = {} /\ ws = <<>>
  /\ pipes = 0 /\ clients = 0
-----------------------------------------------------------------------------
Lowest(tab) == Min({f \in Fds : tab[f] = Free})
Room(tab, m) == Cardinality({f \in Fds : tab[f] = Free}) >= m

Close(tab, S) == [f \in Fds |-> IF f \in S THEN Free ELSE tab[f]]

(* pipe_create: pipe() takes the two lowest numbers. *)
PipeCreate(tab, p) ==
  LET r == Lowest(tab)
      w == Lowest([tab EXCEPT ![r] = <<"r", p>>])
  IN  [tab |-> [tab EXCEPT ![r] = <<"r", p>>, ![w] = <<"w", p>>], r |-> r, w |-> w]

(* shmq_create: the pipe of sendq is pipes + 1, that of recvq pipes + 2.   *)
(* The operands of | may be evaluated in either order.                     *)
ShmqCreate(tab, sendFirst) ==
  LET a == PipeCreate(tab, IF sendFirst THEN pipes + 1 ELSE pipes + 2)
      b == PipeCreate(a.tab, IF sendFirst THEN pipes + 2 ELSE pipes + 1)
      s == IF sendFirst THEN a ELSE b
      r == IF sendFirst THEN b ELSE a
  IN  [tab |-> b.tab, h |-> [s0 |-> s.r, s1 |-> s.w, r0 |-> r.r, r1 |-> r.w]]

(* Mutant of ParentCloses: the parent keeps the write end of sendq. *)
ParentClosesOne(h) == {h.r0}

(* close_shmq_pipe in the parent, after fork. *)
ParentCloses(h) == {h.r0, h.s1}

(* Mutants of ChildCloses: the wrong end; the own entry is left out. *)
ChildClosesWrong(w) ==
  UNION {{w.hs[i].r1, w.hs[i].s1} : i \in 1 .. w.inited}
ChildClosesOthers(w) ==
  UNION {{w.hs[i].r1, w.hs[i].s0} : i \in 1 .. w.inited - 1}

(* close_shmq_pipe in a worker, by the numbers that pipe_handles had at    *)
(* the fork, for the first entries.                                        *)
ChildCloses(w) ==
  UNION {{w.hs[i].r1, w.hs[i].s0} : i \in 1 .. w.inited}

(* safe_socket_listen: a new descriptor, or -1 when one of its calls fails *)
(* and the socket is closed again.                                         *)
SafeSocketListen(tab, ok) == IF ok THEN Lowest(tab) ELSE -1

(* net_start: the listening socket of an entry joins the table. *)
NetStart(e, t, ok) ==
  LET l == SafeSocketListen(t.tab, ok)
  IN  IF l = -1 THEN t
      ELSE [tab |-> [t.tab EXCEPT ![l] = <<"listen", e>>],
            knd |-> [t.knd EXCEPT ![l] = <<"listen", e>>]]

(* fork and what the parent does next: it closes the worker's ends, adds   *)
(* its own read end, and starts to listen when it boots.                   *)
Forked(e, tab, h, knd, inited, listen) ==
  LET t == NetStart(e, [tab |-> Close(tab, ParentCloses(h)),
                        knd |-> [knd EXCEPT ![h.s0] = <<"pipe", e>>]], listen)
  IN  /\ ws' = Append(ws, [entry |-> e, at |-> "forked", tab |-> tab,
                           hs |-> [hs EXCEPT ![e] = h], knd |-> knd,
                           inited |-> inited])
      /\ ptab' = t.tab /\ kind' = t.knd

(* The loop of main over the entries. *)
Boot(sendFirst, listen) ==
  LET e == booted + 1
      c == ShmqCreate(ptab, sendFirst)
  IN  /\ up /\ booted < Entries /\ Room(ptab, 4)
      /\ booted' = e /\ pipes' = pipes + 2
      /\ hs' = [hs EXCEPT ![e] = c.h]
      /\ \/ Forked(e, c.tab, c.h, kind, e, listen)
         \/ ptab' = c.tab /\ UNCHANGED <<kind, ws>>     \* fork fails
      /\ UNCHANGED <<restarts, up, ended, batch, clients>>

Looping == up /\ booted = Entries
-----------------------------------------------------------------------------
(* Clients take and leave descriptors, also between two events of a batch. *)
Accept(e) ==
  /\ Looping /\ clients < MaxClients /\ Room(ptab, 1)
  /\ \E f \in Fds : kind[f] = <<"listen", e>>
  /\ LET f == Lowest(ptab)
     IN  /\ ptab' = [ptab EXCEPT ![f] = <<"client", clients>>]
         /\ kind' = [kind EXCEPT ![f] = <<"remote", e>>]
  /\ clients' = clients + 1
  /\ UNCHANGED <<hs, restarts, booted, up, ended, batch, ws, pipes>>

ClientEnds(f, hup) ==
  /\ Looping /\ ptab[f] # Free /\ ptab[f][1] = "client"
  /\ \A x \in ended : x[1] # f
  /\ ended' = ended \cup {<<f, hup>>}
  /\ UNCHANGED <<ptab, kind, hs, restarts, booted, up, batch, ws, pipes, clients>>

Holds(tab, end) == \E f \in Fds : tab[f] = end

(* Some process has a write end of pipe p. *)
HasWriter(p) ==
  \/ up /\ Holds(ptab, <<"w", p>>)
  \/ \E i \in DOMAIN ws : ws[i].at # "dead" /\ Holds(ws[i].tab, <<"w", p>>)

Is(f, type) == kind[f] # <<>> /\ kind[f][1] = type

HungUp(f) == Is(f, "pipe") /\ ~HasWriter(ptab[f][2])

(* do_del_conn leaves it to close() to end a registration (net.c:232), but *)
(* a worker forked and not yet started still holds the descriptor: what    *)
(* happens to it is reported under a number that is unused or another's.   *)
Outlives(w) ==
  {f \in Fds : w.at = "forked" /\ w.knd[f] # <<>> /\ w.tab[f] # ptab[f]}

Lingering ==
  {ev \in UNION {{<<f, hup, w.tab[f]>> : f \in Outlives(w), hup \in BOOLEAN}
                 : w \in {ws[i] : i \in DOMAIN ws}} :
     ev[3][1] = "r" => ev[2] /\ ~HasWriter(ev[3][2])}

(* epoll_wait reports what is ready, and any of what lingers; the batch is *)
(* handled in any order.                                                   *)
EpollWait ==
  /\ Looping /\ batch = {}
  /\ \E old \in SUBSET Lingering :
       batch' = {<<x[1], x[2], ptab[x[1]]>> : x \in ended}
                  \cup {<<f, TRUE, ptab[f]>> : f \in {g \in Fds : HungUp(g)}}
                  \cup old
  /\ batch' # {}
  /\ UNCHANGED <<ptab, kind, hs, restarts, booted, up, ended, ws, pipes, clients>>

(* do_del_conn for a set of descriptors. *)
Del(S) ==
  /\ ptab' = Close(ptab, S)
  /\ kind' = [f \in Fds |-> IF f \in S THEN <<>> ELSE kind[f]]
  /\ ended' = {x \in ended : x[1] \notin S}

(* An event of a descriptor that is unused by now is skipped; any event of *)
(* a client here leads to its deletion; a pipe without EPOLLHUP is         *)
(* drained.                                                                *)
HandleOther(ev) ==
  /\ Looping /\ ev \in batch /\ batch' = batch \ {ev}
  /\ ~(Is(ev[1], "pipe") /\ ev[2])
  /\ Del(IF Is(ev[1], "remote") THEN {ev[1]} ELSE {})
  /\ UNCHANGED <<hs, restarts, booted, up, ws, pipes, clients>>

OfEntry(e) ==
  {f \in Fds : (Is(f, "pipe") \/ Is(f, "remote")) /\ kind[f][2] = e}

(* handle_pipe_event with EPOLLHUP: all of the entry's descriptors but the *)
(* listening socket are closed, and restart_child_process makes new pipes  *)
(* and forks, unless the restarts are used up.                             *)
HandleHangup(ev, sendFirst) ==
  /\ Looping /\ ev \in batch /\ ev[2] /\ batch' = batch \ {ev}
  /\ Is(ev[1], "pipe")
  /\ Len(ws) < MaxForks
  /\ LET e    == kind[ev[1]][2]
         gone == OfEntry(e)
         knd  == [f \in Fds |-> IF f \in gone THEN <<>> ELSE kind[f]]
         tab  == Close(ptab, gone \cup {hs[e].r1})
         c    == ShmqCreate(tab, sendFirst)
     IN  /\ ended' = {x \in ended : x[1] \notin gone}
         /\ IF restarts[e] < MaxRestarts
              THEN /\ Room(tab, 4)
                   /\ restarts' = [restarts EXCEPT ![e] = @ + 1]
                   /\ hs' = [hs EXCEPT ![e] = c.h] /\ pipes' = pipes + 2
                   /\ \/ Forked(e, c.tab, c.h, knd, Entries, FALSE)
                      \/ ptab' = c.tab /\ kind' = knd /\ UNCHANGED ws
              ELSE /\ restarts' = [restarts EXCEPT ![e] = MaxRestarts + 1]
                   /\ ptab' = Close(ptab, gone) /\ kind' = knd
                   /\ UNCHANGED <<hs, pipes, ws>>
  /\ UNCHANGED <<booted, up, clients>>

ParentDies ==
  /\ up /\ up' = FALSE
  /\ ptab' = NoTable /\ kind' = [f \in Fds |-> <<>>] /\ batch' = {} /\ ended' = {}
  /\ UNCHANGED <<hs, restarts, booted, ws, pipes, clients>>
-----------------------------------------------------------------------------
Dead(w) == [w EXCEPT !.at = "dead", !.tab = NoTable, !.knd = NoTable]

(* The ends a worker needs: the read end of recvq, the write end of sendq. *)
Own(w) == w.hs[w.entry]

(* run_worker_process up to its loop: close_shmq_pipe, net_exit, which     *)
(* closes what the table of the parent had, and do_add_conn of the read    *)
(* end, which ends the process if it is closed.                            *)
WorkerStart(i) ==
  LET w   == ws[i]
      tab == Close(w.tab, ChildCloses(w) \cup {f \in Fds : w.knd[f] # <<>>})
  IN  /\ w.at = "forked"
      /\ ws' = [ws EXCEPT ![i] =
           IF tab[Own(w).r0] = Free THEN Dead(w)
           ELSE [w EXCEPT !.at = "run", !.tab = tab, !.knd = NoTable]]
      /\ UNCHANGED <<ptab, kind, hs, restarts, booted, up, ended, batch, pipes,
                     clients>>

(* A worker's pipe hangs up: it takes the parent for crashed and ends. *)
WorkerStops(i) ==
  /\ ws[i].at = "run" /\ ~HasWriter(ws[i].tab[Own(ws[i]).r0][2])
  /\ ws' = [ws EXCEPT ![i] = Dead(ws[i])]
  /\ UNCHANGED <<ptab, kind, hs, restarts, booted, up, ended, batch, pipes,
                 clients>>

WorkerCrashes(i) ==
  /\ ws[i].at # "dead"
  /\ ws' = [ws EXCEPT ![i] = Dead(ws[i])]
  /\ UNCHANGED <<ptab, kind, hs, restarts, booted, up, ended, batch, pipes,
                 clients>>

Worker(i) == WorkerStart(i) \/ WorkerStops(i)

Parent ==
  \/ \E sendFirst, listen \in BOOLEAN : Boot(sendFirst, listen)
  \/ EpollWait
  \/ \E ev \in batch : HandleOther(ev) \/ \E o \in BOOLEAN : HandleHangup(ev, o)

Next ==
  \/ Parent \/ ParentDies
  \/ \E e \in 1 .. Entries : Accept(e)
  \/ \E f \in Fds, hup \in BOOLEAN : ClientEnds(f, hup)
  \/ \E i \in DOMAIN ws : Worker(i) \/ WorkerCrashes(i)

Spec == Init /\ [][Next]_vars

(* A forked worker runs on, and epoll_wait of a worker returns for EPOLLHUP. *)
FairSpec == Spec /\ \A i \in 1 .. MaxForks : WF_vars(i \in DOMAIN ws /\ Worker(i))
-----------------------------------------------------------------------------
(* The number of an entry that is out of restarts, whose pipe is closed    *)
(* for good, is one of the worker's own ends (shmq.c:209).                 *)
StaleNumber(w) ==
  \E i \in (1 .. w.inited) \ {w.entry} :
    /\ restarts[i] > MaxRestarts
    /\ w.hs[i].s0 \in {Own(w).r0, Own(w).s1}

Runs(w) == w.at = "run" /\ ~StaleNumber(w)

Wired(w) ==
  /\ \E p \in 1 .. pipes : w.tab[Own(w).r0] = <<"r", p>>
  /\ \E p \in 1 .. pipes : w.tab[Own(w).s1] = <<"w", p>>

OwnEnds(w) == {w.tab[Own(w).r0], w.tab[Own(w).s1]}

(* The ends of the same pipes that belong to the parent. *)
OtherEnds(w) ==
  {<<"w", w.tab[Own(w).r0][2]>>, <<"r", w.tab[Own(w).s1][2]>>}

(* "One pipe is written only by the parent and read by the worker, the     *)
(* other the reverse" (README.md): a worker that runs holds its own two    *)
(* ends, neither of the parent's, and none of another worker's pipes,      *)
(* whatever was forked and restarted before; only the number of a pipe     *)
(* closed for good can spoil this.                                         *)
WiredAsDocumented ==
  \A i \in DOMAIN ws : LET w == ws[i] IN
    Runs(w) =>
      /\ Wired(w)
      /\ \A end \in OtherEnds(w) : ~Holds(w.tab, end)
      /\ \A j \in DOMAIN ws \ {i} : Runs(ws[j]) /\ Wired(ws[j]) =>
           \A end \in OwnEnds(ws[j]) \cup OtherEnds(ws[j]) : ~Holds(w.tab, end)

(* The worker that was last forked for the entry. *)
Latest(e) ==
  LET I == {i \in DOMAIN ws : ws[i].entry = e}
  IN  IF I = {} THEN 0 ELSE Max(I)

(* The death of a worker always shows, and at once: neither the parent nor *)
(* a worker forked meanwhile, started or not, keeps the pipe open on which *)
(* the parent waits for the hang-up.                                       *)
DeathShows ==
  \A e \in 1 .. Entries :
    LET i == Latest(e) IN
    /\ Looping /\ i # 0 /\ ws[i].at = "dead"
    /\ kind[hs[e].s0] = <<"pipe", e>>
    => HungUp(hs[e].s0)

(* A worker is replaced only when it is gone: a hang-up that was reported  *)
(* for the pipe itself is the death of the worker, or of its write end.    *)
(* (One that was reported for a client, or an old pipe, whose number the   *)
(* new pipe got is taken for it too, net.c:528: it replaces a worker that  *)
(* lives, and this says nothing of it.)                                    *)
OnlyTheDeadAreReplaced ==
  [][\A e \in 1 .. Entries, ev \in batch :
       /\ restarts'[e] # restarts[e] /\ batch' = batch \ {ev}
       /\ ev[3] = ptab[ev[1]] /\ Latest(e) # 0
       => ws[Latest(e)].at = "dead" \/ StaleNumber(ws[Latest(e)])]_vars

(* When the parent dies every worker ends, although descriptors are        *)
(* inherited in all directions and workers may be forked but not started.  *)
OrphansNotice == ~up ~> \A i \in DOMAIN ws : ws[i].at = "dead"
=============================================================================
