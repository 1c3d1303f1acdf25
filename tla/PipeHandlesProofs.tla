------------------------- MODULE PipeHandlesProofs -------------------------
(***************************************************************************)
(* The wiring of the pipes across forks and restarts, for any number of    *)
(* bind entries, descriptors, forks, restarts and clients: a worker that   *)
(* runs holds its own ends and nobody else's, the death of a worker shows, *)
(* and only a worker that is gone is replaced.                             *)
(***************************************************************************)
EXTENDS PipeHandles, FiniteSetTheorems, WellFoundedInduction, TLAPS

(* What a descriptor can be, with n pipes made so far. *)
Things(n) == {Free} \cup ({"r", "w"} \X (1 .. n)) \cup ({"listen", "client"} \X Nat)
Kinds == {<<>>} \cup ({"pipe", "remote", "listen"} \X (1 .. Entries))
Handles(S) == [s0 : S, s1 : S, r0 : S, r1 : S]
Workers(n) ==
  [entry : 1 .. Entries, at : {"forked", "run", "dead"}, tab : [Fds -> Things(n)],
   hs : [1 .. Entries -> Handles(Fds \cup {-1})], knd : [Fds -> Kinds],
   inited : 1 .. Entries]

Has(tab, f, t) == tab[f] # Free /\ tab[f][1] = t

TypeInv ==
  /\ pipes \in Nat /\ clients \in Nat /\ booted \in 0 .. Entries /\ up \in BOOLEAN
  /\ restarts \in [1 .. Entries -> Nat]
  /\ \A e \in 1 .. Entries : e > booted => restarts[e] = 0
  /\ hs \in [1 .. Entries -> Handles(Fds \cup {-1})]
  /\ ws \in Seq(Workers(pipes))

(* The table of connections agrees with the descriptors.  Here and below,  *)
(* tab and knd are ptab and kind, or what they are while the parent makes  *)
(* new pipes, and S is the set of entries whose pipes are in place.        *)
KindsAgree(tab, knd, S) ==
  \A f \in Fds : knd[f] # <<>> =>
    \/ /\ knd[f][1] = "pipe" /\ Has(tab, f, "r")
       /\ knd[f][2] \in S /\ f = hs[knd[f][2]].s0
    \/ knd[f][1] = "remote" /\ Has(tab, f, "client")
    \/ knd[f][1] = "listen" /\ Has(tab, f, "listen")

(* The parent keeps its two ends of each entry, but the read end of one    *)
(* that is out of restarts.                                                *)
EndsKept(tab, knd, S) ==
  \A e \in S :
    /\ hs[e] \in Handles(Fds) /\ Has(tab, hs[e].r1, "w")
    /\ \A k \in S : k # e => hs[k].r1 # hs[e].r1
    /\ restarts[e] <= MaxRestarts =>
         Has(tab, hs[e].s0, "r") /\ knd[hs[e].s0] \in {<<>>, <<"pipe", e>>}
    /\ restarts[e] > MaxRestarts => \A f \in Fds : knd[f] # <<"pipe", e>>

Live(w) == w.at # "dead"

(* The number of the pipe of recvq; that of sendq is one less. *)
PipeOf(w) == w.tab[Own(w).r0][2]
PipesOf(w) == {PipeOf(w), PipeOf(w) - 1}

(* What WorkerStart closes. *)
Closes(w) == ChildCloses(w) \cup {f \in Fds : w.knd[f] # <<>>}

IsEnd(x) == x # Free /\ x[1] \in {"r", "w"}

(* The parent's ends of a living worker's pipes are those that             *)
(* pipe_handles names, so a worker forked later closes them.               *)
EndsNamed(tab, S) ==
  \A f \in Fds : IsEnd(tab[f]) =>
    \/ \E k \in S : f \in {hs[k].r1, hs[k].s0}
    \/ \A j \in DOMAIN ws : Live(ws[j]) => tab[f][2] \notin PipesOf(ws[j])

(* A living worker has its own ends; the other ends of its pipes it has    *)
(* only until it starts.                                                   *)
OwnEndsInv(w) ==
  /\ w.hs[w.entry] \in Handles(Fds) /\ w.entry <= w.inited
  /\ w.tab[Own(w).r0] = <<"r", PipeOf(w)>> /\ PipeOf(w) \in 2 .. pipes
  /\ \/ w.tab[Own(w).s1] = <<"w", PipeOf(w) - 1>>
     \/ w.at = "run" /\ StaleNumber(w)
  /\ \A f \in Fds : w.tab[f] \in {<<"w", PipeOf(w)>>, <<"r", PipeOf(w) - 1>>} =>
       w.at = "forked" /\ f \in Closes(w)
  /\ w.at = "forked" /\ (Own(w).r0 \in Closes(w) \/ Own(w).s1 \in Closes(w)) =>
       StaleNumber(w)

OwnInv == \A i \in DOMAIN ws : Live(ws[i]) => OwnEndsInv(ws[i])

(* The ends of another living worker's pipes too. *)
Apart(w, v) ==
  \A f \in Fds : IsEnd(w.tab[f]) /\ w.tab[f][2] \in PipesOf(v) =>
    w.at = "forked" /\ f \in Closes(w)

ApartInv ==
  \A i, j \in DOMAIN ws :
    i # j /\ Live(ws[i]) /\ Live(ws[j]) => Apart(ws[i], ws[j])

DeadInv == \A i \in DOMAIN ws : ws[i].at = "dead" => ws[i].tab = NoTable

(* No worker of entry e was forked after worker j. *)
IsLast(j, e) ==
  ws[j].entry = e /\ \A k \in DOMAIN ws : ws[k].entry = e => k <= j

(* The pipe on which the parent waits for the hang-up of an entry can be   *)
(* written by the latest worker of that entry, and by nobody else.         *)
LastWritesTo(tab, e, g) ==
  /\ ~Holds(tab, <<"w", tab[g][2]>>)
  /\ \A j \in DOMAIN ws :
       /\ Holds(ws[j].tab, <<"w", tab[g][2]>>) => IsLast(j, e)
       /\ Live(ws[j]) /\ IsLast(j, e) =>
            \/ ws[j].tab[Own(ws[j]).s1] = <<"w", tab[g][2]>>
            \/ ws[j].at = "run" /\ StaleNumber(ws[j])

LastWrites(tab, knd, S) ==
  \A e \in S : knd[hs[e].s0] = <<"pipe", e>> => LastWritesTo(tab, e, hs[e].s0)

ParentOk(tab, knd, S) ==
  /\ tab \in [Fds -> Things(pipes)] /\ knd \in [Fds -> Kinds]
  /\ KindsAgree(tab, knd, S) /\ EndsKept(tab, knd, S)
  /\ EndsNamed(tab, S) /\ LastWrites(tab, knd, S)

ParentInv ==
  IF up THEN ParentOk(ptab, kind, 1 .. booted)
  ELSE ptab = NoTable /\ kind = NoTable /\ ended = {} /\ batch = {}

WorkersInv == OwnInv /\ ApartInv /\ DeadInv

(* A hang-up in the batch is of a pipe that nobody will write again. *)
BatchInv ==
  /\ \A x \in ended : x[1] \in Fds /\ Has(ptab, x[1], "client")
  /\ \A ev \in batch :
       /\ ev[1] \in Fds
       /\ ev[3] # Free /\ ev[3][1] = "r" => ev[3][2] \in 1 .. pipes /\ ~HasWriter(ev[3][2])

IInv == TypeInv /\ ParentInv /\ WorkersInv /\ BatchInv
-----------------------------------------------------------------------------
LEMMA MinIsLeast ==
  ASSUME NEW S \in SUBSET Nat, S # {}
  PROVE  Min(S) \in S /\ \A y \in S : Min(S) <= y
<1>1. PICK x \in S : \A y \in S : ~(<<y, x>> \in OpToRel(<, Nat))
  BY NatLessThanWellFounded, WFMin
<1>2. \A y \in S : ~(y < x)
  BY <1>1, Zenon DEF OpToRel
<1>3. \A y \in S : x <= y
  BY <1>2
<1> QED
  BY <1>3 DEF Min

(* The largest of a set of positions. *)
LEMMA MaxIsGreatest ==
  ASSUME NEW m \in Nat, NEW S \in SUBSET (1 .. m), S # {}
  PROVE  Max(S) \in S /\ \A y \in S : y <= Max(S)
<1> DEFINE U == {u \in Nat : \A y \in S : y <= u}
<1>1. U \in SUBSET Nat /\ m \in U
  OBVIOUS
<1>2. PICK u \in U : \A v \in U : u <= v
  <2> HIDE DEF U
  <2> QED
    BY <1>1, MinIsLeast
<1>3. u \in S
  <2> SUFFICES ASSUME u \notin S PROVE FALSE
    OBVIOUS
  <2>1. \A y \in S : y <= u - 1
    BY <1>2
  <2>2. u - 1 \in Nat
    <3>1. PICK y \in S : TRUE
      OBVIOUS
    <3> QED
      BY <2>1, <3>1
  <2>3. u - 1 \in U
    BY <2>1, <2>2
  <2> QED
    BY <1>2, <2>3
<1> QED
  BY <1>2, <1>3 DEF Max

(* The kernel gives out a number that is free, and takes it. *)
LEMMA LowestIsFree ==
  ASSUME NEW S, NEW tab \in [Fds -> S], NEW m \in Nat, Room(tab, m + 1),
         NEW x, x # Free
  PROVE  /\ Lowest(tab) \in Fds /\ tab[Lowest(tab)] = Free
         /\ Room([tab EXCEPT ![Lowest(tab)] = x], m)
<1> DEFINE F == {f \in Fds : tab[f] = Free}
           n == Lowest(tab)
<1>1. IsFiniteSet(F)
  <2>1. IsFiniteSet(Fds)
    BY FS_Interval, HandlesAssumption DEF Fds
  <2> QED
    BY <2>1, FS_Subset
<1>2. Cardinality(F) >= m + 1
  BY DEF Room
<1>3. F # {}
  BY <1>2, FS_EmptySet
<1>4. F \in SUBSET Nat
  BY HandlesAssumption DEF Fds
<1>5. n \in F
  <2>1. n = Min(F)
    BY DEF Lowest
  <2> HIDE DEF F, n
  <2> QED
    BY <1>3, <1>4, <2>1, MinIsLeast
<1>6. {f \in Fds : [tab EXCEPT ![n] = x][f] = Free} = F \ {n}
  BY <1>5
<1>7. Cardinality(F \ {n}) = Cardinality(F) - 1
  BY <1>1, <1>5, FS_RemoveElement
<1>8. Cardinality(F \ {n}) >= m
  <2>1. Cardinality(F) \in Nat
    BY <1>1, FS_CardinalityType
  <2> QED
    BY <1>2, <1>7, <2>1
<1> QED
  BY <1>5, <1>6, <1>8, Zenon DEF Room

(* A pipe takes two free numbers, r and w. *)
Takes(tab, S, p, m, t, r, w) ==
  /\ r \in Fds /\ w \in Fds /\ t \in [Fds -> S \cup {<<"r", p>>, <<"w", p>>}]
  /\ PipeCreate(tab, p) = [tab |-> t, r |-> r, w |-> w]
  /\ r # w /\ tab[r] = Free /\ tab[w] = Free
  /\ t[r] = <<"r", p>> /\ t[w] = <<"w", p>>
  /\ \A f \in Fds \ {r, w} : t[f] = tab[f]
  /\ Room(t, m)

(* pipe_create, when the descriptors do not run out. *)
LEMMA PipeCreateTakes ==
  ASSUME NEW S, NEW tab \in [Fds -> S], NEW m \in Nat, Room(tab, m + 2), NEW p
  PROVE  \E r, w, t : Takes(tab, S, p, m, t, r, w)
<1> DEFINE r == Lowest(tab)
           t == [tab EXCEPT ![r] = <<"r", p>>]
           w == Lowest(t)
           u == [t EXCEPT ![w] = <<"w", p>>]
<1>0. <<"r", p>> # Free /\ <<"w", p>> # Free
  BY DEF Free
<1>1. r \in Fds /\ tab[r] = Free /\ Room(t, m + 1)
  <2>1. Room(tab, (m + 1) + 1) /\ m + 1 \in Nat
    OBVIOUS
  <2> QED
    BY <1>0, <2>1, LowestIsFree
<1>2. t \in [Fds -> S \cup {<<"r", p>>}]
  BY <1>1
<1>3. w \in Fds /\ t[w] = Free /\ Room(u, m)
  <2> HIDE DEF r, t
  <2> QED
    BY <1>0, <1>1, <1>2, LowestIsFree
<1>4. r # w /\ tab[w] = Free
  BY <1>0, <1>1, <1>3
<1>5. PipeCreate(tab, p) = [tab |-> [tab EXCEPT ![r] = <<"r", p>>, ![w] = <<"w", p>>],
                            r |-> r, w |-> w]
  BY DEF PipeCreate
<1>6. [tab EXCEPT ![r] = <<"r", p>>, ![w] = <<"w", p>>] = u
  OBVIOUS
<1>7. u \in [Fds -> S \cup {<<"r", p>>, <<"w", p>>}]
  BY <1>1, <1>3
<1>8. /\ u[r] = <<"r", p>> /\ u[w] = <<"w", p>>
      /\ \A f \in Fds \ {r, w} : u[f] = tab[f]
  BY <1>1, <1>3, <1>4
<1> HIDE DEF r, t, w, u
<1> QED
  BY <1>1, <1>3, <1>4, <1>5, <1>6, <1>7, <1>8 DEF Takes

(* h names two new pipes, and t is tab with their four ends. *)
Made(tab, h, t) ==
  /\ h \in Handles(Fds) /\ t \in [Fds -> Things(pipes + 2)]
  /\ h.s0 # h.s1 /\ h.s0 # h.r0 /\ h.s0 # h.r1
  /\ h.s1 # h.r0 /\ h.s1 # h.r1 /\ h.r0 # h.r1
  /\ \A f \in {h.s0, h.s1, h.r0, h.r1} : tab[f] = Free
  /\ \A f \in Fds \ {h.s0, h.s1, h.r0, h.r1} : t[f] = tab[f]
  /\ t[h.s0] = <<"r", pipes + 1>> /\ t[h.s1] = <<"w", pipes + 1>>
  /\ t[h.r0] = <<"r", pipes + 2>> /\ t[h.r1] = <<"w", pipes + 2>>

(* shmq_create, in either order of evaluation. *)
LEMMA ShmqCreateMakes ==
  ASSUME pipes \in Nat, NEW tab \in [Fds -> Things(pipes)], Room(tab, 4),
         NEW o \in BOOLEAN
  PROVE  \E h, t : /\ ShmqCreate(tab, o) = [tab |-> t, h |-> h]
                   /\ Made(tab, h, t)
<1> PICK p, q : /\ p = IF o THEN pipes + 1 ELSE pipes + 2
                /\ q = IF o THEN pipes + 2 ELSE pipes + 1
  OBVIOUS
<1> DEFINE A == {<<"r", p>>, <<"w", p>>}
           B == {<<"r", q>>, <<"w", q>>}
<1>1. PICK r, w, t : Takes(tab, Things(pipes), p, 2, t, r, w)
  <2>1. Room(tab, 2 + 2) /\ 2 \in Nat
    OBVIOUS
  <2> QED
    BY <2>1, PipeCreateTakes, Zenon
<1>2. PICK x, y, u : Takes(t, Things(pipes) \cup A, q, 0, u, x, y)
  <2>1. Room(t, 0 + 2) /\ 0 \in Nat /\ t \in [Fds -> Things(pipes) \cup A]
    BY <1>1 DEF Takes
  <2> QED
    BY <2>1, PipeCreateTakes, Zenon
<1> USE DEF Takes
<1>3. <<"r", p>> # Free /\ <<"w", p>> # Free
  BY DEF Free
<1>4. x \notin {r, w} /\ y \notin {r, w} /\ tab[x] = Free /\ tab[y] = Free
  BY <1>1, <1>2, <1>3
<1>5. /\ u[r] = <<"r", p>> /\ u[w] = <<"w", p>>
      /\ \A f \in Fds \ {r, w, x, y} : u[f] = tab[f]
  BY <1>1, <1>2, <1>4
<1>6. u \in [Fds -> Things(pipes + 2)]
  <2>1. A \subseteq Things(pipes + 2) /\ B \subseteq Things(pipes + 2)
        /\ Things(pipes) \subseteq Things(pipes + 2)
    BY DEF Things
  <2> QED
    BY <1>2, <2>1
<1>7. CASE o
  <2> PICK h : h = [s0 |-> r, s1 |-> w, r0 |-> x, r1 |-> y]
    OBVIOUS
  <2>1. ShmqCreate(tab, o) = [tab |-> u, h |-> h]
    BY <1>1, <1>2, <1>7 DEF ShmqCreate
  <2>2. h.s0 = r /\ h.s1 = w /\ h.r0 = x /\ h.r1 = y /\ h \in Handles(Fds)
    BY <1>1, <1>2 DEF Handles
  <2>3. Made(tab, h, u)
    BY <1>1, <1>2, <1>4, <1>5, <1>6, <1>7, <2>2 DEF Made
  <2> QED
    BY <2>1, <2>3
<1>8. CASE ~o
  <2> PICK h : h = [s0 |-> x, s1 |-> y, r0 |-> r, r1 |-> w]
    OBVIOUS
  <2>1. ShmqCreate(tab, o) = [tab |-> u, h |-> h]
    BY <1>1, <1>2, <1>8 DEF ShmqCreate
  <2>2. h.s0 = x /\ h.s1 = y /\ h.r0 = r /\ h.r1 = w /\ h \in Handles(Fds)
    BY <1>1, <1>2 DEF Handles
  <2>3. Made(tab, h, u)
    BY <1>1, <1>2, <1>4, <1>5, <1>6, <1>8, <2>2 DEF Made
  <2> QED
    BY <2>1, <2>3
<1> QED
  BY <1>7, <1>8
-----------------------------------------------------------------------------
(* Before a fork for entry e: the other entries up to n are in order in    *)
(* the table tab, and t is tab with the new pipes of h.                    *)
Prepared(e, n, tab, knd, h, t) ==
  /\ n \in 1 .. Entries /\ e \in 1 .. n
  /\ ParentOk(tab, knd, (1 .. n) \ {e})
  /\ Made(tab, h, t)

(* What changes with the new pipes of entry e. *)
Renewed(e, n, h) ==
  /\ booted' = n /\ pipes' = pipes + 2 /\ hs' = [hs EXCEPT ![e] = h]
  /\ up /\ up' = up /\ clients' = clients
  /\ restarts' \in [1 .. Entries -> Nat]
  /\ \A k \in (1 .. Entries) \ {e} : restarts'[k] = restarts[k]
  /\ restarts'[e] <= MaxRestarts /\ restarts'[e] >= restarts[e]
  /\ \A k \in 1 .. Entries : k > n => restarts'[k] = 0

NewWorker(e, n, knd, h, t) ==
  [entry |-> e, at |-> "forked", tab |-> t, hs |-> [hs EXCEPT ![e] = h],
   knd |-> knd, inited |-> n]

(* Entries only use up their restarts. *)
LEMMA StaleStays ==
  ASSUME restarts \in [1 .. Entries -> Nat], restarts' \in [1 .. Entries -> Nat],
         \A k \in 1 .. Entries : restarts'[k] >= restarts[k],
         NEW w, w.inited \in 1 .. Entries, StaleNumber(w)
  PROVE  StaleNumber(w)'
<1>1. PICK i \in (1 .. w.inited) \ {w.entry} :
        restarts[i] > MaxRestarts /\ w.hs[i].s0 \in {Own(w).r0, Own(w).s1}
  BY DEF StaleNumber
<1>2. restarts'[i] > MaxRestarts
  BY <1>1, HandlesAssumption
<1> QED
  BY <1>1, <1>2 DEF StaleNumber, Own

(* The worker to be forked. *)
Fresh(w, e, n, knd, h, t) ==
  /\ w \in Workers(pipes + 2) /\ Live(w) /\ Own(w) = h
  /\ w.entry = e /\ w.at = "forked" /\ w.tab = t /\ w.knd = knd
  /\ w.inited = n /\ w.hs[e] = h /\ (\A k \in (1 .. Entries) \ {e} : w.hs[k] = hs[k])
  /\ PipeOf(w) = pipes + 2 /\ PipesOf(w) = {pipes + 2, pipes + 1}

LEMMA NewWorkerFields ==
  ASSUME TypeInv, NEW e, NEW n, NEW tab, NEW knd, NEW h, NEW t,
         Prepared(e, n, tab, knd, h, t),
         NEW w, w = NewWorker(e, n, knd, h, t)
  PROVE  Fresh(w, e, n, knd, h, t)
<1>1. /\ w.entry = e /\ w.at = "forked" /\ w.tab = t /\ w.knd = knd
      /\ w.inited = n /\ w.hs = [hs EXCEPT ![e] = h]
  BY DEF NewWorker
<1>2. /\ n \in 1 .. Entries /\ e \in 1 .. Entries /\ h \in Handles(Fds)
      /\ knd \in [Fds -> Kinds] /\ t \in [Fds -> Things(pipes + 2)]
      /\ hs \in [1 .. Entries -> Handles(Fds \cup {-1})]
      /\ t[h.r0] = <<"r", pipes + 2>> /\ pipes \in Nat
  <2>1. n \in 1 .. Entries /\ e \in 1 .. n
    BY DEF Prepared
  <2>2. e \in 1 .. Entries
    BY <2>1, HandlesAssumption
  <2> QED
    BY <2>1, <2>2, Zenon DEF Prepared, ParentOk, Made, TypeInv
<1>3. w.hs[e] = h /\ \A k \in (1 .. Entries) \ {e} : w.hs[k] = hs[k]
  BY <1>1, <1>2
<1>4. h \in Handles(Fds \cup {-1})
  BY <1>2 DEF Handles
<1>5. [hs EXCEPT ![e] = h] \in [1 .. Entries -> Handles(Fds \cup {-1})]
  BY <1>2, <1>4
<1>6. w \in Workers(pipes + 2)
  BY <1>2, <1>5 DEF NewWorker, Workers
<1>7. Own(w) = h
  BY <1>1, <1>3 DEF Own
<1>8. PipeOf(w) = pipes + 2 /\ PipesOf(w) = {pipes + 2, pipes + 1}
  BY <1>1, <1>2, <1>7 DEF PipeOf, PipesOf
<1> QED
  BY <1>1, <1>3, <1>6, <1>7, <1>8 DEF Live, Fresh

(* A worker closes the ends that pipe_handles names, and only a stale      *)
(* number is one of its own.                                               *)
LEMMA NewWorkerOwns ==
  ASSUME TypeInv, NEW e, NEW n, NEW tab, NEW knd, NEW h, NEW t,
         Prepared(e, n, tab, knd, h, t), Renewed(e, n, h),
         NEW w, w = NewWorker(e, n, knd, h, t)
  PROVE  OwnEndsInv(w)'
<1>1. /\ Own(w) = h /\ w.entry = e /\ w.at = "forked" /\ w.tab = t /\ w.knd = knd
      /\ w.inited = n /\ w.hs[e] = h /\ PipeOf(w) = pipes + 2
      /\ \A k \in (1 .. Entries) \ {e} : w.hs[k] = hs[k]
  <2>1. Fresh(w, e, n, knd, h, t)
    BY NewWorkerFields, Zenon
  <2> QED
    BY <2>1 DEF Fresh
<1>2. /\ n \in 1 .. Entries /\ e \in 1 .. n /\ pipes \in Nat /\ pipes' = pipes + 2
      /\ h \in Handles(Fds)
  BY DEF Prepared, Made, TypeInv, Renewed
<1>3. {h.r1, h.s0} \subseteq Closes(w)
  BY <1>1, <1>2 DEF Closes, ChildCloses
<1>4. ASSUME NEW f \in Fds, t[f] \in {<<"w", pipes + 2>>, <<"r", pipes + 1>>}
      PROVE  f \in {h.r1, h.s0}
  <2>1. f \notin {h.s0, h.s1, h.r0, h.r1} => t[f] \in Things(pipes)
    BY DEF Prepared, ParentOk, Made
  <2>2. <<"w", pipes + 2>> \notin Things(pipes) /\ <<"r", pipes + 1>> \notin Things(pipes)
    BY <1>2 DEF Things, Free
  <2> QED
    BY <1>2, <1>4, <2>1, <2>2 DEF Prepared, Made
<1>5. ASSUME NEW g \in {h.r0, h.s1}, g \in Closes(w) PROVE StaleNumber(w)'
  <2>1. g \in Fds /\ tab[g] = Free /\ g \notin {h.r1, h.s0}
    BY DEF Prepared, Made, Handles
  <2>2. knd[g] = <<>>
    BY <2>1 DEF Prepared, ParentOk, KindsAgree, Has
  <2>3. PICK i \in 1 .. n : g \in {w.hs[i].r1, w.hs[i].s0}
    BY <1>1, <1>5, <2>2 DEF Closes, ChildCloses
  <2>4. i # e /\ i \in 1 .. Entries /\ w.hs[i] = hs[i]
    <3>1. i # e
      BY <1>1, <2>1, <2>3
    <3>2. i \in 1 .. Entries
      BY <1>2, HandlesAssumption
    <3> QED
      BY <1>1, <3>1, <3>2
  <2>5. /\ Has(tab, hs[i].r1, "w")
        /\ restarts[i] <= MaxRestarts => Has(tab, hs[i].s0, "r")
    BY <2>4 DEF Prepared, ParentOk, EndsKept
  <2>6. g = hs[i].s0 /\ ~(restarts[i] <= MaxRestarts)
    BY <2>1, <2>3, <2>4, <2>5 DEF Has
  <2>7. restarts'[i] > MaxRestarts
    BY <2>4, <2>6, HandlesAssumption DEF TypeInv, Renewed
  <2> QED
    BY <1>1, <2>4, <2>6, <2>7 DEF StaleNumber, Own
<1>6. /\ t[h.r0] = <<"r", pipes + 2>> /\ t[h.s1] = <<"w", pipes + 1>>
  BY DEF Prepared, Made
<1>7. OwnEndsInv(w)' <=>
      /\ w.hs[w.entry] \in Handles(Fds) /\ w.entry <= w.inited
      /\ w.tab[Own(w).r0] = <<"r", PipeOf(w)>> /\ PipeOf(w) \in 2 .. pipes'
      /\ \/ w.tab[Own(w).s1] = <<"w", PipeOf(w) - 1>>
         \/ w.at = "run" /\ StaleNumber(w)'
      /\ \A f \in Fds : w.tab[f] \in {<<"w", PipeOf(w)>>, <<"r", PipeOf(w) - 1>>} =>
           w.at = "forked" /\ f \in Closes(w)
      /\ w.at = "forked" /\ (Own(w).r0 \in Closes(w) \/ Own(w).s1 \in Closes(w)) =>
           StaleNumber(w)'
  BY DEF OwnEndsInv, Own, PipeOf, Closes, ChildCloses
<1> QED
  BY <1>1, <1>2, <1>3, <1>4, <1>5, <1>6, <1>7

(* Pipes are numbered on, and entries only use up their restarts. *)
Ages ==
  /\ pipes \in Nat /\ pipes' \in Nat /\ pipes <= pipes'
  /\ restarts \in [1 .. Entries -> Nat] /\ restarts' \in [1 .. Entries -> Nat]
  /\ \A k \in 1 .. Entries : restarts'[k] >= restarts[k]

LEMMA RenewedAges ==
  ASSUME TypeInv, NEW e, NEW n, NEW h, Renewed(e, n, h)
  PROVE  Ages
<1>1. \A k \in 1 .. Entries : restarts'[k] >= restarts[k]
  BY DEF TypeInv, Renewed
<1> QED
  BY <1>1 DEF TypeInv, Renewed, Ages

LEMMA OwnStays ==
  ASSUME Ages, NEW w, w.inited \in 1 .. Entries, OwnEndsInv(w)
  PROVE  OwnEndsInv(w)'
<1>1. StaleNumber(w) => StaleNumber(w)'
  BY StaleStays DEF Ages
<1>2. PipeOf(w) \in 2 .. pipes'
  BY DEF OwnEndsInv, Ages
<1> QED
  BY <1>1, <1>2 DEF OwnEndsInv, Own, PipeOf, Closes, ChildCloses

(* w has joined the workers. *)
Joined(w) ==
  /\ Len(ws) \in Nat /\ DOMAIN ws = 1 .. Len(ws)
  /\ Len(ws') = Len(ws) + 1 /\ DOMAIN ws' = 1 .. Len(ws) + 1
  /\ \A i \in DOMAIN ws : ws'[i] = ws[i] /\ ws[i] \in Workers(pipes)
  /\ ws'[Len(ws) + 1] = w

LEMMA AppendJoins ==
  ASSUME TypeInv, NEW w \in Workers(pipes + 2), ws' = Append(ws, w)
  PROVE  Joined(w) /\ ws' \in Seq(Workers(pipes + 2))
<1>1. ws \in Seq(Workers(pipes)) /\ pipes \in Nat
  BY DEF TypeInv
<1>2. Things(pipes) \subseteq Things(pipes + 2)
  BY <1>1 DEF Things
<1>3. Workers(pipes) \subseteq Workers(pipes + 2)
  BY <1>2 DEF Workers
<1>4. ws \in Seq(Workers(pipes + 2))
  BY <1>1, <1>3
<1> QED
  BY <1>1, <1>4 DEF Joined

(* The ends that a living worker has are of pipes made before. *)
LEMMA NumbersOf ==
  ASSUME TypeInv, NEW w \in Workers(pipes), NEW f \in Fds, IsEnd(w.tab[f])
  PROVE  w.tab[f][2] \in 1 .. pipes
<1>1. w.tab[f] \in Things(pipes)
  BY DEF Workers
<1> QED
  BY <1>1 DEF IsEnd, Things

(* A new worker and those that live keep apart. *)
LEMMA NewWorkerApart ==
  ASSUME TypeInv, NEW e, NEW n, NEW tab, NEW knd, NEW h, NEW t,
         Prepared(e, n, tab, knd, h, t),
         NEW w, Fresh(w, e, n, knd, h, t),
         NEW j \in DOMAIN ws, Live(ws[j]), OwnEndsInv(ws[j])
  PROVE  Apart(w, ws[j]) /\ Apart(ws[j], w)
<1>1. pipes \in Nat /\ PipeOf(ws[j]) \in 2 .. pipes /\ ws[j] \in Workers(pipes)
  BY DEF TypeInv, OwnEndsInv
<1>2. Apart(ws[j], w)
  BY <1>1, NumbersOf DEF Apart, Fresh
<1>3. ASSUME NEW f \in Fds, IsEnd(t[f]), t[f][2] \in PipesOf(ws[j])
      PROVE  f \in Closes(w)
  <2>1. t[f][2] \in 1 .. pipes
    BY <1>1, <1>3 DEF PipesOf
  <2>2. t[f] = tab[f]
    <3>1. f \notin {h.s0, h.s1, h.r0, h.r1}
      BY <1>1, <2>1 DEF Prepared, Made
    <3> QED
      BY <3>1 DEF Prepared, Made
  <2>3. PICK k \in (1 .. n) \ {e} : f \in {hs[k].r1, hs[k].s0}
    BY <1>3, <2>2 DEF Prepared, ParentOk, EndsNamed
  <2>4. k \in (1 .. Entries) \ {e}
    BY <2>3, HandlesAssumption DEF Prepared
  <2>5. w.hs[k] = hs[k] /\ w.inited = n
    BY <2>4 DEF Fresh
  <2> QED
    BY <2>3, <2>5 DEF Closes, ChildCloses
<1> QED
  BY <1>2, <1>3 DEF Apart, Fresh

(* What holds of the living workers holds with the new one. *)
LEMMA ForkKeepsWorkers ==
  ASSUME TypeInv, WorkersInv, NEW e, NEW n, NEW tab, NEW knd, NEW h, NEW t,
         Prepared(e, n, tab, knd, h, t), Renewed(e, n, h),
         NEW w, w = NewWorker(e, n, knd, h, t), ws' = Append(ws, w)
  PROVE  WorkersInv'
<1>1. Fresh(w, e, n, knd, h, t)
  BY NewWorkerFields, Zenon
<1>2. Joined(w)
  <2>1. w \in Workers(pipes + 2)
    BY <1>1 DEF Fresh
  <2> QED
    BY <2>1, AppendJoins
<1>3. OwnEndsInv(w)'
  BY NewWorkerOwns, Zenon
<1>4. Ages
  BY RenewedAges, Zenon
<1>5. ASSUME NEW i \in DOMAIN ws, Live(ws[i])
      PROVE  OwnEndsInv(ws[i]) /\ OwnEndsInv(ws[i])'
  <2>1. OwnEndsInv(ws[i])
    BY <1>5 DEF WorkersInv, OwnInv
  <2>2. PICK v : v = ws[i] /\ v = ws'[i] /\ v.inited \in 1 .. Entries
    BY <1>2 DEF Joined, Workers
  <2>3. OwnEndsInv(v)'
    BY <1>4, <2>1, <2>2, OwnStays
  <2> QED
    BY <2>1, <2>2, <2>3
<1>6. OwnInv'
  <2> SUFFICES ASSUME NEW i \in DOMAIN ws', Live(ws[i])' PROVE OwnEndsInv(ws[i])'
    BY DEF OwnInv
  <2>1. CASE i \in DOMAIN ws
    BY <1>2, <1>5, <2>1 DEF Joined, Live
  <2>2. CASE i \notin DOMAIN ws
    BY <1>2, <1>3, <2>2 DEF Joined
  <2> QED
    BY <2>1, <2>2
<1>7. DeadInv'
  BY <1>1, <1>2 DEF WorkersInv, DeadInv, Joined, Live, Fresh
<1>8. ASSUME NEW i \in DOMAIN ws', NEW j \in DOMAIN ws', i # j,
             Live(ws'[i]), Live(ws'[j])
      PROVE  Apart(ws'[i], ws'[j])
  <2>1. CASE i \in DOMAIN ws /\ j \in DOMAIN ws
    BY <1>2, <1>8, <2>1 DEF WorkersInv, ApartInv, Joined
  <2>2. CASE i \in DOMAIN ws /\ j \notin DOMAIN ws
    BY <1>1, <1>2, <1>5, <1>8, <2>2, NewWorkerApart DEF Joined
  <2>3. CASE i \notin DOMAIN ws
    BY <1>1, <1>2, <1>5, <1>8, <2>3, NewWorkerApart DEF Joined
  <2> QED
    BY <2>1, <2>2, <2>3
<1>9. ApartInv'
  <2> SUFFICES ASSUME NEW i \in DOMAIN ws', NEW j \in DOMAIN ws', i # j,
                      Live(ws[i])', Live(ws[j])'
               PROVE  Apart(ws[i], ws[j])'
    BY DEF ApartInv
  <2>1. Apart(ws'[i], ws'[j])
    BY <1>8 DEF Live
  <2> QED
    BY <2>1 DEF Apart, IsEnd, PipesOf, PipeOf, Own, Closes, ChildCloses
<1> QED
  BY <1>6, <1>7, <1>9 DEF WorkersInv

(* The parent after fork, or after a fork that failed: T and K are its     *)
(* tables.                                                                 *)
Settled(e, tab, knd, h, T, K) ==
  /\ T \in [Fds -> Things(pipes + 2)] /\ K \in [Fds -> Kinds]
  /\ \A f \in Fds \ {h.s0, h.s1, h.r0, h.r1} : T[f] = tab[f]
  /\ T[h.s0] = <<"r", pipes + 1>> /\ T[h.r1] = <<"w", pipes + 2>>
  /\ \A f \in Fds \ {h.s0} : K[f] = knd[f]
  /\ K[h.s0] \in {<<>>, <<"pipe", e>>}

(* Descriptors in use are not given out. *)
LEMMA InUse ==
  ASSUME NEW e, NEW n, NEW tab, NEW knd, NEW h, NEW t, Prepared(e, n, tab, knd, h, t),
         NEW T, NEW K, Settled(e, tab, knd, h, T, K), NEW f \in Fds
  PROVE  /\ tab[f] # Free => f \notin {h.s0, h.s1, h.r0, h.r1} /\ T[f] = tab[f]
         /\ tab[f] # Free => K[f] = knd[f]
         /\ knd[f] # <<>> => tab[f] # Free
         /\ f \in {h.s0, h.s1, h.r0, h.r1} => knd[f] = <<>>
<1>1. knd[f] # <<>> => tab[f] # Free
  BY DEF Prepared, ParentOk, KindsAgree, Has
<1>2. tab[f] # Free => f \notin {h.s0, h.s1, h.r0, h.r1}
  BY DEF Prepared, Made
<1> QED
  BY <1>1, <1>2 DEF Settled

LEMMA SettledKinds ==
  ASSUME TypeInv, NEW e, NEW n, NEW tab, NEW knd, NEW h, NEW t,
         Prepared(e, n, tab, knd, h, t), Renewed(e, n, h),
         NEW T, NEW K, Settled(e, tab, knd, h, T, K)
  PROVE  KindsAgree(T, K, 1 .. n)'
<1> DEFINE S == (1 .. n) \ {e}
<1>1. e \in 1 .. n /\ e \in 1 .. Entries /\ n \in 1 .. Entries /\ h \in Handles(Fds)
  BY HandlesAssumption DEF Prepared, Made
<1>2. hs' = [hs EXCEPT ![e] = h] /\ hs'[e] = h /\ \A k \in S : hs'[k] = hs[k]
  BY <1>1, HandlesAssumption DEF TypeInv, Renewed
<1> SUFFICES ASSUME NEW f \in Fds, K[f] # <<>>
             PROVE  \/ /\ K[f][1] = "pipe" /\ Has(T, f, "r")
                       /\ K[f][2] \in 1 .. n /\ f = hs'[K[f][2]].s0
                    \/ K[f][1] = "remote" /\ Has(T, f, "client")
                    \/ K[f][1] = "listen" /\ Has(T, f, "listen")
  BY DEF KindsAgree, Has, Free
<1>3. CASE f = h.s0
  BY <1>1, <1>2, <1>3 DEF Settled, Has, Free
<1>4. CASE f # h.s0
  <2>1. K[f] = knd[f]
    BY <1>4 DEF Settled
  <2>2. T[f] = tab[f]
    BY <2>1, InUse
  <2>3. \/ /\ knd[f][1] = "pipe" /\ Has(tab, f, "r")
           /\ knd[f][2] \in S /\ f = hs[knd[f][2]].s0
        \/ knd[f][1] = "remote" /\ Has(tab, f, "client")
        \/ knd[f][1] = "listen" /\ Has(tab, f, "listen")
    BY <2>1 DEF Prepared, ParentOk, KindsAgree
  <2> QED
    BY <1>2, <2>1, <2>2, <2>3 DEF Has
<1> QED
  BY <1>3, <1>4

LEMMA SettledEnds ==
  ASSUME TypeInv, NEW e, NEW n, NEW tab, NEW knd, NEW h, NEW t,
         Prepared(e, n, tab, knd, h, t), Renewed(e, n, h),
         NEW T, NEW K, Settled(e, tab, knd, h, T, K)
  PROVE  EndsKept(T, K, 1 .. n)'
<1> DEFINE S == (1 .. n) \ {e}
<1>1. e \in 1 .. n /\ e \in 1 .. Entries /\ n \in 1 .. Entries /\ h \in Handles(Fds)
  BY HandlesAssumption DEF Prepared, Made
<1>2. hs'[e] = h /\ \A k \in S : hs'[k] = hs[k] /\ restarts'[k] = restarts[k]
  BY <1>1, HandlesAssumption DEF TypeInv, Renewed
<1>3. \A k \in S :
        /\ hs[k] \in Handles(Fds) /\ Has(tab, hs[k].r1, "w")
        /\ \A l \in S : l # k => hs[l].r1 # hs[k].r1
        /\ restarts[k] <= MaxRestarts =>
             Has(tab, hs[k].s0, "r") /\ knd[hs[k].s0] \in {<<>>, <<"pipe", k>>}
        /\ restarts[k] > MaxRestarts => \A f \in Fds : knd[f] # <<"pipe", k>>
  BY DEF Prepared, ParentOk, EndsKept
<1>4. \A k \in S : hs[k].r1 \in Fds /\ hs[k].s0 \in Fds
  BY <1>3 DEF Handles
<1>5. \A k \in S : Has(T, hs[k].r1, "w") /\ hs[k].r1 # h.r1
  BY <1>3, <1>4, InUse DEF Has
<1>6. ASSUME NEW k \in S
      PROVE  /\ restarts'[k] <= MaxRestarts =>
                  Has(T, hs[k].s0, "r") /\ K[hs[k].s0] \in {<<>>, <<"pipe", k>>}
             /\ restarts'[k] > MaxRestarts => \A f \in Fds : K[f] # <<"pipe", k>>
  <2>1. CASE restarts[k] <= MaxRestarts
    <3>1. Has(tab, hs[k].s0, "r") /\ knd[hs[k].s0] \in {<<>>, <<"pipe", k>>}
      BY <1>3, <2>1
    <3>2. tab[hs[k].s0] # Free
      BY <3>1 DEF Has
    <3>3. T[hs[k].s0] = tab[hs[k].s0] /\ K[hs[k].s0] = knd[hs[k].s0]
      BY <1>4, <3>2, InUse
    <3>4. ~(restarts'[k] > MaxRestarts)
      <4>1. k \in 1 .. Entries
        BY <1>1, HandlesAssumption
      <4>2. restarts[k] \in Nat /\ restarts'[k] = restarts[k]
        BY <1>2, <4>1 DEF TypeInv
      <4> QED
        BY <2>1, <4>2, HandlesAssumption
    <3> QED
      BY <3>1, <3>3, <3>4 DEF Has
  <2>2. CASE ~(restarts[k] <= MaxRestarts)
    <3>1. ASSUME NEW f \in Fds PROVE K[f] # <<"pipe", k>>
      <4>1. restarts[k] > MaxRestarts
        BY <1>1, <2>2, HandlesAssumption DEF TypeInv
      <4>2. knd[f] # <<"pipe", k>>
        BY <1>3, <4>1
      <4>3. f # h.s0 => K[f] = knd[f]
        BY DEF Settled
      <4>4. K[h.s0] # <<"pipe", k>>
        BY DEF Settled
      <4> QED
        BY <4>2, <4>3, <4>4
    <3> QED
      BY <1>2, <2>2, <3>1
  <2> QED
    BY <2>1, <2>2
<1>7. /\ Has(T, h.r1, "w") /\ Has(T, h.s0, "r") /\ K[h.s0] \in {<<>>, <<"pipe", e>>}
      /\ restarts'[e] <= MaxRestarts /\ ~(restarts'[e] > MaxRestarts)
  BY <1>1, HandlesAssumption DEF Settled, Has, Free, Renewed
<1>8. ASSUME NEW k \in 1 .. n
      PROVE  /\ hs'[k] \in Handles(Fds) /\ Has(T, hs'[k].r1, "w")
             /\ \A l \in 1 .. n : l # k => hs'[l].r1 # hs'[k].r1
             /\ restarts'[k] <= MaxRestarts =>
                  Has(T, hs'[k].s0, "r") /\ K[hs'[k].s0] \in {<<>>, <<"pipe", k>>}
             /\ restarts'[k] > MaxRestarts => \A f \in Fds : K[f] # <<"pipe", k>>
  <2>1. CASE k = e
    <3>1. \A l \in 1 .. n : l # k => hs'[l].r1 # hs'[k].r1
      BY <1>2, <1>5, <2>1
    <3> QED
      BY <1>1, <1>2, <1>7, <2>1, <3>1
  <2>2. CASE k # e
    <3>1. \A l \in 1 .. n : l # k => hs'[l].r1 # hs'[k].r1
      BY <1>2, <1>3, <1>5, <2>2
    <3> QED
      BY <1>2, <1>3, <1>5, <1>6, <2>2, <3>1
  <2> QED
    BY <2>1, <2>2
<1> QED
  BY <1>8 DEF EndsKept, Has, Free, Handles, Fds

(* With the new worker w. *)
WithWorker(e, n, knd, h, t, T, K, w) ==
  /\ Fresh(w, e, n, knd, h, t) /\ Joined(w)
  /\ T[h.r0] = Free /\ T[h.s1] = Free /\ K[h.s0] = <<"pipe", e>>

(* Without one. *)
WithoutWorker(h, t, T, K) ==
  /\ ws' = ws /\ T = t /\ K[h.s0] = <<>>

LEMMA ForkNames ==
  ASSUME TypeInv, WorkersInv, NEW e, NEW n, NEW tab, NEW knd, NEW h, NEW t,
         Prepared(e, n, tab, knd, h, t), Renewed(e, n, h),
         NEW T, NEW K, Settled(e, tab, knd, h, T, K),
         \/ WithoutWorker(h, t, T, K)
         \/ \E w : WithWorker(e, n, knd, h, t, T, K, w)
  PROVE  EndsNamed(T, 1 .. n)'
<1> DEFINE S == (1 .. n) \ {e}
<1>1. e \in 1 .. n /\ e \in 1 .. Entries /\ n \in 1 .. Entries /\ h \in Handles(Fds)
      /\ pipes \in Nat
  BY HandlesAssumption DEF Prepared, Made, TypeInv
<1>2. hs'[e] = h /\ \A k \in S : hs'[k] = hs[k]
  BY <1>1, HandlesAssumption DEF TypeInv, Renewed
<1>3. \A j \in DOMAIN ws : Live(ws[j]) => PipeOf(ws[j]) \in 2 .. pipes
  BY DEF WorkersInv, OwnInv, OwnEndsInv
<1>4. ASSUME NEW f \in Fds, IsEnd(T[f])
      PROVE  \/ \E k \in 1 .. n : f \in {hs'[k].r1, hs'[k].s0}
             \/ \A j \in DOMAIN ws' : Live(ws'[j]) => T[f][2] \notin PipesOf(ws'[j])
  <2>1. CASE f \in {h.r1, h.s0}
    BY <1>1, <1>2, <2>1
  <2>2. CASE f \in {h.r0, h.s1}
    <3>1. WithoutWorker(h, t, T, K)
      BY <1>4, <2>2 DEF WithWorker, IsEnd
    <3>2. ws' = ws /\ T[f][2] \in {pipes + 1, pipes + 2}
      BY <2>2, <3>1 DEF WithoutWorker, Prepared, Made
    <3>3. \A j \in DOMAIN ws : Live(ws[j]) => T[f][2] \notin PipesOf(ws[j])
      BY <1>1, <1>3, <3>2 DEF PipesOf
    <3> QED
      BY <3>2, <3>3
  <2>3. CASE f \notin {h.s0, h.s1, h.r0, h.r1}
    <3>1. T[f] = tab[f] /\ tab[f] \in Things(pipes)
      BY <2>3 DEF Settled, Prepared, ParentOk
    <3>2. tab[f][2] \in 1 .. pipes
      BY <1>4, <3>1 DEF IsEnd, Things
    <3>3. \/ \E k \in S : f \in {hs[k].r1, hs[k].s0}
          \/ \A j \in DOMAIN ws : Live(ws[j]) => tab[f][2] \notin PipesOf(ws[j])
      BY <1>4, <3>1 DEF Prepared, ParentOk, EndsNamed
    <3>4. ASSUME NEW j \in DOMAIN ws', tab[f][2] \in PipesOf(ws'[j])
          PROVE  j \in DOMAIN ws /\ ws'[j] = ws[j]
      <4>1. CASE WithoutWorker(h, t, T, K)
        BY <4>1 DEF WithoutWorker
      <4>2. ASSUME NEW w, WithWorker(e, n, knd, h, t, T, K, w)
            PROVE  j \in DOMAIN ws /\ ws'[j] = ws[j]
        <5>1. tab[f][2] \notin PipesOf(w)
          BY <1>1, <3>2, <4>2 DEF WithWorker, Fresh
        <5> QED
          BY <3>4, <4>2, <5>1 DEF WithWorker, Joined
      <4> QED
        BY <4>1, <4>2
    <3> QED
      BY <1>2, <3>1, <3>3, <3>4
  <2> QED
    BY <2>1, <2>2, <2>3
<1> QED
  BY <1>4 DEF EndsNamed, IsEnd, Live, PipesOf, PipeOf, Own, Free

(* The other entries keep the worker that writes their pipe. *)
LEMMA OthersWrite ==
  ASSUME TypeInv, WorkersInv, NEW e, NEW n, NEW tab, NEW knd, NEW h, NEW t,
         Prepared(e, n, tab, knd, h, t), Renewed(e, n, h),
         NEW T, NEW K, Settled(e, tab, knd, h, T, K),
         \/ WithoutWorker(h, t, T, K)
         \/ \E w : WithWorker(e, n, knd, h, t, T, K, w),
         NEW k \in (1 .. n) \ {e}, NEW g, g = hs[k].s0, K[g] = <<"pipe", k>>
  PROVE  LastWritesTo(T, k, g)'
<1>1. pipes \in Nat /\ g \in Fds /\ k # e
  BY DEF TypeInv, Prepared, ParentOk, EndsKept, Handles
<1>2. knd[g] = <<"pipe", k>>
  BY <1>1 DEF Settled
<1>3. tab[g] # Free /\ T[g] = tab[g]
  BY <1>1, <1>2, InUse
<1>4. tab[g] \in {"r", "w"} \X (1 .. pipes)
  <2>1. tab[g][1] = "r"
    <3>1. knd[g] # <<>> /\ knd[g][1] = "pipe"
      BY <1>2
    <3> QED
      BY <1>1, <3>1 DEF Prepared, ParentOk, KindsAgree, Has
  <2>2. tab[g] \in Things(pipes)
    BY <1>1 DEF Prepared, ParentOk
  <2> QED
    BY <1>3, <2>1, <2>2 DEF Things
<1> PICK q : q = tab[g][2]
  OBVIOUS
<1>5. q \in 1 .. pipes /\ T[g][2] = q
  BY <1>3, <1>4
<1>6. /\ ~Holds(tab, <<"w", q>>)
      /\ \A j \in DOMAIN ws :
           /\ Holds(ws[j].tab, <<"w", q>>) => IsLast(j, k)
           /\ Live(ws[j]) /\ IsLast(j, k) =>
                \/ ws[j].tab[Own(ws[j]).s1] = <<"w", q>>
                \/ ws[j].at = "run" /\ StaleNumber(ws[j])
  BY <1>2 DEF Prepared, ParentOk, LastWrites, LastWritesTo
<1>7. ~Holds(t, <<"w", q>>)
  BY <1>1, <1>5, <1>6 DEF Holds, Prepared, Made
<1>8. ~Holds(T, <<"w", q>>)
  <2>1. \A f \in Fds : T[f] = t[f] \/ T[f] = Free
    BY DEF Settled, WithWorker, WithoutWorker, Prepared, Made
  <2> QED
    BY <1>7, <2>1 DEF Holds, Free
<1>9. ASSUME NEW j \in DOMAIN ws'
      PROVE  \/ j \in DOMAIN ws /\ ws'[j] = ws[j] /\ (IsLast(j, k)' <=> IsLast(j, k))
             \/ ws'[j].tab = t /\ ~IsLast(j, k)'
  <2>1. CASE WithoutWorker(h, t, T, K)
    BY <2>1 DEF WithoutWorker, IsLast
  <2>2. ASSUME NEW w, WithWorker(e, n, knd, h, t, T, K, w)
        PROVE  \/ j \in DOMAIN ws /\ ws'[j] = ws[j] /\ (IsLast(j, k)' <=> IsLast(j, k))
               \/ ws'[j].tab = t /\ ~IsLast(j, k)'
    BY <1>1, <2>2 DEF WithWorker, Fresh, Joined, IsLast
  <2> QED
    BY <2>1, <2>2
<1>10. \A j \in DOMAIN ws : StaleNumber(ws[j]) /\ ws'[j] = ws[j] => StaleNumber(ws[j])'
  <2> SUFFICES ASSUME NEW j \in DOMAIN ws, StaleNumber(ws[j]), ws'[j] = ws[j]
               PROVE  StaleNumber(ws[j])'
    OBVIOUS
  <2>1. PICK v : v = ws[j] /\ v = ws'[j] /\ v.inited \in 1 .. Entries
    <3>1. ws[j] \in Workers(pipes)
      BY DEF TypeInv
    <3> QED
      BY <3>1 DEF Workers
  <2>2. Ages
    BY RenewedAges, Zenon
  <2>3. StaleNumber(v)'
    BY <2>1, <2>2, StaleStays DEF Ages
  <2> QED
    BY <2>1, <2>3
<1>11. ASSUME NEW j \in DOMAIN ws'
       PROVE  /\ Holds(ws'[j].tab, <<"w", q>>) => IsLast(j, k)'
              /\ Live(ws'[j]) /\ IsLast(j, k)' =>
                   \/ ws'[j].tab[Own(ws'[j]).s1] = <<"w", q>>
                   \/ ws'[j].at = "run" /\ StaleNumber(ws[j])'
  BY <1>6, <1>7, <1>9, <1>10
<1> QED
  BY <1>5, <1>8, <1>11 DEF LastWritesTo, Holds, Live, Own

(* The entry that got new pipes has the new worker for it. *)
LEMMA NewWorkerWrites ==
  ASSUME TypeInv, NEW e, NEW n, NEW tab, NEW knd, NEW h, NEW t,
         Prepared(e, n, tab, knd, h, t),
         NEW T, NEW K, Settled(e, tab, knd, h, T, K),
         NEW w, WithWorker(e, n, knd, h, t, T, K, w)
  PROVE  LastWritesTo(T, e, h.s0)'
<1>1. pipes \in Nat /\ T[h.s0] = <<"r", pipes + 1>> /\ h \in Handles(Fds)
  BY DEF TypeInv, Settled, Prepared, Made
<1>2. <<"w", pipes + 1>> \notin Things(pipes)
  BY <1>1 DEF Things, Free
<1>3. ~Holds(T, <<"w", pipes + 1>>)
  <2> SUFFICES ASSUME NEW f \in Fds, T[f] = <<"w", pipes + 1>> PROVE FALSE
    BY DEF Holds
  <2>1. f \notin {h.s0, h.s1, h.r0, h.r1} => T[f] \in Things(pipes)
    BY DEF Settled, Prepared, ParentOk
  <2>2. T[h.s0] # T[f] /\ T[h.r1] # T[f] /\ T[h.s1] # T[f] /\ T[h.r0] # T[f]
    BY <1>1 DEF Settled, WithWorker, Free
  <2> QED
    BY <1>2, <2>1, <2>2
<1>4. ASSUME NEW j \in DOMAIN ws, Holds(ws[j].tab, <<"w", pipes + 1>>) PROVE FALSE
  <2>1. PICK f \in Fds : ws[j].tab[f] = <<"w", pipes + 1>>
    BY <1>4 DEF Holds
  <2>2. ws[j] \in Workers(pipes)
    BY DEF TypeInv
  <2>3. ws[j].tab[f] \in Things(pipes)
    BY <2>2 DEF Workers
  <2> QED
    BY <1>2, <2>1, <2>3
<1>5. /\ w.tab[Own(w).s1] = <<"w", pipes + 1>> /\ w.entry = e
  BY DEF WithWorker, Fresh, Prepared, Made
<1>6. /\ Len(ws) \in Nat /\ DOMAIN ws = 1 .. Len(ws) /\ DOMAIN ws' = 1 .. Len(ws) + 1
      /\ ws'[Len(ws) + 1] = w /\ \A j \in DOMAIN ws : ws'[j] = ws[j]
  BY DEF WithWorker, Joined
<1> PICK m : m = Len(ws) + 1
  OBVIOUS
<1>7. \A j \in DOMAIN ws' : IsLast(j, e)' => j = m
  BY <1>5, <1>6 DEF IsLast
<1>8. IsLast(m, e)'
  BY <1>5, <1>6 DEF IsLast
<1>9. ASSUME NEW j \in DOMAIN ws', Holds(ws'[j].tab, <<"w", pipes + 1>>)
      PROVE  IsLast(j, e)'
  <2>1. j \notin DOMAIN ws
    BY <1>4, <1>6, <1>9
  <2>2. j = m
    BY <1>6, <2>1
  <2> QED
    BY <1>8, <2>2
<1>10. \A j \in DOMAIN ws' :
         IsLast(j, e)' => ws'[j].tab[Own(ws'[j]).s1] = <<"w", pipes + 1>>
  BY <1>5, <1>6, <1>7
<1> QED
  BY <1>1, <1>3, <1>9, <1>10 DEF LastWritesTo, Holds, Live, Own

(* New pipes leave the parent in order, whether fork succeeds or not. *)
LEMMA ForkKeepsParent ==
  ASSUME TypeInv, WorkersInv, NEW e, NEW n, NEW tab, NEW knd, NEW h, NEW t,
         Prepared(e, n, tab, knd, h, t), Renewed(e, n, h),
         NEW T, NEW K, Settled(e, tab, knd, h, T, K),
         \/ WithoutWorker(h, t, T, K)
         \/ \E w : WithWorker(e, n, knd, h, t, T, K, w)
  PROVE  ParentOk(T, K, 1 .. n)'
<1>1. KindsAgree(T, K, 1 .. n)'
  BY SettledKinds, Zenon
<1>2. EndsKept(T, K, 1 .. n)'
  BY SettledEnds, Zenon
<1>3. EndsNamed(T, 1 .. n)'
  BY ForkNames, Zenon
<1>4. T \in [Fds -> Things(pipes')] /\ K \in [Fds -> Kinds]
  BY DEF Settled, Renewed
<1>5. LastWrites(T, K, 1 .. n)'
  <2>1. e \in 1 .. Entries /\ n \in 1 .. Entries
    BY HandlesAssumption DEF Prepared
  <2>2. hs'[e] = h /\ \A k \in (1 .. n) \ {e} : hs'[k] = hs[k]
    BY <2>1, HandlesAssumption DEF TypeInv, Renewed
  <2>3. ASSUME NEW k \in 1 .. n, NEW g, g = hs'[k].s0, K[g] = <<"pipe", k>>
        PROVE  LastWritesTo(T, k, g)'
    <3>1. CASE k = e
      <4>1. g = h.s0
        BY <2>2, <2>3, <3>1
      <4>2. K[h.s0] # <<>>
        <5>1. K[h.s0] = <<"pipe", k>>
          BY <2>3, <4>1, Zenon
        <5>2. <<"pipe", k>> # <<>>
          OBVIOUS
        <5> QED
          BY <5>1, <5>2, Zenon
      <4>3. PICK w : WithWorker(e, n, knd, h, t, T, K, w)
        BY <4>2 DEF WithoutWorker
      <4>4. LastWritesTo(T, e, h.s0)'
        BY <4>3, NewWorkerWrites, Zenon
      <4> QED
        BY <3>1, <4>1, <4>4
    <3>2. CASE k # e
      <4>1. k \in (1 .. n) \ {e} /\ g = hs[k].s0
        BY <2>2, <2>3, <3>2
      <4> QED
        BY <2>3, <4>1, OthersWrite, Zenon
    <3> QED
      BY <3>1, <3>2
  <2>4. ASSUME NEW k \in 1 .. n, K[hs'[k].s0] = <<"pipe", k>>
        PROVE  LastWritesTo(T, k, hs[k].s0)'
    <3> PICK g : g = hs'[k].s0
      OBVIOUS
    <3>1. LastWritesTo(T, k, g)'
      BY <2>3, <2>4, Zenon
    <3> QED
      BY <3>1
  <2> QED
    BY <2>4 DEF LastWrites
<1> QED
  BY <1>1, <1>2, <1>3, <1>4, <1>5 DEF ParentOk, Kinds, Things, Free, Fds
-----------------------------------------------------------------------------
(* A socket and its type in the table of connections. *)
Socket(x, k) ==
  \/ x \in {"client"} \X Nat /\ k \in {"remote"} \X (1 .. Entries)
  \/ x \in {"listen"} \X Nat /\ k \in {"listen"} \X (1 .. Entries)

AddSocket(tab, knd, S, f, x, k) ==
  f \in Fds /\ tab[f] = Free /\ Socket(x, k) /\ ParentOk(tab, knd, S) =>
    ParentOk([tab EXCEPT ![f] = x], [knd EXCEPT ![f] = k], S)

(* A new socket takes a free descriptor, so the pipes stay as they are. *)
LEMMA SocketKeepsParent ==
  \A tab, knd, S, f, x, k : AddSocket(tab, knd, S, f, x, k)
<1> SUFFICES ASSUME NEW tab, NEW knd, NEW S, NEW f \in Fds, NEW x, NEW k,
                    tab[f] = Free, Socket(x, k), ParentOk(tab, knd, S)
             PROVE  ParentOk([tab EXCEPT ![f] = x], [knd EXCEPT ![f] = k], S)
  BY DEF AddSocket
<1> PICK T, K : T = [tab EXCEPT ![f] = x] /\ K = [knd EXCEPT ![f] = k]
  OBVIOUS
<1>1. x \in Things(pipes) /\ k \in Kinds
  BY DEF Socket, Things, Kinds
<1>2. /\ T \in [Fds -> Things(pipes)] /\ K \in [Fds -> Kinds]
      /\ T[f] = x /\ K[f] = k
      /\ \A g \in Fds \ {f} : T[g] = tab[g] /\ K[g] = knd[g]
  BY <1>1 DEF ParentOk
<1>3. /\ x # Free /\ k # <<>> /\ k[1] # "pipe" /\ x[1] \notin {"r", "w"}
      /\ (k[1] = "remote" /\ x[1] = "client") \/ (k[1] = "listen" /\ x[1] = "listen")
  BY DEF Socket, Free
<1>4. KindsAgree(T, K, S)
  BY <1>2, <1>3 DEF ParentOk, KindsAgree, Has
<1>5. EndsKept(T, K, S)
  <2> SUFFICES ASSUME NEW e \in S
               PROVE  /\ hs[e] \in Handles(Fds) /\ Has(T, hs[e].r1, "w")
                      /\ \A l \in S : l # e => hs[l].r1 # hs[e].r1
                      /\ restarts[e] <= MaxRestarts =>
                           /\ Has(T, hs[e].s0, "r")
                           /\ K[hs[e].s0] \in {<<>>, <<"pipe", e>>}
                      /\ restarts[e] > MaxRestarts =>
                           \A g \in Fds : K[g] # <<"pipe", e>>
    BY DEF EndsKept
  <2>1. /\ hs[e] \in Handles(Fds) /\ Has(tab, hs[e].r1, "w")
        /\ \A l \in S : l # e => hs[l].r1 # hs[e].r1
        /\ restarts[e] <= MaxRestarts =>
             Has(tab, hs[e].s0, "r") /\ knd[hs[e].s0] \in {<<>>, <<"pipe", e>>}
        /\ restarts[e] > MaxRestarts => \A g \in Fds : knd[g] # <<"pipe", e>>
    BY DEF ParentOk, EndsKept
  <2>2. hs[e].r1 \in Fds /\ hs[e].s0 \in Fds
    BY <2>1 DEF Handles
  <2>3. Has(T, hs[e].r1, "w")
    BY <1>2, <2>1, <2>2 DEF Has
  <2>4. restarts[e] <= MaxRestarts =>
          Has(T, hs[e].s0, "r") /\ K[hs[e].s0] \in {<<>>, <<"pipe", e>>}
    BY <1>2, <2>1, <2>2 DEF Has
  <2>5. k # <<"pipe", e>>
    BY <1>3
  <2>6. restarts[e] > MaxRestarts => \A g \in Fds : K[g] # <<"pipe", e>>
    BY <1>2, <2>1, <2>5
  <2> QED
    BY <2>1, <2>3, <2>4, <2>6
<1>6. EndsNamed(T, S)
  <2> SUFFICES ASSUME NEW g \in Fds, IsEnd(T[g])
               PROVE  \/ \E l \in S : g \in {hs[l].r1, hs[l].s0}
                      \/ \A j \in DOMAIN ws : Live(ws[j]) => T[g][2] \notin PipesOf(ws[j])
    BY DEF EndsNamed
  <2>1. g # f
    BY <1>2, <1>3 DEF IsEnd
  <2>2. T[g] = tab[g]
    BY <1>2, <2>1
  <2> QED
    BY <2>2 DEF ParentOk, EndsNamed
<1>7. LastWrites(T, K, S)
  <2> SUFFICES ASSUME NEW e \in S, K[hs[e].s0] = <<"pipe", e>>
               PROVE  LastWritesTo(T, e, hs[e].s0)
    BY DEF LastWrites
  <2>1. hs[e].s0 \in Fds
    BY DEF ParentOk, EndsKept, Handles
  <2>2. k # <<"pipe", e>>
    BY <1>3
  <2>3. hs[e].s0 # f
    BY <1>2, <2>2
  <2>4. K[hs[e].s0] = knd[hs[e].s0] /\ T[hs[e].s0] = tab[hs[e].s0]
    BY <1>2, <2>1, <2>3
  <2>5. LastWritesTo(tab, e, hs[e].s0)
    BY <2>4 DEF ParentOk, LastWrites
  <2>6. \A q : ~Holds(tab, <<"w", q>>) => ~Holds(T, <<"w", q>>)
    BY <1>2, <1>3 DEF Holds
  <2> QED
    BY <2>4, <2>5, <2>6 DEF LastWritesTo
<1> QED
  BY <1>2, <1>4, <1>5, <1>6, <1>7 DEF ParentOk

(* The same in the next state. *)
LEMMA SocketKeepsParentNext ==
  (\A tab, knd, S, f, x, k : AddSocket(tab, knd, S, f, x, k))'
BY SocketKeepsParent, PTL

LEMMA SomeFree ==
  ASSUME NEW tab, NEW g \in Fds, tab[g] = Free
  PROVE  Lowest(tab) \in Fds /\ tab[Lowest(tab)] = Free
<1> DEFINE F == {f \in Fds : tab[f] = Free}
<1>1. F \in SUBSET Nat /\ F # {}
  BY HandlesAssumption DEF Fds
<1>2. Min(F) \in F
  <2> HIDE DEF F
  <2> QED
    BY <1>1, MinIsLeast
<1> QED
  BY <1>2 DEF Lowest

(* net_start: the tables as they were, or with a listening socket. *)
Started(e, T, K, l, t1, k1) ==
  /\ NetStart(e, [tab |-> T, knd |-> K], l) = [tab |-> t1, knd |-> k1]
  /\ \/ t1 = T /\ k1 = K
     \/ \E f \in Fds : /\ T[f] = Free
                       /\ t1 = [T EXCEPT ![f] = <<"listen", e>>]
                       /\ k1 = [K EXCEPT ![f] = <<"listen", e>>]

LEMMA NetStartAdds ==
  ASSUME NEW e \in 1 .. Entries, NEW T, NEW K, NEW l \in BOOLEAN,
         NEW g \in Fds, T[g] = Free
  PROVE  \E t1, k1 : Started(e, T, K, l, t1, k1)
<1>1. CASE l
  <2>1. PICK f : f = Lowest(T)
    OBVIOUS
  <2>2. f \in Fds /\ T[f] = Free /\ f # -1
    BY <2>1, SomeFree, HandlesAssumption DEF Fds
  <2>3. NetStart(e, [tab |-> T, knd |-> K], l) =
          [tab |-> [T EXCEPT ![f] = <<"listen", e>>],
           knd |-> [K EXCEPT ![f] = <<"listen", e>>]]
    BY <1>1, <2>1, <2>2 DEF NetStart, SafeSocketListen
  <2> QED
    BY <2>2, <2>3 DEF Started
<1>2. CASE ~l
  BY <1>2 DEF NetStart, SafeSocketListen, Started
<1> QED
  BY <1>1, <1>2

(* What new pipes leave alone: descriptors in use, and who can write the   *)
(* pipes there were.                                                       *)
Untouched(tab) ==
  /\ \A f \in Fds : tab[f] # Free => ptab'[f] = tab[f]
  /\ \A p \in 1 .. pipes : HasWriter(p)' =>
       \/ Holds(tab, <<"w", p>>)
       \/ \E i \in DOMAIN ws : Live(ws[i]) /\ Holds(ws[i].tab, <<"w", p>>)

(* fork and what the parent does next. *)
LEMMA ForkedStep ==
  ASSUME TypeInv, WorkersInv, NEW e, NEW n, NEW tab, NEW knd, NEW h, NEW t,
         Prepared(e, n, tab, knd, h, t), Renewed(e, n, h),
         NEW l \in BOOLEAN, Forked(e, t, h, knd, n, l)
  PROVE  TypeInv' /\ WorkersInv' /\ ParentInv' /\ Untouched(tab)
<1> PICK w : w = NewWorker(e, n, knd, h, t)
  OBVIOUS
<1> PICK T, K : T = Close(t, ParentCloses(h)) /\ K = [knd EXCEPT ![h.s0] = <<"pipe", e>>]
  OBVIOUS
<1>1. /\ n \in 1 .. Entries /\ e \in 1 .. n /\ h \in Handles(Fds) /\ pipes \in Nat
      /\ knd \in [Fds -> Kinds] /\ t \in [Fds -> Things(pipes + 2)]
      /\ hs \in [1 .. Entries -> Handles(Fds \cup {-1})]
  BY DEF Prepared, ParentOk, Made, TypeInv
<1>2. e \in 1 .. Entries /\ {h.s0, h.s1, h.r0, h.r1} \subseteq Fds
  BY <1>1, HandlesAssumption DEF Handles
<1>3. /\ T[h.r0] = Free /\ T[h.s1] = Free
      /\ \A f \in Fds \ {h.r0, h.s1} : T[f] = t[f]
      /\ T \in [Fds -> Things(pipes + 2)]
  BY <1>1, <1>2 DEF Close, ParentCloses, Things
<1>4. /\ K \in [Fds -> Kinds] /\ K[h.s0] = <<"pipe", e>>
      /\ \A f \in Fds \ {h.s0} : K[f] = knd[f]
  BY <1>1, <1>2 DEF Kinds
<1>5. Settled(e, tab, knd, h, T, K)
  BY <1>2, <1>3, <1>4 DEF Settled, Prepared, Made
<1>6. ws' = Append(ws, w)
  BY DEF Forked, NewWorker
<1>7. Fresh(w, e, n, knd, h, t)
  BY NewWorkerFields, Zenon
<1>8. Joined(w) /\ ws' \in Seq(Workers(pipes + 2))
  <2>1. w \in Workers(pipes + 2)
    BY <1>7 DEF Fresh
  <2> QED
    BY <1>6, <2>1, AppendJoins
<1>9. WithWorker(e, n, knd, h, t, T, K, w)
  BY <1>3, <1>4, <1>7, <1>8 DEF WithWorker
<1>10. ParentOk(T, K, 1 .. n)'
  BY <1>5, <1>9, ForkKeepsParent, Zenon
<1>11. WorkersInv'
  BY <1>6, ForkKeepsWorkers, Zenon
<1>12. TypeInv'
  <2>1. h \in Handles(Fds \cup {-1})
    BY <1>1 DEF Handles
  <2>2. hs' \in [1 .. Entries -> Handles(Fds \cup {-1})]
    BY <1>1, <1>2, <2>1 DEF Renewed
  <2>3. n \in 0 .. Entries /\ pipes + 2 \in Nat
    BY <1>1, HandlesAssumption
  <2> QED
    BY <1>8, <2>2, <2>3 DEF TypeInv, Renewed, Workers, Things, Kinds, Handles, Fds, Free
<1>13. PICK t1, k1 : Started(e, T, K, l, t1, k1)
  <2>1. h.r0 \in Fds /\ T[h.r0] = Free
    BY <1>2, <1>3
  <2> QED
    BY <1>2, <2>1, NetStartAdds, Zenon
<1>14. ptab' = t1 /\ kind' = k1
  BY <1>13 DEF Forked, Started
<1>15. \A f \in Fds : t1[f] = T[f] \/ (T[f] = Free /\ t1[f] = <<"listen", e>>)
  BY <1>3, <1>13 DEF Started
<1>16. ParentOk(t1, k1, 1 .. n)'
  <2>1. CASE t1 = T /\ k1 = K
    BY <1>10, <2>1
  <2>2. ASSUME NEW f \in Fds, T[f] = Free, t1 = [T EXCEPT ![f] = <<"listen", e>>],
               k1 = [K EXCEPT ![f] = <<"listen", e>>]
        PROVE  ParentOk(t1, k1, 1 .. n)'
    <3> PICK x : x = <<"listen", e>>
      OBVIOUS
    <3>1. Socket(x, x)
      BY <1>2 DEF Socket
    <3>2. AddSocket(T, K, 1 .. n, f, x, x)'
      BY SocketKeepsParentNext, Zenon
    <3>3. ParentOk([T EXCEPT ![f] = x], [K EXCEPT ![f] = x], 1 .. n)'
      BY <1>10, <2>2, <3>1, <3>2 DEF AddSocket, Fds, Free, Socket
    <3> QED
      BY <2>2, <3>3
  <2> QED
    BY <1>13, <2>1, <2>2 DEF Started
<1>17. ParentInv'
  BY <1>14, <1>16 DEF ParentInv, Renewed
<1>18. Untouched(tab)
  <2>1. \A f \in Fds : tab[f] # Free => ptab'[f] = tab[f]
    <3>1. \A f \in Fds : tab[f] # Free => f \notin {h.s0, h.s1, h.r0, h.r1}
      BY DEF Prepared, Made
    <3> QED
      BY <1>5, <1>14, <1>15, <3>1 DEF Settled
  <2>2. ASSUME NEW p \in 1 .. pipes, HasWriter(p)'
        PROVE  \/ Holds(tab, <<"w", p>>)
               \/ \E i \in DOMAIN ws : Live(ws[i]) /\ Holds(ws[i].tab, <<"w", p>>)
    <3>1. Holds(t, <<"w", p>>) => Holds(tab, <<"w", p>>)
      BY <1>1 DEF Prepared, Made, Holds
    <3>2. Holds(t1, <<"w", p>>) => Holds(t, <<"w", p>>)
      <4> SUFFICES ASSUME NEW f \in Fds, t1[f] = <<"w", p>> PROVE t[f] = <<"w", p>>
        BY DEF Holds
      <4>1. T[f] = <<"w", p>>
        BY <1>15
      <4>2. f \notin {h.r0, h.s1}
        <5>1. <<"w", p>> # Free
          BY DEF Free
        <5> QED
          BY <1>3, <4>1, <5>1
      <4> QED
        BY <1>3, <4>1, <4>2
    <3>3. \/ Holds(t1, <<"w", p>>)
          \/ \E i \in DOMAIN ws' : Live(ws'[i]) /\ Holds(ws'[i].tab, <<"w", p>>)
      BY <1>14, <2>2 DEF HasWriter, Holds, Live
    <3>4. \A i \in DOMAIN ws' : (i \in DOMAIN ws /\ ws'[i] = ws[i]) \/ ws'[i].tab = t
      BY <1>7, <1>8 DEF Joined, Fresh
    <3> QED
      BY <3>1, <3>2, <3>3, <3>4
  <2> QED
    BY <2>1, <2>2 DEF Untouched
<1> QED
  BY <1>11, <1>12, <1>17, <1>18

(* The workers do not depend on what the parent does. *)
LEMMA WorkersStay ==
  ASSUME TypeInv, WorkersInv, Ages, ws' = ws
  PROVE  WorkersInv'
<1>1. OwnInv'
  <2> SUFFICES ASSUME NEW i \in DOMAIN ws, Live(ws[i]) PROVE OwnEndsInv(ws[i])'
    BY DEF OwnInv, Live
  <2>1. PICK v : v = ws[i] /\ v = ws'[i] /\ v \in Workers(pipes)
    BY DEF TypeInv
  <2>2. v.inited \in 1 .. Entries /\ OwnEndsInv(v)
    BY <2>1 DEF WorkersInv, OwnInv, Workers
  <2>3. OwnEndsInv(v)'
    BY <2>2, OwnStays
  <2> QED
    BY <2>1, <2>3
<1>2. ApartInv'
  <2> SUFFICES ASSUME NEW i \in DOMAIN ws, NEW j \in DOMAIN ws, i # j,
                      Live(ws[i]), Live(ws[j])
               PROVE  Apart(ws[i], ws[j])'
    BY DEF ApartInv, Live
  <2>1. Apart(ws[i], ws[j])
    BY DEF WorkersInv, ApartInv
  <2> QED
    BY <2>1 DEF Apart, IsEnd, PipesOf, PipeOf, Own, Closes, ChildCloses
<1>3. DeadInv'
  BY DEF WorkersInv, DeadInv, NoTable
<1> QED
  BY <1>1, <1>2, <1>3 DEF WorkersInv

(* fork fails: the parent keeps all four ends and watches none. *)
LEMMA FailedStep ==
  ASSUME TypeInv, WorkersInv, NEW e, NEW n, NEW tab, NEW knd, NEW h, NEW t,
         Prepared(e, n, tab, knd, h, t), Renewed(e, n, h),
         ptab' = t, kind' = knd, ws' = ws
  PROVE  TypeInv' /\ WorkersInv' /\ ParentInv' /\ Untouched(tab)
<1>1. /\ n \in 1 .. Entries /\ e \in 1 .. n /\ h \in Handles(Fds) /\ pipes \in Nat
      /\ knd \in [Fds -> Kinds] /\ t \in [Fds -> Things(pipes + 2)]
      /\ hs \in [1 .. Entries -> Handles(Fds \cup {-1})]
  BY DEF Prepared, ParentOk, Made, TypeInv
<1>2. e \in 1 .. Entries /\ {h.s0, h.s1, h.r0, h.r1} \subseteq Fds
  BY <1>1, HandlesAssumption DEF Handles
<1>3. knd[h.s0] = <<>>
  BY <1>2 DEF Prepared, Made, ParentOk, KindsAgree, Has
<1>4. Settled(e, tab, knd, h, t, knd)
  BY <1>1, <1>3 DEF Settled, Prepared, Made
<1>5. WithoutWorker(h, t, t, knd)
  BY <1>3 DEF WithoutWorker
<1>6. ParentOk(t, knd, 1 .. n)'
  BY <1>4, <1>5, ForkKeepsParent, Zenon
<1>7. ParentInv'
  BY <1>6 DEF ParentInv, Renewed
<1>8. Ages
  BY RenewedAges, Zenon
<1>10. WorkersInv'
  BY <1>8, WorkersStay
<1>11. TypeInv'
  <2>1. h \in Handles(Fds \cup {-1})
    BY <1>1 DEF Handles
  <2>2. hs' \in [1 .. Entries -> Handles(Fds \cup {-1})]
    BY <1>1, <1>2, <2>1 DEF Renewed
  <2>3. n \in 0 .. Entries /\ pipes + 2 \in Nat
    BY <1>1, HandlesAssumption
  <2>4. Things(pipes) \subseteq Things(pipes + 2)
    BY <1>1 DEF Things
  <2>5. Workers(pipes) \subseteq Workers(pipes + 2)
    BY <2>4 DEF Workers
  <2>6. ws' \in Seq(Workers(pipes + 2))
    BY <2>5 DEF TypeInv
  <2> QED
    BY <2>2, <2>3, <2>6 DEF TypeInv, Renewed, Workers, Things, Kinds, Handles, Fds, Free
<1>12. Untouched(tab)
  <2>1. \A f \in Fds : tab[f] # Free => ptab'[f] = tab[f]
    BY DEF Prepared, Made
  <2>2. \A p \in 1 .. pipes : Holds(t, <<"w", p>>) => Holds(tab, <<"w", p>>)
    BY <1>1 DEF Prepared, Made, Holds
  <2> QED
    BY <2>1, <2>2 DEF Untouched, HasWriter, Holds, Live
<1> QED
  BY <1>7, <1>10, <1>11, <1>12

(* The events that wait stay true as long as nothing takes the client's    *)
(* descriptors and no pipe gets a writer again.                            *)
LEMMA BatchStays ==
  ASSUME TypeInv, BatchInv, pipes' \in Nat, pipes' >= pipes,
         ended' \subseteq ended, batch' \subseteq batch,
         \A x \in ended' : ptab'[x[1]] = ptab[x[1]],
         \A p \in 1 .. pipes : HasWriter(p)' => HasWriter(p)
  PROVE  BatchInv'
<1>1. \A x \in ended' : x[1] \in Fds /\ Has(ptab', x[1], "client")
  BY DEF BatchInv, Has
<1>2. ASSUME NEW ev \in batch'
      PROVE  /\ ev[1] \in Fds
             /\ ev[3] # Free /\ ev[3][1] = "r" =>
                  ev[3][2] \in 1 .. pipes' /\ ~HasWriter(ev[3][2])'
  <2>1. /\ ev[1] \in Fds
        /\ ev[3] # Free /\ ev[3][1] = "r" =>
             ev[3][2] \in 1 .. pipes /\ ~HasWriter(ev[3][2])
    BY DEF BatchInv
  <2>2. ASSUME ev[3] # Free, ev[3][1] = "r"
        PROVE  ev[3][2] \in 1 .. pipes' /\ ~HasWriter(ev[3][2])'
    <3>1. PICK p \in 1 .. pipes : p = ev[3][2]
      BY <2>1, <2>2
    <3>2. ~HasWriter(p)'
      BY <2>1, <2>2, <3>1
    <3>3. p \in 1 .. pipes'
      BY DEF TypeInv
    <3> QED
      BY <3>1, <3>2, <3>3
  <2> QED
    BY <2>1, <2>2
<1> QED
  BY <1>1, <1>2 DEF BatchInv, Has, Free, Fds

(* The boot loop of main. *)
LEMMA BootStep ==
  ASSUME IInv, NEW o \in BOOLEAN, NEW l \in BOOLEAN, Boot(o, l)
  PROVE  IInv'
<1> PICK e : e = booted + 1
  OBVIOUS
<1>1. /\ up /\ e \in 1 .. Entries /\ pipes \in Nat /\ 1 .. booted = (1 .. e) \ {e}
      /\ ParentOk(ptab, kind, 1 .. booted)
  BY HandlesAssumption DEF IInv, TypeInv, ParentInv, Boot
<1>2. PICK h, t : ShmqCreate(ptab, o) = [tab |-> t, h |-> h] /\ Made(ptab, h, t)
  <2>1. ptab \in [Fds -> Things(pipes)]
    BY <1>1 DEF ParentOk
  <2>2. Room(ptab, 4)
    BY DEF Boot
  <2> QED
    BY <1>1, <2>1, <2>2, ShmqCreateMakes, Zenon
<1>3. Prepared(e, e, ptab, kind, h, t)
  <2>1. ParentOk(ptab, kind, (1 .. e) \ {e})
    BY <1>1, Zenon
  <2>2. e \in 1 .. e
    BY <1>1, HandlesAssumption
  <2> QED
    BY <1>1, <1>2, <2>1, <2>2 DEF Prepared
<1>4. Renewed(e, e, h)
  <2>1. /\ booted' = e /\ pipes' = pipes + 2 /\ hs' = [hs EXCEPT ![e] = h]
        /\ UNCHANGED <<restarts, up, clients>>
    BY <1>2 DEF Boot
  <2> QED
    BY <1>1, <2>1, HandlesAssumption DEF Renewed, IInv, TypeInv
<1>5. \/ Forked(e, t, h, kind, e, l)
      \/ ptab' = t /\ kind' = kind /\ ws' = ws
  BY <1>2 DEF Boot
<1>6. TypeInv' /\ WorkersInv' /\ ParentInv' /\ Untouched(ptab)
  BY <1>3, <1>4, <1>5, ForkedStep, FailedStep DEF IInv
<1>7. BatchInv'
  <2>1. \A x \in ended : ptab'[x[1]] = ptab[x[1]]
    BY <1>6 DEF Untouched, IInv, BatchInv, Has
  <2>2. \A p \in 1 .. pipes : HasWriter(p)' => HasWriter(p)
    BY <1>1, <1>6 DEF Untouched, HasWriter, Live
  <2>3. pipes' = pipes + 2 /\ ended' = ended /\ batch' = batch
    BY DEF Boot
  <2> QED
    BY <1>1, <2>1, <2>2, <2>3, BatchStays DEF IInv
<1> QED
  BY <1>6, <1>7 DEF IInv
-----------------------------------------------------------------------------
(* The parts of the invariant of the parent when no worker is forked. *)
LEMMA KindsStay ==
  ASSUME NEW T, NEW K, NEW S, KindsAgree(T, K, S), hs' = hs
  PROVE  KindsAgree(T, K, S)'
BY DEF KindsAgree, Has, Free, Fds

LEMMA EndsStay ==
  ASSUME NEW T, NEW K, NEW S, EndsKept(T, K, S), hs' = hs,
         \A k \in S : restarts'[k] = restarts[k]
  PROVE  EndsKept(T, K, S)'
BY DEF EndsKept, Has, Free, Fds, Handles

LEMMA NamesStay ==
  ASSUME NEW T, NEW S, EndsNamed(T, S), hs' = hs, ws' = ws
  PROVE  EndsNamed(T, S)'
BY DEF EndsNamed, IsEnd, Live, PipesOf, PipeOf, Own, Free, Fds

LEMMA LastStays ==
  ASSUME TypeInv, Ages, NEW T, NEW K, NEW S, LastWrites(T, K, S), hs' = hs, ws' = ws
  PROVE  LastWrites(T, K, S)'
<1>1. ASSUME NEW j \in DOMAIN ws, StaleNumber(ws[j]) PROVE StaleNumber(ws[j])'
  <2>1. PICK v : v = ws[j] /\ v = ws'[j] /\ v \in Workers(pipes)
    BY DEF TypeInv
  <2>2. v.inited \in 1 .. Entries
    BY <2>1 DEF Workers
  <2>3. StaleNumber(v)'
    BY <1>1, <2>1, <2>2, StaleStays DEF Ages
  <2> QED
    BY <2>1, <2>3
<1>2. ASSUME NEW e \in S, K[hs[e].s0] = <<"pipe", e>>, NEW g, g = hs[e].s0
      PROVE  LastWritesTo(T, e, g)'
  <2>1. LastWritesTo(T, e, g)
    BY <1>2 DEF LastWrites
  <2>2. \A j \in DOMAIN ws : IsLast(j, e)' <=> IsLast(j, e)
    BY DEF IsLast
  <2> QED
    BY <1>1, <2>1, <2>2 DEF LastWritesTo, Holds, Live, Own, Fds
<1>3. ASSUME NEW e \in S, K[hs[e].s0] = <<"pipe", e>> PROVE LastWritesTo(T, e, hs[e].s0)'
  <2> PICK g : g = hs[e].s0 /\ g = hs'[e].s0
    OBVIOUS
  <2>1. LastWritesTo(T, e, g)'
    BY <1>2, <1>3
  <2> QED
    BY <2>1
<1> QED
  BY <1>3 DEF LastWrites

LEMMA ParentStays ==
  ASSUME TypeInv, UNCHANGED <<hs, ws, pipes, restarts>>,
         NEW T, NEW K, NEW S, ParentOk(T, K, S)
  PROVE  ParentOk(T, K, S)'
<1>1. Ages
  BY DEF Ages, TypeInv
<1>2. KindsAgree(T, K, S)' /\ EndsKept(T, K, S)' /\ EndsNamed(T, S)'
  BY KindsStay, EndsStay, NamesStay DEF ParentOk
<1>3. LastWrites(T, K, S)'
  BY <1>1, LastStays DEF ParentOk
<1> QED
  BY <1>2, <1>3 DEF ParentOk, Things, Kinds, Free, Fds

(* Descriptors of clients, and those of entry e, may be closed without     *)
(* harm to the other entries.                                              *)
MayClose(G, e) ==
  \A f \in G : \/ f \in Fds /\ Has(ptab, f, "client")
               \/ f \in Fds /\ kind[f] = <<"pipe", e>>
               \/ e \in 1 .. booted /\ f = hs[e].r1

Off(knd, G) == [f \in Fds |-> IF f \in G THEN <<>> ELSE knd[f]]

Closed(G, T, K) ==
  /\ T \in [Fds -> Things(pipes)] /\ K \in [Fds -> Kinds]
  /\ \A f \in Fds : f \notin G => T[f] = ptab[f] /\ K[f] = kind[f]
  /\ \A f \in Fds : f \in G => T[f] = Free /\ K[f] = <<>>
  /\ \A f \in Fds : kind[f] # <<>> =>
       ptab[f] # Free /\ ptab[f][1] \in {"r", "client", "listen"}

LEMMA ClosedFacts ==
  ASSUME NEW G, ParentOk(ptab, kind, 1 .. booted),
         NEW T, NEW K, T = Close(ptab, G), K = Off(kind, G)
  PROVE  Closed(G, T, K)
BY DEF Closed, ParentOk, KindsAgree, Has, Close, Off, Things, Kinds

LEMMA CloseKeeps ==
  ASSUME NEW G, NEW e, ParentOk(ptab, kind, 1 .. booted), MayClose(G, e),
         NEW T, NEW K, T = Close(ptab, G), K = Off(kind, G),
         \A f \in Fds : kind[f] = <<"pipe", e>> => f \in G
  PROVE  /\ KindsAgree(T, K, (1 .. booted) \ {e})
         /\ EndsKept(T, K, (1 .. booted) \ {e})
         /\ EndsNamed(T, 1 .. booted)
         /\ LastWrites(T, K, (1 .. booted) \ {e})
<1> DEFINE S == (1 .. booted) \ {e}
<1>1. /\ T \in [Fds -> Things(pipes)] /\ K \in [Fds -> Kinds]
      /\ \A f \in Fds : f \notin G => T[f] = ptab[f] /\ K[f] = kind[f]
      /\ \A f \in Fds : f \in G => T[f] = Free /\ K[f] = <<>>
      /\ \A f \in Fds : kind[f] # <<>> =>
           ptab[f] # Free /\ ptab[f][1] \in {"r", "client", "listen"}
  <2>1. Closed(G, T, K)
    BY ClosedFacts, Zenon
  <2> QED
    BY <2>1 DEF Closed
<1>2. KindsAgree(T, K, S)
  <2> SUFFICES ASSUME NEW f \in Fds, K[f] # <<>>
               PROVE  \/ /\ K[f][1] = "pipe" /\ Has(T, f, "r")
                         /\ K[f][2] \in S /\ f = hs[K[f][2]].s0
                      \/ K[f][1] = "remote" /\ Has(T, f, "client")
                      \/ K[f][1] = "listen" /\ Has(T, f, "listen")
    BY DEF KindsAgree
  <2>1. f \notin G /\ T[f] = ptab[f] /\ K[f] = kind[f]
    BY <1>1
  <2>2. \/ /\ kind[f][1] = "pipe" /\ Has(ptab, f, "r")
           /\ kind[f][2] \in 1 .. booted /\ f = hs[kind[f][2]].s0
        \/ kind[f][1] = "remote" /\ Has(ptab, f, "client")
        \/ kind[f][1] = "listen" /\ Has(ptab, f, "listen")
    BY <2>1 DEF ParentOk, KindsAgree
  <2>3. kind[f][1] = "pipe" => kind[f][2] # e
    <3>1. kind[f] \in Kinds
      BY DEF ParentOk
    <3>2. kind[f] # <<>>
      BY <2>1
    <3>3. kind[f] = <<kind[f][1], kind[f][2]>>
      BY <3>1, <3>2 DEF Kinds
    <3> QED
      BY <2>1, <3>3
  <2> QED
    BY <2>1, <2>2, <2>3 DEF Has
<1>3. ASSUME NEW k \in S
      PROVE  /\ hs[k] \in Handles(Fds) /\ hs[k].r1 \in Fds /\ hs[k].s0 \in Fds
             /\ Has(ptab, hs[k].r1, "w") /\ hs[k].r1 \notin G
             /\ \A l \in S : l # k => hs[l].r1 # hs[k].r1
             /\ restarts[k] <= MaxRestarts =>
                  /\ Has(ptab, hs[k].s0, "r") /\ hs[k].s0 \notin G
                  /\ kind[hs[k].s0] \in {<<>>, <<"pipe", k>>}
             /\ restarts[k] > MaxRestarts => \A f \in Fds : kind[f] # <<"pipe", k>>
  <2>1. /\ hs[k] \in Handles(Fds) /\ Has(ptab, hs[k].r1, "w")
        /\ \A l \in 1 .. booted : l # k => hs[l].r1 # hs[k].r1
        /\ restarts[k] <= MaxRestarts =>
             Has(ptab, hs[k].s0, "r") /\ kind[hs[k].s0] \in {<<>>, <<"pipe", k>>}
        /\ restarts[k] > MaxRestarts => \A f \in Fds : kind[f] # <<"pipe", k>>
    BY DEF ParentOk, EndsKept
  <2>2. hs[k].r1 \in Fds /\ hs[k].s0 \in Fds
    BY <2>1 DEF Handles
  <2>3. kind[hs[k].r1] = <<>>
    BY <1>1, <2>1, <2>2 DEF Has
  <2>4. hs[k].r1 \notin G
    <3> SUFFICES ASSUME hs[k].r1 \in G PROVE FALSE
      OBVIOUS
    <3>1. ~Has(ptab, hs[k].r1, "client")
      BY <2>1 DEF Has
    <3>2. e \in 1 .. booted => hs[k].r1 # hs[e].r1
      BY <2>1
    <3>3. kind[hs[k].r1] # <<"pipe", e>>
      BY <2>3
    <3> QED
      BY <3>1, <3>2, <3>3 DEF MayClose
  <2>5. ASSUME restarts[k] <= MaxRestarts, hs[k].s0 \in G PROVE FALSE
    <3>1. ~Has(ptab, hs[k].s0, "client") /\ kind[hs[k].s0] # <<"pipe", e>>
      <4>1. Has(ptab, hs[k].s0, "r") /\ kind[hs[k].s0] \in {<<>>, <<"pipe", k>>}
        BY <2>1, <2>5
      <4>2. <<"pipe", k>> # <<"pipe", e>> /\ <<>> # <<"pipe", e>>
        OBVIOUS
      <4> QED
        BY <4>1, <4>2 DEF Has
    <3>2. e \in 1 .. booted => hs[k].s0 # hs[e].r1
      <4> SUFFICES ASSUME e \in 1 .. booted PROVE hs[k].s0 # hs[e].r1
        OBVIOUS
      <4>1. Has(ptab, hs[e].r1, "w")
        BY DEF ParentOk, EndsKept
      <4> QED
        BY <2>1, <2>5, <4>1 DEF Has
    <3> QED
      BY <2>5, <3>1, <3>2 DEF MayClose
  <2> QED
    BY <2>1, <2>2, <2>4, <2>5
<1>4. EndsKept(T, K, S)
  <2> SUFFICES ASSUME NEW k \in S
               PROVE  /\ hs[k] \in Handles(Fds) /\ Has(T, hs[k].r1, "w")
                      /\ \A l \in S : l # k => hs[l].r1 # hs[k].r1
                      /\ restarts[k] <= MaxRestarts =>
                           /\ Has(T, hs[k].s0, "r")
                           /\ K[hs[k].s0] \in {<<>>, <<"pipe", k>>}
                      /\ restarts[k] > MaxRestarts =>
                           \A g \in Fds : K[g] # <<"pipe", k>>
    BY DEF EndsKept
  <2>1. \A g \in Fds : K[g] = kind[g] \/ K[g] = <<>>
    BY <1>1
  <2>2. restarts[k] > MaxRestarts => \A g \in Fds : K[g] # <<"pipe", k>>
    BY <1>3, <2>1
  <2> QED
    BY <1>1, <1>3, <2>2 DEF Has
<1>5. EndsNamed(T, 1 .. booted)
  <2> SUFFICES ASSUME NEW f \in Fds, IsEnd(T[f])
               PROVE  \/ \E l \in 1 .. booted : f \in {hs[l].r1, hs[l].s0}
                      \/ \A j \in DOMAIN ws : Live(ws[j]) => T[f][2] \notin PipesOf(ws[j])
    BY DEF EndsNamed
  <2>1. T[f] = ptab[f]
    BY <1>1 DEF IsEnd
  <2> QED
    BY <2>1 DEF ParentOk, EndsNamed
<1>6. LastWrites(T, K, S)
  <2> SUFFICES ASSUME NEW k \in S, K[hs[k].s0] = <<"pipe", k>>
               PROVE  LastWritesTo(T, k, hs[k].s0)
    BY DEF LastWrites
  <2>1. T[hs[k].s0] = ptab[hs[k].s0] /\ kind[hs[k].s0] = <<"pipe", k>>
    <3>1. hs[k].s0 \in Fds
      BY <1>3, Zenon
    <3>2. K[hs[k].s0] # <<>>
      <4>1. <<"pipe", k>> # <<>>
        OBVIOUS
      <4> QED
        BY <4>1, Zenon
    <3>3. hs[k].s0 \notin G
      BY <1>1, <3>1, <3>2, Zenon
    <3> QED
      BY <1>1, <3>1, <3>3, Zenon
  <2>2. LastWritesTo(ptab, k, hs[k].s0)
    BY <2>1 DEF ParentOk, LastWrites
  <2>3. \A q : ~Holds(ptab, <<"w", q>>) => ~Holds(T, <<"w", q>>)
    BY <1>1 DEF Holds, Free
  <2> QED
    BY <2>1, <2>2, <2>3 DEF LastWritesTo
<1> QED
  BY <1>2, <1>4, <1>5, <1>6

(* A hang-up on the pipe of entry e: what is closed. *)
HungEntry(ev, e, gone) ==
  /\ e \in 1 .. Entries /\ booted = Entries /\ up
  /\ ev[1] \in Fds /\ kind[ev[1]] = <<"pipe", e>> /\ ev[1] = hs[e].s0
  /\ gone = OfEntry(e) /\ gone \subseteq Fds
  /\ MayClose(gone, e) /\ MayClose(gone \cup {hs[e].r1}, e)
  /\ \A f \in Fds : kind[f] = <<"pipe", e>> => f \in gone
  /\ hs[e].r1 \in Fds /\ hs[e].r1 \notin gone /\ kind[hs[e].r1] = <<>>
  /\ Has(ptab, hs[e].r1, "w")

LEMMA HungEntryFacts ==
  ASSUME IInv, NEW ev \in batch, Looping, Is(ev[1], "pipe"),
         NEW e, NEW gone, e = kind[ev[1]][2], gone = OfEntry(e)
  PROVE  HungEntry(ev, e, gone)
<1>1. up /\ booted = Entries /\ ParentOk(ptab, kind, 1 .. booted)
  BY DEF Looping, IInv, ParentInv
<1>2. ev[1] \in Fds /\ kind[ev[1]] \in Kinds
  BY <1>1 DEF IInv, BatchInv, ParentOk
<1>3. kind[ev[1]] = <<"pipe", e>> /\ e \in 1 .. Entries
  BY <1>2 DEF Is, Kinds
<1>4. ev[1] = hs[e].s0
  <2>1. kind[ev[1]] # <<>> /\ kind[ev[1]][1] = "pipe" /\ kind[ev[1]][2] = e
    BY <1>3
  <2> QED
    BY <1>1, <1>2, <2>1 DEF ParentOk, KindsAgree
<1>5. gone \subseteq Fds
  BY DEF OfEntry
<1>6. ASSUME NEW f \in gone PROVE Has(ptab, f, "client") \/ kind[f] = <<"pipe", e>>
  <2>1. /\ f \in Fds /\ kind[f] # <<>> /\ kind[f][2] = e
        /\ kind[f][1] = "pipe" \/ kind[f][1] = "remote"
    BY DEF OfEntry, Is
  <2>2. kind[f] \in Kinds
    BY <1>1, <2>1 DEF ParentOk
  <2>3. kind[f] = <<kind[f][1], e>>
    BY <2>1, <2>2 DEF Kinds
  <2>4. kind[f][1] = "remote" => Has(ptab, f, "client")
    BY <1>1, <2>1 DEF ParentOk, KindsAgree
  <2> QED
    BY <2>1, <2>3, <2>4
<1>7. \A f \in Fds : kind[f] = <<"pipe", e>> => f \in gone
  BY DEF OfEntry, Is
<1>8. hs[e].r1 \in Fds /\ Has(ptab, hs[e].r1, "w")
  BY <1>1, <1>3 DEF ParentOk, EndsKept, Handles
<1>9. kind[hs[e].r1] = <<>>
  BY <1>1, <1>8 DEF ParentOk, KindsAgree, Has
<1>10. hs[e].r1 \notin gone
  BY <1>9 DEF OfEntry, Is
<1> QED
  BY <1>1, <1>2, <1>3, <1>4, <1>5, <1>6, <1>7, <1>8, <1>9, <1>10 DEF HungEntry, MayClose

(* The worker is restarted. *)
LEMMA RestartStep ==
  ASSUME IInv, NEW ev \in batch, NEW o \in BOOLEAN, HandleHangup(ev, o),
         NEW e, NEW gone, HungEntry(ev, e, gone), e = kind[ev[1]][2],
         restarts[e] < MaxRestarts
  PROVE  IInv'
<1> PICK G : G = gone \cup {hs[e].r1}
  OBVIOUS
<1> PICK T : T = Close(ptab, G)
  OBVIOUS
<1> PICK K : K = Off(kind, gone)
  OBVIOUS
<1>1. /\ e \in 1 .. Entries /\ booted = Entries /\ up /\ pipes \in Nat
      /\ ParentOk(ptab, kind, 1 .. booted) /\ MayClose(G, e)
  BY DEF HungEntry, IInv, TypeInv, ParentInv
<1>2. K = Off(kind, G)
  BY DEF Off, HungEntry
<1>3. Closed(G, T, K)
  BY <1>1, <1>2, ClosedFacts, Zenon
<1>4. ParentOk(T, K, (1 .. Entries) \ {e})
  <2>1. \A f \in Fds : kind[f] = <<"pipe", e>> => f \in G
    BY DEF HungEntry
  <2>2. /\ KindsAgree(T, K, (1 .. booted) \ {e}) /\ EndsKept(T, K, (1 .. booted) \ {e})
        /\ EndsNamed(T, 1 .. booted) /\ LastWrites(T, K, (1 .. booted) \ {e})
    BY <1>1, <1>2, <2>1, CloseKeeps
  <2>3. EndsNamed(T, (1 .. Entries) \ {e})
    <3> SUFFICES ASSUME NEW f \in Fds, IsEnd(T[f])
                 PROVE  \/ \E l \in (1 .. Entries) \ {e} : f \in {hs[l].r1, hs[l].s0}
                        \/ \A j \in DOMAIN ws : Live(ws[j]) => T[f][2] \notin PipesOf(ws[j])
      BY DEF EndsNamed
    <3>1. f \notin G
      BY <1>3 DEF Closed, IsEnd
    <3>2. f \notin {hs[e].r1, hs[e].s0}
      BY <3>1 DEF HungEntry
    <3> QED
      BY <1>1, <2>2, <3>2 DEF EndsNamed
  <2> QED
    BY <1>1, <1>3, <2>2, <2>3 DEF ParentOk, Closed
<1>5. /\ Looping /\ batch' \subseteq batch /\ Room(T, 4)
      /\ ended' = {x \in ended : x[1] \notin gone}
      /\ restarts' = [restarts EXCEPT ![e] = @ + 1]
      /\ hs' = [hs EXCEPT ![e] = ShmqCreate(T, o).h] /\ pipes' = pipes + 2
      /\ UNCHANGED <<booted, up, clients>>
  BY DEF HandleHangup, HungEntry, Off
<1>6. PICK h, t : ShmqCreate(T, o) = [tab |-> t, h |-> h] /\ Made(T, h, t)
  <2>1. T \in [Fds -> Things(pipes)]
    BY <1>3 DEF Closed
  <2> QED
    BY <1>1, <1>5, <2>1, ShmqCreateMakes, Zenon
<1>7. Prepared(e, Entries, T, K, h, t)
  BY <1>1, <1>4, <1>6, HandlesAssumption DEF Prepared
<1>8. Renewed(e, Entries, h)
  <2>1. restarts \in [1 .. Entries -> Nat]
    BY DEF IInv, TypeInv
  <2>2. /\ restarts' \in [1 .. Entries -> Nat] /\ restarts'[e] = restarts[e] + 1
        /\ \A k \in (1 .. Entries) \ {e} : restarts'[k] = restarts[k]
    BY <1>1, <1>5, <2>1
  <2>3. restarts'[e] <= MaxRestarts /\ restarts'[e] >= restarts[e]
    BY <1>1, <2>1, <2>2, HandlesAssumption
  <2>4. \A k \in 1 .. Entries : ~(k > Entries)
    BY HandlesAssumption
  <2>5. hs' = [hs EXCEPT ![e] = h]
    <3>1. ShmqCreate(T, o).h = h
      BY <1>6
    <3> QED
      BY <1>5, <3>1
  <2> QED
    BY <1>1, <1>5, <2>2, <2>3, <2>4, <2>5 DEF Renewed
<1>9. \/ Forked(e, t, h, K, Entries, FALSE)
      \/ ptab' = t /\ kind' = K /\ ws' = ws
  <2>1. ShmqCreate(T, o).tab = t /\ ShmqCreate(T, o).h = h
    BY <1>6
  <2>2. \/ Forked(e, ShmqCreate(T, o).tab, ShmqCreate(T, o).h, K, Entries, FALSE)
        \/ ptab' = ShmqCreate(T, o).tab /\ kind' = K /\ ws' = ws
    BY DEF HandleHangup, HungEntry, Off
  <2> QED
    BY <2>1, <2>2 DEF Forked
<1>10. TypeInv' /\ WorkersInv' /\ ParentInv' /\ Untouched(T)
  BY <1>7, <1>8, <1>9, ForkedStep, FailedStep DEF IInv
<1>11. BatchInv'
  <2>1. ASSUME NEW x \in ended' PROVE ptab'[x[1]] = ptab[x[1]]
    <3>1. x \in ended /\ x[1] \notin gone /\ x[1] \in Fds /\ Has(ptab, x[1], "client")
      BY <1>5 DEF IInv, BatchInv
    <3>2. x[1] \notin G
      BY <3>1 DEF HungEntry, Has
    <3>3. T[x[1]] = ptab[x[1]] /\ T[x[1]] # Free
      BY <1>3, <3>1, <3>2 DEF Closed, Has
    <3> QED
      BY <1>10, <3>1, <3>3 DEF Untouched
  <2>2. \A p : Holds(T, <<"w", p>>) => Holds(ptab, <<"w", p>>)
    <3> SUFFICES ASSUME NEW p, NEW f \in Fds, T[f] = <<"w", p>>
                 PROVE  ptab[f] = <<"w", p>>
      BY DEF Holds
    <3>1. <<"w", p>> # Free
      BY DEF Free
    <3>2. f \notin G
      BY <1>3, <3>1 DEF Closed
    <3> QED
      BY <1>3, <3>2 DEF Closed
  <2>3. \A p \in 1 .. pipes : HasWriter(p)' => HasWriter(p)
    BY <1>1, <1>10, <2>2 DEF Untouched, HasWriter, Live
  <2>4. ended' \subseteq ended /\ pipes' \in Nat /\ pipes' >= pipes
    BY <1>1, <1>5
  <2> QED
    BY <1>5, <2>1, <2>3, <2>4, BatchStays DEF IInv
<1> QED
  BY <1>10, <1>11 DEF IInv

(* The restarts are used up. *)
LEMMA GiveUpStep ==
  ASSUME IInv, NEW ev \in batch, NEW o \in BOOLEAN, HandleHangup(ev, o),
         NEW e, NEW gone, HungEntry(ev, e, gone), e = kind[ev[1]][2],
         ~(restarts[e] < MaxRestarts)
  PROVE  IInv'
<1> PICK T : T = Close(ptab, gone)
  OBVIOUS
<1> PICK K : K = Off(kind, gone)
  OBVIOUS
<1> DEFINE S == (1 .. Entries) \ {e}
<1>1. /\ e \in 1 .. Entries /\ booted = Entries /\ up /\ pipes \in Nat
      /\ ParentOk(ptab, kind, 1 .. booted) /\ MayClose(gone, e)
      /\ restarts \in [1 .. Entries -> Nat]
      /\ \A f \in Fds : kind[f] = <<"pipe", e>> => f \in gone
  BY DEF HungEntry, IInv, TypeInv, ParentInv
<1>2. Closed(gone, T, K)
  BY <1>1, ClosedFacts, Zenon
<1>3. /\ batch' \subseteq batch /\ ended' = {x \in ended : x[1] \notin gone}
      /\ restarts' = [restarts EXCEPT ![e] = MaxRestarts + 1]
      /\ ptab' = T /\ kind' = K
      /\ UNCHANGED <<hs, pipes, ws, booted, up, clients>>
  BY DEF HandleHangup, HungEntry, Off
<1>4. /\ restarts[e] \in Nat /\ restarts'[e] = MaxRestarts + 1
      /\ \A k \in S : restarts'[k] = restarts[k]
      /\ restarts' \in [1 .. Entries -> Nat]
  BY <1>1, <1>3, HandlesAssumption
<1>5. restarts[e] <= MaxRestarts
  <2>1. ~(restarts[e] > MaxRestarts)
    <3>1. restarts[e] > MaxRestarts => \A f \in Fds : kind[f] # <<"pipe", e>>
      BY <1>1 DEF ParentOk, EndsKept
    <3> QED
      BY <3>1 DEF HungEntry
  <2> QED
    BY <1>4, <2>1, HandlesAssumption
<1>6. Ages
  <2>1. \A k \in 1 .. Entries : restarts'[k] >= restarts[k]
    <3>1. restarts'[e] >= restarts[e]
      BY <1>4, <1>5, HandlesAssumption
    <3>2. \A k \in S : restarts'[k] >= restarts[k]
      BY <1>1, <1>4
    <3> QED
      BY <3>1, <3>2
  <2> QED
    BY <1>1, <1>3, <1>4, <2>1 DEF Ages
<1>7. /\ KindsAgree(T, K, S) /\ EndsKept(T, K, S)
      /\ EndsNamed(T, 1 .. Entries) /\ LastWrites(T, K, S)
  BY <1>1, CloseKeeps
<1>8. KindsAgree(T, K, 1 .. Entries)'
  <2>1. KindsAgree(T, K, 1 .. Entries)
    BY <1>7 DEF KindsAgree
  <2> QED
    BY <1>3, <2>1, KindsStay
<1>9. EndsNamed(T, 1 .. Entries)'
  BY <1>3, <1>7, NamesStay
<1>10. ASSUME NEW f \in Fds PROVE K[f] # <<"pipe", e>>
  <2>1. CASE f \in gone
    <3>1. K[f] = <<>>
      BY <1>2, <2>1 DEF Closed
    <3> QED
      BY <3>1
  <2>2. CASE f \notin gone
    <3>1. K[f] = kind[f]
      BY <1>2, <2>2 DEF Closed
    <3> QED
      BY <1>1, <2>2, <3>1
  <2> QED
    BY <2>1, <2>2
<1>11. EndsKept(T, K, 1 .. Entries)'
  <2>1. ASSUME NEW k \in S
        PROVE  /\ hs[k] \in Handles(Fds) /\ Has(T, hs[k].r1, "w")
               /\ \A l \in S : l # k => hs[l].r1 # hs[k].r1
               /\ restarts'[k] <= MaxRestarts =>
                    Has(T, hs[k].s0, "r") /\ K[hs[k].s0] \in {<<>>, <<"pipe", k>>}
               /\ restarts'[k] > MaxRestarts => \A f \in Fds : K[f] # <<"pipe", k>>
    BY <1>4, <1>7 DEF EndsKept
  <2>2. /\ hs[e] \in Handles(Fds) /\ \A l \in S : hs[l].r1 # hs[e].r1
    BY <1>1 DEF ParentOk, EndsKept
  <2>3. Has(T, hs[e].r1, "w")
    BY <1>2 DEF Closed, HungEntry, Has
  <2>4. ~(restarts'[e] <= MaxRestarts)
    BY <1>4, HandlesAssumption
  <2>5. ASSUME NEW k \in 1 .. Entries
        PROVE  /\ hs'[k] \in Handles(Fds) /\ Has(T, hs'[k].r1, "w")
               /\ \A l \in 1 .. Entries : l # k => hs'[l].r1 # hs'[k].r1
               /\ restarts'[k] <= MaxRestarts =>
                    Has(T, hs'[k].s0, "r") /\ K[hs'[k].s0] \in {<<>>, <<"pipe", k>>}
               /\ restarts'[k] > MaxRestarts => \A f \in Fds : K[f] # <<"pipe", k>>
    <3>1. CASE k = e
      BY <1>3, <1>10, <2>2, <2>3, <2>4, <3>1
    <3>2. CASE k # e
      BY <1>3, <2>1, <2>2, <3>2
    <3> QED
      BY <3>1, <3>2
  <2> QED
    BY <2>5 DEF EndsKept, Has, Free, Handles, Fds
<1>12. LastWrites(T, K, 1 .. Entries)'
  <2>1. K[hs[e].s0] # <<"pipe", e>>
    BY <1>10 DEF HungEntry
  <2>2. LastWrites(T, K, 1 .. Entries)
    BY <1>7, <2>1 DEF LastWrites
  <2> QED
    BY <1>3, <1>6, <2>2, LastStays DEF IInv
<1>13. ParentInv'
  <2>1. ParentOk(T, K, 1 .. Entries)'
    BY <1>2, <1>3, <1>8, <1>9, <1>11, <1>12 DEF ParentOk, Closed, Things, Kinds, Free, Fds
  <2> QED
    BY <1>1, <1>3, <2>1 DEF ParentInv
<1>14. TypeInv'
  BY <1>1, <1>3, <1>4 DEF IInv, TypeInv, Workers, Things, Kinds, Handles, Fds, Free
<1>15. WorkersInv'
  BY <1>3, <1>6, WorkersStay DEF IInv
<1>16. BatchInv'
  <2>1. ASSUME NEW x \in ended' PROVE ptab'[x[1]] = ptab[x[1]]
    BY <1>2, <1>3 DEF IInv, BatchInv, Closed
  <2>2. ASSUME NEW p, Holds(T, <<"w", p>>) PROVE Holds(ptab, <<"w", p>>)
    <3>1. <<"w", p>> # Free
      BY DEF Free
    <3> QED
      BY <1>2, <2>2, <3>1 DEF Closed, Holds
  <2>3. \A p \in 1 .. pipes : HasWriter(p)' => HasWriter(p)
    BY <1>1, <1>3, <2>2 DEF HasWriter, Holds
  <2>4. ended' \subseteq ended /\ pipes' \in Nat /\ pipes' >= pipes
    BY <1>1, <1>3
  <2> QED
    BY <1>3, <2>1, <2>3, <2>4, BatchStays DEF IInv
<1> QED
  BY <1>13, <1>14, <1>15, <1>16 DEF IInv

(* handle_pipe_event with EPOLLHUP. *)
LEMMA HangupStep ==
  ASSUME IInv, NEW ev \in batch, NEW o \in BOOLEAN, HandleHangup(ev, o)
  PROVE  IInv'
<1> PICK e : e = kind[ev[1]][2]
  OBVIOUS
<1> PICK gone : gone = OfEntry(e)
  OBVIOUS
<1>1. Looping /\ Is(ev[1], "pipe")
  BY DEF HandleHangup
<1>2. HungEntry(ev, e, gone)
  BY <1>1, HungEntryFacts, Zenon
<1>3. CASE restarts[e] < MaxRestarts
  BY <1>2, <1>3, RestartStep, Zenon
<1>4. CASE ~(restarts[e] < MaxRestarts)
  BY <1>2, <1>4, GiveUpStep, Zenon
<1> QED
  BY <1>3, <1>4

(* An event of a client, or of a descriptor that is unused by now. *)
LEMMA OtherStep ==
  ASSUME IInv, NEW ev \in batch, HandleOther(ev)
  PROVE  IInv'
<1> PICK G : G = IF Is(ev[1], "remote") THEN {ev[1]} ELSE {}
  OBVIOUS
<1> PICK T : T = Close(ptab, G)
  OBVIOUS
<1> PICK K : K = Off(kind, G)
  OBVIOUS
<1>1. /\ up /\ pipes \in Nat /\ ParentOk(ptab, kind, 1 .. booted)
      /\ booted \in 0 .. Entries /\ ev[1] \in Fds
  BY DEF HandleOther, Looping, IInv, TypeInv, ParentInv, BatchInv
<1>2. /\ ptab' = T /\ kind' = K /\ ended' = {x \in ended : x[1] \notin G}
      /\ batch' \subseteq batch
      /\ UNCHANGED <<hs, restarts, booted, up, ws, pipes, clients>>
  BY DEF HandleOther, Del, Off
<1>3. MayClose(G, 0)
  <2>1. Is(ev[1], "remote") => Has(ptab, ev[1], "client")
    BY <1>1 DEF Is, ParentOk, KindsAgree
  <2> QED
    BY <1>1, <2>1 DEF MayClose
<1>4. Closed(G, T, K)
  BY <1>1, ClosedFacts, Zenon
<1>5. \A f \in Fds : kind[f] # <<"pipe", 0>>
  <2> SUFFICES ASSUME NEW f \in Fds, kind[f] = <<"pipe", 0>> PROVE FALSE
    OBVIOUS
  <2>1. kind[f] \in Kinds
    BY <1>1 DEF ParentOk
  <2> QED
    BY <2>1 DEF Kinds
<1>6. (1 .. booted) \ {0} = 1 .. booted
  BY <1>1
<1>7. ParentOk(T, K, 1 .. booted)
  <2>1. /\ KindsAgree(T, K, (1 .. booted) \ {0}) /\ EndsKept(T, K, (1 .. booted) \ {0})
        /\ EndsNamed(T, 1 .. booted) /\ LastWrites(T, K, (1 .. booted) \ {0})
    BY <1>1, <1>3, <1>5, CloseKeeps
  <2>2. KindsAgree(T, K, 1 .. booted) /\ EndsKept(T, K, 1 .. booted)
        /\ LastWrites(T, K, 1 .. booted)
    BY <1>6, <2>1, Zenon
  <2> QED
    BY <1>4, <2>1, <2>2 DEF ParentOk, Closed
<1>8. ParentInv'
  <2> PICK S : S = 1 .. booted
    OBVIOUS
  <2>1. ParentOk(T, K, S)'
    BY <1>2, <1>7, ParentStays DEF IInv
  <2> QED
    BY <1>1, <1>2, <2>1 DEF ParentInv
<1>9. TypeInv'
  BY <1>2 DEF IInv, TypeInv, Workers, Things, Kinds, Handles, Fds, Free
<1>10. WorkersInv'
  <2>1. Ages
    BY <1>2 DEF Ages, IInv, TypeInv
  <2> QED
    BY <1>2, <2>1, WorkersStay DEF IInv
<1>11. BatchInv'
  <2>1. ASSUME NEW x \in ended' PROVE ptab'[x[1]] = ptab[x[1]]
    BY <1>2, <1>4 DEF IInv, BatchInv, Closed
  <2>2. ASSUME NEW p, Holds(T, <<"w", p>>) PROVE Holds(ptab, <<"w", p>>)
    <3>1. <<"w", p>> # Free
      BY DEF Free
    <3> QED
      BY <1>4, <2>2, <3>1 DEF Closed, Holds
  <2>3. \A p \in 1 .. pipes : HasWriter(p)' => HasWriter(p)
    BY <1>1, <1>2, <2>2 DEF HasWriter, Holds
  <2>4. ended' \subseteq ended /\ pipes' \in Nat /\ pipes' >= pipes
    BY <1>1, <1>2
  <2> QED
    BY <1>2, <2>1, <2>3, <2>4, BatchStays DEF IInv
<1> QED
  BY <1>8, <1>9, <1>10, <1>11 DEF IInv

(* A client is accepted. *)
LEMMA AcceptStep ==
  ASSUME IInv, NEW e \in 1 .. Entries, Accept(e)
  PROVE  IInv'
<1> PICK f : f = Lowest(ptab)
  OBVIOUS
<1> PICK x, k : x = <<"client", clients>> /\ k = <<"remote", e>>
  OBVIOUS
<1>1. /\ up /\ pipes \in Nat /\ clients \in Nat /\ ParentOk(ptab, kind, 1 .. booted)
  BY DEF Accept, Looping, IInv, TypeInv, ParentInv
<1>2. /\ ptab' = [ptab EXCEPT ![f] = x] /\ kind' = [kind EXCEPT ![f] = k]
      /\ clients' = clients + 1
      /\ UNCHANGED <<hs, restarts, booted, up, ended, batch, ws, pipes>>
  BY DEF Accept
<1>3. ptab \in [Fds -> Things(pipes)]
  BY <1>1 DEF ParentOk
<1>4. x # Free
  BY DEF Free
<1>5. f \in Fds /\ ptab[f] = Free
  <2> PICK F : F = {g \in Fds : ptab[g] = Free}
    OBVIOUS
  <2>2. Cardinality(F) >= 1
    BY DEF Accept, Room
  <2>3. F # {}
    BY <2>2, FS_EmptySet
  <2>4. PICK g \in Fds : ptab[g] = Free
    BY <2>3
  <2>5. Lowest(ptab) \in Fds /\ ptab[Lowest(ptab)] = Free
    BY <2>4, SomeFree
  <2> QED
    BY <2>5
<1>6. Socket(x, k)
  BY <1>1 DEF Socket
<1>7. ParentInv'
  <2> PICK S, T, K : S = 1 .. booted /\ T = ptab' /\ K = kind'
    OBVIOUS
  <2>1. ParentOk(T, K, S)
    <3>1. AddSocket(ptab, kind, S, f, x, k)
      BY SocketKeepsParent, Zenon
    <3> QED
      BY <1>1, <1>2, <1>5, <1>6, <3>1 DEF AddSocket
  <2>2. ParentOk(T, K, S)'
    BY <1>2, <2>1, ParentStays DEF IInv
  <2> QED
    BY <1>1, <1>2, <2>2 DEF ParentInv
<1>8. TypeInv'
  BY <1>1, <1>2 DEF IInv, TypeInv, Workers, Things, Kinds, Handles, Fds, Free
<1>9. WorkersInv'
  <2>1. Ages
    BY <1>2 DEF Ages, IInv, TypeInv
  <2> QED
    BY <1>2, <2>1, WorkersStay DEF IInv
<1>10. BatchInv'
  <2>1. ASSUME NEW y \in ended' PROVE ptab'[y[1]] = ptab[y[1]]
    BY <1>2, <1>3, <1>5 DEF IInv, BatchInv, Has
  <2>2. ASSUME NEW p, Holds(ptab', <<"w", p>>) PROVE Holds(ptab, <<"w", p>>)
    BY <1>2, <1>3, <1>5, <2>2 DEF Holds
  <2>3. \A p \in 1 .. pipes : HasWriter(p)' => HasWriter(p)
    BY <1>1, <1>2, <2>2 DEF HasWriter, Holds
  <2> QED
    BY <1>1, <1>2, <2>1, <2>3, BatchStays DEF IInv
<1> QED
  BY <1>7, <1>8, <1>9, <1>10 DEF IInv

(* Nothing but the events changes. *)
LEMMA EventsOnly ==
  ASSUME IInv, up,
         UNCHANGED <<ptab, kind, hs, restarts, booted, up, ws, pipes, clients>>
  PROVE  /\ TypeInv' /\ WorkersInv' /\ ParentInv'
         /\ \A p : HasWriter(p)' <=> HasWriter(p)
<1>1. Ages
  BY DEF Ages, IInv, TypeInv
<1>2. WorkersInv'
  BY <1>1, WorkersStay DEF IInv
<1>3. TypeInv'
  BY DEF IInv, TypeInv, Workers, Things, Kinds, Handles, Fds, Free
<1>4. ParentInv'
  <2> PICK S, T, K : S = 1 .. booted /\ T = ptab /\ K = kind
    OBVIOUS
  <2>1. ParentOk(T, K, S)'
    BY ParentStays DEF IInv, ParentInv
  <2> QED
    BY <2>1 DEF ParentInv
<1>5. \A p : HasWriter(p)' <=> HasWriter(p)
  BY DEF HasWriter, Holds, Fds
<1> QED
  BY <1>2, <1>3, <1>4, <1>5

LEMMA ClientEndsStep ==
  ASSUME IInv, NEW f \in Fds, NEW hup \in BOOLEAN, ClientEnds(f, hup)
  PROVE  IInv'
<1>1. TypeInv' /\ WorkersInv' /\ ParentInv' /\ \A p : HasWriter(p)' <=> HasWriter(p)
  BY EventsOnly DEF ClientEnds, Looping
<1>2. \A x \in ended' : x[1] \in Fds /\ Has(ptab', x[1], "client")
  BY DEF ClientEnds, IInv, BatchInv, Has
<1>3. ASSUME NEW ev \in batch', ev[3] # Free, ev[3][1] = "r"
      PROVE  ev[3][2] \in 1 .. pipes' /\ ~HasWriter(ev[3][2])'
  <2>1. PICK p : p = ev[3][2]
    OBVIOUS
  <2>2. p \in 1 .. pipes' /\ ~HasWriter(p)
    BY <1>3, <2>1 DEF ClientEnds, IInv, BatchInv
  <2>3. ~HasWriter(p)'
    BY <1>1, <2>2
  <2> QED
    BY <2>1, <2>2, <2>3
<1>4. \A ev \in batch' : ev[1] \in Fds
  BY DEF ClientEnds, IInv, BatchInv
<1>5. BatchInv'
  BY <1>2, <1>3, <1>4 DEF BatchInv, Has, Free, Fds
<1> QED
  BY <1>1, <1>5 DEF IInv

(* epoll_wait reports hang-ups of pipes that have no writer. *)
LEMMA EpollWaitStep ==
  ASSUME IInv, EpollWait
  PROVE  IInv'
<1>1. TypeInv' /\ WorkersInv' /\ ParentInv' /\ \A p : HasWriter(p)' <=> HasWriter(p)
  BY EventsOnly DEF EpollWait, Looping
<1>2. \A x \in ended' : x[1] \in Fds /\ Has(ptab', x[1], "client")
  BY DEF EpollWait, IInv, BatchInv, Has
<1>3. ASSUME NEW ev \in batch'
      PROVE  /\ ev[1] \in Fds
             /\ ev[3] # Free /\ ev[3][1] = "r" =>
                  ev[3][2] \in 1 .. pipes' /\ ~HasWriter(ev[3][2])'
  <2>1. \/ \E x \in ended : ev = <<x[1], x[2], ptab[x[1]]>>
        \/ \E f \in Fds : HungUp(f) /\ ev = <<f, TRUE, ptab[f]>>
        \/ ev \in Lingering
    BY DEF EpollWait
  <2>2. ASSUME NEW x \in ended, ev = <<x[1], x[2], ptab[x[1]]>>
        PROVE  ev[1] \in Fds /\ ev[3][1] # "r"
    BY <2>2 DEF IInv, BatchInv, Has
  <2>3. ASSUME NEW f \in Fds, HungUp(f), ev = <<f, TRUE, ptab[f]>>
        PROVE  /\ ev[1] \in Fds
               /\ ev[3] # Free /\ ev[3][1] = "r" =>
                    ev[3][2] \in 1 .. pipes' /\ ~HasWriter(ev[3][2])'
    <3>1. ev[1] = f /\ ev[3] = ptab[f]
      BY <2>3
    <3>2. ParentOk(ptab, kind, 1 .. booted) /\ pipes' = pipes
      BY DEF EpollWait, Looping, IInv, ParentInv
    <3>3. ptab[f] \in Things(pipes)
      BY <3>2 DEF ParentOk
    <3>4. PICK p : p = ptab[f][2]
      OBVIOUS
    <3>5. ~HasWriter(p)
      BY <2>3, <3>4 DEF HungUp
    <3>6. ~HasWriter(p)'
      BY <1>1, <3>5
    <3>7. ptab[f] # Free /\ ptab[f][1] = "r" => p \in 1 .. pipes
      BY <3>3, <3>4 DEF Things
    <3> QED
      BY <3>1, <3>2, <3>4, <3>6, <3>7
  <2>4. ASSUME ev \in Lingering
        PROVE  /\ ev[1] \in Fds
               /\ ev[3] # Free /\ ev[3][1] = "r" =>
                    ev[3][2] \in 1 .. pipes' /\ ~HasWriter(ev[3][2])'
    <3>1. PICK i \in DOMAIN ws, f \in Fds, hup \in BOOLEAN :
            ev = <<f, hup, ws[i].tab[f]>>
      BY <2>4 DEF Lingering, Outlives
    <3>2. ws[i].tab[f] \in Things(pipes) /\ pipes' = pipes
      <4>1. ws \in Seq(Workers(pipes)) /\ pipes' = pipes
        BY DEF EpollWait, IInv, TypeInv
      <4>2. ws[i] \in Workers(pipes)
        BY <4>1
      <4>3. ws[i].tab \in [Fds -> Things(pipes)]
        BY <4>2 DEF Workers
      <4> QED
        BY <4>1, <4>3
    <3>3. PICK p : p = ev[3][2]
      OBVIOUS
    <3>4. ev[3][1] = "r" => ~HasWriter(p)
      BY <2>4, <3>3 DEF Lingering
    <3>5. ev[3][1] = "r" => ~HasWriter(p)'
      BY <1>1, <3>4
    <3>6. ev[3] # Free /\ ev[3][1] = "r" => p \in 1 .. pipes
      BY <3>1, <3>2, <3>3 DEF Things
    <3>7. ev[1] \in Fds
      BY <3>1
    <3> QED
      BY <3>2, <3>3, <3>5, <3>6, <3>7
  <2> QED
    BY <2>1, <2>2, <2>3, <2>4
<1>4. BatchInv'
  BY <1>2, <1>3 DEF BatchInv, Has, Free, Fds
<1> QED
  BY <1>1, <1>4 DEF IInv

(* The parent dies; its workers do not notice yet. *)
LEMMA ParentDiesStep ==
  ASSUME IInv, ParentDies
  PROVE  IInv'
<1>1. Ages
  BY DEF Ages, IInv, TypeInv, ParentDies
<1>2. WorkersInv'
  BY <1>1, WorkersStay DEF IInv, ParentDies
<1>3. TypeInv'
  BY DEF IInv, TypeInv, Workers, Things, Kinds, Handles, Fds, Free, ParentDies
<1>4. ParentInv' /\ BatchInv'
  BY DEF ParentInv, BatchInv, ParentDies, NoTable, Free, Fds
<1> QED
  BY <1>2, <1>3, <1>4 DEF IInv
-----------------------------------------------------------------------------
(* Worker w goes on as v: it is dead, or it has closed what it inherited   *)
(* and still has the read end of recvq.                                    *)
GoesOn(w, v) ==
  /\ w \in Workers(pipes) /\ v \in Workers(pipes) /\ Live(w)
  /\ v.entry = w.entry /\ v.hs = w.hs /\ v.inited = w.inited
  /\ \/ v.at = "dead" /\ v.tab = NoTable
     \/ /\ w.at = "forked" /\ v.at = "run" /\ Own(w).r0 \notin Closes(w)
        /\ \A f \in Fds : f \in Closes(w) => v.tab[f] = Free
        /\ \A f \in Fds : f \notin Closes(w) => v.tab[f] = w.tab[f]

LEMMA GoesOnFacts ==
  ASSUME TypeInv, NEW w, NEW v, GoesOn(w, v), OwnEndsInv(w)
  PROVE  /\ Own(v) = Own(w) /\ (StaleNumber(v) <=> StaleNumber(w))
         /\ \A f \in Fds : v.tab[f] # Free =>
              v.tab[f] = w.tab[f] /\ Live(v) /\ w.at = "forked" /\ f \notin Closes(w)
         /\ Live(v) => /\ v.tab[Own(v).r0] = w.tab[Own(w).r0] /\ PipeOf(v) = PipeOf(w)
                       /\ PipesOf(v) = PipesOf(w) /\ OwnEndsInv(v)
         /\ Live(v) /\ v.tab[Own(v).s1] # w.tab[Own(w).s1] =>
              v.at = "run" /\ StaleNumber(v)
<1>1. Own(v) = Own(w)
  BY DEF Own, GoesOn
<1>2. StaleNumber(v) <=> StaleNumber(w)
  BY <1>1 DEF StaleNumber, GoesOn
<1>3. /\ Own(w) \in Handles(Fds) /\ Own(w).r0 \in Fds /\ Own(w).s1 \in Fds
  BY DEF OwnEndsInv, Own, Handles
<1>4. \A f \in Fds : v.tab[f] # Free =>
        v.tab[f] = w.tab[f] /\ Live(v) /\ w.at = "forked" /\ f \notin Closes(w)
  BY DEF GoesOn, NoTable, Live
<1>5. ASSUME Live(v) PROVE v.at = "run" /\ w.at = "forked" /\ Own(w).r0 \notin Closes(w)
  BY <1>5 DEF GoesOn, Live
<1>6. ASSUME Live(v)
      PROVE  /\ v.tab[Own(v).r0] = w.tab[Own(w).r0] /\ PipeOf(v) = PipeOf(w)
             /\ PipesOf(v) = PipesOf(w)
  <2>1. v.tab[Own(v).r0] = w.tab[Own(w).r0]
    BY <1>1, <1>3, <1>5, <1>6 DEF GoesOn
  <2> QED
    BY <1>1, <2>1 DEF PipeOf, PipesOf
<1>7. ASSUME Live(v)
      PROVE  \/ v.tab[Own(v).s1] = w.tab[Own(w).s1]
             \/ v.at = "run" /\ StaleNumber(v)
  <2>1. CASE Own(w).s1 \in Closes(w)
    BY <1>2, <1>5, <1>7, <2>1 DEF OwnEndsInv
  <2>2. CASE Own(w).s1 \notin Closes(w)
    BY <1>1, <1>3, <1>5, <1>7, <2>2 DEF GoesOn
  <2> QED
    BY <2>1, <2>2
<1>8. ASSUME Live(v) PROVE OwnEndsInv(v)
  <2>1. /\ v.hs[v.entry] \in Handles(Fds) /\ v.entry <= v.inited
    BY DEF OwnEndsInv, GoesOn
  <2>2. v.tab[Own(v).r0] = <<"r", PipeOf(v)>> /\ PipeOf(v) \in 2 .. pipes
    BY <1>6, <1>8 DEF OwnEndsInv
  <2>3. \/ v.tab[Own(v).s1] = <<"w", PipeOf(v) - 1>>
        \/ v.at = "run" /\ StaleNumber(v)
    BY <1>2, <1>5, <1>6, <1>7, <1>8 DEF OwnEndsInv
  <2>4. ASSUME NEW f \in Fds, v.tab[f] \in {<<"w", PipeOf(v)>>, <<"r", PipeOf(v) - 1>>}
        PROVE  FALSE
    <3>1. v.tab[f] # Free
      BY <2>4 DEF Free
    <3>2. v.tab[f] = w.tab[f] /\ f \notin Closes(w)
      BY <1>4, <3>1
    <3>3. w.tab[f] \in {<<"w", PipeOf(w)>>, <<"r", PipeOf(w) - 1>>}
      BY <1>6, <1>8, <2>4, <3>2
    <3> QED
      BY <3>2, <3>3 DEF OwnEndsInv
  <2>5. v.at # "forked"
    BY <1>5, <1>8
  <2> QED
    BY <2>1, <2>2, <2>3, <2>4, <2>5 DEF OwnEndsInv
<1> QED
  BY <1>1, <1>2, <1>4, <1>6, <1>7, <1>8

(* A step of worker i. *)
Advances(i, v) ==
  /\ i \in DOMAIN ws /\ GoesOn(ws[i], v)
  /\ ws' = [ws EXCEPT ![i] = v]
  /\ UNCHANGED <<ptab, kind, hs, restarts, booted, up, ended, batch, pipes, clients>>

LEMMA AdvanceKeepsWorkers ==
  ASSUME TypeInv, WorkersInv, NEW i, NEW v, Advances(i, v)
  PROVE  WorkersInv'
<1> PICK w : w = ws[i]
  OBVIOUS
<1>1. /\ GoesOn(w, v) /\ Live(w) /\ i \in DOMAIN ws
      /\ DOMAIN ws' = DOMAIN ws /\ ws'[i] = v
      /\ \A j \in DOMAIN ws : j # i => ws'[j] = ws[j]
  BY DEF Advances, GoesOn, TypeInv
<1>2. OwnEndsInv(w)
  BY <1>1 DEF WorkersInv, OwnInv
<1>3. /\ \A f \in Fds : v.tab[f] # Free =>
           v.tab[f] = w.tab[f] /\ Live(v) /\ w.at = "forked" /\ f \notin Closes(w)
      /\ Live(v) => PipesOf(v) = PipesOf(w) /\ OwnEndsInv(v)
  BY <1>1, <1>2, GoesOnFacts
<1>4. Ages
  BY DEF Ages, TypeInv, Advances
<1>5. OwnInv'
  <2> SUFFICES ASSUME NEW j \in DOMAIN ws, Live(ws[j])' PROVE OwnEndsInv(ws[j])'
    BY <1>1 DEF OwnInv
  <2>1. PICK u : u = ws'[j]
    OBVIOUS
  <2>2. Live(u)
    BY <2>1 DEF Live
  <2>3. OwnEndsInv(u)
    <3>1. CASE j = i
      BY <1>1, <1>3, <2>1, <2>2, <3>1
    <3>2. CASE j # i
      BY <1>1, <2>1, <2>2, <3>2 DEF WorkersInv, OwnInv
    <3> QED
      BY <3>1, <3>2
  <2>4. u.inited \in 1 .. Entries
    <3>1. ws[j] \in Workers(pipes) /\ v \in Workers(pipes)
      BY <1>1 DEF TypeInv, GoesOn
    <3>2. u \in Workers(pipes)
      BY <1>1, <2>1, <3>1
    <3> QED
      BY <3>2 DEF Workers
  <2>5. OwnEndsInv(u)'
    BY <1>4, <2>3, <2>4, OwnStays
  <2> QED
    BY <2>1, <2>5
<1>6. ASSUME NEW j \in DOMAIN ws, NEW k \in DOMAIN ws, j # k, Live(ws'[j]), Live(ws'[k])
      PROVE  Apart(ws'[j], ws'[k])
  <2>1. CASE j # i /\ k # i
    BY <1>1, <1>6, <2>1 DEF WorkersInv, ApartInv
  <2>2. CASE j = i
    <3>1. Apart(w, ws[k]) /\ ws'[k] = ws[k]
      BY <1>1, <1>6, <2>2 DEF WorkersInv, ApartInv
    <3>2. ASSUME NEW f \in Fds, IsEnd(v.tab[f]), v.tab[f][2] \in PipesOf(ws[k]) PROVE FALSE
      <4>1. v.tab[f] = w.tab[f] /\ f \notin Closes(w)
        BY <1>3, <3>2 DEF IsEnd
      <4> QED
        BY <3>1, <3>2, <4>1 DEF Apart
    <3> QED
      BY <1>1, <2>2, <3>1, <3>2 DEF Apart
  <2>3. CASE k = i
    <3>1. Apart(ws[j], w) /\ ws'[j] = ws[j] /\ Live(v)
      BY <1>1, <1>6, <2>3 DEF WorkersInv, ApartInv
    <3>2. Apart(ws[j], v)
      BY <1>3, <3>1 DEF Apart
    <3> QED
      BY <1>1, <2>3, <3>1, <3>2
  <2> QED
    BY <2>1, <2>2, <2>3
<1>7. ApartInv'
  <2> SUFFICES ASSUME NEW j \in DOMAIN ws, NEW k \in DOMAIN ws, j # k,
                      Live(ws[j])', Live(ws[k])'
               PROVE  Apart(ws[j], ws[k])'
    BY <1>1 DEF ApartInv
  <2>1. Apart(ws'[j], ws'[k])
    BY <1>6 DEF Live
  <2> QED
    BY <2>1 DEF Apart, IsEnd, PipesOf, PipeOf, Own, Closes, ChildCloses
<1>8. DeadInv'
  <2>1. v.at = "dead" => v.tab = NoTable
    BY <1>1 DEF GoesOn
  <2> QED
    BY <1>1, <2>1 DEF WorkersInv, DeadInv, NoTable, Free, Fds
<1> QED
  BY <1>5, <1>7, <1>8 DEF WorkersInv

LEMMA AdvanceKeepsParent ==
  ASSUME TypeInv, WorkersInv, NEW i, NEW v, Advances(i, v),
         NEW T, NEW K, NEW S, ParentOk(T, K, S)
  PROVE  ParentOk(T, K, S)'
<1> PICK w : w = ws[i]
  OBVIOUS
<1>1. /\ GoesOn(w, v) /\ Live(w) /\ i \in DOMAIN ws
      /\ DOMAIN ws' = DOMAIN ws /\ ws'[i] = v
      /\ \A j \in DOMAIN ws : j # i => ws'[j] = ws[j]
      /\ hs' = hs /\ restarts' = restarts /\ pipes' = pipes
  BY DEF Advances, GoesOn, TypeInv
<1>2. OwnEndsInv(w)
  BY <1>1 DEF WorkersInv, OwnInv
<1>3. /\ Own(v) = Own(w)
      /\ \A f \in Fds : v.tab[f] # Free => v.tab[f] = w.tab[f]
      /\ Live(v) => PipesOf(v) = PipesOf(w)
      /\ Live(v) /\ v.tab[Own(v).s1] # w.tab[Own(w).s1] => v.at = "run" /\ StaleNumber(v)
  BY <1>1, <1>2, GoesOnFacts
<1>4. KindsAgree(T, K, S)' /\ EndsKept(T, K, S)'
  BY <1>1, KindsStay, EndsStay DEF ParentOk
<1>5. EndsNamed(T, S)'
  <2>1. ASSUME NEW f \in Fds, IsEnd(T[f])
        PROVE  \/ \E k \in S : f \in {hs[k].r1, hs[k].s0}
               \/ \A j \in DOMAIN ws' : Live(ws'[j]) => T[f][2] \notin PipesOf(ws'[j])
    BY <1>1, <1>3, <2>1 DEF ParentOk, EndsNamed
  <2> QED
    BY <1>1, <2>1 DEF EndsNamed, IsEnd, Live, PipesOf, PipeOf, Own, Free, Fds
<1>6. LastWrites(T, K, S)'
  <2>1. \A j \in DOMAIN ws : ws'[j].entry = ws[j].entry
    BY <1>1 DEF GoesOn
  <2>2. \A j \in DOMAIN ws, e \in S : IsLast(j, e)' <=> IsLast(j, e)
    BY <1>1, <2>1 DEF IsLast
  <2>3. \A u : StaleNumber(u)' <=> StaleNumber(u)
    BY <1>1 DEF StaleNumber, Own
  <2>4. ASSUME NEW e \in S, NEW g, LastWritesTo(T, e, g)
        PROVE  LastWritesTo(T, e, g)'
    <3> PICK q : q = T[g][2]
      OBVIOUS
    <3>1. ~Holds(T, <<"w", q>>)
      BY <2>4 DEF LastWritesTo
    <3>2. ASSUME NEW j \in DOMAIN ws
          PROVE  /\ Holds(ws'[j].tab, <<"w", q>>) => IsLast(j, e)'
                 /\ Live(ws'[j]) /\ IsLast(j, e)' =>
                      \/ ws'[j].tab[Own(ws'[j]).s1] = <<"w", q>>
                      \/ ws'[j].at = "run" /\ StaleNumber(ws'[j])
      <4>1. /\ Holds(ws[j].tab, <<"w", q>>) => IsLast(j, e)
            /\ Live(ws[j]) /\ IsLast(j, e) =>
                 \/ ws[j].tab[Own(ws[j]).s1] = <<"w", q>>
                 \/ ws[j].at = "run" /\ StaleNumber(ws[j])
        BY <2>4 DEF LastWritesTo
      <4>2. CASE j # i
        BY <1>1, <2>2, <4>1, <4>2
      <4>3. CASE j = i
        <5>1. Holds(v.tab, <<"w", q>>) => Holds(w.tab, <<"w", q>>)
          <6>1. <<"w", q>> # Free
            BY DEF Free
          <6> QED
            BY <1>3, <6>1 DEF Holds
        <5>2. Live(v) => w.at # "run"
          BY <1>1 DEF GoesOn, Live
        <5> QED
          BY <1>1, <1>3, <2>2, <4>1, <4>3, <5>1, <5>2
      <4> QED
        BY <4>2, <4>3
    <3>3. ASSUME NEW j \in DOMAIN ws, StaleNumber(ws'[j]) PROVE StaleNumber(ws[j])'
      <4> PICK u : u = ws'[j]
        OBVIOUS
      <4>1. StaleNumber(u)'
        BY <2>3, <3>3
      <4> QED
        BY <4>1
    <3> QED
      BY <1>1, <3>1, <3>2, <3>3 DEF LastWritesTo, Holds, Live, Own, Fds
  <2>5. ASSUME NEW e \in S, K[hs[e].s0] = <<"pipe", e>> PROVE LastWritesTo(T, e, hs[e].s0)'
    <3> PICK g : g = hs[e].s0 /\ g = hs'[e].s0
      BY <1>1
    <3>1. LastWritesTo(T, e, g)
      BY <2>5 DEF ParentOk, LastWrites
    <3>2. LastWritesTo(T, e, g)'
      BY <2>4, <3>1
    <3> QED
      BY <3>2
  <2> QED
    BY <1>1, <2>5 DEF LastWrites
<1> QED
  BY <1>1, <1>4, <1>5, <1>6 DEF ParentOk, Things, Kinds, Free, Fds

LEMMA AdvanceStep ==
  ASSUME IInv, NEW i, NEW v, Advances(i, v)
  PROVE  IInv'
<1> PICK w : w = ws[i]
  OBVIOUS
<1>1. /\ GoesOn(w, v) /\ Live(w) /\ i \in DOMAIN ws
      /\ ws' = [ws EXCEPT ![i] = v] /\ DOMAIN ws' = DOMAIN ws /\ ws'[i] = v
      /\ \A j \in DOMAIN ws : j # i => ws'[j] = ws[j]
      /\ UNCHANGED <<ptab, kind, hs, restarts, booted, up, ended, batch, pipes, clients>>
  BY DEF Advances, GoesOn, IInv, TypeInv
<1>2. WorkersInv'
  BY AdvanceKeepsWorkers, Zenon DEF IInv
<1>3. TypeInv'
  <2>1. ws' \in Seq(Workers(pipes))
    BY <1>1 DEF IInv, TypeInv, GoesOn
  <2> QED
    BY <1>1, <2>1 DEF IInv, TypeInv, Workers, Things, Kinds, Handles, Fds, Free
<1>4. ParentInv'
  <2>1. CASE up
    <3> PICK T, K, S : T = ptab /\ K = kind /\ S = 1 .. booted
      OBVIOUS
    <3>1. ParentOk(T, K, S)
      BY <2>1 DEF IInv, ParentInv
    <3>2. ParentOk(T, K, S)'
      BY <3>1, AdvanceKeepsParent DEF IInv
    <3> QED
      BY <1>1, <2>1, <3>2 DEF ParentInv
  <2>2. CASE ~up
    BY <1>1, <2>2 DEF IInv, ParentInv, NoTable, Free, Fds
  <2> QED
    BY <2>1, <2>2
<1>5. BatchInv'
  <2>1. OwnEndsInv(w)
    BY <1>1 DEF IInv, WorkersInv, OwnInv
  <2>2. \A f \in Fds : v.tab[f] # Free => v.tab[f] = w.tab[f]
    BY <1>1, <2>1, GoesOnFacts DEF IInv
  <2>3. ASSUME NEW p, Holds(v.tab, <<"w", p>>) PROVE Holds(w.tab, <<"w", p>>)
    <3>1. <<"w", p>> # Free
      BY DEF Free
    <3> QED
      BY <2>2, <2>3, <3>1 DEF Holds
  <2>4. ASSUME NEW p, HasWriter(p)' PROVE HasWriter(p)
    <3>1. \/ up /\ Holds(ptab, <<"w", p>>)
          \/ \E j \in DOMAIN ws : Live(ws'[j]) /\ Holds(ws'[j].tab, <<"w", p>>)
      BY <1>1, <2>4 DEF HasWriter, Holds, Live, Fds
    <3>2. ASSUME NEW j \in DOMAIN ws, Live(ws'[j]), Holds(ws'[j].tab, <<"w", p>>)
          PROVE  Live(ws[j]) /\ Holds(ws[j].tab, <<"w", p>>)
      BY <1>1, <2>3, <3>2
    <3> QED
      BY <3>1, <3>2 DEF HasWriter, Live
  <2>5. pipes' \in Nat /\ pipes' >= pipes
    BY <1>1 DEF IInv, TypeInv
  <2> QED
    BY <1>1, <2>4, <2>5, BatchStays DEF IInv
<1> QED
  BY <1>2, <1>3, <1>4, <1>5 DEF IInv

LEMMA DeadGoesOn ==
  ASSUME NEW w \in Workers(pipes), Live(w)
  PROVE  GoesOn(w, Dead(w))
<1>1. NoTable \in [Fds -> Things(pipes)] /\ NoTable \in [Fds -> Kinds]
  BY DEF NoTable, Things, Kinds, Free
<1>2. /\ Dead(w) \in Workers(pipes)
      /\ Dead(w).entry = w.entry /\ Dead(w).hs = w.hs /\ Dead(w).inited = w.inited
      /\ Dead(w).at = "dead" /\ Dead(w).tab = NoTable
  BY <1>1 DEF Dead, Workers
<1> QED
  BY <1>2 DEF GoesOn

(* A worker starts, stops or crashes. *)
LEMMA WorkerStep ==
  ASSUME IInv, NEW i \in DOMAIN ws, Worker(i) \/ WorkerCrashes(i)
  PROVE  IInv'
<1> PICK w : w = ws[i]
  OBVIOUS
<1>1. w \in Workers(pipes)
  BY DEF IInv, TypeInv
<1>2. UNCHANGED <<ptab, kind, hs, restarts, booted, up, ended, batch, pipes, clients>>
  BY DEF Worker, WorkerStart, WorkerStops, WorkerCrashes
<1>3. ASSUME Live(w), ws' = [ws EXCEPT ![i] = Dead(w)] PROVE IInv'
  <2> PICK v : v = Dead(w)
    OBVIOUS
  <2>1. GoesOn(w, v)
    BY <1>1, <1>3, DeadGoesOn
  <2>2. Advances(i, v)
    BY <1>2, <1>3, <2>1 DEF Advances
  <2> QED
    BY <2>2, AdvanceStep
<1>4. CASE WorkerStops(i)
  BY <1>3, <1>4 DEF WorkerStops, Live
<1>5. CASE WorkerCrashes(i)
  BY <1>3, <1>5 DEF WorkerCrashes, Live
<1>6. CASE WorkerStart(i)
  <2> PICK tab : tab = Close(w.tab, Closes(w))
    OBVIOUS
  <2>1. /\ Live(w) /\ w.at = "forked"
        /\ ws' = [ws EXCEPT ![i] =
             IF tab[Own(w).r0] = Free THEN Dead(w)
             ELSE [w EXCEPT !.at = "run", !.tab = tab, !.knd = NoTable]]
    BY <1>6 DEF WorkerStart, Closes, Live
  <2>2. CASE tab[Own(w).r0] = Free
    BY <1>3, <2>1, <2>2
  <2>3. CASE tab[Own(w).r0] # Free
    <3> PICK v : v = [w EXCEPT !.at = "run", !.tab = tab, !.knd = NoTable]
      OBVIOUS
    <3>1. /\ \A f \in Fds : f \in Closes(w) => tab[f] = Free
          /\ \A f \in Fds : f \notin Closes(w) => tab[f] = w.tab[f]
          /\ tab \in [Fds -> Things(pipes)] /\ NoTable \in [Fds -> Kinds]
      BY <1>1 DEF Close, Workers, Things, NoTable, Kinds, Free
    <3>2. /\ v \in Workers(pipes) /\ v.at = "run" /\ v.tab = tab
          /\ v.entry = w.entry /\ v.hs = w.hs /\ v.inited = w.inited
      BY <1>1, <3>1 DEF Workers
    <3>3. Own(w).r0 \in Fds
      BY <2>1 DEF IInv, WorkersInv, OwnInv, OwnEndsInv, Own, Handles
    <3>4. GoesOn(w, v)
      BY <1>1, <2>1, <2>3, <3>1, <3>2, <3>3 DEF GoesOn
    <3>5. Advances(i, v)
      BY <1>2, <2>1, <2>3, <3>4 DEF Advances
    <3> QED
      BY <3>5, AdvanceStep
  <2> QED
    BY <2>2, <2>3
<1> QED
  BY <1>4, <1>5, <1>6 DEF Worker
-----------------------------------------------------------------------------
LEMMA InitInv == Init => IInv
<1> SUFFICES ASSUME Init PROVE IInv
  OBVIOUS
<1>1. TypeInv
  BY HandlesAssumption DEF Init, TypeInv, Handles
<1>2. ParentInv
  <2>1. 1 .. booted = {} /\ up
    BY DEF Init
  <2>2. \A f \in Fds : ptab[f] = Free /\ kind[f] = <<>>
    BY DEF Init, NoTable
  <2>3. ptab \in [Fds -> Things(pipes)] /\ kind \in [Fds -> Kinds]
    BY DEF Init, NoTable, Things, Kinds
  <2>4. KindsAgree(ptab, kind, {}) /\ EndsKept(ptab, kind, {})
        /\ EndsNamed(ptab, {}) /\ LastWrites(ptab, kind, {})
    BY <2>2 DEF KindsAgree, EndsKept, EndsNamed, LastWrites, IsEnd
  <2> QED
    BY <2>1, <2>3, <2>4 DEF ParentInv, ParentOk
<1>3. WorkersInv /\ BatchInv
  BY DEF Init, WorkersInv, OwnInv, ApartInv, DeadInv, BatchInv
<1> QED
  BY <1>1, <1>2, <1>3 DEF IInv

LEMMA NextInv == IInv /\ [Next]_vars => IInv'
<1> SUFFICES ASSUME IInv, [Next]_vars PROVE IInv'
  OBVIOUS
<1>1. ASSUME NEW o \in BOOLEAN, NEW l \in BOOLEAN, Boot(o, l) PROVE IInv'
  BY <1>1, BootStep
<1>2. CASE EpollWait
  BY <1>2, EpollWaitStep
<1>3. ASSUME NEW ev \in batch, HandleOther(ev) PROVE IInv'
  BY <1>3, OtherStep
<1>4. ASSUME NEW ev \in batch, NEW o \in BOOLEAN, HandleHangup(ev, o) PROVE IInv'
  BY <1>4, HangupStep
<1>5. CASE ParentDies
  BY <1>5, ParentDiesStep
<1>6. ASSUME NEW e \in 1 .. Entries, Accept(e) PROVE IInv'
  BY <1>6, AcceptStep
<1>7. ASSUME NEW f \in Fds, NEW hup \in BOOLEAN, ClientEnds(f, hup) PROVE IInv'
  BY <1>7, ClientEndsStep
<1>8. ASSUME NEW i \in DOMAIN ws, Worker(i) \/ WorkerCrashes(i) PROVE IInv'
  BY <1>8, WorkerStep
<1>9. CASE UNCHANGED vars
  <2>1. CASE up
    <3>1. UNCHANGED <<ptab, kind, hs, restarts, booted, up, ended, batch, ws, pipes, clients>>
      BY <1>9 DEF vars
    <3>2. TypeInv' /\ WorkersInv' /\ ParentInv' /\ \A p : HasWriter(p)' <=> HasWriter(p)
      BY <2>1, <3>1, EventsOnly
    <3>3. pipes \in Nat
      BY DEF IInv, TypeInv
    <3>4. BatchInv'
      BY <3>1, <3>2, <3>3, BatchStays DEF IInv
    <3> QED
      BY <3>2, <3>4 DEF IInv
  <2>2. CASE ~up
    <3>1. Ages
      BY <1>9 DEF Ages, IInv, TypeInv, vars
    <3>2. WorkersInv'
      BY <1>9, <3>1, WorkersStay DEF IInv, vars
    <3>3. TypeInv'
      BY <1>9 DEF IInv, TypeInv, Workers, Things, Kinds, Handles, Fds, Free, vars
    <3>4. ParentInv' /\ BatchInv'
      BY <1>9, <2>2 DEF IInv, ParentInv, BatchInv, NoTable, Free, Fds, vars
    <3> QED
      BY <3>2, <3>3, <3>4 DEF IInv
  <2> QED
    BY <2>1, <2>2
<1> QED
  BY <1>1, <1>2, <1>3, <1>4, <1>5, <1>6, <1>7, <1>8, <1>9 DEF Next, Parent

(* The inductive invariant holds throughout. *)
THEOREM HandlesInvariant == Spec => []IInv
BY InitInv, NextInv, PTL DEF Spec

LEMMA InvWired == IInv => WiredAsDocumented
<1> SUFFICES ASSUME IInv, NEW i \in DOMAIN ws, Runs(ws[i])
             PROVE  /\ Wired(ws[i])
                    /\ \A end \in OtherEnds(ws[i]) : ~Holds(ws[i].tab, end)
                    /\ \A j \in DOMAIN ws \ {i} : Runs(ws[j]) /\ Wired(ws[j]) =>
                         \A end \in OwnEnds(ws[j]) \cup OtherEnds(ws[j]) :
                           ~Holds(ws[i].tab, end)
  BY DEF WiredAsDocumented
<1>1. ASSUME NEW j \in DOMAIN ws, Runs(ws[j])
      PROVE  /\ ws[j].tab[Own(ws[j]).r0] = <<"r", PipeOf(ws[j])>>
             /\ ws[j].tab[Own(ws[j]).s1] = <<"w", PipeOf(ws[j]) - 1>>
             /\ PipeOf(ws[j]) \in 2 .. pipes /\ Live(ws[j]) /\ ws[j].at = "run"
             /\ OwnEndsInv(ws[j])
  BY <1>1 DEF IInv, WorkersInv, OwnInv, OwnEndsInv, Runs, Live
<1> PICK w : w = ws[i]
  OBVIOUS
<1> PICK p : p = PipeOf(w)
  OBVIOUS
<1>2. /\ w.tab[Own(w).r0] = <<"r", p>> /\ w.tab[Own(w).s1] = <<"w", p - 1>>
      /\ p \in 2 .. pipes /\ pipes \in Nat /\ Live(w) /\ w.at = "run" /\ OwnEndsInv(w)
  BY <1>1 DEF IInv, TypeInv
<1>3. Wired(w)
  BY <1>2 DEF Wired
<1>4. OtherEnds(w) = {<<"w", p>>, <<"r", p - 1>>}
  BY <1>2 DEF OtherEnds
<1>5. \A end \in OtherEnds(w) : ~Holds(w.tab, end)
  BY <1>2, <1>4 DEF OwnEndsInv, Holds
<1>6. ASSUME NEW j \in DOMAIN ws \ {i}, Runs(ws[j]),
             NEW end \in OwnEnds(ws[j]) \cup OtherEnds(ws[j]), Holds(w.tab, end)
      PROVE  FALSE
  <2> PICK q : q = PipeOf(ws[j])
    OBVIOUS
  <2>1. /\ ws[j].tab[Own(ws[j]).r0] = <<"r", q>> /\ ws[j].tab[Own(ws[j]).s1] = <<"w", q - 1>>
        /\ Live(ws[j])
    BY <1>1, <1>6
  <2>2. end \in {<<"r", q>>, <<"w", q - 1>>, <<"w", q>>, <<"r", q - 1>>}
    BY <1>6, <2>1 DEF OwnEnds, OtherEnds
  <2>3. IsEnd(end) /\ end[2] \in PipesOf(ws[j])
    BY <2>2 DEF IsEnd, PipesOf, Free
  <2>4. Apart(w, ws[j])
    BY <1>2, <2>1 DEF IInv, WorkersInv, ApartInv
  <2> QED
    BY <1>2, <1>6, <2>3, <2>4 DEF Apart, Holds
<1> QED
  BY <1>3, <1>5, <1>6

(* A worker that runs holds its own two ends, neither of the parent's, and *)
(* none of another worker's pipes, with any number of entries, forks and   *)
(* restarts: close_shmq_pipe and net_exit close all that fork copied.      *)
THEOREM WiredAsDocumentedThm == Spec => []WiredAsDocumented
BY HandlesInvariant, InvWired, PTL

LEMMA LatestIsLast ==
  ASSUME TypeInv, NEW e, Latest(e) # 0
  PROVE  /\ Latest(e) \in DOMAIN ws /\ IsLast(Latest(e), e)
         /\ \A j \in DOMAIN ws : IsLast(j, e) => j = Latest(e)
<1> PICK I : I = {i \in DOMAIN ws : ws[i].entry = e}
  OBVIOUS
<1>1. I # {} /\ Latest(e) = Max(I)
  BY DEF Latest
<1>2. Len(ws) \in Nat /\ DOMAIN ws = 1 .. Len(ws)
  BY DEF TypeInv
<1>3. I \in SUBSET (1 .. Len(ws))
  BY <1>2
<1>4. Max(I) \in I /\ \A y \in I : y <= Max(I)
  BY <1>1, <1>2, <1>3, MaxIsGreatest
<1>5. PICK m : m = Latest(e)
  OBVIOUS
<1>6. m \in DOMAIN ws /\ ws[m].entry = e /\ \A k \in DOMAIN ws : ws[k].entry = e => k <= m
  BY <1>1, <1>4, <1>5
<1>7. IsLast(m, e)
  BY <1>6 DEF IsLast
<1>8. \A j \in DOMAIN ws : ws[j].entry = e /\ m <= j => j = m
  BY <1>2, <1>6
<1>9. \A j \in DOMAIN ws : IsLast(j, e) => j = m
  BY <1>6, <1>8 DEF IsLast
<1> QED
  BY <1>5, <1>6, <1>7, <1>9

LEMMA InvDeathShows == IInv => DeathShows
<1> SUFFICES ASSUME IInv, NEW e \in 1 .. Entries, Looping, Latest(e) # 0,
                    ws[Latest(e)].at = "dead", kind[hs[e].s0] = <<"pipe", e>>
             PROVE  HungUp(hs[e].s0)
  BY DEF DeathShows
<1> PICK q : q = ptab[hs[e].s0][2]
  OBVIOUS
<1>1. ParentOk(ptab, kind, 1 .. booted) /\ e \in 1 .. booted
  BY DEF IInv, ParentInv, Looping
<1>2. /\ ~Holds(ptab, <<"w", q>>)
      /\ \A j \in DOMAIN ws : Holds(ws[j].tab, <<"w", q>>) => IsLast(j, e)
  BY <1>1 DEF ParentOk, LastWrites, LastWritesTo
<1>3. \A j \in DOMAIN ws : IsLast(j, e) => j = Latest(e)
  BY LatestIsLast DEF IInv
<1>4. ~HasWriter(q)
  BY <1>2, <1>3 DEF HasWriter
<1>5. Is(hs[e].s0, "pipe")
  BY DEF Is
<1> QED
  BY <1>4, <1>5 DEF HungUp

(* The death of a worker always shows as EPOLLHUP: nobody else can write   *)
(* the pipe on which the parent waits for it.                              *)
THEOREM DeathShowsThm == Spec => []DeathShows
BY HandlesInvariant, InvDeathShows, PTL

(* Only a hang-up on the pipe of an entry changes its count of restarts. *)
LEMMA RestartedByHangup ==
  ASSUME IInv, Next, NEW e \in 1 .. Entries, restarts'[e] # restarts[e]
  PROVE  \E ev \in batch, o \in BOOLEAN : HandleHangup(ev, o) /\ kind[ev[1]][2] = e
<1>1. ~(restarts' = restarts)
  OBVIOUS
<1>2. /\ ~ParentDies /\ ~EpollWait /\ (\A k \in 1 .. Entries : ~Accept(k))
      /\ \A f \in Fds, hup \in BOOLEAN : ~ClientEnds(f, hup)
  BY <1>1 DEF ParentDies, EpollWait, Accept, ClientEnds
<1>3. /\ \A o, l \in BOOLEAN : ~Boot(o, l)
      /\ \A ev \in batch : ~HandleOther(ev)
      /\ \A i \in DOMAIN ws : ~Worker(i) /\ ~WorkerCrashes(i)
  BY <1>1 DEF Boot, HandleOther, Worker, WorkerStart, WorkerStops, WorkerCrashes
<1>4. PICK ev \in batch, o \in BOOLEAN : HandleHangup(ev, o)
  BY <1>2, <1>3 DEF Next, Parent
<1>5. kind[ev[1]][2] = e
  <2> SUFFICES ASSUME kind[ev[1]][2] # e PROVE FALSE
    OBVIOUS
  <2> PICK k : k = kind[ev[1]][2]
    OBVIOUS
  <2>1. \/ restarts' = [restarts EXCEPT ![k] = @ + 1]
        \/ restarts' = [restarts EXCEPT ![k] = MaxRestarts + 1]
    BY <1>4 DEF HandleHangup
  <2>2. restarts \in [1 .. Entries -> Nat]
    BY DEF IInv, TypeInv
  <2> QED
    BY <2>1, <2>2
<1> QED
  BY <1>4, <1>5

LEMMA StepReplacesTheDead ==
  ASSUME IInv, Next, NEW e \in 1 .. Entries, NEW ev \in batch,
         restarts'[e] # restarts[e], batch' = batch \ {ev},
         ev[3] = ptab[ev[1]], Latest(e) # 0
  PROVE  ws[Latest(e)].at = "dead" \/ StaleNumber(ws[Latest(e)])
<1>1. PICK a \in batch, o \in BOOLEAN : HandleHangup(a, o) /\ kind[a[1]][2] = e
  BY RestartedByHangup
<1>2. a = ev
  <2>1. batch' = batch \ {a}
    BY <1>1 DEF HandleHangup
  <2> QED
    BY <2>1
<1>3. Looping /\ Is(ev[1], "pipe") /\ kind[ev[1]][2] = e
  BY <1>1, <1>2 DEF HandleHangup
<1> PICK gone : gone = OfEntry(e)
  OBVIOUS
<1>4. HungEntry(ev, e, gone)
  BY <1>3, HungEntryFacts, Zenon
<1>5. ParentOk(ptab, kind, 1 .. booted) /\ e \in 1 .. booted
      /\ ev[1] = hs[e].s0 /\ kind[hs[e].s0] = <<"pipe", e>> /\ ev[1] \in Fds
  BY <1>4 DEF IInv, ParentInv, HungEntry
<1> PICK q : q = ptab[hs[e].s0][2]
  OBVIOUS
<1>6. ev[3] # Free /\ ev[3][1] = "r" /\ ev[3][2] = q
  <2>1. kind[ev[1]] # <<>> /\ kind[ev[1]][1] = "pipe"
    BY <1>5
  <2>2. Has(ptab, ev[1], "r")
    BY <1>5, <2>1 DEF ParentOk, KindsAgree
  <2> QED
    BY <1>5, <2>2 DEF Has
<1>7. ~HasWriter(q)
  BY <1>6 DEF IInv, BatchInv
<1>8. PICK m : m = Latest(e) /\ m \in DOMAIN ws /\ IsLast(m, e)
  BY LatestIsLast DEF IInv
<1>9. Live(ws[m]) /\ ~StaleNumber(ws[m]) => ws[m].tab[Own(ws[m]).s1] = <<"w", q>>
  BY <1>5, <1>8 DEF ParentOk, LastWrites, LastWritesTo
<1>10. Live(ws[m]) => Own(ws[m]).s1 \in Fds
  BY <1>8 DEF IInv, WorkersInv, OwnInv, OwnEndsInv, Own, Handles
<1>11. Live(ws[m]) /\ ~StaleNumber(ws[m]) => HasWriter(q)
  BY <1>8, <1>9, <1>10 DEF HasWriter, Holds, Live
<1> QED
  BY <1>7, <1>8, <1>11 DEF Live

(* A hang-up that was reported for the pipe itself is the death of the     *)
(* worker, or of its write end: no worker that can still answer is         *)
(* replaced by restart_child_process.                                      *)
THEOREM OnlyTheDeadAreReplacedThm == Spec => OnlyTheDeadAreReplaced
<1>1. IInv /\ [Next]_vars =>
        [\A e \in 1 .. Entries, ev \in batch :
           /\ restarts'[e] # restarts[e] /\ batch' = batch \ {ev}
           /\ ev[3] = ptab[ev[1]] /\ Latest(e) # 0
           => ws[Latest(e)].at = "dead" \/ StaleNumber(ws[Latest(e)])]_vars
  BY StepReplacesTheDead
<1> QED
  BY <1>1, HandlesInvariant, PTL DEF Spec, OnlyTheDeadAreReplaced

(* The safety half of OrphansNotice: once the parent is dead and every     *)
(* worker has started, no write end is left of a pipe that a worker reads, *)
(* so that each finds its hang-up (WorkerStops is enabled).  Also a worker *)
(* with a stale number does.                                               *)
OrphansAreHungUp ==
  ~up /\ (\A j \in DOMAIN ws : ws[j].at # "forked") =>
    \A i \in DOMAIN ws : ws[i].at = "run" => ~HasWriter(ws[i].tab[Own(ws[i]).r0][2])

(* Workers that share no write end cannot keep each other from noticing    *)
(* that the parent is gone (net.c:640).                                    *)
THEOREM OrphansAreHungUpThm == Spec => []OrphansAreHungUp
<1>1. IInv => OrphansAreHungUp
  <2> SUFFICES ASSUME IInv, ~up, \A j \in DOMAIN ws : ws[j].at # "forked",
                      NEW i \in DOMAIN ws, ws[i].at = "run", NEW q, q = PipeOf(ws[i]),
                      NEW j \in DOMAIN ws, Live(ws[j]), NEW f \in Fds,
                      ws[j].tab[f] = <<"w", q>>
               PROVE  FALSE
    BY DEF OrphansAreHungUp, HasWriter, Holds, Live, PipeOf
  <2>1. Live(ws[i])
    BY DEF Live
  <2>2. CASE i = j
    BY <2>1, <2>2 DEF IInv, WorkersInv, OwnInv, OwnEndsInv
  <2>3. CASE i # j
    <3>1. Apart(ws[j], ws[i])
      BY <2>1, <2>3 DEF IInv, WorkersInv, ApartInv
    <3>2. IsEnd(<<"w", q>>) /\ <<"w", q>>[2] \in PipesOf(ws[i])
      BY DEF IsEnd, PipesOf, Free
    <3> QED
      BY <3>1, <3>2 DEF Apart
  <2> QED
    BY <2>2, <2>3
<1> QED
  BY <1>1, HandlesInvariant, PTL
=============================================================================
