-------------------------- MODULE PipeNotifyProofs --------------------------
(***************************************************************************)
(* No wake-up of a worker is lost, for every size of the queue, of the     *)
(* pipe and of the reads that drain it.                                    *)
(***************************************************************************)
EXTENDS PipeNotify, TLAPS

(* Writing the byte leaves the pipe non-empty, also when it was full.      *)
LEMMA OneMoreType ==
  ASSUME NEW bytes \in 0 .. PipeCap
  PROVE  OneMore(bytes) \in 0 .. PipeCap /\ OneMore(bytes) > 0
BY BoundAssumption DEF OneMore

(* A read takes no more than there is.                                     *)
LEMMA AfterReadType ==
  ASSUME NEW bytes \in 0 .. PipeCap
  PROVE  AfterRead(bytes) \in 0 .. PipeCap
BY BoundAssumption DEF AfterRead

(* The steps of the two loops keep every variable in its type: the write   *)
(* of a byte to a full pipe fails, and a push with no room is refused.     *)
LEMMA TypeStep == TypeOK /\ [Next]_vars => TypeOK'
<1> SUFFICES ASSUME TypeOK, [Next]_vars PROVE TypeOK'
  OBVIOUS
<1> USE BoundAssumption
<1>1. CASE ParentWake
  BY <1>1 DEF ParentWake, TypeOK, cvars
<1>2. CASE ParentPop
  BY <1>2 DEF ParentPop, TypeOK, cvars
<1>3. CASE ParentDrain
  BY <1>3, AfterReadType DEF ParentDrain, TypeOK, cvars
<1>4. CASE ParentRecv
  <2>1. pcl' \in BOOLEAN
    BY <1>4, Zenon DEF ParentRecv
  <2>2. recvq' \in 0 .. QueueCap /\ ppc' \in {"close", "notify"}
    BY <1>4 DEF ParentRecv, TypeOK
  <2> QED
    BY <1>4, <2>1, <2>2 DEF ParentRecv, TypeOK, cvars
<1>5. CASE ParentClose
  BY <1>5 DEF ParentClose, TypeOK, cvars
<1>6. CASE ParentNotify
  BY <1>6, OneMoreType DEF ParentNotify, TypeOK, cvars
<1>7. CASE ParentLoop
  BY <1>7 DEF ParentLoop, TypeOK, cvars
<1>8. CASE ChildWake
  BY <1>8 DEF ChildWake, TypeOK, pvars
<1>9. CASE ChildDrain
  <2>1. rpipe' \in 0 .. PipeCap /\ cpc' \in {"events", "recv"}
    BY <1>9, AfterReadType DEF ChildDrain, TypeOK
  <2>2. cev' \in BOOLEAN
    <3>1. (rpipe >= TrashSize) \in BOOLEAN
      OBVIOUS
    <3>2. cev' = (rpipe >= TrashSize) \/ cev' = cev
      BY <1>9, Zenon DEF ChildDrain
    <3> QED
      BY <3>1, <3>2, Zenon DEF TypeOK
  <2> QED
    BY <1>9, <2>1, <2>2 DEF ChildDrain, TypeOK, pvars
<1>10. CASE ChildPop
  BY <1>10 DEF ChildPop, TypeOK, pvars
<1>11. CASE ChildReply
  BY <1>11 DEF ChildReply, TypeOK, pvars
<1>12. CASE ChildNotify
  BY <1>12, OneMoreType DEF ChildNotify, TypeOK, pvars
<1>13. CASE UNCHANGED vars
  BY <1>13 DEF TypeOK, vars, pvars, cvars
<1> QED
  BY <1>1, <1>2, <1>3, <1>4, <1>5, <1>6, <1>7, <1>8, <1>9, <1>10, <1>11,
     <1>12, <1>13 DEF Next, Parent, Child

(* The wake-up condition survives every step.  Three kinds of step matter: *)
(* the parent pushes (and is then about to notify), the parent notifies    *)
(* (and leaves a byte), the worker goes to sleep (and only with its queue  *)
(* empty).  It drains the pipe only while it is awake.                     *)
LEMMA WokenStep == TypeOK /\ WorkerIsWoken /\ [Next]_vars => WorkerIsWoken'
<1> SUFFICES ASSUME TypeOK, WorkerIsWoken, [Next]_vars PROVE WorkerIsWoken'
  OBVIOUS
<1>1. CASE ParentWake
  BY <1>1 DEF ParentWake, WorkerIsWoken, cvars
<1>2. CASE ParentPop
  BY <1>2 DEF ParentPop, WorkerIsWoken, cvars
<1>3. CASE ParentDrain
  BY <1>3 DEF ParentDrain, WorkerIsWoken, cvars
<1>4. CASE ParentRecv
  BY <1>4 DEF ParentRecv, WorkerIsWoken, cvars
<1>5. CASE ParentClose
  BY <1>5 DEF ParentClose, WorkerIsWoken, cvars
<1>6. CASE ParentNotify
  BY <1>6, OneMoreType DEF ParentNotify, WorkerIsWoken, TypeOK, cvars
<1>7. CASE ParentLoop
  BY <1>7 DEF ParentLoop, WorkerIsWoken, cvars
<1>8. CASE ChildWake
  BY <1>8 DEF ChildWake, WorkerIsWoken, pvars
<1>9. CASE ChildDrain
  BY <1>9 DEF ChildDrain, WorkerIsWoken, pvars
<1>10. CASE ChildPop
  BY <1>10 DEF ChildPop, WorkerIsWoken, TypeOK, pvars
<1>11. CASE ChildReply
  BY <1>11 DEF ChildReply, WorkerIsWoken, pvars
<1>12. CASE ChildNotify
  BY <1>12 DEF ChildNotify, WorkerIsWoken, pvars
<1>13. CASE UNCHANGED vars
  BY <1>13 DEF WorkerIsWoken, vars, pvars, cvars
<1> QED
  BY <1>1, <1>2, <1>3, <1>4, <1>5, <1>6, <1>7, <1>8, <1>9, <1>10, <1>11,
     <1>12, <1>13 DEF Next, Parent, Child

(* No pipe and no queue of net_loop ever holds more than it has room for.  *)
THEOREM PipesTypeCorrect == Spec => []TypeOK
<1>1. Init => TypeOK
  <2> SUFFICES ASSUME Init PROVE TypeOK
    OBVIOUS
  <2>1. pev \in BOOLEAN /\ pcl \in BOOLEAN /\ cev \in BOOLEAN
    BY Zenon DEF Init
  <2> QED
    BY <2>1, BoundAssumption DEF Init, TypeOK
<1> QED
  BY <1>1, TypeStep, PTL DEF Spec

(* A worker never sleeps in epoll_wait with a block in its queue and no    *)
(* byte in its pipe, unless the byte is about to be written (shmq.c:184):  *)
(* net_loop loses no wake-up of a worker, however small the pipe.          *)
THEOREM NoLostWakeup == Spec => []WorkerIsWoken
<1>1. Init => WorkerIsWoken
  BY DEF Init, WorkerIsWoken
<1> QED
  BY <1>1, PipesTypeCorrect, WokenStep, PTL DEF Spec
=============================================================================
