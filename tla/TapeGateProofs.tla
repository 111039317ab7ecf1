--------------------------- MODULE TapeGateProofs ---------------------------
(***************************************************************************)
(* Theorems about the gate of the tape device, for every set of handlers,  *)
(* tasks and devices.                                                      *)
(***************************************************************************)
EXTENDS TapeGate, TLAPS

-----------------------------------------------------------------------------
(* Type correctness. *)

LEMMA TypeInit == ASSUME Init PROVE TypeOK
BY GateAssumption DEF Init, TypeOK, Users, Shorts, ShortPCs, TaskPCs, TaskStates

LEMMA TypeStep == ASSUME TypeOK, [Next]_vars PROVE TypeOK'
<1> USE GateAssumption
    DEF Go, gate, surroundings, TypeOK, Users, Shorts, ShortPCs, TaskPCs, TaskStates
<1>1. ASSUME NEW u \in Shorts, Check(u) PROVE TypeOK'
  BY <1>1 DEF Check
<1>2. ASSUME NEW u \in Shorts, Recheck(u) PROVE TypeOK'
  BY <1>2 DEF Recheck
<1>3. ASSUME NEW u \in Shorts, OpenShort(u) PROVE TypeOK'
  BY <1>3 DEF OpenShort
<1>4. ASSUME NEW u \in Shorts, CloseShort(u) PROVE TypeOK'
  BY <1>4 DEF CloseShort
<1>5. ASSUME NEW u \in Shorts, UnlockShort(u) PROVE TypeOK'
  BY <1>5 DEF UnlockShort
<1>6. ASSUME NEW o \in Ops, OpLock(o) PROVE TypeOK'
  BY <1>6 DEF OpLock
<1>7. ASSUME NEW p \in Probes, ProbeTryLock(p) PROVE TypeOK'
  BY <1>7 DEF ProbeTryLock
<1>8. ASSUME NEW t \in Tasks, Reserve(t) PROVE TypeOK'
  BY <1>8 DEF Reserve
<1>9. ASSUME NEW t \in Tasks, WaitShortOps(t) PROVE TypeOK'
  BY <1>9 DEF WaitShortOps
<1>10. ASSUME NEW t \in Tasks, Register(t) PROVE TypeOK'
  <2>1. state' \in [Tasks -> TaskStates]
    BY <1>10 DEF Register
  <2>2. taskHeld' \in BOOLEAN
    BY <1>10 DEF Register
  <2>3. Go(t, "register", "idle") \/ Go(t, "register", "wait")
    BY <1>10 DEF Register
  <2> QED
    BY <2>1, <2>2, <2>3, <1>10 DEF Register
<1>11. ASSUME NEW t \in Tasks, OpenTape(t) PROVE TypeOK'
  BY <1>11 DEF OpenTape
<1>12. ASSUME NEW t \in Tasks, EjectTape(t) PROVE TypeOK'
  BY <1>12 DEF EjectTape
<1>13. ASSUME NEW t \in Tasks, EnterAwaiting(t) PROVE TypeOK'
  BY <1>13 DEF EnterAwaiting
<1>14. ASSUME NEW t \in Tasks, Resume(t) PROVE TypeOK'
  BY <1>14 DEF Resume
<1>15. ASSUME NEW t \in Tasks, ReopenTape(t) PROVE TypeOK'
  BY <1>15 DEF ReopenTape
<1>16. ASSUME NEW t \in Tasks, Finish(t) PROVE TypeOK'
  BY <1>16 DEF Finish
<1>17. ASSUME NEW t \in Tasks, CloseTape(t) PROVE TypeOK'
  BY <1>17 DEF CloseTape
<1>18. ASSUME NEW t \in Tasks, UnlockTask(t) PROVE TypeOK'
  BY <1>18 DEF UnlockTask
<1>19. ASSUME NEW t \in Tasks, ClearTaskHeld(t) PROVE TypeOK'
  BY <1>19 DEF ClearTaskHeld
<1>20. ASSUME NEW t \in Tasks, Continue(t) PROVE TypeOK'
  BY <1>20 DEF Continue
<1>21. ASSUME NEW s \in Setters, CheckIdle(s) PROVE TypeOK'
  BY <1>21 DEF CheckIdle
<1>22. ASSUME NEW s \in Setters, SetDevice(s) PROVE TypeOK'
  BY <1>22 DEF SetDevice
<1>23. CASE Stop
  BY <1>23 DEF Stop
<1>24. CASE UNCHANGED vars
  BY <1>24 DEF vars
<1> QED
  BY <1>1, <1>2, <1>3, <1>4, <1>5, <1>6, <1>7, <1>8, <1>9, <1>10, <1>11, <1>12,
     <1>13, <1>14, <1>15, <1>16, <1>17, <1>18, <1>19, <1>20, <1>21, <1>22, <1>23, <1>24
  DEF Next, ShortStep, TaskStep

\* Every variable keeps its type.
THEOREM TypeCorrect == Spec => []TypeOK
<1>1. Init => TypeOK
  BY TypeInit
<1>2. TypeOK /\ [Next]_vars => TypeOK'
  BY TypeStep
<1> QED
  BY <1>1, <1>2, PTL DEF Spec

-----------------------------------------------------------------------------
(* The invariant: who is where has what. *)

\* The shorts and the tasks that have shortMu locked.
ShortHolds(u) == pc[u] \in {"recheck", "open", "inside", "unlock"}

TaskLocks(t) ==
  pc[t] \in {"open", "working", "ask", "await", "reopen", "close", "unlock"}

\* shortMu tells who is between lock and unlock ...
MutexHeld ==
  /\ \A u \in Shorts : ShortHolds(u) => shortMu = u
  /\ \A t \in Tasks : TaskLocks(t) => shortMu = t

\* ... and a descriptor is open only there.
OpenedInside ==
  \A u \in opened : \/ u \in Shorts /\ pc[u] = "inside"
                    \/ u \in Tasks /\ pc[u] \in {"working", "close"}

\* One request at most is past reserveTask, and taskHeld is set for it.
OneTaskAtWork ==
  \A t \in Tasks : pc[t] # "idle" =>
    taskHeld /\ \A k \in Tasks : pc[k] # "idle" => k = t

\* The registry calls a task active only while its goroutine has the gate.
ActiveAtWork ==
  \A t \in Tasks :
    Active(t) => pc[t] \in {"wait", "open", "working", "ask", "await", "reopen"}

GInv == MutexHeld /\ OpenedInside /\ OneTaskAtWork /\ ActiveAtWork

LEMMA GInvInit == ASSUME Init PROVE GInv
BY GateAssumption
DEF Init, GInv, MutexHeld, OpenedInside, OneTaskAtWork, ActiveAtWork, ShortHolds,
    TaskLocks, Active, Users, Shorts

LEMMA GInvStep == ASSUME TypeOK, GInv, [Next]_vars PROVE GInv'
<1> USE GateAssumption
    DEF Go, gate, surroundings, TypeOK, GInv, MutexHeld, OpenedInside, OneTaskAtWork,
        ActiveAtWork, ShortHolds, TaskLocks, Active, HasActive, Users, Shorts
<1>1. ASSUME NEW u \in Shorts, Check(u) PROVE GInv'
  BY <1>1 DEF Check
<1>2. ASSUME NEW u \in Shorts, Recheck(u) PROVE GInv'
  BY <1>2 DEF Recheck
<1>3. ASSUME NEW u \in Shorts, OpenShort(u) PROVE GInv'
  BY <1>3 DEF OpenShort
<1>4. ASSUME NEW u \in Shorts, CloseShort(u) PROVE GInv'
  BY <1>4 DEF CloseShort
<1>5. ASSUME NEW u \in Shorts, UnlockShort(u) PROVE GInv'
  BY <1>5 DEF UnlockShort
<1>6. ASSUME NEW o \in Ops, OpLock(o) PROVE GInv'
  BY <1>6 DEF OpLock
<1>7. ASSUME NEW p \in Probes, ProbeTryLock(p) PROVE GInv'
  BY <1>7 DEF ProbeTryLock
<1>8. ASSUME NEW t \in Tasks, Reserve(t) PROVE GInv'
  BY <1>8 DEF Reserve
<1>9. ASSUME NEW t \in Tasks, WaitShortOps(t) PROVE GInv'
  BY <1>9 DEF WaitShortOps
<1>10. ASSUME NEW t \in Tasks, Register(t) PROVE GInv'
  BY <1>10 DEF Register
<1>11. ASSUME NEW t \in Tasks, OpenTape(t) PROVE GInv'
  BY <1>11 DEF OpenTape
<1>12. ASSUME NEW t \in Tasks, EjectTape(t) PROVE GInv'
  BY <1>12 DEF EjectTape
<1>13. ASSUME NEW t \in Tasks, EnterAwaiting(t) PROVE GInv'
  BY <1>13 DEF EnterAwaiting
<1>14. ASSUME NEW t \in Tasks, Resume(t) PROVE GInv'
  BY <1>14 DEF Resume
<1>15. ASSUME NEW t \in Tasks, ReopenTape(t) PROVE GInv'
  BY <1>15 DEF ReopenTape
<1>16. ASSUME NEW t \in Tasks, Finish(t) PROVE GInv'
  BY <1>16 DEF Finish
<1>17. ASSUME NEW t \in Tasks, CloseTape(t) PROVE GInv'
  BY <1>17 DEF CloseTape
<1>18. ASSUME NEW t \in Tasks, UnlockTask(t) PROVE GInv'
  BY <1>18 DEF UnlockTask
<1>19. ASSUME NEW t \in Tasks, ClearTaskHeld(t) PROVE GInv'
  BY <1>19 DEF ClearTaskHeld
<1>20. ASSUME NEW t \in Tasks, Continue(t) PROVE GInv'
  BY <1>20 DEF Continue
<1>21. ASSUME NEW s \in Setters, CheckIdle(s) PROVE GInv'
  BY <1>21 DEF CheckIdle
<1>22. ASSUME NEW s \in Setters, SetDevice(s) PROVE GInv'
  BY <1>22 DEF SetDevice
<1>23. CASE Stop
  BY <1>23 DEF Stop
<1>24. CASE UNCHANGED vars
  BY <1>24 DEF vars
<1> QED
  BY <1>1, <1>2, <1>3, <1>4, <1>5, <1>6, <1>7, <1>8, <1>9, <1>10, <1>11, <1>12,
     <1>13, <1>14, <1>15, <1>16, <1>17, <1>18, <1>19, <1>20, <1>21, <1>22, <1>23, <1>24
  DEF Next, ShortStep, TaskStep

LEMMA GInvInvariant == Spec => [](TypeOK /\ GInv)
<1>1. Init => TypeOK /\ GInv
  BY TypeInit, GInvInit
<1>2. TypeOK /\ GInv /\ [Next]_vars => (TypeOK /\ GInv)'
  BY TypeStep, GInvStep
<1> QED
  BY <1>1, <1>2, PTL DEF Spec

-----------------------------------------------------------------------------
(* What follows from it. *)

LEMMA OnlyOne == ASSUME GInv PROVE OneDescriptor
BY GateAssumption
DEF GInv, MutexHeld, OpenedInside, ShortHolds, TaskLocks, OneDescriptor, Shorts, Users

\* However many handlers and tasks there are and however they interleave, the
\* device never has two open descriptors.
THEOREM DeviceOpenedOnce == Spec => []OneDescriptor
<1>1. TypeOK /\ GInv => OneDescriptor
  BY OnlyOne
<1> QED
  BY <1>1, GInvInvariant, PTL

\* A task keeps the flag and the mutex from its first open to its last close,
\* the time it waits for the operator included.
THEOREM TaskOwnsDevice == Spec => []TaskKeepsDrive
<1>1. TypeOK /\ GInv => TaskKeepsDrive
  BY GateAssumption
  DEF GInv, MutexHeld, OpenedInside, OneTaskAtWork, ShortHolds, TaskLocks, TaskKeepsDrive,
      Shorts, Users
<1> QED
  BY <1>1, GInvInvariant, PTL

\* The gate and the registry of tasks, each with a lock of its own, never
\* disagree about whether a task is active.
THEOREM RegistryFollowsGate == Spec => []GateAndRegistryAgree
<1>1. TypeOK /\ GInv => GateAndRegistryAgree
  BY DEF GInv, OneTaskAtWork, ActiveAtWork, GateAndRegistryAgree, HasActive
<1> QED
  BY <1>1, GInvInvariant, PTL

-----------------------------------------------------------------------------
(* The device as the st driver sees it. *)

\* Whoever is about to open the device finds it closed, and whoever closes it
\* is alone.
LEMMA AloneWithMutex ==
  ASSUME GInv, NEW u \in Users, shortMu = u
  PROVE  opened \subseteq {u}
BY GateAssumption DEF GInv, MutexHeld, OpenedInside, ShortHolds, TaskLocks, Shorts, Users

\* What a step may do to the descriptors.
OpenOrClose ==
  \/ opened' = opened
  \/ opened = {} /\ \E u \in Users : opened' = {u}
  \/ opened' = {} /\ \E u \in Users : opened = {u}

LEMMA OpensAlone ==
  ASSUME GInv, NEW u \in Users, shortMu = u, u \notin opened, opened' = opened \cup {u}
  PROVE  OpenOrClose
<1>1. opened = {}
  BY AloneWithMutex
<1> QED
  BY <1>1 DEF OpenOrClose

LEMMA ClosesAlone ==
  ASSUME GInv, NEW u \in Users, shortMu = u, opened' = opened \ {u}
  PROVE  OpenOrClose
<1>1. opened = {} \/ opened = {u}
  BY AloneWithMutex
<1> QED
  BY <1>1 DEF OpenOrClose

LEMMA DescriptorStep == ASSUME TypeOK, GInv, [Next]_vars PROVE OpenOrClose
<1>1. ASSUME NEW u \in Shorts, OpenShort(u) PROVE OpenOrClose
  <2>1. u \in Users /\ shortMu = u /\ u \notin opened
    BY <1>1, GateAssumption
    DEF OpenShort, Go, GInv, MutexHeld, OpenedInside, ShortHolds, Users, Shorts
  <2> QED
    BY <1>1, <2>1, OpensAlone DEF OpenShort, OpenOrClose
<1>2. ASSUME NEW u \in Shorts, CloseShort(u) PROVE OpenOrClose
  <2>1. u \in Users /\ shortMu = u
    BY <1>2 DEF CloseShort, Go, GInv, MutexHeld, ShortHolds, Users
  <2> QED
    BY <1>2, <2>1, ClosesAlone DEF CloseShort
<1>3. ASSUME NEW t \in Tasks, OpenTape(t) \/ ReopenTape(t) PROVE OpenOrClose
  <2>1. t \in Users /\ shortMu = t /\ t \notin opened
    BY <1>3, GateAssumption
    DEF OpenTape, ReopenTape, Go, GInv, MutexHeld, OpenedInside, TaskLocks, Users, Shorts
  <2> QED
    BY <1>3, <2>1, OpensAlone DEF OpenTape, ReopenTape
<1>4. ASSUME NEW t \in Tasks, EjectTape(t) \/ CloseTape(t) PROVE OpenOrClose
  <2>1. t \in Users /\ shortMu = t
    BY <1>4 DEF EjectTape, CloseTape, Go, GInv, MutexHeld, TaskLocks, Users
  <2> QED
    BY <1>4, <2>1, ClosesAlone DEF EjectTape, CloseTape
<1>5. ASSUME NEW u \in Shorts, Check(u) \/ Recheck(u) \/ UnlockShort(u)
      PROVE  opened' = opened
  BY <1>5 DEF Check, Recheck, UnlockShort
<1>6. ASSUME NEW o \in Ops, OpLock(o) PROVE opened' = opened
  BY <1>6 DEF OpLock
<1>7. ASSUME NEW p \in Probes, ProbeTryLock(p) PROVE opened' = opened
  BY <1>7 DEF ProbeTryLock
<1>8. ASSUME NEW t \in Tasks,
             \/ Reserve(t) \/ WaitShortOps(t) \/ Register(t) \/ EnterAwaiting(t)
             \/ Resume(t) \/ Finish(t) \/ UnlockTask(t) \/ ClearTaskHeld(t) \/ Continue(t)
      PROVE  opened' = opened
  BY <1>8
  DEF Reserve, WaitShortOps, Register, EnterAwaiting, Resume, Finish, UnlockTask,
      ClearTaskHeld, Continue
<1>9. ASSUME NEW s \in Setters, CheckIdle(s) \/ SetDevice(s) PROVE opened' = opened
  BY <1>9 DEF CheckIdle, SetDevice
<1>10. CASE Stop
  BY <1>10 DEF Stop, OpenOrClose
<1>11. CASE UNCHANGED vars
  BY <1>11 DEF vars, OpenOrClose
<1> QED
  BY <1>1, <1>2, <1>3, <1>4, <1>5, <1>6, <1>7, <1>8, <1>9, <1>10, <1>11
  DEF Next, ShortStep, TaskStep, OpenOrClose

LEMMA OwnerStep == ASSUME OpenOrClose PROVE [DRIVE!Next]_Owner
<1>1. CASE opened' = opened
  BY <1>1 DEF Owner
<1>2. CASE opened = {} /\ \E u \in Users : opened' = {u}
  <2>1. PICK u \in Users : opened' = {u}
    BY <1>2
  <2>2. Owner = Nobody /\ Owner' = u
    BY <1>2, <2>1 DEF Owner
  <2> QED
    BY <2>2 DEF DRIVE!Next, DRIVE!Open
<1>3. CASE opened' = {} /\ \E u \in Users : opened = {u}
  <2>1. PICK u \in Users : opened = {u}
    BY <1>3
  <2>2. Owner = u /\ Owner' = Nobody
    BY <1>3, <2>1 DEF Owner
  <2> QED
    BY <2>2 DEF DRIVE!Next, DRIVE!Close
<1> QED
  BY <1>1, <1>2, <1>3 DEF OpenOrClose

\* The gate implements what the st driver asks: between two users of the device
\* there is a close.
THEOREM GateImplementsDrive == Spec => UsesDriveProperly
<1>1. Init => DRIVE!Init
  BY DEF Init, DRIVE!Init, Owner
<1>2. TypeOK /\ GInv /\ [Next]_vars => [DRIVE!Next]_Owner
  BY DescriptorStep, OwnerStep
<1> QED
  BY <1>1, <1>2, GInvInvariant, PTL DEF Spec, UsesDriveProperly, DRIVE!Spec
=============================================================================
