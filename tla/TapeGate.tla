------------------------------ MODULE TapeGate ------------------------------
(***************************************************************************)
(* Who may use the tape device in the daemon: internal/iface/web           *)
(* tapegate.go, taskregistry.go, handler_tasks.go, handler_status.go,      *)
(* tapechanger.go and server.go.                                           *)
(*                                                                         *)
(* Short operations (tape info, format, eject), the status probe, the      *)
(* background task and the change of settings are goroutines that share    *)
(* two mutexes, the flag taskHeld and the registry of tasks.  Every        *)
(* critical section is one step; what a goroutine does between two of them *)
(* is a step of its own.                                                   *)
(***************************************************************************)
CONSTANTS
  Ops,       \* handlers of short operations (withOp)
  Probes,    \* handlers of GET /api/status (probe)
  Tasks,     \* requests to start a background task, and the task they start
  Setters,   \* handlers of POST /api/settings
  Devices,   \* device paths
  Nobody     \* nobody holds the mutex

Shorts == Ops \cup Probes
Users  == Shorts \cup Tasks

ASSUME GateAssumption ==
  /\ Ops \cap Probes = {} /\ Shorts \cap Tasks = {} /\ Users \cap Setters = {}
  /\ Nobody \notin Users

VARIABLES
  taskHeld,   \* tapeGate.taskHeld
  shortMu,    \* tapeGate.shortMu: who has it locked
  opened,     \* who has a descriptor of the device
  pc,         \* where each goroutine is
  state,      \* Task.state in the registry
  reply,      \* Task.continueCh holds the operator's answer
  device,     \* Server.device
  stopping    \* Server.ctx is cancelled

vars == << taskHeld, shortMu, opened, pc, state, reply, device, stopping >>

gate == << taskHeld, shortMu >>
surroundings == << device, stopping >>

ShortPCs == { "idle", "lock", "recheck", "open", "inside", "unlock" }

TaskPCs == { "idle", "register", "wait", "open", "working", "ask", "await", "reopen",
             "close", "unlock", "clear" }

TaskStates == { "absent", "running", "awaiting", "success", "error" }

TypeOK ==
  /\ taskHeld \in BOOLEAN
  /\ shortMu \in Users \cup {Nobody}
  /\ opened \subseteq Users
  /\ pc \in [Users \cup Setters -> ShortPCs \cup TaskPCs \cup {"set"}]
  /\ \A u \in Shorts : pc[u] \in ShortPCs
  /\ \A t \in Tasks : pc[t] \in TaskPCs
  /\ state \in [Tasks -> TaskStates]
  /\ reply \in [Tasks -> BOOLEAN]
  /\ device \in Devices
  /\ stopping \in BOOLEAN

Init ==
  /\ taskHeld = FALSE /\ shortMu = Nobody /\ opened = {}
  /\ pc = [u \in Users \cup Setters |-> "idle"]
  /\ state = [t \in Tasks |-> "absent"]
  /\ reply = [t \in Tasks |-> FALSE]
  /\ device \in Devices
  /\ stopping = FALSE

Go(u, from, to) == pc[u] = from /\ pc' = [pc EXCEPT ![u] = to]

-----------------------------------------------------------------------------
(* Short operations and the probe. *)

\* The first look at taskHeld; a request that finds it set is answered at once
\* (409, or "available" for the probe) and leaves no trace.
Check(u) ==
  /\ ~taskHeld /\ Go(u, "idle", "lock")
  /\ UNCHANGED << gate, opened, state, reply, surroundings >>

\* withOp waits for the mutex.
OpLock(o) ==
  /\ Go(o, "lock", "recheck")
  /\ shortMu = Nobody /\ shortMu' = o
  /\ UNCHANGED << taskHeld, opened, state, reply, surroundings >>

\* Seeded bug: the probe does not care who has the mutex.
ProbeIgnoresMutex(p) ==
  /\ Go(p, "lock", "recheck") /\ shortMu' = p
  /\ UNCHANGED << taskHeld, opened, state, reply, surroundings >>

\* probe does not: a locked mutex means that somebody has the device open.
ProbeTryLock(p) ==
  /\ \/ shortMu = Nobody /\ shortMu' = p /\ Go(p, "lock", "recheck")
     \/ shortMu # Nobody /\ UNCHANGED shortMu /\ Go(p, "lock", "idle")
  /\ UNCHANGED << taskHeld, opened, state, reply, surroundings >>

\* The second look, under the mutex.
Recheck(u) ==
  /\ Go(u, "recheck", IF taskHeld THEN "unlock" ELSE "open")
  /\ UNCHANGED << gate, opened, state, reply, surroundings >>

OpenShort(u) ==
  /\ \/ Go(u, "open", "inside") /\ opened' = opened \cup {u}
     \/ Go(u, "open", "unlock") /\ UNCHANGED opened
  /\ UNCHANGED << gate, state, reply, surroundings >>

CloseShort(u) ==
  /\ Go(u, "inside", "unlock") /\ opened' = opened \ {u}
  /\ UNCHANGED << gate, state, reply, surroundings >>

UnlockShort(u) ==
  /\ Go(u, "unlock", "idle") /\ shortMu' = Nobody
  /\ UNCHANGED << taskHeld, opened, state, reply, surroundings >>

-----------------------------------------------------------------------------
(* The background task: startTapeTask and the goroutine it launches. *)

Active(t) == state[t] \in {"running", "awaiting"}

HasActive == \E t \in Tasks : Active(t)

\* Seeded bug: reserveTask does not look at the flag.
ReserveUnchecked(t) ==
  /\ Go(t, "idle", "register") /\ taskHeld' = TRUE
  /\ UNCHANGED << shortMu, opened, state, reply, surroundings >>

\* reserveTask; the request is refused (409) while another task has the gate.
Reserve(t) ==
  /\ ~taskHeld /\ Go(t, "idle", "register") /\ taskHeld' = TRUE
  /\ UNCHANGED << shortMu, opened, state, reply, surroundings >>

\* StartIfIdle; a refusal of the registry takes the reservation back.
Register(t) ==
  /\ IF HasActive
       THEN Go(t, "register", "idle") /\ taskHeld' = FALSE /\ UNCHANGED state
       ELSE /\ Go(t, "register", "wait") /\ UNCHANGED taskHeld
            /\ state' = [state EXCEPT ![t] = "running"]
  /\ UNCHANGED << shortMu, opened, reply, surroundings >>

\* Seeded bug: the task does not wait for the short operation under way.
WaitForNobody(t) ==
  /\ Go(t, "wait", "open")
  /\ UNCHANGED << gate, opened, state, reply, surroundings >>

\* waitShortOps
WaitShortOps(t) ==
  /\ Go(t, "wait", "open") /\ shortMu = Nobody /\ shortMu' = t
  /\ UNCHANGED << taskHeld, opened, state, reply, surroundings >>

OpenTape(t) ==
  /\ Go(t, "open", "working") /\ opened' = opened \cup {t}
  /\ UNCHANGED << gate, state, reply, surroundings >>

\* Seeded bug: the device is free for others while the operator is asked.
EjectTapeAndUnlock(t) ==
  /\ t \in opened /\ ~stopping
  /\ Go(t, "working", "ask") /\ opened' = opened \ {t} /\ shortMu' = Nobody
  /\ UNCHANGED << taskHeld, state, reply, surroundings >>

\* CloseTape of the changer; a cancelled context fails it.
EjectTape(t) ==
  /\ t \in opened /\ ~stopping
  /\ Go(t, "working", "ask") /\ opened' = opened \ {t}
  /\ UNCHANGED << gate, state, reply, surroundings >>

\* RequestNext: enterAwaiting
EnterAwaiting(t) ==
  /\ state[t] = "running" /\ Go(t, "ask", "await")
  /\ state' = [state EXCEPT ![t] = "awaiting"]
  /\ reply' = [reply EXCEPT ![t] = FALSE]
  /\ UNCHANGED << gate, opened, surroundings >>

\* POST /api/tasks/{id}/continue: the operator's answer, also after the wait was
\* cancelled and before the task has ended: then it drowns in the channel.
Continue(t) ==
  /\ state[t] = "awaiting"
  /\ state' = [state EXCEPT ![t] = "running"]
  /\ reply' = [reply EXCEPT ![t] = TRUE]
  /\ UNCHANGED << gate, opened, pc, surroundings >>

\* Seeded bug: the wait for the operator does not see the cancelled context.
ResumeOnReplyOnly(t) ==
  /\ reply[t] /\ Go(t, "await", "reopen")
  /\ UNCHANGED << gate, opened, state, reply, surroundings >>

\* RequestNext takes the answer, or sees the cancelled context.
Resume(t) ==
  /\ \/ reply[t] /\ Go(t, "await", "reopen")
     \/ stopping /\ Go(t, "await", "working")
  /\ UNCHANGED << gate, opened, state, reply, surroundings >>

\* RequestNext opens the device again; a step of the task that fails in the
\* cancelled context behind it is Finish.
ReopenTape(t) ==
  /\ Go(t, "reopen", "working") /\ opened' = opened \cup {t}
  /\ UNCHANGED << gate, state, reply, surroundings >>

\* finishSuccess or finishError: the task's own result, an open or a change of
\* cassette that failed, the cancelled wait.
Finish(t) ==
  /\ \E from \in {"open", "working", "reopen"} : Go(t, from, "close")
  /\ Active(t)
  /\ \E end \in {"success", "error"} :
       /\ end = "success" => t \in opened
       /\ state' = [state EXCEPT ![t] = end]
  /\ UNCHANGED << gate, opened, reply, surroundings >>

\* daemonChanger.finish
CloseTape(t) ==
  /\ Go(t, "close", "unlock") /\ opened' = opened \ {t}
  /\ UNCHANGED << gate, state, reply, surroundings >>

\* Seeded bug: the mutex stays locked behind the task.
UnlockNothing(t) ==
  /\ Go(t, "unlock", "clear")
  /\ UNCHANGED << gate, opened, state, reply, surroundings >>

\* releaseTask, its first half ...
UnlockTask(t) ==
  /\ Go(t, "unlock", "clear") /\ shortMu' = Nobody
  /\ UNCHANGED << taskHeld, opened, state, reply, surroundings >>

\* Seeded bug: the flag stays set behind the task.
ClearNothing(t) ==
  /\ Go(t, "clear", "idle")
  /\ UNCHANGED << gate, opened, state, reply, surroundings >>

\* ... and its second.
ClearTaskHeld(t) ==
  /\ Go(t, "clear", "idle") /\ taskHeld' = FALSE
  /\ UNCHANGED << shortMu, opened, state, reply, surroundings >>

-----------------------------------------------------------------------------
(* Settings and shutdown. *)

\* handleSettingsPost looks for active tasks ...
CheckIdle(s) ==
  /\ ~HasActive /\ Go(s, "idle", "set")
  /\ UNCHANGED << gate, opened, state, reply, surroundings >>

\* ... and changes the device.
SetDevice(s) ==
  /\ Go(s, "set", "idle") /\ device' \in Devices
  /\ UNCHANGED << gate, opened, state, reply, stopping >>

\* Server.Run cancels the context of the tasks.  Handlers that the shutdown of
\* HTTP did not wait for (5 s) go on.
Stop ==
  /\ ~stopping /\ stopping' = TRUE
  /\ UNCHANGED << gate, opened, pc, state, reply, device >>

-----------------------------------------------------------------------------
(* The specification. *)

ShortStep(u) == Recheck(u) \/ OpenShort(u) \/ CloseShort(u) \/ UnlockShort(u)

\* What the goroutine of a task does without waiting for anybody.
TaskStep(t) ==
  \/ Register(t) \/ OpenTape(t) \/ EjectTape(t) \/ EnterAwaiting(t) \/ Resume(t)
  \/ ReopenTape(t) \/ Finish(t) \/ CloseTape(t) \/ UnlockTask(t) \/ ClearTaskHeld(t)

Next ==
  \/ \E u \in Shorts : Check(u) \/ ShortStep(u)
  \/ \E o \in Ops : OpLock(o)
  \/ \E p \in Probes : ProbeTryLock(p)
  \/ \E t \in Tasks : Reserve(t) \/ WaitShortOps(t) \/ TaskStep(t) \/ Continue(t)
  \/ \E s \in Setters : CheckIdle(s) \/ SetDevice(s)
  \/ Stop

Spec == Init /\ [][Next]_vars

\* Goroutines run, and sync.Mutex starves nobody.  Nobody has to send a request,
\* to answer a waiting task or to stop the daemon.
Fairness ==
  /\ \A u \in Shorts : WF_vars(ShortStep(u))
  /\ \A o \in Ops : SF_vars(OpLock(o))
  /\ \A p \in Probes : WF_vars(ProbeTryLock(p))
  /\ \A t \in Tasks : WF_vars(TaskStep(t)) /\ SF_vars(WaitShortOps(t))

FairSpec == Spec /\ Fairness

-----------------------------------------------------------------------------
(* Properties. *)

\* The device never has two descriptors, and passes from one user to the next
\* only through a close (tapegate.go:17-21, server.go:251-257).
Owner == IF opened = {} THEN Nobody ELSE CHOOSE u \in opened : TRUE

DRIVE == INSTANCE Drive WITH owner <- Owner

OneDescriptor == \A u, v \in opened : u = v

UsesDriveProperly == DRIVE!Spec

\* A request that got the gate is never refused by the registry: when taskHeld is
\* clear no task is active any more, so unreserveTask never takes the
\* reservation of a living task away (handler_tasks.go:176-190).
GateAndRegistryAgree ==
  /\ \A t \in Tasks : Active(t) => taskHeld
  /\ \A t \in Tasks : pc[t] = "register" => taskHeld /\ ~HasActive

\* The start of a task never lets a short operation open the device any more once
\* the task has it, nor the other way round: whoever uses the device has the
\* mutex until it is closed, and the task keeps the flag while it waits for the
\* operator with the device closed (tapegate.go:84-123).
TaskKeepsDrive ==
  \A t \in Tasks :
    pc[t] \in {"working", "ask", "await", "reopen", "close"} =>
      taskHeld /\ shortMu = t /\ opened \subseteq {t}

\* A task with the gate gives it back, or it waits for the operator.
GateIsGivenBack == taskHeld ~> ~taskHeld \/ \E t \in Tasks : pc[t] = "await"

\* When the daemon stops every task ends, also one that waits for a cassette and
\* one that the operator answers at that moment (tapechanger.go:82-88).
StopEndsTasks == \A t \in Tasks : stopping /\ Active(t) ~> ~Active(t)

\* Every request of a short operation is answered, or a task waits for the
\* operator.
ShortOpsEnd ==
  \A o \in Ops : pc[o] # "idle" ~> pc[o] = "idle" \/ \E t \in Tasks : pc[t] = "await"

-----------------------------------------------------------------------------
(* What the docs say and the code does not do: refuted by a run. *)

\* The device is not changed while a task is active (handler_status.go:83-84,
\* docs/func/EN/features.md, "Device").
DeviceFixedDuringTask == [][HasActive => device' = device]_vars
=============================================================================
