---------------------------- MODULE DaemonProofs -----------------------------
(***************************************************************************)
(* Theorems about the daemon: for any number of clients, addresses and     *)
(* tasks, any window and any bounds.                                       *)
(***************************************************************************)
EXTENDS Daemon, FiniteSetTheorems, TLAPS

-----------------------------------------------------------------------------
(* Type correctness. *)

LEMMA TypeInit == ASSUME Init PROVE TypeOK
<1>1. NoRequest \in Requests
  BY DaemonAssumption DEF NoRequest, Requests, Kinds, ClientPCs
<1>2. NoTask \in TaskRecords
  BY DaemonAssumption DEF NoTask, NoPayload, TaskRecords, TaskStates, TaskPCs, Payloads
<1> QED
  BY <1>1, <1>2, DaemonAssumption DEF Init, TypeOK

\* The requests the handlers make of a request.
LEMMA RequestWith ==
  ASSUME NEW r \in Requests
  PROVE  /\ \A pc \in ClientPCs : [r EXCEPT !.at = pc] \in Requests
         /\ \A pc \in ClientPCs, kind \in Kinds, n \in Nat :
              [r EXCEPT !.at = pc, !.kind = kind, !.sent = n] \in Requests
         /\ \A pc \in ClientPCs, k \in 0..MaxTime : [r EXCEPT !.at = pc, !.clock = k] \in Requests
         /\ \A pc \in ClientPCs, m \in 0..MaxTokens :
              [r EXCEPT !.at = pc, !.retried = TRUE, !.token = m] \in Requests
         /\ \A pc \in ClientPCs, t \in Tasks : [r EXCEPT !.at = pc, !.task = t] \in Requests
         /\ \A m \in 0..MaxTokens, n \in Nat : [r EXCEPT !.token = m, !.sent = n] \in Requests
BY DEF Requests

\* The records the registry makes of a task's record.
LEMMA TaskWith ==
  ASSUME NEW r \in TaskRecords
  PROVE  /\ \A pc \in TaskPCs : [r EXCEPT !.at = pc] \in TaskRecords
         /\ \A s \in TaskStates : [r EXCEPT !.state = s] \in TaskRecords
         /\ \A k \in 0..3 : [r EXCEPT !.post = k] \in TaskRecords
         /\ \A pc \in TaskPCs, k \in 0..3 : [r EXCEPT !.at = pc, !.post = k] \in TaskRecords
         /\ \A pc \in TaskPCs, o \in {"none", "success", "error"} :
              [r EXCEPT !.at = pc, !.outcome = o] \in TaskRecords
         /\ \A pc \in TaskPCs, b \in BOOLEAN : [r EXCEPT !.at = pc, !.result = b] \in TaskRecords
         /\ \A pc \in TaskPCs, a, d \in Clients \cup {None} :
              [r EXCEPT !.at = pc, !.resumed = a, !.answer = d] \in TaskRecords
         /\ \A s \in TaskStates, b \in BOOLEAN, a \in Clients \cup {None} :
              [r EXCEPT !.state = s, !.open = b, !.answer = a] \in TaskRecords
         /\ \A pc \in TaskPCs, s \in TaskStates, n \in Nat, b \in BOOLEAN,
               a, d \in Clients \cup {None} :
              [r EXCEPT !.at = pc, !.state = s, !.waits = n, !.open = b, !.answer = a,
                        !.resumed = d] \in TaskRecords
         /\ \A pc \in TaskPCs, s \in TaskStates, k \in 0..3, b \in BOOLEAN,
               o \in {"none", "success", "error"}, p \in Payloads :
              [r EXCEPT !.state = s, !.open = b, !.at = pc, !.post = k, !.outcome = o,
                        !.snapshot = p] \in TaskRecords
<1>1. ASSUME NEW pc \in TaskPCs, NEW s \in TaskStates, NEW n \in Nat, NEW b \in BOOLEAN,
             NEW a \in Clients \cup {None}, NEW d \in Clients \cup {None}
      PROVE  [r EXCEPT !.at = pc, !.state = s, !.waits = n, !.open = b, !.answer = a,
                       !.resumed = d] \in TaskRecords
  BY DEF TaskRecords
<1>2. ASSUME NEW pc \in TaskPCs, NEW s \in TaskStates, NEW k \in 0..3, NEW b \in BOOLEAN,
             NEW o \in {"none", "success", "error"}, NEW p \in Payloads
      PROVE  [r EXCEPT !.state = s, !.open = b, !.at = pc, !.post = k, !.outcome = o,
                       !.snapshot = p] \in TaskRecords
  BY DEF TaskRecords
<1>3. /\ \A pc \in TaskPCs : [r EXCEPT !.at = pc] \in TaskRecords
      /\ \A s \in TaskStates : [r EXCEPT !.state = s] \in TaskRecords
      /\ \A k \in 0..3 : [r EXCEPT !.post = k] \in TaskRecords
      /\ \A pc \in TaskPCs, k \in 0..3 : [r EXCEPT !.at = pc, !.post = k] \in TaskRecords
  BY DEF TaskRecords
<1>4. /\ \A pc \in TaskPCs, o \in {"none", "success", "error"} :
           [r EXCEPT !.at = pc, !.outcome = o] \in TaskRecords
      /\ \A pc \in TaskPCs, b \in BOOLEAN : [r EXCEPT !.at = pc, !.result = b] \in TaskRecords
      /\ \A pc \in TaskPCs, a, d \in Clients \cup {None} :
           [r EXCEPT !.at = pc, !.resumed = a, !.answer = d] \in TaskRecords
      /\ \A s \in TaskStates, b \in BOOLEAN, a \in Clients \cup {None} :
           [r EXCEPT !.state = s, !.open = b, !.answer = a] \in TaskRecords
  BY DEF TaskRecords
<1> QED
  BY <1>1, <1>2, <1>3, <1>4

LEMMA RequestFields ==
  ASSUME TypeOK, NEW c \in Clients
  PROVE  /\ client[c] \in Requests /\ client[c].sent \in Nat /\ client[c].token \in 0..MaxTokens
         /\ client[c].clock \in 0..MaxTime /\ client[c].task \in Tasks \cup {None}
         /\ client[c].at \in ClientPCs /\ Address[c] \in IPs
BY DaemonAssumption DEF TypeOK, Requests

LEMMA TaskFields ==
  ASSUME TypeOK, NEW t \in Tasks
  PROVE  /\ task[t] \in TaskRecords /\ task[t].state \in TaskStates /\ task[t].at \in TaskPCs
         /\ task[t].outcome \in {"none", "success", "error"} /\ task[t].result \in BOOLEAN
         /\ task[t].waits \in Nat /\ task[t].open \in BOOLEAN /\ task[t].post \in 0..3
         /\ task[t].answer \in Clients \cup {None} /\ task[t].resumed \in Clients \cup {None}
         /\ task[t].snapshot \in Payloads
BY DEF TypeOK, TaskRecords

\* A client whose request is over.
LEMMA AnsweredType ==
  ASSUME TypeOK, NEW c \in Clients
  PROVE  /\ [NoRequest EXCEPT !.token = client[c].token, !.sent = client[c].sent] \in Requests
         /\ Answered(c) => client' \in [Clients -> Requests]
<1>1. NoRequest \in Requests
  BY DaemonAssumption DEF NoRequest, Requests, Kinds, ClientPCs
<1>2. [NoRequest EXCEPT !.token = client[c].token, !.sent = client[c].sent] \in Requests
  BY <1>1, RequestFields, RequestWith
<1> QED
  BY <1>2 DEF TypeOK, Answered

LEMMA GoesToType ==
  ASSUME TypeOK, NEW c \in Clients, NEW pc \in ClientPCs, GoesTo(c, pc)
  PROVE  client' \in [Clients -> Requests]
<1>1. [client[c] EXCEPT !.at = pc] \in Requests
  BY RequestFields, RequestWith
<1> QED
  BY <1>1 DEF TypeOK, GoesTo

\* How a task ends.
LEMMA EndsAsType ==
  ASSUME TypeOK, NEW t \in Tasks, NEW s \in {"success", "error"}, NEW pc \in TaskPCs
  PROVE  EndsAs(t, s, pc) \in [Tasks -> TaskRecords]
<1> DEFINE o == IF task[t].outcome = "none" THEN s ELSE task[t].outcome
           p == [state |-> s, result |-> task[t].result]
<1>1. /\ s \in TaskStates /\ o \in {"none", "success", "error"} /\ p \in Payloads
      /\ 1 \in 0..3 /\ FALSE \in BOOLEAN /\ task[t] \in TaskRecords
  BY TaskFields DEF TaskStates, Payloads
<1> HIDE DEF o, p
<1>2. /\ [task[t] EXCEPT !.state = s, !.open = FALSE, !.at = pc, !.post = 1, !.outcome = o,
                         !.snapshot = p] \in TaskRecords
      /\ [task[t] EXCEPT !.at = pc] \in TaskRecords
  BY <1>1, TaskWith
<1>3. CASE Active(t)
  BY <1>2, <1>3 DEF TypeOK, EndsAs, o, p
<1>4. CASE ~Active(t)
  BY <1>2, <1>4 DEF TypeOK, EndsAs
<1> QED
  BY <1>3, <1>4

\* A step of one client that leaves everything but its request alone.
LEMMA OnlyClientType ==
  ASSUME TypeOK, client' \in [Clients -> Requests],
         UNCHANGED <<now, auth, registry, daemon, granted, received>>
  PROVE  TypeOK'
BY DEF TypeOK, auth, registry

\* A step of one goroutine that leaves everything but its task alone.
LEMMA OnlyTaskType ==
  ASSUME TypeOK, task' \in [Tasks -> TaskRecords], OnlyTask
  PROVE  TypeOK'
BY DEF TypeOK, OnlyTask, auth

LEMMA ClientTypeStep ==
  ASSUME TypeOK, NEW c \in Clients,
         \/ \E kind \in Kinds : Send(c, kind)
         \/ Authenticate(c) \/ Denied(c) \/ Login(c) \/ Handler(c),
         wg' \in Nat
  PROVE  TypeOK'
<1> USE DEF auth, registry
<1>1. ASSUME NEW kind \in Kinds, Send(c, kind) PROVE TypeOK'
  <2> DEFINE n == client[c].sent + 1
  <2>1. n \in Nat /\ "auth" \in ClientPCs /\ client[c] \in Requests
    BY RequestFields DEF ClientPCs
  <2>2. client' = [client EXCEPT ![c] = [@ EXCEPT !.at = "auth", !.kind = kind, !.sent = n]]
    BY <1>1 DEF Send
  <2> HIDE DEF n
  <2>3. client' \in [Clients -> Requests]
    BY <2>1, <2>2, RequestWith DEF TypeOK
  <2> QED
    BY <1>1, <2>3, OnlyClientType DEF Send
<1>2. CASE Authenticate(c)
  <2>1. client' \in [Clients -> Requests]
    BY <1>2, GoesToType DEF Authenticate, ClientPCs
  <2>2. sessions' \subseteq sessions
    BY <1>2 DEF Authenticate
  <2> QED
    BY <1>2, <2>1, <2>2 DEF Authenticate, TypeOK
<1>3. CASE Denied(c)
  <2>1. client' \in [Clients -> Requests]
    BY <1>3, AnsweredType, GoesToType DEF Denied, ClientPCs
  <2> QED
    BY <1>3, <2>1, OnlyClientType DEF Denied
<1>4. CASE SendLogin(c)
  <2>1. now \in 0..MaxTime /\ "creds" \in ClientPCs /\ client[c] \in Requests
    BY RequestFields DEF TypeOK, ClientPCs
  <2>2. client' \in [Clients -> Requests]
    BY <1>4, <2>1, RequestWith DEF SendLogin, TypeOK
  <2> QED
    BY <1>4, <2>2, OnlyClientType DEF SendLogin
<1>5. CASE SendAgain(c)
  <2>1. client' \in [Clients -> Requests]
    BY <1>5, GoesToType DEF SendAgain, ClientPCs
  <2> QED
    BY <1>5, <2>1, OnlyClientType DEF SendAgain
<1>6. CASE Unanswered(c) \/ LoginLimited(c) \/ StartRefused(c) \/ ContinueRefused(c) \/ Query(c)
  <2>1. client' \in [Clients -> Requests]
    BY <1>6, AnsweredType DEF Unanswered, LoginLimited, StartRefused, ContinueRefused, Query
  <2> QED
    BY <1>6, <2>1, OnlyClientType
    DEF Unanswered, LoginLimited, StartRefused, ContinueRefused, Query
<1>7. CASE LoginWrong(c)
  <2>1. client' \in [Clients -> Requests]
    BY <1>7, AnsweredType DEF LoginWrong
  <2>2. Address[c] \in IPs /\ client[c].clock \in 0..MaxTime
    BY RequestFields
  <2>3. Counting(c) \in Nat /\ Counting(c) + 1 \in 0..MaxAttempts
    BY <1>7, <2>2, DaemonAssumption DEF LoginWrong, TooManyAttempts, Counting, TypeOK
  <2>4. attempts' \in [IPs -> [count : 0..MaxAttempts, since : 0..MaxTime]]
    BY <1>7, <2>2, <2>3 DEF LoginWrong, CountAttempt, TypeOK
  <2>5. guesses' \in [IPs -> [count : Nat, first : 0..MaxTime]]
    BY <1>7, <2>2 DEF LoginWrong, TypeOK
  <2> QED
    BY <1>7, <2>1, <2>4, <2>5 DEF LoginWrong, TypeOK
<1>8. CASE LoginRight(c)
  <2>1. /\ attempts' \in [IPs -> [count : 0..MaxAttempts, since : 0..MaxTime]]
        /\ guesses' \in [IPs -> [count : Nat, first : 0..MaxTime]]
    BY <1>8, DaemonAssumption DEF LoginRight, TypeOK
  <2>2. client[c].clock \in 0..MaxTime /\ client[c] \in Requests
    BY RequestFields
  <2> DEFINE kept == {s \in sessions : Alive(s, client[c].clock)}
  <2>3. /\ minted' \in 0..MaxTokens
        /\ \A s \in sessions' : s \in [token : 1..MaxTokens, until : Nat]
    <3>1. CASE Cardinality(kept) >= MaxSessions
      BY <1>8, <3>1 DEF LoginRight, TypeOK
    <3>2. CASE ~(Cardinality(kept) >= MaxSessions)
      <4>1. minted < MaxTokens /\ minted' = minted + 1
        BY <1>8, <3>2 DEF LoginRight
      <4>2. sessions' = kept \cup {[token |-> minted', until |-> client[c].clock + TTL]}
        BY <1>8, <3>2 DEF LoginRight
      <4> QED
        BY <4>1, <4>2, <2>2, DaemonAssumption DEF TypeOK
    <3> QED
      BY <3>1, <3>2
  <2>4. client' \in [Clients -> Requests]
    <3>1. CASE Answered(c)
      BY <3>1, AnsweredType
    <3>2. CASE client' = [client EXCEPT ![c].at = "repeat", ![c].retried = TRUE,
                                        ![c].token = minted']
      BY <3>2, <2>2, <2>3, RequestWith DEF TypeOK, ClientPCs
    <3> QED
      BY <1>8, <3>1, <3>2 DEF LoginRight
  <2> QED
    BY <1>8, <2>1, <2>3, <2>4 DEF LoginRight, TypeOK
<1>9. CASE StartIfIdle(c)
  <2>1. PICK t \in Tasks :
          /\ task' = [task EXCEPT ![t].state = "running"]
          /\ client' = [client EXCEPT ![c].at = "launch", ![c].task = t]
    BY <1>9 DEF StartIfIdle
  <2>2. client' \in [Clients -> Requests]
    BY <2>1, RequestFields, RequestWith DEF TypeOK, ClientPCs
  <2>3. task' \in [Tasks -> TaskRecords]
    BY <2>1, TaskFields, TaskWith, ZenonT(60) DEF TypeOK, TaskStates
  <2> QED
    BY <1>9, <2>2, <2>3 DEF StartIfIdle, TypeOK
<1>10. CASE Launch(c)
  <2>1. client' \in [Clients -> Requests]
    BY <1>10, AnsweredType DEF Launch
  <2>2. task' \in [Tasks -> TaskRecords]
    <3>1. CASE client[c].task \in Tasks
      <4>1. [task[client[c].task] EXCEPT !.at = "work"] \in TaskRecords
        BY <3>1, TaskFields, TaskWith, ZenonT(60) DEF TaskPCs
      <4> QED
        BY <1>10, <4>1 DEF Launch, TypeOK
    <3>2. CASE client[c].task \notin Tasks
      BY <1>10, <3>2 DEF Launch, TypeOK
    <3> QED
      BY <3>1, <3>2
  <2> QED
    BY <1>10, <2>1, <2>2 DEF Launch, TypeOK
<1>11. ASSUME NEW t \in Tasks, Continue(c, t) PROVE TypeOK'
  <2>1. client' \in [Clients -> Requests]
    BY <1>11, AnsweredType DEF Continue
  <2>2. /\ task[t] \in TaskRecords /\ "running" \in TaskStates
        /\ FALSE \in BOOLEAN /\ c \in Clients \cup {None}
    BY TaskFields DEF TaskStates
  <2>3. [task[t] EXCEPT !.state = "running", !.open = FALSE, !.answer = c] \in TaskRecords
    BY <2>2, TaskWith
  <2>4. task' \in [Tasks -> TaskRecords]
    BY <1>11, <2>3 DEF Continue, TypeOK
  <2>5. [task |-> t, wait |-> task[t].waits, by |-> c] \in Answers
    BY TaskFields DEF Answers
  <2> QED
    BY <1>11, <2>1, <2>4, <2>5 DEF Continue, TypeOK
<1>12. CASE Logout(c)
  <2>1. client' \in [Clients -> Requests]
    BY <1>12, AnsweredType DEF Logout
  <2> QED
    BY <1>12, <2>1 DEF Logout, TypeOK
<1> QED
  BY <1>1, <1>2, <1>3, <1>4, <1>5, <1>6, <1>7, <1>8, <1>9, <1>10, <1>11, <1>12 DEF Login, Handler

LEMMA GoroutineTypeStep ==
  ASSUME TypeOK, NEW t \in Tasks, Goroutine(t), wg' \in Nat
  PROVE  TypeOK'
<1>1. CASE EnterAwaiting(t)
  <2> DEFINE n == task[t].waits + 1
  <2>1. /\ task[t] \in TaskRecords /\ n \in Nat /\ "wait" \in TaskPCs
        /\ "awaiting" \in TaskStates /\ TRUE \in BOOLEAN /\ None \in Clients \cup {None}
    BY TaskFields DEF TaskStates, TaskPCs
  <2>2. task' = [task EXCEPT ![t] = [@ EXCEPT !.at = "wait", !.state = "awaiting", !.waits = n,
                                              !.open = TRUE, !.answer = None, !.resumed = None]]
    BY <1>1 DEF EnterAwaiting
  <2> HIDE DEF n
  <2>3. [task[t] EXCEPT !.at = "wait", !.state = "awaiting", !.waits = n,
                        !.open = TRUE, !.answer = None, !.resumed = None] \in TaskRecords
    BY <2>1, TaskWith
  <2>4. task' \in [Tasks -> TaskRecords]
    BY <2>2, <2>3 DEF TypeOK
  <2> QED
    BY <1>1, <2>4, OnlyTaskType DEF EnterAwaiting
<1>2. CASE Resume(t)
  <2>1. /\ task[t] \in TaskRecords /\ task[t].answer \in Clients \cup {None}
        /\ "work" \in TaskPCs /\ None \in Clients \cup {None}
    BY TaskFields DEF TaskPCs
  <2>2. [task[t] EXCEPT !.at = "work", !.resumed = task[t].answer, !.answer = None]
          \in TaskRecords
    BY <2>1, TaskWith
  <2>3. task' \in [Tasks -> TaskRecords]
    BY <1>2, <2>2 DEF Resume, TypeOK
  <2> QED
    BY <1>2, <2>3, OnlyTaskType DEF Resume
<1>3. CASE UseCaseDone(t)
  <2>1. [task[t] EXCEPT !.at = "result", !.outcome = "success"] \in TaskRecords
    BY TaskFields, TaskWith DEF TaskPCs
  <2>2. task' \in [Tasks -> TaskRecords]
    BY <1>3, <2>1 DEF UseCaseDone, TypeOK
  <2> QED
    BY <1>3, <2>2, OnlyTaskType DEF UseCaseDone
<1>4. CASE SetResult(t)
  <2>1. [task[t] EXCEPT !.at = "finish", !.result = TRUE] \in TaskRecords
    BY TaskFields, TaskWith DEF TaskPCs
  <2>2. task' \in [Tasks -> TaskRecords]
    BY <1>4, <2>1 DEF SetResult, TypeOK
  <2> QED
    BY <1>4, <2>2, OnlyTaskType DEF SetResult
<1>5. CASE FinishSuccess(t) \/ FinishError(t) \/ FinishAgain(t)
  <2>1. task' \in [Tasks -> TaskRecords]
    BY <1>5, EndsAsType DEF FinishSuccess, FinishError, FinishAgain, TaskPCs
  <2> QED
    BY <1>5, <2>1, OnlyTaskType DEF FinishSuccess, FinishError, FinishAgain
<1>6. CASE Leave(t)
  <2>1. [task[t] EXCEPT !.at = "gone"] \in TaskRecords
    BY TaskFields, TaskWith DEF TaskPCs
  <2>2. task' \in [Tasks -> TaskRecords]
    BY <1>6, <2>1 DEF Leave, TypeOK
  <2> QED
    BY <1>6, <2>2 DEF Leave, TypeOK, auth
<1> QED
  BY <1>1, <1>2, <1>3, <1>4, <1>5, <1>6 DEF Goroutine

LEMMA PostType ==
  ASSUME TypeOK, NEW t \in Tasks, NEW arrives \in BOOLEAN, NEW answered \in BOOLEAN,
         Post(t, arrives, answered)
  PROVE  TypeOK'
<1> DEFINE k == IF answered THEN 3 ELSE task[t].post + 1
           r == [task |-> t, told |-> task[t].snapshot]
<1>1. k \in 0..3 /\ task[t] \in TaskRecords /\ r \in [task : Tasks, told : Payloads]
  BY TaskFields DEF Post
<1>2. /\ task' = [task EXCEPT ![t] = [@ EXCEPT !.post = k]]
      /\ received' \subseteq received \cup {r}
  BY DEF Post
<1> HIDE DEF k, r
<1>3. task' \in [Tasks -> TaskRecords]
  BY <1>1, <1>2, TaskWith DEF TypeOK
<1>4. \A x \in received' : x \in [task : Tasks, told : Payloads]
  BY <1>1, <1>2 DEF TypeOK
<1> QED
  BY <1>3, <1>4 DEF TypeOK, Post, auth

LEMMA ExitType == ASSUME TypeOK, NEW clean \in BOOLEAN, Exit(clean) PROVE TypeOK'
<1>1. client' \in [Clients -> Requests]
  BY AnsweredType DEF Exit
<1>2. \A t \in Tasks : [task[t] EXCEPT !.at = "gone", !.post = 0] \in TaskRecords
  <2>1. 0 \in 0..3 /\ "gone" \in TaskPCs
    BY DEF TaskPCs
  <2> QED
    BY <2>1, TaskFields, TaskWith
<1>3. task' \in [Tasks -> TaskRecords]
  BY <1>2 DEF Exit
<1>4. /\ attempts' \in [IPs -> [count : 0..MaxAttempts, since : 0..MaxTime]]
      /\ guesses' \in [IPs -> [count : Nat, first : 0..MaxTime]]
  <2>1. 0 \in 0..MaxAttempts /\ 0 \in 0..MaxTime
    BY DaemonAssumption
  <2> QED
    BY <2>1 DEF Exit
<1> QED
  BY <1>1, <1>3, <1>4 DEF Exit, TypeOK

LEMMA TypeStep == ASSUME TypeOK, [Next]_vars, wg' \in Nat PROVE TypeOK'
<1>1. CASE Tick
  BY <1>1, DaemonAssumption DEF Tick, TypeOK, auth, registry
<1>2. CASE Signal \/ HTTPShutdown
  BY <1>2 DEF Signal, HTTPShutdown, TypeOK, auth, registry
<1>3. CASE WaitAll
  <2>1. (daemon.clean /\ wg = 0) \in BOOLEAN
    OBVIOUS
  <2> QED
    BY <1>3, <2>1, ExitType DEF WaitAll
<1>4. CASE Fail
  BY <1>4, ExitType DEF Fail
<1>5. CASE Restart
  <2>1. NoTask \in TaskRecords
    BY DaemonAssumption DEF NoTask, NoPayload, TaskRecords, TaskStates, TaskPCs, Payloads
  <2> QED
    BY <1>5, <2>1 DEF Restart, TypeOK, auth
<1>6. CASE UNCHANGED vars
  BY <1>6 DEF vars, TypeOK
<1> QED
  BY <1>1, <1>2, <1>3, <1>4, <1>5, <1>6, ClientTypeStep, GoroutineTypeStep, PostType DEF Next

-----------------------------------------------------------------------------
(* What a step does to the requests.                                       *)

\* The steps of a client that change no task.
Quiet(c) ==
  \/ \E kind \in Kinds : Send(c, kind)
  \/ Authenticate(c) \/ Denied(c) \/ Login(c)
  \/ StartRefused(c) \/ ContinueRefused(c) \/ Logout(c) \/ Query(c)

Reached == {"auth", "handle", "creds"}

\* The client c has changed its request, and no other client.
OnlyOf(c) ==
  /\ \A d \in Clients \ {c} : client'[d] = client[d]
  /\ client'[c].at # "launch"
  /\ client'[c].clock \in {client[c].clock, now, 0}
  /\ Up \/ client[c].at # "idle"
  /\ client'[c].at \in Reached => Up \/ client[c].at \in Reached

LEMMA AnsweredOnly ==
  ASSUME TypeOK, NEW c \in Clients, Answered(c), client[c].at # "idle"
  PROVE  OnlyOf(c)
BY DEF TypeOK, Answered, OnlyOf, NoRequest, Reached

LEMMA GoesToOnly ==
  ASSUME TypeOK, NEW c \in Clients, NEW pc, GoesTo(c, pc), pc # "launch", client[c].at # "idle",
         pc \in Reached => Up \/ client[c].at \in Reached
  PROVE  OnlyOf(c)
<1>1. client[c] \in Requests
  BY RequestFields
<1>2. client' = [client EXCEPT ![c] = [client[c] EXCEPT !.at = pc]]
  BY DEF GoesTo
<1>3. client'[c] = [client[c] EXCEPT !.at = pc]
  BY <1>2 DEF TypeOK
<1>4. client'[c].at = pc /\ client'[c].clock = client[c].clock
  BY <1>1, <1>3 DEF Requests
<1> QED
  BY <1>2, <1>4 DEF TypeOK, OnlyOf

LEMMA QuietStep ==
  ASSUME TypeOK, NEW c \in Clients, Quiet(c)
  PROVE  /\ UNCHANGED <<now, task, wg, daemon, granted, received>>
         /\ OnlyOf(c)
         /\ client[c].at # "launch"
<1>1. UNCHANGED <<now, task, wg, daemon, granted, received>>
  BY DEF Quiet, Send, Authenticate, Denied, Login, SendLogin, SendAgain, Unanswered, LoginLimited,
         LoginWrong, LoginRight, StartRefused, ContinueRefused, Logout, Query, auth, registry
<1>2. client[c].at # "launch"
  BY DEF Quiet, Send, Authenticate, Denied, Login, SendLogin, SendAgain, Unanswered, LoginLimited,
         LoginWrong, LoginRight, StartRefused, ContinueRefused, Logout, Query, At, Handles
<1>3. Answered(c) /\ client[c].at # "idle" => OnlyOf(c)
  BY AnsweredOnly
<1>4. ASSUME NEW kind \in Kinds, Send(c, kind) PROVE OnlyOf(c)
  <2>1. client'[c] = [client[c] EXCEPT !.at = "auth", !.kind = kind, !.sent = @ + 1]
    BY <1>4 DEF Send, TypeOK
  <2>2. client'[c].at = "auth" /\ client'[c].clock = client[c].clock
    BY <2>1, RequestFields DEF Requests
  <2> QED
    BY <1>4, <2>2 DEF Send, OnlyOf, TypeOK
<1>5. ASSUME Authenticate(c) PROVE OnlyOf(c)
  BY <1>5, GoesToOnly DEF Authenticate, At, Reached
<1>6. ASSUME Denied(c) PROVE OnlyOf(c)
  BY <1>6, <1>3, GoesToOnly DEF Denied, At, Reached
<1>7. ASSUME SendLogin(c) PROVE OnlyOf(c)
  <2>1. client'[c] = [client[c] EXCEPT !.at = "creds", !.clock = now]
    BY <1>7 DEF SendLogin, TypeOK
  <2>2. client'[c].at = "creds" /\ client'[c].clock = now
    BY <2>1, RequestFields DEF Requests
  <2> QED
    BY <1>7, <2>2 DEF SendLogin, OnlyOf, TypeOK
<1>8. ASSUME SendAgain(c) PROVE OnlyOf(c)
  BY <1>8, GoesToOnly DEF SendAgain, At, Reached
<1>9. ASSUME LoginRight(c) PROVE OnlyOf(c)
  <2>1. CASE client' = [client EXCEPT ![c].at = "repeat", ![c].retried = TRUE,
                                      ![c].token = minted']
    <3>1. client'[c] = [client[c] EXCEPT !.at = "repeat", !.retried = TRUE, !.token = minted']
      BY <2>1 DEF TypeOK
    <3>2. client'[c].at = "repeat" /\ client'[c].clock = client[c].clock
      BY <3>1, RequestFields DEF Requests
    <3> QED
      BY <1>9, <2>1, <3>2 DEF LoginRight, At, OnlyOf, TypeOK, Reached
  <2> QED
    BY <1>3, <1>9, <2>1 DEF LoginRight, At
<1>10. ASSUME \/ Unanswered(c) \/ LoginLimited(c) \/ LoginWrong(c) \/ StartRefused(c)
              \/ ContinueRefused(c) \/ Logout(c) \/ Query(c)
       PROVE  OnlyOf(c)
  BY <1>3, <1>10
  DEF Unanswered, LoginLimited, LoginWrong, StartRefused, ContinueRefused, Logout, Query, At, Handles
<1> QED
  BY <1>1, <1>2, <1>4, <1>5, <1>6, <1>7, <1>8, <1>9, <1>10 DEF Quiet, Login

-----------------------------------------------------------------------------
(* The limiter of the logins.                                              *)

\* The windows that have begun for an address since the first wrong password
\* follow one another: all but the last are full at most.
AddressOK(a, g) ==
  /\ g.count = 0 => a.count = 0 /\ g.first <= now
  /\ g.count > 0 =>
       /\ a.count >= 1 /\ a.since <= now
       /\ \E k \in Nat : /\ g.first + k * Window <= a.since
                         /\ g.count <= k * MaxAttempts + a.count

LimiterInv ==
  /\ \A c \in Clients : client[c].clock <= now
  /\ \A ip \in IPs : AddressOK(attempts[ip], guesses[ip])

LEMMA MultMonotone ==
  ASSUME NEW x \in Nat, NEW y \in Nat, NEW w \in Nat, x <= y
  PROVE  x * w <= y * w
<1>1. PICK z \in Nat : y = x + z
  OBVIOUS
<1>2. y * w = x * w + z * w /\ z * w >= 0
  BY <1>1
<1> QED
  BY <1>2

LEMMA DivBound ==
  ASSUME NEW a \in Nat, NEW k \in Nat, NEW w \in Nat \ {0}, k * w <= a
  PROVE  k <= a \div w
<1> DEFINE d == a \div w
<1>1. d \in Nat /\ a < (d + 1) * w
  OBVIOUS
<1>2. CASE k >= d + 1
  <2>1. (d + 1) * w <= k * w
    BY <1>1, <1>2, MultMonotone
  <2> QED
    BY <1>1, <2>1
<1> QED
  BY <1>1, <1>2

LEMMA LimiterInit == ASSUME Init PROVE LimiterInv
BY DEF Init, LimiterInv, AddressOK, NoRequest

LEMMA LimiterBounds == ASSUME TypeOK, LimiterInv PROVE GuessesBounded
<1> SUFFICES ASSUME NEW ip \in IPs
             PROVE  guesses[ip].count <= MaxAttempts * (1 + (now - guesses[ip].first) \div Window)
  BY DEF GuessesBounded
<1> DEFINE a == attempts[ip]
           g == guesses[ip]
           d == (now - g.first) \div Window
<1>1. /\ now \in Nat /\ g.first \in Nat /\ g.count \in Nat /\ a.since \in Nat
      /\ a.count \in Nat /\ a.count <= MaxAttempts
      /\ Window \in Nat \ {0} /\ MaxAttempts \in Nat
  BY DaemonAssumption DEF TypeOK
<1>2. AddressOK(a, g)
  BY DEF LimiterInv
<1> HIDE DEF a, g
<1>3. CASE g.count = 0
  <2>1. now - g.first \in Nat
    BY <1>1, <1>2, <1>3 DEF AddressOK
  <2>2. d \in Nat
    BY <1>1, <2>1
  <2>3. 0 * MaxAttempts <= (1 + d) * MaxAttempts
    BY <1>1, <2>2, MultMonotone
  <2> QED
    BY <1>1, <1>3, <2>2, <2>3 DEF g
<1>4. CASE g.count > 0
  <2>1. PICK k \in Nat : /\ g.first + k * Window <= a.since
                         /\ g.count <= k * MaxAttempts + a.count
    BY <1>2, <1>4 DEF AddressOK
  <2>2. k * Window \in Nat /\ k * MaxAttempts \in Nat
    BY <1>1
  <2>3. now - g.first \in Nat /\ k * Window <= now - g.first
    BY <1>1, <1>2, <1>4, <2>1, <2>2 DEF AddressOK
  <2>4. d \in Nat /\ k <= d
    <3>1. d \in Nat
      BY <1>1, <2>3
    <3>2. k <= d
      BY <1>1, <2>3, DivBound
    <3> QED
      BY <3>1, <3>2
  <2>5. (1 + k) * MaxAttempts <= (1 + d) * MaxAttempts
    BY <1>1, <2>4, MultMonotone
  <2>6. g.count <= (1 + k) * MaxAttempts
    BY <1>1, <2>1, <2>2
  <2> QED
    BY <1>1, <2>4, <2>5, <2>6 DEF g
<1> QED
  BY <1>1, <1>3, <1>4

\* One more wrong password.
LEMMA WrongPassword ==
  ASSUME TypeOK, LimiterInv, NEW c \in Clients, LoginWrong(c)
  PROVE  AddressOK(attempts'[Address[c]], guesses'[Address[c]])
<1> DEFINE ip == Address[c]
           a == attempts[ip]
           g == guesses[ip]
           k0 == client[c].clock
<1>1. /\ ip \in IPs /\ k0 \in Nat /\ k0 <= now /\ now \in Nat
      /\ g.first \in Nat /\ g.count \in Nat /\ a.since \in Nat
      /\ a.count \in Nat /\ a.count <= MaxAttempts
      /\ Window \in Nat \ {0} /\ MaxAttempts \in Nat
  BY RequestFields, DaemonAssumption DEF TypeOK, LimiterInv
<1>2. AddressOK(a, g)
  BY <1>1 DEF LimiterInv
<1>3. /\ attempts'[ip].count = Counting(c) + 1
      /\ attempts'[ip].since = IF Counting(c) = 0 THEN k0 ELSE a.since
      /\ guesses'[ip].count = g.count + 1
      /\ guesses'[ip].first = IF g.count = 0 THEN k0 ELSE g.first
  BY <1>1 DEF LoginWrong, CountAttempt, TypeOK
<1>4. Counting(c) = IF k0 >= a.since + Window THEN 0 ELSE a.count
  BY DEF Counting, WindowOver
<1> HIDE DEF ip, a, g, k0
<1>5. CASE g.count = 0
  <2>1. Counting(c) = 0
    BY <1>1, <1>2, <1>4, <1>5 DEF AddressOK
  <2>2. k0 + 0 * Window <= k0 /\ 1 <= 0 * MaxAttempts + 1
    BY <1>1
  <2> QED
    BY <1>1, <1>3, <1>5, <2>1, <2>2 DEF AddressOK, ip
<1>6. CASE g.count > 0
  <2>1. PICK k \in Nat : /\ g.first + k * Window <= a.since
                         /\ g.count <= k * MaxAttempts + a.count
    BY <1>2, <1>6 DEF AddressOK
  <2>2. /\ k * Window \in Nat /\ k * MaxAttempts \in Nat /\ k + 1 \in Nat
        /\ (k + 1) * Window = k * Window + Window
        /\ (k + 1) * MaxAttempts = k * MaxAttempts + MaxAttempts
    BY <1>1
  <2>3. a.count >= 1 /\ a.since <= now
    BY <1>2, <1>6 DEF AddressOK
  <2> DEFINE a1 == attempts'[ip]
             g1 == guesses'[ip]
  <2>4. CASE k0 >= a.since + Window
    <3>1. /\ g.first + (k + 1) * Window <= k0
          /\ g.count + 1 <= (k + 1) * MaxAttempts + 1
      BY <1>1, <2>1, <2>2, <2>4
    <3>2. /\ attempts'[ip].count = 1 /\ attempts'[ip].since = k0
          /\ guesses'[ip].count = g.count + 1 /\ guesses'[ip].first = g.first
      BY <1>1, <1>3, <1>4, <1>6, <2>4
    <3> DEFINE m == k + 1
    <3>3. m \in Nat /\ g.first + m * Window <= k0 /\ g.count + 1 <= m * MaxAttempts + 1
      BY <2>2, <3>1
    <3>4. a1.count = 1 /\ a1.since <= now /\ g1.first + m * Window <= a1.since
          /\ g1.count # 0 /\ g1.count <= m * MaxAttempts + a1.count
      BY <1>1, <3>2, <3>3 DEF a1, g1
    <3> HIDE DEF m, a1, g1
    <3>5. AddressOK(a1, g1)
      BY <3>3, <3>4 DEF AddressOK
    <3> QED
      BY <3>5 DEF a1, g1, ip
  <2>5. CASE ~(k0 >= a.since + Window)
    <3>1. /\ attempts'[ip].count = a.count + 1 /\ attempts'[ip].since = a.since
          /\ guesses'[ip].count = g.count + 1 /\ guesses'[ip].first = g.first
      BY <1>1, <1>3, <1>4, <1>6, <2>3, <2>5
    <3>2. g.count + 1 <= k * MaxAttempts + (a.count + 1)
      BY <1>1, <2>1, <2>2
    <3>3. a1.count >= 1 /\ a1.since <= now /\ g1.first + k * Window <= a1.since
          /\ g1.count # 0 /\ g1.count <= k * MaxAttempts + a1.count
      BY <1>1, <2>1, <2>3, <3>1, <3>2 DEF a1, g1
    <3> HIDE DEF a1, g1
    <3>4. AddressOK(a1, g1)
      BY <3>3 DEF AddressOK
    <3> QED
      BY <3>4 DEF a1, g1, ip
  <2> QED
    BY <2>4, <2>5
<1> QED
  BY <1>1, <1>5, <1>6

LEMMA LimiterStep ==
  ASSUME TypeOK, LimiterInv, [Next]_vars
  PROVE  LimiterInv'
<1>0. now \in Nat
  BY DaemonAssumption DEF TypeOK
\* Nothing but clients' clocks has changed for the limiter.
<1>1. ASSUME UNCHANGED <<now, attempts, guesses>>,
             \A c \in Clients : client'[c].clock \in {client[c].clock, now, 0}
      PROVE  LimiterInv'
  BY <1>0, <1>1 DEF LimiterInv, AddressOK
<1>2. CASE Tick
  <2>1. UNCHANGED <<attempts, guesses, client>> /\ now' = now + 1
    BY <1>2 DEF Tick, auth
  <2>2. ASSUME NEW c \in Clients PROVE client'[c].clock <= now'
    BY <1>0, <2>1, RequestFields DEF LimiterInv
  <2>3. ASSUME NEW ip \in IPs PROVE AddressOK(attempts[ip], guesses[ip])'
    <3>1. attempts[ip].since \in Nat /\ guesses[ip].first \in Nat
      BY DEF TypeOK
    <3> QED
      BY <1>0, <2>1, <3>1 DEF LimiterInv, AddressOK
  <2> QED
    BY <2>2, <2>3 DEF LimiterInv
<1>3. ASSUME NEW c \in Clients, Quiet(c) PROVE LimiterInv'
  <2>1. now' = now /\ \A d \in Clients : client'[d].clock \in {client[d].clock, now, 0}
    BY <1>3, QuietStep DEF OnlyOf
  <2>2. CASE UNCHANGED <<attempts, guesses>>
    BY <1>1, <2>1, <2>2
  <2>3. \A d \in Clients : client'[d].clock <= now'
    BY <1>0, <2>1 DEF LimiterInv
  <2>4. CASE LoginWrong(c)
    <3>1. \A ip \in IPs \ {Address[c]} :
            attempts'[ip] = attempts[ip] /\ guesses'[ip] = guesses[ip]
      BY <2>4 DEF LoginWrong, CountAttempt, TypeOK
    <3>2. AddressOK(attempts'[Address[c]], guesses'[Address[c]])
      BY <2>4, WrongPassword
    <3> QED
      BY <2>1, <2>3, <3>1, <3>2 DEF LimiterInv, AddressOK
  <2>5. CASE LoginRight(c)
    <3>1. \A ip \in IPs \ {Address[c]} :
            attempts'[ip] = attempts[ip] /\ guesses'[ip] = guesses[ip]
      BY <2>5 DEF LoginRight, TypeOK
    <3>2. /\ attempts'[Address[c]] = [count |-> 0, since |-> 0]
          /\ guesses'[Address[c]] = [count |-> 0, first |-> 0]
      BY <2>5, RequestFields DEF LoginRight, TypeOK
    <3> QED
      BY <1>0, <2>1, <2>3, <3>1, <3>2 DEF LimiterInv, AddressOK
  <2>6. \/ UNCHANGED <<attempts, guesses>> \/ LoginWrong(c) \/ LoginRight(c)
    BY <1>3 DEF Quiet, Send, Authenticate, Denied, Login, SendLogin, SendAgain, Unanswered,
                LoginLimited, StartRefused, ContinueRefused, Logout, Query, auth
  <2> QED
    BY <2>2, <2>4, <2>5, <2>6
<1>4. ASSUME NEW c \in Clients, StartIfIdle(c) PROVE LimiterInv'
  <2>1. PICK t \in Tasks : client' = [client EXCEPT ![c].at = "launch", ![c].task = t]
    BY <1>4 DEF StartIfIdle
  <2>2. client'[c] = [client[c] EXCEPT !.at = "launch", !.task = t]
    BY <2>1 DEF TypeOK
  <2>3. client'[c].clock = client[c].clock
    BY <2>2, RequestFields DEF Requests
  <2> QED
    BY <1>1, <1>4, <2>1, <2>3 DEF StartIfIdle, TypeOK, auth
<1>5. ASSUME NEW c \in Clients, Launch(c) \/ \E t \in Tasks : Continue(c, t) PROVE LimiterInv'
  <2>1. OnlyOf(c)
    BY <1>5, AnsweredOnly DEF Launch, Continue, At, Handles
  <2> QED
    BY <1>1, <1>5, <2>1 DEF OnlyOf, Launch, Continue, auth
<1>6. CASE \/ \E t \in Tasks : Goroutine(t)
           \/ \E t \in Tasks, arrives, answered \in BOOLEAN : Post(t, arrives, answered)
           \/ Signal \/ HTTPShutdown \/ Restart \/ UNCHANGED vars
  <2>1. UNCHANGED <<now, attempts, guesses, client>>
    BY <1>6 DEF Goroutine, EnterAwaiting, Resume, UseCaseDone, SetResult, FinishSuccess,
       FinishError, FinishAgain, Leave, OnlyTask, Post, Signal, HTTPShutdown, Restart, auth, vars
  <2> QED
    BY <1>1, <2>1
<1>7. CASE WaitAll \/ Fail
  <2>1. PICK clean : Exit(clean)
    BY <1>7 DEF WaitAll, Fail
  <2>2. /\ now' = now /\ \A c \in Clients : client'[c].clock = 0
        /\ \A ip \in IPs : /\ attempts'[ip] = [count |-> 0, since |-> 0]
                           /\ guesses'[ip] = [count |-> 0, first |-> 0]
    BY <2>1 DEF Exit, NoRequest
  <2> QED
    BY <1>0, <2>2 DEF LimiterInv, AddressOK
<1> QED
  BY <1>2, <1>3, <1>4, <1>5, <1>6, <1>7 DEF Next, Quiet, Handler

-----------------------------------------------------------------------------
(* What the end of a task does to its record.                              *)

LEMMA EndsAsFields ==
  ASSUME TypeOK, NEW t \in Tasks, NEW s, NEW pc, task' = EndsAs(t, s, pc)
  PROVE  /\ \A u \in Tasks \ {t} : task'[u] = task[u]
         /\ task'[t].at = pc /\ task'[t].waits = task[t].waits
         /\ task'[t].answer = task[t].answer /\ task'[t].resumed = task[t].resumed
         /\ task'[t].open \in {task[t].open, FALSE}
<1>1. task[t] \in TaskRecords
  BY TaskFields
<1> QED
  BY <1>1 DEF EndsAs, TypeOK, TaskRecords

LEMMA ActiveEnds ==
  ASSUME TypeOK, NEW t \in Tasks, NEW s, NEW pc, task' = EndsAs(t, s, pc), Active(t)
  PROVE  /\ task'[t].state = s
         /\ task[t].outcome = "none" => task'[t].outcome = s
         /\ task[t].outcome # "none" => task'[t].outcome = task[t].outcome
         /\ task'[t].snapshot = [state |-> s, result |-> task[t].result]
<1> DEFINE r == task[t]
           o == IF r.outcome = "none" THEN s ELSE r.outcome
           p == [state |-> s, result |-> r.result]
<1>1. task'[t] = [r EXCEPT !.state = s, !.open = FALSE, !.at = pc, !.post = 1, !.outcome = o,
                           !.snapshot = p]
  BY DEF EndsAs, TypeOK
<1>2. r \in TaskRecords
  BY TaskFields
<1> HIDE DEF r, o, p
<1>3. task'[t].state = s /\ task'[t].outcome = o /\ task'[t].snapshot = p
  BY <1>1, <1>2 DEF TaskRecords
<1> QED
  BY <1>3 DEF r, o, p

LEMMA EndedStays ==
  ASSUME TypeOK, NEW t \in Tasks, NEW s, NEW pc, task' = EndsAs(t, s, pc), ~Active(t)
  PROVE  /\ task'[t].state = task[t].state /\ task'[t].post = task[t].post
         /\ task'[t].outcome = task[t].outcome /\ task'[t].snapshot = task[t].snapshot
<1>1. task'[t] = [task[t] EXCEPT !.at = pc] /\ task[t] \in TaskRecords
  BY TaskFields DEF EndsAs, TypeOK
<1> QED
  BY <1>1 DEF TaskRecords

-----------------------------------------------------------------------------
(* The answers to a waiting task.                                          *)

\* A wait that is open has been answered to nobody; the cassette the task waits
\* for, and goes on with, is the one of an answer.
AnswersInv ==
  /\ \A g \in granted :
       /\ g.wait <= task[g.task].waits
       /\ task[g.task].open => g.wait < task[g.task].waits
  /\ \A g, h \in granted : g.task = h.task /\ g.wait = h.wait => g = h
  /\ \A t \in Tasks, who \in Clients :
       task[t].answer = who \/ task[t].resumed = who =>
         [task |-> t, wait |-> task[t].waits, by |-> who] \in granted

LEMMA AnswersInit == ASSUME Init PROVE AnswersInv
BY DaemonAssumption DEF Init, AnswersInv, NoTask

LEMMA AnswersHold == ASSUME TypeOK, AnswersInv PROVE AnswersMatch
<1>1. \A t \in Tasks : task[t].resumed # None => task[t].resumed \in Clients
  BY TaskFields
<1> QED
  BY <1>1 DEF AnswersInv, AnswersMatch

\* What leaves the waits alone: r is the record of a task before, q after it.
SameWait(r, q) ==
  /\ q.waits = r.waits /\ q.open \in {r.open, FALSE}
  /\ q.answer \in {r.answer, None} /\ q.resumed \in {r.resumed, r.answer, None}

LEMMA AnswersFrame ==
  ASSUME TypeOK, AnswersInv, granted' = granted, \A t \in Tasks : SameWait(task[t], task'[t])
  PROVE  AnswersInv'
<1>1. ASSUME NEW g \in granted'
      PROVE  /\ g.wait <= task'[g.task].waits
             /\ task'[g.task].open => g.wait < task'[g.task].waits
  <2>1. g \in granted /\ g.task \in Tasks
    BY <1>1 DEF TypeOK, Answers
  <2> QED
    BY <2>1 DEF AnswersInv, SameWait
<1>2. ASSUME NEW t \in Tasks, NEW who \in Clients,
             task'[t].answer = who \/ task'[t].resumed = who
      PROVE  [task |-> t, wait |-> task'[t].waits, by |-> who] \in granted'
  BY <1>2, DaemonAssumption DEF AnswersInv, SameWait
<1>3. \A g, h \in granted' : g.task = h.task /\ g.wait = h.wait => g = h
  BY DEF AnswersInv
<1> QED
  BY <1>1, <1>2, <1>3 DEF AnswersInv

LEMMA AnswersStep ==
  ASSUME TypeOK, AnswersInv, [Next]_vars
  PROVE  AnswersInv'
<1>1. CASE UNCHANGED <<task, granted>>
  BY <1>1 DEF AnswersInv
<1>2. ASSUME NEW c \in Clients, Quiet(c) PROVE AnswersInv'
  BY <1>1, <1>2, QuietStep
<1>3. CASE Tick \/ Signal \/ HTTPShutdown \/ UNCHANGED vars
  BY <1>1, <1>3 DEF Tick, Signal, HTTPShutdown, vars, registry
<1>4. ASSUME NEW c \in Clients, StartIfIdle(c) PROVE AnswersInv'
  <2>1. PICK t \in Tasks : task' = [task EXCEPT ![t].state = "running"]
    BY <1>4 DEF StartIfIdle
  <2>2. task'[t] = [task[t] EXCEPT !.state = "running"]
    BY <2>1 DEF TypeOK
  <2>3. SameWait(task[t], task'[t])
    BY <2>2, TaskFields DEF TaskRecords, SameWait
  <2> QED
    BY <1>4, <2>1, <2>3, AnswersFrame DEF StartIfIdle, TypeOK, SameWait
<1>5. ASSUME NEW c \in Clients, Launch(c) PROVE AnswersInv'
  <2> DEFINE u == client[c].task
  <2>1. task' = [task EXCEPT ![u].at = "work"] /\ granted' = granted
    BY <1>5 DEF Launch
  <2>2. ASSUME NEW t \in Tasks PROVE SameWait(task[t], task'[t])
    <3>1. task'[t] = task[t] \/ task'[t] = [task[t] EXCEPT !.at = "work"]
      BY <2>1 DEF TypeOK
    <3> QED
      BY <3>1, TaskFields DEF TaskRecords, SameWait
  <2> QED
    BY <2>1, <2>2, AnswersFrame
<1>6. ASSUME NEW c \in Clients, NEW t \in Tasks, Continue(c, t) PROVE AnswersInv'
  <2> DEFINE new == [task |-> t, wait |-> task[t].waits, by |-> c]
  <2>1. /\ task'[t] = [task[t] EXCEPT !.state = "running", !.open = FALSE, !.answer = c]
        /\ \A u \in Tasks \ {t} : task'[u] = task[u]
        /\ granted' = granted \cup {new} /\ task[t].open
    BY <1>6 DEF Continue, TypeOK
  <2>2. /\ task'[t].waits = task[t].waits /\ ~task'[t].open /\ task'[t].answer = c
        /\ task'[t].resumed = task[t].resumed
    BY <2>1, TaskFields DEF TaskRecords
  <2>3. \A g \in granted : g.task = t => g.wait # task[t].waits
    <3>1. ASSUME NEW g \in granted, g.task = t PROVE g.wait # task[t].waits
      <4>1. g.wait < task[t].waits /\ g.wait \in Nat /\ task[t].waits \in Nat
        BY <2>1, <3>1, TaskFields DEF AnswersInv, TypeOK, Answers
      <4> QED
        BY <4>1
    <3> QED
      BY <3>1
  <2>4. new.task = t /\ new.wait = task[t].waits /\ new.by = c
    OBVIOUS
  <2> HIDE DEF new
  <2>5. ASSUME NEW g \in granted'
        PROVE  /\ g.wait <= task'[g.task].waits
               /\ task'[g.task].open => g.wait < task'[g.task].waits
    <3>1. CASE g = new
      BY <2>2, <2>4, <3>1, TaskFields
    <3>2. CASE g \in granted
      <4>1. g.task \in Tasks
        BY <3>2 DEF TypeOK, Answers
      <4> QED
        BY <2>1, <2>2, <3>2, <4>1 DEF AnswersInv
    <3> QED
      BY <2>1, <3>1, <3>2
  <2>6. \A g, h \in granted' : g.task = h.task /\ g.wait = h.wait => g = h
    BY <2>1, <2>3, <2>4 DEF AnswersInv
  <2>7. ASSUME NEW u \in Tasks, NEW who \in Clients,
               task'[u].answer = who \/ task'[u].resumed = who
        PROVE  [task |-> u, wait |-> task'[u].waits, by |-> who] \in granted'
    <3>1. CASE u = t
      BY <2>1, <2>2, <2>7, <3>1 DEF AnswersInv, new
    <3>2. CASE u # t
      BY <2>1, <2>7, <3>2 DEF AnswersInv
    <3> QED
      BY <3>1, <3>2
  <2> QED
    BY <2>5, <2>6, <2>7 DEF AnswersInv
<1>7. ASSUME NEW t \in Tasks, EnterAwaiting(t) PROVE AnswersInv'
  <2> DEFINE n == task[t].waits + 1
  <2>1. /\ task'[t] = [task[t] EXCEPT !.at = "wait", !.state = "awaiting", !.waits = n,
                                      !.open = TRUE, !.answer = None, !.resumed = None]
        /\ \A u \in Tasks \ {t} : task'[u] = task[u]
        /\ granted' = granted
    BY <1>7 DEF EnterAwaiting, OnlyTask, TypeOK
  <2>2. task'[t].waits = n /\ task'[t].answer = None /\ task'[t].resumed = None
    BY <2>1, TaskFields DEF TaskRecords
  <2>3. ASSUME NEW g \in granted'
        PROVE  /\ g.wait <= task'[g.task].waits
               /\ task'[g.task].open => g.wait < task'[g.task].waits
    <3>1. g \in granted /\ g.task \in Tasks /\ g.wait \in Nat
      BY <2>1, <2>3 DEF TypeOK, Answers
    <3>2. task[t].waits \in Nat
      BY TaskFields
    <3>3. CASE g.task = t
      <4>1. g.wait <= task[t].waits
        BY <3>1, <3>3 DEF AnswersInv
      <4> QED
        BY <2>2, <3>1, <3>2, <3>3, <4>1
    <3>4. CASE g.task # t
      BY <2>1, <3>1, <3>4 DEF AnswersInv
    <3> QED
      BY <3>3, <3>4
  <2>4. ASSUME NEW u \in Tasks, NEW who \in Clients,
               task'[u].answer = who \/ task'[u].resumed = who
        PROVE  [task |-> u, wait |-> task'[u].waits, by |-> who] \in granted'
    BY <2>1, <2>2, <2>4, DaemonAssumption DEF AnswersInv
  <2> QED
    BY <2>1, <2>3, <2>4 DEF AnswersInv
<1>8. ASSUME NEW t \in Tasks, Goroutine(t), ~EnterAwaiting(t) PROVE AnswersInv'
  <2>1. granted' = granted /\ \A u \in Tasks \ {t} : task'[u] = task[u]
    BY <1>8 DEF Goroutine, Resume, UseCaseDone, SetResult, FinishSuccess, FinishError, FinishAgain,
       Leave, OnlyTask, EndsAs, TypeOK
  <2>2. SameWait(task[t], task'[t])
    <3> USE TaskFields DEF TypeOK, TaskRecords, SameWait
    <3>1. CASE Resume(t)
      BY <3>1 DEF Resume
    <3>2. CASE UseCaseDone(t)
      BY <3>2 DEF UseCaseDone
    <3>3. CASE SetResult(t)
      BY <3>3 DEF SetResult
    <3>4. CASE FinishSuccess(t) \/ FinishError(t) \/ FinishAgain(t)
      <4>1. PICK st, pc : task' = EndsAs(t, st, pc)
        BY <3>4 DEF FinishSuccess, FinishError, FinishAgain
      <4>2. /\ task'[t].waits = task[t].waits /\ task'[t].answer = task[t].answer
            /\ task'[t].resumed = task[t].resumed
            /\ task'[t].open \in {task[t].open, FALSE}
        BY <4>1, EndsAsFields
      <4> QED
        BY <4>2
    <3>5. CASE Leave(t)
      BY <3>5 DEF Leave
    <3> QED
      BY <1>8, <3>1, <3>2, <3>3, <3>4, <3>5 DEF Goroutine
  <2> QED
    BY <2>1, <2>2, AnswersFrame DEF SameWait
<1>9. ASSUME NEW t \in Tasks, NEW arrives \in BOOLEAN, NEW answered \in BOOLEAN,
             Post(t, arrives, answered)
      PROVE  AnswersInv'
  <2>1. granted' = granted /\ \A u \in Tasks \ {t} : task'[u] = task[u]
    BY <1>9 DEF Post, TypeOK
  <2>2. SameWait(task[t], task'[t])
    BY <1>9, TaskFields DEF Post, TypeOK, TaskRecords, SameWait
  <2> QED
    BY <2>1, <2>2, AnswersFrame DEF SameWait
<1>10. CASE WaitAll \/ Fail
  <2>1. PICK clean : Exit(clean)
    BY <1>10 DEF WaitAll, Fail
  <2>2. ASSUME NEW t \in Tasks PROVE SameWait(task[t], task'[t])
    BY <2>1, TaskFields DEF Exit, TaskRecords, SameWait
  <2> QED
    BY <2>1, <2>2, AnswersFrame DEF Exit
<1>11. CASE Restart
  BY <1>11, DaemonAssumption DEF Restart, AnswersInv, NoTask
<1> QED
  BY <1>2, <1>3, <1>4, <1>5, <1>6, <1>7, <1>8, <1>9, <1>10, <1>11 DEF Next, Quiet, Handler

-----------------------------------------------------------------------------
(* The registry: what a task says of itself, and who runs it.              *)

Ended(r) == r.state \in {"success", "error"}
Runs(r) == r.state \in {"running", "awaiting"}

\* The record of a task fits the place where its goroutine is.
Fits(r) ==
  /\ r.state = "absent" => r = NoTask
  /\ r.at \in {"work", "wait"} => Runs(r) /\ r.outcome = "none"
  /\ r.at \in {"result", "finish"} => Runs(r) /\ r.outcome = "success"
  /\ r.at = "finish" => r.result
  /\ r.at \in {"again", "leave"} => ~Runs(r)
  /\ Ended(r) => /\ r.outcome = r.state /\ r.snapshot.state = r.state
                 /\ r.state = "success" => r.snapshot.result
  /\ r.post \in {1, 2} => Ended(r)

\* A task whose goroutine a handler is about to start.
Registered(r) == r.state = "running" /\ r.at = "gone" /\ r.outcome = "none"

Working == {t \in Tasks : task[t].at # "gone"}

RegistryInv ==
  /\ \A t \in Tasks : Fits(task[t])
  /\ \A r \in received : Ended(task[r.task]) /\ r.told = task[r.task].snapshot
  /\ \A c \in Clients : client[c].at = "launch" =>
       client[c].task \in Tasks /\ Registered(task[client[c].task])
  /\ \A c, d \in Clients :
       client[c].at = "launch" /\ client[d].at = "launch" /\ client[c].task = client[d].task
         => c = d
  /\ IsFiniteSet(Working) /\ wg = Cardinality(Working)
  /\ daemon.at # "down" =>
       \A t \in Tasks : Runs(task[t]) =>
         \/ task[t].at # "gone"
         \/ \E c \in Clients : client[c].at = "launch" /\ client[c].task = t
  /\ daemon.at = "wait" /\ daemon.clean => InDaemon = {}
  /\ daemon.at = "down" => /\ \A c \in Clients : client[c].at = "idle"
                           /\ \A t \in Tasks : task[t].at = "gone" /\ task[t].post = 0
                           /\ daemon.clean => \A t \in Tasks : ~Runs(task[t])

LEMMA RegistryInit == ASSUME Init PROVE RegistryInv
<1>1. Working = {}
  BY DEF Init, Working, NoTask
<1>2. IsFiniteSet(Working) /\ wg = Cardinality(Working)
  BY <1>1, FS_EmptySet DEF Init
<1>3. \A t \in Tasks : Fits(task[t])
  BY DEF Init, Fits, NoTask, Ended, Runs
<1> QED
  BY <1>2, <1>3 DEF Init, RegistryInv, NoRequest, NoTask, Runs

\* What holds in every such state.
LEMMA RegistryHolds ==
  ASSUME TypeOK, RegistryInv
  PROVE  WebhookTellsOutcome /\ CleanStopEndsTasks
<1>1. WebhookTellsOutcome
  BY DEF TypeOK, RegistryInv, Fits, Ended, WebhookTellsOutcome
<1>2. CleanStopEndsTasks
  BY DEF RegistryInv, CleanStopEndsTasks, HasActive, Active, Runs
<1> QED
  BY <1>1, <1>2

\* A goroutine's step keeps what has been told: r before, q after it.
Keeps(r, q) ==
  /\ Fits(q)
  /\ Ended(r) => Ended(q) /\ q.snapshot = r.snapshot

\* A step of the task t alone, which no handler is about to start.
LEMMA TaskFrame ==
  ASSUME TypeOK, RegistryInv, NEW t \in Tasks,
         \A u \in Tasks \ {t} : task'[u] = task[u],
         Keeps(task[t], task'[t]),
         ~Registered(task[t]), task[t].at # "gone", task'[t].at # "gone",
         UNCHANGED <<client, daemon, wg, received>>
  PROVE  RegistryInv'
<1>1. daemon.at # "down"
  BY DEF RegistryInv
<1>2. \A u \in Tasks : Fits(task'[u])
  BY DEF RegistryInv, Keeps
<1>3. \A r \in received' : Ended(task'[r.task]) /\ r.told = task'[r.task].snapshot
  BY DEF RegistryInv, Keeps, TypeOK
<1>4. \A c \in Clients : client'[c].at = "launch" =>
        client'[c].task \in Tasks /\ Registered(task'[client'[c].task])
  BY DEF RegistryInv
<1>5. Working' = Working
  BY DEF Working
<1>6. \A u \in Tasks : Runs(task'[u]) =>
        \/ task'[u].at # "gone"
        \/ \E c \in Clients : client'[c].at = "launch" /\ client'[c].task = u
  BY <1>1 DEF RegistryInv
<1> QED
  BY <1>1, <1>2, <1>3, <1>4, <1>5, <1>6 DEF RegistryInv, InDaemon

\* A step of one client that leaves the tasks alone.
LEMMA ClientFrame ==
  ASSUME TypeOK, RegistryInv, NEW c \in Clients, OnlyOf(c), client[c].at # "launch",
         UNCHANGED <<task, wg, daemon, received>>
  PROVE  RegistryInv'
<1>1. daemon.at # "down"
  BY DEF RegistryInv, OnlyOf, Up
<1>2. \A d \in Clients : client'[d].at = "launch" => client'[d] = client[d]
  BY DEF OnlyOf
<1>3. Working' = Working
  BY DEF Working
<1>4. daemon.at = "wait" /\ InDaemon = {} => InDaemon' = {}
  BY DEF InDaemon, OnlyOf, Reached, Up
<1>5. \A t \in Tasks : Runs(task[t]) =>
        \/ task[t].at # "gone"
        \/ \E d \in Clients : client'[d].at = "launch" /\ client'[d].task = t
  BY <1>1 DEF RegistryInv, OnlyOf
<1>6. \A d \in Clients : client'[d].at = "launch" =>
        client'[d].task \in Tasks /\ Registered(task[client'[d].task])
  BY <1>2 DEF RegistryInv
<1>7. \A d, e \in Clients :
        client'[d].at = "launch" /\ client'[e].at = "launch" /\ client'[d].task = client'[e].task
          => d = e
  BY <1>2 DEF RegistryInv
<1> QED
  BY <1>1, <1>3, <1>4, <1>5, <1>6, <1>7 DEF RegistryInv

\* The steps of a goroutine before its last.
LEMMA GoroutineKeeps ==
  ASSUME TypeOK, RegistryInv, NEW t \in Tasks, Goroutine(t), ~Leave(t)
  PROVE  /\ \A u \in Tasks \ {t} : task'[u] = task[u]
         /\ Keeps(task[t], task'[t])
         /\ task[t].at # "gone" /\ task'[t].at # "gone"
         /\ UNCHANGED <<client, daemon, wg, received>>
<1>1. /\ UNCHANGED <<client, daemon, wg, received>>
      /\ task[t].at # "gone"
  BY DEF Goroutine, EnterAwaiting, Resume, UseCaseDone, SetResult, FinishSuccess, FinishError,
     FinishAgain, TaskAt, OnlyTask
<1>2. Fits(task[t]) /\ task[t] \in TaskRecords /\ ~(Ended(task[t]) /\ Runs(task[t]))
  BY TaskFields DEF RegistryInv, Ended, Runs
<1>3. ASSUME EnterAwaiting(t)
      PROVE  /\ \A u \in Tasks \ {t} : task'[u] = task[u]
             /\ Keeps(task[t], task'[t]) /\ task'[t].at # "gone"
  <2> DEFINE n == task[t].waits + 1
  <2>1. /\ task'[t] = [task[t] EXCEPT !.at = "wait", !.state = "awaiting", !.waits = n,
                                      !.open = TRUE, !.answer = None, !.resumed = None]
        /\ \A u \in Tasks \ {t} : task'[u] = task[u]
    BY <1>3 DEF EnterAwaiting, TypeOK
  <2> HIDE DEF n
  <2>2. /\ task'[t].at = "wait" /\ task'[t].state = "awaiting"
        /\ task'[t].outcome = task[t].outcome /\ task'[t].post = task[t].post
    BY <1>2, <2>1 DEF TaskRecords
  <2>3. task[t].at = "work"
    BY <1>3 DEF EnterAwaiting, TaskAt
  <2> QED
    BY <1>2, <2>1, <2>2, <2>3 DEF Keeps, Fits, Ended, Runs
<1>4. ASSUME Resume(t)
      PROVE  /\ \A u \in Tasks \ {t} : task'[u] = task[u]
             /\ Keeps(task[t], task'[t]) /\ task'[t].at # "gone"
  <2>1. /\ task'[t] = [task[t] EXCEPT !.at = "work", !.resumed = task[t].answer, !.answer = None]
        /\ \A u \in Tasks \ {t} : task'[u] = task[u]
        /\ task[t].at = "wait"
    BY <1>4 DEF Resume, TaskAt, TypeOK
  <2>2. /\ task'[t].at = "work" /\ task'[t].state = task[t].state
        /\ task'[t].outcome = task[t].outcome /\ task'[t].post = task[t].post
    BY <1>2, <2>1 DEF TaskRecords
  <2> QED
    BY <1>2, <2>1, <2>2 DEF Keeps, Fits, Ended, Runs
<1>5. ASSUME UseCaseDone(t)
      PROVE  /\ \A u \in Tasks \ {t} : task'[u] = task[u]
             /\ Keeps(task[t], task'[t]) /\ task'[t].at # "gone"
  <2>1. /\ task'[t] = [task[t] EXCEPT !.at = "result", !.outcome = "success"]
        /\ \A u \in Tasks \ {t} : task'[u] = task[u]
        /\ task[t].state = "running"
    BY <1>5 DEF UseCaseDone, TypeOK
  <2>2. /\ task'[t].at = "result" /\ task'[t].state = "running"
        /\ task'[t].outcome = "success" /\ task'[t].post = task[t].post
    BY <1>2, <2>1 DEF TaskRecords
  <2> QED
    BY <1>2, <2>1, <2>2 DEF Keeps, Fits, Ended, Runs
<1>6. ASSUME SetResult(t)
      PROVE  /\ \A u \in Tasks \ {t} : task'[u] = task[u]
             /\ Keeps(task[t], task'[t]) /\ task'[t].at # "gone"
  <2>1. /\ task'[t] = [task[t] EXCEPT !.at = "finish", !.result = TRUE]
        /\ \A u \in Tasks \ {t} : task'[u] = task[u]
        /\ task[t].at = "result"
    BY <1>6 DEF SetResult, TaskAt, TypeOK
  <2>2. /\ task'[t].at = "finish" /\ task'[t].state = task[t].state /\ task'[t].result
        /\ task'[t].outcome = task[t].outcome /\ task'[t].post = task[t].post
    BY <1>2, <2>1 DEF TaskRecords
  <2> QED
    BY <1>2, <2>1, <2>2 DEF Keeps, Fits, Ended, Runs
<1>7. ASSUME FinishSuccess(t)
      PROVE  /\ \A u \in Tasks \ {t} : task'[u] = task[u]
             /\ Keeps(task[t], task'[t]) /\ task'[t].at # "gone"
  <2>1. task[t].at = "finish" /\ task' = EndsAs(t, "success", "leave")
    BY <1>7 DEF FinishSuccess, TaskAt
  <2>2. Active(t) /\ task[t].outcome = "success" /\ task[t].result
    BY <1>2, <2>1 DEF Fits, Runs, Active
  <2>3. /\ \A u \in Tasks \ {t} : task'[u] = task[u]
        /\ task'[t].at = "leave" /\ task'[t].state = "success" /\ task'[t].outcome = "success"
        /\ task'[t].snapshot = [state |-> "success", result |-> task[t].result]
    <3>1. (\A u \in Tasks \ {t} : task'[u] = task[u]) /\ task'[t].at = "leave"
      BY <2>1, EndsAsFields, ZenonT(60)
    <3>2. /\ task'[t].state = "success" /\ task'[t].outcome = "success"
          /\ task'[t].snapshot = [state |-> "success", result |-> task[t].result]
      BY <2>1, <2>2, ActiveEnds
    <3> QED
      BY <3>1, <3>2
  <2> QED
    BY <1>2, <2>2, <2>3 DEF Keeps, Fits, Ended, Runs, Active
<1>8. ASSUME FinishError(t)
      PROVE  /\ \A u \in Tasks \ {t} : task'[u] = task[u]
             /\ Keeps(task[t], task'[t]) /\ task'[t].at # "gone"
  <2>1. task[t].at \in {"work", "wait"} /\ task' = EndsAs(t, "error", "again")
    BY <1>8 DEF FinishError, TaskAt
  <2>2. Active(t) /\ task[t].outcome = "none"
    BY <1>2, <2>1 DEF Fits, Runs, Active
  <2>3. /\ \A u \in Tasks \ {t} : task'[u] = task[u]
        /\ task'[t].at = "again" /\ task'[t].state = "error" /\ task'[t].outcome = "error"
        /\ task'[t].snapshot = [state |-> "error", result |-> task[t].result]
    <3>1. (\A u \in Tasks \ {t} : task'[u] = task[u]) /\ task'[t].at = "again"
      BY <2>1, EndsAsFields, ZenonT(60)
    <3>2. /\ task'[t].state = "error" /\ task'[t].outcome = "error"
          /\ task'[t].snapshot = [state |-> "error", result |-> task[t].result]
      BY <2>1, <2>2, ActiveEnds
    <3> QED
      BY <3>1, <3>2
  <2> QED
    BY <1>2, <2>2, <2>3 DEF Keeps, Fits, Ended, Runs, Active
<1>9. ASSUME FinishAgain(t)
      PROVE  /\ \A u \in Tasks \ {t} : task'[u] = task[u]
             /\ Keeps(task[t], task'[t]) /\ task'[t].at # "gone"
  <2>1. task[t].at = "again" /\ task' = EndsAs(t, "error", "leave")
    BY <1>9 DEF FinishAgain, TaskAt
  <2>2. ~Active(t) /\ task[t].state # "absent"
    BY <1>2, <2>1 DEF Fits, Runs, Active, NoTask
  <2>3. /\ \A u \in Tasks \ {t} : task'[u] = task[u]
        /\ task'[t].at = "leave" /\ task'[t].state = task[t].state
        /\ task'[t].outcome = task[t].outcome /\ task'[t].post = task[t].post
        /\ task'[t].snapshot = task[t].snapshot
    <3>1. (\A u \in Tasks \ {t} : task'[u] = task[u]) /\ task'[t].at = "leave"
      BY <2>1, EndsAsFields, ZenonT(60)
    <3>2. /\ task'[t].state = task[t].state /\ task'[t].post = task[t].post
          /\ task'[t].outcome = task[t].outcome /\ task'[t].snapshot = task[t].snapshot
      BY <2>1, <2>2, EndedStays
    <3> QED
      BY <3>1, <3>2
  <2> QED
    BY <1>2, <2>2, <2>3 DEF Keeps, Fits, Ended, Runs, Active
<1> QED
  BY <1>1, <1>3, <1>4, <1>5, <1>6, <1>7, <1>8, <1>9 DEF Goroutine

\* A handler starts a task, first the registry's part, then the goroutine.
LEMMA StartStep ==
  ASSUME TypeOK, RegistryInv, NEW c \in Clients, StartIfIdle(c)
  PROVE  RegistryInv'
<1>1. PICK t \in Tasks :
        /\ task[t].state = "absent"
        /\ task' = [task EXCEPT ![t].state = "running"]
        /\ client' = [client EXCEPT ![c].at = "launch", ![c].task = t]
  BY DEF StartIfIdle
<1>2. UNCHANGED <<wg, daemon, received>> /\ client[c].at = "handle"
  BY DEF StartIfIdle, Handles, At
<1>3. /\ daemon.at # "down" /\ ~(daemon.at = "wait" /\ daemon.clean)
      /\ task[t] = NoTask
  BY <1>1, <1>2 DEF RegistryInv, InDaemon, Fits
<1>4. /\ \A u \in Tasks \ {t} : task'[u] = task[u]
      /\ Registered(task'[t]) /\ Fits(task'[t])
  BY <1>1, <1>3 DEF TypeOK, NoTask, Registered, Fits, Ended, Runs
<1>5. /\ \A d \in Clients \ {c} : client'[d] = client[d]
      /\ client'[c].at = "launch" /\ client'[c].task = t
  <2>1. client'[c] = [client[c] EXCEPT !.at = "launch", !.task = t]
    BY <1>1 DEF TypeOK
  <2> QED
    BY <1>1, <2>1, RequestFields DEF TypeOK, Requests
<1>6. \A d \in Clients : client[d].at = "launch" => client[d].task # t
  BY <1>1 DEF RegistryInv, Registered
<1>7. Working' = Working
  BY <1>3, <1>4 DEF Working, Registered, NoTask
<1>8. \A r \in received' : Ended(task'[r.task]) /\ r.told = task'[r.task].snapshot
  BY <1>1, <1>2, <1>4 DEF RegistryInv, TypeOK, Ended
<1>9. \A d \in Clients : client'[d].at = "launch" =>
        client'[d].task \in Tasks /\ Registered(task'[client'[d].task])
  BY <1>4, <1>5, <1>6 DEF RegistryInv
<1>10. \A d, e \in Clients :
         client'[d].at = "launch" /\ client'[e].at = "launch" /\ client'[d].task = client'[e].task
           => d = e
  BY <1>5, <1>6 DEF RegistryInv
<1>11. \A u \in Tasks : Runs(task'[u]) =>
         \/ task'[u].at # "gone"
         \/ \E d \in Clients : client'[d].at = "launch" /\ client'[d].task = u
  <2> SUFFICES ASSUME NEW u \in Tasks, Runs(task'[u]), task'[u].at = "gone"
               PROVE  \E d \in Clients : client'[d].at = "launch" /\ client'[d].task = u
    OBVIOUS
  <2>1. CASE u = t
    BY <1>5, <2>1
  <2>2. CASE u # t
    <3>1. PICK d \in Clients : client[d].at = "launch" /\ client[d].task = u
      BY <1>3, <1>4, <2>2 DEF RegistryInv
    <3> QED
      BY <1>2, <1>5, <3>1
  <2> QED
    BY <2>1, <2>2
<1> QED
  BY <1>2, <1>3, <1>4, <1>7, <1>8, <1>9, <1>10, <1>11 DEF RegistryInv

LEMMA LaunchStep ==
  ASSUME TypeOK, RegistryInv, NEW c \in Clients, Launch(c)
  PROVE  RegistryInv'
<1> DEFINE t == client[c].task
<1>1. /\ client[c].at = "launch" /\ wg' = wg + 1 /\ UNCHANGED <<daemon, received>>
      /\ task' = [task EXCEPT ![t].at = "work"]
      /\ Answered(c)
  BY DEF Launch, At
<1>2. t \in Tasks /\ Registered(task[t]) /\ Fits(task[t])
  BY <1>1 DEF RegistryInv
<1>3. daemon.at # "down" /\ ~(daemon.at = "wait" /\ daemon.clean)
  BY <1>1 DEF RegistryInv, InDaemon
<1>4. \A d \in Clients \ {c} :
        client'[d] = client[d] /\ ~(client[d].at = "launch" /\ client[d].task = t)
  BY <1>1 DEF RegistryInv, Answered, TypeOK
<1>5. client'[c].at # "launch"
  BY <1>1, AnsweredOnly DEF OnlyOf
<1> HIDE DEF t
<1>6. /\ \A u \in Tasks \ {t} : task'[u] = task[u]
      /\ task'[t] = [task[t] EXCEPT !.at = "work"]
  BY <1>1, <1>2 DEF TypeOK
<1>7. /\ task'[t].at = "work" /\ task'[t].state = "running" /\ task'[t].outcome = "none"
      /\ task'[t].post = task[t].post
  BY <1>2, <1>6, TaskFields DEF TaskRecords, Registered
<1>8. Fits(task'[t])
  BY <1>2, <1>7 DEF Fits, Registered, Runs, Ended
<1>9. IsFiniteSet(Working') /\ wg' = Cardinality(Working')
  <2>1. Working' = Working \cup {t} /\ t \notin Working
    BY <1>2, <1>6, <1>7 DEF Working, Registered
  <2>2. IsFiniteSet(Working) /\ wg = Cardinality(Working)
    BY DEF RegistryInv
  <2>3. /\ IsFiniteSet(Working \cup {t})
        /\ Cardinality(Working \cup {t}) = Cardinality(Working) + 1
    BY <2>1, <2>2, FS_AddElement
  <2> QED
    BY <1>1, <2>1, <2>2, <2>3
<1>10. \A r \in received' : Ended(task'[r.task]) /\ r.told = task'[r.task].snapshot
  BY <1>1, <1>2, <1>6 DEF RegistryInv, TypeOK, Ended, Registered
<1>11. \A d \in Clients : client'[d].at = "launch" =>
         client'[d].task \in Tasks /\ Registered(task'[client'[d].task])
  BY <1>4, <1>5, <1>6 DEF RegistryInv
<1>12. \A d, e \in Clients :
         client'[d].at = "launch" /\ client'[e].at = "launch" /\ client'[d].task = client'[e].task
           => d = e
  BY <1>4, <1>5 DEF RegistryInv
<1>13. \A u \in Tasks : Runs(task'[u]) =>
         \/ task'[u].at # "gone"
         \/ \E d \in Clients : client'[d].at = "launch" /\ client'[d].task = u
  <2> SUFFICES ASSUME NEW u \in Tasks, Runs(task'[u]), task'[u].at = "gone"
               PROVE  \E d \in Clients : client'[d].at = "launch" /\ client'[d].task = u
    OBVIOUS
  <2>1. u # t
    BY <1>7
  <2>2. PICK d \in Clients : client[d].at = "launch" /\ client[d].task = u
    BY <1>3, <1>6, <2>1 DEF RegistryInv
  <2> QED
    BY <1>4, <2>1, <2>2 DEF t
<1> QED
  BY <1>1, <1>3, <1>6, <1>8, <1>9, <1>10, <1>11, <1>12, <1>13 DEF RegistryInv

\* All tasks but t are as before.
LEMMA OtherTasks ==
  ASSUME TypeOK, RegistryInv, NEW t \in Tasks, \A u \in Tasks \ {t} : task'[u] = task[u]
  PROVE  /\ Fits(task'[t]) => \A u \in Tasks : Fits(task'[u])
         /\ (Ended(task[t]) => Ended(task'[t]) /\ task'[t].snapshot = task[t].snapshot) =>
              \A r \in received : Ended(task'[r.task]) /\ r.told = task'[r.task].snapshot
<1>1. ASSUME Fits(task'[t]), NEW u \in Tasks PROVE Fits(task'[u])
  BY <1>1 DEF RegistryInv
<1>2. ASSUME Ended(task[t]) => Ended(task'[t]) /\ task'[t].snapshot = task[t].snapshot,
             NEW r \in received
      PROVE  Ended(task'[r.task]) /\ r.told = task'[r.task].snapshot
  <2>1. r.task \in Tasks /\ Ended(task[r.task]) /\ r.told = task[r.task].snapshot
    BY DEF TypeOK, RegistryInv
  <2> QED
    BY <1>2, <2>1
<1> QED
  BY <1>1, <1>2

LEMMA ContinueStep ==
  ASSUME TypeOK, RegistryInv, NEW c \in Clients, NEW t \in Tasks, Continue(c, t)
  PROVE  RegistryInv'
<1>1. /\ client[c].at = "handle" /\ task[t].state = "awaiting" /\ Answered(c)
      /\ UNCHANGED <<wg, daemon, received>>
  BY DEF Continue, Handles, At
<1>2. daemon.at # "down" /\ ~(daemon.at = "wait" /\ daemon.clean)
  BY <1>1 DEF RegistryInv, InDaemon
<1>3. /\ \A u \in Tasks \ {t} : task'[u] = task[u]
      /\ task'[t] = [task[t] EXCEPT !.state = "running", !.open = FALSE, !.answer = c]
  BY DEF Continue, TypeOK
<1>4. /\ task'[t].at = task[t].at /\ task'[t].state = "running"
      /\ task'[t].outcome = task[t].outcome /\ task'[t].post = task[t].post
      /\ task'[t].result = task[t].result
  BY <1>3, TaskFields DEF TaskRecords
<1>5. \A d \in Clients : client'[d].at = "launch" => client'[d] = client[d] /\ client[d].task # t
  BY <1>1, AnsweredOnly DEF OnlyOf, RegistryInv, Registered
<1>6. \A u \in Tasks : Fits(task'[u])
  <2>1. Fits(task[t])
    BY DEF RegistryInv
  <2>2. Fits(task'[t])
    BY <1>1, <1>4, <2>1 DEF Fits, Runs, Ended
  <2> QED
    BY <1>3, <2>2, OtherTasks
<1>7. \A r \in received' : Ended(task'[r.task]) /\ r.told = task'[r.task].snapshot
  BY <1>1, <1>3 DEF RegistryInv, TypeOK, Ended
<1>8. Working' = Working
  BY <1>3, <1>4 DEF Working
<1>9. \A d \in Clients : client'[d].at = "launch" =>
        client'[d].task \in Tasks /\ Registered(task'[client'[d].task])
  BY <1>3, <1>5 DEF RegistryInv
<1>10. \A d, e \in Clients :
         client'[d].at = "launch" /\ client'[e].at = "launch" /\ client'[d].task = client'[e].task
           => d = e
  BY <1>5 DEF RegistryInv
<1>11. \A u \in Tasks : Runs(task'[u]) =>
         \/ task'[u].at # "gone"
         \/ \E d \in Clients : client'[d].at = "launch" /\ client'[d].task = u
  <2> SUFFICES ASSUME NEW u \in Tasks, Runs(task'[u]), task'[u].at = "gone"
               PROVE  \E d \in Clients : client'[d].at = "launch" /\ client'[d].task = u
    OBVIOUS
  <2>1. Runs(task[u]) /\ task[u].at = "gone"
    <3>1. CASE u = t
      BY <1>1, <1>4, <3>1 DEF Runs
    <3>2. CASE u # t
      BY <1>3, <3>2
    <3> QED
      BY <3>1, <3>2
  <2>2. PICK d \in Clients : client[d].at = "launch" /\ client[d].task = u
    BY <1>2, <2>1 DEF RegistryInv
  <2>3. client'[d] = client[d]
    BY <1>1, <2>2, AnsweredOnly DEF OnlyOf
  <2> QED
    BY <2>2, <2>3
<1> QED
  BY <1>1, <1>2, <1>6, <1>7, <1>8, <1>9, <1>10, <1>11 DEF RegistryInv

LEMMA LeaveStep ==
  ASSUME TypeOK, RegistryInv, NEW t \in Tasks, Leave(t)
  PROVE  RegistryInv'
<1>1. /\ task[t].at = "leave" /\ wg' = wg - 1 /\ UNCHANGED <<client, daemon, received>>
      /\ \A u \in Tasks \ {t} : task'[u] = task[u]
      /\ task'[t] = [task[t] EXCEPT !.at = "gone"]
  BY DEF Leave, TaskAt, TypeOK
<1>2. /\ task'[t].at = "gone" /\ task'[t].state = task[t].state
      /\ task'[t].outcome = task[t].outcome /\ task'[t].post = task[t].post
      /\ task'[t].snapshot = task[t].snapshot
  BY <1>1, TaskFields DEF TaskRecords
<1>3. Fits(task[t]) /\ ~Runs(task[t]) /\ task[t].state # "absent" /\ daemon.at # "down"
  <2>1. Fits(task[t]) /\ daemon.at # "down"
    BY <1>1 DEF RegistryInv
  <2> QED
    BY <1>1, <2>1 DEF Fits, NoTask
<1>4. \A u \in Tasks : Fits(task'[u])
  <2>1. Fits(task'[t])
    BY <1>2, <1>3 DEF Fits, Runs, Ended
  <2> QED
    BY <1>1, <2>1, OtherTasks
<1>5. \A r \in received' : Ended(task'[r.task]) /\ r.told = task'[r.task].snapshot
  BY <1>1, <1>2, OtherTasks DEF Ended
<1>6. \A d \in Clients : client'[d].at = "launch" =>
        client'[d].task \in Tasks /\ Registered(task'[client'[d].task])
  BY <1>1 DEF RegistryInv, Registered
<1>7. IsFiniteSet(Working') /\ wg' = Cardinality(Working')
  <2>1. Working' = Working \ {t} /\ t \in Working
    BY <1>1, <1>2, ZenonT(60) DEF Working
  <2>2. IsFiniteSet(Working) /\ wg = Cardinality(Working)
    BY DEF RegistryInv
  <2>3. IsFiniteSet(Working \ {t}) /\ Cardinality(Working \ {t}) = Cardinality(Working) - 1
    BY <2>1, <2>2, FS_RemoveElement
  <2> QED
    BY <1>1, <2>1, <2>2, <2>3
<1>8. \A u \in Tasks : Runs(task'[u]) =>
        \/ task'[u].at # "gone"
        \/ \E d \in Clients : client'[d].at = "launch" /\ client'[d].task = u
  <2> SUFFICES ASSUME NEW u \in Tasks, Runs(task'[u]), task'[u].at = "gone"
               PROVE  \E d \in Clients : client'[d].at = "launch" /\ client'[d].task = u
    OBVIOUS
  <2>1. u # t
    BY <1>2, <1>3 DEF Runs
  <2> QED
    BY <1>1, <1>3, <2>1 DEF RegistryInv
<1> QED
  BY <1>1, <1>3, <1>4, <1>5, <1>6, <1>7, <1>8 DEF RegistryInv, InDaemon

LEMMA PostStep ==
  ASSUME TypeOK, RegistryInv, NEW t \in Tasks, NEW arrives \in BOOLEAN, NEW answered \in BOOLEAN,
         Post(t, arrives, answered)
  PROVE  RegistryInv'
<1> DEFINE k == IF answered THEN 3 ELSE task[t].post + 1
           told == [task |-> t, told |-> task[t].snapshot]
<1>1. /\ task[t].post \in {1, 2} /\ UNCHANGED <<client, daemon, wg>>
      /\ received' \subseteq received \cup {told}
      /\ \A u \in Tasks \ {t} : task'[u] = task[u]
      /\ task'[t] = [task[t] EXCEPT !.post = k]
  BY DEF Post, TypeOK
<1>2. told.task = t /\ told.told = task[t].snapshot
  OBVIOUS
<1> HIDE DEF k, told
<1>3. /\ task'[t].at = task[t].at /\ task'[t].state = task[t].state
      /\ task'[t].outcome = task[t].outcome /\ task'[t].snapshot = task[t].snapshot
      /\ task'[t].result = task[t].result
  BY <1>1, TaskFields DEF TaskRecords
<1>4. Fits(task[t]) /\ Ended(task[t]) /\ daemon.at # "down"
  <2>1. Fits(task[t]) /\ daemon.at # "down"
    BY <1>1 DEF RegistryInv
  <2> QED
    BY <1>1, <2>1 DEF Fits
<1>5. \A u \in Tasks : Fits(task'[u])
  <2>1. Fits(task'[t])
    BY <1>3, <1>4 DEF Fits, Runs, Ended
  <2> QED
    BY <1>1, <2>1, OtherTasks
<1>6. \A r \in received' : Ended(task'[r.task]) /\ r.told = task'[r.task].snapshot
  <2>1. \A r \in received : Ended(task'[r.task]) /\ r.told = task'[r.task].snapshot
    BY <1>1, <1>3, <1>4, OtherTasks DEF Ended
  <2>2. Ended(task'[told.task]) /\ told.told = task'[told.task].snapshot
    BY <1>2, <1>3, <1>4 DEF Ended
  <2> QED
    BY <1>1, <2>1, <2>2
<1>7. \A d \in Clients : client'[d].at = "launch" =>
        client'[d].task \in Tasks /\ Registered(task'[client'[d].task])
  <2>1. ~Registered(task[t])
    BY <1>4 DEF Registered, Ended
  <2> QED
    BY <1>1, <2>1 DEF RegistryInv
<1>8. Working' = Working
  BY <1>1, <1>3 DEF Working
<1>9. \A u \in Tasks : Runs(task'[u]) =>
        \/ task'[u].at # "gone"
        \/ \E d \in Clients : client'[d].at = "launch" /\ client'[d].task = u
  <2>1. ~Runs(task'[t])
    BY <1>3, <1>4 DEF Runs, Ended
  <2> QED
    BY <1>1, <1>4, <2>1 DEF RegistryInv
<1> QED
  BY <1>1, <1>4, <1>5, <1>6, <1>7, <1>8, <1>9 DEF RegistryInv, InDaemon

LEMMA ExitStep ==
  ASSUME TypeOK, RegistryInv, NEW clean, Exit(clean),
         clean => \A t \in Tasks : ~Runs(task[t])
  PROVE  RegistryInv'
<1>1. /\ daemon'.at = "down" /\ daemon'.clean = clean /\ wg' = 0 /\ received' = received
      /\ \A c \in Clients : client'[c].at = "idle"
      /\ \A t \in Tasks : task'[t] = [task[t] EXCEPT !.at = "gone", !.post = 0]
  BY DEF Exit, NoRequest
<1>2. \A t \in Tasks :
        /\ task'[t].at = "gone" /\ task'[t].post = 0 /\ task'[t].state = task[t].state
        /\ task'[t].outcome = task[t].outcome /\ task'[t].snapshot = task[t].snapshot
  <2> SUFFICES ASSUME NEW t \in Tasks
               PROVE  /\ task'[t].at = "gone" /\ task'[t].post = 0 /\ task'[t].state = task[t].state
                      /\ task'[t].outcome = task[t].outcome /\ task'[t].snapshot = task[t].snapshot
    OBVIOUS
  <2>1. task[t] \in TaskRecords
    BY TaskFields
  <2>2. task'[t] = [task[t] EXCEPT !.at = "gone", !.post = 0]
    BY <1>1
  <2> QED
    BY <2>1, <2>2 DEF TaskRecords
<1>3. Working' = {}
  BY <1>2 DEF Working
<1>4. IsFiniteSet(Working') /\ wg' = Cardinality(Working')
  BY <1>1, <1>3, FS_EmptySet
<1>5. ASSUME NEW t \in Tasks PROVE Fits(task'[t])
  <2>1. CASE task[t].state = "absent"
    <3>1. task[t] = NoTask
      <4>1. Fits(task[t])
        BY DEF RegistryInv
      <4> QED
        BY <2>1, <4>1 DEF Fits
    <3>2. task'[t] = NoTask
      <4>1. task'[t] = [NoTask EXCEPT !.at = "gone", !.post = 0]
        BY <1>1, <3>1
      <4> QED
        BY <4>1 DEF NoTask
    <3> QED
      BY <3>2 DEF Fits, NoTask, Ended, Runs
  <2>2. CASE task[t].state # "absent"
    BY <1>2, <2>2 DEF RegistryInv, Fits, Ended, Runs
  <2> QED
    BY <2>1, <2>2
<1>6. \A r \in received' : Ended(task'[r.task]) /\ r.told = task'[r.task].snapshot
  <2> SUFFICES ASSUME NEW r \in received
               PROVE  Ended(task'[r.task]) /\ r.told = task'[r.task].snapshot
    BY <1>1
  <2>1. r.task \in Tasks /\ Ended(task[r.task]) /\ r.told = task[r.task].snapshot
    BY DEF TypeOK, RegistryInv
  <2> QED
    BY <1>2, <2>1 DEF Ended
<1>7. daemon'.clean => \A t \in Tasks : ~Runs(task'[t])
  BY <1>1, <1>2 DEF Runs
<1> QED
  BY <1>1, <1>2, <1>4, <1>5, <1>6, <1>7 DEF RegistryInv

LEMMA RestartStep == ASSUME TypeOK, RegistryInv, Restart PROVE RegistryInv'
<1>1. /\ daemon.at = "down" /\ daemon'.at = "up" /\ received' = {}
      /\ UNCHANGED <<client, wg>> /\ \A t \in Tasks : task'[t] = NoTask
  BY DEF Restart
<1>2. /\ \A c \in Clients : client[c].at = "idle"
      /\ \A t \in Tasks : task[t].at = "gone"
  BY <1>1 DEF RegistryInv
<1>3. Working = {} /\ Working' = {}
  BY <1>1, <1>2 DEF Working, NoTask
<1>4. IsFiniteSet(Working') /\ wg' = Cardinality(Working')
  <2>1. wg = Cardinality(Working)
    BY DEF RegistryInv
  <2>2. wg = 0
    BY <1>3, <2>1, FS_EmptySet
  <2> QED
    BY <1>1, <1>3, <2>2, FS_EmptySet
<1>5. \A t \in Tasks : Fits(task'[t]) /\ ~Runs(task'[t])
  <2>1. Fits(NoTask) /\ ~Runs(NoTask)
    BY DEF Fits, NoTask, Ended, Runs
  <2> QED
    BY <1>1, <2>1
<1> QED
  BY <1>1, <1>2, <1>4, <1>5 DEF RegistryInv

LEMMA RegistryStep ==
  ASSUME TypeOK, RegistryInv, [Next]_vars
  PROVE  RegistryInv'
<1>1. ASSUME UNCHANGED <<task, client, wg, daemon, received>> PROVE RegistryInv'
  BY <1>1 DEF RegistryInv, Working, InDaemon
<1>2. CASE Tick \/ UNCHANGED vars
  BY <1>1, <1>2 DEF Tick, vars, registry
<1>3. ASSUME NEW c \in Clients, Quiet(c) PROVE RegistryInv'
  BY <1>3, QuietStep, ClientFrame
<1>4. ASSUME NEW t \in Tasks, Goroutine(t), ~Leave(t) PROVE RegistryInv'
  <2>1. ~Registered(task[t])
    BY <1>4, GoroutineKeeps DEF Registered
  <2> QED
    BY <1>4, <2>1, GoroutineKeeps, TaskFrame
<1>5. CASE Signal
  <2>1. /\ daemon.at = "up" /\ daemon'.at = "http"
        /\ UNCHANGED <<task, client, wg, received>>
    BY <1>5 DEF Signal, Up, registry, TypeOK
  <2>2. Working' = Working
    BY <2>1 DEF Working
  <2> QED
    BY <2>1, <2>2 DEF RegistryInv
<1>6. CASE HTTPShutdown
  <2>1. /\ daemon.at = "http" /\ daemon'.at = "wait" /\ (daemon'.clean => InDaemon = {})
        /\ UNCHANGED <<task, client, wg, received>>
    BY <1>6 DEF HTTPShutdown, registry, TypeOK
  <2>2. Working' = Working /\ InDaemon' = InDaemon
    BY <2>1 DEF Working, InDaemon
  <2> QED
    BY <2>1, <2>2 DEF RegistryInv
<1>7. CASE WaitAll
  <2>1. daemon.at = "wait" /\ Exit(daemon.clean /\ wg = 0)
    BY <1>7 DEF WaitAll
  <2>2. ASSUME daemon.clean, wg = 0, NEW t \in Tasks PROVE ~Runs(task[t])
    <3>1. Working = {}
      BY <2>2, FS_EmptySet DEF RegistryInv
    <3>2. \A c \in Clients : client[c].at # "launch"
      BY <2>1, <2>2 DEF RegistryInv, InDaemon
    <3> QED
      BY <2>1, <3>1, <3>2 DEF RegistryInv, Working
  <2> QED
    BY <2>1, <2>2, ExitStep
<1>8. CASE Fail
  BY <1>8, ExitStep DEF Fail
<1> QED
  BY <1>2, <1>3, <1>4, <1>5, <1>6, <1>7, <1>8, StartStep, LaunchStep, ContinueStep, LeaveStep,
     PostStep, RestartStep DEF Next, Quiet, Handler, Goroutine

-----------------------------------------------------------------------------
(* The theorems.                                                           *)

DaemonInv == TypeOK /\ LimiterInv /\ AnswersInv /\ RegistryInv

\* The wait group is a number, whatever the step, because it counts the
\* goroutines.
LEMMA DaemonStep == DaemonInv /\ [Next]_vars => DaemonInv'
<1> SUFFICES ASSUME DaemonInv, [Next]_vars PROVE DaemonInv'
  OBVIOUS
<1>1. RegistryInv'
  BY RegistryStep DEF DaemonInv
<1>2. wg' \in Nat
  <2>1. IsFiniteSet(Working') /\ wg' = Cardinality(Working')
    BY <1>1 DEF RegistryInv
  <2> QED
    BY <2>1, FS_CardinalityType
<1>3. TypeOK'
  BY <1>2, TypeStep DEF DaemonInv
<1> QED
  BY <1>1, <1>3, LimiterStep, AnswersStep DEF DaemonInv

LEMMA DaemonInvariant == Spec => []DaemonInv
<1>1. Init => DaemonInv
  BY TypeInit, LimiterInit, AnswersInit, RegistryInit DEF DaemonInv
<1> QED
  BY <1>1, DaemonStep, PTL DEF Spec

\* The variables of the daemon, the requests and the tasks keep their types;
\* the counter of the wait group never falls below zero (taskregistry.go
\* launch).
THEOREM DaemonTypes == Spec => []TypeOK
<1>1. DaemonInv => TypeOK
  BY DEF DaemonInv
<1> QED
  BY <1>1, DaemonInvariant, PTL

\* No more wrong passwords of an address than the limiter's number for each
\* window that has begun (auth.go Login, tooManyAttempts, countAttempt).
THEOREM DaemonGuesses == Spec => []GuessesBounded
<1>1. DaemonInv => GuessesBounded
  BY LimiterBounds DEF DaemonInv
<1> QED
  BY <1>1, DaemonInvariant, PTL

\* One answer to a wait is told that it counts, and it does (taskregistry.go
\* Continue, tapechanger.go RequestNext).
THEOREM DaemonAnswers == Spec => []AnswersMatch
<1>1. DaemonInv => AnswersMatch
  BY AnswersHold DEF DaemonInv
<1> QED
  BY <1>1, DaemonInvariant, PTL

\* The webhook tells what became of the task (taskregistry.go finishSuccess,
\* finishError; webhook.go).
THEOREM DaemonTells == Spec => []WebhookTellsOutcome
<1>1. DaemonInv => WebhookTellsOutcome
  BY RegistryHolds DEF DaemonInv
<1> QED
  BY <1>1, DaemonInvariant, PTL

\* A clean stop leaves no task that has not ended (server.go Run,
\* taskregistry.go launch, WaitAll).
THEOREM DaemonStops == Spec => []CleanStopEndsTasks
<1>1. DaemonInv => CleanStopEndsTasks
  BY RegistryHolds DEF DaemonInv
<1> QED
  BY <1>1, DaemonInvariant, PTL
=============================================================================
