------------------------------- MODULE Daemon -------------------------------
(***************************************************************************)
(* The daemon around the tape: requests with their authentication, the     *)
(* registry of background tasks with the operator's answers, the webhook   *)
(* that tells how a task ended, and the way the daemon stops.              *)
(* internal/iface/web: auth.go, handler_auth.go, taskregistry.go,          *)
(* handler_tasks.go, tapechanger.go, webhook.go, server.go; the client is  *)
(* internal/iface/cli/client.go.                                           *)
(*                                                                         *)
(* Every critical section is a step.  Who may open the device is TapeGate, *)
(* what a task writes is Backup; here a task is a goroutine that works,    *)
(* asks the operator for cassettes and ends.                               *)
(***************************************************************************)
EXTENDS Naturals, FiniteSets

CONSTANTS
  Clients,       \* whoever sends requests, one after the other
  KeyHolders,    \* the clients that have the API key
  IPs,           \* addresses
  Address,       \* the address of each client
  Tasks,         \* identifiers of tasks
  None,          \* no client, no task
  Window,        \* loginWindow
  MaxAttempts,   \* loginMaxAttempts
  TTL,           \* the lifetime of a session
  MaxSessions,   \* maxSessions
  MaxTime,       \* bound: the clock
  MaxTokens,     \* bound: tokens handed out
  MaxRequests,   \* bound: requests of one client
  MaxWaits       \* bound: cassettes a task asks for

ASSUME DaemonAssumption ==
  /\ KeyHolders \subseteq Clients /\ Address \in [Clients -> IPs]
  /\ None \notin Clients \cup Tasks
  /\ {Window, MaxAttempts, TTL, MaxSessions} \subseteq Nat \ {0}
  /\ {MaxTime, MaxTokens, MaxRequests, MaxWaits} \subseteq Nat

VARIABLES
  now,        \* the clock
  attempts,   \* authManager.attempts: [IP -> count and start of its window]
  sessions,   \* authManager.sessions: tokens and when they end
  minted,     \* tokens handed out so far
  client,     \* each client, its request and how far the daemon is with it
  task,       \* the registry, and where the goroutine of each task is
  wg,         \* TaskRegistry.wg
  daemon,     \* where Server.Run is
  \* for the properties only:
  guesses,    \* [IP -> wrong passwords looked at since a right one, and the first]
  granted,    \* answers to a waiting task that were answered with 200
  received    \* what the webhook's receiver was told

auth == <<attempts, sessions, minted, guesses>>
registry == <<task, wg>>
vars == <<now, attempts, sessions, minted, client, task, wg, daemon, guesses, granted, received>>

-----------------------------------------------------------------------------
(* Types.                                                                  *)

Kinds == {"start", "continue", "logout", "query"}

\* "denied": the answer was 401; "login" and "creds": the client logs in, the
\* daemon has read the clock for it; "repeat": it has a token.
ClientPCs == {"idle", "auth", "handle", "launch", "denied", "login", "creds", "repeat"}

Requests ==
  [at : ClientPCs, kind : Kinds, token : 0..MaxTokens, retried : BOOLEAN,
   clock : 0..MaxTime, task : Tasks \cup {None}, sent : Nat]

TaskStates == {"absent", "running", "awaiting", "success", "error"}

\* Where the goroutine of a task is; "gone": before its start, after its end,
\* and with the process.
TaskPCs == {"gone", "work", "wait", "result", "finish", "again", "leave"}

\* The payload of the webhook; 0, 1, 2: no, first, second attempt; 3: it is over.
Payloads == [state : {"none", "success", "error"}, result : BOOLEAN]

TaskRecords ==
  [state : TaskStates, at : TaskPCs, outcome : {"none", "success", "error"},
   result : BOOLEAN, waits : Nat, open : BOOLEAN, answer : Clients \cup {None},
   resumed : Clients \cup {None}, snapshot : Payloads, post : 0..3]

Answers == [task : Tasks, wait : Nat, by : Clients]

TypeOK ==
  /\ now \in 0..MaxTime
  /\ attempts \in [IPs -> [count : 0..MaxAttempts, since : 0..MaxTime]]
  /\ \A s \in sessions : s \in [token : 1..MaxTokens, until : Nat]
  /\ minted \in 0..MaxTokens
  /\ client \in [Clients -> Requests]
  /\ task \in [Tasks -> TaskRecords]
  /\ wg \in Nat
  /\ daemon \in [at : {"up", "http", "wait", "down"}, cancelled : BOOLEAN, clean : BOOLEAN]
  /\ guesses \in [IPs -> [count : Nat, first : 0..MaxTime]]
  /\ \A g \in granted : g \in Answers
  /\ \A r \in received : r \in [task : Tasks, told : Payloads]

NoRequest == [at |-> "idle", kind |-> "query", token |-> 0, retried |-> FALSE,
              clock |-> 0, task |-> None, sent |-> 0]
NoPayload == [state |-> "none", result |-> FALSE]
NoTask == [state |-> "absent", at |-> "gone", outcome |-> "none", result |-> FALSE,
           waits |-> 0, open |-> FALSE, answer |-> None, resumed |-> None,
           snapshot |-> NoPayload, post |-> 0]

Init ==
  /\ now = 0
  /\ attempts = [ip \in IPs |-> [count |-> 0, since |-> 0]]
  /\ sessions = {} /\ minted = 0
  /\ client = [c \in Clients |-> NoRequest]
  /\ task = [t \in Tasks |-> NoTask] /\ wg = 0
  /\ daemon = [at |-> "up", cancelled |-> FALSE, clean |-> TRUE]
  /\ guesses = [ip \in IPs |-> [count |-> 0, first |-> 0]]
  /\ granted = {} /\ received = {}

Tick ==
  /\ now < MaxTime /\ now' = now + 1
  /\ UNCHANGED <<auth, client, registry, daemon, granted, received>>

-----------------------------------------------------------------------------
(* A request: HTTPClient.do on one side, the middleware on the other.      *)

Up == daemon.at = "up"
At(c, pc) == client[c].at = pc
GoesTo(c, pc) == client' = [client EXCEPT ![c].at = pc]

\* The answer is there, or none comes: the client keeps its token.
Answered(c) ==
  client' = [client EXCEPT ![c] = [NoRequest EXCEPT !.token = client[c].token,
                                                    !.sent = client[c].sent]]

Send(c, kind) ==
  /\ Up /\ At(c, "idle") /\ client[c].sent < MaxRequests
  /\ client' = [client EXCEPT ![c].at = "auth", ![c].kind = kind, ![c].sent = @ + 1]
  /\ UNCHANGED <<now, auth, registry, daemon, granted, received>>

Known(c) == {s \in sessions : s.token = client[c].token}
Alive(s, at) == at < s.until

\* A daemon without a user name asks nobody (authManager.enabled): that is the
\* daemon of which every client has the key.
ValidAPIKey(c) == c \in KeyHolders

ValidSession(c) == \E s \in Known(c) : Alive(s, now)

\* authMiddleware: the session, or the API key of a client that has no token; a
\* session that has ended goes.
Authenticate(c) ==
  /\ At(c, "auth")
  /\ IF client[c].token = 0
     THEN /\ GoesTo(c, IF ValidAPIKey(c) THEN "handle" ELSE "denied")
          /\ UNCHANGED sessions
     ELSE /\ GoesTo(c, IF ValidSession(c) THEN "handle" ELSE "denied")
          /\ sessions' = {s \in sessions : s \in Known(c) => Alive(s, now)}
  /\ UNCHANGED <<now, attempts, minted, registry, daemon, guesses, granted, received>>

\* HTTPClient.do logs in after the first 401, if there is somebody to ask for
\* the password, and never again.
Denied(c) ==
  /\ At(c, "denied")
  /\ \/ Answered(c)
     \/ ~client[c].retried /\ GoesTo(c, "login")
  /\ UNCHANGED <<now, auth, registry, daemon, granted, received>>

\* The request for a session reaches the daemon, which reads the clock.
SendLogin(c) ==
  /\ Up /\ At(c, "login")
  /\ client' = [client EXCEPT ![c].at = "creds", ![c].clock = now]
  /\ UNCHANGED <<now, auth, registry, daemon, granted, received>>

\* With the session's token the request is sent once more.
SendAgain(c) ==
  /\ Up /\ At(c, "repeat")
  /\ GoesTo(c, "auth")
  /\ UNCHANGED <<now, auth, registry, daemon, granted, received>>

\* The daemon listens no longer.
Unanswered(c) ==
  /\ ~Up /\ client[c].at \in {"login", "repeat"}
  /\ Answered(c)
  /\ UNCHANGED <<now, auth, registry, daemon, granted, received>>

-----------------------------------------------------------------------------
(* authManager.Login: one critical section, whose clock was read before.    *)

\* SEEDED BUG: a login that read the clock before the window began is taken for
\* one after it (unsigned difference).
WindowOverOrAhead(c) ==
  \/ client[c].clock >= attempts[Address[c]].since + Window
  \/ client[c].clock < attempts[Address[c]].since

WindowOver(c) == client[c].clock >= attempts[Address[c]].since + Window

\* The attempts that count at this moment.
Counting(c) == IF WindowOver(c) THEN 0 ELSE attempts[Address[c]].count

TooManyAttempts(c) == Counting(c) >= MaxAttempts

CountAttempt(c) ==
  attempts' = [attempts EXCEPT ![Address[c]] =
    [count |-> Counting(c) + 1,
     since |-> IF Counting(c) = 0 THEN client[c].clock ELSE @.since]]

LoginLimited(c) ==
  /\ At(c, "creds") /\ TooManyAttempts(c)
  /\ Answered(c)
  /\ UNCHANGED <<now, auth, registry, daemon, granted, received>>

LoginWrong(c) ==
  /\ At(c, "creds") /\ ~TooManyAttempts(c)
  /\ CountAttempt(c)
  /\ guesses' = [guesses EXCEPT ![Address[c]] =
       [count |-> @.count + 1, first |-> IF @.count = 0 THEN client[c].clock ELSE @.first]]
  /\ Answered(c)
  /\ UNCHANGED <<now, sessions, minted, registry, daemon, granted, received>>

\* The right password: the counter starts anew also when there are too many
\* sessions.
LoginRight(c) ==
  /\ At(c, "creds") /\ ~TooManyAttempts(c)
  /\ attempts' = [attempts EXCEPT ![Address[c]] = [count |-> 0, since |-> 0]]
  /\ guesses' = [guesses EXCEPT ![Address[c]] = [count |-> 0, first |-> 0]]
  /\ LET kept == {s \in sessions : Alive(s, client[c].clock)}
     IN  IF Cardinality(kept) >= MaxSessions
         THEN /\ sessions' = kept /\ UNCHANGED minted
              /\ Answered(c)
         ELSE /\ minted < MaxTokens /\ minted' = minted + 1
              /\ sessions' = kept \cup {[token |-> minted', until |-> client[c].clock + TTL]}
              /\ client' = [client EXCEPT ![c].at = "repeat", ![c].retried = TRUE,
                                          ![c].token = minted']
  /\ UNCHANGED <<now, registry, daemon, granted, received>>

-----------------------------------------------------------------------------
(* The handlers.                                                           *)

Handles(c, kind) == At(c, "handle") /\ client[c].kind = kind
Active(t) == task[t].state \in {"running", "awaiting"}
HasActive == \E t \in Tasks : Active(t)

\* A task holds the gate from its reservation to the end of its function.
GateHeld == \E t \in Tasks : Active(t) \/ task[t].at \notin {"gone", "leave"}

\* SEEDED BUG: the goroutine adds itself to the wait group.
StartUncounted(c) ==
  /\ Handles(c, "start") /\ ~GateHeld /\ ~HasActive
  /\ \E t \in Tasks :
       /\ task[t].state = "absent"
       /\ task' = [task EXCEPT ![t] = [NoTask EXCEPT !.state = "running", !.at = "work"]]
  /\ Answered(c)
  /\ UNCHANGED <<now, auth, wg, daemon, granted, received>>

\* startTapeTask, StartIfIdle: the task is in the registry ...
StartIfIdle(c) ==
  /\ Handles(c, "start") /\ ~GateHeld /\ ~HasActive
  /\ \E t \in Tasks :
       /\ task[t].state = "absent"
       /\ task' = [task EXCEPT ![t].state = "running"]
       /\ client' = [client EXCEPT ![c].at = "launch", ![c].task = t]
  /\ UNCHANGED <<now, auth, wg, daemon, granted, received>>

StartRefused(c) ==
  /\ Handles(c, "start") /\ (GateHeld \/ HasActive)
  /\ Answered(c)
  /\ UNCHANGED <<now, auth, registry, daemon, granted, received>>

\* ... and, outside the lock, in the wait group: launch.
Launch(c) ==
  /\ At(c, "launch")
  /\ wg' = wg + 1
  /\ task' = [task EXCEPT ![client[c].task].at = "work"]
  /\ Answered(c)
  /\ UNCHANGED <<now, auth, daemon, granted, received>>

\* SEEDED BUG: the task stays ready for another answer.
ContinueAgain(c, t) ==
  /\ Handles(c, "continue") /\ task[t].state = "awaiting" /\ task[t].open
  /\ task' = [task EXCEPT ![t].answer = c]
  /\ granted' = granted \cup {[task |-> t, wait |-> task[t].waits, by |-> c]}
  /\ Answered(c)
  /\ UNCHANGED <<now, auth, wg, daemon, received>>

\* Task.Continue: the answer goes into the channel of this wait.
Continue(c, t) ==
  /\ Handles(c, "continue") /\ task[t].state = "awaiting" /\ task[t].open
  /\ task' = [task EXCEPT ![t].state = "running", ![t].open = FALSE, ![t].answer = c]
  /\ granted' = granted \cup {[task |-> t, wait |-> task[t].waits, by |-> c]}
  /\ Answered(c)
  /\ UNCHANGED <<now, auth, wg, daemon, received>>

\* 404, or 409 not_awaiting_tape.
ContinueRefused(c) ==
  /\ Handles(c, "continue") /\ \E t \in Tasks : task[t].state # "awaiting"
  /\ Answered(c)
  /\ UNCHANGED <<now, auth, registry, daemon, granted, received>>

Logout(c) ==
  /\ Handles(c, "logout")
  /\ sessions' = sessions \ Known(c)
  /\ Answered(c)
  /\ UNCHANGED <<now, attempts, minted, registry, daemon, guesses, granted, received>>

Query(c) ==
  /\ Handles(c, "query")
  /\ Answered(c)
  /\ UNCHANGED <<now, auth, registry, daemon, granted, received>>

-----------------------------------------------------------------------------
(* The goroutine of a task and the webhook.                                *)

TaskAt(t, pc) == task[t].at = pc
OnlyTask == UNCHANGED <<now, auth, client, wg, daemon, granted, received>>

\* RequestNext: enterAwaiting makes a new channel.
EnterAwaiting(t) ==
  /\ TaskAt(t, "work") /\ task[t].state = "running" /\ task[t].waits < MaxWaits
  /\ task' = [task EXCEPT ![t].at = "wait", ![t].state = "awaiting", ![t].waits = @ + 1,
                          ![t].open = TRUE, ![t].answer = None, ![t].resumed = None]
  /\ OnlyTask

\* The answer is taken; the task goes on with that cassette.
Resume(t) ==
  /\ TaskAt(t, "wait") /\ task[t].answer # None
  /\ task' = [task EXCEPT ![t].at = "work", ![t].resumed = task[t].answer,
                          ![t].answer = None]
  /\ OnlyTask

\* onFinish is given the snapshot of the critical section that ended the task,
\* starts a goroutine that posts it, and returns.
EndsAs(t, state, pc) ==
  IF Active(t)
  THEN [task EXCEPT ![t].state = state, ![t].open = FALSE, ![t].at = pc, ![t].post = 1,
                    ![t].outcome = IF @ = "none" THEN state ELSE @,
                    ![t].snapshot = [state |-> state, result |-> task[t].result]]
  ELSE [task EXCEPT ![t].at = pc]

\* The use case, the device or the cancelled wait failed: the progress reporter
\* or the handler fixes the error, whoever comes first; the other finds the
\* task ended.
FinishError(t) ==
  /\ TaskAt(t, "work") \/ (TaskAt(t, "wait") /\ daemon.cancelled)
  /\ task' = EndsAs(t, "error", "again")
  /\ OnlyTask

\* SEEDED BUG: the progress reporter ends the task when the use case is done.
UseCaseDoneFinishes(t) ==
  /\ TaskAt(t, "work") /\ task[t].state = "running"
  /\ task' = EndsAs(t, "success", "again")
  /\ OnlyTask

\* The use case calls Done, which a deferred reporter ignores, and returns.
UseCaseDone(t) ==
  /\ TaskAt(t, "work") /\ task[t].state = "running"
  /\ task' = [task EXCEPT ![t].at = "result", ![t].outcome = "success"]
  /\ OnlyTask

SetResult(t) ==
  /\ TaskAt(t, "result")
  /\ task' = [task EXCEPT ![t].at = "finish", ![t].result = TRUE]
  /\ OnlyTask

FinishSuccess(t) ==
  /\ TaskAt(t, "finish")
  /\ task' = EndsAs(t, "success", "leave")
  /\ OnlyTask

\* After prog.Fail the handler calls finishError again: nothing happens.
FinishAgain(t) ==
  /\ TaskAt(t, "again")
  /\ task' = EndsAs(t, "error", "leave")
  /\ OnlyTask

\* The goroutine returns: wg.Done.
Leave(t) ==
  /\ TaskAt(t, "leave")
  /\ wg' = wg - 1
  /\ task' = [task EXCEPT ![t].at = "gone"]
  /\ UNCHANGED <<now, auth, client, daemon, granted, received>>

\* One POST of two: it arrives and is answered with 2xx, it arrives and the
\* answer is lost or an error, or it does not arrive.
Post(t, arrives, answered) ==
  /\ task[t].post \in {1, 2} /\ (answered => arrives)
  /\ task' = [task EXCEPT ![t].post = IF answered THEN 3 ELSE @ + 1]
  /\ received' = IF arrives THEN received \cup {[task |-> t, told |-> task[t].snapshot]}
                 ELSE received
  /\ UNCHANGED <<now, auth, client, wg, daemon, granted>>

-----------------------------------------------------------------------------
(* Server.Run, the end of the process and its next start.                  *)

InDaemon == {c \in Clients : client[c].at \in {"auth", "handle", "launch", "creds"}}

Signal ==
  /\ Up
  /\ daemon' = [daemon EXCEPT !.at = "http"]
  /\ UNCHANGED <<now, auth, client, registry, granted, received>>

\* http.Server.Shutdown: until no handler is under way, or 5 seconds; then the
\* context of the tasks is cancelled.
HTTPShutdown ==
  /\ daemon.at = "http"
  /\ daemon' = [daemon EXCEPT !.at = "wait", !.cancelled = TRUE,
                              !.clean = @ /\ InDaemon = {}]
  /\ UNCHANGED <<now, auth, client, registry, granted, received>>

\* The process is gone, and with it every goroutine and connection, the
\* sessions and the counters.
Exit(clean) ==
  /\ daemon' = [at |-> "down", cancelled |-> TRUE, clean |-> clean]
  /\ client' = [c \in Clients |-> [NoRequest EXCEPT !.token = client[c].token,
                                                    !.sent = client[c].sent]]
  /\ task' = [t \in Tasks |-> [task[t] EXCEPT !.at = "gone", !.post = 0]]
  /\ sessions' = {} /\ wg' = 0
  /\ attempts' = [ip \in IPs |-> [count |-> 0, since |-> 0]]
  /\ guesses' = [ip \in IPs |-> [count |-> 0, first |-> 0]]
  /\ UNCHANGED <<now, minted, granted, received>>

\* WaitAll: the wait group is empty, or 30 seconds are over.
WaitAll == daemon.at = "wait" /\ Exit(daemon.clean /\ wg = 0)

\* The listener fails: Run returns at once.  Or the process is killed.
Fail == Up /\ Exit(FALSE)

\* The registry lives in memory.
Restart ==
  /\ daemon.at = "down"
  /\ daemon' = [at |-> "up", cancelled |-> FALSE, clean |-> TRUE]
  /\ task' = [t \in Tasks |-> NoTask]
  /\ granted' = {} /\ received' = {}
  /\ UNCHANGED <<now, auth, client, wg>>

Handler(c) ==
  \/ StartIfIdle(c) \/ StartRefused(c) \/ Launch(c)
  \/ \E t \in Tasks : Continue(c, t)
  \/ ContinueRefused(c) \/ Logout(c) \/ Query(c)

Login(c) ==
  \/ SendLogin(c) \/ SendAgain(c) \/ Unanswered(c)
  \/ LoginLimited(c) \/ LoginWrong(c) \/ LoginRight(c)

Goroutine(t) ==
  \/ EnterAwaiting(t) \/ Resume(t) \/ UseCaseDone(t) \/ SetResult(t)
  \/ FinishSuccess(t) \/ FinishError(t) \/ FinishAgain(t) \/ Leave(t)

Next ==
  \/ Tick
  \/ \E c \in Clients :
       \/ \E kind \in Kinds : Send(c, kind)
       \/ Authenticate(c) \/ Denied(c) \/ Login(c) \/ Handler(c)
  \/ \E t \in Tasks :
       \/ Goroutine(t)
       \/ \E arrives, answered \in BOOLEAN : Post(t, arrives, answered)
  \/ Signal \/ HTTPShutdown \/ WaitAll \/ Fail \/ Restart

Spec == Init /\ [][Next]_vars

-----------------------------------------------------------------------------
(* Properties.                                                             *)

\* However the wrong passwords of one address are spread over its clients, over
\* time and over the windows of the limiter, and however long a login waits for
\* the lock after it has read the clock: since the last right one, no more than
\* loginMaxAttempts are looked at for each loginWindow that has begun
\* (auth.go Login, tooManyAttempts, countAttempt).
GuessesBounded ==
  \A ip \in IPs :
    guesses[ip].count <= MaxAttempts * (1 + (now - guesses[ip].first) \div Window)

\* Of all answers to one wait for a cassette, from whichever clients and
\* however they race with each other and with the stop of the daemon, one is
\* told 200, and the task goes on with the cassette of that one
\* (taskregistry.go enterAwaiting, Continue; tapechanger.go RequestNext).
AnswersMatch ==
  /\ \A g, h \in granted : g.task = h.task /\ g.wait = h.wait => g = h
  /\ \A t \in Tasks : task[t].resumed # None =>
       [task |-> t, wait |-> task[t].waits, by |-> task[t].resumed] \in granted

\* The webhook tells about a task what became of its use case: a success comes
\* with the result, an error is never told as a success, two deliveries tell the
\* same, and neither a late finish nor a repeated one changes it
\* (taskregistry.go finishSuccess, finishError; handler_tasks.go; webhook.go).
WebhookTellsOutcome ==
  \A r \in received :
    /\ r.told.state = task[r.task].outcome
    /\ r.told.state = "success" => r.told.result
    /\ task[r.task].state = r.told.state

\* A daemon that stopped without giving up on a handler or on the tasks leaves
\* no task behind that the registry took on: also one that was registered
\* while the daemon was told to stop has ended (server.go Run, taskregistry.go
\* launch, WaitAll).
CleanStopEndsTasks == daemon.at = "down" /\ daemon.clean => ~HasActive
=============================================================================
