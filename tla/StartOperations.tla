--------------------------- MODULE StartOperations ---------------------------
(***************************************************************************)
(* Durable agent starts: relay/herdr_relay/operations.py over SQLite, the  *)
(* threads that serve start_session and cancel_start, one worker thread    *)
(* per running operation, and the Herdr server the workers command.        *)
(*                                                                         *)
(* A step is one SQL transaction, one call that leaves the process, or one *)
(* check of the cancel event and the row.  The journal and Herdr survive a *)
(* crash of the relay; threads, events and the running set do not.         *)
(***************************************************************************)
EXTENDS Naturals, FiniteSets

CONSTANTS Ops,         \* operation ids uuid4 may draw; each fixes its agent's name
          Requests,    \* request ids clients send
          Clients,     \* to_thread threads that serve commands
          Threads,     \* worker threads
          Tabs,        \* tabs Herdr may open; a tab stands for its root pane too
          None,        \* SQL NULL, Python None
          CanWake,     \* the host's configuration grants wake
          MaxAttempt,  \* the limit on attempt (1000 in the code)
          MaxCommands, \* bound: commands served in a behaviour
          MaxCrashes,  \* bound: crashes of the relay
          MaxFaults    \* bound: exceptions (a locked database, a refused thread)

ASSUME ConstantsOK ==
    /\ None \notin Ops \cup Requests \cup Tabs \cup Threads
    /\ CanWake \in BOOLEAN
    /\ MaxAttempt \in Nat \ {0} /\ MaxCommands \in Nat
    /\ MaxCrashes \in Nat /\ MaxFaults \in Nat

VARIABLES
    rows,      \* start_operations, by operation id
    marked,    \* operations whose project had its last launch stamped
    running,   \* _running
    event,     \* _cancel_events: "absent", "clear" or "set"
    worker,    \* the worker threads' frames
    client,    \* the command threads' frames
    up,        \* the relay process lives
    owner,     \* the operation a tab was asked for; Herdr never reuses a name
    tabs,      \* tabs open on the host
    agent,     \* Herdr's name registry: the tab where the operation's agent runs
    calls,     \* tab create and agent start calls Herdr has yet to decide
    commands, crashes, faults,   \* how much of each bound is spent
    ran,       \* history: tabs each operation's agent ever ran in
    unseen,    \* history: agents an orphaned call started since the last probe
    missed     \* history: operations with a cancel whose event no worker holds

journal == <<rows, marked>>
process == <<running, event, worker, client, up>>
herdr == <<owner, tabs, agent, calls>>
budget == <<commands, crashes, faults>>
history == <<ran, unseen, missed>>
vars == <<journal, process, herdr, budget, history>>

-----------------------------------------------------------------------------
(* The journal.                                                             *)

ACTIVE_STAGES == {"queued", "sending_wake", "waiting_for_host",
                  "checking_herdr", "starting_agent"}
TERMINAL_STAGES == {"started", "failed", "cancelled"}
\* Slip: any settled start may be retried.
SettledStages == {"started", "failed", "cancelled"}
RETRYABLE_STAGES == {"failed", "cancelled"}
ErrorCodes == {"CONFIGURATION_CHANGED", "HOST_OFFLINE", "HERDR_UNAVAILABLE",
               "WAKE_FAILED", "READY_TIMEOUT", "LAUNCH_FAILED",
               "AGENT_NOT_OBSERVABLE"}

Row == [stage: ACTIVE_STAGES \cup TERMINAL_STAGES \cup {"absent"},
        request: Requests \cup {None}, source: Ops \cup {None},
        attempt: 0..MaxAttempt, session: Tabs \cup {None},
        error: ErrorCodes \cup {None}]

NoRow == [stage |-> "absent", request |-> None, source |-> None,
          attempt |-> 0, session |-> None, error |-> None]

NewRow(request, source, attempt) ==
    [NoRow EXCEPT !.stage = "queued", !.request = request,
                  !.source = source, !.attempt = attempt]

Exists(o) == rows[o].stage # "absent"
Active(o) == rows[o].stage \in ACTIVE_STAGES
Terminal(o) == rows[o].stage \in TERMINAL_STAGES

ByRequest(r) == {o \in Ops : Exists(o) /\ rows[o].request = r}
ByRetry(source, attempt) ==
    {o \in Ops : /\ Exists(o) /\ source # None
                 /\ rows[o].source = source /\ rows[o].attempt = attempt}

\* OperationStore.begin answers with the row of the request, else with the row
\* of the same retry, before it inserts one.
\* Slip: only the request id is looked up again inside the transaction.
KnownByRequest(r, s, attempt) == ByRequest(r)
Known(r, s, attempt) ==
    IF ByRequest(r) # {} THEN ByRequest(r) ELSE ByRetry(s, attempt)

\* OperationStore.active.
\* Slip: recovery resumes only the starts no worker had begun.
StillQueued == {o \in Ops : rows[o].stage = "queued"}
Recovered == {o \in Ops : Active(o)}

\* OperationStore.update: the WHERE clause leaves a terminal row alone.
\* Slip: no WHERE clause on the stage.
Overwritten(row, stage, session, error) ==
    [row EXCEPT !.stage = stage, !.error = error,
                !.session = IF session = None THEN @ ELSE session]
Updated(row, stage, session, error) ==
    IF row.stage \in ACTIVE_STAGES
    THEN [row EXCEPT !.stage = stage, !.error = error,
                     !.session = IF session = None THEN @ ELSE session]
    ELSE row

\* OperationStore.cancel, under the same WHERE clause.
\* Slip: the event alone cancels, the row is left to the worker.
LeftToWorker(row) == row
Withdrawn(row) ==
    IF row.stage \in ACTIVE_STAGES
    THEN [row EXCEPT !.stage = "cancelled", !.error = None]
    ELSE row

\* Slip: a stage the recovery query does not list.
TransitionUnlisted(o, stage) ==
    rows' = [rows EXCEPT ![o] = Updated(@, "resuming", None, None)]
Transition(o, stage) ==
    rows' = [rows EXCEPT ![o] = Updated(@, stage, None, None)]

-----------------------------------------------------------------------------
(* Frames of the threads.                                                   *)

WorkerPC == {"idle", "load", "context", "probe", "probed", "wake", "woken",
             "pause", "gate", "create", "creating", "created", "start",
             "starting", "replied", "close", "observed", "record", "finish",
             "failing", "exit"}

Answers == {"nothing", "offline", "reachable", "absent", "found"}

\* phase: which probe loop runs; seen and pane: the last probe's or start's
\* answer; tab: the tab this worker opened; then: where a close continues;
\* late: the loop's deadline has passed.
Worker == [op: Ops \cup {None}, pc: WorkerPC,
           phase: {"first", "wait", "settle", "recover"},
           seen: Answers,
           pane: Tabs \cup {None}, tab: Tabs \cup {None},
           reply: {"nothing", "ok", "started", "unreadable", "taken", "error"},
           then: {"exit", "pause", "failing"}, late: BOOLEAN,
           code: ErrorCodes \cup {None}]

IdleWorker == [op |-> None, pc |-> "idle", phase |-> "first",
               seen |-> "nothing", pane |-> None, tab |-> None,
               reply |-> "nothing", then |-> "exit", late |-> FALSE,
               code |-> None]

FreshWorker(o) == [IdleWorker EXCEPT !.op = o, !.pc = "load"]

Client == [pc: {"idle", "lookup", "source", "admit", "ensure", "signal", "withdraw"},
           op: Ops \cup {None}, request: Requests \cup {None},
           source: Ops \cup {None}, attempt: 0..MaxAttempt]

IdleClient == [pc |-> "idle", op |-> None, request |-> None,
               source |-> None, attempt |-> 0]

\* by: the worker that waits for the answer; None once it gave up or died.
Call == [kind: {"create", "start"}, tab: Tabs, by: Threads \cup {None}]

At(w, pc) == worker[w].pc = pc
Op(w) == worker[w].op
Goto(w, pc) == worker' = [worker EXCEPT ![w].pc = pc]
Fail(w, code) == worker' = [worker EXCEPT ![w].pc = "failing", ![w].code = code]

\* _is_cancelled
Cancelled(o) == event[o] = "set" \/ rows[o].stage = "cancelled"

-----------------------------------------------------------------------------

Init ==
    /\ rows = [o \in Ops |-> NoRow]
    /\ marked = {}
    /\ running = {}
    /\ event = [o \in Ops |-> "absent"]
    /\ worker = [w \in Threads |-> IdleWorker]
    /\ client = [c \in Clients |-> IdleClient]
    /\ up = TRUE
    /\ owner = [t \in Tabs |-> None]
    /\ tabs = {}
    /\ agent = [o \in Ops |-> None]
    /\ calls = {}
    /\ commands = 0 /\ crashes = 0 /\ faults = 0
    /\ ran = [o \in Ops |-> {}]
    /\ unseen = {}
    /\ missed = {}

-----------------------------------------------------------------------------
(* begin_start and cancel_start, each on a thread of its own.               *)

\* A start_session frame reaches its thread: a fresh start, or a retry of s.
BeginCommand(c) ==
    /\ up /\ client[c].pc = "idle" /\ commands < MaxCommands
    /\ commands' = commands + 1
    /\ \E r \in Requests, s \in {o \in Ops : Exists(o)} \cup {None} :
         client' = [client EXCEPT ![c] =
             [IdleClient EXCEPT !.pc = "lookup", !.request = r, !.source = s]]
    /\ UNCHANGED <<journal, running, event, worker, up, herdr, crashes, faults, history>>

\* store.by_request: a request id seen before is replayed, whatever it asks.
LookupRequest(c) ==
    /\ client[c].pc = "lookup"
    /\ LET seen == ByRequest(client[c].request) IN
       \/ \E o \in seen :
            client' = [client EXCEPT ![c].pc = "ensure", ![c].op = o]
       \/ /\ seen = {} /\ client[c].source # None
          /\ client' = [client EXCEPT ![c].pc = "source"]
       \/ /\ seen = {} /\ client[c].source = None
          /\ client' = [client EXCEPT ![c].pc = "admit", ![c].attempt = 1]
    /\ UNCHANGED <<journal, running, event, worker, up, herdr, budget, history>>

\* A retry reads its source's row, checks the stage and the attempt number,
\* then looks for a row that already is this retry.
ReadSource(c) ==
    /\ client[c].pc = "source"
    /\ LET s == client[c].source
           attempt == rows[s].attempt + 1
           taken == ByRetry(s, attempt) IN
       \/ /\ rows[s].stage \notin RETRYABLE_STAGES \/ attempt > MaxAttempt
          /\ client' = [client EXCEPT ![c] = IdleClient]
       \/ /\ rows[s].stage \in RETRYABLE_STAGES /\ attempt <= MaxAttempt
          /\ \/ \E o \in taken :
                  client' = [client EXCEPT ![c].pc = "ensure", ![c].op = o]
             \/ /\ taken = {}
                /\ client' = [client EXCEPT ![c].pc = "admit", ![c].attempt = attempt]
    /\ UNCHANGED <<journal, running, event, worker, up, herdr, budget, history>>

\* _project_context(verify_path=False) refuses the command before the journal.
RefuseCommand(c) ==
    /\ client[c].pc = "admit"
    /\ client' = [client EXCEPT ![c] = IdleClient]
    /\ UNCHANGED <<journal, running, event, worker, up, herdr, budget, history>>

\* OperationStore.begin, one BEGIN IMMEDIATE transaction.
Admit(c) ==
    /\ client[c].pc = "admit"
    /\ LET r == client[c].request
           s == client[c].source
           attempt == client[c].attempt
           known == Known(r, s, attempt) IN
       \/ \E o \in known :
            /\ client' = [client EXCEPT ![c].pc = "ensure", ![c].op = o]
            /\ UNCHANGED rows
       \/ /\ known = {}
          /\ \E o \in {x \in Ops : ~Exists(x)} :
               /\ rows' = [rows EXCEPT ![o] = NewRow(r, s, attempt)]
               /\ client' = [client EXCEPT ![c].pc = "ensure", ![c].op = o]
    /\ UNCHANGED <<marked, running, event, worker, up, herdr, budget, history>>

\* ensure_worker: the thread is listed in _running before it is started.
\* Slip: the set is not consulted.
StartWorker(o) ==
    /\ running' = running \cup {o}
    /\ \E w \in Threads : /\ At(w, "idle")
                          /\ worker' = [worker EXCEPT ![w] = FreshWorker(o)]
EnsureWorker(o) ==
    \/ o \in running /\ UNCHANGED <<running, worker>>
    \/ /\ o \notin running
       /\ running' = running \cup {o}
       /\ \E w \in Threads : /\ At(w, "idle")
                             /\ worker' = [worker EXCEPT ![w] = FreshWorker(o)]

Acknowledge(c) ==
    /\ client[c].pc = "ensure"
    /\ EnsureWorker(client[c].op)
    /\ client' = [client EXCEPT ![c] = IdleClient]
    /\ UNCHANGED <<journal, event, up, herdr, budget, history>>

\* A cancel_start frame reaches its thread.
CancelCommand(c) ==
    /\ up /\ client[c].pc = "idle" /\ commands < MaxCommands
    /\ commands' = commands + 1
    /\ \E o \in Ops :
         /\ Exists(o)
         /\ client' = [client EXCEPT ![c] = [IdleClient EXCEPT !.pc = "signal", !.op = o]]
    /\ UNCHANGED <<journal, running, event, worker, up, herdr, crashes, faults, history>>

\* cancel_start sets the event, if a worker has registered one, before it
\* writes the row.
Signal(c) ==
    /\ client[c].pc = "signal"
    /\ LET o == client[c].op IN
       /\ event' = [event EXCEPT ![o] = IF @ = "absent" THEN @ ELSE "set"]
       /\ missed' = IF event[o] = "absent" THEN missed \cup {o} ELSE missed
    /\ client' = [client EXCEPT ![c].pc = "withdraw"]
    /\ UNCHANGED <<journal, running, worker, up, herdr, budget, ran, unseen>>

Withdraw(c) ==
    /\ client[c].pc = "withdraw"
    /\ LET o == client[c].op IN rows' = [rows EXCEPT ![o] = Withdrawn(@)]
    /\ client' = [client EXCEPT ![c] = IdleClient]
    /\ UNCHANGED <<marked, running, event, worker, up, herdr, budget, history>>

-----------------------------------------------------------------------------
(* _start_operation: one worker thread per running operation.               *)

\* What no worker step changes.
others == <<client, up, budget>>

\* A terminal row ends the worker; any other has its cancel event registered.
Load(w) ==
    /\ At(w, "load")
    /\ LET o == Op(w) IN
       \/ /\ Terminal(o)
          /\ Goto(w, "exit")
          /\ UNCHANGED event
       \/ /\ Active(o)
          /\ Goto(w, "context")
          /\ event' = [event EXCEPT ![o] = IF @ = "absent" THEN "clear" ELSE @]
    /\ UNCHANGED <<journal, running, herdr, history, others>>

\* The unverified context, the cancel check, then checking_herdr.
CheckContext(w) ==
    /\ At(w, "context")
    /\ LET o == Op(w) IN
       \/ /\ Fail(w, "CONFIGURATION_CHANGED")
          /\ UNCHANGED rows
       \/ /\ Cancelled(o)
          /\ Goto(w, "exit")
          /\ UNCHANGED rows
       \/ /\ ~Cancelled(o)
          /\ Goto(w, "probe")
          /\ Transition(o, "checking_herdr")
    /\ UNCHANGED <<marked, running, event, herdr, history, others>>

\* herdr agent get <name>.  A set event spawns no process, which reads as an
\* unreachable host; otherwise ssh or the Herdr server may be down, and a
\* server that answers tells whether the name is taken.
Probe(w) ==
    /\ At(w, "probe")
    /\ LET o == Op(w)
           answers == IF event[o] = "set" THEN {"offline"}
                      ELSE {"offline", "reachable",
                            IF agent[o] = None THEN "absent" ELSE "found"}
       IN \E a \in answers :
            /\ worker' = [worker EXCEPT
                 ![w].pc = "probed", ![w].seen = a,
                 ![w].pane = IF a = "found" THEN agent[o] ELSE None]
            /\ unseen' = IF a \in {"absent", "found"} THEN unseen \ {o} ELSE unseen
    /\ UNCHANGED <<journal, running, event, herdr, ran, missed, others>>

\* Every probe is followed by a cancel check.
ProbeCancelled(w) ==
    /\ At(w, "probed") /\ Cancelled(Op(w))
    /\ Goto(w, "exit")
    /\ UNCHANGED <<journal, running, event, herdr, history, others>>

\* The name resolves: the three loops before the launch check the context
\* again, the one after it records the pane at once.
ProbeFound(w) ==
    /\ At(w, "probed") /\ ~Cancelled(Op(w)) /\ worker[w].seen = "found"
    /\ Goto(w, IF worker[w].phase = "recover" THEN "record" ELSE "observed")
    /\ UNCHANGED <<journal, running, event, herdr, history, others>>

\* The first probe could not reach the host: wake it when it may be woken.
ProbeOffline(w) ==
    /\ At(w, "probed") /\ ~Cancelled(Op(w))
    /\ worker[w].phase = "first" /\ worker[w].seen = "offline"
    /\ \/ /\ ~CanWake
          /\ Fail(w, "HOST_OFFLINE")
          /\ UNCHANGED rows
       \/ /\ CanWake
          /\ Goto(w, "wake")
          /\ Transition(Op(w), "sending_wake")
    /\ UNCHANGED <<marked, running, event, herdr, history, others>>

\* The waiting loop reached the host and goes on to wait for Herdr itself.
ProbeReached(w) ==
    /\ At(w, "probed") /\ ~Cancelled(Op(w))
    /\ worker[w].phase = "wait" /\ worker[w].seen \in {"reachable", "absent"}
    /\ worker' = [worker EXCEPT ![w].phase = "settle",
                                ![w].pc = IF worker[w].seen = "absent" THEN "gate" ELSE "pause"]
    /\ Transition(Op(w), "checking_herdr")
    /\ UNCHANGED <<marked, running, event, herdr, history, others>>

\* Every other answer: on to the launch when ready, or round the loop again.
ProbeElsewise(w) ==
    /\ At(w, "probed") /\ ~Cancelled(Op(w)) /\ worker[w].seen # "found"
    /\ LET phase == worker[w].phase
           seen == worker[w].seen IN
       \/ /\ \/ phase = "first" /\ seen # "offline"
             \/ phase = "settle" /\ seen = "absent"
          /\ Goto(w, "gate")
       \/ /\ \/ phase = "wait" /\ seen = "offline"
             \/ phase = "settle" /\ seen # "absent"
             \/ phase = "recover"
          /\ Goto(w, "pause")
    /\ UNCHANGED <<journal, running, event, herdr, history, others>>

\* The top of a loop: cancelled, past the deadline, or one more probe.
\* Slip: the loop forgets its deadline.
PauseForever(w) ==
    /\ At(w, "pause")
    /\ Goto(w, IF Cancelled(Op(w)) THEN "exit" ELSE "probe")
    /\ UNCHANGED <<journal, running, event, herdr, history, others>>
Pause(w) ==
    /\ At(w, "pause")
    /\ \/ /\ Cancelled(Op(w))
          /\ Goto(w, "exit")
       \/ /\ ~Cancelled(Op(w)) /\ worker[w].late
          /\ Fail(w, IF worker[w].phase = "recover"
                     THEN "AGENT_NOT_OBSERVABLE" ELSE "READY_TIMEOUT")
       \/ /\ ~Cancelled(Op(w)) /\ ~worker[w].late
          /\ Goto(w, "probe")
    /\ UNCHANGED <<journal, running, event, herdr, history, others>>

\* The monotonic clock passes the loop's deadline.
DeadlinePasses(w) ==
    /\ worker[w].pc \in {"pause", "probe", "probed"}
    /\ worker[w].phase # "first" /\ ~worker[w].late
    /\ worker' = [worker EXCEPT ![w].late = TRUE]
    /\ UNCHANGED <<journal, running, event, herdr, history, others>>

\* wakeonlan, which a set event keeps from running at all.
Wake(w) ==
    /\ At(w, "wake")
    /\ \E reply \in IF event[Op(w)] = "set" THEN {"error"} ELSE {"ok", "error"} :
         worker' = [worker EXCEPT ![w].pc = "woken", ![w].reply = reply]
    /\ UNCHANGED <<journal, running, event, herdr, history, others>>

Woken(w) ==
    /\ At(w, "woken")
    /\ LET o == Op(w) IN
       \/ /\ Cancelled(o)
          /\ Goto(w, "exit")
          /\ UNCHANGED rows
       \/ /\ ~Cancelled(o) /\ worker[w].reply = "error"
          /\ Fail(w, "WAKE_FAILED")
          /\ UNCHANGED rows
       \/ /\ ~Cancelled(o) /\ worker[w].reply = "ok"
          /\ worker' = [worker EXCEPT ![w].pc = "pause", ![w].phase = "wait",
                                      ![w].late = FALSE]
          /\ Transition(o, "waiting_for_host")
    /\ UNCHANGED <<marked, running, event, herdr, history, others>>

\* Only a server that ruled the name absent gets past here, and only with a
\* context verified on the host.
\* Slip: a host that answers ssh is taken for a Herdr that is ready.
GateReachable(w) ==
    /\ At(w, "gate")
    /\ Goto(w, "create")
    /\ Transition(Op(w), "starting_agent")
    /\ UNCHANGED <<marked, running, event, herdr, history, others>>
Gate(w) ==
    /\ At(w, "gate")
    /\ \/ /\ worker[w].seen = "reachable"
          /\ Fail(w, "HERDR_UNAVAILABLE")
          /\ UNCHANGED rows
       \/ /\ worker[w].seen = "absent"
          /\ Fail(w, "CONFIGURATION_CHANGED")
          /\ UNCHANGED rows
       \/ /\ worker[w].seen = "absent"
          /\ Goto(w, "create")
          /\ Transition(Op(w), "starting_agent")
    /\ UNCHANGED <<marked, running, event, herdr, history, others>>

\* herdr tab create: the process is spawned unless the event is set.
CreateTab(w) ==
    /\ At(w, "create")
    /\ \/ /\ event[Op(w)] = "set"
          /\ Goto(w, "created")
          /\ UNCHANGED <<calls, owner>>
       \/ /\ event[Op(w)] # "set"
          /\ \E t \in {x \in Tabs : owner[x] = None} :
               /\ owner' = [owner EXCEPT ![t] = Op(w)]
               /\ calls' = calls \cup {[kind |-> "create", tab |-> t, by |-> w]}
          /\ Goto(w, "creating")
    /\ UNCHANGED <<journal, running, event, tabs, agent, history, others>>

Created(w) ==
    /\ At(w, "created")
    /\ \/ /\ Cancelled(Op(w))
          /\ Goto(w, "exit")
       \/ /\ ~Cancelled(Op(w)) /\ worker[w].tab = None
          /\ Fail(w, "LAUNCH_FAILED")
       \/ /\ ~Cancelled(Op(w)) /\ worker[w].tab # None
          /\ Goto(w, "start")
    /\ UNCHANGED <<journal, running, event, herdr, history, others>>

\* herdr agent start <name> --pane <pane>.
\* Slip: the call is not given the cancel event.
StartAgentUnwatched(w) ==
    /\ At(w, "start")
    /\ calls' = calls \cup {[kind |-> "start", tab |-> worker[w].tab, by |-> w]}
    /\ Goto(w, "starting")
    /\ UNCHANGED <<journal, running, event, owner, tabs, agent, history, others>>
StartAgent(w) ==
    /\ At(w, "start")
    /\ \/ /\ event[Op(w)] = "set"
          /\ worker' = [worker EXCEPT ![w].pc = "replied", ![w].reply = "error"]
          /\ UNCHANGED calls
       \/ /\ event[Op(w)] # "set"
          /\ calls' = calls \cup {[kind |-> "start", tab |-> worker[w].tab, by |-> w]}
          /\ Goto(w, "starting")
    /\ UNCHANGED <<journal, running, event, owner, tabs, agent, history, others>>

\* run_process_checked kills the local process on its timeout or on the event;
\* what it asked of Herdr may happen all the same.
GiveUp(w) ==
    /\ worker[w].pc \in {"creating", "starting"}
    /\ \E q \in calls :
         /\ q.by = w
         /\ calls' = (calls \ {q}) \cup {[q EXCEPT !.by = None]}
    /\ worker' = [worker EXCEPT
         ![w].pc = IF worker[w].pc = "creating" THEN "created" ELSE "replied",
         ![w].reply = "error"]
    /\ UNCHANGED <<journal, running, event, owner, tabs, agent, history, others>>

\* After agent start: cancelled, correlated by the reply, or to be resolved by
\* name; a failed start closes the tab first.
Replied(w) ==
    /\ At(w, "replied")
    /\ LET reply == worker[w].reply IN
       \/ /\ Cancelled(Op(w))
          /\ worker' = [worker EXCEPT ![w].pc = "close", ![w].then = "exit"]
       \/ /\ ~Cancelled(Op(w)) /\ reply = "started"
          /\ Goto(w, "record")
       \/ /\ ~Cancelled(Op(w)) /\ reply = "unreadable"
          /\ worker' = [worker EXCEPT ![w].pc = "pause", ![w].phase = "recover",
                                      ![w].late = FALSE]
       \/ /\ ~Cancelled(Op(w)) /\ reply = "taken"
          /\ worker' = [worker EXCEPT ![w].pc = "close", ![w].then = "pause",
                                      ![w].phase = "recover", ![w].late = FALSE]
       \/ /\ ~Cancelled(Op(w)) /\ reply = "error"
          /\ worker' = [worker EXCEPT ![w].pc = "close", ![w].then = "failing",
                                      ![w].code = "LAUNCH_FAILED"]
    /\ UNCHANGED <<journal, running, event, herdr, history, others>>

\* Closing a tab ends the agent in it.
Closed(t) ==
    /\ tabs' = tabs \ {t}
    /\ agent' = [o \in Ops |-> IF agent[o] = t THEN None ELSE agent[o]]

\* _close_tab: its result is ignored, so it may as well not have happened.
CloseTab(w) ==
    /\ At(w, "close")
    /\ Closed(worker[w].tab) \/ UNCHANGED <<tabs, agent>>
    /\ Goto(w, worker[w].then)
    /\ UNCHANGED <<journal, running, event, owner, calls, history, others>>

Observed(w) ==
    /\ At(w, "observed")
    /\ Fail(w, "CONFIGURATION_CHANGED") \/ Goto(w, "record")
    /\ UNCHANGED <<journal, running, event, herdr, history, others>>

\* mark_launch, then the started row: two transactions.
Record(w) ==
    /\ At(w, "record")
    /\ marked' = marked \cup {Op(w)}
    /\ Goto(w, "finish")
    /\ UNCHANGED <<rows, running, event, herdr, history, others>>

\* Slip: the session is the tab this worker opened.
FinishInOwnTab(w) ==
    /\ At(w, "finish")
    /\ rows' = [rows EXCEPT ![Op(w)] = Updated(@, "started", worker[w].tab, None)]
    /\ Goto(w, "exit")
    /\ UNCHANGED <<marked, running, event, herdr, history, others>>
Finish(w) ==
    /\ At(w, "finish")
    /\ rows' = [rows EXCEPT ![Op(w)] = Updated(@, "started", worker[w].pane, None)]
    /\ Goto(w, "exit")
    /\ UNCHANGED <<marked, running, event, herdr, history, others>>

\* _error
WriteFailure(w) ==
    /\ At(w, "failing")
    /\ rows' = [rows EXCEPT ![Op(w)] = Updated(@, "failed", None, worker[w].code)]
    /\ Goto(w, "exit")
    /\ UNCHANGED <<marked, running, event, herdr, history, others>>

\* _run_worker's finally.  A set event dropped while the row is still active
\* leaves its cancel with no worker to reach.
Exit(w) ==
    /\ At(w, "exit")
    /\ LET o == Op(w) IN
       /\ running' = running \ {o}
       /\ event' = [event EXCEPT ![o] = "absent"]
       /\ missed' = IF event[o] = "set" /\ Active(o) THEN missed \cup {o} ELSE missed
    /\ worker' = [worker EXCEPT ![w] = IdleWorker]
    /\ UNCHANGED <<journal, herdr, ran, unseen, others>>

-----------------------------------------------------------------------------
(* Herdr decides a call, and the worker that waits for it reads the answer. *)

Answer(q, pc, field, value) ==
    worker' = IF q.by = None THEN worker
              ELSE [worker EXCEPT ![q.by].pc = pc, ![q.by][field] = value]

\* tab_created_ids: an answer without a readable pane names no tab.
OpenTab(q) ==
    /\ q \in calls /\ q.kind = "create"
    /\ calls' = calls \ {q}
    /\ tabs' = tabs \cup {q.tab}
    /\ \E named \in {q.tab, None} : Answer(q, "created", "tab", named)
    /\ UNCHANGED <<journal, running, event, owner, agent, history, others>>

RefuseTab(q) ==
    /\ q \in calls /\ q.kind = "create"
    /\ calls' = calls \ {q}
    /\ Answer(q, "created", "tab", None)
    /\ UNCHANGED <<journal, running, event, owner, tabs, agent, history, others>>

\* agent_started_pane_id: the reply names the pane, or cannot be read.
AttachAgent(q) ==
    LET o == owner[q.tab] IN
    /\ q \in calls /\ q.kind = "start"
    /\ q.tab \in tabs /\ agent[o] = None
    /\ calls' = calls \ {q}
    /\ agent' = [agent EXCEPT ![o] = q.tab]
    /\ ran' = [ran EXCEPT ![o] = @ \cup {q.tab}]
    /\ IF q.by = None
       THEN unseen' = unseen \cup {o} /\ UNCHANGED worker
       ELSE /\ UNCHANGED unseen
            /\ \E reply \in {"started", "unreadable"} :
                 worker' = [worker EXCEPT ![q.by].pc = "replied", ![q.by].reply = reply,
                              ![q.by].pane = IF reply = "started" THEN q.tab ELSE None]
    /\ UNCHANGED <<journal, running, event, owner, tabs, missed, others>>

RefuseAgent(q) ==
    /\ q \in calls /\ q.kind = "start"
    /\ calls' = calls \ {q}
    /\ \E reply \in {"error"} \cup IF agent[owner[q.tab]] = None THEN {} ELSE {"taken"} :
         Answer(q, "replied", "reply", reply)
    /\ UNCHANGED <<journal, running, event, owner, tabs, agent, history, others>>

\* The user, or the agent itself, ends it.
AgentExits(o) ==
    /\ agent[o] # None
    /\ agent' = [agent EXCEPT ![o] = None]
    /\ UNCHANGED <<journal, process, owner, tabs, calls, budget, history>>

-----------------------------------------------------------------------------
(* Exceptions, a crash of the relay, and its restart.                       *)

\* _run_worker turns an exception into LAUNCH_FAILED.  The calls that leave
\* the process catch their own.
WorkerRaises(w) ==
    /\ faults < MaxFaults
    /\ worker[w].pc \in {"load", "context", "probed", "woken", "pause", "gate",
                         "created", "replied", "observed", "record", "finish"}
    /\ faults' = faults + 1
    /\ Fail(w, "LAUNCH_FAILED")
    /\ UNCHANGED <<journal, running, event, client, up, herdr, commands, crashes, history>>

\* ... and swallows the one that writing it may raise.
WriteFailureRaises(w) ==
    /\ faults < MaxFaults
    /\ At(w, "failing")
    /\ faults' = faults + 1
    /\ Goto(w, "exit")
    /\ UNCHANGED <<journal, running, event, client, up, herdr, commands, crashes, history>>

\* The cancel write raises, or no thread can be started for an operation
\* that _running already lists.
CommandRaises(c) ==
    /\ faults < MaxFaults
    /\ faults' = faults + 1
    /\ \/ client[c].pc = "withdraw" /\ UNCHANGED running
       \/ /\ client[c].pc = "ensure" /\ client[c].op \notin running
          /\ running' = running \cup {client[c].op}
    /\ client' = [client EXCEPT ![c] = IdleClient]
    /\ UNCHANGED <<journal, event, worker, up, herdr, commands, crashes, history>>

\* Threads, events and the running set are gone.  Spawned processes run in
\* sessions of their own, so their calls outlive the relay.
Crash ==
    /\ up /\ crashes < MaxCrashes
    /\ up' = FALSE
    /\ crashes' = crashes + 1
    /\ running' = {}
    /\ event' = [o \in Ops |-> "absent"]
    /\ worker' = [w \in Threads |-> IdleWorker]
    /\ client' = [c \in Clients |-> IdleClient]
    /\ calls' = {[q EXCEPT !.by = None] : q \in calls}
    /\ UNCHANGED <<journal, owner, tabs, agent, commands, faults, history>>

\* recover_active: a worker for every active row, before the relay serves.
Restart ==
    LET recovered == Recovered IN
    /\ ~up
    /\ up' = TRUE
    /\ running' = recovered
    /\ \E thread \in [recovered -> Threads] :
         /\ \A o, p \in recovered : thread[o] = thread[p] => o = p
         /\ worker' = [w \in Threads |->
                IF \E o \in recovered : thread[o] = w
                THEN FreshWorker(CHOOSE o \in recovered : thread[o] = w)
                ELSE IdleWorker]
    /\ UNCHANGED <<journal, event, client, herdr, budget, history>>

-----------------------------------------------------------------------------

ClientStep(c) ==
    \/ LookupRequest(c) \/ ReadSource(c) \/ RefuseCommand(c) \/ Admit(c)
    \/ Acknowledge(c) \/ Signal(c) \/ Withdraw(c)

WorkerStep(w) ==
    \/ Load(w) \/ CheckContext(w) \/ Probe(w)
    \/ ProbeCancelled(w) \/ ProbeFound(w) \/ ProbeOffline(w) \/ ProbeReached(w)
    \/ ProbeElsewise(w) \/ Pause(w) \/ Wake(w) \/ Woken(w) \/ Gate(w)
    \/ CreateTab(w) \/ Created(w) \/ StartAgent(w) \/ Replied(w) \/ CloseTab(w)
    \/ Observed(w) \/ Record(w) \/ Finish(w) \/ WriteFailure(w) \/ Exit(w)

HerdrStep(q) == OpenTab(q) \/ RefuseTab(q) \/ AttachAgent(q) \/ RefuseAgent(q)

\* Nobody asks for anything and no worker has anything left to do.
Quiescent ==
    /\ up
    /\ \A c \in Clients : client[c].pc = "idle"
    /\ \A w \in Threads : At(w, "idle")
    /\ UNCHANGED vars

Next ==
    \/ \E c \in Clients : BeginCommand(c) \/ CancelCommand(c) \/ ClientStep(c)
                            \/ CommandRaises(c)
    \/ \E w \in Threads : WorkerStep(w) \/ DeadlinePasses(w) \/ GiveUp(w)
                            \/ WorkerRaises(w) \/ WriteFailureRaises(w)
    \/ \E q \in calls : HerdrStep(q)
    \/ \E o \in Ops : AgentExits(o)
    \/ Crash \/ Restart \/ Quiescent

Spec == Init /\ [][Next]_vars

\* Threads run, clocks advance, and the service manager restarts the relay.
\* Nothing is assumed of Herdr, the host or the clients.
Fairness ==
    /\ \A c \in Clients : WF_vars(ClientStep(c))
    /\ \A w \in Threads : WF_vars(WorkerStep(w)) /\ WF_vars(DeadlinePasses(w))
                            /\ WF_vars(GiveUp(w))
    /\ WF_vars(Restart)

FairSpec == Spec /\ Fairness

-----------------------------------------------------------------------------
(* Properties.                                                              *)

\* The variables have the types the code gives them.
TypeOK ==
    /\ rows \in [Ops -> Row]
    /\ marked \subseteq Ops
    /\ running \subseteq Ops
    /\ event \in [Ops -> {"absent", "clear", "set"}]
    /\ worker \in [Threads -> Worker]
    /\ client \in [Clients -> Client]
    /\ up \in BOOLEAN
    /\ owner \in [Tabs -> Ops \cup {None}]
    /\ tabs \subseteq Tabs
    /\ agent \in [Ops -> Tabs \cup {None}]
    /\ calls \subseteq Call
    /\ commands \in Nat /\ crashes \in Nat /\ faults \in Nat
    /\ ran \in [Ops -> SUBSET Tabs]
    /\ unseen \subseteq Ops /\ missed \subseteq Ops

\* A worker and a cancel race for the last write of a row; whoever loses
\* changes nothing: no row leaves a terminal stage or changes in one.
TerminalIsFinal == [][\A o \in Ops : Terminal(o) => rows'[o] = rows[o]]_vars

\* Concurrent start_session threads that all found no row admit one operation
\* per request id and one per (source, attempt) retry.
OneOperationPerRequest ==
    \A o, p \in Ops :
        /\ Exists(o) /\ Exists(p)
        /\ \/ rows[o].request = rows[p].request
           \/ rows[o].source # None /\ rows[o].source = rows[p].source
                 /\ rows[o].attempt = rows[p].attempt
        => o = p

\* The source checked before the admission is still the source of a legal
\* retry afterwards: it failed or was cancelled, one attempt earlier, and
\* so no two attempts of one lineage are ever active together.
RetryFollowsSettledSource ==
    \A o \in Ops : Exists(o) /\ rows[o].source # None =>
        LET s == rows[rows[o].source] IN
        s.stage \in {"failed", "cancelled"} /\ rows[o].attempt = s.attempt + 1

\* Replays, retries, recovery and the first start may all ask for a worker;
\* no operation ever has two, and _running lists exactly those that have one.
OneWorkerPerOperation ==
    /\ \A v, w \in Threads : Op(v) = Op(w) /\ Op(w) # None => v = w
    /\ faults = 0 => running = {Op(w) : w \in Threads} \ {None}

\* While the relay is up and nothing raised, an unfinished operation has
\* somebody working on it: a worker that has not written its last row, the
\* command that is about to start one, or a cancel about to end it.
NoActiveRowIsAbandoned ==
    up /\ faults = 0 => \A o \in Ops : Active(o) =>
        \/ \E w \in Threads : Op(w) = o /\ ~At(w, "exit")
        \/ \E c \in Clients : client[c].op = o /\ client[c].pc \in {"ensure", "withdraw"}

\* A started row names a tab in which this operation's own agent really ran,
\* whether the reply or a later probe by name told so, and its project has
\* been marked as launched.
StartedSessionIsReal ==
    \A o \in Ops : rows[o].stage = "started" =>
        rows[o].session \in ran[o] /\ o \in marked

\* "checks whether the agent already exists before creating a second one": a
\* worker is past the gate while an agent by its name runs elsewhere only if
\* a call orphaned by a crash or a kill started it after the last probe.
NoSecondLaunch ==
    \A w \in Threads :
        /\ worker[w].pc \in {"create", "creating", "created", "start", "starting"}
        /\ agent[Op(w)] # None
        => Op(w) \in unseen

\* Once a cancel is written no agent start is spawned for its operation,
\* except by a worker the cancel could not signal.
NoStartAfterCancel ==
    [][\A q \in calls' \ calls :
         q.kind = "start" /\ q.by # None /\ rows[owner[q.tab]].stage = "cancelled"
         => owner[q.tab] \in missed]_vars

\* An operation that ends started leaves no tab behind but its agent's own,
\* when its worker was not interrupted by a crash, an exception or a cancel.
StartedLeavesOneTab ==
    \A o \in Ops :
        /\ rows[o].stage = "started" /\ crashes = 0 /\ faults = 0 /\ o \notin missed
        => {t \in tabs : owner[t] = o} \subseteq {rows[o].session}

\* Every operation admitted ends, unless an exception took its worker: probes,
\* calls and loops all have deadlines and recovery resumes the rest.
EveryStartEnds ==
    \A o \in Ops : (Active(o) /\ faults = 0) ~> (Terminal(o) \/ faults > 0)

\* No worker runs for ever, so _running and _cancel_events do not grow.
EveryWorkerEnds == \A w \in Threads : worker[w].pc # "idle" ~> At(w, "idle")

\* What an exception stranded, the next restart settles: "on relay restart,
\* non-terminal rows are resumed", when nothing raises any more.
RestartSettlesStranded ==
    \A o \in Ops : (Active(o) /\ ~up /\ faults = MaxFaults) ~> Terminal(o)

-----------------------------------------------------------------------------
(* The promise of DurableStarts, kept by this journal and these threads.    *)

PromiseOf(r) ==
    IF ByRequest(r) = {} THEN [outcome |-> "unknown", of |-> None]
    ELSE LET row == rows[CHOOSE o \in ByRequest(r) : TRUE] IN
         [outcome |-> IF row.stage \in ACTIVE_STAGES THEN "pending" ELSE row.stage,
          of |-> IF row.source = None THEN None ELSE rows[row.source].request]

Promised == INSTANCE DurableStarts
                WITH promise <- [r \in Requests |-> PromiseOf(r)]

\* Every behaviour of the relay, seen by request id, is one of DurableStarts:
\* one outcome per request, final, and one retry per source.
KeepsThePromise == Promised!Spec

-----------------------------------------------------------------------------
(* What the documents say and the code does not do.                         *)

Settled(o) == o \notin running /\ crashes = 0 /\ faults = 0

\* README.md: "A launch that fails after the tab exists closes it again, so a
\* retry does not accumulate empty tabs."
FailedStartClosesItsTab ==
    \A o \in Ops : Settled(o) /\ rows[o].stage = "failed"
        => \A t \in tabs : owner[t] # o

\* docs/native-protocol.md: "a worker that is currently probing or launching
\* observes the cancellation and terminates its active local SSH subprocess".
CancelReachesTheCall ==
    \A w \in Threads :
        worker[w].pc \in {"creating", "starting"} /\ rows[Op(w)].stage = "cancelled"
        => event[Op(w)] = "set"

=============================================================================
