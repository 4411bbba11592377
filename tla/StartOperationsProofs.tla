------------------------ MODULE StartOperationsProofs ------------------------
(***************************************************************************)
(* Invariants of StartOperations for any number of operations, requests,   *)
(* commands, workers, tabs, crashes and exceptions.                        *)
(*                                                                         *)
(* First what its journal keeps whoever writes it: terminal rows never     *)
(* change, one row per request and per retry, and the promise of           *)
(* DurableStarts.  Then what its worker threads keep: one worker per       *)
(* operation, one agent and one tab, no cancel that is neither seen nor    *)
(* noted, and nobody forgotten.                                            *)
(***************************************************************************)
EXTENDS StartOperations, TLAPS

\* A frame that is past its first step knows what it works on, and no thread
\* outlives the process.
FramesOK ==
    /\ \A w \in Threads : worker[w].op = None <=> worker[w].pc = "idle"
    /\ \A w \in Threads : worker[w].pc \in {"start", "starting"} => worker[w].tab # None
    /\ \A w \in Threads : worker[w].tab # None =>
         worker[w].op # None /\ owner[worker[w].tab] = worker[w].op
    /\ \A c \in Clients :
         /\ client[c].pc \in {"ensure", "signal", "withdraw"} => client[c].op # None
         /\ client[c].pc = "source" => client[c].source # None
    /\ ~up => /\ \A w \in Threads : worker[w].pc = "idle"
              /\ \A c \in Clients : client[c].pc = "idle"

\* A call that is waited for is the one its worker is waiting for.
CallsOK ==
    /\ \A q \in calls :
         /\ owner[q.tab] # None
         /\ q.by # None =>
              /\ worker[q.by].pc = IF q.kind = "create" THEN "creating" ELSE "starting"
              /\ worker[q.by].op = owner[q.tab]
    /\ \A p, q \in calls : p.by = q.by /\ p.by # None => p = q

TypeInv == TypeOK /\ FramesOK /\ CallsOK

-----------------------------------------------------------------------------
(* The operators the actions are built from.                                *)

\* OperationStore.update writes a row of the table, whatever it is given.
LEMMA UpdatedType ==
  ASSUME NEW row \in Row, NEW stage \in ACTIVE_STAGES \cup TERMINAL_STAGES,
         NEW session \in Tabs \cup {None}, NEW error \in ErrorCodes \cup {None}
  PROVE  Updated(row, stage, session, error) \in Row
  <1> DEFINE a == [row EXCEPT !.stage = stage]
             b == [a EXCEPT !.error = error]
             c == [b EXCEPT !.session = IF session = None THEN b.session ELSE session]
  <1>1. Updated(row, stage, session, error) = IF row.stage \in ACTIVE_STAGES THEN c ELSE row
    BY DEF Updated
  <1>2. a \in Row
    BY DEF Row
  <1> HIDE DEF a
  <1>3. b \in Row
    BY <1>2 DEF Row
  <1> HIDE DEF b
  <1>4. c \in Row
    BY <1>3 DEF Row
  <1> HIDE DEF c
  <1> QED
    BY <1>1, <1>4

\* The journal keeps its type under one update.
LEMMA UpdateTyped ==
  ASSUME TypeOK, NEW o \in Ops, NEW stage \in ACTIVE_STAGES \cup TERMINAL_STAGES,
         NEW session \in Tabs \cup {None}, NEW error \in ErrorCodes \cup {None},
         rows' = [rows EXCEPT ![o] = Updated(@, stage, session, error)]
  PROVE  rows' \in [Ops -> Row]
  <1>1. rows[o] \in Row
    BY DEF TypeOK
  <1>2. Updated(rows[o], stage, session, error) \in Row
    BY <1>1, UpdatedType
  <1> QED
    BY <1>2 DEF TypeOK

\* ... and under a transition between active stages.
LEMMA TransitionTyped ==
  ASSUME TypeOK, NEW o \in Ops, NEW stage \in ACTIVE_STAGES, Transition(o, stage)
  PROVE  rows' \in [Ops -> Row]
  BY UpdateTyped DEF Transition

\* The journal keeps its type when a cancel is written.
LEMMA WithdrawnTyped ==
  ASSUME NEW row \in Row
  PROVE  Withdrawn(row) \in Row
  BY DEF Withdrawn, Row, TERMINAL_STAGES

\* A row inserted by OperationStore.begin is a row.
LEMMA NewRowTyped ==
  ASSUME NEW r \in Requests \cup {None}, NEW s \in Ops \cup {None},
         NEW attempt \in 0..MaxAttempt
  PROVE  NewRow(r, s, attempt) \in Row
  BY DEF NewRow, NoRow, Row, ACTIVE_STAGES

\* A thread starts from a frame that holds its operation and nothing else.
LEMMA FreshTyped ==
  ASSUME NEW o \in Ops
  PROVE  /\ FreshWorker(o) \in Worker
         /\ FreshWorker(o).op = o /\ FreshWorker(o).pc = "load"
         /\ FreshWorker(o).tab = None
  BY DEF FreshWorker, IdleWorker, Worker, WorkerPC, Answers

\* Idle frames are frames.
LEMMA IdleTyped == /\ IdleWorker \in Worker /\ IdleWorker.op = None /\ IdleWorker.pc = "idle"
                   /\ IdleWorker.tab = None
                   /\ IdleClient \in Client /\ IdleClient.pc = "idle"
  BY ConstantsOK DEF IdleWorker, Worker, WorkerPC, Answers, IdleClient, Client

\* A worker that runs has an operation.
LEMMA OpTyped ==
  ASSUME TypeInv, NEW w \in Threads, ~At(w, "idle")
  PROVE  Op(w) \in Ops /\ Op(w) # None /\ worker[w] \in Worker
  <1>1. worker[w] \in Worker
    BY DEF TypeInv, TypeOK
  <1>2. worker[w].op # None
    BY DEF TypeInv, FramesOK, At
  <1> QED
    BY <1>1, <1>2 DEF Op, Worker

-----------------------------------------------------------------------------
(* A step of one worker that waits for no call before and after.            *)

\* The frame a worker leaves keeps its operation and its tab, so that what
\* relates frames and calls still holds.
LEMMA FrameStep ==
  ASSUME TypeInv, NEW w \in Threads, NEW frame \in Worker,
         worker' = [worker EXCEPT ![w] = frame],
         frame.op = worker[w].op, frame.tab = worker[w].tab,
         worker[w].pc \notin {"idle", "creating", "starting"},
         frame.pc # "idle",
         frame.pc \in {"start", "starting"} => worker[w].tab # None,
         UNCHANGED <<client, up, calls, owner>>
  PROVE  worker' \in [Threads -> Worker] /\ FramesOK' /\ CallsOK'
  <1>1. worker' \in [Threads -> Worker]
    BY DEF TypeInv, TypeOK
  <1>2. /\ worker'[w] = frame
        /\ \A v \in Threads : v # w => worker'[v] = worker[v]
    BY DEF TypeInv, TypeOK
  <1>3. FramesOK'
    BY <1>2 DEF TypeInv, FramesOK
  <1>4. \A q \in calls : q.by # w
    BY ConstantsOK DEF TypeInv, CallsOK
  <1>5. CallsOK'
    BY <1>2, <1>4 DEF TypeInv, TypeOK, CallsOK, Call
  <1> QED
    BY <1>1, <1>3, <1>5

\* A frame of which a step changes one field, where it stands,
Standing(f, pc) == [f EXCEPT !.pc = pc]

\* ... that goes to `failing` with one of the error codes,
Failing(f, code) == [f EXCEPT !.pc = "failing", !.code = code]

\* ... that has probed, with what it has seen and the pane it found,
Probing(f, pc, seen, pane) == [f EXCEPT !.pc = pc, !.seen = seen, !.pane = pane]

\* ... that enters a probe loop, which sets its phase and resets its deadline,
Looping(f, pc, phase, late) == [f EXCEPT !.pc = pc, !.phase = phase, !.late = late]

\* ... that keeps the answer a call ends with,
Replying(f, pc, reply) == [f EXCEPT !.pc = pc, !.reply = reply]

\* ... that learns of its agent's pane,
Attaching(f, pc, reply, pane) == [f EXCEPT !.pc = pc, !.reply = reply, !.pane = pane]

\* ... that closes its tab and remembers where to go on,
Closing(f, pc, then) == [f EXCEPT !.pc = pc, !.then = then]

\* ... or to fail, with the code it fails with,
ClosingToFail(f, pc, then, code) == [f EXCEPT !.pc = pc, !.then = then, !.code = code]

\* ... or to enter the recovery loop, with a new deadline,
ClosingToRecover(f, pc, then, phase, late) ==
    [f EXCEPT !.pc = pc, !.then = then, !.phase = phase, !.late = late]

\* ... that learns of its tab,
Naming(f, pc, tab) == [f EXCEPT !.pc = pc, !.tab = tab]

\* ... and that waits for its agent to settle.
Settling(f, phase, pc) == [f EXCEPT !.phase = phase, !.pc = pc]

\* A frame that moves on is a frame.
LEMMA FrameAtPC ==
  ASSUME NEW f \in Worker, NEW pc \in WorkerPC
  PROVE  LET g == Standing(f, pc)
         IN  g \in Worker /\ g.op = f.op /\ g.tab = f.tab /\ g.pc = pc
  BY DEF Worker, Standing

\* One that fails is.
LEMMA FrameWithCode ==
  ASSUME NEW f \in Worker, NEW code \in ErrorCodes
  PROVE  LET g == Failing(f, code)
         IN  g \in Worker /\ g.op = f.op /\ g.tab = f.tab /\ g.pc = "failing"
  <1> DEFINE a == [f EXCEPT !.pc = "failing"]
             b == [a EXCEPT !.code = code]
  <1>1. Failing(f, code) = b
    BY DEF Failing
  <1>2. a \in Worker /\ a.op = f.op /\ a.tab = f.tab /\ a.pc = "failing"
    BY DEF Worker, WorkerPC
  <1> HIDE DEF a
  <1>3. b \in Worker /\ b.op = f.op /\ b.tab = f.tab /\ b.pc = "failing"
    BY <1>2 DEF Worker
  <1> HIDE DEF b
  <1> QED
    BY <1>1, <1>3

\* One that has probed is.
LEMMA FrameProbed ==
  ASSUME NEW f \in Worker, NEW pc \in WorkerPC,
         NEW seen \in Answers, NEW pane \in Tabs \cup {None}
  PROVE  LET g == Probing(f, pc, seen, pane)
         IN  g \in Worker /\ g.op = f.op /\ g.tab = f.tab /\ g.pc = pc
  <1> DEFINE a == [f EXCEPT !.pc = pc]
             b == [a EXCEPT !.seen = seen]
             c == [b EXCEPT !.pane = pane]
  <1>1. Probing(f, pc, seen, pane) = c
    BY DEF Probing
  <1>2. a \in Worker /\ a.op = f.op /\ a.tab = f.tab /\ a.pc = pc
    BY DEF Worker
  <1> HIDE DEF a
  <1>3. b \in Worker /\ b.op = f.op /\ b.tab = f.tab /\ b.pc = pc
    BY <1>2 DEF Worker
  <1> HIDE DEF b
  <1>4. c \in Worker /\ c.op = f.op /\ c.tab = f.tab /\ c.pc = pc
    BY <1>3 DEF Worker
  <1> HIDE DEF c
  <1> QED
    BY <1>1, <1>4

\* One that enters a probe loop is.
LEMMA FrameLooping ==
  ASSUME NEW f \in Worker, NEW pc \in WorkerPC,
         NEW phase \in {"first", "wait", "settle", "recover"}, NEW late \in BOOLEAN
  PROVE  LET g == Looping(f, pc, phase, late)
         IN  g \in Worker /\ g.op = f.op /\ g.tab = f.tab /\ g.pc = pc
  <1> DEFINE a == [f EXCEPT !.pc = pc]
             b == [a EXCEPT !.phase = phase]
             c == [b EXCEPT !.late = late]
  <1>1. Looping(f, pc, phase, late) = c
    BY DEF Looping
  <1>2. a \in Worker /\ a.op = f.op /\ a.tab = f.tab /\ a.pc = pc
    BY DEF Worker
  <1> HIDE DEF a
  <1>3. b \in Worker /\ b.op = f.op /\ b.tab = f.tab /\ b.pc = pc
    BY <1>2 DEF Worker
  <1> HIDE DEF b
  <1>4. c \in Worker /\ c.op = f.op /\ c.tab = f.tab /\ c.pc = pc
    BY <1>3 DEF Worker
  <1> HIDE DEF c
  <1> QED
    BY <1>1, <1>4

\* One that has its answer is.
LEMMA FrameReplied ==
  ASSUME NEW f \in Worker, NEW pc \in WorkerPC,
         NEW reply \in {"nothing", "ok", "started", "unreadable", "taken", "error"}
  PROVE  LET g == Replying(f, pc, reply)
         IN  g \in Worker /\ g.op = f.op /\ g.tab = f.tab /\ g.pc = pc
  <1> DEFINE a == [f EXCEPT !.pc = pc]
             b == [a EXCEPT !.reply = reply]
  <1>1. Replying(f, pc, reply) = b
    BY DEF Replying
  <1>2. a \in Worker /\ a.op = f.op /\ a.tab = f.tab /\ a.pc = pc
    BY DEF Worker
  <1> HIDE DEF a
  <1>3. b \in Worker /\ b.op = f.op /\ b.tab = f.tab /\ b.pc = pc
    BY <1>2 DEF Worker
  <1> HIDE DEF b
  <1> QED
    BY <1>1, <1>3

\* One that has its pane is.
LEMMA FrameAttached ==
  ASSUME NEW f \in Worker, NEW pc \in WorkerPC,
         NEW reply \in {"nothing", "ok", "started", "unreadable", "taken", "error"},
         NEW pane \in Tabs \cup {None}
  PROVE  LET g == Attaching(f, pc, reply, pane)
         IN  g \in Worker /\ g.op = f.op /\ g.tab = f.tab /\ g.pc = pc
  <1> DEFINE a == [f EXCEPT !.pc = pc]
             b == [a EXCEPT !.reply = reply]
             c == [b EXCEPT !.pane = pane]
  <1>1. Attaching(f, pc, reply, pane) = c
    BY DEF Attaching
  <1>2. a \in Worker /\ a.op = f.op /\ a.tab = f.tab /\ a.pc = pc
    BY DEF Worker
  <1> HIDE DEF a
  <1>3. b \in Worker /\ b.op = f.op /\ b.tab = f.tab /\ b.pc = pc
    BY <1>2 DEF Worker
  <1> HIDE DEF b
  <1>4. c \in Worker /\ c.op = f.op /\ c.tab = f.tab /\ c.pc = pc
    BY <1>3 DEF Worker
  <1> HIDE DEF c
  <1> QED
    BY <1>1, <1>4

\* One that closes its tab is,
LEMMA FrameClosing ==
  ASSUME NEW f \in Worker, NEW pc \in WorkerPC,
         NEW then \in {"exit", "pause", "failing"}
  PROVE  LET g == Closing(f, pc, then)
         IN  g \in Worker /\ g.op = f.op /\ g.tab = f.tab /\ g.pc = pc
  <1> DEFINE a == [f EXCEPT !.pc = pc]
             b == [a EXCEPT !.then = then]
  <1>1. Closing(f, pc, then) = b
    BY DEF Closing
  <1>2. a \in Worker /\ a.op = f.op /\ a.tab = f.tab /\ a.pc = pc
    BY DEF Worker
  <1> HIDE DEF a
  <1>3. b \in Worker /\ b.op = f.op /\ b.tab = f.tab /\ b.pc = pc
    BY <1>2 DEF Worker
  <1> HIDE DEF b
  <1> QED
    BY <1>1, <1>3

\* ... whether it fails after that
LEMMA FrameClosingToFail ==
  ASSUME NEW f \in Worker, NEW pc \in WorkerPC,
         NEW then \in {"exit", "pause", "failing"}, NEW code \in ErrorCodes
  PROVE  LET g == ClosingToFail(f, pc, then, code)
         IN  g \in Worker /\ g.op = f.op /\ g.tab = f.tab /\ g.pc = pc
  <1> DEFINE a == [f EXCEPT !.pc = pc]
             b == [a EXCEPT !.then = then]
             c == [b EXCEPT !.code = code]
  <1>1. ClosingToFail(f, pc, then, code) = c
    BY DEF ClosingToFail
  <1>2. a \in Worker /\ a.op = f.op /\ a.tab = f.tab /\ a.pc = pc
    BY DEF Worker
  <1> HIDE DEF a
  <1>3. b \in Worker /\ b.op = f.op /\ b.tab = f.tab /\ b.pc = pc
    BY <1>2 DEF Worker
  <1> HIDE DEF b
  <1>4. c \in Worker /\ c.op = f.op /\ c.tab = f.tab /\ c.pc = pc
    BY <1>3 DEF Worker
  <1> HIDE DEF c
  <1> QED
    BY <1>1, <1>4

\* ... or recovers.
LEMMA FrameClosingToRecover ==
  ASSUME NEW f \in Worker, NEW pc \in WorkerPC,
         NEW then \in {"exit", "pause", "failing"},
         NEW phase \in {"first", "wait", "settle", "recover"},
         NEW late \in BOOLEAN
  PROVE  LET g == ClosingToRecover(f, pc, then, phase, late)
         IN  g \in Worker /\ g.op = f.op /\ g.tab = f.tab /\ g.pc = pc
  <1> DEFINE a == [f EXCEPT !.pc = pc]
             b == [a EXCEPT !.then = then]
             c == [b EXCEPT !.phase = phase]
             d == [c EXCEPT !.late = late]
  <1>1. ClosingToRecover(f, pc, then, phase, late) = d
    BY DEF ClosingToRecover
  <1>2. a \in Worker /\ a.op = f.op /\ a.tab = f.tab /\ a.pc = pc
    BY DEF Worker
  <1> HIDE DEF a
  <1>3. b \in Worker /\ b.op = f.op /\ b.tab = f.tab /\ b.pc = pc
    BY <1>2 DEF Worker
  <1> HIDE DEF b
  <1>4. c \in Worker /\ c.op = f.op /\ c.tab = f.tab /\ c.pc = pc
    BY <1>3 DEF Worker
  <1> HIDE DEF c
  <1>5. d \in Worker /\ d.op = f.op /\ d.tab = f.tab /\ d.pc = pc
    BY <1>4 DEF Worker
  <1> HIDE DEF d
  <1> QED
    BY <1>1, <1>5

\* One that has its tab is.
LEMMA FrameNamed ==
  ASSUME NEW f \in Worker, NEW pc \in WorkerPC, NEW tab \in Tabs \cup {None}
  PROVE  LET g == Naming(f, pc, tab)
         IN  g \in Worker /\ g.op = f.op /\ g.tab = tab /\ g.pc = pc
  <1> DEFINE a == [f EXCEPT !.pc = pc]
             b == [a EXCEPT !.tab = tab]
  <1>1. Naming(f, pc, tab) = b
    BY DEF Naming
  <1>2. a \in Worker /\ a.op = f.op /\ a.pc = pc
    BY DEF Worker
  <1> HIDE DEF a
  <1>3. b \in Worker /\ b.op = f.op /\ b.tab = tab /\ b.pc = pc
    BY <1>2 DEF Worker
  <1> HIDE DEF b
  <1> QED
    BY <1>1, <1>3

\* One that waits for its agent is.
LEMMA FrameSettling ==
  ASSUME NEW f \in Worker, NEW pc \in WorkerPC,
         NEW phase \in {"first", "wait", "settle", "recover"}
  PROVE  LET g == Settling(f, phase, pc)
         IN  g \in Worker /\ g.op = f.op /\ g.tab = f.tab /\ g.pc = pc
  <1> DEFINE a == [f EXCEPT !.phase = phase]
             b == [a EXCEPT !.pc = pc]
  <1>1. Settling(f, phase, pc) = b
    BY DEF Settling
  <1>2. a \in Worker /\ a.op = f.op /\ a.tab = f.tab
    BY DEF Worker
  <1> HIDE DEF a
  <1>3. b \in Worker /\ b.op = f.op /\ b.tab = f.tab /\ b.pc = pc
    BY <1>2 DEF Worker
  <1> HIDE DEF b
  <1> QED
    BY <1>1, <1>3

\* A step that only moves on.
LEMMA GotoStep ==
  ASSUME TypeInv, NEW w \in Threads, NEW pc \in WorkerPC \ {"idle", "starting"},
         Goto(w, pc), pc = "start" => worker[w].tab # None,
         worker[w].pc \notin {"idle", "creating", "starting"},
         UNCHANGED <<client, up, calls, owner>>
  PROVE  worker' \in [Threads -> Worker] /\ FramesOK' /\ CallsOK'
  <1>1. worker[w] \in Worker
    BY DEF TypeInv, TypeOK
  <1> DEFINE frame == Standing(worker[w], pc)
  <1>2. frame \in Worker /\ frame.op = worker[w].op /\ frame.tab = worker[w].tab
          /\ frame.pc = pc
    BY <1>1, FrameAtPC
  <1>3. worker' = [worker EXCEPT ![w] = frame]
    BY DEF Goto, Standing
  <1> HIDE DEF frame
  <1> QED
    BY <1>2, <1>3, FrameStep

\* A step that fails the operation.
LEMMA FailStep ==
  ASSUME TypeInv, NEW w \in Threads, NEW code \in ErrorCodes, Fail(w, code),
         worker[w].pc \notin {"idle", "creating", "starting"},
         UNCHANGED <<client, up, calls, owner>>
  PROVE  worker' \in [Threads -> Worker] /\ FramesOK' /\ CallsOK'
  <1>1. worker[w] \in Worker
    BY DEF TypeInv, TypeOK
  <1> DEFINE frame == Failing(worker[w], code)
  <1>2. frame \in Worker /\ frame.op = worker[w].op /\ frame.tab = worker[w].tab
          /\ frame.pc = "failing"
    BY <1>1, FrameWithCode
  <1>3. worker' = [worker EXCEPT ![w] = frame]
    BY DEF Fail, Failing
  <1> HIDE DEF frame
  <1> QED
    BY <1>2, <1>3, FrameStep

-----------------------------------------------------------------------------
(* One lemma for the steps of a worker, one step of it per action.          *)

\* A worker step that changes neither calls nor tabs, and whose frame and
\* journal are typed, keeps the invariant.
LEMMA WorkerStepKeeps ==
  ASSUME TypeInv, worker' \in [Threads -> Worker], FramesOK', CallsOK',
         rows' \in [Ops -> Row], marked' \subseteq Ops,
         event' \in [Ops -> {"absent", "clear", "set"}],
         unseen' \subseteq Ops,
         UNCHANGED <<running, herdr, ran, missed, others>>
  PROVE  TypeInv'
  BY DEF TypeInv, TypeOK, herdr, others, budget

\* A worker step that stays in the process (a check, a branch, a write of its row)
\* keeps the invariant.
LEMMA LocalStepTyped ==
  ASSUME TypeInv, NEW w \in Threads,
         \/ Load(w) \/ CheckContext(w) \/ Probe(w)
         \/ ProbeCancelled(w) \/ ProbeFound(w) \/ ProbeOffline(w) \/ ProbeReached(w)
         \/ ProbeElsewise(w) \/ Pause(w) \/ Wake(w) \/ Woken(w) \/ Gate(w)
         \/ Created(w) \/ Replied(w) \/ Observed(w) \/ Record(w) \/ Finish(w)
         \/ WriteFailure(w) \/ DeadlinePasses(w)
  PROVE  TypeInv'
<1> USE DEF At, herdr, others, history, journal
<1>0. rows \in [Ops -> Row] /\ marked \subseteq Ops /\ unseen \subseteq Ops
        /\ event \in [Ops -> {"absent", "clear", "set"}]
        /\ TypeOK
  BY DEF TypeInv, TypeOK
<1>pcs. {"probed", "gate", "pause", "woken", "close", "record"} \subseteq WorkerPC
  BY DEF WorkerPC
<1>frame. worker[w] \in Worker
  BY DEF TypeInv, TypeOK
<1>1. CASE Load(w)
  <2>1. worker' \in [Threads -> Worker] /\ FramesOK' /\ CallsOK'
    BY <1>1, GotoStep DEF Load, WorkerPC
  <2>2. event' \in [Ops -> {"absent", "clear", "set"}]
    BY <1>0, <1>1 DEF Load
  <2> QED
    BY <1>0, <1>1, <2>1, <2>2, WorkerStepKeeps DEF Load
<1>2. CASE CheckContext(w)
  <2>1. worker' \in [Threads -> Worker] /\ FramesOK' /\ CallsOK'
    BY <1>2, GotoStep, FailStep DEF CheckContext, WorkerPC, ErrorCodes
  <2>2. rows' \in [Ops -> Row]
    BY <1>0, <1>2, OpTyped, TransitionTyped DEF CheckContext, ACTIVE_STAGES
  <2> QED
    BY <1>0, <1>2, <2>1, <2>2, WorkerStepKeeps DEF CheckContext
<1>3. CASE Probe(w)
  <2>1. PICK a \in {"offline", "reachable", "absent", "found"} :
          worker' = [worker EXCEPT
             ![w].pc = "probed", ![w].seen = a,
             ![w].pane = IF a = "found" THEN agent[Op(w)] ELSE None]
    BY <1>3 DEF Probe
  <2> DEFINE pane == IF a = "found" THEN agent[Op(w)] ELSE None
             frame == Probing(worker[w], "probed", a, pane)
  <2>2. pane \in Tabs \cup {None}
    BY <1>3, OpTyped DEF Probe, TypeInv, TypeOK
  <2>3. worker' = [worker EXCEPT ![w] = frame]
    BY <2>1 DEF Probing
  <2> HIDE DEF pane
  <2>4. frame \in Worker /\ frame.op = worker[w].op /\ frame.tab = worker[w].tab
          /\ frame.pc = "probed"
    <3>1. "probed" \in WorkerPC /\ a \in Answers
      BY <1>pcs DEF Answers
    <3> QED
      BY <1>frame, <2>2, <3>1, FrameProbed
  <2> HIDE DEF frame
  <2>5. worker' \in [Threads -> Worker] /\ FramesOK' /\ CallsOK'
    BY <1>3, <2>3, <2>4, FrameStep DEF Probe
  <2> QED
    BY <1>0, <1>3, <2>5, WorkerStepKeeps DEF Probe
<1>4. CASE ProbeCancelled(w)
  <2>1. worker' \in [Threads -> Worker] /\ FramesOK' /\ CallsOK'
    BY <1>4, GotoStep DEF ProbeCancelled, WorkerPC
  <2> QED
    BY <1>0, <1>4, <2>1, WorkerStepKeeps DEF ProbeCancelled
<1>5. CASE ProbeFound(w)
  <2>1. worker' \in [Threads -> Worker] /\ FramesOK' /\ CallsOK'
    BY <1>5, GotoStep DEF ProbeFound, WorkerPC
  <2> QED
    BY <1>0, <1>5, <2>1, WorkerStepKeeps DEF ProbeFound
<1>6. CASE ProbeOffline(w)
  <2>1. worker' \in [Threads -> Worker] /\ FramesOK' /\ CallsOK'
    BY <1>6, GotoStep, FailStep DEF ProbeOffline, WorkerPC, ErrorCodes
  <2>2. rows' \in [Ops -> Row]
    BY <1>0, <1>6, OpTyped, TransitionTyped DEF ProbeOffline, ACTIVE_STAGES
  <2> QED
    BY <1>0, <1>6, <2>1, <2>2, WorkerStepKeeps DEF ProbeOffline
<1>7. CASE ProbeReached(w)
  <2> DEFINE pc == IF worker[w].seen = "absent" THEN "gate" ELSE "pause"
             frame == Settling(worker[w], "settle", pc)
  <2>1. worker' = [worker EXCEPT ![w] = frame]
    BY <1>7 DEF ProbeReached, Settling
  <2>2. frame \in Worker /\ frame.op = worker[w].op /\ frame.tab = worker[w].tab
          /\ frame.pc \in {"gate", "pause"}
    <3>1. pc \in WorkerPC /\ pc \in {"gate", "pause"}
      BY <1>pcs
    <3> HIDE DEF pc
    <3> QED
      BY <1>frame, <3>1, FrameSettling
  <2> HIDE DEF frame
  <2>3. worker' \in [Threads -> Worker] /\ FramesOK' /\ CallsOK'
    BY <1>7, <2>1, <2>2, FrameStep DEF ProbeReached
  <2>4. rows' \in [Ops -> Row]
    BY <1>0, <1>7, OpTyped, TransitionTyped DEF ProbeReached, ACTIVE_STAGES
  <2> QED
    BY <1>0, <1>7, <2>3, <2>4, WorkerStepKeeps DEF ProbeReached
<1>8. CASE ProbeElsewise(w)
  <2>1. worker' \in [Threads -> Worker] /\ FramesOK' /\ CallsOK'
    BY <1>8, GotoStep DEF ProbeElsewise, WorkerPC
  <2> QED
    BY <1>0, <1>8, <2>1, WorkerStepKeeps DEF ProbeElsewise
<1>9. CASE Pause(w)
  <2>1. worker' \in [Threads -> Worker] /\ FramesOK' /\ CallsOK'
    BY <1>9, GotoStep, FailStep DEF Pause, WorkerPC, ErrorCodes
  <2> QED
    BY <1>0, <1>9, <2>1, WorkerStepKeeps DEF Pause
<1>10. CASE Wake(w)
  <2>1. PICK reply \in {"ok", "error"} :
          worker' = [worker EXCEPT ![w].pc = "woken", ![w].reply = reply]
    BY <1>10 DEF Wake
  <2> DEFINE frame == Replying(worker[w], "woken", reply)
  <2>2. worker' = [worker EXCEPT ![w] = frame]
    BY <2>1 DEF Replying
  <2>3. frame \in Worker /\ frame.op = worker[w].op /\ frame.tab = worker[w].tab
          /\ frame.pc = "woken"
    <3>1. /\ "woken" \in WorkerPC
          /\ reply \in {"nothing", "ok", "started", "unreadable", "taken", "error"}
      BY <1>pcs
    <3> QED
      BY <1>frame, <3>1, FrameReplied
  <2> HIDE DEF frame
  <2>4. worker' \in [Threads -> Worker] /\ FramesOK' /\ CallsOK'
    BY <1>10, <2>2, <2>3, FrameStep DEF Wake
  <2> QED
    BY <1>0, <1>10, <2>4, WorkerStepKeeps DEF Wake
<1>11. CASE Woken(w)
  <2> DEFINE frame == Looping(worker[w], "pause", "wait", FALSE)
  <2>1. frame \in Worker /\ frame.op = worker[w].op /\ frame.tab = worker[w].tab
          /\ frame.pc = "pause"
    <3>1. /\ "pause" \in WorkerPC /\ FALSE \in BOOLEAN
          /\ "wait" \in {"first", "wait", "settle", "recover"}
      BY <1>pcs
    <3> QED
      BY <1>frame, <3>1, FrameLooping
  <2>2. \/ Goto(w, "exit") \/ Fail(w, "WAKE_FAILED")
        \/ worker' = [worker EXCEPT ![w] = frame]
    BY <1>11 DEF Woken, Looping
  <2> HIDE DEF frame
  <2>3. worker' \in [Threads -> Worker] /\ FramesOK' /\ CallsOK'
    BY <1>11, <2>1, <2>2, FrameStep, GotoStep, FailStep DEF Woken, WorkerPC, ErrorCodes
  <2>4. rows' \in [Ops -> Row]
    BY <1>0, <1>11, OpTyped, TransitionTyped DEF Woken, ACTIVE_STAGES
  <2> QED
    BY <1>0, <1>11, <2>3, <2>4, WorkerStepKeeps DEF Woken
<1>12. CASE Gate(w)
  <2>1. worker' \in [Threads -> Worker] /\ FramesOK' /\ CallsOK'
    BY <1>12, GotoStep, FailStep DEF Gate, WorkerPC, ErrorCodes
  <2>2. rows' \in [Ops -> Row]
    BY <1>0, <1>12, OpTyped, TransitionTyped DEF Gate, ACTIVE_STAGES
  <2> QED
    BY <1>0, <1>12, <2>1, <2>2, WorkerStepKeeps DEF Gate
<1>13. CASE Created(w)
  <2>1. worker' \in [Threads -> Worker] /\ FramesOK' /\ CallsOK'
    BY <1>13, GotoStep, FailStep DEF Created, WorkerPC, ErrorCodes
  <2> QED
    BY <1>0, <1>13, <2>1, WorkerStepKeeps DEF Created
<1>14. CASE Replied(w)
  <2>1. PICK frame \in Worker :
          /\ worker' = [worker EXCEPT ![w] = frame]
          /\ frame.op = worker[w].op /\ frame.tab = worker[w].tab
          /\ frame.pc \in {"close", "record", "pause"}
    <3>1. CASE worker' = [worker EXCEPT ![w].pc = "close", ![w].then = "exit"]
      <4> DEFINE frame == Closing(worker[w], "close", "exit")
      <4>1. worker' = [worker EXCEPT ![w] = frame]
        BY <3>1 DEF Closing
      <4>2. frame \in Worker /\ frame.op = worker[w].op /\ frame.tab = worker[w].tab
              /\ frame.pc = "close"
        <5>1. "close" \in WorkerPC /\ "exit" \in {"exit", "pause", "failing"}
          BY <1>pcs
        <5> QED
          BY <1>frame, <5>1, FrameClosing
      <4> HIDE DEF frame
      <4> QED
        BY <4>1, <4>2
    <3>2. CASE Goto(w, "record")
      <4> DEFINE frame == Standing(worker[w], "record")
      <4>1. worker' = [worker EXCEPT ![w] = frame]
        BY <3>2 DEF Goto, Standing
      <4>2. frame \in Worker /\ frame.op = worker[w].op /\ frame.tab = worker[w].tab
              /\ frame.pc = "record"
        BY <1>frame, <1>pcs, FrameAtPC
      <4> HIDE DEF frame
      <4> QED
        BY <4>1, <4>2
    <3>3. CASE worker' = [worker EXCEPT ![w].pc = "pause", ![w].phase = "recover",
                                        ![w].late = FALSE]
      <4> DEFINE frame == Looping(worker[w], "pause", "recover", FALSE)
      <4>1. worker' = [worker EXCEPT ![w] = frame]
        BY <3>3 DEF Looping
      <4>2. frame \in Worker /\ frame.op = worker[w].op /\ frame.tab = worker[w].tab
              /\ frame.pc = "pause"
        <5>1. /\ "pause" \in WorkerPC /\ FALSE \in BOOLEAN
              /\ "recover" \in {"first", "wait", "settle", "recover"}
          BY <1>pcs
        <5> QED
          BY <1>frame, <5>1, FrameLooping
      <4> HIDE DEF frame
      <4> QED
        BY <4>1, <4>2
    <3>4. CASE worker' = [worker EXCEPT ![w].pc = "close", ![w].then = "pause",
                                        ![w].phase = "recover", ![w].late = FALSE]
      <4> DEFINE frame == ClosingToRecover(worker[w], "close", "pause", "recover", FALSE)
      <4>1. worker' = [worker EXCEPT ![w] = frame]
        BY <3>4 DEF ClosingToRecover
      <4>2. frame \in Worker /\ frame.op = worker[w].op /\ frame.tab = worker[w].tab
              /\ frame.pc = "close"
        <5>1. /\ "close" \in WorkerPC /\ "pause" \in {"exit", "pause", "failing"}
              /\ "recover" \in {"first", "wait", "settle", "recover"} /\ FALSE \in BOOLEAN
          BY <1>pcs
        <5> QED
          BY <1>frame, <5>1, FrameClosingToRecover
      <4> HIDE DEF frame
      <4> QED
        BY <4>1, <4>2
    <3>5. CASE worker' = [worker EXCEPT ![w].pc = "close", ![w].then = "failing",
                                        ![w].code = "LAUNCH_FAILED"]
      <4> DEFINE frame == ClosingToFail(worker[w], "close", "failing", "LAUNCH_FAILED")
      <4>1. worker' = [worker EXCEPT ![w] = frame]
        BY <3>5 DEF ClosingToFail
      <4>2. frame \in Worker /\ frame.op = worker[w].op /\ frame.tab = worker[w].tab
              /\ frame.pc = "close"
        <5>1. /\ "close" \in WorkerPC /\ "failing" \in {"exit", "pause", "failing"}
              /\ "LAUNCH_FAILED" \in ErrorCodes
          BY <1>pcs DEF ErrorCodes
        <5> QED
          BY <1>frame, <5>1, FrameClosingToFail
      <4> HIDE DEF frame
      <4> QED
        BY <4>1, <4>2
    <3> QED
      BY <1>14, <3>1, <3>2, <3>3, <3>4, <3>5 DEF Replied
  <2>2. worker' \in [Threads -> Worker] /\ FramesOK' /\ CallsOK'
    BY <1>14, <2>1, FrameStep DEF Replied
  <2> QED
    BY <1>0, <1>14, <2>2, WorkerStepKeeps DEF Replied
<1>15. CASE Observed(w)
  <2>1. worker' \in [Threads -> Worker] /\ FramesOK' /\ CallsOK'
    BY <1>15, GotoStep, FailStep DEF Observed, WorkerPC, ErrorCodes
  <2> QED
    BY <1>0, <1>15, <2>1, WorkerStepKeeps DEF Observed
<1>16. CASE Record(w)
  <2>1. worker' \in [Threads -> Worker] /\ FramesOK' /\ CallsOK'
    BY <1>16, GotoStep DEF Record, WorkerPC
  <2>2. marked' \subseteq Ops
    BY <1>0, <1>16, OpTyped DEF Record
  <2> QED
    BY <1>0, <1>16, <2>1, <2>2, WorkerStepKeeps DEF Record
<1>17. CASE Finish(w)
  <2>1. worker' \in [Threads -> Worker] /\ FramesOK' /\ CallsOK'
    BY <1>17, GotoStep DEF Finish, WorkerPC
  <2>2. worker[w].pane \in Tabs \cup {None}
    BY <1>frame DEF Worker
  <2>3. rows' \in [Ops -> Row]
    BY <1>0, <1>17, <2>2, OpTyped, UpdateTyped DEF Finish, TERMINAL_STAGES
  <2> QED
    BY <1>0, <1>17, <2>1, <2>3, WorkerStepKeeps DEF Finish
<1>18. CASE WriteFailure(w)
  <2>1. worker' \in [Threads -> Worker] /\ FramesOK' /\ CallsOK'
    BY <1>18, GotoStep DEF WriteFailure, WorkerPC
  <2>2. worker[w].code \in ErrorCodes \cup {None}
    BY <1>frame DEF Worker
  <2>3. rows' \in [Ops -> Row]
    BY <1>0, <1>18, <2>2, OpTyped, UpdateTyped DEF WriteFailure, TERMINAL_STAGES
  <2> QED
    BY <1>0, <1>18, <2>1, <2>3, WorkerStepKeeps DEF WriteFailure
<1>19. CASE DeadlinePasses(w)
  <2> DEFINE frame == [worker[w] EXCEPT !.late = TRUE]
  <2>1. worker' = [worker EXCEPT ![w] = frame]
    BY <1>19 DEF DeadlinePasses
  <2>2. frame \in Worker /\ frame.op = worker[w].op /\ frame.tab = worker[w].tab
          /\ frame.pc = worker[w].pc
    BY <1>frame DEF Worker
  <2> HIDE DEF frame
  <2>3. worker' \in [Threads -> Worker] /\ FramesOK' /\ CallsOK'
    BY <1>19, <2>1, <2>2, FrameStep DEF DeadlinePasses
  <2> QED
    BY <1>0, <1>19, <2>3, WorkerStepKeeps DEF DeadlinePasses
<1> QED
  BY <1>1, <1>2, <1>3, <1>4, <1>5, <1>6, <1>7, <1>8, <1>9, <1>10, <1>11, <1>12,
     <1>13, <1>14, <1>15, <1>16, <1>17, <1>18, <1>19

-----------------------------------------------------------------------------
(* The steps of a worker that touch tabs, calls or the running set.         *)

\* Asking for a tab gives an unused name to the operation, and adds the one call
\* the worker waits for.
LEMMA CreateTabTyped ==
  ASSUME TypeInv, NEW w \in Threads, CreateTab(w)
  PROVE  TypeInv'
<1> USE DEF others, history, journal, At
<1>0. worker[w] \in Worker /\ Op(w) \in Ops /\ Op(w) # None
  BY OpTyped DEF CreateTab
<1>1. CASE event[Op(w)] = "set"
  <2>1. worker' \in [Threads -> Worker] /\ FramesOK' /\ CallsOK'
    BY <1>1, GotoStep DEF CreateTab, WorkerPC
  <2> QED
    BY <1>1, <2>1, WorkerStepKeeps DEF CreateTab, TypeInv, TypeOK, herdr
<1>2. CASE event[Op(w)] # "set"
  <2>1. PICK t \in Tabs :
          /\ owner[t] = None
          /\ owner' = [owner EXCEPT ![t] = Op(w)]
          /\ calls' = calls \cup {[kind |-> "create", tab |-> t, by |-> w]}
          /\ worker' = [worker EXCEPT ![w].pc = "creating"]
    BY <1>2 DEF CreateTab, Goto
  <2> DEFINE frame == Standing(worker[w], "creating")
             new == [kind |-> "create", tab |-> t, by |-> w]
  <2>2. frame \in Worker /\ frame.op = worker[w].op /\ frame.tab = worker[w].tab
          /\ frame.pc = "creating"
    BY <1>0, FrameAtPC DEF WorkerPC
  <2>3. worker' \in [Threads -> Worker] /\ worker'[w] = frame
          /\ \A v \in Threads : v # w => worker'[v] = worker[v]
    BY <2>1, <2>2 DEF TypeInv, TypeOK, Standing
  <2>4. new \in Call /\ new.tab = t /\ new.by = w /\ new.kind = "create"
    BY DEF Call
  <2> HIDE DEF frame, new
  <2>5. /\ owner' \in [Tabs -> Ops \cup {None}] /\ owner'[t] = Op(w)
        /\ \A x \in Tabs : owner[x] # None => owner'[x] = owner[x]
        /\ calls' = calls \cup {new}
    BY <1>0, <2>1 DEF TypeInv, TypeOK, new
  <2>6. FramesOK'
    <3>1. \A v \in Threads : worker'[v].op = worker[v].op /\ worker'[v].tab = worker[v].tab
      BY <2>2, <2>3
    <3>2. \A v \in Threads : worker[v].tab \in Tabs \cup {None}
      BY DEF TypeInv, TypeOK, Worker
    <3> QED
      BY <1>0, <2>2, <2>3, <2>5, <3>1, <3>2 DEF TypeInv, FramesOK, CreateTab, Op
  <2>7. \A q \in calls : q.by # w /\ q.tab \in Tabs /\ q.by \in Threads \cup {None}
    BY ConstantsOK DEF TypeInv, TypeOK, CallsOK, Call, CreateTab
  <2>8. CallsOK'
    BY <1>0, <2>2, <2>3, <2>4, <2>5, <2>7, ConstantsOK DEF TypeInv, CallsOK, Op
  <2> QED
    BY <1>2, <2>3, <2>4, <2>5, <2>6, <2>8
    DEF TypeInv, TypeOK, CreateTab, process, budget
<1> QED
  BY <1>1, <1>2

\* Asking for an agent adds the one call the worker waits for, in the tab it owns.
LEMMA StartAgentTyped ==
  ASSUME TypeInv, NEW w \in Threads, StartAgent(w)
  PROVE  TypeInv'
<1> USE DEF others, history, journal, At
<1>0. worker[w] \in Worker /\ Op(w) \in Ops /\ Op(w) # None
  BY OpTyped DEF StartAgent
<1>pcs. "replied" \in WorkerPC /\ "starting" \in WorkerPC
  BY DEF WorkerPC
<1>1. CASE event[Op(w)] = "set"
  <2> DEFINE frame == Replying(worker[w], "replied", "error")
  <2>1. worker' = [worker EXCEPT ![w] = frame] /\ calls' = calls
    BY <1>1 DEF StartAgent, Replying
  <2>2. frame \in Worker /\ frame.op = worker[w].op /\ frame.tab = worker[w].tab
          /\ frame.pc = "replied"
    BY <1>0, <1>pcs, FrameReplied
  <2> HIDE DEF frame
  <2>3. worker' \in [Threads -> Worker] /\ FramesOK' /\ CallsOK'
    BY <2>1, <2>2, FrameStep DEF StartAgent
  <2> QED
    BY <2>1, <2>3, WorkerStepKeeps DEF StartAgent, TypeInv, TypeOK, herdr
<1>2. CASE event[Op(w)] # "set"
  <2> DEFINE frame == Standing(worker[w], "starting")
             new == [kind |-> "start", tab |-> worker[w].tab, by |-> w]
  <2>1. worker' = [worker EXCEPT ![w] = frame] /\ calls' = calls \cup {new}
    BY <1>2 DEF StartAgent, Goto, Standing
  <2>2. frame \in Worker /\ frame.op = worker[w].op /\ frame.tab = worker[w].tab
          /\ frame.pc = "starting"
    BY <1>0, <1>pcs, FrameAtPC
  <2> HIDE DEF frame
  <2>3. worker' \in [Threads -> Worker] /\ worker'[w] = frame
          /\ \A v \in Threads : v # w => worker'[v] = worker[v]
    BY <2>1, <2>2 DEF TypeInv, TypeOK
  <2>4. worker[w].tab # None /\ worker[w].tab \in Tabs /\ owner[worker[w].tab] = Op(w)
    BY <1>0 DEF StartAgent, TypeInv, FramesOK, Op, Worker
  <2>5. new \in Call /\ new.tab = worker[w].tab /\ new.by = w /\ new.kind = "start"
    BY <2>4 DEF Call
  <2> HIDE DEF new
  <2>6. FramesOK'
    BY <2>2, <2>3, <2>4 DEF TypeInv, FramesOK, StartAgent
  <2>7. \A q \in calls : q.by # w /\ q.by \in Threads \cup {None}
    BY ConstantsOK DEF TypeInv, TypeOK, CallsOK, Call, StartAgent
  <2>8. CallsOK'
    BY <1>0, <2>1, <2>2, <2>3, <2>4, <2>5, <2>7, ConstantsOK
    DEF TypeInv, CallsOK, StartAgent, Op
  <2> QED
    BY <2>1, <2>3, <2>5, <2>6, <2>8 DEF TypeInv, TypeOK, StartAgent, process, budget
<1> QED
  BY <1>1, <1>2

\* An answer, or the loss of one: the call of worker w is gone or orphaned,
\* and its frame moves on.
LEMMA CallEnds ==
  ASSUME TypeInv, NEW w \in Threads, NEW frame \in Worker, NEW q \in calls,
         q.by = w, worker' = [worker EXCEPT ![w] = frame],
         frame.op = worker[w].op, frame.tab \in {worker[w].tab, q.tab, None},
         frame.pc \in {"created", "replied"},
         \/ calls' = calls \ {q}
         \/ calls' = (calls \ {q}) \cup {[q EXCEPT !.by = None]},
         UNCHANGED <<client, up, owner>>
  PROVE  worker' \in [Threads -> Worker] /\ FramesOK' /\ CallsOK' /\ calls' \subseteq Call
  <1>1. worker' \in [Threads -> Worker] /\ worker'[w] = frame
          /\ \A v \in Threads : v # w => worker'[v] = worker[v]
    BY DEF TypeInv, TypeOK
  <1>2. /\ worker[w].pc \in {"creating", "starting"} /\ worker[w].op = owner[q.tab]
        /\ owner[q.tab] # None
    BY ConstantsOK DEF TypeInv, CallsOK
  <1>3. FramesOK'
    BY <1>1, <1>2 DEF TypeInv, FramesOK
  <1>4. q \in Call
    BY DEF TypeInv, TypeOK
  <1> DEFINE orphan == [q EXCEPT !.by = None]
  <1>5. orphan \in Call /\ orphan.by = None /\ orphan.tab = q.tab
    BY <1>4 DEF Call
  <1> HIDE DEF orphan
  <1>6. calls' \subseteq (calls \ {q}) \cup {orphan}
    BY DEF orphan
  <1>7. \A p \in calls : p # q => p.by # w
    BY ConstantsOK DEF TypeInv, CallsOK
  <1>8. \A p \in calls : p.by \in Threads \cup {None}
    BY DEF TypeInv, TypeOK, Call
  <1>9. CallsOK'
    BY <1>1, <1>2, <1>5, <1>6, <1>7, <1>8 DEF TypeInv, CallsOK
  <1> QED
    BY <1>1, <1>3, <1>5, <1>6, <1>9 DEF TypeInv, TypeOK

\* The end of a call nobody waits for.
LEMMA OrphanEnds ==
  ASSUME TypeInv, NEW q \in calls, calls' = calls \ {q}, worker' = worker,
         UNCHANGED <<client, up, owner>>
  PROVE  worker' \in [Threads -> Worker] /\ FramesOK' /\ CallsOK' /\ calls' \subseteq Call
  BY DEF TypeInv, TypeOK, FramesOK, CallsOK

\* Giving a call up, closing a tab and reading a reply keep the invariant.
LEMMA CallStepTyped ==
  ASSUME TypeInv, NEW w \in Threads,
         GiveUp(w) \/ CloseTab(w) \/ WorkerRaises(w) \/ WriteFailureRaises(w)
  PROVE  TypeInv'
<1> USE DEF others, history, journal, At, budget
<1>0. worker[w] \in Worker
  BY DEF TypeInv, TypeOK
<1>1. CASE GiveUp(w)
  <2>1. PICK q \in calls : q.by = w /\ calls' = (calls \ {q}) \cup {[q EXCEPT !.by = None]}
    BY <1>1 DEF GiveUp
  <2> DEFINE pc == IF worker[w].pc = "creating" THEN "created" ELSE "replied"
             frame == Replying(worker[w], pc, "error")
  <2>2. worker' = [worker EXCEPT ![w] = frame]
    BY <1>1 DEF GiveUp, Replying
  <2>3. pc \in WorkerPC /\ pc \in {"created", "replied"}
    BY DEF WorkerPC
  <2> HIDE DEF pc
  <2>4. frame \in Worker /\ frame.op = worker[w].op /\ frame.tab = worker[w].tab
          /\ frame.pc \in {"created", "replied"}
    BY <1>0, <2>3, FrameReplied
  <2> HIDE DEF frame
  <2>5. worker' \in [Threads -> Worker] /\ FramesOK' /\ CallsOK' /\ calls' \subseteq Call
    BY <1>1, <2>1, <2>2, <2>4, CallEnds DEF GiveUp
  <2> QED
    BY <1>1, <2>5 DEF GiveUp, TypeInv, TypeOK
<1>2. CASE CloseTab(w)
  <2>1. worker[w].then \in WorkerPC \ {"idle", "start", "starting"}
    BY <1>0 DEF Worker, WorkerPC
  <2>2. worker' \in [Threads -> Worker] /\ FramesOK' /\ CallsOK'
    BY <1>2, <2>1, GotoStep DEF CloseTab
  <2>3. tabs' \subseteq Tabs /\ agent' \in [Ops -> Tabs \cup {None}]
    BY <1>2 DEF CloseTab, Closed, TypeInv, TypeOK
  <2> QED
    BY <1>2, <2>2, <2>3 DEF CloseTab, TypeInv, TypeOK
<1>3. CASE WorkerRaises(w)
  <2>1. worker' \in [Threads -> Worker] /\ FramesOK' /\ CallsOK'
    BY <1>3, FailStep DEF WorkerRaises, ErrorCodes, herdr
  <2> QED
    BY <1>3, <2>1 DEF WorkerRaises, TypeInv, TypeOK, herdr
<1>4. CASE WriteFailureRaises(w)
  <2>1. worker' \in [Threads -> Worker] /\ FramesOK' /\ CallsOK'
    BY <1>4, GotoStep DEF WriteFailureRaises, WorkerPC, herdr
  <2> QED
    BY <1>4, <2>1 DEF WriteFailureRaises, TypeInv, TypeOK, herdr
<1> QED
  BY <1>1, <1>2, <1>3, <1>4

\* A worker that ends leaves an idle frame, no call, and the set.
LEMMA ExitTyped ==
  ASSUME TypeInv, NEW w \in Threads, Exit(w)
  PROVE  TypeInv'
<1> USE DEF others, journal, herdr, budget
<1>1. worker' \in [Threads -> Worker] /\ worker'[w] = IdleWorker
        /\ \A v \in Threads : v # w => worker'[v] = worker[v]
  BY IdleTyped DEF Exit, TypeInv, TypeOK
<1>2. FramesOK'
  BY <1>1, IdleTyped DEF Exit, TypeInv, FramesOK
<1>3. \A q \in calls : q.by # w
  BY ConstantsOK DEF Exit, At, TypeInv, CallsOK
<1>4. CallsOK'
  BY <1>1, <1>3 DEF Exit, TypeInv, TypeOK, Call, CallsOK
<1>5. Op(w) \in Ops
  BY OpTyped DEF Exit, At
<1> QED
  BY <1>1, <1>2, <1>4, <1>5 DEF Exit, TypeInv, TypeOK

-----------------------------------------------------------------------------
(* The steps of Herdr.                                                      *)

\* An answer that sets one field of the frame that waits for it.
LEMMA AnswerTyped ==
  ASSUME TypeInv, NEW q \in calls, NEW pc \in WorkerPC, pc \in {"created", "replied"},
         NEW field \in {"tab", "reply"}, NEW value,
         field = "tab" => value \in {q.tab, None},
         field = "reply" => value \in {"error", "taken"},
         Answer(q, pc, field, value), calls' = calls \ {q},
         UNCHANGED <<client, up, owner>>
  PROVE  worker' \in [Threads -> Worker] /\ FramesOK' /\ CallsOK' /\ calls' \subseteq Call
<1>1. CASE q.by = None
  BY <1>1, OrphanEnds DEF Answer
<1>2. CASE q.by # None
  <2>1. q \in Call /\ q.by \in Threads /\ q.tab \in Tabs
    BY <1>2 DEF TypeInv, TypeOK, Call
  <2>2. worker[q.by] \in Worker
    BY <2>1 DEF TypeInv, TypeOK
  <2> DEFINE frame == [worker[q.by] EXCEPT !.pc = pc, ![field] = value]
  <2>3. worker' = [worker EXCEPT ![q.by] = frame]
    BY <1>2 DEF Answer
  <2>4. frame \in Worker /\ frame.op = worker[q.by].op /\ frame.pc = pc
          /\ frame.tab \in {worker[q.by].tab, q.tab, None}
    <3>1. CASE field = "tab"
      <4>1. frame = Naming(worker[q.by], pc, value)
        BY <3>1, Zenon DEF Naming
      <4>2. value \in Tabs \cup {None}
        BY <2>1, <3>1
      <4> HIDE DEF frame
      <4> QED
        BY <2>2, <3>1, <4>1, <4>2, FrameNamed
    <3>2. CASE field = "reply"
      <4>1. frame = Replying(worker[q.by], pc, value)
        BY <3>2, Zenon DEF Replying
      <4>2. value \in {"nothing", "ok", "started", "unreadable", "taken", "error"}
        BY <3>2
      <4> HIDE DEF frame
      <4> QED
        BY <2>2, <4>1, <4>2, FrameReplied
    <3> QED
      BY <3>1, <3>2
  <2> HIDE DEF frame
  <2> QED
    BY <2>1, <2>3, <2>4, CallEnds
<1> QED
  BY <1>1, <1>2

\* Whatever Herdr decides of a call, whether or not a worker still waits for it,
\* keeps the invariant.
LEMMA HerdrStepTyped ==
  ASSUME TypeInv, NEW q \in calls, HerdrStep(q)
  PROVE  TypeInv'
<1> USE DEF others, history, journal, budget
<1>0. q \in Call /\ q.tab \in Tabs /\ q.by \in Threads \cup {None}
  BY DEF TypeInv, TypeOK, Call
<1>pcs. "created" \in WorkerPC /\ "replied" \in WorkerPC
  BY DEF WorkerPC
<1>1. CASE OpenTab(q)
  <2>1. PICK named \in {q.tab, None} : Answer(q, "created", "tab", named)
    BY <1>1 DEF OpenTab
  <2>2. worker' \in [Threads -> Worker] /\ FramesOK' /\ CallsOK' /\ calls' \subseteq Call
    BY <1>1, <1>pcs, <2>1, AnswerTyped DEF OpenTab
  <2> QED
    BY <1>0, <1>1, <2>2 DEF OpenTab, TypeInv, TypeOK
<1>2. CASE RefuseTab(q)
  <2>1. worker' \in [Threads -> Worker] /\ FramesOK' /\ CallsOK' /\ calls' \subseteq Call
    BY <1>2, <1>pcs, AnswerTyped DEF RefuseTab
  <2> QED
    BY <1>2, <2>1 DEF RefuseTab, TypeInv, TypeOK
<1>3. CASE RefuseAgent(q)
  <2>1. PICK reply \in {"error", "taken"} : Answer(q, "replied", "reply", reply)
    BY <1>3 DEF RefuseAgent
  <2>2. worker' \in [Threads -> Worker] /\ FramesOK' /\ CallsOK' /\ calls' \subseteq Call
    BY <1>3, <1>pcs, <2>1, AnswerTyped DEF RefuseAgent
  <2> QED
    BY <1>3, <2>2 DEF RefuseAgent, TypeInv, TypeOK
<1>4. CASE AttachAgent(q)
  <2>1. owner[q.tab] \in Ops
    BY <1>0 DEF TypeInv, TypeOK, CallsOK
  <2>2. worker' \in [Threads -> Worker] /\ FramesOK' /\ CallsOK' /\ calls' \subseteq Call
    <3>1. CASE q.by = None
      BY <1>4, <3>1, OrphanEnds DEF AttachAgent
    <3>2. CASE q.by # None
      <4>1. PICK reply \in {"started", "unreadable"} :
              worker' = [worker EXCEPT ![q.by].pc = "replied", ![q.by].reply = reply,
                           ![q.by].pane = IF reply = "started" THEN q.tab ELSE None]
        BY <1>4, <3>2 DEF AttachAgent
      <4> DEFINE pane == IF reply = "started" THEN q.tab ELSE None
                 frame == Attaching(worker[q.by], "replied", reply, pane)
      <4>2. worker' = [worker EXCEPT ![q.by] = frame]
        BY <4>1 DEF Attaching
      <4>3. worker[q.by] \in Worker /\ pane \in Tabs \cup {None}
        BY <1>0, <3>2 DEF TypeInv, TypeOK
      <4> HIDE DEF pane
      <4>4. /\ "replied" \in WorkerPC
            /\ reply \in {"nothing", "ok", "started", "unreadable", "taken", "error"}
        BY <1>pcs
      <4>5. frame \in Worker /\ frame.op = worker[q.by].op /\ frame.tab = worker[q.by].tab
              /\ frame.pc = "replied"
        BY <4>3, <4>4, FrameAttached, Zenon
      <4> HIDE DEF frame
      <4> QED
        BY <1>0, <1>4, <3>2, <4>2, <4>5, CallEnds DEF AttachAgent
    <3> QED
      BY <3>1, <3>2
  <2>3. /\ agent' \in [Ops -> Tabs \cup {None}] /\ ran' \in [Ops -> SUBSET Tabs]
        /\ unseen' \subseteq Ops
    BY <1>0, <1>4, <2>1 DEF AttachAgent, TypeInv, TypeOK
  <2> QED
    BY <1>4, <2>2, <2>3 DEF AttachAgent, TypeInv, TypeOK
<1> QED
  BY <1>1, <1>2, <1>3, <1>4 DEF HerdrStep

-----------------------------------------------------------------------------
(* The steps of a command thread.                                           *)

\* A command step moves its own frame, and neither calls nor tabs.
LEMMA ClientFrameStep ==
  ASSUME TypeInv, NEW c \in Clients, NEW frame \in Client,
         client' = [client EXCEPT ![c] = frame],
         frame.pc \in {"ensure", "signal", "withdraw"} => frame.op # None,
         frame.pc = "source" => frame.source # None,
         up \/ client[c].pc # "idle",
         UNCHANGED <<worker, up, owner>>
  PROVE  client' \in [Clients -> Client] /\ FramesOK'
  <1>1. client' \in [Clients -> Client] /\ client'[c] = frame
          /\ \A d \in Clients : d # c => client'[d] = client[d]
    BY DEF TypeInv, TypeOK
  <1> QED
    BY <1>1 DEF TypeInv, FramesOK

\* A command thread's lookups, admission, signal and cancel keep the invariant.
LEMMA ClientStepTyped ==
  ASSUME TypeInv, NEW c \in Clients,
         \/ BeginCommand(c) \/ LookupRequest(c) \/ ReadSource(c) \/ RefuseCommand(c)
         \/ Admit(c) \/ CancelCommand(c) \/ Signal(c) \/ Withdraw(c) \/ CommandRaises(c)
  PROVE  TypeInv'
<1> USE DEF journal, process, herdr, history, budget
<1>0. client[c] \in Client /\ IdleClient \in Client /\ IdleClient.pc = "idle"
  BY IdleTyped DEF TypeInv, TypeOK
<1>keep. \A f \in Client, o \in Ops :
           LET h == [f EXCEPT !.pc = "ensure", !.op = o]
           IN  h \in Client /\ h.pc = "ensure" /\ h.op = o
  BY DEF Client
<1>signal. \A f \in Client, o \in Ops :
             LET h == [f EXCEPT !.pc = "signal", !.op = o]
             IN  h \in Client /\ h.pc = "signal" /\ h.op = o
  BY DEF Client
<1>admit. \A f \in Client, n \in 0..MaxAttempt :
            LET h == [f EXCEPT !.pc = "admit", !.attempt = n] IN h \in Client /\ h.pc = "admit"
  BY DEF Client
<1>none. None \notin Ops
  BY ConstantsOK
<1>same. UNCHANGED <<worker, owner, calls>> => CallsOK'
  BY DEF TypeInv, CallsOK
<1>1. CASE BeginCommand(c)
  <2>1. PICK r \in Requests, s \in Ops \cup {None} :
          client' = [client EXCEPT ![c] =
             [IdleClient EXCEPT !.pc = "lookup", !.request = r, !.source = s]]
    BY <1>1 DEF BeginCommand
  <2> DEFINE frame == [IdleClient EXCEPT !.pc = "lookup", !.request = r, !.source = s]
  <2>2. \A f \in Client, q \in Requests, x \in Ops \cup {None} :
          LET h == [f EXCEPT !.pc = "lookup", !.request = q, !.source = x] IN
          h \in Client /\ h.pc = "lookup"
    BY DEF Client
  <2>3. frame \in Client /\ frame.pc = "lookup"
    BY <1>0, <2>2
  <2> HIDE DEF frame
  <2>4. client' \in [Clients -> Client] /\ FramesOK'
    BY <1>1, <2>1, <2>3, ClientFrameStep DEF BeginCommand, frame
  <2>5. /\ UNCHANGED <<journal, running, event, worker, up, herdr, crashes, faults, history>>
        /\ commands' = commands + 1
    BY <1>1 DEF BeginCommand
  <2> QED
    BY <1>same, <2>4, <2>5 DEF TypeInv, TypeOK
<1>2. CASE LookupRequest(c)
  <2>1. PICK frame \in Client :
          /\ client' = [client EXCEPT ![c] = frame]
          /\ frame.pc \in {"ensure", "signal", "withdraw"} => frame.op # None
          /\ frame.pc = "source" => frame.source # None
    <3>1. CASE \E o \in Ops : client' = [client EXCEPT ![c].pc = "ensure", ![c].op = o]
      <4>1. PICK o \in Ops : client' = [client EXCEPT ![c].pc = "ensure", ![c].op = o]
        BY <3>1
      <4> DEFINE frame == [client[c] EXCEPT !.pc = "ensure", !.op = o]
      <4>2. client' = [client EXCEPT ![c] = frame]
        BY <4>1
      <4>3. frame \in Client /\ frame.pc = "ensure" /\ frame.op # None
        BY <1>0, <1>keep, <1>none
      <4> HIDE DEF frame
      <4> QED
        BY <4>2, <4>3
    <3>2. CASE client[c].source # None /\ client' = [client EXCEPT ![c].pc = "source"]
      <4> DEFINE frame == [client[c] EXCEPT !.pc = "source"]
      <4>1. frame \in Client /\ frame.pc = "source" /\ frame.source = client[c].source
        BY <1>0 DEF Client
      <4>2. client' = [client EXCEPT ![c] = frame]
        BY <3>2
      <4> HIDE DEF frame
      <4> QED
        BY <3>2, <4>1, <4>2
    <3>3. CASE client' = [client EXCEPT ![c].pc = "admit", ![c].attempt = 1]
      <4> DEFINE frame == [client[c] EXCEPT !.pc = "admit", !.attempt = 1]
      <4>1. 1 \in 0..MaxAttempt
        BY ConstantsOK
      <4>2. frame \in Client /\ frame.pc = "admit"
        BY <1>0, <1>admit, <4>1
      <4>3. client' = [client EXCEPT ![c] = frame]
        BY <3>3
      <4> HIDE DEF frame
      <4> QED
        BY <4>2, <4>3
    <3> QED
      BY <1>2, <3>1, <3>2, <3>3 DEF LookupRequest, ByRequest
  <2>2. client' \in [Clients -> Client] /\ FramesOK'
    BY <1>2, <2>1, ClientFrameStep DEF LookupRequest
  <2> QED
    BY <1>2, <1>same, <2>2 DEF LookupRequest, TypeInv, TypeOK
<1>3. CASE ReadSource(c)
  <2>1. PICK frame \in Client :
          /\ client' = [client EXCEPT ![c] = frame]
          /\ frame.pc \in {"ensure", "signal", "withdraw"} => frame.op # None
          /\ frame.pc # "source"
    <3> DEFINE n == rows[client[c].source].attempt + 1
    <3>1. CASE client' = [client EXCEPT ![c] = IdleClient]
      BY <1>0, <3>1
    <3>2. CASE \E o \in Ops : client' = [client EXCEPT ![c].pc = "ensure", ![c].op = o]
      <4>1. PICK o \in Ops : client' = [client EXCEPT ![c].pc = "ensure", ![c].op = o]
        BY <3>2
      <4> DEFINE frame == [client[c] EXCEPT !.pc = "ensure", !.op = o]
      <4>2. client' = [client EXCEPT ![c] = frame]
        BY <4>1
      <4>3. frame \in Client /\ frame.pc = "ensure" /\ frame.op # None
        BY <1>0, <1>keep, <1>none
      <4> HIDE DEF frame
      <4> QED
        BY <4>2, <4>3
    <3>3. CASE /\ client' = [client EXCEPT ![c].pc = "admit", ![c].attempt = n]
               /\ n <= MaxAttempt
      <4> DEFINE frame == [client[c] EXCEPT !.pc = "admit", !.attempt = n]
      <4>1. client[c].source \in Ops
        BY <1>0, <1>3 DEF ReadSource, TypeInv, FramesOK, Client
      <4>2. rows[client[c].source].attempt \in 0..MaxAttempt
        BY <4>1 DEF TypeInv, TypeOK, Row
      <4>3. n \in 0..MaxAttempt
        BY <3>3, <4>2, ConstantsOK
      <4>4. client' = [client EXCEPT ![c] = frame]
        BY <3>3
      <4> HIDE DEF n
      <4>5. frame \in Client /\ frame.pc = "admit"
        BY <1>0, <1>admit, <4>3
      <4> HIDE DEF frame
      <4> QED
        BY <4>4, <4>5
    <3> QED
      BY <1>3, <3>1, <3>2, <3>3 DEF ReadSource, ByRetry
  <2>2. client' \in [Clients -> Client] /\ FramesOK'
    BY <1>3, <2>1, ClientFrameStep DEF ReadSource
  <2> QED
    BY <1>3, <1>same, <2>2 DEF ReadSource, TypeInv, TypeOK
<1>4. CASE RefuseCommand(c)
  <2>1. client' \in [Clients -> Client] /\ FramesOK'
    BY <1>0, <1>4, ClientFrameStep DEF RefuseCommand
  <2> QED
    BY <1>4, <1>same, <2>1 DEF RefuseCommand, TypeInv, TypeOK
<1>5. CASE Admit(c)
  <2>1. PICK o \in Ops : client' = [client EXCEPT ![c].pc = "ensure", ![c].op = o]
    BY <1>5 DEF Admit, Known, ByRequest, ByRetry
  <2> DEFINE frame == [client[c] EXCEPT !.pc = "ensure", !.op = o]
  <2>2. client' = [client EXCEPT ![c] = frame]
    BY <2>1
  <2>3. frame \in Client /\ frame.pc = "ensure" /\ frame.op # None
    BY <1>0, <1>keep, <1>none
  <2> HIDE DEF frame
  <2>4. client' \in [Clients -> Client] /\ FramesOK'
    BY <1>5, <2>2, <2>3, ClientFrameStep DEF Admit
  <2>5. client[c].source \in Ops \cup {None} /\ client[c].attempt \in 0..MaxAttempt
          /\ client[c].request \in Requests \cup {None}
    BY <1>0 DEF Client
  <2>7. NewRow(client[c].request, client[c].source, client[c].attempt) \in Row
    BY <2>5, NewRowTyped
  <2>8. rows' \in [Ops -> Row]
    BY <1>5, <2>7 DEF Admit, TypeInv, TypeOK
  <2> QED
    BY <1>5, <1>same, <2>4, <2>8 DEF Admit, TypeInv, TypeOK
<1>6. CASE CancelCommand(c)
  <2>1. PICK o \in Ops :
          client' = [client EXCEPT ![c] = [IdleClient EXCEPT !.pc = "signal", !.op = o]]
    BY <1>6 DEF CancelCommand
  <2> DEFINE frame == [IdleClient EXCEPT !.pc = "signal", !.op = o]
  <2>2. frame \in Client /\ frame.pc = "signal" /\ frame.op # None
    BY <1>0, <1>signal, <1>none
  <2> HIDE DEF frame
  <2>3. client' \in [Clients -> Client] /\ FramesOK'
    BY <1>6, <2>1, <2>2, ClientFrameStep DEF CancelCommand, frame
  <2>5. /\ UNCHANGED <<journal, running, event, worker, up, herdr, crashes, faults, history>>
        /\ commands' = commands + 1
    BY <1>6 DEF CancelCommand
  <2> QED
    BY <1>same, <2>3, <2>5 DEF TypeInv, TypeOK
<1>7. CASE Signal(c)
  <2> DEFINE frame == [client[c] EXCEPT !.pc = "withdraw"]
  <2>1. frame \in Client /\ frame.pc = "withdraw" /\ frame.op = client[c].op
    BY <1>0 DEF Client
  <2>2. client[c].op \in Ops /\ client[c].op # None
    BY <1>0, <1>7 DEF Signal, TypeInv, FramesOK, Client
  <2>3. client' = [client EXCEPT ![c] = frame]
    BY <1>7 DEF Signal
  <2> HIDE DEF frame
  <2>4. client' \in [Clients -> Client] /\ FramesOK'
    BY <1>7, <2>1, <2>2, <2>3, ClientFrameStep DEF Signal
  <2>5. event' \in [Ops -> {"absent", "clear", "set"}] /\ missed' \subseteq Ops
    BY <1>7, <2>2 DEF Signal, TypeInv, TypeOK
  <2> QED
    BY <1>7, <1>same, <2>4, <2>5 DEF Signal, TypeInv, TypeOK
<1>8. CASE Withdraw(c)
  <2>1. client' \in [Clients -> Client] /\ FramesOK'
    BY <1>0, <1>8, ClientFrameStep DEF Withdraw
  <2>2. client[c].op \in Ops
    BY <1>0, <1>8 DEF Withdraw, TypeInv, FramesOK, Client
  <2>3. rows' \in [Ops -> Row]
    BY <1>8, <2>2, WithdrawnTyped DEF Withdraw, TypeInv, TypeOK
  <2> QED
    BY <1>8, <1>same, <2>1, <2>3 DEF Withdraw, TypeInv, TypeOK
<1>9. CASE CommandRaises(c)
  <2>1. client' \in [Clients -> Client] /\ FramesOK'
    BY <1>0, <1>9, ClientFrameStep DEF CommandRaises
  <2>2. running' \subseteq Ops
    BY <1>0, <1>9 DEF CommandRaises, TypeInv, TypeOK, FramesOK, Client
  <2> QED
    BY <1>9, <1>same, <2>1, <2>2 DEF CommandRaises, TypeInv, TypeOK
<1> QED
  BY <1>1, <1>2, <1>3, <1>4, <1>5, <1>6, <1>7, <1>8, <1>9

-----------------------------------------------------------------------------
(* Acknowledge, the environment, and the theorem.                           *)

\* ensure_worker gives an idle thread a fresh frame, or changes nothing.
LEMMA AcknowledgeTyped ==
  ASSUME TypeInv, NEW c \in Clients, Acknowledge(c)
  PROVE  TypeInv'
<1> USE DEF journal, herdr, history, budget
<1>1. client[c].op \in Ops /\ client' = [client EXCEPT ![c] = IdleClient]
        /\ EnsureWorker(client[c].op)
  BY DEF Acknowledge, TypeInv, TypeOK, FramesOK, Client
<1>2. client' \in [Clients -> Client] /\ client'[c] = IdleClient
        /\ \A d \in Clients : d # c => client'[d] = client[d]
  BY <1>1, IdleTyped DEF TypeInv, TypeOK
<1>3. CASE UNCHANGED <<running, worker>>
  <2>1. FramesOK' /\ CallsOK'
    BY <1>2, <1>3, IdleTyped DEF Acknowledge, TypeInv, FramesOK, CallsOK
  <2> QED
    BY <1>2, <1>3, <2>1 DEF Acknowledge, TypeInv, TypeOK
<1>4. CASE \E w \in Threads :
             /\ At(w, "idle") /\ running' = running \cup {client[c].op}
             /\ worker' = [worker EXCEPT ![w] = FreshWorker(client[c].op)]
  <2>1. PICK w \in Threads :
             /\ At(w, "idle") /\ running' = running \cup {client[c].op}
             /\ worker' = [worker EXCEPT ![w] = FreshWorker(client[c].op)]
    BY <1>4
  <2> DEFINE frame == FreshWorker(client[c].op)
  <2>2. frame \in Worker /\ frame.op # None /\ frame.pc = "load" /\ frame.tab = None
    BY <1>1, FreshTyped, ConstantsOK
  <2> HIDE DEF frame
  <2>3. worker' \in [Threads -> Worker] /\ worker'[w] = frame
          /\ \A v \in Threads : v # w => worker'[v] = worker[v]
    BY <2>1, <2>2 DEF TypeInv, TypeOK, frame
  <2>4. FramesOK'
    BY <1>2, <2>2, <2>3, IdleTyped DEF Acknowledge, TypeInv, FramesOK
  <2>5. \A q \in calls : q.by # w
    BY <2>1, ConstantsOK DEF At, TypeInv, CallsOK
  <2>6. CallsOK'
    BY <2>3, <2>5 DEF Acknowledge, TypeInv, TypeOK, Call, CallsOK
  <2> QED
    BY <1>1, <1>2, <2>1, <2>3, <2>4, <2>6 DEF Acknowledge, TypeInv, TypeOK
<1> QED
  BY <1>1, <1>3, <1>4 DEF EnsureWorker

\* A crash leaves idle frames and calls nobody waits for.
LEMMA CrashTyped ==
  ASSUME TypeInv, Crash
  PROVE  TypeInv'
<1>1. worker' \in [Threads -> Worker] /\ client' \in [Clients -> Client]
        /\ event' \in [Ops -> {"absent", "clear", "set"}]
  BY IdleTyped DEF Crash
<1>2. FramesOK'
  BY IdleTyped DEF Crash, FramesOK
<1>3. \A q \in calls : LET p == [q EXCEPT !.by = None] IN
        p \in Call /\ p.by = None /\ p.tab = q.tab
  BY DEF TypeInv, TypeOK, Call
<1>4. calls' \subseteq Call /\ \A p \in calls' : p.by = None /\ owner[p.tab] # None
  <2>1. ASSUME NEW p \in calls' PROVE p \in Call /\ p.by = None /\ owner[p.tab] # None
    <3>1. PICK q \in calls : p = [q EXCEPT !.by = None]
      BY <2>1 DEF Crash
    <3> QED
      BY <1>3, <3>1 DEF TypeInv, CallsOK
  <2> QED
    BY <2>1
<1>5. CallsOK'
  BY <1>4 DEF CallsOK, Crash
<1> QED
  <2>1. /\ up' \in BOOLEAN /\ running' \subseteq Ops
        /\ crashes' = crashes + 1
        /\ UNCHANGED <<rows, marked, owner, tabs, agent, commands, faults, ran, unseen, missed>>
    BY DEF Crash, journal, history
  <2> QED
    BY <1>1, <1>2, <1>4, <1>5, <2>1 DEF TypeInv, TypeOK

\* recover_active gives each active row one idle thread.
LEMMA RestartTyped ==
  ASSUME TypeInv, Restart
  PROVE  TypeInv'
<1>1. PICK thread \in [Recovered -> Threads] :
        worker' = [w \in Threads |->
           IF \E o \in Recovered : thread[o] = w
           THEN FreshWorker(CHOOSE o \in Recovered : thread[o] = w)
           ELSE IdleWorker]
  BY DEF Restart
<1>2. \A w \in Threads : worker'[w] = IdleWorker \/ \E o \in Ops : worker'[w] = FreshWorker(o)
  <2> TAKE w \in Threads
  <2>1. CASE \E o \in Recovered : thread[o] = w
    <3>1. (CHOOSE o \in Recovered : thread[o] = w) \in Ops
      BY <2>1 DEF Recovered
    <3> QED
      BY <1>1, <2>1, <3>1
  <2>2. CASE ~\E o \in Recovered : thread[o] = w
    BY <1>1, <2>2
  <2> QED
    BY <2>1, <2>2
<1>3. \A w \in Threads :
        /\ worker'[w] \in Worker /\ worker'[w].tab = None
        /\ \/ worker'[w].op = None /\ worker'[w].pc = "idle"
           \/ worker'[w].op # None /\ worker'[w].pc = "load"
  BY <1>2, IdleTyped, FreshTyped, ConstantsOK
<1>4. worker' \in [Threads -> Worker]
  BY <1>1, <1>3
<1>5. FramesOK'
  BY <1>3 DEF Restart, TypeInv, FramesOK
<1>6. CallsOK'
  <2>1. \A q \in calls : q.by = None
    BY DEF Restart, TypeInv, TypeOK, FramesOK, CallsOK, Call
  <2> QED
    BY <2>1 DEF Restart, TypeInv, CallsOK, herdr
<1> QED
  BY <1>4, <1>5, <1>6
  DEF Restart, TypeInv, TypeOK, Recovered, journal, herdr, history, budget

\* Every step keeps the invariant.
LEMMA TypeStep == TypeInv /\ [Next]_vars => TypeInv'
<1> SUFFICES ASSUME TypeInv, [Next]_vars PROVE TypeInv'
  OBVIOUS
<1>1. CASE UNCHANGED vars
  BY <1>1 DEF vars, journal, process, herdr, budget, history,
              TypeInv, TypeOK, FramesOK, CallsOK
<1>2. ASSUME NEW c \in Clients,
             BeginCommand(c) \/ CancelCommand(c) \/ ClientStep(c) \/ CommandRaises(c)
      PROVE  TypeInv'
  BY <1>2, ClientStepTyped, AcknowledgeTyped DEF ClientStep
<1>3. ASSUME NEW w \in Threads,
             \/ WorkerStep(w) \/ DeadlinePasses(w) \/ GiveUp(w)
             \/ WorkerRaises(w) \/ WriteFailureRaises(w)
      PROVE  TypeInv'
  BY <1>3, LocalStepTyped, CreateTabTyped, StartAgentTyped, CallStepTyped, ExitTyped
  DEF WorkerStep
<1>4. ASSUME NEW o \in Ops, AgentExits(o)
      PROVE  TypeInv'
  BY <1>4 DEF AgentExits, journal, process, budget, history,
              TypeInv, TypeOK, FramesOK, CallsOK
<1> QED
  BY <1>1, <1>2, <1>3, <1>4, HerdrStepTyped, CrashTyped, RestartTyped
  DEF Next, Quiescent

\* The empty journal and idle threads satisfy the invariant.
LEMMA TypeInit == Init => TypeInv
<1> SUFFICES ASSUME Init PROVE TypeInv
  OBVIOUS
<1>1. NoRow \in Row
  BY ConstantsOK DEF NoRow, Row
<1>2. TypeOK
  BY <1>1, IdleTyped DEF Init, TypeOK
<1>3. FramesOK /\ CallsOK
  BY IdleTyped DEF Init, FramesOK, CallsOK
<1> QED
  BY <1>2, <1>3 DEF TypeInv

\* In every behaviour the variables keep the types the code gives them.
THEOREM Typing == Spec => []TypeOK
<1>1. Spec => []TypeInv
  BY TypeInit, TypeStep, PTL DEF Spec
<1>2. TypeInv => TypeOK
  BY DEF TypeInv
<1> QED
  BY <1>1, <1>2, PTL

-----------------------------------------------------------------------------
(* The ways a step may write the journal.                                   *)

Rewrites(o) ==
    \/ \E stage \in ACTIVE_STAGES \cup TERMINAL_STAGES,
          session \in Tabs \cup {None}, error \in ErrorCodes \cup {None} :
         rows' = [rows EXCEPT ![o] = Updated(@, stage, session, error)]
    \/ rows' = [rows EXCEPT ![o] = Withdrawn(@)]

Inserts(c, o) ==
    /\ client[c].pc = "admit" /\ ~Exists(o)
    /\ Known(client[c].request, client[c].source, client[c].attempt) = {}
    /\ rows' = [rows EXCEPT ![o] =
                   NewRow(client[c].request, client[c].source, client[c].attempt)]

\* A command writes the journal when it admits and when it withdraws only.
LEMMA CommandsRead ==
  ASSUME NEW c \in Clients,
         \/ BeginCommand(c) \/ CancelCommand(c) \/ LookupRequest(c) \/ ReadSource(c)
         \/ RefuseCommand(c) \/ Acknowledge(c) \/ Signal(c) \/ CommandRaises(c)
  PROVE  UNCHANGED rows
<1> USE DEF journal
<1>1. CASE BeginCommand(c) \/ CancelCommand(c) \/ LookupRequest(c)
  BY <1>1, Zenon DEF BeginCommand, CancelCommand, LookupRequest
<1>2. CASE ReadSource(c)
  BY <1>2 DEF ReadSource
<1>3. CASE RefuseCommand(c) \/ Acknowledge(c) \/ Signal(c) \/ CommandRaises(c)
  BY <1>3 DEF RefuseCommand, Acknowledge, Signal, CommandRaises
<1> QED
  BY <1>1, <1>2, <1>3

\* Every step of the relay, of Herdr and of the environment leaves the journal
\* alone, updates one row of it or inserts one.
LEMMA JournalStep ==
  ASSUME TypeInv, [Next]_vars
  PROVE  \/ UNCHANGED rows
         \/ \E o \in Ops : Rewrites(o)
         \/ \E c \in Clients, o \in Ops : Inserts(c, o)
<1> USE DEF journal, process, herdr, history, others, At
<1> DEFINE Goal == \/ UNCHANGED rows
                   \/ \E o \in Ops : Rewrites(o)
                   \/ \E c \in Clients, o \in Ops : Inserts(c, o)
<1> SUFFICES Goal
  OBVIOUS
<1> HIDE DEF Goal
<1>goal. /\ UNCHANGED rows => Goal
         /\ \A o \in Ops : Rewrites(o) => Goal
         /\ \A c \in Clients, o \in Ops : Inserts(c, o) => Goal
  BY DEF Goal
<1>1. CASE UNCHANGED vars
  BY <1>1, <1>goal DEF vars
<1>2. ASSUME NEW c \in Clients, Admit(c)
      PROVE  Goal
  <2>1. \/ UNCHANGED rows
        \/ \E o \in Ops : Inserts(c, o)
    BY <1>2 DEF Admit, Inserts
  <2> QED
    BY <1>goal, <2>1
<1>3. ASSUME NEW c \in Clients, Withdraw(c)
      PROVE  Goal
  <2>1. client[c].op \in Ops
    BY <1>3 DEF Withdraw, TypeInv, TypeOK, FramesOK, Client
  <2>2. Rewrites(client[c].op)
    BY <1>3 DEF Withdraw, Rewrites
  <2> QED
    BY <1>goal, <2>1, <2>2
<1>4. ASSUME NEW c \in Clients,
             \/ BeginCommand(c) \/ CancelCommand(c) \/ LookupRequest(c) \/ ReadSource(c)
             \/ RefuseCommand(c) \/ Acknowledge(c) \/ Signal(c) \/ CommandRaises(c)
      PROVE  Goal
  <2>1. UNCHANGED rows
    BY <1>4, CommandsRead
  <2> QED
    BY <1>goal, <2>1
<1>update. ASSUME NEW o \in Ops, NEW stage \in ACTIVE_STAGES \cup TERMINAL_STAGES,
             NEW session \in Tabs \cup {None}, NEW error \in ErrorCodes \cup {None},
             rows' = [rows EXCEPT ![o] = Updated(@, stage, session, error)]
           PROVE  Goal
  <2>1. Rewrites(o)
    BY <1>update DEF Rewrites
  <2> QED
    BY <1>goal, <2>1
<1>5. ASSUME NEW w \in Threads, Finish(w) \/ WriteFailure(w)
      PROVE  Goal
  <2>1. Op(w) \in Ops /\ worker[w] \in Worker
    BY <1>5, OpTyped DEF Finish, WriteFailure
  <2>2. worker[w].pane \in Tabs \cup {None} /\ worker[w].code \in ErrorCodes \cup {None}
    BY <2>1 DEF Worker
  <2> QED
    BY <1>5, <1>update, <2>1, <2>2 DEF Finish, WriteFailure, TERMINAL_STAGES
<1>6. ASSUME NEW w \in Threads,
             \/ CheckContext(w) \/ ProbeOffline(w) \/ ProbeReached(w) \/ Woken(w) \/ Gate(w)
      PROVE  Goal
  <2>1. Op(w) \in Ops
    BY <1>6, OpTyped DEF CheckContext, ProbeOffline, ProbeReached, Woken, Gate
  <2>2. \/ UNCHANGED rows
        \/ \E stage \in ACTIVE_STAGES : Transition(Op(w), stage)
    BY <1>6 DEF CheckContext, ProbeOffline, ProbeReached, Woken, Gate, ACTIVE_STAGES
  <2> QED
    BY <1>goal, <1>update, <2>1, <2>2 DEF Transition
<1>7. ASSUME NEW w \in Threads,
             \/ Load(w) \/ Probe(w) \/ ProbeCancelled(w) \/ ProbeFound(w)
             \/ ProbeElsewise(w) \/ Pause(w) \/ DeadlinePasses(w) \/ Wake(w)
             \/ CreateTab(w) \/ Created(w) \/ StartAgent(w) \/ GiveUp(w)
             \/ Replied(w) \/ CloseTab(w) \/ Observed(w) \/ Record(w) \/ Exit(w)
             \/ WorkerRaises(w) \/ WriteFailureRaises(w)
      PROVE  Goal
  <2>1. UNCHANGED rows
    BY <1>7, Zenon DEF Load, Probe, ProbeCancelled, ProbeFound, ProbeElsewise, Pause,
                DeadlinePasses, Wake, CreateTab, Created, StartAgent, GiveUp, Replied,
                CloseTab, Observed, Record, Exit, WorkerRaises, WriteFailureRaises
  <2> QED
    BY <1>goal, <2>1
<1>8. (\E q \in calls : HerdrStep(q)) \/ (\E o \in Ops : AgentExits(o)) \/ Crash \/ Restart
        => Goal
  <2>1. ASSUME \/ \E q \in calls : HerdrStep(q)
               \/ \E o \in Ops : AgentExits(o)
               \/ Crash \/ Restart
        PROVE  UNCHANGED rows
    BY <2>1, Zenon DEF HerdrStep, OpenTab, RefuseTab, AttachAgent, RefuseAgent, AgentExits,
                Crash, Restart
  <2> QED
    BY <1>goal, <2>1
<1>9. ASSUME NEW c \in Clients,
             BeginCommand(c) \/ CancelCommand(c) \/ ClientStep(c) \/ CommandRaises(c)
      PROVE  Goal
  BY <1>2, <1>3, <1>4, <1>9 DEF ClientStep
<1>10. ASSUME NEW w \in Threads,
              \/ WorkerStep(w) \/ DeadlinePasses(w) \/ GiveUp(w)
              \/ WorkerRaises(w) \/ WriteFailureRaises(w)
       PROVE  Goal
  BY <1>5, <1>6, <1>7, <1>10 DEF WorkerStep
<1>11. CASE Quiescent
  BY <1>1, <1>11 DEF Quiescent
<1> QED
  BY <1>1, <1>8, <1>9, <1>10, <1>11 DEF Next

\* An update of a row keeps what identifies it, and a terminal row whole.
LEMMA RewriteKeeps ==
  ASSUME TypeInv, NEW o \in Ops, Rewrites(o)
  PROVE  /\ \A p \in Ops : p # o => rows'[p] = rows[p]
         /\ rows'[o].request = rows[o].request /\ rows'[o].source = rows[o].source
         /\ rows'[o].attempt = rows[o].attempt
         /\ rows'[o].stage = "absent" <=> rows[o].stage = "absent"
         /\ Terminal(o) => rows'[o] = rows[o]
         /\ rows'[o] # rows[o] => Active(o)
<1>1. rows \in [Ops -> Row] /\ rows[o] \in Row
  BY DEF TypeInv, TypeOK
<1>2. ASSUME NEW row \in Row, NEW stage \in ACTIVE_STAGES \cup TERMINAL_STAGES,
             NEW session, NEW error
      PROVE  LET new == Updated(row, stage, session, error) IN
             /\ new.request = row.request /\ new.source = row.source
             /\ new.attempt = row.attempt
             /\ new.stage = "absent" <=> row.stage = "absent"
             /\ row.stage \notin ACTIVE_STAGES => new = row
  BY DEF Updated, Row, ACTIVE_STAGES, TERMINAL_STAGES
<1>3. ASSUME NEW row \in Row
      PROVE  LET new == Withdrawn(row) IN
             /\ new.request = row.request /\ new.source = row.source
             /\ new.attempt = row.attempt
             /\ new.stage = "absent" <=> row.stage = "absent"
             /\ row.stage \notin ACTIVE_STAGES => new = row
  BY DEF Withdrawn, Row, ACTIVE_STAGES
<1>4. PICK new : /\ rows' = [rows EXCEPT ![o] = new]
                 /\ new.request = rows[o].request /\ new.source = rows[o].source
                 /\ new.attempt = rows[o].attempt
                 /\ new.stage = "absent" <=> rows[o].stage = "absent"
                 /\ rows[o].stage \notin ACTIVE_STAGES => new = rows[o]
  BY <1>1, <1>2, <1>3 DEF Rewrites
<1>5. rows[o].stage \in TERMINAL_STAGES => rows[o].stage \notin ACTIVE_STAGES
  BY DEF ACTIVE_STAGES, TERMINAL_STAGES
<1> QED
  BY <1>1, <1>4, <1>5 DEF Terminal, Active

\* A row leaves no terminal stage and changes in none: the WHERE clauses of
\* update and cancel hold for every writer.
THEOREM TerminalRowsAreFinal == Spec => TerminalIsFinal
<1>1. ASSUME TypeInv, [Next]_vars, NEW o \in Ops, Terminal(o)
      PROVE  rows'[o] = rows[o]
  <2>1. CASE \E p \in Ops : Rewrites(p)
    BY <1>1, <2>1, RewriteKeeps
  <2>2. CASE \E c \in Clients, p \in Ops : Inserts(c, p)
    BY <1>1, <2>2 DEF Inserts, Exists, Terminal, TERMINAL_STAGES, TypeInv, TypeOK
  <2> QED
    BY <1>1, <2>1, <2>2, JournalStep
<1>2. TypeInv /\ [Next]_vars => [\A o \in Ops : Terminal(o) => rows'[o] = rows[o]]_vars
  BY <1>1
<1>3. Spec => []TypeInv
  BY TypeInit, TypeStep, PTL DEF Spec
<1> QED
  BY <1>2, <1>3, PTL DEF Spec, TerminalIsFinal

-----------------------------------------------------------------------------
(* One row per request, and retries of settled sources.                     *)

\* A command that is about to insert a row has read a source that may be
\* retried, and still may: rows in RETRYABLE_STAGES are final.
AdmissionsOK ==
    \A c \in Clients :
        /\ client[c].pc \in {"lookup", "source", "admit"} => client[c].request \in Requests
        /\ client[c].pc = "admit" /\ client[c].source # None =>
             /\ rows[client[c].source].stage \in RETRYABLE_STAGES
             /\ client[c].attempt = rows[client[c].source].attempt + 1

RequestsOK == \A o \in Ops : Exists(o) => rows[o].request \in Requests

JournalInv ==
    /\ TypeInv /\ AdmissionsOK /\ RequestsOK
    /\ OneOperationPerRequest /\ RetryFollowsSettledSource

\* A command that admits finds the row another one has inserted, or inserts it.
LEMMA AdmitCases ==
  ASSUME NEW c \in Clients, Admit(c)
  PROVE  \/ /\ \E o \in Known(client[c].request, client[c].source, client[c].attempt) :
                 client' = [client EXCEPT ![c] = [client[c] EXCEPT !.pc = "ensure", !.op = o]]
            /\ UNCHANGED rows
         \/ \E o \in Ops :
              /\ ~Exists(o)
              /\ rows' = [rows EXCEPT ![o] = NewRow(client[c].request, client[c].source,
                                                   client[c].attempt)]
              /\ client' = [client EXCEPT ![c] = [client[c] EXCEPT !.pc = "ensure", !.op = o]]
<1> DEFINE known == Known(client[c].request, client[c].source, client[c].attempt)
           row == NewRow(client[c].request, client[c].source, client[c].attempt)
           Moved(o) == client' = [client EXCEPT ![c] =
                                    [client[c] EXCEPT !.pc = "ensure", !.op = o]]
<1>1. ASSUME NEW o, client' = [client EXCEPT ![c].pc = "ensure", ![c].op = o]
      PROVE  Moved(o)
  BY <1>1
<1>2. \/ /\ \E o \in known : client' = [client EXCEPT ![c].pc = "ensure", ![c].op = o]
         /\ UNCHANGED rows
      \/ \E o \in {x \in Ops : ~Exists(x)} :
           /\ rows' = [rows EXCEPT ![o] = row]
           /\ client' = [client EXCEPT ![c].pc = "ensure", ![c].op = o]
  BY DEF Admit
<1> HIDE DEF Moved, known, row
<1>3. CASE UNCHANGED rows /\ \E o \in known : Moved(o)
  BY <1>3 DEF Moved, known
<1>4. CASE \E o \in Ops : ~Exists(o) /\ rows' = [rows EXCEPT ![o] = row] /\ Moved(o)
  BY <1>4 DEF Moved, row
<1> QED
  BY <1>1, <1>2, <1>3, <1>4, Zenon

\* What a step does to the frame of a command thread, as far as admission goes.
LEMMA AdmissionFrames ==
  ASSUME TypeInv, [Next]_vars, NEW c \in Clients
  PROVE  \/ client'[c] = client[c]
         \/ client'[c].pc \notin {"lookup", "source", "admit"}
         \/ BeginCommand(c) \/ LookupRequest(c) \/ ReadSource(c)
<1> USE DEF TypeInv, TypeOK
<1> DEFINE Goal == \/ client'[c] = client[c]
                   \/ client'[c].pc \notin {"lookup", "source", "admit"}
                   \/ BeginCommand(c) \/ LookupRequest(c) \/ ReadSource(c)
<1> SUFFICES Goal
  OBVIOUS
<1>same. UNCHANGED client => Goal
  OBVIOUS
<1>1. ASSUME NEW d \in Clients, d # c,
             BeginCommand(d) \/ CancelCommand(d) \/ ClientStep(d) \/ CommandRaises(d)
      PROVE  Goal
  <2>1. client'[c] = client[c]
    <3>1. ASSUME NEW frame, client' = [client EXCEPT ![d] = frame]
          PROVE  client'[c] = client[c]
      BY <1>1, <3>1
    <3>2. CASE BeginCommand(d) \/ CancelCommand(d) \/ LookupRequest(d)
      BY <3>1, <3>2 DEF BeginCommand, CancelCommand, LookupRequest
    <3>5. CASE ReadSource(d)
      BY <3>1, <3>5 DEF ReadSource
    <3>3. CASE \/ RefuseCommand(d) \/ Acknowledge(d) \/ Signal(d) \/ Withdraw(d)
               \/ CommandRaises(d)
      BY <3>1, <3>3 DEF RefuseCommand, Acknowledge, Signal, Withdraw, CommandRaises
    <3>4. CASE Admit(d)
      BY <3>1, <3>4, AdmitCases
    <3> QED
      BY <1>1, <3>2, <3>3, <3>4, <3>5 DEF ClientStep
  <2> QED
    BY <2>1
<1>2. CASE RefuseCommand(c) \/ Acknowledge(c) \/ Withdraw(c) \/ CommandRaises(c)
  <2>1. client'[c] = IdleClient
    BY <1>2 DEF RefuseCommand, Acknowledge, Withdraw, CommandRaises
  <2> QED
    BY <2>1, IdleTyped
<1>3. CASE CancelCommand(c) \/ Admit(c) \/ Signal(c)
  <2>1. client[c] \in Client /\ IdleClient \in Client
    BY IdleTyped
  <2>2. \A f \in Client : \A o : LET g == [f EXCEPT !.pc = "signal", !.op = o] IN g.pc = "signal"
    BY DEF Client
  <2>3. \A f \in Client : \A o : LET g == [f EXCEPT !.pc = "ensure", !.op = o] IN g.pc = "ensure"
    BY DEF Client
  <2>4. \A f \in Client : [f EXCEPT !.pc = "withdraw"].pc = "withdraw"
    BY DEF Client
  <2>5. client'[c].pc \in {"signal", "ensure", "withdraw"}
    <3>1. CASE CancelCommand(c)
      BY <2>1, <2>2, <3>1 DEF CancelCommand
    <3>2. CASE Admit(c)
      <4>1. PICK o : client' = [client EXCEPT ![c] =
                                  [client[c] EXCEPT !.pc = "ensure", !.op = o]]
        BY <3>2, AdmitCases, Zenon
      <4> QED
        BY <2>1, <2>3, <4>1
    <3>3. CASE Signal(c)
      BY <2>1, <2>4, <3>3 DEF Signal
    <3> QED
      BY <1>3, <3>1, <3>2, <3>3
  <2> QED
    BY <2>5
<1>4. ASSUME NEW w \in Threads,
             \/ WorkerStep(w) \/ DeadlinePasses(w) \/ GiveUp(w)
             \/ WorkerRaises(w) \/ WriteFailureRaises(w)
      PROVE  Goal
  <2>1. UNCHANGED client
    BY <1>4, Zenon DEF others, WorkerStep, Load, CheckContext, Probe, ProbeCancelled, ProbeFound,
       ProbeOffline, ProbeReached, ProbeElsewise, Pause, Wake, Woken, Gate, CreateTab,
       Created, StartAgent, Replied, CloseTab, Observed, Record, Finish, WriteFailure,
       Exit, DeadlinePasses, GiveUp, WorkerRaises, WriteFailureRaises
  <2> QED
    BY <1>same, <2>1
<1>5. ASSUME NEW q \in calls, HerdrStep(q)
      PROVE  Goal
  <2>1. UNCHANGED client
    BY <1>5 DEF others, HerdrStep, OpenTab, RefuseTab, AttachAgent, RefuseAgent
  <2> QED
    BY <1>same, <2>1
<1>6. CASE Crash
  BY <1>6, IdleTyped DEF Crash
<1>7. CASE Restart \/ (\E o \in Ops : AgentExits(o)) \/ Quiescent \/ UNCHANGED vars
  <2>1. UNCHANGED client
    BY <1>7 DEF Restart, AgentExits, Quiescent, vars, process
  <2> QED
    BY <1>same, <2>1
<1>8. ASSUME NEW d \in Clients,
             BeginCommand(d) \/ CancelCommand(d) \/ ClientStep(d) \/ CommandRaises(d)
      PROVE  Goal
  BY <1>1, <1>2, <1>3, <1>8 DEF ClientStep
<1> HIDE DEF Goal
<1> QED
  BY <1>4, <1>5, <1>6, <1>7, <1>8 DEF Next

\* One step keeps every row where it is; at most one row is new, and it is the
\* one an admission found no other for.
LEMMA RowsStep ==
  ASSUME TypeInv, [Next]_vars
  PROVE  /\ \A o \in Ops : Terminal(o) => rows'[o] = rows[o]
         /\ \/ \A o \in Ops :
                 /\ rows'[o].request = rows[o].request /\ rows'[o].source = rows[o].source
                 /\ rows'[o].attempt = rows[o].attempt /\ (Exists(o)' <=> Exists(o))
            \/ \E c \in Clients, o \in Ops : Inserts(c, o)
<1>1. rows \in [Ops -> Row]
  BY DEF TypeInv, TypeOK
<1>2. CASE UNCHANGED rows
  BY <1>2 DEF Exists
<1>3. ASSUME NEW p \in Ops, Rewrites(p)
      PROVE  \A o \in Ops :
               /\ rows'[o].request = rows[o].request /\ rows'[o].source = rows[o].source
               /\ rows'[o].attempt = rows[o].attempt /\ (Exists(o)' <=> Exists(o))
               /\ Terminal(o) => rows'[o] = rows[o]
  BY <1>3, RewriteKeeps DEF Exists
<1>4. ASSUME NEW c \in Clients, NEW p \in Ops, Inserts(c, p)
      PROVE  \A o \in Ops : Terminal(o) => rows'[o] = rows[o]
  BY <1>1, <1>4 DEF Inserts, Exists, Terminal, TERMINAL_STAGES
<1> QED
  BY <1>2, <1>3, <1>4, JournalStep

\* What an admission has looked up stays true until it inserts its row, whatever
\* the other threads do in between.
LEMMA AdmissionsStep ==
  ASSUME TypeInv, AdmissionsOK, [Next]_vars
  PROVE  AdmissionsOK'
<1>1. SUFFICES ASSUME NEW c \in Clients
               PROVE  /\ client'[c].pc \in {"lookup", "source", "admit"} =>
                           client'[c].request \in Requests
                      /\ client'[c].pc = "admit" /\ client'[c].source # None =>
                           /\ rows'[client'[c].source].stage \in RETRYABLE_STAGES
                           /\ client'[c].attempt = rows'[client'[c].source].attempt + 1
  BY DEF AdmissionsOK
<1>2. client \in [Clients -> Client] /\ client[c] \in Client
  BY DEF TypeInv, TypeOK
<1>3. CASE client'[c] = client[c]
  <2>1. client[c].source \in Ops \cup {None}
    BY <1>2 DEF Client
  <2>2. \A o \in Ops : rows[o].stage \in RETRYABLE_STAGES => rows'[o] = rows[o]
    BY RowsStep DEF Terminal, RETRYABLE_STAGES, TERMINAL_STAGES
  <2> QED
    BY <1>3, <2>1, <2>2 DEF AdmissionsOK
<1>4. CASE BeginCommand(c)
  <2>1. PICK r \in Requests, s \in Ops \cup {None} :
          client'[c] = [IdleClient EXCEPT !.pc = "lookup", !.request = r, !.source = s]
    BY <1>2, <1>4 DEF BeginCommand
  <2>2. \A f \in Client, q \in Requests, x \in Ops \cup {None} :
          LET g == [f EXCEPT !.pc = "lookup", !.request = q, !.source = x]
          IN  g.pc = "lookup" /\ g.request = q
    BY DEF Client
  <2>3. client'[c].pc = "lookup" /\ client'[c].request = r
    BY <2>1, <2>2, IdleTyped
  <2> QED
    BY <2>3
<1>5. CASE LookupRequest(c)
  <2>1. client[c].request \in Requests
    BY <1>5 DEF LookupRequest, AdmissionsOK
  <2>2. CASE \E o : client' = [client EXCEPT ![c].pc = "ensure", ![c].op = o]
    BY <1>2, <2>2 DEF Client
  <2>3. CASE client' = [client EXCEPT ![c].pc = "source"]
    BY <1>2, <2>1, <2>3 DEF Client
  <2>4. CASE /\ client[c].source = None
             /\ client' = [client EXCEPT ![c].pc = "admit", ![c].attempt = 1]
    BY <1>2, <2>1, <2>4 DEF Client
  <2> QED
    BY <1>5, <2>2, <2>3, <2>4 DEF LookupRequest
<1>6. CASE ReadSource(c)
  <2> DEFINE n == rows[client[c].source].attempt + 1
  <2>1. client[c].request \in Requests /\ rows' = rows
    BY <1>6 DEF ReadSource, AdmissionsOK, journal
  <2>2. CASE client' = [client EXCEPT ![c] = IdleClient]
    BY <1>2, <2>2, IdleTyped
  <2>3. CASE \E o : client' = [client EXCEPT ![c].pc = "ensure", ![c].op = o]
    BY <1>2, <2>3 DEF Client
  <2>4. CASE /\ rows[client[c].source].stage \in RETRYABLE_STAGES
             /\ client' = [client EXCEPT ![c].pc = "admit", ![c].attempt = n]
    <3> HIDE DEF n
    <3>1. /\ client'[c].pc = "admit" /\ client'[c].request = client[c].request
          /\ client'[c].source = client[c].source /\ client'[c].attempt = n
      BY <1>2, <2>4 DEF Client
    <3> QED
      BY <2>1, <2>4, <3>1 DEF n
  <2> QED
    BY <1>6, <2>2, <2>3, <2>4 DEF ReadSource
<1> QED
  BY <1>3, <1>4, <1>5, <1>6, AdmissionFrames

\* The rows keep their requests, their sources and one row of each.
LEMMA RowsOfOneRequest ==
  ASSUME JournalInv, [Next]_vars
  PROVE  RequestsOK' /\ OneOperationPerRequest' /\ RetryFollowsSettledSource'
<1> USE DEF JournalInv
<1>0. /\ rows \in [Ops -> Row]
      /\ \A o \in Ops : rows[o].source \in Ops \cup {None}
      /\ \A o \in Ops : rows[o].stage \in {"failed", "cancelled"} => Terminal(o) /\ Exists(o)
  BY DEF TypeInv, TypeOK, Row, Terminal, TERMINAL_STAGES, Exists
<1>1. CASE \A o \in Ops :
             /\ rows'[o].request = rows[o].request /\ rows'[o].source = rows[o].source
             /\ rows'[o].attempt = rows[o].attempt /\ (Exists(o)' <=> Exists(o))
  <2>1. RequestsOK' /\ OneOperationPerRequest'
    BY <1>1 DEF RequestsOK, OneOperationPerRequest
  <2>2. RetryFollowsSettledSource'
    BY <1>0, <1>1, RowsStep DEF RetryFollowsSettledSource
  <2> QED
    BY <2>1, <2>2
<1>2. ASSUME NEW c \in Clients, NEW n \in Ops, Inserts(c, n)
      PROVE  RequestsOK' /\ OneOperationPerRequest' /\ RetryFollowsSettledSource'
  <2> DEFINE r == client[c].request
             s == client[c].source
             a == client[c].attempt
  <2>1. /\ rows'[n].stage = "queued" /\ rows'[n].request = r
        /\ rows'[n].source = s /\ rows'[n].attempt = a
        /\ \A o \in Ops : o # n => rows'[o] = rows[o]
    BY <1>0, <1>2 DEF Inserts, NewRow, NoRow
  <2>2. r \in Requests /\ s \in Ops \cup {None}
        /\ (s # None => rows[s].stage \in {"failed", "cancelled"} /\ a = rows[s].attempt + 1)
    BY <1>2 DEF Inserts, AdmissionsOK, RETRYABLE_STAGES, TypeInv, TypeOK, Client
  <2>3. /\ \A o \in Ops : Exists(o) => rows[o].request # r
        /\ \A o \in Ops : Exists(o) /\ s # None => rows[o].source # s \/ rows[o].attempt # a
    BY <1>2 DEF Inserts, Known, ByRequest, ByRetry
  <2>4. ~Exists(n) /\ \A o \in Ops : o # n => (Exists(o)' <=> Exists(o))
    BY <1>2, <2>1 DEF Inserts, Exists
  <2> HIDE DEF r, s, a
  <2>5. RequestsOK'
    BY <2>1, <2>2, <2>4 DEF RequestsOK
  <2>6. OneOperationPerRequest'
    BY <2>1, <2>3, <2>4 DEF OneOperationPerRequest
  <2>7. RetryFollowsSettledSource'
    BY <1>0, <2>1, <2>2, <2>4 DEF RetryFollowsSettledSource
  <2> QED
    BY <2>5, <2>6, <2>7
<1> QED
  BY <1>1, <1>2, RowsStep

\* With no rows and no commands the invariant holds.
LEMMA JournalInit == Init => JournalInv
<1> SUFFICES ASSUME Init PROVE JournalInv
  OBVIOUS
<1>1. \A o \in Ops : ~Exists(o)
  BY DEF Init, NoRow, Exists
<1>2. AdmissionsOK
  BY IdleTyped DEF Init, AdmissionsOK
<1> QED
  BY <1>1, <1>2, TypeInit
  DEF JournalInv, RequestsOK, OneOperationPerRequest, RetryFollowsSettledSource

\* The invariant of the journal holds in every behaviour.
LEMMA JournalInvariant == Spec => []JournalInv
<1>1. JournalInv /\ [Next]_vars => JournalInv'
  BY TypeStep, AdmissionsStep, RowsOfOneRequest DEF JournalInv
<1> QED
  BY <1>1, JournalInit, PTL DEF Spec

\* However many command threads look a request up at once, one row holds it,
\* and one row holds each attempt at a retry of one source.
THEOREM Admission == Spec => []OneOperationPerRequest
<1>1. JournalInv => OneOperationPerRequest
  BY DEF JournalInv
<1> QED
  BY <1>1, JournalInvariant, PTL

\* A retry's source is settled and one attempt behind, also when it was
\* checked in an earlier step than the insertion.
THEOREM Retries == Spec => []RetryFollowsSettledSource
<1>1. JournalInv => RetryFollowsSettledSource
  BY DEF JournalInv
<1> QED
  BY <1>1, JournalInvariant, PTL

-----------------------------------------------------------------------------
(* StartOperations implements DurableStarts, for every number of requests,  *)
(* threads, crashes and exceptions.                                         *)

\* What the row of an operation promises.
Entry(o) ==
    [outcome |-> IF Active(o) THEN "pending" ELSE rows[o].stage,
     of |-> IF rows[o].source = None THEN None ELSE rows[rows[o].source].request]

\* The promise of a request is read off its one row.
PromisesRead ==
    \A r \in Requests :
        /\ (\A o \in Ops : Exists(o) => rows[o].request # r)
             => PromiseOf(r) = [outcome |-> "unknown", of |-> None]
        /\ \A o \in Ops : Exists(o) /\ rows[o].request = r => PromiseOf(r) = Entry(o)

\* With one row per request, a promise is read off that row: no choice is left.
LEMMA PromisesAreRead == JournalInv => PromisesRead
<1> SUFFICES ASSUME JournalInv, NEW r \in Requests
             PROVE  /\ (\A o \in Ops : Exists(o) => rows[o].request # r)
                         => PromiseOf(r) = [outcome |-> "unknown", of |-> None]
                    /\ \A o \in Ops : Exists(o) /\ rows[o].request = r
                         => PromiseOf(r) = Entry(o)
  BY DEF PromisesRead
<1>1. ASSUME \A o \in Ops : Exists(o) => rows[o].request # r
      PROVE  PromiseOf(r) = [outcome |-> "unknown", of |-> None]
  BY <1>1 DEF PromiseOf, ByRequest
<1>2. ASSUME NEW o \in Ops, Exists(o), rows[o].request = r
      PROVE  PromiseOf(r) = Entry(o)
  <2>1. ByRequest(r) = {o}
    BY <1>2 DEF ByRequest, JournalInv, OneOperationPerRequest
  <2>2. (CHOOSE p \in ByRequest(r) : TRUE) = o
    BY <2>1
  <2> QED
    BY <2>1, <2>2 DEF PromiseOf, Entry, Active
<1> QED
  BY <1>1, <1>2

-----------------------------------------------------------------------------

promises == [r \in Requests |-> PromiseOf(r)]

\* The update of a row settles the request it holds, or changes no promise.
LEMMA RewriteSettles ==
  ASSUME JournalInv, PromisesRead, PromisesRead', NEW o \in Ops, Rewrites(o)
  PROVE  Promised!Next \/ UNCHANGED promises
<1>0. TypeInv /\ rows \in [Ops -> Row] /\ rows' \in [Ops -> Row]
  <2>1. TypeInv /\ rows \in [Ops -> Row]
    BY DEF JournalInv, TypeInv, TypeOK
  <2>2. rows[o] \in Row
    BY <2>1
  <2> QED
    BY <2>1, <2>2, UpdatedType, WithdrawnTyped DEF Rewrites
<1>1. CASE rows'[o] = rows[o]
  <2>1. rows' = rows
    BY <1>0, <1>1, RewriteKeeps
  <2> QED
    BY <2>1 DEF promises, PromiseOf, ByRequest, Exists
<1>2. CASE rows'[o] # rows[o]
  <2>1. PICK r \in Requests :
          /\ Active(o) /\ Exists(o) /\ Exists(o)'
          /\ rows[o].request = r /\ rows'[o].request = r
    BY <1>0, <1>2, RewriteKeeps
    DEF Active, ACTIVE_STAGES, Exists, JournalInv, RequestsOK
  <2>2. \A p \in Ops : /\ rows'[p].request = rows[p].request
                       /\ rows'[p].source = rows[p].source
                       /\ (Exists(p)' <=> Exists(p))
                       /\ (p # o => rows'[p] = rows[p])
    BY <1>0, RewriteKeeps DEF Exists
  <2>3. \A p \in Ops : rows[p].source \in Ops \cup {None}
    BY <1>0 DEF Row
  <2>4. \A p \in Ops : Entry(p)'.of = Entry(p).of /\ (p # o => Entry(p)' = Entry(p))
    BY <2>2, <2>3 DEF Entry, Active
  <2>5. PromiseOf(r) = Entry(o) /\ PromiseOf(r)' = Entry(o)'
    BY <2>1 DEF PromisesRead
  <2>6. ASSUME NEW x \in Requests, x # r
        PROVE  PromiseOf(x)' = PromiseOf(x)
    <3>1. CASE \A p \in Ops : Exists(p) => rows[p].request # x
      BY <2>2, <3>1 DEF PromisesRead
    <3>2. CASE \E p \in Ops : Exists(p) /\ rows[p].request = x
      <4>1. PICK p \in Ops : Exists(p) /\ rows[p].request = x
        BY <3>2
      <4>2. p # o
        BY <2>1, <2>6, <4>1
      <4> QED
        BY <2>2, <2>4, <4>1, <4>2 DEF PromisesRead
    <3> QED
      BY <3>1, <3>2
  <2>7. rows'[o].stage \in ACTIVE_STAGES \cup TERMINAL_STAGES
    BY <1>0, <2>1 DEF Exists, Row
  <2>8. Entry(o).outcome = "pending"
    BY <2>1 DEF Entry
  <2>9. CASE rows'[o].stage \in ACTIVE_STAGES
    <3>1. Entry(o)' = Entry(o)
      BY <2>1, <2>2, <2>3, <2>9 DEF Entry, Active
    <3>2. \A x \in Requests : PromiseOf(x)' = PromiseOf(x)
      BY <2>5, <2>6, <3>1
    <3> QED
      BY <3>2 DEF promises
  <2>10. CASE rows'[o].stage \notin ACTIVE_STAGES
    <3>1. rows'[o].stage \in {"started", "failed", "cancelled"}
      BY <2>7, <2>10 DEF TERMINAL_STAGES
    <3>2. Entry(o)' = [Entry(o) EXCEPT !.outcome = rows'[o].stage]
      BY <2>2, <2>3, <2>10 DEF Entry, Active
    <3>3. promises' = [promises EXCEPT ![r].outcome = rows'[o].stage]
      <4>1. promises[r] = Entry(o) /\ promises'[r] = [promises[r] EXCEPT !.outcome = rows'[o].stage]
        BY <2>1, <2>5, <3>2 DEF promises
      <4>2. \A x \in Requests : x # r => promises'[x] = promises[x]
        BY <2>6 DEF promises
      <4> QED
        BY <4>1, <4>2 DEF promises
    <3>4. Promised!Settle(r, rows'[o].stage)
      BY <2>1, <2>5, <2>8, <3>3 DEF Promised!Settle, promises
    <3> QED
      BY <2>1, <3>1, <3>4 DEF Promised!Next, Promised!Outcomes
  <2> QED
    BY <2>9, <2>10
<1> QED
  BY <1>1, <1>2

\* The insertion of a row submits its request, or resubmits its source.
LEMMA InsertSubmits ==
  ASSUME JournalInv, PromisesRead, PromisesRead',
         NEW c \in Clients, NEW n \in Ops, Inserts(c, n)
  PROVE  Promised!Next
<1>row. PICK r \in Requests, s \in Ops \cup {None} :
          r = client[c].request /\ s = client[c].source
  BY DEF Inserts, JournalInv, AdmissionsOK, TypeInv, TypeOK, Client
<1> DEFINE new == [outcome |-> "pending",
                   of |-> IF s = None THEN None ELSE rows[s].request]
<1>0. rows \in [Ops -> Row] /\ \A o \in Ops : rows[o].source \in Ops \cup {None}
  BY DEF JournalInv, TypeInv, TypeOK, Row
<1>1. /\ rows'[n].stage = "queued" /\ rows'[n].request = r /\ rows'[n].source = s
      /\ \A o \in Ops : o # n => rows'[o] = rows[o]
  BY <1>row, <1>0 DEF Inserts, NewRow, NoRow
<1>2. /\ r \in Requests /\ s \in Ops \cup {None}
      /\ s # None => /\ rows[s].stage \in RETRYABLE_STAGES
                     /\ client[c].attempt = rows[s].attempt + 1
  BY <1>row DEF Inserts, JournalInv, AdmissionsOK
<1>3. /\ \A o \in Ops : Exists(o) => rows[o].request # r
      /\ \A o \in Ops : Exists(o) /\ s # None
           => rows[o].source # s \/ rows[o].attempt # client[c].attempt
  BY <1>row DEF Inserts, Known, ByRequest, ByRetry
<1>4. /\ ~Exists(n) /\ Exists(n)'
      /\ \A o \in Ops : o # n => (Exists(o)' <=> Exists(o))
  BY <1>1 DEF Inserts, Exists
<1>5. /\ s # None => s # n /\ Exists(s)
      /\ \A o \in Ops : Exists(o) /\ rows[o].source # None
           => Exists(rows[o].source) /\ rows[o].source # n
  BY <1>0, <1>2, <1>4
  DEF Exists, RETRYABLE_STAGES, JournalInv, RetryFollowsSettledSource
<1>6. Entry(n)' = new
  BY <1>1, <1>2, <1>5 DEF Entry, Active, ACTIVE_STAGES
<1>7. PromiseOf(r) = [outcome |-> "unknown", of |-> None] /\ PromiseOf(r)' = new
  BY <1>1, <1>2, <1>3, <1>4, <1>6 DEF PromisesRead
<1>8. ASSUME NEW x \in Requests, x # r
      PROVE  PromiseOf(x)' = PromiseOf(x)
  <2>1. CASE \A o \in Ops : Exists(o) => rows[o].request # x
    <3>1. \A o \in Ops : Exists(o)' => rows'[o].request # x
      BY <1>1, <1>4, <1>8, <2>1
    <3> QED
      BY <2>1, <3>1 DEF PromisesRead
  <2>2. CASE \E o \in Ops : Exists(o) /\ rows[o].request = x
    <3>1. PICK o \in Ops : Exists(o) /\ rows[o].request = x
      BY <2>2
    <3>2. o # n /\ rows'[o] = rows[o]
      BY <1>1, <1>4, <3>1
    <3>3. Entry(o)' = Entry(o)
      BY <1>0, <1>1, <1>5, <3>1, <3>2 DEF Entry, Active
    <3> QED
      BY <1>4, <3>1, <3>2, <3>3 DEF PromisesRead
  <2> QED
    BY <2>1, <2>2
<1> HIDE DEF new
<1>9. promises' = [promises EXCEPT ![r] = new]
  BY <1>2, <1>7, <1>8 DEF promises
<1>10. CASE s = None
  <2>1. new = [outcome |-> "pending", of |-> None]
    BY <1>10 DEF new
  <2>2. Promised!Submit(r)
    BY <1>2, <1>7, <1>9, <2>1 DEF Promised!Submit, promises
  <2> QED
    BY <1>2, <2>2 DEF Promised!Next
<1>11. CASE s # None
  <2> DEFINE source == rows[s].request
  <2>1. source \in Requests /\ new = [outcome |-> "pending", of |-> source]
    BY <1>2, <1>5, <1>11 DEF new, JournalInv, RequestsOK
  <2>2. PromiseOf(source).outcome \in {"failed", "cancelled"}
    <3>1. PromiseOf(source) = Entry(s)
      BY <1>2, <1>5, <1>11, <2>1 DEF PromisesRead
    <3>2. Entry(s).outcome = rows[s].stage
      BY <1>2, <1>11 DEF Entry, Active, ACTIVE_STAGES, RETRYABLE_STAGES
    <3> QED
      BY <1>2, <1>11, <3>1, <3>2 DEF RETRYABLE_STAGES
  <2>3. ASSUME NEW other \in Requests
        PROVE  PromiseOf(other).of # source
    <3>1. CASE \A o \in Ops : Exists(o) => rows[o].request # other
      BY <2>1, <3>1, ConstantsOK DEF PromisesRead
    <3>2. CASE \E o \in Ops : Exists(o) /\ rows[o].request = other
      <4>1. PICK o \in Ops : Exists(o) /\ rows[o].request = other
        BY <3>2
      <4>2. PromiseOf(other) = Entry(o)
        BY <4>1 DEF PromisesRead
      <4>3. CASE rows[o].source = None
        BY <2>1, <4>2, <4>3, ConstantsOK DEF Entry
      <4>4. CASE rows[o].source # None
        <5>1. rows[o].source \in Ops /\ Exists(rows[o].source)
          BY <1>0, <1>5, <4>1, <4>4
        <5>2. rows[o].source # s
          BY <1>2, <1>3, <1>11, <4>1, <4>4
          DEF JournalInv, RetryFollowsSettledSource
        <5>3. rows[rows[o].source].request # source
          BY <1>2, <1>5, <1>11, <5>1, <5>2 DEF JournalInv, OneOperationPerRequest
        <5> QED
          BY <4>2, <4>4, <5>3 DEF Entry
      <4> QED
        BY <4>3, <4>4
    <3> QED
      BY <3>1, <3>2
  <2> HIDE DEF source
  <2>4. Promised!Resubmit(r, source)
    BY <1>2, <1>7, <1>9, <2>1, <2>2, <2>3 DEF Promised!Resubmit, promises
  <2> QED
    BY <1>2, <2>1, <2>4 DEF Promised!Next
<1> QED
  BY <1>10, <1>11

\* "A repeated `request_id` returns the same operation": whatever threads, crashes and
\* exceptions do, a client sees one outcome per request, final once reached,
\* and one retry of each start that failed or was cancelled.
THEOREM Refinement == Spec => KeepsThePromise
<1>1. Init => Promised!Init
  <2>1. Init => \A r \in Requests : PromiseOf(r) = [outcome |-> "unknown", of |-> None]
    BY DEF Init, NoRow, PromiseOf, ByRequest, Exists
  <2> QED
    BY <2>1 DEF Promised!Init
<1>2. ASSUME JournalInv, JournalInv', PromisesRead, PromisesRead', [Next]_vars
      PROVE  [Promised!Next]_promises
  <2>1. CASE UNCHANGED rows
    BY <2>1 DEF promises, PromiseOf, ByRequest, Exists
  <2> QED
    BY <1>2, <2>1, JournalStep, RewriteSettles, InsertSubmits DEF JournalInv
<1>3. JournalInv => PromisesRead
  BY PromisesAreRead
<1>4. Promised!Spec <=> Promised!Init /\ [][Promised!Next]_promises
  BY DEF Promised!Spec, promises
<1> QED
  BY <1>1, <1>2, <1>3, <1>4, JournalInvariant, PTL DEF Spec, KeepsThePromise

-----------------------------------------------------------------------------
(* What a worker's frame says of its operation.                             *)

\* Frames in which the worker believes that no agent runs under the name.
Cleared(f) ==
    \/ f.pc \in {"create", "creating", "created", "start", "starting"}
    \/ f.pc \in {"probed", "gate"} /\ f.seen = "absent"

\* Frames in which the worker holds the pane it will record.
Resolved(f) ==
    \/ f.pc \in {"observed", "record", "finish"}
    \/ f.pc = "probed" /\ f.seen = "found"
    \/ f.pc = "replied" /\ f.reply = "started"

\* Frames that have yet to open a tab.
Before(f) ==
    \/ f.pc \in {"load", "context", "wake", "woken", "gate", "create"}
    \/ f.pc \in {"probe", "probed", "pause"} /\ f.phase # "recover"
    \/ f.pc = "close" /\ f.then = "pause" /\ f.phase # "recover"

\* Frames that hold a cancel event.
Signalable(f) == f.pc \notin {"idle", "load", "exit", "failing"}

\* Frames that end without another write of the row.
Leaving(f) ==
    \/ f.pc = "exit"
    \/ f.pc = "close" /\ f.then = "exit"

-----------------------------------------------------------------------------
\* A worker is listed in _running, alone on its operation; while nothing has
\* raised, whatever is listed has a worker.
SoleInv ==
    /\ \A v, w \in Threads : Op(v) = Op(w) /\ Op(w) # None => v = w
    /\ \A w \in Threads : Op(w) # None => Op(w) \in running
    /\ faults = 0 => \A o \in running : \E w \in Threads : Op(w) = o

\* Panes: those a worker holds or a row names are tabs its agent ran in.
RealInv ==
    /\ \A o \in Ops : \A t \in ran[o] : owner[t] = o
    /\ \A o \in Ops : agent[o] # None => agent[o] \in ran[o]
    /\ \A w \in Threads :
         /\ Resolved(worker[w]) => worker[w].pane \in ran[Op(w)]
         /\ worker[w].pc = "finish" => Op(w) \in marked
    /\ StartedSessionIsReal

\* A worker that believes no agent runs is wrong only about an orphan's.
GateInv == \A w \in Threads :
    Cleared(worker[w]) /\ agent[Op(w)] # None => Op(w) \in unseen

\* Only operations of the journal are worked on, asked for, or own a tab.
RootedInv ==
    /\ \A w \in Threads : Op(w) # None => Exists(Op(w))
    /\ \A c \in Clients : client[c].pc \in {"ensure", "signal", "withdraw"} => Exists(client[c].op)
    /\ \A o \in Ops : event[o] # "absent" => Exists(o)
    /\ \A t \in Tabs : owner[t] # None => Exists(owner[t])

\* A cancel has signalled the worker and has yet to write the row.
Withdrawing(o) == \E c \in Clients : client[c].op = o /\ client[c].pc = "withdraw"

\* A cancel reaches the worker of its operation, is noted as missed, or came too late.
CancelInv ==
    /\ ~up => \A o \in Ops : event[o] = "absent"
    /\ \A w \in Threads : Signalable(worker[w]) => event[Op(w)] # "absent"
    /\ \A o \in Ops : Withdrawing(o) => event[o] = "set" \/ o \in missed \/ ~Active(o)
    /\ \A o \in Ops : rows[o].stage = "cancelled" /\ event[o] = "clear" => o \in missed

\* An active row is looked after.
CareInv ==
    /\ \A o \in Ops : faults = 0 /\ Active(o) /\ event[o] = "set" => Withdrawing(o)
    /\ \A w \in Threads :
         Leaving(worker[w]) /\ Active(Op(w)) /\ faults = 0 => event[Op(w)] = "set"
    /\ \A o \in Ops : up /\ faults = 0 /\ Active(o) =>
         \/ \E w \in Threads : Op(w) = o
         \/ \E c \in Clients : client[c].op = o /\ client[c].pc \in {"ensure", "withdraw"}

\* Nothing interrupted the operation's worker.
Clean(o) == crashes = 0 /\ faults = 0 /\ o \notin missed

\* No tab was ever opened for the operation.
Untouched(o) == \A t \in Tabs : owner[t] # o

\* One tab for each operation that nothing interrupted, and none before create.
TabsInv ==
    /\ ~up => crashes # 0
    /\ \A t, u \in Tabs : owner[t] = owner[u] /\ owner[t] # None /\ Clean(owner[t]) => t = u
    /\ \A w \in Threads :
         /\ Before(worker[w]) /\ Clean(Op(w)) /\ (At(w, "load") => Active(Op(w)))
         => Untouched(Op(w))
    /\ \A o \in Ops : Clean(o) /\ Active(o) /\ (\A w \in Threads : Op(w) # o) => Untouched(o)

-----------------------------------------------------------------------------
(* The journal, as the launch reads it.                                     *)

\* An update of an active row gives it the stage; the session only when there is one.
LEMMA UpdatedFields ==
  ASSUME NEW row \in Row, NEW stage, NEW session, NEW error
  PROVE  /\ row.stage \notin ACTIVE_STAGES => Updated(row, stage, session, error) = row
         /\ row.stage \in ACTIVE_STAGES =>
              /\ Updated(row, stage, session, error).stage = stage
              /\ session # None => Updated(row, stage, session, error).session = session
  BY DEF Updated, Row

\* A write of an active row takes effect; of another it does not; no other row changes.
LEMMA RowWritten ==
  ASSUME rows \in [Ops -> Row], NEW o \in Ops, NEW stage, NEW session, NEW error,
         rows' = [rows EXCEPT ![o] = Updated(@, stage, session, error)]
  PROVE  /\ \A p \in Ops : p # o => rows'[p] = rows[p]
         /\ ~Active(o) => rows'[o] = rows[o]
         /\ Active(o) => rows'[o].stage = stage
<1>1. rows[o] \in Row
  OBVIOUS
<1> QED
  BY <1>1, UpdatedFields DEF Active

-----------------------------------------------------------------------------
(* The program of a worker, as far as its frames tell it.                   *)

\* A frame that moves on knows no more of Herdr than it did before.
Moves(f, g) ==
    /\ f.op # None /\ g.op = f.op
    /\ f.pc # "idle" /\ g.pc \notin {"idle", "load"}
    /\ Resolved(g) => Resolved(f) /\ g.pane = f.pane
    /\ Cleared(g) => Cleared(f)
    /\ Before(g) => Before(f)
    /\ Signalable(g) => Signalable(f) \/ f.pc = "load"

\* A worker that moves on finishes what it has marked, has a row to work on
\* and an event to listen to, and leaves for a reason.
MoveStep(w) ==
    /\ Moves(worker[w], worker'[w])
    /\ \A v \in Threads : v # w => worker'[v] = worker[v]
    /\ worker'[w].pc = "finish" => Op(w) \in marked'
    /\ At(w, "load") /\ Before(worker'[w]) => Active(Op(w))
    /\ At(w, "load") /\ Signalable(worker'[w]) => event'[Op(w)] # "absent"
    /\ Leaving(worker'[w]) /\ ~Leaving(worker[w])
         /\ rows'[Op(w)].stage \in ACTIVE_STAGES /\ faults' = 0 =>
         event[Op(w)] = "set"

\* The fields of a frame the definitions above read, the pc aside.
Carries(f, g) ==
    /\ g.op = f.op /\ g.phase = f.phase /\ g.seen = f.seen /\ g.pane = f.pane
    /\ g.reply = f.reply /\ g.then = f.then

\* A step that sets the pc, and the error code or the deadline, sets nothing else.
LEMMA CarriesAtPC ==
  ASSUME NEW f \in Worker, NEW pc
  PROVE  LET g == [f EXCEPT !.pc = pc] IN Carries(f, g) /\ g.pc = pc
  BY DEF Worker, Carries

\* A failed check or call sets the error code and nothing else a proof reads.
LEMMA CarriesFailing ==
  ASSUME NEW f \in Worker, NEW code
  PROVE  LET g == [f EXCEPT !.pc = "failing", !.code = code] IN
         Carries(f, g) /\ g.pc = "failing"
  BY DEF Worker, Carries

\* A deadline that passes leaves the worker where it is.
LEMMA CarriesOnTime ==
  ASSUME NEW f \in Worker, NEW late
  PROVE  LET g == [f EXCEPT !.late = late] IN Carries(f, g) /\ g.pc = f.pc
  BY DEF Worker, Carries

\* The fields that the other steps set, and those they carry on.
LEMMA FieldsSet ==
  ASSUME NEW f \in Worker, NEW pc, NEW phase, NEW late, NEW reply, NEW then, NEW code
  PROVE  /\ LET g == [f EXCEPT !.pc = pc, !.phase = phase, !.late = late] IN
              /\ g.pc = pc /\ g.phase = phase /\ g.op = f.op /\ g.pane = f.pane
              /\ g.seen = f.seen /\ g.reply = f.reply /\ g.then = f.then
         /\ LET g == [f EXCEPT !.phase = phase, !.pc = pc] IN
              /\ g.pc = pc /\ g.phase = phase /\ g.op = f.op /\ g.pane = f.pane
              /\ g.seen = f.seen /\ g.reply = f.reply /\ g.then = f.then
         /\ LET g == [f EXCEPT !.pc = pc, !.reply = reply] IN
              /\ g.pc = pc /\ g.reply = reply /\ g.op = f.op /\ g.pane = f.pane
              /\ g.seen = f.seen /\ g.phase = f.phase /\ g.then = f.then
         /\ LET g == [f EXCEPT !.pc = pc, !.then = then] IN
              /\ g.pc = pc /\ g.then = then /\ g.op = f.op /\ g.pane = f.pane
              /\ g.seen = f.seen /\ g.phase = f.phase /\ g.reply = f.reply
         /\ LET g == [f EXCEPT !.pc = pc, !.then = then, !.code = code] IN
              /\ g.pc = pc /\ g.then = then /\ g.op = f.op /\ g.pane = f.pane
              /\ g.seen = f.seen /\ g.phase = f.phase /\ g.reply = f.reply
         /\ LET g == [f EXCEPT !.pc = pc, !.then = then, !.phase = phase, !.late = late] IN
              /\ g.pc = pc /\ g.then = then /\ g.phase = phase /\ g.op = f.op
              /\ g.pane = f.pane /\ g.seen = f.seen /\ g.reply = f.reply
  BY DEF Worker

\* A worker that goes to another pc moves on, when what it knows there is no more
\* than what it knew.
LEMMA GotoMoves ==
  ASSUME TypeInv, NEW w \in Threads, NEW pc \in WorkerPC \ {"idle", "load"},
         Goto(w, pc), ~At(w, "idle")
  PROVE  /\ Op(w) \in Ops /\ Op(w) # None /\ worker[w] \in Worker
         /\ Carries(worker[w], worker'[w]) /\ worker'[w].pc = pc
         /\ \A v \in Threads : v # w => worker'[v] = worker[v]
<1>1. worker[w] \in Worker /\ Op(w) \in Ops /\ Op(w) # None
  BY OpTyped
<1> DEFINE g == [worker[w] EXCEPT !.pc = pc]
<1>2. Carries(worker[w], g) /\ g.pc = pc
  BY <1>1, CarriesAtPC
<1>3. worker' = [worker EXCEPT ![w] = g]
  BY DEF Goto
<1> HIDE DEF g
<1> QED
  BY <1>1, <1>2, <1>3 DEF TypeInv, TypeOK

\* A worker that fails moves on: it knows nothing there.
LEMMA FailMoves ==
  ASSUME TypeInv, NEW w \in Threads, NEW code, Fail(w, code), ~At(w, "idle")
  PROVE  MoveStep(w)
<1>1. worker[w] \in Worker /\ Op(w) \in Ops /\ Op(w) # None
  BY OpTyped
<1> DEFINE g == [worker[w] EXCEPT !.pc = "failing", !.code = code]
<1>2. Carries(worker[w], g) /\ g.pc = "failing"
  BY <1>1, CarriesFailing
<1>3. worker' = [worker EXCEPT ![w] = g]
  BY DEF Fail
<1> HIDE DEF g
<1>4. worker'[w] = g /\ \A v \in Threads : v # w => worker'[v] = worker[v]
  BY <1>3 DEF TypeInv, TypeOK
<1> QED
  BY <1>1, <1>2, <1>4
  DEF MoveStep, Moves, Carries, At, Op, Resolved, Cleared, Before, Signalable, Leaving

\* Every step of a worker but a probe and its exit moves it on.
LEMMA WorkerMoves ==
  ASSUME TypeInv, NEW w \in Threads,
         \/ WorkerStep(w) \/ DeadlinePasses(w) \/ GiveUp(w)
         \/ WorkerRaises(w) \/ WriteFailureRaises(w)
  PROVE  MoveStep(w) \/ Probe(w) \/ Exit(w)
<1> USE DEF At
<1>frame. /\ worker[w].pc # "idle" => worker[w] \in Worker /\ Op(w) \in Ops /\ Op(w) # None
          /\ worker \in [Threads -> Worker]
          /\ rows \in [Ops -> Row] /\ event \in [Ops -> {"absent", "clear", "set"}]
  BY OpTyped DEF TypeInv, TypeOK
<1>fail. ASSUME NEW code, Fail(w, code), worker[w].pc # "idle"
         PROVE  MoveStep(w)
  BY <1>fail, FailMoves
<1> DEFINE Gone(pc) ==
      /\ Op(w) \in Ops /\ Op(w) # None /\ worker[w] \in Worker
      /\ Carries(worker[w], worker'[w]) /\ worker'[w].pc = pc
      /\ \A v \in Threads : v # w => worker'[v] = worker[v]
<1>goto. ASSUME NEW pc \in WorkerPC \ {"idle", "load"}, Goto(w, pc), worker[w].pc # "idle"
         PROVE  Gone(pc)
  BY <1>goto, GotoMoves
<1> HIDE DEF Gone
<1>exit. ASSUME Gone("exit"), worker[w].pc \notin {"idle", "creating", "starting"},
                \/ event[Op(w)] = "set" \/ rows'[Op(w)].stage \notin ACTIVE_STAGES \/ faults' # 0
                \/ Leaving(worker[w])
         PROVE  MoveStep(w)
  BY <1>exit DEF Gone, MoveStep, Moves, Carries, Op, Resolved, Cleared, Before, Signalable,
                 Leaving
<1>on. ASSUME NEW pc \in WorkerPC \ {"idle", "load", "exit", "close", "finish"}, Gone(pc),
              worker[w].pc \notin {"idle", "load"},
              \A g : Carries(worker[w], g) /\ g.pc = pc =>
                /\ Resolved(g) => Resolved(worker[w])
                /\ Cleared(g) => Cleared(worker[w])
                /\ Before(g) => Before(worker[w])
                /\ Signalable(g) => Signalable(worker[w])
       PROVE  MoveStep(w)
  BY <1>on DEF Gone, MoveStep, Moves, Carries, Op, Leaving
<1>canc. Cancelled(Op(w)) /\ worker[w].pc # "idle" /\ UNCHANGED rows =>
           event[Op(w)] = "set" \/ rows'[Op(w)].stage \notin ACTIVE_STAGES
  BY DEF Cancelled, Active, ACTIVE_STAGES, Op
<1>set. ASSUME NEW g, worker' = [worker EXCEPT ![w] = g], worker[w].pc \notin {"idle", "load"},
               g.op = Op(w), g.pane = worker[w].pane, g.pc \notin {"idle", "load", "finish"},
               Resolved(g) => Resolved(worker[w]), Cleared(g) => Cleared(worker[w]),
               Before(g) => Before(worker[w]), Signalable(g) => Signalable(worker[w]),
               Leaving(g) =>
                 \/ event[Op(w)] = "set" \/ rows'[Op(w)].stage \notin ACTIVE_STAGES
                 \/ Leaving(worker[w])
        PROVE  MoveStep(w)
  <2>1. worker'[w] = g /\ \A v \in Threads : v # w => worker'[v] = worker[v]
    BY <1>frame, <1>set
  <2> QED
    BY <1>frame, <1>set, <2>1 DEF MoveStep, Moves, Op
<1>1. CASE Load(w)
  <2>1. CASE Terminal(Op(w)) /\ Goto(w, "exit")
    <3>1. Gone("exit")
      BY <1>1, <1>goto, <2>1 DEF Load, WorkerPC
    <3>2. rows'[Op(w)].stage \notin ACTIVE_STAGES
      BY <1>1, <2>1, <3>1 DEF Load, Terminal, Active, ACTIVE_STAGES, TERMINAL_STAGES, journal,
         Gone, Carries, Op
    <3> QED
      BY <1>1, <1>exit, <3>1, <3>2 DEF Load
  <2>2. CASE Active(Op(w)) /\ Goto(w, "context")
             /\ event' = [event EXCEPT ![Op(w)] = IF @ = "absent" THEN "clear" ELSE @]
    <3>1. Gone("context")
      BY <1>1, <1>goto, <2>2 DEF Load, WorkerPC
    <3>2. event'[Op(w)] # "absent"
      BY <1>1, <1>frame, <2>2 DEF Load
    <3>3. MoveStep(w)
      BY <1>1, <2>2, <3>1, <3>2 DEF Load, Gone, MoveStep, Moves, Carries, Op, Resolved, Cleared,
                        Before, Signalable, Leaving
    <3> QED
      BY <3>3
  <2> QED
    BY <1>1, <2>1, <2>2 DEF Load
<1>2. CASE CheckContext(w)
  <2>1. CASE Fail(w, "CONFIGURATION_CHANGED")
    BY <1>2, <1>fail, <2>1 DEF CheckContext
  <2>2. CASE Cancelled(Op(w)) /\ Goto(w, "exit") /\ UNCHANGED rows
    <3>1. Gone("exit")
      BY <1>2, <1>goto, <2>2 DEF CheckContext, WorkerPC
    <3> QED
      BY <1>2, <1>exit, <1>canc, <2>2, <3>1 DEF CheckContext
  <2>3. CASE Goto(w, "probe")
    <3>1. Gone("probe")
      BY <1>2, <1>goto, <2>3 DEF CheckContext, WorkerPC
    <3>2. MoveStep(w)
      BY <1>2, <1>on, <3>1
      DEF CheckContext, Carries, Resolved, Cleared, Before, Signalable, WorkerPC
    <3> QED
      BY <3>2
  <2> QED
    BY <1>2, <2>1, <2>2, <2>3 DEF CheckContext
<1>3. CASE ProbeCancelled(w)
  <2>1. CASE Cancelled(Op(w)) /\ Goto(w, "exit") /\ UNCHANGED rows
    <3>1. Gone("exit")
      BY <1>3, <1>goto, <2>1 DEF ProbeCancelled, WorkerPC
    <3> QED
      BY <1>3, <1>exit, <1>canc, <2>1, <3>1 DEF ProbeCancelled
  <2> QED
    BY <1>3, <2>1 DEF ProbeCancelled, journal
<1>4. CASE ProbeFound(w)
  <2>1. CASE Goto(w, "record")
    <3>1. Gone("record")
      BY <1>4, <1>goto, <2>1 DEF ProbeFound, WorkerPC
    <3>2. MoveStep(w)
      BY <1>4, <1>on, <2>1, <3>1
      DEF ProbeFound, Carries, Resolved, Cleared, Before, Signalable, WorkerPC
    <3> QED
      BY <3>2
  <2>2. CASE Goto(w, "observed")
    <3>1. Gone("observed")
      BY <1>4, <1>goto, <2>2 DEF ProbeFound, WorkerPC
    <3>2. MoveStep(w)
      BY <1>4, <1>on, <2>2, <3>1
      DEF ProbeFound, Carries, Resolved, Cleared, Before, Signalable, WorkerPC
    <3> QED
      BY <3>2
  <2> QED
    BY <1>4, <2>1, <2>2 DEF ProbeFound
<1>5. CASE ProbeOffline(w)
  <2>1. CASE Fail(w, "HOST_OFFLINE")
    BY <1>5, <1>fail, <2>1 DEF ProbeOffline
  <2>2. CASE Goto(w, "wake")
    <3>1. Gone("wake")
      BY <1>5, <1>goto, <2>2 DEF ProbeOffline, WorkerPC
    <3>2. MoveStep(w)
      BY <1>5, <1>on, <2>2, <3>1
      DEF ProbeOffline, Carries, Resolved, Cleared, Before, Signalable, WorkerPC
    <3> QED
      BY <3>2
  <2> QED
    BY <1>5, <2>1, <2>2 DEF ProbeOffline
<1>7. CASE ProbeElsewise(w)
  <2>1. CASE (worker[w].phase = "first" \/ worker[w].phase = "settle") /\ worker[w].seen # "offline"
                 /\ (worker[w].phase = "settle" => worker[w].seen = "absent") /\ Goto(w, "gate")
    <3>1. Gone("gate")
      BY <1>7, <1>goto, <2>1 DEF ProbeElsewise, WorkerPC
    <3>2. MoveStep(w)
      BY <1>7, <1>on, <2>1, <3>1
      DEF ProbeElsewise, Carries, Resolved, Cleared, Before, Signalable, WorkerPC
    <3> QED
      BY <3>2
  <2>2. CASE Goto(w, "pause")
    <3>1. Gone("pause")
      BY <1>7, <1>goto, <2>2 DEF ProbeElsewise, WorkerPC
    <3>2. MoveStep(w)
      BY <1>7, <1>on, <2>2, <3>1
      DEF ProbeElsewise, Carries, Resolved, Cleared, Before, Signalable, WorkerPC
    <3> QED
      BY <3>2
  <2> QED
    BY <1>7, <2>1, <2>2 DEF ProbeElsewise
<1>8. CASE Pause(w)
  <2>1. CASE Cancelled(Op(w)) /\ Goto(w, "exit") /\ UNCHANGED rows
    <3>1. Gone("exit")
      BY <1>8, <1>goto, <2>1 DEF Pause, WorkerPC
    <3> QED
      BY <1>8, <1>exit, <1>canc, <2>1, <3>1 DEF Pause
  <2>2. CASE \E code : Fail(w, code)
    BY <1>8, <1>fail, <2>2 DEF Pause
  <2>3. CASE Goto(w, "probe")
    <3>1. Gone("probe")
      BY <1>8, <1>goto, <2>3 DEF Pause, WorkerPC
    <3>2. MoveStep(w)
      BY <1>8, <1>on, <2>3, <3>1
      DEF Pause, Carries, Resolved, Cleared, Before, Signalable, WorkerPC
    <3> QED
      BY <3>2
  <2> QED
    BY <1>8, <2>1, <2>2, <2>3 DEF Pause, journal
<1>12. CASE Gate(w)
  <2>1. CASE \E code : Fail(w, code)
    BY <1>12, <1>fail, <2>1 DEF Gate
  <2>2. CASE worker[w].seen = "absent" /\ Goto(w, "create")
    <3>1. Gone("create")
      BY <1>12, <1>goto, <2>2 DEF Gate, WorkerPC
    <3>2. MoveStep(w)
      BY <1>12, <1>on, <2>2, <3>1
      DEF Gate, Carries, Resolved, Cleared, Before, Signalable, WorkerPC
    <3> QED
      BY <3>2
  <2> QED
    BY <1>12, <2>1, <2>2 DEF Gate
<1>13. CASE CreateTab(w)
  <2>1. CASE Goto(w, "created")
    <3>1. Gone("created")
      BY <1>13, <1>goto, <2>1 DEF CreateTab, WorkerPC
    <3>2. MoveStep(w)
      BY <1>13, <1>on, <2>1, <3>1
      DEF CreateTab, Carries, Resolved, Cleared, Before, Signalable, WorkerPC
    <3> QED
      BY <3>2
  <2>2. CASE Goto(w, "creating")
    <3>1. Gone("creating")
      BY <1>13, <1>goto, <2>2 DEF CreateTab, WorkerPC
    <3>2. MoveStep(w)
      BY <1>13, <1>on, <2>2, <3>1
      DEF CreateTab, Carries, Resolved, Cleared, Before, Signalable, WorkerPC
    <3> QED
      BY <3>2
  <2> QED
    BY <1>13, <2>1, <2>2 DEF CreateTab
<1>14. CASE Created(w)
  <2>1. CASE Cancelled(Op(w)) /\ Goto(w, "exit") /\ UNCHANGED rows
    <3>1. Gone("exit")
      BY <1>14, <1>goto, <2>1 DEF Created, WorkerPC
    <3> QED
      BY <1>14, <1>exit, <1>canc, <2>1, <3>1 DEF Created
  <2>2. CASE \E code : Fail(w, code)
    BY <1>14, <1>fail, <2>2 DEF Created
  <2>3. CASE Goto(w, "start")
    <3>1. Gone("start")
      BY <1>14, <1>goto, <2>3 DEF Created, WorkerPC
    <3>2. MoveStep(w)
      BY <1>14, <1>on, <2>3, <3>1
      DEF Created, Carries, Resolved, Cleared, Before, Signalable, WorkerPC
    <3> QED
      BY <3>2
  <2> QED
    BY <1>14, <2>1, <2>2, <2>3 DEF Created, journal
<1>18. CASE Observed(w)
  <2>1. CASE \E code : Fail(w, code)
    BY <1>18, <1>fail, <2>1 DEF Observed
  <2>2. CASE Goto(w, "record")
    <3>1. Gone("record")
      BY <1>18, <1>goto, <2>2 DEF Observed, WorkerPC
    <3>2. MoveStep(w)
      BY <1>18, <1>on, <2>2, <3>1
      DEF Observed, Carries, Resolved, Cleared, Before, Signalable, WorkerPC
    <3> QED
      BY <3>2
  <2> QED
    BY <1>18, <2>1, <2>2 DEF Observed
<1>24. CASE WorkerRaises(w)
  BY <1>24, <1>fail DEF WorkerRaises
<1>6. CASE ProbeReached(w)
  <2> DEFINE pc == IF worker[w].seen = "absent" THEN "gate" ELSE "pause"
  <2> DEFINE g == [worker[w] EXCEPT !.phase = "settle", !.pc = pc]
  <2>1. worker' = [worker EXCEPT ![w] = g]
    BY <1>6 DEF ProbeReached
  <2>2. g.pc = pc /\ g.op = worker[w].op /\ g.pane = worker[w].pane
          /\ g.phase = "settle"
          /\ g.seen = worker[w].seen /\ g.reply = worker[w].reply /\ g.then = worker[w].then
    BY <1>frame, <1>6, FieldsSet DEF ProbeReached, Carries
  <2> HIDE DEF g
  <2>3. worker[w].pc = "probed" /\ worker[w].phase = "wait"
           /\ pc = IF worker[w].seen = "absent" THEN "gate" ELSE "pause"
    BY <1>6 DEF ProbeReached
  <2> HIDE DEF pc
  <2> QED
    BY <1>set, <2>1, <2>2, <2>3
    DEF Op, Carries, Resolved, Cleared, Before, Signalable, Leaving
<1>9. CASE DeadlinePasses(w)
  <2> DEFINE g == [worker[w] EXCEPT !.late = TRUE]
  <2>1. worker' = [worker EXCEPT ![w] = g]
    BY <1>9 DEF DeadlinePasses
  <2>2. Carries(worker[w], g) /\ g.pc = worker[w].pc
    BY <1>frame, <1>9, CarriesOnTime DEF DeadlinePasses, Carries
  <2> HIDE DEF g
  <2>3. worker[w].pc \in {"pause", "probe", "probed"}
    BY <1>9 DEF DeadlinePasses
  <2> QED
    BY <1>set, <2>1, <2>2, <2>3
    DEF Op, Carries, Resolved, Cleared, Before, Signalable, Leaving
<1>10. CASE Wake(w)
  <2>0. PICK reply \in {"ok", "error"} :
          worker' = [worker EXCEPT ![w].pc = "woken", ![w].reply = reply]
    BY <1>10 DEF Wake
  <2> DEFINE g == [worker[w] EXCEPT !.pc = "woken", !.reply = reply]
  <2>1. worker' = [worker EXCEPT ![w] = g]
    BY <2>0
  <2>2. g.pc = "woken" /\ g.op = worker[w].op /\ g.pane = worker[w].pane
          /\ g.phase = worker[w].phase
          /\ g.seen = worker[w].seen /\ g.reply = reply /\ g.then = worker[w].then
    BY <1>frame, <1>10, FieldsSet DEF Wake, Carries
  <2> HIDE DEF g
  <2>3. worker[w].pc = "wake"
    BY <1>10 DEF Wake
  <2> QED
    BY <1>set, <2>1, <2>2, <2>3
    DEF Op, Carries, Resolved, Cleared, Before, Signalable, Leaving
<1>11. CASE Woken(w)
  <2>1. CASE Cancelled(Op(w)) /\ Goto(w, "exit") /\ UNCHANGED rows
    <3>1. Gone("exit")
      BY <1>11, <1>goto, <2>1 DEF Woken, WorkerPC
    <3> QED
      BY <1>11, <1>exit, <1>canc, <2>1, <3>1 DEF Woken
  <2>2. CASE \E code : Fail(w, code)
    BY <1>11, <1>fail, <2>2 DEF Woken
  <2>3. CASE worker' = [worker EXCEPT ![w].pc = "pause", ![w].phase = "wait",
                                        ![w].late = FALSE]
    <3> DEFINE g == [worker[w] EXCEPT !.pc = "pause", !.phase = "wait", !.late = FALSE]
    <3>1. worker' = [worker EXCEPT ![w] = g]
      BY <1>11, <2>3 DEF Woken
    <3>2. g.pc = "pause" /\ g.op = worker[w].op /\ g.pane = worker[w].pane
          /\ g.phase = "wait"
          /\ g.seen = worker[w].seen /\ g.reply = worker[w].reply /\ g.then = worker[w].then
      BY <1>frame, <1>11, <2>3, FieldsSet DEF Woken, Carries
    <3> HIDE DEF g
    <3>3. worker[w].pc = "woken"
      BY <1>11 DEF Woken
    <3> QED
      BY <1>set, <3>1, <3>2, <3>3
      DEF Op, Carries, Resolved, Cleared, Before, Signalable, Leaving
  <2> QED
    BY <1>11, <2>1, <2>2, <2>3 DEF Woken
<1>15. CASE StartAgent(w)
  <2>1. CASE worker' = [worker EXCEPT ![w].pc = "replied", ![w].reply = "error"]
    <3> DEFINE g == [worker[w] EXCEPT !.pc = "replied", !.reply = "error"]
    <3>1. worker' = [worker EXCEPT ![w] = g]
      BY <1>15, <2>1 DEF StartAgent
    <3>2. g.pc = "replied" /\ g.op = worker[w].op /\ g.pane = worker[w].pane
          /\ g.phase = worker[w].phase
          /\ g.seen = worker[w].seen /\ g.reply = "error" /\ g.then = worker[w].then
      BY <1>frame, <1>15, <2>1, FieldsSet DEF StartAgent, Carries
    <3> HIDE DEF g
    <3>3. worker[w].pc = "start"
      BY <1>15 DEF StartAgent
    <3> QED
      BY <1>set, <3>1, <3>2, <3>3
      DEF Op, Carries, Resolved, Cleared, Before, Signalable, Leaving
  <2>2. CASE Goto(w, "starting")
    <3>1. Gone("starting")
      BY <1>15, <1>goto, <2>2 DEF StartAgent, WorkerPC
    <3>2. MoveStep(w)
      BY <1>15, <1>on, <2>2, <3>1
      DEF StartAgent, Carries, Resolved, Cleared, Before, Signalable, WorkerPC
    <3> QED
      BY <3>2
  <2> QED
    BY <1>15, <2>1, <2>2 DEF StartAgent
<1>16. CASE Replied(w)
  <2>1. CASE /\ Cancelled(Op(w)) /\ UNCHANGED rows
             /\ worker' = [worker EXCEPT ![w].pc = "close", ![w].then = "exit"]
    <3> DEFINE g == [worker[w] EXCEPT !.pc = "close", !.then = "exit"]
    <3>1. worker' = [worker EXCEPT ![w] = g]
      BY <1>16, <2>1 DEF Replied
    <3>2. g.pc = "close" /\ g.op = worker[w].op /\ g.pane = worker[w].pane
          /\ g.phase = worker[w].phase
          /\ g.seen = worker[w].seen /\ g.reply = worker[w].reply /\ g.then = "exit"
      BY <1>frame, <1>16, <2>1, FieldsSet DEF Replied, Carries
    <3> HIDE DEF g
    <3>3. worker[w].pc = "replied"
      BY <1>16 DEF Replied
    <3>4. event[Op(w)] = "set" \/ rows'[Op(w)].stage \notin ACTIVE_STAGES
      BY <1>canc, <2>1, <3>3
    <3> QED
      BY <1>set, <3>1, <3>2, <3>3, <3>4
      DEF Op, Carries, Resolved, Cleared, Before, Signalable, Leaving
  <2>2. CASE worker[w].reply = "started" /\ Goto(w, "record")
    <3>1. Gone("record")
      BY <1>16, <1>goto, <2>2 DEF Replied, WorkerPC
    <3>2. MoveStep(w)
      BY <1>16, <1>on, <2>2, <3>1
      DEF Replied, Carries, Resolved, Cleared, Before, Signalable, WorkerPC
    <3> QED
      BY <3>2
  <2>3. CASE worker' = [worker EXCEPT ![w].pc = "pause", ![w].phase = "recover",
                                        ![w].late = FALSE]
    <3> DEFINE g == [worker[w] EXCEPT !.pc = "pause", !.phase = "recover", !.late = FALSE]
    <3>1. worker' = [worker EXCEPT ![w] = g]
      BY <1>16, <2>3 DEF Replied
    <3>2. g.pc = "pause" /\ g.op = worker[w].op /\ g.pane = worker[w].pane
          /\ g.phase = "recover"
          /\ g.seen = worker[w].seen /\ g.reply = worker[w].reply /\ g.then = worker[w].then
      BY <1>frame, <1>16, <2>3, FieldsSet DEF Replied, Carries
    <3> HIDE DEF g
    <3>3. worker[w].pc = "replied"
      BY <1>16 DEF Replied
    <3> QED
      BY <1>set, <3>1, <3>2, <3>3
      DEF Op, Carries, Resolved, Cleared, Before, Signalable, Leaving
  <2>4. CASE worker' = [worker EXCEPT ![w].pc = "close", ![w].then = "pause",
                                        ![w].phase = "recover", ![w].late = FALSE]
    <3> DEFINE g == [worker[w] EXCEPT !.pc = "close", !.then = "pause",
                                         !.phase = "recover", !.late = FALSE]
    <3>1. worker' = [worker EXCEPT ![w] = g]
      BY <1>16, <2>4 DEF Replied
    <3>2. g.pc = "close" /\ g.op = worker[w].op /\ g.pane = worker[w].pane
          /\ g.phase = "recover"
          /\ g.seen = worker[w].seen /\ g.reply = worker[w].reply /\ g.then = "pause"
      BY <1>frame, <1>16, <2>4, FieldsSet DEF Replied, Carries
    <3> HIDE DEF g
    <3>3. worker[w].pc = "replied"
      BY <1>16 DEF Replied
    <3> QED
      BY <1>set, <3>1, <3>2, <3>3
      DEF Op, Carries, Resolved, Cleared, Before, Signalable, Leaving
  <2>5. CASE worker' = [worker EXCEPT ![w].pc = "close", ![w].then = "failing",
                                        ![w].code = "LAUNCH_FAILED"]
    <3> DEFINE g == [worker[w] EXCEPT !.pc = "close", !.then = "failing",
                                         !.code = "LAUNCH_FAILED"]
    <3>1. worker' = [worker EXCEPT ![w] = g]
      BY <1>16, <2>5 DEF Replied
    <3>2. g.pc = "close" /\ g.op = worker[w].op /\ g.pane = worker[w].pane
          /\ g.phase = worker[w].phase
          /\ g.seen = worker[w].seen /\ g.reply = worker[w].reply /\ g.then = "failing"
      BY <1>frame, <1>16, <2>5, FieldsSet DEF Replied, Carries
    <3> HIDE DEF g
    <3>3. worker[w].pc = "replied"
      BY <1>16 DEF Replied
    <3> QED
      BY <1>set, <3>1, <3>2, <3>3
      DEF Op, Carries, Resolved, Cleared, Before, Signalable, Leaving
  <2> QED
    BY <1>16, <2>1, <2>2, <2>3, <2>4, <2>5 DEF Replied, journal
<1>17. CASE CloseTab(w)
  <2>1. worker[w].then \in {"exit", "pause", "failing"} /\ Goto(w, worker[w].then)
    BY <1>frame, <1>17 DEF CloseTab, Worker
  <2>2. CASE worker[w].then = "exit"
    <3>1. Gone("exit")
      BY <1>17, <1>goto, <2>1, <2>2 DEF CloseTab, WorkerPC
    <3> QED
      BY <1>17, <1>exit, <2>2, <3>1 DEF CloseTab, Leaving
  <2>3. CASE worker[w].then = "pause" /\ Goto(w, "pause")
    <3>1. Gone("pause")
      BY <1>17, <1>goto, <2>3 DEF CloseTab, WorkerPC
    <3>2. MoveStep(w)
      BY <1>17, <1>on, <2>3, <3>1
      DEF CloseTab, Carries, Resolved, Cleared, Before, Signalable, WorkerPC
    <3> QED
      BY <3>2
  <2>4. CASE worker[w].then = "failing" /\ Goto(w, "failing")
    <3>1. Gone("failing")
      BY <1>17, <1>goto, <2>4 DEF CloseTab, WorkerPC
    <3>2. MoveStep(w)
      BY <1>17, <1>on, <2>4, <3>1
      DEF CloseTab, Carries, Resolved, Cleared, Before, Signalable, WorkerPC
    <3> QED
      BY <3>2
  <2> QED
    BY <2>1, <2>2, <2>3, <2>4
<1>19. CASE Record(w)
  <2>1. Gone("finish")
    BY <1>19, <1>goto DEF Record, WorkerPC
  <2>2. MoveStep(w)
    BY <1>19, <2>1 DEF Record, Gone, MoveStep, Moves, Carries, Op, Resolved, Cleared, Before,
                       Signalable, Leaving
  <2> QED
    BY <2>2
<1>20. CASE Finish(w)
  <2>1. Gone("exit")
    BY <1>20, <1>goto DEF Finish, WorkerPC
  <2>2. rows' = [rows EXCEPT ![Op(w)] = Updated(@, "started", worker[w].pane, None)]
    BY <1>20 DEF Finish
  <2>3. rows \in [Ops -> Row] /\ Op(w) \in Ops
    BY <1>frame, <2>1 DEF Gone
  <2>4. /\ ~Active(Op(w)) => rows'[Op(w)] = rows[Op(w)]
        /\ Active(Op(w)) => rows'[Op(w)].stage = "started"
    BY <2>2, <2>3, RowWritten
  <2>5. rows'[Op(w)].stage \notin ACTIVE_STAGES
    BY <2>4 DEF Active, ACTIVE_STAGES
  <2> QED
    BY <1>20, <1>exit, <2>1, <2>5 DEF Finish
<1>21. CASE WriteFailure(w)
  <2>1. Gone("exit")
    BY <1>21, <1>goto DEF WriteFailure, WorkerPC
  <2>2. rows' = [rows EXCEPT ![Op(w)] = Updated(@, "failed", None, worker[w].code)]
    BY <1>21 DEF WriteFailure
  <2>3. rows \in [Ops -> Row] /\ Op(w) \in Ops
    BY <1>frame, <2>1 DEF Gone
  <2>4. /\ ~Active(Op(w)) => rows'[Op(w)] = rows[Op(w)]
        /\ Active(Op(w)) => rows'[Op(w)].stage = "failed"
    BY <2>2, <2>3, RowWritten
  <2>5. rows'[Op(w)].stage \notin ACTIVE_STAGES
    BY <2>4 DEF Active, ACTIVE_STAGES
  <2> QED
    BY <1>21, <1>exit, <2>1, <2>5 DEF WriteFailure
<1>23. CASE GiveUp(w)
  <2> DEFINE pc == IF worker[w].pc = "creating" THEN "created" ELSE "replied"
  <2> DEFINE g == [worker[w] EXCEPT !.pc = pc, !.reply = "error"]
  <2>1. worker' = [worker EXCEPT ![w] = g]
    BY <1>23 DEF GiveUp
  <2>2. g.pc = pc /\ g.op = worker[w].op /\ g.pane = worker[w].pane
          /\ g.phase = worker[w].phase
          /\ g.seen = worker[w].seen /\ g.reply = "error" /\ g.then = worker[w].then
    BY <1>frame, <1>23, FieldsSet DEF GiveUp, Carries
  <2> HIDE DEF g
  <2>3. worker[w].pc \in {"creating", "starting"}
           /\ pc = IF worker[w].pc = "creating" THEN "created" ELSE "replied"
    BY <1>23 DEF GiveUp
  <2> HIDE DEF pc
  <2> QED
    BY <1>set, <2>1, <2>2, <2>3
    DEF Op, Carries, Resolved, Cleared, Before, Signalable, Leaving
<1>25. CASE WriteFailureRaises(w)
  <2>1. Gone("exit")
    BY <1>25, <1>goto DEF WriteFailureRaises, WorkerPC
  <2>2. faults' # 0
    BY <1>25 DEF WriteFailureRaises, TypeInv, TypeOK
  <2> QED
    BY <1>25, <1>exit, <2>1, <2>2 DEF WriteFailureRaises
<1> QED
  BY <1>1, <1>2, <1>3, <1>4, <1>5, <1>6, <1>7, <1>8, <1>9, <1>10, <1>11, <1>12, <1>13, <1>14,
     <1>15, <1>16, <1>17, <1>18, <1>19, <1>20, <1>21, <1>23, <1>24, <1>25 DEF WorkerStep

\* An answer moves the worker that waits for it on, if any still does.
LEMMA AnswerMoves ==
  ASSUME TypeInv, NEW q \in calls, OpenTab(q) \/ RefuseTab(q) \/ RefuseAgent(q)
  PROVE  worker' = worker \/ (q.by \in Threads /\ MoveStep(q.by))
<1>0. q \in Call /\ q.by \in Threads \cup {None}
  BY DEF TypeInv, TypeOK, Call
<1>1. CASE q.by = None
  BY <1>1 DEF OpenTab, RefuseTab, RefuseAgent, Answer
<1>2. CASE q.by # None
  <2> DEFINE w == q.by
  <2>1. /\ w \in Threads /\ worker[w] \in Worker /\ Op(w) # None
        /\ worker[w].pc = IF q.kind = "create" THEN "creating" ELSE "starting"
    BY <1>0, <1>2 DEF TypeInv, TypeOK, FramesOK, CallsOK, Op
  <2>2. \/ /\ q.kind = "create"
           /\ \E tab : worker' = [worker EXCEPT ![w] = [@ EXCEPT !.pc = "created", !.tab = tab]]
        \/ /\ q.kind = "start"
           /\ \E reply \in {"error", "taken"} :
                worker' = [worker EXCEPT ![w] = [@ EXCEPT !.pc = "replied", !.reply = reply]]
    <3>1. CASE OpenTab(q) \/ RefuseTab(q)
      BY <1>2, <3>1, Zenon DEF OpenTab, RefuseTab, Answer
    <3>2. CASE RefuseAgent(q)
      BY <1>2, <3>2 DEF RefuseAgent, Answer
    <3> QED
      BY <3>1, <3>2, Zenon
  <2>3. \A f \in Worker : \A pc, tab :
          LET g == [f EXCEPT !.pc = pc, !.tab = tab] IN Carries(f, g) /\ g.pc = pc
    BY DEF Worker, Carries
  <2>4. PICK g : /\ worker' = [worker EXCEPT ![w] = g]
                 /\ g.op = Op(w) /\ g.pane = worker[w].pane
                 /\ \/ worker[w].pc = "creating" /\ g.pc = "created"
                    \/ worker[w].pc = "starting" /\ g.pc = "replied" /\ g.reply # "started"
    <3>1. CASE q.kind = "create"
      <4>1. PICK tab : worker' = [worker EXCEPT ![w] =
                                    [worker[w] EXCEPT !.pc = "created", !.tab = tab]]
        BY <2>2, <3>1, Zenon
      <4> DEFINE g == [worker[w] EXCEPT !.pc = "created", !.tab = tab]
      <4>2. Carries(worker[w], g) /\ g.pc = "created"
        BY <2>1, <2>3
      <4>3. worker' = [worker EXCEPT ![w] = g]
        BY <4>1
      <4> HIDE DEF g
      <4> QED
        BY <2>1, <3>1, <4>2, <4>3 DEF Carries, Op
    <3>2. CASE q.kind = "start"
      <4>1. PICK reply \in {"error", "taken"} : worker' = [worker EXCEPT ![w] =
                                    [worker[w] EXCEPT !.pc = "replied", !.reply = reply]]
        BY <2>2, <3>2
      <4> DEFINE g == [worker[w] EXCEPT !.pc = "replied", !.reply = reply]
      <4>2. g.pc = "replied" /\ g.reply = reply /\ g.op = worker[w].op
              /\ g.pane = worker[w].pane
        BY <2>1, FieldsSet
      <4>3. worker' = [worker EXCEPT ![w] = g]
        BY <4>1
      <4> HIDE DEF g
      <4> QED
        BY <2>1, <3>2, <4>1, <4>2, <4>3 DEF Op
    <3> QED
      BY <2>2, <3>1, <3>2, Zenon
  <2>5. worker'[w] = g /\ \A v \in Threads : v # w => worker'[v] = worker[v]
    BY <2>1, <2>4 DEF TypeInv, TypeOK
  <2>6. MoveStep(w)
    BY <2>1, <2>4, <2>5
    DEF MoveStep, Moves, At, Op, Resolved, Cleared, Before, Signalable, Leaving
  <2> QED
    BY <2>1, <2>6
<1> QED
  BY <1>1, <1>2

-----------------------------------------------------------------------------
(* What a step may change, and which step changes it.                       *)

\* What a step does to the workers' frames.
WorkersStep ==
    \/ worker' = worker
    \/ \E w \in Threads : MoveStep(w) \/ Probe(w) \/ Exit(w)
    \/ \E q \in calls : AttachAgent(q)
    \/ \E c \in Clients : Acknowledge(c)
    \/ Crash \/ Restart

\* Frames of workers move on, probe, are answered, begin and end.
LEMMA WorkersMove ==
  ASSUME TypeInv, [Next]_vars
  PROVE  WorkersStep
<1>1. ASSUME NEW w \in Threads,
             \/ WorkerStep(w) \/ DeadlinePasses(w) \/ GiveUp(w)
             \/ WorkerRaises(w) \/ WriteFailureRaises(w)
      PROVE  WorkersStep
  BY <1>1, WorkerMoves DEF WorkersStep
<1>2. ASSUME NEW q \in calls, HerdrStep(q)
      PROVE  WorkersStep
  BY <1>2, AnswerMoves DEF HerdrStep, WorkersStep
<1>3. ASSUME NEW c \in Clients,
             BeginCommand(c) \/ CancelCommand(c) \/ ClientStep(c) \/ CommandRaises(c)
      PROVE  WorkersStep
  <2>1. worker' = worker \/ Acknowledge(c)
    BY <1>3, Zenon DEF ClientStep, BeginCommand, CancelCommand, CommandRaises, LookupRequest,
                ReadSource, RefuseCommand, Admit, Signal, Withdraw
  <2> QED
    BY <2>1, Zenon DEF WorkersStep
<1>4. CASE (\E o \in Ops : AgentExits(o)) \/ Quiescent \/ UNCHANGED vars
  BY <1>4 DEF AgentExits, Quiescent, vars, process, WorkersStep
<1> QED
  BY <1>1, <1>2, <1>3, <1>4 DEF Next, WorkersStep

\* What a step does to the other variables, by who writes them.
Effects ==
    /\ marked \subseteq marked' /\ missed \subseteq missed'
    /\ faults' = 0 => faults = 0
    /\ crashes' = 0 => crashes = 0
    /\ owner' = owner \/ \E w \in Threads : CreateTab(w)
    /\ \/ ran' = ran /\ \A o \in Ops : agent'[o] \in {agent[o], None}
       \/ \E q \in calls : AttachAgent(q)
    /\ unseen' = unseen \/ (\E q \in calls : AttachAgent(q)) \/ \E w \in Threads : Probe(w)
    /\ \/ event' = event
       \/ \E w \in Threads : Load(w) \/ Exit(w)
       \/ \E c \in Clients : Signal(c)
       \/ Crash
    /\ \/ running' = running
       \/ \E w \in Threads : Exit(w)
       \/ \E c \in Clients : Acknowledge(c) \/ CommandRaises(c)
       \/ Crash \/ Restart
    /\ up' = up \/ Crash \/ Restart
    /\ crashes' = crashes \/ Crash

\* Who changes what: histories and counters only grow, and each of the other
\* variables has few writers.
LEMMA StepEffects ==
  ASSUME TypeInv, [Next]_vars
  PROVE  Effects
<1> USE DEF journal, process, herdr, budget, history, others
<1>n. commands \in Nat /\ crashes \in Nat /\ faults \in Nat
  BY DEF TypeInv, TypeOK
<1>1. ASSUME NEW w \in Threads,
             \/ Load(w) \/ CheckContext(w) \/ ProbeCancelled(w) \/ ProbeFound(w)
             \/ ProbeOffline(w) \/ ProbeReached(w) \/ ProbeElsewise(w) \/ Pause(w)
             \/ DeadlinePasses(w) \/ Wake(w) \/ Woken(w) \/ Gate(w) \/ Created(w)
             \/ Replied(w) \/ Observed(w) \/ Finish(w) \/ WriteFailure(w)
             \/ StartAgent(w) \/ GiveUp(w)
      PROVE  Effects
  BY <1>1 DEF Load, CheckContext, ProbeCancelled, ProbeFound, ProbeOffline, ProbeReached,
     ProbeElsewise, Pause, DeadlinePasses, Wake, Woken, Gate, Created, Replied, Observed,
     Finish, WriteFailure, StartAgent, GiveUp, Effects
<1>2. ASSUME NEW w \in Threads, WorkerRaises(w) \/ WriteFailureRaises(w)
      PROVE  Effects
  BY <1>n, <1>2 DEF WorkerRaises, WriteFailureRaises, Effects
<1>3. ASSUME NEW w \in Threads, CloseTab(w)
      PROVE  Effects
  BY <1>3 DEF CloseTab, Closed, Effects
<1>4. ASSUME NEW w \in Threads, Probe(w) \/ CreateTab(w) \/ Record(w) \/ Exit(w)
      PROVE  Effects
  BY <1>4, Zenon DEF Probe, CreateTab, Record, Exit, Effects
<1>5. ASSUME NEW q \in calls, HerdrStep(q)
      PROVE  Effects
  BY <1>5, Zenon DEF HerdrStep, OpenTab, RefuseTab, AttachAgent, RefuseAgent, Effects
<1>6. ASSUME NEW c \in Clients,
             BeginCommand(c) \/ CancelCommand(c) \/ ClientStep(c) \/ CommandRaises(c)
      PROVE  Effects
  <2>1. CASE BeginCommand(c) \/ CancelCommand(c)
    BY <2>1 DEF BeginCommand, CancelCommand, Effects
  <2>2. CASE LookupRequest(c) \/ ReadSource(c) \/ RefuseCommand(c) \/ Admit(c) \/ Withdraw(c)
    BY <2>2 DEF LookupRequest, ReadSource, RefuseCommand, Admit, Withdraw, Effects
  <2>3. CASE Acknowledge(c)
    BY <2>3 DEF Acknowledge, Effects
  <2>4. CASE Signal(c)
    BY <2>4 DEF Signal, Effects
  <2>5. CASE CommandRaises(c)
    <3>1. /\ faults' = faults + 1
          /\ UNCHANGED <<marked, missed, crashes, owner, ran, agent, unseen, event, up>>
      BY <2>5 DEF CommandRaises
    <3> QED
      BY <1>n, <2>5, <3>1 DEF Effects
  <2> QED
    BY <1>6, <2>1, <2>2, <2>3, <2>4, <2>5 DEF ClientStep
<1>7. ASSUME NEW o \in Ops, AgentExits(o)
      PROVE  Effects
  BY <1>7 DEF AgentExits, TypeInv, TypeOK, Effects
<1>8. CASE Crash \/ Restart
  BY <1>n, <1>8 DEF Crash, Restart, Effects
<1>9. CASE Quiescent \/ UNCHANGED vars
  BY <1>9 DEF Quiescent, vars, Effects
<1> QED
  BY <1>1, <1>2, <1>3, <1>4, <1>5, <1>6, <1>7, <1>8, <1>9 DEF Next, WorkerStep

\* A row changes its stage only while it is active: to another active one, to
\* failed, to started when its worker finishes, to cancelled when a cancel is
\* written.  And it appears only queued.
StageStep(o) ==
    \/ rows'[o] = rows[o]
    \/ Active(o) /\ rows'[o].stage \in ACTIVE_STAGES \cup {"failed"}
    \/ /\ Active(o) /\ rows'[o].stage = "started"
       /\ \E w \in Threads :
            /\ Finish(w) /\ Op(w) = o
            /\ worker[w].pane # None => rows'[o].session = worker[w].pane
    \/ /\ Active(o) /\ rows'[o].stage = "cancelled"
       /\ \E c \in Clients : Withdraw(c) /\ client[c].op = o
    \/ /\ ~Exists(o) /\ rows'[o].stage = "queued"
       /\ \E c \in Clients : client'[c].pc = "ensure" /\ client'[c].op = o

\* Every step of the relay, of Herdr and of the environment keeps to that.
LEMMA StagesStep ==
  ASSUME TypeInv, [Next]_vars, NEW o \in Ops
  PROVE  StageStep(o)
<1> USE DEF journal, process, herdr, history, others, At
<1>r. rows \in [Ops -> Row]
  BY DEF TypeInv, TypeOK
<1>same. UNCHANGED rows => StageStep(o)
  BY DEF StageStep
<1>1. ASSUME NEW c \in Clients, Admit(c)
      PROVE  StageStep(o)
  <2>1. CASE UNCHANGED rows
    BY <1>same, <2>1
  <2>2. CASE rows' # rows
    <3>1. PICK p \in Ops : /\ ~Exists(p)
                           /\ rows' = [rows EXCEPT ![p] = NewRow(client[c].request,
                                                   client[c].source, client[c].attempt)]
                           /\ client' = [client EXCEPT ![c] =
                                            [client[c] EXCEPT !.pc = "ensure", !.op = p]]
      BY <1>1, <2>2, AdmitCases, Zenon
    <3>2. rows'[p] = NewRow(client[c].request, client[c].source, client[c].attempt)
            /\ \A x \in Ops : x # p => rows'[x] = rows[x]
      BY <1>r, <3>1
    <3>3. \A r, s, a : NewRow(r, s, a).stage = "queued"
      BY DEF NewRow, NoRow
    <3>4. \A f \in Client : LET g == [f EXCEPT !.pc = "ensure", !.op = p] IN
                             g.pc = "ensure" /\ g.op = p
      BY DEF Client
    <3>5. client'[c].pc = "ensure" /\ client'[c].op = p
      BY <3>1, <3>4 DEF TypeInv, TypeOK
    <3> QED
      BY <3>1, <3>2, <3>3, <3>5 DEF StageStep
  <2> QED
    BY <2>1, <2>2
<1>2. ASSUME NEW c \in Clients, Withdraw(c)
      PROVE  StageStep(o)
  <2>1. client[c].op \in Ops
    BY <1>2 DEF Withdraw, TypeInv, TypeOK, FramesOK, Client
  <2>2. rows' = [rows EXCEPT ![client[c].op] = Withdrawn(@)]
    BY <1>2 DEF Withdraw
  <2>3. \A row \in Row : /\ row.stage \notin ACTIVE_STAGES => Withdrawn(row) = row
                         /\ row.stage \in ACTIVE_STAGES => Withdrawn(row).stage = "cancelled"
    BY DEF Withdrawn, Row
  <2>4. CASE o = client[c].op
    <3>1. rows[o] \in Row /\ rows'[o] = Withdrawn(rows[o])
      BY <1>r, <2>2, <2>4
    <3> QED
      BY <1>2, <2>3, <2>4, <3>1 DEF StageStep, Active
  <2>5. CASE o # client[c].op
    BY <1>r, <2>2, <2>5 DEF StageStep
  <2> QED
    BY <2>4, <2>5
<1>3. ASSUME NEW c \in Clients,
             \/ BeginCommand(c) \/ CancelCommand(c) \/ LookupRequest(c) \/ ReadSource(c)
             \/ RefuseCommand(c) \/ Acknowledge(c) \/ Signal(c) \/ CommandRaises(c)
      PROVE  StageStep(o)
  <2>1. UNCHANGED rows
    BY <1>3, CommandsRead
  <2> QED
    BY <1>same, <2>1
<1>update. ASSUME NEW p \in Ops, NEW stage \in ACTIVE_STAGES \cup {"failed"},
             NEW session, NEW error,
             rows' = [rows EXCEPT ![p] = Updated(@, stage, session, error)]
           PROVE  StageStep(o)
  <2>1. /\ \A x \in Ops : x # p => rows'[x] = rows[x]
        /\ ~Active(p) => rows'[p] = rows[p]
        /\ Active(p) => rows'[p].stage = stage
    BY <1>r, <1>update, RowWritten
  <2> QED
    BY <1>update, <2>1 DEF StageStep
<1>started. ASSUME NEW p \in Ops, NEW stage \in {"started"}, NEW session, NEW error,
                   rows' = [rows EXCEPT ![p] = Updated(@, stage, session, error)]
            PROVE  /\ \A x \in Ops : x # p => rows'[x] = rows[x]
                   /\ ~Active(p) => rows'[p] = rows[p]
                   /\ Active(p) => /\ rows'[p].stage = "started"
                                   /\ session # None => rows'[p].session = session
  <2>1. rows[p] \in Row /\ rows'[p] = Updated(rows[p], stage, session, error)
          /\ \A x \in Ops : x # p => rows'[x] = rows[x]
    BY <1>r, <1>started
  <2>2. /\ ~Active(p) => rows'[p] = rows[p]
        /\ Active(p) => rows'[p].stage = stage
        /\ Active(p) /\ session # None => rows'[p].session = session
    BY <2>1, UpdatedFields DEF Active
  <2> QED
    BY <1>started, <2>1, <2>2
<1>4. ASSUME NEW w \in Threads, Finish(w)
      PROVE  StageStep(o)
  <2>1. Op(w) \in Ops
    BY <1>4, OpTyped DEF Finish
  <2>2. rows' = [rows EXCEPT ![Op(w)] = Updated(@, "started", worker[w].pane, None)]
    BY <1>4 DEF Finish
  <2>3. /\ \A p \in Ops : p # Op(w) => rows'[p] = rows[p]
        /\ ~Active(Op(w)) => rows'[Op(w)] = rows[Op(w)]
        /\ Active(Op(w)) => /\ rows'[Op(w)].stage = "started"
                            /\ worker[w].pane # None =>
                                 rows'[Op(w)].session = worker[w].pane
    BY <1>started, <2>1, <2>2
  <2> QED
    BY <1>4, <2>1, <2>3 DEF StageStep
<1>5. ASSUME NEW w \in Threads, WriteFailure(w)
      PROVE  StageStep(o)
  <2>1. Op(w) \in Ops
    BY <1>5, OpTyped DEF WriteFailure
  <2>2. rows' = [rows EXCEPT ![Op(w)] = Updated(@, "failed", None, worker[w].code)]
    BY <1>5 DEF WriteFailure
  <2> QED
    BY <1>update, <2>1, <2>2
<1>6. ASSUME NEW w \in Threads,
             \/ CheckContext(w) \/ ProbeOffline(w) \/ ProbeReached(w) \/ Woken(w) \/ Gate(w)
      PROVE  StageStep(o)
  <2>1. Op(w) \in Ops
    BY <1>6, OpTyped DEF CheckContext, ProbeOffline, ProbeReached, Woken, Gate
  <2>2. \/ UNCHANGED rows
        \/ \E stage \in ACTIVE_STAGES : Transition(Op(w), stage)
    BY <1>6 DEF CheckContext, ProbeOffline, ProbeReached, Woken, Gate, ACTIVE_STAGES
  <2> QED
    BY <1>same, <1>update, <2>1, <2>2 DEF Transition
<1>7. ASSUME NEW w \in Threads,
             \/ Load(w) \/ Probe(w) \/ ProbeCancelled(w) \/ ProbeFound(w)
             \/ ProbeElsewise(w) \/ Pause(w) \/ DeadlinePasses(w) \/ Wake(w)
             \/ CreateTab(w) \/ Created(w) \/ StartAgent(w) \/ GiveUp(w)
             \/ Replied(w) \/ CloseTab(w) \/ Observed(w) \/ Record(w) \/ Exit(w)
             \/ WorkerRaises(w) \/ WriteFailureRaises(w)
      PROVE  StageStep(o)
  <2>1. UNCHANGED rows
    BY <1>7, Zenon DEF Load, Probe, ProbeCancelled, ProbeFound, ProbeElsewise, Pause,
                DeadlinePasses, Wake, CreateTab, Created, StartAgent, GiveUp, Replied,
                CloseTab, Observed, Record, Exit, WorkerRaises, WriteFailureRaises
  <2> QED
    BY <1>same, <2>1
<1>8. CASE \/ \E q \in calls : HerdrStep(q)
           \/ \E p \in Ops : AgentExits(p)
           \/ Crash \/ Restart \/ Quiescent \/ UNCHANGED vars
  <2>1. UNCHANGED rows
    BY <1>8, Zenon DEF HerdrStep, OpenTab, RefuseTab, AttachAgent, RefuseAgent, AgentExits,
                Crash, Restart, Quiescent, vars
  <2> QED
    BY <1>same, <2>1, Zenon
<1>9. ASSUME NEW c \in Clients,
             BeginCommand(c) \/ CancelCommand(c) \/ ClientStep(c) \/ CommandRaises(c)
      PROVE  StageStep(o)
  BY <1>1, <1>2, <1>3, <1>9 DEF ClientStep
<1>10. ASSUME NEW w \in Threads,
              \/ WorkerStep(w) \/ DeadlinePasses(w) \/ GiveUp(w)
              \/ WorkerRaises(w) \/ WriteFailureRaises(w)
       PROVE  StageStep(o)
  BY <1>4, <1>5, <1>6, <1>7, <1>10 DEF WorkerStep
<1> QED
  BY <1>8, <1>9, <1>10 DEF Next

\* Command threads turn to an operation of the journal only, and to its row
\* after its event.
CommandStep(c) ==
    \/ client'[c] = client[c]
    \/ client'[c].pc \notin {"ensure", "signal", "withdraw"}
    \/ client'[c].pc = "ensure" /\ rows'[client'[c].op].stage # "absent"
    \/ client'[c].pc = "signal" /\ Exists(client'[c].op) /\ UNCHANGED rows
    \/ client'[c].pc = "withdraw" /\ client'[c].op = client[c].op /\ Signal(c)

\* Each step of a command is one of the moves of CommandStep; nobody else moves it.
LEMMA CommandsStep ==
  ASSUME TypeInv, [Next]_vars, NEW c \in Clients
  PROVE  CommandStep(c)
<1> USE DEF journal
<1>0. client \in [Clients -> Client] /\ client[c] \in Client /\ rows \in [Ops -> Row]
  BY DEF TypeInv, TypeOK
<1>f. \A f \in Client : \A pc, op :
        /\ LET g == [f EXCEPT !.pc = pc, !.op = op] IN g.pc = pc /\ g.op = op
        /\ LET g == [f EXCEPT !.pc = pc] IN g.pc = pc /\ g.op = f.op
  BY DEF Client
<1>same. client' = client => CommandStep(c)
  BY DEF CommandStep
<1>1. ASSUME NEW d \in Clients, d # c,
             BeginCommand(d) \/ CancelCommand(d) \/ ClientStep(d) \/ CommandRaises(d)
      PROVE  CommandStep(c)
  <2>1. ASSUME NEW frame, client' = [client EXCEPT ![d] = frame]
        PROVE  client'[c] = client[c]
    BY <1>0, <1>1, <2>1
  <2>2. \E frame : client' = [client EXCEPT ![d] = frame]
    BY <1>1, Zenon DEF BeginCommand, CancelCommand, ClientStep, LookupRequest, ReadSource,
       RefuseCommand, Admit, Acknowledge, Signal, Withdraw, CommandRaises
  <2> QED
    BY <2>1, <2>2, Zenon DEF CommandStep
<1>2. CASE RefuseCommand(c) \/ Acknowledge(c) \/ Withdraw(c) \/ CommandRaises(c)
  <2>1. client'[c] = IdleClient
    BY <1>0, <1>2 DEF RefuseCommand, Acknowledge, Withdraw, CommandRaises
  <2> QED
    BY <2>1, IdleTyped DEF CommandStep
<1>3. CASE BeginCommand(c)
  <2>1. client'[c].pc = "lookup"
    BY <1>0, <1>3 DEF BeginCommand, IdleClient
  <2> QED
    BY <2>1 DEF CommandStep
<1>turn. ASSUME NEW o \in Ops, client' = [client EXCEPT ![c] =
                                   [client[c] EXCEPT !.pc = "ensure", !.op = o]]
         PROVE  client'[c].pc = "ensure" /\ client'[c].op = o
  BY <1>0, <1>f, <1>turn
<1>4. CASE LookupRequest(c)
  <2>1. CASE \E o \in ByRequest(client[c].request) :
               client' = [client EXCEPT ![c].pc = "ensure", ![c].op = o]
    <3>1. PICK o \in Ops : Exists(o) /\ client' = [client EXCEPT ![c] =
                                   [client[c] EXCEPT !.pc = "ensure", !.op = o]]
      BY <2>1 DEF ByRequest
    <3> QED
      BY <1>4, <1>turn, <3>1 DEF LookupRequest, CommandStep, Exists
  <2>2. CASE client' = [client EXCEPT ![c] = [client[c] EXCEPT !.pc = "source"]]
    BY <1>0, <1>f, <2>2 DEF CommandStep
  <2>3. CASE client' = [client EXCEPT ![c].pc = "admit", ![c].attempt = 1]
    BY <1>0, <2>3 DEF CommandStep, Client
  <2> QED
    BY <1>4, <2>1, <2>2, <2>3 DEF LookupRequest
<1>5. CASE ReadSource(c)
  <2>1. CASE \E s, a : \E o \in ByRetry(s, a) :
               client' = [client EXCEPT ![c].pc = "ensure", ![c].op = o]
    <3>1. PICK o \in Ops : Exists(o) /\ client' = [client EXCEPT ![c] =
                                   [client[c] EXCEPT !.pc = "ensure", !.op = o]]
      BY <2>1 DEF ByRetry
    <3>2. UNCHANGED rows
      BY <1>5 DEF ReadSource
    <3>3. client'[c].pc = "ensure" /\ client'[c].op = o
      BY <1>turn, <3>1
    <3> QED
      BY <3>1, <3>2, <3>3 DEF CommandStep, Exists
  <2>2. CASE client' = [client EXCEPT ![c] = IdleClient]
    BY <1>0, <2>2, IdleTyped DEF CommandStep
  <2>3. CASE \E a : client' = [client EXCEPT ![c].pc = "admit", ![c].attempt = a]
    BY <1>0, <2>3 DEF CommandStep, Client
  <2> QED
    BY <1>5, <2>1, <2>2, <2>3 DEF ReadSource
<1>6. CASE Admit(c)
  <2>1. PICK o \in Ops : /\ client' = [client EXCEPT ![c] =
                                          [client[c] EXCEPT !.pc = "ensure", !.op = o]]
                         /\ rows'[o].stage # "absent"
    <3>1. \A r, s, a : NewRow(r, s, a).stage # "absent" /\ Known(r, s, a) \subseteq Ops
            /\ \A o \in Known(r, s, a) : Exists(o)
      BY DEF NewRow, NoRow, Known, ByRequest, ByRetry
    <3>2. CASE /\ \E o \in Known(client[c].request, client[c].source, client[c].attempt) :
                    client' = [client EXCEPT ![c] =
                                 [client[c] EXCEPT !.pc = "ensure", !.op = o]]
               /\ UNCHANGED rows
      <4>1. PICK o \in Known(client[c].request, client[c].source, client[c].attempt) :
              /\ client' = [client EXCEPT ![c] = [client[c] EXCEPT !.pc = "ensure", !.op = o]]
              /\ UNCHANGED rows
        BY <3>2
      <4> QED
        BY <3>1, <4>1 DEF Exists
    <3>3. CASE \E o \in Ops :
                 /\ rows' = [rows EXCEPT ![o] = NewRow(client[c].request, client[c].source,
                                                       client[c].attempt)]
                 /\ client' = [client EXCEPT ![c] =
                                 [client[c] EXCEPT !.pc = "ensure", !.op = o]]
      <4>1. PICK o \in Ops :
              /\ rows' = [rows EXCEPT ![o] = NewRow(client[c].request, client[c].source,
                                                    client[c].attempt)]
              /\ client' = [client EXCEPT ![c] = [client[c] EXCEPT !.pc = "ensure", !.op = o]]
        BY <3>3
      <4>2. rows'[o].stage # "absent"
        BY <1>0, <3>1, <4>1
      <4> QED
        BY <4>1, <4>2
    <3> QED
      BY <1>6, <3>2, <3>3, AdmitCases, Zenon
  <2> QED
    BY <1>turn, <2>1 DEF CommandStep
<1>7. CASE CancelCommand(c)
  <2>1. PICK o \in Ops : Exists(o) /\ client' = [client EXCEPT ![c] =
                                   [IdleClient EXCEPT !.pc = "signal", !.op = o]]
    BY <1>7 DEF CancelCommand
  <2>2. client'[c].pc = "signal" /\ client'[c].op = o
    BY <1>0, <1>f, <2>1, IdleTyped
  <2> QED
    BY <1>7, <2>1, <2>2 DEF CancelCommand, CommandStep
<1>8. CASE Signal(c)
  <2>1. client' = [client EXCEPT ![c] = [client[c] EXCEPT !.pc = "withdraw"]]
    BY <1>8 DEF Signal
  <2> QED
    BY <1>0, <1>8, <1>f, <2>1 DEF CommandStep
<1>9. ASSUME NEW w \in Threads,
             \/ WorkerStep(w) \/ DeadlinePasses(w) \/ GiveUp(w)
             \/ WorkerRaises(w) \/ WriteFailureRaises(w)
      PROVE  CommandStep(c)
  <2>1. client' = client
    BY <1>9, Zenon DEF others, WorkerStep, Load, CheckContext, Probe, ProbeCancelled, ProbeFound,
       ProbeOffline, ProbeReached, ProbeElsewise, Pause, Wake, Woken, Gate, CreateTab,
       Created, StartAgent, Replied, CloseTab, Observed, Record, Finish, WriteFailure,
       Exit, DeadlinePasses, GiveUp, WorkerRaises, WriteFailureRaises
  <2> QED
    BY <1>same, <2>1
<1>10. CASE \/ \E q \in calls : HerdrStep(q)
            \/ \E o \in Ops : AgentExits(o)
            \/ Restart \/ Quiescent \/ UNCHANGED vars
  <2>1. client' = client
    BY <1>10, Zenon DEF others, process, HerdrStep, OpenTab, RefuseTab, AttachAgent, RefuseAgent,
       AgentExits, Restart, Quiescent, vars
  <2> QED
    BY <1>same, <2>1
<1>11. CASE Crash
  BY <1>11, IdleTyped DEF Crash, CommandStep
<1>12. ASSUME NEW d \in Clients,
              BeginCommand(d) \/ CancelCommand(d) \/ ClientStep(d) \/ CommandRaises(d)
       PROVE  CommandStep(c)
  BY <1>1, <1>2, <1>3, <1>4, <1>5, <1>6, <1>7, <1>8, <1>12 DEF ClientStep
<1> QED
  BY <1>9, <1>10, <1>11, <1>12 DEF Next

\* A command waits in turn until it starts a worker or writes its cancel, or an
\* exception or a crash takes it.
LEMMA CommandsStay ==
  ASSUME TypeInv, [Next]_vars, NEW c \in Clients, client[c].pc \in {"ensure", "withdraw"}
  PROVE  \/ client'[c] = client[c]
         \/ Acknowledge(c) /\ client[c].pc = "ensure"
         \/ Withdraw(c) \/ CommandRaises(c) \/ Crash
<1> DEFINE Goal == \/ client'[c] = client[c]
                   \/ Acknowledge(c) /\ client[c].pc = "ensure"
                   \/ Withdraw(c) \/ CommandRaises(c) \/ Crash
<1> SUFFICES Goal
  OBVIOUS
<1>same. UNCHANGED client => Goal
  OBVIOUS
<1>1. ASSUME NEW d \in Clients, d # c,
             BeginCommand(d) \/ CancelCommand(d) \/ ClientStep(d) \/ CommandRaises(d)
      PROVE  Goal
  <2>1. ASSUME NEW frame, client' = [client EXCEPT ![d] = frame]
        PROVE  client'[c] = client[c]
    BY <1>1, <2>1 DEF TypeInv, TypeOK
  <2>2. \E frame : client' = [client EXCEPT ![d] = frame]
    BY <1>1, Zenon DEF BeginCommand, CancelCommand, ClientStep, LookupRequest, ReadSource,
       RefuseCommand, Admit, Acknowledge, Signal, Withdraw, CommandRaises
  <2> QED
    BY <2>1, <2>2, Zenon
<1>2. ASSUME BeginCommand(c) \/ CancelCommand(c) \/ ClientStep(c) \/ CommandRaises(c)
      PROVE  Goal
  <2>1. Acknowledge(c) \/ Withdraw(c) \/ CommandRaises(c)
    BY <1>2, Zenon DEF BeginCommand, CancelCommand, ClientStep, LookupRequest, ReadSource,
       RefuseCommand, Admit, Signal
  <2> QED
    BY <2>1 DEF Acknowledge
<1>3. ASSUME NEW w \in Threads,
             \/ WorkerStep(w) \/ DeadlinePasses(w) \/ GiveUp(w)
             \/ WorkerRaises(w) \/ WriteFailureRaises(w)
      PROVE  Goal
  <2>1. client' = client
    BY <1>3, Zenon DEF others, WorkerStep, Load, CheckContext, Probe, ProbeCancelled, ProbeFound,
       ProbeOffline, ProbeReached, ProbeElsewise, Pause, Wake, Woken, Gate, CreateTab,
       Created, StartAgent, Replied, CloseTab, Observed, Record, Finish, WriteFailure,
       Exit, DeadlinePasses, GiveUp, WorkerRaises, WriteFailureRaises
  <2> QED
    BY <1>same, <2>1
<1>4. CASE \/ \E q \in calls : HerdrStep(q)
           \/ \E o \in Ops : AgentExits(o)
           \/ Restart \/ Quiescent \/ UNCHANGED vars
  <2>1. client' = client
    BY <1>4, Zenon DEF others, process, HerdrStep, OpenTab, RefuseTab, AttachAgent, RefuseAgent,
       AgentExits, Restart, Quiescent, vars
  <2> QED
    BY <1>same, <2>1
<1>5. Crash => Goal
  OBVIOUS
<1> HIDE DEF Goal
<1> QED
  BY <1>1, <1>2, <1>3, <1>4, <1>5 DEF Next

\* A row that exists goes on existing, and none becomes active again.
LEMMA RowsStay ==
  ASSUME TypeInv, [Next]_vars, NEW o \in Ops, Exists(o)
  PROVE  rows'[o].stage # "absent" /\ (rows'[o].stage \in ACTIVE_STAGES => Active(o))
<1>1. StageStep(o)
  BY StagesStep
<1> QED
  BY <1>1 DEF StageStep, Exists, Active, ACTIVE_STAGES

\* A cancel event is registered by its worker, set by a cancel, and dropped when
\* the worker or the process ends.
EventStep(o) ==
    \/ event'[o] = event[o]
    \/ /\ event[o] = "absent" /\ event'[o] = "clear" /\ Active(o)
       /\ \E w \in Threads : Load(w) /\ Op(w) = o
    \/ /\ event[o] # "absent" /\ event'[o] = "set"
       /\ \E c \in Clients : Signal(c) /\ client[c].op = o
    \/ event'[o] = "absent" /\ \E w \in Threads : Exit(w) /\ Op(w) = o
    \/ event'[o] = "absent" /\ Crash

\* _cancel_events is written by Load, Signal, Exit and a crash, each in its way.
LEMMA EventsStep ==
  ASSUME TypeInv, [Next]_vars, NEW o \in Ops
  PROVE  EventStep(o)
<1>t. Effects /\ event \in [Ops -> {"absent", "clear", "set"}]
  BY StepEffects DEF TypeInv, TypeOK
<1>1. ASSUME NEW w \in Threads, Load(w)
      PROVE  EventStep(o)
  <2>1. \/ event' = event
        \/ /\ Active(Op(w))
           /\ event' = [event EXCEPT ![Op(w)] = IF @ = "absent" THEN "clear" ELSE @]
    BY <1>1 DEF Load
  <2> QED
    BY <1>t, <1>1, <2>1 DEF EventStep
<1>2. ASSUME NEW w \in Threads, Exit(w)
      PROVE  EventStep(o)
  <2>1. event' = [event EXCEPT ![Op(w)] = "absent"]
    BY <1>2 DEF Exit
  <2> QED
    BY <1>t, <1>2, <2>1 DEF EventStep
<1>3. ASSUME NEW c \in Clients, Signal(c)
      PROVE  EventStep(o)
  <2>1. event' = [event EXCEPT ![client[c].op] = IF @ = "absent" THEN @ ELSE "set"]
    BY <1>3 DEF Signal
  <2> QED
    BY <1>t, <1>3, <2>1 DEF EventStep
<1>4. CASE Crash
  BY <1>4 DEF Crash, EventStep
<1>5. CASE event' = event
  BY <1>5 DEF EventStep
<1> QED
  BY <1>t, <1>1, <1>2, <1>3, <1>4, <1>5 DEF Effects

-----------------------------------------------------------------------------
(* The steps that do more to a frame than move it on.                       *)

\* A probe changes the frame of its worker alone: it now knows what the name
\* registry said, and nothing of a server that gave no answer.
LEMMA ProbeMoves ==
  ASSUME TypeInv, NEW w \in Threads, Probe(w)
  PROVE  /\ At(w, "probe") /\ Op(w) \in Ops /\ Op(w) # None
         /\ \A v \in Threads : v # w => worker'[v] = worker[v]
         /\ worker'[w].op = Op(w) /\ worker'[w].pc = "probed"
         /\ worker'[w].phase = worker[w].phase
         /\ worker'[w].seen = "found" => /\ agent[Op(w)] # None
                                         /\ worker'[w].pane = agent[Op(w)]
         /\ worker'[w].seen = "absent" => agent[Op(w)] = None
         /\ \A o \in unseen : o # Op(w) => o \in unseen'
         /\ UNCHANGED <<rows, marked, running, event, client, up, owner, agent, budget, ran,
                        missed>>
<1>1. At(w, "probe") /\ worker[w] \in Worker /\ Op(w) \in Ops /\ Op(w) # None
  BY OpTyped DEF Probe, At
<1>2. PICK a : /\ worker' = [worker EXCEPT
                     ![w].pc = "probed", ![w].seen = a,
                     ![w].pane = IF a = "found" THEN agent[Op(w)] ELSE None]
               /\ unseen' = IF a \in {"absent", "found"} THEN unseen \ {Op(w)} ELSE unseen
               /\ a = "found" => agent[Op(w)] # None
               /\ a = "absent" => agent[Op(w)] = None
  BY DEF Probe
<1> DEFINE pane == IF a = "found" THEN agent[Op(w)] ELSE None
           g == [worker[w] EXCEPT !.pc = "probed", !.seen = a, !.pane = pane]
<1>3. worker' = [worker EXCEPT ![w] = g]
  BY <1>2
<1>4. a = "found" => pane = agent[Op(w)]
  OBVIOUS
<1> HIDE DEF pane
<1>5. g.op = Op(w) /\ g.pc = "probed" /\ g.phase = worker[w].phase /\ g.seen = a /\ g.pane = pane
  BY <1>1 DEF Worker, Op
<1> HIDE DEF g
<1>6. worker'[w] = g /\ \A v \in Threads : v # w => worker'[v] = worker[v]
  BY <1>3 DEF TypeInv, TypeOK
<1>7. \A o \in unseen : o # Op(w) => o \in unseen'
  BY <1>2
<1>8. UNCHANGED <<rows, marked, running, event, client, up, owner, agent, budget, ran, missed>>
  BY DEF Probe, journal, herdr, others
<1> QED
  BY <1>1, <1>2, <1>4, <1>5, <1>6, <1>7, <1>8

\* An agent that starts does so in a tab of its operation, under a name that was
\* free; the worker that waited knows its pane, or knows nothing.
LEMMA AttachMoves ==
  ASSUME TypeInv, NEW q \in calls, AttachAgent(q)
  PROVE  LET o == owner[q.tab] IN
         /\ o \in Ops /\ q.tab \in Tabs /\ agent[o] = None
         /\ agent' = [agent EXCEPT ![o] = q.tab]
         /\ ran' = [ran EXCEPT ![o] = ran[o] \cup {q.tab}]
         /\ unseen \subseteq unseen'
         /\ \/ worker' = worker /\ o \in unseen'
            \/ \E w \in Threads :
                 /\ Op(w) = o /\ At(w, "starting")
                 /\ \A v \in Threads : v # w => worker'[v] = worker[v]
                 /\ worker'[w].op = o /\ worker'[w].pc = "replied"
                 /\ worker'[w].reply = "started" => worker'[w].pane = q.tab
         /\ UNCHANGED <<rows, marked, running, event, client, up, owner, budget, missed>>
<1> DEFINE o == owner[q.tab]
<1>1. q \in Call /\ q.tab \in Tabs /\ q.by \in Threads \cup {None} /\ o \in Ops
  BY DEF TypeInv, TypeOK, Call, CallsOK
<1>2. CASE q.by = None
  BY <1>1, <1>2 DEF AttachAgent, journal, others
<1>3. CASE q.by # None
  <2>1. PICK reply :
          worker' = [worker EXCEPT ![q.by].pc = "replied", ![q.by].reply = reply,
                       ![q.by].pane = IF reply = "started" THEN q.tab ELSE None]
    BY <1>3 DEF AttachAgent
  <2>2. worker[q.by] \in Worker /\ Op(q.by) = o /\ At(q.by, "starting")
    BY <1>1, <1>3 DEF TypeInv, TypeOK, CallsOK, Op, At, AttachAgent
  <2> DEFINE pane == IF reply = "started" THEN q.tab ELSE None
             g == [worker[q.by] EXCEPT !.pc = "replied", !.reply = reply, !.pane = pane]
  <2>3. worker' = [worker EXCEPT ![q.by] = g]
    BY <2>1
  <2>4. reply = "started" => pane = q.tab
    OBVIOUS
  <2> HIDE DEF pane
  <2>5. g.op = Op(q.by) /\ g.pc = "replied" /\ g.reply = reply /\ g.pane = pane
    BY <2>2 DEF Worker, Op
  <2> HIDE DEF g
  <2>6. worker'[q.by] = g /\ \A v \in Threads : v # q.by => worker'[v] = worker[v]
    BY <1>1, <1>3, <2>3 DEF TypeInv, TypeOK
  <2>7. \E w \in Threads :
          /\ Op(w) = o /\ At(w, "starting")
          /\ \A v \in Threads : v # w => worker'[v] = worker[v]
          /\ worker'[w].op = o /\ worker'[w].pc = "replied"
          /\ worker'[w].reply = "started" => worker'[w].pane = q.tab
    BY <1>1, <1>3, <2>2, <2>4, <2>5, <2>6
  <2>8. /\ agent[o] = None
        /\ agent' = [agent EXCEPT ![o] = q.tab] /\ ran' = [ran EXCEPT ![o] = ran[o] \cup {q.tab}]
        /\ unseen' = unseen
        /\ UNCHANGED <<rows, marked, running, event, client, up, owner, budget, missed>>
    BY <1>3 DEF AttachAgent, journal, others
  <2> QED
    BY <1>1, <2>7, <2>8
<1> QED
  BY <1>2, <1>3

\* A worker starts with its operation and nothing else.
LEMMA FreshFields ==
  ASSUME NEW o \in Ops
  PROVE  /\ FreshWorker(o).op = o /\ FreshWorker(o).pc = "load" /\ o # None
         /\ FreshWorker(o).phase = "first"
  BY ConstantsOK DEF FreshWorker, IdleWorker

\* Recovery starts one worker for each active row and none for another.
LEMMA RestartMoves ==
  ASSUME TypeInv, Restart
  PROVE  /\ \A w \in Threads : worker'[w] = IdleWorker
                               \/ \E o \in Ops : Active(o) /\ worker'[w] = FreshWorker(o)
         /\ \A o \in Ops : Active(o) => \E w \in Threads : worker'[w].op = o
         /\ \A v, w \in Threads : worker'[v].op = worker'[w].op /\ worker'[v].op # None => v = w
         /\ running' = Recovered
<1>1. PICK thread \in [Recovered -> Threads] :
        /\ \A o, p \in Recovered : thread[o] = thread[p] => o = p
        /\ worker' = [w \in Threads |->
             IF \E o \in Recovered : thread[o] = w
             THEN FreshWorker(CHOOSE o \in Recovered : thread[o] = w)
             ELSE IdleWorker]
  BY DEF Restart
<1>2. ASSUME NEW w \in Threads
      PROVE  \/ worker'[w] = IdleWorker /\ ~\E o \in Recovered : thread[o] = w
             \/ \E o \in Recovered : thread[o] = w /\ worker'[w] = FreshWorker(o)
  <2>1. CASE \E o \in Recovered : thread[o] = w
    <3> DEFINE p == CHOOSE o \in Recovered : thread[o] = w
    <3>1. p \in Recovered /\ thread[p] = w
      BY <2>1
    <3>2. worker'[w] = FreshWorker(p)
      BY <1>1, <2>1
    <3> QED
      BY <3>1, <3>2
  <2>2. CASE ~\E o \in Recovered : thread[o] = w
    BY <1>1, <2>2
  <2> QED
    BY <2>1, <2>2
<1>3. ASSUME NEW o \in Recovered
      PROVE  o \in Ops /\ Active(o) /\ thread[o] \in Threads
               /\ worker'[thread[o]] = FreshWorker(o) /\ FreshWorker(o).op = o
  BY <1>1, <1>2, FreshFields DEF Recovered
<1>4. \A o \in Ops : Active(o) => o \in Recovered
  BY DEF Recovered
<1>5. \A v, w \in Threads : worker'[v].op = worker'[w].op /\ worker'[v].op # None => v = w
  <2>1. \A v \in Threads : worker'[v].op # None =>
          \E o \in Recovered : thread[o] = v /\ worker'[v].op = o
    BY <1>2, <1>3, IdleTyped
  <2> QED
    BY <2>1
<1>6. running' = Recovered
  BY DEF Restart
<1> QED
  BY <1>2, <1>3, <1>4, <1>5, <1>6

\* A command, a crash and a recovery leave a frame alone, or idle, or fresh.
LEMMA WorkersBegin ==
  ASSUME TypeInv, (\E c \in Clients : Acknowledge(c)) \/ Crash \/ Restart, NEW w \in Threads
  PROVE  worker'[w] = worker[w] \/ worker'[w].pc \in {"idle", "load"}
<1>1. ASSUME NEW c \in Clients, Acknowledge(c)
      PROVE  worker'[w] = worker[w] \/ worker'[w].pc \in {"idle", "load"}
  <2>1. client[c].op \in Ops /\ worker \in [Threads -> Worker]
    BY <1>1 DEF Acknowledge, TypeInv, TypeOK, FramesOK, Client
  <2> QED
    BY <1>1, <2>1, FreshFields DEF Acknowledge, EnsureWorker
<1>2. CASE Crash
  BY <1>2, IdleTyped DEF Crash
<1>3. CASE Restart
  BY <1>3, IdleTyped, RestartMoves, FreshFields
<1> QED
  BY <1>1, <1>2, <1>3

\* What becomes of the operation of a worker.
LEMMA OpsStep ==
  ASSUME TypeInv, [Next]_vars
  PROVE  \/ \A v \in Threads : worker'[v].op = Op(v)
         \/ \E w \in Threads : Exit(w)
         \/ \E c \in Clients : Acknowledge(c)
         \/ Crash \/ Restart
<1>1. ASSUME NEW w \in Threads, MoveStep(w)
      PROVE  \A v \in Threads : worker'[v].op = Op(v)
  BY <1>1 DEF MoveStep, Moves, Op
<1>2. ASSUME NEW w \in Threads, Probe(w)
      PROVE  \A v \in Threads : worker'[v].op = Op(v)
  BY <1>2, ProbeMoves DEF Op
<1>3. ASSUME NEW q \in calls, AttachAgent(q)
      PROVE  \A v \in Threads : worker'[v].op = Op(v)
  BY <1>3, AttachMoves DEF Op
<1>4. CASE worker' = worker
  BY <1>4 DEF Op
<1> QED
  BY <1>1, <1>2, <1>3, <1>4, WorkersMove DEF WorkersStep

-----------------------------------------------------------------------------
(* One worker per operation.                                                *)

\* ensure_start adds a worker only where _running lists none, recovery only where
\* nothing runs, and _run_operation's finally takes out the worker that ends.
LEMMA SoleStep ==
  ASSUME TypeInv, SoleInv, [Next]_vars
  PROVE  SoleInv'
<1> USE DEF Op, At
<1>t. worker \in [Threads -> Worker] /\ faults \in Nat /\ Effects
  BY StepEffects DEF TypeInv, TypeOK
<1>1. CASE \E w \in Threads : Exit(w)
  <2>1. PICK w \in Threads : Exit(w)
    BY <1>1
  <2>2. /\ worker'[w] = IdleWorker /\ \A v \in Threads : v # w => worker'[v] = worker[v]
        /\ running' = running \ {worker[w].op} /\ faults' = faults /\ worker[w].op # None
    BY <1>t, <2>1, OpTyped DEF Exit, others, budget
  <2> QED
    BY <2>2, IdleTyped DEF SoleInv
<1>2. CASE \E c \in Clients : Acknowledge(c)
  <2>1. PICK c \in Clients : Acknowledge(c)
    BY <1>2
  <2>2. client[c].op \in Ops /\ faults' = faults
    BY <2>1 DEF Acknowledge, TypeInv, TypeOK, FramesOK, Client, budget
  <2>3. CASE UNCHANGED <<running, worker>>
    BY <2>2, <2>3 DEF SoleInv
  <2>4. CASE running' # running \/ worker' # worker
    <3>1. PICK w \in Threads :
            /\ client[c].op \notin running /\ running' = running \cup {client[c].op}
            /\ worker[w].pc = "idle"
            /\ worker' = [worker EXCEPT ![w] = FreshWorker(client[c].op)]
      BY <2>1, <2>4 DEF Acknowledge, EnsureWorker
    <3>2. worker[w].op = None
      BY <3>1 DEF TypeInv, FramesOK
    <3>3. /\ worker'[w].op = client[c].op
          /\ \A v \in Threads : v # w => worker'[v] = worker[v]
      BY <1>t, <2>2, <3>1, FreshFields
    <3>4. \A v \in Threads : v # w /\ worker'[v].op # None =>
            worker'[v].op \in running /\ worker'[v].op # worker'[w].op
      BY <3>1, <3>3 DEF SoleInv
    <3>5. \A u, v \in Threads : worker'[u].op = worker'[v].op /\ worker'[u].op # None => u = v
      <4> TAKE u, v \in Threads
      <4>1. CASE u # w /\ v # w
        BY <3>3, <4>1 DEF SoleInv
      <4>2. CASE u = w \/ v = w
        BY <3>4, <4>2
      <4> QED
        BY <4>1, <4>2
    <3>6. \A v \in Threads : worker'[v].op # None => worker'[v].op \in running'
      BY <3>1, <3>3, <3>4
    <3>7. faults' = 0 => \A o \in running' : \E v \in Threads : worker'[v].op = o
      <4> SUFFICES ASSUME faults' = 0, NEW o \in running'
                   PROVE  \E v \in Threads : worker'[v].op = o
        OBVIOUS
      <4>1. CASE o = client[c].op
        BY <3>3, <4>1
      <4>2. CASE o # client[c].op
        <5>1. PICK v \in Threads : worker[v].op = o
          BY <2>2, <3>1, <4>2 DEF SoleInv
        <5>2. v # w
          BY <3>1, <3>2, <4>2, <5>1, ConstantsOK DEF TypeInv, TypeOK
        <5> QED
          BY <3>3, <5>1, <5>2
      <4> QED
        BY <4>1, <4>2
    <3> QED
      BY <3>5, <3>6, <3>7 DEF SoleInv
  <2> QED
    BY <2>3, <2>4
<1>3. CASE Crash
  BY <1>3, IdleTyped DEF Crash, SoleInv
<1>4. CASE Restart
  <2>1. \A w \in Threads : worker'[w].op # None => worker'[w].op \in Recovered
    BY <1>4, RestartMoves, FreshFields, IdleTyped DEF Recovered
  <2>2. \A o \in Recovered : \E w \in Threads : worker'[w].op = o
    BY <1>4, RestartMoves DEF Recovered
  <2> QED
    BY <1>4, <2>1, <2>2, RestartMoves DEF SoleInv
<1>5. CASE \E c \in Clients : CommandRaises(c)
  <2>1. worker' = worker /\ running \subseteq running' /\ faults' # 0
    BY <1>t, <1>5 DEF CommandRaises
  <2> QED
    BY <2>1 DEF SoleInv
<1>6. CASE running' = running /\ \A v \in Threads : worker'[v].op = Op(v)
  BY <1>t, <1>6 DEF SoleInv, Effects
<1> QED
  BY <1>t, <1>1, <1>2, <1>3, <1>4, <1>5, <1>6, OpsStep DEF Effects

-----------------------------------------------------------------------------
(* Sessions are real.                                                       *)

\* A pane comes from the reply of the agent's start or from a probe that saw the
\* agent; the last write of a worker names that pane and follows the mark.
LEMMA RealStep ==
  ASSUME TypeInv, RealInv, [Next]_vars
  PROVE  RealInv'
<1>t. /\ Effects /\ WorkersStep
      /\ owner \in [Tabs -> Ops \cup {None}] /\ ran \in [Ops -> SUBSET Tabs]
      /\ agent \in [Ops -> Tabs \cup {None}] /\ worker \in [Threads -> Worker]
  BY StepEffects, WorkersMove DEF TypeInv, TypeOK
<1>1. \A o \in Ops : ran[o] \subseteq ran'[o]
  <2>1. ASSUME NEW q \in calls, AttachAgent(q)
        PROVE  \A o \in Ops : ran[o] \subseteq ran'[o]
    BY <1>t, <2>1, AttachMoves
  <2> QED
    BY <1>t, <2>1 DEF Effects
<1>2. \A o \in Ops : \A t \in ran'[o] : owner'[t] = o
  <2>1. \A o \in Ops : \A t \in ran'[o] : owner[t] = o
    <3>1. ASSUME NEW q \in calls, AttachAgent(q)
          PROVE  \A o \in Ops : \A t \in ran'[o] : owner[t] = o
      BY <1>t, <3>1, AttachMoves DEF RealInv
    <3> QED
      BY <1>t, <3>1 DEF Effects, RealInv
  <2>2. \A t \in Tabs : owner[t] # None => owner'[t] = owner[t]
    <3>1. ASSUME NEW w \in Threads, CreateTab(w)
          PROVE  \A t \in Tabs : owner[t] # None => owner'[t] = owner[t]
      BY <1>t, <3>1 DEF CreateTab
    <3> QED
      BY <1>t, <3>1 DEF Effects
  <2>3. \A o \in Ops : ran'[o] \subseteq Tabs
    <3>1. ASSUME NEW q \in calls, AttachAgent(q)
          PROVE  \A o \in Ops : ran'[o] \subseteq Tabs
      BY <1>t, <3>1, AttachMoves
    <3> QED
      BY <1>t, <3>1 DEF Effects
  <2> QED
    BY <2>1, <2>2, <2>3, ConstantsOK
<1>3. \A o \in Ops : agent'[o] # None => agent'[o] \in ran'[o]
  <2>1. ASSUME NEW q \in calls, AttachAgent(q)
        PROVE  \A o \in Ops : agent'[o] # None => agent'[o] \in ran'[o]
    BY <1>t, <2>1, AttachMoves DEF RealInv
  <2>2. CASE ran' = ran /\ \A o \in Ops : agent'[o] \in {agent[o], None}
    BY <2>2 DEF RealInv
  <2> QED
    BY <1>t, <2>1, <2>2 DEF Effects
<1>kept. ASSUME NEW w \in Threads, worker'[w] = worker[w]
         PROVE  /\ Resolved(worker'[w]) => worker'[w].pane \in ran'[worker'[w].op]
                /\ worker'[w].pc = "finish" => worker'[w].op \in marked'
  <2>1. worker[w].op \in Ops \/ worker[w].pc = "idle"
    BY OpTyped DEF At, Op
  <2> QED
    BY <1>t, <1>1, <1>kept, <2>1 DEF RealInv, Effects, Op, Resolved
<1>4. ASSUME NEW w \in Threads
      PROVE  /\ Resolved(worker'[w]) => worker'[w].pane \in ran'[worker'[w].op]
             /\ worker'[w].pc = "finish" => worker'[w].op \in marked'
  <2>1. ASSUME NEW v \in Threads, MoveStep(v)
        PROVE  /\ Resolved(worker'[w]) => worker'[w].pane \in ran'[worker'[w].op]
               /\ worker'[w].pc = "finish" => worker'[w].op \in marked'
    <3>1. CASE v = w
      <4>1. Op(w) \in Ops
        BY <2>1, <3>1, OpTyped DEF MoveStep, Moves, At
      <4> QED
        BY <1>1, <2>1, <3>1, <4>1 DEF MoveStep, Moves, RealInv, Op
    <3>2. CASE v # w
      BY <1>kept, <2>1, <3>2 DEF MoveStep
    <3> QED
      BY <3>1, <3>2
  <2>2. ASSUME NEW v \in Threads, Probe(v)
        PROVE  /\ Resolved(worker'[w]) => worker'[w].pane \in ran'[worker'[w].op]
               /\ worker'[w].pc = "finish" => worker'[w].op \in marked'
    <3>1. CASE v = w
      BY <2>2, <3>1, ProbeMoves DEF RealInv, Resolved
    <3>2. CASE v # w
      BY <1>kept, <2>2, <3>2, ProbeMoves
    <3> QED
      BY <3>1, <3>2
  <2>3. ASSUME NEW v \in Threads, Exit(v)
        PROVE  /\ Resolved(worker'[w]) => worker'[w].pane \in ran'[worker'[w].op]
               /\ worker'[w].pc = "finish" => worker'[w].op \in marked'
    <3>1. worker'[v] = IdleWorker /\ \A u \in Threads : u # v => worker'[u] = worker[u]
      BY <1>t, <2>3 DEF Exit
    <3> QED
      BY <1>kept, <3>1, IdleTyped DEF Resolved
  <2>4. ASSUME NEW q \in calls, AttachAgent(q)
        PROVE  /\ Resolved(worker'[w]) => worker'[w].pane \in ran'[worker'[w].op]
               /\ worker'[w].pc = "finish" => worker'[w].op \in marked'
    <3>1. CASE worker'[w] = worker[w]
      BY <1>kept, <3>1
    <3>2. CASE worker'[w] # worker[w]
      <4>1. /\ worker'[w].op = owner[q.tab] /\ worker'[w].pc = "replied"
            /\ worker'[w].reply = "started" => worker'[w].pane = q.tab
            /\ q.tab \in ran'[owner[q.tab]]
        BY <1>t, <2>4, <3>2, AttachMoves
      <4> QED
        BY <4>1 DEF Resolved
    <3> QED
      BY <3>1, <3>2
  <2>5. CASE (\E c \in Clients : Acknowledge(c)) \/ Crash \/ Restart
    <3>1. worker'[w] = worker[w] \/ worker'[w].pc \in {"idle", "load"}
      BY <2>5, WorkersBegin
    <3> QED
      BY <1>kept, <3>1 DEF Resolved
  <2>6. CASE worker' = worker
    BY <1>kept, <2>6
  <2> QED
    BY <1>t, <2>1, <2>2, <2>3, <2>4, <2>5, <2>6 DEF WorkersStep
<1>5. ASSUME NEW o \in Ops, rows'[o].stage = "started"
      PROVE  rows'[o].session \in ran'[o] /\ o \in marked'
  <2>1. CASE rows'[o] = rows[o]
    BY <1>t, <1>1, <1>5, <2>1 DEF RealInv, StartedSessionIsReal, Effects
  <2>2. CASE rows'[o] # rows[o]
    <3>1. PICK w \in Threads :
            /\ Finish(w) /\ Op(w) = o
            /\ worker[w].pane # None => rows'[o].session = worker[w].pane
      <4>1. StageStep(o)
        BY StagesStep
      <4> QED
        BY <1>5, <2>2, <4>1 DEF StageStep, ACTIVE_STAGES
    <3>2. worker[w].pc = "finish"
      BY <3>1 DEF Finish, At
    <3>3. worker[w].pane \in ran[o] /\ o \in marked
      BY <3>1, <3>2 DEF RealInv, Resolved
    <3>4. worker[w].pane # None
      BY <1>t, <3>3, ConstantsOK
    <3> QED
      BY <1>t, <1>1, <3>1, <3>3, <3>4 DEF Effects
  <2> QED
    BY <2>1, <2>2
<1> QED
  BY <1>2, <1>3, <1>4, <1>5 DEF RealInv, StartedSessionIsReal, Op

-----------------------------------------------------------------------------
(* No second agent.                                                         *)

\* A worker passes the gate on a probe that saw no agent; an agent that runs
\* afterwards is the worker's own or was started by an orphaned call.
LEMMA GateStep ==
  ASSUME TypeInv, SoleInv, GateInv, [Next]_vars
  PROVE  GateInv'
<1>t. /\ Effects /\ WorkersStep
      /\ agent \in [Ops -> Tabs \cup {None}] /\ worker \in [Threads -> Worker]
  BY StepEffects, WorkersMove DEF TypeInv, TypeOK
<1> SUFFICES ASSUME NEW w \in Threads, Cleared(worker'[w]), agent'[worker'[w].op] # None
             PROVE  worker'[w].op \in unseen'
  BY DEF GateInv, Op
<1>1. ASSUME NEW q \in calls, AttachAgent(q)
      PROVE  worker'[w].op \in unseen'
  <2> DEFINE o == owner[q.tab]
  <2>1. worker'[w] = worker[w]
    BY <1>1, AttachMoves DEF Cleared
  <2>2. worker[w].op # None
    BY <2>1 DEF Cleared, TypeInv, FramesOK
  <2>3. CASE worker[w].op = o
    <3>1. CASE worker' = worker /\ o \in unseen'
      BY <2>1, <2>3, <3>1
    <3>2. CASE worker' # worker \/ o \notin unseen'
      <4>1. PICK v \in Threads : Op(v) = o /\ worker'[v].pc = "replied"
        BY <1>1, <3>2, AttachMoves
      <4>2. v = w
        BY <2>2, <2>3, <4>1 DEF SoleInv, Op
      <4> QED
        BY <4>1, <4>2 DEF Cleared
    <3> QED
      BY <3>1, <3>2
  <2>4. CASE worker[w].op # o
    <3>1. worker[w].op \in Ops
      BY <1>t, <2>2 DEF Worker
    <3>2. agent[worker[w].op] # None
      BY <1>1, <1>t, <2>1, <2>4, <3>1, AttachMoves
    <3>3. worker[w].op \in unseen
      BY <2>1, <3>2 DEF GateInv, Op
    <3> QED
      BY <1>1, <2>1, <3>3, AttachMoves
  <2> QED
    BY <2>3, <2>4
<1>old. ASSUME NEW o \in Ops, agent'[o] # None, ~\E q \in calls : AttachAgent(q)
        PROVE  agent[o] # None /\ (unseen' = unseen \/ \E v \in Threads : Probe(v))
  BY <1>t, <1>old DEF Effects
<1>2. ASSUME NEW v \in Threads, Probe(v)
      PROVE  worker'[w].op \in unseen'
  <2>1. /\ Op(v) # None /\ Op(v) \in Ops /\ UNCHANGED agent
        /\ worker'[v].op = Op(v) /\ worker'[v].pc = "probed"
        /\ worker'[v].seen = "absent" => agent[Op(v)] = None
        /\ \A o \in unseen : o # Op(v) => o \in unseen'
        /\ \A u \in Threads : u # v => worker'[u] = worker[u]
    BY <1>2, ProbeMoves
  <2>2. w # v
    BY <2>1 DEF Cleared
  <2>3. worker[w].op # Op(v)
    BY <2>1, <2>2 DEF SoleInv, Op
  <2>4. worker[w].op \in unseen
    BY <2>1, <2>2 DEF GateInv, Op
  <2> QED
    BY <2>1, <2>2, <2>3, <2>4
<1>3. CASE /\ ~\E q \in calls : AttachAgent(q)
           /\ ~\E v \in Threads : Probe(v)
  <2>1. /\ Cleared(worker[w]) /\ worker'[w].op = worker[w].op /\ worker[w].op \in Ops
    <3>1. ASSUME NEW v \in Threads, MoveStep(v)
          PROVE  Cleared(worker[w]) /\ worker'[w].op = worker[w].op
      BY <3>1 DEF MoveStep, Moves, Op
    <3>2. ASSUME NEW v \in Threads, Exit(v)
          PROVE  Cleared(worker[w]) /\ worker'[w].op = worker[w].op
      <4>1. worker'[v] = IdleWorker /\ \A u \in Threads : u # v => worker'[u] = worker[u]
        BY <1>t, <3>2 DEF Exit
      <4> QED
        BY <4>1, IdleTyped DEF Cleared
    <3>3. ASSUME (\E c \in Clients : Acknowledge(c)) \/ Crash \/ Restart
          PROVE  Cleared(worker[w]) /\ worker'[w].op = worker[w].op
      <4>1. worker'[w].pc \notin {"idle", "load"}
        BY DEF Cleared
      <4>2. worker'[w] = worker[w]
        BY <3>3, <4>1, WorkersBegin
      <4> QED
        BY <4>2
    <3>4. Cleared(worker[w]) /\ worker'[w].op = worker[w].op
      BY <1>t, <1>3, <3>1, <3>2, <3>3 DEF WorkersStep
    <3>5. worker[w].op \in Ops
      BY <1>t, <3>4 DEF Cleared, TypeInv, FramesOK, Worker
    <3> QED
      BY <3>4, <3>5
  <2> QED
    BY <1>3, <1>old, <2>1 DEF GateInv, Op
<1> QED
  BY <1>1, <1>2, <1>3

-----------------------------------------------------------------------------
(* Workers, commands, events and tabs belong to operations of the journal.  *)

\* A worker keeps its operation until it ends.
LEMMA WorkersStay ==
  ASSUME TypeInv, [Next]_vars, NEW w \in Threads, Op(w) # None
  PROVE  \/ worker'[w].op = Op(w)
         \/ Exit(w) \/ Crash
<1>t. worker \in [Threads -> Worker]
  BY DEF TypeInv, TypeOK
<1>1. ASSUME NEW v \in Threads, Exit(v), v # w
      PROVE  worker'[w].op = Op(w)
  BY <1>t, <1>1 DEF Exit, Op
<1>2. ASSUME NEW c \in Clients, Acknowledge(c)
      PROVE  worker'[w].op = Op(w)
  <2>1. \A v \in Threads : worker[v].pc = "idle" => v # w
    BY DEF TypeInv, FramesOK, Op
  <2> QED
    BY <1>t, <1>2, <2>1 DEF Acknowledge, EnsureWorker, Op, At
<1>3. ~Restart
  <2>1. worker[w].pc # "idle"
    BY DEF TypeInv, FramesOK, Op
  <2> QED
    BY <2>1 DEF Restart, TypeInv, FramesOK
<1> QED
  BY <1>1, <1>2, <1>3, OpsStep

\* A worker has its operation from before, from a command or from the journal.
LEMMA WorkersFrom ==
  ASSUME TypeInv, [Next]_vars, NEW w \in Threads, worker'[w].op # None
  PROVE  \/ worker'[w].op = Op(w)
         \/ /\ worker'[w].pc = "load"
            /\ \E c \in Clients : /\ Acknowledge(c) /\ client[c].op = worker'[w].op
                                  /\ client[c].op \notin running
         \/ worker'[w].op \in Ops /\ Active(worker'[w].op) /\ Restart
<1>t. worker \in [Threads -> Worker]
  BY DEF TypeInv, TypeOK
<1>1. ASSUME NEW v \in Threads, Exit(v)
      PROVE  worker'[w].op = Op(w)
  BY <1>t, <1>1, IdleTyped DEF Exit, Op
<1>2. ASSUME NEW c \in Clients, Acknowledge(c), worker'[w].op # Op(w)
      PROVE  /\ worker'[w].pc = "load" /\ client[c].op = worker'[w].op
             /\ client[c].op \notin running
  <2>1. client[c].op \in Ops
    BY <1>2 DEF Acknowledge, TypeInv, TypeOK, FramesOK, Client
  <2> QED
    BY <1>t, <1>2, <2>1, FreshFields DEF Acknowledge, EnsureWorker, Op
<1>3. CASE Crash
  BY <1>3, IdleTyped DEF Crash
<1>4. CASE Restart
  <2>1. PICK o \in Ops : Active(o) /\ worker'[w] = FreshWorker(o)
    BY <1>4, IdleTyped, RestartMoves
  <2> QED
    BY <1>4, <2>1, FreshFields
<1> QED
  BY <1>1, <1>2, <1>3, <1>4, OpsStep

\* Workers, commands, events and tabs come after the row of their operation,
\* and rows are never deleted.
LEMMA RootedStep ==
  ASSUME TypeInv, RootedInv, [Next]_vars
  PROVE  RootedInv'
<1>t. /\ Effects /\ owner \in [Tabs -> Ops \cup {None}] /\ worker \in [Threads -> Worker]
      /\ client \in [Clients -> Client]
  BY StepEffects DEF TypeInv, TypeOK
<1>op. \A w \in Threads : Op(w) \in Ops \cup {None}
  BY <1>t DEF Worker, Op
<1>cl. \A c \in Clients : client[c].op \in Ops \cup {None}
  BY <1>t DEF Client
<1>stay. \A o \in Ops : Exists(o) => rows'[o].stage # "absent"
  BY RowsStay
<1>1. ASSUME NEW w \in Threads, worker'[w].op # None
      PROVE  rows'[worker'[w].op].stage # "absent"
  <2>1. CASE worker'[w].op = Op(w)
    BY <1>1, <1>op, <1>stay, <2>1 DEF RootedInv
  <2>2. CASE \E c \in Clients : Acknowledge(c) /\ client[c].op = worker'[w].op
    BY <1>1, <1>cl, <1>stay, <2>2 DEF RootedInv, Acknowledge
  <2>3. CASE worker'[w].op \in Ops /\ Active(worker'[w].op)
    BY <1>stay, <2>3 DEF Active, Exists, ACTIVE_STAGES
  <2> QED
    BY <1>1, <2>1, <2>2, <2>3, WorkersFrom
<1>2. ASSUME NEW c \in Clients, client'[c].pc \in {"ensure", "signal", "withdraw"}
      PROVE  rows'[client'[c].op].stage # "absent"
  <2>1. CommandStep(c)
    BY CommandsStep
  <2>2. CASE client'[c] = client[c]
    <3>1. client[c].op \in Ops
      BY <1>2, <1>cl, <2>2 DEF TypeInv, FramesOK
    <3> QED
      BY <1>2, <1>stay, <2>2, <3>1 DEF RootedInv
  <2>3. CASE client'[c].pc = "withdraw" /\ client'[c].op = client[c].op /\ Signal(c)
    <3>1. client[c].op \in Ops /\ client[c].pc = "signal"
      BY <1>cl, <2>3 DEF TypeInv, FramesOK, Signal
    <3> QED
      BY <1>stay, <2>3, <3>1 DEF RootedInv
  <2> QED
    BY <1>2, <2>1, <2>2, <2>3 DEF CommandStep, Exists
<1>3. ASSUME NEW o \in Ops, event'[o] # "absent"
      PROVE  rows'[o].stage # "absent"
  <2>1. EventStep(o)
    BY EventsStep
  <2>2. Exists(o)
    BY <1>3, <2>1 DEF EventStep, RootedInv, Active, Exists, ACTIVE_STAGES
  <2> QED
    BY <1>stay, <2>2
<1>4. ASSUME NEW t \in Tabs, owner'[t] # None
      PROVE  rows'[owner'[t]].stage # "absent"
  <2>1. CASE owner'[t] = owner[t]
    BY <1>t, <1>4, <1>stay, <2>1 DEF RootedInv
  <2>2. CASE owner'[t] # owner[t]
    <3>1. PICK w \in Threads : CreateTab(w)
      BY <1>t, <2>2 DEF Effects
    <3>2. owner'[t] = Op(w)
      BY <1>t, <2>2, <3>1 DEF CreateTab
    <3> QED
      BY <1>4, <1>op, <1>stay, <3>2 DEF RootedInv
  <2> QED
    BY <2>1, <2>2
<1> QED
  BY <1>1, <1>2, <1>3, <1>4 DEF RootedInv, Op, Exists

-----------------------------------------------------------------------------
(* Cancels.                                                                 *)

\* A frame holds an event it held before, or has just registered one.
LEMMA SignalableStep ==
  ASSUME TypeInv, [Next]_vars, NEW w \in Threads, Signalable(worker'[w])
  PROVE  /\ worker'[w].op = Op(w) /\ Op(w) \in Ops
         /\ Signalable(worker[w]) \/ event'[Op(w)] # "absent"
<1>t. worker \in [Threads -> Worker] /\ WorkersStep
  BY WorkersMove DEF TypeInv, TypeOK
<1>same. ASSUME worker'[w] = worker[w]
         PROVE  worker'[w].op = Op(w) /\ Signalable(worker[w])
  BY <1>same DEF Op
<1>1. ASSUME NEW v \in Threads, MoveStep(v)
      PROVE  worker'[w].op = Op(w) /\ (Signalable(worker[w]) \/ event'[Op(w)] # "absent")
  BY <1>1, <1>same DEF MoveStep, Moves, Op, At
<1>2. ASSUME NEW v \in Threads, Probe(v)
      PROVE  worker'[w].op = Op(w) /\ Signalable(worker[w])
  BY <1>2, <1>same, ProbeMoves DEF At, Signalable
<1>3. ASSUME NEW v \in Threads, Exit(v)
      PROVE  worker'[w].op = Op(w) /\ Signalable(worker[w])
  <2>1. worker'[v] = IdleWorker /\ \A u \in Threads : u # v => worker'[u] = worker[u]
    BY <1>t, <1>3 DEF Exit
  <2> QED
    BY <1>same, <2>1, IdleTyped DEF Signalable
<1>4. ASSUME NEW q \in calls, AttachAgent(q)
      PROVE  worker'[w].op = Op(w) /\ Signalable(worker[w])
  <2>1. CASE worker'[w] = worker[w]
    BY <1>same, <2>1
  <2>2. CASE worker'[w] # worker[w]
    BY <1>4, <2>2, AttachMoves DEF At, Signalable
  <2> QED
    BY <2>1, <2>2
<1>5. CASE (\E c \in Clients : Acknowledge(c)) \/ Crash \/ Restart
  <2>1. worker'[w].pc \notin {"idle", "load"}
    BY DEF Signalable
  <2>2. worker'[w] = worker[w]
    BY <1>5, <2>1, WorkersBegin
  <2>3. Op(w) \in Ops
    BY <2>1, <2>2, OpTyped DEF At
  <2> QED
    BY <1>same, <2>2, <2>3
<1>6. worker'[w].op = Op(w) /\ (Signalable(worker[w]) \/ event'[Op(w)] # "absent")
  BY <1>t, <1>1, <1>2, <1>3, <1>4, <1>5, <1>same DEF WorkersStep
<1>7. Op(w) \in Ops
  <2>1. CASE worker[w].pc = "idle"
    <3>1. ~Signalable(worker[w]) /\ Op(w) = None
      BY <2>1 DEF Signalable, TypeInv, FramesOK, Op
    <3>2. ASSUME NEW v \in Threads, MoveStep(v)
          PROVE  FALSE
      BY <1>same, <2>1, <3>1, <3>2 DEF MoveStep, Moves
    <3> QED
      BY <1>t, <1>2, <1>3, <1>4, <1>5, <1>same, <3>1, <3>2, ConstantsOK DEF WorkersStep
  <2>2. CASE worker[w].pc # "idle"
    BY <2>2, OpTyped DEF At
  <2> QED
    BY <2>1, <2>2
<1> QED
  BY <1>6, <1>7

\* A cancel sets the event it finds; one that finds none is noted as missed
\* unless the row is settled, and no other event is registered for a settled row.
LEMMA CancelStep ==
  ASSUME TypeInv, SoleInv, RootedInv, CancelInv, [Next]_vars
  PROVE  CancelInv'
<1>t. /\ Effects /\ worker \in [Threads -> Worker] /\ client \in [Clients -> Client]
  BY StepEffects DEF TypeInv, TypeOK
<1>1. ASSUME ~up', NEW o \in Ops
      PROVE  event'[o] = "absent"
  <2>1. CASE Crash
    BY <2>1 DEF Crash
  <2>2. CASE ~Crash
    <3>1. ~up
      BY <1>t, <1>1, <2>2 DEF Effects, Restart
    <3>2. event[o] = "absent"
      BY <3>1 DEF CancelInv
    <3>3. \A w \in Threads : ~Load(w)
      BY <3>1 DEF TypeInv, FramesOK, Load, At
    <3>4. EventStep(o)
      BY EventsStep
    <3> QED
      BY <3>2, <3>3, <3>4 DEF EventStep
  <2> QED
    BY <2>1, <2>2
<1>2. ASSUME NEW w \in Threads, Signalable(worker'[w])
      PROVE  event'[worker'[w].op] # "absent"
  <2>1. /\ worker'[w].op = Op(w) /\ Op(w) \in Ops
        /\ Signalable(worker[w]) \/ event'[Op(w)] # "absent"
    BY <1>2, SignalableStep
  <2>2. SUFFICES ASSUME Signalable(worker[w]), event'[Op(w)] = "absent"
                 PROVE  FALSE
    BY <2>1
  <2>3. event[Op(w)] # "absent"
    BY <2>2 DEF CancelInv
  <2>4. ASSUME NEW v \in Threads, Exit(v), Op(v) = Op(w)
        PROVE  FALSE
    <3>1. v = w
      BY <2>1, <2>4, ConstantsOK DEF SoleInv
    <3>2. worker'[w] = IdleWorker
      BY <1>t, <2>4, <3>1 DEF Exit
    <3> QED
      BY <1>2, <3>2, IdleTyped DEF Signalable
  <2>5. CASE Crash
    BY <1>2, <2>5, IdleTyped DEF Crash, Signalable
  <2>6. EventStep(Op(w))
    BY <2>1, EventsStep
  <2> QED
    BY <2>2, <2>3, <2>4, <2>5, <2>6 DEF EventStep
<1>3. ASSUME NEW o \in Ops, NEW c \in Clients, client'[c].op = o, client'[c].pc = "withdraw",
             rows'[o].stage \in ACTIVE_STAGES
      PROVE  event'[o] = "set" \/ o \in missed'
  <2>1. CommandStep(c) /\ EventStep(o)
    BY CommandsStep, EventsStep
  <2>2. CASE client'[c] = client[c]
    <3>1. Exists(o)
      BY <1>3, <2>2 DEF RootedInv
    <3>2. Active(o)
      BY <1>3, <3>1, RowsStay
    <3>3. event[o] = "set" \/ o \in missed
      BY <1>3, <2>2, <3>2 DEF CancelInv, Withdrawing
    <3>4. ASSUME NEW w \in Threads, Exit(w), Op(w) = o, event[o] = "set"
          PROVE  o \in missed'
      BY <3>2, <3>4 DEF Exit
    <3>5. CASE Crash
      BY <1>3, <3>5, IdleTyped DEF Crash
    <3> QED
      BY <1>t, <2>1, <3>3, <3>4, <3>5 DEF EventStep, Effects
  <2>3. CASE client'[c].op = client[c].op /\ Signal(c)
    <3>1. event \in [Ops -> {"absent", "clear", "set"}]
      BY DEF TypeInv, TypeOK
    <3> QED
      BY <1>3, <2>3, <3>1 DEF Signal
  <2> QED
    BY <1>3, <2>1, <2>2, <2>3 DEF CommandStep
<1>4. ASSUME NEW o \in Ops, rows'[o].stage = "cancelled", event'[o] = "clear"
      PROVE  o \in missed'
  <2>1. EventStep(o) /\ StageStep(o)
    BY EventsStep, StagesStep
  <2>2. event[o] = "clear" \/ Active(o)
    BY <1>4, <2>1 DEF EventStep
  <2>3. CASE rows'[o] = rows[o]
    <3>1. event[o] = "clear"
      BY <1>4, <2>2, <2>3 DEF Active, ACTIVE_STAGES
    <3> QED
      BY <1>t, <1>4, <2>3, <3>1 DEF CancelInv, Effects
  <2>4. CASE Active(o) /\ \E c \in Clients : Withdraw(c) /\ client[c].op = o
    <3>1. Withdrawing(o) /\ UNCHANGED event
      BY <2>4 DEF Withdrawing, Withdraw
    <3> QED
      BY <1>t, <1>4, <2>4, <3>1 DEF CancelInv, Effects
  <2> QED
    BY <1>4, <2>1, <2>3, <2>4 DEF StageStep, ACTIVE_STAGES
<1>5. \A o \in Ops : Withdrawing(o)' => event'[o] = "set" \/ o \in missed'
                                         \/ rows'[o].stage \notin ACTIVE_STAGES
  BY <1>3 DEF Withdrawing
<1> QED
  BY <1>1, <1>2, <1>4, <1>5 DEF CancelInv, Active, Op

-----------------------------------------------------------------------------
(* Active rows are looked after.                                            *)

\* A frame that leaves did so before, or has just seen a cancel or a settled row.
LEMMA LeavingStep ==
  ASSUME TypeInv, [Next]_vars, NEW w \in Threads, Leaving(worker'[w])
  PROVE  /\ worker'[w].op = Op(w) /\ Op(w) \in Ops
         /\ \/ Leaving(worker[w]) \/ event[Op(w)] = "set"
            \/ rows'[Op(w)].stage \notin ACTIVE_STAGES \/ faults' # 0
<1> DEFINE Goal == \/ Leaving(worker[w]) \/ event[Op(w)] = "set"
                   \/ rows'[Op(w)].stage \notin ACTIVE_STAGES \/ faults' # 0
<1>t. worker \in [Threads -> Worker] /\ WorkersStep
  BY WorkersMove DEF TypeInv, TypeOK
<1>same. ASSUME worker'[w] = worker[w]
         PROVE  worker'[w].op = Op(w) /\ Op(w) \in Ops /\ Goal
  <2>1. worker[w].pc # "idle"
    BY <1>same DEF Leaving
  <2> QED
    BY <1>same, <2>1, OpTyped DEF Op, At
<1>1. ASSUME NEW v \in Threads, MoveStep(v)
      PROVE  worker'[w].op = Op(w) /\ Op(w) \in Ops /\ Goal
  <2>1. CASE v = w
    <3>1. Op(w) \in Ops
      BY <1>1, <2>1, OpTyped DEF MoveStep, Moves, At
    <3> QED
      BY <1>1, <2>1, <3>1 DEF MoveStep, Moves, Op
  <2>2. CASE v # w
    BY <1>1, <1>same, <2>2 DEF MoveStep
  <2> QED
    BY <2>1, <2>2
<1> HIDE DEF Goal
<1>2. ASSUME NEW v \in Threads, Probe(v)
      PROVE  worker'[w].op = Op(w) /\ Op(w) \in Ops /\ Goal
  BY <1>2, <1>same, ProbeMoves DEF Leaving
<1>3. ASSUME NEW v \in Threads, Exit(v)
      PROVE  worker'[w].op = Op(w) /\ Op(w) \in Ops /\ Goal
  <2>1. worker'[v] = IdleWorker /\ \A u \in Threads : u # v => worker'[u] = worker[u]
    BY <1>t, <1>3 DEF Exit
  <2> QED
    BY <1>same, <2>1, IdleTyped DEF Leaving
<1>4. ASSUME NEW q \in calls, AttachAgent(q)
      PROVE  worker'[w].op = Op(w) /\ Op(w) \in Ops /\ Goal
  BY <1>4, <1>same, AttachMoves DEF Leaving
<1>5. CASE (\E c \in Clients : Acknowledge(c)) \/ Crash \/ Restart
  <2>1. worker'[w].pc \notin {"idle", "load"}
    BY DEF Leaving
  <2>2. worker'[w] = worker[w]
    BY <1>5, <2>1, WorkersBegin
  <2> QED
    BY <1>same, <2>2 DEF Goal
<1>6. worker'[w].op = Op(w) /\ Op(w) \in Ops /\ Goal
  BY <1>t, <1>1, <1>2, <1>3, <1>4, <1>5, <1>same DEF WorkersStep, Goal
<1> QED
  BY <1>6 DEF Goal

\* A cancel event that is set stays so until its worker or the process ends.
LEMMA SetStays ==
  ASSUME TypeInv, SoleInv, [Next]_vars, NEW w \in Threads, Op(w) \in Ops,
         event[Op(w)] = "set", worker'[w].op = Op(w)
  PROVE  event'[Op(w)] = "set"
<1>t. worker \in [Threads -> Worker]
  BY DEF TypeInv, TypeOK
<1>1. ASSUME NEW v \in Threads, Exit(v), Op(v) = Op(w)
      PROVE  FALSE
  <2>1. v = w
    BY <1>1, ConstantsOK DEF SoleInv
  <2>2. worker'[w] = IdleWorker
    BY <1>t, <1>1, <2>1 DEF Exit
  <2> QED
    BY <2>2, IdleTyped, ConstantsOK
<1>2. ~Crash
  BY IdleTyped, ConstantsOK DEF Crash
<1>3. EventStep(Op(w))
  BY EventsStep
<1> QED
  BY <1>1, <1>2, <1>3 DEF EventStep

\* Who takes up an active row hands it on: the command to the worker it starts,
\* the worker that is signalled to the cancel that signalled it.
LEMMA CareStep ==
  ASSUME TypeInv, SoleInv, RootedInv, CareInv, [Next]_vars
  PROVE  CareInv'
<1>t. /\ Effects /\ worker \in [Threads -> Worker] /\ client \in [Clients -> Client]
      /\ rows \in [Ops -> Row] /\ faults \in Nat
      /\ event \in [Ops -> {"absent", "clear", "set"}]
  BY StepEffects DEF TypeInv, TypeOK
<1>op. \A c \in Clients : client[c].pc \in {"ensure", "withdraw"} => client[c].op \in Ops
  BY <1>t DEF Client, TypeInv, FramesOK
<1>wd. ASSUME NEW c \in Clients, Withdraw(c)
       PROVE  rows'[client[c].op].stage \notin ACTIVE_STAGES
  <2>1. client[c].op \in Ops
    BY <1>op, <1>wd DEF Withdraw
  <2>2. \A row \in Row : Withdrawn(row).stage \notin ACTIVE_STAGES
    BY DEF Withdrawn, Row, ACTIVE_STAGES
  <2>3. rows'[client[c].op] = Withdrawn(rows[client[c].op]) /\ rows[client[c].op] \in Row
    BY <1>t, <1>wd, <2>1 DEF Withdraw
  <2> QED
    BY <2>2, <2>3
<1>cr. ASSUME NEW c \in Clients, CommandRaises(c)
       PROVE  faults' # 0
  BY <1>t, <1>cr DEF CommandRaises
<1>stays. ASSUME NEW o \in Ops, NEW c \in Clients, client[c].op = o,
                 client[c].pc = "withdraw", rows'[o].stage \in ACTIVE_STAGES, faults' = 0,
                 ~Crash
          PROVE  client'[c] = client[c]
  BY <1>cr, <1>stays, <1>wd, CommandsStay
<1>1. ASSUME NEW o \in Ops, faults' = 0, rows'[o].stage \in ACTIVE_STAGES, event'[o] = "set"
      PROVE  \E c \in Clients : client'[c].op = o /\ client'[c].pc = "withdraw"
  <2>1. EventStep(o) /\ ~Crash
    BY <1>1, EventsStep DEF Crash
  <2>2. CASE event[o] = "set"
    <3>1. Active(o)
      BY <1>1, <2>2, RowsStay DEF RootedInv
    <3>2. PICK c \in Clients : client[c].op = o /\ client[c].pc = "withdraw"
      BY <1>t, <1>1, <2>2, <3>1 DEF CareInv, Withdrawing, Effects
    <3> QED
      BY <1>1, <1>stays, <2>1, <3>2
  <2>3. CASE event[o] # "set"
    <3>1. PICK c \in Clients : Signal(c) /\ client[c].op = o
      BY <1>1, <2>1, <2>3 DEF EventStep
    <3>2. client' = [client EXCEPT ![c] = [client[c] EXCEPT !.pc = "withdraw"]]
      BY <3>1 DEF Signal
    <3>3. \A f \in Client : LET g == [f EXCEPT !.pc = "withdraw"] IN
                            g.pc = "withdraw" /\ g.op = f.op
      BY DEF Client
    <3> QED
      BY <1>t, <3>1, <3>2, <3>3
  <2> QED
    BY <2>2, <2>3
<1>2. ASSUME NEW w \in Threads, Leaving(worker'[w]),
             rows'[worker'[w].op].stage \in ACTIVE_STAGES, faults' = 0
      PROVE  event'[worker'[w].op] = "set"
  <2>1. /\ worker'[w].op = Op(w) /\ Op(w) \in Ops
        /\ Leaving(worker[w]) \/ event[Op(w)] = "set"
    BY <1>2, LeavingStep
  <2>2. Active(Op(w)) /\ faults = 0
    BY <1>t, <1>2, <2>1, RowsStay, ConstantsOK DEF RootedInv, Effects
  <2>3. event[Op(w)] = "set"
    BY <2>1, <2>2 DEF CareInv
  <2> QED
    BY <2>1, <2>3, SetStays
<1>3. ASSUME NEW o \in Ops, up', faults' = 0, rows'[o].stage \in ACTIVE_STAGES
      PROVE  \/ \E w \in Threads : worker'[w].op = o
             \/ \E c \in Clients : client'[c].op = o /\ client'[c].pc \in {"ensure", "withdraw"}
  <2>0. faults = 0 /\ ~Crash
    BY <1>t, <1>3 DEF Effects, Crash
  <2>1. CASE ~Exists(o)
    <3>1. StageStep(o) /\ ~Active(o)
      BY <2>1, StagesStep DEF Exists, Active, ACTIVE_STAGES
    <3> QED
      BY <1>3, <3>1 DEF StageStep, Active
  <2>2. CASE Exists(o) /\ Restart
    <3>1. Active(o)
      BY <1>3, <2>2, RowsStay
    <3> QED
      BY <2>2, <3>1, RestartMoves
  <2>3. CASE Exists(o) /\ ~Restart
    <3>1. Active(o) /\ up
      BY <1>t, <1>3, <2>0, <2>3, RowsStay DEF Effects
    <3>2. ASSUME NEW c \in Clients, client[c].op = o, client[c].pc = "withdraw"
          PROVE  client'[c].op = o /\ client'[c].pc = "withdraw"
      BY <1>3, <1>stays, <2>0, <3>2
    <3>3. ASSUME NEW c \in Clients, client[c].op = o, client[c].pc = "ensure"
          PROVE  \/ client'[c].op = o /\ client'[c].pc = "ensure"
                 \/ \E w \in Threads : worker'[w].op = o
      <4>1. CASE client'[c] = client[c]
        BY <3>3, <4>1
      <4>2. CASE Acknowledge(c)
        <5>1. CASE o \in running /\ UNCHANGED worker
          BY <2>0, <5>1 DEF SoleInv, Op
        <5>2. CASE \E w \in Threads : worker' = [worker EXCEPT ![w] = FreshWorker(o)]
          BY <1>t, <5>2, FreshFields
        <5> QED
          BY <3>3, <4>2, <5>1, <5>2 DEF Acknowledge, EnsureWorker
      <4>3. ~Withdraw(c)
        BY <3>3 DEF Withdraw
      <4>4. ~CommandRaises(c)
        BY <1>3, <1>cr
      <4> QED
        BY <2>0, <3>3, <4>1, <4>2, <4>3, <4>4, CommandsStay
    <3>4. ASSUME NEW w \in Threads, Op(w) = o
          PROVE  \/ worker'[w].op = o
                 \/ \E c \in Clients : client'[c].op = o /\ client'[c].pc = "withdraw"
      <4>1. CASE worker'[w].op = o
        BY <4>1
      <4>2. CASE Exit(w)
        <5>1. Leaving(worker[w])
          BY <4>2 DEF Exit, At, Leaving
        <5>2. event[o] = "set"
          BY <2>0, <3>1, <3>4, <5>1 DEF CareInv
        <5>3. PICK c \in Clients : client[c].op = o /\ client[c].pc = "withdraw"
          BY <2>0, <3>1, <5>2 DEF CareInv, Withdrawing
        <5> QED
          BY <3>2, <5>3
      <4> QED
        BY <2>0, <3>4, <4>1, <4>2, WorkersStay, ConstantsOK
    <3>5. \/ \E w \in Threads : Op(w) = o
          \/ \E c \in Clients : client[c].op = o /\ client[c].pc \in {"ensure", "withdraw"}
      BY <2>0, <3>1 DEF CareInv
    <3> QED
      BY <3>2, <3>3, <3>4, <3>5
  <2> QED
    BY <2>1, <2>2, <2>3
<1> QED
  BY <1>1, <1>2, <1>3 DEF CareInv, Withdrawing, Active, Op

-----------------------------------------------------------------------------
(* One tab.                                                                 *)

\* A frame that has yet to open a tab was so before, or has just begun.
LEMMA BeforeStep ==
  ASSUME TypeInv, [Next]_vars, NEW w \in Threads, Before(worker'[w])
  PROVE  \/ /\ worker'[w].op = Op(w) /\ Op(w) \in Ops /\ Before(worker[w])
            /\ At(w, "load") /\ worker'[w].pc # "load" => Active(Op(w))
         \/ /\ worker'[w].pc = "load"
            /\ \E c \in Clients : /\ Acknowledge(c) /\ client[c].op = worker'[w].op
                                  /\ client[c].op \notin running
         \/ Restart
<1> DEFINE Goal == /\ worker'[w].op = Op(w) /\ Op(w) \in Ops /\ Before(worker[w])
                   /\ At(w, "load") /\ worker'[w].pc # "load" => Active(Op(w))
<1>t. worker \in [Threads -> Worker] /\ WorkersStep
  BY WorkersMove DEF TypeInv, TypeOK
<1>same. ASSUME worker'[w] = worker[w]
         PROVE  Goal
  <2>1. worker[w].pc # "idle"
    BY <1>same DEF Before
  <2> QED
    BY <1>same, <2>1, OpTyped DEF Op, At
<1>1. ASSUME NEW v \in Threads, MoveStep(v)
      PROVE  Goal
  <2>1. CASE v = w
    <3>1. Op(w) \in Ops
      BY <1>1, <2>1, OpTyped DEF MoveStep, Moves, At
    <3> QED
      BY <1>1, <2>1, <3>1 DEF MoveStep, Moves, Op
  <2>2. CASE v # w
    <3>1. worker'[w] = worker[w]
      BY <1>1, <2>2 DEF MoveStep
    <3> QED
      BY <1>same, <3>1
  <2> QED
    BY <2>1, <2>2
<1>2. ASSUME NEW v \in Threads, Probe(v)
      PROVE  Goal
  <2>1. CASE v = w
    BY <1>2, <2>1, ProbeMoves DEF Before, At
  <2>2. CASE v # w
    <3>1. worker'[w] = worker[w]
      BY <1>2, <2>2, ProbeMoves
    <3> QED
      BY <1>same, <3>1
  <2> QED
    BY <2>1, <2>2
<1>3. ASSUME NEW v \in Threads, Exit(v)
      PROVE  Goal
  <2>1. worker'[v] = IdleWorker /\ \A u \in Threads : u # v => worker'[u] = worker[u]
    BY <1>t, <1>3 DEF Exit
  <2>2. worker'[w] = worker[w]
    BY <2>1, IdleTyped DEF Before
  <2> QED
    BY <1>same, <2>2
<1>4. ASSUME NEW q \in calls, AttachAgent(q)
      PROVE  Goal
  <2>1. worker'[w] = worker[w]
    BY <1>4, AttachMoves DEF Before
  <2> QED
    BY <1>same, <2>1
<1>5. ASSUME NEW c \in Clients, Acknowledge(c)
      PROVE  \/ Goal
             \/ /\ worker'[w].pc = "load" /\ client[c].op = worker'[w].op
                /\ client[c].op \notin running
  <2>1. client[c].op \in Ops
    BY <1>5 DEF Acknowledge, TypeInv, TypeOK, FramesOK, Client
  <2>2. \/ worker'[w] = worker[w]
        \/ client[c].op \notin running /\ worker'[w] = FreshWorker(client[c].op)
    BY <1>t, <1>5 DEF Acknowledge, EnsureWorker
  <2> QED
    BY <1>same, <2>1, <2>2, FreshFields
<1>6. CASE Crash
  BY <1>6, IdleTyped DEF Crash, Before
<1>7. CASE worker' = worker
  BY <1>7, <1>same
<1> HIDE DEF Goal
<1>8. Goal => \/ /\ worker'[w].op = Op(w) /\ Op(w) \in Ops /\ Before(worker[w])
                 /\ At(w, "load") /\ worker'[w].pc # "load" => Active(Op(w))
  BY DEF Goal
<1> QED
  BY <1>t, <1>1, <1>2, <1>3, <1>4, <1>5, <1>6, <1>7, <1>8 DEF WorkersStep

\* Only a worker at create opens a tab, and one that nothing interrupted has
\* none yet; none goes back to create afterwards.
LEMMA TabsStep ==
  ASSUME TypeInv, SoleInv, RootedInv, CareInv, TabsInv, [Next]_vars
  PROVE  TabsInv'
<1>t. /\ Effects /\ worker \in [Threads -> Worker] /\ client \in [Clients -> Client]
      /\ owner \in [Tabs -> Ops \cup {None}] /\ crashes \in Nat
  BY StepEffects DEF TypeInv, TypeOK
<1>clean. \A o : crashes' = 0 /\ faults' = 0 /\ o \notin missed' => Clean(o)
  BY <1>t DEF Effects, Clean
<1>1. ~up' => crashes' # 0
  <2>1. CASE Crash
    BY <1>t, <2>1 DEF Crash
  <2>2. CASE ~Crash
    BY <1>t, <2>2 DEF Effects, Restart, TabsInv
  <2> QED
    BY <2>1, <2>2
<1>calm. crashes' = 0 => ~Crash /\ ~Restart /\ up /\ crashes = 0
  <2>1. crashes' = 0 => ~Crash
    BY <1>t DEF Crash
  <2>2. crashes' = 0 => up
    BY <1>t DEF Effects, TabsInv
  <2> QED
    BY <1>t, <2>1, <2>2 DEF Effects, Restart
<1>own. ASSUME NEW t \in Tabs, owner'[t] # owner[t]
        PROVE  \E w \in Threads : /\ CreateTab(w) /\ owner[t] = None
                                  /\ owner' = [owner EXCEPT ![t] = Op(w)]
                                  /\ At(w, "create") /\ Op(w) \in Ops /\ Op(w) # None
  <2>1. PICK w \in Threads : CreateTab(w)
    BY <1>t, <1>own DEF Effects
  <2>2. owner[t] = None /\ owner' = [owner EXCEPT ![t] = Op(w)]
    BY <1>t, <1>own, <2>1 DEF CreateTab
  <2>3. At(w, "create") /\ Op(w) \in Ops /\ Op(w) # None
    BY <2>1, OpTyped DEF CreateTab, At
  <2> QED
    BY <2>1, <2>2, <2>3
<1>2. ASSUME NEW t \in Tabs, NEW u \in Tabs, owner'[t] = owner'[u], owner'[t] # None,
             crashes' = 0, faults' = 0, owner'[t] \notin missed'
      PROVE  t = u
  <2>0. Clean(owner'[t])
    BY <1>2, <1>clean
  <2>1. ASSUME NEW x \in Tabs, NEW y \in Tabs, owner'[x] # owner[x],
               owner'[y] = owner'[x], Clean(owner'[x])
        PROVE  y = x
    <3>1. PICK w \in Threads : /\ owner[x] = None /\ owner' = [owner EXCEPT ![x] = Op(w)]
                               /\ At(w, "create") /\ Op(w) \in Ops /\ Op(w) # None
      BY <2>1, <1>own
    <3>2. owner'[x] = Op(w)
      BY <1>t, <3>1
    <3>3. Untouched(Op(w))
      BY <2>1, <3>1, <3>2 DEF TabsInv, Before, At
    <3> QED
      BY <1>t, <2>1, <3>1, <3>2, <3>3 DEF Untouched
  <2>2. CASE owner'[t] = owner[t] /\ owner'[u] = owner[u]
    BY <1>2, <2>0, <2>2 DEF TabsInv
  <2> QED
    BY <1>2, <2>0, <2>1, <2>2
<1>untouched. ASSUME NEW o \in Ops, Untouched(o),
                     \A w \in Threads : CreateTab(w) => Op(w) # o
              PROVE  \A t \in Tabs : owner'[t] # o
  <2> TAKE t \in Tabs
  <2>1. CASE owner'[t] = owner[t]
    BY <1>untouched, <2>1 DEF Untouched
  <2>2. CASE owner'[t] # owner[t]
    <3>1. PICK w \in Threads : CreateTab(w) /\ owner' = [owner EXCEPT ![t] = Op(w)]
      BY <1>own, <2>2
    <3> QED
      BY <1>t, <1>untouched, <3>1
  <2> QED
    BY <2>1, <2>2
<1>3. ASSUME NEW w \in Threads, Before(worker'[w]), crashes' = 0, faults' = 0,
             worker'[w].op \notin missed',
             worker'[w].pc = "load" => rows'[worker'[w].op].stage \in ACTIVE_STAGES
      PROVE  \A t \in Tabs : owner'[t] # worker'[w].op
  <2>1. CASE /\ worker'[w].op = Op(w) /\ Op(w) \in Ops /\ Before(worker[w])
             /\ At(w, "load") /\ worker'[w].pc # "load" => Active(Op(w))
    <3>1. Op(w) # None /\ Clean(Op(w))
      BY <1>3, <1>clean, <2>1, ConstantsOK
    <3>2. At(w, "load") => Active(Op(w))
      BY <1>3, <2>1, <3>1, RowsStay DEF RootedInv
    <3>3. Untouched(Op(w))
      BY <2>1, <3>1, <3>2 DEF TabsInv
    <3>4. ASSUME NEW v \in Threads, CreateTab(v), Op(v) = Op(w)
          PROVE  FALSE
      <4>1. v = w
        BY <3>1, <3>4 DEF SoleInv
      <4>2. worker[w] \in Worker /\ worker' = [worker EXCEPT ![w] = [worker[w] EXCEPT
                                                 !.pc = worker'[w].pc]]
              /\ worker'[w].pc \in {"created", "creating"}
        <5>1. \A f \in Worker : \A pc : [f EXCEPT !.pc = pc].pc = pc
          BY DEF Worker
        <5>2. PICK pc \in {"created", "creating"} :
                worker' = [worker EXCEPT ![w] = [worker[w] EXCEPT !.pc = pc]]
          BY <3>4, <4>1 DEF CreateTab, Goto
        <5> QED
          BY <1>t, <5>1, <5>2
      <4> QED
        BY <1>3, <4>2 DEF Before
    <3> QED
      BY <1>untouched, <2>1, <3>3, <3>4
  <2>2. CASE \E c \in Clients : /\ Acknowledge(c) /\ client[c].op = worker'[w].op
                                /\ client[c].op \notin running
    <3>1. PICK c \in Clients : /\ Acknowledge(c) /\ client[c].op = worker'[w].op
                               /\ client[c].op \notin running
      BY <2>2
    <3> DEFINE o == client[c].op
    <3>2. o \in Ops /\ UNCHANGED <<rows, owner>> /\ o # None
      BY <3>1, <1>t, ConstantsOK
      DEF Acknowledge, Client, TypeInv, FramesOK, journal, herdr
    <3>3. \A v \in Threads : Op(v) # o
      BY <3>1, <3>2 DEF SoleInv
    <3>4. worker'[w].pc = "load"
      <4>1. \A v \in Threads : worker'[v] # worker[v] => worker'[v].pc = "load"
        BY <3>1, <3>2, <1>t, FreshFields DEF Acknowledge, EnsureWorker
      <4> QED
        BY <3>1, <3>3, <4>1 DEF Op
    <3>5. Active(o) /\ Clean(o)
      BY <1>3, <1>clean, <3>1, <3>2, <3>4 DEF Active
    <3>6. Untouched(o)
      BY <3>2, <3>3, <3>5 DEF TabsInv
    <3> QED
      BY <3>1, <3>2, <3>6 DEF Untouched
  <2>3. ~Restart
    BY <1>3, <1>calm
  <2> QED
    BY <1>3, <2>1, <2>2, <2>3, BeforeStep
<1>4. ASSUME NEW o \in Ops, crashes' = 0, faults' = 0, o \notin missed',
             rows'[o].stage \in ACTIVE_STAGES, \A w \in Threads : worker'[w].op # o
      PROVE  \A t \in Tabs : owner'[t] # o
  <2>0. Clean(o) /\ ~Crash
    BY <1>4, <1>clean, <1>calm
  <2>1. ASSUME NEW w \in Threads, CreateTab(w), Op(w) = o
        PROVE  FALSE
    <3>1. worker[w].pc = "create"
      BY <2>1 DEF CreateTab, At
    <3>2. ~Exit(w)
      BY <3>1 DEF Exit, At
    <3> QED
      BY <1>4, <2>0, <2>1, <3>2, WorkersStay, ConstantsOK
  <2>2. CASE ~Exists(o)
    <3>1. Untouched(o)
      BY <2>2, ConstantsOK DEF RootedInv, Untouched
    <3> QED
      BY <1>untouched, <2>1, <3>1
  <2>3. CASE Exists(o)
    <3>1. Active(o)
      BY <1>4, <2>3, RowsStay
    <3>2. ASSUME NEW w \in Threads, Op(w) = o
          PROVE  FALSE
      <4>1. Exit(w)
        BY <1>4, <2>0, <3>2, WorkersStay, ConstantsOK
      <4>2. event[o] = "set"
        BY <2>0, <3>1, <3>2, <4>1 DEF CareInv, Clean, Exit, At, Leaving
      <4> QED
        BY <1>4, <3>1, <3>2, <4>1, <4>2 DEF Exit
    <3>3. Untouched(o)
      BY <2>0, <3>1, <3>2 DEF TabsInv
    <3> QED
      BY <1>untouched, <2>1, <3>3
  <2> QED
    BY <2>2, <2>3
<1>5. \A o : Clean(o)' <=> crashes' = 0 /\ faults' = 0 /\ o \notin missed'
  BY DEF Clean
<1> QED
  BY <1>1, <1>2, <1>3, <1>4 DEF TabsInv, Clean, Untouched, Active, Op, At

-----------------------------------------------------------------------------
(* The invariant, layer upon layer, and what follows from it.               *)

\* All of the above; each layer is kept with the help of those before it.
LaunchInv ==
    TypeInv /\ SoleInv /\ RealInv /\ GateInv /\ RootedInv /\ CancelInv /\ CareInv /\ TabsInv

\* Before the first command there is no row, no worker, no tab and no agent.
LEMMA LaunchInit == Init => LaunchInv
<1> SUFFICES ASSUME Init
             PROVE  LaunchInv
  OBVIOUS
<1>1. TypeInv
  BY TypeInit
<1>2. \A w \in Threads : Op(w) = None /\ worker[w].pc = "idle"
  BY IdleTyped DEF Init, Op
<1>3. \A c \in Clients : client[c].pc = "idle"
  BY DEF Init, IdleClient
<1>4. \A o \in Ops : rows[o].stage = "absent"
  BY DEF Init, NoRow
<1>5. /\ \A o \in Ops : ran[o] = {} /\ agent[o] = None /\ event[o] = "absent"
      /\ \A t \in Tabs : owner[t] = None
      /\ running = {} /\ up
  BY DEF Init
<1>6. SoleInv /\ GateInv
  BY <1>2, <1>5 DEF SoleInv, GateInv, Cleared
<1>7. RealInv
  BY <1>2, <1>4, <1>5 DEF RealInv, Resolved, StartedSessionIsReal
<1>8. RootedInv
  BY <1>2, <1>3, <1>5 DEF RootedInv
<1>9. CancelInv /\ CareInv
  BY <1>2, <1>3, <1>4, <1>5
  DEF CancelInv, CareInv, Signalable, Leaving, Withdrawing, Active, ACTIVE_STAGES
<1>10. TabsInv
  BY <1>2, <1>5, ConstantsOK DEF TabsInv, Before, Untouched
<1> QED
  BY <1>1, <1>6, <1>7, <1>8, <1>9, <1>10 DEF LaunchInv

\* Every step of the relay, of Herdr and of a restart keeps the invariant.
LEMMA LaunchInvariant == Spec => []LaunchInv
<1>1. LaunchInv /\ [Next]_vars => LaunchInv'
  BY TypeStep, SoleStep, RealStep, GateStep, RootedStep, CancelStep, CareStep, TabsStep
  DEF LaunchInv
<1> QED
  BY <1>1, LaunchInit, PTL DEF Spec

\* Replays, retries, recovery and first starts never give an operation two
\* workers, and _running forgets a worker exactly when it ends.
THEOREM OneWorker == Spec => []OneWorkerPerOperation
<1>1. LaunchInv => OneWorkerPerOperation
  BY ConstantsOK DEF LaunchInv, SoleInv, OneWorkerPerOperation, TypeInv, TypeOK
<1> QED
  BY <1>1, LaunchInvariant, PTL

\* A row written as started names a tab its own agent ran in, however the
\* worker learnt of it: by the reply to its call or by a probe by name.
THEOREM StartsAreReal == Spec => []StartedSessionIsReal
<1>1. LaunchInv => StartedSessionIsReal
  BY DEF LaunchInv, RealInv
<1> QED
  BY <1>1, LaunchInvariant, PTL

\* The probe and the gate in front of tab create hold against a second agent,
\* but for one that a call orphaned by a crash or a kill starts after the probe.
THEOREM OneLaunch == Spec => []NoSecondLaunch
<1>1. LaunchInv => NoSecondLaunch
  BY DEF LaunchInv, GateInv, NoSecondLaunch, Cleared
<1> QED
  BY <1>1, LaunchInvariant, PTL

\* A worker that ends without a last write of its row leaves a cancel behind
\* that is about to write it.
THEOREM NobodyIsAbandoned == Spec => []NoActiveRowIsAbandoned
<1>1. LaunchInv => NoActiveRowIsAbandoned
  <2> SUFFICES ASSUME LaunchInv, up, faults = 0, NEW o \in Ops, Active(o)
               PROVE  \/ \E w \in Threads : Op(w) = o /\ ~At(w, "exit")
                      \/ \E c \in Clients : /\ client[c].op = o
                                            /\ client[c].pc \in {"ensure", "withdraw"}
    BY DEF NoActiveRowIsAbandoned
  <2>1. CASE \E w \in Threads : Op(w) = o /\ At(w, "exit")
    <3>1. event[o] = "set"
      BY <2>1 DEF LaunchInv, CareInv, Leaving, At
    <3> QED
      BY <3>1 DEF LaunchInv, CareInv, Withdrawing
  <2> QED
    BY <2>1 DEF LaunchInv, CareInv
<1> QED
  BY <1>1, LaunchInvariant, PTL

\* The loop's own closing of a superseded tab suffices while nothing
\* interrupts the worker: what is left when it ends is the agent's tab.
THEOREM OneTab == Spec => []StartedLeavesOneTab
<1>1. LaunchInv => StartedLeavesOneTab
  <2> SUFFICES ASSUME LaunchInv, NEW o \in Ops, rows[o].stage = "started",
                      crashes = 0, faults = 0, o \notin missed,
                      NEW t \in tabs, owner[t] = o
               PROVE  t = rows[o].session
    BY DEF StartedLeavesOneTab
  <2>1. rows[o].session \in ran[o]
    BY DEF LaunchInv, RealInv, StartedSessionIsReal
  <2>2. rows[o].session \in Tabs /\ t \in Tabs
    BY <2>1 DEF LaunchInv, TypeInv, TypeOK
  <2>3. owner[rows[o].session] = o
    BY <2>1 DEF LaunchInv, RealInv
  <2> QED
    BY <2>2, <2>3, ConstantsOK DEF LaunchInv, TabsInv, Clean
<1> QED
  BY <1>1, LaunchInvariant, PTL

\* A new call to start an agent, with a thread waiting for it, is the one
\* StartAgent makes.
LEMMA StartCalls ==
  ASSUME TypeInv, [Next]_vars, NEW q \in calls' \ calls, q.kind = "start", q.by # None
  PROVE  \E w \in Threads : /\ At(w, "start") /\ event[Op(w)] # "set"
                            /\ q.tab = worker[w].tab
<1> USE DEF journal, process, herdr, budget, history, others
<1>1. ASSUME NEW c \in Clients,
             BeginCommand(c) \/ CancelCommand(c) \/ ClientStep(c) \/ CommandRaises(c)
      PROVE  calls' = calls
  BY <1>1, Zenon DEF BeginCommand, CancelCommand, ClientStep, CommandRaises, LookupRequest,
              ReadSource, RefuseCommand, Admit, Signal, Withdraw, Acknowledge
<1>2. ASSUME NEW w \in Threads, WorkerStep(w), ~CreateTab(w), ~StartAgent(w)
      PROVE  calls' = calls
  BY <1>2, Zenon DEF WorkerStep, Load, CheckContext, Probe, ProbeCancelled, ProbeFound,
     ProbeOffline, ProbeReached, ProbeElsewise, Pause, Wake, Woken, Gate, Created, Replied,
     Observed, Finish, WriteFailure, Record, CloseTab, Exit
<1>3. ASSUME NEW w \in Threads, DeadlinePasses(w) \/ WorkerRaises(w) \/ WriteFailureRaises(w)
      PROVE  calls' = calls
  BY <1>3 DEF DeadlinePasses, WorkerRaises, WriteFailureRaises
<1>4. ASSUME NEW w \in Threads, CreateTab(w)
      PROVE  FALSE
  BY <1>4 DEF CreateTab
<1>5. ASSUME NEW w \in Threads, StartAgent(w)
      PROVE  At(w, "start") /\ event[Op(w)] # "set" /\ q.tab = worker[w].tab
  BY <1>5 DEF StartAgent
<1>6. \A p \in calls : [p EXCEPT !.by = None].by = None
  BY DEF TypeInv, TypeOK, Call
<1>7. ASSUME NEW w \in Threads, GiveUp(w)
      PROVE  FALSE
  BY <1>6, <1>7 DEF GiveUp
<1>8. ASSUME Crash
      PROVE  FALSE
  <2>1. \A p \in calls' : p.by = None
    <3>1. calls' = {[p EXCEPT !.by = None] : p \in calls}
      BY <1>8 DEF Crash
    <3> QED
      BY <1>6, <3>1
  <2> QED
    BY <2>1
<1>9. ASSUME NEW p \in calls, HerdrStep(p)
      PROVE  FALSE
  BY <1>9 DEF HerdrStep, OpenTab, RefuseTab, AttachAgent, RefuseAgent
<1>10. CASE (\E o \in Ops : AgentExits(o)) \/ Restart \/ Quiescent \/ UNCHANGED vars
  BY <1>10 DEF AgentExits, Restart, Quiescent, vars
<1> QED
  BY <1>1, <1>2, <1>3, <1>4, <1>5, <1>7, <1>8, <1>9, <1>10, Zenon DEF Next

\* Between the cancel and the next spawn lies the event: the worker sees it
\* set, or the cancel found no event and is noted as missed.
THEOREM CancelStopsStarts == Spec => NoStartAfterCancel
<1>1. ASSUME LaunchInv, [Next]_vars, NEW q \in calls' \ calls,
             q.kind = "start", q.by # None, rows[owner[q.tab]].stage = "cancelled"
      PROVE  owner[q.tab] \in missed
  <2> USE <1>1 DEF LaunchInv
  <2>1. PICK w \in Threads : /\ At(w, "start") /\ event[Op(w)] # "set"
                             /\ q.tab = worker[w].tab
    BY StartCalls
  <2>2. Op(w) \in Ops /\ owner[q.tab] = Op(w)
    <3>1. worker[w].tab # None /\ worker[w].op \in Ops \cup {None}
      BY <2>1 DEF TypeInv, FramesOK, At, TypeOK, Worker
    <3> QED
      BY <2>1, <3>1 DEF TypeInv, FramesOK, Op
  <2>3. event[Op(w)] = "clear"
    BY <2>1, <2>2 DEF CancelInv, Signalable, At, TypeInv, TypeOK
  <2> QED
    BY <2>2, <2>3 DEF CancelInv
<1>2. LaunchInv /\ [Next]_vars
      => [\A q \in calls' \ calls :
            q.kind = "start" /\ q.by # None /\ rows[owner[q.tab]].stage = "cancelled"
            => owner[q.tab] \in missed]_vars
  BY <1>1
<1> QED
  BY <1>2, LaunchInvariant, PTL DEF Spec, NoStartAfterCancel

=============================================================================
