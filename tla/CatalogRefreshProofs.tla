------------------------- MODULE CatalogRefreshProofs -------------------------
(***************************************************************************)
(* What the catalogs keep whoever refreshes them, for any number of hosts, *)
(* harnesses, clients and configurations, and whatever fails.              *)
(***************************************************************************)
EXTENDS CatalogRefresh, FiniteSetTheorems, TLAPS

-----------------------------------------------------------------------------
(* The invariant.                                                           *)

\* The type invariant, with one task under the lock in place of a cardinality.
TypeInv ==
    /\ relay \in {"down", "starting", "up"} /\ config \in Configs
    /\ rows \in [Harnesses -> Row]
    /\ status \in [state: {"idle", "refreshing", "success", "error"}, age: 0..Day]
    /\ lock \subseteq Tasks /\ task \in [Tasks -> Task]
    /\ ready \in [Hosts -> {"unseen", "ready", "down"}]
    /\ waited \in [Hosts -> 0..WakeInterval]
    /\ poll \in [pc: {"idle", "apply"}, ready: SUBSET Hosts]
    /\ up \subseteq Hosts
    /\ offer \in [Harnesses -> [edition: 1..MaxEdition, installed: BOOLEAN]]
    /\ spent \in [{"changes", "frames", "faults"} -> Nat]

\* _refresh_lock is held by the one task inside _refresh.
LockOK ==
    /\ lock = Refreshing
    /\ \A s, t \in lock : s = t

\* Before the first refresh ended nobody else refreshes and nobody polls.
PhaseOK ==
    /\ relay # "up" => poll.pc = "idle" /\ \A t \in Tasks \ {Loop} : task[t].pc = "idle"
    /\ relay = "down" => task[Loop].pc = "idle"
    /\ relay = "starting" => Loop \in lock /\ task[Loop].scope = All

\* A refresh has work only within its scope, and stores what it probed.
FrameOK(t) ==
    /\ t \notin lock => task[t].age = 0
    /\ t \in Hosts => task[t].pc # "tries"
    /\ task[t].pc \in {"marks", "probes", "stores"} => task[t].todo \subseteq Within(task[t].scope)
    /\ task[t].pc = "stores" => task[t].now \subseteq task[t].todo \cap Enabled
                                  /\ \A j, k \in task[t].now : j = k

\* What a refresh no longer has to do is done: the row is as young as the
\* refresh, and not available unless the harness is on.
CoverOK(t) ==
    /\ task[t].age <= status.age
    /\ task[t].pc \in {"marks", "probes", "stores"} =>
         /\ \A k \in Harnesses \ Configured : ~rows[k].available
         /\ \A k \in Within(task[t].scope) \ task[t].todo :
              /\ rows[k].kept /\ rows[k].age <= task[t].age
              /\ k \notin Enabled => ~rows[k].available

\* A listing in flight is at least as new as the row it is about to replace.
EditionOK(t) ==
    task[t].pc = "stores" /\ task[t].found = "listing" =>
        /\ task[t].edition # 0
        /\ \A k \in task[t].now : rows[k].models <= task[t].edition
                                    /\ task[t].edition <= offer[k].edition

\* A row that was never written offers nothing, and none is ahead of its host.
RowsOK ==
    \A k \in Harnesses :
        /\ ~rows[k].kept => ~rows[k].available
        /\ rows[k].models <= offer[k].edition

\* All of it together.
CatalogInv ==
    /\ TypeInv /\ LockOK /\ PhaseOK /\ RowsOK
    /\ \A t \in Tasks : FrameOK(t) /\ EditionOK(t)
    /\ \A t \in lock : CoverOK(t)
    /\ ScheduleCoversEveryHarness /\ RemovedIsNotOffered /\ WakeRefreshIsNeeded

-----------------------------------------------------------------------------
(* The operators the actions are built from.                                *)

\* A harness that is on is configured, and a full refresh reaches them all.
LEMMA Scopes ==
  /\ Enabled \subseteq Configured /\ Configured \subseteq Harnesses
  /\ Within(All) = Configured
  /\ \A scope : Within(scope) \subseteq Configured
  BY DEF Enabled, Configured, Within

\* Ages only grow, and keep their order.
LEMMA Ages ==
  /\ Day \in Nat /\ WakeInterval \in 0..Day /\ MaxEdition \in Nat \ {0}
  /\ \A a \in 0..Day : Older(a) \in 0..Day
  /\ \A a, b \in 0..Day : a <= b => Older(a) <= Older(b)
<1>1. Day \in Nat /\ WakeInterval \in 0..Day /\ MaxEdition \in Nat \ {0}
  BY ConstantsOK
<1> QED
  BY <1>1 DEF Older

\* reconcile takes a harness that is no longer named out of the offer.
LEMMA RemovedFields ==
  ASSUME NEW row \in Row
  PROVE  /\ Removed(row) \in Row
         /\ Removed(row).kept = row.kept /\ ~Removed(row).available
         /\ Removed(row).models = 0 /\ Removed(row).disabled /\ Removed(row).age = 0
<1>1. 0 \in 0..MaxEdition /\ 0 \in 0..Day
  BY Ages
<1> QED
  BY <1>1 DEF Removed, Row

\* A new or an idle frame asks for something, or nothing, and has done nothing.
LEMMA AskedFields ==
  ASSUME NEW pc \in {"idle", "tries", "waits", "begins"}, NEW scope \in Hosts \cup {All}
  PROVE  LET f == Asked(pc, scope) IN
         /\ f \in Task /\ f.pc = pc /\ f.scope = scope /\ f.age = 0
<1>1. 0 \in 0..MaxEdition /\ 0 \in 0..Day
  BY Ages
<1> QED
  BY <1>1 DEF Asked, Idle, Task

\* A task that has ended leaves nothing in its frame.
LEMMA IdleFields == Idle \in Task /\ Idle.pc = "idle" /\ Idle.age = 0
<1>1. 0 \in 0..MaxEdition /\ 0 \in 0..Day
  BY Ages
<1> QED
  BY <1>1 DEF Idle, Task

-----------------------------------------------------------------------------
(* The steps of one task, by the fields they set.                           *)

\* Nobody but t moves.
Only(t) == /\ task' \in [Tasks -> Task]
           /\ \A s \in Tasks : s # t => task'[s] = task[s]

\* The frame of t moves on within its refresh.
GoesOn(t) == /\ Only(t)
             /\ task'[t].scope = task[t].scope /\ task'[t].age = task[t].age

\* A step that sets one frame sets no other.
LEMMA FreshMoves ==
  ASSUME TypeInv, NEW t \in Tasks, NEW g \in Task, task' = [task EXCEPT ![t] = g]
  PROVE  Only(t) /\ task'[t] = g
  BY DEF TypeInv, Only

\* _refresh starts with all the harnesses of its scope to do.
LEMMA BeginsMoves ==
  ASSUME TypeInv, NEW t \in Tasks, Begins(t)
  PROVE  /\ GoesOn(t) /\ task[t].pc = "begins"
         /\ task'[t].pc = IF task[t].scope = All THEN "marks" ELSE "probes"
         /\ task'[t].todo = Within(task[t].scope)
<1>1. task[t] \in Task /\ Within(task[t].scope) \subseteq Harnesses
  BY Scopes DEF TypeInv
<1> DEFINE pc == IF task[t].scope = All THEN "marks" ELSE "probes"
           g == [task[t] EXCEPT !.pc = pc, !.todo = Within(task[t].scope)]
<1>2. task' = [task EXCEPT ![t] = g]
  BY DEF Begins
<1>3. /\ g \in Task /\ g.pc = pc /\ g.todo = Within(task[t].scope)
      /\ g.scope = task[t].scope /\ g.age = task[t].age
  BY <1>1 DEF Task
<1>4. task[t].pc = "begins"
  BY DEF Begins
<1> HIDE DEF g
<1> QED
  BY <1>2, <1>3, <1>4, FreshMoves DEF GoesOn

\* A task that takes the lock, or has marked the refresh, sets nothing else.
LEMMA PcMoves ==
  ASSUME TypeInv, NEW t \in Tasks, NEW pc \in {"begins", "probes"},
         task' = [task EXCEPT ![t].pc = pc]
  PROVE  GoesOn(t) /\ task'[t].pc = pc /\ task'[t].todo = task[t].todo
<1> DEFINE g == [task[t] EXCEPT !.pc = pc]
<1>1. task[t] \in Task
  BY DEF TypeInv
<1>2. task' = [task EXCEPT ![t] = g]
  OBVIOUS
<1>3. /\ g \in Task /\ g.pc = pc /\ g.scope = task[t].scope /\ g.age = task[t].age
      /\ g.todo = task[t].todo
  BY <1>1 DEF Task
<1> HIDE DEF g
<1> QED
  BY <1>2, <1>3, FreshMoves DEF GoesOn

\* A harness that is off is done without a probe.
LEMMA SkipsMoves ==
  ASSUME TypeInv, NEW t \in Tasks, SkipsDisabled(t)
  PROVE  /\ GoesOn(t) /\ task[t].pc = "probes" /\ task'[t].pc = "probes"
         /\ \E k \in task[t].todo \ Enabled :
              /\ k \in Harnesses
              /\ rows' = [rows EXCEPT ![k] = Permanent(task[t].age)]
              /\ task'[t].todo = task[t].todo \ {k}
<1>1. PICK k \in task[t].todo \ Enabled :
         /\ rows' = [rows EXCEPT ![k] = Permanent(task[t].age)]
         /\ task' = [task EXCEPT ![t].todo = @ \ {k}]
  BY DEF SkipsDisabled
<1>2. task[t] \in Task /\ k \in Harnesses /\ task[t].pc = "probes"
  BY <1>1 DEF TypeInv, Task, SkipsDisabled
<1> DEFINE g == [task[t] EXCEPT !.todo = task[t].todo \ {k}]
<1>3. task' = [task EXCEPT ![t] = g]
  BY <1>1
<1>4. /\ g \in Task /\ g.pc = "probes" /\ g.scope = task[t].scope /\ g.age = task[t].age
      /\ g.todo = task[t].todo \ {k}
  BY <1>2 DEF Task
<1> HIDE DEF g
<1> QED
  BY <1>1, <1>2, <1>3, <1>4, FreshMoves DEF GoesOn

\* A probe is about one harness that is on, and brings what its host lists then.
LEMMA ProbesMoves ==
  ASSUME TypeInv, NEW t \in Tasks, Probes(t)
  PROVE  /\ GoesOn(t) /\ task[t].pc = "probes" /\ task'[t].pc = "stores"
         /\ task'[t].todo = task[t].todo
         /\ \E k \in task[t].todo \cap Enabled :
              /\ k \in Harnesses /\ task'[t].now = {k}
              /\ task'[t].found = "listing" => task'[t].edition = offer[k].edition
<1>1. PICK k \in task[t].todo \cap Enabled, found \in {"listing", "missing", "nothing"} :
         task' = [task EXCEPT ![t].pc = "stores", ![t].now = {k}, ![t].found = found,
                     ![t].edition = IF found = "listing" THEN offer[k].edition ELSE 0]
  BY DEF Probes
<1> DEFINE edition == IF found = "listing" THEN offer[k].edition ELSE 0
           g == [task[t] EXCEPT !.pc = "stores", !.now = {k}, !.found = found,
                                !.edition = edition]
<1>2. /\ task[t] \in Task /\ k \in Harnesses /\ task[t].pc = "probes"
      /\ edition \in 0..MaxEdition
  BY <1>1, Ages DEF TypeInv, Task, Probes
<1>3. task' = [task EXCEPT ![t] = g]
  BY <1>1
<1>4. /\ g \in Task /\ g.pc = "stores" /\ g.scope = task[t].scope /\ g.age = task[t].age
      /\ g.todo = task[t].todo /\ g.now = {k} /\ g.found = found /\ g.edition = edition
  BY <1>2 DEF Task
<1>5. g.found = "listing" => g.edition = offer[k].edition
  BY <1>4
<1> HIDE DEF g, edition
<1> QED
  BY <1>1, <1>2, <1>3, <1>4, <1>5, FreshMoves DEF GoesOn

\* What Stores writes of the harness that was probed.
Answered(t, k) ==
    CASE task[t].found = "listing" -> Success(task[t].edition, task[t].age)
      [] task[t].found = "missing" -> Permanent(task[t].age)
      [] task[t].found = "nothing" -> Transient(k, task[t].age)

\* The harness that was probed is written and done.
LEMMA StoresMoves ==
  ASSUME TypeInv, NEW t \in Tasks, Stores(t)
  PROVE  /\ GoesOn(t) /\ task[t].pc = "stores" /\ task'[t].pc = "probes"
         /\ \E k \in task[t].now :
              /\ k \in Harnesses
              /\ rows' = [rows EXCEPT ![k] = Answered(t, k)]
              /\ task'[t].todo = task[t].todo \ {k}
<1>1. PICK k \in task[t].now :
         /\ rows' = [rows EXCEPT ![k] = Answered(t, k)]
         /\ task' = [task EXCEPT ![t].pc = "probes", ![t].todo = @ \ {k}, ![t].now = {},
                        ![t].found = "nothing", ![t].edition = 0,
                        ![t].failed = @ \/ task[t].found # "listing"]
  BY Zenon DEF Stores, Answered
<1> DEFINE failed == task[t].failed \/ task[t].found # "listing"
           g == [task[t] EXCEPT !.pc = "probes", !.todo = task[t].todo \ {k}, !.now = {},
                                !.found = "nothing", !.edition = 0, !.failed = failed]
<1>2. /\ task[t] \in Task /\ k \in Harnesses /\ task[t].pc = "stores"
      /\ 0 \in 0..MaxEdition /\ failed \in BOOLEAN
  BY <1>1, Ages DEF TypeInv, Task, Stores
<1>3. task' = [task EXCEPT ![t] = g]
  BY <1>1
<1> HIDE DEF failed
<1>4. /\ g \in Task /\ g.pc = "probes" /\ g.scope = task[t].scope /\ g.age = task[t].age
      /\ g.todo = task[t].todo \ {k}
  BY <1>2 DEF Task
<1> HIDE DEF g
<1> QED
  BY <1>1, <1>2, <1>3, <1>4, FreshMoves DEF GoesOn

\* Of the poll's tasks only idle ones are woken.
LEMMA WokenMoves ==
  ASSUME TypeInv, PollApply
  PROVE  /\ task' \in [Tasks -> Task]
         /\ \A t \in Tasks : \/ task'[t] = task[t]
                             \/ /\ t \in Hosts /\ task[t].pc = "idle"
                                /\ task'[t].pc = "waits" /\ task'[t].age = 0
<1>1. \A t \in Woken : t \in Hosts /\ t \in Tasks /\ task[t].pc = "idle"
  BY DEF Woken, TypeInv, Tasks
<1>2. \A t \in Woken : Asked("waits", t) \in Task /\ Asked("waits", t).pc = "waits"
                         /\ Asked("waits", t).age = 0
  BY <1>1, AskedFields
<1>3. task' = [t \in Tasks |-> IF t \in Woken THEN Asked("waits", t) ELSE task[t]]
  BY DEF PollApply
<1> QED
  BY <1>1, <1>2, <1>3 DEF TypeInv

\* The clock ages the refresh that runs, and nothing else of a frame.
LEMMA TickMoves ==
  ASSUME TypeInv, Tick
  PROVE  /\ task' \in [Tasks -> Task]
         /\ \A t \in Tasks :
              /\ t \notin lock => task'[t] = task[t]
              /\ t \in lock => task'[t].age = Older(task[t].age)
              /\ task'[t].pc = task[t].pc /\ task'[t].scope = task[t].scope
              /\ task'[t].todo = task[t].todo /\ task'[t].now = task[t].now
              /\ task'[t].found = task[t].found /\ task'[t].edition = task[t].edition
<1>1. \A f \in Task : LET g == [f EXCEPT !.age = Older(f.age)] IN
         /\ g \in Task /\ g.age = Older(f.age) /\ g.pc = f.pc /\ g.scope = f.scope
         /\ g.todo = f.todo /\ g.now = f.now /\ g.found = f.found /\ g.edition = f.edition
  BY Ages DEF Task
<1>2. task' = [t \in Tasks |-> IF t \in lock THEN [task[t] EXCEPT !.age = Older(task[t].age)]
                               ELSE task[t]]
  BY DEF Tick
<1> QED
  BY <1>1, <1>2 DEF TypeInv

-----------------------------------------------------------------------------
(* Types.                                                                   *)

\* A harness that is gone or switched off keeps a row without models.
LEMMA PermanentFields ==
  ASSUME NEW age \in 0..Day
  PROVE  LET row == Permanent(age) IN
         /\ row \in Row /\ row.kept /\ ~row.available /\ row.models = 0
         /\ row.disabled /\ row.age = age
<1>1. 0 \in 0..MaxEdition
  BY Ages
<1> QED
  BY <1>1 DEF Permanent, Row

\* What an answer makes of a row: the models listed, none, or those it had.
LEMMA AnsweredFields ==
  ASSUME TypeInv, NEW t \in Tasks, NEW k \in Harnesses
  PROVE  LET row == Answered(t, k) IN
         /\ row \in Row /\ row.kept /\ row.age = task[t].age
         /\ task[t].found = "listing" => row.models = task[t].edition
         /\ task[t].found = "missing" => row.models = 0 /\ row.disabled
         /\ task[t].found = "nothing" => row.models = rows[k].models
<1>1. /\ task[t].found \in {"listing", "missing", "nothing"}
      /\ task[t].edition \in 0..MaxEdition /\ task[t].age \in 0..Day
      /\ rows[k].models \in 0..MaxEdition
  BY DEF TypeInv, Task, Row
<1>2. CASE task[t].found = "listing"
  <2>1. Answered(t, k) = Success(task[t].edition, task[t].age)
    BY <1>2 DEF Answered
  <2> QED
    BY <1>1, <1>2, <2>1 DEF Success, Row
<1>3. CASE task[t].found = "missing"
  <2>1. Answered(t, k) = Permanent(task[t].age)
    BY <1>3 DEF Answered
  <2> QED
    BY <1>1, <1>3, <2>1, PermanentFields
<1>4. CASE task[t].found = "nothing"
  <2>1. Answered(t, k) = Transient(k, task[t].age)
    BY <1>4 DEF Answered
  <2> QED
    BY <1>1, <1>4, <2>1 DEF Transient, Row
<1> QED
  BY <1>1, <1>2, <1>3, <1>4

\* Death leaves the tables and the world as they are and nothing of the process.
LEMMA DiesMoves ==
  ASSUME TypeInv, Dies
  PROVE  /\ relay' = "down" /\ lock' = {} /\ poll'.pc = "idle"
         /\ task' \in [Tasks -> Task] /\ poll' \in [pc: {"idle", "apply"}, ready: SUBSET Hosts]
         /\ ready' \in [Hosts -> {"unseen", "ready", "down"}]
         /\ waited' \in [Hosts -> 0..WakeInterval]
         /\ \A t \in Tasks : task'[t] = Idle
         /\ UNCHANGED <<config, rows, status, world>>
  BY IdleFields, Ages DEF Dies

\* Rows are written by a refresh, whole, and by the clock.
LEMMA RowsTyped ==
  ASSUME TypeInv, NEW t \in Tasks, Begins(t) \/ SkipsDisabled(t) \/ Stores(t) \/ Tick
  PROVE  rows' \in [Harnesses -> Row]
<1>1. rows \in [Harnesses -> Row] /\ task[t].age \in 0..Day
  BY DEF TypeInv, Task
<1>2. CASE Begins(t)
  <2>1. \A k \in Harnesses : Removed(rows[k]) \in Row
    BY <1>1, RemovedFields
  <2> QED
    BY <1>1, <1>2, <2>1 DEF Begins, Reconciled
<1>3. CASE SkipsDisabled(t)
  BY <1>1, <1>3, SkipsMoves, PermanentFields
<1>4. CASE Stores(t)
  BY <1>1, <1>4, StoresMoves, AnsweredFields
<1>5. CASE Tick
  <2>1. \A r \in Row : [r EXCEPT !.age = Older(r.age)] \in Row
    BY Ages DEF Row
  <2> QED
    BY <1>1, <1>5, <2>1 DEF Tick
<1> QED
  BY <1>2, <1>3, <1>4, <1>5

\* The frames of all steps but those that set one field are of the right form.
LEMMA TasksTyped ==
  ASSUME TypeInv, [Next]_vars
  PROVE  task' \in [Tasks -> Task]
<1> USE DEF process, edges, world
<1>1. task \in [Tasks -> Task] /\ Loop \in Tasks /\ Idle \in Task
  BY IdleFields DEF TypeInv, Tasks
<1>2. CASE Start \/ LoopWakes
  BY <1>1, <1>2, AskedFields DEF Start, LoopWakes
<1>3. ASSUME NEW c \in Clients, ClientAsks(c)
      PROVE  task' \in [Tasks -> Task]
  BY <1>1, <1>3, AskedFields DEF ClientAsks, Tasks
<1>4. ASSUME NEW t \in Tasks, Tries(t) \/ (t \in Hosts /\ GetsLock(t)) \/ Marks(t)
      PROVE  task' \in [Tasks -> Task]
  <2>1. \/ task' = [task EXCEPT ![t].pc = "begins"]
        \/ task' = [task EXCEPT ![t].pc = "probes"]
        \/ task' = [task EXCEPT ![t] = Idle]
    BY <1>4 DEF Tries, GetsLock, Marks
  <2> QED
    BY <1>1, <2>1, PcMoves, FreshMoves DEF GoesOn, Only
<1>5. ASSUME NEW t \in Tasks, Begins(t) \/ SkipsDisabled(t) \/ Probes(t) \/ Stores(t)
      PROVE  task' \in [Tasks -> Task]
  BY <1>5, BeginsMoves, SkipsMoves, ProbesMoves, StoresMoves DEF GoesOn, Only
<1>6. ASSUME NEW t \in Tasks, Ends(t)
      PROVE  task' \in [Tasks -> Task]
  BY <1>1, <1>6 DEF Ends
<1>7. ASSUME NEW t \in Tasks, Raises(t)
      PROVE  task' \in [Tasks -> Task]
  BY <1>1, <1>7, DiesMoves DEF Raises
<1>8. CASE PollApply \/ Tick \/ Crash
  BY <1>8, WokenMoves, TickMoves, DiesMoves DEF Crash
<1>9. CASE \/ PollAsk \/ UNCHANGED vars
           \/ \E h \in Hosts : HostFlips(h)
           \/ \E k \in Harnesses : CommandFlips(k) \/ Upgrades(k)
  BY <1>1, <1>9 DEF PollAsk, HostFlips, CommandFlips, Upgrades, vars
<1> QED
  BY <1>2, <1>3, <1>4, <1>5, <1>6, <1>7, <1>8, <1>9 DEF Next, TaskStep, Tasks

\* The other variables keep their types.
LEMMA TypeStep ==
  ASSUME TypeInv, [Next]_vars
  PROVE  TypeInv'
<1> USE DEF process, edges, world
<1> DEFINE Others ==
      /\ relay' \in {"down", "starting", "up"} /\ config' \in Configs
      /\ rows' \in [Harnesses -> Row]
      /\ status' \in [state: {"idle", "refreshing", "success", "error"}, age: 0..Day]
      /\ lock' \subseteq Tasks
      /\ ready' \in [Hosts -> {"unseen", "ready", "down"}]
      /\ waited' \in [Hosts -> 0..WakeInterval]
      /\ poll' \in [pc: {"idle", "apply"}, ready: SUBSET Hosts]
      /\ up' \subseteq Hosts
      /\ offer' \in [Harnesses -> [edition: 1..MaxEdition, installed: BOOLEAN]]
      /\ spent' \in [{"changes", "frames", "faults"} -> Nat]
<1> SUFFICES Others
  BY TasksTyped DEF TypeInv
<1>0. /\ relay \in {"down", "starting", "up"} /\ config \in Configs
      /\ rows \in [Harnesses -> Row]
      /\ status \in [state: {"idle", "refreshing", "success", "error"}, age: 0..Day]
      /\ lock \subseteq Tasks
      /\ ready \in [Hosts -> {"unseen", "ready", "down"}]
      /\ waited \in [Hosts -> 0..WakeInterval]
      /\ poll \in [pc: {"idle", "apply"}, ready: SUBSET Hosts]
      /\ up \subseteq Hosts
      /\ offer \in [Harnesses -> [edition: 1..MaxEdition, installed: BOOLEAN]]
      /\ spent \in [{"changes", "frames", "faults"} -> Nat]
      /\ Loop \in Tasks /\ Hosts \subseteq Tasks /\ Clients \subseteq Tasks
  BY DEF TypeInv, Tasks
<1>s. \A what : spent' = spent \/ Spend(what)
                => spent' \in [{"changes", "frames", "faults"} -> Nat]
  BY <1>0 DEF Spend
<1>1. CASE Start \/ LoopWakes
  BY <1>0, <1>1 DEF Start, LoopWakes
<1>2. ASSUME NEW c \in Clients, ClientAsks(c)
      PROVE  Others
  BY <1>0, <1>2, <1>s DEF ClientAsks
<1>3. ASSUME NEW t \in Tasks, Tries(t) \/ (t \in Hosts /\ GetsLock(t)) \/ Marks(t)
      PROVE  Others
  <2>1. lock' \subseteq Tasks
    BY <1>0, <1>3 DEF Tries, GetsLock, Marks
  <2>2. status' \in [state: {"idle", "refreshing", "success", "error"}, age: 0..Day]
    BY <1>0, <1>3, Zenon DEF Tries, GetsLock, Marks
  <2> QED
    BY <1>0, <1>3, <2>1, <2>2 DEF Tries, GetsLock, Marks
<1>4. ASSUME NEW t \in Tasks, Begins(t) \/ SkipsDisabled(t) \/ Stores(t)
      PROVE  Others
  BY <1>0, <1>4, RowsTyped, Zenon DEF Begins, SkipsDisabled, Stores
<1>5. ASSUME NEW t \in Tasks, Probes(t)
      PROVE  Others
  BY <1>0, <1>5, <1>s DEF Probes
<1>6. ASSUME NEW t \in Tasks, Ends(t)
      PROVE  Others
  <2>1. Recorded(t) \in [state: {"idle", "refreshing", "success", "error"}, age: 0..Day]
    BY <1>0 DEF Recorded, Outcome, TypeInv, Task
  <2> QED
    BY <1>0, <1>6, <2>1 DEF Ends
<1>7. ASSUME NEW t \in Tasks, Raises(t)
      PROVE  Others
  BY <1>0, <1>7, <1>s, DiesMoves DEF Raises, Released
<1>8. CASE Crash
  BY <1>0, <1>8, <1>s, DiesMoves DEF Crash
<1>9. CASE PollAsk
  <2>1. poll' \in [pc: {"idle", "apply"}, ready: SUBSET Hosts]
    BY <1>0, <1>9 DEF PollAsk
  <2> QED
    BY <1>0, <1>9, <1>s, <2>1 DEF PollAsk
<1>10. CASE PollApply
  BY <1>0, <1>10, Ages DEF PollApply
<1>11. CASE Tick
  <2>1. rows' \in [Harnesses -> Row]
    BY <1>0, <1>11, RowsTyped
  <2>2. status' \in [state: {"idle", "refreshing", "success", "error"}, age: 0..Day]
    BY <1>0, <1>11, Ages DEF Tick
  <2>3. waited' \in [Hosts -> 0..WakeInterval]
    BY <1>0, <1>11, Ages DEF Tick
  <2> QED
    BY <1>0, <1>11, <2>1, <2>2, <2>3 DEF Tick
<1>12. ASSUME NEW h \in Hosts, HostFlips(h)
       PROVE  Others
  BY <1>0, <1>12, <1>s DEF HostFlips
<1>13. ASSUME NEW k \in Harnesses, CommandFlips(k) \/ Upgrades(k)
       PROVE  Others
  <2>1. offer' \in [Harnesses -> [edition: 1..MaxEdition, installed: BOOLEAN]]
    <3> DEFINE Entry == [edition: 1..MaxEdition, installed: BOOLEAN]
    <3>1. \A f \in Entry : [f EXCEPT !.installed = ~f.installed] \in Entry
      OBVIOUS
    <3>2. \A f \in Entry : f.edition < MaxEdition => [f EXCEPT !.edition = f.edition + 1] \in Entry
      BY Ages
    <3>3. \/ offer' = [offer EXCEPT ![k] = [offer[k] EXCEPT !.installed = ~offer[k].installed]]
          \/ /\ offer[k].edition < MaxEdition
             /\ offer' = [offer EXCEPT ![k] = [offer[k] EXCEPT !.edition = offer[k].edition + 1]]
      BY <1>13 DEF CommandFlips, Upgrades
    <3>4. offer \in [Harnesses -> Entry]
      BY <1>0
    <3> HIDE DEF Entry
    <3>5. offer' \in [Harnesses -> Entry]
      BY <3>1, <3>2, <3>3, <3>4
    <3> QED
      BY <3>5 DEF Entry
  <2> QED
    BY <1>0, <1>13, <1>s, <2>1 DEF CommandFlips, Upgrades
<1>14. CASE UNCHANGED vars
  BY <1>0, <1>14 DEF vars
<1>h. Hosts \subseteq Tasks
  BY <1>0
<1> QED
  BY <1>h, <1>1, <1>2, <1>3, <1>4, <1>5, <1>6, <1>7, <1>8, <1>9, <1>10, <1>11, <1>12, <1>13, <1>14
  DEF Next, TaskStep

-----------------------------------------------------------------------------
(* The lock and the frames.                                                 *)

\* A frame inside _refresh.
Inside(f) == f.pc \in {"begins", "marks", "probes", "stores"}

\* How a step may change the lock: it stays, a task takes it while it is free,
\* its holder lets it go, or the process dies.
LockMove ==
    \/ lock' = lock /\ \A t \in Tasks : Inside(task'[t]) <=> Inside(task[t])
    \/ \E t \in Tasks : lock = {} /\ lock' = {t} /\ Inside(task'[t]) /\ Only(t)
    \/ \E t \in Tasks : lock' = lock \ {t} /\ ~Inside(task'[t]) /\ Only(t)
    \/ lock' = {} /\ \A t \in Tasks : ~Inside(task'[t])

\* A task that tries, waits or is idle refreshes nothing; one that asks does so
\* only while the relay serves.
Outside(t) ==
    /\ task'[t].pc \in {"idle", "tries", "waits"} /\ task'[t].age = 0
    /\ task'[t].pc = "tries" => t \notin Hosts
    /\ task'[t].pc # "idle" => relay = "up"

\* How a step may change the frame of a task.
TaskMove(t) ==
    \/ task'[t] = task[t]
    \/ Outside(t)
    \/ t = Loop /\ Start
    \/ /\ Tries(t) \/ (t \in Hosts /\ GetsLock(t) /\ Stale(t))
       /\ task'[t].pc = "begins" /\ GoesOn(t)
    \/ Begins(t) \/ Marks(t) \/ SkipsDisabled(t) \/ Probes(t) \/ Stores(t)
    \/ Tick

\* refresh_all and refresh_stale_host take the lock when it is free, or leave.
LEMMA TakesMoves ==
  ASSUME TypeInv, NEW t \in Tasks, Tries(t) \/ (t \in Hosts /\ GetsLock(t))
  PROVE  /\ task[t].pc \in {"tries", "waits"} /\ Only(t)
         /\ \/ task'[t] = Idle /\ lock' = lock
            \/ /\ lock = {} /\ lock' = {t} /\ task'[t].pc = "begins" /\ GoesOn(t)
               /\ GetsLock(t) => Stale(t) \/ Tries(t)
         /\ UNCHANGED <<relay, config, rows, status, edges, world, spent>>
<1>1. CASE task' = [task EXCEPT ![t] = Idle] /\ lock' = lock
  BY <1>1, FreshMoves, IdleFields DEF Tries, GetsLock
<1>2. CASE /\ task' = [task EXCEPT ![t].pc = "begins"] /\ lock = {} /\ lock' = {t}
           /\ GetsLock(t) => Stale(t) \/ Tries(t)
  BY <1>2, PcMoves DEF Tries, GetsLock, GoesOn
<1> QED
  BY <1>1, <1>2 DEF Tries, GetsLock

\* What a step does to the lock, to each frame, and to the relay's phase.
LEMMA TasksMove ==
  ASSUME TypeInv, LockOK, PhaseOK, [Next]_vars
  PROVE  LockMove /\ \A t \in Tasks : TaskMove(t)
<1> USE DEF process, edges, world
<1> DEFINE Goal == LockMove /\ \A t \in Tasks : TaskMove(t)
<1> SUFFICES Goal
  OBVIOUS
<1>0. /\ task \in [Tasks -> Task] /\ Loop \in Tasks /\ Loop \notin Hosts
      /\ Clients \subseteq Tasks /\ Hosts \subseteq Tasks /\ Hosts \cap Clients = {}
  BY ConstantsOK DEF TypeInv, Tasks
<1>1. CASE Start
  <2>1. lock = {}
    BY <1>1 DEF PhaseOK, LockOK, Refreshing, Start
  <2>2. lock' = {Loop} /\ task' = [task EXCEPT ![Loop] = Asked("begins", All)]
    BY <1>1 DEF Start
  <2> DEFINE g == Asked("begins", All)
  <2>3. g \in Task /\ g.pc = "begins"
    BY AskedFields
  <2>4. task' = [task EXCEPT ![Loop] = g]
    BY <2>2
  <2> HIDE DEF g
  <2>5. Only(Loop) /\ Inside(task'[Loop])
    BY <1>0, <2>3, <2>4, FreshMoves DEF Inside
  <2> QED
    BY <1>0, <1>1, <2>1, <2>2, <2>5 DEF LockMove, TaskMove, Only
<1>2. ASSUME NEW t \in Tasks, t \notin Hosts, LoopWakes \/ ClientAsks(t),
             \E scope \in Hosts \cup {All} : task' = [task EXCEPT ![t] = Asked("tries", scope)],
             task[t].pc = "idle"
      PROVE  Goal
  <2>1. Only(t) /\ task'[t].pc = "tries" /\ task'[t].age = 0
    <3>1. PICK scope \in Hosts \cup {All} : task' = [task EXCEPT ![t] = Asked("tries", scope)]
      BY <1>2
    <3> DEFINE g == Asked("tries", scope)
    <3>2. g \in Task /\ g.pc = "tries" /\ g.age = 0
      BY AskedFields
    <3>3. task' = [task EXCEPT ![t] = g]
      BY <3>1
    <3> HIDE DEF g
    <3> QED
      BY <3>2, <3>3, FreshMoves
  <2>2. lock' = lock /\ relay = "up"
    BY <1>2 DEF LoopWakes, ClientAsks
  <2> QED
    BY <1>2, <2>1, <2>2 DEF LockMove, TaskMove, Only, Inside, Outside
<1>3. CASE LoopWakes
  <2>1. task' = [task EXCEPT ![Loop] = Asked("tries", All)] /\ task[Loop].pc = "idle"
    BY <1>3 DEF LoopWakes
  <2> QED
    BY <1>0, <1>2, <1>3, <2>1
<1>4. ASSUME NEW c \in Clients, ClientAsks(c)
      PROVE  Goal
  <2>1. \E scope \in Hosts \cup {All} : task' = [task EXCEPT ![c] = Asked("tries", scope)]
    BY <1>4 DEF ClientAsks
  <2>2. task[c].pc = "idle" /\ c \in Tasks /\ c \notin Hosts
    BY <1>0, <1>4 DEF ClientAsks
  <2> QED
    BY <1>2, <1>4, <2>1, <2>2
<1>5. ASSUME NEW t \in Tasks, Tries(t) \/ (t \in Hosts /\ GetsLock(t))
      PROVE  Goal
  <2>1. CASE task'[t] = Idle /\ lock' = lock
    BY <1>5, <2>1, TakesMoves, IdleFields DEF LockMove, TaskMove, Only, Inside, Outside
  <2>2. CASE /\ lock = {} /\ lock' = {t} /\ task'[t].pc = "begins" /\ GoesOn(t)
             /\ GetsLock(t) => Stale(t) \/ Tries(t)
    <3>1. LockMove
      BY <1>5, <2>2, TakesMoves DEF LockMove, Inside
    <3>2. \A s \in Tasks : s # t => task'[s] = task[s]
      BY <1>5, TakesMoves DEF Only
    <3>3. TaskMove(t)
      BY <1>5, <2>2 DEF TaskMove
    <3> QED
      BY <3>1, <3>2, <3>3 DEF TaskMove
  <2> QED
    BY <1>5, <2>1, <2>2, TakesMoves
<1>6. ASSUME NEW t \in Tasks, Begins(t) \/ Marks(t) \/ SkipsDisabled(t) \/ Probes(t) \/ Stores(t)
      PROVE  Goal
  <2>1. lock' = lock
    BY <1>6, Zenon DEF Begins, Marks, SkipsDisabled, Probes, Stores
  <2>2. Marks(t) => GoesOn(t) /\ task[t].pc = "marks" /\ task'[t].pc = "probes"
    BY PcMoves DEF Marks
  <2>3. Only(t) /\ Inside(task[t]) /\ Inside(task'[t])
    BY <1>6, <2>2, BeginsMoves, SkipsMoves, ProbesMoves, StoresMoves DEF GoesOn, Inside
  <2>4. LockMove
    <3>1. \A s \in Tasks : Inside(task'[s]) <=> Inside(task[s])
      BY <2>3 DEF Only
    <3> QED
      BY <2>1, <3>1 DEF LockMove
  <2>5. TaskMove(t)
    BY <1>6 DEF TaskMove
  <2>6. \A s \in Tasks : s # t => TaskMove(s)
    BY <2>3 DEF TaskMove, Only
  <2> QED
    BY <2>4, <2>5, <2>6, Zenon
<1>7. ASSUME NEW t \in Tasks, Ends(t) \/ (Raises(t) /\ ~Dies)
      PROVE  Goal
  <2>1. lock' = lock \ {t} /\ task' = [task EXCEPT ![t] = Idle]
    BY <1>7 DEF Ends, Raises, Released
  <2>2. Only(t) /\ task'[t] = Idle
    BY <1>7, <2>1, FreshMoves, IdleFields
  <2> QED
    BY <1>7, <2>1, <2>2, IdleFields DEF LockMove, TaskMove, Only, Inside, Outside
<1>8. CASE Dies
  BY <1>8, DiesMoves, IdleFields DEF LockMove, TaskMove, Inside, Outside
<1>9. CASE PollApply
  <2>1. lock' = lock /\ relay = "up"
    BY <1>9 DEF PollApply, PhaseOK, TypeInv
  <2> QED
    BY <1>9, <2>1, WokenMoves DEF LockMove, TaskMove, Inside, Outside
<1>10. CASE Tick
  <2>1. lock' = lock
    BY <1>10 DEF Tick
  <2> QED
    BY <1>10, <2>1, TickMoves DEF LockMove, TaskMove, Inside
<1>11. CASE \/ PollAsk \/ UNCHANGED vars
            \/ \E h \in Hosts : HostFlips(h)
            \/ \E k \in Harnesses : CommandFlips(k) \/ Upgrades(k)
  <2>1. lock' = lock /\ task' = task
    BY <1>11 DEF PollAsk, HostFlips, CommandFlips, Upgrades, vars
  <2> QED
    BY <2>1 DEF LockMove, TaskMove
<1>12. Crash => Dies
  BY DEF Crash
<1> QED
  BY <1>0, <1>1, <1>3, <1>4, <1>5, <1>6, <1>7, <1>8, <1>9, <1>10, <1>11, <1>12
  DEF Next, TaskStep

\* At most one task is inside _refresh, and it holds the lock.
LEMMA LockStep ==
  ASSUME TypeInv, LockOK, PhaseOK, [Next]_vars
  PROVE  LockOK'
<1>1. lock = {t \in Tasks : Inside(task[t])} /\ \A s, t \in lock : s = t
  BY DEF LockOK, Refreshing, Inside
<1>2. /\ lock' = {t \in Tasks : Inside(task'[t])}
      /\ \A s, t \in lock' : s = t
  BY <1>1, TasksMove DEF LockMove, Only
<1> QED
  BY <1>2 DEF LockOK, Refreshing, Inside

\* Nobody but the start refreshes or polls before its refresh has ended.
LEMMA PhaseStep ==
  ASSUME TypeInv, LockOK, PhaseOK, [Next]_vars
  PROVE  PhaseOK'
<1> USE DEF process, edges, world
<1> DEFINE Goal == PhaseOK'
<1> SUFFICES Goal
  OBVIOUS
<1>0. /\ task \in [Tasks -> Task] /\ Loop \in Tasks /\ Hosts \subseteq Tasks
      /\ relay \in {"down", "starting", "up"} /\ Loop \notin Hosts
      /\ \A t \in lock : Inside(task[t])
  BY ConstantsOK DEF TypeInv, Tasks, LockOK, Refreshing, Inside
<1>1. CASE Start
  <2>1. /\ relay = "down" /\ relay' = "starting" /\ lock' = {Loop} /\ poll' = poll
        /\ task' = [task EXCEPT ![Loop] = Asked("begins", All)]
    BY <1>1 DEF Start
  <2>2. Only(Loop) /\ task'[Loop].scope = All
    <3> DEFINE g == Asked("begins", All)
    <3>1. g \in Task /\ g.scope = All
      BY AskedFields
    <3>2. task' = [task EXCEPT ![Loop] = g]
      BY <2>1
    <3> HIDE DEF g
    <3> QED
      BY <1>0, <3>1, <3>2, FreshMoves
  <2> QED
    BY <1>0, <2>1, <2>2 DEF PhaseOK, Only
<1>2. CASE relay' = "up"
  BY <1>2 DEF PhaseOK
<1>3. CASE Dies
  BY <1>0, <1>3, DiesMoves, IdleFields DEF PhaseOK
<1>4. ASSUME NEW t \in Tasks, Tries(t) \/ (t \in Hosts /\ GetsLock(t)), relay # "up"
      PROVE  FALSE
  <2>1. task[t].pc \in {"tries", "waits"}
    BY <1>4 DEF Tries, GetsLock
  <2> QED
    BY <1>0, <1>4, <2>1 DEF PhaseOK, Inside
<1>5. ASSUME NEW t \in Tasks, relay # "up",
             Begins(t) \/ Marks(t) \/ SkipsDisabled(t) \/ Probes(t) \/ Stores(t)
      PROVE  Goal
  <2>1. relay' = relay /\ poll' = poll /\ lock' = lock
    BY <1>5, Zenon DEF Begins, Marks, SkipsDisabled, Probes, Stores
  <2>2. Marks(t) => GoesOn(t) /\ task[t].pc = "marks" /\ task'[t].pc = "probes"
    BY PcMoves DEF Marks
  <2>3. GoesOn(t) /\ task[t].pc # "idle"
    BY <1>5, <2>2, BeginsMoves, SkipsMoves, ProbesMoves, StoresMoves
  <2>4. t = Loop /\ relay = "starting"
    BY <1>0, <1>5, <2>3 DEF PhaseOK
  <2> QED
    BY <1>5, <2>1, <2>3, <2>4 DEF PhaseOK, GoesOn, Only
<1>6. ASSUME NEW t \in Tasks, Raises(t), ~Dies, relay # "up"
      PROVE  FALSE
  BY <1>0, <1>6 DEF Raises, PhaseOK
<1>7. ASSUME LoopWakes \/ PollAsk \/ PollApply \/ \E c \in Clients : ClientAsks(c), relay # "up"
      PROVE  FALSE
  BY <1>7 DEF LoopWakes, PollAsk, PollApply, ClientAsks, PhaseOK
<1>8. CASE Tick
  <2>1. relay' = relay /\ poll' = poll /\ lock' = lock
    BY <1>8 DEF Tick
  <2> QED
    BY <1>0, <1>8, <2>1, TickMoves DEF PhaseOK
<1>9. CASE \/ UNCHANGED vars
           \/ \E h \in Hosts : HostFlips(h)
           \/ \E k \in Harnesses : CommandFlips(k) \/ Upgrades(k)
  <2>1. relay' = relay /\ poll' = poll /\ lock' = lock /\ task' = task
    BY <1>9 DEF HostFlips, CommandFlips, Upgrades, vars
  <2> QED
    BY <2>1 DEF PhaseOK
<1>10. Crash => Dies
  BY DEF Crash
<1>11. \A t \in Tasks : Ends(t) => relay' = "up"
  BY DEF Ends
<1>12. relay = "up" => relay' = "up" \/ Dies
  <2>1. ASSUME NEW t \in Tasks, TaskStep(t) \/ Raises(t)
        PROVE  relay = "up" => relay' = "up" \/ Dies
    BY <2>1, Zenon DEF TaskStep, Tries, Begins, Marks, SkipsDisabled, Probes, Stores, Ends, Raises
  <2>2. Start => relay # "up"
    BY DEF Start
  <2>3. ASSUME \/ LoopWakes \/ PollAsk \/ PollApply \/ Tick \/ \E c \in Clients : ClientAsks(c)
               \/ \E h \in Hosts : GetsLock(h) \/ HostFlips(h)
               \/ \E k \in Harnesses : CommandFlips(k) \/ Upgrades(k)
               \/ UNCHANGED vars
        PROVE  relay' = relay
    BY <2>3 DEF LoopWakes, PollAsk, PollApply, Tick, ClientAsks, GetsLock, HostFlips, CommandFlips,
           Upgrades, vars
  <2> QED
    BY <1>10, <2>1, <2>2, <2>3 DEF Next
<1>13. CASE relay # "up"
  BY <1>0, <1>1, <1>2, <1>3, <1>4, <1>5, <1>6, <1>7, <1>8, <1>9, <1>10, <1>11, <1>13
  DEF Next, TaskStep
<1> QED
  BY <1>2, <1>3, <1>12, <1>13

-----------------------------------------------------------------------------
(* What a step does to a row, and to the schedule.                          *)

\* The configuration is read at a start, rows are written by the refresh under
\* the lock and aged by the clock, and editions only grow.
Effects ==
    /\ config' = config \/ Start
    /\ rows' = rows \/ Tick \/ \E t \in Tasks : Begins(t) \/ SkipsDisabled(t) \/ Stores(t)
    /\ \A k \in Harnesses : offer'[k].edition >= offer[k].edition
    /\ offer' = offer \/ rows' = rows
    /\ \/ status'.age = status.age \/ Tick
       \/ \E t \in Tasks : Ends(t)
    /\ relay' = "up" => relay = "up" \/ \E t \in Tasks : Ends(t)

\* Each of these variables has few writers.
LEMMA StepEffects ==
  ASSUME TypeInv, [Next]_vars
  PROVE  Effects
<1> USE DEF process, edges, world
<1>0. /\ offer \in [Harnesses -> [edition: 1..MaxEdition, installed: BOOLEAN]]
      /\ status \in [state: {"idle", "refreshing", "success", "error"}, age: 0..Day]
      /\ \A k \in Harnesses : offer[k].edition \in Nat
      /\ Hosts \subseteq Tasks
  BY DEF TypeInv, Tasks
<1>1. CASE \/ Start \/ LoopWakes \/ PollAsk \/ PollApply \/ UNCHANGED vars
           \/ \E c \in Clients : ClientAsks(c)
           \/ \E h \in Hosts : HostFlips(h)
  BY <1>0, <1>1
  DEF Effects, Start, LoopWakes, PollAsk, PollApply, ClientAsks, HostFlips, vars
<1>2. CASE Tick
  BY <1>0, <1>2 DEF Effects, Tick
<1>3. ASSUME NEW t \in Tasks, Tries(t) \/ (t \in Hosts /\ GetsLock(t)) \/ Probes(t)
      PROVE  Effects
  <2>1. UNCHANGED <<relay, config, rows, status, offer>>
    BY <1>3 DEF Tries, GetsLock, Probes
  <2> QED
    BY <1>0, <2>1 DEF Effects
<1>r. ASSUME NEW t \in Tasks, Begins(t) \/ SkipsDisabled(t) \/ Stores(t)
      PROVE  Effects
  <2>1. UNCHANGED <<relay, config, status, offer>>
    BY <1>r, Zenon DEF Begins, SkipsDisabled, Stores
  <2> QED
    BY <1>0, <1>r, <2>1 DEF Effects
<1>4. ASSUME NEW t \in Tasks, Marks(t)
      PROVE  Effects
  <2>1. status'.age = status.age
    BY <1>0, <1>4 DEF Marks
  <2> QED
    BY <1>0, <1>4, <2>1 DEF Effects, Marks
<1>5. ASSUME NEW t \in Tasks, Ends(t)
      PROVE  Effects
  <2>1. UNCHANGED <<config, rows, offer>>
    BY <1>5 DEF Ends
  <2> QED
    BY <1>0, <1>5, <2>1 DEF Effects
<1>6. ASSUME NEW t \in Tasks, Raises(t)
      PROVE  Effects
  BY <1>0, <1>6 DEF Effects, Raises, Dies
<1>8. CASE Crash
  BY <1>0, <1>8 DEF Effects, Crash, Dies
<1>7. ASSUME NEW k \in Harnesses, CommandFlips(k) \/ Upgrades(k)
      PROVE  Effects
  <2>1. \A f \in [edition: 1..MaxEdition, installed: BOOLEAN] :
           /\ [f EXCEPT !.installed = ~f.installed].edition = f.edition
           /\ [f EXCEPT !.edition = f.edition + 1].edition = f.edition + 1
    OBVIOUS
  <2>2. \/ offer' = [offer EXCEPT ![k] = [offer[k] EXCEPT !.installed = ~offer[k].installed]]
        \/ offer' = [offer EXCEPT ![k] = [offer[k] EXCEPT !.edition = offer[k].edition + 1]]
    BY <1>7 DEF CommandFlips, Upgrades
  <2>3. \A j \in Harnesses : offer'[j].edition >= offer[j].edition
    BY <1>0, <2>1, <2>2
  <2> QED
    BY <1>0, <1>7, <2>3 DEF Effects, CommandFlips, Upgrades
<1>h. Hosts \subseteq Tasks
  BY <1>0
<1> QED
  BY <1>h, <1>1, <1>2, <1>3, <1>r, <1>4, <1>5, <1>6, <1>7, <1>8 DEF Next, TaskStep

\* The refresh of t writes the row of one of the harnesses it has to do.
Writes(t, k) ==
    /\ t \in lock /\ task[t].pc \in {"probes", "stores"} /\ k \in task[t].todo
    /\ task'[t].pc = "probes" /\ GoesOn(t) /\ task'[t].todo = task[t].todo \ {k}
    /\ \A j \in Harnesses : j # k => rows'[j] = rows[j]
    /\ rows'[k].kept /\ rows'[k].age = task[t].age
    /\ k \notin Enabled => ~rows'[k].available
    /\ rows'[k].models # 0 => rows[k].models <= rows'[k].models
    /\ rows'[k].models <= offer[k].edition
    /\ rows'[k].models = 0 /\ rows[k].models # 0 => rows'[k].disabled

\* A refresh that begins reconciles the rows with the configuration.
Reconciles ==
    /\ \E t \in lock : Begins(t)
    /\ \A k \in Harnesses :
         \/ rows'[k] = rows[k] /\ (k \notin Configured => ~rows[k].kept)
         \/ k \notin Configured /\ rows[k].kept /\ rows'[k] = Removed(rows[k])

\* The same row, a tick later.
Aged(r, s) ==
    /\ s.age = Older(r.age) /\ s.kept = r.kept /\ s.available = r.available
    /\ s.models = r.models /\ s.stale = r.stale /\ s.disabled = r.disabled

\* How a step may change the rows.
RowsMove ==
    \/ rows' = rows
    \/ Tick /\ \A k \in Harnesses : Aged(rows[k], rows'[k])
    \/ Reconciles
    \/ \E t \in Tasks, k \in Harnesses : Writes(t, k)

\* A refresh writes the harness it skips, or the one it probed.
LEMMA RefreshWrites ==
  ASSUME TypeInv, LockOK, RowsOK, NEW t \in Tasks, FrameOK(t), EditionOK(t),
         SkipsDisabled(t) \/ Stores(t)
  PROVE  \E k \in Harnesses : Writes(t, k)
<1>0. /\ rows \in [Harnesses -> Row] /\ task \in [Tasks -> Task]
      /\ \A s \in Tasks : task[s].age \in 0..Day
      /\ \A k \in Harnesses : offer[k].edition \in Nat
      /\ \A s \in Tasks : Inside(task[s]) => s \in lock
  BY DEF TypeInv, Task, LockOK, Refreshing, Inside
<1>3. CASE SkipsDisabled(t)
  <2>1. PICK k \in task[t].todo \ Enabled :
          /\ k \in Harnesses /\ rows' = [rows EXCEPT ![k] = Permanent(task[t].age)]
          /\ task'[t].todo = task[t].todo \ {k}
    BY <1>3, SkipsMoves
  <2>2. GoesOn(t) /\ task[t].pc = "probes" /\ task'[t].pc = "probes" /\ t \in lock
    BY <1>0, <1>3, SkipsMoves DEF Inside
  <2> DEFINE row == Permanent(task[t].age)
  <2>3. /\ row.kept /\ ~row.available /\ row.models = 0 /\ row.disabled
        /\ row.age = task[t].age
    BY <1>0, PermanentFields
  <2>4. rows'[k] = row /\ \A j \in Harnesses : j # k => rows'[j] = rows[j]
    BY <1>0, <2>1
  <2> HIDE DEF row
  <2>5. Writes(t, k)
    BY <1>0, <2>1, <2>2, <2>3, <2>4 DEF Writes
  <2> QED
    BY <2>1, <2>5
<1>4. CASE Stores(t)
  <2>1. PICK k \in task[t].now :
          /\ k \in Harnesses /\ rows' = [rows EXCEPT ![k] = Answered(t, k)]
          /\ task'[t].todo = task[t].todo \ {k}
    BY <1>4, StoresMoves
  <2>2. GoesOn(t) /\ task[t].pc = "stores" /\ task'[t].pc = "probes" /\ t \in lock
    BY <1>0, <1>4, StoresMoves DEF Inside
  <2>3. k \in task[t].todo \cap Enabled
    BY <2>1, <2>2 DEF FrameOK
  <2> DEFINE row == Answered(t, k)
  <2>4. /\ row.kept /\ row.age = task[t].age
        /\ task[t].found = "listing" => row.models = task[t].edition
        /\ task[t].found = "missing" => row.models = 0 /\ row.disabled
        /\ task[t].found = "nothing" => row.models = rows[k].models
    BY <2>1, AnsweredFields
  <2>5. rows'[k] = row /\ \A j \in Harnesses : j # k => rows'[j] = rows[j]
    BY <1>0, <2>1
  <2>6. /\ task[t].found \in {"listing", "missing", "nothing"}
        /\ rows[k].models \in Nat /\ rows[k].models <= offer[k].edition
    BY <1>0, <2>1, Ages DEF Task, RowsOK, Row
  <2>7. task[t].found = "listing" =>
          /\ task[t].edition # 0 /\ rows[k].models <= task[t].edition
          /\ task[t].edition <= offer[k].edition
    BY <2>1, <2>2 DEF EditionOK
  <2> HIDE DEF row
  <2>8. Writes(t, k)
    BY <1>0, <2>1, <2>2, <2>3, <2>4, <2>5, <2>6, <2>7 DEF Writes
  <2> QED
    BY <2>1, <2>8
<1> QED
  BY <1>3, <1>4

\* The ways the rows change, with what is known of each.
LEMMA RowsAreMoved ==
  ASSUME TypeInv, LockOK, RowsOK, \A t \in Tasks : FrameOK(t) /\ EditionOK(t), [Next]_vars
  PROVE  RowsMove
<1>0. /\ rows \in [Harnesses -> Row] /\ task \in [Tasks -> Task]
      /\ \A t \in Tasks : task[t].age \in 0..Day
      /\ \A k \in Harnesses : offer[k].edition \in Nat
      /\ \A t \in Tasks : Inside(task[t]) => t \in lock
  BY DEF TypeInv, Task, LockOK, Refreshing, Inside
<1>1. CASE Tick
  <2>1. \A r \in Row : Aged(r, [r EXCEPT !.age = Older(r.age)])
    BY DEF Row, Aged
  <2> QED
    BY <1>0, <1>1, <2>1 DEF Tick, RowsMove
<1>2. ASSUME NEW t \in Tasks, Begins(t)
      PROVE  RowsMove
  <2>1. t \in lock
    BY <1>0, <1>2 DEF Begins, Inside
  <2>2. \A k \in Harnesses : rows'[k] = IF rows[k].kept /\ k \notin Configured
                                         THEN Removed(rows[k]) ELSE rows[k]
    BY <1>2 DEF Begins, Reconciled
  <2> QED
    BY <1>2, <2>1, <2>2 DEF RowsMove, Reconciles
<1>3. ASSUME NEW t \in Tasks, SkipsDisabled(t) \/ Stores(t)
      PROVE  RowsMove
  BY <1>3, RefreshWrites DEF RowsMove
<1>5. CASE rows' = rows
  BY <1>5 DEF RowsMove
<1> QED
  BY <1>1, <1>2, <1>3, <1>5, StepEffects DEF Effects

-----------------------------------------------------------------------------
(* The invariant is kept.                                                   *)

\* What is kept by each of the steps below.
Before == /\ TypeInv /\ LockOK /\ PhaseOK /\ RowsOK
          /\ \A t \in Tasks : FrameOK(t) /\ EditionOK(t)

\* While the refresh of t stands still, nobody but the clock touches the tables.
LEMMA NobodyElseWrites ==
  ASSUME Before, [Next]_vars, NEW t \in Tasks, Inside(task'[t]), task'[t] = task[t], ~Tick
  PROVE  rows' = rows /\ status'.age = status.age /\ ~Start
<1>1. t \in lock /\ (\A s \in lock : s = t) /\ t \in lock'
  BY LockStep DEF Before, LockOK, Refreshing, Inside
<1>2. ASSUME NEW s \in Tasks, Ends(s)
      PROVE  FALSE
  <2>1. s \in lock /\ lock' = lock \ {s}
    BY <1>2 DEF Ends, Before, LockOK, Refreshing
  <2> QED
    BY <1>1, <2>1
<1>3. ASSUME NEW s \in lock, Begins(s)
      PROVE  FALSE
  BY <1>1, <1>3, BeginsMoves DEF Before
<1>4. ASSUME NEW s \in Tasks, NEW k \in Harnesses, Writes(s, k)
      PROVE  FALSE
  BY <1>1, <1>4 DEF Writes
<1>5. ~Start
  BY <1>1 DEF Start, Before, PhaseOK, Inside, LockOK, Refreshing
<1> QED
  BY <1>2, <1>3, <1>4, <1>5, RowsAreMoved, StepEffects DEF Before, RowsMove, Reconciles, Effects

\* reconcile and the answers of probes keep to what the hosts have listed.
LEMMA RowsStep ==
  ASSUME Before, [Next]_vars
  PROVE  RowsOK'
<1> SUFFICES ASSUME NEW k \in Harnesses
             PROVE  /\ ~rows'[k].kept => ~rows'[k].available
                    /\ rows'[k].models <= offer'[k].edition
  BY DEF RowsOK
<1>0. /\ rows[k] \in Row /\ rows[k].models \in Nat /\ rows'[k].models \in Nat
      /\ offer[k].edition \in Nat /\ offer'[k].edition \in Nat
      /\ rows[k].models <= offer[k].edition /\ (~rows[k].kept => ~rows[k].available)
      /\ offer'[k].edition >= offer[k].edition
  BY TypeStep, StepEffects, Ages DEF Before, TypeInv, Row, RowsOK, Effects
<1>1. CASE rows'[k] = rows[k]
  BY <1>0, <1>1
<1>2. CASE Aged(rows[k], rows'[k])
  BY <1>0, <1>2 DEF Aged
<1>3. CASE rows'[k] = Removed(rows[k])
  BY <1>0, <1>3, RemovedFields
<1>4. CASE \E t \in Tasks : Writes(t, k)
  BY <1>0, <1>4 DEF Writes
<1> QED
  BY <1>1, <1>2, <1>3, <1>4, RowsAreMoved DEF Before, RowsMove, Reconciles, Writes

\* A refresh keeps to its scope and to the harness it probed.
LEMMA FrameStep ==
  ASSUME Before, [Next]_vars, NEW t \in Tasks
  PROVE  FrameOK(t)'
<1> USE DEF Before
<1>0. /\ FrameOK(t) /\ LockOK' /\ (t \in lock' <=> Inside(task'[t]))
      /\ (t \in lock <=> Inside(task[t]))
  BY LockStep DEF LockOK, Refreshing, Inside
<1>1. TaskMove(t)
  BY TasksMove
<1>c. config' = config /\ task'[t].scope = task[t].scope =>
        Within(task[t].scope)' = Within(task[t].scope) /\ Enabled' = Enabled
  BY DEF Configured, Within, Enabled
<1>2. CASE t = Loop /\ Start
  <2>1. task'[t].pc = "begins" /\ t \notin Hosts
    <3>1. task' = [task EXCEPT ![Loop] = Asked("begins", All)]
      BY <1>2 DEF Start
    <3>2. Asked("begins", All).pc = "begins"
      BY AskedFields
    <3> QED
      BY <1>2, <3>1, <3>2, ConstantsOK DEF TypeInv
  <2> QED
    BY <1>0, <2>1 DEF FrameOK, Inside
<1>3. CASE Outside(t)
  BY <1>0, <1>3 DEF FrameOK, Outside
<1>4. CASE task'[t].pc = "begins"
  BY <1>0, <1>4 DEF FrameOK, Inside
<1>5. CASE task'[t] = task[t]
  <2>1. CASE ~Inside(task[t])
    BY <1>0, <1>5, <2>1 DEF FrameOK, Inside
  <2>2. CASE Inside(task[t])
    <3>1. config' = config
      BY <1>5, <2>2, StepEffects DEF Effects, Start, PhaseOK, LockOK, Refreshing, Inside
    <3> QED
      BY <1>0, <1>5, <1>c, <2>2, <3>1 DEF FrameOK, Inside
  <2> QED
    BY <2>1, <2>2
<1>6. CASE Tick
  <2>1. config' = config
    BY <1>6 DEF Tick
  <2>2. t \notin lock => task'[t] = task[t]
    BY <1>6, TickMoves
  <2>3. /\ task'[t].pc = task[t].pc /\ task'[t].scope = task[t].scope
        /\ task'[t].todo = task[t].todo /\ task'[t].now = task[t].now
    BY <1>6, TickMoves
  <2> QED
    BY <1>0, <1>c, <2>1, <2>2, <2>3 DEF FrameOK, Inside
<1>7. CASE Begins(t)
  <2>1. config' = config /\ t \in Tasks
    BY <1>7 DEF Begins
  <2>2. /\ task'[t].pc \in {"marks", "probes"} /\ task'[t].scope = task[t].scope
        /\ task'[t].todo = Within(task[t].scope)
    BY <1>7, BeginsMoves DEF GoesOn
  <2> QED
    BY <1>0, <1>c, <2>1, <2>2 DEF FrameOK, Inside
<1>8. CASE Marks(t)
  <2>1. config' = config /\ task[t].pc = "marks"
    BY <1>8 DEF Marks
  <2>2. /\ task'[t].pc = "probes" /\ task'[t].scope = task[t].scope
        /\ task'[t].todo = task[t].todo
    BY <1>8, PcMoves DEF GoesOn, Marks
  <2> QED
    BY <1>0, <1>c, <2>1, <2>2 DEF FrameOK, Inside
<1>9. CASE SkipsDisabled(t)
  <2>1. config' = config
    BY <1>9 DEF SkipsDisabled
  <2>2. /\ task[t].pc = "probes" /\ task'[t].pc = "probes" /\ task'[t].scope = task[t].scope
        /\ task'[t].todo \subseteq task[t].todo
    BY <1>9, SkipsMoves DEF GoesOn
  <2> QED
    BY <1>0, <1>c, <2>1, <2>2 DEF FrameOK, Inside
<1>10. CASE Probes(t)
  <2>1. config' = config
    BY <1>10 DEF Probes
  <2>2. /\ task[t].pc = "probes" /\ task'[t].pc = "stores" /\ task'[t].scope = task[t].scope
        /\ task'[t].todo = task[t].todo
        /\ \E k \in task[t].todo \cap Enabled : task'[t].now = {k}
    BY <1>10, ProbesMoves DEF GoesOn
  <2> QED
    BY <1>0, <1>c, <2>1, <2>2 DEF FrameOK, Inside
<1>11. CASE Stores(t)
  <2>1. config' = config
    BY <1>11 DEF Stores
  <2>2. /\ task[t].pc = "stores" /\ task'[t].pc = "probes" /\ task'[t].scope = task[t].scope
        /\ task'[t].todo \subseteq task[t].todo
    BY <1>11, StoresMoves DEF GoesOn
  <2> QED
    BY <1>0, <1>c, <2>1, <2>2 DEF FrameOK, Inside
<1> QED
  BY <1>1, <1>2, <1>3, <1>4, <1>5, <1>6, <1>7, <1>8, <1>9, <1>10, <1>11 DEF TaskMove

\* A probe finds what its host has by now, and a row what it had before.
LEMMA EditionStep ==
  ASSUME Before, [Next]_vars, NEW t \in Tasks
  PROVE  EditionOK(t)'
<1> USE DEF Before
<1>0. /\ EditionOK(t) /\ TaskMove(t)
      /\ \A k \in Harnesses : /\ rows[k].models \in Nat /\ rows[k].models <= offer[k].edition
                              /\ offer[k].edition \in Nat \ {0} /\ offer'[k].edition \in Nat
                              /\ offer'[k].edition >= offer[k].edition
      /\ task[t].edition \in Nat /\ task[t].now \subseteq Harnesses
  BY TasksMove, TypeStep, StepEffects, Ages DEF TypeInv, Row, Task, RowsOK, Effects
<1>1. CASE task'[t] = task[t] /\ ~Tick
  <2>1. CASE task[t].pc = "stores"
    <3>1. rows' = rows
      BY <1>1, <2>1, NobodyElseWrites DEF Inside
    <3> QED
      BY <1>0, <1>1, <3>1 DEF EditionOK
  <2> QED
    BY <1>1, <2>1 DEF EditionOK
<1>2. CASE Tick
  <2>1. /\ task'[t].pc = task[t].pc /\ task'[t].now = task[t].now
        /\ task'[t].found = task[t].found /\ task'[t].edition = task[t].edition
    BY <1>2, TickMoves
  <2>2. \A r \in Row : [r EXCEPT !.age = Older(r.age)].models = r.models
    BY DEF Row
  <2>3. \A k \in Harnesses : rows'[k].models = rows[k].models
    BY <1>2, <2>2 DEF Tick, TypeInv
  <2> QED
    BY <1>0, <2>1, <2>3 DEF EditionOK
<1>3. CASE Probes(t)
  <2>1. PICK k \in task[t].todo \cap Enabled :
          /\ k \in Harnesses /\ task'[t].now = {k}
          /\ task'[t].found = "listing" => task'[t].edition = offer[k].edition
    BY <1>3, ProbesMoves
  <2>2. rows' = rows
    BY <1>3 DEF Probes
  <2> QED
    BY <1>0, <2>1, <2>2 DEF EditionOK
<1>4. CASE task'[t].pc # "stores"
  BY <1>4 DEF EditionOK
<1>5. t = Loop /\ Start => task'[t].pc = "begins"
  <2>1. Start => task' = [task EXCEPT ![Loop] = Asked("begins", All)]
    BY DEF Start
  <2>2. Asked("begins", All).pc = "begins"
    BY AskedFields
  <2> QED
    BY <2>1, <2>2 DEF TypeInv
<1>6. Marks(t) => task'[t].pc = "probes"
  BY PcMoves DEF Marks
<1> QED
  BY <1>0, <1>1, <1>2, <1>3, <1>4, <1>5, <1>6, BeginsMoves, SkipsMoves, StoresMoves
  DEF TaskMove, Outside

\* A refresh never gets older than the schedule, and leaves behind it only
\* rows that it has written.
LEMMA CoverStep ==
  ASSUME Before, \A t \in lock : CoverOK(t), [Next]_vars, NEW t \in Tasks, t \in lock'
  PROVE  CoverOK(t)'
<1> USE DEF Before
<1>0. /\ TaskMove(t) /\ Inside(task'[t]) /\ (Inside(task[t]) => t \in lock)
      /\ FrameOK(t) /\ (t \in lock => CoverOK(t))
      /\ status.age \in 0..Day /\ status'.age \in 0..Day
      /\ task[t].age \in 0..Day /\ \A k \in Harnesses : rows[k].age \in 0..Day
      /\ Configured \subseteq Harnesses
  BY TasksMove, TypeStep, LockStep, Scopes DEF TypeInv, Task, Row, LockOK, Refreshing, Inside
<1>c. config' = config /\ task'[t].scope = task[t].scope =>
        /\ Within(task[t].scope)' = Within(task[t].scope) /\ Enabled' = Enabled
        /\ Configured' = Configured /\ Within(task[t].scope) \subseteq Harnesses
  BY Scopes DEF Configured, Within, Enabled
<1>1. CASE task'[t].pc = "begins" /\ task'[t].age = 0
  BY <1>0, <1>1, Ages DEF CoverOK
<1>2. CASE task'[t] = task[t] /\ ~Tick
  <2>1. rows' = rows /\ status'.age = status.age /\ config' = config
    BY <1>0, <1>2, NobodyElseWrites, StepEffects DEF Effects
  <2> QED
    BY <1>0, <1>2, <1>c, <2>1 DEF CoverOK
<1>3. CASE Tick
  <2>1. /\ task'[t].pc = task[t].pc /\ task'[t].scope = task[t].scope
        /\ task'[t].todo = task[t].todo /\ (t \in lock => task'[t].age = Older(task[t].age))
    BY <1>3, TickMoves
  <2>2. \A r \in Row : Aged(r, [r EXCEPT !.age = Older(r.age)])
    BY DEF Row, Aged
  <2>3. \A k \in Harnesses : Aged(rows[k], rows'[k])
    BY <1>3, <2>2 DEF Tick, TypeInv
  <2>4. config' = config /\ status'.age = Older(status.age)
    BY <1>3 DEF Tick, TypeInv
  <2>5. CoverOK(t) /\ t \in lock
    BY <1>0, <2>1 DEF Inside
  <2>6. task'[t].age <= status'.age
    BY <1>0, <2>1, <2>4, <2>5, Ages DEF CoverOK
  <2>7. ASSUME task[t].pc \in {"marks", "probes", "stores"}
        PROVE  /\ \A k \in Harnesses \ Configured : ~rows'[k].available
               /\ \A k \in Within(task[t].scope) \ task[t].todo :
                    /\ rows'[k].kept /\ rows'[k].age <= task'[t].age
                    /\ k \notin Enabled => ~rows'[k].available
    BY <1>0, <1>c, <2>1, <2>3, <2>4, <2>5, <2>7, Ages DEF CoverOK, Aged
  <2> QED
    BY <1>c, <2>1, <2>4, <2>6, <2>7 DEF CoverOK
<1>4. CASE Begins(t)
  <2>1. /\ config' = config /\ status' = status
        /\ \A k \in Harnesses : rows'[k] = IF rows[k].kept /\ k \notin Configured
                                           THEN Removed(rows[k]) ELSE rows[k]
    BY <1>4 DEF Begins, Reconciled
  <2>2. /\ task'[t].scope = task[t].scope /\ task'[t].age = task[t].age
        /\ task'[t].todo = Within(task[t].scope) /\ t \in lock
    BY <1>0, <1>4, BeginsMoves DEF GoesOn, Inside
  <2>3. \A k \in Harnesses \ Configured : ~rows'[k].available
    BY <2>1, RemovedFields DEF RowsOK, TypeInv
  <2> QED
    BY <1>0, <1>c, <2>1, <2>2, <2>3 DEF CoverOK
<1>5. CASE Marks(t) \/ Probes(t)
  <2>1. config' = config /\ status'.age = status.age /\ rows' = rows
    BY <1>5 DEF Marks, Probes, TypeInv
  <2>2. /\ GoesOn(t) /\ task'[t].todo = task[t].todo /\ task'[t].pc \in {"probes", "stores"}
        /\ task[t].pc \in {"marks", "probes"}
    BY <1>5, ProbesMoves, PcMoves DEF Marks
  <2> QED
    BY <1>0, <1>c, <2>1, <2>2 DEF CoverOK, GoesOn, Inside
<1>6. CASE SkipsDisabled(t) \/ Stores(t)
  <2>1. PICK k \in Harnesses : Writes(t, k)
    BY <1>6, RefreshWrites
  <2>2. config' = config /\ status' = status
    BY <1>6, Zenon DEF SkipsDisabled, Stores
  <2>3. /\ task'[t].scope = task[t].scope /\ task'[t].age = task[t].age /\ CoverOK(t)
        /\ task[t].pc \in {"probes", "stores"} /\ task'[t].pc = "probes"
        /\ task'[t].todo = task[t].todo \ {k} /\ k \in Within(task[t].scope)
        /\ \A j \in Harnesses : j # k => rows'[j] = rows[j]
        /\ rows'[k].kept /\ rows'[k].age = task[t].age
        /\ k \notin Enabled => ~rows'[k].available
    BY <1>0, <2>1 DEF Writes, GoesOn, FrameOK
  <2>4. k \in Configured
    BY <2>3, Scopes
  <2>5. \A j \in Harnesses \ Configured : ~rows'[j].available
    BY <2>3, <2>4 DEF CoverOK
  <2>6. \A j \in Within(task[t].scope) \ task'[t].todo :
           /\ rows'[j].kept /\ rows'[j].age <= task'[t].age
           /\ j \notin Enabled => ~rows'[j].available
    <3> SUFFICES ASSUME NEW j \in Within(task[t].scope) \ task'[t].todo
                 PROVE  /\ rows'[j].kept /\ rows'[j].age <= task'[t].age
                        /\ j \notin Enabled => ~rows'[j].available
      OBVIOUS
    <3>1. CASE j = k
      BY <1>0, <2>3, <3>1
    <3>2. CASE j # k
      BY <1>0, <1>c, <2>2, <2>3, <3>2 DEF CoverOK
    <3> QED
      BY <3>1, <3>2
  <2> QED
    BY <1>0, <1>c, <2>2, <2>3, <2>5, <2>6 DEF CoverOK
<1>7. CASE t = Loop /\ Start
  <2>1. task' = [task EXCEPT ![Loop] = Asked("begins", All)]
    BY <1>7 DEF Start
  <2>2. Asked("begins", All).pc = "begins" /\ Asked("begins", All).age = 0
    BY AskedFields
  <2> QED
    BY <1>1, <1>7, <2>1, <2>2 DEF TypeInv
<1>8. CASE task'[t].pc = "begins" /\ GoesOn(t) /\ (Tries(t) \/ GetsLock(t))
  <2>1. t \notin lock
    BY <1>8 DEF Tries, GetsLock, LockOK, Refreshing
  <2> QED
    BY <1>0, <1>1, <1>8, <2>1 DEF FrameOK, GoesOn
<1> QED
  BY <1>0, <1>2, <1>3, <1>4, <1>5, <1>6, <1>7, <1>8 DEF TaskMove, Outside, Inside

\* The schedule is advanced by a full refresh that left nothing undone, and
\* nobody makes a row older than the refresh the schedule counts from.
LEMMA ScheduleStep ==
  ASSUME Before, \A t \in lock : CoverOK(t), ScheduleCoversEveryHarness, RemovedIsNotOffered,
         [Next]_vars
  PROVE  ScheduleCoversEveryHarness' /\ RemovedIsNotOffered'
<1> USE DEF Before
<1> SUFFICES ASSUME relay' = "up", NEW k \in Harnesses
             PROVE  /\ k \in Configured' =>
                         rows'[k].kept /\ rows'[k].age <= status'.age
                    /\ k \notin Enabled' => ~rows'[k].available
  BY Scopes DEF ScheduleCoversEveryHarness, RemovedIsNotOffered, Configured
<1>0. /\ status.age \in 0..Day /\ status'.age \in 0..Day /\ rows[k].age \in 0..Day
      /\ rows[k] \in Row /\ \A t \in Tasks : task[t].age \in 0..Day
      /\ lock \subseteq Tasks /\ Enabled \subseteq Configured
      /\ \A s, t \in lock : s = t
  BY TypeStep, Scopes DEF TypeInv, Row, Task, LockOK
<1>c. config' = config => Configured' = Configured /\ Enabled' = Enabled
  BY DEF Configured, Enabled
<1>1. ASSUME NEW t \in Tasks, Ends(t)
      PROVE  /\ k \in Configured' => rows'[k].kept /\ rows'[k].age <= status'.age
             /\ k \notin Enabled' => ~rows'[k].available
  <2>1. /\ rows' = rows /\ config' = config /\ status' = Recorded(t)
        /\ task[t].pc = "probes" /\ task[t].todo = {} /\ t \in lock
    BY <1>1 DEF Ends, LockOK, Refreshing
  <2>2. CoverOK(t)
    BY <2>1
  <2>3. CASE task[t].scope = All
    <3>1. status'.age = task[t].age /\ Within(task[t].scope) = Configured
      BY <2>1, <2>3, Scopes DEF Recorded, Outcome
    <3>2. k \in Configured => /\ rows[k].kept /\ rows[k].age <= task[t].age
                              /\ k \notin Enabled => ~rows[k].available
      BY <2>1, <2>2, <3>1 DEF CoverOK
    <3>3. k \notin Configured => ~rows[k].available
      BY <2>1, <2>2 DEF CoverOK
    <3> QED
      BY <1>0, <1>c, <2>1, <3>1, <3>2, <3>3
  <2>4. CASE task[t].scope # All
    <3>1. relay = "up"
      BY <1>0, <2>1, <2>4 DEF PhaseOK, TypeInv
    <3>2. status' = status
      BY <2>1, <2>4 DEF Recorded
    <3> QED
      BY <1>c, <2>1, <3>1, <3>2 DEF ScheduleCoversEveryHarness, RemovedIsNotOffered
  <2> QED
    BY <2>3, <2>4
<1>2. ASSUME ~\E t \in Tasks : Ends(t)
      PROVE  /\ k \in Configured' => rows'[k].kept /\ rows'[k].age <= status'.age
             /\ k \notin Enabled' => ~rows'[k].available
  <2>1. relay = "up" /\ config' = config
    BY <1>2, StepEffects DEF Effects, Start
  <2>2. /\ k \in Configured => rows[k].kept /\ rows[k].age <= status.age
        /\ k \notin Enabled => ~rows[k].available
    BY <2>1 DEF ScheduleCoversEveryHarness, RemovedIsNotOffered
  <2>3. CASE Tick
    <3>1. \A r \in Row : Aged(r, [r EXCEPT !.age = Older(r.age)])
      BY DEF Row, Aged
    <3>2. Aged(rows[k], rows'[k]) /\ status'.age = Older(status.age)
      BY <1>0, <2>3, <3>1 DEF Tick, TypeInv
    <3> QED
      BY <1>0, <1>c, <2>1, <2>2, <3>2, Ages DEF Aged
  <2>4. CASE ~Tick
    <3>1. status'.age = status.age
      BY <1>2, <2>4, StepEffects DEF Effects
    <3>2. CASE rows'[k] = rows[k]
      BY <1>c, <2>1, <2>2, <3>1, <3>2
    <3>3. CASE k \notin Configured /\ rows'[k] = Removed(rows[k])
      <4>1. ~rows'[k].available
        BY <1>0, <3>3, RemovedFields
      <4> QED
        BY <1>c, <2>1, <3>3, <4>1
    <3>4. CASE \E t \in Tasks : Writes(t, k)
      <4>1. PICK t \in lock : /\ rows'[k].kept /\ rows'[k].age = task[t].age
                              /\ k \notin Enabled => ~rows'[k].available
        BY <3>4 DEF Writes
      <4>2. task[t].age <= status.age
        BY <4>1 DEF CoverOK
      <4> QED
        BY <1>0, <1>c, <2>1, <3>1, <4>1, <4>2
    <3> QED
      BY <2>4, <3>2, <3>3, <3>4, RowsAreMoved DEF RowsMove, Reconciles, Writes
  <2> QED
    BY <2>3, <2>4
<1> QED
  BY <1>1, <1>2

\* A wake refresh looks at the rows under the lock, and nobody writes them
\* until it begins.
LEMMA WakeStep ==
  ASSUME Before, WakeRefreshIsNeeded, [Next]_vars
  PROVE  WakeRefreshIsNeeded'
<1> USE DEF Before
<1> SUFFICES ASSUME NEW h \in Hosts, task'[h].pc = "begins"
             PROVE  Stale(h)'
  BY DEF WakeRefreshIsNeeded
<1>0. h \in Tasks /\ h # Loop /\ TaskMove(h) /\ FrameOK(h)
  BY TasksMove, ConstantsOK DEF Tasks
<1>1. config' = config /\ (\A k \in Harnesses : rows'[k].kept = rows[k].kept
                                                /\ rows'[k].stale = rows[k].stale)
      => Stale(h)' = Stale(h)
  BY DEF Stale, Enabled
<1>2. CASE task'[h] = task[h] /\ ~Tick
  <2>1. rows' = rows /\ config' = config
    BY <1>0, <1>2, NobodyElseWrites, StepEffects DEF Inside, Effects
  <2> QED
    BY <1>0, <1>1, <1>2, <2>1 DEF WakeRefreshIsNeeded
<1>3. CASE Tick
  <2>1. \A r \in Row : Aged(r, [r EXCEPT !.age = Older(r.age)])
    BY DEF Row, Aged
  <2>2. config' = config /\ \A k \in Harnesses : Aged(rows[k], rows'[k])
    BY <1>3, <2>1 DEF Tick, TypeInv
  <2>3. task[h].pc = "begins"
    BY <1>0, <1>3, TickMoves
  <2> QED
    BY <1>1, <2>2, <2>3 DEF Aged, WakeRefreshIsNeeded
<1>4. CASE Tries(h)
  BY <1>0, <1>4 DEF Tries, FrameOK
<1>5. CASE GetsLock(h) /\ Stale(h)
  <2>1. rows' = rows /\ config' = config
    BY <1>5 DEF GetsLock
  <2> QED
    BY <1>1, <1>5, <2>1
<1>6. Marks(h) => task'[h].pc = "probes"
  BY <1>0, PcMoves DEF Marks
<1> QED
  BY <1>0, <1>2, <1>3, <1>4, <1>5, <1>6, BeginsMoves, SkipsMoves, ProbesMoves, StoresMoves
  DEF TaskMove, Outside

\* At the first start there are no rows and nobody refreshes.
LEMMA CatalogInit == Init => CatalogInv
<1> SUFFICES ASSUME Init
             PROVE  CatalogInv
  OBVIOUS
<1>1. Absent \in Row /\ ~Absent.kept /\ ~Absent.available /\ Absent.models = 0
  <2>1. 0 \in 0..MaxEdition /\ Day \in 0..Day
    BY Ages
  <2> QED
    BY <2>1 DEF Absent, Row
<1>2. \A t \in Tasks : task[t] = Idle
  BY DEF Init
<1>3. TypeInv
  <2>1. 1 \in 1..MaxEdition /\ WakeInterval \in 0..WakeInterval /\ Day \in 0..Day
    BY Ages
  <2> QED
    BY <1>1, <2>1, IdleFields DEF Init, TypeInv
<1>4. LockOK /\ PhaseOK
  BY <1>2, IdleFields DEF Init, LockOK, PhaseOK, Refreshing, Tasks
<1>5. RowsOK
  BY <1>1 DEF Init, RowsOK
<1>6. \A t \in Tasks : FrameOK(t) /\ EditionOK(t)
  BY <1>2, IdleFields DEF FrameOK, EditionOK
<1>7. lock = {} /\ relay = "down" /\ \A h \in Hosts : task[h].pc # "begins"
  BY <1>2, IdleFields DEF Init, Tasks
<1> QED
  BY <1>3, <1>4, <1>5, <1>6, <1>7
  DEF CatalogInv, ScheduleCoversEveryHarness, RemovedIsNotOffered, WakeRefreshIsNeeded

\* The invariant holds in every behaviour, whatever is probed, fails or dies.
LEMMA CatalogInvariant == Spec => []CatalogInv
<1>1. CatalogInv /\ [Next]_vars => CatalogInv'
  <2> SUFFICES ASSUME CatalogInv, [Next]_vars
               PROVE  CatalogInv'
    OBVIOUS
  <2>1. Before
    BY DEF CatalogInv, Before
  <2>2. TypeInv' /\ LockOK' /\ PhaseOK' /\ RowsOK'
    BY <2>1, TypeStep, LockStep, PhaseStep, RowsStep DEF Before
  <2>3. \A t \in Tasks : FrameOK(t)' /\ EditionOK(t)'
    BY <2>1, FrameStep, EditionStep
  <2>4. \A t \in lock' : CoverOK(t)'
    BY <2>1, <2>2, CoverStep DEF CatalogInv, TypeInv
  <2>5. ScheduleCoversEveryHarness' /\ RemovedIsNotOffered' /\ WakeRefreshIsNeeded'
    BY <2>1, ScheduleStep, WakeStep DEF CatalogInv
  <2> QED
    BY <2>2, <2>3, <2>4, <2>5 DEF CatalogInv, Tasks
<1> QED
  BY <1>1, CatalogInit, PTL DEF Spec

\* The variables keep their types, and the refresh lock its one holder.
THEOREM CatalogTyping == Spec => []TypeOK
<1>1. CatalogInv => TypeOK
  <2> SUFFICES ASSUME CatalogInv
               PROVE  TypeOK
    OBVIOUS
  <2>1. Cardinality(lock) <= 1
    <3>1. CASE lock = {}
      BY <3>1, FS_EmptySet
    <3>2. CASE lock # {}
      <4>1. PICK t : t \in lock
        BY <3>2
      <4>2. lock = {t}
        BY <4>1 DEF CatalogInv, LockOK
      <4>3. Cardinality({t}) = 1
        BY FS_Singleton
      <4> QED
        BY <4>2, <4>3
    <3> QED
      BY <3>1, <3>2
  <2> QED
    BY <2>1 DEF TypeOK, CatalogInv, TypeInv, LockOK
<1> QED
  BY <1>1, CatalogInvariant, PTL

\* No harness is left out by the daily schedule, although partial, raised and
\* crashed refreshes write some of the rows.
THEOREM ScheduleCovers == Spec => []ScheduleCoversEveryHarness
<1>1. CatalogInv => ScheduleCoversEveryHarness
  BY DEF CatalogInv
<1> QED
  BY <1>1, CatalogInvariant, PTL

\* What the configuration of this start dropped or switched off is out of the
\* offer before the first client is served, and stays out.
THEOREM DroppedIsNotOffered == Spec => []RemovedIsNotOffered
<1>1. CatalogInv => RemovedIsNotOffered
  BY DEF CatalogInv
<1> QED
  BY <1>1, CatalogInvariant, PTL

\* refresh_stale_host probes nothing that the refresh it waited for has caught.
THEOREM WakeIsNeeded == Spec => []WakeRefreshIsNeeded
<1>1. CatalogInv => WakeRefreshIsNeeded
  BY DEF CatalogInv
<1> QED
  BY <1>1, CatalogInvariant, PTL

\* A row that is written keeps what it listed or lists something newer, unless
\* the harness is gone, switched off or dropped.
LEMMA RowsKeepTheirModels ==
  ASSUME CatalogInv, [Next]_vars, NEW k \in Harnesses
  PROVE  /\ rows'[k].models # 0 => rows'[k].models >= rows[k].models
         /\ rows[k].models # 0 /\ rows'[k].models = 0 => rows'[k].disabled
<1>0. rows[k] \in Row /\ rows[k].models \in Nat /\ rows'[k].models \in Nat
  BY TypeStep, Ages DEF CatalogInv, TypeInv, Row
<1>1. CASE rows'[k] = rows[k] \/ Aged(rows[k], rows'[k])
  BY <1>0, <1>1 DEF Aged
<1>2. CASE rows'[k] = Removed(rows[k])
  BY <1>0, <1>2, RemovedFields
<1>3. CASE \E t \in Tasks : Writes(t, k)
  BY <1>0, <1>3 DEF Writes
<1> QED
  BY <1>1, <1>2, <1>3, RowsAreMoved DEF CatalogInv, RowsMove, Reconciles, Writes

\* Concurrent refreshes and late answers never replace a listing by an older.
THEOREM NeverBack == Spec => CatalogNeverGoesBack
<1>1. CatalogInv /\ [Next]_vars
      => [\A k \in Harnesses : rows'[k].models # 0 => rows'[k].models >= rows[k].models]_vars
  BY RowsKeepTheirModels
<1> QED
  BY <1>1, CatalogInvariant, PTL DEF Spec, CatalogNeverGoesBack

\* A probe that fails or times out loses no models.
THEOREM FailuresKeepModels == Spec => ModelsSurviveFailures
<1>1. CatalogInv /\ [Next]_vars
      => [\A k \in Harnesses : rows[k].models # 0 /\ rows'[k].models = 0
                                => rows'[k].disabled]_vars
  BY RowsKeepTheirModels
<1> QED
  BY <1>1, CatalogInvariant, PTL DEF Spec, ModelsSurviveFailures

=============================================================================
