---------------------------- MODULE CatalogRefresh ----------------------------
(***************************************************************************)
(* The model catalogs of relay/herdr_relay/catalogs.py: one row per        *)
(* harness in SQLite, one refresh lock, and the four who refresh - the     *)
(* start-up and daily loop, the poll's offline-to-ready edge, and clients. *)
(*                                                                         *)
(* Refreshes run on threads.  A probe leaves the process: the host answers *)
(* it at one step and the answer is stored at a later one.                 *)
(***************************************************************************)
EXTENDS Integers, FiniteSets

CONSTANTS Hosts,       \* configured hosts; also their wake tasks
          Harnesses,   \* harnesses the configuration may name
          HostOf,      \* the host of each harness
          Clients,     \* sockets that ask for refreshes
          Loop,        \* start-up, then catalog_loop
          All,         \* the scope of a full refresh
          Configs,     \* "on", "off" or "absent" of each harness, per start
          Day,         \* REFRESH_INTERVAL_MS, in ticks
          WakeInterval,\* WAKE_REFRESH_INTERVAL_SECONDS, in ticks
          MaxEdition,  \* bound: what a harness has to list
          MaxChanges,  \* bound: hosts that wake or sleep, commands that come,
                       \* go or are upgraded
          MaxFrames,   \* bound: frames of clients
          MaxFaults    \* bound: probes of a host that is up that fail,
                       \* transactions that raise, deaths of the relay

ASSUME ConstantsOK ==
    /\ HostOf \in [Harnesses -> Hosts]
    /\ Configs \subseteq [Harnesses -> {"on", "off", "absent"}]
    /\ Loop \notin Hosts \cup Clients /\ Hosts \cap Clients = {}
    /\ All \notin Hosts
    /\ Day \in Nat /\ WakeInterval \in 0..Day
    /\ MaxEdition \in Nat \ {0}
    /\ MaxChanges \in Nat /\ MaxFrames \in Nat /\ MaxFaults \in Nat

VARIABLES
    relay,   \* "down", "starting" or "up"
    config,  \* hosts.HOSTS, read when the relay starts
    rows,    \* model_catalogs
    status,  \* catalog_meta: the state and the age of last_refresh_at
    lock,    \* the task that holds _refresh_lock
    task,    \* the refreshing tasks
    ready,   \* host_ready
    waited,  \* the age of catalog_wake_refresh_at, per host
    poll,    \* the poll: idle, or the hosts its listing found ready
    up,      \* the hosts that are up
    offer,   \* what each harness has to list; installed or not
    spent    \* how much of each bound is spent

process == <<lock, task>>
edges == <<ready, waited, poll>>
world == <<up, offer>>
vars == <<relay, config, rows, status, lock, task, ready, waited, poll, up, offer, spent>>

Tasks == {Loop} \cup Clients \cup Hosts

-----------------------------------------------------------------------------
(* Rows and frames.  Times are ages in ticks, capped at Day: last_refresh_at *)
(* and updated_at of a refresh are the time it began.                        *)

Older(age) == IF age < Day THEN age + 1 ELSE Day

Absent == [kept |-> FALSE, models |-> 0, available |-> FALSE, stale |-> FALSE,
           disabled |-> FALSE, age |-> Day]

\* models: the edition listed, 0 for none.
Row == [kept: BOOLEAN, models: 0..MaxEdition, available: BOOLEAN, stale: BOOLEAN,
        disabled: BOOLEAN, age: 0..Day]

\* now: the harness being probed; found: what its host answered.
Task == [pc: {"idle", "tries", "waits", "begins", "marks", "probes", "stores"},
         scope: Hosts \cup {All}, todo: SUBSET Harnesses, now: SUBSET Harnesses,
         found: {"listing", "missing", "nothing"}, edition: 0..MaxEdition,
         failed: BOOLEAN, age: 0..Day]

Idle == [pc |-> "idle", scope |-> All, todo |-> {}, now |-> {},
         found |-> "nothing", edition |-> 0, failed |-> FALSE, age |-> 0]

Asked(pc, scope) == [Idle EXCEPT !.pc = pc, !.scope = scope]

Configured == {k \in Harnesses : config[k] # "absent"}

Enabled == {k \in Harnesses : config[k] = "on"}

Within(scope) == {k \in Configured : scope \in {All, HostOf[k]}}

\* host_catalog_stale.
Stale(host) ==
    \E k \in Enabled : HostOf[k] = host /\ (~rows[k].kept \/ rows[k].stale)

\* Slip: a schedule that a raised refresh left "refreshing" is not due.
DueUnlessRefreshing == status.age = Day /\ status.state # "refreshing"
\* refresh_due.
Due == status.age = Day

Spend(what) == spent' = [spent EXCEPT ![what] = @ + 1]

Init ==
    /\ relay = "down"
    /\ config \in Configs
    /\ rows = [k \in Harnesses |-> Absent]
    /\ status = [state |-> "idle", age |-> Day]
    /\ lock = {}
    /\ task = [t \in Tasks |-> Idle]
    /\ ready = [h \in Hosts |-> "unseen"]
    /\ waited = [h \in Hosts |-> WakeInterval]
    /\ poll = [pc |-> "idle", ready |-> {}]
    /\ up \in SUBSET Hosts
    /\ offer = [k \in Harnesses |-> [edition |-> 1, installed |-> TRUE]]
    /\ spent = [changes |-> 0, frames |-> 0, faults |-> 0]

-----------------------------------------------------------------------------
(* The store: reconcile, success and failure, each one transaction.         *)

Removed(row) == [row EXCEPT !.models = 0, !.available = FALSE, !.stale = FALSE,
                            !.disabled = TRUE, !.age = 0]

\* Slip: what the configuration no longer names is left alone.
ReconciledNever == rows
Reconciled ==
    [k \in Harnesses |->
       IF rows[k].kept /\ k \notin Configured THEN Removed(rows[k]) ELSE rows[k]]

Success(edition, age) ==
    [kept |-> TRUE, models |-> edition, available |-> TRUE, stale |-> FALSE,
     disabled |-> FALSE, age |-> age]

Permanent(age) ==
    [kept |-> TRUE, models |-> 0, available |-> FALSE, stale |-> FALSE,
     disabled |-> TRUE, age |-> age]

\* Slip: a failure stores no models.
TransientEmpty(k, age) ==
    [kept |-> TRUE, models |-> 0, available |-> FALSE, stale |-> TRUE,
     disabled |-> FALSE, age |-> age]
Transient(k, age) ==
    [kept |-> TRUE, models |-> rows[k].models, available |-> rows[k].models # 0,
     stale |-> TRUE, disabled |-> FALSE, age |-> age]

-----------------------------------------------------------------------------
(* Who refreshes.                                                           *)

\* main: nothing is served before the first full refresh ended.
Start ==
    /\ relay = "down"
    /\ relay' = "starting"
    /\ config' \in Configs
    /\ lock' = {Loop}
    /\ task' = [task EXCEPT ![Loop] = Asked("begins", All)]
    /\ UNCHANGED <<rows, status, edges, world, spent>>

\* catalog_loop: whether a refresh is due is read before the thread starts.
LoopWakes ==
    /\ relay = "up" /\ task[Loop].pc = "idle" /\ Due
    /\ task' = [task EXCEPT ![Loop] = Asked("tries", All)]
    /\ UNCHANGED <<relay, config, rows, status, lock, edges, world, spent>>

\* catalog_refresh, of one host or all.
ClientAsks(c) ==
    /\ relay = "up" /\ task[c].pc = "idle" /\ spent.frames < MaxFrames
    /\ \E scope \in Hosts \cup {All} : task' = [task EXCEPT ![c] = Asked("tries", scope)]
    /\ Spend("frames")
    /\ UNCHANGED <<relay, config, rows, status, lock, edges, world>>

\* Slip: a refresh starts beside the one under way.
TriesAnyway(t) ==
    /\ task[t].pc = "tries"
    /\ lock' = lock \cup {t} /\ task' = [task EXCEPT ![t].pc = "begins"]
    /\ UNCHANGED <<relay, config, rows, status, edges, world, spent>>
\* refresh_all: a refresh that finds another under way is dropped.
Tries(t) ==
    /\ task[t].pc = "tries"
    /\ IF lock = {}
       THEN lock' = {t} /\ task' = [task EXCEPT ![t].pc = "begins"]
       ELSE task' = [task EXCEPT ![t] = Idle] /\ UNCHANGED lock
    /\ UNCHANGED <<relay, config, rows, status, edges, world, spent>>

\* Slip: a woken host is refreshed although the refresh waited for caught it.
GetsLockUnchecked(h) ==
    /\ task[h].pc = "waits" /\ lock = {}
    /\ lock' = {h} /\ task' = [task EXCEPT ![h].pc = "begins"]
    /\ UNCHANGED <<relay, config, rows, status, edges, world, spent>>
\* refresh_stale_host waits for the lock and looks again under it.
GetsLock(h) ==
    /\ task[h].pc = "waits" /\ lock = {}
    /\ IF Stale(h) THEN lock' = {h} /\ task' = [task EXCEPT ![h].pc = "begins"]
       ELSE task' = [task EXCEPT ![h] = Idle] /\ UNCHANGED lock
    /\ UNCHANGED <<relay, config, rows, status, edges, world, spent>>

-----------------------------------------------------------------------------
(* _refresh.                                                                *)

Begins(t) ==
    /\ task[t].pc = "begins"
    /\ rows' = Reconciled
    /\ task' = [task EXCEPT ![t].pc = IF task[t].scope = All THEN "marks" ELSE "probes",
                            ![t].todo = Within(task[t].scope)]
    /\ UNCHANGED <<relay, config, status, lock, edges, world, spent>>

Marks(t) ==
    /\ task[t].pc = "marks"
    /\ status' = [status EXCEPT !.state = "refreshing"]
    /\ task' = [task EXCEPT ![t].pc = "probes"]
    /\ UNCHANGED <<relay, config, rows, lock, edges, world, spent>>

\* A harness switched off is not probed.
SkipsDisabled(t) ==
    /\ task[t].pc = "probes"
    /\ \E k \in task[t].todo \ Enabled :
         /\ rows' = [rows EXCEPT ![k] = Permanent(task[t].age)]
         /\ task' = [task EXCEPT ![t].todo = @ \ {k}]
    /\ UNCHANGED <<relay, config, status, lock, edges, world, spent>>

\* discover_harness: the host answers with a listing or with a missing
\* command; a host that is down, and now and then one that is up, with neither.
Found(k, found, missed) ==
    \/ missed = FALSE /\ HostOf[k] \in up
       /\ found = IF offer[k].installed THEN "listing" ELSE "missing"
    \/ missed = FALSE /\ HostOf[k] \notin up /\ found = "nothing"
    \/ missed = TRUE /\ HostOf[k] \in up /\ found = "nothing" /\ spent.faults < MaxFaults

Probes(t) ==
    /\ task[t].pc = "probes"
    /\ \E k \in task[t].todo \cap Enabled, missed \in BOOLEAN,
         found \in {"listing", "missing", "nothing"} :
         /\ Found(k, found, missed)
         /\ task' = [task EXCEPT ![t].pc = "stores", ![t].now = {k}, ![t].found = found,
                        ![t].edition = IF found = "listing" THEN offer[k].edition ELSE 0]
         /\ IF missed THEN Spend("faults") ELSE UNCHANGED spent
    /\ UNCHANGED <<relay, config, rows, status, lock, edges, world>>

Stores(t) ==
    /\ task[t].pc = "stores"
    /\ \E k \in task[t].now :
         /\ rows' = [rows EXCEPT ![k] =
              CASE task[t].found = "listing" -> Success(task[t].edition, task[t].age)
                [] task[t].found = "missing" -> Permanent(task[t].age)
                [] task[t].found = "nothing" -> Transient(k, task[t].age)]
         /\ task' = [task EXCEPT ![t].pc = "probes", ![t].todo = @ \ {k}, ![t].now = {},
                        ![t].found = "nothing", ![t].edition = 0,
                        ![t].failed = @ \/ task[t].found # "listing"]
    /\ UNCHANGED <<relay, config, status, lock, edges, world, spent>>

\* Slip: a targeted refresh counts for the daily schedule.
Outcome(t) == [state |-> IF task[t].failed THEN "error" ELSE "success", age |-> task[t].age]
RecordedAny(t) == Outcome(t)
Recorded(t) == IF task[t].scope = All THEN Outcome(t) ELSE status

Ends(t) ==
    /\ task[t].pc = "probes" /\ task[t].todo = {}
    /\ status' = Recorded(t)
    /\ lock' = lock \ {t}
    /\ task' = [task EXCEPT ![t] = Idle]
    /\ relay' = "up"
    /\ UNCHANGED <<config, rows, edges, world, spent>>

\* Slip: the lock outlives a refresh that raised.
ReleasedNever(t) == lock
Released(t) == lock \ {t}

Dies ==
    /\ relay' = "down"
    /\ lock' = {}
    /\ task' = [t \in Tasks |-> Idle]
    /\ ready' = [h \in Hosts |-> "unseen"]
    /\ waited' = [h \in Hosts |-> WakeInterval]
    /\ poll' = [pc |-> "idle", ready |-> {}]
    /\ UNCHANGED <<config, rows, status, world>>

\* A transaction raises: the refresh is over, and with it a start.
Raises(t) ==
    /\ task[t].pc # "idle" /\ spent.faults < MaxFaults
    /\ IF relay = "starting" THEN Dies
       ELSE /\ lock' = Released(t)
            /\ task' = [task EXCEPT ![t] = Idle]
            /\ UNCHANGED <<relay, config, rows, status, edges, world>>
    /\ Spend("faults")

Crash ==
    /\ relay # "down" /\ spent.faults < MaxFaults
    /\ Dies
    /\ Spend("faults")

-----------------------------------------------------------------------------
(* The poll's readiness edge.                                               *)

PollAsk ==
    /\ relay = "up" /\ poll.pc = "idle"
    /\ \/ poll' = [pc |-> "apply", ready |-> up] /\ UNCHANGED spent
       \/ /\ spent.faults < MaxFaults
          /\ \E h \in up : poll' = [pc |-> "apply", ready |-> up \ {h}]
          /\ Spend("faults")
    /\ UNCHANGED <<relay, config, rows, status, process, ready, waited, world>>

\* One wake task per host at a time, one per interval; an edge that meets
\* either is forgotten.
Woken == {h \in poll.ready : ready[h] = "down" /\ task[h].pc = "idle"
                             /\ waited[h] = WakeInterval}

PollApply ==
    /\ poll.pc = "apply"
    /\ ready' = [h \in Hosts |-> IF h \in poll.ready THEN "ready" ELSE "down"]
    /\ waited' = [h \in Hosts |-> IF h \in Woken THEN 0 ELSE waited[h]]
    /\ task' = [t \in Tasks |-> IF t \in Woken THEN Asked("waits", t) ELSE task[t]]
    /\ poll' = [pc |-> "idle", ready |-> {}]
    /\ UNCHANGED <<relay, config, rows, status, lock, world, spent>>

-----------------------------------------------------------------------------
(* The world.                                                               *)

Tick ==
    /\ rows' = [k \in Harnesses |-> [rows[k] EXCEPT !.age = Older(@)]]
    /\ status' = [status EXCEPT !.age = Older(@)]
    /\ task' = [t \in Tasks |-> IF t \in lock THEN [task[t] EXCEPT !.age = Older(@)]
                                ELSE task[t]]
    /\ waited' = [h \in Hosts |-> IF waited[h] < WakeInterval THEN waited[h] + 1
                                  ELSE WakeInterval]
    /\ UNCHANGED <<relay, config, lock, ready, poll, world, spent>>

HostFlips(h) ==
    /\ spent.changes < MaxChanges
    /\ up' = IF h \in up THEN up \ {h} ELSE up \cup {h}
    /\ Spend("changes")
    /\ UNCHANGED <<relay, config, rows, status, process, edges, offer>>

CommandFlips(k) ==
    /\ spent.changes < MaxChanges
    /\ offer' = [offer EXCEPT ![k].installed = ~@]
    /\ Spend("changes")
    /\ UNCHANGED <<relay, config, rows, status, process, edges, up>>

Upgrades(k) ==
    /\ offer[k].edition < MaxEdition /\ spent.changes < MaxChanges
    /\ offer' = [offer EXCEPT ![k].edition = @ + 1]
    /\ Spend("changes")
    /\ UNCHANGED <<relay, config, rows, status, process, edges, up>>

-----------------------------------------------------------------------------

TaskStep(t) ==
    \/ Tries(t) \/ Begins(t) \/ Marks(t) \/ SkipsDisabled(t)
    \/ Probes(t) \/ Stores(t) \/ Ends(t)

Next ==
    \/ Start \/ LoopWakes \/ PollAsk \/ PollApply \/ Tick \/ Crash
    \/ \E c \in Clients : ClientAsks(c)
    \/ \E h \in Hosts : GetsLock(h) \/ HostFlips(h)
    \/ \E t \in Tasks : TaskStep(t) \/ Raises(t)
    \/ \E k \in Harnesses : CommandFlips(k) \/ Upgrades(k)

Spec == Init /\ [][Next]_vars

\* The service is restarted; threads run and probes end by their timeouts; the
\* loop wakes every minute, the poll goes on, time passes.  Nothing is assumed
\* of hosts, harnesses and clients, nor of who gets a contested lock.
Fairness ==
    /\ WF_vars(Start) /\ WF_vars(LoopWakes) /\ WF_vars(Tick)
    /\ WF_vars(PollAsk \/ PollApply)
    /\ \A t \in Tasks : WF_vars(TaskStep(t))
    /\ \A h \in Hosts : WF_vars(GetsLock(h))

FairSpec == Spec /\ Fairness

-----------------------------------------------------------------------------
(* Properties.                                                              *)

Refreshing == {t \in Tasks : task[t].pc \in {"begins", "marks", "probes", "stores"}}

\* The variables have the types the code gives them, and the lock is held by
\* the one task that refreshes, if any.
TypeOK ==
    /\ relay \in {"down", "starting", "up"} /\ config \in Configs
    /\ rows \in [Harnesses -> Row]
    /\ status \in [state: {"idle", "refreshing", "success", "error"}, age: 0..Day]
    /\ lock \subseteq Tasks /\ task \in [Tasks -> Task]
    /\ lock = Refreshing /\ Cardinality(lock) <= 1
    /\ ready \in [Hosts -> {"unseen", "ready", "down"}]
    /\ waited \in [Hosts -> 0..WakeInterval]
    /\ poll \in [pc: {"idle", "apply"}, ready: SUBSET Hosts]
    /\ up \subseteq Hosts
    /\ offer \in [Harnesses -> [edition: 1..MaxEdition, installed: BOOLEAN]]
    /\ spent \in [{"changes", "frames", "faults"} -> Nat]

\* "Only a full refresh advances the global 24-hour schedule": while a relay
\* serves, every configured harness was written by the refresh the schedule
\* counts from or by a later one; no partial, raised or crashed refresh lets
\* one go unprobed for longer than the schedule says.
ScheduleCoversEveryHarness ==
    relay = "up" => \A k \in Configured : rows[k].kept /\ rows[k].age <= status.age

\* The launch path reads the row alone: a harness the configuration dropped or
\* switched off is not offered once the relay serves.
RemovedIsNotOffered ==
    relay = "up" => \A k \in Harnesses \ Enabled : ~rows[k].available

\* "If the running refresh already caught the host, nothing is probed twice":
\* a wake refresh starts only on a host with a stale or missing row.
WakeRefreshIsNeeded ==
    \A h \in Hosts : task[h].pc = "begins" => Stale(h)

\* Concurrent refreshes never put an older listing of a harness over a newer.
CatalogNeverGoesBack ==
    [][\A k \in Harnesses : rows'[k].models # 0 => rows'[k].models >= rows[k].models]_vars

\* "Retaining cache entries on transient errors": only a harness that is gone,
\* switched off or dropped loses the models last listed.
ModelsSurviveFailures ==
    [][\A k \in Harnesses :
         rows[k].models # 0 /\ rows'[k].models = 0 => rows'[k].disabled]_vars

\* A harness that stays on, installed and reachable ends up offered with what
\* it lists, whatever raised, died, failed, was dropped or throttled before.
CatalogCatchesUp ==
    \A k \in Harnesses :
        <>[](k \in Enabled /\ HostOf[k] \in up /\ offer[k].installed)
        => <>[](rows[k].available /\ ~rows[k].stale
                /\ rows[k].models = offer[k].edition)

=============================================================================
