---------------------------- MODULE RequestReplay ----------------------------
(***************************************************************************)
(* The command loop of relay/herdr_relay/server.py: one handler per socket *)
(* that takes its frames in order, answers a request id it remembers,      *)
(* meters what it does not, refuses what it cannot route, and turns the    *)
(* rest into Herdr calls made one after the other on a thread.             *)
(*                                                                         *)
(* A call that is cut off at its time limit may still be carried out, and  *)
(* a handler whose peer is gone goes on until it next writes.              *)
(***************************************************************************)
EXTENDS Integers, FiniteSets, Sequences, SequencesExt

CONSTANTS Sockets,     \* connections; a client that reconnects takes another
          Hosts,       \* configured hosts
          None,        \* a field a frame leaves out
          Frames,      \* what clients send
          Nav,         \* keys Herdr has no name for (NAV_SEQUENCES)
          Powered,     \* hosts whose configuration allows power
          Capacity,    \* 512 remembered answers, made small
          Burst,       \* RATE_INPUT_BURST, RATE_HOST_BURST
          Cost,        \* ticks in which a bucket regains one command
          MaxFrames,   \* bound: frames taken
          MaxTicks,    \* bound: ticks of the clock
          MaxPolls     \* bound: polls and events that change what is known

Buckets == {"input", "host"}

InputCommands == {"send_keys", "send_text", "send_prompt"}

HostCommands == {"create_tab", "terminate_session", "wake_host", "shutdown_host"}

\* form: "bad" for a field out of range, "broken" for one left out, which the
\* handlers without a request id read unchecked.
Frame == [kind: InputCommands \cup HostCommands \cup {"agent_event"},
          id: Nat \cup {None}, to: Hosts \cup {None}, keys: Seq(Nat \ {0}),
          form: {"ok", "bad", "broken"}]

ASSUME ConstantsOK ==
    /\ Frames \subseteq Frame /\ \A f \in Frames : f.keys # <<>>
    /\ None \notin Hosts \cup Nat \cup Buckets
    /\ Nav \subseteq Nat /\ Powered \subseteq Hosts
    /\ Capacity \in Nat \ {0} /\ Cost \in Nat \ {0}
    /\ Burst \in [Buckets -> Nat]
    /\ MaxFrames \in Nat /\ MaxTicks \in Nat /\ MaxPolls \in Nat

VARIABLES
    link,    \* of each socket: "new", "open", "gone" (its peer is), "closed"
    memory,  \* request_results: positions in log, oldest first
    meter,   \* the tokens of each bucket, and how long ago it was last used
    work,    \* the handler: the frame it runs and the key its call begins with
    log,     \* every frame taken: its answer, and what of it reached the pane
    known,   \* pane_hosts and session_target_map
    spent    \* how much of each bound is spent

socket == <<link, memory, meter>>
vars == <<link, memory, meter, work, log, known, spent>>

-----------------------------------------------------------------------------
(* Frames, answers and calls.                                               *)

\* paid: the meter let it run; host: where its calls go; kept: its answer was
\* remembered; from: the frame whose answer it repeats, or 0.  arrived: the
\* places of its keys that were carried out, in that order; late: where the calls
\* begin that were cut off and still may be carried out.
Entry == [by: Sockets, frame: Frames, answer: {"none", "ack", "refused", "failed",
            "limited", "reused", "silence"},
          paid: BOOLEAN, host: Hosts \cup {None}, kept: BOOLEAN, from: Nat,
          arrived: Seq(Nat), late: SUBSET Nat]

Sent(s, f) == [by |-> s, frame |-> f, answer |-> "none", paid |-> FALSE, host |-> None,
               kept |-> FALSE, from |-> 0, arrived |-> <<>>, late |-> {}]

Idle == [at |-> 0, call |-> 0, pc |-> "idle"]

\* bucket_for.
BucketOf(f) == IF f.kind \in InputCommands THEN "input"
               ELSE IF f.kind \in HostCommands THEN "host" ELSE None

\* The commands that stay silent without a request id.
Legacy(f) == f.kind \in {"send_keys", "send_text"} /\ f.id = None

\* Slip: a command is told by the pane it is for.
FingerprintOfTarget(f) == <<f.to, f.form>>
\* _request_fingerprint: every field but the id.
Fingerprint(f) == <<f.kind, f.to, f.keys, f.form>>

\* key_runs: neighbours that are send-keys arguments share a call, which ends before
\* and after a key Herdr has no name for.  The calls of a frame tell the keys by
\* their place; the next call begins at NextRun, past the last key when it was the last.
NextRun(f, c) ==
    Min({Len(f.keys) + 1} \cup
        {d \in (c + 1)..Len(f.keys) :
            f.kind = "send_keys" /\ (f.keys[d - 1] \in Nav \/ f.keys[d] \in Nav)})

\* The keys of the call that begins with the one at place c.
KeyRun(f, c) == [i \in 1..(NextRun(f, c) - c) |-> c + i - 1]

\* state.resolve: the hosts a pane reference may mean.
Resolve(f) == IF f.to # None THEN known.panes \cap {f.to}
              ELSE IF Cardinality(known.panes) = 1 THEN known.panes ELSE {}

\* _create_tab: without a host it is the relay's own Herdr.
TabTarget(f) == {f.to}

\* terminate_session: the registry of live sessions, not of panes.
SessionTarget(f) == known.sessions \cap {f.to}

\* wake_host and shutdown_host: the configuration and nothing else.
PowerTarget(f) == Powered \cap {f.to}

\* The host a frame is for, or nothing when it is refused.
Routed(f) ==
    CASE f.kind \in InputCommands -> Resolve(f)
      [] f.kind = "create_tab" -> TabTarget(f)
      [] f.kind = "terminate_session" -> SessionTarget(f)
      [] f.kind \in {"wake_host", "shutdown_host"} -> PowerTarget(f)
      [] OTHER -> {}

\* What is not remembered: an answer without an id, a repeated one, a rejection
\* by the meter or of a reused id, and a create_tab that failed.
Remembers(e) ==
    /\ e.frame.id # None /\ e.frame.kind # "agent_event" /\ e.from = 0
    /\ e.answer \notin {"limited", "reused"}
    /\ ~(e.frame.kind = "create_tab" /\ e.answer = "failed")

Full(b) == Burst[b] * Cost

\* The tokens a bucket holds once the time since its last use is credited.
Credited(m, b) == IF m.tokens + m.age < Full(b) THEN m.tokens + m.age ELSE Full(b)

Affords(s, b) == Burst[b] = 0 \/ Credited(meter[s][b], b) >= Cost

\* Slip: the clock of a bucket is set only by the commands it admits.
TakenWhenPaid(s, b) ==
    IF Burst[b] = 0 THEN meter
    ELSE [meter EXCEPT ![s][b] =
            [tokens |-> Credited(@, b) - (IF Affords(s, b) THEN Cost ELSE 0),
             age |-> IF Affords(s, b) THEN 0 ELSE @.age]]
\* TokenBucket.take.
Taken(s, b) ==
    IF Burst[b] = 0 THEN meter
    ELSE [meter EXCEPT ![s][b] =
            [tokens |-> Credited(@, b) - (IF Affords(s, b) THEN Cost ELSE 0), age |-> 0]]

TypeOK ==
    /\ link \in [Sockets -> {"new", "open", "gone", "closed"}]
    /\ memory \in [Sockets -> Seq(Nat)]
    /\ \A s \in Sockets : Len(memory[s]) <= Capacity
    /\ \A s \in Sockets, b \in Buckets :
          meter[s][b].tokens \in 0..Full(b) /\ meter[s][b].age \in 0..MaxTicks
    /\ work \in [Sockets -> [at: Nat, call: Nat, pc: {"idle", "calling", "landed"}]]
    /\ log \in Seq(Entry) /\ Len(log) <= MaxFrames
    /\ known \in [panes: SUBSET Hosts, sessions: SUBSET Hosts]
    /\ spent \in [ticks: 0..MaxTicks, polls: 0..MaxPolls]

Init ==
    /\ link = [s \in Sockets |-> "new"]
    /\ memory = [s \in Sockets |-> <<>>]
    /\ meter = [s \in Sockets |-> [b \in Buckets |-> [tokens |-> Full(b), age |-> 0]]]
    /\ work = [s \in Sockets |-> Idle]
    /\ log = <<>>
    /\ \E H \in SUBSET Hosts : known = [panes |-> H, sessions |-> H]
    /\ spent = [ticks |-> 0, polls |-> 0]

-----------------------------------------------------------------------------
(* The peer, the clock and the panes.                                       *)

\* One client: it reconnects once its last connection is gone.
Connect(s) ==
    /\ link[s] = "new" /\ \A t \in Sockets : link[t] # "open"
    /\ link' = [link EXCEPT ![s] = "open"]
    /\ UNCHANGED <<memory, meter, work, log, known, spent>>

Leave(s) ==
    /\ link[s] = "open"
    /\ link' = [link EXCEPT ![s] = "gone"]
    /\ UNCHANGED <<memory, meter, work, log, known, spent>>

Tick ==
    /\ spent.ticks < MaxTicks
    /\ spent' = [spent EXCEPT !.ticks = @ + 1]
    /\ meter' = [s \in Sockets |-> [b \in Buckets |->
                  IF link[s] = "new" THEN meter[s][b]
                  ELSE [meter[s][b] EXCEPT !.age = @ + 1]]]
    /\ UNCHANGED <<link, memory, work, log, known>>

\* A poll puts the panes it listed in the registry, a listing that may be older
\* than what commands did to them.
Polled(H) ==
    /\ spent.polls < MaxPolls /\ known # [panes |-> H, sessions |-> H]
    /\ known' = [panes |-> H, sessions |-> H]
    /\ spent' = [spent EXCEPT !.polls = @ + 1]
    /\ UNCHANGED <<socket, work, log>>

\* _discover_pushed_pane: an event registers a pane that no poll has listed yet, and
\* not its session.
Discovered(h) ==
    /\ spent.polls < MaxPolls /\ h \notin known.panes
    /\ known' = [known EXCEPT !.panes = @ \cup {h}]
    /\ spent' = [spent EXCEPT !.polls = @ + 1]
    /\ UNCHANGED <<socket, work, log>>

-----------------------------------------------------------------------------
(* The handler takes a frame.                                               *)

\* Frames wait in the socket and are taken in order, one at a time; those a
\* peer left behind are taken until a write fails.
Taking(s) == /\ link[s] \in {"open", "gone"} /\ work[s].pc = "idle"
             /\ Len(log) < MaxFrames

Written(n, e) == [k \in DOMAIN log \cup {n} |-> IF k = n THEN e ELSE log[k]]

\* What the socket remembers under an id.
Remembered(s, id) == {n \in Range(memory[s]) : id # None /\ log[n].frame.id = id}

\* Slip: nothing is ever forgotten.
KeepForever(s, n) == Append(memory[s], n)
\* Slip: the newest answer is forgotten when the memory is full.
KeepNewestGoes(s, n) == IF Len(memory[s]) < Capacity THEN Append(memory[s], n)
                        ELSE memory[s]
\* _remember_response.
Keep(s, n) == IF Len(memory[s]) < Capacity THEN Append(memory[s], n)
              ELSE Append(Tail(memory[s]), n)

\* The answer is remembered and then sent.  A write to a peer that is gone may
\* fail, which ends the handler.
Answer(s, n, e) ==
    /\ log' = Written(n, [e EXCEPT !.kept = Remembers(e)])
    /\ memory' = [memory EXCEPT ![s] = IF Remembers(e) THEN Keep(s, n) ELSE @]
    /\ \/ UNCHANGED link
       \/ link[s] = "gone" /\ e.answer # "silence" /\ link' = [link EXCEPT ![s] = "closed"]
    /\ work' = [work EXCEPT ![s] = Idle]

\* A frame whose id the socket remembers: the same answer again, or none of it.
Replay(s, f) ==
    LET e == Sent(s, f) IN
    /\ Taking(s)
    /\ \E m \in Remembered(s, f.id) :
          IF Fingerprint(log[m].frame) = Fingerprint(f)
          THEN Answer(s, Len(log) + 1, [e EXCEPT !.answer = log[m].answer, !.from = m])
          ELSE Answer(s, Len(log) + 1, [e EXCEPT !.answer = "reused"])
    /\ UNCHANGED <<meter, known, spent>>

\* A frame the meter turns away does not run.
Limit(s, f) ==
    /\ Taking(s) /\ Remembered(s, f.id) = {}
    /\ BucketOf(f) # None /\ ~Affords(s, BucketOf(f))
    /\ meter' = Taken(s, BucketOf(f))
    /\ Answer(s, Len(log) + 1, [Sent(s, f) EXCEPT !.answer = "limited"])
    /\ UNCHANGED <<known, spent>>

\* Frames that their handler refuses before any call.
Refusable(f) ==
    \/ f.form # "ok"
    \/ f.id = None /\ f.kind \notin {"send_keys", "send_text", "create_tab"}
    \/ Routed(f) = {}

\* What a frame comes to before any call of it ends.
Begins(s, n, e) ==
    LET f == e.frame
        breaks == Legacy(f) /\ f.form = "broken"  \* reads a field that is not there
    IN \/ /\ f.kind = "agent_event"
          /\ Answer(s, n, [e EXCEPT !.answer = "silence"])
       \/ /\ breaks
          /\ log' = Written(n, e)
          /\ link' = [link EXCEPT ![s] = "closed"]
          /\ UNCHANGED <<memory, work>>
       \/ /\ f.kind # "agent_event" /\ Refusable(f) /\ ~breaks
          /\ Answer(s, n, [e EXCEPT !.answer = "refused"])
       \/ /\ f.kind # "agent_event" /\ ~Refusable(f)
          /\ \E h \in Routed(f) : log' = Written(n, [e EXCEPT !.host = h])
          /\ work' = [work EXCEPT ![s] = [at |-> n, call |-> 1, pc |-> "calling"]]
          /\ UNCHANGED <<link, memory>>

\* A frame that runs has paid.
Admit(s, f) ==
    /\ Taking(s) /\ Remembered(s, f.id) = {}
    /\ IF BucketOf(f) = None THEN UNCHANGED meter
       ELSE Affords(s, BucketOf(f)) /\ meter' = Taken(s, BucketOf(f))
    /\ Begins(s, Len(log) + 1, [Sent(s, f) EXCEPT !.paid = TRUE])
    /\ UNCHANGED <<known, spent>>

-----------------------------------------------------------------------------
(* The calls of a frame, one after the other.                               *)

\* A host carries out a call.
CarryOut(s) ==
    /\ work[s].pc = "calling"
    /\ LET n == work[s].at
           e == log[n]
       IN log' = [log EXCEPT ![n] =
                    [e EXCEPT !.arrived = @ \o KeyRun(e.frame, work[s].call)]]
    /\ work' = [work EXCEPT ![s].pc = "landed"]
    /\ UNCHANGED <<socket, known, spent>>

\* A call that was cut off is carried out after all.
LateArrives(n) ==
    /\ LET e == log[n] IN \E k \in e.late : log' = [log EXCEPT ![n] =
            [e EXCEPT !.arrived = @ \o KeyRun(e.frame, k), !.late = @ \ {k}]]
    /\ UNCHANGED <<socket, work, known, spent>>

MoreCalls(s) == LET f == log[work[s].at].frame
                IN NextRun(f, work[s].call) <= Len(f.keys)

NextCall(s) ==
    work' = [work EXCEPT ![s] = [at |-> @.at, call |-> NextRun(log[@.at].frame, @.call),
                                 pc |-> "calling"]]

\* A session that was ended is ended no second time.
Ended(e) == IF e.frame.kind = "terminate_session" THEN {e.host} ELSE {}

\* A call succeeds: the next one is made, or the frame is acknowledged.
Succeeds(s) ==
    LET n == work[s].at
        e == log[n]
    IN /\ work[s].pc = "landed"
       /\ IF MoreCalls(s) THEN NextCall(s) /\ UNCHANGED <<link, memory, log>>
          ELSE Answer(s, n, [e EXCEPT !.answer = IF Legacy(e.frame) THEN "silence" ELSE "ack"])
       /\ known' = [known EXCEPT !.sessions = @ \ Ended(e)]
       /\ UNCHANGED <<meter, spent>>

\* Slip: the calls after a failed one are made all the same.
StopsNever(f) == FALSE
\* _acknowledged_input stops at the first failed call; the handlers without a
\* request id do not look.
Stops(f) == ~Legacy(f)

\* Herdr refused the call, or it was cut off: carried out, lost or still out.
FailsWith(s, n, e, answer) ==
    /\ IF MoreCalls(s) /\ ~Stops(e.frame)
       THEN NextCall(s) /\ log' = Written(n, e) /\ UNCHANGED <<link, memory>>
       ELSE Answer(s, n, [e EXCEPT !.answer = IF Legacy(e.frame) THEN "silence" ELSE answer])
    /\ UNCHANGED <<meter, known, spent>>

Fails(s) ==
    LET n == work[s].at IN
    /\ work[s].pc \in {"calling", "landed"}
    /\ FailsWith(s, n, log[n], "failed")

CutOff(s) ==
    LET n == work[s].at IN
    /\ work[s].pc = "calling"
    /\ FailsWith(s, n, [log[n] EXCEPT !.late = @ \cup {work[s].call}], "failed")

\* Herdr says why it refused a prompt: it typed nothing.
PromptRefused(s) ==
    LET n == work[s].at IN
    /\ work[s].pc = "calling" /\ log[n].frame.kind = "send_prompt"
    /\ FailsWith(s, n, log[n], "refused")

\* The handler finds its peer gone.
Finish(s) ==
    /\ link[s] = "gone" /\ work[s].pc = "idle"
    /\ link' = [link EXCEPT ![s] = "closed"]
    /\ UNCHANGED <<memory, meter, work, log, known, spent>>

\* Every frame taken is answered, unless its handler broke.
Quiescent ==
    /\ \A s \in Sockets : work[s].pc = "idle"
    /\ UNCHANGED vars

Next ==
    \/ \E s \in Sockets :
          \/ Connect(s) \/ Leave(s) \/ Finish(s)
          \/ \E f \in Frames : Replay(s, f) \/ Limit(s, f) \/ Admit(s, f)
          \/ CarryOut(s) \/ Succeeds(s) \/ Fails(s) \/ CutOff(s) \/ PromptRefused(s)
    \/ \E n \in DOMAIN log : LateArrives(n)
    \/ \E H \in SUBSET Hosts : Polled(H)
    \/ \E h \in Hosts : Discovered(h)
    \/ Tick \/ Quiescent

Spec == Init /\ [][Next]_vars

-----------------------------------------------------------------------------
(* What the loop promises.                                                  *)

\* The first j keys, each once and in order.
Keys(j) == [i \in 1..j |-> i]

\* An acknowledged frame reached its host whole, each key once and in the client's
\* order; one refused before or instead of its calls left no trace, then or
\* later; and of any frame that is answered, failed or not, no key arrives twice
\* or without the keys before it.
AnswerTellsWhatArrived ==
    \A n \in DOMAIN log : LET e == log[n] IN
        /\ e.answer = "ack" /\ e.from = 0 => e.arrived = Keys(Len(e.frame.keys))
        /\ e.answer \in {"refused", "limited", "reused"} \/ e.from # 0
              => e.arrived = <<>> /\ e.late = {}
        /\ ~Legacy(e.frame) => \E j \in 0..Len(e.frame.keys) : e.arrived = Keys(j)

\* A frame that names an id its socket has answered runs only if that answer
\* was a create_tab failure, or Capacity later answers pushed it out.
RunsAgainOnlyWhenForgotten ==
    \A n, m \in DOMAIN log :
        (/\ m < n /\ log[n].paid /\ log[m].kept
         /\ log[m].by = log[n].by /\ log[m].frame.id = log[n].frame.id)
        => Cardinality({k \in (m + 1)..(n - 1) : log[k].by = log[m].by /\ log[k].kept})
             >= Capacity

\* A repeated answer is that of the same command for the same pane, from the
\* same socket, and one that was final: never a rejection by the meter, never
\* a failed create_tab.
RepeatsAreFaithful ==
    \A n \in DOMAIN log : log[n].from # 0 =>
        LET e == log[log[n].from] IN
        /\ e.by = log[n].by /\ e.answer = log[n].answer
        /\ e.frame = log[n].frame
        /\ e.answer \in {"ack", "refused", "failed"}
        /\ e.frame.kind = "create_tab" => e.answer # "failed"

Metered == Sockets \X Buckets

OfMeter(b, e) == e.by = b[1] /\ BucketOf(e.frame) = b[2]

Meter == INSTANCE Allowance WITH
    Meters <- Metered, Rate <- 1, Cost <- Cost,
    Most <- [b \in Metered |-> Full(b[2])],
    level <- [b \in Metered |-> Credited(meter[b[1]][b[2]], b[2])],
    admitted <- [b \in Metered |->
        Cardinality({n \in DOMAIN log : OfMeter(b, log[n]) /\ log[n].paid})],
    refused <- [b \in Metered |->
        Cardinality({n \in DOMAIN log : OfMeter(b, log[n]) /\ log[n].answer = "limited"})]

\* The buckets, credited only when a command comes, admit and refuse exactly
\* what an allowance that is refilled at every tick would; repeated answers,
\* unmetered frames and those no handler has taken cost nothing.
MeterIsAnAllowance == Meter!Spec

\* A create_tab that failed made no tab (the comment of server.py:682 and
\* docs/native-protocol.md): so a retry under the same id makes the only one.
FailedTabWasNotMade ==
    \A n \in DOMAIN log : log[n].frame.kind = "create_tab" /\ log[n].answer = "failed"
        => log[n].arrived = <<>>

=============================================================================
