------------------------------- MODULE Dialogs -------------------------------
(***************************************************************************)
(* One pane's blocked dialog: relay/herdr_relay/dialogs.py, fed by the     *)
(* poll and the pushed events of transport.py and by read_pane, answered   *)
(* by respond_dialog and respond of server.py.                             *)
(*                                                                         *)
(* Handlers are asyncio tasks: a step runs from one await to the next.  A  *)
(* read of the pane and a key sent to it leave the process, so what they   *)
(* meet on the terminal and when their answer is applied are two steps.    *)
(***************************************************************************)
EXTENDS Naturals, Sequences, FiniteSets

CONSTANTS Questions,   \* questions the agent may ask, each with its choices
          Clients,     \* sockets, each served one frame at a time
          Hooks,       \* event hooks that may be under way together
          None,        \* no question on screen; a missing output revision
          Reports,     \* Herdr reports an output revision
          Readings,    \* bound: what readable may be
          MaxAsks,     \* bound: questions asked
          MaxMoves,    \* bound: what the user does at the terminal
          MaxOutput,   \* bound: the output revision
          MaxFrames,   \* bound: frames served
          MaxEvents,   \* bound: hooks fired
          MaxMisses    \* bound: answers of Herdr that miss the pane

ASSUME ConstantsOK ==
    /\ None \notin Questions \cup Nat
    /\ Reports \in BOOLEAN /\ Readings \subseteq BOOLEAN
    /\ MaxAsks \in Nat /\ MaxMoves \in Nat /\ MaxOutput \in Nat
    /\ MaxFrames \in Nat /\ MaxEvents \in Nat /\ MaxMisses \in Nat

VARIABLES
    screen,     \* what the pane shows
    output,     \* Herdr's output revision of the pane
    known,      \* the pane is in known_pane_keys
    lastStatus, \* last_statuses of the pane
    revision,   \* pane_revisions of the pane
    readable,   \* pane_remote_map has it, or its host is "local": fixed
    heap,       \* every dialog object ever made, oldest first
    current,    \* pane_dialogs: a position in heap, 0 for none
    counter,    \* pane_dialog_revisions: survives clear()
    poll,       \* the poll loop's frame
    hook,       \* the pushed events' frames
    client,     \* the sockets' frames
    spent       \* how much of each bound is spent

terminal == <<screen, output>>
registry == <<known, lastStatus, revision, readable>>
dialogs == <<heap, current, counter>>
vars == <<terminal, registry, dialogs, poll, hook, client, spent>>

-----------------------------------------------------------------------------
(* The terminal.                                                            *)

\* focus: the cursor is in the question's free-text field; typed: the field
\* holds text, which changes the row and so what the question offers.
Screen == [question: Questions \cup {None}, focus: BOOLEAN, typed: BOOLEAN]

Working == [question |-> None, focus |-> FALSE, typed |-> FALSE]

Blocked == screen.question # None

\* A redraw may or may not move the output revision.
Redraws == output' \in {output, output + 1} /\ output' <= MaxOutput

\* A key sent to a pane that asks nothing changes no question.
Pressed(key) ==
    IF ~Blocked THEN screen
    ELSE CASE key \in {"choice", "legacy", "enter"} -> Working
           [] key = "up" -> [screen EXCEPT !.focus = FALSE]
           [] key = "digit" -> IF screen.focus THEN [screen EXCEPT !.typed = TRUE]
                               ELSE [screen EXCEPT !.focus = TRUE]
           [] key = "text" -> [screen EXCEPT !.typed = @ \/ screen.focus]

Revision == IF Reports THEN output ELSE None

-----------------------------------------------------------------------------
(* dialogs.ensure and dialogs.clear.                                        *)

\* History: acks, answers acknowledged; reached, the output revision its last
\* key arrived at; pressed, the digit that opens the field went through.
Dialog == [revision: Nat \ {0}, question: Questions \cup {None}, typed: BOOLEAN,
           observation: Nat \cup {None}, focused: BOOLEAN,
           consumed: BOOLEAN, inFlight: BOOLEAN,
           acks: Nat, reached: Nat \cup {None}, pressed: BOOLEAN]

\* The prompt key: the question and the choices it offers.
SamePrompt(d, s) == heap[d].question = s.question /\ heap[d].typed = s.typed

\* sha256 of pane, revision and prompt key.
DialogId(d) == <<heap[d].revision, heap[d].question, heap[d].typed>>

\* Only a concrete change of the output revision reopens an answered dialog.
Reopened(d, observation) ==
    /\ heap[d].consumed
    /\ heap[d].observation # None /\ observation # None
    /\ heap[d].observation # observation

\* Slip: a capture also moves the focus of a dialog being answered.
Refreshed(d, s, observation) ==
    [d EXCEPT !.observation = IF d.consumed \/ observation = None THEN @ ELSE observation,
              !.focused = s.focus]
Refresh(d, s, observation) ==
    [d EXCEPT !.observation = IF d.consumed \/ observation = None THEN @ ELSE observation,
              !.focused = IF d.inFlight THEN @ ELSE s.focus]

NewDialog(s, observation) ==
    [revision |-> counter + 1, question |-> s.question, typed |-> s.typed,
     observation |-> observation, focused |-> s.focus,
     consumed |-> FALSE, inFlight |-> FALSE, acks |-> 0, reached |-> None, pressed |-> FALSE]

Ensure(s, observation) ==
    IF current # 0 /\ SamePrompt(current, s) /\ ~Reopened(current, observation)
    THEN /\ heap' = [heap EXCEPT ![current] = Refresh(@, s, observation)]
         /\ UNCHANGED <<current, counter>>
    ELSE /\ heap' = Append(heap, NewDialog(s, observation))
         /\ current' = Len(heap) + 1
         /\ counter' = counter + 1

\* Slips: a stale current survives; the revision counter goes with the dialog.
ClearBeyond == current' = Len(heap) + 1 /\ UNCHANGED <<heap, counter>>
ClearAll == current' = 0 /\ counter' = 0 /\ UNCHANGED heap
Clear == current' = 0 /\ UNCHANGED <<heap, counter>>

-----------------------------------------------------------------------------
(* Frames of the tasks.                                                     *)

Poll == [pc: {"idle", "apply", "read", "settle", "remember"},
         status: {"gone", "blocked", "working"},
         revision: Nat \cup {None}, capture: Screen]

Hook == [pc: {"idle", "sent", "read", "ensure"}, status: {"blocked", "working"},
         capture: Screen]

\* pc: a step of read_pane, or the key a delivery sends; outcome: how the
\* send ended; dialog: the object a delivery claimed, 0 for none; saw: the one
\* its client was shown.
Delivering == {"up", "choice", "digit", "text", "enter", "legacy"}

Client == [pc: {"idle", "reading", "show"} \cup Delivering,
           outcome: {"none", "ok", "failed"}, dialog: Nat, saw: Nat,
           capture: Screen]

IdlePoll == [pc |-> "idle", status |-> "working", revision |-> None, capture |-> Working]
IdleHook == [pc |-> "idle", status |-> "working", capture |-> Working]
IdleClient == [pc |-> "idle", outcome |-> "none", dialog |-> 0, saw |-> 0,
               capture |-> Working]

Spend(what) == spent' = [spent EXCEPT ![what] = @ + 1]

Init ==
    /\ screen = Working /\ output = 0
    /\ known = FALSE /\ lastStatus = "none" /\ revision = None
    /\ readable \in Readings
    /\ heap = <<>> /\ current = 0 /\ counter = 0
    /\ poll = IdlePoll
    /\ hook = [h \in Hooks |-> IdleHook]
    /\ client = [c \in Clients |-> IdleClient]
    /\ spent = [asks |-> 0, moves |-> 0, frames |-> 0, events |-> 0, misses |-> 0]

-----------------------------------------------------------------------------
(* The agent, and its user at the terminal.                                 *)

AgentAsks ==
    /\ ~Blocked /\ spent.asks < MaxAsks
    /\ \E q \in Questions : screen' = [Working EXCEPT !.question = q]
    /\ Redraws
    /\ Spend("asks")
    /\ UNCHANGED <<registry, dialogs, poll, hook, client>>

TerminalAnswers ==
    /\ Blocked /\ spent.moves < MaxMoves
    /\ screen' = Working
    /\ Redraws
    /\ Spend("moves")
    /\ UNCHANGED <<registry, dialogs, poll, hook, client>>

TerminalMovesFocus ==
    /\ Blocked /\ spent.moves < MaxMoves
    /\ screen' = [screen EXCEPT !.focus = ~@]
    /\ Redraws
    /\ Spend("moves")
    /\ UNCHANGED <<registry, dialogs, poll, hook, client>>

-----------------------------------------------------------------------------
(* herdr.read_pane: what it meets, or the empty text of a failed call.      *)

Captured(s, missed) ==
    \/ s = screen /\ missed = FALSE
    \/ s = Working /\ missed = TRUE /\ spent.misses < MaxMisses

-----------------------------------------------------------------------------
(* _poll_once.                                                              *)

\* get_all_agents: one snapshot of status and output revision, or a host that
\* does not list the pane.
PollAsk ==
    /\ poll.pc = "idle"
    /\ \/ /\ poll' = [IdlePoll EXCEPT !.pc = "apply", !.revision = Revision,
                        !.status = IF Blocked THEN "blocked" ELSE "working"]
          /\ UNCHANGED spent
       \/ /\ spent.misses < MaxMisses
          /\ poll' = [IdlePoll EXCEPT !.pc = "apply", !.status = "gone"]
          /\ Spend("misses")
    /\ UNCHANGED <<terminal, registry, dialogs, hook, client>>

\* The registry is rebuilt from the snapshot.
PollApply ==
    /\ poll.pc = "apply"
    /\ known' = (poll.status # "gone")
    /\ revision' = IF poll.status = "gone" THEN revision ELSE poll.revision
    /\ poll' = [poll EXCEPT !.pc = IF poll.status = "blocked" THEN "read" ELSE "settle"]
    /\ UNCHANGED <<terminal, lastStatus, readable, dialogs, hook, client, spent>>

PollRead ==
    /\ poll.pc = "read"
    /\ \E s \in {screen, Working}, missed \in BOOLEAN :
         /\ Captured(s, missed)
         /\ poll' = [poll EXCEPT !.pc = "settle", !.capture = s]
         /\ IF missed THEN Spend("misses") ELSE UNCHANGED spent
    /\ UNCHANGED <<terminal, registry, dialogs, hook, client>>

\* Slip: a blocked pane is read again only when it has just become blocked.
PollSettleEdge ==
    /\ poll.pc = "settle"
    /\ \/ /\ poll.status = "blocked"
          /\ IF lastStatus = "blocked" THEN UNCHANGED dialogs
             ELSE Ensure(poll.capture, poll.revision)
          /\ poll' = [IdlePoll EXCEPT !.pc = "remember", !.status = poll.status]
          /\ UNCHANGED registry
       \/ /\ poll.status = "working"
          /\ IF lastStatus = "blocked" THEN Clear ELSE UNCHANGED dialogs
          /\ poll' = [IdlePoll EXCEPT !.pc = "remember", !.status = poll.status]
          /\ UNCHANGED registry
       \/ /\ poll.status = "gone"
          /\ IF lastStatus = "none" THEN UNCHANGED <<dialogs, registry>>
             ELSE Clear /\ lastStatus' = "none" /\ revision' = None /\ UNCHANGED <<known, readable>>
          /\ poll' = IdlePoll
    /\ UNCHANGED <<terminal, hook, client, spent>>
\* A blocked pane has its dialog ensured; one that was blocked, or that is
\* gone, has it cleared.
PollSettle ==
    /\ poll.pc = "settle"
    /\ \/ /\ poll.status = "blocked"
          /\ Ensure(poll.capture, poll.revision)
          /\ poll' = [IdlePoll EXCEPT !.pc = "remember", !.status = poll.status]
          /\ UNCHANGED registry
       \/ /\ poll.status = "working"
          /\ IF lastStatus = "blocked" THEN Clear ELSE UNCHANGED dialogs
          /\ poll' = [IdlePoll EXCEPT !.pc = "remember", !.status = poll.status]
          /\ UNCHANGED registry
       \/ /\ poll.status = "gone"
          /\ IF lastStatus = "none" THEN UNCHANGED <<dialogs, registry>>
             ELSE Clear /\ lastStatus' = "none" /\ revision' = None /\ UNCHANGED <<known, readable>>
          /\ poll' = IdlePoll
    /\ UNCHANGED <<terminal, hook, client, spent>>

\* The broadcast and the web push are awaited before last_statuses is set.
PollRemember ==
    /\ poll.pc = "remember"
    /\ lastStatus' = poll.status
    /\ poll' = IdlePoll
    /\ UNCHANGED <<terminal, known, revision, readable, dialogs, hook, client, spent>>

-----------------------------------------------------------------------------
(* _handle_pushed_event, a task of its own per event.                       *)

\* on_event.py reports the status it was started for.
HookFires(h) ==
    /\ hook[h].pc = "idle" /\ spent.events < MaxEvents
    /\ hook' = [hook EXCEPT ![h].pc = "sent",
                            ![h].status = IF Blocked THEN "blocked" ELSE "working"]
    /\ Spend("events")
    /\ UNCHANGED <<terminal, registry, dialogs, poll, client>>

\* Hooks overtake one another, and a push that fails is not repeated.
EventLost(h) ==
    /\ hook[h].pc = "sent"
    /\ hook' = [hook EXCEPT ![h] = IdleHook]
    /\ UNCHANGED <<terminal, registry, dialogs, poll, client, spent>>

\* The hook sends no revision: the poll's, else the dialog's own.
EventObservation ==
    IF revision # None THEN revision
    ELSE IF current # 0 THEN heap[current].observation ELSE None

\* A host-qualified event may make the pane known before the poll does.  One
\* that may not read the pane takes the event's own text for its screen.
EventStarts(h) ==
    /\ hook[h].pc = "sent"
    /\ known' = TRUE
    /\ \/ /\ hook[h].status = "blocked" /\ readable
          /\ hook' = [hook EXCEPT ![h].pc = "read"]
          /\ UNCHANGED dialogs
       \/ /\ hook[h].status = "blocked" /\ ~readable
          /\ hook' = [hook EXCEPT ![h] = IdleHook]
          /\ Ensure(Working, EventObservation)
       \/ /\ hook[h].status = "working"
          /\ hook' = [hook EXCEPT ![h] = IdleHook]
          /\ Clear
    /\ UNCHANGED <<terminal, lastStatus, revision, readable, poll, client, spent>>

EventReads(h) ==
    /\ hook[h].pc = "read"
    /\ \E s \in {screen, Working}, missed \in BOOLEAN :
         /\ Captured(s, missed)
         /\ hook' = [hook EXCEPT ![h].pc = "ensure", ![h].capture = s]
         /\ IF missed THEN Spend("misses") ELSE UNCHANGED spent
    /\ UNCHANGED <<terminal, registry, dialogs, poll, client>>

EventEnsures(h) ==
    /\ hook[h].pc = "ensure"
    /\ Ensure(hook[h].capture, EventObservation)
    /\ hook' = [hook EXCEPT ![h] = IdleHook]
    /\ UNCHANGED <<terminal, registry, poll, client, spent>>

-----------------------------------------------------------------------------
(* read_pane.                                                               *)

ReadPane(c) ==
    /\ client[c].pc = "idle" /\ known /\ spent.frames < MaxFrames
    /\ client' = [client EXCEPT ![c].pc = "reading"]
    /\ Spend("frames")
    /\ UNCHANGED <<terminal, registry, dialogs, poll, hook>>

PaneRead(c) ==
    /\ client[c].pc = "reading"
    /\ \E s \in {screen, Working}, missed \in BOOLEAN :
         /\ Captured(s, missed)
         /\ client' = [client EXCEPT ![c].pc = "show", ![c].capture = s]
         /\ IF missed THEN Spend("misses") ELSE UNCHANGED spent
    /\ UNCHANGED <<terminal, registry, dialogs, poll, hook>>

\* A manual read carries no new evidence: it keeps the dialog's observation.
ShowPane(c) ==
    /\ client[c].pc = "show"
    /\ IF current # 0 \/ lastStatus = "blocked"
       THEN Ensure(client[c].capture,
                   IF current # 0 THEN heap[current].observation ELSE revision)
       ELSE Clear
    /\ client' = [client EXCEPT ![c] = IdleClient]
    /\ UNCHANGED <<terminal, registry, poll, hook, spent>>

-----------------------------------------------------------------------------
(* respond_dialog and respond.  A refused frame changes nothing here.       *)

Claimed(c, key, saw) ==
    /\ heap' = IF current = 0 THEN heap ELSE [heap EXCEPT ![current].inFlight = TRUE]
    /\ client' = [client EXCEPT ![c].pc = key, ![c].dialog = current, ![c].saw = saw]
    /\ Spend("frames")
    /\ UNCHANGED <<terminal, registry, current, counter, poll, hook>>

\* Slip: only a consumed dialog is refused.
Unconsumed(d) == ~heap[d].consumed
Answerable(d) == ~heap[d].consumed /\ ~heap[d].inFlight

\* A client answers a dialog it was once shown; its id must be the current
\* dialog's.
Answers(c, saw) ==
    /\ client[c].pc = "idle" /\ known /\ spent.frames < MaxFrames
    /\ current # 0 /\ DialogId(saw) = DialogId(current)
    /\ heap[current].question # None
    /\ Answerable(current)

\* A listed choice; Up first when the field has the focus.
RespondChoice(c) ==
    \E saw \in DOMAIN heap :
        /\ Answers(c, saw)
        /\ Claimed(c, IF heap[current].focused THEN "up" ELSE "choice", saw)

\* Free text, which only a question whose field is empty takes.
RespondText(c) ==
    \E saw \in DOMAIN heap :
        /\ Answers(c, saw) /\ ~heap[current].typed
        /\ Claimed(c, IF heap[current].focused THEN "text" ELSE "digit", saw)

\* The legacy frame names no dialog; without one nothing is claimed.
RespondLegacy(c) ==
    /\ client[c].pc = "idle" /\ known /\ spent.frames < MaxFrames
    /\ current # 0 => Answerable(current)
    /\ Claimed(c, "legacy", current)

\* The key reaches the pane; its sender may learn so or not.
KeyArrives(c) ==
    LET d == client[c].dialog IN
    /\ client[c].pc \in Delivering /\ client[c].outcome = "none"
    /\ screen' = Pressed(client[c].pc)
    /\ Redraws
    /\ heap' = IF d = 0 THEN heap ELSE [heap EXCEPT ![d].reached = output]
    /\ \/ client' = [client EXCEPT ![c].outcome = "ok"] /\ UNCHANGED spent
       \/ /\ spent.misses < MaxMisses
          /\ client' = [client EXCEPT ![c].outcome = "failed"]
          /\ Spend("misses")
    /\ UNCHANGED <<registry, current, counter, poll, hook>>

KeyFails(c) ==
    /\ client[c].pc \in Delivering /\ client[c].outcome = "none"
    /\ spent.misses < MaxMisses
    /\ client' = [client EXCEPT ![c].outcome = "failed"]
    /\ Spend("misses")
    /\ UNCHANGED <<terminal, registry, dialogs, poll, hook>>

\* A typed delivery goes on to its next key, or ends.
NextKey == [up |-> "choice", digit |-> "text", text |-> "enter"]

\* Slip: the claim of a delivery that failed is kept.
DeliveryFailsClaimed(c) ==
    /\ client[c].pc \in Delivering \ {"legacy"} /\ client[c].outcome = "failed"
    /\ client' = [client EXCEPT ![c] = IdleClient]
    /\ UNCHANGED <<terminal, registry, dialogs, poll, hook, spent>>
DeliveryFails(c) ==
    /\ client[c].pc \in Delivering \ {"legacy"} /\ client[c].outcome = "failed"
    /\ heap' = [heap EXCEPT ![client[c].dialog].inFlight = FALSE]
    /\ client' = [client EXCEPT ![c] = IdleClient]
    /\ UNCHANGED <<terminal, registry, current, counter, poll, hook, spent>>

DeliveryGoesOn(c) ==
    LET key == client[c].pc IN
    /\ key \in DOMAIN NextKey /\ client[c].outcome = "ok"
    /\ heap' = [heap EXCEPT
         ![client[c].dialog].focused = (key = "digit") \/ (key = "text" /\ @),
         ![client[c].dialog].pressed = (key = "digit") \/ (key = "text" /\ @)]
    /\ client' = [client EXCEPT ![c].pc = NextKey[key], ![c].outcome = "none"]
    /\ UNCHANGED <<terminal, registry, current, counter, poll, hook, spent>>

Acknowledges(c) ==
    /\ client[c].pc \in {"choice", "enter"} /\ client[c].outcome = "ok"
    /\ heap' = [heap EXCEPT ![client[c].dialog].consumed = TRUE,
                            ![client[c].dialog].acks = @ + 1]
    /\ client' = [client EXCEPT ![c] = IdleClient]
    /\ UNCHANGED <<terminal, registry, current, counter, poll, hook, spent>>

\* Slip: whatever dialog is current is consumed.
LegacyConsumesCurrent(c) ==
    LET d == client[c].dialog IN
    /\ client[c].pc = "legacy" /\ client[c].outcome # "none"
    /\ heap' = [e \in DOMAIN heap |->
         [heap[e] EXCEPT !.consumed = @ \/ (e = current /\ client[c].outcome = "ok"),
                         !.inFlight = @ /\ e # d]]
    /\ client' = [client EXCEPT ![c] = IdleClient]
    /\ UNCHANGED <<terminal, registry, current, counter, poll, hook, spent>>
\* "Only consume the exact dialog claimed above": it must still be current.
LegacyEnds(c) ==
    LET d == client[c].dialog IN
    /\ client[c].pc = "legacy" /\ client[c].outcome # "none"
    /\ heap' = IF d = 0 THEN heap
               ELSE [heap EXCEPT ![d].consumed = @ \/ (client[c].outcome = "ok" /\ current = d),
                                 ![d].inFlight = FALSE]
    /\ client' = [client EXCEPT ![c] = IdleClient]
    /\ UNCHANGED <<terminal, registry, current, counter, poll, hook, spent>>

-----------------------------------------------------------------------------

PollStep == PollAsk \/ PollApply \/ PollRead \/ PollSettle \/ PollRemember

HookStep(h) == EventStarts(h) \/ EventReads(h) \/ EventEnsures(h)

ClientStep(c) ==
    \/ PaneRead(c) \/ ShowPane(c)
    \/ KeyArrives(c) \/ KeyFails(c)
    \/ DeliveryFails(c) \/ DeliveryGoesOn(c) \/ Acknowledges(c) \/ LegacyEnds(c)

Next ==
    \/ AgentAsks \/ TerminalAnswers \/ TerminalMovesFocus
    \/ PollStep
    \/ \E h \in Hooks : HookFires(h) \/ EventLost(h) \/ HookStep(h)
    \/ \E c \in Clients : \/ ReadPane(c) \/ RespondChoice(c) \/ RespondText(c)
                          \/ RespondLegacy(c) \/ ClientStep(c)

Spec == Init /\ [][Next]_vars

\* The event loop runs every task whose await ended; reads and sends end by
\* their own timeouts.  Nothing is assumed of the agent, users or hooks.
Fairness ==
    /\ WF_vars(PollStep)
    /\ \A h \in Hooks : WF_vars(HookStep(h))
    /\ \A c \in Clients : WF_vars(ClientStep(c))

FairSpec == Spec /\ Fairness

-----------------------------------------------------------------------------
(* Properties.                                                              *)

\* The variables have the types the code gives them.
TypeOK ==
    /\ screen \in Screen /\ output \in Nat
    /\ known \in BOOLEAN /\ lastStatus \in {"none", "blocked", "working"}
    /\ revision \in Nat \cup {None} /\ readable \in Readings
    /\ heap \in Seq(Dialog) /\ current \in 0..Len(heap) /\ counter \in Nat
    /\ poll \in Poll /\ hook \in [Hooks -> Hook] /\ client \in [Clients -> Client]
    /\ spent \in [{"asks", "moves", "frames", "events", "misses"} -> Nat]

\* "Counters survive pane cleanup so a pane ID reused by a later agent cannot
\* accidentally receive an old dialog ID": whatever was cleared and asked in
\* between, the dialog an answer claims is the one its client was shown.
AnswersTheDialogSeen ==
    \A c \in Clients : client[c].pc \in Delivering => client[c].dialog = client[c].saw

DeliveriesOf(d) == {c \in Clients : client[c].pc \in Delivering /\ client[c].dialog = d}

\* "Claim before yielding to the subprocess so two WebSocket connections cannot
\* both answer one dialog": typed or legacy, one delivery at a time, none once
\* the dialog was consumed, and so one acknowledgement.
OneAnswerPerDialog ==
    \A d \in DOMAIN heap :
        /\ heap[d].acks <= 1
        /\ \A c \in DeliveriesOf(d) : /\ DeliveriesOf(d) = {c}
                                      /\ heap[d].inFlight /\ ~heap[d].consumed

\* A claim belongs to a delivery under way or to a dialog that was answered: a
\* failure, at whichever key, leaves the dialog answerable.
ClaimsAreReleased ==
    \A d \in DOMAIN heap :
        heap[d].inFlight /\ ~heap[d].consumed => DeliveriesOf(d) # {}

\* A dialog is consumed by an answer of its own, never by one meant for the
\* dialog it replaced.
ConsumedByItsAnswer ==
    \A d \in DOMAIN heap : heap[d].consumed => heap[d].reached # None

\* "While a delivery runs it owns focus": no capture, however late it is
\* applied, moves the focus of a dialog whose delivery has sent nothing more.
DeliveryOwnsFocus ==
    [][\A c \in Clients :
         LET d == client[c].dialog IN
         client[c].pc \in Delivering /\ d # 0 /\ client'[c] = client[c]
         => heap'[d].focused = heap[d].focused]_vars

\* A pane that stays on one question is shown with it: whatever late capture
\* an event, a poll or a manual read applies, the poll has the last word.
AskedQuestionIsShown ==
    \A q \in Questions :
        <>[](screen.question = q) => <>[](current # 0 /\ heap[current].question = q)

-----------------------------------------------------------------------------
(* What the documents say and the code does not do.                         *)

\* clear: "Forget active dialog and choices when a pane is no longer blocked."
ForgottenWhenUnblocked == <>[](~Blocked) => <>[](current = 0)

\* A dialog "remains consumed until a concrete revision proves a new
\* observation": a pane does not stay on a question it asked at a later output
\* revision than the answered one, and still count as answered.
LaterQuestionIsAnswerable ==
    ~<>[](/\ Blocked /\ current # 0 /\ heap[current].consumed
          /\ heap[current].reached # None /\ heap[current].reached < output)

\* docs/native-protocol.md: "a retry does not press the digit again once it
\* went through".
DigitIsPressedOnce ==
    \A c \in Clients : client[c].pc = "digit" => ~heap[client[c].dialog].pressed

=============================================================================
