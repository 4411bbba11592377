---------------------------- MODULE DialogsProofs ----------------------------
(***************************************************************************)
(* Proofs about Dialogs: type correctness and every safety property.       *)
(***************************************************************************)
EXTENDS Dialogs, SequenceTheorems, TLAPS

-----------------------------------------------------------------------------
(* Typing.                                                                  *)

\* The poll remembers the status of a pane its snapshot listed, and who sends
\* nothing has heard nothing.
Typed ==
    /\ TypeOK
    /\ poll.pc = "remember" => poll.status # "gone"
    /\ \A c \in Clients : client[c].pc \notin Delivering => client[c].outcome = "none"

\* A pane that works shows a screen without a question.
LEMMA WorkingTyped == Working \in Screen /\ Working.question = None
  BY DEF Working, Screen

\* The revision a listing reports is a number of the pane's output, or none.
LEMMA RevisionTyped == output \in Nat => Revision \in Nat \cup {None}
  BY DEF Revision

\* A key that reaches the terminal leaves a screen.
LEMMA PressedTyped ==
    ASSUME screen \in Screen, NEW key \in Delivering
    PROVE  Pressed(key) \in Screen
  BY WorkingTyped DEF Pressed, Delivering, Screen

\* A bound that is drawn on stays a number.
LEMMA SpendTyped ==
    ASSUME spent \in [{"asks", "moves", "frames", "events", "misses"} -> Nat],
           NEW what \in {"asks", "moves", "frames", "events", "misses"},
           Spend(what)
    PROVE  spent' \in [{"asks", "moves", "frames", "events", "misses"} -> Nat]
  BY DEF Spend

\* A capture shows what is on screen or nothing.
LEMMA CapturedTyped ==
    ASSUME screen \in Screen, NEW s, NEW missed, Captured(s, missed)
    PROVE  s \in Screen
  BY WorkingTyped DEF Captured

\* Refresh keeps what tells dialogs and claims apart, and the focus of one
\* that is being answered.
LEMMA RefreshKeeps ==
    ASSUME NEW d \in Dialog, NEW s \in Screen, NEW observation \in Nat \cup {None}
    PROVE  LET r == Refresh(d, s, observation) IN
           /\ r \in Dialog
           /\ r.revision = d.revision /\ r.consumed = d.consumed
           /\ r.inFlight = d.inFlight /\ r.acks = d.acks /\ r.reached = d.reached
           /\ d.inFlight => r.focused = d.focused
  <1> DEFINE seen == IF d.consumed \/ observation = None THEN d.observation ELSE observation
             focus == IF d.inFlight THEN d.focused ELSE s.focus
             a == [d EXCEPT !.observation = seen]
             b == [a EXCEPT !.focused = focus]
             Keeps(r) == /\ r \in Dialog
                         /\ r.revision = d.revision /\ r.consumed = d.consumed
                         /\ r.inFlight = d.inFlight /\ r.acks = d.acks /\ r.reached = d.reached
  <1>1. seen \in Nat \cup {None} /\ focus \in BOOLEAN
    BY DEF Dialog, Screen
  <1>2. d.inFlight => focus = d.focused
    OBVIOUS
  <1>3. Refresh(d, s, observation) = b
    BY DEF Refresh, Dialog
  <1> HIDE DEF seen, focus
  <1>4. Keeps(a) /\ a.focused = d.focused
    BY <1>1 DEF Dialog
  <1> HIDE DEF a
  <1>5. Keeps(b) /\ b.focused = focus
    BY <1>1, <1>4 DEF Dialog
  <1> HIDE DEF b
  <1> QED
    BY <1>2, <1>3, <1>5

\* A new dialog takes the next number and nobody has claimed or answered it.
LEMMA NewDialogTyped ==
    ASSUME counter \in Nat, NEW s \in Screen, NEW observation \in Nat \cup {None}
    PROVE  LET r == NewDialog(s, observation) IN
           /\ r \in Dialog /\ r.revision = counter + 1
           /\ r.consumed = FALSE /\ r.inFlight = FALSE /\ r.acks = 0
  BY DEF NewDialog, Dialog, Screen

\* One dialog of the heap is replaced.
LEMMA OneChanges ==
    ASSUME heap \in Seq(Dialog), NEW d \in 1..Len(heap), NEW r \in Dialog,
           heap' = [heap EXCEPT ![d] = r]
    PROVE  /\ heap' \in Seq(Dialog) /\ Len(heap') = Len(heap)
           /\ heap'[d] = r
           /\ \A e \in 1..Len(heap) : e # d => heap'[e] = heap[e]
  BY ExceptSeq

\* Ensure refreshes the current dialog or makes a new one current.
LEMMA Ensured ==
    ASSUME heap \in Seq(Dialog), current \in 0..Len(heap), counter \in Nat,
           NEW s \in Screen, NEW observation \in Nat \cup {None},
           Ensure(s, observation)
    PROVE  \/ /\ current \in 1..Len(heap)
              /\ heap' = [heap EXCEPT ![current] = Refresh(heap[current], s, observation)]
              /\ current' = current /\ counter' = counter
           \/ /\ heap' = Append(heap, NewDialog(s, observation))
              /\ current' = Len(heap) + 1
              /\ counter' = counter + 1
  <1>1. CASE current # 0 /\ SamePrompt(current, s) /\ ~Reopened(current, observation)
    <2>1. /\ heap' = [heap EXCEPT ![current] = Refresh(heap[current], s, observation)]
          /\ current' = current /\ counter' = counter
      BY <1>1 DEF Ensure
    <2>2. current \in 1..Len(heap)
      BY <1>1
    <2> QED
      BY <2>1, <2>2
  <1>2. CASE ~(current # 0 /\ SamePrompt(current, s) /\ ~Reopened(current, observation))
    BY <1>2 DEF Ensure
  <1> QED
    BY <1>1, <1>2

\* ensure leaves a heap of dialogs with a current one of it, or none.
LEMMA EnsureTyped ==
    ASSUME heap \in Seq(Dialog), current \in 0..Len(heap), counter \in Nat,
           NEW s \in Screen, NEW observation \in Nat \cup {None},
           Ensure(s, observation)
    PROVE  heap' \in Seq(Dialog) /\ current' \in 0..Len(heap') /\ counter' \in Nat
  <1>1. CASE /\ current \in 1..Len(heap)
             /\ heap' = [heap EXCEPT ![current] = Refresh(heap[current], s, observation)]
             /\ current' = current /\ counter' = counter
    <2> DEFINE r == Refresh(heap[current], s, observation)
    <2>1. heap[current] \in Dialog
      BY <1>1
    <2>2. r \in Dialog
      BY <2>1, RefreshKeeps
    <2> HIDE DEF r
    <2>3. heap' \in Seq(Dialog) /\ Len(heap') = Len(heap)
      BY <1>1, <2>2, OneChanges DEF r
    <2> QED
      BY <1>1, <2>3
  <1>2. CASE /\ heap' = Append(heap, NewDialog(s, observation))
             /\ current' = Len(heap) + 1
             /\ counter' = counter + 1
    <2> DEFINE r == NewDialog(s, observation)
    <2>1. r \in Dialog
      BY NewDialogTyped
    <2> HIDE DEF r
    <2>2. heap' = Append(heap, r)
      BY <1>2 DEF r
    <2>3. heap' \in Seq(Dialog) /\ Len(heap') = Len(heap) + 1
      BY <2>1, <2>2
    <2> QED
      BY <1>2, <2>3
  <1> QED
    BY <1>1, <1>2, Ensured

-----------------------------------------------------------------------------
(* Clients' frames.                                                         *)

Outcomes == {"none", "ok", "failed"}
PCs == {"idle", "reading", "show"} \cup Delivering

\* A delivery that hears of its key stays where it is, on the dialog it answers.
LEMMA FrameHears ==
    ASSUME NEW f \in Client, NEW outcome \in Outcomes
    PROVE  LET g == [f EXCEPT !.outcome = outcome] IN
           /\ g \in Client /\ g.outcome = outcome
           /\ g.pc = f.pc /\ g.dialog = f.dialog /\ g.saw = f.saw
  BY DEF Client, Outcomes

\* A delivery that goes on sends its next key for the same dialog.
LEMMA FrameGoesOn ==
    ASSUME NEW f \in Client, NEW pc \in PCs
    PROVE  LET g == [f EXCEPT !.pc = pc, !.outcome = "none"] IN
           /\ g \in Client /\ g.pc = pc /\ g.outcome = "none"
           /\ g.dialog = f.dialog /\ g.saw = f.saw
  BY DEF Client, PCs

\* A client at rest sends nothing and has heard nothing.
LEMMA IdleClientTyped ==
    /\ IdleClient \in Client
    /\ IdleClient.pc \notin Delivering /\ IdleClient.outcome = "none"
  BY WorkingTyped DEF IdleClient, Client, Delivering

\* One client's frame is replaced.
LEMMA OneMoves ==
    ASSUME client \in [Clients -> Client], NEW c \in Clients, NEW g \in Client,
           client' = [client EXCEPT ![c] = g]
    PROVE  /\ client' \in [Clients -> Client] /\ client'[c] = g
           /\ \A b \in Clients : b # c => client'[b] = client[b]
  OBVIOUS

\* What each step of a delivery does to its client's frame.
LEMMA ClaimedFrame ==
    ASSUME TypeOK, NEW c \in Clients, NEW key \in Delivering, NEW saw \in Nat,
           Claimed(c, key, saw)
    PROVE  /\ client' \in [Clients -> Client]
           /\ client'[c].pc = key /\ client'[c].dialog = current
           /\ client'[c].saw = saw /\ client'[c].outcome = client[c].outcome
           /\ \A b \in Clients : b # c => client'[b] = client[b]
  <1> DEFINE g == [client[c] EXCEPT !.pc = key, !.dialog = current, !.saw = saw]
  <1>1. client' = [client EXCEPT ![c] = g]
    BY DEF Claimed
  <1>2. client[c] \in Client /\ key \in PCs /\ current \in Nat
    BY DEF TypeOK, PCs
  <1>3. /\ g \in Client /\ g.pc = key /\ g.dialog = current /\ g.saw = saw
        /\ g.outcome = client[c].outcome
    BY <1>2 DEF Client, PCs
  <1>4. client \in [Clients -> Client]
    BY DEF TypeOK
  <1> HIDE DEF g
  <1> QED
    BY <1>1, <1>3, <1>4, OneMoves

\* When a client hears of its key, no frame moves to another dialog and no other changes.
LEMMA HeardFrame ==
    ASSUME TypeOK, NEW c \in Clients, NEW outcome \in Outcomes,
           client' = [client EXCEPT ![c].outcome = outcome]
    PROVE  /\ client' \in [Clients -> Client] /\ client'[c].outcome = outcome
           /\ \A b \in Clients : /\ client'[b].pc = client[b].pc
                                 /\ client'[b].dialog = client[b].dialog
                                 /\ client'[b].saw = client[b].saw
           /\ \A b \in Clients : b # c => client'[b] = client[b]
  <1> DEFINE g == [client[c] EXCEPT !.outcome = outcome]
  <1>1. client' = [client EXCEPT ![c] = g]
    OBVIOUS
  <1>2. client \in [Clients -> Client]
    BY DEF TypeOK
  <1>3. /\ g \in Client /\ g.outcome = outcome /\ g.pc = client[c].pc
        /\ g.dialog = client[c].dialog /\ g.saw = client[c].saw
    BY <1>2, FrameHears
  <1> HIDE DEF g
  <1>4. /\ client' \in [Clients -> Client] /\ client'[c] = g
        /\ \A b \in Clients : b # c => client'[b] = client[b]
    BY <1>1, <1>2, <1>3, OneMoves
  <1>5. /\ client'[c].outcome = outcome
        /\ client'[c].pc = client[c].pc
        /\ client'[c].dialog = client[c].dialog
        /\ client'[c].saw = client[c].saw
    BY <1>3, <1>4
  <1>6. ASSUME NEW b \in Clients, b # c
        PROVE  client'[b] = client[b]
    BY <1>4, <1>6
  <1>7. ASSUME NEW b \in Clients
        PROVE  /\ client'[b].pc = client[b].pc
               /\ client'[b].dialog = client[b].dialog
               /\ client'[b].saw = client[b].saw
    BY <1>5, <1>6, <1>7
  <1>8. client' \in [Clients -> Client]
    BY <1>4
  <1>9. client'[c].outcome = outcome
    BY <1>5
  <1> QED
    BY <1>6, <1>7, <1>8, <1>9

\* When a delivery goes on it stays one, of the same dialog; a legacy frame has one key only.
LEMMA GoneOnFrame ==
    ASSUME TypeOK, NEW c \in Clients, DeliveryGoesOn(c)
    PROVE  /\ client' \in [Clients -> Client]
           /\ client[c].pc \in Delivering \ {"legacy"}
           /\ client'[c].pc \in Delivering \ {"legacy"}
           /\ client'[c].outcome = "none"
           /\ client'[c].dialog = client[c].dialog /\ client'[c].saw = client[c].saw
           /\ \A b \in Clients : b # c => client'[b] = client[b]
  <1> DEFINE key == NextKey[client[c].pc]
             g == [client[c] EXCEPT !.pc = key, !.outcome = "none"]
  <1>1. client' = [client EXCEPT ![c] = g]
    BY DEF DeliveryGoesOn
  <1>2. client \in [Clients -> Client]
    BY DEF TypeOK
  <1>3. client[c].pc \in {"up", "digit", "text"}
    BY DEF DeliveryGoesOn, NextKey
  <1>4. key \in {"choice", "text", "enter"}
    BY <1>3 DEF NextKey
  <1> HIDE DEF key
  <1>5. key \in PCs
    BY <1>4 DEF PCs, Delivering
  <1>6. /\ g \in Client /\ g.pc = key /\ g.outcome = "none"
        /\ g.dialog = client[c].dialog /\ g.saw = client[c].saw
    BY <1>2, <1>5, FrameGoesOn
  <1> HIDE DEF g
  <1>7. /\ client' \in [Clients -> Client] /\ client'[c] = g
        /\ \A b \in Clients : b # c => client'[b] = client[b]
    BY <1>1, <1>2, <1>6, OneMoves
  <1> QED
    BY <1>3, <1>4, <1>6, <1>7 DEF Delivering

\* A frame that ends leaves its client at rest and the others alone.
LEMMA EndedFrame ==
    ASSUME TypeOK, NEW c \in Clients, client' = [client EXCEPT ![c] = IdleClient]
    PROVE  /\ client' \in [Clients -> Client]
           /\ client'[c].pc \notin Delivering /\ client'[c].outcome = "none"
           /\ \A b \in Clients : b # c => client'[b] = client[b]
  BY IdleClientTyped, OneMoves DEF TypeOK

-----------------------------------------------------------------------------
(* Steps on a dialog that is being answered.                                *)

\* A claim changes nothing else of a dialog.
LEMMA ClaimKeeps ==
    ASSUME NEW d \in Dialog, NEW flag \in BOOLEAN
    PROVE  LET r == [d EXCEPT !.inFlight = flag] IN
           /\ r \in Dialog /\ r.inFlight = flag
           /\ r.revision = d.revision /\ r.consumed = d.consumed /\ r.acks = d.acks
           /\ r.reached = d.reached /\ r.focused = d.focused
  BY DEF Dialog

\* A key's arrival changes only when the dialog was reached.
LEMMA ArrivalKeeps ==
    ASSUME NEW d \in Dialog, NEW at \in Nat
    PROVE  LET r == [d EXCEPT !.reached = at] IN
           /\ r \in Dialog /\ r.reached = at
           /\ r.revision = d.revision /\ r.consumed = d.consumed /\ r.acks = d.acks
           /\ r.inFlight = d.inFlight /\ r.focused = d.focused
  BY DEF Dialog

\* An acknowledgement consumes the dialog and keeps its number, reach and focus.
LEMMA AckKeeps ==
    ASSUME NEW d \in Dialog, NEW acks \in Nat
    PROVE  LET r == [d EXCEPT !.consumed = TRUE, !.acks = acks] IN
           /\ r \in Dialog /\ r.consumed = TRUE /\ r.acks = acks
           /\ r.revision = d.revision /\ r.reached = d.reached
           /\ r.focused = d.focused
  BY DEF Dialog

\* The end of a delivery lifts the claim and keeps number, acknowledgements, reach and focus.
LEMMA EndKeeps ==
    ASSUME NEW d \in Dialog, NEW taken \in BOOLEAN
    PROVE  LET r == [d EXCEPT !.consumed = taken, !.inFlight = FALSE] IN
           /\ r \in Dialog /\ r.consumed = taken /\ r.inFlight = FALSE
           /\ r.revision = d.revision /\ r.acks = d.acks /\ r.reached = d.reached
           /\ r.focused = d.focused
  BY DEF Dialog

-----------------------------------------------------------------------------
(* Every step keeps the types.                                              *)

\* The poll and the hooks have frames at rest.
LEMMA IdleTyped ==
    /\ IdlePoll \in Poll /\ IdlePoll.pc = "idle"
    /\ IdleHook \in Hook
  BY WorkingTyped DEF IdlePoll, Poll, IdleHook, Hook

\* Typing holds when the relay starts.
LEMMA TypedInitially == ConstantsOK /\ Init => Typed
  <1> SUFFICES ASSUME ConstantsOK, Init PROVE Typed
    OBVIOUS
  <1>1. heap \in Seq(Dialog) /\ Len(heap) = 0
    BY DEF Init
  <1>2. /\ screen \in Screen /\ poll \in Poll /\ poll.pc # "remember"
        /\ hook \in [Hooks -> Hook] /\ client \in [Clients -> Client]
        /\ \A c \in Clients : client[c].outcome = "none"
    BY WorkingTyped, IdleTyped, IdleClientTyped DEF Init
  <1>3. spent \in [{"asks", "moves", "frames", "events", "misses"} -> Nat]
    BY DEF Init
  <1>4. output \in Nat /\ counter \in Nat /\ current \in 0..Len(heap)
    BY <1>1 DEF Init
  <1>5. /\ known \in BOOLEAN /\ lastStatus \in {"none", "blocked", "working"}
        /\ revision \in Nat \cup {None} /\ readable \in Readings
    BY DEF Init
  <1> QED
    BY <1>1, <1>2, <1>3, <1>4, <1>5 DEF Typed, TypeOK

\* Whatever happens at the terminal keeps the types.
LEMMA TerminalTyped ==
    ASSUME Typed, AgentAsks \/ TerminalAnswers \/ TerminalMovesFocus
    PROVE  Typed'
  <1>1. screen' \in Screen
    BY WorkingTyped
    DEF Typed, TypeOK, AgentAsks, TerminalAnswers, TerminalMovesFocus, Screen, Working
  <1>2. output' \in Nat
    BY DEF Typed, TypeOK, AgentAsks, TerminalAnswers, TerminalMovesFocus, Redraws
  <1>3. spent' \in [{"asks", "moves", "frames", "events", "misses"} -> Nat]
    BY SpendTyped DEF Typed, TypeOK, AgentAsks, TerminalAnswers, TerminalMovesFocus
  <1>4. UNCHANGED <<registry, dialogs, poll, hook, client>>
    BY DEF AgentAsks, TerminalAnswers, TerminalMovesFocus
  <1> QED
    BY <1>1, <1>2, <1>3, <1>4 DEF Typed, TypeOK, registry, dialogs

\* Every step of the poll keeps the types.
LEMMA PollTyped == ASSUME Typed, PollStep PROVE Typed'
  <1>1. CASE PollAsk
    <2>1. poll' \in Poll /\ poll'.pc = "apply"
      BY <1>1, RevisionTyped, WorkingTyped
      DEF PollAsk, Typed, TypeOK, Poll, IdlePoll
    <2>2. spent' \in [{"asks", "moves", "frames", "events", "misses"} -> Nat]
      BY <1>1, SpendTyped DEF PollAsk, Typed, TypeOK
    <2>3. UNCHANGED <<terminal, registry, dialogs, hook, client>>
      BY <1>1 DEF PollAsk
    <2> QED
      BY <2>1, <2>2, <2>3 DEF Typed, TypeOK, terminal, registry, dialogs
  <1>2. CASE PollApply
    <2>1. poll' \in Poll /\ poll'.pc # "remember"
      BY <1>2 DEF PollApply, Typed, TypeOK, Poll
    <2>2. known' \in BOOLEAN /\ revision' \in Nat \cup {None}
      BY <1>2 DEF PollApply, Typed, TypeOK, Poll
    <2> QED
      BY <1>2, <2>1, <2>2 DEF PollApply, Typed, TypeOK, terminal, dialogs
  <1>3. CASE PollRead
    <2>1. PICK s \in {screen, Working}, missed \in BOOLEAN :
            /\ Captured(s, missed)
            /\ poll' = [poll EXCEPT !.pc = "settle", !.capture = s]
            /\ IF missed THEN Spend("misses") ELSE UNCHANGED spent
      BY <1>3 DEF PollRead
    <2>2. s \in Screen
      BY <2>1, CapturedTyped DEF Typed, TypeOK
    <2>3. poll' \in Poll /\ poll'.pc = "settle"
      BY <2>1, <2>2 DEF Typed, TypeOK, Poll
    <2>4. spent' \in [{"asks", "moves", "frames", "events", "misses"} -> Nat]
      BY <2>1, SpendTyped DEF Typed, TypeOK
    <2>5. UNCHANGED <<terminal, registry, dialogs, hook, client>>
      BY <1>3 DEF PollRead
    <2> QED
      BY <2>3, <2>4, <2>5 DEF Typed, TypeOK, terminal, registry, dialogs
  <1>4. CASE PollSettle
    <2>1. poll' \in Poll /\ (poll'.pc = "remember" => poll'.status # "gone")
      <3>1. \/ poll' = [IdlePoll EXCEPT !.pc = "remember", !.status = poll.status]
               /\ poll.status \in {"blocked", "working"}
            \/ poll' = IdlePoll
        BY <1>4 DEF PollSettle
      <3>2. ASSUME NEW status \in {"blocked", "working"}
            PROVE  LET p == [IdlePoll EXCEPT !.pc = "remember", !.status = status] IN
                   p \in Poll /\ p.status # "gone"
        BY IdleTyped DEF Poll
      <3> QED
        BY <3>1, <3>2, IdleTyped
    <2>2. /\ known' \in BOOLEAN /\ lastStatus' \in {"none", "blocked", "working"}
          /\ revision' \in Nat \cup {None} /\ readable' \in Readings
      BY <1>4 DEF PollSettle, Typed, TypeOK, registry
    <2>3. poll.capture \in Screen /\ poll.revision \in Nat \cup {None}
      BY DEF Typed, TypeOK, Poll
    <2>4. Ensure(poll.capture, poll.revision) \/ Clear \/ UNCHANGED dialogs
      BY <1>4 DEF PollSettle
    <2>5. heap' \in Seq(Dialog) /\ current' \in 0..Len(heap') /\ counter' \in Nat
      <3>1. CASE Ensure(poll.capture, poll.revision)
        BY <2>3, <3>1, EnsureTyped DEF Typed, TypeOK
      <3>2. CASE Clear
        BY <3>2 DEF Clear, Typed, TypeOK
      <3>3. CASE UNCHANGED dialogs
        BY <3>3 DEF dialogs, Typed, TypeOK
      <3> QED
        BY <2>4, <3>1, <3>2, <3>3
    <2>6. UNCHANGED <<terminal, hook, client, spent>>
      BY <1>4 DEF PollSettle
    <2> QED
      BY <2>1, <2>2, <2>5, <2>6 DEF Typed, TypeOK, terminal
  <1>5. CASE PollRemember
    <2>1. poll' \in Poll /\ poll'.pc # "remember"
      BY <1>5, WorkingTyped DEF PollRemember, Poll, IdlePoll
    <2>2. lastStatus' \in {"blocked", "working"}
      BY <1>5 DEF PollRemember, Typed, TypeOK, Poll
    <2> QED
      BY <1>5, <2>1, <2>2 DEF PollRemember, Typed, TypeOK, terminal, dialogs
  <1> QED
    BY <1>1, <1>2, <1>3, <1>4, <1>5 DEF PollStep

\* A blocked event takes the poll's revision or the dialog's, a number or none.
LEMMA EventObservationTyped == Typed => EventObservation \in Nat \cup {None}
  <1> SUFFICES ASSUME Typed PROVE EventObservation \in Nat \cup {None}
    OBVIOUS
  <1>1. current # 0 => heap[current] \in Dialog
    BY DEF Typed, TypeOK
  <1>2. current # 0 => heap[current].observation \in Nat \cup {None}
    BY <1>1 DEF Dialog
  <1> QED
    BY <1>2 DEF EventObservation, Typed, TypeOK

\* A thread that handles an event goes on with a frame.
LEMMA HookMoves ==
    ASSUME Typed, NEW h \in Hooks, NEW g \in Hook, hook' = [hook EXCEPT ![h] = g]
    PROVE  hook' \in [Hooks -> Hook]
  BY DEF Typed, TypeOK

\* Every step of an event, sent, lost or applied, keeps the types.
LEMMA HookTyped ==
    ASSUME Typed, NEW h \in Hooks, HookFires(h) \/ EventLost(h) \/ HookStep(h)
    PROVE  Typed'
  <1>0. hook[h] \in Hook
    BY DEF Typed, TypeOK
  <1>idle. IdleHook \in Hook
    BY WorkingTyped DEF IdleHook, Hook
  <1>1. CASE HookFires(h)
    <2>1. PICK status \in {"blocked", "working"} :
            hook' = [hook EXCEPT ![h] = [hook[h] EXCEPT !.pc = "sent", !.status = status]]
      BY <1>1 DEF HookFires
    <2> DEFINE g == [hook[h] EXCEPT !.pc = "sent", !.status = status]
    <2>4. g \in Hook
      BY <1>0 DEF Hook
    <2>5. hook' = [hook EXCEPT ![h] = g]
      BY <2>1
    <2> HIDE DEF g
    <2>3. hook' \in [Hooks -> Hook]
      BY <2>4, <2>5, HookMoves
    <2>2. spent' \in [{"asks", "moves", "frames", "events", "misses"} -> Nat]
      BY <1>1, SpendTyped DEF HookFires, Typed, TypeOK
    <2> QED
      BY <1>1, <2>2, <2>3 DEF HookFires, Typed, TypeOK, terminal, registry, dialogs
  <1>2. CASE EventLost(h)
    <2>1. hook' \in [Hooks -> Hook]
      BY <1>idle, <1>2, HookMoves DEF EventLost
    <2> QED
      BY <1>2, <2>1 DEF EventLost, Typed, TypeOK, terminal, registry, dialogs
  <1>3. CASE EventStarts(h)
    <2>1. hook' \in [Hooks -> Hook]
      <3> DEFINE g == [hook[h] EXCEPT !.pc = "read"]
      <3>1. g \in Hook
        BY <1>0 DEF Hook
      <3>2. hook' = [hook EXCEPT ![h] = g] \/ hook' = [hook EXCEPT ![h] = IdleHook]
        BY <1>3 DEF EventStarts
      <3> HIDE DEF g
      <3> QED
        BY <1>idle, <3>1, <3>2, HookMoves
    <2>2. Ensure(Working, EventObservation) \/ Clear \/ UNCHANGED dialogs
      BY <1>3 DEF EventStarts
    <2>3. heap' \in Seq(Dialog) /\ current' \in 0..Len(heap') /\ counter' \in Nat
      <3>1. CASE Ensure(Working, EventObservation)
        BY <3>1, EnsureTyped, EventObservationTyped, WorkingTyped DEF Typed, TypeOK
      <3>2. CASE Clear
        BY <3>2 DEF Clear, Typed, TypeOK
      <3>3. CASE UNCHANGED dialogs
        BY <3>3 DEF dialogs, Typed, TypeOK
      <3> QED
        BY <2>2, <3>1, <3>2, <3>3
    <2>4. /\ known' = TRUE
          /\ UNCHANGED <<terminal, lastStatus, revision, readable, poll, client, spent>>
      BY <1>3 DEF EventStarts
    <2> QED
      BY <2>1, <2>3, <2>4 DEF Typed, TypeOK, terminal
  <1>4. CASE EventReads(h)
    <2>1. PICK s \in {screen, Working}, missed \in BOOLEAN :
            /\ Captured(s, missed)
            /\ hook' = [hook EXCEPT ![h].pc = "ensure", ![h].capture = s]
            /\ IF missed THEN Spend("misses") ELSE UNCHANGED spent
      BY <1>4 DEF EventReads
    <2>2. s \in Screen
      BY <2>1, CapturedTyped DEF Typed, TypeOK
    <2>3. hook' \in [Hooks -> Hook]
      <3> DEFINE g == [hook[h] EXCEPT !.pc = "ensure", !.capture = s]
      <3>1. g \in Hook
        BY <1>0, <2>2 DEF Hook
      <3>2. hook' = [hook EXCEPT ![h] = g]
        BY <2>1
      <3> HIDE DEF g
      <3> QED
        BY <3>1, <3>2, HookMoves
    <2>4. spent' \in [{"asks", "moves", "frames", "events", "misses"} -> Nat]
      BY <2>1, SpendTyped DEF Typed, TypeOK
    <2> QED
      BY <1>4, <2>3, <2>4 DEF EventReads, Typed, TypeOK, terminal, registry, dialogs
  <1>5. CASE EventEnsures(h)
    <2>1. hook' \in [Hooks -> Hook]
      BY <1>5, WorkingTyped DEF EventEnsures, Typed, TypeOK, Hook, IdleHook
    <2>2. hook[h].capture \in Screen
      BY <1>0 DEF Hook
    <2>3. Ensure(hook[h].capture, EventObservation)
      BY <1>5 DEF EventEnsures
    <2>4. heap' \in Seq(Dialog) /\ current' \in 0..Len(heap') /\ counter' \in Nat
      BY <2>2, <2>3, EnsureTyped, EventObservationTyped DEF Typed, TypeOK
    <2> QED
      BY <1>5, <2>1, <2>4 DEF EventEnsures, Typed, TypeOK, terminal, registry
  <1> QED
    BY <1>1, <1>2, <1>3, <1>4, <1>5 DEF HookStep

\* The claimed dialog is current, if there is one.
LEMMA ClaimedHeap ==
    ASSUME TypeOK, NEW c \in Clients, NEW key \in Delivering, NEW saw \in Nat,
           Claimed(c, key, saw)
    PROVE  \/ current = 0 /\ heap' = heap
           \/ /\ current \in 1..Len(heap)
              /\ heap[current] \in Dialog
              /\ heap' = [heap EXCEPT ![current] = [heap[current] EXCEPT !.inFlight = TRUE]]
  BY DEF Claimed, TypeOK

\* A frame that claims a dialog, or presses without one, keeps the types.
LEMMA ClaimedTyped ==
    ASSUME Typed, NEW c \in Clients, NEW key \in Delivering, NEW saw \in Nat,
           Claimed(c, key, saw)
    PROVE  Typed'
  <1>0. TypeOK
    BY DEF Typed
  <1>1. /\ client' \in [Clients -> Client] /\ client'[c].pc = key
        /\ \A b \in Clients : b # c => client'[b] = client[b]
    BY <1>0, ClaimedFrame
  <1>5. \A b \in Clients : client'[b].pc \notin Delivering => client'[b].outcome = "none"
    BY <1>1 DEF Typed
  <1>2. heap' \in Seq(Dialog) /\ Len(heap') = Len(heap)
    <2>1. CASE current = 0 /\ heap' = heap
      BY <1>0, <2>1 DEF TypeOK
    <2>2. CASE /\ current \in 1..Len(heap)
               /\ heap[current] \in Dialog
               /\ heap' = [heap EXCEPT ![current] = [heap[current] EXCEPT !.inFlight = TRUE]]
      BY <1>0, <2>2, ClaimKeeps, OneChanges DEF TypeOK
    <2> QED
      BY <1>0, <2>1, <2>2, ClaimedHeap
  <1>3. spent' \in [{"asks", "moves", "frames", "events", "misses"} -> Nat]
    BY <1>0, SpendTyped DEF Claimed, TypeOK
  <1>4. UNCHANGED <<terminal, registry, current, counter, poll, hook>>
    BY DEF Claimed
  <1> QED
    BY <1>0, <1>1, <1>2, <1>3, <1>4, <1>5 DEF Typed, TypeOK, terminal, registry

\* Every answer is a claim, of a dialog that was shown, or of whatever is
\* current by the legacy frame.
LEMMA Respond ==
    ASSUME Typed, NEW c \in Clients,
           RespondChoice(c) \/ RespondText(c) \/ RespondLegacy(c)
    PROVE  \E key \in Delivering, saw \in 0..Len(heap) :
             /\ Claimed(c, key, saw) /\ client[c].pc = "idle"
             /\ current # 0 => Answerable(current)
             /\ \/ key = "legacy" /\ saw = current
                \/ current # 0 /\ saw # 0 /\ DialogId(saw) = DialogId(current)
  <1>0. current \in 0..Len(heap) /\ DOMAIN heap = 1..Len(heap) /\ Len(heap) \in Nat
    BY DEF Typed, TypeOK
  <1>1. CASE RespondChoice(c)
    <2>1. PICK saw \in DOMAIN heap :
            Answers(c, saw) /\ Claimed(c, IF heap[current].focused THEN "up" ELSE "choice", saw)
      BY <1>1 DEF RespondChoice
    <2>2. \E key \in Delivering : Claimed(c, key, saw)
      BY <2>1 DEF Delivering
    <2>3. saw \in 0..Len(heap) /\ saw # 0
      BY <1>0
    <2> QED
      BY <2>1, <2>2, <2>3 DEF Answers
  <1>2. CASE RespondText(c)
    <2>1. PICK saw \in DOMAIN heap :
            Answers(c, saw) /\ Claimed(c, IF heap[current].focused THEN "text" ELSE "digit", saw)
      BY <1>2 DEF RespondText
    <2>2. \E key \in Delivering : Claimed(c, key, saw)
      BY <2>1 DEF Delivering
    <2>3. saw \in 0..Len(heap) /\ saw # 0
      BY <1>0
    <2> QED
      BY <2>1, <2>2, <2>3 DEF Answers
  <1>3. CASE RespondLegacy(c)
    BY <1>0, <1>3 DEF RespondLegacy, Delivering
  <1> QED
    BY <1>1, <1>2, <1>3

-----------------------------------------------------------------------------
(* The inductive invariant.                                                 *)

Delivers(c) == client[c].pc \in Delivering

Holds(c, d) == Delivers(c) /\ client[c].dialog = d

\* A delivery claims a dialog of the heap; only the legacy frame claims none.
InRange ==
    \A c \in Clients : Delivers(c) =>
        /\ client[c].dialog \in 0..Len(heap)
        /\ client[c].dialog = 0 => client[c].pc = "legacy"

\* Revisions only grow, and the counter is ahead of them all: that is why two
\* dialogs never share an id.
Numbered ==
    /\ \A d \in 1..Len(heap) : heap[d].revision <= counter
    /\ \A d, e \in 1..Len(heap) : d < e => heap[d].revision < heap[e].revision

\* A dialog that is being answered is claimed, unconsumed, and one client's.
Sole ==
    \A d \in 1..Len(heap), c \in Clients : Holds(c, d) =>
        /\ heap[d].inFlight /\ ~heap[d].consumed
        /\ \A b \in Clients : Holds(b, d) => b = c

Served ==
    \A d \in 1..Len(heap) :
        heap[d].inFlight /\ ~heap[d].consumed => \E c \in Clients : Holds(c, d)

Acked ==
    \A d \in 1..Len(heap) : heap[d].acks <= 1 /\ (heap[d].consumed \/ heap[d].acks = 0)

\* A key that went through has reached the pane for its dialog.
Arrived ==
    \A c \in Clients, d \in 1..Len(heap) :
        Holds(c, d) /\ client[c].outcome = "ok" => heap[d].reached # None

Consumed == \A d \in 1..Len(heap) : heap[d].consumed => heap[d].reached # None

Safe == InRange /\ Numbered /\ Sole /\ Served /\ Acked /\ Arrived /\ Consumed
        /\ AnswersTheDialogSeen

IInv == Typed /\ Safe

\* What a step leaves of a dialog: its number, its claim and its answers; once
\* reached it stays reached.
Kept(d) ==
    /\ heap'[d].revision = heap[d].revision
    /\ heap'[d].consumed = heap[d].consumed
    /\ heap'[d].inFlight = heap[d].inFlight
    /\ heap'[d].acks = heap[d].acks
    /\ heap[d].reached # None => heap'[d].reached # None

SameHeap ==
    /\ heap' \in Seq(Dialog) /\ Len(heap') = Len(heap)
    /\ \A d \in 1..Len(heap) : Kept(d)

\* What a step leaves of the deliveries.
SameDeliveries ==
    \A c \in Clients :
        /\ Delivers(c)' <=> Delivers(c)
        /\ Delivers(c) => /\ client'[c].dialog = client[c].dialog
                          /\ client'[c].saw = client[c].saw
                          /\ client'[c].pc = "legacy" <=> client[c].pc = "legacy"

\* None is told from every number, so that having reached a pane says something.
LEMMA NoneIsNoNumber == ConstantsOK => \A n \in Nat : n # None
  BY DEF ConstantsOK

\* A step that keeps the dialogs and the deliveries keeps the invariant.
LEMMA SafeWhenKept ==
    ASSUME Typed, Safe, SameHeap, counter' = counter, SameDeliveries, Arrived'
    PROVE  Safe'
  <1>1. \A c \in Clients, d \in 0..Len(heap) : Holds(c, d)' <=> Holds(c, d)
    BY DEF SameDeliveries, Holds
  <1>2. Len(heap') = Len(heap) /\ \A d \in 1..Len(heap) : Kept(d)
    BY DEF SameHeap
  <1>3. InRange'
    BY <1>2 DEF Safe, InRange, SameDeliveries
  <1>4. Numbered'
    BY <1>2 DEF Safe, Numbered, Kept
  <1>5. Sole'
    BY <1>1, <1>2 DEF Safe, Sole, Kept
  <1>6. Served'
    BY <1>1, <1>2 DEF Safe, Served, Kept
  <1>7. Acked'
    BY <1>2 DEF Safe, Acked, Kept
  <1>8. Consumed'
    BY <1>2 DEF Safe, Consumed, Kept
  <1>9. AnswersTheDialogSeen'
    BY DEF Safe, AnswersTheDialogSeen, SameDeliveries, Delivers
  <1> QED
    BY <1>3, <1>4, <1>5, <1>6, <1>7, <1>8, <1>9 DEF Safe

\* A delivery that has not heard anything new keeps what its key reached.
LEMMA ArrivedWhenQuiet ==
    ASSUME Arrived, SameHeap, SameDeliveries,
           \A c \in Clients : Delivers(c) /\ client'[c].outcome = "ok"
                              => client[c].outcome = "ok"
    PROVE  Arrived'
  BY DEF Arrived, SameHeap, Kept, SameDeliveries, Holds

\* No delivery is touched.
LEMMA NoDeliveryMoves ==
    ASSUME \A c \in Clients : Delivers(c) \/ Delivers(c)' => client'[c] = client[c]
    PROVE  /\ SameDeliveries
           /\ \A c \in Clients : Delivers(c) /\ client'[c].outcome = "ok"
                                 => client[c].outcome = "ok"
  BY DEF SameDeliveries, Delivers

\* A heap that nobody writes is kept in all that a delivery minds.
LEMMA HeapUnchanged == ASSUME Typed, UNCHANGED heap PROVE SameHeap
  BY DEF Typed, TypeOK, SameHeap, Kept

\* A new dialog has a new number and no claim.
LEMMA SafeWhenMade ==
    ASSUME Typed, Safe, NEW s \in Screen, NEW observation \in Nat \cup {None},
           heap' = Append(heap, NewDialog(s, observation)),
           counter' = counter + 1,
           \A c \in Clients : Delivers(c) \/ Delivers(c)' => client'[c] = client[c]
    PROVE  Safe'
  <1> DEFINE r == NewDialog(s, observation)
             n == Len(heap)
  <1>0. counter \in Nat /\ heap \in Seq(Dialog) /\ n \in Nat
    BY DEF Typed, TypeOK
  <1>1. /\ r \in Dialog /\ r.revision = counter + 1
        /\ r.consumed = FALSE /\ r.inFlight = FALSE /\ r.acks = 0
    BY <1>0, NewDialogTyped
  <1>2. heap' = Append(heap, r)
    OBVIOUS
  <1> HIDE DEF r
  <1>3. /\ Len(heap') = n + 1 /\ heap'[n + 1] = r
        /\ \A d \in 1..n : heap'[d] = heap[d]
    BY <1>0, <1>1, <1>2
  <1>4. \A d \in 1..(n + 1) : d \in 1..n \/ d = n + 1
    BY <1>0
  <1>5. \A d \in 1..n : heap[d].revision \in Nat
    <2>1. \A q \in Dialog : q.revision \in Nat
      BY DEF Dialog
    <2>2. \A d \in 1..n : heap[d] \in Dialog
      BY <1>0
    <2> QED
      BY <2>1, <2>2
  <1>6. \A c \in Clients : Delivers(c)' <=> Delivers(c)
    BY DEF Delivers
  <1>7. \A c \in Clients : Delivers(c) => client'[c] = client[c]
    OBVIOUS
  <1>8. \A c \in Clients : Delivers(c) => client[c].dialog \in 0..n
    BY DEF Safe, InRange
  <1>9. \A c \in Clients, d \in 1..(n + 1) : Holds(c, d)' <=> Holds(c, d)
    BY <1>6, <1>7 DEF Holds
  <1>10. \A c \in Clients : ~Holds(c, n + 1)
    BY <1>0, <1>8 DEF Holds
  <1> HIDE DEF n
  <1>11. InRange'
    BY <1>0, <1>3, <1>6, <1>7, <1>8 DEF Safe, InRange, n
  <1>12. Numbered'
    <2>1. \A d \in 1..n : heap[d].revision <= counter
      BY DEF Safe, Numbered, n
    <2>2. \A d, e \in 1..n : d < e => heap[d].revision < heap[e].revision
      BY DEF Safe, Numbered, n
    <2>3. \A d \in 1..n : heap[d].revision < counter + 1 /\ heap[d].revision <= counter + 1
      BY <2>1, <1>0, <1>5
    <2>4. \A d \in 1..(n + 1) : heap'[d].revision <= counter + 1
      BY <2>3, <1>0, <1>1, <1>3, <1>4
    <2>5. \A d, e \in 1..(n + 1) : d < e => heap'[d].revision < heap'[e].revision
      <3> SUFFICES ASSUME NEW d \in 1..(n + 1), NEW e \in 1..(n + 1), d < e
                   PROVE  heap'[d].revision < heap'[e].revision
        OBVIOUS
      <3>1. d \in 1..n /\ heap'[d] = heap[d]
        BY <1>0, <1>3
      <3>2. CASE e \in 1..n
        BY <2>2, <1>3, <3>1, <3>2
      <3>3. CASE e = n + 1
        BY <2>3, <1>1, <1>3, <3>1, <3>3
      <3> QED
        BY <1>4, <3>2, <3>3
    <2> QED
      <3>1. 1..Len(heap') = 1..(n + 1) /\ counter' = counter + 1
        BY <1>3
      <3> QED
        BY <2>4, <2>5, <3>1, Zenon DEF Numbered
  <1>13. Sole'
    <2>1. \A d \in 1..n, c \in Clients : Holds(c, d) =>
            /\ heap[d].inFlight /\ ~heap[d].consumed
            /\ \A b \in Clients : Holds(b, d) => b = c
      BY DEF Safe, Sole, n
    <2> QED
      BY <2>1, <1>3, <1>4, <1>9, <1>10 DEF Sole
  <1>14. Served'
    <2>1. \A d \in 1..n : heap[d].inFlight /\ ~heap[d].consumed
                          => \E c \in Clients : Holds(c, d)
      BY DEF Safe, Served, n
    <2>2. ASSUME NEW d \in 1..(n + 1), heap'[d].inFlight, ~heap'[d].consumed
          PROVE  \E c \in Clients : Holds(c, d)'
      <3>1. d \in 1..n
        BY <2>2, <1>1, <1>3, <1>4
      <3>2. PICK c \in Clients : Holds(c, d)
        BY <3>1, <2>1, <2>2, <1>3
      <3> QED
        BY <3>2, <1>9, <2>2
    <2> QED
      BY <2>2, <1>3 DEF Served
  <1>15. Acked'
    <2>1. \A d \in 1..n : heap[d].acks <= 1 /\ (heap[d].consumed \/ heap[d].acks = 0)
      BY DEF Safe, Acked, n
    <2> QED
      BY <2>1, <1>1, <1>3, <1>4 DEF Acked
  <1>16. Arrived'
    <2>1. \A c \in Clients, d \in 1..n :
            Holds(c, d) /\ client[c].outcome = "ok" => heap[d].reached # None
      BY DEF Safe, Arrived, n
    <2>2. ASSUME NEW c \in Clients, NEW d \in 1..(n + 1), Holds(c, d)',
                 client'[c].outcome = "ok"
          PROVE  heap'[d].reached # None
      <3>1. Holds(c, d) /\ d \in 1..n
        BY <2>2, <1>4, <1>9, <1>10
      <3>2. client[c].outcome = "ok"
        BY <3>1, <2>2, <1>7 DEF Holds
      <3> QED
        BY <3>1, <3>2, <2>1, <1>3
    <2> QED
      BY <2>2, <1>3 DEF Arrived
  <1>17. Consumed'
    <2>1. \A d \in 1..n : heap[d].consumed => heap[d].reached # None
      BY DEF Safe, Consumed, n
    <2> QED
      BY <2>1, <1>1, <1>3, <1>4 DEF Consumed
  <1>18. AnswersTheDialogSeen'
    BY <1>6, <1>7 DEF Safe, AnswersTheDialogSeen, Delivers
  <1> QED
    BY <1>11, <1>12, <1>13, <1>14, <1>15, <1>16, <1>17, <1>18 DEF Safe

-----------------------------------------------------------------------------
(* Dialogs made, refreshed, cleared and claimed.                            *)

\* Observing a question, known or new, harms no delivery: it takes no number, claim or
\* answer back.
LEMMA SafeWhenEnsured ==
    ASSUME Typed, Safe, NEW s \in Screen, NEW observation \in Nat \cup {None},
           Ensure(s, observation),
           \A c \in Clients : Delivers(c) \/ Delivers(c)' => client'[c] = client[c]
    PROVE  Safe'
  <1>0. heap \in Seq(Dialog) /\ current \in 0..Len(heap) /\ counter \in Nat
    BY DEF Typed, TypeOK
  <1>1. CASE /\ current \in 1..Len(heap)
             /\ heap' = [heap EXCEPT ![current] = Refresh(heap[current], s, observation)]
             /\ current' = current /\ counter' = counter
    <2> DEFINE r == Refresh(heap[current], s, observation)
    <2>1. heap[current] \in Dialog
      BY <1>0, <1>1
    <2>2. /\ r \in Dialog /\ r.revision = heap[current].revision
          /\ r.consumed = heap[current].consumed /\ r.inFlight = heap[current].inFlight
          /\ r.acks = heap[current].acks /\ r.reached = heap[current].reached
      BY <2>1, RefreshKeeps
    <2>3. heap' = [heap EXCEPT ![current] = r]
      BY <1>1
    <2> HIDE DEF r
    <2>4. /\ heap' \in Seq(Dialog) /\ Len(heap') = Len(heap) /\ heap'[current] = r
          /\ \A e \in 1..Len(heap) : e # current => heap'[e] = heap[e]
      BY <1>0, <1>1, <2>2, <2>3, OneChanges
    <2>5. SameHeap
      BY <2>2, <2>4 DEF SameHeap, Kept
    <2>6. SameDeliveries /\ Arrived'
      BY <2>5, NoDeliveryMoves, ArrivedWhenQuiet DEF Safe
    <2> QED
      BY <1>1, <2>5, <2>6, SafeWhenKept
  <1>2. CASE /\ heap' = Append(heap, NewDialog(s, observation))
             /\ current' = Len(heap) + 1
             /\ counter' = counter + 1
    BY <1>2, SafeWhenMade
  <1> QED
    BY <1>0, <1>1, <1>2, Ensured

\* A step that leaves the heap and the deliveries alone harms nothing.
LEMMA SafeWhenLeft ==
    ASSUME Typed, Safe, UNCHANGED <<heap, counter>>,
           \A c \in Clients : Delivers(c) \/ Delivers(c)' => client'[c] = client[c]
    PROVE  Safe'
  <1>1. SameHeap
    BY HeapUnchanged
  <1>2. SameDeliveries /\ Arrived'
    BY <1>1, NoDeliveryMoves, ArrivedWhenQuiet DEF Safe
  <1> QED
    BY <1>1, <1>2, SafeWhenKept

\* Equal ids, equal dialogs.
LEMMA OneDialogPerId ==
    ASSUME Typed, Numbered, NEW d \in 1..Len(heap), NEW e \in 1..Len(heap),
           DialogId(d) = DialogId(e)
    PROVE  d = e
  <1>1. heap[d].revision = heap[e].revision
    BY DEF DialogId
  <1>2. heap[d].revision \in Nat /\ heap[e].revision \in Nat
    <2>1. \A q \in Dialog : q.revision \in Nat
      BY DEF Dialog
    <2> QED
      BY <2>1 DEF Typed, TypeOK
  <1>3. d < e \/ e < d \/ d = e
    BY DEF Typed, TypeOK
  <1> QED
    BY <1>1, <1>2, <1>3 DEF Numbered

\* A claim of an answerable dialog makes the client its only deliverer, and it answers
\* what it saw.
LEMMA SafeWhenClaimed ==
    ASSUME Typed, Safe, NEW c \in Clients, NEW key \in Delivering,
           NEW saw \in 0..Len(heap),
           Claimed(c, key, saw), client[c].pc = "idle",
           current # 0 => Answerable(current),
           \/ key = "legacy" /\ saw = current
           \/ current # 0 /\ saw # 0 /\ DialogId(saw) = DialogId(current)
    PROVE  Safe'
  <1> DEFINE n == Len(heap)
  <1>0. TypeOK /\ heap \in Seq(Dialog) /\ n \in Nat /\ current \in 0..n
    BY DEF Typed, TypeOK
  <1>1. ~Delivers(c) /\ client[c].outcome = "none"
    BY DEF Delivers, Delivering, Typed
  <1>2. /\ client'[c].pc = key /\ client'[c].dialog = current /\ client'[c].saw = saw
        /\ client'[c].outcome = "none"
        /\ \A b \in Clients : b # c => client'[b] = client[b]
    BY <1>0, <1>1, ClaimedFrame
  <1>3. saw = current
    BY <1>0, OneDialogPerId DEF Safe
  <1>4. counter' = counter
    BY DEF Claimed
  <1>5. /\ heap' \in Seq(Dialog) /\ Len(heap') = n
        /\ \A d \in 1..n : /\ heap'[d].revision = heap[d].revision
                           /\ heap'[d].consumed = heap[d].consumed
                           /\ heap'[d].acks = heap[d].acks
                           /\ heap'[d].reached = heap[d].reached
        /\ \A d \in 1..n : d # current => heap'[d].inFlight = heap[d].inFlight
        /\ \A d \in 1..n : d = current => heap'[d].inFlight = TRUE
    <2>1. CASE current = 0 /\ heap' = heap
      BY <1>0, <2>1
    <2>2. CASE /\ current \in 1..Len(heap)
               /\ heap[current] \in Dialog
               /\ heap' = [heap EXCEPT ![current] = [heap[current] EXCEPT !.inFlight = TRUE]]
      <3> DEFINE r == [heap[current] EXCEPT !.inFlight = TRUE]
      <3>1. /\ r \in Dialog /\ r.inFlight = TRUE /\ r.revision = heap[current].revision
            /\ r.consumed = heap[current].consumed /\ r.acks = heap[current].acks
            /\ r.reached = heap[current].reached
        BY <2>2, ClaimKeeps
      <3>2. heap' = [heap EXCEPT ![current] = r]
        BY <2>2
      <3> HIDE DEF r
      <3>3. /\ heap' \in Seq(Dialog) /\ Len(heap') = n /\ heap'[current] = r
            /\ \A e \in 1..n : e # current => heap'[e] = heap[e]
        BY <1>0, <2>2, <3>1, <3>2, OneChanges
      <3> QED
        BY <3>1, <3>3
    <2>3. saw \in Nat
      BY <1>0
    <2>4. \/ current = 0 /\ heap' = heap
          \/ /\ current \in 1..Len(heap)
             /\ heap[current] \in Dialog
             /\ heap' = [heap EXCEPT ![current] = [heap[current] EXCEPT !.inFlight = TRUE]]
      BY <1>0, <2>3, ClaimedHeap
    <2> QED
      BY <2>1, <2>2, <2>4
  <1>6. \A d \in 1..n : d = current => ~heap[d].consumed /\ ~heap[d].inFlight
    BY DEF Answerable
  <1>7. \A b \in Clients, d \in 0..n : Holds(b, d)' <=> Holds(b, d) \/ (b = c /\ d = current)
    BY <1>1, <1>2 DEF Holds, Delivers
  <1>8. \A b \in Clients, d \in 1..n : d = current => ~Holds(b, d)
    BY <1>6 DEF Safe, Sole
  <1>9. InRange'
    <2>1. current = 0 => key = "legacy"
      OBVIOUS
    <2> QED
      BY <2>1, <1>0, <1>2, <1>5 DEF Safe, InRange, Delivers
  <1>10. Numbered'
    BY <1>4, <1>5 DEF Safe, Numbered
  <1>11. Sole'
    BY <1>5, <1>6, <1>7, <1>8 DEF Safe, Sole
  <1>12. Served'
    BY <1>5, <1>7 DEF Safe, Served
  <1>13. Acked'
    BY <1>5 DEF Safe, Acked
  <1>14. Arrived'
    BY <1>1, <1>2, <1>5, <1>7, <1>8 DEF Safe, Arrived
  <1>15. Consumed'
    BY <1>5 DEF Safe, Consumed
  <1>16. AnswersTheDialogSeen'
    BY <1>2, <1>3 DEF Safe, AnswersTheDialogSeen
  <1> QED
    BY <1>9, <1>10, <1>11, <1>12, <1>13, <1>14, <1>15, <1>16 DEF Safe

-----------------------------------------------------------------------------
(* A delivery's keys, and its end.                                          *)

\* A delivery that ends leaves its dialog free, or consumed by keys that reached the pane.
LEMMA SafeWhenDone ==
    ASSUME Typed, Safe, NEW c \in Clients, NEW d \in 1..Len(heap), NEW r \in Dialog,
           Holds(c, d), heap' = [heap EXCEPT ![d] = r], counter' = counter,
           client' = [client EXCEPT ![c] = IdleClient],
           r.revision = heap[d].revision, r.inFlight => r.consumed,
           r.consumed => r.reached # None,
           r.acks <= 1, r.consumed \/ r.acks = 0
    PROVE  Safe'
  <1> DEFINE n == Len(heap)
  <1>0. TypeOK /\ heap \in Seq(Dialog) /\ n \in Nat
    BY DEF Typed, TypeOK
  <1>1. /\ Len(heap') = n /\ heap'[d] = r
        /\ \A e \in 1..n : e # d => heap'[e] = heap[e]
    BY <1>0, OneChanges
  <1>2. /\ client'[c].pc \notin Delivering
        /\ \A b \in Clients : b # c => client'[b] = client[b]
    BY <1>0, EndedFrame
  <1>3. \A b \in Clients, e \in 1..n : Holds(b, e)' => Holds(b, e) /\ b # c
    BY <1>2 DEF Holds, Delivers
  <1>4. \A b \in Clients : Holds(b, d) => b = c
    BY DEF Safe, Sole
  <1>5. \A b \in Clients, e \in 1..n : Holds(b, e)' => Holds(b, e) /\ b # c /\ e # d
    BY <1>3, <1>4
  <1>6. \A b \in Clients, e \in 1..n : Holds(b, e) /\ e # d => Holds(b, e)'
    BY <1>2 DEF Holds, Delivers
  <1>7. InRange'
    BY <1>1, <1>2 DEF Safe, InRange, Delivers
  <1>8. Numbered'
    <2>1. \A e \in 1..n : heap'[e].revision = heap[e].revision
      BY <1>1
    <2> QED
      BY <1>1, <2>1 DEF Safe, Numbered
  <1>9. Sole'
    BY <1>1, <1>5 DEF Safe, Sole
  <1>10. Served'
    BY <1>1, <1>6 DEF Safe, Served
  <1>11. Acked'
    BY <1>1 DEF Safe, Acked
  <1>12. Arrived'
    BY <1>1, <1>2, <1>5 DEF Safe, Arrived, Holds
  <1>13. Consumed'
    BY <1>1 DEF Safe, Consumed
  <1>14. AnswersTheDialogSeen'
    BY <1>2 DEF Safe, AnswersTheDialogSeen
  <1> QED
    BY <1>7, <1>8, <1>9, <1>10, <1>11, <1>12, <1>13, <1>14 DEF Safe

\* A client's step that leaves registry, poll and hooks keeps the types when its own parts do.
LEMMA TypedAfter ==
    ASSUME Typed, UNCHANGED <<registry, poll, hook>>,
           screen' \in Screen, output' \in Nat,
           heap' \in Seq(Dialog), current' \in 0..Len(heap'), counter' \in Nat,
           client' \in [Clients -> Client],
           spent' \in [{"asks", "moves", "frames", "events", "misses"} -> Nat],
           \A b \in Clients : client'[b].pc \notin Delivering => client'[b].outcome = "none"
    PROVE  Typed'
  BY DEF Typed, TypeOK, registry

\* A client's frame that is no delivery, before or after the step.
LEMMA ReadPaneKeeps ==
    ASSUME IInv, NEW c \in Clients, ReadPane(c)
    PROVE  IInv'
  <1>0. Typed /\ Safe /\ TypeOK
    BY DEF IInv, Typed
  <1> DEFINE g == [client[c] EXCEPT !.pc = "reading"]
  <1>1. client' = [client EXCEPT ![c] = g] /\ client[c].pc = "idle" /\ Spend("frames")
        /\ UNCHANGED <<terminal, registry, dialogs, poll, hook>>
    BY DEF ReadPane
  <1>2. client \in [Clients -> Client] /\ client[c].outcome = "none"
    BY <1>0, <1>1 DEF Typed, TypeOK, Delivering
  <1>3. g \in Client /\ g.pc = "reading" /\ g.outcome = "none"
    BY <1>2 DEF Client
  <1> HIDE DEF g
  <1>4. /\ client' \in [Clients -> Client] /\ client'[c] = g
        /\ \A b \in Clients : b # c => client'[b] = client[b]
    BY <1>1, <1>2, <1>3, OneMoves
  <1>5. spent' \in [{"asks", "moves", "frames", "events", "misses"} -> Nat]
    BY <1>0, <1>1, SpendTyped DEF TypeOK
  <1>6. Typed'
    BY <1>0, <1>1, <1>3, <1>4, <1>5, TypedAfter DEF Typed, TypeOK, terminal, dialogs
  <1>7. \A b \in Clients : Delivers(b) \/ Delivers(b)' => client'[b] = client[b]
    BY <1>1, <1>3, <1>4 DEF Delivers, Delivering
  <1> QED
    BY <1>0, <1>1, <1>6, <1>7, SafeWhenLeft DEF IInv, dialogs

\* A client's read of a pane keeps the invariant.
LEMMA PaneReadKeeps ==
    ASSUME IInv, NEW c \in Clients, PaneRead(c)
    PROVE  IInv'
  <1>0. Typed /\ Safe /\ TypeOK
    BY DEF IInv, Typed
  <1>1. PICK s \in {screen, Working}, missed \in BOOLEAN :
          /\ Captured(s, missed)
          /\ client' = [client EXCEPT ![c].pc = "show", ![c].capture = s]
          /\ IF missed THEN Spend("misses") ELSE UNCHANGED spent
    BY DEF PaneRead
  <1>2. client[c].pc = "reading" /\ UNCHANGED <<terminal, registry, dialogs, poll, hook>>
    BY DEF PaneRead
  <1>3. s \in Screen
    BY <1>0, <1>1, CapturedTyped DEF TypeOK
  <1> DEFINE g == [client[c] EXCEPT !.pc = "show", !.capture = s]
  <1>4. client' = [client EXCEPT ![c] = g]
    BY <1>1
  <1>5. client \in [Clients -> Client] /\ client[c].outcome = "none"
    BY <1>0, <1>2 DEF Typed, TypeOK, Delivering
  <1>6. g \in Client /\ g.pc = "show" /\ g.outcome = "none"
    BY <1>3, <1>5 DEF Client
  <1> HIDE DEF g
  <1>7. /\ client' \in [Clients -> Client] /\ client'[c] = g
        /\ \A b \in Clients : b # c => client'[b] = client[b]
    BY <1>4, <1>5, <1>6, OneMoves
  <1>8. spent' \in [{"asks", "moves", "frames", "events", "misses"} -> Nat]
    BY <1>0, <1>1, SpendTyped DEF TypeOK
  <1>9. Typed'
    BY <1>0, <1>2, <1>6, <1>7, <1>8, TypedAfter DEF Typed, TypeOK, terminal, dialogs
  <1>10. \A b \in Clients : Delivers(b) \/ Delivers(b)' => client'[b] = client[b]
    BY <1>2, <1>6, <1>7 DEF Delivers, Delivering
  <1> QED
    BY <1>0, <1>2, <1>9, <1>10, SafeWhenLeft DEF IInv, dialogs

\* What a read shows is ensured as a dialog or clears it, and touches the heap in no other way.
LEMMA ShowPaneTouches ==
    ASSUME TypeOK, NEW c \in Clients, ShowPane(c)
    PROVE  Clear \/ \E s \in Screen, observation \in Nat \cup {None} : Ensure(s, observation)
  <1> DEFINE s == client[c].capture
             observation == IF current # 0 THEN heap[current].observation ELSE revision
  <1>1. Ensure(s, observation) \/ Clear
    BY DEF ShowPane
  <1>2. s \in Screen
    BY DEF TypeOK, Client
  <1>3. observation \in Nat \cup {None}
    <2>1. \A q \in Dialog : q.observation \in Nat \cup {None}
      BY DEF Dialog
    <2> QED
      BY <2>1 DEF TypeOK
  <1> HIDE DEF s, observation
  <1> QED
    BY <1>1, <1>2, <1>3

\* So showing a pane keeps the invariant.
LEMMA ShowPaneKeeps ==
    ASSUME IInv, NEW c \in Clients, ShowPane(c)
    PROVE  IInv'
  <1>0. Typed /\ Safe /\ TypeOK
    BY DEF IInv, Typed
  <1>1. /\ client[c].pc = "show" /\ client' = [client EXCEPT ![c] = IdleClient]
        /\ UNCHANGED <<terminal, registry, poll, hook, spent>>
    BY DEF ShowPane
  <1>2. Clear \/ \E s \in Screen, observation \in Nat \cup {None} : Ensure(s, observation)
    BY <1>0, ShowPaneTouches
  <1>3. /\ client' \in [Clients -> Client]
        /\ client'[c].pc \notin Delivering /\ client'[c].outcome = "none"
        /\ \A b \in Clients : b # c => client'[b] = client[b]
    BY <1>0, <1>1, EndedFrame
  <1>4. \A b \in Clients : Delivers(b) \/ Delivers(b)' => client'[b] = client[b]
    BY <1>1, <1>3 DEF Delivers, Delivering
  <1>5. \A b \in Clients : client'[b].pc \notin Delivering => client'[b].outcome = "none"
    BY <1>0, <1>3 DEF Typed
  <1>6. CASE Clear
    <2>1. heap' \in Seq(Dialog) /\ current' \in 0..Len(heap') /\ counter' \in Nat
      BY <1>0, <1>6 DEF Clear, TypeOK
    <2>2. Typed'
      BY <1>0, <1>1, <1>3, <1>5, <2>1, TypedAfter DEF TypeOK, terminal
    <2>3. Safe'
      BY <1>0, <1>4, <1>6, SafeWhenLeft DEF Clear
    <2> QED
      BY <2>2, <2>3 DEF IInv
  <1>7. CASE \E s \in Screen, observation \in Nat \cup {None} : Ensure(s, observation)
    <2>1. PICK s \in Screen, observation \in Nat \cup {None} : Ensure(s, observation)
      BY <1>7
    <2>2. heap' \in Seq(Dialog) /\ current' \in 0..Len(heap') /\ counter' \in Nat
      BY <1>0, <2>1, EnsureTyped DEF TypeOK
    <2>3. Typed'
      BY <1>0, <1>1, <1>3, <1>5, <2>2, TypedAfter DEF TypeOK, terminal
    <2>4. Safe'
      BY <1>0, <1>4, <2>1, SafeWhenEnsured
    <2> QED
      BY <2>3, <2>4 DEF IInv
  <1> QED
    BY <1>2, <1>6, <1>7

\* A key that arrives marks the dialog as reached, and keeps the invariant.
LEMMA KeyArrivesKeeps ==
    ASSUME IInv, NEW c \in Clients, KeyArrives(c)
    PROVE  IInv'
  <1> DEFINE d == client[c].dialog
             n == Len(heap)
  <1>0. /\ Typed /\ Safe /\ TypeOK /\ ConstantsOK
        /\ heap \in Seq(Dialog) /\ n \in Nat /\ output \in Nat
    BY ConstantsOK DEF IInv, Typed, TypeOK
  <1>1. /\ Delivers(c) /\ screen' = Pressed(client[c].pc) /\ Redraws
        /\ heap' = IF d = 0 THEN heap ELSE [heap EXCEPT ![d].reached = output]
        /\ UNCHANGED <<registry, current, counter, poll, hook>>
    BY DEF KeyArrives, Delivers
  <1>2. PICK outcome \in Outcomes : client' = [client EXCEPT ![c].outcome = outcome]
    BY DEF KeyArrives, Outcomes
  <1>3. /\ client' \in [Clients -> Client] /\ client'[c].outcome = outcome
        /\ \A b \in Clients : /\ client'[b].pc = client[b].pc
                              /\ client'[b].dialog = client[b].dialog
                              /\ client'[b].saw = client[b].saw
        /\ \A b \in Clients : b # c => client'[b] = client[b]
    BY <1>0, <1>2, HeardFrame
  <1>4. d \in 0..n
    BY <1>0, <1>1 DEF Safe, InRange
  <1>5. SameHeap /\ (d # 0 => heap'[d].reached # None)
    <2>1. CASE d = 0
      BY <1>0, <1>1, <2>1, HeapUnchanged
    <2>2. CASE d # 0
      <3> DEFINE r == [heap[d] EXCEPT !.reached = output]
      <3>1. d \in 1..n /\ heap[d] \in Dialog
        BY <1>0, <1>4, <2>2
      <3>2. heap' = [heap EXCEPT ![d] = r]
        BY <1>1, <2>2
      <3> HIDE DEF d
      <3>3. /\ r \in Dialog /\ r.reached = output
            /\ r.revision = heap[d].revision /\ r.consumed = heap[d].consumed
            /\ r.acks = heap[d].acks /\ r.inFlight = heap[d].inFlight
        BY <1>0, <3>1, ArrivalKeeps
      <3>4. output # None
        BY <1>0, NoneIsNoNumber
      <3> HIDE DEF r
      <3>5. /\ heap' \in Seq(Dialog) /\ Len(heap') = n /\ heap'[d] = r
            /\ \A e \in 1..n : e # d => heap'[e] = heap[e]
        BY <1>0, <3>1, <3>2, <3>3, OneChanges
      <3> QED
        BY <3>3, <3>4, <3>5 DEF SameHeap, Kept
    <2> QED
      BY <2>1, <2>2
  <1>6. SameDeliveries
    BY <1>3 DEF SameDeliveries, Delivers
  <1>7. Arrived'
    <2>1. ASSUME NEW b \in Clients, NEW e \in 1..n, Holds(b, e)', client'[b].outcome = "ok"
          PROVE  heap'[e].reached # None
      <3>1. Holds(b, e)
        BY <1>6, <2>1 DEF SameDeliveries, Holds
      <3>2. CASE b = c
        BY <3>1, <3>2, <1>5, <1>0 DEF Holds
      <3>3. CASE b # c
        BY <1>0, <1>3, <1>5, <2>1, <3>1, <3>3 DEF Safe, Arrived, SameHeap, Kept
      <3> QED
        BY <3>2, <3>3
    <2> QED
      BY <2>1, <1>5 DEF Arrived, SameHeap
  <1>8. Safe'
    BY <1>0, <1>1, <1>5, <1>6, <1>7, SafeWhenKept
  <1>9. screen' \in Screen /\ output' \in Nat
    <2>1. screen \in Screen /\ output \in Nat /\ client[c].pc \in Delivering
      BY <1>0, <1>1 DEF TypeOK, Delivers
    <2>2. screen' \in Screen
      BY <1>1, <2>1, PressedTyped
    <2>3. output' \in Nat
      BY <1>1, <2>1 DEF Redraws
    <2> QED
      BY <2>2, <2>3
  <1>10. spent' \in [{"asks", "moves", "frames", "events", "misses"} -> Nat]
    <2>1. UNCHANGED spent \/ Spend("misses")
      BY DEF KeyArrives
    <2> QED
      BY <1>0, <2>1, SpendTyped DEF TypeOK
  <1>11. \A b \in Clients : client'[b].pc \notin Delivering => client'[b].outcome = "none"
    BY <1>0, <1>1, <1>3 DEF Typed, Delivers
  <1>12. Typed'
    BY <1>0, <1>1, <1>3, <1>5, <1>9, <1>10, <1>11, TypedAfter DEF TypeOK, SameHeap
  <1> QED
    BY <1>8, <1>12 DEF IInv

\* A key that fails tells only its frame, and keeps the invariant.
LEMMA KeyFailsKeeps ==
    ASSUME IInv, NEW c \in Clients, KeyFails(c)
    PROVE  IInv'
  <1>0. Typed /\ Safe /\ TypeOK
    BY DEF IInv, Typed
  <1>1. /\ Delivers(c) /\ client' = [client EXCEPT ![c].outcome = "failed"]
        /\ Spend("misses") /\ UNCHANGED <<terminal, registry, dialogs, poll, hook>>
    BY DEF KeyFails, Delivers
  <1>2. /\ client' \in [Clients -> Client] /\ client'[c].outcome = "failed"
        /\ \A b \in Clients : /\ client'[b].pc = client[b].pc
                              /\ client'[b].dialog = client[b].dialog
                              /\ client'[b].saw = client[b].saw
        /\ \A b \in Clients : b # c => client'[b] = client[b]
    BY <1>0, <1>1, HeardFrame DEF Outcomes
  <1>3. SameDeliveries
    BY <1>2 DEF SameDeliveries, Delivers
  <1>4. SameHeap
    BY <1>0, <1>1, HeapUnchanged DEF dialogs
  <1>5. \A b \in Clients : Delivers(b) /\ client'[b].outcome = "ok" => client[b].outcome = "ok"
    BY <1>2
  <1>6. Safe'
    BY <1>0, <1>1, <1>3, <1>4, <1>5, ArrivedWhenQuiet, SafeWhenKept DEF Safe, dialogs
  <1>7. spent' \in [{"asks", "moves", "frames", "events", "misses"} -> Nat]
    BY <1>0, <1>1, SpendTyped DEF TypeOK
  <1>8. \A b \in Clients : client'[b].pc \notin Delivering => client'[b].outcome = "none"
    BY <1>0, <1>1, <1>2 DEF Typed, Delivers
  <1>9. Typed'
    BY <1>0, <1>1, <1>2, <1>7, <1>8, TypedAfter DEF TypeOK, terminal, dialogs
  <1> QED
    BY <1>6, <1>9 DEF IInv

\* Sending the next key of an answer keeps the invariant.
LEMMA GoesOnKeeps ==
    ASSUME IInv, NEW c \in Clients, DeliveryGoesOn(c)
    PROVE  IInv'
  <1> DEFINE d == client[c].dialog
             n == Len(heap)
             focused == client[c].pc = "digit" \/ (client[c].pc = "text" /\ heap[d].focused)
             pressed == client[c].pc = "digit" \/ (client[c].pc = "text" /\ heap[d].pressed)
             r == [heap[d] EXCEPT !.focused = focused, !.pressed = pressed]
  <1>0. /\ Typed /\ Safe /\ TypeOK /\ heap \in Seq(Dialog) /\ n \in Nat
    BY DEF IInv, Typed, TypeOK
  <1>1. /\ client' \in [Clients -> Client]
        /\ client[c].pc \in Delivering \ {"legacy"}
        /\ client'[c].pc \in Delivering \ {"legacy"}
        /\ client'[c].outcome = "none"
        /\ client'[c].dialog = client[c].dialog /\ client'[c].saw = client[c].saw
        /\ \A b \in Clients : b # c => client'[b] = client[b]
    BY <1>0, GoneOnFrame
  <1>2. UNCHANGED <<terminal, registry, current, counter, poll, hook, spent>>
    BY DEF DeliveryGoesOn
  <1>3. d \in 1..n /\ heap[d] \in Dialog
    BY <1>0, <1>1 DEF Safe, InRange, Delivers
  <1>4. heap' = [heap EXCEPT ![d] = r]
    BY <1>3 DEF DeliveryGoesOn
  <1>5. focused \in BOOLEAN /\ pressed \in BOOLEAN
    BY <1>3 DEF Dialog
  <1> HIDE DEF d, focused, pressed
  <1>6. /\ r \in Dialog /\ r.revision = heap[d].revision /\ r.consumed = heap[d].consumed
        /\ r.acks = heap[d].acks /\ r.inFlight = heap[d].inFlight
        /\ r.reached = heap[d].reached
    BY <1>3, <1>5 DEF Dialog
  <1> HIDE DEF r
  <1>7. /\ heap' \in Seq(Dialog) /\ Len(heap') = n /\ heap'[d] = r
        /\ \A e \in 1..n : e # d => heap'[e] = heap[e]
    BY <1>0, <1>3, <1>4, <1>6, OneChanges
  <1>8. SameHeap
    BY <1>6, <1>7 DEF SameHeap, Kept
  <1>9. SameDeliveries
    BY <1>1 DEF SameDeliveries, Delivers
  <1>10. \A b \in Clients : Delivers(b) /\ client'[b].outcome = "ok" => client[b].outcome = "ok"
    BY <1>1
  <1>11. Safe'
    BY <1>0, <1>2, <1>8, <1>9, <1>10, ArrivedWhenQuiet, SafeWhenKept DEF Safe
  <1>12. \A b \in Clients : client'[b].pc \notin Delivering => client'[b].outcome = "none"
    BY <1>0, <1>1 DEF Typed
  <1>13. Typed'
    BY <1>0, <1>1, <1>2, <1>7, <1>12, TypedAfter DEF TypeOK, terminal
  <1> QED
    BY <1>11, <1>13 DEF IInv

\* A delivery that ends leaves its dialog consumed or answerable.
LEMMA DoneKeeps ==
    ASSUME IInv, NEW c \in Clients, NEW d \in 1..Len(heap), NEW r \in Dialog,
           Holds(c, d), heap' = [heap EXCEPT ![d] = r],
           client' = [client EXCEPT ![c] = IdleClient],
           UNCHANGED <<terminal, registry, current, counter, poll, hook, spent>>,
           r.revision = heap[d].revision, r.inFlight => r.consumed,
           r.consumed => r.reached # None,
           r.acks <= 1, r.consumed \/ r.acks = 0
    PROVE  IInv'
  <1>0. Typed /\ Safe /\ TypeOK /\ heap \in Seq(Dialog)
    BY DEF IInv, Typed, TypeOK
  <1>1. Safe'
    BY <1>0, SafeWhenDone
  <1>2. heap' \in Seq(Dialog) /\ Len(heap') = Len(heap)
    BY <1>0, OneChanges
  <1>3. /\ client' \in [Clients -> Client]
        /\ client'[c].pc \notin Delivering /\ client'[c].outcome = "none"
        /\ \A b \in Clients : b # c => client'[b] = client[b]
    BY <1>0, EndedFrame
  <1>4. \A b \in Clients : client'[b].pc \notin Delivering => client'[b].outcome = "none"
    BY <1>0, <1>3 DEF Typed
  <1>5. Typed'
    BY <1>0, <1>2, <1>3, <1>4, TypedAfter DEF TypeOK, terminal
  <1> QED
    BY <1>1, <1>5 DEF IInv

\* A delivery that fails lifts its claim without consuming, and keeps the invariant.
LEMMA FailsKeeps ==
    ASSUME IInv, NEW c \in Clients, DeliveryFails(c)
    PROVE  IInv'
  <1> DEFINE d == client[c].dialog
             r == [heap[d] EXCEPT !.inFlight = FALSE]
  <1>0. TypeOK /\ Safe
    BY DEF IInv, Typed
  <1>1. /\ Delivers(c) /\ client[c].pc # "legacy"
        /\ heap' = [heap EXCEPT ![d].inFlight = FALSE]
        /\ client' = [client EXCEPT ![c] = IdleClient]
        /\ UNCHANGED <<terminal, registry, current, counter, poll, hook, spent>>
    BY DEF DeliveryFails, Delivers
  <1>2. d \in 1..Len(heap) /\ heap[d] \in Dialog /\ Holds(c, d)
    BY <1>0, <1>1 DEF Safe, InRange, Holds, TypeOK
  <1>3. heap' = [heap EXCEPT ![d] = r]
    BY <1>1
  <1> HIDE DEF d
  <1>4. /\ r \in Dialog /\ r.inFlight = FALSE /\ r.revision = heap[d].revision
        /\ r.consumed = heap[d].consumed /\ r.acks = heap[d].acks
    BY <1>2, ClaimKeeps
  <1>5. ~heap[d].consumed /\ heap[d].acks = 0
    BY <1>0, <1>2 DEF Safe, Sole, Acked
  <1> HIDE DEF r
  <1>6. /\ r.inFlight => r.consumed
        /\ r.consumed => r.reached # None
        /\ r.acks <= 1 /\ (r.consumed \/ r.acks = 0)
    BY <1>4, <1>5
  <1> QED
    BY <1>1, <1>2, <1>3, <1>4, <1>6, DoneKeeps

\* An answer all of whose keys arrived consumes its dialog once, and keeps the invariant.
LEMMA AcknowledgesKeeps ==
    ASSUME IInv, NEW c \in Clients, Acknowledges(c)
    PROVE  IInv'
  <1> DEFINE d == client[c].dialog
             r == [heap[d] EXCEPT !.consumed = TRUE, !.acks = heap[d].acks + 1]
  <1>0. TypeOK /\ Safe
    BY DEF IInv, Typed
  <1>1. /\ Delivers(c) /\ client[c].pc # "legacy" /\ client[c].outcome = "ok"
        /\ client' = [client EXCEPT ![c] = IdleClient]
        /\ UNCHANGED <<terminal, registry, current, counter, poll, hook, spent>>
    BY DEF Acknowledges, Delivers, Delivering
  <1>2. d \in 1..Len(heap) /\ heap[d] \in Dialog /\ Holds(c, d)
    BY <1>0, <1>1 DEF Safe, InRange, Holds, TypeOK
  <1>3. heap' = [heap EXCEPT ![d] = r]
    BY <1>2 DEF Acknowledges
  <1> HIDE DEF d
  <1>4. heap[d].acks \in Nat /\ heap[d].acks + 1 \in Nat
    BY <1>2 DEF Dialog
  <1>5. /\ r \in Dialog /\ r.consumed = TRUE /\ r.acks = heap[d].acks + 1
        /\ r.revision = heap[d].revision /\ r.reached = heap[d].reached
    BY <1>2, <1>4, AckKeeps
  <1>6. ~heap[d].consumed /\ heap[d].acks = 0 /\ heap[d].reached # None
    BY <1>0, <1>1, <1>2 DEF Safe, Sole, Acked, Arrived
  <1> HIDE DEF r
  <1>7. r.acks <= 1 /\ (r.consumed => r.reached # None)
    BY <1>5, <1>6
  <1> QED
    BY <1>1, <1>2, <1>3, <1>5, <1>7, DoneKeeps

\* Only the dialog the legacy frame claimed, and only if it is still current.
LEMMA LegacyEndsKeeps ==
    ASSUME IInv, NEW c \in Clients, LegacyEnds(c)
    PROVE  IInv'
  <1> DEFINE d == client[c].dialog
             taken == heap[d].consumed \/ (client[c].outcome = "ok" /\ current = d)
             r == [heap[d] EXCEPT !.consumed = taken, !.inFlight = FALSE]
  <1>0. TypeOK /\ Safe /\ Typed
    BY DEF IInv, Typed
  <1>1. /\ Delivers(c)
        /\ client' = [client EXCEPT ![c] = IdleClient]
        /\ UNCHANGED <<terminal, registry, current, counter, poll, hook, spent>>
    BY DEF LegacyEnds, Delivers, Delivering
  <1>2. CASE d = 0
    <2>1. UNCHANGED heap
      BY <1>2 DEF LegacyEnds
    <2>2. /\ client' \in [Clients -> Client]
          /\ client'[c].pc \notin Delivering /\ client'[c].outcome = "none"
          /\ \A b \in Clients : b # c => client'[b] = client[b]
      BY <1>0, <1>1, EndedFrame
    <2>3. \A b \in Clients : client'[b].pc \notin Delivering => client'[b].outcome = "none"
      BY <1>0, <2>2 DEF Typed
    <2>4. Typed'
      BY <1>0, <1>1, <2>1, <2>2, <2>3, TypedAfter DEF TypeOK, terminal
    <2>5. Len(heap') = Len(heap) /\ counter' = counter
      BY <1>1, <2>1
    <2>6. \A b \in Clients, e \in 1..Len(heap) : Holds(b, e)' <=> Holds(b, e)
      BY <1>2, <2>2 DEF Holds, Delivers
    <2>7. \A b \in Clients : Delivers(b)' => Delivers(b) /\ client'[b] = client[b]
      BY <2>2 DEF Delivers
    <2>8. InRange'
      BY <1>0, <2>5, <2>7 DEF Safe, InRange
    <2>9. Numbered' /\ Acked' /\ Consumed'
      BY <1>0, <2>1, <2>5 DEF Safe, Numbered, Acked, Consumed
    <2>10. Sole' /\ Served'
      BY <1>0, <2>1, <2>6 DEF Safe, Sole, Served
    <2>11. Arrived'
      BY <1>0, <2>1, <2>6, <2>7 DEF Safe, Arrived, Holds
    <2>12. AnswersTheDialogSeen'
      BY <1>0, <2>7 DEF Safe, AnswersTheDialogSeen, Delivers
    <2> QED
      BY <2>4, <2>8, <2>9, <2>10, <2>11, <2>12 DEF IInv, Safe
  <1>3. CASE d # 0
    <2>1. d \in 1..Len(heap) /\ heap[d] \in Dialog /\ Holds(c, d)
      BY <1>0, <1>1, <1>3 DEF Safe, InRange, Holds, TypeOK
    <2>2. heap' = [heap EXCEPT ![d] = r]
      BY <1>3, <2>1 DEF LegacyEnds
    <2>3. taken \in BOOLEAN
      BY <2>1 DEF Dialog
    <2>4. ~heap[d].consumed /\ heap[d].acks = 0
          /\ (client[c].outcome = "ok" => heap[d].reached # None)
      BY <1>0, <1>1, <2>1 DEF Safe, Sole, Acked, Arrived
    <2>5. taken => heap[d].reached # None
      BY <2>4
    <2> HIDE DEF d, taken
    <2>6. /\ r \in Dialog /\ r.consumed = taken /\ r.inFlight = FALSE
          /\ r.revision = heap[d].revision /\ r.acks = heap[d].acks
          /\ r.reached = heap[d].reached
      <3>1. heap[d] \in Dialog
        BY <2>1
      <3> QED
        BY <2>3, <3>1, EndKeeps
    <2> HIDE DEF r
    <2>7. /\ r.inFlight => r.consumed
          /\ r.consumed => r.reached # None
          /\ r.acks <= 1 /\ (r.consumed \/ r.acks = 0)
      BY <2>4, <2>5, <2>6
    <2> QED
      BY <1>1, <2>1, <2>2, <2>6, <2>7, DoneKeeps
  <1> QED
    BY <1>2, <1>3

-----------------------------------------------------------------------------
(* The invariant is inductive.                                              *)

\* The user, the agent, the poll and the hooks touch dialogs only by ensuring
\* or clearing them.
LEMMA OthersTouch ==
    ASSUME Typed,
           \/ AgentAsks \/ TerminalAnswers \/ TerminalMovesFocus \/ PollStep
           \/ \E h \in Hooks : HookFires(h) \/ EventLost(h) \/ HookStep(h)
    PROVE  /\ client' = client
           /\ \/ UNCHANGED dialogs
              \/ Clear
              \/ \E s \in Screen, observation \in Nat \cup {None} : Ensure(s, observation)
  <1>0. TypeOK
    BY DEF Typed
  <1>1. CASE AgentAsks \/ TerminalAnswers \/ TerminalMovesFocus
    BY <1>1 DEF AgentAsks, TerminalAnswers, TerminalMovesFocus
  <1>2. CASE PollStep
    <2>1. client' = client /\ (UNCHANGED dialogs \/ Clear \/ Ensure(poll.capture, poll.revision))
      BY <1>2 DEF PollStep, PollAsk, PollApply, PollRead, PollSettle, PollRemember
    <2>2. poll.capture \in Screen /\ poll.revision \in Nat \cup {None}
      BY <1>0 DEF TypeOK, Poll
    <2> QED
      BY <2>1, <2>2
  <1>3. CASE \E h \in Hooks : HookFires(h) \/ EventLost(h) \/ HookStep(h)
    <2>1. PICK h \in Hooks : HookFires(h) \/ EventLost(h) \/ HookStep(h)
      BY <1>3
    <2>2. /\ client' = client
          /\ \/ UNCHANGED dialogs \/ Clear \/ Ensure(Working, EventObservation)
             \/ Ensure(hook[h].capture, EventObservation)
      BY <2>1 DEF HookFires, EventLost, HookStep, EventStarts, EventReads, EventEnsures
    <2>3. hook[h].capture \in Screen /\ EventObservation \in Nat \cup {None}
      BY <1>0, EventObservationTyped DEF TypeOK, Hook
    <2> QED
      BY <2>2, <2>3, WorkingTyped
  <1> QED
    BY <1>1, <1>2, <1>3

\* Whoever writes the heap by ensure or clear, with no client involved, harms no delivery.
LEMMA SafeWhenTouched ==
    ASSUME Typed, Safe, client' = client,
           \/ UNCHANGED dialogs
           \/ Clear
           \/ \E s \in Screen, observation \in Nat \cup {None} : Ensure(s, observation)
    PROVE  Safe'
  <1>1. \A c \in Clients : Delivers(c) \/ Delivers(c)' => client'[c] = client[c]
    OBVIOUS
  <1>2. CASE UNCHANGED dialogs \/ Clear
    BY <1>1, <1>2, SafeWhenLeft DEF dialogs, Clear
  <1>3. CASE \E s \in Screen, observation \in Nat \cup {None} : Ensure(s, observation)
    <2>1. PICK s \in Screen, observation \in Nat \cup {None} : Ensure(s, observation)
      BY <1>3
    <2> QED
      BY <1>1, <2>1, SafeWhenEnsured
  <1> QED
    BY <1>2, <1>3

\* The invariant holds when the relay starts.
LEMMA InvariantInitially == ConstantsOK /\ Init => IInv
  <1> SUFFICES ASSUME ConstantsOK, Init PROVE IInv
    OBVIOUS
  <1>1. Len(heap) = 0
    BY DEF Init
  <1>2. \A c \in Clients : ~Delivers(c)
    BY DEF Init, Delivers, Delivering, IdleClient
  <1>3. Safe
    BY <1>1, <1>2 DEF Safe, InRange, Numbered, Sole, Served, Acked, Arrived, Consumed,
                      AnswersTheDialogSeen, Delivers, Holds
  <1> QED
    BY <1>3, TypedInitially DEF IInv

\* Each of the three answering frames claims, refuses or presses so that the invariant stays.
LEMMA RespondKeeps ==
    ASSUME IInv, NEW c \in Clients,
           RespondChoice(c) \/ RespondText(c) \/ RespondLegacy(c)
    PROVE  IInv'
  <1>0. Typed /\ Safe
    BY DEF IInv
  <1>1. PICK key \in Delivering, saw \in 0..Len(heap) :
          /\ Claimed(c, key, saw) /\ client[c].pc = "idle"
          /\ current # 0 => Answerable(current)
          /\ \/ key = "legacy" /\ saw = current
             \/ current # 0 /\ saw # 0 /\ DialogId(saw) = DialogId(current)
    BY <1>0, Respond
  <1>2. saw \in Nat
    BY <1>0 DEF Typed, TypeOK
  <1>3. Typed'
    BY <1>0, <1>1, <1>2, ClaimedTyped
  <1>4. Safe'
    BY <1>0, <1>1, SafeWhenClaimed
  <1> QED
    BY <1>3, <1>4 DEF IInv

\* Every step keeps the invariant.
LEMMA Invariance == IInv /\ [Next]_vars => IInv'
  <1> SUFFICES ASSUME IInv, [Next]_vars PROVE IInv'
    OBVIOUS
  <1>0. Typed /\ Safe
    BY DEF IInv
  <1>1. CASE AgentAsks \/ TerminalAnswers \/ TerminalMovesFocus
    BY <1>0, <1>1, TerminalTyped, OthersTouch, SafeWhenTouched DEF IInv
  <1>2. CASE PollStep
    BY <1>0, <1>2, PollTyped, OthersTouch, SafeWhenTouched DEF IInv
  <1>3. ASSUME NEW h \in Hooks, HookFires(h) \/ EventLost(h) \/ HookStep(h) PROVE IInv'
    BY <1>0, <1>3, HookTyped, OthersTouch, SafeWhenTouched DEF IInv
  <1>4. ASSUME NEW c \in Clients, ReadPane(c) PROVE IInv'
    BY <1>4, ReadPaneKeeps
  <1>5. ASSUME NEW c \in Clients, RespondChoice(c) \/ RespondText(c) \/ RespondLegacy(c)
        PROVE  IInv'
    BY <1>5, RespondKeeps
  <1>6. ASSUME NEW c \in Clients, ClientStep(c) PROVE IInv'
    BY <1>6, PaneReadKeeps, ShowPaneKeeps, KeyArrivesKeeps, KeyFailsKeeps, FailsKeeps,
       GoesOnKeeps, AcknowledgesKeeps, LegacyEndsKeeps DEF ClientStep
  <1>7. CASE UNCHANGED vars
    <2>1. UNCHANGED <<terminal, registry, dialogs, poll, hook, client, spent>>
      BY <1>7 DEF vars
    <2>2. Typed'
      BY <1>0, <2>1 DEF Typed, TypeOK, terminal, registry, dialogs
    <2>3. Safe'
      BY <1>0, <2>1, SafeWhenTouched
    <2> QED
      BY <2>2, <2>3 DEF IInv
  <1> QED
    BY <1>1, <1>2, <1>3, <1>4, <1>5, <1>6, <1>7 DEF Next

\* So it always holds.
LEMMA Inductive == Spec => []IInv
  <1>1. Init => IInv
    BY ConstantsOK, InvariantInitially
  <1> QED
    BY <1>1, Invariance, PTL DEF Spec

-----------------------------------------------------------------------------
(* A delivery owns the focus of its dialog.                                 *)

FocusStep ==
    \A c \in Clients :
        LET d == client[c].dialog IN
        client[c].pc \in Delivering /\ d # 0 /\ client'[c] = client[c]
        => heap'[d].focused = heap[d].focused

\* The focus is its delivery's when no step changes it on a dialog whose holder stands still.
LEMMA FocusByDialog ==
    ASSUME InRange,
           \A c \in Clients, d \in 1..Len(heap) :
               Holds(c, d) /\ client'[c] = client[c] => heap'[d].focused = heap[d].focused,
           Len(heap) \in Nat
    PROVE  FocusStep
  BY DEF FocusStep, InRange, Holds, Delivers

\* ensure and clear leave the focus of a dialog that is being answered alone.
LEMMA FocusWhenTouched ==
    ASSUME IInv,
           \/ UNCHANGED dialogs
           \/ Clear
           \/ \E s \in Screen, observation \in Nat \cup {None} : Ensure(s, observation)
    PROVE  FocusStep
  <1> DEFINE n == Len(heap)
  <1>0. /\ heap \in Seq(Dialog) /\ current \in 0..n /\ counter \in Nat /\ n \in Nat
        /\ InRange /\ Sole
    BY DEF IInv, Typed, TypeOK, Safe
  <1>1. \A c \in Clients, d \in 1..n : Holds(c, d) => heap[d].inFlight
    BY <1>0 DEF Sole
  <1>2. CASE UNCHANGED dialogs \/ Clear
    BY <1>2 DEF dialogs, Clear, FocusStep
  <1>3. CASE \E s \in Screen, observation \in Nat \cup {None} : Ensure(s, observation)
    <2>1. PICK s \in Screen, observation \in Nat \cup {None} : Ensure(s, observation)
      BY <1>3
    <2>2. CASE /\ current \in 1..n
               /\ heap' = [heap EXCEPT ![current] = Refresh(heap[current], s, observation)]
      <3> DEFINE r == Refresh(heap[current], s, observation)
      <3>5. heap[current] \in Dialog
        BY <1>0, <2>2
      <3>1. r \in Dialog /\ (heap[current].inFlight => r.focused = heap[current].focused)
        BY <3>5, RefreshKeeps
      <3>2. heap' = [heap EXCEPT ![current] = r]
        BY <2>2
      <3> HIDE DEF r
      <3>3. heap'[current] = r /\ \A e \in 1..n : e # current => heap'[e] = heap[e]
        BY <1>0, <2>2, <3>1, <3>2, OneChanges
      <3>4. \A c \in Clients, d \in 1..n : Holds(c, d) => heap'[d].focused = heap[d].focused
        BY <1>1, <3>1, <3>3
      <3> QED
        BY <1>0, <3>4, FocusByDialog
    <2>3. CASE heap' = Append(heap, NewDialog(s, observation))
      <3> DEFINE r == NewDialog(s, observation)
      <3>1. r \in Dialog
        BY <1>0, NewDialogTyped
      <3>2. heap' = Append(heap, r)
        BY <2>3
      <3> HIDE DEF r
      <3>3. \A d \in 1..n : heap'[d] = heap[d]
        BY <1>0, <3>1, <3>2
      <3> QED
        BY <1>0, <3>3, FocusByDialog
    <2> QED
      BY <1>0, <2>1, <2>2, <2>3, Ensured
  <1> QED
    BY <1>2, <1>3

\* A step of one delivery leaves the other dialogs alone.
LEMMA FocusWhenOneMoves ==
    ASSUME IInv, NEW c \in Clients, NEW d \in 1..Len(heap), NEW r \in Dialog,
           heap' = [heap EXCEPT ![d] = r],
           \/ r.focused = heap[d].focused
           \/ Holds(c, d) /\ client'[c] # client[c]
    PROVE  FocusStep
  <1>0. heap \in Seq(Dialog) /\ Len(heap) \in Nat /\ InRange /\ Sole
    BY DEF IInv, Typed, TypeOK, Safe
  <1>1. heap'[d] = r /\ \A e \in 1..Len(heap) : e # d => heap'[e] = heap[e]
    BY <1>0, OneChanges
  <1>2. Holds(c, d) => \A b \in Clients : Holds(b, d) => b = c
    BY <1>0 DEF Sole
  <1>3. \A b \in Clients, e \in 1..Len(heap) :
          Holds(b, e) /\ client'[b] = client[b] => heap'[e].focused = heap[e].focused
    BY <1>1, <1>2
  <1> QED
    BY <1>0, <1>3, FocusByDialog

\* A client's step changes the focus of no dialog another client is answering.
LEMMA ClientFocus ==
    ASSUME IInv, NEW c \in Clients, ReadPane(c) \/ ClientStep(c)
    PROVE  FocusStep
  <1> DEFINE d == client[c].dialog
  <1>0. TypeOK /\ InRange /\ Len(heap) \in Nat /\ output \in Nat
    BY DEF IInv, Typed, TypeOK, Safe
  <1>1. CASE ReadPane(c) \/ PaneRead(c) \/ KeyFails(c)
    <2>1. UNCHANGED dialogs
      BY <1>1 DEF ReadPane, PaneRead, KeyFails
    <2> QED
      BY <2>1, FocusWhenTouched
  <1>2. CASE ShowPane(c)
    BY <1>0, <1>2, ShowPaneTouches, FocusWhenTouched
  <1>3. CASE client[c].pc \in Delivering
    <2>1. d \in 0..Len(heap)
      BY <1>0, <1>3 DEF InRange, Delivers
    <2>2. d # 0 => d \in 1..Len(heap) /\ heap[d] \in Dialog
      BY <1>0, <2>1 DEF TypeOK
    <2>3. CASE d = 0 /\ (KeyArrives(c) \/ LegacyEnds(c))
      <3>1. heap' = heap
        BY <2>3 DEF KeyArrives, LegacyEnds
      <3> QED
        BY <3>1 DEF FocusStep
    <2>4. CASE d # 0 /\ KeyArrives(c)
      <3> DEFINE r == [heap[d] EXCEPT !.reached = output]
      <3>1. heap' = [heap EXCEPT ![d] = r]
        BY <2>4 DEF KeyArrives
      <3> HIDE DEF d
      <3>2. r \in Dialog /\ r.focused = heap[d].focused
        BY <1>0, <2>2, <2>4, ArrivalKeeps
      <3> HIDE DEF r
      <3> QED
        BY <2>2, <2>4, <3>1, <3>2, FocusWhenOneMoves
    <2>5. CASE d # 0 /\ LegacyEnds(c)
      <3> DEFINE taken == heap[d].consumed \/ (client[c].outcome = "ok" /\ current = d)
                 r == [heap[d] EXCEPT !.consumed = taken, !.inFlight = FALSE]
      <3>1. heap' = [heap EXCEPT ![d] = r]
        BY <2>2, <2>5 DEF LegacyEnds
      <3>2. taken \in BOOLEAN
        BY <2>2, <2>5 DEF Dialog
      <3> HIDE DEF d, taken
      <3>3. r \in Dialog /\ r.focused = heap[d].focused
        BY <2>2, <2>5, <3>2, EndKeeps
      <3> HIDE DEF r
      <3> QED
        BY <2>2, <2>5, <3>1, <3>3, FocusWhenOneMoves
    <2>6. client[c].pc # "legacy" => d # 0
      BY <1>0, <1>3 DEF InRange, Delivers
    <2>7. CASE DeliveryFails(c)
      <3> DEFINE r == [heap[d] EXCEPT !.inFlight = FALSE]
      <3>1. heap' = [heap EXCEPT ![d] = r] /\ d # 0
        BY <2>6, <2>7 DEF DeliveryFails
      <3> HIDE DEF d
      <3>2. r \in Dialog /\ r.focused = heap[d].focused
        BY <2>2, <3>1, ClaimKeeps
      <3> HIDE DEF r
      <3> QED
        BY <2>2, <3>1, <3>2, FocusWhenOneMoves
    <2>8. CASE Acknowledges(c)
      <3> DEFINE r == [heap[d] EXCEPT !.consumed = TRUE, !.acks = heap[d].acks + 1]
      <3>1. d # 0
        BY <2>6, <2>8 DEF Acknowledges
      <3>2. heap' = [heap EXCEPT ![d] = r]
        BY <2>2, <2>8, <3>1 DEF Acknowledges
      <3> HIDE DEF d
      <3>3. heap[d].acks + 1 \in Nat
        BY <2>2, <3>1 DEF Dialog
      <3>4. r \in Dialog /\ r.focused = heap[d].focused
        BY <2>2, <3>1, <3>3, AckKeeps
      <3> HIDE DEF r
      <3> QED
        BY <2>2, <3>1, <3>2, <3>4, FocusWhenOneMoves
    <2>9. CASE DeliveryGoesOn(c)
      <3> DEFINE focused == client[c].pc = "digit" \/ (client[c].pc = "text" /\ heap[d].focused)
                 pressed == client[c].pc = "digit" \/ (client[c].pc = "text" /\ heap[d].pressed)
                 r == [heap[d] EXCEPT !.focused = focused, !.pressed = pressed]
      <3>1. /\ client[c].pc # "legacy" /\ client[c].outcome = "ok"
            /\ client'[c].outcome = "none"
        BY <1>0, <2>9, GoneOnFrame DEF DeliveryGoesOn, NextKey
      <3>2. d \in 1..Len(heap) /\ heap[d] \in Dialog /\ Holds(c, d)
        BY <1>3, <2>2, <2>6, <3>1 DEF Holds, Delivers
      <3>3. heap' = [heap EXCEPT ![d] = r]
        BY <2>9, <3>2 DEF DeliveryGoesOn
      <3>4. focused \in BOOLEAN /\ pressed \in BOOLEAN
        BY <3>2 DEF Dialog
      <3> HIDE DEF d, focused, pressed
      <3>5. r \in Dialog
        BY <3>2, <3>4 DEF Dialog
      <3> HIDE DEF r
      <3>6. client'[c] # client[c]
        BY <3>1
      <3> QED
        BY <3>2, <3>3, <3>5, <3>6, FocusWhenOneMoves
    <2>10. ASSUME ClientStep(c), ~PaneRead(c), ~ShowPane(c), ~KeyFails(c)
           PROVE  \/ KeyArrives(c) \/ LegacyEnds(c) \/ DeliveryFails(c)
                  \/ Acknowledges(c) \/ DeliveryGoesOn(c)
      BY <2>10 DEF ClientStep
    <2> QED
      BY <1>1, <1>2, <2>3, <2>4, <2>5, <2>7, <2>8, <2>9, <2>10
  <1>4. CASE client[c].pc \notin Delivering
    <2>1. ReadPane(c) \/ PaneRead(c) \/ ShowPane(c)
      BY <1>4 DEF ClientStep, KeyArrives, KeyFails, DeliveryFails, DeliveryGoesOn,
                  Acknowledges, LegacyEnds, NextKey, Delivering
    <2> QED
      BY <1>1, <1>2, <2>1
  <1> QED
    BY <1>3, <1>4

\* Nor does a frame that begins an answer.
LEMMA RespondFocus ==
    ASSUME IInv, NEW c \in Clients,
           RespondChoice(c) \/ RespondText(c) \/ RespondLegacy(c)
    PROVE  FocusStep
  <1>0. Typed /\ TypeOK
    BY DEF IInv, Typed
  <1>1. PICK key \in Delivering, saw \in 0..Len(heap) : Claimed(c, key, saw)
    BY <1>0, Respond
  <1>2. saw \in Nat
    BY <1>0 DEF TypeOK
  <1>3. \/ current = 0 /\ heap' = heap
        \/ /\ current \in 1..Len(heap)
           /\ heap[current] \in Dialog
           /\ heap' = [heap EXCEPT ![current] = [heap[current] EXCEPT !.inFlight = TRUE]]
    BY <1>0, <1>1, <1>2, ClaimedHeap
  <1>4. CASE heap' = heap
    BY <1>4 DEF FocusStep
  <1>5. CASE /\ current \in 1..Len(heap)
             /\ heap[current] \in Dialog
             /\ heap' = [heap EXCEPT ![current] = [heap[current] EXCEPT !.inFlight = TRUE]]
    <2> DEFINE r == [heap[current] EXCEPT !.inFlight = TRUE]
    <2>1. r \in Dialog /\ r.focused = heap[current].focused
      BY <1>5, ClaimKeeps
    <2>2. heap' = [heap EXCEPT ![current] = r]
      BY <1>5
    <2> HIDE DEF r
    <2> QED
      BY <1>5, <2>1, <2>2, FocusWhenOneMoves
  <1> QED
    BY <1>3, <1>4, <1>5

\* So no step does.
LEMMA StepKeepsFocus == IInv /\ [Next]_vars => FocusStep
  <1> SUFFICES ASSUME IInv, [Next]_vars PROVE FocusStep
    OBVIOUS
  <1>0. Typed
    BY DEF IInv
  <1>1. CASE \/ AgentAsks \/ TerminalAnswers \/ TerminalMovesFocus \/ PollStep
             \/ \E h \in Hooks : HookFires(h) \/ EventLost(h) \/ HookStep(h)
    BY <1>0, <1>1, OthersTouch, FocusWhenTouched
  <1>2. ASSUME NEW c \in Clients, ReadPane(c) \/ ClientStep(c) PROVE FocusStep
    BY <1>2, ClientFocus
  <1>3. ASSUME NEW c \in Clients, RespondChoice(c) \/ RespondText(c) \/ RespondLegacy(c)
        PROVE  FocusStep
    BY <1>3, RespondFocus
  <1>4. CASE UNCHANGED vars
    BY <1>4, FocusWhenTouched DEF vars
  <1> QED
    BY <1>1, <1>2, <1>3, <1>4 DEF Next

-----------------------------------------------------------------------------
(* The theorems.                                                            *)

\* The variables of dialogs.py, of the poll, the hooks and the sockets keep the
\* types the code gives them.
THEOREM DialogTyping == Spec => []TypeOK
  BY Inductive, PTL DEF IInv, Typed

\* respond_dialog and respond claim the dialog their client was shown, whatever
\* was cleared and asked since: revisions are never given out twice.
THEOREM AnswersReachTheDialogSeen == Spec => []AnswersTheDialogSeen
  BY Inductive, PTL DEF IInv, Safe

\* However many sockets answer, through either frame, a dialog has one delivery
\* at a time, none after it was consumed, and one acknowledgement.
THEOREM OneAnswer == Spec => []OneAnswerPerDialog
  <1>1. IInv => OneAnswerPerDialog
    <2> SUFFICES ASSUME IInv PROVE OneAnswerPerDialog
      OBVIOUS
    <2>1. DOMAIN heap = 1..Len(heap) /\ Sole /\ Acked
      BY DEF IInv, Typed, TypeOK, Safe
    <2>2. \A c \in Clients, d \in 1..Len(heap) : c \in DeliveriesOf(d) <=> Holds(c, d)
      BY DEF DeliveriesOf, Holds, Delivers
    <2>3. ASSUME NEW d \in DOMAIN heap, NEW c \in DeliveriesOf(d)
          PROVE  DeliveriesOf(d) = {c} /\ heap[d].inFlight /\ ~heap[d].consumed
      <3>1. c \in Clients /\ d \in 1..Len(heap) /\ Holds(c, d)
        BY <2>1, <2>2, <2>3 DEF DeliveriesOf
      <3>2. \A b \in DeliveriesOf(d) : b = c
        BY <2>1, <2>2, <3>1 DEF Sole, DeliveriesOf
      <3> QED
        BY <2>1, <2>3, <3>1, <3>2 DEF Sole
    <2>4. \A d \in DOMAIN heap : heap[d].acks <= 1
      BY <2>1 DEF Acked
    <2> QED
      BY <2>3, <2>4 DEF OneAnswerPerDialog
  <1> QED
    BY <1>1, Inductive, PTL

\* A delivery that fails, at whichever of its keys, leaves its dialog
\* answerable: no claim outlives the delivery that made it.
THEOREM NoStrayClaim == Spec => []ClaimsAreReleased
  <1>1. IInv => ClaimsAreReleased
    <2> SUFFICES ASSUME IInv PROVE ClaimsAreReleased
      OBVIOUS
    <2>1. DOMAIN heap = 1..Len(heap) /\ Served
      BY DEF IInv, Typed, TypeOK, Safe
    <2>2. ASSUME NEW d \in DOMAIN heap, heap[d].inFlight, ~heap[d].consumed
          PROVE  DeliveriesOf(d) # {}
      BY <2>1, <2>2 DEF Served, Holds, Delivers, DeliveriesOf
    <2> QED
      BY <2>2 DEF ClaimsAreReleased
  <1> QED
    BY <1>1, Inductive, PTL

\* No dialog is consumed by an answer that was meant for another: a key sent
\* for it has reached the pane.
THEOREM ConsumedByOwnAnswer == Spec => []ConsumedByItsAnswer
  <1>1. IInv => ConsumedByItsAnswer
    BY DEF IInv, Typed, TypeOK, Safe, Consumed, ConsumedByItsAnswer
  <1> QED
    BY <1>1, Inductive, PTL

\* Whatever poll, event or manual read is applied while a delivery is under
\* way, its dialog's focus is moved by its own keys only.
THEOREM FocusIsOwned == Spec => DeliveryOwnsFocus
  <1>1. IInv /\ [Next]_vars => FocusStep
    BY StepKeepsFocus
  <1>2. IInv /\ [Next]_vars
        => [\A c \in Clients :
              LET d == client[c].dialog IN
              client[c].pc \in Delivering /\ d # 0 /\ client'[c] = client[c]
              => heap'[d].focused = heap[d].focused]_vars
    BY <1>1 DEF FocusStep
  <1> QED
    BY <1>2, Inductive, PTL DEF Spec, DeliveryOwnsFocus

=============================================================================
