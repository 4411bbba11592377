------------------------- MODULE RequestReplayProofs -------------------------
(***************************************************************************)
(* What a socket's command loop keeps of its answers, for any number of    *)
(* sockets, hosts, frames and panes and any capacity and allowance,        *)
(* whatever is cut off, late or left behind.                               *)
(***************************************************************************)
EXTENDS RequestReplay, FiniteSetTheorems, SequenceTheorems, WellFoundedInduction,
        TLAPS

-----------------------------------------------------------------------------
(* The invariant.                                                           *)

\* The entries of the log a socket has remembered, and may have forgotten.
Own(s) == {n \in DOMAIN log : log[n].by = s /\ log[n].kept}

\* The type invariant, with the shape of a meter and its age under the clock.
TypeInv ==
    /\ link \in [Sockets -> {"new", "open", "gone", "closed"}]
    /\ memory \in [Sockets -> Seq(Nat)]
    /\ meter \in [Sockets -> [Buckets -> [tokens: Nat, age: Nat]]]
    /\ work \in [Sockets -> [at: Nat, call: Nat, pc: {"idle", "calling", "landed"}]]
    /\ log \in Seq(Entry) /\ Len(log) <= MaxFrames
    /\ known \in [panes: SUBSET Hosts, sessions: SUBSET Hosts]
    /\ spent \in [ticks: 0..MaxTicks, polls: 0..MaxPolls]

\* A bucket holds no more than a burst, and a socket nobody took has its own.
MeterOK(s, b) ==
    /\ meter[s][b].tokens <= Full(b) /\ meter[s][b].age <= spent.ticks
    /\ link[s] = "new" => meter[s][b].tokens = Full(b) /\ meter[s][b].age = 0

\* The frame a handler runs is the last its socket sent, and not answered.
WorkOK(s) == work[s].pc # "idle" =>
    /\ link[s] # "new"
    /\ work[s].at \in DOMAIN log
    /\ log[work[s].at].by = s /\ log[work[s].at].answer = "none"
    /\ log[work[s].at].from = 0 /\ ~log[work[s].at].kept
    /\ log[work[s].at].frame.kind # "agent_event"
    /\ \A k \in DOMAIN log : log[k].by = s => k <= work[s].at

\* What is remembered is an answer that was final.
KeptOK(n) == log[n].kept =>
    /\ log[n].answer \in {"ack", "refused", "failed"} /\ log[n].from = 0
    /\ log[n].frame.id # None
    /\ log[n].frame.kind = "create_tab" => log[n].answer # "failed"

\* A repeated answer is that of a remembered entry for the same frame.
RepeatOK(n) == log[n].from # 0 =>
    LET m == log[n].from IN
    /\ m \in DOMAIN log /\ log[m].kept
    /\ log[m].by = log[n].by /\ log[m].frame = log[n].frame
    /\ log[m].answer = log[n].answer

\* The memory of a socket is the newest of what it remembered, oldest first.
MemoryOK(s) ==
    /\ Len(memory[s]) <= Capacity
    /\ \A i, j \in 1..Len(memory[s]) : i < j => memory[s][i] < memory[s][j]
    /\ \A i \in 1..Len(memory[s]) : memory[s][i] \in Own(s)
    /\ \A n \in Own(s) :
          \/ \E i \in 1..Len(memory[s]) : memory[s][i] = n
          \/ Len(memory[s]) = Capacity /\ \A i \in 1..Len(memory[s]) : n < memory[s][i]

\* What holds of the log and the memories.
LogInv ==
    /\ \A s \in Sockets : WorkOK(s) /\ MemoryOK(s)
    /\ \A n \in DOMAIN log : KeptOK(n) /\ RepeatOK(n)
    /\ RunsAgainOnlyWhenForgotten

\* The buckets hold at most a burst.
MeterInv == /\ meter \in [Sockets -> [Buckets -> [tokens: Nat, age: Nat]]]
            /\ \A s \in Sockets, b \in Buckets : MeterOK(s, b)

\* The keys that reached the pane, of any frame that was answered: one call that
\* was cut off may still bring its own.  Without a request id the calls after a
\* failed one are made all the same.
TraceOK(n) ==
    LET e == log[n]
        last == Len(e.frame.keys)
    IN /\ e.answer \in {"refused", "limited", "reused"} \/ e.from # 0
             => e.arrived = <<>> /\ e.late = {}
       /\ e.answer = "ack" /\ e.from = 0 => e.arrived = Keys(last) /\ e.late = {}
       /\ ~Legacy(e.frame) => \E j \in 0..last :
             /\ e.arrived = Keys(j)
             /\ e.late = {} \/ (j < last /\ e.late = {j + 1})

\* The keys of the frame that runs, up to the call it makes.
CallsOK(s) ==
    LET e == log[work[s].at] IN
    work[s].pc # "idle" /\ ~Legacy(e.frame) =>
        /\ work[s].call \in 1..Len(e.frame.keys) /\ e.late = {}
        /\ e.arrived = Keys((IF work[s].pc = "landed" THEN NextRun(e.frame, work[s].call)
                             ELSE work[s].call) - 1)
        /\ e.frame.kind # "send_keys" => work[s].call = 1

\* What holds of the keys that reached the pane.
TraceInv == /\ \A n \in DOMAIN log : TraceOK(n)
            /\ \A s \in Sockets : CallsOK(s)

\* The inductive invariant.
ReplayInv == TypeInv /\ LogInv /\ MeterInv

-----------------------------------------------------------------------------
(* The calls of a frame.                                                    *)

\* A set of numbers has a least one, which Min returns.
LEMMA Smallest ==
    ASSUME NEW T, T \subseteq Nat, T # {}
    PROVE  Min(T) \in T /\ \A y \in T : Min(T) <= y
<1> DEFINE R == OpToRel(<, Nat)
<1>1. IsWellFoundedOn(R, Nat)
  BY NatLessThanWellFounded
<1>2. \A x, y \in Nat : x < y => <<x, y>> \in R
  BY DEF OpToRel
<1> HIDE DEF R
<1>3. PICK x \in T : \A y \in T : ~(<<y, x>> \in R)
  BY <1>1, WFMin
<1>4. ASSUME NEW y \in T, y < x PROVE FALSE
  <2>1. <<y, x>> \in R
    BY <1>2, <1>4
  <2>2. QED
    BY <1>3, <2>1
<1>5. \E z \in T : \A y \in T : z <= y
  BY <1>4
<1>6. QED
  BY <1>5 DEF Min

\* A call ends past the key it begins with, and a frame of no send_keys is one call.
LEMMA NextRunFacts ==
    ASSUME NEW f \in Frames, NEW c \in Nat, NEW len, len = Len(f.keys)
    PROVE  /\ len \in Nat \ {0} /\ NextRun(f, c) \in Nat /\ NextRun(f, c) <= len + 1
           /\ c <= len => NextRun(f, c) > c
           /\ f.kind # "send_keys" => NextRun(f, c) = len + 1
<1>1. f.keys \in Seq(Nat \ {0}) /\ f.keys # <<>>
  BY ConstantsOK DEF Frame
<1>2. len \in Nat \ {0}
  BY <1>1
<1> DEFINE D == {d \in (c + 1)..len :
                    f.kind = "send_keys" /\ (f.keys[d - 1] \in Nav \/ f.keys[d] \in Nav)}
           S == {len + 1} \cup D
<1>3. NextRun(f, c) = Min(S)
  BY DEF NextRun
<1>4. S \subseteq Nat /\ len + 1 \in S
  BY <1>2
<1>5. \A d \in S : d = len + 1 \/ (d \in (c + 1)..len /\ f.kind = "send_keys")
  OBVIOUS
<1> HIDE DEF S, D
<1>6. PICK m \in S : m = NextRun(f, c) /\ m <= len + 1
  BY <1>3, <1>4, Smallest
<1>7. m \in Nat /\ (m = len + 1 \/ (m \in (c + 1)..len /\ f.kind = "send_keys"))
  BY <1>4, <1>5
<1>8. c <= len => m > c
  BY <1>2, <1>7
<1>9. f.kind # "send_keys" => m = len + 1
  BY <1>7
<1>10. QED
  BY <1>2, <1>6, <1>7, <1>8, <1>9

\* A frame has keys.
LEMMA KeysOfFrame ==
    ASSUME NEW f \in Frames
    PROVE  Len(f.keys) \in Nat \ {0}
  BY NextRunFacts

\* A call ends somewhere.
LEMMA NextRunIsNumber ==
    ASSUME NEW f \in Frames, NEW c \in Nat
    PROVE  NextRun(f, c) \in Nat
  BY NextRunFacts

\* A call that begins among the keys ends among them, or with the last.
LEMMA NextRunWithin ==
    ASSUME NEW f \in Frames, NEW c \in 1..Len(f.keys)
    PROVE  NextRun(f, c) \in (c + 1)..(Len(f.keys) + 1)
<1>1. Len(f.keys) \in Nat \ {0}
  BY KeysOfFrame
<1>2. /\ NextRun(f, c) \in Nat /\ NextRun(f, c) <= Len(f.keys) + 1
      /\ c <= Len(f.keys) => NextRun(f, c) > c
  BY <1>1, NextRunFacts
<1>3. QED
  BY <1>1, <1>2

\* The keys before a call and those of the call are the keys before the next.
LEMMA KeyRunFacts ==
    /\ Keys(0) = <<>>
    /\ \A f \in Frames, c \in Nat : KeyRun(f, c) \in Seq(Nat)
    /\ \A f \in Frames : \A c \in 1..Len(f.keys) :
          Keys(c - 1) \o KeyRun(f, c) = Keys(NextRun(f, c) - 1)
<1>1. Keys(0) = <<>>
  BY DEF Keys
<1>2. ASSUME NEW f \in Frames, NEW c \in Nat PROVE KeyRun(f, c) \in Seq(Nat)
  <2>1. PICK d \in Nat : d = NextRun(f, c)
    BY NextRunIsNumber
  <2>2. CASE d - c \in Nat
    <3>1. \A i \in 1..(d - c) : c + i - 1 \in Nat
      OBVIOUS
    <3>2. QED
      BY <2>1, <2>2, <3>1 DEF KeyRun
  <2>3. CASE d - c \notin Nat
    <3>1. 1..(d - c) = {}
      BY <2>3
    <3>2. KeyRun(f, c) = <<>>
      BY <2>1, <3>1 DEF KeyRun
    <3>3. QED
      BY <3>2
  <2>4. QED
    BY <2>2, <2>3
<1>3. ASSUME NEW f \in Frames, NEW c \in 1..Len(f.keys)
      PROVE  Keys(c - 1) \o KeyRun(f, c) = Keys(NextRun(f, c) - 1)
  <2>1. PICK d \in Nat : d = NextRun(f, c) /\ d > c
    BY NextRunFacts
  <2>2. PICK j \in Nat : j = c - 1
    OBVIOUS
  <2>3. PICK k \in Nat : k = d - c
    BY <2>1
  <2>4. Keys(j) \in Seq(Nat) /\ Len(Keys(j)) = j /\ \A i \in 1..j : Keys(j)[i] = i
    BY DEF Keys
  <2>5. KeyRun(f, c) = [i \in 1..k |-> j + i]
    <3>1. \A i \in 1..k : c + i - 1 = j + i
      BY <2>2
    <3>2. QED
      BY <2>1, <2>3, <3>1 DEF KeyRun
  <2>6. PICK r \in Seq(Nat) : r = KeyRun(f, c)
    BY <1>2
  <2>7. Len(r) = k /\ \A i \in 1..k : r[i] = j + i
    BY <2>5, <2>6
  <2>8. PICK q \in Seq(Nat) : q = Keys(j)
    BY <2>4
  <2>9. Len(q) = j /\ \A i \in 1..j : q[i] = i
    BY <2>4, <2>8
  <2>10. /\ q \o r \in Seq(Nat) /\ Len(q \o r) = j + k
         /\ \A i \in 1..(j + k) : (q \o r)[i] = IF i <= j THEN q[i] ELSE r[i - j]
    BY <2>7, <2>9, ConcatProperties, Zenon
  <2>11. \A i \in 1..(j + k) : (q \o r)[i] = i
    <3> SUFFICES ASSUME NEW i \in 1..(j + k) PROVE (q \o r)[i] = i
      OBVIOUS
    <3>1. CASE i <= j
      BY <2>9, <2>10, <3>1
    <3>2. CASE ~(i <= j)
      <4>1. i - j \in 1..k /\ j + (i - j) = i
        BY <3>2
      <4>2. QED
        BY <2>7, <2>10, <3>2, <4>1
    <3>3. QED
      BY <3>1, <3>2
  <2>12. Keys(j + k) \in Seq(Nat) /\ Len(Keys(j + k)) = j + k
         /\ \A i \in 1..(j + k) : Keys(j + k)[i] = i
    BY DEF Keys
  <2>13. PICK t \in Seq(Nat) : t = q \o r
    BY <2>10
  <2>14. PICK u \in Seq(Nat) : u = Keys(j + k)
    BY <2>12
  <2>15. t = u
    <3>1. Len(t) = Len(u) /\ \A i \in 1..Len(t) : t[i] = u[i]
      BY <2>10, <2>11, <2>12, <2>13, <2>14
    <3>2. QED
      BY <3>1, SeqEqual
  <2>16. j + k = d - 1
    BY <2>2, <2>3
  <2>17. QED
    BY <2>1, <2>2, <2>6, <2>8, <2>13, <2>14, <2>15, <2>16
<1>4. QED
  BY <1>1, <1>2, <1>3

-----------------------------------------------------------------------------
(* The log and its entries.                                                 *)

\* Writing over an entry, or right after the last one, leaves the others.
LEMMA WrittenLog ==
    ASSUME log \in Seq(Entry), NEW n \in 1..(Len(log) + 1), NEW e \in Entry
    PROVE  /\ Written(n, e) \in Seq(Entry)
           /\ Len(Written(n, e)) = IF n = Len(log) + 1 THEN n ELSE Len(log)
           /\ DOMAIN Written(n, e) = DOMAIN log \cup {n}
           /\ Written(n, e)[n] = e
           /\ \A k \in DOMAIN log \ {n} : Written(n, e)[k] = log[k]
<1>1. DOMAIN log = 1..Len(log) /\ Len(log) \in Nat /\ \A k \in DOMAIN log : log[k] \in Entry
  OBVIOUS
<1> DEFINE W == Written(n, e)
           m == IF n = Len(log) + 1 THEN n ELSE Len(log)
<1>2. m \in Nat /\ DOMAIN log \cup {n} = 1..m
  BY <1>1
<1>3. W \in [1..m -> Entry] /\ W[n] = e /\ \A k \in DOMAIN log \ {n} : W[k] = log[k]
  BY <1>1, <1>2 DEF Written
<1>4. DOMAIN W = 1..m
  BY <1>3
<1> HIDE DEF W
<1>5. W \in Seq(Entry) /\ Len(W) = m
  BY <1>2, <1>3
<1>6. QED
  BY <1>2, <1>3, <1>4, <1>5 DEF W

\* A frame that is taken is an entry, and keeps being one as it is run.
LEMMA Entries ==
    /\ \A s \in Sockets, f \in Frames : Sent(s, f) \in Entry
    /\ \A e \in Entry : /\ e.frame \in Frame /\ e.frame \in Frames
                        /\ \A b \in BOOLEAN : [e EXCEPT !.kept = b] \in Entry
                        /\ \A b \in BOOLEAN : [e EXCEPT !.paid = b] \in Entry
                        /\ \A h \in Hosts \cup {None} : [e EXCEPT !.host = h] \in Entry
                        /\ \A k \in SUBSET Nat : [e EXCEPT !.late = k] \in Entry
                        /\ \A a \in Seq(Nat) : [e EXCEPT !.arrived = a] \in Entry
                        /\ \A a \in {"ack", "refused", "failed", "limited", "reused", "silence"} :
                              [e EXCEPT !.answer = a] \in Entry
<1>1. ASSUME NEW s \in Sockets, NEW f \in Frames PROVE Sent(s, f) \in Entry
  BY DEF Sent, Entry
<1>2. ASSUME NEW e \in Entry PROVE e.frame \in Frame /\ e.frame \in Frames
  BY ConstantsOK DEF Entry
<1>3. ASSUME NEW e \in Entry, NEW b \in BOOLEAN
      PROVE  [e EXCEPT !.kept = b] \in Entry /\ [e EXCEPT !.paid = b] \in Entry
  BY DEF Entry
<1>4. ASSUME NEW e \in Entry, NEW h \in Hosts \cup {None}
      PROVE  [e EXCEPT !.host = h] \in Entry
  BY DEF Entry
<1>5. ASSUME NEW e \in Entry, NEW k \in SUBSET Nat
      PROVE  [e EXCEPT !.late = k] \in Entry
  BY DEF Entry
<1>6. ASSUME NEW e \in Entry, NEW a \in Seq(Nat)
      PROVE  [e EXCEPT !.arrived = a] \in Entry
  BY DEF Entry
<1>7. ASSUME NEW e \in Entry,
             NEW a \in {"ack", "refused", "failed", "limited", "reused", "silence"}
      PROVE  [e EXCEPT !.answer = a] \in Entry
  BY DEF Entry
<1>8. QED
  BY <1>1, <1>2, <1>3, <1>4, <1>5, <1>6, <1>7

\* Storing a changed entry, or none, is writing it.
LEMMA ExceptIsWritten ==
    ASSUME log \in Seq(Entry), NEW n \in DOMAIN log
    PROVE  /\ log = Written(n, log[n])
           /\ \A e \in Entry : [log EXCEPT ![n] = e] = Written(n, e)
<1>1. log \in [1..Len(log) -> Entry] /\ DOMAIN log = 1..Len(log)
  OBVIOUS
<1>2. DOMAIN log \cup {n} = DOMAIN log /\ log = [k \in DOMAIN log |-> log[k]]
  BY <1>1
<1>3. QED
  BY <1>1, <1>2 DEF Written

-----------------------------------------------------------------------------
(* What the steps of a handler do to its entry, its memory and its socket.  *)

\* Where a handler is.
Work == [at: Nat, call: Nat, pc: {"idle", "calling", "landed"}]

\* A socket keeps its place: it is never unconnected again.
Connected == /\ link' \in [Sockets -> {"new", "open", "gone", "closed"}]
             /\ \A s \in Sockets : link[s] # "new" => link'[s] # "new"

\* Entry n is the last of socket s, or its next one, and e what it becomes.
Ready(s, n, e) ==
    /\ n \in 1..(Len(log) + 1) /\ e \in Entry /\ e.by = s /\ ~e.kept
    /\ n = Len(log) + 1 => Len(log) < MaxFrames
    /\ link[s] # "new"
    /\ \A k \in DOMAIN log : log[k].by = s => k <= n
    /\ n \in DOMAIN log => /\ log[n].by = s
                           /\ ~log[n].kept /\ log[n].from = 0 /\ e.from = 0
                           /\ e.frame = log[n].frame /\ e.paid = log[n].paid

\* The handler of s writes entry n, which was not remembered, and remembers it
\* when it is final; while it runs that entry is its last.
Writes(s, n) ==
    /\ n \in 1..(Len(log) + 1)
    /\ log' \in Seq(Entry) /\ Len(log') <= MaxFrames
    /\ DOMAIN log' = DOMAIN log \cup {n}
    /\ \A k \in DOMAIN log \ {n} : log'[k] = log[k]
    /\ log'[n].by = s
    /\ \A k \in DOMAIN log : log[k].by = s => k <= n
    /\ n \in DOMAIN log => /\ log[n].by = s
                           /\ ~log[n].kept /\ log[n].from = 0 /\ log'[n].from = 0
                           /\ log'[n].frame = log[n].frame /\ log'[n].paid = log[n].paid
    /\ KeptOK(n)'
    /\ memory' = [memory EXCEPT ![s] = IF log'[n].kept THEN Keep(s, n) ELSE @]
    /\ work' \in [Sockets -> [at: Nat, call: Nat, pc: {"idle", "calling", "landed"}]]
    /\ \A t \in Sockets \ {s} : work'[t] = work[t]
    /\ work'[s].pc # "idle" =>
          /\ work'[s].at = n /\ log'[n].answer = "none" /\ log'[n].from = 0
          /\ ~log'[n].kept /\ log'[n].frame.kind # "agent_event"
    /\ link[s] # "new" /\ Connected

\* A frame just taken is the next entry of its socket, which runs no other.
LEMMA ReadyNew ==
    ASSUME TypeInv, NEW s \in Sockets, Taking(s), NEW e \in Entry, e.by = s, ~e.kept
    PROVE  Ready(s, Len(log) + 1, e)
<1>1. DOMAIN log = 1..Len(log) /\ Len(log) \in Nat
  BY DEF TypeInv
<1>2. link[s] # "new" /\ Len(log) < MaxFrames
  BY DEF Taking
<1>3. QED
  BY <1>1, <1>2 DEF Ready

\* The frame that runs is the last entry of its socket.
LEMMA ReadyRun ==
    ASSUME TypeInv, NEW s \in Sockets, WorkOK(s), work[s].pc # "idle",
           NEW e \in Entry, e.by = s, ~e.kept, e.from = 0,
           e.frame = log[work[s].at].frame, e.paid = log[work[s].at].paid
    PROVE  Ready(s, work[s].at, e)
<1>1. DOMAIN log = 1..Len(log) /\ Len(log) \in Nat
  BY DEF TypeInv
<1>2. QED
  BY <1>1 DEF Ready, WorkOK

\* An answer is written and, unless it is one not to remember, remembered.
LEMMA AnswerWrites ==
    ASSUME TypeInv, NEW s \in Sockets, NEW n, NEW e, Ready(s, n, e), Answer(s, n, e),
           e.answer # "none",
           e.answer = "silence" => e.frame.kind = "agent_event" \/ e.frame.id = None
    PROVE  /\ Writes(s, n)
           /\ work'[s].pc = "idle"
           /\ log'[n] = [e EXCEPT !.kept = Remembers(e)]
           /\ log' = Written(n, [e EXCEPT !.kept = Remembers(e)])
<1> DEFINE g == [e EXCEPT !.kept = Remembers(e)]
<1>1. e \in Entry /\ n \in 1..(Len(log) + 1) /\ log \in Seq(Entry) /\ Len(log) <= MaxFrames
  BY DEF Ready, TypeInv
<1>2. Remembers(e) \in BOOLEAN
  BY DEF Remembers
<1>3. /\ g \in Entry /\ g.kept = Remembers(e) /\ g.by = e.by /\ g.frame = e.frame
      /\ g.from = e.from /\ g.answer = e.answer /\ g.paid = e.paid
  <2>1. g \in Entry
    BY <1>1, <1>2, Entries
  <2>2. QED
    BY <1>1, <2>1 DEF Entry
<1>4. log' = Written(n, g)
  BY DEF Answer
<1> HIDE DEF g
<1>5. /\ log' \in Seq(Entry) /\ Len(log') = IF n = Len(log) + 1 THEN n ELSE Len(log)
      /\ DOMAIN log' = DOMAIN log \cup {n} /\ log'[n] = g
      /\ \A k \in DOMAIN log \ {n} : log'[k] = log[k]
  BY <1>1, <1>3, <1>4, WrittenLog
<1>6. Len(log') <= MaxFrames
  BY <1>1, <1>5, ConstantsOK DEF Ready
<1>7. KeptOK(n)'
  <2> SUFFICES ASSUME g.kept
               PROVE  /\ g.answer \in {"ack", "refused", "failed"} /\ g.from = 0
                      /\ g.frame.id # None
                      /\ g.frame.kind = "create_tab" => g.answer # "failed"
    BY <1>5 DEF KeptOK
  <2>1. Remembers(e)
    BY <1>3
  <2>2. g.answer \in {"none", "ack", "refused", "failed", "limited", "reused", "silence"}
    BY <1>3 DEF Entry
  <2>3. QED
    BY <1>3, <2>1, <2>2 DEF Remembers
<1>8. memory' = [memory EXCEPT ![s] = IF log'[n].kept THEN Keep(s, n) ELSE @]
  BY <1>3, <1>5 DEF Answer
<1>9. /\ work' = [work EXCEPT ![s] = Idle]
      /\ work' \in [Sockets -> [at: Nat, call: Nat, pc: {"idle", "calling", "landed"}]]
      /\ work'[s].pc = "idle" /\ \A t \in Sockets \ {s} : work'[t] = work[t]
  BY DEF Answer, TypeInv, Idle
<1>10. link[s] # "new" /\ Connected
  BY DEF Answer, Connected, Ready, TypeInv
<1>11. n \in DOMAIN log => /\ log[n].by = s /\ ~log[n].kept /\ log[n].from = 0 /\ log'[n].from = 0
                           /\ log'[n].frame = log[n].frame /\ log'[n].paid = log[n].paid
  BY <1>3, <1>5 DEF Ready
<1>12. log'[n].by = s /\ \A k \in DOMAIN log : log[k].by = s => k <= n
  BY <1>3, <1>5 DEF Ready
<1>13. Writes(s, n)
  BY <1>1, <1>5, <1>6, <1>7, <1>8, <1>9, <1>10, <1>11, <1>12 DEF Writes
<1>14. QED
  BY <1>4, <1>5, <1>9, <1>13 DEF g

\* The handler of s is left at w: it runs entry n, which is e, or none.
Goes(s, w, n, e) ==
    /\ w \in Work /\ work' = [work EXCEPT ![s] = w]
    /\ w.pc # "idle" => w.at = n /\ e.from = 0 /\ e.frame.kind # "agent_event"

\* A frame that goes on is written unanswered, and stays its socket's last.
LEMMA PendingWrites ==
    ASSUME TypeInv, NEW s \in Sockets, NEW n, NEW e, Ready(s, n, e), e.answer = "none",
           log' = Written(n, e), memory' = memory, Connected,
           NEW w, Goes(s, w, n, e)
    PROVE  Writes(s, n) /\ log'[n] = e /\ work'[s] = w
<1>1. e \in Entry /\ n \in 1..(Len(log) + 1) /\ log \in Seq(Entry) /\ Len(log) <= MaxFrames
  BY DEF Ready, TypeInv
<1>2. /\ log' \in Seq(Entry) /\ Len(log') = IF n = Len(log) + 1 THEN n ELSE Len(log)
      /\ DOMAIN log' = DOMAIN log \cup {n} /\ log'[n] = e
      /\ \A k \in DOMAIN log \ {n} : log'[k] = log[k]
  <2>1. /\ Written(n, e) \in Seq(Entry)
        /\ Len(Written(n, e)) = IF n = Len(log) + 1 THEN n ELSE Len(log)
        /\ DOMAIN Written(n, e) = DOMAIN log \cup {n} /\ Written(n, e)[n] = e
        /\ \A k \in DOMAIN log \ {n} : Written(n, e)[k] = log[k]
    BY <1>1, WrittenLog
  <2>2. QED
    BY <2>1
<1>3. Len(log') <= MaxFrames
  BY <1>1, <1>2, ConstantsOK DEF Ready
<1>4. ~log'[n].kept /\ KeptOK(n)'
  BY <1>2 DEF Ready, KeptOK
<1>5. memory' = [memory EXCEPT ![s] = IF log'[n].kept THEN Keep(s, n) ELSE @]
  BY <1>4 DEF TypeInv
<1>6. /\ work' \in [Sockets -> Work]
      /\ work'[s] = w /\ \A t \in Sockets \ {s} : work'[t] = work[t]
  BY DEF TypeInv, Work, Goes
<1>7. n \in DOMAIN log => /\ log[n].by = s /\ ~log[n].kept /\ log[n].from = 0 /\ log'[n].from = 0
                          /\ log'[n].frame = log[n].frame /\ log'[n].paid = log[n].paid
  BY <1>2 DEF Ready
<1>8. /\ log'[n].by = s /\ link[s] # "new"
      /\ \A k \in DOMAIN log : log[k].by = s => k <= n
  BY <1>2 DEF Ready
<1>9. QED
  BY <1>1, <1>2, <1>3, <1>4, <1>5, <1>6, <1>7, <1>8 DEF Writes, Work, Goes

-----------------------------------------------------------------------------
(* The steps of a handler, one by one.                                      *)

\* The frame f that socket s takes becomes entry n, its newest.
NewEntry(s, n, f) == n = Len(log) + 1 /\ Writes(s, n) /\ log'[n].frame = f

\* No call of entry n was made yet, or ever will be when it is answered so.
Untouched(n) == log'[n].arrived = <<>> /\ log'[n].late = {}

\* What a frame is taken with.
LEMMA SentFields ==
    ASSUME NEW s \in Sockets, NEW f \in Frames
    PROVE  /\ Sent(s, f) \in Entry /\ Sent(s, f).by = s /\ Sent(s, f).frame = f
           /\ Sent(s, f).answer = "none" /\ ~Sent(s, f).paid /\ Sent(s, f).from = 0
           /\ ~Sent(s, f).kept /\ Sent(s, f).arrived = <<>> /\ Sent(s, f).late = {}
<1>1. Sent(s, f) \in Entry
  BY Entries
<1>2. QED
  BY <1>1 DEF Sent

\* The entries a socket remembers are its own final answers.
LEMMA RememberedAreOwn ==
    ASSUME TypeInv, NEW s \in Sockets, MemoryOK(s), \A n \in DOMAIN log : KeptOK(n),
           NEW id, NEW m \in Remembered(s, id)
    PROVE  /\ m \in DOMAIN log /\ m \in Nat /\ m # 0
           /\ log[m].by = s /\ log[m].kept /\ log[m].from = 0
           /\ log[m].answer \in {"ack", "refused", "failed"}
           /\ id # None /\ log[m].frame.id = id /\ log[m] \in Entry
<1>1. log \in Seq(Entry) /\ DOMAIN log = 1..Len(log) /\ Len(log) \in Nat
  BY DEF TypeInv
<1>2. memory[s] \in Seq(Nat)
  BY DEF TypeInv
<1>3. PICK i \in 1..Len(memory[s]) : m = memory[s][i]
  BY <1>2 DEF Remembered, Range
<1>4. m \in Own(s)
  BY <1>3 DEF MemoryOK
<1>5. QED
  BY <1>1, <1>4 DEF Own, KeptOK, Remembered

\* The fingerprint leaves out the id alone.
LEMMA OneFingerprint ==
    ASSUME NEW f \in Frame, NEW g \in Frame, g.id = f.id, Fingerprint(g) = Fingerprint(f)
    PROVE  g = f
<1>1. g.kind = f.kind /\ g.to = f.to /\ g.keys = f.keys /\ g.form = f.form
  BY DEF Fingerprint
<1>2. QED
  BY <1>1 DEF Frame

\* A repeated answer is taken from the socket's own memory, and costs nothing.
LEMMA ReplayWrites ==
    ASSUME TypeInv, NEW s \in Sockets, MemoryOK(s), \A n \in DOMAIN log : KeptOK(n),
           NEW f \in Frames, Replay(s, f),
           NEW n, n = Len(log) + 1
    PROVE  /\ NewEntry(s, n, f) /\ RepeatOK(n)' /\ UNCHANGED <<meter, known, spent>>
           /\ ~log'[n].paid /\ log'[n].answer # "limited"
           /\ Untouched(n) /\ work'[s].pc = "idle"
           /\ log'[n].answer = "reused" \/ log'[n].from # 0
<1>1. Taking(s) /\ UNCHANGED <<meter, known, spent>>
  BY DEF Replay
<1>2. PICK m \in Remembered(s, f.id) :
         IF Fingerprint(log[m].frame) = Fingerprint(f)
         THEN Answer(s, n, [Sent(s, f) EXCEPT !.answer = log[m].answer, !.from = m])
         ELSE Answer(s, n, [Sent(s, f) EXCEPT !.answer = "reused"])
  BY DEF Replay
<1>3. /\ m \in DOMAIN log /\ m \in Nat /\ m # 0
      /\ log[m].by = s /\ log[m].kept /\ log[m].from = 0
      /\ log[m].answer \in {"ack", "refused", "failed"}
      /\ f.id # None /\ log[m].frame.id = f.id /\ log[m] \in Entry
  BY RememberedAreOwn
<1>4. /\ log \in Seq(Entry) /\ DOMAIN log = 1..Len(log) /\ Len(log) \in Nat
      /\ n \notin DOMAIN log
  BY DEF TypeInv
<1>5. CASE Fingerprint(log[m].frame) = Fingerprint(f)
  <2> DEFINE d == Sent(s, f)
  <2>0. /\ d \in Entry /\ d.by = s /\ d.frame = f /\ ~d.paid /\ d.from = 0 /\ ~d.kept
        /\ d.arrived = <<>> /\ d.late = {}
        /\ Answer(s, n, [d EXCEPT !.answer = log[m].answer, !.from = m])
    BY <1>2, <1>5, SentFields
  <2> HIDE DEF d
  <2>a. PICK a \in {"ack", "refused", "failed"} : a = log[m].answer
    BY <1>3
  <2> DEFINE c == [d EXCEPT !.answer = a]
             e == [c EXCEPT !.from = m]
  <2>2. Answer(s, n, e)
    BY <2>0, <2>a
  <2>b. m \in Nat
    BY <1>3, <1>4
  <2>c. /\ c \in Entry /\ c.by = s /\ c.frame = f /\ ~c.paid /\ c.answer = a
        /\ ~c.kept /\ c.arrived = <<>> /\ c.late = {}
    BY <2>0 DEF Entry
  <2> HIDE DEF c
  <2>1. /\ e \in Entry /\ e.by = s /\ e.frame = f /\ ~e.paid /\ e.answer = a
        /\ e.from = m /\ ~e.kept /\ e.arrived = <<>> /\ e.late = {}
    BY <2>b, <2>c DEF Entry
  <2>3. log[m].frame = f
    <3>1. log[m].frame \in Frame /\ f \in Frame
      BY <1>3, ConstantsOK DEF Entry
    <3>2. QED
      BY <1>3, <1>5, <3>1, OneFingerprint
  <2> HIDE DEF e
  <2>4. Ready(s, n, e)
    BY <1>1, <2>1, ReadyNew
  <2>5. Writes(s, n) /\ log'[n] = [e EXCEPT !.kept = Remembers(e)] /\ work'[s].pc = "idle"
    BY <2>a, <2>1, <2>2, <2>4, AnswerWrites
  <2>6. /\ log'[n].from = m /\ log'[n].by = s /\ log'[n].frame = f /\ ~log'[n].paid
        /\ log'[n].answer = log[m].answer /\ Untouched(n)
    BY <2>1, <2>5, <2>a DEF Entry, Untouched
  <2>7. log'[m] = log[m] /\ m \in DOMAIN log'
    BY <1>3, <1>4, <2>5 DEF Writes
  <2>8. RepeatOK(n)'
    BY <1>3, <2>3, <2>6, <2>7 DEF RepeatOK
  <2>9. QED
    BY <1>1, <1>3, <2>5, <2>6, <2>8 DEF NewEntry
<1>6. CASE Fingerprint(log[m].frame) # Fingerprint(f)
  <2> DEFINE d == Sent(s, f)
             e == [d EXCEPT !.answer = "reused"]
  <2>0. /\ d \in Entry /\ d.by = s /\ d.frame = f /\ ~d.paid /\ d.from = 0 /\ ~d.kept
        /\ d.arrived = <<>> /\ d.late = {}
    BY SentFields
  <2>2. Answer(s, n, e)
    BY <1>2, <1>6
  <2> HIDE DEF d
  <2>1. /\ e \in Entry /\ e.by = s /\ e.frame = f /\ ~e.paid /\ e.answer = "reused"
        /\ e.from = 0 /\ ~e.kept /\ e.arrived = <<>> /\ e.late = {}
    BY <2>0 DEF Entry
  <2> HIDE DEF e
  <2>3. Ready(s, n, e)
    BY <1>1, <2>1, ReadyNew
  <2>4. Writes(s, n) /\ log'[n] = [e EXCEPT !.kept = Remembers(e)] /\ work'[s].pc = "idle"
    BY <2>1, <2>2, <2>3, AnswerWrites
  <2>5. /\ log'[n].from = 0 /\ log'[n].frame = f /\ ~log'[n].paid
        /\ log'[n].answer = "reused" /\ Untouched(n)
    BY <2>1, <2>4 DEF Entry, Untouched
  <2>6. RepeatOK(n)'
    BY <2>5 DEF RepeatOK
  <2>7. QED
    BY <1>1, <2>4, <2>5, <2>6 DEF NewEntry
<1>7. QED
  BY <1>5, <1>6

\* A frame the meter turns away is written so, and does not run.
LEMMA LimitWrites ==
    ASSUME TypeInv, NEW s \in Sockets, NEW f \in Frames, Limit(s, f),
           NEW n, n = Len(log) + 1
    PROVE  /\ NewEntry(s, n, f) /\ log'[n].from = 0
           /\ ~log'[n].paid /\ log'[n].answer = "limited"
           /\ Untouched(n) /\ work'[s].pc = "idle" /\ UNCHANGED <<known, spent>>
<1> DEFINE d == Sent(s, f)
           e == [d EXCEPT !.answer = "limited"]
<1>0. /\ d \in Entry /\ d.by = s /\ d.frame = f /\ d.answer = "none" /\ ~d.paid
      /\ d.from = 0 /\ ~d.kept /\ d.arrived = <<>> /\ d.late = {}
  BY SentFields
<1>1. Taking(s) /\ Answer(s, n, e) /\ UNCHANGED <<known, spent>>
  BY DEF Limit
<1> HIDE DEF d
<1>2. /\ e \in Entry /\ e.by = s /\ e.frame = f /\ ~e.paid /\ e.answer = "limited"
      /\ e.from = 0 /\ ~e.kept /\ e.arrived = <<>> /\ e.late = {}
  BY <1>0 DEF Entry
<1> HIDE DEF e
<1>3. Ready(s, n, e)
  BY <1>1, <1>2, ReadyNew
<1>4. Writes(s, n) /\ log'[n] = [e EXCEPT !.kept = Remembers(e)] /\ work'[s].pc = "idle"
  BY <1>1, <1>2, <1>3, AnswerWrites
<1>5. /\ log'[n].from = 0 /\ log'[n].frame = f /\ ~log'[n].paid
      /\ log'[n].answer = "limited" /\ Untouched(n)
  BY <1>2, <1>4 DEF Entry, Untouched
<1>6. QED
  BY <1>1, <1>4, <1>5 DEF NewEntry

\* A frame goes to a host, or to none when the relay's own Herdr takes it.
LEMMA RoutedIsHost ==
    ASSUME TypeInv, NEW f \in Frames
    PROVE  Routed(f) \subseteq Hosts \cup {None}
<1>1. f.to \in Hosts \cup {None} /\ known.panes \subseteq Hosts /\ Powered \subseteq Hosts
  BY ConstantsOK DEF TypeInv, Frame
<1>2. QED
  BY <1>1 DEF Routed, Resolve, TabTarget, SessionTarget, PowerTarget

\* A frame that runs is answered at once, breaks its handler, or starts calls.
LEMMA AdmitWrites ==
    ASSUME TypeInv, NEW s \in Sockets, NEW f \in Frames, Admit(s, f),
           NEW n, n = Len(log) + 1
    PROVE  /\ NewEntry(s, n, f) /\ log'[n].from = 0
           /\ log'[n].paid /\ log'[n].answer \in {"none", "refused", "silence"}
           /\ Untouched(n) /\ UNCHANGED <<known, spent>>
           /\ work'[s].pc # "idle" => work'[s].pc = "calling" /\ work'[s].call = 1
<1> DEFINE d == Sent(s, f)
           e == [d EXCEPT !.paid = TRUE]
<1>0. /\ d \in Entry /\ d.by = s /\ d.frame = f /\ d.answer = "none" /\ ~d.paid
      /\ d.from = 0 /\ ~d.kept /\ d.arrived = <<>> /\ d.late = {}
  BY SentFields
<1>1. Taking(s) /\ Begins(s, n, e) /\ UNCHANGED <<known, spent>>
  BY DEF Admit
<1> HIDE DEF d
<1>2. /\ e \in Entry /\ e.by = s /\ e.frame = f /\ e.paid /\ e.answer = "none"
      /\ e.from = 0 /\ ~e.kept /\ e.arrived = <<>> /\ e.late = {}
  BY <1>0 DEF Entry
<1>3. Len(log) \in Nat /\ n \in Nat
  BY DEF TypeInv
<1> HIDE DEF e
<1>4. Ready(s, n, e) /\ link[s] # "new" /\ work[s].pc = "idle"
  BY <1>1, <1>2, ReadyNew DEF Taking
<1> SUFFICES Writes(s, n) /\ LET g == log'[n] IN
               /\ g.frame = f /\ g.from = 0 /\ g.paid = TRUE
               /\ g.answer \in {"none", "refused", "silence"}
               /\ g.arrived = <<>> /\ g.late = {}
               /\ work'[s].pc # "idle" => work'[s].pc = "calling" /\ work'[s].call = 1
  BY <1>1 DEF NewEntry, Untouched
<1>5. ASSUME NEW a \in {"refused", "silence"}, Answer(s, n, [e EXCEPT !.answer = a]),
             a = "silence" => f.kind = "agent_event"
      PROVE  Writes(s, n) /\ LET g == log'[n] IN
               /\ g.frame = f /\ g.from = 0 /\ g.paid = TRUE
               /\ g.answer \in {"none", "refused", "silence"}
               /\ g.arrived = <<>> /\ g.late = {}
               /\ work'[s].pc # "idle" => work'[s].pc = "calling" /\ work'[s].call = 1
  <2> DEFINE c == [e EXCEPT !.answer = a]
  <2>1. /\ c \in Entry /\ c.by = s /\ c.frame = f /\ c.paid /\ c.answer = a
        /\ c.from = 0 /\ ~c.kept /\ c.arrived = <<>> /\ c.late = {}
    BY <1>2 DEF Entry
  <2>2. Answer(s, n, c)
    BY <1>5
  <2> HIDE DEF c
  <2>3. Ready(s, n, c)
    BY <1>1, <2>1, ReadyNew
  <2>h. /\ c.answer # "none"
        /\ c.answer = "silence" => c.frame.kind = "agent_event" \/ c.frame.id = None
    BY <1>5, <2>1
  <2>4. Writes(s, n) /\ log'[n] = [c EXCEPT !.kept = Remembers(c)] /\ work'[s].pc = "idle"
    BY <2>2, <2>3, <2>h, AnswerWrites
  <2>5. QED
    BY <1>5, <2>1, <2>4 DEF Entry
<1>6. CASE f.kind = "agent_event" /\ Answer(s, n, [e EXCEPT !.answer = "silence"])
  BY <1>5, <1>6
<1>7. CASE Answer(s, n, [e EXCEPT !.answer = "refused"])
  BY <1>5, <1>7
<1>8. CASE /\ log' = Written(n, e) /\ link' = [link EXCEPT ![s] = "closed"]
           /\ UNCHANGED <<memory, work>>
  <2>1. PICK w \in Work :
          w = work[s] /\ work' = [work EXCEPT ![s] = w]
    BY <1>8 DEF TypeInv, Work
  <2>2. Connected
    BY <1>8 DEF Connected, TypeInv
  <2>a. /\ Ready(s, n, e) /\ e.answer = "none" /\ log' = Written(n, e) /\ memory' = memory
        /\ Connected /\ w \in Work /\ work' = [work EXCEPT ![s] = w] /\ w.pc = "idle"
    BY <1>2, <1>4, <1>8, <2>1, <2>2
  <2>b. Goes(s, w, n, e)
    BY <2>a DEF Goes
  <2>3. Writes(s, n) /\ log'[n] = e /\ work'[s] = w
    BY <2>a, <2>b, PendingWrites
  <2>4. QED
    BY <1>2, <2>a, <2>3 DEF Entry
<1>9. CASE /\ f.kind # "agent_event"
           /\ \E h \in Routed(f) : log' = Written(n, [e EXCEPT !.host = h])
           /\ work' = [work EXCEPT ![s] = [at |-> n, call |-> 1, pc |-> "calling"]]
           /\ UNCHANGED <<link, memory>>
  <2>1. PICK h \in Routed(f) : log' = Written(n, [e EXCEPT !.host = h])
    BY <1>9
  <2>2. h \in Hosts \cup {None}
    BY RoutedIsHost
  <2>c. [e EXCEPT !.host = h] \in Entry
    BY <1>2, <2>2 DEF Entry
  <2>d. PICK c \in Entry : c = [e EXCEPT !.host = h]
    BY <2>c
  <2>3. /\ c \in Entry /\ c.by = s /\ c.frame = f /\ c.paid /\ c.answer = "none"
        /\ c.from = 0 /\ ~c.kept /\ c.arrived = <<>> /\ c.late = {}
    BY <1>2, <2>2, <2>d DEF Entry
  <2>4. PICK w \in Work : w = [at |-> n, call |-> 1, pc |-> "calling"]
    BY <1>3 DEF Work
  <2>5. Connected
    BY <1>9 DEF Connected, TypeInv
  <2>6. log' = Written(n, c) /\ memory' = memory
    BY <1>9, <2>1, <2>d
  <2>7. Ready(s, n, c)
    BY <1>1, <2>3, ReadyNew
  <2>8. /\ w \in Work /\ work' = [work EXCEPT ![s] = w] /\ c.answer = "none"
        /\ w.pc # "idle" => w.at = n /\ c.from = 0 /\ c.frame.kind # "agent_event"
    BY <1>9, <2>3, <2>4 DEF Work
  <2>a. /\ Ready(s, n, c) /\ c.answer = "none" /\ log' = Written(n, c) /\ memory' = memory
        /\ Connected
    BY <2>5, <2>6, <2>7, <2>8
  <2>b. Goes(s, w, n, c)
    BY <2>8 DEF Goes
  <2>9. Writes(s, n) /\ log'[n] = c /\ work'[s] = w
    BY <2>a, <2>b, PendingWrites
  <2>10. QED
    BY <2>3, <2>4, <2>9 DEF Entry
<1>10. QED
  BY <1>1, <1>2, <1>6, <1>7, <1>8, <1>9 DEF Begins

\* The entry of a frame that runs, and that of one that goes on after a call.
LEMMA Running ==
    ASSUME TypeInv, NEW s \in Sockets, WorkOK(s), work[s].pc # "idle", NEW n, n = work[s].at
    PROVE  /\ n \in DOMAIN log /\ n \in 1..(Len(log) + 1) /\ n # Len(log) + 1
           /\ log[n] \in Entry /\ log \in Seq(Entry)
           /\ log[n].by = s /\ log[n].answer = "none" /\ log[n].from = 0 /\ ~log[n].kept
           /\ log[n].frame.kind # "agent_event"
  BY DEF TypeInv, WorkOK

\* Entry n of socket s, which runs, becomes e.
Runs(s, n, e) ==
    /\ work[s].pc # "idle" /\ n = work[s].at /\ n \in DOMAIN log
    /\ e \in Entry /\ e.by = s /\ e.answer = "none" /\ e.from = 0 /\ ~e.kept
    /\ e.frame = log[n].frame /\ e.paid = log[n].paid

\* What a step leaves of a frame that ran.
RanOn(s, n) ==
    /\ Writes(s, n) /\ work[s].pc # "idle" /\ n = work[s].at
    /\ log'[n].answer # "limited"

\* The next call is made: the frame stays the socket's last.
LEMMA NextCallWrites ==
    ASSUME TypeInv, NEW s \in Sockets, WorkOK(s), NEW n, NEW e, Runs(s, n, e),
           NextCall(s), log' = Written(n, e), UNCHANGED <<link, memory>>
    PROVE  /\ RanOn(s, n) /\ log'[n] = e
           /\ work'[s].at = n /\ work'[s].pc = "calling"
           /\ work'[s].call = NextRun(e.frame, work[s].call)
<1>1. work[s] \in Work
  BY DEF TypeInv, Work
<1>d. PICK k \in Nat : k = NextRun(log[work[s].at].frame, work[s].call)
  <2>1. work[s].call \in Nat /\ log[work[s].at] \in Entry
    BY <1>1, Running DEF Work, Runs
  <2>2. log[work[s].at].frame \in Frames
    BY <2>1 DEF Entry
  <2>3. QED
    BY <2>1, <2>2, NextRunIsNumber
<1> DEFINE g == [at |-> work[s].at, call |-> k, pc |-> "calling"]
<1>a. g \in Work /\ g.at = work[s].at
  BY <1>1, <1>d DEF Work
<1>b. work' = [work EXCEPT ![s] = g]
  BY <1>d DEF NextCall
<1>2. PICK w \in Work : w = g
  BY <1>a
<1>3. e.from = 0 /\ e.frame.kind # "agent_event" /\ e.answer = "none"
  BY Running DEF Runs
<1>c. n = work[s].at
  BY DEF Runs
<1> HIDE DEF g
<1>4. Goes(s, w, n, e)
  BY <1>a, <1>b, <1>c, <1>2, <1>3 DEF Goes
<1>5. Connected /\ memory' = memory
  BY DEF Connected, TypeInv
<1>6. Ready(s, n, e)
  BY ReadyRun DEF Runs
<1>7. Writes(s, n) /\ log'[n] = e /\ work'[s] = w
  BY <1>3, <1>4, <1>5, <1>6, PendingWrites
<1>8. RanOn(s, n)
  BY <1>3, <1>7 DEF RanOn, Runs
<1>9. k = NextRun(e.frame, work[s].call)
  BY <1>d DEF Runs
<1>10. w.at = work[s].at /\ w.call = k /\ w.pc = "calling"
  BY <1>2 DEF g
<1>11. QED
  BY <1>7, <1>8, <1>9, <1>10, <1>c

\* The handler of s ends entry e, number n, with answer a.
Closes(s, n, e, a) ==
    /\ work'[s].pc = "idle"
    /\ log'[n].answer = IF Legacy(e.frame) THEN "silence" ELSE a
    /\ log'[n].arrived = e.arrived /\ log'[n].late = e.late

\* The frame is answered: a frame that stays silent has no id to remember.
LEMMA EndWrites ==
    ASSUME TypeInv, NEW s \in Sockets, WorkOK(s), NEW n, NEW e, Runs(s, n, e),
           NEW a \in {"ack", "failed", "refused"},
           Answer(s, n, [e EXCEPT !.answer = IF Legacy(e.frame) THEN "silence" ELSE a])
    PROVE  RanOn(s, n) /\ Closes(s, n, e, a)
<1>1. PICK b \in {"silence", "ack", "failed", "refused"} :
        b = IF Legacy(e.frame) THEN "silence" ELSE a
  OBVIOUS
<1> DEFINE d == [e EXCEPT !.answer = b]
<1>2. e \in Entry
  BY DEF Runs
<1>3. /\ d \in Entry /\ d.by = e.by /\ d.answer = b /\ d.from = e.from /\ d.kept = e.kept
      /\ d.frame = e.frame /\ d.paid = e.paid /\ d.arrived = e.arrived /\ d.late = e.late
  BY <1>2 DEF Entry
<1>4. Answer(s, n, d)
  BY <1>1
<1> HIDE DEF d
<1>5. Ready(s, n, d)
  BY <1>3, ReadyRun DEF Runs
<1>6. b = "silence" => e.frame.id = None
  BY <1>1 DEF Legacy
<1>h. /\ d.answer # "none"
      /\ d.answer = "silence" => d.frame.kind = "agent_event" \/ d.frame.id = None
  BY <1>3, <1>6
<1>7. Writes(s, n) /\ work'[s].pc = "idle" /\ log'[n] = [d EXCEPT !.kept = Remembers(d)]
  BY <1>4, <1>5, <1>h, AnswerWrites
<1>8. log'[n].answer = b /\ log'[n].arrived = e.arrived /\ log'[n].late = e.late
  BY <1>3, <1>7 DEF Entry
<1>9. RanOn(s, n)
  BY <1>7, <1>8 DEF RanOn, Runs
<1>10. QED
  BY <1>1, <1>7, <1>8, <1>9 DEF Closes

\* After a failed call the frame goes on or is answered.
LEMMA FailsWrites ==
    ASSUME TypeInv, NEW s \in Sockets, WorkOK(s), NEW n, NEW e, Runs(s, n, e),
           NEW a \in {"failed", "refused"}, FailsWith(s, n, e, a)
    PROVE  /\ RanOn(s, n) /\ UNCHANGED <<meter, known, spent>>
           /\ ~(MoreCalls(s) /\ ~Stops(e.frame)) => Closes(s, n, e, a)
<1>1. CASE /\ MoreCalls(s) /\ ~Stops(e.frame)
           /\ NextCall(s) /\ log' = Written(n, e) /\ UNCHANGED <<link, memory>>
  BY <1>1, NextCallWrites DEF FailsWith
<1>2. CASE Answer(s, n, [e EXCEPT !.answer = IF Legacy(e.frame) THEN "silence" ELSE a])
  BY <1>2, EndWrites DEF FailsWith
<1>3. QED
  BY <1>1, <1>2 DEF FailsWith

\* A frame that runs is the entry its socket runs.
LEMMA RunsItself ==
    ASSUME TypeInv, NEW s \in Sockets, WorkOK(s), work[s].pc # "idle",
           NEW n, n = work[s].at, NEW e, e = log[n]
    PROVE  Runs(s, n, e)
  BY Running DEF Runs

\* Every step of a frame that runs writes its entry and costs nothing.
LEMMA RunWrites ==
    ASSUME TypeInv, NEW s \in Sockets, WorkOK(s), NEW n, n = work[s].at,
           CarryOut(s) \/ Succeeds(s) \/ Fails(s) \/ CutOff(s) \/ PromptRefused(s)
    PROVE  /\ RanOn(s, n) /\ UNCHANGED <<meter, spent>>
           /\ known' \in [panes: SUBSET Hosts, sessions: SUBSET Hosts]
<1>1. work[s].pc # "idle"
  BY DEF CarryOut, Succeeds, Fails, CutOff, PromptRefused
<1>2. PICK r : r = log[n]
  OBVIOUS
<1>3. /\ n \in DOMAIN log /\ log \in Seq(Entry) /\ r \in Entry /\ r.by = s
      /\ r.answer = "none" /\ r.from = 0 /\ ~r.kept /\ r.frame.kind # "agent_event"
  BY <1>1, <1>2, Running
<1>4. Runs(s, n, r)
  BY <1>1, <1>2, RunsItself
<1>5. known \in [panes: SUBSET Hosts, sessions: SUBSET Hosts] /\ work[s] \in Work
  BY DEF TypeInv, Work
<1>6. CASE CarryOut(s)
  <2>1. PICK c \in Nat : c = work[s].call
    BY <1>5 DEF Work
  <2>b. r.arrived \in Seq(Nat)
    BY <1>3 DEF Entry
  <2>c. r.arrived \o KeyRun(r.frame, c) \in Seq(Nat)
    <3>1. KeyRun(r.frame, c) \in Seq(Nat)
      BY <1>3, KeyRunFacts DEF Entry
    <3>2. QED
      BY <2>b, <3>1, ConcatProperties
  <2>a. PICK q \in Seq(Nat) : q = r.arrived \o KeyRun(r.frame, c)
    BY <2>c
  <2> DEFINE g == [r EXCEPT !.arrived = q]
  <2>2. /\ g \in Entry /\ g.by = r.by /\ g.answer = r.answer /\ g.from = r.from
        /\ g.kept = r.kept /\ g.frame = r.frame /\ g.paid = r.paid
    BY <1>3 DEF Entry
  <2>3. log' = [log EXCEPT ![n] = g]
    BY <1>2, <1>6, <2>1, <2>a DEF CarryOut
  <2>4. PICK w \in Work : w = [work[s] EXCEPT !.pc = "landed"]
    BY <1>5 DEF Work
  <2> HIDE DEF g
  <2>9. g.answer = "none" /\ g.from = 0 /\ g.frame.kind # "agent_event"
    BY <1>3, <2>2
  <2>5. Goes(s, w, n, g)
    BY <1>5, <1>6, <2>4, <2>9 DEF CarryOut, Work, Goes
  <2>6. Connected /\ memory' = memory /\ UNCHANGED <<meter, known, spent>>
    BY <1>6 DEF Connected, TypeInv, CarryOut, socket
  <2>7. log' = Written(n, g)
    BY <1>3, <2>2, <2>3, ExceptIsWritten
  <2>8. Ready(s, n, g)
    BY <1>1, <1>2, <1>3, <2>2, ReadyRun
  <2>10. Writes(s, n) /\ log'[n] = g /\ work'[s] = w
    BY <2>5, <2>6, <2>7, <2>8, <2>9, PendingWrites
  <2>11. RanOn(s, n)
    BY <1>1, <2>9, <2>10 DEF RanOn
  <2>12. QED
    BY <1>5, <2>6, <2>11
<1>7. CASE Succeeds(s)
  <2>1. /\ known' = [known EXCEPT !.sessions = @ \ Ended(r)] /\ UNCHANGED <<meter, spent>>
        /\ \/ NextCall(s) /\ UNCHANGED <<link, memory, log>>
           \/ Answer(s, n, [r EXCEPT !.answer = IF Legacy(r.frame) THEN "silence" ELSE "ack"])
    BY <1>2, <1>7 DEF Succeeds
  <2>2. known' \in [panes: SUBSET Hosts, sessions: SUBSET Hosts]
    BY <1>5, <2>1
  <2>3. log = Written(n, r)
    BY <1>2, <1>3, ExceptIsWritten
  <2>4. CASE NextCall(s) /\ UNCHANGED <<link, memory, log>>
    BY <1>4, <2>1, <2>2, <2>3, <2>4, NextCallWrites
  <2>5. CASE Answer(s, n, [r EXCEPT !.answer = IF Legacy(r.frame) THEN "silence" ELSE "ack"])
    BY <1>4, <2>1, <2>2, <2>5, EndWrites
  <2>6. QED
    BY <2>1, <2>4, <2>5
<1>8. CASE Fails(s)
  <2>1. FailsWith(s, n, r, "failed")
    BY <1>2, <1>8 DEF Fails
  <2>2. RanOn(s, n) /\ UNCHANGED <<meter, known, spent>>
    BY <1>4, <2>1, FailsWrites
  <2>3. QED
    BY <1>5, <2>2
<1>9. CASE CutOff(s)
  <2>1. PICK c \in Nat : c = work[s].call
    BY <1>5 DEF Work
  <2> DEFINE g == [r EXCEPT !.late = r.late \cup {c}]
  <2>2. /\ g \in Entry /\ g.by = r.by /\ g.answer = r.answer /\ g.from = r.from
        /\ g.kept = r.kept /\ g.frame = r.frame /\ g.paid = r.paid
    BY <1>3 DEF Entry
  <2>3. FailsWith(s, n, g, "failed")
    BY <1>2, <1>9, <2>1 DEF CutOff
  <2> HIDE DEF g
  <2>4. Runs(s, n, g)
    BY <1>4, <2>2 DEF Runs
  <2>5. RanOn(s, n) /\ UNCHANGED <<meter, known, spent>>
    BY <2>3, <2>4, FailsWrites
  <2>6. QED
    BY <1>5, <2>5
<1>10. CASE PromptRefused(s)
  <2>1. FailsWith(s, n, r, "refused")
    BY <1>2, <1>10 DEF PromptRefused
  <2>2. RanOn(s, n) /\ UNCHANGED <<meter, known, spent>>
    BY <1>4, <2>1, FailsWrites
  <2>3. QED
    BY <1>5, <2>2
<1>11. QED
  BY <1>6, <1>7, <1>8, <1>9, <1>10

-----------------------------------------------------------------------------
(* What is remembered.                                                      *)

\* Steps that write no answer: only what reached a pane may differ.
SameEntry(k) ==
    /\ log'[k].by = log[k].by /\ log'[k].frame = log[k].frame
    /\ log'[k].answer = log[k].answer /\ log'[k].paid = log[k].paid
    /\ log'[k].kept = log[k].kept /\ log'[k].from = log[k].from

\* A step that writes no answer: it leaves the memories, the handlers and what
\* the log says of the answers.
LeavesAnswers ==
    /\ UNCHANGED <<memory, work>> /\ Connected
    /\ log' \in Seq(Entry) /\ Len(log') <= MaxFrames /\ DOMAIN log' = DOMAIN log
    /\ \A k \in DOMAIN log : SameEntry(k)

\* A late call changes what reached the pane and nothing else of its entry.
LEMMA LateLeavesAnswers ==
    ASSUME TypeInv, NEW n \in DOMAIN log, LateArrives(n)
    PROVE  LeavesAnswers /\ UNCHANGED <<meter, known, spent>>
<1>1. PICK r \in Entry : r = log[n]
  BY DEF TypeInv
<1>2. PICK k \in r.late : log' = [log EXCEPT ![n] =
            [r EXCEPT !.arrived = @ \o KeyRun(r.frame, k), !.late = @ \ {k}]]
  BY <1>1 DEF LateArrives
<1>3. r.arrived \in Seq(Nat) /\ r.late \subseteq Nat
  BY DEF Entry
<1>a. KeyRun(r.frame, k) \in Seq(Nat)
  BY <1>3, KeyRunFacts DEF Entry
<1>b. PICK q \in Seq(Nat) : q = r.arrived \o KeyRun(r.frame, k)
  BY <1>3, <1>a, ConcatProperties
<1>4. r.late \ {k} \subseteq Nat
  BY <1>2, <1>3
<1> DEFINE g == [r EXCEPT !.arrived = q, !.late = r.late \ {k}]
<1>5. /\ g \in Entry /\ g.by = r.by /\ g.answer = r.answer /\ g.from = r.from
      /\ g.kept = r.kept /\ g.frame = r.frame /\ g.paid = r.paid
  BY <1>4 DEF Entry
<1>6. log' = [log EXCEPT ![n] = g]
  BY <1>1, <1>2, <1>b
<1> HIDE DEF g
<1>7. log' = Written(n, g) /\ n \in 1..(Len(log) + 1) /\ n # Len(log) + 1
  BY <1>5, <1>6, ExceptIsWritten DEF TypeInv
<1>8. /\ log' \in Seq(Entry) /\ Len(log') = Len(log) /\ DOMAIN log' = DOMAIN log
      /\ log'[n] = g /\ \A j \in DOMAIN log \ {n} : log'[j] = log[j]
  <2>0. log \in Seq(Entry)
    BY DEF TypeInv
  <2>1. DOMAIN log \cup {n} = DOMAIN log
    OBVIOUS
  <2>2. /\ Written(n, g) \in Seq(Entry) /\ Len(Written(n, g)) = Len(log)
        /\ DOMAIN Written(n, g) = DOMAIN log /\ Written(n, g)[n] = g
        /\ \A j \in DOMAIN log \ {n} : Written(n, g)[j] = log[j]
    BY <1>5, <1>7, <2>0, <2>1, WrittenLog
  <2>3. QED
    BY <1>7, <2>2
<1>9. \A j \in DOMAIN log : SameEntry(j)
  BY <1>1, <1>5, <1>8 DEF SameEntry
<1>10. Connected /\ UNCHANGED <<memory, work, meter, known, spent>>
  BY DEF LateArrives, socket, Connected, TypeInv
<1>11. QED
  BY <1>8, <1>9, <1>10 DEF LeavesAnswers, TypeInv

\* Memory r is memory q with answer n behind the rest, and holds the newest.
NewestKept(q, n, r) ==
    /\ r \in Seq(Nat) /\ Len(r) <= Capacity /\ Len(r) >= Len(q)
    /\ \A i, j \in 1..Len(r) : i < j => r[i] < r[j]
    /\ \A i \in 1..Len(r) : r[i] = n \/ \E j \in 1..Len(q) : r[i] = q[j]
    /\ \E i \in 1..Len(r) : r[i] = n
    /\ \A j \in 1..Len(q) :
          \/ \E i \in 1..Len(r) : r[i] = q[j]
          \/ Len(r) = Capacity /\ \A i \in 1..Len(r) : q[j] < r[i]
    /\ Len(q) = Capacity => \A k \in Nat :
          (\A j \in 1..Len(q) : k < q[j]) /\ k < n => \A i \in 1..Len(r) : k < r[i]

\* A memory with room takes an answer at its end.
LEMMA Appended ==
    ASSUME NEW q \in Seq(Nat), NEW n \in Nat, NEW r, r = Append(q, n)
    PROVE  /\ r \in Seq(Nat) /\ Len(r) = Len(q) + 1 /\ r[Len(r)] = n
           /\ \A j \in 1..Len(q) : j \in 1..Len(r) /\ r[j] = q[j]
           /\ \A i \in 1..Len(r) : i = Len(r) \/ (i \in 1..Len(q) /\ r[i] = q[i])
  OBVIOUS

\* A full one drops its first.
LEMMA Shifted ==
    ASSUME NEW q \in Seq(Nat), Len(q) >= 1, NEW n \in Nat, NEW r, r = Append(Tail(q), n)
    PROVE  /\ r \in Seq(Nat) /\ Len(r) = Len(q) /\ r[Len(q)] = n
           /\ \A i \in 1..(Len(q) - 1) : r[i] = q[i + 1]
           /\ \A i \in 1..Len(r) :
                i = Len(q) \/ (i \in 1..(Len(q) - 1) /\ i + 1 \in 1..Len(q) /\ r[i] = q[i + 1])
<1>1. Len(q) \in Nat /\ q # <<>>
  OBVIOUS
<1> DEFINE t == Tail(q)
<1>2. t \in Seq(Nat) /\ Len(t) = Len(q) - 1 /\ \A i \in 1..(Len(q) - 1) : t[i] = q[i + 1]
  BY <1>1, HeadTailProperties
<1>3. r = Append(t, n)
  OBVIOUS
<1> HIDE DEF t
<1>4. r \in Seq(Nat) /\ Len(r) = Len(t) + 1 /\ r[Len(r)] = n
        /\ \A j \in 1..Len(t) : r[j] = t[j]
  BY <1>2, <1>3, Appended
<1>5. PICK m \in Nat : m + 1 = Len(q) /\ m = Len(t) /\ m + 1 = Len(r)
  BY <1>1, <1>2, <1>4
<1>6. \A i \in 1..m : r[i] = q[i + 1]
  BY <1>2, <1>4, <1>5
<1>7. \A i \in 1..(m + 1) : i = m + 1 \/ (i \in 1..m /\ i + 1 \in 1..(m + 1))
  OBVIOUS
<1>8. m = Len(q) - 1 /\ Len(r) = Len(q)
  BY <1>1, <1>5
<1>9. \A i \in 1..(Len(q) - 1) : r[i] = q[i + 1]
  BY <1>6, <1>8
<1>10. \A i \in 1..Len(r) :
          i = Len(q) \/ (i \in 1..(Len(q) - 1) /\ i + 1 \in 1..Len(q) /\ r[i] = q[i + 1])
  <2> SUFFICES ASSUME NEW i \in 1..Len(r), i # Len(q)
               PROVE  i \in 1..(Len(q) - 1) /\ i + 1 \in 1..Len(q) /\ r[i] = q[i + 1]
    OBVIOUS
  <2>1. i \in 1..(m + 1) /\ i # m + 1
    BY <1>5, Zenon
  <2>2. i \in 1..m /\ i + 1 \in 1..(m + 1)
    BY <1>7, <2>1, Zenon
  <2>3. i \in 1..(Len(q) - 1) /\ i + 1 \in 1..Len(q)
    BY <1>5, <1>8, <2>2, Zenon
  <2>4. QED
    BY <1>9, <2>3, Zenon
<1>11. r[Len(q)] = n
  BY <1>4, <1>8
<1>12. QED
  BY <1>4, <1>8, <1>9, <1>10, <1>11, Zenon

\* What remembering answer n does to a memory that ends before it.
LEMMA KeepEffect ==
    ASSUME NEW s \in Sockets, NEW q \in Seq(Nat), q = memory[s], NEW n \in Nat,
           Len(q) <= Capacity, \A i \in 1..Len(q) : q[i] < n,
           \A i, j \in 1..Len(q) : i < j => q[i] < q[j],
           NEW r, r = Keep(s, n)
    PROVE  NewestKept(q, n, r)
<1>0. Capacity \in Nat \ {0} /\ Len(q) \in Nat
  BY ConstantsOK
<1>1. CASE Len(q) < Capacity
  <2>1. r = Append(q, n)
    BY <1>1 DEF Keep
  <2>2. r \in Seq(Nat) /\ Len(r) = Len(q) + 1 /\ r[Len(r)] = n
    BY <2>1, Appended
  <2>3. \A j \in 1..Len(q) : j \in 1..Len(r) /\ r[j] = q[j]
    BY <2>1, Appended
  <2>4. \A i \in 1..Len(r) : i = Len(r) \/ (i \in 1..Len(q) /\ r[i] = q[i])
    BY <2>1, Appended
  <2>5. \A i, j \in 1..Len(r) : i < j => r[i] < r[j]
    <3> SUFFICES ASSUME NEW i \in 1..Len(r), NEW j \in 1..Len(r), i < j PROVE r[i] < r[j]
      OBVIOUS
    <3>0. i # Len(r)
      BY <1>0, <2>2
    <3>1. i \in 1..Len(q) /\ r[i] = q[i]
      BY <2>4, <3>0
    <3>2. CASE j = Len(r)
      BY <2>2, <3>1, <3>2
    <3>3. CASE j # Len(r)
      BY <2>4, <3>1, <3>3
    <3>4. QED
      BY <3>2, <3>3
  <2>6. Len(r) <= Capacity /\ Len(r) \in 1..Len(r) /\ Len(q) # Capacity /\ Len(r) >= Len(q)
    BY <1>0, <1>1, <2>2
  <2>7. QED
    BY <2>1, <2>2, <2>3, <2>4, <2>5, <2>6 DEF NewestKept
<1>2. CASE ~(Len(q) < Capacity)
  <2>1. r = Append(Tail(q), n) /\ Len(q) = Capacity /\ Len(q) >= 1
    BY <1>0, <1>2 DEF Keep
  <2>3. /\ r \in Seq(Nat) /\ Len(r) = Len(q) /\ r[Len(q)] = n
        /\ \A i \in 1..(Len(q) - 1) : r[i] = q[i + 1]
    BY <2>1, Shifted
  <2>4. \A i \in 1..Len(r) :
           i = Len(q) \/ (i \in 1..(Len(q) - 1) /\ i + 1 \in 1..Len(q) /\ r[i] = q[i + 1])
    BY <2>1, Shifted
  <2>5. \A i, j \in 1..Len(r) : i < j => r[i] < r[j]
    <3> SUFFICES ASSUME NEW i \in 1..Len(r), NEW j \in 1..Len(r), i < j PROVE r[i] < r[j]
      OBVIOUS
    <3>0. i # Len(q)
      BY <1>0, <2>3
    <3>1. i \in 1..(Len(q) - 1) /\ i + 1 \in 1..Len(q) /\ r[i] = q[i + 1]
      BY <2>4, <3>0, Zenon
    <3>2. CASE j = Len(q)
      BY <2>3, <3>1, <3>2
    <3>3. CASE j # Len(q)
      BY <1>0, <2>4, <3>1, <3>3
    <3>4. QED
      BY <3>2, <3>3
  <2>6. \A i \in 1..Len(r) : q[1] < r[i]
    <3> SUFFICES ASSUME NEW i \in 1..Len(r) PROVE q[1] < r[i]
      OBVIOUS
    <3>1. 1 \in 1..Len(q)
      BY <1>0, <2>1
    <3>2. CASE i = Len(q)
      BY <2>3, <3>1, <3>2
    <3>3. CASE i # Len(q)
      <4>1. i + 1 \in 1..Len(q) /\ 1 < i + 1 /\ r[i] = q[i + 1]
        BY <2>4, <3>3
      <4>2. QED
        BY <3>1, <4>1
    <3>4. QED
      BY <3>2, <3>3
  <2>7. \A j \in 1..Len(q) : j = 1 \/ (j - 1 \in 1..Len(r) /\ r[j - 1] = q[j])
    <3> SUFFICES ASSUME NEW j \in 1..Len(q), j # 1
                 PROVE  j - 1 \in 1..Len(r) /\ r[j - 1] = q[j]
      OBVIOUS
    <3>1. j - 1 \in 1..(Len(q) - 1) /\ (j - 1) + 1 = j
      BY <1>0
    <3>2. r[j - 1] = q[(j - 1) + 1]
      BY <2>3, <3>1
    <3>3. QED
      BY <1>0, <2>3, <3>1, <3>2
  <2>8. \A i \in 1..Len(r) : r[i] = n \/ \E j \in 1..Len(q) : r[i] = q[j]
    BY <2>3, <2>4
  <2>9. \A k \in Nat : (\A j \in 1..Len(q) : k < q[j]) /\ k < n => \A i \in 1..Len(r) : k < r[i]
    BY <2>3, <2>4
  <2>10. Len(q) \in 1..Len(r) /\ Len(r) = Capacity /\ Len(r) >= Len(q)
    BY <1>0, <2>1, <2>3
  <2>11. \A j \in 1..Len(q) :
            \/ \E i \in 1..Len(r) : r[i] = q[j]
            \/ Len(r) = Capacity /\ \A i \in 1..Len(r) : q[j] < r[i]
    BY <2>6, <2>7, <2>10
  <2>12. QED
    BY <1>0, <2>1, <2>3, <2>5, <2>8, <2>9, <2>10, <2>11 DEF NewestKept
<1>3. QED
  BY <1>1, <1>2

-----------------------------------------------------------------------------
(* Both kinds of step keep the parts of the invariant.                      *)

\* A writing step adds its answer to what its socket has remembered, behind the
\* rest, and leaves the other sockets theirs.
LEMMA OwnAfter ==
    ASSUME TypeInv, NEW s \in Sockets, NEW n, Writes(s, n)
    PROVE  /\ \A t \in Sockets \ {s} : Own(t)' = Own(t)
           /\ Own(s)' = Own(s) \cup (IF log'[n].kept THEN {n} ELSE {})
           /\ n \in Nat /\ \A k \in Own(s) : k \in Nat /\ k < n
<1>1. n \in Nat /\ DOMAIN log \subseteq Nat
  BY DEF TypeInv, Writes
<1>2. \A k \in Own(s) : k \in DOMAIN log /\ k # n /\ k <= n
  BY DEF Own, Writes
<1>3. \A t \in Sockets \ {s} : Own(t)' = Own(t)
  <2> SUFFICES ASSUME NEW t \in Sockets \ {s}
               PROVE  \A k : k \in Own(t)' <=> k \in Own(t)
    OBVIOUS
  <2>1. ASSUME NEW k PROVE k \in Own(t)' <=> k \in Own(t)
    <3>1. CASE k = n
      <4>1. n \in Own(t) => n \in DOMAIN log /\ log[n].by = t /\ log[n].kept
        BY DEF Own
      <4>2. n \notin Own(t)
        BY <4>1 DEF Writes
      <4>3. n \notin Own(t)'
        BY DEF Own, Writes
      <4>4. QED
        BY <3>1, <4>2, <4>3
    <3>2. CASE k # n
      BY <3>2 DEF Own, Writes
    <3>3. QED
      BY <3>1, <3>2
  <2>2. QED
    BY <2>1
<1>4. Own(s)' = Own(s) \cup (IF log'[n].kept THEN {n} ELSE {})
  <2>1. ASSUME NEW k
        PROVE  k \in Own(s)' <=> k \in Own(s) \cup (IF log'[n].kept THEN {n} ELSE {})
    <3>1. CASE k = n
      <4>1. n \notin Own(s)
        BY <1>2
      <4>2. n \in Own(s)' <=> log'[n].kept
        BY DEF Own, Writes
      <4>3. QED
        BY <3>1, <4>1, <4>2
    <3>2. CASE k # n
      BY <3>2 DEF Own, Writes
    <3>3. QED
      BY <3>1, <3>2
  <2>2. QED
    BY <2>1
<1>5. QED
  BY <1>1, <1>2, <1>3, <1>4

\* The memory stays the newest of what the socket remembered, oldest first.
LEMMA MemoryKept ==
    ASSUME TypeInv, NEW s \in Sockets, NEW n, Writes(s, n), NEW t \in Sockets, MemoryOK(t)
    PROVE  MemoryOK(t)' /\ memory' \in [Sockets -> Seq(Nat)]
<1>1. /\ memory' = [memory EXCEPT ![s] = IF log'[n].kept THEN Keep(s, n) ELSE @]
      /\ memory \in [Sockets -> Seq(Nat)]
  BY DEF Writes, TypeInv
<1>2. /\ \A r \in Sockets \ {s} : Own(r)' = Own(r)
      /\ Own(s)' = Own(s) \cup (IF log'[n].kept THEN {n} ELSE {})
      /\ n \in Nat /\ \A k \in Own(s) : k \in Nat /\ k < n
  BY OwnAfter
<1>3. Keep(s, n) \in Seq(Nat)
  <2>2. memory[s] \in Seq(Nat) /\ Len(memory[s]) \in Nat
    BY <1>1
  <2>3. CASE Len(memory[s]) < Capacity
    BY <1>2, <2>2, <2>3 DEF Keep
  <2>4. CASE ~(Len(memory[s]) < Capacity)
    <3>1. Len(memory[s]) > 0
      BY <2>2, <2>4, ConstantsOK
    <3>2. Tail(memory[s]) \in Seq(Nat)
      BY <2>2, <3>1
    <3>3. QED
      BY <1>2, <2>4, <3>2 DEF Keep
  <2>5. QED
    BY <2>3, <2>4
<1>4. memory' \in [Sockets -> Seq(Nat)]
  BY <1>1, <1>3
<1>5. CASE t # s \/ ~log'[n].kept
  <2>1. memory'[t] = memory[t] /\ Own(t)' = Own(t)
    BY <1>1, <1>2, <1>5
  <2>2. QED
    BY <1>4, <2>1 DEF MemoryOK
<1>6. CASE t = s /\ log'[n].kept
  <2>1. PICK q \in Seq(Nat) : q = memory[s]
    BY <1>1
  <2>a. MemoryOK(s) /\ Len(q) \in Nat /\ Capacity \in Nat
    BY <1>6, ConstantsOK
  <2>b. Len(q) <= Capacity /\ \A i, j \in 1..Len(q) : i < j => q[i] < q[j]
    BY <2>1, <2>a DEF MemoryOK
  <2>2. /\ Len(q) <= Capacity /\ Len(q) \in Nat /\ Capacity \in Nat
        /\ \A i, j \in 1..Len(q) : i < j => q[i] < q[j]
        /\ \A i \in 1..Len(q) : q[i] \in Own(s)
        /\ \A k \in Own(s) : \/ \E i \in 1..Len(q) : q[i] = k
                             \/ Len(q) = Capacity /\ \A i \in 1..Len(q) : k < q[i]
    BY <2>1, <2>a, <2>b DEF MemoryOK
  <2>3. \A i \in 1..Len(q) : q[i] < n
    BY <1>2, <2>2
  <2>n. n \in Nat
    BY <1>2
  <2>r. PICK r : r = Keep(s, n)
    OBVIOUS
  <2>k. NewestKept(q, n, r)
    BY <2>n, <2>1, <2>b, <2>3, <2>r, KeepEffect
  <2>4. /\ r \in Seq(Nat) /\ Len(r) <= Capacity /\ Len(r) >= Len(q)
        /\ \A i, j \in 1..Len(r) : i < j => r[i] < r[j]
        /\ \A i \in 1..Len(r) : r[i] = n \/ \E j \in 1..Len(q) : r[i] = q[j]
        /\ \E i \in 1..Len(r) : r[i] = n
        /\ \A j \in 1..Len(q) :
              \/ \E i \in 1..Len(r) : r[i] = q[j]
              \/ Len(r) = Capacity /\ \A i \in 1..Len(r) : q[j] < r[i]
        /\ Len(q) = Capacity => \A k \in Nat :
              (\A j \in 1..Len(q) : k < q[j]) /\ k < n => \A i \in 1..Len(r) : k < r[i]
    BY <2>k DEF NewestKept
  <2>5. memory'[s] = r
    BY <1>1, <1>6, <2>r
  <2>6. Own(s)' = Own(s) \cup {n}
    BY <1>2, <1>6
  <2>7. \A i \in 1..Len(r) : r[i] \in Own(s)'
    BY <2>2, <2>4, <2>6
  <2>8. ASSUME NEW k \in Own(s)'
        PROVE  \/ \E i \in 1..Len(r) : r[i] = k
               \/ Len(r) = Capacity /\ \A i \in 1..Len(r) : k < r[i]
    <3>1. CASE k = n
      BY <2>4, <3>1
    <3>2. CASE \E j \in 1..Len(q) : q[j] = k
      BY <2>4, <3>2
    <3>3. CASE Len(q) = Capacity /\ (\A j \in 1..Len(q) : k < q[j]) /\ k \in Own(s)
      <4>1. k \in Nat /\ k < n
        BY <1>2, <3>3
      <4>2. \A i \in 1..Len(r) : k < r[i]
        BY <2>4, <3>3, <4>1
      <4>3. Len(r) = Capacity
        <5>1. Len(r) \in Nat
          BY <2>4
        <5>2. QED
          BY <2>2, <2>4, <3>3, <5>1
      <4>4. QED
        BY <4>2, <4>3
    <3>4. QED
      BY <2>2, <2>6, <3>1, <3>2, <3>3
  <2>9. QED
    BY <1>4, <1>6, <2>4, <2>5, <2>7, <2>8 DEF MemoryOK
<1>7. QED
  BY <1>5, <1>6

\* What a frame that runs relies on, after a step of its own socket or another.
LEMMA WorkKept ==
    ASSUME TypeInv, NEW s \in Sockets, NEW n, Writes(s, n), NEW t \in Sockets, WorkOK(t)
    PROVE  WorkOK(t)'
<1>1. CASE t = s
  <2>1. SUFFICES ASSUME work'[s].pc # "idle" PROVE WorkOK(s)'
    BY <1>1 DEF WorkOK
  <2>2. work'[s].at = n /\ n \in DOMAIN log' /\ link'[s] # "new"
    BY <2>1 DEF Writes, Connected
  <2>3. /\ log'[n].by = s /\ log'[n].answer = "none" /\ log'[n].from = 0
        /\ ~log'[n].kept /\ log'[n].frame.kind # "agent_event"
    BY <2>1 DEF Writes
  <2>4. \A k \in DOMAIN log' : log'[k].by = s => k <= n
    <3>1. n \in Nat
      BY DEF Writes, TypeInv
    <3>2. ASSUME NEW k \in DOMAIN log', log'[k].by = s PROVE k <= n
      <4>1. CASE k = n
        BY <3>1, <4>1
      <4>2. CASE k # n
        BY <3>2, <4>2 DEF Writes
      <4>3. QED
        BY <4>1, <4>2
    <3>3. QED
      BY <3>2
  <2>5. QED
    BY <2>2, <2>3, <2>4 DEF WorkOK
<1>2. CASE t # s
  <2>1. SUFFICES ASSUME work'[t].pc # "idle" PROVE WorkOK(t)'
    BY <1>2 DEF WorkOK
  <2>2. PICK a : a = work[t].at /\ work'[t] = work[t]
    BY <1>2 DEF Writes
  <2>3. /\ link[t] # "new" /\ a \in DOMAIN log /\ log[a].by = t /\ log[a].answer = "none"
        /\ log[a].from = 0 /\ ~log[a].kept /\ log[a].frame.kind # "agent_event"
        /\ \A k \in DOMAIN log : log[k].by = t => k <= a
    BY <2>1, <2>2 DEF WorkOK
  <2>4. a # n
    BY <1>2, <2>3 DEF Writes
  <2>5. log'[a] = log[a] /\ a \in DOMAIN log' /\ link'[t] # "new"
    BY <2>3, <2>4 DEF Writes, Connected
  <2>6. \A k \in DOMAIN log' : log'[k].by = t => k <= a
    BY <1>2, <2>3 DEF Writes
  <2>7. QED
    BY <2>2, <2>3, <2>5, <2>6 DEF WorkOK
<1>3. QED
  BY <1>1, <1>2

\* Every entry stays settled, and every repeated answer that of its first.
LEMMA EntriesKept ==
    ASSUME TypeInv, NEW s \in Sockets, NEW n, Writes(s, n), RepeatOK(n)',
           \A k \in DOMAIN log : KeptOK(k) /\ RepeatOK(k)
    PROVE  \A k \in DOMAIN log' : KeptOK(k)' /\ RepeatOK(k)'
<1> SUFFICES ASSUME NEW k \in DOMAIN log' PROVE KeptOK(k)' /\ RepeatOK(k)'
  OBVIOUS
<1>1. CASE k = n
  BY <1>1 DEF Writes
<1>2. CASE k # n
  <2>1. k \in DOMAIN log /\ log'[k] = log[k]
    BY <1>2 DEF Writes
  <2>2. KeptOK(k)'
    BY <2>1 DEF KeptOK
  <2>3. SUFFICES ASSUME log[k].from # 0 PROVE RepeatOK(k)'
    BY <2>1, <2>2 DEF RepeatOK
  <2>4. PICK m : m = log[k].from
    OBVIOUS
  <2>5. /\ m \in DOMAIN log /\ log[m].kept /\ log[m].by = log[k].by
        /\ log[m].frame = log[k].frame /\ log[m].answer = log[k].answer
    BY <2>1, <2>3, <2>4 DEF RepeatOK
  <2>6. m # n
    BY <2>5 DEF Writes
  <2>7. log'[m] = log[m] /\ m \in DOMAIN log'
    BY <2>5, <2>6 DEF Writes
  <2>8. QED
    BY <2>1, <2>2, <2>4, <2>5, <2>7 DEF RepeatOK
<1>3. QED
  BY <1>1, <1>2

\* The answers of m's socket that were remembered between entries m and k.
Between(m, k) == {j \in (m + 1)..(k - 1) : log[j].by = log[m].by /\ log[j].kept}

\* They are finitely many.
LEMMA BetweenIsFinite ==
    ASSUME TypeInv, NEW m \in DOMAIN log, NEW k \in DOMAIN log
    PROVE  /\ IsFiniteSet(Between(m, k)) /\ Cardinality(Between(m, k)) \in Nat
           /\ Between(m, k) \subseteq DOMAIN log
<1>1. m \in Nat /\ k \in Nat /\ m >= 1 /\ k <= Len(log) /\ Len(log) \in Nat
  BY DEF TypeInv
<1>2. IsFiniteSet((m + 1)..(k - 1))
  BY <1>1, FS_Interval
<1>3. Between(m, k) \in SUBSET ((m + 1)..(k - 1))
  BY DEF Between
<1>4. IsFiniteSet(Between(m, k))
  BY <1>2, <1>3, FS_Subset
<1>5. (m + 1)..(k - 1) \subseteq DOMAIN log
  BY <1>1 DEF TypeInv
<1>6. QED
  BY <1>3, <1>4, <1>5, FS_CardinalityType

\* A memory whose entries all lie in a finite set is no longer than that set.
LEMMA MemoryFits ==
    ASSUME NEW q \in Seq(Nat), \A i, j \in 1..Len(q) : i < j => q[i] < q[j],
           NEW S, IsFiniteSet(S), \A i \in 1..Len(q) : q[i] \in S
    PROVE  Len(q) <= Cardinality(S)
<1> DEFINE f == [i \in 1..Len(q) |-> q[i]]
<1>1. Len(q) \in Nat /\ \A i \in 1..Len(q) : q[i] \in Nat
  OBVIOUS
<1>2. \A i, j \in 1..Len(q) : q[i] = q[j] => i = j
  BY <1>1
<1>3. f \in Injection(1..Len(q), S)
  BY <1>2 DEF Injection, IsInjective
<1>4. Cardinality(1..Len(q)) <= Cardinality(S)
  BY <1>3, FS_Injection
<1>5. Cardinality(1..Len(q)) = Len(q)
  <2>1. 1 \in Int /\ Len(q) \in Int
    BY <1>1
  <2>2. Cardinality(1..Len(q)) = IF 1 > Len(q) THEN 0 ELSE Len(q) - 1 + 1
    BY <2>1, FS_Interval
  <2>3. QED
    BY <1>1, <2>2
<1>6. QED
  BY <1>4, <1>5

\* The premise of RunsAgainOnlyWhenForgotten.
RunsAgain(m, k) == /\ m < k /\ log[k].paid /\ log[m].kept
                   /\ log[m].by = log[k].by /\ log[m].frame.id = log[k].frame.id

\* A frame runs again only when its first answer was pushed out: what the
\* memory holds then was all remembered after that answer.
LEMMA ForgottenKept ==
    ASSUME TypeInv, NEW s \in Sockets, NEW n, Writes(s, n), MemoryOK(s),
           n \notin DOMAIN log /\ log'[n].paid => Remembered(s, log'[n].frame.id) = {},
           \A k \in DOMAIN log : KeptOK(k),
           RunsAgainOnlyWhenForgotten
    PROVE  RunsAgainOnlyWhenForgotten'
<1>1. SUFFICES ASSUME NEW k \in DOMAIN log', NEW m \in DOMAIN log', RunsAgain(m, k)'
               PROVE  Cardinality(Between(m, k)') >= Capacity
  BY <1>1 DEF RunsAgainOnlyWhenForgotten, RunsAgain, Between
<1>2. /\ m < k /\ log'[k].paid /\ log'[m].kept
      /\ log'[m].by = log'[k].by /\ log'[m].frame.id = log'[k].frame.id
  BY <1>1 DEF RunsAgain
<1>0. /\ n \in Nat /\ m \in Nat /\ k \in Nat
      /\ DOMAIN log = 1..Len(log) /\ Len(log) \in Nat /\ n <= Len(log) + 1
  BY DEF TypeInv, Writes
<1>3. IsFiniteSet(Between(m, k)') /\ Cardinality(Between(m, k)') \in Nat /\ Capacity \in Nat
  <2>1. IsFiniteSet((m + 1)..(k - 1))
    BY <1>0, FS_Interval
  <2>2. Between(m, k)' \in SUBSET ((m + 1)..(k - 1))
    BY DEF Between
  <2>3. PICK S : S = Between(m, k)'
    OBVIOUS
  <2>4. IsFiniteSet(S)
    BY <2>1, <2>2, <2>3, FS_Subset
  <2>5. QED
    BY <2>3, <2>4, FS_CardinalityType, ConstantsOK
<1>5. m # n
  <2>1. ASSUME m = n PROVE FALSE
    <3>1. k \in DOMAIN log /\ k # n /\ log[k].by = s
      BY <1>2, <1>0, <2>1 DEF Writes
    <3>2. k <= n
      BY <3>1 DEF Writes
    <3>3. QED
      BY <1>2, <1>0, <2>1, <3>2
  <2>2. QED
    BY <2>1
<1>6. m \in DOMAIN log /\ log'[m] = log[m]
  BY <1>5 DEF Writes
<1>7. CASE n \notin DOMAIN log /\ k = n
  <2>1. log[m].by = s /\ m \in Own(s) /\ log[m].frame.id # None
    BY <1>2, <1>6, <1>7 DEF Writes, Own, KeptOK
  <2>2. PICK q \in Seq(Nat) : q = memory[s]
    BY DEF TypeInv
  <2>3. \A i \in 1..Len(q) : q[i] # m
    <3>1. ASSUME NEW i \in 1..Len(q), q[i] = m PROVE FALSE
      <4>1. m \in Range(memory[s])
        BY <2>2, <3>1 DEF Range
      <4>2. m \in Remembered(s, log'[n].frame.id)
        BY <1>2, <1>6, <1>7, <2>1, <4>1 DEF Remembered
      <4>3. QED
        BY <1>2, <1>7, <4>2
    <3>2. QED
      BY <3>1
  <2>4. Len(q) = Capacity /\ \A i \in 1..Len(q) : m < q[i]
    BY <2>1, <2>2, <2>3 DEF MemoryOK
  <2>5. \A i \in 1..Len(q) : q[i] \in Own(s) /\ q[i] \in Nat /\ q[i] < n
    BY <2>2, OwnAfter DEF MemoryOK
  <2>6. ASSUME NEW i \in 1..Len(q) PROVE q[i] \in Between(m, k)'
    <3>1. q[i] \in DOMAIN log /\ log[q[i]].by = s /\ log[q[i]].kept /\ q[i] # n
      BY <1>0, <2>5 DEF Own
    <3>2. log'[q[i]] = log[q[i]]
      BY <3>1 DEF Writes
    <3>3. q[i] \in (m + 1)..(k - 1)
      BY <1>0, <1>7, <2>4, <2>5
    <3>4. QED
      BY <1>6, <2>1, <3>1, <3>2, <3>3 DEF Between
  <2>7. \A i, j \in 1..Len(q) : i < j => q[i] < q[j]
    BY <2>2 DEF MemoryOK
  <2>8. PICK S : S = Between(m, k)'
    OBVIOUS
  <2>9. Len(q) <= Cardinality(S)
    BY <1>3, <2>6, <2>7, <2>8, MemoryFits
  <2>10. QED
    BY <1>3, <2>4, <2>8, <2>9
<1>8. CASE ~(n \notin DOMAIN log /\ k = n)
  <2>1. /\ k \in DOMAIN log /\ log'[k].paid = log[k].paid
        /\ log'[k].by = log[k].by /\ log'[k].frame = log[k].frame
    BY <1>8 DEF Writes
  <2>2. Cardinality(Between(m, k)) >= Capacity
    BY <1>2, <1>6, <2>1 DEF RunsAgainOnlyWhenForgotten, Between
  <2>3. ASSUME NEW j \in Between(m, k) PROVE j \in Between(m, k)'
    <3>1. j \in DOMAIN log /\ log[j].kept /\ log[j].by = log[m].by /\ j \in (m + 1)..(k - 1)
      BY <1>6, <2>1, BetweenIsFinite DEF Between
    <3>2. j # n
      BY <3>1 DEF Writes
    <3>3. log'[j] = log[j]
      BY <3>1, <3>2 DEF Writes
    <3>4. QED
      BY <1>6, <3>1, <3>3 DEF Between
  <2>4. Between(m, k) \in SUBSET (Between(m, k)')
    BY <2>3
  <2>5. PICK S, T : S = Between(m, k)' /\ T = Between(m, k)
    OBVIOUS
  <2>6. Cardinality(T) <= Cardinality(S) /\ Cardinality(T) \in Nat
    BY <1>3, <1>6, <2>1, <2>4, <2>5, FS_Subset, BetweenIsFinite
  <2>7. QED
    BY <1>3, <2>2, <2>5, <2>6
<1>9. QED
  BY <1>7, <1>8

\* A step that writes no answer keeps what the steps above keep.
LEMMA AnswersKept ==
    ASSUME TypeInv, LeavesAnswers,
           \A s \in Sockets : WorkOK(s) /\ MemoryOK(s),
           \A n \in DOMAIN log : KeptOK(n) /\ RepeatOK(n),
           RunsAgainOnlyWhenForgotten
    PROVE  /\ \A s \in Sockets : WorkOK(s)' /\ MemoryOK(s)'
           /\ \A n \in DOMAIN log' : KeptOK(n)' /\ RepeatOK(n)'
           /\ RunsAgainOnlyWhenForgotten'
<1>1. /\ memory' = memory /\ work' = work /\ Connected /\ DOMAIN log' = DOMAIN log
      /\ \A k \in DOMAIN log : SameEntry(k)
  BY DEF LeavesAnswers
<1>2. ASSUME NEW s \in Sockets PROVE WorkOK(s)'
  <2>1. SUFFICES ASSUME work'[s].pc # "idle" PROVE WorkOK(s)'
    BY DEF WorkOK
  <2>2. PICK a : a = work[s].at /\ work'[s].at = a
    BY <1>1
  <2>3. /\ link[s] # "new" /\ a \in DOMAIN log /\ log[a].by = s /\ log[a].answer = "none"
        /\ log[a].from = 0 /\ ~log[a].kept /\ log[a].frame.kind # "agent_event"
        /\ \A k \in DOMAIN log : log[k].by = s => k <= a
    BY <1>1, <2>1, <2>2 DEF WorkOK
  <2>4. SameEntry(a) /\ link'[s] # "new"
    BY <1>1, <2>3 DEF Connected
  <2>5. \A k \in DOMAIN log' : log'[k].by = s => k <= a
    BY <1>1, <2>3 DEF SameEntry
  <2>6. QED
    BY <1>1, <2>2, <2>3, <2>4, <2>5 DEF WorkOK, SameEntry
<1>3. ASSUME NEW s \in Sockets PROVE MemoryOK(s)'
  <2>1. Own(s)' = Own(s)
    BY <1>1 DEF Own, SameEntry
  <2>2. QED
    BY <1>1, <2>1 DEF MemoryOK
<1>4. ASSUME NEW n \in DOMAIN log' PROVE KeptOK(n)' /\ RepeatOK(n)'
  <2>1. n \in DOMAIN log /\ SameEntry(n)
    BY <1>1
  <2>2. KeptOK(n)'
    BY <2>1 DEF KeptOK, SameEntry
  <2>3. SUFFICES ASSUME log[n].from # 0 PROVE RepeatOK(n)'
    BY <2>1, <2>2 DEF RepeatOK, SameEntry
  <2>4. PICK m : m = log[n].from
    OBVIOUS
  <2>5. /\ m \in DOMAIN log /\ log[m].kept /\ log[m].by = log[n].by
        /\ log[m].frame = log[n].frame /\ log[m].answer = log[n].answer
    BY <2>1, <2>3, <2>4 DEF RepeatOK
  <2>6. SameEntry(m) /\ m \in DOMAIN log'
    BY <1>1, <2>5
  <2>7. QED
    BY <2>1, <2>2, <2>4, <2>5, <2>6 DEF RepeatOK, SameEntry
<1>5. RunsAgainOnlyWhenForgotten'
  <2>1. SUFFICES ASSUME NEW k \in DOMAIN log, NEW m \in DOMAIN log, RunsAgain(m, k)'
                 PROVE  Cardinality(Between(m, k)') >= Capacity
    BY <1>1, <2>1 DEF RunsAgainOnlyWhenForgotten, RunsAgain, Between
  <2>2. RunsAgain(m, k)
    BY <1>1, <2>1 DEF RunsAgain, SameEntry
  <2>3. Cardinality(Between(m, k)) >= Capacity
    BY <2>2 DEF RunsAgainOnlyWhenForgotten, RunsAgain, Between
  <2>4. \A j \in (m + 1)..(k - 1) : j \in DOMAIN log
    BY DEF TypeInv
  <2>5. Between(m, k)' = Between(m, k)
    BY <1>1, <2>4 DEF Between, SameEntry
  <2>6. QED
    BY <2>3, <2>5
<1>6. QED
  BY <1>2, <1>3, <1>4, <1>5

-----------------------------------------------------------------------------
(* The meter.                                                               *)

\* A full bucket is a number of ticks, and nothing only when it is turned off.
LEMMA FullBuckets ==
    ASSUME NEW b \in Buckets
    PROVE  /\ Burst[b] \in Nat /\ Full(b) \in Nat /\ (Full(b) = 0 <=> Burst[b] = 0)
           /\ Cost \in Nat /\ Cost > 0 /\ (Burst[b] # 0 => Full(b) >= Cost)
<1>1. PICK x \in Nat, y \in Nat : x = Burst[b] /\ y = Cost /\ y > 0
  BY ConstantsOK
<1>2. x * y \in Nat /\ (x = 0 => x * y = 0) /\ (x # 0 => x * y >= y)
  OBVIOUS
<1>3. QED
  BY <1>1, <1>2 DEF Full

\* What a bucket can pay is between nothing and a burst.
LEMMA CreditedBounds ==
    ASSUME NEW b \in Buckets, NEW m \in [tokens: Nat, age: Nat]
    PROVE  /\ Credited(m, b) \in Nat /\ Credited(m, b) <= Full(b)
           /\ m.tokens = Full(b) => Credited(m, b) = Full(b)
  BY FullBuckets DEF Credited

\* Paying changes one bucket: it then holds what it was worth, less the cost of
\* a command it admits.
LEMMA TakenMeter ==
    ASSUME TypeInv, NEW s \in Sockets, NEW b \in Buckets, meter' = Taken(s, b)
    PROVE  /\ meter' \in [Sockets -> [Buckets -> [tokens: Nat, age: Nat]]]
           /\ \A t \in Sockets, c \in Buckets : <<t, c>> # <<s, b>> => meter'[t][c] = meter[t][c]
           /\ Burst[b] = 0 => meter'[s][b] = meter[s][b]
           /\ Burst[b] # 0 =>
                 /\ meter'[s][b].age = 0 /\ meter'[s][b].tokens <= Full(b)
                 /\ meter'[s][b].tokens =
                       Credited(meter[s][b], b) - (IF Affords(s, b) THEN Cost ELSE 0)
<1>1. PICK m \in [tokens: Nat, age: Nat] : m = meter[s][b]
  BY DEF TypeInv
<1>2. CASE Burst[b] = 0
  BY <1>2 DEF Taken, TypeInv
<1>3. CASE Burst[b] # 0
  <2>1. PICK x \in Nat : x = Credited(m, b) - (IF Affords(s, b) THEN Cost ELSE 0)
    <3>1. Credited(m, b) \in Nat /\ Cost \in Nat
      BY CreditedBounds, FullBuckets
    <3>2. CASE Affords(s, b)
      <4>1. Credited(m, b) >= Cost
        BY <1>1, <1>3, <3>2 DEF Affords
      <4>2. Credited(m, b) - Cost \in Nat
        BY <3>1, <4>1
      <4>3. QED
        BY <3>2, <4>2
    <3>3. CASE ~Affords(s, b)
      BY <3>1, <3>3
    <3>4. QED
      BY <3>2, <3>3
  <2>2. x <= Full(b)
    BY <2>1, CreditedBounds, FullBuckets
  <2> DEFINE g == [tokens |-> x, age |-> 0]
  <2>3. meter' = [meter EXCEPT ![s][b] = g]
    BY <1>1, <1>3, <2>1 DEF Taken
  <2>4. g \in [tokens: Nat, age: Nat] /\ g.tokens = x /\ g.age = 0
    OBVIOUS
  <2> HIDE DEF g
  <2>5. /\ meter' \in [Sockets -> [Buckets -> [tokens: Nat, age: Nat]]]
        /\ meter'[s][b] = g
        /\ \A t \in Sockets, c \in Buckets : <<t, c>> # <<s, b>> => meter'[t][c] = meter[t][c]
    BY <2>3, <2>4 DEF TypeInv
  <2>6. QED
    BY <1>1, <1>3, <2>1, <2>2, <2>4, <2>5
<1>4. QED
  BY <1>2, <1>3

\* A command that is metered keeps every bucket within a burst.
LEMMA TakenKept ==
    ASSUME TypeInv, NEW s \in Sockets, NEW b \in Buckets, meter' = Taken(s, b),
           link[s] # "new", Connected, UNCHANGED spent,
           NEW t \in Sockets, NEW c \in Buckets, MeterOK(t, c)
    PROVE  MeterOK(t, c)'
<1>1. link'[t] = "new" => link[t] = "new"
  BY DEF Connected
<1>2. CASE <<t, c>> # <<s, b>> \/ Burst[b] = 0
  <2>1. meter'[t][c] = meter[t][c]
    BY <1>2, TakenMeter
  <2>2. QED
    BY <1>1, <2>1 DEF MeterOK, Full
<1>3. CASE t = s /\ c = b /\ Burst[b] # 0
  <2>1. meter'[s][b].age = 0 /\ meter'[s][b].tokens <= Full(b)
    BY <1>3, TakenMeter
  <2>2. link'[s] # "new"
    BY DEF Connected
  <2>3. 0 <= spent.ticks
    BY DEF TypeInv
  <2>4. QED
    BY <1>3, <2>1, <2>2, <2>3 DEF MeterOK, Full
<1>4. QED
  BY <1>2, <1>3

\* A tick ages the buckets of the sockets that are or were in use.
LEMMA TickKept ==
    ASSUME TypeInv, Tick, \A t \in Sockets, c \in Buckets : MeterOK(t, c)
    PROVE  /\ meter' \in [Sockets -> [Buckets -> [tokens: Nat, age: Nat]]]
           /\ \A t \in Sockets, c \in Buckets : MeterOK(t, c)'
           /\ spent' \in [ticks: 0..MaxTicks, polls: 0..MaxPolls]
<1>1. spent.ticks \in Nat /\ spent' = [spent EXCEPT !.ticks = spent.ticks + 1]
  BY DEF Tick, TypeInv
<1>2. spent' \in [ticks: 0..MaxTicks, polls: 0..MaxPolls] /\ spent'.ticks = spent.ticks + 1
  <2>1. PICK x \in 0..MaxTicks : x = spent.ticks + 1
    BY <1>1, ConstantsOK DEF Tick
  <2>2. spent \in [ticks: 0..MaxTicks, polls: 0..MaxPolls] /\ spent' = [spent EXCEPT !.ticks = x]
    BY <1>1, <2>1 DEF TypeInv
  <2>3. QED
    BY <2>1, <2>2
<1>3. ASSUME NEW t \in Sockets, NEW c \in Buckets
      PROVE  /\ meter'[t][c] = IF link[t] = "new" THEN meter[t][c]
                               ELSE [meter[t][c] EXCEPT !.age = @ + 1]
             /\ meter[t][c] \in [tokens: Nat, age: Nat]
  BY DEF Tick, TypeInv
<1>4. ASSUME NEW t \in Sockets, NEW c \in Buckets
      PROVE  meter'[t][c] \in [tokens: Nat, age: Nat] /\ MeterOK(t, c)'
  <2>1. PICK m \in [tokens: Nat, age: Nat] : m = meter[t][c]
    BY <1>3
  <2>2. /\ m.tokens <= Full(c) /\ m.age <= spent.ticks
        /\ link[t] = "new" => m.tokens = Full(c) /\ m.age = 0
    BY <2>1 DEF MeterOK
  <2>3. link' = link
    BY DEF Tick
  <2>4. CASE link[t] = "new"
    <3>1. meter'[t][c] = m
      BY <1>3, <2>1, <2>4
    <3>2. m.age <= spent.ticks + 1
      BY <1>1, <2>2
    <3>3. QED
      BY <1>2, <2>2, <2>3, <3>1, <3>2 DEF MeterOK, Full
  <2>5. CASE link[t] # "new"
    <3>1. meter'[t][c] = [m EXCEPT !.age = m.age + 1]
      BY <1>3, <2>1, <2>5
    <3>2. /\ meter'[t][c] \in [tokens: Nat, age: Nat]
          /\ meter'[t][c].tokens = m.tokens /\ meter'[t][c].age = m.age + 1
      BY <3>1
    <3>3. m.age + 1 <= spent.ticks + 1
      BY <1>1, <2>2
    <3>4. QED
      BY <1>2, <2>2, <2>3, <2>5, <3>2, <3>3 DEF MeterOK, Full
  <2>6. QED
    BY <2>4, <2>5
<1>5. meter' \in [Sockets -> [Buckets -> [tokens: Nat, age: Nat]]]
  <2>1. meter' = [t \in Sockets |-> [c \in Buckets |-> meter'[t][c]]]
    BY DEF Tick
  <2>2. QED
    BY <1>4, <2>1
<1>6. QED
  BY <1>2, <1>4, <1>5

-----------------------------------------------------------------------------
(* The invariant is inductive.                                              *)

\* What a step shows that writes entry n: where a repeated answer comes from,
\* and that a frame that runs anew is one the socket has forgotten.
Justified(s, n) ==
    /\ Writes(s, n) /\ RepeatOK(n)'
    /\ n \notin DOMAIN log /\ log'[n].paid => Remembered(s, log'[n].frame.id) = {}

\* A step that writes an entry keeps them.
LEMMA WritesKeep ==
    ASSUME TypeInv, LogInv, NEW s \in Sockets, NEW n, Justified(s, n)
    PROVE  LogInv'
<1>1. Writes(s, n)
  BY DEF Justified
<1>2. \A t \in Sockets : WorkOK(t)'
  BY <1>1, WorkKept DEF LogInv
<1>3. \A t \in Sockets : MemoryOK(t)'
  BY <1>1, MemoryKept DEF LogInv
<1>4. \A k \in DOMAIN log' : KeptOK(k)' /\ RepeatOK(k)'
  BY <1>1, EntriesKept DEF LogInv, Justified
<1>5. RunsAgainOnlyWhenForgotten'
  BY <1>1, ForgottenKept DEF LogInv, Justified
<1>6. QED
  BY <1>2, <1>3, <1>4, <1>5 DEF LogInv

\* Every frame that is taken is justified, and so is every frame that goes on.
LEMMA HandlerJustified ==
    ASSUME TypeInv, LogInv, NEW s \in Sockets, NEW f \in Frames,
           \/ Replay(s, f) \/ Limit(s, f) \/ Admit(s, f)
           \/ CarryOut(s) \/ Succeeds(s) \/ Fails(s) \/ CutOff(s) \/ PromptRefused(s)
    PROVE  \E n : Justified(s, n)
<1>1. PICK n : n = Len(log) + 1
  OBVIOUS
<1>2. MemoryOK(s) /\ WorkOK(s) /\ \A k \in DOMAIN log : KeptOK(k)
  BY DEF LogInv
<1>3. CASE Replay(s, f)
  <2>1. Writes(s, n) /\ RepeatOK(n)' /\ ~log'[n].paid
    BY <1>1, <1>2, <1>3, ReplayWrites DEF NewEntry
  <2>2. QED
    BY <2>1 DEF Justified
<1>4. CASE Limit(s, f)
  <2>1. Writes(s, n) /\ log'[n].from = 0 /\ ~log'[n].paid
    BY <1>1, <1>4, LimitWrites DEF NewEntry
  <2>2. RepeatOK(n)'
    BY <2>1 DEF RepeatOK
  <2>3. QED
    BY <2>1, <2>2 DEF Justified
<1>5. CASE Admit(s, f)
  <2>1. Writes(s, n) /\ log'[n].from = 0 /\ log'[n].frame = f
    BY <1>1, <1>5, AdmitWrites DEF NewEntry
  <2>2. RepeatOK(n)' /\ Remembered(s, f.id) = {}
    BY <1>5, <2>1 DEF RepeatOK, Admit
  <2>3. QED
    BY <2>1, <2>2 DEF Justified
<1>6. CASE CarryOut(s) \/ Succeeds(s) \/ Fails(s) \/ CutOff(s) \/ PromptRefused(s)
  <2>1. PICK a : a = work[s].at
    OBVIOUS
  <2>2. Writes(s, a) /\ work[s].pc # "idle"
    BY <1>2, <1>6, <2>1, RunWrites DEF RanOn
  <2>3. a \in DOMAIN log
    BY <1>2, <2>1, <2>2 DEF WorkOK
  <2>4. log'[a].from = 0
    BY <2>2, <2>3 DEF Writes
  <2>5. RepeatOK(a)'
    BY <2>4 DEF RepeatOK
  <2>6. QED
    BY <2>2, <2>3, <2>5 DEF Justified
<1>7. QED
  BY <1>3, <1>4, <1>5, <1>6

\* A meter nobody touches stays as it is.
LEMMA MeterRests ==
    ASSUME MeterInv, Connected, meter' = meter, spent'.ticks = spent.ticks
    PROVE  MeterInv'
<1>1. ASSUME NEW s \in Sockets, NEW b \in Buckets PROVE MeterOK(s, b)'
  BY DEF MeterInv, MeterOK, Connected, Full
<1>2. QED
  BY <1>1 DEF MeterInv

\* The handler keeps the meter in bounds, and the clock and the panes typed.
LEMMA HandlerMeter ==
    ASSUME TypeInv, LogInv, MeterInv, NEW s \in Sockets, NEW f \in Frames,
           \/ Replay(s, f) \/ Limit(s, f) \/ Admit(s, f)
           \/ CarryOut(s) \/ Succeeds(s) \/ Fails(s) \/ CutOff(s) \/ PromptRefused(s)
    PROVE  /\ MeterInv' /\ spent' = spent
           /\ known' \in [panes: SUBSET Hosts, sessions: SUBSET Hosts]
<1>1. PICK n : n = Len(log) + 1
  OBVIOUS
<1>2. MemoryOK(s) /\ WorkOK(s) /\ \A k \in DOMAIN log : KeptOK(k)
  BY DEF LogInv
<1>3. known \in [panes: SUBSET Hosts, sessions: SUBSET Hosts]
  BY DEF TypeInv
<1>4. ASSUME NEW b \in Buckets, meter' = Taken(s, b), Writes(s, n), UNCHANGED spent
      PROVE  MeterInv'
  <2>1. link[s] # "new" /\ Connected
    BY <1>4 DEF Writes
  <2>2. \A t \in Sockets, c \in Buckets : MeterOK(t, c)'
    BY <1>4, <2>1, TakenKept DEF MeterInv
  <2>3. meter' \in [Sockets -> [Buckets -> [tokens: Nat, age: Nat]]]
    BY <1>4, TakenMeter
  <2>4. QED
    BY <2>2, <2>3 DEF MeterInv
<1>5. BucketOf(f) # None => BucketOf(f) \in Buckets
  BY DEF BucketOf, Buckets
<1>6. CASE Replay(s, f)
  <2>1. Writes(s, n) /\ UNCHANGED <<meter, known, spent>>
    BY <1>1, <1>2, <1>6, ReplayWrites DEF NewEntry
  <2>2. QED
    BY <1>3, <2>1, MeterRests DEF Writes
<1>7. CASE Limit(s, f)
  <2>1. Writes(s, n) /\ UNCHANGED <<known, spent>>
    BY <1>1, <1>7, LimitWrites DEF NewEntry
  <2>2. BucketOf(f) \in Buckets /\ meter' = Taken(s, BucketOf(f))
    BY <1>5, <1>7 DEF Limit
  <2>3. QED
    BY <1>3, <1>4, <2>1, <2>2
<1>8. CASE Admit(s, f)
  <2>1. Writes(s, n) /\ UNCHANGED <<known, spent>>
    BY <1>1, <1>8, AdmitWrites DEF NewEntry
  <2>2. CASE BucketOf(f) = None
    <3>1. meter' = meter
      BY <1>8, <2>2 DEF Admit
    <3>2. QED
      BY <1>3, <2>1, <3>1, MeterRests DEF Writes
  <2>3. CASE BucketOf(f) # None
    <3>1. BucketOf(f) \in Buckets /\ meter' = Taken(s, BucketOf(f))
      BY <1>5, <1>8, <2>3 DEF Admit
    <3>2. QED
      BY <1>3, <1>4, <2>1, <3>1
  <2>4. QED
    BY <2>2, <2>3
<1>9. CASE CarryOut(s) \/ Succeeds(s) \/ Fails(s) \/ CutOff(s) \/ PromptRefused(s)
  <2>1. PICK a : a = work[s].at
    OBVIOUS
  <2>2. /\ Writes(s, a) /\ UNCHANGED <<meter, spent>>
        /\ known' \in [panes: SUBSET Hosts, sessions: SUBSET Hosts]
    BY <1>2, <1>9, <2>1, RunWrites DEF RanOn
  <2>3. QED
    BY <2>2, MeterRests DEF Writes
<1>10. QED
  BY <1>6, <1>7, <1>8, <1>9

\* The peer, the panes and late calls leave the log's answers and the meter.
LEMMA OutsideLeavesAnswers ==
    ASSUME TypeInv,
           \/ \E s \in Sockets : Connect(s) \/ Leave(s) \/ Finish(s)
           \/ \E n \in DOMAIN log : LateArrives(n)
           \/ \E H \in SUBSET Hosts : Polled(H)
           \/ \E h \in Hosts : Discovered(h)
           \/ Quiescent \/ UNCHANGED vars
    PROVE  /\ LeavesAnswers /\ UNCHANGED meter /\ spent'.ticks = spent.ticks
           /\ known' \in [panes: SUBSET Hosts, sessions: SUBSET Hosts]
           /\ spent' \in [ticks: 0..MaxTicks, polls: 0..MaxPolls]
<1>1. /\ link \in [Sockets -> {"new", "open", "gone", "closed"}]
      /\ log \in Seq(Entry) /\ Len(log) <= MaxFrames
      /\ known \in [panes: SUBSET Hosts, sessions: SUBSET Hosts]
      /\ spent \in [ticks: 0..MaxTicks, polls: 0..MaxPolls]
  BY DEF TypeInv
<1>2. ASSUME UNCHANGED <<memory, work, log>>, Connected PROVE LeavesAnswers
  BY <1>1, <1>2 DEF LeavesAnswers, SameEntry
<1>3. ASSUME NEW s \in Sockets, Connect(s) \/ Leave(s) \/ Finish(s)
      PROVE  LeavesAnswers /\ UNCHANGED <<meter, known, spent>>
  <2>1. UNCHANGED <<memory, work, log, meter, known, spent>>
    BY <1>3 DEF Connect, Leave, Finish
  <2>2. Connected
    BY <1>1, <1>3 DEF Connect, Leave, Finish, Connected
  <2>3. QED
    BY <1>2, <2>1, <2>2
<1>4. ASSUME NEW n \in DOMAIN log, LateArrives(n)
      PROVE  LeavesAnswers /\ UNCHANGED <<meter, known, spent>>
  BY <1>4, LateLeavesAnswers
<1>5. ASSUME Quiescent \/ UNCHANGED vars
      PROVE  LeavesAnswers /\ UNCHANGED <<meter, known, spent>>
  <2>1. UNCHANGED <<link, memory, work, log, meter, known, spent>>
    BY <1>5 DEF Quiescent, vars
  <2>2. Connected
    BY <1>1, <2>1 DEF Connected
  <2>3. QED
    BY <1>2, <2>1, <2>2
<1>6. ASSUME NEW H \in SUBSET Hosts, Polled(H)
      PROVE  /\ LeavesAnswers /\ UNCHANGED meter /\ spent'.ticks = spent.ticks
             /\ known' \in [panes: SUBSET Hosts, sessions: SUBSET Hosts]
             /\ spent' \in [ticks: 0..MaxTicks, polls: 0..MaxPolls]
  <2>1. UNCHANGED <<link, memory, work, log, meter>>
    BY <1>6 DEF Polled, socket
  <2>2. Connected
    BY <1>1, <2>1 DEF Connected
  <2>3. known' \in [panes: SUBSET Hosts, sessions: SUBSET Hosts]
    BY <1>6 DEF Polled
  <2>4. PICK x \in 0..MaxPolls : x = spent.polls + 1
    BY <1>1, <1>6, ConstantsOK DEF Polled
  <2>5. spent' = [spent EXCEPT !.polls = x]
    BY <1>6, <2>4 DEF Polled
  <2>6. spent'.ticks = spent.ticks /\ spent' \in [ticks: 0..MaxTicks, polls: 0..MaxPolls]
    BY <1>1, <2>4, <2>5
  <2>7. QED
    BY <1>2, <2>1, <2>2, <2>3, <2>6
<1>7. ASSUME NEW h \in Hosts, Discovered(h)
      PROVE  /\ LeavesAnswers /\ UNCHANGED meter /\ spent'.ticks = spent.ticks
             /\ known' \in [panes: SUBSET Hosts, sessions: SUBSET Hosts]
             /\ spent' \in [ticks: 0..MaxTicks, polls: 0..MaxPolls]
  <2>1. UNCHANGED <<link, memory, work, log, meter>>
    BY <1>7 DEF Discovered, socket
  <2>2. Connected
    BY <1>1, <2>1 DEF Connected
  <2>3. known' \in [panes: SUBSET Hosts, sessions: SUBSET Hosts]
    BY <1>1, <1>7 DEF Discovered
  <2>4. PICK x \in 0..MaxPolls : x = spent.polls + 1
    BY <1>1, <1>7, ConstantsOK DEF Discovered
  <2>5. spent' = [spent EXCEPT !.polls = x]
    BY <1>7, <2>4 DEF Discovered
  <2>6. spent'.ticks = spent.ticks /\ spent' \in [ticks: 0..MaxTicks, polls: 0..MaxPolls]
    BY <1>1, <2>4, <2>5
  <2>7. QED
    BY <1>2, <2>1, <2>2, <2>3, <2>6
<1>8. QED
  BY <1>1, <1>3, <1>4, <1>5, <1>6, <1>7

\* Every step keeps the invariant.
LEMMA ReplayStep ==
    ASSUME TypeInv, LogInv, MeterInv, [Next]_vars
    PROVE  TypeInv' /\ LogInv' /\ MeterInv'
<1>1. ASSUME NEW s \in Sockets, NEW f \in Frames,
             \/ Replay(s, f) \/ Limit(s, f) \/ Admit(s, f)
             \/ CarryOut(s) \/ Succeeds(s) \/ Fails(s) \/ CutOff(s) \/ PromptRefused(s)
      PROVE  TypeInv' /\ LogInv' /\ MeterInv'
  <2>1. PICK n : Justified(s, n)
    BY <1>1, HandlerJustified
  <2>2. LogInv'
    BY <2>1, WritesKeep
  <2>3. /\ MeterInv' /\ spent' = spent
        /\ known' \in [panes: SUBSET Hosts, sessions: SUBSET Hosts]
    BY <1>1, HandlerMeter
  <2>4. memory' \in [Sockets -> Seq(Nat)]
    BY <2>1, MemoryKept DEF Justified, LogInv
  <2>5. /\ link' \in [Sockets -> {"new", "open", "gone", "closed"}]
        /\ work' \in [Sockets -> [at: Nat, call: Nat, pc: {"idle", "calling", "landed"}]]
        /\ log' \in Seq(Entry) /\ Len(log') <= MaxFrames
    BY <2>1 DEF Justified, Writes, Connected
  <2>6. spent' \in [ticks: 0..MaxTicks, polls: 0..MaxPolls]
    BY <2>3 DEF TypeInv
  <2>7. meter' \in [Sockets -> [Buckets -> [tokens: Nat, age: Nat]]]
    BY <2>3 DEF MeterInv
  <2>8. TypeInv'
    BY <2>3, <2>4, <2>5, <2>6, <2>7 DEF TypeInv
  <2>9. QED
    BY <2>2, <2>3, <2>8
<1>2. ASSUME LeavesAnswers, MeterInv', known' \in [panes: SUBSET Hosts, sessions: SUBSET Hosts],
             spent' \in [ticks: 0..MaxTicks, polls: 0..MaxPolls]
      PROVE  TypeInv' /\ LogInv' /\ MeterInv'
  <2>1. LogInv'
    BY <1>2, AnswersKept DEF LogInv
  <2>2. /\ link' \in [Sockets -> {"new", "open", "gone", "closed"}]
        /\ log' \in Seq(Entry) /\ Len(log') <= MaxFrames
        /\ UNCHANGED <<memory, work>>
    BY <1>2 DEF LeavesAnswers, Connected
  <2>3. meter' \in [Sockets -> [Buckets -> [tokens: Nat, age: Nat]]]
    BY <1>2 DEF MeterInv
  <2>4. /\ memory' \in [Sockets -> Seq(Nat)]
        /\ work' \in [Sockets -> [at: Nat, call: Nat, pc: {"idle", "calling", "landed"}]]
    BY <2>2 DEF TypeInv
  <2>5. TypeInv'
    BY <1>2, <2>2, <2>3, <2>4 DEF TypeInv
  <2>6. QED
    BY <1>2, <2>1, <2>5
<1>3. CASE Tick
  <2>1. /\ meter' \in [Sockets -> [Buckets -> [tokens: Nat, age: Nat]]]
        /\ \A t \in Sockets, c \in Buckets : MeterOK(t, c)'
        /\ spent' \in [ticks: 0..MaxTicks, polls: 0..MaxPolls]
    BY <1>3, TickKept DEF MeterInv
  <2>2. UNCHANGED <<link, memory, work, log, known>>
    BY <1>3 DEF Tick
  <2>3. LeavesAnswers
    BY <2>2 DEF LeavesAnswers, Connected, SameEntry, TypeInv
  <2>4. known' \in [panes: SUBSET Hosts, sessions: SUBSET Hosts]
    BY <2>2 DEF TypeInv
  <2>5. MeterInv'
    BY <2>1 DEF MeterInv
  <2>6. QED
    BY <1>2, <2>1, <2>3, <2>4, <2>5
<1>4. CASE \/ \E s \in Sockets : Connect(s) \/ Leave(s) \/ Finish(s)
           \/ \E n \in DOMAIN log : LateArrives(n)
           \/ \E H \in SUBSET Hosts : Polled(H)
           \/ \E h \in Hosts : Discovered(h)
           \/ Quiescent \/ UNCHANGED vars
  <2>1. /\ LeavesAnswers /\ meter' = meter /\ spent'.ticks = spent.ticks
        /\ known' \in [panes: SUBSET Hosts, sessions: SUBSET Hosts]
        /\ spent' \in [ticks: 0..MaxTicks, polls: 0..MaxPolls]
    BY <1>4, OutsideLeavesAnswers
  <2>2. MeterInv'
    BY <2>1, MeterRests DEF LeavesAnswers
  <2>3. QED
    BY <1>2, <2>1, <2>2
<1>5. ASSUME NEW s \in Sockets,
             CarryOut(s) \/ Succeeds(s) \/ Fails(s) \/ CutOff(s) \/ PromptRefused(s)
      PROVE  Frames # {}
  <2>1. WorkOK(s) /\ work[s].pc # "idle"
    BY <1>5 DEF LogInv, CarryOut, Succeeds, Fails, CutOff, PromptRefused
  <2>2. work[s].at \in DOMAIN log /\ \A k \in DOMAIN log : log[k] \in Entry
    BY <2>1 DEF WorkOK, TypeInv
  <2>3. log[work[s].at].frame \in Frames
    BY <2>2 DEF Entry
  <2>4. QED
    BY <2>3
<1>6. CASE \E s \in Sockets :
             CarryOut(s) \/ Succeeds(s) \/ Fails(s) \/ CutOff(s) \/ PromptRefused(s)
  BY <1>1, <1>5, <1>6
<1>7. CASE \E s \in Sockets, f \in Frames : Replay(s, f) \/ Limit(s, f) \/ Admit(s, f)
  BY <1>1, <1>7
<1>8. QED
  BY <1>3, <1>4, <1>6, <1>7 DEF Next

-----------------------------------------------------------------------------
(* The theorems.                                                            *)

\* At the start nothing was taken, and every bucket is full.
LEMMA ReplayStart == ASSUME Init PROVE ReplayInv
<1>1. /\ link = [s \in Sockets |-> "new"] /\ memory = [s \in Sockets |-> <<>>]
      /\ meter = [s \in Sockets |-> [b \in Buckets |-> [tokens |-> Full(b), age |-> 0]]]
      /\ work = [s \in Sockets |-> Idle] /\ log = <<>>
      /\ spent = [ticks |-> 0, polls |-> 0]
  BY DEF Init
<1>2. known \in [panes: SUBSET Hosts, sessions: SUBSET Hosts]
  BY DEF Init
<1>3. \A b \in Buckets : [tokens |-> Full(b), age |-> 0] \in [tokens: Nat, age: Nat]
  BY FullBuckets
<1>4. meter \in [Sockets -> [Buckets -> [tokens: Nat, age: Nat]]]
  BY <1>1, <1>3
<1>5. MeterInv
  BY <1>1, <1>4, FullBuckets DEF MeterInv, MeterOK
<1>6. TypeInv
  <2>1. log \in Seq(Entry) /\ Len(log) <= MaxFrames
    BY <1>1, ConstantsOK
  <2>2. memory \in [Sockets -> Seq(Nat)]
    BY <1>1
  <2>3. work \in [Sockets -> [at: Nat, call: Nat, pc: {"idle", "calling", "landed"}]]
    BY <1>1 DEF Idle
  <2>4. spent \in [ticks: 0..MaxTicks, polls: 0..MaxPolls]
    BY <1>1, ConstantsOK
  <2>5. link \in [Sockets -> {"new", "open", "gone", "closed"}]
    BY <1>1
  <2>6. QED
    BY <1>2, <1>4, <2>1, <2>2, <2>3, <2>4, <2>5 DEF TypeInv
<1>7. LogInv
  <2>1. DOMAIN log = {}
    BY <1>1
  <2>2. ASSUME NEW s \in Sockets PROVE WorkOK(s) /\ MemoryOK(s)
    <3>1. work[s].pc = "idle" /\ memory[s] = <<>> /\ Own(s) = {}
      BY <1>1, <2>1 DEF Idle, Own
    <3>2. Len(memory[s]) = 0 /\ 1..Len(memory[s]) = {} /\ 0 <= Capacity
      BY <3>1, ConstantsOK
    <3>3. QED
      BY <3>1, <3>2 DEF WorkOK, MemoryOK
  <2>3. RunsAgainOnlyWhenForgotten
    BY <2>1 DEF RunsAgainOnlyWhenForgotten
  <2>4. QED
    BY <2>1, <2>2, <2>3 DEF LogInv
<1>8. QED
  BY <1>5, <1>6, <1>7 DEF ReplayInv

\* The invariant holds in every behaviour of the command loop.
THEOREM ReplayInvariant == Spec => []ReplayInv
<1>1. Init => ReplayInv
  BY ReplayStart
<1>2. ReplayInv /\ [Next]_vars => ReplayInv'
  BY ReplayStep DEF ReplayInv
<1>3. QED
  BY <1>1, <1>2, PTL DEF Spec

\* The variables of the command loop keep their types: no memory outgrows its
\* capacity and no bucket its burst.
THEOREM ReplayTyping == Spec => []TypeOK
<1>1. ASSUME ReplayInv PROVE TypeOK
  <2>1. TypeInv /\ LogInv /\ MeterInv
    BY <1>1 DEF ReplayInv
  <2>2. \A s \in Sockets : Len(memory[s]) <= Capacity
    BY <2>1 DEF LogInv, MemoryOK
  <2>3. ASSUME NEW s \in Sockets, NEW b \in Buckets
        PROVE  meter[s][b].tokens \in 0..Full(b) /\ meter[s][b].age \in 0..MaxTicks
    <3>1. meter[s][b] \in [tokens: Nat, age: Nat] /\ MeterOK(s, b)
      BY <2>1 DEF MeterInv
    <3>2. spent.ticks \in 0..MaxTicks
      BY <2>1 DEF TypeInv
    <3>3. QED
      BY <3>1, <3>2, FullBuckets, ConstantsOK DEF MeterOK
  <2>4. QED
    BY <2>1, <2>2, <2>3 DEF TypeInv, TypeOK
<1>2. QED
  BY <1>1, ReplayInvariant, PTL

\* A frame that names an id its socket has answered runs only if that answer
\* was not one to remember, or Capacity later answers pushed it out.
THEOREM RunsOnce == Spec => []RunsAgainOnlyWhenForgotten
<1>1. ReplayInv => RunsAgainOnlyWhenForgotten
  BY DEF ReplayInv, LogInv
<1>2. QED
  BY <1>1, ReplayInvariant, PTL

\* A repeated answer is the final one of the same frame of the same socket.
THEOREM RepeatsAreTrue == Spec => []RepeatsAreFaithful
<1>1. ASSUME ReplayInv PROVE RepeatsAreFaithful
  <2>1. SUFFICES ASSUME NEW n \in DOMAIN log, log[n].from # 0
                 PROVE  LET e == log[log[n].from] IN
                        /\ e.by = log[n].by /\ e.answer = log[n].answer
                        /\ e.frame = log[n].frame
                        /\ e.answer \in {"ack", "refused", "failed"}
                        /\ e.frame.kind = "create_tab" => e.answer # "failed"
    BY DEF RepeatsAreFaithful
  <2>2. PICK m : m = log[n].from
    OBVIOUS
  <2>3. /\ m \in DOMAIN log /\ log[m].kept /\ log[m].by = log[n].by
        /\ log[m].frame = log[n].frame /\ log[m].answer = log[n].answer
    BY <1>1, <2>1, <2>2 DEF ReplayInv, LogInv, RepeatOK
  <2>4. /\ log[m].answer \in {"ack", "refused", "failed"}
        /\ log[m].frame.kind = "create_tab" => log[m].answer # "failed"
    BY <1>1, <2>3 DEF ReplayInv, LogInv, KeptOK
  <2>5. QED
    BY <2>2, <2>3, <2>4
<1>2. QED
  BY <1>1, ReplayInvariant, PTL

-----------------------------------------------------------------------------
(* What of a frame reached the pane.                                        *)

\* How far socket s is with entry n: what it made of it is what it should.
Traced(s, n) == TraceOK(n) /\ CallsOK(s)

\* A frame no call of was made is traced, and so is its handler at its first call.
LEMMA UntouchedTraced ==
    ASSUME NEW s \in Sockets, NEW n, Writes(s, n), Untouched(n),
           log'[n].answer # "ack" \/ log'[n].from # 0,
           work'[s].pc # "idle" => work'[s].pc = "calling" /\ work'[s].call = 1
    PROVE  Traced(s, n)'
<1>a. log' \in Seq(Entry) /\ n \in DOMAIN log'
  BY DEF Writes
<1>b. log'[n] \in Entry
  BY <1>a
<1>1. PICK e \in Entry : e = log'[n]
  BY <1>b
<1>2. e.arrived = <<>> /\ e.late = {} /\ e.frame \in Frames
  BY <1>1 DEF Untouched, Entry
<1>3. PICK last \in Nat \ {0} : last = Len(e.frame.keys)
  BY <1>2, KeysOfFrame
<1>4. 0 \in 0..last /\ e.arrived = Keys(0)
  BY <1>2, <1>3, KeyRunFacts
<1>5. TraceOK(n)'
  BY <1>1, <1>2, <1>3, <1>4 DEF TraceOK
<1>6. CallsOK(s)'
  <2>1. SUFFICES ASSUME work'[s].pc # "idle" PROVE CallsOK(s)'
    BY DEF CallsOK
  <2>2. work'[s].at = n /\ work'[s].pc = "calling" /\ work'[s].call = 1
    BY <2>1 DEF Writes
  <2>3. log'[work'[s].at] = e
    BY <1>1, <2>2
  <2>4. 1 \in 1..last /\ 1 - 1 = 0
    BY <1>3
  <2>5. QED
    BY <1>2, <1>3, <1>4, <2>2, <2>3, <2>4 DEF CallsOK
<1>7. QED
  BY <1>5, <1>6 DEF Traced

\* A step that writes an entry keeps the others traced.
LEMMA WritesTrace ==
    ASSUME TypeInv, TraceInv, \A t \in Sockets : WorkOK(t),
           NEW s \in Sockets, NEW n, Writes(s, n), Traced(s, n)'
    PROVE  TraceInv'
<1>1. ASSUME NEW k \in DOMAIN log' PROVE TraceOK(k)'
  <2>1. CASE k = n
    BY <2>1 DEF Traced
  <2>2. CASE k # n
    <3>1. k \in DOMAIN log /\ log'[k] = log[k]
      BY <2>2 DEF Writes
    <3>2. QED
      BY <3>1 DEF TraceInv, TraceOK
  <2>3. QED
    BY <2>1, <2>2
<1>2. ASSUME NEW t \in Sockets PROVE CallsOK(t)'
  <2>1. CASE t = s
    BY <2>1 DEF Traced
  <2>2. CASE t # s
    <3>1. work'[t] = work[t]
      BY <2>2 DEF Writes
    <3>2. SUFFICES ASSUME work[t].pc # "idle" PROVE CallsOK(t)'
      BY <3>1 DEF CallsOK
    <3>3. PICK a : a = work[t].at
      OBVIOUS
    <3>4. a \in DOMAIN log /\ log[a].by = t
      BY <3>2, <3>3 DEF WorkOK
    <3>5. a # n
      BY <2>2, <3>4 DEF Writes
    <3>6. log'[a] = log[a]
      BY <3>4, <3>5 DEF Writes
    <3>7. QED
      BY <3>1, <3>3, <3>6 DEF TraceInv, CallsOK
  <2>3. QED
    BY <2>1, <2>2
<1>3. QED
  BY <1>1, <1>2 DEF TraceInv

\* Entry e runs, and its first c keys arrived; the call after them may be late.
Made(e, c, late) ==
    /\ e.answer = "none" /\ e.from = 0
    /\ ~Legacy(e.frame) => /\ c \in 0..Len(e.frame.keys)
                           /\ e.arrived = Keys(c) /\ e.late = late
                           /\ late = {} \/ (c < Len(e.frame.keys) /\ late = {c + 1})

\* An entry that is answered is traced when its calls fit the answer.
LEMMA EndTraced ==
    ASSUME NEW s \in Sockets, NEW n, NEW e, NEW c, NEW late, Made(e, c, late),
           log'[n].frame = e.frame, work'[s].pc = "idle",
           NEW a \in {"ack", "failed", "refused"},
           log'[n].answer = IF Legacy(e.frame) THEN "silence" ELSE a,
           log'[n].arrived = e.arrived, log'[n].late = e.late,
           a = "ack" => c = Len(e.frame.keys) /\ late = {},
           a = "refused" => c = 0 /\ late = {},
           log'[n].from = 0
    PROVE  Traced(s, n)'
<1>1. CallsOK(s)'
  BY DEF CallsOK
<1>2. CASE Legacy(e.frame)
  BY <1>1, <1>2 DEF Traced, TraceOK
<1>3. CASE ~Legacy(e.frame)
  <2>1. PICK last : last = Len(e.frame.keys)
    OBVIOUS
  <2>2. /\ c \in 0..last /\ e.arrived = Keys(c) /\ e.late = late
        /\ late = {} \/ (c < last /\ late = {c + 1})
    BY <1>3, <2>1 DEF Made
  <2>3. log'[n].answer = a
    BY <1>3
  <2>4. a = "refused" => e.arrived = <<>>
    BY <2>2, KeyRunFacts
  <2>5. TraceOK(n)'
    BY <2>1, <2>2, <2>3, <2>4 DEF TraceOK
  <2>6. QED
    BY <1>1, <2>5 DEF Traced
<1>4. QED
  BY <1>2, <1>3

\* An entry whose next call is made is traced when every key before arrived.
LEMMA NextTraced ==
    ASSUME NEW s \in Sockets, NEW n, NEW e, NEW c, Made(e, c, {}), log'[n] = e,
           work'[s].at = n, work'[s].pc # "idle",
           ~Legacy(e.frame) =>
               /\ work'[s].call \in 1..Len(e.frame.keys)
               /\ c = (IF work'[s].pc = "landed" THEN NextRun(e.frame, work'[s].call)
                       ELSE work'[s].call) - 1
               /\ e.frame.kind # "send_keys" => work'[s].call = 1
    PROVE  Traced(s, n)'
<1>1. PICK w : w = work'[s]
  OBVIOUS
<1>2. CASE Legacy(e.frame)
  BY <1>2 DEF Traced, TraceOK, CallsOK, Made
<1>3. CASE ~Legacy(e.frame)
  <2>1. PICK last : last = Len(e.frame.keys)
    OBVIOUS
  <2>2. /\ c \in 0..last /\ e.arrived = Keys(c) /\ e.late = {}
        /\ e.answer = "none" /\ e.from = 0
    BY <1>3, <2>1 DEF Made
  <2>3. TraceOK(n)'
    BY <2>1, <2>2 DEF TraceOK
  <2>4. log'[work'[s].at] = e
    OBVIOUS
  <2>5. CallsOK(s)'
    BY <1>3, <2>1, <2>2, <2>4 DEF CallsOK
  <2>6. QED
    BY <2>3, <2>5 DEF Traced
<1>4. QED
  BY <1>2, <1>3

\* What was made of the frame that runs, at each place of its handler.
LEMMA MadeSoFar ==
    ASSUME TypeInv, NEW s \in Sockets, WorkOK(s), CallsOK(s), work[s].pc # "idle",
           NEW n, n = work[s].at, NEW c \in Nat, c = work[s].call, NEW e, e = log[n],
           NEW d \in Nat, d = NextRun(e.frame, c)
    PROVE  /\ ~Legacy(e.frame) => /\ c \in 1..Len(e.frame.keys)
                                  /\ d \in (c + 1)..(Len(e.frame.keys) + 1)
                                  /\ e.frame.kind # "send_keys" => c = 1
           /\ work[s].pc = "landed" => Made(e, d - 1, {})
           /\ work[s].pc = "calling" => Made(e, c - 1, {})
           /\ work[s].pc \in {"calling", "landed"}
<1>1. e.answer = "none" /\ e.from = 0 /\ e.frame \in Frames
  BY Running DEF Entry
<1>2. work[s].pc \in {"calling", "landed"}
  BY DEF TypeInv
<1>3. CASE Legacy(e.frame)
  BY <1>1, <1>2, <1>3 DEF Made
<1>4. CASE ~Legacy(e.frame)
  <2>a. Len(e.frame.keys) \in Nat \ {0} /\ d <= Len(e.frame.keys) + 1
        /\ (c <= Len(e.frame.keys) => d > c)
    <3>1. PICK f \in Frames : f = e.frame
      BY <1>1
    <3>2. /\ Len(f.keys) \in Nat \ {0} /\ NextRun(f, c) <= Len(f.keys) + 1
          /\ c <= Len(f.keys) => NextRun(f, c) > c
      BY NextRunFacts
    <3>3. QED
      BY <3>1, <3>2
  <2>1. PICK last \in Nat \ {0} : last = Len(e.frame.keys)
    BY <2>a
  <2>2. /\ c \in 1..last /\ e.late = {}
        /\ e.frame.kind # "send_keys" => c = 1
        /\ e.arrived = Keys((IF work[s].pc = "landed" THEN d ELSE c) - 1)
    BY <1>4, <2>1 DEF CallsOK
  <2>3. d \in (c + 1)..(last + 1)
    BY <2>1, <2>2, <2>a
  <2>4. d - 1 \in 0..last /\ c - 1 \in 0..last
    <3>1. c \in 1..last
      BY <2>2
    <3>2. QED
      BY <2>3, <3>1
  <2>5. QED
    BY <1>1, <1>2, <2>1, <2>2, <2>3, <2>4 DEF Made
<1>5. QED
  BY <1>3, <1>4

\* Every step of a frame that runs leaves its entry and its handler traced.
LEMMA RunTraced ==
    ASSUME TypeInv, NEW s \in Sockets, WorkOK(s), CallsOK(s), NEW n, n = work[s].at,
           CarryOut(s) \/ Succeeds(s) \/ Fails(s) \/ CutOff(s) \/ PromptRefused(s)
    PROVE  Traced(s, n)'
<1>1. work[s].pc # "idle"
  BY DEF CarryOut, Succeeds, Fails, CutOff, PromptRefused
<1>2. PICK r : r = log[n]
  OBVIOUS
<1>3. /\ n \in DOMAIN log /\ log \in Seq(Entry) /\ r \in Entry /\ r.by = s
      /\ r.answer = "none" /\ r.from = 0 /\ ~r.kept /\ r.frame \in Frames
  <2>1. /\ n \in DOMAIN log /\ log \in Seq(Entry) /\ r \in Entry /\ r.by = s
        /\ r.answer = "none" /\ r.from = 0 /\ ~r.kept
    BY <1>1, <1>2, Running
  <2>2. QED
    BY <2>1, Entries
<1>4. Runs(s, n, r)
  BY <1>1, <1>2, RunsItself
<1>5. work[s] \in Work
  BY DEF TypeInv, Work
<1>6. PICK c \in Nat : c = work[s].call
  BY <1>5 DEF Work
<1>7. PICK last \in Nat \ {0} : last = Len(r.frame.keys)
  BY <1>3, KeysOfFrame
<1>a. PICK d \in Nat : d = NextRun(r.frame, c)
  BY <1>3, NextRunIsNumber
<1>8. /\ ~Legacy(r.frame) => /\ c \in 1..last /\ d \in (c + 1)..(last + 1)
                             /\ r.frame.kind # "send_keys" => c = 1
      /\ work[s].pc = "landed" => Made(r, d - 1, {})
      /\ work[s].pc = "calling" => Made(r, c - 1, {})
      /\ work[s].pc \in {"calling", "landed"}
  <2>1. /\ ~Legacy(r.frame) => /\ c \in 1..Len(r.frame.keys)
                               /\ d \in (c + 1)..(Len(r.frame.keys) + 1)
                               /\ r.frame.kind # "send_keys" => c = 1
        /\ work[s].pc = "landed" => Made(r, d - 1, {})
        /\ work[s].pc = "calling" => Made(r, c - 1, {})
        /\ work[s].pc \in {"calling", "landed"}
    BY <1>1, <1>2, <1>6, <1>a, MadeSoFar
  <2>2. QED
    BY <1>7, <2>1, Zenon
<1>9. log'[n].from = 0 /\ log'[n].frame = r.frame
  <2>1. Writes(s, n)
    BY RunWrites DEF RanOn
  <2>2. QED
    BY <1>2, <1>3, <2>1 DEF Writes
<1>10. MoreCalls(s) <=> d <= last
  BY <1>2, <1>6, <1>7, <1>a DEF MoreCalls
<1>11. CASE CarryOut(s)
  <2>1. log' = [log EXCEPT ![n] = [r EXCEPT !.arrived = r.arrived \o KeyRun(r.frame, c)]]
    BY <1>2, <1>6, <1>11 DEF CarryOut
  <2>2. work' = [work EXCEPT ![s].pc = "landed"] /\ work[s].pc = "calling"
    BY <1>11 DEF CarryOut
  <2>3. PICK e : e = [r EXCEPT !.arrived = r.arrived \o KeyRun(r.frame, c)]
    OBVIOUS
  <2>4. log'[n] = e
    BY <1>3, <2>1, <2>3
  <2>5. /\ e.frame = r.frame /\ e.answer = "none" /\ e.from = 0 /\ e.late = r.late
        /\ e.arrived = r.arrived \o KeyRun(r.frame, c)
    BY <1>3, <2>3 DEF Entry
  <2>6. Made(r, c - 1, {})
    BY <1>8, <2>2
  <2>7. Made(e, d - 1, {})
    <3>1. CASE Legacy(r.frame)
      BY <2>5, <3>1 DEF Made
    <3>2. CASE ~Legacy(r.frame)
      <4>1. /\ c \in 1..last /\ d - 1 \in 0..last
            /\ r.arrived = Keys(c - 1) /\ r.late = {}
        BY <1>7, <1>8, <2>6, <3>2 DEF Made
      <4>2. e.arrived = Keys(d - 1)
        <5>1. c \in 1..Len(r.frame.keys) /\ e.arrived = Keys(c - 1) \o KeyRun(r.frame, c)
          BY <1>7, <2>5, <4>1
        <5>2. QED
          BY <1>3, <1>a, <5>1, KeyRunFacts
      <4>3. QED
        BY <1>7, <2>5, <4>1, <4>2 DEF Made
    <3>3. QED
      BY <3>1, <3>2
  <2>8. work'[s].at = n /\ work'[s].pc = "landed" /\ work'[s].call = c
    BY <1>5, <1>6, <2>2 DEF TypeInv, Work
  <2>9. ~Legacy(e.frame) => /\ work'[s].call \in 1..Len(e.frame.keys)
                            /\ d = NextRun(e.frame, work'[s].call)
                            /\ e.frame.kind # "send_keys" => work'[s].call = 1
    BY <1>7, <1>8, <1>a, <2>5, <2>8
  <2>10. PICK b : b = d - 1
    OBVIOUS
  <2>11. QED
    BY <2>4, <2>7, <2>8, <2>9, <2>10, NextTraced
<1>12. ASSUME NEW e, NEW b, Runs(s, n, e), e.frame = r.frame, b = d - 1, d <= last,
              Made(e, b, {}), NextCall(s), log' = Written(n, e), UNCHANGED <<link, memory>>
       PROVE  Traced(s, n)'
  <2>1. /\ log'[n] = e /\ work'[s].at = n /\ work'[s].pc = "calling"
        /\ work'[s].call = d
    BY <1>6, <1>12, <1>a, NextCallWrites
  <2>2. ~Legacy(e.frame) => /\ d \in 1..last /\ d \in Nat
                            /\ e.frame.kind = "send_keys"
    <3>1. e.frame.kind # "send_keys" => d = last + 1
      BY <1>3, <1>7, <1>12, <1>a, NextRunFacts
    <3>2. QED
      BY <1>7, <1>8, <1>12, <3>1
  <2>3. QED
    BY <1>7, <1>12, <2>1, <2>2, NextTraced
<1>13. CASE Succeeds(s)
  <2>1. work[s].pc = "landed" /\ Made(r, d - 1, {})
    BY <1>8, <1>13 DEF Succeeds
  <2>2. CASE MoreCalls(s)
    <3>1. NextCall(s) /\ UNCHANGED <<link, memory, log>>
      BY <1>13, <2>2 DEF Succeeds
    <3>2. log' = Written(n, r) /\ d <= last
      BY <1>2, <1>3, <1>10, <2>2, <3>1, ExceptIsWritten
    <3>3. QED
      BY <1>4, <1>12, <2>1, <3>1, <3>2
  <2>3. CASE ~MoreCalls(s)
    <3>1. Answer(s, n, [r EXCEPT !.answer = IF Legacy(r.frame) THEN "silence" ELSE "ack"])
      BY <1>2, <1>13, <2>3 DEF Succeeds
    <3>2. /\ work'[s].pc = "idle"
          /\ log'[n].answer = IF Legacy(r.frame) THEN "silence" ELSE "ack"
          /\ log'[n].arrived = r.arrived /\ log'[n].late = r.late
      BY <1>4, <3>1, EndWrites DEF Closes
    <3>3. ~Legacy(r.frame) => d - 1 = last
      BY <1>7, <1>8, <1>10, <2>3
    <3>4. Made(r, last, {})
      BY <2>1, <3>3 DEF Made
    <3>5. QED
      BY <1>7, <1>9, <3>2, <3>4, EndTraced
  <2>4. QED
    BY <2>2, <2>3
<1>14. ASSUME NEW e, NEW b, NEW late, Runs(s, n, e), e.frame = r.frame, Made(e, b, late),
              NEW a \in {"failed", "refused"}, FailsWith(s, n, e, a),
              a = "refused" => b = 0 /\ late = {}
       PROVE  Traced(s, n)'
  <2>1. CASE MoreCalls(s) /\ ~Stops(e.frame)
    <3>1. NextCall(s) /\ log' = Written(n, e) /\ UNCHANGED <<link, memory>>
      BY <1>14, <2>1 DEF FailsWith
    <3>2. Made(e, d - 1, {})
      BY <1>14, <2>1 DEF Made, Stops
    <3>3. QED
      BY <1>10, <1>12, <1>14, <2>1, <3>1, <3>2
  <2>2. CASE ~(MoreCalls(s) /\ ~Stops(e.frame))
    <3>a. a \in {"ack", "failed", "refused"} /\ Runs(s, n, e)
      BY <1>14
    <3>2. Closes(s, n, e, a)
      BY <1>14, <2>2, FailsWrites
    <3>3. log'[n].from = 0 /\ log'[n].frame = e.frame
      BY <1>9, <1>14
    <3>4. QED
      BY <1>14, <3>2, <3>3, <3>a, EndTraced DEF Closes
  <2>3. QED
    BY <2>1, <2>2
<1>15. CASE Fails(s)
  <2>1. FailsWith(s, n, r, "failed")
    BY <1>2, <1>15 DEF Fails
  <2>2. CASE work[s].pc = "landed"
    BY <1>4, <1>8, <1>14, <2>1, <2>2
  <2>3. CASE work[s].pc = "calling"
    BY <1>4, <1>8, <1>14, <2>1, <2>3
  <2>4. QED
    BY <1>8, <2>2, <2>3
<1>16. CASE CutOff(s)
  <2>1. work[s].pc = "calling" /\ Made(r, c - 1, {})
    BY <1>8, <1>16 DEF CutOff
  <2> DEFINE e == [r EXCEPT !.late = r.late \cup {c}]
  <2>2. /\ e \in Entry /\ e.by = r.by /\ e.answer = r.answer /\ e.from = r.from
        /\ e.kept = r.kept /\ e.frame = r.frame /\ e.paid = r.paid
        /\ e.arrived = r.arrived /\ e.late = r.late \cup {c}
    BY <1>3 DEF Entry
  <2>3. FailsWith(s, n, e, "failed")
    BY <1>2, <1>6, <1>16 DEF CutOff
  <2> HIDE DEF e
  <2>4. Runs(s, n, e)
    BY <1>4, <2>2 DEF Runs
  <2>5. Made(e, c - 1, {c})
    <3>1. CASE Legacy(r.frame)
      BY <1>3, <2>2, <3>1 DEF Made
    <3>2. CASE ~Legacy(r.frame)
      <4>1. /\ c \in 1..last /\ c - 1 \in 0..last /\ c - 1 < last /\ (c - 1) + 1 = c
            /\ r.arrived = Keys(c - 1) /\ r.late = {}
        BY <1>8, <2>1, <3>2 DEF Made
      <4>2. QED
        BY <1>3, <1>7, <2>2, <4>1 DEF Made
    <3>3. QED
      BY <3>1, <3>2
  <2>6. QED
    BY <1>14, <2>2, <2>3, <2>4, <2>5
<1>17. CASE PromptRefused(s)
  <2>1. /\ work[s].pc = "calling" /\ r.frame.kind = "send_prompt"
        /\ FailsWith(s, n, r, "refused")
    BY <1>2, <1>17 DEF PromptRefused
  <2>2. ~Legacy(r.frame) /\ r.frame.kind # "send_keys"
    BY <2>1 DEF Legacy
  <2>4. c - 1 = 0
    BY <1>8, <2>2
  <2>5. Made(r, c - 1, {})
    BY <1>8, <2>1
  <2>6. QED
    BY <1>4, <1>14, <2>1, <2>4, <2>5
<1>18. QED
  BY <1>11, <1>13, <1>15, <1>16, <1>17

\* A call that was cut off is the next of its frame, or of a frame whose calls
\* nobody counts.
LEMMA LateTraced ==
    ASSUME TypeInv, TraceInv, \A t \in Sockets : WorkOK(t), NEW n \in DOMAIN log,
           LateArrives(n)
    PROVE  TraceInv'
<1>1. PICK e \in Entry : e = log[n]
  BY DEF TypeInv
<1>2. PICK k \in e.late :
        log' = [log EXCEPT ![n] = [e EXCEPT !.arrived = e.arrived \o KeyRun(e.frame, k),
                                            !.late = e.late \ {k}]]
  BY <1>1 DEF LateArrives
<1>3. PICK g : g = [e EXCEPT !.arrived = e.arrived \o KeyRun(e.frame, k), !.late = e.late \ {k}]
  OBVIOUS
<1>4. /\ g.frame = e.frame /\ g.answer = e.answer /\ g.from = e.from
      /\ g.arrived = e.arrived \o KeyRun(e.frame, k) /\ g.late = e.late \ {k}
  BY <1>3 DEF Entry
<1>5. log' = [log EXCEPT ![n] = g]
  BY <1>2, <1>3
<1>6. /\ log'[n] = g /\ DOMAIN log' = DOMAIN log /\ work' = work
      /\ \A m \in DOMAIN log \ {n} : log'[m] = log[m]
  BY <1>5 DEF LateArrives
<1>f. e.frame \in Frames
  BY Entries
<1>7. PICK last \in Nat \ {0} : last = Len(e.frame.keys)
  BY <1>f, KeysOfFrame
<1>8. /\ ~(e.answer \in {"refused", "limited", "reused"} \/ e.from # 0)
      /\ ~(e.answer = "ack" /\ e.from = 0)
      /\ ~Legacy(e.frame) => \E j \in 0..last :
             /\ e.arrived = Keys(j)
             /\ e.late = {} \/ (j < last /\ e.late = {j + 1})
  BY <1>1, <1>2, <1>7 DEF TraceInv, TraceOK
<1>9. TraceOK(n)'
  <2>1. CASE Legacy(e.frame)
    BY <1>4, <1>6, <1>8, <2>1 DEF TraceOK
  <2>2. CASE ~Legacy(e.frame)
    <3>1. PICK j \in 0..last : e.arrived = Keys(j) /\ j < last /\ e.late = {j + 1}
      BY <1>8, <2>2
    <3>2. k \in Nat /\ k \in 1..last /\ k - 1 = j
      BY <1>7, <3>1
    <3>3. PICK d \in Nat : d = NextRun(e.frame, k) /\ d > k /\ d <= last + 1
      BY <1>f, <1>7, <3>2, NextRunWithin
    <3>4. PICK i : i = d - 1
      OBVIOUS
    <3>5. i \in 0..last
      BY <1>7, <3>2, <3>3, <3>4
    <3>6. g.arrived = Keys(i) /\ g.late = {}
      <4>1. e.frame \in Frames /\ e.arrived = Keys(k - 1)
        BY <3>1, <3>2 DEF Entry
      <4>2. e.arrived \o KeyRun(e.frame, k) = Keys(i)
        BY <1>7, <3>2, <3>3, <3>4, <4>1, KeyRunFacts
      <4>3. QED
        BY <1>4, <3>1, <3>2, <4>2
    <3>7. QED
      BY <1>4, <1>6, <1>7, <1>8, <3>5, <3>6 DEF TraceOK
  <2>3. QED
    BY <2>1, <2>2
<1>10. \A m \in DOMAIN log' : TraceOK(m)'
  BY <1>6, <1>9 DEF TraceInv, TraceOK
<1>11. ASSUME NEW t \in Sockets PROVE CallsOK(t)'
  <2>1. SUFFICES ASSUME work[t].pc # "idle" PROVE CallsOK(t)'
    BY <1>6 DEF CallsOK
  <2>2. PICK a : a = work[t].at
    OBVIOUS
  <2>3. CASE a = n
    <3>1. Legacy(e.frame)
      BY <1>1, <1>2, <2>1, <2>2, <2>3 DEF TraceInv, CallsOK
    <3>2. log'[work'[t].at] = g
      BY <1>6, <2>2, <2>3
    <3>3. QED
      BY <1>4, <3>1, <3>2 DEF CallsOK
  <2>4. CASE a # n
    <3>1. a \in DOMAIN log
      BY <2>1, <2>2 DEF WorkOK
    <3>2. log'[a] = log[a] /\ CallsOK(t)
      BY <1>6, <2>4, <3>1 DEF TraceInv
    <3>3. QED
      BY <1>6, <2>2, <3>2 DEF CallsOK
  <2>5. QED
    BY <2>3, <2>4
<1>12. QED
  BY <1>10, <1>11 DEF TraceInv

\* What reached the pane stays what the answers say.
LEMMA TraceStep ==
    ASSUME ReplayInv, TraceInv, [Next]_vars
    PROVE  TraceInv'
<1>1. /\ TypeInv /\ \A s \in Sockets : WorkOK(s) /\ MemoryOK(s)
      /\ \A k \in DOMAIN log : KeptOK(k)
  BY DEF ReplayInv, LogInv
<1>2. ASSUME UNCHANGED <<log, work>> PROVE TraceInv'
  BY <1>2 DEF TraceInv, TraceOK, CallsOK
<1>3. ASSUME NEW s \in Sockets, NEW n, Writes(s, n), Traced(s, n)' PROVE TraceInv'
  BY <1>1, <1>3, WritesTrace
<1>4. PICK m : m = Len(log) + 1
  OBVIOUS
<1>5. ASSUME NEW s \in Sockets, NEW f \in Frames, Replay(s, f) PROVE TraceInv'
  <2>1. /\ Writes(s, m) /\ Untouched(m) /\ work'[s].pc = "idle"
        /\ log'[m].answer = "reused" \/ log'[m].from # 0
    BY <1>1, <1>4, <1>5, ReplayWrites DEF NewEntry
  <2>2. QED
    BY <1>3, <2>1, UntouchedTraced
<1>6. ASSUME NEW s \in Sockets, NEW f \in Frames, Limit(s, f) PROVE TraceInv'
  <2>1. /\ Writes(s, m) /\ Untouched(m) /\ work'[s].pc = "idle"
        /\ log'[m].answer = "limited"
    BY <1>1, <1>4, <1>6, LimitWrites DEF NewEntry
  <2>2. QED
    BY <1>3, <2>1, UntouchedTraced
<1>7. ASSUME NEW s \in Sockets, NEW f \in Frames, Admit(s, f) PROVE TraceInv'
  <2>1. /\ Writes(s, m) /\ Untouched(m) /\ log'[m].answer \in {"none", "refused", "silence"}
        /\ work'[s].pc # "idle" => work'[s].pc = "calling" /\ work'[s].call = 1
    BY <1>1, <1>4, <1>7, AdmitWrites DEF NewEntry
  <2>2. QED
    BY <1>3, <2>1, UntouchedTraced
<1>8. ASSUME NEW s \in Sockets,
             CarryOut(s) \/ Succeeds(s) \/ Fails(s) \/ CutOff(s) \/ PromptRefused(s)
      PROVE  TraceInv'
  <2>1. PICK a : a = work[s].at
    OBVIOUS
  <2>2. Writes(s, a) /\ CallsOK(s)
    BY <1>1, <1>8, <2>1, RunWrites DEF RanOn, TraceInv
  <2>3. Traced(s, a)'
    BY <1>1, <1>8, <2>1, <2>2, RunTraced
  <2>4. QED
    BY <1>3, <2>2, <2>3
<1>9. ASSUME NEW n \in DOMAIN log, LateArrives(n) PROVE TraceInv'
  BY <1>1, <1>9, LateTraced
<1>10. ASSUME NEW s \in Sockets, Connect(s) \/ Leave(s) \/ Finish(s) PROVE TraceInv'
  BY <1>2, <1>10 DEF Connect, Leave, Finish
<1>11. ASSUME NEW H \in SUBSET Hosts, Polled(H) PROVE TraceInv'
  BY <1>2, <1>11 DEF Polled
<1>12. ASSUME NEW h \in Hosts, Discovered(h) PROVE TraceInv'
  BY <1>2, <1>12 DEF Discovered
<1>13. ASSUME Tick \/ Quiescent \/ UNCHANGED vars PROVE TraceInv'
  BY <1>2, <1>13 DEF Tick, Quiescent, vars
<1>14. QED
  BY <1>5, <1>6, <1>7, <1>8, <1>9, <1>10, <1>11, <1>12, <1>13 DEF Next

\* An acknowledged frame reached its host whole, each key once and in the client's
\* order; one refused before or instead of its calls left no trace, then or later;
\* and of any frame that is answered no key arrives without the keys before it.
THEOREM AnswersTell == Spec => []AnswerTellsWhatArrived
<1>1. ASSUME TraceInv PROVE AnswerTellsWhatArrived
  BY <1>1 DEF TraceInv, TraceOK, AnswerTellsWhatArrived
<1>2. Init => TraceInv
  <2>1. SUFFICES ASSUME Init PROVE TraceInv
    OBVIOUS
  <2>2. DOMAIN log = {} /\ \A s \in Sockets : work[s].pc = "idle"
    BY <2>1 DEF Init, Idle
  <2>3. QED
    BY <2>2 DEF TraceInv, CallsOK
<1>3. ReplayInv /\ TraceInv /\ [Next]_vars => TraceInv'
  BY TraceStep
<1>4. QED
  BY <1>1, <1>2, <1>3, ReplayInvariant, PTL DEF Spec

-----------------------------------------------------------------------------
(* The meter is an allowance.                                               *)

\* What the refinement maps the buckets and the log to.
Level == [b \in Metered |-> Credited(meter[b[1]][b[2]], b[2])]

\* The entries a meter admitted, and those it turned away.
PaidBy(b) == {n \in DOMAIN log : OfMeter(b, log[n]) /\ log[n].paid}
TurnedBy(b) == {n \in DOMAIN log : OfMeter(b, log[n]) /\ log[n].answer = "limited"}

\* How many those are.
Admitted == [b \in Metered |-> Cardinality(PaidBy(b))]
Turned == [b \in Metered |-> Cardinality(TurnedBy(b))]

\* What a bucket holds when it is full, of every meter.
Most == [b \in Metered |-> Full(b[2])]

\* The counted entries are finitely many.
LEMMA CountsAreFinite ==
    ASSUME TypeInv, NEW b
    PROVE  /\ IsFiniteSet(PaidBy(b)) /\ Cardinality(PaidBy(b)) \in Nat
           /\ IsFiniteSet(TurnedBy(b)) /\ Cardinality(TurnedBy(b)) \in Nat
<1>1. IsFiniteSet(DOMAIN log)
  <2>1. DOMAIN log = 1..Len(log) /\ Len(log) \in Int /\ 1 \in Int
    BY DEF TypeInv
  <2>2. QED
    BY <2>1, FS_Interval
<1>2. PaidBy(b) \in SUBSET DOMAIN log /\ TurnedBy(b) \in SUBSET DOMAIN log
  BY DEF PaidBy, TurnedBy
<1>3. IsFiniteSet(PaidBy(b)) /\ IsFiniteSet(TurnedBy(b))
  BY <1>1, <1>2, FS_Subset
<1>4. QED
  BY <1>3, FS_CardinalityType

\* Steps that write no answer count nothing.
LEMMA TracesCount ==
    ASSUME LeavesAnswers, NEW b PROVE PaidBy(b)' = PaidBy(b) /\ TurnedBy(b)' = TurnedBy(b)
  BY DEF LeavesAnswers, SameEntry, PaidBy, TurnedBy, OfMeter

\* A frame that goes on was counted when it was taken.
LEMMA RunCount ==
    ASSUME TypeInv, NEW s \in Sockets, WorkOK(s), NEW n, RanOn(s, n), NEW b
    PROVE  PaidBy(b)' = PaidBy(b) /\ TurnedBy(b)' = TurnedBy(b)
<1>1. n \in DOMAIN log /\ log[n].answer = "none" /\ Writes(s, n)
  BY DEF RanOn, WorkOK
<1>2. /\ DOMAIN log' = DOMAIN log /\ log'[n].by = log[n].by /\ log'[n].frame = log[n].frame
      /\ log'[n].paid = log[n].paid /\ log'[n].answer # "limited"
      /\ \A k \in DOMAIN log \ {n} : log'[k] = log[k]
  BY <1>1 DEF Writes, RanOn
<1>3. ASSUME NEW k \in DOMAIN log
      PROVE  /\ OfMeter(b, log'[k]) <=> OfMeter(b, log[k])
             /\ log'[k].paid = log[k].paid
             /\ log'[k].answer = "limited" <=> log[k].answer = "limited"
  <2>1. CASE k = n
    BY <1>1, <1>2, <2>1 DEF OfMeter
  <2>2. CASE k # n
    BY <1>2, <2>2 DEF OfMeter
  <2>3. QED
    BY <2>1, <2>2
<1>4. QED
  BY <1>2, <1>3 DEF PaidBy, TurnedBy

\* A frame that is taken is counted once: for the bucket that let it through,
\* or turned it away, if it is metered.
LEMMA NewCount ==
    ASSUME TypeInv, NEW s \in Sockets, NEW n, NEW f, NewEntry(s, n, f), NEW b
    PROVE  /\ n \notin DOMAIN log
           /\ PaidBy(b)' = PaidBy(b) \cup
                (IF b[1] = s /\ b[2] = BucketOf(f) /\ log'[n].paid THEN {n} ELSE {})
           /\ TurnedBy(b)' = TurnedBy(b) \cup
                (IF b[1] = s /\ b[2] = BucketOf(f) /\ log'[n].answer = "limited" THEN {n} ELSE {})
<1>1. /\ n \notin DOMAIN log /\ DOMAIN log' = DOMAIN log \cup {n}
      /\ \A k \in DOMAIN log : log'[k] = log[k]
      /\ log'[n].by = s /\ log'[n].frame = f
  BY DEF NewEntry, Writes, TypeInv
<1>2. OfMeter(b, log'[n]) <=> b[1] = s /\ b[2] = BucketOf(f)
  BY <1>1 DEF OfMeter
<1>3. \A k \in DOMAIN log : OfMeter(b, log'[k]) <=> OfMeter(b, log[k])
  BY <1>1
<1>4. QED
  BY <1>1, <1>2, <1>3 DEF PaidBy, TurnedBy

\* A bucket pays, or turns away, at the level the allowance gives it.
LEMMA TakenLevel ==
    ASSUME TypeInv, NEW s \in Sockets, NEW b \in Buckets, meter' = Taken(s, b)
    PROVE  /\ <<s, b>> \in Metered /\ Level \in [Metered -> Nat]
           /\ Level[<<s, b>>] = Credited(meter[s][b], b)
           /\ Burst[b] = 0 => Level' = Level
           /\ Burst[b] # 0 => Level' = [Level EXCEPT ![<<s, b>>] =
                                  @ - (IF Affords(s, b) THEN Cost ELSE 0)]
<1> DEFINE c == <<s, b>>
<1>1. c \in Metered /\ c[1] = s /\ c[2] = b
  BY DEF Metered
<1>2. \A d \in Metered : /\ d[1] \in Sockets /\ d[2] \in Buckets /\ d = <<d[1], d[2]>>
                         /\ meter[d[1]][d[2]] \in [tokens: Nat, age: Nat]
                         /\ Level[d] = Credited(meter[d[1]][d[2]], d[2])
                         /\ Level'[d] = Credited(meter'[d[1]][d[2]], d[2])
  BY DEF Metered, Level, TypeInv
<1>3. Level \in [Metered -> Nat]
  BY <1>2, CreditedBounds DEF Level
<1>4. DOMAIN Level' = Metered /\ DOMAIN Level = Metered
      /\ Level' = [d \in Metered |-> Level'[d]] /\ Level = [d \in Metered |-> Level[d]]
  BY DEF Level
<1>5. \A d \in Metered \ {c} : Level'[d] = Level[d]
  <2>1. SUFFICES ASSUME NEW d \in Metered \ {c} PROVE Level'[d] = Level[d]
    OBVIOUS
  <2>2. meter'[d[1]][d[2]] = meter[d[1]][d[2]]
    BY <1>2, TakenMeter
  <2>3. QED
    BY <1>2, <2>2
<1>6. CASE Burst[b] = 0
  <2>1. meter'[s][b] = meter[s][b]
    BY <1>6, TakenMeter
  <2>2. Level'[c] = Level[c]
    BY <1>1, <1>2, <2>1
  <2>3. QED
    BY <1>1, <1>2, <1>3, <1>4, <1>5, <1>6, <2>2
<1>7. CASE Burst[b] # 0
  <2>1. /\ meter' \in [Sockets -> [Buckets -> [tokens: Nat, age: Nat]]]
        /\ meter'[s][b].age = 0 /\ meter'[s][b].tokens <= Full(b)
        /\ meter'[s][b].tokens =
              Credited(meter[s][b], b) - (IF Affords(s, b) THEN Cost ELSE 0)
    BY <1>7, TakenMeter
  <2>2. PICK m \in [tokens: Nat, age: Nat] : m = meter'[s][b]
    BY <2>1
  <2>a. m.tokens \in Nat /\ m.age = 0 /\ m.tokens <= Full(b) /\ Full(b) \in Nat
    BY <2>1, <2>2, FullBuckets
  <2>3. Credited(m, b) = m.tokens
    BY <2>a DEF Credited
  <2>4. Level'[c] = Level[c] - (IF Affords(s, b) THEN Cost ELSE 0)
    BY <1>1, <1>2, <2>1, <2>2, <2>3
  <2>5. QED
    BY <1>1, <1>2, <1>3, <1>4, <1>5, <1>7, <2>4
<1>8. QED
  BY <1>6, <1>7

\* At a tick every bucket is refilled, those nobody uses being full.
LEMMA TickLevel ==
    ASSUME TypeInv, MeterInv, Tick
    PROVE  Level' = [b \in Metered |-> IF Level[b] + 1 < Most[b] THEN Level[b] + 1 ELSE Most[b]]
<1>1. ASSUME NEW d \in Metered
      PROVE  Level'[d] = IF Level[d] + 1 < Most[d] THEN Level[d] + 1 ELSE Most[d]
  <2>1. /\ d[1] \in Sockets /\ d[2] \in Buckets
        /\ Level[d] = Credited(meter[d[1]][d[2]], d[2])
        /\ Level'[d] = Credited(meter'[d[1]][d[2]], d[2]) /\ Most[d] = Full(d[2])
    BY DEF Metered, Level, Most
  <2>2. PICK s \in Sockets, b \in Buckets : s = d[1] /\ b = d[2]
    BY <2>1
  <2>3. PICK m \in [tokens: Nat, age: Nat] : m = meter[s][b]
    BY DEF TypeInv
  <2>4. Full(b) \in Nat /\ m.tokens \in Nat /\ m.age \in Nat
    BY FullBuckets
  <2>5. CASE link[s] = "new"
    <3>1. meter'[s][b] = m /\ m.tokens = Full(b) /\ m.age = 0
      BY <2>3, <2>5 DEF Tick, MeterInv, MeterOK
    <3>2. Credited(m, b) = Full(b)
      BY <2>4, <3>1 DEF Credited
    <3>3. QED
      BY <2>1, <2>2, <2>3, <2>4, <3>1, <3>2
  <2>6. CASE link[s] # "new"
    <3>1. meter'[s][b] = [m EXCEPT !.age = m.age + 1]
      BY <2>3, <2>6 DEF Tick
    <3>2. meter'[s][b].tokens = m.tokens /\ meter'[s][b].age = m.age + 1
      BY <3>1
    <3>3. PICK g : g = meter'[s][b]
      OBVIOUS
    <3>4. Credited(g, b) = IF Credited(m, b) + 1 < Full(b) THEN Credited(m, b) + 1 ELSE Full(b)
      BY <2>4, <3>2, <3>3 DEF Credited
    <3>5. QED
      BY <2>1, <2>2, <2>3, <3>3, <3>4
  <2>7. QED
    BY <2>5, <2>6
<1>2. Level' = [d \in Metered |-> Level'[d]]
  BY DEF Level
<1>3. QED
  BY <1>1, <1>2

\* A metered frame that is let through pays, or is free in a bucket turned off.
LEMMA AdmitPays ==
    ASSUME ReplayInv, NEW s \in Sockets, NEW f \in Frames, Admit(s, f), BucketOf(f) # None
    PROVE  LET b == <<s, BucketOf(f)>> IN
           /\ b \in Metered /\ Turned' = Turned
           /\ Admitted' = [Admitted EXCEPT ![b] = @ + 1]
           /\ \/ Most[b] > 0 /\ Level[b] >= Cost /\ Level' = [Level EXCEPT ![b] = @ - Cost]
              \/ Most[b] = 0 /\ Level' = Level
<1>0. BucketOf(f) \in Buckets
  BY DEF BucketOf, Buckets
<1>a. PICK c \in Buckets : c = BucketOf(f)
  BY <1>0
<1>b. PICK n : n = Len(log) + 1
  OBVIOUS
<1>1. n = Len(log) + 1 /\ c = BucketOf(f)
  BY <1>a, <1>b
<1>2. /\ NewEntry(s, n, f) /\ log'[n].paid /\ log'[n].answer # "limited"
      /\ Affords(s, c) /\ meter' = Taken(s, c)
  BY <1>1, AdmitWrites DEF Admit, ReplayInv
<1> DEFINE b == <<s, c>>
<1>3. TypeInv
  BY DEF ReplayInv
<1>4. /\ b \in Metered /\ Level \in [Metered -> Nat]
      /\ Level[b] = Credited(meter[s][c], c)
      /\ Burst[c] = 0 => Level' = Level
      /\ Burst[c] # 0 => Level' = [Level EXCEPT ![b] = @ - (IF Affords(s, c) THEN Cost ELSE 0)]
  BY <1>2, <1>3, TakenLevel
<1>5. Most[b] = Full(c) /\ Full(c) \in Nat /\ (Full(c) = 0 <=> Burst[c] = 0)
  BY <1>4, FullBuckets DEF Most
<1>6. ASSUME NEW d \in Metered
      PROVE  /\ d = b => Cardinality(PaidBy(d)') = Cardinality(PaidBy(d)) + 1
             /\ d # b => Cardinality(PaidBy(d)') = Cardinality(PaidBy(d))
             /\ TurnedBy(d)' = TurnedBy(d)
  <2>1. d = b <=> d[1] = s /\ d[2] = c
    BY DEF Metered
  <2>2. /\ n \notin DOMAIN log
        /\ PaidBy(d)' = PaidBy(d) \cup
             (IF d[1] = s /\ d[2] = BucketOf(f) /\ log'[n].paid THEN {n} ELSE {})
        /\ TurnedBy(d)' = TurnedBy(d) \cup
             (IF d[1] = s /\ d[2] = BucketOf(f) /\ log'[n].answer = "limited" THEN {n} ELSE {})
    BY <1>2, <1>3, NewCount
  <2>3. /\ TurnedBy(d)' = TurnedBy(d)
        /\ d = b => PaidBy(d)' = PaidBy(d) \cup {n}
        /\ d # b => PaidBy(d)' = PaidBy(d)
    BY <1>1, <1>2, <2>1, <2>2
  <2>4. PICK S : S = PaidBy(d)
    OBVIOUS
  <2>5. IsFiniteSet(S) /\ Cardinality(S) \in Nat /\ n \notin S
    BY <1>3, <2>2, <2>4, CountsAreFinite DEF PaidBy
  <2>6. Cardinality(S \cup {n}) = Cardinality(S) + 1
    BY <2>5, FS_AddElement
  <2>7. QED
    BY <2>3, <2>4, <2>6
<1>7. Turned' = Turned
  BY <1>6 DEF Turned
<1>8. Admitted' = [Admitted EXCEPT ![b] = @ + 1]
  <2>1. \A d \in Metered : Cardinality(PaidBy(d)) \in Nat
    BY <1>3, CountsAreFinite
  <2>2. Admitted' = [d \in Metered |-> Cardinality(PaidBy(d)')]
    BY DEF Admitted
  <2>3. QED
    BY <1>4, <1>6, <2>1, <2>2 DEF Admitted
<1>9. CASE Burst[c] = 0
  BY <1>1, <1>4, <1>5, <1>7, <1>8, <1>9
<1>10. CASE Burst[c] # 0
  <2>1. Level[b] >= Cost
    BY <1>2, <1>4, <1>10 DEF Affords
  <2>2. Level' = [Level EXCEPT ![b] = @ - Cost]
    BY <1>2, <1>4, <1>10
  <2>3. QED
    BY <1>1, <1>4, <1>5, <1>7, <1>8, <1>10, <2>1, <2>2
<1>11. QED
  BY <1>9, <1>10

\* A frame is turned away only by a bucket that cannot pay, and pays nothing.
LEMMA LimitRefuses ==
    ASSUME ReplayInv, NEW s \in Sockets, NEW f \in Frames, Limit(s, f)
    PROVE  LET b == <<s, BucketOf(f)>> IN
           /\ b \in Metered /\ Level' = Level /\ Admitted' = Admitted
           /\ Turned' = [Turned EXCEPT ![b] = @ + 1]
           /\ Most[b] > 0 /\ Level[b] < Cost
<1>0. BucketOf(f) \in Buckets
  BY DEF BucketOf, Buckets, Limit
<1>a. PICK c \in Buckets : c = BucketOf(f)
  BY <1>0
<1>b. PICK n : n = Len(log) + 1
  OBVIOUS
<1>1. n = Len(log) + 1 /\ c = BucketOf(f)
  BY <1>a, <1>b
<1>2. /\ NewEntry(s, n, f) /\ ~log'[n].paid /\ log'[n].answer = "limited"
      /\ ~Affords(s, c) /\ meter' = Taken(s, c)
  BY <1>1, LimitWrites DEF Limit, ReplayInv
<1> DEFINE b == <<s, c>>
<1>3. TypeInv
  BY DEF ReplayInv
<1>4. /\ b \in Metered /\ Level \in [Metered -> Nat]
      /\ Level[b] = Credited(meter[s][c], c)
      /\ Burst[c] # 0 => Level' = [Level EXCEPT ![b] = @ - (IF Affords(s, c) THEN Cost ELSE 0)]
  BY <1>2, <1>3, TakenLevel
<1>5. /\ Most[b] = Full(c) /\ Full(c) \in Nat /\ (Full(c) = 0 <=> Burst[c] = 0)
      /\ Cost \in Nat
  BY <1>4, FullBuckets DEF Most
<1>6. Burst[c] # 0 /\ ~(Level[b] >= Cost)
  BY <1>2, <1>4 DEF Affords
<1>7. Level' = Level
  <2>1. Level' = [Level EXCEPT ![b] = @ - 0]
    BY <1>2, <1>4, <1>6
  <2>2. Level[b] \in Nat /\ Level[b] - 0 = Level[b]
    BY <1>4
  <2>3. QED
    BY <1>4, <2>1, <2>2
<1>8. ASSUME NEW d \in Metered
      PROVE  /\ d = b => Cardinality(TurnedBy(d)') = Cardinality(TurnedBy(d)) + 1
             /\ d # b => Cardinality(TurnedBy(d)') = Cardinality(TurnedBy(d))
             /\ PaidBy(d)' = PaidBy(d)
  <2>1. d = b <=> d[1] = s /\ d[2] = c
    BY DEF Metered
  <2>2. /\ n \notin DOMAIN log
        /\ PaidBy(d)' = PaidBy(d) \cup
             (IF d[1] = s /\ d[2] = BucketOf(f) /\ log'[n].paid THEN {n} ELSE {})
        /\ TurnedBy(d)' = TurnedBy(d) \cup
             (IF d[1] = s /\ d[2] = BucketOf(f) /\ log'[n].answer = "limited" THEN {n} ELSE {})
    BY <1>2, <1>3, NewCount
  <2>3. /\ PaidBy(d)' = PaidBy(d)
        /\ d = b => TurnedBy(d)' = TurnedBy(d) \cup {n}
        /\ d # b => TurnedBy(d)' = TurnedBy(d)
    BY <1>1, <1>2, <2>1, <2>2
  <2>4. PICK S : S = TurnedBy(d)
    OBVIOUS
  <2>5. IsFiniteSet(S) /\ Cardinality(S) \in Nat /\ n \notin S
    BY <1>3, <2>2, <2>4, CountsAreFinite DEF TurnedBy
  <2>6. Cardinality(S \cup {n}) = Cardinality(S) + 1
    BY <2>5, FS_AddElement
  <2>7. QED
    BY <2>3, <2>4, <2>6
<1>9. Admitted' = Admitted
  BY <1>8 DEF Admitted
<1>10. Turned' = [Turned EXCEPT ![b] = @ + 1]
  <2>1. \A d \in Metered : Cardinality(TurnedBy(d)) \in Nat
    BY <1>3, CountsAreFinite
  <2>2. Turned' = [d \in Metered |-> Cardinality(TurnedBy(d)')]
    BY DEF Turned
  <2>3. QED
    BY <1>4, <1>8, <2>1, <2>2 DEF Turned
<1>11. Most[b] > 0 /\ Level[b] < Cost
  BY <1>4, <1>5, <1>6
<1>12. QED
  BY <1>1, <1>4, <1>7, <1>9, <1>10, <1>11

\* Nothing else costs anything: an unmetered frame, a repeated answer, a call.
LEMMA RestIsFree ==
    ASSUME ReplayInv, NEW s \in Sockets, NEW f \in Frames,
           \/ Replay(s, f) \/ (Admit(s, f) /\ BucketOf(f) = None)
           \/ CarryOut(s) \/ Succeeds(s) \/ Fails(s) \/ CutOff(s) \/ PromptRefused(s)
    PROVE  Level' = Level /\ Admitted' = Admitted /\ Turned' = Turned
<1>1. /\ TypeInv /\ WorkOK(s) /\ MemoryOK(s) /\ \A k \in DOMAIN log : KeptOK(k)
  BY DEF ReplayInv, LogInv
<1>2. ASSUME meter' = meter,
             \A d \in Metered : PaidBy(d)' = PaidBy(d) /\ TurnedBy(d)' = TurnedBy(d)
      PROVE  Level' = Level /\ Admitted' = Admitted /\ Turned' = Turned
  BY <1>2 DEF Level, Admitted, Turned
<1>3. PICK n : n = Len(log) + 1
  OBVIOUS
<1>4. CASE Replay(s, f)
  <2>1. /\ NewEntry(s, n, f) /\ ~log'[n].paid /\ log'[n].answer # "limited" /\ meter' = meter
    BY <1>1, <1>3, <1>4, ReplayWrites
  <2>2. \A d \in Metered : PaidBy(d)' = PaidBy(d) /\ TurnedBy(d)' = TurnedBy(d)
    BY <1>1, <2>1, NewCount
  <2>3. QED
    BY <1>2, <2>1, <2>2
<1>5. CASE Admit(s, f) /\ BucketOf(f) = None
  <2>1. NewEntry(s, n, f) /\ log'[n].answer # "limited" /\ meter' = meter
    BY <1>1, <1>3, <1>5, AdmitWrites DEF Admit
  <2>2. \A d \in Metered : d[2] # BucketOf(f)
    BY <1>5, ConstantsOK DEF Metered
  <2>3. \A d \in Metered : PaidBy(d)' = PaidBy(d) /\ TurnedBy(d)' = TurnedBy(d)
    BY <1>1, <2>1, <2>2, NewCount, Zenon
  <2>4. QED
    BY <1>2, <2>1, <2>3
<1>6. CASE CarryOut(s) \/ Succeeds(s) \/ Fails(s) \/ CutOff(s) \/ PromptRefused(s)
  <2>1. PICK a : a = work[s].at
    OBVIOUS
  <2>2. RanOn(s, a) /\ meter' = meter
    BY <1>1, <1>6, <2>1, RunWrites
  <2>3. \A d \in Metered : PaidBy(d)' = PaidBy(d) /\ TurnedBy(d)' = TurnedBy(d)
    BY <1>1, <2>2, RunCount
  <2>4. QED
    BY <1>2, <2>2, <2>3
<1>7. QED
  BY <1>4, <1>5, <1>6

\* Every step of the command loop is one of the allowance, or none.
LEMMA MeterStep ==
    ASSUME ReplayInv, [Next]_vars
    PROVE  [Meter!Next]_(Meter!vars)
<1>1. SUFFICES \/ Level' = Level /\ Admitted' = Admitted /\ Turned' = Turned
               \/ /\ Level' = [b \in Metered |-> IF Level[b] + 1 < Most[b]
                                                 THEN Level[b] + 1 ELSE Most[b]]
                  /\ Admitted' = Admitted /\ Turned' = Turned
               \/ \E b \in Metered :
                     /\ Admitted' = [Admitted EXCEPT ![b] = @ + 1] /\ Turned' = Turned
                     /\ \/ /\ Most[b] > 0 /\ Level[b] >= Cost
                           /\ Level' = [Level EXCEPT ![b] = @ - Cost]
                        \/ Most[b] = 0 /\ Level' = Level
               \/ \E b \in Metered :
                     /\ Most[b] > 0 /\ Level[b] < Cost
                     /\ Turned' = [Turned EXCEPT ![b] = @ + 1]
                     /\ Level' = Level /\ Admitted' = Admitted
  BY Zenon DEF Meter!Next, Meter!vars, Meter!Tick, Meter!Refilled, Meter!Pay, Meter!Free,
         Meter!Refuse, Level, Admitted, Turned, Most, PaidBy, TurnedBy
<1>2. ASSUME LeavesAnswers, meter' = meter
      PROVE  Level' = Level /\ Admitted' = Admitted /\ Turned' = Turned
  BY <1>2, TracesCount DEF Level, Admitted, Turned
<1>3. CASE Tick
  <2>1. UNCHANGED <<link, memory, work, log, known>>
    BY <1>3 DEF Tick
  <2>2. Admitted' = Admitted /\ Turned' = Turned
    BY <2>1 DEF Admitted, Turned, PaidBy, TurnedBy
  <2>3. QED
    BY <1>3, <2>2, TickLevel DEF ReplayInv
<1>4. CASE \/ \E s \in Sockets : Connect(s) \/ Leave(s) \/ Finish(s)
           \/ \E n \in DOMAIN log : LateArrives(n)
           \/ \E H \in SUBSET Hosts : Polled(H)
           \/ \E h \in Hosts : Discovered(h)
           \/ Quiescent \/ UNCHANGED vars
  BY <1>2, <1>4, OutsideLeavesAnswers DEF ReplayInv
<1>5. ASSUME NEW s \in Sockets, NEW f \in Frames, Replay(s, f)
      PROVE  Level' = Level /\ Admitted' = Admitted /\ Turned' = Turned
  BY <1>5, RestIsFree
<1>6. ASSUME NEW s \in Sockets, NEW f \in Frames, Limit(s, f)
      PROVE  \E b \in Metered : /\ Most[b] > 0 /\ Level[b] < Cost
                                /\ Turned' = [Turned EXCEPT ![b] = @ + 1]
                                /\ Level' = Level /\ Admitted' = Admitted
  BY <1>6, LimitRefuses
<1>7. ASSUME NEW s \in Sockets, NEW f \in Frames, Admit(s, f), BucketOf(f) # None
      PROVE  \E b \in Metered :
                /\ Admitted' = [Admitted EXCEPT ![b] = @ + 1] /\ Turned' = Turned
                /\ \/ /\ Most[b] > 0 /\ Level[b] >= Cost
                      /\ Level' = [Level EXCEPT ![b] = @ - Cost]
                   \/ Most[b] = 0 /\ Level' = Level
  BY <1>7, AdmitPays
<1>8. ASSUME NEW s \in Sockets, NEW f \in Frames, Admit(s, f), BucketOf(f) = None
      PROVE  Level' = Level /\ Admitted' = Admitted /\ Turned' = Turned
  BY <1>8, RestIsFree
<1>9. ASSUME NEW s \in Sockets,
             CarryOut(s) \/ Succeeds(s) \/ Fails(s) \/ CutOff(s) \/ PromptRefused(s)
      PROVE  Level' = Level /\ Admitted' = Admitted /\ Turned' = Turned
  <2>1. WorkOK(s) /\ work[s].pc # "idle"
    BY <1>9 DEF ReplayInv, LogInv, CarryOut, Succeeds, Fails, CutOff, PromptRefused
  <2>2. work[s].at \in DOMAIN log /\ \A k \in DOMAIN log : log[k] \in Entry
    BY <2>1 DEF WorkOK, TypeInv, ReplayInv
  <2>3. PICK f \in Frames : TRUE
    BY <2>2 DEF Entry
  <2>4. QED
    BY <1>9, <2>3, RestIsFree
<1>10. CASE \E s \in Sockets, f \in Frames : Replay(s, f) \/ Limit(s, f) \/ Admit(s, f)
  BY <1>5, <1>6, <1>7, <1>8, <1>10
<1>11. CASE \E s \in Sockets :
              CarryOut(s) \/ Succeeds(s) \/ Fails(s) \/ CutOff(s) \/ PromptRefused(s)
  BY <1>9, <1>11
<1>12. QED
  BY <1>3, <1>4, <1>10, <1>11, Zenon DEF Next

\* The buckets of the code, credited only when a command comes, implement the
\* allowance: they admit and refuse what one refilled at every tick would.
THEOREM MeterRefines == Spec => MeterIsAnAllowance
<1>1. Init => Meter!Init
  <2>1. SUFFICES ASSUME Init PROVE Meter!Init
    OBVIOUS
  <2>2. /\ log = <<>>
        /\ meter = [s \in Sockets |-> [b \in Buckets |-> [tokens |-> Full(b), age |-> 0]]]
    BY <2>1 DEF Init
  <2>3. \A b \in Metered : Credited(meter[b[1]][b[2]], b[2]) = Full(b[2])
    BY <2>2, FullBuckets DEF Metered, Credited
  <2>4. \A b : PaidBy(b) = {} /\ TurnedBy(b) = {}
    BY <2>2 DEF PaidBy, TurnedBy
  <2>5. Cardinality({}) = 0
    BY FS_EmptySet
  <2>6. QED
    BY <2>3, <2>4, <2>5 DEF Meter!Init, PaidBy, TurnedBy
<1>2. ReplayInv /\ [Next]_vars => [Meter!Next]_(Meter!vars)
  BY MeterStep
<1>3. QED
  BY <1>1, <1>2, ReplayInvariant, PTL DEF Spec, MeterIsAnAllowance, Meter!Spec

=============================================================================
