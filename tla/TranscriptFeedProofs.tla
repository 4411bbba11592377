-------------------------- MODULE TranscriptFeedProofs --------------------------
(***************************************************************************)
(* The safety of TranscriptFeed, for any number of panes and clients: no   *)
(* pane streams the transcript of a neighbour it was listed with, and a    *)
(* recorded signature stands for blocks that were sent.                    *)
(***************************************************************************)
EXTENDS TranscriptFeed, TLAPS

\* What a read may return: never the transcript of a neighbour in the same listing.
Clean == {r \in Reading : r.neighbour # "listed"}

\* The flags are those of the last listing, whatever events registered since.
RegistryOK == pushed \subseteq known /\ known \subseteq Panes /\ shared = Sharing(known \ pushed)

\* Every read in flight and every transcript shown was such a result.
CleanOK ==
    /\ poll.got \in [Panes -> Clean \cup {None}]
    /\ \A c \in Clients : asked[c].got \in Clean \cup {None}
    /\ shown \in [Clients -> [Panes -> Clean \cup {None}]]

\* Blocks are counted.
BlocksOK == \A p \in Panes : blocks[p] <= spent.blocks

\* A handler at work has a pane, and a subscription is the client's latest.
AskedOK ==
    \A c \in Clients : /\ asked[c].kind # "quiet" => asked[c].pane \in Panes
                       /\ asked[c].kind = "subscribe" => sub[c] = asked[c].pane

\* A signature that no page and no overtaken push recorded is that of the pane
\* watched, and of what was sent.
SignaturesOK ==
    \A c \in Clients, p \in Panes :
        sigs[c][p] # None /\ origin[c][p] = "sent"
            => sub[c] = p /\ Sig(shown[c][p]) = sigs[c][p]

Inv == TypeOK /\ RegistryOK /\ CleanOK /\ BlocksOK /\ AskedOK /\ SignaturesOK

PollFrames == [pc: {"resting", "listing", "listed", "applied", "reading"},
               listed: SUBSET Panes, watch: [Panes -> SUBSET Clients], left: SUBSET Panes,
               got: [Panes -> Reading \cup {None}]]
AskFrames == [kind: {"quiet", "subscribe", "read", "page"}, pane: Panes \cup {None},
              got: Reading \cup {None}, pc: {"wait", "read"}]
Spendings == [blocks: 0..MaxBlocks, asks: 0..MaxAsks, misses: 0..MaxMisses, ends: 0..MaxEnds,
              events: 0..MaxEvents]

-----------------------------------------------------------------------------
(* Lemmas.                                                                  *)

\* A bound that is not reached may be spent.
LEMMA SpendOK ==
    ASSUME spent \in Spendings, NEW k \in {"blocks", "asks", "misses", "ends", "events"}, Spend(k),
           k = "blocks" => spent.blocks < MaxBlocks, k = "asks" => spent.asks < MaxAsks,
           k = "misses" => spent.misses < MaxMisses, k = "ends" => spent.ends < MaxEnds,
           k = "events" => spent.events < MaxEvents
    PROVE  /\ spent' \in Spendings
           /\ spent'.blocks = IF k = "blocks" THEN spent.blocks + 1 ELSE spent.blocks
<1>1. CASE k = "blocks" BY <1>1, ConstantsOK DEF Spend, Spendings, ConstantsOK
<1>2. CASE k = "asks" BY <1>2, ConstantsOK DEF Spend, Spendings, ConstantsOK
<1>3. CASE k = "misses" BY <1>3, ConstantsOK DEF Spend, Spendings, ConstantsOK
<1>4. CASE k = "ends" BY <1>4, ConstantsOK DEF Spend, Spendings, ConstantsOK
<1>5. CASE k = "events" BY <1>5, ConstantsOK DEF Spend, Spendings, ConstantsOK
<1> QED BY <1>1, <1>2, <1>3, <1>4, <1>5

\* The guard: without a reference a pane is given the newest transcript only when
\* the last listing had no other pane in its directory.
LEMMA SourceOK ==
    ASSUME TypeOK, RegistryOK, NEW p \in Panes
    PROVE  /\ Source(p) \in Panes \cup {None}
           /\ Source(p) \in Panes => Neighbour(p, Source(p)) \in {"none", "pushed"}
<1>1. known \subseteq Panes /\ refs[p] \in RefKinds /\ newest \in Panes \cup {None}
    BY DEF TypeOK
<1>2. None \notin Panes BY ConstantsOK DEF ConstantsOK
<1>3. CASE p \notin known BY <1>2, <1>3 DEF Source
<1>4. CASE p \in known /\ refs[p] = "good" BY <1>4 DEF Source, Neighbour
<1>5. CASE p \in known /\ refs[p] = "invalid" BY <1>2, <1>5 DEF Source
<1>6. CASE p \in known /\ refs[p] = "absent" /\ Ambiguous(p) BY <1>2, <1>6 DEF Source
<1>7. CASE p \in known /\ refs[p] = "absent" /\ ~Ambiguous(p)
    <2>1. Source(p) = newest BY <1>7 DEF Source
    <2>2. p \notin Sharing(known \ pushed) BY <1>7 DEF Ambiguous, RegistryOK
    <2>3. ~(newest # p /\ newest \in known /\ {p, newest} \cap pushed = {})
        BY <1>7, <2>2 DEF Sharing
    <2>4. Neighbour(p, newest) \in {"none", "pushed"} BY <2>3 DEF Neighbour
    <2> QED BY <1>1, <2>1, <2>4
<1> QED BY <1>1, <1>3, <1>4, <1>5, <1>6, <1>7 DEF RefKinds

\* A read returns nothing or a clean result.
LEMMA ReadOK ==
    ASSUME TypeOK, RegistryOK, NEW p \in Panes
    PROVE  Read(p) \in Clean \cup {None}
<1> DEFINE s == Source(p)
           m == Neighbour(p, s)
<1>1. CASE s = None \/ blocks[s] = 0 BY <1>1 DEF Read
<1>2. CASE ~(s = None \/ blocks[s] = 0)
    <2>1. s \in Panes /\ m \in {"none", "pushed"} BY <1>2, SourceOK
    <2>2. blocks[s] \in Nat BY <2>1, ConstantsOK DEF TypeOK, ConstantsOK
    <2>3. Read(p) = [of |-> s, n |-> blocks[s], neighbour |-> m] BY <1>2 DEF Read
    <2> HIDE DEF s, m
    <2> QED BY <2>1, <2>2, <2>3 DEF Clean, Reading
<1> QED BY <1>1, <1>2

\* So does a thread's read, which may fail.
LEMMA FetchOK ==
    ASSUME TypeOK, RegistryOK, NEW p \in Panes, NEW r, Fetches(p, r)
    PROVE  r \in Clean \cup {None} /\ spent' \in Spendings /\ spent'.blocks = spent.blocks
<1>1. spent \in Spendings BY DEF TypeOK, Spendings
<1>2. CASE r = Read(p) /\ UNCHANGED spent BY <1>1, <1>2, ReadOK
<1>3. CASE r = None /\ spent.misses < MaxMisses /\ Spend("misses")
    <2>1. spent' \in Spendings /\ spent'.blocks = spent.blocks BY <1>1, <1>3, SpendOK
    <2> QED BY <1>3, <2>1
<1> QED BY <1>2, <1>3 DEF Fetches

\* The signature of a result.
LEMMA SigOK ==
    ASSUME NEW r \in Reading \cup {None}
    PROVE  Sig(r) \in (Panes \X Nat) \cup {None}
<1> QED BY DEF Sig, Reading

\* Clean results are results.
LEMMA CleanIsReading == Clean \subseteq Reading
<1> QED BY DEF Clean

-----------------------------------------------------------------------------
(* The agents.                                                              *)

\* What the agents do leaves the relay and what was shown alone.
LEMMA RelayKept ==
    ASSUME Inv, UNCHANGED <<relay, shown, origin>>
    PROVE  RegistryOK' /\ CleanOK' /\ AskedOK' /\ SignaturesOK'
<1>1. UNCHANGED <<poll, asked, shown>> /\ CleanOK BY DEF Inv, relay
<1>2. CleanOK' BY <1>1 DEF CleanOK
<1>3. UNCHANGED <<sub, sigs, asked, shown, origin>> /\ AskedOK /\ SignaturesOK BY DEF Inv, relay
<1>4. AskedOK' BY <1>3 DEF AskedOK
<1>5. SignaturesOK' BY <1>3 DEF SignaturesOK
<1>6. RegistryOK' BY DEF Inv, relay, registry, RegistryOK
<1> QED BY <1>2, <1>4, <1>5, <1>6

\* An agent that starts makes nothing unclean that was read before.
LEMMA StartsOK ==
    ASSUME Inv, NEW p \in Panes, Starts(p)
    PROVE  Inv'
<1>1. RegistryOK' /\ CleanOK' /\ AskedOK' /\ SignaturesOK' BY RelayKept DEF Starts
<1>2. BlocksOK' BY DEF Inv, Starts, BlocksOK
<1>3. TypeOK' BY DEF Inv, Starts, TypeOK, relay, registry
<1> QED BY <1>1, <1>2, <1>3 DEF Inv

\* A block that is written changes nothing that was read, sent or recorded.
LEMMA WritesOK ==
    ASSUME Inv, NEW p \in Panes, Writes(p)
    PROVE  Inv'
<1>1. RegistryOK' /\ CleanOK' /\ AskedOK' /\ SignaturesOK' BY RelayKept DEF Writes
<1>2. spent \in Spendings BY DEF Inv, TypeOK, Spendings
<1>3. spent' \in Spendings /\ spent'.blocks = spent.blocks + 1
    BY <1>2, SpendOK DEF Writes
<1>4. blocks \in [Panes -> 0..MaxBlocks] /\ BlocksOK BY DEF Inv, TypeOK
<1>5. blocks' = [blocks EXCEPT ![p] = @ + 1] /\ newest' = p BY DEF Writes
<1>6. MaxBlocks \in Nat /\ spent'.blocks \in 0..MaxBlocks /\ spent.blocks \in 0..MaxBlocks
    BY <1>2, <1>3, ConstantsOK DEF Spendings, ConstantsOK
<1>7. BlocksOK'
    <2> SUFFICES ASSUME NEW q \in Panes PROVE blocks'[q] <= spent'.blocks BY DEF BlocksOK
    <2>1. blocks[q] <= spent.blocks /\ blocks[q] \in 0..MaxBlocks BY <1>4 DEF BlocksOK
    <2> QED BY <2>1, <1>3, <1>4, <1>5, <1>6
<1>8. blocks' \in [Panes -> 0..MaxBlocks]
    <2>1. blocks[p] <= spent.blocks /\ blocks[p] \in 0..MaxBlocks BY <1>4 DEF BlocksOK
    <2>2. blocks[p] + 1 \in 0..MaxBlocks BY <2>1, <1>3, <1>6
    <2> QED BY <1>4, <1>5, <2>2
<1>9. TypeOK' BY <1>3, <1>5, <1>8 DEF Inv, Writes, TypeOK, relay, registry, Spendings
<1> QED BY <1>1, <1>7, <1>9 DEF Inv

\* A pane that closes changes nothing that was read, sent or recorded.
LEMMA EndsPaneOK ==
    ASSUME Inv, NEW p \in Panes, EndsPane(p)
    PROVE  Inv'
<1>1. RegistryOK' /\ CleanOK' /\ AskedOK' /\ SignaturesOK' BY RelayKept DEF EndsPane
<1>2. spent \in Spendings BY DEF Inv, TypeOK, Spendings
<1>3. spent' \in Spendings /\ spent'.blocks = spent.blocks BY <1>2, SpendOK DEF EndsPane
<1>4. BlocksOK' BY <1>3 DEF Inv, EndsPane, BlocksOK
<1>5. TypeOK' BY <1>3 DEF Inv, EndsPane, TypeOK, relay, registry, Spendings
<1> QED BY <1>1, <1>4, <1>5 DEF Inv

-----------------------------------------------------------------------------
(* The poll.                                                                *)

\* A registry that is left alone keeps its flags.
LEMMA RegistryKept ==
    ASSUME Inv, UNCHANGED registry
    PROVE  RegistryOK'
<1> QED BY DEF Inv, registry, RegistryOK

\* A step that sends nothing: the flags stay those of the last listing, the poll's
\* frame stays typed and its results clean, and no block is spent.
LEMMA PollKept ==
    ASSUME Inv, UNCHANGED <<external, sub, sigs, asked, shown, origin>>,
           RegistryOK', refs' \in [Panes -> RefKinds], poll' \in PollFrames,
           poll'.got \in [Panes -> Clean \cup {None}],
           spent' \in Spendings, spent'.blocks = spent.blocks
    PROVE  Inv'
<1>1. TypeOK /\ CleanOK /\ BlocksOK /\ AskedOK /\ SignaturesOK BY DEF Inv
<1>2. known' \subseteq Panes /\ shared' \subseteq Panes /\ pushed' \subseteq Panes
    BY DEF RegistryOK, Sharing
<1>3. TypeOK' BY <1>1, <1>2 DEF TypeOK, external, PollFrames, Spendings
<1>4. CleanOK' BY <1>1 DEF CleanOK
<1>5. BlocksOK' BY <1>1 DEF BlocksOK, external
<1>6. AskedOK' BY <1>1 DEF AskedOK
<1>7. SignaturesOK' BY <1>1 DEF SignaturesOK
<1> QED BY <1>3, <1>4, <1>5, <1>6, <1>7 DEF Inv

\* The facts of the poll's frame.
LEMMA PollFacts ==
    ASSUME Inv
    PROVE  /\ poll \in PollFrames /\ poll.got \in [Panes -> Clean \cup {None}]
           /\ spent \in Spendings /\ refs \in [Panes -> RefKinds]
           /\ ref \in [Panes -> RefKinds] /\ running \subseteq Panes
<1>1. ref \in [Panes -> RefKinds] BY ConstantsOK DEF Inv, TypeOK, ConstantsOK
<1> QED BY <1>1 DEF Inv, TypeOK, CleanOK, PollFrames, Spendings

\* A poll at rest has read nothing, and that is clean.
LEMMA RestingOK == Resting \in PollFrames /\ Resting.got \in [Panes -> Clean \cup {None}]
<1> QED BY DEF Resting, PollFrames

\* Cleared references are references.
LEMMA ClearedOK == Cleared \in [Panes -> RefKinds]
<1> QED BY DEF Cleared, RefKinds

\* Clearing the references at the start of a poll keeps the invariant.
LEMMA PollStartsOK ==
    ASSUME Inv, PollStarts
    PROVE  Inv'
<1>1. poll \in PollFrames /\ poll.got \in [Panes -> Clean \cup {None}] /\ spent \in Spendings
    BY PollFacts
<1>2. poll' = [poll EXCEPT !.pc = "listing"] /\ UNCHANGED spent /\ RegistryOK'
      /\ refs' = Cleared /\ UNCHANGED <<external, sub, sigs, asked, shown, origin>>
    BY RegistryKept DEF PollStarts
<1>3. poll' \in PollFrames /\ poll'.got = poll.got BY <1>1, <1>2 DEF PollFrames
<1> QED BY <1>1, <1>2, <1>3, ClearedOK, PollKept

\* What a host lists, in full or not at all, keeps the invariant.
LEMMA HostAnswersOK ==
    ASSUME Inv, HostAnswers
    PROVE  Inv'
<1>1. /\ poll \in PollFrames /\ poll.got \in [Panes -> Clean \cup {None}]
      /\ spent \in Spendings /\ refs \in [Panes -> RefKinds]
      /\ ref \in [Panes -> RefKinds] /\ running \subseteq Panes
    BY PollFacts
<1>2. UNCHANGED <<external, sub, sigs, asked, shown, origin>> /\ RegistryOK'
    BY RegistryKept DEF HostAnswers
<1>3. CASE /\ poll' = [poll EXCEPT !.pc = "listed", !.listed = running]
           /\ refs' = [p \in Panes |-> IF p \in running THEN Bound(p) ELSE refs[p]]
           /\ UNCHANGED spent
    <2>1. poll' \in PollFrames /\ poll'.got = poll.got BY <1>1, <1>3 DEF PollFrames
    <2>2. refs' \in [Panes -> RefKinds] BY <1>1, <1>3 DEF Bound
    <2>3. spent' \in Spendings /\ spent'.blocks = spent.blocks BY <1>1, <1>3
    <2> QED BY <1>1, <1>2, <2>1, <2>2, <2>3, PollKept
<1>4. CASE /\ spent.misses < MaxMisses /\ Spend("misses")
           /\ poll' = [poll EXCEPT !.pc = "listed", !.listed = {}]
           /\ UNCHANGED refs
    <2>1. poll' \in PollFrames /\ poll'.got = poll.got BY <1>1, <1>4 DEF PollFrames
    <2>2. spent' \in Spendings /\ spent'.blocks = spent.blocks BY <1>1, <1>4, SpendOK
    <2>3. refs' \in [Panes -> RefKinds] BY <1>1, <1>4
    <2> QED BY <1>1, <1>2, <2>1, <2>2, <2>3, PollKept
<1> QED BY <1>3, <1>4 DEF HostAnswers

\* Rebuilding the registry from the listing, with its flags, keeps the invariant.
LEMMA PollAppliesOK ==
    ASSUME Inv, PollApplies
    PROVE  Inv'
<1>1. /\ poll \in PollFrames /\ poll.got \in [Panes -> Clean \cup {None}]
      /\ spent \in Spendings /\ refs \in [Panes -> RefKinds]
    BY PollFacts
<1>2. /\ UNCHANGED <<external, sub, sigs, asked, shown, origin>>
      /\ known' = poll.listed /\ shared' = Sharing(poll.listed) /\ pushed' = {}
      /\ poll' = [poll EXCEPT !.pc = "applied"] /\ refs' = refs /\ spent' = spent
    BY DEF PollApplies
<1>3. poll' \in PollFrames /\ poll'.got = poll.got BY <1>1, <1>2 DEF PollFrames
<1>4. RegistryOK'
    <2>1. poll.listed \subseteq Panes BY <1>1 DEF PollFrames
    <2>2. poll.listed \ {} = poll.listed OBVIOUS
    <2> QED BY <1>2, <2>1, <2>2 DEF RegistryOK, Sharing
<1> QED BY <1>1, <1>2, <1>3, <1>4, PollKept

\* Taking the watchers whose panes are read keeps the invariant.
LEMMA PollWatchesOK ==
    ASSUME Inv, PollWatches
    PROVE  Inv'
<1>1. /\ poll \in PollFrames /\ poll.got \in [Panes -> Clean \cup {None}]
      /\ spent \in Spendings /\ refs \in [Panes -> RefKinds]
    BY PollFacts
<1>2. /\ UNCHANGED <<external, sub, sigs, asked, shown, origin>>
      /\ RegistryOK' /\ refs' = refs /\ spent' = spent
    BY RegistryKept DEF PollWatches
<1> DEFINE w == WatchersOf(poll.listed)
           l == {p \in Panes : w[p] # {}}
<1>3. poll' = [poll EXCEPT !.pc = "reading", !.listed = {}, !.watch = w, !.left = l]
    BY DEF PollWatches
<1>4. w \in [Panes -> SUBSET Clients] BY DEF WatchersOf
<1>5. l \subseteq Panes OBVIOUS
<1> HIDE DEF w, l
<1>6. poll' \in PollFrames /\ poll'.got = poll.got BY <1>1, <1>3, <1>4, <1>5 DEF PollFrames
<1> QED BY <1>1, <1>2, <1>6, PollKept

\* A listing that is not applied keeps the invariant.
LEMMA PollRejectsOK ==
    ASSUME Inv, PollRejects
    PROVE  Inv'
<1>1. spent \in Spendings BY PollFacts
<1>2. /\ UNCHANGED <<external, sub, sigs, asked, shown, origin>>
      /\ RegistryOK' /\ refs' = Cleared /\ poll' = Resting
      /\ spent.misses < MaxMisses /\ Spend("misses")
    BY RegistryKept DEF PollRejects
<1>3. spent' \in Spendings /\ spent'.blocks = spent.blocks BY <1>1, <1>2, SpendOK
<1> QED BY <1>1, <1>2, <1>3, ClearedOK, RestingOK, PollKept

\* A read for a watched pane takes a transcript as clean as what is shown, or none.
LEMMA PollReadsOK ==
    ASSUME Inv, NEW p \in Panes, PollReads(p)
    PROVE  Inv'
<1>1. /\ poll \in PollFrames /\ poll.got \in [Panes -> Clean \cup {None}]
      /\ refs \in [Panes -> RefKinds]
    BY PollFacts
<1>2. /\ UNCHANGED <<external, sub, sigs, asked, shown, origin>>
      /\ RegistryOK' /\ refs' = refs
    BY RegistryKept DEF PollReads
<1>3. PICK r \in {Read(p), None} :
          Fetches(p, r) /\ poll' = [poll EXCEPT !.left = @ \ {p}, !.got[p] = r]
    BY DEF PollReads
<1>4. r \in Clean \cup {None} /\ spent' \in Spendings /\ spent'.blocks = spent.blocks
    BY <1>3, FetchOK DEF Inv
<1>5. r \in Reading \cup {None} BY <1>4, CleanIsReading
<1>6. poll' \in PollFrames BY <1>1, <1>3, <1>5 DEF PollFrames
<1>7. poll'.got = [poll.got EXCEPT ![p] = r] BY <1>1, <1>3 DEF PollFrames
<1>8. poll'.got \in [Panes -> Clean \cup {None}] BY <1>1, <1>4, <1>7
<1> QED BY <1>1, <1>2, <1>4, <1>6, <1>8, PollKept

\* A step that changes what clients watch, were sent or are waiting for.
LEMMA ClientsKept ==
    ASSUME Inv, UNCHANGED <<external, registry, refs>>, poll' \in PollFrames,
           poll'.got \in [Panes -> Clean \cup {None}],
           sub' \in [Clients -> Panes \cup {None}],
           sigs' \in [Clients -> [Panes -> (Panes \X Nat) \cup {None}]],
           asked' \in [Clients -> AskFrames],
           \A c \in Clients : asked'[c].got \in Clean \cup {None},
           shown' \in [Clients -> [Panes -> Clean \cup {None}]],
           origin' \in [Clients -> [Panes -> Origins]],
           spent' \in Spendings, spent'.blocks = spent.blocks
    PROVE  TypeOK' /\ RegistryOK' /\ CleanOK' /\ BlocksOK'
<1>1. TypeOK /\ BlocksOK BY DEF Inv
<1>2. shown' \in [Clients -> [Panes -> Reading \cup {None}]] BY CleanIsReading
<1>3. TypeOK' BY <1>1, <1>2 DEF TypeOK, external, registry, PollFrames, AskFrames, Spendings
<1>4. CleanOK' BY DEF CleanOK
<1>5. BlocksOK' BY <1>1 DEF BlocksOK, external
<1> QED BY <1>3, <1>4, <1>5, RegistryKept

\* The facts of the clients.
LEMMA ClientFacts ==
    ASSUME Inv
    PROVE  /\ sub \in [Clients -> Panes \cup {None}]
           /\ sigs \in [Clients -> [Panes -> (Panes \X Nat) \cup {None}]]
           /\ asked \in [Clients -> AskFrames]
           /\ \A c \in Clients : asked[c].got \in Clean \cup {None}
           /\ shown \in [Clients -> [Panes -> Clean \cup {None}]]
           /\ origin \in [Clients -> [Panes -> Origins]]
           /\ AskedOK /\ SignaturesOK
<1> QED BY DEF Inv, TypeOK, CleanOK, AskFrames

\* A push records the signature of what it sends; one to a client that went
\* is marked as overtaken.
LEMMA PollSendsOK ==
    ASSUME Inv, PollSends
    PROVE  Inv'
<1>1. /\ poll \in PollFrames /\ poll.got \in [Panes -> Clean \cup {None}]
      /\ spent \in Spendings
    BY PollFacts
<1>2. /\ sub \in [Clients -> Panes \cup {None}]
      /\ sigs \in [Clients -> [Panes -> (Panes \X Nat) \cup {None}]]
      /\ asked \in [Clients -> AskFrames]
      /\ \A c \in Clients : asked[c].got \in Clean \cup {None}
      /\ shown \in [Clients -> [Panes -> Clean \cup {None}]]
      /\ origin \in [Clients -> [Panes -> Origins]]
      /\ AskedOK /\ SignaturesOK
    BY ClientFacts
<1>3. /\ poll' = Resting
      /\ UNCHANGED <<external, registry, refs, sub, asked, spent>>
    BY DEF PollSends
<1> DEFINE Sent(c, p) == c \in poll.watch[p] /\ Pushes(c, p, poll.got[p])
<1>4. \A p \in Panes : Sig(poll.got[p]) \in (Panes \X Nat) \cup {None}
    <2> SUFFICES ASSUME NEW p \in Panes PROVE Sig(poll.got[p]) \in (Panes \X Nat) \cup {None}
        OBVIOUS
    <2>1. poll.got[p] \in Reading \cup {None} BY <1>1, CleanIsReading
    <2> QED BY <2>1, SigOK
<1>5. /\ sigs' = [c \in Clients |-> [p \in Panes |->
                    IF Sent(c, p) THEN Sig(poll.got[p]) ELSE sigs[c][p]]]
      /\ shown' = [c \in Clients |-> [p \in Panes |->
                    IF Sent(c, p) THEN poll.got[p] ELSE shown[c][p]]]
      /\ origin' = [c \in Clients |-> [p \in Panes |->
                    IF ~Sent(c, p) THEN origin[c][p]
                    ELSE IF sub[c] = p THEN "sent" ELSE "overtaken"]]
    BY DEF PollSends
<1> HIDE DEF Sent
<1>6. sigs' \in [Clients -> [Panes -> (Panes \X Nat) \cup {None}]] BY <1>2, <1>4, <1>5
<1>7. shown' \in [Clients -> [Panes -> Clean \cup {None}]] BY <1>1, <1>2, <1>5
<1>8. origin' \in [Clients -> [Panes -> Origins]] BY <1>2, <1>5 DEF Origins
<1>9. TypeOK' /\ RegistryOK' /\ CleanOK' /\ BlocksOK'
    BY <1>1, <1>2, <1>3, <1>6, <1>7, <1>8, RestingOK, ClientsKept
<1>10. AskedOK' BY <1>2, <1>3 DEF AskedOK
<1>11. SignaturesOK'
    <2> SUFFICES ASSUME NEW c \in Clients, NEW p \in Panes,
                        sigs'[c][p] # None, origin'[c][p] = "sent"
                 PROVE  sub'[c] = p /\ Sig(shown'[c][p]) = sigs'[c][p]
        BY DEF SignaturesOK, Sig
    <2>1. sub'[c] = sub[c] BY <1>3
    <2>2. CASE Sent(c, p) BY <2>1, <2>2, <1>5
    <2>3. CASE ~Sent(c, p) BY <2>1, <2>3, <1>2, <1>5 DEF SignaturesOK
    <2> QED BY <2>2, <2>3
<1> QED BY <1>9, <1>10, <1>11 DEF Inv

-----------------------------------------------------------------------------
(* Pushed events.                                                           *)

\* A pane that an event registers changes no flag of a listed one.
LEMMA DiscoversOK ==
    ASSUME Inv, NEW p \in Panes, Discovers(p)
    PROVE  Inv'
<1>1. /\ poll \in PollFrames /\ poll.got \in [Panes -> Clean \cup {None}]
      /\ spent \in Spendings /\ refs \in [Panes -> RefKinds]
    BY PollFacts
<1>2. /\ UNCHANGED <<external, sub, sigs, asked, shown, origin>>
      /\ refs' = refs /\ poll' = poll
      /\ spent.events < MaxEvents /\ Spend("events")
      /\ p \notin known /\ known' = known \cup {p} /\ shared' = shared \ {p}
      /\ pushed' = pushed \cup ({p} \ known)
    BY DEF Discovers, Registers
<1>3. spent' \in Spendings /\ spent'.blocks = spent.blocks BY <1>1, <1>2, SpendOK
<1>4. RegistryOK'
    <2>1. pushed \subseteq known /\ known \subseteq Panes /\ shared = Sharing(known \ pushed)
        BY DEF Inv, RegistryOK
    <2>2. pushed' = pushed \cup {p} BY <1>2
    <2>3. known' \ pushed' = known \ pushed BY <1>2, <2>1, <2>2
    <2>4. shared' = shared BY <1>2, <2>1 DEF Sharing
    <2>5. pushed' \subseteq known' /\ known' \subseteq Panes BY <1>2, <2>1, <2>2
    <2> QED BY <2>1, <2>3, <2>4, <2>5 DEF RegistryOK, Sharing
<1> QED BY <1>1, <1>2, <1>3, <1>4, PollKept

-----------------------------------------------------------------------------
(* The command loop.                                                        *)

\* The frame of a handler that takes a request.
LEMMA AskOK ==
    ASSUME asked \in [Clients -> AskFrames], NEW c \in Clients, NEW p \in Panes,
           NEW kind \in {"subscribe", "read", "page"}, Ask(c, kind, p),
           \A d \in Clients : asked[d].got \in Clean \cup {None}
    PROVE  /\ asked' \in [Clients -> AskFrames]
           /\ asked'[c].kind = kind /\ asked'[c].pane = p
           /\ \A d \in Clients : asked'[d].got \in Clean \cup {None}
           /\ \A d \in Clients \ {c} : asked'[d] = asked[d]
<1> DEFINE a == [kind |-> kind, pane |-> p, got |-> None, pc |-> "read"]
<1>1. asked' = [asked EXCEPT ![c] = a] BY DEF Ask
<1>2. a \in AskFrames /\ a.kind = kind /\ a.pane = p /\ a.got = None BY DEF AskFrames
<1> HIDE DEF a
<1> QED BY <1>1, <1>2

\* One entry of a table by client and pane is set.
LEMMA EntryOK ==
    ASSUME NEW S, NEW f \in [Clients -> [Panes -> S]], NEW c \in Clients, NEW p \in Panes,
           NEW v \in S
    PROVE  /\ [f EXCEPT ![c][p] = v] \in [Clients -> [Panes -> S]]
           /\ [f EXCEPT ![c][p] = v][c] = [f[c] EXCEPT ![p] = v]
           /\ \A d \in Clients \ {c} : [f EXCEPT ![c][p] = v][d] = f[d]
<1> DEFINE h == [f[c] EXCEPT ![p] = v]
<1>1. [f EXCEPT ![c][p] = v] = [f EXCEPT ![c] = h] OBVIOUS
<1>2. h \in [Panes -> S] OBVIOUS
<1> HIDE DEF h
<1>3. [f EXCEPT ![c] = h] \in [Clients -> [Panes -> S]] BY <1>2
<1>4. [f EXCEPT ![c] = h][c] = h BY <1>2
<1>5. \A d \in Clients \ {c} : [f EXCEPT ![c] = h][d] = f[d] OBVIOUS
<1> QED BY <1>1, <1>3, <1>4, <1>5 DEF h

\* A client that leaves its pane has no signature left that stands for what was sent.
LEMMA LeavesOK ==
    ASSUME Inv, NEW c \in Clients, sigs' = Forgotten(c),
           origin' = Unrecorded(c)
    PROVE  /\ sigs' \in [Clients -> [Panes -> (Panes \X Nat) \cup {None}]]
           /\ origin' \in [Clients -> [Panes -> Origins]]
           /\ \A q \in Panes : sigs'[c][q] # None => origin'[c][q] # "sent"
           /\ \A d \in Clients \ {c} : sigs'[d] = sigs[d] /\ origin'[d] = origin[d]
<1>1. /\ sub \in [Clients -> Panes \cup {None}]
      /\ sigs \in [Clients -> [Panes -> (Panes \X Nat) \cup {None}]]
      /\ origin \in [Clients -> [Panes -> Origins]]
      /\ SignaturesOK
    BY ClientFacts
<1>2. None \notin Panes BY ConstantsOK DEF ConstantsOK
<1>3. "sent" \in Origins BY DEF Origins
<1>4. CASE sub[c] = None
    <2>1. sigs' = sigs /\ origin' = origin BY <1>4 DEF Forgotten, Unrecorded
    <2>2. \A q \in Panes : sigs[c][q] # None => origin[c][q] # "sent"
        BY <1>1, <1>2, <1>4 DEF SignaturesOK
    <2> QED BY <1>1, <2>1, <2>2
<1>5. CASE sub[c] \in Panes
    <2>1. /\ sigs' = [sigs EXCEPT ![c][sub[c]] = None]
          /\ origin' = [origin EXCEPT ![c][sub[c]] = "sent"]
        BY <1>2, <1>5 DEF Forgotten, Unrecorded
    <2> DEFINE S == (Panes \X Nat) \cup {None}
    <2>2. None \in S /\ sigs \in [Clients -> [Panes -> S]] BY <1>1
    <2> HIDE DEF S
    <2>3. sigs' \in [Clients -> [Panes -> S]] BY <1>5, <2>1, <2>2, EntryOK
    <2>4. /\ sigs'[c] = [sigs[c] EXCEPT ![sub[c]] = None]
          /\ \A d \in Clients \ {c} : sigs'[d] = sigs[d]
        BY <1>5, <2>1, <2>2, EntryOK
    <2>5. origin' \in [Clients -> [Panes -> Origins]] BY <1>1, <1>3, <1>5, <2>1, EntryOK
    <2>6. /\ origin'[c] = [origin[c] EXCEPT ![sub[c]] = "sent"]
          /\ \A d \in Clients \ {c} : origin'[d] = origin[d]
        BY <1>1, <1>3, <1>5, <2>1, EntryOK
    <2>7. \A q \in Panes : sigs'[c][q] # None => origin'[c][q] # "sent"
        <3> SUFFICES ASSUME NEW q \in Panes, sigs'[c][q] # None
                     PROVE  origin'[c][q] # "sent"
            OBVIOUS
        <3>1. sigs[c] \in [Panes -> (Panes \X Nat) \cup {None}] BY <1>1
        <3>2. origin[c] \in [Panes -> Origins] BY <1>1
        <3>3. q # sub[c] /\ sigs[c][q] # None BY <2>4, <3>1, <1>5
        <3>4. origin[c][q] # "sent" BY <1>1, <3>3 DEF SignaturesOK
        <3> QED BY <2>6, <3>2, <3>3, <3>4
    <2> QED BY <2>3, <2>4, <2>5, <2>6, <2>7 DEF S
<1> QED BY <1>1, <1>4, <1>5

\* A subscription forgets the signature of what was watched and is the client's latest.
LEMMA SubscribeOK ==
    ASSUME Inv, NEW c \in Clients, NEW p \in Panes, Subscribe(c, p)
    PROVE  Inv'
<1>1. /\ poll \in PollFrames /\ poll.got \in [Panes -> Clean \cup {None}]
      /\ spent \in Spendings
    BY PollFacts
<1>2. /\ sub \in [Clients -> Panes \cup {None}]
      /\ asked \in [Clients -> AskFrames]
      /\ \A d \in Clients : asked[d].got \in Clean \cup {None}
      /\ shown \in [Clients -> [Panes -> Clean \cup {None}]]
      /\ AskedOK /\ SignaturesOK
    BY ClientFacts
<1>3. /\ spent.asks < MaxAsks /\ Spend("asks") /\ Ask(c, "subscribe", p)
      /\ sub' = [sub EXCEPT ![c] = p] /\ sigs' = Forgotten(c)
      /\ shown' = [shown EXCEPT ![c][p] = None]
      /\ origin' = Unrecorded(c)
      /\ UNCHANGED <<external, registry, refs, poll>>
    BY DEF Subscribe, Asks
<1>4. spent' \in Spendings /\ spent'.blocks = spent.blocks BY <1>1, <1>3, SpendOK
<1>5. /\ asked' \in [Clients -> AskFrames]
      /\ asked'[c].kind = "subscribe" /\ asked'[c].pane = p
      /\ \A d \in Clients : asked'[d].got \in Clean \cup {None}
      /\ \A d \in Clients \ {c} : asked'[d] = asked[d]
    BY <1>2, <1>3, AskOK
<1>6. /\ sigs' \in [Clients -> [Panes -> (Panes \X Nat) \cup {None}]]
      /\ origin' \in [Clients -> [Panes -> Origins]]
      /\ \A q \in Panes : sigs'[c][q] # None => origin'[c][q] # "sent"
      /\ \A d \in Clients \ {c} : sigs'[d] = sigs[d] /\ origin'[d] = origin[d]
    BY <1>3, LeavesOK
<1>7. /\ shown' \in [Clients -> [Panes -> Clean \cup {None}]]
      /\ \A d \in Clients \ {c} : shown'[d] = shown[d]
    BY <1>2, <1>3
<1>8. /\ sub' \in [Clients -> Panes \cup {None}] /\ sub'[c] = p
      /\ \A d \in Clients \ {c} : sub'[d] = sub[d]
    BY <1>2, <1>3
<1>9. TypeOK' /\ RegistryOK' /\ CleanOK' /\ BlocksOK'
    BY <1>1, <1>3, <1>4, <1>5, <1>6, <1>7, <1>8, ClientsKept
<1>10. AskedOK'
    <2> SUFFICES ASSUME NEW d \in Clients
                 PROVE  /\ asked'[d].kind # "quiet" => asked'[d].pane \in Panes
                        /\ asked'[d].kind = "subscribe" => sub'[d] = asked'[d].pane
        BY DEF AskedOK
    <2>1. CASE d = c BY <2>1, <1>5, <1>8
    <2>2. CASE d # c BY <2>2, <1>2, <1>5, <1>8 DEF AskedOK
    <2> QED BY <2>1, <2>2
<1>11. SignaturesOK'
    <2> SUFFICES ASSUME NEW d \in Clients, NEW q \in Panes,
                        sigs'[d][q] # None, origin'[d][q] = "sent"
                 PROVE  sub'[d] = q /\ Sig(shown'[d][q]) = sigs'[d][q]
        BY DEF SignaturesOK, Sig
    <2>1. d # c BY <1>6
    <2>2. sigs'[d] = sigs[d] /\ origin'[d] = origin[d] BY <1>6, <2>1
    <2>3. sub'[d] = sub[d] /\ shown'[d] = shown[d] BY <1>7, <1>8, <2>1
    <2>4. SignaturesOK BY <1>2
    <2> QED BY <2>2, <2>3, <2>4 DEF SignaturesOK
<1> QED BY <1>9, <1>10, <1>11 DEF Inv

\* An unsubscription forgets the signature of what was watched.
LEMMA UnsubscribeOK ==
    ASSUME Inv, NEW c \in Clients, Unsubscribe(c)
    PROVE  Inv'
<1>1. /\ poll \in PollFrames /\ poll.got \in [Panes -> Clean \cup {None}]
      /\ spent \in Spendings
    BY PollFacts
<1>2. /\ sub \in [Clients -> Panes \cup {None}]
      /\ asked \in [Clients -> AskFrames]
      /\ \A d \in Clients : asked[d].got \in Clean \cup {None}
      /\ shown \in [Clients -> [Panes -> Clean \cup {None}]]
      /\ AskedOK /\ SignaturesOK
    BY ClientFacts
<1>3. /\ spent.asks < MaxAsks /\ Spend("asks") /\ asked[c].kind = "quiet"
      /\ sub' = [sub EXCEPT ![c] = None] /\ sigs' = Forgotten(c)
      /\ origin' = Unrecorded(c)
      /\ UNCHANGED <<external, registry, refs, poll, asked, shown>>
    BY DEF Unsubscribe, Asks
<1>4. spent' \in Spendings /\ spent'.blocks = spent.blocks BY <1>1, <1>3, SpendOK
<1>5. /\ sigs' \in [Clients -> [Panes -> (Panes \X Nat) \cup {None}]]
      /\ origin' \in [Clients -> [Panes -> Origins]]
      /\ \A q \in Panes : sigs'[c][q] # None => origin'[c][q] # "sent"
      /\ \A d \in Clients \ {c} : sigs'[d] = sigs[d] /\ origin'[d] = origin[d]
    BY <1>3, LeavesOK
<1>6. /\ sub' \in [Clients -> Panes \cup {None}]
      /\ \A d \in Clients \ {c} : sub'[d] = sub[d]
    BY <1>2, <1>3
<1>7. TypeOK' /\ RegistryOK' /\ CleanOK' /\ BlocksOK'
    BY <1>1, <1>2, <1>3, <1>4, <1>5, <1>6, ClientsKept
<1>8. AskedOK'
    <2> SUFFICES ASSUME NEW d \in Clients
                 PROVE  /\ asked'[d].kind # "quiet" => asked'[d].pane \in Panes
                        /\ asked'[d].kind = "subscribe" => sub'[d] = asked'[d].pane
        BY DEF AskedOK
    <2>1. CASE d = c BY <2>1, <1>3
    <2>2. CASE d # c BY <2>2, <1>2, <1>3, <1>6 DEF AskedOK
    <2> QED BY <2>1, <2>2
<1>9. SignaturesOK'
    <2> SUFFICES ASSUME NEW d \in Clients, NEW q \in Panes,
                        sigs'[d][q] # None, origin'[d][q] = "sent"
                 PROVE  sub'[d] = q /\ Sig(shown'[d][q]) = sigs'[d][q]
        BY DEF SignaturesOK, Sig
    <2>1. d # c BY <1>5
    <2>2. sigs'[d] = sigs[d] /\ origin'[d] = origin[d] BY <1>5, <2>1
    <2>3. sub'[d] = sub[d] /\ shown'[d] = shown[d] BY <1>3, <1>6, <2>1
    <2>4. SignaturesOK BY <1>2
    <2> QED BY <2>2, <2>3, <2>4 DEF SignaturesOK
<1> QED BY <1>7, <1>8, <1>9 DEF Inv

\* A request for a pane's blocks keeps the invariant until it is read.
LEMMA ReadPaneOK ==
    ASSUME Inv, NEW c \in Clients, NEW p \in Panes, NEW kind \in {"read", "page"},
           ReadPane(c, p, kind)
    PROVE  Inv'
<1>1. /\ poll \in PollFrames /\ poll.got \in [Panes -> Clean \cup {None}]
      /\ spent \in Spendings
    BY PollFacts
<1>2. /\ sub \in [Clients -> Panes \cup {None}]
      /\ sigs \in [Clients -> [Panes -> (Panes \X Nat) \cup {None}]]
      /\ asked \in [Clients -> AskFrames]
      /\ \A d \in Clients : asked[d].got \in Clean \cup {None}
      /\ shown \in [Clients -> [Panes -> Clean \cup {None}]]
      /\ origin \in [Clients -> [Panes -> Origins]]
      /\ AskedOK /\ SignaturesOK
    BY ClientFacts
<1>3. /\ spent.asks < MaxAsks /\ Spend("asks") /\ Ask(c, kind, p)
      /\ UNCHANGED <<external, registry, refs, poll, sub, sigs, shown, origin>>
    BY DEF ReadPane, Asks
<1>4. spent' \in Spendings /\ spent'.blocks = spent.blocks BY <1>1, <1>3, SpendOK
<1>5. /\ asked' \in [Clients -> AskFrames]
      /\ asked'[c].kind = kind /\ asked'[c].pane = p
      /\ \A d \in Clients : asked'[d].got \in Clean \cup {None}
      /\ \A d \in Clients \ {c} : asked'[d] = asked[d]
    BY <1>2, <1>3, AskOK
<1>6. TypeOK' /\ RegistryOK' /\ CleanOK' /\ BlocksOK' BY <1>1, <1>2, <1>3, <1>4, <1>5, ClientsKept
<1>7. AskedOK'
    <2> SUFFICES ASSUME NEW d \in Clients
                 PROVE  /\ asked'[d].kind # "quiet" => asked'[d].pane \in Panes
                        /\ asked'[d].kind = "subscribe" => sub'[d] = asked'[d].pane
        BY DEF AskedOK
    <2>1. CASE d = c BY <2>1, <1>5
    <2>2. CASE d # c BY <2>2, <1>2, <1>3, <1>5 DEF AskedOK
    <2> QED BY <2>1, <2>2
<1>8. SignaturesOK' BY <1>2, <1>3 DEF SignaturesOK
<1> QED BY <1>6, <1>7, <1>8 DEF Inv

\* A handler's read takes a transcript as clean as what is shown, or none.
LEMMA HandlerReadsOK ==
    ASSUME Inv, NEW c \in Clients, HandlerReads(c)
    PROVE  Inv'
<1>1. /\ poll \in PollFrames /\ poll.got \in [Panes -> Clean \cup {None}]
    BY PollFacts
<1>2. /\ sub \in [Clients -> Panes \cup {None}]
      /\ sigs \in [Clients -> [Panes -> (Panes \X Nat) \cup {None}]]
      /\ asked \in [Clients -> AskFrames]
      /\ \A d \in Clients : asked[d].got \in Clean \cup {None}
      /\ shown \in [Clients -> [Panes -> Clean \cup {None}]]
      /\ origin \in [Clients -> [Panes -> Origins]]
      /\ AskedOK /\ SignaturesOK
    BY ClientFacts
<1>3. /\ asked[c].kind # "quiet"
      /\ UNCHANGED <<external, registry, refs, poll, sub, sigs, shown, origin>>
    BY DEF HandlerReads
<1>4. asked[c].pane \in Panes BY <1>2, <1>3 DEF AskedOK
<1>5. PICK r \in {Read(asked[c].pane), None} :
          /\ Fetches(asked[c].pane, r)
          /\ asked' = [asked EXCEPT ![c].got = r, ![c].pc = "wait"]
    BY DEF HandlerReads
<1>6. r \in Clean \cup {None} /\ spent' \in Spendings /\ spent'.blocks = spent.blocks
    BY <1>4, <1>5, FetchOK DEF Inv
<1> DEFINE a == [asked[c] EXCEPT !.got = r, !.pc = "wait"]
<1>7. asked' = [asked EXCEPT ![c] = a] BY <1>2, <1>5
<1>8. a \in AskFrames /\ a.got = r /\ a.kind = asked[c].kind /\ a.pane = asked[c].pane
    <2>1. asked[c] \in AskFrames BY <1>2
    <2>2. r \in Reading \cup {None} BY <1>6, CleanIsReading
    <2> QED BY <2>1, <2>2 DEF AskFrames
<1> HIDE DEF a
<1>9. /\ asked' \in [Clients -> AskFrames]
      /\ \A d \in Clients : asked'[d].got \in Clean \cup {None}
    BY <1>2, <1>6, <1>7, <1>8
<1>10. TypeOK' /\ RegistryOK' /\ CleanOK' /\ BlocksOK' BY <1>1, <1>2, <1>3, <1>6, <1>9, ClientsKept
<1>11. AskedOK' BY <1>2, <1>3, <1>7, <1>8 DEF AskedOK
<1>12. SignaturesOK' BY <1>2, <1>3 DEF SignaturesOK
<1> QED BY <1>10, <1>11, <1>12 DEF Inv

\* A handler records the signature of what it sends, of the pane that is watched,
\* and marks that of a page.
LEMMA HandlerSendsOK ==
    ASSUME Inv, NEW c \in Clients, HandlerSends(c)
    PROVE  Inv'
<1>1. /\ poll \in PollFrames /\ poll.got \in [Panes -> Clean \cup {None}]
      /\ spent \in Spendings
    BY PollFacts
<1>2. /\ sub \in [Clients -> Panes \cup {None}]
      /\ sigs \in [Clients -> [Panes -> (Panes \X Nat) \cup {None}]]
      /\ asked \in [Clients -> AskFrames]
      /\ \A d \in Clients : asked[d].got \in Clean \cup {None}
      /\ shown \in [Clients -> [Panes -> Clean \cup {None}]]
      /\ origin \in [Clients -> [Panes -> Origins]]
      /\ AskedOK /\ SignaturesOK
    BY ClientFacts
<1> DEFINE p == asked[c].pane
           r == asked[c].got
           page == asked[c].kind = "page"
           S == (Panes \X Nat) \cup {None}
           C == Clean \cup {None}
<1>3. /\ UNCHANGED <<external, registry, refs, poll, sub, spent>>
      /\ asked' = [asked EXCEPT ![c] = Quiet]
      /\ IF r = None THEN UNCHANGED <<sigs, shown, origin>>
         ELSE /\ sigs' = IF Records(c) THEN [sigs EXCEPT ![c][p] = Sig(r)] ELSE sigs
              /\ shown' = IF page THEN shown ELSE [shown EXCEPT ![c][p] = r]
              /\ origin' = IF Records(c)
                            THEN [origin EXCEPT ![c][p] = IF page THEN "page" ELSE "sent"]
                            ELSE origin
    BY DEF HandlerSends
<1>4. p \in Panes BY <1>2 DEF AskedOK, HandlerSends
<1>5. Records(c) => page \/ sub[c] = p
    BY <1>2 DEF Records, AskedOK
<1>6. r \in C /\ Sig(r) \in S
    <2>1. r \in C BY <1>2
    <2>2. r \in Reading \cup {None} BY <2>1, CleanIsReading
    <2> QED BY <2>1, <2>2, SigOK
<1>7. Quiet \in AskFrames /\ Quiet.got \in C /\ Quiet.kind = "quiet" BY DEF Quiet, AskFrames
<1>8. /\ asked' \in [Clients -> AskFrames]
      /\ asked'[c] = Quiet
      /\ \A d \in Clients \ {c} : asked'[d] = asked[d]
    BY <1>2, <1>3, <1>7
<1>9. \A d \in Clients : asked'[d].got \in C BY <1>2, <1>7, <1>8
<1>10. AskedOK'
    <2> SUFFICES ASSUME NEW d \in Clients
                 PROVE  /\ asked'[d].kind # "quiet" => asked'[d].pane \in Panes
                        /\ asked'[d].kind = "subscribe" => sub'[d] = asked'[d].pane
        BY DEF AskedOK
    <2>1. CASE d = c BY <2>1, <1>7, <1>8
    <2>2. CASE d # c BY <2>2, <1>2, <1>3, <1>8 DEF AskedOK
    <2> QED BY <2>1, <2>2
<1>11. sigs \in [Clients -> [Panes -> S]] /\ shown \in [Clients -> [Panes -> C]] BY <1>2
<1> DEFINE o == IF page THEN "page" ELSE "sent"
<1>14. o \in Origins /\ (o = "sent" <=> ~page) BY DEF Origins
<1> HIDE DEF p, r, page, S, C, o
<1>12. CASE r = None
    <2>1. UNCHANGED <<sigs, shown, origin>> BY <1>3, <1>12
    <2>2. SignaturesOK' BY <1>2, <1>3, <2>1 DEF SignaturesOK
    <2>3. TypeOK' /\ RegistryOK' /\ CleanOK' /\ BlocksOK'
        BY <1>1, <1>2, <1>3, <1>8, <1>9, <2>1, ClientsKept DEF C
    <2> QED BY <1>10, <2>2, <2>3 DEF Inv
<1>13. CASE r # None
    <2>1. sigs' = IF Records(c) THEN [sigs EXCEPT ![c][p] = Sig(r)] ELSE sigs
        BY <1>3, <1>13
    <2>2. shown' = IF page THEN shown ELSE [shown EXCEPT ![c][p] = r] BY <1>3, <1>13
    <2>3. origin' = IF Records(c) THEN [origin EXCEPT ![c][p] = o] ELSE origin
        BY <1>3, <1>13 DEF o
    <2>4. sigs' \in [Clients -> [Panes -> S]] /\ \A d \in Clients \ {c} : sigs'[d] = sigs[d]
        BY <1>4, <1>6, <1>11, <2>1, EntryOK
    <2>5. shown' \in [Clients -> [Panes -> C]] /\ \A d \in Clients \ {c} : shown'[d] = shown[d]
        BY <1>4, <1>6, <1>11, <2>2, EntryOK
    <2>6. /\ origin' \in [Clients -> [Panes -> Origins]]
          /\ \A d \in Clients \ {c} : origin'[d] = origin[d]
        BY <1>2, <1>4, <1>14, <2>3, EntryOK
    <2>12. Records(c) => origin'[c] = [origin[c] EXCEPT ![p] = o]
        BY <1>2, <1>4, <1>14, <2>3, EntryOK
    <2>13. origin[c] \in [Panes -> Origins] BY <1>2
    <2>7. TypeOK' /\ RegistryOK' /\ CleanOK' /\ BlocksOK'
        BY <1>1, <1>2, <1>3, <1>8, <1>9, <2>4, <2>5, <2>6, ClientsKept DEF S, C
    <2>8. Records(c) => sigs'[c] = [sigs[c] EXCEPT ![p] = Sig(r)]
        BY <1>4, <1>6, <1>11, <2>1, EntryOK
    <2>9. ~page => shown'[c] = [shown[c] EXCEPT ![p] = r]
        BY <1>4, <1>6, <1>11, <2>2, EntryOK
    <2>10. sigs[c] \in [Panes -> S] /\ shown[c] \in [Panes -> C] BY <1>11
    <2>11. SignaturesOK'
        <3> SUFFICES ASSUME NEW d \in Clients, NEW q \in Panes,
                            sigs'[d][q] # None, origin'[d][q] = "sent"
                     PROVE  sub'[d] = q /\ Sig(shown'[d][q]) = sigs'[d][q]
            BY DEF SignaturesOK, Sig
        <3>1. sub'[d] = sub[d] /\ SignaturesOK BY <1>2, <1>3
        <3>2. CASE d # c
            <4>1. sigs'[d] = sigs[d] /\ origin'[d] = origin[d] /\ shown'[d] = shown[d]
                BY <2>4, <2>5, <2>6, <3>2
            <4> QED BY <3>1, <4>1 DEF SignaturesOK
        <3>3. CASE d = c /\ q # p
            <4>1. origin[c][q] = "sent" BY <2>3, <2>12, <2>13, <3>3
            <4>2. sigs'[c][q] = sigs[c][q] BY <2>1, <2>8, <2>10, <3>3
            <4>3. shown'[c][q] = shown[c][q] BY <2>2, <2>9, <2>10, <3>3
            <4> QED BY <3>1, <3>3, <4>1, <4>2, <4>3 DEF SignaturesOK
        <3>4. CASE d = c /\ q = p
            <4>1. CASE Records(c)
                <5>1. ~page BY <1>4, <1>14, <2>12, <2>13, <3>4, <4>1
                <5>2. sigs'[c][p] = Sig(r) BY <1>4, <2>8, <2>10, <4>1
                <5>3. shown'[c][p] = r BY <1>4, <2>9, <2>10, <5>1
                <5>4. sub[c] = p BY <1>5, <4>1, <5>1
                <5> QED BY <3>1, <3>4, <5>2, <5>3, <5>4
            <4>2. CASE ~Records(c)
                <5>1. sigs'[c][p] = sigs[c][p] /\ origin[c][p] = "sent" BY <2>1, <2>3, <3>4, <4>2
                <5>2. sub[c] = p BY <1>4, <3>1, <3>4, <5>1 DEF SignaturesOK
                <5> QED BY <4>2, <5>2 DEF Records, p
            <4> QED BY <4>1, <4>2
        <3> QED BY <3>2, <3>3, <3>4
    <2> QED BY <1>10, <2>7, <2>11 DEF Inv
<1> QED BY <1>12, <1>13

-----------------------------------------------------------------------------
(* The theorems.                                                            *)

\* The invariant holds when the relay starts.
LEMMA InvInit == Init => Inv
<1> SUFFICES ASSUME Init PROVE Inv OBVIOUS
<1>1. TypeOK
    BY RestingOK, ConstantsOK
    DEF Init, TypeOK, ConstantsOK, RefKinds, Quiet, PollFrames, Origins
<1>6. RegistryOK BY DEF Init, RegistryOK, Sharing
<1>2. CleanOK BY RestingOK DEF Init, CleanOK, Quiet
<1>3. BlocksOK
    <2> SUFFICES ASSUME NEW p \in Panes PROVE blocks[p] <= spent.blocks BY DEF BlocksOK
    <2>1. spent.blocks = 0 /\ blocks[p] = 0 BY DEF Init
    <2>2. \A m \in Nat, n \in Nat : m = 0 /\ n = 0 => m <= n OBVIOUS
    <2> QED BY <2>1, <2>2
<1>4. AskedOK BY DEF Init, AskedOK, Quiet
<1>5. SignaturesOK BY DEF Init, SignaturesOK
<1> QED BY <1>1, <1>2, <1>3, <1>4, <1>5, <1>6 DEF Inv

\* Every step keeps the invariant.
LEMMA InvNext == Inv /\ [Next]_vars => Inv'
<1> SUFFICES ASSUME Inv, [Next]_vars PROVE Inv' OBVIOUS
<1>1. CASE Agents BY <1>1, StartsOK, WritesOK, EndsPaneOK DEF Agents
<1>2. CASE Poll
    BY <1>2, PollStartsOK, HostAnswersOK, PollAppliesOK, PollWatchesOK, PollRejectsOK,
       PollReadsOK, PollSendsOK
    DEF Poll
<1>3. ASSUME NEW c \in Clients, Frames(c) PROVE Inv'
    <2>1. CASE \E p \in Panes : Subscribe(c, p) BY <2>1, SubscribeOK
    <2>2. CASE \E p \in Panes : ReadPane(c, p, "read") \/ ReadPane(c, p, "page")
        BY <2>2, ReadPaneOK
    <2>3. CASE Unsubscribe(c) BY <2>3, UnsubscribeOK
    <2> QED BY <1>3, <2>1, <2>2, <2>3 DEF Frames
<1>4. ASSUME NEW c \in Clients, Handler(c) PROVE Inv'
    BY <1>4, HandlerReadsOK, HandlerSendsOK DEF Handler
<1>5. CASE UNCHANGED vars
    <2>1. RegistryOK' /\ CleanOK' /\ AskedOK' /\ SignaturesOK' BY <1>5, RelayKept DEF vars
    <2>2. TypeOK' /\ BlocksOK'
        BY <1>5 DEF Inv, TypeOK, BlocksOK, vars, external, relay, registry
    <2> QED BY <2>1, <2>2 DEF Inv
<1>6. CASE Events BY <1>6, DiscoversOK DEF Events
<1> QED BY <1>1, <1>2, <1>3, <1>4, <1>5, <1>6 DEF Next

\* So it always holds.
LEMMA InvAlways == Spec => []Inv
<1> QED BY InvInit, InvNext, PTL DEF Spec

\* The variables keep their types: for any number of panes and clients, and whatever
\* fails.
THEOREM FeedTyping == Spec => []TypeOK
<1>1. Inv => TypeOK BY DEF Inv
<1> QED BY <1>1, InvAlways, PTL

\* No pane streams the transcript of another pane that the listing it was found in
\* had too (blocks.py:3-5), however references come, go and are cleared, panes open and
\* close, and events register panes that no listing had: these last are left out of
\* the guarantee, since their flags are not counted before the next poll.
THEOREM NeighboursStayApart == Spec => []ListedNeighbourIsNotShown
<1>1. Inv => ListedNeighbourIsNotShown
    <2> SUFFICES ASSUME Inv, NEW c \in Clients, NEW p \in Panes, shown[c][p] # None
                 PROVE  shown[c][p].neighbour # "listed"
        BY DEF ListedNeighbourIsNotShown
    <2>1. shown[c][p] \in Clean BY DEF Inv, CleanOK
    <2> QED BY <2>1 DEF Clean
<1> QED BY <1>1, InvAlways, PTL

\* What is withheld from a watcher as already pushed was sent to it (transport.py:386),
\* although the reads of a poll and of a handler end after subscriptions have changed:
\* a signature that a page recorded, or a push that a change of the subscription
\* overtook, is the only exception.
THEOREM NothingUnsentIsWithheld == Spec => []SignatureWasPushed
<1>1. Inv => SignatureWasPushed
    <2> SUFFICES ASSUME Inv, NEW c \in Clients, sub[c] # None, sigs[c][sub[c]] # None,
                        origin[c][sub[c]] = "sent"
                 PROVE  Sig(shown[c][sub[c]]) = sigs[c][sub[c]]
        BY DEF SignatureWasPushed
    <2>1. sub[c] \in Panes /\ SignaturesOK BY DEF Inv, TypeOK
    <2> QED BY <2>1 DEF SignaturesOK
<1> QED BY <1>1, InvAlways, PTL

=============================================================================
