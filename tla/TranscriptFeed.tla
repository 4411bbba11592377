---------------------------- MODULE TranscriptFeed ----------------------------
(***************************************************************************)
(* Which transcript a pane's blocks come from, and how they reach a client *)
(* that watches the pane: the guard of transcripts/blocks.py, the poll's   *)
(* push of changed transcripts (transport.py) and the three frames of the  *)
(* command loop that read one (server.py).                                 *)
(*                                                                         *)
(* The panes run one agent in one directory of one host, the case the      *)
(* guard is about.  A transcript is a number of blocks, and its signature  *)
(* names it and that number.  Every read runs on a thread: it starts and   *)
(* ends between two steps of the event loop, and its result is used later. *)
(***************************************************************************)
EXTENDS Naturals

CONSTANTS Panes,       \* panes of one agent in one directory
          Clients,     \* connected sockets
          None,        \* no pane, no transcript, no blocks
          Refs,        \* what Herdr may report of each pane: a set of functions
          MaxBlocks,   \* bound: blocks written, all panes together
          MaxAsks,     \* bound: frames of all clients
          MaxMisses,   \* bound: reads and listings that fail
          MaxEnds,     \* bound: panes that close
          MaxEvents    \* bound: pushed events that come before the poll

\* The agent_session of a row: left out, valid, or one that does not validate.
RefKinds == {"absent", "good", "invalid"}

ASSUME ConstantsOK ==
    /\ None \notin Panes /\ Refs \subseteq [Panes -> RefKinds] /\ Refs # {}
    /\ MaxBlocks \in Nat /\ MaxAsks \in Nat /\ MaxMisses \in Nat /\ MaxEnds \in Nat
    /\ MaxEvents \in Nat

VARIABLES
    running,  \* panes Herdr lists
    blocks,   \* of each pane: the blocks its own session has written
    newest,   \* the transcript written last in the directory
    ref,      \* of each pane: the agent_session Herdr reports
    known,    \* known_pane_keys, the keys of pane_cwd_map
    shared,   \* pane_cwd_map: the panes stored as sharing their directory
    refs,     \* pane_session_refs
    poll,     \* the poll: its step, the panes listed, watched and read
    sub,      \* subscriptions
    sigs,     \* stream_sigs: the signature last pushed, by client and pane
    asked,    \* of each client: the frame its handler is at
    shown,    \* history: the transcript last sent, since the pane was subscribed to
    origin,   \* history: what recorded the signature of each client and pane
    pushed,   \* history: panes known by an event, which no poll has listed since
    spent     \* how much of each bound is spent

external == <<running, blocks, newest, ref>>
registry == <<known, shared, pushed>>
relay == <<registry, refs, poll, sub, sigs, asked>>
vars == <<external, relay, shown, origin, spent>>

-----------------------------------------------------------------------------

\* A read: whose blocks, how many, and (history) whether they were those of
\* another pane that the relay knew of, and how it knew of the two.
Reading == [of: Panes, n: Nat, neighbour: {"none", "listed", "pushed"}]

\* What recorded a signature: blocks sent to a client that watched, a page, or a push
\* to a client that had left the pane.
Origins == {"sent", "page", "overtaken"}

Sig(r) == IF r = None THEN None ELSE <<r.of, r.n>>

\* The flag in the pane's entry, as it was when the entry was stored.
Ambiguous(p) == p \in shared
\* agent_cwd_counts: the panes of a listing that share their directory.
Sharing(ps) == {p \in ps : ps \ {p} # {}}

\* _transcript: the guard, and read_transcript's choice without a reference.
Source(p) ==
    IF p \notin known THEN None
    ELSE CASE refs[p] = "good" -> p
           [] refs[p] = "invalid" -> None
           [] refs[p] = "absent" -> IF Ambiguous(p) THEN None ELSE newest

Neighbour(p, s) ==
    IF s = p \/ s \notin known THEN "none"
    ELSE IF {p, s} \cap pushed # {} THEN "pushed" ELSE "listed"

\* pane_blocks.
Read(p) ==
    LET s == Source(p)
    IN IF s = None \/ blocks[s] = 0 THEN None
       ELSE [of |-> s, n |-> blocks[s], neighbour |-> Neighbour(p, s)]

Spend(k) == spent' = [spent EXCEPT ![k] = @ + 1]

\* A thread's read: its result, or nothing when the file or ssh fails it.
Fetches(p, r) == \/ r = Read(p) /\ UNCHANGED spent
                 \/ r = None /\ Read(p) # None /\ spent.misses < MaxMisses /\ Spend("misses")

Resting == [pc |-> "resting", listed |-> {}, watch |-> [p \in Panes |-> {}], left |-> {},
            got |-> [p \in Panes |-> None]]
Quiet == [kind |-> "quiet", pane |-> None, got |-> None, pc |-> "wait"]

TypeOK ==
    /\ running \subseteq Panes /\ blocks \in [Panes -> 0..MaxBlocks]
    /\ newest \in Panes \cup {None} /\ ref \in Refs
    /\ known \subseteq Panes /\ shared \subseteq Panes /\ pushed \subseteq Panes
    /\ refs \in [Panes -> RefKinds]
    /\ poll \in [pc: {"resting", "listing", "listed", "applied", "reading"}, listed: SUBSET Panes,
                 watch: [Panes -> SUBSET Clients], left: SUBSET Panes,
                 got: [Panes -> Reading \cup {None}]]
    /\ sub \in [Clients -> Panes \cup {None}]
    /\ sigs \in [Clients -> [Panes -> (Panes \X Nat) \cup {None}]]
    /\ asked \in [Clients -> [kind: {"quiet", "subscribe", "read", "page"},
                              pane: Panes \cup {None}, got: Reading \cup {None},
                              pc: {"wait", "read"}]]
    /\ shown \in [Clients -> [Panes -> Reading \cup {None}]]
    /\ origin \in [Clients -> [Panes -> Origins]]
    /\ spent \in [blocks: 0..MaxBlocks, asks: 0..MaxAsks, misses: 0..MaxMisses,
                  ends: 0..MaxEnds, events: 0..MaxEvents]

Init ==
    /\ running = {}
    /\ blocks = [p \in Panes |-> 0] /\ newest = None
    /\ ref \in Refs
    /\ known = {} /\ shared = {} /\ pushed = {}
    /\ refs = [p \in Panes |-> "absent"] /\ poll = Resting
    /\ sub = [c \in Clients |-> None]
    /\ sigs = [c \in Clients |-> [p \in Panes |-> None]]
    /\ asked = [c \in Clients |-> Quiet]
    /\ shown = [c \in Clients |-> [p \in Panes |-> None]]
    /\ origin = [c \in Clients |-> [p \in Panes |-> "sent"]]
    /\ spent = [blocks |-> 0, asks |-> 0, misses |-> 0, ends |-> 0, events |-> 0]

-----------------------------------------------------------------------------
(* The agents.                                                              *)

\* A pane has one session; it is not opened again after that wrote.
Starts(p) ==
    /\ p \notin running /\ blocks[p] = 0
    /\ running' = running \cup {p}
    /\ UNCHANGED <<blocks, newest, ref, relay, shown, origin, spent>>

Writes(p) ==
    /\ p \in running /\ spent.blocks < MaxBlocks
    /\ blocks' = [blocks EXCEPT ![p] = @ + 1]
    /\ newest' = p
    /\ Spend("blocks")
    /\ UNCHANGED <<running, ref, relay, shown, origin>>

\* A pane that wrote nothing leaves nothing to take for another's.
EndsPane(p) ==
    /\ p \in running /\ blocks[p] # 0 /\ spent.ends < MaxEnds
    /\ running' = running \ {p}
    /\ Spend("ends")
    /\ UNCHANGED <<blocks, newest, ref, relay, shown, origin>>

-----------------------------------------------------------------------------
(* The poll: _poll_once.                                                    *)

\* Slip: a cleared reference stays as an empty one.
ClearedToNone == [p \in Panes |-> None]
\* The references go before the listing is asked for.
Cleared == [p \in Panes |-> "absent"]

PollStarts ==
    /\ poll.pc = "resting"
    /\ refs' = Cleared
    /\ poll' = [poll EXCEPT !.pc = "listing"]
    /\ UNCHANGED <<external, registry, sub, sigs, asked, shown, origin, spent>>

\* refs.from_pane, and the distinction kept between none and an unusable one.
Bound(p) == ref[p]

\* The host's thread lists the panes and binds their references; a host that
\* does not answer lists none.
HostAnswers ==
    /\ poll.pc = "listing"
    /\ \/ /\ poll' = [poll EXCEPT !.pc = "listed", !.listed = running]
          /\ refs' = [p \in Panes |-> IF p \in running THEN Bound(p) ELSE refs[p]]
          /\ UNCHANGED spent
       \/ /\ spent.misses < MaxMisses /\ Spend("misses")
          /\ poll' = [poll EXCEPT !.pc = "listed", !.listed = {}]
          /\ UNCHANGED refs
    /\ UNCHANGED <<external, registry, sub, sigs, asked, shown, origin>>

\* watchers.
WatchersOf(ps) == [p \in Panes |-> IF p \in ps THEN {c \in Clients : sub[c] = p} ELSE {}]

\* The registry is rebuilt, and who shares a directory is counted anew.
PollApplies ==
    /\ poll.pc = "listed"
    /\ known' = poll.listed /\ shared' = Sharing(poll.listed) /\ pushed' = {}
    /\ poll' = [poll EXCEPT !.pc = "applied"]
    /\ UNCHANGED <<external, refs, sub, sigs, asked, shown, origin, spent>>

\* After the snapshot is sent and blocked panes are read, the listed panes that are
\* watched by then are handed to threads.
PollWatches ==
    /\ poll.pc = "applied"
    /\ LET w == WatchersOf(poll.listed)
       IN poll' = [poll EXCEPT !.pc = "reading", !.listed = {}, !.watch = w,
                               !.left = {p \in Panes : w[p] # {}}]
    /\ UNCHANGED <<external, registry, refs, sub, sigs, asked, shown, origin, spent>>

\* A listing with a malformed or a repeated row is dropped whole.
PollRejects ==
    /\ poll.pc = "listed" /\ spent.misses < MaxMisses /\ Spend("misses")
    /\ refs' = Cleared
    /\ poll' = Resting
    /\ UNCHANGED <<external, registry, sub, sigs, asked, shown, origin>>

PollReads(p) ==
    /\ poll.pc = "reading" /\ p \in poll.left
    /\ \E r \in {Read(p), None} :
          /\ Fetches(p, r)
          /\ poll' = [poll EXCEPT !.left = @ \ {p}, !.got[p] = r]
    /\ UNCHANGED <<external, registry, refs, sub, sigs, asked, shown, origin>>

\* Slip: only the first blocks of a pane are pushed.
PushesOnce(c, p, r) == r # None /\ sigs[c][p] = None
\* A changed signature is pushed.
Pushes(c, p, r) == r # None /\ sigs[c][p] # Sig(r)

\* The results of all reads are sent to the watchers of before the reads.
PollSends ==
    /\ poll.pc = "reading" /\ poll.left = {}
    /\ LET Sent(c, p) == c \in poll.watch[p] /\ Pushes(c, p, poll.got[p])
           Pick(f, g) == [c \in Clients |-> [p \in Panes |->
                              IF Sent(c, p) THEN g[p] ELSE f[c][p]]]
       IN /\ sigs' = Pick(sigs, [p \in Panes |-> Sig(poll.got[p])])
          /\ shown' = Pick(shown, poll.got)
          /\ origin' = [c \in Clients |-> [p \in Panes |->
                           IF ~Sent(c, p) THEN origin[c][p]
                           ELSE IF sub[c] = p THEN "sent" ELSE "overtaken"]]
    /\ poll' = Resting
    /\ UNCHANGED <<external, registry, refs, sub, asked, spent>>

-----------------------------------------------------------------------------
(* Pushed events: _handle_pushed_event.                                     *)

\* The pane's entry is stored with its flag down, and no other entry is touched.
Registers(p) ==
    /\ p \in running \/ blocks[p] # 0
    /\ spent.events < MaxEvents /\ Spend("events")
    /\ known' = known \cup {p} /\ shared' = shared \ {p}
    /\ pushed' = pushed \cup ({p} \ known)
    /\ UNCHANGED <<external, refs, poll, sub, sigs, asked, shown, origin>>

\* Slip: a pane the relay knows is registered again.
DiscoversAgain(p) == Registers(p)
\* _discover_pushed_pane: an event of a pane, perhaps closed since, that the relay does
\* not know.
Discovers(p) == p \notin known /\ Registers(p)

-----------------------------------------------------------------------------
(* The command loop: one frame of a client at a time.                       *)

Ask(c, kind, p) == asked' = [asked EXCEPT ![c] = [kind |-> kind, pane |-> p, got |-> None,
                                                  pc |-> "read"]]

\* Slip: the signature of the pane left stays.
ForgottenNever(c) == sigs
\* The signature of the pane a client leaves is dropped.
Forgotten(c) == IF sub[c] = None THEN sigs ELSE [sigs EXCEPT ![c][sub[c]] = None]
Unrecorded(c) == IF sub[c] = None THEN origin ELSE [origin EXCEPT ![c][sub[c]] = "sent"]

Asks(c) == asked[c].kind = "quiet" /\ spent.asks < MaxAsks /\ Spend("asks")

Subscribe(c, p) ==
    /\ Asks(c) /\ p \in known
    /\ sub' = [sub EXCEPT ![c] = p]
    /\ sigs' = Forgotten(c)
    /\ Ask(c, "subscribe", p)
    /\ shown' = [shown EXCEPT ![c][p] = None]
    /\ origin' = Unrecorded(c)
    /\ UNCHANGED <<external, registry, refs, poll>>

Unsubscribe(c) ==
    /\ Asks(c) /\ sub[c] # None
    /\ sub' = [sub EXCEPT ![c] = None]
    /\ sigs' = Forgotten(c)
    /\ origin' = Unrecorded(c)
    /\ UNCHANGED <<external, registry, refs, poll, asked, shown>>

\* read_pane, for the transcript or for a page of it.
ReadPane(c, p, kind) ==
    /\ Asks(c) /\ p \in known
    /\ Ask(c, kind, p)
    /\ UNCHANGED <<external, registry, refs, poll, sub, sigs, shown, origin>>

HandlerReads(c) ==
    /\ asked[c].kind # "quiet" /\ asked[c].pc = "read"
    /\ \E r \in {Read(asked[c].pane), None} :
          /\ Fetches(asked[c].pane, r)
          /\ asked' = [asked EXCEPT ![c].got = r, ![c].pc = "wait"]
    /\ UNCHANGED <<external, registry, refs, poll, sub, sigs, shown, origin>>

\* A subscription records what it was sent; a read only of the pane watched.
Records(c) == asked[c].kind = "subscribe" \/ sub[c] = asked[c].pane

HandlerSends(c) ==
    /\ asked[c].kind # "quiet" /\ asked[c].pc = "wait"
    /\ LET p == asked[c].pane  r == asked[c].got  page == asked[c].kind = "page"
       IN IF r = None THEN UNCHANGED <<sigs, shown, origin>>
          ELSE /\ sigs' = IF Records(c) THEN [sigs EXCEPT ![c][p] = Sig(r)] ELSE sigs
               /\ shown' = IF page THEN shown ELSE [shown EXCEPT ![c][p] = r]
               /\ origin' = IF Records(c)
                             THEN [origin EXCEPT ![c][p] = IF page THEN "page" ELSE "sent"]
                             ELSE origin
    /\ asked' = [asked EXCEPT ![c] = Quiet]
    /\ UNCHANGED <<external, registry, refs, poll, sub, spent>>

-----------------------------------------------------------------------------

Agents == \E p \in Panes : Starts(p) \/ Writes(p) \/ EndsPane(p)
Poll == \/ PollStarts \/ HostAnswers \/ PollApplies \/ PollRejects \/ PollWatches
        \/ (\E p \in Panes : PollReads(p)) \/ PollSends
Frames(c) ==
    \/ \E p \in Panes : Subscribe(c, p) \/ ReadPane(c, p, "read") \/ ReadPane(c, p, "page")
    \/ Unsubscribe(c)
Handler(c) == HandlerReads(c) \/ HandlerSends(c)

Events == \E p \in Panes : Discovers(p)

Next == Agents \/ Poll \/ Events \/ \E c \in Clients : Frames(c) \/ Handler(c)

Spec == Init /\ [][Next]_vars

\* The poll loop never stops, and a handler finishes the frame it took.
FairSpec == Spec /\ WF_vars(Poll) /\ \A c \in Clients : WF_vars(Handler(c))

-----------------------------------------------------------------------------

\* Two panes of one listing never stream each other's transcripts (blocks.py:3-5),
\* although references come, go, are cleared and are stale, panes close and leave
\* their files, and events register other panes before the next poll counts them.
ListedNeighbourIsNotShown ==
    \A c \in Clients, p \in Panes : shown[c][p] # None => shown[c][p].neighbour # "listed"

\* blocks.py:3-5: two panes running the same agent in the same directory must stream
\* nothing rather than each other's output, however the relay came to know of them.
KnownNeighbourIsNotShown ==
    \A c \in Clients, p \in Panes : shown[c][p] # None => shown[c][p].neighbour = "none"

\* A signature stands for blocks the client was sent since it subscribed, so nothing
\* else is withheld from it as already pushed (transport.py:386), in all but two cases:
\* a page of the pane recorded the signature (server.py:518), or a push did to which a
\* change of the subscription came first (SubscriptionTakesItsSignature).
SignatureWasPushed ==
    \A c \in Clients :
        LET p == sub[c]
        IN p # None /\ sigs[c][p] # None /\ origin[c][p] = "sent"
           => Sig(shown[c][p]) = sigs[c][p]

\* A client that watches a pane whose reference is valid gets the blocks it has not
\* been sent, whatever the poll was doing when it subscribed and whatever events came
\* before the poll (transport.py:364-366), unless a page of the pane, or a push that
\* came after it had left the pane once, recorded the signature.
NewBlocksReachTheWatcher ==
    \A c \in Clients, p \in Panes :
        (sub[c] = p /\ p \in running /\ ref[p] = "good" /\ blocks[p] # 0
            /\ sigs[c][p] # <<p, blocks[p]>>)
        ~> \/ sub[c] # p \/ p \notin running \/ origin[c][p] # "sent"
           \/ Sig(shown[c][p]) = <<p, blocks[p]>>

\* docs/native-protocol.md:1273: an unsubscription removes the pane subscription and
\* the stream signature, so that none is left of a pane a client does not watch.
SubscriptionTakesItsSignature ==
    \A c \in Clients, p \in Panes : sigs[c][p] # None => sub[c] = p

\* herdr.py:316-318: an invalid supplied reference must never silently select
\* another transcript.
InvalidRefSelectsNothing ==
    \A c \in Clients, p \in Panes :
        shown[c][p] # None /\ ref[p] = "invalid" => shown[c][p].of = p

=============================================================================
