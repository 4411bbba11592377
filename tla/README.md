# A TLA+ development of herdr-relay

herdr-relay lets a phone watch and steer coding agents that run in Herdr panes
on several hosts.  This directory holds TLA+ models of its core, the TLC
configurations that check them, and theorems checked by TLAPS.  Paths such as
`operations.py` are below `src/relay/herdr_relay/`.

## 1. The system

| component | state it keeps | operations | who calls it |
| --- | --- | --- | --- |
| durable starts, `operations.py` | `start_operations` in SQLite; `_running`, `_cancel_events` under a lock | `start_session` (fresh or retry), `cancel_start`, one worker thread per operation, recovery at start-up | command threads, workers, `main` |
| Herdr adapter, `herdr.py` | none (subprocesses, local or over ssh) | list agents, look a name up, read a pane, send keys, create a tab, start an agent | workers, poll, handlers |
| dialogs, `dialogs.py` and `server.py` | one dialog per blocked pane, a revision counter per pane | `ensure`, `clear`; `respond_dialog`, free text, `respond`, `read_pane` | poll, pushed events, sockets |
| transport, `transport.py` | last statuses, activity, event queue, poll pace | poll cycle, pushed events, broadcast, catalog wake edge | event loop |
| pane registry, `state.py` | known panes and their hosts | resolve a pane by host and id | every handler |
| dispatch, `server.py` | per socket: remembered replies, rate limits, subscription | one frame at a time per socket | clients |
| projects, `projects.py`, `project_fs.py` | projects, roots, claims of creations in SQLite; directories | create with a lease, reconcile, launch marks | command threads |
| catalogs, `catalogs.py` | model catalog per host in SQLite, one refresh lock | refresh all, refresh a stale host, record success or failure | daily loop, wake edge, clients |
| rate limits, `ratelimit.py` | token buckets | allow or refuse a command | dispatch |
| host power and session end, `lifecycle.py` | none | wake, shut down, terminate | command threads |
| host configuration, `hosts.py`, `config.py` | files and environment | parse, validate | everything |
| screen parsing, `panes.py`, `protocol.py` | none | menus, question block, keys, attention state | dialogs, transport |
| transcripts, `transcripts/` | none | parse and page a transcript | read_pane, streaming |
| web push, audit | push subscriptions; a log file | notify; append | poll; dispatch |
| Telegram bridge, `relay/herdr_telegram.py` | callback targets, typing target, websocket | forward dialogs and answers | its own process |
| event hook, `relay/on_event.py` | none | push one status change | Herdr, a process per event |
| web client, `src/web` | browser state | sends the frames above | users |

How they interact.  A socket's frames are served one at a time on the event
loop; a command that touches SQLite or Herdr runs on a thread
(`asyncio.to_thread`).  Workers of starts are threads of their own and reach
the loop only through the event queue.  The poll loop rebuilds the registry
from one listing of all hosts and applies what it read of each blocked pane;
pushed events do the same for one pane, each in its own task; a manual read
does it too.  Everything that leaves the process may fail, hang up to its
timeout, or have happened although its answer was lost.

What is hard here:

- **interleavings**: concurrent starts and retries of one request, a cancel
  against the worker it cancels, two sockets answering one dialog, three
  sources of captures for one pane;
- **state read before an await and used after it**: a poll's snapshot and
  captures, a pushed event's status, the dialog claimed before a send;
- **crashes**: a start may be anywhere between its row, its tab and its agent
  when the relay dies, while Herdr goes on;
- **lost answers**: a call cut off at its timeout may still be carried out;
- **deadlines and liveness**: a start ends and a question that stays on screen
  is shown, whatever the host answers;
- **reading what was not written to be read**: the choices of a dialog and the
  blocks of a transcript are recovered from screens and files that agents write
  for people, and change while they are read.

`PROJECT.json` lists each hazard at its line with the properties that watch it.

## 2. Modules

| module | models | checked by |
| --- | --- | --- |
| `DurableStarts` | the promise of `start_session`, abstractly: one start per request, one final outcome, one retry per failed start | as a property of `StartOperations` |
| `StartOperations` | durable starts and the Herdr calls of their workers | `MCStartOperations`, 3 runs |
| `StartOperationsProofs` | type correctness, admission, retries, final rows, and that `StartOperations` implements `DurableStarts`; launches, cancels and tabs | TLAPS |
| `Dialogs` | one pane's dialog with every writer and reader of it | `MCDialogs`, 2 runs |
| `DialogsProofs` | every safety property of `Dialogs` | TLAPS |
| `ProjectCreate` | `project_create` and `project_save`: claims, folders, rollbacks | `MCProjectCreate`, 1 run |
| `ProjectCreateProofs` | every property of `ProjectCreate` | TLAPS |
| `CatalogRefresh` | model catalogs, their refreshes and the wake edge | `MCCatalogRefresh`, 1 run |
| `CatalogRefreshProofs` | the safety of `CatalogRefresh` | TLAPS |
| `Allowance` | what a token bucket promises, abstractly | as a property of `RequestReplay` |
| `RequestReplay` | a socket's command loop: remembered answers, the meter, the Herdr calls of a frame | `MCRequestReplay`, 1 run |
| `RequestReplayProofs` | the safety of `RequestReplay`, and that its meter implements `Allowance` | TLAPS |
| `TranscriptFeed` | which transcript a pane is shown, and how a watcher gets its blocks | `MCTranscriptFeed`, 2 runs |
| `TranscriptFeedProofs` | the safety of `TranscriptFeed` | TLAPS |
| `TranscriptPages` | a transcript's rows as blocks, and a walk back through them | `MCTranscriptPages`, 1 run |
| `TranscriptPagesProofs` | every property of `TranscriptPages` | TLAPS |
| `PaneScreens` | what a screen offers, what an answer presses, what identifies a question | `MCPaneScreens`, 1 run |
| `PaneScreensProofs` | every property of `PaneScreens`, under any transcript | TLAPS |

The components share little mutable state with one another: starts, claims and
catalogs are different tables, a dialog exists only in the registry of the
event loop, remembered answers and meters belong to one socket.  They are
therefore modules of their own, each with the part of its surroundings it
meets: `StartOperations` the Herdr its workers use, `Dialogs` the terminal of one
pane with the poll and the hooks, `TranscriptFeed` the agents' files with the poll
and the handlers, `RequestReplay` the registry and the hosts, `PaneScreens` the
agents' interfaces.

Operators under a comment that begins with "Slip:" are used by nothing.  Each is
a definition as a plausible mistake would have written it, beside the
definition it would replace: `PROJECT.json` pairs it with the property that
notices.

## 3. How state and actions correspond to the code

### StartOperations

`rows` is the table `start_operations` (stage, request, source of a retry,
attempt, session, error), `running` and `event` are `_running` and
`_cancel_events`, `client` the command threads of `start_session` and
`cancel_start`, `worker` the threads of `_run`.  A command is a sequence of
steps between which others run: `LookupRequest`, `ReadSource`, `Admit` (one
immediate transaction), `Acknowledge` with `EnsureWorker`; or `Signal` and
`Withdraw`.  A worker is `Load`, `CheckContext`, a probe loop (`Probe`, then
one `Probe...` action per answer, `Pause`, `DeadlinePasses`), `Wake`, `Gate`,
`CreateTab`, `StartAgent`, `Replied`, `CloseTab`, `Record`, `Finish`,
`WriteFailure`, `Exit`.  `phase` tells which of the three probe loops runs.

`tab create` and `agent start` leave the process.  They are put in `calls`, and
Herdr decides them at some later step (`OpenTab`, `RefuseTab`, `AttachAgent`,
`RefuseAgent`), also when the worker gave up at its timeout, was signalled, or
died: that is how an agent can appear that nobody waits for.  `Crash` empties
what lives in memory; `Restart` is the constructor's recovery.  `WorkerRaises`,
`WriteFailureRaises` and `CommandRaises` are exceptions at any step.

Three variables are history and steer nothing: `ran` (tabs an operation's agent
ran in), `unseen` (agents an orphaned call started since the last probe) and
`missed` (operations whose cancel found no event).  Merged into one step: a cancel's
look-up of the event with setting it, and a worker's cancelled check with the
`Transition` that follows it; what a step in between could see ends in the same
rows, events and calls.  Left out: the emitted frames
(planned as `OperationEvents`), prompts, labels and retention of old rows.

### Dialogs

`screen` and `output` are the terminal and Herdr's output revision, `known`,
`lastStatus`, `revision` and `readable` the registry, `heap` every dialog
object made, `current` the one in `pane_dialogs`, `counter` its revision
counter.  `Ensure` and `Clear` are `dialogs.ensure` and `dialogs.clear`; they
are called by `PollSettle`, `EventStarts`, `EventEnsures` and `ShowPane`, each
some steps after the pane was read.  `respond_dialog` is `RespondChoice` and
`RespondText`; a free-text answer is the key sequence of `NextKey` (focus the
field with its digit, type, Enter) and a choice with the field focused sends
Up first; `respond` is `RespondLegacy`.  Each key is sent at one step
(`KeyArrives` or `KeyFails`; it may arrive and its answer be lost) and acted on
at another (`DeliveryGoesOn`, `DeliveryFails`, `Acknowledges`, `LegacyEnds`).

A frame that is refused changes nothing here, so it is no action.  The
footer's free-text row is always drawn.  History: `acks`, `reached`, `pressed`
of a dialog and `saw` of a client.  Left out: the request-replay cache, which
is per socket and a component of its own, and the text of menus.

### ProjectCreate

`claims` is `project_requests`, `projects` and `dirs` the registered and the
existing folders, `thread` the command threads, `calls` what was sent to a file
system, `now` the clock in leases.  `begin_create` is `Replay`,
`RefuseInFlight` or `BeginCreate` (which takes an expired claim over), then the
folder is made (`MakeFolder`, answered by `Created`, `NotCreated`), then
`CompleteCreate`, or `LostClaim` with the rollback (`RemoveFolder`, `Removed`)
and `CancelCreate`.  A remote call may be cut off and met later; a local one
cannot.  `project_save` is `Browse` and `Save`.  Nothing ties the speed of a
thread to the lease.  The checks of `mkdir` on the host are one step with it,
the clock only goes forward, and nobody but the relay removes a folder; `Fill`
is a user putting files there.  Labels, archiving and launch marks are left
out.

### CatalogRefresh

`rows` is `model_catalogs`, `status` the state and `last_refresh_at` of
`catalog_meta`, `lock` is `_refresh_lock`, `task` the frames of the start-up
and daily loop, of clients and of wake tasks, `ready` and `waited` the poll's
memory of hosts.  `Tries` is `refresh_all` (it gives up when the lock is
taken), `GetsLock` is `refresh_stale_host` (it waits, then looks again);
`Begins`, `Marks`, `SkipsDisabled`, `Probes`, `Stores`, `Ends` are `_refresh`.
Times are ages, capped where the code stops telling them apart, so the clock
is not bounded.  A listing is its edition number.  The order of the harnesses
is arbitrary; reading the previous row of a failure is one step with writing
the new one, since every writer holds the lock; `public_frame`'s reconcile
finds nothing left to do after that of `_refresh`; the hosts' readiness is read
at once since their edges are independent; `targeted_*` metadata is never read
and left out.

### RequestReplay

`link` is a socket, `memory` its `request_results` (positions in `log`, oldest
first), `meter` its two token buckets, `work` its handler, `known` the registry of
panes and of live sessions.  A handler takes one frame at a time: `Replay`,
`Limit` or `Admit`, in the order of the loop's conditions, the meter being
charged in the last two.  A frame that is not refused becomes calls (for keys, the
runs of `key_runs`: `KeyRun` is the call that begins with a key, `NextRun` the key the
next one begins with), each of them carried out (`CarryOut`) and then answered (`Succeeds`, `Fails`), refused, or cut off
(`CutOff`), in which case it may be carried out later (`LateArrives`) or
never.  `Answer` remembers and sends; a write may find that the peer is gone.
`log` keeps every frame taken with its answer; the places of its keys that reached
the host and the calls that still may (`arrived`, `late`) are history.  A bucket is `tokens` and the `age` of its last use,
credited when a command comes, as in `TokenBucket.take`; `Allowance` is the
bucket that is refilled at every tick, and `MeterIsAnAllowance` says that one
implements the other.  `known` changes when a poll is applied (`Polled`), when an
event registers a pane that no poll has listed yet (`Discovered`, which adds no
session), and when a session is ended.  Left out: ids of a wrong form, which are
answered like other refusals and, being nonempty strings, remembered like them
(`server.py:873-878`); the frames of starts, projects and catalogs,
which answer from modules of their own; `respond` and `respond_dialog`
(`Dialogs`); subscriptions and pane reads (`TranscriptFeed`).

### TranscriptFeed

The panes run one agent in one directory of one host, the only case in which
the guard of `blocks.py` has something to decide.  `blocks`, `newest` and `ref` are the
agents' files and what Herdr reports of them; `known` and `refs` the registry's
`pane_cwd_map` and `pane_session_refs`; `shared` the panes whose entry is stored with
the ambiguous flag.  `poll` is `_poll_once` between its awaits (`PollStarts` clears
the references, `HostAnswers` binds them, `PollApplies` rebuilds the registry and
counts who shares a directory, `PollWatches` takes the watchers after the snapshot
was sent, `PollReads` is a thread, `PollSends` pushes what changed).  `Discovers` is
`_discover_pushed_pane`: between polls an event adds a pane to the registry with its
flag down and recounts nothing.  `sub` and `sigs` are `subscriptions` and
`stream_sigs`; `asked` is the handler of a client between the await of a read and the
frame it sends.  `Source` is the guard, and `Read` what a thread reads at one point of
its life.  A signature names a transcript and its length: transcripts only grow.

History: `shown`; `origin`, what recorded a signature (blocks sent to a watcher, a
page, or a push that the end of the subscription overtook); `pushed`, the panes
that are known by an event and have not been listed since; and `neighbour` of a
read.  A Codex pane without a reference reads nothing, so the fall-back to the newest
transcript is that of Claude Code and OpenCode.  Left out: sockets that close, with
the subscription and the signatures a handler drops then, and a second socket that
gets the `id(ws)` of a closed one.

### TranscriptPages

`store` tells a session kept as lines (Claude Code, Codex) from one kept as parts
(OpenCode), where a call and its result are one row and nothing is repeated.
`rows` are those lines or parts, `History` what one read makes of them: the newest
that the window reaches (`InReach`), rows to blocks (`ToBlocks`, with a result put into
its call's block, kept on its own where the call is cut off, and rows that a
resumed session repeats read once), and the last blocks of those.  `Page` is
`paginate_blocks`; `PageEndingAt` states the page as the longest run that fits,
which the code finds by a loop (`Loop`, in `TranscriptPagesProofs`; `PageIsLongest`
proves that it finds that page).  `walk` is a client that asks for pages until
it is told that there are no more.  Sizes are relative: a tool with its result is
twice a block.  `split` (history) excludes one case from `WalkIsUnbroken`: a
repeat whose original has left the window is read in its own place.
What a row is, is what the reader makes of it: a failed result without a body is a
`text` in a session of Claude Code, whose reader shows it as a block of its own even
beside its call (`claude.py:345-357`), and a `result` in one of Codex, whose reader
marks the call as failed; an empty one that did not fail is `hidden`.  Rows
without a `uuid` (`claude.py:76`) get ids by place, which shift when the window
moves; agents write none.

### PaneScreens

Pure functions over lines, and the smallest system around them: an agent
`Prints`, `Blocks` on a dialog, its cursor `Moves`, the dialog is `Answered`.  A
line keeps what the readers look at: its kind, number, indentation, box, cursor
and key hint.  `NumberedMenu`, `OpenCodeOptions`, `Bullets`, `DetectOptions`,
`RespondAction` and `QuestionBlock` are the functions of `panes.py`; `Takes` is what
the agent's interface does with what is sent, which the comments of
`respond_action` describe.  The other fixed phrases of `detect_options` behave like
the ones here.  What agents draw is an assumption, `DialogsAreDrawn`: a menu has two rows
or more, numbered from one in one column under a question that is no deeper, with
what wraps a label further right (`RowsSay`), and a ruled-off one has no other gap
(`BlockDrawn`); OpenCode has one row of buttons, its labels in one of three orders, with
the key hint on it or below; a plain prompt has neither.  It comes from the comments and
tests of `panes.py`, and TLC evaluates it for the dialogs of the MC module.  A label is
a token of one word ("AllowOnce").  `Misread` is where the readers do take what was printed for a
dialog, see 7; the properties are about everything else.

## 4. The runs

Every run is exhaustive.  Deadlock is checked throughout: where a model may
come to rest (`Quiescent`) it stutters only there.

| run | question | bounds |
| --- | --- | --- |
| `start_launch` | one start, a cancel and a replay, with a crash at any step and every answer of Herdr: is a session that is reported real, is nothing launched twice, does a cancel stop it | one operation, two threads, three tabs, three commands |
| `start_races` | a start and two retries of it, concurrent and replayed; implements `DurableStarts` | three rows, so that two retries compete for one source; one worker thread, since workers of different operations share only what is keyed by operation; no crashes, which `start_launch` has |
| `start_progress` | does every start end; what does a restart settle | one operation, one crash, one exception |
| `dialog_answers` | two sockets answer and read one pane by either frame | two askings of one question, so that ids could collide; one lost or failed key |
| `dialog_progress` | is a question that stays on screen shown in the end | one poll, one hook, one reader, one answer from elsewhere, one miss; hosts whose panes events may and may not read |
| `project_create` | three commands over two requests and two folders, with a crash, an exception and a failing host | `Lease` 0 and `MaxTime` 2 let two claims expire one after the other |
| `catalog_refresh` | two hosts, two harnesses, every refresher | one change of the world, one client frame, one fault; hosts may be down at first, so one change can wake one; three configurations to restart with |
| `request_replay` | is an answer true, is a request run again only when it was forgotten, does the meter keep its rate | three frames of seven kinds over two ids, a memory of one answer, so that forgetting happens; one socket, since sockets share nothing here but the registry; keys of three runs; one bucket metered, one turned off; two ticks pay for one command |
| `transcript_feed` | does a pane show its own transcript, was what is withheld sent before, does a watcher get what is written | two panes, so that a neighbour comes, goes and leaves its file; two blocks; two frames, so that a pane is left and subscribed to again; one failed read or listing, one pane that closes, one event before the poll; one valid reference beside none and beside an invalid one (neither pane has one while a poll lists) |
| `transcript_pages` | does a walk miss, repeat or stop early while the session grows | both kinds of store; six rows and a window of four, so that rows leave it during a walk; pages of one block and of two bytes, below and above a tool's block |
| `pane_screens` | does an offered choice pick what it says, is every choice offered, is the question's block its own | eight dialogs of five interfaces under every transcript of up to three lines out of nineteen: three lines are two rows and what parts them |
| `cleared_refs` | a statement of the code that it does not keep, see 7 | that of `transcript_feed` with three frames and without events, so that it needs none |

What the properties mean is said above each of them.  Each module also has a
`TypeOK`.  Those of six modules are theorems (section 6), as are
`OneWorkerPerOperation` and `ModelsSurviveFailures`, which no run lists.  The
others hold in the configurations here and are checked by adding `TypeOK` to the
invariants of the `.cfg`, as is `EveryWorkerEnds`, which no run lists either, and as
are the inductive invariants of section 6 from a module that extends both the
MC module and the proofs.

Why the bounds are enough: each hazard in `PROJECT.json` names the property watching it, and for
every property a slip of the code (a mutant) breaks it under exactly the run's
bounds, so the case the property is about occurs.  What they cannot show is an error
that needs two crashes, two lost keys or three hosts; for the properties of
section 6 the proofs do.

Symmetry is used only in runs without liveness, over ids, threads, sockets and
questions, of which the specifications tell no two apart.

## 5. Fairness

- `StartOperations`: command and worker threads run, their deadlines pass and a
  call ends by its timeout (`subprocess` timeouts in `herdr.py`); a dead relay is
  restarted (`Restart=on-failure` of the service unit).  Nothing is assumed of
  Herdr, hosts and clients: a call may stay undecided for ever.
- `Dialogs`: the poll goes on, and a task whose await ended runs; reads and
  sends end by timeouts.  Nothing is assumed of agents, users and hooks: an event
  may be lost.
- `CatalogRefresh`: the relay is started, the loop wakes each minute, the poll
  goes on, probes end by timeouts, time passes.  Nothing is assumed of who gets
  a contested lock.
- `TranscriptFeed`: the poll loop goes on (`transport.py`'s loop catches what a
  cycle raises) and a handler finishes the frame it took, because reads on
  threads end by their timeouts.  Nothing is assumed of agents and clients.

The other modules have no liveness properties and no fairness.

`EveryStartEnds` excuses an exception, which does strand an operation until the
next restart; `RestartSettlesStranded` says that the restart settles it.

## 6. What is proved

The theorems hold for every value of the constants that satisfies the
`ConstantsOK` of the module; those assumptions are evaluated by TLC in every run.

- `Typing` (`StartOperationsProofs`).  `TypeOK` is not inductive: that a worker
  past its first step has an operation, that its tab is its operation's and that
  a call waited for is its waiter's must be known as well (`FramesOK`, `CallsOK`).
- `TerminalRowsAreFinal`, `Admission`, `Retries` (`StartOperationsProofs`).
  `TypeInv` suffices for the first, since every writer goes through `Updated` or
  `Withdrawn`.  The others need `AdmissionsOK`: the source a command read before
  its transaction is still retryable in it, because failed and cancelled rows
  are final.
- `Refinement` (`StartOperationsProofs`).  A step rewrites one row, inserts one, or
  leaves the journal's promise alone; these map to `Settle`, to
  `Submit` or `Resubmit`, and to stuttering.  That one operation carries a
  request id makes the mapping a function of it.
- `OneWorker`, `StartsAreReal`, `OneLaunch`, `NobodyIsAbandoned`, `OneTab`,
  `CancelStopsStarts` (`StartOperationsProofs`).  `LaunchInv` is a conjunction of layers, each
  proved with the ones before it: `SoleInv`, that a worker is listed in `_running`, alone
  on its operation, and that what is listed has a worker unless something raised;
  `RealInv`, that a session learnt from a reply or a probe is a tab the agent ran in;
  `GateInv`, that a worker which believes no agent runs is wrong only about an orphan's;
  `RootedInv`, that only operations of the journal are worked on; `CancelInv`, that
  a cancel reaches its worker, is noted as missed, or came too late; `CareInv`, that
  an active row has somebody who goes on with it; `TabsInv`, that an operation nothing
  interrupted has one tab, and none before `tab create`.
- `CreateTyping`, `OneFolder`, `FoldersStay`, `NothingLeftBehind`,
  `ClaimsAreServed`, `CompletionsStay` (`ProjectCreateProofs`).  The heart is
  `SoleOwner`: a folder is in one pair of hands, a thread's that made it, a
  rollback's on its way, or a completed request's.  It rests on commands having
  numbers, which tell an overtaken command's late call from a fresh one.
- `DialogTyping`, `AnswersReachTheDialogSeen`, `OneAnswer`, `NoStrayClaim`,
  `ConsumedByOwnAnswer`, `FocusIsOwned` (`DialogsProofs`).  `Numbered` (revisions
  grow and the counter is ahead of them) makes ids unique, so the dialog answered
  is the dialog seen.  `Sole` and `Served` tie each claim to one delivery;
  `Arrived` is what consuming needs.  Steps are sorted by what they do to the
  heap: nothing a delivery minds, one new dialog, one claim, one end.
- `FeedTyping`, `NeighboursStayApart`, `NothingUnsentIsWithheld`
  (`TranscriptFeedProofs`).  `RegistryOK` says that the stored flags are those of the
  last listing: a poll counts anew, and an event adds a pane beside them without
  touching one.  So `Source` takes the newest transcript only where that listing had
  no other pane, and `CleanOK` says that every read in flight is as clean as that.
  What the theorem leaves out is a neighbour known by an event alone, which the code
  does stream (section 7, item 2).  `SignaturesOK` ties a signature to the pane
  watched and to what was sent; it needs `AskedOK`, that a subscription being answered is still
  the client's latest, which holds because a client's frames are handled one by one.
- `CatalogTyping`, `ScheduleCovers`, `DroppedIsNotOffered`, `WakeIsNeeded`,
  `NeverBack`, `FailuresKeepModels` (`CatalogRefreshProofs`).  `CatalogInv` says that
  the lock is held exactly while one task is inside `_refresh`, so that what a
  task read is still so when it writes.  What a refresh no longer has to do is as young
  as the refresh (`CoverOK`), so a full one that ends has covered every harness
  before `last_refresh_at` is set; and what it listed is as new as the row it
  replaces (`EditionOK`), because no other task has written that row since.
- `ReplayTyping`, `RunsOnce`, `RepeatsAreTrue`, `AnswersTell`, `MeterRefines`
  (`RequestReplayProofs`).  `ReplayInv` says that the memory of a socket is the newest of what
  it ever remembered, oldest first; that what is missing from it is older than all of it,
  and then it is full, so `Capacity` answers lie between a forgotten answer and a
  frame that runs again; and that the frame a handler runs is its socket's last
  entry, so that writing its answer disturbs no order.  `MeterRefines` maps tokens
  plus age, capped, to the level of `Allowance`: a tick is a refill of every meter
  whose socket was taken, a charge is an admission or a refusal, and a socket nobody took
  is full in both.  `AnswersTell` adds `TraceInv`, that the keys before a handler's call
  arrived, those after it did not, and only the call after what arrived may be late.  That a
  call ends where the next begins, past its first key, is `NextRunFacts`; it needs the
  least element of a set of numbers, which `Smallest` gets from the well-foundedness of <.
- `PagesTyping`, `RowsShown`, `WalksAreUnbroken`, `WalksGoOn`, `PageIsLongest`
  (`TranscriptPagesProofs`).
  The readers are folds, so the first lemmas say what a fold is after each row:
  `FoldExists` and `ReadersRun` get that by least counterexample, the rest speaks of rows.
  `ShownAs` says where each block's row stands, in order and none left out, `Results`
  where each result is shown; `BlocksOf` carries both over the rows.  They need
  `WellKept`, that a key is one row's, a call has one result and parts are not repeated,
  which `RowsAreKept` makes an invariant by way of the keys in use being 1 to n.
  `WalkFits` is the walk's part: its cursor is the id of the oldest block it was
  given, and what it was given is placed in the session (`Placed`) in order with
  nothing between left out.  `PageJoins` extends that by a page: the cursor's
  block is both the one after the page in what is in reach now and the oldest given
  before, and a row comes first at one place, so the two stretches meet.
  `PageIsLongest` is about `paginate_blocks` alone: its loop, which adds blocks while the
  next one has room, ends (`LoopStops`), and with the page the model takes as the longest
  that fits, for any blocks and limits.  `BytesGrow` is what it rests on: a longer run
  has no fewer bytes, so where the loop stops nothing longer fits (`NoLonger`).
- `ScreensTyping`, `ChoicesAreOffered`, `AnswersPick`, `BlocksAreWhole`
  (`PaneScreensProofs`), under `DialogsAreDrawn` and for any lines printed above, any
  number of them.  The reader of menus is a fold over the screen, so `MenuAt` says what
  it holds after each line of the dialog: from the first row on the run is the
  dialog's own, as far as it is read, and with the last row it is the best.  That the
  first row begins a run of its own is `FirstRowIsOne`: the column of a run is that of a
  row printed (`ReadsColumn`), and the question above the first row is no deeper, so it
  ends the run, unless that row is further left than everything in the dialog
  (`Misread`).  OpenCode's buttons are offered only where no row is below them, which
  every menu has, and the lowest on the screen are the dialog's own, so those quoted above
  change neither.  For the block, `Upward` is followed line by line (`WalkStops`): inside
  the dialog it meets no end, nor `BlockLines` lines without a row, and the edge on top
  ends it.

The proofs cite no fact about fairness, and the bounds of the runs are constants in
them: they hold for every number of crashes, frames, ticks and threads.

Induction over data is done by hand here: the library's induction theorems take an
operator as a parameter, which the installed provers cannot instantiate, but the set
of numbers for which a statement fails has a least element (`Smallest`), and
`Upwards` puts that as induction over the numbers up to n.

Every safety invariant and every refinement that a run checks is stated by a theorem.
Beyond the prover and only model-checked: liveness (`EveryStartEnds`, `RestartSettlesStranded`,
`AskedQuestionIsShown`, `CatalogCatchesUp`, `NewBlocksReachTheWatcher`) and `ENABLED`.

## 7. Where the code and its documents disagree

Each of these is a definition of a module.  Number 1 is the run `cleared_refs`; the
others are seen to fail by naming the definition as the only property of a
configuration of the module's MC module, with the constants given.

1. `InvalidRefSelectsNothing` (`TranscriptFeed`).  `herdr.py:316-318` says that an
   invalid session reference must never silently select another transcript.
   `transport.py:161` clears all references before it asks the hosts for them;
   a subscription or read in between takes the pane for one whose reference was
   left out and may be sent the newest transcript of the directory, of a pane that
   has closed.
2. `KnownNeighbourIsNotShown` (`TranscriptFeed`).  `blocks.py:3-5` says that two panes
   of one agent in one directory must stream nothing rather than each other's
   output.  A pane that an event registers between polls is stored with its flag
   down (`transport.py:434-436`), and the pane listed there before keeps its own down
   until the next poll counts again.  Until then a subscription or read of either,
   without a reference, is given the newest transcript of the directory, which may be
   the other's.  `ListedNeighbourIsNotShown` is what remains true.  With
   `ClearedRefs.cfg` and one event.
3. `SubscriptionTakesItsSignature` (`TranscriptFeed`).  `docs/native-protocol.md:1273`
   says that an unsubscription removes the stream signature.  A push to watchers
   taken before the reads (`transport.py:367-389`) records it again for a client
   that has left.  A later subscription drops only the signature of the pane it leaves
   (`server.py:561-562`); when its own read fails, the poll then withholds blocks that
   were not sent since, until the transcript changes.  `SignatureWasPushed` and
   `NewBlocksReachTheWatcher` except a signature recorded so.  With `ClearedRefs.cfg`.
4. `FailedStartClosesItsTab` (`StartOperations`).  `README.md:152` says that a
   launch failing after its tab exists closes it; a reply that names no pane, a
   call cut off after Herdr opened the tab, an answer that comes after a cancel,
   a close that fails and `AGENT_NOT_OBSERVABLE` leave it open.  With
   `StartLaunch.cfg`, one thread, two tabs, no crash.
5. `CancelReachesTheCall` (`StartOperations`).  `docs/native-protocol.md:872-874`
   says that a worker that is probing or launching terminates its subprocess on a
   cancel.  A cancel that looks the event up (`operations.py:745`) before the worker
   registers it (`:496`) signals nobody; the calls are spawned and not terminated
   although the row is cancelled.  Constants as for 4.
6. `ForgottenWhenUnblocked` (`Dialogs`, under `FairSpec`).  `dialogs.py:174` says
   that a pane which is no longer blocked is forgotten.  A blocked event
   applied after the pane went back to work leaves a dialog on it; the poll
   clears only what it last saw blocked itself (`transport.py:342`).  With
   `DialogProgress.cfg`, no output, no frames, no misses.
7. `LaterQuestionIsAnswerable` (`Dialogs`, under `FairSpec`).  `dialogs.py:79-81`
   says that a dialog stays consumed until a revision proves a new observation.
   The same question asked again before the first answer's delivery returns gives
   its revision to the dialog that is then consumed, and is refused as answered.
   With `DialogProgress.cfg`, two askings, no moves, no events, no misses.
8. `DigitIsPressedOnce` (`Dialogs`).  `docs/native-protocol.md:1148-1149` says that
   a retry does not press the digit again.  A capture read before the digit and
   applied after a later key failed takes the focus back (`dialogs.py:87-88`), and
   the retry presses it into the field.  With `DialogAnswers.cfg`, one client, one
   asking, no output.
9. `FailedTabWasNotMade` (`RequestReplay`).  `server.py:682` says that a failed
   create made no tab, so a retry must be allowed to make one.  A `tab create` that
   was cut off may be carried out after it was answered `HERDR_FAILED`, and the
   retry makes a second tab.  With `RequestReplay.cfg`.

Known and not stated as properties:

- an overtaken command's `cancel_create` may delete a fresh claim of the same
  request; a folder stays after a crash between `mkdir` and the claim's end; a
  bookmark may be saved of a folder that a rollback has just removed; an `OSError`
  of the checks after `mkdir` leaves the claim until its lease ends;
- a client's refresh that raises leaves the displayed state at "refreshing"; a
  due refresh may run twice in a row when two find it due;
- frames of starts are emitted after the commit and outside it, so two writers of
  one row may emit in the other order; the recovery snapshot holds 32 rows;
- the handlers of `send_keys` without a request id go on after a failed call
  (`server.py:601`), so later keys arrive without earlier ones;
- a paged `read_pane` of the pane a client watches records its signature
  (`server.py:518`), so the next push is withheld although `transport.py:364-366`
  says that watchers get changed blocks; `SignatureWasPushed` and
  `NewBlocksReachTheWatcher` except such a signature too;
- `panes.py` takes printed text for a dialog in the cases of `Misread`: Kiro's own
  phrase quoted above another dialog; a list, OpenCode's buttons with their hint, or
  the title or question of another dialog, printed above a bare `[y/n]` (the last was
  met by the proof, not by a run); a numbered list further left than everything
  in the dialog, whose last label goes on to the dialog's end; and OpenCode's
  dialog is not ruled off, so its question block may begin in the transcript.

## 8. What is not modelled, and the plan

Not modelled because there is nothing for a model checker: packaging, the
audit log's format, host configuration files, web push calls, the look of the web
client, the text of tools and titles.

Not modelled yet:

1. `OperationEvents`: the frames of starts against the rows (`_emit` after the
   commit, the recovery snapshot of 32 rows, what a reconnecting client learns).
2. `PollPacing` and the event queue of `transport.py`: the poll's intervals and
   broadcast to sockets that go.
3. `attention_state` and completion counters of `protocol.py`, with the clients'
   acknowledgements.
4. `TelegramBridge` and `on_event.py`: callback targets that outlive a dialog.
   Reading it showed that a partial listing replaces the bridge's agents, while
   `docs/native-protocol.md:188-191` asks clients to tell by `hosts`, and that a blocked
   frame missed while it is disconnected is not sent again.
