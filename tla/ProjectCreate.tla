---------------------------- MODULE ProjectCreate ----------------------------
(***************************************************************************)
(* project_create and project_save: the claims and projects of             *)
(* relay/herdr_relay/projects.py (SQLite) and the directories that         *)
(* project_fs.py makes and removes outside every transaction, here or over *)
(* ssh.                                                                    *)
(*                                                                         *)
(* Every command runs on a thread of its own; a transaction is one step,   *)
(* a call to the file system is sent in one step, met by the host in       *)
(* another and read in a third.                                            *)
(***************************************************************************)
EXTENDS Naturals, FiniteSets

CONSTANTS Requests,    \* request ids of project_create
          Folders,     \* canonical paths below configured roots, host included
          Remote,      \* those on a host reached over ssh
          Threads,     \* command threads
          None,        \* no folder, request or reply
          Lease,       \* CREATE_LEASE_MS
          MaxTime,     \* bound: the wall clock
          MaxCommands, \* bound: commands served
          MaxCrashes,  \* bound: crashes of the relay
          MaxRaises,   \* bound: transactions that raise
          MaxFailures  \* bound: calls refused, and ssh calls cut off

ASSUME ConstantsOK ==
    /\ Remote \subseteq Folders
    /\ None \notin Requests \cup Folders \cup {"ok", "exists", "error"}
    /\ Lease \in Nat /\ MaxTime \in Nat
    /\ MaxCommands \in Nat /\ MaxCrashes \in Nat
    /\ MaxRaises \in Nat /\ MaxFailures \in Nat

VARIABLES
    claims,    \* project_requests, by request id
    projects,  \* folders with a row in projects
    dirs,      \* folders that exist
    filled,    \* folders somebody put files in
    thread,    \* the commands' frames
    calls,     \* calls sent to a file system and not met yet
    now,       \* the wall clock, in units of the lease
    spent,     \* how much of each bound is spent
    acked      \* history: folders a request was acknowledged with

store == <<claims, projects>>
disk == <<dirs, filled>>
vars == <<claims, projects, dirs, filled, thread, calls, now, spent, acked>>

-----------------------------------------------------------------------------

\* A row of project_requests: project is NULL until it is completed.
Claim == [status: {"none", "in_flight", "completed"},
          project: Folders \cup {None}, at: Nat]

NoClaim == [status |-> "none", project |-> None, at |-> 0]

PC == {"idle", "claim", "create", "complete", "remove", "cancel", "browse",
       "save"}
Reply == {None, "ok", "exists", "error"}

\* What a thread waits for or does next.  command numbers the commands.
Frame == [pc: PC, request: Requests \cup {None}, folder: Folders \cup {None},
          command: Nat, reply: Reply]

IdleFrame == [pc |-> "idle", request |-> None, folder |-> None,
              command |-> 0, reply |-> None]

Call == [kind: {"create", "remove"}, folder: Folders, command: Nat]

CallOf(t, kind) ==
    [kind |-> kind, folder |-> thread[t].folder, command |-> thread[t].command]

Spend(what) == spent' = [spent EXCEPT ![what] = @ + 1]

Init ==
    /\ claims = [r \in Requests |-> NoClaim]
    /\ projects = {} /\ dirs = {} /\ filled = {}
    /\ thread = [t \in Threads |-> IdleFrame]
    /\ calls = {} /\ now = 0
    /\ spent = [commands |-> 0, crashes |-> 0, raises |-> 0, failures |-> 0]
    /\ acked = [r \in Requests |-> {}]

-----------------------------------------------------------------------------
(* Commands.                                                                *)

\* A request id may come again, also with another folder: the replies that
\* server.py remembers are one socket's own.
CommandComes(t, frame) ==
    /\ thread[t].pc = "idle"
    /\ spent.commands < MaxCommands
    /\ Spend("commands")
    /\ thread' = [thread EXCEPT ![t] = frame]
    /\ UNCHANGED <<store, disk, calls, now, acked>>

CreateCommand(t, r, f) ==
    CommandComes(t, [pc |-> "claim", request |-> r, folder |-> f,
                     command |-> spent.commands + 1, reply |-> None])

SaveCommand(t, f) ==
    CommandComes(t, [pc |-> "browse", request |-> None, folder |-> f,
                     command |-> spent.commands + 1, reply |-> None])

\* A command ends with its frame; what it answers is only of interest when
\* it acknowledges.
Ends(t) == thread' = [thread EXCEPT ![t] = IdleFrame]

GoesTo(t, pc) ==
    thread' = [thread EXCEPT ![t] = [@ EXCEPT !.pc = pc, !.reply = None]]

-----------------------------------------------------------------------------
(* project_create.                                                          *)

InFlight(r) == claims[r].status = "in_flight" /\ now - claims[r].at <= Lease

\* begin_create finds the request completed and returns its project, whatever
\* folder this command names.  Slip: any row of the request is replayed.
ReplayAny(t) ==
    /\ thread[t].pc = "claim"
    /\ claims[thread[t].request].status # "none"
    /\ acked' = [acked EXCEPT ![thread[t].request] =
                    @ \cup {claims[thread[t].request].project}]
    /\ Ends(t)
    /\ UNCHANGED <<store, disk, calls, now, spent>>
Replay(t) ==
    /\ thread[t].pc = "claim"
    /\ claims[thread[t].request].status = "completed"
    /\ acked' = [acked EXCEPT ![thread[t].request] =
                    @ \cup {claims[thread[t].request].project}]
    /\ Ends(t)
    /\ UNCHANGED <<store, disk, calls, now, spent>>

\* REQUEST_IN_FLIGHT.
RefuseInFlight(t) ==
    /\ thread[t].pc = "claim"
    /\ InFlight(thread[t].request)
    /\ Ends(t)
    /\ UNCHANGED <<store, disk, calls, now, spent, acked>>

\* begin_create inserts a claim, in place of one whose lease has expired, and
\* the thread goes on to make the folder.
BeginCreate(t) ==
    LET r == thread[t].request IN
    /\ thread[t].pc = "claim"
    /\ claims[r].status # "completed" /\ ~InFlight(r)
    /\ claims' = [claims EXCEPT ![r] =
                    [status |-> "in_flight", project |-> None, at |-> now]]
    /\ calls' = calls \cup {CallOf(t, "create")}
    /\ GoesTo(t, "create")
    /\ UNCHANGED <<projects, disk, now, spent, acked>>

Created(t) ==
    /\ thread[t].pc = "create" /\ thread[t].reply = "ok"
    /\ GoesTo(t, "complete")
    /\ UNCHANGED <<store, disk, calls, now, spent, acked>>

\* FilesystemError.  Slips: whatever was there is removed; the claim is kept.
AnswersOnly(t) ==
    /\ thread[t].pc = "create" /\ thread[t].reply \in {"exists", "error"}
    /\ Ends(t)
    /\ UNCHANGED <<store, disk, calls, now, spent, acked>>
RollsBack(t) ==
    /\ thread[t].pc = "create" /\ thread[t].reply \in {"exists", "error"}
    /\ calls' = calls \cup {CallOf(t, "remove")}
    /\ GoesTo(t, "remove")
    /\ UNCHANGED <<store, disk, now, spent, acked>>
NotCreated(t) ==
    /\ thread[t].pc = "create" /\ thread[t].reply \in {"exists", "error"}
    /\ GoesTo(t, "cancel")
    /\ UNCHANGED <<store, disk, calls, now, spent, acked>>

\* A check of the new folder raises something that is no FilesystemError: the
\* folder is removed again, create() does not catch it, the claim stays.
CreateRaises(t) ==
    /\ thread[t].pc = "create" /\ CallOf(t, "create") \in calls
    /\ spent.raises < MaxRaises /\ Spend("raises")
    /\ calls' = calls \ {CallOf(t, "create")}
    /\ Ends(t)
    /\ UNCHANGED <<store, disk, now, acked>>

\* complete_create: the claim, whoever made it, is completed and the folder
\* registered in one transaction.  Slip: the claim is not looked up.
Unclaimed(r) == TRUE
StillClaimed(r) == claims[r].status = "in_flight"

CompleteCreate(t) ==
    LET r == thread[t].request  f == thread[t].folder IN
    /\ thread[t].pc = "complete"
    /\ StillClaimed(r)
    /\ projects' = projects \cup {f}
    /\ claims' = [claims EXCEPT ![r] =
                    [status |-> "completed", project |-> f, at |-> now]]
    /\ acked' = [acked EXCEPT ![r] = @ \cup {f}]
    /\ Ends(t)
    /\ UNCHANGED <<disk, calls, now, spent>>

\* "Create request lost its durable claim": the folder is rolled back.
\* Slip: a lost claim is only answered, not rolled back.
AnswersLostClaim(t) ==
    /\ thread[t].pc = "complete"
    /\ ~StillClaimed(thread[t].request)
    /\ GoesTo(t, "cancel")
    /\ UNCHANGED <<store, disk, calls, now, spent, acked>>
LostClaim(t) ==
    /\ thread[t].pc = "complete"
    /\ ~StillClaimed(thread[t].request)
    /\ calls' = calls \cup {CallOf(t, "remove")}
    /\ GoesTo(t, "remove")
    /\ UNCHANGED <<store, disk, now, spent, acked>>

\* Any other exception of complete_create rolls the transaction back too.
CompleteRaises(t) ==
    /\ thread[t].pc = "complete"
    /\ spent.raises < MaxRaises /\ Spend("raises")
    /\ calls' = calls \cup {CallOf(t, "remove")}
    /\ GoesTo(t, "remove")
    /\ UNCHANGED <<store, disk, now, acked>>

\* finally: cancel_create, whether remove_empty succeeded or raised.
Removed(t) ==
    /\ thread[t].pc = "remove" /\ thread[t].reply # None
    /\ GoesTo(t, "cancel")
    /\ UNCHANGED <<store, disk, calls, now, spent, acked>>

\* cancel_create deletes a claim in flight, whoever made it.
\* Slip: it deletes the row whatever its status.
Deleted(r) == NoClaim
Cancelled(r) == IF claims[r].status = "in_flight" THEN NoClaim ELSE claims[r]

CancelCreate(t) ==
    LET r == thread[t].request IN
    /\ thread[t].pc = "cancel"
    /\ claims' = [claims EXCEPT ![r] = Cancelled(r)]
    /\ Ends(t)
    /\ UNCHANGED <<projects, disk, calls, now, spent, acked>>

CancelRaises(t) ==
    /\ thread[t].pc = "cancel"
    /\ spent.raises < MaxRaises /\ Spend("raises")
    /\ Ends(t)
    /\ UNCHANGED <<store, disk, calls, now, acked>>

-----------------------------------------------------------------------------
(* project_save.                                                            *)

Browse(t) ==
    /\ thread[t].pc = "browse"
    /\ \/ thread[t].folder \in dirs /\ GoesTo(t, "save")
       \/ Ends(t)
    /\ UNCHANGED <<store, disk, calls, now, spent, acked>>

Save(t) ==
    /\ thread[t].pc = "save"
    /\ projects' = projects \cup {thread[t].folder}
    /\ Ends(t)
    /\ UNCHANGED <<claims, disk, calls, now, spent, acked>>

-----------------------------------------------------------------------------
(* The file systems.                                                        *)

\* The reply is for the thread that still waits for it, if there is one.
Heard(q, reply) ==
    [t \in Threads |->
        IF thread[t].command = q.command /\ thread[t].pc = q.kind
        THEN [thread[t] EXCEPT !.reply = reply] ELSE thread[t]]

\* mkdir makes the folder or finds it there.  The checks that follow it are
\* part of the step: one that fails removes the folder again, as in CallFails.
Made(q) == IF q.folder \in dirs THEN "exists" ELSE "ok"

MakeFolder(q) ==
    /\ q \in calls /\ q.kind = "create"
    /\ calls' = calls \ {q}
    /\ dirs' = dirs \cup {q.folder}
    /\ thread' = Heard(q, Made(q))
    /\ UNCHANGED <<store, filled, now, spent, acked>>

\* rmdir leaves a folder that is not empty, and that is no error.
RemoveFolder(q) ==
    /\ q \in calls /\ q.kind = "remove"
    /\ calls' = calls \ {q}
    /\ dirs' = IF q.folder \in filled THEN dirs ELSE dirs \ {q.folder}
    /\ thread' = Heard(q, "ok")
    /\ UNCHANGED <<store, filled, now, spent, acked>>

\* The host cannot be reached, or refuses: nothing was done that stays done.
CallFails(q) ==
    /\ q \in calls
    /\ spent.failures < MaxFailures /\ Spend("failures")
    /\ calls' = calls \ {q}
    /\ thread' = Heard(q, "error")
    /\ UNCHANGED <<store, disk, now, acked>>

\* readiness_timeout_seconds cuts the ssh call off: the host may have met it,
\* may meet it later, or never.
TimesOut(t) ==
    /\ thread[t].pc \in {"create", "remove"}
    /\ thread[t].folder \in Remote
    /\ spent.failures < MaxFailures /\ Spend("failures")
    /\ GoesTo(t, "cancel")
    /\ UNCHANGED <<store, disk, calls, now, acked>>

\* Somebody puts files into a folder.
Fill(f) ==
    /\ f \in dirs \ filled
    /\ filled' = filled \cup {f}
    /\ UNCHANGED <<store, dirs, thread, calls, now, spent, acked>>

-----------------------------------------------------------------------------

\* Threads may be slow, the relay's machine may sleep: nothing ties the steps
\* of a command to the wall clock its lease is measured with.
Tick ==
    /\ now < MaxTime
    /\ now' = now + 1
    /\ UNCHANGED <<store, disk, thread, calls, spent, acked>>

\* The relay dies and is started again, which leaves claims as they are.
Crash ==
    /\ spent.crashes < MaxCrashes /\ Spend("crashes")
    /\ thread' = [t \in Threads |-> IdleFrame]
    /\ calls' = {q \in calls : q.folder \in Remote}
    /\ UNCHANGED <<store, disk, now, acked>>

Quiescent ==
    /\ \A t \in Threads : thread[t].pc = "idle"
    /\ UNCHANGED vars

CreateStep(t) ==
    \/ Replay(t) \/ RefuseInFlight(t) \/ BeginCreate(t) \/ Created(t)
    \/ NotCreated(t) \/ CreateRaises(t) \/ CompleteCreate(t) \/ LostClaim(t)
    \/ CompleteRaises(t) \/ Removed(t) \/ CancelCreate(t) \/ CancelRaises(t)

Next ==
    \/ \E t \in Threads :
        \/ \E f \in Folders : SaveCommand(t, f)
        \/ \E r \in Requests, f \in Folders : CreateCommand(t, r, f)
        \/ CreateStep(t) \/ Browse(t) \/ Save(t) \/ TimesOut(t)
    \/ \E q \in calls : MakeFolder(q) \/ RemoveFolder(q) \/ CallFails(q)
    \/ \E f \in Folders : Fill(f)
    \/ Tick \/ Crash \/ Quiescent

Spec == Init /\ [][Next]_vars

-----------------------------------------------------------------------------
(* Properties.                                                              *)

\* The variables have the types the tables and the frames give them.
TypeOK ==
    /\ claims \in [Requests -> Claim]
    /\ projects \subseteq Folders
    /\ dirs \subseteq Folders /\ filled \subseteq Folders
    /\ thread \in [Threads -> Frame]
    /\ calls \subseteq Call
    /\ now \in Nat
    /\ spent \in [{"commands", "crashes", "raises", "failures"} -> Nat]
    /\ acked \in [Requests -> SUBSET Folders]

\* However often a request is sent, with whatever folder, by whoever takes
\* its claim over or away, every acknowledgement names one and the same folder.
OneFolderPerRequest ==
    \A r \in Requests : \A f, g \in acked[r] : f = g

\* The late cancel_create of a command whose claim was taken over cannot undo
\* what the other completed: a completed request stays completed.
CompletedIsFinal ==
    [][\A r \in Requests :
        claims[r].status = "completed" => claims'[r] = claims[r]]_vars

\* A rollback removes a folder only while no request is completed with it: the
\* folder a completed request stands for is registered and exists.
CompletedFolderIsThere ==
    \A r \in Requests : claims[r].status = "completed" =>
        claims[r].project \in projects \cap dirs

Making(t) ==
    \/ thread[t].pc = "create" /\ thread[t].reply = "ok"
    \/ thread[t].pc = "complete"
    \/ thread[t].pc = "remove" /\ thread[t].reply = None

\* Unless the relay dies or a host fails it, no create leaves an unregistered
\* folder that would refuse every later attempt with FOLDER_EXISTS.
NoFolderIsLeftBehind ==
    spent.crashes = 0 /\ spent.failures = 0 =>
        \A f \in dirs \ (projects \cup filled) :
            \E t \in Threads : thread[t].folder = f /\ Making(t)

\* Unless the relay dies or something raises, a claim in flight has a
\* command that will end it, also after claims were taken over.
NoClaimIsAbandoned ==
    spent.crashes = 0 /\ spent.raises = 0 =>
        \A r \in Requests : claims[r].status = "in_flight" =>
            \E t \in Threads :
                thread[t].request = r
                /\ thread[t].pc \in {"create", "complete", "remove", "cancel"}

=============================================================================
