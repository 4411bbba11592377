------------------------- MODULE ProjectCreateProofs -------------------------
(***************************************************************************)
(* Proofs about ProjectCreate: type correctness and every safety property. *)
(*                                                                         *)
(* The heart is SoleOwner: a folder is in at most one pair of hands, of    *)
(* the thread that made it, of a rollback on its way to the host, or of a  *)
(* request completed with it.  It holds because mkdir makes a folder for   *)
(* one caller only, and because numbers tell commands and calls apart.     *)
(***************************************************************************)
EXTENDS ProjectCreate, TLAPS

-----------------------------------------------------------------------------
(* Frames.                                                                  *)

\* A frame that goes on keeps its request, its folder and its number.
LEMMA FrameGoesOn ==
    ASSUME NEW f \in Frame, NEW pc \in PC
    PROVE  LET g == [f EXCEPT !.pc = pc, !.reply = None] IN
           /\ g \in Frame /\ g.pc = pc /\ g.reply = None
           /\ g.folder = f.folder /\ g.command = f.command
           /\ g.request = f.request
  BY DEF Frame, Reply

\* A thread that hears of its call stays where it is, with its folder, command and request.
LEMMA FrameHears ==
    ASSUME NEW f \in Frame, NEW reply \in Reply
    PROVE  LET g == [f EXCEPT !.reply = reply] IN
           /\ g \in Frame /\ g.pc = f.pc /\ g.reply = reply
           /\ g.folder = f.folder /\ g.command = f.command
           /\ g.request = f.request
  BY DEF Frame

\* A thread at rest has a frame without a command.
LEMMA IdleFrameTyped ==
    /\ IdleFrame \in Frame
    /\ IdleFrame.pc = "idle" /\ IdleFrame.command = 0
  BY DEF IdleFrame, Frame, PC, Reply

\* GoesTo and Ends change one frame.
LEMMA GoesOn ==
    ASSUME thread \in [Threads -> Frame], NEW t \in Threads, NEW pc \in PC,
           GoesTo(t, pc)
    PROVE  /\ thread' \in [Threads -> Frame]
           /\ thread'[t].pc = pc /\ thread'[t].reply = None
           /\ \A u \in Threads : /\ thread'[u].folder = thread[u].folder
                                 /\ thread'[u].command = thread[u].command
                                 /\ thread'[u].request = thread[u].request
           /\ \A u \in Threads : u # t => thread'[u] = thread[u]
  <1> DEFINE g == [thread[t] EXCEPT !.pc = pc, !.reply = None]
  <1>1. thread' = [thread EXCEPT ![t] = g]
    BY DEF GoesTo
  <1>2. /\ g \in Frame /\ g.pc = pc /\ g.reply = None
        /\ g.folder = thread[t].folder /\ g.command = thread[t].command
        /\ g.request = thread[t].request
    BY FrameGoesOn
  <1> HIDE DEF g
  <1> QED
    BY <1>1, <1>2

\* A thread whose command ends is at rest, and no other moves.
LEMMA Ended ==
    ASSUME thread \in [Threads -> Frame], NEW t \in Threads, Ends(t)
    PROVE  /\ thread' \in [Threads -> Frame]
           /\ thread'[t].pc = "idle" /\ thread'[t].command = 0
           /\ \A u \in Threads : u # t => thread'[u] = thread[u]
  BY IdleFrameTyped DEF Ends

\* Heard changes nothing but replies, and only of a thread that waits for it.
LEMMA HeardBy ==
    ASSUME thread \in [Threads -> Frame], NEW q, NEW reply \in Reply,
           thread' = Heard(q, reply)
    PROVE  /\ thread' \in [Threads -> Frame]
           /\ \A u \in Threads : /\ thread'[u].pc = thread[u].pc
                                 /\ thread'[u].folder = thread[u].folder
                                 /\ thread'[u].command = thread[u].command
                                 /\ thread'[u].request = thread[u].request
           /\ \A u \in Threads :
                 thread[u].command = q.command /\ thread[u].pc = q.kind
                 => thread'[u].reply = reply
           /\ \A u \in Threads :
                 ~(thread[u].command = q.command /\ thread[u].pc = q.kind)
                 => thread'[u] = thread[u]
  <1> DEFINE Hears(u) == thread[u].command = q.command /\ thread[u].pc = q.kind
  <1>1. \A u \in Threads : Hears(u) => thread'[u] = [thread[u] EXCEPT !.reply = reply]
    BY DEF Heard
  <1>2. \A u \in Threads : ~Hears(u) => thread'[u] = thread[u]
    BY DEF Heard
  <1>3. thread' = [u \in Threads |-> thread'[u]]
    BY DEF Heard
  <1> HIDE DEF Hears
  <1>4. ASSUME NEW u \in Threads, Hears(u)
        PROVE  /\ thread'[u] \in Frame /\ thread'[u].pc = thread[u].pc
               /\ thread'[u].folder = thread[u].folder
               /\ thread'[u].command = thread[u].command
               /\ thread'[u].request = thread[u].request
               /\ thread'[u].reply = reply
    <2> DEFINE g == [thread[u] EXCEPT !.reply = reply]
    <2>1. thread[u] \in Frame
      OBVIOUS
    <2>2. /\ g \in Frame /\ g.pc = thread[u].pc /\ g.reply = reply
          /\ g.folder = thread[u].folder /\ g.command = thread[u].command
          /\ g.request = thread[u].request
      BY <2>1, FrameHears
    <2>3. thread'[u] = g
      BY <1>1, <1>4
    <2> HIDE DEF g
    <2> QED
      BY <2>2, <2>3
  <1>5. \A u \in Threads : thread'[u] \in Frame
    BY <1>2, <1>4
  <1>6. thread' \in [Threads -> Frame]
    BY <1>3, <1>5
  <1>7. \A u \in Threads : /\ thread'[u].pc = thread[u].pc
                           /\ thread'[u].folder = thread[u].folder
                           /\ thread'[u].command = thread[u].command
                           /\ thread'[u].request = thread[u].request
    BY <1>2, <1>4
  <1>8. \A u \in Threads : Hears(u) => thread'[u].reply = reply
    BY <1>4
  <1> QED
    BY <1>2, <1>6, <1>7, <1>8 DEF Hears

-----------------------------------------------------------------------------
(* Types.                                                                   *)

\* A thread at work knows its folder and, in a create, its request.
Serving ==
    \A t \in Threads :
        /\ thread[t].pc # "idle" => thread[t].folder \in Folders
        /\ thread[t].pc \notin {"idle", "browse", "save"}
              => thread[t].request \in Requests

\* A completed request names its project.
Named ==
    \A r \in Requests :
        claims[r].status = "completed" => claims[r].project \in Folders

Typed == TypeOK /\ Serving /\ Named

\* Typing holds when the relay starts.
LEMMA TypedInit == ASSUME Init PROVE Typed
  <1>1. NoClaim \in Claim
    BY DEF NoClaim, Claim
  <1>2. IdleFrame \in Frame /\ IdleFrame.pc = "idle"
    BY IdleFrameTyped
  <1>3. TypeOK
    BY <1>1, <1>2 DEF Init, TypeOK
  <1>4. \A t \in Threads : thread[t].pc = "idle"
    BY <1>2 DEF Init
  <1>5. Named
    BY DEF Named, Init, NoClaim
  <1> QED
    BY <1>3, <1>4, <1>5 DEF Typed, Serving

\* What a step does to the frames decides whether they stay typed.
LEMMA ServingStep ==
    ASSUME Serving, NEW t \in Threads,
           \A u \in Threads : u # t => thread'[u] = thread[u],
           \/ thread'[t].pc = "idle"
           \/ /\ thread'[t].folder \in Folders
              /\ \/ thread'[t].request \in Requests
                 \/ thread'[t].pc \in {"browse", "save"}
    PROVE  Serving'
  BY DEF Serving

\* The frame of a new command.
LEMMA CommandFrame ==
    ASSUME Typed, NEW t \in Threads, NEW pc \in {"claim", "browse"},
           NEW r \in Requests \cup {None}, NEW f \in Folders,
           pc = "browse" \/ r \in Requests,
           CommandComes(t, [pc |-> pc, request |-> r, folder |-> f,
                            command |-> spent.commands + 1, reply |-> None])
    PROVE  Typed'
  <1> DEFINE g == [pc |-> pc, request |-> r, folder |-> f,
                   command |-> spent.commands + 1, reply |-> None]
  <1>1. /\ spent.commands + 1 \in Nat
        /\ spent' \in [{"commands", "crashes", "raises", "failures"} -> Nat]
    BY DEF CommandComes, Spend, Typed, TypeOK
  <1>2. g \in Frame /\ g.pc = pc /\ g.request = r /\ g.folder = f
    BY <1>1 DEF Frame, PC, Reply
  <1>3. thread' = [thread EXCEPT ![t] = g]
    BY DEF CommandComes
  <1> HIDE DEF g
  <1>4. thread' \in [Threads -> Frame] /\ thread'[t] = g
    BY <1>2, <1>3 DEF Typed, TypeOK
  <1>5. \A u \in Threads : u # t => thread'[u] = thread[u]
    BY <1>3 DEF Typed, TypeOK
  <1>6. TypeOK'
    BY <1>1, <1>4 DEF CommandComes, Typed, TypeOK, store, disk
  <1>7. Serving'
    BY <1>2, <1>4, <1>5, ServingStep DEF Typed
  <1>8. Named'
    BY DEF CommandComes, store, Typed, Named
  <1> QED
    BY <1>6, <1>7, <1>8 DEF Typed

\* A thread at work sends calls of the right kind.
LEMMA CallTyped ==
    ASSUME Typed, NEW t \in Threads, thread[t].pc # "idle",
           NEW kind \in {"create", "remove"}
    PROVE  CallOf(t, kind) \in Call
  <1>1. thread[t].folder \in Folders
    BY DEF Typed, Serving
  <1>2. thread[t].command \in Nat
    BY DEF Typed, TypeOK, Frame
  <1> QED
    BY <1>1, <1>2 DEF CallOf, Call

\* Every step keeps the types.
LEMMA TypedNext == ASSUME Typed, [Next]_vars PROVE Typed'
  <1> USE DEF store, disk
  <1>1. CASE \E t \in Threads, f \in Folders : SaveCommand(t, f)
    BY <1>1, CommandFrame DEF SaveCommand
  <1>2. CASE \E t \in Threads, r \in Requests, f \in Folders : CreateCommand(t, r, f)
    BY <1>2, CommandFrame DEF CreateCommand
  <1>3. ASSUME NEW t \in Threads, CreateStep(t) \/ Browse(t) \/ Save(t) \/ TimesOut(t)
        PROVE  Typed'
    <2>0. /\ thread \in [Threads -> Frame] /\ Serving
          /\ spent \in [{"commands", "crashes", "raises", "failures"} -> Nat]
          /\ thread[t].pc # "idle"
      <3>1. thread[t].pc # "idle"
        BY <1>3 DEF CreateStep, Replay, RefuseInFlight, BeginCreate, Created,
          NotCreated, CreateRaises, CompleteCreate, LostClaim, CompleteRaises,
          Removed, CancelCreate, CancelRaises, Browse, Save, TimesOut
      <3> QED
        BY <3>1 DEF Typed, TypeOK
    <2>1. /\ thread[t].folder \in Folders
          /\ thread[t].request \in Requests
               \/ thread[t].pc \in {"browse", "save"}
      BY <2>0 DEF Serving
    <2>2. /\ thread' \in [Threads -> Frame]
          /\ Serving'
      <3>1. CASE Ends(t)
        BY <2>0, <3>1, Ended, ServingStep
      <3>2. ASSUME NEW pc \in PC, GoesTo(t, pc),
                   thread[t].pc \in {"browse", "save"} => pc = "save"
            PROVE  thread' \in [Threads -> Frame] /\ Serving'
        <4>1. /\ thread' \in [Threads -> Frame] /\ thread'[t].pc = pc
              /\ thread'[t].folder \in Folders
              /\ thread'[t].request = thread[t].request
              /\ \A u \in Threads : u # t => thread'[u] = thread[u]
          BY <2>0, <2>1, <3>2, GoesOn
        <4> QED
          BY <2>0, <2>1, <3>2, <4>1, ServingStep
      <3>3. \/ Ends(t)
            \/ \E pc \in PC : /\ GoesTo(t, pc)
                              /\ thread[t].pc \in {"browse", "save"} => pc = "save"
        BY <1>3 DEF CreateStep, Replay, RefuseInFlight, BeginCreate, Created,
          NotCreated, CreateRaises, CompleteCreate, LostClaim, CompleteRaises,
          Removed, CancelCreate, CancelRaises, Browse, Save, TimesOut, PC
      <3> QED
        BY <3>1, <3>2, <3>3
    <2>3. calls' \subseteq Call
      <3>1. calls \subseteq Call /\ CallOf(t, "create") \in Call /\ CallOf(t, "remove") \in Call
        BY <2>0, CallTyped DEF Typed, TypeOK
      <3>2. calls' \subseteq calls \cup {CallOf(t, "create"), CallOf(t, "remove")}
        BY <1>3 DEF CreateStep, Replay, RefuseInFlight, BeginCreate, Created,
          NotCreated, CreateRaises, CompleteCreate, LostClaim, CompleteRaises,
          Removed, CancelCreate, CancelRaises, Browse, Save, TimesOut
      <3> QED
        BY <3>1, <3>2
    <2>4. /\ claims' \in [Requests -> Claim]
          /\ projects' \subseteq Folders
          /\ acked' \in [Requests -> SUBSET Folders]
          /\ Named'
      <3>0. /\ claims \in [Requests -> Claim] /\ projects \subseteq Folders
            /\ acked \in [Requests -> SUBSET Folders] /\ now \in Nat
            /\ Named
        BY DEF Typed, TypeOK
      <3>1. CASE Replay(t)
        <4>1. thread[t].request \in Requests
          BY <2>1, <3>1 DEF Replay
        <4>2. claims[thread[t].request].project \in Folders
          BY <3>0, <3>1, <4>1 DEF Replay, Named
        <4> QED
          BY <3>0, <3>1, <4>1, <4>2 DEF Replay, Named
      <3>2. CASE BeginCreate(t)
        <4>1. [status |-> "in_flight", project |-> None, at |-> now] \in Claim
          BY <3>0 DEF Claim
        <4> QED
          BY <3>0, <3>2, <4>1 DEF BeginCreate, Named
      <3>3. CASE CompleteCreate(t)
        <4>1. [status |-> "completed", project |-> thread[t].folder, at |-> now] \in Claim
          BY <2>1, <3>0 DEF Claim
        <4> QED
          BY <2>1, <3>0, <3>3, <4>1 DEF CompleteCreate, Named
      <3>4. CASE CancelCreate(t)
        <4>1. NoClaim \in Claim
          BY DEF NoClaim, Claim
        <4>2. \A r \in Requests : Cancelled(r) \in Claim
          BY <3>0, <4>1 DEF Cancelled
        <4>3. \A r \in Requests : Cancelled(r) = claims[r] \/ Cancelled(r).status = "none"
          BY DEF Cancelled, NoClaim
        <4> QED
          BY <3>0, <3>4, <4>2, <4>3 DEF CancelCreate, Named
      <3>5. CASE UNCHANGED <<claims, acked>> /\ projects' \subseteq projects \cup {thread[t].folder}
        BY <2>1, <3>0, <3>5 DEF Named
      <3> QED
        BY <1>3, <3>1, <3>2, <3>3, <3>4, <3>5 DEF CreateStep, RefuseInFlight,
          Created, NotCreated, CreateRaises, LostClaim, CompleteRaises, Removed,
          CancelRaises, Browse, Save, TimesOut
    <2>5. /\ dirs' \subseteq Folders /\ filled' \subseteq Folders /\ now' \in Nat
          /\ spent' \in [{"commands", "crashes", "raises", "failures"} -> Nat]
      BY <1>3 DEF CreateStep, Replay, RefuseInFlight, BeginCreate, Created,
          NotCreated, CreateRaises, CompleteCreate, LostClaim, CompleteRaises,
          Removed, CancelCreate, CancelRaises, Browse, Save, TimesOut, Spend,
          Typed, TypeOK
    <2> QED
      BY <2>2, <2>3, <2>4, <2>5 DEF Typed, TypeOK
  <1>4. ASSUME NEW q \in calls, MakeFolder(q) \/ RemoveFolder(q) \/ CallFails(q)
        PROVE  Typed'
    <2>1. PICK reply \in Reply : thread' = Heard(q, reply)
      BY <1>4 DEF MakeFolder, RemoveFolder, CallFails, Made, Reply
    <2>2. /\ thread' \in [Threads -> Frame]
          /\ \A u \in Threads : /\ thread'[u].pc = thread[u].pc
                                /\ thread'[u].folder = thread[u].folder
                                /\ thread'[u].request = thread[u].request
      BY <2>1, HeardBy DEF Typed, TypeOK
    <2>3. Serving'
      BY <2>2 DEF Typed, Serving
    <2>4. q.folder \in Folders
      BY DEF Typed, TypeOK, Call
    <2>5. TypeOK'
      BY <1>4, <2>2, <2>4 DEF MakeFolder, RemoveFolder, CallFails, Spend, Typed, TypeOK
    <2>6. Named'
      BY <1>4 DEF MakeFolder, RemoveFolder, CallFails, Typed, Named
    <2> QED
      BY <2>3, <2>5, <2>6 DEF Typed
  <1>5. CASE Crash
    <2>1. thread' \in [Threads -> Frame] /\ \A t \in Threads : thread'[t].pc = "idle"
      BY <1>5, IdleFrameTyped DEF Crash
    <2>2. Serving'
      BY <2>1 DEF Serving
    <2>3. TypeOK'
      BY <1>5, <2>1 DEF Crash, Spend, Typed, TypeOK
    <2>4. Named'
      BY <1>5 DEF Crash, Typed, Named
    <2> QED
      BY <2>2, <2>3, <2>4 DEF Typed
  <1>6. CASE Tick \/ (\E f \in Folders : Fill(f)) \/ Quiescent \/ UNCHANGED vars
    BY <1>6 DEF Tick, Fill, Quiescent, vars, Typed, TypeOK, Serving, Named
  <1> QED
    BY <1>1, <1>2, <1>3, <1>4, <1>5, <1>6 DEF Next

-----------------------------------------------------------------------------
(* What a request was acknowledged with.                                    *)

\* Nothing was acknowledged but the project of a completed request.
Answered ==
    \A r \in Requests : \A f \in acked[r] :
        claims[r].status = "completed" /\ f = claims[r].project

\* A step leaves a request alone that is completed, and what it answers is
\* the project the request is or becomes completed with.
LEMMA ClaimsStep ==
    ASSUME Typed, [Next]_vars
    PROVE  \A r \in Requests :
              /\ claims[r].status = "completed" => claims'[r] = claims[r]
              /\ \A f \in acked'[r] \ acked[r] :
                    claims'[r].status = "completed" /\ f = claims'[r].project
  <1> USE DEF store, disk
  <1>0. /\ claims \in [Requests -> Claim] /\ acked \in [Requests -> SUBSET Folders]
        /\ \A t \in Threads : thread[t].pc \notin {"idle", "browse", "save"}
              => thread[t].request \in Requests
    BY DEF Typed, TypeOK, Serving
  <1>1. CASE UNCHANGED <<claims, acked>>
    BY <1>1
  <1>2. CASE \E t \in Threads : Replay(t)
    BY <1>0, <1>2 DEF Replay
  <1>3. CASE \E t \in Threads : BeginCreate(t)
    BY <1>0, <1>3 DEF BeginCreate
  <1>4. ASSUME NEW t \in Threads, CompleteCreate(t)
        PROVE  \A r \in Requests :
                  /\ claims[r].status = "completed" => claims'[r] = claims[r]
                  /\ \A f \in acked'[r] \ acked[r] :
                        claims'[r].status = "completed" /\ f = claims'[r].project
    <2> DEFINE mine == thread[t].request
               done == [status |-> "completed", project |-> thread[t].folder, at |-> now]
    <2>1. mine \in Requests /\ claims[mine].status = "in_flight"
      BY <1>0, <1>4 DEF CompleteCreate, StillClaimed
    <2>2. done.status = "completed" /\ done.project = thread[t].folder
      OBVIOUS
    <2>3. claims' = [claims EXCEPT ![mine] = done]
      BY <1>4 DEF CompleteCreate
    <2>4. acked' = [acked EXCEPT ![mine] = @ \cup {thread[t].folder}]
      BY <1>4 DEF CompleteCreate
    <2> HIDE DEF mine, done
    <2> QED
      BY <1>0, <2>1, <2>2, <2>3, <2>4
  <1>5. ASSUME NEW t \in Threads, CancelCreate(t)
        PROVE  \A r \in Requests :
                  /\ claims[r].status = "completed" => claims'[r] = claims[r]
                  /\ acked'[r] = acked[r]
    BY <1>0, <1>5 DEF CancelCreate, Cancelled
  <1> QED
    BY <1>1, <1>2, <1>3, <1>4, <1>5 DEF Next, CreateStep, SaveCommand,
      CreateCommand, CommandComes, RefuseInFlight, Created, NotCreated,
      CreateRaises, LostClaim, CompleteRaises, Removed, CancelRaises, Browse,
      Save, TimesOut, MakeFolder, RemoveFolder, CallFails, Fill, Tick, Crash,
      Quiescent, vars

\* A completed request stays completed, so what was acknowledged stays its project.
LEMMA AnsweredStep == ASSUME Typed, Answered, [Next]_vars PROVE Answered'
  <1>1. \A r \in Requests :
           /\ claims[r].status = "completed" => claims'[r] = claims[r]
           /\ \A f \in acked'[r] \ acked[r] :
                 claims'[r].status = "completed" /\ f = claims'[r].project
    BY ClaimsStep
  <1> QED
    BY <1>1 DEF Answered

-----------------------------------------------------------------------------
(* Who may remove or register a folder.                                     *)

\* The thread has made its folder and neither registered nor given it up.
Holds(t) ==
    \/ thread[t].pc = "complete"
    \/ thread[t].pc = "create" /\ thread[t].reply = "ok"

Removals == {q \in calls : q.kind = "remove"}

\* The numbers of commands tell calls and threads apart.
Numbered ==
    /\ \A t \in Threads :
          /\ thread[t].command <= spent.commands
          /\ thread[t].pc # "idle" => thread[t].command # 0
    /\ \A t, u \in Threads :
          t # u /\ thread[t].command = thread[u].command => thread[t].command = 0
    /\ \A q \in calls :
          /\ q.command <= spent.commands /\ q.command # 0
          /\ \A t \in Threads :
                thread[t].command = q.command => thread[t].folder = q.folder

\* A folder that exists is in at most one pair of hands: of the thread that
\* made it, of a rollback on its way, or of a completed request.
SoleOwner ==
    /\ \A t \in Threads : Holds(t) => thread[t].folder \in dirs
    /\ \A t, u \in Threads :
          Holds(t) /\ Holds(u) /\ thread[t].folder = thread[u].folder => t = u
    /\ \A q \in Removals :
          /\ q.folder \in dirs
          /\ \A p \in Removals : p.folder = q.folder => p = q
          /\ \A t \in Threads : Holds(t) => thread[t].folder # q.folder
    /\ \A r \in Requests : claims[r].status = "completed" =>
          /\ claims[r].project \in projects \cap dirs
          /\ \A q \in Removals : q.folder # claims[r].project
          /\ \A t \in Threads : Holds(t) => thread[t].folder # claims[r].project

\* A step that makes no holder, sends no rollback and completes nothing.
LEMMA OwnersKept ==
    ASSUME SoleOwner, dirs \subseteq dirs', projects \subseteq projects',
           Removals' \subseteq Removals,
           \A t \in Threads : Holds(t)' =>
               Holds(t) /\ thread'[t].folder = thread[t].folder,
           \A r \in Requests : claims'[r].status = "completed" => claims'[r] = claims[r]
    PROVE  SoleOwner'
  BY DEF SoleOwner

\* A command takes a new number and calls carry their command's, so the numbers stay apart.
LEMMA NumberedStep == ASSUME Typed, Numbered, [Next]_vars PROVE Numbered'
  <1> USE DEF store, disk
  <1>0. /\ thread \in [Threads -> Frame]
        /\ spent \in [{"commands", "crashes", "raises", "failures"} -> Nat]
        /\ spent.commands \in Nat
        /\ \A t \in Threads : thread[t].command \in Nat
        /\ \A q \in calls : q.command \in Nat
    BY DEF Typed, TypeOK, Frame, Call
  <1>1. ASSUME NEW t \in Threads, NEW frame,
               frame.command = spent.commands + 1, CommandComes(t, frame)
        PROVE  Numbered'
    <2>1. /\ thread'[t].command = spent.commands + 1
          /\ \A u \in Threads : u # t => thread'[u] = thread[u]
          /\ spent'.commands = spent.commands + 1
          /\ calls' = calls
      BY <1>0, <1>1 DEF CommandComes, Spend
    <2> QED
      BY <1>0, <2>1 DEF Numbered
  <1>2. ASSUME NEW t \in Threads, NEW f \in Folders,
               \/ SaveCommand(t, f)
               \/ \E r \in Requests : CreateCommand(t, r, f)
        PROVE  Numbered'
    BY <1>1, <1>2 DEF SaveCommand, CreateCommand
  <1>3. ASSUME NEW t \in Threads, CreateStep(t) \/ Browse(t) \/ Save(t) \/ TimesOut(t)
        PROVE  Numbered'
    <2>1. thread[t].pc # "idle" /\ spent'.commands = spent.commands
      BY <1>0, <1>3 DEF CreateStep, Replay, RefuseInFlight, BeginCreate, Created,
        NotCreated, CreateRaises, CompleteCreate, LostClaim, CompleteRaises,
        Removed, CancelCreate, CancelRaises, Browse, Save, TimesOut, Spend
    <2>2. CASE Ends(t) /\ calls' \subseteq calls
      <3>1. /\ thread'[t].pc = "idle" /\ thread'[t].command = 0
            /\ \A u \in Threads : u # t => thread'[u] = thread[u]
        BY <1>0, <2>2, Ended
      <3> QED
        BY <1>0, <2>1, <2>2, <3>1 DEF Numbered
    <2>3. ASSUME NEW pc \in PC, GoesTo(t, pc),
                 calls' \subseteq calls \cup {CallOf(t, "create"), CallOf(t, "remove")}
          PROVE  Numbered'
      <3>1. /\ \A u \in Threads : /\ thread'[u].folder = thread[u].folder
                                  /\ thread'[u].command = thread[u].command
            /\ \A u \in Threads : u # t => thread'[u] = thread[u]
        BY <1>0, <2>3, GoesOn
      <3>2. \A q \in calls' \ calls : /\ q.command = thread[t].command
                                     /\ q.folder = thread[t].folder
        BY <2>3 DEF CallOf
      <3> QED
        BY <1>0, <2>1, <3>1, <3>2 DEF Numbered
    <2>4. \/ Ends(t) /\ calls' \subseteq calls
          \/ /\ \E pc \in PC : GoesTo(t, pc)
             /\ calls' \subseteq calls \cup {CallOf(t, "create"), CallOf(t, "remove")}
      BY <1>3 DEF CreateStep, Replay, RefuseInFlight, BeginCreate, Created,
        NotCreated, CreateRaises, CompleteCreate, LostClaim, CompleteRaises,
        Removed, CancelCreate, CancelRaises, Browse, Save, TimesOut, PC
    <2> QED
      BY <2>2, <2>3, <2>4
  <1>4. ASSUME NEW q \in calls, MakeFolder(q) \/ RemoveFolder(q) \/ CallFails(q)
        PROVE  Numbered'
    <2>1. PICK reply \in Reply : thread' = Heard(q, reply)
      BY <1>4 DEF MakeFolder, RemoveFolder, CallFails, Made, Reply
    <2>2. \A u \in Threads : /\ thread'[u].pc = thread[u].pc
                            /\ thread'[u].folder = thread[u].folder
                            /\ thread'[u].command = thread[u].command
      BY <1>0, <2>1, HeardBy
    <2>3. calls' \subseteq calls /\ spent'.commands = spent.commands
      BY <1>0, <1>4 DEF MakeFolder, RemoveFolder, CallFails, Spend
    <2> QED
      BY <2>2, <2>3 DEF Numbered
  <1>5. CASE Crash
    <2>1. \A t \in Threads : thread'[t].pc = "idle" /\ thread'[t].command = 0
      BY <1>5, IdleFrameTyped DEF Crash
    <2>2. calls' \subseteq calls /\ spent'.commands = spent.commands
      BY <1>0, <1>5 DEF Crash, Spend
    <2> QED
      BY <1>0, <2>1, <2>2 DEF Numbered
  <1>6. CASE Tick \/ (\E f \in Folders : Fill(f)) \/ Quiescent \/ UNCHANGED vars
    BY <1>6 DEF Tick, Fill, Quiescent, vars, Numbered
  <1> QED
    BY <1>2, <1>3, <1>4, <1>5, <1>6 DEF Next

\* A thread that sends the rollback of the folder it holds hands it over.
LEMMA HandedOver ==
    ASSUME SoleOwner, Typed, NEW t \in Threads, Holds(t), GoesTo(t, "remove"),
           calls' = calls \cup {CallOf(t, "remove")},
           UNCHANGED <<claims, projects, dirs>>
    PROVE  SoleOwner'
  <1>1. /\ thread'[t].pc = "remove"
        /\ \A u \in Threads : u # t => thread'[u] = thread[u]
    BY GoesOn DEF Typed, TypeOK, PC
  <1>2. ~Holds(t)' /\ \A u \in Threads : u # t => (Holds(u)' <=> Holds(u))
    BY <1>1 DEF Holds
  <1>3. /\ Removals' = Removals \cup {CallOf(t, "remove")}
        /\ CallOf(t, "remove").folder = thread[t].folder
    BY DEF Removals, CallOf
  <1> QED
    BY <1>1, <1>2, <1>3 DEF SoleOwner

\* No step puts a folder into a second pair of hands: mkdir succeeds for one caller only.
LEMMA SoleOwnerStep ==
    ASSUME Typed, Numbered, SoleOwner, [Next]_vars
    PROVE  SoleOwner'
  <1> USE DEF store, disk
  <1>0. thread \in [Threads -> Frame]
    BY DEF Typed, TypeOK
  <1>1. ASSUME NEW t \in Threads, CompleteCreate(t)
        PROVE  SoleOwner'
    <2> DEFINE r == thread[t].request
               f == thread[t].folder
    <2>1. Holds(t) /\ r \in Requests
      BY <1>1 DEF CompleteCreate, Holds, Typed, Serving
    <2>2. /\ claims'[r].status = "completed" /\ claims'[r].project = f
          /\ \A s \in Requests : s # r => claims'[s] = claims[s]
      BY <1>1, <2>1 DEF CompleteCreate, Typed, TypeOK
    <2>3. /\ ~Holds(t)'
          /\ \A u \in Threads : u # t => thread'[u] = thread[u] /\ (Holds(u)' <=> Holds(u))
      BY <1>0, <1>1, Ended DEF CompleteCreate, Holds
    <2>4. Removals' = Removals /\ dirs' = dirs /\ projects' = projects \cup {f}
      BY <1>1 DEF CompleteCreate, Removals
    <2> HIDE DEF r, f
    <2>5. f = thread[t].folder
      BY DEF f
    <2> QED
      BY <2>1, <2>2, <2>3, <2>4, <2>5 DEF SoleOwner
  <1>2. ASSUME NEW t \in Threads, LostClaim(t) \/ CompleteRaises(t)
        PROVE  SoleOwner'
    BY <1>2, HandedOver DEF LostClaim, CompleteRaises, Holds
  <1>3. ASSUME NEW q \in calls, MakeFolder(q)
        PROVE  SoleOwner'
    <2>1. /\ \A u \in Threads : /\ thread'[u].pc = thread[u].pc
                                /\ thread'[u].folder = thread[u].folder
          /\ \A u \in Threads :
                thread[u].command = q.command /\ thread[u].pc = q.kind
                => thread'[u].reply = Made(q)
          /\ \A u \in Threads :
                ~(thread[u].command = q.command /\ thread[u].pc = q.kind)
                => thread'[u] = thread[u]
      BY <1>0, <1>3, HeardBy DEF MakeFolder, Made, Reply
    <2>2. /\ dirs' = dirs \cup {q.folder} /\ UNCHANGED <<claims, projects>>
          /\ Removals' \subseteq Removals
      BY <1>3 DEF MakeFolder, Removals
    <2>3. CASE q.folder \in dirs
      <3>1. Made(q) = "exists"
        BY <2>3 DEF Made
      <3>2. \A u \in Threads : Holds(u)' => Holds(u)
        BY <2>1, <3>1 DEF Holds
      <3> QED
        BY <2>1, <2>2, <3>2, OwnersKept
    <2>4. CASE q.folder \notin dirs
      <3>1. \A u \in Threads : Holds(u)' =>
               Holds(u) \/ thread[u].command = q.command
        BY <2>1 DEF Holds
      <3>2. \A u \in Threads : thread[u].command = q.command => thread[u].folder = q.folder
        BY DEF Numbered
      <3>3. \A u, v \in Threads :
               thread[u].command = q.command /\ thread[v].command = q.command => u = v
        BY DEF Numbered
      <3>4. \A u \in Threads : Holds(u) => thread[u].folder # q.folder
        BY <2>4 DEF SoleOwner
      <3>5. \A p \in Removals : p.folder # q.folder
        BY <2>4 DEF SoleOwner
      <3>6. \A r \in Requests : claims[r].status = "completed" => claims[r].project # q.folder
        BY <2>4 DEF SoleOwner
      <3>7. \A u \in Threads : Holds(u)' => thread'[u].folder \in dirs'
        BY <2>1, <2>2, <3>1, <3>2 DEF SoleOwner
      <3>8. \A u, v \in Threads :
               Holds(u)' /\ Holds(v)' /\ thread'[u].folder = thread'[v].folder => u = v
        BY <2>1, <3>1, <3>2, <3>3, <3>4 DEF SoleOwner
      <3>9. \A p \in Removals' :
               /\ p.folder \in dirs'
               /\ \A o \in Removals' : o.folder = p.folder => o = p
               /\ \A u \in Threads : Holds(u)' => thread'[u].folder # p.folder
        BY <2>1, <2>2, <3>1, <3>2, <3>5 DEF SoleOwner
      <3>10. \A r \in Requests : claims'[r].status = "completed" =>
               /\ claims'[r].project \in projects' \cap dirs'
               /\ \A p \in Removals' : p.folder # claims'[r].project
               /\ \A u \in Threads : Holds(u)' => thread'[u].folder # claims'[r].project
        BY <2>1, <2>2, <3>1, <3>2, <3>6 DEF SoleOwner
      <3> QED
        BY <3>7, <3>8, <3>9, <3>10 DEF SoleOwner
    <2> QED
      BY <2>3, <2>4
  <1>4. ASSUME NEW q \in calls, RemoveFolder(q)
        PROVE  SoleOwner'
    <2>1. /\ \A u \in Threads : /\ thread'[u].pc = thread[u].pc
                                /\ thread'[u].folder = thread[u].folder
          /\ \A u \in Threads : thread[u].pc # "remove" => thread'[u] = thread[u]
      BY <1>0, <1>4, HeardBy DEF RemoveFolder, Reply
    <2>2. \A u \in Threads : Holds(u)' <=> Holds(u)
      BY <2>1 DEF Holds
    <2>3. /\ q \in Removals /\ Removals' = Removals \ {q}
          /\ dirs \ {q.folder} \subseteq dirs' /\ UNCHANGED <<claims, projects>>
      BY <1>4 DEF RemoveFolder, Removals
    <2> QED
      BY <2>1, <2>2, <2>3 DEF SoleOwner
  <1>5. ASSUME NEW q \in calls, CallFails(q)
        PROVE  SoleOwner'
    <2>1. /\ \A u \in Threads : /\ thread'[u].pc = thread[u].pc
                                /\ thread'[u].folder = thread[u].folder
          /\ \A u \in Threads : thread'[u].reply = "error" \/ thread'[u] = thread[u]
      BY <1>0, <1>5, HeardBy DEF CallFails, Reply
    <2>2. \A u \in Threads : Holds(u)' => Holds(u)
      BY <2>1 DEF Holds
    <2>3. /\ Removals' \subseteq Removals /\ UNCHANGED <<claims, projects, dirs>>
      BY <1>5 DEF CallFails, Removals
    <2> QED
      BY <2>1, <2>2, <2>3, OwnersKept
  <1>6. ASSUME NEW t \in Threads, NEW pc \in PC, pc # "complete", GoesTo(t, pc),
               dirs' = dirs, projects \subseteq projects', Removals' \subseteq Removals,
               \A r \in Requests : claims'[r].status = "completed" => claims'[r] = claims[r]
        PROVE  SoleOwner'
    <2>1. /\ thread'[t].pc = pc /\ thread'[t].reply = None
          /\ \A u \in Threads : u # t => thread'[u] = thread[u]
      BY <1>0, <1>6, GoesOn
    <2>2. None # "ok"
      BY ConstantsOK DEF ConstantsOK
    <2>3. \A u \in Threads : Holds(u)' => Holds(u) /\ thread'[u].folder = thread[u].folder
      BY <1>6, <2>1, <2>2 DEF Holds
    <2> QED
      BY <1>6, <2>3, OwnersKept
  <1>7. ASSUME NEW t \in Threads, Created(t)
        PROVE  SoleOwner'
    <2>1. /\ thread'[t].pc = "complete" /\ thread'[t].folder = thread[t].folder
          /\ \A u \in Threads : u # t => thread'[u] = thread[u]
      BY <1>0, <1>7, GoesOn DEF Created, PC
    <2>2. \A u \in Threads : Holds(u)' => Holds(u) /\ thread'[u].folder = thread[u].folder
      BY <1>7, <2>1 DEF Created, Holds
    <2>3. Removals' = Removals /\ UNCHANGED <<claims, projects, dirs>>
      BY <1>7 DEF Created, Removals
    <2> QED
      BY <2>2, <2>3, OwnersKept
  <1>8. ASSUME NEW t \in Threads, Ends(t), dirs' = dirs, projects \subseteq projects',
               Removals' \subseteq Removals,
               \A r \in Requests : claims'[r].status = "completed" => claims'[r] = claims[r]
        PROVE  SoleOwner'
    <2>1. /\ thread'[t].pc = "idle"
          /\ \A u \in Threads : u # t => thread'[u] = thread[u]
      BY <1>0, <1>8, Ended
    <2>2. \A u \in Threads : Holds(u)' => Holds(u) /\ thread'[u].folder = thread[u].folder
      BY <2>1 DEF Holds
    <2> QED
      BY <1>8, <2>2, OwnersKept
  <1>9. ASSUME NEW t \in Threads, CancelCreate(t)
        PROVE  SoleOwner'
    <2>1. thread[t].request \in Requests
      BY <1>9 DEF CancelCreate, Typed, Serving
    <2>2. \A r \in Requests : claims'[r].status = "completed" => claims'[r] = claims[r]
      BY <1>9, <2>1 DEF CancelCreate, Cancelled, NoClaim, Typed, TypeOK
    <2> QED
      BY <1>8, <1>9, <2>2 DEF CancelCreate, Removals
  <1>10. ASSUME NEW t \in Threads, BeginCreate(t)
         PROVE  SoleOwner'
    <2>1. thread[t].request \in Requests
      BY <1>10 DEF BeginCreate, Typed, Serving
    <2>2. \A r \in Requests : claims'[r].status = "completed" => claims'[r] = claims[r]
      BY <1>10, <2>1 DEF BeginCreate, Typed, TypeOK
    <2>3. Removals' \subseteq Removals
      BY <1>10 DEF BeginCreate, Removals, CallOf
    <2>4. GoesTo(t, "create") /\ dirs' = dirs /\ projects' = projects
      BY <1>10 DEF BeginCreate
    <2>5. "create" \in PC
      BY DEF PC
    <2> QED
      BY <1>6, <2>2, <2>3, <2>4, <2>5
  <1>11. ASSUME NEW t \in Threads, Replay(t) \/ RefuseInFlight(t) \/ CreateRaises(t)
                                    \/ CancelRaises(t) \/ Save(t)
         PROVE  SoleOwner'
    BY <1>8, <1>11 DEF Replay, RefuseInFlight, CreateRaises, CancelRaises, Save, Removals
  <1>12. ASSUME NEW t \in Threads, NotCreated(t) \/ Removed(t) \/ TimesOut(t)
         PROVE  SoleOwner'
    BY <1>6, <1>12 DEF NotCreated, Removed, TimesOut, Removals, PC
  <1>13. ASSUME NEW t \in Threads, Browse(t)
         PROVE  SoleOwner'
    BY <1>6, <1>8, <1>13 DEF Browse, Removals, PC
  <1>14. ASSUME NEW t \in Threads, NEW frame, frame.pc = "claim" \/ frame.pc = "browse",
                CommandComes(t, frame)
         PROVE  SoleOwner'
    <2>1. /\ thread'[t].pc = "claim" \/ thread'[t].pc = "browse"
          /\ \A u \in Threads : u # t => thread'[u] = thread[u]
      BY <1>0, <1>14 DEF CommandComes
    <2>2. \A u \in Threads : Holds(u)' => Holds(u) /\ thread'[u].folder = thread[u].folder
      BY <2>1 DEF Holds
    <2>3. Removals' = Removals /\ UNCHANGED <<claims, projects, dirs>>
      BY <1>14 DEF CommandComes, Removals
    <2> QED
      BY <2>2, <2>3, OwnersKept
  <1>15. ASSUME NEW t \in Threads, NEW f \in Folders,
                \/ SaveCommand(t, f)
                \/ \E r \in Requests : CreateCommand(t, r, f)
         PROVE  SoleOwner'
    <2>1. CASE SaveCommand(t, f)
      BY <1>14, <2>1 DEF SaveCommand
    <2>2. ASSUME NEW r \in Requests, CreateCommand(t, r, f)
          PROVE  SoleOwner'
      BY <1>14, <2>2 DEF CreateCommand
    <2> QED
      BY <1>15, <2>1, <2>2
  <1>16. CASE Crash
    <2>1. \A u \in Threads : ~Holds(u)'
      BY <1>16, IdleFrameTyped DEF Crash, Holds
    <2>2. Removals' \subseteq Removals /\ UNCHANGED <<claims, projects, dirs>>
      BY <1>16 DEF Crash, Removals
    <2> QED
      BY <2>1, <2>2, OwnersKept
  <1>17. CASE Tick \/ (\E f \in Folders : Fill(f)) \/ Quiescent \/ UNCHANGED vars
    <2>1. UNCHANGED <<claims, projects, dirs, thread, calls>>
      BY <1>17 DEF Tick, Fill, Quiescent, vars
    <2> QED
      BY <2>1 DEF SoleOwner, Holds, Removals
  <1> QED
    BY <1>1, <1>2, <1>3, <1>4, <1>5, <1>7, <1>9, <1>10, <1>11, <1>12, <1>13,
       <1>15, <1>16, <1>17 DEF Next, CreateStep

-----------------------------------------------------------------------------
(* What is left behind.                                                     *)

\* Unless the relay dies or a host fails it, a call on its way has a thread
\* that waits for it.
Attended ==
    spent.crashes = 0 /\ spent.failures = 0 =>
        \A q \in calls : \E t \in Threads :
            /\ thread[t].command = q.command
            /\ thread[t].pc = q.kind /\ thread[t].reply = None

\* Counters only grow.
LEMMA SpentGrows ==
    ASSUME Typed, [Next]_vars
    PROVE  /\ spent'.crashes = 0 => spent.crashes = 0
           /\ spent'.raises = 0 => spent.raises = 0
           /\ spent'.failures = 0 => spent.failures = 0
  <1>1. spent \in [{"commands", "crashes", "raises", "failures"} -> Nat]
    BY DEF Typed, TypeOK
  <1>2. \A n \in Nat : n + 1 # 0
    OBVIOUS
  <1>3. spent' = spent \/ \E what \in {"commands", "crashes", "raises", "failures"} : Spend(what)
    BY DEF Next, CreateStep, SaveCommand, CreateCommand, CommandComes, Replay,
      RefuseInFlight, BeginCreate, Created, NotCreated, CreateRaises,
      CompleteCreate, LostClaim, CompleteRaises, Removed, CancelCreate,
      CancelRaises, Browse, Save, TimesOut, MakeFolder, RemoveFolder,
      CallFails, Fill, Tick, Crash, Quiescent, vars
  <1> QED
    BY <1>1, <1>2, <1>3 DEF Spend

\* A call that a waiting thread hears is that thread's only one.
LEMMA OneCall ==
    ASSUME Typed, Numbered, NEW p \in calls, NEW q \in calls, NEW t \in Threads,
           thread[t].command = p.command, thread[t].command = q.command,
           p.kind = q.kind
    PROVE  p = q
  <1>1. p.folder = q.folder
    BY DEF Numbered
  <1>2. p \in Call /\ q \in Call
    BY DEF Typed, TypeOK
  <1>3. \A c \in Call :
           c = [kind |-> c.kind, folder |-> c.folder, command |-> c.command]
    BY DEF Call
  <1>4. /\ p = [kind |-> p.kind, folder |-> p.folder, command |-> p.command]
        /\ q = [kind |-> q.kind, folder |-> q.folder, command |-> q.command]
    BY <1>2, <1>3
  <1>5. p.command = q.command
    OBVIOUS
  <1> QED
    BY <1>1, <1>4, <1>5, Zenon

\* A thread stops waiting for a call on its way only at a crash or with a failing host,
\* and both are counted.
LEMMA AttendedStep ==
    ASSUME Typed, Numbered, Attended, [Next]_vars
    PROVE  Attended'
  <1> USE DEF store, disk
  <1> SUFFICES ASSUME spent'.crashes = 0, spent'.failures = 0, NEW q \in calls'
               PROVE  \E t \in Threads :
                         /\ thread'[t].command = q.command
                         /\ thread'[t].pc = q.kind /\ thread'[t].reply = None
    BY DEF Attended
  <1>0. /\ thread \in [Threads -> Frame]
        /\ \A p \in calls : p.kind = "create" \/ p.kind = "remove"
        /\ spent \in [{"commands", "crashes", "raises", "failures"} -> Nat]
        /\ spent.crashes = 0 /\ spent.failures = 0
    BY SpentGrows DEF Typed, TypeOK, Call
  <1>1. \A p \in calls : \E t \in Threads :
            /\ thread[t].command = p.command
            /\ thread[t].pc = p.kind /\ thread[t].reply = None
    BY <1>0 DEF Attended
  <1>2. ASSUME NEW t \in Threads, thread[t].pc \notin {"create", "remove"}, q \in calls,
               \A u \in Threads : u # t => thread'[u] = thread[u]
        PROVE  \E u \in Threads :
                  /\ thread'[u].command = q.command
                  /\ thread'[u].pc = q.kind /\ thread'[u].reply = None
    BY <1>0, <1>1, <1>2
  <1>3. ASSUME NEW t \in Threads, NEW frame, CommandComes(t, frame)
        PROVE  \E u \in Threads :
                  /\ thread'[u].command = q.command
                  /\ thread'[u].pc = q.kind /\ thread'[u].reply = None
    <2>1. /\ thread[t].pc = "idle" /\ q \in calls
          /\ \A u \in Threads : u # t => thread'[u] = thread[u]
      BY <1>0, <1>3 DEF CommandComes
    <2> QED
      BY <1>2, <2>1
  <1>4. ASSUME NEW t \in Threads, CreateStep(t) \/ Browse(t) \/ Save(t) \/ TimesOut(t)
        PROVE  \E u \in Threads :
                  /\ thread'[u].command = q.command
                  /\ thread'[u].pc = q.kind /\ thread'[u].reply = None
    <2>1. \A u \in Threads : u # t => thread'[u] = thread[u]
      <3>1. Ends(t) \/ \E pc \in PC : GoesTo(t, pc)
        BY <1>4 DEF CreateStep, Replay, RefuseInFlight, BeginCreate, Created,
          NotCreated, CreateRaises, CompleteCreate, LostClaim, CompleteRaises,
          Removed, CancelCreate, CancelRaises, Browse, Save, TimesOut, PC
      <3> QED
        BY <1>0, <3>1, Ended, GoesOn
    <2>2. ~TimesOut(t)
      BY <1>0 DEF TimesOut, Spend
    <2>3. CASE q \notin calls
      <3>1. PICK kind \in {"create", "remove"} : q = CallOf(t, kind) /\ GoesTo(t, kind)
        BY <1>4, <2>2, <2>3 DEF CreateStep, Replay, RefuseInFlight, BeginCreate,
          Created, NotCreated, CreateRaises, CompleteCreate, LostClaim,
          CompleteRaises, Removed, CancelCreate, CancelRaises, Browse, Save
      <3>2. /\ thread'[t].pc = kind /\ thread'[t].reply = None
            /\ thread'[t].command = thread[t].command
        BY <1>0, <3>1, GoesOn DEF PC
      <3> QED
        BY <3>1, <3>2 DEF CallOf
    <2>4. CASE q \in calls /\ CreateRaises(t)
      <3>1. q # CallOf(t, "create") /\ CallOf(t, "create") \in calls /\ thread[t].pc = "create"
        BY <2>4 DEF CreateRaises
      <3>2. ~(thread[t].command = q.command /\ thread[t].pc = q.kind)
        <4>1. /\ CallOf(t, "create").command = thread[t].command
              /\ CallOf(t, "create").kind = "create"
          BY DEF CallOf
        <4> QED
          BY <2>4, <3>1, <4>1, OneCall
      <3> QED
        BY <1>1, <2>1, <2>4, <3>2
    <2>5. CASE q \in calls /\ ~CreateRaises(t)
      <3>1. thread[t].pc \notin {"create", "remove"} \/ thread[t].reply # None
        BY <1>4, <2>2, <2>5, ConstantsOK DEF CreateStep, Replay, RefuseInFlight,
          BeginCreate, Created, NotCreated, CompleteCreate, LostClaim,
          CompleteRaises, Removed, CancelCreate, CancelRaises, Browse, Save,
          ConstantsOK
      <3> QED
        BY <1>0, <1>1, <2>1, <2>5, <3>1
    <2> QED
      BY <2>3, <2>4, <2>5
  <1>5. ASSUME NEW p \in calls, MakeFolder(p) \/ RemoveFolder(p) \/ CallFails(p)
        PROVE  \E u \in Threads :
                  /\ thread'[u].command = q.command
                  /\ thread'[u].pc = q.kind /\ thread'[u].reply = None
    <2>1. PICK reply \in Reply : thread' = Heard(p, reply)
      BY <1>5 DEF MakeFolder, RemoveFolder, CallFails, Made, Reply
    <2>2. q \in calls /\ q # p
      BY <1>5 DEF MakeFolder, RemoveFolder, CallFails
    <2>3. PICK u \in Threads : /\ thread[u].command = q.command
                              /\ thread[u].pc = q.kind /\ thread[u].reply = None
      BY <1>1, <2>2
    <2>4. ~(thread[u].command = p.command /\ thread[u].pc = p.kind)
      BY <2>2, <2>3, OneCall
    <2>5. thread'[u] = thread[u]
      BY <1>0, <2>1, <2>4, HeardBy
    <2> QED
      BY <2>3, <2>5
  <1>6. CASE Crash
    BY <1>0, <1>6 DEF Crash, Spend
  <1>7. CASE Tick \/ (\E f \in Folders : Fill(f)) \/ Quiescent \/ UNCHANGED vars
    <2>1. UNCHANGED <<thread, calls>>
      BY <1>7 DEF Tick, Fill, Quiescent, vars
    <2> QED
      BY <1>1, <2>1
  <1> QED
    BY <1>3, <1>4, <1>5, <1>6, <1>7 DEF Next, SaveCommand, CreateCommand

\* Until a crash or a failing host is counted, a new folder that is no project has a
\* thread that will register or remove it.
LEMMA LeftBehindStep ==
    ASSUME Typed, Numbered, Attended, NoFolderIsLeftBehind, [Next]_vars
    PROVE  NoFolderIsLeftBehind'
  <1> USE DEF store, disk
  <1> SUFFICES ASSUME spent'.crashes = 0, spent'.failures = 0,
                      NEW f \in dirs' \ (projects' \cup filled')
               PROVE  \E t \in Threads : thread'[t].folder = f /\ Making(t)'
    BY DEF NoFolderIsLeftBehind
  <1>0. /\ thread \in [Threads -> Frame]
        /\ spent \in [{"commands", "crashes", "raises", "failures"} -> Nat]
        /\ spent.crashes = 0 /\ spent.failures = 0
    BY SpentGrows DEF Typed, TypeOK
  <1>1. \A g \in dirs \ (projects \cup filled) :
            \E t \in Threads : thread[t].folder = g /\ Making(t)
    BY <1>0 DEF NoFolderIsLeftBehind
  <1>2. \A q \in calls : \E t \in Threads :
            /\ thread[t].command = q.command
            /\ thread[t].pc = q.kind /\ thread[t].reply = None
    BY <1>0 DEF Attended
  <1>3. \A q \in calls, t \in Threads :
            thread[t].command = q.command =>
              thread[t].reply = None /\ thread[t].pc = q.kind /\ thread[t].folder = q.folder
    BY <1>2 DEF Numbered
  <1>4. ASSUME NEW t \in Threads, ~Making(t), f \in dirs \ (projects \cup filled),
               \A u \in Threads : u # t => thread'[u] = thread[u]
        PROVE  \E u \in Threads : thread'[u].folder = f /\ Making(u)'
    BY <1>1, <1>4 DEF Making
  <1>5. ASSUME NEW t \in Threads, NEW frame, CommandComes(t, frame)
        PROVE  \E u \in Threads : thread'[u].folder = f /\ Making(u)'
    <2>1. /\ ~Making(t) /\ f \in dirs \ (projects \cup filled)
          /\ \A u \in Threads : u # t => thread'[u] = thread[u]
      BY <1>0, <1>5 DEF CommandComes, Making
    <2> QED
      BY <1>4, <2>1
  <1>6. ASSUME NEW t \in Threads, CreateStep(t) \/ Browse(t) \/ Save(t) \/ TimesOut(t)
        PROVE  \E u \in Threads : thread'[u].folder = f /\ Making(u)'
    <2>1. \A u \in Threads : u # t => thread'[u] = thread[u]
      <3>1. Ends(t) \/ \E pc \in PC : GoesTo(t, pc)
        BY <1>6 DEF CreateStep, Replay, RefuseInFlight, BeginCreate, Created,
          NotCreated, CreateRaises, CompleteCreate, LostClaim, CompleteRaises,
          Removed, CancelCreate, CancelRaises, Browse, Save, TimesOut, PC
      <3> QED
        BY <1>0, <3>1, Ended, GoesOn
    <2>2. ~TimesOut(t)
      BY <1>0 DEF TimesOut, Spend
    <2>3. f \in dirs \ (projects \cup filled)
      BY <1>6 DEF CreateStep, Replay, RefuseInFlight, BeginCreate, Created,
        NotCreated, CreateRaises, CompleteCreate, LostClaim, CompleteRaises,
        Removed, CancelCreate, CancelRaises, Browse, Save, TimesOut
    <2>4. CASE ~Making(t)
      BY <1>4, <2>1, <2>3, <2>4
    <2>5. CASE Making(t) /\ thread[t].folder # f
      BY <1>1, <2>1, <2>3, <2>5 DEF Making
    <2>6. CASE Making(t) /\ thread[t].folder = f
      <3>1. ~CompleteCreate(t)
        BY <2>6 DEF CompleteCreate
      <3>2. ~CreateRaises(t)
        <4>1. CallOf(t, "create").command = thread[t].command
          BY DEF CallOf
        <4>2. CallOf(t, "create") \in calls => thread[t].reply = None
          BY <1>3, <4>1
        <4> QED
          BY <2>6, <4>2, ConstantsOK DEF CreateRaises, Making, ConstantsOK
      <3>3. \/ GoesTo(t, "complete") \/ GoesTo(t, "remove")
        BY <1>6, <2>2, <2>6, <3>1, <3>2, ConstantsOK DEF CreateStep, Replay,
          RefuseInFlight, BeginCreate, Created, NotCreated, LostClaim,
          CompleteRaises, Removed, CancelCreate, CancelRaises, Browse, Save,
          Making, ConstantsOK
      <3>4. /\ thread'[t].pc = "complete" \/ thread'[t].pc = "remove"
            /\ thread'[t].reply = None /\ thread'[t].folder = thread[t].folder
        BY <1>0, <3>3, GoesOn DEF PC
      <3> QED
        BY <2>6, <3>4 DEF Making
    <2> QED
      BY <2>4, <2>5, <2>6
  <1>7. ASSUME NEW q \in calls, MakeFolder(q)
        PROVE  \E u \in Threads : thread'[u].folder = f /\ Making(u)'
    <2>1. /\ \A u \in Threads : /\ thread'[u].pc = thread[u].pc
                                /\ thread'[u].folder = thread[u].folder
          /\ \A u \in Threads :
                thread[u].command = q.command /\ thread[u].pc = q.kind
                => thread'[u].reply = Made(q)
          /\ \A u \in Threads :
                ~(thread[u].command = q.command /\ thread[u].pc = q.kind)
                => thread'[u] = thread[u]
      BY <1>0, <1>7, HeardBy DEF MakeFolder, Made, Reply
    <2>2. q.kind = "create" /\ f \in (dirs \cup {q.folder}) \ (projects \cup filled)
      BY <1>7 DEF MakeFolder
    <2>3. CASE f \in dirs
      <3>1. PICK u \in Threads : thread[u].folder = f /\ Making(u)
        BY <1>1, <2>2, <2>3
      <3>2. ~(thread[u].command = q.command /\ thread[u].pc = q.kind)
        BY <1>3, <2>2, <3>1, ConstantsOK DEF Making, ConstantsOK
      <3> QED
        BY <2>1, <3>1, <3>2 DEF Making
    <2>4. CASE f \notin dirs
      <3>1. PICK u \in Threads : thread[u].command = q.command /\ thread[u].pc = q.kind
        BY <1>2
      <3>2. f = q.folder /\ Made(q) = "ok"
        BY <2>2, <2>4 DEF Made
      <3>3. thread[u].folder = f
        BY <1>3, <3>1, <3>2
      <3> QED
        BY <2>1, <2>2, <3>1, <3>2, <3>3 DEF Making
    <2> QED
      BY <2>3, <2>4
  <1>8. ASSUME NEW q \in calls, RemoveFolder(q)
        PROVE  \E u \in Threads : thread'[u].folder = f /\ Making(u)'
    <2>1. \A u \in Threads :
             ~(thread[u].command = q.command /\ thread[u].pc = q.kind)
             => thread'[u] = thread[u]
      BY <1>0, <1>8, HeardBy DEF RemoveFolder, Reply
    <2>2. f \in dirs \ (projects \cup filled) /\ f # q.folder
      BY <1>8 DEF RemoveFolder
    <2>3. PICK u \in Threads : thread[u].folder = f /\ Making(u)
      BY <1>1, <2>2
    <2>4. thread[u].command # q.command
      BY <1>3, <2>2, <2>3
    <2>5. thread'[u] = thread[u]
      BY <2>1, <2>4
    <2> QED
      BY <2>3, <2>5 DEF Making
  <1>9. ASSUME NEW q \in calls, CallFails(q)
        PROVE  FALSE
    BY <1>0, <1>9 DEF CallFails, Spend
  <1>10. CASE Crash
    BY <1>0, <1>10 DEF Crash, Spend
  <1>11. CASE Tick \/ (\E g \in Folders : Fill(g)) \/ Quiescent \/ UNCHANGED vars
    <2>1. UNCHANGED thread /\ f \in dirs \ (projects \cup filled)
      BY <1>11 DEF Tick, Fill, Quiescent, vars
    <2> QED
      BY <1>1, <2>1 DEF Making
  <1> QED
    BY <1>5, <1>6, <1>7, <1>8, <1>9, <1>10, <1>11 DEF Next, SaveCommand, CreateCommand

\* A command of the request that will still end its claim.
Serves(t, r) ==
    thread[t].request = r
    /\ thread[t].pc \in {"create", "complete", "remove", "cancel"}

\* While nothing crashes or raises, a claim in flight has a thread that completes or cancels it.
LEMMA AbandonedStep ==
    ASSUME Typed, NoClaimIsAbandoned, [Next]_vars
    PROVE  NoClaimIsAbandoned'
  <1> USE DEF store, disk
  <1> SUFFICES ASSUME spent'.crashes = 0, spent'.raises = 0, NEW r \in Requests,
                      claims'[r].status = "in_flight"
               PROVE  \E t \in Threads : Serves(t, r)'
    BY DEF NoClaimIsAbandoned, Serves
  <1>0. /\ thread \in [Threads -> Frame] /\ claims \in [Requests -> Claim]
        /\ spent \in [{"commands", "crashes", "raises", "failures"} -> Nat]
        /\ spent.crashes = 0 /\ spent.raises = 0
    BY SpentGrows DEF Typed, TypeOK
  <1>1. claims[r].status = "in_flight" => \E t \in Threads : Serves(t, r)
    BY <1>0 DEF NoClaimIsAbandoned, Serves
  <1>2. ASSUME NEW t \in Threads, claims[r].status = "in_flight", ~Serves(t, r),
               \A u \in Threads : u # t => thread'[u] = thread[u]
        PROVE  \E u \in Threads : Serves(u, r)'
    BY <1>1, <1>2 DEF Serves
  <1>3. ASSUME NEW t \in Threads, NEW frame, CommandComes(t, frame)
        PROVE  \E u \in Threads : Serves(u, r)'
    <2>1. /\ ~Serves(t, r) /\ claims[r].status = "in_flight"
          /\ \A u \in Threads : u # t => thread'[u] = thread[u]
      BY <1>0, <1>3 DEF CommandComes, Serves
    <2> QED
      BY <1>2, <2>1
  <1>4. ASSUME NEW t \in Threads, Replay(t) \/ RefuseInFlight(t) \/ Browse(t) \/ Save(t)
        PROVE  \E u \in Threads : Serves(u, r)'
    <2>1. ~Serves(t, r) /\ claims[r].status = "in_flight"
      BY <1>4 DEF Replay, RefuseInFlight, Browse, Save, Serves
    <2>2. \A u \in Threads : u # t => thread'[u] = thread[u]
      <3>1. Ends(t) \/ GoesTo(t, "save")
        BY <1>4 DEF Replay, RefuseInFlight, Browse, Save
      <3> QED
        BY <1>0, <3>1, Ended, GoesOn DEF PC
    <2> QED
      BY <1>2, <2>1, <2>2
  <1>5. ASSUME NEW t \in Threads, CompleteCreate(t) \/ CancelCreate(t)
        PROVE  \E u \in Threads : Serves(u, r)'
    <2>1. thread[t].request \in Requests
      BY <1>5 DEF CompleteCreate, CancelCreate, Typed, Serving
    <2>2. /\ claims'[thread[t].request].status # "in_flight"
          /\ \A o \in Requests : o # thread[t].request => claims'[o] = claims[o]
      <3>1. CASE CompleteCreate(t)
        BY <1>0, <2>1, <3>1 DEF CompleteCreate
      <3>2. CASE CancelCreate(t)
        BY <1>0, <2>1, <3>2 DEF CancelCreate, Cancelled, NoClaim
      <3> QED
        BY <1>5, <3>1, <3>2
    <2>3. \A u \in Threads : u # t => thread'[u] = thread[u]
      BY <1>0, <1>5, Ended DEF CompleteCreate, CancelCreate
    <2>4. ~Serves(t, r) /\ claims[r].status = "in_flight"
      BY <2>2 DEF Serves
    <2> QED
      BY <1>2, <2>3, <2>4
  <1>6. ASSUME NEW t \in Threads, NEW pc \in {"create", "complete", "remove", "cancel"},
               GoesTo(t, pc),
               \/ claims' = claims
               \/ \A o \in Requests : o # thread[t].request => claims'[o] = claims[o]
        PROVE  \E u \in Threads : Serves(u, r)'
    <2>1. /\ thread'[t].pc = pc /\ thread'[t].request = thread[t].request
          /\ \A u \in Threads : u # t => thread'[u] = thread[u]
      BY <1>0, <1>6, GoesOn DEF PC
    <2>2. CASE thread[t].request = r
      BY <1>6, <2>1, <2>2 DEF Serves
    <2>3. CASE thread[t].request # r
      <3>1. ~Serves(t, r) /\ claims[r].status = "in_flight"
        BY <1>6, <2>3 DEF Serves
      <3> QED
        BY <1>2, <2>1, <3>1
    <2> QED
      BY <2>2, <2>3
  <1>7. ASSUME NEW t \in Threads, BeginCreate(t)
        PROVE  \E u \in Threads : Serves(u, r)'
    <2>1. GoesTo(t, "create")
      BY <1>7 DEF BeginCreate
    <2>2. \A o \in Requests : o # thread[t].request => claims'[o] = claims[o]
      BY <1>0, <1>7 DEF BeginCreate
    <2> QED
      BY <1>6, <2>1, <2>2
  <1>8. ASSUME NEW t \in Threads, Created(t) \/ NotCreated(t) \/ LostClaim(t)
                                     \/ Removed(t) \/ TimesOut(t)
        PROVE  \E u \in Threads : Serves(u, r)'
    BY <1>6, <1>8 DEF Created, NotCreated, LostClaim, Removed, TimesOut
  <1>9. ASSUME NEW t \in Threads, CreateRaises(t) \/ CompleteRaises(t) \/ CancelRaises(t)
        PROVE  FALSE
    BY <1>0, <1>9 DEF CreateRaises, CompleteRaises, CancelRaises, Spend
  <1>10. ASSUME NEW q \in calls, MakeFolder(q) \/ RemoveFolder(q) \/ CallFails(q)
         PROVE  \E u \in Threads : Serves(u, r)'
    <2>1. PICK reply \in Reply : thread' = Heard(q, reply)
      BY <1>10 DEF MakeFolder, RemoveFolder, CallFails, Made, Reply
    <2>2. \A u \in Threads : /\ thread'[u].pc = thread[u].pc
                            /\ thread'[u].request = thread[u].request
      BY <1>0, <2>1, HeardBy
    <2>3. claims' = claims
      BY <1>10 DEF MakeFolder, RemoveFolder, CallFails
    <2> QED
      BY <1>1, <2>2, <2>3 DEF Serves
  <1>11. CASE Crash
    BY <1>0, <1>11 DEF Crash, Spend
  <1>12. CASE Tick \/ (\E f \in Folders : Fill(f)) \/ Quiescent \/ UNCHANGED vars
    <2>1. UNCHANGED <<thread, claims>>
      BY <1>12 DEF Tick, Fill, Quiescent, vars
    <2> QED
      BY <1>1, <2>1 DEF Serves
  <1> QED
    BY <1>3, <1>4, <1>5, <1>7, <1>8, <1>9, <1>10, <1>11, <1>12
    DEF Next, CreateStep, SaveCommand, CreateCommand

-----------------------------------------------------------------------------
(* The theorems.                                                            *)

IInv ==
    /\ Typed /\ Answered /\ Numbered /\ SoleOwner
    /\ Attended /\ NoFolderIsLeftBehind /\ NoClaimIsAbandoned

\* The invariant holds when the relay starts.
LEMMA IInvInit == ASSUME Init PROVE IInv
  <1>1. Typed
    BY TypedInit
  <1>2. /\ \A t \in Threads : thread[t].pc = "idle" /\ thread[t].command = 0
        /\ calls = {} /\ spent.commands = 0 /\ dirs = {}
        /\ \A r \in Requests : claims[r].status = "none" /\ acked[r] = {}
    BY IdleFrameTyped DEF Init, NoClaim
  <1> QED
    BY <1>1, <1>2 DEF IInv, Answered, Numbered, SoleOwner, Holds, Removals,
      Attended, NoFolderIsLeftBehind, NoClaimIsAbandoned

\* Every step keeps the invariant.
LEMMA IInvNext == ASSUME IInv, [Next]_vars PROVE IInv'
  BY TypedNext, AnsweredStep, NumberedStep, SoleOwnerStep, AttendedStep,
     LeftBehindStep, AbandonedStep DEF IInv

\* The inductive invariant of ProjectCreate.
THEOREM Invariance == Spec => []IInv
  <1>1. Init => IInv
    BY IInvInit
  <1>2. IInv /\ [Next]_vars => IInv'
    BY IInvNext
  <1> QED
    BY <1>1, <1>2, PTL DEF Spec

\* Claims, projects, folders and frames keep their types, for any number of
\* requests, folders and threads.
THEOREM CreateTyping == Spec => []TypeOK
  <1>1. IInv => TypeOK
    BY DEF IInv, Typed
  <1> QED
    BY <1>1, Invariance, PTL

\* create() acknowledges a request id with one folder only, however claims are
\* taken over, lost and cancelled.
THEOREM OneFolder == Spec => []OneFolderPerRequest
  <1>1. IInv => OneFolderPerRequest
    BY DEF IInv, Answered, OneFolderPerRequest
  <1> QED
    BY <1>1, Invariance, PTL

\* No rollback of create() removes the folder of a completed request, and no
\* request is completed with a folder that a rollback is about to remove.
THEOREM FoldersStay == Spec => []CompletedFolderIsThere
  <1>1. IInv => CompletedFolderIsThere
    BY DEF IInv, SoleOwner, CompletedFolderIsThere
  <1> QED
    BY <1>1, Invariance, PTL

\* Without a crash or a failing host, create() leaves no folder that it made
\* unregistered behind, also when its claim is lost or its transaction raises.
THEOREM NothingLeftBehind == Spec => []NoFolderIsLeftBehind
  <1>1. IInv => NoFolderIsLeftBehind
    BY DEF IInv
  <1> QED
    BY <1>1, Invariance, PTL

\* Without a crash or an exception, a claim in flight has a command of create()
\* that will end it.
THEOREM ClaimsAreServed == Spec => []NoClaimIsAbandoned
  <1>1. IInv => NoClaimIsAbandoned
    BY DEF IInv
  <1> QED
    BY <1>1, Invariance, PTL

\* cancel_create and begin_create leave a completed request as it is.
THEOREM CompletionsStay == Spec => CompletedIsFinal
  <1>1. IInv /\ [Next]_vars
          => [\A r \in Requests :
                claims[r].status = "completed" => claims'[r] = claims[r]]_vars
    BY ClaimsStep DEF IInv
  <1> QED
    BY <1>1, Invariance, PTL DEF Spec, CompletedIsFinal

=============================================================================
