----------------------------- MODULE ServerProofs ------------------------------
(* What TLAPS proves of the whole server: that the core keeps its promises *)
(* beside an export, a storage check and a flush, and what those promise.  *)
EXTENDS Server, HandInPromises, HandInFiles

(* A worker between requests has nothing in its hands.                     *)
Resting == \A w \in Workers : pc[w] = "idle" => req[w] = NoRequest

(* Where a step of a request ends.                                         *)
LEMMA StepsGoOn ==
    ASSUME TypeOK, NEW w \in Workers, Step(w), ~Reply(w)
    PROVE  pc[w] # "idle" /\ pc'[w] # "idle"
<1> USE DEF TypeOK, Goto, Conclude, Fail
<1>1. CASE Begin(w) \/ BeginTimesOut(w)
  BY <1>1 DEF Begin, BeginTimesOut
<1>2. CASE Retry(w) \/ Again(w) \/ ClaimNonce(w) \/ Decide(w)
  BY <1>2 DEF Retry, Again, ClaimNonce, Decide, AnswerKnownKey
<1>3. CASE CheckSpace(w) \/ Prepare(w) \/ PrepareFails(w) \/ TooLarge(w) \/ RecheckSpace(w)
  BY <1>3 DEF CheckSpace, Prepare, PrepareFails, TooLarge, RecheckSpace
<1>4. CASE Move(w) \/ RollBack(w) \/ CommitTask(w) \/ CommitSubmission(w)
  BY <1>4 DEF Move, RollBack, CommitTask, CommitSubmission
<1>5. CASE Undo(w) \/ UndoFails(w) \/ Undone(w)
  BY <1>5 DEF Undo, UndoFails, Undone
<1>6. CASE ListFiles(w) \/ Stage(w) \/ StageFails(w) \/ CommitDelete(w) \/ DeleteFails(w)
  BY <1>6 DEF ListFiles, Stage, StageFails, CommitDelete, DeleteFails
<1>7. CASE Restore(w) \/ EndRestore(w) \/ Purge(w) \/ EndPurge(w)
  BY <1>7 DEF Restore, EndRestore, Purge, EndPurge
<1> QED
  BY <1>1, <1>2, <1>3, <1>4, <1>5, <1>6, <1>7 DEF Step, UploadStep, DeleteStep

LEMMA RestingInductive == TypeOK /\ Resting /\ [Next]_vars => Resting'
<1> SUFFICES ASSUME TypeOK, Resting, [Next]_vars PROVE Resting'
  OBVIOUS
<1>1. ASSUME NEW w \in Workers, Reply(w) \/ Crash(w) PROVE Resting'
  BY <1>1 DEF Reply, Crash, Goto, TypeOK, Resting
<1>2. ASSUME NEW w \in Workers, Step(w), ~Reply(w) PROVE Resting'
  BY <1>2, StepsGoOn, OnlyOwnRequest DEF Resting
<1>3. ASSUME NEW w \in Workers, Arrives(w) PROVE Resting'
  <2>1. ASSUME NEW l, NEW r, Arrive(w, l, r), l # "idle" PROVE Resting'
    BY <2>1 DEF Arrive, Goto, TypeOK, Resting
  <2> QED
    BY <1>3, <2>1 DEF Arrives, CreateArrives, SubmitArrives, DeleteSubmissionArrives,
       DeleteTaskArrives
<1>4. CASE CloseTask \/ ReopenTask \/ CloseAll \/ UNCHANGED vars
  BY <1>4 DEF CloseTask, ReopenTask, CloseAll, SetStatus, vars, Resting
<1> QED
  BY <1>1, <1>2, <1>3, <1>4 DEF Next

-------------------------------------------------------------------------------
(* What a flush has achieved when it gets to a phase.                      *)

(* The deletion of t that flush-data is waiting for.                       *)
Doing(t) == /\ pc[Operator] \notin {"idle", "purge"}
            /\ req[Operator].op = "deltask"
            /\ req[Operator].task = t
            /\ req[Operator].outcome # "deleted"

FlushHeld ==
    /\ flush # "idle" => ~up
    /\ flush \in {"tasks", "sessions", "buckets", "tree", "done"} => \A w \in Web : pc[w] = "idle"
    /\ flush = "tasks" =>
          /\ \A t \in todo : Exists(t) /\ ~(pc[Operator] # "idle" /\ req[Operator].task = t)
          /\ \A t \in Tasks : Exists(t) => t \in todo \/ Doing(t)
          /\ pc[Operator] # "idle" => req[Operator].op = "deltask"
    /\ flush \in {"sessions", "buckets", "tree", "done"} =>
          /\ pc[Operator] = "idle"
          /\ \A t \in Tasks : ~Exists(t)
    /\ flush = "buckets" => others \subseteq {"buckets"}
    /\ flush \in {"tree", "done"} => others = {}
    /\ flush = "done" => Used = {}

(* Without tasks there are no rows at all.                                 *)
LEMMA NothingLeft ==
    ASSUME PromiseInv, \A t \in Tasks : ~Exists(t)
    PROVE  (\A s \in Subs : ~Stored(s)) /\ (\A f \in Files : owner[f] = None)
BY DEF PromiseInv, Promises, ReferencesIntact, RowsFilled

LEMMA FlushTaskArrives == FlushTypeOK /\ FlushHeld /\ FlushTask => DeleteTaskArrives(Operator)
BY DEF FlushHeld, FlushTask, DeleteTaskArrives, FlushTypeOK

(* All but the removal of the tree are steps of the core.                  *)
LEMMA ServerSteps ==
    ASSUME FlushTypeOK, FlushHeld, [ServerNext]_serverVars
    PROVE  [Next]_vars \/ RemoveFile
<1> USE OperatorAssumption
<1>1. CASE Serve
  BY <1>1 DEF Serve, Next, Web
<1>2. CASE Operate
  <2>1. CASE OperatorDeletes \/ FlushTask
    <3>1. DeleteTaskArrives(Operator)
      BY <2>1, FlushTaskArrives DEF OperatorDeletes
    <3> QED
      BY <3>1 DEF Next, Arrives
  <2>2. CASE TaskFlushed \/ OperatorDies \/ DeleteTaskStep
    BY <2>2 DEF TaskFlushed, OperatorDies, DeleteTaskStep, Next, Step
  <2>3. CASE FlushKilled
    BY <2>3 DEF FlushKilled, Next
  <2>4. CASE StopService \/ BeginFlush \/ FlushFails \/ TasksFlushed \/ FlushRows
             \/ FilesRemoved \/ StartService
    BY <2>4 DEF StopService, BeginFlush, FlushFails, TasksFlushed, FlushRows, FilesRemoved,
       StartService
  <2> QED
    BY <1>2, <2>1, <2>2, <2>3, <2>4 DEF Operate, FlushStep
<1>3. CASE MakeExport \/ CheckStorage \/ UNCHANGED serverVars
  BY <1>3 DEF MakeExport, CheckStorage, serverVars
<1> QED
  BY <1>1, <1>2, <1>3 DEF ServerNext

(* The tree is removed when no row is left and nobody serves a request.    *)
LEMMA TreeKeepsCore ==
    ASSUME PromiseInv, Resting, FlushHeld, RemoveFile
    PROVE  PromiseInv' /\ Resting'
<1>1. /\ \A w \in Workers : pc[w] = "idle"
      /\ \A f \in Files : owner[f] = None
  BY NothingLeft DEF FlushHeld, RemoveFile, Web
<1>2. UNCHANGED <<tasks, subs, owner, lock, pc, req>>
  BY DEF RemoveFile
<1>3. TypeOK' /\ Resting'
  BY <1>2 DEF RemoveFile, PromiseInv, KeyInv, TypeOK, Resting, Used
<1>4. Ownership'
  <2>1. \A w \in Workers : req[w] = NoRequest
    BY <1>1 DEF Resting
  <2> QED
    BY <1>1, <1>2, <2>1 DEF PromiseInv, KeyInv, Ownership, LockHeld, StepsApart, UploadsOwn,
       StagingOwned, StagedApart, RecordedBytesKept, Uploads, NoRequest, Ask
<1>5. RowsUnique' /\ \A w \in Workers : pc'[w] = "move" => Found(w)'
  BY <1>1, <1>2 DEF PromiseInv, KeyInv, RowsUnique, Stored, Exists
<1>6. Promises'
  BY <1>2 DEF PromiseInv, Promises, ReferencesIntact, RowsFilled, IdsReserved, Reserved,
     AnswersMeant, Answer, Meant, Stored, Exists
<1> QED
  BY <1>3, <1>4, <1>5, <1>6 DEF PromiseInv, KeyInv

CoreInv == PromiseInv /\ Resting /\ FlushTypeOK /\ FlushHeld

LEMMA CoreSteps ==
    CoreInv /\ [ServerNext]_serverVars => PromiseInv' /\ Resting'
<1>1. PromiseInv => TypeOK
  BY DEF PromiseInv, KeyInv
<1> QED
  BY <1>1, ServerSteps, TreeKeepsCore, PromiseInductive, RestingInductive DEF CoreInv

-------------------------------------------------------------------------------
(* While a flush is under way, nobody but the operator serves a request.   *)
LEMMA WebRests ==
    ASSUME CoreInv, Serve, flush \in {"tasks", "sessions", "buckets", "tree", "done"}
    PROVE  CloseAll
<1>1. TypeOK /\ ~up /\ \A w \in Web : pc[w] = "idle"
  BY DEF CoreInv, FlushHeld, PromiseInv, KeyInv
<1>2. ASSUME NEW w \in Web, Step(w) \/ Crash(w) PROVE FALSE
  <2>1. w \in Workers /\ pc[w] = "idle"
    BY <1>1 DEF Web
  <2>2. ~Crash(w) /\ ~Reply(w)
    BY <2>1 DEF Crash, Reply
  <2> QED
    BY <1>1, <1>2, <2>1, <2>2, StepsGoOn
<1> QED
  BY <1>1, <1>2 DEF Serve

(* The steps of the operator's own deletion of a task.                     *)
LEMMA DeletionGoesOn ==
    ASSUME CoreInv, flush = "tasks", DeleteTaskStep \/ TaskFlushed
    PROVE  /\ \A w \in Workers \ {Operator} : pc'[w] = pc[w]
           /\ pc'[Operator] # "idle" =>
                 /\ pc[Operator] # "idle"
                 /\ req'[Operator].op = req[Operator].op
                 /\ req'[Operator].task = req[Operator].task
           /\ \A t \in Tasks : Exists(t)' => Exists(t)
           /\ \A t \in Tasks : Exists(t) /\ ~Exists(t)' => t = req[Operator].task
           /\ flush' = flush => \A t \in Tasks : Exists(t)' /\ Doing(t) => Doing(t)'
<1> USE OperatorAssumption
<1>1. /\ TypeOK /\ Ownership /\ req[Operator] \in Request
      /\ pc[Operator] # "idle" => req[Operator].op = "deltask"
  BY DEF CoreInv, FlushHeld, PromiseInv, KeyInv, TypeOK
<1>2. CASE TaskFlushed
  <2>1. /\ UNCHANGED tasks /\ pc'[Operator] = "idle"
        /\ \A w \in Workers \ {Operator} : pc'[w] = pc[w]
    BY <1>1, <1>2 DEF TaskFlushed, Reply, Goto, TypeOK
  <2>2. flush' = flush => req[Operator].outcome = "deleted"
    BY <1>2 DEF TaskFlushed
  <2> QED
    BY <2>1, <2>2 DEF Exists, Doing
<1>3. CASE CommitDelete(Operator)
  <2>1. /\ pc[Operator] = "stage" /\ pc'[Operator] = "purge" /\ req' = req
        /\ \A w \in Workers \ {Operator} : pc'[w] = pc[w]
    BY <1>1, <1>3 DEF CommitDelete, Goto, TypeOK
  <2>2. req[Operator].op = "deltask" /\ req[Operator].task \in Tasks
    BY <1>1, <2>1 DEF Ownership, StepsApart
  <2>3. tasks' = [tasks EXCEPT ![req[Operator].task] = [status |-> "deleted", nonce |-> None]]
    BY <1>3, <2>2 DEF CommitDelete
  <2>4. \A t \in Tasks : Exists(t)' <=> Exists(t) /\ t # req[Operator].task
    BY <1>1, <2>2, <2>3 DEF TypeOK, Exists
  <2> QED
    BY <2>1, <2>2, <2>4 DEF Doing
<1>4. CASE Begin(Operator) \/ BeginTimesOut(Operator)
           \/ (DeleteStep(Operator) /\ ~CommitDelete(Operator))
  <2>1. pc[Operator] \in {"begin", "txn", "stage", "unstage", "restore", "purge"}
    BY <1>4 DEF Begin, BeginTimesOut, DeleteStep, ListFiles, Stage, StageFails, DeleteFails,
       Restore, EndRestore, Purge, EndPurge
  <2>2. Step(Operator) /\ ~Commits(Operator) /\ ~Reply(Operator)
    <3>1. Step(Operator)
      BY <1>4 DEF Step
    <3>2. ~CommitTask(Operator) /\ ~CommitSubmission(Operator) /\ ~Reply(Operator)
      BY <2>1 DEF CommitTask, CommitSubmission, Reply
    <3>3. ~CommitDelete(Operator)
      BY <1>4 DEF Begin, BeginTimesOut, CommitDelete
    <3> QED
      BY <3>1, <3>2, <3>3 DEF Commits
  <2>3. RowsKept(Operator) /\ Serves(Operator) /\ pc[Operator] # "idle" /\ pc'[Operator] # "idle"
    BY <1>1, <2>2, ServingSteps, StepsGoOn
  <2>4. SameRequest(Operator)
    BY <2>3 DEF Serves
  <2>5. \A t \in Tasks : Exists(t)' <=> Exists(t)
    BY <2>3 DEF RowsKept, Exists
  <2>6. pc[Operator] # "purge" => pc'[Operator] # "purge"
    BY <1>1, <1>4 DEF Begin, BeginTimesOut, Fail, Conclude, Goto, DeleteStep, ListFiles, Stage,
       StageFails, DeleteFails, Restore, EndRestore, Purge, EndPurge, TypeOK
  <2>7. pc[Operator] # "purge" /\ req[Operator].outcome # "deleted"
        => req'[Operator].outcome # "deleted"
    <3>1. CASE Begin(Operator) \/ DeleteFails(Operator)
      BY <3>1 DEF Begin, DeleteFails
    <3>2. CASE BeginTimesOut(Operator)
      <4>1. \E o : o # "deleted" /\ req'[Operator] = [req[Operator] EXCEPT !.outcome = o,
                                                                        !.answer = None]
        BY <1>1, <3>2 DEF BeginTimesOut, Fail, Conclude, TypeOK
      <4> QED
        BY <1>1, <4>1 DEF Request
    <3>3. CASE ListFiles(Operator) \/ StageFails(Operator)
      <4>1. PICK F : req'[Operator] = [req[Operator] EXCEPT !.files = F]
        BY <1>1, <3>3 DEF ListFiles, StageFails, TypeOK
      <4> QED
        BY <1>1, <4>1 DEF Request
    <3>4. CASE Stage(Operator) \/ Restore(Operator)
      <4>1. PICK f \in Files :
                \/ req' = [req EXCEPT ![Operator] =
                               [req[Operator] EXCEPT !.files = @ \ {f}, !.staged = @ \cup {f}]]
                \/ req' = [req EXCEPT ![Operator] =
                               [req[Operator] EXCEPT !.files = @ \ {f}, !.passed = @ \cup {f}]]
                \/ req' = [req EXCEPT ![Operator].staged = @ \ {f}]
        BY <1>1, <3>4 DEF Stage, Restore, Request
      <4>2. \/ req'[Operator] = [req[Operator] EXCEPT !.files = @ \ {f}, !.staged = @ \cup {f}]
            \/ req'[Operator] = [req[Operator] EXCEPT !.files = @ \ {f}, !.passed = @ \cup {f}]
            \/ req'[Operator] = [req[Operator] EXCEPT !.staged = @ \ {f}]
        BY <1>1, <4>1 DEF TypeOK
      <4> QED
        BY <1>1, <4>2 DEF Request
    <3>5. CASE EndRestore(Operator)
      <4>1. req'[Operator] = [req[Operator] EXCEPT !.outcome = "error", !.staged = {}]
        BY <1>1, <3>5 DEF EndRestore, TypeOK
      <4> QED
        BY <1>1, <4>1 DEF Request
    <3>6. CASE Purge(Operator) \/ EndPurge(Operator)
      BY <3>6 DEF Purge, EndPurge
    <3> QED
      BY <1>4, <3>1, <3>2, <3>3, <3>4, <3>5, <3>6 DEF DeleteStep
  <2> QED
    BY <2>3, <2>4, <2>5, <2>6, <2>7 DEF RowsKept, SameRequest, Doing
<1> QED
  BY <1>2, <1>3, <1>4 DEF DeleteTaskStep

LEMMA FlushTyped == FlushTypeOK /\ [ServerNext]_serverVars => FlushTypeOK'
<1> SUFFICES ASSUME FlushTypeOK, [ServerNext]_serverVars PROVE FlushTypeOK'
  OBVIOUS
<1> USE DEF FlushTypeOK, flushVars
<1>1. CASE Operate
  <2>1. up' \in BOOLEAN
    BY <1>1 DEF Operate, OperatorDeletes, StopService, FlushStep, BeginFlush, FlushFails, FlushTask,
       TaskFlushed, TasksFlushed, FlushRows, RemoveFile, FilesRemoved, FlushKilled, StartService,
       OperatorDies, DeleteTaskStep
  <2>2. flush' \in {"idle", "stopping", "tasks", "sessions", "buckets", "tree", "done", "ended"}
    BY <1>1 DEF Operate, OperatorDeletes, StopService, FlushStep, BeginFlush, FlushFails, FlushTask,
       TaskFlushed, TasksFlushed, FlushRows, RemoveFile, FilesRemoved, FlushKilled, StartService,
       OperatorDies, DeleteTaskStep
  <2>3. todo' \subseteq Tasks
    BY <1>1 DEF Operate, OperatorDeletes, StopService, FlushStep, BeginFlush, FlushFails, FlushTask,
       TaskFlushed, TasksFlushed, FlushRows, RemoveFile, FilesRemoved, FlushKilled, StartService,
       OperatorDies, DeleteTaskStep
  <2>4. others' \subseteq Tables
    BY <1>1 DEF Operate, OperatorDeletes, StopService, FlushStep, BeginFlush, FlushFails, FlushTask,
       TaskFlushed, TasksFlushed, FlushRows, RemoveFile, FilesRemoved, FlushKilled, StartService,
       OperatorDies, DeleteTaskStep
  <2> QED
    BY <2>1, <2>2, <2>3, <2>4
<1>2. CASE Serve \/ MakeExport \/ CheckStorage \/ UNCHANGED serverVars
  BY <1>2 DEF Serve, MakeExport, CheckStorage, serverVars
<1> QED
  BY <1>1, <1>2 DEF ServerNext

(* The phases follow one another as FlushHeld says.                        *)
LEMMA ServeKeepsFlush == CoreInv /\ Serve => FlushHeld'
<1> SUFFICES ASSUME CoreInv, Serve PROVE FlushHeld'
  OBVIOUS
<1>1. UNCHANGED flushVars /\ TypeOK /\ FlushHeld
  BY DEF Serve, CoreInv, PromiseInv, KeyInv
<1>2. CASE flush \notin {"tasks", "sessions", "buckets", "tree", "done"}
  BY <1>1, <1>2 DEF FlushHeld, flushVars
<1>3. CASE flush \in {"tasks", "sessions", "buckets", "tree", "done"}
  <2>1. CloseAll
    BY <1>3, WebRests
  <2>2. UNCHANGED <<disk, pc, req>> /\ \A t \in Tasks : Exists(t)' <=> Exists(t)
    BY <1>1, <2>1 DEF CloseAll, SetStatus, Exists, TypeOK, TaskRow
  <2>3. todo \subseteq Tasks
    BY DEF CoreInv, FlushTypeOK
  <2> QED
    BY <1>1, <2>2, <2>3 DEF FlushHeld, flushVars, Doing, Used
<1> QED
  BY <1>2, <1>3

LEMMA OperateKeepsFlush == CoreInv /\ Operate => FlushHeld'
<1> SUFFICES ASSUME CoreInv, Operate PROVE FlushHeld'
  OBVIOUS
<1> USE OperatorAssumption
<1>1. TypeOK /\ FlushHeld /\ FlushTypeOK
  BY DEF CoreInv, PromiseInv, KeyInv
<1>2. CASE OperatorDeletes \/ OperatorDies
  BY <1>1, <1>2 DEF OperatorDeletes, OperatorDies, FlushHeld, flushVars
<1>3. CASE StopService \/ FlushFails \/ FlushKilled \/ StartService
  BY <1>1, <1>3 DEF StopService, FlushFails, FlushKilled, StartService, FlushHeld
<1>4. CASE BeginFlush
  BY <1>1, <1>4 DEF BeginFlush, FlushHeld, Web, vars, Exists
<1>5. CASE FlushTask
  <2>1. PICK t \in todo :
           /\ Arrive(Operator, "begin", Ask("deltask", t, None, None, {}, "unused", None))
           /\ todo' = todo \ {t}
    BY <1>5 DEF FlushTask
  <2>2. /\ pc[Operator] = "idle" /\ pc'[Operator] = "begin" /\ req'[Operator].op = "deltask"
        /\ req'[Operator].task = t /\ req'[Operator].outcome = "none"
        /\ \A w \in Workers \ {Operator} : pc'[w] = pc[w]
        /\ UNCHANGED <<tasks, up, flush, others>> /\ flush = "tasks"
    BY <1>1, <1>5, <2>1 DEF FlushTask, Arrive, Goto, Ask, TypeOK
  <2>3. \A u \in Tasks : Exists(u)' <=> Exists(u)
    BY <2>2 DEF Exists
  <2>4. todo \subseteq Tasks
    BY <1>1 DEF FlushTypeOK
  <2> QED
    BY <1>1, <2>1, <2>2, <2>3, <2>4 DEF FlushHeld, Doing, Web
<1>6. CASE (DeleteTaskStep \/ TaskFlushed) /\ flush = "tasks"
  <2>1. todo' \subseteq todo /\ todo \subseteq Tasks /\ UNCHANGED <<up, others>>
        /\ (flush' = "ended" \/ (flush' = "tasks" /\ todo' = todo))
    BY <1>1, <1>6 DEF DeleteTaskStep, TaskFlushed, flushVars, FlushTypeOK
  <2>2. CASE flush' = "ended"
    BY <1>1, <1>6, <2>1, <2>2 DEF FlushHeld
  <2>3. CASE flush' = "tasks" /\ todo' = todo
    <3>1. /\ pc[Operator] # "idle"
          /\ \A w \in Workers \ {Operator} : pc'[w] = pc[w]
          /\ pc'[Operator] # "idle" => /\ req'[Operator].op = req[Operator].op
                                     /\ req'[Operator].task = req[Operator].task
          /\ \A t \in Tasks : Exists(t)' => Exists(t)
          /\ \A t \in Tasks : Exists(t) /\ ~Exists(t)' => t = req[Operator].task
          /\ \A t \in Tasks : Exists(t)' /\ Doing(t) => Doing(t)'
      <4>1. pc[Operator] # "idle"
        BY <1>1, <1>6, StepsGoOn DEF DeleteTaskStep, TaskFlushed, Reply, Step
      <4>2. flush' = flush
        BY <1>6, <2>3
      <4> QED
        BY <1>6, <4>1, <4>2, DeletionGoesOn
    <3>2. \A w \in Web : pc'[w] = "idle"
      BY <1>1, <1>6, <3>1 DEF FlushHeld, Web
    <3>3. \A t \in todo : Exists(t)' /\ ~(pc'[Operator] # "idle" /\ req'[Operator].task = t)
      BY <1>1, <1>6, <2>1, <3>1 DEF FlushHeld
    <3>4. \A t \in Tasks : Exists(t)' => t \in todo \/ Doing(t)'
      BY <1>1, <1>6, <3>1 DEF FlushHeld
    <3>5. pc'[Operator] # "idle" => req'[Operator].op = "deltask"
      BY <1>1, <1>6, <3>1 DEF FlushHeld
    <3> QED
      BY <1>1, <1>6, <2>1, <2>3, <3>2, <3>3, <3>4, <3>5 DEF FlushHeld
  <2> QED
    BY <2>1, <2>2, <2>3
<1>7. CASE (DeleteTaskStep \/ TaskFlushed) /\ flush # "tasks"
  <2>1. pc[Operator] # "idle"
    BY <1>1, <1>7, StepsGoOn DEF DeleteTaskStep, TaskFlushed, Reply, Step
  <2> QED
    BY <1>1, <1>7, <2>1 DEF DeleteTaskStep, TaskFlushed, flushVars, FlushHeld
<1>8. CASE TasksFlushed
  BY <1>1, <1>8 DEF TasksFlushed, FlushHeld, Doing, vars, Exists, FlushTypeOK
<1>9. CASE FlushRows
  BY <1>1, <1>9 DEF FlushRows, FlushHeld, vars, Exists, FlushTypeOK, Tables
<1>10. CASE RemoveFile
  BY <1>1, <1>10 DEF RemoveFile, FlushHeld, flushVars, Exists
<1>11. CASE FilesRemoved
  BY <1>1, <1>11 DEF FilesRemoved, FlushHeld, vars, Exists, Used
<1> QED
  BY <1>2, <1>3, <1>4, <1>5, <1>6, <1>7, <1>8, <1>9, <1>10, <1>11 DEF Operate, FlushStep

LEMMA FlushInductive == CoreInv /\ [ServerNext]_serverVars => FlushHeld'
<1>1. CASE MakeExport \/ CheckStorage \/ UNCHANGED serverVars
  <2>1. UNCHANGED <<vars, flushVars>>
    BY <1>1 DEF MakeExport, CheckStorage, serverVars
  <2> QED
    BY <2>1 DEF CoreInv, FlushHeld, vars, flushVars, Exists, Doing, Used
<1> QED
  BY <1>1, ServeKeepsFlush, OperateKeepsFlush DEF ServerNext

LEMMA CoreInductive == CoreInv /\ [ServerNext]_serverVars => CoreInv'
BY CoreSteps, FlushTyped, FlushInductive DEF CoreInv

LEMMA CoreInitially == ServerInit => CoreInv
<1> SUFFICES ASSUME ServerInit PROVE CoreInv
  OBVIOUS
<1>1. PromiseInv
  BY InitPromised DEF ServerInit
<1>2. Resting
  BY DEF ServerInit, Init, Resting
<1>3. FlushTypeOK /\ FlushHeld
  BY DEF ServerInit, FlushInit, FlushTypeOK, FlushHeld
<1> QED
  BY <1>1, <1>2, <1>3 DEF CoreInv

LEMMA CoreInvariant == ServerSpec => []CoreInv
BY CoreInitially, CoreInductive, PTL DEF ServerSpec

(* HandIn's promise about the bytes of recorded files, kept by the whole   *)
(* server: that rmtree of a flush takes files away without the lock costs  *)
(* no row its bytes, because no row is left by then.                       *)
THEOREM ServerBytesKept == ServerSpec => []RecordedBytesKept
<1>1. CoreInv => RecordedBytesKept
  BY DEF CoreInv, PromiseInv, KeyInv, Ownership
<1> QED
  BY <1>1, CoreInvariant, PTL

(* data-lifecycle.md:14, "It permanently removes tasks, submissions,       *)
(* uploaded files, and browser authorization sessions": manage.py          *)
(* flush_data ends well only when nothing of all that is left.             *)
THEOREM FlushComplete == ServerSpec => []FlushLeavesNothing
<1>1. CoreInv => FlushLeavesNothing
  BY NothingLeft DEF CoreInv, FlushHeld, FlushLeavesNothing, Used
<1> QED
  BY <1>1, CoreInvariant, PTL

-------------------------------------------------------------------------------
(* What an export reads.                                                   *)

(* A hand-in's id is used once: its row keeps its task for as long as it   *)
(* is stored, does not come back once deleted, and gets no more files.     *)
RowsStay == \A s \in Subs : subs[s].state # "unused" =>
    /\ subs'[s].state # "unused"
    /\ Stored(s)' => Stored(s) /\ subs'[s].task = subs[s].task
    /\ \A f \in Files : owner'[f] = s => owner[f] = s

LEMMA CoreRowsStay == PromiseInv /\ [Next]_vars => RowsStay
<1> SUFFICES ASSUME PromiseInv, [Next]_vars PROVE RowsStay
  OBVIOUS
<1>1. TypeOK /\ Ownership /\ IdsReserved
  BY DEF PromiseInv, KeyInv, Promises
<1>2. ASSUME NEW w \in Workers, CommitTask(w) PROVE RowsStay
  <2>1. req[w].task \in Tasks /\ UNCHANGED subs
    BY <1>1, <1>2 DEF CommitTask, Ownership, StepsApart
  <2> QED
    BY <1>1, <1>2, <2>1, ConstantsAssumption DEF CommitTask, RowsStay, Stored, TypeOK
<1>3. ASSUME NEW w \in Workers, CommitSubmission(w) PROVE RowsStay
  <2>1. req[w].sub \in Subs /\ subs[req[w].sub].state = "unused"
    BY <1>1, <1>3 DEF CommitSubmission, Ownership, StepsApart, IdsReserved, Reserved
  <2>2. \A s \in Subs : subs[s].state # "unused" =>
           subs'[s] = subs[s] /\ \A f \in Files : owner'[f] = s => owner[f] = s
    BY <1>1, <1>3, <2>1 DEF CommitSubmission, TypeOK
  <2> QED
    BY <2>2 DEF RowsStay, Stored
<1>4. ASSUME NEW w \in Workers, CommitDelete(w) PROVE RowsStay
  BY <1>1, <1>4, ConstantsAssumption DEF CommitDelete, RowsStay, Stored, TypeOK
<1>5. ASSUME UNCHANGED <<subs, owner>> PROVE RowsStay
  BY <1>5 DEF RowsStay, Stored
<1>6. ASSUME NEW w \in Workers, Arrives(w) PROVE UNCHANGED <<subs, owner>>
  BY <1>6 DEF Arrives, CreateArrives, SubmitArrives, DeleteSubmissionArrives, DeleteTaskArrives,
     Arrive
<1>7. ASSUME NEW w \in Workers, Step(w) \/ Crash(w), ~Commits(w) PROVE UNCHANGED <<subs, owner>>
  BY <1>1, <1>7, ServingSteps DEF RowsKept
<1>8. CASE CloseTask \/ ReopenTask \/ CloseAll \/ UNCHANGED vars
  BY <1>5, <1>8 DEF CloseTask, ReopenTask, CloseAll, SetStatus, vars
<1> QED
  BY <1>2, <1>3, <1>4, <1>5, <1>6, <1>7, <1>8 DEF Next, Commits

LEMMA ServerRowsStay == CoreInv /\ [ServerNext]_serverVars => RowsStay
<1>1. RemoveFile => RowsStay
  BY DEF RemoveFile, RowsStay, Stored
<1> QED
  BY <1>1, ServerSteps, CoreRowsStay DEF CoreInv

LEMMA ExportTyped ==
    TypeOK /\ export \in Exporting /\ [ServerNext]_serverVars => export' \in Exporting
<1> SUFFICES ASSUME TypeOK, export \in Exporting, MakeExport PROVE export' \in Exporting
  BY DEF ServerNext, Serve, Operate, CheckStorage, serverVars
<1>1. NoExport \in Exporting
  BY DEF NoExport, Exporting
<1>2. CASE ExportArrives
  <2>1. PICK t \in Tasks : export' = [NoExport EXCEPT !.at = "estimate", !.task = t,
                                    !.asked = {s \in Subs : Stored(s) /\ subs[s].task = t}]
    BY <1>2 DEF ExportArrives
  <2> QED
    BY <1>1, <2>1 DEF Exporting
<1>3. CASE Estimate \/ EndChunk \/ EndFiles \/ EndRows \/ Seal
  BY <1>3 DEF Estimate, EndChunk, EndFiles, EndRows, Seal, Goes, Exporting
<1>4. CASE Query
  BY <1>4 DEF Query, FileRows, Exporting, TypeOK
<1>5. CASE Fetch
  <2>1. PICK C \in SUBSET export.rows, F \in [Files -> Subs \cup {None}] :
           export' = [export EXCEPT !.at = "row", !.rows = @ \ C, !.chunk = C, !.filed = F]
    <3>1. export.filed \in [Files -> Subs \cup {None}] /\ export.rows \subseteq Subs
      BY DEF Exporting
    <3>2. \A C \in SUBSET export.rows : FileRows(C) \in [Files -> Subs \cup {None}]
      BY <3>1 DEF FileRows
    <3> QED
      BY <1>5, <3>1, <3>2 DEF Fetch
  <2> QED
    BY <2>1 DEF Exporting
<1>6. CASE NextRow
  <2>1. PICK s \in export.chunk :
           export' = [export EXCEPT !.at = "file", !.chunk = @ \ {s}, !.written = @ \cup {s},
                         !.files = {f \in Files : export.filed[f] = s},
                         !.filed = [f \in Files |-> IF @[f] = s THEN None ELSE @[f]]]
    BY <1>6 DEF NextRow
  <2>2. s \in Subs /\ [f \in Files |-> IF export.filed[f] = s THEN None ELSE export.filed[f]]
                        \in [Files -> Subs \cup {None}]
    BY DEF Exporting
  <2> QED
    BY <2>1, <2>2 DEF Exporting
<1>7. CASE Pack
  <2>1. PICK f \in export.files :
           export' = [export EXCEPT !.files = @ \ {f}, !.packed = @ \cup {f}]
    BY <1>7 DEF Pack
  <2> QED
    BY <2>1 DEF Exporting
<1>8. CASE ExportFull \/ ExportFails \/ EndExport
  BY <1>1, <1>8 DEF ExportFull, ExportFails, EndExport, Breaks, Exporting
<1> QED
  BY <1>2, <1>3, <1>4, <1>5, <1>6, <1>7, <1>8 DEF MakeExport, ExportStep

(* Every hand-in that was asked for and is still there is on its way into  *)
(* the archive, with the file rows it has.                                 *)
Taken == export.rows \cup export.chunk \cup export.written

ExportHeld ==
    /\ \A s \in export.asked \cup Taken : subs[s].state # "unused"
    /\ export.at \in {"estimate", "query"} =>
          /\ Taken = {}
          /\ \A s \in export.asked : Stored(s) => subs[s].task = export.task
    /\ export.at \notin {"estimate", "query"} => \A s \in export.asked : Stored(s) => s \in Taken
    /\ \A f \in Files : /\ owner[f] \in export.rows \cup export.chunk => export.filed[f] = owner[f]
                        /\ owner[f] \in export.written => f \in export.packed \cup export.files
    /\ export.at # "file" => export.files = {}
    /\ export.at \notin {"row", "file"} => export.chunk = {}
    /\ export.at \in {"seal", "sent"} => export.rows = {}
    /\ export.rows \cap export.chunk = {}

(* A step beside the export.                                               *)
LEMMA OthersKeepExport ==
    CoreInv /\ export \in Exporting /\ ExportHeld /\ [ServerNext]_serverVars /\ UNCHANGED export
    => ExportHeld'
<1> SUFFICES ASSUME CoreInv, export \in Exporting, ExportHeld, [ServerNext]_serverVars,
                    UNCHANGED export
             PROVE  ExportHeld'
  OBVIOUS
<1>1. RowsStay
  BY ServerRowsStay
<1>2. export.asked \cup Taken \subseteq Subs
  BY DEF Exporting, Taken
<1>3. \A s \in export.asked \cup Taken : subs'[s].state # "unused"
  BY <1>1, <1>2 DEF RowsStay, ExportHeld
<1>4. \A s \in export.asked : Stored(s)' => Stored(s) /\ subs'[s].task = subs[s].task
  BY <1>1, <1>2 DEF RowsStay, ExportHeld
<1>5. \A f \in Files : owner'[f] \in Taken => owner[f] = owner'[f]
  BY <1>1, <1>2 DEF RowsStay, ExportHeld
<1> QED
  BY <1>3, <1>4, <1>5 DEF ExportHeld, Taken

LEMMA ExportKeeps == TypeOK /\ export \in Exporting /\ ExportHeld /\ MakeExport => ExportHeld'
<1> SUFFICES ASSUME TypeOK, export \in Exporting, ExportHeld, MakeExport PROVE ExportHeld'
  OBVIOUS
<1>1. UNCHANGED <<subs, owner>>
  BY DEF MakeExport, vars
<1>2. CASE export'.asked = {} /\ Taken' = {} /\ export'.files = {}
  BY <1>2 DEF ExportHeld, Taken
<1>3. CASE ExportFull \/ ExportFails \/ EndExport
  <2>1. PICK l : export' = [NoExport EXCEPT !.at = l]
    BY <1>3 DEF ExportFull, ExportFails, EndExport, Breaks, NoExport
  <2> QED
    BY <1>2, <2>1 DEF NoExport, Taken
<1>4. CASE ExportArrives
  <2>1. PICK t \in Tasks : export' = [NoExport EXCEPT !.at = "estimate", !.task = t,
                                    !.asked = {s \in Subs : Stored(s) /\ subs[s].task = t}]
    BY <1>4 DEF ExportArrives
  <2>2. /\ export'.at = "estimate" /\ export'.task = t /\ Taken' = {} /\ export'.files = {}
        /\ export'.asked = {s \in Subs : Stored(s) /\ subs[s].task = t}
    BY <2>1 DEF NoExport, Taken
  <2> QED
    BY <1>1, <2>2 DEF ExportHeld, Stored, Taken
<1>5. CASE Estimate \/ EndChunk \/ EndFiles \/ EndRows \/ Seal
  <2>1. PICK l : export' = [export EXCEPT !.at = l]
    BY <1>5 DEF Estimate, EndChunk, EndFiles, EndRows, Seal, Goes
  <2>2. /\ export'.asked = export.asked /\ Taken' = Taken /\ export'.task = export.task
        /\ export'.rows = export.rows /\ export'.chunk = export.chunk
        /\ export'.filed = export.filed /\ export'.files = export.files
        /\ export'.written = export.written /\ export'.packed = export.packed
    BY <2>1 DEF Exporting, Taken
  <2>3. \/ export.at = "estimate" /\ export'.at = "query"
        \/ export.at = "row" /\ export.chunk = {} /\ export'.at = "chunk"
        \/ export.at = "file" /\ export.files = {} /\ export'.at = "row"
        \/ export.at = "chunk" /\ export.rows = {} /\ export'.at = "seal"
        \/ export.at = "seal" /\ export'.at = "sent"
    BY <1>5 DEF Estimate, EndChunk, EndFiles, EndRows, Seal, Goes, Exporting
  <2> QED
    BY <1>1, <2>2, <2>3 DEF ExportHeld, Stored
<1>6. CASE Query
  <2>1. /\ export'.asked = export.asked /\ export'.chunk = {} /\ export'.written = {}
        /\ export'.rows = {s \in Subs : Stored(s) /\ subs[s].task = export.task}
        /\ export'.filed = FileRows(export'.rows) /\ export'.files = {}
        /\ export'.at = "chunk" /\ export.at = "query"
    BY <1>6 DEF Query, Exporting, ExportHeld, Taken
  <2>2. export.asked \subseteq Subs
    BY DEF Exporting
  <2> QED
    BY <1>1, <2>1, <2>2 DEF ExportHeld, Stored, Taken, FileRows
<1>7. CASE Fetch
  <2>1. PICK C \in SUBSET export.rows :
           export' = [export EXCEPT !.at = "row", !.rows = @ \ C, !.chunk = C,
                         !.filed = IF C = export.rows THEN FileRows(C) ELSE @]
    BY <1>7 DEF Fetch
  <2>2. /\ export'.asked = export.asked /\ export'.chunk = C /\ export'.written = export.written
        /\ export'.rows = export.rows \ C /\ export'.files = export.files
        /\ export'.packed = export.packed
        /\ export'.filed = IF C = export.rows THEN FileRows(C) ELSE export.filed
        /\ export'.at = "row" /\ export.at = "chunk"
    BY <1>7, <2>1 DEF Fetch, Exporting
  <2>3. Taken' = Taken /\ export'.rows \cup export'.chunk = export.rows
    BY <2>2 DEF ExportHeld, Taken
  <2>4. \A f \in Files : owner[f] \in export.rows => export'.filed[f] = owner[f]
    BY <2>2 DEF ExportHeld, FileRows
  <2> QED
    BY <1>1, <2>2, <2>3, <2>4 DEF ExportHeld, Stored
<1>8. CASE NextRow
  <2>1. PICK s \in export.chunk :
           export' = [export EXCEPT !.at = "file", !.chunk = @ \ {s}, !.written = @ \cup {s},
                         !.files = {f \in Files : export.filed[f] = s},
                         !.filed = [f \in Files |-> IF @[f] = s THEN None ELSE @[f]]]
    BY <1>8 DEF NextRow
  <2>2. /\ export'.asked = export.asked /\ export'.chunk = export.chunk \ {s}
        /\ export'.written = export.written \cup {s} /\ export'.rows = export.rows
        /\ export'.files = {f \in Files : export.filed[f] = s}
        /\ export'.packed = export.packed /\ export'.at = "file" /\ export.at = "row"
        /\ \A f \in Files : export.filed[f] # s => export'.filed[f] = export.filed[f]
    BY <1>8, <2>1 DEF NextRow, Exporting
  <2>3. Taken' = Taken
    BY <2>2 DEF Taken
  <2>4. \A f \in Files : owner[f] \in export'.rows \cup export'.chunk => export'.filed[f] = owner[f]
    BY <2>2 DEF ExportHeld
  <2>5. \A f \in Files : owner[f] \in export'.written => f \in export'.packed \cup export'.files
    BY <2>2 DEF ExportHeld
  <2> QED
    BY <1>1, <2>2, <2>3, <2>4, <2>5 DEF ExportHeld, Stored
<1>9. CASE Pack
  <2>1. PICK f \in export.files :
           export' = [export EXCEPT !.files = @ \ {f}, !.packed = @ \cup {f}]
    BY <1>9 DEF Pack
  <2>2. /\ export'.asked = export.asked /\ Taken' = Taken /\ export'.at = export.at
        /\ export'.rows = export.rows /\ export'.chunk = export.chunk
        /\ export'.filed = export.filed /\ export'.written = export.written
        /\ export'.files = export.files \ {f} /\ export'.packed = export.packed \cup {f}
        /\ export'.at = "file" /\ export.at = "file"
    BY <1>9, <2>1 DEF Pack, Exporting, Taken
  <2> QED
    BY <1>1, <2>2 DEF ExportHeld, Stored
<1> QED
  BY <1>3, <1>4, <1>5, <1>6, <1>7, <1>8, <1>9 DEF MakeExport, ExportStep

LEMMA ExportInitially == ServerInit => TypeOK /\ export \in Exporting /\ ExportHeld
<1> SUFFICES ASSUME ServerInit PROVE TypeOK /\ export \in Exporting /\ ExportHeld
  OBVIOUS
<1>1. TypeOK /\ export = NoExport
  BY InitTyped DEF ServerInit
<1> QED
  BY <1>1 DEF NoExport, Exporting, ExportHeld, Taken

LEMMA ExportInvariant == ServerSpec => [](CoreInv /\ export \in Exporting /\ ExportHeld)
<1> DEFINE Inv == CoreInv /\ export \in Exporting /\ ExportHeld
<1>1. ServerInit => Inv
  BY CoreInitially, ExportInitially
<1>2. Inv /\ [ServerNext]_serverVars => Inv'
  <2> SUFFICES ASSUME Inv, [ServerNext]_serverVars PROVE Inv'
    OBVIOUS
  <2>1. CoreInv' /\ TypeOK
    BY CoreInductive DEF CoreInv, PromiseInv, KeyInv
  <2>2. (export \in Exporting)'
    BY <2>1, ExportTyped
  <2>3. CASE UNCHANGED export
    BY <2>1, <2>2, <2>3, OthersKeepExport
  <2>4. CASE MakeExport
    BY <2>1, <2>2, <2>4, ExportKeeps
  <2> QED
    BY <2>3, <2>4 DEF ServerNext, Serve, Operate, CheckStorage, serverVars
<1> QED
  BY <1>1, <1>2, PTL DEF ServerSpec

(* exports.py:74-116 (_write_task_export) reads while requests and        *)
(* deletions go on, and an archive that it returns still has every hand-in *)
(* that was stored when the teacher asked and is not deleted, with each of *)
(* its files.                                                              *)
THEOREM ExportsComplete == ServerSpec => []ExportComplete
<1>1. ExportHeld => ExportComplete
  BY DEF ExportHeld, ExportComplete, Taken
<1> QED
  BY <1>1, ExportInvariant, PTL

-------------------------------------------------------------------------------
(* What a storage check has found out about the files that stand still.    *)
CheckHeld ==
    /\ check.at \in {"attachments", "submissions"} => check.missing = {}
    /\ check.at \in {"attachments", "submissions", "records", "listing", "tmp"} =>
          check.leftover = {}
    /\ check.at = "submissions" => \A f \in steady : f \in check.expected <=> owner[f] \in Tasks
    /\ check.at \in {"records", "listing", "tmp", "trash", "report"} =>
          \A f \in steady :
             /\ f \in check.expected <=> owner[f] # None
             /\ f \in check.missing \/ (f \in check.todo /\ disk[f] # "live")
                   <=> owner[f] # None /\ disk[f] # "live"
    /\ check.at \in {"listing", "tmp", "trash", "report"} => check.todo = {}
    /\ check.at \in {"tmp", "trash", "report"} =>
          \A f \in steady : f \in check.orphaned <=> owner[f] = None /\ disk[f] = "live"
    /\ check.at = "trash" => \A f \in steady : f \in check.leftover <=> disk[f] = "tmp"
    /\ check.at = "report" =>
          \A f \in steady : f \in check.leftover <=> disk[f] \in {"tmp", "trash"}

CheckInv == TypeOK /\ check \in Checking /\ steady \subseteq Files /\ CheckHeld

LEMMA CheckTyped ==
    TypeOK /\ check \in Checking /\ steady \subseteq Files /\ [ServerNext]_serverVars
    => check' \in Checking /\ steady' \subseteq Files
<1> SUFFICES ASSUME check \in Checking, steady \subseteq Files, [ServerNext]_serverVars
             PROVE  check' \in Checking /\ steady' \subseteq Files
  OBVIOUS
<1>1. CASE UNCHANGED check /\ (Watch \/ UNCHANGED steady)
  BY <1>1 DEF Watch
<1>2. NoCheck \in Checking
  BY DEF NoCheck, Checking
<1>3. CASE BeginCheck \/ EndCheck
  BY <1>2, <1>3 DEF BeginCheck, EndCheck, NoCheck, Checking
<1>4. CASE ReadAttachments \/ EndRecords
  BY <1>4 DEF ReadAttachments, EndRecords, Checking
<1>5. CASE ReadSubmissionFiles
  <2>1. PICK R \in SUBSET Files :
           check' = [check EXCEPT !.at = "records", !.expected = R, !.todo = R]
    BY <1>5 DEF ReadSubmissionFiles, Checking
  <2> QED
    BY <1>5, <2>1 DEF ReadSubmissionFiles, Checking
<1>6. CASE ListFinal
  BY <1>6 DEF ListFinal, Checking
<1>7. CASE ListInternal
  BY <1>7 DEF ListInternal, Checking
<1>8. CASE LookUp
  <2>1. PICK f \in check.todo : \E o \in SUBSET check.todo :
           \/ check' = [check EXCEPT !.todo = @ \ {f}, !.opening = o]
           \/ check' = [check EXCEPT !.todo = @ \ {f}, !.missing = @ \cup {f}]
    BY <1>8 DEF LookUp
  <2>2. ASSUME NEW o \in SUBSET check.todo, check' = [check EXCEPT !.todo = @ \ {f}, !.opening = o]
        PROVE  check' \in Checking
    BY <2>2 DEF Checking
  <2>3. ASSUME check' = [check EXCEPT !.todo = @ \ {f}, !.missing = @ \cup {f}]
        PROVE  check' \in Checking
    BY <2>3 DEF Checking
  <2>4. UNCHANGED steady
    BY <1>8 DEF LookUp
  <2> QED
    BY <2>1, <2>2, <2>3, <2>4
<1>9. CASE ReadFile
  BY <1>9 DEF ReadFile, Checking
<1> QED
  BY <1>1, <1>3, <1>4, <1>5, <1>6, <1>7, <1>8, <1>9 DEF ServerNext, Serve, Operate, MakeExport,
     CheckStorage, CheckStep, serverVars

(* The check itself changes nothing that it looks at.                      *)
LEMMA CheckKeeps == CheckInv /\ CheckStorage => CheckHeld'
<1> SUFFICES ASSUME CheckInv, CheckStorage PROVE CheckHeld'
  OBVIOUS
<1>1. UNCHANGED <<owner, disk>> /\ \A f \in Files : owner[f] \in Tasks \cup Subs \cup {None}
  BY DEF CheckStorage, vars, CheckInv, TypeOK
<1>2. CASE BeginCheck \/ EndCheck
  BY <1>2 DEF BeginCheck, EndCheck, NoCheck, CheckHeld
<1>3. CASE ReadAttachments
  <2>1. /\ check'.at = "submissions" /\ check'.missing = {} /\ check'.leftover = {}
        /\ check'.expected = {f \in Files : owner[f] \in Tasks} /\ steady' = steady
    BY <1>3 DEF ReadAttachments, CheckInv, Checking, CheckHeld
  <2> QED
    BY <1>1, <2>1 DEF CheckInv, CheckHeld
<1>4. CASE ReadSubmissionFiles
  <2>1. /\ check.at = "submissions" /\ check'.at = "records" /\ steady' = steady
        /\ check'.missing = {} /\ check'.leftover = {} /\ check'.todo = check'.expected
        /\ check'.expected = check.expected \cup {f \in Files : owner[f] \in Subs}
    BY <1>4 DEF ReadSubmissionFiles, CheckInv, Checking, CheckHeld
  <2>2. \A f \in steady : f \in check'.expected <=> owner[f] # None
    BY <1>1, <2>1, ConstantsAssumption DEF CheckInv, CheckHeld
  <2> QED
    BY <1>1, <2>1, <2>2 DEF CheckHeld
<1>5. CASE LookUp
  <2>1. PICK f \in check.todo : \E o \in SUBSET check.todo :
           check' = IF disk[f] = "live"
                    THEN [check EXCEPT !.todo = @ \ {f}, !.opening = o]
                    ELSE [check EXCEPT !.todo = @ \ {f}, !.missing = @ \cup {f}]
    BY <1>5 DEF LookUp
  <2>2. /\ check.at = "records" /\ check'.at = "records" /\ steady' = steady
        /\ check'.leftover = check.leftover /\ check'.expected = check.expected
        /\ check'.todo = check.todo \ {f}
        /\ check'.missing = IF disk[f] = "live" THEN check.missing ELSE check.missing \cup {f}
    BY <1>5, <2>1 DEF LookUp, CheckInv, Checking
  <2> QED
    BY <1>1, <2>2 DEF CheckInv, CheckHeld
<1>6. CASE ReadFile \/ EndRecords
  <2>1. /\ check.at = "records" /\ check'.at \in {"records", "listing", "failed"}
        /\ steady' = steady /\ check'.leftover = check.leftover
        /\ check'.expected = check.expected /\ check'.todo = check.todo
        /\ check'.missing = check.missing
        /\ check'.at = "listing" => check.todo = {}
    BY <1>6 DEF ReadFile, EndRecords, CheckInv, Checking
  <2> QED
    BY <1>1, <2>1 DEF CheckInv, CheckHeld
<1>7. CASE ListFinal
  <2>1. /\ check.at = "listing" /\ check'.at = "tmp" /\ steady' = steady
        /\ check'.leftover = check.leftover /\ check'.expected = check.expected
        /\ check'.todo = check.todo /\ check'.missing = check.missing
        /\ check'.orphaned = {f \in Files : disk[f] = "live"} \ check.expected
    BY <1>7 DEF ListFinal, CheckInv, Checking
  <2> QED
    BY <1>1, <2>1 DEF CheckInv, CheckHeld
<1>8. CASE ListInternal
  <2>1. /\ steady' = steady /\ check'.expected = check.expected /\ check'.todo = check.todo
        /\ check'.missing = check.missing /\ check'.orphaned = check.orphaned
        /\ \/ /\ check.at = "tmp" /\ check'.at = "trash"
              /\ check'.leftover = {f \in Files : disk[f] = "tmp"}
           \/ /\ check.at = "trash" /\ check'.at = "report"
              /\ check'.leftover = check.leftover \cup {f \in Files : disk[f] = "trash"}
    BY <1>8 DEF ListInternal, CheckInv, Checking
  <2> QED
    BY <1>1, <2>1 DEF CheckInv, CheckHeld
<1> QED
  BY <1>2, <1>3, <1>4, <1>5, <1>6, <1>7, <1>8 DEF CheckStorage, CheckStep

LEMMA CheckInvariant == ServerSpec => [](CoreInv /\ CheckInv)
<1> DEFINE Inv == CoreInv /\ CheckInv
<1>1. CoreInv => TypeOK
  BY DEF CoreInv, PromiseInv, KeyInv
<1>2. ServerInit => Inv
  BY <1>1, CoreInitially DEF ServerInit, NoCheck, CheckInv, Checking, CheckHeld
<1>3. Inv /\ [ServerNext]_serverVars => Inv'
  <2> SUFFICES ASSUME Inv, [ServerNext]_serverVars PROVE Inv'
    OBVIOUS
  <2>1. CoreInv' /\ TypeOK'
    BY CoreInductive DEF CoreInv, PromiseInv, KeyInv
  <2>2. check' \in Checking /\ steady' \subseteq Files
    BY CheckTyped DEF CheckInv
  <2>3. CheckStorage => CheckHeld'
    BY CheckKeeps
  <2>4. UNCHANGED check /\ Watch => CheckHeld'
    BY DEF CheckInv, CheckHeld, Watch
  <2>5. UNCHANGED <<check, steady, owner, disk>> => CheckHeld'
    BY DEF CheckInv, CheckHeld
  <2>6. CheckHeld'
    BY <2>3, <2>4, <2>5 DEF ServerNext, Serve, Operate, MakeExport, serverVars, vars
  <2> QED
    BY <2>1, <2>2, <2>6 DEF CheckInv
<1> QED
  BY <1>2, <1>3, PTL DEF ServerSpec

(* check_storage.py:17-60 (handle) reads rows and directories one after    *)
(* the other while requests run, and what it says of a file whose row and  *)
(* place stayed as they were is so.                                        *)
THEOREM ReportsExact == ServerSpec => []ReportExact
<1>1. CheckInv => ReportExact
  BY DEF CheckInv, CheckHeld, ReportExact
<1> QED
  BY <1>1, CheckInvariant, PTL

(* Every variable of the server has its type.                              *)
THEOREM ServerTypeCorrect == ServerSpec => []ServerTypeOK
<1>1. CoreInv /\ export \in Exporting /\ CheckInv => ServerTypeOK
  BY DEF CoreInv, CheckInv, ServerTypeOK
<1> QED
  BY <1>1, ExportInvariant, CheckInvariant, PTL
===============================================================================
