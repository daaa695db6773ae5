----------------------------- MODULE HandInProofs -----------------------------
(* What TLAPS proves of HandIn, for every value of its constants.          *)
EXTENDS HandIn, TLAPS

(* Every variable keeps its type.  The steps of one worker change its own  *)
(* control and request; nothing else is written but through the actions    *)
(* named below.                                                            *)
LEMMA NoRequestType == NoRequest \in Request
BY DEF NoRequest, Ask, Request, Outcomes

LEMMA ArrivalsType ==
    ASSUME TypeOK, NEW w \in Workers, Arrives(w) PROVE TypeOK'
<1>1. ASSUME NEW l \in Controls, NEW r \in Request, Arrive(w, l, r) PROVE TypeOK'
  BY <1>1 DEF TypeOK, Arrive, Goto
<1>2. CASE CreateArrives(w)
  <2>1. PICK t \in Tasks, n \in Keys, F \in SUBSET FreshFiles :
            Arrive(w, "space", Ask("create", t, None, n, F, "unused", None))
    BY <1>2 DEF CreateArrives
  <2>2. Ask("create", t, None, n, F, "unused", None) \in Request
    BY DEF Ask, Request, Outcomes, FreshFiles
  <2> QED
    BY <1>1, <2>1, <2>2 DEF Controls
<1>3. CASE SubmitArrives(w)
  <2>1. PICK t \in Tasks, s \in Subs, k \in Keys, p \in Subs \cup {None},
             F \in SUBSET FreshFiles :
            Arrive(w, "retry", Ask("submit", t, s, k, F, tasks[t].status, p))
    BY <1>3 DEF SubmitArrives
  <2>2. tasks[t].status \in {"unused", "open", "closed", "deleted"}
    BY DEF TypeOK, TaskRow
  <2>3. Ask("submit", t, s, k, F, tasks[t].status, p) \in Request
    BY <2>2 DEF Ask, Request, Outcomes, FreshFiles
  <2> QED
    BY <1>1, <2>1, <2>3 DEF Controls
<1>4. CASE DeleteSubmissionArrives(w)
  <2>1. PICK s \in Subs :
            Arrive(w, "begin", Ask("delsub", subs[s].task, s, None, {}, "unused", None))
    BY <1>4 DEF DeleteSubmissionArrives
  <2>2. subs[s].task \in Tasks \cup {None}
    BY DEF TypeOK, SubRow
  <2>3. Ask("delsub", subs[s].task, s, None, {}, "unused", None) \in Request
    BY <2>2 DEF Ask, Request, Outcomes
  <2> QED
    BY <1>1, <2>1, <2>3 DEF Controls
<1>5. CASE DeleteTaskArrives(w)
  <2>1. PICK t \in Tasks :
            Arrive(w, "begin", Ask("deltask", t, None, None, {}, "unused", None))
    BY <1>5 DEF DeleteTaskArrives
  <2>2. Ask("deltask", t, None, None, {}, "unused", None) \in Request
    BY DEF Ask, Request, Outcomes
  <2> QED
    BY <1>1, <2>1, <2>2 DEF Controls
<1> QED
  BY <1>2, <1>3, <1>4, <1>5 DEF Arrives

(* Ending a request in an outcome keeps its record's type.                 *)
LEMMA ConcludeType ==
    ASSUME TypeOK, NEW w \in Workers, NEW l \in Controls, NEW o \in Outcomes,
           NEW s \in Subs \cup {None}, Conclude(w, l, o, s)
    PROVE  pc' \in [Workers -> Controls] /\ req' \in [Workers -> Request]
<1>1. req[w] \in Request
  BY DEF TypeOK
<1>2. [req[w] EXCEPT !.outcome = o, !.answer = s] \in Request
  BY <1>1 DEF Request
<1> QED
  BY <1>2 DEF TypeOK, Conclude, Goto

(* So does replacing a whole request by another of its type.               *)
LEMMA ReplaceType ==
    ASSUME TypeOK, NEW w \in Workers, NEW r \in Request, req' = [req EXCEPT ![w] = r]
    PROVE  req' \in [Workers -> Request]
BY DEF TypeOK

LEMMA GotoType ==
    ASSUME TypeOK, NEW w \in Workers, NEW l \in Controls, Goto(w, l)
    PROVE  pc' \in [Workers -> Controls]
BY DEF TypeOK, Goto

LEMMA AnswerKnownKeyType ==
    ASSUME TypeOK, NEW w \in Workers, NEW l \in Controls, AnswerKnownKey(w, l)
    PROVE  pc' \in [Workers -> Controls] /\ req' \in [Workers -> Request]
BY ConcludeType DEF AnswerKnownKey, KeyHolders, Outcomes

LEMMA UploadsType ==
    ASSUME TypeOK, NEW w \in Workers, UploadStep(w) PROVE TypeOK'
<1> USE DEF Controls, Outcomes
<1>1. CASE Retry(w)
  BY <1>1, ConcludeType, AnswerKnownKeyType, GotoType DEF Retry, TypeOK
<1>2. CASE Again(w)
  BY <1>2, AnswerKnownKeyType, GotoType DEF Again, TypeOK
<1>3. CASE CheckSpace(w)
  BY <1>3, ConcludeType, GotoType DEF CheckSpace, Fail, TypeOK
<1>4. CASE Prepare(w)
  BY <1>4 DEF Prepare, Unprepared, TypeOK
<1>5. CASE PrepareFails(w)
  BY <1>5, ConcludeType DEF PrepareFails, Fail, TypeOK
<1>6. CASE TooLarge(w)
  BY <1>6, ConcludeType DEF TooLarge, Fail, TypeOK
<1>7. CASE RecheckSpace(w)
  BY <1>7, ConcludeType, GotoType DEF RecheckSpace, Fail, TypeOK
<1>8. CASE ClaimNonce(w)
  BY <1>8, ConcludeType, GotoType DEF ClaimNonce, Fail, TypeOK
<1>9. CASE Decide(w)
  BY <1>9, ConcludeType, AnswerKnownKeyType, GotoType DEF Decide, Fail, TypeOK
<1>10. CASE Move(w)
  BY <1>10 DEF Move, Unmoved, TypeOK
<1>11. CASE RollBack(w)
  BY <1>11, ConcludeType DEF RollBack, Fail, TypeOK
<1>12. CASE CommitTask(w)
  <2>1. req[w] \in Request
    BY DEF TypeOK
  <2>2. [req[w] EXCEPT !.outcome = "created", !.files = {}] \in Request
    BY <2>1 DEF Request
  <2>3. req' \in [Workers -> Request] /\ pc' \in [Workers -> Controls]
    BY <1>12, <2>2, ReplaceType, GotoType DEF CommitTask
  <2>4. req[w].op = "create" /\ req[w].task \in Tasks \cup {None} /\ req[w].key \in Keys \cup {None}
    BY <1>12, <2>1 DEF CommitTask, Request
  <2>5. tasks' \in [Tasks -> TaskRow] /\ owner' \in [Files -> Tasks \cup Subs \cup {None}]
    BY <1>12, <2>4 DEF CommitTask, TypeOK, TaskRow
  <2> QED
    BY <1>12, <2>3, <2>5 DEF CommitTask, TypeOK
<1>13. CASE CommitSubmission(w)
  <2>1. req[w] \in Request
    BY DEF TypeOK
  <2>2. [req[w] EXCEPT !.outcome = "receipt", !.answer = req[w].sub, !.files = {}] \in Request
    BY <2>1 DEF Request
  <2>3. req' \in [Workers -> Request] /\ pc' \in [Workers -> Controls]
    BY <1>13, <2>2, ReplaceType, GotoType DEF CommitSubmission
  <2>4. NewRow(w) \in SubRow /\ req[w].sub \in Subs \cup {None}
    BY <2>1 DEF NewRow, SubRow, Request
  <2>5. subs' \in [Subs -> SubRow] /\ owner' \in [Files -> Tasks \cup Subs \cup {None}]
    BY <1>13, <2>4 DEF CommitSubmission, TypeOK
  <2> QED
    BY <1>13, <2>3, <2>5 DEF CommitSubmission, TypeOK
<1>14. CASE Undo(w)
  BY <1>14 DEF Undo, TypeOK
<1>15. CASE UndoFails(w)
  <2>1. PICK F \in SUBSET Files :
            req' = [req EXCEPT ![w] = [@ EXCEPT !.outcome = "error", !.answer = None, !.files = F]]
    <3>1. req[w].files \in SUBSET Files
      BY DEF TypeOK, Request
    <3> QED
      BY <1>15, <3>1 DEF UndoFails, Unmoved
  <2>2. req[w] \in Request
    BY DEF TypeOK
  <2>3. [req[w] EXCEPT !.outcome = "error", !.answer = None, !.files = F] \in Request
    BY <2>2 DEF Request
  <2> QED
    BY <1>15, <2>1, <2>3, ReplaceType DEF UndoFails, TypeOK
<1>16. CASE Undone(w)
  BY <1>16, GotoType DEF Undone, TypeOK
<1> QED
  BY <1>1, <1>2, <1>3, <1>4, <1>5, <1>6, <1>7, <1>8, <1>9, <1>10, <1>11, <1>12,
     <1>13, <1>14, <1>15, <1>16 DEF UploadStep

LEMMA DeletionsType ==
    ASSUME TypeOK, NEW w \in Workers, DeleteStep(w) PROVE TypeOK'
<1> USE DEF Controls
<1>0. req[w] \in Request
  BY DEF TypeOK
<1>1. CASE ListFiles(w)
  <2>1. [req[w] EXCEPT !.files = {f \in Files : owner[f] \in Parents(w)}] \in Request
    BY <1>0 DEF Request
  <2> QED
    BY <1>1, <2>1, GotoType, ReplaceType DEF ListFiles, TypeOK
<1>2. CASE Stage(w)
  <2>1. PICK f \in req[w].files :
            \/ /\ disk' = [disk EXCEPT ![f] = "trash"]
               /\ req' = [req EXCEPT ![w] = [req[w] EXCEPT !.files = @ \ {f}, !.staged = @ \cup {f}]]
            \/ /\ req' = [req EXCEPT ![w] = [req[w] EXCEPT !.files = @ \ {f}, !.passed = @ \cup {f}]]
               /\ UNCHANGED disk
    BY <1>2 DEF Stage
  <2>2. f \in Files
    BY <1>0 DEF Request
  <2>3. [req[w] EXCEPT !.files = @ \ {f}, !.staged = @ \cup {f}] \in Request
    BY <1>0, <2>2 DEF Request
  <2>4. [req[w] EXCEPT !.files = @ \ {f}, !.passed = @ \cup {f}] \in Request
    BY <1>0, <2>2 DEF Request
  <2>5. req' \in [Workers -> Request]
    <3>1. CASE req' = [req EXCEPT ![w] = [req[w] EXCEPT !.files = @ \ {f}, !.staged = @ \cup {f}]]
      BY <2>3, <3>1, ReplaceType
    <3>2. CASE req' = [req EXCEPT ![w] = [req[w] EXCEPT !.files = @ \ {f}, !.passed = @ \cup {f}]]
      BY <2>4, <3>2, ReplaceType
    <3> QED
      BY <2>1, <3>1, <3>2
  <2>6. disk' \in [Files -> {"absent", "tmp", "live", "trash"}]
    BY <2>1, <2>2 DEF TypeOK
  <2> QED
    BY <1>2, <2>5, <2>6 DEF Stage, TypeOK
<1>3. CASE StageFails(w)
  <2>1. [req[w] EXCEPT !.files = {}] \in Request
    BY <1>0 DEF Request
  <2> QED
    BY <1>3, <2>1, GotoType, ReplaceType DEF StageFails, TypeOK
<1>4. CASE CommitDelete(w)
  <2>1. tasks' \in [Tasks -> TaskRow]
    BY <1>4 DEF CommitDelete, TypeOK, TaskRow
  <2>2. subs' \in [Subs -> SubRow]
    BY <1>4 DEF CommitDelete, TypeOK, SubRow
  <2>3. owner' \in [Files -> Tasks \cup Subs \cup {None}]
    BY <1>4 DEF CommitDelete, TypeOK
  <2> QED
    BY <1>4, <2>1, <2>2, <2>3, GotoType DEF CommitDelete, TypeOK
<1>5. CASE DeleteFails(w)
  BY <1>5, GotoType DEF DeleteFails, TypeOK
<1>6. CASE Restore(w) \/ Purge(w)
  <2>1. PICK f \in req[w].staged :
            /\ \/ disk' = [disk EXCEPT ![f] = "live"]
               \/ disk' = [disk EXCEPT ![f] = "absent"]
            /\ req' = [req EXCEPT ![w].staged = @ \ {f}]
    BY <1>6 DEF Restore, Purge
  <2>2. [req[w] EXCEPT !.staged = @ \ {f}] \in Request
    BY <1>0 DEF Request
  <2>3. disk' \in [Files -> {"absent", "tmp", "live", "trash"}]
    BY <2>1 DEF TypeOK
  <2>4. req' \in [Workers -> Request]
    BY <2>1, <2>2, ReplaceType
  <2> QED
    BY <1>6, <2>3, <2>4 DEF Restore, Purge, TypeOK
<1>7. CASE EndRestore(w) \/ EndPurge(w)
  <2>1. [req[w] EXCEPT !.outcome = "error", !.staged = {}] \in Request
    BY <1>0 DEF Request, Outcomes
  <2> QED
    BY <1>7, <2>1, GotoType, ReplaceType, ConcludeType
    DEF EndRestore, EndPurge, TypeOK, Outcomes
<1> QED
  BY <1>1, <1>2, <1>3, <1>4, <1>5, <1>6, <1>7 DEF DeleteStep

LEMMA TypeInductive == TypeOK /\ [Next]_vars => TypeOK'
<1> SUFFICES ASSUME TypeOK, [Next]_vars PROVE TypeOK'
  OBVIOUS
<1> USE DEF Controls
<1>1. ASSUME NEW w \in Workers, Arrives(w) PROVE TypeOK'
  BY <1>1, ArrivalsType
<1>2. ASSUME NEW w \in Workers, Begin(w) \/ BeginTimesOut(w) PROVE TypeOK'
  BY <1>2, GotoType, ConcludeType DEF Begin, BeginTimesOut, Fail, TypeOK, Outcomes
<1>3. ASSUME NEW w \in Workers, UploadStep(w) PROVE TypeOK'
  BY <1>3, UploadsType
<1>4. ASSUME NEW w \in Workers, DeleteStep(w) PROVE TypeOK'
  BY <1>4, DeletionsType
<1>5. ASSUME NEW w \in Workers, Reply(w) \/ Crash(w) PROVE TypeOK'
  BY <1>5, GotoType, ReplaceType, NoRequestType DEF Reply, Crash, TypeOK
<1>6. ASSUME NEW T \in SUBSET Tasks, NEW st \in {"open", "closed"}, SetStatus(T, st)
      PROVE TypeOK'
  BY <1>6 DEF SetStatus, TypeOK, TaskRow
<1>7. CASE CloseTask \/ ReopenTask \/ CloseAll
  BY <1>6, <1>7 DEF CloseTask, ReopenTask, CloseAll
<1>8. CASE UNCHANGED vars
  BY <1>8 DEF vars, TypeOK
<1> QED
  BY <1>1, <1>2, <1>3, <1>4, <1>5, <1>7, <1>8 DEF Next, Step

LEMMA InitTyped == Init => TypeOK
BY NoRequestType DEF Init, TypeOK, TaskRow, SubRow, Controls

(* Every variable keeps its type, under every fault.                       *)
THEOREM TypeCorrect == Spec => []TypeOK
BY InitTyped, TypeInductive, PTL DEF Spec

-------------------------------------------------------------------------------
(* Why no fault destroys recorded bytes: who may touch which file.         *)

(* The write lock is held from BEGIN to COMMIT or ROLLBACK.                *)
LockHeld == \A w \in Workers : pc[w] \in {"txn", "move", "stage", "unstage"} => lock = w

(* Uploading and deleting do not share the steps that touch files, and a   *)
(* request names the row it creates or deletes.                            *)
StepsApart == \A w \in Workers :
    /\ req[w].op \in {"create", "deltask"} => req[w].task \in Tasks
    /\ req[w].op \in {"submit", "delsub"} => req[w].sub \in Subs
    /\ pc[w] \in {"retry", "again", "space", "prepare", "move", "undo"} => Uploads(w)
    /\ pc[w] \in {"stage", "unstage", "restore", "purge"} => ~Uploads(w)

(* The files of an upload are its own, have no row, and are all written by *)
(* the time it asks for the lock.                                          *)
UploadsOwn == \A w \in Workers : Uploads(w) =>
    /\ req[w].staged = {}
    /\ \A f \in req[w].files :
          /\ owner[f] = None
          /\ disk[f] # "trash"
          /\ pc[w] \in {"begin", "txn", "move"} => disk[f] # "absent"
    /\ \A v \in Workers : Uploads(v) /\ v # w => req[v].files \cap req[w].files = {}

(* What a deletion has listed or staged belongs to the rows it removes.    *)
StagingOwned == \A w \in Workers : ~Uploads(w) =>
    IF pc[w] = "stage"
    THEN \A f \in req[w].files \cup req[w].staged :
            owner[f] \in Parents(w) /\ owner[f] # None
    ELSE req[w].files = {}

(* A staged file is in one trash directory, and purged only without a row. *)
StagedApart == \A w \in Workers :
    /\ pc[w] \notin {"stage", "unstage", "restore", "purge"} => req[w].staged = {}
    /\ \A f \in req[w].staged : /\ disk[f] = "trash"
                                /\ pc[w] = "purge" => owner[f] = None
    /\ \A v \in Workers : v # w => req[v].staged \cap req[w].staged = {}

BytesInv == /\ TypeOK /\ LockHeld /\ StepsApart /\ UploadsOwn /\ StagingOwned
            /\ StagedApart /\ RecordedBytesKept

(* The invariant without its typing part, which TypeCorrect has proved.    *)
Ownership == /\ LockHeld /\ StepsApart /\ UploadsOwn /\ StagingOwned
             /\ StagedApart /\ RecordedBytesKept

(* A step that only settles the answer, and may roll back, disturbs none   *)
(* of it; nor does one that only goes on to the next step of an upload.    *)
LEMMA ConcludeKeepsOwnership ==
    ASSUME BytesInv, NEW w \in Workers, NEW l \in {"undo", "reply"}, NEW o, NEW s,
           Conclude(w, l, o, s),
           IF l = "undo" THEN Uploads(w) ELSE pc[w] # "stage" /\ req[w].staged = {},
           lock' = lock \/ lock = w,
           lock' = lock \/ lock' = None,
           UNCHANGED <<tasks, subs, owner, disk>>
    PROVE  Ownership'
BY DEF BytesInv, Ownership, TypeOK, Request, LockHeld, StepsApart, UploadsOwn, StagingOwned,
       StagedApart, RecordedBytesKept, Uploads, Parents, Doomed, Stored, Conclude, Goto

LEMMA GoOnKeepsOwnership ==
    ASSUME BytesInv, NEW w \in Workers, Uploads(w),
           NEW l \in {"again", "space", "prepare", "begin", "move"}, Goto(w, l),
           l \in {"begin", "move"} => \A f \in req[w].files : disk[f] # "absent",
           l = "move" => lock = w,
           UNCHANGED <<tasks, subs, owner, disk, lock, req>>
    PROVE  Ownership'
BY DEF BytesInv, Ownership, TypeOK, Request, LockHeld, StepsApart, UploadsOwn, StagingOwned,
       StagedApart, RecordedBytesKept, Uploads, Parents, Doomed, Stored, Goto

LEMMA AnswerKeepsOwnership ==
    ASSUME BytesInv, NEW w \in Workers, NEW l \in {"undo", "reply"},
           AnswerKnownKey(w, l), Uploads(w), pc[w] # "stage",
           lock' = lock \/ lock = w,
           lock' = lock \/ lock' = None,
           UNCHANGED <<tasks, subs, owner, disk>>
    PROVE  Ownership'
<1>1. PICK o, s : Conclude(w, l, o, s)
  BY DEF AnswerKnownKey
<1>2. req[w].staged = {}
  BY DEF BytesInv, UploadsOwn
<1> QED
  BY <1>1, <1>2, ConcludeKeepsOwnership

LEMMA UploadsKeepOwnership ==
    ASSUME BytesInv, NEW w \in Workers, UploadStep(w) PROVE Ownership'
<1>1. pc[w] \in {"retry", "again", "space", "prepare", "move", "undo"} => Uploads(w)
  BY DEF BytesInv, StepsApart
<1>2. pc[w] \in {"txn", "move"} => lock = w
  BY DEF BytesInv, LockHeld
<1>3. pc[w] \in {"txn", "move"} /\ Uploads(w) => \A f \in req[w].files : disk[f] # "absent"
  BY DEF BytesInv, UploadsOwn
<1>4. CASE Retry(w)
  <2>1. req[w].staged = {}
    BY <1>1, <1>4 DEF BytesInv, UploadsOwn, Retry
  <2> QED
    BY <1>1, <1>4, <2>1, AnswerKeepsOwnership, GoOnKeepsOwnership, ConcludeKeepsOwnership DEF Retry
<1>5. CASE Again(w)
  BY <1>1, <1>5, AnswerKeepsOwnership, GoOnKeepsOwnership DEF Again
<1>6. CASE CheckSpace(w)
  BY <1>1, <1>6, GoOnKeepsOwnership, ConcludeKeepsOwnership DEF CheckSpace, Fail
<1>7. CASE PrepareFails(w) \/ TooLarge(w)
  BY <1>1, <1>7, ConcludeKeepsOwnership DEF PrepareFails, TooLarge, Fail
<1>8. CASE RecheckSpace(w)
  <2>1. \A f \in req[w].files : disk[f] # "absent"
    BY <1>8 DEF RecheckSpace, Unprepared
  <2> QED
    BY <1>1, <1>8, <2>1, GoOnKeepsOwnership, ConcludeKeepsOwnership DEF RecheckSpace, Fail
<1>9. CASE ClaimNonce(w)
  <2>1. Uploads(w)
    BY <1>9 DEF ClaimNonce, Uploads
  <2> QED
    BY <1>2, <1>3, <1>9, <2>1, GoOnKeepsOwnership, ConcludeKeepsOwnership DEF ClaimNonce, Fail
<1>10. CASE Decide(w)
  <2>1. Uploads(w)
    BY <1>10 DEF Decide, Uploads
  <2> QED
    BY <1>2, <1>3, <1>10, <2>1, AnswerKeepsOwnership, GoOnKeepsOwnership,
       ConcludeKeepsOwnership DEF Decide, Fail
<1>11. CASE RollBack(w)
  BY <1>1, <1>2, <1>11, ConcludeKeepsOwnership DEF RollBack, Fail
<1> USE DEF BytesInv, Ownership, TypeOK, Request, LockHeld, StepsApart, UploadsOwn, StagingOwned,
            StagedApart, RecordedBytesKept, Uploads, Parents, Doomed, Stored
<1>12. CASE Prepare(w)
  BY <1>12 DEF Prepare, Unprepared
<1>13. CASE Move(w)
  BY <1>13 DEF Move, Unmoved
<1>14. CASE CommitTask(w)
  BY <1>14 DEF CommitTask, Unmoved, Goto
<1>15. CASE CommitSubmission(w)
  BY <1>15 DEF CommitSubmission, Unmoved, Goto
<1>16. CASE Undo(w)
  BY <1>16 DEF Undo
<1>17. CASE UndoFails(w)
  BY <1>17 DEF UndoFails, Unmoved
<1>18. CASE Undone(w)
  BY <1>18 DEF Undone, Goto
<1> QED
  BY <1>4, <1>5, <1>6, <1>7, <1>8, <1>9, <1>10, <1>11, <1>12, <1>13, <1>14, <1>15, <1>16,
     <1>17, <1>18 DEF UploadStep

(* The four steps of a deletion that move or forget files need more care.  *)
LEMMA ListFilesKeepsOwnership ==
    ASSUME BytesInv, NEW w \in Workers, ListFiles(w) PROVE Ownership'
<1>1. TypeOK /\ Ownership
  BY DEF BytesInv, Ownership
<1>2. /\ req'[w].files = {f \in Files : owner[f] \in Parents(w)}
      /\ req'[w].op = req[w].op /\ req'[w].staged = req[w].staged
      /\ req'[w].task = req[w].task /\ req'[w].sub = req[w].sub
      /\ pc'[w] = "stage" /\ pc[w] = "txn" /\ ~Uploads(w)
      /\ \A v \in Workers \ {w} : req'[v] = req[v] /\ pc'[v] = pc[v]
      /\ UNCHANGED <<tasks, subs, owner, disk, lock>>
  BY <1>1 DEF ListFiles, Goto, TypeOK, Request
<1>3. \A v \in Workers : /\ Uploads(v)' = Uploads(v)
                         /\ Parents(v)' = Parents(v)
                         /\ req'[v].staged = req[v].staged
                         /\ req'[v].task = req[v].task
                         /\ req'[v].sub = req[v].sub
                         /\ req'[v].op = req[v].op
  BY <1>2 DEF Uploads, Parents, Doomed, Stored
<1>4. req[w].op = "deltask" => req[w].task \in Tasks
  BY <1>1 DEF Ownership, StepsApart
<1>5. None \notin Parents(w)
  BY <1>4, ConstantsAssumption, <1>1, <1>2 DEF Parents, Doomed, Ownership, StepsApart, Uploads, TypeOK, Request
<1>6. LockHeld'
  BY <1>1, <1>2 DEF Ownership, LockHeld
<1>7. StepsApart'
  BY <1>1, <1>2, <1>3 DEF Ownership, StepsApart
<1>8. UploadsOwn'
  BY <1>1, <1>2, <1>3 DEF Ownership, UploadsOwn
<1>9. req[w].staged = {}
  BY <1>1, <1>2 DEF Ownership, StagedApart
<1>10. StagingOwned'
  BY <1>1, <1>2, <1>3, <1>5, <1>9 DEF Ownership, StagingOwned
<1>11. StagedApart' /\ RecordedBytesKept'
  BY <1>1, <1>2, <1>3 DEF Ownership, StagedApart, RecordedBytesKept
<1> QED
  BY <1>6, <1>7, <1>8, <1>10, <1>11 DEF Ownership

LEMMA StageKeepsOwnership ==
    ASSUME BytesInv, NEW w \in Workers, Stage(w) PROVE Ownership'
<1>1. TypeOK /\ Ownership
  BY DEF BytesInv, Ownership
<1>2. PICK f \in req[w].files :
          IF disk[f] = "live"
          THEN /\ disk' = [disk EXCEPT ![f] = "trash"]
               /\ req' = [req EXCEPT ![w] = [req[w] EXCEPT !.files = @ \ {f},
                                                          !.staged = @ \cup {f}]]
          ELSE /\ req' = [req EXCEPT ![w] = [req[w] EXCEPT !.files = @ \ {f}, !.passed = @ \cup {f}]]
               /\ disk' = disk
  BY DEF Stage
<1>3. pc[w] = "stage" /\ ~Uploads(w) /\ UNCHANGED <<tasks, subs, owner, lock, pc>>
  BY <1>1 DEF Stage, Ownership, StepsApart
<1>4. f \in Files /\ owner[f] \in Parents(w) /\ owner[f] # None
  BY <1>1, <1>2, <1>3 DEF Ownership, StagingOwned, TypeOK, Request
<1>5. /\ req'[w].files = req[w].files \ {f}
      /\ \/ req'[w].staged = req[w].staged
         \/ /\ disk[f] = "live" /\ disk'[f] = "trash"
            /\ req'[w].staged = req[w].staged \cup {f}
      /\ req'[w].op = req[w].op /\ req'[w].task = req[w].task /\ req'[w].sub = req[w].sub
      /\ \A v \in Workers \ {w} : req'[v] = req[v]
      /\ \A g \in Files \ {f} : disk'[g] = disk[g]
      /\ disk'[f] = disk[f] \/ (disk[f] = "live" /\ disk'[f] = "trash")
  <2>1. CASE disk[f] = "live"
    <3>1. req' = [req EXCEPT ![w] = [req[w] EXCEPT !.files = @ \ {f}, !.staged = @ \cup {f}]]
      BY <1>2, <2>1
    <3>2. disk' = [disk EXCEPT ![f] = "trash"]
      BY <1>2, <2>1
    <3> QED
      BY <1>1, <1>4, <2>1, <3>1, <3>2 DEF TypeOK, Request
  <2>2. CASE disk[f] # "live"
    <3>1. req' = [req EXCEPT ![w] = [req[w] EXCEPT !.files = @ \ {f}, !.passed = @ \cup {f}]] /\ disk' = disk
      BY <1>2, <2>2
    <3>2. /\ req'[w].files = req[w].files \ {f} /\ req'[w].staged = req[w].staged
          /\ req'[w].op = req[w].op /\ req'[w].task = req[w].task /\ req'[w].sub = req[w].sub
          /\ \A v \in Workers \ {w} : req'[v] = req[v]
      BY <1>1, <3>1 DEF TypeOK, Request
    <3> QED
      BY <3>1, <3>2
  <2> QED
    BY <2>1, <2>2
<1>6. \A v \in Workers : /\ Uploads(v)' = Uploads(v)
                         /\ Parents(v)' = Parents(v)
                         /\ req'[v].task = req[v].task
                         /\ req'[v].sub = req[v].sub
                         /\ req'[v].op = req[v].op
                         /\ req'[v].files \subseteq req[v].files
                         /\ req[v].files \subseteq Files /\ req[v].staged \subseteq Files
  BY <1>1, <1>3, <1>5 DEF Uploads, Parents, Doomed, Stored, TypeOK, Request
<1>7. LockHeld' /\ StepsApart'
  BY <1>1, <1>3, <1>6 DEF Ownership, LockHeld, StepsApart
<1>8. UploadsOwn'
  <2>1. \A v \in Workers : Uploads(v) => f \notin req[v].files /\ req'[v].staged = {}
    BY <1>1, <1>3, <1>4, <1>5 DEF Ownership, UploadsOwn
  <2> QED
    BY <1>1, <1>3, <1>5, <1>6, <2>1 DEF Ownership, UploadsOwn
<1>9. StagingOwned'
  BY <1>1, <1>3, <1>4, <1>5, <1>6 DEF Ownership, StagingOwned
<1>10. StagedApart'
  <2>1. disk[f] = "live" => \A v \in Workers : f \notin req[v].staged
    BY <1>1 DEF Ownership, StagedApart
  <2>2. \A v \in Workers : \A g \in req'[v].staged : disk'[g] = "trash"
    BY <1>1, <1>4, <1>5, <1>6, <2>1 DEF Ownership, StagedApart
  <2>3. \A v, u \in Workers : v # u => req'[v].staged \cap req'[u].staged = {}
    BY <1>1, <1>5, <2>1 DEF Ownership, StagedApart
  <2>4. \A v \in Workers : pc[v] \notin {"stage", "unstage", "restore", "purge"}
                           => req'[v].staged = {}
    BY <1>1, <1>3, <1>5 DEF Ownership, StagedApart
  <2>5. \A v \in Workers : pc[v] = "purge" => \A g \in req'[v].staged : owner[g] = None
    BY <1>1, <1>3, <1>5 DEF Ownership, StagedApart
  <2> QED
    BY <1>3, <2>2, <2>3, <2>4, <2>5 DEF StagedApart
<1>11. RecordedBytesKept'
  BY <1>1, <1>3, <1>4, <1>5 DEF Ownership, RecordedBytesKept
<1> QED
  BY <1>7, <1>8, <1>9, <1>10, <1>11 DEF Ownership

LEMMA PurgeKeepsOwnership ==
    ASSUME BytesInv, NEW w \in Workers, Purge(w) PROVE Ownership'
<1>1. TypeOK /\ Ownership
  BY DEF BytesInv, Ownership
<1>2. PICK f \in req[w].staged : /\ disk' = [disk EXCEPT ![f] = "absent"]
                                 /\ req' = [req EXCEPT ![w].staged = @ \ {f}]
  BY DEF Purge
<1>3. pc[w] = "purge" /\ ~Uploads(w) /\ UNCHANGED <<tasks, subs, owner, lock, pc>>
  BY <1>1 DEF Purge, Ownership, StepsApart
<1>4. f \in Files /\ disk[f] = "trash" /\ owner[f] = None
  BY <1>1, <1>2, <1>3 DEF Ownership, StagedApart, TypeOK, Request
<1>5. /\ req'[w].files = req[w].files
      /\ req'[w].staged = req[w].staged \ {f}
      /\ req'[w].op = req[w].op /\ req'[w].task = req[w].task /\ req'[w].sub = req[w].sub
      /\ \A v \in Workers \ {w} : req'[v] = req[v]
      /\ \A g \in Files \ {f} : disk'[g] = disk[g]
  BY <1>1, <1>2, <1>4 DEF TypeOK, Request
<1>6. \A v \in Workers : /\ Uploads(v)' = Uploads(v)
                         /\ Parents(v)' = Parents(v)
                         /\ req'[v].task = req[v].task
                         /\ req'[v].sub = req[v].sub
                         /\ req'[v].op = req[v].op
                         /\ req'[v].files = req[v].files
                         /\ req'[v].staged \subseteq req[v].staged
                         /\ req[v].files \subseteq Files /\ req[v].staged \subseteq Files
  BY <1>1, <1>3, <1>5 DEF Uploads, Parents, Doomed, Stored, TypeOK, Request
<1>7. LockHeld' /\ StepsApart'
  BY <1>1, <1>3, <1>6 DEF Ownership, LockHeld, StepsApart
<1>8. UploadsOwn'
  <2>1. \A v \in Workers : Uploads(v) => f \notin req[v].files
    BY <1>1, <1>4 DEF Ownership, UploadsOwn
  <2> QED
    BY <1>1, <1>3, <1>5, <1>6, <2>1 DEF Ownership, UploadsOwn
<1>9. StagingOwned'
  BY <1>1, <1>3, <1>6 DEF Ownership, StagingOwned
<1>10. StagedApart'
  <2>1. \A v \in Workers : f \notin req'[v].staged
    BY <1>1, <1>2, <1>5 DEF Ownership, StagedApart
  <2> QED
    BY <1>1, <1>3, <1>5, <1>6, <2>1 DEF Ownership, StagedApart
<1>11. RecordedBytesKept'
  BY <1>1, <1>3, <1>4, <1>5 DEF Ownership, RecordedBytesKept
<1> QED
  BY <1>7, <1>8, <1>9, <1>10, <1>11 DEF Ownership

LEMMA EndPurgeKeepsOwnership ==
    ASSUME BytesInv, NEW w \in Workers, EndPurge(w) PROVE Ownership'
<1>1. CASE req[w].staged = {} /\ Conclude(w, "reply", "deleted", None)
  BY <1>1, ConcludeKeepsOwnership DEF EndPurge
<1>2. CASE req[w].staged # {} /\ Goto(w, "reply")
           /\ req' = [req EXCEPT ![w] = [@ EXCEPT !.outcome = "error", !.staged = {}]]
  <2>1. TypeOK /\ Ownership
    BY DEF BytesInv, Ownership
  <2>2. pc[w] = "purge" /\ ~Uploads(w) /\ UNCHANGED <<tasks, subs, owner, disk, lock>>
    BY <2>1 DEF EndPurge, Ownership, StepsApart
  <2>3. /\ req'[w].staged = {} /\ req'[w].files = req[w].files
        /\ req'[w].op = req[w].op /\ req'[w].task = req[w].task /\ req'[w].sub = req[w].sub
        /\ \A v \in Workers \ {w} : req'[v] = req[v] /\ pc'[v] = pc[v]
        /\ pc'[w] = "reply"
    BY <1>2, <2>1 DEF TypeOK, Request, Goto
  <2>4. \A v \in Workers : Uploads(v)' = Uploads(v) /\ Parents(v)' = Parents(v)
    BY <2>2, <2>3 DEF Uploads, Parents, Doomed, Stored
  <2>5. LockHeld' /\ StepsApart'
    BY <2>1, <2>2, <2>3, <2>4 DEF Ownership, LockHeld, StepsApart
  <2>6. UploadsOwn' /\ RecordedBytesKept'
    BY <2>1, <2>2, <2>3, <2>4 DEF Ownership, UploadsOwn, RecordedBytesKept
  <2>7. StagingOwned' /\ StagedApart'
    BY <2>1, <2>2, <2>3, <2>4 DEF Ownership, StagingOwned, StagedApart
  <2> QED
    BY <2>5, <2>6, <2>7 DEF Ownership
<1> QED
  BY <1>1, <1>2 DEF EndPurge

LEMMA DeletionsKeepOwnership ==
    ASSUME BytesInv, NEW w \in Workers, DeleteStep(w) PROVE Ownership'
<1> USE DEF BytesInv, Ownership, TypeOK, Request, LockHeld, StepsApart, UploadsOwn, StagingOwned,
            StagedApart, RecordedBytesKept, Uploads, Parents, Doomed, Stored
<1>1. CASE ListFiles(w)
  BY <1>1, ListFilesKeepsOwnership
<1>2. CASE Stage(w)
  BY <1>2, StageKeepsOwnership
<1>3. CASE StageFails(w)
  BY <1>3 DEF StageFails, Goto
<1>4. CASE CommitDelete(w)
  BY <1>4 DEF CommitDelete, Goto
<1>5. CASE DeleteFails(w)
  BY <1>5 DEF DeleteFails, Goto
<1>6. CASE Restore(w)
  BY <1>6 DEF Restore
<1>7. CASE EndRestore(w)
  BY <1>7 DEF EndRestore, Goto
<1>8. CASE Purge(w)
  BY <1>8, PurgeKeepsOwnership
<1>9. CASE EndPurge(w)
  BY <1>9, EndPurgeKeepsOwnership
<1> QED
  BY <1>1, <1>2, <1>3, <1>4, <1>5, <1>6, <1>7, <1>8, <1>9 DEF DeleteStep

LEMMA ArrivalsKeepOwnership ==
    ASSUME BytesInv, NEW w \in Workers, Arrives(w) PROVE Ownership'
<1>1. TypeOK /\ Ownership
  BY DEF BytesInv, Ownership
<1>2. ASSUME NEW l \in {"space", "retry", "begin"}, NEW r \in Request, Arrive(w, l, r),
             r.staged = {},
             r.op \in {"create", "deltask"} => r.task \in Tasks,
             r.op \in {"submit", "delsub"} => r.sub \in Subs,
             IF r.op \in {"create", "submit"} THEN r.files \subseteq FreshFiles /\ l # "begin"
                                              ELSE r.files = {} /\ l = "begin"
      PROVE  Ownership'
  <2>1. /\ req'[w] = r /\ pc[w] = "idle" /\ pc'[w] = l
        /\ \A v \in Workers \ {w} : req'[v] = req[v] /\ pc'[v] = pc[v]
        /\ UNCHANGED <<tasks, subs, owner, disk, lock>>
    BY <1>1, <1>2 DEF Arrive, Goto, TypeOK
  <2>2. \A v \in Workers \ {w} : Uploads(v)' = Uploads(v) /\ Parents(v)' = Parents(v)
    BY <2>1 DEF Uploads, Parents, Doomed, Stored
  <2>3. \A f \in r.files : Uploads(w)' =>
            /\ f \in Files /\ disk[f] = "absent" /\ owner[f] = None
            /\ \A v \in Workers : f \notin req[v].files
    BY <1>1, <1>2, <2>1 DEF FreshFiles, Uploads, Ownership, RecordedBytesKept
  <2>4. LockHeld' /\ StepsApart'
    BY <1>1, <1>2, <2>1, <2>2 DEF Ownership, LockHeld, StepsApart, Uploads
  <2>5. UploadsOwn'
    BY <1>1, <1>2, <2>1, <2>2, <2>3 DEF Ownership, UploadsOwn
  <2>6. StagingOwned' /\ StagedApart' /\ RecordedBytesKept'
    BY <1>1, <1>2, <2>1, <2>2 DEF Ownership, StagingOwned, StagedApart, RecordedBytesKept, Uploads
  <2> QED
    BY <2>4, <2>5, <2>6 DEF Ownership
<1>3. CASE CreateArrives(w)
  <2>1. PICK t \in Tasks, n \in Keys, F \in SUBSET FreshFiles :
            Arrive(w, "space", Ask("create", t, None, n, F, "unused", None))
    BY <1>3 DEF CreateArrives
  <2> QED
    BY <1>2, <2>1 DEF Ask, Request, Outcomes, FreshFiles
<1>4. CASE SubmitArrives(w)
  <2>1. PICK t \in Tasks, s \in Subs, k \in Keys, p \in Subs \cup {None},
             F \in SUBSET FreshFiles :
            Arrive(w, "retry", Ask("submit", t, s, k, F, tasks[t].status, p))
    BY <1>4 DEF SubmitArrives
  <2>2. tasks[t].status \in {"unused", "open", "closed", "deleted"}
    BY <1>1 DEF TypeOK, TaskRow
  <2> QED
    BY <1>2, <2>1, <2>2 DEF Ask, Request, Outcomes, FreshFiles
<1>5. CASE DeleteSubmissionArrives(w)
  <2>1. PICK s \in Subs :
            Arrive(w, "begin", Ask("delsub", subs[s].task, s, None, {}, "unused", None))
    BY <1>5 DEF DeleteSubmissionArrives
  <2>2. subs[s].task \in Tasks \cup {None}
    BY <1>1 DEF TypeOK, SubRow
  <2> QED
    BY <1>2, <2>1, <2>2 DEF Ask, Request, Outcomes
<1>6. CASE DeleteTaskArrives(w)
  <2>1. PICK t \in Tasks :
            Arrive(w, "begin", Ask("deltask", t, None, None, {}, "unused", None))
    BY <1>6 DEF DeleteTaskArrives
  <2> QED
    BY <1>2, <2>1 DEF Ask, Request, Outcomes
<1> QED
  BY <1>3, <1>4, <1>5, <1>6 DEF Arrives

(* Answering or killing a worker forgets its request; the lock goes only   *)
(* if it was its own, and files only out of its own .tmp.                  *)
LEMMA LeavingKeepsOwnership ==
    ASSUME BytesInv, NEW w \in Workers, Reply(w) \/ Crash(w) PROVE Ownership'
<1>1. TypeOK /\ Ownership
  BY DEF BytesInv, Ownership
<1>2. /\ req'[w] = NoRequest /\ pc'[w] = "idle"
      /\ lock' = lock \/ lock = w
      /\ \A v \in Workers \ {w} : req'[v] = req[v] /\ pc'[v] = pc[v]
      /\ UNCHANGED <<tasks, subs, owner>>
  BY <1>1 DEF Reply, Crash, Goto, TypeOK
<1>3. /\ ~Uploads(w)' /\ req'[w].files = {} /\ req'[w].staged = {}
      /\ req'[w].op = "none"
  BY <1>2 DEF Uploads, NoRequest, Ask
<1>4. \A v \in Workers \ {w} : Uploads(v)' = Uploads(v) /\ Parents(v)' = Parents(v)
  BY <1>2 DEF Uploads, Parents, Doomed, Stored
<1>5. \A f \in Files : \/ disk'[f] = disk[f]
                       \/ /\ disk[f] = "tmp" /\ owner[f] = None
                          /\ \A v \in Workers \ {w} : Uploads(v) => f \notin req[v].files
  <2>1. CASE UNCHANGED disk
    BY <2>1
  <2>2. CASE Uploads(w) /\ disk' = [f \in Files |-> IF f \in Unmoved(w) THEN "absent" ELSE disk[f]]
    BY <1>1, <2>2 DEF Unmoved, Ownership, UploadsOwn
  <2> QED
    BY <2>1, <2>2 DEF Reply, Crash
<1>6. LockHeld' /\ StepsApart'
  BY <1>1, <1>2, <1>3, <1>4 DEF Ownership, LockHeld, StepsApart
<1>7. UploadsOwn'
  BY <1>1, <1>2, <1>3, <1>4, <1>5 DEF Ownership, UploadsOwn, TypeOK, Request
<1>8. StagingOwned'
  BY <1>1, <1>2, <1>3, <1>4 DEF Ownership, StagingOwned
<1>9. StagedApart'
  BY <1>1, <1>2, <1>3, <1>4, <1>5 DEF Ownership, StagedApart, TypeOK, Request
<1>10. RecordedBytesKept'
  BY <1>1, <1>2, <1>5 DEF Ownership, RecordedBytesKept
<1> QED
  BY <1>6, <1>7, <1>8, <1>9, <1>10 DEF Ownership

LEMMA BeginKeepsOwnership ==
    ASSUME BytesInv, NEW w \in Workers, Begin(w) \/ BeginTimesOut(w) PROVE Ownership'
<1>1. CASE Begin(w)
  BY <1>1, ConstantsAssumption DEF BytesInv, Ownership, TypeOK, Request, LockHeld, StepsApart,
     UploadsOwn, StagingOwned, StagedApart, RecordedBytesKept, Uploads, Parents, Doomed,
     Stored, Begin, Goto
<1>2. CASE BeginTimesOut(w)
  <2>1. req[w].staged = {}
    BY <1>2 DEF BytesInv, StagedApart, BeginTimesOut
  <2> QED
    BY <1>2, <2>1, ConcludeKeepsOwnership DEF BeginTimesOut, Fail
<1> QED
  BY <1>1, <1>2

(* A status is only written while nobody holds the lock, so no deletion is *)
(* between listing its files and its commit.                               *)
LEMMA SetStatusKeepsOwnership ==
    ASSUME BytesInv, NEW T, NEW st, SetStatus(T, st) PROVE Ownership'
BY ConstantsAssumption DEF BytesInv, Ownership, TypeOK, LockHeld, StepsApart, UploadsOwn,
   StagingOwned, StagedApart, RecordedBytesKept, Uploads, Parents, Doomed, Stored, SetStatus

LEMMA OwnershipInductive == BytesInv /\ [Next]_vars => Ownership'
<1> SUFFICES ASSUME BytesInv, [Next]_vars PROVE Ownership'
  OBVIOUS
<1>1. ASSUME NEW w \in Workers, Arrives(w) \/ Step(w) \/ Crash(w) PROVE Ownership'
  BY <1>1, ArrivalsKeepOwnership, BeginKeepsOwnership, UploadsKeepOwnership,
     DeletionsKeepOwnership, LeavingKeepsOwnership DEF Step
<1>2. CASE CloseTask \/ ReopenTask \/ CloseAll
  BY <1>2, SetStatusKeepsOwnership DEF CloseTask, ReopenTask, CloseAll
<1>3. CASE UNCHANGED vars
  BY <1>3 DEF vars, BytesInv, Ownership, TypeOK, LockHeld, StepsApart, UploadsOwn, StagingOwned,
     StagedApart, RecordedBytesKept, Uploads, Parents, Doomed, Stored
<1> QED
  BY <1>1, <1>2, <1>3 DEF Next

(* No fault, in any order with any other step, destroys bytes a committed  *)
(* row refers to.                                                          *)
THEOREM BytesKept == Spec => []RecordedBytesKept
<1>1. Init => Ownership
  BY DEF Init, Ownership, LockHeld, StepsApart, UploadsOwn, StagingOwned, StagedApart,
     RecordedBytesKept, Uploads, NoRequest, Ask
<1>2. TypeOK /\ Ownership /\ [Next]_vars => Ownership'
  BY OwnershipInductive DEF BytesInv, Ownership
<1>3. Ownership => RecordedBytesKept
  BY DEF Ownership
<1> QED
  BY <1>1, <1>2, <1>3, TypeCorrect, PTL DEF Spec

-------------------------------------------------------------------------------
(* Why a key is stored once and a closed task takes nothing: what a        *)
(* transaction found out under the lock stays true until it commits.       *)

Found(w) ==
    IF req[w].op = "submit"
    THEN KeyHolders(w) = {} /\ tasks[req[w].task].status = "open" /\ req[w].sub \in Subs
    ELSE \A t \in Tasks : Exists(t) => tasks[t].nonce # req[w].key

RowsUnique ==
    /\ \A r, s \in Subs : Stored(r) /\ Stored(s) /\ subs[r].key = subs[s].key => r = s
    /\ \A t, u \in Tasks : Exists(t) /\ Exists(u) /\ tasks[t].nonce = tasks[u].nonce => t = u

KeyInv == /\ TypeOK /\ Ownership
          /\ RowsUnique
          /\ \A w \in Workers : pc[w] = "move" => Found(w)

(* What is found depends on the rows and on the request's own fields only. *)
LEMMA FoundStable ==
    ASSUME NEW v \in Workers, Found(v), UNCHANGED <<tasks, subs>>,
           req'[v].op = req[v].op, req'[v].key = req[v].key,
           req'[v].task = req[v].task, req'[v].sub = req[v].sub
    PROVE  Found(v)'
BY DEF Found, KeyHolders, Stored, Exists

LEMMA UniqueStable ==
    ASSUME RowsUnique, UNCHANGED <<tasks, subs>> PROVE RowsUnique'
BY DEF RowsUnique, Stored, Exists

(* Only the holder of the lock writes rows, and nobody else is past its    *)
(* check then.                                                             *)
LEMMA RowsByHolder ==
    ASSUME KeyInv, NEW w \in Workers, CommitTask(w) \/ CommitSubmission(w) \/ CommitDelete(w)
    PROVE  /\ lock = w
           /\ \A v \in Workers \ {w} : pc[v] # "move" /\ pc'[v] # "move"
           /\ pc'[w] # "move"
BY DEF KeyInv, Ownership, LockHeld, TypeOK, CommitTask, CommitSubmission, CommitDelete, Goto

(* Every other step of a worker leaves the rows alone, and gets to the     *)
(* moves only by a check that found its way clear.                         *)
LEMMA OtherSteps ==
    ASSUME TypeOK, NEW w \in Workers, Arrives(w) \/ Step(w) \/ Crash(w),
           ~CommitTask(w), ~CommitSubmission(w), ~CommitDelete(w)
    PROVE  /\ UNCHANGED <<tasks, subs>>
           /\ \A v \in Workers \ {w} : req'[v] = req[v] /\ pc'[v] = pc[v]
           /\ pc'[w] = "move" => \/ pc[w] = "move" /\ req'[w] = req[w]
                                 \/ ClaimNonce(w) \/ Decide(w)
<1> USE DEF TypeOK, Goto, Conclude, Fail
<1>1. CASE Arrives(w)
  BY <1>1 DEF Arrives, CreateArrives, SubmitArrives, DeleteSubmissionArrives,
     DeleteTaskArrives, Arrive
<1>2. CASE Begin(w) \/ BeginTimesOut(w) \/ Reply(w) \/ Crash(w)
  BY <1>2 DEF Begin, BeginTimesOut, Reply, Crash
<1>3. CASE Retry(w) \/ Again(w)
  BY <1>3 DEF Retry, Again, AnswerKnownKey
<1>4. CASE CheckSpace(w) \/ Prepare(w) \/ PrepareFails(w) \/ TooLarge(w) \/ RecheckSpace(w)
  BY <1>4 DEF CheckSpace, Prepare, PrepareFails, TooLarge, RecheckSpace
<1>5. CASE ClaimNonce(w) \/ Decide(w)
  BY <1>5 DEF ClaimNonce, Decide, AnswerKnownKey
<1>6. CASE Move(w) \/ RollBack(w) \/ Undo(w) \/ UndoFails(w) \/ Undone(w)
  BY <1>6 DEF Move, RollBack, Undo, UndoFails, Undone
<1>7. CASE ListFiles(w) \/ Stage(w) \/ StageFails(w) \/ DeleteFails(w)
  BY <1>7 DEF ListFiles, Stage, StageFails, DeleteFails
<1>8. CASE Restore(w) \/ EndRestore(w) \/ Purge(w) \/ EndPurge(w)
  BY <1>8 DEF Restore, EndRestore, Purge, EndPurge
<1> QED
  BY <1>1, <1>2, <1>3, <1>4, <1>5, <1>6, <1>7, <1>8 DEF Step, UploadStep, DeleteStep

LEMMA ChecksFind ==
    ASSUME KeyInv, NEW w \in Workers, ClaimNonce(w) \/ Decide(w), pc'[w] = "move"
    PROVE  Found(w)'
<1>1. TypeOK /\ Ownership
  BY DEF KeyInv
<1>2. CASE ClaimNonce(w)
  BY <1>1, <1>2 DEF ClaimNonce, Found, Fail, Conclude, Goto, Exists, TypeOK
<1>3. CASE Decide(w)
  <2>1. UNCHANGED <<tasks, subs, req>> /\ KeyHolders(w) = {} /\ tasks[req[w].task].status = "open"
        /\ req[w].op = "submit"
    BY <1>1, <1>3 DEF Decide, AnswerKnownKey, Fail, Conclude, Goto, TypeOK
  <2>2. req[w].sub \in Subs
    BY <1>1, <2>1 DEF Ownership, StepsApart
  <2> QED
    BY <2>1, <2>2 DEF Found, KeyHolders, Stored
<1> QED
  BY <1>2, <1>3

LEMMA CommitsUnique ==
    ASSUME KeyInv, NEW w \in Workers, CommitTask(w) \/ CommitSubmission(w) \/ CommitDelete(w)
    PROVE  RowsUnique'
<1>1. TypeOK /\ Ownership /\ RowsUnique
  BY DEF KeyInv
<1>2. CASE CommitTask(w)
  <2>1. Found(w) /\ req[w].op = "create"
    BY <1>2 DEF KeyInv, CommitTask
  <2> QED
    BY <1>1, <1>2, <2>1 DEF CommitTask, Found, RowsUnique, Exists, Stored, TypeOK
<1>3. CASE CommitSubmission(w)
  <2>1. Found(w) /\ req[w].op = "submit"
    BY <1>3 DEF KeyInv, CommitSubmission
  <2> QED
    BY <1>1, <1>3, <2>1
    DEF CommitSubmission, NewRow, Found, KeyHolders, RowsUnique, Exists, Stored, TypeOK
<1>4. CASE CommitDelete(w)
  BY <1>1, <1>4 DEF CommitDelete, RowsUnique, Exists, Stored, TypeOK
<1> QED
  BY <1>2, <1>3, <1>4

LEMMA KeyInductive == KeyInv /\ TypeOK' /\ Ownership' /\ [Next]_vars => KeyInv'
<1> SUFFICES ASSUME KeyInv, TypeOK', Ownership', [Next]_vars
             PROVE  RowsUnique' /\ \A v \in Workers : pc'[v] = "move" => Found(v)'
  BY DEF KeyInv
<1>1. ASSUME NEW w \in Workers, CommitTask(w) \/ CommitSubmission(w) \/ CommitDelete(w)
      PROVE  RowsUnique' /\ \A v \in Workers : pc'[v] = "move" => Found(v)'
  BY <1>1, RowsByHolder, CommitsUnique
<1>2. ASSUME NEW w \in Workers, Arrives(w) \/ Step(w) \/ Crash(w),
             ~CommitTask(w), ~CommitSubmission(w), ~CommitDelete(w)
      PROVE  RowsUnique' /\ \A v \in Workers : pc'[v] = "move" => Found(v)'
  <2>1. /\ UNCHANGED <<tasks, subs>>
        /\ \A v \in Workers \ {w} : req'[v] = req[v] /\ pc'[v] = pc[v]
        /\ pc'[w] = "move" => \/ pc[w] = "move" /\ req'[w] = req[w]
                              \/ ClaimNonce(w) \/ Decide(w)
    BY <1>2, OtherSteps DEF KeyInv
  <2>2. RowsUnique'
    BY <2>1, UniqueStable DEF KeyInv
  <2>3. ASSUME NEW v \in Workers, pc'[v] = "move" PROVE Found(v)'
    BY <2>1, <2>3, FoundStable, ChecksFind DEF KeyInv
  <2> QED
    BY <2>2, <2>3
<1>3. ASSUME NEW T \in SUBSET Tasks, NEW st, SetStatus(T, st), \A t \in T : Exists(t)
      PROVE  RowsUnique' /\ \A v \in Workers : pc'[v] = "move" => Found(v)'
  <2>1. \A v \in Workers : pc'[v] # "move"
    BY <1>3, ConstantsAssumption DEF SetStatus, KeyInv, Ownership, LockHeld
  <2>2. RowsUnique'
    BY <1>3 DEF SetStatus, KeyInv, RowsUnique, Exists, Stored, TypeOK, TaskRow
  <2> QED
    BY <2>1, <2>2
<1>4. CASE CloseTask \/ ReopenTask \/ CloseAll
  <2>1. ASSUME NEW t \in Tasks, NEW st, Exists(t), SetStatus({t}, st)
        PROVE  RowsUnique' /\ \A v \in Workers : pc'[v] = "move" => Found(v)'
    BY <1>3, <2>1
  <2>2. CASE CloseAll
    <3>1. \A t \in {u \in Tasks : tasks[u].status = "open"} : Exists(t)
      BY DEF Exists
    <3> QED
      BY <1>3, <2>2, <3>1 DEF CloseAll
  <2> QED
    BY <1>4, <2>1, <2>2 DEF CloseTask, ReopenTask
<1>5. CASE UNCHANGED vars
  BY <1>5, FoundStable, UniqueStable DEF vars, KeyInv
<1> QED
  BY <1>1, <1>2, <1>4, <1>5 DEF Next

LEMMA InitKeyed == Init => KeyInv
<1>1. Init => Ownership
  BY DEF Init, Ownership, LockHeld, StepsApart, UploadsOwn, StagingOwned, StagedApart,
     RecordedBytesKept, Uploads, NoRequest, Ask
<1>2. Init => RowsUnique /\ \A w \in Workers : pc[w] # "move"
  BY DEF Init, RowsUnique, Stored, Exists
<1> QED
  BY <1>1, <1>2, InitTyped DEF KeyInv

LEMMA KeyBytes == KeyInv => BytesInv
BY DEF KeyInv, BytesInv, Ownership

LEMMA KeyInvInductive == KeyInv /\ [Next]_vars => KeyInv'
<1>1. KeyInv => TypeOK
  BY DEF KeyInv
<1> QED
  BY <1>1, KeyBytes, TypeInductive, OwnershipInductive, KeyInductive

LEMMA KeyInvariant == Spec => [](KeyInv /\ BytesInv)
BY InitKeyed, KeyBytes, KeyInvInductive, PTL DEF Spec

(* Keys and nonces are stored once, and no transaction past its check can  *)
(* hit a UNIQUE constraint.                                                *)
THEOREM KeysStoredOnce == Spec => []KeysUnique
<1>1. KeyInv /\ BytesInv => KeysUnique
  BY DEF KeyInv, BytesInv, StepsApart, RowsUnique, Found, KeysUnique
<1> QED
  BY <1>1, KeyInvariant, PTL

(* A submission is stored only by a step that finds its task open.         *)
THEOREM ClosedTaskTakesNothing == Spec => ClosedBlocks
<1> DEFINE A == \A s \in Subs : ~Stored(s) /\ subs'[s].state = "stored"
                                => tasks[subs'[s].task].status = "open"
<1>1. KeyInv /\ [Next]_vars => [A]_vars
  <2> SUFFICES ASSUME KeyInv, [Next]_vars, NEW s \in Subs,
                      ~Stored(s), subs'[s].state = "stored"
               PROVE  tasks[subs'[s].task].status = "open"
    OBVIOUS
  <2>1. PICK w \in Workers : CommitSubmission(w)
    <3>1. ASSUME NEW w \in Workers, CommitTask(w) \/ CommitDelete(w) PROVE FALSE
      BY <3>1 DEF CommitTask, CommitDelete, Stored, KeyInv, TypeOK
    <3>2. ASSUME NEW w \in Workers, Arrives(w) \/ Step(w) \/ Crash(w), ~CommitSubmission(w)
          PROVE  FALSE
      BY <3>1, <3>2, OtherSteps DEF KeyInv, Stored
    <3>3. CASE CloseTask \/ ReopenTask \/ CloseAll \/ UNCHANGED vars
      BY <3>3 DEF CloseTask, ReopenTask, CloseAll, SetStatus, vars, Stored
    <3> QED
      BY <3>2, <3>3 DEF Next
  <2>2. Found(w) /\ req[w].op = "submit"
    BY <2>1 DEF KeyInv, CommitSubmission
  <2>3. subs'[s].task = req[w].task
    BY <2>1, <2>2 DEF CommitSubmission, NewRow, Stored, KeyInv, TypeOK
  <2> QED
    BY <2>2, <2>3 DEF Found
<1> QED
  BY <1>1, KeyInvariant, PTL DEF Spec, ClosedBlocks
===============================================================================
