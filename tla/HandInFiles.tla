------------------------------ MODULE HandInFiles ------------------------------
(* What TLAPS proves of HandIn's file area: that the reserve is kept, and  *)
(* when a row can lose its file or a file its row.                         *)
EXTENDS HandInProofs, FiniteSetTheorems

(* What one step of worker w may do to the files and to its request.       *)
LEMMA OnlyOwnRequest ==
    ASSUME TypeOK, NEW w \in Workers, Arrives(w) \/ Step(w) \/ Crash(w)
    PROVE  \A v \in Workers \ {w} : req'[v] = req[v] /\ pc'[v] = pc[v]
<1>1. CASE CommitTask(w) \/ CommitSubmission(w) \/ CommitDelete(w)
  BY <1>1 DEF CommitTask, CommitSubmission, CommitDelete, Goto, TypeOK
<1> QED
  BY <1>1, OtherSteps

(* Only a COMMIT of a request's own rows changes whose a file is.          *)
LEMMA QuietOwners ==
    ASSUME NEW w \in Workers, Arrives(w) \/ Step(w) \/ Crash(w),
           ~CommitTask(w), ~CommitSubmission(w), ~CommitDelete(w)
    PROVE  UNCHANGED owner
BY DEF Arrives, CreateArrives, SubmitArrives, DeleteSubmissionArrives, DeleteTaskArrives, Arrive,
   Step, Begin, BeginTimesOut, Reply, Crash, UploadStep, Retry, Again, ClaimNonce, Decide,
   CheckSpace, Prepare, PrepareFails, TooLarge, RecheckSpace, Move, RollBack, Undo, UndoFails,
   Undone, DeleteStep, ListFiles, Stage, StageFails, DeleteFails, Restore, EndRestore, Purge,
   EndPurge

-------------------------------------------------------------------------------
(* Files that outlive their request, or will when its transaction commits: *)
(* those of the uploads that have passed the second look at the space.     *)
Sure == {f \in Files : \/ disk[f] \in {"live", "trash"}
                       \/ \E w \in Workers : /\ pc[w] \in {"begin", "txn", "move"}
                                             /\ Uploads(w)
                                             /\ f \in req[w].files}

SureRoom == Cardinality(Sure) + Reserve <= Capacity

(* They become more only by that look, which counts everything on disk.    *)
LEMMA SureShrinks ==
    ASSUME TypeOK, NEW w \in Workers,
           \A v \in Workers \ {w} : req'[v] = req[v] /\ pc'[v] = pc[v],
           \A f \in Files : disk'[f] \in {"live", "trash"} => f \in Sure,
           /\ pc'[w] \in {"begin", "txn", "move"} /\ Uploads(w)'
           => /\ pc[w] \in {"begin", "txn", "move"} /\ Uploads(w)
              /\ req'[w].files = req[w].files
    PROVE  Sure' \subseteq Sure
BY DEF Sure, Uploads

LEMMA UploadsAreSure ==
    ASSUME BytesInv, NEW w \in Workers, UploadStep(w), ~RecheckSpace(w)
    PROVE  Sure' \subseteq Sure
<1> USE DEF BytesInv, TypeOK, Goto, Conclude, Fail
<1>1. \A v \in Workers \ {w} : req'[v] = req[v] /\ pc'[v] = pc[v]
  BY OnlyOwnRequest DEF Step
<1>2. \A f \in Files : disk[f] \in {"live", "trash"} => f \in Sure
  BY DEF Sure
<1>3. CASE Retry(w) \/ Again(w)
  BY <1>1, <1>2, <1>3, SureShrinks DEF Retry, Again, AnswerKnownKey
<1>4. CASE CheckSpace(w) \/ PrepareFails(w) \/ TooLarge(w)
  BY <1>1, <1>2, <1>4, SureShrinks DEF CheckSpace, PrepareFails, TooLarge
<1>5. CASE Prepare(w) \/ Undo(w)
  BY <1>1, <1>2, <1>5, SureShrinks DEF Prepare, Unprepared, Undo
<1>6. CASE ClaimNonce(w) \/ Decide(w) \/ RollBack(w)
  BY <1>1, <1>2, <1>6, SureShrinks DEF ClaimNonce, Decide, RollBack, AnswerKnownKey, Uploads
<1>7. CASE Move(w)
  <2>1. Uploads(w) /\ \A f \in req[w].files : f \in Files => f \in Sure
    BY <1>7 DEF Move, StepsApart, Sure
  <2> QED
    BY <1>1, <1>2, <1>7, <2>1, SureShrinks DEF Move, Unmoved, Uploads
<1>8. CASE CommitTask(w) \/ CommitSubmission(w)
  BY <1>1, <1>2, <1>8, SureShrinks DEF CommitTask, CommitSubmission
<1>9. CASE UndoFails(w) \/ Undone(w)
  BY <1>1, <1>2, <1>9, SureShrinks DEF UndoFails, Undone
<1> QED
  BY <1>3, <1>4, <1>5, <1>6, <1>7, <1>8, <1>9 DEF UploadStep

LEMMA OtherStepsAreSure ==
    ASSUME BytesInv, NEW w \in Workers,
           Arrives(w) \/ Begin(w) \/ BeginTimesOut(w) \/ DeleteStep(w) \/ Reply(w) \/ Crash(w)
    PROVE  Sure' \subseteq Sure
<1> USE DEF BytesInv, TypeOK, Goto, Conclude, Fail
<1>1. \A v \in Workers \ {w} : req'[v] = req[v] /\ pc'[v] = pc[v]
  BY OnlyOwnRequest DEF Step
<1>2. \A f \in Files : disk[f] \in {"live", "trash"} => f \in Sure
  BY DEF Sure
<1>3. CASE Begin(w) \/ BeginTimesOut(w)
  BY <1>1, <1>2, <1>3, SureShrinks DEF Begin, BeginTimesOut, Uploads
<1>4. CASE Reply(w) \/ Crash(w)
  BY <1>1, <1>2, <1>4, SureShrinks DEF Reply, Crash, Unmoved
<1>5. CASE ListFiles(w) \/ StageFails(w) \/ CommitDelete(w) \/ DeleteFails(w)
  BY <1>1, <1>2, <1>5, SureShrinks DEF ListFiles, StageFails, CommitDelete, DeleteFails
<1>6. CASE Stage(w)
  BY <1>1, <1>2, <1>6, SureShrinks DEF Stage
<1>7. CASE Restore(w) \/ Purge(w)
  <2>1. \A f \in req[w].staged : f \in Files => f \in Sure
    BY <1>2 DEF StagedApart
  <2> QED
    BY <1>1, <1>2, <1>7, <2>1, SureShrinks DEF Restore, Purge
<1>8. CASE EndRestore(w) \/ EndPurge(w)
  BY <1>1, <1>2, <1>8, SureShrinks DEF EndRestore, EndPurge
<1>9. CASE Arrives(w)
  <2>1. ASSUME NEW l, NEW r, Arrive(w, l, r),
               l \in {"begin", "txn", "move"} => r.op \notin {"create", "submit"}
        PROVE  Sure' \subseteq Sure
    BY <1>1, <1>2, <2>1, SureShrinks DEF Arrive, Uploads
  <2> QED
    BY <1>9, <2>1 DEF Arrives, CreateArrives, SubmitArrives, DeleteSubmissionArrives,
       DeleteTaskArrives, Ask
<1> QED
  BY <1>3, <1>4, <1>5, <1>6, <1>7, <1>8, <1>9 DEF DeleteStep

(* Who passes the second look has counted all that can be sure then.       *)
LEMMA RecheckLeavesRoom ==
    ASSUME BytesInv, NEW w \in Workers, RecheckSpace(w)
    PROVE  Sure' \subseteq Sure \/ (Sure' \subseteq Used /\ Room(0))
<1> USE DEF BytesInv, TypeOK
<1>1. \A v \in Workers \ {w} : req'[v] = req[v] /\ pc'[v] = pc[v]
  BY OnlyOwnRequest DEF Step, UploadStep
<1>2. CASE Room(0)
  <2>1. req' = req /\ disk' = disk /\ \A f \in req[w].files : f \in Files => f \in Used
    BY <1>2 DEF RecheckSpace, Unprepared, Used
  <2>2. ASSUME NEW v \in Workers, pc[v] \in {"begin", "txn", "move"}, Uploads(v),
               NEW f \in req[v].files
        PROVE  f \in Files => f \in Used
    BY <2>2 DEF UploadsOwn, Used
  <2>3. ASSUME NEW f \in Sure' PROVE f \in Used
    BY <1>1, <2>1, <2>2, <2>3 DEF Sure, Used, Uploads
  <2> QED
    BY <1>2, <2>3
<1>3. CASE ~Room(0)
  BY <1>1, <1>3, SureShrinks DEF RecheckSpace, Fail, Conclude, Goto, Sure
<1> QED
  BY <1>2, <1>3

LEMMA SureIsFinite == Sure \in SUBSET Files /\ IsFiniteSet(Sure) /\ Cardinality(Sure) \in Nat
BY SpaceAssumption, FS_Subset, FS_CardinalityType DEF Sure

LEMMA RoomInductive == BytesInv /\ SureRoom /\ [Next]_vars => SureRoom'
<1> SUFFICES ASSUME BytesInv, SureRoom, [Next]_vars PROVE SureRoom'
  OBVIOUS
<1>1. CASE Sure' \subseteq Sure
  <2>1. Cardinality(Sure') <= Cardinality(Sure) /\ Cardinality(Sure') \in Nat
    BY <1>1, SureIsFinite, FS_Subset, FS_CardinalityType
  <2> QED
    BY <2>1, SureIsFinite, SpaceAssumption DEF SureRoom
<1>2. CASE Sure' \subseteq Used /\ Room(0)
  <2>1. IsFiniteSet(Used) /\ Cardinality(Used) \in Nat
    BY SpaceAssumption, FS_Subset, FS_CardinalityType DEF Used
  <2>2. Cardinality(Sure') <= Cardinality(Used) /\ Cardinality(Sure') \in Nat
    BY <1>2, <2>1, FS_Subset, FS_CardinalityType
  <2> QED
    BY <1>2, <2>1, <2>2, SpaceAssumption DEF SureRoom, Room
<1>3. ASSUME NEW w \in Workers, Arrives(w) \/ Step(w) \/ Crash(w)
      PROVE  Sure' \subseteq Sure \/ (Sure' \subseteq Used /\ Room(0))
  BY <1>3, UploadsAreSure, OtherStepsAreSure, RecheckLeavesRoom DEF Step
<1>4. CASE CloseTask \/ ReopenTask \/ CloseAll \/ UNCHANGED vars
  BY <1>4 DEF CloseTask, ReopenTask, CloseAll, SetStatus, vars, Sure, SureRoom, Uploads
<1> QED
  BY <1>1, <1>2, <1>3, <1>4 DEF Next

(* Uploads side by side may fill the disk, but what outlives its request   *)
(* always leaves the reserve free.                                         *)
THEOREM ReserveStays == Spec => []ReserveKept
<1>1. Init => SureRoom
  <2>1. ASSUME Init PROVE Sure = {}
    BY <2>1 DEF Init, Sure
  <2> QED
    BY <2>1, FS_EmptySet, SpaceAssumption DEF SureRoom
<1>2. KeyInv /\ BytesInv /\ SureRoom /\ [Next]_vars => SureRoom'
  BY RoomInductive
<1>3. SureRoom => ReserveKept
  <2> DEFINE S == {f \in Files : disk[f] \in {"live", "trash"}}
  <2>1. S \subseteq Sure
    BY DEF Sure
  <2>2. Cardinality(S) <= Cardinality(Sure) /\ Cardinality(S) \in Nat
    BY <2>1, SureIsFinite, FS_Subset, FS_CardinalityType
  <2> QED
    BY <2>2, SureIsFinite, SpaceAssumption DEF SureRoom, ReserveKept
<1> QED
  BY <1>1, <1>2, <1>3, KeyInvariant, PTL DEF Spec

-------------------------------------------------------------------------------
(* When a row loses its file, and when a file is left to nobody.           *)

(* A request that has written nothing yet, or is about to be answered, has *)
(* nothing on disk.                                                        *)
Untouched == \A w \in Workers : pc[w] \in {"idle", "retry", "again", "reply"} =>
                                   \A f \in req[w].files : disk[f] = "absent"

(* What a deletion is about to remove the row of, it has listed: the files *)
(* it has still to stage, those it has staged, those it found moved away.  *)
Listed == \A w \in Workers : pc[w] = "stage" =>
             \A f \in Files : owner[f] \in Parents(w)
                             => f \in req[w].files \cup req[w].staged \cup req[w].passed

FilesInv == BytesInv /\ Untouched /\ Listed

TakesBack(f) ==
    \E w \in Workers : /\ f \in req[w].staged
                       /\ Killed(w) \/ pc[w] \in {"unstage", "restore"}

LeavesStray(f) ==
    \E w \in Workers :
        \/ Killed(w) /\ f \in Held(w)
        \/ pc[w] = "undo" /\ f \in req[w].files \ req'[w].files
        \/ pc[w] \in {"unstage", "restore", "purge"} /\ f \in req[w].staged
        \/ pc[w] = "stage" /\ f \in req[w].passed

Explained == \A f \in Files : /\ Missing(f)' /\ ~Missing(f) => TakesBack(f)
                              /\ Stray(f)' /\ ~Stray(f) => LeavesStray(f)

(* A step that only goes on or settles the answer moves no file and lets   *)
(* go of none.                                                             *)
LEMMA QuietSteps ==
    ASSUME FilesInv, NEW w \in Workers, UNCHANGED <<owner, disk>>,
           \A v \in Workers \ {w} : req'[v] = req[v] /\ pc'[v] = pc[v],
           req'[w].files = req[w].files, req'[w].staged = req[w].staged,
           req'[w].op = req[w].op,
           pc[w] \in {"stage", "unstage", "restore"} => pc'[w] \in {"stage", "unstage", "restore"},
           pc'[w] \in {"retry", "again", "reply"} =>
               \/ pc[w] \in {"retry", "again"}
               \/ \A f \in req[w].files : disk[f] = "absent",
           pc'[w] # "idle"
    PROVE  Untouched' /\ Explained
<1>1. Untouched'
  BY DEF FilesInv, Untouched
<1>2. ASSUME NEW f \in Files PROVE Missing(f)' => Missing(f)
  BY DEF Missing
<1>3. ASSUME NEW f \in Files PROVE Stray(f)' => Stray(f)
  BY DEF Stray, Held, Uploads
<1> QED
  BY <1>1, <1>2, <1>3 DEF Explained

LEMMA QuietAnswers ==
    ASSUME FilesInv, NEW w \in Workers, NEW l \in {"undo", "reply"}, NEW o, NEW s,
           Conclude(w, l, o, s), UNCHANGED <<owner, disk>>,
           pc[w] \notin {"stage", "unstage", "restore"},
           l = "reply" => \/ pc[w] \in {"retry", "again"}
                          \/ \A f \in req[w].files : disk[f] = "absent"
    PROVE  Untouched' /\ Explained
<1>1. req[w] \in Request
  BY DEF FilesInv, BytesInv, TypeOK
<1>2. /\ \A v \in Workers \ {w} : req'[v] = req[v] /\ pc'[v] = pc[v]
      /\ req'[w] = [req[w] EXCEPT !.outcome = o, !.answer = s] /\ pc'[w] = l
  BY DEF FilesInv, BytesInv, TypeOK, Conclude, Goto
<1>3. /\ req'[w].files = req[w].files /\ req'[w].staged = req[w].staged
      /\ req'[w].op = req[w].op
  BY <1>1, <1>2 DEF Request
<1> QED
  BY <1>2, <1>3, QuietSteps

LEMMA QuietGotos ==
    ASSUME FilesInv, NEW w \in Workers,
           NEW l \in {"again", "space", "prepare", "begin", "txn", "move", "restore", "reply"},
           Goto(w, l), UNCHANGED <<owner, disk, req>>,
           pc[w] \in {"stage", "unstage", "restore"} => l = "restore",
           l \in {"again", "reply"} => \/ pc[w] \in {"retry", "again"}
                                     \/ \A f \in req[w].files : disk[f] = "absent"
    PROVE  Untouched' /\ Explained
<1>1. /\ \A v \in Workers \ {w} : req'[v] = req[v] /\ pc'[v] = pc[v]
      /\ req'[w] = req[w] /\ pc'[w] = l
  BY DEF FilesInv, BytesInv, TypeOK, Goto
<1> QED
  BY <1>1, QuietSteps

(* Files change hands within a request: written, renamed, unlinked.        *)
LEMMA UploadsExplained ==
    ASSUME FilesInv, NEW w \in Workers, UploadStep(w)
    PROVE  Untouched' /\ Explained
<1>1. TypeOK /\ Ownership /\ Untouched
  BY DEF FilesInv, BytesInv, Ownership
<1>2. \A v \in Workers \ {w} : req'[v] = req[v] /\ pc'[v] = pc[v]
  BY <1>1, OnlyOwnRequest DEF Step
<1>3. CASE Retry(w) \/ Again(w)
  BY <1>3, QuietAnswers, QuietGotos DEF Retry, Again, AnswerKnownKey
<1>4. CASE CheckSpace(w) \/ PrepareFails(w) \/ TooLarge(w) \/ RecheckSpace(w)
  BY <1>4, QuietAnswers, QuietGotos DEF CheckSpace, PrepareFails, TooLarge, RecheckSpace, Fail
<1>5. CASE ClaimNonce(w) \/ Decide(w) \/ RollBack(w)
  BY <1>5, QuietAnswers, QuietGotos DEF ClaimNonce, Decide, AnswerKnownKey, RollBack, Fail
<1>6. CASE Undone(w)
  BY <1>6, QuietGotos DEF Undone
<1>7. CASE Prepare(w) \/ Move(w) \/ Undo(w)
  <2>1. PICK f \in req[w].files :
            \E l \in {"tmp", "live", "absent"} : disk' = [disk EXCEPT ![f] = l]
    BY <1>7 DEF Prepare, Unprepared, Move, Unmoved, Undo
  <2>2. UNCHANGED <<owner, pc, req>> /\ Uploads(w) /\ pc[w] \in {"prepare", "move", "undo"}
    BY <1>1, <1>7 DEF Prepare, Move, Undo, Ownership, StepsApart
  <2>3. f \in Files /\ owner[f] = None
    BY <1>1, <2>1, <2>2 DEF Ownership, UploadsOwn, TypeOK, Request
  <2>4. Untouched'
    BY <1>1, <2>1, <2>2 DEF Untouched, Ownership, UploadsOwn, StagingOwned, TypeOK, Request
  <2>5. \A g \in Files \ {f} : disk'[g] = disk[g]
    BY <1>1, <2>1 DEF TypeOK
  <2>6. Explained
    BY <2>1, <2>2, <2>3, <2>5 DEF Explained, Missing, Stray, Held, Uploads
  <2> QED
    BY <2>4, <2>6
<1>8. CASE CommitTask(w) \/ CommitSubmission(w)
  <2>1. \A f \in req[w].files : disk[f] = "live"
    BY <1>1, <1>8
    DEF CommitTask, CommitSubmission, Unmoved, Uploads, Ownership, UploadsOwn, TypeOK, Request
  <2>2. PICK p \in Tasks \cup Subs :
            owner' = [f \in Files |-> IF f \in req[w].files THEN p ELSE owner[f]]
    BY <1>1, <1>8 DEF CommitTask, CommitSubmission, Ownership, StepsApart
  <2>3. /\ req[w].staged = {} /\ UNCHANGED disk /\ pc[w] = "move" /\ pc'[w] = "reply"
    BY <1>1, <1>8 DEF CommitTask, CommitSubmission, Goto, Uploads, Ownership, UploadsOwn, TypeOK
  <2>4. req'[w].files = {} /\ req'[w].staged = {} /\ req'[w].op = req[w].op
    <3>1. /\ req[w] \in Request
          /\ \/ req'[w] = [req[w] EXCEPT !.outcome = "created", !.files = {}]
             \/ req'[w] = [req[w] EXCEPT !.outcome = "receipt", !.answer = req[w].sub,
                                          !.files = {}]
      BY <1>1, <1>8 DEF CommitTask, CommitSubmission, TypeOK
    <3> QED
      BY <2>3, <3>1 DEF Request
  <2>5. p # None
    BY ConstantsAssumption
  <2>6. Untouched'
    BY <1>1, <1>2, <2>3, <2>4 DEF Untouched
  <2>7. Explained
    BY <1>2, <2>1, <2>2, <2>3, <2>4, <2>5 DEF Explained, Missing, Stray, Held, Uploads
  <2> QED
    BY <2>6, <2>7
<1>9. CASE UndoFails(w)
  <2>1. /\ UNCHANGED <<owner, disk, pc>> /\ pc[w] = "undo"
        /\ req'[w].staged = req[w].staged /\ req'[w].op = req[w].op
    BY <1>1, <1>9 DEF UndoFails, TypeOK, Request
  <2>2. Untouched'
    BY <1>1, <1>2, <2>1 DEF Untouched
  <2>3. Explained
    BY <1>2, <2>1 DEF Explained, Missing, Stray, Held, Uploads, LeavesStray
  <2> QED
    BY <2>2, <2>3
<1> QED
  BY <1>3, <1>4, <1>5, <1>6, <1>7, <1>8, <1>9 DEF UploadStep

(* A deletion accounts for what it moves.                                  *)
LEMMA DeletionsExplained ==
    ASSUME FilesInv, NEW w \in Workers, DeleteStep(w)
    PROVE  Untouched' /\ Explained
<1>1. TypeOK /\ Ownership /\ Untouched
  BY DEF FilesInv, BytesInv, Ownership
<1>2. /\ \A v \in Workers \ {w} : req'[v] = req[v] /\ pc'[v] = pc[v]
      /\ req[w] \in Request
  BY <1>1, OnlyOwnRequest DEF Step, TypeOK
<1>3. /\ pc[w] # "stage" /\ ~Uploads(w) => req[w].files = {}
      /\ pc[w] = "txn" => req[w].staged = {}
      /\ \A f \in req[w].staged : disk[f] = "trash"
  BY <1>1 DEF Ownership, StagingOwned, StagedApart
<1>4. CASE ListFiles(w)
  <2>1. /\ UNCHANGED <<owner, disk>> /\ pc'[w] = "stage" /\ pc[w] = "txn"
        /\ req'[w].staged = {} /\ req[w].staged = {} /\ req[w].files = {}
        /\ req'[w].op = req[w].op
    BY <1>1, <1>2, <1>3, <1>4 DEF ListFiles, Goto, TypeOK, Request
  <2>2. Untouched'
    BY <1>1, <1>2, <2>1 DEF Untouched
  <2>3. Explained
    BY <1>2, <2>1 DEF Explained, Missing, Stray, Held, Uploads
  <2> QED
    BY <2>2, <2>3
<1>5. CASE Stage(w)
  <2>1. PICK f \in req[w].files :
            \/ /\ disk[f] = "live" /\ disk' = [disk EXCEPT ![f] = "trash"]
               /\ req' = [req EXCEPT ![w] = [req[w] EXCEPT !.files = @ \ {f},
                                                           !.staged = @ \cup {f}]]
            \/ /\ disk[f] # "live" /\ UNCHANGED disk
               /\ req' = [req EXCEPT ![w] = [req[w] EXCEPT !.files = @ \ {f},
                                                           !.passed = @ \cup {f}]]
    BY <1>5 DEF Stage
  <2>2. UNCHANGED <<owner, pc>> /\ pc[w] = "stage" /\ ~Uploads(w) /\ f \in Files
    BY <1>1, <1>2, <1>5 DEF Stage, Ownership, StepsApart, Request
  <2>3. req'[w].files = req[w].files \ {f} /\ req'[w].op = req[w].op
    <3>1. \/ req'[w] = [req[w] EXCEPT !.files = @ \ {f}, !.staged = @ \cup {f}]
          \/ req'[w] = [req[w] EXCEPT !.files = @ \ {f}, !.passed = @ \cup {f}]
      BY <1>1, <2>1 DEF TypeOK
    <3> QED
      BY <1>2, <3>1 DEF Request
  <2>4. \A g \in Files \ {f} : disk'[g] = disk[g]
    BY <1>1, <2>1 DEF TypeOK
  <2>5. Untouched'
    <3>1. ASSUME NEW v \in Workers \ {w}, pc'[v] \in {"idle", "retry", "again", "reply"},
                 NEW g \in req'[v].files
          PROVE  disk'[g] = "absent"
      <4>1. disk[g] = "absent" /\ g \in Files
        BY <1>1, <1>2, <2>2, <3>1 DEF Untouched, TypeOK, Request
      <4> QED
        BY <2>1, <2>4, <4>1
    <3> QED
      BY <2>2, <3>1 DEF Untouched
  <2>6. CASE disk[f] = "live"
    <3>1. disk'[f] = "trash" /\ req'[w].staged = req[w].staged \cup {f}
      <4>1. /\ req'[w] = [req[w] EXCEPT !.files = @ \ {f}, !.staged = @ \cup {f}]
            /\ disk'[f] = "trash"
        BY <1>1, <2>1, <2>2, <2>6 DEF TypeOK
      <4> QED
        BY <1>2, <4>1 DEF Request
    <3> QED
      BY <1>2, <2>2, <2>3, <2>4, <2>5, <3>1 DEF Explained, Missing, Stray, Held, Uploads
  <2>7. CASE disk[f] # "live"
    <3>1. disk' = disk /\ req'[w].staged = req[w].staged
      BY <1>1, <1>2, <2>1, <2>7 DEF TypeOK, Request
    <3> QED
      BY <1>2, <2>2, <2>3, <2>5, <3>1 DEF Explained, Missing, Stray, Held, Uploads
  <2> QED
    BY <2>6, <2>7
<1>6. CASE StageFails(w)
  <2>1. /\ UNCHANGED <<owner, disk>> /\ pc[w] = "stage" /\ pc'[w] = "unstage"
        /\ req'[w].files = {} /\ req'[w].staged = req[w].staged
        /\ req'[w].op = req[w].op
    BY <1>1, <1>2, <1>6 DEF StageFails, Goto, TypeOK, Request
  <2>2. ~Uploads(w)
    BY <1>1, <2>1 DEF Ownership, StepsApart
  <2>3. Untouched'
    BY <1>1, <1>2, <2>1 DEF Untouched
  <2>4. Explained
    BY <1>2, <2>1, <2>2 DEF Explained, Missing, Stray, Held, Uploads
  <2> QED
    BY <2>3, <2>4
<1>7. CASE CommitDelete(w)
  <2>1. UNCHANGED <<disk, req>> /\ pc[w] = "stage" /\ pc'[w] = "purge"
    BY <1>1, <1>7 DEF CommitDelete, Goto, TypeOK
  <2>2. ASSUME NEW f \in Files, owner'[f] # owner[f]
        PROVE  owner'[f] = None /\ f \in req[w].staged \cup req[w].passed
    BY <1>7, <2>2 DEF CommitDelete, FilesInv, Listed
  <2>3. \A f \in req[w].staged : f \in Files /\ owner'[f] = None
    BY <1>1, <1>2, <1>7, <2>1 DEF CommitDelete, Ownership, StepsApart, StagingOwned, Request
  <2>4. \A v \in Workers \ {w} : pc'[v] = pc[v]
    BY <1>2
  <2>5. Untouched'
    BY <1>1, <2>1, <2>4 DEF Untouched
  <2>6. Explained
    BY <2>1, <2>2, <2>3, <2>4 DEF Explained, Missing, Stray, Held, Uploads, LeavesStray
  <2> QED
    BY <2>5, <2>6
<1>8. CASE DeleteFails(w)
  BY <1>8, QuietGotos DEF DeleteFails
<1>9. CASE Restore(w) \/ Purge(w)
  <2>1. PICK f \in req[w].staged :
            /\ \/ pc[w] = "purge" /\ disk' = [disk EXCEPT ![f] = "absent"]
               \/ pc[w] \in {"unstage", "restore"} /\ disk' = [disk EXCEPT ![f] = "live"]
            /\ req' = [req EXCEPT ![w].staged = @ \ {f}]
    BY <1>9 DEF Restore, Purge
  <2>2. /\ UNCHANGED <<owner, pc>> /\ f \in Files /\ disk[f] = "trash"
        /\ pc[w] = "purge" => owner[f] = None
    BY <1>1, <1>2, <1>9 DEF Restore, Purge, Ownership, StagedApart, Request
  <2>3. /\ req'[w].files = req[w].files /\ req'[w].staged = req[w].staged \ {f}
        /\ req'[w].op = req[w].op
        /\ disk'[f] = IF pc[w] = "purge" THEN "absent" ELSE "live"
        /\ \A g \in Files \ {f} : disk'[g] = disk[g]
    BY <1>1, <1>2, <2>1, <2>2 DEF TypeOK, Request
  <2>4. Untouched'
    <3>1. ASSUME NEW v \in Workers, pc'[v] \in {"idle", "retry", "again", "reply"},
                 NEW g \in req'[v].files
          PROVE  disk'[g] = "absent"
      <4>1. v # w
        BY <2>1, <2>2, <3>1
      <4>2. disk[g] = "absent" /\ g \in Files
        BY <1>1, <1>2, <2>2, <3>1, <4>1 DEF Untouched, TypeOK, Request
      <4> QED
        BY <2>2, <2>3, <4>2
    <3> QED
      BY <3>1 DEF Untouched
  <2>5. Explained
    BY <1>2, <2>1, <2>2, <2>3 DEF Explained, Missing, Stray, Held, Uploads, LeavesStray
  <2> QED
    BY <2>4, <2>5
<1>10. CASE EndRestore(w) \/ EndPurge(w)
  <2>1. /\ UNCHANGED <<owner, disk>> /\ pc'[w] = "reply"
        /\ pc[w] \in {"unstage", "restore", "purge"}
    BY <1>1, <1>10 DEF EndRestore, EndPurge, Conclude, Goto, TypeOK
  <2>2. req'[w].files = req[w].files /\ req'[w].staged = {} /\ req'[w].op = req[w].op
    <3>1. \/ req'[w] = [req[w] EXCEPT !.outcome = "error", !.staged = {}]
          \/ /\ req[w].staged = {}
             /\ req'[w] = [req[w] EXCEPT !.outcome = "deleted", !.answer = None]
      BY <1>1, <1>10 DEF EndRestore, EndPurge, Conclude, Goto, TypeOK
    <3> QED
      BY <1>2, <3>1 DEF Request
  <2>3. req[w].files = {}
    BY <1>1, <1>3, <2>1 DEF Ownership, StepsApart
  <2>4. pc[w] = "purge" => \A f \in req[w].staged : owner[f] = None
    BY <1>1 DEF Ownership, StagedApart
  <2>5. Untouched'
    BY <1>1, <1>2, <2>1, <2>2, <2>3 DEF Untouched
  <2>6. Explained
    BY <1>2, <2>1, <2>2, <2>3, <2>4
    DEF Explained, Missing, Stray, Held, Uploads, TakesBack, LeavesStray
  <2> QED
    BY <2>5, <2>6
<1> QED
  BY <1>4, <1>5, <1>6, <1>7, <1>8, <1>9, <1>10 DEF DeleteStep

(* A request comes with files that are not there yet.                      *)
LEMMA ArrivalsExplained ==
    ASSUME FilesInv, NEW w \in Workers, Arrives(w)
    PROVE  Untouched' /\ Explained
<1>1. TypeOK /\ Ownership /\ Untouched
  BY DEF FilesInv, BytesInv, Ownership
<1>2. ASSUME NEW l, NEW r, Arrive(w, l, r), \A f \in r.files : disk[f] = "absent", r.staged = {}
      PROVE  Untouched' /\ Explained
  <2>1. /\ \A v \in Workers \ {w} : req'[v] = req[v] /\ pc'[v] = pc[v]
        /\ req'[w] = r /\ pc[w] = "idle" /\ UNCHANGED <<owner, disk>>
    BY <1>1, <1>2 DEF Arrive, Goto, TypeOK
  <2>2. req[w].staged = {} /\ \A f \in req[w].files : disk[f] = "absent"
    BY <1>1, <2>1 DEF Ownership, StagedApart, Untouched
  <2>3. Untouched'
    BY <1>1, <1>2, <2>1 DEF Untouched
  <2>4. Explained
    BY <1>2, <2>1, <2>2 DEF Explained, Missing, Stray, Held, Uploads
  <2> QED
    BY <2>3, <2>4
<1>3. CASE CreateArrives(w)
  BY <1>2, <1>3 DEF CreateArrives, Ask, FreshFiles
<1>4. CASE SubmitArrives(w)
  BY <1>2, <1>4 DEF SubmitArrives, Ask, FreshFiles
<1>5. CASE DeleteSubmissionArrives(w) \/ DeleteTaskArrives(w)
  BY <1>2, <1>5 DEF DeleteSubmissionArrives, DeleteTaskArrives, Ask
<1> QED
  BY <1>3, <1>4, <1>5 DEF Arrives

(* It leaves with nothing in its hands, unless it is killed.               *)
LEMMA DeparturesExplained ==
    ASSUME FilesInv, NEW w \in Workers, Reply(w) \/ Crash(w)
    PROVE  Untouched' /\ Explained
<1>1. TypeOK /\ Ownership /\ Untouched
  BY DEF FilesInv, BytesInv, Ownership
<1>2. /\ \A v \in Workers \ {w} : req'[v] = req[v] /\ pc'[v] = pc[v]
      /\ req'[w].files = {} /\ req'[w].staged = {} /\ pc'[w] = "idle" /\ pc[w] # "idle"
      /\ owner' = owner
  BY <1>1 DEF Reply, Crash, Goto, TypeOK, NoRequest, Ask
<1>3. /\ \A f \in Files : \/ disk'[f] = disk[f]
                          \/ disk'[f] = "absent" /\ disk[f] = "tmp"
  BY DEF Reply, Crash, Unmoved
<1>4. pc[w] = "reply" => req[w].staged = {} /\ \A f \in req[w].files : disk[f] = "absent"
  BY <1>1 DEF Ownership, StagedApart, Untouched
<1>5. Untouched'
  <2>1. ASSUME NEW v \in Workers \ {w}, NEW f \in req[v].files, disk[f] = "absent"
        PROVE  disk'[f] = "absent"
    <3>1. f \in Files
      BY <1>1 DEF TypeOK, Request
    <3> QED
      BY <1>3, <2>1, <3>1
  <2> QED
    BY <1>1, <1>2, <2>1 DEF Untouched
<1>6. ASSUME NEW f \in Files, Missing(f)', ~Missing(f) PROVE TakesBack(f)
  <2>1. disk'[f] = disk[f]
    BY <1>1, <1>2, <1>3, <1>6 DEF Missing, Ownership, RecordedBytesKept
  <2>2. f \in req[w].staged
    BY <1>2, <1>6, <2>1 DEF Missing
  <2> QED
    BY <1>2, <1>4, <2>2 DEF TakesBack, Killed
<1>7. ASSUME NEW f \in Files, Stray(f)', ~Stray(f) PROVE LeavesStray(f)
  <2>1. disk'[f] = disk[f] /\ disk[f] # "absent"
    BY <1>3, <1>7 DEF Stray
  <2>2. f \in Held(w)
    BY <1>2, <1>7, <2>1 DEF Stray, Held, Uploads
  <2> QED
    BY <1>2, <1>4, <2>1, <2>2 DEF LeavesStray, Killed, Held
<1> QED
  BY <1>5, <1>6, <1>7 DEF Explained

LEMMA FilesInductive == FilesInv /\ [Next]_vars => Untouched' /\ [Explained]_vars
<1> SUFFICES ASSUME FilesInv, [Next]_vars PROVE Untouched' /\ Explained
  OBVIOUS
<1>1. ASSUME NEW w \in Workers, Begin(w) \/ BeginTimesOut(w) PROVE Untouched' /\ Explained
  <2>1. pc[w] = "begin" /\ ~Uploads(w) => req[w].files = {}
    BY DEF FilesInv, BytesInv, StagingOwned
  <2> QED
    BY <1>1, <2>1, QuietAnswers, QuietGotos DEF Begin, BeginTimesOut, Fail
<1>2. CASE CloseTask \/ ReopenTask \/ CloseAll \/ UNCHANGED vars
  BY <1>2 DEF CloseTask, ReopenTask, CloseAll, SetStatus, vars, FilesInv, Untouched, Explained,
     Missing, Stray, Held, Uploads
<1> QED
  BY <1>1, <1>2, UploadsExplained, DeletionsExplained, ArrivalsExplained, DeparturesExplained
  DEF Next, Step

(* Only these two steps get to the staging of files or go on with it.      *)
LEMMA OthersDoNotStage ==
    ASSUME TypeOK, NEW w \in Workers, Arrives(w) \/ Step(w) \/ Crash(w),
           ~ListFiles(w), ~Stage(w)
    PROVE  pc'[w] # "stage"
<1> USE DEF TypeOK, Goto, Conclude, Fail
<1>1. CASE Arrives(w)
  BY <1>1 DEF Arrives, CreateArrives, SubmitArrives, DeleteSubmissionArrives,
     DeleteTaskArrives, Arrive
<1>2. CASE Begin(w) \/ BeginTimesOut(w) \/ Reply(w) \/ Crash(w)
  BY <1>2 DEF Begin, BeginTimesOut, Reply, Crash
<1>3. CASE Retry(w) \/ Again(w) \/ ClaimNonce(w) \/ Decide(w)
  BY <1>3 DEF Retry, Again, ClaimNonce, Decide, AnswerKnownKey
<1>4. CASE CheckSpace(w) \/ Prepare(w) \/ PrepareFails(w) \/ TooLarge(w) \/ RecheckSpace(w)
  BY <1>4 DEF CheckSpace, Prepare, PrepareFails, TooLarge, RecheckSpace
<1>5. CASE Move(w) \/ RollBack(w) \/ CommitTask(w) \/ CommitSubmission(w)
  BY <1>5 DEF Move, RollBack, CommitTask, CommitSubmission
<1>6. CASE Undo(w) \/ UndoFails(w) \/ Undone(w)
  BY <1>6 DEF Undo, UndoFails, Undone
<1>7. CASE StageFails(w) \/ CommitDelete(w) \/ DeleteFails(w)
  BY <1>7 DEF StageFails, CommitDelete, DeleteFails
<1>8. CASE Restore(w) \/ EndRestore(w) \/ Purge(w) \/ EndPurge(w)
  BY <1>8 DEF Restore, EndRestore, Purge, EndPurge
<1> QED
  BY <1>1, <1>2, <1>3, <1>4, <1>5, <1>6, <1>7, <1>8 DEF Step, UploadStep, DeleteStep

(* Nothing is stored while a deletion stages: it holds the lock.           *)
LEMMA ListedInductive == KeyInv /\ BytesInv /\ Listed /\ [Next]_vars => Listed'
<1> SUFFICES ASSUME KeyInv, BytesInv, Listed, [Next]_vars PROVE Listed'
  OBVIOUS
<1>1. TypeOK /\ LockHeld /\ StepsApart
  BY DEF BytesInv
<1>2. ASSUME NEW w \in Workers, Arrives(w) \/ Step(w) \/ Crash(w) PROVE Listed'
  <2>1. \A v \in Workers \ {w} : req'[v] = req[v] /\ pc'[v] = pc[v]
    BY <1>1, <1>2, OnlyOwnRequest
  <2>2. CASE CommitTask(w) \/ CommitSubmission(w) \/ CommitDelete(w)
    <3>1. lock = w /\ ~ListFiles(w) /\ ~Stage(w)
      BY <2>2, RowsByHolder DEF CommitTask, CommitSubmission, CommitDelete, ListFiles, Stage,
         Uploads, Goto, BytesInv, TypeOK
    <3>2. pc'[w] # "stage" /\ \A v \in Workers \ {w} : pc'[v] # "stage"
      BY <1>1, <1>2, <2>1, <3>1, OthersDoNotStage DEF LockHeld
    <3> QED
      BY <3>2 DEF Listed
  <2>3. CASE ~CommitTask(w) /\ ~CommitSubmission(w) /\ ~CommitDelete(w)
    <3>1. UNCHANGED <<tasks, subs>>
      BY <1>1, <1>2, <2>3, OtherSteps
    <3>2. CASE ~ListFiles(w) /\ ~Stage(w)
      <4>1. pc'[w] # "stage"
        BY <1>1, <1>2, <3>2, OthersDoNotStage
      <4>2. UNCHANGED owner
        BY <1>2, <2>3, QuietOwners
      <4> QED
        BY <2>1, <3>1, <4>1, <4>2 DEF Listed, Parents, Doomed, Stored
    <3>3. CASE ListFiles(w)
      <4>1. req[w] \in Request
        BY <1>1 DEF TypeOK
      <4>2. req'[w] = [req[w] EXCEPT !.files = {f \in Files : owner[f] \in Parents(w)}]
        BY <1>1, <3>3 DEF ListFiles, TypeOK
      <4>3. /\ req'[w].files = {f \in Files : owner[f] \in Parents(w)}
            /\ req'[w].op = req[w].op /\ req'[w].task = req[w].task /\ req'[w].sub = req[w].sub
        BY <4>1, <4>2 DEF Request
      <4>4. \A v \in Workers : Parents(v)' = Parents(v)
        BY <2>1, <3>1, <4>3 DEF Parents, Doomed, Stored
      <4>5. UNCHANGED owner
        BY <3>3 DEF ListFiles
      <4> QED
        BY <2>1, <4>3, <4>4, <4>5 DEF Listed
    <3>4. CASE Stage(w)
      <4>1. req[w] \in Request
        BY <1>1 DEF TypeOK
      <4>2. PICK f \in req[w].files :
              \/ req' = [req EXCEPT ![w] = [req[w] EXCEPT !.files = @ \ {f}, !.staged = @ \cup {f}]]
              \/ req' = [req EXCEPT ![w] = [req[w] EXCEPT !.files = @ \ {f}, !.passed = @ \cup {f}]]
        BY <3>4 DEF Stage
      <4>3. \/ req'[w] = [req[w] EXCEPT !.files = @ \ {f}, !.staged = @ \cup {f}]
            \/ req'[w] = [req[w] EXCEPT !.files = @ \ {f}, !.passed = @ \cup {f}]
        BY <1>1, <4>2 DEF TypeOK
      <4>4. /\ req'[w].files \cup req'[w].staged \cup req'[w].passed
                = req[w].files \cup req[w].staged \cup req[w].passed
            /\ req'[w].op = req[w].op /\ req'[w].task = req[w].task /\ req'[w].sub = req[w].sub
        <5>1. CASE req'[w] = [req[w] EXCEPT !.files = @ \ {f}, !.staged = @ \cup {f}]
          <6>1. /\ req'[w].files = req[w].files \ {f} /\ req'[w].passed = req[w].passed
                /\ req'[w].staged = req[w].staged \cup {f}
                /\ req'[w].op = req[w].op /\ req'[w].task = req[w].task /\ req'[w].sub = req[w].sub
            BY <4>1, <5>1 DEF Request
          <6> QED
            BY <6>1
        <5>2. CASE req'[w] = [req[w] EXCEPT !.files = @ \ {f}, !.passed = @ \cup {f}]
          <6>1. /\ req'[w].files = req[w].files \ {f} /\ req'[w].staged = req[w].staged
                /\ req'[w].passed = req[w].passed \cup {f}
                /\ req'[w].op = req[w].op /\ req'[w].task = req[w].task /\ req'[w].sub = req[w].sub
            BY <4>1, <5>2 DEF Request
          <6> QED
            BY <6>1
        <5> QED
          BY <4>3, <5>1, <5>2
      <4>5. \A v \in Workers : Parents(v)' = Parents(v)
        BY <2>1, <3>1, <4>4 DEF Parents, Doomed, Stored
      <4>6. UNCHANGED <<owner, pc>>
        BY <3>4 DEF Stage
      <4>7. \A v \in Workers :
                req'[v].files \cup req'[v].staged \cup req'[v].passed
                = req[v].files \cup req[v].staged \cup req[v].passed
        BY <2>1, <4>4
      <4>8. ASSUME NEW v \in Workers, pc'[v] = "stage", NEW g \in Files,
                   owner'[g] \in Parents(v)'
            PROVE  g \in req'[v].files \cup req'[v].staged \cup req'[v].passed
        <5>1. pc[v] = "stage" /\ owner[g] \in Parents(v)
          BY <4>5, <4>6, <4>8
        <5> QED
          BY <4>7, <5>1 DEF Listed
      <4> QED
        BY <4>8 DEF Listed
    <3> QED
      BY <3>2, <3>3, <3>4
  <2> QED
    BY <2>2, <2>3
<1>3. CASE CloseTask \/ ReopenTask \/ CloseAll
  <2>1. lock = None /\ pc' = pc
    BY <1>3 DEF CloseTask, ReopenTask, CloseAll, SetStatus
  <2>2. \A w \in Workers : pc[w] # "stage"
    BY <1>1, <2>1, ConstantsAssumption DEF LockHeld
  <2> QED
    BY <2>1, <2>2 DEF Listed
<1>4. CASE UNCHANGED vars
  BY <1>4 DEF vars, Listed, Parents, Doomed, Stored
<1> QED
  BY <1>2, <1>3, <1>4 DEF Next

LEMMA FilesInvariant == Spec => [](BytesInv /\ Untouched /\ Listed) /\ [][Explained]_vars
<1>1. Init => Untouched /\ Listed
  BY DEF Init, Untouched, Listed, NoRequest, Ask
<1>2. KeyInv /\ BytesInv /\ Untouched /\ Listed /\ [Next]_vars
      => Untouched' /\ Listed' /\ [Explained]_vars
  BY FilesInductive, ListedInductive DEF FilesInv
<1> QED
  BY <1>1, <1>2, KeyInvariant, PTL DEF Spec

(* A row loses its file only to a kill, or to a rename back that fails.    *)
THEOREM RowsLoseNoFile == Spec => RecordsHaveFiles
<1>1. [Explained]_vars => [\A f \in Files : Missing(f)' /\ ~Missing(f) =>
                             \E w \in Workers :
                                /\ f \in req[w].staged
                                /\ Killed(w) \/ pc[w] \in {"unstage", "restore"}]_vars
  BY DEF Explained, TakesBack
<1> QED
  BY <1>1, FilesInvariant, PTL DEF RecordsHaveFiles

(* A file is left to nobody only by a kill, by an unlink or rename that    *)
(* fails, by a failed deletion that gives it back, or by a deletion that   *)
(* has listed it and found it moved away; never by one that has not        *)
(* listed it.                                                              *)
THEOREM StraysExplained == Spec => StraysOnlyTakenBack
<1>1. [Explained]_vars =>
        [\A f \in Files : Stray(f)' /\ ~Stray(f) =>
          \E w \in Workers :
              \/ Killed(w) /\ f \in Held(w)
              \/ pc[w] = "undo" /\ f \in req[w].files \ req'[w].files
              \/ pc[w] \in {"unstage", "restore", "purge"} /\ f \in req[w].staged
              \/ pc[w] = "stage" /\ f \in req[w].passed]_vars
  BY DEF Explained, LeavesStray
<1> QED
  BY <1>1, FilesInvariant, PTL DEF StraysOnlyTakenBack
===============================================================================
