---------------------------- MODULE HandInPromises ----------------------------
(* What TLAPS proves of the rows and the answers of HandIn, and that the   *)
(* core does what DropBox promises.                                        *)
EXTENDS HandInProofs

(* The id a request brings for its row is nobody else's and not used until *)
(* it commits; a deletion of a task is about one that was there.           *)
Reserved(w) ==
    /\ req[w].op = "create" =>
          /\ req[w].key \in Keys
          /\ pc[w] # "reply" => tasks[req[w].task].status = "unused"
          /\ \A v \in Workers \ {w} : req[v].op = "create" => req[v].task # req[w].task
    /\ req[w].op = "submit" =>
          /\ req[w].task \in Tasks
          /\ req[w].key \in Keys
          /\ pc[w] # "reply" => subs[req[w].sub].state = "unused"
          /\ \A v \in Workers \ {w} : req[v].op = "submit" => req[v].sub # req[w].sub
    /\ req[w].op = "deltask" => tasks[req[w].task].status # "unused"
    /\ req[w].op = "none" => pc[w] = "idle"

IdsReserved == \A w \in Workers : Reserved(w)

(* The hand-in the request asks for, which may have been deleted since.    *)
Meant(w, s) == \/ Stored(s) /\ subs[s].task = req[w].task /\ subs[s].key = req[w].key
               \/ subs[s].state = "deleted"

(* A receipt in hand is for the hand-in that was asked for, and a request  *)
(* whose key was known on arrival goes straight to that answer.            *)
Answer(w) ==
    /\ req[w].outcome = "receipt" => req[w].answer \in Subs /\ Meant(w, req[w].answer)
    /\ req[w].prior # None =>
          /\ req[w].op = "submit"
          /\ req[w].prior \in Subs
          /\ Meant(w, req[w].prior)
          /\ Stored(req[w].prior) =>
                \/ pc[w] = "retry"
                \/ pc[w] = "reply" /\ req[w].outcome = "receipt" /\ req[w].answer = req[w].prior

AnswersMeant == \A w \in Workers : Answer(w)

(* A stored row has its columns filled, a deleted one has none.            *)
RowsFilled ==
    /\ \A s \in Subs : Stored(s) => subs[s].task \in Tasks /\ subs[s].key \in Keys
    /\ \A t \in Tasks : tasks[t].status = "deleted" => tasks[t].nonce = None

Promises == ReferencesIntact /\ RowsFilled /\ IdsReserved /\ AnswersMeant

PromiseInv == KeyInv /\ Promises

-------------------------------------------------------------------------------
(* What a step does to the request it serves.                              *)

Commits(w) == CommitTask(w) \/ CommitSubmission(w) \/ CommitDelete(w)

(* No worker but w, and no row, is touched.                                *)
RowsKept(w) == /\ UNCHANGED <<tasks, subs, owner>>
               /\ \A v \in Workers \ {w} : req'[v] = req[v] /\ pc'[v] = pc[v]

SameRequest(w) == /\ req'[w].op = req[w].op   /\ req'[w].task = req[w].task
                  /\ req'[w].sub = req[w].sub /\ req'[w].key = req[w].key
                  /\ req'[w].prior = req[w].prior

(* An answer is kept, withdrawn, or found under the request's key.         *)
Answered(w) ==
    \/ req'[w].outcome = req[w].outcome /\ req'[w].answer = req[w].answer
    \/ req'[w].outcome \notin {"receipt", "closed"} /\ req'[w].answer \in {None, req[w].answer}
    \/ /\ req'[w].outcome = "closed" /\ req'[w].answer = None
       /\ KeyHolders(w) = {} \/ ~Exists(req[w].task)
    \/ AnswerKnownKey(w, pc'[w])

Serves(w) ==
    \/ req'[w] = NoRequest /\ pc'[w] = "idle"
    \/ /\ pc[w] \notin {"idle", "reply"}
       /\ SameRequest(w)
       /\ Answered(w)
       /\ pc[w] = "retry" => KeyHolders(w) = {} \/ AnswerKnownKey(w, "reply")

(* A step that ends the request in an outcome, and one that only goes on.  *)
LEMMA Concluding ==
    ASSUME TypeOK, NEW w \in Workers, NEW l, NEW o, NEW s, Conclude(w, l, o, s),
           UNCHANGED <<tasks, subs, owner>>
    PROVE  /\ RowsKept(w) /\ SameRequest(w)
           /\ req'[w].outcome = o /\ req'[w].answer = s /\ pc'[w] = l
<1>1. req[w] \in Request
  BY DEF TypeOK
<1>2. req'[w] = [req[w] EXCEPT !.outcome = o, !.answer = s]
  BY DEF TypeOK, Conclude
<1>3. RowsKept(w) /\ pc'[w] = l
  BY DEF TypeOK, Conclude, Goto, RowsKept
<1> QED
  BY <1>1, <1>2, <1>3 DEF SameRequest, Request

LEMMA GoingOn ==
    ASSUME TypeOK, NEW w \in Workers, NEW l, Goto(w, l), UNCHANGED <<tasks, subs, owner, req>>
    PROVE  RowsKept(w) /\ SameRequest(w) /\ Answered(w) /\ pc'[w] = l
BY DEF TypeOK, Goto, RowsKept, SameRequest, Answered

LEMMA AnsweringKnownKey ==
    ASSUME TypeOK, NEW w \in Workers, NEW l, AnswerKnownKey(w, l),
           UNCHANGED <<tasks, subs, owner>>
    PROVE  RowsKept(w) /\ SameRequest(w) /\ Answered(w) /\ pc'[w] = l
<1>1. RowsKept(w) /\ SameRequest(w) /\ pc'[w] = l
  BY Concluding DEF AnswerKnownKey
<1> QED
  BY <1>1 DEF Answered

(* Every step of a worker between its request's arrival and its commit is  *)
(* of this shape.                                                          *)
LEMMA ServingSteps ==
    ASSUME TypeOK, NEW w \in Workers, Step(w) \/ Crash(w), ~Commits(w)
    PROVE  RowsKept(w) /\ Serves(w)
<1>1. req[w] \in Request
  BY DEF TypeOK
<1>2. CASE Reply(w) \/ Crash(w)
  BY <1>2 DEF Reply, Crash, Goto, RowsKept, Serves, TypeOK
<1>3. CASE Begin(w) \/ Undone(w) \/ DeleteFails(w)
  BY <1>3, GoingOn DEF Begin, Undone, DeleteFails, Serves
<1>4. CASE BeginTimesOut(w)
  <2>1. RowsKept(w) /\ SameRequest(w) /\ req'[w].outcome = "error" /\ req'[w].answer = None
    BY <1>4, Concluding DEF BeginTimesOut, Fail
  <2> QED
    BY <1>4, <2>1 DEF Serves, Answered, BeginTimesOut
<1>5. CASE Retry(w)
  <2>1. CASE AnswerKnownKey(w, "reply")
    BY <1>5, <2>1, AnsweringKnownKey DEF Retry, Serves
  <2>2. CASE KeyHolders(w) = {} /\ Conclude(w, "reply", "closed", None)
    <3>1. RowsKept(w) /\ SameRequest(w) /\ req'[w].outcome = "closed" /\ req'[w].answer = None
      BY <1>5, <2>2, Concluding DEF Retry
    <3> QED
      BY <1>5, <2>2, <3>1 DEF Serves, Answered, Retry
  <2>3. CASE KeyHolders(w) = {} /\ Goto(w, "again") /\ UNCHANGED req
    BY <1>5, <2>3, GoingOn DEF Retry, Serves
  <2> QED
    BY <1>5, <2>1, <2>2, <2>3 DEF Retry
<1>6. CASE Again(w)
  BY <1>6, GoingOn, AnsweringKnownKey DEF Again, Serves
<1>7. CASE CheckSpace(w) \/ PrepareFails(w) \/ TooLarge(w) \/ RecheckSpace(w)
  <2>1. ASSUME NEW o \in {"full", "error", "toolarge"}, Fail(w, o), UNCHANGED <<tasks, subs, owner>>
        PROVE  RowsKept(w) /\ SameRequest(w) /\ Answered(w)
    BY <2>1, Concluding DEF Fail, Answered
  <2> QED
    BY <1>7, <2>1, GoingOn DEF CheckSpace, PrepareFails, TooLarge, RecheckSpace, Serves
<1>8. CASE Prepare(w) \/ Move(w) \/ Undo(w)
  BY <1>8 DEF Prepare, Move, Undo, RowsKept, Serves, SameRequest, Answered
<1>9. CASE ClaimNonce(w) \/ RollBack(w)
  <2>1. ASSUME NEW o \in {"used", "error"}, Fail(w, o), UNCHANGED <<tasks, subs, owner>>
        PROVE  RowsKept(w) /\ SameRequest(w) /\ Answered(w)
    BY <2>1, Concluding DEF Fail, Answered
  <2> QED
    BY <1>9, <2>1, GoingOn DEF ClaimNonce, RollBack, Serves
<1>10. CASE Decide(w)
  <2>1. ASSUME Fail(w, "closed"), UNCHANGED <<tasks, subs, owner>>,
               KeyHolders(w) = {} \/ ~Exists(req[w].task)
        PROVE  RowsKept(w) /\ SameRequest(w) /\ Answered(w)
    BY <2>1, Concluding DEF Fail, Answered
  <2> QED
    BY <1>10, <2>1, GoingOn, AnsweringKnownKey DEF Decide, Serves
<1>11. CASE UndoFails(w)
  BY <1>1, <1>11 DEF UndoFails, TypeOK, RowsKept, Serves, SameRequest, Answered, Request
<1>12. CASE ListFiles(w) \/ StageFails(w)
  BY <1>1, <1>12 DEF ListFiles, StageFails, Goto, TypeOK, RowsKept, Serves, SameRequest,
     Answered, Request
<1>13. CASE Stage(w)
  <2>1. PICK F, G : \/ req' = [req EXCEPT ![w] = [req[w] EXCEPT !.files = F, !.staged = G]]
                    \/ req' = [req EXCEPT ![w] = [req[w] EXCEPT !.files = F, !.passed = G]]
    BY <1>13 DEF Stage
  <2>2. CASE req' = [req EXCEPT ![w] = [req[w] EXCEPT !.files = F, !.staged = G]]
    BY <1>1, <1>13, <2>2 DEF Stage, TypeOK, RowsKept, Serves, SameRequest, Answered, Request
  <2>3. CASE req' = [req EXCEPT ![w] = [req[w] EXCEPT !.files = F, !.passed = G]]
    BY <1>1, <1>13, <2>3 DEF Stage, TypeOK, RowsKept, Serves, SameRequest, Answered, Request
  <2> QED
    BY <2>1, <2>2, <2>3
<1>14. CASE Restore(w) \/ Purge(w)
  BY <1>1, <1>14 DEF Restore, Purge, TypeOK, RowsKept, Serves, SameRequest, Answered, Request
<1>15. CASE EndRestore(w)
  BY <1>1, <1>15 DEF EndRestore, Goto, TypeOK, RowsKept, Serves, SameRequest, Answered, Request
<1>16. CASE EndPurge(w)
  <2>1. CASE Conclude(w, "reply", "deleted", None)
    <3>1. RowsKept(w) /\ SameRequest(w) /\ req'[w].outcome = "deleted" /\ req'[w].answer = None
      BY <1>16, <2>1, Concluding DEF EndPurge
    <3> QED
      BY <1>16, <3>1 DEF Serves, Answered, EndPurge
  <2>2. CASE /\ Goto(w, "reply")
              /\ req' = [req EXCEPT ![w] = [@ EXCEPT !.outcome = "error", !.staged = {}]]
    BY <1>1, <1>16, <2>2
    DEF EndPurge, Goto, TypeOK, RowsKept, Serves, SameRequest, Answered, Request
  <2> QED
    BY <1>16, <2>1, <2>2 DEF EndPurge
<1> QED
  BY <1>2, <1>3, <1>4, <1>5, <1>6, <1>7, <1>8, <1>9, <1>10, <1>11, <1>12, <1>13, <1>14, <1>15,
     <1>16
  DEF Step, UploadStep, DeleteStep, Commits

-------------------------------------------------------------------------------
(* Rows, ids and answers under each kind of step.                          *)

LEMMA ServingKeepsPromises ==
    ASSUME PromiseInv, NEW w \in Workers, RowsKept(w), Serves(w)
    PROVE  Promises'
<1>1. ReferencesIntact'
  BY DEF PromiseInv, Promises, RowsKept, ReferencesIntact, Stored, Exists
<1>2. RowsFilled'
  BY DEF PromiseInv, Promises, RowsKept, RowsFilled, Stored
<1>3. IdsReserved'
  BY DEF PromiseInv, Promises, RowsKept, Serves, SameRequest, IdsReserved, Reserved, NoRequest, Ask
<1>4. ASSUME NEW v \in Workers, req'[v].outcome = "receipt"
      PROVE  (req[v].answer \in Subs /\ Meant(v, req[v].answer))'
  <2>1. CASE \/ v # w
             \/ /\ SameRequest(v)
                /\ req'[v].outcome = req[v].outcome /\ req'[v].answer = req[v].answer
    BY <1>4, <2>1 DEF PromiseInv, Promises, AnswersMeant, Answer, Meant, RowsKept,
       SameRequest, Stored
  <2>2. CASE v = w /\ SameRequest(v) /\ AnswerKnownKey(w, pc'[w])
    <3>1. PICK s \in KeyHolders(w) : subs[s].task = req[w].task /\ req'[w].answer = s
      BY <1>4, <2>2, Concluding DEF AnswerKnownKey, PromiseInv, Promises, KeyInv, RowsKept
    <3> QED
      BY <2>2, <3>1 DEF KeyHolders, Meant, RowsKept,
       SameRequest, Stored
  <2>3. CASE v = w /\ req'[w] = NoRequest
    BY <1>4, <2>3 DEF NoRequest, Ask
  <2> QED
    BY <1>4, <2>1, <2>2, <2>3 DEF Serves, Answered
<1>5. ASSUME NEW v \in Workers, req'[v].prior # None
      PROVE  (/\ req[v].op = "submit"
              /\ req[v].prior \in Subs
              /\ Meant(v, req[v].prior)
              /\ Stored(req[v].prior) =>
                    \/ pc[v] = "retry"
                    \/ /\ pc[v] = "reply" /\ req[v].outcome = "receipt"
                       /\ req[v].answer = req[v].prior)'
  <2>1. CASE v # w
    BY <1>5, <2>1 DEF PromiseInv, Promises, AnswersMeant, Answer, Meant, RowsKept, Stored
  <2>2. CASE v = w
    <3>1. /\ SameRequest(w) /\ pc[w] # "reply"
          /\ pc[w] = "retry" => KeyHolders(w) = {} \/ AnswerKnownKey(w, "reply")
      BY <1>5, <2>2 DEF Serves, NoRequest, Ask
    <3>2. req[w].prior # None /\ req'[w].prior = req[w].prior /\ req'[w].op = req[w].op
      BY <1>5, <2>2, <3>1 DEF SameRequest
    <3>3. Meant(w, req[w].prior)' /\ req[w].prior \in Subs /\ req[w].op = "submit"
      BY <3>1, <3>2 DEF PromiseInv, Promises, AnswersMeant, Answer, Meant, RowsKept,
       SameRequest, Stored
    <3>4. ASSUME Stored(req[w].prior)
          PROVE  pc'[w] = "reply" /\ req'[w].outcome = "receipt" /\ req'[w].answer = req[w].prior
      <4>1. pc[w] = "retry" /\ req[w].prior \in KeyHolders(w)
        BY <3>1, <3>2, <3>3, <3>4 DEF PromiseInv, Promises, AnswersMeant, Answer, Meant,
           KeyHolders, Stored
      <4>2. AnswerKnownKey(w, "reply") /\ subs[req[w].prior].task = req[w].task
        BY <3>1, <3>2, <3>4, <4>1 DEF PromiseInv, Promises, AnswersMeant, Answer, Meant, Stored
      <4>3. \A s \in KeyHolders(w) : s = req[w].prior
        BY <4>1 DEF PromiseInv, Promises, KeyInv, RowsUnique, KeyHolders
      <4>4. Conclude(w, "reply", "receipt", req[w].prior)
        BY <4>2, <4>3 DEF AnswerKnownKey
      <4> QED
        BY <4>4, Concluding DEF PromiseInv, Promises, KeyInv, RowsKept
    <3> QED
      BY <2>2, <3>2, <3>3, <3>4 DEF RowsKept, Stored
  <2> QED
    BY <2>1, <2>2
<1> QED
  BY <1>1, <1>3, <1>4, <1>5, <1>2 DEF Promises, AnswersMeant, Answer

LEMMA ArrivalsKeepPromises ==
    ASSUME PromiseInv, NEW w \in Workers, Arrives(w) PROVE Promises'
<1>1. ASSUME NEW l, NEW r, Arrive(w, l, r), r.outcome = "none", r.op # "none",
             r.op = "create" => /\ r.key \in Keys /\ tasks[r.task].status = "unused"
                                /\ \A v \in Workers : req[v].task # r.task,
             r.op = "submit" => /\ r.task \in Tasks /\ r.key \in Keys
                                /\ subs[r.sub].state = "unused"
                                /\ \A v \in Workers : req[v].sub # r.sub,
             r.op = "deltask" => tasks[r.task].status # "unused",
             r.prior # None => /\ r.op = "submit" /\ l = "retry"
                               /\ r.prior \in Subs /\ Stored(r.prior)
                               /\ subs[r.prior].task = r.task /\ subs[r.prior].key = r.key
      PROVE  Promises'
  <2>1. /\ UNCHANGED <<tasks, subs, owner>>
        /\ \A v \in Workers \ {w} : req'[v] = req[v] /\ pc'[v] = pc[v]
        /\ req'[w] = r /\ pc'[w] = l
    BY <1>1 DEF Arrive, Goto, PromiseInv, Promises, KeyInv, TypeOK
  <2>2. ReferencesIntact'
    BY <2>1 DEF PromiseInv, Promises, ReferencesIntact, Stored, Exists
  <2>3. RowsFilled'
    BY <2>1 DEF PromiseInv, Promises, RowsFilled, Stored
  <2>4. IdsReserved'
    BY <1>1, <2>1 DEF PromiseInv, Promises, IdsReserved, Reserved
  <2>5. AnswersMeant'
    BY <1>1, <2>1 DEF PromiseInv, Promises, AnswersMeant, Answer, Meant, Stored
  <2> QED
    BY <2>2, <2>4, <2>5, <2>3 DEF Promises
<1>2. CASE CreateArrives(w)
  BY <1>1, <1>2 DEF CreateArrives, Ask
<1>3. CASE SubmitArrives(w)
  BY <1>1, <1>3 DEF SubmitArrives, Ask
<1>4. CASE DeleteSubmissionArrives(w)
  BY <1>1, <1>4 DEF DeleteSubmissionArrives, Ask
<1>5. CASE DeleteTaskArrives(w)
  BY <1>1, <1>5 DEF DeleteTaskArrives, Exists, Ask
<1> QED
  BY <1>2, <1>3, <1>4, <1>5 DEF Arrives

(* Rows that are there are changed by nothing but a deletion, and what is  *)
(* deleted stays so: ids are not used again.                               *)
RowsPersist == \A s \in Subs :
    /\ Stored(s) => subs'[s] = subs[s] \/ subs'[s].state = "deleted"
    /\ subs[s].state = "deleted" => subs'[s].state = "deleted"

LEMMA MeantPersists ==
    ASSUME RowsPersist, NEW w \in Workers, NEW s \in Subs, Meant(w, s),
           req'[w].task = req[w].task, req'[w].key = req[w].key
    PROVE  Meant(w, s)'
BY DEF RowsPersist, Meant, Stored

(* A commit answers its own request at most; others keep what they had.    *)
LEMMA OthersKeepAnswers ==
    ASSUME PromiseInv, RowsPersist, NEW v \in Workers,
           req'[v] = req[v], pc'[v] = pc[v]
    PROVE  Answer(v)'
BY MeantPersists DEF PromiseInv, Promises, AnswersMeant, Answer, RowsPersist, Stored, Meant

LEMMA CommitTaskKeepsPromises ==
    ASSUME PromiseInv, NEW w \in Workers, CommitTask(w) PROVE Promises'
<1>1. TypeOK /\ Ownership /\ ReferencesIntact /\ RowsFilled /\ IdsReserved /\ AnswersMeant
  BY DEF PromiseInv, Promises, KeyInv
<1>2. /\ req[w].op = "create" /\ pc[w] = "move" /\ req[w].task \in Tasks /\ req[w].key \in Keys
      /\ tasks[req[w].task].status = "unused"
  BY <1>1 DEF CommitTask, Ownership, StepsApart, IdsReserved, Reserved
<1>3. /\ UNCHANGED subs
      /\ tasks' = [tasks EXCEPT ![req[w].task] = [status |-> "open", nonce |-> req[w].key]]
      /\ owner' = [f \in Files |-> IF f \in req[w].files THEN req[w].task ELSE owner[f]]
      /\ \A v \in Workers \ {w} : req'[v] = req[v] /\ pc'[v] = pc[v]
      /\ req'[w] = [req[w] EXCEPT !.outcome = "created", !.files = {}]
      /\ pc'[w] = "reply"
  BY <1>1 DEF CommitTask, Goto, TypeOK
<1>4. /\ SameRequest(w) /\ req'[w].outcome = "created"
  BY <1>1, <1>3 DEF TypeOK, Request, SameRequest
<1>5. \A v \in Workers : SameRequest(v)
  BY <1>3, <1>4 DEF SameRequest
<1>6. tasks'[req[w].task].status = "open" /\ \A t \in Tasks \ {req[w].task} : tasks'[t] = tasks[t]
  BY <1>1, <1>2, <1>3 DEF TypeOK
<1>7. RowsFilled'
  BY <1>1, <1>3 DEF RowsFilled, Stored
<1>8. ReferencesIntact'
  BY <1>1, <1>2, <1>3, <1>6 DEF ReferencesIntact, RowsFilled, Stored, Exists
<1>9. IdsReserved'
  <2>1. Reserved(w)'
    BY <1>1, <1>2, <1>3, <1>4 DEF IdsReserved, Reserved, SameRequest
  <2>2. ASSUME NEW v \in Workers \ {w} PROVE Reserved(v)'
    <3>1. req[v].op = "create" => req[v].task # req[w].task /\ req[v].task \in Tasks
      BY <1>1, <1>2 DEF IdsReserved, Reserved, Ownership, StepsApart
    <3>2. req[v].op = "deltask" => req[v].task \in Tasks
      BY <1>1 DEF Ownership, StepsApart
    <3> QED
      BY <1>1, <1>2, <1>3, <1>4, <1>6, <1>5, <3>1, <3>2 DEF IdsReserved, Reserved, SameRequest
  <2> QED
    BY <2>1, <2>2 DEF IdsReserved
<1>10. RowsPersist
  BY <1>3 DEF RowsPersist
<1>11. AnswersMeant'
  <2>1. req'[w].prior = None
    BY <1>1, <1>2, <1>4 DEF SameRequest, AnswersMeant, Answer
  <2>2. Answer(w)'
    BY <1>4, <2>1 DEF Answer
  <2> QED
    BY <1>3, <1>10, <2>2, OthersKeepAnswers DEF AnswersMeant
<1> QED
  BY <1>8, <1>9, <1>11, <1>7 DEF Promises

LEMMA CommitSubmissionKeepsPromises ==
    ASSUME PromiseInv, NEW w \in Workers, CommitSubmission(w) PROVE Promises'
<1>1. /\ TypeOK /\ Ownership /\ Found(w)
      /\ ReferencesIntact /\ RowsFilled /\ IdsReserved /\ AnswersMeant
  BY DEF PromiseInv, Promises, KeyInv, CommitSubmission
<1>2. /\ req[w].op = "submit" /\ pc[w] = "move" /\ req[w].sub \in Subs /\ req[w].task \in Tasks
      /\ subs[req[w].sub].state = "unused" /\ Exists(req[w].task)
  BY <1>1 DEF CommitSubmission, Ownership, StepsApart, IdsReserved, Reserved, Found, Exists
<1>3. /\ UNCHANGED tasks
      /\ subs' = [subs EXCEPT ![req[w].sub] = NewRow(w)]
      /\ owner' = [f \in Files |-> IF f \in req[w].files THEN req[w].sub ELSE owner[f]]
      /\ \A v \in Workers \ {w} : req'[v] = req[v] /\ pc'[v] = pc[v]
      /\ req'[w] = [req[w] EXCEPT !.outcome = "receipt", !.answer = req[w].sub, !.files = {}]
      /\ pc'[w] = "reply"
  BY <1>1 DEF CommitSubmission, Goto, TypeOK
<1>4. SameRequest(w) /\ req'[w].outcome = "receipt" /\ req'[w].answer = req[w].sub
  BY <1>1, <1>3 DEF TypeOK, Request, SameRequest
<1>5. \A v \in Workers : SameRequest(v)
  BY <1>3, <1>4 DEF SameRequest
<1>6. /\ subs'[req[w].sub] = NewRow(w) /\ Stored(req[w].sub)'
      /\ \A s \in Subs \ {req[w].sub} : subs'[s] = subs[s]
  BY <1>1, <1>2, <1>3 DEF TypeOK, NewRow, Stored
<1>7. ReferencesIntact'
  BY <1>1, <1>2, <1>3, <1>6 DEF ReferencesIntact, Stored, Exists, NewRow
<1>8. IdsReserved'
  <2>1. Reserved(w)'
    BY <1>1, <1>2, <1>3, <1>4 DEF IdsReserved, Reserved, SameRequest
  <2>2. ASSUME NEW v \in Workers \ {w} PROVE Reserved(v)'
    <3>1. req[v].op = "submit" => req[v].sub # req[w].sub /\ req[v].sub \in Subs
      BY <1>1, <1>2 DEF IdsReserved, Reserved, Ownership, StepsApart
    <3> QED
      BY <1>1, <1>2, <1>3, <1>4, <1>6, <1>5, <3>1 DEF IdsReserved, Reserved, SameRequest
  <2> QED
    BY <2>1, <2>2 DEF IdsReserved
<1>9. RowsFilled'
  BY <1>1, <1>2, <1>3, <1>6 DEF RowsFilled, NewRow, Stored, IdsReserved, Reserved
<1>10. RowsPersist
  BY <1>2, <1>6 DEF RowsPersist, Stored
<1>11. Meant(w, req[w].answer)'
  BY <1>4, <1>6 DEF Meant, NewRow, SameRequest, Stored
<1>12. req[w].prior # None =>
          /\ req[w].prior \in Subs /\ Meant(w, req[w].prior) /\ ~Stored(req[w].prior)
  BY <1>1, <1>2 DEF AnswersMeant, Answer
<1>13. req[w].prior # None =>
          /\ req'[w].prior \in Subs /\ Meant(w, req[w].prior)'
          /\ subs'[req[w].prior].state # "stored"
  BY <1>4, <1>10, <1>12, MeantPersists DEF SameRequest, Meant, RowsPersist
<1>14. Answer(w)'
  BY <1>2, <1>4, <1>11, <1>13 DEF Answer, SameRequest, Stored
<1>15. AnswersMeant'
  BY <1>3, <1>10, <1>14, OthersKeepAnswers DEF AnswersMeant
<1> QED
  BY <1>7, <1>8, <1>15, <1>9 DEF Promises

LEMMA CommitDeleteKeepsPromises ==
    ASSUME PromiseInv, NEW w \in Workers, CommitDelete(w) PROVE Promises'
<1>1. TypeOK /\ Ownership /\ ReferencesIntact /\ RowsFilled /\ IdsReserved /\ AnswersMeant
  BY DEF PromiseInv, Promises, KeyInv
<1>2. /\ pc[w] = "stage" /\ req[w].op \notin {"create", "submit"}
      /\ req[w].op = "deltask" => req[w].task \in Tasks /\ tasks[req[w].task].status # "unused"
  BY <1>1 DEF CommitDelete, Ownership, StepsApart, IdsReserved, Reserved, Uploads
<1>3. /\ \A s \in Subs : subs'[s] = IF s \in Doomed(w)
                                    THEN [state |-> "deleted", task |-> None, key |-> None]
                                    ELSE subs[s]
      /\ \A t \in Tasks : tasks'[t] = IF req[w].op = "deltask" /\ t = req[w].task
                                      THEN [status |-> "deleted", nonce |-> None]
                                      ELSE tasks[t]
      /\ \A f \in Files : owner'[f] = IF owner[f] \in Parents(w) THEN None ELSE owner[f]
      /\ \A v \in Workers : req'[v] = req[v]
      /\ \A v \in Workers \ {w} : pc'[v] = pc[v]
      /\ pc'[w] = "purge"
  BY <1>1 DEF CommitDelete, Goto, TypeOK
<1>4. \A s \in Doomed(w) : s \in Subs /\ Stored(s)
  BY <1>1, <1>2 DEF Doomed, Ownership, StepsApart
<1>5. ReferencesIntact'
  <2>1. ASSUME NEW s \in Subs, Stored(s)' PROVE Exists(subs[s].task)'
    BY <1>1, <1>2, <1>3, <2>1, ConstantsAssumption
    DEF ReferencesIntact, RowsFilled, Stored, Exists, Doomed
  <2>2. ASSUME NEW f \in Files, owner'[f] # None
        PROVE  (\/ owner[f] \in Tasks /\ Exists(owner[f])
                \/ owner[f] \in Subs /\ Stored(owner[f]))'
    BY <1>1, <1>2, <1>3, <2>2 DEF ReferencesIntact, Stored, Exists, Parents
  <2> QED
    BY <2>1, <2>2 DEF ReferencesIntact
<1>6. RowsFilled'
  BY <1>1, <1>3 DEF RowsFilled, Stored
<1>7. IdsReserved'
  <2>1. ASSUME NEW v \in Workers PROVE Reserved(v)'
    <3>1. /\ req[v].op \in {"create", "deltask"} => req[v].task \in Tasks
          /\ req[v].op = "submit" => req[v].sub \in Subs
          /\ pc'[v] = "reply" <=> pc[v] = "reply"
      BY <1>1, <1>2, <1>3 DEF Ownership, StepsApart
    <3>2. req'[v] = req[v] /\ Reserved(v)
      BY <1>1, <1>3 DEF IdsReserved
    <3> QED
      BY <1>2, <1>3, <1>4, <3>1, <3>2 DEF Reserved, Stored
  <2> QED
    BY <2>1 DEF IdsReserved
<1>8. RowsPersist
  BY <1>3, <1>4 DEF RowsPersist, Stored
<1>9. AnswersMeant'
  <2>1. /\ req[w].prior = None
        /\ req[w].outcome = "receipt" => req[w].answer \in Subs /\ Meant(w, req[w].answer)
    BY <1>1, <1>2 DEF AnswersMeant, Answer
  <2>2. Answer(w)'
    BY <1>3, <1>8, <2>1, MeantPersists DEF Answer
  <2> QED
    BY <1>3, <1>8, <2>2, OthersKeepAnswers DEF AnswersMeant
<1> QED
  BY <1>5, <1>7, <1>9, <1>6 DEF Promises

(* A status is changed only of a task that is there.                       *)
LEMMA SetStatusSteps ==
    ASSUME CloseTask \/ ReopenTask \/ CloseAll
    PROVE  \E T \in SUBSET Tasks, st \in {"open", "closed"} :
              (\A t \in T : Exists(t)) /\ SetStatus(T, st)
<1>1. CASE CloseTask \/ ReopenTask
  <2>1. PICK t \in Tasks, st \in {"open", "closed"} : Exists(t) /\ SetStatus({t}, st)
    BY <1>1 DEF CloseTask, ReopenTask
  <2> QED
    BY <2>1
<1>2. CASE CloseAll
  <2>1. \A t \in {u \in Tasks : tasks[u].status = "open"} : Exists(t)
    BY DEF Exists
  <2> QED
    BY <1>2, <2>1 DEF CloseAll
<1> QED
  BY <1>1, <1>2

LEMMA SetStatusKeepsPromises ==
    ASSUME PromiseInv, NEW T \in SUBSET Tasks, NEW st \in {"open", "closed"},
           \A t \in T : Exists(t), SetStatus(T, st)
    PROVE  Promises'
<1>1. TypeOK /\ Ownership /\ ReferencesIntact /\ RowsFilled /\ IdsReserved /\ AnswersMeant
  BY DEF PromiseInv, Promises, KeyInv
<1>2. UNCHANGED <<subs, owner, pc, req>>
  BY DEF SetStatus
<1>3. \A t \in Tasks : /\ Exists(t)' <=> Exists(t)
                       /\ tasks'[t].status = "unused" <=> tasks[t].status = "unused"
  BY <1>1 DEF SetStatus, Exists, TypeOK, TaskRow
<1>4. \A t \in Tasks : tasks'[t].status = "deleted" => tasks'[t] = tasks[t]
  BY <1>1 DEF SetStatus, Exists, TypeOK, TaskRow
<1>5. ReferencesIntact'
  BY <1>1, <1>2, <1>3 DEF ReferencesIntact, RowsFilled, Stored, Exists
<1>6. RowsFilled'
  BY <1>1, <1>2, <1>4 DEF RowsFilled, Stored
<1>7. ASSUME NEW w \in Workers PROVE Reserved(w)'
  <2>1. req[w].op \in {"create", "deltask"} => req[w].task \in Tasks
    BY <1>1 DEF Ownership, StepsApart
  <2>2. Reserved(w)
    BY <1>1 DEF IdsReserved
  <2>3. \A t \in Tasks : tasks'[t].status = "unused" <=> tasks[t].status = "unused"
    BY <1>3
  <2> QED
    BY <1>2, <2>1, <2>2, <2>3 DEF Reserved
<1>8. AnswersMeant'
  BY <1>1, <1>2 DEF AnswersMeant, Answer, Meant, Stored
<1> QED
  BY <1>6, <1>7, <1>8, <1>5 DEF Promises, IdsReserved

LEMMA PromisesInductive == PromiseInv /\ [Next]_vars => Promises'
<1> SUFFICES ASSUME PromiseInv, [Next]_vars PROVE Promises'
  OBVIOUS
<1>1. ASSUME NEW w \in Workers, Commits(w) PROVE Promises'
  BY <1>1, CommitTaskKeepsPromises, CommitSubmissionKeepsPromises, CommitDeleteKeepsPromises
  DEF Commits
<1>2. ASSUME NEW w \in Workers, Step(w) \/ Crash(w), ~Commits(w) PROVE Promises'
  BY <1>2, ServingSteps, ServingKeepsPromises DEF PromiseInv, KeyInv
<1>3. ASSUME NEW w \in Workers, Arrives(w) PROVE Promises'
  BY <1>3, ArrivalsKeepPromises
<1>4. CASE CloseTask \/ ReopenTask \/ CloseAll
  BY <1>4, SetStatusSteps, SetStatusKeepsPromises
<1>5. CASE UNCHANGED vars
  BY <1>5 DEF vars, PromiseInv, Promises, ReferencesIntact, RowsFilled, IdsReserved, Reserved,
     AnswersMeant, Answer, Meant, Stored, Exists
<1> QED
  BY <1>1, <1>2, <1>3, <1>4, <1>5 DEF Next

LEMMA InitPromised == Init => PromiseInv
<1>1. Init => Promises
  BY ConstantsAssumption DEF Init, Promises, ReferencesIntact, RowsFilled, IdsReserved, Reserved,
     AnswersMeant, Answer, Stored, Exists, NoRequest, Ask
<1> QED
  BY <1>1, InitKeyed DEF PromiseInv

LEMMA PromiseInductive == PromiseInv /\ [Next]_vars => PromiseInv'
BY KeyInvInductive, PromisesInductive DEF PromiseInv

LEMMA PromiseInvariant == Spec => []PromiseInv
BY InitPromised, PromiseInductive, PTL DEF Spec

(* Foreign keys hold although uploads, closings and deletions overlap.     *)
THEOREM ForeignKeysIntact == Spec => []ReferencesIntact
<1>1. PromiseInv => ReferencesIntact
  BY DEF PromiseInv, Promises
<1> QED
  BY <1>1, PromiseInvariant, PTL

(* A browser that asks again gets the receipt of the hand-in it has stored,*)
(* whatever happened to its task and to the disk meanwhile.                *)
THEOREM RetryAnswered == Spec => []RetryGetsReceipt
<1>1. PromiseInv => RetryGetsReceipt
  BY DEF PromiseInv, Promises, AnswersMeant, Answer, RetryGetsReceipt
<1> QED
  BY <1>1, PromiseInvariant, PTL

(* A receipt is never given for a hand-in that was not stored.             *)
THEOREM ReceiptsGenuine == Spec => []ReceiptsTrue
<1>1. PromiseInv => ReceiptsTrue
  BY DEF PromiseInv, Promises, AnswersMeant, Answer, Meant, Stored, ReceiptsTrue
<1> QED
  BY <1>1, PromiseInvariant, PTL

(* Nobody whose hand-in is stored is told that the task is closed.         *)
THEOREM ClosedToUnknownKeys == Spec => ClosedOnlyUnknownKeys
<1> DEFINE A == \A w \in Workers :
                   req[w].op = "submit" /\ req[w].outcome # "closed" /\ req'[w].outcome = "closed"
                   => ~ \E s \in KeyHolders(w) : subs[s].task = req[w].task
<1>1. PromiseInv /\ [Next]_vars => [A]_vars
  <2> SUFFICES ASSUME PromiseInv, [Next]_vars, NEW w \in Workers, req[w].op = "submit",
                      req[w].outcome # "closed", req'[w].outcome = "closed",
                      NEW s \in KeyHolders(w), subs[s].task = req[w].task
               PROVE  FALSE
    OBVIOUS
  <2>1. KeyHolders(w) # {} /\ Exists(req[w].task)
    BY DEF KeyHolders, PromiseInv, Promises, ReferencesIntact
  <2>2. ~Commits(w)
    BY DEF Commits, CommitTask, CommitSubmission, CommitDelete, PromiseInv, KeyInv, TypeOK, Request
  <2>3. CASE Step(w) \/ Crash(w)
    <3>1. Serves(w)
      BY <2>2, <2>3, ServingSteps DEF PromiseInv, KeyInv
    <3>2. AnswerKnownKey(w, pc'[w])
      BY <2>1, <3>1 DEF Serves, Answered, NoRequest, Ask
    <3> QED
      BY <3>2 DEF AnswerKnownKey, Conclude, PromiseInv, KeyInv, TypeOK, Request
  <2>4. CASE Arrives(w)
    BY <2>4 DEF Arrives, CreateArrives, SubmitArrives, DeleteSubmissionArrives, DeleteTaskArrives,
       Arrive, Ask, PromiseInv, KeyInv, TypeOK
  <2>5. ASSUME NEW v \in Workers \ {w}, Arrives(v) \/ Step(v) \/ Crash(v) PROVE FALSE
    <3>1. req'[w] = req[w]
      BY <2>5, OtherSteps DEF CommitTask, CommitSubmission, CommitDelete, PromiseInv, KeyInv, TypeOK
    <3> QED
      BY <3>1
  <2>6. CASE CloseTask \/ ReopenTask \/ CloseAll \/ UNCHANGED vars
    BY <2>6 DEF CloseTask, ReopenTask, CloseAll, SetStatus, vars
  <2> QED
    BY <2>3, <2>4, <2>5, <2>6 DEF Next
<1> QED
  BY <1>1, PromiseInvariant, PTL DEF Spec, ClosedOnlyUnknownKeys

-------------------------------------------------------------------------------
(* The core implements DropBox: each commit is one of its operations, each *)
(* answer one it may give, and every other step stutters.                  *)

Answers == [w \in Workers |-> req[w].answer]

LEMMA BoxStutters ==
    ASSUME UNCHANGED <<tasks, subs, owner>>, Answers' = Answers
    PROVE  UNCHANGED Box!box
BY DEF Answers, Box!box

LEMMA BoxForgets ==
    ASSUME NEW w \in Workers, UNCHANGED <<tasks, subs, owner>>,
           Answers' = [Answers EXCEPT ![w] = None]
    PROVE  Box!Next
BY DEF Answers, Box!Next, Box!Forget

LEMMA BoxRepeats ==
    ASSUME NEW w \in Workers, NEW s \in Subs, Stored(s), UNCHANGED <<tasks, subs, owner>>,
           Answers' = [Answers EXCEPT ![w] = s]
    PROVE  Box!Next
BY DEF Answers, Stored, Box!Next, Box!Repeat, Box!Stored

(* What a request makes of its own answer is all that changes there.       *)
LEMMA AnswersOf ==
    ASSUME TypeOK, NEW w \in Workers, \A v \in Workers \ {w} : req'[v] = req[v]
    PROVE  Answers' = [Answers EXCEPT ![w] = req'[w].answer]
BY DEF Answers

LEMMA ServingImplements ==
    ASSUME PromiseInv, NEW w \in Workers, RowsKept(w), Serves(w)
    PROVE  [Box!Next]_Box!box
<1>1. TypeOK /\ UNCHANGED <<tasks, subs, owner>> /\ \A v \in Workers \ {w} : req'[v] = req[v]
  BY DEF PromiseInv, KeyInv, RowsKept
<1>2. Answers' = [Answers EXCEPT ![w] = req'[w].answer]
  BY <1>1, AnswersOf
<1>3. CASE req'[w].answer = None
  BY <1>1, <1>2, <1>3, BoxForgets
<1>4. CASE req'[w].answer = req[w].answer
  BY <1>1, <1>2, <1>4, BoxStutters DEF Answers
<1>5. CASE AnswerKnownKey(w, pc'[w])
  <2>1. PICK s \in KeyHolders(w) : req'[w].answer \in {s, None}
    BY <1>1, <1>5, Concluding DEF AnswerKnownKey
  <2> QED
    BY <1>1, <1>2, <1>3, <2>1, BoxRepeats DEF KeyHolders
<1> QED
  BY <1>3, <1>4, <1>5 DEF Serves, Answered, NoRequest, Ask

LEMMA CommitTaskImplements ==
    ASSUME PromiseInv, NEW w \in Workers, CommitTask(w) PROVE Box!Next
<1>1. TypeOK /\ Ownership /\ IdsReserved /\ Found(w)
  BY DEF PromiseInv, Promises, KeyInv, CommitTask
<1>2. /\ req[w].op = "create" /\ req[w].task \in Tasks /\ req[w].key \in Keys
      /\ tasks[req[w].task].status = "unused"
      /\ req[w].files \in SUBSET Files /\ \A f \in req[w].files : owner[f] = None
  BY <1>1 DEF CommitTask, Ownership, StepsApart, IdsReserved, Reserved, UploadsOwn, Uploads,
     TypeOK, Request
<1>3. Answers' = Answers
  BY <1>1 DEF Answers, CommitTask, TypeOK, Request
<1>4. Box!Create(req[w].task, req[w].key, req[w].files)
  BY <1>1, <1>2, <1>3 DEF CommitTask, Found, Exists, Answers, Box!Create, Box!Attach, Box!Exists
<1> QED
  BY <1>2, <1>4 DEF Box!Next

LEMMA CommitSubmissionImplements ==
    ASSUME PromiseInv, NEW w \in Workers, CommitSubmission(w) PROVE Box!Next
<1>1. TypeOK /\ Ownership /\ IdsReserved /\ Found(w)
  BY DEF PromiseInv, Promises, KeyInv, CommitSubmission
<1>2. /\ req[w].op = "submit" /\ req[w].task \in Tasks /\ req[w].key \in Keys
      /\ req[w].sub \in Subs /\ subs[req[w].sub].state = "unused"
      /\ req[w].files \in SUBSET Files /\ \A f \in req[w].files : owner[f] = None
  BY <1>1 DEF CommitSubmission, Ownership, StepsApart, IdsReserved, Reserved, UploadsOwn, Uploads,
     TypeOK, Request
<1>3. Answers' = [Answers EXCEPT ![w] = req[w].sub]
  BY <1>1 DEF Answers, CommitSubmission, TypeOK, Request
<1>4. ASSUME NEW s \in Subs, s = req[w].sub, NEW t \in Tasks, t = req[w].task,
             NEW k \in Keys, k = req[w].key, NEW F \in SUBSET Files, F = req[w].files
      PROVE  Box!Next
  <2>1. Box!Accept(w, s, t, k, F)
    BY <1>1, <1>2, <1>3, <1>4
    DEF CommitSubmission, NewRow, Found, KeyHolders, Stored, Answers, Box!Accept,
        Box!Attach, Box!Stored
  <2> QED
    BY <2>1 DEF Box!Next
<1> QED
  BY <1>2, <1>4

LEMMA CommitDeleteImplements ==
    ASSUME PromiseInv, NEW w \in Workers, CommitDelete(w) PROVE [Box!Next]_Box!box
<1>1. TypeOK /\ Ownership
  BY DEF PromiseInv, KeyInv
<1>2. Answers' = Answers /\ ~Uploads(w)
  BY <1>1 DEF Answers, CommitDelete, Ownership, StepsApart
<1>3. CASE req[w].op = "deltask" /\ Exists(req[w].task)
  <2>1. req[w].task \in Tasks /\ Doomed(w) = {s \in Subs : Stored(s) /\ subs[s].task = req[w].task}
    BY <1>1, <1>3 DEF Doomed, Ownership, StepsApart
  <2>2. Box!Remove({req[w].task}, {s \in Subs : Stored(s) /\ subs[s].task = req[w].task})
    BY <1>1, <1>2, <1>3, <2>1
    DEF CommitDelete, Parents, Stored, TypeOK, Answers, Box!Remove, Box!Stored
  <2> QED
    BY <1>3, <2>1, <2>2 DEF Exists, Stored, Box!Next, Box!Exists, Box!Stored
<1>4. CASE req[w].op = "delsub" /\ Stored(req[w].sub)
  <2>1. req[w].sub \in Subs /\ Doomed(w) = {req[w].sub}
    BY <1>1, <1>4 DEF Doomed, Ownership, StepsApart
  <2>2. Box!Remove({}, {req[w].sub})
    BY <1>1, <1>2, <1>4, <2>1
    DEF CommitDelete, Parents, TypeOK, Answers, Box!Remove, Box!Stored
  <2> QED
    BY <1>4, <2>1, <2>2 DEF Stored, Box!Next, Box!Stored
<1>5. CASE req[w].op = "delsub" /\ ~Stored(req[w].sub)
  <2>1. Doomed(w) = {} /\ Parents(w) = {}
    BY <1>5 DEF Doomed, Parents
  <2>2. UNCHANGED <<tasks, subs, owner>>
    BY <1>1, <1>5, <2>1 DEF CommitDelete, TypeOK
  <2> QED
    BY <1>2, <2>2, BoxStutters
<1>6. CASE req[w].op = "deltask" /\ ~Exists(req[w].task)
  <2>1. /\ req[w].task \in Tasks /\ tasks[req[w].task] \in TaskRow
        /\ tasks[req[w].task].status # "unused"
    BY <1>1, <1>6 DEF Ownership, StepsApart, TypeOK, PromiseInv, Promises, IdsReserved, Reserved
  <2>2. tasks[req[w].task] = [status |-> "deleted", nonce |-> None]
    BY <1>6, <2>1 DEF TaskRow, Exists, PromiseInv, Promises, RowsFilled
  <2>3. Doomed(w) = {} /\ \A f \in Files : owner[f] \notin Parents(w)
    BY <1>6, <2>1, ConstantsAssumption
    DEF Doomed, Parents, PromiseInv, Promises, ReferencesIntact
  <2>4. UNCHANGED <<tasks, subs, owner>>
    BY <1>1, <1>6, <2>2, <2>3 DEF CommitDelete, TypeOK
  <2> QED
    BY <1>2, <2>4, BoxStutters
<1>7. req[w].op \in {"delsub", "deltask"}
  BY <1>1, <1>2 DEF PromiseInv, Promises, IdsReserved, Reserved, TypeOK, Request, CommitDelete,
     Uploads
<1> QED
  BY <1>3, <1>4, <1>5, <1>6, <1>7

LEMMA SetStatusImplements ==
    ASSUME NEW T \in SUBSET Tasks, NEW st \in {"open", "closed"},
           \A t \in T : Exists(t), SetStatus(T, st)
    PROVE  Box!Next
<1>1. Box!SetStatus(T, st)
  BY DEF SetStatus, Exists, Box!SetStatus, Box!Exists
<1> QED
  BY <1>1 DEF Box!Next

LEMMA ArrivalsImplement ==
    ASSUME TypeOK, NEW w \in Workers, Arrives(w) PROVE Box!Next
<1>1. ASSUME NEW l, NEW r, Arrive(w, l, r), r.answer = None PROVE Box!Next
  <2>1. /\ UNCHANGED <<tasks, subs, owner>> /\ req'[w].answer = None
        /\ \A v \in Workers \ {w} : req'[v] = req[v]
    BY <1>1 DEF Arrive, TypeOK
  <2> QED
    BY <2>1, AnswersOf, BoxForgets
<1>2. CASE CreateArrives(w)
  BY <1>1, <1>2 DEF CreateArrives, Ask
<1>3. CASE SubmitArrives(w)
  BY <1>1, <1>3 DEF SubmitArrives, Ask
<1>4. CASE DeleteSubmissionArrives(w)
  BY <1>1, <1>4 DEF DeleteSubmissionArrives, Ask
<1>5. CASE DeleteTaskArrives(w)
  BY <1>1, <1>5 DEF DeleteTaskArrives, Ask
<1> QED
  BY <1>2, <1>3, <1>4, <1>5 DEF Arrives

LEMMA StepsImplement == PromiseInv /\ [Next]_vars => [Box!Next]_Box!box
<1> SUFFICES ASSUME PromiseInv, [Next]_vars PROVE [Box!Next]_Box!box
  OBVIOUS
<1>1. ASSUME NEW w \in Workers, Commits(w) PROVE [Box!Next]_Box!box
  BY <1>1, CommitTaskImplements, CommitSubmissionImplements, CommitDeleteImplements DEF Commits
<1>2. ASSUME NEW w \in Workers, Step(w) \/ Crash(w), ~Commits(w) PROVE [Box!Next]_Box!box
  BY <1>2, ServingSteps, ServingImplements DEF PromiseInv, KeyInv
<1>3. ASSUME NEW w \in Workers, Arrives(w) PROVE [Box!Next]_Box!box
  BY <1>3, ArrivalsImplement DEF PromiseInv, KeyInv
<1>4. CASE CloseTask \/ ReopenTask \/ CloseAll
  BY <1>4, SetStatusSteps, SetStatusImplements
<1>5. CASE UNCHANGED vars
  BY <1>5, BoxStutters DEF vars, Answers
<1> QED
  BY <1>1, <1>2, <1>3, <1>4, <1>5 DEF Next

(* Every behaviour of the core is one of DropBox, whatever fails.          *)
THEOREM CoreImplementsDropBox == Spec => ImplementsDropBox
<1>1. Init => Box!Init
  BY DEF Init, NoRequest, Ask, Box!Init
<1>2. PromiseInv /\ [Next]_vars => [Box!Next]_Box!box
  BY StepsImplement
<1> QED
  BY <1>1, <1>2, PromiseInvariant, PTL DEF Spec, ImplementsDropBox, Box!Spec
===============================================================================
