-------------------------------- MODULE HandIn --------------------------------
(***************************************************************************)
(* The hand-in core of TaskDropBox: the web workers that create a task,    *)
(* accept a submission, and delete a submission or a task, over one SQLite *)
(* database with IMMEDIATE transactions and one private file area          *)
(* (drops/services.py, drops/storage.py, the handlers of drops/views.py).  *)
(*                                                                         *)
(* A transaction's writes become visible at its commit: the write lock is  *)
(* held from BEGIN IMMEDIATE on, so until then nobody but its owner could  *)
(* tell.  The file area has no transactions: every rename and unlink is a  *)
(* step of its own.  A file stands for its bytes, its uuid name and one    *)
(* unit of disk space.  Row ids are UUIDs and never reused; a request      *)
(* arrives only while an unused id and unused files are left for it, which *)
(* is the bound on the number of rows.                                     *)
(***************************************************************************)
EXTENDS Naturals, FiniteSets

CONSTANTS
    Workers,    \* gunicorn sync workers, one request each at a time
    Tasks,      \* ids of task rows
    Subs,       \* ids of submission rows; the id stands for the receipt too
    Keys,       \* nonces of the creation form, idempotency keys of the other
    Files,      \* uploaded files
    None,       \* no task, submission, key or worker
    Capacity,   \* files the disk has room for
    Reserve,    \* MIN_FREE_DISK_BYTES, in files
    MaxFiles,   \* files one form may carry
    Faults,     \* what may go wrong: see FaultKinds
    Offered     \* requests the environment sends: see Operations

FaultKinds == {"crash",     \* a worker is killed inside a request
               "db",        \* a statement or the COMMIT raises
               "os",        \* a rename, write or unlink raises
               "oversize"}  \* the bodies exceed a limit the form did not check

Operations == {"create", "submit", "delsub", "deltask", "close", "reopen"}

ASSUME ConstantsAssumption ==
    /\ None \notin Workers \cup Tasks \cup Subs \cup Keys \cup Files
    /\ Tasks \cap Subs = {}
    /\ Faults \subseteq FaultKinds
    /\ Offered \subseteq Operations

ASSUME SpaceAssumption ==
    /\ IsFiniteSet(Files)
    /\ Capacity \in Nat
    /\ Reserve \in Nat
    /\ Reserve <= Capacity
    /\ MaxFiles \in Nat

VARIABLES
    tasks,      \* Task rows
    subs,       \* Submission rows
    owner,      \* TaskAttachment and SubmissionFile rows: file -> its parent
    disk,       \* where a file's bytes are: .tmp, its final name, .trash
    lock,       \* who holds SQLite's write lock
    pc,         \* where each worker stands in its request
    req         \* the request each worker serves and its local variables

db   == <<tasks, subs, owner>>
vars == <<tasks, subs, owner, disk, lock, pc, req>>

Outcomes == {"none", "created", "receipt", "deleted",
             "closed", "notfound", "used", "full", "toolarge", "error"}

Controls == {"idle", "retry", "again", "space", "prepare", "begin", "txn", "move",
             "undo", "stage", "unstage", "restore", "purge", "reply"}

TaskRow == [status : {"unused", "open", "closed", "deleted"}, nonce : Keys \cup {None}]
SubRow  == [state : {"unused", "stored", "deleted"},
            task : Tasks \cup {None}, key : Keys \cup {None}]

Request == [op      : {"none", "create", "submit", "delsub", "deltask"},
            task    : Tasks \cup {None},
            sub     : Subs \cup {None},
            key     : Keys \cup {None},
            files   : SUBSET Files,       \* uploads; or names still to stage
            staged  : SUBSET Files,       \* moved to this worker's trash
            passed  : SUBSET Files,       \* ghost: listed, but not under their names
            seen    : {"unused", "open", "closed", "deleted"},  \* status as first read
            prior   : Subs \cup {None},   \* ghost: the key's submission on arrival
            outcome : Outcomes,
            answer  : Subs \cup {None}]   \* receipt the browser is redirected to

Ask(op, t, s, k, F, status, p) ==
    [op |-> op, task |-> t, sub |-> s, key |-> k, files |-> F, staged |-> {},
     passed |-> {}, seen |-> status, prior |-> p, outcome |-> "none", answer |-> None]

NoRequest == Ask("none", None, None, None, {}, "unused", None)

TypeOK ==
    /\ tasks \in [Tasks -> TaskRow]
    /\ subs \in [Subs -> SubRow]
    /\ owner \in [Files -> Tasks \cup Subs \cup {None}]
    /\ disk \in [Files -> {"absent", "tmp", "live", "trash"}]
    /\ lock \in Workers \cup {None}
    /\ pc \in [Workers -> Controls]
    /\ req \in [Workers -> Request]

Init ==
    /\ tasks = [t \in Tasks |-> [status |-> "unused", nonce |-> None]]
    /\ subs = [s \in Subs |-> [state |-> "unused", task |-> None, key |-> None]]
    /\ owner = [f \in Files |-> None]
    /\ disk = [f \in Files |-> "absent"]
    /\ lock = None
    /\ pc = [w \in Workers |-> "idle"]
    /\ req = [w \in Workers |-> NoRequest]

-------------------------------------------------------------------------------
Exists(t) == tasks[t].status \in {"open", "closed"}
Stored(s) == subs[s].state = "stored"

Used    == {f \in Files : disk[f] # "absent"}
Room(n) == Cardinality(Used) + n + Reserve <= Capacity

Uploads(w) == req[w].op \in {"create", "submit"}

(* Files nothing refers to: not on disk and in no request.                 *)
FreshFiles == {f \in Files : /\ disk[f] = "absent"
                             /\ \A w \in Workers : f \notin req[w].files \cup req[w].staged}

Goto(w, l) == pc' = [pc EXCEPT ![w] = l]

(* The request has its answer; what it leaves behind is cleaned up at l.   *)
Conclude(w, l, outcome, s) ==
    /\ Goto(w, l)
    /\ req' = [req EXCEPT ![w] = [@ EXCEPT !.outcome = outcome, !.answer = s]]

Fail(w, outcome) == Conclude(w, "undo", outcome, None)

-------------------------------------------------------------------------------
(* The POST of a form arrives and its handler reads the row it is about;   *)
(* a row that is not there is a 404 and changes nothing.                   *)

Arrive(w, l, r) ==
    /\ pc[w] = "idle"
    /\ r.op \in Offered
    /\ Goto(w, l)
    /\ req' = [req EXCEPT ![w] = r]
    /\ UNCHANGED <<tasks, subs, owner, disk, lock>>

CreateArrives(w) ==
    \E t \in Tasks, n \in Keys, F \in SUBSET FreshFiles :
        /\ tasks[t].status = "unused"
        /\ \A v \in Workers : req[v].task # t
        /\ Cardinality(F) <= MaxFiles
        /\ Arrive(w, "space", Ask("create", t, None, n, F, "unused", None))

SubmitArrives(w) ==
    \E t \in Tasks, s \in Subs, k \in Keys, p \in Subs \cup {None}, F \in SUBSET FreshFiles :
        /\ Exists(t)
        /\ subs[s].state = "unused"
        /\ \A v \in Workers : req[v].sub # s
        /\ Cardinality(F) <= MaxFiles
        /\ IF p = None THEN \A x \in Subs : ~(Stored(x) /\ subs[x].key = k /\ subs[x].task = t)
                       ELSE Stored(p) /\ subs[p].key = k /\ subs[p].task = t
        /\ Arrive(w, "retry", Ask("submit", t, s, k, F, tasks[t].status, p))

DeleteSubmissionArrives(w) ==
    \E s \in Subs :
        /\ Stored(s)
        /\ Arrive(w, "begin", Ask("delsub", subs[s].task, s, None, {}, "unused", None))

DeleteTaskArrives(w) ==
    \E t \in Tasks :
        /\ Exists(t)
        /\ Arrive(w, "begin", Ask("deltask", t, None, None, {}, "unused", None))

-------------------------------------------------------------------------------
(* submit_task: a key that is known ends the request before its task's     *)
(* status, the space or the uploads are looked at.                         *)

KeyHolders(w) == {s \in Subs : Stored(s) /\ subs[s].key = req[w].key}

AnswerAnyTask(w, l) ==    \* mutant: the key's task is not compared
    \E s \in KeyHolders(w) : Conclude(w, l, "receipt", s)

(* existing_submission: the receipt, or 404 for another task's key.        *)
AnswerKnownKey(w, l) ==
    \E s \in KeyHolders(w) :
        IF subs[s].task = req[w].task THEN Conclude(w, l, "receipt", s)
                                      ELSE Conclude(w, l, "notfound", None)

RetryIfOpen(w) ==         \* mutant: a closed task turns a retry away
    /\ pc[w] = "retry"
    /\ IF req[w].seen # "open" THEN Conclude(w, "reply", "closed", None)
       ELSE \/ AnswerKnownKey(w, "reply")
            \/ KeyHolders(w) = {} /\ Goto(w, "again") /\ UNCHANGED req
    /\ UNCHANGED <<tasks, subs, owner, disk, lock>>

Retry(w) ==
    /\ pc[w] = "retry"
    /\ \/ AnswerKnownKey(w, "reply")
       \/ /\ KeyHolders(w) = {}
          /\ IF req[w].seen = "open" THEN Goto(w, "again") /\ UNCHANGED req
                                     ELSE Conclude(w, "reply", "closed", None)
    /\ UNCHANGED <<tasks, subs, owner, disk, lock>>

Again(w) ==
    /\ pc[w] = "again"
    /\ \/ AnswerKnownKey(w, "reply")
       \/ KeyHolders(w) = {} /\ Goto(w, "space") /\ UNCHANGED req
    /\ UNCHANGED <<tasks, subs, owner, disk, lock>>

-------------------------------------------------------------------------------
(* create_task and create_submission: room for the declared sizes, each    *)
(* upload streamed to .tmp, and room once more now that they are there.    *)

Unprepared(w) == {f \in req[w].files : disk[f] = "absent"}

CheckSpace(w) ==
    /\ pc[w] = "space"
    /\ IF Room(Cardinality(req[w].files)) THEN Goto(w, "prepare") /\ UNCHANGED req
                                          ELSE Fail(w, "full")
    /\ UNCHANGED <<tasks, subs, owner, disk, lock>>

Prepare(w) ==
    /\ pc[w] = "prepare"
    /\ Cardinality(Used) < Capacity
    /\ \E f \in Unprepared(w) : disk' = [disk EXCEPT ![f] = "tmp"]
    /\ UNCHANGED <<tasks, subs, owner, lock, pc, req>>

(* The write raises, for want of space or otherwise; its own temporary     *)
(* file is already unlinked when the exception leaves prepare_upload.      *)
PrepareFails(w) ==
    /\ pc[w] = "prepare"
    /\ Unprepared(w) # {}
    /\ Cardinality(Used) >= Capacity \/ "os" \in Faults
    /\ Fail(w, "error")
    /\ UNCHANGED <<tasks, subs, owner, disk, lock>>

TooLarge(w) ==
    /\ pc[w] = "prepare"
    /\ "oversize" \in Faults
    /\ req[w].files # {}
    /\ Fail(w, "toolarge")
    /\ UNCHANGED <<tasks, subs, owner, disk, lock>>

CheckedOnce(w) ==         \* mutant: no second ensure_space
    /\ pc[w] = "prepare"
    /\ Unprepared(w) = {}
    /\ Goto(w, "begin")
    /\ UNCHANGED <<tasks, subs, owner, disk, lock, req>>

RecheckSpace(w) ==
    /\ pc[w] = "prepare"
    /\ Unprepared(w) = {}
    /\ IF Room(0) THEN Goto(w, "begin") /\ UNCHANGED req
                  ELSE Fail(w, "full")
    /\ UNCHANGED <<tasks, subs, owner, disk, lock>>

-------------------------------------------------------------------------------
(* BEGIN IMMEDIATE: the write lock, or OperationalError after 20 seconds.  *)

BeginDeferred(w) ==       \* mutant: a deferred BEGIN takes no lock
    /\ pc[w] = "begin"
    /\ Goto(w, "txn")
    /\ UNCHANGED <<tasks, subs, owner, disk, lock, req>>

Begin(w) ==
    /\ pc[w] = "begin"
    /\ lock = None
    /\ lock' = w
    /\ Goto(w, "txn")
    /\ UNCHANGED <<tasks, subs, owner, disk, req>>

WaitsForever(w) ==        \* mutant: no busy timeout
    /\ pc[w] = "begin"
    /\ lock # None
    /\ UNCHANGED vars

BeginTimesOut(w) ==
    /\ pc[w] = "begin"
    /\ lock # None
    /\ IF Uploads(w) THEN Fail(w, "error") ELSE Conclude(w, "reply", "error", None)
    /\ UNCHANGED <<tasks, subs, owner, disk, lock>>

(* create_task claims its nonce.                                           *)
ClaimNonce(w) ==
    /\ pc[w] = "txn"
    /\ req[w].op = "create"
    /\ IF \E t \in Tasks : Exists(t) /\ tasks[t].nonce = req[w].key
       THEN Fail(w, "used") /\ lock' = None
       ELSE Goto(w, "move") /\ UNCHANGED <<req, lock>>
    /\ UNCHANGED <<tasks, subs, owner, disk>>

DecideUnkeyed(w) ==       \* mutant: the key is not looked up again
    /\ pc[w] = "txn"
    /\ req[w].op = "submit"
    /\ IF tasks[req[w].task].status = "open"
       THEN Goto(w, "move") /\ UNCHANGED <<req, lock>>
       ELSE Fail(w, "closed") /\ lock' = None
    /\ UNCHANGED <<tasks, subs, owner, disk>>

DecideStale(w) ==         \* mutant: the status read before the upload counts
    /\ pc[w] = "txn"
    /\ req[w].op = "submit"
    /\ \/ Exists(req[w].task) /\ AnswerKnownKey(w, "undo") /\ lock' = None
       \/ /\ KeyHolders(w) = {}
          /\ IF req[w].seen = "open"
             THEN Goto(w, "move") /\ UNCHANGED <<req, lock>>
             ELSE Fail(w, "closed") /\ lock' = None
    /\ UNCHANGED <<tasks, subs, owner, disk>>

DecideStatusFirst(w) ==   \* mutant: the status is looked at before the key
    /\ pc[w] = "txn"
    /\ req[w].op = "submit"
    /\ IF tasks[req[w].task].status # "open"
       THEN Fail(w, "closed") /\ lock' = None
       ELSE \/ AnswerKnownKey(w, "undo") /\ lock' = None
            \/ KeyHolders(w) = {} /\ Goto(w, "move") /\ UNCHANGED <<req, lock>>
    /\ UNCHANGED <<tasks, subs, owner, disk>>

(* create_submission decides again, now that nobody else can write.        *)
Decide(w) ==
    /\ pc[w] = "txn"
    /\ req[w].op = "submit"
    /\ \/ /\ ~Exists(req[w].task)
          /\ Fail(w, "closed") /\ lock' = None
       \/ /\ Exists(req[w].task)
          /\ AnswerKnownKey(w, "undo") /\ lock' = None
       \/ /\ Exists(req[w].task)
          /\ KeyHolders(w) = {}
          /\ IF tasks[req[w].task].status = "open"
             THEN Goto(w, "move") /\ UNCHANGED <<req, lock>>
             ELSE Fail(w, "closed") /\ lock' = None
    /\ UNCHANGED <<tasks, subs, owner, disk>>

Unmoved(w) == {f \in req[w].files : disk[f] = "tmp"}

Move(w) ==
    /\ pc[w] = "move"
    /\ \E f \in Unmoved(w) : disk' = [disk EXCEPT ![f] = "live"]
    /\ UNCHANGED <<tasks, subs, owner, lock, pc, req>>

(* A failing rename, row or COMMIT: roll back, which frees the lock.       *)
RollBack(w) ==
    /\ \/ pc[w] = "move" /\ "os" \in Faults /\ Unmoved(w) # {}
       \/ pc[w] \in {"txn", "move"} /\ Uploads(w) /\ "db" \in Faults
    /\ lock' = None
    /\ Fail(w, "error")
    /\ UNCHANGED <<tasks, subs, owner, disk>>

CommitTask(w) ==
    /\ pc[w] = "move"
    /\ req[w].op = "create"
    /\ Unmoved(w) = {}
    /\ tasks' = [tasks EXCEPT ![req[w].task] = [status |-> "open", nonce |-> req[w].key]]
    /\ owner' = [f \in Files |-> IF f \in req[w].files THEN req[w].task ELSE owner[f]]
    /\ lock' = None
    /\ Goto(w, "reply")
    /\ req' = [req EXCEPT ![w] = [@ EXCEPT !.outcome = "created", !.files = {}]]
    /\ UNCHANGED <<subs, disk>>

SwappedRow(w) ==          \* mutant: two columns change places
    [state |-> "stored", task |-> req[w].key, key |-> req[w].task]

NewRow(w) == [state |-> "stored", task |-> req[w].task, key |-> req[w].key]

CommitSubmission(w) ==
    /\ pc[w] = "move"
    /\ req[w].op = "submit"
    /\ Unmoved(w) = {}
    /\ subs' = [subs EXCEPT ![req[w].sub] = NewRow(w)]
    /\ owner' = [f \in Files |-> IF f \in req[w].files THEN req[w].sub ELSE owner[f]]
    /\ lock' = None
    /\ Goto(w, "reply")
    /\ req' = [req EXCEPT ![w] = [@ EXCEPT !.outcome = "receipt", !.answer = req[w].sub,
                                           !.files = {}]]
    /\ UNCHANGED <<tasks, disk>>

(* except and finally: files already renamed go first, then those in .tmp. *)
Undo(w) ==
    /\ pc[w] = "undo"
    /\ \E f \in req[w].files :
        /\ \/ disk[f] = "live"
           \/ disk[f] = "tmp" /\ \A g \in req[w].files : disk[g] # "live"
        /\ disk' = [disk EXCEPT ![f] = "absent"]
    /\ UNCHANGED <<tasks, subs, owner, lock, pc, req>>

(* An unlink raises: the loop it is in gives up on its remaining files.    *)
UndoFails(w) ==
    /\ pc[w] = "undo"
    /\ "os" \in Faults
    /\ LET live == {f \in req[w].files : disk[f] = "live"}
       IN  /\ live \cup Unmoved(w) # {}
           /\ req' = [req EXCEPT ![w] = [@ EXCEPT !.outcome = "error", !.answer = None,
                                      !.files = IF live # {} THEN Unmoved(w) ELSE {}]]
    /\ UNCHANGED <<tasks, subs, owner, disk, lock, pc>>

NothingUndone(w) ==       \* mutant: the finally clause is missing
    /\ pc[w] = "undo"
    /\ Goto(w, "reply")
    /\ UNCHANGED <<tasks, subs, owner, disk, lock, req>>

Undone(w) ==
    /\ pc[w] = "undo"
    /\ \A f \in req[w].files : disk[f] = "absent"
    /\ Goto(w, "reply")
    /\ UNCHANGED <<tasks, subs, owner, disk, lock, req>>

-------------------------------------------------------------------------------
(* delete_submission and delete_task: under the lock the files are listed  *)
(* and renamed into a trash directory of the request's own; the rows go;   *)
(* then the trash.  A failure renames them back, which after a database    *)
(* error happens when the lock is already free.                            *)

Doomed(w) == IF req[w].op = "delsub"
             THEN {s \in {req[w].sub} : Stored(s)}
             ELSE {s \in Subs : Stored(s) /\ subs[s].task = req[w].task}

ParentsAlone(w) ==        \* mutant: a task's deletion does not cascade to files
    {IF req[w].op = "deltask" THEN req[w].task ELSE req[w].sub}

(* The parents whose rows the deletion removes.                            *)
Parents(w) == Doomed(w) \cup (IF req[w].op = "deltask" THEN {req[w].task} ELSE {})

ListFiles(w) ==
    /\ pc[w] = "txn"
    /\ ~Uploads(w)
    /\ Goto(w, "stage")
    /\ req' = [req EXCEPT ![w].files = {f \in Files : owner[f] \in Parents(w)}]
    /\ UNCHANGED <<tasks, subs, owner, disk, lock>>

Stage(w) ==
    /\ pc[w] = "stage"
    /\ \E f \in req[w].files :
        IF disk[f] = "live"
        THEN /\ disk' = [disk EXCEPT ![f] = "trash"]
             /\ req' = [req EXCEPT ![w] = [req[w] EXCEPT !.files = @ \ {f},
                                                        !.staged = @ \cup {f}]]
        ELSE /\ req' = [req EXCEPT ![w] = [req[w] EXCEPT !.files = @ \ {f},
                                                        !.passed = @ \cup {f}]]
             /\ UNCHANGED disk
    /\ UNCHANGED <<tasks, subs, owner, lock, pc>>

StageFails(w) ==
    /\ pc[w] = "stage"
    /\ "os" \in Faults
    /\ req[w].files # {}
    /\ Goto(w, "unstage")
    /\ req' = [req EXCEPT ![w].files = {}]
    /\ UNCHANGED <<tasks, subs, owner, disk, lock>>

CommitDelete(w) ==
    /\ pc[w] = "stage"
    /\ req[w].files = {}
    /\ subs' = [s \in Subs |-> IF s \in Doomed(w)
                               THEN [state |-> "deleted", task |-> None, key |-> None]
                               ELSE subs[s]]
    /\ tasks' = IF req[w].op = "deltask"
                THEN [tasks EXCEPT ![req[w].task] = [status |-> "deleted", nonce |-> None]]
                ELSE tasks
    /\ owner' = [f \in Files |-> IF owner[f] \in Parents(w) THEN None ELSE owner[f]]
    /\ lock' = None
    /\ Goto(w, "purge")
    /\ UNCHANGED <<disk, req>>

DeleteFailsPurged(w) ==   \* mutant: a failed deletion still empties its trash
    /\ pc[w] = "stage"
    /\ req[w].files = {}
    /\ "db" \in Faults
    /\ lock' = None
    /\ Goto(w, "purge")
    /\ UNCHANGED <<tasks, subs, owner, disk, req>>

DeleteFailsForgotten(w) ==  \* mutant: a failed deletion restores nothing
    /\ pc[w] = "stage"
    /\ req[w].files = {}
    /\ "db" \in Faults
    /\ lock' = None
    /\ Conclude(w, "reply", "error", None)
    /\ UNCHANGED <<tasks, subs, owner, disk>>

DeleteFails(w) ==
    /\ \/ pc[w] = "txn" /\ ~Uploads(w)
       \/ pc[w] = "stage" /\ req[w].files = {}
    /\ "db" \in Faults
    /\ lock' = None
    /\ Goto(w, "restore")
    /\ UNCHANGED <<tasks, subs, owner, disk, req>>

Restore(w) ==
    /\ pc[w] \in {"unstage", "restore"}
    /\ \E f \in req[w].staged :
        /\ disk' = [disk EXCEPT ![f] = "live"]
        /\ req' = [req EXCEPT ![w].staged = @ \ {f}]
    /\ UNCHANGED <<tasks, subs, owner, lock, pc>>

EndRestoreLocked(w) ==    \* mutant: stage_deletions swallows its exception
    /\ pc[w] \in {"unstage", "restore"}
    /\ req[w].staged = {} \/ "os" \in Faults
    /\ Goto(w, "reply")
    /\ req' = [req EXCEPT ![w] = [@ EXCEPT !.outcome = "error", !.staged = {}]]
    /\ UNCHANGED <<tasks, subs, owner, disk, lock>>

(* Everything is back, or a rename raised and the rest stays in the trash. *)
EndRestore(w) ==
    /\ pc[w] \in {"unstage", "restore"}
    /\ req[w].staged = {} \/ "os" \in Faults
    /\ lock' = IF pc[w] = "unstage" THEN None ELSE lock
    /\ Goto(w, "reply")
    /\ req' = [req EXCEPT ![w] = [@ EXCEPT !.outcome = "error", !.staged = {}]]
    /\ UNCHANGED <<tasks, subs, owner, disk>>

Purge(w) ==
    /\ pc[w] = "purge"
    /\ \E f \in req[w].staged :
        /\ disk' = [disk EXCEPT ![f] = "absent"]
        /\ req' = [req EXCEPT ![w].staged = @ \ {f}]
    /\ UNCHANGED <<tasks, subs, owner, lock, pc>>

EndPurge(w) ==
    /\ pc[w] = "purge"
    /\ \/ req[w].staged = {} /\ Conclude(w, "reply", "deleted", None)
       \/ /\ "os" \in Faults
          /\ req[w].staged # {}
          /\ Goto(w, "reply")
          /\ req' = [req EXCEPT ![w] = [@ EXCEPT !.outcome = "error", !.staged = {}]]
    /\ UNCHANGED <<tasks, subs, owner, disk, lock>>

-------------------------------------------------------------------------------
Reply(w) ==
    /\ pc[w] = "reply"
    /\ Goto(w, "idle")
    /\ req' = [req EXCEPT ![w] = NoRequest]
    /\ UNCHANGED <<tasks, subs, owner, disk, lock>>

(* The worker dies: SQLite rolls back, files stay where they are.  Killed  *)
(* by a signal it can handle (SystemExit, which no `except Exception`      *)
(* catches) an upload still runs its finally clause and discards .tmp.     *)
Crash(w) ==
    /\ "crash" \in Faults
    /\ pc[w] # "idle"
    /\ \/ UNCHANGED disk
       \/ /\ Uploads(w)
          /\ disk' = [f \in Files |-> IF f \in Unmoved(w) THEN "absent" ELSE disk[f]]
    /\ lock' = IF lock = w THEN None ELSE lock
    /\ Goto(w, "idle")
    /\ req' = [req EXCEPT ![w] = NoRequest]
    /\ UNCHANGED <<tasks, subs, owner>>

(* close_task, reopen_task and the close_all command: one UPDATE each,     *)
(* whose new values do not depend on what was read before it.              *)
SetStatus(T, status) ==
    /\ lock = None
    /\ tasks' = [t \in Tasks |-> IF t \in T THEN [tasks[t] EXCEPT !.status = status]
                                            ELSE tasks[t]]
    /\ UNCHANGED <<subs, owner, disk, lock, pc, req>>

CloseTask  == "close" \in Offered /\ \E t \in Tasks : Exists(t) /\ SetStatus({t}, "closed")
ReopenTask == "reopen" \in Offered /\ \E t \in Tasks : Exists(t) /\ SetStatus({t}, "open")
CloseAll   == /\ "close" \in Offered
              /\ SetStatus({t \in Tasks : tasks[t].status = "open"}, "closed")

Arrives(w) == \/ CreateArrives(w) \/ SubmitArrives(w)
              \/ DeleteSubmissionArrives(w) \/ DeleteTaskArrives(w)

UploadStep(w) == \/ Retry(w) \/ Again(w) \/ CheckSpace(w) \/ Prepare(w) \/ PrepareFails(w)
                 \/ TooLarge(w) \/ RecheckSpace(w) \/ ClaimNonce(w) \/ Decide(w) \/ Move(w)
                 \/ RollBack(w) \/ CommitTask(w) \/ CommitSubmission(w)
                 \/ Undo(w) \/ UndoFails(w) \/ Undone(w)

DeleteStep(w) == \/ ListFiles(w) \/ Stage(w) \/ StageFails(w) \/ CommitDelete(w)
                 \/ DeleteFails(w) \/ Restore(w) \/ EndRestore(w) \/ Purge(w) \/ EndPurge(w)

(* What the worker's own thread does next once a request is with it.       *)
Step(w) == Begin(w) \/ BeginTimesOut(w) \/ UploadStep(w) \/ DeleteStep(w) \/ Reply(w)

Next == \/ \E w \in Workers : Arrives(w) \/ Step(w) \/ Crash(w)
        \/ CloseTask \/ ReopenTask \/ CloseAll

Spec == Init /\ [][Next]_vars

(* A worker that serves a request keeps running; requests need not come.   *)
FairSpec == Spec /\ \A w \in Workers : WF_vars(Step(w))
-------------------------------------------------------------------------------
(* Foreign keys: a submission's task and a file row's parent are there,    *)
(* although uploads, closings and deletions of the same task overlap.      *)
ReferencesIntact ==
    /\ \A s \in Subs : Stored(s) => Exists(subs[s].task)
    /\ \A f \in Files : \/ owner[f] = None
                        \/ owner[f] \in Tasks /\ Exists(owner[f])
                        \/ owner[f] \in Subs /\ Stored(owner[f])

(* No two rows share an idempotency key or a nonce, and a transaction past *)
(* its check cannot run into the UNIQUE constraint: the twin of a double   *)
(* submit is sent to the first one's receipt, never to an error page.      *)
KeysUnique ==
    /\ \A r, s \in Subs : Stored(r) /\ Stored(s) /\ subs[r].key = subs[s].key => r = s
    /\ \A t, u \in Tasks : Exists(t) /\ Exists(u) /\ tasks[t].nonce = tasks[u].nonce => t = u
    /\ \A w \in Workers : pc[w] = "move" =>
          IF req[w].op = "submit"
          THEN KeyHolders(w) = {}
          ELSE \A t \in Tasks : Exists(t) => tasks[t].nonce # req[w].key

(* Whatever fails, the bytes a committed row refers to are not destroyed:  *)
(* they have their name or they are still in a trash directory.            *)
RecordedBytesKept ==
    \A f \in Files : owner[f] # None => disk[f] \in {"live", "trash"}

(* Workers that pass the space check side by side and fill the disk before *)
(* they store anything still leave the reserve free: what outlives its     *)
(* request (not .tmp) always leaves Reserve.                               *)
ReserveKept ==
    Cardinality({f \in Files : disk[f] \in {"live", "trash"}}) + Reserve <= Capacity

(* A row's file leaves its name only in the hands of a deletion, and is    *)
(* back before that lets go of it: only a kill, or a rename that fails     *)
(* when the file is moved back, leaves the row with nothing to download.   *)
Missing(f) == /\ owner[f] # None
              /\ disk[f] # "live"
              /\ \A w \in Workers : pc[w] \in {"stage", "unstage", "restore"}
                                    => f \notin req[w].staged

Killed(w) == pc[w] \notin {"idle", "reply"} /\ pc'[w] = "idle"

RecordsHaveFiles ==
    [][\A f \in Files : Missing(f)' /\ ~Missing(f) =>
          \E w \in Workers :
              /\ f \in req[w].staged
              /\ Killed(w) \/ pc[w] \in {"unstage", "restore"}]_vars

(* Files whose fate is in the hands of a request: its uploads, or what it  *)
(* has moved to its trash; not what a deletion has only listed.            *)
Held(w) == req[w].staged \cup (IF Uploads(w) THEN req[w].files ELSE {})

(* A file that neither a row nor a request answers for stays behind only   *)
(* when its request is killed or an unlink or rename of it fails, when a   *)
(* failed deletion takes it back, or when a deletion removes the row of a  *)
(* file that it has listed and found moved away by another one.  No file   *)
(* that a deletion has not listed loses its row to it: nothing is stored   *)
(* between the listing and the DELETE.                                     *)
Stray(f) == /\ disk[f] # "absent"
            /\ disk[f] # "live" \/ owner[f] = None
            /\ \A w \in Workers : f \notin Held(w)

StraysOnlyTakenBack ==
    [][\A f \in Files : Stray(f)' /\ ~Stray(f) =>
          \E w \in Workers :
              \/ Killed(w) /\ f \in Held(w)
              \/ pc[w] = "undo" /\ f \in req[w].files \ req'[w].files
              \/ pc[w] \in {"unstage", "restore", "purge"} /\ f \in req[w].staged
              \/ pc[w] = "stage" /\ f \in req[w].passed]_vars

(* At rest, every file on disk belongs to a row.                           *)
NoOrphansAtRest ==
    (\A w \in Workers : pc[w] = "idle") =>
        \A f \in Files : disk[f] # "absent" => owner[f] # None

(* A browser that asks again with the key of a hand-in that was stored     *)
(* when it asked, and still is, gets that receipt: the task may have been  *)
(* closed or the disk may have filled meanwhile.                           *)
RetryGetsReceipt ==
    \A w \in Workers :
        /\ pc[w] = "reply"
        /\ req[w].prior # None
        /\ Stored(req[w].prior)
        => req[w].outcome = "receipt" /\ req[w].answer = req[w].prior

(* A receipt names a hand-in of this task under this key which was stored, *)
(* and only a deletion has removed since.                                  *)
ReceiptsTrue ==
    \A w \in Workers : req[w].outcome = "receipt" =>
        LET s == subs[req[w].answer]
        IN  \/ s.state = "stored" /\ s.task = req[w].task /\ s.key = req[w].key
            \/ s.state = "deleted"

(* A submission is stored only by a step that finds its task open, however *)
(* long ago the handler looked, and a closing that has returned is final   *)
(* for the uploads under way.                                              *)
ClosedBlocks ==
    [][\A s \in Subs : ~Stored(s) /\ subs'[s].state = "stored"
                       => tasks[subs'[s].task].status = "open"]_vars

(* "Task closed" is never said to a key whose hand-in is stored.           *)
ClosedOnlyUnknownKeys ==
    [][\A w \in Workers :
          req[w].op = "submit" /\ req[w].outcome # "closed" /\ req'[w].outcome = "closed"
          => ~ \E s \in KeyHolders(w) : subs[s].task = req[w].task]_vars

(* Every request is answered or killed, whoever holds the lock.            *)
RequestsEnd == \A w \in Workers : pc[w] # "idle" ~> pc[w] = "idle"

(* Every failure path gives the write lock back.                           *)
LockFreed == \A w \in Workers : lock = w ~> lock # w

(* The core does what DropBox promises: the rows of a hand-in and of its   *)
(* files appear and go in one step, and the receipts are DropBox's.        *)
Box == INSTANCE DropBox WITH answer <- [w \in Workers |-> req[w].answer]

ImplementsDropBox == Box!Spec
===============================================================================
