-------------------------------- MODULE Flush ---------------------------------
(***************************************************************************)
(* The operator's destructive commands: taskdropbox-admin delete-task,     *)
(* which runs services.delete_task beside the service, and flush-data,     *)
(* which stops the service, deletes every task with the same function,     *)
(* then the session and rate-limit rows and the tree of private files, and *)
(* starts the service again.                                               *)
(*                                                                         *)
(* The process that runs delete_task is one of HandIn's workers to which   *)
(* no web request is given.                                                *)
(***************************************************************************)
EXTENDS HandIn

CONSTANT Operator

ASSUME OperatorAssumption == Operator \in Workers

VARIABLES
    up,         \* the service runs and takes requests
    flush,      \* where flush-data stands
    todo,       \* tasks it still has to delete
    others      \* the other tables that have rows

flushVars == <<up, flush, todo, others>>

Tables == {"sessions", "buckets"}

FlushTypeOK ==
    /\ up \in BOOLEAN
    /\ flush \in {"idle", "stopping", "tasks", "sessions", "buckets", "tree", "done", "ended"}
    /\ todo \subseteq Tasks
    /\ others \subseteq Tables

FlushInit == up = TRUE /\ flush = "idle" /\ todo = {} /\ others = Tables

-------------------------------------------------------------------------------
(* delete-task: the id is looked up, then confirmed.                       *)
OperatorDeletes ==
    /\ flush = "idle"
    /\ DeleteTaskArrives(Operator)
    /\ UNCHANGED flushVars

FlushRunning ==           \* mutant: the service is not stopped
    /\ flush = "idle"
    /\ pc[Operator] = "idle"
    /\ flush' = "stopping"
    /\ UNCHANGED <<vars, up, todo, others>>

StopService ==
    /\ flush = "idle"
    /\ up
    /\ pc[Operator] = "idle"
    /\ up' = FALSE
    /\ flush' = "stopping"
    /\ UNCHANGED <<vars, todo, others>>

(* systemctl stop returns when the last worker is gone.                    *)
BeginFlush ==
    /\ flush = "stopping"
    /\ \A w \in Workers : pc[w] = "idle"
    /\ todo' = {t \in Tasks : Exists(t)}
    /\ flush' = "tasks"
    /\ UNCHANGED <<vars, up, others>>

(* The phrase is not typed, or a statement or file operation of the        *)
(* command itself raises.                                                  *)
FlushFails ==
    /\ \/ flush = "stopping" /\ \A w \in Workers : pc[w] = "idle"
       \/ flush \in {"sessions", "buckets"} /\ "db" \in Faults
       \/ flush = "tree" /\ "os" \in Faults
    /\ flush' = "ended"
    /\ todo' = {}
    /\ UNCHANGED <<vars, up, others>>

FlushTask ==
    /\ flush = "tasks"
    /\ \E t \in todo :
        /\ Arrive(Operator, "begin", Ask("deltask", t, None, None, {}, "unused", None))
        /\ todo' = todo \ {t}
    /\ UNCHANGED <<up, flush, others>>

FlushRegardless ==        \* mutant: the exception of a failed deletion is swallowed
    /\ pc[Operator] = "reply"
    /\ Reply(Operator)
    /\ UNCHANGED flushVars

(* delete_task has returned, or raised, which ends the command.            *)
TaskFlushed ==
    /\ Reply(Operator)
    /\ IF flush = "tasks" /\ req[Operator].outcome # "deleted"
       THEN flush' = "ended" /\ todo' = {}
       ELSE UNCHANGED <<flush, todo>>
    /\ UNCHANGED <<up, others>>

TasksFlushed ==
    /\ flush = "tasks"
    /\ todo = {}
    /\ pc[Operator] = "idle"
    /\ flush' = "sessions"
    /\ UNCHANGED <<vars, up, todo, others>>

FlushRows ==
    /\ \/ flush = "sessions" /\ flush' = "buckets" /\ others' = others \ {"sessions"}
       \/ flush = "buckets"  /\ flush' = "tree"    /\ others' = others \ {"buckets"}
    /\ UNCHANGED <<vars, up, todo>>

(* shutil.rmtree, entry by entry.                                          *)
RemoveFile ==
    /\ flush = "tree"
    /\ \E f \in Used : disk' = [disk EXCEPT ![f] = "absent"]
    /\ UNCHANGED <<tasks, subs, owner, lock, pc, req, flushVars>>

FilesRemoved ==
    /\ flush = "tree"
    /\ Used = {}
    /\ flush' = "done"
    /\ UNCHANGED <<vars, up, todo, others>>

(* The command or the whole script is killed.                              *)
FlushKilled ==
    /\ "crash" \in Faults
    /\ flush \notin {"idle", "done", "ended"}
    /\ Crash(Operator) \/ (pc[Operator] = "idle" /\ UNCHANGED vars)
    /\ flush' = "ended"
    /\ todo' = {}
    /\ UNCHANGED <<up, others>>

(* By the script, whatever came of the command; after a kill of the script *)
(* by the operator or at boot.  Browsers and PINs fill the tables again.   *)
StartService ==
    /\ flush \in {"done", "ended"}
    /\ up' = TRUE
    /\ flush' = "idle"
    /\ others' = Tables
    /\ UNCHANGED <<vars, todo>>

OperatorDies == flush = "idle" /\ Crash(Operator) /\ UNCHANGED flushVars

(* services.delete_task in the operator's process.                         *)
DeleteTaskStep ==
    /\ Begin(Operator) \/ BeginTimesOut(Operator) \/ DeleteStep(Operator)
    /\ UNCHANGED flushVars

FlushStep == \/ BeginFlush \/ FlushFails \/ FlushTask \/ TaskFlushed \/ TasksFlushed \/ FlushRows
             \/ RemoveFile \/ FilesRemoved \/ FlushKilled \/ StartService \/ OperatorDies
             \/ DeleteTaskStep
-------------------------------------------------------------------------------
(* data-lifecycle.md:14, "It permanently removes tasks, submissions,       *)
(* uploaded files, and browser authorization sessions": a flush that ends  *)
(* well leaves none, whatever killed requests and earlier flushes that     *)
(* failed or were killed half-way have left behind.                        *)
FlushLeavesNothing ==
    flush = "done" =>
        /\ \A t \in Tasks : ~Exists(t)
        /\ \A s \in Subs : ~Stored(s)
        /\ \A f \in Files : owner[f] = None /\ disk[f] = "absent"
        /\ others = {}
===============================================================================
