----------------------------- MODULE StorageCheck -----------------------------
(***************************************************************************)
(* check_storage (drops/management/commands/check_storage.py) beside the   *)
(* running service: it reads the file rows of tasks, then those of         *)
(* hand-ins, then looks for the file of each row, then into the            *)
(* directories, and prints what does not agree.  Nothing is locked.        *)
(*                                                                         *)
(* The bytes of a file never change, so a checksum can only fail to be     *)
(* taken.  A directory is listed in one step: what is reported of a file   *)
(* depends on when that file is looked at and on no other.                 *)
(***************************************************************************)
EXTENDS HandIn

VARIABLES
    check,      \* the command's position and local variables
    steady      \* ghost: files whose row and place have not changed since it began

Checking ==
    [at       : {"idle", "attachments", "submissions", "records", "listing",
                 "tmp", "trash", "report", "failed"},
     expected : SUBSET Files,             \* files with a row
     todo     : SUBSET Files,             \* rows still to look up
     opening  : SUBSET Files,             \* found, to be read for its checksum
     missing  : SUBSET Files,
     orphaned : SUBSET Files,
     leftover : SUBSET Files]

NoCheck == [at |-> "idle", expected |-> {}, todo |-> {}, opening |-> {},
            missing |-> {}, orphaned |-> {}, leftover |-> {}]

(* Holds in every step that is not the check's own.                        *)
Watch == steady' = {f \in steady : owner'[f] = owner[f] /\ disk'[f] = disk[f]}

BeginCheck ==
    /\ check.at = "idle"
    /\ check' = [NoCheck EXCEPT !.at = "attachments"]
    /\ steady' = Files

ReadAttachments ==
    /\ check.at = "attachments"
    /\ check' = [check EXCEPT !.at = "submissions", !.expected = {f \in Files : owner[f] \in Tasks}]
    /\ UNCHANGED steady

ReadSubmissionFiles ==
    /\ check.at = "submissions"
    /\ LET records == check.expected \cup {f \in Files : owner[f] \in Subs}
       IN  check' = [check EXCEPT !.at = "records", !.expected = records, !.todo = records]
    /\ UNCHANGED steady

(* path.is_file(); with --checksums a file that is there is opened next.   *)
LookUp ==
    /\ check.at = "records"
    /\ check.opening = {}
    /\ \E f \in check.todo :
        IF disk[f] = "live"
        THEN \E opening \in {{}, {f}} :
                check' = [check EXCEPT !.todo = @ \ {f}, !.opening = opening]
        ELSE check' = [check EXCEPT !.todo = @ \ {f}, !.missing = @ \cup {f}]
    /\ UNCHANGED steady

(* The file was moved away meanwhile: FileNotFoundError, and no report.    *)
ReadFile ==
    /\ check.at = "records"
    /\ \E f \in check.opening :
        check' = IF disk[f] = "live" THEN [check EXCEPT !.opening = {}]
                                     ELSE [check EXCEPT !.opening = {}, !.at = "failed"]
    /\ UNCHANGED steady

EndRecords ==
    /\ check.at = "records"
    /\ check.todo \cup check.opening = {}
    /\ check' = [check EXCEPT !.at = "listing"]
    /\ UNCHANGED steady

ListFinal ==
    /\ check.at = "listing"
    /\ check' = [check EXCEPT !.at = "tmp",
                     !.orphaned = {f \in Files : disk[f] = "live"} \ check.expected]
    /\ UNCHANGED steady

SkipTrash ==              \* mutant: only .tmp is searched
    \/ /\ check.at = "tmp"
       /\ check' = [check EXCEPT !.at = "trash", !.leftover = {f \in Files : disk[f] = "tmp"}]
       /\ UNCHANGED steady
    \/ /\ check.at = "trash"
       /\ check' = [check EXCEPT !.at = "report"]
       /\ UNCHANGED steady

ListInternal ==
    /\ \/ /\ check.at = "tmp"
          /\ check' = [check EXCEPT !.at = "trash", !.leftover = {f \in Files : disk[f] = "tmp"}]
       \/ /\ check.at = "trash"
          /\ check' = [check EXCEPT !.at = "report", !.leftover = @ \cup {f \in Files : disk[f] = "trash"}]
    /\ UNCHANGED steady

EndCheck ==
    /\ check.at \in {"report", "failed"}
    /\ check' = NoCheck
    /\ steady' = {}

CheckStep == \/ ReadAttachments \/ ReadSubmissionFiles \/ LookUp \/ ReadFile \/ EndRecords
             \/ ListFinal \/ ListInternal \/ EndCheck
-------------------------------------------------------------------------------
(* The help text, "Report missing and orphaned private files": although    *)
(* rows and directories are read at different times while requests run,    *)
(* a file whose row and place stayed as they were is reported exactly as   *)
(* it is.  A false alarm is a file that was on its way; trouble that       *)
(* lasts is never passed over.                                             *)
ReportExact ==
    check.at = "report" =>
        \A f \in steady :
            /\ f \in check.missing  <=> owner[f] # None /\ disk[f] # "live"
            /\ f \in check.orphaned <=> owner[f] = None /\ disk[f] = "live"
            /\ f \in check.leftover <=> disk[f] \in {"tmp", "trash"}
===============================================================================
