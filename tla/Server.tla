-------------------------------- MODULE Server --------------------------------
(***************************************************************************)
(* The whole server: HandIn's workers with, beside them, an export, a      *)
(* storage check or the operator.  Exports are one at a time because nginx *)
(* admits no second one.  That an export, a check and a flush do not       *)
(* overlap either is a bound: the first two only read.                     *)
(***************************************************************************)
EXTENDS Export, StorageCheck, Flush

serverVars == <<vars, export, check, steady, flushVars>>

Web == Workers \ {Operator}

ServerTypeOK ==
    /\ TypeOK
    /\ export \in Exporting
    /\ check \in Checking
    /\ steady \subseteq Files
    /\ FlushTypeOK

ServerInit ==
    /\ Init
    /\ export = NoExport
    /\ check = NoCheck
    /\ steady = {}
    /\ FlushInit

Alone == export.at = "idle" /\ check.at = "idle" /\ flush = "idle" /\ pc[Operator] = "idle"

Serve ==
    /\ \/ \E w \in Web : (up /\ Arrives(w)) \/ Step(w) \/ Crash(w)
       \/ up /\ (CloseTask \/ ReopenTask)
       \/ CloseAll
    /\ Watch
    /\ UNCHANGED <<export, check, flushVars>>

Operate ==
    /\ (Alone /\ (OperatorDeletes \/ StopService)) \/ FlushStep
    /\ Watch
    /\ UNCHANGED <<export, check>>

MakeExport ==
    /\ (Alone /\ up /\ ExportArrives) \/ ExportStep
    /\ UNCHANGED <<vars, check, steady, flushVars>>

CheckStorage ==
    /\ (Alone /\ BeginCheck) \/ CheckStep
    /\ UNCHANGED <<vars, export, flushVars>>

ServerNext == Serve \/ Operate \/ MakeExport \/ CheckStorage

ServerSpec == ServerInit /\ [][ServerNext]_serverVars
===============================================================================
