-------------------------------- MODULE Export --------------------------------
(***************************************************************************)
(* The ZIP export of a task (drops/exports.py), made by a worker of its    *)
(* own beside those of HandIn.  It only reads, outside of any transaction: *)
(* the hand-ins with one SELECT whose rows are fetched in chunks, the file *)
(* rows of a chunk with another, and each file when its turn comes.        *)
(*                                                                         *)
(* SQLite keeps one snapshot for a connection as long as a statement of it *)
(* is unfinished.  The file rows of every chunk but the last are therefore *)
(* as old as the hand-ins; those of the last chunk are read afresh.        *)
(***************************************************************************)
EXTENDS HandIn

CONSTANT Chunk      \* rows of one chunk, 50 in the code

ASSUME ChunkAssumption == Chunk \in Nat \ {0}

VARIABLE export     \* the export under way: see Exporting

Exporting ==
    [at      : {"idle", "estimate", "query", "chunk", "row", "file", "seal",
                "sent", "full", "error"},
     task    : Tasks \cup {None},
     asked   : SUBSET Subs,    \* ghost: the hand-ins stored when it was asked for
     rows    : SUBSET Subs,    \* selected, not fetched yet
     chunk   : SUBSET Subs,    \* fetched, not written yet
     filed   : [Files -> Subs \cup {None}],        \* file rows of both, as last read
     files   : SUBSET Files,   \* of the hand-in being written
     written : SUBSET Subs,    \* hand-ins in the archive
     packed  : SUBSET Files]   \* files in the archive

NoExport ==
    [at |-> "idle", task |-> None, asked |-> {}, rows |-> {},
     filed |-> [f \in Files |-> None], chunk |-> {}, files |-> {},
     written |-> {}, packed |-> {}]

-------------------------------------------------------------------------------
(* build_task_export and _write_task_export                                *)

FileRowsAll(S) == owner   \* mutant: the task's attachments are taken for files too

(* The file rows of these hand-ins, as they are now.                       *)
FileRows(S) == [f \in Files |-> IF owner[f] \in S THEN owner[f] ELSE None]

Goes(l) == export' = [export EXCEPT !.at = l]

Breaks(outcome) == export' = [NoExport EXCEPT !.at = outcome]

ExportArrives ==
    /\ export.at = "idle"
    /\ \E t \in Tasks :
        /\ Exists(t)
        /\ export' = [NoExport EXCEPT !.at = "estimate", !.task = t,
                          !.asked = {s \in Subs : Stored(s) /\ subs[s].task = t}]

Estimate == export.at = "estimate" /\ Goes("query")

Query ==
    /\ export.at = "query"
    /\ LET rows == {s \in Subs : Stored(s) /\ subs[s].task = export.task}
       IN  export' = [export EXCEPT !.at = "chunk", !.rows = rows, !.filed = FileRows(rows)]

Fetch ==
    /\ export.at = "chunk"
    /\ export.rows # {}
    /\ \E C \in SUBSET export.rows :
        /\ \/ Cardinality(C) = Chunk
           \/ Cardinality(C) < Chunk /\ C = export.rows
        /\ export' = [export EXCEPT !.at = "row", !.rows = @ \ C, !.chunk = C,
                          !.filed = IF C = export.rows THEN FileRows(C) ELSE @]

NextRow ==
    /\ export.at = "row"
    /\ \E s \in export.chunk :
        export' = [export EXCEPT !.at = "file", !.chunk = @ \ {s}, !.written = @ \cup {s},
                      !.files = {f \in Files : export.filed[f] = s},
                      !.filed = [f \in Files |-> IF @[f] = s THEN None ELSE @[f]]]

EndChunk ==
    /\ export.at = "row"
    /\ export.chunk = {}
    /\ Goes("chunk")

PackPresent ==            \* mutant: a file that is not there is passed over
    /\ export.at = "file"
    /\ \E f \in export.files :
        export' = [export EXCEPT !.files = @ \ {f},
                      !.packed = IF disk[f] = "live" THEN @ \cup {f} ELSE @]

(* archive.write opens the file by the name its row had.                   *)
Pack ==
    /\ export.at = "file"
    /\ \E f \in export.files :
        /\ disk[f] = "live"
        /\ export' = [export EXCEPT !.files = @ \ {f}, !.packed = @ \cup {f}]

EndFiles ==
    /\ export.at = "file"
    /\ export.files = {}
    /\ Goes("row")

EndRows ==
    /\ export.at = "chunk"
    /\ export.rows = {}
    /\ Goes("seal")

Seal == export.at = "seal" /\ Goes("sent")

(* The estimate, a check before a row or a file and after the manifest, or *)
(* a write that finds no space: the page that says so.                     *)
ExportFull ==
    /\ export.at \in {"estimate", "chunk", "row", "file", "seal"}
    /\ Breaks("full")

ExportFails ==
    /\ \/ export.at = "file" /\ \E f \in export.files : disk[f] # "live"
       \/ export.at \in {"chunk", "row", "file", "seal"} /\ "os" \in Faults
       \/ export.at \in {"estimate", "query", "chunk"} /\ "db" \in Faults
    /\ Breaks("error")

(* The answer is out, or the worker is killed: the spool has no name and   *)
(* goes with its last descriptor.                                          *)
EndExport ==
    /\ \/ export.at \in {"sent", "full", "error"}
       \/ export.at # "idle" /\ "crash" \in Faults
    /\ export' = NoExport

ExportStep == \/ Estimate \/ Query \/ Fetch \/ NextRow \/ EndChunk \/ Pack \/ EndFiles
              \/ EndRows \/ Seal \/ ExportFull \/ ExportFails \/ EndExport
-------------------------------------------------------------------------------
(* An archive that is sent has every hand-in that was stored when the      *)
(* teacher asked and still is, with all its files, although other          *)
(* hand-ins came and went meanwhile and deletions moved files away and     *)
(* back; and a hand-in it has without one of its files has been deleted.   *)
ExportComplete ==
    export.at = "sent" =>
        /\ \A s \in export.asked : Stored(s) => s \in export.written
        /\ \A f \in Files : owner[f] \in export.written => f \in export.packed
===============================================================================
