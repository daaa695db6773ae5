------------------------------ MODULE ExportText ------------------------------
(***************************************************************************)
(* What the export writes into a hand-in's directory, as functions: the    *)
(* answer's two texts, which are RichText's, and the names of the files    *)
(* (unique_name of drops/exports.py).                                      *)
(*                                                                         *)
(* A name is its letters, whether capitals are among them and the numbers  *)
(* that stand in parentheses before the extension, a pupil's own included. *)
(***************************************************************************)
EXTENDS RichText, FiniteSets

CONSTANTS
    OriginalNames,      \* names the uploads come with
    MaxNames            \* uploads of one hand-in

ASSUME NamesAssumption ==
    /\ \A o \in OriginalNames :
          /\ o = [letters |-> o.letters, capital |-> o.capital, numbers |-> o.numbers]
          /\ o.capital \in BOOLEAN
          /\ o.numbers \in Seq(Nat)
    /\ MaxNames \in Nat

VARIABLE names          \* those given so far in one directory

Fold(name)        == [name EXCEPT !.capital = FALSE]
Numbered(name, n) == [name EXCEPT !.numbers = Append(@, n)]
Used              == {Fold(names[i]) : i \in DOMAIN names}

NextNumber(name, used) ==  \* mutant: the numbered name is not looked up
    IF Fold(name) \notin used THEN name ELSE Numbered(name, 2)

(* The name itself, or the first of name (2), name (3), ... that is free.  *)
UniqueName(name, used) ==
    IF Fold(name) \notin used
    THEN name
    ELSE Numbered(name, CHOOSE n \in 2 .. Cardinality(used) + 2 :
                            /\ Fold(Numbered(name, n)) \notin used
                            /\ \A m \in 2 .. n - 1 : Fold(Numbered(name, m)) \in used)

GiveName ==
    /\ value = <<>>
    /\ Len(names) < MaxNames
    /\ \E original \in OriginalNames : names' = Append(names, UniqueName(original, Used))
    /\ UNCHANGED vars

ExportTextInit == Init /\ names = <<>>

ExportTextNext == \/ names = <<>> /\ Next /\ UNCHANGED names
                  \/ GiveName

ExportTextSpec == ExportTextInit /\ [][ExportTextNext]_<<vars, names>>
-------------------------------------------------------------------------------
(* TaskDropBox_Design_Document.md:536, "export names [...] without [...]   *)
(* collisions": two files of a hand-in differ by more than capitals, even  *)
(* when a pupil's own names look like numbered ones.                       *)
NamesApart ==
    \A i, j \in DOMAIN names : i # j => Fold(names[i]) # Fold(names[j])
===============================================================================
