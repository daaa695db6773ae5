------------------------------ MODULE MCRichText ------------------------------
(* Instances of ExportText for TLC: one tag of each kind, and names that   *)
(* differ by capitals or by a number of the pupil's own.                   *)
EXTENDS ExportText

AllChars  == {"w", " ", NewLine, Bullet}
OneOfEach == {"b", "li", "br", "span", "object", "embed", "script"}

Report  == [letters |-> "report", capital |-> FALSE, numbers |-> <<>>]
Reports == {Report, [Report EXCEPT !.capital = TRUE],
            Numbered(Report, 2), Numbered(Report, 3), Numbered(Numbered(Report, 2), 2)}
===============================================================================
