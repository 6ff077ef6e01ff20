------------------------- MODULE MCTimesheetLedger -------------------------
(* Instances of TimesheetLedger for TLC.  In "Shared" all actors work on all *)
(* sheets, in "Overlapping" the first one works on one of them only.        *)
EXTENDS TimesheetLedger, TLC

CONSTANTS s1, s2, a1, a2

Overlapping == [a \in Actors |-> IF a = a1 THEN {s1} ELSE Sheets]
Shared == [a \in Actors |-> Sheets]
AllOperations == {"create", "upsert", "submit", "approve", "reject", "delete",
                  "invoice", "credit"}
============================================================================
