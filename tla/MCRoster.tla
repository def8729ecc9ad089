------------------------------ MODULE MCRoster ------------------------------
(* Small instances of Roster: the founder a, and b and c. *)
EXTENDS Roster

CONSTANTS a, b, c

NoSkew == [n \in Nodes |-> 0]
AheadB == [n \in Nodes |-> IF n = b THEN 1 ELSE 0]
=============================================================================
