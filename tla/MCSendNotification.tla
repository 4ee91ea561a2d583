------------------------- MODULE MCSendNotification -------------------------
(***************************************************************************)
(* Instances of SendNotification for TLC.                                  *)
(***************************************************************************)
EXTENDS SendNotification, TLC

CONSTANTS q1, q2, q3, q4, q5, k1, a, b

(* Three requests share a key, one of them with another payload; two more  *)
(* have an empty header.                                                   *)
WithEmptyHeaders == [q \in Requests |-> IF q \in {q4, q5} THEN EmptyKey ELSE k1]

(* Three requests share a key; a fourth has no header.                     *)
WithoutHeader == [q \in Requests |-> IF q = q4 THEN NoKey ELSE k1]

OneKey == [q \in Requests |-> k1]

OneOtherPayload == [q \in Requests |-> IF q = q3 THEN b ELSE a]

Symmetry == Permutations({q1, q2}) \cup Permutations({q4, q5})

=============================================================================
