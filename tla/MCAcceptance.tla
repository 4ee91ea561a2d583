---------------------------- MODULE MCAcceptance ----------------------------
(***************************************************************************)
(* The instance of Acceptance for TLC.                                     *)
(***************************************************************************)
EXTENDS Acceptance, TLC

CONSTANTS u1, u2, u3, email, sms, t1, t2, n1, q1, q2

(* Three upserts, no two of which agree on both channels.                  *)
Opposed == [u \in Upserts |-> [c \in Channels |->
              (u = u1 /\ c = sms) \/ (u = u2 /\ c = email)]]

SameName == [t \in Creations |-> n1]

SameTemplate == [q \in Requests |-> n1]

(* One request lists a channel, the other leaves the choice open.          *)
OneOrAny == [q \in Requests |-> IF q = q1 THEN {email} ELSE {}]

CreationSymmetry == Permutations(Creations)

=============================================================================
