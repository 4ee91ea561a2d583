------------------------- MODULE PreferenceRegister -------------------------
(***************************************************************************)
(* What a user's preferences promise: one switch per channel, on until     *)
(* somebody turns it off.  An upsert sets each switch once, at some moment *)
(* between its begin and its answer, not all of them at the same moment.   *)
(***************************************************************************)
CONSTANTS Upserts, Channels, Asked

VARIABLES
  enabled,  \* the switches
  taken,    \* the switches an upsert has set
  answer    \* what it has answered

vars == <<enabled, taken, answer>>

Init ==
  /\ enabled = [c \in Channels |-> TRUE]
  /\ taken   = [u \in Upserts |-> {}]
  /\ answer  = [u \in Upserts |-> "none"]

Take(u, cs) ==
  /\ answer[u] = "none"
  /\ cs \cap taken[u] = {}
  /\ enabled' = [c \in Channels |-> IF c \in cs THEN Asked[u][c] ELSE enabled[c]]
  /\ taken'   = [taken EXCEPT ![u] = @ \cup cs]
  /\ UNCHANGED answer

Confirm(u) ==
  /\ answer[u] = "none"
  /\ taken[u] = Channels
  /\ answer' = [answer EXCEPT ![u] = "ok"]
  /\ UNCHANGED <<enabled, taken>>

(* An upsert that ends in an error may have set any of its switches.       *)
GiveUp(u) ==
  /\ answer[u] = "none"
  /\ answer' = [answer EXCEPT ![u] = "error"]
  /\ taken'  = [taken EXCEPT ![u] = {}]
  /\ UNCHANGED enabled

Next ==
  \E u \in Upserts : (\E cs \in SUBSET Channels : Take(u, cs)) \/ Confirm(u) \/ GiveUp(u)

Spec == Init /\ [][Next]_vars

=============================================================================
