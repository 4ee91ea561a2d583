----------------------------- MODULE Acceptance -----------------------------
(***************************************************************************)
(* What POST /notifications reads before it writes: the template it names  *)
(* and the preferences of its user, while both are being changed.  This is *)
(* how SendNotification's Refuse comes about, and how the targets of       *)
(* NotificationService's Insert are chosen.                                *)
(***************************************************************************)
EXTENDS Preferences, Templates

CONSTANTS
  Requests,  \* executions of POST /notifications for the user
  Uses,      \* the template name of each
  Wanted     \* the channels it lists, none or an empty list being the same

ASSUME RequestAssumption ==
  /\ Uses \in [Requests -> Names]
  /\ Wanted \in [Requests -> SUBSET Channels]

VARIABLES
  step,    \* where each request is
  targets  \* the channels left for it; how often and in which order it lists them is left out

vars == <<user, catalog, step, targets>>

-----------------------------------------------------------------------------
\* Mutant of FilterChannels: channels asked for by name are not checked.
FilterDefaultsOnly(on, wanted) ==
  IF wanted = {} THEN {c \in Channels : on[c]} ELSE wanted

(* filter_channels: an empty list counts as none.                          *)
FilterChannels(on, wanted) ==
  {c \in Channels : on[c] /\ (wanted = {} \/ c \in wanted)}

Init ==
  /\ PrefsInit
  /\ TemplatesInit
  /\ step    = [q \in Requests |-> "new"]
  /\ targets = [q \in Requests |-> {}]

Goto(q, label) == step' = [step EXCEPT ![q] = label]

(* 400 if there is no such template.                                       *)
LookUpTemplate(q) ==
  /\ step[q] = "new"
  /\ Goto(q, IF Known(Uses[q]) THEN "known" ELSE "unknown")
  /\ UNCHANGED <<user, catalog, targets>>

(* 400 if a variable is missing or the template does not render.           *)
RefuseVariables(q) ==
  /\ step[q] = "known"
  /\ Goto(q, "invalid")
  /\ UNCHANGED <<user, catalog, targets>>

ReadPreferences(q) ==
  /\ step[q] = "known"
  /\ targets' = [targets EXCEPT ![q] = FilterChannels(Enabled(row), Wanted[q])]
  /\ Goto(q, "filtered")
  /\ UNCHANGED <<user, catalog>>

Next ==
  \/ PrefsNext /\ UNCHANGED <<catalog, step, targets>>
  \/ TemplatesNext /\ UNCHANGED <<user, step, targets>>
  \/ \E q \in Requests : LookUpTemplate(q) \/ RefuseVariables(q) \/ ReadPreferences(q)

Spec == Init /\ [][Next]_vars

-----------------------------------------------------------------------------
(* Properties.                                                             *)

TypeOK ==
  /\ PrefsTypeOK
  /\ TemplatesTypeOK
  /\ step \in [Requests -> {"new", "known", "unknown", "invalid", "filtered"}]
  /\ targets \in [Requests -> SUBSET Channels]
  /\ \A q \in Requests : step[q] \in {"known", "filtered"} => Known(Uses[q])

(* A request that reads the preferences after an opt-out was answered does *)
(* not target that channel, unless an upsert that was not over when the    *)
(* opt-out began has asked for the channel by then.                        *)
OptOutHonoured ==
  [][\A q \in Requests, u \in Upserts, c \in Channels :
       /\ step[q] = "known" /\ step'[q] = "filtered"
       /\ at[u] = "ok" /\ ~ Asked[u][c]
       /\ \A v \in Upserts \ before[u] : at[v] \in {"written", "ok", "error"} => ~ Asked[v][c]
       => c \notin targets'[q]]_vars

(* Nor is a channel left out that nobody has turned off.                   *)
NothingWithheld ==
  [][\A q \in Requests, c \in Channels :
       /\ step[q] = "known" /\ step'[q] = "filtered"
       /\ Wanted[q] = {} \/ c \in Wanted[q]
       /\ \A v \in Upserts : at[v] \in {"written", "ok", "error"} => Asked[v][c]
       => c \in targets'[q]]_vars

=============================================================================
