---------------------------- MODULE Preferences ----------------------------
(***************************************************************************)
(* The preferences of one user: concurrent executions of POST              *)
(* /users/{userId}/preferences on the row of user_preferences.             *)
(*                                                                         *)
(* An upsert reads the row and writes it in the same session; the handler  *)
(* is suspended at the read, the commit and the refresh.  The UPDATE sets  *)
(* only the columns that differ from what the session has read.            *)
(***************************************************************************)
CONSTANTS
  Upserts,   \* executions of the handler
  Channels,  \* one boolean column each
  Asked,     \* the columns each upsert asks for
  NoRow

ASSUME AskedAssumption ==
  /\ Asked \in [Upserts -> [Channels -> BOOLEAN]]
  /\ NoRow \notin [Channels -> BOOLEAN]

VARIABLES
  row,    \* the committed row
  at,     \* where each upsert is
  seen,   \* the row as its session holds it
  before  \* history: upserts that had answered 200 when it began

user == <<row, at, seen, before>>

-----------------------------------------------------------------------------
Rows == [Channels -> BOOLEAN] \cup {NoRow}

AllOn == [c \in Channels |-> TRUE]

\* Mutant of Enabled: no row, no channel.
EnabledNone(r) == IF r = NoRow THEN [c \in Channels |-> FALSE] ELSE r

(* A user without a row has opted into every channel.                      *)
Enabled(r) == IF r = NoRow THEN AllOn ELSE r

UpsertGoto(u, label) == at' = [at EXCEPT ![u] = label]

PrefsInit ==
  /\ row    = NoRow
  /\ at     = [u \in Upserts |-> "new"]
  /\ seen   = [u \in Upserts |-> NoRow]
  /\ before = [u \in Upserts |-> {}]

ReadRow(u) ==
  /\ at[u] = "new"
  /\ seen'   = [seen EXCEPT ![u] = row]
  /\ before' = [before EXCEPT ![u] = {v \in Upserts : at[v] = "ok"}]
  /\ UpsertGoto(u, "writing")
  /\ UNCHANGED row

\* Mutant of WriteUpdate: a column once switched off stays off.
WriteUpdateOffOnly(u) ==
  /\ at[u] = "writing" /\ seen[u] # NoRow
  /\ row' = [c \in Channels |-> seen[u][c] /\ Asked[u][c]]
  /\ UpsertGoto(u, "written")
  /\ UNCHANGED <<seen, before>>

WriteUpdate(u) ==
  /\ at[u] = "writing" /\ seen[u] # NoRow
  /\ row' = [c \in Channels |-> IF Asked[u][c] # seen[u][c] THEN Asked[u][c] ELSE row[c]]
  /\ UpsertGoto(u, "written")
  /\ UNCHANGED <<seen, before>>

\* Mutant of WriteInsert: the commit is forgotten.
WriteInsertUncommitted(u) ==
  /\ at[u] = "writing" /\ seen[u] = NoRow
  /\ UpsertGoto(u, "written")
  /\ UNCHANGED <<row, seen, before>>

(* The primary key refuses a second row of the user: IntegrityError.       *)
WriteInsert(u) ==
  /\ at[u] = "writing" /\ seen[u] = NoRow
  /\ \/ row = NoRow /\ row' = Asked[u] /\ UpsertGoto(u, "written")
     \/ row # NoRow /\ UpsertGoto(u, "error") /\ UNCHANGED row
  /\ UNCHANGED <<seen, before>>

(* refresh() reads the row once more for the response.                     *)
RefreshRow(u) ==
  /\ at[u] = "written"
  /\ UpsertGoto(u, "ok")
  /\ UNCHANGED <<row, seen, before>>

(* The database fails before the commit, or after it, or its confirmation  *)
(* is lost.                                                                *)
UpsertFails(u) ==
  /\ at[u] \in {"writing", "written"}
  /\ UpsertGoto(u, "error")
  /\ UNCHANGED <<row, seen, before>>

PrefsNext ==
  \E u \in Upserts :
    \/ ReadRow(u) \/ WriteUpdate(u) \/ WriteInsert(u) \/ RefreshRow(u)
    \/ UpsertFails(u)

-----------------------------------------------------------------------------
(* Properties.                                                             *)

PrefsTypeOK ==
  /\ row    \in Rows
  /\ at     \in [Upserts -> {"new", "writing", "written", "ok", "error"}]
  /\ seen   \in [Upserts -> Rows]
  /\ before \in [Upserts -> SUBSET Upserts]
  /\ \A u \in Upserts : at[u] \in {"written", "ok"} \/ seen[u] # NoRow => row # NoRow

(* A channel is set against what an upsert has asked for and been answered *)
(* 200 only if another upsert, not already answered when this one began,   *)
(* asked for the opposite: no answered opt-out is lost to an upsert that   *)
(* agrees with it on that channel or that was over before.                 *)
LastWord ==
  \A u \in Upserts, c \in Channels :
    at[u] = "ok" /\ Enabled(row)[c] # Asked[u][c] =>
      \E v \in Upserts \ before[u] :
        at[v] \in {"written", "ok", "error"} /\ Asked[v][c] # Asked[u][c]

(* The columns an upsert need not write any more: those that were as asked *)
(* when it read them, and all of them after its commit.                    *)
Taken(u) ==
  CASE at[u] \in {"written", "ok"} -> Channels
    [] at[u] = "writing" -> {c \in Channels : seen[u] # NoRow /\ seen[u][c] = Asked[u][c]}
    [] OTHER -> {}

Register == INSTANCE PreferenceRegister WITH
  enabled <- Enabled(row),
  taken   <- [u \in Upserts |-> Taken(u)],
  answer  <- [u \in Upserts |-> IF at[u] \in {"ok", "error"} THEN at[u] ELSE "none"]

(* Overlapping upserts behave as if each set every single channel at one   *)
(* moment, although each writes only some columns of a row it read before. *)
ImplementsRegister == Register!Spec

=============================================================================
