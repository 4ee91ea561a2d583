-------------------------- MODULE AcceptanceProofs --------------------------
(***************************************************************************)
(* The preferences of a user, the templates and the requests that read     *)
(* them, for any number of overlapping upserts, creations and requests and *)
(* any channels.                                                           *)
(***************************************************************************)
EXTENDS Acceptance, TLAPS

PrefsSpec     == PrefsInit /\ [][PrefsNext]_user
TemplatesSpec == TemplatesInit /\ [][TemplatesNext]_catalog

LEMMA ImplementsParts == Spec => PrefsSpec /\ TemplatesSpec
<1>1. Init => PrefsInit /\ TemplatesInit
  BY DEF Init
<1>2. [Next]_vars => [PrefsNext]_user /\ [TemplatesNext]_catalog
  BY DEF Next, vars, LookUpTemplate, RefuseVariables, ReadPreferences
<1> QED
  BY <1>1, <1>2, PTL DEF Spec, PrefsSpec, TemplatesSpec

-----------------------------------------------------------------------------
(* Types of the preferences.                                               *)

Step(u) ==
  ReadRow(u) \/ WriteUpdate(u) \/ WriteInsert(u) \/ RefreshRow(u) \/ UpsertFails(u)

(* A row once seen or written is there.                                    *)
LEMMA PrefsTypeCorrect == Spec => []PrefsTypeOK
<1>1. PrefsInit => PrefsTypeOK
  BY DEF PrefsInit, PrefsTypeOK, Rows
<1>2. PrefsTypeOK /\ [PrefsNext]_user => PrefsTypeOK'
  <2> SUFFICES ASSUME PrefsTypeOK, [PrefsNext]_user PROVE PrefsTypeOK'
    OBVIOUS
  <2>1. ASSUME NEW u \in Upserts, ReadRow(u) PROVE PrefsTypeOK'
    BY <2>1 DEF ReadRow, UpsertGoto, PrefsTypeOK
  <2>2. ASSUME NEW u \in Upserts, WriteUpdate(u) PROVE PrefsTypeOK'
    <3>1. seen[u] \in [Channels -> BOOLEAN] /\ row \in [Channels -> BOOLEAN]
      BY <2>2 DEF WriteUpdate, PrefsTypeOK, Rows
    <3>2. row' \in [Channels -> BOOLEAN]
      BY <2>2, <3>1, AskedAssumption DEF WriteUpdate
    <3> QED
      BY <2>2, <3>2, AskedAssumption DEF WriteUpdate, UpsertGoto, PrefsTypeOK, Rows
  <2>3. ASSUME NEW u \in Upserts, WriteInsert(u) PROVE PrefsTypeOK'
    BY <2>3, AskedAssumption DEF WriteInsert, UpsertGoto, PrefsTypeOK, Rows
  <2>4. ASSUME NEW u \in Upserts, RefreshRow(u) PROVE PrefsTypeOK'
    BY <2>4 DEF RefreshRow, UpsertGoto, PrefsTypeOK
  <2>5. ASSUME NEW u \in Upserts, UpsertFails(u) PROVE PrefsTypeOK'
    BY <2>5 DEF UpsertFails, UpsertGoto, PrefsTypeOK
  <2>6. CASE UNCHANGED user
    BY <2>6 DEF user, PrefsTypeOK
  <2> QED
    BY <2>1, <2>2, <2>3, <2>4, <2>5, <2>6 DEF PrefsNext
<1> QED
  BY <1>1, <1>2, ImplementsParts, PTL DEF PrefsSpec

-----------------------------------------------------------------------------
(* The last word.                                                          *)

(* An upsert counts from its commit on, also if its answer was an error.   *)
Over(v) == at[v] \in {"written", "ok", "error"}

Opposes(v, u, c) == v \notin before[u] /\ Over(v) /\ Asked[v][c] # Asked[u][c]

(* LastWord has to hold from the moment on at which a column is as asked:  *)
(* the read, for a column the upsert does not write.  An upsert that has   *)
(* still to write is in nobody's `before`.                                 *)
WordInv ==
  /\ \A u \in Upserts : \A c \in Taken(u) :
       Enabled(row)[c] # Asked[u][c] => \E v \in Upserts : Opposes(v, u, c)
  /\ \A u \in Upserts : \A v \in before[u] : at[v] = "ok"

(* A step of one upsert that leaves every other's session alone.           *)
LEMMA OthersKeep ==
  ASSUME PrefsTypeOK, NEW u \in Upserts, Step(u), NEW v \in Upserts, v # u
  PROVE  at'[v] = at[v] /\ seen'[v] = seen[v] /\ before'[v] = before[v] /\ Taken(v)' = Taken(v)
<1>1. at'[v] = at[v] /\ seen'[v] = seen[v] /\ before'[v] = before[v]
  BY DEF Step, ReadRow, WriteUpdate, WriteInsert, RefreshRow, UpsertFails, UpsertGoto, PrefsTypeOK
<1> QED
  BY <1>1 DEF Taken

(* Who is over stays over, and who has answered 200 has answered 200.      *)
LEMMA OverStays ==
  ASSUME PrefsTypeOK, NEW u \in Upserts, Step(u), NEW v \in Upserts
  PROVE  (Over(v) => Over(v)') /\ (at[v] = "ok" => at'[v] = "ok")
  BY DEF Step, ReadRow, WriteUpdate, WriteInsert, RefreshRow, UpsertFails, UpsertGoto, PrefsTypeOK, Over

(* No answered upsert is undone except by one that was not over before.    *)
THEOREM LastWordCorrect == Spec => []LastWord
<1>1. PrefsInit => WordInv
  BY DEF PrefsInit, WordInv, Taken
<1>2. PrefsTypeOK /\ PrefsTypeOK' /\ WordInv /\ [PrefsNext]_user => WordInv'
  <2> SUFFICES ASSUME PrefsTypeOK, PrefsTypeOK', WordInv, [PrefsNext]_user PROVE WordInv'
    OBVIOUS
  <2>1. CASE UNCHANGED user
    BY <2>1 DEF user, WordInv, Taken, Opposes, Over
  <2>2. ASSUME NEW u \in Upserts, Step(u) PROVE WordInv'
    <3>1. \A w \in Upserts : \A v \in before'[w] : at'[v] = "ok"
      <4>1. ASSUME NEW w \in Upserts, w # u, NEW v \in before'[w] PROVE at'[v] = "ok"
        BY <2>2, <4>1, OthersKeep, OverStays DEF WordInv, PrefsTypeOK
      <4>2. ASSUME NEW v \in before'[u] PROVE at'[v] = "ok"
        <5>1. v \in Upserts /\ at[v] = "ok"
          BY <2>2, <4>2 DEF Step, ReadRow, WriteUpdate, WriteInsert, RefreshRow, UpsertFails,
                            WordInv, PrefsTypeOK
        <5> QED
          BY <2>2, <5>1, OverStays
      <4> QED
        BY <4>1, <4>2
    <3>2. ASSUME NEW w \in Upserts, NEW c \in Taken(w)', Enabled(row')[c] # Asked[w][c],
                 w # u \/ ~ ReadRow(u), c \in Taken(w), Enabled(row)[c] # Asked[w][c]
          PROVE  \E v \in Upserts : Opposes(v, w, c)'
      <4>1. PICK v \in Upserts : Opposes(v, w, c)
        BY <3>2 DEF WordInv
      <4>2. before'[w] = before[w]
        BY <2>2, <3>2, OthersKeep DEF Step, WriteUpdate, WriteInsert, RefreshRow, UpsertFails
      <4> QED
        BY <2>2, <4>1, <4>2, OverStays DEF Opposes
    <3>3. ASSUME NEW w \in Upserts, NEW c \in Taken(w)', Enabled(row')[c] # Asked[w][c]
          PROVE  \E v \in Upserts : Opposes(v, w, c)'
      <4>1. c \in Channels
        BY <3>3 DEF Taken
      <4>2. CASE ReadRow(u)
        <5>1. row' = row /\ (w = u => \A x \in Taken(u)' : Enabled(row)[x] = Asked[u][x])
          BY <4>2 DEF ReadRow, UpsertGoto, Taken, Enabled, PrefsTypeOK
        <5> QED
          BY <2>2, <3>2, <3>3, <4>2, <5>1, OthersKeep
      <4>3. CASE (WriteUpdate(u) \/ WriteInsert(u)) /\ row' # row
        <5>1. /\ at[u] = "writing" /\ at'[u] = "written"
              /\ row' \in [Channels -> BOOLEAN]
              /\ row'[c] = Asked[u][c] \/ (c \in Taken(u) /\ row'[c] = Enabled(row)[c])
              /\ row'[c] = Asked[u][c] \/ row'[c] = Enabled(row)[c]
          BY <4>1, <4>3, AskedAssumption
             DEF WriteUpdate, WriteInsert, UpsertGoto, PrefsTypeOK, Rows, Taken, Enabled
        <5>2. Enabled(row') = row'
          BY <5>1, AskedAssumption DEF Enabled
        <5>3. CASE w = u
          BY <3>2, <3>3, <4>3, <5>1, <5>2, <5>3 DEF ReadRow, WriteUpdate, WriteInsert
        <5>4. CASE w # u /\ row'[c] = Enabled(row)[c]
          BY <2>2, <3>2, <3>3, <5>2, <5>4, OthersKeep
        <5>5. CASE w # u /\ row'[c] = Asked[u][c]
          <6>1. u \notin before'[w]
            BY <2>2, <5>1, <5>5, OthersKeep DEF WordInv
          <6>2. Opposes(u, w, c)'
            BY <3>3, <5>1, <5>2, <5>5, <6>1 DEF Opposes, Over
          <6> QED
            BY <6>2
        <5> QED
          BY <5>1, <5>3, <5>4, <5>5
      <4>4. CASE row' = row /\ ~ ReadRow(u)
        <5>1. w = u => c \in Taken(u) \/ WriteUpdate(u)
          BY <2>2, <3>3, <4>4 DEF Step, WriteInsert, RefreshRow, UpsertFails, UpsertGoto, Taken, PrefsTypeOK
        <5>2. CASE w # u \/ c \in Taken(w)
          BY <2>2, <3>2, <3>3, <4>4, <5>2, OthersKeep
        <5>3. CASE w = u /\ WriteUpdate(u) /\ c \notin Taken(u)
          <6>1. row # NoRow /\ row'[c] = Asked[u][c]
            BY <4>1, <5>3 DEF WriteUpdate, Taken, PrefsTypeOK
          <6> QED
            BY <3>3, <4>4, <5>3, <6>1 DEF Enabled
        <5> QED
          BY <5>1, <5>2, <5>3
      <4> QED
        BY <2>2, <4>2, <4>3, <4>4 DEF Step, RefreshRow, UpsertFails
    <3> QED
      BY <3>1, <3>3 DEF WordInv
  <2> QED
    BY <2>1, <2>2 DEF PrefsNext, Step
<1>3. WordInv => LastWord
  BY DEF WordInv, LastWord, Opposes, Over, Taken
<1> QED
  BY <1>1, <1>2, <1>3, PrefsTypeCorrect, ImplementsParts, PTL DEF PrefsSpec

-----------------------------------------------------------------------------
(* The refinement.                                                         *)

(* Overlapping upserts implement one independent register per channel: the *)
(* read sets the columns that are as asked, the commit the others.         *)
THEOREM RegisterCorrect == Spec => ImplementsRegister
<1> DEFINE taken == [u \in Upserts |-> Taken(u)]
           answer == [u \in Upserts |-> IF at[u] \in {"ok", "error"} THEN at[u] ELSE "none"]
<1>1. PrefsInit => Register!Init
  BY DEF PrefsInit, Register!Init, Enabled, AllOn, Taken
<1>2. PrefsTypeOK /\ PrefsTypeOK' /\ [PrefsNext]_user => [Register!Next]_(Register!vars)
  <2> SUFFICES ASSUME PrefsTypeOK, PrefsTypeOK', [PrefsNext]_user
               PROVE  Register!Next \/ UNCHANGED <<Enabled(row), taken, answer>>
    BY DEF Register!vars
  <2>1. CASE UNCHANGED user
    BY <2>1 DEF user, Taken
  <2>2. ASSUME NEW u \in Upserts, Step(u) PROVE Register!Next
    <3>1. ASSUME NEW cs \in SUBSET Channels, answer' = answer,
                 at[u] \notin {"ok", "error"}, cs \cap Taken(u) = {},
                 Taken(u)' = Taken(u) \cup cs,
                 Enabled(row') = [c \in Channels |-> IF c \in cs THEN Asked[u][c] ELSE Enabled(row)[c]]
          PROVE  Register!Next
      <4>1. taken' = [taken EXCEPT ![u] = @ \cup cs]
        BY <2>2, <3>1, OthersKeep
      <4>2. Register!Take(u, cs)
        BY <3>1, <4>1 DEF Register!Take
      <4> QED
        BY <4>2 DEF Register!Next
    <3>2. Enabled(row) \in [Channels -> BOOLEAN]
      BY DEF Enabled, AllOn, PrefsTypeOK, Rows
    <3>3. CASE ReadRow(u)
      <4>1. at[u] = "new" /\ at'[u] = "writing" /\ row' = row /\ seen'[u] = row
        BY <3>3 DEF ReadRow, UpsertGoto, PrefsTypeOK
      <4>2. answer' = answer
        BY <2>2, <4>1, OthersKeep
      <4>3. Taken(u) = {} /\ \A c \in Taken(u)' : c \in Channels /\ Asked[u][c] = Enabled(row)[c]
        BY <4>1 DEF Taken, Enabled
      <4>4. Enabled(row') = [c \in Channels |-> IF c \in Taken(u)' THEN Asked[u][c] ELSE Enabled(row)[c]]
        BY <3>2, <4>1, <4>3
      <4> QED
        BY <3>1, <4>1, <4>2, <4>3, <4>4
    <3>4. CASE (WriteUpdate(u) \/ WriteInsert(u)) /\ at'[u] = "written"
      <4>1. /\ at[u] = "writing" /\ Taken(u)' = Channels /\ Taken(u) \subseteq Channels
            /\ row' \in [Channels -> BOOLEAN]
        BY <3>4, AskedAssumption DEF WriteUpdate, WriteInsert, UpsertGoto, Taken, PrefsTypeOK, Rows
      <4>2. answer' = answer
        BY <2>2, <3>4, <4>1, OthersKeep
      <4>3. \A c \in Channels : row'[c] = IF c \in Channels \ Taken(u) THEN Asked[u][c] ELSE Enabled(row)[c]
        <5>1. CASE WriteUpdate(u)
          <6>1. Taken(u) = {c \in Channels : seen[u][c] = Asked[u][c]} /\ Enabled(row) = row
            BY <4>1, <5>1 DEF WriteUpdate, Taken, PrefsTypeOK, Enabled
          <6> QED
            BY <5>1, <6>1 DEF WriteUpdate
        <5>2. CASE WriteInsert(u)
          <6>1. Taken(u) = {}
            BY <4>1, <5>2 DEF WriteInsert, Taken
          <6>2. row' = Asked[u]
            BY <3>4, <5>2 DEF WriteInsert, UpsertGoto, PrefsTypeOK
          <6> QED
            BY <6>1, <6>2
        <5> QED
          BY <3>4, <5>1, <5>2
      <4>4. Enabled(row') = [c \in Channels |-> IF c \in Channels \ Taken(u) THEN Asked[u][c] ELSE Enabled(row)[c]]
        BY <4>1, <4>3, AskedAssumption DEF Enabled
      <4>5. LET cs == Channels \ Taken(u) IN
              cs \in SUBSET Channels /\ cs \cap Taken(u) = {} /\ Taken(u)' = Taken(u) \cup cs
        BY <4>1
      <4>6. at[u] \notin {"ok", "error"}
        BY <4>1
      <4> QED
        BY <3>1, <4>2, <4>4, <4>5, <4>6
    <3>5. CASE UpsertFails(u) \/ (WriteInsert(u) /\ at'[u] # "written")
      <4>1. at[u] \in {"writing", "written"} /\ at'[u] = "error" /\ row' = row
        BY <3>5 DEF UpsertFails, WriteInsert, UpsertGoto, PrefsTypeOK
      <4>2. answer' = [answer EXCEPT ![u] = "error"] /\ taken' = [taken EXCEPT ![u] = {}]
        BY <2>2, <4>1, OthersKeep DEF Taken
      <4>3. Register!GiveUp(u)
        BY <4>1, <4>2 DEF Register!GiveUp
      <4> QED
        BY <4>3 DEF Register!Next
    <3>6. CASE RefreshRow(u)
      <4>1. at[u] = "written" /\ at'[u] = "ok" /\ row' = row
        BY <3>6 DEF RefreshRow, UpsertGoto, PrefsTypeOK
      <4>2. answer' = [answer EXCEPT ![u] = "ok"] /\ taken' = taken
        BY <2>2, <4>1, OthersKeep DEF Taken
      <4>3. Register!Confirm(u)
        BY <4>1, <4>2 DEF Register!Confirm, Taken
      <4> QED
        BY <4>3 DEF Register!Next
    <3> QED
      BY <2>2, <3>3, <3>4, <3>5, <3>6 DEF Step, WriteUpdate, UpsertGoto, PrefsTypeOK
  <2> QED
    BY <2>1, <2>2 DEF PrefsNext, Step
<1> QED
  BY <1>1, <1>2, PrefsTypeCorrect, ImplementsParts, PTL DEF PrefsSpec, ImplementsRegister, Register!Spec

-----------------------------------------------------------------------------
(* The templates.                                                          *)

(* Who has inserted has its template in the table.                         *)
TemplatesInv ==
  /\ TemplatesTypeOK
  /\ OneTemplate
  /\ \A t \in Creations : doing[t] \in {"inserted", "created"} => t \in templates

LEMMA TemplatesCorrect == Spec => []TemplatesInv
<1>1. TemplatesInit => TemplatesInv
  BY DEF TemplatesInit, TemplatesInv, TemplatesTypeOK, OneTemplate
<1>2. TemplatesInv /\ [TemplatesNext]_catalog => TemplatesInv'
  <2> SUFFICES ASSUME TemplatesInv, [TemplatesNext]_catalog PROVE TemplatesInv'
    OBVIOUS
  <2>1. ASSUME NEW t \in Creations, LookUpName(t) PROVE TemplatesInv'
    BY <2>1 DEF LookUpName, CreationGoto, TemplatesInv, TemplatesTypeOK, OneTemplate, Known
  <2>2. ASSUME NEW t \in Creations, InsertTemplate(t) PROVE TemplatesInv'
    <3>1. CASE ~ Known(Name[t])
      BY <2>2, <3>1 DEF InsertTemplate, CreationGoto, TemplatesInv, TemplatesTypeOK, OneTemplate, Known
    <3>2. CASE Known(Name[t])
      BY <2>2, <3>2 DEF InsertTemplate, CreationGoto, TemplatesInv, TemplatesTypeOK, OneTemplate, Known
    <3> QED
      BY <3>1, <3>2
  <2>3. ASSUME NEW t \in Creations, RefreshTemplate(t) \/ CreationFails(t) PROVE TemplatesInv'
    BY <2>3 DEF RefreshTemplate, CreationFails, CreationGoto, TemplatesInv, TemplatesTypeOK,
                OneTemplate, Known
  <2>4. CASE UNCHANGED catalog
    BY <2>4 DEF catalog, TemplatesInv, TemplatesTypeOK, OneTemplate, Known
  <2> QED
    BY <2>1, <2>2, <2>3, <2>4 DEF TemplatesNext
<1> QED
  BY <1>1, <1>2, ImplementsParts, PTL DEF TemplatesSpec

(* A name has at most one template, and one as soon as a creation of it    *)
(* has been turned away or answered 201.                                   *)
THEOREM OneTemplateCorrect == Spec => []OneTemplate
<1>1. TemplatesInv => OneTemplate
  BY DEF TemplatesInv
<1> QED
  BY <1>1, TemplatesCorrect, PTL

-----------------------------------------------------------------------------
(* The requests.                                                           *)

LEMMA KnownStays ==
  ASSUME TemplatesNext \/ UNCHANGED catalog, NEW n \in Names, Known(n)
  PROVE  Known(n)'
<1>1. templates \subseteq templates'
  BY DEF TemplatesNext, LookUpName, InsertTemplate, RefreshTemplate, CreationFails, catalog
<1> QED
  BY <1>1 DEF Known

(* A request that goes on has seen its template, which stays.              *)
RequestsOK ==
  /\ step \in [Requests -> {"new", "known", "unknown", "invalid", "filtered"}]
  /\ targets \in [Requests -> SUBSET Channels]
  /\ \A q \in Requests : step[q] \in {"known", "filtered"} => Known(Uses[q])

(* Every variable has its type, and a request that has been let through    *)
(* names a template that is still there.                                   *)
THEOREM TypeCorrect == Spec => []TypeOK
<1>1. Init => RequestsOK
  BY DEF Init, RequestsOK
<1>2. RequestsOK /\ [Next]_vars => RequestsOK'
  <2> SUFFICES ASSUME RequestsOK, [Next]_vars PROVE RequestsOK'
    OBVIOUS
  <2>1. \A q \in Requests : Known(Uses[q]) => Known(Uses[q])'
    <3>1. TemplatesNext \/ UNCHANGED catalog
      BY DEF Next, vars, LookUpTemplate, RefuseVariables, ReadPreferences
    <3> QED
      BY <3>1, KnownStays, RequestAssumption
  <2>2. CASE UNCHANGED <<step, targets>>
    BY <2>1, <2>2 DEF RequestsOK
  <2>3. ASSUME NEW q \in Requests, LookUpTemplate(q) PROVE RequestsOK'
    BY <2>1, <2>3 DEF LookUpTemplate, Goto, RequestsOK
  <2>4. ASSUME NEW q \in Requests, RefuseVariables(q) PROVE RequestsOK'
    BY <2>1, <2>4 DEF RefuseVariables, Goto, RequestsOK
  <2>5. ASSUME NEW q \in Requests, ReadPreferences(q) PROVE RequestsOK'
    <3>1. FilterChannels(Enabled(row), Wanted[q]) \in SUBSET Channels
      BY DEF FilterChannels
    <3> QED
      BY <2>1, <2>5, <3>1 DEF ReadPreferences, Goto, RequestsOK
  <2> QED
    BY <2>2, <2>3, <2>4, <2>5 DEF Next, vars
<1>3. RequestsOK /\ PrefsTypeOK /\ TemplatesInv => TypeOK
  BY DEF RequestsOK, TypeOK, TemplatesInv
<1> QED
  BY <1>1, <1>2, <1>3, PrefsTypeCorrect, TemplatesCorrect, PTL DEF Spec

(* What a request that passes the filter has read.                         *)
LEMMA Filters ==
  ASSUME Next, NEW q \in Requests, step[q] = "known", step'[q] = "filtered", TypeOK
  PROVE  targets'[q] = FilterChannels(Enabled(row), Wanted[q])
  BY DEF Next, LookUpTemplate, RefuseVariables, ReadPreferences, Goto, TypeOK

(* A request that reads after an opt-out was answered does not target that *)
(* channel, unless an upsert that was not over before has asked for it.    *)
THEOREM OptOutCorrect == Spec => OptOutHonoured
<1>1. LastWord /\ TypeOK /\ [Next]_vars =>
        [\A q \in Requests, u \in Upserts, c \in Channels :
           /\ step[q] = "known" /\ step'[q] = "filtered"
           /\ at[u] = "ok" /\ ~ Asked[u][c]
           /\ \A v \in Upserts \ before[u] : at[v] \in {"written", "ok", "error"} => ~ Asked[v][c]
           => c \notin targets'[q]]_vars
  <2> SUFFICES ASSUME LastWord, TypeOK, Next,
                      NEW q \in Requests, NEW u \in Upserts, NEW c \in Channels,
                      step[q] = "known", step'[q] = "filtered", at[u] = "ok", ~ Asked[u][c],
                      \A v \in Upserts \ before[u] : at[v] \in {"written", "ok", "error"} => ~ Asked[v][c]
               PROVE  c \notin targets'[q]
    OBVIOUS
  <2>1. \A v \in Upserts : Asked[v][c] \in BOOLEAN
    BY AskedAssumption
  <2>2. row # NoRow
    BY DEF TypeOK, PrefsTypeOK
  <2>3. row[c] \in BOOLEAN
    BY <2>2 DEF TypeOK, PrefsTypeOK, Rows
  <2>4. Enabled(row)[c] = row[c]
    BY <2>2 DEF Enabled
  <2>5. row[c] = Asked[u][c]
    <3> SUFFICES ASSUME row[c] # Asked[u][c] PROVE FALSE
      OBVIOUS
    <3>1. PICK v \in Upserts \ before[u] :
            at[v] \in {"written", "ok", "error"} /\ Asked[v][c] # Asked[u][c]
      BY <2>4 DEF LastWord
    <3> QED
      BY <2>1, <3>1
  <2> QED
    BY <2>4, <2>5, Filters DEF FilterChannels
<1> QED
  BY <1>1, LastWordCorrect, TypeCorrect, PTL DEF Spec, OptOutHonoured

(* A committed row holds nothing that no upsert has asked for.             *)
AskedFor ==
  row # NoRow => \A c \in Channels : \E v \in Upserts : Over(v) /\ row[c] = Asked[v][c]

LEMMA AskedForCorrect == Spec => []AskedFor
<1>1. PrefsInit => AskedFor
  BY DEF PrefsInit, AskedFor
<1>2. AskedFor /\ PrefsTypeOK /\ [PrefsNext]_user => AskedFor'
  <2> SUFFICES ASSUME AskedFor, PrefsTypeOK, [PrefsNext]_user PROVE AskedFor'
    OBVIOUS
  <2>1. ASSUME UNCHANGED <<row, at>> PROVE AskedFor'
    BY <2>1 DEF AskedFor, Over
  <2>2. ASSUME NEW u \in Upserts, Step(u) PROVE AskedFor'
    <3>1. \A v \in Upserts : Over(v) => Over(v)'
      BY <2>2, OverStays
    <3>2. CASE row' = row
      BY <3>1, <3>2 DEF AskedFor
    <3>3. CASE row' # row
      <4>1. /\ Over(u)'
            /\ \A c \in Channels : row'[c] = Asked[u][c] \/ (row # NoRow /\ row'[c] = row[c])
        BY <2>2, <3>3, AskedAssumption
           DEF Step, ReadRow, WriteUpdate, WriteInsert, RefreshRow, UpsertFails, UpsertGoto,
               PrefsTypeOK, Over
      <4> QED
        BY <3>1, <4>1 DEF AskedFor
    <3> QED
      BY <3>2, <3>3
  <2> QED
    BY <2>1, <2>2 DEF PrefsNext, Step, user
<1> QED
  BY <1>1, <1>2, PrefsTypeCorrect, ImplementsParts, PTL DEF PrefsSpec

(* No request leaves out a channel that nobody has turned off.             *)
THEOREM NothingWithheldCorrect == Spec => NothingWithheld
<1>1. AskedFor /\ TypeOK /\ [Next]_vars =>
        [\A q \in Requests, c \in Channels :
           /\ step[q] = "known" /\ step'[q] = "filtered"
           /\ Wanted[q] = {} \/ c \in Wanted[q]
           /\ \A v \in Upserts : at[v] \in {"written", "ok", "error"} => Asked[v][c]
           => c \in targets'[q]]_vars
  <2> SUFFICES ASSUME AskedFor, TypeOK, Next, NEW q \in Requests, NEW c \in Channels,
                      step[q] = "known", step'[q] = "filtered",
                      Wanted[q] = {} \/ c \in Wanted[q],
                      \A v \in Upserts : at[v] \in {"written", "ok", "error"} => Asked[v][c]
               PROVE  c \in targets'[q]
    OBVIOUS
  <2>1. Enabled(row)[c]
    BY DEF AskedFor, Over, Enabled, AllOn
  <2> QED
    BY <2>1, Filters DEF FilterChannels
<1> QED
  BY <1>1, AskedForCorrect, TypeCorrect, PTL DEF Spec, NothingWithheld

=============================================================================
