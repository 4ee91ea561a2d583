----------------------------- MODULE Templates -----------------------------
(***************************************************************************)
(* Concurrent executions of POST /templates: the name is looked up, then   *)
(* the template is inserted.  A template is named by the request that      *)
(* created it, and is never deleted or renamed by the service.             *)
(***************************************************************************)
CONSTANTS
  Creations,  \* executions of the handler
  Names,
  Name        \* the name each asks for

ASSUME NameAssumption == Name \in [Creations -> Names]

VARIABLES
  templates,  \* committed templates
  doing       \* where each creation is

catalog == <<templates, doing>>

-----------------------------------------------------------------------------
Known(n) == \E t \in templates : Name[t] = n

CreationGoto(t, label) == doing' = [doing EXCEPT ![t] = label]

TemplatesInit ==
  /\ templates = {}
  /\ doing = [t \in Creations |-> "new"]

(* An existing name is answered with 400.                                  *)
LookUpName(t) ==
  /\ doing[t] = "new"
  /\ CreationGoto(t, IF Known(Name[t]) THEN "exists" ELSE "inserting")
  /\ UNCHANGED templates

\* Mutant of InsertTemplate: no unique index.
InsertTemplateUnchecked(t) ==
  /\ doing[t] = "inserting"
  /\ templates' = templates \cup {t}
  /\ CreationGoto(t, "inserted")

(* The unique index on the name answers for the creations that overlap:    *)
(* IntegrityError, which the handler does not catch.                       *)
InsertTemplate(t) ==
  /\ doing[t] = "inserting"
  /\ \/ /\ ~ Known(Name[t])
        /\ templates' = templates \cup {t}
        /\ CreationGoto(t, "inserted")
     \/ /\ Known(Name[t])
        /\ CreationGoto(t, "conflict")
        /\ UNCHANGED templates

RefreshTemplate(t) ==
  /\ doing[t] = "inserted"
  /\ CreationGoto(t, "created")
  /\ UNCHANGED templates

(* The database fails before the commit or after it.                       *)
CreationFails(t) ==
  /\ doing[t] \in {"inserting", "inserted"}
  /\ CreationGoto(t, "error")
  /\ UNCHANGED templates

TemplatesNext ==
  \E t \in Creations :
    LookUpName(t) \/ InsertTemplate(t) \/ RefreshTemplate(t) \/ CreationFails(t)

-----------------------------------------------------------------------------
(* Properties.                                                             *)

TemplatesTypeOK ==
  /\ templates \subseteq Creations
  /\ doing \in [Creations -> {"new", "inserting", "inserted",
                              "created", "exists", "conflict", "error"}]

(* Of the creations of one name that overlap, one template comes about: no *)
(* name has two templates, on which scalar_one_or_none of every later      *)
(* request would raise, and once a creation has been turned away or        *)
(* answered 201 there is one.                                              *)
OneTemplate ==
  \A s \in Creations :
    /\ s \in templates => \A t \in templates : Name[t] = Name[s] => t = s
    /\ doing[s] \in {"created", "exists", "conflict"} => Known(Name[s])

=============================================================================
