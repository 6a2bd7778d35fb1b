------------------------------ MODULE ModelMix ------------------------------
(***************************************************************************)
(* The mix of models of a line and the production plans generated from it  *)
(* (assembly/models.py, ModelMixPlan.generate_production_plans).           *)
(*                                                                         *)
(* The plan of a mix item is found by its code alone, the first 80         *)
(* characters of the mix's code and the version's.  Version codes are      *)
(* unique within a product, and a mix's code may be as long as the cut: so *)
(* items of one mix or of two may have the same plan code (CodeOf), as may *)
(* a plan that somebody types.  Requests, which open no transaction,       *)
(* interleave statement by statement.                                      *)
(*                                                                         *)
(* Of the forms, those that create an item, that set the status of a mix   *)
(* and that save a plan are modelled.  Codes do not change, nor does what  *)
(* an item is of.                                                          *)
(***************************************************************************)
EXTENDS Integers, FiniteSets, FiniteSetsExt

CONSTANTS
  Items,        \* items that may be added to the mixes, numbered in their order
  MixOf,        \* [Items -> mixes]: the mix of an item
  VersionOf,    \* [Items -> versions]: its product version
  CodeOf,       \* [Items -> codes]: the code of its plan
  MixRequests,  \* requests at once: a bound
  NoMixPlan     \* "no plan generated"

Mixes == {MixOf[i] : i \in Items}
Versions == {VersionOf[i] : i \in Items}
Codes == {CodeOf[i] : i \in Items}

ASSUME MixAssumption == Items \subseteq Nat /\ NoMixPlan \notin Codes

VARIABLES
  mixStatus,   \* ModelMixPlan.status of each mix
  mixItems,    \* items added to the mixes
  mixPlan,     \* ModelMixPlanItem.production_plan of each item, by code
  planOf,      \* ProductionPlan rows by code: version and status
  typed,       \* history: codes under which somebody saved a plan by hand
  mixReq       \* the requests that generate plans

mixVars == <<mixStatus, mixItems, mixPlan, planOf, typed, mixReq>>

\* "ENDED" stands for CLOSED and CANCELLED and "OPEN" for the other statuses, of a mix and
\* of a plan: plans are generated from a draft as from an active mix.
MixStatus == {"OPEN", "ENDED"}
NoPlanRow == [status |-> "ABSENT"]
MixPlanRow == [status : MixStatus, version : Versions]

NoMixReq == [todo |-> {}, found |-> "not_yet"]
Findings == {"not_yet", "made", "open", "ended"}

ModelMixTypeOK ==
  /\ mixStatus \in [Mixes -> MixStatus]
  /\ mixItems \subseteq Items
  /\ mixPlan \in [Items -> Codes \union {NoMixPlan}]
  /\ planOf \in [Codes -> MixPlanRow \union {NoPlanRow}]
  /\ typed \subseteq Codes
  /\ mixReq \in [MixRequests -> [todo : SUBSET Items, found : Findings]]

ModelMixInit ==
  /\ mixStatus \in [Mixes -> MixStatus]
  /\ mixItems = {}
  /\ mixPlan = [i \in Items |-> NoMixPlan]
  /\ planOf = [c \in Codes |-> NoPlanRow]
  /\ typed = {}
  /\ mixReq = [r \in MixRequests |-> NoMixReq]

ItemsOf(m) == {i \in mixItems : MixOf[i] = m}

\* ModelMixPlanItemForm: an item can be added to a mix of any status.
AddItem(i) ==
  /\ i \notin mixItems
  /\ mixItems' = mixItems \union {i}
  /\ UNCHANGED <<mixStatus, mixPlan, planOf, typed, mixReq>>

\* close and cancel, as ModelMixPlanDetailView offers them
EndMix(m) ==
  /\ mixStatus[m] = "OPEN"
  /\ mixStatus' = [mixStatus EXCEPT ![m] = "ENDED"]
  /\ UNCHANGED <<mixItems, mixPlan, planOf, typed, mixReq>>

\* The form of a mix takes any status.
SaveMixForm(m, to) ==
  /\ mixStatus' = [mixStatus EXCEPT ![m] = to]
  /\ UNCHANGED <<mixItems, mixPlan, planOf, typed, mixReq>>

StartGenerating(r, m) ==
  /\ mixReq[r] = NoMixReq
  /\ mixStatus[m] = "OPEN"
  /\ ItemsOf(m) # {}
  /\ mixReq' = [mixReq EXCEPT ![r].todo = ItemsOf(m)]
  /\ UNCHANGED <<mixStatus, mixItems, mixPlan, planOf, typed>>

Item(r) == Min(mixReq[r].todo)

\* get_or_create with the defaults of the mix's first item
FindPlanOfFirst(r) ==
  /\ mixReq[r].todo # {}
  /\ mixReq[r].found = "not_yet"
  /\ LET c == CodeOf[Item(r)]
     IN IF planOf[c] = NoPlanRow
        THEN /\ planOf' = [planOf EXCEPT ![c] = [status |-> "OPEN",
                                    version |-> VersionOf[Min(ItemsOf(MixOf[Item(r)]))]]]
             /\ mixReq' = [mixReq EXCEPT ![r].found = "made"]
        ELSE /\ planOf' = planOf
             /\ mixReq' = [mixReq EXCEPT ![r].found =
                  IF planOf[c].status = "OPEN" THEN "open" ELSE "ended"]
  /\ UNCHANGED <<mixStatus, mixItems, mixPlan, typed>>

\* get_or_create, by the code
FindPlan(r) ==
  /\ mixReq[r].todo # {}
  /\ mixReq[r].found = "not_yet"
  /\ LET c == CodeOf[Item(r)]
     IN IF planOf[c] = NoPlanRow
        THEN /\ planOf' = [planOf EXCEPT ![c] = [status |-> "OPEN", version |-> VersionOf[Item(r)]]]
             /\ mixReq' = [mixReq EXCEPT ![r].found = "made"]
        ELSE /\ planOf' = planOf
             /\ mixReq' = [mixReq EXCEPT ![r].found =
                  IF planOf[c].status = "OPEN" THEN "open" ELSE "ended"]
  /\ UNCHANGED <<mixStatus, mixItems, mixPlan, typed>>

Linked(r) ==
  /\ mixPlan' = [mixPlan EXCEPT ![Item(r)] = CodeOf[Item(r)]]
  /\ mixReq' = [mixReq EXCEPT ![r] = [todo |-> @.todo \ {Item(r)}, found |-> "not_yet"]]
  /\ UNCHANGED <<mixStatus, mixItems, typed>>

\* A plan that was found open is given the item's version; the item is linked to it.
LinkItem(r) ==
  /\ mixReq[r].found # "not_yet"
  /\ planOf' = IF mixReq[r].found = "open"
               THEN [planOf EXCEPT ![CodeOf[Item(r)]].version = VersionOf[Item(r)]] ELSE planOf
  /\ Linked(r)

MixReqDies(r) ==
  /\ mixReq[r] # NoMixReq
  /\ mixReq' = [mixReq EXCEPT ![r] = NoMixReq]
  /\ UNCHANGED <<mixStatus, mixItems, mixPlan, planOf, typed>>

\* The plan's own screen closes or cancels it.
ClosePlan(c) ==
  /\ planOf[c].status = "OPEN"
  /\ planOf' = [planOf EXCEPT ![c].status = "ENDED"]
  /\ UNCHANGED <<mixStatus, mixItems, mixPlan, typed, mixReq>>

\* The form of a plan creates or edits one under any code, with any version and status.
TypePlan(c, v, status) ==
  /\ planOf' = [planOf EXCEPT ![c] = [status |-> status, version |-> v]]
  /\ typed' = typed \union {c}
  /\ UNCHANGED <<mixStatus, mixItems, mixPlan, mixReq>>

ModelMixNext ==
  \/ \E i \in Items : AddItem(i)
  \/ \E m \in Mixes : EndMix(m) \/ \E to \in MixStatus : SaveMixForm(m, to)
  \/ \E c \in Codes : \/ ClosePlan(c)
                     \/ \E v \in Versions, s \in MixStatus : TypePlan(c, v, s)
  \/ \E r \in MixRequests : \/ \E m \in Mixes : StartGenerating(r, m)
                            \/ FindPlan(r) \/ LinkItem(r) \/ MixReqDies(r)

ModelMixSpec == ModelMixInit /\ [][ModelMixNext]_mixVars

(***************************************************************************)
(* Properties that hold.                                                   *)
(***************************************************************************)
\* However often, by whomever and with whatever deaths plans are generated, the plan of
\* an item is a plan of the item's version, as long as no item of another version, of this
\* mix or of another, has come to the same code and nobody saved a plan under it by hand.
PlanOfUniqueCode ==
  \A i \in Items :
    /\ mixPlan[i] # NoMixPlan
    /\ \A j \in mixItems : CodeOf[j] = CodeOf[i] => VersionOf[j] = VersionOf[i]
    /\ CodeOf[i] \notin typed
    => planOf[mixPlan[i]] # NoPlanRow /\ planOf[mixPlan[i]].version = VersionOf[i]

(***************************************************************************)
(* What an assertion of the code says and is not so.                       *)
(***************************************************************************)
\* assembly/models.py:1383 (ModelMixPlanItem.clean): the plan generated for an item is of
\* the item's version.
ItemPlanOfItsVersion ==
  \A i \in Items : mixPlan[i] # NoMixPlan => planOf[mixPlan[i]].version = VersionOf[i]
=============================================================================
