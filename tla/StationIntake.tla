--------------------------- MODULE StationIntake ---------------------------
(***************************************************************************)
(* How station events of one unit at one station come in: the console of   *)
(* the web, the API, the equipment collector and the terminals that were   *)
(* offline (assembly/services.py, assembly/api.py, assembly/views.py).     *)
(*                                                                         *)
(* The API, the collector and a sync record inside a transaction, of which *)
(* others see nothing until it commits; what it has read may be stale by   *)
(* then, no row being locked.  The console has no transaction: its event   *)
(* and the unit's new status are two writes, and so are the event of a     *)
(* sync and the row that says it is synced.  Whoever serves a request may  *)
(* die between any two of them.                                            *)
(*                                                                         *)
(* The station is the last of its route and has no gate; the events that   *)
(* fail or rework the unit are in UnitLifecycle.  A call of the API that   *)
(* gives no reference, so that nothing recognises it, is left out.         *)
(***************************************************************************)
EXTENDS Integers, FiniteSets

CONSTANTS
  Refs,            \* external references of messages
  SourceOf,        \* [Refs -> {"API", "EQUIPMENT", "OFFLINE"}]: who sends each
  TypeOf,          \* [Refs -> event types]: what each says
  IntakeRequests,  \* requests at once: a bound
  MaxRecorded,     \* events of one reference, or of the console: a bound
  NoRef            \* the console's events are not recognised by a reference

IntakeTypes == {"STARTED", "PAUSED", "RESUMED", "COMPLETED"}

ASSUME IntakeAssumption ==
  /\ NoRef \notin Refs
  /\ SourceOf \in [Refs -> {"API", "EQUIPMENT", "OFFLINE"}]
  /\ TypeOf \in [Refs -> IntakeTypes]
  /\ MaxRecorded \in Nat \ {0}

VARIABLES
  recorded,     \* how many UnitStationEvent rows there are of each reference
  latest,       \* type of the newest event of the unit at the station
  everDone,     \* history: a COMPLETED event was recorded
  intakeStatus, \* SerializedUnit.status
  inbound,      \* EquipmentInboundEvent.status by external_id
  offline,      \* StationOfflineEvent.status by external_id
  linked,       \* the offline rows with a station_event
  overlapped,   \* history: messages that two requests had in hand at once
  intakeReq     \* what each request is doing

intakeVars == <<recorded, latest, everDone, intakeStatus, inbound, offline, linked,
                overlapped, intakeReq>>

Equipment == {x \in Refs : SourceOf[x] = "EQUIPMENT"}
Offline == {x \in Refs : SourceOf[x] = "OFFLINE"}
\* No unique row is inserted for a message of the API, nor for the event of a sync.
Unclaimed == Refs \ Equipment
NoIntake == [pc |-> "idle"]
IntakeRequest ==
  [pc : {"allowed", "refused", "found"}, ref : Refs \union {NoRef}, type : IntakeTypes]
    \union [pc : {"effects"}, type : IntakeTypes]
    \union [pc : {"mark"}, ref : Refs, to : {"SYNCED", "REJECTED"}]

StationIntakeTypeOK ==
  /\ recorded \in [Refs \union {NoRef} -> 0 .. MaxRecorded]
  /\ latest \in IntakeTypes \union {"NONE"}
  /\ everDone \in BOOLEAN
  /\ intakeStatus \in {"REGISTERED", "IN_PROCESS", "COMPLETED"}
  /\ inbound \in [Equipment -> {"ABSENT", "PROCESSED", "REJECTED"}]
  /\ offline \in [Offline -> {"ABSENT", "PENDING", "SYNCED", "REJECTED"}]
  /\ linked \subseteq Offline
  /\ overlapped \subseteq Unclaimed
  /\ intakeReq \in [IntakeRequests -> IntakeRequest \union {NoIntake}]

StationIntakeInit ==
  /\ recorded = [x \in Refs \union {NoRef} |-> 0]
  /\ latest = "NONE"
  /\ everDone = FALSE
  /\ intakeStatus = "REGISTERED"
  /\ inbound = [x \in Equipment |-> "ABSENT"]
  /\ offline = [x \in Offline |-> "ABSENT"]
  /\ linked = {}
  /\ overlapped = {}
  /\ intakeReq = [r \in IntakeRequests |-> NoIntake]

\* available_station_actions; the step is current until it is completed.
Allowed(type) ==
  CASE latest = "NONE" -> type = "STARTED"
    [] latest \in {"STARTED", "RESUMED"} -> type \in {"PAUSED", "COMPLETED"}
    [] latest = "PAUSED" -> type = "RESUMED"
    [] OTHER -> FALSE

InHand(x) == {r \in IntakeRequests : intakeReq[r] # NoIntake /\ intakeReq[r].pc # "effects"
                                     /\ intakeReq[r].ref = x}

\* A request takes up a message beside those that have it in hand.
TakenUp(x) == overlapped' = IF InHand(x) = {} THEN overlapped ELSE overlapped \union {x}

Verdict(type) == IF Allowed(type) THEN "allowed" ELSE "refused"

Judged(r, x) ==
  intakeReq' = [intakeReq EXCEPT ![r] =
    [ref |-> x, type |-> TypeOf[x], pc |-> Verdict(TypeOf[x])]]

JudgedKnown(r, x) ==
  intakeReq' = [intakeReq EXCEPT ![r] =
    [ref |-> x, type |-> TypeOf[x],
     pc |-> IF recorded[x] > 0 THEN "found" ELSE Verdict(TypeOf[x])]]

(***************************************************************************)
(* The start of a request: what it reads                                   *)
(***************************************************************************)
\* StationConsoleView.post; what is refused only shows a message.
Console(r, type) ==
  /\ intakeReq[r] = NoIntake
  /\ Allowed(type)
  /\ recorded[NoRef] < MaxRecorded
  /\ intakeReq' = [intakeReq EXCEPT ![r] = [pc |-> "allowed", ref |-> NoRef, type |-> type]]
  /\ UNCHANGED <<recorded, latest, everDone, intakeStatus, inbound, offline, linked, overlapped>>

\* StationEventCreateView: record_station_event with the caller's reference
Api(r, x) ==
  /\ intakeReq[r] = NoIntake
  /\ SourceOf[x] = "API"
  /\ JudgedKnown(r, x)
  /\ TakenUp(x)
  /\ UNCHANGED <<recorded, latest, everDone, intakeStatus, inbound, offline, linked>>

\* process_equipment_event without the unique external_id
CollectAny(r, x) ==
  /\ intakeReq[r] = NoIntake
  /\ x \in Equipment
  /\ inbound[x] = "ABSENT"
  /\ Judged(r, x)
  /\ UNCHANGED <<recorded, latest, everDone, intakeStatus, inbound, offline, linked, overlapped>>

\* process_equipment_event: an external_id that another transaction is inserting makes
\* this one wait; one that is there is answered as it is.
Collect(r, x) ==
  /\ intakeReq[r] = NoIntake
  /\ x \in Equipment
  /\ inbound[x] = "ABSENT"
  /\ InHand(x) = {}
  /\ Judged(r, x)
  /\ UNCHANGED <<recorded, latest, everDone, intakeStatus, inbound, offline, linked, overlapped>>

\* StationOfflineEventSyncView without auto_sync, or the create form
Upload(x) ==
  /\ x \in Offline
  /\ offline[x] = "ABSENT"
  /\ offline' = [offline EXCEPT ![x] = "PENDING"]
  /\ UNCHANGED <<recorded, latest, everDone, intakeStatus, inbound, linked, overlapped, intakeReq>>

\* sync that does not look for an event of the same reference
SyncBlind(r, x) ==
  /\ intakeReq[r] = NoIntake
  /\ x \in Offline
  /\ offline[x] \in {"PENDING", "REJECTED"}
  /\ Judged(r, x)
  /\ TakenUp(x)
  /\ UNCHANGED <<recorded, latest, everDone, intakeStatus, inbound, offline, linked>>

\* sync: an event of the same reference is taken for this one's.
Sync(r, x) ==
  /\ intakeReq[r] = NoIntake
  /\ x \in Offline
  /\ offline[x] \in {"PENDING", "REJECTED"}
  /\ JudgedKnown(r, x)
  /\ TakenUp(x)
  /\ UNCHANGED <<recorded, latest, everDone, intakeStatus, inbound, offline, linked>>

(***************************************************************************)
(* What it writes                                                          *)
(***************************************************************************)
\* What follows the transaction: a sync has its row to mark.
Then(x, to) == IF x \in Offline THEN [pc |-> "mark", ref |-> x, to |-> to] ELSE NoIntake

\* The row of UnitStationEvent.  A message brings its event_at: an event may be earlier
\* than the newest, the console's too if a message was dated in the future.
NewEvent(x, type, late) ==
  /\ recorded[x] < MaxRecorded
  /\ late => latest # "NONE" /\ (x # NoRef \/ \E y \in Refs : recorded[y] > 0)
  /\ recorded' = [recorded EXCEPT ![x] = @ + 1]
  /\ latest' = IF late THEN latest ELSE type
  /\ everDone' = (everDone \/ type = "COMPLETED")

\* apply_station_event_effects
StatusAfter(type) == IF type = "COMPLETED" THEN "COMPLETED" ELSE "IN_PROCESS"

\* The console saves the status first.
ConsoleStatusFirst(r, late) ==
  /\ intakeReq[r].pc = "allowed"
  /\ intakeReq[r].ref = NoRef
  /\ intakeStatus' = StatusAfter(intakeReq[r].type)
  /\ intakeReq' = [intakeReq EXCEPT ![r] = [pc |-> "effects", type |-> @.type]]
  /\ UNCHANGED <<recorded, latest, everDone, inbound, offline, linked, overlapped>>

\* The console creates the event; the unit's status is still to be saved.
ConsoleCreate(r, late) ==
  /\ intakeReq[r].pc = "allowed"
  /\ intakeReq[r].ref = NoRef
  /\ NewEvent(NoRef, intakeReq[r].type, late)
  /\ intakeReq' = [intakeReq EXCEPT ![r] = [pc |-> "effects", type |-> @.type]]
  /\ UNCHANGED <<intakeStatus, inbound, offline, linked, overlapped>>

ConsoleEffects(r) ==
  /\ intakeReq[r].pc = "effects"
  /\ intakeStatus' = StatusAfter(intakeReq[r].type)
  /\ intakeReq' = [intakeReq EXCEPT ![r] = NoIntake]
  /\ UNCHANGED <<recorded, latest, everDone, inbound, offline, linked, overlapped>>

\* A transaction commits: the event, its effects and, of the collector, the message.
Commit(r, late) ==
  /\ intakeReq[r].pc = "allowed"
  /\ intakeReq[r].ref # NoRef
  /\ LET x == intakeReq[r].ref
     IN /\ NewEvent(x, intakeReq[r].type, late)
        /\ inbound' = IF x \in Equipment THEN [inbound EXCEPT ![x] = "PROCESSED"] ELSE inbound
        /\ intakeReq' = [intakeReq EXCEPT ![r] = Then(x, "SYNCED")]
  /\ intakeStatus' = StatusAfter(intakeReq[r].type)
  /\ UNCHANGED <<offline, linked, overlapped>>

\* The event of the reference is there: nothing is created.
CommitFound(r) ==
  /\ intakeReq[r].pc = "found"
  /\ intakeReq' = [intakeReq EXCEPT ![r] = Then(@.ref, "SYNCED")]
  /\ UNCHANGED <<recorded, latest, everDone, intakeStatus, inbound, offline, linked, overlapped>>

\* The rules refuse the event: the collector's message is kept as rejected.
CommitRefused(r) ==
  /\ intakeReq[r].pc = "refused"
  /\ LET x == intakeReq[r].ref
     IN /\ inbound' = IF x \in Equipment THEN [inbound EXCEPT ![x] = "REJECTED"] ELSE inbound
        /\ intakeReq' = [intakeReq EXCEPT ![r] = Then(x, "REJECTED")]
  /\ UNCHANGED <<recorded, latest, everDone, intakeStatus, offline, linked, overlapped>>

\* The end of sync: a rejection leaves the link as it is.
Mark(r) ==
  /\ intakeReq[r].pc = "mark"
  /\ LET x == intakeReq[r].ref
     IN /\ offline' = [offline EXCEPT ![x] = intakeReq[r].to]
        /\ linked' = IF intakeReq[r].to = "SYNCED" THEN linked \union {x} ELSE linked
  /\ intakeReq' = [intakeReq EXCEPT ![r] = NoIntake]
  /\ UNCHANGED <<recorded, latest, everDone, intakeStatus, inbound, overlapped>>

\* What was not committed is gone, what was stays.
IntakeDies(r) ==
  /\ intakeReq[r] # NoIntake
  /\ intakeReq' = [intakeReq EXCEPT ![r] = NoIntake]
  /\ UNCHANGED <<recorded, latest, everDone, intakeStatus, inbound, offline, linked, overlapped>>

StationIntakeNext ==
  \/ \E x \in Refs : Upload(x)
  \/ \E r \in IntakeRequests :
       \/ \E type \in IntakeTypes : Console(r, type)
       \/ \E x \in Refs : Api(r, x) \/ Collect(r, x) \/ Sync(r, x)
       \/ \E late \in BOOLEAN : ConsoleCreate(r, late) \/ Commit(r, late)
       \/ ConsoleEffects(r)
       \/ CommitFound(r) \/ CommitRefused(r) \/ Mark(r) \/ IntakeDies(r)

StationIntakeSpec == StationIntakeInit /\ [][StationIntakeNext]_intakeVars

(***************************************************************************)
(* Properties that hold.                                                   *)
(***************************************************************************)
\* A message of the collector has made one event when it counts as processed and none
\* otherwise, however often and concurrently it is sent.  One of the API or of a terminal
\* that was offline, whose reference nothing makes unique, is recorded twice only if two
\* requests had it in hand at once: no repetition and no death doubles it.
RecordedOnce ==
  /\ \A x \in Equipment : recorded[x] = IF inbound[x] = "PROCESSED" THEN 1 ELSE 0
  /\ \A x \in Unclaimed \ overlapped : recorded[x] <= 1
  /\ \A x \in Offline : offline[x] = "SYNCED" => recorded[x] >= 1 /\ x \in linked

\* A unit counts as completed only if somebody recorded that it was: no death between the
\* two writes of the console and no stale request puts the status ahead of the events.
CompletedWasRecorded == intakeStatus = "COMPLETED" => everDone
=============================================================================
