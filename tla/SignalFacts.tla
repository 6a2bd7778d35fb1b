----------------------------- MODULE SignalFacts -----------------------------
(***************************************************************************)
(* What becomes of a stored signal (edge/services.py, eventbus/signals.py, *)
(* eventbus/services.py).  A rule makes a station event or a measurement   *)
(* of it; a receiver of post_save publishes that it was normalised; and    *)
(* the bus has the snapshot of the day rebuilt from its events.            *)
(*                                                                         *)
(* Nothing is locked, and every step is a transaction of its own: the      *)
(* ingest and retries hold a copy of the signal's row which they save as a *)
(* whole; the rules change meanwhile, and whoever serves a request may die *)
(* between two steps.                                                      *)
(*                                                                         *)
(* The snapshot is that of the whole plant.  It has no line, as these      *)
(* events have none, and the constraint that is to keep snapshots unique   *)
(* does not compare rows without one.                                      *)
(***************************************************************************)
EXTENDS Naturals, FiniteSets

CONSTANTS
  Readings,      \* signals
  Moves,         \* inventory movements, the other facts without a line
  FactRequests,  \* requests and tasks at once: a bound
  MaxMeasured,   \* measurements of one signal: a bound
  NoFact         \* what a rebuild by hand is for

ASSUME FactAssumption ==
  /\ Readings \intersect Moves = {} /\ NoFact \notin Readings \union Moves
  /\ MaxMeasured \in Nat \ {0}
  /\ IsFiniteSet(FactRequests)

VARIABLES
  signal,     \* EdgeSignal rows: their status and what they link to
  mes,        \* EquipmentInboundEvent.status of "edge:" and the signal's external_id
  measured,   \* how many ProductionMeasurement rows there are of each signal
  published,  \* the facts that have a DomainEvent: their row is its idempotency key
  delivered,  \* the events whose delivery to INDICATORS is DELIVERED
  snapshots,  \* how many snapshots of the day there are
  counted,    \* history: the events that a snapshot has counted
  factReq     \* what each request is doing

factVars == <<signal, mes, measured, published, delivered, snapshots, counted, factReq>>

Links == {"inbound_event", "measurement"}
Row == [status : {"PENDING", "NORMALIZED", "REJECTED", "IGNORED"}, links : SUBSET Links]
Unstored == [status |-> "UNSTORED", links |-> {}]
\* EdgeRuleAction, or no rule, or one whose range the value is out of
RuleOutcomes == {"NONE", "IGNORE", "OUT_OF_RANGE", "STATION_EVENT", "MEASUREMENT"}
Events == Readings \union Moves
NoFactReq == [pc |-> "idle"]
FactRequest ==
  [pc : {"resolve", "STATION_EVENT", "MEASUREMENT", "save"}, of : Readings, row : Row]
    \union [pc : {"emit"}, of : Readings]
    \union [pc : {"count"}, of : Events \union {NoFact}]
    \union [pc : {"look", "insert"}, of : Events \union {NoFact}, seen : SUBSET Events]
    \union [pc : {"deliver"}, of : Events, ok : BOOLEAN]

SignalFactsTypeOK ==
  /\ signal \in [Readings -> Row \union {Unstored}]
  /\ mes \in [Readings -> {"ABSENT", "PROCESSED", "REJECTED"}]
  /\ measured \in [Readings -> 0 .. MaxMeasured]
  /\ published \subseteq Events
  /\ delivered \subseteq published
  /\ snapshots \in 0 .. Cardinality(FactRequests)
  /\ counted \subseteq published
  /\ factReq \in [FactRequests -> FactRequest \union {NoFactReq}]

SignalFactsInit ==
  /\ signal = [s \in Readings |-> Unstored]
  /\ mes = [s \in Readings |-> "ABSENT"]
  /\ measured = [s \in Readings |-> 0]
  /\ published = {}
  /\ delivered = {}
  /\ snapshots = 0
  /\ counted = {}
  /\ factReq = [r \in FactRequests |-> NoFactReq]

Ends(r) == factReq' = [factReq EXCEPT ![r] = NoFactReq]

(***************************************************************************)
(* Normalisation                                                           *)
(***************************************************************************)
\* ingest_signal has committed the row and goes on to normalise it.
Store(r, s) ==
  /\ factReq[r] = NoFactReq
  /\ signal[s] = Unstored
  /\ LET row == [status |-> "PENDING", links |-> {}]
     IN /\ signal' = [signal EXCEPT ![s] = row]
        /\ factReq' = [factReq EXCEPT ![r] = [pc |-> "resolve", of |-> s, row |-> row]]
  /\ UNCHANGED <<mes, measured, published, delivered, snapshots, counted>>

\* retry_signal
Retry(r, s) ==
  /\ factReq[r] = NoFactReq
  /\ signal[s] # Unstored
  /\ signal[s].status # "NORMALIZED"
  /\ factReq' = [factReq EXCEPT ![r] = [pc |-> "resolve", of |-> s, row |-> signal[s]]]
  /\ UNCHANGED <<signal, mes, measured, published, delivered, snapshots, counted>>

\* The copy gets a status and a link and is to be saved.
Concluded(r, status, linked) ==
  factReq' = [factReq EXCEPT ![r] =
    [pc |-> "save", of |-> @.of, row |-> [status |-> status, links |-> @.row.links \union linked]]]

\* normalize_signal up to the action of the rule.  People add, edit and withdraw rules all
\* the time: any of them may be the first that fits.
ApplyRule(r, outcome) ==
  /\ factReq[r].pc = "resolve"
  /\ \/ outcome = "NONE" /\ Concluded(r, "PENDING", {})
     \/ outcome = "IGNORE" /\ Concluded(r, "IGNORED", {})
     \/ outcome = "OUT_OF_RANGE" /\ Concluded(r, "REJECTED", {})
     \/ /\ outcome \in {"STATION_EVENT", "MEASUREMENT"}
        /\ factReq' = [factReq EXCEPT ![r].pc = outcome]
  /\ UNCHANGED <<signal, mes, measured, published, delivered, snapshots, counted>>

\* The signal names no unit or operator, its device no equipment, the MES knows no such unit
Refuse(r) ==
  /\ factReq[r].pc \in {"STATION_EVENT", "MEASUREMENT"}
  /\ Concluded(r, "REJECTED", {})
  /\ UNCHANGED <<signal, mes, measured, published, delivered, snapshots, counted>>

\* _apply_station_event without a look at what became of the inbound event
InboundUnchecked(r) ==
  /\ factReq[r].pc = "STATION_EVENT"
  /\ LET s == factReq[r].of
     IN \E verdict \in IF mes[s] = "ABSENT" THEN {"PROCESSED", "REJECTED"} ELSE {mes[s]} :
          /\ mes' = [mes EXCEPT ![s] = verdict]
          /\ Concluded(r, "NORMALIZED", {"inbound_event"})
  /\ UNCHANGED <<signal, measured, published, delivered, snapshots, counted>>

\* _apply_station_event: process_equipment_event judges a message once, and gives it back as
\* it is to whoever sends it again.
InboundEvent(r) ==
  /\ factReq[r].pc = "STATION_EVENT"
  /\ LET s == factReq[r].of
     IN \E verdict \in IF mes[s] = "ABSENT" THEN {"PROCESSED", "REJECTED"} ELSE {mes[s]} :
          /\ mes' = [mes EXCEPT ![s] = verdict]
          /\ Concluded(r, IF verdict = "PROCESSED" THEN "NORMALIZED" ELSE "REJECTED",
                       {"inbound_event"})
  /\ UNCHANGED <<signal, measured, published, delivered, snapshots, counted>>

\* _apply_measurement: record_measurement has nothing to know a measurement by.
Measure(r) ==
  /\ factReq[r].pc = "MEASUREMENT"
  /\ measured[factReq[r].of] < MaxMeasured
  /\ measured' = [measured EXCEPT ![factReq[r].of] = @ + 1]
  /\ Concluded(r, "NORMALIZED", {"measurement"})
  /\ UNCHANGED <<signal, mes, published, delivered, snapshots, counted>>

\* The whole row is saved over whatever others made of it.
SaveSignal(r) ==
  /\ factReq[r].pc = "save"
  /\ LET s == factReq[r].of
         row == factReq[r].row
     IN /\ signal' = [signal EXCEPT ![s] = row]
        /\ IF row.status = "NORMALIZED"
             THEN factReq' = [factReq EXCEPT ![r] = [pc |-> "emit", of |-> s]]
             ELSE Ends(r)
  /\ UNCHANGED <<mes, measured, published, delivered, snapshots, counted>>

(***************************************************************************)
(* Events and their snapshot                                               *)
(***************************************************************************)
\* publish, when the type of event is in the catalogue and active: once for a row
Published(e) == published' \in {published, published \union {e}}

\* emit_normalized_signal
Emit(r) ==
  /\ factReq[r].pc = "emit"
  /\ Published(factReq[r].of)
  /\ Ends(r)
  /\ UNCHANGED <<signal, mes, measured, delivered, snapshots, counted>>

\* emit_inventory_movement, in the transaction of the movement
MovementPublished(m) ==
  /\ Published(m)
  /\ UNCHANGED <<signal, mes, measured, delivered, snapshots, counted, factReq>>

\* dispatch_pending takes a delivery to INDICATORS, or it is retried (the order in which and
\* how often they are is in EventBus).
DispatchRebuild(r, e) ==
  /\ factReq[r] = NoFactReq
  /\ e \in published \ delivered
  /\ factReq' = [factReq EXCEPT ![r] = [pc |-> "count", of |-> e]]
  /\ UNCHANGED <<signal, mes, measured, published, delivered, snapshots, counted>>

\* rebuild_all_indicators: the task of every ten minutes, or a user
Rebuild(r) ==
  /\ factReq[r] = NoFactReq
  /\ factReq' = [factReq EXCEPT ![r] = [pc |-> "count", of |-> NoFact]]
  /\ UNCHANGED <<signal, mes, measured, published, delivered, snapshots, counted>>

\* rebuild_indicators reads the events of the day, its plans and studies.
Count(r) ==
  /\ factReq[r].pc = "count"
  /\ factReq' = [factReq EXCEPT ![r] = [pc |-> "look", of |-> @.of, seen |-> published]]
  /\ UNCHANGED <<signal, mes, measured, published, delivered, snapshots, counted>>

\* The rebuild is over: a dispatcher has the delivery to save.
Rebuilt(r, ok) ==
  IF factReq[r].of = NoFact
    THEN Ends(r)
    ELSE factReq' = [factReq EXCEPT ![r] = [pc |-> "deliver", of |-> @.of, ok |-> ok]]

\* update_or_create with filter().first(): two snapshots are no error.
LookLenient(r) ==
  /\ factReq[r].pc = "look"
  /\ \/ /\ snapshots = 0
        /\ factReq' = [factReq EXCEPT ![r].pc = "insert"]
        /\ UNCHANGED counted
     \/ /\ snapshots = 1
        /\ counted' = counted \union factReq[r].seen
        /\ Rebuilt(r, TRUE)
     \/ /\ snapshots > 1
        /\ Rebuilt(r, TRUE)
        /\ UNCHANGED counted
  /\ UNCHANGED <<signal, mes, measured, published, delivered, snapshots>>

\* update_or_create locks the snapshot and writes it; two of them are an error.
Look(r) ==
  /\ factReq[r].pc = "look"
  /\ \/ /\ snapshots = 0
        /\ factReq' = [factReq EXCEPT ![r].pc = "insert"]
        /\ UNCHANGED counted
     \/ /\ snapshots = 1
        /\ counted' = counted \union factReq[r].seen
        /\ Rebuilt(r, TRUE)
     \/ /\ snapshots > 1
        /\ Rebuilt(r, FALSE)
        /\ UNCHANGED counted
  /\ UNCHANGED <<signal, mes, measured, published, delivered, snapshots>>

\* It found none and inserts one, although another request may have done so.
Insert(r) ==
  /\ factReq[r].pc = "insert"
  /\ snapshots' = snapshots + 1
  /\ counted' = counted \union factReq[r].seen
  /\ Rebuilt(r, TRUE)
  /\ UNCHANGED <<signal, mes, measured, published, delivered>>

\* dispatch_pending saves the delivery, whatever another dispatcher made of it.
Deliver(r) ==
  /\ factReq[r].pc = "deliver"
  /\ delivered' = IF factReq[r].ok THEN delivered \union {factReq[r].of}
                                   ELSE delivered \ {factReq[r].of}
  /\ Ends(r)
  /\ UNCHANGED <<signal, mes, measured, published, snapshots, counted>>

\* Also: record_measurement raises a ValidationError, which nobody catches.
FactReqDies(r) ==
  /\ factReq[r] # NoFactReq
  /\ Ends(r)
  /\ UNCHANGED <<signal, mes, measured, published, delivered, snapshots, counted>>

NormaliseStep ==
  \E r \in FactRequests :
    \/ \E s \in Readings : Store(r, s) \/ Retry(r, s)
    \/ \E outcome \in RuleOutcomes : ApplyRule(r, outcome)
    \/ Refuse(r) \/ InboundEvent(r) \/ Measure(r) \/ SaveSignal(r) \/ Emit(r)

IndicatorStep ==
  \E r \in FactRequests :
    \/ \E e \in Events : DispatchRebuild(r, e)
    \/ Rebuild(r) \/ Count(r) \/ Look(r) \/ Insert(r) \/ Deliver(r)

SignalFactsNext ==
  \/ NormaliseStep \/ IndicatorStep
  \/ \E m \in Moves : MovementPublished(m)
  \/ \E r \in FactRequests : FactReqDies(r)

SignalFactsSpec == SignalFactsInit /\ [][SignalFactsNext]_factVars

(***************************************************************************)
(* Properties that hold.                                                   *)
(***************************************************************************)
\* A signal counts as normalised, and the bus says so, only of what the MES has accepted: a
\* row that is NORMALIZED links to a processed inbound event or to a measurement, although
\* retries with other rules save their own copies over it, and what was published stands
\* for such a fact although the row may have lost it since.
NormalizedHasFact ==
  \A s \in Readings :
    /\ signal[s].status = "NORMALIZED" =>
         \/ "inbound_event" \in signal[s].links /\ mes[s] = "PROCESSED"
         \/ "measurement" \in signal[s].links /\ measured[s] > 0
    /\ s \in published => mes[s] = "PROCESSED" \/ measured[s] > 0

\* An event counts as delivered to the indicators only if a snapshot has counted it, also
\* when rebuilds overtake each other, two of them insert a snapshot, and all later ones fail.
DeliveredWasCounted == delivered \subseteq counted
=============================================================================
