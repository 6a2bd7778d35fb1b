--------------------------- MODULE UnitLifecycle ---------------------------
(***************************************************************************)
(* One serialized unit on its way through the assembly route: station      *)
(* events, blocking quality gates, rework orders and the final release     *)
(* (assembly/services.py, assembly/models.py, assembly/views.py).          *)
(*                                                                         *)
(* Every handler is one action here: the transaction of                    *)
(* record_station_event, or a view's form_valid run without interruption.  *)
(* The handlers of the web forms lock nothing: what they do to each other  *)
(* when they interleave is not in this module.                             *)
(*                                                                         *)
(* A station event carries the time it happened (event_at), which for API, *)
(* equipment and offline events is given by the caller.  What the code     *)
(* reads is only the newest event of a step, so `last' keeps that one and  *)
(* `late' says that an accepted event is older than it.                    *)
(***************************************************************************)
EXTENDS Integers

CONSTANTS
  Steps,      \* sequence numbers of the route's active steps, one station each
  Gated,      \* the steps whose completion requires a quality gate
  Required,   \* component and parameter requirements of the unit's version
  Fallible,   \* the requirements that can fail again: measured parameters
  Lateness,   \* whether an event may be older than the newest one: {FALSE} or BOOLEAN
  Codes,      \* defect codes; a station's default code is one of them
  GateIds,    \* primary keys of the unit's gates: a bound
  ReworkIds,  \* primary keys of the unit's rework orders: a bound
  NoGate      \* "no reinspection gate"

ASSUME StepsAssumption == Steps \subseteq Nat \ {0} /\ Gated \subseteq Steps
ASSUME RequiredAssumption == Fallible \subseteq Required
ASSUME LatenessAssumption == Lateness \subseteq BOOLEAN
ASSUME NoGateAssumption == NoGate \notin GateIds

VARIABLES
  status,   \* SerializedUnit.status
  last,     \* per step, the type of its newest station event, or "NONE"
  done,     \* the steps for which a COMPLETED event is recorded
  gates,    \* QualityGate rows
  reworks,  \* ReworkOrder rows
  missing   \* requirements as_built_issues / measurement_issues complain of

vars == <<status, last, done, gates, reworks, missing>>

NoStep == 0
NoCode == ""
Absent == "ABSENT"

UnitStatus == {"REGISTERED", "IN_PROCESS", "QUALITY_HOLD", "REWORK",
               "COMPLETED", "RELEASED"}
EventTypes == {"STARTED", "PAUSED", "RESUMED", "COMPLETED", "FAILED",
               "REWORK_OUT", "REWORK_IN"}
Accepted == {"PASSED", "WAIVED"}
GateStatus == Accepted \union {"PENDING", "FAILED"}
Resolved == {"CLOSED", "CANCELLED"}
ReworkStatus == Resolved \union {"OPEN", "IN_PROGRESS", "QA_REVIEW"}

Gate == [step : Steps \union {NoStep}, status : GateStatus \union {Absent}]
Rework == [step : Steps \union {NoStep}, code : Codes \union {NoCode},
           status : ReworkStatus \union {Absent},
           gate : GateIds \union {NoGate}]

TypeOK ==
  /\ status \in UnitStatus
  /\ last \in [Steps -> EventTypes \union {"NONE"}]
  /\ done \subseteq Steps
  /\ gates \in [GateIds -> Gate]
  /\ reworks \in [ReworkIds -> Rework]
  /\ missing \subseteq Required

(***************************************************************************)
(* What the handlers ask of the rows.                                      *)
(***************************************************************************)
Later(s) == \E t \in Steps : t > s

GatesAt(s) == {g \in GateIds : gates[g].status # Absent /\ gates[g].step = s}

\* The blocking gates that are neither passed nor waived.
Blocking(gs) == {g \in GateIds : gs[g].status \in GateStatus \ Accepted}

OpenIn(rs) == {r \in ReworkIds : rs[r].status \in ReworkStatus \ Resolved}

\* get_or_create of several matching rows raises: the event is rolled back.
Unambiguous(S) == \A x, y \in S : x = y

Init ==
  /\ status = "REGISTERED"
  /\ last = [s \in Steps |-> "NONE"]
  /\ done = {}
  /\ gates = [g \in GateIds |-> [step |-> NoStep, status |-> Absent]]
  /\ reworks = [r \in ReworkIds |-> [step |-> NoStep, code |-> NoCode,
                                     status |-> Absent, gate |-> NoGate]]
  /\ missing = Required

(***************************************************************************)
(* Station events.                                                         *)
(***************************************************************************)
Available(e) ==
  CASE e = "NONE" -> {"STARTED"}
    [] e \in {"STARTED", "RESUMED"} -> {"PAUSED", "COMPLETED", "FAILED", "REWORK_OUT"}
    [] e = "PAUSED" -> {"RESUMED", "REWORK_OUT"}
    [] e = "FAILED" -> {"REWORK_OUT", "STARTED"}
    [] e = "REWORK_OUT" -> {"REWORK_IN"}
    [] e = "REWORK_IN" -> {"STARTED"}
    [] OTHER -> {}

IsCurrentSkipping(s) == last[s] # "COMPLETED"

\* current_route_step_for: the first step whose newest event is not COMPLETED.
IsCurrent(s) ==
  /\ last[s] # "COMPLETED"
  /\ \A t \in Steps : t < s => last[t] = "COMPLETED"

\* station_event_issue_for raises no objection.
NoIssue(s, e) ==
  /\ IsCurrent(s)
  /\ e \notin {"REWORK_OUT", "REWORK_IN"} =>
       status \notin {"QUALITY_HOLD", "REWORK", "RELEASED"}

\* The event is accepted and its row created.
Record(s, e, late) ==
  /\ NoIssue(s, e)
  /\ e \in Available(last[s])
  /\ late => last[s] # "NONE"
  /\ last' = IF late THEN last ELSE [last EXCEPT ![s] = e]
  /\ done' = IF e = "COMPLETED" THEN done \union {s} ELSE done

Execute(s, e, late) ==
  /\ e \in {"STARTED", "PAUSED", "RESUMED", "REWORK_IN"}
  /\ Record(s, e, late)
  /\ status' = "IN_PROCESS"
  /\ UNCHANGED <<gates, reworks, missing>>

Complete(s, late) ==
  /\ Record(s, "COMPLETED", late)
  /\ IF s \in Gated
     THEN /\ status' = "QUALITY_HOLD"
          /\ Unambiguous(GatesAt(s))
          /\ IF GatesAt(s) # {}
             THEN gates' = gates
             ELSE \E g \in GateIds :
                    /\ gates[g].status = Absent
                    /\ gates' = [gates EXCEPT ![g] = [step |-> s, status |-> "PENDING"]]
     ELSE /\ status' = IF Later(s) THEN "IN_PROCESS" ELSE "COMPLETED"
          /\ gates' = gates
  /\ UNCHANGED <<reworks, missing>>

Fail(s, late) ==
  /\ Record(s, "FAILED", late)
  /\ status' = "QUALITY_HOLD"
  /\ UNCHANGED <<gates, reworks, missing>>

OrdersFor(s, c) ==
  {r \in ReworkIds : /\ reworks[r].status # Absent
                     /\ reworks[r].step = s
                     /\ reworks[r].code = c}

SendToRework(s, c, late) ==
  /\ Record(s, "REWORK_OUT", late)
  /\ status' = "REWORK"
  /\ Unambiguous(OrdersFor(s, c))
  /\ IF OrdersFor(s, c) # {}
     THEN reworks' = reworks
     ELSE \E r \in ReworkIds :
            /\ reworks[r].status = Absent
            /\ reworks' = [reworks EXCEPT ![r] =
                 [step |-> s, code |-> c, status |-> "OPEN", gate |-> NoGate]]
  /\ UNCHANGED <<gates, missing>>

(***************************************************************************)
(* Quality gates: review_quality_gate and QualityGateReviewView.           *)
(***************************************************************************)
SyncedFailuresOnly(g, result) ==
  [r \in ReworkIds |->
     IF result = "FAILED" /\ r \in OpenIn(reworks) /\ reworks[r].gate = g
     THEN [reworks[r] EXCEPT !.status = "IN_PROGRESS"] ELSE reworks[r]]

\* sync_reinspection_reworks
Synced(g, result) ==
  [r \in ReworkIds |->
     IF r \in OpenIn(reworks) /\ reworks[r].gate = g
     THEN [reworks[r] EXCEPT !.status =
             IF result = "FAILED" THEN "IN_PROGRESS" ELSE "CLOSED"]
     ELSE reworks[r]]

Reinspects(g) == \E r \in OpenIn(reworks) : reworks[r].gate = g

Review(g, result) ==
  /\ gates[g].status # Absent
  /\ gates' = [gates EXCEPT ![g].status = result]
  /\ IF status = "RELEASED"
     THEN UNCHANGED <<status, reworks>>
     ELSE /\ reworks' = Synced(g, result)
          /\ status' =
               IF result = "FAILED"
               THEN IF Reinspects(g) THEN "REWORK" ELSE "QUALITY_HOLD"
               ELSE IF Blocking(gates') # {} \/ OpenIn(reworks') # {}
               THEN status
               ELSE IF gates[g].step # NoStep /\ ~Later(gates[g].step)
               THEN "COMPLETED"
               ELSE "IN_PROCESS"
  /\ UNCHANGED <<last, done, missing>>

(***************************************************************************)
(* Rework orders: ReworkOrderCreateView and ReworkOrderControlView.        *)
(***************************************************************************)
CreateRework(r, s, c, st) ==
  /\ reworks[r].status = Absent
  /\ reworks' = [reworks EXCEPT ![r] =
       [step |-> s, code |-> c, status |-> st, gate |-> NoGate]]
  /\ status' = IF st = "QA_REVIEW" THEN "QUALITY_HOLD" ELSE "REWORK"
  /\ UNCHANGED <<last, done, gates, missing>>

StartRework(r) ==
  /\ reworks[r].status = "OPEN"
  /\ reworks' = [reworks EXCEPT ![r].status = "IN_PROGRESS"]
  /\ status' = "REWORK"
  /\ UNCHANGED <<last, done, gates, missing>>

SendToQualityReview(r) ==
  /\ reworks[r].status \in {"OPEN", "IN_PROGRESS"}
  /\ IF reworks[r].gate # NoGate
     THEN /\ gates' = gates
          /\ reworks' = [reworks EXCEPT ![r].status = "QA_REVIEW"]
     ELSE \E g \in GateIds :
            /\ gates[g].status = Absent
            /\ gates' = [gates EXCEPT ![g] =
                 [step |-> reworks[r].step, status |-> "PENDING"]]
            /\ reworks' = [reworks EXCEPT ![r].status = "QA_REVIEW", ![r].gate = g]
  /\ last' = IF reworks[r].step = NoStep THEN last
             ELSE [last EXCEPT ![reworks[r].step] = "REWORK_IN"]
  /\ status' = "QUALITY_HOLD"
  /\ UNCHANGED <<done, missing>>

\* refresh_unit_status_after_resolution, after rework r is closed or cancelled
AfterResolution(s) ==
  IF status = "RELEASED" THEN status
  ELSE IF Blocking(gates) # {} THEN "QUALITY_HOLD"
  ELSE IF OpenIn(reworks') # {} THEN "REWORK"
  ELSE IF s # NoStep /\ Later(s) THEN "IN_PROCESS"
  ELSE "COMPLETED"

\* ACTION_CLOSE and ACTION_CANCEL, offered in every open state
ResolveRework(r, resolution) ==
  /\ r \in OpenIn(reworks)
  /\ reworks' = [reworks EXCEPT ![r].status = resolution]
  /\ status' = AfterResolution(reworks[r].step)
  /\ UNCHANGED <<last, done, gates, missing>>

(***************************************************************************)
(* Traceability and release.                                               *)
(***************************************************************************)
\* install_component / record_measurement that satisfies a requirement
Satisfy(q) ==
  /\ missing' = missing \ {q}
  /\ UNCHANGED <<status, last, done, gates, reworks>>

\* record_measurement whose newest value is out of range
Unsatisfy(q) ==
  /\ missing' = missing \union {q}
  /\ UNCHANGED <<status, last, done, gates, reworks>>

ReleasableWithOpenRework == Blocking(gates) = {} /\ missing = {}

\* ReleaseApproval.clean for an approval
Releasable == OpenIn(reworks) = {} /\ Blocking(gates) = {} /\ missing = {}

Approve ==
  /\ Releasable
  /\ status' = "RELEASED"
  /\ UNCHANGED <<last, done, gates, reworks, missing>>

RejectDecisionAsStatus ==
  /\ status' = IF status = "RELEASED" THEN status ELSE "REJECTED"
  /\ UNCHANGED <<last, done, gates, reworks, missing>>

RejectReleased ==
  /\ status' = "QUALITY_HOLD"
  /\ UNCHANGED <<last, done, gates, reworks, missing>>

Reject ==
  /\ status' = IF status = "RELEASED" THEN status ELSE "QUALITY_HOLD"
  /\ UNCHANGED <<last, done, gates, reworks, missing>>

Station ==
  \E s \in Steps, late \in Lateness :
    \/ \E e \in EventTypes : Execute(s, e, late)
    \/ Complete(s, late)
    \/ Fail(s, late)
    \/ \E c \in Codes : SendToRework(s, c, late)

Quality == \E g \in GateIds, result \in GateStatus \ {"PENDING"} : Review(g, result)

ReworkDesk ==
  \E r \in ReworkIds :
    \/ \E s \in Steps \union {NoStep}, c \in Codes, st \in ReworkStatus \ Resolved :
         CreateRework(r, s, c, st)
    \/ StartRework(r)
    \/ SendToQualityReview(r)
    \/ \E resolution \in Resolved : ResolveRework(r, resolution)

Release == Approve \/ Reject

Trace == (\E q \in Required : Satisfy(q)) \/ (\E q \in Fallible : Unsatisfy(q))

Next == Station \/ Quality \/ ReworkDesk \/ Release \/ Trace

Spec == Init /\ [][Next]_vars

(***************************************************************************)
(* Properties that hold.                                                   *)
(***************************************************************************)
\* A step is completed only after every earlier step was: station_event_issue_for
\* lets no unit skip a step, whatever rework, late event or reopening happens in between.
RouteOrder == \A s \in done : \A t \in Steps : t < s => t \in done

\* A released unit has no open rework order and waits for no inspection:
\* whatever reopens a rework also takes the unit out of RELEASED.
ReleasedSettled ==
  status = "RELEASED" =>
    OpenIn(reworks) = {} /\ \A g \in GateIds : gates[g].status # "PENDING"

\* An accepted reinspection has closed its rework order: no order is left open
\* behind a gate that has passed (sync_reinspection_reworks is not skipped).
ReinspectionSync ==
  \A r \in OpenIn(reworks) :
    reworks[r].gate # NoGate => gates[reworks[r].gate].status \in {"PENDING", "FAILED"}

\* A unit released with its route executed goes back into production only because
\* a new rework order is opened for it: reviews, resolutions, rejections and station
\* events all leave it released.
ReleaseUndoneByNewOrderOnly ==
  [][(/\ status = "RELEASED" /\ status' # "RELEASED"
      /\ \A s \in Steps : last[s] = "COMPLETED") =>
        \E r \in ReworkIds : reworks[r].status = Absent /\ reworks'[r].status # Absent]_vars

(***************************************************************************)
(* What the documentation says and the code does not do.                   *)
(***************************************************************************)
\* README.md:604 and docs/architecture/produccion_serial.md:219: the release is
\* blocked while mandatory route events are missing.
ReleasedRouteComplete == status = "RELEASED" => done = Steps
=============================================================================
