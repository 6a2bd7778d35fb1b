------------------------ MODULE UnitLifecycle_proofs ------------------------
(***************************************************************************)
(* Type correctness and the safety of UnitLifecycle, for every route,      *)
(* every set of gates and every set of rework orders.                      *)
(***************************************************************************)
EXTENDS UnitLifecycle, TLAPS

(***************************************************************************)
(* RouteOrder speaks of completed steps, the guard of a station event of   *)
(* the newest events: LastDone ties the two.                               *)
(***************************************************************************)
LastDone == \A s \in Steps : last[s] = "COMPLETED" => s \in done

(***************************************************************************)
(* ReinspectionSync needs ReleasedSettled: apply_result_to_unit returns    *)
(* early for a released unit, which is harmless only because a released    *)
(* unit has no open rework order.                                          *)
(***************************************************************************)
IInv == TypeOK /\ LastDone /\ RouteOrder /\ ReleasedSettled /\ ReinspectionSync

USE DEF NoStep, NoCode, Absent

\* A unit that was just created: no event, no gate, no rework order.
LEMMA InitInv == Init => IInv
<1> SUFFICES ASSUME Init PROVE IInv
  OBVIOUS
<1>1. TypeOK
  BY DEF Init, TypeOK, UnitStatus, Gate, Rework
<1>2. LastDone /\ RouteOrder
  BY DEF Init, LastDone, RouteOrder
<1>3. OpenIn(reworks) = {}
  BY DEF Init, OpenIn, ReworkStatus, Resolved
<1>4. ReleasedSettled /\ ReinspectionSync
  BY <1>3 DEF Init, ReleasedSettled, ReinspectionSync
<1> QED BY <1>1, <1>2, <1>4 DEF IInv

\* The fields of a rework row, and a table with one row rewritten.
LEMMA ReworkRow ==
  ASSUME NEW c \in Codes \union {NoCode}, NEW s \in Steps \union {NoStep},
         NEW st \in ReworkStatus \union {Absent}, NEW g \in GateIds \union {NoGate}
  PROVE  [step |-> s, code |-> c, status |-> st, gate |-> g] \in Rework
  BY DEF Rework

\* A table of rework orders with the status of one order rewritten.
LEMMA StatusWritten ==
  ASSUME TypeOK, NEW r \in ReworkIds, NEW st \in ReworkStatus,
         reworks' = [reworks EXCEPT ![r].status = st]
  PROVE  /\ reworks' \in [ReworkIds -> Rework]
         /\ reworks'[r].status = st /\ reworks'[r].gate = reworks[r].gate
         /\ \A q \in ReworkIds \ {r} : reworks'[q] = reworks[q]
<1>1. reworks[r] \in Rework BY DEF TypeOK
<1>2. [reworks[r] EXCEPT !.status = st] \in Rework BY <1>1 DEF Rework
<1>3. reworks' = [reworks EXCEPT ![r] = [reworks[r] EXCEPT !.status = st]] OBVIOUS
<1>4. reworks' \in [ReworkIds -> Rework] BY <1>2, <1>3 DEF TypeOK
<1>5. reworks'[r] = [reworks[r] EXCEPT !.status = st] BY <1>3 DEF TypeOK
<1>6. reworks'[r].status = st /\ reworks'[r].gate = reworks[r].gate
  BY <1>1, <1>5 DEF Rework
<1>7. \A q \in ReworkIds \ {r} : reworks'[q] = reworks[q] BY <1>3 DEF TypeOK
<1> QED BY <1>4, <1>6, <1>7

\* An order that was open and is rewritten without changing its gate stays in step with
\* its reinspection, whatever its new status.
LEMMA StatusWrittenSync ==
  ASSUME IInv, NEW r \in OpenIn(reworks), NEW st \in ReworkStatus,
         reworks' = [reworks EXCEPT ![r].status = st], gates' = gates
  PROVE  ReinspectionSync'
<1>0. TypeOK /\ r \in ReworkIds BY DEF IInv, OpenIn
<1>1. /\ reworks'[r].gate = reworks[r].gate
      /\ \A q \in ReworkIds \ {r} : reworks'[q] = reworks[q]
  BY <1>0, StatusWritten
<1>2. \A q \in OpenIn(reworks)' : q \in OpenIn(reworks) /\ reworks'[q].gate = reworks[q].gate
  BY <1>1 DEF OpenIn
<1> QED BY <1>2 DEF IInv, ReinspectionSync, OpenIn

\* What recording an accepted event keeps, whatever the handler then does.
LEMMA RecordInv ==
  ASSUME IInv, NEW s \in Steps, NEW e \in EventTypes, NEW late \in Lateness,
         Record(s, e, late)
  PROVE  /\ last' \in [Steps -> EventTypes \union {"NONE"}]
         /\ done' \subseteq Steps
         /\ LastDone'
         /\ RouteOrder'
<1>1. /\ last' \in [Steps -> EventTypes \union {"NONE"}]
      /\ done' \subseteq Steps
  BY DEF Record, IInv, TypeOK
<1>2. LastDone'
  BY DEF Record, IInv, TypeOK, LastDone
<1>3. RouteOrder'
  <2>1. CASE e = "COMPLETED"
    <3>1. \A t \in Steps : t < s => t \in done
      BY DEF Record, NoIssue, IsCurrent, IInv, LastDone
    <3> QED BY <2>1, <3>1 DEF Record, IInv, RouteOrder
  <2>2. CASE e # "COMPLETED"
    BY <2>2 DEF Record, IInv, RouteOrder
  <2> QED BY <2>1, <2>2
<1> QED BY <1>1, <1>2, <1>3

\* STARTED, PAUSED, RESUMED and REWORK_IN: the unit is executing, no order changes.
LEMMA ExecuteInv ==
  ASSUME IInv, NEW s \in Steps, NEW e \in EventTypes, NEW late \in Lateness,
         Execute(s, e, late)
  PROVE  IInv'
<1>1. Record(s, e, late) /\ status' = "IN_PROCESS" /\ UNCHANGED <<gates, reworks, missing>>
  BY DEF Execute
<1>2. TypeOK' BY <1>1, RecordInv DEF IInv, TypeOK, UnitStatus
<1>3. ReleasedSettled' /\ ReinspectionSync'
  BY <1>1 DEF IInv, ReleasedSettled, ReinspectionSync, OpenIn
<1> QED BY <1>1, <1>2, <1>3, RecordInv DEF IInv

\* A failed station event: the step is not done and the unit waits for quality.
LEMMA FailInv ==
  ASSUME IInv, NEW s \in Steps, NEW late \in Lateness, Fail(s, late)
  PROVE  IInv'
<1>1. /\ Record(s, "FAILED", late) /\ status' = "QUALITY_HOLD"
      /\ UNCHANGED <<gates, reworks, missing>>
      /\ "FAILED" \in EventTypes
  BY DEF Fail, EventTypes
<1>2. TypeOK' BY <1>1, RecordInv DEF IInv, TypeOK, UnitStatus
<1>3. ReleasedSettled' /\ ReinspectionSync'
  BY <1>1 DEF IInv, ReleasedSettled, ReinspectionSync, OpenIn
<1> QED BY <1>1, <1>2, <1>3, RecordInv DEF IInv

\* A completed step: all the earlier ones were done, its gate is pending if it has one.
LEMMA CompleteInv ==
  ASSUME IInv, NEW s \in Steps, NEW late \in Lateness, Complete(s, late)
  PROVE  IInv'
<1>1. /\ Record(s, "COMPLETED", late)
      /\ status' \in {"QUALITY_HOLD", "IN_PROCESS", "COMPLETED"}
      /\ UNCHANGED <<reworks, missing>>
      /\ "COMPLETED" \in EventTypes
  BY DEF Complete, EventTypes
<1>2. \/ gates' = gates
      \/ \E g \in GateIds : /\ gates[g].status = Absent
                            /\ gates' = [gates EXCEPT ![g] = [step |-> s, status |-> "PENDING"]]
  BY DEF Complete
<1>3. TypeOK'
  BY <1>1, <1>2, RecordInv DEF IInv, TypeOK, UnitStatus, Gate, GateStatus
<1>4. ReleasedSettled' BY <1>1 DEF ReleasedSettled
<1>5. ReinspectionSync'
  BY <1>1, <1>2 DEF IInv, TypeOK, ReinspectionSync, OpenIn, Rework, Gate
<1> QED BY <1>1, <1>3, <1>4, <1>5, RecordInv DEF IInv

\* REWORK_OUT: the order of the code is found or created, and open or closed as it was.
LEMMA SendToReworkInv ==
  ASSUME IInv, NEW s \in Steps, NEW c \in Codes, NEW late \in Lateness,
         SendToRework(s, c, late)
  PROVE  IInv'
<1>1. /\ Record(s, "REWORK_OUT", late) /\ status' = "REWORK"
      /\ UNCHANGED <<gates, missing>>
      /\ "REWORK_OUT" \in EventTypes
  BY DEF SendToRework, EventTypes
<1>2. \/ reworks' = reworks
      \/ \E r \in ReworkIds : reworks' = [reworks EXCEPT ![r] =
            [step |-> s, code |-> c, status |-> "OPEN", gate |-> NoGate]]
  BY DEF SendToRework
<1>3. TypeOK'
  <2>1. [step |-> s, code |-> c, status |-> "OPEN", gate |-> NoGate] \in Rework
    BY ReworkRow DEF ReworkStatus
  <2>2. reworks' \in [ReworkIds -> Rework] BY <1>2, <2>1 DEF IInv, TypeOK
  <2> QED BY <1>1, <2>2, RecordInv DEF IInv, TypeOK, UnitStatus
<1>4. ReleasedSettled' BY <1>1 DEF ReleasedSettled
<1>5. ReinspectionSync'
  <2> SUFFICES ASSUME NEW q \in OpenIn(reworks)', reworks'[q].gate # NoGate
               PROVE  gates[reworks'[q].gate].status \in {"PENDING", "FAILED"}
    BY <1>1 DEF ReinspectionSync, OpenIn
  <2>1. reworks'[q] = reworks[q] /\ q \in ReworkIds
    BY <1>2 DEF IInv, TypeOK, OpenIn
  <2> QED BY <2>1 DEF IInv, ReinspectionSync, OpenIn
<1> QED BY <1>1, <1>3, <1>4, <1>5, RecordInv DEF IInv

\* A reviewed gate: the reviewed result decides what becomes of the orders that wait for it.
LEMMA ReviewInv ==
  ASSUME IInv, NEW g \in GateIds, NEW result \in GateStatus \ {"PENDING"},
         Review(g, result)
  PROVE  IInv'
<1>1. /\ gates' = [gates EXCEPT ![g].status = result]
      /\ UNCHANGED <<last, done, missing>>
  BY DEF Review
<1>2. LastDone' /\ RouteOrder' BY <1>1 DEF IInv, LastDone, RouteOrder
<1>3. CASE status = "RELEASED"
  <2>1. UNCHANGED <<status, reworks>> BY <1>3 DEF Review
  <2>2. TypeOK' BY <1>1, <2>1 DEF IInv, TypeOK, Gate
  <2>3. ReleasedSettled'
    BY <1>1, <1>3, <2>1 DEF IInv, TypeOK, ReleasedSettled, OpenIn, Gate, GateStatus, Accepted
  <2>4. ReinspectionSync'
    BY <1>3, <2>1 DEF IInv, ReleasedSettled, ReinspectionSync, OpenIn
  <2> QED BY <1>2, <2>2, <2>3, <2>4 DEF IInv
<1>4. CASE status # "RELEASED"
  <2>1. reworks' = Synced(g, result) BY <1>4 DEF Review
  <2>2. status' \in UnitStatus /\ status' # "RELEASED"
    BY <1>4 DEF Review, UnitStatus, IInv, TypeOK
  <2>3. TypeOK'
    <3>1. gates' \in [GateIds -> Gate] BY <1>1 DEF IInv, TypeOK, Gate
    <3>2. reworks' \in [ReworkIds -> Rework]
      <4> SUFFICES ASSUME NEW r \in ReworkIds PROVE Synced(g, result)[r] \in Rework
        BY <2>1 DEF Synced
      <4>1. reworks[r] \in Rework BY DEF IInv, TypeOK
      <4>2. \A st \in ReworkStatus : [reworks[r] EXCEPT !.status = st] \in Rework
        BY <4>1 DEF Rework
      <4> QED BY <4>1, <4>2 DEF Synced, ReworkStatus, Resolved
    <3> QED BY <1>1, <2>2, <3>1, <3>2 DEF IInv, TypeOK
  <2>4. ReleasedSettled' BY <2>2 DEF ReleasedSettled
  <2>5. ReinspectionSync'
    <3> SUFFICES ASSUME NEW r \in ReworkIds, r \in OpenIn(reworks)', reworks'[r].gate # NoGate
                 PROVE  gates'[reworks'[r].gate].status \in {"PENDING", "FAILED"}
      BY DEF ReinspectionSync, OpenIn
    <3>1. r \in OpenIn(reworks) /\ reworks'[r].gate = reworks[r].gate
      BY <2>1 DEF IInv, TypeOK, Synced, OpenIn, Rework, ReworkStatus, Resolved
    <3>2. gates[reworks[r].gate].status \in {"PENDING", "FAILED"}
      BY <3>1 DEF IInv, ReinspectionSync
    <3>3. CASE reworks[r].gate = g
      <4>1. result = "FAILED"
        BY <3>1, <3>3, <2>1 DEF IInv, TypeOK, Synced, OpenIn, Rework, Resolved, ReworkStatus
      <4> QED BY <4>1, <3>1, <3>3, <1>1 DEF IInv, TypeOK, Gate
    <3>4. CASE reworks[r].gate # g
      BY <3>1, <3>2, <3>4, <1>1 DEF IInv, TypeOK
    <3> QED BY <3>3, <3>4
  <2> QED BY <1>2, <2>3, <2>4, <2>5 DEF IInv
<1> QED BY <1>3, <1>4

\* The form that opens a rework order for a unit.
LEMMA CreateReworkInv ==
  ASSUME IInv, NEW r \in ReworkIds, NEW s \in Steps \union {NoStep}, NEW c \in Codes,
         NEW st \in ReworkStatus \ Resolved, CreateRework(r, s, c, st)
  PROVE  IInv'
<1>1. /\ reworks' = [reworks EXCEPT ![r] =
           [step |-> s, code |-> c, status |-> st, gate |-> NoGate]]
      /\ status' \in {"QUALITY_HOLD", "REWORK"}
      /\ UNCHANGED <<last, done, gates, missing>>
  BY DEF CreateRework
<1>2. TypeOK' BY <1>1 DEF IInv, TypeOK, UnitStatus, Rework
<1>3. LastDone' /\ RouteOrder' BY <1>1 DEF IInv, LastDone, RouteOrder
<1>4. ReleasedSettled' BY <1>1 DEF ReleasedSettled
<1>5. ReinspectionSync' BY <1>1 DEF IInv, TypeOK, ReinspectionSync, OpenIn, Rework
<1> QED BY <1>2, <1>3, <1>4, <1>5 DEF IInv

\* start of a rework order that is open.
LEMMA StartReworkInv ==
  ASSUME IInv, NEW r \in ReworkIds, StartRework(r)
  PROVE  IInv'
<1>1. /\ reworks[r].status = "OPEN"
      /\ reworks' = [reworks EXCEPT ![r].status = "IN_PROGRESS"]
      /\ status' = "REWORK"
      /\ UNCHANGED <<last, done, gates, missing>>
  BY DEF StartRework
<1>2. TypeOK'
  <2>1. reworks' \in [ReworkIds -> Rework] BY <1>1, StatusWritten DEF IInv, ReworkStatus
  <2> QED BY <1>1, <2>1 DEF IInv, TypeOK, UnitStatus
<1>3. LastDone' /\ RouteOrder' BY <1>1 DEF IInv, LastDone, RouteOrder
<1>4. ReleasedSettled' BY <1>1 DEF ReleasedSettled
<1>5. ReinspectionSync'
  <2>1. r \in OpenIn(reworks) /\ "IN_PROGRESS" \in ReworkStatus
    BY <1>1 DEF OpenIn, ReworkStatus, Resolved
  <2> QED BY <1>1, <2>1, StatusWrittenSync
<1> QED BY <1>2, <1>3, <1>4, <1>5 DEF IInv

\* send_to_quality_review: the order waits for a gate that is pending from now on.
LEMMA SendToQualityReviewInv ==
  ASSUME IInv, NEW r \in ReworkIds, SendToQualityReview(r)
  PROVE  IInv'
<1>1. /\ r \in OpenIn(reworks)
      /\ status' = "QUALITY_HOLD"
      /\ UNCHANGED <<done, missing>>
  BY DEF SendToQualityReview, OpenIn, ReworkStatus, Resolved
<1>2. last' \in [Steps -> EventTypes \union {"NONE"}] /\ LastDone'
  <2>1. reworks[r].step \in Steps \union {NoStep} BY DEF IInv, TypeOK, Rework
  <2>2. \/ last' = last
        \/ reworks[r].step \in Steps /\ last' = [last EXCEPT ![reworks[r].step] = "REWORK_IN"]
    BY <2>1 DEF SendToQualityReview
  <2> QED BY <1>1, <2>2 DEF IInv, TypeOK, LastDone, EventTypes
<1>3. RouteOrder' BY <1>1 DEF IInv, RouteOrder
<1>4. ReleasedSettled' BY <1>1 DEF ReleasedSettled
<1>5. CASE reworks[r].gate # NoGate
  <2>1. gates' = gates /\ reworks' = [reworks EXCEPT ![r].status = "QA_REVIEW"]
    BY <1>5 DEF SendToQualityReview
  <2>2. TypeOK'
    BY <1>1, <1>2, <2>1, StatusWritten DEF IInv, TypeOK, UnitStatus, ReworkStatus
  <2>3. ReinspectionSync'
    BY <1>1, <2>1, StatusWrittenSync DEF ReworkStatus
  <2> QED BY <1>2, <1>3, <1>4, <2>2, <2>3 DEF IInv
<1>6. CASE reworks[r].gate = NoGate
  <2>1. PICK g \in GateIds :
          /\ gates[g].status = Absent
          /\ gates' = [gates EXCEPT ![g] = [step |-> reworks[r].step, status |-> "PENDING"]]
          /\ reworks' = [reworks EXCEPT ![r].status = "QA_REVIEW", ![r].gate = g]
    BY <1>6 DEF SendToQualityReview
  <2>2. reworks[r] \in Rework BY DEF IInv, TypeOK
  <2>3. [reworks[r] EXCEPT !.status = "QA_REVIEW", !.gate = g] \in Rework
    BY <2>2 DEF Rework, ReworkStatus
  <2>4. reworks' = [reworks EXCEPT ![r] = [reworks[r] EXCEPT !.status = "QA_REVIEW", !.gate = g]]
    BY <2>1
  <2>5. TypeOK'
    <3>1. reworks' \in [ReworkIds -> Rework] BY <2>3, <2>4 DEF IInv, TypeOK
    <3>2. [step |-> reworks[r].step, status |-> "PENDING"] \in Gate
      BY <2>2 DEF Rework, Gate, GateStatus
    <3>3. gates' \in [GateIds -> Gate] BY <2>1, <3>2 DEF IInv, TypeOK
    <3> QED BY <1>1, <1>2, <3>1, <3>3 DEF IInv, TypeOK, UnitStatus
  <2>6. ReinspectionSync'
    <3> SUFFICES ASSUME NEW q \in OpenIn(reworks)', reworks'[q].gate # NoGate
                 PROVE  gates'[reworks'[q].gate].status \in {"PENDING", "FAILED"}
      BY DEF ReinspectionSync, OpenIn
    <3>1. gates'[g].status = "PENDING" BY <2>1 DEF IInv, TypeOK
    <3>2. CASE q = r
      <4>1. reworks'[q].gate = g BY <2>2, <2>4, <3>2 DEF IInv, TypeOK, Rework
      <4> QED BY <4>1, <3>1
    <3>3. CASE q # r
      <4>1. reworks'[q] = reworks[q] BY <2>4, <3>3 DEF IInv, TypeOK
      <4>2. gates[reworks[q].gate].status \in {"PENDING", "FAILED"}
        BY <4>1 DEF IInv, ReinspectionSync, OpenIn
      <4>3. gates'[reworks[q].gate] = gates[reworks[q].gate]
        BY <4>2, <2>1 DEF IInv, TypeOK
      <4> QED BY <4>1, <4>2, <4>3
    <3> QED BY <3>2, <3>3
  <2> QED BY <1>2, <1>3, <1>4, <2>5, <2>6 DEF IInv
<1> QED BY <1>5, <1>6

\* Closing or cancelling an order leaves no order open behind its reinspection.
LEMMA ResolveReworkInv ==
  ASSUME IInv, NEW r \in ReworkIds, NEW resolution \in Resolved,
         ResolveRework(r, resolution)
  PROVE  IInv'
<1>1. /\ r \in OpenIn(reworks)
      /\ reworks' = [reworks EXCEPT ![r].status = resolution]
      /\ status' = AfterResolution(reworks[r].step)
      /\ UNCHANGED <<last, done, gates, missing>>
  BY DEF ResolveRework
<1>2. status # "RELEASED" BY <1>1 DEF IInv, ReleasedSettled
<1>3. status' \in UnitStatus \ {"RELEASED"}
  BY <1>1, <1>2 DEF AfterResolution, UnitStatus
<1>4. TypeOK' BY <1>1, <1>3, StatusWritten DEF IInv, TypeOK, ReworkStatus
<1>5. LastDone' /\ RouteOrder' BY <1>1 DEF IInv, LastDone, RouteOrder
<1>6. ReleasedSettled' BY <1>3 DEF ReleasedSettled
<1>7. ReinspectionSync' BY <1>1, StatusWrittenSync DEF ReworkStatus
<1> QED BY <1>4, <1>5, <1>6, <1>7 DEF IInv

\* The release: clean left nothing open and no inspection pending.
LEMMA ReleaseInv == ASSUME IInv, Release PROVE IInv'
<1>1. UNCHANGED <<last, done, gates, reworks, missing>>
  BY DEF Release, Approve, Reject
<1>2. TypeOK' BY <1>1 DEF Release, Approve, Reject, IInv, TypeOK, UnitStatus
<1>3. LastDone' /\ RouteOrder' /\ ReinspectionSync'
  BY <1>1 DEF IInv, LastDone, RouteOrder, ReinspectionSync, OpenIn
<1>4. ReleasedSettled'
  <2>1. CASE Approve
    BY <2>1, <1>1
    DEF Approve, Releasable, ReleasedSettled, OpenIn, Blocking, GateStatus, Accepted
  <2>2. CASE Reject
    BY <2>2, <1>1 DEF Reject, IInv, ReleasedSettled, OpenIn
  <2> QED BY <2>1, <2>2 DEF Release
<1> QED BY <1>2, <1>3, <1>4 DEF IInv

\* Installed components and measurements change what is traced and nothing else.
LEMMA TraceInv == ASSUME IInv, Trace PROVE IInv'
<1>1. UNCHANGED <<status, last, done, gates, reworks>> /\ missing' \subseteq Required
  BY RequiredAssumption DEF Trace, Satisfy, Unsatisfy, IInv, TypeOK
<1> QED
  BY <1>1 DEF IInv, TypeOK, LastDone, RouteOrder, ReleasedSettled, ReinspectionSync, OpenIn

\* Every handler keeps the invariant.
LEMMA StepInv == IInv /\ [Next]_vars => IInv'
<1> SUFFICES ASSUME IInv, [Next]_vars PROVE IInv'
  OBVIOUS
<1>1. CASE Station
  <2>1. PICK s \in Steps, late \in Lateness :
          \/ \E e \in EventTypes : Execute(s, e, late)
          \/ Complete(s, late)
          \/ Fail(s, late)
          \/ \E c \in Codes : SendToRework(s, c, late)
    BY <1>1 DEF Station
  <2> QED BY <2>1, ExecuteInv, CompleteInv, FailInv, SendToReworkInv
<1>2. CASE Quality BY <1>2, ReviewInv DEF Quality
<1>3. CASE ReworkDesk
  BY <1>3, CreateReworkInv, StartReworkInv, SendToQualityReviewInv, ResolveReworkInv
  DEF ReworkDesk
<1>4. CASE Release BY <1>4, ReleaseInv
<1>5. CASE Trace BY <1>5, TraceInv
<1>6. CASE UNCHANGED vars
  BY <1>6
  DEF vars, IInv, TypeOK, LastDone, RouteOrder, ReleasedSettled, ReinspectionSync, OpenIn
<1> QED BY <1>1, <1>2, <1>3, <1>4, <1>5, <1>6 DEF Next

\* The inductive invariant holds in every state.
THEOREM Invariance == Spec => []IInv
<1>1. Init => IInv BY InitInv
<1>2. IInv /\ [Next]_vars => IInv' BY StepInv
<1> QED BY <1>1, <1>2, PTL DEF Spec

\* Every row keeps its type: no handler writes a status outside its enumeration.
THEOREM TypeCorrect == Spec => []TypeOK
  BY Invariance, PTL DEF IInv

\* No unit completes a step before all the earlier ones (station_event_issue_for).
THEOREM RouteOrderHolds == Spec => []RouteOrder
  BY Invariance, PTL DEF IInv

\* A released unit has no open rework order and no pending inspection.
THEOREM ReleasedSettledHolds == Spec => []ReleasedSettled
  BY Invariance, PTL DEF IInv

\* No rework order is left open behind a reinspection that was accepted.
THEOREM ReinspectionSyncHolds == Spec => []ReinspectionSync
  BY Invariance, PTL DEF IInv
\* What undoes a release: of the handlers, only the form that opens a rework order may.
LEMMA ReleaseStep ==
  ASSUME IInv, Next, status = "RELEASED", status' # "RELEASED",
         \A s \in Steps : last[s] = "COMPLETED"
  PROVE  \E r \in ReworkIds : reworks[r].status = Absent /\ reworks'[r].status # Absent
<1>1. OpenIn(reworks) = {} BY DEF IInv, ReleasedSettled
<1>2. ~ Station
  <2>1. \A s \in Steps, e \in EventTypes, late \in Lateness : ~ Record(s, e, late)
    BY DEF Record, NoIssue, IsCurrent
  <2> QED BY <2>1 DEF Station, Execute, Complete, Fail, SendToRework, EventTypes
<1>3. ~ Quality
  <2>1. \A g \in GateIds, result \in GateStatus \ {"PENDING"} : ~ Review(g, result)
    BY DEF Review
  <2> QED BY <2>1 DEF Quality
<1>4. ~ Trace BY DEF Trace, Satisfy, Unsatisfy
<1>5. ~ Release BY DEF Release, Approve, Reject
<1>6. ReworkDesk BY <1>2, <1>3, <1>4, <1>5 DEF Next
<1>7. ASSUME NEW r \in ReworkIds
      PROVE  /\ ~ StartRework(r) /\ ~ SendToQualityReview(r)
             /\ \A resolution \in Resolved : ~ ResolveRework(r, resolution)
  <2>1. reworks[r].status \notin {"OPEN", "IN_PROGRESS"}
    BY <1>1 DEF OpenIn, ReworkStatus, Resolved
  <2> QED BY <1>1, <2>1 DEF StartRework, SendToQualityReview, ResolveRework
<1>8. PICK r \in ReworkIds, s \in Steps \union {NoStep}, c \in Codes,
           st \in ReworkStatus \ Resolved : CreateRework(r, s, c, st)
  BY <1>6, <1>7 DEF ReworkDesk
<1>9. reworks[r].status = Absent
      /\ reworks' = [reworks EXCEPT ![r] =
           [step |-> s, code |-> c, status |-> st, gate |-> NoGate]]
  BY <1>8 DEF CreateRework
<1>10. reworks'[r].status = st BY <1>9 DEF IInv, TypeOK
<1>11. st # Absent BY DEF ReworkStatus, Resolved
<1> QED BY <1>9, <1>10, <1>11

\* The release of a unit whose route is executed is undone by a new rework order and by
\* nothing else: reviews, resolutions, rejections and events leave it (apply_result_to_unit
\* and refresh_unit_status_after_resolution return early, station_event_issue_for objects).
THEOREM ReleaseUndoneHolds == Spec => ReleaseUndoneByNewOrderOnly
<1> DEFINE Undone == (/\ status = "RELEASED" /\ status' # "RELEASED"
                      /\ \A s \in Steps : last[s] = "COMPLETED") =>
                        \E r \in ReworkIds : reworks[r].status = Absent /\ reworks'[r].status # Absent
<1>1. IInv /\ [Next]_vars => [Undone]_vars
  <2> SUFFICES ASSUME IInv, Next PROVE Undone OBVIOUS
  <2> QED BY ReleaseStep
<1> HIDE DEF Undone
<1>2. ReleaseUndoneByNewOrderOnly <=> [][Undone]_vars
  BY DEF ReleaseUndoneByNewOrderOnly, Undone
<1> QED BY <1>1, <1>2, Invariance, PTL DEF Spec
=============================================================================
