----------------------------- MODULE LineBalance -----------------------------
(***************************************************************************)
(* The calculation of a line balancing study (assembly/balancing.py): what *)
(* each station is charged with, what may be moved from the stations over  *)
(* the target takt to those under it, and what is recommended.             *)
(*                                                                         *)
(* The study is calculated on what it found; the loop that redistributes   *)
(* the work is taken move by move.  Seconds are whole, as the durations of *)
(* steps and the takts are.                                                *)
(***************************************************************************)
EXTENDS Naturals, FiniteSets, FiniteSetsExt

CONSTANTS
  Posts,         \* the active stations of the line, numbered in their sequence
  MaxSeconds,    \* work of a station, and takts: a bound
  PlannedUnits,  \* of the study
  ShiftSeconds   \* duration of the shift of the study

ASSUME BalanceAssumption ==
  /\ Posts \subseteq Nat /\ IsFiniteSet(Posts)
  /\ MaxSeconds \in Nat
  /\ PlannedUnits \in Nat \ {0} /\ ShiftSeconds \in Nat \ {0}

VARIABLES
  standard,   \* expected seconds of the active steps of the route at each station
  ownTakt,    \* the station's own takt, 0 if it has none
  studyTakt,  \* the study's target, or the line's; 0 if neither has one
  slow,       \* the stations whose measured cycle or takt exceeds their target
  moves,      \* seconds moved from one station to another so far
  capacity,   \* seconds for which additional capacity is asked, for each station
  balanced    \* "NO" until the calculation is over, then the tone of its recommendations

balanceVars == <<standard, ownTakt, studyTakt, slow, moves, capacity, balanced>>

Seconds == 0 .. MaxSeconds

\* _measured_station_times: the events of the period may show any of them slow.
SlowStations == SUBSET Posts

LineBalanceTypeOK ==
  /\ standard \in [Posts -> Seconds]
  /\ ownTakt \in [Posts -> Seconds]
  /\ studyTakt \in Seconds
  /\ slow \in SlowStations
  /\ moves \in [Posts \X Posts -> Seconds]
  /\ capacity \in [Posts -> Seconds]
  /\ balanced \in {"NO", "danger", "warning", "success"}

LineBalanceInit ==
  /\ standard \in [Posts -> Seconds]
  /\ ownTakt \in [Posts -> {0, MaxSeconds}]
  /\ studyTakt \in Seconds
  /\ slow \in SlowStations
  /\ moves = [m \in Posts \X Posts |-> 0]
  /\ capacity = [p \in Posts |-> 0]
  /\ balanced = "NO"

\* target_takt_seconds: without one, the longest work of a station
TargetTakt == IF studyTakt > 0 THEN studyTakt ELSE Max({standard[p] : p \in Posts})
TargetOf(p) == IF ownTakt[p] > 0 THEN ownTakt[p] ELSE TargetTakt

Overload(p) == IF TargetTakt > 0 /\ standard[p] > TargetTakt THEN standard[p] - TargetTakt ELSE 0
Slack(p) == IF standard[p] < TargetTakt THEN TargetTakt - standard[p] ELSE 0

Total(f) == MapThenSumSet(LAMBDA p : f[p], Posts)

Given(p) == Total([q \in Posts |-> moves[<<p, q>>]])
Taken(p) == Total([q \in Posts |-> moves[<<q, p>>]])
TooMuch(p) == Overload(p) - Given(p) - capacity[p]
RoomLeft(p) == Slack(p) - Taken(p)

\* _station_status
Bottleneck(p) ==
  \/ standard[p] * PlannedUnits > ShiftSeconds
  \/ TargetOf(p) > 0 /\ standard[p] > TargetOf(p)
  \/ TargetOf(p) > 0 /\ p \in slow

(***************************************************************************)
(* _build_simulation                                                       *)
(***************************************************************************)
Pending == {p \in Posts : TooMuch(p) > 0}
WithRoom == {p \in Posts : RoomLeft(p) > 0}

\* The slack of the target is not reduced by what it takes.
MoveWorkAgain(p, q) ==
  /\ balanced = "NO"
  /\ Pending # {} /\ p = Min(Pending)
  /\ {t \in Posts : Slack(t) > 0} # {} /\ q = Min({t \in Posts : Slack(t) > 0})
  /\ moves' = [moves EXCEPT ![<<p, q>>] = @ + Min({TooMuch(p), Slack(q)})]
  /\ UNCHANGED <<standard, ownTakt, studyTakt, slow, capacity, balanced>>

\* The first station that has too much gives as much as the first with slack can take.
MoveWork(p, q) ==
  /\ balanced = "NO"
  /\ Pending # {} /\ p = Min(Pending)
  /\ WithRoom # {} /\ q = Min(WithRoom)
  /\ moves' = [moves EXCEPT ![<<p, q>>] = Min({TooMuch(p), RoomLeft(q)})]
  /\ UNCHANGED <<standard, ownTakt, studyTakt, slow, capacity, balanced>>

\* Nobody can take what is left of it.
AskCapacity(p) ==
  /\ balanced = "NO"
  /\ Pending # {} /\ p = Min(Pending)
  /\ WithRoom = {}
  /\ capacity' = [capacity EXCEPT ![p] = TooMuch(p)]
  /\ UNCHANGED <<standard, ownTakt, studyTakt, slow, moves, balanced>>

\* _build_recommendations: the first and most serious of them
Recommend ==
  /\ balanced = "NO"
  /\ Pending = {}
  /\ balanced' =
       IF \E p \in Posts : Bottleneck(p) THEN "danger"
       ELSE IF \E p \in Posts : Given(p) + capacity[p] > 0 THEN "warning" ELSE "success"
  /\ UNCHANGED <<standard, ownTakt, studyTakt, slow, moves, capacity>>

LineBalanceNext ==
  \/ \E p, q \in Posts : MoveWork(p, q)
  \/ \E p \in Posts : AskCapacity(p)
  \/ Recommend

LineBalanceSpec == LineBalanceInit /\ [][LineBalanceNext]_balanceVars

(***************************************************************************)
(* Properties that hold.                                                   *)
(***************************************************************************)
Overloads == Total([p \in Posts |-> Overload(p)])
Slacks == Total([p \in Posts |-> Slack(p)])

\* The redistribution is what its definition says, although it goes from station to station:
\* at its end every station over the takt has given all it has too much, none has taken more
\* than brings it to the takt, capacity is asked for exactly what the whole line has too
\* much, and the study is only called balanced if no station is above its takt or the line's.
Redistributed ==
  balanced # "NO" =>
    /\ \A p \in Posts : Given(p) + capacity[p] = Overload(p) /\ Taken(p) <= Slack(p)
    /\ Total(capacity) = IF Overloads > Slacks THEN Overloads - Slacks ELSE 0
    /\ balanced = "success" => \A p \in Posts : standard[p] <= TargetOf(p) /\ standard[p] <= TargetTakt
=============================================================================
