------------------------------ MODULE MCPlant ------------------------------
(***************************************************************************)
(* Components that share no state in the models, in one instance for TLC.  *)
(*                                                                         *)
(* As steps of two of them change nothing for each other, interleaving     *)
(* them would show nothing new.  Therefore one of them is chosen at the    *)
(* start, and only that one moves; so it is with the three kinds of calls  *)
(* from the floor, with the missions for kits and those for Kanban         *)
(* signals, and with the events of signals and those of inventory          *)
(* movements.  A request is r1 or r2 in all of them.                       *)
(***************************************************************************)
EXTENDS Planning, ModelMix, FloorCalls, StationIntake, LineFeeding, PokaYoke, Tenants,
        Screens, SignalFacts, LineBalance, TLC

CONSTANTS r1, r2,              \* requests
          p1,                  \* the production plan
          c1, c2,              \* codes of the plans of mix items
          o1, q1, a1,          \* messages: an offline one, an equipment's, the API's
          l1, l2, t1, t2, t3,  \* lines of the kit, tasks
          m1, m2, m3, s1,      \* missions, a Kanban signal
          x1, x2,              \* scans
          u1, u2, admin, own,  \* users, roles
          g1, v1, v2           \* a signal, inventory movements

VARIABLE focus  \* the component that moves

MCRequests == {r1, r2}
MCPlans == {p1}
\* Two items of one mix, and one of another mix that comes to the code of the first.
MCMixOf == <<"A", "A", "B">>
MCVersionOf == <<1, 2, 2>>
MCCodeOf == <<c1, c2, c1>>
MCRefs == {o1, q1, a1}
MCSourceOf == (o1 :> "OFFLINE") @@ (q1 :> "EQUIPMENT") @@ (a1 :> "API")
MCTypeOf == (o1 :> "PAUSED") @@ (q1 :> "COMPLETED") @@ (a1 :> "STARTED")
MCLines == {l1, l2}
MCTasks == {t1, t2, t3}
MCLineOf == (t1 :> l1) @@ (t2 :> l2) @@ (t3 :> NoKitLine)
MCMissionOf == (t1 :> m1) @@ (t2 :> m1) @@ (t3 :> m2)
MCMissions == {m1, m2, m3}
MCSignals == {s1}
MCScans == {x1, x2}
MCUsers == {u1, u2}
MCElsewhere == {}
MCBaseRoles == {admin}
MCOwnRoles == {own}
MCReadings == {g1}
MCMoves == {v1, v2}
MCEntrances == DOMAIN Catalog

RequestSymmetry == Permutations(MCRequests)

Calls == {"andon", "downtime", "kits"}
Feeding == {"kit feeding", "kanban"}
Facts == {"signals", "indicators"}
Parts == {"planning", "mix", "intake", "scans", "tenants", "screens", "balance"}
           \union Calls \union Feeding \union Facts

\* Components that are not in focus have one initial state.  The first administrator is u1:
\* which of the users it is makes no difference.  One unit was registered by hand,
\* the other is still to be generated.
PlantInit ==
  /\ focus \in Parts
  /\ TenantsInit
  /\ \/ focus = "planning"
     \/ focus # "planning" /\ planStatus = [p \in Plans |-> "DRAFT"]
  /\ \/ focus = "mix"
     \/ focus # "mix" /\ mixStatus = [m \in Mixes |-> "OPEN"]
  /\ unitPlan = (1 :> NoPlan) @@ (2 :> "ABSENT")
  /\ \/ focus = "tenants" /\ u1 \in Admins
     \/ /\ focus # "tenants" /\ cap = 1
        /\ member = [u \in Users |-> IF u = u1 THEN [admin |-> TRUE, active |-> TRUE] ELSE NoMember]
  /\ \/ focus = "screens"
     \/ focus # "screens" /\ who = "superuser" /\ page = <<"new", "location">> /\ held = {}
  /\ \/ focus = "balance"
     \/ /\ focus # "balance" /\ studyTakt = 0 /\ slow = {}
        /\ standard = [p \in Posts |-> 0] /\ ownTakt = [p \in Posts |-> 0]
  /\ PlanningInit /\ ModelMixInit /\ FloorCallsInit /\ StationIntakeInit
  /\ LineFeedingInit /\ PokaYokeInit /\ ScreensInit /\ SignalFactsInit
  /\ LineBalanceInit

PlantNext ==
  \/ /\ focus = "planning" /\ PlanningNext
     /\ UNCHANGED <<focus, mixVars, floorVars, intakeVars, feedVars, scanVars, tenantVars,
                    screenVars, factVars, balanceVars>>
  \/ /\ focus = "mix" /\ ModelMixNext
     /\ UNCHANGED <<focus, planVars, floorVars, intakeVars, feedVars, scanVars, tenantVars,
                    screenVars, factVars, balanceVars>>
  \/ /\ \/ focus = "andon" /\ AndonNext
        \/ focus = "downtime" /\ DowntimeNext
        \/ focus = "kits" /\ KitNext
        \/ focus \in Calls /\ \E r \in FloorRequests : FloorReqDies(r)
     /\ UNCHANGED <<focus, planVars, mixVars, intakeVars, feedVars, scanVars, tenantVars,
                    screenVars, factVars, balanceVars>>
  \/ /\ focus = "intake" /\ StationIntakeNext
     /\ UNCHANGED <<focus, planVars, mixVars, floorVars, feedVars, scanVars, tenantVars,
                    screenVars, factVars, balanceVars>>
  \/ /\ \/ focus = "kit feeding" /\ (KitStep \/ MissionStep)
        \/ focus = "kanban" /\ (KanbanStep \/ MissionStep)
     /\ UNCHANGED <<focus, planVars, mixVars, floorVars, intakeVars, scanVars, tenantVars,
                    screenVars, factVars, balanceVars>>
  \/ /\ focus = "scans" /\ PokaYokeNext
     /\ UNCHANGED <<focus, planVars, mixVars, floorVars, intakeVars, feedVars, tenantVars,
                    screenVars, factVars, balanceVars>>
  \/ /\ focus = "tenants" /\ TenantsNext
     /\ UNCHANGED <<focus, planVars, mixVars, floorVars, intakeVars, feedVars, scanVars,
                    screenVars, factVars, balanceVars>>
  \/ /\ focus = "screens" /\ ScreensNext
     /\ UNCHANGED <<focus, planVars, mixVars, floorVars, intakeVars, feedVars, scanVars,
                    tenantVars, factVars, balanceVars>>
  \/ /\ \/ focus = "signals" /\ (NormaliseStep \/ IndicatorStep)
        \/ focus = "indicators" /\ (IndicatorStep \/ \E m \in Moves : MovementPublished(m))
        \/ focus \in Facts /\ \E r \in FactRequests : FactReqDies(r)
     /\ UNCHANGED <<focus, planVars, mixVars, floorVars, intakeVars, feedVars, scanVars,
                    tenantVars, screenVars, balanceVars>>
  \/ /\ focus = "balance" /\ LineBalanceNext
     /\ UNCHANGED <<focus, planVars, mixVars, floorVars, intakeVars, feedVars, scanVars,
                    tenantVars, screenVars, factVars>>

PlantVars == <<planVars, mixVars, floorVars, intakeVars, feedVars, scanVars, tenantVars,
               screenVars, factVars, balanceVars, focus>>

PlantSpec == PlantInit /\ [][PlantNext]_PlantVars

\* Every variable of the component that moves has its type.
TypeOK ==
  /\ focus \in Parts
  /\ CASE focus = "planning" -> PlanningTypeOK
       [] focus = "mix" -> ModelMixTypeOK
       [] focus \in Calls -> FloorCallsTypeOK
       [] focus = "intake" -> StationIntakeTypeOK
       [] focus \in Feeding -> LineFeedingTypeOK
       [] focus = "scans" -> PokaYokeTypeOK
       [] focus = "tenants" -> TenantsTypeOK
       [] focus = "screens" -> ScreensTypeOK
       [] focus \in Facts -> SignalFactsTypeOK
       [] focus = "balance" -> LineBalanceTypeOK
=============================================================================
