---------------------------- MODULE LineFeeding ----------------------------
(***************************************************************************)
(* Feeding the line: a kit of materials, the missions that pick them, and  *)
(* Kanban signals that ask for more (wms/services.py, wms/views.py).       *)
(*                                                                         *)
(* A handler reads its row and checks it, then writes; none locks the row  *)
(* it has read.  complete_pick_task does its writing in a transaction, in  *)
(* which it looks at the other tasks as they are committed, and of which   *)
(* the others see nothing before it commits.  The stock that a task moves  *)
(* is Inventory's: here a transfer is only counted, or refused.            *)
(*                                                                         *)
(* One kit.  A task picks one unit of its kit line, of which one unit is   *)
(* required, or of a Kanban signal's material.                             *)
(***************************************************************************)
EXTENDS Integers, FiniteSets

CONSTANTS
  Lines,         \* lines the kit may get
  Tasks,         \* pick tasks: a bound
  LineOf,        \* [Tasks -> Lines \union {NoKitLine}]
  MissionOf,     \* [Tasks -> Missions]
  Missions,      \* pick missions: a bound
  Signals,       \* Kanban signals: a bound
  FeedRequests,  \* requests at once: a bound
  NoKitLine,     \* "not for the kit"
  NoMission      \* "no mission"

ASSUME FeedingAssumption ==
  /\ LineOf \in [Tasks -> Lines \union {NoKitLine}] /\ MissionOf \in [Tasks -> Missions]
  /\ NoKitLine \notin Lines
  /\ NoMission \notin Missions
  /\ \A t, s \in Tasks : MissionOf[t] = MissionOf[s] =>
                           (LineOf[t] = NoKitLine <=> LineOf[s] = NoKitLine)

VARIABLES
  kitStatus,      \* AssemblyKit.status
  kitLines,       \* its lines
  wasReleased,    \* history: the kit was released once
  lateLines,      \* history: lines that came after that
  missionStatus,  \* PickMission.status, "ABSENT" while there is none
  servedSignal,   \* [Missions -> signals it was created for]
  taskStatus,     \* PickTask.status, "ABSENT" while there is none
  transfers,      \* history: the tasks for which stock was moved
  signalStatus,   \* KanbanSignal.status
  signalMission,  \* KanbanSignal.pick_mission
  feedReq         \* what each request has read and is about to write

feedVars == <<kitStatus, kitLines, wasReleased, lateLines, missionStatus, servedSignal, taskStatus,
              transfers, signalStatus, signalMission, feedReq>>

KitStatuses == {"DRAFT", "RELEASED", "READY", "DELIVERED"}
MissionStatuses == {"DRAFT", "RELEASED", "IN_PROGRESS", "COMPLETED"}
SignalStatuses == {"OPEN", "IN_PROGRESS", "FULFILLED"}
KitMission(m) == \E t \in Tasks : MissionOf[t] = m /\ LineOf[t] # NoKitLine

NoFeedReq == [does |-> "nothing"]
FeedRequest ==
  [does : {"set_kit"}, to : KitStatuses]
    \union [does : {"add_line"}, line : Lines]
    \union [does : {"add_task"}, task : Tasks]
    \union [does : {"release"}, mission : Missions]
    \union [does : {"pick"}, task : Tasks, mission : MissionStatuses, kit : KitStatuses]
    \union [does : {"commit"}, task : Tasks, mission : MissionStatuses \union {"as_is"},
            ready : BOOLEAN]
    \union [does : {"serve", "fulfil"}, signal : Signals]

LineFeedingTypeOK ==
  /\ kitStatus \in KitStatuses
  /\ kitLines \subseteq Lines /\ lateLines \subseteq Lines /\ wasReleased \in BOOLEAN
  /\ missionStatus \in [Missions -> MissionStatuses \union {"ABSENT"}]
  /\ servedSignal \in [Missions -> SUBSET Signals]
  /\ taskStatus \in [Tasks -> {"ABSENT", "PENDING", "PICKED"}]
  /\ transfers \subseteq Tasks
  /\ signalStatus \in [Signals -> SignalStatuses \union {"ABSENT"}]
  /\ signalMission \in [Signals -> Missions \union {NoMission}]
  /\ feedReq \in [FeedRequests -> FeedRequest \union {NoFeedReq}]

LineFeedingInit ==
  /\ kitStatus = "DRAFT"
  /\ kitLines = {} /\ lateLines = {} /\ wasReleased = FALSE
  /\ missionStatus = [m \in Missions |-> "ABSENT"]
  /\ servedSignal = [m \in Missions |-> {}]
  /\ taskStatus = [t \in Tasks |-> "ABSENT"]
  /\ transfers = {}
  /\ signalStatus = [s \in Signals |-> "ABSENT"]
  /\ signalMission = [s \in Signals |-> NoMission]
  /\ feedReq = [r \in FeedRequests |-> NoFeedReq]

kitVars == <<kitStatus, kitLines, wasReleased, lateLines>>
missionVars == <<missionStatus, servedSignal, taskStatus, transfers>>
signalVars == <<signalStatus, signalMission>>

TasksOf(m) == {t \in Tasks : MissionOf[t] = m /\ taskStatus[t] # "ABSENT"}
Picked(l) == \E t \in Tasks : LineOf[t] = l /\ taskStatus[t] = "PICKED"

Read(r, request) ==
  /\ feedReq[r] = NoFeedReq
  /\ feedReq' = [feedReq EXCEPT ![r] = request]
  /\ UNCHANGED <<kitVars, missionVars, signalVars>>

Answered(r) == feedReq' = [feedReq EXCEPT ![r] = NoFeedReq]

(***************************************************************************)
(* The kit                                                                 *)
(***************************************************************************)
\* release_kit and deliver_kit; the edit form of a draft saves the whole row, with the
\* status that it read.
AskKit(r, to) ==
  /\ \/ to = "DRAFT" /\ kitStatus = "DRAFT"
     \/ to = "RELEASED" /\ kitStatus = "DRAFT" /\ kitLines # {}
     \/ to = "DELIVERED" /\ kitStatus = "READY"
  /\ Read(r, [does |-> "set_kit", to |-> to])

SetKit(r) ==
  /\ feedReq[r].does = "set_kit"
  /\ kitStatus' = feedReq[r].to
  /\ wasReleased' = (wasReleased \/ feedReq[r].to = "RELEASED")
  /\ Answered(r)
  /\ UNCHANGED <<kitLines, lateLines, missionVars, signalVars>>

\* AssemblyKitLineCreateView: dispatch looks at the kit, the form is saved later.
AskLine(r, l) ==
  /\ kitStatus = "DRAFT"
  /\ l \notin kitLines
  /\ Read(r, [does |-> "add_line", line |-> l])

AddLine(r) ==
  /\ feedReq[r].does = "add_line"
  /\ kitLines' = kitLines \union {feedReq[r].line}
  /\ lateLines' = IF wasReleased THEN lateLines \union ({feedReq[r].line} \ kitLines)
                  ELSE lateLines
  /\ Answered(r)
  /\ UNCHANGED <<kitStatus, wasReleased, missionVars, signalVars>>

(***************************************************************************)
(* Missions and their tasks                                                *)
(***************************************************************************)
\* PickMissionCreateView, for the kit or for none
CreateMission(m) ==
  /\ missionStatus[m] = "ABSENT"
  /\ KitMission(m) => kitStatus = "RELEASED"
  /\ missionStatus' = [missionStatus EXCEPT ![m] = "DRAFT"]
  /\ UNCHANGED <<kitVars, servedSignal, taskStatus, transfers, signalVars, feedReq>>

AskTask(r, t) ==
  /\ missionStatus[MissionOf[t]] = "DRAFT"
  /\ taskStatus[t] = "ABSENT"
  /\ LineOf[t] # NoKitLine => LineOf[t] \in kitLines
  /\ Read(r, [does |-> "add_task", task |-> t])

AddTask(r) ==
  /\ feedReq[r].does = "add_task"
  /\ taskStatus[feedReq[r].task] = "ABSENT"
  /\ taskStatus' = [taskStatus EXCEPT ![feedReq[r].task] = "PENDING"]
  /\ Answered(r)
  /\ UNCHANGED <<kitVars, missionStatus, servedSignal, transfers, signalVars>>

\* release_pick_mission
AskRelease(r, m) ==
  /\ missionStatus[m] = "DRAFT"
  /\ TasksOf(m) # {}
  /\ Read(r, [does |-> "release", mission |-> m])

Release(r) ==
  /\ feedReq[r].does = "release"
  /\ missionStatus' = [missionStatus EXCEPT ![feedReq[r].mission] = "RELEASED"]
  /\ Answered(r)
  /\ UNCHANGED <<kitVars, servedSignal, taskStatus, transfers, signalVars>>

\* complete_pick_task: what is read and refused before the transaction
AskPick(r, t) ==
  /\ taskStatus[t] = "PENDING"
  /\ missionStatus[MissionOf[t]] \in {"RELEASED", "IN_PROGRESS"}
  /\ LineOf[t] # NoKitLine => ~ Picked(LineOf[t])
  /\ Read(r, [does |-> "pick", task |-> t, mission |-> missionStatus[MissionOf[t]],
              kit |-> kitStatus])

\* _sync_mission_status, with task t picked, for a mission that was read as `seen'
MissionAfter(t, seen) ==
  LET new == IF \A u \in TasksOf(MissionOf[t]) \ {t} : taskStatus[u] = "PICKED"
             THEN "COMPLETED" ELSE "IN_PROGRESS"
  IN IF new = seen THEN "as_is" ELSE new

\* _sync_kit_status that does not look at the other lines
ReadyAny(t, seen) ==
  /\ LineOf[t] # NoKitLine
  /\ seen = "RELEASED"

\* _sync_kit_status, with task t picked, for a kit that was read as `seen'
Ready(t, seen) ==
  /\ LineOf[t] # NoKitLine
  /\ seen = "RELEASED"
  /\ \A l \in kitLines : l = LineOf[t] \/ Picked(l)

\* The stock is moved, the task is marked and the others are looked at: not committed
\* yet.  The API has read the kit before, a view reads it here.
SyncPick(r) ==
  /\ feedReq[r].does = "pick"
  /\ LET q == feedReq[r]
     IN \E kit \in {q.kit, kitStatus} :
          feedReq' = [feedReq EXCEPT ![r] =
            [does |-> "commit", task |-> q.task, mission |-> MissionAfter(q.task, q.mission),
             ready |-> Ready(q.task, kit)]]
  /\ UNCHANGED <<kitVars, missionVars, signalVars>>

CommitPick(r) ==
  /\ feedReq[r].does = "commit"
  /\ LET q == feedReq[r]
     IN /\ taskStatus' = [taskStatus EXCEPT ![q.task] = "PICKED"]
        /\ transfers' = transfers \union {q.task}
        /\ missionStatus' = IF q.mission = "as_is" THEN missionStatus
                            ELSE [missionStatus EXCEPT ![MissionOf[q.task]] = q.mission]
        /\ kitStatus' = IF q.ready THEN "READY" ELSE kitStatus
  /\ Answered(r)
  /\ UNCHANGED <<kitLines, wasReleased, lateLines, servedSignal, signalVars>>

(***************************************************************************)
(* Kanban                                                                  *)
(***************************************************************************)
\* create_kanban_signal: the level was below the minimum.
CreateSignal(s) ==
  /\ signalStatus[s] = "ABSENT"
  /\ signalStatus' = [signalStatus EXCEPT ![s] = "OPEN"]
  /\ UNCHANGED <<kitVars, missionVars, signalMission, feedReq>>

AskServe(r, s) ==
  /\ signalStatus[s] = "OPEN"
  /\ Read(r, [does |-> "serve", signal |-> s])

\* create_kanban_pick_mission: the mission, its task (of a material traced by serial, the
\* task is added by hand), and the signal's new state in one transaction
Serve(r, m) ==
  /\ feedReq[r].does = "serve"
  /\ missionStatus[m] = "ABSENT"
  /\ ~ KitMission(m)
  /\ LET s == feedReq[r].signal
     IN /\ servedSignal' = [servedSignal EXCEPT ![m] = {s}]
        /\ signalMission' = [signalMission EXCEPT ![s] = m]
        /\ signalStatus' = [signalStatus EXCEPT ![s] = "IN_PROGRESS"]
  /\ missionStatus' = [missionStatus EXCEPT ![m] = "DRAFT"]
  /\ \E bySerial \in BOOLEAN :
       taskStatus' = [t \in Tasks |->
         IF MissionOf[t] = m /\ ~ bySerial THEN "PENDING" ELSE taskStatus[t]]
  /\ Answered(r)
  /\ UNCHANGED <<kitVars, transfers>>

\* fulfill_kanban_signal that does not look at the mission
AskFulfilAny(r, s) ==
  /\ signalStatus[s] = "IN_PROGRESS"
  /\ Read(r, [does |-> "fulfil", signal |-> s])

AskFulfil(r, s) ==
  /\ signalStatus[s] = "IN_PROGRESS"
  /\ missionStatus[signalMission[s]] = "COMPLETED"
  /\ Read(r, [does |-> "fulfil", signal |-> s])

Fulfil(r) ==
  /\ feedReq[r].does = "fulfil"
  /\ signalStatus' = [signalStatus EXCEPT ![feedReq[r].signal] = "FULFILLED"]
  /\ Answered(r)
  /\ UNCHANGED <<kitVars, missionVars, signalMission>>

\* The request dies, or a transaction of its is refused and rolled back.
FeedReqDies(r) ==
  /\ feedReq[r] # NoFeedReq
  /\ Answered(r)
  /\ UNCHANGED <<kitVars, missionVars, signalVars>>

KitStep ==
  \E r \in FeedRequests :
    \/ \E to \in KitStatuses : AskKit(r, to)
    \/ \E l \in Lines : AskLine(r, l)
    \/ SetKit(r) \/ AddLine(r)

MissionStep ==
  \/ \E m \in Missions : CreateMission(m)
  \/ \E r \in FeedRequests :
       \/ \E t \in Tasks : AskTask(r, t) \/ AskPick(r, t)
       \/ \E m \in Missions : AskRelease(r, m)
       \/ AddTask(r) \/ Release(r) \/ SyncPick(r) \/ CommitPick(r) \/ FeedReqDies(r)

KanbanStep ==
  \/ \E s \in Signals : CreateSignal(s)
  \/ \E r \in FeedRequests :
       \/ \E m \in Missions : Serve(r, m)
       \/ \E s \in Signals : AskServe(r, s) \/ AskFulfil(r, s)
       \/ Fulfil(r)

LineFeedingNext == KitStep \/ MissionStep \/ KanbanStep

LineFeedingSpec == LineFeedingInit /\ [][LineFeedingNext]_feedVars

(***************************************************************************)
(* Properties that hold.                                                   *)
(***************************************************************************)
\* A kit that is ready or delivered has every line picked, and stock was moved for it,
\* except lines that came after it was released: a stale request can set the kit back,
\* even to a draft, never ahead of the lines it was released with.
ReadyIsPicked ==
  kitStatus \in {"READY", "DELIVERED"} =>
    \A l \in kitLines \ lateLines : \E t \in transfers : LineOf[t] = l

\* A Kanban signal is fulfilled only after stock was moved by a mission created for it,
\* also when two requests create a mission for it at once and one of them outlives it.
FulfilledWasMoved ==
  \A s \in Signals : signalStatus[s] = "FULFILLED" =>
    \E t \in transfers : s \in servedSignal[MissionOf[t]]

(***************************************************************************)
(* What a test of the code says and is not so.                             *)
(***************************************************************************)
\* wms/tests.py:322 (test_kit_picking_moves_material_to_line_without_consuming_it): when
\* every line of a released kit is picked, the kit is ready.
PickedIsReady ==
  kitStatus = "RELEASED" /\ kitLines # {} /\ (\A r \in FeedRequests : feedReq[r] = NoFeedReq)
    => \E l \in kitLines : ~ Picked(l)
=============================================================================
