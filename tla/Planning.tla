------------------------------ MODULE Planning ------------------------------
(***************************************************************************)
(* Production plans, their units and the sequence of one line              *)
(* (assembly/models.py, the screens "Gestion de plan" and "Gestion de      *)
(* secuencia" of assembly/views.py).                                       *)
(*                                                                         *)
(* No handler opens a transaction: a request reads its row, decides, and   *)
(* writes row by row, and another request may come between any two of its  *)
(* statements, or it may die there.  A request is therefore a start (what  *)
(* it reads and what it refuses) and one step per row it writes.           *)
(*                                                                         *)
(* One line, and units and plans of one version.  What the forms change    *)
(* besides the status of a plan, and the status and the number of an item, *)
(* is left out: another line, version, target or unit.                     *)
(***************************************************************************)
EXTENDS Integers, Sequences, FiniteSets, SequencesExt, FiniteSetsExt

CONSTANTS
  Plans,         \* production plans of the line
  Units,         \* serialized units, numbered by serial
  Target,        \* target_quantity of every plan
  PlanRequests,  \* requests at once: a bound
  FormNumbers,   \* numbers typed into the form of an item
  NoPlan         \* "linked to no plan"

ASSUME PlanningAssumption ==
  /\ Units \subseteq Nat /\ IsFiniteSet(Units)
  /\ Target \in Nat \ {0}
  /\ FormNumbers \subseteq Nat
  /\ NoPlan \notin Plans

VARIABLES
  planStatus,  \* ProductionPlan.status
  unitPlan,    \* SerializedUnit.production_plan, "ABSENT" while there is no unit
  generated,   \* the units created by generate_serialized_units
  queue,       \* ProductionQueueItem of each unit
  planReq,     \* what each request has read and has left to write
  messy        \* history: something may have given two open items one number, and
               \* no undisturbed move has come since

planRows == <<planStatus, unitPlan, generated, queue>>
planVars == <<planRows, planReq, messy>>

PlanStatus == {"DRAFT", "RELEASED", "IN_EXECUTION", "CLOSED", "CANCELLED"}
OpenPlan == PlanStatus \ {"CLOSED", "CANCELLED"}
\* QUEUED, READY, IN_PROGRESS and HOLD are "OPEN", COMPLETED and CANCELLED are "OVER":
\* these handlers treat them alike.
QueueStatus == {"OPEN", "OVER"}

NoItem == [status |-> "ABSENT", seq |-> 0]
QueueItem == [status : QueueStatus, seq : Nat]

NoPlanReq == [kind |-> "idle"]
PlanRequest ==
  [kind : {"status"}, plan : Plans, to : PlanStatus]
    \union [kind : {"generate"}, plan : Plans, left : Nat]
    \union [kind : {"link"}, plan : Plans, unit : Units]
    \union [kind : {"sequence"}, todo : SUBSET Units, top : Nat]
    \union [kind : {"form"}, unit : Units, row : QueueItem, new : BOOLEAN]
    \union [kind : {"set"}, unit : Units, to : QueueStatus]
    \union [kind : {"move"}, order : Seq(Units), wrong : SUBSET Nat, done : Nat,
            alone : BOOLEAN]

PlanningTypeOK ==
  /\ planStatus \in [Plans -> PlanStatus]
  /\ unitPlan \in [Units -> Plans \union {NoPlan, "ABSENT"}]
  /\ generated \subseteq Units
  /\ queue \in [Units -> QueueItem \union {NoItem}]
  /\ planReq \in [PlanRequests -> PlanRequest \union {NoPlanReq}]
  /\ messy \in BOOLEAN

\* Plans as the form creates them, with any status; of the units, some were registered by hand.
PlanningInit ==
  /\ planStatus \in [Plans -> PlanStatus]
  /\ \E S \in SUBSET Units : unitPlan = [u \in Units |-> IF u \in S THEN NoPlan ELSE "ABSENT"]
  /\ generated = {}
  /\ queue = [u \in Units |-> NoItem]
  /\ planReq = [r \in PlanRequests |-> NoPlanReq]
  /\ messy = FALSE

LinkedTo(p) == {u \in Units : unitPlan[u] = p}
Remaining(p) == Max({Target - Cardinality(LinkedTo(p)), 0})
InQueue == {u \in Units : queue[u] # NoItem}
InLine == {u \in Units : queue[u].status = "OPEN"}

\* order_by("sequence", "id"): items with one number in any order, as ids are left out.
Sorted(S) ==
  {s \in [1 .. Cardinality(S) -> S] :
     ToSet(s) = S /\ \A i, j \in DOMAIN s : i < j => queue[s[i]].seq <= queue[s[j]].seq}

Begin(r, request) ==
  /\ planReq[r] = NoPlanReq
  /\ planReq' = [planReq EXCEPT ![r] = request]
  /\ UNCHANGED planRows

\* Requests that write to the queue
QueueWriters == {"sequence", "form", "set", "move"}
NoOtherWriter(r) == \A q \in PlanRequests \ {r} : planReq[q].kind \notin QueueWriters

\* Such a request begins: beside another one it may read what is about to change.
BeginWriter(r, request) ==
  /\ Begin(r, request)
  /\ messy' = (messy \/ ~ NoOtherWriter(r))

(***************************************************************************)
(* ProductionPlanControlView and the form of a plan                        *)
(***************************************************************************)
\* release, start, close and cancel: from which status to which
PlanMoves ==
  {<<"DRAFT", "RELEASED">>, <<"RELEASED", "IN_EXECUTION">>}
    \union {<<s, "CLOSED">> : s \in {"RELEASED", "IN_EXECUTION"}}
    \union {<<s, "CANCELLED">> : s \in OpenPlan}

AskStatus(r, p, to) ==
  /\ <<planStatus[p], to>> \in PlanMoves
  /\ to = "IN_EXECUTION" => LinkedTo(p) # {}
  /\ Begin(r, [kind |-> "status", plan |-> p, to |-> to])
  /\ UNCHANGED messy

\* The form of a plan takes any status.
AskPlanForm(r, p, to) ==
  /\ Begin(r, [kind |-> "status", plan |-> p, to |-> to])
  /\ UNCHANGED messy

AskGenerate(r, p, n) ==
  /\ planStatus[p] \in OpenPlan
  /\ n \in 1 .. Remaining(p)
  /\ Begin(r, [kind |-> "generate", plan |-> p, left |-> n])
  /\ UNCHANGED messy

\* The unit exists and is of no plan, or of this one.
AskLink(r, p, u) ==
  /\ planStatus[p] \in OpenPlan
  /\ unitPlan[u] \in {NoPlan, p}
  /\ Begin(r, [kind |-> "link", plan |-> p, unit |-> u])
  /\ UNCHANGED messy

\* Numbered from the count of the items on, instead of from their highest number
AskSequenceCounting(r, p) ==
  /\ planStatus[p] \in {"RELEASED", "IN_EXECUTION"}
  /\ LinkedTo(p) # {}
  /\ BeginWriter(r, [kind |-> "sequence", todo |-> LinkedTo(p), top |-> Cardinality(InQueue)])

\* create_from_plan reads the plan, its units and the highest number of the line.
AskSequence(r, p) ==
  /\ planStatus[p] \in {"RELEASED", "IN_EXECUTION"}
  /\ LinkedTo(p) # {}
  /\ BeginWriter(r, [kind |-> "sequence", todo |-> LinkedTo(p),
                     top |-> Max({queue[u].seq : u \in InQueue} \union {0})])

WriteStatus(r) ==
  /\ planReq[r].kind = "status"
  /\ planStatus' = [planStatus EXCEPT ![planReq[r].plan] = planReq[r].to]
  /\ planReq' = [planReq EXCEPT ![r] = NoPlanReq]
  /\ UNCHANGED <<unitPlan, generated, queue, messy>>

\* One more unit, under the next free serial number
WriteUnit(r) ==
  /\ planReq[r].kind = "generate"
  /\ \E u \in Units :
       /\ unitPlan[u] = "ABSENT"
       /\ \A v \in Units : v < u => unitPlan[v] # "ABSENT"
       /\ unitPlan' = [unitPlan EXCEPT ![u] = planReq[r].plan]
       /\ generated' = generated \union {u}
  /\ planReq' = [planReq EXCEPT ![r] =
       IF @.left = 1 THEN NoPlanReq ELSE [planReq[r] EXCEPT !.left = @ - 1]]
  /\ UNCHANGED <<planStatus, queue, messy>>

WriteLink(r) ==
  /\ planReq[r].kind = "link"
  /\ unitPlan' = [unitPlan EXCEPT ![planReq[r].unit] = planReq[r].plan]
  /\ planReq' = [planReq EXCEPT ![r] = NoPlanReq]
  /\ UNCHANGED <<planStatus, generated, queue, messy>>

\* Requests that write to the queue spoil the moves under way.
Spoiled(reqs, r) ==
  [q \in PlanRequests |->
     IF q # r /\ reqs[q].kind = "move" THEN [reqs[q] EXCEPT !.alone = FALSE] ELSE reqs[q]]

\* The next unit of create_from_plan: one that has an item already is skipped.
WriteItem(r) ==
  /\ planReq[r].kind = "sequence"
  /\ LET q == planReq[r]
         u == Min(q.todo)
         left == q.todo \ {u}
         top == IF u \in InQueue THEN q.top ELSE q.top + 1
     IN /\ queue' = IF u \in InQueue THEN queue
                    ELSE [queue EXCEPT ![u] = [status |-> "OPEN", seq |-> top]]
        /\ planReq' = [Spoiled(planReq, r) EXCEPT ![r] =
             IF left = {} THEN NoPlanReq ELSE [q EXCEPT !.todo = left, !.top = top]]
  /\ UNCHANGED <<planStatus, unitPlan, generated, messy>>

(***************************************************************************)
(* ProductionQueueControlView                                              *)
(***************************************************************************)
\* ready and hold leave an item open, cancel does not.
AskSet(r, u, to) ==
  /\ queue[u].status = "OPEN"
  /\ BeginWriter(r, [kind |-> "set", unit |-> u, to |-> to])

\* set_status saves the status and not the number.
WriteSet(r) ==
  /\ planReq[r].kind = "set"
  /\ queue' = [queue EXCEPT ![planReq[r].unit].status = planReq[r].to]
  /\ planReq' = [Spoiled(planReq, r) EXCEPT ![r] = NoPlanReq]
  /\ UNCHANGED <<planStatus, unitPlan, generated, messy>>

\* Reordered among everything the line ever had
ReorderedAll(u, n) ==
  {InsertAt(others, Min({n, Len(others) + 1}), u) : others \in Sorted(InQueue \ {u})}

\* The line with unit u taken out and put back at place n
Reordered(u, n) ==
  {InsertAt(others, Min({n, Len(others) + 1}), u) : others \in Sorted(InLine \ {u})}

\* resequence reads the line and knows which numbers are not the item's place.
AskMove(r, u, n) ==
  /\ queue[u].status = "OPEN"
  /\ \E order \in Reordered(u, n) :
       BeginWriter(r, [kind |-> "move", order |-> order, done |-> 0, alone |-> TRUE,
                       wrong |-> {i \in DOMAIN order : queue[order[i]].seq # i}])

\* The next row of resequence: written when the number read was not its place.
WriteMove(r) ==
  /\ planReq[r].kind = "move"
  /\ LET q == planReq[r]
         i == q.done + 1
     IN /\ i <= Len(q.order)
        /\ queue' = IF i \in q.wrong THEN [queue EXCEPT ![q.order[i]].seq = i] ELSE queue
        /\ planReq' = [Spoiled(planReq, r) EXCEPT ![r].done = i]
  /\ UNCHANGED <<planStatus, unitPlan, generated, messy>>

Moved(r) == planReq[r].kind = "move" /\ planReq[r].done = Len(planReq[r].order)

\* refresh_from_db and the answer.  Nobody wrote in between and nobody is about to:
\* whatever the line had been like, it is in order.
EndMove(r) ==
  /\ Moved(r)
  /\ planReq' = [planReq EXCEPT ![r] = NoPlanReq]
  /\ messy' = (messy /\ ~ (planReq[r].alone /\ NoOtherWriter(r)))
  /\ UNCHANGED planRows

(***************************************************************************)
(* ProductionQueueItemCreateView and ProductionQueueItemUpdateView         *)
(***************************************************************************)
\* The form of an item takes any status and any number, and a plan of any status; the
\* unit must be of no other plan, and when the item is new have none yet.
AskForm(r, u, p, to, n) ==
  /\ unitPlan[u] \in {NoPlan, p}
  /\ BeginWriter(r, [kind |-> "form", unit |-> u, row |-> [status |-> to, seq |-> n],
                     new |-> u \notin InQueue])

\* A new item of a unit that has got one meanwhile is an IntegrityError (PlanReqDies).
WriteForm(r) ==
  /\ planReq[r].kind = "form"
  /\ LET q == planReq[r]
         others == {v \in InLine \ {q.unit} : queue[v].seq = q.row.seq}
     IN /\ q.new => q.unit \notin InQueue
        /\ queue' = [queue EXCEPT ![q.unit] = q.row]
        /\ messy' = (messy \/ (q.row.status = "OPEN" /\ others # {}))
  /\ planReq' = [Spoiled(planReq, r) EXCEPT ![r] = NoPlanReq]
  /\ UNCHANGED <<planStatus, unitPlan, generated>>

\* The request dies, or a row it wants to create is there by now (IntegrityError); a
\* move may have written some of its numbers and not the others.
PlanReqDies(r) ==
  /\ planReq[r] # NoPlanReq
  /\ planReq' = [planReq EXCEPT ![r] = NoPlanReq]
  /\ messy' = (messy \/ planReq[r].kind = "move")
  /\ UNCHANGED planRows

PlanningNext ==
  \E r \in PlanRequests :
    \/ \E p \in Plans : \/ \E to \in PlanStatus : AskStatus(r, p, to) \/ AskPlanForm(r, p, to)
                        \/ \E n \in 1 .. Target : AskGenerate(r, p, n)
                        \/ \E u \in Units : AskLink(r, p, u)
                        \/ AskSequence(r, p)
    \/ \E u \in Units : \/ \E to \in QueueStatus : AskSet(r, u, to)
                        \/ \E n \in 1 .. Cardinality(Units) : AskMove(r, u, n)
                        \/ \E p \in Plans, to \in QueueStatus, n \in FormNumbers :
                             AskForm(r, u, p, to, n)
    \/ WriteStatus(r) \/ WriteUnit(r) \/ WriteLink(r) \/ WriteItem(r)
    \/ WriteSet(r) \/ WriteMove(r) \/ EndMove(r)
    \/ WriteForm(r) \/ PlanReqDies(r)

PlanningSpec == PlanningInit /\ [][PlanningNext]_planVars

(***************************************************************************)
(* Properties that hold.                                                   *)
(***************************************************************************)
\* A move that nothing else disturbed leaves the open items of the line numbered 1, 2,
\* ..., n in the order asked for, whatever gaps and equal numbers earlier requests that
\* died half way or overtook each other had left.
MoveRepairs ==
  \A r \in PlanRequests :
    Moved(r) /\ planReq[r].alone =>
      /\ \A i \in DOMAIN planReq[r].order : queue[planReq[r].order[i]].seq = i
      /\ ToSet(planReq[r].order) = InLine

\* Two open items have one number only when somebody typed it, a move died half way, or
\* two requests that write to the sequence were in hand at once, and only until the next
\* move that nothing disturbs.  Between moves, that is: one renumbers row by row.
NumbersDistinct ==
  ~ messy /\ (\A r \in PlanRequests : planReq[r].kind # "move") =>
    \A u, v \in InLine : queue[u].seq = queue[v].seq => u = v

(***************************************************************************)
(* What a test of the code says and is not so.                             *)
(***************************************************************************)
\* assembly/tests.py:488 (test_production_plan_generation_respects_target_quantity): no
\* more units are generated for a plan than its target quantity.
GenerationWithinTarget ==
  \A p \in Plans : Cardinality(LinkedTo(p) \intersect generated) <= Target
=============================================================================
