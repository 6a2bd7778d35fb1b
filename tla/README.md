# KORE Serial: TLA+ models

KORE Serial is a multi-tenant MES/WMS in Django 5.2 on PostgreSQL, with huey for
its periodic tasks, and a plant agent (`edge_agent/`) that runs beside the
machines. These modules model its protocols: what happens when users, tasks,
agents and a network act on the same rows in any order, die half way or repeat
themselves. TLC checks each module on a small instance; TLAPS proves the safety
properties of all of them for every value of their constants.

Run everything in this directory:

    tlc -workers 2 -config EventBus.cfg MCEventBus
    tlc -workers 2 -config Plant.cfg MCPlant
    tlapm EventBus_proofs.tla

## The environment the models assume

* PostgreSQL at READ COMMITTED, no `ATOMIC_REQUESTS`: outside an explicit
  `transaction.atomic()` every statement is a transaction of its own.
* gunicorn with three workers and one huey worker: any two requests, or a
  request and a task, may be in process at once, and a worker may be killed
  (`WEB_TIMEOUT` 60 s) between any two statements.
* Model `save()` without `update_fields` writes the whole row, so a handler
  that saves what it read overwrites what others wrote since.
* `select_for_update` and advisory locks hold until the transaction ends; a unique
  constraint makes a second insertion wait for the first transaction and fail.

## Inventory

| Component | State | Operations | Hard behaviour | Correct when |
|---|---|---|---|---|
| Unit lifecycle (`assembly/services.py`, `models.py`, `views.py`) | `SerializedUnit.status`, `UnitStationEvent`, `QualityGate`, `ReworkOrder`, `ReleaseApproval`, as-built rows | record_station_event, review_quality_gate, create/start/send to QA/close/cancel rework, approve/reject release, install component, measure | long sequences of legal calls; late events; several gates and orders at once; unlocked forms | route executed in order; nothing open behind a release; rework and its reinspection agree |
| Station intake (`assembly/api.py`, `services.py`, `views.py`) | `UnitStationEvent`, `EquipmentInboundEvent`, `StationOfflineEvent` | console, API, collector, upload, sync | the same message twice, deaths between event and status or between event and mark | a message recorded once unless two requests had it in hand; status never ahead of the events |
| Plans and queue (`assembly/models.py`, `views.py`) | `ProductionPlan`, `ProductionQueueItem` | release/start/close/cancel, generate, link, sequence, resequence, set status | row-by-row writes without a transaction, two at once; forms that take any status and number | a move numbers the line; two open items have one number only where somebody caused it |
| Model mix (`assembly/models.py`) | `ModelMixPlan`, its items and plans | activate, close, add item, generate plans | two generations at once, codes cut to 80 characters that two versions or two mixes share, plans typed by hand | a plan of the item's version where the code is its own |
| Line balancing (`assembly/balancing.py`) | `LineBalancingStudy` | calculate | greedy redistribution | all the work over the takt is moved or asked for, none twice |
| Andon, downtime, external kits (`assembly/models.py`, `views.py`) | `AndonSignal`, `ProductionDowntime`, `ExternalMaterialKit` | acknowledge, resolve, cancel, close, receive, consume, edit forms | partial saves and whole-row saves that overtake each other | status and evidence saved together |
| Edge agent buffer (`edge_agent/buffer.py`, `agent.py`, `client.py`) | SQLite `pending`, in-memory refusals | capture, flush, drop, restart | lost requests and answers, timeouts, power cuts | no reading leaves the buffer before the server has answered for it |
| Edge ingest (`edge/api.py`, `services.py`) | `EdgeSignal` | ingest_signals | repeated and concurrent batches, one bad reading in a batch, worker death between commit and interpretation | stored once, in order, interpreted at most once |
| Signal normalisation (`edge/services.py`) | `EdgeSignal`, `EquipmentInboundEvent`, `ProductionMeasurement` | normalize_signal, retry_signal, rules | a retry beside the ingest, rules edited meanwhile, whole-row saves | normalised only with a fact behind it |
| Edge commands (`edge/services.py`, `api.py`, `agent.py`) | `EdgeCommand` | queue, pull, run, ack, expire | lost pulls and acks, expiry racing an ack, agent death | run at most once; closed with what really happened; closed in the end |
| WMS inventory (`wms/services.py`) | `InventoryBalance`, `InventoryMovement`, `MaterialSerial`, receipt lines | receive, transfer, change state, adjust | concurrent movements, opposite lock orders, check before lock | balances match movements; never negative; a serial is in one place |
| WMS line feeding (`wms/services.py`, `views.py`) | `AssemblyKit`, `PickMission`, `PickTask`, `KanbanSignal` | release and deliver a kit, create/release missions, pick, serve and fulfil signals | concurrent pickers, stale edit forms, two missions for one signal | ready only when picked; fulfilled only when moved |
| Poka-yoke scan (`wms/services.py`) | `PokaYokeAttempt`, `MaterialConsumption`, `InstalledComponent` | process_component_scan | a scan sent twice, checks before the transaction | all or nothing, once; never more than required |
| Event bus (`eventbus/services.py`, `tasks.py`, `views.py`) | `DomainEvent`, `EventDelivery` | publish, dispatch, retry | unlocked dispatchers, whole-row saves, dispatcher death | delivered means handled; everything is delivered or failed in the end |
| Emitters (`eventbus/signals.py`) | idempotency keys | post_save receivers | facts that repeat | only facts are published |
| Indicators (`eventbus/services.py`) | `IndicatorSnapshot` | rebuild of the day | rebuilds at once, no unique row for the plant | what counts as delivered was counted |
| Outbound integration (`connect/services.py`) | `OutboundMessage`, `ReconciliationRun` | queue, flush, send, requeue, reconcile | unlocked senders, lost answers, retry caps | sent means received; given up only after all attempts |
| Inbound integration (`connect/services.py`) | `InboundMessage` | receive_inbound | repeated external ids | kept once |
| Tenants (`tenants/tenant_views.py`, `roles.py`, `user_accounts.py`) | `TenantMembership`, groups, `Client.max_users` | create/edit/toggle/remove users, roles; the superusers' panel | check then write, no transaction, deaths half way | seats kept, an administrator left, everybody has a role |
| Screens (`config/views.py`, `core/navigation.py`, `core/mixins.py`, every `views.py`) | the role's permissions, the page as it was rendered | follow a link, post a button, revoke | two tests of one thing in two places, roles that change | what is offered is admitted, what is admitted is offered |
| Change control (`changecontrol/`) | change requests | submit, approve, sign | reachable by no address | - |
| Core, audit, settings, seed commands | catalogues, logs | CRUD | no protocol | - |

How they interact: a station event or a review changes the unit and its
`post_save` receiver publishes a domain event; the bus creates one delivery
per subscription; the INDICATORS handler rebuilds the day's snapshot and the
OUTBOUND handler queues one message per contract, which the outbound queue posts
to the other system. In the other direction an agent's reading is ingested as a
signal, and a rule turns it into an equipment message (which becomes a station
event), or a measurement. A kit's missions and a scan move stock through the same
inventory service. All of it meets in database rows: no component keeps state in
memory except the agent, whose loop holds what it waits for.

## Modules

| Module | Models | Composed with |
|---|---|---|
| `UnitLifecycle` | one unit: station events, gates, rework, traceability, release | |
| `StationIntake` | messages and console input about one unit at one station, at once | |
| `Planning` | plans, their units and the sequence of one line, statement by statement | |
| `ModelMix` | the mixes of a line, their items and the plans generated from them | |
| `LineBalance` | the calculation of a balancing study, move by move | |
| `FloorCalls` | an Andon signal, a downtime, an external kit and requests over stale rows | |
| `SignalDelivery` | abstract: readings captured, stored once in order, let go | |
| `EdgeDelivery` | agent buffer, network and ingest endpoint together | implements `SignalDelivery` |
| `SignalFacts` | normalisation, its event, and the snapshot of the plant | |
| `EdgeCommands` | command queue, pulls, acknowledgements and the agent that runs them | |
| `StockLedger` | abstract: a stock whose movements are single steps | |
| `Inventory` | concurrent stock movements with their locks | implements `StockLedger` |
| `LineFeeding` | a kit, its pick missions, Kanban signals, concurrent pickers | |
| `PokaYoke` | component scans with stock and requirement | |
| `EventBus` | publish, dispatch, retry, the OUTBOUND handler | |
| `Outbound` | the message queue towards an external system | |
| `Tenants` | members, seats, administrators and roles of a company | |
| `Screens` | every page with its links and what the page behind each asks | |
| `MCPlant` | ten of these in one instance, one moving at a time | extends them |
| `Floor_proofs` | theorems about `FloorCalls`, `StationIntake`, `SignalFacts` | |
| `Plant_proofs` | theorems about `PokaYoke`, `LineFeeding`, `ModelMix`, `Planning`, `Tenants`, `LineBalance`, `Screens`, `MCPlant` | |
| other `*_proofs` | theorems about the module of that name | |
| other `MC*` | the instance TLC checks | |

### UnitLifecycle

`status`, `last` and `done` are the unit's row and its events: `last[s]` is the
type of the newest event of the step by `event_at` (what
`current_route_step_for` and `station_event_issue_for` read), `done` the steps
with a COMPLETED event. `gates` and `reworks` are rows. `missing` holds the
requirements that `as_built_issues` and `measurement_issues` would complain of.
Each action is a whole handler: `Execute`, `Complete`, `Fail`, `SendToRework`
are `record_station_event` by event type, with the status, the gate or the
rework order it creates in the same transaction. `Review` is
`review_quality_gate` with `sync_reinspection_reworks` and
`apply_result_to_unit`. `CreateRework`, `StartRework`, `SendToQualityReview`
and `ResolveRework` are the two rework views. `Approve` and `Reject` are
`ReleaseApproval`'s `clean` and `save`.

A station event carries its own time, given by the caller for API, equipment
and offline events. A late one (`late`) is accepted against the newest event,
changes the unit, and leaves the newest event the newest.

Limits: one active route whose steps are at stations of their own; blocking
gates only; handlers are atomic (how events come in at once is
`StationIntake`); the raw edit forms of the rows are not modelled; orders
entered by hand start in an open status; the statuses ARCHIVED and ARRIVED,
which no handler writes, are left out.

### StationIntake

What `UnitLifecycle` takes as one step, seen from outside: one unit, the last
station of its route, and requests that record an event there. `Api`, `Collect`
and `Sync` begin a transaction and judge the event on what is committed
(`available_station_actions`); `Commit`, `CommitFound` and `CommitRefused` end
it, perhaps after others have committed. The collector's message has a unique
`external_id`, which makes a second one wait (`Collect` is disabled while it is
in hand); `sync` looks for an event of the same reference instead, and a sync
writes its mark (`Mark`) after the transaction. The console has no transaction:
`ConsoleCreate` and `ConsoleEffects` are two writes. `IntakeDies` may come
anywhere. `overlapped` remembers the messages of the API and of offline terminals
that two requests had in hand at once: `record_station_event` looks for an event of
the same reference and creates one, and nothing makes the reference unique, so
those may be recorded twice, and `RecordedOnce` says that only those are. Every
message brings its `event_at`, so any of them may be late (`NewEvent`). Calls of the
API without a reference, which nothing recognises, are left out.

### Planning

`planStatus`, `unitPlan` and `queue` are the rows of plans, units and queue
items of one line; `planReq` is what each request has read and has left to
write. No handler of these screens opens a transaction: a request is a start
(`AskStatus`, `AskGenerate`, `AskLink`, `AskSequence`, `AskSet`, `AskMove`: what
it reads and refuses) and one step per row (`WriteStatus`, `WriteUnit`,
`WriteLink`, `WriteItem`, `WriteSet`, `WriteMove`), so that others come between
and it may die there (`PlanReqDies`). The forms are requests like the others:
`AskPlanForm` saves a plan with any status, `AskForm` and `WriteForm` create or
save an item of a plan of any status, with any status and number ("Asignar unidad",
"Editar secuencia"). `resequence` writes only the rows whose
number, as it was read, was not their place: that is why `MoveRepairs` speaks of
moves that nothing else disturbed (`alone`), and why it is not obvious even of
them, since what they find are the gaps and equal numbers that others left.
`messy` remembers that something may have given two open items one number: a number
typed into the form that another item has, a move that died half way, or two
requests that write to the sequence at once; a move that nothing disturbs tidies
up. `NumbersDistinct` says that nothing else does. Nothing is claimed of the plans
whose units are in the sequence: the form queues units of a draft, and a plan may
be closed or cancelled after its status was checked. What the forms change besides
(line, version, target, unit) is left out; plans are of one version.

### ModelMix

`StartGenerating`, `FindPlan` (`get_or_create`, by the code) and `LinkItem` are
`generate_production_plans`, item by item; `AddItem`, `EndMix`, `SaveMixForm`,
`ClosePlan` and `TypePlan` (the form of a plan, under any code) may come in
between. Plans are found by a code, `f"{mix.code}-{version.code}"[:80]`, which is
`CodeOf` an item: two products may have versions of one code, a mix's code may be
as long as the cut, and two mixes may come to the same characters. Codes and items
that exist are not edited.

### LineBalance

The loads and the target of a study are given in the initial state (every
distribution of `MaxSeconds` over the stations, every takt, every set of slow
stations), the loop of `_build_redistribution` is `MoveWork` and `AskCapacity`,
in the code's order of stations, and `Recommend` is the first of the
recommendations. Percentages, texts and the reading of the events that say which
stations are slow are left out: any station may be slow.

### FloorCalls

One row of each kind, of which only the status and the presence of its evidence
(notes, end, reception) are kept. A request has read the row (`Ask` with the
status it found) and saves later, over whatever is there, the fields its method
names or, from an edit form, all of them (`Saved`). `receive` and `consume` of a
kit are called by no view and are modelled as the methods they are.

### EdgeDelivery and SignalDelivery

A reading is the number of its capture. The agent (`Capture`, `Flush`,
`Receive`, `NoAnswer`, `DropRefused`, `PowerCut`, `Start`) reads a prefix of its
buffer, posts it, waits, and drops what was answered. A call is a record that
goes from request to answer; a request or an answer may be lost in any phase,
and a call that the agent gave up on goes on at the server beside its
successor. At the server a batch is validated as a whole, then each reading in
turn is refused, found stored, created (one transaction) or normalised (after
it): a death between the two is `Crash`. `Invalid` readings fail the
serializer, `Unstorable` ones raise in `create`, `Doubtful` ones belong to a
device that may be inactive or unknown when they arrive.

`SignalDelivery` is what agent and server promise together, without calls: a
reading is held, stored after every older one was stored or refused, and let go
afterwards. `EdgeDelivery` implements it with the buffer and the refusals about
to be dropped as `held`; property `Delivered` is that refinement, checked by
TLC and proved.

Left out: heartbeats, drivers, configuration and the attempts counter of a row
carry no state the properties tell apart; an authentication error is an error
answer like any other; the capture clock of one agent does not go back.

### SignalFacts

What follows the commit of a signal, where `EdgeDelivery` only says
"normalised". `Store` is the ingest that goes on to normalise, `Retry` is
`retry_signal`, which takes any signal that is not NORMALIZED and works on a
copy of its row. `ApplyRule` is the first rule that fits, any rule, as people
edit them at any time; `InboundEvent` and `Measure` make the fact, each in its
own transaction, `Refuse` is what the rule's action cannot be applied to, and
`SaveSignal` writes the whole copy over the row. `Emit` is the `post_save`
receiver, and `MovementPublished` that of inventory movements, the other events
without a line. From there `DispatchRebuild` (the bus, at any time and any
number of times; `EventBus` has the order) or `Rebuild` (the ten-minute task, a
user) runs `rebuild_indicators`: `Count` reads the day's events, `Look` finds
the snapshot, `Insert` makes one, `Deliver` saves the delivery. The unique
constraint on snapshots does not apply to rows without a line, so two rebuilds
can insert two, and every later `Look` fails (`update_or_create` raises
`MultipleObjectsReturned`). What the snapshot says is reduced to which events it
has ever counted.

### EdgeCommands

A command is queued in two writes (`Issue` creates it, `Date` gives it
`expires_at`; `DieUndated` is death between them). `Claim` marks what is queued
as SENT and hands it out; the agent runs a command and sends an
acknowledgement, which the server checks against the row it read (`CheckAck`)
and writes later (`WriteAck`). `ExpireStale` is the periodic task. The pull's limit
of 20 commands and the order in a pull are left out: they change no outcome of
a single command.

### Inventory and StockLedger

An item is a material with lot and serial, a slot a location with an inventory
state. A movement is one transaction: lock the source position, check what is
left, check that the destination takes the material, lock the destination,
commit. Which advisory locks a transaction holds follows from its `pc`; two
transfers in opposite directions deadlock, and `BreakDeadlock` is PostgreSQL
aborting one. `receive` checks the receipt line on what it read before its
transaction (`seen`) and then adds to it.

`StockLedger` is what this promises to everyone else: a movement is one step. It
finds at its source what it takes, finds a serial's destination empty, changes the
balances and the book alike, and a serial is received once. What it leaves open is
what the code leaves open: a receipt writes into its line its own quantity and any
part of what was received before, and an exclusive location may be mixed.
`MovesAtOnce` says that `Inventory` implements it, with the rows as they are
committed for the ledger's variables and nothing of the transactions: a commit is a
`Receive` or a `Handle`, or, from a slot to itself, nothing.

### LineFeeding

One kit, its lines, the pick missions with their tasks, and Kanban signals.
Every handler is a reading (`Ask...`) and a writing. `complete_pick_task` is
three steps: `AskPick` reads and refuses before the transaction, `SyncPick`
looks at the other tasks inside it, as they are committed, and `CommitPick`
makes all of it visible. The kit's edit form saves the status it read
(`AskKit(r, "DRAFT")`). Two requests may both find a Kanban signal open and
create a mission each (`Serve`); the later one becomes the signal's,
`servedSignal` remembers for whom each was created. The stock that a task moves
is `Inventory`'s: here a transfer is only counted, or its transaction dies
(`FeedReqDies`).

### PokaYoke

`Scan` is what `process_component_scan` checks before its transaction, `Install`
the transaction (component, movement, consumption, attempt: all or nothing,
serialised by the advisory lock on the consumptions' code), `Refused` its
rollback, `Reject` the attempt that is recorded instead, `RegisterByHand` the
form beside it. The stock is read again under its lock, what is installed is not:
`crossed` remembers that two requests were between check and end at once, and
`ScansWithinRequired` holds without that only.

### EventBus

`Publish` inserts an event and its deliveries (one transaction, with the unique
idempotency key). A dispatcher takes the oldest pending deliveries (`Fetch`) and
for each one runs the handler, then saves the row it read: `runs` counts what
really ran, `attempts` what the rows say. The OUTBOUND handler queues messages
contract by contract (`QueueMessage`), each in its own transaction. `Retry` is
the view: it checks the row it read, sets it to pending, and dispatches.

Events are numbered in publication order and subscriptions in code order, which
is the order of the deliveries' ids. Subscriptions and contracts do not change.

### Outbound

`Flush` and `SendByHand` are a worker reading rows (the task all that are open, a
user one), `Skip` a row that is not due,
`Post` the HTTP request, whose answer may be lost although it was `received`,
`Save` the whole-row save, `Crash` death in between. `Reconcile` and `Requeue`
are the reconciliation and the views. Whether `next_attempt_at` has come is left
to the clock. The LOG transport, which marks messages sent without sending, and
the flush limit of 100 are left out.

### Tenants

The members of one company, their roles (groups) and the seats of its plan. The
company's own screens (`AskAccount`, `AskRole`, `AskToggle`, `AskDelete`,
`AskDeleteRole`) admit its active administrators and count seats; what they then
write is one step per row: `Regroup` takes the old role, `AddRole` gives the
new one, `Join` and `MakeAdmin` write the membership. `PanelAdds`,
`PanelChanges` and `ChangePlan` are superusers, who count nothing. `past` tells
how orderly the history was: `ORDERLY`, `INTERRUPTED` (a request died) or
`DISTURBED` (two were under way at once, or a superuser acted). The two
properties say what each of these histories still guarantees, and TLC refutes
both as soon as `past` is left out.

### Screens

`Pages` is every page the web serves, with what it asks of its user and the
links and buttons it shows, each with the test that shows it; `Catalog` finds the
one at an address. Page and link
decide separately, in different files: `ModulePermissionMixin` asks for all of a
list, `SerialListMixin`, the module bars, the home page and the side bar each
have tests of their own, and administrators of the two kinds (the group and the
company's) count in some and not in others. `ShowPage` renders a page, `Follow`
goes where a link leads, `Revoke` takes a permission from the role while the
page is on the screen. `LinkIsAdmitted` is about both directions. The pages for
which it is not so are `PromisedByAnother`; links shown without any test
(`Plain`) promise nothing. Contents, filters and the buttons hidden by a row's
status are left out.

### MCPlant

The ten modules `Planning`, `ModelMix`, `FloorCalls`, `StationIntake`,
`LineFeeding`, `PokaYoke`, `Tenants`, `Screens`, `SignalFacts` and `LineBalance`
share no variable. A step of one changes nothing for another, so a state of
their product violates a property of one of them only if a state of that one
does: `focus` chooses one at the start and only that one moves. The three kinds
of floor calls, the missions of kits and of Kanban signals, and the events of
signals and of movements are foci of their own for the same reason within their
modules (a state of two kinds at once is left out; the properties are about one
each). Where the modules meet in the code (a scan moves stock, a collector's
message may come from a signal), the one has the other's step as an action of
its environment (`Move` in `PokaYoke`, the verdict in `InboundEvent`).

## Runs

Each module has a run for what holds, safety and liveness together; five more
runs end in a counterexample to a sentence of the repository's documents.

| Run | Distinct states | Shows |
|---|---|---|
| `UnitLifecycle.cfg` | 307 k | on a two-step route with one gated step, two gates, two orders and late events: `RouteOrder`, `ReleasedSettled`, `ReinspectionSync`, and as action property `ReleaseUndoneByNewOrderOnly` |
| `EdgeDelivery.cfg` | 223 k | nothing lost (`NothingLost`), interpreted at most once (`InterpretedOnce`), the refinement of `SignalDelivery` (with it the order) under every loss, crash and refusal, and, once things stay up, every reading that no poison reading holds up is stored or refused (`EventuallyStored`) |
| `Inventory.cfg` | 727 k | balances match the ledger (`LedgerMatches`), a serial in one slot (`SerialInOneSlot`), receipt lines backed by movements (`LineBacked`), the refinement of `StockLedger` (`MovesAtOnce`), in which nothing is overdrawn |
| `EventBus.cfg` | 187 k | delivered means queued for every contract (`DeliveredMeansQueued`); a pending delivery is settled in the end (`EventuallySettled`) |
| `Outbound.cfg` | 364 k | sent was received (`SentWasReceived`); nothing discarded early (`NotDiscardedEarly`); every message is sent or discarded in the end (`EventuallyClosed`) |
| `EdgeCommands.cfg` | 204 k | a command runs once at most (`RunOnce`), is closed with its real result (`ResultIsReal`), and a dated one is closed in the end even if no agent comes back |
| `Plant.cfg` | 1,313 k | `MoveRepairs`, `NumbersDistinct` (planning); `PlanOfUniqueCode` (mix); `Redistributed` (balancing); `ClosedWithEvidence` (floor calls); `RecordedOnce`, `CompletedWasRecorded` (intake); `ReadyIsPicked`, `FulfilledWasMoved` (line feeding); `ScanOnce`, `ScansWithinRequired` (poka-yoke); `CompanyIsManaged`, `EverybodyHasRole` (tenants); `LinkIsAdmitted` (screens); `NormalizedHasFact`, `DeliveredWasCounted` (signals, events, indicators) |

The symmetry sets (rows, workers, requests) are used only in the runs without
liveness. `Inventory` and the modules of `MCPlant` state no liveness: that a
movement ends is up to PostgreSQL, and that a request is finished or made again
up to people.

`TypeOK` of `EdgeDelivery`, `EventBus` and `Outbound`, `StoredInOrder`,
`AttemptsAreRuns`, `AttemptsWithinCap` and `NeverOverdrawn` follow from invariants
that are proved, and have no run.

Some properties name the case in which the code gives no guarantee, and are not about it:

* `MoveRepairs` and `NumbersDistinct`: requests that write to the sequence at once;
  what they leave behind is covered, until the next undisturbed move repairs it.
* `ClosedWithEvidence` is about evidence, not about going back: a stale page or edit
  form may save a resolved signal or a closed downtime back to open.
* `ScansWithinRequired`: two scans that were between check and end at once (`crossed`).
* `CompanyIsManaged` and `EverybodyHasRole`: requests that overlap, and for the second also
  those that die half way (`past`).
* `LinkIsAdmitted`: a page that was rendered before its user's role changed (`stale`).
* `DeliveredWasCounted`: that an event was counted, not that no older rebuild overwrote
  the snapshot since.
* `RecordedOnce`: messages without a unique row that two requests had in hand at once.
* `EventuallyStored`: readings that a poison reading holds up.

| Run | Sentence | Counterexample |
|---|---|---|
| `UnitLifecycle_ReleasedRouteComplete.cfg` | the release is blocked while mandatory route events are missing (README.md:604) | requirements satisfied, then approved without one station event |
| `EdgeDelivery_SurvivesNetwork.cfg` | when the network fails the agent keeps and retries, it does not die (`edge_agent/client.py:13`) | a timeout while the answer is awaited ends the process |
| `Inventory_ReceivedWithinExpected.cfg` | no more is received than the line expects (`wms/services.py:201`) | two receptions pass the check before either is written |
| `Outbound_SentIsNotSentAgain.cfg` | a sent message is not sent twice (`connect/tests.py:178`) | the task and a user read a queued message, one saves SENT, the other posts |
| `EventBus_RetryRunsItsDelivery.cfg` | a retry retries a failed delivery (`eventbus/services.py:168`) | the oldest pending delivery runs, the one asked for stays pending |

### Where the code and its documents part

Three more sentences are stated in the modules, beside what holds, and have no
configuration here. TLC refutes the last two when they are added to `Plant.cfg`
as invariants. The first needs two units still to be generated and a target of
one (`unitPlan` all `ABSENT` in `PlantInit`, `Target = 1`); in the instance of
`Plant.cfg` one unit is registered by hand, so only one is left to generate.

* `GenerationWithinTarget` (`assembly/tests.py:488`): two requests that generate
  units both read the remainder, and a plan gets more units than its target.
* `ItemPlanOfItsVersion` (`assembly/models.py:1383`): two products with a version
  of the same code in one mix, or two mixes whose codes meet at the cut; the second
  item takes over the plan of the first and changes its version, or is linked to the
  closed plan of the other version.
* `PickedIsReady` (`wms/tests.py:322`): the last two lines of a kit are picked at
  once, each without seeing the other: the kit stays released with all its lines
  picked.

The models behave as the code does, so they also show, without a statement of
their own, what follows. The properties above hold in spite of it, and are worded
so that they do.

* `assembly/services.py:366`: a second REWORK_OUT with the same defect code finds
  the closed order and leaves the unit in rework with no open one
  (`SendToRework`).
* `assembly/services.py:344`: a gated step completed a second time finds its old,
  passed gate and none is pending (`Complete`).
* `assembly/services.py:340`: REWORK_IN puts a unit with a failed gate in process
  (`Execute`).
* `assembly/views.py:634`: two terminals both record a START of the same unit
  (`ConsoleCreate`).
* `assembly/models.py:1031`: a resequence that dies half way leaves gaps or equal
  numbers until the next move (`WriteMove`).
* `assembly/views.py:1370`: the form "Asignar unidad" queues a unit of a draft, closed
  or cancelled plan, which `create_from_plan` refuses (`AskForm`, `AskSequence`).
* `assembly/services.py:120`: two posts of one API message at once both find no event
  and both create one (`Api`, `Commit`).
* `assembly/balancing.py:219`: a study whose route has an active step at an
  inactive station ends in a KeyError, and an edited study stays CALCULATED with
  the old snapshot (both outside the model: `Posts` are active stations).
* `edge_agent/agent.py:171`: a refused reading leaves the buffer and the server
  keeps nothing of it (`DropRefused`); `edge/api.py:84`: one reading that cannot be
  validated or inserted keeps its batch, and all that is behind it, in the buffer for
  ever (`Validate`, `Unblocked`).
* `edge/services.py:266`: a signal that the MES rejected is given the same rejected
  inbound event at every retry, and two retries at once measure twice
  (`InboundEvent`, `Measure`); a signal whose worker dies between the save and
  the receiver is NORMALIZED and never published (`FactReqDies` before `Emit`).
* `eventbus/services.py:294`: two snapshots of the plant make every later rebuild
  fail (`Look`), and a rebuild that read earlier overwrites a newer one
  (`counted` remembers, the row does not). A `performance_percent` above 9999.99
  does not fit its column; that arithmetic is not modelled.
* `wms/services.py:86`: two movements of different materials may both find an
  exclusive location empty (`CheckMix` holds no lock on the location).
* `wms/services.py:706`: two scans of the last required piece both pass
  (`crossed`).
* `eventbus/services.py:161` and `:171`: a slower dispatcher saves FAILED over
  DELIVERED (`Save`), and two retries run a delivery beyond its cap (`Ask`).
* `eventbus/signals.py:128`: the event of a quality gate is keyed by gate and
  status, so a third result equal to an earlier one is not published (outside the
  model).
* `connect/services.py:118`: FAILED is saved over SENT by a worker whose own post
  failed (`Save`); `:226`: a discarded message that the
  reconciliation finds missing is not queued again (`Requeue`).
* `edge/services.py:286`: a command whose sender dies between its two writes has no
  expiry (`DieUndated`); `:326`: a command that was collected expires too
  (`Expired`); `:312`: an acknowledgement may be written over EXPIRED (`WriteAck`).
* `core/navigation.py`, `config/views.py` and the templates: the bar's metrics are
  linked for everybody; the panels of advanced functions and of the warehouse,
  the control of a queued unit, the rebuilding of indicators and the users'
  screen are offered to people whom they refuse (`PromisedByAnother`); the lists
  of wms, edge, eventbus and connect offer their edit forms without a test
  (`Plain`). The tests of the bars and of the home page do not know the
  company's administrator, although a docstring says "igual que en las vistas",
  and the posts that test `has_perm` themselves refuse the admin group, of which
  `core/mixins.py` says "acceso total".
* `core/models.py:131`: nothing calls `approve` or asks `is_locked`, although the
  docstring says approved documents are not editable.

### Bounds

* Two of everything that races (calls, dispatchers, senders, stock
  transactions, pulls, requests): every handler touches one row of its own and
  one it shares, so the races are between pairs; a third actor repeats one of the
  two. The proofs have no such bound.
* Five readings with batches of two: three that the server can store, one it cannot
  insert, one it rejects, with good readings before and behind them; a full
  batch, a rest, and readings that are new while a call is out.
* Two steps, the first gated: an order to keep and a step behind a gate. A gate for
  the step and one for a reinspection, two orders.
* One event for two subscriptions of different handlers and two contracts; two
  attempts, so that a first, a last and a retried attempt all occur.
* `MaxRuns` and `MaxPosts` bound only what people and accidents do (retries,
  sends by hand, deaths): the protocol's own attempts are bounded by its cap.
* Quantities of one and balances to `MaxBalance`: larger ones add no order of
  steps; an overdraft shows with one piece.
* Planning: one plan with a target of two and two units, one of which exists: a
  unit to generate, one to link, and two items to order; one number that is typed
  (`FormNumbers`), which is the place of one of them and leaves a gap before the
  other. Mix: two items of one mix and one of another, which has the code of the
  first and the version of the second.
* Intake: an offline, a collector's and an API's message, of three different
  types that together finish the step; two records of each (`MaxRecorded`), so
  that a second one shows.
* Line feeding: two lines, a mission with a task for each, a mission for the Kanban
  signal, and a third mission so that two can be created for it.
* Poka-yoke: one piece required, two scans, one piece by hand.
* Tenants: two users, one base role and one of the company's, plans of one and two
  seats; both are initially any mixture of members and former members. That one
  user belongs elsewhere changes `Regroup` only in what it keeps.
* Screens: every page, every set of permissions that matters for one of its links,
  one permission lost (`ScreensSpec`). The theorem is about a role with any
  permissions whatever (`AnyRoleSpec`), so larger sets add nothing.
* Signals: one signal with two measurements at most (`MaxMeasured`), two movements:
  two facts to overtake each other in a snapshot.
* Balancing: three stations and seconds up to three: two to give and one to take,
  or the reverse, with a remainder.

Deadlock checking is off for the bus, which really stops when every delivery is
settled and the bound on events is reached, and for the plant, where a mix can be
over and a study is calculated once.

### Fairness

* The agent's loop, the server's handlers and the periodic tasks go on (weak
  fairness): an endless loop, a worker pool and huey's minutely schedule. Somebody
  restarts a dead agent.
* Failures may happen any number of times, but not for ever: liveness of the
  delivery assumes `Stable`, that from some time on the PC, the network and the
  workers stay up; liveness of the bus and the queue only that workers do not
  die for ever.
* `EventuallyStored` has a precondition, `Unblocked`: a reading is older than every
  one that cannot be inserted, and by a batch older than every one that cannot be
  validated. A batch with such a reading fails as a whole (`edge/api.py:84`) and is sent
  again and again: what is behind it waits for ever, however good the network.
* `SF` on posting a message: a FAILED message becomes due again and again, and
  its wait ends.
* `DatedCloses` assumes nothing of agents or network: the clock, the periodic
  task and the second write of `queue_command` suffice.

## Proofs

Every safety property of the passing runs is a theorem for all values of the
constants. The assumptions are those the
modules state with `ASSUME`: constants are sets of the right kind, finite where the
code holds them in a table, and "none" values are not members. Each argument is an
inductive invariant; TLC checked it on the instance of the run before it was
proved. They have a common form: what a request, worker or call has in hand is
about to be written, so the invariant says of it what must be true when it is.

**UnitLifecycle_proofs.** `IInv` is type correctness, `RouteOrder`,
`ReleasedSettled`, `ReinspectionSync` and `LastDone` (the newest event of a step
is COMPLETED only if the step is done). `LastDone` is needed because the guard
of an event reads newest events and the property speaks of completions;
`ReinspectionSync` needs `ReleasedSettled` because `apply_result_to_unit` returns
early for a released unit without syncing its orders, which is harmless only
because it has none open. `Invariance` is the induction, one lemma per handler.
`ReleaseUndoneHolds` is the action property: with the route executed no station
event is accepted, a released unit has no open order to start, send or resolve,
and reviews and rejections return early, so only a new order is left.

**EdgeDelivery_proofs.** `DInv` says what a call in process may rely on
(`CallSound`): what it calls stored is stored, and everything older than what it
still has to do is stored, refused or ahead of it in the same call. That
survives any other call because `stored` and `refused` only grow.
`OInv` adds that at most one call is about to interpret a reading: the one
that created its row. `DeliveryRefined` is the refinement, step by step.

**EdgeCommands_proofs.** `OneHand`: a command that may still be run is in the hand
of one pull or of the agent, and only after it left QUEUED (a pull claims with
`select_for_update`). With it a command that has run was claimed
before and is claimed by nobody again (`RunWasClaimed`), hence `RunOnce`; and an
acknowledgement on its way says what the run said (`AckIsReal`), hence
`ResultIsReal`, although it may arrive after the command was expired.

**Inventory_proofs.** Four things are true of a transaction until it commits: its
shape, what it read at its positions under their locks (`Reads`), that a serial it
moves is known and one it receives is not (`Knows`), and that what it read of its
line was received for it (`Counts`). The first three need that no two
transactions hold a lock in common nor receive the same serial (`Apart`).
`LineBacked` needs only that receipts grow: the line itself is not locked, which is
why more can be received than expected (`ReceivedWithinExpected`) and yet no line
claims more than was moved in. `LedgerRefined` is the refinement: what the
invariant says of a transaction that is ready is what `StockLedger` asks of the
movement (`Reads` for the balances, `Knows` for a serial, `Counts` for the line), so
a commit is one of its steps however long ago the transaction read.

**EventBus_proofs.** A dispatcher holds a copy of rows that others change.
`HandSound` is the part of the copy that stays true: a delivery it holds was
published, the attempts it read are at most the runs, the contracts it has
passed are queued. Messages and runs only grow, so no other worker disturbs it.

**Outbound_proofs.** The same argument for senders: what a worker read bounds
what it writes. `attempts` may go back when a stale row is saved, and still
never exceeds `posts` nor the cap, and a row is discarded only by a worker
whose read count was one below the cap after that many posts.

**Floor_proofs** holds three components that share no state.

* *FloorCalls.* `ClosedWithEvidence` says nothing of the rows that requests have in
  hand. `FInv` adds it: every one of them saves status and evidence together, or
  only a status that needs none (`cancel` of a downtime), so it may be saved over
  anything. Nothing about the order of requests is needed.
* *StationIntake.* `IInv` needs two facts about messages: of one that the
  collector sent, or that no two requests overlapped on, at most one request is in
  possession (`Alone`); and what that request has judged is still so (`Backed`): no
  event of the reference has been recorded since, or one has. The first rests on
  the unique `external_id` for the collector, and on the history variable for the
  API and a sync, where the code has no constraint.
  `CompletedWasRecorded` needs that the console's second write says no more than
  its first.
* *SignalFacts.* `Sound` is what a request is about to write, already true: a row
  to be saved as NORMALIZED has its inbound event processed or its measurement; a
  delivery to be saved as done is counted. Verdicts, measurements, events and
  counts only grow, so it stays true whatever others save meanwhile.
  `FewSnapshots` bounds the duplicates: once one snapshot exists nobody begins to
  insert another, so there are at most as many as requests were inserting then; it
  is an argument on cardinalities and the type invariant needs it.

**Plant_proofs** holds seven more, and what is true of all ten together.

* *Operators.* `Consumed` of the scans and the sums of the balancing are folds over
  finite sets that take any element first. `SumTakeOut` proves that the order
  does not matter, and from it follow what a changed value does to a sum
  (`SumChange`), sums of sums and their comparison. `MinIn`, `MaxIn` and the lemmas on
  `InsertAt` and `Reordered` say what those operators return. The library's
  induction theorems take an operator as a parameter, which the provers cannot
  instantiate; the inductions here are over a *set* of numbers or of subsets
  (`SetNatInduction`, `SetFiniteInduction`), from the well-foundedness of `<`.
* *PokaYoke.* As long as no other request came between (`crossed`), the one that
  was told to install is covered by what is still required (`StillRequired`). That a
  reference installs one piece needs no such condition.
* *LineFeeding.* `FeedSound`: a request that will save the kit as delivered, or
  ready, knows that stock was moved for all the lines it was released with, in the
  second case but its own task's (`SyncPick` read them). Stock that was moved stays moved, a
  kit once released gets only late lines, and a mission serves the signals it was
  created for, so this stays true however stale the row is.
* *ModelMix.* The row of a code that nobody typed is of the version of some item,
  of whatever mix, that comes to the code (`RowsOfMix`), and an item is linked to the
  plan of its code (`PlansLinked`). If all items of the code are of one version, it is
  the item's own.
* *Planning.* There is no lock, so what a request read may be stale at once. What
  `PlanInv` says of it either cannot cease to hold (an item is never removed) or
  the request is no longer `alone`. For a move `Numbered` is the loop invariant of
  `resequence`: place `i` has its number if it was written already, or had it when
  the move read the rows. `LineInv` adds, as long as the line is not `messy`, that at
  most one request writes to the sequence (`Tidy`), so that a request that appends
  items knows the highest number, and `NumbersDistinct` itself.
* *Tenants.* While nobody disturbs it (`Undisturbed`) there is one request at a
  time, and the seat and the other administrator it checked for are there. That no
  member loses the last role needs that no request died (`RolesKept`): between
  taking a role and giving the next one the member has none. The type invariant
  needs neither: a request changes only rows that exist.
* *LineBalance.* Nobody gives more than it has too much nor takes more than it has
  room for; each move exhausts one of its two stations, so that no pair meets
  twice; capacity is only asked for when no station has room (`Exhausted`); and in
  all as much is given as taken (`GivenIsTaken`). `CapacityIsRest` adds this up: if
  any capacity was asked for, all slack is taken, and the rest of the overload is
  what was asked.
* *Screens.* What a screen asks follows from its address (`Asked`), and a link is
  good if it is shown on a test that implies what its address asks, given what its
  page has asked (`Grants`). `TableFits` goes through the table, area by area: every
  page asks just what its address says and has only good links, all of which lead to
  addresses that answer. The rest is short: while the role has not changed, the page
  shows what its user may see and its user was admitted to it (`ServedPage`), and
  a loss of a permission makes the page stale. So `LinkIsAdmitted` holds for a role of
  any permissions, not only for those the run enumerates.
* *MCPlant.* Whichever component is in focus, the others stand still, so a behaviour of
  the plant is one of every component's specification (`PlantIsItsParts`). With it
  every theorem about a component speaks of the run of `Plant.cfg`: the
  components' type invariants give the plant's (`PlantTypeCorrect`), and all that the
  run checks holds of the plant (`PlantKeepsItsPromises`).

What is not proved and stays with TLC is liveness under fairness, which is outside
the prover's reach: `EventuallyStored`, `EventuallySettled`, `EventuallyClosed` and
`DatedCloses`.

## Not modelled

* **Inbound integration** (`connect/services.py`): one insertion with a unique
  identifier; `mark_inbound_processed`, the only step after it, is called nowhere.
* **Change control** (`changecontrol/`): no address of `config/urls.py` or
  `config/public_urls.py` leads to its screens, so nothing in this program gives
  or revokes its signatures.
* **Audit** (`audit/`): the application is not installed.
* **Documents and taxes** (`core/sri_client.py`, `core/b22*`, PDF and spreadsheet
  rendering): nothing calls them; pure I/O.
* **Core catalogues** and the rest of `core/models.py`: rows and forms without a
  protocol. `lock_series` is modelled where the warehouse uses it.
* **`tenants/views.py`**: `config/urls.py` gives it no address; what superusers can
  do to memberships is in `Tenants` all the same, as they can do it in the admin
  site. The creation of schemas is PostgreSQL's and django-tenants'.
* **Arithmetic of the indicators** (OEE, FPY, MTBF, MTTR): the formulas have no
  definition in the repository but the code itself; a model of them would repeat
  them.
* **Other emitters**: receivers of the form of those in `SignalFacts`, in the
  transaction of their fact and keyed by its row.
* **Settings, templates, assets, migrations, seed and demonstration commands**;
  the drivers of the agent.

What is left of the plan, in its order:

1. The handlers of `UnitLifecycle` interleaved: the web forms of review, rework and
   release read the unit before their transaction and write its status
   (`assembly/models.py:2690`), and routes that visit a station twice.
2. `Tenants` against an abstract company in which every request is one step, for
   the histories that are `ORDERLY`.
3. Event bus and outbound queue composed, against an abstract "every fact reaches
   every contract".
