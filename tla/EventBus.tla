------------------------------ MODULE EventBus ------------------------------
(***************************************************************************)
(* The event bus (eventbus/services.py): a fact is published with one      *)
(* pending delivery per subscription, and dispatchers run the deliveries'  *)
(* handlers.  The minutely task, the dashboard's button and the retry of   *)
(* one delivery all call dispatch_pending, which locks nothing: a          *)
(* dispatcher works from the rows it read and writes them back one by one. *)
(*                                                                         *)
(* Events are numbered in the order of publication, subscriptions in the   *)
(* order of their codes; the ids of deliveries ascend in that order.       *)
(***************************************************************************)
EXTENDS Integers, FiniteSets

CONSTANTS
  MaxEvents,      \* bound on the events published
  Subscriptions,  \* active subscriptions that match the events
  Forwarding,     \* those whose handler is OUTBOUND
  Fallible,       \* those whose handler is INDICATORS, which may raise
  Contracts,      \* live outbound contracts of the event type
  MaxAttempts,    \* max_attempts of a subscription
  Limit,          \* deliveries one dispatch takes
  Workers,        \* dispatchers at once: a bound
  MaxRuns,        \* nobody retries and no worker dies beyond this: a bound
  NoDelivery

ASSUME SubscriptionsAssumption ==
  Subscriptions \subseteq Nat /\ Forwarding \subseteq Subscriptions
ASSUME BoundsAssumption ==
  /\ MaxEvents \in Nat /\ MaxRuns \in Nat
  /\ MaxAttempts \in Nat \ {0} /\ Limit \in Nat \ {0}
ASSUME NoDeliveryAssumption == NoDelivery \notin (1..MaxEvents) \X Subscriptions

VARIABLES
  count,     \* events published so far
  status,    \* EventDelivery.status, "NONE" before the event is published
  attempts,  \* EventDelivery.attempts
  runs,      \* history: how often a delivery's handler was started
  messages,  \* OutboundMessage rows: <<event, contract>>
  workers    \* what each dispatcher is doing

vars == <<count, status, attempts, runs, messages, workers>>

Deliveries == (1..MaxEvents) \X Subscriptions
DeliveryStatus == {"PENDING", "DELIVERED", "FAILED"}

Worker == [pc : {"idle", "asked", "requeued", "fetched", "queueing", "ran"},
           target : Deliveries \union {NoDelivery},  \* what a user asked to retry
           todo : SUBSET Deliveries,                 \* rows read and not yet saved
           seen : [Deliveries -> Nat],               \* their attempts when read
           left : SUBSET Contracts,                  \* contracts still to queue for
           ok : BOOLEAN]                             \* the handler's result

Idle == [pc |-> "idle", target |-> NoDelivery, todo |-> {},
         seen |-> [d \in Deliveries |-> 0], left |-> {}, ok |-> FALSE]

TypeOK ==
  /\ count \in 0..MaxEvents
  /\ status \in [Deliveries -> DeliveryStatus \union {"NONE"}]
  /\ attempts \in [Deliveries -> Nat]
  /\ runs \in [Deliveries -> Nat]
  /\ messages \subseteq (1..count) \X Contracts
  /\ workers \in [Workers -> Worker]

Init ==
  /\ count = 0
  /\ status = [d \in Deliveries |-> "NONE"]
  /\ attempts = [d \in Deliveries |-> 0]
  /\ runs = [d \in Deliveries |-> 0]
  /\ messages = {}
  /\ workers = [w \in Workers |-> Idle]

\* publish of a new key with its _fan_out, one transaction; a key that is already
\* there, or is there by the time of the insert, changes nothing.
Publish ==
  /\ count < MaxEvents
  /\ count' = count + 1
  /\ status' = [d \in Deliveries |-> IF d[1] = count + 1 THEN "PENDING" ELSE status[d]]
  /\ UNCHANGED <<attempts, runs, messages, workers>>

(***************************************************************************)
(* dispatch_pending                                                        *)
(***************************************************************************)
PendingNew == {d \in Deliveries : status[d] = "PENDING" /\ attempts[d] = 0}

Pending == {d \in Deliveries : status[d] = "PENDING"}
Before(d, e) == d[1] < e[1] \/ (d[1] = e[1] /\ d[2] < e[2])
Oldest(n) == {d \in Pending : Cardinality({e \in Pending : Before(e, d)}) < n}

Fetch(w, n) ==
  /\ workers' = [workers EXCEPT ![w] =
       IF Pending = {} THEN Idle
       ELSE [Idle EXCEPT !.pc = "fetched", !.target = workers[w].target, !.todo = Oldest(n),
                         !.seen = [d \in Deliveries |-> IF d \in Oldest(n) THEN attempts[d] ELSE 0]]]
  /\ UNCHANGED <<count, status, attempts, runs, messages>>

Dispatch(w) == workers[w].pc = "idle" /\ Pending # {} /\ Fetch(w, Limit)

Current(w, d) == d \in workers[w].todo /\ \A e \in workers[w].todo : e = d \/ Before(d, e)

\* _run_handler
RunHandler(w, d) ==
  /\ workers[w].pc = "fetched"
  /\ Current(w, d)
  /\ runs' = [runs EXCEPT ![d] = @ + 1]
  /\ IF d[2] \in Forwarding /\ Contracts # {}
     THEN workers' = [workers EXCEPT ![w].pc = "queueing", ![w].left = Contracts]
     ELSE \E ok \in IF d[2] \in Forwarding THEN {FALSE}
                    ELSE IF d[2] \in Fallible THEN BOOLEAN ELSE {TRUE} :
            workers' = [workers EXCEPT ![w].pc = "ran", ![w].ok = ok]
  /\ UNCHANGED <<count, status, attempts, messages>>

\* The loop over the contracts goes on, or has ended well.
PastContract(k, c) ==
  IF k.left = {c} THEN [k EXCEPT !.left = {}, !.pc = "ran", !.ok = TRUE]
                  ELSE [k EXCEPT !.left = @ \ {c}]

QueueFirst(w, d) ==
  /\ workers[w].pc = "queueing"
  /\ Current(w, d)
  /\ \E c \in workers[w].left :
       /\ messages' = messages \union {<<d[1], c>>}
       /\ workers' = [workers EXCEPT ![w].left = @ \ {c}, ![w].pc = "ran", ![w].ok = TRUE]
  /\ UNCHANGED <<count, status, attempts, runs>>

\* queue_from_event: one transaction per contract; an existing message is kept.
QueueMessage(w, d) ==
  /\ workers[w].pc = "queueing"
  /\ Current(w, d)
  /\ \E c \in workers[w].left :
       /\ messages' = messages \union {<<d[1], c>>}
       /\ workers' = [workers EXCEPT ![w] = PastContract(@, c)]
  /\ UNCHANGED <<count, status, attempts, runs>>

\* Another dispatcher created the same message in between (unique key), or the
\* database refuses: the exception is the handler's failure, what was queued stays.
QueueRaises(w) ==
  /\ workers[w].pc = "queueing"
  /\ workers' = [workers EXCEPT ![w].pc = "ran", ![w].ok = FALSE, ![w].left = {}]
  /\ UNCHANGED <<count, status, attempts, runs, messages>>

\* The loop over the deliveries goes on, or has ended.
PastDelivery(k, d) ==
  IF k.todo = {d} THEN Idle
  ELSE [k EXCEPT !.pc = "fetched", !.todo = @ \ {d}, !.ok = FALSE,
                 !.seen = [@ EXCEPT ![d] = 0]]

\* The row is written from what was read, over whatever it is by now.
Save(w, d) ==
  /\ workers[w].pc = "ran"
  /\ Current(w, d)
  /\ status' = [status EXCEPT ![d] = IF workers[w].ok THEN "DELIVERED" ELSE "FAILED"]
  /\ attempts' = [attempts EXCEPT ![d] = workers[w].seen[d] + 1]
  /\ workers' = [workers EXCEPT ![w] = PastDelivery(@, d)]
  /\ UNCHANGED <<count, runs, messages>>

(***************************************************************************)
(* retry_delivery                                                          *)
(***************************************************************************)
\* The view reads the delivery; the checks are made on what it read.
Ask(w, d) ==
  /\ workers[w].pc = "idle"
  /\ status[d] \in {"PENDING", "FAILED"}
  /\ attempts[d] < MaxAttempts
  /\ runs[d] < MaxRuns
  /\ workers' = [workers EXCEPT ![w].pc = "asked", ![w].target = d]
  /\ UNCHANGED <<count, status, attempts, runs, messages>>

Requeue(w) ==
  /\ workers[w].pc = "asked"
  /\ status' = [status EXCEPT ![workers[w].target] = "PENDING"]
  /\ workers' = [workers EXCEPT ![w].pc = "requeued"]
  /\ UNCHANGED <<count, attempts, runs, messages>>

\* It then dispatches one delivery: the oldest that is pending.
DispatchOne(w) == workers[w].pc = "requeued" /\ Fetch(w, 1)

\* The worker dies; what it has committed stays.
Crash(w) ==
  /\ workers[w].pc # "idle"
  /\ \A d \in workers[w].todo : runs[d] < MaxRuns
  /\ workers' = [workers EXCEPT ![w] = Idle]
  /\ UNCHANGED <<count, status, attempts, runs, messages>>

Handle(w) ==
  \/ Requeue(w) \/ DispatchOne(w) \/ QueueRaises(w)
  \/ \E d \in Deliveries : RunHandler(w, d) \/ QueueMessage(w, d) \/ Save(w, d)

Next ==
  \/ Publish
  \/ \E w \in Workers : \/ Dispatch(w)
                        \/ Handle(w)
                        \/ \E d \in Deliveries : Ask(w, d)
                        \/ Crash(w)

Spec == Init /\ [][Next]_vars

\* The minutely task comes again and again, and workers do not die for ever.
FairSpec ==
  /\ Spec
  /\ \A w \in Workers : WF_vars(Dispatch(w)) /\ WF_vars(Handle(w))
  /\ <>[][~ \E w \in Workers : Crash(w)]_vars

(***************************************************************************)
(* Properties that hold.                                                   *)
(***************************************************************************)
\* A forwarded event that counts as delivered has a message for every contract, even
\* if dispatchers raced for the messages or died between two of them.
DeliveredMeansQueued ==
  \A d \in Deliveries : d[2] \in Forwarding /\ status[d] = "DELIVERED" =>
    \A c \in Contracts : <<d[1], c>> \in messages

\* A settled delivery was attempted, and no more attempts are counted against its cap
\* than there were runs of the handler: dispatchers and retries may lose a count but
\* never invent one.
AttemptsAreRuns ==
  \A d \in Deliveries :
    /\ attempts[d] <= runs[d]
    /\ status[d] \in {"DELIVERED", "FAILED"} => attempts[d] > 0

\* A pending delivery is processed in the end, whoever dies with it in hand.
EventuallySettled == \A d \in Deliveries : status[d] = "PENDING" ~> status[d] # "PENDING"

(***************************************************************************)
(* What the code says and does not do.                                     *)
(***************************************************************************)
\* eventbus/services.py:168: a retry runs the delivery it was asked for, which is
\* no longer pending when it ends.
RetryRunsItsDelivery ==
  [][\A w \in Workers :
       workers[w].target # NoDelivery /\ workers'[w].pc = "idle" /\ attempts' # attempts =>
         status'[workers[w].target] # "PENDING"]_vars
=============================================================================
