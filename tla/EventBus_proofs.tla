--------------------------- MODULE EventBus_proofs ---------------------------
(***************************************************************************)
(* Proofs about EventBus: what a dispatcher holds in hand stays true of    *)
(* the rows while other dispatchers, retries and deaths interleave.        *)
(***************************************************************************)
EXTENDS EventBus, TLAPS

Published == \A d \in Deliveries : status[d] # "NONE" => d[1] <= count

QueuedAll(d, S) == \A c \in S : <<d[1], c>> \in messages

\* What worker w may rely on about the deliveries it holds.
HandSound(w) ==
  /\ workers[w].pc = "asked" =>
       workers[w].target \in Deliveries /\ status[workers[w].target] # "NONE"
  /\ \A d \in workers[w].todo : status[d] # "NONE" /\ workers[w].seen[d] <= runs[d]
  /\ \A d \in Deliveries : Current(w, d) =>
       /\ workers[w].pc \in {"queueing", "ran"} => workers[w].seen[d] < runs[d]
       /\ workers[w].pc = "queueing" => QueuedAll(d, Contracts \ workers[w].left)
       /\ workers[w].pc = "ran" /\ workers[w].ok /\ d[2] \in Forwarding =>
            QueuedAll(d, Contracts)

BInv ==
  /\ TypeOK
  /\ Published
  /\ \A w \in Workers : HandSound(w)
  /\ DeliveredMeansQueued
  /\ AttemptsAreRuns

USE SubscriptionsAssumption, BoundsAssumption

\* A delivery is numbered by its event and its subscription.
LEMMA DeliveryNumbers ==
  ASSUME NEW d \in Deliveries PROVE d[1] \in 1..MaxEvents /\ d[1] \in Nat \ {0} /\ d[2] \in Nat
<1>1. d[1] \in 1..MaxEvents /\ d[2] \in Subscriptions BY DEF Deliveries
<1>2. \A n \in 1..MaxEvents : n \in Nat \ {0} OBVIOUS
<1>3. \A s \in Subscriptions : s \in Nat OBVIOUS
<1> QED BY <1>1, <1>2, <1>3

\* A worker has one current delivery: ids are totally ordered.
LEMMA OneCurrent ==
  ASSUME TypeOK, NEW w \in Workers, NEW d, NEW e, Current(w, d), Current(w, e)
  PROVE  d = e
<1>1. d \in Deliveries /\ e \in Deliveries BY DEF TypeOK, Worker, Current
<1>2. d[1] \in Int /\ d[2] \in Int /\ e[1] \in Int /\ e[2] \in Int BY <1>1, DeliveryNumbers
<1>3. ~(Before(d, e) /\ Before(e, d)) BY <1>2 DEF Before
<1> QED BY <1>3 DEF Current

\* The invariant holds before anything is published.
LEMMA InitBInv == Init => BInv
<1> SUFFICES ASSUME Init PROVE BInv OBVIOUS
<1>1. Idle \in Worker BY DEF Idle, Worker
<1>2. TypeOK BY <1>1 DEF Init, TypeOK
<1>3. \A w \in Workers : HandSound(w) BY DEF Init, HandSound, Idle, Current
<1> QED BY <1>2, <1>3 DEF BInv, Init, Published, DeliveredMeansQueued, AttemptsAreRuns

\* A worker that does not move keeps what it relies on, if rows are only added to and
\* no delivery becomes unpublished.
LEMMA OthersSound ==
  ASSUME BInv, messages \subseteq messages',
         \A d \in Deliveries : runs[d] <= runs'[d] /\ runs'[d] \in Nat,
         \A d \in Deliveries : status[d] # "NONE" => status'[d] # "NONE"
  PROVE  \A v \in Workers : workers'[v] = workers[v] => HandSound(v)'
<1> SUFFICES ASSUME NEW v \in Workers, workers'[v] = workers[v] PROVE HandSound(v)'
  OBVIOUS
<1>1. HandSound(v) /\ workers[v] \in Worker BY DEF BInv, TypeOK
<1>2. \A d \in Deliveries : Current(v, d)' <=> Current(v, d) BY DEF Current
<1>3. \A d \in Deliveries : runs[d] \in Nat /\ workers[v].seen[d] \in Nat
  BY <1>1 DEF BInv, TypeOK, Worker
<1>4. workers[v].todo \subseteq Deliveries BY <1>1 DEF Worker
<1>5. \A d \in workers'[v].todo : status'[d] # "NONE" /\ workers'[v].seen[d] <= runs'[d]
  BY <1>1, <1>3, <1>4 DEF HandSound
<1>6. \A d \in Deliveries : Current(v, d)' /\ workers'[v].pc \in {"queueing", "ran"} =>
        workers'[v].seen[d] < runs'[d]
  BY <1>1, <1>2, <1>3 DEF HandSound
<1> QED BY <1>1, <1>2, <1>5, <1>6 DEF HandSound, QueuedAll

\* The same for a step that changes no run and no status.
LEMMA RestSound ==
  ASSUME BInv, NEW w \in Workers, NEW k, workers' = [workers EXCEPT ![w] = k],
         messages \subseteq messages', runs' = runs,
         \A d \in Deliveries : status[d] # "NONE" => status'[d] # "NONE"
  PROVE  \A v \in Workers \ {w} : HandSound(v)'
<1>1. \A d \in Deliveries : runs[d] <= runs'[d] /\ runs'[d] \in Nat BY DEF BInv, TypeOK
<1>2. \A v \in Workers \ {w} : workers'[v] = workers[v] BY DEF BInv, TypeOK
<1> QED BY <1>1, <1>2, OthersSound

\* A worker that ends, dies or finds nothing to do relies on nothing.
LEMMA IdleSound ==
  ASSUME NEW w \in Workers, workers'[w] = Idle PROVE HandSound(w)'
  BY DEF HandSound, Idle, Current

\* Publishing adds pending deliveries only.
LEMMA PublishBInv == ASSUME BInv, Publish PROVE BInv'
<1>1. TypeOK' BY DEF BInv, TypeOK, Publish, DeliveryStatus
<1>2. Published' BY DEF BInv, TypeOK, Publish, Published, Deliveries
<1>3. \A w \in Workers : HandSound(w)'
  <2>1. \A d \in Deliveries : runs[d] <= runs'[d] /\ runs'[d] \in Nat
    BY DEF BInv, TypeOK, Publish
  <2>2. \A d \in Deliveries : status[d] # "NONE" => status'[d] # "NONE" BY DEF Publish
  <2> QED BY <2>1, <2>2, OthersSound DEF Publish
<1>4. DeliveredMeansQueued' BY DEF BInv, Publish, DeliveredMeansQueued
<1>5. AttemptsAreRuns' BY DEF BInv, Publish, AttemptsAreRuns
<1> QED BY <1>1, <1>2, <1>3, <1>4, <1>5 DEF BInv

\* What is read is what the rows say.
LEMMA FetchBInv == ASSUME BInv, NEW w \in Workers, NEW n \in Nat \ {0}, Fetch(w, n) PROVE BInv'
<1> USE DEF Fetch
<1>1. workers \in [Workers -> Worker] BY DEF BInv, TypeOK
<1>2. CASE Pending = {}
  <2>1. workers' = [workers EXCEPT ![w] = Idle] BY <1>2
  <2>2. Idle \in Worker BY DEF Idle, Worker
  <2>3. TypeOK' BY <1>1, <2>1, <2>2 DEF BInv, TypeOK
  <2>4. \A v \in Workers : HandSound(v)'
    <3>1. workers'[w] = Idle BY <1>1, <2>1
    <3> QED BY <2>1, <3>1, IdleSound, RestSound
  <2> QED BY <2>3, <2>4 DEF BInv, Published, DeliveredMeansQueued, AttemptsAreRuns
<1>3. CASE Pending # {}
  <2> DEFINE k == [Idle EXCEPT !.pc = "fetched", !.target = workers[w].target, !.todo = Oldest(n),
                     !.seen = [d \in Deliveries |-> IF d \in Oldest(n) THEN attempts[d] ELSE 0]]
  <2>1. workers' = [workers EXCEPT ![w] = k] BY <1>3
  <2>2. Oldest(n) \subseteq Pending BY DEF Oldest
  <2>3. k \in Worker BY <1>1, <2>2 DEF Idle, Worker, Pending, BInv, TypeOK
  <2>4. TypeOK' BY <1>1, <2>1, <2>3 DEF BInv, TypeOK
  <2>5. HandSound(w)'
    <3>1. workers'[w] = k BY <1>1, <2>1
    <3>2. \A d \in k.todo : status[d] # "NONE" /\ k.seen[d] <= runs[d]
      BY <2>2 DEF Pending, BInv, AttemptsAreRuns, Idle
    <3>3. k.pc = "fetched" BY DEF Idle
    <3> HIDE DEF k
    <3> QED BY <3>1, <3>2, <3>3 DEF HandSound
  <2>6. \A v \in Workers \ {w} : HandSound(v)'
    BY <2>1, RestSound
  <2> QED BY <2>4, <2>5, <2>6 DEF BInv, Published, DeliveredMeansQueued, AttemptsAreRuns
<1> QED BY <1>2, <1>3

\* A dispatcher whose handler has begun to queue, or has returned, is a dispatcher.
LEMMA WorkerMoved ==
  ASSUME NEW h \in Worker, NEW ok \in BOOLEAN
  PROVE  /\ [h EXCEPT !.pc = "queueing", !.left = Contracts] \in Worker
         /\ [h EXCEPT !.pc = "ran", !.ok = ok] \in Worker
  BY DEF Worker

\* Starting a handler counts the run before anything else can.
LEMMA RunHandlerBInv ==
  ASSUME BInv, NEW w \in Workers, NEW d \in Deliveries, RunHandler(w, d) PROVE BInv'
<1> USE DEF RunHandler
<1>1. workers \in [Workers -> Worker] /\ runs \in [Deliveries -> Nat] BY DEF BInv, TypeOK
<1>2. PICK k \in Worker :
        /\ workers' = [workers EXCEPT ![w] = k]
        /\ k.todo = workers[w].todo /\ k.seen = workers[w].seen
        /\ k.pc \in {"queueing", "ran"}
        /\ k.pc = "queueing" => k.left = Contracts
        /\ k.pc = "ran" /\ k.ok => d[2] \notin Forwarding
  <2>1. CASE d[2] \in Forwarding /\ Contracts # {}
    <3> DEFINE k == [workers[w] EXCEPT !.pc = "queueing", !.left = Contracts]
    <3>1. k \in Worker BY <1>1, WorkerMoved
    <3>2. workers' = [workers EXCEPT ![w] = k] BY <1>1, <2>1
    <3>3. k.todo = workers[w].todo /\ k.seen = workers[w].seen /\ k.pc = "queueing" /\ k.left = Contracts
      BY <1>1 DEF Worker
    <3> QED BY <3>1, <3>2, <3>3
  <2>2. CASE ~(d[2] \in Forwarding /\ Contracts # {})
    <3>1. PICK ok \in BOOLEAN :
            /\ d[2] \in Forwarding => ~ok
            /\ workers' = [workers EXCEPT ![w].pc = "ran", ![w].ok = ok]
      BY <2>2
    <3> DEFINE k == [workers[w] EXCEPT !.pc = "ran", !.ok = ok]
    <3>2. k \in Worker BY <1>1, <3>1, WorkerMoved
    <3>3. workers' = [workers EXCEPT ![w] = k] BY <1>1, <3>1
    <3>4. k.todo = workers[w].todo /\ k.seen = workers[w].seen /\ k.pc = "ran" /\ k.ok = ok
      BY <1>1 DEF Worker
    <3> QED BY <3>1, <3>2, <3>3, <3>4
  <2> QED BY <2>1, <2>2
<1>3. TypeOK'
  <2>1. UNCHANGED <<count, status, attempts, messages>> OBVIOUS
  <2>2. runs' = [runs EXCEPT ![d] = @ + 1] OBVIOUS
  <2> HIDE DEF RunHandler
  <2>3. runs' \in [Deliveries -> Nat] BY <1>1, <2>2
  <2>4. workers' \in [Workers -> Worker] BY <1>1, <1>2
  <2> QED BY <2>1, <2>3, <2>4 DEF BInv, TypeOK
<1>4. \A e \in Deliveries : runs[e] <= runs'[e] /\ runs'[e] \in Nat BY <1>1
<1>5. \A v \in Workers \ {w} : HandSound(v)'
  <2>1. \A v \in Workers \ {w} : workers'[v] = workers[v] BY <1>1, <1>2
  <2> QED BY <1>4, <2>1, OthersSound
<1>6. HandSound(w)'
  <2>1. workers'[w] = k /\ HandSound(w) /\ workers[w] \in Worker BY <1>1, <1>2 DEF BInv
  <2>2. \A e \in Deliveries : Current(w, e)' <=> Current(w, e) BY <1>2, <2>1 DEF Current
  <2>3. \A e : Current(w, e) => e = d BY OneCurrent DEF BInv
  <2>4. d \in workers[w].todo BY DEF Current
  <2>5. workers[w].seen[d] <= runs[d] BY <2>1, <2>4 DEF HandSound
  <2>a. workers[w].seen[d] \in Nat BY <2>1 DEF Worker
  <2>b. runs[d] \in Nat /\ runs'[d] = runs[d] + 1 BY <1>1
  <2>6. k.seen[d] < runs'[d] BY <1>2, <2>5, <2>a, <2>b
  <2>7. \A e \in k.todo : status'[e] # "NONE" /\ k.seen[e] <= runs'[e]
    <3> TAKE e \in k.todo
    <3>1. e \in Deliveries BY <1>2, <2>1 DEF Worker
    <3>2. status[e] # "NONE" /\ workers[w].seen[e] <= runs[e] BY <1>2, <2>1 DEF HandSound
    <3>3. workers[w].seen[e] \in Nat BY <2>1, <3>1 DEF Worker
    <3>4. runs[e] \in Nat /\ runs[e] <= runs'[e] /\ runs'[e] \in Nat BY <1>1, <1>4, <3>1
    <3> QED BY <1>2, <3>2, <3>3, <3>4
  <2> QED BY <1>2, <2>1, <2>2, <2>3, <2>6, <2>7 DEF HandSound, QueuedAll
<1>7. AttemptsAreRuns'
  <2>1. \A e \in Deliveries : attempts[e] \in Nat /\ attempts[e] <= runs[e]
    BY DEF BInv, TypeOK, AttemptsAreRuns
  <2> QED BY <1>1, <1>4, <2>1 DEF BInv, AttemptsAreRuns
<1> QED BY <1>3, <1>5, <1>6, <1>7 DEF BInv, Published, DeliveredMeansQueued

\* A message queued for a contract is one more that the handler can rely on.
LEMMA QueueMessageBInv ==
  ASSUME BInv, NEW w \in Workers, NEW d \in Deliveries, QueueMessage(w, d) PROVE BInv'
<1> USE DEF QueueMessage
<1>1. workers \in [Workers -> Worker] BY DEF BInv, TypeOK
<1>2. PICK c \in workers[w].left :
        /\ messages' = messages \union {<<d[1], c>>}
        /\ workers' = [workers EXCEPT ![w] = PastContract(@, c)]
  OBVIOUS
<1> DEFINE k == PastContract(workers[w], c)
<1>3. workers' = [workers EXCEPT ![w] = k] BY <1>1, <1>2
<1>4. workers[w] \in Worker /\ HandSound(w) BY <1>1 DEF BInv
<1>5. k \in Worker BY <1>4 DEF Worker, PastContract
<1>6. k.todo = workers[w].todo /\ k.seen = workers[w].seen /\ k.left = workers[w].left \ {c}
      /\ k.pc \in {"queueing", "ran"} /\ (k.pc = "ran" => workers[w].left = {c})
  BY <1>4 DEF Worker, PastContract
<1>7. workers'[w] = k BY <1>1, <1>3
<1>a. d \in workers[w].todo BY DEF Current
<1>8. d[1] \in 1..count
  <2>1. status[d] # "NONE" BY <1>4, <1>a DEF HandSound
  <2> QED BY <2>1, DeliveryNumbers DEF BInv, Published, TypeOK
<1>9. TypeOK'
  <2>1. messages' \subseteq (1..count) \X Contracts BY <1>2, <1>4, <1>8 DEF BInv, TypeOK, Worker
  <2> QED BY <1>1, <1>3, <1>5, <2>1 DEF BInv, TypeOK
<1> HIDE DEF k
<1>10. \A v \in Workers \ {w} : HandSound(v)' BY <1>2, <1>3, RestSound
<1>11. HandSound(w)'
  <2>1. \A e \in Deliveries : Current(w, e)' <=> Current(w, e) BY <1>6, <1>7 DEF Current
  <2>2. \A e : Current(w, e) => e = d BY OneCurrent DEF BInv
  <2>3. QueuedAll(d, Contracts \ workers[w].left) /\ workers[w].seen[d] < runs[d]
    BY <1>4 DEF HandSound
  <2>4. \A b \in Contracts \ k.left : <<d[1], b>> \in messages'
    <3>1. \A b \in Contracts \ k.left : b = c \/ b \in Contracts \ workers[w].left BY <1>6
    <3> QED BY <1>2, <2>3, <3>1, <1>7 DEF QueuedAll
  <2>5. k.pc = "ran" => QueuedAll(d, Contracts)' BY <1>2, <1>6, <2>3 DEF QueuedAll
  <2>6. \A e \in k.todo : status[e] # "NONE" /\ k.seen[e] <= runs[e] BY <1>4, <1>6 DEF HandSound
  <2>7. runs' = runs /\ status' = status OBVIOUS
  <2> HIDE DEF QueueMessage
  <2>8. QueuedAll(d, Contracts \ workers[w].left)' BY <1>7, <2>4 DEF QueuedAll
  <2> QED BY <1>6, <1>7, <2>1, <2>2, <2>3, <2>5, <2>6, <2>7, <2>8 DEF HandSound
<1> QED BY <1>2, <1>9, <1>10, <1>11 DEF BInv, Published, DeliveredMeansQueued, AttemptsAreRuns

\* The current delivery is saved from the hand; the next one has not been started.
LEMMA SaveBInv ==
  ASSUME BInv, NEW w \in Workers, NEW d \in Deliveries, Save(w, d) PROVE BInv'
<1> USE DEF Save
<1>1. workers \in [Workers -> Worker] /\ workers[w] \in Worker /\ HandSound(w)
  BY DEF BInv, TypeOK
<1>2. d \in workers[w].todo BY DEF Current
<1>3. workers[w].seen[d] \in Nat /\ runs[d] \in Nat /\ workers[w].seen[d] < runs[d]
  BY <1>1 DEF HandSound, Worker, BInv, TypeOK
<1>4. PICK k \in Worker :
        /\ workers' = [workers EXCEPT ![w] = k]
        /\ k.pc \in {"idle", "fetched"}
        /\ k.todo \subseteq workers[w].todo
        /\ \A e \in k.todo : k.seen[e] <= runs[e]
  <2> DEFINE k == PastDelivery(workers[w], d)
  <2>1. workers' = [workers EXCEPT ![w] = k] BY <1>1
  <2>2. CASE workers[w].todo = {d}
    <3>1. k = Idle BY <2>2 DEF PastDelivery
    <3>2. Idle \in Worker /\ Idle.pc = "idle" /\ Idle.todo = {} BY DEF Idle, Worker
    <3> QED BY <2>1, <3>1, <3>2
  <2>3. CASE workers[w].todo # {d}
    <3>1. k = [workers[w] EXCEPT !.pc = "fetched", !.todo = @ \ {d}, !.ok = FALSE,
                                 !.seen = [@ EXCEPT ![d] = 0]]
      BY <2>3 DEF PastDelivery
    <3>2. [workers[w].seen EXCEPT ![d] = 0] \in [Deliveries -> Nat] BY <1>1 DEF Worker
    <3>3. k \in Worker BY <1>1, <3>1, <3>2 DEF Worker
    <3>4. k.pc = "fetched" /\ k.todo = workers[w].todo \ {d}
          /\ k.seen = [workers[w].seen EXCEPT ![d] = 0]
      BY <1>1, <3>1 DEF Worker
    <3> HIDE DEF k
    <3>5. \A e \in k.todo : k.seen[e] <= runs[e]
      <4> TAKE e \in k.todo
      <4>1. e \in workers[w].todo /\ e # d /\ e \in Deliveries BY <1>1, <3>4 DEF Worker
      <4>2. k.seen[e] = workers[w].seen[e] BY <1>1, <3>4, <4>1 DEF Worker
      <4> QED BY <1>1, <4>1, <4>2 DEF HandSound
    <3> QED BY <2>1, <3>3, <3>4, <3>5
  <2> QED BY <2>2, <2>3
<1>5. TypeOK' BY <1>1, <1>3, <1>4 DEF BInv, TypeOK, DeliveryStatus
<1>6. \A e \in Deliveries : (status[e] # "NONE" => status'[e] # "NONE") BY DEF BInv, TypeOK
<1>7. Published'
  <2>1. status[d] # "NONE" BY <1>1, <1>2 DEF HandSound
  <2> QED BY <2>1 DEF BInv, Published, TypeOK
<1>8. \A v \in Workers \ {w} : HandSound(v)' BY <1>4, <1>6, RestSound
<1>9. HandSound(w)'
  <2>1. workers'[w] = k BY <1>1, <1>4
  <2>2. k.todo \subseteq Deliveries BY <1>4 DEF Worker
  <2>3. \A e \in k.todo : status'[e] # "NONE" BY <1>1, <1>4, <1>6, <2>2 DEF HandSound
  <2> QED BY <1>4, <2>1, <2>3 DEF HandSound
<1>10. DeliveredMeansQueued'
  <2>1. workers[w].ok /\ d[2] \in Forwarding => QueuedAll(d, Contracts) BY <1>1 DEF HandSound
  <2> QED BY <2>1 DEF BInv, TypeOK, DeliveredMeansQueued, QueuedAll
<1>11. AttemptsAreRuns' BY <1>3 DEF BInv, TypeOK, AttemptsAreRuns
<1> QED BY <1>5, <1>7, <1>8, <1>9, <1>10, <1>11 DEF BInv

\* A raising handler, a request to retry and the retry's first write.
LEMMA RetryBInv ==
  ASSUME BInv, NEW w \in Workers,
         QueueRaises(w) \/ Requeue(w) \/ \E d \in Deliveries : Ask(w, d)
  PROVE  BInv'
<1>1. workers \in [Workers -> Worker] /\ workers[w] \in Worker /\ HandSound(w)
  BY DEF BInv, TypeOK
<1>2. CASE QueueRaises(w)
  <2> USE <1>2 DEF QueueRaises
  <2> DEFINE k == [workers[w] EXCEPT !.pc = "ran", !.ok = FALSE, !.left = {}]
  <2>1. workers' = [workers EXCEPT ![w] = k] BY <1>1
  <2>2. k \in Worker BY <1>1 DEF Worker
  <2>3. k.pc = "ran" /\ ~k.ok /\ k.todo = workers[w].todo /\ k.seen = workers[w].seen
    BY <1>1 DEF Worker
  <2>4. TypeOK' BY <1>1, <2>1, <2>2 DEF BInv, TypeOK
  <2> HIDE DEF k
  <2>5. \A v \in Workers \ {w} : HandSound(v)' BY <2>1, RestSound
  <2>6. workers'[w] = k BY <1>1, <2>1
  <2>7. \A e \in Deliveries : Current(w, e)' <=> Current(w, e) BY <2>3, <2>6 DEF Current
  <2>8. HandSound(w)' BY <1>1, <2>3, <2>6, <2>7 DEF HandSound
  <2> QED BY <2>4, <2>5, <2>8 DEF BInv, Published, DeliveredMeansQueued, AttemptsAreRuns
<1>3. CASE Requeue(w)
  <2> USE <1>3 DEF Requeue
  <2> DEFINE k == [workers[w] EXCEPT !.pc = "requeued"]
  <2>1. workers' = [workers EXCEPT ![w] = k] BY <1>1
  <2>2. k \in Worker BY <1>1 DEF Worker
  <2>3. k.pc = "requeued" /\ k.todo = workers[w].todo /\ k.seen = workers[w].seen
    BY <1>1 DEF Worker
  <2>4. workers[w].target \in Deliveries /\ status[workers[w].target] # "NONE"
    BY <1>1 DEF HandSound
  <2>5. TypeOK' BY <1>1, <2>1, <2>2, <2>4 DEF BInv, TypeOK, DeliveryStatus
  <2> HIDE DEF k
  <2>6. \A e \in Deliveries : status[e] # "NONE" => status'[e] # "NONE" BY DEF BInv, TypeOK
  <2>7. \A v \in Workers \ {w} : HandSound(v)' BY <2>1, <2>6, RestSound
  <2>8. workers'[w] = k BY <1>1, <2>1
  <2>9. workers[w].todo \subseteq Deliveries BY <1>1 DEF Worker
  <2>10. HandSound(w)' BY <1>1, <2>3, <2>6, <2>8, <2>9 DEF HandSound
  <2>11. Published' BY <2>4 DEF BInv, Published, TypeOK
  <2>12. DeliveredMeansQueued' /\ AttemptsAreRuns'
    BY DEF BInv, TypeOK, DeliveredMeansQueued, AttemptsAreRuns
  <2> QED BY <2>5, <2>7, <2>10, <2>11, <2>12 DEF BInv
<1>4. CASE \E d \in Deliveries : Ask(w, d)
  <2> PICK d \in Deliveries : Ask(w, d) BY <1>4
  <2> USE DEF Ask
  <2> DEFINE k == [workers[w] EXCEPT !.pc = "asked", !.target = d]
  <2>1. workers' = [workers EXCEPT ![w] = k] BY <1>1
  <2>2. k \in Worker BY <1>1 DEF Worker
  <2>3. k.pc = "asked" /\ k.target = d /\ k.todo = workers[w].todo /\ k.seen = workers[w].seen
    BY <1>1 DEF Worker
  <2> HIDE DEF k
  <2>4. TypeOK'
    <3>1. workers' \in [Workers -> Worker] BY <1>1, <2>1, <2>2
    <3> QED BY <3>1 DEF BInv, TypeOK
  <2>5. \A v \in Workers \ {w} : HandSound(v)' BY <2>1, RestSound
  <2>6. workers'[w] = k BY <1>1, <2>1
  <2>7. HandSound(w)' BY <1>1, <2>3, <2>6 DEF HandSound
  <2> QED BY <2>4, <2>5, <2>7 DEF BInv, Published, DeliveredMeansQueued, AttemptsAreRuns
<1> QED BY <1>2, <1>3, <1>4

\* A dispatcher that dies leaves the rows as they are.
LEMMA CrashBInv == ASSUME BInv, NEW w \in Workers, Crash(w) PROVE BInv'
<1>1. workers \in [Workers -> Worker] BY DEF BInv, TypeOK
<1>2. Idle \in Worker BY DEF Idle, Worker
<1>3. TypeOK' BY <1>1, <1>2 DEF BInv, TypeOK, Crash
<1>4. \A v \in Workers : HandSound(v)'
  <2>1. workers' = [workers EXCEPT ![w] = Idle] BY DEF Crash
  <2>2. workers'[w] = Idle BY <1>1, <2>1
  <2> QED BY <2>1, <2>2, IdleSound, RestSound DEF Crash
<1> QED BY <1>3, <1>4 DEF Crash, BInv, Published, DeliveredMeansQueued, AttemptsAreRuns

\* Every step of the bus keeps the invariant.
LEMMA StepBInv == BInv /\ [Next]_vars => BInv'
<1> SUFFICES ASSUME BInv, [Next]_vars PROVE BInv' OBVIOUS
<1>1. CASE Publish BY <1>1, PublishBInv
<1>2. CASE \E w \in Workers : Dispatch(w) \/ DispatchOne(w)
  <2> PICK w \in Workers : Dispatch(w) \/ DispatchOne(w) BY <1>2
  <2>1. Fetch(w, Limit) \/ Fetch(w, 1) BY DEF Dispatch, DispatchOne
  <2> QED BY <2>1, FetchBInv
<1>3. CASE \E w \in Workers : \E d \in Deliveries : RunHandler(w, d) \/ QueueMessage(w, d) \/ Save(w, d)
  BY <1>3, RunHandlerBInv, QueueMessageBInv, SaveBInv
<1>4. CASE \E w \in Workers : QueueRaises(w) \/ Requeue(w) \/ \E d \in Deliveries : Ask(w, d)
  BY <1>4, RetryBInv
<1>5. CASE \E w \in Workers : Crash(w) BY <1>5, CrashBInv
<1>6. CASE UNCHANGED vars
  BY <1>6 DEF vars, BInv, TypeOK, Published, HandSound, Current, QueuedAll,
              DeliveredMeansQueued, AttemptsAreRuns
<1> QED BY <1>1, <1>2, <1>3, <1>4, <1>5, <1>6 DEF Next, Handle

\* The inductive invariant of the bus holds in every state.
THEOREM BusInvariance == Spec => []BInv
<1>1. Init => BInv BY InitBInv
<1>2. BInv /\ [Next]_vars => BInv' BY StepBInv
<1> QED BY <1>1, <1>2, PTL DEF Spec

\* A delivered event of an outbound subscription has a message for every contract.
THEOREM DeliveredMeansQueuedHolds == Spec => []DeliveredMeansQueued
  BY BusInvariance, PTL DEF BInv

\* No attempt is counted that was not a run of the handler.
THEOREM AttemptsAreRunsHolds == Spec => []AttemptsAreRuns
  BY BusInvariance, PTL DEF BInv
=============================================================================
