--------------------------- MODULE Outbound_proofs ---------------------------
(***************************************************************************)
(* Proofs about Outbound.  Workers save whole rows over each other; what   *)
(* each of them read bounds what it writes, and that is enough.            *)
(***************************************************************************)
EXTENDS Outbound, TLAPS

\* What worker w may rely on about the rows it holds.
HandSound(w) ==
  /\ \A m \in workers[w].todo :
       workers[w].seen[m] <= posts[m] /\ workers[w].seen[m] < MaxAttempts
  /\ \A m \in Messages : workers[w].pc = "answered" /\ Current(w, m) =>
       /\ workers[w].seen[m] < posts[m]
       /\ workers[w].ok => received[m] > 0

\* A row that is not there yet counts nothing.
Unborn == \A m \in Messages : status[m] = "ABSENT" => attempts[m] = 0

QInv ==
  /\ TypeOK
  /\ Unborn
  /\ \A w \in Workers : HandSound(w)
  /\ SentWasReceived
  /\ AttemptsWithinCap
  /\ NotDiscardedEarly

USE MessagesAssumption, BoundsAssumption

\* A worker has one current message: ids are numbers.
LEMMA OneCurrent ==
  ASSUME TypeOK, NEW w \in Workers, NEW m, NEW n, Current(w, m), Current(w, n)
  PROVE  m = n
<1>1. m \in Nat /\ n \in Nat BY DEF TypeOK, Worker, Current
<1>2. m <= n /\ n <= m BY DEF Current
<1> QED BY <1>1, <1>2

\* The invariant holds while nothing is queued.
LEMMA InitQInv == Init => QInv
<1> SUFFICES ASSUME Init PROVE QInv OBVIOUS
<1>1. Idle \in Worker BY DEF Idle, Worker
<1>2. TypeOK BY <1>1 DEF Init, TypeOK
<1>3. \A w \in Workers : HandSound(w) BY DEF Init, HandSound, Idle
<1> QED BY <1>2, <1>3
        DEF QInv, Init, Unborn, SentWasReceived, AttemptsWithinCap, NotDiscardedEarly, Open

\* The histories only grow.
Grown == \A m \in Messages : /\ posts[m] <= posts'[m] /\ posts'[m] \in Nat
                            /\ received[m] <= received'[m] /\ received'[m] \in Nat

\* A worker that does not move keeps what it relies on: histories only grow.
LEMMA OthersSound ==
  ASSUME QInv, Grown
  PROVE  \A v \in Workers : workers'[v] = workers[v] => HandSound(v)'
<1> SUFFICES ASSUME NEW v \in Workers, workers'[v] = workers[v] PROVE HandSound(v)'
  OBVIOUS
<1>1. HandSound(v) /\ workers[v] \in Worker BY DEF QInv, TypeOK
<1>2. \A m \in Messages : Current(v, m)' <=> Current(v, m) BY DEF Current
<1>3. \A m \in Messages : /\ posts[m] \in Nat /\ received[m] \in Nat
                          /\ workers[v].seen[m] \in Nat
  BY <1>1 DEF QInv, TypeOK, Worker
<1>4. workers[v].todo \subseteq Messages BY <1>1 DEF Worker
<1>5. \A m \in workers'[v].todo :
        workers'[v].seen[m] <= posts'[m] /\ workers'[v].seen[m] < MaxAttempts
  <2> TAKE m \in workers'[v].todo
  <2>1. m \in Messages /\ m \in workers[v].todo BY <1>4
  <2>2. workers[v].seen[m] <= posts[m] /\ workers[v].seen[m] < MaxAttempts
    BY <1>1, <2>1 DEF HandSound
  <2>3. posts[m] <= posts'[m] /\ posts'[m] \in Nat BY <2>1 DEF Grown
  <2>4. workers[v].seen[m] <= posts'[m] /\ workers[v].seen[m] < MaxAttempts
    BY <1>3, <2>1, <2>2, <2>3
  <2> QED BY <2>4
<1>6. \A m \in Messages : workers'[v].pc = "answered" /\ Current(v, m)' =>
        workers'[v].seen[m] < posts'[m] /\ (workers'[v].ok => received'[m] > 0)
  <2> TAKE m \in Messages
  <2> HAVE workers'[v].pc = "answered" /\ Current(v, m)'
  <2>1. workers[v].pc = "answered" /\ Current(v, m) BY <1>2
  <2>2. workers[v].seen[m] < posts[m] /\ (workers[v].ok => received[m] > 0)
    BY <1>1, <2>1 DEF HandSound
  <2>3. /\ posts[m] <= posts'[m] /\ posts'[m] \in Nat
        /\ received[m] <= received'[m] /\ received'[m] \in Nat
    BY DEF Grown
  <2>4. workers[v].seen[m] < posts'[m] /\ (workers[v].ok => received'[m] > 0)
    BY <1>3, <2>2, <2>3
  <2> QED BY <2>4
<1> QED BY <1>5, <1>6 DEF HandSound

\* The same for a step of worker w that posts nothing.
LEMMA RestSound ==
  ASSUME QInv, NEW w \in Workers, NEW k, workers' = [workers EXCEPT ![w] = k],
         posts' = posts, received' = received
  PROVE  \A v \in Workers \ {w} : HandSound(v)'
<1>1. Grown BY DEF Grown, QInv, TypeOK
<1>2. \A v \in Workers \ {w} : workers'[v] = workers[v] BY DEF QInv, TypeOK
<1> QED BY <1>1, <1>2, OthersSound

\* A worker between two messages relies on what it read only.
LEMMA TurnSound ==
  ASSUME QInv, NEW w \in Workers, NEW k \in Worker, workers' = [workers EXCEPT ![w] = k],
         posts' = posts, received' = received, k.pc # "answered",
         \A m \in k.todo : k.seen[m] <= posts[m] /\ k.seen[m] < MaxAttempts
  PROVE  \A v \in Workers : HandSound(v)'
<1>1. workers'[w] = k BY DEF QInv, TypeOK
<1>2. HandSound(w)' BY <1>1 DEF HandSound
<1> QED BY <1>2, RestSound

\* Taking rows in hand, or finding none.
LEMMA TakeQInv ==
  ASSUME QInv, NEW w \in Workers, Flush(w) \/ \E m \in Messages : SendByHand(w, m)
  PROVE  QInv'
<1>1. PICK S \in SUBSET Messages, W \in SUBSET Messages :
        /\ \A m \in S : status[m] \in Open
        /\ workers' = [workers EXCEPT ![w] = Holding(S, W)]
        /\ UNCHANGED <<status, attempts, posts, received, missing>>
  <2>1. CASE Flush(w)
    <3> DEFINE S == {m \in Messages : status[m] \in Open}
               W == {m \in Messages : status[m] = "FAILED"}
    <3>1. workers' = [workers EXCEPT ![w] = Holding(S, W)]
          /\ UNCHANGED <<status, attempts, posts, received, missing>>
      BY <2>1 DEF Flush
    <3>2. S \in SUBSET Messages /\ W \in SUBSET Messages /\ \A m \in S : status[m] \in Open
      OBVIOUS
    <3> HIDE DEF S, W
    <3> QED BY <3>1, <3>2
  <2>2. CASE \E m \in Messages : SendByHand(w, m)
    <3> PICK m \in Messages : SendByHand(w, m) BY <2>2
    <3>1. /\ workers' = [workers EXCEPT ![w] = Holding({m}, {})]
          /\ status[m] \in Open
          /\ UNCHANGED <<status, attempts, posts, received, missing>>
      BY DEF SendByHand
    <3> DEFINE S == {m}
               W == {}
    <3>2. S \in SUBSET Messages /\ W \in SUBSET Messages /\ \A n \in S : status[n] \in Open
      BY <3>1
    <3>3. workers' = [workers EXCEPT ![w] = Holding(S, W)] BY <3>1
    <3> HIDE DEF S, W
    <3> QED BY <3>1, <3>2, <3>3
  <2> QED BY <2>1, <2>2
<1> DEFINE k == Holding(S, W)
<1>2. k = [pc |-> "turn", todo |-> S, waits |-> W, ok |-> FALSE,
           seen |-> [m \in Messages |-> IF m \in S THEN attempts[m] ELSE 0]]
  BY DEF Holding
<1>3. k \in Worker BY <1>2 DEF Worker, QInv, TypeOK
<1>4. \A m \in k.todo : k.seen[m] <= posts[m] /\ k.seen[m] < MaxAttempts
  <2>1. \A m \in S : m \in Messages /\ attempts[m] <= posts[m] /\ attempts[m] < MaxAttempts
    BY <1>1 DEF QInv, AttemptsWithinCap, NotDiscardedEarly
  <2>2. k.todo = S /\ k.seen = [m \in Messages |-> IF m \in S THEN attempts[m] ELSE 0]
    BY <1>2
  <2> HIDE DEF k
  <2>3. \A m \in S : k.seen[m] = attempts[m] BY <2>1, <2>2
  <2> QED BY <2>1, <2>2, <2>3
<1>5. k.pc # "answered" BY <1>2
<1> HIDE DEF k
<1>6. workers' = [workers EXCEPT ![w] = k] BY <1>1 DEF k
<1>7. TypeOK' BY <1>1, <1>3, <1>6 DEF QInv, TypeOK
<1>8. \A v \in Workers : HandSound(v)' BY <1>1, <1>3, <1>4, <1>5, <1>6, TurnSound
<1> QED BY <1>1, <1>7, <1>8 DEF QInv, Unborn, SentWasReceived, AttemptsWithinCap, NotDiscardedEarly

\* What is left in hand after a message was dealt with.
LEMMA PastSound ==
  ASSUME QInv, NEW w \in Workers, NEW m \in Messages
  PROVE  LET k == Past(workers[w], m) IN
         /\ k \in Worker /\ k.pc # "answered"
         /\ \A n \in k.todo : k.seen[n] <= posts[n] /\ k.seen[n] < MaxAttempts
<1> DEFINE k == Past(workers[w], m)
<1>1. workers[w] \in Worker /\ HandSound(w) BY DEF QInv, TypeOK
<1>2. CASE workers[w].todo = {m}
  <2>1. k = Idle BY <1>2 DEF Past
  <2>2. Idle \in Worker /\ Idle.pc = "idle" /\ Idle.todo = {} BY DEF Idle, Worker
  <2> QED BY <2>1, <2>2
<1>3. CASE workers[w].todo # {m}
  <2>1. k = [pc |-> "turn", todo |-> workers[w].todo \ {m}, waits |-> workers[w].waits \ {m},
             ok |-> FALSE, seen |-> [workers[w].seen EXCEPT ![m] = 0]]
    BY <1>3 DEF Past
  <2>2. [workers[w].seen EXCEPT ![m] = 0] \in [Messages -> Nat] BY <1>1 DEF Worker
  <2>3. k \in Worker BY <1>1, <2>1, <2>2 DEF Worker
  <2>4. k.pc = "turn" /\ k.todo = workers[w].todo \ {m}
        /\ k.seen = [workers[w].seen EXCEPT ![m] = 0]
    BY <2>1
  <2> HIDE DEF k
  <2>5. \A n \in k.todo : k.seen[n] <= posts[n] /\ k.seen[n] < MaxAttempts
    <3> TAKE n \in k.todo
    <3>1. n \in workers[w].todo /\ n # m /\ n \in Messages BY <1>1, <2>4 DEF Worker
    <3>2. k.seen[n] = workers[w].seen[n] BY <1>1, <2>4, <3>1 DEF Worker
    <3> QED BY <1>1, <3>1, <3>2 DEF HandSound
  <2> QED BY <2>3, <2>4, <2>5 DEF k
<1> QED BY <1>2, <1>3

\* A message whose wait is not over is left for the next time.
LEMMA SkipQInv == ASSUME QInv, NEW w \in Workers, NEW m \in Messages, Skip(w, m) PROVE QInv'
<1> DEFINE k == Past(workers[w], m)
<1>1. /\ k \in Worker /\ k.pc # "answered"
      /\ \A n \in k.todo : k.seen[n] <= posts[n] /\ k.seen[n] < MaxAttempts
  BY PastSound
<1>2. workers' = [workers EXCEPT ![w] = k] BY DEF Skip
<1>3. UNCHANGED <<status, attempts, posts, received, missing>> BY DEF Skip
<1> HIDE DEF k
<1>4. TypeOK' BY <1>1, <1>2, <1>3 DEF QInv, TypeOK
<1>5. \A v \in Workers : HandSound(v)' BY <1>1, <1>2, <1>3, TurnSound
<1> QED BY <1>3, <1>4, <1>5 DEF QInv, Unborn, SentWasReceived, AttemptsWithinCap, NotDiscardedEarly

\* A post is counted before its answer is.
LEMMA PostQInv == ASSUME QInv, NEW w \in Workers, NEW m \in Messages, Post(w, m) PROVE QInv'
<1>1. PICK arrives \in BOOLEAN, ok \in BOOLEAN :
        /\ ok => arrives
        /\ received' = [received EXCEPT ![m] = IF arrives THEN @ + 1 ELSE @]
        /\ workers' = [workers EXCEPT ![w].pc = "answered", ![w].ok = ok]
  BY DEF Post
<1>2. posts' = [posts EXCEPT ![m] = @ + 1] /\ UNCHANGED <<status, attempts, missing>> /\ Current(w, m)
  BY DEF Post
<1>3. workers[w] \in Worker /\ HandSound(w) /\ workers \in [Workers -> Worker]
  BY DEF QInv, TypeOK
<1> DEFINE k == [workers[w] EXCEPT !.pc = "answered", !.ok = ok]
<1>4. k \in Worker BY <1>3 DEF Worker
<1>5. workers' = [workers EXCEPT ![w] = k] BY <1>1, <1>3
<1>6. k.pc = "answered" /\ k.ok = ok /\ k.todo = workers[w].todo /\ k.seen = workers[w].seen
  BY <1>3 DEF Worker
<1> HIDE DEF k
<1>7. posts' \in [Messages -> Nat] /\ received' \in [Messages -> Nat]
  <2>1. posts \in [Messages -> Nat] /\ received \in [Messages -> Nat] BY DEF QInv, TypeOK
  <2> QED BY <1>1, <1>2, <2>1
<1>8. \A n \in Messages : /\ posts[n] <= posts'[n] /\ posts'[n] \in Nat
                          /\ received[n] <= received'[n] /\ received'[n] \in Nat
  <2>1. posts \in [Messages -> Nat] /\ received \in [Messages -> Nat] BY DEF QInv, TypeOK
  <2> QED BY <1>1, <1>2, <1>7, <2>1
<1>9. TypeOK' BY <1>2, <1>3, <1>4, <1>5, <1>7 DEF QInv, TypeOK
<1>10. \A v \in Workers \ {w} : HandSound(v)'
  <2>1. \A v \in Workers \ {w} : workers'[v] = workers[v] BY <1>3, <1>5
  <2>2. Grown BY <1>8 DEF Grown
  <2> QED BY <2>1, <2>2, OthersSound
<1>11. HandSound(w)'
  <2>1. workers'[w] = k BY <1>3, <1>5
  <2>2. m \in workers[w].todo BY <1>2 DEF Current
  <2>3. \A n \in workers[w].todo : n \in Messages /\ workers[w].seen[n] \in Nat
    BY <1>3 DEF Worker
  <2>4. \A n \in k.todo : k.seen[n] <= posts'[n] /\ k.seen[n] < MaxAttempts
    <3> TAKE n \in k.todo
    <3>1. n \in Messages /\ posts[n] \in Nat BY <1>6, <2>3 DEF QInv, TypeOK
    <3>2. workers[w].seen[n] <= posts[n] /\ workers[w].seen[n] < MaxAttempts
      BY <1>3, <1>6 DEF HandSound
    <3> QED BY <1>6, <1>8, <2>3, <3>1, <3>2
  <2>5. k.seen[m] < posts'[m]
    <3>1. posts[m] \in Nat /\ posts'[m] = posts[m] + 1 BY <1>2 DEF QInv, TypeOK
    <3>2. workers[w].seen[m] <= posts[m] /\ workers[w].seen[m] \in Nat
      BY <1>3, <2>2, <2>3 DEF HandSound
    <3> QED BY <1>6, <3>1, <3>2
  <2>6. k.ok => received'[m] > 0
    <3>1. received[m] \in Nat BY DEF QInv, TypeOK
    <3> QED BY <1>1, <1>6, <3>1 DEF QInv, TypeOK
  <2>7. \A n \in Messages : Current(w, n)' => n = m
    <3>1. \A n \in Messages : Current(w, n)' => Current(w, n) BY <1>6, <2>1 DEF Current
    <3>2. \A n \in Messages : Current(w, n) => n = m BY <1>2, OneCurrent DEF QInv
    <3> QED BY <3>1, <3>2
  <2> QED BY <2>1, <2>4, <2>5, <2>6, <2>7 DEF HandSound
<1>12. SentWasReceived'
  <2>1. \A n \in Messages : received[n] \in Nat BY DEF QInv, TypeOK
  <2> QED BY <1>2, <1>8, <2>1 DEF QInv, SentWasReceived
<1>13. NotDiscardedEarly'
  <2>1. \A n \in Messages : posts[n] \in Nat /\ attempts[n] \in Nat BY DEF QInv, TypeOK
  <2> QED BY <1>2, <1>8, <2>1 DEF QInv, NotDiscardedEarly
<1> QED BY <1>2, <1>9, <1>10, <1>11, <1>12, <1>13 DEF QInv, Unborn, AttemptsWithinCap

\* The row that is saved stays within the cap that its reading was within.
LEMMA SaveQInv == ASSUME QInv, NEW w \in Workers, NEW m \in Messages, Save(w, m) PROVE QInv'
<1> DEFINE k == Past(workers[w], m)
           n == workers[w].seen[m] + 1
<1>1. /\ k \in Worker /\ k.pc # "answered"
      /\ \A i \in k.todo : k.seen[i] <= posts[i] /\ k.seen[i] < MaxAttempts
  BY PastSound
<1>2. /\ workers' = [workers EXCEPT ![w] = k]
      /\ attempts' = [attempts EXCEPT ![m] = n]
      /\ status' = [status EXCEPT ![m] = Outcome(workers[w].ok, n)]
      /\ UNCHANGED <<posts, received, missing>>
  BY DEF Save
<1>3. n \in Nat \ {0} /\ n <= MaxAttempts /\ n <= posts[m] /\ (workers[w].ok => received[m] > 0)
  <2>1. workers[w] \in Worker /\ HandSound(w) BY DEF QInv, TypeOK
  <2>2. workers[w].pc = "answered" /\ Current(w, m) /\ m \in workers[w].todo BY DEF Save, Current
  <2>3. workers[w].seen[m] \in Nat /\ posts[m] \in Nat BY <2>1 DEF Worker, QInv, TypeOK
  <2>4. /\ workers[w].seen[m] < MaxAttempts
        /\ workers[w].seen[m] < posts[m]
        /\ workers[w].ok => received[m] > 0
    BY <2>1, <2>2 DEF HandSound
  <2> QED BY <2>3, <2>4
<1> DEFINE o == Outcome(workers[w].ok, n)
<1>4. /\ o \in MessageStatus \ {"QUEUED"}
      /\ o = "SENT" => workers[w].ok
      /\ o = "DISCARDED" => n >= MaxAttempts
      /\ o \in Open => n < MaxAttempts
  BY <1>3 DEF Outcome, MessageStatus, Open
<1>5. status' = [status EXCEPT ![m] = o] BY <1>2
<1> HIDE DEF k, n, o
<1>6. TypeOK' BY <1>1, <1>2, <1>3, <1>4, <1>5 DEF QInv, TypeOK
<1>7. \A v \in Workers : HandSound(v)' BY <1>1, <1>2, TurnSound
<1>8. SentWasReceived' BY <1>2, <1>3, <1>4, <1>5 DEF QInv, TypeOK, SentWasReceived
<1>9. AttemptsWithinCap' BY <1>2, <1>3, <1>4, <1>5 DEF QInv, TypeOK, AttemptsWithinCap
<1>10. NotDiscardedEarly' BY <1>2, <1>3, <1>4, <1>5 DEF QInv, TypeOK, NotDiscardedEarly
<1>11. Unborn' BY <1>2, <1>4, <1>5 DEF QInv, TypeOK, Unborn, MessageStatus
<1> QED BY <1>6, <1>7, <1>8, <1>9, <1>10, <1>11 DEF QInv

\* Queueing, requeueing and reconciling touch no row that was ever in hand.
LEMMA QueueQInv ==
  ASSUME QInv, Reconcile \/ Requeue \/ \E m \in Messages : Queue(m)
  PROVE  QInv'
<1>1. /\ UNCHANGED <<attempts, posts, received, workers>>
      /\ missing' \subseteq Messages
      /\ status' \in [Messages -> MessageStatus \union {"ABSENT"}]
      /\ \A m \in Messages : status'[m] = status[m] \/ (status[m] = "ABSENT" /\ status'[m] = "QUEUED")
  BY DEF QInv, TypeOK, Reconcile, Requeue, Queue, MessageStatus
<1>2. TypeOK' BY <1>1 DEF QInv, TypeOK
<1>3. \A w \in Workers : HandSound(w)'
  <2>1. Grown BY <1>1 DEF Grown, QInv, TypeOK
  <2> QED BY <1>1, <2>1, OthersSound
<1> QED BY <1>1, <1>2, <1>3
        DEF QInv, TypeOK, Unborn, SentWasReceived, AttemptsWithinCap, NotDiscardedEarly

\* A worker that dies leaves the rows as they are.
LEMMA CrashQInv == ASSUME QInv, NEW w \in Workers, Crash(w) PROVE QInv'
<1>1. Idle \in Worker /\ Idle.pc = "idle" /\ Idle.todo = {} BY DEF Idle, Worker
<1>2. workers' = [workers EXCEPT ![w] = Idle] /\ UNCHANGED <<status, attempts, posts, received, missing>>
  BY DEF Crash
<1>3. TypeOK' BY <1>1, <1>2 DEF QInv, TypeOK
<1>4. \A v \in Workers : HandSound(v)' BY <1>1, <1>2, TurnSound
<1> QED BY <1>2, <1>3, <1>4 DEF QInv, Unborn, SentWasReceived, AttemptsWithinCap, NotDiscardedEarly

\* Every step of the queue keeps the invariant.
LEMMA StepQInv == QInv /\ [Next]_vars => QInv'
<1> SUFFICES ASSUME QInv, [Next]_vars PROVE QInv' OBVIOUS
<1>1. CASE Reconcile \/ Requeue \/ \E m \in Messages : Queue(m) BY <1>1, QueueQInv
<1>2. CASE \E w \in Workers : Flush(w) \/ \E m \in Messages : SendByHand(w, m)
  BY <1>2, TakeQInv
<1>3. CASE \E w \in Workers : Process(w)
  BY <1>3, SkipQInv, PostQInv, SaveQInv DEF Process
<1>4. CASE \E w \in Workers : Crash(w) BY <1>4, CrashQInv
<1>5. CASE UNCHANGED vars
  BY <1>5 DEF vars, QInv, TypeOK, Unborn, HandSound, Current,
              SentWasReceived, AttemptsWithinCap, NotDiscardedEarly
<1> QED BY <1>1, <1>2, <1>3, <1>4, <1>5 DEF Next

\* The inductive invariant of the queue holds in every state.
THEOREM QueueInvariance == Spec => []QInv
<1>1. Init => QInv BY InitQInv
<1>2. QInv /\ [Next]_vars => QInv' BY StepQInv
<1> QED BY <1>1, <1>2, PTL DEF Spec

\* A message that counts as sent was received by the other system.
THEOREM SentWasReceivedHolds == Spec => []SentWasReceived
  BY QueueInvariance, PTL DEF QInv

\* The attempts of a row stay within the connector's, whoever saves it.
THEOREM AttemptsWithinCapHolds == Spec => []AttemptsWithinCap
  BY QueueInvariance, PTL DEF QInv

\* No message is given up before it was posted as often as the connector allows.
THEOREM NotDiscardedEarlyHolds == Spec => []NotDiscardedEarly
  BY QueueInvariance, PTL DEF QInv
=============================================================================
