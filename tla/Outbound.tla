------------------------------ MODULE Outbound ------------------------------
(***************************************************************************)
(* The outbound queue towards one external system over HTTP                *)
(* (connect/services.py): the minutely task, the dashboard's button and    *)
(* the send button of a message all call send_message on a row they have   *)
(* read, post it, and save the whole row.  The other system may receive a  *)
(* message and its answer still be lost.                                   *)
(*                                                                         *)
(* There is one message per event and contract, so a message stands for    *)
(* its event too.  next_attempt_at is set exactly while a row is FAILED;   *)
(* whether that time has come is left to the clock.                        *)
(***************************************************************************)
EXTENDS Integers

CONSTANTS
  Messages,     \* published events of one contract: a set of numbers, by id
  MaxAttempts,  \* max_attempts of the connector
  Workers,      \* requests and tasks at once: a bound
  MaxPosts      \* nobody sends by hand and no worker dies beyond this: a bound

ASSUME MessagesAssumption == Messages \subseteq Nat
ASSUME BoundsAssumption == MaxAttempts \in Nat \ {0} /\ MaxPosts \in Nat

VARIABLES
  status,    \* OutboundMessage.status, "ABSENT" while there is no row
  attempts,  \* OutboundMessage.attempts
  posts,     \* history: how often a message was posted
  received,  \* history: how often the other system got it
  missing,   \* missing_keys of the last ReconciliationRun
  workers    \* what each worker is doing

vars == <<status, attempts, posts, received, missing, workers>>

MessageStatus == {"QUEUED", "SENT", "FAILED", "DISCARDED"}
Open == {"QUEUED", "FAILED"}

Worker == [pc : {"idle", "turn", "answered"},
           todo : SUBSET Messages,     \* rows read and not dealt with
           seen : [Messages -> Nat],   \* their attempts when read
           waits : SUBSET Messages,    \* those with a next_attempt_at when read
           ok : BOOLEAN]               \* the answer

Idle == [pc |-> "idle", todo |-> {}, seen |-> [m \in Messages |-> 0],
         waits |-> {}, ok |-> FALSE]

TypeOK ==
  /\ status \in [Messages -> MessageStatus \union {"ABSENT"}]
  /\ attempts \in [Messages -> Nat]
  /\ posts \in [Messages -> Nat]
  /\ received \in [Messages -> Nat]
  /\ missing \subseteq Messages
  /\ workers \in [Workers -> Worker]

Init ==
  /\ status = [m \in Messages |-> "ABSENT"]
  /\ attempts = [m \in Messages |-> 0]
  /\ posts = [m \in Messages |-> 0]
  /\ received = [m \in Messages |-> 0]
  /\ missing = {}
  /\ workers = [w \in Workers |-> Idle]

\* queue_from_event; an existing row is returned as it is.
Queue(m) ==
  /\ status[m] = "ABSENT"
  /\ status' = [status EXCEPT ![m] = "QUEUED"]
  /\ UNCHANGED <<attempts, posts, received, missing, workers>>

(***************************************************************************)
(* flush_outbound and send_message                                         *)
(***************************************************************************)
\* A worker with the rows S in hand, as they are now
Holding(S, waits) ==
  [pc |-> "turn", todo |-> S, waits |-> waits, ok |-> FALSE,
   seen |-> [m \in Messages |-> IF m \in S THEN attempts[m] ELSE 0]]

FlushQueued(w) ==
  /\ workers[w].pc = "idle"
  /\ \E m \in Messages : status[m] = "QUEUED"
  /\ workers' = [workers EXCEPT ![w] = Holding({m \in Messages : status[m] = "QUEUED"}, {})]
  /\ UNCHANGED <<status, attempts, posts, received, missing>>

Flush(w) ==
  /\ workers[w].pc = "idle"
  /\ \E m \in Messages : status[m] \in Open
  /\ workers' = [workers EXCEPT ![w] =
       Holding({m \in Messages : status[m] \in Open}, {m \in Messages : status[m] = "FAILED"})]
  /\ UNCHANGED <<status, attempts, posts, received, missing>>

\* SendMessageView: the checks are made on the row as it was read, the wait is not.
SendByHand(w, m) ==
  /\ workers[w].pc = "idle"
  /\ status[m] \in Open
  /\ posts[m] < MaxPosts
  /\ workers' = [workers EXCEPT ![w] = Holding({m}, {})]
  /\ UNCHANGED <<status, attempts, posts, received, missing>>

Current(w, m) == m \in workers[w].todo /\ \A n \in workers[w].todo : m <= n

\* A worker done with message m
Past(k, m) ==
  IF k.todo = {m} THEN Idle
  ELSE [pc |-> "turn", todo |-> k.todo \ {m}, waits |-> k.waits \ {m}, ok |-> FALSE,
        seen |-> [k.seen EXCEPT ![m] = 0]]

\* is_due is false: the row's next attempt is still to come.
Skip(w, m) ==
  /\ workers[w].pc = "turn"
  /\ Current(w, m)
  /\ m \in workers[w].waits
  /\ workers' = [workers EXCEPT ![w] = Past(@, m)]
  /\ UNCHANGED <<status, attempts, posts, received, missing>>

PostAssuming(w, m) ==
  /\ workers[w].pc = "turn"
  /\ Current(w, m)
  /\ posts' = [posts EXCEPT ![m] = @ + 1]
  /\ \E arrives, ok \in BOOLEAN :
       /\ received' = [received EXCEPT ![m] = IF arrives THEN @ + 1 ELSE @]
       /\ workers' = [workers EXCEPT ![w].pc = "answered", ![w].ok = ok]
  /\ UNCHANGED <<status, attempts, missing>>

\* _transport_send: refused, lost on the way, lost on the way back, or a 2xx answer
Post(w, m) ==
  /\ workers[w].pc = "turn"
  /\ Current(w, m)
  /\ posts' = [posts EXCEPT ![m] = @ + 1]
  /\ \E arrives, ok \in BOOLEAN :
       /\ ok => arrives
       /\ received' = [received EXCEPT ![m] = IF arrives THEN @ + 1 ELSE @]
       /\ workers' = [workers EXCEPT ![w].pc = "answered", ![w].ok = ok]
  /\ UNCHANGED <<status, attempts, missing>>

OutcomeEarly(ok, n) ==
  IF ok THEN "SENT" ELSE IF n + 1 >= MaxAttempts THEN "DISCARDED" ELSE "FAILED"

\* The status that send_message writes after attempt n
Outcome(ok, n) ==
  IF ok THEN "SENT" ELSE IF n >= MaxAttempts THEN "DISCARDED" ELSE "FAILED"

\* message.save: the whole row, over whatever it is by now
Save(w, m) ==
  /\ workers[w].pc = "answered"
  /\ Current(w, m)
  /\ attempts' = [attempts EXCEPT ![m] = workers[w].seen[m] + 1]
  /\ status' = [status EXCEPT ![m] = Outcome(workers[w].ok, workers[w].seen[m] + 1)]
  /\ workers' = [workers EXCEPT ![w] = Past(@, m)]
  /\ UNCHANGED <<posts, received, missing>>

\* The worker dies; what it has saved stays, what it has posted too.
Crash(w) ==
  /\ workers[w].pc # "idle"
  /\ \A m \in workers[w].todo : posts[m] < MaxPosts
  /\ workers' = [workers EXCEPT ![w] = Idle]
  /\ UNCHANGED <<status, attempts, posts, received, missing>>

(***************************************************************************)
(* reconcile and requeue_missing                                           *)
(***************************************************************************)
Reconcile ==
  /\ missing' = {m \in Messages : status[m] # "SENT"}
  /\ UNCHANGED <<status, attempts, posts, received, workers>>

\* queue_from_event for every missing event
Requeue ==
  /\ status' = [m \in Messages |->
       IF m \in missing /\ status[m] = "ABSENT" THEN "QUEUED" ELSE status[m]]
  /\ UNCHANGED <<attempts, posts, received, missing, workers>>

Process(w) == \E m \in Messages : Skip(w, m) \/ Post(w, m) \/ Save(w, m)

Next ==
  \/ \E m \in Messages : Queue(m)
  \/ Reconcile
  \/ Requeue
  \/ \E w \in Workers : \/ Flush(w)
                        \/ \E m \in Messages : SendByHand(w, m)
                        \/ Process(w)
                        \/ Crash(w)

Spec == Init /\ [][Next]_vars

\* The minutely task comes again and again, a wait is over some time (Post is not
\* skipped for ever), and workers do not die for ever.
FairSpec ==
  /\ Spec
  /\ \A w \in Workers : WF_vars(Flush(w)) /\ WF_vars(Process(w))
  /\ \A m \in Messages : SF_vars(\E w \in Workers : Post(w, m))
  /\ <>[][~ \E w \in Workers : Crash(w)]_vars

(***************************************************************************)
(* Properties that hold.                                                   *)
(***************************************************************************)
\* A message that counts as sent was received, although whole rows are saved over each
\* other by workers that know nothing of each other.
SentWasReceived == \A m \in Messages : status[m] = "SENT" => received[m] > 0

\* No row counts more attempts than the connector allows, and only a row that used them
\* all is discarded: here the status a worker read bounds the attempts it read.
AttemptsWithinCap ==
  \A m \in Messages : /\ attempts[m] <= MaxAttempts
                      /\ status[m] \in Open => attempts[m] < MaxAttempts

\* A message is given up only after it was posted as often as the connector allows:
\* attempts are never counted that were not made.
NotDiscardedEarly ==
  \A m \in Messages : /\ attempts[m] <= posts[m]
                      /\ status[m] = "DISCARDED" => posts[m] >= MaxAttempts

\* Whatever is queued is sent or given up in the end, whoever dies with it in hand.
EventuallyClosed ==
  \A m \in Messages : status[m] \in Open ~> status[m] \in {"SENT", "DISCARDED"}

(***************************************************************************)
(* What a test of the code says and is not so.                             *)
(***************************************************************************)
\* connect/tests.py:178 (test_sent_message_is_not_sent_twice) and services.py:96: a
\* message that was sent is not sent again.
SentIsNotSentAgain ==
  [][\A m \in Messages : status[m] = "SENT" => posts'[m] = posts[m]]_vars
=============================================================================
