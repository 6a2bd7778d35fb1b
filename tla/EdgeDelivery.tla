---------------------------- MODULE EdgeDelivery ----------------------------
(***************************************************************************)
(* A plant agent (edge_agent/) that keeps readings in a SQLite buffer and  *)
(* posts them in batches to the ingest endpoint (edge/api.py,              *)
(* edge/services.py), over a network that loses requests and answers.      *)
(*                                                                         *)
(* The agent waits for one call at a time, but a call it gave up on goes   *)
(* on at the server while the next one repeats its readings.  A reading is *)
(* the number of its capture; what it says is abstracted to what the       *)
(* server makes of it (Invalid, Unstorable, Doubtful).                     *)
(***************************************************************************)
EXTENDS Integers, FiniteSets

CONSTANTS
  MaxReadings,  \* bound on the readings captured
  BatchSize,    \* the agent's batch_size
  Calls,        \* requests in flight or in process at once: a bound
  NoCall,       \* the agent waits for no call
  Invalid,      \* readings the serializer rejects: blank key, value too long
  Unstorable,   \* readings whose row cannot be created: number out of range
  Doubtful,     \* readings of a device that may be inactive or of no gateway
  PowerCuts     \* whether the agent's PC may lose power: a BOOLEAN

ASSUME BoundsAssumption == MaxReadings \in Nat /\ BatchSize \in Nat \ {0}
ASSUME NoCallAssumption == NoCall \notin Calls
ASSUME PowerCutsAssumption == PowerCuts \in BOOLEAN

VARIABLES
  count,        \* readings captured so far
  buffer,       \* rows of the agent's `pending' table
  alive,        \* the agent process runs
  waiting,      \* the call whose answer _flush waits for, or NoCall
  dropping,     \* refused readings _flush is about to drop
  calls,        \* the calls, from the request to the answer
  stored,       \* readings with an EdgeSignal row
  refused,      \* history: readings answered as failed
  interpreted   \* how often each reading was normalised on arrival

agent == <<buffer, alive, waiting, dropping>>
server == <<stored, refused, interpreted>>
vars == <<count, agent, calls, server>>

Readings == 1..MaxReadings

\* "sent": the request travels; "answered", "error": the answer does.
Phases == {"free", "sent", "checking", "creating", "normalising", "answered", "error"}

Call == [phase : Phases, todo : SUBSET Readings,
         accepted : SUBSET Readings, duplicated : SUBSET Readings,
         failed : SUBSET Readings]

Free == [phase |-> "free", todo |-> {}, accepted |-> {}, duplicated |-> {}, failed |-> {}]

TypeOK ==
  /\ count \in 0..MaxReadings
  /\ buffer \subseteq 1..count
  /\ alive \in BOOLEAN
  /\ waiting \in Calls \union {NoCall}
  /\ dropping \subseteq Readings
  /\ calls \in [Calls -> Call]
  /\ stored \subseteq 1..count
  /\ refused \subseteq 1..count
  /\ interpreted \in [Readings -> Nat]

Init ==
  /\ count = 0
  /\ buffer = {}
  /\ alive = TRUE
  /\ waiting = NoCall
  /\ dropping = {}
  /\ calls = [c \in Calls |-> Free]
  /\ stored = {}
  /\ refused = {}
  /\ interpreted = [i \in Readings |-> 0]

(***************************************************************************)
(* The agent: one thread, so it captures only between two flushes.         *)
(***************************************************************************)
Idle == alive /\ waiting = NoCall /\ dropping = {}

Capture ==
  /\ Idle
  /\ count < MaxReadings
  /\ count' = count + 1
  /\ buffer' = buffer \union {count + 1}
  /\ UNCHANGED <<alive, waiting, dropping, calls, server>>

\* SignalBuffer.take: the oldest rows, which stay in the buffer
Batch == {i \in buffer : Cardinality({j \in buffer : j < i}) < BatchSize}

FlushTaking(c) ==
  /\ Idle
  /\ buffer # {}
  /\ calls[c].phase = "free"
  /\ calls' = [calls EXCEPT ![c] = [Free EXCEPT !.phase = "sent", !.todo = Batch]]
  /\ waiting' = c
  /\ buffer' = buffer \ Batch
  /\ UNCHANGED <<count, alive, dropping, server>>

Flush(c) ==
  /\ Idle
  /\ buffer # {}
  /\ calls[c].phase = "free"
  /\ calls' = [calls EXCEPT ![c] = [Free EXCEPT !.phase = "sent", !.todo = Batch]]
  /\ waiting' = c
  /\ UNCHANGED <<count, buffer, alive, dropping, server>>

\* The answer arrives: accepted and duplicated readings leave the buffer first.
Receive(c) ==
  /\ alive
  /\ waiting = c
  /\ calls[c].phase = "answered"
  /\ buffer' = buffer \ (calls[c].accepted \union calls[c].duplicated)
  /\ dropping' = calls[c].failed
  /\ waiting' = NoCall
  /\ calls' = [calls EXCEPT ![c] = Free]
  /\ UNCHANGED <<count, alive, server>>

\* The second DELETE: what the server refused leaves the buffer too.
DropRefused ==
  /\ alive
  /\ dropping # {}
  /\ buffer' = buffer \ dropping
  /\ dropping' = {}
  /\ UNCHANGED <<count, alive, waiting, calls, server>>

\* HTTP 4xx and 5xx are TransportError: the batch stays for the next cycle.
ReceiveError(c) ==
  /\ alive
  /\ waiting = c
  /\ calls[c].phase = "error"
  /\ waiting' = NoCall
  /\ calls' = [calls EXCEPT ![c] = Free]
  /\ UNCHANGED <<count, buffer, alive, dropping, server>>

\* No answer within timeout_seconds, or the connection is reset: getresponse
\* raises an OSError that is neither of the errors _flush handles.  It ends the
\* process, unless the flush was a FLUSH_BUFFER command's, which handles any.
NoAnswer(c) ==
  /\ alive
  /\ waiting = c
  /\ waiting' = NoCall
  /\ alive' \in BOOLEAN
  /\ UNCHANGED <<count, buffer, dropping, calls, server>>

PowerCut ==
  /\ PowerCuts
  /\ alive
  /\ alive' = FALSE
  /\ waiting' = NoCall
  /\ dropping' = {}
  /\ UNCHANGED <<count, buffer, calls, server>>

Start ==
  /\ ~alive
  /\ alive' = TRUE
  /\ UNCHANGED <<count, buffer, waiting, dropping, calls, server>>

(***************************************************************************)
(* The network, which also drops the answers nobody waits for any more.    *)
(***************************************************************************)
LoseRequest(c) ==
  /\ calls[c].phase = "sent"
  /\ calls' = [calls EXCEPT ![c] = Free]
  /\ UNCHANGED <<count, agent, server>>

LoseAnswer(c) ==
  /\ calls[c].phase \in {"answered", "error"}
  /\ calls' = [calls EXCEPT ![c] = Free]
  /\ UNCHANGED <<count, agent, server>>

(***************************************************************************)
(* The server: SignalIngestAPIView.post.  The batch is one call, but every *)
(* reading of it is a transaction of its own.                              *)
(***************************************************************************)
Validate(c) ==
  /\ calls[c].phase = "sent"
  /\ calls' = [calls EXCEPT ![c].phase =
                 IF calls[c].todo \intersect Invalid = {} THEN "checking" ELSE "error"]
  /\ UNCHANGED <<count, agent, server>>

\* The readings of a batch are ingested in the order the agent listed them.
Turn(c, i) == i \in calls[c].todo /\ \A j \in calls[c].todo : i <= j

CheckKnownConflicts(c, i) ==
  /\ calls[c].phase = "checking"
  /\ Turn(c, i)
  /\ i \in stored
  /\ calls' = [calls EXCEPT ![c].phase = "error"]
  /\ UNCHANGED <<count, agent, server>>

\* A retransmission answers with the row of the first delivery.
CheckKnown(c, i) ==
  /\ calls[c].phase = "checking"
  /\ Turn(c, i)
  /\ i \in stored
  /\ calls' = [calls EXCEPT ![c].todo = @ \ {i}, ![c].duplicated = @ \union {i}]
  /\ UNCHANGED <<count, agent, server>>

CheckDeviceFirst(c, i) ==
  /\ calls[c].phase = "checking"
  /\ Turn(c, i)
  /\ i \in Doubtful
  /\ calls' = [calls EXCEPT ![c].todo = @ \ {i}, ![c].failed = @ \union {i}]
  /\ refused' = refused \union {i}
  /\ UNCHANGED <<count, agent, stored, interpreted>>

\* The device is inactive or belongs to another gateway when the reading comes.
CheckDevice(c, i) ==
  /\ calls[c].phase = "checking"
  /\ Turn(c, i)
  /\ i \notin stored
  /\ i \in Doubtful
  /\ calls' = [calls EXCEPT ![c].todo = @ \ {i}, ![c].failed = @ \union {i}]
  /\ refused' = refused \union {i}
  /\ UNCHANGED <<count, agent, stored, interpreted>>

CheckNew(c, i) ==
  /\ calls[c].phase = "checking"
  /\ Turn(c, i)
  /\ i \notin stored
  /\ calls' = [calls EXCEPT ![c].phase = "creating"]
  /\ UNCHANGED <<count, agent, server>>

CreateAgain(c, i) ==
  /\ calls[c].phase = "creating"
  /\ Turn(c, i)
  /\ IF i \in Unstorable
     THEN calls' = [calls EXCEPT ![c].phase = "error"] /\ stored' = stored
     ELSE calls' = [calls EXCEPT ![c].phase = "normalising"] /\ stored' = stored \union {i}
  /\ UNCHANGED <<count, agent, refused, interpreted>>

\* Between the check and the insert another call may have stored the reading:
\* the unique external_id makes that an IntegrityError, and the call a 500.
Create(c, i) ==
  /\ calls[c].phase = "creating"
  /\ Turn(c, i)
  /\ IF i \in stored \union Unstorable
     THEN calls' = [calls EXCEPT ![c].phase = "error"] /\ stored' = stored
     ELSE calls' = [calls EXCEPT ![c].phase = "normalising"] /\ stored' = stored \union {i}
  /\ UNCHANGED <<count, agent, refused, interpreted>>

\* Only the call that created the row translates it into a business fact.
Normalise(c, i) ==
  /\ calls[c].phase = "normalising"
  /\ Turn(c, i)
  /\ interpreted' = [interpreted EXCEPT ![i] = @ + 1]
  /\ calls' = [calls EXCEPT ![c].phase = "checking",
                            ![c].todo = @ \ {i}, ![c].accepted = @ \union {i}]
  /\ UNCHANGED <<count, agent, stored, refused>>

Answer(c) ==
  /\ calls[c].phase = "checking"
  /\ calls[c].todo = {}
  /\ calls' = [calls EXCEPT ![c].phase = "answered"]
  /\ UNCHANGED <<count, agent, server>>

\* The worker dies, or an exception other than ValueError ends the request with
\* a 500; the readings committed so far stay.
Crash(c) ==
  /\ calls[c].phase \in {"checking", "creating", "normalising"}
  /\ \E how \in {"free", "error"} : calls' = [calls EXCEPT ![c] = [Free EXCEPT !.phase = how]]
  /\ UNCHANGED <<count, agent, server>>

Ingest(c) ==
  \E i \in Readings :
    CheckKnown(c, i) \/ CheckDevice(c, i) \/ CheckNew(c, i) \/ Create(c, i) \/ Normalise(c, i)

Agent(c) == Flush(c) \/ Receive(c) \/ ReceiveError(c) \/ NoAnswer(c)

Network(c) == LoseRequest(c) \/ LoseAnswer(c)

Server(c) == Validate(c) \/ Ingest(c) \/ Answer(c) \/ Crash(c)

Next ==
  \/ Capture \/ DropRefused \/ PowerCut \/ Start
  \/ \E c \in Calls : Agent(c) \/ Network(c) \/ Server(c)

Spec == Init /\ [][Next]_vars

(***************************************************************************)
(* Fairness.  The agent's loop and the server's workers go on, a dead      *)
(* agent is started again by somebody, and a connection is not kept for an *)
(* answer nobody reads.  Any number of failures may happen, but from some  *)
(* time on (Stable) the PC, the network and the workers stay up and the    *)
(* server answers within timeout_seconds.                                  *)
(***************************************************************************)
Fairness ==
  /\ WF_vars(DropRefused)
  /\ WF_vars(Start)
  /\ WF_vars(\E c \in Calls : Flush(c))
  /\ WF_vars(\E c \in Calls : NoAnswer(c) /\ calls[c].phase = "free")
  /\ \A c \in Calls :
       /\ WF_vars(Receive(c) \/ ReceiveError(c))
       /\ WF_vars(LoseAnswer(c) /\ waiting # c)
       /\ WF_vars(Validate(c) \/ Ingest(c) \/ Answer(c))

Failure ==
  \/ PowerCut
  \/ \E c \in Calls : LoseRequest(c) \/ Crash(c)
  \/ \E c \in Calls : waiting = c /\ LoseAnswer(c)
  \/ \E c \in Calls : calls[c].phase # "free" /\ NoAnswer(c)

Stable == <>[][~Failure]_vars

FairSpec == Spec /\ Fairness /\ Stable

(***************************************************************************)
(* Properties that hold.                                                   *)
(***************************************************************************)
\* A captured reading is in the buffer until the server has stored or refused
\* it, whatever is lost and whoever crashes (take does not remove; drop does).
NothingLost == \A i \in 1..count : i \in buffer \union stored \union refused

\* A reading is stored only after every older one was stored or refused, although
\* calls the agent gave up on run beside the current one.
StoredInOrder ==
  \A i \in stored : \A j \in 1..count : j < i => j \in stored \union refused

\* However often a reading is sent again, it becomes a business fact at most once.
InterpretedOnce == \A i \in Readings : interpreted[i] <= 1

\* Agent, network and server together implement the delivery without a network.
Delivery == INSTANCE SignalDelivery WITH held <- buffer
Delivered == Delivery!ASpec

\* One reading the server rejects or cannot create makes its whole call fail
\* (edge/api.py:84), and the agent sends the same batch again for ever.  Only what
\* is older than every such reading gets past them: a rejected one must not even
\* fit into a batch with it, since nothing of that batch is processed.
Unblocked(i) ==
  /\ \A j \in Unstorable : i < j
  /\ \A j \in Invalid : i + BatchSize <= j

\* A captured reading that no poison reading holds up is stored in the end or
\* refused, whatever was lost and however often the agent was started again.
EventuallyStored ==
  \A i \in Readings : Unblocked(i) => (i <= count ~> i \in stored \union refused)

(***************************************************************************)
(* What the documentation says and the code does not do.                   *)
(***************************************************************************)
\* edge_agent/client.py:15: when the network fails the agent keeps the readings
\* and tries again, it does not die.
SurvivesNetwork == alive
=============================================================================
