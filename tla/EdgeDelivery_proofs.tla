------------------------ MODULE EdgeDelivery_proofs ------------------------
(***************************************************************************)
(* For any number of readings, calls in flight and failures: no reading is *)
(* lost, the server stores them in capture order and interprets each at    *)
(* most once, and EdgeDelivery implements SignalDelivery.                  *)
(***************************************************************************)
EXTENDS EdgeDelivery, FiniteSetTheorems, TLAPS

(***************************************************************************)
(* What a call in flight is known to carry.  The last conjunct is the one  *)
(* that matters: a call the agent gave up on still holds a prefix of what  *)
(* is not settled, however late it runs.                                   *)
(***************************************************************************)
CallSound(c) ==
  /\ calls[c].todo \subseteq 1..count
  /\ calls[c].accepted \union calls[c].duplicated \subseteq stored
  /\ calls[c].failed \subseteq refused
  /\ \A i \in calls[c].todo : \A j \in 1..count :
       j < i => j \in calls[c].todo \union stored \union refused
  /\ calls[c].phase = "normalising" => \A i \in calls[c].todo : Turn(c, i) => i \in stored

DInv ==
  /\ TypeOK
  /\ NothingLost
  /\ StoredInOrder
  /\ dropping \subseteq refused
  /\ \A c \in Calls : CallSound(c)

USE BoundsAssumption, NoCallAssumption DEF Readings

\* The invariant holds while nothing is captured.
LEMMA InitDInv == Init => DInv
<1> SUFFICES ASSUME Init PROVE DInv
  OBVIOUS
<1>1. TypeOK
  BY DEF Init, TypeOK, Free, Call, Phases
<1>2. NothingLost /\ StoredInOrder
  BY DEF Init, NothingLost, StoredInOrder
<1>3. \A c \in Calls : CallSound(c)
  BY DEF Init, CallSound, Free
<1> QED BY <1>1, <1>2, <1>3 DEF Init, DInv

\* take: the batch is a prefix of the buffer.
LEMMA BatchIsPrefix ==
  ASSUME TypeOK
  PROVE  /\ Batch \subseteq buffer
         /\ \A i \in Batch : \A j \in buffer : j < i => j \in Batch
<1>1. Batch \subseteq buffer
  BY DEF Batch
<1>2. ASSUME NEW i \in Batch, NEW j \in buffer, j < i
      PROVE  j \in Batch
  <2> DEFINE Before(k) == {n \in buffer : n < k}
  <2>1. i \in Int /\ j \in Int /\ buffer \subseteq 1..count /\ count \in Nat
    BY <1>1, <1>2 DEF TypeOK
  <2>2. IsFiniteSet(1..count)
    BY <2>1, FS_Interval
  <2>3. IsFiniteSet(buffer)
    BY <2>1, <2>2, FS_Subset
  <2>4. IsFiniteSet(Before(i))
    BY <2>3, FS_Subset
  <2>5. Before(j) \subseteq Before(i)
    <3> SUFFICES ASSUME NEW n \in Before(j) PROVE n \in Before(i)
      OBVIOUS
    <3>1. n \in buffer /\ n \in Int /\ n < j
      BY <2>1
    <3> QED BY <1>2, <2>1, <3>1
  <2>6. IsFiniteSet(Before(j)) /\ Cardinality(Before(j)) <= Cardinality(Before(i))
    <3> HIDE DEF Before
    <3> QED BY <2>4, <2>5, FS_Subset
  <2>7. Cardinality(Before(i)) \in Nat /\ Cardinality(Before(j)) \in Nat
    BY <2>4, <2>6, FS_CardinalityType
  <2>8. Cardinality(Before(i)) < BatchSize
    BY <1>2 DEF Batch
  <2>9. Cardinality(Before(j)) < BatchSize
    <3> HIDE DEF Before
    <3> QED BY <2>6, <2>7, <2>8
  <2> QED BY <2>9 DEF Batch
<1> QED BY <1>1, <1>2

\* A step that rewrites one call at most, and at the server only adds, keeps the others sound.
LEMMA OthersSound ==
  ASSUME DInv, NEW c \in Calls, NEW k \in Call, calls' = [calls EXCEPT ![c] = k],
         count' = count, stored \subseteq stored', refused \subseteq refused'
  PROVE  /\ calls' \in [Calls -> Call]
         /\ calls'[c] = k
         /\ \A d \in Calls \ {c} : CallSound(d)'
<1>1. calls' \in [Calls -> Call] /\ calls'[c] = k /\ \A d \in Calls \ {c} : calls'[d] = calls[d]
  BY DEF DInv, TypeOK
<1>2. \A d \in Calls \ {c} : CallSound(d)'
  BY <1>1 DEF DInv, CallSound, Turn
<1> QED BY <1>1, <1>2

\* A call that carries nothing, or only waits, is sound in every phase.
LEMMA FreeSound == ASSUME NEW c \in Calls, NEW p \in Phases, calls'[c] = [Free EXCEPT !.phase = p]
                   PROVE  CallSound(c)'
  BY DEF Free, CallSound

\* A captured reading is at the end of the buffer and in no call.
LEMMA CaptureDInv == ASSUME DInv, Capture PROVE DInv'
<1>1. TypeOK'
  BY DEF DInv, TypeOK, Capture, server
<1>2. NothingLost'
  BY DEF DInv, TypeOK, NothingLost, Capture, server
<1>3. StoredInOrder'
  BY DEF DInv, TypeOK, StoredInOrder, Capture, server
<1>4. \A c \in Calls : CallSound(c)'
  BY DEF DInv, TypeOK, CallSound, Turn, Capture, server
<1> QED BY <1>1, <1>2, <1>3, <1>4 DEF DInv, Capture, server

\* A flush sends the oldest readings of the buffer and keeps them there.
LEMMA FlushDInv == ASSUME DInv, NEW c \in Calls, Flush(c) PROVE DInv'
<1> DEFINE k == [Free EXCEPT !.phase = "sent", !.todo = Batch]
<1>1. /\ Batch \subseteq buffer
      /\ \A i \in Batch : \A j \in buffer : j < i => j \in Batch
  BY BatchIsPrefix DEF DInv
<1>2. k \in Call /\ k.todo = Batch /\ k.phase = "sent"
      /\ k.accepted = {} /\ k.duplicated = {} /\ k.failed = {}
  <2>1. Batch \in SUBSET Readings
    BY <1>1 DEF DInv, TypeOK
  <2> QED BY <2>1 DEF Free, Call, Phases
<1>3. calls' = [calls EXCEPT ![c] = k] /\ UNCHANGED <<count, buffer, alive, dropping, server>>
  BY DEF Flush
<1> HIDE DEF k
<1>4. /\ calls' \in [Calls -> Call] /\ calls'[c] = k
      /\ \A d \in Calls \ {c} : CallSound(d)'
  BY <1>2, <1>3, OthersSound DEF server
<1>5. CallSound(c)'
  BY <1>1, <1>2, <1>3, <1>4 DEF CallSound, Turn, DInv, TypeOK, NothingLost, server
<1>6. TypeOK'
  BY <1>3, <1>4 DEF Flush, DInv, TypeOK, server
<1>7. NothingLost' /\ StoredInOrder'
  BY <1>3 DEF DInv, NothingLost, StoredInOrder, server
<1> QED BY <1>3, <1>4, <1>5, <1>6, <1>7 DEF DInv, server

\* A call that ends takes what it carried with it.
LEMMA EndedSound ==
  ASSUME DInv, NEW c \in Calls, NEW p \in Phases,
         calls' = [calls EXCEPT ![c] = [Free EXCEPT !.phase = p]],
         UNCHANGED <<count, server>>
  PROVE  calls' \in [Calls -> Call] /\ \A d \in Calls : CallSound(d)'
<1>1. [Free EXCEPT !.phase = p] \in Call
  BY DEF Free, Call
<1>2. /\ calls' \in [Calls -> Call] /\ calls'[c] = [Free EXCEPT !.phase = p]
      /\ \A d \in Calls \ {c} : CallSound(d)'
  BY <1>1, OthersSound DEF server
<1> QED BY <1>2, FreeSound

\* The agent drops what the answer says was stored or refused, or gives the call up.
LEMMA AgentDInv == ASSUME DInv, NEW c \in Calls, Agent(c) PROVE DInv'
<1>0. Free = [Free EXCEPT !.phase = "free"] /\ "free" \in Phases
  BY DEF Free, Phases
<1>1. CASE Flush(c) BY <1>1, FlushDInv
<1>2. CASE Receive(c)
  <2>1. calls' \in [Calls -> Call] /\ \A d \in Calls : CallSound(d)'
    BY <1>0, <1>2, EndedSound DEF Receive
  <2>2. calls[c] \in Call /\ CallSound(c)
    BY DEF DInv, TypeOK
  <2>3. TypeOK'
    BY <1>2, <2>1, <2>2 DEF Receive, DInv, TypeOK, server, Call
  <2>4. NothingLost' /\ StoredInOrder'
    BY <1>2, <2>2 DEF Receive, DInv, TypeOK, NothingLost, StoredInOrder, CallSound, Turn, server
  <2>5. (dropping \subseteq refused)'
    BY <1>2, <2>2 DEF Receive, CallSound, server
  <2> QED BY <2>1, <2>3, <2>4, <2>5 DEF DInv
<1>3. CASE ReceiveError(c)
  <2>1. calls' \in [Calls -> Call] /\ \A d \in Calls : CallSound(d)'
    BY <1>0, <1>3, EndedSound DEF ReceiveError
  <2> QED BY <1>3, <2>1 DEF ReceiveError, DInv, TypeOK, NothingLost, StoredInOrder, server
<1>4. CASE NoAnswer(c)
  BY <1>4 DEF NoAnswer, DInv, TypeOK, NothingLost, StoredInOrder, CallSound, Turn, server
<1> QED BY <1>1, <1>2, <1>3, <1>4 DEF Agent

\* A lost request or answer takes nothing from the buffer or the server.
LEMMA NetworkDInv == ASSUME DInv, NEW c \in Calls, Network(c) PROVE DInv'
<1>1. calls' = [calls EXCEPT ![c] = [Free EXCEPT !.phase = "free"]]
      /\ UNCHANGED <<count, agent, server>> /\ "free" \in Phases
  BY DEF Network, LoseRequest, LoseAnswer, Free, Phases
<1>2. calls' \in [Calls -> Call] /\ \A d \in Calls : CallSound(d)'
  BY <1>1, EndedSound
<1> QED BY <1>1, <1>2 DEF DInv, TypeOK, NothingLost, StoredInOrder, agent, server

\* Dropping what was refused, a power cut and a restart.
LEMMA PlantDInv == ASSUME DInv, DropRefused \/ PowerCut \/ Start PROVE DInv'
<1>1. CASE DropRefused
  BY <1>1 DEF DropRefused, DInv, TypeOK, NothingLost, StoredInOrder, CallSound, Turn, server
<1>2. CASE PowerCut \/ Start
  BY <1>2 DEF PowerCut, Start, DInv, TypeOK, NothingLost, StoredInOrder, CallSound, Turn, server
<1> QED BY <1>1, <1>2

\* The oldest reading of a call is one that SignalDelivery lets the server settle.
LEMMA TurnSettled ==
  ASSUME DInv, NEW c \in Calls, NEW i \in Readings, Turn(c, i)
  PROVE  i \in 1..count /\ \A j \in 1..count : j < i => j \in stored \union refused
<1>1. CallSound(c) /\ count \in Nat BY DEF DInv, TypeOK
<1> QED BY <1>1 DEF Turn, CallSound

\* A step of the loop that settles reading i and leaves the call with `k'.
LEMMA SettleSound ==
  ASSUME DInv, NEW c \in Calls, NEW i \in Readings, Turn(c, i), NEW k \in Call,
         calls' = [calls EXCEPT ![c] = k], UNCHANGED <<count, agent>>,
         stored' \in {stored, stored \union {i}}, refused' \in {refused, refused \union {i}},
         interpreted' \in [Readings -> Nat],
         k.accepted \union k.duplicated \subseteq stored',
         k.failed \subseteq refused',
         \/ k.todo = calls[c].todo
         \/ k.todo = calls[c].todo \ {i} /\ i \in stored' \union refused',
         k.phase = "normalising" => k.todo = calls[c].todo /\ i \in stored'
  PROVE  DInv'
<1>1. /\ i \in 1..count /\ \A j \in 1..count : j < i => j \in stored \union refused
  BY TurnSettled
<1>0. CallSound(c) /\ count \in Nat
  BY DEF DInv, TypeOK
<1>2. stored \subseteq stored' /\ refused \subseteq refused'
  OBVIOUS
<1>3. /\ calls' \in [Calls -> Call] /\ calls'[c] = k
      /\ \A d \in Calls \ {c} : CallSound(d)'
  BY <1>2, OthersSound
<1>4. CallSound(c)'
  <2>1. \A j \in k.todo : k.phase = "normalising" /\ Turn(c, j)' => j = i
    BY <1>0, <1>1, <1>3 DEF CallSound, Turn
  <2>2. k.phase = "normalising" => \A j \in k.todo : Turn(c, j)' => j \in stored'
    BY <2>1
  <2>3. /\ k.todo \subseteq 1..count
        /\ \A m \in k.todo : \A j \in 1..count :
             j < m => j \in k.todo \union stored' \union refused'
    BY <1>0, <1>1, <1>2 DEF CallSound
  <2> QED BY <1>3, <2>2, <2>3 DEF CallSound
<1>5. TypeOK'
  BY <1>1, <1>3 DEF DInv, TypeOK, agent
<1>6. NothingLost'
  BY <1>2 DEF DInv, NothingLost, agent
<1>7. StoredInOrder'
  BY <1>1, <1>2 DEF DInv, StoredInOrder
<1> QED BY <1>2, <1>3, <1>4, <1>5, <1>6, <1>7 DEF DInv, agent

\* A step of the server that only moves a call to another phase.
LEMMA PhaseSound ==
  ASSUME DInv, NEW c \in Calls, NEW p \in Phases \ {"normalising"},
         calls' = [calls EXCEPT ![c] = [calls[c] EXCEPT !.phase = p]],
         UNCHANGED <<count, agent, server>>
  PROVE  DInv'
<1> DEFINE k == [calls[c] EXCEPT !.phase = p]
<1>1. calls[c] \in Call /\ CallSound(c)
  BY DEF DInv, TypeOK
<1>2. /\ k \in Call /\ k.todo = calls[c].todo /\ k.accepted = calls[c].accepted
      /\ k.duplicated = calls[c].duplicated /\ k.failed = calls[c].failed
  BY <1>1 DEF Call
<1> HIDE DEF k
<1>3. /\ calls' \in [Calls -> Call] /\ calls'[c] = k
      /\ \A d \in Calls \ {c} : CallSound(d)'
  BY <1>2, OthersSound DEF server, k
<1>4. CallSound(c)'
  BY <1>1, <1>2, <1>3 DEF CallSound, Turn, server, k
<1> QED BY <1>3, <1>4 DEF DInv, TypeOK, NothingLost, StoredInOrder, agent, server

\* A reading of the batch is created, found stored already, or refused.
LEMMA IngestDInv == ASSUME DInv, NEW c \in Calls, Ingest(c) PROVE DInv'
<1>1. calls[c] \in Call /\ CallSound(c)
  BY DEF DInv, TypeOK
<1>2. PICK i \in Readings :
        CheckKnown(c, i) \/ CheckDevice(c, i) \/ CheckNew(c, i) \/ Create(c, i) \/ Normalise(c, i)
  BY DEF Ingest
<1>3. Turn(c, i) /\ UNCHANGED <<count, agent>>
  BY <1>2 DEF CheckKnown, CheckDevice, CheckNew, Create, Normalise
<1>4. interpreted' \in [Readings -> Nat]
  BY <1>2 DEF DInv, TypeOK, CheckKnown, CheckDevice, CheckNew, Create, Normalise, server
<1>5. i \in calls[c].todo
  BY <1>3 DEF Turn
<1>6. CASE CheckKnown(c, i)
  <2> DEFINE k == [calls[c] EXCEPT !.todo = @ \ {i}, !.duplicated = @ \union {i}]
  <2>1. /\ k \in Call /\ k.todo = calls[c].todo \ {i} /\ k.accepted = calls[c].accepted
        /\ k.duplicated = calls[c].duplicated \union {i} /\ k.failed = calls[c].failed
        /\ k.phase = calls[c].phase
    BY <1>1 DEF Call
  <2>2. /\ calls' = [calls EXCEPT ![c] = k] /\ i \in stored
        /\ stored' = stored /\ refused' = refused
    BY <1>6 DEF CheckKnown, server
  <2>3. k.phase # "normalising"
    BY <1>6, <2>1 DEF CheckKnown
  <2> HIDE DEF k
  <2>4. k.accepted \union k.duplicated \subseteq stored' /\ k.failed \subseteq refused'
    BY <1>1, <2>1, <2>2 DEF CallSound
  <2> QED BY <1>3, <1>4, <2>1, <2>2, <2>3, <2>4, SettleSound
<1>7. CASE CheckDevice(c, i)
  <2> DEFINE k == [calls[c] EXCEPT !.todo = @ \ {i}, !.failed = @ \union {i}]
  <2>1. /\ k \in Call /\ k.todo = calls[c].todo \ {i} /\ k.accepted = calls[c].accepted
        /\ k.duplicated = calls[c].duplicated /\ k.failed = calls[c].failed \union {i}
        /\ k.phase = calls[c].phase
    BY <1>1 DEF Call
  <2>2. calls' = [calls EXCEPT ![c] = k] /\ stored' = stored /\ refused' = refused \union {i}
    BY <1>7 DEF CheckDevice
  <2>3. k.phase # "normalising"
    BY <1>7, <2>1 DEF CheckDevice
  <2> HIDE DEF k
  <2> QED BY <1>1, <1>3, <1>4, <2>1, <2>2, <2>3, SettleSound DEF CallSound
<1>8. CASE CheckNew(c, i)
  <2>1. calls' = [calls EXCEPT ![c] = [calls[c] EXCEPT !.phase = "creating"]]
        /\ "creating" \in Phases \ {"normalising"} /\ UNCHANGED <<count, agent, server>>
    BY <1>8 DEF CheckNew, Phases
  <2> QED BY <2>1, PhaseSound
<1>9. CASE Create(c, i)
  <2>1. PICK p \in Phases :
          /\ calls' = [calls EXCEPT ![c] = [calls[c] EXCEPT !.phase = p]]
          /\ p = "normalising" => i \in stored'
    BY <1>9 DEF Create, Phases
  <2>2. stored' \in {stored, stored \union {i}} /\ refused' = refused
    BY <1>9 DEF Create
  <2> DEFINE k == [calls[c] EXCEPT !.phase = p]
  <2>3. /\ k \in Call /\ k.todo = calls[c].todo /\ k.accepted = calls[c].accepted
        /\ k.duplicated = calls[c].duplicated /\ k.failed = calls[c].failed /\ k.phase = p
    BY <1>1 DEF Call
  <2>4. calls' = [calls EXCEPT ![c] = k]
    BY <2>1
  <2> HIDE DEF k
  <2> QED BY <1>1, <1>3, <1>4, <2>1, <2>2, <2>3, <2>4, SettleSound DEF CallSound
<1>10. CASE Normalise(c, i)
  <2> DEFINE k == [calls[c] EXCEPT !.phase = "checking",
                                   !.todo = @ \ {i}, !.accepted = @ \union {i}]
  <2>1. /\ k \in Call /\ k.todo = calls[c].todo \ {i}
        /\ k.accepted = calls[c].accepted \union {i}
        /\ k.duplicated = calls[c].duplicated /\ k.failed = calls[c].failed
        /\ k.phase = "checking"
    BY <1>1 DEF Call, Phases
  <2>2. calls' = [calls EXCEPT ![c] = k] /\ stored' = stored /\ refused' = refused
    BY <1>10 DEF Normalise
  <2>3. i \in stored
    BY <1>1, <1>3, <1>5, <1>10 DEF Normalise, CallSound
  <2> HIDE DEF k
  <2>4. k.accepted \union k.duplicated \subseteq stored' /\ k.failed \subseteq refused'
    BY <1>1, <2>1, <2>2, <2>3 DEF CallSound
  <2> QED BY <1>3, <1>4, <2>1, <2>2, <2>3, <2>4, SettleSound
<1> QED BY <1>2, <1>6, <1>7, <1>8, <1>9, <1>10

\* What the server does with a call, one reading after another.
LEMMA ServerDInv == ASSUME DInv, NEW c \in Calls, Server(c) PROVE DInv'
<1>1. CASE Validate(c)
  <2>1. PICK p \in Phases \ {"normalising"} :
          calls' = [calls EXCEPT ![c] = [calls[c] EXCEPT !.phase = p]]
    BY <1>1 DEF Validate, Phases
  <2> QED BY <1>1, <2>1, PhaseSound DEF Validate
<1>2. CASE Ingest(c) BY <1>2, IngestDInv
<1>3. CASE Answer(c)
  <2>1. calls' = [calls EXCEPT ![c] = [calls[c] EXCEPT !.phase = "answered"]]
        /\ "answered" \in Phases \ {"normalising"} /\ UNCHANGED <<count, agent, server>>
    BY <1>3 DEF Answer, Phases
  <2> QED BY <2>1, PhaseSound
<1>4. CASE Crash(c)
  <2>1. PICK p \in Phases : calls' = [calls EXCEPT ![c] = [Free EXCEPT !.phase = p]]
    BY <1>4 DEF Crash, Phases
  <2>2. UNCHANGED <<count, agent, server>>
    BY <1>4 DEF Crash
  <2>3. calls' \in [Calls -> Call] /\ \A d \in Calls : CallSound(d)'
    BY <2>1, <2>2, EndedSound
  <2> QED BY <2>2, <2>3 DEF DInv, TypeOK, NothingLost, StoredInOrder, agent, server
<1> QED BY <1>1, <1>2, <1>3, <1>4 DEF Server

\* Every step of agent, network and server keeps the invariant.
LEMMA StepDInv == DInv /\ [Next]_vars => DInv'
<1> SUFFICES ASSUME DInv, [Next]_vars PROVE DInv'
  OBVIOUS
<1>1. CASE Capture BY <1>1, CaptureDInv
<1>2. CASE DropRefused \/ PowerCut \/ Start BY <1>2, PlantDInv
<1>3. CASE \E c \in Calls : Agent(c) \/ Network(c) \/ Server(c)
  BY <1>3, AgentDInv, NetworkDInv, ServerDInv
<1>4. CASE UNCHANGED vars
  BY <1>4
  DEF vars, agent, server, DInv, TypeOK, NothingLost, StoredInOrder, CallSound, Turn
<1> QED BY <1>1, <1>2, <1>3, <1>4 DEF Next

(***************************************************************************)
(* A reading is interpreted at most once because the call that is about to *)
(* interpret it is the one that created its row, and no other call can.    *)
(***************************************************************************)
Due(c, i) == calls[c].phase = "normalising" /\ Turn(c, i)

OInv ==
  /\ \A i \in Readings : interpreted[i] <= 1 /\ (i \notin stored => interpreted[i] = 0)
  /\ \A c \in Calls : \A i \in Readings : Due(c, i) => interpreted[i] = 0
  /\ \A c, d \in Calls : \A i \in Readings : Due(c, i) /\ Due(d, i) => c = d

\* Fewer readings due in a call: none is due that was not due before.
LEMMA NoNewDue ==
  ASSUME OInv, UNCHANGED <<stored, interpreted>>,
         \A d \in Calls : \A j \in Readings : Due(d, j)' => Due(d, j)
  PROVE  OInv'
  BY DEF OInv

\* A call rewritten to a phase other than "normalising" makes nothing due.
LEMMA OtherPhase ==
  ASSUME TypeOK, NEW c \in Calls, NEW k, k.phase # "normalising",
         calls' = [calls EXCEPT ![c] = k]
  PROVE  \A d \in Calls : \A j \in Readings : Due(d, j)' => Due(d, j) /\ d # c
<1>1. calls'[c] = k /\ \A d \in Calls \ {c} : calls'[d] = calls[d]
  BY DEF TypeOK
<1> QED BY <1>1 DEF Due, Turn

\* A reading that is created is due in its own call only.
LEMMA CreateOInv ==
  ASSUME DInv, OInv, NEW c \in Calls, NEW i \in Readings, Create(c, i)
  PROVE  OInv'
<1>1. calls[c] \in Call /\ TypeOK
  BY DEF DInv, TypeOK
<1>2. CASE i \in stored \union Unstorable
  <2>1. [calls[c] EXCEPT !.phase = "error"].phase # "normalising"
    BY <1>1 DEF Call
  <2>2. calls' = [calls EXCEPT ![c] = [calls[c] EXCEPT !.phase = "error"]]
        /\ UNCHANGED <<stored, interpreted>>
    BY <1>2 DEF Create
  <2>3. \A d \in Calls : \A j \in Readings : Due(d, j)' => Due(d, j)
    BY <1>1, <2>1, <2>2, OtherPhase
  <2> QED BY <2>2, <2>3, NoNewDue
<1>3. CASE i \notin stored \union Unstorable
  <2>1. /\ Turn(c, i) /\ stored' = stored \union {i} /\ interpreted' = interpreted
        /\ calls' = [calls EXCEPT ![c] = [calls[c] EXCEPT !.phase = "normalising"]]
    BY <1>3 DEF Create
  <2>2. /\ calls'[c].todo = calls[c].todo
        /\ \A d \in Calls \ {c} : calls'[d] = calls[d]
    BY <1>1, <2>1 DEF TypeOK, Call
  <2>3. calls[c].todo \subseteq Readings
    BY <1>1 DEF Call
  <2>4. \A j \in Readings : Due(c, j)' => j = i
    BY <2>1, <2>2, <2>3 DEF Due, Turn
  <2>5. \A d \in Calls \ {c} : \A j \in Readings : Due(d, j)' => Due(d, j) /\ j \in stored
    BY <2>2 DEF Due, Turn, DInv, CallSound
  <2>6. interpreted[i] = 0
    BY <1>3 DEF OInv
  <2> QED BY <1>3, <2>1, <2>4, <2>5, <2>6 DEF OInv
<1> QED BY <1>2, <1>3

\* A reading that is interpreted is due no more.
LEMMA NormaliseOInv ==
  ASSUME DInv, OInv, NEW c \in Calls, NEW i \in Readings, Normalise(c, i)
  PROVE  OInv'
<1>1. calls[c] \in Call /\ TypeOK /\ interpreted \in [Readings -> Nat]
  BY DEF DInv, TypeOK
<1> DEFINE k == [calls[c] EXCEPT !.phase = "checking",
                                 !.todo = @ \ {i}, !.accepted = @ \union {i}]
<1>2. k.phase # "normalising"
  BY <1>1 DEF Call
<1>3. /\ calls' = [calls EXCEPT ![c] = k] /\ stored' = stored
      /\ interpreted' = [interpreted EXCEPT ![i] = @ + 1]
      /\ Due(c, i)
  BY DEF Normalise, Due
<1> HIDE DEF k
<1>4. \A d \in Calls : \A j \in Readings : Due(d, j)' => Due(d, j) /\ d # c
  BY <1>1, <1>2, <1>3, OtherPhase
<1>5. interpreted[i] = 0 /\ i \in stored
  BY <1>3 DEF OInv, Due, Turn, DInv, CallSound
<1>6. /\ interpreted'[i] = 1
      /\ \A j \in Readings \ {i} : interpreted'[j] = interpreted[j]
  BY <1>1, <1>3, <1>5
<1>7. \A d \in Calls : \A j \in Readings : Due(d, j)' => j # i
  BY <1>3, <1>4 DEF OInv
<1>8. \A j \in Readings : interpreted'[j] <= 1 /\ (j \notin stored' => interpreted'[j] = 0)
  BY <1>3, <1>5, <1>6 DEF OInv
<1>9. \A d \in Calls : \A j \in Readings : Due(d, j)' => interpreted'[j] = 0
  BY <1>4, <1>6, <1>7 DEF OInv
<1>10. \A d, e \in Calls : \A j \in Readings : Due(d, j)' /\ Due(e, j)' => d = e
  BY <1>4 DEF OInv
<1> QED BY <1>8, <1>9, <1>10 DEF OInv

\* A step that interprets and creates nothing makes nothing due.
LEMMA CallOInv ==
  ASSUME DInv, OInv, NEW c \in Calls, Agent(c) \/ Network(c) \/ Server(c)
  PROVE  OInv'
<1>0. calls[c] \in Call /\ TypeOK
  BY DEF DInv, TypeOK
<1>1. CASE \E i \in Readings : Create(c, i) BY <1>1, CreateOInv
<1>2. CASE \E i \in Readings : Normalise(c, i) BY <1>2, NormaliseOInv
<1>3. CASE NoAnswer(c)
  <2>1. UNCHANGED <<calls, server>> BY <1>3 DEF NoAnswer
  <2> QED BY <2>1, NoNewDue DEF server, Due, Turn
<1>4. ASSUME NEW k, k.phase # "normalising", calls' = [calls EXCEPT ![c] = k],
             UNCHANGED <<stored, interpreted>>
      PROVE  OInv'
  <2>1. \A d \in Calls : \A j \in Readings : Due(d, j)' => Due(d, j)
    BY <1>0, <1>4, OtherPhase
  <2> QED BY <1>4, <2>1, NoNewDue
<1>5. CASE Flush(c)
  BY <1>4, <1>5 DEF Flush, Free, server
<1>6. CASE Receive(c) \/ ReceiveError(c) \/ Network(c)
  BY <1>4, <1>6 DEF Receive, ReceiveError, Network, LoseRequest, LoseAnswer, Free, server
<1>7. CASE Validate(c)
  <2>1. \A p : [calls[c] EXCEPT !.phase = p].phase = p
    BY <1>0 DEF Call
  <2> QED BY <1>4, <1>7, <2>1 DEF Validate, server
<1>8. CASE Answer(c) \/ \E i \in Readings : CheckNew(c, i)
  <2>1. \A p : [calls[c] EXCEPT !.phase = p].phase = p
    BY <1>0 DEF Call
  <2> QED BY <1>4, <1>8, <2>1 DEF Answer, CheckNew, server
<1>9. CASE Crash(c)
  BY <1>4, <1>9 DEF Crash, Free, server
<1>10. ASSUME NEW i \in Readings, CheckKnown(c, i) PROVE OInv'
  <2>1. [calls[c] EXCEPT !.todo = @ \ {i}, !.duplicated = @ \union {i}].phase # "normalising"
    BY <1>0, <1>10 DEF CheckKnown, Call
  <2> QED BY <1>4, <1>10, <2>1 DEF CheckKnown, server
<1>11. ASSUME NEW i \in Readings, CheckDevice(c, i) PROVE OInv'
  <2>1. [calls[c] EXCEPT !.todo = @ \ {i}, !.failed = @ \union {i}].phase # "normalising"
    BY <1>0, <1>11 DEF CheckDevice, Call
  <2> QED BY <1>4, <1>11, <2>1 DEF CheckDevice
<1> QED BY <1>1, <1>2, <1>3, <1>5, <1>6, <1>7, <1>8, <1>9, <1>10, <1>11
        DEF Agent, Server, Ingest

\* Every step keeps what is due and what was interpreted apart.
LEMMA StepOInv == DInv /\ OInv /\ [Next]_vars => OInv'
<1> SUFFICES ASSUME DInv, OInv, [Next]_vars PROVE OInv'
  OBVIOUS
<1>1. CASE \E c \in Calls : Agent(c) \/ Network(c) \/ Server(c)
  BY <1>1, CallOInv
<1>2. CASE Capture \/ DropRefused \/ PowerCut \/ Start \/ UNCHANGED vars
  <2>1. UNCHANGED <<calls, stored, interpreted>>
    BY <1>2 DEF Capture, DropRefused, PowerCut, Start, vars, server
  <2> QED BY <2>1, NoNewDue DEF Due, Turn
<1> QED BY <1>1, <1>2 DEF Next

(***************************************************************************)
(* Every step is one of SignalDelivery's or changes nothing it sees.       *)
(***************************************************************************)
Seen == <<count, buffer, stored, refused>>

\* A reading that the server settles is a step of SignalDelivery, the rest a stutter.
LEMMA IngestRefines ==
  ASSUME DInv, NEW c \in Calls, NEW i \in Readings,
         CheckKnown(c, i) \/ CheckDevice(c, i) \/ CheckNew(c, i) \/ Create(c, i) \/ Normalise(c, i)
  PROVE  Delivery!ANext \/ UNCHANGED Seen
<1>1. Turn(c, i)
  BY DEF CheckKnown, CheckDevice, CheckNew, Create, Normalise
<1>2. i \in Delivery!Captured /\ Delivery!Settled(i)
  BY <1>1, TurnSettled DEF Delivery!Captured, Delivery!Settled
<1>3. CASE CheckDevice(c, i)
  <2>1. Delivery!Refuse(i)
    BY <1>2, <1>3 DEF CheckDevice, Delivery!Refuse, agent
  <2> QED BY <1>2, <2>1 DEF Delivery!ANext
<1>4. CASE Create(c, i) /\ i \notin stored \union Unstorable
  <2>1. Delivery!Store(i)
    BY <1>2, <1>4 DEF Create, Delivery!Store, agent
  <2> QED BY <1>2, <2>1 DEF Delivery!ANext
<1>5. CASE Create(c, i) /\ i \in stored \union Unstorable
  BY <1>5 DEF Create, Seen, agent
<1>6. CASE CheckKnown(c, i) \/ CheckNew(c, i) \/ Normalise(c, i)
  BY <1>6 DEF CheckKnown, CheckNew, Normalise, Seen, agent, server
<1> QED BY <1>3, <1>4, <1>5, <1>6

\* Every step is a step of SignalDelivery or leaves its variables alone.
LEMMA StepRefines == DInv /\ [Next]_vars => [Delivery!ANext]_(Delivery!avars)
<1> SUFFICES ASSUME DInv, [Next]_vars PROVE Delivery!ANext \/ UNCHANGED Seen
  BY DEF Delivery!avars, Seen
<1>1. CASE Capture
  BY <1>1 DEF Capture, server, Delivery!ANext, Delivery!CaptureNext
<1>2. CASE DropRefused
  <2>1. Delivery!LetGo
    BY <1>2 DEF DropRefused, DInv, server, Delivery!LetGo
  <2> QED BY <2>1 DEF Delivery!ANext
<1>3. CASE \E c \in Calls : Receive(c)
  <2>1. PICK c \in Calls : Receive(c) BY <1>3
  <2>2. calls[c].accepted \union calls[c].duplicated \subseteq stored
    BY DEF DInv, CallSound
  <2>3. Delivery!LetGo
    BY <2>1, <2>2 DEF Receive, server, Delivery!LetGo
  <2> QED BY <2>3 DEF Delivery!ANext
<1>4. CASE \E c \in Calls : Ingest(c)
  BY <1>4, IngestRefines DEF Ingest
<1>5. CASE PowerCut \/ Start \/ UNCHANGED vars
  BY <1>5 DEF PowerCut, Start, vars, agent, server, Seen
<1>6. CASE \E c \in Calls : Flush(c) \/ ReceiveError(c) \/ NoAnswer(c) \/ Network(c)
  BY <1>6 DEF Flush, ReceiveError, NoAnswer, Network, LoseRequest, LoseAnswer,
              agent, server, Seen
<1>7. CASE \E c \in Calls : Validate(c) \/ Answer(c) \/ Crash(c)
  BY <1>7 DEF Validate, Answer, Crash, agent, server, Seen
<1> QED BY <1>1, <1>2, <1>3, <1>4, <1>5, <1>6, <1>7 DEF Next, Agent, Server

\* The inductive invariant of the delivery holds in every state.
THEOREM DeliveryInvariance == Spec => []DInv
<1>1. Init => DInv BY InitDInv
<1>2. DInv /\ [Next]_vars => DInv' BY StepDInv
<1> QED BY <1>1, <1>2, PTL DEF Spec

\* A captured reading stays in the buffer until the server stored or refused it.
THEOREM NothingLostHolds == Spec => []NothingLost
  BY DeliveryInvariance, PTL DEF DInv

\* Readings are stored in the order of their capture.
THEOREM StoredInOrderHolds == Spec => []StoredInOrder
  BY DeliveryInvariance, PTL DEF DInv

\* A reading becomes a business fact at most once, however often it is sent.
THEOREM InterpretedOnceHolds == Spec => []InterpretedOnce
<1>1. Init => OInv
  BY DEF Init, OInv, Due, Free
<1>2. DInv /\ OInv /\ [Next]_vars => OInv' BY StepOInv
<1>3. OInv => InterpretedOnce BY DEF OInv, InterpretedOnce
<1> QED BY <1>1, <1>2, <1>3, DeliveryInvariance, PTL DEF Spec

\* The agent, the network and the server implement the delivery without a network.
THEOREM DeliveryRefined == Spec => Delivered
<1>1. Init => Delivery!AInit
  BY DEF Init, Delivery!AInit
<1>2. DInv /\ [Next]_vars => [Delivery!ANext]_(Delivery!avars) BY StepRefines
<1> QED BY <1>1, <1>2, DeliveryInvariance, PTL DEF Spec, Delivered, Delivery!ASpec
=============================================================================
