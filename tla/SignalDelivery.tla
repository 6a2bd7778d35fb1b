--------------------------- MODULE SignalDelivery ---------------------------
(***************************************************************************)
(* What the plant agent and the ingest endpoint promise together, without  *)
(* the network between them: a reading is captured into the agent's hold,  *)
(* stored once by the server after every older reading was stored or       *)
(* refused, and let go only then.                                          *)
(***************************************************************************)
EXTENDS Integers

CONSTANT MaxReadings  \* bound on the readings, numbered in capture order

VARIABLES
  count,    \* readings captured so far: 1..count
  held,     \* readings the plant still keeps
  stored,   \* readings the server has a row for
  refused   \* readings the server has refused: the device is not valid

avars == <<count, held, stored, refused>>

Captured == 1..count

AInit == count = 0 /\ held = {} /\ stored = {} /\ refused = {}

CaptureNext ==
  /\ count < MaxReadings
  /\ count' = count + 1
  /\ held' = held \union {count + 1}
  /\ UNCHANGED <<stored, refused>>

Settled(i) == \A j \in Captured : j < i => j \in stored \union refused

Store(i) ==
  /\ i \in Captured \ stored
  /\ Settled(i)
  /\ stored' = stored \union {i}
  /\ UNCHANGED <<count, held, refused>>

Refuse(i) ==
  /\ i \in Captured \ stored
  /\ Settled(i)
  /\ refused' = refused \union {i}
  /\ UNCHANGED <<count, held, stored>>

\* Several readings may be let go at once: a batch.
LetGo ==
  /\ \E S \in SUBSET (stored \union refused) : held' = held \ S
  /\ UNCHANGED <<count, stored, refused>>

ANext ==
  \/ CaptureNext
  \/ \E i \in Captured : Store(i) \/ Refuse(i)
  \/ LetGo

ASpec == AInit /\ [][ANext]_avars
=============================================================================
