----------------------------- MODULE Floor_proofs -----------------------------
(***************************************************************************)
(* Proofs about what happens at the stations, for any number of requests,  *)
(* messages and signals: calls from the floor, station events as they come *)
(* in, and the facts made of signals.  The three components share no       *)
(* state, and nothing is proved across them.                               *)
(***************************************************************************)
EXTENDS FloorCalls, StationIntake, SignalFacts, FiniteSetTheorems, TLAPS

(***************************************************************************)
(* FloorCalls.  A resolved Andon signal has its notes and a closed         *)
(* downtime its end.  The property says nothing of the rows in hand, so    *)
(* what is proved is that each request saves status and evidence together, *)
(* or a status that needs none.                                            *)
(***************************************************************************)
\* What a request has in hand can be saved over any row.
HandSound(r) ==
  LET q == floorReq[r]
  IN /\ q.of = "andon" =>
          q.fields = {"status", "noted"} /\ (q.row.status = "RESOLVED" => q.row.noted)
     /\ q.of = "downtime" =>
          \/ q.fields = {"status", "ended"} /\ (q.row.status = "CLOSED" => q.row.ended)
          \/ q.fields = {"status"} /\ q.row.status # "CLOSED"

FInv ==
  /\ FloorCallsTypeOK
  /\ ClosedWithEvidence
  /\ \A r \in FloorRequests : HandSound(r)

\* The three rows are open and nobody has read them.
LEMMA InitFInv == FloorCallsInit => FInv
  BY DEF FloorCallsInit, FInv, FloorCallsTypeOK, ClosedWithEvidence, HandSound, NoFloorReq,
         AndonRow, AndonStatus, DowntimeRow, DowntimeStatus, KitRow, KitStatus

\* The rows stay, and one request has something else in hand.
LEMMA InHandFInv ==
  ASSUME FInv, NEW r \in FloorRequests, NEW q \in FloorRequest \union {NoFloorReq},
         floorReq' = [floorReq EXCEPT ![r] = q], UNCHANGED <<andon, downtime, kit>>,
         q.of = "andon" =>
           q.fields = {"status", "noted"} /\ (q.row.status = "RESOLVED" => q.row.noted),
         q.of = "downtime" =>
           \/ q.fields = {"status", "ended"} /\ (q.row.status = "CLOSED" => q.row.ended)
           \/ q.fields = {"status"} /\ q.row.status # "CLOSED"
  PROVE  FInv'
<1>1. FloorCallsTypeOK' BY DEF FInv, FloorCallsTypeOK
<1>2. ClosedWithEvidence' BY DEF FInv, ClosedWithEvidence
<1>3. ASSUME NEW s \in FloorRequests PROVE HandSound(s)'
  <2>1. floorReq'[s] = IF s = r THEN q ELSE floorReq[s] BY DEF FInv, FloorCallsTypeOK
  <2> QED BY <2>1 DEF FInv, HandSound
<1> QED BY <1>1, <1>2, <1>3 DEF FInv

\* What a handler or a form is about to save of a row is sound in hand.
LEMMA AskFInv ==
  ASSUME FInv, NEW r \in FloorRequests,
         \/ \E notes \in BOOLEAN : Acknowledge(r, notes)
         \/ Resolve(r) \/ CancelAndon(r) \/ (\E row \in AndonRow : EditAndon(r, row))
         \/ CloseDowntime(r) \/ CancelDowntime(r) \/ (\E row \in DowntimeRow : EditDowntime(r, row))
         \/ Receive(r) \/ Consume(r) \/ (\E row \in KitRow : EditKit(r, row))
  PROVE  FInv'
<1>1. CASE \E notes \in BOOLEAN : Acknowledge(r, notes)
  <2> PICK notes \in BOOLEAN : Acknowledge(r, notes) BY <1>1
  <2> DEFINE row == [status |-> "ACKNOWLEDGED", noted |-> andon.noted \/ notes]
  <2>1. row \in AndonRow BY DEF AndonRow, AndonStatus
  <2> QED BY <2>1, InHandFInv DEF Acknowledge, Ask, FloorRequest
<1>2. CASE Resolve(r) \/ CancelAndon(r)
  BY <1>2, InHandFInv DEF Resolve, CancelAndon, Ask, FloorRequest, AndonRow, AndonStatus
<1>3. CASE \E row \in AndonRow : EditAndon(r, row)
  <2> PICK row \in AndonRow : EditAndon(r, row) BY <1>3
  <2> QED BY InHandFInv DEF EditAndon, Ask, FloorRequest
<1>4. CASE CloseDowntime(r)
  BY <1>4, InHandFInv DEF CloseDowntime, Ask, FloorRequest, DowntimeRow, DowntimeStatus
<1>5. CASE CancelDowntime(r)
  <2> DEFINE row == [downtime EXCEPT !.status = "CANCELLED"]
  <2>1. row \in DowntimeRow /\ row.status = "CANCELLED"
    BY DEF FInv, FloorCallsTypeOK, DowntimeRow, DowntimeStatus
  <2> HIDE DEF row
  <2>2. Ask(r, "downtime", row, {"status"}) BY <1>5 DEF CancelDowntime, row
  <2> QED BY <2>1, <2>2, InHandFInv DEF Ask, FloorRequest
<1>6. CASE \E row \in DowntimeRow : EditDowntime(r, row)
  <2> PICK row \in DowntimeRow : EditDowntime(r, row) BY <1>6
  <2> QED BY InHandFInv DEF EditDowntime, Ask, FloorRequest
<1>7. CASE Receive(r)
  BY <1>7, InHandFInv DEF Receive, Ask, FloorRequest, KitRow, KitStatus
<1>8. CASE Consume(r)
  <2> DEFINE row == [kit EXCEPT !.status = "CONSUMED"]
  <2>1. row \in KitRow BY DEF FInv, FloorCallsTypeOK, KitRow, KitStatus
  <2> HIDE DEF row
  <2>2. Ask(r, "kit", row, {"status"}) BY <1>8 DEF Consume, row
  <2> QED BY <2>1, <2>2, InHandFInv DEF Ask, FloorRequest
<1>9. CASE \E row \in KitRow : EditKit(r, row)
  <2> PICK row \in KitRow : EditKit(r, row) BY <1>9
  <2> QED BY InHandFInv DEF EditKit, Ask, FloorRequest
<1> QED BY <1>1, <1>2, <1>3, <1>4, <1>5, <1>6, <1>7, <1>8, <1>9

\* The end of a request leaves nothing in hand.
LEMMA EndsSound ==
  ASSUME FInv, NEW r \in FloorRequests, floorReq' = [floorReq EXCEPT ![r] = NoFloorReq]
  PROVE  /\ floorReq' \in [FloorRequests -> FloorRequest \union {NoFloorReq}]
         /\ \A s \in FloorRequests : HandSound(s)'
<1>1. floorReq' \in [FloorRequests -> FloorRequest \union {NoFloorReq}]
  BY DEF FInv, FloorCallsTypeOK
<1>2. ASSUME NEW s \in FloorRequests PROVE HandSound(s)'
  <2>1. floorReq'[s] = IF s = r THEN NoFloorReq ELSE floorReq[s] BY DEF FInv, FloorCallsTypeOK
  <2>2. NoFloorReq.of = "idle" BY DEF NoFloorReq
  <2> QED BY <2>1, <2>2 DEF FInv, HandSound
<1> QED BY <1>1, <1>2

\* Whatever became of the rows meanwhile, what is saved has its evidence.
LEMMA SaveFInv ==
  ASSUME FInv, NEW r \in FloorRequests, SaveAndon(r) \/ SaveDowntime(r) \/ SaveKit(r)
  PROVE  FInv'
<1> DEFINE q == floorReq[r]
<1>1. q \in FloorRequest \union {NoFloorReq} /\ HandSound(r) BY DEF FInv, FloorCallsTypeOK
<1>2. /\ floorReq' \in [FloorRequests -> FloorRequest \union {NoFloorReq}]
      /\ \A s \in FloorRequests : HandSound(s)'
  BY EndsSound DEF SaveAndon, SaveDowntime, SaveKit
<1>3. CASE SaveAndon(r)
  <2>1. q.row \in AndonRow /\ q.of = "andon"
    BY <1>1, <1>3 DEF SaveAndon, FloorRequest, NoFloorReq
  <2>2. andon' = [f \in DOMAIN andon |-> IF f \in q.fields THEN q.row[f] ELSE andon[f]]
    BY <1>3 DEF SaveAndon, Saved
  <2>3. andon \in AndonRow BY DEF FInv, FloorCallsTypeOK
  <2>4. andon' \in AndonRow BY <2>1, <2>2, <2>3 DEF AndonRow
  <2>5. andon'.status = "RESOLVED" => andon'.noted
    BY <1>1, <2>1, <2>2, <2>3 DEF HandSound, AndonRow
  <2>6. UNCHANGED <<downtime, kit>> BY <1>3 DEF SaveAndon
  <2> QED BY <1>2, <2>4, <2>5, <2>6 DEF FInv, FloorCallsTypeOK, ClosedWithEvidence
<1>4. CASE SaveDowntime(r)
  <2>1. q.row \in DowntimeRow /\ q.of = "downtime"
    BY <1>1, <1>4 DEF SaveDowntime, FloorRequest, NoFloorReq
  <2>2. downtime' = [f \in DOMAIN downtime |-> IF f \in q.fields THEN q.row[f] ELSE downtime[f]]
    BY <1>4 DEF SaveDowntime, Saved
  <2>3. downtime \in DowntimeRow BY DEF FInv, FloorCallsTypeOK
  <2>4. downtime' \in DowntimeRow BY <2>1, <2>2, <2>3 DEF DowntimeRow
  <2>5. downtime'.status = "CLOSED" => downtime'.ended
    BY <1>1, <2>1, <2>2, <2>3 DEF HandSound, DowntimeRow
  <2>6. UNCHANGED <<andon, kit>> BY <1>4 DEF SaveDowntime
  <2> QED BY <1>2, <2>4, <2>5, <2>6 DEF FInv, FloorCallsTypeOK, ClosedWithEvidence
<1>5. CASE SaveKit(r)
  <2>1. q.row \in KitRow BY <1>1, <1>5 DEF SaveKit, FloorRequest, NoFloorReq
  <2>2. kit' = [f \in DOMAIN kit |-> IF f \in q.fields THEN q.row[f] ELSE kit[f]]
    BY <1>5 DEF SaveKit, Saved
  <2>3. kit \in KitRow BY DEF FInv, FloorCallsTypeOK
  <2>4. kit' \in KitRow BY <2>1, <2>2, <2>3 DEF KitRow
  <2>5. UNCHANGED <<andon, downtime>> BY <1>5 DEF SaveKit
  <2> QED BY <1>2, <2>4, <2>5 DEF FInv, FloorCallsTypeOK, ClosedWithEvidence
<1> QED BY <1>3, <1>4, <1>5

\* Every step on the floor keeps the invariant.
LEMMA StepFInv == FInv /\ [FloorCallsNext]_floorVars => FInv'
<1> SUFFICES ASSUME FInv, [FloorCallsNext]_floorVars PROVE FInv' OBVIOUS
<1>1. CASE AndonNext BY <1>1, AskFInv, SaveFInv DEF AndonNext
<1>2. CASE DowntimeNext BY <1>2, AskFInv, SaveFInv DEF DowntimeNext
<1>3. CASE KitNext BY <1>3, AskFInv, SaveFInv DEF KitNext
<1>4. CASE \E r \in FloorRequests : FloorReqDies(r)
  <2> PICK r \in FloorRequests : FloorReqDies(r) BY <1>4
  <2> QED BY EndsSound DEF FloorReqDies, FInv, FloorCallsTypeOK, ClosedWithEvidence
<1>5. CASE UNCHANGED floorVars
  BY <1>5 DEF floorVars, FInv, FloorCallsTypeOK, ClosedWithEvidence, HandSound
<1> QED BY <1>1, <1>2, <1>3, <1>4, <1>5 DEF FloorCallsNext

\* The inductive invariant of the calls from the floor: what is in hand can always be saved.
THEOREM FloorInvariance == FloorCallsSpec => []FInv
<1> QED BY InitFInv, StepFInv, PTL DEF FloorCallsSpec

\* Status and evidence of a signal and of a downtime are never saved apart, whoever saves
\* over whom.
THEOREM ClosedWithEvidenceHolds == FloorCallsSpec => []ClosedWithEvidence
  BY FloorInvariance, PTL DEF FInv

(***************************************************************************)
(* StationIntake.  A message of the collector is recorded once, any other  *)
(* too unless two requests had it in hand at once, and the unit is         *)
(* completed only if somebody recorded it.                                 *)
(***************************************************************************)
InHandOf(x, r) == intakeReq[r].pc \notin {"idle", "effects"} /\ intakeReq[r].ref = x

(***************************************************************************)
(* Why a request may write what it has judged.  The second part is the     *)
(* unique external_id: while a message of the collector is in a            *)
(* transaction it is in no other.  The third is what the API and `sync'    *)
(* have instead: a look at the events that were there when they began,     *)
(* which is enough for a message that only one of them has in hand.        *)
(***************************************************************************)
Backed(r) ==
  LET q == intakeReq[r]
  IN /\ q.pc = "effects" /\ q.type = "COMPLETED" => everDone
     /\ q.pc \in {"allowed", "refused", "found", "mark"} /\ q.ref \in Equipment =>
          q.pc \in {"allowed", "refused"} /\ inbound[q.ref] = "ABSENT"
     /\ q.pc = "allowed" /\ q.ref \in Unclaimed \ overlapped => recorded[q.ref] = 0
     /\ q.pc = "found" => recorded[q.ref] >= 1
     /\ q.pc = "mark" => q.ref \in Offline /\ (q.to = "SYNCED" => recorded[q.ref] >= 1)

Alone ==
  \A x \in Equipment \union (Unclaimed \ overlapped) : \A r, s \in IntakeRequests :
    InHandOf(x, r) /\ InHandOf(x, s) => r = s

IInv ==
  /\ StationIntakeTypeOK
  /\ RecordedOnce
  /\ CompletedWasRecorded
  /\ Alone
  /\ \A r \in IntakeRequests : Backed(r)

USE IntakeAssumption DEF IntakeTypes

\* Nothing is recorded and nobody asks.
LEMMA InitIInv == StationIntakeInit => IInv
<1> SUFFICES ASSUME StationIntakeInit PROVE IInv OBVIOUS
<1>1. StationIntakeTypeOK
  <2>1. recorded \in [Refs \union {NoRef} -> 0 .. MaxRecorded] BY DEF StationIntakeInit
  <2>2. intakeReq \in [IntakeRequests -> IntakeRequest \union {NoIntake}]
    BY DEF StationIntakeInit
  <2> QED BY <2>1, <2>2 DEF StationIntakeInit, StationIntakeTypeOK
<1>2. RecordedOnce /\ CompletedWasRecorded
  BY DEF StationIntakeInit, RecordedOnce, CompletedWasRecorded, Equipment, Offline, Unclaimed
<1>3. Alone /\ \A r \in IntakeRequests : Backed(r)
  BY DEF StationIntakeInit, Alone, InHandOf, Backed, NoIntake
<1> QED BY <1>1, <1>2, <1>3 DEF IInv

\* What each kind of request carries
LEMMA Carries ==
  ASSUME IInv, NEW r \in IntakeRequests
  PROVE  LET q == intakeReq[r]
         IN /\ q.pc \in {"allowed", "refused", "found"} => q.ref \in Refs \union {NoRef} /\ q.type \in IntakeTypes
            /\ q.pc = "effects" => q.type \in IntakeTypes
            /\ q.pc = "mark" => q.ref \in Refs /\ q.to \in {"SYNCED", "REJECTED"}
            /\ q.pc \in {"idle", "allowed", "refused", "found", "effects", "mark"}
            /\ q = NoIntake <=> q.pc = "idle"
  BY DEF IInv, StationIntakeTypeOK, IntakeRequest, NoIntake

\* A request that has nothing to do with x is not in hand for it.
LEMMA InHandIs ==
  ASSUME IInv, NEW x \in Refs
  PROVE  InHand(x) = {r \in IntakeRequests : InHandOf(x, r)}
  BY Carries DEF InHand, InHandOf

\* One request goes on to q, the others stay: their part of the invariant.
LEMMA OthersBacked ==
  ASSUME IInv, NEW r \in IntakeRequests, NEW q,
         intakeReq' = [intakeReq EXCEPT ![r] = q],
         everDone => everDone', overlapped \subseteq overlapped',
         \A x \in Refs \union {NoRef} : recorded[x] >= 1 => recorded'[x] >= 1,
         \A x \in Equipment : (\E s \in IntakeRequests \ {r} : InHandOf(x, s)) => inbound'[x] = inbound[x],
         \A x \in Unclaimed \ overlapped' : (\E s \in IntakeRequests \ {r} : InHandOf(x, s)) => recorded'[x] = recorded[x]
  PROVE  \A s \in IntakeRequests \ {r} : Backed(s)'
<1> SUFFICES ASSUME NEW s \in IntakeRequests \ {r} PROVE Backed(s)' OBVIOUS
<1>1. intakeReq'[s] = intakeReq[s] BY DEF IInv, StationIntakeTypeOK
<1>2. Backed(s) BY DEF IInv
<1> PICK p : p = intakeReq[s] OBVIOUS
<1>3. /\ p.pc \in {"allowed", "refused", "found"} => p.ref \in Refs \union {NoRef}
      /\ p.pc = "mark" => p.ref \in Refs
  BY Carries
<1>4. \A x : InHandOf(x, s) <=> p.pc \notin {"idle", "effects"} /\ p.ref = x BY DEF InHandOf
<1>5. p.ref \in Equipment /\ p.pc \in {"allowed", "refused", "found", "mark"} =>
        p.pc \in {"allowed", "refused"} /\ inbound'[p.ref] = "ABSENT"
  BY <1>2, <1>4 DEF Backed
<1>6. p.pc = "allowed" /\ p.ref \in Unclaimed \ overlapped' => recorded'[p.ref] = 0
  BY <1>2, <1>4 DEF Backed
<1>7. /\ p.pc = "found" => recorded'[p.ref] >= 1
      /\ p.pc = "mark" => p.ref \in Offline /\ (p.to = "SYNCED" => recorded'[p.ref] >= 1)
      /\ p.pc = "effects" /\ p.type = "COMPLETED" => everDone'
  BY <1>2, <1>3 DEF Backed
<1> QED BY <1>1, <1>5, <1>6, <1>7 DEF Backed, Equipment, Offline, Unclaimed

\* A message stays with one request if the request that goes on had it, or nobody did.
LEMMA AloneStays ==
  ASSUME IInv, NEW r \in IntakeRequests, NEW q,
         intakeReq' = [intakeReq EXCEPT ![r] = q], overlapped \subseteq overlapped',
         \A x \in Equipment \union (Unclaimed \ overlapped') :
           q.pc \notin {"idle", "effects"} /\ q.ref = x =>
             InHandOf(x, r) \/ \A s \in IntakeRequests : ~ InHandOf(x, s)
  PROVE  Alone'
<1> SUFFICES ASSUME NEW x \in Equipment \union (Unclaimed \ overlapped'),
                    NEW s \in IntakeRequests, NEW t \in IntakeRequests,
                    InHandOf(x, s)', InHandOf(x, t)'
             PROVE  s = t
  BY DEF Alone, Equipment, Offline, Unclaimed
<1>1. \A u \in IntakeRequests : intakeReq'[u] = IF u = r THEN q ELSE intakeReq[u]
  BY DEF IInv, StationIntakeTypeOK
<1>2. \A u \in IntakeRequests \ {r} : InHandOf(x, u)' <=> InHandOf(x, u)
  BY <1>1 DEF InHandOf
<1>3. s = r \/ t = r => q.pc \notin {"idle", "effects"} /\ q.ref = x BY <1>1 DEF InHandOf
<1>4. x \in Equipment \union (Unclaimed \ overlapped) OBVIOUS
<1> QED BY <1>2, <1>3, <1>4 DEF IInv, Alone

\* A step that only puts q in hand of r: nothing is written but, maybe, that requests overlap.
LEMMA JudgedIInv ==
  ASSUME IInv, NEW r \in IntakeRequests, NEW q \in IntakeRequest \union {NoIntake},
         intakeReq' = [intakeReq EXCEPT ![r] = q], Backed(r)',
         overlapped \subseteq overlapped', overlapped' \subseteq Unclaimed,
         \A x \in Equipment \union (Unclaimed \ overlapped') :
           q.pc \notin {"idle", "effects"} /\ q.ref = x =>
             InHandOf(x, r) \/ \A s \in IntakeRequests : ~ InHandOf(x, s),
         UNCHANGED <<recorded, latest, everDone, intakeStatus, inbound, offline, linked>>
  PROVE  IInv'
<1>1. StationIntakeTypeOK' BY DEF IInv, StationIntakeTypeOK, Equipment, Offline, Unclaimed
<1>2. RecordedOnce' /\ CompletedWasRecorded'
  BY DEF IInv, RecordedOnce, CompletedWasRecorded, Equipment, Offline, Unclaimed
<1>3. Alone' BY AloneStays
<1>4. \A s \in IntakeRequests \ {r} : Backed(s)' BY OthersBacked
<1> QED BY <1>1, <1>2, <1>3, <1>4 DEF IInv

\* A request that ends, or dies, has nothing in hand.
LEMMA DiesIInv == ASSUME IInv, NEW r \in IntakeRequests, IntakeDies(r) PROVE IInv'
<1>1. intakeReq' = [intakeReq EXCEPT ![r] = NoIntake] /\ UNCHANGED overlapped
  BY DEF IntakeDies
<1>2. intakeReq'[r] = NoIntake BY <1>1 DEF IInv, StationIntakeTypeOK
<1>3. Backed(r)' BY <1>2 DEF Backed, NoIntake
<1>4. overlapped' \subseteq Unclaimed BY <1>1 DEF IInv, StationIntakeTypeOK
<1>5. NoIntake.pc = "idle" BY DEF NoIntake
<1> QED BY <1>1, <1>3, <1>4, <1>5, JudgedIInv DEF IntakeDies

\* What the console judges is nobody's message.
LEMMA ConsoleIInv ==
  ASSUME IInv, NEW r \in IntakeRequests, NEW type \in IntakeTypes, Console(r, type)
  PROVE  IInv'
<1> DEFINE q == [pc |-> "allowed", ref |-> NoRef, type |-> type]
<1>1. q \in IntakeRequest BY DEF IntakeRequest
<1>2. intakeReq' = [intakeReq EXCEPT ![r] = q] /\ UNCHANGED overlapped BY DEF Console
<1>3. intakeReq'[r] = q BY <1>2 DEF IInv, StationIntakeTypeOK
<1>4. Backed(r)' BY <1>3 DEF Backed, Equipment, Offline, Unclaimed
<1>5. overlapped' \subseteq Unclaimed BY <1>2 DEF IInv, StationIntakeTypeOK
<1>6. NoRef \notin Equipment \union Unclaimed BY DEF Equipment, Unclaimed
<1> QED BY <1>1, <1>2, <1>4, <1>5, <1>6, JudgedIInv DEF Console

\* The API, the collector and a sync judge a message: a new one if it is found nowhere.
LEMMA MessageIInv ==
  ASSUME IInv, NEW r \in IntakeRequests, NEW x \in Refs, Api(r, x) \/ Collect(r, x) \/ Sync(r, x)
  PROVE  IInv'
<1>1. PICK pc \in {"allowed", "refused", "found"} :
        /\ intakeReq' = [intakeReq EXCEPT ![r] = [ref |-> x, type |-> TypeOf[x], pc |-> pc]]
        /\ pc = "found" => recorded[x] > 0
        /\ x \in Unclaimed /\ pc = "allowed" => ~ (recorded[x] > 0)
        /\ x \in Equipment => pc \in {"allowed", "refused"}
  BY DEF Api, Collect, Sync, Judged, JudgedKnown, Verdict, Equipment, Offline, Unclaimed
<1> DEFINE q == [ref |-> x, type |-> TypeOf[x], pc |-> pc]
<1>2. q \in IntakeRequest BY DEF IntakeRequest
<1>3. intakeReq'[r] = q BY <1>1 DEF IInv, StationIntakeTypeOK
<1>4. recorded[x] \in Nat /\ UNCHANGED <<recorded, latest, everDone, intakeStatus, inbound, offline, linked>>
  BY DEF IInv, StationIntakeTypeOK, Api, Collect, Sync
<1>5. x \in Equipment => inbound[x] = "ABSENT" BY DEF Api, Collect, Sync, Equipment, Offline, Unclaimed
<1>6. overlapped \subseteq overlapped' /\ overlapped' \subseteq Unclaimed
  BY DEF IInv, StationIntakeTypeOK, Api, Collect, Sync, TakenUp, Equipment, Offline, Unclaimed
<1>7. Backed(r)' BY <1>1, <1>3, <1>4, <1>5 DEF Backed, Equipment, Offline, Unclaimed
<1>8. \A y \in Equipment \union (Unclaimed \ overlapped') :
        q.ref = y => \A s \in IntakeRequests : ~ InHandOf(y, s)
  BY InHandIs DEF Api, Collect, Sync, TakenUp, Equipment, Offline, Unclaimed
<1> QED BY <1>1, <1>2, <1>4, <1>6, <1>7, <1>8, JudgedIInv

\* An upload only leaves a row to be synced.
LEMMA UploadIInv == ASSUME IInv, NEW x \in Refs, Upload(x) PROVE IInv'
<1>1. StationIntakeTypeOK' BY DEF IInv, StationIntakeTypeOK, Upload, Equipment, Offline, Unclaimed
<1>2. RecordedOnce' /\ CompletedWasRecorded'
  BY DEF IInv, StationIntakeTypeOK, RecordedOnce, CompletedWasRecorded, Upload, Equipment, Offline, Unclaimed
<1>3. Alone' /\ \A r \in IntakeRequests : Backed(r)'
  BY DEF IInv, Alone, InHandOf, Backed, Upload, Equipment, Offline, Unclaimed
<1> QED BY <1>1, <1>2, <1>3 DEF IInv

\* A row more of the reference, and of no other
LEMMA NewEventIs ==
  ASSUME IInv, NEW x \in Refs \union {NoRef}, NEW type \in IntakeTypes, NEW late \in BOOLEAN,
         NewEvent(x, type, late)
  PROVE  /\ recorded' \in [Refs \union {NoRef} -> 0 .. MaxRecorded]
         /\ recorded'[x] = recorded[x] + 1 /\ recorded[x] \in Nat
         /\ \A y \in (Refs \union {NoRef}) \ {x} : recorded'[y] = recorded[y]
         /\ \A y \in Refs \union {NoRef} : recorded[y] >= 1 => recorded'[y] >= 1
         /\ latest' \in IntakeTypes \union {"NONE"} /\ everDone' \in BOOLEAN
         /\ everDone => everDone'
         /\ type = "COMPLETED" => everDone'
<1>1. recorded \in [Refs \union {NoRef} -> 0 .. MaxRecorded] /\ recorded[x] < MaxRecorded
      /\ recorded' = [recorded EXCEPT ![x] = @ + 1]
  BY DEF IInv, StationIntakeTypeOK, NewEvent
<1>2. recorded[x] \in Nat /\ recorded[x] + 1 \in 0 .. MaxRecorded BY <1>1
<1>3. /\ recorded' \in [Refs \union {NoRef} -> 0 .. MaxRecorded] /\ recorded'[x] = recorded[x] + 1
      /\ \A y \in (Refs \union {NoRef}) \ {x} : recorded'[y] = recorded[y]
  BY <1>1, <1>2
<1>4. latest' \in IntakeTypes \union {"NONE"} BY DEF IInv, StationIntakeTypeOK, NewEvent
<1>5. /\ everDone' \in BOOLEAN
      /\ everDone => everDone'
      /\ type = "COMPLETED" => everDone'
  BY DEF IInv, StationIntakeTypeOK, NewEvent
<1> QED BY <1>2, <1>3, <1>4, <1>5

\* The console's event says what its second write is about to say of the unit.
LEMMA ConsoleCreateIInv ==
  ASSUME IInv, NEW r \in IntakeRequests, NEW late \in BOOLEAN, ConsoleCreate(r, late)
  PROVE  IInv'
<1> PICK p : p = intakeReq[r] OBVIOUS
<1> DEFINE q == [pc |-> "effects", type |-> p.type]
<1>1. p.type \in IntakeTypes /\ NewEvent(NoRef, p.type, late)
  BY Carries DEF ConsoleCreate
<1>2. /\ intakeReq' = [intakeReq EXCEPT ![r] = q]
      /\ UNCHANGED <<intakeStatus, inbound, offline, linked, overlapped>>
  BY DEF ConsoleCreate
<1>3. /\ recorded' \in [Refs \union {NoRef} -> 0 .. MaxRecorded]
      /\ \A y \in Refs : recorded'[y] = recorded[y]
      /\ \A y \in Refs \union {NoRef} : recorded[y] >= 1 => recorded'[y] >= 1
      /\ latest' \in IntakeTypes \union {"NONE"} /\ everDone' \in BOOLEAN
      /\ everDone => everDone'
      /\ p.type = "COMPLETED" => everDone'
  <2>1. NoRef \in Refs \union {NoRef} OBVIOUS
  <2>2. /\ recorded' \in [Refs \union {NoRef} -> 0 .. MaxRecorded]
        /\ \A y \in (Refs \union {NoRef}) \ {NoRef} : recorded'[y] = recorded[y]
        /\ \A y \in Refs \union {NoRef} : recorded[y] >= 1 => recorded'[y] >= 1
        /\ latest' \in IntakeTypes \union {"NONE"} /\ everDone' \in BOOLEAN
        /\ everDone => everDone'
        /\ p.type = "COMPLETED" => everDone'
    BY <1>1, <2>1, NewEventIs
  <2> QED BY <2>2
<1>4. q \in IntakeRequest /\ intakeReq'[r] = q
  BY <1>1, <1>2 DEF IntakeRequest, IInv, StationIntakeTypeOK
<1>5. StationIntakeTypeOK' BY <1>2, <1>3, <1>4 DEF IInv, StationIntakeTypeOK, Equipment, Offline, Unclaimed
<1>6. RecordedOnce' /\ CompletedWasRecorded'
  BY <1>2, <1>3 DEF IInv, RecordedOnce, CompletedWasRecorded, Equipment, Offline, Unclaimed
<1>7. Alone' BY <1>2, AloneStays
<1>8. Backed(r)' BY <1>3, <1>4 DEF Backed
<1>9. \A s \in IntakeRequests \ {r} : Backed(s)'
  BY <1>2, <1>3, OthersBacked DEF Equipment, Offline, Unclaimed
<1> QED BY <1>5, <1>6, <1>7, <1>8, <1>9 DEF IInv

\* The unit's status says what an event has said before.
LEMMA ConsoleEffectsIInv == ASSUME IInv, NEW r \in IntakeRequests, ConsoleEffects(r) PROVE IInv'
<1>1. /\ intakeStatus' = StatusAfter(intakeReq[r].type)
      /\ intakeReq' = [intakeReq EXCEPT ![r] = NoIntake]
      /\ UNCHANGED <<recorded, latest, everDone, inbound, offline, linked, overlapped>>
      /\ intakeReq[r].type = "COMPLETED" => everDone
  BY DEF ConsoleEffects, IInv, Backed
<1>2. intakeReq'[r] = NoIntake BY <1>1 DEF IInv, StationIntakeTypeOK
<1>3. StationIntakeTypeOK'
  BY <1>1 DEF IInv, StationIntakeTypeOK, StatusAfter, Equipment, Offline, Unclaimed
<1>4. RecordedOnce' /\ CompletedWasRecorded'
  BY <1>1 DEF IInv, RecordedOnce, CompletedWasRecorded, StatusAfter, Equipment, Offline, Unclaimed
<1>5. Alone' BY <1>1, AloneStays DEF NoIntake
<1>6. Backed(r)' BY <1>2 DEF Backed, NoIntake
<1>7. \A s \in IntakeRequests \ {r} : Backed(s)' BY <1>1, OthersBacked
<1> QED BY <1>3, <1>4, <1>5, <1>6, <1>7 DEF IInv

\* A commit that records: of a message that was only here, it is the first event.
LEMMA CommitIInv ==
  ASSUME IInv, NEW r \in IntakeRequests, NEW late \in BOOLEAN, Commit(r, late)
  PROVE  IInv'
<1> PICK p : p = intakeReq[r] OBVIOUS
<1> DEFINE x == p.ref
           q == Then(x, "SYNCED")
<1>1. p.pc = "allowed" /\ x \in Refs /\ p.type \in IntakeTypes /\ InHandOf(x, r)
  BY Carries DEF Commit, InHandOf
<1>2. /\ NewEvent(x, p.type, late)
      /\ inbound' = IF x \in Equipment THEN [inbound EXCEPT ![x] = "PROCESSED"] ELSE inbound
      /\ intakeReq' = [intakeReq EXCEPT ![r] = q]
      /\ intakeStatus' = StatusAfter(p.type)
      /\ UNCHANGED <<offline, linked, overlapped>>
  BY DEF Commit
<1>3. /\ recorded' \in [Refs \union {NoRef} -> 0 .. MaxRecorded]
      /\ recorded'[x] = recorded[x] + 1 /\ recorded[x] \in Nat
      /\ \A y \in Refs \ {x} : recorded'[y] = recorded[y]
      /\ \A y \in Refs \union {NoRef} : recorded[y] >= 1 => recorded'[y] >= 1
      /\ latest' \in IntakeTypes \union {"NONE"} /\ everDone' \in BOOLEAN
      /\ everDone => everDone'
      /\ p.type = "COMPLETED" => everDone'
  BY <1>1, <1>2, NewEventIs
<1>4. Backed(r) /\ (x \in Equipment => inbound[x] = "ABSENT")
      /\ (x \in Unclaimed \ overlapped => recorded[x] = 0)
  BY <1>1 DEF IInv, Backed
<1>5. \A y \in Equipment \union (Unclaimed \ overlapped) :
        (\E s \in IntakeRequests \ {r} : InHandOf(y, s)) => y # x
  BY <1>1 DEF IInv, Alone
<1> HIDE DEF x
<1>6. q \in IntakeRequest \union {NoIntake} /\ (x \notin Offline => q = NoIntake)
      /\ (q.pc \notin {"idle", "effects"} => q.pc = "mark" /\ q.ref = x /\ x \in Offline)
      /\ q.pc \notin {"allowed", "found", "effects"}
  BY <1>1 DEF Then, IntakeRequest, NoIntake, x
<1> HIDE DEF q
<1>7. intakeReq'[r] = q BY <1>2 DEF IInv, StationIntakeTypeOK
<1>8. StationIntakeTypeOK'
  <2>1. intakeReq' \in [IntakeRequests -> IntakeRequest \union {NoIntake}]
    BY <1>2, <1>6 DEF IInv, StationIntakeTypeOK
  <2>2. inbound' \in [Equipment -> {"ABSENT", "PROCESSED", "REJECTED"}]
    BY <1>2 DEF IInv, StationIntakeTypeOK
  <2>3. intakeStatus' \in {"REGISTERED", "IN_PROCESS", "COMPLETED"}
    BY <1>2 DEF StatusAfter
  <2> QED BY <1>2, <1>3, <2>1, <2>2, <2>3 DEF IInv, StationIntakeTypeOK, Offline
<1>9. RecordedOnce'
  <2>1. ASSUME NEW y \in Equipment
        PROVE  recorded'[y] = IF inbound'[y] = "PROCESSED" THEN 1 ELSE 0
    <3>1. recorded[y] = IF inbound[y] = "PROCESSED" THEN 1 ELSE 0 BY DEF IInv, RecordedOnce
    <3>2. inbound \in [Equipment -> {"ABSENT", "PROCESSED", "REJECTED"}]
      BY DEF IInv, StationIntakeTypeOK
    <3>3. CASE y = x BY <1>2, <1>3, <1>4, <3>1, <3>2, <3>3
    <3>4. CASE y # x
      <4>1. inbound'[y] = inbound[y] BY <1>2, <3>2, <3>4
      <4>2. recorded'[y] = recorded[y] BY <1>3, <3>4 DEF Equipment
      <4> QED BY <3>1, <4>1, <4>2
    <3> QED BY <3>3, <3>4
  <2>2. ASSUME NEW y \in Unclaimed \ overlapped' PROVE recorded'[y] <= 1
    <3>1. y \in Unclaimed \ overlapped /\ recorded[y] <= 1 BY <1>2 DEF IInv, RecordedOnce
    <3>2. CASE y = x BY <1>3, <1>4, <3>1, <3>2
    <3>3. CASE y # x BY <1>3, <3>1, <3>3 DEF Unclaimed
    <3> QED BY <3>2, <3>3
  <2>3. ASSUME NEW y \in Offline, offline'[y] = "SYNCED"
        PROVE  recorded'[y] >= 1 /\ y \in linked'
    <3>1. recorded[y] >= 1 /\ y \in linked /\ y \in Refs
      BY <1>2, <2>3 DEF IInv, RecordedOnce, Offline
    <3> QED BY <1>2, <1>3, <3>1
  <2> QED BY <2>1, <2>2, <2>3 DEF RecordedOnce, Equipment, Offline
<1>10. CompletedWasRecorded'
  BY <1>2, <1>3 DEF IInv, CompletedWasRecorded, StatusAfter
<1>11. Alone'
  <2>1. \A y \in Equipment \union (Unclaimed \ overlapped') :
          q.pc \notin {"idle", "effects"} /\ q.ref = y => InHandOf(y, r)
    BY <1>1, <1>6
  <2> QED BY <1>2, <2>1, AloneStays
<1>12. Backed(r)' BY <1>3, <1>6, <1>7 DEF Backed, Equipment, Offline, Unclaimed
<1>13. \A s \in IntakeRequests \ {r} : Backed(s)'
  <2>1. \A y \in Equipment :
          (\E s \in IntakeRequests \ {r} : InHandOf(y, s)) => inbound'[y] = inbound[y]
    BY <1>2, <1>5 DEF IInv, StationIntakeTypeOK
  <2>2. \A y \in Unclaimed \ overlapped' :
          (\E s \in IntakeRequests \ {r} : InHandOf(y, s)) => recorded'[y] = recorded[y]
    BY <1>2, <1>3, <1>5 DEF Unclaimed
  <2> QED BY <1>2, <1>3, <2>1, <2>2, OthersBacked
<1> QED BY <1>8, <1>9, <1>10, <1>11, <1>12, <1>13 DEF IInv

\* What was found is one that was recorded; what was refused is kept as refused.
LEMMA CommitOtherIInv ==
  ASSUME IInv, NEW r \in IntakeRequests, CommitFound(r) \/ CommitRefused(r)
  PROVE  IInv'
<1> PICK p : p = intakeReq[r] OBVIOUS
<1> DEFINE x == p.ref
<1>1. /\ p.pc \in {"found", "refused"} /\ x \in Refs \union {NoRef} /\ InHandOf(x, r)
      /\ x \in Equipment => p.pc = "refused" /\ inbound[x] = "ABSENT"
      /\ p.pc = "found" => recorded[x] >= 1
  BY Carries DEF CommitFound, CommitRefused, InHandOf, IInv, Backed
<1>2. PICK to \in {"SYNCED", "REJECTED"} :
        /\ intakeReq' = [intakeReq EXCEPT ![r] = Then(x, to)]
        /\ to = "SYNCED" => p.pc = "found"
  BY DEF CommitFound, CommitRefused
<1>3. /\ UNCHANGED <<recorded, latest, everDone, intakeStatus, offline, linked, overlapped>>
      /\ inbound' \in {inbound, [inbound EXCEPT ![x] = "REJECTED"]}
      /\ x \notin Equipment => inbound' = inbound
  BY DEF CommitFound, CommitRefused
<1>4. \A y \in Equipment : (\E s \in IntakeRequests \ {r} : InHandOf(y, s)) => y # x
  BY <1>1 DEF IInv, Alone
<1> DEFINE q == Then(x, to)
<1>5. q \in IntakeRequest \union {NoIntake}
      /\ (q.pc \notin {"idle", "effects"} => q.pc = "mark" /\ q.ref = x /\ x \in Offline /\ q.to = to)
      /\ q.pc \notin {"allowed", "found", "effects"}
  BY <1>1 DEF Then, IntakeRequest, NoIntake, Offline
<1> HIDE DEF x, q
<1>6. intakeReq'[r] = q BY <1>2 DEF IInv, StationIntakeTypeOK, q
<1>7. /\ inbound' \in [Equipment -> {"ABSENT", "PROCESSED", "REJECTED"}]
      /\ \A y \in Equipment \ {x} : inbound'[y] = inbound[y]
      /\ x \in Equipment => inbound[x] = "ABSENT" /\ inbound'[x] \in {"ABSENT", "REJECTED"}
  BY <1>1, <1>3 DEF IInv, StationIntakeTypeOK
<1>8. StationIntakeTypeOK'
  <2>1. intakeReq' \in [IntakeRequests -> IntakeRequest \union {NoIntake}]
    BY <1>2, <1>5 DEF IInv, StationIntakeTypeOK, q
  <2> QED BY <1>3, <1>7, <2>1 DEF IInv, StationIntakeTypeOK, Offline
<1>9. RecordedOnce' /\ CompletedWasRecorded'
  <2>1. ASSUME NEW y \in Equipment
        PROVE  recorded'[y] = IF inbound'[y] = "PROCESSED" THEN 1 ELSE 0
    <3>1. recorded[y] = IF inbound[y] = "PROCESSED" THEN 1 ELSE 0 BY DEF IInv, RecordedOnce
    <3>2. CASE y = x BY <1>3, <1>7, <3>1, <3>2
    <3>3. CASE y # x BY <1>3, <1>7, <3>1, <3>3
    <3> QED BY <3>2, <3>3
  <2> QED BY <1>3, <2>1 DEF IInv, RecordedOnce, CompletedWasRecorded, Equipment, Offline, Unclaimed
<1>10. Alone'
  <2>1. \A y \in Equipment \union (Unclaimed \ overlapped') :
          q.pc \notin {"idle", "effects"} /\ q.ref = y => InHandOf(y, r)
    BY <1>1, <1>5
  <2> QED BY <1>2, <1>3, <2>1, AloneStays DEF q
<1>11. Backed(r)' BY <1>1, <1>2, <1>3, <1>5, <1>6 DEF Backed, Equipment, Offline, Unclaimed
<1>12. \A s \in IntakeRequests \ {r} : Backed(s)'
  <2>1. \A y \in Equipment :
          (\E s \in IntakeRequests \ {r} : InHandOf(y, s)) => inbound'[y] = inbound[y]
    <3> SUFFICES ASSUME NEW y \in Equipment, y # x PROVE inbound'[y] = inbound[y]
      BY <1>4
    <3> QED BY <1>7
  <2> QED BY <1>2, <1>3, <2>1, OthersBacked
<1> QED BY <1>8, <1>9, <1>10, <1>11, <1>12 DEF IInv

\* A row marked as synced has its event.
LEMMA MarkIInv == ASSUME IInv, NEW r \in IntakeRequests, Mark(r) PROVE IInv'
<1> PICK p : p = intakeReq[r] OBVIOUS
<1>1. /\ p.pc = "mark" /\ p.ref \in Refs /\ p.to \in {"SYNCED", "REJECTED"}
      /\ p.ref \notin Equipment /\ (p.to = "SYNCED" => recorded[p.ref] >= 1)
  BY Carries DEF Mark, IInv, Backed
<1>2. /\ offline' = [offline EXCEPT ![p.ref] = p.to]
      /\ linked' = IF p.to = "SYNCED" THEN linked \union {p.ref} ELSE linked
      /\ intakeReq' = [intakeReq EXCEPT ![r] = NoIntake]
      /\ UNCHANGED <<recorded, latest, everDone, intakeStatus, inbound, overlapped>>
  BY DEF Mark
<1>3. intakeReq'[r] = NoIntake BY <1>2 DEF IInv, StationIntakeTypeOK
<1>4. p.ref \in Offline BY DEF Mark, IInv, Backed
<1>5. StationIntakeTypeOK' BY <1>1, <1>2, <1>4 DEF IInv, StationIntakeTypeOK, Equipment
<1>6. RecordedOnce' /\ CompletedWasRecorded'
  BY <1>1, <1>2 DEF IInv, StationIntakeTypeOK, RecordedOnce, CompletedWasRecorded, Equipment
<1>7. Alone' BY <1>2, AloneStays DEF NoIntake
<1>8. Backed(r)' BY <1>3 DEF Backed, NoIntake
<1>9. \A s \in IntakeRequests \ {r} : Backed(s)' BY <1>2, OthersBacked
<1> QED BY <1>5, <1>6, <1>7, <1>8, <1>9 DEF IInv

\* Every step keeps the invariant.
LEMMA StepIInv == IInv /\ [StationIntakeNext]_intakeVars => IInv'
<1> SUFFICES ASSUME IInv, [StationIntakeNext]_intakeVars PROVE IInv' OBVIOUS
<1>1. CASE \E x \in Refs : Upload(x) BY <1>1, UploadIInv
<1>2. CASE \E r \in IntakeRequests :
             \/ \E type \in IntakeTypes : Console(r, type)
             \/ \E x \in Refs : Api(r, x) \/ Collect(r, x) \/ Sync(r, x)
  BY <1>2, ConsoleIInv, MessageIInv
<1>3. CASE \E r \in IntakeRequests :
             \/ \E late \in BOOLEAN : ConsoleCreate(r, late) \/ Commit(r, late)
             \/ ConsoleEffects(r)
  BY <1>3, CommitIInv, ConsoleCreateIInv, ConsoleEffectsIInv
<1>4. CASE \E r \in IntakeRequests : CommitFound(r) \/ CommitRefused(r) \/ Mark(r) \/ IntakeDies(r)
  BY <1>4, CommitOtherIInv, MarkIInv, DiesIInv
<1>5. CASE UNCHANGED intakeVars
  BY <1>5 DEF intakeVars, IInv, StationIntakeTypeOK, RecordedOnce, CompletedWasRecorded,
              Alone, InHandOf, Backed
<1> QED BY <1>1, <1>2, <1>3, <1>4, <1>5 DEF StationIntakeNext

\* The inductive invariant of what comes in at a station: who has a message in hand is alone
\* with it where uniqueness depends on that, and what he judged is still so.
THEOREM IntakeInvariance == StationIntakeSpec => []IInv
<1> QED BY InitIInv, StepIInv, PTL DEF StationIntakeSpec

\* record_station_event, process_equipment_event and sync: a message of the collector makes
\* one event, and one of the API or of a terminal that was offline makes two only if two
\* requests had it in hand at once.
THEOREM RecordedOnceHolds == StationIntakeSpec => []RecordedOnce
  BY IntakeInvariance, PTL DEF IInv

\* A unit counts as completed only if somebody recorded that it was.
THEOREM CompletedWasRecordedHolds == StationIntakeSpec => []CompletedWasRecorded
  BY IntakeInvariance, PTL DEF IInv

(***************************************************************************)
(* SignalFacts.  What is normalised has a fact of the MES behind it, what  *)
(* was delivered was counted, and duplicate snapshots are at most as many  *)
(* as the requests that ran at once when the first was inserted.           *)
(***************************************************************************)
Accepted(s) == mes[s] = "PROCESSED" \/ measured[s] > 0

\* What a row that is to be NORMALIZED claims
Claim(s, row) ==
  row.status = "NORMALIZED" =>
    \/ "inbound_event" \in row.links /\ mes[s] = "PROCESSED"
    \/ "measurement" \in row.links /\ measured[s] > 0

(***************************************************************************)
(* What a request is about to write is already true, and stays so: the MES *)
(* takes nothing back, and nothing is uncounted.                           *)
(***************************************************************************)
Sound(q) ==
  /\ q.pc = "save" => Claim(q.of, q.row)
  /\ q.pc = "emit" => Accepted(q.of)
  /\ q.pc = "count" /\ q.of # NoFact => q.of \in published
  /\ q.pc \in {"look", "insert"} => q.seen \subseteq published /\ (q.of # NoFact => q.of \in q.seen)
  /\ q.pc = "deliver" => q.of \in published /\ (q.ok => q.of \in counted)

Inserting == {r \in FactRequests : factReq[r].pc = "insert"}

\* Once there is a snapshot nobody begins to insert another.
FewSnapshots == snapshots > 0 => snapshots + Cardinality(Inserting) <= Cardinality(FactRequests)

SInv ==
  /\ SignalFactsTypeOK
  /\ NormalizedHasFact
  /\ DeliveredWasCounted
  /\ \A r \in FactRequests : Sound(factReq[r])
  /\ FewSnapshots

USE FactAssumption

LEMMA InitSInv == SignalFactsInit => SInv
<1> SUFFICES ASSUME SignalFactsInit PROVE SInv OBVIOUS
<1>1. Cardinality(FactRequests) \in Nat BY FS_CardinalityType
<1>2. SignalFactsTypeOK
  BY <1>1 DEF SignalFactsInit, SignalFactsTypeOK, Unstored, NoFactReq
<1>3. NormalizedHasFact /\ DeliveredWasCounted /\ FewSnapshots
  BY DEF SignalFactsInit, NormalizedHasFact, DeliveredWasCounted, FewSnapshots, Unstored
<1>4. \A r \in FactRequests : Sound(factReq[r])
  BY DEF SignalFactsInit, Sound, NoFactReq
<1> QED BY <1>2, <1>3, <1>4 DEF SInv

\* What each kind of request carries
LEMMA FactCarries ==
  ASSUME SInv, NEW r \in FactRequests
  PROVE  LET q == factReq[r]
         IN /\ q \in FactRequest \union {NoFactReq}
            /\ Sound(q)
            /\ q.pc \in {"resolve", "STATION_EVENT", "MEASUREMENT", "save"} =>
                 q \in [pc : {"resolve", "STATION_EVENT", "MEASUREMENT", "save"},
                        of : Readings, row : Row]
            /\ q.pc = "emit" => q \in [pc : {"emit"}, of : Readings]
            /\ q.pc = "count" => q \in [pc : {"count"}, of : Events \union {NoFact}]
            /\ q.pc \in {"look", "insert"} =>
                 q \in [pc : {"look", "insert"}, of : Events \union {NoFact}, seen : SUBSET Events]
            /\ q.pc = "deliver" => q \in [pc : {"deliver"}, of : Events, ok : BOOLEAN]
  BY DEF SInv, SignalFactsTypeOK, FactRequest, NoFactReq

\* A sound request stays so while facts, events and counts only grow.
LEMMA StaysSound ==
  ASSUME SInv, NEW q \in FactRequest \union {NoFactReq}, Sound(q),
         \A s \in Readings : mes[s] = "PROCESSED" => mes'[s] = "PROCESSED",
         \A s \in Readings : measured[s] > 0 => measured'[s] > 0,
         published \subseteq published', counted \subseteq counted'
  PROVE  Sound(q)'
<1>1. q.pc \in {"save", "emit"} => q.of \in Readings BY DEF FactRequest, NoFactReq
<1> QED BY <1>1 DEF Sound, Claim, Accepted

\* One request goes on to q, the others stay: the part of the invariant about requests.
LEMMA GoesOn ==
  ASSUME SInv, NEW r \in FactRequests, NEW q \in FactRequest \union {NoFactReq},
         factReq' = [factReq EXCEPT ![r] = q], Sound(q)',
         \A s \in Readings : mes[s] = "PROCESSED" => mes'[s] = "PROCESSED",
         \A s \in Readings : measured[s] > 0 => measured'[s] > 0,
         published \subseteq published', counted \subseteq counted'
  PROVE  /\ factReq' \in [FactRequests -> FactRequest \union {NoFactReq}]
         /\ \A t \in FactRequests : Sound(factReq[t])'
         /\ q.pc # "insert" => Inserting' = Inserting \ {r}
         /\ q.pc = "insert" => Inserting' = Inserting \union {r}
<1>1. factReq \in [FactRequests -> FactRequest \union {NoFactReq}]
  BY DEF SInv, SignalFactsTypeOK
<1>2. \A t \in FactRequests : factReq'[t] = IF t = r THEN q ELSE factReq[t] BY <1>1
<1>3. factReq' \in [FactRequests -> FactRequest \union {NoFactReq}] BY <1>1
<1>4. ASSUME NEW t \in FactRequests PROVE Sound(factReq[t])'
  <2>1. CASE t = r BY <1>2, <2>1
  <2>2. CASE t # r
    <3>1. Sound(factReq[t]) /\ factReq[t] \in FactRequest \union {NoFactReq} BY <1>1 DEF SInv
    <3>2. factReq'[t] = factReq[t] BY <1>2, <2>2
    <3> DEFINE p == factReq[t]
    <3>3. Sound(p)'  BY <3>1, <3>2, StaysSound
    <3> QED BY <3>3
  <2> QED BY <2>1, <2>2
<1>5. (q.pc # "insert" => Inserting' = Inserting \ {r})
      /\ (q.pc = "insert" => Inserting' = Inserting \union {r})
  BY <1>2 DEF Inserting
<1> QED BY <1>3, <1>4, <1>5

\* The bound on snapshots while none is inserted
LEMMA NoneInserted ==
  ASSUME SInv, snapshots' = snapshots,
         Inserting' \subseteq Inserting \/ snapshots = 0
  PROVE  FewSnapshots'
<1>1. IsFiniteSet(Inserting) BY FS_Subset DEF Inserting
<1>2. Cardinality(FactRequests) \in Nat /\ snapshots \in Nat
  BY FS_CardinalityType DEF SInv, SignalFactsTypeOK
<1>3. CASE Inserting' \subseteq Inserting
  <2>1. Cardinality(Inserting') <= Cardinality(Inserting) /\ IsFiniteSet(Inserting')
    BY <1>1, <1>3, FS_Subset
  <2>2. Cardinality(Inserting) \in Nat /\ Cardinality(Inserting') \in Nat
    BY <1>1, <2>1, FS_CardinalityType
  <2> QED BY <1>2, <2>1, <2>2 DEF SInv, FewSnapshots
<1>4. CASE snapshots = 0 BY <1>4 DEF FewSnapshots
<1> QED BY <1>3, <1>4

\* A step of a request that touches neither rows nor facts: it read or judged something.
LEMMA ReadSInv ==
  ASSUME SInv, NEW r \in FactRequests, NEW q \in FactRequest \union {NoFactReq},
         factReq' = [factReq EXCEPT ![r] = q], Sound(q), q.pc # "insert" \/ snapshots = 0,
         UNCHANGED <<signal, mes, measured, published, delivered, snapshots, counted>>
  PROVE  SInv'
<1>1. Sound(q)' BY StaysSound
<1>2. /\ factReq' \in [FactRequests -> FactRequest \union {NoFactReq}]
      /\ \A t \in FactRequests : Sound(factReq[t])'
      /\ Inserting' \subseteq Inserting \/ snapshots = 0
  BY <1>1, GoesOn
<1>3. SignalFactsTypeOK' BY <1>2 DEF SInv, SignalFactsTypeOK
<1>4. NormalizedHasFact' /\ DeliveredWasCounted'
  BY DEF SInv, NormalizedHasFact, DeliveredWasCounted
<1>5. FewSnapshots' BY <1>2, NoneInserted
<1> QED BY <1>2, <1>3, <1>4, <1>5 DEF SInv

\* A request that ends, or dies, has nothing in hand.
LEMMA DiesSInv == ASSUME SInv, NEW r \in FactRequests, FactReqDies(r) PROVE SInv'
<1>1. Sound(NoFactReq) /\ NoFactReq.pc # "insert" BY DEF Sound, NoFactReq
<1> QED BY <1>1, ReadSInv DEF FactReqDies, Ends

\* Storing a signal: its row is pending.
LEMMA StoreSInv == ASSUME SInv, NEW r \in FactRequests, NEW s \in Readings, Store(r, s) PROVE SInv'
<1> DEFINE row == [status |-> "PENDING", links |-> {}]
           q == [pc |-> "resolve", of |-> s, row |-> row]
<1>1. row \in Row /\ row.status # "NORMALIZED" BY DEF Row
<1>2. q \in FactRequest \union {NoFactReq} /\ q.pc # "insert" BY <1>1 DEF FactRequest
<1>3. signal' = [signal EXCEPT ![s] = row] /\ factReq' = [factReq EXCEPT ![r] = q]
  BY DEF Store
<1>4. Sound(q)' BY DEF Sound
<1> HIDE DEF row, q
<1>5. UNCHANGED <<mes, measured, published, delivered, snapshots, counted>> BY DEF Store
<1>6. /\ factReq' \in [FactRequests -> FactRequest \union {NoFactReq}]
      /\ \A t \in FactRequests : Sound(factReq[t])'
      /\ Inserting' \subseteq Inserting
  BY <1>2, <1>3, <1>4, <1>5, GoesOn
<1>7. SignalFactsTypeOK' BY <1>1, <1>3, <1>5, <1>6 DEF SInv, SignalFactsTypeOK
<1>8. NormalizedHasFact'
  BY <1>1, <1>3, <1>5 DEF SInv, SignalFactsTypeOK, NormalizedHasFact
<1>9. DeliveredWasCounted' /\ FewSnapshots'
  BY <1>5, <1>6, NoneInserted DEF SInv, DeliveredWasCounted
<1> QED BY <1>6, <1>7, <1>8, <1>9 DEF SInv

\* A retry has a copy of the row, from which it concludes nothing yet.
LEMMA RetrySInv == ASSUME SInv, NEW r \in FactRequests, NEW s \in Readings, Retry(r, s) PROVE SInv'
<1> DEFINE q == [pc |-> "resolve", of |-> s, row |-> signal[s]]
<1>1. signal[s] \in Row BY DEF Retry, SInv, SignalFactsTypeOK
<1>2. q \in FactRequest \union {NoFactReq} /\ q.pc # "insert" BY <1>1 DEF FactRequest
<1>3. Sound(q) BY DEF Sound
<1>4. factReq' = [factReq EXCEPT ![r] = q]
      /\ UNCHANGED <<signal, mes, measured, published, delivered, snapshots, counted>>
  BY DEF Retry
<1> HIDE DEF q
<1> QED BY <1>2, <1>3, <1>4, ReadSInv

\* What is concluded of a signal in hand, and what is then to be saved
LEMMA ConcludedIs ==
  ASSUME SInv, NEW r \in FactRequests, NEW status \in {"PENDING", "NORMALIZED", "REJECTED", "IGNORED"},
         NEW claimed \in SUBSET Links, factReq[r].pc \in {"resolve", "STATION_EVENT", "MEASUREMENT"},
         Concluded(r, status, claimed)
  PROVE  \E q \in FactRequest :
           /\ factReq' = [factReq EXCEPT ![r] = q]
           /\ q.pc = "save" /\ q.of = factReq[r].of /\ q.row.status = status
           /\ claimed \subseteq q.row.links
<1> DEFINE p == factReq[r]
           q == [pc |-> "save", of |-> p.of,
                 row |-> [status |-> status, links |-> p.row.links \union claimed]]
<1>1. p.of \in Readings /\ p.row \in Row BY FactCarries
<1>2. q.row \in Row BY <1>1 DEF Row
<1>3. q \in FactRequest BY <1>1, <1>2 DEF FactRequest
<1>4. factReq' = [factReq EXCEPT ![r] = q] BY DEF Concluded
<1> QED BY <1>3, <1>4

\* A rule that ignores, refuses or does not fit claims no fact.
LEMMA JudgeSInv ==
  ASSUME SInv, NEW r \in FactRequests,
         Refuse(r) \/ \E outcome \in RuleOutcomes : ApplyRule(r, outcome)
  PROVE  SInv'
<1>1. CASE \E outcome \in {"STATION_EVENT", "MEASUREMENT"} : factReq' = [factReq EXCEPT ![r].pc = outcome]
                                                              /\ ApplyRule(r, outcome)
  <2> PICK outcome \in {"STATION_EVENT", "MEASUREMENT"} :
        factReq' = [factReq EXCEPT ![r].pc = outcome] /\ ApplyRule(r, outcome)
    BY <1>1
  <2> DEFINE q == [factReq[r] EXCEPT !.pc = outcome]
  <2>1. factReq[r] \in [pc : {"resolve", "STATION_EVENT", "MEASUREMENT", "save"},
                        of : Readings, row : Row]
    BY FactCarries DEF ApplyRule
  <2>2. q \in [pc : {"resolve", "STATION_EVENT", "MEASUREMENT", "save"}, of : Readings, row : Row]
        /\ q.pc = outcome
    BY <2>1
  <2>3. factReq' = [factReq EXCEPT ![r] = q] OBVIOUS
  <2> HIDE DEF q
  <2>4. Sound(q) /\ q \in FactRequest BY <2>2 DEF Sound, FactRequest
  <2>5. UNCHANGED <<signal, mes, measured, published, delivered, snapshots, counted>>
    BY DEF ApplyRule
  <2> QED BY <2>2, <2>3, <2>4, <2>5, ReadSInv
<1>2. ASSUME NEW status \in {"PENDING", "REJECTED", "IGNORED"}, Concluded(r, status, {}),
             factReq[r].pc \in {"resolve", "STATION_EVENT", "MEASUREMENT"},
             UNCHANGED <<signal, mes, measured, published, delivered, snapshots, counted>>
      PROVE  SInv'
  <2>1. PICK q \in FactRequest : /\ factReq' = [factReq EXCEPT ![r] = q]
                                 /\ q.pc = "save" /\ q.row.status = status
    BY <1>2, ConcludedIs
  <2>2. Sound(q) BY <2>1 DEF Sound, Claim
  <2> QED BY <1>2, <2>1, <2>2, ReadSInv
<1>3. CASE Refuse(r) BY <1>2, <1>3 DEF Refuse
<1>4. CASE \E outcome \in RuleOutcomes : ApplyRule(r, outcome)
  BY <1>1, <1>2, <1>4 DEF ApplyRule
<1> QED BY <1>3, <1>4

\* The MES judges a message once: what it has processed stays processed, and only of that
\* the signal is to be saved as normalised.
LEMMA InboundSInv == ASSUME SInv, NEW r \in FactRequests, InboundEvent(r) PROVE SInv'
<1> DEFINE s == factReq[r].of
<1>1. PICK verdict \in IF mes[s] = "ABSENT" THEN {"PROCESSED", "REJECTED"} ELSE {mes[s]} :
        /\ mes' = [mes EXCEPT ![s] = verdict]
        /\ Concluded(r, IF verdict = "PROCESSED" THEN "NORMALIZED" ELSE "REJECTED",
                     {"inbound_event"})
  BY DEF InboundEvent
<1>2. s \in Readings BY FactCarries DEF InboundEvent
<1>3. mes \in [Readings -> {"ABSENT", "PROCESSED", "REJECTED"}] BY DEF SInv, SignalFactsTypeOK
<1>4. verdict \in {"PROCESSED", "REJECTED"} /\ (mes[s] = "PROCESSED" => verdict = "PROCESSED")
  BY <1>1, <1>2, <1>3
<1>5. UNCHANGED <<signal, measured, published, delivered, snapshots, counted>> BY DEF InboundEvent
<1> HIDE DEF s
<1>6. /\ mes' \in [Readings -> {"ABSENT", "PROCESSED", "REJECTED"}] /\ mes'[s] = verdict
      /\ \A t \in Readings : mes[t] = "PROCESSED" => mes'[t] = "PROCESSED"
  BY <1>1, <1>2, <1>3, <1>4
<1>7. PICK q \in FactRequest :
        /\ factReq' = [factReq EXCEPT ![r] = q]
        /\ q.pc = "save" /\ q.of = s /\ {"inbound_event"} \subseteq q.row.links
        /\ q.row.status = IF verdict = "PROCESSED" THEN "NORMALIZED" ELSE "REJECTED"
  BY <1>1, ConcludedIs DEF InboundEvent, Links, s
<1>8. Sound(q)' BY <1>6, <1>7 DEF Sound, Claim
<1>9. /\ factReq' \in [FactRequests -> FactRequest \union {NoFactReq}]
      /\ \A t \in FactRequests : Sound(factReq[t])'
      /\ Inserting' \subseteq Inserting
  BY <1>5, <1>6, <1>7, <1>8, GoesOn
<1>10. SignalFactsTypeOK' BY <1>5, <1>6, <1>9 DEF SInv, SignalFactsTypeOK
<1>11. NormalizedHasFact' BY <1>5, <1>6 DEF SInv, NormalizedHasFact
<1>12. DeliveredWasCounted' /\ FewSnapshots'
  BY <1>5, <1>9, NoneInserted DEF SInv, DeliveredWasCounted
<1> QED BY <1>9, <1>10, <1>11, <1>12 DEF SInv

\* A measurement is there before the signal is saved as normalised by it.
LEMMA MeasureSInv == ASSUME SInv, NEW r \in FactRequests, Measure(r) PROVE SInv'
<1> DEFINE s == factReq[r].of
<1>1. s \in Readings BY FactCarries DEF Measure
<1>2. measured \in [Readings -> 0 .. MaxMeasured] BY DEF SInv, SignalFactsTypeOK
<1>3. measured[s] < MaxMeasured /\ measured' = [measured EXCEPT ![s] = @ + 1]
      /\ UNCHANGED <<signal, mes, published, delivered, snapshots, counted>>
  BY DEF Measure
<1> HIDE DEF s
<1>4. /\ measured' \in [Readings -> 0 .. MaxMeasured] /\ measured'[s] > 0
      /\ \A t \in Readings : measured[t] > 0 => measured'[t] > 0
  BY <1>1, <1>2, <1>3
<1>5. PICK q \in FactRequest :
        /\ factReq' = [factReq EXCEPT ![r] = q]
        /\ q.pc = "save" /\ q.of = s /\ {"measurement"} \subseteq q.row.links
  BY ConcludedIs DEF Measure, Links, s
<1>6. Sound(q)' BY <1>4, <1>5 DEF Sound, Claim
<1>7. /\ factReq' \in [FactRequests -> FactRequest \union {NoFactReq}]
      /\ \A t \in FactRequests : Sound(factReq[t])'
      /\ Inserting' \subseteq Inserting
  BY <1>3, <1>4, <1>5, <1>6, GoesOn
<1>8. SignalFactsTypeOK' BY <1>3, <1>4, <1>7 DEF SInv, SignalFactsTypeOK
<1>9. NormalizedHasFact' BY <1>3, <1>4 DEF SInv, NormalizedHasFact
<1>10. DeliveredWasCounted' /\ FewSnapshots'
  BY <1>3, <1>7, NoneInserted DEF SInv, DeliveredWasCounted
<1> QED BY <1>7, <1>8, <1>9, <1>10 DEF SInv

\* The row that is saved over the signal's has the fact that it claims.
LEMMA SaveSInv == ASSUME SInv, NEW r \in FactRequests, SaveSignal(r) PROVE SInv'
<1> PICK p : p = factReq[r] OBVIOUS
<1> DEFINE s == p.of
           row == p.row
           q == IF row.status = "NORMALIZED" THEN [pc |-> "emit", of |-> s] ELSE NoFactReq
<1>1. s \in Readings /\ row \in Row /\ Claim(s, row)
  BY FactCarries DEF SaveSignal, Sound
<1>2. signal' = [signal EXCEPT ![s] = row] /\ factReq' = [factReq EXCEPT ![r] = q]
      /\ UNCHANGED <<mes, measured, published, delivered, snapshots, counted>>
  BY DEF SaveSignal, Ends
<1>3. q \in FactRequest \union {NoFactReq} /\ q.pc # "insert"
  BY <1>1 DEF FactRequest, NoFactReq
<1>4. Sound(q)' BY <1>1, <1>2 DEF Sound, Claim, Accepted, NoFactReq
<1> HIDE DEF s, row, q
<1>5. /\ factReq' \in [FactRequests -> FactRequest \union {NoFactReq}]
      /\ \A t \in FactRequests : Sound(factReq[t])'
      /\ Inserting' \subseteq Inserting
  BY <1>2, <1>3, <1>4, GoesOn
<1>6. SignalFactsTypeOK' BY <1>1, <1>2, <1>5 DEF SInv, SignalFactsTypeOK
<1>7. NormalizedHasFact'
  BY <1>1, <1>2 DEF SInv, SignalFactsTypeOK, NormalizedHasFact, Claim
<1>8. DeliveredWasCounted' /\ FewSnapshots'
  BY <1>2, <1>5, NoneInserted DEF SInv, DeliveredWasCounted
<1> QED BY <1>5, <1>6, <1>7, <1>8 DEF SInv

\* Only of an accepted signal it is published that it was normalised.
LEMMA PublishSInv ==
  ASSUME SInv, (\E r \in FactRequests : Emit(r)) \/ (\E m \in Moves : MovementPublished(m))
  PROVE  SInv'
<1>1. CASE \E r \in FactRequests : Emit(r)
  <2> PICK r \in FactRequests : Emit(r) BY <1>1
  <2> DEFINE s == factReq[r].of
  <2>1. s \in Readings /\ Accepted(s) BY FactCarries DEF Emit, Sound
  <2>2. published' \in {published, published \union {s}}
        /\ factReq' = [factReq EXCEPT ![r] = NoFactReq]
        /\ UNCHANGED <<signal, mes, measured, delivered, snapshots, counted>>
    BY DEF Emit, Published, Ends
  <2> HIDE DEF s
  <2>3. Sound(NoFactReq)' /\ NoFactReq.pc # "insert" BY DEF Sound, NoFactReq
  <2>4. /\ factReq' \in [FactRequests -> FactRequest \union {NoFactReq}]
        /\ \A t \in FactRequests : Sound(factReq[t])'
        /\ Inserting' \subseteq Inserting
    BY <2>2, <2>3, GoesOn
  <2>5. SignalFactsTypeOK' BY <2>1, <2>2, <2>4 DEF SInv, SignalFactsTypeOK, Events
  <2>6. NormalizedHasFact' BY <2>1, <2>2 DEF SInv, NormalizedHasFact, Accepted
  <2>7. DeliveredWasCounted' /\ FewSnapshots'
    BY <2>2, <2>4, NoneInserted DEF SInv, DeliveredWasCounted
  <2> QED BY <2>4, <2>5, <2>6, <2>7 DEF SInv
<1>2. CASE \E m \in Moves : MovementPublished(m)
  <2> PICK m \in Moves : MovementPublished(m) BY <1>2
  <2>1. published' \in {published, published \union {m}} /\ m \notin Readings
        /\ UNCHANGED <<signal, mes, measured, delivered, snapshots, counted, factReq>>
    BY DEF MovementPublished, Published
  <2> QED
    <3>1. Inserting' = Inserting BY <2>1 DEF Inserting
    <3>2. \A t \in FactRequests : Sound(factReq[t])'
      <4> SUFFICES ASSUME NEW t \in FactRequests PROVE Sound(factReq[t])' OBVIOUS
      <4>1. factReq[t] \in FactRequest \union {NoFactReq} /\ Sound(factReq[t])
        BY FactCarries
      <4>2. factReq'[t] = factReq[t] BY <2>1
      <4> DEFINE p == factReq[t]
      <4>3. Sound(p)' BY <2>1, <4>1, <4>2, StaysSound
      <4> QED BY <4>3
    <3>3. SignalFactsTypeOK' BY <2>1 DEF SInv, SignalFactsTypeOK, Events
    <3>4. NormalizedHasFact' BY <2>1 DEF SInv, NormalizedHasFact
    <3>5. DeliveredWasCounted' /\ FewSnapshots'
      BY <2>1, <3>1, NoneInserted DEF SInv, DeliveredWasCounted
    <3> QED BY <3>2, <3>3, <3>4, <3>5 DEF SInv
<1> QED BY <1>1, <1>2

\* A rebuild is begun for what was published, and has then counted it.
LEMMA RebuildSInv ==
  ASSUME SInv, NEW r \in FactRequests,
         Rebuild(r) \/ Count(r) \/ \E e \in Events : DispatchRebuild(r, e)
  PROVE  SInv'
<1>0. published \subseteq Events BY DEF SInv, SignalFactsTypeOK
<1>1. CASE Rebuild(r)
  <2> DEFINE q == [pc |-> "count", of |-> NoFact]
  <2>1. q \in FactRequest /\ Sound(q) /\ q.pc # "insert" BY DEF FactRequest, Sound
  <2>2. factReq' = [factReq EXCEPT ![r] = q]
        /\ UNCHANGED <<signal, mes, measured, published, delivered, snapshots, counted>>
    BY <1>1 DEF Rebuild
  <2> HIDE DEF q
  <2> QED BY <2>1, <2>2, ReadSInv
<1>2. CASE \E e \in Events : DispatchRebuild(r, e)
  <2> PICK e \in Events : DispatchRebuild(r, e) BY <1>2
  <2> DEFINE q == [pc |-> "count", of |-> e]
  <2>1. q \in FactRequest /\ Sound(q) /\ q.pc # "insert" BY DEF FactRequest, Sound, DispatchRebuild
  <2>2. factReq' = [factReq EXCEPT ![r] = q]
        /\ UNCHANGED <<signal, mes, measured, published, delivered, snapshots, counted>>
    BY DEF DispatchRebuild
  <2> HIDE DEF q
  <2> QED BY <2>1, <2>2, ReadSInv
<1>3. CASE Count(r)
  <2> DEFINE p == factReq[r]
             q == [pc |-> "look", of |-> p.of, seen |-> published]
  <2>1. p.of \in Events \union {NoFact} /\ (p.of # NoFact => p.of \in published)
    BY <1>3, FactCarries DEF Count, Sound
  <2>2. q \in FactRequest /\ Sound(q) /\ q.pc # "insert" BY <1>0, <2>1 DEF FactRequest, Sound
  <2>3. factReq' = [factReq EXCEPT ![r] = q]
        /\ UNCHANGED <<signal, mes, measured, published, delivered, snapshots, counted>>
    BY <1>3 DEF Count
  <2> HIDE DEF q
  <2> QED BY <2>2, <2>3, ReadSInv
<1> QED BY <1>1, <1>2, <1>3

\* Of a rebuild that is over, a delivery is left to be saved or nothing.
LEMMA RebuiltIs ==
  ASSUME SInv, NEW r \in FactRequests, NEW ok \in BOOLEAN, Rebuilt(r, ok),
         factReq[r].pc \in {"look", "insert"}, ok => factReq[r].seen \subseteq counted',
         published \subseteq published'
  PROVE  \E q \in FactRequest \union {NoFactReq} :
           factReq' = [factReq EXCEPT ![r] = q] /\ Sound(q)' /\ q.pc # "insert"
<1> PICK p : p = factReq[r] OBVIOUS
<1>1. /\ p.of \in Events \union {NoFact} /\ p.seen \subseteq published
      /\ p.of # NoFact => p.of \in p.seen
  BY FactCarries DEF Sound
<1>2. CASE p.of = NoFact
  <2>1. factReq' = [factReq EXCEPT ![r] = NoFactReq] BY <1>2 DEF Rebuilt, Ends
  <2>2. Sound(NoFactReq)' /\ NoFactReq.pc # "insert" BY DEF Sound, NoFactReq
  <2> QED BY <2>1, <2>2
<1>3. CASE p.of # NoFact
  <2> DEFINE q == [pc |-> "deliver", of |-> p.of, ok |-> ok]
  <2>1. q \in FactRequest BY <1>1, <1>3 DEF FactRequest
  <2>2. factReq' = [factReq EXCEPT ![r] = q] BY <1>3 DEF Rebuilt
  <2>3. p.of \in published' /\ (ok => p.of \in counted') BY <1>1, <1>3
  <2>4. Sound(q)' BY <2>3 DEF Sound
  <2>5. q.pc # "insert" OBVIOUS
  <2> HIDE DEF q
  <2> QED BY <2>1, <2>2, <2>4, <2>5
<1> QED BY <1>2, <1>3

\* The snapshot is locked and written, inserted by and by, or there are two and it fails.
LEMMA LookSInv == ASSUME SInv, NEW r \in FactRequests, Look(r) PROVE SInv'
<1>1. UNCHANGED <<signal, mes, measured, published, delivered, snapshots>> BY DEF Look
<1>2. CASE snapshots = 0
  <2> DEFINE q == [factReq[r] EXCEPT !.pc = "insert"]
  <2>1. /\ factReq[r] \in [pc : {"look", "insert"}, of : Events \union {NoFact}, seen : SUBSET Events]
        /\ Sound(factReq[r]) /\ factReq[r].pc = "look"
    BY FactCarries DEF Look
  <2>2. q \in [pc : {"look", "insert"}, of : Events \union {NoFact}, seen : SUBSET Events]
        /\ q.pc = "insert" /\ q.of = factReq[r].of /\ q.seen = factReq[r].seen
    BY <2>1
  <2>3. factReq' = [factReq EXCEPT ![r] = q] /\ UNCHANGED counted
    BY <1>2 DEF Look
  <2> HIDE DEF q
  <2>4. q \in FactRequest /\ Sound(q) BY <2>1, <2>2 DEF FactRequest, Sound
  <2> QED BY <1>1, <1>2, <2>3, <2>4, ReadSInv
<1>3. CASE snapshots # 0
  <2>1. PICK ok \in BOOLEAN : Rebuilt(r, ok) /\ counted' = IF ok THEN counted \union factReq[r].seen
                                                                 ELSE counted
    BY <1>3 DEF Look
  <2>2. factReq[r].pc = "look" /\ factReq[r].seen \subseteq published
    BY FactCarries DEF Look, Sound
  <2>3. PICK q \in FactRequest \union {NoFactReq} :
          factReq' = [factReq EXCEPT ![r] = q] /\ Sound(q)' /\ q.pc # "insert"
    BY <1>1, <2>1, <2>2, RebuiltIs
  <2>4. /\ factReq' \in [FactRequests -> FactRequest \union {NoFactReq}]
        /\ \A t \in FactRequests : Sound(factReq[t])'
        /\ Inserting' \subseteq Inserting
    BY <1>1, <2>1, <2>3, GoesOn
  <2>5. SignalFactsTypeOK' BY <1>1, <2>1, <2>2, <2>4 DEF SInv, SignalFactsTypeOK
  <2>6. NormalizedHasFact' BY <1>1 DEF SInv, NormalizedHasFact
  <2>7. DeliveredWasCounted' BY <1>1, <2>1 DEF SInv, DeliveredWasCounted
  <2>8. FewSnapshots' BY <1>1, <2>4, NoneInserted
  <2> QED BY <2>4, <2>5, <2>6, <2>7, <2>8 DEF SInv
<1> QED BY <1>2, <1>3

\* Whoever found no snapshot inserts one: it was one of the requests under way then.
LEMMA InsertSInv == ASSUME SInv, NEW r \in FactRequests, Insert(r) PROVE SInv'
<1>1. /\ UNCHANGED <<signal, mes, measured, published, delivered>>
      /\ snapshots' = snapshots + 1 /\ counted' = counted \union factReq[r].seen
      /\ Rebuilt(r, TRUE) /\ factReq[r].pc = "insert" /\ factReq[r].seen \subseteq published
  BY FactCarries DEF Insert, Sound
<1>2. PICK q \in FactRequest \union {NoFactReq} :
        factReq' = [factReq EXCEPT ![r] = q] /\ Sound(q)' /\ q.pc # "insert"
  BY <1>1, RebuiltIs
<1>3. /\ factReq' \in [FactRequests -> FactRequest \union {NoFactReq}]
      /\ \A t \in FactRequests : Sound(factReq[t])'
      /\ Inserting' = Inserting \ {r}
  BY <1>1, <1>2, GoesOn
<1>4. r \in Inserting /\ IsFiniteSet(Inserting)
  BY <1>1, FS_Subset DEF Inserting
<1>5. /\ Cardinality(Inserting) <= Cardinality(FactRequests)
      /\ Cardinality(Inserting) \in Nat /\ Cardinality(FactRequests) \in Nat
      /\ Cardinality(Inserting') = Cardinality(Inserting) - 1 /\ Cardinality(Inserting') \in Nat
  <2>1. Inserting \subseteq FactRequests BY DEF Inserting
  <2>2. Cardinality(Inserting) <= Cardinality(FactRequests) BY <2>1, FS_Subset
  <2>3. IsFiniteSet(Inserting') BY <1>3, <1>4, FS_RemoveElement
  <2>4. Cardinality(Inserting') = Cardinality(Inserting) - 1
    BY <1>3, <1>4, FS_RemoveElement
  <2> QED BY <1>4, <2>2, <2>3, <2>4, FS_CardinalityType
<1>6. snapshots \in Nat BY <1>5 DEF SInv, SignalFactsTypeOK
<1>7. FewSnapshots' BY <1>1, <1>5, <1>6 DEF SInv, FewSnapshots
<1>8. snapshots' \in 0 .. Cardinality(FactRequests)
  BY <1>1, <1>5, <1>6 DEF SInv, FewSnapshots
<1>9. SignalFactsTypeOK' BY <1>1, <1>3, <1>8 DEF SInv, SignalFactsTypeOK
<1>10. NormalizedHasFact' /\ DeliveredWasCounted'
  BY <1>1 DEF SInv, NormalizedHasFact, DeliveredWasCounted
<1> QED BY <1>3, <1>7, <1>9, <1>10 DEF SInv

\* The delivery is saved as the rebuild that ended left it.
LEMMA DeliverSInv == ASSUME SInv, NEW r \in FactRequests, Deliver(r) PROVE SInv'
<1> DEFINE p == factReq[r]
<1>1. /\ p.of \in published /\ (p.ok => p.of \in counted)
      /\ delivered' = IF p.ok THEN delivered \union {p.of} ELSE delivered \ {p.of}
      /\ UNCHANGED <<signal, mes, measured, published, snapshots, counted>>
  BY FactCarries DEF Deliver, Sound
<1>2. factReq' = [factReq EXCEPT ![r] = NoFactReq] BY DEF Deliver, Ends
<1>3. Sound(NoFactReq)' /\ NoFactReq.pc # "insert" BY DEF Sound, NoFactReq
<1>4. /\ factReq' \in [FactRequests -> FactRequest \union {NoFactReq}]
      /\ \A t \in FactRequests : Sound(factReq[t])'
      /\ Inserting' \subseteq Inserting
  BY <1>1, <1>2, <1>3, GoesOn
<1> HIDE DEF p
<1>5. SignalFactsTypeOK' BY <1>1, <1>4 DEF SInv, SignalFactsTypeOK
<1>6. NormalizedHasFact' BY <1>1 DEF SInv, NormalizedHasFact
<1>7. DeliveredWasCounted' /\ FewSnapshots'
  BY <1>1, <1>4, NoneInserted DEF SInv, DeliveredWasCounted
<1> QED BY <1>4, <1>5, <1>6, <1>7 DEF SInv

\* Every step keeps the invariant.
LEMMA StepSInv == SInv /\ [SignalFactsNext]_factVars => SInv'
<1> SUFFICES ASSUME SInv, [SignalFactsNext]_factVars PROVE SInv' OBVIOUS
<1>1. CASE NormaliseStep
  BY <1>1, StoreSInv, RetrySInv, JudgeSInv, InboundSInv, MeasureSInv, SaveSInv, PublishSInv
  DEF NormaliseStep
<1>2. CASE IndicatorStep
  BY <1>2, RebuildSInv, LookSInv, InsertSInv, DeliverSInv DEF IndicatorStep
<1>3. CASE \E m \in Moves : MovementPublished(m) BY <1>3, PublishSInv
<1>4. CASE \E r \in FactRequests : FactReqDies(r) BY <1>4, DiesSInv
<1>5. CASE UNCHANGED factVars
  BY <1>5 DEF factVars, SInv, SignalFactsTypeOK, NormalizedHasFact, DeliveredWasCounted,
              Sound, Claim, Accepted, Inserting, FewSnapshots
<1> QED BY <1>1, <1>2, <1>3, <1>4, <1>5 DEF SignalFactsNext

\* The inductive invariant of what becomes of a signal: what each request is about to write
\* is already so, and the snapshots are at most as many as the requests.
THEOREM FactsInvariance == SignalFactsSpec => []SInv
<1> QED BY InitSInv, StepSInv, PTL DEF SignalFactsSpec

\* A signal counts as normalised, and the bus says so, only of what the MES has accepted.
THEOREM NormalizedHasFactHolds == SignalFactsSpec => []NormalizedHasFact
  BY FactsInvariance, PTL DEF SInv

\* An event counts as delivered to the indicators only if a snapshot has counted it.
THEOREM DeliveredWasCountedHolds == SignalFactsSpec => []DeliveredWasCounted
  BY FactsInvariance, PTL DEF SInv
=============================================================================
