------------------------------ MODULE PokaYoke ------------------------------
(***************************************************************************)
(* A component is scanned at a station: process_component_scan checks the  *)
(* scan, then installs the component, takes it from the stock, and records *)
(* the consumption and the attempt in one transaction (wms/services.py).   *)
(*                                                                         *)
(* The checks read before the transaction and lock nothing.  Transactions  *)
(* of two scans follow each other, as each begins by taking the lock of    *)
(* the consumptions' code; the stock is locked and read again in it, what  *)
(* is installed already is not.                                            *)
(*                                                                         *)
(* One unit, one requirement of its current step, one material and one     *)
(* location; a scan is of one piece.                                       *)
(***************************************************************************)
EXTENDS Integers, FiniteSets, FiniteSetsExt

CONSTANTS
  Scans,         \* references of scans
  ScanRequests,  \* requests at once: a bound
  Required,      \* RouteStepComponentRequirement.quantity_required
  MaxStock,      \* pieces at the location: a bound
  MaxByHand      \* components registered by hand: a bound

ASSUME PokaYokeAssumption ==
  /\ IsFiniteSet(Scans)
  /\ {Required, MaxStock, MaxByHand} \subseteq Nat

VARIABLES
  working,    \* the unit's last event at the station is STARTED or RESUMED
  stock,      \* InventoryBalance.quantity of the material at the location
  outside,    \* history: pieces that other movements brought, less those they took
  consumed,   \* [Scans -> consumptions recorded, each with its component and movement]
  byHand,     \* components of the unit registered without a scan
  attempt,    \* [Scans -> PokaYokeAttempt.result, "NONE" while there is none]
  crossed,    \* history: two requests were between their checks and their end at once
  scanReq     \* what each request is about to do

scanVars == <<working, stock, outside, consumed, byHand, attempt, crossed, scanReq>>

Results == {"ACCEPTED", "REJECTED"}
NoScan == [does |-> "nothing"]
ScanRequest == [does : {"install", "reject"}, scan : Scans]

PokaYokeTypeOK ==
  /\ working \in BOOLEAN /\ crossed \in BOOLEAN
  /\ stock \in 0..MaxStock /\ outside \in Int /\ byHand \in 0..MaxByHand
  /\ consumed \in [Scans -> Nat]
  /\ attempt \in [Scans -> Results \union {"NONE"}]
  /\ scanReq \in [ScanRequests -> ScanRequest \union {NoScan}]

PokaYokeInit ==
  /\ working = FALSE
  /\ stock = 0 /\ outside = 0 /\ byHand = 0
  /\ consumed = [x \in Scans |-> 0]
  /\ attempt = [x \in Scans |-> "NONE"]
  /\ crossed = FALSE
  /\ scanReq = [r \in ScanRequests |-> NoScan]

Consumed == MapThenSumSet(LAMBDA x : consumed[x], Scans)

\* The checks without what is installed already
FitsAny == working /\ stock >= 1

\* The checks: the unit is worked on, there is stock, and the piece is still required.
Fits ==
  /\ working
  /\ stock >= 1
  /\ Consumed + byHand + 1 <= Required

\* A reference that has an attempt is answered with it and nothing is written.
Scan(r, x) ==
  /\ scanReq[r] = NoScan
  /\ attempt[x] = "NONE"
  /\ scanReq' = [scanReq EXCEPT ![r] = [does |-> IF Fits THEN "install" ELSE "reject", scan |-> x]]
  /\ crossed' = (crossed \/ \E s \in ScanRequests : scanReq[s] # NoScan)
  /\ UNCHANGED <<working, stock, outside, consumed, byHand, attempt>>

\* The transaction without the unique reference of an attempt
InstallAgain(r) ==
  /\ scanReq[r].does = "install"
  /\ stock >= 1
  /\ stock' = stock - 1
  /\ consumed' = [consumed EXCEPT ![scanReq[r].scan] = @ + 1]
  /\ attempt' = [attempt EXCEPT ![scanReq[r].scan] = "ACCEPTED"]
  /\ scanReq' = [scanReq EXCEPT ![r] = NoScan]
  /\ UNCHANGED <<working, outside, byHand, crossed>>

\* The transaction that does not look at the stock again under its lock
InstallUnchecked(r) ==
  /\ scanReq[r].does = "install"
  /\ attempt[scanReq[r].scan] = "NONE"
  /\ stock' = stock - 1
  /\ consumed' = [consumed EXCEPT ![scanReq[r].scan] = @ + 1]
  /\ attempt' = [attempt EXCEPT ![scanReq[r].scan] = "ACCEPTED"]
  /\ scanReq' = [scanReq EXCEPT ![r] = NoScan]
  /\ UNCHANGED <<working, outside, byHand, crossed>>

\* install_component, record_movement, the consumption and the attempt, all or nothing:
\* the attempt is last, and its reference unique.
Install(r) ==
  /\ scanReq[r].does = "install"
  /\ stock >= 1
  /\ attempt[scanReq[r].scan] = "NONE"
  /\ stock' = stock - 1
  /\ consumed' = [consumed EXCEPT ![scanReq[r].scan] = @ + 1]
  /\ attempt' = [attempt EXCEPT ![scanReq[r].scan] = "ACCEPTED"]
  /\ scanReq' = [scanReq EXCEPT ![r] = NoScan]
  /\ UNCHANGED <<working, outside, byHand, crossed>>

\* The transaction is rolled back: the stock went, or the reference came.
Refused(r) ==
  /\ scanReq[r].does = "install"
  /\ stock = 0 \/ attempt[scanReq[r].scan] # "NONE"
  /\ scanReq' = [scanReq EXCEPT ![r].does = "reject"]
  /\ UNCHANGED <<working, stock, outside, consumed, byHand, attempt, crossed>>

\* _record_poka_yoke_rejection that writes over the attempt of its reference
RejectOver(r) ==
  /\ scanReq[r].does = "reject"
  /\ attempt' = [attempt EXCEPT ![scanReq[r].scan] = "REJECTED"]
  /\ scanReq' = [scanReq EXCEPT ![r] = NoScan]
  /\ UNCHANGED <<working, stock, outside, consumed, byHand, crossed>>

\* _record_poka_yoke_rejection: a reference that has an attempt raises once more.
Reject(r) ==
  /\ scanReq[r].does = "reject"
  /\ attempt' = [attempt EXCEPT ![scanReq[r].scan] = IF @ = "NONE" THEN "REJECTED" ELSE @]
  /\ scanReq' = [scanReq EXCEPT ![r] = NoScan]
  /\ UNCHANGED <<working, stock, outside, consumed, byHand, crossed>>

ScanDies(r) ==
  /\ scanReq[r] # NoScan
  /\ scanReq' = [scanReq EXCEPT ![r] = NoScan]
  /\ UNCHANGED <<working, stock, outside, consumed, byHand, attempt, crossed>>

\* Another movement of the material (Inventory)
Move(pieces) ==
  /\ stock + pieces \in 0..MaxStock
  /\ stock' = stock + pieces
  /\ outside' = outside + pieces
  /\ UNCHANGED <<working, consumed, byHand, attempt, crossed, scanReq>>

\* InstalledComponentCreateView: neither the stock nor what is required is looked at.
RegisterByHand ==
  /\ byHand < MaxByHand
  /\ byHand' = byHand + 1
  /\ UNCHANGED <<working, stock, outside, consumed, attempt, crossed, scanReq>>

\* The unit is started, paused or completed at the station (StationIntake).
StationEvent ==
  /\ working' = ~ working
  /\ UNCHANGED <<stock, outside, consumed, byHand, attempt, crossed, scanReq>>

PokaYokeNext ==
  \/ \E pieces \in {-1, 1} : Move(pieces)
  \/ RegisterByHand
  \/ StationEvent
  \/ \E r \in ScanRequests :
       \/ \E x \in Scans : Scan(r, x)
       \/ Install(r) \/ Refused(r) \/ Reject(r) \/ ScanDies(r)

PokaYokeSpec == PokaYokeInit /\ [][PokaYokeNext]_scanVars

(***************************************************************************)
(* Properties that hold.                                                   *)
(***************************************************************************)
\* A scan happens as a whole and once: a reference that is scanned again, also at the same
\* time and also after its request died, installs at most one piece, its attempt says what
\* came of it, and the stock has lost exactly the pieces that the accepted scans consumed,
\* although a scan may be refused after it has taken its piece.
ScanOnce ==
  /\ \A x \in Scans : consumed[x] = IF attempt[x] = "ACCEPTED" THEN 1 ELSE 0
  /\ stock = outside - Consumed

\* As long as scans come one at a time the unit never gets more pieces by them than are
\* required; two at once may both be told that one more is needed.
ScansWithinRequired == ~ crossed => Consumed <= Required
=============================================================================
