----------------------------- MODULE Inventory -----------------------------
(***************************************************************************)
(* The WMS stock: InventoryBalance rows changed by concurrent movements    *)
(* (wms/services.py).  A movement is one READ COMMITTED transaction that   *)
(* takes the advisory lock of its source position, reads and checks it,    *)
(* checks that the destination may hold the material, takes the lock of    *)
(* the destination position, and commits both balances with the movement.  *)
(*                                                                         *)
(* An item is a material with its lot and serial; a slot is a location     *)
(* with an inventory state; a position is an item in a slot.               *)
(***************************************************************************)
EXTENDS Integers

CONSTANTS
  Items,       \* materials by lot and serial
  Serials,     \* the items that are one serial-traced piece
  MaterialOf,  \* the material of an item
  Slots,       \* locations by inventory state
  LocationOf,  \* the location of a slot
  Exclusive,   \* locations whose profile does not allow mixed materials
  Lines,       \* receipt lines
  LineItem,    \* the item of a receipt line
  LineSlot,    \* where a receipt line is put: its location, in quarantine
  Expected,    \* the expected quantity of a line, 0 for none given
  Quantities,  \* quantities a movement may have: a bound
  MaxBalance,  \* positive adjustments keep to this balance: a bound
  Workers,     \* transactions at once: a bound
  NoItem, NoSlot, NoLine

ASSUME ItemsAssumption == Serials \subseteq Items
ASSUME LinesAssumption == LineItem \in [Lines -> Items] /\ LineSlot \in [Lines -> Slots]
ASSUME ExpectedAssumption == Expected \in [Lines -> Nat]
ASSUME QuantitiesAssumption == Quantities \subseteq Nat \ {0} /\ 1 \in Quantities
ASSUME NoneAssumption == NoItem \notin Items /\ NoSlot \notin Slots /\ NoLine \notin Lines

VARIABLES
  balance,   \* InventoryBalance rows: 0 stands for no row
  ledger,    \* history: per position, what the InventoryMovement rows add up to
  known,     \* MaterialSerial rows
  adjusted,  \* history: serials put somewhere by a positive adjustment
  received,  \* InboundReceiptLine.received_quantity
  receipts,  \* history: per line, what its RECEIPT movements add up to
  tx         \* the transaction of each worker

vars == <<balance, ledger, known, adjusted, received, receipts, tx>>
committed == <<balance, ledger, known, adjusted, received, receipts>>

Positions == Items \X Slots

Stages == {"idle", "serial", "source", "mix", "dest", "ready"}

Tx == [pc : Stages, item : Items \union {NoItem}, qty : Quantities \union {0},
       src : Slots \union {NoSlot}, dst : Slots \union {NoSlot},
       line : Lines \union {NoLine},
       seen : Nat,   \* received_quantity when the request read the line
       left : Nat,   \* the balance read at the source
       right : Nat]  \* the balance read at the destination

Idle == [pc |-> "idle", item |-> NoItem, qty |-> 0, src |-> NoSlot, dst |-> NoSlot,
         line |-> NoLine, seen |-> 0, left |-> 0, right |-> 0]

TypeOK ==
  /\ balance \in [Positions -> Nat]
  /\ ledger \in [Positions -> Int]
  /\ known \subseteq Serials
  /\ adjusted \subseteq Serials
  /\ received \in [Lines -> Nat]
  /\ receipts \in [Lines -> Nat]
  /\ tx \in [Workers -> Tx]

Init ==
  /\ balance = [p \in Positions |-> 0]
  /\ ledger = [p \in Positions |-> 0]
  /\ known = {}
  /\ adjusted = {}
  /\ received = [l \in Lines |-> 0]
  /\ receipts = [l \in Lines |-> 0]
  /\ tx = [w \in Workers |-> Idle]

(***************************************************************************)
(* Starting a movement.                                                    *)
(***************************************************************************)
Begin(w, t) ==
  /\ tx[w].pc = "idle"
  /\ tx' = [tx EXCEPT ![w] = t]
  /\ UNCHANGED committed

Fresh(i, q, src, dst) ==
  [Idle EXCEPT !.pc = IF src = NoSlot THEN "mix" ELSE "source",
               !.item = i, !.qty = q, !.src = src, !.dst = dst]

Movable(i, q) == i \in Serials => q = 1 /\ i \in known

\* transfer_inventory and change_inventory_state
Relocate(w, i, q, src, dst) ==
  /\ Movable(i, q)
  /\ Begin(w, Fresh(i, q, src, dst))

AdjustOut(w, i, q, src) ==
  /\ Movable(i, q)
  /\ Begin(w, Fresh(i, q, src, NoSlot))

AdjustIn(w, i, q, dst) ==
  /\ Movable(i, q)
  /\ \A s \in Slots : balance[<<i, s>>] + q <= MaxBalance
  /\ Begin(w, Fresh(i, q, NoSlot, dst))

\* receive_receipt_line: the line is read and checked before the transaction.
Receive(w, l, q) ==
  /\ Expected[l] # 0 => received[l] + q <= Expected[l]
  /\ LineItem[l] \in Serials => q = 1
  /\ Begin(w, [Fresh(LineItem[l], q, NoSlot, LineSlot[l]) EXCEPT
                 !.pc = IF LineItem[l] \in Serials THEN "serial" ELSE "mix",
                 !.line = l, !.seen = received[l]])

(***************************************************************************)
(* The steps of a transaction.                                             *)
(***************************************************************************)
Source(t) == <<t.item, t.src>>
Destination(t) == <<t.item, t.dst>>

\* Positions whose advisory lock a transaction holds until it ends.
Locks(t) ==
  {p \in Positions :
     \/ t.src # NoSlot /\ p = Source(t) /\ t.pc \in {"mix", "dest", "ready"}
     \/ t.dst # NoSlot /\ p = Destination(t) /\ t.pc = "ready"}

LockFree(w, p) == \A v \in Workers \ {w} : p \notin Locks(tx[v])

Rollback(w) == tx' = [tx EXCEPT ![w] = Idle]

ClaimAnyway(w) ==
  /\ tx[w].pc = "serial"
  /\ tx' = [tx EXCEPT ![w].pc = "mix"]
  /\ UNCHANGED committed

\* get_or_create of the serial: it waits for another insert of it to end.
ClaimSerial(w) ==
  /\ tx[w].pc = "serial"
  /\ \A v \in Workers \ {w} :
       tx[v].line # NoLine /\ tx[v].item = tx[w].item => tx[v].pc = "serial"
  /\ IF tx[w].item \in known
     THEN Rollback(w)
     ELSE tx' = [tx EXCEPT ![w].pc = "mix"]
  /\ UNCHANGED committed

TakeUnlocked(w) ==
  /\ tx[w].pc = "source"
  /\ IF balance[Source(tx[w])] < tx[w].qty
     THEN Rollback(w)
     ELSE tx' = [tx EXCEPT ![w].pc = "mix", ![w].left = balance[Source(tx[w])]]
  /\ UNCHANGED committed

TakeUnchecked(w) ==
  /\ tx[w].pc = "source"
  /\ LockFree(w, Source(tx[w]))
  /\ tx' = [tx EXCEPT ![w].pc = "mix", ![w].left = balance[Source(tx[w])]]
  /\ UNCHANGED committed

\* _decrease
Take(w) ==
  /\ tx[w].pc = "source"
  /\ LockFree(w, Source(tx[w]))
  /\ IF balance[Source(tx[w])] < tx[w].qty
     THEN Rollback(w)
     ELSE tx' = [tx EXCEPT ![w].pc = "mix", ![w].left = balance[Source(tx[w])]]
  /\ UNCHANGED committed

\* _increase: another material in the destination's location, as committed now
Mixes(t) ==
  /\ LocationOf[t.dst] \in Exclusive
  /\ \E p \in Positions : /\ LocationOf[p[2]] = LocationOf[t.dst]
                          /\ MaterialOf[p[1]] # MaterialOf[t.item]
                          /\ balance[p] > 0

CheckMix(w) ==
  /\ tx[w].pc = "mix"
  /\ IF tx[w].dst = NoSlot
     THEN tx' = [tx EXCEPT ![w].pc = "ready"]
     ELSE IF Mixes(tx[w]) THEN Rollback(w) ELSE tx' = [tx EXCEPT ![w].pc = "dest"]
  /\ UNCHANGED committed

\* What the transaction sees at its destination, its own decrease included
AtDestination(t) ==
  IF t.src = t.dst THEN t.left - t.qty ELSE balance[Destination(t)]

PutUnlocked(w) ==
  /\ tx[w].pc = "dest"
  /\ IF tx[w].item \in Serials /\ AtDestination(tx[w]) # 0
     THEN Rollback(w)
     ELSE tx' = [tx EXCEPT ![w].pc = "ready", ![w].right = AtDestination(tx[w])]
  /\ UNCHANGED committed

\* _increase, once it has the lock; a serial's balance may only become 1
Put(w) ==
  /\ tx[w].pc = "dest"
  /\ LockFree(w, Destination(tx[w]))
  /\ IF tx[w].item \in Serials /\ AtDestination(tx[w]) # 0
     THEN Rollback(w)
     ELSE tx' = [tx EXCEPT ![w].pc = "ready", ![w].right = AtDestination(tx[w])]
  /\ UNCHANGED committed

Inflow(t, p) == IF t.dst # NoSlot /\ p = Destination(t) THEN t.qty ELSE 0
Outflow(t, p) == IF t.src # NoSlot /\ p = Source(t) THEN t.qty ELSE 0

CommitAccumulating(w) ==
  LET t == tx[w] IN
  /\ t.pc = "ready"
  /\ balance' = [p \in Positions |->
       IF t.dst # NoSlot /\ p = Destination(t) THEN t.right + t.qty
       ELSE IF t.src # NoSlot /\ p = Source(t) THEN t.left - t.qty
       ELSE balance[p]]
  /\ ledger' = [p \in Positions |-> ledger[p] + Inflow(t, p) - Outflow(t, p)]
  /\ known' = known \union (IF t.line # NoLine /\ t.item \in Serials THEN {t.item} ELSE {})
  /\ adjusted' = adjusted \union
       (IF t.line = NoLine /\ t.src = NoSlot /\ t.item \in Serials THEN {t.item} ELSE {})
  /\ received' = IF t.line = NoLine THEN received
                 ELSE [received EXCEPT ![t.line] = @ + t.qty]
  /\ receipts' = IF t.line = NoLine THEN receipts
                 ELSE [receipts EXCEPT ![t.line] = @ + t.qty]
  /\ Rollback(w)

\* The balances, the movement row and the line commit together; the line's
\* quantity is written from what the request read.
Commit(w) ==
  LET t == tx[w] IN
  /\ t.pc = "ready"
  /\ balance' = [p \in Positions |->
       IF t.dst # NoSlot /\ p = Destination(t) THEN t.right + t.qty
       ELSE IF t.src # NoSlot /\ p = Source(t) THEN t.left - t.qty
       ELSE balance[p]]
  /\ ledger' = [p \in Positions |-> ledger[p] + Inflow(t, p) - Outflow(t, p)]
  /\ known' = known \union (IF t.line # NoLine /\ t.item \in Serials THEN {t.item} ELSE {})
  /\ adjusted' = adjusted \union
       (IF t.line = NoLine /\ t.src = NoSlot /\ t.item \in Serials THEN {t.item} ELSE {})
  /\ received' = IF t.line = NoLine THEN received
                 ELSE [received EXCEPT ![t.line] = t.seen + t.qty]
  /\ receipts' = IF t.line = NoLine THEN receipts
                 ELSE [receipts EXCEPT ![t.line] = @ + t.qty]
  /\ Rollback(w)

\* The worker's connection is lost.
Crash(w) ==
  /\ tx[w].pc # "idle"
  /\ Rollback(w)
  /\ UNCHANGED committed

\* v waits for a lock that w holds.
WaitsFor(v, w) ==
  tx[v].pc = "dest" /\ v # w /\ Destination(tx[v]) \in Locks(tx[w])

\* PostgreSQL finds the transactions that wait for each other in a circle and ends one.
BreakDeadlock(w) ==
  /\ \E circle \in SUBSET Workers :
       /\ w \in circle
       /\ \A v \in circle : /\ \E u \in circle : WaitsFor(v, u)
                            /\ \E u \in circle : WaitsFor(u, v)
  /\ Rollback(w)
  /\ UNCHANGED committed

Start(w) ==
  \/ \E l \in Lines, q \in Quantities : Receive(w, l, q)
  \/ \E i \in Items, q \in Quantities, s \in Slots :
       \/ AdjustOut(w, i, q, s)
       \/ AdjustIn(w, i, q, s)
       \/ \E d \in Slots : Relocate(w, i, q, s, d)

Work(w) == ClaimSerial(w) \/ Take(w) \/ CheckMix(w) \/ Put(w) \/ Commit(w)

Next == \E w \in Workers : Start(w) \/ Work(w) \/ Crash(w) \/ BreakDeadlock(w)

Spec == Init /\ [][Next]_vars

(***************************************************************************)
(* Properties that hold.                                                   *)
(***************************************************************************)
\* The balances are what the movements add up to, whoever moves what at once
\* (record_movement: the immutable book and its projection, under lock).
LedgerMatches == \A p \in Positions : balance[p] = ledger[p]

\* No position is overdrawn by two movements that both saw the stock.
NeverOverdrawn == \A p \in Positions : ledger[p] >= 0

\* A piece with a serial is in one slot at most, unless a positive adjustment put it
\* somewhere: it is received once, and a movement takes it from where it is.
SerialInOneSlot ==
  \A i \in Serials \ adjusted : \A s, d \in Slots :
    balance[<<i, s>>] > 0 /\ balance[<<i, d>>] > 0 => s = d

\* A line never claims more than was moved in for it, nor than it expects.
LineBacked ==
  \A l \in Lines : /\ received[l] <= receipts[l]
                   /\ Expected[l] # 0 => received[l] <= Expected[l]

\* Whatever transactions read, wait for and lose in between, what they commit is one movement
\* of the stock at a time, each with what it needs there (transaction.atomic and lock_series).
Ledger == INSTANCE StockLedger
            WITH stock <- balance, book <- ledger, booked <- receipts, claimed <- received
MovesAtOnce == Ledger!LSpec

(***************************************************************************)
(* What the code says and does not do.                                     *)
(***************************************************************************)
\* wms/services.py:201: no more is received than the line expects.
ReceivedWithinExpected ==
  \A l \in Lines : Expected[l] # 0 => receipts[l] <= Expected[l]
=============================================================================
