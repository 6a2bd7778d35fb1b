---------------------------- MODULE StockLedger ----------------------------
(***************************************************************************)
(* What the WMS stock promises, without transactions and locks: a movement *)
(* is one step, which finds at its source what it takes, finds a serial's  *)
(* destination empty, and changes the balances and the book alike.         *)
(*                                                                         *)
(* It does not promise that a line counts everything received for it (the  *)
(* line is read before the transaction), nor that an exclusive location    *)
(* keeps to one material (another position's balance is read there).       *)
(***************************************************************************)
EXTENDS Integers

CONSTANTS Items, Serials, Slots, Lines, LineItem, LineSlot, Expected, Quantities, NoSlot

VARIABLES
  stock,    \* the balance of each position
  book,     \* what the movements there add up to
  known,    \* serials that were received
  booked,   \* per line, what was received for it
  claimed   \* per line, what the line says was received

ledgerVars == <<stock, book, known, booked, claimed>>

Positions == Items \X Slots

LInit ==
  /\ stock = [p \in Positions |-> 0]
  /\ book = [p \in Positions |-> 0]
  /\ known = {}
  /\ booked = [l \in Lines |-> 0]
  /\ claimed = [l \in Lines |-> 0]

\* What q of item i, moved from src to dst, adds to position p
Net(i, q, src, dst, p) ==
  (IF dst # NoSlot /\ p = <<i, dst>> THEN q ELSE 0)
    - (IF src # NoSlot /\ p = <<i, src>> THEN q ELSE 0)

Move(i, q, src, dst) ==
  /\ src # NoSlot => stock[<<i, src>>] >= q
  /\ i \in Serials => q = 1 /\ (dst # NoSlot => stock[<<i, dst>>] = 0)
  /\ stock' = [p \in Positions |-> stock[p] + Net(i, q, src, dst, p)]
  /\ book' = [p \in Positions |-> book[p] + Net(i, q, src, dst, p)]

\* A transfer, a change of state or an adjustment.  From a slot to itself nothing changes.
Handle(i, q, src, dst) ==
  /\ src # dst
  /\ i \in Serials => i \in known
  /\ Move(i, q, src, dst)
  /\ UNCHANGED <<known, booked, claimed>>

\* A receipt: a serial comes once; the line may count less than was received for it.
Receive(l, q) ==
  /\ LineItem[l] \notin known
  /\ Move(LineItem[l], q, NoSlot, LineSlot[l])
  /\ known' = known \union ({LineItem[l]} \intersect Serials)
  /\ booked' = [booked EXCEPT ![l] = @ + q]
  /\ \E n \in 0 .. booked[l] :
       /\ Expected[l] # 0 => n + q <= Expected[l]
       /\ claimed' = [claimed EXCEPT ![l] = n + q]

LNext ==
  \E q \in Quantities :
    \/ \E l \in Lines : Receive(l, q)
    \/ \E i \in Items, src, dst \in Slots \union {NoSlot} : Handle(i, q, src, dst)

LSpec == LInit /\ [][LNext]_ledgerVars
=============================================================================
