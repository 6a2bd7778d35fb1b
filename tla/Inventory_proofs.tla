--------------------------- MODULE Inventory_proofs ---------------------------
(***************************************************************************)
(* For any number of movements at once: the balances are what the          *)
(* movements add up to and are never negative, a piece with a serial is in *)
(* one slot, and a receipt line claims no more than was moved in for it.   *)
(*                                                                         *)
(* What a transaction has read under its locks is still so when it         *)
(* commits, and a serial that is being received has been received by       *)
(* nobody and is being received by nobody else.  Hence every commit is one *)
(* movement of StockLedger.                                                *)
(***************************************************************************)
EXTENDS Inventory, TLAPS

\* A transaction that has its item's locks: from the check of the mix on
Claiming == {"mix", "dest", "ready"}

\* The shape of a movement: what it moves and whence or whither.
Shape(t) ==
  t.pc # "idle" =>
    /\ t.item \in Items /\ t.qty \in Quantities
    /\ t.item \in Serials => t.qty = 1
    /\ t.src # NoSlot \/ t.dst # NoSlot
    /\ t.pc = "serial" => t.line # NoLine
    /\ t.pc = "source" => t.src # NoSlot
    /\ t.pc = "dest" => t.dst # NoSlot
    /\ t.line # NoLine =>
         t.src = NoSlot /\ t.item = LineItem[t.line] /\ t.dst = LineSlot[t.line]

\* What it has read at its positions is what they still hold, and is enough.
Reads(t) ==
  /\ t.pc \in Claiming /\ t.src # NoSlot =>
       t.left = balance[Source(t)] /\ t.left >= t.qty
  /\ t.pc = "ready" /\ t.dst # NoSlot =>
       t.right = AtDestination(t) /\ (t.item \in Serials => t.right = 0)

\* A serial is moved once it is known, and received while it is not.
Knows(t) ==
  t.pc # "idle" /\ t.item \in Serials =>
    /\ t.line = NoLine => t.item \in known
    /\ t.line # NoLine /\ t.pc \in Claiming => t.item \notin known

\* What it has read of its line was received for it, and leaves room for its quantity.
Counts(t) ==
  t.pc # "idle" /\ t.line # NoLine =>
    /\ t.seen <= receipts[t.line]
    /\ Expected[t.line] # 0 => t.seen + t.qty <= Expected[t.line]

\* Two transactions hold no lock in common, and do not receive the same serial.
Apart(t, u) ==
  /\ Locks(t) \intersect Locks(u) = {}
  /\ ~ /\ t.item = u.item /\ t.item \in Serials
       /\ t.line # NoLine /\ t.pc \in Claiming
       /\ u.line # NoLine /\ u.pc \in Claiming

\* There is one piece of a serial, and none before it is received.
OnePiece ==
  \A i \in Serials : \A s \in Slots :
    /\ balance[<<i, s>>] <= 1
    /\ i \notin known => balance[<<i, s>>] = 0

Sound(t) == Shape(t) /\ Reads(t) /\ Knows(t) /\ Counts(t)

IInv ==
  /\ TypeOK /\ LedgerMatches /\ OnePiece /\ SerialInOneSlot /\ LineBacked
  /\ \A w \in Workers : Sound(tx[w])
  /\ \A v, w \in Workers : v # w => Apart(tx[v], tx[w])

LEMMA IdleSound ==
  /\ Idle \in Tx /\ Sound(Idle)
  /\ \A u \in Tx : Apart(Idle, u) /\ Apart(u, Idle)
  BY NoneAssumption
  DEF Idle, Tx, Stages, Sound, Shape, Reads, Knows, Counts, Apart, Locks, Claiming

LEMMA ApartSymmetric ==
  ASSUME NEW t, NEW u, Apart(t, u)
  PROVE  Apart(u, t)
  BY DEF Apart

LEMMA InitIInv == Init => IInv
<1> SUFFICES ASSUME Init PROVE IInv OBVIOUS
<1>1. TypeOK BY IdleSound DEF Init, TypeOK
<1>2. LedgerMatches /\ OnePiece /\ SerialInOneSlot /\ LineBacked
  BY ItemsAssumption, ExpectedAssumption
  DEF Init, LedgerMatches, OnePiece, SerialInOneSlot, LineBacked, Positions
<1>3. \A w \in Workers : tx[w] = Idle BY DEF Init
<1> QED BY <1>1, <1>2, <1>3, IdleSound DEF IInv

\* A step of one transaction before its commit keeps the invariant if what it becomes is
\* sound and apart from the others.
LEMMA TxIInv ==
  ASSUME IInv, NEW w \in Workers, NEW t \in Tx,
         tx' = [tx EXCEPT ![w] = t], UNCHANGED committed,
         Sound(t), \A v \in Workers \ {w} : Apart(t, tx[v])
  PROVE  IInv'
<1>1. TypeOK' BY DEF IInv, TypeOK, committed
<1>2. LedgerMatches' /\ OnePiece' /\ SerialInOneSlot' /\ LineBacked'
  BY DEF IInv, committed, LedgerMatches, OnePiece, SerialInOneSlot, LineBacked
<1>3. ASSUME NEW v \in Workers PROVE tx'[v] = IF v = w THEN t ELSE tx[v]
  BY DEF IInv, TypeOK
<1>4. ASSUME NEW v \in Workers PROVE Sound(tx[v])'
  <2>1. Sound(tx'[v]) BY <1>3 DEF IInv
  <2> QED BY <2>1 DEF Sound, Shape, Reads, Knows, Counts, committed, Source, Destination,
                      AtDestination
<1>5. ASSUME NEW u \in Workers, NEW v \in Workers, u # v PROVE Apart(tx[u], tx[v])'
  <2>1. Apart(tx'[u], tx'[v]) BY <1>3, <1>5, ApartSymmetric DEF IInv
  <2> QED BY <2>1 DEF Apart, Locks, Source, Destination
<1> QED BY <1>1, <1>2, <1>4, <1>5 DEF IInv

\* What is rolled back leaves nothing.
LEMMA RollbackIInv ==
  ASSUME IInv, NEW w \in Workers, Rollback(w), UNCHANGED committed
  PROVE  IInv'
<1>1. \A v \in Workers : tx[v] \in Tx BY DEF IInv, TypeOK
<1> QED BY <1>1, IdleSound, TxIInv DEF Rollback

\* A movement begins without locks; a serial is received or else known.
LEMMA StartIInv ==
  ASSUME IInv, NEW w \in Workers, Start(w)
  PROVE  IInv'
<1> USE NoneAssumption
<1>1. ASSUME NEW t \in Tx, Begin(w, t), Sound(t), t.pc \in {"serial", "source", "mix"},
             t.pc = "mix" => t.src = NoSlot,
             t.pc = "mix" /\ t.line # NoLine => t.item \notin Serials
      PROVE  IInv'
  <2>1. Locks(t) = {} BY <1>1 DEF Locks
  <2>2. \A v \in Workers : Apart(t, tx[v]) BY <1>1, <2>1 DEF Apart, Claiming
  <2> QED BY <1>1, <2>2, TxIInv DEF Begin
<1>2. ASSUME NEW l \in Lines, NEW q \in Quantities, Receive(w, l, q) PROVE IInv'
  <2> DEFINE t == [Fresh(LineItem[l], q, NoSlot, LineSlot[l]) EXCEPT
                     !.pc = IF LineItem[l] \in Serials THEN "serial" ELSE "mix",
                     !.line = l, !.seen = received[l]]
  <2>1. /\ t.pc = IF LineItem[l] \in Serials THEN "serial" ELSE "mix"
        /\ t.item = LineItem[l] /\ t.qty = q /\ t.src = NoSlot /\ t.dst = LineSlot[l]
        /\ t.line = l /\ t.seen = received[l]
    BY DEF Fresh, Idle
  <2>2. Begin(w, t) BY <1>2 DEF Receive
  <2>3. LineItem[l] \in Items /\ LineSlot[l] \in Slots BY LinesAssumption
  <2>4. received[l] \in Nat /\ received[l] <= receipts[l] BY DEF IInv, TypeOK, LineBacked
  <2>5. /\ LineItem[l] \in Serials => q = 1
        /\ Expected[l] # 0 => received[l] + q <= Expected[l]
    BY <1>2 DEF Receive
  <2>6. t \in Tx BY IdleSound, <2>3, <2>4 DEF Fresh, Tx, Stages
  <2> HIDE DEF t
  <2>7. Sound(t)
    BY <2>1, <2>3, <2>4, <2>5 DEF Sound, Shape, Reads, Knows, Counts, Claiming
  <2> QED BY <1>1, <2>1, <2>2, <2>6, <2>7
<1>3. ASSUME NEW i \in Items, NEW q \in Quantities, NEW src \in Slots \union {NoSlot},
             NEW dst \in Slots \union {NoSlot}, src # NoSlot \/ dst # NoSlot,
             Movable(i, q), Begin(w, Fresh(i, q, src, dst))
      PROVE  IInv'
  <2> DEFINE t == Fresh(i, q, src, dst)
  <2>1. /\ t.pc = IF src = NoSlot THEN "mix" ELSE "source"
        /\ t.item = i /\ t.qty = q /\ t.src = src /\ t.dst = dst /\ t.line = NoLine
    BY DEF Fresh, Idle
  <2>2. t \in Tx BY IdleSound DEF Fresh, Tx, Stages
  <2> HIDE DEF t
  <2>3. Sound(t)
    BY <1>3, <2>1 DEF Sound, Shape, Reads, Knows, Counts, Claiming, Movable
  <2>4. Begin(w, t) BY <1>3 DEF t
  <2> QED BY <1>1, <2>1, <2>2, <2>3, <2>4
<1>4. ASSUME NEW i \in Items, NEW q \in Quantities, NEW s \in Slots,
             AdjustOut(w, i, q, s) \/ AdjustIn(w, i, q, s)
               \/ \E d \in Slots : Relocate(w, i, q, s, d)
      PROVE  IInv'
  BY <1>3, <1>4 DEF AdjustOut, AdjustIn, Relocate
<1> QED BY <1>2, <1>4 DEF Start

\* The steps before the commit: each reads under the lock it has taken.
LEMMA WorkIInv ==
  ASSUME IInv, NEW w \in Workers,
         ClaimSerial(w) \/ Take(w) \/ CheckMix(w) \/ Put(w)
  PROVE  IInv'
<1> DEFINE t == tx[w]
<1>1. /\ t \in Tx /\ Sound(t)
      /\ \A v \in Workers : tx[v] \in Tx
      /\ \A v \in Workers \ {w} : Apart(t, tx[v])
  BY DEF IInv, TypeOK
<1>2. UNCHANGED committed BY DEF ClaimSerial, Take, CheckMix, Put
<1>3. CASE ClaimSerial(w)
  <2> DEFINE new == [t EXCEPT !.pc = "mix"]
  <2>1. CASE t.item \in known BY <1>2, <1>3, <2>1, RollbackIInv DEF ClaimSerial
  <2>2. CASE t.item \notin known
    <3>1. tx' = [tx EXCEPT ![w] = new] /\ t.pc = "serial" BY <1>3, <2>2 DEF ClaimSerial
    <3>2. new \in Tx BY <1>1 DEF Tx, Stages
    <3>3. t.line # NoLine /\ t.src = NoSlot BY <1>1, <3>1 DEF Sound, Shape
    <3>4. Sound(new)
      BY <1>1, <2>2, <3>1, <3>3 DEF Tx, Sound, Shape, Reads, Knows, Counts, Claiming
    <3>5. ASSUME NEW v \in Workers \ {w} PROVE Apart(new, tx[v])
      <4>1. Locks(new) = {} BY <1>1, <3>3 DEF Locks, Tx
      <4>2. tx[v].line # NoLine /\ tx[v].item = t.item => tx[v].pc = "serial"
        BY <1>3 DEF ClaimSerial
      <4> QED BY <1>1, <4>1, <4>2 DEF Apart, Claiming, Tx
    <3> QED BY <1>2, <3>1, <3>2, <3>4, <3>5, TxIInv
  <2> QED BY <2>1, <2>2
<1>4. CASE Take(w)
  <2> DEFINE new == [t EXCEPT !.pc = "mix", !.left = balance[Source(t)]]
  <2>1. CASE balance[Source(t)] < t.qty BY <1>2, <1>4, <2>1, RollbackIInv DEF Take
  <2>2. CASE ~ (balance[Source(t)] < t.qty)
    <3>1. tx' = [tx EXCEPT ![w] = new] /\ t.pc = "source" /\ LockFree(w, Source(t))
      BY <1>1, <1>4, <2>2 DEF Take, IInv, TypeOK
    <3>2. t.item \in Items /\ t.src \in Slots /\ t.qty \in Nat /\ t.line = NoLine
      BY <1>1, <3>1, QuantitiesAssumption, NoneAssumption DEF Sound, Shape, Tx
    <3>3. balance[Source(t)] \in Nat BY <3>2 DEF IInv, TypeOK, Source, Positions
    <3>4. new \in Tx BY <1>1, <3>3 DEF Tx, Stages
    <3>5. Sound(new)
      BY <1>1, <2>2, <3>1, <3>2, <3>3
      DEF Tx, Sound, Shape, Reads, Knows, Counts, Claiming, Source
    <3>6. ASSUME NEW v \in Workers \ {w} PROVE Apart(new, tx[v])
      <4>1. Locks(new) \subseteq {Source(t)} BY <1>1 DEF Locks, Source, Tx
      <4>2. Source(t) \notin Locks(tx[v]) BY <3>1 DEF LockFree
      <4> QED BY <1>1, <3>2, <4>1, <4>2 DEF Apart, Tx
    <3> QED BY <1>2, <3>1, <3>4, <3>5, <3>6, TxIInv
  <2> QED BY <2>1, <2>2
<1>5. CASE CheckMix(w)
  <2>1. ASSUME NEW pc \in {"dest", "ready"}, tx' = [tx EXCEPT ![w].pc = pc], t.pc = "mix",
               pc = "ready" <=> t.dst = NoSlot
        PROVE  IInv'
    <3> DEFINE new == [t EXCEPT !.pc = pc]
    <3>1. tx' = [tx EXCEPT ![w] = new] BY <2>1 DEF IInv, TypeOK
    <3>2. new \in Tx BY <1>1 DEF Tx, Stages
    <3>3. Sound(new)
      BY <1>1, <2>1, NoneAssumption
      DEF Tx, Sound, Shape, Reads, Knows, Counts, Claiming, Source, AtDestination, Destination
    <3>4. ASSUME NEW v \in Workers \ {w} PROVE Apart(new, tx[v])
      <4>1. Locks(new) = Locks(t) BY <1>1, <2>1 DEF Locks, Source, Destination, Tx
      <4> QED BY <1>1, <2>1, <4>1 DEF Apart, Claiming, Tx
    <3> QED BY <1>2, <3>1, <3>2, <3>3, <3>4, TxIInv
  <2>2. CASE t.dst = NoSlot BY <1>5, <2>1, <2>2 DEF CheckMix
  <2>3. CASE t.dst # NoSlot /\ Mixes(t) BY <1>2, <1>5, <2>3, RollbackIInv DEF CheckMix
  <2>4. CASE t.dst # NoSlot /\ ~ Mixes(t) BY <1>5, <2>1, <2>4 DEF CheckMix
  <2> QED BY <2>2, <2>3, <2>4
<1>6. CASE Put(w)
  <2> DEFINE new == [t EXCEPT !.pc = "ready", !.right = AtDestination(t)]
  <2>1. CASE t.item \in Serials /\ AtDestination(t) # 0
    BY <1>2, <1>6, <2>1, RollbackIInv DEF Put
  <2>2. CASE ~ (t.item \in Serials /\ AtDestination(t) # 0)
    <3>1. /\ tx' = [tx EXCEPT ![w] = new] /\ t.pc = "dest"
          /\ LockFree(w, Destination(t))
      BY <1>1, <1>6, <2>2 DEF Put, IInv, TypeOK
    <3>2. t.item \in Items /\ t.dst \in Slots /\ t.qty \in Nat
      BY <1>1, <3>1, QuantitiesAssumption, NoneAssumption DEF Sound, Shape, Tx
    <3>3. balance[Destination(t)] \in Nat BY <3>2 DEF IInv, TypeOK, Destination, Positions
    <3>4. AtDestination(t) \in Nat
      BY <1>1, <3>1, <3>2, <3>3, NoneAssumption
      DEF AtDestination, Sound, Reads, Claiming, Tx
    <3>5. new \in Tx BY <1>1, <3>4 DEF Tx, Stages
    <3>6. Sound(new)
      <4>1. /\ new.pc = "ready" /\ new.right = AtDestination(t)
            /\ new.item = t.item /\ new.qty = t.qty /\ new.src = t.src /\ new.dst = t.dst
            /\ new.line = t.line /\ new.seen = t.seen /\ new.left = t.left
        BY <1>1 DEF Tx
      <4>2. AtDestination(new) = AtDestination(t) BY <4>1 DEF AtDestination, Destination
      <4> QED BY <1>1, <2>2, <3>1, <4>1, <4>2
              DEF Sound, Shape, Reads, Knows, Counts, Claiming, Source
    <3>7. ASSUME NEW v \in Workers \ {w} PROVE Apart(new, tx[v])
      <4>1. Locks(new) \subseteq Locks(t) \union {Destination(t)}
        BY <1>1, <3>1 DEF Locks, Source, Destination, Tx
      <4>2. Destination(t) \notin Locks(tx[v]) BY <3>1 DEF LockFree
      <4>3. Apart(t, tx[v]) BY <1>1
      <4> QED BY <1>1, <3>1, <4>1, <4>2, <4>3 DEF Apart, Claiming, Tx
    <3> QED BY <1>2, <3>1, <3>5, <3>6, <3>7, TxIInv
  <2> QED BY <2>1, <2>2
<1> QED BY <1>3, <1>4, <1>5, <1>6

\* A commit adds to each position what comes in and takes what goes out, however long ago
\* the balances that it writes were read.
LEMMA CommitBalance ==
  ASSUME IInv, NEW w \in Workers, Commit(w), NEW p \in Positions
  PROVE  LET t == tx[w]
         IN /\ balance'[p] = balance[p] + Inflow(t, p) - Outflow(t, p)
            /\ ledger'[p] = ledger[p] + Inflow(t, p) - Outflow(t, p)
            /\ balance'[p] \in Nat
            /\ p \notin Locks(t) => balance'[p] = balance[p]
            /\ t.item \in Serials /\ t.dst # NoSlot /\ p = Destination(t) => balance'[p] = 1
            /\ t.item \in Serials /\ t.src # NoSlot /\ p = Source(t) => balance[p] > 0
<1> DEFINE t == tx[w]
<1>1. /\ t \in Tx /\ t.pc = "ready" /\ Shape(t) /\ Reads(t)
      /\ t.item \in Items /\ t.qty \in Nat \ {0}
      /\ t.left \in Nat /\ t.right \in Nat
      /\ balance[p] \in Nat /\ ledger[p] \in Int
  BY QuantitiesAssumption DEF Commit, IInv, TypeOK, Sound, Shape, Tx
<1>2. /\ balance'[p] = IF t.dst # NoSlot /\ p = Destination(t) THEN t.right + t.qty
                       ELSE IF t.src # NoSlot /\ p = Source(t) THEN t.left - t.qty
                       ELSE balance[p]
      /\ ledger'[p] = ledger[p] + Inflow(t, p) - Outflow(t, p)
  BY DEF Commit
<1>3. t.src # NoSlot => t.left = balance[Source(t)] /\ t.left >= t.qty
  BY <1>1 DEF Reads, Claiming
<1>4. t.dst # NoSlot =>
        /\ t.right = IF t.src = t.dst THEN t.left - t.qty ELSE balance[Destination(t)]
        /\ t.item \in Serials => t.right = 0 /\ t.qty = 1
  BY <1>1 DEF Reads, AtDestination, Shape
<1>5. t.src # t.dst => Source(t) # Destination(t) BY DEF Source, Destination
<1>6. t.src = t.dst => Source(t) = Destination(t) BY DEF Source, Destination
<1>7. /\ t.src # NoSlot /\ p = Source(t) => p \in Locks(t)
      /\ t.dst # NoSlot /\ p = Destination(t) => p \in Locks(t)
  BY <1>1 DEF Locks
<1> HIDE DEF t
<1>8. CASE t.dst # NoSlot /\ p = Destination(t)
  BY <1>1, <1>2, <1>3, <1>4, <1>5, <1>6, <1>7, <1>8 DEF Inflow, Outflow, t
<1>9. CASE ~ (t.dst # NoSlot /\ p = Destination(t))
  BY <1>1, <1>2, <1>3, <1>4, <1>5, <1>6, <1>7, <1>9 DEF Inflow, Outflow, t
<1> QED BY <1>8, <1>9

\* A commit keeps a serial to one piece: it came from the only slot that held one, or is new.
LEMMA CommitSerials ==
  ASSUME IInv, NEW w \in Workers, Commit(w)
  PROVE  OnePiece' /\ SerialInOneSlot'
<1> DEFINE t == tx[w]
<1>1. /\ t \in Tx /\ t.pc = "ready" /\ Shape(t) /\ Knows(t)
      /\ t.item \in Items /\ (t.item \in Serials => t.qty = 1)
      /\ t.src # NoSlot => t.src \in Slots
      /\ t.dst # NoSlot => t.dst \in Slots
  BY DEF Commit, IInv, TypeOK, Sound, Shape, Tx
<1>2. known' = known \union (IF t.line # NoLine /\ t.item \in Serials THEN {t.item} ELSE {})
  BY DEF Commit
<1>3. adjusted' = adjusted \union
        (IF t.line = NoLine /\ t.src = NoSlot /\ t.item \in Serials THEN {t.item} ELSE {})
  BY DEF Commit
<1>4. ASSUME NEW i \in Serials, NEW s \in Slots
      PROVE  /\ <<i, s>> \in Positions
             /\ balance[<<i, s>>] \in Nat
             /\ balance[<<i, s>>] <= 1 /\ (i \notin known => balance[<<i, s>>] = 0)
  BY ItemsAssumption DEF Positions, IInv, TypeOK, OnePiece
<1>5. ASSUME NEW s \in Slots, t.item \in Serials
      PROVE  /\ t.dst = s => balance'[<<t.item, s>>] = 1
             /\ t.dst # s /\ t.src = s => balance'[<<t.item, s>>] = 0 /\ balance[<<t.item, s>>] = 1
             /\ t.src = s => balance[<<t.item, s>>] = 1
             /\ t.dst # s /\ t.src # s => balance'[<<t.item, s>>] = balance[<<t.item, s>>]
  <2> DEFINE p == <<t.item, s>>
  <2>1. p \in Positions /\ balance[p] \in Nat /\ balance[p] <= 1 BY <1>4, <1>5
  <2>2. /\ balance'[p] = balance[p] + Inflow(t, p) - Outflow(t, p)
        /\ t.dst # NoSlot /\ p = Destination(t) => balance'[p] = 1
        /\ t.src # NoSlot /\ p = Source(t) => balance[p] > 0
    BY <1>5, <2>1, CommitBalance
  <2>3. /\ p = Destination(t) <=> t.dst = s
        /\ p = Source(t) <=> t.src = s
    BY DEF Source, Destination
  <2>4. s # NoSlot BY NoneAssumption
  <2> HIDE DEF p, t
  <2>5. /\ t.dst = s => balance'[p] = 1
        /\ t.dst # s /\ t.src = s => balance'[p] = 0 /\ balance[p] = 1
        /\ t.src = s => balance[p] = 1
        /\ t.dst # s /\ t.src # s => balance'[p] = balance[p]
    BY <1>1, <1>5, <2>1, <2>2, <2>3, <2>4 DEF Inflow, Outflow
  <2> QED BY <2>5 DEF p
<1>6. ASSUME NEW i \in Serials, NEW s \in Slots, i # t.item
      PROVE  balance'[<<i, s>>] = balance[<<i, s>>]
  <2>1. <<i, s>> \notin Locks(t) BY <1>6 DEF Locks, Source, Destination
  <2> QED BY <1>4, <2>1, CommitBalance
<1>7. t.item \in Serials =>
        /\ t.line = NoLine => t.item \in known
        /\ t.line # NoLine => t.item \notin known
        /\ t.line # NoLine => t.src = NoSlot
  BY <1>1 DEF Knows, Shape, Claiming
<1> HIDE DEF t
<1>8. OnePiece'
  <2> SUFFICES ASSUME NEW i \in Serials, NEW s \in Slots
               PROVE  /\ balance'[<<i, s>>] <= 1
                      /\ i \notin known' => balance'[<<i, s>>] = 0
    BY DEF OnePiece
  <2>1. CASE i # t.item BY <1>2, <1>4, <1>6, <2>1
  <2>2. CASE i = t.item BY <1>2, <1>4, <1>5, <1>7, <2>2
  <2> QED BY <2>1, <2>2
<1>9. SerialInOneSlot'
  <2> SUFFICES ASSUME NEW i \in Serials, i \notin adjusted', NEW s \in Slots, NEW d \in Slots,
                      balance'[<<i, s>>] > 0, balance'[<<i, d>>] > 0
               PROVE  s = d
    BY DEF SerialInOneSlot
  <2>1. i \notin adjusted BY <1>3
  <2>2. \A a, b \in Slots : balance[<<i, a>>] > 0 /\ balance[<<i, b>>] > 0 => a = b
    BY <2>1 DEF IInv, SerialInOneSlot
  <2>3. CASE i # t.item BY <1>6, <2>2, <2>3
  <2>4. CASE i = t.item /\ t.src # NoSlot
    <3>1. t.src \in Slots /\ balance[<<i, t.src>>] > 0 BY <1>1, <1>5, <2>4
    <3>2. ASSUME NEW a \in Slots, balance'[<<i, a>>] > 0 PROVE a = t.dst
      <4>1. CASE a = t.src BY <1>5, <2>4, <3>2, <4>1
      <4>2. CASE a # t.src
        <5>1. balance[<<i, a>>] = 0 BY <1>4, <2>2, <3>1, <4>2
        <5> QED BY <1>5, <2>4, <3>2, <4>2, <5>1
      <4> QED BY <4>1, <4>2
    <3> QED BY <3>2
  <2>5. CASE i = t.item /\ t.src = NoSlot
    <3>1. t.line # NoLine BY <1>3, <2>5
    <3>2. i \notin known BY <1>7, <2>5, <3>1
    <3>3. ASSUME NEW a \in Slots, balance'[<<i, a>>] > 0 PROVE a = t.dst
      <4>1. balance[<<i, a>>] = 0 /\ a # NoSlot BY <1>4, <3>2, NoneAssumption
      <4> QED BY <1>5, <2>5, <3>3, <4>1
    <3> QED BY <3>3
  <2> QED BY <2>3, <2>4, <2>5
<1> QED BY <1>8, <1>9

\* The book, the line and the others' reads after a commit.
LEMMA CommitIInv ==
  ASSUME IInv, NEW w \in Workers, Commit(w)
  PROVE  IInv'
<1> DEFINE t == tx[w]
<1>1. /\ t \in Tx /\ t.pc = "ready" /\ Sound(t) /\ t.qty \in Nat \ {0} /\ t.seen \in Nat
      /\ t.line # NoLine => t.line \in Lines
      /\ \A v \in Workers : tx[v] \in Tx /\ Sound(tx[v])
      /\ \A v \in Workers \ {w} : Apart(tx[v], t)
  BY QuantitiesAssumption DEF Commit, IInv, TypeOK, Sound, Shape, Tx
<1>2. /\ known' = known \union (IF t.line # NoLine /\ t.item \in Serials THEN {t.item} ELSE {})
      /\ adjusted' = adjusted \union
           (IF t.line = NoLine /\ t.src = NoSlot /\ t.item \in Serials THEN {t.item} ELSE {})
      /\ received' = IF t.line = NoLine THEN received
                     ELSE [received EXCEPT ![t.line] = t.seen + t.qty]
      /\ receipts' = IF t.line = NoLine THEN receipts
                     ELSE [receipts EXCEPT ![t.line] = @ + t.qty]
      /\ tx' = [tx EXCEPT ![w] = Idle]
      /\ DOMAIN balance' = Positions /\ DOMAIN ledger' = Positions
  BY DEF Commit, Rollback
<1>3. ASSUME NEW v \in Workers PROVE tx'[v] = IF v = w THEN Idle ELSE tx[v]
  BY <1>2 DEF IInv, TypeOK
<1>4. ASSUME NEW l \in Lines PROVE receipts'[l] \in Nat /\ receipts[l] <= receipts'[l]
  BY <1>1, <1>2 DEF IInv, TypeOK
<1>5. TypeOK' /\ LedgerMatches'
  <2>1. ASSUME NEW p \in Positions
        PROVE  balance'[p] \in Nat /\ ledger'[p] = balance'[p]
    <3>1. ledger[p] = balance[p] BY DEF IInv, LedgerMatches
    <3> QED BY <3>1, CommitBalance
  <2>2. balance' \in [Positions -> Nat]
    <3>1. balance' = [p \in Positions |-> balance'[p]] BY DEF Commit
    <3> QED BY <2>1, <3>1
  <2>3. ledger' \in [Positions -> Int]
    <3>1. ledger' = [p \in Positions |-> ledger'[p]] BY DEF Commit
    <3> QED BY <2>1, <3>1
  <2>4. known' \subseteq Serials /\ adjusted' \subseteq Serials BY <1>2 DEF IInv, TypeOK
  <2>5. received' \in [Lines -> Nat] /\ receipts' \in [Lines -> Nat]
    BY <1>1, <1>2 DEF IInv, TypeOK
  <2>6. tx' \in [Workers -> Tx] BY <1>2, IdleSound DEF IInv, TypeOK
  <2> QED BY <2>1, <2>2, <2>3, <2>4, <2>5, <2>6 DEF TypeOK, LedgerMatches
<1>6. LineBacked'
  <2> SUFFICES ASSUME NEW l \in Lines
               PROVE  /\ received'[l] <= receipts'[l]
                      /\ Expected[l] # 0 => received'[l] <= Expected[l]
    BY DEF LineBacked
  <2>1. /\ received[l] <= receipts[l] /\ (Expected[l] # 0 => received[l] <= Expected[l])
        /\ received[l] \in Nat /\ receipts[l] \in Nat
    BY DEF IInv, LineBacked, TypeOK
  <2>2. CASE l # t.line BY <1>2, <2>1, <2>2 DEF IInv, TypeOK
  <2>3. CASE l = t.line
    <3>1. l # NoLine BY NoneAssumption
    <3>2. /\ t.seen <= receipts[l]
          /\ Expected[l] # 0 => t.seen + t.qty <= Expected[l]
      BY <1>1, <2>3, <3>1 DEF Sound, Counts
    <3>3. received'[l] = t.seen + t.qty /\ receipts'[l] = receipts[l] + t.qty
      BY <1>2, <2>3, <3>1 DEF IInv, TypeOK
    <3> HIDE DEF t
    <3> QED BY <1>1, <2>1, <3>2, <3>3
  <2> QED BY <2>2, <2>3
<1>7. ASSUME NEW v \in Workers PROVE Sound(tx[v])'
  <2>1. CASE v = w
    <3>1. tx'[v] = Idle BY <1>3, <2>1
    <3> QED BY <3>1, NoneAssumption
            DEF Idle, Sound, Shape, Reads, Knows, Counts, Claiming
  <2>2. CASE v # w
    <3> PICK u \in Tx : u = tx[v] BY <1>1
    <3>1. tx'[v] = u /\ u \in Tx /\ Sound(u) /\ Apart(u, t) BY <1>1, <1>3, <2>2
    <3>2. ASSUME NEW p \in Locks(u) PROVE balance'[p] = balance[p]
      <4>1. p \in Positions /\ p \notin Locks(t) BY <3>1 DEF Apart, Locks
      <4> QED BY <4>1, CommitBalance
    <3>3. Reads(u)'
      <4>1. u.pc \in Claiming /\ u.src # NoSlot => Source(u) \in Locks(u)
        BY <3>1 DEF Sound, Shape, Locks, Claiming, Source, Positions, Tx
      <4>2. u.pc = "ready" /\ u.dst # NoSlot => Destination(u) \in Locks(u)
        BY <3>1 DEF Sound, Shape, Locks, Destination, Positions, Tx
      <4>3. Reads(u) BY <3>1 DEF Sound
      <4> QED BY <1>2, <3>2, <4>1, <4>2, <4>3
              DEF Reads, AtDestination, Source, Destination, Claiming
    <3>4. Knows(u)'
      <4>1. Knows(u) BY <3>1 DEF Sound
      <4>2. u.line # NoLine /\ u.pc \in Claiming /\ u.item \in Serials /\ t.line # NoLine
              => u.item # t.item
        BY <1>1, <3>1 DEF Apart, Claiming
      <4> QED BY <1>2, <4>1, <4>2 DEF Knows
    <3>5. Counts(u)'
      <4>1. Counts(u) /\ (u.line # NoLine => u.line \in Lines) /\ u.seen \in Nat
        BY <3>1 DEF Sound, Tx
      <4>2. \A l \in Lines : receipts[l] \in Nat BY DEF IInv, TypeOK
      <4> QED BY <1>4, <4>1, <4>2 DEF Counts
    <3>6. Shape(u)' BY <3>1 DEF Sound, Shape
    <3> QED BY <3>1, <3>3, <3>4, <3>5, <3>6 DEF Sound, Shape, Reads, Knows, Counts,
                                             AtDestination, Source, Destination
  <2> QED BY <2>1, <2>2
<1>8. ASSUME NEW u \in Workers, NEW v \in Workers, u # v PROVE Apart(tx[u], tx[v])'
  <2>1. Apart(tx'[u], tx'[v])
    BY <1>1, <1>3, <1>8, IdleSound DEF IInv
  <2> QED BY <2>1 DEF Apart, Locks, Source, Destination
<1> QED BY <1>5, <1>6, <1>7, <1>8, CommitSerials DEF IInv

\* Every step keeps the invariant.
LEMMA StepIInv == IInv /\ [Next]_vars => IInv'
<1> SUFFICES ASSUME IInv, [Next]_vars PROVE IInv' OBVIOUS
<1>1. ASSUME NEW w \in Workers, Start(w) \/ Work(w) \/ Crash(w) \/ BreakDeadlock(w)
      PROVE  IInv'
  BY <1>1, StartIInv, WorkIInv, CommitIInv, RollbackIInv DEF Work, Crash, BreakDeadlock
<1>2. CASE UNCHANGED vars
  BY <1>2 DEF vars, IInv, TypeOK, LedgerMatches, OnePiece, SerialInOneSlot, LineBacked, Sound,
              Shape, Reads, Knows, Counts, Apart, Locks, Source, Destination, AtDestination
<1> QED BY <1>1, <1>2 DEF Next

(***************************************************************************)
(* Every commit is one movement of the ledger, every other step none.      *)
(***************************************************************************)
\* What a commit adds to a position is what the ledger's movement adds there.
LEMMA CommitMoves ==
  ASSUME IInv, NEW w \in Workers, Commit(w)
  PROVE  LET t == tx[w]
         IN t.src # t.dst => Ledger!Move(t.item, t.qty, t.src, t.dst)
<1> DEFINE t == tx[w]
<1>1. /\ t \in Tx /\ t.pc = "ready" /\ Shape(t) /\ Reads(t) /\ t.qty \in Nat
  BY QuantitiesAssumption DEF Commit, IInv, TypeOK, Sound, Shape, Tx
<1>2. /\ balance' = [p \in Positions |-> balance'[p]]
      /\ ledger' = [p \in Positions |-> ledger'[p]]
  BY DEF Commit
<1>3. ASSUME NEW p \in Positions
      PROVE  /\ balance'[p] = balance[p] + Inflow(t, p) - Outflow(t, p)
             /\ ledger'[p] = ledger[p] + Inflow(t, p) - Outflow(t, p)
             /\ balance[p] \in Nat /\ ledger[p] \in Int
  BY CommitBalance DEF IInv, TypeOK
<1> HIDE DEF t
<1>4. ASSUME NEW p \in Positions
      PROVE  /\ balance'[p] = balance[p] + Ledger!Net(t.item, t.qty, t.src, t.dst, p)
             /\ ledger'[p] = ledger[p] + Ledger!Net(t.item, t.qty, t.src, t.dst, p)
  BY <1>1, <1>3 DEF Inflow, Outflow, Source, Destination, Ledger!Net
<1>5. t.src # t.dst =>
        /\ t.src # NoSlot => balance[<<t.item, t.src>>] >= t.qty
        /\ t.item \in Serials => t.qty = 1 /\ (t.dst # NoSlot => balance[<<t.item, t.dst>>] = 0)
  BY <1>1 DEF Shape, Reads, Claiming, AtDestination, Source, Destination
<1>6. t.src # t.dst => Ledger!Move(t.item, t.qty, t.src, t.dst)
  BY <1>2, <1>4, <1>5 DEF Ledger!Move, Ledger!Positions, Positions
<1> QED BY <1>6 DEF t

\* A commit is a receipt, a movement within the stock, or nothing at all.
LEMMA CommitRefines ==
  ASSUME IInv, NEW w \in Workers, Commit(w)
  PROVE  [Ledger!LNext]_(Ledger!ledgerVars)
<1> DEFINE t == tx[w]
<1>1. /\ t \in Tx /\ t.pc = "ready" /\ Shape(t) /\ Knows(t) /\ Counts(t)
      /\ t.item \in Items /\ t.qty \in Quantities /\ t.seen \in Nat
      /\ t.src \in Slots \union {NoSlot} /\ t.dst \in Slots \union {NoSlot}
      /\ t.line # NoLine => t.line \in Lines /\ t.line \in DOMAIN Expected
  BY ExpectedAssumption DEF Commit, IInv, TypeOK, Sound, Shape, Tx
<1>2. /\ known' = known \union (IF t.line # NoLine /\ t.item \in Serials THEN {t.item} ELSE {})
      /\ received' = IF t.line = NoLine THEN received
                     ELSE [received EXCEPT ![t.line] = t.seen + t.qty]
      /\ receipts' = IF t.line = NoLine THEN receipts
                     ELSE [receipts EXCEPT ![t.line] = @ + t.qty]
      /\ balance' = [p \in Positions |-> balance'[p]]
      /\ ledger' = [p \in Positions |-> ledger'[p]]
  BY DEF Commit
<1>3. t.src # t.dst => Ledger!Move(t.item, t.qty, t.src, t.dst) BY CommitMoves
<1>4. known \subseteq Serials /\ receipts \in [Lines -> Nat] BY DEF IInv, TypeOK
<1> HIDE DEF t
<1>5. CASE t.line # NoLine
  <2>1. /\ t.src = NoSlot /\ t.item = LineItem[t.line] /\ t.dst = LineSlot[t.line]
        /\ t.dst # NoSlot
    BY <1>1, <1>5, LinesAssumption, NoneAssumption DEF Shape
  <2>2. LineItem[t.line] \notin known
    BY <1>1, <1>4, <1>5, <2>1 DEF Knows, Claiming
  <2>3. known' = known \union ({LineItem[t.line]} \intersect Serials) BY <1>2, <1>5, <2>1
  <2>4. /\ t.seen \in 0 .. receipts[t.line]
        /\ Expected[t.line] # 0 => t.seen + t.qty <= Expected[t.line]
    BY <1>1, <1>4, <1>5 DEF Counts
  <2>5. Ledger!Receive(t.line, t.qty)
    BY <1>2, <1>3, <1>5, <2>1, <2>2, <2>3, <2>4 DEF Ledger!Receive
  <2> QED BY <1>1, <1>5, <2>5 DEF Ledger!LNext
<1>6. CASE t.line = NoLine /\ t.src # t.dst
  <2>1. Ledger!Handle(t.item, t.qty, t.src, t.dst)
    BY <1>1, <1>2, <1>3, <1>6 DEF Ledger!Handle, Knows
  <2> QED BY <1>1, <2>1 DEF Ledger!LNext
<1>7. CASE t.line = NoLine /\ t.src = t.dst
  <2>1. ASSUME NEW p \in Positions PROVE balance'[p] = balance[p] /\ ledger'[p] = ledger[p]
    <3>1. /\ balance'[p] = balance[p] + Inflow(t, p) - Outflow(t, p)
          /\ ledger'[p] = ledger[p] + Inflow(t, p) - Outflow(t, p)
          /\ balance[p] \in Nat /\ ledger[p] \in Int
      BY CommitBalance DEF IInv, TypeOK, t
    <3>2. Inflow(t, p) = Outflow(t, p) /\ Inflow(t, p) \in Nat
      BY <1>1, <1>7, QuantitiesAssumption DEF Inflow, Outflow, Source, Destination
    <3> QED BY <3>1, <3>2
  <2>2. balance' = balance /\ ledger' = ledger BY <1>2, <2>1 DEF IInv, TypeOK
  <2> QED BY <1>2, <1>7, <2>2 DEF Ledger!ledgerVars
<1> QED BY <1>5, <1>6, <1>7

\* Every step is a movement of the ledger or leaves its variables alone.
LEMMA StepRefines == IInv /\ [Next]_vars => [Ledger!LNext]_(Ledger!ledgerVars)
<1> SUFFICES ASSUME IInv, [Next]_vars PROVE [Ledger!LNext]_(Ledger!ledgerVars) OBVIOUS
<1>1. ASSUME NEW w \in Workers, Commit(w) PROVE [Ledger!LNext]_(Ledger!ledgerVars)
  BY <1>1, CommitRefines
<1>2. ASSUME NEW w \in Workers, Start(w) \/ Crash(w) \/ BreakDeadlock(w)
      PROVE  UNCHANGED committed
  BY <1>2 DEF Start, Crash, BreakDeadlock, Receive, AdjustOut, AdjustIn, Relocate, Begin
<1>3. ASSUME NEW w \in Workers, ClaimSerial(w) \/ Take(w) \/ CheckMix(w) \/ Put(w)
      PROVE  UNCHANGED committed
  BY <1>3 DEF ClaimSerial, Take, CheckMix, Put
<1>4. UNCHANGED committed \/ UNCHANGED vars => UNCHANGED Ledger!ledgerVars
  BY DEF committed, vars, Ledger!ledgerVars
<1> QED BY <1>1, <1>2, <1>3, <1>4 DEF Next, Work

\* The inductive invariant of the stock: what transactions have read is still so.
THEOREM StockInvariance == Spec => []IInv
<1> QED BY InitIInv, StepIInv, PTL DEF Spec

\* Every variable keeps its type.
THEOREM TypeCorrect == Spec => []TypeOK
  BY StockInvariance, PTL DEF IInv

\* The balances are what the movements add up to.
THEOREM LedgerMatchesHolds == Spec => []LedgerMatches
  BY StockInvariance, PTL DEF IInv

\* No position is overdrawn.
THEOREM NeverOverdrawnHolds == Spec => []NeverOverdrawn
<1>1. IInv => NeverOverdrawn BY DEF IInv, TypeOK, LedgerMatches, NeverOverdrawn
<1> QED BY StockInvariance, <1>1, PTL

\* A piece with a serial that no adjustment put somewhere is in one slot at most.
THEOREM SerialInOneSlotHolds == Spec => []SerialInOneSlot
  BY StockInvariance, PTL DEF IInv

\* A receipt line claims no more than was moved in for it, nor than it expects.
THEOREM LineBackedHolds == Spec => []LineBacked
  BY StockInvariance, PTL DEF IInv

\* The stock implements its ledger: transactions that read, wait, die and interleave commit
\* one movement at a time.
THEOREM LedgerRefined == Spec => MovesAtOnce
<1>1. Init => Ledger!LInit
  BY DEF Init, Ledger!LInit, Ledger!Positions, Positions
<1>2. IInv /\ [Next]_vars => [Ledger!LNext]_(Ledger!ledgerVars) BY StepRefines
<1> QED BY <1>1, <1>2, StockInvariance, PTL DEF Spec, MovesAtOnce, Ledger!LSpec
=============================================================================
