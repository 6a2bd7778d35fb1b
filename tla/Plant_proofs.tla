---------------------------- MODULE Plant_proofs ----------------------------
(***************************************************************************)
(* Proofs about the components of the plant, for any number of requests,   *)
(* rows, stations and permissions: scans of components, the feeding of the *)
(* line, the mix of models, the sequence, the company's accounts, the      *)
(* balancing of a line and the screens.  Those at the stations are in      *)
(* Floor_proofs.  The last section is about all of them together.          *)
(***************************************************************************)
EXTENDS MCPlant, Floor_proofs, SequencesExt, FiniteSetsExt, FiniteSetTheorems,
        SequenceTheorems, TLAPS

(***************************************************************************)
(* Sums.  The components sum over finite sets with MapThenSumSet, which    *)
(* takes any element first.  The sum does not depend on which: it is that  *)
(* of the others and one more.  The inductions are over sets of numbers    *)
(* and sets of subsets, from NatLessThanWellFounded.                       *)
(***************************************************************************)
\* The sum of a function over a set.
SumOf(f, S) == MapThenSumSet(LAMBDA x : f[x], S)

\* Induction over the natural numbers, for a set of them.
LEMMA SetNatInduction ==
  ASSUME NEW N, 0 \in N, \A n \in Nat : n \in N => n + 1 \in N
  PROVE  Nat \subseteq N
<1> DEFINE Bad == Nat \ N
<1> SUFFICES ASSUME Bad # {} PROVE FALSE OBVIOUS
<1>1. IsWellFoundedOn(OpToRel(<, Nat), Nat) BY NatLessThanWellFounded
<1>2. PICK n \in Bad : \A m \in Bad : ~ (<<m, n>> \in OpToRel(<, Nat))
  <2> HIDE DEF Bad
  <2>1. Bad \subseteq Nat BY DEF Bad
  <2> QED BY <1>1, <2>1, WFMin
<1>3. \A m \in Bad : ~ (m < n) BY <1>2 DEF OpToRel
<1>4. n # 0 OBVIOUS
<1>5. n - 1 \in Nat /\ n - 1 \notin Bad BY <1>3, <1>4
<1> QED BY <1>5

\* Induction over the subsets of a finite set: from the sets of one element less.
LEMMA SetFiniteInduction ==
  ASSUME NEW S, IsFiniteSet(S), NEW Z,
         \A T \in SUBSET S : (\A x \in T : T \ {x} \in Z) => T \in Z
  PROVE  \A T \in SUBSET S : T \in Z
<1> DEFINE N == {n \in Nat : \A T \in SUBSET S : Cardinality(T) = n => T \in Z}
<1>0. \A T \in SUBSET S : IsFiniteSet(T) /\ Cardinality(T) \in Nat BY FS_Subset, FS_CardinalityType
<1>1. 0 \in N BY <1>0, FS_EmptySet
<1>2. ASSUME NEW n \in Nat, n \in N PROVE n + 1 \in N
  <2> SUFFICES ASSUME NEW T \in SUBSET S, Cardinality(T) = n + 1 PROVE T \in Z OBVIOUS
  <2>1. ASSUME NEW x \in T PROVE T \ {x} \in Z
    <3>1. IsFiniteSet(T) BY <1>0
    <3>2. Cardinality(T \ {x}) = Cardinality(T) - 1 BY <3>1, FS_RemoveElement
    <3>3. Cardinality(T \ {x}) = n BY <3>2
    <3> QED BY <1>2, <3>3
  <2> QED BY <2>1
<1>3. Nat \subseteq N
  <2> HIDE DEF N
  <2> QED BY <1>1, <1>2, SetNatInduction
<1> QED BY <1>0, <1>3

\* A function that sums over the subsets of S as the fold does
OneOf(s) == CHOOSE x \in s : TRUE
SumsUp(g, f, S) ==
  g = [s \in SUBSET S |-> IF s = {} THEN 0 ELSE f[OneOf(s)] + g[s \ {OneOf(s)}]]

LEMMA SumsUpExist ==
  ASSUME NEW S, IsFiniteSet(S), NEW f
  PROVE  \E g : SumsUp(g, f, S)
<1> DEFINE Small(n) == {s \in SUBSET S : Cardinality(s) <= n}
           Part(g, n) == \A s \in Small(n) :
                           g[s] = IF s = {} THEN 0 ELSE f[OneOf(s)] + g[s \ {OneOf(s)}]
           N == {n \in Nat : \E g : Part(g, n)}
<1>0. \A T \in SUBSET S : IsFiniteSet(T) /\ Cardinality(T) \in Nat BY FS_Subset, FS_CardinalityType
<1>1. 0 \in N
  <2> DEFINE g == [s \in SUBSET S |-> 0]
  <2>1. \A s \in Small(0) : s = {} BY <1>0, FS_EmptySet
  <2>2. Part(g, 0) BY <2>1
  <2> QED BY <2>2
<1>2. ASSUME NEW n \in Nat, n \in N PROVE n + 1 \in N
  <2> PICK g : Part(g, n) BY <1>2
  <2> DEFINE h == [s \in SUBSET S |-> IF s = {} THEN 0 ELSE f[OneOf(s)] + g[s \ {OneOf(s)}]]
  <2>1. \A s \in Small(n) : h[s] = g[s] OBVIOUS
  <2>2. ASSUME NEW s \in Small(n + 1), s # {} PROVE s \ {OneOf(s)} \in Small(n)
    <3>1. OneOf(s) \in s BY <2>2 DEF OneOf
    <3>2. Cardinality(s \ {OneOf(s)}) = Cardinality(s) - 1 BY <1>0, <3>1, FS_RemoveElement
    <3> QED BY <1>0, <3>2
  <2>3. Part(h, n + 1)
    <3> SUFFICES ASSUME NEW s \in Small(n + 1)
                 PROVE  h[s] = IF s = {} THEN 0 ELSE f[OneOf(s)] + h[s \ {OneOf(s)}]
      OBVIOUS
    <3>1. CASE s = {} BY <3>1
    <3>2. CASE s # {}
      <4>1. h[s \ {OneOf(s)}] = g[s \ {OneOf(s)}] BY <2>1, <2>2, <3>2
      <4> QED BY <3>2, <4>1
    <3> QED BY <3>1, <3>2
  <2> HIDE DEF h, Part
  <2> QED BY <2>3
<1>3. Nat \subseteq N
  <2> HIDE DEF N
  <2> QED BY <1>1, <1>2, SetNatInduction
<1>4. Cardinality(S) \in N BY <1>0, <1>3
<1>5. PICK g : Part(g, Cardinality(S)) BY <1>4
<1>6. Small(Cardinality(S)) = SUBSET S BY FS_Subset
<1> DEFINE h == [s \in SUBSET S |-> g[s]]
<1>7. SumsUp(h, f, S)
  <2>1. \A s \in SUBSET S : h[s] = IF s = {} THEN 0 ELSE f[OneOf(s)] + h[s \ {OneOf(s)}]
    BY <1>5, <1>6
  <2> QED BY <2>1 DEF SumsUp
<1> QED BY <1>7

\* The fold is the choice of such a function.
LEMMA SumFolds ==
  ASSUME NEW S, IsFiniteSet(S), NEW f
  PROVE  \E g : SumsUp(g, f, S) /\ SumOf(f, S) = g[S]
<1>1. SumOf(f, S) = (CHOOSE g : SumsUp(g, f, S))[S]
  BY DEF SumOf, MapThenSumSet, MapThenFoldSet, SumsUp, OneOf
<1>2. SumsUp(CHOOSE g : SumsUp(g, f, S), f, S) BY SumsUpExist
<1> QED BY <1>1, <1>2

\* Such functions agree where the summed functions do.
LEMMA SumsUpAgree ==
  ASSUME NEW S, IsFiniteSet(S), NEW T \in SUBSET S, NEW f, NEW h, NEW g, NEW k,
         SumsUp(g, f, S), SumsUp(k, h, T), \A x \in T : f[x] = h[x]
  PROVE  g[T] = k[T]
<1> DEFINE Z == {s \in SUBSET T : g[s] = k[s]}
<1>1. IsFiniteSet(T) BY FS_Subset
<1>2. ASSUME NEW s \in SUBSET T, \A x \in s : s \ {x} \in Z PROVE s \in Z
  <2>1. g[s] = IF s = {} THEN 0 ELSE f[OneOf(s)] + g[s \ {OneOf(s)}] BY DEF SumsUp
  <2>2. k[s] = IF s = {} THEN 0 ELSE h[OneOf(s)] + k[s \ {OneOf(s)}] BY DEF SumsUp
  <2>3. s # {} => OneOf(s) \in s BY DEF OneOf
  <2> QED BY <1>2, <2>1, <2>2, <2>3
<1>3. \A s \in SUBSET T : s \in Z
  <2> HIDE DEF Z
  <2> QED BY <1>1, <1>2, SetFiniteInduction
<1> QED BY <1>3

\* Equal functions have equal sums.
LEMMA SumEqual ==
  ASSUME NEW S, IsFiniteSet(S), NEW f, NEW h, \A x \in S : f[x] = h[x]
  PROVE  SumOf(f, S) = SumOf(h, S)
<1>1. PICK g : SumsUp(g, f, S) /\ SumOf(f, S) = g[S] BY SumFolds
<1>2. PICK k : SumsUp(k, h, S) /\ SumOf(h, S) = k[S] BY SumFolds
<1>3. S \in SUBSET S OBVIOUS
<1> QED BY <1>1, <1>2, <1>3, SumsUpAgree

LEMMA SumsUpType ==
  ASSUME NEW S, IsFiniteSet(S), NEW f, NEW g, SumsUp(g, f, S), \A x \in S : f[x] \in Int
  PROVE  \A s \in SUBSET S : g[s] \in Int
<1> DEFINE Z == {s \in SUBSET S : g[s] \in Int}
<1>1. ASSUME NEW s \in SUBSET S, \A x \in s : s \ {x} \in Z PROVE s \in Z
  <2>1. g[s] = IF s = {} THEN 0 ELSE f[OneOf(s)] + g[s \ {OneOf(s)}] BY DEF SumsUp
  <2>2. CASE s = {} BY <2>1, <2>2
  <2>3. CASE s # {}
    <3>1. OneOf(s) \in s BY <2>3 DEF OneOf
    <3>2. f[OneOf(s)] \in Int /\ g[s \ {OneOf(s)}] \in Int BY <1>1, <3>1
    <3>3. g[s] = f[OneOf(s)] + g[s \ {OneOf(s)}] BY <2>1, <2>3
    <3>4. g[s] \in Int BY <3>2, <3>3
    <3> QED BY <3>4
  <2> QED BY <2>2, <2>3
<1>2. \A s \in SUBSET S : s \in Z
  <2> HIDE DEF Z
  <2> QED BY <1>1, SetFiniteInduction
<1> QED BY <1>2

\* Any element may be taken out first, not only the one that is picked.
LEMMA SumsUpAnyOrder ==
  ASSUME NEW S, IsFiniteSet(S), NEW f, NEW g, SumsUp(g, f, S), \A x \in S : f[x] \in Int
  PROVE  \A s \in SUBSET S : \A x \in s : g[s] = f[x] + g[s \ {x}]
<1> DEFINE Z == {s \in SUBSET S : \A x \in s : g[s] = f[x] + g[s \ {x}]}
<1>0. \A s \in SUBSET S : g[s] \in Int BY SumsUpType
<1>1. ASSUME NEW s \in SUBSET S, \A x \in s : s \ {x} \in Z PROVE s \in Z
  <2> SUFFICES ASSUME NEW x \in s PROVE g[s] = f[x] + g[s \ {x}] OBVIOUS
  <2> DEFINE y == OneOf(s)
  <2>1. y \in s BY DEF OneOf
  <2>2. g[s] = f[y] + g[s \ {y}] BY DEF SumsUp
  <2> HIDE DEF y
  <2>3. CASE x = y BY <2>2, <2>3
  <2>4. CASE x # y
    <3> DEFINE both == (s \ {y}) \ {x}
    <3>1. g[s \ {y}] = f[x] + g[both] BY <1>1, <2>1, <2>4
    <3>2. both = (s \ {x}) \ {y} OBVIOUS
    <3>3. g[s \ {x}] = f[y] + g[both] BY <1>1, <2>1, <2>4, <3>2
    <3>4. both \in SUBSET S OBVIOUS
    <3> HIDE DEF both
    <3>5. f[x] \in Int /\ f[y] \in Int /\ g[both] \in Int BY <1>0, <2>1, <3>4
    <3> QED BY <2>2, <3>1, <3>3, <3>5
  <2> QED BY <2>3, <2>4
<1>2. \A s \in SUBSET S : s \in Z
  <2> HIDE DEF Z
  <2> QED BY <1>1, SetFiniteInduction
<1> QED BY <1>2

LEMMA SumType ==
  ASSUME NEW S, IsFiniteSet(S), NEW f, \A x \in S : f[x] \in Int
  PROVE  SumOf(f, S) \in Int
<1>1. PICK g : SumsUp(g, f, S) /\ SumOf(f, S) = g[S] BY SumFolds
<1> QED BY <1>1, SumsUpType

\* A sum is that of the others and one more.
LEMMA SumTakeOut ==
  ASSUME NEW S, IsFiniteSet(S), NEW f, \A x \in S : f[x] \in Int, NEW x \in S
  PROVE  SumOf(f, S) = f[x] + SumOf(f, S \ {x})
<1>1. PICK g : SumsUp(g, f, S) /\ SumOf(f, S) = g[S] BY SumFolds
<1>2. IsFiniteSet(S \ {x}) BY FS_RemoveElement
<1>3. PICK k : SumsUp(k, f, S \ {x}) /\ SumOf(f, S \ {x}) = k[S \ {x}] BY <1>2, SumFolds
<1>4. g[S \ {x}] = k[S \ {x}] BY <1>1, <1>3, SumsUpAgree
<1>5. g[S] = f[x] + g[S \ {x}]
  <2>1. S \in SUBSET S OBVIOUS
  <2> QED BY <1>1, <2>1, SumsUpAnyOrder
<1> QED BY <1>1, <1>3, <1>4, <1>5

\* A value that changes changes the sum by as much.
LEMMA SumChange ==
  ASSUME NEW S, IsFiniteSet(S), NEW f \in [S -> Int], NEW x \in S, NEW v \in Int
  PROVE  SumOf([f EXCEPT ![x] = v], S) = SumOf(f, S) + v - f[x]
<1> DEFINE h == [f EXCEPT ![x] = v]
<1>1. IsFiniteSet(S \ {x}) BY FS_RemoveElement
<1>2. h \in [S -> Int] /\ h[x] = v /\ \A y \in S \ {x} : h[y] = f[y] OBVIOUS
<1> HIDE DEF h
<1>3. SumOf(h, S) = h[x] + SumOf(h, S \ {x}) BY <1>2, SumTakeOut
<1>4. SumOf(f, S) = f[x] + SumOf(f, S \ {x}) BY SumTakeOut
<1>5. SumOf(h, S \ {x}) = SumOf(f, S \ {x}) BY <1>1, <1>2, SumEqual
<1>6. SumOf(f, S \ {x}) \in Int BY <1>1, SumType
<1>7. SumOf(h, S) = SumOf(f, S) + v - f[x] BY <1>2, <1>3, <1>4, <1>5, <1>6
<1> QED BY <1>7 DEF h

\* Of nothing but zeros the sum is zero.
LEMMA SumZero ==
  ASSUME NEW S, IsFiniteSet(S), NEW f, \A x \in S : f[x] = 0
  PROVE  SumOf(f, S) = 0
<1>1. PICK g : SumsUp(g, f, S) /\ SumOf(f, S) = g[S] BY SumFolds
<1> DEFINE Z == {s \in SUBSET S : g[s] = 0}
<1>2. ASSUME NEW s \in SUBSET S, \A x \in s : s \ {x} \in Z PROVE s \in Z
  <2>1. g[s] = IF s = {} THEN 0 ELSE f[OneOf(s)] + g[s \ {OneOf(s)}] BY <1>1 DEF SumsUp
  <2>2. s # {} => OneOf(s) \in s BY DEF OneOf
  <2> QED BY <1>2, <2>1, <2>2
<1>3. \A s \in SUBSET S : s \in Z
  <2> HIDE DEF Z
  <2> QED BY <1>2, SetFiniteInduction
<1> QED BY <1>1, <1>3

(***************************************************************************)
(* PokaYoke.  A scan whose request has been told to install is covered by  *)
(* what the unit still requires, as long as it has been the only one since *)
(* it was checked.                                                         *)
(***************************************************************************)
\* Nobody else is between the checks and the end.
OneScan == ~ crossed => \A r, s \in ScanRequests : scanReq[r] # NoScan /\ scanReq[s] # NoScan => r = s

\* What is about to be installed is still required.
StillRequired ==
  ~ crossed => \A r \in ScanRequests : scanReq[r].does = "install" => Consumed + 1 <= Required

ScanInv == PokaYokeTypeOK /\ ScanOnce /\ ScansWithinRequired /\ OneScan /\ StillRequired

LEMMA ConsumedIsSum ==
  /\ Consumed = SumOf(consumed, Scans)
  /\ Consumed' = SumOf(consumed', Scans)
<1>1. Consumed = SumOf(consumed, Scans) BY DEF Consumed, SumOf
<1>2. Consumed' = SumOf(consumed', Scans) BY DEF Consumed, SumOf, MapThenSumSet, MapThenFoldSet
<1> QED BY <1>1, <1>2

LEMMA ScanConstants ==
  IsFiniteSet(Scans) /\ Required \in Nat /\ MaxStock \in Nat /\ MaxByHand \in Nat
  BY PokaYokeAssumption

LEMMA ConsumedType == PokaYokeTypeOK => Consumed \in Int
  BY ConsumedIsSum, SumType, PokaYokeAssumption DEF PokaYokeTypeOK

LEMMA InitScanInv == PokaYokeInit => ScanInv
<1> SUFFICES ASSUME PokaYokeInit PROVE ScanInv OBVIOUS
<1>1. PokaYokeTypeOK
  <2>1. 0 \in 0..MaxStock /\ 0 \in 0..MaxByHand /\ 0 \in Int BY ScanConstants
  <2>2. consumed \in [Scans -> Nat] BY DEF PokaYokeInit
  <2>3. attempt \in [Scans -> Results \union {"NONE"}] BY DEF PokaYokeInit
  <2>4. scanReq \in [ScanRequests -> ScanRequest \union {NoScan}] BY DEF PokaYokeInit
  <2> QED BY <2>1, <2>2, <2>3, <2>4 DEF PokaYokeInit, PokaYokeTypeOK
<1>2. Consumed = 0 BY ConsumedIsSum, SumZero, ScanConstants DEF PokaYokeInit
<1>3. ScanOnce /\ ScansWithinRequired
  BY <1>2, ScanConstants DEF PokaYokeInit, ScanOnce, ScansWithinRequired
<1>4. OneScan /\ StillRequired BY DEF PokaYokeInit, OneScan, StillRequired, NoScan
<1> QED BY <1>1, <1>3, <1>4 DEF ScanInv

\* What a request of each kind carries.
LEMMA ScanCarries ==
  ASSUME PokaYokeTypeOK, NEW r \in ScanRequests, scanReq[r] # NoScan
  PROVE  scanReq[r] \in ScanRequest /\ scanReq[r].scan \in Scans
                    /\ scanReq[r].does \in {"install", "reject"}
  BY DEF PokaYokeTypeOK, ScanRequest

\* A request ends, or has been told to reject, and nothing is consumed.
LEMMA ScanLeftInv ==
  ASSUME ScanInv, NEW r \in ScanRequests, NEW q \in ScanRequest \union {NoScan},
         scanReq' = [scanReq EXCEPT ![r] = q], q.does # "install", scanReq[r] # NoScan,
         UNCHANGED <<working, stock, outside, consumed, byHand, crossed>>,
         attempt' \in [Scans -> Results \union {"NONE"}],
         \A x \in Scans : attempt'[x] = "ACCEPTED" <=> attempt[x] = "ACCEPTED"
  PROVE  ScanInv'
<1>1. PokaYokeTypeOK' BY DEF ScanInv, PokaYokeTypeOK
<1>2. UNCHANGED Consumed BY ConsumedIsSum
<1>3. ScanOnce' /\ ScansWithinRequired'
  BY <1>2 DEF ScanInv, ScanOnce, ScansWithinRequired
<1>4. \A s \in ScanRequests : scanReq'[s] = IF s = r THEN q ELSE scanReq[s]
  BY DEF ScanInv, PokaYokeTypeOK
<1>5. OneScan' BY <1>4 DEF ScanInv, OneScan
<1>6. StillRequired' BY <1>2, <1>4 DEF ScanInv, StillRequired
<1> QED BY <1>1, <1>3, <1>5, <1>6 DEF ScanInv

LEMMA RefusedScanInv == ASSUME ScanInv, NEW r \in ScanRequests, Refused(r) PROVE ScanInv'
<1>1. scanReq[r] # NoScan BY DEF Refused, NoScan
<1>2. scanReq[r] \in ScanRequest BY <1>1, ScanCarries DEF ScanInv
<1> DEFINE q == [scanReq[r] EXCEPT !.does = "reject"]
<1>3. q \in ScanRequest /\ q.does # "install" BY <1>2 DEF ScanRequest
<1>4. scanReq' = [scanReq EXCEPT ![r] = q] BY DEF Refused
<1>5. attempt' \in [Scans -> Results \union {"NONE"}] /\ UNCHANGED attempt
  BY DEF Refused, ScanInv, PokaYokeTypeOK
<1> HIDE DEF q
<1> QED BY <1>1, <1>3, <1>4, <1>5, ScanLeftInv DEF Refused

LEMMA RejectScanInv == ASSUME ScanInv, NEW r \in ScanRequests, Reject(r) PROVE ScanInv'
<1>1. scanReq[r] # NoScan BY DEF Reject, NoScan
<1>2. scanReq[r].scan \in Scans BY <1>1, ScanCarries DEF ScanInv
<1>3. /\ attempt' \in [Scans -> Results \union {"NONE"}]
      /\ \A x \in Scans : attempt'[x] = "ACCEPTED" <=> attempt[x] = "ACCEPTED"
  BY <1>2 DEF Reject, ScanInv, PokaYokeTypeOK, Results
<1>4. NoScan.does # "install" BY DEF NoScan
<1> QED BY <1>1, <1>3, <1>4, ScanLeftInv DEF Reject

LEMMA DiesScanInv == ASSUME ScanInv, NEW r \in ScanRequests, ScanDies(r) PROVE ScanInv'
<1>1. attempt' \in [Scans -> Results \union {"NONE"}] /\ UNCHANGED attempt
  BY DEF ScanDies, ScanInv, PokaYokeTypeOK
<1>2. NoScan.does # "install" BY DEF NoScan
<1> QED BY <1>1, <1>2, ScanLeftInv DEF ScanDies

\* A scan is checked.
LEMMA CheckScanInv ==
  ASSUME ScanInv, NEW r \in ScanRequests, NEW x \in Scans, Scan(r, x) PROVE ScanInv'
<1> DEFINE q == [does |-> IF Fits THEN "install" ELSE "reject", scan |-> x]
<1>1. q \in ScanRequest /\ (q.does = "install" => Fits) BY DEF ScanRequest
<1>2. scanReq' = [scanReq EXCEPT ![r] = q] BY DEF Scan
<1> HIDE DEF q
<1>3. \A s \in ScanRequests : scanReq'[s] = IF s = r THEN q ELSE scanReq[s]
  BY <1>2 DEF ScanInv, PokaYokeTypeOK
<1>4. PokaYokeTypeOK' BY <1>1, <1>2 DEF Scan, ScanInv, PokaYokeTypeOK
<1>5. UNCHANGED Consumed BY ConsumedIsSum DEF Scan
<1>6. ScanOnce' BY <1>5 DEF Scan, ScanInv, ScanOnce
<1>7. ~ crossed' => ~ crossed /\ \A s \in ScanRequests : scanReq[s] = NoScan BY DEF Scan
<1>8. ScansWithinRequired' BY <1>5, <1>7 DEF ScanInv, ScansWithinRequired
<1>9. OneScan' BY <1>3, <1>7 DEF OneScan
<1>10. Fits => Consumed + 1 <= Required
  BY ConsumedType, ScanConstants DEF Fits, ScanInv, PokaYokeTypeOK
<1>11. StillRequired' BY <1>1, <1>3, <1>5, <1>7, <1>10 DEF StillRequired, NoScan
<1> QED BY <1>4, <1>6, <1>8, <1>9, <1>11 DEF ScanInv

\* A piece is installed: its reference had no attempt, so it had consumed none.
LEMMA InstallScanInv == ASSUME ScanInv, NEW r \in ScanRequests, Install(r) PROVE ScanInv'
<1>1. scanReq[r] # NoScan BY DEF Install, NoScan
<1> PICK x \in Scans : x = scanReq[r].scan BY <1>1, ScanCarries DEF ScanInv
<1>2. /\ consumed' = [consumed EXCEPT ![x] = consumed[x] + 1]
      /\ attempt' = [attempt EXCEPT ![x] = "ACCEPTED"] /\ attempt[x] = "NONE"
      /\ scanReq' = [scanReq EXCEPT ![r] = NoScan]
      /\ stock >= 1 /\ stock' = stock - 1
      /\ UNCHANGED <<working, outside, byHand, crossed>>
  BY DEF Install
<1>3. consumed[x] \in Int /\ consumed \in [Scans -> Int] /\ consumed[x] + 1 \in Nat
  BY DEF ScanInv, PokaYokeTypeOK
<1>4. Consumed' = Consumed + 1
  <2> PICK n \in Int : n = consumed[x] + 1 BY <1>3
  <2>1. SumOf(consumed', Scans) = SumOf(consumed, Scans) + n - consumed[x]
    <3>1. consumed' = [consumed EXCEPT ![x] = n] BY <1>2
    <3>2. SumOf([consumed EXCEPT ![x] = n], Scans) = SumOf(consumed, Scans) + n - consumed[x]
      BY <1>3, SumChange, ScanConstants
    <3> QED BY <3>1, <3>2
  <2> QED BY <2>1, <1>3, ConsumedIsSum, ConsumedType DEF ScanInv
<1>5. PokaYokeTypeOK'
  <2>1. consumed' \in [Scans -> Nat] BY <1>2, <1>3 DEF ScanInv, PokaYokeTypeOK
  <2>2. stock' \in 0..MaxStock BY <1>2, ScanConstants DEF ScanInv, PokaYokeTypeOK
  <2> QED BY <1>2, <2>1, <2>2 DEF ScanInv, PokaYokeTypeOK, Results
<1>6. ScanOnce'
  <2>1. \A y \in Scans : consumed'[y] = IF attempt'[y] = "ACCEPTED" THEN 1 ELSE 0
    BY <1>2 DEF ScanInv, PokaYokeTypeOK, ScanOnce
  <2>2. stock' = outside' - Consumed'
    BY <1>2, <1>4, ConsumedType DEF ScanInv, PokaYokeTypeOK, ScanOnce
  <2> QED BY <2>1, <2>2 DEF ScanOnce
<1>7. scanReq[r].does = "install" BY DEF Install
<1>8. ScansWithinRequired'
  BY <1>2, <1>4, <1>7 DEF ScanInv, StillRequired, ScansWithinRequired
<1>9. \A s \in ScanRequests : scanReq'[s] = IF s = r THEN NoScan ELSE scanReq[s]
  BY <1>2 DEF ScanInv, PokaYokeTypeOK
<1>10. OneScan' BY <1>2, <1>9 DEF ScanInv, OneScan
<1>11. ~ crossed' => \A s \in ScanRequests : scanReq'[s] = NoScan
  BY <1>1, <1>2, <1>9 DEF ScanInv, OneScan
<1>12. StillRequired' BY <1>11 DEF StillRequired, NoScan
<1> QED BY <1>5, <1>6, <1>8, <1>10, <1>12 DEF ScanInv

\* Steps of others move stock and what is outside together, and consume nothing.
LEMMA OthersScanInv ==
  ASSUME ScanInv, (\E pieces \in {-1, 1} : Move(pieces)) \/ RegisterByHand \/ StationEvent
  PROVE  ScanInv'
<1>1. UNCHANGED <<consumed, attempt, crossed, scanReq>> BY DEF Move, RegisterByHand, StationEvent
<1>2. UNCHANGED Consumed BY <1>1, ConsumedIsSum
<1>3. PokaYokeTypeOK'
  <2>1. CASE \E pieces \in {-1, 1} : Move(pieces)
    BY <2>1 DEF ScanInv, PokaYokeTypeOK, Move
  <2>2. CASE RegisterByHand BY <2>2, ScanConstants DEF ScanInv, PokaYokeTypeOK, RegisterByHand
  <2>3. CASE StationEvent BY <2>3 DEF ScanInv, PokaYokeTypeOK, StationEvent
  <2> QED BY <2>1, <2>2, <2>3
<1>4. stock' - stock = outside' - outside
  BY ScanConstants DEF ScanInv, PokaYokeTypeOK, Move, RegisterByHand, StationEvent
<1>5. stock' = outside' - Consumed
  BY <1>3, <1>4, ConsumedType, ScanConstants DEF ScanInv, PokaYokeTypeOK, ScanOnce
<1>6. ScanOnce' BY <1>1, <1>2, <1>5 DEF ScanInv, ScanOnce
<1>7. ScansWithinRequired' BY <1>1, <1>2 DEF ScanInv, ScansWithinRequired
<1>8. OneScan' /\ StillRequired' BY <1>1, <1>2 DEF ScanInv, OneScan, StillRequired
<1> QED BY <1>3, <1>6, <1>7, <1>8 DEF ScanInv

\* The invariant of the scans, for every reachable state.
THEOREM ScanInvariance == PokaYokeSpec => []ScanInv
<1>1. ASSUME ScanInv, [PokaYokeNext]_scanVars PROVE ScanInv'
  <2>1. ASSUME NEW r \in ScanRequests,
               (\E x \in Scans : Scan(r, x)) \/ Install(r) \/ Refused(r) \/ Reject(r) \/ ScanDies(r)
        PROVE  ScanInv'
    BY <1>1, <2>1, CheckScanInv, InstallScanInv, RefusedScanInv, RejectScanInv, DiesScanInv
  <2>2. CASE UNCHANGED scanVars
    <3>1. UNCHANGED Consumed BY <2>2, ConsumedIsSum DEF scanVars
    <3> QED BY <1>1, <2>2, <3>1
            DEF scanVars, ScanInv, PokaYokeTypeOK, ScanOnce, ScansWithinRequired, OneScan, StillRequired
  <2> QED BY <1>1, <2>1, <2>2, OthersScanInv DEF PokaYokeNext
<1> QED BY <1>1, InitScanInv, PTL DEF PokaYokeSpec

\* Types of the scans' variables (wms/models.py, PokaYokeAttempt and the consumption).
THEOREM ScanTypeCorrect == PokaYokeSpec => []PokaYokeTypeOK
<1>1. ScanInv => PokaYokeTypeOK BY DEF ScanInv
<1> QED BY <1>1, ScanInvariance, PTL

\* process_component_scan: a reference installs at most one piece, its attempt says what came
\* of it, and the stock has lost what the accepted scans consumed.
THEOREM ScanOnceHolds == PokaYokeSpec => []ScanOnce
<1>1. ScanInv => ScanOnce BY DEF ScanInv
<1> QED BY <1>1, ScanInvariance, PTL

\* process_component_scan: scans one at a time never install more than is required.
THEOREM ScansWithinRequiredHolds == PokaYokeSpec => []ScansWithinRequired
<1>1. ScanInv => ScansWithinRequired BY DEF ScanInv
<1> QED BY <1>1, ScanInvariance, PTL

(***************************************************************************)
(* LineFeeding.  Requests write what they read some time ago; what they    *)
(* carry stays true meanwhile, because stock that was moved stays moved, a *)
(* kit that was released once gets only late lines, and a mission that     *)
(* exists serves the signals it was created for.                           *)
(***************************************************************************)
Fed(l) == \E t \in transfers : LineOf[t] = l
MissionFed(m) == \E t \in transfers : MissionOf[t] = m
SignalFed(s) == \E t \in transfers : s \in servedSignal[MissionOf[t]]

\* What a request has read holds when it writes.
FeedSound(r) ==
  LET q == feedReq[r]
  IN /\ q.does = "set_kit" =>
          /\ q.to # "READY"
          /\ q.to = "DELIVERED" => wasReleased /\ \A l \in kitLines \ lateLines : Fed(l)
     /\ q.does = "pick" => (q.kit = "RELEASED" => wasReleased)
     /\ q.does = "commit" =>
          (q.ready => wasReleased /\ \A l \in kitLines \ lateLines : l = LineOf[q.task] \/ Fed(l))
     /\ q.does = "fulfil" => SignalFed(q.signal)

KitWasReleased == kitStatus # "DRAFT" => wasReleased

PickedWasMoved == \A t \in Tasks : taskStatus[t] = "PICKED" => t \in transfers

MissionsSound ==
  \A m \in Missions :
    /\ missionStatus[m] = "COMPLETED" => MissionFed(m)
    /\ missionStatus[m] = "ABSENT" => servedSignal[m] = {}

SignalsServed ==
  \A s \in Signals : signalStatus[s] = "IN_PROGRESS" =>
    signalMission[s] \in Missions /\ s \in servedSignal[signalMission[s]]

FeedInv ==
  /\ LineFeedingTypeOK
  /\ ReadyIsPicked /\ FulfilledWasMoved
  /\ KitWasReleased /\ PickedWasMoved /\ MissionsSound /\ SignalsServed
  /\ \A r \in FeedRequests : FeedSound(r)

LEMMA InitFeedInv == LineFeedingInit => FeedInv
<1> SUFFICES ASSUME LineFeedingInit PROVE FeedInv OBVIOUS
<1>1. LineFeedingTypeOK BY DEF LineFeedingInit, LineFeedingTypeOK, KitStatuses
<1>2. ReadyIsPicked /\ FulfilledWasMoved BY DEF LineFeedingInit, ReadyIsPicked, FulfilledWasMoved
<1>3. KitWasReleased /\ PickedWasMoved /\ MissionsSound /\ SignalsServed
  BY DEF LineFeedingInit, KitWasReleased, PickedWasMoved, MissionsSound, SignalsServed
<1>4. \A r \in FeedRequests : FeedSound(r) BY DEF LineFeedingInit, FeedSound, NoFeedReq
<1> QED BY <1>1, <1>2, <1>3, <1>4 DEF FeedInv

\* What a request of each kind carries.
LEMMA FeedCarries ==
  ASSUME LineFeedingTypeOK, NEW r \in FeedRequests
  PROVE  LET q == feedReq[r]
         IN /\ q.does = "set_kit" => q.to \in KitStatuses
            /\ q.does = "add_line" => q.line \in Lines
            /\ q.does = "add_task" => q.task \in Tasks
            /\ q.does = "release" => q.mission \in Missions
            /\ q.does = "pick" =>
                 q.task \in Tasks /\ q.mission \in MissionStatuses /\ q.kit \in KitStatuses
            /\ q.does = "commit" =>
                 /\ q.task \in Tasks /\ q.mission \in MissionStatuses \union {"as_is"}
                 /\ q.ready \in BOOLEAN
            /\ q.does \in {"serve", "fulfil"} => q.signal \in Signals
<1> PICK q : q = feedReq[r] OBVIOUS
<1>1. q \in FeedRequest \union {NoFeedReq} BY DEF LineFeedingTypeOK
<1>2. q.does = "set_kit" => q.to \in KitStatuses BY <1>1 DEF FeedRequest, NoFeedReq
<1>3. /\ q.does = "add_line" => q.line \in Lines
      /\ q.does = "add_task" => q.task \in Tasks
      /\ q.does = "release" => q.mission \in Missions
  BY <1>1 DEF FeedRequest, NoFeedReq
<1>4. q.does = "pick" =>
        q.task \in Tasks /\ q.mission \in MissionStatuses /\ q.kit \in KitStatuses
  BY <1>1 DEF FeedRequest, NoFeedReq
<1>5. q.does = "commit" =>
        /\ q.task \in Tasks /\ q.mission \in MissionStatuses \union {"as_is"}
        /\ q.ready \in BOOLEAN
  BY <1>1 DEF FeedRequest, NoFeedReq
<1>6. q.does \in {"serve", "fulfil"} => q.signal \in Signals BY <1>1 DEF FeedRequest, NoFeedReq
<1> QED BY <1>2, <1>3, <1>4, <1>5, <1>6

\* What is moved stays moved, a released kit gets late lines only, and missions go on serving.
FeedGrows ==
  /\ transfers \subseteq transfers'
  /\ wasReleased => wasReleased' /\ kitLines' \ lateLines' \subseteq kitLines \ lateLines
  /\ \A m \in Missions : servedSignal[m] \subseteq servedSignal'[m]

\* Then what the requests carry stays sound.
LEMMA FeedSoundStays ==
  ASSUME FeedInv, FeedGrows, NEW r \in FeedRequests, feedReq'[r] = feedReq[r]
  PROVE  FeedSound(r)'
<1> PICK q : q = feedReq[r] OBVIOUS
<1>1. \A l : Fed(l) => Fed(l)' BY DEF FeedGrows, Fed
<1>2. q.does = "fulfil" => (SignalFed(q.signal) => SignalFed(q.signal)')
  BY FeedingAssumption DEF FeedGrows, FeedInv, LineFeedingTypeOK, SignalFed
<1>3. FeedSound(r) BY DEF FeedInv
<1>4. q.does = "set_kit" =>
        /\ q.to # "READY"
        /\ q.to = "DELIVERED" => wasReleased' /\ \A l \in kitLines' \ lateLines' : Fed(l)'
  BY <1>1, <1>3 DEF FeedSound, FeedGrows
<1>5. q.does = "pick" => (q.kit = "RELEASED" => wasReleased') BY <1>3 DEF FeedSound, FeedGrows
<1>6. q.does = "commit" =>
        (q.ready => wasReleased' /\ \A l \in kitLines' \ lateLines' : l = LineOf[q.task] \/ Fed(l)')
  BY <1>1, <1>3 DEF FeedSound, FeedGrows
<1>7. q.does = "fulfil" => SignalFed(q.signal)' BY <1>2, <1>3 DEF FeedSound
<1> QED BY <1>4, <1>5, <1>6, <1>7 DEF FeedSound

\* A request reads or ends, and no row changes.
LEMMA FeedReqInv ==
  ASSUME FeedInv, NEW r \in FeedRequests, NEW q \in FeedRequest \union {NoFeedReq},
         feedReq' = [feedReq EXCEPT ![r] = q], UNCHANGED <<kitVars, missionVars, signalVars>>,
         FeedSound(r)'
  PROVE  FeedInv'
<1>1. LineFeedingTypeOK' BY DEF FeedInv, LineFeedingTypeOK, kitVars, missionVars, signalVars
<1>2. ReadyIsPicked' /\ FulfilledWasMoved' /\ KitWasReleased' /\ PickedWasMoved'
  BY DEF FeedInv, ReadyIsPicked, FulfilledWasMoved, KitWasReleased, PickedWasMoved,
         kitVars, missionVars, signalVars
<1>3. MissionsSound' /\ SignalsServed'
  BY DEF FeedInv, MissionsSound, SignalsServed, MissionFed, missionVars, signalVars
<1>4. FeedGrows BY DEF FeedGrows, kitVars, missionVars
<1>5. \A s \in FeedRequests \ {r} : feedReq'[s] = feedReq[s] BY DEF FeedInv, LineFeedingTypeOK
<1>6. \A s \in FeedRequests \ {r} : FeedSound(s)' BY <1>4, <1>5, FeedSoundStays
<1> QED BY <1>1, <1>2, <1>3, <1>6 DEF FeedInv

LEMMA FeedReqIs ==
  ASSUME FeedInv, NEW r \in FeedRequests, NEW q, feedReq' = [feedReq EXCEPT ![r] = q]
  PROVE  feedReq'[r] = q
  BY DEF FeedInv, LineFeedingTypeOK

\* A request ends after a write.
LEMMA AnsweredSound ==
  ASSUME FeedInv, NEW r \in FeedRequests, Answered(r), FeedGrows
  PROVE  /\ feedReq' \in [FeedRequests -> FeedRequest \union {NoFeedReq}]
         /\ \A s \in FeedRequests : FeedSound(s)'
<1>1. /\ feedReq' \in [FeedRequests -> FeedRequest \union {NoFeedReq}]
      /\ feedReq'[r] = NoFeedReq
      /\ \A s \in FeedRequests \ {r} : feedReq'[s] = feedReq[s]
  BY DEF Answered, FeedInv, LineFeedingTypeOK
<1>2. FeedSound(r)' BY <1>1 DEF FeedSound, NoFeedReq
<1> QED BY <1>1, <1>2, FeedSoundStays

\* Most requests rely on nothing that they have read.
LEMMA FeedSoundAnyway ==
  ASSUME NEW r, feedReq'[r].does \in {"add_line", "add_task", "release", "serve"}
  PROVE  FeedSound(r)'
  BY DEF FeedSound

\* A handler reads its row.
LEMMA AskFeedInv ==
  ASSUME FeedInv, NEW r \in FeedRequests,
         \/ \E to \in KitStatuses : AskKit(r, to)
         \/ \E l \in Lines : AskLine(r, l)
         \/ \E t \in Tasks : AskTask(r, t) \/ AskPick(r, t)
         \/ \E m \in Missions : AskRelease(r, m)
         \/ \E s \in Signals : AskServe(r, s) \/ AskFulfil(r, s)
         \/ FeedReqDies(r)
  PROVE  FeedInv'
<1>1. ASSUME NEW to \in KitStatuses, AskKit(r, to) PROVE FeedInv'
  <2> PICK q : q = [does |-> "set_kit", to |-> to] OBVIOUS
  <2>1. q \in FeedRequest /\ feedReq' = [feedReq EXCEPT ![r] = q]
        /\ UNCHANGED <<kitVars, missionVars, signalVars>>
    BY <1>1 DEF AskKit, Read, FeedRequest
  <2>2. feedReq'[r] = q BY <2>1, FeedReqIs
  <2>3. to # "READY" /\ (to = "DELIVERED" => kitStatus = "READY") BY <1>1 DEF AskKit
  <2>4. to = "DELIVERED" => wasReleased /\ \A l \in kitLines \ lateLines : Fed(l)
    BY <2>3 DEF FeedInv, KitWasReleased, ReadyIsPicked, Fed
  <2>5. FeedSound(r)' BY <2>1, <2>2, <2>3, <2>4 DEF FeedSound, Fed, kitVars, missionVars
  <2> QED BY <2>1, <2>5, FeedReqInv
<1>2. ASSUME NEW l \in Lines, AskLine(r, l) PROVE FeedInv'
  <2> PICK q : q = [does |-> "add_line", line |-> l] OBVIOUS
  <2>1. q \in FeedRequest /\ feedReq' = [feedReq EXCEPT ![r] = q]
        /\ UNCHANGED <<kitVars, missionVars, signalVars>>
    BY <1>2 DEF AskLine, Read, FeedRequest
  <2>2. feedReq'[r] = q BY <2>1, FeedReqIs
  <2>3. FeedSound(r)' BY <2>2, FeedSoundAnyway
  <2> QED BY <2>1, <2>3, FeedReqInv
<1>3. ASSUME NEW t \in Tasks, AskTask(r, t) PROVE FeedInv'
  <2> PICK q : q = [does |-> "add_task", task |-> t] OBVIOUS
  <2>1. q \in FeedRequest /\ feedReq' = [feedReq EXCEPT ![r] = q]
        /\ UNCHANGED <<kitVars, missionVars, signalVars>>
    BY <1>3 DEF AskTask, Read, FeedRequest
  <2>2. feedReq'[r] = q BY <2>1, FeedReqIs
  <2>3. FeedSound(r)' BY <2>2, FeedSoundAnyway
  <2> QED BY <2>1, <2>3, FeedReqInv
<1>4. ASSUME NEW t \in Tasks, AskPick(r, t) PROVE FeedInv'
  <2> PICK q : q = [does |-> "pick", task |-> t, mission |-> missionStatus[MissionOf[t]],
                    kit |-> kitStatus]
    OBVIOUS
  <2>1. q \in FeedRequest
    BY <1>4 DEF AskPick, FeedRequest, FeedInv, LineFeedingTypeOK, MissionStatuses
  <2>2. feedReq' = [feedReq EXCEPT ![r] = q] /\ UNCHANGED <<kitVars, missionVars, signalVars>>
    BY <1>4 DEF AskPick, Read
  <2>3. feedReq'[r] = q BY <2>2, FeedReqIs
  <2>4. q.kit = "RELEASED" => wasReleased BY DEF FeedInv, KitWasReleased
  <2>5. FeedSound(r)' BY <2>2, <2>3, <2>4 DEF FeedSound, kitVars
  <2> QED BY <2>1, <2>2, <2>5, FeedReqInv
<1>5. ASSUME NEW m \in Missions, AskRelease(r, m) PROVE FeedInv'
  <2> PICK q : q = [does |-> "release", mission |-> m] OBVIOUS
  <2>1. q \in FeedRequest /\ feedReq' = [feedReq EXCEPT ![r] = q]
        /\ UNCHANGED <<kitVars, missionVars, signalVars>>
    BY <1>5 DEF AskRelease, Read, FeedRequest
  <2>2. feedReq'[r] = q BY <2>1, FeedReqIs
  <2>3. FeedSound(r)' BY <2>2, FeedSoundAnyway
  <2> QED BY <2>1, <2>3, FeedReqInv
<1>6. ASSUME NEW s \in Signals, AskServe(r, s) PROVE FeedInv'
  <2> PICK q : q = [does |-> "serve", signal |-> s] OBVIOUS
  <2>1. q \in FeedRequest /\ feedReq' = [feedReq EXCEPT ![r] = q]
        /\ UNCHANGED <<kitVars, missionVars, signalVars>>
    BY <1>6 DEF AskServe, Read, FeedRequest
  <2>2. feedReq'[r] = q BY <2>1, FeedReqIs
  <2>3. FeedSound(r)' BY <2>2, FeedSoundAnyway
  <2> QED BY <2>1, <2>3, FeedReqInv
<1>7. ASSUME NEW s \in Signals, AskFulfil(r, s) PROVE FeedInv'
  <2> PICK q : q = [does |-> "fulfil", signal |-> s] OBVIOUS
  <2>1. q \in FeedRequest /\ feedReq' = [feedReq EXCEPT ![r] = q]
        /\ UNCHANGED <<kitVars, missionVars, signalVars>>
    BY <1>7 DEF AskFulfil, Read, FeedRequest
  <2>2. feedReq'[r] = q BY <2>1, FeedReqIs
  <2> PICK m : m = signalMission[s] OBVIOUS
  <2>3. m \in Missions /\ s \in servedSignal[m] /\ missionStatus[m] = "COMPLETED"
    BY <1>7 DEF AskFulfil, FeedInv, SignalsServed
  <2>4. SignalFed(s) BY <2>3 DEF FeedInv, MissionsSound, MissionFed, SignalFed
  <2>5. FeedSound(r)' BY <2>1, <2>2, <2>4 DEF FeedSound, SignalFed, missionVars
  <2> QED BY <2>1, <2>5, FeedReqInv
<1>8. CASE FeedReqDies(r)
  <2>1. feedReq' = [feedReq EXCEPT ![r] = NoFeedReq] /\ UNCHANGED <<kitVars, missionVars, signalVars>>
    BY <1>8 DEF FeedReqDies, Answered
  <2>2. feedReq'[r] = NoFeedReq BY <2>1, FeedReqIs
  <2>3. FeedSound(r)' BY <2>2 DEF FeedSound, NoFeedReq
  <2> QED BY <2>1, <2>3, FeedReqInv
<1> QED BY <1>1, <1>2, <1>3, <1>4, <1>5, <1>6, <1>7, <1>8

\* The kit's row, or a line of it, is saved.
LEMMA SetKitFeedInv == ASSUME FeedInv, NEW r \in FeedRequests, SetKit(r) PROVE FeedInv'
<1> PICK q : q = feedReq[r] OBVIOUS
<1>1. q.to \in KitStatuses BY FeedCarries DEF FeedInv, SetKit
<1>2. FeedGrows BY DEF SetKit, FeedGrows, missionVars
<1>3. FeedSound(r) /\ q.does = "set_kit" BY DEF FeedInv, SetKit
<1>4. LineFeedingTypeOK'
  BY <1>1, <1>2, AnsweredSound DEF SetKit, FeedInv, LineFeedingTypeOK, missionVars, signalVars
<1>5. ReadyIsPicked' BY <1>3 DEF SetKit, FeedSound, Fed, ReadyIsPicked, missionVars
<1>6. KitWasReleased' BY <1>1, <1>3 DEF SetKit, FeedSound, KitWasReleased, KitStatuses
<1>7. FulfilledWasMoved' /\ PickedWasMoved' /\ MissionsSound' /\ SignalsServed'
  BY DEF SetKit, FeedInv, FulfilledWasMoved, PickedWasMoved, MissionsSound, MissionFed,
         SignalsServed, missionVars, signalVars
<1>8. \A s \in FeedRequests : FeedSound(s)' BY <1>2, AnsweredSound DEF SetKit
<1> QED BY <1>4, <1>5, <1>6, <1>7, <1>8 DEF FeedInv

LEMMA AddLineFeedInv == ASSUME FeedInv, NEW r \in FeedRequests, AddLine(r) PROVE FeedInv'
<1> PICK l : l = feedReq[r].line OBVIOUS
<1>1. l \in Lines BY FeedCarries DEF FeedInv, AddLine
<1>2. FeedGrows BY DEF AddLine, FeedGrows, missionVars
<1>3. LineFeedingTypeOK'
  BY <1>1, <1>2, AnsweredSound DEF AddLine, FeedInv, LineFeedingTypeOK, missionVars, signalVars
<1>4. ReadyIsPicked' BY DEF AddLine, FeedInv, KitWasReleased, ReadyIsPicked, missionVars
<1>5. KitWasReleased' /\ FulfilledWasMoved' /\ PickedWasMoved' /\ MissionsSound' /\ SignalsServed'
  BY DEF AddLine, FeedInv, KitWasReleased, FulfilledWasMoved, PickedWasMoved, MissionsSound,
         MissionFed, SignalsServed, missionVars, signalVars
<1>6. \A s \in FeedRequests : FeedSound(s)' BY <1>2, AnsweredSound DEF AddLine
<1> QED BY <1>3, <1>4, <1>5, <1>6 DEF FeedInv

\* A mission is created, gets a task or is released.
LEMMA CreateMissionFeedInv == ASSUME FeedInv, NEW m \in Missions, CreateMission(m) PROVE FeedInv'
<1>1. FeedGrows BY DEF CreateMission, FeedGrows, kitVars
<1>2. LineFeedingTypeOK'
  BY DEF CreateMission, FeedInv, LineFeedingTypeOK, MissionStatuses, kitVars, signalVars
<1>3. ReadyIsPicked' /\ KitWasReleased' /\ FulfilledWasMoved' /\ PickedWasMoved' /\ SignalsServed'
  BY DEF CreateMission, FeedInv, ReadyIsPicked, KitWasReleased, FulfilledWasMoved, PickedWasMoved,
         SignalsServed, kitVars, signalVars
<1>4. MissionsSound'
  BY DEF CreateMission, FeedInv, LineFeedingTypeOK, MissionsSound, MissionFed
<1>5. \A s \in FeedRequests : FeedSound(s)' BY <1>1, FeedSoundStays DEF CreateMission
<1> QED BY <1>2, <1>3, <1>4, <1>5 DEF FeedInv

LEMMA AddTaskFeedInv == ASSUME FeedInv, NEW r \in FeedRequests, AddTask(r) PROVE FeedInv'
<1> PICK t : t = feedReq[r].task OBVIOUS
<1>1. t \in Tasks BY FeedCarries DEF FeedInv, AddTask
<1>2. FeedGrows BY DEF AddTask, FeedGrows, kitVars
<1>3. LineFeedingTypeOK'
  BY <1>1, <1>2, AnsweredSound DEF AddTask, FeedInv, LineFeedingTypeOK, kitVars, signalVars
<1>4. ReadyIsPicked' /\ KitWasReleased' /\ FulfilledWasMoved' /\ MissionsSound' /\ SignalsServed'
  BY DEF AddTask, FeedInv, ReadyIsPicked, KitWasReleased, FulfilledWasMoved, MissionsSound,
         MissionFed, SignalsServed, kitVars, signalVars
<1>5. PickedWasMoved' BY <1>1 DEF AddTask, FeedInv, LineFeedingTypeOK, PickedWasMoved
<1>6. \A s \in FeedRequests : FeedSound(s)' BY <1>2, AnsweredSound DEF AddTask
<1> QED BY <1>3, <1>4, <1>5, <1>6 DEF FeedInv

LEMMA ReleaseFeedInv == ASSUME FeedInv, NEW r \in FeedRequests, Release(r) PROVE FeedInv'
<1> PICK m : m = feedReq[r].mission OBVIOUS
<1>1. m \in Missions BY FeedCarries DEF FeedInv, Release
<1>2. FeedGrows BY DEF Release, FeedGrows, kitVars
<1>3. LineFeedingTypeOK'
  BY <1>1, <1>2, AnsweredSound
     DEF Release, FeedInv, LineFeedingTypeOK, MissionStatuses, kitVars, signalVars
<1>4. ReadyIsPicked' /\ KitWasReleased' /\ FulfilledWasMoved' /\ PickedWasMoved' /\ SignalsServed'
  BY DEF Release, FeedInv, ReadyIsPicked, KitWasReleased, FulfilledWasMoved, PickedWasMoved,
         SignalsServed, kitVars, signalVars
<1>5. MissionsSound' BY <1>1 DEF Release, FeedInv, LineFeedingTypeOK, MissionsSound, MissionFed
<1>6. \A s \in FeedRequests : FeedSound(s)' BY <1>2, AnsweredSound DEF Release
<1> QED BY <1>3, <1>4, <1>5, <1>6 DEF FeedInv

\* A pick looks at the other lines: they are picked, and so stock was moved for them.
LEMMA SyncPickFeedInv == ASSUME FeedInv, NEW r \in FeedRequests, SyncPick(r) PROVE FeedInv'
<1> PICK q : q = feedReq[r] OBVIOUS
<1>1. q.does = "pick" /\ q.task \in Tasks /\ q.mission \in MissionStatuses
  BY FeedCarries DEF FeedInv, SyncPick
<1>2. PICK was \in {q.kit, kitStatus} :
        feedReq' = [feedReq EXCEPT ![r] =
          [does |-> "commit", task |-> q.task, mission |-> MissionAfter(q.task, q.mission),
           ready |-> Ready(q.task, was)]]
  BY DEF SyncPick
<1> PICK p : p = [does |-> "commit", task |-> q.task, mission |-> MissionAfter(q.task, q.mission),
                  ready |-> Ready(q.task, was)]
  OBVIOUS
<1>3. p \in FeedRequest
  <2>1. MissionAfter(q.task, q.mission) \in MissionStatuses \union {"as_is"}
    BY DEF MissionAfter, MissionStatuses
  <2>2. Ready(q.task, was) \in BOOLEAN BY DEF Ready
  <2> QED BY <1>1, <2>1, <2>2 DEF FeedRequest
<1>4. UNCHANGED <<kitVars, missionVars, signalVars>> BY DEF SyncPick
<1>5. feedReq'[r] = p BY <1>2, FeedReqIs
<1>6. p.ready => wasReleased /\ \A l \in kitLines : l = LineOf[q.task] \/ Fed(l)
  <2> SUFFICES ASSUME Ready(q.task, was)
               PROVE  wasReleased /\ \A l \in kitLines : l = LineOf[q.task] \/ Fed(l)
    OBVIOUS
  <2>1. was = "RELEASED" /\ \A l \in kitLines : l = LineOf[q.task] \/ Picked(l) BY DEF Ready
  <2>2. FeedSound(r) /\ KitWasReleased BY DEF FeedInv
  <2>3. wasReleased BY <1>1, <2>1, <2>2 DEF FeedSound, KitWasReleased
  <2>4. \A l : Picked(l) => Fed(l) BY DEF Picked, Fed, FeedInv, PickedWasMoved
  <2> QED BY <2>1, <2>3, <2>4
<1>7. FeedSound(r)' BY <1>4, <1>5, <1>6 DEF FeedSound, Fed, kitVars, missionVars
<1> QED BY <1>2, <1>3, <1>4, <1>7, FeedReqInv

\* A pick commits: its task is moved, and with it the kit or the mission may be complete.
LEMMA CommitPickFeedInv == ASSUME FeedInv, NEW r \in FeedRequests, CommitPick(r) PROVE FeedInv'
<1> PICK q : q = feedReq[r] OBVIOUS
<1>1. /\ q.does = "commit" /\ q.task \in Tasks /\ q.mission \in MissionStatuses \union {"as_is"}
      /\ q.ready \in BOOLEAN
  BY FeedCarries DEF FeedInv, CommitPick
<1>2. MissionOf[q.task] \in Missions BY <1>1, FeedingAssumption
<1>3. /\ taskStatus' = [taskStatus EXCEPT ![q.task] = "PICKED"]
      /\ transfers' = transfers \union {q.task}
      /\ missionStatus' = IF q.mission = "as_is" THEN missionStatus
                          ELSE [missionStatus EXCEPT ![MissionOf[q.task]] = q.mission]
      /\ kitStatus' = IF q.ready THEN "READY" ELSE kitStatus
      /\ Answered(r)
      /\ UNCHANGED <<kitLines, wasReleased, lateLines, servedSignal, signalStatus, signalMission>>
  BY DEF CommitPick, signalVars
<1>4. FeedGrows BY <1>3 DEF FeedGrows
<1>5. LineFeedingTypeOK'
  <2>1. missionStatus' \in [Missions -> MissionStatuses \union {"ABSENT"}]
    BY <1>1, <1>2, <1>3 DEF FeedInv, LineFeedingTypeOK
  <2>2. taskStatus' \in [Tasks -> {"ABSENT", "PENDING", "PICKED"}] /\ transfers' \subseteq Tasks
    BY <1>1, <1>3 DEF FeedInv, LineFeedingTypeOK
  <2>3. kitStatus' \in KitStatuses BY <1>3 DEF FeedInv, LineFeedingTypeOK, KitStatuses
  <2>4. feedReq' \in [FeedRequests -> FeedRequest \union {NoFeedReq}]
    BY <1>3, <1>4, AnsweredSound
  <2> QED BY <1>3, <2>1, <2>2, <2>3, <2>4 DEF FeedInv, LineFeedingTypeOK
<1>6. \A l : Fed(l) \/ l = LineOf[q.task] => Fed(l)' BY <1>3 DEF Fed
<1>7. ReadyIsPicked'
  <2>1. CASE q.ready
    <3>1. FeedSound(r) BY DEF FeedInv
    <3>2. \A l \in kitLines \ lateLines : l = LineOf[q.task] \/ Fed(l)
      BY <1>1, <2>1, <3>1 DEF FeedSound
    <3>3. \A l \in kitLines' \ lateLines' : Fed(l)' BY <1>3, <1>6, <3>2
    <3> QED BY <3>3 DEF ReadyIsPicked, Fed
  <2>2. CASE ~ q.ready BY <1>3, <2>2 DEF FeedInv, ReadyIsPicked
  <2> QED BY <1>1, <2>1, <2>2
<1>8. KitWasReleased'
  <2>1. FeedSound(r) BY DEF FeedInv
  <2> QED BY <1>1, <1>3, <2>1 DEF FeedInv, KitWasReleased, FeedSound
<1>9. FulfilledWasMoved' /\ SignalsServed'
  BY <1>3 DEF FeedInv, FulfilledWasMoved, SignalsServed
<1>10. PickedWasMoved' BY <1>1, <1>3 DEF FeedInv, LineFeedingTypeOK, PickedWasMoved
<1>11. MissionsSound'
  <2>1. \A m : MissionFed(m) => MissionFed(m)' BY <1>3 DEF MissionFed
  <2>2. MissionFed(MissionOf[q.task])' BY <1>3 DEF MissionFed
  <2>3. \A m \in Missions : m # MissionOf[q.task] => missionStatus'[m] = missionStatus[m]
    BY <1>3 DEF FeedInv, LineFeedingTypeOK
  <2>4. missionStatus'[MissionOf[q.task]] = "ABSENT" => missionStatus[MissionOf[q.task]] = "ABSENT"
    BY <1>1, <1>2, <1>3 DEF FeedInv, LineFeedingTypeOK, MissionStatuses
  <2> QED BY <1>3, <2>1, <2>2, <2>3, <2>4 DEF FeedInv, MissionsSound
<1>12. \A s \in FeedRequests : FeedSound(s)' BY <1>3, <1>4, AnsweredSound
<1> QED BY <1>5, <1>7, <1>8, <1>9, <1>10, <1>11, <1>12 DEF FeedInv

\* A signal is opened, served by a new mission, or fulfilled.
LEMMA CreateSignalFeedInv == ASSUME FeedInv, NEW s \in Signals, CreateSignal(s) PROVE FeedInv'
<1>1. FeedGrows BY DEF CreateSignal, FeedGrows, kitVars, missionVars
<1>2. LineFeedingTypeOK'
  BY DEF CreateSignal, FeedInv, LineFeedingTypeOK, SignalStatuses, kitVars, missionVars
<1>3. ReadyIsPicked' /\ KitWasReleased' /\ PickedWasMoved' /\ MissionsSound'
  BY DEF CreateSignal, FeedInv, ReadyIsPicked, KitWasReleased, PickedWasMoved, MissionsSound,
         MissionFed, kitVars, missionVars
<1>4. FulfilledWasMoved' /\ SignalsServed'
  BY DEF CreateSignal, FeedInv, LineFeedingTypeOK, FulfilledWasMoved, SignalsServed, missionVars
<1>5. \A r \in FeedRequests : FeedSound(r)' BY <1>1, FeedSoundStays DEF CreateSignal
<1> QED BY <1>2, <1>3, <1>4, <1>5 DEF FeedInv

LEMMA ServeFeedInv ==
  ASSUME FeedInv, NEW r \in FeedRequests, NEW m \in Missions, Serve(r, m) PROVE FeedInv'
<1> PICK s : s = feedReq[r].signal OBVIOUS
<1>1. s \in Signals BY FeedCarries DEF FeedInv, Serve
<1>2. /\ servedSignal' = [servedSignal EXCEPT ![m] = {s}]
      /\ signalMission' = [signalMission EXCEPT ![s] = m]
      /\ signalStatus' = [signalStatus EXCEPT ![s] = "IN_PROGRESS"]
      /\ missionStatus' = [missionStatus EXCEPT ![m] = "DRAFT"] /\ missionStatus[m] = "ABSENT"
      /\ Answered(r)
      /\ UNCHANGED <<kitStatus, kitLines, wasReleased, lateLines, transfers>>
  BY DEF Serve, kitVars
<1>3. /\ taskStatus' \in [Tasks -> {"ABSENT", "PENDING", "PICKED"}]
      /\ \A t \in Tasks : taskStatus'[t] = "PICKED" => taskStatus[t] = "PICKED"
  BY DEF Serve, FeedInv, LineFeedingTypeOK
<1>4. servedSignal[m] = {} BY <1>2 DEF FeedInv, MissionsSound
<1>5. FeedGrows BY <1>2, <1>4 DEF FeedGrows, FeedInv, LineFeedingTypeOK
<1>6. LineFeedingTypeOK'
  <2>1. feedReq' \in [FeedRequests -> FeedRequest \union {NoFeedReq}]
    BY <1>2, <1>5, AnsweredSound
  <2> QED BY <1>1, <1>2, <1>3, <2>1
          DEF FeedInv, LineFeedingTypeOK, MissionStatuses, SignalStatuses
<1>7. ReadyIsPicked' /\ KitWasReleased' BY <1>2 DEF FeedInv, ReadyIsPicked, KitWasReleased
<1>8. FulfilledWasMoved'
  <2>1. \A n \in Missions : servedSignal[n] \subseteq servedSignal'[n] BY <1>5 DEF FeedGrows
  <2>2. \A x \in Signals : signalStatus'[x] = "FULFILLED" => signalStatus[x] = "FULFILLED"
    BY <1>2 DEF FeedInv, LineFeedingTypeOK
  <2>3. \A t \in transfers : MissionOf[t] \in Missions
    BY FeedingAssumption DEF FeedInv, LineFeedingTypeOK
  <2> QED BY <1>2, <2>1, <2>2, <2>3 DEF FeedInv, FulfilledWasMoved
<1>9. PickedWasMoved' BY <1>2, <1>3 DEF FeedInv, PickedWasMoved
<1>10. MissionsSound' BY <1>2 DEF FeedInv, LineFeedingTypeOK, MissionsSound, MissionFed
<1>11. SignalsServed'
  <2>1. \A n \in Missions : servedSignal[n] \subseteq servedSignal'[n] BY <1>5 DEF FeedGrows
  <2> QED BY <1>1, <1>2, <2>1 DEF FeedInv, LineFeedingTypeOK, SignalsServed
<1>12. \A x \in FeedRequests : FeedSound(x)' BY <1>2, <1>5, AnsweredSound
<1> QED BY <1>6, <1>7, <1>8, <1>9, <1>10, <1>11, <1>12 DEF FeedInv

LEMMA FulfilFeedInv == ASSUME FeedInv, NEW r \in FeedRequests, Fulfil(r) PROVE FeedInv'
<1> PICK s : s = feedReq[r].signal OBVIOUS
<1>1. s \in Signals BY FeedCarries DEF FeedInv, Fulfil
<1>2. FeedGrows BY DEF Fulfil, FeedGrows, kitVars, missionVars
<1>3. FeedSound(r) /\ feedReq[r].does = "fulfil" BY DEF FeedInv, Fulfil
<1>4. LineFeedingTypeOK'
  BY <1>1, <1>2, AnsweredSound
     DEF Fulfil, FeedInv, LineFeedingTypeOK, SignalStatuses, kitVars, missionVars
<1>5. ReadyIsPicked' /\ KitWasReleased' /\ PickedWasMoved' /\ MissionsSound'
  BY DEF Fulfil, FeedInv, ReadyIsPicked, KitWasReleased, PickedWasMoved, MissionsSound,
         MissionFed, kitVars, missionVars
<1>6. FulfilledWasMoved'
  <2>1. SignalFed(s) BY <1>3 DEF FeedSound
  <2> QED BY <1>1, <2>1 DEF Fulfil, FeedInv, LineFeedingTypeOK, FulfilledWasMoved, SignalFed, missionVars
<1>7. SignalsServed' BY <1>1 DEF Fulfil, FeedInv, LineFeedingTypeOK, SignalsServed, missionVars
<1>8. \A x \in FeedRequests : FeedSound(x)' BY <1>2, AnsweredSound DEF Fulfil
<1> QED BY <1>4, <1>5, <1>6, <1>7, <1>8 DEF FeedInv

\* The invariant of the line feeding, for every reachable state.
THEOREM FeedInvariance == LineFeedingSpec => []FeedInv
<1>1. ASSUME FeedInv, [LineFeedingNext]_feedVars PROVE FeedInv'
  <2>1. CASE KitStep BY <1>1, <2>1, AskFeedInv, SetKitFeedInv, AddLineFeedInv DEF KitStep
  <2>2. CASE MissionStep
    BY <1>1, <2>2, CreateMissionFeedInv, AskFeedInv, AddTaskFeedInv, ReleaseFeedInv,
       SyncPickFeedInv, CommitPickFeedInv DEF MissionStep
  <2>3. CASE KanbanStep
    BY <1>1, <2>3, CreateSignalFeedInv, AskFeedInv, ServeFeedInv, FulfilFeedInv DEF KanbanStep
  <2>4. CASE UNCHANGED feedVars
    <3>1. LineFeedingTypeOK' /\ ReadyIsPicked' /\ FulfilledWasMoved' /\ KitWasReleased'
          /\ PickedWasMoved' /\ MissionsSound' /\ SignalsServed'
      BY <1>1, <2>4 DEF feedVars, FeedInv, LineFeedingTypeOK, ReadyIsPicked, FulfilledWasMoved,
         KitWasReleased, PickedWasMoved, MissionsSound, MissionFed, SignalsServed
    <3>2. FeedGrows /\ \A r \in FeedRequests : feedReq'[r] = feedReq[r]
      BY <2>4 DEF feedVars, FeedGrows
    <3> QED BY <1>1, <3>1, <3>2, FeedSoundStays DEF FeedInv
  <2> QED BY <1>1, <2>1, <2>2, <2>3, <2>4 DEF LineFeedingNext
<1> QED BY <1>1, InitFeedInv, PTL DEF LineFeedingSpec

\* Types of the line feeding's variables (wms/models.py).
THEOREM FeedTypeCorrect == LineFeedingSpec => []LineFeedingTypeOK
<1>1. FeedInv => LineFeedingTypeOK BY DEF FeedInv
<1> QED BY <1>1, FeedInvariance, PTL

\* _sync_kit_status, deliver_kit and the edit form: however stale the status that is saved,
\* stock was moved for every line that a ready kit was released with.
THEOREM ReadyIsPickedHolds == LineFeedingSpec => []ReadyIsPicked
<1>1. FeedInv => ReadyIsPicked BY DEF FeedInv
<1> QED BY <1>1, FeedInvariance, PTL

\* fulfill_kanban_signal: a fulfilled signal had stock moved by a mission created for it.
THEOREM FulfilledWasMovedHolds == LineFeedingSpec => []FulfilledWasMoved
<1>1. FeedInv => FulfilledWasMoved BY DEF FeedInv
<1> QED BY <1>1, FeedInvariance, PTL

(***************************************************************************)
(* ModelMix.  The row of a code under which nobody saved a plan by hand is *)
(* of the version of an item that comes to this code, and a request goes   *)
(* on with items that were added only.                                     *)
(***************************************************************************)
\* The least of some natural numbers is one of them.
LEMMA MinIn ==
  ASSUME NEW S \in SUBSET Nat, S # {}
  PROVE  Min(S) \in S /\ \A y \in S : Min(S) <= y
<1>1. IsWellFoundedOn(OpToRel(<, Nat), Nat) BY NatLessThanWellFounded
<1>2. PICK n \in S : \A m \in S : ~ (<<m, n>> \in OpToRel(<, Nat)) BY <1>1, WFMin
<1>3. \A m \in S : ~ (m < n) BY <1>2 DEF OpToRel
<1>4. \A m \in S : n <= m BY <1>3
<1> QED BY <1>4 DEF Min

\* An item is linked to the plan of its code.
PlansLinked ==
  \A i \in Items : mixPlan[i] # NoMixPlan =>
    mixPlan[i] = CodeOf[i] /\ planOf[CodeOf[i]] # NoPlanRow

\* A row that nobody saved by hand is of the version of an item, by its code.
RowsOfMix ==
  \A c \in Codes \ typed : planOf[c] # NoPlanRow =>
    \E i \in mixItems : CodeOf[i] = c /\ VersionOf[i] = planOf[c].version

\* A request has items to do, and has found the row of the one it is at.
MixReqSound(r) ==
  /\ mixReq[r].todo \subseteq mixItems
  /\ mixReq[r].found # "not_yet" =>
       mixReq[r].todo # {} /\ planOf[CodeOf[Item(r)]] # NoPlanRow

MixInv ==
  /\ ModelMixTypeOK
  /\ PlansLinked /\ RowsOfMix
  /\ \A r \in MixRequests : MixReqSound(r)

LEMMA InitMixInv == ModelMixInit => MixInv
<1> SUFFICES ASSUME ModelMixInit PROVE MixInv OBVIOUS
<1>1. mixReq \in [MixRequests -> [todo : SUBSET Items, found : Findings]]
      /\ \A r \in MixRequests : mixReq[r].found = "not_yet" /\ mixReq[r].todo \subseteq mixItems
  BY DEF ModelMixInit, NoMixReq, Findings
<1>2. ModelMixTypeOK BY <1>1 DEF ModelMixInit, ModelMixTypeOK, MixStatus
<1>3. PlansLinked /\ RowsOfMix BY DEF ModelMixInit, PlansLinked, RowsOfMix
<1> QED BY <1>1, <1>2, <1>3 DEF MixInv, MixReqSound

\* The property follows: nobody else's version has come to the code.
LEMMA MixInvUnique == MixInv => PlanOfUniqueCode
<1> SUFFICES ASSUME MixInv, NEW i \in Items, mixPlan[i] # NoMixPlan,
                    \A j \in mixItems : CodeOf[j] = CodeOf[i] => VersionOf[j] = VersionOf[i],
                    CodeOf[i] \notin typed
             PROVE  planOf[mixPlan[i]] # NoPlanRow /\ planOf[mixPlan[i]].version = VersionOf[i]
  BY DEF PlanOfUniqueCode
<1>1. mixPlan[i] = CodeOf[i] /\ planOf[CodeOf[i]] # NoPlanRow BY DEF MixInv, PlansLinked
<1>2. CodeOf[i] \in Codes \ typed BY DEF Codes
<1>3. PICK j \in mixItems : CodeOf[j] = CodeOf[i] /\ VersionOf[j] = planOf[CodeOf[i]].version
  BY <1>1, <1>2 DEF MixInv, RowsOfMix
<1> QED BY <1>1, <1>3

\* The item that a request is at is one of those it has to do.
LEMMA ItemIs ==
  ASSUME MixInv, NEW r \in MixRequests, mixReq[r].todo # {}
  PROVE  Item(r) \in mixReq[r].todo /\ Item(r) \in mixItems /\ Item(r) \in Items
<1>1. mixReq[r].todo \in SUBSET Nat /\ mixReq[r].todo \subseteq mixItems /\ mixItems \subseteq Items
  BY MixAssumption DEF MixInv, ModelMixTypeOK, MixReqSound
<1>2. Item(r) \in mixReq[r].todo BY <1>1, MinIn DEF Item
<1> QED BY <1>1, <1>2

\* What a request has to do and has found stays so while items and rows only come.
LEMMA MixReqStays ==
  ASSUME MixInv, NEW r \in MixRequests, mixReq'[r] = mixReq[r], mixItems \subseteq mixItems',
         \A c \in Codes : planOf[c] # NoPlanRow => planOf'[c] # NoPlanRow
  PROVE  MixReqSound(r)'
<1>1. MixReqSound(r) BY DEF MixInv
<1>2. Item(r)' = Item(r) BY DEF Item
<1>3. mixReq[r].todo # {} => CodeOf[Item(r)] \in Codes BY ItemIs DEF Codes
<1> QED BY <1>1, <1>2, <1>3 DEF MixReqSound

\* A mix is changed or a plan closed: the rows keep their versions.
LEMMA MixItselfInv ==
  ASSUME MixInv, \/ \E i \in Items : AddItem(i)
                 \/ \E m \in Mixes : EndMix(m) \/ \E to \in MixStatus : SaveMixForm(m, to)
                 \/ \E c \in Codes : ClosePlan(c)
  PROVE  MixInv'
<1>1. /\ mixItems \subseteq mixItems' /\ mixItems' \subseteq Items
      /\ UNCHANGED <<mixPlan, mixReq, typed>>
  BY DEF MixInv, ModelMixTypeOK, AddItem, EndMix, SaveMixForm, ClosePlan
<1>2. mixStatus' \in [Mixes -> MixStatus]
  BY DEF MixInv, ModelMixTypeOK, AddItem, EndMix, SaveMixForm, ClosePlan, MixStatus
<1>3. /\ planOf' \in [Codes -> MixPlanRow \union {NoPlanRow}]
      /\ \A c \in Codes : /\ planOf'[c] # NoPlanRow <=> planOf[c] # NoPlanRow
                          /\ planOf[c] # NoPlanRow => planOf'[c].version = planOf[c].version
  <2>1. CASE UNCHANGED planOf BY <2>1 DEF MixInv, ModelMixTypeOK
  <2>2. ASSUME NEW c \in Codes, ClosePlan(c)
        PROVE  /\ planOf' \in [Codes -> MixPlanRow \union {NoPlanRow}]
               /\ \A d \in Codes : /\ planOf'[d] # NoPlanRow <=> planOf[d] # NoPlanRow
                                   /\ planOf[d] # NoPlanRow => planOf'[d].version = planOf[d].version
    <3>1. planOf[c] \in MixPlanRow
      BY <2>2 DEF ClosePlan, MixInv, ModelMixTypeOK, NoPlanRow
    <3> PICK w : w = [planOf[c] EXCEPT !.status = "ENDED"] OBVIOUS
    <3>2. w \in MixPlanRow /\ w.version = planOf[c].version /\ w # NoPlanRow
      BY <3>1 DEF MixPlanRow, NoPlanRow, MixStatus
    <3>3. planOf' = [planOf EXCEPT ![c] = w] /\ planOf[c] # NoPlanRow
      BY <2>2 DEF ClosePlan, NoPlanRow
    <3> QED BY <3>2, <3>3 DEF MixInv, ModelMixTypeOK
  <2> QED BY <2>1, <2>2 DEF AddItem, EndMix, SaveMixForm
<1>4. ModelMixTypeOK' BY <1>1, <1>2, <1>3 DEF MixInv, ModelMixTypeOK
<1>5. PlansLinked' BY <1>1, <1>3 DEF MixInv, PlansLinked, Codes
<1>6. RowsOfMix' BY <1>1, <1>3 DEF MixInv, RowsOfMix
<1>7. \A r \in MixRequests : MixReqSound(r)' BY <1>1, <1>3, MixReqStays
<1> QED BY <1>4, <1>5, <1>6, <1>7 DEF MixInv

\* Somebody saves a plan under a code: of this row nothing is claimed any more.
LEMMA TypeMixInv ==
  ASSUME MixInv, NEW c \in Codes, NEW v \in Versions, NEW s \in MixStatus, TypePlan(c, v, s)
  PROVE  MixInv'
<1> PICK w : w = [status |-> s, version |-> v] OBVIOUS
<1>1. w \in MixPlanRow /\ w # NoPlanRow BY DEF MixPlanRow, NoPlanRow
<1>2. /\ planOf' = [planOf EXCEPT ![c] = w] /\ typed' = typed \union {c}
      /\ UNCHANGED <<mixStatus, mixItems, mixPlan, mixReq>>
  BY DEF TypePlan
<1>3. /\ planOf' \in [Codes -> MixPlanRow \union {NoPlanRow}]
      /\ \A d \in Codes : planOf[d] # NoPlanRow => planOf'[d] # NoPlanRow
      /\ \A d \in Codes \ typed' : planOf'[d] = planOf[d] /\ d \in Codes \ typed
  BY <1>1, <1>2 DEF MixInv, ModelMixTypeOK
<1>4. ModelMixTypeOK' BY <1>2, <1>3 DEF MixInv, ModelMixTypeOK
<1>5. PlansLinked' BY <1>2, <1>3 DEF MixInv, PlansLinked, Codes
<1>6. RowsOfMix' BY <1>2, <1>3 DEF MixInv, RowsOfMix
<1>7. \A r \in MixRequests : MixReqSound(r)' BY <1>2, <1>3, MixReqStays
<1> QED BY <1>4, <1>5, <1>6, <1>7 DEF MixInv

\* A request has something else to do, and no row changes.
LEMMA MixReqInv ==
  ASSUME MixInv, NEW r \in MixRequests, NEW todo \in SUBSET mixItems,
         mixReq' = [mixReq EXCEPT ![r] = [todo |-> todo, found |-> "not_yet"]],
         UNCHANGED <<mixStatus, mixItems, mixPlan, planOf, typed>>
  PROVE  MixInv'
<1>1. /\ mixReq'[r].todo = todo /\ mixReq'[r].found = "not_yet"
      /\ mixReq' \in [MixRequests -> [todo : SUBSET Items, found : Findings]]
      /\ \A s \in MixRequests \ {r} : mixReq'[s] = mixReq[s]
  BY DEF MixInv, ModelMixTypeOK, Findings
<1>2. ModelMixTypeOK' BY <1>1 DEF MixInv, ModelMixTypeOK
<1>3. PlansLinked' /\ RowsOfMix' BY DEF MixInv, PlansLinked, RowsOfMix
<1>4. MixReqSound(r)' BY <1>1 DEF MixReqSound
<1>5. \A s \in MixRequests \ {r} : MixReqSound(s)' BY <1>1, MixReqStays
<1> QED BY <1>2, <1>3, <1>4, <1>5 DEF MixInv

LEMMA StartMixInv ==
  ASSUME MixInv, NEW r \in MixRequests, NEW m \in Mixes, StartGenerating(r, m)
  PROVE  MixInv'
<1> PICK todo : todo = ItemsOf(m) OBVIOUS
<1>1. mixReq' = [mixReq EXCEPT ![r] = [todo |-> todo, found |-> "not_yet"]]
  <2>1. mixReq' = [mixReq EXCEPT ![r] = [mixReq[r] EXCEPT !.todo = todo]]
    BY DEF StartGenerating
  <2>2. [mixReq[r] EXCEPT !.todo = todo] = [todo |-> todo, found |-> "not_yet"]
    BY DEF StartGenerating, NoMixReq
  <2> QED BY <2>1, <2>2
<1>2. todo \in SUBSET mixItems BY DEF ItemsOf
<1> QED BY <1>1, <1>2, MixReqInv DEF StartGenerating

LEMMA MixReqDiesInv == ASSUME MixInv, NEW r \in MixRequests, MixReqDies(r) PROVE MixInv'
<1>1. mixReq' = [mixReq EXCEPT ![r] = [todo |-> {}, found |-> "not_yet"]]
      /\ {} \in SUBSET mixItems
  BY DEF MixReqDies, NoMixReq
<1> QED BY <1>1, MixReqInv DEF MixReqDies

\* The row of the item's code is found, or created with the item's version.
LEMMA FindPlanMixInv == ASSUME MixInv, NEW r \in MixRequests, FindPlan(r) PROVE MixInv'
<1> PICK i : i = Item(r) OBVIOUS
<1> PICK c : c = CodeOf[i] OBVIOUS
<1> PICK v : v = VersionOf[i] OBVIOUS
<1>1. i \in mixItems /\ i \in Items /\ v \in Versions /\ c \in Codes
  BY ItemIs DEF FindPlan, Codes, Versions
<1>2. PICK found \in Findings : mixReq' = [mixReq EXCEPT ![r].found = found]
  BY DEF FindPlan, Findings
<1>3. /\ mixReq'[r].todo = mixReq[r].todo /\ mixReq[r].todo # {}
      /\ mixReq' \in [MixRequests -> [todo : SUBSET Items, found : Findings]]
      /\ \A s \in MixRequests \ {r} : mixReq'[s] = mixReq[s]
  BY <1>2 DEF FindPlan, MixInv, ModelMixTypeOK
<1>4. Item(r)' = i BY <1>3 DEF Item
<1>5. /\ planOf' \in [Codes -> MixPlanRow \union {NoPlanRow}] /\ planOf'[c] # NoPlanRow
      /\ \A d \in Codes : \/ planOf'[d] = planOf[d]
                          \/ d = c /\ planOf[d] = NoPlanRow /\ planOf'[d].version = v
  <2>1. CASE planOf[c] = NoPlanRow
    <3> PICK w : w = [status |-> "OPEN", version |-> v] OBVIOUS
    <3>1. w \in MixPlanRow /\ w # NoPlanRow /\ w.version = v
      BY <1>1 DEF MixPlanRow, NoPlanRow, MixStatus
    <3>2. planOf' = [planOf EXCEPT ![c] = w] BY <2>1 DEF FindPlan
    <3> QED BY <1>1, <2>1, <3>1, <3>2 DEF MixInv, ModelMixTypeOK
  <2>2. CASE planOf[c] # NoPlanRow
    <3>1. planOf' = planOf BY <2>2 DEF FindPlan
    <3> QED BY <2>2, <3>1 DEF MixInv, ModelMixTypeOK
  <2> QED BY <2>1, <2>2
<1>6. UNCHANGED <<mixStatus, mixItems, mixPlan, typed>> BY DEF FindPlan
<1>7. ModelMixTypeOK' BY <1>3, <1>5, <1>6 DEF MixInv, ModelMixTypeOK
<1>8. PlansLinked' BY <1>5, <1>6 DEF MixInv, PlansLinked, Codes
<1>9. RowsOfMix' BY <1>1, <1>5, <1>6 DEF MixInv, RowsOfMix
<1>10. MixReqSound(r)' BY <1>3, <1>4, <1>5, <1>6 DEF MixInv, MixReqSound
<1>11. \A s \in MixRequests \ {r} : MixReqSound(s)' BY <1>3, <1>5, <1>6, MixReqStays
<1> QED BY <1>7, <1>8, <1>9, <1>10, <1>11 DEF MixInv

\* The item is linked to the row of its code, which may be given the item's version.
LEMMA LinkItemMixInv == ASSUME MixInv, NEW r \in MixRequests, LinkItem(r) PROVE MixInv'
<1> PICK i : i = Item(r) OBVIOUS
<1> PICK c : c = CodeOf[i] OBVIOUS
<1> PICK v : v = VersionOf[i] OBVIOUS
<1>1. mixReq[r].todo # {} /\ planOf[c] # NoPlanRow BY DEF LinkItem, MixInv, MixReqSound
<1>2. i \in mixItems /\ i \in Items /\ v \in Versions /\ c \in Codes
  BY <1>1, ItemIs DEF Codes, Versions
<1> PICK todo : todo = mixReq[r].todo \ {i} OBVIOUS
<1>3. /\ mixReq' = [mixReq EXCEPT ![r] = [todo |-> todo, found |-> "not_yet"]]
      /\ mixPlan' = [mixPlan EXCEPT ![i] = c]
      /\ UNCHANGED <<mixStatus, mixItems, typed>>
  BY DEF LinkItem, Linked
<1>4. todo \in SUBSET mixItems BY DEF MixInv, MixReqSound
<1>5. /\ mixReq'[r].todo = todo /\ mixReq'[r].found = "not_yet"
      /\ mixReq' \in [MixRequests -> [todo : SUBSET Items, found : Findings]]
      /\ \A s \in MixRequests \ {r} : mixReq'[s] = mixReq[s]
  BY <1>3, <1>4 DEF MixInv, ModelMixTypeOK, Findings
<1>6. /\ planOf' \in [Codes -> MixPlanRow \union {NoPlanRow}] /\ planOf'[c] # NoPlanRow
      /\ \A d \in Codes : \/ planOf'[d] = planOf[d]
                          \/ d = c /\ planOf'[d].version = v
  <2>1. CASE mixReq[r].found = "open"
    <3>1. planOf[c] \in MixPlanRow BY <1>1, <1>2 DEF MixInv, ModelMixTypeOK
    <3> PICK w : w = [planOf[c] EXCEPT !.version = v] OBVIOUS
    <3>2. w \in MixPlanRow /\ w # NoPlanRow /\ w.version = v
      BY <1>2, <3>1 DEF MixPlanRow, NoPlanRow
    <3>3. planOf' = [planOf EXCEPT ![c] = w] BY <2>1 DEF LinkItem
    <3> QED BY <1>2, <3>2, <3>3 DEF MixInv, ModelMixTypeOK
  <2>2. CASE mixReq[r].found # "open"
    <3>1. planOf' = planOf BY <2>2 DEF LinkItem
    <3> QED BY <1>1, <3>1 DEF MixInv, ModelMixTypeOK
  <2> QED BY <2>1, <2>2
<1>7. ModelMixTypeOK' BY <1>2, <1>3, <1>5, <1>6 DEF MixInv, ModelMixTypeOK
<1>8. PlansLinked'
  <2>1. \A d \in Codes : planOf[d] # NoPlanRow => planOf'[d] # NoPlanRow BY <1>6
  <2>2. ASSUME NEW w \in Items, mixPlan'[w] # NoMixPlan
        PROVE  mixPlan'[w] = CodeOf[w] /\ planOf'[CodeOf[w]] # NoPlanRow
    <3>1. CASE w = i BY <1>2, <1>3, <1>6, <3>1 DEF MixInv, ModelMixTypeOK
    <3>2. CASE w # i
      <4>1. mixPlan'[w] = mixPlan[w] BY <1>3, <3>2 DEF MixInv, ModelMixTypeOK
      <4> QED BY <2>1, <2>2, <4>1 DEF MixInv, PlansLinked, Codes
    <3> QED BY <3>1, <3>2
  <2> QED BY <2>2 DEF PlansLinked
<1>9. RowsOfMix' BY <1>2, <1>3, <1>6 DEF MixInv, RowsOfMix
<1>10. MixReqSound(r)' BY <1>3, <1>4, <1>5 DEF MixReqSound
<1>11. \A s \in MixRequests \ {r} : MixReqSound(s)' BY <1>3, <1>5, <1>6, MixReqStays
<1> QED BY <1>7, <1>8, <1>9, <1>10, <1>11 DEF MixInv

\* The invariant of the mixes, for every reachable state.
THEOREM MixInvariance == ModelMixSpec => []MixInv
<1>1. ASSUME MixInv, [ModelMixNext]_mixVars PROVE MixInv'
  <2>1. ASSUME NEW r \in MixRequests,
               \/ \E m \in Mixes : StartGenerating(r, m)
               \/ FindPlan(r) \/ LinkItem(r) \/ MixReqDies(r)
        PROVE  MixInv'
    BY <1>1, <2>1, StartMixInv, FindPlanMixInv, LinkItemMixInv, MixReqDiesInv
  <2>2. ASSUME NEW c \in Codes, ClosePlan(c) \/ \E v \in Versions, s \in MixStatus : TypePlan(c, v, s)
        PROVE  MixInv'
    BY <1>1, <2>2, MixItselfInv, TypeMixInv
  <2>3. CASE UNCHANGED mixVars
    <3>1. ModelMixTypeOK' /\ PlansLinked' /\ RowsOfMix'
      BY <1>1, <2>3 DEF mixVars, MixInv, ModelMixTypeOK, PlansLinked, RowsOfMix
    <3> QED BY <1>1, <2>3, <3>1, MixReqStays DEF mixVars, MixInv
  <2> QED BY <1>1, <2>1, <2>2, <2>3, MixItselfInv DEF ModelMixNext
<1> QED BY <1>1, InitMixInv, PTL DEF ModelMixSpec

\* Types of the mixes' variables (assembly/models.py, ModelMixPlan and its items).
THEOREM MixTypeCorrect == ModelMixSpec => []ModelMixTypeOK
<1>1. MixInv => ModelMixTypeOK BY DEF MixInv
<1> QED BY <1>1, MixInvariance, PTL

\* generate_production_plans: as long as no item of another version, of any mix, has come to
\* the code of an item, cut as it is, and nobody saved a plan under it by hand, the item's
\* plan is a plan of its version, however many requests generate plans at once and die.
THEOREM PlanOfUniqueCodeHolds == ModelMixSpec => []PlanOfUniqueCode
  BY MixInvUnique, MixInvariance, PTL

(***************************************************************************)
(* Planning.  No row is locked, and what a request has read may be stale   *)
(* when it writes.  An item of the sequence is never removed, though, and  *)
(* a move that somebody else wrote beside is no longer alone: what such a  *)
(* move will leave behind is claimed of the others only.                   *)
(***************************************************************************)
\* Place i of a move's order has its number as soon as it is written, or had it before.
Numbered(q) ==
  \A i \in DOMAIN q.order : queue[q.order[i]].seq = i <=> (i <= q.done \/ i \notin q.wrong)

\* What a request has read.
PlanReqSound(r) ==
  LET q == planReq[r]
  IN /\ q.kind = "generate" => q.left # 0
     /\ q.kind = "sequence" => q.todo # {}
     /\ q.kind = "set" => q.unit \in InQueue
     /\ q.kind = "move" =>
          /\ ToSet(q.order) \subseteq InQueue
          /\ \A i, j \in DOMAIN q.order : q.order[i] = q.order[j] => i = j
          /\ q.done <= Len(q.order)
          /\ q.alone => ToSet(q.order) = InLine /\ Numbered(q)

PlanInv ==
  /\ PlanningTypeOK
  /\ \A r \in PlanRequests : PlanReqSound(r)

(***************************************************************************)
(* What the operators on the sequence return.                              *)
(***************************************************************************)
\* The greatest of some integers is one of them.
LEMMA MaxIn ==
  ASSUME NEW S \in SUBSET Int, IsFiniteSet(S), S # {}
  PROVE  Max(S) \in S /\ \A y \in S : y <= Max(S)
<1> DEFINE Z == {T \in SUBSET S : T # {} => \E m \in T : \A y \in T : y <= m}
<1>1. ASSUME NEW T \in SUBSET S, \A x \in T : T \ {x} \in Z PROVE T \in Z
  <2> SUFFICES ASSUME NEW x \in T PROVE \E m \in T : \A y \in T : y <= m OBVIOUS
  <2>0. \A y \in T : y \in Int OBVIOUS
  <2>1. CASE T \ {x} = {} BY <2>0, <2>1
  <2>2. CASE T \ {x} # {}
    <3>1. PICK m \in T \ {x} : \A y \in T \ {x} : y <= m BY <1>1, <2>2
    <3>2. CASE x <= m BY <3>1, <3>2
    <3>3. CASE ~ (x <= m)
      <4>1. \A y \in T : y <= x BY <2>0, <3>1, <3>3
      <4> QED BY <4>1
    <3> QED BY <3>2, <3>3
  <2> QED BY <2>1, <2>2
<1>2. \A T \in SUBSET S : T \in Z
  <2> HIDE DEF Z
  <2> QED BY <1>1, SetFiniteInduction
<1>3. \E m \in S : \A y \in S : y <= m BY <1>2
<1>4. PICK m \in S : \A y \in S : m >= y
  <2> PICK m \in S : \A y \in S : y <= m BY <1>3
  <2>1. \A y \in S : m >= y OBVIOUS
  <2> QED BY <2>1
<1>5. Max(S) \in S /\ \A y \in S : Max(S) >= y BY <1>4 DEF Max
<1>6. \A y \in S : y <= Max(S) BY <1>5
<1> QED BY <1>5, <1>6

\* order_by: every unit is in it once.
LEMMA SortedIs ==
  ASSUME NEW S \in SUBSET Units, NEW s \in Sorted(S)
  PROVE  /\ s \in Seq(Units) /\ ToSet(s) = S
         /\ \A i, j \in DOMAIN s : s[i] = s[j] => i = j
<1>1. s \in [1 .. Cardinality(S) -> S] /\ ToSet(s) = S BY DEF Sorted
<1>2. IsFiniteSet(S) /\ Cardinality(S) \in Nat
  BY FS_Subset, FS_CardinalityType, PlanningAssumption
<1> PICK n \in Nat : n = Cardinality(S) BY <1>2
<1>3. IsFiniteSet(1 .. n) /\ Cardinality(1 .. n) = n
  <2>1. 1 \in Int /\ n \in Int OBVIOUS
  <2>2. IsFiniteSet(1 .. n) /\ Cardinality(1 .. n) = IF 1 > n THEN 0 ELSE n - 1 + 1
    BY <2>1, FS_Interval
  <2> QED BY <2>2
<1>4. s \in Surjection(1 .. n, S) BY <1>1 DEF Surjection, ToSet
<1>5. s \in Injection(1 .. n, S) BY <1>2, <1>3, <1>4, FS_SurjSameCardinalityImpliesInj
<1>6. \A i, j \in 1 .. n : s[i] = s[j] => i = j BY <1>5 DEF Injection, IsInjective
<1>7. s \in Seq(Units) /\ DOMAIN s = 1 .. n BY <1>1
<1> QED BY <1>1, <1>6, <1>7

\* A sequence, one element more, and another sequence
LEMMA ConcatAround ==
  ASSUME NEW T, NEW a \in Seq(T), NEW e \in T, NEW b \in Seq(T)
  PROVE  /\ (a \o <<e>>) \o b \in Seq(T)
         /\ Len((a \o <<e>>) \o b) = Len(a) + 1 + Len(b)
         /\ \A i \in 1 .. Len(a) : ((a \o <<e>>) \o b)[i] = a[i]
         /\ ((a \o <<e>>) \o b)[Len(a) + 1] = e
         /\ \A i \in 1 .. Len(b) : ((a \o <<e>>) \o b)[Len(a) + 1 + i] = b[i]
<1>1. <<e>> \in Seq(T) /\ Len(<<e>>) = 1 /\ <<e>>[1] = e OBVIOUS
<1>2. Len(a) \in Nat /\ Len(b) \in Nat OBVIOUS
<1>3. /\ a \o <<e>> \in Seq(T) /\ Len(a \o <<e>>) = Len(a) + 1
      /\ \A i \in 1 .. Len(a) + 1 : (a \o <<e>>)[i] = IF i <= Len(a) THEN a[i] ELSE <<e>>[i - Len(a)]
  BY <1>1, ConcatProperties
<1> DEFINE c == a \o <<e>>
<1>4. c \in Seq(T) /\ Len(c) = Len(a) + 1 BY <1>3
<1>5. (\A i \in 1 .. Len(a) : c[i] = a[i]) /\ c[Len(a) + 1] = e BY <1>1, <1>2, <1>3
<1> HIDE DEF c
<1>6. /\ c \o b \in Seq(T) /\ Len(c \o b) = Len(c) + Len(b)
      /\ \A i \in 1 .. Len(c) + Len(b) : (c \o b)[i] = IF i <= Len(c) THEN c[i] ELSE b[i - Len(c)]
  BY <1>4, ConcatProperties
<1>7. Len(c \o b) = Len(a) + 1 + Len(b) BY <1>2, <1>4, <1>6
<1>8. \A i \in 1 .. Len(a) : (c \o b)[i] = a[i] BY <1>2, <1>4, <1>5, <1>6
<1>9. (c \o b)[Len(a) + 1] = e BY <1>2, <1>4, <1>5, <1>6
<1>10. ASSUME NEW i \in 1 .. Len(b) PROVE (c \o b)[Len(a) + 1 + i] = b[i]
  <2>1. Len(a) + 1 + i \in 1 .. Len(c) + Len(b) /\ ~ (Len(a) + 1 + i <= Len(c))
    BY <1>2, <1>4
  <2>2. (Len(a) + 1 + i) - Len(c) = i BY <1>2, <1>4
  <2> QED BY <1>6, <2>1, <2>2
<1> QED BY <1>6, <1>7, <1>8, <1>9, <1>10 DEF c

\* A unit is put at its place among the others.
LEMMA InsertAtIs ==
  ASSUME NEW T, NEW s \in Seq(T), NEW e \in T, NEW k \in 1 .. Len(s) + 1
  PROVE  LET t == InsertAt(s, k, e)
         IN /\ t \in Seq(T) /\ Len(t) = Len(s) + 1
            /\ \A i \in 1 .. Len(s) + 1 :
                 t[i] = IF i < k THEN s[i] ELSE IF i = k THEN e ELSE s[i - 1]
<1> DEFINE a == SubSeq(s, 1, k - 1)
           b == SubSeq(s, k, Len(s))
           t == (a \o <<e>>) \o b
<1>1. k \in Nat /\ k >= 1 /\ k <= Len(s) + 1 /\ Len(s) \in Nat OBVIOUS
<1>2. \A i \in 1 .. Len(s) : s[i] \in T OBVIOUS
<1>3. a \in Seq(T) /\ Len(a) = k - 1 /\ \A i \in 1 .. k - 1 : a[i] = s[i]
  <2>1. k - 1 \in Int /\ 1 \in Int /\ \A i \in 1 .. k - 1 : s[i] \in T BY <1>1, <1>2
  <2>2. /\ a \in Seq(T) /\ Len(a) = IF 1 <= k - 1 THEN (k - 1) - 1 + 1 ELSE 0
        /\ \A i \in 1 .. (k - 1) - 1 + 1 : a[i] = s[1 + i - 1]
    BY <2>1, SubSeqProperties
  <2> HIDE DEF a
  <2>3. Len(a) = k - 1 BY <1>1, <2>2
  <2>4. \A i \in 1 .. k - 1 : i \in 1 .. (k - 1) - 1 + 1 /\ 1 + i - 1 = i BY <1>1
  <2>5. \A i \in 1 .. k - 1 : a[i] = s[i] BY <2>2, <2>4
  <2> QED BY <2>2, <2>3, <2>5
<1>4. /\ b \in Seq(T) /\ Len(b) = Len(s) - k + 1
      /\ \A i \in 1 .. Len(s) - k + 1 : b[i] = s[k + i - 1]
  <2>1. k \in Int /\ Len(s) \in Int /\ \A i \in k .. Len(s) : s[i] \in T BY <1>1, <1>2
  <2>2. /\ b \in Seq(T) /\ Len(b) = IF k <= Len(s) THEN Len(s) - k + 1 ELSE 0
        /\ \A i \in 1 .. Len(s) - k + 1 : b[i] = s[k + i - 1]
    BY <2>1, SubSeqProperties
  <2> HIDE DEF b
  <2>3. Len(b) = Len(s) - k + 1 BY <1>1, <2>2
  <2> QED BY <2>2, <2>3
<1> HIDE DEF a, b
<1>5. /\ t \in Seq(T) /\ Len(t) = Len(a) + 1 + Len(b)
      /\ \A i \in 1 .. Len(a) : t[i] = a[i]
      /\ t[Len(a) + 1] = e
      /\ \A i \in 1 .. Len(b) : t[Len(a) + 1 + i] = b[i]
  <2>1. a \in Seq(T) /\ b \in Seq(T) BY <1>3, <1>4
  <2> QED BY ONLY <2>1, e \in T, ConcatAround
<1>6. t = InsertAt(s, k, e) BY DEF InsertAt, a, b
<1> HIDE DEF t
<1>7. Len(t) = Len(s) + 1 BY <1>1, <1>3, <1>4, <1>5
<1>8. ASSUME NEW i \in 1 .. Len(s) + 1
      PROVE  t[i] = IF i < k THEN s[i] ELSE IF i = k THEN e ELSE s[i - 1]
  <2>1. CASE i < k
    <3>1. i \in 1 .. k - 1 /\ i \in 1 .. Len(a) BY <1>1, <1>3, <2>1
    <3>2. t[i] = a[i] /\ a[i] = s[i] BY <1>3, <1>5, <3>1
    <3> QED BY <2>1, <3>2
  <2>2. CASE i = k BY <1>1, <1>3, <1>5, <2>2
  <2>3. CASE i > k
    <3>1. i - k \in 1 .. Len(s) - k + 1 /\ Len(a) + 1 + (i - k) = i /\ k + (i - k) - 1 = i - 1
      BY <1>1, <1>3, <2>3
    <3>2. t[i] = b[i - k] /\ b[i - k] = s[i - 1] BY <1>4, <1>5, <3>1
    <3> QED BY <1>1, <2>3, <3>2
  <2> QED BY <1>1, <2>1, <2>2, <2>3
<1> QED BY <1>5, <1>6, <1>7, <1>8

\* A unit taken out of the line and put back at place n: each unit of the line once.
LEMMA ReorderedIs ==
  ASSUME NEW u \in InLine, NEW n \in Nat, n >= 1, NEW order \in Reordered(u, n)
  PROVE  /\ order \in Seq(Units) /\ ToSet(order) = InLine
         /\ \A i, j \in DOMAIN order : order[i] = order[j] => i = j
<1> DEFINE S == InLine \ {u}
<1> PICK s \in Sorted(S) : order = InsertAt(s, Min({n, Len(s) + 1}), u) BY DEF Reordered
<1>1. S \in SUBSET Units /\ u \in Units BY DEF InLine
<1>2. /\ s \in Seq(Units) /\ ToSet(s) = S
      /\ \A i, j \in DOMAIN s : s[i] = s[j] => i = j
  BY <1>1, SortedIs
<1>3. Len(s) \in Nat /\ DOMAIN s = 1 .. Len(s) BY <1>2
<1>4. \A i \in 1 .. Len(s) : s[i] \in S BY <1>2, <1>3 DEF ToSet
<1>5. \A v \in S : \E i \in 1 .. Len(s) : s[i] = v BY <1>2, <1>3 DEF ToSet
<1> DEFINE k == Min({n, Len(s) + 1})
           t == InsertAt(s, k, u)
<1>6. k \in 1 .. Len(s) + 1
  <2>1. {n, Len(s) + 1} \in SUBSET Nat /\ {n, Len(s) + 1} # {} BY <1>3
  <2>2. k \in {n, Len(s) + 1} /\ \A y \in {n, Len(s) + 1} : k <= y BY <2>1, MinIn
  <2> HIDE DEF k
  <2>3. k <= Len(s) + 1 /\ (k = n \/ k = Len(s) + 1) BY <2>2
  <2> QED BY <1>3, <2>3
<1> HIDE DEF k
<1>7. /\ t \in Seq(Units) /\ Len(t) = Len(s) + 1
      /\ \A i \in 1 .. Len(s) + 1 :
           t[i] = IF i < k THEN s[i] ELSE IF i = k THEN u ELSE s[i - 1]
  BY <1>1, <1>2, <1>6, InsertAtIs
<1>8. t = order BY DEF t, k
<1> HIDE DEF t
<1>9. DOMAIN t = 1 .. Len(s) + 1 BY <1>7
<1> DEFINE Old(i) == IF i < k THEN i ELSE i - 1
<1>10. \A i \in 1 .. Len(s) + 1 : i # k => Old(i) \in 1 .. Len(s) /\ t[i] = s[Old(i)]
  <2> SUFFICES ASSUME NEW i \in 1 .. Len(s) + 1, i # k
               PROVE  Old(i) \in 1 .. Len(s) /\ t[i] = s[Old(i)]
    OBVIOUS
  <2>1. CASE i < k BY <1>3, <1>6, <1>7, <2>1
  <2>2. CASE i > k BY <1>3, <1>6, <1>7, <2>2
  <2> QED BY <1>6, <2>1, <2>2
<1>11. t[k] = u BY <1>6, <1>7
<1>12. \A i, j \in 1 .. Len(s) + 1 : i # k /\ j # k /\ Old(i) = Old(j) => i = j BY <1>6
<1>13. \A l \in 1 .. Len(s) : \E i \in 1 .. Len(s) + 1 : i # k /\ Old(i) = l
  <2> SUFFICES ASSUME NEW l \in 1 .. Len(s)
               PROVE  \E i \in 1 .. Len(s) + 1 : i # k /\ Old(i) = l
    OBVIOUS
  <2>1. CASE l < k
    <3>1. l \in 1 .. Len(s) + 1 /\ l # k /\ Old(l) = l BY <1>3, <1>6, <2>1
    <3> QED BY <3>1
  <2>2. CASE l >= k
    <3>1. l + 1 \in 1 .. Len(s) + 1 /\ l + 1 # k /\ Old(l + 1) = l BY <1>3, <1>6, <2>2
    <3> QED BY <3>1
  <2> QED BY <1>6, <2>1, <2>2
<1> HIDE DEF Old
<1>14. ToSet(t) = InLine
  <2>1. \A i \in 1 .. Len(s) + 1 : t[i] \in InLine
    <3>1. \A i \in 1 .. Len(s) + 1 : i # k => t[i] \in S BY <1>4, <1>10
    <3> QED BY <1>11, <3>1
  <2>2. \A v \in InLine : \E i \in 1 .. Len(s) + 1 : t[i] = v
    <3> SUFFICES ASSUME NEW v \in InLine PROVE \E i \in 1 .. Len(s) + 1 : t[i] = v OBVIOUS
    <3>1. CASE v = u BY <1>6, <1>11, <3>1
    <3>2. CASE v # u
      <4>1. PICK l \in 1 .. Len(s) : s[l] = v BY <1>5, <3>2
      <4>2. PICK i \in 1 .. Len(s) + 1 : i # k /\ Old(i) = l BY <1>13
      <4> QED BY <1>10, <4>1, <4>2
    <3> QED BY <3>1, <3>2
  <2> QED BY <1>9, <2>1, <2>2 DEF ToSet
<1>15. \A i, j \in 1 .. Len(s) + 1 : t[i] = t[j] => i = j
  <2> SUFFICES ASSUME NEW i \in 1 .. Len(s) + 1, NEW j \in 1 .. Len(s) + 1, t[i] = t[j]
               PROVE  i = j
    OBVIOUS
  <2>1. CASE i = k \/ j = k
    <3>1. \A l \in 1 .. Len(s) + 1 : l # k => t[l] # u BY <1>4, <1>10
    <3> QED BY <1>11, <2>1, <3>1
  <2>2. CASE i # k /\ j # k
    <3>1. Old(i) \in 1 .. Len(s) /\ Old(j) \in 1 .. Len(s) /\ s[Old(i)] = s[Old(j)]
      BY <1>10, <2>2
    <3>2. Old(i) = Old(j) BY <1>2, <1>3, <3>1
    <3> QED BY <1>12, <2>2, <3>2
  <2> QED BY <2>1, <2>2
<1> QED BY <1>7, <1>8, <1>9, <1>14, <1>15

(***************************************************************************)
(* The steps of the requests.                                              *)
(***************************************************************************)
LEMMA InitPlanInv == PlanningInit => PlanInv
<1> SUFFICES ASSUME PlanningInit PROVE PlanInv OBVIOUS
<1>1. PlanningTypeOK
  BY DEF PlanningInit, PlanningTypeOK, PlanStatus
<1>2. \A r \in PlanRequests : PlanReqSound(r)
  BY DEF PlanningInit, PlanReqSound, NoPlanReq
<1> QED BY <1>1, <1>2 DEF PlanInv

\* What each kind of request carries.
LEMMA PlanCarries ==
  ASSUME PlanningTypeOK, NEW r \in PlanRequests
  PROVE  /\ planReq[r].kind = "status" =>
              planReq[r] \in [kind : {"status"}, plan : Plans, to : PlanStatus]
         /\ planReq[r].kind = "generate" =>
              planReq[r] \in [kind : {"generate"}, plan : Plans, left : Nat]
         /\ planReq[r].kind = "link" =>
              planReq[r] \in [kind : {"link"}, plan : Plans, unit : Units]
         /\ planReq[r].kind = "sequence" =>
              planReq[r] \in [kind : {"sequence"}, todo : SUBSET Units, top : Nat]
         /\ planReq[r].kind = "form" =>
              planReq[r] \in [kind : {"form"}, unit : Units, row : QueueItem, new : BOOLEAN]
         /\ planReq[r].kind = "set" =>
              planReq[r] \in [kind : {"set"}, unit : Units, to : QueueStatus]
         /\ planReq[r].kind = "move" =>
              planReq[r] \in [kind : {"move"}, order : Seq(Units), wrong : SUBSET Nat,
                              done : Nat, alone : BOOLEAN]
<1> PICK q : q = planReq[r] OBVIOUS
<1>1. q \in PlanRequest \union {NoPlanReq} BY DEF PlanningTypeOK
<1>2. CASE q = NoPlanReq BY <1>2 DEF NoPlanReq
<1>3. CASE q \in [kind : {"status"}, plan : Plans, to : PlanStatus] BY <1>3
<1>4. CASE q \in [kind : {"generate"}, plan : Plans, left : Nat] BY <1>4
<1>5. CASE q \in [kind : {"link"}, plan : Plans, unit : Units] BY <1>5
<1>6. CASE q \in [kind : {"sequence"}, todo : SUBSET Units, top : Nat] BY <1>6
<1>7. CASE q \in [kind : {"set"}, unit : Units, to : QueueStatus] BY <1>7
<1>8. CASE q \in [kind : {"move"}, order : Seq(Units), wrong : SUBSET Nat, done : Nat,
                  alone : BOOLEAN] BY <1>8
<1>9. CASE q \in [kind : {"form"}, unit : Units, row : QueueItem, new : BOOLEAN] BY <1>9
<1> QED BY <1>1, <1>2, <1>3, <1>4, <1>5, <1>6, <1>7, <1>8, <1>9 DEF PlanRequest

\* What another request has read stays so: no item goes, and who writes to the sequence
\* spoils the moves.
LEMMA PlanReqStays ==
  ASSUME PlanInv, NEW r \in PlanRequests, NEW s \in PlanRequests, s # r,
         \/ queue' = queue /\ planReq'[s] = planReq[s]
         \/ planReq'[s] = Spoiled(planReq, r)[s],
         InQueue \subseteq InQueue'
  PROVE  PlanReqSound(s)' /\ planReq'[s] \in PlanRequest \union {NoPlanReq}
<1> PICK q : q = planReq[s] OBVIOUS
<1>1. PlanReqSound(s) /\ q \in PlanRequest \union {NoPlanReq} BY DEF PlanInv, PlanningTypeOK
<1>2. CASE q.kind = "move" /\ planReq'[s] # q
  <2>1. q \in [kind : {"move"}, order : Seq(Units), wrong : SUBSET Nat, done : Nat,
               alone : BOOLEAN]
    BY <1>2, PlanCarries DEF PlanInv
  <2>2. planReq'[s] = [q EXCEPT !.alone = FALSE] BY <1>2 DEF Spoiled
  <2> PICK w : w = [q EXCEPT !.alone = FALSE] OBVIOUS
  <2>3. /\ w.kind = "move" /\ w.order = q.order /\ w.done = q.done /\ w.alone = FALSE
        /\ w \in [kind : {"move"}, order : Seq(Units), wrong : SUBSET Nat, done : Nat,
                  alone : BOOLEAN]
    BY <2>1
  <2>4. /\ ToSet(q.order) \subseteq InQueue
        /\ \A i, j \in DOMAIN q.order : q.order[i] = q.order[j] => i = j
        /\ q.done <= Len(q.order)
    BY <1>1, <1>2 DEF PlanReqSound
  <2>5. PlanReqSound(s)' BY <2>2, <2>3, <2>4 DEF PlanReqSound
  <2> QED BY <2>2, <2>3, <2>5 DEF PlanRequest
<1>3. CASE q.kind = "move" /\ planReq'[s] = q
  <2>1. queue' = queue \/ q.alone = FALSE
    <3>1. q \in [kind : {"move"}, order : Seq(Units), wrong : SUBSET Nat, done : Nat,
                 alone : BOOLEAN]
      BY <1>3, PlanCarries DEF PlanInv
    <3>2. CASE planReq'[s] = Spoiled(planReq, r)[s]
      <4>1. q = [q EXCEPT !.alone = FALSE] BY <1>3, <3>2 DEF Spoiled
      <4>2. [q EXCEPT !.alone = FALSE].alone = FALSE BY <3>1
      <4> QED BY ONLY <4>1, <4>2
    <3> QED BY <3>2
  <2>2. CASE queue' = queue BY <1>1, <1>3, <2>2 DEF PlanReqSound, InQueue, InLine, Numbered
  <2>3. CASE q.alone = FALSE BY <1>1, <1>3, <2>3 DEF PlanReqSound
  <2> QED BY <1>1, <1>3, <2>1, <2>2, <2>3
<1>4. CASE q.kind # "move"
  <2>1. planReq'[s] = q BY <1>4 DEF Spoiled
  <2> QED BY <1>1, <1>4, <2>1 DEF PlanReqSound
<1> QED BY <1>2, <1>3, <1>4

\* A step that leaves the rows, and another request is there: what it has read is so.
LEMMA PlanReqInv ==
  ASSUME PlanInv, NEW r \in PlanRequests, NEW q \in PlanRequest \union {NoPlanReq},
         planReq' = [planReq EXCEPT ![r] = q],
         UNCHANGED <<planStatus, unitPlan, generated, queue>>, messy' \in BOOLEAN,
         planReq'[r] = q => PlanReqSound(r)'
  PROVE  PlanInv'
<1>1. planReq'[r] = q /\ \A s \in PlanRequests : s # r => planReq'[s] = planReq[s]
  BY DEF PlanInv, PlanningTypeOK
<1>2. PlanningTypeOK' BY DEF PlanInv, PlanningTypeOK
<1>3. \A s \in PlanRequests : s # r => PlanReqSound(s)' BY <1>1, PlanReqStays DEF InQueue
<1> QED BY <1>1, <1>2, <1>3 DEF PlanInv

\* A request that writes to the sequence begins.
LEMMA BeginWriterPlanInv ==
  ASSUME PlanInv, NEW r \in PlanRequests, NEW q \in PlanRequest, BeginWriter(r, q),
         planReq'[r] = q => PlanReqSound(r)'
  PROVE  PlanInv'
<1>1. messy' \in BOOLEAN BY ZenonT(20) DEF BeginWriter
<1> QED BY <1>1, PlanReqInv DEF BeginWriter, Begin, planRows

LEMMA AskStatusPlanInv ==
  ASSUME PlanInv, NEW r \in PlanRequests, NEW p \in Plans, NEW to \in PlanStatus,
         AskStatus(r, p, to) \/ AskPlanForm(r, p, to)
  PROVE  PlanInv'
<1> PICK q : q = [kind |-> "status", plan |-> p, to |-> to] OBVIOUS
<1>1. q.kind = "status" /\ q \in PlanRequest BY DEF PlanRequest
<1>2. planReq'[r] = q => PlanReqSound(r)' BY <1>1 DEF PlanReqSound
<1>3. planReq' = [planReq EXCEPT ![r] = q] /\ UNCHANGED <<planRows, messy>>
  BY DEF AskStatus, AskPlanForm, Begin
<1>4. messy' \in BOOLEAN BY <1>3 DEF PlanInv, PlanningTypeOK
<1> QED BY <1>1, <1>2, <1>3, <1>4, PlanReqInv DEF planRows

LEMMA AskGeneratePlanInv ==
  ASSUME PlanInv, NEW r \in PlanRequests, NEW p \in Plans, NEW n \in 1 .. Target,
         AskGenerate(r, p, n)
  PROVE  PlanInv'
<1> PICK q : q = [kind |-> "generate", plan |-> p, left |-> n] OBVIOUS
<1>1. n \in Nat /\ n # 0 BY PlanningAssumption
<1>2. q.kind = "generate" /\ q.left # 0 /\ q \in PlanRequest BY <1>1 DEF PlanRequest
<1>3. planReq'[r] = q => PlanReqSound(r)' BY <1>2 DEF PlanReqSound
<1>4. messy' \in BOOLEAN BY DEF AskGenerate, PlanInv, PlanningTypeOK
<1> QED BY <1>2, <1>3, <1>4, PlanReqInv DEF AskGenerate, Begin, planRows

LEMMA AskLinkPlanInv ==
  ASSUME PlanInv, NEW r \in PlanRequests, NEW p \in Plans, NEW u \in Units, AskLink(r, p, u)
  PROVE  PlanInv'
<1> PICK q : q = [kind |-> "link", plan |-> p, unit |-> u] OBVIOUS
<1>1. q.kind = "link" /\ q \in PlanRequest BY DEF PlanRequest
<1>2. planReq'[r] = q => PlanReqSound(r)' BY <1>1 DEF PlanReqSound
<1>3. messy' \in BOOLEAN BY DEF AskLink, PlanInv, PlanningTypeOK
<1> QED BY <1>1, <1>2, <1>3, PlanReqInv DEF AskLink, Begin, planRows

\* create_from_plan reads a number that no item of the line is above.
LEMMA TopIs ==
  ASSUME PlanInv
  PROVE  LET top == Max({queue[u].seq : u \in InQueue} \union {0})
         IN top \in Nat /\ \A u \in InQueue : queue[u].seq <= top
<1> DEFINE F == {queue[u].seq : u \in InQueue}
<1>1. IsFiniteSet(InQueue) BY FS_Subset, PlanningAssumption DEF InQueue
<1>2. IsFiniteSet(F)
  <2> DEFINE f == [u \in InQueue |-> queue[u].seq]
  <2>1. f \in Surjection(InQueue, F) BY DEF Surjection
  <2> HIDE DEF f, F
  <2> QED BY <1>1, <2>1, FS_Surjection
<1>3. IsFiniteSet({0}) BY FS_Singleton
<1>4. IsFiniteSet(F \union {0}) BY <1>2, <1>3, FS_Union
<1>5. \A u \in InQueue : queue[u].seq \in Nat
  BY DEF InQueue, PlanInv, PlanningTypeOK, QueueItem, NoItem
<1>6. F \union {0} \in SUBSET Nat /\ F \union {0} # {} BY <1>5
<1>7. \A u \in InQueue : queue[u].seq \in F OBVIOUS
<1> PICK top : top = Max(F \union {0}) OBVIOUS
<1> HIDE DEF F
<1>8. F \union {0} \in SUBSET Int BY <1>6
<1>9. top \in F \union {0} /\ \A y \in F \union {0} : y <= top
  BY <1>4, <1>6, <1>8, MaxIn
<1>10. top \in Nat /\ \A u \in InQueue : queue[u].seq <= top BY <1>6, <1>7, <1>9
<1> QED BY <1>10 DEF F

LEMMA AskSequencePlanInv ==
  ASSUME PlanInv, NEW r \in PlanRequests, NEW p \in Plans, AskSequence(r, p)
  PROVE  PlanInv'
<1> PICK todo : todo = LinkedTo(p) OBVIOUS
<1> PICK top : top = Max({queue[u].seq : u \in InQueue} \union {0}) OBVIOUS
<1>1. top \in Nat BY TopIs
<1> PICK q : q = [kind |-> "sequence", todo |-> todo, top |-> top] OBVIOUS
<1>2. todo \in SUBSET Units BY DEF LinkedTo
<1>3. q.kind = "sequence" /\ q.todo = todo /\ todo # {} BY DEF AskSequence
<1>4. q \in PlanRequest BY <1>1, <1>2 DEF PlanRequest
<1>5. planReq'[r] = q => PlanReqSound(r)' BY <1>3 DEF PlanReqSound
<1> QED BY <1>4, <1>5, BeginWriterPlanInv DEF AskSequence

LEMMA AskFormPlanInv ==
  ASSUME PlanInv, NEW r \in PlanRequests, NEW u \in Units, NEW p \in Plans,
         NEW to \in QueueStatus, NEW n \in Nat, AskForm(r, u, p, to, n)
  PROVE  PlanInv'
<1> PICK row : row = [status |-> to, seq |-> n] OBVIOUS
<1> PICK new \in BOOLEAN : new = (u \notin InQueue) OBVIOUS
<1> PICK q : q = [kind |-> "form", unit |-> u, row |-> row, new |-> new] OBVIOUS
<1>1. row \in QueueItem BY DEF QueueItem
<1>2. q.kind = "form" /\ q \in PlanRequest BY <1>1 DEF PlanRequest
<1>3. planReq'[r] = q => PlanReqSound(r)' BY <1>2 DEF PlanReqSound
<1> QED BY <1>2, <1>3, BeginWriterPlanInv DEF AskForm

LEMMA AskSetPlanInv ==
  ASSUME PlanInv, NEW r \in PlanRequests, NEW u \in Units, NEW to \in QueueStatus,
         AskSet(r, u, to)
  PROVE  PlanInv'
<1> PICK q : q = [kind |-> "set", unit |-> u, to |-> to] OBVIOUS
<1>1. q.kind = "set" /\ q.unit = u /\ q \in PlanRequest BY DEF PlanRequest
<1>2. u \in InQueue' BY DEF AskSet, BeginWriter, Begin, planRows, InQueue, NoItem
<1>3. planReq'[r] = q => PlanReqSound(r)' BY <1>1, <1>2 DEF PlanReqSound
<1> QED BY <1>1, <1>3, BeginWriterPlanInv DEF AskSet

\* resequence has read every item of the line once, and which have their number already.
LEMMA AskMovePlanInv ==
  ASSUME PlanInv, NEW r \in PlanRequests, NEW u \in Units, NEW n \in 1 .. Cardinality(Units),
         AskMove(r, u, n)
  PROVE  PlanInv'
<1>1. n \in Nat /\ n >= 1 BY FS_CardinalityType, PlanningAssumption
<1>2. u \in InLine BY DEF AskMove, InLine
<1>3. PICK order \in Reordered(u, n) :
        BeginWriter(r, [kind |-> "move", order |-> order, done |-> 0, alone |-> TRUE,
                        wrong |-> {i \in DOMAIN order : queue[order[i]].seq # i}])
  BY DEF AskMove
<1>4. /\ order \in Seq(Units) /\ ToSet(order) = InLine
      /\ \A i, j \in DOMAIN order : order[i] = order[j] => i = j
  BY <1>1, <1>2, ReorderedIs
<1> PICK wrong : wrong = {i \in DOMAIN order : queue[order[i]].seq # i} OBVIOUS
<1>5. DOMAIN order = 1 .. Len(order) /\ Len(order) \in Nat BY <1>4
<1>6. wrong \in SUBSET Nat BY <1>5
<1> PICK q : q = [kind |-> "move", order |-> order, done |-> 0, alone |-> TRUE,
                  wrong |-> wrong] OBVIOUS
<1>7. /\ q.kind = "move" /\ q.order = order /\ q.done = 0 /\ q.wrong = wrong
      /\ q \in PlanRequest
  BY <1>4, <1>6 DEF PlanRequest
<1>8. UNCHANGED queue BY <1>3 DEF BeginWriter, Begin, planRows
<1>9. InLine \subseteq InQueue BY DEF InLine, InQueue, NoItem
<1>10. Numbered(q)
  <2>1. \A i \in DOMAIN order : ~ (i <= 0) BY <1>5
  <2> QED BY <1>7, <2>1 DEF Numbered
<1>11. InQueue' = InQueue /\ InLine' = InLine BY <1>8 DEF InQueue, InLine
<1>12. planReq'[r] = q => Numbered(planReq[r])' BY <1>8, <1>10 DEF Numbered
<1>13. planReq'[r] = q => PlanReqSound(r)'
  BY <1>4, <1>5, <1>7, <1>9, <1>11, <1>12 DEF PlanReqSound
<1> QED BY <1>3, <1>7, <1>13, BeginWriterPlanInv

\* A request that ends or dies has read nothing.
LEMMA EndPlanInv ==
  ASSUME PlanInv, NEW r \in PlanRequests, EndMove(r) \/ PlanReqDies(r)
  PROVE  PlanInv'
<1>1. planReq'[r] = NoPlanReq => PlanReqSound(r)' BY DEF PlanReqSound, NoPlanReq
<1>2. messy' \in BOOLEAN BY ZenonT(20) DEF EndMove, PlanReqDies
<1> QED BY <1>1, <1>2, PlanReqInv DEF EndMove, PlanReqDies, planRows

LEMMA WriteStatusPlanInv == ASSUME PlanInv, NEW r \in PlanRequests, WriteStatus(r) PROVE PlanInv'
<1> PICK p : p = planReq[r].plan OBVIOUS
<1> PICK to : to = planReq[r].to OBVIOUS
<1>1. p \in Plans /\ to \in PlanStatus BY PlanCarries DEF WriteStatus, PlanInv
<1>2. /\ planStatus' = [planStatus EXCEPT ![p] = to]
      /\ UNCHANGED <<unitPlan, generated, queue, messy>>
      /\ planReq' = [planReq EXCEPT ![r] = NoPlanReq]
  BY DEF WriteStatus
<1>3. /\ planReq'[r] = NoPlanReq
      /\ \A s \in PlanRequests : s # r => planReq'[s] = planReq[s]
      /\ planReq' \in [PlanRequests -> PlanRequest \union {NoPlanReq}]
  BY <1>2 DEF PlanInv, PlanningTypeOK
<1>4. planStatus' \in [Plans -> PlanStatus] BY <1>1, <1>2 DEF PlanInv, PlanningTypeOK
<1>5. PlanningTypeOK' BY <1>2, <1>3, <1>4 DEF PlanInv, PlanningTypeOK
<1>6. PlanReqSound(r)' BY <1>3 DEF PlanReqSound, NoPlanReq
<1>7. \A s \in PlanRequests : s # r => PlanReqSound(s)'
  BY <1>2, <1>3, PlanReqStays DEF InQueue
<1> QED BY <1>5, <1>6, <1>7 DEF PlanInv

LEMMA WriteUnitPlanInv == ASSUME PlanInv, NEW r \in PlanRequests, WriteUnit(r) PROVE PlanInv'
<1> PICK q : q = planReq[r] OBVIOUS
<1>1. q \in [kind : {"generate"}, plan : Plans, left : Nat] /\ q.left # 0
  BY PlanCarries DEF WriteUnit, PlanInv, PlanReqSound
<1>2. PICK u \in Units : /\ unitPlan' = [unitPlan EXCEPT ![u] = q.plan]
                         /\ generated' = generated \union {u}
  BY DEF WriteUnit
<1> PICK w : w = IF q.left = 1 THEN NoPlanReq ELSE [q EXCEPT !.left = q.left - 1] OBVIOUS
<1>3. planReq' = [planReq EXCEPT ![r] = w] /\ UNCHANGED <<planStatus, queue, messy>>
  BY DEF WriteUnit
<1>4. \/ w = NoPlanReq
      \/ w \in [kind : {"generate"}, plan : Plans, left : Nat] /\ w.left # 0
  <2>1. CASE q.left = 1 BY <2>1
  <2>2. CASE q.left # 1
    <3>1. q.left - 1 \in Nat /\ q.left - 1 # 0 BY <1>1, <2>2
    <3>2. w = [q EXCEPT !.left = q.left - 1] BY <2>2
    <3> QED BY <1>1, <3>1, <3>2
  <2> QED BY <2>1, <2>2
<1>5. w \in PlanRequest \union {NoPlanReq} BY <1>4 DEF PlanRequest
<1>6. /\ planReq'[r] = w /\ \A s \in PlanRequests : s # r => planReq'[s] = planReq[s]
      /\ planReq' \in [PlanRequests -> PlanRequest \union {NoPlanReq}]
  BY <1>3, <1>5 DEF PlanInv, PlanningTypeOK
<1>7. /\ unitPlan' \in [Units -> Plans \union {NoPlan, "ABSENT"}]
      /\ generated' \subseteq Units
  BY <1>1, <1>2 DEF PlanInv, PlanningTypeOK
<1>8. PlanningTypeOK' BY <1>3, <1>6, <1>7 DEF PlanInv, PlanningTypeOK
<1>9. PlanReqSound(r)' BY <1>4, <1>6 DEF PlanReqSound, NoPlanReq
<1>10. \A s \in PlanRequests : s # r => PlanReqSound(s)'
  BY <1>3, <1>6, PlanReqStays DEF InQueue
<1> QED BY <1>8, <1>9, <1>10 DEF PlanInv

LEMMA WriteLinkPlanInv == ASSUME PlanInv, NEW r \in PlanRequests, WriteLink(r) PROVE PlanInv'
<1> PICK q : q = planReq[r] OBVIOUS
<1>1. q \in [kind : {"link"}, plan : Plans, unit : Units]
  BY PlanCarries DEF WriteLink, PlanInv
<1>2. /\ unitPlan' = [unitPlan EXCEPT ![q.unit] = q.plan]
      /\ planReq' = [planReq EXCEPT ![r] = NoPlanReq]
      /\ UNCHANGED <<planStatus, generated, queue, messy>>
  BY DEF WriteLink
<1>3. /\ planReq'[r] = NoPlanReq /\ \A s \in PlanRequests : s # r => planReq'[s] = planReq[s]
      /\ planReq' \in [PlanRequests -> PlanRequest \union {NoPlanReq}]
  BY <1>2 DEF PlanInv, PlanningTypeOK
<1>4. unitPlan' \in [Units -> Plans \union {NoPlan, "ABSENT"}]
  BY <1>1, <1>2 DEF PlanInv, PlanningTypeOK
<1>5. PlanningTypeOK' BY <1>2, <1>3, <1>4 DEF PlanInv, PlanningTypeOK
<1>6. PlanReqSound(r)' BY <1>3 DEF PlanReqSound, NoPlanReq
<1>7. \A s \in PlanRequests : s # r => PlanReqSound(s)'
  BY <1>2, <1>3, PlanReqStays DEF InQueue
<1> QED BY <1>5, <1>6, <1>7 DEF PlanInv

\* A request that writes to the sequence: its own next state is w, the others are spoiled.
LEMMA SequenceWritten ==
  ASSUME PlanInv, NEW r \in PlanRequests, NEW w \in PlanRequest \union {NoPlanReq},
         planReq' = [Spoiled(planReq, r) EXCEPT ![r] = w],
         UNCHANGED <<planStatus, unitPlan, generated>>, messy' \in BOOLEAN,
         queue' \in [Units -> QueueItem \union {NoItem}], InQueue \subseteq InQueue',
         planReq'[r] = w => PlanReqSound(r)'
  PROVE  PlanInv'
<1>1. /\ planReq'[r] = w
      /\ \A s \in PlanRequests : s # r => planReq'[s] = Spoiled(planReq, r)[s]
      /\ DOMAIN planReq' = PlanRequests /\ planReq' = [s \in PlanRequests |-> planReq'[s]]
  BY DEF Spoiled
<1>2. \A s \in PlanRequests : s # r =>
        PlanReqSound(s)' /\ planReq'[s] \in PlanRequest \union {NoPlanReq}
  BY <1>1, PlanReqStays
<1>3. planReq' \in [PlanRequests -> PlanRequest \union {NoPlanReq}] BY <1>1, <1>2
<1>4. PlanningTypeOK' BY <1>3 DEF PlanInv, PlanningTypeOK
<1> QED BY <1>1, <1>2, <1>4 DEF PlanInv

\* create_from_plan adds to the sequence only.
LEMMA WriteItemPlanInv == ASSUME PlanInv, NEW r \in PlanRequests, WriteItem(r) PROVE PlanInv'
<1> PICK q : q = planReq[r] OBVIOUS
<1>1. q \in [kind : {"sequence"}, todo : SUBSET Units, top : Nat] /\ q.todo # {}
  BY PlanCarries DEF WriteItem, PlanInv, PlanReqSound
<1> PICK u : u = Min(q.todo) OBVIOUS
<1>2. u \in Units
  <2>1. q.todo \in SUBSET Nat /\ q.todo # {} BY <1>1, PlanningAssumption
  <2>2. u \in q.todo BY <2>1, MinIn
  <2> QED BY <1>1, <2>2
<1> PICK left : left = q.todo \ {u} OBVIOUS
<1> PICK top : top = IF u \in InQueue THEN q.top ELSE q.top + 1 OBVIOUS
<1> PICK item : item = [status |-> "OPEN", seq |-> top] OBVIOUS
<1> PICK w : w = IF left = {} THEN NoPlanReq ELSE [q EXCEPT !.todo = left, !.top = top] OBVIOUS
<1>3. top \in Nat BY <1>1
<1>4. item \in QueueItem /\ item # NoItem BY <1>3 DEF QueueItem, QueueStatus, NoItem
<1>5. /\ planReq' = [Spoiled(planReq, r) EXCEPT ![r] = w]
      /\ UNCHANGED <<planStatus, unitPlan, generated, messy>>
      /\ u \in InQueue => queue' = queue
      /\ u \notin InQueue => queue' = [queue EXCEPT ![u] = item]
  BY DEF WriteItem
<1>6. \/ w = NoPlanReq
      \/ w \in [kind : {"sequence"}, todo : SUBSET Units, top : Nat] /\ w.todo # {}
  <2>1. CASE left = {} BY <2>1
  <2>2. CASE left # {}
    <3>1. left \in SUBSET Units BY <1>1
    <3>2. w = [q EXCEPT !.todo = left, !.top = top] BY <2>2
    <3> QED BY <1>1, <1>3, <2>2, <3>1, <3>2
  <2> QED BY <2>1, <2>2
<1>7. w \in PlanRequest \union {NoPlanReq} BY <1>6 DEF PlanRequest
<1>8. queue' \in [Units -> QueueItem \union {NoItem}] /\ InQueue \subseteq InQueue'
  <2>1. CASE u \in InQueue BY <1>5, <2>1 DEF PlanInv, PlanningTypeOK, InQueue
  <2>2. CASE u \notin InQueue BY <1>2, <1>4, <1>5, <2>2 DEF PlanInv, PlanningTypeOK, InQueue
  <2> QED BY <2>1, <2>2
<1>9. planReq'[r] = w => PlanReqSound(r)'
  <2>1. w.kind = "idle" \/ (w.kind = "sequence" /\ w.todo # {})
    <3>1. CASE w = NoPlanReq
      <4>1. w.kind = "idle" BY ONLY <3>1 DEF NoPlanReq
      <4> QED BY <4>1
    <3>2. CASE w \in [kind : {"sequence"}, todo : SUBSET Units, top : Nat] /\ w.todo # {}
      BY <3>2
    <3> QED BY <1>6, <3>1, <3>2
  <2> QED BY <2>1 DEF PlanReqSound
<1>10. messy' \in BOOLEAN BY <1>5 DEF PlanInv, PlanningTypeOK
<1> QED BY <1>5, <1>7, <1>8, <1>9, <1>10, SequenceWritten

\* set_status saves the status of an item that is there.
LEMMA WriteSetPlanInv == ASSUME PlanInv, NEW r \in PlanRequests, WriteSet(r) PROVE PlanInv'
<1> PICK q : q = planReq[r] OBVIOUS
<1>1. q \in [kind : {"set"}, unit : Units, to : QueueStatus] /\ q.unit \in InQueue
  BY PlanCarries DEF WriteSet, PlanInv, PlanReqSound
<1> PICK u : u = q.unit OBVIOUS
<1> PICK item : item = [queue[u] EXCEPT !.status = q.to] OBVIOUS
<1>2. queue[u] \in QueueItem BY <1>1 DEF InQueue, PlanInv, PlanningTypeOK
<1>3. item \in QueueItem BY <1>1, <1>2 DEF QueueItem
<1>4. item # NoItem BY <1>3 DEF QueueItem, QueueStatus, NoItem
<1>5. /\ planReq' = [Spoiled(planReq, r) EXCEPT ![r] = NoPlanReq]
      /\ UNCHANGED <<planStatus, unitPlan, generated, messy>>
      /\ queue' = [queue EXCEPT ![u] = item]
  BY DEF WriteSet
<1>6. queue' \in [Units -> QueueItem \union {NoItem}] /\ InQueue \subseteq InQueue'
  BY <1>1, <1>3, <1>4, <1>5 DEF PlanInv, PlanningTypeOK, InQueue
<1>7. planReq'[r] = NoPlanReq => PlanReqSound(r)' BY DEF PlanReqSound, NoPlanReq
<1>8. messy' \in BOOLEAN BY <1>5 DEF PlanInv, PlanningTypeOK
<1> QED BY <1>5, <1>6, <1>7, <1>8, SequenceWritten

\* The form of an item saves all of it.
LEMMA WriteFormPlanInv == ASSUME PlanInv, NEW r \in PlanRequests, WriteForm(r) PROVE PlanInv'
<1> PICK q : q = planReq[r] OBVIOUS
<1>1. q \in [kind : {"form"}, unit : Units, row : QueueItem, new : BOOLEAN]
  BY PlanCarries DEF WriteForm, PlanInv
<1>2. q.row # NoItem BY <1>1 DEF QueueItem, QueueStatus, NoItem
<1>3. /\ planReq' = [Spoiled(planReq, r) EXCEPT ![r] = NoPlanReq]
      /\ UNCHANGED <<planStatus, unitPlan, generated>>
      /\ queue' = [queue EXCEPT ![q.unit] = q.row]
  BY DEF WriteForm
<1>4. queue' \in [Units -> QueueItem \union {NoItem}] /\ InQueue \subseteq InQueue'
  BY <1>1, <1>2, <1>3 DEF PlanInv, PlanningTypeOK, InQueue
<1>5. planReq'[r] = NoPlanReq => PlanReqSound(r)' BY DEF PlanReqSound, NoPlanReq
<1>6. messy' \in BOOLEAN BY ZenonT(20) DEF WriteForm
<1> QED BY <1>3, <1>4, <1>5, <1>6, SequenceWritten

\* resequence gives the next item its place, unless it had it: one more place is right.
LEMMA WriteMovePlanInv == ASSUME PlanInv, NEW r \in PlanRequests, WriteMove(r) PROVE PlanInv'
<1> PICK q : q = planReq[r] OBVIOUS
<1>1. q \in [kind : {"move"}, order : Seq(Units), wrong : SUBSET Nat, done : Nat, alone : BOOLEAN]
  BY PlanCarries DEF WriteMove, PlanInv
<1>2. /\ ToSet(q.order) \subseteq InQueue
      /\ \A i, j \in DOMAIN q.order : q.order[i] = q.order[j] => i = j
      /\ q.alone => ToSet(q.order) = InLine /\ Numbered(q)
  BY <1>1 DEF PlanInv, PlanReqSound
<1> PICK i : i = q.done + 1 OBVIOUS
<1>3. i \in Nat \ {0} /\ i <= Len(q.order) BY <1>1 DEF WriteMove
<1>4. DOMAIN q.order = 1 .. Len(q.order) /\ Len(q.order) \in Nat BY <1>1
<1>5. i \in DOMAIN q.order BY <1>3, <1>4
<1> PICK u : u = q.order[i] OBVIOUS
<1>6. u \in InQueue /\ u \in Units BY <1>1, <1>2, <1>5 DEF ToSet
<1> PICK item : item = [queue[u] EXCEPT !.seq = i] OBVIOUS
<1>7. queue[u] \in QueueItem BY <1>6 DEF InQueue, PlanInv, PlanningTypeOK
<1>8. item \in QueueItem /\ item.status = queue[u].status /\ item.seq = i
  BY <1>3, <1>7 DEF QueueItem
<1>9. item # NoItem BY <1>8 DEF QueueItem, QueueStatus, NoItem
<1> PICK w : w = [q EXCEPT !.done = i] OBVIOUS
<1>10. planReq' = [Spoiled(planReq, r) EXCEPT ![r] = w]
  <2>1. planReq' = [Spoiled(planReq, r) EXCEPT ![r] = [Spoiled(planReq, r)[r] EXCEPT !.done = i]]
    BY DEF WriteMove
  <2>2. Spoiled(planReq, r)[r] = q BY DEF Spoiled
  <2> QED BY <2>1, <2>2
<1>11. /\ UNCHANGED <<planStatus, unitPlan, generated, messy>>
       /\ i \in q.wrong => queue' = [queue EXCEPT ![u] = item]
       /\ i \notin q.wrong => queue' = queue
  BY DEF WriteMove
<1>12. /\ w.kind = "move" /\ w.order = q.order /\ w.wrong = q.wrong /\ w.done = i
       /\ w.alone = q.alone
       /\ w \in [kind : {"move"}, order : Seq(Units), wrong : SUBSET Nat, done : Nat,
                 alone : BOOLEAN]
  BY <1>1, <1>3
<1>13. w \in PlanRequest BY <1>12 DEF PlanRequest
<1>14. /\ queue' \in [Units -> QueueItem \union {NoItem}]
       /\ InQueue \subseteq InQueue'
       /\ \A v \in Units : /\ v \in InQueue' => v \in InQueue
                           /\ queue'[v].status = queue[v].status
                           /\ v # u => queue'[v] = queue[v]
  <2>1. CASE i \in q.wrong
    <3>1. /\ queue' \in [Units -> QueueItem \union {NoItem}] /\ queue'[u] = item
          /\ \A v \in Units : v # u => queue'[v] = queue[v]
      BY <1>6, <1>8, <1>11, <2>1 DEF PlanInv, PlanningTypeOK
    <3>2. InQueue' = InQueue BY <1>6, <1>9, <3>1 DEF InQueue
    <3>3. \A v \in Units : queue'[v].status = queue[v].status
      BY <1>8, <3>1
    <3> QED BY <3>1, <3>2, <3>3
  <2>2. CASE i \notin q.wrong BY <1>11, <2>2 DEF PlanInv, PlanningTypeOK, InQueue
  <2> QED BY <2>1, <2>2
<1>15. messy' \in BOOLEAN BY <1>11 DEF PlanInv, PlanningTypeOK
<1>16. InLine' = InLine BY <1>14 DEF InLine
<1>17. ASSUME q.alone, NEW j \in DOMAIN q.order
       PROVE  queue'[q.order[j]].seq = j <=> (j <= i \/ j \notin q.wrong)
  <2>1. queue[q.order[j]].seq = j <=> (j <= q.done \/ j \notin q.wrong)
    BY <1>2, <1>17 DEF Numbered
  <2>2. CASE j = i
    <3>1. i \in q.wrong => queue'[u] = item
      BY <1>6, <1>11 DEF PlanInv, PlanningTypeOK
    <3>2. CASE i \in q.wrong
      <4>1. queue'[q.order[j]].seq = i BY <1>8, <2>2, <3>1, <3>2
      <4> QED BY <1>3, <2>2, <4>1
    <3>3. CASE i \notin q.wrong BY <1>3, <1>11, <2>1, <2>2, <3>3
    <3> QED BY <3>2, <3>3
  <2>3. CASE j # i
    <3>1. q.order[j] # u BY <1>2, <1>5, <2>3
    <3>2. q.order[j] \in Units BY <1>1
    <3>3. queue'[q.order[j]] = queue[q.order[j]] BY <1>14, <3>1, <3>2
    <3>4. j <= i <=> j <= q.done BY <1>1, <1>4, <2>3
    <3> QED BY <2>1, <3>3, <3>4
  <2> QED BY <2>2, <2>3
<1>18. planReq'[r] = w => PlanReqSound(r)'
  <2>1. w.done <= Len(w.order) BY <1>3, <1>12
  <2>2. w.alone => \A j \in DOMAIN w.order :
                     queue'[w.order[j]].seq = j <=> (j <= w.done \/ j \notin w.wrong)
    BY <1>12, <1>17
  <2>3. ASSUME planReq'[r] = w, w.alone PROVE Numbered(planReq[r])'
    BY <2>2, <2>3 DEF Numbered
  <2> QED BY <1>2, <1>12, <1>14, <1>16, <2>1, <2>3 DEF PlanReqSound
<1> QED BY <1>10, <1>11, <1>13, <1>14, <1>15, <1>18, SequenceWritten

(***************************************************************************)
(* The numbers.  While the line is not messy, one request at most writes   *)
(* to it, so that what this one has read is so until it writes.            *)
(***************************************************************************)
Tidy ==
  ~ messy =>
    /\ \A r, s \in PlanRequests :
         planReq[r].kind \in QueueWriters /\ planReq[s].kind \in QueueWriters => r = s
    /\ \A r \in PlanRequests :
         /\ planReq[r].kind = "sequence" => \A u \in InQueue : queue[u].seq <= planReq[r].top
         /\ planReq[r].kind = "set" => queue[planReq[r].unit].status = "OPEN"
         /\ planReq[r].kind = "move" => planReq[r].alone

LineInv == Tidy /\ NumbersDistinct

LEMMA InitLineInv == PlanningInit => LineInv
<1> SUFFICES ASSUME PlanningInit PROVE LineInv OBVIOUS
<1>1. \A r \in PlanRequests : planReq[r].kind = "idle" BY DEF PlanningInit, NoPlanReq
<1>2. InLine = {} BY DEF PlanningInit, InLine, NoItem
<1> QED BY <1>1, <1>2 DEF LineInv, Tidy, NumbersDistinct, QueueWriters

\* A request goes on that writes nothing to the sequence, or any request dies.
LEMMA QuietLineInv ==
  ASSUME PlanInv, LineInv, NEW r \in PlanRequests, NEW q \in PlanRequest \union {NoPlanReq},
         planReq' = [planReq EXCEPT ![r] = q], q.kind \notin QueueWriters, UNCHANGED queue,
         ~ messy' => ~ messy /\ planReq[r].kind # "move"
  PROVE  LineInv'
<1> SUFFICES ASSUME ~ messy' PROVE LineInv' BY DEF LineInv, Tidy, NumbersDistinct
<1>1. /\ planReq'[r] = q
      /\ \A s \in PlanRequests : s # r => planReq'[s] = planReq[s]
  BY DEF PlanInv, PlanningTypeOK
<1>2. InQueue' = InQueue /\ InLine' = InLine BY DEF InQueue, InLine
<1>3. Tidy'
  <2>1. \A s \in PlanRequests : planReq'[s].kind \in QueueWriters => s # r BY <1>1
  <2> QED BY <1>1, <1>2, <2>1 DEF LineInv, Tidy, QueueWriters
<1>4. NumbersDistinct' BY <1>1, <1>2 DEF LineInv, NumbersDistinct
<1> QED BY <1>3, <1>4 DEF LineInv

\* A request begins that writes to the sequence: alone, or the line counts as messy.
LEMMA BeginLineInv ==
  ASSUME PlanInv, LineInv, NEW r \in PlanRequests, NEW q \in PlanRequest, BeginWriter(r, q),
         /\ q.kind = "sequence" => \A u \in InQueue : queue[u].seq <= q.top
         /\ q.kind = "set" => queue[q.unit].status = "OPEN"
         /\ q.kind = "move" => q.alone
  PROVE  LineInv'
<1> SUFFICES ASSUME ~ messy' PROVE LineInv' BY DEF LineInv, Tidy, NumbersDistinct
<1>1. /\ planReq'[r] = q
      /\ \A s \in PlanRequests : s # r => planReq'[s] = planReq[s]
      /\ UNCHANGED queue
  BY DEF BeginWriter, Begin, planRows, PlanInv, PlanningTypeOK
<1>2. ~ messy /\ \A s \in PlanRequests : s # r => planReq[s].kind \notin QueueWriters
  BY DEF BeginWriter, NoOtherWriter
<1>3. InQueue' = InQueue /\ InLine' = InLine BY <1>1 DEF InQueue, InLine
<1>4. Tidy' BY <1>1, <1>2, <1>3 DEF Tidy, QueueWriters
<1>5. planReq[r].kind # "move" BY DEF BeginWriter, Begin, NoPlanReq
<1>6. NumbersDistinct' BY <1>1, <1>2, <1>3, <1>5 DEF LineInv, NumbersDistinct, QueueWriters
<1> QED BY <1>4, <1>6 DEF LineInv

\* Nobody else writes to the sequence while r does and the line is not messy.
LEMMA OneWriter ==
  ASSUME PlanInv, LineInv, ~ messy, NEW r \in PlanRequests, planReq[r].kind \in QueueWriters,
         NEW w \in PlanRequest \union {NoPlanReq}, planReq' = [Spoiled(planReq, r) EXCEPT ![r] = w]
  PROVE  /\ planReq'[r] = w
         /\ \A s \in PlanRequests : s # r =>
              planReq'[s] = planReq[s] /\ planReq'[s].kind \notin QueueWriters
<1>1. \A s \in PlanRequests : s # r => planReq[s].kind \notin QueueWriters
  BY DEF LineInv, Tidy
<1>2. \A s \in PlanRequests : s # r => planReq'[s] = planReq[s]
  BY <1>1 DEF Spoiled, QueueWriters
<1>3. planReq'[r] = w BY DEF Spoiled
<1> QED BY <1>1, <1>2, <1>3

\* create_from_plan alone goes on above the highest number of the line.
LEMMA WriteItemLineInv ==
  ASSUME PlanInv, LineInv, NEW r \in PlanRequests, WriteItem(r)
  PROVE  LineInv'
<1> SUFFICES ASSUME ~ messy' PROVE LineInv' BY DEF LineInv, Tidy, NumbersDistinct
<1>0. ~ messy BY DEF WriteItem
<1> PICK q : q = planReq[r] OBVIOUS
<1>1. q \in [kind : {"sequence"}, todo : SUBSET Units, top : Nat] /\ q.todo # {}
  BY PlanCarries DEF WriteItem, PlanInv, PlanReqSound
<1> PICK u : u = Min(q.todo) OBVIOUS
<1>2. u \in Units
  <2>1. q.todo \in SUBSET Nat /\ q.todo # {} BY <1>1, PlanningAssumption
  <2>2. u \in q.todo BY <2>1, MinIn
  <2> QED BY <1>1, <2>2
<1> PICK left : left = q.todo \ {u} OBVIOUS
<1> PICK top : top = IF u \in InQueue THEN q.top ELSE q.top + 1 OBVIOUS
<1> PICK item : item = [status |-> "OPEN", seq |-> top] OBVIOUS
<1> PICK w : w = IF left = {} THEN NoPlanReq ELSE [q EXCEPT !.todo = left, !.top = top] OBVIOUS
<1>3. /\ planReq' = [Spoiled(planReq, r) EXCEPT ![r] = w]
      /\ u \in InQueue => queue' = queue
      /\ u \notin InQueue => queue' = [queue EXCEPT ![u] = item]
  BY DEF WriteItem
<1>4. \/ w = NoPlanReq
      \/ w \in [kind : {"sequence"}, todo : SUBSET Units, top : Nat] /\ w.top = top
  <2>1. CASE left = {}
    <3>1. w = NoPlanReq BY <2>1
    <3> QED BY ONLY <3>1
  <2>2. CASE left # {}
    <3>1. left \in SUBSET Units /\ top \in Nat BY <1>1
    <3>2. w = [q EXCEPT !.todo = left, !.top = top] BY <2>2
    <3> QED BY <1>1, <3>1, <3>2
  <2> QED BY <2>1, <2>2
<1>5. w \in PlanRequest \union {NoPlanReq} BY <1>4 DEF PlanRequest
<1>6. /\ planReq'[r] = w
      /\ \A s \in PlanRequests : s # r =>
           planReq'[s] = planReq[s] /\ planReq'[s].kind \notin QueueWriters
  BY <1>0, <1>1, <1>3, <1>5, OneWriter DEF QueueWriters
<1>7. \A v \in InQueue : queue[v].seq <= q.top BY <1>0, <1>1 DEF LineInv, Tidy
<1>8. \A v \in Units : queue[v].seq \in Nat
  BY DEF PlanInv, PlanningTypeOK, QueueItem, NoItem
<1>9. \A s \in PlanRequests : planReq[s].kind = "move" => FALSE
  BY <1>0, <1>1 DEF LineInv, Tidy, QueueWriters
<1>10. \A x, y \in InLine : queue[x].seq = queue[y].seq => x = y
  BY <1>0, <1>9 DEF LineInv, NumbersDistinct
<1>11. InLine \subseteq InQueue /\ InQueue \subseteq Units BY DEF InLine, InQueue, NoItem
<1>12. /\ \A v \in InQueue' : queue'[v].seq <= top
       /\ \A x, y \in InLine' : queue'[x].seq = queue'[y].seq => x = y
  <2>1. CASE u \in InQueue
    <3>1. queue' = queue /\ top = q.top BY <1>3, <2>1
    <3> QED BY <1>7, <1>10, <3>1 DEF InQueue, InLine
  <2>2. CASE u \notin InQueue
    <3>1. /\ queue'[u].seq = top /\ top = q.top + 1
          /\ \A v \in Units : v # u => queue'[v] = queue[v]
      BY <1>2, <1>3, <2>2 DEF PlanInv, PlanningTypeOK
    <3>2. \A v \in InQueue' : v # u => v \in InQueue /\ queue'[v].seq = queue[v].seq
      BY <3>1 DEF InQueue
    <3>3. \A v \in InLine' : v # u => v \in InLine /\ queue'[v].seq = queue[v].seq
      BY <3>1 DEF InLine
    <3>4. \A v \in InQueue : queue[v].seq <= top /\ queue[v].seq # top
      BY <1>1, <1>7, <1>8, <1>11, <3>1
    <3>5. \A v \in InQueue' : queue'[v].seq <= top BY <1>1, <3>1, <3>2, <3>4
    <3>6. \A x, y \in InLine' : queue'[x].seq = queue'[y].seq => x = y
      BY <1>10, <1>11, <3>1, <3>3, <3>4
    <3> QED BY <3>5, <3>6
  <2> QED BY <2>1, <2>2
<1>13. w.kind \in {"idle", "sequence"} /\ (w.kind = "sequence" => w.top = top)
  BY <1>4 DEF NoPlanReq
<1>14. Tidy'
  <2>1. \A s, t \in PlanRequests :
          planReq'[s].kind \in QueueWriters /\ planReq'[t].kind \in QueueWriters => s = t
    BY <1>6
  <2>2. ASSUME NEW s \in PlanRequests
        PROVE  /\ planReq'[s].kind = "sequence" => \A v \in InQueue' : queue'[v].seq <= planReq'[s].top
               /\ planReq'[s].kind \notin {"set", "move"}
    <3>1. CASE s = r BY <1>6, <1>12, <1>13, <3>1
    <3>2. CASE s # r BY <1>6, <3>2 DEF QueueWriters
    <3> QED BY <3>1, <3>2
  <2> QED BY <2>1, <2>2 DEF Tidy, QueueWriters
<1>15. NumbersDistinct' BY <1>12 DEF NumbersDistinct
<1> QED BY <1>14, <1>15 DEF LineInv

\* set_status alone: the item was open, so no item becomes open by it.
LEMMA WriteSetLineInv ==
  ASSUME PlanInv, LineInv, NEW r \in PlanRequests, WriteSet(r)
  PROVE  LineInv'
<1> SUFFICES ASSUME ~ messy' PROVE LineInv' BY DEF LineInv, Tidy, NumbersDistinct
<1>0. ~ messy BY DEF WriteSet
<1> PICK q : q = planReq[r] OBVIOUS
<1>1. q \in [kind : {"set"}, unit : Units, to : QueueStatus] /\ queue[q.unit].status = "OPEN"
  BY <1>0, PlanCarries DEF WriteSet, PlanInv, LineInv, Tidy
<1>2. /\ planReq' = [Spoiled(planReq, r) EXCEPT ![r] = NoPlanReq]
      /\ queue' = [queue EXCEPT ![q.unit].status = q.to]
  BY DEF WriteSet
<1>3. /\ planReq'[r] = NoPlanReq
      /\ \A s \in PlanRequests : s # r => planReq'[s].kind \notin QueueWriters
  BY <1>0, <1>1, <1>2, OneWriter DEF QueueWriters
<1>4. \A s \in PlanRequests : planReq'[s].kind \notin QueueWriters
  BY <1>3 DEF NoPlanReq, QueueWriters
<1>5. Tidy' BY <1>4 DEF Tidy, QueueWriters
<1>6. \A s \in PlanRequests : planReq[s].kind # "move"
  BY <1>0, <1>1 DEF LineInv, Tidy, QueueWriters
<1>7. queue[q.unit] \in QueueItem BY <1>1 DEF PlanInv, PlanningTypeOK, NoItem
<1>8. \A v \in InLine' : v \in InLine /\ queue'[v].seq = queue[v].seq
  <2>1. \A v \in Units : v # q.unit => queue'[v] = queue[v]
    BY <1>2 DEF PlanInv, PlanningTypeOK
  <2>2. queue'[q.unit].seq = queue[q.unit].seq
    BY <1>1, <1>2, <1>7 DEF PlanInv, PlanningTypeOK, QueueItem
  <2> QED BY <1>1, <2>1, <2>2 DEF InLine
<1>9. NumbersDistinct' BY <1>0, <1>6, <1>8 DEF LineInv, NumbersDistinct
<1> QED BY <1>5, <1>9 DEF LineInv

\* The form of an item: a number that an open item has makes the line messy.
LEMMA WriteFormLineInv ==
  ASSUME PlanInv, LineInv, NEW r \in PlanRequests, WriteForm(r)
  PROVE  LineInv'
<1> SUFFICES ASSUME ~ messy' PROVE LineInv' BY DEF LineInv, Tidy, NumbersDistinct
<1> PICK q : q = planReq[r] OBVIOUS
<1>1. q \in [kind : {"form"}, unit : Units, row : QueueItem, new : BOOLEAN]
  BY PlanCarries DEF WriteForm, PlanInv
<1>2. /\ planReq' = [Spoiled(planReq, r) EXCEPT ![r] = NoPlanReq]
      /\ queue' = [queue EXCEPT ![q.unit] = q.row]
      /\ ~ messy
      /\ q.row.status = "OPEN" => \A v \in InLine : v # q.unit => queue[v].seq # q.row.seq
  BY DEF WriteForm
<1>3. /\ planReq'[r] = NoPlanReq
      /\ \A s \in PlanRequests : s # r => planReq'[s].kind \notin QueueWriters
  BY <1>1, <1>2, OneWriter DEF QueueWriters
<1>4. \A s \in PlanRequests : planReq'[s].kind \notin QueueWriters
  BY <1>3 DEF NoPlanReq, QueueWriters
<1>5. Tidy' BY <1>4 DEF Tidy, QueueWriters
<1>6. \A s \in PlanRequests : planReq[s].kind # "move"
  BY <1>1, <1>2 DEF LineInv, Tidy, QueueWriters
<1>7. /\ queue'[q.unit] = q.row
      /\ \A v \in Units : v # q.unit => queue'[v] = queue[v]
  BY <1>1, <1>2 DEF PlanInv, PlanningTypeOK
<1>8. /\ \A v \in InLine' : v # q.unit => v \in InLine /\ queue'[v].seq = queue[v].seq
      /\ q.unit \in InLine' => q.row.status = "OPEN"
  BY <1>7 DEF InLine
<1>9. NumbersDistinct' BY <1>2, <1>6, <1>7, <1>8 DEF LineInv, NumbersDistinct
<1> QED BY <1>5, <1>9 DEF LineInv

\* resequence alone goes on; of the numbers nothing is claimed until it ends.
LEMMA WriteMoveLineInv ==
  ASSUME PlanInv, LineInv, NEW r \in PlanRequests, WriteMove(r)
  PROVE  LineInv'
<1> SUFFICES ASSUME ~ messy' PROVE LineInv' BY DEF LineInv, Tidy, NumbersDistinct
<1>0. ~ messy BY DEF WriteMove
<1> PICK q : q = planReq[r] OBVIOUS
<1>1. /\ q \in [kind : {"move"}, order : Seq(Units), wrong : SUBSET Nat, done : Nat,
                alone : BOOLEAN]
      /\ q.alone
  BY <1>0, PlanCarries DEF WriteMove, PlanInv, LineInv, Tidy
<1> PICK w : w = [q EXCEPT !.done = q.done + 1] OBVIOUS
<1>2. planReq' = [Spoiled(planReq, r) EXCEPT ![r] = w]
  <2>1. planReq' = [Spoiled(planReq, r) EXCEPT ![r] = [Spoiled(planReq, r)[r] EXCEPT !.done = q.done + 1]]
    BY DEF WriteMove
  <2>2. Spoiled(planReq, r)[r] = q BY DEF Spoiled
  <2> QED BY <2>1, <2>2
<1>3. /\ w.kind = "move" /\ w.alone = q.alone
      /\ w \in [kind : {"move"}, order : Seq(Units), wrong : SUBSET Nat, done : Nat,
                alone : BOOLEAN]
  <2>1. q.done + 1 \in Nat BY <1>1
  <2> QED BY <1>1, <2>1
<1>4. w \in PlanRequest BY <1>3 DEF PlanRequest
<1>5. /\ planReq'[r] = w
      /\ \A s \in PlanRequests : s # r => planReq'[s].kind \notin QueueWriters
  BY <1>0, <1>1, <1>2, <1>4, OneWriter DEF QueueWriters
<1>6. Tidy' BY <1>1, <1>3, <1>5 DEF Tidy, QueueWriters
<1>7. NumbersDistinct' BY <1>3, <1>5 DEF NumbersDistinct
<1> QED BY <1>6, <1>7 DEF LineInv

\* A move that nothing disturbed has ended: the line is in its order.
LEMMA EndMoveLineInv ==
  ASSUME PlanInv, LineInv, NEW r \in PlanRequests, EndMove(r)
  PROVE  LineInv'
<1> SUFFICES ASSUME ~ messy' PROVE LineInv' BY DEF LineInv, Tidy, NumbersDistinct
<1> PICK q : q = planReq[r] OBVIOUS
<1>1. q.kind = "move" /\ q.done = Len(q.order) BY DEF EndMove, Moved
<1>2. q.alone /\ NoOtherWriter(r)
  <2>1. CASE messy BY <2>1 DEF EndMove
  <2>2. CASE ~ messy
    <3>1. q.alone BY <1>1, <2>2 DEF LineInv, Tidy
    <3>2. \A s \in PlanRequests \ {r} : planReq[s].kind \notin QueueWriters
      BY <1>1, <2>2 DEF LineInv, Tidy, QueueWriters
    <3> QED BY <3>1, <3>2 DEF NoOtherWriter
  <2> QED BY <2>1, <2>2
<1>3. /\ planReq' = [planReq EXCEPT ![r] = NoPlanReq] /\ UNCHANGED queue
  BY DEF EndMove, planRows
<1>4. \A s \in PlanRequests : planReq'[s].kind \notin QueueWriters
  <2>1. NoPlanReq.kind \notin QueueWriters BY DEF NoPlanReq, QueueWriters
  <2> QED BY <1>2, <1>3, <2>1 DEF NoOtherWriter, PlanInv, PlanningTypeOK
<1>5. Tidy' BY <1>4 DEF Tidy, QueueWriters
<1>6. q.order \in Seq(Units) BY <1>1, PlanCarries DEF PlanInv
<1>7. ToSet(q.order) = InLine /\ Numbered(q) BY <1>1, <1>2 DEF PlanInv, PlanReqSound
<1>8. \A i \in DOMAIN q.order : i <= q.done BY <1>1, <1>6
<1>9. \A i \in DOMAIN q.order : queue[q.order[i]].seq = i BY <1>7, <1>8 DEF Numbered
<1>10. \A v \in InLine : \E i \in DOMAIN q.order : v = q.order[i]
  BY <1>6, <1>7 DEF ToSet
<1>11. \A u, v \in InLine : queue[u].seq = queue[v].seq => u = v BY <1>9, <1>10
<1>12. NumbersDistinct' BY <1>3, <1>11 DEF NumbersDistinct, InLine
<1> QED BY <1>5, <1>12 DEF LineInv

\* The requests that begin, and those that write something else or die.
LEMMA OtherLineInv ==
  ASSUME PlanInv, LineInv, NEW r \in PlanRequests,
         \/ \E p \in Plans : \/ \E to \in PlanStatus : AskStatus(r, p, to) \/ AskPlanForm(r, p, to)
                             \/ \E n \in 1 .. Target : AskGenerate(r, p, n)
                             \/ \E u \in Units : AskLink(r, p, u)
         \/ WriteStatus(r) \/ WriteUnit(r) \/ WriteLink(r) \/ PlanReqDies(r)
  PROVE  LineInv'
<1>1. ASSUME NEW p \in Plans, NEW to \in PlanStatus, AskStatus(r, p, to) \/ AskPlanForm(r, p, to)
      PROVE  LineInv'
  <2> PICK q : q = [kind |-> "status", plan |-> p, to |-> to] OBVIOUS
  <2>1. q \in PlanRequest /\ q.kind \notin QueueWriters BY DEF PlanRequest, QueueWriters
  <2>2. /\ planReq' = [planReq EXCEPT ![r] = q] /\ UNCHANGED <<queue, messy>>
        /\ planReq[r].kind # "move"
    BY <1>1 DEF AskStatus, AskPlanForm, Begin, planRows, NoPlanReq
  <2> QED BY <2>1, <2>2, QuietLineInv
<1>2. ASSUME NEW p \in Plans, NEW n \in 1 .. Target, AskGenerate(r, p, n) PROVE LineInv'
  <2> PICK q : q = [kind |-> "generate", plan |-> p, left |-> n] OBVIOUS
  <2>1. n \in Nat BY PlanningAssumption
  <2>2. q \in PlanRequest /\ q.kind \notin QueueWriters BY <2>1 DEF PlanRequest, QueueWriters
  <2>3. /\ planReq' = [planReq EXCEPT ![r] = q] /\ UNCHANGED <<queue, messy>>
        /\ planReq[r].kind # "move"
    BY <1>2 DEF AskGenerate, Begin, planRows, NoPlanReq
  <2> QED BY <2>2, <2>3, QuietLineInv
<1>3. ASSUME NEW p \in Plans, NEW u \in Units, AskLink(r, p, u) PROVE LineInv'
  <2> PICK q : q = [kind |-> "link", plan |-> p, unit |-> u] OBVIOUS
  <2>1. q \in PlanRequest /\ q.kind \notin QueueWriters BY DEF PlanRequest, QueueWriters
  <2>2. /\ planReq' = [planReq EXCEPT ![r] = q] /\ UNCHANGED <<queue, messy>>
        /\ planReq[r].kind # "move"
    BY <1>3 DEF AskLink, Begin, planRows, NoPlanReq
  <2> QED BY <2>1, <2>2, QuietLineInv
<1>4. NoPlanReq.kind \notin QueueWriters BY DEF NoPlanReq, QueueWriters
<1>5. CASE WriteStatus(r) \/ WriteLink(r)
  <2>1. /\ planReq' = [planReq EXCEPT ![r] = NoPlanReq] /\ UNCHANGED <<queue, messy>>
        /\ planReq[r].kind # "move"
    BY <1>5 DEF WriteStatus, WriteLink
  <2> QED BY <1>4, <2>1, QuietLineInv
<1>6. CASE WriteUnit(r)
  <2> PICK q : q = planReq[r] OBVIOUS
  <2>1. q \in [kind : {"generate"}, plan : Plans, left : Nat] /\ q.left # 0
    BY <1>6, PlanCarries DEF WriteUnit, PlanInv, PlanReqSound
  <2> PICK w : w = IF q.left = 1 THEN NoPlanReq ELSE [q EXCEPT !.left = q.left - 1] OBVIOUS
  <2>2. planReq' = [planReq EXCEPT ![r] = w] /\ UNCHANGED <<queue, messy>>
    BY <1>6 DEF WriteUnit
  <2>3. w = NoPlanReq \/ w \in [kind : {"generate"}, plan : Plans, left : Nat]
    <3>1. CASE q.left = 1 BY <3>1
    <3>2. CASE q.left # 1
      <4>1. q.left - 1 \in Nat BY <2>1, <3>2
      <4>2. w = [q EXCEPT !.left = q.left - 1] BY <3>2
      <4> QED BY <2>1, <4>1, <4>2
    <3> QED BY <3>1, <3>2
  <2>4. w \in PlanRequest \union {NoPlanReq} BY <2>3 DEF PlanRequest
  <2>5. w.kind \notin QueueWriters
    <3>1. CASE w = NoPlanReq BY <1>4, <3>1
    <3>2. CASE w \in [kind : {"generate"}, plan : Plans, left : Nat] BY <3>2 DEF QueueWriters
    <3> QED BY <2>3, <3>1, <3>2
  <2>6. planReq[r].kind # "move" BY <2>1
  <2> QED BY <2>2, <2>4, <2>5, <2>6, QuietLineInv
<1>7. CASE PlanReqDies(r)
  <2>1. planReq' = [planReq EXCEPT ![r] = NoPlanReq] /\ UNCHANGED queue
    BY <1>7 DEF PlanReqDies, planRows
  <2>2. ~ messy' => ~ messy /\ planReq[r].kind # "move" BY <1>7 DEF PlanReqDies
  <2> QED BY <1>4, <2>1, <2>2, QuietLineInv
<1> QED BY <1>1, <1>2, <1>3, <1>5, <1>6, <1>7

\* Those that write to the sequence begin.
LEMMA WritersLineInv ==
  ASSUME PlanInv, LineInv, NEW r \in PlanRequests,
         \/ \E p \in Plans : AskSequence(r, p)
         \/ \E u \in Units : \/ \E to \in QueueStatus : AskSet(r, u, to)
                             \/ \E n \in 1 .. Cardinality(Units) : AskMove(r, u, n)
                             \/ \E p \in Plans, to \in QueueStatus, n \in FormNumbers :
                                  AskForm(r, u, p, to, n)
  PROVE  LineInv'
<1>1. ASSUME NEW p \in Plans, AskSequence(r, p) PROVE LineInv'
  <2> PICK todo : todo = LinkedTo(p) OBVIOUS
  <2> PICK top : top = Max({queue[u].seq : u \in InQueue} \union {0}) OBVIOUS
  <2>1. top \in Nat /\ \A u \in InQueue : queue[u].seq <= top BY TopIs
  <2> PICK q : q = [kind |-> "sequence", todo |-> todo, top |-> top] OBVIOUS
  <2>2. todo \in SUBSET Units BY DEF LinkedTo
  <2>3. q.kind = "sequence" /\ q.top = top OBVIOUS
  <2>4. q \in PlanRequest BY <2>1, <2>2 DEF PlanRequest
  <2>5. BeginWriter(r, q) BY <1>1 DEF AskSequence
  <2> QED BY <2>1, <2>3, <2>4, <2>5, BeginLineInv
<1>2. ASSUME NEW u \in Units, NEW to \in QueueStatus, AskSet(r, u, to) PROVE LineInv'
  <2> PICK q : q = [kind |-> "set", unit |-> u, to |-> to] OBVIOUS
  <2>1. q.kind = "set" /\ q.unit = u /\ q \in PlanRequest BY DEF PlanRequest
  <2>2. BeginWriter(r, q) /\ queue[u].status = "OPEN" BY <1>2 DEF AskSet
  <2> QED BY <2>1, <2>2, BeginLineInv
<1>3. ASSUME NEW u \in Units, NEW n \in 1 .. Cardinality(Units), AskMove(r, u, n)
      PROVE  LineInv'
  <2>1. n \in Nat /\ n >= 1 BY FS_CardinalityType, PlanningAssumption
  <2>2. u \in InLine BY <1>3 DEF AskMove, InLine
  <2>3. PICK order \in Reordered(u, n) :
          BeginWriter(r, [kind |-> "move", order |-> order, done |-> 0, alone |-> TRUE,
                          wrong |-> {i \in DOMAIN order : queue[order[i]].seq # i}])
    BY <1>3 DEF AskMove
  <2>4. order \in Seq(Units) BY <2>1, <2>2, ReorderedIs
  <2> PICK wrong : wrong = {i \in DOMAIN order : queue[order[i]].seq # i} OBVIOUS
  <2>5. wrong \in SUBSET Nat BY <2>4
  <2> PICK q : q = [kind |-> "move", order |-> order, done |-> 0, alone |-> TRUE,
                    wrong |-> wrong] OBVIOUS
  <2>6. q.kind = "move" /\ q.alone = TRUE /\ q \in PlanRequest BY <2>4, <2>5 DEF PlanRequest
  <2>7. BeginWriter(r, q) BY <2>3
  <2> QED BY <2>6, <2>7, BeginLineInv
<1>4. ASSUME NEW u \in Units, NEW p \in Plans, NEW to \in QueueStatus, NEW n \in FormNumbers,
             AskForm(r, u, p, to, n)
      PROVE  LineInv'
  <2> PICK row : row = [status |-> to, seq |-> n] OBVIOUS
  <2> PICK new \in BOOLEAN : new = (u \notin InQueue) OBVIOUS
  <2> PICK q : q = [kind |-> "form", unit |-> u, row |-> row, new |-> new] OBVIOUS
  <2>1. n \in Nat BY PlanningAssumption
  <2>2. row \in QueueItem BY <2>1 DEF QueueItem
  <2>3. q.kind = "form" /\ q \in PlanRequest BY <2>2 DEF PlanRequest
  <2>4. BeginWriter(r, q) BY <1>4 DEF AskForm
  <2> QED BY <2>3, <2>4, BeginLineInv
<1> QED BY <1>1, <1>2, <1>3, <1>4

\* The invariant of the plans and of the sequence, for every reachable state.
THEOREM PlanInvariance == PlanningSpec => [](PlanInv /\ LineInv)
<1>1. ASSUME PlanInv, [PlanningNext]_planVars PROVE PlanInv'
  <2>1. ASSUME NEW r \in PlanRequests, NEW p \in Plans,
               \/ \E to \in PlanStatus : AskStatus(r, p, to) \/ AskPlanForm(r, p, to)
               \/ \E n \in 1 .. Target : AskGenerate(r, p, n)
               \/ \E u \in Units : AskLink(r, p, u)
               \/ AskSequence(r, p)
        PROVE  PlanInv'
    BY <1>1, <2>1, AskStatusPlanInv, AskGeneratePlanInv, AskLinkPlanInv, AskSequencePlanInv
  <2>2. ASSUME NEW r \in PlanRequests, NEW u \in Units,
               \/ \E to \in QueueStatus : AskSet(r, u, to)
               \/ \E n \in 1 .. Cardinality(Units) : AskMove(r, u, n)
               \/ \E p \in Plans, to \in QueueStatus, n \in FormNumbers : AskForm(r, u, p, to, n)
        PROVE  PlanInv'
    <3>1. \A n \in FormNumbers : n \in Nat BY PlanningAssumption
    <3> QED BY <1>1, <2>2, <3>1, AskSetPlanInv, AskMovePlanInv, AskFormPlanInv
  <2>3. ASSUME NEW r \in PlanRequests,
               \/ WriteStatus(r) \/ WriteUnit(r) \/ WriteLink(r) \/ WriteItem(r)
               \/ WriteSet(r) \/ WriteMove(r) \/ EndMove(r) \/ WriteForm(r) \/ PlanReqDies(r)
        PROVE  PlanInv'
    BY <1>1, <2>3, WriteStatusPlanInv, WriteUnitPlanInv, WriteLinkPlanInv, WriteItemPlanInv,
       WriteSetPlanInv, WriteMovePlanInv, WriteFormPlanInv, EndPlanInv
  <2>4. CASE UNCHANGED planVars
    <3>1. PlanningTypeOK' BY <1>1, <2>4 DEF planVars, planRows, PlanInv, PlanningTypeOK
    <3>2. ASSUME NEW r \in PlanRequests PROVE PlanReqSound(r)'
      BY <1>1, <2>4 DEF planVars, planRows, PlanInv, PlanReqSound, InQueue, InLine, Numbered
    <3> QED BY <3>1, <3>2 DEF PlanInv
  <2> QED BY <1>1, <2>1, <2>2, <2>3, <2>4 DEF PlanningNext
<1>2. ASSUME PlanInv, LineInv, [PlanningNext]_planVars PROVE LineInv'
  <2>1. ASSUME NEW r \in PlanRequests,
               \/ WriteItem(r) \/ WriteSet(r) \/ WriteMove(r) \/ EndMove(r) \/ WriteForm(r)
        PROVE  LineInv'
    BY <1>2, <2>1, WriteItemLineInv, WriteSetLineInv, WriteMoveLineInv, EndMoveLineInv,
       WriteFormLineInv
  <2>2. CASE UNCHANGED planVars
    BY <1>2, <2>2 DEF planVars, planRows, LineInv, Tidy, NumbersDistinct, InQueue, InLine
  <2> QED BY <1>2, <2>1, <2>2, OtherLineInv, WritersLineInv DEF PlanningNext
<1> QED BY <1>1, <1>2, InitPlanInv, InitLineInv, PTL DEF PlanningSpec

\* Types of the planning variables (assembly/models.py, ProductionPlan, SerializedUnit and
\* ProductionQueueItem), whatever requests run at once and die.
THEOREM PlanTypeCorrect == PlanningSpec => []PlanningTypeOK
<1>1. PlanInv => PlanningTypeOK BY DEF PlanInv
<1> QED BY <1>1, PlanInvariance, PTL

\* create_from_plan, set_status, resequence and the form of an item, none of which locks a
\* row: two open items have one number only after somebody typed it, a move died half way or
\* two requests that write to the sequence met, and until a move that nothing disturbs.
THEOREM NumbersDistinctHolds == PlanningSpec => []NumbersDistinct
<1>1. LineInv => NumbersDistinct BY DEF LineInv
<1> QED BY <1>1, PlanInvariance, PTL

\* resequence: a move that nothing disturbed leaves the open items of the line numbered from
\* one on in the order asked for, whatever gaps and equal numbers it found.
THEOREM MoveRepairsHolds == PlanningSpec => []MoveRepairs
<1>1. ASSUME PlanInv, NEW r \in PlanRequests, Moved(r), planReq[r].alone
      PROVE  /\ \A i \in DOMAIN planReq[r].order : queue[planReq[r].order[i]].seq = i
             /\ ToSet(planReq[r].order) = InLine
  <2> PICK q : q = planReq[r] OBVIOUS
  <2>1. q.kind = "move" /\ q.done = Len(q.order) BY <1>1 DEF Moved
  <2>2. q.order \in Seq(Units) BY <1>1, <2>1, PlanCarries DEF PlanInv
  <2>3. ToSet(q.order) = InLine /\ Numbered(q) BY <1>1, <2>1 DEF PlanInv, PlanReqSound
  <2>4. \A i \in DOMAIN q.order : i <= q.done BY <2>1, <2>2
  <2> QED BY <2>3, <2>4 DEF Numbered
<1>2. PlanInv => MoveRepairs BY <1>1 DEF MoveRepairs
<1> QED BY <1>2, PlanInvariance, PTL

(***************************************************************************)
(* Tenants.  While nobody disturbs it, a request finds what it has checked *)
(* as it was: the seat is free, another administrator is there.  In any    *)
(* case the rows are there that it changes.                                *)
(***************************************************************************)
RowIsThere(q) ==
  /\ q.does \in {"make_admin", "toggle"} => member[q.user] # NoMember
  /\ q.does \in {"regroup", "add_role"} =>
       (q.next = "make_admin" => member[q.user] # NoMember)

SeatFor(u) == u \in Active \/ SeatFree

\* What the screens have checked for a request
Checked(q) ==
  /\ q.does \in {"regroup", "add_role"} => (q.next \in {"join", "join_as_admin"} => SeatFor(q.user))
  /\ q.does = "join" => SeatFor(q.user)
  /\ q.does = "toggle" => (q.active => SeatFor(q.user))
  /\ q.does \in {"toggle", "delete"} => Admins \ {q.user} # {}

\* Between taking a role and giving the next, that one is there; who becomes a member has a
\* role; and nobody has a role that is about to go.
RoleSafe(q) ==
  /\ q.does = "add_role" => q.role \in RoleChoices
  /\ q.does = "join" => holds[q.user] # {}
  /\ q.does = "delete_role" => \A u \in Users : q.role \notin holds[u]

OneTenantReq ==
  \A r, s \in TenantRequests :
    tenantReq[r] # NoTenantReq /\ tenantReq[s] # NoTenantReq => r = s

\* Who is about to be given a role
GetsRole(u) == \E r \in TenantRequests : tenantReq[r].does = "add_role" /\ tenantReq[r].user = u

\* While no superuser acts and no request overlaps another
Undisturbed ==
  /\ Admins # {} /\ IsFiniteSet(Active) /\ Cardinality(Active) <= cap
  /\ OneTenantReq
  /\ \A r \in TenantRequests : Checked(tenantReq[r])

\* ... and no request has died
RolesKept ==
  /\ \A u \in Users : member[u] # NoMember => holds[u] # {} \/ GetsRole(u)
  /\ \A r \in TenantRequests : RoleSafe(tenantReq[r])

TenantsInv ==
  /\ TenantsTypeOK
  /\ \A r \in TenantRequests : RowIsThere(tenantReq[r])
  /\ past # "DISTURBED" => Undisturbed
  /\ past = "ORDERLY" => RolesKept

\* What each kind of request carries.
LEMMA TenantCarries ==
  ASSUME NEW q \in TenantRequest \union {NoTenantReq}
  PROVE  /\ q.does \in {"regroup", "add_role"} =>
              q \in [does : {"regroup", "add_role"}, user : Users, role : Roles,
                     next : {"join", "join_as_admin", "make_admin", "end"}]
         /\ q.does = "join" => q \in [does : {"join"}, user : Users, admin : BOOLEAN]
         /\ q.does \in {"make_admin", "delete"} =>
              q \in [does : {"make_admin", "delete"}, user : Users]
         /\ q.does = "toggle" => q \in [does : {"toggle"}, user : Users, active : BOOLEAN]
         /\ q.does = "delete_role" => q \in [does : {"delete_role"}, role : OwnRoles]
<1>1. CASE q = NoTenantReq BY ONLY <1>1 DEF NoTenantReq
<1>2. CASE q \in [does : {"regroup", "add_role"}, user : Users, role : Roles,
                  next : {"join", "join_as_admin", "make_admin", "end"}]
  BY <1>2
<1>3. CASE q \in [does : {"join"}, user : Users, admin : BOOLEAN] BY <1>3
<1>4. CASE q \in [does : {"make_admin", "delete"}, user : Users] BY <1>4
<1>5. CASE q \in [does : {"toggle"}, user : Users, active : BOOLEAN] BY <1>5
<1>6. CASE q \in [does : {"delete_role"}, role : OwnRoles] BY <1>6
<1> QED BY <1>1, <1>2, <1>3, <1>4, <1>5, <1>6 DEF TenantRequest

\* No request has nothing to find as it was.
LEMMA NothingToCheck ==
  RowIsThere(NoTenantReq) /\ Checked(NoTenantReq) /\ RoleSafe(NoTenantReq)
  BY DEF RowIsThere, Checked, RoleSafe, NoTenantReq

LEMMA InitTenantsInv == TenantsInit => TenantsInv
<1> SUFFICES ASSUME TenantsInit PROVE TenantsInv OBVIOUS
<1>1. PICK u \in Users, former \in SUBSET Users, role \in BaseRoles :
        /\ u \notin former
        /\ member = [v \in Users |-> CASE v = u -> [admin |-> TRUE, active |-> TRUE]
                                      [] v \in former -> [admin |-> FALSE, active |-> FALSE]
                                      [] OTHER -> NoMember]
        /\ holds = [v \in Users |-> CASE v = u -> {AdminRole} [] v \in former -> {role} [] OTHER -> {}]
  BY DEF TenantsInit
<1>2. \A v \in Users :
        /\ v = u => member[v] = [admin |-> TRUE, active |-> TRUE] /\ holds[v] = {AdminRole}
        /\ v \in former => /\ member[v] = [admin |-> FALSE, active |-> FALSE]
                           /\ holds[v] = {role}
        /\ v # u /\ v \notin former => member[v] = NoMember /\ holds[v] = {}
  BY <1>1
<1>3. /\ [admin |-> TRUE, active |-> TRUE] \in Membership
      /\ [admin |-> FALSE, active |-> FALSE] \in Membership
      /\ NoMember \notin Membership
  BY TenantsAssumption DEF Membership
<1>4. groups = {} /\ cap \in Caps \ {0} /\ past = "ORDERLY"
      /\ tenantReq = [r \in TenantRequests |-> NoTenantReq]
  BY DEF TenantsInit
<1>5. TenantsTypeOK
  <2>1. member \in [Users -> Membership \union {NoMember}]
    <3>1. \A v \in Users : member[v] \in Membership \union {NoMember} BY <1>2, <1>3
    <3> QED BY <1>1, <3>1
  <2>2. holds \in [Users -> SUBSET Roles]
    <3>1. \A v \in Users : holds[v] \in SUBSET Roles BY <1>2, TenantsAssumption DEF Roles
    <3> QED BY <1>1, <3>1
  <2> QED BY <1>4, <2>1, <2>2 DEF TenantsTypeOK
<1>6. Active = {u} /\ Admins = {u}
  <2>1. \A v \in Users : v \in Active <=> v = u BY <1>2, <1>3 DEF Active
  <2>2. \A v \in Users : v \in Admins <=> v = u BY <1>2, <2>1 DEF Admins, Active
  <2> QED BY <2>1, <2>2 DEF Active, Admins
<1>7. Admins # {} /\ IsFiniteSet(Active) /\ Cardinality(Active) <= cap
  <2>1. IsFiniteSet(Active) /\ Cardinality(Active) = 1 BY <1>6, FS_Singleton
  <2>2. 1 <= cap BY <1>4, TenantsAssumption
  <2> QED BY <1>6, <2>1, <2>2
<1>8. Undisturbed BY <1>4, <1>7, NothingToCheck DEF Undisturbed, OneTenantReq
<1>9. RolesKept
  <2>1. \A v \in Users : member[v] # NoMember => holds[v] # {} BY <1>2
  <2> QED BY <1>4, <2>1, NothingToCheck DEF RolesKept
<1>10. \A r \in TenantRequests : RowIsThere(tenantReq[r]) BY <1>4, NothingToCheck
<1> QED BY <1>5, <1>8, <1>9, <1>10 DEF TenantsInv

\* A request begins when there is no other, or disturbs it: what it has checked is so.
LEMMA AsksTenantsInv ==
  ASSUME TenantsInv, NEW r \in TenantRequests, NEW q \in TenantRequest, Asks(r, q),
         past' = "DISTURBED" \/ (Idle /\ past' = past),
         RowIsThere(q),
         past' # "DISTURBED" => Checked(q),
         past' = "ORDERLY" => RoleSafe(q)
  PROVE  TenantsInv'
<1>1. UNCHANGED <<member, holds, groups, cap>> /\ tenantReq' = [tenantReq EXCEPT ![r] = q]
  BY DEF Asks, Goes
<1>2. /\ tenantReq'[r] = q /\ \A s \in TenantRequests : s # r => tenantReq'[s] = tenantReq[s]
      /\ tenantReq' \in [TenantRequests -> TenantRequest \union {NoTenantReq}]
  BY <1>1 DEF TenantsInv, TenantsTypeOK
<1>3. past' \in {"ORDERLY", "INTERRUPTED", "DISTURBED"} BY DEF TenantsInv, TenantsTypeOK
<1>4. TenantsTypeOK' BY <1>1, <1>2, <1>3 DEF TenantsInv, TenantsTypeOK
<1>5. \A c \in TenantRequest \union {NoTenantReq} :
        /\ RowIsThere(c)' <=> RowIsThere(c)
        /\ Checked(c)' <=> Checked(c)
        /\ RoleSafe(c)' <=> RoleSafe(c)
  BY <1>1 DEF RowIsThere, Checked, RoleSafe, SeatFor, SeatFree, Active, Admins, RoleChoices
<1>6. \A s \in TenantRequests : tenantReq[s] \in TenantRequest \union {NoTenantReq}
  BY DEF TenantsInv, TenantsTypeOK
<1>7. \A s \in TenantRequests : RowIsThere(tenantReq[s])'
  BY <1>2, <1>5, <1>6 DEF TenantsInv, RowIsThere
<1>8. ASSUME past' # "DISTURBED" PROVE Undisturbed'
  <2>1. Idle /\ past # "DISTURBED" BY <1>8
  <2>2. \A s \in TenantRequests : s # r => tenantReq'[s] = NoTenantReq BY <1>2, <2>1 DEF Idle
  <2>3. OneTenantReq' BY <2>2 DEF OneTenantReq
  <2>4. (Admins # {} /\ IsFiniteSet(Active) /\ Cardinality(Active) <= cap)'
    BY <1>1, <2>1 DEF TenantsInv, Undisturbed, Admins, Active
  <2>5. Checked(q)' /\ Checked(NoTenantReq)' BY <1>5, <1>8, NothingToCheck
  <2>6. \A s \in TenantRequests : Checked(tenantReq[s])'
    <3>1. Checked(tenantReq[r])' BY <1>2, <2>5 DEF Checked
    <3>2. ASSUME NEW s \in TenantRequests, s # r PROVE Checked(tenantReq[s])'
      BY <2>2, <2>5, <3>2 DEF Checked
    <3> QED BY <3>1, <3>2
  <2> QED BY <2>3, <2>4, <2>6 DEF Undisturbed
<1>9. ASSUME past' = "ORDERLY" PROVE RolesKept'
  <2>1. Idle /\ past = "ORDERLY" BY <1>9
  <2>2. \A s \in TenantRequests : s # r => tenantReq'[s] = NoTenantReq BY <1>2, <2>1 DEF Idle
  <2>3. \A u \in Users : ~ GetsRole(u) BY <2>1 DEF Idle, GetsRole, NoTenantReq
  <2>4. \A u \in Users : member[u] # NoMember => holds[u] # {}
    BY <2>1, <2>3 DEF TenantsInv, RolesKept
  <2>5. RoleSafe(q)' /\ RoleSafe(NoTenantReq)' BY <1>5, <1>9, NothingToCheck
  <2>6. \A s \in TenantRequests : RoleSafe(tenantReq[s])'
    <3>1. RoleSafe(tenantReq[r])' BY <1>2, <2>5 DEF RoleSafe
    <3>2. ASSUME NEW s \in TenantRequests, s # r PROVE RoleSafe(tenantReq[s])'
      BY <2>2, <2>5, <3>2 DEF RoleSafe
    <3> QED BY <3>1, <3>2
  <2> QED BY <1>1, <2>4, <2>6 DEF RolesKept
<1> QED BY <1>4, <1>7, <1>8, <1>9 DEF TenantsInv

\* A request goes on to q: if nobody disturbs it, there is no other.
LEMMA GoesTenantsInv ==
  ASSUME TenantsInv, NEW r \in TenantRequests, tenantReq[r] # NoTenantReq,
         NEW q \in TenantRequest \union {NoTenantReq}, Goes(r, q),
         past' = past \/ (past' = "INTERRUPTED" /\ past = "ORDERLY"),
         UNCHANGED cap, member' \in [Users -> Membership \union {NoMember}],
         holds' \in [Users -> SUBSET Roles], groups' \subseteq OwnRoles,
         \A u \in Users : member[u] # NoMember => member'[u] # NoMember,
         RowIsThere(q)',
         past # "DISTURBED" => /\ (Admins # {} /\ IsFiniteSet(Active) /\ Cardinality(Active) <= cap)'
                               /\ Checked(q)',
         past' = "ORDERLY" =>
           /\ \A u \in Users : member'[u] # NoMember =>
                holds'[u] # {} \/ (q.does = "add_role" /\ q.user = u)
           /\ RoleSafe(q)'
  PROVE  TenantsInv'
<1>1. /\ tenantReq'[r] = q /\ \A s \in TenantRequests : s # r => tenantReq'[s] = tenantReq[s]
      /\ tenantReq' \in [TenantRequests -> TenantRequest \union {NoTenantReq}]
  BY DEF TenantsInv, TenantsTypeOK, Goes
<1>2. past' \in {"ORDERLY", "INTERRUPTED", "DISTURBED"} BY DEF TenantsInv, TenantsTypeOK
<1>3. TenantsTypeOK' BY <1>1, <1>2 DEF TenantsInv, TenantsTypeOK
<1>4. \A s \in TenantRequests : RowIsThere(tenantReq[s])'
  <2>1. RowIsThere(tenantReq[r])' BY <1>1 DEF RowIsThere
  <2>2. ASSUME NEW s \in TenantRequests, s # r PROVE RowIsThere(tenantReq[s])'
    <3>1. RowIsThere(tenantReq[s]) /\ tenantReq[s] \in TenantRequest \union {NoTenantReq}
      BY DEF TenantsInv, TenantsTypeOK
    <3>2. tenantReq[s].does \in {"make_admin", "toggle", "regroup", "add_role"} =>
            tenantReq[s].user \in Users
      BY <3>1, TenantCarries
    <3> QED BY <1>1, <2>2, <3>1, <3>2 DEF RowIsThere
  <2> QED BY <2>1, <2>2
<1>5. past # "DISTURBED" => \A s \in TenantRequests : s # r => tenantReq'[s] = NoTenantReq
  BY <1>1 DEF TenantsInv, Undisturbed, OneTenantReq
<1>6. ASSUME past' # "DISTURBED" PROVE Undisturbed'
  <2>1. past # "DISTURBED" BY <1>6
  <2>2. OneTenantReq' BY <1>5, <2>1 DEF OneTenantReq
  <2>3. Checked(NoTenantReq)' BY DEF Checked, NoTenantReq
  <2>4. \A s \in TenantRequests : Checked(tenantReq[s])'
    <3>1. Checked(tenantReq[r])' BY <1>1, <2>1 DEF Checked
    <3>2. ASSUME NEW s \in TenantRequests, s # r PROVE Checked(tenantReq[s])'
      BY <1>5, <2>1, <2>3, <3>2 DEF Checked
    <3> QED BY <3>1, <3>2
  <2> QED BY <2>1, <2>2, <2>4 DEF Undisturbed
<1>7. ASSUME past' = "ORDERLY" PROVE RolesKept'
  <2>1. past # "DISTURBED" BY <1>7
  <2>2. RoleSafe(NoTenantReq)' BY DEF RoleSafe, NoTenantReq
  <2>3. \A s \in TenantRequests : RoleSafe(tenantReq[s])'
    <3>1. RoleSafe(tenantReq[r])' BY <1>1, <1>7 DEF RoleSafe
    <3>2. ASSUME NEW s \in TenantRequests, s # r PROVE RoleSafe(tenantReq[s])'
      BY <1>5, <2>1, <2>2, <3>2 DEF RoleSafe
    <3> QED BY <3>1, <3>2
  <2>4. \A u \in Users : member'[u] # NoMember => holds'[u] # {} \/ GetsRole(u)'
    BY <1>1, <1>7 DEF GetsRole
  <2> QED BY <2>3, <2>4 DEF RolesKept
<1> QED BY <1>3, <1>4, <1>6, <1>7 DEF TenantsInv

\* Who acts leaves himself alone, or disturbs.
LEMMA AskerIs ==
  ASSUME NEW u, Asker(u)
  PROVE  /\ past' = "DISTURBED" \/ (Idle /\ past' = past)
         /\ past' # "DISTURBED" => Admins \ {u} # {}
<1>1. CASE Admins \ {u} # {} /\ past' = IF Idle THEN past ELSE "DISTURBED"
  <2>1. CASE Idle BY <1>1, <2>1
  <2>2. CASE ~ Idle BY <1>1, <2>2
  <2> QED BY <2>1, <2>2
<1>2. CASE past' = "DISTURBED" BY <1>2
<1> QED BY <1>1, <1>2 DEF Asker

LEMMA AskAccountTenantsInv ==
  ASSUME TenantsInv, NEW r \in TenantRequests, NEW u \in Users, NEW role \in Roles,
         NEW asAdmin \in BOOLEAN, AskAccount(r, u, role, asAdmin)
  PROVE  TenantsInv'
<1> PICK next : next = IF asAdmin THEN "join_as_admin" ELSE "join" OBVIOUS
<1> PICK q : q = [does |-> "regroup", user |-> u, role |-> role, next |-> next] OBVIOUS
<1>1. next \in {"join", "join_as_admin"} OBVIOUS
<1>2. q.does = "regroup" /\ q.user = u /\ q.next = next /\ q \in TenantRequest
  BY <1>1 DEF TenantRequest
<1>3. SeatFor(u) /\ Asks(r, q) BY DEF AskAccount, SeatFor
<1>4. RowIsThere(q) /\ Checked(q) /\ RoleSafe(q)
  BY <1>1, <1>2, <1>3 DEF RowIsThere, Checked, RoleSafe
<1>5. past' = "DISTURBED" \/ (Idle /\ past' = past) BY AskerIs DEF AskAccount
<1> QED BY <1>2, <1>3, <1>4, <1>5, AsksTenantsInv

LEMMA AskRoleTenantsInv ==
  ASSUME TenantsInv, NEW r \in TenantRequests, NEW u \in Users, NEW role \in Roles,
         AskRole(r, u, role)
  PROVE  TenantsInv'
<1> PICK next : next = IF role = AdminRole /\ ~ member[u].admin THEN "make_admin" ELSE "end"
  OBVIOUS
<1> PICK q : q = [does |-> "regroup", user |-> u, role |-> role, next |-> next] OBVIOUS
<1>1. next \in {"make_admin", "end"} OBVIOUS
<1>2. q.does = "regroup" /\ q.user = u /\ q.next = next /\ q \in TenantRequest
  BY <1>1 DEF TenantRequest
<1>3. member[u] # NoMember /\ Asks(r, q) BY DEF AskRole
<1>4. RowIsThere(q) /\ Checked(q) /\ RoleSafe(q)
  BY <1>1, <1>2, <1>3 DEF RowIsThere, Checked, RoleSafe
<1>5. past' = "DISTURBED" \/ (Idle /\ past' = past) BY AskerIs DEF AskRole
<1> QED BY <1>2, <1>3, <1>4, <1>5, AsksTenantsInv

\* What is asked of a member's row: it is there, and another administrator asks.
LEMMA AskRowTenantsInv ==
  ASSUME TenantsInv, NEW r \in TenantRequests, NEW u \in Users,
         \/ AskToggle(r, u) \/ AskDelete(r, u) \/ PanelChanges(r, u)
  PROVE  TenantsInv'
<1> PICK t : t = [does |-> "toggle", user |-> u, active |-> ~ member[u].active] OBVIOUS
<1> PICK d : d = [does |-> "delete", user |-> u] OBVIOUS
<1>1. /\ t.does = "toggle" /\ t.user = u /\ t.active = (~ member[u].active)
      /\ d.does = "delete" /\ d.user = u
  OBVIOUS
<1>2. member[u] # NoMember BY DEF AskToggle, AskDelete, PanelChanges
<1>3. (~ member[u].active) \in BOOLEAN OBVIOUS
<1>4. t \in TenantRequest /\ d \in TenantRequest BY <1>3 DEF TenantRequest
<1>5. RowIsThere(t) /\ RowIsThere(d) /\ RoleSafe(t) /\ RoleSafe(d)
  BY <1>1, <1>2 DEF RowIsThere, RoleSafe
<1>6. CASE AskToggle(r, u)
  <2>1. Asks(r, t) /\ SeatFor(u) BY <1>6 DEF AskToggle, SeatFor
  <2>2. /\ past' = "DISTURBED" \/ (Idle /\ past' = past)
        /\ past' # "DISTURBED" => Admins \ {u} # {}
    BY <1>6, AskerIs DEF AskToggle
  <2>3. past' # "DISTURBED" => Checked(t) BY <1>1, <2>1, <2>2 DEF Checked
  <2> QED BY <1>4, <1>5, <2>1, <2>2, <2>3, AsksTenantsInv
<1>7. CASE AskDelete(r, u)
  <2>1. Asks(r, d) BY <1>7 DEF AskDelete
  <2>2. /\ past' = "DISTURBED" \/ (Idle /\ past' = past)
        /\ past' # "DISTURBED" => Admins \ {u} # {}
    BY <1>7, AskerIs DEF AskDelete
  <2>3. past' # "DISTURBED" => Checked(d) BY <1>1, <2>1, <2>2 DEF Checked
  <2> QED BY <1>4, <1>5, <2>1, <2>2, <2>3, AsksTenantsInv
<1>8. CASE PanelChanges(r, u)
  <2>1. past' = "DISTURBED" /\ (Asks(r, t) \/ Asks(r, d)) BY <1>8 DEF PanelChanges
  <2> QED BY <1>4, <1>5, <2>1, AsksTenantsInv
<1> QED BY <1>6, <1>7, <1>8

LEMMA PanelAddsTenantsInv ==
  ASSUME TenantsInv, NEW r \in TenantRequests, NEW u \in Users, NEW asAdmin \in BOOLEAN,
         PanelAdds(r, u, asAdmin)
  PROVE  TenantsInv'
<1> PICK q : q = [does |-> "join", user |-> u, admin |-> asAdmin] OBVIOUS
<1>1. q.does = "join" /\ q \in TenantRequest BY DEF TenantRequest
<1>2. RowIsThere(q) BY <1>1 DEF RowIsThere
<1>3. past' = "DISTURBED" /\ Asks(r, q) BY DEF PanelAdds
<1> QED BY <1>1, <1>2, <1>3, AsksTenantsInv

LEMMA AskDeleteRoleTenantsInv ==
  ASSUME TenantsInv, NEW r \in TenantRequests, NEW g \in OwnRoles, AskDeleteRole(r, g)
  PROVE  TenantsInv'
<1> PICK q : q = [does |-> "delete_role", role |-> g] OBVIOUS
<1>1. q.does = "delete_role" /\ q.role = g /\ q \in TenantRequest BY DEF TenantRequest
<1>2. RowIsThere(q) /\ Checked(q) BY <1>1 DEF RowIsThere, Checked
<1>3. Asks(r, q) /\ RoleSafe(q) BY <1>1 DEF AskDeleteRole, RoleSafe
<1>4. past' = "DISTURBED" \/ (Idle /\ past' = past) BY AskerIs DEF AskDeleteRole
<1> QED BY <1>1, <1>2, <1>3, <1>4, AsksTenantsInv

\* A role is created, or the plan changed: alone, or it disturbs.
LEMMA CreateTenantsInv ==
  ASSUME TenantsInv, (\E g \in OwnRoles : CreateRole(g)) \/ (\E c \in Caps : ChangePlan(c))
  PROVE  TenantsInv'
<1>1. /\ UNCHANGED <<member, holds, tenantReq>> /\ groups \subseteq groups' /\ groups' \subseteq OwnRoles
      /\ cap' \in Caps
      /\ past' = "DISTURBED" \/ (Idle /\ past' = past /\ cap' = cap)
  <2>1. ASSUME NEW g \in OwnRoles, CreateRole(g)
        PROVE  /\ UNCHANGED <<member, holds, tenantReq>> /\ groups \subseteq groups'
               /\ groups' \subseteq OwnRoles /\ cap' \in Caps
               /\ past' = "DISTURBED" \/ (Idle /\ past' = past /\ cap' = cap)
    BY <2>1, AskerIs DEF CreateRole, TenantsInv, TenantsTypeOK
  <2> QED BY <2>1 DEF ChangePlan, TenantsInv, TenantsTypeOK
<1>2. TenantsTypeOK' BY <1>1 DEF TenantsInv, TenantsTypeOK
<1>3. \A r \in TenantRequests : RowIsThere(tenantReq[r])' BY <1>1 DEF TenantsInv, RowIsThere
<1>4. ASSUME past' # "DISTURBED" PROVE Undisturbed'
  <2>1. past = past' /\ cap' = cap BY <1>1, <1>4
  <2> QED BY <1>1, <1>4, <2>1
      DEF TenantsInv, Undisturbed, OneTenantReq, Checked, SeatFor, SeatFree, Active, Admins
<1>5. ASSUME past' = "ORDERLY" PROVE RolesKept'
  <2>1. past = past' BY <1>1, <1>5
  <2> QED BY <1>1, <1>5, <2>1 DEF TenantsInv, RolesKept, RoleSafe, RoleChoices, GetsRole
<1> QED BY <1>2, <1>3, <1>4, <1>5 DEF TenantsInv

LEMMA TenantReqDiesInv ==
  ASSUME TenantsInv, NEW r \in TenantRequests, TenantReqDies(r) PROVE TenantsInv'
<1>1. UNCHANGED <<member, holds, groups, cap>> /\ Goes(r, NoTenantReq) /\ tenantReq[r] # NoTenantReq
  BY DEF TenantReqDies
<1>2. past' # "ORDERLY" /\ (past' = past \/ (past' = "INTERRUPTED" /\ past = "ORDERLY"))
  BY DEF TenantReqDies
<1>3. RowIsThere(NoTenantReq)' /\ Checked(NoTenantReq)'
  BY DEF RowIsThere, Checked, NoTenantReq
<1>4. past # "DISTURBED" =>
        (Admins # {} /\ IsFiniteSet(Active) /\ Cardinality(Active) <= cap)'
  BY <1>1 DEF TenantsInv, Undisturbed, Active, Admins
<1>5. /\ member' \in [Users -> Membership \union {NoMember}]
      /\ holds' \in [Users -> SUBSET Roles] /\ groups' \subseteq OwnRoles
  BY <1>1 DEF TenantsInv, TenantsTypeOK
<1> QED BY <1>1, <1>2, <1>3, <1>4, <1>5, GoesTenantsInv

\* While nothing died and nothing overlapped, who has no role is given one by the only
\* request there is.
LEMMA RolesNow ==
  ASSUME TenantsInv, past = "ORDERLY", NEW r \in TenantRequests, tenantReq[r] # NoTenantReq
  PROVE  /\ RoleSafe(tenantReq[r])
         /\ \A u \in Users : member[u] # NoMember =>
              holds[u] # {} \/ (tenantReq[r].does = "add_role" /\ tenantReq[r].user = u)
<1>1. \A s \in TenantRequests : tenantReq[s].does = "add_role" => s = r
  BY DEF NoTenantReq, TenantsInv, Undisturbed, OneTenantReq
<1> QED BY <1>1 DEF TenantsInv, RolesKept, GetsRole

\* A row changes: the seats and the administrators of the others do not.
LEMMA OneMember ==
  ASSUME TenantsTypeOK, NEW u \in Users, NEW m \in Membership,
         member' = [member EXCEPT ![u] = m]
  PROVE  /\ member' \in [Users -> Membership \union {NoMember}]
         /\ member'[u] = m /\ member'[u] # NoMember
         /\ \A v \in Users : v # u => member'[v] = member[v]
         /\ m.active => Active' = Active \union {u}
         /\ ~ m.active => Active' = Active \ {u}
         /\ Admins \ {u} \subseteq Admins'
         /\ m.active /\ m.admin => u \in Admins'
<1>1. /\ member' \in [Users -> Membership \union {NoMember}]
      /\ member'[u] = m /\ \A v \in Users : v # u => member'[v] = member[v]
  BY DEF TenantsTypeOK
<1>2. member'[u] # NoMember BY <1>1, TenantsAssumption DEF Membership
<1>3. m.active \in BOOLEAN BY DEF Membership
<1>4. \A v \in Users : v \in Active' <=> (IF v = u THEN m.active ELSE v \in Active)
  BY <1>1, <1>2, <1>3 DEF Active
<1>5. m.active => Active' = Active \union {u}
  <2>1. Active \subseteq Users /\ Active' \subseteq Users BY DEF Active
  <2> QED BY <1>4, <2>1
<1>6. ~ m.active => Active' = Active \ {u}
  <2>1. Active \subseteq Users /\ Active' \subseteq Users BY DEF Active
  <2> QED BY <1>4, <2>1
<1>7. Admins \ {u} \subseteq Admins'
  <2>1. \A v \in Admins : v \in Users /\ v \in Active /\ member[v].admin BY DEF Admins, Active
  <2>2. \A v \in Admins \ {u} : v \in Active' /\ member'[v].admin BY <1>1, <1>4, <2>1
  <2> QED BY <2>2 DEF Admins
<1>8. m.active /\ m.admin => u \in Admins' BY <1>1, <1>4 DEF Admins
<1> QED BY <1>1, <1>2, <1>5, <1>6, <1>7, <1>8

\* A seat is taken by whom it is free for, and given up.
LEMMA SeatsKept ==
  ASSUME TenantsTypeOK, IsFiniteSet(Active), Cardinality(Active) <= cap, NEW u \in Users
  PROVE  /\ SeatFor(u) => /\ IsFiniteSet(Active \union {u})
                          /\ Cardinality(Active \union {u}) <= cap
         /\ IsFiniteSet(Active \ {u}) /\ Cardinality(Active \ {u}) <= cap
<1>1. cap \in Nat /\ Cardinality(Active) \in Nat
  BY FS_CardinalityType, TenantsAssumption DEF TenantsTypeOK
<1>2. IsFiniteSet(Active \union {u}) /\ IsFiniteSet(Active \ {u})
  BY FS_AddElement, FS_RemoveElement
<1>3. Cardinality(Active \union {u}) = IF u \in Active THEN Cardinality(Active) ELSE Cardinality(Active) + 1
  BY FS_AddElement
<1>4. Cardinality(Active \ {u}) = IF u \in Active THEN Cardinality(Active) - 1 ELSE Cardinality(Active)
  BY FS_RemoveElement
<1>5. SeatFor(u) => Cardinality(Active \union {u}) <= cap BY <1>1, <1>3 DEF SeatFor, SeatFree
<1>6. Cardinality(Active \ {u}) <= cap BY <1>1, <1>4
<1> QED BY <1>2, <1>5, <1>6

\* A step of a request that leaves the rows of the members.
LEMMA RowsStay ==
  ASSUME TenantsInv, UNCHANGED <<member, cap, past>>
  PROVE  /\ member' \in [Users -> Membership \union {NoMember}]
         /\ past # "DISTURBED" =>
              (Admins # {} /\ IsFiniteSet(Active) /\ Cardinality(Active) <= cap)'
         /\ \A u \in Users : SeatFor(u)' <=> SeatFor(u)
  BY DEF TenantsInv, TenantsTypeOK, Undisturbed, Active, Admins, SeatFor, SeatFree

LEMMA RegroupTenantsInv ==
  ASSUME TenantsInv, NEW r \in TenantRequests, Regroup(r) PROVE TenantsInv'
<1> PICK p : p = tenantReq[r] OBVIOUS
<1> PICK q : q = [p EXCEPT !.does = "add_role"] OBVIOUS
<1>1. p \in TenantRequest \union {NoTenantReq} /\ p.does = "regroup"
  BY DEF Regroup, TenantsInv, TenantsTypeOK
<1>2. p \in [does : {"regroup", "add_role"}, user : Users, role : Roles,
             next : {"join", "join_as_admin", "make_admin", "end"}]
  BY <1>1, TenantCarries
<1>3. /\ q.does = "add_role" /\ q.user = p.user /\ q.role = p.role /\ q.next = p.next
      /\ q \in [does : {"regroup", "add_role"}, user : Users, role : Roles,
                next : {"join", "join_as_admin", "make_admin", "end"}]
  BY <1>2
<1>4. q \in TenantRequest BY <1>3 DEF TenantRequest
<1>5. /\ Goes(r, q) /\ UNCHANGED <<member, cap, past>>
      /\ groups' = groups \union ({p.role} \intersect OwnRoles)
      /\ \E gone \in SUBSET Roles : holds' = [holds EXCEPT ![p.user] = holds[p.user] \ gone]
  <2> DEFINE dropped == OwnRoles \union (IF p.role \in BaseRoles /\ p.user \notin Elsewhere
                                         THEN BaseRoles ELSE {})
  <2>1. holds' = [holds EXCEPT ![p.user] = holds[p.user] \ (dropped \ {p.role})]
    BY DEF Regroup
  <2>2. dropped \ {p.role} \in SUBSET Roles BY DEF Roles
  <2> HIDE DEF dropped
  <2> QED BY <2>1, <2>2 DEF Regroup
<1>6. /\ holds' \in [Users -> SUBSET Roles] /\ groups' \subseteq OwnRoles
      /\ \A u \in Users : u # p.user => holds'[u] = holds[u]
  BY <1>2, <1>5 DEF TenantsInv, TenantsTypeOK
<1>7. p # NoTenantReq BY ONLY <1>1 DEF NoTenantReq
<1>8. RowIsThere(p) /\ (past # "DISTURBED" => Checked(p)) BY DEF TenantsInv, Undisturbed
<1>9. RowIsThere(q)' BY <1>1, <1>3, <1>5, <1>8 DEF RowIsThere
<1>10. past # "DISTURBED" => Checked(q)'
  BY <1>1, <1>2, <1>3, <1>5, <1>8, RowsStay DEF Checked
<1>11. RoleSafe(q)'
  <2>1. q.role \in BaseRoles \union groups' BY <1>3, <1>5 DEF Roles
  <2> QED BY <1>3, <2>1 DEF RoleSafe, RoleChoices
<1>12. past = "ORDERLY" => \A u \in Users : member'[u] # NoMember =>
         holds'[u] # {} \/ (q.does = "add_role" /\ q.user = u)
  BY <1>1, <1>3, <1>5, <1>6, <1>7, RolesNow
<1> QED BY <1>4, <1>5, <1>6, <1>7, <1>9, <1>10, <1>11, <1>12, RowsStay, GoesTenantsInv

LEMMA AddRoleTenantsInv ==
  ASSUME TenantsInv, NEW r \in TenantRequests, AddRole(r) PROVE TenantsInv'
<1> PICK p : p = tenantReq[r] OBVIOUS
<1> PICK exists : exists = (p.role \in RoleChoices) OBVIOUS
<1>1. p \in TenantRequest \union {NoTenantReq} /\ p.does = "add_role"
  BY DEF AddRole, TenantsInv, TenantsTypeOK
<1>2. p \in [does : {"regroup", "add_role"}, user : Users, role : Roles,
             next : {"join", "join_as_admin", "make_admin", "end"}]
  BY <1>1, TenantCarries
<1> DEFINE j == [does |-> "join", user |-> p.user, admin |-> p.next = "join_as_admin"]
           m == [does |-> "make_admin", user |-> p.user]
<1>3. \E q \in {NoTenantReq, j, m} :
        /\ Goes(r, q)
        /\ q = j => exists /\ p.next \in {"join", "join_as_admin"}
        /\ q = m => p.next = "make_admin"
  <2>0. Goes(r, CASE ~ exists \/ p.next = "end" -> NoTenantReq
                  [] exists /\ p.next = "make_admin" -> m [] OTHER -> j)
    BY DEF AddRole
  <2>1. NoTenantReq # j /\ NoTenantReq # m /\ j # m
    <3>1. j.does = "join" /\ m.does = "make_admin" /\ NoTenantReq.does = "nothing" BY DEF NoTenantReq
    <3> QED BY ONLY <3>1
  <2> HIDE DEF j, m
  <2>2. exists \in BOOLEAN OBVIOUS
  <2>3. CASE ~ exists \/ p.next = "end"
    <3>1. Goes(r, NoTenantReq) BY <2>0, <2>3
    <3> QED BY <2>1, <3>1
  <2>4. CASE exists /\ p.next = "make_admin"
    <3>1. Goes(r, m) BY <2>0, <2>4
    <3> QED BY <2>1, <2>4, <3>1
  <2>5. CASE exists /\ p.next \in {"join", "join_as_admin"}
    <3>1. Goes(r, j) BY <2>0, <2>5
    <3> QED BY <2>1, <2>5, <3>1
  <2> QED BY <1>2, <2>2, <2>3, <2>4, <2>5
<1>4. PICK q \in {NoTenantReq, j, m} :
        /\ Goes(r, q)
        /\ q = j => exists /\ p.next \in {"join", "join_as_admin"}
        /\ q = m => p.next = "make_admin"
  BY <1>3
<1>5. /\ j \in TenantRequest /\ j.does = "join" /\ j.user = p.user
      /\ m \in TenantRequest /\ m.does = "make_admin" /\ m.user = p.user
      /\ NoTenantReq.does = "nothing"
  BY <1>2 DEF TenantRequest, NoTenantReq
<1> HIDE DEF j, m
<1>6. UNCHANGED <<member, groups, cap, past>> BY DEF AddRole
<1>7. holds' = [holds EXCEPT ![p.user] = IF exists THEN holds[p.user] \union {p.role} ELSE holds[p.user]]
  BY DEF AddRole
<1>8. /\ holds' \in [Users -> SUBSET Roles]
      /\ \A u \in Users : holds[u] \subseteq holds'[u]
      /\ exists => holds'[p.user] # {}
  BY <1>2, <1>7 DEF TenantsInv, TenantsTypeOK
<1>9. p # NoTenantReq BY ONLY <1>1 DEF NoTenantReq
<1>10. RowIsThere(p) /\ (past # "DISTURBED" => Checked(p)) BY DEF TenantsInv, Undisturbed
<1>11. RowIsThere(q)'
  <2>1. q.does = "make_admin" => q = m BY <1>4, <1>5
  <2>2. q.does \notin {"toggle", "regroup", "add_role"} BY <1>4, <1>5
  <2> QED BY <1>1, <1>4, <1>5, <1>6, <1>10, <2>1, <2>2 DEF RowIsThere
<1>12. past # "DISTURBED" => Checked(q)'
  <2>1. q.does = "join" => q = j BY <1>4, <1>5
  <2>2. q.does \notin {"toggle", "delete", "regroup", "add_role"} BY <1>4, <1>5
  <2>3. q = j /\ past # "DISTURBED" => SeatFor(p.user) BY <1>1, <1>4, <1>10 DEF Checked
  <2> QED BY <1>2, <1>5, <1>6, <2>1, <2>2, <2>3, RowsStay DEF Checked
<1>13. RoleSafe(q)'
  <2>1. q.does = "join" => q = j BY <1>4, <1>5
  <2>2. q.does \notin {"add_role", "delete_role"} BY <1>4, <1>5
  <2> QED BY <1>4, <1>5, <1>8, <2>1, <2>2 DEF RoleSafe
<1>14. past = "ORDERLY" => \A u \in Users : member'[u] # NoMember => holds'[u] # {}
  <2>1. past = "ORDERLY" => exists BY <1>1, <1>9, RolesNow DEF RoleSafe
  <2> QED BY <1>1, <1>6, <1>8, <1>9, <2>1, RolesNow
<1>15. q \in TenantRequest \union {NoTenantReq} BY <1>4, <1>5
<1>16. groups' \subseteq OwnRoles BY <1>6 DEF TenantsInv, TenantsTypeOK
<1> QED BY <1>4, <1>6, <1>8, <1>9, <1>11, <1>12, <1>13, <1>14, <1>15, <1>16, RowsStay,
       GoesTenantsInv

\* The role that is deleted, while nobody disturbs, is nobody's.
LEMMA DeleteRoleTenantsInv ==
  ASSUME TenantsInv, NEW r \in TenantRequests, DeleteRole(r) PROVE TenantsInv'
<1> PICK p : p = tenantReq[r] OBVIOUS
<1>1. p.does = "delete_role" BY DEF DeleteRole
<1>2. p # NoTenantReq BY ONLY <1>1 DEF NoTenantReq
<1>3. /\ groups' = groups \ {p.role} /\ holds' = [u \in Users |-> holds[u] \ {p.role}]
      /\ Goes(r, NoTenantReq) /\ UNCHANGED <<member, cap, past>>
  BY DEF DeleteRole
<1>4. groups' \subseteq OwnRoles /\ holds' \in [Users -> SUBSET Roles]
  BY <1>3 DEF TenantsInv, TenantsTypeOK
<1>5. RowIsThere(NoTenantReq)' /\ Checked(NoTenantReq)' /\ RoleSafe(NoTenantReq)'
  BY DEF RowIsThere, Checked, RoleSafe, NoTenantReq
<1>6. past = "ORDERLY" => \A u \in Users : member'[u] # NoMember => holds'[u] # {}
  <2>1. past = "ORDERLY" => \A u \in Users : /\ p.role \notin holds[u]
                                             /\ member[u] # NoMember => holds[u] # {}
    BY <1>1, <1>2, RolesNow DEF RoleSafe
  <2> QED BY <1>3, <2>1
<1> QED BY <1>2, <1>3, <1>4, <1>5, <1>6, RowsStay, GoesTenantsInv

\* The rows of the members: a request ends that has written one.
LEMMA WriteTenantsInv ==
  ASSUME TenantsInv, NEW r \in TenantRequests, Join(r) \/ MakeAdmin(r) \/ Toggle(r)
  PROVE  TenantsInv'
<1> PICK p : p = tenantReq[r] OBVIOUS
<1> PICK u : u = p.user OBVIOUS
<1>1. /\ Goes(r, NoTenantReq) /\ UNCHANGED <<holds, groups, cap, past>>
      /\ p.does \in {"join", "make_admin", "toggle"}
  BY DEF Join, MakeAdmin, Toggle
<1>2. p # NoTenantReq BY ONLY <1>1 DEF NoTenantReq
<1>3. p \in TenantRequest \union {NoTenantReq} /\ TenantsTypeOK BY DEF TenantsInv, TenantsTypeOK
<1>4. u \in Users BY <1>1, <1>3, TenantCarries
<1>5. RowIsThere(p) /\ (past # "DISTURBED" => Checked(p)) BY DEF TenantsInv, Undisturbed
<1>6. member[u] # NoMember => member[u] \in Membership BY <1>3, <1>4 DEF TenantsTypeOK
<1>7. \E m \in Membership :
        /\ member' = [member EXCEPT ![u] = m]
        /\ p.does = "join" => m.active /\ (u \in Admins => m.admin)
        /\ p.does = "make_admin" => /\ member[u] # NoMember /\ m.active = member[u].active
                                    /\ m.admin
        /\ p.does = "toggle" => member[u] # NoMember /\ m.active = p.active
  <2>1. CASE Join(r)
    <3> PICK asAdmin : asAdmin = (p.admin \/ (member[u] # NoMember /\ member[u].admin)) OBVIOUS
    <3> PICK m : m = [admin |-> asAdmin, active |-> TRUE] OBVIOUS
    <3>1. asAdmin \in BOOLEAN /\ (u \in Admins => asAdmin) BY DEF Admins, Active
    <3>2. m \in Membership /\ m.active /\ (u \in Admins => m.admin) BY <3>1 DEF Membership
    <3>3. member' = [member EXCEPT ![u] = m] /\ p.does = "join" BY <2>1 DEF Join
    <3> QED BY <3>2, <3>3
  <2>2. CASE MakeAdmin(r)
    <3> PICK m : m = [member[u] EXCEPT !.admin = TRUE] OBVIOUS
    <3>1. p.does = "make_admin" BY <2>2 DEF MakeAdmin
    <3>2. member[u] # NoMember BY <1>5, <3>1 DEF RowIsThere
    <3>3. m \in Membership /\ m.active = member[u].active /\ m.admin BY <1>6, <3>2 DEF Membership
    <3>4. member' = [member EXCEPT ![u] = m] BY <2>2 DEF MakeAdmin
    <3> QED BY <3>1, <3>2, <3>3, <3>4
  <2>3. CASE Toggle(r)
    <3> PICK m : m = [member[u] EXCEPT !.active = p.active] OBVIOUS
    <3>1. p.does = "toggle" BY <2>3 DEF Toggle
    <3>2. member[u] # NoMember BY <1>5, <3>1 DEF RowIsThere
    <3>3. p.active \in BOOLEAN BY <1>3, <3>1, TenantCarries
    <3>4. m \in Membership /\ m.active = p.active BY <1>6, <3>2, <3>3 DEF Membership
    <3>5. member' = [member EXCEPT ![u] = m] BY <2>3 DEF Toggle
    <3> QED BY <3>1, <3>2, <3>4, <3>5
  <2> QED BY <2>1, <2>2, <2>3
<1>8. PICK m \in Membership :
        /\ member' = [member EXCEPT ![u] = m]
        /\ p.does = "join" => m.active /\ (u \in Admins => m.admin)
        /\ p.does = "make_admin" => /\ member[u] # NoMember /\ m.active = member[u].active
                                    /\ m.admin
        /\ p.does = "toggle" => member[u] # NoMember /\ m.active = p.active
  BY <1>7
<1>9. /\ member' \in [Users -> Membership \union {NoMember}]
      /\ member'[u] = m /\ member'[u] # NoMember
      /\ \A v \in Users : v # u => member'[v] = member[v]
      /\ m.active => Active' = Active \union {u}
      /\ ~ m.active => Active' = Active \ {u}
      /\ Admins \ {u} \subseteq Admins'
      /\ m.active /\ m.admin => u \in Admins'
  BY <1>3, <1>4, <1>8, OneMember
<1>10. ASSUME past # "DISTURBED"
       PROVE  (Admins # {} /\ IsFiniteSet(Active) /\ Cardinality(Active) <= cap)'
  <2>1. Admins # {} /\ IsFiniteSet(Active) /\ Cardinality(Active) <= cap
    BY <1>10 DEF TenantsInv, Undisturbed
  <2>2. Checked(p) BY <1>5, <1>10
  <2>3. m.active => SeatFor(u)
    <3>1. p.does = "join" => SeatFor(u) BY <2>2 DEF Checked
    <3>2. p.does = "toggle" /\ m.active => SeatFor(u) BY <1>8, <2>2 DEF Checked
    <3>3. p.does = "make_admin" /\ m.active => SeatFor(u) BY <1>4, <1>8 DEF SeatFor, Active
    <3> QED BY <1>1, <3>1, <3>2, <3>3
  <2>4. IsFiniteSet(Active') /\ Cardinality(Active') <= cap
    <3>1. CASE m.active BY <1>3, <1>4, <1>9, <2>1, <2>3, <3>1, SeatsKept
    <3>2. CASE ~ m.active BY <1>3, <1>4, <1>9, <2>1, <3>2, SeatsKept
    <3> QED BY <3>1, <3>2
  <2>5. Admins' # {}
    <3>1. CASE p.does = "toggle"
      <4>1. Admins \ {u} # {} BY <2>2, <3>1 DEF Checked
      <4> QED BY <1>9, <4>1
    <3>2. CASE p.does # "toggle"
      <4>1. u \in Admins => m.active /\ m.admin
        BY <1>1, <1>8, <3>2 DEF Admins, Active
      <4> QED BY <1>9, <2>1, <4>1
    <3> QED BY <3>1, <3>2
  <2> QED BY <1>1, <2>4, <2>5
<1>11. RowIsThere(NoTenantReq)' /\ Checked(NoTenantReq)' /\ RoleSafe(NoTenantReq)'
  BY DEF RowIsThere, Checked, RoleSafe, NoTenantReq
<1>12. ASSUME past = "ORDERLY"
       PROVE  \A v \in Users : member'[v] # NoMember => holds'[v] # {}
  <2>1. /\ RoleSafe(p)
        /\ \A v \in Users : member[v] # NoMember => holds[v] # {}
    BY <1>1, <1>2, <1>12, RolesNow
  <2>2. holds[u] # {}
    BY <1>1, <1>4, <1>8, <2>1 DEF RoleSafe
  <2> QED BY <1>1, <1>9, <2>1, <2>2
<1>13. \A v \in Users : member[v] # NoMember => member'[v] # NoMember BY <1>9
<1>14. holds' \in [Users -> SUBSET Roles] /\ groups' \subseteq OwnRoles
  BY <1>1, <1>3 DEF TenantsTypeOK
<1> QED BY <1>1, <1>2, <1>9, <1>10, <1>11, <1>12, <1>13, <1>14, GoesTenantsInv

\* A membership is deleted by whom it does not belong to; requests that have read it end,
\* or leave it.
LEMMA DeleteTenantsInv ==
  ASSUME TenantsInv, NEW r \in TenantRequests, Delete(r) PROVE TenantsInv'
<1> PICK p : p = tenantReq[r] OBVIOUS
<1> PICK u : u = p.user OBVIOUS
<1> DEFINE Spared(q) == q = NoTenantReq \/ q.does \in {"delete_role", "join"} \/ q.user # u
           Rest(q) == IF Spared(q) THEN q
                      ELSE IF q.does \in {"regroup", "add_role"}
                      THEN [q EXCEPT !.next = IF @ = "make_admin" THEN "end" ELSE @]
                      ELSE NoTenantReq
<1>1. p.does = "delete" /\ p \in TenantRequest \union {NoTenantReq} /\ TenantsTypeOK
  BY DEF Delete, TenantsInv, TenantsTypeOK
<1>2. u \in Users BY <1>1, TenantCarries
<1>3. p # NoTenantReq BY ONLY <1>1 DEF NoTenantReq
<1>4. /\ member' = [member EXCEPT ![u] = NoMember]
      /\ tenantReq' = [s \in TenantRequests |-> IF s = r THEN NoTenantReq ELSE Rest(tenantReq[s])]
      /\ UNCHANGED <<holds, groups, cap, past>>
  BY DEF Delete
<1>5. /\ member' \in [Users -> Membership \union {NoMember}] /\ member'[u] = NoMember
      /\ \A v \in Users : v # u => member'[v] = member[v]
  BY <1>1, <1>2, <1>4 DEF TenantsTypeOK
<1>6. Rest(NoTenantReq) = NoTenantReq OBVIOUS
<1>7. ASSUME NEW q \in TenantRequest \union {NoTenantReq}, RowIsThere(q)
      PROVE  Rest(q) \in TenantRequest \union {NoTenantReq} /\ RowIsThere(Rest(q))'
  <2>1. CASE q = NoTenantReq \/ q.does \in {"delete_role", "join"}
    <3>1. Spared(q) /\ Rest(q) = q BY <2>1
    <3>2. q.does \in {"nothing", "delete_role", "join"} BY <2>1 DEF NoTenantReq
    <3> HIDE DEF Rest
    <3> QED BY <3>1, <3>2 DEF RowIsThere
  <2>2. CASE q # NoTenantReq /\ q.does # "delete_role" /\ q.user # u
    <3>1. Rest(q) = q BY <2>2
    <3> HIDE DEF Rest
    <3>2. q.does \in {"make_admin", "toggle", "regroup", "add_role"} => q.user \in Users
      BY TenantCarries
    <3> QED BY <1>5, <1>7, <2>2, <3>1, <3>2 DEF RowIsThere
  <2>3. CASE q.user = u /\ q.does \in {"regroup", "add_role"}
    <3> PICK next : next = IF q.next = "make_admin" THEN "end" ELSE q.next OBVIOUS
    <3> PICK w : w = [q EXCEPT !.next = next] OBVIOUS
    <3>1. q # NoTenantReq BY ONLY <2>3 DEF NoTenantReq
    <3>2. Rest(q) = w BY <2>3, <3>1
    <3>3. q \in [does : {"regroup", "add_role"}, user : Users, role : Roles,
                 next : {"join", "join_as_admin", "make_admin", "end"}]
      BY <2>3, TenantCarries
    <3>4. /\ w \in [does : {"regroup", "add_role"}, user : Users, role : Roles,
                    next : {"join", "join_as_admin", "make_admin", "end"}]
          /\ w.does \in {"regroup", "add_role"} /\ w.next # "make_admin"
      BY <3>3
    <3> HIDE DEF Rest
    <3>5. w \in TenantRequest BY <3>4 DEF TenantRequest
    <3>6. RowIsThere(w)' BY <3>4 DEF RowIsThere
    <3> QED BY <3>2, <3>5, <3>6 DEF RowIsThere
  <2>4. CASE /\ q # NoTenantReq /\ q.user = u
             /\ q.does \notin {"delete_role", "join", "regroup", "add_role"}
    <3>1. Rest(q) = NoTenantReq BY <2>4
    <3> HIDE DEF Rest
    <3> QED BY <3>1 DEF RowIsThere, NoTenantReq
  <2> HIDE DEF Rest
  <2> QED BY <2>1, <2>2, <2>3, <2>4
<1> HIDE DEF Rest
<1>8. /\ tenantReq'[r] = NoTenantReq
      /\ \A s \in TenantRequests : s # r => tenantReq'[s] = Rest(tenantReq[s])
  BY <1>4
<1>9. ASSUME NEW s \in TenantRequests, s # r
      PROVE  tenantReq'[s] \in TenantRequest \union {NoTenantReq} /\ RowIsThere(tenantReq[s])'
  <2> PICK q : q = tenantReq[s] OBVIOUS
  <2> PICK d : d = Rest(q) OBVIOUS
  <2>1. q \in TenantRequest \union {NoTenantReq} /\ RowIsThere(q)
    BY DEF TenantsInv, TenantsTypeOK
  <2>2. d \in TenantRequest \union {NoTenantReq} /\ RowIsThere(d)' BY <1>7, <2>1
  <2>3. tenantReq'[s] = d BY <1>8, <1>9
  <2> QED BY <2>2, <2>3 DEF RowIsThere
<1>10. tenantReq' \in [TenantRequests -> TenantRequest \union {NoTenantReq}] BY <1>4, <1>8, <1>9
<1>11. TenantsTypeOK' BY <1>1, <1>4, <1>5, <1>10 DEF TenantsTypeOK
<1>12. \A s \in TenantRequests : RowIsThere(tenantReq[s])'
  <2>1. RowIsThere(NoTenantReq)' BY DEF RowIsThere, NoTenantReq
  <2>2. RowIsThere(tenantReq[r])' BY <1>8, <2>1 DEF RowIsThere
  <2> QED BY <1>9, <2>2
<1>13. ASSUME past # "DISTURBED"
       PROVE  Undisturbed' /\ \A s \in TenantRequests : tenantReq'[s] = NoTenantReq
  <2>1. Undisturbed BY <1>13 DEF TenantsInv
  <2>2. \A s \in TenantRequests : s # r => tenantReq[s] = NoTenantReq
    BY <1>3, <2>1 DEF Undisturbed, OneTenantReq
  <2>3. \A s \in TenantRequests : tenantReq'[s] = NoTenantReq BY <1>6, <1>8, <2>2
  <2>4. Active' = Active \ {u}
    <3>1. Active \subseteq Users /\ Active' \subseteq Users BY DEF Active
    <3>2. \A v \in Users : v \in Active' <=> v \in Active /\ v # u BY <1>5 DEF Active
    <3> QED BY <3>1, <3>2
  <2>5. IsFiniteSet(Active') /\ Cardinality(Active') <= cap
    BY <1>1, <1>2, <2>1, <2>4, SeatsKept DEF Undisturbed
  <2>6. Admins' # {}
    <3>1. PICK v \in Admins : v # u BY <1>1, <2>1 DEF Undisturbed, Checked
    <3>2. v \in Users /\ v \in Active /\ member[v].admin BY DEF Admins, Active
    <3>3. v \in Active' /\ member'[v].admin BY <1>5, <2>4, <3>1, <3>2
    <3> QED BY <3>3 DEF Admins
  <2>7. OneTenantReq' BY <2>3 DEF OneTenantReq
  <2>8. \A s \in TenantRequests : Checked(tenantReq[s])'
    BY <2>3 DEF Checked, NoTenantReq
  <2> QED BY <1>4, <2>3, <2>5, <2>6, <2>7, <2>8 DEF Undisturbed
<1>14. ASSUME past = "ORDERLY" PROVE RolesKept'
  <2>1. \A s \in TenantRequests : tenantReq'[s] = NoTenantReq BY <1>13, <1>14
  <2>2. \A v \in Users : member[v] # NoMember => holds[v] # {} BY <1>1, <1>3, <1>14, RolesNow
  <2>3. \A v \in Users : member'[v] # NoMember => holds'[v] # {} BY <1>4, <1>5, <2>2
  <2>4. \A s \in TenantRequests : RoleSafe(tenantReq[s])' BY <2>1 DEF RoleSafe, NoTenantReq
  <2> QED BY <2>3, <2>4 DEF RolesKept
<1> QED BY <1>4, <1>11, <1>12, <1>13, <1>14 DEF TenantsInv

\* The invariant of the accounts, for every reachable state.
THEOREM TenantsInvariance == TenantsSpec => []TenantsInv
<1>1. ASSUME TenantsInv, [TenantsNext]_tenantVars PROVE TenantsInv'
  <2>1. ASSUME NEW r \in TenantRequests, NEW u \in Users,
               \/ \E role \in Roles :
                    \/ AskRole(r, u, role)
                    \/ \E asAdmin \in BOOLEAN : AskAccount(r, u, role, asAdmin)
               \/ \E asAdmin \in BOOLEAN : PanelAdds(r, u, asAdmin)
               \/ AskToggle(r, u) \/ AskDelete(r, u) \/ PanelChanges(r, u)
        PROVE  TenantsInv'
    BY <1>1, <2>1, AskRoleTenantsInv, AskAccountTenantsInv, PanelAddsTenantsInv, AskRowTenantsInv
  <2>2. ASSUME NEW r \in TenantRequests,
               \/ \E g \in OwnRoles : AskDeleteRole(r, g)
               \/ Regroup(r) \/ AddRole(r) \/ Join(r) \/ MakeAdmin(r)
               \/ Toggle(r) \/ Delete(r) \/ DeleteRole(r) \/ TenantReqDies(r)
        PROVE  TenantsInv'
    BY <1>1, <2>2, AskDeleteRoleTenantsInv, RegroupTenantsInv, AddRoleTenantsInv,
       WriteTenantsInv, DeleteTenantsInv, DeleteRoleTenantsInv, TenantReqDiesInv
  <2>3. CASE UNCHANGED tenantVars
    <3>1. TenantsTypeOK' /\ \A r \in TenantRequests : RowIsThere(tenantReq[r])'
      BY <1>1, <2>3 DEF tenantVars, TenantsInv, TenantsTypeOK, RowIsThere
    <3>2. past' # "DISTURBED" => Undisturbed'
      BY <1>1, <2>3 DEF tenantVars, TenantsInv, Undisturbed, OneTenantReq, Checked, SeatFor,
                        SeatFree, Admins, Active
    <3>3. past' = "ORDERLY" => RolesKept'
      BY <1>1, <2>3 DEF tenantVars, TenantsInv, RolesKept, RoleSafe, RoleChoices, GetsRole
    <3> QED BY <3>1, <3>2, <3>3 DEF TenantsInv
  <2> QED BY <1>1, <2>1, <2>2, <2>3, CreateTenantsInv DEF TenantsNext
<1> QED BY <1>1, InitTenantsInv, PTL DEF TenantsSpec

\* Types of the accounts' variables (tenants/models.py), whatever requests overlap and die;
\* a request that saves a row finds it there.
THEOREM TenantsTypeCorrect == TenantsSpec => []TenantsTypeOK
<1>1. TenantsInv => TenantsTypeOK BY DEF TenantsInv
<1> QED BY <1>1, TenantsInvariance, PTL

\* TenantUserToggleView and the other screens of the company: taken one after the other, its
\* administrators' requests never leave it without one, nor take more seats than its plan has.
THEOREM CompanyIsManagedHolds == TenantsSpec => []CompanyIsManaged
<1>1. TenantsInv => CompanyIsManaged BY DEF TenantsInv, Undisturbed, CompanyIsManaged
<1> QED BY <1>1, TenantsInvariance, PTL

\* assign_role_to_user and TenantRoleDeleteView: when requests neither overlap nor die,
\* every member has a role.
THEOREM EverybodyHasRoleHolds == TenantsSpec => []EverybodyHasRole
<1>1. TenantsInv => EverybodyHasRole
  BY DEF TenantsInv, RolesKept, GetsRole, Idle, NoTenantReq, EverybodyHasRole
<1> QED BY <1>1, TenantsInvariance, PTL

(***************************************************************************)
(* LineBalance.  No station gives more than it has too much or takes more  *)
(* than it has room for, each move exhausts one of its two stations, and   *)
(* in all as much is given as is taken.                                    *)
(***************************************************************************)
WithinBounds ==
  \A p \in Posts : Given(p) + capacity[p] <= Overload(p) /\ Taken(p) <= Slack(p)

\* No pair of stations is met twice, and none that has asked for capacity gives any more.
Exhausted ==
  /\ \A p, q \in Posts : moves[<<p, q>>] # 0 => TooMuch(p) = 0 \/ RoomLeft(q) = 0
  /\ \A p \in Posts : capacity[p] # 0 => TooMuch(p) = 0 /\ \A q \in Posts : RoomLeft(q) = 0

GivenIsTaken == Total([p \in Posts |-> Given(p)]) = Total([p \in Posts |-> Taken(p)])

\* What the recommendation was derived from is so.
Recommended ==
  /\ balanced # "NO" => \A p \in Posts : TooMuch(p) = 0
  /\ balanced = "success" => \A p \in Posts : ~ Bottleneck(p) /\ Given(p) + capacity[p] = 0

BalanceInv == LineBalanceTypeOK /\ WithinBounds /\ Exhausted /\ GivenIsTaken /\ Recommended

\* A sum of natural numbers is one.
LEMMA SumNat ==
  ASSUME NEW S, IsFiniteSet(S), NEW f, \A x \in S : f[x] \in Nat
  PROVE  SumOf(f, S) \in Nat
<1>1. PICK g : SumsUp(g, f, S) /\ SumOf(f, S) = g[S] BY SumFolds
<1> DEFINE Z == {s \in SUBSET S : g[s] \in Nat}
<1>2. ASSUME NEW s \in SUBSET S, \A x \in s : s \ {x} \in Z PROVE s \in Z
  <2>1. g[s] = IF s = {} THEN 0 ELSE f[OneOf(s)] + g[s \ {OneOf(s)}] BY <1>1 DEF SumsUp
  <2>2. CASE s = {} BY <2>1, <2>2
  <2>3. CASE s # {}
    <3>1. OneOf(s) \in s BY <2>3 DEF OneOf
    <3>2. f[OneOf(s)] \in Nat /\ g[s \ {OneOf(s)}] \in Nat BY <1>2, <3>1
    <3>3. g[s] \in Nat BY <2>1, <2>3, <3>2
    <3> QED BY <3>3
  <2> QED BY <2>2, <2>3
<1>3. \A s \in SUBSET S : s \in Z
  <2> HIDE DEF Z
  <2> QED BY <1>2, SetFiniteInduction
<1> QED BY <1>1, <1>3

\* The sum of sums is the sum of both.
LEMMA SumPlus ==
  ASSUME NEW S, IsFiniteSet(S), NEW f, NEW h, NEW e,
         \A x \in S : f[x] \in Int /\ h[x] \in Int /\ e[x] = f[x] + h[x]
  PROVE  SumOf(e, S) = SumOf(f, S) + SumOf(h, S)
<1>1. PICK g : SumsUp(g, f, S) /\ SumOf(f, S) = g[S] BY SumFolds
<1>2. PICK k : SumsUp(k, h, S) /\ SumOf(h, S) = k[S] BY SumFolds
<1>3. PICK l : SumsUp(l, e, S) /\ SumOf(e, S) = l[S] BY SumFolds
<1>4. \A s \in SUBSET S : g[s] \in Int /\ k[s] \in Int BY <1>1, <1>2, SumsUpType
<1> DEFINE Z == {s \in SUBSET S : l[s] = g[s] + k[s]}
<1>5. ASSUME NEW s \in SUBSET S, \A x \in s : s \ {x} \in Z PROVE s \in Z
  <2>1. g[s] = IF s = {} THEN 0 ELSE f[OneOf(s)] + g[s \ {OneOf(s)}] BY <1>1 DEF SumsUp
  <2>2. k[s] = IF s = {} THEN 0 ELSE h[OneOf(s)] + k[s \ {OneOf(s)}] BY <1>2 DEF SumsUp
  <2>3. l[s] = IF s = {} THEN 0 ELSE e[OneOf(s)] + l[s \ {OneOf(s)}] BY <1>3 DEF SumsUp
  <2>4. CASE s = {} BY <2>1, <2>2, <2>3, <2>4
  <2>5. CASE s # {}
    <3> PICK y : y = OneOf(s) OBVIOUS
    <3> PICK rest : rest = s \ {y} OBVIOUS
    <3>1. y \in s BY <2>5 DEF OneOf
    <3>2. l[rest] = g[rest] + k[rest] BY <1>5, <3>1
    <3>3. g[rest] \in Int /\ k[rest] \in Int BY <1>4
    <3>4. f[y] \in Int /\ h[y] \in Int /\ e[y] = f[y] + h[y] BY <3>1
    <3>5. g[s] = f[y] + g[rest] /\ k[s] = h[y] + k[rest] /\ l[s] = e[y] + l[rest]
      BY <2>1, <2>2, <2>3, <2>5
    <3>6. l[s] = g[s] + k[s] BY ONLY <3>2, <3>3, <3>4, <3>5
    <3> QED BY <3>6
  <2> QED BY <2>4, <2>5
<1>6. \A s \in SUBSET S : s \in Z
  <2> HIDE DEF Z
  <2> QED BY <1>5, SetFiniteInduction
<1> QED BY <1>1, <1>2, <1>3, <1>6

\* The sum of lesser values is not greater.
LEMMA SumLess ==
  ASSUME NEW S, IsFiniteSet(S), NEW f, NEW h,
         \A x \in S : f[x] \in Int /\ h[x] \in Int /\ f[x] <= h[x]
  PROVE  SumOf(f, S) <= SumOf(h, S)
<1> PICK d : d = [x \in S |-> h[x] - f[x]] OBVIOUS
<1>1. \A x \in S : d[x] \in Nat /\ d[x] \in Int /\ h[x] = f[x] + d[x] OBVIOUS
<1>2. SumOf(h, S) = SumOf(f, S) + SumOf(d, S) BY ONLY <1>1, IsFiniteSet(S),
        \A x \in S : f[x] \in Int, SumPlus
<1>3. SumOf(d, S) \in Nat BY <1>1, SumNat
<1>4. SumOf(f, S) \in Int BY SumType
<1> QED BY <1>2, <1>3, <1>4

LEMMA GivenIs ==
  ASSUME NEW p
  PROVE  /\ Given(p) = SumOf([q \in Posts |-> moves[<<p, q>>]], Posts)
         /\ Given(p)' = SumOf([q \in Posts |-> moves'[<<p, q>>]], Posts)
         /\ Taken(p) = SumOf([q \in Posts |-> moves[<<q, p>>]], Posts)
         /\ Taken(p)' = SumOf([q \in Posts |-> moves'[<<q, p>>]], Posts)
<1>1. Given(p) = SumOf([q \in Posts |-> moves[<<p, q>>]], Posts) BY DEF Given, Total, SumOf
<1>2. Given(p)' = SumOf([q \in Posts |-> moves'[<<p, q>>]], Posts)
  BY DEF Given, Total, SumOf, MapThenSumSet, MapThenFoldSet
<1>3. Taken(p) = SumOf([q \in Posts |-> moves[<<q, p>>]], Posts) BY DEF Taken, Total, SumOf
<1>4. Taken(p)' = SumOf([q \in Posts |-> moves'[<<q, p>>]], Posts)
  BY DEF Taken, Total, SumOf, MapThenSumSet, MapThenFoldSet
<1> QED BY <1>1, <1>2, <1>3, <1>4

\* A study has a takt as soon as it has a station; without any work it is zero.
LEMMA TaktIs ==
  ASSUME LineBalanceTypeOK, NEW p \in Posts
  PROVE  TargetTakt \in Nat /\ (TargetTakt = 0 => standard[p] = 0)
<1> DEFINE W == {standard[q] : q \in Posts}
<1>1. W \in SUBSET Int /\ W # {} /\ IsFiniteSet(W)
  <2>1. IsFiniteSet(W)
    <3> DEFINE f == [q \in Posts |-> standard[q]]
    <3>1. f \in Surjection(Posts, W) BY DEF Surjection
    <3> HIDE DEF f, W
    <3> QED BY <3>1, FS_Surjection, BalanceAssumption
  <2> QED BY <2>1, BalanceAssumption DEF LineBalanceTypeOK, Seconds
<1>2. standard[p] \in W /\ \A x \in W : x \in Nat
  BY BalanceAssumption DEF LineBalanceTypeOK, Seconds
<1>3. TargetTakt = IF studyTakt > 0 THEN studyTakt ELSE Max(W) BY DEF TargetTakt
<1> HIDE DEF W
<1>4. Max(W) \in W /\ \A x \in W : x <= Max(W) BY <1>1, MaxIn
<1>5. studyTakt \in Nat BY BalanceAssumption DEF LineBalanceTypeOK, Seconds
<1> QED BY <1>2, <1>3, <1>4, <1>5

LEMMA BalanceTypes ==
  ASSUME LineBalanceTypeOK, NEW p \in Posts
  PROVE  /\ Overload(p) \in Nat /\ Overload(p) <= MaxSeconds /\ Slack(p) \in Nat
         /\ Given(p) \in Nat /\ Taken(p) \in Nat /\ capacity[p] \in Nat
         /\ TooMuch(p) \in Int /\ TooMuch(p) <= MaxSeconds /\ TooMuch(p) <= Overload(p)
         /\ RoomLeft(p) \in Int
<1>1. /\ standard[p] \in Nat /\ standard[p] <= MaxSeconds /\ MaxSeconds \in Nat
      /\ capacity[p] \in Nat
      /\ \A q, t \in Posts : moves[<<q, t>>] \in Nat
  BY BalanceAssumption DEF LineBalanceTypeOK, Seconds
<1>2. TargetTakt \in Nat BY TaktIs
<1>3. Overload(p) \in Nat /\ Overload(p) <= MaxSeconds /\ Slack(p) \in Nat
  BY <1>1, <1>2 DEF Overload, Slack
<1>4. Given(p) \in Nat
  <2>1. \A q \in Posts : [t \in Posts |-> moves[<<p, t>>]][q] \in Nat BY <1>1
  <2> QED BY <2>1, GivenIs, SumNat, BalanceAssumption
<1>5. Taken(p) \in Nat
  <2>1. \A q \in Posts : [t \in Posts |-> moves[<<t, p>>]][q] \in Nat BY <1>1
  <2> QED BY <2>1, GivenIs, SumNat, BalanceAssumption
<1>6. TooMuch(p) \in Int /\ TooMuch(p) <= MaxSeconds /\ TooMuch(p) <= Overload(p)
  BY <1>1, <1>3, <1>4 DEF TooMuch
<1> QED BY <1>1, <1>3, <1>4, <1>5, <1>6 DEF RoomLeft

LEMMA InitBalanceInv == LineBalanceInit => BalanceInv
<1> SUFFICES ASSUME LineBalanceInit PROVE BalanceInv OBVIOUS
<1>1. LineBalanceTypeOK
  BY BalanceAssumption DEF LineBalanceInit, LineBalanceTypeOK, Seconds
<1>2. \A p \in Posts : Given(p) = 0 /\ Taken(p) = 0 /\ capacity[p] = 0
  <2> SUFFICES ASSUME NEW p \in Posts PROVE Given(p) = 0 /\ Taken(p) = 0 /\ capacity[p] = 0
    OBVIOUS
  <2>1. \A q \in Posts : /\ [t \in Posts |-> moves[<<p, t>>]][q] = 0
                         /\ [t \in Posts |-> moves[<<t, p>>]][q] = 0
    BY DEF LineBalanceInit
  <2>2. capacity[p] = 0 BY DEF LineBalanceInit
  <2>3. /\ SumOf([t \in Posts |-> moves[<<p, t>>]], Posts) = 0
        /\ SumOf([t \in Posts |-> moves[<<t, p>>]], Posts) = 0
    BY ONLY <2>1, SumZero, BalanceAssumption
  <2> QED BY <2>2, <2>3, GivenIs
<1>3. WithinBounds BY <1>1, <1>2, BalanceTypes DEF WithinBounds
<1>4. Exhausted BY <1>2 DEF LineBalanceInit, Exhausted
<1>5. GivenIsTaken
  <2>1. [p \in Posts |-> Given(p)] = [p \in Posts |-> Taken(p)] BY <1>2
  <2> QED BY <2>1 DEF GivenIsTaken
<1>6. Recommended BY DEF LineBalanceInit, Recommended
<1> QED BY <1>1, <1>3, <1>4, <1>5, <1>6 DEF BalanceInv

LEMMA GivenIsTakenIs ==
  /\ GivenIsTaken <=>
       SumOf([p \in Posts |-> Given(p)], Posts) = SumOf([p \in Posts |-> Taken(p)], Posts)
  /\ GivenIsTaken' <=>
       SumOf([p \in Posts |-> Given(p)'], Posts) = SumOf([p \in Posts |-> Taken(p)'], Posts)
<1>1. GivenIsTaken <=>
        SumOf([p \in Posts |-> Given(p)], Posts) = SumOf([p \in Posts |-> Taken(p)], Posts)
  BY DEF GivenIsTaken, Total, SumOf
<1>2. GivenIsTaken' <=>
        SumOf([p \in Posts |-> Given(p)'], Posts) = SumOf([p \in Posts |-> Taken(p)'], Posts)
  BY DEF GivenIsTaken, Total, SumOf, MapThenSumSet, MapThenFoldSet
<1> QED BY <1>1, <1>2

\* Nothing of the study changes but the moves: what a pair of stations exchanges is added.
LEMMA MovedIs ==
  ASSUME LineBalanceTypeOK, NEW p \in Posts, NEW q \in Posts, NEW a \in Int,
         moves[<<p, q>>] = 0, moves' = [moves EXCEPT ![<<p, q>>] = a]
  PROVE  /\ Given(p)' = Given(p) + a /\ \A x \in Posts : x # p => Given(x)' = Given(x)
         /\ Taken(q)' = Taken(q) + a /\ \A x \in Posts : x # q => Taken(x)' = Taken(x)
<1>1. \A x, y \in Posts : moves[<<x, y>>] \in Int
  BY BalanceAssumption DEF LineBalanceTypeOK, Seconds
<1>2. \A x, y \in Posts : moves'[<<x, y>>] = IF x = p /\ y = q THEN a ELSE moves[<<x, y>>]
  BY DEF LineBalanceTypeOK
<1>3. IsFiniteSet(Posts) BY BalanceAssumption
<1>4. Given(p)' = Given(p) + a
  <2> PICK f : f = [y \in Posts |-> moves[<<p, y>>]] OBVIOUS
  <2>1. f \in [Posts -> Int] /\ f[q] = 0 BY <1>1
  <2> PICK h : h = [y \in Posts |-> moves'[<<p, y>>]] OBVIOUS
  <2>2. h = [f EXCEPT ![q] = a]
    <3>1. \A y \in Posts : h[y] = IF y = q THEN a ELSE f[y] BY <1>2
    <3> QED BY <3>1
  <2>3. SumOf([f EXCEPT ![q] = a], Posts) = SumOf(f, Posts) + a - f[q]
    BY ONLY <1>3, <2>1, a \in Int, q \in Posts, SumChange
  <2>4. SumOf(f, Posts) \in Int BY <1>3, <2>1, SumType
  <2>5. Given(p) = SumOf(f, Posts) BY GivenIs
  <2>6. Given(p)' = SumOf(h, Posts) BY GivenIs
  <2> QED BY ONLY <2>1, <2>2, <2>3, <2>4, <2>5, <2>6, a \in Int
<1>5. Taken(q)' = Taken(q) + a
  <2> PICK f : f = [y \in Posts |-> moves[<<y, q>>]] OBVIOUS
  <2>1. f \in [Posts -> Int] /\ f[p] = 0 BY <1>1
  <2> PICK h : h = [y \in Posts |-> moves'[<<y, q>>]] OBVIOUS
  <2>2. h = [f EXCEPT ![p] = a]
    <3>1. \A y \in Posts : h[y] = IF y = p THEN a ELSE f[y] BY <1>2
    <3> QED BY <3>1
  <2>3. SumOf([f EXCEPT ![p] = a], Posts) = SumOf(f, Posts) + a - f[p]
    BY ONLY <1>3, <2>1, a \in Int, p \in Posts, SumChange
  <2>4. SumOf(f, Posts) \in Int BY <1>3, <2>1, SumType
  <2>5. Taken(q) = SumOf(f, Posts) BY GivenIs
  <2>6. Taken(q)' = SumOf(h, Posts) BY GivenIs
  <2> QED BY ONLY <2>1, <2>2, <2>3, <2>4, <2>5, <2>6, a \in Int
<1>6. ASSUME NEW x \in Posts, x # p PROVE Given(x)' = Given(x)
  <2> PICK f : f = [y \in Posts |-> moves[<<x, y>>]] OBVIOUS
  <2> PICK h : h = [y \in Posts |-> moves'[<<x, y>>]] OBVIOUS
  <2>1. h = f BY <1>2, <1>6
  <2>2. Given(x) = SumOf(f, Posts) BY GivenIs
  <2>3. Given(x)' = SumOf(h, Posts) BY GivenIs
  <2> QED BY <2>1, <2>2, <2>3
<1>7. ASSUME NEW x \in Posts, x # q PROVE Taken(x)' = Taken(x)
  <2> PICK f : f = [y \in Posts |-> moves[<<y, x>>]] OBVIOUS
  <2> PICK h : h = [y \in Posts |-> moves'[<<y, x>>]] OBVIOUS
  <2>1. h = f BY <1>2, <1>7
  <2>2. Taken(x) = SumOf(f, Posts) BY GivenIs
  <2>3. Taken(x)' = SumOf(h, Posts) BY GivenIs
  <2> QED BY <2>1, <2>2, <2>3
<1> QED BY <1>4, <1>5, <1>6, <1>7

\* What a station has too much and too little does not change.
LEMMA LoadStays ==
  ASSUME UNCHANGED <<standard, ownTakt, studyTakt, slow>>
  PROVE  \A p \in Posts : Overload(p)' = Overload(p) /\ Slack(p)' = Slack(p)
                          /\ (Bottleneck(p)' <=> Bottleneck(p))
  BY DEF Overload, Slack, TargetTakt, Bottleneck, TargetOf

LEMMA PendingIs ==
  ASSUME NEW p, Pending # {}, p = Min(Pending)
  PROVE  p \in Posts /\ TooMuch(p) > 0
<1>1. Pending \in SUBSET Nat BY BalanceAssumption DEF Pending
<1>2. p \in Pending BY <1>1, MinIn
<1> QED BY <1>2 DEF Pending

LEMMA MoveWorkBalanceInv ==
  ASSUME BalanceInv, NEW p \in Posts, NEW q \in Posts, MoveWork(p, q) PROVE BalanceInv'
<1> PICK a : a = Min({TooMuch(p), RoomLeft(q)}) OBVIOUS
<1>0. LineBalanceTypeOK BY DEF BalanceInv
<1>1. TooMuch(p) > 0 /\ RoomLeft(q) > 0
  <2>1. TooMuch(p) > 0 BY PendingIs DEF MoveWork
  <2>2. WithRoom \in SUBSET Nat /\ WithRoom # {} /\ q = Min(WithRoom)
    BY BalanceAssumption DEF WithRoom, MoveWork
  <2>3. q \in WithRoom BY <2>2, MinIn
  <2> QED BY <2>1, <2>3 DEF WithRoom
<1>2. /\ a \in Nat /\ a # 0 /\ a <= TooMuch(p) /\ a <= RoomLeft(q)
      /\ a = TooMuch(p) \/ a = RoomLeft(q)
  <2> PICK x : x = TooMuch(p) OBVIOUS
  <2> PICK y : y = RoomLeft(q) OBVIOUS
  <2>1. x \in Nat /\ y \in Nat /\ x > 0 /\ y > 0 BY <1>0, <1>1, BalanceTypes
  <2>2. {x, y} \in SUBSET Nat /\ {x, y} # {} BY <2>1
  <2>3. a \in {x, y} /\ \A z \in {x, y} : a <= z BY <2>2, MinIn
  <2> QED BY <2>1, <2>3
<1>3. moves[<<p, q>>] = 0
  <2>1. ~ (TooMuch(p) = 0 \/ RoomLeft(q) = 0) BY <1>0, <1>1, BalanceTypes
  <2> QED BY <2>1 DEF BalanceInv, Exhausted
<1>4. /\ moves' = [moves EXCEPT ![<<p, q>>] = a] /\ balanced = "NO"
      /\ UNCHANGED <<standard, ownTakt, studyTakt, slow, capacity, balanced>>
  BY DEF MoveWork
<1>5. /\ Given(p)' = Given(p) + a /\ \A x \in Posts : x # p => Given(x)' = Given(x)
      /\ Taken(q)' = Taken(q) + a /\ \A x \in Posts : x # q => Taken(x)' = Taken(x)
  <2>1. a \in Int BY <1>2
  <2> QED BY <1>0, <1>3, <1>4, <2>1, MovedIs
<1>6. \A x \in Posts : Overload(x)' = Overload(x) /\ Slack(x)' = Slack(x) BY <1>4, LoadStays
<1>7. \A x \in Posts : Given(x) \in Int /\ Taken(x) \in Int /\ capacity[x] \in Int
                       /\ Overload(x) \in Int /\ Slack(x) \in Int
  BY <1>0, BalanceTypes
<1>8. /\ TooMuch(p)' = TooMuch(p) - a /\ \A x \in Posts : x # p => TooMuch(x)' = TooMuch(x)
      /\ RoomLeft(q)' = RoomLeft(q) - a /\ \A x \in Posts : x # q => RoomLeft(x)' = RoomLeft(x)
  BY <1>2, <1>4, <1>5, <1>6, <1>7 DEF TooMuch, RoomLeft
<1>9. \A x \in Posts : TooMuch(x) \in Int /\ RoomLeft(x) \in Int BY <1>0, BalanceTypes
<1>10. LineBalanceTypeOK'
  <2>1. a \in Seconds
    <3>1. TooMuch(p) <= MaxSeconds /\ TooMuch(p) \in Int BY <1>0, BalanceTypes
    <3> QED BY <1>2, <3>1, BalanceAssumption DEF Seconds
  <2> QED BY <1>0, <1>4, <2>1 DEF LineBalanceTypeOK
<1>11. WithinBounds'
  <2>1. ASSUME NEW x \in Posts
        PROVE  Given(x)' + capacity'[x] <= Overload(x)' /\ Taken(x)' <= Slack(x)'
    <3>1. Given(x) + capacity[x] <= Overload(x) /\ Taken(x) <= Slack(x)
      BY DEF BalanceInv, WithinBounds
    <3>2. Given(x)' + capacity'[x] <= Overload(x)'
      <4>1. CASE x = p
        <5>1. Given(p)' + capacity'[p] = Given(p) + a + capacity[p] BY <1>4, <1>5
        <5>2. a <= Overload(p) - Given(p) - capacity[p] BY <1>2 DEF TooMuch
        <5>3. Given(p) + a + capacity[p] <= Overload(p) BY <1>2, <1>7, <5>2
        <5> QED BY <1>6, <4>1, <5>1, <5>3
      <4>2. CASE x # p BY <1>4, <1>5, <1>6, <3>1, <4>2
      <4> QED BY <4>1, <4>2
    <3>3. Taken(x)' <= Slack(x)'
      <4>1. CASE x = q
        <5>1. a <= Slack(q) - Taken(q) BY <1>2 DEF RoomLeft
        <5>2. Taken(q) + a <= Slack(q) BY <1>2, <1>7, <5>1
        <5> QED BY <1>5, <1>6, <4>1, <5>2
      <4>2. CASE x # q BY <1>4, <1>5, <1>6, <3>1, <4>2
      <4> QED BY <4>1, <4>2
    <3> QED BY <3>2, <3>3
  <2> QED BY <2>1 DEF WithinBounds
<1>12. Exhausted'
  <2>1. ASSUME NEW x \in Posts, NEW y \in Posts, moves'[<<x, y>>] # 0
        PROVE  TooMuch(x)' = 0 \/ RoomLeft(y)' = 0
    <3>1. CASE x = p /\ y = q BY <1>2, <1>8, <1>9, <3>1
    <3>2. CASE ~ (x = p /\ y = q)
      <4>1. moves'[<<x, y>>] = moves[<<x, y>>] BY <1>0, <1>4, <3>2 DEF LineBalanceTypeOK
      <4>2. TooMuch(x) = 0 \/ RoomLeft(y) = 0 BY <2>1, <4>1 DEF BalanceInv, Exhausted
      <4>3. TooMuch(x) = 0 => x # p BY <1>1, <1>9
      <4>4. RoomLeft(y) = 0 => y # q BY <1>1, <1>9
      <4> QED BY <1>8, <4>2, <4>3, <4>4
    <3> QED BY <3>1, <3>2
  <2>2. \A x \in Posts : capacity[x] = 0
    <3>1. RoomLeft(q) # 0 BY <1>1, <1>9
    <3> QED BY <3>1 DEF BalanceInv, Exhausted
  <2> QED BY <1>4, <2>1, <2>2 DEF Exhausted
<1>13. GivenIsTaken'
  <2> PICK g : g = [x \in Posts |-> Given(x)] OBVIOUS
  <2> PICK t : t = [x \in Posts |-> Taken(x)] OBVIOUS
  <2> PICK ga : ga = Given(p) + a OBVIOUS
  <2> PICK ta : ta = Taken(q) + a OBVIOUS
  <2>1. g \in [Posts -> Int] /\ t \in [Posts -> Int] /\ ga \in Int /\ ta \in Int BY <1>2, <1>7
  <2>2. SumOf(g, Posts) = SumOf(t, Posts) BY GivenIsTakenIs DEF BalanceInv
  <2>0. IsFiniteSet(Posts) BY BalanceAssumption
  <2>3. /\ SumOf([g EXCEPT ![p] = ga], Posts) = SumOf(g, Posts) + ga - g[p]
        /\ SumOf([t EXCEPT ![q] = ta], Posts) = SumOf(t, Posts) + ta - t[q]
    <3>1. SumOf([g EXCEPT ![p] = ga], Posts) = SumOf(g, Posts) + ga - g[p]
      <4>1. g \in [Posts -> Int] /\ ga \in Int BY <2>1
      <4> QED BY ONLY <2>0, <4>1, SumChange, p \in Posts
    <3>2. SumOf([t EXCEPT ![q] = ta], Posts) = SumOf(t, Posts) + ta - t[q]
      <4>1. t \in [Posts -> Int] /\ ta \in Int BY <2>1
      <4> QED BY ONLY <2>0, <4>1, SumChange, q \in Posts
    <3> QED BY <3>1, <3>2
  <2>4. SumOf(g, Posts) \in Int /\ SumOf(t, Posts) \in Int
    BY <2>1, SumType, BalanceAssumption
  <2>5. ga - g[p] = a /\ ta - t[q] = a BY <1>2, <1>7
  <2>6. SumOf([g EXCEPT ![p] = ga], Posts) = SumOf([t EXCEPT ![q] = ta], Posts)
    <3>1. SumOf(g, Posts) + ga - g[p] = SumOf(g, Posts) + a
      BY <1>7, <2>1, <2>4, <2>5
    <3>2. SumOf(t, Posts) + ta - t[q] = SumOf(t, Posts) + a
      BY <1>7, <2>1, <2>4, <2>5
    <3> QED BY <2>2, <2>3, <3>1, <3>2
  <2>7. [x \in Posts |-> Given(x)'] = [g EXCEPT ![p] = ga] BY <1>5
  <2>8. [x \in Posts |-> Taken(x)'] = [t EXCEPT ![q] = ta] BY <1>5
  <2>9. SumOf([x \in Posts |-> Given(x)'], Posts) = SumOf([x \in Posts |-> Taken(x)'], Posts)
    BY <2>6, <2>7, <2>8
  <2> QED BY <2>9, GivenIsTakenIs
<1>14. Recommended' BY <1>4 DEF Recommended
<1> QED BY <1>10, <1>11, <1>12, <1>13, <1>14 DEF BalanceInv

\* The moves stay, so does what they add up to.
LEMMA MovesStay ==
  ASSUME UNCHANGED moves
  PROVE  /\ \A p \in Posts : Given(p)' = Given(p) /\ Taken(p)' = Taken(p)
         /\ GivenIsTaken => GivenIsTaken'
<1>1. \A p \in Posts : Given(p)' = Given(p) /\ Taken(p)' = Taken(p) BY GivenIs
<1>2. /\ [p \in Posts |-> Given(p)'] = [p \in Posts |-> Given(p)]
      /\ [p \in Posts |-> Taken(p)'] = [p \in Posts |-> Taken(p)]
  BY <1>1
<1>3. SumOf([p \in Posts |-> Given(p)], Posts) = SumOf([p \in Posts |-> Taken(p)], Posts)
        => SumOf([p \in Posts |-> Given(p)'], Posts) = SumOf([p \in Posts |-> Taken(p)'], Posts)
  BY <1>2
<1> QED BY <1>1, <1>3, GivenIsTakenIs

LEMMA AskCapacityBalanceInv ==
  ASSUME BalanceInv, NEW p \in Posts, AskCapacity(p) PROVE BalanceInv'
<1>0. LineBalanceTypeOK BY DEF BalanceInv
<1>1. TooMuch(p) > 0 BY PendingIs DEF AskCapacity
<1> PICK a : a = TooMuch(p) OBVIOUS
<1>2. /\ capacity' = [capacity EXCEPT ![p] = a] /\ balanced = "NO"
      /\ UNCHANGED <<standard, ownTakt, studyTakt, slow, moves, balanced>>
  BY DEF AskCapacity
<1>3. \A x \in Posts : Given(x)' = Given(x) /\ Taken(x)' = Taken(x) BY <1>2, MovesStay
<1>4. \A x \in Posts : Overload(x)' = Overload(x) /\ Slack(x)' = Slack(x) BY <1>2, LoadStays
<1>5. \A x \in Posts : Given(x) \in Nat /\ Taken(x) \in Nat /\ capacity[x] \in Nat
                       /\ Overload(x) \in Nat /\ Slack(x) \in Nat
                       /\ TooMuch(x) \in Int /\ RoomLeft(x) \in Int
  BY <1>0, BalanceTypes
<1>6. capacity[p] = 0
  <2>1. TooMuch(p) # 0 BY <1>1, <1>5
  <2> QED BY <2>1 DEF BalanceInv, Exhausted
<1>7. /\ a \in Nat /\ a = Overload(p) - Given(p) BY <1>1, <1>5, <1>6 DEF TooMuch
<1>8. /\ capacity'[p] = a /\ \A x \in Posts : x # p => capacity'[x] = capacity[x]
  BY <1>0, <1>2 DEF LineBalanceTypeOK
<1>9. LineBalanceTypeOK'
  <2>1. a <= MaxSeconds BY <1>0, BalanceTypes
  <2>2. a \in Seconds BY <1>7, <2>1, BalanceAssumption DEF Seconds
  <2> QED BY <1>0, <1>2, <2>2 DEF LineBalanceTypeOK
<1>10. /\ TooMuch(p)' = 0 /\ \A x \in Posts : x # p => TooMuch(x)' = TooMuch(x)
       /\ \A x \in Posts : RoomLeft(x)' = RoomLeft(x)
  <2>1. TooMuch(p)' = 0 BY <1>3, <1>4, <1>5, <1>7, <1>8 DEF TooMuch
  <2>2. \A x \in Posts : x # p => TooMuch(x)' = TooMuch(x) BY <1>3, <1>4, <1>8 DEF TooMuch
  <2>3. \A x \in Posts : RoomLeft(x)' = RoomLeft(x) BY <1>3, <1>4 DEF RoomLeft
  <2> QED BY <2>1, <2>2, <2>3
<1>11. \A x \in Posts : RoomLeft(x) = 0
  <2>1. ASSUME NEW x \in Posts PROVE RoomLeft(x) = 0
    <3>1. ~ (RoomLeft(x) > 0) BY DEF AskCapacity, WithRoom
    <3>2. Taken(x) <= Slack(x) BY DEF BalanceInv, WithinBounds
    <3> QED BY <1>5, <3>1, <3>2 DEF RoomLeft
  <2> QED BY <2>1
<1>12. WithinBounds'
  <2>1. ASSUME NEW x \in Posts
        PROVE  Given(x)' + capacity'[x] <= Overload(x)' /\ Taken(x)' <= Slack(x)'
    <3>1. Given(x) + capacity[x] <= Overload(x) /\ Taken(x) <= Slack(x)
      BY DEF BalanceInv, WithinBounds
    <3>2. CASE x = p BY <1>3, <1>4, <1>5, <1>7, <1>8, <3>1, <3>2
    <3>3. CASE x # p BY <1>3, <1>4, <1>8, <3>1, <3>3
    <3> QED BY <3>2, <3>3
  <2> QED BY <2>1 DEF WithinBounds
<1>13. Exhausted'
  <2>1. \A x, y \in Posts : moves'[<<x, y>>] # 0 => TooMuch(x)' = 0 \/ RoomLeft(y)' = 0
    BY <1>10, <1>11
  <2>2. \A x \in Posts : capacity'[x] # 0 =>
          TooMuch(x)' = 0 /\ \A q \in Posts : RoomLeft(q)' = 0
    BY <1>8, <1>10, <1>11 DEF BalanceInv, Exhausted
  <2> QED BY <2>1, <2>2 DEF Exhausted
<1>14. GivenIsTaken' BY <1>2, MovesStay DEF BalanceInv
<1>15. Recommended' BY <1>2 DEF Recommended
<1> QED BY <1>9, <1>12, <1>13, <1>14, <1>15 DEF BalanceInv

LEMMA RecommendBalanceInv == ASSUME BalanceInv, Recommend PROVE BalanceInv'
<1>0. LineBalanceTypeOK BY DEF BalanceInv
<1>1. /\ UNCHANGED <<standard, ownTakt, studyTakt, slow, moves, capacity>> /\ Pending = {}
      /\ balanced' =
           IF \E p \in Posts : Bottleneck(p) THEN "danger"
           ELSE IF \E p \in Posts : Given(p) + capacity[p] > 0 THEN "warning" ELSE "success"
  BY DEF Recommend
<1>2. \A p \in Posts : Given(p)' = Given(p) /\ Taken(p)' = Taken(p) BY <1>1, MovesStay
<1>3. \A p \in Posts : Overload(p)' = Overload(p) /\ Slack(p)' = Slack(p)
                       /\ (Bottleneck(p)' <=> Bottleneck(p))
  BY <1>1, LoadStays
<1>4. \A p \in Posts : TooMuch(p)' = TooMuch(p) /\ RoomLeft(p)' = RoomLeft(p)
  BY <1>1, <1>2, <1>3 DEF TooMuch, RoomLeft
<1>5. \A p \in Posts : Given(p) \in Nat /\ capacity[p] \in Nat /\ Overload(p) \in Nat
  BY <1>0, BalanceTypes
<1>6. LineBalanceTypeOK' BY <1>0, <1>1 DEF LineBalanceTypeOK
<1>7. WithinBounds' BY <1>1, <1>2, <1>3 DEF BalanceInv, WithinBounds
<1>8. Exhausted' BY <1>1, <1>4 DEF BalanceInv, Exhausted
<1>9. GivenIsTaken' BY <1>1, MovesStay DEF BalanceInv
<1>10. Recommended'
  <2>1. ASSUME NEW p \in Posts PROVE TooMuch(p)' = 0
    <3>1. ~ (TooMuch(p) > 0) BY <1>1 DEF Pending
    <3>2. Given(p) + capacity[p] <= Overload(p) BY DEF BalanceInv, WithinBounds
    <3>3. TooMuch(p) = 0 BY <1>5, <3>1, <3>2 DEF TooMuch
    <3> QED BY <1>4, <3>3
  <2>2. ASSUME balanced' = "success", NEW p \in Posts
        PROVE  ~ Bottleneck(p)' /\ Given(p)' + capacity'[p] = 0
    <3>1. ~ (\E x \in Posts : Bottleneck(x)) /\ ~ (\E x \in Posts : Given(x) + capacity[x] > 0)
      BY <1>1, <2>2
    <3>2. Given(p) + capacity[p] = 0 BY <1>5, <3>1
    <3> QED BY <1>1, <1>2, <1>3, <3>1, <3>2
  <2> QED BY <2>1, <2>2 DEF Recommended
<1> QED BY <1>6, <1>7, <1>8, <1>9, <1>10 DEF BalanceInv

\* Nothing happens to the study.
LEMMA StutterBalanceInv == ASSUME BalanceInv, UNCHANGED balanceVars PROVE BalanceInv'
<1>1. UNCHANGED <<standard, ownTakt, studyTakt, slow, moves, capacity, balanced>>
  BY DEF balanceVars
<1>2. \A p \in Posts : Given(p)' = Given(p) /\ Taken(p)' = Taken(p) BY <1>1, MovesStay
<1>3. \A p \in Posts : Overload(p)' = Overload(p) /\ Slack(p)' = Slack(p)
                       /\ (Bottleneck(p)' <=> Bottleneck(p))
  BY <1>1, LoadStays
<1>4. \A p \in Posts : TooMuch(p)' = TooMuch(p) /\ RoomLeft(p)' = RoomLeft(p)
  BY <1>1, <1>2, <1>3 DEF TooMuch, RoomLeft
<1>5. LineBalanceTypeOK' BY <1>1 DEF BalanceInv, LineBalanceTypeOK
<1>6. WithinBounds' BY <1>1, <1>2, <1>3 DEF BalanceInv, WithinBounds
<1>7. Exhausted' BY <1>1, <1>4 DEF BalanceInv, Exhausted
<1>8. GivenIsTaken' BY <1>1, MovesStay DEF BalanceInv
<1>9. Recommended' BY <1>1, <1>2, <1>3, <1>4 DEF BalanceInv, Recommended
<1> QED BY <1>5, <1>6, <1>7, <1>8, <1>9 DEF BalanceInv

\* The calculation of a study keeps its bounds: each move exhausts one of its two stations,
\* and in all as much is given as is taken (_build_simulation, _build_recommendations).
THEOREM BalanceInvariance == LineBalanceSpec => []BalanceInv
<1>1. LineBalanceInit => BalanceInv BY InitBalanceInv
<1>2. BalanceInv /\ [LineBalanceNext]_balanceVars => BalanceInv'
  <2> SUFFICES ASSUME BalanceInv, [LineBalanceNext]_balanceVars PROVE BalanceInv' OBVIOUS
  <2>1. ASSUME NEW p \in Posts, NEW q \in Posts, MoveWork(p, q) PROVE BalanceInv'
    BY <2>1, MoveWorkBalanceInv
  <2>2. ASSUME NEW p \in Posts, AskCapacity(p) PROVE BalanceInv'
    BY <2>2, AskCapacityBalanceInv
  <2>3. CASE Recommend BY <2>3, RecommendBalanceInv
  <2>4. CASE UNCHANGED balanceVars BY <2>4, StutterBalanceInv
  <2> QED BY <2>1, <2>2, <2>3, <2>4 DEF LineBalanceNext
<1> QED BY <1>1, <1>2, PTL DEF LineBalanceSpec

\* Work, takts, moves and capacity stay within the bounds of the study.
THEOREM BalanceTypeCorrect == LineBalanceSpec => []LineBalanceTypeOK
<1>1. BalanceInv => LineBalanceTypeOK BY DEF BalanceInv
<1> QED BY <1>1, BalanceInvariance, PTL

LEMMA TotalsAre ==
  /\ Total(capacity) = SumOf(capacity, Posts)
  /\ Overloads = SumOf([p \in Posts |-> Overload(p)], Posts)
  /\ Slacks = SumOf([p \in Posts |-> Slack(p)], Posts)
  BY DEF Total, SumOf, Overloads, Slacks

\* For what the redistribution leaves is asked capacity, and for no more: a station that
\* asks for any finds that none has room left.
LEMMA CapacityIsRest ==
  ASSUME BalanceInv, balanced # "NO"
  PROVE  Total(capacity) = IF Overloads > Slacks THEN Overloads - Slacks ELSE 0
<1>1. IsFiniteSet(Posts) BY BalanceAssumption
<1> PICK g : g = [p \in Posts |-> Given(p)] OBVIOUS
<1> PICK t : t = [p \in Posts |-> Taken(p)] OBVIOUS
<1> PICK o : o = [p \in Posts |-> Overload(p)] OBVIOUS
<1> PICK s : s = [p \in Posts |-> Slack(p)] OBVIOUS
<1>2. \A p \in Posts : /\ g[p] \in Nat /\ t[p] \in Nat /\ o[p] \in Nat /\ s[p] \in Nat
                       /\ capacity[p] \in Nat
  BY BalanceTypes DEF BalanceInv
<1>3. \A p \in Posts : o[p] = g[p] + capacity[p] /\ t[p] <= s[p]
  <2>1. ASSUME NEW p \in Posts PROVE o[p] = g[p] + capacity[p] /\ t[p] <= s[p]
    <3>1. Overload(p) - Given(p) - capacity[p] = 0 BY DEF BalanceInv, Recommended, TooMuch
    <3>2. o[p] - g[p] - capacity[p] = 0 BY <3>1
    <3>3. t[p] <= s[p] BY DEF BalanceInv, WithinBounds
    <3> QED BY <1>2, <3>2, <3>3
  <2> QED BY <2>1
<1>4. SumOf(o, Posts) = SumOf(g, Posts) + SumOf(capacity, Posts)
  <2>1. \A p \in Posts : g[p] \in Int /\ capacity[p] \in Int /\ o[p] = g[p] + capacity[p]
    BY <1>2, <1>3
  <2> QED BY ONLY <1>1, <2>1, SumPlus
<1>5. SumOf(t, Posts) <= SumOf(s, Posts)
  <2>1. \A p \in Posts : t[p] \in Int /\ s[p] \in Int /\ t[p] <= s[p] BY <1>2, <1>3
  <2> QED BY ONLY <1>1, <2>1, SumLess
<1>6. SumOf(g, Posts) = SumOf(t, Posts) BY GivenIsTakenIs DEF BalanceInv
<1>7. /\ SumOf(g, Posts) \in Nat /\ SumOf(t, Posts) \in Nat
      /\ SumOf(o, Posts) \in Nat /\ SumOf(s, Posts) \in Nat /\ SumOf(capacity, Posts) \in Nat
  <2>1. SumOf(g, Posts) \in Nat BY ONLY <1>1, <1>2, SumNat
  <2>2. SumOf(t, Posts) \in Nat BY ONLY <1>1, <1>2, SumNat
  <2>3. SumOf(o, Posts) \in Nat BY ONLY <1>1, <1>2, SumNat
  <2>4. SumOf(s, Posts) \in Nat BY ONLY <1>1, <1>2, SumNat
  <2>5. SumOf(capacity, Posts) \in Nat BY ONLY <1>1, <1>2, SumNat
  <2> QED BY <2>1, <2>2, <2>3, <2>4, <2>5
<1>8. Total(capacity) = SumOf(capacity, Posts) /\ Overloads = SumOf(o, Posts)
      /\ Slacks = SumOf(s, Posts)
  BY TotalsAre
<1>9. CASE \E p \in Posts : capacity[p] # 0
  <2> PICK p \in Posts : capacity[p] # 0 BY <1>9
  <2>1. \A x \in Posts : s[x] = t[x]
    <3>1. ASSUME NEW x \in Posts PROVE s[x] = t[x]
      <4>1. Slack(x) - Taken(x) = 0 BY DEF BalanceInv, Exhausted, RoomLeft
      <4>2. s[x] - t[x] = 0 BY <4>1
      <4> QED BY <1>2, <4>2
    <3> QED BY <3>1
  <2>2. SumOf(s, Posts) = SumOf(t, Posts)
    <3>1. \A x \in Posts : s[x] = t[x] /\ s[x] \in Int BY <1>2, <2>1
    <3> QED BY ONLY <1>1, <3>1, SumEqual
  <2> QED BY ONLY <1>4, <1>6, <1>7, <1>8, <2>2
<1>10. CASE \A p \in Posts : capacity[p] = 0
  <2>1. SumOf(capacity, Posts) = 0 BY ONLY <1>1, <1>10, SumZero
  <2> QED BY ONLY <1>4, <1>5, <1>6, <1>7, <1>8, <2>1
<1> QED BY <1>9, <1>10

\* The stations a balanced study calls balanced are under their takt and the line's.
LEMMA BalancedIsUnderTakt ==
  ASSUME BalanceInv, balanced = "success", NEW p \in Posts
  PROVE  standard[p] <= TargetOf(p) /\ standard[p] <= TargetTakt
<1>1. standard[p] \in Nat /\ ownTakt[p] \in Nat
  BY BalanceAssumption DEF BalanceInv, LineBalanceTypeOK, Seconds
<1>2. TargetTakt \in Nat /\ (TargetTakt = 0 => standard[p] = 0) BY TaktIs DEF BalanceInv
<1>3. ~ (TargetOf(p) > 0 /\ standard[p] > TargetOf(p)) BY DEF BalanceInv, Recommended, Bottleneck
<1>4. Overload(p) = 0
  <2>1. Given(p) \in Nat /\ capacity[p] \in Nat /\ Overload(p) \in Nat
    BY BalanceTypes DEF BalanceInv
  <2>2. Given(p) + capacity[p] = 0 /\ TooMuch(p) = 0 BY DEF BalanceInv, Recommended
  <2>3. Overload(p) - Given(p) - capacity[p] = 0 BY <2>2 DEF TooMuch
  <2> QED BY <2>1, <2>2, <2>3
<1>5. standard[p] <= TargetTakt
  <2>1. CASE TargetTakt > 0 /\ standard[p] > TargetTakt
    BY <1>1, <1>2, <1>4, <2>1 DEF Overload
  <2>2. CASE ~ (TargetTakt > 0 /\ standard[p] > TargetTakt) BY <1>1, <1>2, <2>2
  <2> QED BY <2>1, <2>2
<1>6. TargetOf(p) = IF ownTakt[p] > 0 THEN ownTakt[p] ELSE TargetTakt BY DEF TargetOf
<1>7. standard[p] <= TargetOf(p) BY <1>1, <1>2, <1>3, <1>5, <1>6
<1> QED BY <1>5, <1>7

\* Station by station the loop of _build_simulation ends where its definition says: all that
\* is too much has been given or asked capacity for, and that is asked for exactly what the
\* whole line has too much.
THEOREM RedistributedHolds == LineBalanceSpec => []Redistributed
<1>1. BalanceInv => Redistributed
  <2> SUFFICES ASSUME BalanceInv, balanced # "NO"
               PROVE  /\ \A p \in Posts : Given(p) + capacity[p] = Overload(p) /\ Taken(p) <= Slack(p)
                      /\ Total(capacity) = IF Overloads > Slacks THEN Overloads - Slacks ELSE 0
                      /\ balanced = "success" =>
                           \A p \in Posts : standard[p] <= TargetOf(p) /\ standard[p] <= TargetTakt
    BY DEF Redistributed
  <2>1. ASSUME NEW p \in Posts PROVE Given(p) + capacity[p] = Overload(p) /\ Taken(p) <= Slack(p)
    <3>1. Overload(p) - Given(p) - capacity[p] = 0 BY DEF BalanceInv, Recommended, TooMuch
    <3>2. Given(p) \in Nat /\ capacity[p] \in Nat /\ Overload(p) \in Nat
      BY BalanceTypes DEF BalanceInv
    <3>3. Taken(p) <= Slack(p) BY DEF BalanceInv, WithinBounds
    <3> QED BY <3>1, <3>2, <3>3
  <2> QED BY <2>1, CapacityIsRest, BalancedIsUnderTakt
<1> QED BY <1>1, BalanceInvariance, PTL
(***************************************************************************)
(* Screens.  What a screen asks follows from its address (Asked).  Every   *)
(* page of the table asks just that, and shows each of its links on what   *)
(* the link's address asks (Grants), whatever else the table holds.  From  *)
(* this the property follows for any role; in a served page's state it is  *)
(* an invariant, as a role only loses permissions after the page is stale. *)
(***************************************************************************)
AsksFor(p) == [open |-> "module", needs |-> {p}, must |-> {}]
AsksBoth(p, q) == [open |-> "module", needs |-> {p}, must |-> {q}]
AsksOf(open) == [open |-> open, needs |-> {}, must |-> {}]

CompanyModels == {"unitofmeasure", "warehouse", "location", "companyconfig"}
Controls == {"productionplan", "productionqueueitem"}

OfPanel(m) ==
  CASE m \in {"assembly", "advanced"} -> View("serializedunit")
    [] m = "metrics" -> View("unitstationevent")
    [] m = "console" -> Add("unitstationevent")
    [] m = "station_queue" -> View("productionqueueitem")
    [] m = "genealogy" -> View("installedcomponent")
    [] m = "wms" -> View("inventorybalance")
    [] m = "edge" -> View("edgegateway")
    [] m = "eventbus" -> View("domainevent")
    [] OTHER -> View("connector")

\* A post that is not a change of its own model
OfPost(s) ==
  CASE s = <<"post", "console">> -> AsksFor(Add("unitstationevent"))
    [] s = <<"post", "stationofflineevent">> ->
         [AsksFor(Change("stationofflineevent")) EXCEPT !.needs = @ \union {Add("unitstationevent")}]
    [] s = <<"generate", "productionplan">> ->
         AsksBoth(Change("productionplan"), Add("serializedunit"))
    [] s = <<"sequence", "productionplan">> ->
         AsksBoth(Change("productionplan"), Add("productionqueueitem"))
    [] s = <<"generate", "modelmixplan">> ->
         AsksBoth(Change("modelmixplan"), Add("productionplan"))
    [] s = <<"release", "pickmission">> -> AsksBoth(View("pickmission"), Change("pickmission"))
    [] s = <<"pick", "pickmission">> -> AsksBoth(View("pickmission"), Add("inventorymovement"))
    [] s = <<"start", "kanbansignal">> -> AsksBoth(View("kanbansignal"), Add("pickmission"))
    [] s = <<"fulfill", "kanbansignal">> ->
         AsksBoth(View("kanbansignal"), Change("kanbansignal"))
    [] s = <<"scan", "console">> ->
         AsksBoth(Add("assemblymaterialconsumption"), Add("installedcomponent"))
    [] s = <<"receive", "inboundreceiptline">> -> AsksFor(Add("inventorymovement"))
    [] s = <<"ping", "edgegateway">> -> AsksFor(Add("edgecommand"))
    [] s = <<"seed", "eventtype">> -> AsksFor(Add("eventtype"))
    [] s = <<"requeue", "reconciliationrun">> -> AsksFor(Change("outboundmessage"))
    [] OTHER -> AsksFor(Change(s[2]))

\* What the screen at an address asks
Asked(s) ==
  LET m == s[2] IN
  CASE s[1] = "list" -> IF m = "user" THEN AsksOf("members")
                        ELSE IF m \in CompanyModels THEN AsksOf("company") ELSE AsksFor(View(m))
    [] s[1] = "new" -> IF m \in CompanyModels THEN AsksOf("company") ELSE AsksFor(Add(m))
    [] s[1] = "edit" -> IF m \in CompanyModels THEN AsksOf("company") ELSE AsksFor(Change(m))
    [] s[1] = "detail" -> AsksFor(IF m \in Controls THEN Change(m) ELSE View(m))
    [] s[1] = "panel" -> IF m = "home" THEN AsksOf("anyone")
                         ELSE IF m \in {"settings", "system_info"} THEN AsksOf("company")
                         ELSE AsksFor(OfPanel(m))
    [] OTHER -> OfPost(s)

Addresses == DOMAIN Catalog

\* A link on the page at s leads somewhere, and it is shown on what is asked there, as far
\* as its page has not asked for it.
Grants(s, l) ==
  /\ l.to \in Addresses
  /\ \/ l.by = "nothing"
     \/ l.to \in PromisedByAnother
     \/ l.by = "company" /\ Asked(l.to) = AsksOf("company")
     \/ l.by \in {"permission", "menu"} /\ \E p : l.tests = {p} /\ Asked(l.to) = AsksFor(p)
     \/ /\ l.by = "permission"
        /\ \E p, q : l.tests = {q} /\ Asked(l.to) = AsksBoth(p, q) /\ Asked(s) = AsksFor(p)
     \/ /\ l.by = "permissions"
        /\ \E p, q : l.tests = {p, q} /\ Asked(l.to) = AsksBoth(p, q)

\* A page asks what its address says, its links are shown on the same, and only the first
\* page is open to anyone.
Fitting(p) ==
  /\ [open |-> p.open, needs |-> p.needs, must |-> p.must] = Asked(p.at)
  /\ \A l \in p.links : Grants(p.at, l)
  /\ p.open = "anyone" => p \in HomeScreen

FitPages(S) == \A p \in S : Fitting(p)

\* What is asked, by kind of address.
LEMMA AskedByModel ==
  ASSUME NEW m, m \notin CompanyModels
  PROVE  /\ m # "user" => Asked(List(m)) = AsksFor(View(m))
         /\ Asked(<<"new", m>>) = AsksFor(Add(m))
         /\ Asked(<<"edit", m>>) = AsksFor(Change(m))
         /\ m \notin Controls => Asked(<<"detail", m>>) = AsksFor(View(m))
         /\ m \in Controls => Asked(<<"detail", m>>) = AsksFor(Change(m))
  BY DEF Asked, List

LEMMA AskedByCompany ==
  /\ Asked(List("user")) = AsksOf("members")
  /\ \A m \in {"unitofmeasure", "warehouse", "location"} :
       /\ Asked(List(m)) = AsksOf("company")
       /\ Asked(<<"new", m>>) = AsksOf("company")
       /\ Asked(<<"edit", m>>) = AsksOf("company")
  /\ Asked(<<"edit", "companyconfig">>) = AsksOf("company")
  BY DEF Asked, List, CompanyModels

LEMMA AskedByPanel ==
  /\ Asked(Home) = AsksOf("anyone")
  /\ Asked(<<"panel", "settings">>) = AsksOf("company")
  /\ Asked(<<"panel", "system_info">>) = AsksOf("company")
  /\ Asked(<<"panel", "assembly">>) = AsksFor(View("serializedunit"))
  /\ Asked(<<"panel", "advanced">>) = AsksFor(View("serializedunit"))
  /\ Asked(<<"panel", "metrics">>) = AsksFor(View("unitstationevent"))
  /\ Asked(<<"panel", "console">>) = AsksFor(Add("unitstationevent"))
  /\ Asked(<<"panel", "station_queue">>) = AsksFor(View("productionqueueitem"))
  /\ Asked(<<"panel", "genealogy">>) = AsksFor(View("installedcomponent"))
  /\ Asked(<<"panel", "wms">>) = AsksFor(View("inventorybalance"))
  /\ Asked(<<"panel", "edge">>) = AsksFor(View("edgegateway"))
  /\ Asked(<<"panel", "eventbus">>) = AsksFor(View("domainevent"))
  /\ Asked(<<"panel", "connect">>) = AsksFor(View("connector"))
  BY DEF Asked, OfPanel, Home

LEMMA AskedByPost ==
  /\ Asked(<<"post", "console">>) = AsksFor(Add("unitstationevent"))
  /\ Asked(<<"generate", "productionplan">>) =
       AsksBoth(Change("productionplan"), Add("serializedunit"))
  /\ Asked(<<"sequence", "productionplan">>) =
       AsksBoth(Change("productionplan"), Add("productionqueueitem"))
  /\ Asked(<<"generate", "modelmixplan">>) =
       AsksBoth(Change("modelmixplan"), Add("productionplan"))
  /\ Asked(<<"release", "pickmission">>) = AsksBoth(View("pickmission"), Change("pickmission"))
  /\ Asked(<<"pick", "pickmission">>) = AsksBoth(View("pickmission"), Add("inventorymovement"))
  /\ Asked(<<"start", "kanbansignal">>) = AsksBoth(View("kanbansignal"), Add("pickmission"))
  /\ Asked(<<"fulfill", "kanbansignal">>) =
       AsksBoth(View("kanbansignal"), Change("kanbansignal"))
  /\ Asked(<<"scan", "console">>) =
       AsksBoth(Add("assemblymaterialconsumption"), Add("installedcomponent"))
  /\ Asked(<<"receive", "inboundreceiptline">>) = AsksFor(Add("inventorymovement"))
  /\ Asked(<<"ping", "edgegateway">>) = AsksFor(Add("edgecommand"))
  /\ Asked(<<"seed", "eventtype">>) = AsksFor(Add("eventtype"))
  /\ Asked(<<"requeue", "reconciliationrun">>) = AsksFor(Change("outboundmessage"))
  BY DEF Asked, OfPost

\* The other posts change what they are about.
LEMMA AskedByChange ==
  /\ \A m \in {"productionplan", "productionqueueitem", "linebalancestudy", "andonsignal",
               "productiondowntime", "modelmixplan", "assemblykit"} :
       Asked(<<"post", m>>) = AsksFor(Change(m))
  /\ Asked(<<"review", "qualitygate">>) = AsksFor(Change("qualitygate"))
  /\ Asked(<<"control", "reworkorder">>) = AsksFor(Change("reworkorder"))
  /\ Asked(<<"rotate", "edgegateway">>) = AsksFor(Change("edgegateway"))
  /\ Asked(<<"retry", "edgesignal">>) = AsksFor(Change("edgesignal"))
  /\ Asked(<<"retry", "eventdelivery">>) = AsksFor(Change("eventdelivery"))
  /\ Asked(<<"dispatch", "eventdelivery">>) = AsksFor(Change("eventdelivery"))
  /\ Asked(<<"rebuild", "indicatorsnapshot">>) = AsksFor(Change("indicatorsnapshot"))
  /\ Asked(<<"flush", "outboundmessage">>) = AsksFor(Change("outboundmessage"))
  /\ Asked(<<"send", "outboundmessage">>) = AsksFor(Change("outboundmessage"))
  BY DEF Asked, OfPost

\* Links that are sound wherever they lead to what they test.
LEMMA PlainGrants == \A s : \A to \in Addresses : Grants(s, Plain(to))
  BY DEF Grants, Plain

LEMMA LinkGrants ==
  \A s, p : \A to \in Addresses :
    Asked(to) = AsksFor(p) => Grants(s, Link(to, p)) /\ Grants(s, Menu(to, p))
  BY DEF Grants, Link, Menu

LEMMA GuardedGrants ==
  \A s, p, q : \A to \in Addresses :
    Asked(to) = AsksBoth(p, q) /\ Asked(s) = AsksFor(p) => Grants(s, Link(to, q))
  BY DEF Grants, Link

LEMMA PromisedGrants ==
  \A s, p : \A to \in Addresses : to \in PromisedByAnother =>
    Grants(s, Link(to, p)) /\ Grants(s, Menu(to, p)) /\ Grants(s, AnyOf(to, p))
      /\ Grants(s, AdminLink(to))
  BY DEF Grants, Link, Menu, AnyOf, AdminLink

LEMMA AdminGrants ==
  \A s : \A to \in Addresses : Asked(to) = AsksOf("company") => Grants(s, AdminLink(to))
  BY DEF Grants, AdminLink

\* A screen fits if its links are sound.
LEMMA ScreenFits ==
  ASSUME NEW s, NEW p, NEW links, Asked(s) = AsksFor(p), \A l \in links : Grants(s, l)
  PROVE  Fitting(Screen(s, p, links))
  BY DEF Fitting, Screen, Demanding, AsksFor

LEMMA UnlistedFits ==
  ASSUME NEW s, NEW open, NEW links, Asked(s) = AsksOf(open), \A l \in links : Grants(s, l),
         open = "anyone" => Unlisted(s, open, links) \in HomeScreen
  PROVE  Fitting(Unlisted(s, open, links))
  BY DEF Fitting, Unlisted, AsksOf

LEMMA PostFits ==
  /\ \A s, p : Asked(s) = AsksFor(p) => FitPages(Post(s, p))
  /\ \A s, p, q : Asked(s) = AsksBoth(p, q) => FitPages(GuardedPost(s, p, q))
  BY ScreenFits DEF FitPages, Post, GuardedPost, Fitting, Demanding, AsksBoth

LEMMA FitUnion == \A S, T : FitPages(S) /\ FitPages(T) => FitPages(S \union T)
  BY DEF FitPages

\* The table answers at the addresses of its pages.
Served(S) == \A p \in S : p.at \in Addresses
ServesForms(m) == <<"new", m>> \in Addresses /\ <<"edit", m>> \in Addresses
ServesAll(m) == List(m) \in Addresses /\ ServesForms(m)

LEMMA PagesServed == Served(Pages)
  BY DEF Served, Addresses, Catalog

LEMMA ServedParts == \A S, T : Served(S \union T) => Served(S) /\ Served(T)
  BY DEF Served

LEMMA AreasServed ==
  /\ Served(AssemblyScreens) /\ Served(WmsScreens) /\ Served(BridgeScreens)
  /\ Served(SettingsScreens) /\ Served(StoreScreens) /\ Served(UserScreen)
  /\ Served(HomeScreen)
  BY PagesServed DEF Served, Pages

LEMMA PiecesServed ==
  /\ Served(PanelScreens) /\ Served(ConsoleScreen) /\ Served(PlantScreens)
  /\ Served(UnitScreens) /\ Served(OrderScreens) /\ Served(PlanListScreens)
  /\ Served(PlanControlScreen) /\ Served(QueueListScreens) /\ Served(QueueControlScreens)
  /\ Served(BalanceScreens) /\ Served(AdvancedScreen) /\ Served(AndonListScreens)
  /\ Served(AndonControlScreen) /\ Served(DowntimeScreens) /\ Served(OfflineScreens)
  /\ Served(MixScreens) /\ Served(MixItemScreens) /\ Served(ExternalKitScreens)
  /\ Served(ProductScreens) /\ Served(LineScreens) /\ Served(RouteScreens)
  /\ Served(StepScreens) /\ Served(RecordScreens) /\ Served(ComponentScreens)
  /\ Served(QualityScreens) /\ Served(ReworkScreens) /\ Served(ReleaseScreens)
  /\ Served(MaterialScreens) /\ Served(LocationProfileScreens) /\ Served(ReceiptScreens)
  /\ Served(MovementScreens) /\ Served(LineKitScreens) /\ Served(PickingScreens)
  /\ Served(KanbanScreens) /\ Served(ScanScreens)
  /\ Served(GatewayScreens) /\ Served(DeviceScreens) /\ Served(SignalScreens)
  /\ Served(EventScreens) /\ Served(SubscriptionScreens) /\ Served(ConnectorScreens)
  /\ Served(ContractScreens) /\ Served(MessageScreens) /\ Served(MessagePosts)
<1>1. /\ Served(PanelScreens) /\ Served(ConsoleScreen) /\ Served(PlantScreens)
      /\ Served(UnitScreens) /\ Served(OrderScreens) /\ Served(PlanListScreens)
      /\ Served(PlanControlScreen) /\ Served(QueueListScreens)
      /\ Served(QueueControlScreens) /\ Served(BalanceScreens) /\ Served(AdvancedScreen)
      /\ Served(AndonListScreens) /\ Served(AndonControlScreen) /\ Served(DowntimeScreens)
      /\ Served(OfflineScreens) /\ Served(MixScreens) /\ Served(MixItemScreens)
      /\ Served(ExternalKitScreens) /\ Served(ProductScreens) /\ Served(LineScreens)
      /\ Served(RouteScreens) /\ Served(StepScreens) /\ Served(RecordScreens)
      /\ Served(ComponentScreens) /\ Served(QualityScreens) /\ Served(ReworkScreens)
      /\ Served(ReleaseScreens)
  BY AreasServed DEF Served, AssemblyScreens
<1>2. /\ Served(MaterialScreens) /\ Served(LocationProfileScreens) /\ Served(ReceiptScreens)
      /\ Served(MovementScreens) /\ Served(LineKitScreens) /\ Served(PickingScreens)
      /\ Served(KanbanScreens) /\ Served(ScanScreens)
  BY AreasServed DEF Served, WmsScreens
<1>3. /\ Served(GatewayScreens) /\ Served(DeviceScreens) /\ Served(SignalScreens)
      /\ Served(EventScreens) /\ Served(SubscriptionScreens) /\ Served(ConnectorScreens)
      /\ Served(ContractScreens) /\ Served(MessageScreens) /\ Served(MessagePosts)
  BY AreasServed DEF Served, BridgeScreens
<1> QED
  BY <1>1, <1>2, <1>3

LEMMA FormsServe == \A m, back : Served(Forms(m, back)) => ServesForms(m)
  BY DEF Served, ServesForms, Forms, Screen, Demanding

LEMMA ListServes == \A m, links : Served({Screen(List(m), View(m), links)}) => List(m) \in Addresses
  BY DEF Served, Screen, Demanding

LEMMA ListingServes == \A m, more : Served(Listing(m, more)) => ServesAll(m)
  BY ServedParts, ListServes, FormsServe DEF Listing, ServesAll

LEMMA OpenListingServes == \A m, more : Served(OpenListing(m, more)) => ServesAll(m)
  BY ServedParts, ListServes, FormsServe DEF OpenListing, ServesAll

LEMMA ReadOnlyServes == \A m, more : Served(ReadOnly(m, more)) => List(m) \in Addresses
  BY DEF Served, ReadOnly, Screen, Demanding

LEMMA DetailServes == \A m, links : Served(Detail(m, links)) => <<"detail", m>> \in Addresses
  BY DEF Served, Detail, Screen, Demanding

LEMMA PostServes == \A s, p : Served(Post(s, p)) => s \in Addresses
  BY DEF Served, Post, Screen, Demanding

LEMMA GuardedPostServes == \A s, p, q : Served(GuardedPost(s, p, q)) => s \in Addresses
  BY DEF Served, GuardedPost, Demanding

LEMMA ScreenServes ==
  \A S, s, p, links : Served(S) /\ Screen(s, p, links) \in S => s \in Addresses
  BY DEF Served, Screen, Demanding

LEMMA ControlledServes ==
  \A m, links : Served(Controlled(m, links)) =>
                  <<"detail", m>> \in Addresses /\ <<"post", m>> \in Addresses
  BY ServedParts, DetailServes, PostServes DEF Controlled

LEMMA DemandingServes ==
  \A S, s, needs, must, links :
    Served(S) /\ Demanding(s, needs, must, links) \in S => s \in Addresses
  BY DEF Served, Demanding

\* The models of the assembly with a list and both forms, those with a detail, the panels
AssemblyEdited ==
  {"plant", "plantarea", "serializedunit", "productionorder", "productionplan",
   "productionqueueitem", "linebalancestudy", "andonsignal", "productiondowntime",
   "modelmixplan", "externalmaterialkit", "assembledproduct", "productversion",
   "assemblyline", "assemblystation", "assemblyroute", "assemblyroutestep",
   "routestepparameter", "routestepcomponentrequirement", "unitstationevent",
   "productionmeasurement", "installedcomponent", "qualitygate", "reworkorder",
   "releaseapproval", "equipmentintegration"}
AssemblyDetailed ==
  {"serializedunit", "productionorder", "productionplan", "productionqueueitem",
   "linebalancestudy", "andonsignal", "productiondowntime", "stationofflineevent",
   "modelmixplan"}
AssemblyPanels == {"assembly", "metrics", "console", "station_queue", "advanced", "genealogy"}

LEMMA AssemblyLists ==
  /\ \A m \in AssemblyEdited : ServesAll(m)
  /\ List("stationofflineevent") \in Addresses
  /\ <<"new", "stationofflineevent">> \in Addresses
  /\ ServesForms("modelmixplanitem")
<1>1. Served(PlantScreens) =>
        ServesAll("plant") /\ ServesAll("plantarea")
  BY ServedParts, ListingServes DEF PlantScreens
<1>2. Served(UnitScreens) =>
        ServesAll("serializedunit")
  BY ServedParts, ListingServes DEF UnitScreens
<1>3. Served(OrderScreens) =>
        ServesAll("productionorder")
  BY ServedParts, ListingServes DEF OrderScreens
<1>4. Served(PlanListScreens) =>
        ServesAll("productionplan")
  BY ListingServes DEF PlanListScreens
<1>5. Served(QueueListScreens) =>
        ServesAll("productionqueueitem")
  BY ListingServes DEF QueueListScreens
<1>6. Served(BalanceScreens) =>
        ServesAll("linebalancestudy")
  BY ServedParts, ListingServes DEF BalanceScreens
<1>7. Served(AndonListScreens) =>
        ServesAll("andonsignal")
  BY ListingServes DEF AndonListScreens
<1>8. Served(DowntimeScreens) =>
        ServesAll("productiondowntime")
  BY ServedParts, ListingServes DEF DowntimeScreens
<1>9. Served(MixScreens) =>
        ServesAll("modelmixplan")
  BY ServedParts, ListingServes DEF MixScreens
<1>10. Served(ExternalKitScreens) =>
         ServesAll("externalmaterialkit")
  BY ListingServes DEF ExternalKitScreens
<1>11. Served(ProductScreens) =>
         ServesAll("assembledproduct") /\ ServesAll("productversion")
  BY ServedParts, ListingServes DEF ProductScreens
<1>12. Served(LineScreens) =>
         ServesAll("assemblyline") /\ ServesAll("assemblystation")
  BY ServedParts, ListingServes DEF LineScreens
<1>13. Served(RouteScreens) =>
         ServesAll("assemblyroute") /\ ServesAll("assemblyroutestep")
  BY ServedParts, ListingServes DEF RouteScreens
<1>14. Served(StepScreens) =>
         ServesAll("routestepparameter") /\ ServesAll("routestepcomponentrequirement")
  BY ServedParts, ListingServes DEF StepScreens
<1>15. Served(RecordScreens) =>
         ServesAll("unitstationevent") /\ ServesAll("productionmeasurement")
  BY ServedParts, ListingServes DEF RecordScreens
<1>16. Served(ComponentScreens) =>
         ServesAll("installedcomponent")
  BY ServedParts, ListingServes DEF ComponentScreens
<1>17. Served(QualityScreens) =>
         ServesAll("qualitygate")
  BY ServedParts, ListingServes DEF QualityScreens
<1>18. Served(ReworkScreens) =>
         ServesAll("reworkorder")
  BY ServedParts, ListingServes DEF ReworkScreens
<1>19. Served(ReleaseScreens) =>
         ServesAll("releaseapproval") /\ ServesAll("equipmentintegration")
  BY ServedParts, ListingServes DEF ReleaseScreens
<1>20. Served(OfflineScreens) =>
         List("stationofflineevent") \in Addresses /\ <<"new", "stationofflineevent">> \in Addresses
  BY ServedParts, ScreenServes DEF OfflineScreens
<1>21. Served(MixItemScreens) =>
         ServesForms("modelmixplanitem")
  BY FormsServe DEF MixItemScreens
<1> QED
  BY PiecesServed, <1>1, <1>2, <1>3, <1>4, <1>5, <1>6, <1>7, <1>8, <1>9, <1>10, <1>11, <1>12, <1>13,
     <1>14, <1>15, <1>16, <1>17, <1>18, <1>19, <1>20, <1>21 DEF AssemblyEdited

LEMMA AssemblyOthers ==
  /\ \A m \in AssemblyDetailed : <<"detail", m>> \in Addresses
  /\ \A m \in AssemblyPanels : <<"panel", m>> \in Addresses
  /\ \A m \in {"console", "productionplan", "productionqueueitem", "linebalancestudy",
               "andonsignal", "productiondowntime", "stationofflineevent", "modelmixplan"} :
       <<"post", m>> \in Addresses
  /\ \A m \in {"productionplan", "modelmixplan"} : <<"generate", m>> \in Addresses
  /\ <<"sequence", "productionplan">> \in Addresses
  /\ <<"review", "qualitygate">> \in Addresses
  /\ <<"control", "reworkorder">> \in Addresses
<1>1. Served(PanelScreens) =>
        <<"panel", "assembly">> \in Addresses /\ <<"panel", "metrics">> \in Addresses
  BY ScreenServes DEF PanelScreens
<1>2. Served(ConsoleScreen) =>
        /\ <<"panel", "console">> \in Addresses /\ <<"post", "console">> \in Addresses
  BY ServedParts, ScreenServes, PostServes DEF ConsoleScreen
<1>3. Served(UnitScreens) =>
        <<"detail", "serializedunit">> \in Addresses
  BY ServedParts, DetailServes DEF UnitScreens
<1>4. Served(OrderScreens) =>
        <<"detail", "productionorder">> \in Addresses
  BY ServedParts, DetailServes DEF OrderScreens
<1>5. Served(PlanControlScreen) =>
        /\ <<"detail", "productionplan">> \in Addresses
        /\ <<"post", "productionplan">> \in Addresses
        /\ <<"generate", "productionplan">> \in Addresses
        /\ <<"sequence", "productionplan">> \in Addresses
  BY ServedParts, ScreenServes, PostServes, GuardedPostServes DEF PlanControlScreen
<1>6. Served(QueueControlScreens) =>
        /\ <<"detail", "productionqueueitem">> \in Addresses
        /\ <<"post", "productionqueueitem">> \in Addresses
        /\ <<"panel", "station_queue">> \in Addresses
  BY ServedParts, ScreenServes, PostServes DEF QueueControlScreens
<1>7. Served(BalanceScreens) =>
        /\ <<"detail", "linebalancestudy">> \in Addresses
        /\ <<"post", "linebalancestudy">> \in Addresses
  BY ServedParts, DetailServes, PostServes DEF BalanceScreens
<1>8. Served(AdvancedScreen) =>
        <<"panel", "advanced">> \in Addresses
  BY ScreenServes DEF AdvancedScreen
<1>9. Served(AndonControlScreen) =>
        <<"detail", "andonsignal">> \in Addresses /\ <<"post", "andonsignal">> \in Addresses
  BY ServedParts, ControlledServes DEF AndonControlScreen
<1>10. Served(DowntimeScreens) =>
         /\ <<"detail", "productiondowntime">> \in Addresses
         /\ <<"post", "productiondowntime">> \in Addresses
  BY ServedParts, ControlledServes DEF DowntimeScreens
<1>11. Served(OfflineScreens) =>
         /\ <<"detail", "stationofflineevent">> \in Addresses
         /\ <<"post", "stationofflineevent">> \in Addresses
  BY ServedParts, DetailServes, DemandingServes DEF OfflineScreens
<1>12. Served(MixScreens) =>
         /\ <<"detail", "modelmixplan">> \in Addresses
         /\ <<"post", "modelmixplan">> \in Addresses
         /\ <<"generate", "modelmixplan">> \in Addresses
  BY ServedParts, ControlledServes, GuardedPostServes DEF MixScreens
<1>13. Served(ComponentScreens) =>
         <<"panel", "genealogy">> \in Addresses
  BY ServedParts, ScreenServes DEF ComponentScreens
<1>14. Served(QualityScreens) =>
         <<"review", "qualitygate">> \in Addresses
  BY ServedParts, ScreenServes DEF QualityScreens
<1>15. Served(ReworkScreens) =>
         <<"control", "reworkorder">> \in Addresses
  BY ServedParts, ScreenServes DEF ReworkScreens
<1> QED
  BY PiecesServed, <1>1, <1>2, <1>3, <1>4, <1>5, <1>6, <1>7, <1>8, <1>9, <1>10, <1>11, <1>12, <1>13,
     <1>14, <1>15 DEF AssemblyDetailed, AssemblyPanels

LEMMA WarehouseServes ==
  /\ \A m \in {"materialcategory", "material", "wmslocationprofile", "inboundreceipt",
               "assemblykit", "replenishmentrule"} : ServesAll(m)
  /\ \A m \in {"inventorybalance", "inventorymovement", "pickmission", "kanbansignal",
               "assemblymaterialconsumption"} : List(m) \in Addresses
  /\ \A m \in {"inboundreceiptline", "inventorymovement", "assemblykitline", "pickmission",
               "picktask", "kanbansignal"} : <<"new", m>> \in Addresses
  /\ \A m \in {"inboundreceipt", "assemblykit", "pickmission", "kanbansignal"} :
       <<"detail", m>> \in Addresses
  /\ <<"panel", "wms">> \in Addresses
  /\ <<"receive", "inboundreceiptline">> \in Addresses
  /\ <<"post", "assemblykit">> \in Addresses
  /\ <<"release", "pickmission">> \in Addresses
  /\ <<"pick", "pickmission">> \in Addresses
  /\ <<"start", "kanbansignal">> \in Addresses
  /\ <<"fulfill", "kanbansignal">> \in Addresses
  /\ <<"scan", "console">> \in Addresses
<1>1. Served(MaterialScreens) =>
        /\ <<"panel", "wms">> \in Addresses
        /\ ServesAll("materialcategory") /\ ServesAll("material")
  BY ServedParts, OpenListingServes, ScreenServes DEF MaterialScreens
<1>2. Served(LocationProfileScreens) =>
        ServesAll("wmslocationprofile")
  BY OpenListingServes DEF LocationProfileScreens
<1>3. Served(ReceiptScreens) =>
        /\ ServesAll("inboundreceipt") /\ <<"detail", "inboundreceipt">> \in Addresses
        /\ <<"new", "inboundreceiptline">> \in Addresses
        /\ <<"receive", "inboundreceiptline">> \in Addresses
  BY ServedParts, OpenListingServes, DetailServes, ScreenServes
     DEF ReceiptScreens
<1>4. Served(MovementScreens) =>
        /\ List("inventorybalance") \in Addresses /\ List("inventorymovement") \in Addresses
        /\ <<"new", "inventorymovement">> \in Addresses
  BY ServedParts, ReadOnlyServes, ScreenServes DEF MovementScreens
<1>5. Served(LineKitScreens) =>
        /\ ServesAll("assemblykit") /\ <<"detail", "assemblykit">> \in Addresses
        /\ <<"new", "assemblykitline">> \in Addresses /\ <<"post", "assemblykit">> \in Addresses
  BY ServedParts, OpenListingServes, DetailServes, ScreenServes, PostServes
     DEF LineKitScreens
<1>6. Served(PickingScreens) =>
        /\ List("pickmission") \in Addresses /\ <<"detail", "pickmission">> \in Addresses
        /\ <<"new", "pickmission">> \in Addresses /\ <<"new", "picktask">> \in Addresses
        /\ <<"release", "pickmission">> \in Addresses
        /\ <<"pick", "pickmission">> \in Addresses
  BY ServedParts, ReadOnlyServes, DetailServes, ScreenServes, GuardedPostServes
     DEF PickingScreens
<1>7. Served(KanbanScreens) =>
        /\ ServesAll("replenishmentrule") /\ List("kanbansignal") \in Addresses
        /\ <<"new", "kanbansignal">> \in Addresses /\ <<"detail", "kanbansignal">> \in Addresses
        /\ <<"start", "kanbansignal">> \in Addresses
        /\ <<"fulfill", "kanbansignal">> \in Addresses
  BY ServedParts, OpenListingServes, ReadOnlyServes, DetailServes, ScreenServes,
     GuardedPostServes DEF KanbanScreens
<1>8. Served(ScanScreens) =>
        /\ List("assemblymaterialconsumption") \in Addresses
        /\ <<"scan", "console">> \in Addresses
  BY ServedParts, ReadOnlyServes, GuardedPostServes DEF ScanScreens
<1> QED
  BY PiecesServed, <1>1, <1>2, <1>3, <1>4, <1>5, <1>6, <1>7, <1>8 DEF ServesAll, ServesForms

LEMMA BridgeServes ==
  /\ \A m \in {"edgegateway", "edgedevice", "edgesignalrule", "eventtype",
               "eventsubscription", "connector", "connectorcontract"} : ServesAll(m)
  /\ \A m \in {"edgesignal", "edgehealthcheck", "edgecommand", "domainevent",
               "eventdelivery", "indicatorsnapshot", "outboundmessage", "inboundmessage",
               "reconciliationrun"} : List(m) \in Addresses
  /\ \A m \in {"edgecommand", "reconciliationrun"} : <<"new", m>> \in Addresses
  /\ \A m \in {"edgegateway", "edgesignal", "domainevent", "connector", "outboundmessage",
               "reconciliationrun"} : <<"detail", m>> \in Addresses
  /\ \A m \in {"edge", "eventbus", "connect"} : <<"panel", m>> \in Addresses
  /\ <<"rotate", "edgegateway">> \in Addresses
  /\ <<"ping", "edgegateway">> \in Addresses
  /\ <<"retry", "edgesignal">> \in Addresses
  /\ <<"dispatch", "eventdelivery">> \in Addresses
  /\ <<"retry", "eventdelivery">> \in Addresses
  /\ <<"seed", "eventtype">> \in Addresses
  /\ <<"rebuild", "indicatorsnapshot">> \in Addresses
  /\ <<"flush", "outboundmessage">> \in Addresses
  /\ <<"send", "outboundmessage">> \in Addresses
  /\ <<"requeue", "reconciliationrun">> \in Addresses
<1>1. Served(GatewayScreens) =>
        /\ <<"panel", "edge">> \in Addresses /\ ServesAll("edgegateway")
        /\ <<"detail", "edgegateway">> \in Addresses
        /\ <<"rotate", "edgegateway">> \in Addresses /\ <<"ping", "edgegateway">> \in Addresses
  BY ServedParts, OpenListingServes, DetailServes, ScreenServes, PostServes
     DEF GatewayScreens
<1>2. Served(DeviceScreens) =>
        ServesAll("edgedevice") /\ ServesAll("edgesignalrule")
  BY ServedParts, OpenListingServes DEF DeviceScreens
<1>3. Served(SignalScreens) =>
        /\ List("edgesignal") \in Addresses /\ <<"detail", "edgesignal">> \in Addresses
        /\ <<"retry", "edgesignal">> \in Addresses /\ List("edgehealthcheck") \in Addresses
        /\ List("edgecommand") \in Addresses /\ <<"new", "edgecommand">> \in Addresses
  BY ServedParts, ReadOnlyServes, DetailServes, ScreenServes, PostServes
     DEF SignalScreens
<1>4. Served(EventScreens) =>
        /\ <<"panel", "eventbus">> \in Addresses /\ ServesAll("eventtype")
        /\ List("domainevent") \in Addresses /\ <<"detail", "domainevent">> \in Addresses
  BY ServedParts, OpenListingServes, ReadOnlyServes, DetailServes, ScreenServes
     DEF EventScreens
<1>5. Served(SubscriptionScreens) =>
        /\ ServesAll("eventsubscription") /\ List("eventdelivery") \in Addresses
        /\ List("indicatorsnapshot") \in Addresses
        /\ <<"dispatch", "eventdelivery">> \in Addresses
        /\ <<"retry", "eventdelivery">> \in Addresses
        /\ <<"seed", "eventtype">> \in Addresses
        /\ <<"rebuild", "indicatorsnapshot">> \in Addresses
  BY ServedParts, OpenListingServes, ReadOnlyServes, PostServes
     DEF SubscriptionScreens
<1>6. Served(ConnectorScreens) =>
        /\ <<"panel", "connect">> \in Addresses /\ ServesAll("connector")
        /\ <<"detail", "connector">> \in Addresses
  BY ServedParts, OpenListingServes, DetailServes, ScreenServes
     DEF ConnectorScreens
<1>7. Served(ContractScreens) =>
        ServesAll("connectorcontract")
  BY OpenListingServes DEF ContractScreens
<1>8. Served(MessageScreens) =>
        /\ List("outboundmessage") \in Addresses /\ <<"detail", "outboundmessage">> \in Addresses
        /\ List("inboundmessage") \in Addresses /\ List("reconciliationrun") \in Addresses
        /\ <<"detail", "reconciliationrun">> \in Addresses
  BY ServedParts, ReadOnlyServes, DetailServes DEF MessageScreens
<1>9. Served(MessagePosts) =>
        /\ <<"new", "reconciliationrun">> \in Addresses
        /\ <<"flush", "outboundmessage">> \in Addresses
        /\ <<"send", "outboundmessage">> \in Addresses
        /\ <<"requeue", "reconciliationrun">> \in Addresses
  BY ServedParts, ScreenServes, PostServes DEF MessagePosts
<1> QED
  BY PiecesServed, <1>1, <1>2, <1>3, <1>4, <1>5, <1>6, <1>7, <1>8, <1>9 DEF ServesAll, ServesForms

LEMMA CompanyServes ==
  /\ \A m \in {"unitofmeasure", "warehouse", "location"} : ServesAll(m)
  /\ \A m \in {"settings", "system_info", "home"} : <<"panel", m>> \in Addresses
  /\ <<"edit", "companyconfig">> \in Addresses
  /\ List("user") \in Addresses
<1>1. ASSUME NEW m, Served(CompanyListing(m))
      PROVE  ServesAll(m)
  BY <1>1 DEF Served, CompanyListing, CompanyScreen, Unlisted, ServesAll, ServesForms
<1>2. /\ Served(CompanyListing("unitofmeasure")) /\ Served(CompanyListing("warehouse"))
      /\ Served(CompanyListing("location"))
  BY AreasServed DEF Served, StoreScreens
<1>3. /\ <<"panel", "settings">> \in Addresses /\ <<"panel", "system_info">> \in Addresses
      /\ <<"edit", "companyconfig">> \in Addresses
  BY AreasServed DEF Served, SettingsScreens, CompanyScreen, Unlisted
<1>4. List("user") \in Addresses /\ Home \in Addresses
  BY AreasServed DEF Served, UserScreen, HomeScreen, Unlisted
<1> QED
  BY PiecesServed, <1>1, <1>2, <1>3, <1>4 DEF Home

\* The links of a page at s are honest: they are shown on what their screens ask.
Honest(s, links) == \A l \in links : Grants(s, l)

\* A model whose screens ask for its own permissions
OfModule(m) == m \notin CompanyModels /\ m # "user"

LEMMA SoundUnion == \A s, S, T : Honest(s, S) /\ Honest(s, T) => Honest(s, S \union T)
  BY DEF Honest

LEMMA NoLinksSound == \A s : Honest(s, {})
  BY DEF Honest

\* The links that lead to a model's screens on the permission they ask for
LEMMA NewGrants ==
  \A s, m : OfModule(m) /\ <<"new", m>> \in Addresses => Grants(s, Link(<<"new", m>>, Add(m)))
  BY AskedByModel, LinkGrants DEF OfModule

LEMMA EditGrants ==
  \A s, m : OfModule(m) /\ <<"edit", m>> \in Addresses =>
              Grants(s, Link(<<"edit", m>>, Change(m)))
  BY AskedByModel, LinkGrants DEF OfModule

LEMMA ListGrants ==
  \A s, m : OfModule(m) /\ List(m) \in Addresses =>
              Grants(s, Link(List(m), View(m))) /\ Grants(s, Viewed(m))
  BY AskedByModel, LinkGrants DEF OfModule, Viewed

LEMMA FormsFit ==
  \A m, back : OfModule(m) /\ back \in Addresses => FitPages(Forms(m, back))
<1> SUFFICES ASSUME NEW m, NEW back, OfModule(m), back \in Addresses
             PROVE  FitPages(Forms(m, back))
  OBVIOUS
<1>1. Asked(<<"new", m>>) = AsksFor(Add(m)) /\ Asked(<<"edit", m>>) = AsksFor(Change(m))
  BY AskedByModel DEF OfModule
<1>2. \A s : \A l \in {Plain(back)} : Grants(s, l)
  BY PlainGrants
<1>3. Fitting(Screen(<<"new", m>>, Add(m), {Plain(back)}))
  BY <1>1, <1>2, ScreenFits
<1>4. Fitting(Screen(<<"edit", m>>, Change(m), {Plain(back)}))
  BY <1>1, <1>2, ScreenFits
<1> QED
  BY <1>3, <1>4 DEF FitPages, Forms

LEMMA ListFits ==
  \A m, links : OfModule(m) /\ Honest(List(m), links) =>
                  FitPages({Screen(List(m), View(m), links)})
<1> SUFFICES ASSUME NEW m, NEW links, OfModule(m), Honest(List(m), links)
             PROVE  Fitting(Screen(List(m), View(m), links))
  BY DEF FitPages
<1> QED
  BY AskedByModel, ScreenFits DEF OfModule, Honest

LEMMA ListingFits ==
  \A m, more : OfModule(m) /\ ServesAll(m) /\ Honest(List(m), more) =>
                 FitPages(Listing(m, more))
<1> SUFFICES ASSUME NEW m, NEW more, OfModule(m), ServesAll(m), Honest(List(m), more)
             PROVE  FitPages(Listing(m, more))
  OBVIOUS
<1> DEFINE basic == {Link(<<"new", m>>, Add(m)), Link(<<"edit", m>>, Change(m))}
<1>1. Honest(List(m), basic)
  BY NewGrants, EditGrants DEF Honest, ServesAll, ServesForms
<1>2. FitPages(Forms(m, List(m)))
  BY FormsFit DEF ServesAll
<1> HIDE DEF basic
<1>3. FitPages({Screen(List(m), View(m), basic \union more)})
  BY <1>1, SoundUnion, ListFits
<1> QED
  BY <1>2, <1>3, FitUnion DEF Listing, basic

LEMMA OpenListingFits ==
  \A m, more : OfModule(m) /\ ServesAll(m) /\ Honest(List(m), more) =>
                 FitPages(OpenListing(m, more))
<1> SUFFICES ASSUME NEW m, NEW more, OfModule(m), ServesAll(m), Honest(List(m), more)
             PROVE  FitPages(OpenListing(m, more))
  OBVIOUS
<1> DEFINE basic == {Link(<<"new", m>>, Add(m)), Plain(<<"edit", m>>)}
<1>1. Honest(List(m), basic)
  BY NewGrants, PlainGrants DEF Honest, ServesAll, ServesForms
<1>2. FitPages(Forms(m, List(m)))
  BY FormsFit DEF ServesAll
<1> HIDE DEF basic
<1>3. FitPages({Screen(List(m), View(m), basic \union more)})
  BY <1>1, SoundUnion, ListFits
<1> QED
  BY <1>2, <1>3, FitUnion DEF OpenListing, basic

LEMMA ReadOnlyFits ==
  \A m, more : OfModule(m) /\ Honest(List(m), more) => FitPages(ReadOnly(m, more))
  BY ListFits DEF ReadOnly

LEMMA DetailFits ==
  \A m, links : OfModule(m) /\ m \notin Controls /\ Honest(<<"detail", m>>, links) =>
                  FitPages(Detail(m, links))
<1> SUFFICES ASSUME NEW m, NEW links, OfModule(m), m \notin Controls,
                    Honest(<<"detail", m>>, links)
             PROVE  Fitting(Screen(<<"detail", m>>, View(m), links))
  BY DEF FitPages, Detail
<1> QED
  BY AskedByModel, ScreenFits DEF OfModule, Honest

LEMMA OneScreenFits ==
  \A s, p, links : Asked(s) = AsksFor(p) /\ Honest(s, links) => FitPages({Screen(s, p, links)})
<1> SUFFICES ASSUME NEW s, NEW p, NEW links, Asked(s) = AsksFor(p), Honest(s, links)
             PROVE  Fitting(Screen(s, p, links))
  BY DEF FitPages
<1> QED
  BY ScreenFits DEF Honest

LEMMA ControlledFits ==
  \A m, links :
    /\ OfModule(m) /\ m \notin Controls /\ ServesAll(m)
    /\ <<"post", m>> \in Addresses /\ Asked(<<"post", m>>) = AsksFor(Change(m))
    /\ Honest(<<"detail", m>>, links)
    => FitPages(Controlled(m, links))
<1> SUFFICES ASSUME NEW m, NEW links, OfModule(m), m \notin Controls, ServesAll(m),
                    <<"post", m>> \in Addresses, Asked(<<"post", m>>) = AsksFor(Change(m)),
                    Honest(<<"detail", m>>, links)
             PROVE  FitPages(Controlled(m, links))
  OBVIOUS
<1> DEFINE basic == {Plain(<<"post", m>>), Plain(List(m)), Plain(<<"edit", m>>)}
<1>1. Honest(<<"detail", m>>, basic)
  BY PlainGrants DEF Honest, ServesAll, ServesForms
<1>2. FitPages(Post(<<"post", m>>, Change(m)))
  BY PostFits
<1> HIDE DEF basic
<1>3. FitPages(Detail(m, basic \union links))
  BY <1>1, SoundUnion, DetailFits
<1> QED
  BY <1>2, <1>3, FitUnion DEF Controlled, basic

LEMMA AssemblyModels ==
  /\ \A m \in AssemblyEdited : OfModule(m) /\ ServesAll(m)
  /\ OfModule("stationofflineevent") /\ OfModule("modelmixplanitem")
  BY AssemblyLists DEF AssemblyEdited, OfModule, CompanyModels

LEMMA PlainTablesFit ==
  /\ FitPages(PlantScreens) /\ FitPages(ProductScreens) /\ FitPages(LineScreens)
  /\ FitPages(RouteScreens) /\ FitPages(StepScreens) /\ FitPages(RecordScreens)
  /\ FitPages(ReleaseScreens) /\ FitPages(MixItemScreens)
<1>1. \A m \in AssemblyEdited : FitPages(Listing(m, {}))
  BY AssemblyModels, NoLinksSound, ListingFits
<1>2. FitPages(PlantScreens)
  BY <1>1, FitUnion DEF PlantScreens, AssemblyEdited
<1>3. FitPages(ProductScreens)
  BY <1>1, FitUnion DEF ProductScreens, AssemblyEdited
<1>4. FitPages(LineScreens)
  BY <1>1, FitUnion DEF LineScreens, AssemblyEdited
<1>5. FitPages(RouteScreens)
  BY <1>1, FitUnion DEF RouteScreens, AssemblyEdited
<1>6. FitPages(StepScreens)
  BY <1>1, FitUnion DEF StepScreens, AssemblyEdited
<1>7. FitPages(RecordScreens)
  BY <1>1, FitUnion DEF RecordScreens, AssemblyEdited
<1>8. FitPages(ReleaseScreens)
  BY <1>1, FitUnion DEF ReleaseScreens, AssemblyEdited
<1>9. FitPages(MixItemScreens)
  BY AssemblyModels, FormsFit DEF MixItemScreens, AssemblyEdited, ServesAll
<1> QED
  BY <1>2, <1>3, <1>4, <1>5, <1>6, <1>7, <1>8, <1>9

LEMMA UnitScreensFit ==
  FitPages(UnitScreens) /\ FitPages(OrderScreens) /\ FitPages(PlanListScreens)
<1> DEFINE units == {Plain(<<"detail", "serializedunit">>)}
           unit == {Plain(<<"detail", "productionorder">>), Plain(List("serializedunit")),
                    Link(<<"detail", "productionplan">>, Change("productionplan")),
                    Link(<<"new", "productionmeasurement">>, Add("productionmeasurement")),
                    Link(<<"edit", "serializedunit">>, Change("serializedunit"))}
           orders == {Plain(<<"detail", "productionorder">>)}
           order == {Link(<<"new", "productionplan">>, Add("productionplan")),
                     Link(<<"edit", "productionorder">>, Change("productionorder")),
                     Link(<<"detail", "productionplan">>, Change("productionplan")),
                     Plain(<<"detail", "serializedunit">>), Plain(List("productionorder"))}
           plans == {Link(<<"detail", "productionplan">>, Change("productionplan"))}
<1>1. /\ OfModule("serializedunit") /\ ServesAll("serializedunit")
      /\ OfModule("productionorder") /\ ServesAll("productionorder")
      /\ OfModule("productionplan") /\ ServesAll("productionplan")
      /\ OfModule("productionmeasurement") /\ ServesAll("productionmeasurement")
  BY AssemblyModels DEF AssemblyEdited
<1>2. /\ <<"detail", "serializedunit">> \in Addresses
      /\ <<"detail", "productionorder">> \in Addresses
      /\ <<"detail", "productionplan">> \in Addresses
  BY AssemblyOthers DEF AssemblyDetailed
<1>3. \A s : Grants(s, Link(<<"detail", "productionplan">>, Change("productionplan")))
  BY <1>1, <1>2, AskedByModel, LinkGrants DEF OfModule, Controls
<1>4. Honest(List("serializedunit"), units) /\ Honest(List("productionorder"), orders)
  BY <1>2, PlainGrants DEF Honest
<1>5. Honest(<<"detail", "serializedunit">>, unit)
  BY <1>1, <1>2, <1>3, PlainGrants, NewGrants, EditGrants DEF Honest, ServesAll, ServesForms
<1>6. Honest(<<"detail", "productionorder">>, order)
  BY <1>1, <1>2, <1>3, PlainGrants, NewGrants, EditGrants DEF Honest, ServesAll, ServesForms
<1>7. Honest(List("productionplan"), plans)
  BY <1>3 DEF Honest
<1>8. "serializedunit" \notin Controls /\ "productionorder" \notin Controls
  BY DEF Controls
<1> HIDE DEF units, unit, orders, order, plans
<1>9. FitPages(Listing("serializedunit", units) \union Detail("serializedunit", unit))
  BY <1>1, <1>4, <1>5, <1>8, ListingFits, DetailFits, FitUnion
<1>10. FitPages(Listing("productionorder", orders) \union Detail("productionorder", order))
  BY <1>1, <1>4, <1>6, <1>8, ListingFits, DetailFits, FitUnion
<1>11. FitPages(Listing("productionplan", plans))
  BY <1>1, <1>7, ListingFits
<1> QED
  BY <1>9, <1>10, <1>11
     DEF UnitScreens, OrderScreens, PlanListScreens, units, unit, orders, order, plans

LEMMA PanelLinks ==
  \A s :
    /\ Grants(s, Link(<<"panel", "assembly">>, View("serializedunit")))
    /\ Grants(s, Link(<<"panel", "console">>, Add("unitstationevent")))
    /\ Grants(s, Menu(<<"panel", "console">>, Add("unitstationevent")))
    /\ Grants(s, Menu(<<"panel", "genealogy">>, View("installedcomponent")))
    /\ Grants(s, Link(<<"panel", "station_queue">>, View("productionqueueitem")))
    /\ Grants(s, Link(<<"panel", "metrics">>, View("unitstationevent")))
    /\ Grants(s, Menu(<<"panel", "advanced">>, View("andonsignal")))
    /\ \A tests : Grants(s, AnyOf(<<"panel", "advanced">>, tests))
<1>1. \A m \in AssemblyPanels : <<"panel", m>> \in Addresses
  BY AssemblyOthers
<1>2. /\ <<"panel", "assembly">> \in Addresses /\ <<"panel", "console">> \in Addresses
      /\ <<"panel", "genealogy">> \in Addresses /\ <<"panel", "station_queue">> \in Addresses
      /\ <<"panel", "metrics">> \in Addresses /\ <<"panel", "advanced">> \in Addresses
  BY <1>1 DEF AssemblyPanels
<1>3. <<"panel", "advanced">> \in PromisedByAnother
  BY DEF PromisedByAnother
<1> QED
  BY <1>2, <1>3, AskedByPanel, LinkGrants, PromisedGrants

LEMMA PanelScreensFit == FitPages(PanelScreens) /\ FitPages(ConsoleScreen)
<1> DEFINE basic == {Link(List("productionqueueitem"), View("productionqueueitem")),
                   Link(List("linebalancestudy"), View("linebalancestudy")),
                   AnyOf(<<"panel", "advanced">>, {View(m) : m \in {"andonsignal",
                     "productiondowntime", "stationofflineevent", "modelmixplan",
                     "externalmaterialkit"}}),
                   Link(<<"panel", "console">>, Add("unitstationevent")),
                   Link(List("qualitygate"), View("qualitygate")),
                   Link(List("reworkorder"), View("reworkorder")),
                   Link(<<"panel", "station_queue">>, View("productionqueueitem")),
                   Link(<<"detail", "productionqueueitem">>, View("productionqueueitem"))}
           bar == {Viewed(m) : m \in {"productionorder", "productionplan",
                     "productionqueueitem", "serializedunit", "installedcomponent",
                     "productionmeasurement", "unitstationevent", "qualitygate",
                     "reworkorder", "releaseapproval", "linebalancestudy"}}
           panels == {Menu(<<"panel", "console">>, Add("unitstationevent")),
                      Menu(<<"panel", "genealogy">>, View("installedcomponent")),
                      Plain(<<"panel", "metrics">>),
                      Menu(<<"panel", "advanced">>, View("andonsignal"))}
           console ==
             {Link(<<"new", "productionmeasurement">>, Add("productionmeasurement")),
              Plain(<<"post", "console">>),
              AllOf(<<"scan", "console">>,
                    {Add("assemblymaterialconsumption"), Add("installedcomponent")})}
           here == <<"panel", "assembly">>
           there == <<"panel", "console">>
<1>1. \A m \in AssemblyEdited : \A s :
        Grants(s, Link(List(m), View(m))) /\ Grants(s, Viewed(m))
  BY AssemblyModels, ListGrants DEF ServesAll
<1>2. /\ <<"panel", "metrics">> \in Addresses /\ <<"post", "console">> \in Addresses
      /\ <<"detail", "productionqueueitem">> \in Addresses
  BY AssemblyOthers DEF AssemblyDetailed, AssemblyPanels
<1>3. <<"detail", "productionqueueitem">> \in PromisedByAnother
  BY DEF PromisedByAnother
<1>4. /\ \A s : Grants(s, Link(List("productionqueueitem"), View("productionqueueitem")))
      /\ \A s : Grants(s, Link(List("linebalancestudy"), View("linebalancestudy")))
      /\ \A s : Grants(s, Link(List("qualitygate"), View("qualitygate")))
      /\ \A s : Grants(s, Link(List("reworkorder"), View("reworkorder")))
  BY <1>1 DEF AssemblyEdited
<1>5. Honest(here, basic)
  BY <1>2, <1>3, <1>4, PanelLinks, PromisedGrants DEF Honest
<1>6. Honest(here, bar)
  BY <1>1 DEF Honest, AssemblyEdited
<1>7. Honest(here, panels)
  BY <1>2, PanelLinks, PlainGrants DEF Honest
<1>8. Honest(there, console)
  <2>1. Grants(there, Link(<<"new", "productionmeasurement">>, Add("productionmeasurement")))
    BY AssemblyModels, NewGrants DEF AssemblyEdited, ServesAll, ServesForms
  <2>2. Grants(there, AllOf(<<"scan", "console">>,
                    {Add("assemblymaterialconsumption"), Add("installedcomponent")}))
    BY WarehouseServes, AskedByPost DEF Grants, AllOf
  <2>3. Grants(there, Plain(<<"post", "console">>))
    BY <1>2, PlainGrants
  <2> QED
    BY <2>1, <2>2, <2>3 DEF Honest
<1> HIDE DEF basic, bar, panels, console
<1>9. Honest(here, basic \union (bar \union panels))
  BY <1>5, <1>6, <1>7, SoundUnion
<1>10. /\ FitPages({Screen(here, View("serializedunit"), basic \union (bar \union panels))})
       /\ FitPages({Screen(<<"panel", "metrics">>, View("unitstationevent"), {})})
  BY <1>9, AskedByPanel, NoLinksSound, OneScreenFits
<1>11. FitPages(PanelScreens)
  BY <1>10 DEF PanelScreens, AssemblyMenu, FitPages, basic, bar, panels
<1>12. /\ FitPages({Screen(there, Add("unitstationevent"), console)})
       /\ FitPages(Post(<<"post", "console">>, Add("unitstationevent")))
  BY <1>8, AskedByPanel, AskedByPost, OneScreenFits, PostFits
<1>13. FitPages(ConsoleScreen)
  BY <1>12, FitUnion DEF ConsoleScreen, console
<1> QED
  BY <1>11, <1>13

LEMMA ControlScreensFit ==
  FitPages(PlanControlScreen) /\ FitPages(QueueListScreens) /\ FitPages(QueueControlScreens)
<1> DEFINE plan ==
             {Plain(<<"post", "productionplan">>), Plain(<<"generate", "productionplan">>),
              Plain(<<"sequence", "productionplan">>), Plain(<<"edit", "productionplan">>),
              Plain(<<"detail", "productionorder">>), Plain(<<"detail", "serializedunit">>),
              Plain(List("productionplan"))}
           items == {Link(<<"detail", "productionqueueitem">>, Change("productionqueueitem")),
                     Plain(<<"panel", "station_queue">>)}
           item ==
             {Plain(<<"post", "productionqueueitem">>), Plain(<<"edit", "productionqueueitem">>),
              Plain(<<"detail", "productionplan">>), Plain(<<"detail", "serializedunit">>),
              Plain(List("productionqueueitem"))}
           waiting ==
             {Plain(<<"detail", "productionqueueitem">>), Plain(List("productionqueueitem"))}
<1>1. /\ OfModule("productionplan") /\ ServesAll("productionplan")
      /\ OfModule("productionqueueitem") /\ ServesAll("productionqueueitem")
  BY AssemblyModels DEF AssemblyEdited
<1>2. /\ <<"detail", "serializedunit">> \in Addresses
      /\ <<"detail", "productionorder">> \in Addresses
      /\ <<"detail", "productionplan">> \in Addresses
      /\ <<"detail", "productionqueueitem">> \in Addresses
      /\ <<"panel", "station_queue">> \in Addresses
  BY AssemblyOthers DEF AssemblyDetailed, AssemblyPanels
<1>3. /\ <<"post", "productionplan">> \in Addresses
      /\ <<"generate", "productionplan">> \in Addresses
      /\ <<"sequence", "productionplan">> \in Addresses
      /\ <<"post", "productionqueueitem">> \in Addresses
  BY AssemblyOthers
<1>4. /\ Asked(<<"detail", "productionplan">>) = AsksFor(Change("productionplan"))
      /\ Asked(<<"detail", "productionqueueitem">>) = AsksFor(Change("productionqueueitem"))
  BY <1>1, AskedByModel DEF OfModule, Controls
<1>5. Honest(<<"detail", "productionplan">>, plan)
  BY <1>1, <1>2, <1>3, PlainGrants DEF Honest, ServesAll, ServesForms
<1>6. Honest(List("productionqueueitem"), items)
  BY <1>2, <1>4, PlainGrants, LinkGrants DEF Honest
<1>7. Honest(<<"detail", "productionqueueitem">>, item)
  BY <1>1, <1>2, <1>3, PlainGrants DEF Honest, ServesAll, ServesForms
<1>8. Honest(<<"panel", "station_queue">>, waiting)
  BY <1>1, <1>2, PlainGrants DEF Honest, ServesAll
<1> HIDE DEF plan, items, item, waiting
<1>9. /\ FitPages({Screen(<<"detail", "productionplan">>, Change("productionplan"), plan)})
      /\ FitPages({Screen(<<"detail", "productionqueueitem">>, Change("productionqueueitem"),
                     item)})
      /\ FitPages({Screen(<<"panel", "station_queue">>, View("productionqueueitem"), waiting)})
  BY <1>4, <1>5, <1>7, <1>8, AskedByPanel, OneScreenFits
<1>10. /\ FitPages(Post(<<"post", "productionplan">>, Change("productionplan")))
       /\ FitPages(GuardedPost(<<"generate", "productionplan">>, Change("productionplan"),
            Add("serializedunit")))
       /\ FitPages(GuardedPost(<<"sequence", "productionplan">>, Change("productionplan"),
            Add("productionqueueitem")))
       /\ FitPages(Post(<<"post", "productionqueueitem">>, Change("productionqueueitem")))
  BY AskedByPost, AskedByChange, PostFits
<1>11. FitPages(PlanControlScreen)
  BY <1>9, <1>10, FitUnion DEF PlanControlScreen, plan
<1>12. FitPages(QueueListScreens)
  BY <1>1, <1>6, ListingFits DEF QueueListScreens, items
<1>13. FitPages(QueueControlScreens)
  BY <1>9, <1>10, FitUnion DEF QueueControlScreens, item, waiting
<1> QED
  BY <1>11, <1>12, <1>13

LEMMA StudyScreensFit == FitPages(BalanceScreens) /\ FitPages(ExternalKitScreens)
<1> DEFINE studies == {Plain(<<"detail", "linebalancestudy">>)}
           study == {Link(<<"post", "linebalancestudy">>, Change("linebalancestudy")),
                     Plain(<<"edit", "linebalancestudy">>), Plain(List("linebalancestudy"))}
           kits == {Plain(<<"panel", "advanced">>)}
<1>1. /\ OfModule("linebalancestudy") /\ ServesAll("linebalancestudy")
      /\ OfModule("externalmaterialkit") /\ ServesAll("externalmaterialkit")
      /\ "linebalancestudy" \notin Controls
  BY AssemblyModels DEF AssemblyEdited, Controls
<1>2. /\ <<"detail", "linebalancestudy">> \in Addresses
      /\ <<"post", "linebalancestudy">> \in Addresses
      /\ <<"panel", "advanced">> \in Addresses
  BY AssemblyOthers DEF AssemblyDetailed, AssemblyPanels
<1>3. Asked(<<"post", "linebalancestudy">>) = AsksFor(Change("linebalancestudy"))
  BY AskedByChange
<1>4. Honest(List("linebalancestudy"), studies) /\ Honest(List("externalmaterialkit"), kits)
  BY <1>2, PlainGrants DEF Honest
<1>5. Honest(<<"detail", "linebalancestudy">>, study)
  BY <1>1, <1>2, <1>3, PlainGrants, LinkGrants DEF Honest, ServesAll, ServesForms
<1> HIDE DEF studies, study, kits
<1>6. /\ FitPages(Listing("linebalancestudy", studies))
      /\ FitPages(Detail("linebalancestudy", study))
      /\ FitPages(Post(<<"post", "linebalancestudy">>, Change("linebalancestudy")))
      /\ FitPages(Listing("externalmaterialkit", kits))
  BY <1>1, <1>3, <1>4, <1>5, ListingFits, DetailFits, PostFits
<1> QED
  BY <1>6, FitUnion DEF BalanceScreens, ExternalKitScreens, studies, study, kits

\* The panel of advanced functions, and what it leads to
LEMMA AdvancedScreensFit ==
  /\ FitPages(AdvancedScreen) /\ FitPages(AndonListScreens) /\ FitPages(AndonControlScreen)
  /\ FitPages(DowntimeScreens) /\ FitPages(MixScreens)
<1> DEFINE lists == {Link(List(m), View(m)) : m \in {"andonsignal", "productiondowntime",
                       "stationofflineevent", "modelmixplan", "externalmaterialkit"}}
           details == {Plain(<<"detail", m>>) : m \in {"andonsignal", "productiondowntime",
                         "stationofflineevent"}}
           ends == {Plain(<<"detail", "productiondowntime">>)}
           mix == {Plain(<<"generate", "modelmixplan">>), Plain(<<"new", "modelmixplanitem">>),
                   Plain(<<"edit", "modelmixplanitem">>), Plain(<<"detail", "productionplan">>)}
<1>1. /\ OfModule("andonsignal") /\ ServesAll("andonsignal")
      /\ OfModule("productiondowntime") /\ ServesAll("productiondowntime")
      /\ OfModule("modelmixplan") /\ ServesAll("modelmixplan")
      /\ OfModule("externalmaterialkit") /\ ServesAll("externalmaterialkit")
      /\ OfModule("stationofflineevent") /\ List("stationofflineevent") \in Addresses
      /\ ServesForms("modelmixplanitem")
  BY AssemblyModels, AssemblyLists DEF AssemblyEdited
<1>2. /\ "andonsignal" \notin Controls /\ "productiondowntime" \notin Controls
      /\ "modelmixplan" \notin Controls
  BY DEF Controls
<1>3. /\ <<"detail", "andonsignal">> \in Addresses
      /\ <<"detail", "productiondowntime">> \in Addresses
      /\ <<"detail", "stationofflineevent">> \in Addresses
      /\ <<"detail", "modelmixplan">> \in Addresses
      /\ <<"detail", "productionplan">> \in Addresses
      /\ <<"panel", "advanced">> \in Addresses
  BY AssemblyOthers DEF AssemblyDetailed, AssemblyPanels
<1>4. /\ <<"post", "andonsignal">> \in Addresses
      /\ <<"post", "productiondowntime">> \in Addresses
      /\ <<"post", "modelmixplan">> \in Addresses
      /\ <<"generate", "modelmixplan">> \in Addresses
  BY AssemblyOthers
<1>5. /\ Asked(<<"post", "andonsignal">>) = AsksFor(Change("andonsignal"))
      /\ Asked(<<"post", "productiondowntime">>) = AsksFor(Change("productiondowntime"))
      /\ Asked(<<"post", "modelmixplan">>) = AsksFor(Change("modelmixplan"))
  BY AskedByChange
<1>6. Honest(<<"panel", "advanced">>, lists)
  BY <1>1, ListGrants DEF Honest, ServesAll
<1>7. Honest(<<"panel", "advanced">>, details)
  BY <1>3, PlainGrants DEF Honest
<1>8. /\ Honest(List("andonsignal"), ToAdvanced("andonsignal"))
      /\ Honest(List("productiondowntime"), ToAdvanced("productiondowntime"))
      /\ Honest(List("modelmixplan"), ToAdvanced("modelmixplan"))
  BY <1>3, PlainGrants DEF Honest, ToAdvanced
<1>9. Honest(<<"detail", "andonsignal">>, ends)
  BY <1>3, PlainGrants DEF Honest
<1>10. Honest(<<"detail", "modelmixplan">>, mix)
  BY <1>1, <1>3, <1>4, PlainGrants DEF Honest, ServesForms
<1> HIDE DEF lists, details, ends, mix
<1>11. FitPages({Screen(<<"panel", "advanced">>, View("serializedunit"), lists \union details)})
  BY <1>6, <1>7, SoundUnion, AskedByPanel, OneScreenFits
<1>12. FitPages(AdvancedScreen)
  BY <1>11 DEF AdvancedScreen, lists, details
<1>13. /\ FitPages(Listing("andonsignal", ToAdvanced("andonsignal")))
       /\ FitPages(Listing("productiondowntime", ToAdvanced("productiondowntime")))
       /\ FitPages(Listing("modelmixplan", ToAdvanced("modelmixplan")))
  BY <1>1, <1>8, ListingFits
<1>14. /\ FitPages(Controlled("andonsignal", ends))
       /\ FitPages(Controlled("productiondowntime", {}))
       /\ FitPages(Controlled("modelmixplan", mix))
  BY <1>1, <1>2, <1>4, <1>5, <1>9, <1>10, NoLinksSound, ControlledFits
<1>15. FitPages(GuardedPost(<<"generate", "modelmixplan">>, Change("modelmixplan"),
                  Add("productionplan")))
  BY AskedByPost, PostFits
<1>16. FitPages(AndonListScreens) /\ FitPages(AndonControlScreen)
  BY <1>13, <1>14 DEF AndonListScreens, AndonControlScreen, ends
<1>17. FitPages(DowntimeScreens)
  BY <1>13, <1>14, FitUnion DEF DowntimeScreens
<1>18. FitPages(MixScreens)
  BY <1>13, <1>14, <1>15, FitUnion DEF MixScreens, mix
<1> QED
  BY <1>12, <1>16, <1>17, <1>18

LEMMA OfflineScreensFit == FitPages(OfflineScreens)
<1> DEFINE add == {Link(<<"new", "stationofflineevent">>, Add("stationofflineevent"))}
           back == {Plain(List("stationofflineevent"))}
           event == {Plain(<<"post", "stationofflineevent">>), Plain(List("stationofflineevent"))}
           sync == Demanding(<<"post", "stationofflineevent">>,
                     {Change("stationofflineevent"), Add("unitstationevent")}, {}, {})
<1>1. /\ OfModule("stationofflineevent") /\ List("stationofflineevent") \in Addresses
      /\ <<"new", "stationofflineevent">> \in Addresses
      /\ <<"detail", "stationofflineevent">> \in Addresses
      /\ <<"post", "stationofflineevent">> \in Addresses
      /\ <<"panel", "advanced">> \in Addresses
      /\ "stationofflineevent" \notin Controls
  BY AssemblyModels, AssemblyLists, AssemblyOthers
     DEF AssemblyDetailed, AssemblyPanels, Controls
<1>2. Honest(List("stationofflineevent"), ToAdvanced("stationofflineevent"))
  BY <1>1, PlainGrants DEF Honest, ToAdvanced
<1>3. Honest(List("stationofflineevent"), add)
  BY <1>1, NewGrants DEF Honest
<1>4. Honest(<<"new", "stationofflineevent">>, back)
  BY <1>1, PlainGrants DEF Honest
<1>5. Honest(<<"detail", "stationofflineevent">>, event)
  BY <1>1, PlainGrants DEF Honest
<1>6. Asked(<<"post", "stationofflineevent">>) =
        [open |-> "module", must |-> {},
         needs |-> {Change("stationofflineevent"), Add("unitstationevent")}]
  BY DEF Asked, OfPost, AsksFor
<1>7. Fitting(sync)
  BY <1>6 DEF Fitting, Demanding
<1>8. Asked(<<"new", "stationofflineevent">>) = AsksFor(Add("stationofflineevent"))
  BY <1>1, AskedByModel DEF OfModule
<1> HIDE DEF add, back, event, sync
<1>9. FitPages({Screen(List("stationofflineevent"), View("stationofflineevent"),
                  ToAdvanced("stationofflineevent") \union add)})
  BY <1>1, <1>2, <1>3, SoundUnion, ListFits
<1>10. FitPages({Screen(<<"new", "stationofflineevent">>, Add("stationofflineevent"), back)})
  BY <1>4, <1>8, OneScreenFits
<1>11. FitPages(Detail("stationofflineevent", event))
  BY <1>1, <1>5, DetailFits
<1>12. FitPages({sync})
  BY <1>7 DEF FitPages
<1>13. FitPages({Screen(List("stationofflineevent"), View("stationofflineevent"),
                   ToAdvanced("stationofflineevent") \union add),
                 Screen(<<"new", "stationofflineevent">>, Add("stationofflineevent"), back)})
  BY <1>9, <1>10 DEF FitPages
<1> QED
  BY <1>11, <1>12, <1>13, FitUnion DEF OfflineScreens, add, back, event, sync

LEMMA QualityScreensFit ==
  FitPages(ComponentScreens) /\ FitPages(QualityScreens) /\ FitPages(ReworkScreens)
<1> DEFINE components == {Plain(<<"panel", "genealogy">>)}
           genealogy == {Plain(List("installedcomponent")), Plain(<<"detail", "serializedunit">>)}
           gates == {Link(<<"review", "qualitygate">>, Change("qualitygate"))}
           gate == {Plain(List("qualitygate")), Plain(<<"detail", "serializedunit">>)}
           reworks == {Link(<<"control", "reworkorder">>, Change("reworkorder"))}
           rework == {Plain(List("reworkorder")), Plain(<<"detail", "serializedunit">>),
                      Plain(<<"review", "qualitygate">>)}
<1>1. /\ OfModule("installedcomponent") /\ ServesAll("installedcomponent")
      /\ OfModule("qualitygate") /\ ServesAll("qualitygate")
      /\ OfModule("reworkorder") /\ ServesAll("reworkorder")
  BY AssemblyModels DEF AssemblyEdited
<1>2. /\ <<"panel", "genealogy">> \in Addresses
      /\ <<"detail", "serializedunit">> \in Addresses
      /\ <<"review", "qualitygate">> \in Addresses
      /\ <<"control", "reworkorder">> \in Addresses
  BY AssemblyOthers DEF AssemblyDetailed, AssemblyPanels
<1>3. /\ Asked(<<"review", "qualitygate">>) = AsksFor(Change("qualitygate"))
      /\ Asked(<<"control", "reworkorder">>) = AsksFor(Change("reworkorder"))
  BY AskedByChange
<1>4. Honest(List("installedcomponent"), components)
  BY <1>2, PlainGrants DEF Honest
<1>5. Honest(<<"panel", "genealogy">>, genealogy)
  BY <1>1, <1>2, PlainGrants DEF Honest, ServesAll
<1>6. Honest(List("qualitygate"), gates) /\ Honest(List("reworkorder"), reworks)
  BY <1>2, <1>3, LinkGrants DEF Honest
<1>7. Honest(<<"review", "qualitygate">>, gate) /\ Honest(<<"control", "reworkorder">>, rework)
  BY <1>1, <1>2, PlainGrants DEF Honest, ServesAll
<1> HIDE DEF components, genealogy, gates, gate, reworks, rework
<1>8. /\ FitPages(Listing("installedcomponent", components))
      /\ FitPages(Listing("qualitygate", gates))
      /\ FitPages(Listing("reworkorder", reworks))
  BY <1>1, <1>4, <1>6, ListingFits
<1>9. /\ FitPages({Screen(<<"panel", "genealogy">>, View("installedcomponent"), genealogy)})
      /\ FitPages({Screen(<<"review", "qualitygate">>, Change("qualitygate"), gate)})
      /\ FitPages({Screen(<<"control", "reworkorder">>, Change("reworkorder"), rework)})
  BY <1>3, <1>5, <1>7, AskedByPanel, OneScreenFits
<1>10. FitPages(ComponentScreens)
  BY <1>8, <1>9, FitUnion DEF ComponentScreens, components, genealogy
<1>11. FitPages(QualityScreens)
  BY <1>8, <1>9, FitUnion DEF QualityScreens, gates, gate
<1>12. FitPages(ReworkScreens)
  BY <1>8, <1>9, FitUnion DEF ReworkScreens, reworks, rework
<1> QED
  BY <1>10, <1>11, <1>12

LEMMA AssemblyFits == FitPages(AssemblyScreens)
  BY PlainTablesFit, UnitScreensFit, PanelScreensFit, ControlScreensFit, StudyScreensFit,
     AdvancedScreensFit, OfflineScreensFit, QualityScreensFit DEF AssemblyScreens, FitPages

\* The forms to create what has no form to edit lead back to where they came from.
LEMMA NewFits ==
  \A m, back : OfModule(m) /\ back \in Addresses =>
                 FitPages({Screen(<<"new", m>>, Add(m), {Plain(back)})})
<1> SUFFICES ASSUME NEW m, NEW back, OfModule(m), back \in Addresses
             PROVE  FitPages({Screen(<<"new", m>>, Add(m), {Plain(back)})})
  OBVIOUS
<1>1. Honest(<<"new", m>>, {Plain(back)})
  BY PlainGrants DEF Honest
<1>2. Asked(<<"new", m>>) = AsksFor(Add(m))
  BY AskedByModel DEF OfModule
<1> QED
  BY <1>1, <1>2, OneScreenFits

LEMMA WarehouseModels ==
  \A m \in {"materialcategory", "material", "wmslocationprofile", "inboundreceipt",
            "assemblykit", "replenishmentrule", "inventorybalance", "inventorymovement",
            "pickmission", "kanbansignal", "assemblymaterialconsumption",
            "inboundreceiptline", "assemblykitline", "picktask"} :
    OfModule(m) /\ m \notin Controls
  BY DEF OfModule, CompanyModels, Controls

LEMMA MaterialScreensFit ==
  /\ FitPages(MaterialScreens) /\ FitPages(LocationProfileScreens)
  /\ FitPages(MovementScreens) /\ FitPages(ScanScreens)
<1> DEFINE bar == {Viewed(m) : m \in {"inventorybalance", "inboundreceipt",
                     "inventorymovement", "assemblykit", "pickmission", "kanbansignal",
                     "assemblymaterialconsumption"}}
           move == {Link(<<"new", "inventorymovement">>, Add("inventorymovement"))}
<1>1. /\ OfModule("materialcategory") /\ ServesAll("materialcategory")
      /\ OfModule("material") /\ ServesAll("material")
      /\ OfModule("wmslocationprofile") /\ ServesAll("wmslocationprofile")
      /\ OfModule("inventorybalance") /\ OfModule("inventorymovement")
      /\ OfModule("assemblymaterialconsumption")
  BY WarehouseModels, WarehouseServes
<1>2. /\ List("inventorymovement") \in Addresses
      /\ <<"new", "inventorymovement">> \in Addresses
  BY WarehouseServes
<1>3. \A m \in {"inventorybalance", "inboundreceipt", "inventorymovement", "assemblykit",
                "pickmission", "kanbansignal", "assemblymaterialconsumption"} :
        OfModule(m) /\ List(m) \in Addresses
  BY WarehouseModels, WarehouseServes DEF ServesAll
<1>4. Honest(<<"panel", "wms">>, bar)
  BY <1>3, ListGrants DEF Honest
<1>5. Honest(List("inventorymovement"), move)
  BY <1>1, <1>2, NewGrants DEF Honest
<1>6. OtherMenus.wms = bar
  BY DEF OtherMenus
<1> HIDE DEF bar, move
<1>7. FitPages({Screen(<<"panel", "wms">>, View("inventorybalance"), bar)})
  BY <1>4, AskedByPanel, OneScreenFits
<1>8. /\ FitPages(OpenListing("materialcategory", {}))
      /\ FitPages(OpenListing("material", {}))
      /\ FitPages(OpenListing("wmslocationprofile", {}))
  BY <1>1, NoLinksSound, OpenListingFits
<1>9. /\ FitPages(ReadOnly("inventorybalance", {}))
      /\ FitPages(ReadOnly("inventorymovement", move))
      /\ FitPages(ReadOnly("assemblymaterialconsumption", {}))
  BY <1>1, <1>5, NoLinksSound, ReadOnlyFits
<1>10. FitPages({Screen(<<"new", "inventorymovement">>, Add("inventorymovement"),
                   {Plain(List("inventorymovement"))})})
  BY <1>1, <1>2, NewFits
<1>11. FitPages(GuardedPost(<<"scan", "console">>, Add("assemblymaterialconsumption"),
                  Add("installedcomponent")))
  BY AskedByPost, PostFits
<1>12. FitPages(MaterialScreens)
  BY <1>6, <1>7, <1>8, FitUnion DEF MaterialScreens
<1>13. FitPages(MovementScreens)
  BY <1>9, <1>10, FitUnion DEF MovementScreens, move
<1> QED
  BY <1>8, <1>9, <1>11, <1>12, <1>13, FitUnion DEF LocationProfileScreens, ScanScreens

LEMMA ReceiptScreensFit == FitPages(ReceiptScreens) /\ FitPages(LineKitScreens)
<1> DEFINE receipts == {Plain(<<"detail", "inboundreceipt">>)}
           receipt == {Link(<<"new", "inboundreceiptline">>, Add("inboundreceiptline")),
                       Link(<<"edit", "inboundreceipt">>, Change("inboundreceipt")),
                       Link(<<"receive", "inboundreceiptline">>, Add("inventorymovement"))}
           kits == {Plain(<<"detail", "assemblykit">>)}
           oneKit == {Link(<<"new", "assemblykitline">>, Add("assemblykitline")),
                   Link(<<"post", "assemblykit">>, Change("assemblykit")),
                   Link(<<"new", "pickmission">>, Add("pickmission"))}
<1>1. /\ OfModule("inboundreceipt") /\ ServesAll("inboundreceipt")
      /\ OfModule("assemblykit") /\ ServesAll("assemblykit")
      /\ OfModule("inboundreceiptline") /\ OfModule("assemblykitline")
      /\ OfModule("pickmission")
      /\ "inboundreceipt" \notin Controls /\ "assemblykit" \notin Controls
  BY WarehouseModels, WarehouseServes
<1>2. /\ <<"detail", "inboundreceipt">> \in Addresses
      /\ <<"detail", "assemblykit">> \in Addresses
      /\ <<"new", "inboundreceiptline">> \in Addresses
      /\ <<"new", "assemblykitline">> \in Addresses
      /\ <<"new", "pickmission">> \in Addresses
      /\ <<"receive", "inboundreceiptline">> \in Addresses
      /\ <<"post", "assemblykit">> \in Addresses
  BY WarehouseServes
<1>3. /\ Asked(<<"receive", "inboundreceiptline">>) = AsksFor(Add("inventorymovement"))
      /\ Asked(<<"post", "assemblykit">>) = AsksFor(Change("assemblykit"))
  BY AskedByPost, AskedByChange
<1>4. /\ Honest(List("inboundreceipt"), receipts) /\ Honest(List("assemblykit"), kits)
      /\ Honest(<<"receive", "inboundreceiptline">>, receipts)
  BY <1>2, PlainGrants DEF Honest
<1>5. Honest(<<"detail", "inboundreceipt">>, receipt)
  BY <1>1, <1>2, <1>3, LinkGrants, NewGrants, EditGrants DEF Honest, ServesAll, ServesForms
<1>6. Honest(<<"detail", "assemblykit">>, oneKit)
  BY <1>1, <1>2, <1>3, LinkGrants, NewGrants DEF Honest
<1>7. /\ FitPages({Screen(<<"new", "inboundreceiptline">>, Add("inboundreceiptline"), receipts)})
      /\ FitPages({Screen(<<"new", "assemblykitline">>, Add("assemblykitline"), kits)})
  BY <1>1, <1>2, NewFits
<1> HIDE DEF receipts, receipt, kits, oneKit
<1>8. /\ FitPages(OpenListing("inboundreceipt", receipts))
      /\ FitPages(OpenListing("assemblykit", kits))
  BY <1>1, <1>4, OpenListingFits
<1>9. /\ FitPages(Detail("inboundreceipt", receipt)) /\ FitPages(Detail("assemblykit", oneKit))
  BY <1>1, <1>5, <1>6, DetailFits
<1>10. FitPages({Screen(<<"receive", "inboundreceiptline">>, Add("inventorymovement"), receipts)})
  BY <1>3, <1>4, OneScreenFits
<1>11. FitPages(Post(<<"post", "assemblykit">>, Change("assemblykit")))
  BY <1>3, PostFits
<1>12. FitPages({Screen(<<"new", "inboundreceiptline">>, Add("inboundreceiptline"), receipts),
                 Screen(<<"receive", "inboundreceiptline">>, Add("inventorymovement"),
                   receipts)})
  BY <1>7, <1>10 DEF FitPages
<1>13. FitPages(ReceiptScreens)
  BY <1>8, <1>9, <1>12, FitUnion DEF ReceiptScreens, receipts, receipt
<1>14. FitPages(LineKitScreens)
  BY <1>7, <1>8, <1>9, <1>11, FitUnion DEF LineKitScreens, kits, oneKit
<1> QED
  BY <1>13, <1>14

LEMMA PickingScreensFit == FitPages(PickingScreens) /\ FitPages(KanbanScreens)
<1> DEFINE missions == {Link(<<"new", "pickmission">>, Add("pickmission")),
                        Plain(<<"detail", "pickmission">>)}
           mission == {Link(<<"new", "picktask">>, Add("picktask")),
                       Link(<<"release", "pickmission">>, Change("pickmission")),
                       Link(<<"pick", "pickmission">>, Add("inventorymovement"))}
           signals == {Plain(<<"detail", "kanbansignal">>)}
           oneSignal == {Link(<<"start", "kanbansignal">>, Add("pickmission")),
                      Link(<<"fulfill", "kanbansignal">>, Change("kanbansignal")),
                      Plain(<<"detail", "pickmission">>)}
<1>1. /\ OfModule("pickmission") /\ OfModule("picktask") /\ OfModule("kanbansignal")
      /\ OfModule("replenishmentrule") /\ ServesAll("replenishmentrule")
      /\ "pickmission" \notin Controls /\ "kanbansignal" \notin Controls
  BY WarehouseModels, WarehouseServes
<1>2. /\ List("pickmission") \in Addresses /\ List("kanbansignal") \in Addresses
      /\ <<"detail", "pickmission">> \in Addresses
      /\ <<"detail", "kanbansignal">> \in Addresses
      /\ <<"new", "pickmission">> \in Addresses /\ <<"new", "picktask">> \in Addresses
      /\ <<"new", "kanbansignal">> \in Addresses
      /\ <<"release", "pickmission">> \in Addresses
      /\ <<"pick", "pickmission">> \in Addresses
      /\ <<"start", "kanbansignal">> \in Addresses
      /\ <<"fulfill", "kanbansignal">> \in Addresses
  BY WarehouseServes
<1>3. /\ Asked(<<"detail", "pickmission">>) = AsksFor(View("pickmission"))
      /\ Asked(<<"detail", "kanbansignal">>) = AsksFor(View("kanbansignal"))
  BY <1>1, AskedByModel DEF OfModule
<1>4. /\ Asked(<<"release", "pickmission">>) =
           AsksBoth(View("pickmission"), Change("pickmission"))
      /\ Asked(<<"pick", "pickmission">>) =
           AsksBoth(View("pickmission"), Add("inventorymovement"))
      /\ Asked(<<"start", "kanbansignal">>) =
           AsksBoth(View("kanbansignal"), Add("pickmission"))
      /\ Asked(<<"fulfill", "kanbansignal">>) =
           AsksBoth(View("kanbansignal"), Change("kanbansignal"))
  BY AskedByPost
<1>5. Honest(List("pickmission"), missions)
  BY <1>1, <1>2, PlainGrants, NewGrants DEF Honest
<1>6. Honest(<<"detail", "pickmission">>, mission)
  BY <1>1, <1>2, <1>3, <1>4, NewGrants, GuardedGrants DEF Honest
<1>7. Honest(List("kanbansignal"), signals)
  BY <1>2, PlainGrants DEF Honest
<1>8. Honest(<<"detail", "kanbansignal">>, oneSignal)
  BY <1>2, <1>3, <1>4, PlainGrants, GuardedGrants DEF Honest
<1> HIDE DEF missions, mission, signals, oneSignal
<1>9. /\ FitPages(ReadOnly("pickmission", missions))
      /\ FitPages(ReadOnly("kanbansignal", signals))
      /\ FitPages(Detail("pickmission", mission)) /\ FitPages(Detail("kanbansignal", oneSignal))
      /\ FitPages(OpenListing("replenishmentrule", {}))
  BY <1>1, <1>5, <1>6, <1>7, <1>8, NoLinksSound, ReadOnlyFits, DetailFits, OpenListingFits
<1>10. /\ FitPages({Screen(<<"new", "pickmission">>, Add("pickmission"),
                      {Plain(List("pickmission"))})})
       /\ FitPages({Screen(<<"new", "picktask">>, Add("picktask"),
                      {Plain(<<"detail", "pickmission">>)})})
       /\ FitPages({Screen(<<"new", "kanbansignal">>, Add("kanbansignal"),
                      {Plain(List("kanbansignal"))})})
  BY <1>1, <1>2, NewFits
<1>11. /\ FitPages(GuardedPost(<<"release", "pickmission">>, View("pickmission"),
                     Change("pickmission")))
       /\ FitPages(GuardedPost(<<"pick", "pickmission">>, View("pickmission"),
                     Add("inventorymovement")))
       /\ FitPages(GuardedPost(<<"start", "kanbansignal">>, View("kanbansignal"),
                     Add("pickmission")))
       /\ FitPages(GuardedPost(<<"fulfill", "kanbansignal">>, View("kanbansignal"),
                     Change("kanbansignal")))
  BY <1>4, PostFits
<1>12. FitPages(PickingScreens)
  BY <1>9, <1>10, <1>11, FitUnion DEF PickingScreens, missions, mission
<1>13. FitPages(KanbanScreens)
  BY <1>9, <1>10, <1>11, FitUnion DEF KanbanScreens, signals, oneSignal
<1> QED
  BY <1>12, <1>13

LEMMA WarehouseFits == FitPages(WmsScreens)
  BY MaterialScreensFit, ReceiptScreensFit, PickingScreensFit DEF WmsScreens, FitPages

LEMMA BridgeModels ==
  \A m \in {"edgegateway", "edgedevice", "edgesignalrule", "eventtype", "eventsubscription",
            "connector", "connectorcontract", "edgesignal", "edgehealthcheck",
            "edgecommand", "domainevent", "eventdelivery", "indicatorsnapshot",
            "outboundmessage", "inboundmessage", "reconciliationrun"} :
    OfModule(m) /\ m \notin Controls
  BY DEF OfModule, CompanyModels, Controls

LEMMA EdgeScreensFit ==
  FitPages(GatewayScreens) /\ FitPages(DeviceScreens) /\ FitPages(SignalScreens)
<1> DEFINE seen == {Plain(<<"detail", "edgegateway">>), Plain(<<"detail", "edgesignal">>)}
           bar == {Viewed(m) : m \in {"edgesignal", "edgehealthcheck", "edgecommand"}}
           gateways == {Plain(<<"detail", "edgegateway">>)}
           gateway == {Link(<<"ping", "edgegateway">>, Add("edgecommand")),
                       Link(<<"rotate", "edgegateway">>, Change("edgegateway")),
                       Link(<<"edit", "edgegateway">>, Change("edgegateway")),
                       Link(<<"new", "edgedevice">>, Add("edgedevice")),
                       Plain(<<"detail", "edgesignal">>)}
           signals == {Plain(<<"detail", "edgesignal">>)}
           oneSignal == {Link(<<"retry", "edgesignal">>, Change("edgesignal"))}
           commands == {Link(<<"new", "edgecommand">>, Add("edgecommand"))}
<1>1. /\ OfModule("edgegateway") /\ ServesAll("edgegateway") /\ "edgegateway" \notin Controls
      /\ OfModule("edgedevice") /\ ServesAll("edgedevice")
      /\ OfModule("edgesignalrule") /\ ServesAll("edgesignalrule")
      /\ OfModule("edgesignal") /\ "edgesignal" \notin Controls
      /\ OfModule("edgehealthcheck") /\ OfModule("edgecommand")
  BY BridgeModels, BridgeServes
<1>2. /\ <<"detail", "edgegateway">> \in Addresses /\ <<"detail", "edgesignal">> \in Addresses
      /\ List("edgesignal") \in Addresses /\ List("edgehealthcheck") \in Addresses
      /\ List("edgecommand") \in Addresses /\ <<"new", "edgecommand">> \in Addresses
      /\ <<"ping", "edgegateway">> \in Addresses /\ <<"rotate", "edgegateway">> \in Addresses
      /\ <<"retry", "edgesignal">> \in Addresses
  BY BridgeServes
<1>3. /\ Asked(<<"ping", "edgegateway">>) = AsksFor(Add("edgecommand"))
      /\ Asked(<<"rotate", "edgegateway">>) = AsksFor(Change("edgegateway"))
      /\ Asked(<<"retry", "edgesignal">>) = AsksFor(Change("edgesignal"))
  BY AskedByPost, AskedByChange
<1>4. Honest(<<"panel", "edge">>, seen)
  BY <1>2, PlainGrants DEF Honest
<1>5. Honest(<<"panel", "edge">>, bar)
  BY <1>1, <1>2, ListGrants DEF Honest
<1>6. Honest(List("edgegateway"), gateways) /\ Honest(List("edgesignal"), signals)
  BY <1>2, PlainGrants DEF Honest
<1>7. Honest(<<"detail", "edgegateway">>, gateway)
  BY <1>1, <1>2, <1>3, PlainGrants, LinkGrants, NewGrants, EditGrants
     DEF Honest, ServesAll, ServesForms
<1>8. Honest(<<"detail", "edgesignal">>, oneSignal)
  BY <1>2, <1>3, LinkGrants DEF Honest
<1>9. Honest(List("edgecommand"), commands)
  BY <1>1, <1>2, NewGrants DEF Honest
<1>10. OtherMenus.edge = bar
  BY DEF OtherMenus
<1> HIDE DEF seen, bar, gateways, gateway, signals, oneSignal, commands
<1>11. FitPages({Screen(<<"panel", "edge">>, View("edgegateway"), seen \union bar)})
  BY <1>4, <1>5, SoundUnion, AskedByPanel, OneScreenFits
<1>12. /\ FitPages(OpenListing("edgegateway", gateways))
       /\ FitPages(OpenListing("edgedevice", {})) /\ FitPages(OpenListing("edgesignalrule", {}))
  BY <1>1, <1>6, NoLinksSound, OpenListingFits
<1>13. FitPages(Detail("edgegateway", gateway)) /\ FitPages(Detail("edgesignal", oneSignal))
  BY <1>1, <1>7, <1>8, DetailFits
<1>14. /\ FitPages(Post(<<"rotate", "edgegateway">>, Change("edgegateway")))
       /\ FitPages(Post(<<"ping", "edgegateway">>, Add("edgecommand")))
       /\ FitPages(Post(<<"retry", "edgesignal">>, Change("edgesignal")))
  BY <1>3, PostFits
<1>15. /\ FitPages(ReadOnly("edgesignal", signals)) /\ FitPages(ReadOnly("edgehealthcheck", {}))
       /\ FitPages(ReadOnly("edgecommand", commands))
  BY <1>1, <1>6, <1>9, NoLinksSound, ReadOnlyFits
<1>16. FitPages({Screen(<<"new", "edgecommand">>, Add("edgecommand"),
                   {Plain(List("edgecommand"))})})
  BY <1>1, <1>2, NewFits
<1>17. FitPages(GatewayScreens)
  BY <1>10, <1>11, <1>12, <1>13, <1>14, FitUnion DEF GatewayScreens, seen, gateways, gateway
<1>18. FitPages(DeviceScreens)
  BY <1>12, FitUnion DEF DeviceScreens
<1>19. FitPages(SignalScreens)
  BY <1>13, <1>14, <1>15, <1>16, FitUnion DEF SignalScreens, signals, oneSignal, commands
<1> QED
  BY <1>17, <1>18, <1>19

LEMMA EventScreensFit == FitPages(EventScreens) /\ FitPages(SubscriptionScreens)
<1> DEFINE panel == {Link(<<"dispatch", "eventdelivery">>, Change("eventdelivery")),
                     Link(<<"rebuild", "indicatorsnapshot">>, Change("eventdelivery")),
                     Plain(<<"detail", "domainevent">>)}
           bar == {Viewed(m) : m \in {"domainevent", "eventdelivery", "indicatorsnapshot"}}
           event == {Link(<<"retry", "eventdelivery">>, Change("eventdelivery"))}
           deliveries == {Plain(<<"detail", "domainevent">>)}
<1>1. /\ OfModule("eventtype") /\ ServesAll("eventtype")
      /\ OfModule("eventsubscription") /\ ServesAll("eventsubscription")
      /\ OfModule("domainevent") /\ "domainevent" \notin Controls
      /\ OfModule("eventdelivery") /\ OfModule("indicatorsnapshot")
  BY BridgeModels, BridgeServes
<1>2. /\ <<"detail", "domainevent">> \in Addresses /\ List("domainevent") \in Addresses
      /\ List("eventdelivery") \in Addresses /\ List("indicatorsnapshot") \in Addresses
      /\ <<"dispatch", "eventdelivery">> \in Addresses
      /\ <<"rebuild", "indicatorsnapshot">> \in Addresses
      /\ <<"retry", "eventdelivery">> \in Addresses
  BY BridgeServes
<1>3. /\ Asked(<<"dispatch", "eventdelivery">>) = AsksFor(Change("eventdelivery"))
      /\ Asked(<<"retry", "eventdelivery">>) = AsksFor(Change("eventdelivery"))
      /\ Asked(<<"seed", "eventtype">>) = AsksFor(Add("eventtype"))
      /\ Asked(<<"rebuild", "indicatorsnapshot">>) = AsksFor(Change("indicatorsnapshot"))
  BY AskedByPost, AskedByChange
<1>4. <<"rebuild", "indicatorsnapshot">> \in PromisedByAnother
  BY DEF PromisedByAnother
<1>5. Honest(<<"panel", "eventbus">>, panel)
  BY <1>2, <1>3, <1>4, PlainGrants, LinkGrants, PromisedGrants DEF Honest
<1>6. Honest(<<"panel", "eventbus">>, bar)
  BY <1>1, <1>2, ListGrants DEF Honest
<1>7. Honest(<<"detail", "domainevent">>, event)
  BY <1>2, <1>3, LinkGrants DEF Honest
<1>8. Honest(List("eventdelivery"), deliveries) /\ Honest(List("domainevent"), deliveries)
  BY <1>2, PlainGrants DEF Honest
<1>9. OtherMenus.eventbus = bar
  BY DEF OtherMenus
<1> HIDE DEF panel, bar, event, deliveries
<1>10. FitPages({Screen(<<"panel", "eventbus">>, View("domainevent"), panel \union bar)})
  BY <1>5, <1>6, SoundUnion, AskedByPanel, OneScreenFits
<1>11. /\ FitPages(OpenListing("eventtype", {})) /\ FitPages(OpenListing("eventsubscription", {}))
  BY <1>1, NoLinksSound, OpenListingFits
<1>12. /\ FitPages(ReadOnly("domainevent", deliveries))
       /\ FitPages(ReadOnly("eventdelivery", deliveries))
       /\ FitPages(ReadOnly("indicatorsnapshot", {}))
  BY <1>1, <1>8, NoLinksSound, ReadOnlyFits
<1>13. FitPages(Detail("domainevent", event))
  BY <1>1, <1>7, DetailFits
<1>14. /\ FitPages(Post(<<"dispatch", "eventdelivery">>, Change("eventdelivery")))
       /\ FitPages(Post(<<"retry", "eventdelivery">>, Change("eventdelivery")))
       /\ FitPages(Post(<<"seed", "eventtype">>, Add("eventtype")))
       /\ FitPages(Post(<<"rebuild", "indicatorsnapshot">>, Change("indicatorsnapshot")))
  BY <1>3, PostFits
<1>15. FitPages(EventScreens)
  BY <1>9, <1>10, <1>11, <1>12, <1>13, FitUnion DEF EventScreens, panel, deliveries, event
<1>16. FitPages(SubscriptionScreens)
  BY <1>11, <1>12, <1>14, FitUnion DEF SubscriptionScreens, deliveries
<1> QED
  BY <1>15, <1>16

LEMMA ConnectScreensFit ==
  /\ FitPages(ConnectorScreens) /\ FitPages(ContractScreens) /\ FitPages(MessageScreens)
  /\ FitPages(MessagePosts)
<1> DEFINE panel == {Link(<<"flush", "outboundmessage">>, Change("outboundmessage")),
                     Link(<<"new", "reconciliationrun">>, Add("reconciliationrun")),
                     Plain(<<"detail", "connector">>), Plain(<<"detail", "outboundmessage">>),
                     Plain(<<"detail", "reconciliationrun">>)}
           bar == {Viewed(m) : m \in {"outboundmessage", "inboundmessage",
                     "reconciliationrun"}}
           connectors == {Plain(<<"detail", "connector">>)}
           connector == {Link(<<"edit", "connector">>, Change("connector")),
                         Link(<<"new", "connectorcontract">>, Add("connectorcontract")),
                         Plain(<<"detail", "outboundmessage">>)}
           messages == {Plain(<<"detail", "outboundmessage">>)}
           message == {Link(<<"send", "outboundmessage">>, Change("outboundmessage")),
                       Plain(<<"detail", "domainevent">>)}
           runs == {Plain(<<"detail", "reconciliationrun">>)}
           run == {Link(<<"requeue", "reconciliationrun">>, Change("outboundmessage"))}
<1>1. /\ OfModule("connector") /\ ServesAll("connector") /\ "connector" \notin Controls
      /\ OfModule("connectorcontract") /\ ServesAll("connectorcontract")
      /\ OfModule("outboundmessage") /\ "outboundmessage" \notin Controls
      /\ OfModule("inboundmessage")
      /\ OfModule("reconciliationrun") /\ "reconciliationrun" \notin Controls
  BY BridgeModels, BridgeServes
<1>2. /\ <<"detail", "connector">> \in Addresses /\ <<"detail", "outboundmessage">> \in Addresses
      /\ <<"detail", "reconciliationrun">> \in Addresses
      /\ <<"detail", "domainevent">> \in Addresses
      /\ List("outboundmessage") \in Addresses /\ List("inboundmessage") \in Addresses
      /\ List("reconciliationrun") \in Addresses
      /\ <<"new", "reconciliationrun">> \in Addresses
      /\ <<"flush", "outboundmessage">> \in Addresses
      /\ <<"send", "outboundmessage">> \in Addresses
      /\ <<"requeue", "reconciliationrun">> \in Addresses
  BY BridgeServes
<1>3. /\ Asked(<<"flush", "outboundmessage">>) = AsksFor(Change("outboundmessage"))
      /\ Asked(<<"send", "outboundmessage">>) = AsksFor(Change("outboundmessage"))
      /\ Asked(<<"requeue", "reconciliationrun">>) = AsksFor(Change("outboundmessage"))
  BY AskedByPost, AskedByChange
<1>4. Honest(<<"panel", "connect">>, panel)
  BY <1>1, <1>2, <1>3, PlainGrants, LinkGrants, NewGrants DEF Honest
<1>5. Honest(<<"panel", "connect">>, bar)
  BY <1>1, <1>2, ListGrants DEF Honest
<1>6. /\ Honest(List("connector"), connectors) /\ Honest(List("outboundmessage"), messages)
      /\ Honest(List("reconciliationrun"), runs)
  BY <1>2, PlainGrants DEF Honest
<1>7. Honest(<<"detail", "connector">>, connector)
  BY <1>1, <1>2, PlainGrants, NewGrants, EditGrants DEF Honest, ServesAll, ServesForms
<1>8. Honest(<<"detail", "outboundmessage">>, message)
  BY <1>2, <1>3, PlainGrants, LinkGrants DEF Honest
<1>9. Honest(<<"detail", "reconciliationrun">>, run)
  BY <1>2, <1>3, LinkGrants DEF Honest
<1>10. OtherMenus.connect = bar
  BY DEF OtherMenus
<1> HIDE DEF panel, bar, connectors, connector, messages, message, runs, run
<1>11. FitPages({Screen(<<"panel", "connect">>, View("connector"), panel \union bar)})
  BY <1>4, <1>5, SoundUnion, AskedByPanel, OneScreenFits
<1>12. /\ FitPages(OpenListing("connector", connectors))
       /\ FitPages(OpenListing("connectorcontract", {}))
  BY <1>1, <1>6, NoLinksSound, OpenListingFits
<1>13. /\ FitPages(Detail("connector", connector))
       /\ FitPages(Detail("outboundmessage", message))
       /\ FitPages(Detail("reconciliationrun", run))
  BY <1>1, <1>7, <1>8, <1>9, DetailFits
<1>14. /\ FitPages(ReadOnly("outboundmessage", messages))
       /\ FitPages(ReadOnly("inboundmessage", {})) /\ FitPages(ReadOnly("reconciliationrun", runs))
  BY <1>1, <1>6, NoLinksSound, ReadOnlyFits
<1>15. FitPages({Screen(<<"new", "reconciliationrun">>, Add("reconciliationrun"),
                   {Plain(List("reconciliationrun"))})})
  BY <1>1, <1>2, NewFits
<1>16. /\ FitPages(Post(<<"flush", "outboundmessage">>, Change("outboundmessage")))
       /\ FitPages(Post(<<"send", "outboundmessage">>, Change("outboundmessage")))
       /\ FitPages(Post(<<"requeue", "reconciliationrun">>, Change("outboundmessage")))
  BY <1>3, PostFits
<1>17. FitPages(ConnectorScreens)
  BY <1>10, <1>11, <1>12, <1>13, FitUnion DEF ConnectorScreens, panel, connectors, connector
<1>18. FitPages(ContractScreens)
  BY <1>12 DEF ContractScreens
<1>19. FitPages(MessageScreens)
  BY <1>13, <1>14, FitUnion DEF MessageScreens, messages, message, runs, run
<1>20. FitPages(MessagePosts)
  BY <1>15, <1>16, FitUnion DEF MessagePosts
<1> QED
  BY <1>17, <1>18, <1>19, <1>20

LEMMA BridgeFits == FitPages(BridgeScreens)
  BY EdgeScreensFit, EventScreensFit, ConnectScreensFit DEF BridgeScreens, FitPages

LEMMA CompanyScreenFits ==
  \A s, links : Asked(s) = AsksOf("company") /\ Honest(s, links) =>
                  FitPages({CompanyScreen(s, links)})
<1> SUFFICES ASSUME NEW s, NEW links, Asked(s) = AsksOf("company"), Honest(s, links)
             PROVE  Fitting(Unlisted(s, "company", links))
  BY DEF FitPages, CompanyScreen
<1> QED
  BY UnlistedFits DEF Honest

LEMMA StoreFits == FitPages(StoreScreens)
<1>1. ASSUME NEW m \in {"unitofmeasure", "warehouse", "location"}
      PROVE  FitPages(CompanyListing(m))
  <2> DEFINE list == {Plain(<<"new", m>>), Plain(<<"edit", m>>)}
             form == {Plain(List(m))}
  <2>1. ServesAll(m)
    BY CompanyServes
  <2>2. /\ Asked(List(m)) = AsksOf("company") /\ Asked(<<"new", m>>) = AsksOf("company")
        /\ Asked(<<"edit", m>>) = AsksOf("company")
    BY AskedByCompany
  <2>3. Honest(List(m), list)
    BY <2>1, PlainGrants DEF Honest, ServesAll, ServesForms
  <2>4. Honest(<<"new", m>>, form) /\ Honest(<<"edit", m>>, form)
    BY <2>1, PlainGrants DEF Honest, ServesAll
  <2> HIDE DEF list, form
  <2>5. /\ FitPages({CompanyScreen(List(m), list)})
        /\ FitPages({CompanyScreen(<<"new", m>>, form)})
        /\ FitPages({CompanyScreen(<<"edit", m>>, form)})
    BY <2>2, <2>3, <2>4, CompanyScreenFits
  <2> QED
    BY <2>5 DEF FitPages, CompanyListing, list, form
<1> QED
  BY <1>1 DEF StoreScreens, FitPages

\* The menu of the settings leads to the company's models and to those of the modules.
LEMMA SettingsFit == FitPages(SettingsScreens)
<1> DEFINE basic == {Plain(s) : s \in {<<"edit", "companyconfig">>, <<"panel", "system_info">>,
                     List("unitofmeasure"), List("warehouse"), List("location")}}
           bar == {Viewed(m) : m \in {"plant", "plantarea", "assemblyline", "assemblystation",
                     "equipmentintegration", "assembledproduct", "productversion",
                     "assemblyroute", "assemblyroutestep", "routestepparameter",
                     "routestepcomponentrequirement", "material", "materialcategory",
                     "wmslocationprofile", "replenishmentrule", "edgegateway", "edgedevice",
                     "edgesignalrule", "eventtype", "eventsubscription", "connector",
                     "connectorcontract"}}
           back == {Plain(<<"panel", "settings">>)}
<1>1. /\ <<"edit", "companyconfig">> \in Addresses /\ <<"panel", "system_info">> \in Addresses
      /\ <<"panel", "settings">> \in Addresses
      /\ List("unitofmeasure") \in Addresses /\ List("warehouse") \in Addresses
      /\ List("location") \in Addresses
  BY CompanyServes DEF ServesAll
<1>2. \A s : Honest(s, basic)
  BY <1>1, PlainGrants DEF Honest
<1>3. \A s : \A m \in {"plant", "plantarea", "assemblyline", "assemblystation",
                       "equipmentintegration", "assembledproduct", "productversion",
                       "assemblyroute", "assemblyroutestep", "routestepparameter",
                       "routestepcomponentrequirement"} : Grants(s, Viewed(m))
  BY AssemblyModels, ListGrants DEF AssemblyEdited, ServesAll
<1>4. \A s : \A m \in {"material", "materialcategory", "wmslocationprofile",
                       "replenishmentrule"} : Grants(s, Viewed(m))
  BY WarehouseModels, WarehouseServes, ListGrants DEF ServesAll
<1>5. \A s : \A m \in {"edgegateway", "edgedevice", "edgesignalrule", "eventtype",
                       "eventsubscription", "connector", "connectorcontract"} :
               Grants(s, Viewed(m))
  BY BridgeModels, BridgeServes, ListGrants DEF ServesAll
<1>6. \A s : Honest(s, bar)
  BY <1>3, <1>4, <1>5 DEF Honest
<1>7. \A s : Honest(s, back)
  BY <1>1, PlainGrants DEF Honest
<1>8. SettingsMenu = basic \union bar
  BY DEF SettingsMenu
<1> HIDE DEF basic, bar, back
<1>9. \A s : Honest(s, SettingsMenu)
  BY <1>2, <1>6, <1>8, SoundUnion
<1>10. /\ FitPages({CompanyScreen(<<"panel", "settings">>, SettingsMenu)})
       /\ FitPages({CompanyScreen(<<"panel", "system_info">>, SettingsMenu)})
       /\ FitPages({CompanyScreen(<<"edit", "companyconfig">>, back)})
  BY <1>7, <1>9, AskedByPanel, AskedByCompany, CompanyScreenFits
<1> QED
  BY <1>10 DEF FitPages, SettingsScreens, back

LEMMA RowsSound ==
  \A s : \A models \in SUBSET (AssemblyEdited \union {"stationofflineevent"}) :
    Honest(s, Rows(models))
<1>1. \A m \in AssemblyEdited \union {"stationofflineevent"} :
        OfModule(m) /\ List(m) \in Addresses
  BY AssemblyModels, AssemblyLists DEF ServesAll
<1> QED
  BY <1>1, ListGrants DEF Honest, Rows

LEMMA SideBarSound == \A s : Honest(s, SideBar)
<1>1. /\ <<"panel", "wms">> \in Addresses /\ <<"panel", "edge">> \in Addresses
      /\ <<"panel", "eventbus">> \in Addresses /\ <<"panel", "connect">> \in Addresses
      /\ <<"panel", "settings">> \in Addresses /\ List("user") \in Addresses
  BY WarehouseServes, BridgeServes, CompanyServes
<1>2. <<"panel", "wms">> \in PromisedByAnother /\ List("user") \in PromisedByAnother
  BY DEF PromisedByAnother
<1>3. \A s : /\ Grants(s, Link(<<"panel", "wms">>, View("material")))
             /\ Grants(s, AdminLink(List("user")))
  BY <1>1, <1>2, PromisedGrants
<1>4. \A s : /\ Grants(s, Link(<<"panel", "edge">>, View("edgegateway")))
             /\ Grants(s, Link(<<"panel", "eventbus">>, View("domainevent")))
             /\ Grants(s, Link(<<"panel", "connect">>, View("connector")))
             /\ Grants(s, AdminLink(<<"panel", "settings">>))
  BY <1>1, AskedByPanel, LinkGrants, AdminGrants
<1> QED
  BY <1>3, <1>4, PanelLinks DEF Honest, SideBar

LEMMA DashboardSound == \A s : Honest(s, Dashboard(TRUE))
<1> SUFFICES ASSUME NEW s
             PROVE  Honest(s, Dashboard(TRUE))
  OBVIOUS
<1> DEFINE console == {Link(<<"panel", "console">>, Add("unitstationevent"))}
           metrics == {Link(<<"panel", "metrics">>, View("unitstationevent"))}
           settings == {AdminLink(<<"panel", "settings">>)}
           advanced(tests) == {AnyOf(<<"panel", "advanced">>, tests)}
<1>1. Honest(s, console) /\ Honest(s, metrics) /\ \A tests : Honest(s, advanced(tests))
  BY PanelLinks DEF Honest
<1>2. Honest(s, settings)
  BY CompanyServes, AskedByPanel, AdminGrants DEF Honest
<1>3. Honest(s, StationPoints)
  <2>1. Honest(s, Rows({"productionqueueitem"}))
    BY RowsSound DEF AssemblyEdited
  <2> QED
    BY <1>1, <2>1, SoundUnion DEF StationPoints
<1>4. Honest(s, OpenIssues)
  BY RowsSound DEF OpenIssues, AssemblyEdited
<1>5. Honest(s, WorkflowSteps)
  <2>1. Honest(s, Rows({"productionplan", "productionqueueitem", "releaseapproval"}))
    BY RowsSound DEF AssemblyEdited
  <2>2. Honest(s, WorkflowSteps)
    BY <1>1, <1>2, <2>1 DEF Honest, WorkflowSteps
  <2> QED
    BY <2>2
<1>6. Honest(s, NextActions)
  <2>1. Honest(s, Rows({"stationofflineevent", "productiondowntime", "qualitygate",
                       "reworkorder", "externalmaterialkit", "productionplan"}))
    BY RowsSound DEF AssemblyEdited
  <2> QED
    BY <1>1, <2>1 DEF Honest, NextActions
<1>7. Honest(s, KpiCards)
  <2>1. Honest(s, Rows({"productionplan", "qualitygate", "productiondowntime",
                       "releaseapproval"}))
    BY RowsSound DEF AssemblyEdited
  <2> QED
    BY <1>1, <2>1 DEF Honest, KpiCards
<1>8. Honest(s, ModuleCards)
  <2>1. ServesAll("qualitygate") /\ ServesAll("equipmentintegration")
    BY AssemblyModels DEF AssemblyEdited
  <2>2. <<"panel", "assembly">> \in Addresses /\ <<"panel", "advanced">> \in Addresses
    BY AssemblyOthers DEF AssemblyPanels
  <2> QED
    BY <2>1, <2>2, PlainGrants DEF Honest, ModuleCards, ServesAll
<1>9. Honest(s, SideBar) /\ Honest(s, AreaCards)
  BY SideBarSound DEF AreaCards
<1> QED
  BY <1>3, <1>4, <1>5, <1>6, <1>7, <1>8, <1>9, SoundUnion DEF Dashboard

LEMMA HomeFits == FitPages(HomeScreen) /\ FitPages(UserScreen)
<1>1. Fitting(Unlisted(Home, "anyone", Dashboard(TRUE)))
  BY DashboardSound, AskedByPanel, UnlistedFits DEF Honest, HomeScreen
<1>2. Fitting(Unlisted(List("user"), "members", {}))
  BY AskedByCompany, UnlistedFits
<1> QED
  BY <1>1, <1>2 DEF FitPages, HomeScreen, UserScreen

\* All of the table fits.
LEMMA TableFits == FitPages(Pages)
  BY AssemblyFits, WarehouseFits, BridgeFits, SettingsFit, StoreFits, HomeFits
     DEF FitPages, Pages

\* What answers at an address asks what the address says.
LEMMA CatalogAsks ==
  \A s \in Addresses :
    [open |-> Catalog[s].open, needs |-> Catalog[s].needs, must |-> Catalog[s].must] = Asked(s)
<1> SUFFICES ASSUME NEW s \in Addresses
             PROVE  [open |-> Catalog[s].open, needs |-> Catalog[s].needs,
                     must |-> Catalog[s].must] = Asked(s)
  OBVIOUS
<1>1. Catalog[s] \in Pages /\ Catalog[s].at = s
  BY DEF Addresses, Catalog
<1> QED
  BY <1>1, TableFits DEF FitPages, Fitting

\* The links of a page are sound, and they are those of the table, or fewer.
LEMMA LinksGrant ==
  \A s \in Addresses : \A l \in LinksOf(s) : Grants(s, l) /\ l \in Catalog[s].links
<1> SUFFICES ASSUME NEW s \in Addresses, NEW l \in LinksOf(s)
             PROVE  Grants(s, l) /\ l \in Catalog[s].links
  OBVIOUS
<1>1. Catalog[s] \in Pages /\ Catalog[s].at = s
  BY DEF Addresses, Catalog
<1>2. Fitting(Catalog[s])
  BY <1>1, TableFits DEF FitPages
<1>3. CASE s = Home
  <2>1. Catalog[s].open = "anyone"
    BY <1>3, CatalogAsks, AskedByPanel DEF AsksOf
  <2>2. Catalog[s].links = Dashboard(TRUE)
    <3>1. Catalog[s] = Unlisted(Home, "anyone", Dashboard(TRUE))
      BY <1>2, <2>1 DEF Fitting, HomeScreen
    <3> QED
      BY <3>1 DEF Unlisted
  <2>3. l \in Dashboard(TRUE)
    BY <1>3 DEF LinksOf, Dashboard
  <2> QED
    BY <2>2, <2>3, DashboardSound DEF Honest
<1>4. CASE s # Home
  BY <1>1, <1>2, <1>4 DEF LinksOf, Fitting
<1> QED
  BY <1>3, <1>4

\* A page that is not stale shows what its user may see, and its user was admitted to it.
ServedPage ==
  ~ stale => Admits(page) /\ shown = {l \in LinksOf(page) : Shows(l)}

ScreensInv == ScreensTypeOK /\ ServedPage

LEMMA SignedInServed == SignedIn => ScreensInv
<1> SUFFICES ASSUME SignedIn
             PROVE  ScreensInv
  OBVIOUS
<1>1. page \in Addresses
  BY EntrancesAssumption DEF SignedIn, Addresses
<1>2. shown \subseteq LinksOf(page)
  BY DEF SignedIn
<1>3. shown \subseteq Catalog[page].links
  BY <1>1, <1>2, LinksGrant
<1>4. ServedPage
  BY DEF SignedIn, ServedPage
<1>5. revoked \in 0 .. MaxRevoked
  BY EntrancesAssumption DEF SignedIn
<1> QED
  BY <1>1, <1>3, <1>4, <1>5 DEF SignedIn, ScreensInv, ScreensTypeOK, Addresses

LEMMA ScreensStep == ScreensInv /\ [ScreensNext]_screenVars => ScreensInv'
<1> SUFFICES ASSUME ScreensInv, [ScreensNext]_screenVars
             PROVE  ScreensInv'
  OBVIOUS
<1>1. ASSUME NEW l \in shown, ShowPage(l.to)
      PROVE  ScreensInv'
  <2>1. l \in Catalog[page].links /\ page \in Addresses
    BY DEF ScreensInv, ScreensTypeOK, Addresses
  <2>2. Fitting(Catalog[page])
    <3>1. Catalog[page] \in Pages
      BY <2>1 DEF Addresses, Catalog
    <3> QED
      BY <3>1, TableFits DEF FitPages
  <2>3. l.to \in Addresses
    BY <2>1, <2>2 DEF Fitting, Grants
  <2>4. /\ page' = l.to /\ stale' = FALSE
        /\ who' = who /\ held' = held /\ revoked' = revoked
        /\ Admits(l.to) /\ shown' = {k \in LinksOf(l.to) : Shows(k)}
    BY <1>1 DEF ShowPage
  <2>5. ServedPage'
    BY <2>4 DEF ServedPage, Admits, LinksOf, Shows, Holds
  <2>6. shown' \subseteq Catalog[page'].links
    BY <2>3, <2>4, LinksGrant
  <2> QED
    BY <2>3, <2>4, <2>5, <2>6 DEF ScreensInv, ScreensTypeOK, Addresses
<1>2. ASSUME NEW p \in held, Revoke(p)
      PROVE  ScreensInv'
  BY <1>2, EntrancesAssumption DEF ScreensInv, ScreensTypeOK, ServedPage, Revoke
<1>3. CASE UNCHANGED screenVars
  BY <1>3 DEF screenVars, ScreensInv, ScreensTypeOK, ServedPage, Admits, LinksOf, Shows, Holds
<1> QED
  BY <1>1, <1>2, <1>3 DEF ScreensNext, Follow

\* In a served page's state a sound link keeps its promise.
LEMMA GrantsKept ==
  ASSUME ScreensInv, ~ stale, NEW l \in LinksOf(page), l.to \notin PromisedByAnother
  PROVE  /\ l \in shown /\ l.by # "nothing" => Admits(l.to)
         /\ who = "plain" /\ Admits(l.to) => l \in shown
<1>1. /\ page \in Addresses /\ Admits(page)
      /\ l \in shown <=> Shows(l)
  BY DEF ScreensInv, ScreensTypeOK, ServedPage, Addresses
<1>2. Grants(page, l)
  BY <1>1, LinksGrant
<1>3. l.to \in Addresses
  BY <1>2 DEF Grants
<1>4. [open |-> Catalog[l.to].open, needs |-> Catalog[l.to].needs,
       must |-> Catalog[l.to].must] = Asked(l.to)
  BY <1>3, CatalogAsks
<1>5. [open |-> Catalog[page].open, needs |-> Catalog[page].needs,
       must |-> Catalog[page].must] = Asked(page)
  BY <1>1, CatalogAsks
<1>6. CASE l.by = "nothing"
  BY <1>1, <1>6 DEF Shows
<1>7. CASE l.by = "company" /\ Asked(l.to) = AsksOf("company")
  BY <1>1, <1>4, <1>7 DEF Shows, Admits, AsksOf
<1>8. ASSUME NEW p, l.by \in {"permission", "menu"}, l.tests = {p}, Asked(l.to) = AsksFor(p)
      PROVE  /\ Shows(l) => Admits(l.to)
             /\ who = "plain" /\ Admits(l.to) => Shows(l)
  <2>1. /\ Catalog[l.to].open = "module" /\ Catalog[l.to].needs = {p}
        /\ Catalog[l.to].must = {}
    BY <1>4, <1>8 DEF AsksFor
  <2>2. Admits(l.to) <=> who # "plain" \/ p \in held
    BY <2>1 DEF Admits
  <2> QED
    BY <1>8, <2>2 DEF Shows, Holds
<1>9. ASSUME NEW p, NEW q, l.by = "permission", l.tests = {q},
             Asked(l.to) = AsksBoth(p, q), Asked(page) = AsksFor(p)
      PROVE  /\ Shows(l) => Admits(l.to)
             /\ who = "plain" /\ Admits(l.to) => Shows(l)
  <2>1. /\ Catalog[l.to].open = "module" /\ Catalog[l.to].needs = {p}
        /\ Catalog[l.to].must = {q}
    BY <1>4, <1>9 DEF AsksBoth
  <2>2. Catalog[page].open = "module" /\ Catalog[page].needs = {p}
    BY <1>5, <1>9 DEF AsksFor
  <2>3. who # "plain" \/ p \in held
    BY <1>1, <2>2 DEF Admits
  <2>4. Admits(l.to) <=> (who # "plain" \/ p \in held) /\ Holds(q)
    BY <2>1 DEF Admits
  <2> QED
    BY <1>9, <2>3, <2>4 DEF Shows
<1>10. ASSUME NEW p, NEW q, l.by = "permissions", l.tests = {p, q},
              Asked(l.to) = AsksBoth(p, q)
       PROVE  /\ Shows(l) => Admits(l.to)
              /\ who = "plain" /\ Admits(l.to) => Shows(l)
  <2>1. /\ Catalog[l.to].open = "module" /\ Catalog[l.to].needs = {p}
        /\ Catalog[l.to].must = {q}
    BY <1>4, <1>10 DEF AsksBoth
  <2>2. Admits(l.to) <=> (who # "plain" \/ p \in held) /\ Holds(q)
    BY <2>1 DEF Admits
  <2> QED
    BY <1>10, <2>2 DEF Shows, Holds
<1> QED
  BY <1>1, <1>2, <1>6, <1>7, <1>8, <1>9, <1>10 DEF Grants

LEMMA LinksKept == ScreensInv => LinkIsAdmitted
  BY GrantsKept DEF LinkIsAdmitted

LEMMA ScreensInvariant == AnyRoleSpec => []ScreensInv
  BY SignedInServed, ScreensStep, PTL DEF AnyRoleSpec

\* A page's type, whatever permissions the role has and whatever it loses
THEOREM ScreensTypeHolds == AnyRoleSpec => []ScreensTypeOK
<1>1. ScreensInv => ScreensTypeOK
  BY DEF ScreensInv
<1> QED
  BY <1>1, ScreensInvariant, PTL

\* Whatever permissions the role has, a link or a button that a served page shows on a test
\* leads to a screen that serves the user, and a plain user sees all of them that would.
THEOREM LinkIsAdmittedHolds == AnyRoleSpec => []LinkIsAdmitted
  BY LinksKept, ScreensInvariant, PTL

\* The roles the run enumerates are some of them.
LEMMA SomeRoles == ScreensSpec => AnyRoleSpec
  BY DEF ScreensSpec, AnyRoleSpec, ScreensInit
(***************************************************************************)
(* The plant.  Whichever component is in focus, what happens is a          *)
(* behaviour of every one of them, as the others stand still.  So all that *)
(* is proved of the components holds in the instance TLC checks.           *)
(***************************************************************************)
PlantParts ==
  /\ PlanningSpec /\ ModelMixSpec /\ FloorCallsSpec /\ StationIntakeSpec /\ LineFeedingSpec
  /\ PokaYokeSpec /\ TenantsSpec /\ ScreensSpec /\ SignalFactsSpec /\ LineBalanceSpec

\* A step of the plant is one of the component in focus, and no step of the others.
LEMMA PlantStep ==
  ASSUME [PlantNext]_PlantVars
  PROVE  /\ [PlanningNext]_planVars /\ [ModelMixNext]_mixVars /\ [FloorCallsNext]_floorVars
         /\ [StationIntakeNext]_intakeVars /\ [LineFeedingNext]_feedVars
         /\ [PokaYokeNext]_scanVars /\ [TenantsNext]_tenantVars
         /\ [ScreensNext]_screenVars /\ [SignalFactsNext]_factVars
         /\ [LineBalanceNext]_balanceVars
         /\ UNCHANGED focus
<1>1. CASE UNCHANGED PlantVars
  BY <1>1 DEF PlantVars
<1>2. CASE PlantNext
  BY <1>2 DEF PlantNext, FloorCallsNext, LineFeedingNext, SignalFactsNext
<1> QED
  BY <1>1, <1>2

\* What the run of the plant explores are behaviours of each component's specification.
THEOREM PlantIsItsParts == PlantSpec => PlantParts
<1>1. PlantInit => /\ PlanningInit /\ ModelMixInit /\ FloorCallsInit /\ StationIntakeInit
                   /\ LineFeedingInit /\ PokaYokeInit /\ TenantsInit /\ ScreensInit
                   /\ SignalFactsInit /\ LineBalanceInit
  BY DEF PlantInit
<1> QED
  BY <1>1, PlantStep, PTL
     DEF PlantSpec, PlantParts, PlanningSpec, ModelMixSpec, FloorCallsSpec, StationIntakeSpec,
         LineFeedingSpec, PokaYokeSpec, TenantsSpec, ScreensSpec, SignalFactsSpec,
         LineBalanceSpec

\* Every variable of every component keeps its type, whichever is in focus.
THEOREM PlantTypeCorrect == PlantSpec => []TypeOK
<1>1. PlantInit => focus \in Parts
  BY DEF PlantInit
<1>2. focus \in Parts /\ [PlantNext]_PlantVars => (focus \in Parts)'
  BY PlantStep
<1>3. FloorCallsSpec => []FloorCallsTypeOK
  <2>1. FInv => FloorCallsTypeOK
    BY DEF FInv
  <2> QED
    BY <2>1, FloorInvariance, PTL
<1>4. StationIntakeSpec => []StationIntakeTypeOK
  <2>1. IInv => StationIntakeTypeOK
    BY DEF IInv
  <2> QED
    BY <2>1, IntakeInvariance, PTL
<1>5. SignalFactsSpec => []SignalFactsTypeOK
  <2>1. SInv => SignalFactsTypeOK
    BY DEF SInv
  <2> QED
    BY <2>1, FactsInvariance, PTL
<1>6. ScreensSpec => []ScreensTypeOK
  BY SomeRoles, ScreensTypeHolds, PTL
<1>7. /\ focus \in Parts /\ PlanningTypeOK /\ ModelMixTypeOK /\ FloorCallsTypeOK
      /\ StationIntakeTypeOK /\ LineFeedingTypeOK /\ PokaYokeTypeOK /\ TenantsTypeOK
      /\ ScreensTypeOK /\ SignalFactsTypeOK /\ LineBalanceTypeOK
      => TypeOK
  BY DEF TypeOK, Parts
<1>8. PlantSpec => [](focus \in Parts)
  BY <1>1, <1>2, PTL DEF PlantSpec
<1>9. PlantParts =>
        /\ []PlanningTypeOK /\ []ModelMixTypeOK /\ []FloorCallsTypeOK
        /\ []StationIntakeTypeOK /\ []LineFeedingTypeOK /\ []PokaYokeTypeOK
        /\ []TenantsTypeOK /\ []ScreensTypeOK /\ []SignalFactsTypeOK
        /\ []LineBalanceTypeOK
  BY <1>3, <1>4, <1>5, <1>6, PlanTypeCorrect, MixTypeCorrect, FeedTypeCorrect,
     ScanTypeCorrect, TenantsTypeCorrect, BalanceTypeCorrect DEF PlantParts
<1> QED
  BY <1>7, <1>8, <1>9, PlantIsItsParts, PTL

\* What the run checks of the plant, in one theorem: everything promised of a component holds
\* in the plant, as the plant does nothing that is not a step of its components.
THEOREM PlantKeepsItsPromises ==
  PlantSpec =>
    /\ []MoveRepairs /\ []NumbersDistinct /\ []PlanOfUniqueCode
    /\ []ClosedWithEvidence /\ []RecordedOnce /\ []CompletedWasRecorded
    /\ []ReadyIsPicked /\ []FulfilledWasMoved /\ []ScanOnce /\ []ScansWithinRequired
    /\ []CompanyIsManaged /\ []EverybodyHasRole /\ []LinkIsAdmitted
    /\ []NormalizedHasFact /\ []DeliveredWasCounted /\ []Redistributed
<1>1. PlantParts => []MoveRepairs /\ []NumbersDistinct /\ []PlanOfUniqueCode
  BY MoveRepairsHolds, NumbersDistinctHolds, PlanOfUniqueCodeHolds DEF PlantParts
<1>2. PlantParts => []ClosedWithEvidence /\ []RecordedOnce /\ []CompletedWasRecorded
  BY ClosedWithEvidenceHolds, RecordedOnceHolds, CompletedWasRecordedHolds DEF PlantParts
<1>3. PlantParts => []ReadyIsPicked /\ []FulfilledWasMoved /\ []ScanOnce
                    /\ []ScansWithinRequired
  BY ReadyIsPickedHolds, FulfilledWasMovedHolds, ScanOnceHolds, ScansWithinRequiredHolds
     DEF PlantParts
<1>4. PlantParts => []CompanyIsManaged /\ []EverybodyHasRole /\ []LinkIsAdmitted
  BY CompanyIsManagedHolds, EverybodyHasRoleHolds, LinkIsAdmittedHolds, SomeRoles
     DEF PlantParts
<1>5. PlantParts => []NormalizedHasFact /\ []DeliveredWasCounted /\ []Redistributed
  BY NormalizedHasFactHolds, DeliveredWasCountedHolds, RedistributedHolds DEF PlantParts
<1> QED
  BY <1>1, <1>2, <1>3, <1>4, <1>5, PlantIsItsParts
=============================================================================
