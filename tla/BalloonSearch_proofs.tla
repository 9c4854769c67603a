------------------------- MODULE BalloonSearch_proofs -------------------------
(***************************************************************************)
(* Proofs about the queries, for any table, finds and order of the scans.  *)
(* The loops are folds; each is unfolded once into the values it goes       *)
(* through (NewestUnfolds, StatsUnfolds, DealUnfolds), and what they are is *)
(* shown by induction on the prefix of the scan or of the pool.             *)
(***************************************************************************)
EXTENDS BalloonSearch, FoldTheorems

TableOK ==
  /\ DOMAIN dsRecords \subseteq 1..MaxId
  /\ dsRecords \in [DOMAIN dsRecords -> Record]

-----------------------------------------------------------------------------
(* Scans *)

\* The table is finite, its ids are positive, and its times are numbers.
LEMMA TableFacts ==
  ASSUME TableOK
  PROVE  /\ IsFiniteSet(DOMAIN dsRecords)
         /\ \A id \in DOMAIN dsRecords :
              id \in Nat /\ id # 0 /\ CreatedAt(id) \in Int /\ dsRecords[id].owner \in Pids
<1>1. MaxId \in Nat
  BY SearchAssumption
<1>2. IsFiniteSet(1..MaxId)
  BY <1>1, FS_Interval
<1>3. IsFiniteSet(DOMAIN dsRecords)
  BY <1>2, FS_Subset DEF TableOK
<1>4. ASSUME NEW id \in DOMAIN dsRecords
      PROVE  id \in Nat /\ id # 0 /\ CreatedAt(id) \in Int /\ dsRecords[id].owner \in Pids
  <2>1. id \in 1..MaxId /\ dsRecords[id] \in Record
    BY DEF TableOK
  <2> QED
    BY <1>1, <2>1 DEF Record, CreatedAt
<1> QED
  BY <1>3, <1>4

\* What an order of a set is: it meets each element once.
Orders(s, S) ==
  /\ Len(s) \in Nat /\ DOMAIN s = 1..Len(s)
  /\ \A i \in 1..Len(s) : s[i] \in S
  /\ \A i, j \in 1..Len(s) : s[i] = s[j] => i = j
  /\ \A x \in S : \E i \in 1..Len(s) : s[i] = x

\* An element of SetToSeqs is one.
LEMMA OrderFacts ==
  ASSUME NEW S, IsFiniteSet(S), NEW s \in SetToSeqs(S)
  PROVE  Orders(s, S) /\ Len(s) = Cardinality(S)
<1> DEFINE n == Cardinality(S)
<1>1. n \in Nat /\ IsFiniteSet(1..n) /\ Cardinality(1..n) = n
  BY FS_CardinalityType, FS_Interval
<1>2. s \in [1..n -> S] /\ \A i, j \in 1..n : i # j => s[i] # s[j]
  BY DEF SetToSeqs
<1> HIDE DEF n
<1>3. s \in Seq(S) /\ Len(s) = n
  BY <1>1, <1>2
<1>4. s \in Injection(1..n, S)
  BY <1>2 DEF Injection, IsInjective
<1>5. s \in Surjection(1..n, S)
  BY <1>1, <1>4, FS_Injection DEF n
<1> QED
  BY <1>1, <1>2, <1>3, <1>5 DEF Orders, Surjection, n

\* NewestScan goes through the scan, one record a step.
LEMMA NewestUnfolds ==
  ASSUME NEW scan, Len(scan) \in Nat, DOMAIN scan = 1..Len(scan), NEW C
  PROVE  \E acc :
           /\ acc[0] = 0
           /\ \A k \in 1..Len(scan) :
                acc[k] = IF scan[k] \in C
                            /\ (acc[k - 1] = 0 \/ CreatedAt(scan[k]) > CreatedAt(acc[k - 1]))
                         THEN scan[k] ELSE acc[k - 1]
           /\ NewestScan(scan, C) = acc[Len(scan)]
<1> DEFINE n == Len(scan)
           S == 1..n
           P == Largest(S)
           Better(best, id) ==
             IF id \in C /\ (best = 0 \/ CreatedAt(id) > CreatedAt(best)) THEN id ELSE best
           Runs(g) == g = [U \in SUBSET DOMAIN scan |->
                             IF U = {} THEN 0
                             ELSE Better(g[U \ {Max(U)}], scan[Max(U)])]
           iter == CHOOSE g : Runs(g)
           D == {0} \cup {scan[i] : i \in S}
           F == [i \in S |-> [d \in D |-> Better(d, scan[i])]]
<1>1. NewestScan(scan, C) = iter[DOMAIN scan]
  BY DEF NewestScan, FoldLeft, MapThenFoldSet
<1>2. /\ Picks(P, S)
      /\ \A k \in S : P[1..k] = k
  BY LargestPicks
<1>3. \A d \in D : \A i \in S : F[i][d] = Better(d, scan[i]) /\ F[i][d] \in D
  OBVIOUS
<1>4. n \in Nat /\ 0 \in D
  OBVIOUS
<1>0. DOMAIN scan = S /\ \A U \in SUBSET S : P[U] = Max(U)
  BY DEF Max, Largest
<1> HIDE DEF F, D, n, P, Better
<1>5. PICK g : Folds(F, 0, P, g, S) /\ \A U \in SUBSET S : g[U] \in D
  BY <1>3, <1>4, LeftFoldExists DEF P
<1>6. Runs(g)
  <2>1. g = [U \in SUBSET S |-> IF U = {} THEN 0 ELSE F[P[U]][g[U \ {P[U]}]]]
    BY <1>5 DEF Folds
  <2>2. ASSUME NEW U \in SUBSET S, U # {}
        PROVE  F[P[U]][g[U \ {P[U]}]] = Better(g[U \ {P[U]}], scan[P[U]])
    BY <1>2, <1>3, <1>5, <2>2 DEF Picks
  <2> QED
    BY <1>0, <2>1, <2>2
<1>7. Runs(iter)
  BY <1>6
<1> HIDE DEF iter
<1> DEFINE acc == [k \in 0..n |-> iter[1..k]]
<1>8. acc[0] = 0
  <2>1. 1..0 = {} /\ 0 \in 0..n
    BY <1>4
  <2> QED
    BY <1>0, <1>7, <2>1
<1>9. ASSUME NEW k \in S PROVE acc[k] = Better(acc[k - 1], scan[k])
  <2>1. /\ 1..k \in SUBSET S /\ 1..k # {} /\ (1..k) \ {k} = 1..(k - 1)
        /\ k \in 0..n /\ k - 1 \in 0..n
    BY <1>4, OneShorter
  <2>2. Max(1..k) = k
    BY <1>0, <1>2, <2>1
  <2>3. iter[1..k] = Better(iter[1..(k - 1)], scan[k])
    BY <1>0, <1>7, <2>1, <2>2
  <2> QED
    BY <2>1, <2>3
<1>10. NewestScan(scan, C) = acc[n]
  <2>1. n \in 0..n
    BY <1>4
  <2> QED
    BY <1>0, <1>1, <2>1
<1> HIDE DEF acc
<1> QED
  BY <1>8, <1>9, <1>10 DEF Better, n

\* The first of the newest of C that a scan meets is one of the newest of C.
LEMMA NewestFound ==
  ASSUME TableOK, NEW scan \in Scans, NEW C \in SUBSET DOMAIN dsRecords
  PROVE  IF C = {} THEN NewestScan(scan, C) = 0 ELSE IsNewest(NewestScan(scan, C), C)
<1> DEFINE n == Len(scan)
<1>1. Orders(scan, DOMAIN dsRecords)
  BY TableFacts, OrderFacts DEF Scans
<1>2. PICK acc :
        /\ acc[0] = 0
        /\ \A k \in 1..n :
             acc[k] = IF scan[k] \in C
                         /\ (acc[k - 1] = 0 \/ CreatedAt(scan[k]) > CreatedAt(acc[k - 1]))
                      THEN scan[k] ELSE acc[k - 1]
        /\ NewestScan(scan, C) = acc[n]
  BY <1>1, NewestUnfolds DEF Orders
<1> DEFINE Met(k) == {scan[i] : i \in 1..k} \cap C
           Good == {k \in 0..n : IF Met(k) = {} THEN acc[k] = 0 ELSE IsNewest(acc[k], Met(k))}
<1>3. \A id \in C : id # 0 /\ CreatedAt(id) \in Int
  BY TableFacts
<1>4. n \in Nat
  BY <1>1 DEF Orders
<1> HIDE DEF n
<1>5. 0 \in Good
  <2>1. Met(0) = {} /\ 0 \in 0..n
    BY <1>4
  <2> QED
    BY <1>2, <2>1
<1>6. ASSUME NEW k \in 1..n, k - 1 \in Good PROVE k \in Good
  <2>1. Met(k) = Met(k - 1) \cup ({scan[k]} \cap C) /\ Met(k - 1) \subseteq C /\ k \in 0..n
    <3>1. 1..k = (1..(k - 1)) \cup {k} /\ k \in 0..n
      BY <1>4
    <3> QED
      BY <3>1
  <2>2. acc[k] = IF scan[k] \in C
                    /\ (acc[k - 1] = 0 \/ CreatedAt(scan[k]) > CreatedAt(acc[k - 1]))
                 THEN scan[k] ELSE acc[k - 1]
    BY <1>2
  <2>3. IF Met(k - 1) = {} THEN acc[k - 1] = 0 ELSE IsNewest(acc[k - 1], Met(k - 1))
    BY <1>6
  <2> HIDE DEF Met
  <2>4. IF Met(k) = {} THEN acc[k] = 0 ELSE IsNewest(acc[k], Met(k))
    <3>1. CASE Met(k - 1) = {}
      BY <1>3, <2>1, <2>2, <2>3, <3>1 DEF IsNewest
    <3>2. CASE Met(k - 1) # {}
      <4>1. acc[k - 1] # 0 /\ acc[k - 1] \in C
        BY <1>3, <2>1, <2>3, <3>2 DEF IsNewest
      <4>2. CASE scan[k] \in C /\ CreatedAt(scan[k]) > CreatedAt(acc[k - 1])
        BY <1>3, <2>1, <2>2, <2>3, <3>2, <4>1, <4>2 DEF IsNewest
      <4>3. CASE ~ (scan[k] \in C /\ CreatedAt(scan[k]) > CreatedAt(acc[k - 1]))
        BY <1>3, <2>1, <2>2, <2>3, <3>2, <4>1, <4>3 DEF IsNewest
      <4> QED
        BY <4>2, <4>3
    <3> QED
      BY <3>1, <3>2
  <2> QED
    BY <2>1, <2>4
<1>7. n \in Good
  <2> HIDE DEF Good
  <2>1. n \in 0..n
    BY <1>4
  <2> QED
    BY <1>4, <1>5, <1>6, <2>1, PrefixInduction
<1>8. Met(n) = C
  BY <1>1 DEF Orders, n
<1> HIDE DEF Met
<1> QED
  BY <1>2, <1>7, <1>8

\* StatsScan goes through the scan, too.
LEMMA StatsUnfolds ==
  ASSUME NEW scan, Len(scan) \in Nat, DOMAIN scan = 1..Len(scan),
         \A i \in 1..Len(scan) : dsRecords[scan[i]].owner \in Pids
  PROVE  \E acc :
           /\ acc[0] = [o \in Pids |-> 0]
           /\ \A k \in 1..Len(scan) :
                LET id == scan[k]
                    best == acc[k - 1]
                IN  acc[k] = IF /\ dsRecords[id].complete /\ IsStats(id)
                                /\ \/ best[dsRecords[id].owner] = 0
                                   \/ CreatedAt(id) >= CreatedAt(best[dsRecords[id].owner])
                             THEN [best EXCEPT ![dsRecords[id].owner] = id] ELSE best
           /\ StatsScan(scan) = acc[Len(scan)]
           /\ \A k \in 0..Len(scan) : DOMAIN acc[k] = Pids
<1> DEFINE n == Len(scan)
           S == 1..n
           P == Largest(S)
           base == [o \in Pids |-> 0]
           Better(best, id) ==
             LET o == dsRecords[id].owner
             IN  IF /\ dsRecords[id].complete /\ IsStats(id)
                    /\ best[o] = 0 \/ CreatedAt(id) >= CreatedAt(best[o])
                 THEN [best EXCEPT ![o] = id] ELSE best
           Runs(g) == g = [U \in SUBSET DOMAIN scan |->
                             IF U = {} THEN base
                             ELSE Better(g[U \ {Max(U)}], scan[Max(U)])]
           iter == CHOOSE g : Runs(g)
           D == [Pids -> {0} \cup {scan[i] : i \in S}]
           F == [i \in S |-> [d \in D |-> Better(d, scan[i])]]
<1>1. StatsScan(scan) = iter[DOMAIN scan]
  BY DEF StatsScan, FoldLeft, MapThenFoldSet
<1>2. /\ Picks(P, S)
      /\ \A k \in S : P[1..k] = k
  BY LargestPicks
<1>3. \A d \in D : \A i \in S : F[i][d] = Better(d, scan[i]) /\ F[i][d] \in D
  <2> SUFFICES ASSUME NEW d \in D, NEW i \in S PROVE Better(d, scan[i]) \in D
    OBVIOUS
  <2>1. dsRecords[scan[i]].owner \in Pids /\ scan[i] \in {0} \cup {scan[j] : j \in S}
    OBVIOUS
  <2> QED
    BY <2>1
<1>4. n \in Nat /\ base \in D
  OBVIOUS
<1>0. DOMAIN scan = S /\ \A U \in SUBSET S : P[U] = Max(U)
  BY DEF Max, Largest
<1>a. \A d \in D : DOMAIN d = Pids
  OBVIOUS
<1> HIDE DEF F, D, n, P, Better, base
<1>5. PICK g : Folds(F, base, P, g, S) /\ \A U \in SUBSET S : g[U] \in D
  BY <1>3, <1>4, LeftFoldExists DEF P
<1>6. Runs(g)
  <2>1. g = [U \in SUBSET S |-> IF U = {} THEN base ELSE F[P[U]][g[U \ {P[U]}]]]
    BY <1>5 DEF Folds
  <2>2. ASSUME NEW U \in SUBSET S, U # {}
        PROVE  F[P[U]][g[U \ {P[U]}]] = Better(g[U \ {P[U]}], scan[P[U]])
    BY <1>2, <1>3, <1>5, <2>2 DEF Picks
  <2> QED
    BY <1>0, <2>1, <2>2
<1>7. Runs(iter)
  BY <1>6
<1> HIDE DEF iter
<1> DEFINE acc == [k \in 0..n |-> iter[1..k]]
<1>8. acc[0] = base
  <2>1. 1..0 = {} /\ 0 \in 0..n
    BY <1>4
  <2> QED
    BY <1>0, <1>7, <2>1
<1>9. ASSUME NEW k \in S PROVE acc[k] = Better(acc[k - 1], scan[k])
  <2>1. /\ 1..k \in SUBSET S /\ 1..k # {} /\ (1..k) \ {k} = 1..(k - 1)
        /\ k \in 0..n /\ k - 1 \in 0..n
    BY <1>4, OneShorter
  <2>2. Max(1..k) = k
    BY <1>0, <1>2, <2>1
  <2>3. iter[1..k] = Better(iter[1..(k - 1)], scan[k])
    BY <1>0, <1>7, <2>1, <2>2
  <2> QED
    BY <2>1, <2>3
<1>10. StatsScan(scan) = acc[n]
  <2>1. n \in 0..n
    BY <1>4
  <2> QED
    BY <1>0, <1>1, <2>1
<1>11. \A k \in 0..n : acc[k] \in D
  <2> DEFINE Good == {k \in 0..n : acc[k] \in D}
  <2>1. 0 \in Good
    BY <1>4, <1>8
  <2>2. ASSUME NEW k \in 1..n, k - 1 \in Good PROVE k \in Good
    <3>1. k \in 0..n
      BY <1>4
    <3> HIDE DEF acc
    <3> QED
      BY <1>3, <1>9, <2>2, <3>1
  <2> HIDE DEF Good, acc
  <2>3. \A k \in 0..n : k \in Good
    BY <1>4, <2>1, <2>2, PrefixInduction
  <2> QED
    BY <2>3 DEF Good
<1> HIDE DEF acc
<1>12. \A k \in 0..n : DOMAIN acc[k] = Pids
  BY <1>11, <1>a
<1> QED
  BY <1>8, <1>9, <1>10, <1>12 DEF Better, n, base

\* The last of the newest stats records of a player that a scan meets is one of the newest.
LEMMA StatsFound ==
  ASSUME TableOK, NEW scan \in Scans, NEW o \in Pids
  PROVE  IF Stats(o) = {} THEN StatsScan(scan)[o] = 0
                          ELSE IsNewest(StatsScan(scan)[o], Stats(o))
<1> DEFINE n == Len(scan)
<1>1. Orders(scan, DOMAIN dsRecords)
  BY TableFacts, OrderFacts DEF Scans
<1>2. PICK acc :
        /\ acc[0] = [p \in Pids |-> 0]
        /\ \A k \in 1..n :
             LET id == scan[k]
                 best == acc[k - 1]
             IN  acc[k] = IF /\ dsRecords[id].complete /\ IsStats(id)
                             /\ \/ best[dsRecords[id].owner] = 0
                                \/ CreatedAt(id) >= CreatedAt(best[dsRecords[id].owner])
                          THEN [best EXCEPT ![dsRecords[id].owner] = id] ELSE best
        /\ StatsScan(scan) = acc[n]
        /\ \A k \in 0..n : DOMAIN acc[k] = Pids
  <2>1. \A i \in 1..n : dsRecords[scan[i]].owner \in Pids
    BY <1>1, TableFacts DEF Orders
  <2>2. n \in Nat /\ DOMAIN scan = 1..n
    BY <1>1 DEF Orders
  <2> QED
    BY <2>1, <2>2, StatsUnfolds
<1> DEFINE Met(k) == {scan[i] : i \in 1..k} \cap Stats(o)
           Good == {k \in 0..n : IF Met(k) = {} THEN acc[k][o] = 0
                                                ELSE IsNewest(acc[k][o], Met(k))}
<1>3. \A id \in Stats(o) : id # 0 /\ CreatedAt(id) \in Int
  BY TableFacts DEF Stats
<1>4. n \in Nat /\ \A k \in 1..n : scan[k] \in DOMAIN dsRecords
  BY <1>1 DEF Orders
<1> HIDE DEF n
<1>5. 0 \in Good
  <2>1. Met(0) = {} /\ 0 \in 0..n
    BY <1>4
  <2> QED
    BY <1>2, <2>1
<1>6. ASSUME NEW k \in 1..n, k - 1 \in Good PROVE k \in Good
  <2> DEFINE id == scan[k]
             was == acc[k - 1][o]
             is == acc[k][o]
  <2>1. Met(k) = Met(k - 1) \cup ({id} \cap Stats(o)) /\ Met(k - 1) \subseteq Stats(o)
    <3>1. 1..k = (1..(k - 1)) \cup {k}
      BY <1>4
    <3> QED
      BY <3>1
  <2>2. is = IF id \in Stats(o) /\ (was = 0 \/ CreatedAt(id) >= CreatedAt(was)) THEN id ELSE was
    <3>1. DOMAIN acc[k - 1] = Pids /\ id \in DOMAIN dsRecords
      BY <1>2, <1>4, OneShorter
    <3>2. CASE dsRecords[id].owner = o
      <4>1. id \in Stats(o) <=> dsRecords[id].complete /\ IsStats(id)
        BY <3>1, <3>2 DEF Stats
      <4> QED
        BY <1>2, <3>1, <3>2, <4>1
    <3>3. CASE dsRecords[id].owner # o
      <4>1. id \notin Stats(o)
        BY <3>3 DEF Stats
      <4>2. \/ acc[k] = acc[k - 1]
            \/ acc[k] = [acc[k - 1] EXCEPT ![dsRecords[id].owner] = id]
        BY <1>2
      <4>3. is = was
        BY <3>1, <3>3, <4>2
      <4> QED
        BY <4>1, <4>3
    <3> QED
      BY <3>2, <3>3
  <2>3. IF Met(k - 1) = {} THEN was = 0 ELSE IsNewest(was, Met(k - 1))
    BY <1>6
  <2> HIDE DEF Met, id, was, is
  <2>4. IF Met(k) = {} THEN is = 0 ELSE IsNewest(is, Met(k))
    <3>1. CASE Met(k - 1) = {}
      BY <1>3, <2>1, <2>2, <2>3, <3>1 DEF IsNewest
    <3>2. CASE Met(k - 1) # {}
      <4>1. was # 0 /\ was \in Stats(o)
        BY <1>3, <2>1, <2>3, <3>2 DEF IsNewest
      <4>2. CASE id \in Stats(o) /\ CreatedAt(id) >= CreatedAt(was)
        BY <1>3, <2>1, <2>2, <2>3, <3>2, <4>1, <4>2 DEF IsNewest
      <4>3. CASE ~ (id \in Stats(o) /\ CreatedAt(id) >= CreatedAt(was))
        BY <1>3, <2>1, <2>2, <2>3, <3>2, <4>1, <4>3 DEF IsNewest
      <4> QED
        BY <4>2, <4>3
    <3> QED
      BY <3>1, <3>2
  <2> QED
    BY <1>4, <2>4, OneShorter DEF is
<1>7. n \in Good
  <2> HIDE DEF Good
  <2>1. n \in 0..n
    BY <1>4
  <2> QED
    BY <1>4, <1>5, <1>6, <2>1, PrefixInduction
<1>8. Met(n) = Stats(o)
  BY <1>1 DEF Orders, n, Stats
<1> HIDE DEF Met
<1> QED
  BY <1>2, <1>7, <1>8

-----------------------------------------------------------------------------
(* Dealing into sets *)

\* The next remainder
LEMMA NextRemainder ==
  ASSUME NEW m \in Nat \ {0}, NEW i \in Nat \ {0}
  PROVE  /\ (i - 1) % m \in 0..(m - 1)
         /\ i % m = IF ((i - 1) % m) + 1 = m THEN 0 ELSE ((i - 1) % m) + 1
         /\ i - 1 < m => (i - 1) % m = i - 1
<1> DEFINE r == (i - 1) % m
           q == (i - 1) \div m
           r2 == i % m
           q2 == i \div m
<1>1. r \in 0..(m - 1) /\ q \in Int /\ i - 1 = m * q + r
  OBVIOUS
<1>2. r2 \in 0..(m - 1) /\ q2 \in Int /\ i = m * q2 + r2
  OBVIOUS
<1> HIDE DEF r, q, r2, q2
<1>3. ASSUME NEW a \in Int, NEW b \in Int, NEW x \in 0..(m - 1), NEW y \in 0..(m - 1),
             m * a + x = m * b + y
      PROVE  x = y
  <2>1. m * (a - b) = y - x
    BY <1>3
  <2>2. CASE a - b >= 1
    <3>1. m * (a - b) >= m
      BY <2>2
    <3> QED
      BY <2>1, <3>1
  <2>3. CASE a - b <= -1
    <3>1. m * (a - b) <= - m
      BY <2>3
    <3> QED
      BY <2>1, <3>1
  <2>4. CASE a = b
    BY <1>3, <2>4
  <2> QED
    BY <2>2, <2>3, <2>4
<1>4. CASE r + 1 = m
  <2>1. m * q2 + r2 = m * (q + 1) + 0
    BY <1>1, <1>2, <1>4
  <2>2. q + 1 \in Int /\ 0 \in 0..(m - 1)
    BY <1>1
  <2>3. r2 = 0
    BY <1>2, <1>3, <2>1, <2>2
  <2> QED
    BY <1>1, <1>4, <2>3 DEF r, r2
<1>5. CASE r + 1 # m
  <2>1. m * q2 + r2 = m * q + (r + 1)
    BY <1>1, <1>2
  <2>2. r + 1 \in 0..(m - 1)
    BY <1>1, <1>5
  <2>3. r2 = r + 1
    BY <1>1, <1>2, <1>3, <2>1, <2>2
  <2> QED
    BY <1>1, <1>5, <2>3 DEF r, r2
<1>6. i - 1 < m => r = i - 1
  <2> SUFFICES ASSUME i - 1 < m PROVE r = i - 1
    OBVIOUS
  <2>1. m * q + r = m * 0 + (i - 1) /\ i - 1 \in 0..(m - 1)
    BY <1>1
  <2> QED
    BY <1>1, <1>3, <2>1
<1> QED
  BY <1>1, <1>4, <1>5, <1>6 DEF r

\* Dealing goes through the pool, one balloon a step.
LEMMA DealUnfolds ==
  ASSUME NEW T, NEW pool \in Seq(T), NEW n, NEW m \in Nat \ {0}, m = SetCount(pool, n)
  PROVE  \E acc :
           /\ acc[0] = [k \in 1..m |-> <<>>]
           /\ \A i \in 1..Len(pool) :
                acc[i] = [acc[i - 1] EXCEPT ![((i - 1) % m) + 1] = Append(@, pool[i])]
           /\ SplitIntoSets(pool, n) = acc[Len(pool)]
<1> DEFINE L == Len(pool)
           S == 1..L
           P == Largest(S)
           base == [k \in 1..m |-> <<>>]
           turns == [i \in DOMAIN pool |-> i]
           Better(sets, i) == [sets EXCEPT ![((i - 1) % m) + 1] = Append(@, pool[i])]
           Runs(g) == g = [U \in SUBSET DOMAIN turns |->
                             IF U = {} THEN base
                             ELSE Better(g[U \ {Max(U)}], turns[Max(U)])]
           iter == CHOOSE g : Runs(g)
           D == [1..m -> Seq(T)]
           F == [i \in S |-> [d \in D |-> Better(d, i)]]
<1>1. SplitIntoSets(pool, n) = iter[DOMAIN turns]
  BY DEF SplitIntoSets, FoldLeftDomain, FoldLeft, MapThenFoldSet
<1>2. /\ Picks(P, S)
      /\ \A k \in S : P[1..k] = k
  BY LargestPicks
<1>3. \A d \in D : \A i \in S : F[i][d] = Better(d, i) /\ F[i][d] \in D
  <2> SUFFICES ASSUME NEW d \in D, NEW i \in S PROVE Better(d, i) \in D
    OBVIOUS
  <2>1. pool[i] \in T
    OBVIOUS
  <2>2. \A k \in 1..m : Append(d[k], pool[i]) \in Seq(T)
    BY <2>1
  <2> QED
    BY <2>2
<1>4. L \in Nat /\ base \in D
  OBVIOUS
<1>0. DOMAIN turns = S /\ (\A i \in S : turns[i] = i) /\ \A U \in SUBSET S : P[U] = Max(U)
  BY DEF Max, Largest
<1> HIDE DEF F, D, L, P, Better, base, turns
<1>5. PICK g : Folds(F, base, P, g, S) /\ \A U \in SUBSET S : g[U] \in D
  BY <1>3, <1>4, LeftFoldExists DEF P
<1>6. Runs(g)
  <2>1. g = [U \in SUBSET S |-> IF U = {} THEN base ELSE F[P[U]][g[U \ {P[U]}]]]
    BY <1>5 DEF Folds
  <2>2. ASSUME NEW U \in SUBSET S, U # {}
        PROVE  F[P[U]][g[U \ {P[U]}]] = Better(g[U \ {P[U]}], turns[P[U]])
    BY <1>0, <1>2, <1>3, <1>5, <2>2 DEF Picks
  <2> QED
    BY <1>0, <2>1, <2>2
<1>7. Runs(iter)
  BY <1>6
<1> HIDE DEF iter
<1> DEFINE acc == [k \in 0..L |-> iter[1..k]]
<1>8. acc[0] = base
  <2>1. 1..0 = {} /\ 0 \in 0..L
    BY <1>4
  <2> QED
    BY <1>0, <1>7, <2>1
<1>9. ASSUME NEW k \in S PROVE acc[k] = Better(acc[k - 1], k)
  <2>1. /\ 1..k \in SUBSET S /\ 1..k # {} /\ (1..k) \ {k} = 1..(k - 1)
        /\ k \in 0..L /\ k - 1 \in 0..L
    BY <1>4, OneShorter
  <2>2. Max(1..k) = k
    BY <1>0, <1>2, <2>1
  <2>3. turns[k] = k
    BY <1>0
  <2>4. iter[1..k] = Better(iter[(1..k) \ {Max(1..k)}], turns[Max(1..k)])
    BY <1>0, <1>7, <2>1
  <2>5. iter[1..k] = Better(iter[1..(k - 1)], k)
    BY <2>1, <2>2, <2>3, <2>4
  <2> QED
    BY <2>1, <2>5
<1>10. SplitIntoSets(pool, n) = acc[L]
  <2>1. L \in 0..L
    BY <1>4
  <2> QED
    BY <1>0, <1>1, <2>1
<1> HIDE DEF acc
<1> QED
  BY <1>8, <1>9, <1>10 DEF Better, L, base

\* The sets hold the first i balloons of the pool, each in one place.
Dealt(pool, m, sets, i) ==
  /\ sets \in [1..m -> Seq(DOMAIN dsRecords)]
  /\ \A k \in 1..m : Len(sets[k]) <= i
  /\ \A j \in 1..i : \E k \in 1..m : \E a \in 1..Len(sets[k]) : sets[k][a] = pool[j]
  /\ \A k \in 1..m : \A a \in 1..Len(sets[k]) : \E j \in 1..i : sets[k][a] = pool[j]
  /\ \A k, l \in 1..m : \A a \in 1..Len(sets[k]), b \in 1..Len(sets[l]) :
       sets[k][a] = sets[l][b] => k = l /\ a = b

\* A balloon goes to the end of one set.
LEMMA DealOne ==
  ASSUME NEW m \in Nat \ {0}, NEW pool \in Seq(DOMAIN dsRecords), NEW i \in 1..Len(pool),
         \A j, l \in 1..Len(pool) : pool[j] = pool[l] => j = l,
         NEW sets, Dealt(pool, m, sets, i - 1), NEW t \in 1..m,
         NEW new, new = [sets EXCEPT ![t] = Append(@, pool[i])]
  PROVE  Dealt(pool, m, new, i)
<1> DEFINE n == Len(sets[t])
<1>1. /\ sets \in [1..m -> Seq(DOMAIN dsRecords)] /\ pool[i] \in DOMAIN dsRecords
      /\ i \in Nat /\ i >= 1
  BY DEF Dealt
<1>2. /\ new \in [1..m -> Seq(DOMAIN dsRecords)]
      /\ \A k \in 1..m \ {t} : new[k] = sets[k]
      /\ new[t] = Append(sets[t], pool[i])
  <2>1. Append(sets[t], pool[i]) \in Seq(DOMAIN dsRecords)
    BY <1>1
  <2> QED
    BY <1>1, <2>1
<1>3. \A k \in 1..m : Len(sets[k]) \in Nat
  BY <1>1
<1>4. /\ n \in Nat /\ Len(new[t]) = n + 1 /\ new[t][n + 1] = pool[i]
      /\ \A a \in 1..n : new[t][a] = sets[t][a]
  BY <1>1, <1>2
<1>5. /\ \A k \in 1..m : Len(sets[k]) <= i - 1
      /\ \A j \in 1..(i - 1) :
           \E k \in 1..m : \E a \in 1..Len(sets[k]) : sets[k][a] = pool[j]
      /\ \A k \in 1..m : \A a \in 1..Len(sets[k]) : \E j \in 1..(i - 1) : sets[k][a] = pool[j]
  BY DEF Dealt
<1>e. \A k, l \in 1..m : \A a \in 1..Len(sets[k]), b \in 1..Len(sets[l]) :
        sets[k][a] = sets[l][b] => k = l /\ a = b
  BY DEF Dealt
<1> HIDE DEF n
\* A place of the new sets is an old one or the end of set t.
<1>6. ASSUME NEW k \in 1..m, NEW a \in 1..Len(new[k])
      PROVE  \/ /\ a \in 1..Len(sets[k]) /\ new[k][a] = sets[k][a]
                /\ \E j \in 1..(i - 1) : new[k][a] = pool[j]
             \/ k = t /\ a = n + 1 /\ new[k][a] = pool[i]
  <2>1. CASE k # t
    <3>1. new[k] = sets[k]
      BY <1>2, <2>1
    <3>2. a \in 1..Len(sets[k]) /\ new[k][a] = sets[k][a]
      BY <3>1
    <3> QED
      BY <1>5, <3>2
  <2>2. CASE k = t /\ a # n + 1
    <3>1. a \in 1..n
      BY <1>4, <2>2
    <3>2. a \in 1..Len(sets[k]) /\ new[k][a] = sets[k][a]
      BY <1>4, <2>2, <3>1 DEF n
    <3> QED
      BY <1>5, <3>2
  <2>3. CASE k = t /\ a = n + 1
    BY <1>4, <2>3
  <2> QED
    BY <2>1, <2>2, <2>3
<1>7. ASSUME NEW k \in 1..m, NEW a \in 1..Len(sets[k])
      PROVE  a \in 1..Len(new[k]) /\ new[k][a] = sets[k][a]
  <2>1. CASE k # t
    BY <1>2, <2>1
  <2>2. CASE k = t
    <3>1. a \in 1..n
      BY <2>2 DEF n
    <3>2. a \in 1..(n + 1) /\ new[t][a] = sets[t][a]
      BY <1>4, <3>1
    <3> QED
      BY <1>4, <2>2, <3>2
  <2> QED
    BY <2>1, <2>2
<1>8. \A j \in 1..(i - 1) : j \in 1..Len(pool) /\ j # i /\ pool[j] # pool[i]
  BY <1>1
<1>9. \A k \in 1..m : Len(new[k]) <= i
  <2> SUFFICES ASSUME NEW k \in 1..m PROVE Len(new[k]) <= i
    OBVIOUS
  <2>1. Len(sets[k]) <= i - 1 /\ n <= i - 1
    BY <1>5 DEF n
  <2>2. CASE k = t
    BY <1>1, <1>4, <2>1, <2>2
  <2>3. CASE k # t
    BY <1>1, <1>2, <1>3, <2>1, <2>3
  <2> QED
    BY <2>2, <2>3
<1>10. \A j \in 1..i : \E k \in 1..m : \E a \in 1..Len(new[k]) : new[k][a] = pool[j]
  <2> SUFFICES ASSUME NEW j \in 1..i
               PROVE  \E k \in 1..m : \E a \in 1..Len(new[k]) : new[k][a] = pool[j]
    OBVIOUS
  <2>1. CASE j = i
    <3>1. n + 1 \in 1..Len(new[t])
      BY <1>4
    <3> QED
      BY <1>4, <2>1, <3>1
  <2>2. CASE j # i
    <3>1. j \in 1..(i - 1)
      BY <1>1, <2>2
    <3>2. PICK k \in 1..m : \E a \in 1..Len(sets[k]) : sets[k][a] = pool[j]
      BY <1>5, <3>1
    <3> QED
      BY <1>7, <3>2
  <2> QED
    BY <2>1, <2>2
<1>11. \A k \in 1..m : \A a \in 1..Len(new[k]) : \E j \in 1..i : new[k][a] = pool[j]
  <2> SUFFICES ASSUME NEW k \in 1..m, NEW a \in 1..Len(new[k])
               PROVE  \E j \in 1..i : new[k][a] = pool[j]
    OBVIOUS
  <2>1. i \in 1..i /\ \A j \in 1..(i - 1) : j \in 1..i
    BY <1>1
  <2> QED
    BY <1>6, <2>1
<1>12. ASSUME NEW k \in 1..m, NEW l \in 1..m, NEW a \in 1..Len(new[k]), NEW b \in 1..Len(new[l]),
              new[k][a] = new[l][b]
       PROVE  k = l /\ a = b
  <2>1. CASE new[k][a] = pool[i]
    <3>1. k = t /\ a = n + 1
      BY <1>6, <1>8, <2>1
    <3>2. l = t /\ b = n + 1
      <4>1. new[l][b] = pool[i]
        BY <1>12, <2>1
      <4>2. ~ \E j \in 1..(i - 1) : new[l][b] = pool[j]
        BY <1>8, <4>1
      <4> QED
        BY <1>6, <4>2
    <3> QED
      BY <3>1, <3>2
  <2>2. CASE new[k][a] # pool[i]
    <3>1. a \in 1..Len(sets[k]) /\ new[k][a] = sets[k][a]
      BY <1>6, <2>2
    <3>2. b \in 1..Len(sets[l]) /\ new[l][b] = sets[l][b]
      BY <1>6, <1>12, <2>2
    <3>3. sets[k][a] = sets[l][b]
      BY <1>12, <3>1, <3>2
    <3> QED
      BY <1>e, <3>1, <3>2, <3>3
  <2> QED
    BY <2>1, <2>2
<1> QED
  BY <1>2, <1>9, <1>10, <1>11, <1>12 DEF Dealt

\* The sets are filled line by line: q lines are full, and line q + 1 as far as the
\* remainder says.  A balloon is no newer than any on the line before.
Level(m, sets, i) ==
  /\ \E q \in Nat : /\ i >= m => q >= 1
                    /\ \A k \in 1..m : Len(sets[k]) = IF k <= i % m THEN q + 1 ELSE q
  /\ \A k, l \in 1..m : \A j \in 2..Len(sets[l]) :
       CreatedAt(sets[k][j - 1]) >= CreatedAt(sets[l][j])

\* Places of sets that are q or q + 1 long
LEMMA PlaceBefore ==
  ASSUME NEW q \in Nat, NEW len \in {q, q + 1}, NEW j \in 2..len
  PROVE  j - 1 \in 1..q /\ j \in 2..(q + 1)
OBVIOUS

LEMMA PlaceStays ==
  ASSUME NEW q \in Nat, NEW len \in {q, q + 1}, NEW a \in 1..q
  PROVE  a \in 1..len
OBVIOUS

LEMMA NotLast ==
  ASSUME NEW q \in Nat, NEW j \in 2..(q + 1), j # q + 1
  PROVE  j \in 1..q /\ j \in 2..q
OBVIOUS

\* The next balloon goes to the next place of the line.
LEMMA DealLevel ==
  ASSUME NEW m \in Nat \ {0}, NEW pool \in Seq(DOMAIN dsRecords), NEW i \in 1..Len(pool),
         \A j, l \in 1..Len(pool) : j < l => CreatedAt(pool[j]) >= CreatedAt(pool[l]),
         NEW sets, Dealt(pool, m, sets, i - 1), Level(m, sets, i - 1),
         NEW new, new = [sets EXCEPT ![((i - 1) % m) + 1] = Append(@, pool[i])]
  PROVE  Level(m, new, i)
<1> DEFINE r == (i - 1) % m
           t == r + 1
<1>0. new = [sets EXCEPT ![t] = Append(@, pool[i])]
  OBVIOUS
<1>1. /\ r \in 0..(m - 1) /\ i \in Nat /\ i >= 1
      /\ i % m = IF r + 1 = m THEN 0 ELSE r + 1
      /\ i - 1 < m => r = i - 1
  <2>1. i \in Nat \ {0}
    OBVIOUS
  <2>2. i \in Nat /\ i >= 1
    BY <2>1
  <2> QED
    BY <2>1, <2>2, NextRemainder, Zenon
<1>2. PICK q \in Nat : /\ i - 1 >= m => q >= 1
                       /\ \A k \in 1..m : Len(sets[k]) = IF k <= r THEN q + 1 ELSE q
  BY DEF Level
<1>3. \A k, l \in 1..m : \A j \in 2..Len(sets[l]) :
        CreatedAt(sets[k][j - 1]) >= CreatedAt(sets[l][j])
  BY DEF Level
<1>4. /\ sets \in [1..m -> Seq(DOMAIN dsRecords)] /\ pool[i] \in DOMAIN dsRecords
      /\ \A k \in 1..m : \A a \in 1..Len(sets[k]) :
           \E s \in 1..(i - 1) : sets[k][a] = pool[s]
  BY DEF Dealt
<1> HIDE DEF r
<1>5. t \in 1..m
  BY <1>1
<1>6. Len(sets[t]) = q
  <2>1. ~ (t <= r)
    BY <1>1
  <2> QED
    BY <1>2, <1>5, <2>1
<1>7. /\ \A k \in 1..m \ {t} : new[k] = sets[k]
      /\ new[t] = Append(sets[t], pool[i])
      /\ Len(new[t]) = q + 1 /\ new[t][q + 1] = pool[i]
      /\ \A a \in 1..q : new[t][a] = sets[t][a]
  <2>1. sets[t] \in Seq(DOMAIN dsRecords)
    BY <1>4, <1>5
  <2>2. new[t] = Append(sets[t], pool[i]) /\ \A k \in 1..m \ {t} : new[k] = sets[k]
    BY <1>0, <1>4, <1>5
  <2> QED
    BY <1>4, <1>6, <2>1, <2>2
<1>8. \E q2 \in Nat : /\ i >= m => q2 >= 1
                      /\ \A k \in 1..m : Len(new[k]) = IF k <= i % m THEN q2 + 1 ELSE q2
  <2>0. \A k \in 1..m : Len(new[k]) = IF k <= r + 1 THEN q + 1 ELSE q
    <3> SUFFICES ASSUME NEW k \in 1..m PROVE Len(new[k]) = IF k <= r + 1 THEN q + 1 ELSE q
      OBVIOUS
    <3>1. CASE k = t
      BY <1>1, <1>7, <3>1
    <3>2. CASE k # t
      <4>1. k <= r + 1 <=> k <= r
        BY <1>1, <3>2
      <4> QED
        BY <1>2, <1>7, <3>2, <4>1
    <3> QED
      BY <3>1, <3>2
  <2>1. CASE r + 1 = m
    <3>1. i % m = 0 /\ \A k \in 1..m : k <= r + 1 /\ ~ (k <= 0)
      BY <1>1, <2>1
    <3>2. q + 1 \in Nat /\ q + 1 >= 1
      OBVIOUS
    <3> QED
      BY <2>0, <3>1, <3>2
  <2>2. CASE r + 1 # m
    <3>1. i % m = r + 1
      BY <1>1, <2>2
    <3>2. i >= m => i - 1 >= m
      <4> SUFFICES ASSUME i >= m, ~ (i - 1 >= m) PROVE FALSE
        OBVIOUS
      <4>1. i - 1 = m - 1 /\ i - 1 < m
        BY <1>1
      <4> QED
        BY <1>1, <2>2, <4>1
    <3> QED
      BY <1>2, <2>0, <3>1, <3>2
  <2> QED
    BY <2>1, <2>2
<1>9. \A k \in 1..m : Len(sets[k]) \in {q, q + 1} /\ Len(new[k]) \in {q, q + 1}
  <2> SUFFICES ASSUME NEW k \in 1..m
               PROVE  Len(sets[k]) \in {q, q + 1} /\ Len(new[k]) \in {q, q + 1}
    OBVIOUS
  <2>1. Len(sets[k]) \in {q, q + 1}
    BY <1>2
  <2> QED
    BY <1>7, <2>1
<1>10. \A k \in 1..m : \A a \in 1..q : new[k][a] = sets[k][a]
  BY <1>7
<1>11. ASSUME NEW k \in 1..m, NEW l \in 1..m, NEW j \in 2..Len(new[l])
       PROVE  CreatedAt(new[k][j - 1]) >= CreatedAt(new[l][j])
  <2>0. /\ j - 1 \in 1..q /\ j \in 2..(q + 1)
        /\ q \in Nat /\ Len(sets[k]) \in {q, q + 1} /\ Len(sets[t]) = q
    <3>1. Len(sets[k]) \in {q, q + 1} /\ Len(new[l]) \in {q, q + 1}
      BY <1>9
    <3> QED
      BY <1>6, <3>1, PlaceBefore
  <2>1. j - 1 \in 1..q /\ new[k][j - 1] = sets[k][j - 1]
    BY <1>10, <2>0
  <2>2. CASE l = t /\ j = q + 1
    <3>1. j - 1 \in 1..Len(sets[k])
      BY <2>0, PlaceStays
    <3>2. PICK s \in 1..(i - 1) : sets[k][j - 1] = pool[s]
      BY <1>4, <3>1
    <3>3. s \in 1..Len(pool) /\ s < i
      BY <1>1
    <3>4. CreatedAt(pool[s]) >= CreatedAt(pool[i])
      BY <3>3
    <3> QED
      BY <1>7, <2>1, <2>2, <3>2, <3>4
  <2>3. CASE l # t
    BY <1>3, <1>7, <2>1, <2>3
  <2>4. CASE l = t /\ j # q + 1
    <3>1. j \in 1..q /\ j \in 2..Len(sets[l])
      BY <2>0, <2>4, NotLast
    <3>2. new[l][j] = sets[l][j]
      BY <1>10, <3>1
    <3> QED
      BY <1>3, <2>1, <3>1, <3>2
  <2> QED
    BY <2>2, <2>3, <2>4
<1> QED
  BY <1>8, <1>11 DEF Level, r

\* What SearchBalloon deals a sorted pool into, for any number of balloons and sets:
\* each of the pool in one place, no set empty if there is one, and level pages.
LEMMA DealtSets ==
  ASSUME TableOK, NEW S \in SUBSET DOMAIN dsRecords, NEW pool \in Sorted(S),
         NEW n \in Nat \ {0}
  PROVE  LET m == SetCount(pool, n)
             sets == SplitIntoSets(pool, n)
         IN  /\ m \in Nat \ {0} /\ (S # {} => Len(pool) >= m)
             /\ Orders(pool, S) /\ Len(pool) <= MaxId
             /\ Dealt(pool, m, sets, Len(pool)) /\ Level(m, sets, Len(pool))
<1> DEFINE m == SetCount(pool, n)
           L == Len(pool)
           T == DOMAIN dsRecords
<1>1. IsFiniteSet(S) /\ Cardinality(S) <= MaxId
  <2>1. MaxId \in Nat /\ S \in SUBSET (1..MaxId)
    BY SearchAssumption DEF TableOK
  <2>2. IsFiniteSet(1..MaxId) /\ Cardinality(1..MaxId) = MaxId
    BY <2>1, FS_Interval
  <2> QED
    BY <2>1, <2>2, FS_Subset
<1>2. /\ pool \in SetToSeqs(S)
      /\ \A i, j \in DOMAIN pool : i < j => CreatedAt(pool[i]) >= CreatedAt(pool[j])
  BY DEF Sorted
<1>3. Orders(pool, S) /\ L = Cardinality(S)
  BY <1>1, <1>2, OrderFacts
<1>4. L \in Nat /\ DOMAIN pool = 1..L /\ \A i \in 1..L : pool[i] \in T
  BY <1>3 DEF Orders
<1>5. pool \in Seq(T)
  <2>1. pool \in [1..Cardinality(S) -> S]
    BY <1>2 DEF SetToSeqs
  <2> QED
    BY <1>3, <1>4, <2>1
<1>6. \A i, j \in 1..L : pool[i] = pool[j] => i = j
  BY <1>3 DEF Orders
<1>7. \A i, j \in 1..L : i < j => CreatedAt(pool[i]) >= CreatedAt(pool[j])
  BY <1>2, <1>4
<1>8. m \in Nat \ {0} /\ (L > 0 => L >= m)
  BY <1>4 DEF SetCount
<1>9. S # {} => L > 0
  BY <1>3, <1>4 DEF Orders
<1> HIDE DEF m, L, T
<1>10. PICK acc :
         /\ acc[0] = [k \in 1..m |-> <<>>]
         /\ \A i \in 1..L :
              acc[i] = [acc[i - 1] EXCEPT ![((i - 1) % m) + 1] = Append(@, pool[i])]
         /\ SplitIntoSets(pool, n) = acc[L]
  <2>1. m = SetCount(pool, n)
    BY DEF m
  <2>2. \E acc :
          /\ acc[0] = [k \in 1..m |-> <<>>]
          /\ \A i \in 1..Len(pool) :
               acc[i] = [acc[i - 1] EXCEPT ![((i - 1) % m) + 1] = Append(@, pool[i])]
          /\ SplitIntoSets(pool, n) = acc[Len(pool)]
    BY <1>5, <1>8, <2>1, DealUnfolds
  <2> QED
    BY <2>2 DEF L
<1> DEFINE Good == {i \in 0..L : Dealt(pool, m, acc[i], i) /\ Level(m, acc[i], i)}
<1>11. 0 \in Good
  <2>1. 0 \in 0..L /\ 1..0 = {} /\ 2..0 = {}
    BY <1>4
  <2>2. acc[0] \in [1..m -> Seq(T)] /\ \A k \in 1..m : Len(acc[0][k]) = 0
    BY <1>10
  <2>3. Dealt(pool, m, acc[0], 0)
    BY <2>1, <2>2 DEF Dealt, T
  <2>4. 0 % m = 0 /\ ~ (0 >= m) /\ \A k \in 1..m : ~ (k <= 0)
    BY <1>8
  <2>5. Level(m, acc[0], 0)
    BY <2>1, <2>2, <2>4 DEF Level
  <2> QED
    BY <2>1, <2>3, <2>5
<1>12. ASSUME NEW i \in 1..L, i - 1 \in Good PROVE i \in Good
  <2> DEFINE t == ((i - 1) % m) + 1
  <2>1. t \in 1..m /\ i \in 0..L
    <3>1. i \in Nat \ {0} /\ i \in 0..L
      BY <1>4
    <3>2. (i - 1) % m \in 0..(m - 1)
      BY <1>8, <3>1, NextRemainder
    <3> QED
      BY <1>8, <3>1, <3>2
  <2>2. Dealt(pool, m, acc[i - 1], i - 1) /\ Level(m, acc[i - 1], i - 1)
    BY <1>12
  <2>3. acc[i] = [acc[i - 1] EXCEPT ![t] = Append(@, pool[i])]
    BY <1>10
  <2> HIDE DEF Good
  <2>0. /\ pool \in Seq(DOMAIN dsRecords) /\ i \in 1..Len(pool) /\ m \in Nat \ {0}
        /\ \A j, l \in 1..Len(pool) : pool[j] = pool[l] => j = l
        /\ \A j, l \in 1..Len(pool) : j < l => CreatedAt(pool[j]) >= CreatedAt(pool[l])
    BY <1>5, <1>6, <1>7, <1>8 DEF L, T
  <2>4. Level(m, acc[i], i)
    BY <2>0, <2>2, <2>3, DealLevel
  <2> HIDE DEF t
  <2>5. Dealt(pool, m, acc[i], i)
    BY <2>0, <2>1, <2>2, <2>3, DealOne
  <2> QED
    BY <2>1, <2>4, <2>5 DEF Good
<1>13. L \in Good
  <2> HIDE DEF Good
  <2>1. L \in 0..L
    BY <1>4
  <2> QED
    BY <1>4, <1>11, <1>12, <2>1, PrefixInduction
<1> QED
  BY <1>1, <1>3, <1>8, <1>9, <1>10, <1>13 DEF L, m

\* The same in the words of the properties
LEMMA SetsOf ==
  ASSUME TableOK, NEW S \in SUBSET DOMAIN dsRecords, NEW pool \in Sorted(S),
         NEW n \in Nat \ {0}, NEW sets, sets = SplitIntoSets(pool, n)
  PROVE  /\ \A id \in DOMAIN dsRecords :
              Cardinality(Places(sets, id)) = IF id \in S THEN 1 ELSE 0
         /\ S # {} => \A k \in DOMAIN sets : sets[k] # <<>>
         /\ \A k, l \in DOMAIN sets : \A j \in DOMAIN sets[l] \ {1} :
              /\ j - 1 \in DOMAIN sets[k]
              /\ CreatedAt(sets[k][j - 1]) >= CreatedAt(sets[l][j])
<1> DEFINE L == Len(pool)
<1>1. PICK m \in Nat \ {0} :
        /\ S # {} => L >= m
        /\ Orders(pool, S) /\ L <= MaxId
        /\ Dealt(pool, m, sets, L) /\ Level(m, sets, L)
  BY DealtSets
<1>2. /\ sets \in [1..m -> Seq(DOMAIN dsRecords)]
      /\ DOMAIN sets = 1..m /\ Len(sets) = m
      /\ \A k \in 1..m : Len(sets[k]) \in Nat /\ DOMAIN sets[k] = 1..Len(sets[k])
  <2>1. sets \in [1..m -> Seq(DOMAIN dsRecords)]
    BY <1>1 DEF Dealt
  <2>2. sets \in Seq(Seq(DOMAIN dsRecords)) /\ Len(sets) = m
    BY <2>1
  <2> QED
    BY <2>1, <2>2
<1>3. /\ L \in Nat /\ L <= MaxId /\ MaxId \in Nat
      /\ \A i \in 1..L : pool[i] \in S
      /\ \A id \in S : \E i \in 1..L : pool[i] = id
  BY <1>1, SearchAssumption DEF Orders
<1>4. /\ \A k \in 1..m : Len(sets[k]) <= L
      /\ \A j \in 1..L : \E k \in 1..m : \E a \in 1..Len(sets[k]) : sets[k][a] = pool[j]
      /\ \A k \in 1..m : \A a \in 1..Len(sets[k]) : \E j \in 1..L : sets[k][a] = pool[j]
  BY <1>1 DEF Dealt
<1>5. \A k, l \in 1..m : \A a \in 1..Len(sets[k]), b \in 1..Len(sets[l]) :
        sets[k][a] = sets[l][b] => k = l /\ a = b
  BY <1>1 DEF Dealt
<1> HIDE DEF L
<1>a. ASSUME NEW id \in S
      PROVE  \E k \in 1..m : \E a \in 1..Len(sets[k]) : sets[k][a] = id
  <2>1. PICK i \in 1..L : pool[i] = id
    BY <1>3
  <2>2. PICK k \in 1..m : \E a \in 1..Len(sets[k]) : sets[k][a] = pool[i]
    BY <1>4
  <2> QED
    BY <2>1, <2>2
<1>b. ASSUME NEW k \in 1..m, NEW a \in 1..Len(sets[k]) PROVE sets[k][a] \in S
  <2>1. PICK i \in 1..L : sets[k][a] = pool[i]
    BY <1>4
  <2> QED
    BY <1>3, <2>1
<1>6. ASSUME NEW id \in DOMAIN dsRecords
      PROVE  Cardinality(Places(sets, id)) = IF id \in S THEN 1 ELSE 0
  <2>1. \A place : place \in Places(sets, id) <=>
          \E k \in 1..m : \E a \in 1..MaxId :
            place = <<k, a>> /\ a \in 1..Len(sets[k]) /\ sets[k][a] = id
    BY <1>2 DEF Places
  <2>2. CASE id \in S
    <3>1. PICK k \in 1..m : \E a \in 1..Len(sets[k]) : sets[k][a] = id
      BY <1>a, <2>2
    <3>2. PICK a \in 1..Len(sets[k]) : sets[k][a] = id
      BY <3>1
    <3>3. a \in 1..MaxId
      BY <1>2, <1>3, <1>4
    <3>4. <<k, a>> \in Places(sets, id)
      BY <2>1, <3>2, <3>3
    <3>5. ASSUME NEW place \in Places(sets, id) PROVE place = <<k, a>>
      <4>1. PICK l \in 1..m, b \in 1..MaxId :
              place = <<l, b>> /\ b \in 1..Len(sets[l]) /\ sets[l][b] = id
        BY <2>1
      <4>2. l = k /\ b = a
        BY <1>5, <3>2, <4>1
      <4> QED
        BY <4>1, <4>2
    <3>6. Places(sets, id) = {<<k, a>>}
      BY <3>4, <3>5
    <3> QED
      BY <2>2, <3>6, FS_Singleton
  <2>3. CASE id \notin S
    <3>1. Places(sets, id) = {}
      BY <1>b, <2>1, <2>3
    <3> QED
      BY <2>3, <3>1, FS_EmptySet
  <2> QED
    BY <2>2, <2>3
<1>7. PICK q \in Nat : /\ L >= m => q >= 1
                       /\ \A k \in 1..m : Len(sets[k]) = IF k <= L % m THEN q + 1 ELSE q
  BY <1>1 DEF Level, L
<1>8. \A k \in 1..m : Len(sets[k]) \in {q, q + 1}
  BY <1>7
<1>9. ASSUME S # {}, NEW k \in DOMAIN sets PROVE sets[k] # <<>>
  <2>1. q >= 1
    BY <1>1, <1>7, <1>9 DEF L
  <2>2. Len(sets[k]) \in {q, q + 1}
    BY <1>2, <1>8, <1>9
  <2>3. Len(sets[k]) # 0
    BY <2>1, <2>2
  <2> QED
    BY <2>3
<1>10. ASSUME NEW k \in DOMAIN sets, NEW l \in DOMAIN sets, NEW j \in DOMAIN sets[l] \ {1}
       PROVE  /\ j - 1 \in DOMAIN sets[k]
              /\ CreatedAt(sets[k][j - 1]) >= CreatedAt(sets[l][j])
  <2>1. j \in 2..Len(sets[l]) /\ Len(sets[l]) <= q + 1 /\ q <= Len(sets[k])
    <3>1. Len(sets[l]) \in {q, q + 1} /\ Len(sets[k]) \in {q, q + 1} /\ j \in 1..Len(sets[l])
      BY <1>2, <1>8
    <3> QED
      BY <3>1
  <2>2. j - 1 \in 1..Len(sets[k])
    <3>1. Len(sets[k]) \in Nat /\ Len(sets[l]) \in Nat /\ j \in Nat
      BY <1>2, <2>1
    <3> QED
      BY <2>1, <3>1
  <2>3. CreatedAt(sets[k][j - 1]) >= CreatedAt(sets[l][j])
    BY <1>1, <1>2, <2>1 DEF Level
  <2> QED
    BY <1>2, <2>2, <2>3
<1> QED
  BY <1>6, <1>9, <1>10

-----------------------------------------------------------------------------
(* Answers *)

SearchInv ==
  /\ TableOK
  /\ EveryMatchOnce /\ NoGhosts /\ PagesLevel
  /\ StatsAreNewest /\ PersistenceIsNewest /\ NewestKept

\* Another answer says nothing that a property about this one is about.
OtherAnswers ==
  /\ reply.op # "SearchBalloon" => EveryMatchOnce /\ NoGhosts /\ PagesLevel
  /\ reply.op \notin {"SearchBalloon", "FetchMyInfos"} => StatsAreNewest
  /\ reply.op # "GetPersistenceInfo" => PersistenceIsNewest
  /\ reply.op # "SearchObject" => NewestKept

\* That holds before a step ...
LEMMA Others == OtherAnswers
BY DEF OtherAnswers, Searched, EveryMatchOnce, NoGhosts, PagesLevel, StatsAreNewest,
       PersistenceIsNewest, NewestKept

\* ... and after it.
LEMMA OthersNext == OtherAnswers'
BY DEF OtherAnswers, Searched, EveryMatchOnce, NoGhosts, PagesLevel, StatsAreNewest,
       PersistenceIsNewest, NewestKept

\* A search
LEMMA SearchStep ==
  ASSUME TableOK, NEW p \in Pids, SearchBalloon(p)
  PROVE  (EveryMatchOnce /\ NoGhosts /\ PagesLevel /\ StatsAreNewest)' /\ reply'.op = "SearchBalloon"
<1>0. PICK type \in DataTypes \cup {0}, n \in SetCounts :
        \E pool \in Sorted(Pool(p, type)), scan \in Scans :
          /\ reply' = [op |-> "SearchBalloon", by |-> p, dataType |-> type, count |-> n,
                       sets |-> SplitIntoSets(pool, IF n = 0 THEN 1 ELSE n),
                       ownerStats |-> StatsScan(scan)]
          /\ UNCHANGED <<dsRecords, balloonFound>>
  BY DEF SearchBalloon
<1>1. PICK pool \in Sorted(Pool(p, type)), scan \in Scans :
        /\ reply' = [op |-> "SearchBalloon", by |-> p, dataType |-> type, count |-> n,
                     sets |-> SplitIntoSets(pool, IF n = 0 THEN 1 ELSE n),
                     ownerStats |-> StatsScan(scan)]
        /\ UNCHANGED <<dsRecords, balloonFound>>
  BY <1>0
<1> DEFINE S == Pool(p, type)
           count == IF n = 0 THEN 1 ELSE n
<1>2. PICK sets : sets = SplitIntoSets(pool, count)
  OBVIOUS
<1>3. PICK stats : stats = StatsScan(scan)
  OBVIOUS
<1>4. count \in Nat \ {0} /\ S \in SUBSET DOMAIN dsRecords /\ pool \in Sorted(S)
  BY SearchAssumption DEF Pool
<1>5. /\ reply'.op = "SearchBalloon" /\ reply'.by = p /\ reply'.dataType = type
      /\ reply'.sets = sets /\ reply'.ownerStats = stats
      /\ dsRecords' = dsRecords /\ balloonFound' = balloonFound
  BY <1>1, <1>2, <1>3
<1>6. Pool(reply.by, reply.dataType)' = S
  BY <1>5 DEF Pool, IsStats
<1> HIDE DEF S, count
<1>7. /\ \A id \in DOMAIN dsRecords :
           Cardinality(Places(sets, id)) = IF id \in S THEN 1 ELSE 0
      /\ S # {} => \A k \in DOMAIN sets : sets[k] # <<>>
      /\ \A k, l \in DOMAIN sets : \A j \in DOMAIN sets[l] \ {1} :
           /\ j - 1 \in DOMAIN sets[k]
           /\ CreatedAt(sets[k][j - 1]) >= CreatedAt(sets[l][j])
  BY <1>2, <1>4, SetsOf
<1>8. \A o \in Pids : IF Stats(o) = {} THEN stats[o] = 0 ELSE IsNewest(stats[o], Stats(o))
  BY <1>3, StatsFound
<1>9. EveryMatchOnce'
  BY <1>5, <1>6, <1>7 DEF EveryMatchOnce, Places
<1>10. NoGhosts'
  BY <1>5, <1>6, <1>7 DEF NoGhosts
<1>11. PagesLevel'
  BY <1>5, <1>7 DEF PagesLevel, CreatedAt
<1>12. StatsAreNewest'
  <2>1. \A o : Stats(o)' = Stats(o)
    BY <1>5 DEF Stats, IsStats
  <2>2. \A id, T : IsNewest(id, T)' <=> IsNewest(id, T)
    BY <1>5 DEF IsNewest, CreatedAt
  <2> QED
    BY <1>5, <1>8, <2>1, <2>2 DEF StatsAreNewest, Searched
<1> QED
  BY <1>5, <1>9, <1>10, <1>11, <1>12

\* A player's own balloons and stats
LEMMA FetchStep ==
  ASSUME TableOK, NEW p \in Pids, FetchMyInfos(p)
  PROVE  StatsAreNewest' /\ reply'.op = "FetchMyInfos"
<1>1. PICK types \in SUBSET DataTypes :
        \E mine \in Sorted(Mine(p, types)), achievement \in StatsOf(p) :
          /\ reply' = [op |-> "FetchMyInfos", by |-> p, types |-> types, mine |-> mine,
                       achievement |-> achievement]
          /\ UNCHANGED <<dsRecords, balloonFound>>
  BY DEF FetchMyInfos
<1>2. PICK achievement \in StatsOf(p) :
        /\ reply'.op = "FetchMyInfos" /\ reply'.by = p /\ reply'.achievement = achievement
        /\ dsRecords' = dsRecords
  BY <1>1
<1> DEFINE C == {id \in DOMAIN dsRecords : /\ dsRecords[id].complete
                                          /\ dsRecords[id].owner = p
                                          /\ IsStats(id)}
<1>3. PICK scan \in Scans : achievement = NewestScan(scan, C)
  BY <1>2 DEF StatsOf
<1>4. C = Stats(p) /\ C \in SUBSET DOMAIN dsRecords
  BY DEF Stats
<1> HIDE DEF C
<1>5. IF Stats(p) = {} THEN achievement = 0 ELSE IsNewest(achievement, Stats(p))
  BY <1>3, <1>4, NewestFound
<1>6. Stats(p)' = Stats(p)
  BY <1>2 DEF Stats, IsStats
<1>7. \A id, T : IsNewest(id, T)' <=> IsNewest(id, T)
  BY <1>2 DEF IsNewest, CreatedAt
<1> QED
  BY <1>2, <1>5, <1>6, <1>7 DEF StatsAreNewest, Searched

\* The balloon of a slot
LEMMA PersistenceStep ==
  ASSUME TableOK, GetPersistenceInfo
  PROVE  PersistenceIsNewest' /\ reply'.op = "GetPersistenceInfo"
<1>1. PICK owner \in Pids, slot \in Slots \cup {NotPersistent}, scan \in Scans :
        /\ reply' = [op |-> "GetPersistenceInfo", owner |-> owner, slot |-> slot,
                     dataId |-> NewestScan(scan, {id \in Mine(owner, {}) : InSlot(id, slot)})]
        /\ UNCHANGED <<dsRecords, balloonFound>>
  BY DEF GetPersistenceInfo
<1> DEFINE C == {id \in Mine(owner, {}) : InSlot(id, slot)}
<1>2. C \in SUBSET DOMAIN dsRecords
  BY DEF Mine
<1>3. PICK found : found = NewestScan(scan, C)
  OBVIOUS
<1>4. /\ reply'.op = "GetPersistenceInfo" /\ reply'.owner = owner /\ reply'.slot = slot
      /\ reply'.dataId = found /\ dsRecords' = dsRecords
  BY <1>1, <1>3
<1>5. {id \in Mine(reply.owner, {}) :
          dsRecords[id].posted \in {reply.slot, BeforeSlots, NotPersistent}}' = C
  <2>1. \A id \in DOMAIN dsRecords :
          InSlot(id, slot) <=> dsRecords[id].posted \in {slot, BeforeSlots, NotPersistent}
    <3> SUFFICES ASSUME NEW id \in DOMAIN dsRecords
                 PROVE  InSlot(id, slot)
                          <=> dsRecords[id].posted \in {slot, BeforeSlots, NotPersistent}
      OBVIOUS
    <3>1. dsRecords[id].posted \in Slots \cup {NotPersistent, BeforeSlots}
      BY DEF TableOK, Record
    <3> QED
      BY <1>1, <3>1, SearchAssumption DEF InSlot, SlotOf, ReadPersistenceSlot
  <2> QED
    BY <1>4, <2>1 DEF Mine, IsStats
<1> HIDE DEF C
<1>6. IF C = {} THEN found = 0 ELSE IsNewest(found, C)
  BY <1>2, <1>3, NewestFound
<1>7. \A id, T : IsNewest(id, T)' <=> IsNewest(id, T)
  BY <1>4 DEF IsNewest, CreatedAt
<1> QED
  BY <1>4, <1>5, <1>6, <1>7 DEF PersistenceIsNewest

\* What SearchObject cuts off is no newer than what it keeps.
LEMMA KeptStep ==
  ASSUME TableOK, SearchObject
  PROVE  NewestKept' /\ reply'.op = "SearchObject"
<1>1. PICK type \in DataTypes \cup {0} :
        \E matches \in Sorted(Matches(type)) :
          /\ reply' = [op |-> "SearchObject", dataType |-> type,
                       matches |-> SubSeq(matches, 1, IF Len(matches) > MaxResults
                                                      THEN MaxResults ELSE Len(matches))]
          /\ UNCHANGED <<dsRecords, balloonFound>>
  BY DEF SearchObject
<1> DEFINE S == Matches(type)
<1>2. PICK s \in Sorted(S) :
        /\ reply' = [op |-> "SearchObject", dataType |-> type,
                     matches |-> SubSeq(s, 1, IF Len(s) > MaxResults
                                              THEN MaxResults ELSE Len(s))]
        /\ dsRecords' = dsRecords
  BY <1>1
<1> DEFINE n == IF Len(s) > MaxResults THEN MaxResults ELSE Len(s)
<1>3. PICK kept : kept = SubSeq(s, 1, n)
  OBVIOUS
<1>4. /\ reply'.op = "SearchObject" /\ reply'.dataType = type /\ reply'.matches = kept
      /\ dsRecords' = dsRecords
  BY <1>2, <1>3
<1>5. Matches(reply.dataType)' = S /\ S \in SUBSET DOMAIN dsRecords
  BY <1>4 DEF Matches
<1> HIDE DEF S
<1>6. Orders(s, S)
  <2>1. IsFiniteSet(S) /\ s \in SetToSeqs(S)
    BY <1>5, TableFacts, FS_Subset DEF Sorted
  <2> QED
    BY <2>1, OrderFacts
<1>7. /\ MaxResults \in Nat /\ Len(s) \in Nat
      /\ \A i, j \in 1..Len(s) : i < j => CreatedAt(s[i]) >= CreatedAt(s[j])
  BY <1>6, SearchAssumption DEF Sorted, Orders
<1>8. n \in Nat /\ n <= Len(s) /\ (n < Len(s) => n = MaxResults)
  BY <1>7
<1> HIDE DEF n
<1>9. Len(kept) = n /\ DOMAIN kept = 1..n /\ \A i \in 1..n : kept[i] = s[i]
  <2>1. s \in Seq(S)
    <3>1. s \in [1..Cardinality(S) -> S]
      BY DEF Sorted, SetToSeqs
    <3> QED
      BY <1>6, <1>7, <3>1 DEF Orders
  <2> QED
    BY <1>3, <1>8, <2>1
<1>10. ASSUME NEW id \in S \ ToSet(kept)
       PROVE  /\ n = MaxResults
              /\ \A i \in 1..n : CreatedAt(s[i]) >= CreatedAt(id)
  <2>1. PICK j \in 1..Len(s) : s[j] = id
    BY <1>6 DEF Orders
  <2>2. ~ (j <= n)
    <3>1. CASE j \in 1..n
      BY <1>9, <1>10, <2>1, <3>1 DEF ToSet
    <3> QED
      BY <1>7, <1>8, <3>1
  <2>3. \A i \in 1..n : i \in 1..Len(s) /\ i < j
    BY <1>7, <1>8, <2>2
  <2> QED
    BY <1>7, <1>8, <2>1, <2>2, <2>3
<1>11. NewestKept'
  <2>1. ASSUME NEW id \in S \ ToSet(kept)
        PROVE  Len(kept) = MaxResults /\ \A i \in DOMAIN kept : CreatedAt(kept[i]) >= CreatedAt(id)
    BY <1>9, <1>10
  <2> QED
    BY <1>4, <1>5, <2>1 DEF NewestKept, CreatedAt
<1> QED
  BY <1>4, <1>11

\* An answer stays right until the client takes it: only then are finds noted.
LEMMA SearchInvariant == Spec => []SearchInv
<1>1. Init => SearchInv
  <2> SUFFICES ASSUME Init PROVE SearchInv
    OBVIOUS
  <2>1. reply.op = "none"
    BY DEF Init, NoReply
  <2>2. TableOK
    BY RecordAssumption DEF Init, TableOK
  <2> QED
    BY <2>1, <2>2, Others DEF OtherAnswers, SearchInv
<1>2. SearchInv /\ [Next]_vars => SearchInv'
  <2> SUFFICES ASSUME SearchInv, [Next]_vars PROVE SearchInv'
    OBVIOUS
  <2>0. TableOK
    BY DEF SearchInv
  <2>1. TableOK'
    <3>1. dsRecords' = dsRecords
      BY DEF Next, Query, SearchBalloon, FetchMyInfos, GetPersistenceInfo, SearchObject,
             TakeReply, MarkBalloonFound, vars
    <3> QED
      BY <2>0, <3>1 DEF TableOK
  <2>2. ASSUME NEW p \in Pids, SearchBalloon(p) PROVE SearchInv'
    BY <2>0, <2>1, <2>2, SearchStep, OthersNext DEF OtherAnswers, SearchInv
  <2>3. ASSUME NEW p \in Pids, FetchMyInfos(p) PROVE SearchInv'
    BY <2>0, <2>1, <2>3, FetchStep, OthersNext DEF OtherAnswers, SearchInv
  <2>4. CASE GetPersistenceInfo
    BY <2>0, <2>1, <2>4, PersistenceStep, OthersNext DEF OtherAnswers, SearchInv
  <2>5. CASE SearchObject
    BY <2>0, <2>1, <2>5, KeptStep, OthersNext DEF OtherAnswers, SearchInv
  <2>6. CASE reply' = NoReply
    <3>1. reply'.op = "none"
      BY <2>6 DEF NoReply
    <3> QED
      BY <2>1, <3>1, OthersNext DEF OtherAnswers, SearchInv
  <2>7. ASSUME NEW p \in Pids, MarkBalloonFound(p) PROVE reply' = NoReply
    BY <2>7 DEF MarkBalloonFound
  <2>8. CASE UNCHANGED vars
    BY <2>8 DEF SearchInv, vars, TableOK, EveryMatchOnce, NoGhosts, PagesLevel, StatsAreNewest,
            PersistenceIsNewest, NewestKept, Searched, Pool, IsStats, CreatedAt, Stats,
            IsNewest, Mine, Matches
  <2> QED
    BY <2>2, <2>3, <2>4, <2>5, <2>6, <2>7, <2>8 DEF Next, Query, TakeReply
<1> QED
  BY <1>1, <1>2, PTL DEF Spec

\* Whatever the table, the finds and the order of the scans, the sets of an answer hold
\* each matching balloon once, however many there are of either (splitIntoSets).
THEOREM EveryMatchSurfaces == Spec => []EveryMatchOnce
BY SearchInvariant, PTL DEF SearchInv

\* No set of an answer is empty unless nothing matches (dsSearchBalloon caps their number).
THEOREM NoSetIsEmpty == Spec => []NoGhosts
BY SearchInvariant, PTL DEF SearchInv

\* The sets are pages of the newest balloons, level to within one (splitIntoSets).
THEOREM PagesStayLevel == Spec => []PagesLevel
BY SearchInvariant, PTL DEF SearchInv

\* A search and its owner's FetchMyInfos name stats of the owner, the newest there are,
\* in every order of the scans and with ties of CreatedAt (ownerStats, dsFetchMyInfos).
THEOREM StatsNamedAreNewest == Spec => []StatsAreNewest
BY SearchInvariant, PTL DEF SearchInv

\* GetPersistenceInfo names the newest balloon of the slot or of no slot, 0 only if there
\* is none.
THEOREM PersistenceNamesNewest == Spec => []PersistenceIsNewest
BY SearchInvariant, PTL DEF SearchInv

\* SearchObject, cut at any number of results, cuts off the oldest.
THEOREM CutsOffOldest == Spec => []NewestKept
BY SearchInvariant, PTL DEF SearchInv
===============================================================================
