----------------------------- MODULE DecbProofs -----------------------------
(***************************************************************************)
(* The granules of a file, for any granule table and any size of a disk's  *)
(* parts: where n steps from a granule lead to, and where the file ends.   *)
(*                                                                         *)
(* After is a recursive function of the number of steps.  That there is    *)
(* one at all is shown from the least number for which there would be none.*)
(***************************************************************************)
EXTENDS DecbFormat, WellFoundedInduction, TLAPS

Less == {pair \in Nat \X Nat : pair[1] < pair[2]}

\* A set of natural numbers that is not empty has a least element.
LEMMA LeastOf ==
    ASSUME NEW S \in SUBSET Nat, S # {}
    PROVE  \E i \in S : \A j \in S : i <= j
  <1>1. IsWellFoundedOn(Less, Nat)
    BY NatLessThanWellFounded DEF OpToRel, Less
  <1>2. PICK i \in S : \A j \in S : ~(<<j, i>> \in Less)
    BY <1>1, WFMin
  <1>3. \A j \in S : ~(j < i)
    BY <1>2 DEF Less
  <1> QED
    BY <1>3

Following(fat, byte) == IF byte \in Granules THEN fat[byte] ELSE EndOfFile

\* f is where up to n steps from g lead to.
GoesOn(f, fat, n) == \A m \in 1..n : f[m] = Following(fat, f[m - 1])
IsChain(f, fat, g, n) == f \in [0..n -> FatBytes] /\ f[0] = g /\ GoesOn(f, fat, n)
Chain(fat, g, n, f) ==
    [m \in 0..n |-> IF m = 0 THEN g
                    ELSE LET before == f[m - 1]
                         IN  IF before \in Granules THEN fat[before] ELSE EndOfFile]
ChainOf(fat, g, n) == CHOOSE f : f = Chain(fat, g, n, f)

LEMMA FollowingIsAByte ==
    ASSUME NEW fat \in Fats, NEW byte
    PROVE  Following(fat, byte) \in FatBytes
  BY DEF Following, Fats, FatBytes, EndOfFile, Free

LEMMA HasChain ==
    ASSUME NEW fat \in Fats, NEW g \in FatBytes, NEW n \in Nat
    PROVE  \E f : IsChain(f, fat, g, n)
  <1> DEFINE none == {k \in Nat : ~\E f : IsChain(f, fat, g, k)}
  <1> SUFFICES ASSUME none # {} PROVE FALSE
    OBVIOUS
  <1>1. PICK k \in none : \A j \in none : k <= j
    BY LeastOf
  <1>2. CASE k = 0
    <2> DEFINE f == [m \in 0..0 |-> g]
    <2>1. f \in [0..0 -> FatBytes] /\ f[0] = g /\ 1..0 = {}
      OBVIOUS
    <2> QED
      BY <1>1, <1>2, <2>1 DEF IsChain, GoesOn
  <1>3. CASE k # 0
    <2>1. k - 1 \in Nat /\ k \in Nat /\ ~(k - 1 \in none)
      BY <1>1, <1>3
    <2>2. PICK f : IsChain(f, fat, g, k - 1)
      BY <2>1
    <2> DEFINE last == Following(fat, f[k - 1])
               h == [m \in 0..k |-> IF m = k THEN last ELSE f[m]]
    <2>3. /\ \A m \in 1..k : m \in 0..k /\ (m # k => m \in 1..(k - 1))
          /\ \A m \in 0..k : m # k => m \in 0..(k - 1)
          /\ k \in 0..k /\ 0 \in 0..k
      BY <2>1, <1>3
    <2>4. last \in FatBytes
      BY FollowingIsAByte
    <2>5. \A m \in 0..k : h[m] = IF m = k THEN last ELSE f[m]
      OBVIOUS
    <2>6. h \in [0..k -> FatBytes]
      BY <2>2, <2>3, <2>4 DEF IsChain
    <2> HIDE DEF h
    <2>7. h[0] = g
      BY <1>3, <2>2, <2>3, <2>5 DEF IsChain
    <2>8. ASSUME NEW m \in 1..k PROVE h[m] = Following(fat, h[m - 1])
      <3>1. m - 1 \in 0..k /\ m - 1 # k
        BY <2>1
      <3>2. h[m - 1] = f[m - 1]
        BY <2>5, <3>1
      <3>3. CASE m = k
        BY <2>3, <2>5, <3>2, <3>3
      <3>4. CASE m # k
        BY <2>2, <2>3, <2>5, <3>2, <3>4 DEF IsChain, GoesOn
      <3> QED
        BY <3>3, <3>4
    <2> QED
      BY <1>1, <2>6, <2>7, <2>8 DEF IsChain, GoesOn
  <1> QED
    BY <1>2, <1>3

\* Two that go on alike are alike.
LEMMA SameChain ==
    ASSUME NEW f, NEW h, NEW fat, NEW n \in Nat,
           f[0] = h[0], GoesOn(f, fat, n), GoesOn(h, fat, n)
    PROVE  \A m \in 0..n : f[m] = h[m]
  <1> DEFINE apart == {k \in 0..n : f[k] # h[k]}
  <1> SUFFICES ASSUME apart # {} PROVE FALSE
    OBVIOUS
  <1>1. apart \in SUBSET Nat
    OBVIOUS
  <1>2. PICK k \in apart : \A j \in apart : k <= j
    BY <1>1, LeastOf
  <1>3. k # 0 /\ k \in 1..n /\ k - 1 \in 0..n /\ ~(k - 1 \in apart)
    BY <1>2
  <1>4. f[k - 1] = h[k - 1]
    BY <1>3
  <1>5. f[k] = h[k]
    BY <1>3, <1>4 DEF GoesOn
  <1> QED
    BY <1>2, <1>5

LEMMA ChainsAre ==
    ASSUME NEW fat \in Fats, NEW g \in FatBytes, NEW n \in Nat
    PROVE  IsChain(ChainOf(fat, g, n), fat, g, n)
  <1>1. PICK f : IsChain(f, fat, g, n)
    BY HasChain
  <1>2. f = Chain(fat, g, n, f)
    <2>1. f = [m \in 0..n |-> f[m]]
      BY <1>1 DEF IsChain
    <2>2. \A m \in 0..n : f[m] = IF m = 0 THEN g ELSE Following(fat, f[m - 1])
      BY <1>1 DEF IsChain, GoesOn
    <2> QED
      BY <2>1, <2>2, Zenon DEF Chain, Following
  <1> DEFINE c == ChainOf(fat, g, n)
  <1>3. c = Chain(fat, g, n, c)
    BY <1>2, Zenon DEF ChainOf
  <1> HIDE DEF c
  <1>4. \A m \in 0..n : c[m] = IF m = 0 THEN g ELSE Following(fat, c[m - 1])
    BY <1>3, Zenon DEF Chain, Following
  <1>5. c = [m \in 0..n |-> c[m]]
    BY <1>3, Zenon DEF Chain
  <1>6. c[0] = f[0] /\ GoesOn(c, fat, n) /\ GoesOn(f, fat, n)
    BY <1>1, <1>4 DEF IsChain, GoesOn
  <1>7. \A m \in 0..n : c[m] = f[m]
    BY <1>6, SameChain, Zenon
  <1>8. f = [m \in 0..n |-> f[m]]
    BY <1>1 DEF IsChain
  <1>9. c = f
    BY <1>5, <1>7, <1>8, Zenon
  <1> QED
    BY <1>1, <1>9 DEF c

\* The table is followed step by step.
LEMMA AfterFollows ==
    ASSUME NEW fat \in Fats, NEW g \in FatBytes, NEW n \in Nat
    PROVE  /\ After(fat, g, 0) = g /\ After(fat, g, n) \in FatBytes
           /\ After(fat, g, n + 1) = Following(fat, After(fat, g, n))
  <1>1. ASSUME NEW k \in Nat PROVE After(fat, g, k) = ChainOf(fat, g, k)[k]
    BY Zenon DEF After, ChainOf, Chain
  <1>2. /\ IsChain(ChainOf(fat, g, 0), fat, g, 0)
        /\ IsChain(ChainOf(fat, g, n), fat, g, n)
        /\ IsChain(ChainOf(fat, g, n + 1), fat, g, n + 1)
    BY ChainsAre
  <1>3. After(fat, g, 0) = g
    BY <1>1, <1>2 DEF IsChain
  <1> DEFINE f == ChainOf(fat, g, n)
             h == ChainOf(fat, g, n + 1)
  <1>4. f[n] \in FatBytes /\ After(fat, g, n) = f[n] /\ After(fat, g, n + 1) = h[n + 1]
    BY <1>1, <1>2 DEF IsChain
  <1> HIDE DEF f, h
  <1>5. f[0] = h[0] /\ GoesOn(f, fat, n) /\ GoesOn(h, fat, n)
    BY <1>2 DEF f, h, IsChain, GoesOn
  <1>6. f[n] = h[n]
    BY <1>5, SameChain
  <1>7. h[n + 1] = Following(fat, h[n])
    BY <1>2 DEF h, IsChain, GoesOn
  <1> QED
    BY <1>3, <1>4, <1>6, <1>7

\* A file ends where a step leads out of the granules, and no earlier.
EndsAt(fat, g, n) ==
    /\ n = MAX_NUM_GRANULES \/ After(fat, g, n) \notin Granules
    /\ \A m \in 0..n - 1 : After(fat, g, m) \in Granules

LEMMA StepsAre ==
    ASSUME NEW fat, NEW g, NEW n \in 0..MAX_NUM_GRANULES, EndsAt(fat, g, n)
    PROVE  Steps(fat, g) = n
  <1>1. ASSUME NEW k \in 0..MAX_NUM_GRANULES, EndsAt(fat, g, k) PROVE k = n
    <2>1. k < n => FALSE
      BY <1>1 DEF MAX_NUM_GRANULES, EndsAt
    <2>2. n < k => FALSE
      BY <1>1 DEF MAX_NUM_GRANULES, EndsAt
    <2> QED
      BY <2>1, <2>2 DEF MAX_NUM_GRANULES
  <1>2. Steps(fat, g) = CHOOSE k \in 0..MAX_NUM_GRANULES : EndsAt(fat, g, k)
    BY Zenon DEF Steps, EndsAt
  <1> QED
    BY <1>1, <1>2

\* From every granule the last one is reached, or all are passed.
LEMMA StepsEnd ==
    ASSUME NEW fat \in Fats, NEW g \in Granules
    PROVE  /\ Steps(fat, g) \in 1..MAX_NUM_GRANULES
           /\ EndsAt(fat, g, Steps(fat, g))
  <1> DEFINE ends == {n \in Nat : n = MAX_NUM_GRANULES \/ After(fat, g, n) \notin Granules}
  <1>1. MAX_NUM_GRANULES \in ends
    BY DEF MAX_NUM_GRANULES
  <1>2. PICK n \in ends : \A m \in ends : n <= m
    BY <1>1, LeastOf
  <1>3. n <= MAX_NUM_GRANULES
    BY <1>1, <1>2
  <1>4. \A m \in 0..n - 1 : After(fat, g, m) \in Granules
    BY <1>2, <1>3 DEF MAX_NUM_GRANULES
  <1>5. After(fat, g, 0) \in Granules
    BY AfterFollows DEF FatBytes
  <1>6. n # 0
    BY <1>2, <1>5 DEF MAX_NUM_GRANULES
  <1>7. n \in 0..MAX_NUM_GRANULES /\ n \in 1..MAX_NUM_GRANULES /\ EndsAt(fat, g, n)
    BY <1>2, <1>3, <1>4, <1>6 DEF EndsAt, MAX_NUM_GRANULES
  <1> QED
    BY <1>7, StepsAre

\* Behind the end there is no granule.
LEMMA NoneBehind ==
    ASSUME NEW fat \in Fats, NEW g \in FatBytes, NEW n \in Nat,
           After(fat, g, n) \notin Granules, NEW k \in Nat, n <= k
    PROVE  After(fat, g, k) \notin Granules
  <1> DEFINE more == {m \in Nat : n <= m /\ After(fat, g, m) \in Granules}
  <1> SUFFICES ASSUME more # {} PROVE FALSE
    OBVIOUS
  <1>1. PICK m \in more : \A j \in more : m <= j
    BY LeastOf
  <1>2. m - 1 \in Nat /\ n <= m - 1 /\ m - 1 \notin more /\ (m - 1) + 1 = m
    BY <1>1
  <1>3. After(fat, g, m - 1) \notin Granules
    BY <1>2
  <1>4. After(fat, g, m) = EndOfFile
    <2> DEFINE k1 == m - 1
    <2>1. k1 \in Nat /\ k1 + 1 = m /\ After(fat, g, k1) \notin Granules
      BY <1>2, <1>3
    <2> HIDE DEF k1
    <2>2. After(fat, g, k1 + 1) = Following(fat, After(fat, g, k1))
      BY <2>1, AfterFollows
    <2> QED
      BY <2>1, <2>2 DEF Following
  <1> QED
    BY <1>1, <1>4 DEF EndOfFile, Granules, MAX_NUM_GRANULES

\* The last granule is the one before the end.
LEMMA LastIs ==
    ASSUME NEW fat \in Fats, NEW g \in FatBytes, NEW n \in Nat, EndsAt(fat, g, n),
           After(fat, g, n) \notin Granules, NEW i \in Nat
    PROVE  /\ After(fat, g, i) \in Granules <=> i < n
           /\ After(fat, g, i) \in Granules /\ After(fat, g, i + 1) \notin Granules => i + 1 = n
  <1>1. ASSUME NEW k \in Nat PROVE After(fat, g, k) \in Granules <=> k < n
    BY <1>1, NoneBehind DEF EndsAt
  <1> QED
    BY <1>1

(***************************************************************************)
(* The directory.                                                          *)
(***************************************************************************)
\* The first entry of a name is the only one that none of that name precedes.
LEMMA FirstIs ==
    ASSUME NEW d, NEW name, NEW p \in Named(d, name),
           \A q \in Named(d, name) : p = q \/ Precedes(p, q)
    PROVE  FirstNamed(d, name) = EntryAt(d, p)
  <1>1. ASSUME NEW q \in Named(d, name),
               \A r \in Named(d, name) : q = r \/ Precedes(q, r)
        PROVE  q = p
    <2>1. p[1] \in Int /\ p[2] \in Int /\ q[1] \in Int /\ q[2] \in Int
      BY DEF Named, Slots
    <2>2. ~(Precedes(p, q) /\ Precedes(q, p))
      BY <2>1 DEF Precedes
    <2> QED
      BY <1>1, <2>2
  <1> DEFINE first == CHOOSE q \in Named(d, name) : \A r \in Named(d, name) : q = r \/ Precedes(q, r)
  <1>2. first \in Named(d, name) /\ \A r \in Named(d, name) : first = r \/ Precedes(first, r)
    OBVIOUS
  <1>3. first = p
    BY <1>1, <1>2
  <1> QED
    BY <1>3 DEF FirstNamed

LEMMA HasFirst ==
    ASSUME NEW d, NEW name, Named(d, name) # {}
    PROVE  \E p \in Named(d, name) :
              /\ \A q \in Named(d, name) : p = q \/ Precedes(p, q)
              /\ FirstNamed(d, name) = EntryAt(d, p)
  <1> DEFINE sectors == {p[1] : p \in Named(d, name)}
  <1>1. Named(d, name) \subseteq Slots
    BY DEF Named
  <1>2. \A p \in Slots : p = <<p[1], p[2]>> /\ p[1] \in Nat /\ p[2] \in Nat
    BY DEF Slots
  <1>3. sectors \in SUBSET Nat /\ sectors # {}
    BY <1>1, <1>2
  <1>4. PICK s \in sectors : \A t \in sectors : s <= t
    BY <1>3, LeastOf
  <1> DEFINE entries == {p[2] : p \in {q \in Named(d, name) : q[1] = s}}
  <1>5. entries \in SUBSET Nat /\ entries # {}
    BY <1>1, <1>2, <1>4
  <1>6. PICK i \in entries : \A j \in entries : i <= j
    BY <1>5, LeastOf
  <1>7. PICK p \in Named(d, name) : p[1] = s /\ p[2] = i
    BY <1>6
  <1>8. ASSUME NEW q \in Named(d, name) PROVE p = q \/ Precedes(p, q)
    <2>1. p = <<p[1], p[2]>> /\ q = <<q[1], q[2]>> /\ q[1] \in Nat /\ q[2] \in Nat
          /\ p[1] \in Nat /\ p[2] \in Nat
      BY <1>1, <1>2
    <2>2. p[1] <= q[1] /\ (p[1] = q[1] => p[2] <= q[2])
      BY <1>4, <1>6, <1>7
    <2> QED
      BY <2>1, <2>2 DEF Precedes
  <1> QED
    BY <1>8, FirstIs

(***************************************************************************)
(* Sectors are counted in granules.                                        *)
(***************************************************************************)
LEMMA InGranules ==
    ASSUME NEW n \in Nat
    PROVE  /\ n \div GranSectors \in Nat /\ n % GranSectors \in 0..GranSectors - 1
           /\ n = (n \div GranSectors) * GranSectors + (n % GranSectors)
           /\ n % GranSectors # GranSectors - 1 =>
                 /\ (n + 1) \div GranSectors = n \div GranSectors
                 /\ (n + 1) % GranSectors = (n % GranSectors) + 1
           /\ n % GranSectors = GranSectors - 1 =>
                 /\ (n + 1) \div GranSectors = (n \div GranSectors) + 1
                 /\ (n + 1) % GranSectors = 0
           /\ n < MAX_NUM_GRANULES * GranSectors => n \div GranSectors < MAX_NUM_GRANULES
           /\ 0 \div GranSectors = 0 /\ 0 % GranSectors = 0
  <1>1. GranSectors \in 1..9
    BY DecbAssumption
  <1> USE DEF MAX_NUM_GRANULES
  <1>2. CASE GranSectors = 1
    BY <1>2
  <1>3. CASE GranSectors = 2
    BY <1>3
  <1>4. CASE GranSectors = 3
    BY <1>4
  <1>5. CASE GranSectors = 4
    BY <1>5
  <1>6. CASE GranSectors = 5
    BY <1>6
  <1>7. CASE GranSectors = 6
    BY <1>7
  <1>8. CASE GranSectors = 7
    BY <1>8
  <1>9. CASE GranSectors = 8
    BY <1>9
  <1>10. CASE GranSectors = 9
    BY <1>10
  <1> QED
    BY <1>1, <1>2, <1>3, <1>4, <1>5, <1>6, <1>7, <1>8, <1>9, <1>10
=============================================================================
