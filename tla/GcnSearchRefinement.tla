------------------------- MODULE GcnSearchRefinement -------------------------
(***************************************************************************)
(* Proof that searchMemCard() implements LostFileSearch: the two loops of  *)
(* GcnSearchWorker take, for every card, every database and every length   *)
(* of a file, exactly the blocks that the closed form of the chain names,  *)
(* and count exactly the ones it marks.                                    *)
(***************************************************************************)
EXTENDS GcnSearchWorkerProofs, FiniteSetTheorems

-----------------------------------------------------------------------------
(* Going around the user blocks *)

N == TotalPhysBlocks - FirstBlock

LEMMA SizeFact ==
    /\ FirstBlock = 5 /\ TotalPhysBlocks \in Nat /\ TotalPhysBlocks <= U16Max
    /\ N = TotalPhysBlocks - 5 /\ N \in Nat \ {0}
BY BlocksAssumption DEF FirstBlock, N, U16Max

\* A remainder goes up by one until it is the divisor.
LEMMA NextRemainder ==
    ASSUME NEW n \in Nat \ {0}, NEW x \in Nat
    PROVE  /\ x % n \in 0..(n - 1)
           /\ (x + 1) % n = IF (x % n) + 1 < n THEN (x % n) + 1 ELSE 0
           /\ x < n => x % n = x
<1> DEFINE q == x \div n  r == x % n  p == (x + 1) \div n  s == (x + 1) % n
<1>1. /\ q \in Int /\ r \in 0..(n - 1) /\ x = n * q + r
      /\ p \in Int /\ s \in 0..(n - 1) /\ x + 1 = n * p + s
  OBVIOUS
<1>2. x < n => r = x OBVIOUS
<1> HIDE DEF q, r, p, s
<1>3. n * (p - q) = r + 1 - s
  <2>1. n * (p - q) = n * p - n * q BY <1>1
  <2> QED BY <1>1, <2>1
<1>4. p - q \in {0, 1}
  <2>1. CASE p - q >= 2
    <3>1. n * (p - q) >= n * 2 BY <1>1, <2>1
    <3> QED BY <1>1, <1>3, <3>1
  <2>2. CASE p - q <= -1
    <3>1. n * (p - q) <= n * (-1) BY <1>1, <2>2
    <3> QED BY <1>1, <1>3, <3>1
  <2> QED BY <1>1, <2>1, <2>2
<1>5. s = IF r + 1 < n THEN r + 1 ELSE 0
  <2>1. CASE p - q = 0
    <3>1. s = r + 1 BY <1>1, <1>3, <2>1
    <3> QED BY <1>1, <3>1
  <2>2. CASE p - q = 1
    <3>1. s = r + 1 - n BY <1>1, <1>3, <2>2
    <3> QED BY <1>1, <3>1
  <2> QED BY <1>4, <2>1, <2>2
<1> QED BY <1>1, <1>2, <1>5 DEF r, s

\* The block after a user block, and the one a number of blocks after it.
LEMMA AfterFact ==
    ASSUME NEW b \in UserBlocks, NEW i \in Nat
    PROVE  /\ LFS!After(b, i) \in UserBlocks
           /\ LFS!After(b, 0) = b
           /\ LFS!After(b, i + 1) = IF LFS!After(b, i) + 1 < TotalPhysBlocks
                                    THEN LFS!After(b, i) + 1 ELSE FirstBlock
<1>1. FirstBlock = 5 /\ TotalPhysBlocks \in Nat /\ N \in Nat \ {0}
      /\ N = TotalPhysBlocks - 5
  BY SizeFact
<1>2. b \in 5..(TotalPhysBlocks - 1) BY <1>1 DEF UserBlocks
<1> DEFINE x == b - 5 + i
<1>3. x \in Nat /\ b - 5 + (i + 1) = x + 1 /\ b - 5 + 0 \in Nat /\ b - 5 + 0 < N
  BY <1>1, <1>2
<1>4. /\ LFS!After(b, i) = 5 + (x % N)
      /\ LFS!After(b, i + 1) = 5 + ((x + 1) % N)
      /\ LFS!After(b, 0) = 5 + ((b - 5 + 0) % N)
  BY <1>3 DEF LFS!After, LFS!FirstBlock, LFS!NumUser, N, FirstBlock
<1> HIDE DEF x
<1>5. /\ x % N \in 0..(N - 1)
      /\ (x + 1) % N = IF (x % N) + 1 < N THEN (x % N) + 1 ELSE 0
  BY <1>1, <1>3, NextRemainder
<1>6. (b - 5 + 0) % N = b - 5 + 0 BY <1>1, <1>3, NextRemainder
<1>7. LFS!After(b, i) \in UserBlocks
  BY <1>1, <1>4, <1>5 DEF UserBlocks
<1>8. LFS!After(b, 0) = b BY <1>2, <1>4, <1>6
<1>9. LFS!After(b, i + 1) = IF LFS!After(b, i) + 1 < TotalPhysBlocks
                            THEN LFS!After(b, i) + 1 ELSE FirstBlock
  <2>1. PICK y \in 0..(N - 1) : y = x % N BY <1>5
  <2>2. CASE y + 1 < N BY <1>1, <1>4, <1>5, <2>1, <2>2
  <2>3. CASE ~ (y + 1 < N) BY <1>1, <1>4, <1>5, <2>1, <2>3
  <2> QED BY <2>2, <2>3
<1> QED BY <1>7, <1>8, <1>9

\* Once around: first up to the last block, then from the first user block.
LEMMA AroundFact ==
    ASSUME NEW b \in UserBlocks, NEW x \in UserBlocks
    PROVE  /\ x >= b => LFS!After(b, x - b) = x
           /\ x < b => LFS!After(b, (x - FirstBlock) + (TotalPhysBlocks - b)) = x
<1>1. FirstBlock = 5 /\ TotalPhysBlocks \in Nat /\ N \in Nat \ {0}
      /\ N = TotalPhysBlocks - 5
  BY SizeFact
<1>2. b \in 5..(TotalPhysBlocks - 1) /\ x \in 5..(TotalPhysBlocks - 1)
  BY <1>1 DEF UserBlocks
<1> DEFINE y == x - 5
<1>3. y \in Nat /\ y < N BY <1>1, <1>2
<1>4. y % N = y BY <1>1, <1>3, NextRemainder
<1>5. ASSUME x >= b PROVE LFS!After(b, x - b) = x
  <2>1. b - 5 + (x - b) = y BY <1>2
  <2>2. LFS!After(b, x - b) = 5 + (y % N)
    BY <2>1 DEF LFS!After, LFS!FirstBlock, LFS!NumUser, N, FirstBlock
  <2> QED BY <1>2, <1>4, <2>2
<1>6. ASSUME x < b PROVE LFS!After(b, (x - FirstBlock) + (TotalPhysBlocks - b)) = x
  <2>1. b - 5 + ((x - 5) + (TotalPhysBlocks - b)) = y + N BY <1>1, <1>2
  <2>2. LFS!After(b, (x - FirstBlock) + (TotalPhysBlocks - b)) = 5 + ((y + N) % N)
    BY <1>1, <2>1 DEF LFS!After, LFS!FirstBlock, LFS!NumUser, N
  <2>3. (y + N) % N = y
    <3> HIDE DEF y
    <3>1. PICK n \in Nat \ {0} : n = N BY <1>1
    <3>2. (y + n) % n = y BY <1>3, <3>1
    <3> QED BY <3>1, <3>2
  <2> QED BY <1>2, <2>2, <2>3
<1> QED BY <1>5, <1>6

-----------------------------------------------------------------------------
(* The free blocks in their order *)

\* The abstract module counts with the same operator.
LEMMA SameCardinality == ASSUME NEW S PROVE LFS!Cardinality(S) = Cardinality(S)
BY Zenon DEF LFS!Cardinality, Cardinality

Before(S, o) == {i \in S : i < o}
FreeOff(map, b) == LFS!FreeOffsets(map, b)

LEMMA FreeOffFact ==
    ASSUME NEW map, NEW b
    PROVE  /\ FreeOff(map, b) \subseteq 1..(N - 1)
           /\ IsFiniteSet(FreeOff(map, b))
           /\ Cardinality(FreeOff(map, b)) \in Nat
           /\ \A i \in 1..(N - 1) : i \in FreeOff(map, b) <=> map[LFS!After(b, i)] = 0
<1>1. N - 1 \in Int BY SizeFact
<1>2. FreeOff(map, b) = {i \in 1..(N - 1) : map[LFS!After(b, i)] = 0}
  BY DEF FreeOff, LFS!FreeOffsets, LFS!NumUser, LFS!FirstBlock, N, FirstBlock
<1>3. IsFiniteSet(1..(N - 1)) BY <1>1, FS_Interval
<1>4. FreeOff(map, b) \in SUBSET (1..(N - 1)) BY <1>2
<1>5. IsFiniteSet(FreeOff(map, b)) BY <1>3, <1>4, FS_Subset
<1>6. Cardinality(FreeOff(map, b)) \in Nat BY <1>5, FS_CardinalityType
<1> QED BY <1>2, <1>4, <1>5, <1>6

\* One more number is before the next one exactly if this one is in the set.
LEMMA BeforeFact ==
    ASSUME NEW S, S \subseteq Int, IsFiniteSet(S), NEW o \in Int
    PROVE  /\ Cardinality(Before(S, o)) \in Nat
           /\ o \in S => Cardinality(Before(S, o + 1)) = Cardinality(Before(S, o)) + 1
           /\ o \notin S => Before(S, o + 1) = Before(S, o)
           /\ Cardinality(Before(S, o)) <= Cardinality(S)
           /\ o \in S => Cardinality(Before(S, o)) < Cardinality(S)
           /\ (\A i \in S : i < o) => Before(S, o) = S
<1>1. Before(S, o) \in SUBSET S BY DEF Before
<1>2. IsFiniteSet(Before(S, o)) /\ Cardinality(Before(S, o)) <= Cardinality(S)
  BY <1>1, FS_Subset
<1>3. Cardinality(Before(S, o)) \in Nat BY <1>2, FS_CardinalityType
<1>4. o \notin Before(S, o) BY DEF Before
<1>0. \A x \in S : x \in Int /\ (x < o + 1 <=> x < o \/ x = o) OBVIOUS
<1>5. o \in S => Before(S, o + 1) = Before(S, o) \cup {o} BY <1>0, Zenon DEF Before
<1>6. o \notin S => Before(S, o + 1) = Before(S, o) BY <1>0, Zenon DEF Before
<1>7. Cardinality(Before(S, o) \cup {o}) = Cardinality(Before(S, o)) + 1
  BY <1>2, <1>4, FS_AddElement
<1>8. ASSUME o \in S PROVE Cardinality(Before(S, o)) < Cardinality(S)
  <2>1. Before(S, o) \cup {o} \in SUBSET S BY <1>1, <1>8
  <2>2. Cardinality(Before(S, o) \cup {o}) <= Cardinality(S) BY <2>1, FS_Subset
  <2>3. Cardinality(S) \in Nat BY FS_CardinalityType
  <2> QED BY <2>2, <2>3, <1>3, <1>7
<1>9. (\A i \in S : i < o) => Before(S, o) = S BY DEF Before
<1> QED BY <1>2, <1>3, <1>5, <1>6, <1>7, <1>8, <1>9

\* What comes in a sequence after as many as are before it.
LEMMA KthFact ==
    ASSUME NEW S, S \subseteq Int, IsFiniteSet(S), NEW o \in S
    PROVE  LFS!Kth(S, Cardinality(Before(S, o)) + 1) = o
<1> DEFINE UpTo(i) == {j \in S : j <= i}
           k == Cardinality(Before(S, o)) + 1
           Is(i) == Cardinality(UpTo(i)) = k
<1>1. ASSUME NEW i \in S
      PROVE  UpTo(i) = Before(S, i + 1) /\ Cardinality(UpTo(i)) = Cardinality(Before(S, i)) + 1
  <2>0. \A x \in S : x <= i <=> x < i + 1 OBVIOUS
  <2>1. UpTo(i) = Before(S, i + 1) BY <2>0, Zenon DEF Before
  <2>2. Cardinality(Before(S, i + 1)) = Cardinality(Before(S, i)) + 1 BY BeforeFact
  <2> QED BY <2>1, <2>2
<1>2. Is(o) BY <1>1
<1>3. ASSUME NEW i \in S, NEW j \in S, i < j
      PROVE  Cardinality(UpTo(i)) < Cardinality(UpTo(j))
  <2>0. \A x \in S : x <= i => x < j BY <1>3
  <2>1. UpTo(i) \in SUBSET Before(S, j) BY <2>0, Zenon DEF Before
  <2>2. IsFiniteSet(Before(S, j))
    <3>1. Before(S, j) \in SUBSET S BY DEF Before
    <3> QED BY <3>1, FS_Subset
  <2>3. Cardinality(UpTo(i)) <= Cardinality(Before(S, j)) BY <2>1, <2>2, FS_Subset
  <2>4. Cardinality(Before(S, i)) \in Nat /\ Cardinality(Before(S, j)) \in Nat
    BY BeforeFact
  <2>5. Cardinality(UpTo(j)) = Cardinality(Before(S, j)) + 1 BY <1>1
  <2>6. Cardinality(UpTo(i)) = Cardinality(Before(S, i)) + 1 BY <1>1
  <2> QED BY <2>3, <2>4, <2>5, <2>6
<1>4. ASSUME NEW i \in S, Is(i) PROVE i = o
  <2>1. Cardinality(UpTo(i)) = Cardinality(UpTo(o)) BY <1>2, <1>4
  <2>2. Cardinality(UpTo(o)) \in Nat
    <3>1. Cardinality(Before(S, o)) \in Nat BY BeforeFact
    <3>2. Cardinality(UpTo(o)) = Cardinality(Before(S, o)) + 1 BY <1>1
    <3> QED BY <3>1, <3>2
  <2> HIDE DEF UpTo
  <2>3. ~ (i < o) BY <1>3, <2>1, <2>2
  <2>4. ~ (o < i) BY <1>3, <2>1, <2>2
  <2> QED BY <2>3, <2>4
<1>5. LFS!Kth(S, k) = CHOOSE i \in S : Is(i) BY SameCardinality DEF LFS!Kth
<1> HIDE DEF Is, k
<1>6. LFS!Kth(S, k) = o BY <1>2, <1>4, <1>5
<1> QED BY <1>6 DEF k

\* A function of the first n numbers is a sequence of its values.
LEMMA IsSequence ==
    ASSUME NEW n \in Nat, NEW f, f = [k \in 1..n |-> f[k]]
    PROVE  /\ f \in Seq({f[k] : k \in 1..n})
           /\ Len(f) = n
<1> DEFINE S == {f[k] : k \in 1..n}
<1>1. f \in [1..n -> S]
  <2>1. \A k \in 1..n : f[k] \in S OBVIOUS
  <2> HIDE DEF S
  <2> QED BY <2>1
<1>2. f \in Seq(S) BY <1>1, SeqDef
<1>3. DOMAIN f = 1..n BY <1>1
<1> HIDE DEF S
<1>4. Len(f) \in Nat /\ DOMAIN f = 1..Len(f) BY <1>2, LenProperties
<1>5. Len(f) = n BY <1>3, <1>4
<1> QED BY <1>2, <1>5 DEF S

\* The free blocks a file could have besides its first.
LEMMA OthersFact ==
    ASSUME NEW map, NEW b
    PROVE  /\ Len(LFS!FreeOthers(map, b)) = Cardinality(FreeOff(map, b))
           /\ \E S : LFS!FreeOthers(map, b) \in Seq(S)
           /\ \A o \in FreeOff(map, b) :
                  LFS!FreeOthers(map, b)[Cardinality(Before(FreeOff(map, b), o)) + 1]
                      = LFS!After(b, o)
<1> DEFINE S == FreeOff(map, b)
           n == Cardinality(S)
           f == [k \in 1..n |-> LFS!After(b, LFS!Kth(S, k))]
<1>1. LFS!FreeOthers(map, b) = f BY SameCardinality DEF LFS!FreeOthers, FreeOff
<1>2. S \subseteq Int /\ IsFiniteSet(S) /\ n \in Nat
  BY FreeOffFact, SizeFact
<1>3. f = [k \in 1..n |-> f[k]] OBVIOUS
<1>4. ASSUME NEW o \in S PROVE f[Cardinality(Before(S, o)) + 1] = LFS!After(b, o)
  <2>1. Cardinality(Before(S, o)) \in Nat /\ Cardinality(Before(S, o)) < n
    BY <1>2, BeforeFact
  <2>2. LFS!Kth(S, Cardinality(Before(S, o)) + 1) = o BY <1>2, KthFact
  <2> DEFINE k == Cardinality(Before(S, o)) + 1
  <2>3. k \in 1..n BY <1>2, <2>1
  <2> HIDE DEF k, S, n
  <2>4. f[k] = LFS!After(b, LFS!Kth(S, k)) BY <2>3
  <2> QED BY <2>2, <2>4 DEF k
<1> HIDE DEF f, S, n
<1>5. Len(f) = n /\ f \in Seq({f[k] : k \in 1..n}) BY <1>2, <1>3, IsSequence
<1> QED BY <1>1, <1>4, <1>5 DEF S, n

-----------------------------------------------------------------------------
(* The closed form of a chain *)

\* What LostFileSearch calls the free part: the start block and as many free
\* blocks as the file needs and the card has.
LEMMA PartFact ==
    ASSUME NEW map, NEW b, NEW length \in Nat \ {0}
    PROVE  LET t == LFS!Taken(map, b, length)
               part == LFS!FreePart(map, b, length)
               free == Cardinality(FreeOff(map, b))
           IN  /\ t \in Nat /\ t <= length - 1 /\ t <= free
               /\ t = length - 1 \/ t = free
               /\ Len(part) = t + 1 /\ part[1] = b
               /\ \A k \in 2..(t + 1) : part[k] = LFS!FreeOthers(map, b)[k - 1]
               /\ \E S : part \in Seq(S)
<1> DEFINE t == LFS!Taken(map, b, length)
           part == LFS!FreePart(map, b, length)
           free == Cardinality(FreeOff(map, b))
           others == LFS!FreeOthers(map, b)
           taken == SubSeq(others, 1, t)
<1>1. Len(others) = free /\ free \in Nat BY OthersFact, FreeOffFact
<1>2. t = IF length - 1 <= free THEN length - 1 ELSE free
  BY <1>1 DEF LFS!Taken
<1>3. part = <<b>> \o taken BY DEF LFS!FreePart
<1> HIDE DEF t, part, free
<1>4. t \in Nat /\ t <= length - 1 /\ t <= free /\ (t = length - 1 \/ t = free)
  BY <1>1, <1>2
<1>5. PICK S : others \in Seq(S) BY OthersFact
<1> DEFINE R == S \cup {b}
<1>6. others \in Seq(R) BY <1>5, SeqMonotonic
<1>7. <<b>> \in Seq(R) /\ Len(<<b>>) = 1 /\ <<b>>[1] = b
  <2>1. b \in R OBVIOUS
  <2> HIDE DEF R
  <2> QED BY <2>1
<1> HIDE DEF R, others, taken
<1>8. /\ taken \in Seq(R) /\ Len(taken) = t
      /\ \A i \in 1..t : taken[i] = others[i]
  <2>1. \A i \in 1..t : others[i] \in R BY <1>1, <1>4, <1>6, ElementOfSeq
  <2>2. /\ SubSeq(others, 1, t) \in Seq(R)
        /\ Len(SubSeq(others, 1, t)) = IF 1 <= t THEN t - 1 + 1 ELSE 0
        /\ \A i \in 1..(t - 1 + 1) : SubSeq(others, 1, t)[i] = others[1 + i - 1]
    <3>1. 1 \in Int /\ t \in Int BY <1>4
    <3> QED BY <2>1, <3>1, SubSeqProperties
  <2>3. Len(taken) = t BY <1>4, <2>2 DEF taken
  <2>4. ASSUME NEW i \in 1..t PROVE taken[i] = others[i]
    <3>1. i \in 1..(t - 1 + 1) /\ 1 + i - 1 = i BY <1>4
    <3> QED BY <2>2, <3>1 DEF taken
  <2> QED BY <2>2, <2>3, <2>4 DEF taken
<1>9. /\ part \in Seq(R) /\ Len(part) = 1 + t
      /\ \A i \in 1..(1 + t) : part[i] = IF i <= 1 THEN <<b>>[i] ELSE taken[i - 1]
  BY <1>3, <1>7, <1>8, ConcatProperties
<1>10. Len(part) = t + 1 /\ part[1] = b BY <1>4, <1>7, <1>9
<1>11. ASSUME NEW k \in 2..(t + 1) PROVE part[k] = others[k - 1]
  <2>1. k \in 1..(1 + t) /\ ~ (k <= 1) /\ k - 1 \in 1..t BY <1>4
  <2> QED BY <1>8, <1>9, <2>1
<1>12. \E Q : part \in Seq(Q) BY <1>9
<1> QED BY <1>4, <1>10, <1>11, <1>12 DEF t, part, free, others

\* A list with the start block, the free blocks and then what follows the last
\* of them is the chain.
Matches(g, map, b, length) ==
    LET t == LFS!Taken(map, b, length)
    IN  /\ g \in Seq(UserBlocks) /\ Len(g) = length /\ g[1] = b
        /\ \A k \in 2..(t + 1) : g[k] = LFS!FreeOthers(map, b)[k - 1]
        /\ \A k \in (t + 2)..length : g[k] = LFS!After(g[t + 1], k - (t + 1))

LEMMA ChainFact ==
    ASSUME NEW map, NEW b, NEW length \in Nat \ {0}, NEW g, Matches(g, map, b, length)
    PROVE  /\ g = LFS!Chain(map, b, length)
           /\ LET t == LFS!Taken(map, b, length)
                  part == LFS!FreePart(map, b, length)
                  forced == LFS!ForcedPart(map, b, length)
              IN  /\ DOMAIN part = 1..(t + 1)
                  /\ \A k \in 1..(t + 1) : part[k] = g[k]
                  /\ DOMAIN forced = 1..(length - (t + 1))
                  /\ \A i \in 1..(length - (t + 1)) : forced[i] = LFS!After(g[t + 1], i)
<1> DEFINE t == LFS!Taken(map, b, length)
           part == LFS!FreePart(map, b, length)
           forced == LFS!ForcedPart(map, b, length)
           c == LFS!Chain(map, b, length)
           m == length - (t + 1)
<1>1. /\ t \in Nat /\ t <= length - 1
      /\ Len(part) = t + 1 /\ part[1] = b
      /\ \A k \in 2..(t + 1) : part[k] = LFS!FreeOthers(map, b)[k - 1]
      /\ \E S : part \in Seq(S)
  BY PartFact
<1>2. /\ g \in Seq(UserBlocks) /\ Len(g) = length /\ g[1] = b
      /\ \A k \in 2..(t + 1) : g[k] = LFS!FreeOthers(map, b)[k - 1]
      /\ \A k \in (t + 2)..length : g[k] = LFS!After(g[t + 1], k - (t + 1))
  BY DEF Matches
<1>3. forced = [i \in 1..(length - Len(part)) |-> LFS!After(part[Len(part)], i)]
  BY DEF LFS!ForcedPart
<1>4. c = part \o forced BY DEF LFS!Chain
<1> HIDE DEF t, part, forced, c
<1>5. \A k \in 1..(t + 1) : part[k] = g[k]
  <2>1. ASSUME NEW k \in 1..(t + 1) PROVE part[k] = g[k]
    <3>1. CASE k = 1 BY <1>1, <1>2, <3>1
    <3>2. CASE k # 1
      <4>1. k \in 2..(t + 1) BY <1>1, <3>2
      <4> QED BY <1>1, <1>2, <4>1
    <3> QED BY <3>1, <3>2
  <2> QED BY <2>1
<1>6. part[t + 1] = g[t + 1]
  <2>1. t + 1 \in 1..(t + 1) BY <1>1
  <2> QED BY <1>5, <2>1
<1>7. m \in Nat BY <1>1
<1>8. forced = [i \in 1..m |-> LFS!After(g[t + 1], i)] BY <1>1, <1>3, <1>6
<1> HIDE DEF m
<1>9. DOMAIN forced = 1..m /\ \A i \in 1..m : forced[i] = LFS!After(g[t + 1], i)
  BY <1>8
<1>10. forced = [i \in 1..m |-> forced[i]] BY <1>8
<1>11. Len(forced) = m /\ \E S : forced \in Seq(S) BY <1>7, <1>10, IsSequence
<1>12. PICK S : part \in Seq(S) BY <1>1
<1>13. PICK R : forced \in Seq(R) BY <1>11
<1> DEFINE Q == S \cup R \cup UserBlocks
<1>14. part \in Seq(Q) /\ forced \in Seq(Q) /\ g \in Seq(Q)
  <2>1. S \subseteq Q /\ R \subseteq Q /\ UserBlocks \subseteq Q OBVIOUS
  <2> HIDE DEF Q
  <2> QED BY <1>2, <1>12, <1>13, <2>1, SeqMonotonic
<1> HIDE DEF Q
<1>15. /\ c \in Seq(Q) /\ Len(c) = (t + 1) + m
       /\ \A i \in 1..((t + 1) + m) :
              c[i] = IF i <= t + 1 THEN part[i] ELSE forced[i - (t + 1)]
  <2>1. /\ part \o forced \in Seq(Q)
        /\ Len(part \o forced) = Len(part) + Len(forced)
        /\ \A i \in 1..(Len(part) + Len(forced)) :
               (part \o forced)[i] = IF i <= Len(part) THEN part[i]
                                     ELSE forced[i - Len(part)]
    BY <1>14, ConcatProperties
  <2>2. Len(part) = t + 1 /\ Len(forced) = m BY <1>1, <1>11
  <2> QED BY <1>4, <2>1, <2>2
<1>16. (t + 1) + m = length BY <1>1 DEF m
<1>17. ASSUME NEW i \in 1..length PROVE g[i] = c[i]
  <2>1. CASE i <= t + 1
    <3>1. i \in 1..(t + 1) BY <1>1, <2>1
    <3>2. c[i] = part[i] BY <1>15, <1>16, <2>1
    <3> QED BY <1>5, <3>1, <3>2
  <2>2. CASE ~ (i <= t + 1)
    <3>1. i \in (t + 2)..length /\ i - (t + 1) \in 1..m BY <1>1, <1>7, <1>16, <2>2
    <3>2. c[i] = forced[i - (t + 1)] BY <1>15, <1>16, <2>2
    <3>3. forced[i - (t + 1)] = LFS!After(g[t + 1], i - (t + 1)) BY <1>9, <3>1
    <3> QED BY <1>2, <3>1, <3>2, <3>3
  <2> QED BY <2>1, <2>2
<1>18. g = c
  <2>1. Len(g) = Len(c) BY <1>2, <1>15, <1>16
  <2>2. \A i \in 1..Len(g) : g[i] = c[i] BY <1>2, <1>17
  <2> QED BY <1>14, <1>15, <2>1, <2>2, SeqEqual
<1>19. DOMAIN part = 1..(t + 1)
  BY <1>1, <1>14, LenProperties
<1> QED BY <1>5, <1>9, <1>18, <1>19 DEF t, part, forced, c, m

-----------------------------------------------------------------------------
(* The use counts *)

Capped(n) == IF n < UsedMax THEN n ELSE UsedMax

\* What a file adds to the count of x by the first n blocks of its chain, when
\* it starts at b, and by m more behind the last of these.
ClaimCount(g, n, b, x) == IF \E i \in 1..n : g[i] = x /\ x >= b THEN 1 ELSE 0
ForcedCount(last, m, x) == Cardinality({i \in 1..m : LFS!After(last, i) = x})

\* What a chain marks, in the terms of the two loops.
LEMMA MarkedFact ==
    ASSUME NEW map \in [PhysBlocks -> 0..UsedMax], NEW b,
           NEW length \in Nat \ {0}, NEW g, Matches(g, map, b, length)
    PROVE  LET t == LFS!Taken(map, b, length)
           IN  LFS!Marked(map, b, length) =
                   [x \in PhysBlocks |->
                       Capped(map[x] + ClaimCount(g, t + 1, b, x)
                                + ForcedCount(g[t + 1], length - (t + 1), x))]
<1> DEFINE t == LFS!Taken(map, b, length)
           part == LFS!FreePart(map, b, length)
           forced == LFS!ForcedPart(map, b, length)
           m == length - (t + 1)
           marks(x) == IF \E i \in DOMAIN part : part[i] = x /\ x >= b THEN 1 ELSE 0
           hits(x) == Cardinality({i \in DOMAIN forced : forced[i] = x})
<1>1. /\ DOMAIN part = 1..(t + 1)
      /\ \A k \in 1..(t + 1) : part[k] = g[k]
      /\ DOMAIN forced = 1..m
      /\ \A i \in 1..m : forced[i] = LFS!After(g[t + 1], i)
  BY ChainFact
<1>2. LFS!Marked(map, b, length)
          = [x \in DOMAIN map |-> Capped(map[x] + marks(x) + hits(x))]
  BY SameCardinality, Zenon DEF LFS!Marked, Capped
<1>3. DOMAIN map = PhysBlocks OBVIOUS
<1> HIDE DEF t, part, forced, m
<1>4. ASSUME NEW x \in PhysBlocks
      PROVE  marks(x) = ClaimCount(g, t + 1, b, x) /\ hits(x) = ForcedCount(g[t + 1], m, x)
  <2>1. marks(x) = ClaimCount(g, t + 1, b, x) BY <1>1, Zenon DEF ClaimCount
  <2>2. {i \in DOMAIN forced : forced[i] = x} = {i \in 1..m : LFS!After(g[t + 1], i) = x}
    BY <1>1, Zenon
  <2>3. hits(x) = ForcedCount(g[t + 1], m, x) BY <2>2, Zenon DEF ForcedCount
  <2> QED BY <2>1, <2>3
<1> HIDE DEF marks, hits
<1>5. LFS!Marked(map, b, length)
        = [x \in PhysBlocks |-> Capped(map[x] + ClaimCount(g, t + 1, b, x)
                                        + ForcedCount(g[t + 1], m, x))]
  BY <1>2, <1>3, <1>4, Zenon
<1> QED BY <1>5 DEF t, m

LEMMA CappedFact ==
    ASSUME NEW n \in Nat
    PROVE  /\ Capped(n) \in 0..UsedMax
           /\ n <= UsedMax => Capped(n) = n
           /\ Capped(Capped(n) + 1) = Capped(n + 1)
BY UsedMaxAssumption DEF Capped

\* A count goes up by one at the counted block.
LEMMA BumpedFact ==
    ASSUME NEW map \in [PhysBlocks -> 0..UsedMax], NEW b \in PhysBlocks, NEW x \in PhysBlocks
    PROVE  Bump(map, b)[x] = IF x = b THEN Capped(map[x] + 1) ELSE map[x]
<1>1. map[b] \in 0..UsedMax /\ map[x] \in 0..UsedMax OBVIOUS
<1>2. CASE map[b] < UsedMax
  <2>1. Bump(map, b)[x] = IF x = b THEN map[b] + 1 ELSE map[x] BY <1>2 DEF Bump
  <2>2. map[b] + 1 = Capped(map[b] + 1) BY <1>1, <1>2, UsedMaxAssumption DEF Capped
  <2> QED BY <2>1, <2>2
<1>3. CASE ~ (map[b] < UsedMax)
  <2>1. Bump(map, b)[x] = map[x] BY <1>3 DEF Bump
  <2>2. map[b] = Capped(map[b] + 1) BY <1>1, <1>3, UsedMaxAssumption DEF Capped
  <2> QED BY <2>1, <2>2
<1> QED BY <1>2, <1>3

LEMMA ForcedCountFact ==
    ASSUME NEW last, NEW m \in Nat, NEW x
    PROVE  /\ ForcedCount(last, m, x) \in Nat
           /\ ForcedCount(last, 0, x) = 0
           /\ ForcedCount(last, m + 1, x)
                = ForcedCount(last, m, x) + IF LFS!After(last, m + 1) = x THEN 1 ELSE 0
<1> DEFINE Those(k) == {i \in 1..k : LFS!After(last, i) = x}
<1>1. ASSUME NEW k \in Nat
      PROVE  IsFiniteSet(Those(k)) /\ Cardinality(Those(k)) \in Nat
  <2>1. IsFiniteSet(1..k) BY FS_Interval
  <2>2. Those(k) \in SUBSET (1..k) OBVIOUS
  <2>3. IsFiniteSet(Those(k)) BY <2>1, <2>2, FS_Subset
  <2> QED BY <2>3, FS_CardinalityType
<1>2. Those(0) = {} OBVIOUS
<1>3. Cardinality(Those(0)) = 0 BY <1>2, FS_EmptySet
<1>4. m + 1 \notin Those(m) OBVIOUS
<1>5. CASE LFS!After(last, m + 1) = x
  <2>0. 1..(m + 1) = 1..m \cup {m + 1} OBVIOUS
  <2>1. Those(m + 1) = Those(m) \cup {m + 1} BY <1>5, <2>0, Zenon
  <2>2. Cardinality(Those(m) \cup {m + 1}) = Cardinality(Those(m)) + 1
    BY <1>1, <1>4, FS_AddElement
  <2>3. Cardinality(Those(m + 1)) = Cardinality(Those(m)) + 1 BY <2>1, <2>2, Zenon
  <2> QED BY <1>1, <1>3, <1>5, <2>3 DEF ForcedCount
<1>6. CASE LFS!After(last, m + 1) # x
  <2>0. 1..(m + 1) = 1..m \cup {m + 1} OBVIOUS
  <2>1. Those(m + 1) = Those(m) BY <1>6, <2>0, Zenon
  <2>2. Cardinality(Those(m + 1)) = Cardinality(Those(m)) BY <2>1, Zenon
  <2>3. Cardinality(Those(m)) = Cardinality(Those(m)) + 0
    <3>1. PICK n \in Nat : n = Cardinality(Those(m)) BY <1>1
    <3>2. n = n + 0 OBVIOUS
    <3> QED BY <3>1, <3>2, Zenon
  <2> QED BY <1>1, <1>3, <1>6, <2>2, <2>3 DEF ForcedCount
<1> QED BY <1>5, <1>6

-----------------------------------------------------------------------------
(* What the loops keep while they rebuild a chain *)

start == searchData.block
Free == FreeOff(mapAtHit, start)

\* How far the first loop has come from the start block.
Offset ==
    IF wasWrapped THEN (block - FirstBlock) + (TotalPhysBlocks - start)
    ELSE block - start

\* The block a loop looks at next.
Upcoming == IF block = TotalPhysBlocks THEN FirstBlock ELSE block

\* The entry of the databases the file was made from.
FromOffer ==
    \E i \in DOMAIN claims[1].offered :
        /\ LFS!Acceptable(claims[1].offered, preferredRegion, i)
        /\ searchData.length = LFS!LengthOf(claims[1].offered[i])
        /\ searchData.region = claims[1].offered[i].region

Counted ==
    \A x \in PhysBlocks :
        usedBlockMap[x] =
            Capped(mapAtHit[x] + ClaimCount(fat, skipLen, start, x)
                    + ForcedCount(fat[skipLen], Len(fat) - skipLen, x))

\* The chain so far is a part of the closed form, and the use counts are those
\* of the map at the hit and of this part.
RebuildInv ==
    Rebuilding =>
        /\ mapAtHit \in [PhysBlocks -> 0..UsedMax]
        /\ \A k \in 2..skipLen : fat[k] = LFS!FreeOthers(mapAtHit, start)[k - 1]
        /\ skipLen <= Cardinality(Free) + 1
        /\ Counted /\ FromOffer
FreeInv ==
    pc = "skip" => skipLen = Cardinality(Before(Free, Offset)) + 1
ForcedInv ==
    pc = "naive" =>
        /\ ~ wasWrapped
        /\ skipLen = searchData.length \/ skipLen = Cardinality(Free) + 1
        /\ Upcoming = LFS!After(fat[skipLen], Len(fat) - skipLen + 1)
        /\ \A k \in (skipLen + 1)..Len(fat) :
               fat[k] = LFS!After(fat[skipLen], k - skipLen)

RefInv == RebuildInv /\ FreeInv /\ ForcedInv

LEMMA RebuildingFact ==
    ASSUME IndInv, Rebuilding
    PROVE  /\ start \in UserBlocks /\ fat \in Seq(UserBlocks)
           /\ fat[1] = start
           /\ skipLen \in 1..Len(fat) /\ Len(fat) \in Nat
           /\ \A i \in 1..Len(fat) : fat[i] \in UserBlocks
           /\ block \in FirstBlock..TotalPhysBlocks
           /\ usedBlockMap \in [PhysBlocks -> 0..UsedMax]
           /\ searchData.length \in Nat \ {0} /\ blocksRemaining \in Nat
           /\ Len(fat) + blocksRemaining = searchData.length
           /\ pc = "skip" => skipLen = Len(fat)
           /\ searchData \in FileRecords
           /\ claims \in Seq(ClaimRecords) /\ claims # << >>
           /\ 1 \in DOMAIN claims /\ claims[1].offered \in HitLists
<1>1. searchData \in FileRecords /\ HitInv /\ TypeOK BY DEF IndInv, HitInv
<1>2. start \in UserBlocks /\ fat \in Seq(UserBlocks) /\ searchData.length \in 1..U16Max
  BY <1>1 DEF FileRecords, start, fat
<1>3. Len(fat) \in Nat /\ \A i \in 1..Len(fat) : fat[i] \in UserBlocks
  <2> HIDE DEF UserBlocks
  <2> QED BY <1>2
<1>4. searchData.length \in Nat \ {0} /\ blocksRemaining \in Nat
  BY <1>1, <1>2, U16Fact DEF TypeOK
<1>5. claims \in Seq(ClaimRecords) /\ claims # << >>
  BY <1>1 DEF HitInv, TypeOK
<1>6. 1 \in DOMAIN claims /\ claims[1] \in ClaimRecords BY <1>5, FirstFact
<1>7. claims[1].offered \in HitLists BY <1>6 DEF ClaimRecords
<1> QED BY <1>1, <1>2, <1>3, <1>4, <1>5, <1>6, <1>7 DEF HitInv, TypeOK, start

\* The entry that is picked is one the region preference allows.
LEMMA OfferFact ==
    ASSUME NEW hits \in HitLists
    PROVE  \E i \in DOMAIN hits :
               /\ LFS!Acceptable(hits, preferredRegion, i)
               /\ FileLength(PickEntry(hits)) = LFS!LengthOf(hits[i])
               /\ PickEntry(hits).region = hits[i].region
<1> DEFINE matching == {i \in DOMAIN hits : hits[i].region = preferredRegion}
<1>1. /\ hits \in Seq([length : 0..U16Max, region : Regions])
      /\ hits # << >> /\ Len(hits) \in Nat /\ DOMAIN hits = 1..Len(hits)
      /\ \A j \in DOMAIN hits : hits[j].region \in Regions
  <2> DEFINE Entries == [length : 0..U16Max, region : Regions]
  <2>1. hits \in Seq(Entries) /\ hits # << >> BY HitListsAssumption
  <2>2. \A e \in Entries : e.region \in Regions OBVIOUS
  <2> HIDE DEF Entries
  <2>3. Len(hits) \in Nat /\ DOMAIN hits = 1..Len(hits) BY <2>1, LenProperties
  <2>4. \A j \in DOMAIN hits : hits[j] \in Entries BY <2>1, <2>3, ElementOfSeq
  <2> QED BY <2>1, <2>2, <2>3, <2>4 DEF Entries
<1>2. 1 \in DOMAIN hits BY <1>1, FirstFact
<1>3. CASE Len(hits) = 1 \/ preferredRegion = 0 \/ matching = {}
  <2>1. PickEntry(hits) = hits[1] BY <1>3 DEF PickEntry
  <2>2. \/ hits[1].region = preferredRegion
        \/ \A j \in DOMAIN hits : hits[j].region # preferredRegion
    <3>1. CASE Len(hits) = 1
      <4>1. \A j \in DOMAIN hits : j = 1 BY <1>1, <3>1
      <4> QED BY <4>1
    <3>2. CASE preferredRegion = 0
      <4>1. 0 \notin Regions BY RegionsAssumption
      <4> QED BY <1>1, <3>2, <4>1
    <3>3. CASE matching = {} BY <3>3
    <3> QED BY <1>3, <3>1, <3>2, <3>3
  <2>3. 1..(1 - 1) = {} OBVIOUS
  <2>4. LFS!Acceptable(hits, preferredRegion, 1) BY <2>2, <2>3, Zenon DEF LFS!Acceptable
  <2>5. FileLength(hits[1]) = LFS!LengthOf(hits[1]) BY Zenon DEF FileLength, LFS!LengthOf
  <2> QED BY <1>2, <2>1, <2>4, <2>5, Zenon
<1>4. CASE ~ (Len(hits) = 1 \/ preferredRegion = 0 \/ matching = {})
  <2>1. matching \in SUBSET Nat /\ matching # {} BY <1>1, <1>4
  <2> DEFINE first == CHOOSE i \in matching : \A j \in matching : i <= j
  <2>2. first \in matching /\ \A j \in matching : first <= j
    <3> HIDE DEF matching
    <3>1. \E i \in matching : \A j \in matching : i <= j BY <2>1, LeastFact
    <3> QED BY <3>1
  <2>3. PickEntry(hits) = hits[first] BY <1>4 DEF PickEntry
  <2> HIDE DEF first
  <2>4. first \in DOMAIN hits /\ hits[first].region = preferredRegion BY <2>2
  <2>5. ASSUME NEW j \in 1..(first - 1) PROVE hits[j].region # preferredRegion
    <3>1. j \in DOMAIN hits /\ ~ (first <= j) BY <1>1, <2>4
    <3> QED BY <2>2, <3>1
  <2>6. LFS!Acceptable(hits, preferredRegion, first)
    BY <2>4, <2>5, Zenon DEF LFS!Acceptable
  <2>7. FileLength(hits[first]) = LFS!LengthOf(hits[first])
    BY Zenon DEF FileLength, LFS!LengthOf
  <2> QED BY <2>3, <2>4, <2>6, <2>7, Zenon
<1> QED BY <1>3, <1>4

\* A chain of one block.
LEMMA RefHit == ASSUME IndInv, NEW hits \in HitLists, Hit(hits) PROVE RefInv'
<1> DEFINE b == blockSearchList[currentSearchBlock]
           entry == PickEntry(hits)
           claim == [start |-> b, blocks |-> {b}, offered |-> hits]
<1>1. /\ pc' = "skip" /\ block' = U16(b + 1) /\ wasWrapped' = FALSE
      /\ searchData' = [block |-> b, length |-> FileLength(entry),
                        region |-> entry.region, fatEntries |-> <<b>>]
      /\ usedBlockMap' = Bump(usedBlockMap, b)
      /\ mapAtHit' = usedBlockMap /\ skipLen' = 1
      /\ claims' = <<claim>> \o claims
      /\ preferredRegion' = preferredRegion
  BY DEF Hit, settings
<1>2. b \in UserBlocks
  <2>1. blockSearchList \in Seq(UserBlocks) /\ currentSearchBlock \in Nat \ {0}
    BY DEF TypeOK, IndInv
  <2>2. currentSearchBlock <= Len(blockSearchList)
    BY DEF Hit, Scanning
  <2> HIDE DEF UserBlocks
  <2> QED BY <2>1, <2>2
<1>3. usedBlockMap \in [PhysBlocks -> 0..UsedMax] BY DEF TypeOK, IndInv
<1>4. claims'[1] = claim
  <2>1. claim \in ClaimRecords /\ claims \in Seq(ClaimRecords)
    BY <1>2 DEF ClaimRecords, IndInv, TypeOK
  <2> HIDE DEF claim
  <2> QED BY <1>1, <2>1, FrontFact
<1>5. claim.offered = hits OBVIOUS
<1> HIDE DEF b, entry, claim
<1>6. /\ start' = b /\ fat' = <<b>>
      /\ searchData'.length = FileLength(entry) /\ searchData'.region = entry.region
  BY <1>1 DEF start, fat
<1>7. /\ b \in PhysBlocks /\ U16(b + 1) = b + 1 /\ b \in Nat
  BY <1>2, BlocksAssumption, U16Fact DEF UserBlocks, PhysBlocks, FirstBlock
<1>8. Free' = FreeOff(usedBlockMap, b) BY <1>1, <1>6 DEF Free
<1>9. Counted'
  <2>1. ASSUME NEW x \in PhysBlocks
        PROVE  usedBlockMap'[x] = Capped(usedBlockMap[x] + ClaimCount(<<b>>, 1, b, x)
                                            + ForcedCount(<<b>>[1], Len(<<b>>) - 1, x))
    <3>1. usedBlockMap'[x] = IF x = b THEN Capped(usedBlockMap[x] + 1) ELSE usedBlockMap[x]
      BY <1>1, <1>3, <1>7, BumpedFact
    <3>2. ClaimCount(<<b>>, 1, b, x) = IF x = b THEN 1 ELSE 0
      BY <1>7 DEF ClaimCount
    <3>3. Len(<<b>>) - 1 = 0 /\ <<b>>[1] = b OBVIOUS
    <3>4. ForcedCount(b, 0, x) = 0 BY ForcedCountFact
    <3>5. usedBlockMap[x] \in 0..UsedMax BY <1>3
    <3>6. Capped(usedBlockMap[x]) = usedBlockMap[x] BY <3>5, UsedMaxAssumption, CappedFact
    <3>7. usedBlockMap[x] + 0 + 0 = usedBlockMap[x] /\ usedBlockMap[x] + 1 + 0 = usedBlockMap[x] + 1
      BY <3>5
    <3>8. CASE x = b BY <3>1, <3>2, <3>3, <3>4, <3>7, <3>8
    <3>9. CASE x # b BY <3>1, <3>2, <3>3, <3>4, <3>6, <3>7, <3>9
    <3> QED BY <3>8, <3>9
  <2> QED BY <1>1, <1>6, <2>1 DEF Counted
<1>10. FromOffer'
  <2>1. claims'[1].offered = hits BY <1>4, <1>5
  <2>2. PICK i \in DOMAIN hits :
               /\ LFS!Acceptable(hits, preferredRegion, i)
               /\ FileLength(entry) = LFS!LengthOf(hits[i])
               /\ entry.region = hits[i].region
    BY OfferFact DEF entry
  <2> QED BY <1>1, <1>6, <2>1, <2>2 DEF FromOffer
<1>11. RebuildInv'
  <2>1. Cardinality(FreeOff(usedBlockMap, b)) \in Nat BY FreeOffFact
  <2>2. 1 <= Cardinality(Free') + 1 BY <1>8, <2>1
  <2>3. \A k \in 2..skipLen' : FALSE BY <1>1
  <2> QED BY <1>1, <1>3, <1>9, <1>10, <2>2, <2>3 DEF RebuildInv
<1>12. FreeInv'
  <2>1. Offset' = 1 BY <1>1, <1>6, <1>7 DEF Offset
  <2>2. FreeOff(usedBlockMap, b) \subseteq 1..(N - 1) BY FreeOffFact
  <2>3. N - 1 \in Int BY SizeFact
  <2>4. Before(FreeOff(usedBlockMap, b), 1) = {} BY <2>2, <2>3 DEF Before
  <2>5. Cardinality(Before(Free', Offset')) = 0 BY <1>8, <2>1, <2>4, FS_EmptySet
  <2>6. skipLen' = 0 + 1 BY <1>1
  <2> QED BY <2>5, <2>6 DEF FreeInv
<1>13. ForcedInv' BY <1>1 DEF ForcedInv
<1> QED BY <1>11, <1>12, <1>13 DEF RefInv

\* The way around the card goes on where it was.
LEMMA RefSkipWrap == ASSUME IndInv, RefInv, SkipWrap PROVE RefInv'
<1>1. /\ pc = "skip" /\ pc' = "skip" /\ block >= TotalPhysBlocks
      /\ block' = FirstBlock /\ wasWrapped' = TRUE
      /\ UNCHANGED <<searchData, usedBlockMap, mapAtHit, skipLen, claims, preferredRegion>>
  BY DEF SkipWrap, WrapTo, settings, history
<1>2. Rebuilding BY <1>1 DEF Rebuilding
<1>3. /\ start \in UserBlocks /\ block \in FirstBlock..TotalPhysBlocks
  BY <1>2, RebuildingFact
<1>4. FirstBlock = 5 /\ TotalPhysBlocks \in Nat /\ block = TotalPhysBlocks
      /\ start \in 5..(TotalPhysBlocks - 1)
  BY <1>1, <1>3, SizeFact DEF UserBlocks
<1>5. ~ wasWrapped BY <1>1, <1>4 DEF IndInv, SkipInv, start
<1>6. start' = start /\ fat' = fat BY <1>1 DEF start, fat
<1>7. Free' = Free BY <1>1, <1>6 DEF Free
<1>8. Offset' = Offset BY <1>1, <1>4, <1>5, <1>6 DEF Offset
<1>9. RebuildInv'
  <2>1. RebuildInv BY DEF RefInv
  <2>2. Counted' <=> Counted BY <1>1, <1>6 DEF Counted
  <2>3. FromOffer' <=> FromOffer BY <1>1 DEF FromOffer
  <2> QED BY <1>1, <1>2, <1>6, <1>7, <2>1, <2>2, <2>3 DEF RebuildInv
<1>10. FreeInv' BY <1>1, <1>7, <1>8 DEF RefInv, FreeInv
<1>11. ForcedInv' BY <1>1 DEF ForcedInv
<1> QED BY <1>9, <1>10, <1>11 DEF RefInv

\* The block is the next one on the way around, and free if and only if it was
\* at the hit: what the file has marked since is behind.
LEMMA VisitFact ==
    ASSUME IndInv, RefInv, SkipVisit
    PROVE  /\ block \in UserBlocks /\ block # start
           /\ Offset \in 1..(N - 1) /\ LFS!After(start, Offset) = block
           /\ \A i \in 1..skipLen : fat[i] # block
           /\ usedBlockMap[block] = mapAtHit[block]
           /\ Offset \in Free <=> usedBlockMap[block] = 0
           /\ wasWrapped => block < start
           /\ ~ wasWrapped => block > start
<1>1. pc = "skip" /\ block < TotalPhysBlocks /\ block # start
  BY DEF SkipVisit, AtStart, start
<1>2. Rebuilding BY <1>1 DEF Rebuilding
<1>3. /\ start \in UserBlocks /\ block \in FirstBlock..TotalPhysBlocks
      /\ skipLen = Len(fat) /\ Len(fat) \in Nat /\ skipLen \in 1..Len(fat)
      /\ fat \in Seq(UserBlocks)
      /\ \A i \in 1..Len(fat) : fat[i] \in UserBlocks
  BY <1>1, <1>2, RebuildingFact
<1>4. FirstBlock = 5 /\ TotalPhysBlocks \in Nat /\ N = TotalPhysBlocks - 5
      /\ start \in 5..(TotalPhysBlocks - 1) /\ block \in 5..(TotalPhysBlocks - 1)
  BY <1>1, <1>3, SizeFact DEF UserBlocks
<1>5. block \in UserBlocks BY <1>4 DEF UserBlocks
<1>6. IF wasWrapped THEN block < start ELSE block > start
  BY <1>1, <1>4 DEF IndInv, SkipInv, start
<1>7. Offset \in 1..(N - 1) BY <1>4, <1>6 DEF Offset
<1>8. LFS!After(start, Offset) = block
  <2>1. CASE wasWrapped
    <3>1. LFS!After(start, (block - FirstBlock) + (TotalPhysBlocks - start)) = block
      BY <1>3, <1>5, <1>6, <2>1, AroundFact
    <3> QED BY <2>1, <3>1 DEF Offset
  <2>2. CASE ~ wasWrapped
    <3>1. block >= start BY <1>4, <1>6, <2>2
    <3>2. LFS!After(start, block - start) = block BY <1>3, <1>5, <3>1, AroundFact
    <3> QED BY <2>2, <3>2 DEF Offset
  <2> QED BY <2>1, <2>2
<1>9. ASSUME NEW i \in 1..skipLen PROVE fat[i] # block
  <2>1. i \in DOMAIN fat BY <1>3
  <2>2. Visited(fat[i]) BY <1>1, <2>1 DEF IndInv, SkipInv
  <2> QED BY <1>4, <1>6, <2>2 DEF Visited, start
<1>10. usedBlockMap[block] = mapAtHit[block] /\ mapAtHit[block] \in 0..UsedMax
  <2>1. mapAtHit \in [PhysBlocks -> 0..UsedMax] /\ Counted
    BY <1>2 DEF RefInv, RebuildInv
  <2>2. block \in PhysBlocks BY <1>4 DEF PhysBlocks
  <2>3. ClaimCount(fat, skipLen, start, block) = 0 BY <1>9 DEF ClaimCount
  <2>4. Len(fat) - skipLen = 0 BY <1>3
  <2>5. ForcedCount(fat[skipLen], 0, block) = 0 BY ForcedCountFact
  <2>6. mapAtHit[block] \in 0..UsedMax BY <2>1, <2>2
  <2>7. usedBlockMap[block] = Capped(mapAtHit[block] + 0 + 0)
    BY <2>1, <2>2, <2>3, <2>4, <2>5 DEF Counted
  <2>8. mapAtHit[block] + 0 + 0 = mapAtHit[block] BY <2>6
  <2>9. Capped(mapAtHit[block]) = mapAtHit[block] BY <2>6, UsedMaxAssumption, CappedFact
  <2> QED BY <2>6, <2>7, <2>8, <2>9
<1>11. Offset \in Free <=> usedBlockMap[block] = 0
  BY <1>7, <1>8, <1>10, FreeOffFact DEF Free
<1> QED BY <1>1, <1>5, <1>6, <1>7, <1>8, <1>9, <1>10, <1>11

LEMMA RefSkipVisit == ASSUME IndInv, RefInv, SkipVisit PROVE RefInv'
<1>1. pc = "skip" /\ pc' = "skip" /\ block' = U16(block + 1) /\ wasWrapped' = wasWrapped
      /\ mapAtHit' = mapAtHit /\ preferredRegion' = preferredRegion
  BY DEF SkipVisit, settings
<1>2. Rebuilding BY <1>1 DEF Rebuilding
<1>3. /\ start \in UserBlocks /\ fat \in Seq(UserBlocks)
      /\ skipLen = Len(fat) /\ Len(fat) \in Nat /\ skipLen \in 1..Len(fat)
      /\ \A i \in 1..Len(fat) : fat[i] \in UserBlocks
      /\ usedBlockMap \in [PhysBlocks -> 0..UsedMax]
      /\ searchData \in FileRecords
      /\ claims \in Seq(ClaimRecords) /\ claims # << >>
  BY <1>1, <1>2, RebuildingFact
<1>4. /\ block \in UserBlocks /\ block # start
      /\ Offset \in 1..(N - 1) /\ LFS!After(start, Offset) = block
      /\ \A i \in 1..skipLen : fat[i] # block
      /\ usedBlockMap[block] = mapAtHit[block]
      /\ Offset \in Free <=> usedBlockMap[block] = 0
      /\ wasWrapped => block < start
      /\ ~ wasWrapped => block > start
  BY VisitFact
<1>5. FirstBlock = 5 /\ TotalPhysBlocks \in Nat /\ N = TotalPhysBlocks - 5
      /\ TotalPhysBlocks <= U16Max
      /\ start \in 5..(TotalPhysBlocks - 1) /\ block \in 5..(TotalPhysBlocks - 1)
      /\ block \in PhysBlocks
  <2>1. FirstBlock = 5 /\ TotalPhysBlocks \in Nat /\ N = TotalPhysBlocks - 5
        /\ TotalPhysBlocks <= U16Max
    BY SizeFact
  <2>2. start \in UserBlocks /\ block \in UserBlocks BY <1>3, <1>4
  <2> QED BY <2>1, <2>2 DEF UserBlocks, PhysBlocks
<1>6. block' = block + 1 BY <1>1, <1>5, U16Fact
<1>7. /\ mapAtHit \in [PhysBlocks -> 0..UsedMax]
      /\ \A k \in 2..skipLen : fat[k] = LFS!FreeOthers(mapAtHit, start)[k - 1]
      /\ skipLen <= Cardinality(Free) + 1
      /\ Counted /\ FromOffer
      /\ skipLen = Cardinality(Before(Free, Offset)) + 1
  BY <1>1, <1>2 DEF RefInv, RebuildInv, FreeInv
<1>8. /\ Free \subseteq Int /\ IsFiniteSet(Free) /\ Offset \in Int
      /\ Cardinality(Free) \in Nat
  BY <1>4, <1>5, FreeOffFact DEF Free
<1>9. /\ Cardinality(Before(Free, Offset)) \in Nat
      /\ Offset \in Free => Cardinality(Before(Free, Offset + 1)) = Cardinality(Before(Free, Offset)) + 1
      /\ Offset \notin Free => Before(Free, Offset + 1) = Before(Free, Offset)
      /\ Offset \in Free => Cardinality(Before(Free, Offset)) < Cardinality(Free)
  BY <1>8, BeforeFact
<1>10. ForcedInv' BY <1>1 DEF ForcedInv
<1>11. CASE usedBlockMap[block] # 0
  <2>1. UNCHANGED <<usedBlockMap, searchData, skipLen, claims>>
    BY <1>11 DEF SkipVisit
  <2>2. start' = start /\ fat' = fat BY <2>1 DEF start, fat
  <2>3. Free' = Free BY <1>1, <2>2 DEF Free
  <2>4. Offset' = Offset + 1 BY <1>1, <1>5, <1>6, <2>2 DEF Offset
  <2>5. Counted' BY <1>1, <1>7, <2>1, <2>2 DEF Counted
  <2>6. FromOffer' BY <1>1, <1>7, <2>1 DEF FromOffer
  <2>7. RebuildInv' BY <1>1, <1>7, <2>1, <2>2, <2>3, <2>5, <2>6 DEF RebuildInv
  <2>8. FreeInv' BY <1>4, <1>7, <1>9, <1>11, <2>1, <2>3, <2>4 DEF FreeInv
  <2> QED BY <1>10, <2>7, <2>8 DEF RefInv
<1>12. CASE usedBlockMap[block] = 0
  <2>1. searchData' = AppendBlock(searchData, block) /\ skipLen' = skipLen + 1
    BY <1>12 DEF SkipVisit
  <2>2. IF wasWrapped
        THEN usedBlockMap' = usedBlockMap /\ claims' = claims
        ELSE /\ usedBlockMap' = [usedBlockMap EXCEPT ![block] = @ + 1]
             /\ claims' = AddToClaim(claims, block)
    BY <1>12 DEF SkipVisit, MarksBlock
  <2>3. /\ start' = start /\ fat' = Append(fat, block)
        /\ searchData'.length = searchData.length /\ searchData'.region = searchData.region
    BY <1>3, <1>4, <2>1, AppendBlockFact DEF start, fat
  <2>4. /\ Len(fat') = skipLen + 1 /\ fat'[skipLen + 1] = block
        /\ \A i \in 1..skipLen : fat'[i] = fat[i]
    <3> HIDE DEF UserBlocks
    <3> QED BY <1>3, <1>4, <2>3, AppendFact
  <2>5. Free' = Free BY <1>1, <2>3 DEF Free
  <2>6. Offset' = Offset + 1 BY <1>1, <1>5, <1>6, <2>3 DEF Offset
  <2>7. FreeInv' BY <1>4, <1>7, <1>9, <1>12, <2>1, <2>5, <2>6 DEF FreeInv
  <2>8. skipLen' <= Cardinality(Free') + 1
    BY <1>3, <1>4, <1>7, <1>8, <1>9, <1>12, <2>1, <2>5
  <2>9. ASSUME NEW k \in 2..skipLen'
        PROVE  fat'[k] = LFS!FreeOthers(mapAtHit, start)[k - 1]
    <3>1. CASE k = skipLen + 1
      <4>1. LFS!FreeOthers(mapAtHit, start)[Cardinality(Before(Free, Offset)) + 1]
              = LFS!After(start, Offset)
        BY <1>4, <1>12, OthersFact DEF Free
      <4>2. k - 1 = skipLen BY <1>3, <3>1
      <4> QED BY <1>4, <1>7, <2>4, <3>1, <4>1, <4>2
    <3>2. CASE k # skipLen + 1
      <4>1. k \in 2..skipLen /\ k \in 1..skipLen BY <1>3, <2>1, <3>2
      <4> QED BY <1>7, <2>4, <4>1
    <3> QED BY <3>1, <3>2
  <2>10. FromOffer'
    <3>1. AddToClaim(claims, block)[1].offered = claims[1].offered
      BY <1>3, <1>4, AddToClaimFact
    <3>2. claims'[1].offered = claims[1].offered BY <2>2, <3>1
    <3> QED BY <1>1, <1>7, <2>3, <3>2 DEF FromOffer
  <2>11. Counted'
    <3>1. ASSUME NEW x \in PhysBlocks
          PROVE  usedBlockMap'[x] =
                    Capped(mapAtHit[x] + ClaimCount(fat', skipLen + 1, start, x) + 0)
      <4>1. usedBlockMap[x] = Capped(mapAtHit[x] + ClaimCount(fat, skipLen, start, x) + 0)
        <5>1. Len(fat) - skipLen = 0 BY <1>3
        <5>2. ForcedCount(fat[skipLen], 0, x) = 0 BY ForcedCountFact
        <5> QED BY <1>7, <5>1, <5>2 DEF Counted
      <4>2. CASE x = block /\ ~ wasWrapped
        <5>1. skipLen + 1 \in 1..(skipLen + 1) BY <1>3
        <5>2. block >= start BY <1>4, <1>5, <4>2
        <5>3. ClaimCount(fat', skipLen + 1, start, x) = 1
          BY <2>4, <4>2, <5>1, <5>2 DEF ClaimCount
        <5>4. usedBlockMap'[x] = 1 BY <1>3, <1>5, <1>12, <2>2, <4>2
        <5>5. mapAtHit[x] = 0 BY <1>4, <1>12, <4>2
        <5>6. Capped(0 + 1 + 0) = 1 BY UsedMaxAssumption DEF Capped
        <5> QED BY <5>3, <5>4, <5>5, <5>6
      <4>3. CASE ~ (x = block /\ ~ wasWrapped)
        <5>1. usedBlockMap'[x] = usedBlockMap[x] BY <1>3, <2>2, <4>3
        <5>2. x = block => ~ (x >= start) BY <1>4, <1>5, <4>3
        <5>3. 1..(skipLen + 1) = 1..skipLen \cup {skipLen + 1} BY <1>3
        <5>4. (\E i \in 1..(skipLen + 1) : fat'[i] = x /\ x >= start)
                <=> (\E i \in 1..skipLen : fat[i] = x /\ x >= start)
          BY <2>4, <5>2, <5>3, Zenon
        <5>5. ClaimCount(fat', skipLen + 1, start, x) = ClaimCount(fat, skipLen, start, x)
          BY <5>4 DEF ClaimCount
        <5> QED BY <4>1, <5>1, <5>5
      <4> QED BY <4>2, <4>3
    <3>2. ASSUME NEW x \in PhysBlocks
          PROVE  ForcedCount(fat'[skipLen'], Len(fat') - skipLen', x) = 0
      <4>1. Len(fat') - skipLen' = 0 BY <1>3, <2>1, <2>4
      <4> QED BY <4>1, ForcedCountFact
    <3> QED BY <1>1, <2>1, <2>3, <3>1, <3>2 DEF Counted
  <2>12. RebuildInv'
    BY <1>1, <1>7, <2>3, <2>8, <2>9, <2>10, <2>11 DEF RebuildInv
  <2> QED BY <1>10, <2>7, <2>12 DEF RefInv
<1> QED BY <1>3, <1>4, <1>11, <1>12

\* The first loop has the blocks it needs, or all free blocks there are.
LEMMA RefSkipEnd == ASSUME IndInv, RefInv, SkipEnd PROVE RefInv'
<1>1. /\ pc = "skip" /\ pc' = "naive" /\ wasWrapped' = FALSE
      /\ block' = U16(fat[Len(fat)] + 1)
      /\ UNCHANGED <<searchData, usedBlockMap, mapAtHit, skipLen, claims, preferredRegion>>
  BY DEF SkipEnd, settings, history, fat
<1>2. Rebuilding BY <1>1 DEF Rebuilding
<1>3. /\ start \in UserBlocks /\ fat \in Seq(UserBlocks)
      /\ skipLen = Len(fat) /\ Len(fat) \in Nat /\ skipLen \in 1..Len(fat)
      /\ \A i \in 1..Len(fat) : fat[i] \in UserBlocks
      /\ block \in FirstBlock..TotalPhysBlocks
      /\ Len(fat) + blocksRemaining = searchData.length
  BY <1>1, <1>2, RebuildingFact
<1>4. FirstBlock = 5 /\ TotalPhysBlocks \in Nat /\ N = TotalPhysBlocks - 5
      /\ TotalPhysBlocks <= U16Max
      /\ start \in 5..(TotalPhysBlocks - 1)
  <2>1. FirstBlock = 5 /\ TotalPhysBlocks \in Nat /\ N = TotalPhysBlocks - 5
        /\ TotalPhysBlocks <= U16Max
    BY SizeFact
  <2> QED BY <1>3, <2>1 DEF UserBlocks
<1>5. start' = start /\ fat' = fat BY <1>1 DEF start, fat
<1>6. Free' = Free BY <1>1, <1>5 DEF Free
<1>7. RebuildInv'
  <2>1. RebuildInv BY DEF RefInv
  <2>2. Counted' <=> Counted BY <1>1, <1>5 DEF Counted
  <2>3. FromOffer' <=> FromOffer BY <1>1 DEF FromOffer
  <2> QED BY <1>1, <1>2, <1>5, <1>6, <2>1, <2>2, <2>3 DEF RebuildInv
<1>8. FreeInv' BY <1>1 DEF FreeInv
<1>9. skipLen = searchData.length \/ skipLen = Cardinality(Free) + 1
  <2>1. CASE blocksRemaining = 0 BY <1>3, <2>1
  <2>2. CASE block < TotalPhysBlocks /\ AtStart
    <3>1. block = start BY <2>2 DEF AtStart, start
    <3>2. wasWrapped BY <1>1, <1>4, <3>1 DEF IndInv, SkipInv, start
    <3>3. Offset = N BY <1>4, <3>1, <3>2 DEF Offset
    <3>4. Free \subseteq 1..(N - 1) /\ IsFiniteSet(Free) BY FreeOffFact DEF Free
    <3>5. Free \subseteq Int /\ N \in Int /\ \A i \in Free : i < N BY <1>4, <3>4
    <3>6. Before(Free, N) = Free BY <3>4, <3>5, BeforeFact
    <3> QED BY <1>1, <3>3, <3>6 DEF RefInv, FreeInv
  <2> QED BY <2>1, <2>2 DEF SkipEnd
<1>10. Upcoming' = LFS!After(fat[skipLen], 1)
  <2>1. fat[skipLen] \in UserBlocks BY <1>3
  <2> DEFINE b == fat[skipLen]
  <2>2. /\ LFS!After(b, 0) = b
        /\ LFS!After(b, 0 + 1) = IF LFS!After(b, 0) + 1 < TotalPhysBlocks
                                 THEN LFS!After(b, 0) + 1 ELSE FirstBlock
    BY <2>1, AfterFact
  <2> HIDE DEF b
  <2>3. b \in 5..(TotalPhysBlocks - 1) BY <2>1, <1>4 DEF UserBlocks, b
  <2>4. block' = b + 1 BY <1>1, <1>3, <1>4, <2>3, U16Fact DEF b
  <2>5. LFS!After(b, 1) = IF b + 1 < TotalPhysBlocks THEN b + 1 ELSE FirstBlock
    <3>1. 0 + 1 = 1 OBVIOUS
    <3> QED BY <2>2, <3>1
  <2>6. Upcoming' = LFS!After(b, 1) BY <1>4, <2>3, <2>4, <2>5 DEF Upcoming
  <2> QED BY <2>6 DEF b
<1>11. ForcedInv'
  <2>1. Len(fat) - skipLen + 1 = 1 BY <1>3
  <2>2. \A k \in (skipLen + 1)..Len(fat) : FALSE BY <1>3
  <2> QED BY <1>1, <1>5, <1>6, <1>9, <1>10, <2>1, <2>2 DEF ForcedInv
<1> QED BY <1>7, <1>8, <1>11 DEF RefInv

LEMMA RefNaiveWrap == ASSUME IndInv, RefInv, NaiveWrap PROVE RefInv'
<1>1. /\ pc = "naive" /\ pc' = "naive" /\ block >= TotalPhysBlocks
      /\ block' = FirstBlock /\ wasWrapped' = wasWrapped
      /\ UNCHANGED <<searchData, usedBlockMap, mapAtHit, skipLen, claims, preferredRegion>>
  BY DEF NaiveWrap, WrapTo, settings, history
<1>2. Rebuilding BY <1>1 DEF Rebuilding
<1>3. block \in FirstBlock..TotalPhysBlocks BY <1>2, RebuildingFact
<1>4. FirstBlock # TotalPhysBlocks /\ block = TotalPhysBlocks
  BY <1>1, <1>3, BlocksAssumption, SizeFact
<1>5. start' = start /\ fat' = fat BY <1>1 DEF start, fat
<1>6. Free' = Free BY <1>1, <1>5 DEF Free
<1>7. RebuildInv'
  <2>1. RebuildInv BY DEF RefInv
  <2>2. Counted' <=> Counted BY <1>1, <1>5 DEF Counted
  <2>3. FromOffer' <=> FromOffer BY <1>1 DEF FromOffer
  <2> QED BY <1>1, <1>2, <1>5, <1>6, <2>1, <2>2, <2>3 DEF RebuildInv
<1>8. FreeInv' BY <1>1 DEF FreeInv
<1>9. Upcoming' = Upcoming BY <1>1, <1>4 DEF Upcoming
<1>10. ForcedInv' BY <1>1, <1>5, <1>6, <1>9 DEF RefInv, ForcedInv
<1> QED BY <1>7, <1>8, <1>10 DEF RefInv

\* The block behind the last one, used or not, is the next of the forced part.
LEMMA RefNaiveTake == ASSUME IndInv, RefInv, NaiveTake PROVE RefInv'
<1>1. /\ pc = "naive" /\ pc' = "naive" /\ block < TotalPhysBlocks
      /\ searchData' = AppendBlock(searchData, block)
      /\ block' = U16(block + 1) /\ wasWrapped' = wasWrapped
      /\ UNCHANGED <<mapAtHit, skipLen, claims, preferredRegion>>
  BY DEF NaiveTake, settings, history
<1>2. Rebuilding BY <1>1 DEF Rebuilding
<1>3. /\ start \in UserBlocks /\ fat \in Seq(UserBlocks)
      /\ Len(fat) \in Nat /\ skipLen \in 1..Len(fat)
      /\ \A i \in 1..Len(fat) : fat[i] \in UserBlocks
      /\ block \in FirstBlock..TotalPhysBlocks
      /\ usedBlockMap \in [PhysBlocks -> 0..UsedMax]
      /\ searchData \in FileRecords
  BY <1>2, RebuildingFact
<1>4. FirstBlock = 5 /\ TotalPhysBlocks \in Nat /\ TotalPhysBlocks <= U16Max
      /\ block \in 5..(TotalPhysBlocks - 1)
  <2>1. FirstBlock = 5 /\ TotalPhysBlocks \in Nat /\ TotalPhysBlocks <= U16Max
    BY SizeFact
  <2> QED BY <1>1, <1>3, <2>1
<1>5. block \in UserBlocks /\ block \in PhysBlocks BY <1>4 DEF UserBlocks, PhysBlocks
<1>6. block' = block + 1 BY <1>1, <1>4, U16Fact
<1>7. /\ mapAtHit \in [PhysBlocks -> 0..UsedMax]
      /\ \A k \in 2..skipLen : fat[k] = LFS!FreeOthers(mapAtHit, start)[k - 1]
      /\ skipLen <= Cardinality(Free) + 1
      /\ Counted /\ FromOffer /\ ~ wasWrapped
      /\ skipLen = searchData.length \/ skipLen = Cardinality(Free) + 1
      /\ Upcoming = LFS!After(fat[skipLen], Len(fat) - skipLen + 1)
      /\ \A k \in (skipLen + 1)..Len(fat) : fat[k] = LFS!After(fat[skipLen], k - skipLen)
  BY <1>1, <1>2 DEF RefInv, RebuildInv, ForcedInv
<1>8. /\ start' = start /\ fat' = Append(fat, block)
      /\ searchData'.length = searchData.length /\ searchData'.region = searchData.region
  BY <1>1, <1>3, <1>5, AppendBlockFact DEF start, fat
<1>9. /\ Len(fat') = Len(fat) + 1 /\ fat'[Len(fat) + 1] = block
      /\ \A i \in 1..Len(fat) : fat'[i] = fat[i]
  <2> HIDE DEF UserBlocks
  <2> QED BY <1>3, <1>5, <1>8, AppendFact
<1>10. Free' = Free BY <1>1, <1>8 DEF Free
<1>11. fat'[skipLen] = fat[skipLen] /\ fat[skipLen] \in UserBlocks BY <1>3, <1>9
<1> DEFINE last == fat[skipLen]
           m == Len(fat) - skipLen
<1>12. m \in Nat /\ last \in UserBlocks /\ fat'[skipLen] = last /\ Len(fat') - skipLen = m + 1
  BY <1>3, <1>9, <1>11
<1>13. block = LFS!After(last, m + 1) BY <1>4, <1>7 DEF Upcoming
<1>14. usedBlockMap' = Bump(usedBlockMap, block) BY <1>7 DEF NaiveTake
<1>15. Counted'
  <2>1. ASSUME NEW x \in PhysBlocks
        PROVE  usedBlockMap'[x] =
                  Capped(mapAtHit[x] + ClaimCount(fat', skipLen, start, x)
                            + ForcedCount(last, m + 1, x))
    <3>1. ClaimCount(fat', skipLen, start, x) = ClaimCount(fat, skipLen, start, x)
      <4>1. \A i \in 1..skipLen : fat'[i] = fat[i] BY <1>3, <1>9
      <4> QED BY <4>1, Zenon DEF ClaimCount
    <3>2. PICK c \in {0, 1} : c = ClaimCount(fat, skipLen, start, x) BY DEF ClaimCount
    <3>3. PICK f \in Nat : f = ForcedCount(last, m, x)
      <4> HIDE DEF m, last
      <4> QED BY <1>12, ForcedCountFact
    <3>4. ForcedCount(last, m + 1, x) = f + IF block = x THEN 1 ELSE 0
      <4> HIDE DEF m, last
      <4>1. ForcedCount(last, m + 1, x)
              = ForcedCount(last, m, x) + IF LFS!After(last, m + 1) = x THEN 1 ELSE 0
        BY <1>12, ForcedCountFact
      <4> QED BY <1>13, <3>3, <4>1
    <3>5. usedBlockMap[x] = Capped(mapAtHit[x] + c + f) BY <1>7, <3>2, <3>3 DEF Counted
    <3>6. usedBlockMap'[x] = IF x = block THEN Capped(usedBlockMap[x] + 1) ELSE usedBlockMap[x]
      BY <1>3, <1>5, <1>14, BumpedFact
    <3>7. PICK n \in Nat : n = mapAtHit[x] + c + f
      <4>1. mapAtHit[x] \in Nat BY <1>7, UsedMaxAssumption
      <4> QED BY <4>1
    <3>8. Capped(Capped(n) + 1) = Capped(n + 1) BY CappedFact
    <3> HIDE DEF m, last
    <3>9. CASE x = block
      <4>1. mapAtHit[x] \in Nat BY <1>7, UsedMaxAssumption
      <4>2. mapAtHit[x] + c + (f + 1) = n + 1 BY <3>7, <4>1
      <4>3. ForcedCount(last, m + 1, x) = f + 1 BY <3>4, <3>9
      <4> QED BY <3>1, <3>2, <3>5, <3>6, <3>7, <3>8, <3>9, <4>2, <4>3
    <3>10. CASE x # block
      <4>1. ForcedCount(last, m + 1, x) = f BY <3>4, <3>10
      <4> QED BY <3>1, <3>2, <3>5, <3>6, <3>10, <4>1
    <3> QED BY <3>9, <3>10
  <2> HIDE DEF m, last
  <2> QED BY <1>1, <1>8, <1>12, <2>1 DEF Counted
<1>16. FromOffer' BY <1>1, <1>7, <1>8 DEF FromOffer
<1>17. RebuildInv'
  <2>1. \A k \in 2..skipLen : fat'[k] = fat[k] BY <1>3, <1>9
  <2> QED BY <1>1, <1>7, <1>8, <1>10, <1>15, <1>16, <2>1 DEF RebuildInv
<1>18. FreeInv' BY <1>1 DEF FreeInv
<1>19. ForcedInv'
  <2>1. Upcoming' = LFS!After(last, (m + 1) + 1)
    <3> HIDE DEF m, last
    <3>1. m + 1 \in Nat BY <1>12
    <3>2. LFS!After(last, (m + 1) + 1) = IF block + 1 < TotalPhysBlocks
                                         THEN block + 1 ELSE FirstBlock
      BY <1>12, <1>13, <3>1, AfterFact
    <3> QED BY <1>4, <1>6, <3>2 DEF Upcoming
  <2>2. ASSUME NEW k \in (skipLen + 1)..Len(fat')
        PROVE  fat'[k] = LFS!After(last, k - skipLen)
    <3>1. CASE k = Len(fat) + 1
      <4>1. k - skipLen = m + 1 BY <1>3, <3>1
      <4> QED BY <1>9, <1>13, <3>1, <4>1
    <3>2. CASE k # Len(fat) + 1
      <4>1. k \in (skipLen + 1)..Len(fat) /\ k \in 1..Len(fat) BY <1>3, <1>9, <3>2
      <4> QED BY <1>7, <1>9, <4>1
    <3> QED BY <3>1, <3>2
  <2> HIDE DEF m, last
  <2> QED BY <1>1, <1>7, <1>8, <1>10, <1>12, <2>1, <2>2 DEF ForcedInv
<1> QED BY <1>17, <1>18, <1>19 DEF RefInv

\* Every other step leaves no chain half built, or changes nothing.
LEMMA RefNext == ASSUME IndInv, RefInv, [Next]_vars PROVE RefInv'
<1>1. CASE UNCHANGED vars
  <2>1. UNCHANGED <<pc, searchData, usedBlockMap, mapAtHit, skipLen, claims,
                    preferredRegion, block, wasWrapped>>
    BY <1>1 DEF vars, settings, loop, history
  <2>2. start' = start /\ fat' = fat BY <2>1 DEF start, fat
  <2>3. Free' = Free /\ Offset' = Offset /\ Upcoming' = Upcoming
    BY <2>1, <2>2 DEF Free, Offset, Upcoming
  <2>4. Counted' <=> Counted BY <2>1, <2>2 DEF Counted
  <2>5. FromOffer' <=> FromOffer BY <2>1 DEF FromOffer
  <2> QED BY <2>1, <2>2, <2>3, <2>4, <2>5 DEF RefInv, RebuildInv, FreeInv, ForcedInv, Rebuilding
<1>2. CASE SearchRefused \/ SetProperties \/ SearchCalled \/ ListBlock \/ SearchNoBlocks
           \/ SearchStarted \/ NoHit \/ PushFront \/ SearchFinished
  <2>1. pc' \in {"idle", "list", "scan"}
    BY <1>2 DEF SearchRefused, SetProperties, SearchCalled, ListBlock, SearchNoBlocks,
        SearchStarted, NoHit, Scanning, PushFront, SearchFinished
  <2> QED BY <2>1 DEF RefInv, RebuildInv, FreeInv, ForcedInv, Rebuilding
<1>3. CASE \E hits \in HitLists : Hit(hits) BY <1>3, RefHit
<1>4. CASE SkipWrap BY <1>4, RefSkipWrap
<1>5. CASE SkipVisit BY <1>5, RefSkipVisit
<1>6. CASE SkipEnd BY <1>6, RefSkipEnd
<1>7. CASE NaiveWrap BY <1>7, RefNaiveWrap
<1>8. CASE NaiveTake BY <1>8, RefNaiveTake
<1> QED BY <1>1, <1>2, <1>3, <1>4, <1>5, <1>6, <1>7, <1>8 DEF Next, Search

LEMMA RefInit == ASSUME Init PROVE RefInv
BY DEF Init, RefInv, RebuildInv, FreeInv, ForcedInv, Rebuilding

-----------------------------------------------------------------------------
(* Every step of the loops is a step of LostFileSearch or none *)

Candidates ==
    IF ~ Started THEN << >>
    ELSE SubSeq(blockSearchList, currentSearchBlock, Len(blockSearchList))
UseCounts ==
    IF ~ Started THEN cardMap ELSE IF Rebuilding THEN mapAtHit ELSE usedBlockMap

LEMMA StartedFact ==
    /\ pc \in {"idle", "list"} => ~ Started /\ Candidates = << >> /\ UseCounts = cardMap
    /\ pc = "scan" => /\ Started /\ UseCounts = usedBlockMap
                      /\ Candidates = SubSeq(blockSearchList, currentSearchBlock,
                                             Len(blockSearchList))
    /\ pc \in {"skip", "naive"} =>
          /\ Started /\ UseCounts = mapAtHit
          /\ Candidates = SubSeq(blockSearchList, currentSearchBlock,
                                 Len(blockSearchList))
BY DEF Started, Rebuilding, Candidates, UseCounts

\* The blocks still to be looked at, as long as there are any.
LEMMA CandidatesFact ==
    ASSUME IndInv, currentSearchBlock <= Len(blockSearchList)
    PROVE  LET c == SubSeq(blockSearchList, currentSearchBlock, Len(blockSearchList))
           IN  /\ c # << >>
               /\ Head(c) = blockSearchList[currentSearchBlock]
               /\ Tail(c) = SubSeq(blockSearchList, currentSearchBlock + 1,
                                   Len(blockSearchList))
<1> DEFINE n == Len(blockSearchList)
           c == SubSeq(blockSearchList, currentSearchBlock, n)
<1>1. blockSearchList \in Seq(UserBlocks) /\ currentSearchBlock \in Nat \ {0}
  BY DEF IndInv, TypeOK
<1>2. n \in Nat /\ currentSearchBlock \in 1..n /\ n \in currentSearchBlock..n
  <2> HIDE DEF UserBlocks
  <2> QED BY <1>1
<1>3. /\ Head(c) = blockSearchList[currentSearchBlock]
      /\ Tail(c) = SubSeq(blockSearchList, currentSearchBlock + 1, n)
  <2> HIDE DEF UserBlocks, n
  <2>1. n = Len(blockSearchList) BY DEF n
  <2> QED BY <1>1, <1>2, <2>1, HeadTailOfSubSeq
<1>4. c # << >>
  <2> HIDE DEF UserBlocks
  <2>1. \A i \in currentSearchBlock..n : blockSearchList[i] \in UserBlocks BY <1>1, <1>2
  <2> HIDE DEF n, c
  <2>2. Len(SubSeq(blockSearchList, currentSearchBlock, n))
          = IF currentSearchBlock <= n THEN n - currentSearchBlock + 1 ELSE 0
    BY <1>2, <2>1, SubSeqProperties
  <2>3. Len(SubSeq(blockSearchList, currentSearchBlock, n)) > 0 BY <1>2, <2>2
  <2>4. PICK q : q = SubSeq(blockSearchList, currentSearchBlock, n) OBVIOUS
  <2>5. Len(q) > 0 BY <2>3, <2>4
  <2>6. q # << >> BY <2>5
  <2> QED BY <2>4, <2>6 DEF c
<1> QED BY <1>3, <1>4

\* Nothing of what LostFileSearch speaks of changes.
LEMMA Stutter ==
    ASSUME IndInv,
           \/ ListBlock \/ SearchNoBlocks \/ (\E hits \in HitLists : Hit(hits))
           \/ SkipWrap \/ SkipVisit \/ SkipEnd \/ NaiveWrap \/ NaiveTake
    PROVE  UNCHANGED LFS!vars
<1>1. /\ preferredRegion' = preferredRegion /\ filesFoundList' = filesFoundList
      /\ cardMap' = cardMap
  BY DEF ListBlock, SearchNoBlocks, Hit, SkipWrap, SkipVisit, SkipEnd, NaiveWrap, NaiveTake,
      settings
<1>2. Started' = Started /\ Candidates' = Candidates /\ UseCounts' = UseCounts
  <2>1. CASE ListBlock \/ SearchNoBlocks
    <3>1. pc \in {"idle", "list"} /\ pc' \in {"idle", "list"}
      BY <2>1 DEF ListBlock, SearchNoBlocks
    <3> QED BY <1>1, <3>1 DEF Started, Rebuilding, Candidates, UseCounts
  <2>2. CASE \E hits \in HitLists : Hit(hits)
    <3>1. /\ pc = "scan" /\ pc' = "skip" /\ mapAtHit' = usedBlockMap
          /\ UNCHANGED <<blockSearchList, currentSearchBlock>>
      BY <2>2 DEF Hit, Scanning
    <3> QED BY <3>1 DEF Started, Rebuilding, Candidates, UseCounts
  <2>3. CASE SkipWrap \/ SkipVisit \/ SkipEnd \/ NaiveWrap \/ NaiveTake
    <3>1. /\ pc \in {"skip", "naive"} /\ pc' \in {"skip", "naive"}
          /\ UNCHANGED <<mapAtHit, blockSearchList, currentSearchBlock>>
      BY <2>3 DEF SkipWrap, SkipVisit, SkipEnd, NaiveWrap, NaiveTake, history
    <3> QED BY <3>1 DEF Started, Rebuilding, Candidates, UseCounts
  <2> QED BY <2>1, <2>2, <2>3
<1> QED BY <1>1, <1>2 DEF LFS!vars, Candidates, UseCounts

\* A search that is refused, and one that begins, empties the list of files.
LEMMA MapsToRefuse ==
    ASSUME IndInv, SearchRefused \/ SearchCalled
    PROVE  LFS!Refuse
<1>1. /\ pc \in {"idle", "list"} /\ pc' \in {"idle", "list"}
      /\ filesFoundList' = << >>
      /\ cardMap' = cardMap /\ preferredRegion' = preferredRegion
  BY DEF SearchRefused, SearchCalled, settings
<1>2. /\ ~ Started /\ Started' = Started /\ Candidates' = Candidates
      /\ UseCounts' = UseCounts
  BY <1>1 DEF Started, Rebuilding, Candidates, UseCounts
<1> QED BY <1>1, <1>2 DEF LFS!Refuse, Candidates, UseCounts

LEMMA MapsToConfigure ==
    ASSUME IndInv, SetProperties
    PROVE  LFS!Configure
<1>1. /\ pc = "idle" /\ pc' = "idle" /\ filesFoundList' = filesFoundList
      /\ cardMap' = cardMap /\ preferredRegion' \in Nat
  BY RegionsAssumption DEF SetProperties
<1>2. /\ ~ Started /\ Started' = Started /\ Candidates' = Candidates
      /\ UseCounts' = UseCounts
  BY <1>1 DEF Started, Rebuilding, Candidates, UseCounts
<1> QED BY <1>1, <1>2 DEF LFS!Configure, Candidates, UseCounts

\* The list is complete and in descending order.
LEMMA MapsToStart ==
    ASSUME IndInv, SearchStarted
    PROVE  LFS!Start
<1>1. /\ pc = "list" /\ pc' = "scan" /\ blockSearchList # << >>
      /\ currentSearchBlock' = 1
      /\ UNCHANGED <<preferredRegion, blockSearchList, usedBlockMap, filesFoundList>>
  BY DEF SearchStarted, settings
<1>2. /\ blockSearchList \in Seq(UserBlocks) /\ filesFoundList = << >>
      /\ usedBlockMap \in [PhysBlocks -> 0..UsedMax]
      /\ \A i, j \in DOMAIN blockSearchList :
            i < j => blockSearchList[i] > blockSearchList[j]
  BY <1>1 DEF IndInv, TypeOK, ListInv
<1>3. \A i \in DOMAIN blockSearchList : blockSearchList[i] \in UserBlocks
  <2> HIDE DEF UserBlocks
  <2> QED BY <1>2
<1>4. ~ Started /\ Started' /\ UseCounts' = usedBlockMap
  BY <1>1 DEF Started, Rebuilding, UseCounts
<1>5. Candidates' = blockSearchList
  <2>1. SubSeq(blockSearchList, 1, Len(blockSearchList)) = blockSearchList
    <3> HIDE DEF UserBlocks
    <3> QED BY <1>2, SubSeqFull
  <2> QED BY <1>1, <1>4, <2>1 DEF Candidates
<1>6. UserBlocks = LFS!UserBlocks /\ [PhysBlocks -> 0..UsedMax] = LFS!Maps
  BY DEF UserBlocks, FirstBlock, PhysBlocks, LFS!UserBlocks, LFS!FirstBlock, LFS!Maps,
      LFS!PhysBlocks
<1>7. /\ Candidates' # << >> /\ UseCounts' \in LFS!Maps
      /\ \A i, j \in DOMAIN Candidates' : i < j => Candidates'[i] > Candidates'[j]
      /\ \A i \in DOMAIN Candidates' : Candidates'[i] \in LFS!UserBlocks
  BY <1>1, <1>2, <1>3, <1>4, <1>5, <1>6, Zenon
<1>8. filesFoundList' = << >> /\ preferredRegion' = preferredRegion BY <1>1, <1>2
<1> QED BY <1>4, <1>7, <1>8 DEF LFS!Start, Candidates, UseCounts

\* A block that cannot be read or that no database knows.
LEMMA MapsToPass ==
    ASSUME IndInv, NoHit
    PROVE  LFS!Pass
<1>1. /\ pc = "scan" /\ pc' = "scan" /\ currentSearchBlock <= Len(blockSearchList)
      /\ currentSearchBlock' = currentSearchBlock + 1
      /\ UNCHANGED <<preferredRegion, blockSearchList, usedBlockMap, filesFoundList>>
  BY DEF NoHit, Scanning, settings
<1>2. Started /\ Started' /\ UseCounts' = UseCounts
  BY <1>1 DEF Started, Rebuilding, UseCounts
<1>3. Candidates # << >> /\ Candidates' = Tail(Candidates)
  BY <1>1, <1>2, CandidatesFact DEF Candidates
<1> QED BY <1>1, <1>2, <1>3 DEF LFS!Pass, Candidates, UseCounts

\* No candidate is left.
LEMMA MapsToFinish ==
    ASSUME IndInv, IndInv', SearchFinished
    PROVE  LFS!Finish
<1>1. /\ pc = "scan" /\ pc' = "idle" /\ currentSearchBlock > Len(blockSearchList)
      /\ UNCHANGED <<preferredRegion, cardMap, filesFoundList>>
  BY DEF SearchFinished, settings
<1>2. Started /\ ~ Started' /\ UseCounts' = cardMap /\ Candidates' = << >>
  BY <1>1 DEF Started, Rebuilding, UseCounts, Candidates
<1>3. Candidates = << >>
  <2>1. blockSearchList \in Seq(UserBlocks) /\ currentSearchBlock \in Nat
    BY DEF IndInv, TypeOK
  <2>2. Len(blockSearchList) \in Nat
    <3> HIDE DEF UserBlocks
    <3> QED BY <2>1
  <2> QED BY <1>1, <1>2, <2>1, <2>2, SubSeqEmpty DEF Candidates
<1>4. cardMap \in LFS!Maps
  BY CardMapFact DEF IndInv, TypeOK, LFS!Maps, LFS!PhysBlocks, PhysBlocks
<1>5. Started' = FALSE BY <1>2
<1>6. UseCounts' \in LFS!Maps /\ Candidates' = Candidates BY <1>2, <1>3, <1>4
<1> QED BY <1>1, <1>2, <1>3, <1>5, <1>6, Zenon DEF LFS!Finish, Candidates, UseCounts

\* The finished chain is the closed form, and so are the use counts.
LEMMA FinishedChain ==
    ASSUME IndInv, RefInv, PushFront
    PROVE  LET length == searchData.length
           IN  /\ fat = LFS!Chain(mapAtHit, start, length)
               /\ usedBlockMap = LFS!Marked(mapAtHit, start, length)
<1> DEFINE length == searchData.length
           t == LFS!Taken(mapAtHit, start, length)
           free == Cardinality(FreeOff(mapAtHit, start))
<1>1. pc = "naive" /\ blocksRemaining = 0 BY DEF PushFront
<1>2. Rebuilding BY <1>1 DEF Rebuilding
<1>3. /\ start \in UserBlocks /\ fat \in Seq(UserBlocks) /\ fat[1] = start
      /\ Len(fat) = length /\ length \in Nat \ {0} /\ skipLen \in 1..length
      /\ usedBlockMap \in [PhysBlocks -> 0..UsedMax]
  BY <1>1, <1>2, RebuildingFact
<1>4. /\ mapAtHit \in [PhysBlocks -> 0..UsedMax]
      /\ \A k \in 2..skipLen : fat[k] = LFS!FreeOthers(mapAtHit, start)[k - 1]
      /\ skipLen <= free + 1
      /\ skipLen = length \/ skipLen = free + 1
      /\ \A k \in (skipLen + 1)..Len(fat) : fat[k] = LFS!After(fat[skipLen], k - skipLen)
      /\ Counted
  BY <1>1, <1>2 DEF RefInv, RebuildInv, ForcedInv, Free
<1>5. t \in Nat /\ t <= length - 1 /\ t <= free /\ (t = length - 1 \/ t = free)
  <2> HIDE DEF length
  <2> QED BY <1>3, PartFact
<1>6. free \in Nat BY FreeOffFact
<1> HIDE DEF length, t, free
<1>7. skipLen = t + 1 BY <1>3, <1>4, <1>5, <1>6
<1>8. Matches(fat, mapAtHit, start, length)
  <2>1. \A k \in (t + 2)..length : fat[k] = LFS!After(fat[t + 1], k - (t + 1))
    <3>1. (t + 1) + 1 = t + 2 BY <1>5
    <3> QED BY <1>3, <1>4, <1>7, <3>1
  <2>2. \A k \in 2..(t + 1) : fat[k] = LFS!FreeOthers(mapAtHit, start)[k - 1]
    BY <1>4, <1>7
  <2> QED BY <1>3, <2>1, <2>2 DEF Matches, t
<1>9. fat = LFS!Chain(mapAtHit, start, length) BY <1>3, <1>8, ChainFact
<1>10. LFS!Marked(mapAtHit, start, length) =
          [x \in PhysBlocks |->
              Capped(mapAtHit[x] + ClaimCount(fat, t + 1, start, x)
                       + ForcedCount(fat[t + 1], length - (t + 1), x))]
  BY <1>3, <1>4, <1>8, MarkedFact DEF t
<1>11. \A x \in PhysBlocks :
          usedBlockMap[x] = Capped(mapAtHit[x] + ClaimCount(fat, t + 1, start, x)
                                     + ForcedCount(fat[t + 1], length - (t + 1), x))
  BY <1>3, <1>4, <1>7 DEF Counted
<1>12. usedBlockMap = [x \in PhysBlocks |-> usedBlockMap[x]] BY <1>3
<1>13. usedBlockMap = LFS!Marked(mapAtHit, start, length)
  BY <1>10, <1>11, <1>12, Zenon
<1> QED BY <1>9, <1>13 DEF length

LEMMA MapsToRecover ==
    ASSUME IndInv, RefInv, PushFront
    PROVE  LFS!Recover
<1> DEFINE hits == claims[1].offered
           b == blockSearchList[currentSearchBlock]
<1>1. /\ pc = "naive" /\ pc' = "scan"
      /\ filesFoundList' = <<searchData>> \o filesFoundList
      /\ currentSearchBlock' = currentSearchBlock + 1
      /\ UNCHANGED <<preferredRegion, blockSearchList, usedBlockMap>>
  BY DEF PushFront, ToTheFront, settings
<1>2. Rebuilding BY <1>1 DEF Rebuilding
<1>3. /\ searchData \in FileRecords /\ hits \in HitLists /\ start = b
      /\ currentSearchBlock <= Len(blockSearchList)
  <2>1. searchData \in FileRecords /\ hits \in HitLists BY <1>2, RebuildingFact
  <2>2. /\ start = b /\ currentSearchBlock \in DOMAIN blockSearchList
        /\ blockSearchList \in Seq(UserBlocks)
    BY <1>2 DEF IndInv, HitInv, TypeOK, start
  <2>3. currentSearchBlock <= Len(blockSearchList)
    <3> HIDE DEF UserBlocks
    <3> QED BY <2>2
  <2> QED BY <2>1, <2>2, <2>3
<1>4. PICK i \in DOMAIN hits :
          /\ LFS!Acceptable(hits, preferredRegion, i)
          /\ searchData.length = LFS!LengthOf(hits[i])
          /\ searchData.region = hits[i].region
  BY <1>2 DEF RefInv, RebuildInv, FromOffer
<1>5. /\ fat = LFS!Chain(mapAtHit, start, searchData.length)
      /\ usedBlockMap = LFS!Marked(mapAtHit, start, searchData.length)
  BY FinishedChain
<1>6. searchData = [block |-> start, length |-> searchData.length,
                    region |-> searchData.region, fatEntries |-> fat]
  BY <1>3 DEF FileRecords, start, fat
<1>7. /\ Started = TRUE /\ Started' = TRUE /\ UseCounts = mapAtHit
      /\ UseCounts' = usedBlockMap
  BY <1>1 DEF Started, Rebuilding, UseCounts
<1>8. Candidates # << >> /\ Head(Candidates) = b /\ Candidates' = Tail(Candidates)
  BY <1>1, <1>3, <1>7, CandidatesFact DEF Candidates
<1> HIDE DEF b
<1>9. searchData = LFS!LostFile(UseCounts, Head(Candidates), hits[i])
  BY <1>3, <1>4, <1>5, <1>6, <1>7, <1>8, Zenon DEF LFS!LostFile
<1>10. UseCounts' = LFS!Marked(UseCounts, Head(Candidates), LFS!LengthOf(hits[i]))
  BY <1>3, <1>4, <1>5, <1>7, <1>8, Zenon
<1>11. filesFoundList' = <<LFS!LostFile(UseCounts, Head(Candidates), hits[i])>> \o filesFoundList
  BY <1>1, <1>9, Zenon
<1>12. preferredRegion' = preferredRegion BY <1>1
<1> HIDE DEF hits
<1> QED BY <1>3, <1>4, <1>7, <1>8, <1>10, <1>11, <1>12, Zenon
        DEF LFS!Recover, Candidates, UseCounts

LEMMA MapsToInit == ASSUME Init PROVE LFS!Init
<1>1. ~ Started /\ Candidates = << >> /\ UseCounts = cardMap /\ cardMap \in CardMaps
  BY DEF Init, Started, Rebuilding, Candidates, UseCounts
<1>2. cardMap \in LFS!Maps
  BY <1>1, CardMapFact DEF LFS!Maps, LFS!PhysBlocks, PhysBlocks
<1>3. Started = FALSE BY <1>1
<1>4. preferredRegion \in Nat /\ filesFoundList = << >> BY DEF Init
<1>5. UseCounts \in LFS!Maps BY <1>1, <1>2
<1> QED BY <1>1, <1>3, <1>4, <1>5, Zenon DEF LFS!Init, Candidates, UseCounts

LEMMA MapsToNext ==
    ASSUME IndInv, IndInv', RefInv, [Next]_vars
    PROVE  [LFS!Next]_(LFS!vars)
<1>1. CASE UNCHANGED vars
  <2>1. /\ UNCHANGED <<pc, preferredRegion, cardMap, usedBlockMap, blockSearchList>>
        /\ UNCHANGED <<currentSearchBlock, filesFoundList, mapAtHit>>
    BY <1>1 DEF vars, settings, loop, history
  <2>2. Started' = Started /\ Candidates' = Candidates /\ UseCounts' = UseCounts
    BY <2>1 DEF Started, Rebuilding, Candidates, UseCounts
  <2> QED BY <2>1, <2>2 DEF LFS!vars, Candidates, UseCounts
<1>2. CASE \/ ListBlock \/ SearchNoBlocks \/ (\E hits \in HitLists : Hit(hits))
           \/ SkipWrap \/ SkipVisit \/ SkipEnd \/ NaiveWrap \/ NaiveTake
  BY <1>2, Stutter, Zenon
<1>3. CASE SearchRefused \/ SearchCalled BY <1>3, MapsToRefuse, Zenon DEF LFS!Next
<1>4. CASE SetProperties BY <1>4, MapsToConfigure, Zenon DEF LFS!Next
<1>5. CASE SearchStarted BY <1>5, MapsToStart, Zenon DEF LFS!Next
<1>6. CASE NoHit BY <1>6, MapsToPass, Zenon DEF LFS!Next
<1>7. CASE PushFront BY <1>7, MapsToRecover, Zenon DEF LFS!Next
<1>8. CASE SearchFinished BY <1>8, MapsToFinish, Zenon DEF LFS!Next
<1> QED BY <1>1, <1>2, <1>3, <1>4, <1>5, <1>6, <1>7, <1>8, Zenon DEF Next, Search

-----------------------------------------------------------------------------
\* searchMemCard() promises what LostFileSearch says: the two loops, one block
\* per iteration, build for every card and every database the chain and the use
\* counts of the closed form, and nothing of them is seen before the file is.
THEOREM Refinement == Spec => ImplementsSearch
<1>1. Init => LFS!Init BY MapsToInit
<1>2. Init => RefInv BY RefInit
<1>3. IndInv /\ RefInv /\ [Next]_vars => RefInv' BY RefNext
<1>4. IndInv /\ IndInv' /\ RefInv /\ [Next]_vars => [LFS!Next]_(LFS!vars)
  BY MapsToNext
<1> QED BY <1>1, <1>2, <1>3, <1>4, Invariance, PTL DEF Spec, ImplementsSearch

=============================================================================
