--------------------------- MODULE CardLoadProofs ---------------------------
(***************************************************************************)
(* What the tables of a GameCube card in use are worth, and what a card    *)
(* offered for writing has, for images and cards of every size.  The       *)
(* invariants follow a loader from phase to phase: TablesInv says of each  *)
(* index whether its tables are yet to be read or have been judged,        *)
(* ErrorsInv what is known as long as no error is flagged, and StayInv     *)
(* what the block counts and the files of a VMU are, whatever is flagged.  *)
(***************************************************************************)
EXTENDS CardLoad, FiniteSetTheorems, WellFoundedInduction, TLAPS

\* No table of this index has been looked at, and nothing is computed for it.
Fresh(t) ==
    /\ datSum[t] = 0 /\ batSum[t] = 0
    /\ t \notin datValid /\ t \notin batValid

\* The tables of this index are valid exactly if the file has them.
JudgedDat(t) ==
    /\ t \in datValid <=> GoodDat(t)
    /\ t \in datValid => dat[t] = img.dats[t]
JudgedBat(t) ==
    totalUser <= FatSize =>
        /\ t \in batValid <=> GoodBat(t)
        /\ t \in batValid => bat[t] = img.bats[t]
Judged(t) == JudgedDat(t) /\ JudgedBat(t)

Tables ==
    /\ DOMAIN dat = TableIdx /\ DOMAIN bat = TableIdx
    /\ DOMAIN datSum = TableIdx /\ DOMAIN batSum = TableIdx

TablesInv ==
    /\ img \in Images
    /\ type = "GCN" => totalUser \in Nat /\ Tables
    /\ (phase = "head" /\ type = "GCN") => Fresh(0) /\ Fresh(1)
    /\ phase = "tables0" => type = "GCN" /\ HeadReadable /\ Fresh(0) /\ Fresh(1)
    /\ phase = "tables1" => type = "GCN" /\ HeadReadable /\ Judged(0) /\ Fresh(1)
    /\ phase = "check" => type = "GCN" /\ Judged(0) /\ Judged(1)
    /\ phase = "dir" => type = "VMS"
    /\ SelectedTablesWereRead

-----------------------------------------------------------------------------
\* A block table has at most as many zeros in front of an index.
LEMMA ZerosBounded ==
    ASSUME NEW fat, DOMAIN fat = 0..(FatSize - 1), NEW n \in Nat
    PROVE  Zeros(fat, n) \in Nat /\ Zeros(fat, n) <= n
<1> DEFINE S == {b \in DOMAIN fat : b < n /\ fat[b] = 0}
<1>1. FatSize \in Nat BY CardLoadAssumption
<1>2. S \in SUBSET (0..(n - 1)) BY <1>1
<1>3. IsFiniteSet(0..(n - 1)) /\ Cardinality(0..(n - 1)) = n
  <2>1. 0 \in Int /\ n - 1 \in Int OBVIOUS
  <2> QED BY <2>1, FS_Interval
<1>4. IsFiniteSet(S) /\ Cardinality(S) <= n BY <1>2, <1>3, FS_Subset
<1>5. Cardinality(S) \in Nat BY <1>4, FS_CardinalityType
<1> QED BY <1>4, <1>5 DEF Zeros

\* A card whose user blocks are all in the table counts exactly.
LEMMA CountsExactly ==
    ASSUME NEW fat, DOMAIN fat = 0..(FatSize - 1), NEW n \in Nat, n <= FatSize
    PROVE  Counts(fat, n) = {Zeros(fat, n)}
<1>1. FatSize \in Nat BY CardLoadAssumption
<1>2. ~ (n > FatSize) BY <1>1
<1>3. Counts(fat, n) = {Zeros(fat, n) + k : k \in 0..0} BY <1>2 DEF Counts
<1>4. Zeros(fat, n) + 0 = Zeros(fat, n) BY ZerosBounded
<1> QED BY <1>3, <1>4

\* What the file has does not change while it is read.
LEMMA GoodStays ==
    ASSUME NEW t, img' = img, totalUser' = totalUser
    PROVE  /\ HeadReadable' <=> HeadReadable
           /\ GoodDat(t)' <=> GoodDat(t)
           /\ GoodBat(t)' <=> GoodBat(t)
BY DEF HeadReadable, GoodDat, GoodBat, Readable, InFile

-----------------------------------------------------------------------------
(* loadSysInfo() of one index *)

LEMMA LoadedDat ==
    ASSUME NEW t \in TableIdx, Tables, HeadReadable, Fresh(t), LoadTables(t)
    PROVE  JudgedDat(t)'
<1> DEFINE d == IF Readable(1 + t) THEN img.dats[t] ELSE FilledDat
<1>1. /\ dat' = [dat EXCEPT ![t] = d]
      /\ datSum' = IF Readable(1 + t) THEN [datSum EXCEPT ![t] = Computed] ELSE datSum
      /\ datValid' = datValid \cup {i \in {t} : d.stored = datSum'[t]}
      /\ img' = img /\ totalUser' = totalUser
  BY DEF LoadTables
<1>2. dat'[t] = d BY <1>1 DEF Tables
<1>3. t \in datValid' <=> d.stored = datSum'[t] BY <1>1 DEF Fresh
<1>4. CASE Readable(1 + t)
  <2>1. d = img.dats[t] /\ datSum'[t] = Computed BY <1>1, <1>4 DEF Tables
  <2>2. t \in datValid' <=> GoodDat(t) BY <1>3, <1>4, <2>1 DEF GoodDat
  <2> QED BY <1>1, <1>2, <2>1, <2>2, GoodStays DEF JudgedDat
<1>5. CASE ~ Readable(1 + t)
  <2>1. d.stored # datSum'[t]
    BY <1>1, <1>5 DEF Fresh, FilledDat, Impossible
  <2>2. ~ GoodDat(t) BY <1>5 DEF GoodDat
  <2> QED BY <1>1, <1>3, <2>1, <2>2, GoodStays DEF JudgedDat
<1> QED BY <1>4, <1>5

LEMMA LoadedBat ==
    ASSUME NEW t \in TableIdx, img \in Images, totalUser \in Nat, Tables,
           HeadReadable, Fresh(t), LoadTables(t)
    PROVE  JudgedBat(t)'
<1> DEFINE b == IF Readable(3 + t) THEN img.bats[t] ELSE FilledBat
           sums == IF Readable(3 + t) THEN Computed ELSE batSum[t]
           valid(free) == /\ b.stored = sums
                          /\ b.freeblocks <= totalUser
                          /\ b.freeblocks = free
<1>1. /\ bat' = [bat EXCEPT ![t] = b]
      /\ img' = img /\ totalUser' = totalUser
  BY DEF LoadTables
<1>2. PICK free \in Counts(b.fat, totalUser) :
          batValid' = batValid \cup {i \in {t} : valid(free)}
  BY DEF LoadTables
<1>3. bat'[t] = b BY <1>1 DEF Tables
<1>4. t \in batValid' <=> valid(free) BY <1>2 DEF Fresh
<1>5. SUFFICES ASSUME totalUser <= FatSize
               PROVE  /\ t \in batValid' <=> GoodBat(t)
                      /\ t \in batValid' => b = img.bats[t]
  BY <1>1, <1>3, GoodStays DEF JudgedBat
<1>6. CASE Readable(3 + t)
  <2>1. b = img.bats[t] /\ sums = Computed BY <1>6
  <2>2. DOMAIN b.fat = 0..(FatSize - 1) /\ b.freeblocks \in Nat
    BY <2>1, ImagesAssumption DEF TableIdx
  <2>3. free = Zeros(b.fat, totalUser) BY <1>2, <1>5, <2>2, CountsExactly
  <2>4. Zeros(b.fat, totalUser) <= totalUser BY <2>2, ZerosBounded
  <2> HIDE DEF b, sums
  <2>5. valid(free) <=> GoodBat(t)
    BY <1>6, <2>1, <2>3, <2>4 DEF GoodBat
  <2> QED BY <1>4, <2>1, <2>5
<1>7. CASE ~ Readable(3 + t)
  <2>1. b.stored # sums
    BY <1>7 DEF Fresh, FilledBat, Zeroed, Impossible
  <2>2. ~ GoodBat(t) BY <1>7 DEF GoodBat
  <2> QED BY <1>4, <2>1, <2>2
<1> QED BY <1>6, <1>7

\* The tables of the other index are left alone.
LEMMA OtherKept ==
    ASSUME NEW t \in TableIdx, NEW o \in TableIdx, o # t, Tables, LoadTables(t)
    PROVE  /\ Fresh(o) => Fresh(o)'
           /\ Judged(o) => Judged(o)'
<1>1. /\ dat'[o] = dat[o] /\ bat'[o] = bat[o]
      /\ datSum'[o] = datSum[o] /\ batSum'[o] = batSum[o]
      /\ img' = img /\ totalUser' = totalUser
  BY DEF LoadTables, Tables
<1>2. (o \in datValid' <=> o \in datValid) /\ (o \in batValid' <=> o \in batValid)
  BY DEF LoadTables
<1> QED BY <1>1, <1>2, GoodStays DEF Fresh, Judged, JudgedDat, JudgedBat

LEMMA LoadTablesStep ==
    ASSUME TablesInv, NEW t \in TableIdx, LoadTables(t)
    PROVE  TablesInv'
<1>1. /\ type = "GCN" /\ HeadReadable /\ Fresh(t) /\ totalUser \in Nat /\ Tables
      /\ img \in Images
  BY DEF LoadTables, TablesInv, TableIdx
<1>2. Judged(t)' BY <1>1, LoadedDat, LoadedBat DEF Judged
<1>3. Tables' BY <1>1 DEF LoadTables, Tables
<1>4. img' = img /\ type' = type /\ totalUser' = totalUser BY DEF LoadTables
<1>5. HeadReadable' BY <1>1, <1>4, GoodStays
<1>6. CASE t = 0
  <2>1. phase' = "tables1" BY <1>6 DEF LoadTables
  <2>2. Fresh(1) BY <1>6 DEF LoadTables, TablesInv
  <2>3. Fresh(1)' BY <1>1, <1>6, <2>2, OtherKept DEF TableIdx
  <2> QED BY <1>1, <1>2, <1>3, <1>4, <1>5, <1>6, <2>1, <2>3
          DEF TablesInv, SelectedTablesWereRead
<1>7. CASE t = 1
  <2>1. phase' = "check" BY <1>7 DEF LoadTables
  <2>2. Judged(0) BY <1>7 DEF LoadTables, TablesInv
  <2>3. Judged(0)' BY <1>1, <1>7, <2>2, OtherKept DEF TableIdx
  <2> QED BY <1>1, <1>2, <1>3, <1>4, <1>7, <2>1, <2>3
          DEF TablesInv, SelectedTablesWereRead
<1> QED BY <1>6, <1>7 DEF TableIdx

-----------------------------------------------------------------------------
(* checkTables() and the other steps *)

LEMMA ChoiceIsValid ==
    ASSUME NEW newer \in TableIdx, NEW valid
    PROVE  LET c == Choice(newer, valid)
           IN  \/ c \in TableIdx /\ c \in valid
               \/ c = -1 /\ 0 \notin valid /\ 1 \notin valid
BY DEF Choice, TableIdx

LEMMA CheckTablesStep ==
    ASSUME TablesInv, CheckTables
    PROVE  TablesInv'
<1>1. /\ type = "GCN" /\ Judged(0) /\ Judged(1) /\ totalUser \in Nat /\ Tables
      /\ img \in Images
  BY DEF CheckTables, TablesInv
<1>2. /\ active' = <<Choice(Newer(dat), datValid), Choice(Newer(bat), batValid)>>
      /\ phase' = "shown"
      /\ freeBlocks' = bat[IF active'[2] = -1 THEN 0 ELSE active'[2]].freeblocks
      /\ img' = img /\ type' = type /\ totalUser' = totalUser
      /\ dat' = dat /\ bat' = bat /\ datSum' = datSum /\ batSum' = batSum
  BY DEF CheckTables, Shown
<1>3. PICK d \in {-1, 0, 1} :
          /\ d = Choice(Newer(dat), datValid)
          /\ \/ d \in TableIdx /\ d \in datValid
             \/ d = -1 /\ 0 \notin datValid /\ 1 \notin datValid
  BY ChoiceIsValid DEF Newer, TableIdx
<1>4. PICK b \in {-1, 0, 1} :
          /\ b = Choice(Newer(bat), batValid)
          /\ \/ b \in TableIdx /\ b \in batValid
             \/ b = -1 /\ 0 \notin batValid /\ 1 \notin batValid
  BY ChoiceIsValid DEF Newer, TableIdx
<1>5. active'[1] = d /\ active'[2] = b BY <1>2, <1>3, <1>4
<1>6. IF d = -1 THEN \A t \in TableIdx : ~ GoodDat(t)
      ELSE GoodDat(d) /\ dat[d] = img.dats[d]
  <2>1. \A t \in TableIdx : JudgedDat(t) BY <1>1 DEF Judged, TableIdx
  <2> QED BY <1>3, <2>1 DEF JudgedDat, TableIdx
<1>7. totalUser <= FatSize =>
      IF b = -1 THEN \A t \in TableIdx : ~ GoodBat(t)
      ELSE GoodBat(b) /\ bat[b] = img.bats[b]
  <2>1. \A t \in TableIdx : JudgedBat(t) BY <1>1 DEF Judged, TableIdx
  <2> QED BY <1>4, <2>1 DEF JudgedBat, TableIdx
<1>8. SelectedTablesWereRead'
  <2>1. IF d = -1 THEN \A t \in TableIdx : ~ GoodDat(t)'
        ELSE GoodDat(d)' /\ dat'[d] = img'.dats[d]
    BY <1>2, <1>6, GoodStays
  <2>2. totalUser' <= FatSize =>
        IF b = -1 THEN \A t \in TableIdx : ~ GoodBat(t)'
        ELSE GoodBat(b)' /\ freeBlocks' = img'.bats[b].freeblocks
    BY <1>2, <1>5, <1>7, GoodStays
  <2> QED BY <1>2, <1>5, <2>1, <2>2 DEF SelectedTablesWereRead
<1> QED BY <1>1, <1>2, <1>8 DEF TablesInv, Tables

LEMMA OpenStep ==
    ASSUME TablesInv, NEW ty \in TypesOf(img), Open(ty)
    PROVE  TablesInv'
<1>1. /\ img' = img /\ type' = ty /\ phase' = "head" /\ Cleared
      /\ totalUser' = IF ty = "GCN" /\ totalPhys' > 5 THEN totalPhys' - 5 ELSE 0
  BY DEF Open
<1>2. img.units \in Nat BY ImagesAssumption DEF TablesInv
<1>3. totalPhys' \in Int
  BY <1>2, CardLoadAssumption DEF Open, Blocks, HeaderUnits
<1>4. totalUser' \in Nat
  <2>1. PICK p \in Int : p = totalPhys' BY <1>3
  <2>2. CASE p > 5
    <3>1. p - 5 \in Nat BY <2>2
    <3> QED BY <1>1, <2>1, <3>1
  <2>3. CASE ~ (p > 5) BY <1>1, <2>1, <2>3
  <2> QED BY <2>2, <2>3
<1>5. Tables' /\ Fresh(0)' /\ Fresh(1)'
  BY <1>1 DEF Cleared, Tables, Fresh, TableIdx
<1> QED BY <1>1, <1>4, <1>5 DEF TablesInv, SelectedTablesWereRead

\* A header that cannot be read leaves no table of the file good, and none
\* valid.
LEMMA HeaderStep ==
    ASSUME TablesInv, LoadGcnHeader
    PROVE  TablesInv'
<1>1. /\ type = "GCN" /\ type' = type /\ img' = img /\ totalUser' = totalUser
      /\ totalUser \in Nat /\ img \in Images /\ Tables /\ Fresh(0) /\ Fresh(1)
  BY DEF LoadGcnHeader, TablesInv
<1>2. /\ datSum' = datSum /\ batSum' = batSum
      /\ datValid' = datValid /\ batValid' = batValid
  BY DEF LoadGcnHeader, GcnShortHeader, GcnHeader
<1>3. Fresh(0)' /\ Fresh(1)' BY <1>1, <1>2 DEF Fresh
<1>4. Tables' BY <1>1, <1>2 DEF LoadGcnHeader, GcnShortHeader, GcnHeader, Tables
<1>5. CASE GcnShortHeader
  <2>1. phase' = "check" /\ ~ HeadReadable BY <1>5 DEF GcnShortHeader
  <2>2. ~ HeadReadable' BY <1>1, <2>1, GoodStays
  <2>3. Judged(0)' /\ Judged(1)'
    BY <1>3, <2>2 DEF Judged, JudgedDat, JudgedBat, Fresh, GoodDat, GoodBat
  <2> QED BY <1>1, <1>4, <2>1, <2>3 DEF TablesInv, SelectedTablesWereRead
<1>6. CASE GcnHeader
  <2>1. phase' = "tables0" /\ HeadReadable BY <1>6 DEF GcnHeader
  <2>2. HeadReadable' BY <1>1, <2>1, GoodStays
  <2> QED BY <1>1, <1>3, <1>4, <2>1, <2>2 DEF TablesInv, SelectedTablesWereRead
<1> QED BY <1>5, <1>6 DEF LoadGcnHeader

\* A step to another image type, or to no card, has nothing to say.
LEMMA OtherPhases ==
    ASSUME TablesInv, img' = img, type' # "GCN",
           \/ phase' \in {"closed", "shown", "crashed"}
           \/ phase' = "dir" /\ type' = "VMS"
    PROVE  TablesInv'
BY DEF TablesInv, SelectedTablesWereRead

LEMMA TablesStep ==
    ASSUME TablesInv, [Next]_vars
    PROVE  TablesInv'
<1>1. ASSUME NEW ty \in TypesOf(img), Open(ty) PROVE TablesInv'
  BY <1>1, OpenStep
<1>2. CASE LoadGcnHeader BY <1>2, HeaderStep
<1>3. ASSUME NEW t \in TableIdx, LoadTables(t) PROVE TablesInv'
  BY <1>3, LoadTablesStep
<1>4. CASE CheckTables BY <1>4, CheckTablesStep
<1>5. CASE LoadVmuFat
  BY <1>5, OtherPhases DEF LoadVmuFat, VmuFails, Shown, VmuRest
<1>6. CASE LoadVmuDir
  <2>1. type = "VMS" BY <1>6 DEF LoadVmuDir, TablesInv
  <2> QED BY <1>6, <2>1, OtherPhases
          DEF LoadVmuDir, VmuFails, VmuCrash, Shown, VmuRest
<1>7. CASE LoadGci
  BY <1>7, OtherPhases DEF LoadGci, Shown
<1>8. CASE Close \/ Restart
  BY <1>8, OtherPhases DEF Close, Restart, NoCardOpen
<1>9. CASE UNCHANGED vars
  BY <1>9 DEF vars, sizeVars, tableVars, TablesInv, SelectedTablesWereRead, Tables,
              Fresh, Judged, JudgedDat, JudgedBat, GoodDat, GoodBat, HeadReadable,
              Readable, InFile
<1> QED BY <1>1, <1>2, <1>3, <1>4, <1>5, <1>6, <1>7, <1>8, <1>9 DEF Next

\* What GcnCard puts in place of a table it cannot read never passes for one:
\* the table in use is one the file has, whole and with its checksum, and none
\* is in use only if the file has none.
THEOREM SelectedTables == Spec => []SelectedTablesWereRead
<1>1. Init => TablesInv BY DEF Init, TablesInv, SelectedTablesWereRead
<1>2. TablesInv /\ [Next]_vars => TablesInv' BY TablesStep
<1>3. TablesInv => SelectedTablesWereRead BY DEF TablesInv
<1> QED BY <1>1, <1>2, <1>3, PTL DEF Spec

-----------------------------------------------------------------------------
(* Functions defined from one number to the next *)

\* Of the numbers that have a property, one is the least.
LEMMA Least ==
    ASSUME NEW T, T \subseteq Nat, T # {}
    PROVE  \E n \in T : \A m \in T : n <= m
<1>1. \E n \in T : \A m \in T : ~(<<m, n>> \in OpToRel(<, Nat))
  BY WFMin, NatLessThanWellFounded, Zenon
<1>2. PICK n \in T : \A m \in T : ~(m < n)
  BY <1>1 DEF OpToRel
<1> QED BY <1>2

Steps == [Nat -> Nat]

\* The first n numbers that come from a by a step over and over.
Walk(g, n, a, step) ==
    /\ g \in [1..n -> Nat]
    /\ \A m \in 1..n : g[m] = IF m = 1 THEN a ELSE step[g[m - 1]]

LEMMA WalkExists ==
    ASSUME NEW a \in Nat, NEW step \in Steps
    PROVE  \A n \in Nat : \E g : Walk(g, n, a, step)
<1> DEFINE T == {n \in Nat : ~ \E g : Walk(g, n, a, step)}
<1>1. SUFFICES ASSUME T # {} PROVE FALSE OBVIOUS
<1>2. PICK n \in T : \A m \in T : n <= m BY <1>1, Least
<1>3. CASE n = 0
  <2>1. 1..0 = {} OBVIOUS
  <2>2. Walk(<<>>, 0, a, step) BY <2>1 DEF Walk
  <2> QED BY <1>2, <1>3, <2>2
<1>4. CASE n # 0
  <2>1. n \in Nat /\ n - 1 \in Nat BY <1>4
  <2>2. n - 1 \notin T BY <1>2, <2>1
  <2>3. PICK g : Walk(g, n - 1, a, step) BY <2>1, <2>2
  <2> DEFINE b == IF n = 1 THEN a ELSE step[g[n - 1]]
             h == [m \in 1..n |-> IF m = n THEN b ELSE g[m]]
  <2>4. b \in Nat
    <3>1. CASE n = 1 BY <3>1
    <3>2. CASE n # 1
      <4>1. n - 1 \in 1..(n - 1) BY <2>1, <3>2
      <4>2. g[n - 1] \in Nat BY <2>3, <4>1 DEF Walk
      <4> QED BY <3>2, <4>2 DEF Steps
    <3> QED BY <3>1, <3>2
  <2>5. ASSUME NEW m \in 1..n, m # n PROVE m \in 1..(n - 1)
    BY <2>1, <2>5
  <2>6. h \in [1..n -> Nat]
    <3>1. ASSUME NEW m \in 1..n PROVE (IF m = n THEN b ELSE g[m]) \in Nat
      <4>1. CASE m = n BY <4>1, <2>4
      <4>2. CASE m # n BY <4>2, <2>5, <2>3 DEF Walk
      <4> QED BY <4>1, <4>2
    <3> QED BY <3>1
  <2>7. ASSUME NEW m \in 1..n
        PROVE  h[m] = IF m = 1 THEN a ELSE step[h[m - 1]]
    <3>1. m # 1 => m - 1 \in 1..n /\ m - 1 # n
      BY <2>1
    <3>2. m # 1 => h[m - 1] = g[m - 1] BY <3>1
    <3>3. CASE m = n BY <3>2, <3>3
    <3>4. CASE m # n
      <4>1. h[m] = g[m] BY <3>4
      <4>2. g[m] = IF m = 1 THEN a ELSE step[g[m - 1]]
        BY <2>3, <2>5, <3>4 DEF Walk
      <4> QED BY <4>1, <4>2, <3>2
    <3> QED BY <3>3, <3>4
  <2>8. Walk(h, n, a, step)
    <3> HIDE DEF h
    <3> QED BY <2>6, <2>7 DEF Walk
  <2> QED BY <2>8
<1> QED BY <1>3, <1>4

\* Two walks from a number agree as far as both go.
LEMMA WalksAgree ==
    ASSUME NEW a \in Nat, NEW step \in Steps, NEW n \in Nat, NEW k \in Nat,
           NEW g, NEW h, Walk(g, n, a, step), Walk(h, k, a, step), n <= k
    PROVE  \A m \in 1..n : g[m] = h[m]
<1> DEFINE T == {m \in 1..n : g[m] # h[m]}
<1>1. SUFFICES ASSUME T # {} PROVE FALSE OBVIOUS
<1>2. PICK m \in T : \A q \in T : m <= q
  <2>1. T \subseteq Nat OBVIOUS
  <2> QED BY <1>1, <2>1, Least
<1>3. m \in 1..n /\ m \in 1..k BY <1>2
<1>4. /\ g[m] = IF m = 1 THEN a ELSE step[g[m - 1]]
      /\ h[m] = IF m = 1 THEN a ELSE step[h[m - 1]]
  BY <1>3 DEF Walk
<1>5. CASE m = 1 BY <1>4, <1>5
<1>6. CASE m # 1
  <2>1. m - 1 \in 1..n /\ ~(m <= m - 1) BY <1>3, <1>6
  <2>2. g[m - 1] = h[m - 1] BY <1>2, <2>1
  <2> QED BY <1>4, <1>6, <2>2
<1> QED BY <1>5, <1>6

\* A start and a step make a function of all counts.
LEMMA Iterates ==
    ASSUME NEW a \in Nat, NEW step \in Steps
    PROVE  \E f \in [Nat \ {0} -> Nat] :
               \A n \in Nat \ {0} : f[n] = IF n = 1 THEN a ELSE step[f[n - 1]]
<1> DEFINE G(n) == CHOOSE g : Walk(g, n, a, step)
           f == [n \in Nat \ {0} |-> G(n)[n]]
<1>1. ASSUME NEW n \in Nat PROVE Walk(G(n), n, a, step)
  BY WalkExists
<1> HIDE DEF G
<1>2. f \in [Nat \ {0} -> Nat]
  <2>1. ASSUME NEW n \in Nat \ {0} PROVE G(n)[n] \in Nat
    <3>1. n \in 1..n OBVIOUS
    <3> QED BY <1>1, <3>1 DEF Walk
  <2> QED BY <2>1
<1>3. ASSUME NEW n \in Nat \ {0}
      PROVE  f[n] = IF n = 1 THEN a ELSE step[f[n - 1]]
  <2>1. n \in Nat /\ n \in 1..n /\ f[n] = G(n)[n] OBVIOUS
  <2>2. G(n)[n] = IF n = 1 THEN a ELSE step[G(n)[n - 1]]
    BY <1>1, <2>1 DEF Walk
  <2>3. ASSUME n # 1 PROVE f[n - 1] = G(n)[n - 1]
    <3>1. n - 1 \in Nat \ {0} /\ n - 1 \in Nat /\ n - 1 <= n /\ n - 1 \in 1..(n - 1)
      BY <2>3
    <3>2. f[n - 1] = G(n - 1)[n - 1] BY <3>1
    <3>3. Walk(G(n - 1), n - 1, a, step) BY <1>1, <3>1
    <3>4. Walk(G(n), n, a, step) BY <1>1, <2>1
    <3>5. PICK g, h : g = G(n - 1) /\ h = G(n) OBVIOUS
    <3> HIDE DEF f
    <3>6. Walk(g, n - 1, a, step) /\ Walk(h, n, a, step) BY <3>3, <3>4, <3>5
    <3>7. \A m \in 1..(n - 1) : g[m] = h[m]
      BY <3>1, <3>6, <2>1, WalksAgree
    <3> QED BY <3>1, <3>2, <3>5, <3>7
  <2> HIDE DEF f
  <2> QED BY <2>1, <2>2, <2>3
<1> HIDE DEF f
<1> QED BY <1>2, <1>3

-----------------------------------------------------------------------------
(* The blocks of a chain, and powers of two *)

Table == [0..(VmuBlocks - 1) -> Nat]

\* Every block read leads to a block number.
LEMMA Onward ==
    ASSUME NEW fat \in Table, NEW b \in Nat
    PROVE  fat[b % VmuBlocks] \in Nat
<1>1. VmuBlocks \in Nat /\ VmuBlocks > 0 BY CardLoadAssumption
<1>2. b % VmuBlocks \in 0..(VmuBlocks - 1) BY <1>1
<1> QED BY <1>2 DEF Table

\* The blocks that follow one another from block a.
Follows(f, a, fat) ==
    f = [n \in Nat \ {0} |-> IF n = 1 THEN a ELSE fat[f[n - 1] % VmuBlocks]]

LEMMA FollowsExists ==
    ASSUME NEW a \in Nat, NEW fat \in Table
    PROVE  \E f : Follows(f, a, fat)
<1> DEFINE step == [b \in Nat |-> fat[b % VmuBlocks]]
<1>1. step \in Steps BY Onward DEF Steps
<1> HIDE DEF step
<1>2. PICK f \in [Nat \ {0} -> Nat] :
          \A n \in Nat \ {0} : f[n] = IF n = 1 THEN a ELSE step[f[n - 1]]
  BY <1>1, Iterates
<1>3. ASSUME NEW n \in Nat \ {0}
      PROVE  f[n] = IF n = 1 THEN a ELSE fat[f[n - 1] % VmuBlocks]
  <2>1. CASE n = 1 BY <2>1, <1>2
  <2>2. CASE n # 1
    <3>1. n - 1 \in Nat \ {0} BY <2>2
    <3>2. f[n - 1] \in Nat BY <3>1, <1>2
    <3>3. f[n] = step[f[n - 1]] BY <2>2, <1>2
    <3> QED BY <2>2, <3>2, <3>3 DEF step
  <2> QED BY <2>1, <2>2
<1>4. f = [n \in Nat \ {0} |-> f[n]] OBVIOUS
<1>5. [n \in Nat \ {0} |-> f[n]]
        = [n \in Nat \ {0} |-> IF n = 1 THEN a ELSE fat[f[n - 1] % VmuBlocks]]
  BY <1>3
<1> QED BY <1>4, <1>5 DEF Follows

\* They are block numbers, the first is a and each next one is in the table.
LEMMA FollowsRule ==
    ASSUME NEW a \in Nat, NEW fat \in Table, NEW f, Follows(f, a, fat)
    PROVE  /\ f[1] = a
           /\ \A n \in Nat \ {0} : f[n] \in Nat /\ f[n + 1] = fat[f[n] % VmuBlocks]
<1>1. ASSUME NEW n \in Nat \ {0}
      PROVE  f[n] = IF n = 1 THEN a ELSE fat[f[n - 1] % VmuBlocks]
  BY DEF Follows
<1>2. f[1] = a BY <1>1
<1> DEFINE T == {n \in Nat \ {0} : f[n] \notin Nat}
<1>3. T = {}
  <2>1. SUFFICES ASSUME T # {} PROVE FALSE OBVIOUS
  <2>2. T \subseteq Nat OBVIOUS
  <2>3. PICK n \in T : \A m \in T : n <= m BY <2>1, <2>2, Least
  <2>4. n # 1 BY <1>2
  <2>5. n - 1 \in Nat \ {0} /\ ~(n <= n - 1) BY <2>4
  <2>6. f[n - 1] \in Nat BY <2>3, <2>5
  <2>7. f[n] = fat[f[n - 1] % VmuBlocks] BY <1>1, <2>4
  <2>8. f[n] \in Nat BY <2>6, <2>7, Onward
  <2> QED BY <2>8
<1>4. ASSUME NEW n \in Nat \ {0}
      PROVE  f[n] \in Nat /\ f[n + 1] = fat[f[n] % VmuBlocks]
  <2>1. f[n] \in Nat BY <1>3
  <2>2. n + 1 \in Nat \ {0} /\ n + 1 # 1 /\ (n + 1) - 1 = n OBVIOUS
  <2>3. f[n + 1] = fat[f[(n + 1) - 1] % VmuBlocks] BY <1>1, <2>2
  <2> QED BY <2>1, <2>2, <2>3
<1> QED BY <1>2, <1>4

\* A set that has with a number all those before it is their first ones.
LEMMA InitialSegment ==
    ASSUME NEW k \in Nat, NEW S, S \subseteq 1..k,
           \A n \in S : \A m \in 1..n : m \in S
    PROVE  Cardinality(S) \in Nat /\ Cardinality(S) <= k /\ S = 1..Cardinality(S)
<1> DEFINE T == {n \in 1..(k + 1) : n \notin S}
<1>1. k + 1 \in T OBVIOUS
<1>2. T \subseteq Nat OBVIOUS
<1>3. PICK n \in T : \A m \in T : n <= m BY <1>1, <1>2, Least
<1>4. S = 1..(n - 1)
  <2>1. ASSUME NEW m \in S PROVE m \in 1..(n - 1)
    <3>1. m \in 1..k /\ n \in Nat /\ n >= 1 OBVIOUS
    <3>2. ~(n <= m)
      <4>1. SUFFICES ASSUME n <= m PROVE FALSE OBVIOUS
      <4>2. n \in 1..m BY <3>1, <4>1
      <4>3. n \in S BY <4>2
      <4> QED BY <4>3
    <3> QED BY <3>1, <3>2
  <2>2. ASSUME NEW m \in 1..(n - 1) PROVE m \in S
    <3>1. m \in 1..(k + 1) /\ ~(n <= m) OBVIOUS
    <3> QED BY <3>1, <1>3
  <2> QED BY <2>1, <2>2
<1>5. n - 1 \in Nat /\ n - 1 <= k BY <1>3
<1>6. Cardinality(1..(n - 1)) = n - 1
  <2>1. 1 \in Int /\ n - 1 \in Int BY <1>5
  <2>2. Cardinality(1..(n - 1)) = IF 1 > n - 1 THEN 0 ELSE (n - 1) - 1 + 1
    BY <2>1, FS_Interval
  <2> QED BY <1>5, <2>2
<1> QED BY <1>4, <1>5, <1>6

\* The powers of two begin with 1 and double.
LEMMA Powers ==
    /\ PowerOf2[0] = 1
    /\ \A n \in Nat : PowerOf2[n] \in Nat \ {0} /\ PowerOf2[n + 1] = 2 * PowerOf2[n]
<1> DEFINE IsIt(p) == p = [k \in Nat |-> IF k = 0 THEN 1 ELSE 2 * p[k - 1]]
           step == [x \in Nat |-> 2 * x]
<1>1. step \in Steps BY DEF Steps
<1>2. PICK f \in [Nat \ {0} -> Nat] :
          \A n \in Nat \ {0} : f[n] = IF n = 1 THEN 1 ELSE step[f[n - 1]]
  <2> HIDE DEF step
  <2> QED BY <1>1, Iterates
<1> DEFINE p == [k \in Nat |-> f[k + 1]]
<1>3. ASSUME NEW k \in Nat PROVE f[k + 1] = IF k = 0 THEN 1 ELSE 2 * p[k - 1]
  <2>1. CASE k = 0
    <3>1. k + 1 = 1 BY <2>1
    <3>2. 1 \in Nat \ {0} OBVIOUS
    <3>3. f[1] = 1 BY <1>2, <3>2, Zenon
    <3>4. f[k + 1] = 1 BY <3>1, <3>3
    <3> QED BY <2>1, <3>4, Zenon
  <2>2. CASE k # 0
    <3>1. k + 1 \in Nat \ {0} /\ k + 1 # 1 /\ (k + 1) - 1 = k BY <2>2
    <3>2. f[k + 1] = step[f[k]] BY <3>1, <1>2
    <3>3. f[k] \in Nat BY <2>2, <1>2
    <3>4. k - 1 \in Nat /\ (k - 1) + 1 = k BY <2>2
    <3>5. p[k - 1] = f[k] BY <3>4
    <3>6. step[f[k]] = 2 * f[k] BY <3>3
    <3> HIDE DEF p, step
    <3>7. f[k + 1] = 2 * p[k - 1] BY <3>2, <3>5, <3>6
    <3> QED BY <2>2, <3>7, Zenon
  <2> QED BY <2>1, <2>2
<1>4. p = [k \in Nat |-> IF k = 0 THEN 1 ELSE 2 * p[k - 1]]
  <2>1. p = [k \in Nat |-> f[k + 1]] OBVIOUS
  <2>2. PICK q : q = p OBVIOUS
  <2>3. ASSUME NEW k \in Nat PROVE f[k + 1] = IF k = 0 THEN 1 ELSE 2 * q[k - 1]
    BY <1>3, <2>2
  <2> HIDE DEF p
  <2> QED BY <2>1, <2>2, <2>3
<1>5. IsIt(PowerOf2)
  <2>1. PowerOf2 = CHOOSE q : IsIt(q) BY DEF PowerOf2
  <2> HIDE DEF p
  <2>2. \E q : IsIt(q) BY <1>4
  <2> HIDE DEF IsIt
  <2> QED BY <2>1, <2>2
<1>6. ASSUME NEW n \in Nat
      PROVE  PowerOf2[n] = IF n = 0 THEN 1 ELSE 2 * PowerOf2[n - 1]
  <2>1. PICK q : q = PowerOf2 OBVIOUS
  <2>2. q = [k \in Nat |-> IF k = 0 THEN 1 ELSE 2 * q[k - 1]] BY <1>5, <2>1
  <2>3. q[n] = IF n = 0 THEN 1 ELSE 2 * q[n - 1] BY <2>2
  <2> QED BY <2>1, <2>3
<1> DEFINE T == {n \in Nat : PowerOf2[n] \notin Nat \ {0}}
<1>7. T = {}
  <2>1. SUFFICES ASSUME T # {} PROVE FALSE OBVIOUS
  <2>2. T \subseteq Nat OBVIOUS
  <2>3. PICK n \in T : \A m \in T : n <= m BY <2>1, <2>2, Least
  <2>4. n # 0 BY <1>6
  <2>5. n - 1 \in Nat /\ ~(n <= n - 1) BY <2>4
  <2>6. PowerOf2[n - 1] \in Nat \ {0} BY <2>3, <2>5
  <2>7. PowerOf2[n] = 2 * PowerOf2[n - 1] BY <1>6, <2>4
  <2>8. PowerOf2[n] \in Nat \ {0} BY <2>6, <2>7
  <2> QED BY <2>8
<1>8. ASSUME NEW n \in Nat
      PROVE  PowerOf2[n] \in Nat \ {0} /\ PowerOf2[n + 1] = 2 * PowerOf2[n]
  <2>1. PowerOf2[n] \in Nat \ {0} BY <1>7
  <2>2. n + 1 \in Nat /\ n + 1 # 0 /\ (n + 1) - 1 = n OBVIOUS
  <2>3. PowerOf2[n + 1] = 2 * PowerOf2[(n + 1) - 1] BY <1>6, <2>2
  <2> QED BY <2>1, <2>2, <2>3
<1>9. PowerOf2[0] = 1 BY <1>6
<1> QED BY <1>8, <1>9

\* A power of two is a multiple of those before it.
LEMMA PowersDivide ==
    ASSUME NEW j \in Nat, NEW k \in Nat, j <= k
    PROVE  \E q \in Nat \ {0} : PowerOf2[k] = q * PowerOf2[j]
<1> DEFINE Is(n) == \E q \in Nat \ {0} : PowerOf2[n] = q * PowerOf2[j]
           T == {n \in Nat : j <= n /\ ~ Is(n)}
<1>1. SUFFICES ASSUME T # {} PROVE FALSE OBVIOUS
<1>2. T \subseteq Nat OBVIOUS
<1>3. PICK n \in T : \A m \in T : n <= m BY <1>1, <1>2, Least
<1>4. PowerOf2[j] \in Nat \ {0} BY Powers
<1>5. CASE n = j
  <2>1. PowerOf2[n] = 1 * PowerOf2[j] BY <1>4, <1>5
  <2> QED BY <2>1
<1>6. CASE n # j
  <2>1. n - 1 \in Nat /\ j <= n - 1 /\ ~(n <= n - 1) /\ (n - 1) + 1 = n BY <1>6
  <2>2. n - 1 \notin T BY <1>3, <2>1
  <2>3. Is(n - 1) BY <2>1, <2>2
  <2>4. PICK q \in Nat \ {0} : PowerOf2[n - 1] = q * PowerOf2[j] BY <2>3
  <2>5. PowerOf2[n] = 2 * PowerOf2[n - 1] BY <2>1, Powers
  <2>6. 2 * (q * PowerOf2[j]) = (2 * q) * PowerOf2[j] BY <1>4
  <2>7. 2 * q \in Nat \ {0} OBVIOUS
  <2>8. Is(n) BY <2>4, <2>5, <2>6, <2>7
  <2> QED BY <2>8
<1> QED BY <1>5, <1>6

\* They grow.
LEMMA PowersGrow ==
    ASSUME NEW j \in Nat, NEW k \in Nat, PowerOf2[j] <= PowerOf2[k]
    PROVE  j <= k
<1>1. SUFFICES ASSUME k < j PROVE FALSE OBVIOUS
<1>2. k + 1 \in Nat /\ k + 1 <= j BY <1>1
<1>3. PICK q \in Nat \ {0} : PowerOf2[j] = q * PowerOf2[k + 1] BY <1>2, PowersDivide
<1>4. PowerOf2[k + 1] = 2 * PowerOf2[k] /\ PowerOf2[k] \in Nat \ {0} BY Powers
<1>5. PICK x \in Nat \ {0} : x = PowerOf2[k] BY <1>4
<1>6. q * (2 * x) >= 2 * x BY <1>5
<1> QED BY <1>3, <1>4, <1>5, <1>6

\* A file of a size that is a power of two, and not shorter than a block, is
\* whole blocks.
LEMMA WholeBlocks ==
    ASSUME NEW u \in Nat, IsPow2(u), u \div BlockUnits >= 1
    PROVE  u = (u \div BlockUnits) * BlockUnits
<1>1. BlockUnits \in Nat \ {0} BY CardLoadAssumption
<1>2. PICK j \in Nat : BlockUnits = PowerOf2[j]
  BY <1>1, BlockSizeAssumption DEF IsPow2
<1>3. PICK k \in Nat : u = PowerOf2[k] BY DEF IsPow2
<1>4. BlockUnits <= u BY <1>1
<1>5. j <= k BY <1>2, <1>3, <1>4, PowersGrow
<1>6. PICK q \in Nat \ {0} : u = q * BlockUnits BY <1>2, <1>3, <1>5, PowersDivide
<1>7. (q * BlockUnits) \div BlockUnits = q
  <2>1. PICK B \in Nat \ {0} : B = BlockUnits BY <1>1
  <2>2. (q * B) \div B = q BY <2>1
  <2> QED BY <2>1, <2>2
<1>8. u \div BlockUnits = q BY <1>6, <1>7
<1> QED BY <1>6, <1>8

-----------------------------------------------------------------------------
(* Cards offered for writing *)

\* What the errors say as long as they are not flagged.
WholeTold ==
    /\ type # "GCI" /\ "SZ_TOO_SMALL" \notin errors
    /\ "SZ_TOO_BIG" \notin errors /\ "SZ_NON_POW2" \notin errors
    => img.units = totalPhys * BlockUnits
SizesTold ==
    /\ WholeTold
    /\ type \in {"GCN", "VMS", "GCI"} /\ totalPhys \in Int
    /\ "SZ_TOO_SMALL" \notin errors => totalPhys >= MinBlocks(type)
    /\ "SZ_TOO_BIG" \notin errors => totalPhys <= MaxBlocks(type)
HeadTold ==
    "SHORT_READ" \notin errors =>
        HeadReadable /\ ("INVALID_HEADER" \notin errors => img.header)
TablesTold(t) ==
    "SHORT_READ" \notin errors => Readable(1 + t) /\ Readable(3 + t)
AllTold == HeadTold /\ TablesTold(0) /\ TablesTold(1)

ErrorsInv ==
    /\ img \in Images
    /\ phase # "closed" => SizesTold
    /\ phase \in {"tables0", "tables1", "check"} => type = "GCN" /\ HeadTold
    /\ phase = "tables1" => TablesTold(0)
    /\ phase = "check" => TablesTold(0) /\ TablesTold(1)
    /\ phase = "dir" => type = "VMS"
    /\ chkAllowWrite =>
           /\ phase = "shown" /\ type # "GCI" /\ errors = {}
           /\ type = "GCN" => AllTold /\ active[1] # -1 /\ active[2] # -1

LEMMA ErrorsSayRead == ErrorsInv => OfferedCardsAreRead
<1> SUFFICES ASSUME ErrorsInv, chkAllowWrite
             PROVE  /\ type # "GCI"
                    /\ totalPhys \in MinBlocks(type)..MaxBlocks(type)
                    /\ type = "GCN" =>
                           /\ img.header /\ HeadReadable
                           /\ \A b \in 1..4 : Readable(b)
                           /\ active[1] # -1 /\ active[2] # -1
  BY DEF OfferedCardsAreRead
<1>1. /\ phase = "shown" /\ type # "GCI" /\ errors = {} /\ SizesTold
      /\ type = "GCN" => AllTold /\ active[1] # -1 /\ active[2] # -1
  BY DEF ErrorsInv
<1>2. MinBlocks(type) \in Int /\ MaxBlocks(type) \in Int
  BY <1>1, CardLoadAssumption DEF MinBlocks, MaxBlocks
<1>3. totalPhys \in MinBlocks(type)..MaxBlocks(type)
  BY <1>1, <1>2 DEF SizesTold
<1>4. ASSUME AllTold PROVE img.header /\ HeadReadable /\ \A b \in 1..4 : Readable(b)
  <2>1. img.header /\ HeadReadable BY <1>1, <1>4 DEF AllTold, HeadTold
  <2>2. Readable(1 + 0) /\ Readable(3 + 0) /\ Readable(1 + 1) /\ Readable(3 + 1)
    BY <1>1, <1>4 DEF AllTold, TablesTold
  <2>3. ASSUME NEW b \in 1..4 PROVE Readable(b)
    <3>1. b = 1 + 0 \/ b = 1 + 1 \/ b = 3 + 0 \/ b = 3 + 1 OBVIOUS
    <3> QED BY <2>2, <3>1
  <2> QED BY <2>1, <2>3
<1> QED BY <1>1, <1>3, <1>4

LEMMA ErrorsSayWhole == ErrorsInv => OfferedCardsAreWhole
<1> SUFFICES ASSUME ErrorsInv, chkAllowWrite
             PROVE  img.units = totalPhys * BlockUnits
  BY ErrorsSayRead DEF OfferedCardsAreWhole
<1>1. type # "GCI" /\ errors = {} /\ SizesTold /\ WholeTold
  BY DEF ErrorsInv, SizesTold
<1> QED BY <1>1 DEF WholeTold

\* A step that only adds errors keeps what they say.
LEMMA MoreErrors ==
    ASSUME img' = img, type' = type, totalPhys' = totalPhys, errors \subseteq errors'
    PROVE  /\ SizesTold => SizesTold'
           /\ HeadTold => HeadTold'
           /\ \A t \in TableIdx : TablesTold(t) => TablesTold(t)'
BY DEF SizesTold, WholeTold, HeadTold, TablesTold, HeadReadable, Readable, InFile,
       MinBlocks, MaxBlocks

LEMMA OpenTells ==
    ASSUME ErrorsInv, NEW ty \in TypesOf(img), Open(ty)
    PROVE  ErrorsInv'
<1>1. /\ type' = ty /\ phase' = "head" /\ chkAllowWrite' = FALSE /\ img' = img
      /\ totalPhys' = Blocks(img.units, HeaderUnits(ty))
      /\ filesize' = IF totalPhys' > MaxBlocks(ty) THEN MaxBlocks(ty) * BlockUnits
                     ELSE img.units
      /\ errors' = SizeErrors(ty, totalPhys', filesize')
  BY DEF Open, Cleared
<1>2. ty \in {"GCN", "VMS", "GCI"} BY DEF TypesOf, CheckCardType
<1>3. img.units \in Nat BY ImagesAssumption DEF ErrorsInv
<1>4. totalPhys' \in Int
  BY <1>1, <1>3, CardLoadAssumption DEF Blocks, HeaderUnits
<1>5. MinBlocks(ty) \in Int /\ MaxBlocks(ty) \in Int
  BY CardLoadAssumption DEF MinBlocks, MaxBlocks
<1>6. SizesTold'
  <2>1. PICK p \in Int : p = totalPhys' BY <1>4
  <2>2. PICK size : size = filesize' OBVIOUS
  <2>3. errors' = SizeErrors(ty, p, size) BY <1>1, <2>1, <2>2
  <2>4. "SZ_TOO_SMALL" \notin SizeErrors(ty, p, size) => p >= MinBlocks(ty)
    BY <1>5, <2>1 DEF SizeErrors
  <2>5. "SZ_TOO_BIG" \notin SizeErrors(ty, p, size) => p <= MaxBlocks(ty)
    BY <1>5, <2>1 DEF SizeErrors
  <2>6. MinBlocks(type)' = MinBlocks(ty) /\ MaxBlocks(type)' = MaxBlocks(ty)
    BY <1>1 DEF MinBlocks, MaxBlocks
  <2>7. "SZ_NON_POW2" \notin SizeErrors(ty, p, size) => IsPow2(size)
    BY DEF SizeErrors
  <2>8. ASSUME ty # "GCI", p >= MinBlocks(ty), p <= MaxBlocks(ty), IsPow2(size)
        PROVE  img.units = p * BlockUnits
    <3>1. ~ (p > MaxBlocks(ty)) BY <1>5, <2>1, <2>8
    <3>2. size = img.units BY <1>1, <2>1, <2>2, <3>1
    <3>3. p = img.units \div BlockUnits
      <4>1. HeaderUnits(ty) = 0 BY <2>8 DEF HeaderUnits
      <4>2. ~ (img.units < 0) /\ img.units - 0 = img.units BY <1>3
      <4> QED BY <1>1, <2>1, <4>1, <4>2 DEF Blocks
    <3>4. MinBlocks(ty) >= 1
      BY <1>2, <2>8, CardLoadAssumption DEF MinBlocks
    <3>5. p >= 1 BY <1>5, <2>1, <2>8, <3>4
    <3> QED BY <1>3, <2>8, <3>2, <3>3, <3>5, WholeBlocks
  <2>9. WholeTold'
    <3>1. SUFFICES ASSUME type' # "GCI", "SZ_TOO_SMALL" \notin errors',
                          "SZ_TOO_BIG" \notin errors', "SZ_NON_POW2" \notin errors'
                   PROVE  img'.units = totalPhys' * BlockUnits
      BY DEF WholeTold
    <3>2. ty # "GCI" BY <1>1, <3>1
    <3>3. img.units = p * BlockUnits BY <2>3, <2>4, <2>5, <2>7, <2>8, <3>1, <3>2
    <3> QED BY <1>1, <2>1, <3>3
  <2> QED BY <1>1, <1>2, <1>4, <2>1, <2>3, <2>4, <2>5, <2>6, <2>9 DEF SizesTold
<1> QED BY <1>1, <1>6 DEF ErrorsInv

LEMMA HeaderTells ==
    ASSUME ErrorsInv, LoadGcnHeader
    PROVE  ErrorsInv'
<1>1. /\ type = "GCN" /\ SizesTold /\ img \in Images /\ ~ chkAllowWrite
      /\ phase = "head" /\ img' = img /\ type' = type /\ totalPhys' = totalPhys
      /\ chkAllowWrite' = chkAllowWrite /\ errors \subseteq errors'
  BY DEF LoadGcnHeader, GcnShortHeader, GcnHeader, ErrorsInv
<1>2. SizesTold' BY <1>1, MoreErrors
<1>3. CASE GcnShortHeader
  <2>1. "SHORT_READ" \in errors' /\ phase' = "check" BY <1>3 DEF GcnShortHeader
  <2>2. AllTold' BY <2>1 DEF AllTold, HeadTold, TablesTold
  <2> QED BY <1>1, <1>2, <2>1, <2>2 DEF ErrorsInv, AllTold
<1>4. CASE GcnHeader
  <2>1. /\ HeadReadable /\ phase' = "tables0"
        /\ errors' = errors \cup (IF img.header THEN {} ELSE {"INVALID_HEADER"})
    BY <1>4 DEF GcnHeader
  <2>2. HeadReadable' BY <1>1, <2>1 DEF HeadReadable, InFile
  <2>3. "INVALID_HEADER" \notin errors' => img'.header BY <1>1, <2>1
  <2>4. HeadTold' BY <2>2, <2>3 DEF HeadTold
  <2> QED BY <1>1, <1>2, <2>1, <2>4 DEF ErrorsInv
<1> QED BY <1>3, <1>4 DEF LoadGcnHeader

LEMMA TablesTell ==
    ASSUME ErrorsInv, NEW t \in TableIdx, LoadTables(t)
    PROVE  ErrorsInv'
<1>1. /\ phase = IF t = 0 THEN "tables0" ELSE "tables1"
      /\ phase' = IF t = 0 THEN "tables1" ELSE "check"
      /\ img' = img /\ type' = type /\ totalPhys' = totalPhys
      /\ chkAllowWrite' = chkAllowWrite
      /\ errors' = errors \cup TableErrors(t)
  BY DEF LoadTables
<1>2. type = "GCN" /\ SizesTold /\ HeadTold /\ img \in Images /\ ~ chkAllowWrite
  BY <1>1 DEF ErrorsInv
<1>3. SizesTold' /\ HeadTold' BY <1>1, <1>2, MoreErrors
<1>4. TablesTold(t)'
  BY <1>1 DEF TableErrors, TablesTold, Readable, InFile
<1>5. CASE t = 0 BY <1>1, <1>2, <1>3, <1>4, <1>5 DEF ErrorsInv
<1>6. CASE t = 1
  <2>1. TablesTold(0)' BY <1>1, <1>6, MoreErrors DEF ErrorsInv, TableIdx
  <2> QED BY <1>1, <1>2, <1>3, <1>4, <1>6, <2>1 DEF ErrorsInv
<1> QED BY <1>5, <1>6 DEF TableIdx

LEMMA CheckTells ==
    ASSUME ErrorsInv, CheckTables
    PROVE  ErrorsInv'
<1>1. /\ type = "GCN" /\ SizesTold /\ AllTold /\ img \in Images
      /\ img' = img /\ type' = type /\ totalPhys' = totalPhys
  BY DEF CheckTables, ErrorsInv, AllTold
<1>2. PICK errs, more :
          /\ errs = errors \cup (IF active'[1] = -1 THEN {"INVALID_DATS"} ELSE {})
                           \cup (IF active'[2] = -1 THEN {"INVALID_BATS"} ELSE {})
          /\ errors' = errs \cup more
          /\ phase' = "shown"
          /\ chkAllowWrite' = (errors' = {} /\ type # "GCI")
  <2> DEFINE errs == errors \cup (IF active'[1] = -1 THEN {"INVALID_DATS"} ELSE {})
                            \cup (IF active'[2] = -1 THEN {"INVALID_BATS"} ELSE {})
  <2>1. Shown(errs) \/ Shown(errs \cup {"HEADER_GARBAGE"}) BY DEF CheckTables
  <2> HIDE DEF errs
  <2>2. CASE Shown(errs)
    <3>1. errors' = errs \cup {} BY <2>2 DEF Shown
    <3> QED BY <2>2, <3>1 DEF Shown, errs
  <2>3. CASE Shown(errs \cup {"HEADER_GARBAGE"})
    <3>1. errors' = errs \cup {"HEADER_GARBAGE"} BY <2>3 DEF Shown
    <3> QED BY <2>3, <3>1 DEF Shown, errs
  <2> QED BY <2>1, <2>2, <2>3
<1>3. errors \subseteq errors' BY <1>2
<1>4. SizesTold' /\ HeadTold' /\ TablesTold(0)' /\ TablesTold(1)'
  BY <1>1, <1>3, MoreErrors DEF AllTold, TableIdx
<1>5. ASSUME errors' = {} PROVE active'[1] # -1 /\ active'[2] # -1
  BY <1>2, <1>5
<1> QED BY <1>1, <1>2, <1>4, <1>5 DEF ErrorsInv, AllTold

\* A VMU or a .gci file keeps the errors of its size.
LEMMA OthersTell ==
    ASSUME ErrorsInv, LoadVmuFat \/ LoadVmuDir \/ LoadGci
    PROVE  ErrorsInv'
<1>1. /\ img \in Images /\ SizesTold /\ type \in {"VMS", "GCI"} /\ ~ chkAllowWrite
      /\ img' = img /\ type' = type /\ totalPhys' = totalPhys
  BY DEF LoadVmuFat, LoadVmuDir, LoadGci, VmuRest, ErrorsInv
<1>2. /\ ("SZ_TOO_SMALL" \notin errors' => "SZ_TOO_SMALL" \notin errors)
      /\ ("SZ_TOO_BIG" \notin errors' => "SZ_TOO_BIG" \notin errors)
      /\ (type = "VMS" => errors' = errors)
  BY <1>1 DEF LoadVmuFat, LoadVmuDir, LoadGci, VmuFails, VmuCrash, Shown
<1>3. SizesTold' BY <1>1, <1>2 DEF SizesTold, WholeTold, MinBlocks, MaxBlocks
<1>4. \/ phase' = "dir" /\ type = "VMS" /\ chkAllowWrite' = chkAllowWrite
      \/ phase' = "crashed" /\ chkAllowWrite' = chkAllowWrite
      \/ phase' = "shown" /\ (chkAllowWrite' => errors' = {} /\ type # "GCI")
  BY DEF LoadVmuFat, LoadVmuDir, LoadGci, VmuFails, VmuCrash, Shown
<1> QED BY <1>1, <1>3, <1>4 DEF ErrorsInv

LEMMA ErrorsStep ==
    ASSUME ErrorsInv, [Next]_vars
    PROVE  ErrorsInv'
<1>1. ASSUME NEW ty \in TypesOf(img), Open(ty) PROVE ErrorsInv'
  BY <1>1, OpenTells
<1>2. CASE LoadGcnHeader BY <1>2, HeaderTells
<1>3. ASSUME NEW t \in TableIdx, LoadTables(t) PROVE ErrorsInv'
  BY <1>3, TablesTell
<1>4. CASE CheckTables BY <1>4, CheckTells
<1>5. CASE LoadVmuFat \/ LoadVmuDir \/ LoadGci BY <1>5, OthersTell
<1>6. CASE Close \/ Restart
  BY <1>6 DEF Close, Restart, NoCardOpen, Cleared, ErrorsInv
<1>7. CASE UNCHANGED vars
  BY <1>7 DEF vars, sizeVars, tableVars, ErrorsInv, SizesTold, WholeTold, AllTold, HeadTold,
              TablesTold, HeadReadable, Readable, InFile, MinBlocks, MaxBlocks
<1> QED BY <1>1, <1>2, <1>3, <1>4, <1>5, <1>6, <1>7 DEF Next

\* chkAllowWrite is enabled only for cards of a legal size and of whole
\* blocks, and for a GameCube card only if every system block could be read,
\* its header is right and it has valid tables: no failure on the way is lost
\* before the window looks at the errors.
THEOREM OfferedCards == Spec => []OfferedCardsAreWhole
<1>1. Init => ErrorsInv BY DEF Init, ErrorsInv
<1>2. ErrorsInv /\ [Next]_vars => ErrorsInv' BY ErrorsStep
<1> QED BY <1>1, <1>2, ErrorsSayWhole, PTL DEF Spec

-----------------------------------------------------------------------------
(* What VmuChain() makes of an entry *)

GoodBlock(b) == b < totalUser /\ b # LastInFile
Limit(e) == IF SizeOf(e) < 1 THEN 1 ELSE SizeOf(e)

LEMMA ChainIsGood ==
    ASSUME totalUser \in Nat, img \in Images, NEW e \in img.entries
    PROVE  ChainOf(VmuChain(e), e)
<1> DEFINE link == CHOOSE f : Follows(f, e.address, img.fat)
           S == {n \in 1..Limit(e) : \A m \in 1..n : GoodBlock(link[m])}
           len == Cardinality(S)
<1>1. VmuChain(e) = [n \in 1..len |-> link[n]]
  BY DEF VmuChain, Follows, Limit, GoodBlock
<1>2. e.address \in Nat /\ e.size \in Nat /\ img.fat \in Table
  BY ImagesAssumption DEF Table
<1>3. /\ Limit(e) \in Nat /\ Limit(e) >= 1 /\ (totalUser > 0 => Limit(e) <= totalUser)
      /\ Limit(e) > 1 => Limit(e) <= e.size
      /\ Limit(e) >= e.size \/ Limit(e) >= totalUser
  BY <1>2 DEF Limit, SizeOf
<1>4. Follows(link, e.address, img.fat)
  <2>1. \E f : Follows(f, e.address, img.fat) BY <1>2, FollowsExists
  <2> QED BY <2>1
<1> HIDE DEF link
<1>5. /\ link[1] = e.address
      /\ \A n \in Nat \ {0} : link[n] \in Nat /\ link[n + 1] = img.fat[link[n] % VmuBlocks]
  BY <1>2, <1>4, FollowsRule
<1>6. len \in Nat /\ len <= Limit(e) /\ S = 1..len
  <2>1. S \subseteq 1..Limit(e) OBVIOUS
  <2>2. ASSUME NEW n \in S, NEW m \in 1..n PROVE m \in S
    <3>1. n \in 1..Limit(e) OBVIOUS
    <3>2. m \in 1..Limit(e) BY <3>1, <1>3
    <3>3. \A q \in 1..m : q \in 1..n BY <3>1
    <3> QED BY <3>2, <3>3
  <2> HIDE DEF S
  <2> QED BY <2>1, <2>2, <1>3, InitialSegment
<1>7. ASSUME NEW n \in 1..len PROVE link[n] \in Nat /\ link[n] < totalUser
  <2>1. n \in S /\ n \in 1..n /\ n \in Nat \ {0} BY <1>6
  <2>2. GoodBlock(link[n]) BY <2>1
  <2> QED BY <2>1, <2>2, <1>5 DEF GoodBlock
\* A chain that ends sooner than it may ends before a block that is not good.
<1>8. ASSUME len < Limit(e) PROVE ~ GoodBlock(link[len + 1])
  <2>1. SUFFICES ASSUME GoodBlock(link[len + 1]) PROVE FALSE OBVIOUS
  <2>2. len + 1 \in 1..Limit(e) /\ len + 1 \notin 1..len BY <1>6, <1>8, <1>3
  <2>3. ASSUME NEW m \in 1..(len + 1) PROVE GoodBlock(link[m])
    <3>1. CASE m = len + 1 BY <3>1, <2>1
    <3>2. CASE m # len + 1
      <4>1. m \in 1..len BY <3>2, <1>6
      <4>2. m \in S /\ m \in 1..m BY <4>1, <1>6
      <4> QED BY <4>2
    <3> QED BY <3>1, <3>2
  <2>4. len + 1 \in S BY <2>2, <2>3
  <2> QED BY <2>2, <2>4, <1>6
<1> HIDE DEF S, len
<1>9. len <= totalUser
  <2>1. CASE totalUser > 0 BY <2>1, <1>3, <1>6
  <2>2. CASE totalUser = 0
    <3>1. ASSUME len # 0 PROVE FALSE
      <4>1. 1 \in 1..len BY <3>1, <1>6
      <4> QED BY <4>1, <1>7, <2>2
    <3> QED BY <3>1, <2>2
  <2> QED BY <2>1, <2>2
<1> DEFINE c == VmuChain(e)
<1>10. Len(c) = len
  <2>1. c \in Seq(Nat)
    <3>1. c \in [1..len -> Nat] BY <1>1, <1>7
    <3> HIDE DEF c
    <3> QED BY <3>1, <1>6
  <2>2. DOMAIN c = 1..len BY <1>1
  <2> HIDE DEF c
  <2>3. Len(c) \in Nat /\ DOMAIN c = 1..Len(c) BY <2>1
  <2> QED BY <2>2, <2>3, <1>6
<1>11. ASSUME NEW n \in 1..len PROVE c[n] = link[n]
  BY <1>1
<1> HIDE DEF c
<1>12. ASSUME NEW n \in 1..len
       PROVE  c[n] = IF n = 1 THEN e.address ELSE img.fat[c[n - 1] % VmuBlocks]
  <2>1. CASE n = 1 BY <2>1, <1>5, <1>11
  <2>2. CASE n # 1
    <3>1. n - 1 \in 1..len /\ n - 1 \in Nat \ {0} /\ (n - 1) + 1 = n
      BY <1>6, <2>2
    <3>2. c[n - 1] = link[n - 1] /\ c[n] = link[n] BY <3>1, <1>11
    <3>3. link[(n - 1) + 1] = img.fat[link[n - 1] % VmuBlocks] BY <3>1, <1>5
    <3> QED BY <2>2, <3>1, <3>2, <3>3
  <2> QED BY <2>1, <2>2
<1>13. ASSUME len < e.size, len < totalUser
       PROVE  NextInChain(c, e) >= totalUser \/ NextInChain(c, e) = LastInFile
  <2>1. ~ GoodBlock(link[len + 1]) BY <1>3, <1>6, <1>8, <1>13, <1>2
  <2>2. len + 1 \in Nat \ {0} BY <1>6
  <2>3. link[len + 1] \in Nat BY <2>2, <1>5
  <2>4. NextInChain(c, e) = link[len + 1]
    <3>1. CASE len = 0 BY <3>1, <1>5, <1>10 DEF NextInChain
    <3>2. CASE len # 0
      <4>1. len \in 1..len /\ len \in Nat \ {0} BY <3>2, <1>6
      <4>2. c[len] = link[len] BY <4>1, <1>11
      <4>3. link[len + 1] = img.fat[link[len] % VmuBlocks] BY <4>1, <1>5
      <4> QED BY <3>2, <4>2, <4>3, <1>10 DEF NextInChain
    <3> QED BY <3>1, <3>2
  <2> QED BY <2>1, <2>3, <2>4 DEF GoodBlock
<1>14. len > 1 => len <= e.size BY <1>2, <1>3, <1>6
<1>15. \A n \in 1..len : c[n] < totalUser BY <1>7, <1>11
<1>16. ChainOf(c, e)
  BY <1>9, <1>10, <1>12, <1>13, <1>14, <1>15 DEF ChainOf
<1> QED BY <1>16 DEF c

-----------------------------------------------------------------------------
(* The counts and the files of what is opened *)

\* How many blocks there are, whatever was flagged.
BlocksInv ==
    /\ totalUser \in Nat
    /\ phase # "closed" =>
           /\ totalPhys \in Int
           /\ "SZ_TOO_BIG" \in errors \/ totalPhys <= MaxBlocks(type)
    /\ type = "GCN" => totalUser = 0 \/ totalUser = totalPhys - 5
    /\ type = "VMS" /\ phase # "closed" =>
           totalPhys \in Nat /\ (totalPhys = 0 => img.units < BlockUnits)
    /\ (type = "GCI" /\ phase = "head" /\ HeadReadable) => totalPhys \in Nat
    /\ (phase = "dir" /\ totalUser = 0) => img.root.userBlocks = 0
    /\ phase = "head" => freeBlocks = 0

StayInv ==
    /\ img \in Images /\ BlocksInv
    /\ phase # "closed" => type \in {"GCN", "VMS", "GCI"}
    /\ phase \in {"tables0", "tables1", "check"} => type = "GCN"
    /\ phase = "dir" => type = "VMS"
    /\ chkAllowWrite => phase = "shown" /\ errors = {}
    /\ files # {} => phase = "shown"
    /\ FilesStayOnCard

LEMMA BlocksNat ==
    ASSUME NEW u \in Nat, NEW h \in Nat, u >= h
    PROVE  (u - h) \div BlockUnits \in Nat
<1>1. BlockUnits \in Nat /\ BlockUnits > 0 BY CardLoadAssumption
<1>2. u - h \in Nat OBVIOUS
<1> QED BY <1>1, <1>2

\* Less than a block is no block.
LEMMA NoBlocks ==
    ASSUME NEW u \in Nat, u \div BlockUnits = 0
    PROVE  u < BlockUnits
<1>1. BlockUnits \in Nat /\ BlockUnits > 0 BY CardLoadAssumption
<1>2. PICK B \in Nat : B = BlockUnits /\ B > 0 BY <1>1
<1>3. u \div B = 0 BY <1>2
<1> QED BY <1>2, <1>3

\* A root block that can be read is in a file of at least one block.
LEMMA RootHasBlocks ==
    ASSUME img \in Images, Readable(RootBlock)
    PROVE  ~ (img.units < BlockUnits)
<1>1. BlockUnits \in Nat /\ BlockUnits > 0 /\ VmuBlocks \in Nat /\ VmuBlocks >= 1
  BY CardLoadAssumption
<1>2. img.units \in Nat BY ImagesAssumption
<1>3. VmuBlocks * BlockUnits <= img.units
  <2>1. (VmuBlocks - 1) + 1 = VmuBlocks BY <1>1
  <2> QED BY <2>1 DEF Readable, RootBlock, InFile
<1>4. PICK v \in Nat, B \in Nat : v = VmuBlocks /\ B = BlockUnits /\ v >= 1 BY <1>1
<1>5. v * B >= B BY <1>4
<1>6. v * B \in Nat BY <1>4
<1> QED BY <1>2, <1>3, <1>4, <1>5, <1>6

LEMMA OpenStays ==
    ASSUME StayInv, NEW ty \in TypesOf(img), Open(ty)
    PROVE  StayInv'
<1>1. /\ phase' = "head" /\ type' = ty /\ img' = img
      /\ totalPhys' = Blocks(img.units, HeaderUnits(ty))
      /\ errors' = SizeErrors(ty, totalPhys', filesize')
      /\ totalUser' = IF ty = "GCN" /\ totalPhys' > 5 THEN totalPhys' - 5 ELSE 0
      /\ freeBlocks' = 0 /\ files' = {} /\ overrun' = FALSE /\ chkAllowWrite' = FALSE
  BY DEF Open, Cleared
<1>2. ty \in {"GCN", "VMS", "GCI"} BY DEF TypesOf, CheckCardType
<1>3. img \in Images /\ img.units \in Nat BY ImagesAssumption DEF StayInv
<1>4. totalPhys' \in Int /\ (img.units >= HeaderUnits(ty) => totalPhys' \in Nat)
  <2>1. HeaderUnits(ty) \in Nat BY DEF HeaderUnits
  <2>2. CASE img.units < HeaderUnits(ty) BY <1>1, <1>3, <2>1, <2>2 DEF Blocks
  <2>3. CASE ~ (img.units < HeaderUnits(ty))
    BY <1>1, <1>3, <2>1, <2>3, BlocksNat DEF Blocks
  <2> QED BY <2>2, <2>3
<1>5. ty = "VMS" => totalPhys' \in Nat /\ (totalPhys' = 0 => img.units < BlockUnits)
  <2>1. SUFFICES ASSUME ty = "VMS"
                 PROVE  totalPhys' \in Nat /\ (totalPhys' = 0 => img.units < BlockUnits)
    OBVIOUS
  <2>2. HeaderUnits(ty) = 0 BY <2>1 DEF HeaderUnits
  <2>3. ~ (img.units < 0) /\ img.units - 0 = img.units BY <1>3
  <2>4. totalPhys' = img.units \div BlockUnits BY <1>1, <2>2, <2>3 DEF Blocks
  <2> QED BY <1>3, <1>4, <2>2, <2>4, NoBlocks
<1>6. (ty = "GCI" /\ HeadReadable') => totalPhys' \in Nat
  BY <1>1, <1>3, <1>4 DEF HeaderUnits, HeadReadable, InFile
<1>7. MaxBlocks(ty) \in Int BY CardLoadAssumption DEF MaxBlocks
<1>8. "SZ_TOO_BIG" \in errors' \/ totalPhys' <= MaxBlocks(ty)
  <2>1. PICK p \in Int : p = totalPhys' BY <1>4
  <2>2. PICK size : size = filesize' OBVIOUS
  <2>3. errors' = SizeErrors(ty, p, size) BY <1>1, <2>1, <2>2
  <2>4. "SZ_TOO_BIG" \in SizeErrors(ty, p, size) \/ p <= MaxBlocks(ty)
    BY <1>7, <2>1 DEF SizeErrors
  <2> QED BY <2>1, <2>3, <2>4
<1>9. totalUser' \in Nat
  <2>1. PICK p \in Int : p = totalPhys' BY <1>4
  <2>2. CASE p > 5
    <3>1. p - 5 \in Nat BY <2>2
    <3> QED BY <1>1, <2>1, <3>1
  <2>3. CASE ~ (p > 5) BY <1>1, <2>1, <2>3
  <2> QED BY <2>2, <2>3
<1>10. ty = "GCN" => totalUser' = 0 \/ totalUser' = totalPhys' - 5 BY <1>1
<1>11. ty # "GCN" => freeBlocks' <= totalUser' BY <1>1
<1>12. MaxBlocks(type)' = MaxBlocks(ty) BY <1>1 DEF MaxBlocks
<1>13. BlocksInv'
  BY <1>1, <1>4, <1>5, <1>6, <1>8, <1>9, <1>10, <1>12 DEF BlocksInv
<1>14. FilesStayOnCard' BY <1>1, <1>11 DEF FilesStayOnCard
<1> QED BY <1>1, <1>2, <1>3, <1>13, <1>14 DEF StayInv

\* The bound of a kind of card does not move.
LEMMA BoundKept ==
    ASSUME type' = type
    PROVE  MaxBlocks(type)' = MaxBlocks(type)
BY DEF MaxBlocks

\* More user blocks than the block table has entries are those of an image
\* that is too big.
LEMMA TooManyTold ==
    ASSUME BlocksInv, type = "GCN", phase # "closed", totalUser > FatSize
    PROVE  "SZ_TOO_BIG" \in errors
<1>1. /\ FatSize \in Nat /\ GcnMax \in Nat /\ GcnMax - 5 <= FatSize
      /\ totalPhys \in Int /\ totalUser \in Nat
      /\ totalUser = 0 \/ totalUser = totalPhys - 5
  BY CardLoadAssumption DEF BlocksInv
<1>2. totalPhys > GcnMax BY <1>1
<1>3. MaxBlocks(type) = GcnMax BY DEF MaxBlocks
<1>4. ~ (totalPhys <= MaxBlocks(type)) BY <1>1, <1>2, <1>3
<1> QED BY <1>4 DEF BlocksInv

LEMMA GcnStays ==
    ASSUME StayInv, LoadGcnHeader \/ CheckTables \/ \E t \in TableIdx : LoadTables(t)
    PROVE  StayInv'
<1>1. /\ type = "GCN" /\ files = {} /\ img \in Images /\ BlocksInv /\ FilesStayOnCard
      /\ phase \notin {"closed", "shown"} /\ ~ chkAllowWrite
      /\ img' = img /\ type' = type /\ totalPhys' = totalPhys /\ totalUser' = totalUser
      /\ files' = files /\ phase' \in {"tables0", "tables1", "check", "shown"}
  BY DEF StayInv, LoadGcnHeader, GcnShortHeader, GcnHeader, CheckTables, Shown,
         LoadTables, TableIdx
<1>2. /\ errors \subseteq errors'
      /\ chkAllowWrite' => phase' = "shown" /\ errors' = {}
  <2>1. CASE LoadGcnHeader
    BY <1>1, <2>1 DEF LoadGcnHeader, GcnShortHeader, GcnHeader
  <2>2. CASE CheckTables
    <3>1. PICK errs : Shown(errs) /\ errors \subseteq errs
      <4> DEFINE errs == errors \cup (IF active'[1] = -1 THEN {"INVALID_DATS"} ELSE {})
                                \cup (IF active'[2] = -1 THEN {"INVALID_BATS"} ELSE {})
      <4>1. Shown(errs) \/ Shown(errs \cup {"HEADER_GARBAGE"})
        BY <2>2 DEF CheckTables
      <4>2. errors \subseteq errs OBVIOUS
      <4> HIDE DEF errs
      <4> QED BY <4>1, <4>2
    <3> QED BY <3>1 DEF Shown
  <2>3. ASSUME NEW t \in TableIdx, LoadTables(t)
        PROVE  errors \subseteq errors' /\ chkAllowWrite' = chkAllowWrite
    BY <2>3 DEF LoadTables
  <2> QED BY <1>1, <2>1, <2>2, <2>3
<1>3. overrun' => overrun \/ totalUser > FatSize
  BY DEF LoadGcnHeader, CheckTables, LoadTables
<1>4. overrun' => "SZ_TOO_BIG" \in errors' /\ ~ chkAllowWrite'
  <2>1. overrun' => "SZ_TOO_BIG" \in errors
    BY <1>1, <1>3, TooManyTold DEF FilesStayOnCard
  <2> QED BY <1>2, <2>1
<1>5. BlocksInv'
  BY <1>1, <1>2, BoundKept DEF BlocksInv
<1>6. FilesStayOnCard' BY <1>1, <1>4 DEF FilesStayOnCard
<1> QED BY <1>1, <1>2, <1>5, <1>6 DEF StayInv

\* A count of a VMU's user blocks that are free.
LEMMA FreeOfUser ==
    ASSUME NEW n \in Nat, NEW fat
    PROVE  LET S == {b \in 0..(VmuBlocks - 1) : b < n /\ fat[b] = Unallocated}
           IN  Cardinality(S) \in Nat /\ Cardinality(S) <= n /\ Cardinality(S) <= VmuBlocks
<1> DEFINE S == {b \in 0..(VmuBlocks - 1) : b < n /\ fat[b] = Unallocated}
<1>1. VmuBlocks \in Nat BY CardLoadAssumption
<1>2. S \in SUBSET (0..(n - 1)) /\ S \in SUBSET (0..(VmuBlocks - 1)) BY <1>1
<1>3. IsFiniteSet(0..(n - 1)) /\ Cardinality(0..(n - 1)) = n
  <2>1. 0 \in Int /\ n - 1 \in Int OBVIOUS
  <2> QED BY <2>1, FS_Interval
<1>4. IsFiniteSet(0..(VmuBlocks - 1)) /\ Cardinality(0..(VmuBlocks - 1)) = VmuBlocks
  <2>1. 0 \in Int /\ VmuBlocks - 1 \in Int BY <1>1
  <2> QED BY <1>1, <2>1, FS_Interval
<1> HIDE DEF S
<1>5. IsFiniteSet(S) /\ Cardinality(S) <= n BY <1>2, <1>3, FS_Subset
<1>6. Cardinality(S) <= VmuBlocks BY <1>2, <1>4, FS_Subset
<1>7. Cardinality(S) \in Nat BY <1>5, FS_CardinalityType
<1> QED BY <1>5, <1>6, <1>7 DEF S

\* What lies past the table fits with what lies in it.
LEMMA CountBounded ==
    ASSUME NEW n \in Nat, NEW size \in Nat, NEW k \in Nat, k <= n, k <= size,
           NEW more \in 0..(IF n > size THEN n - size ELSE 0)
    PROVE  more + k <= n
<1>1. CASE n > size BY <1>1
<1>2. CASE ~ (n > size) BY <1>2
<1> QED BY <1>1, <1>2

LEMMA VmuFatStays ==
    ASSUME StayInv, LoadVmuFat
    PROVE  StayInv'
<1>1. /\ phase = "head" /\ type = "VMS" /\ img \in Images /\ totalPhys \in Nat
      /\ BlocksInv /\ FilesStayOnCard /\ files = {} /\ ~ chkAllowWrite
      /\ img' = img /\ type' = type /\ totalPhys' = totalPhys
  BY DEF LoadVmuFat, VmuRest, StayInv, BlocksInv
<1>2. MaxBlocks(type) = VmuBlocks BY <1>1 DEF MaxBlocks
<1>3. CASE VmuRootOk /\ VmuFatOk
  <2>1. /\ totalUser' = IF img.root.userBlocks > totalPhys THEN totalPhys
                        ELSE img.root.userBlocks
        /\ overrun' = (totalUser' > VmuBlocks)
        /\ phase' = "dir" /\ files' = files /\ errors' = errors
        /\ chkAllowWrite' = chkAllowWrite
    BY <1>3 DEF LoadVmuFat
  <2>2. PICK more \in 0..(IF totalUser' > VmuBlocks THEN totalUser' - VmuBlocks ELSE 0) :
            freeBlocks' = more + Cardinality(
                {b \in DOMAIN img.fat : b < totalUser' /\ img.fat[b] = Unallocated})
    BY <1>3 DEF LoadVmuFat
  <2>3. img.root.userBlocks \in Nat /\ DOMAIN img.fat = 0..(VmuBlocks - 1)
    BY <1>1, ImagesAssumption
  <2>4. totalUser' \in Nat /\ totalUser' <= totalPhys BY <1>1, <2>1, <2>3
  <2>5. PICK n \in Nat : n = totalUser' /\ n <= totalPhys BY <2>4
  <2>6. freeBlocks' <= totalUser'
    <3> DEFINE S == {b \in 0..(VmuBlocks - 1) : b < n /\ img.fat[b] = Unallocated}
    <3>1. freeBlocks' = more + Cardinality(S) BY <2>2, <2>3, <2>5
    <3>2. Cardinality(S) \in Nat /\ Cardinality(S) <= n /\ Cardinality(S) <= VmuBlocks
      BY <2>5, FreeOfUser
    <3>3. more \in 0..(IF n > VmuBlocks THEN n - VmuBlocks ELSE 0) BY <2>2, <2>5
    <3>4. PICK k \in Nat : k = Cardinality(S) /\ k <= n /\ k <= VmuBlocks BY <3>2
    <3>5. VmuBlocks \in Nat BY CardLoadAssumption
    <3>6. more + k <= n BY <2>5, <3>3, <3>4, <3>5, CountBounded
    <3> QED BY <2>5, <3>1, <3>4, <3>6
  <2>7. overrun' => "SZ_TOO_BIG" \in errors'
    <3>1. SUFFICES ASSUME n > VmuBlocks PROVE "SZ_TOO_BIG" \in errors
      BY <2>1, <2>5
    <3>2. ~ (totalPhys <= MaxBlocks(type)) BY <1>1, <1>2, <2>5, <3>1, CardLoadAssumption
    <3> QED BY <1>1, <3>2 DEF BlocksInv
  <2>8. totalUser' = 0 => img.root.userBlocks = 0
    <3>1. Readable(RootBlock) BY <1>3 DEF VmuRootOk
    <3>2. totalPhys # 0 BY <1>1, <3>1, RootHasBlocks DEF BlocksInv
    <3> QED BY <1>1, <2>1, <2>3, <3>2
  <2>9. BlocksInv'
    BY <1>1, <2>1, <2>4, <2>8, BoundKept DEF BlocksInv
  <2>10. FilesStayOnCard' BY <1>1, <2>1, <2>6, <2>7 DEF FilesStayOnCard
  <2> QED BY <1>1, <2>1, <2>9, <2>10 DEF StayInv
<1>4. CASE ~ (VmuRootOk /\ VmuFatOk)
  <2>1. /\ phase' = "shown" /\ errors' = errors /\ files' = {}
        /\ totalUser' = totalUser /\ freeBlocks' = freeBlocks /\ overrun' = overrun
        /\ chkAllowWrite' => errors = {}
    BY <1>4 DEF LoadVmuFat, VmuFails, Shown
  <2>2. BlocksInv' BY <1>1, <2>1, BoundKept DEF BlocksInv
  <2>3. FilesStayOnCard' BY <1>1, <2>1 DEF FilesStayOnCard
  <2> QED BY <1>1, <2>1, <2>2, <2>3 DEF StayInv
<1> QED BY <1>3, <1>4

LEMMA VmuDirStays ==
    ASSUME StayInv, LoadVmuDir
    PROVE  StayInv'
<1>1. /\ phase = "dir" /\ type = "VMS" /\ img \in Images
      /\ BlocksInv /\ FilesStayOnCard /\ files = {} /\ ~ chkAllowWrite
      /\ img' = img /\ type' = type /\ totalPhys' = totalPhys
      /\ totalUser' = totalUser /\ freeBlocks' = freeBlocks /\ overrun' = overrun
      /\ phase' \in {"shown", "crashed"} /\ errors' = errors
      /\ chkAllowWrite' => phase' = "shown" /\ errors' = {}
  <2>1. /\ phase = "dir" /\ type = "VMS" /\ img \in Images
        /\ BlocksInv /\ FilesStayOnCard /\ files = {} /\ ~ chkAllowWrite
    BY DEF LoadVmuDir, StayInv
  <2>2. /\ img' = img /\ type' = type /\ totalPhys' = totalPhys
        /\ totalUser' = totalUser /\ freeBlocks' = freeBlocks /\ overrun' = overrun
    BY DEF LoadVmuDir, VmuRest
  <2>3. \/ Shown(errors)
        \/ phase' = "crashed" /\ errors' = errors /\ chkAllowWrite' = chkAllowWrite
    BY DEF LoadVmuDir, VmuFails, VmuCrash
  <2>4. /\ phase' \in {"shown", "crashed"} /\ errors' = errors
        /\ chkAllowWrite' => phase' = "shown" /\ errors' = {}
    <3>1. CASE Shown(errors)
      <4>1. chkAllowWrite' => errors = {} BY <3>1, Zenon DEF Shown
      <4> QED BY <3>1, <4>1 DEF Shown
    <3>2. CASE phase' = "crashed" /\ errors' = errors /\ chkAllowWrite' = chkAllowWrite
      BY <2>1, <3>2
    <3> QED BY <2>3, <3>1, <3>2
  <2> QED BY <2>1, <2>2, <2>4
<1>2. BlocksInv' BY <1>1, BoundKept DEF BlocksInv
<1>3. phase' = "crashed" => totalUser = 0 /\ VmuEntries # {} /\ files' = files
  BY DEF LoadVmuDir, VmuFails, VmuCrash, KeepsNoEntry, Shown
<1>4. phase' = "crashed" => img.root.userBlocks = 0 /\ VmuEntries # {}
  BY <1>1, <1>3 DEF BlocksInv
<1>5. VmuEntries' = VmuEntries BY <1>1 DEF VmuEntries, DirBlocks
<1>6. ASSUME NEW f \in files'
      PROVE  phase' = "shown" /\ ChainOf(f.chain, f.entry)' /\ totalUser > 0
  <2>1. /\ VmuEntries # {} /\ ~ KeepsNoEntry /\ phase' = "shown"
        /\ files' = {[entry |-> e, chain |-> VmuChain(e)] : e \in VmuEntries}
    BY <1>1, <1>6 DEF LoadVmuDir, VmuFails, VmuCrash, Shown
  <2>2. PICK e \in VmuEntries : f = [entry |-> e, chain |-> VmuChain(e)] BY <2>1
  <2>3. e \in img.entries BY DEF VmuEntries
  <2>4. totalUser \in Nat /\ totalUser > 0
    BY <1>1, <2>1 DEF BlocksInv, KeepsNoEntry
  <2>5. PICK c, en : c = f.chain /\ en = f.entry OBVIOUS
  <2>6. ChainOf(c, en) BY <1>1, <2>2, <2>3, <2>4, <2>5, ChainIsGood
  <2>7. ChainOf(c, en)' BY <1>1, <2>6 DEF ChainOf, NextInChain
  <2> QED BY <2>1, <2>4, <2>5, <2>7
<1>7. FilesStayOnCard' BY <1>1, <1>4, <1>5, <1>6 DEF FilesStayOnCard
<1> QED BY <1>1, <1>2, <1>6, <1>7 DEF StayInv

LEMMA GciStays ==
    ASSUME StayInv, LoadGci
    PROVE  StayInv'
<1>1. /\ phase = "head" /\ type = "GCI" /\ img \in Images /\ files = {}
      /\ BlocksInv /\ FilesStayOnCard
      /\ img' = img /\ type' = type /\ totalPhys' = totalPhys
      /\ freeBlocks' = freeBlocks /\ freeBlocks = 0
      /\ overrun' = overrun /\ files' = files /\ phase' = "shown"
      /\ chkAllowWrite' = FALSE
  BY DEF LoadGci, Shown, StayInv, BlocksInv
<1>2. "SZ_TOO_BIG" \in errors => "SZ_TOO_BIG" \in errors'
  BY DEF LoadGci, Shown
<1>3. totalUser' \in Nat
  <2>1. CASE HeadReadable
    <3>1. totalUser' = totalPhys /\ totalPhys \in Nat
      BY <1>1, <2>1 DEF LoadGci, BlocksInv
    <3> QED BY <3>1
  <2>2. CASE ~ HeadReadable
    <3>1. totalUser' = totalUser BY <2>2 DEF LoadGci
    <3> QED BY <1>1, <3>1 DEF BlocksInv
  <2> QED BY <2>1, <2>2
<1>4. BlocksInv' BY <1>1, <1>2, <1>3, BoundKept DEF BlocksInv
<1>5. FilesStayOnCard' BY <1>1, <1>2, <1>3 DEF FilesStayOnCard
<1> QED BY <1>1, <1>4, <1>5 DEF StayInv

LEMMA ClosedStays ==
    ASSUME StayInv, NoCardOpen
    PROVE  StayInv'
<1>1. /\ type' = "none" /\ phase' = "closed" /\ img' = img /\ files' = {}
      /\ overrun' = FALSE /\ chkAllowWrite' = FALSE
      /\ totalUser' = 0 /\ freeBlocks' = 0
  BY DEF NoCardOpen, Cleared
<1>2. BlocksInv' BY <1>1 DEF BlocksInv
<1>3. FilesStayOnCard' BY <1>1 DEF FilesStayOnCard
<1> QED BY <1>1, <1>2, <1>3 DEF StayInv

LEMMA StayStep ==
    ASSUME StayInv, [Next]_vars
    PROVE  StayInv'
<1>1. ASSUME NEW ty \in TypesOf(img), Open(ty) PROVE StayInv'
  BY <1>1, OpenStays
<1>2. CASE LoadGcnHeader BY <1>2, GcnStays
<1>3. ASSUME NEW t \in TableIdx, LoadTables(t) PROVE StayInv'
  BY <1>3, GcnStays
<1>4. CASE CheckTables BY <1>4, GcnStays
<1>5. CASE LoadVmuFat BY <1>5, VmuFatStays
<1>6. CASE LoadVmuDir BY <1>6, VmuDirStays
<1>7. CASE LoadGci BY <1>7, GciStays
<1>8. CASE Close \/ Restart BY <1>8, ClosedStays DEF Close, Restart
<1>9. CASE UNCHANGED vars
  <2>1. /\ img' = img /\ type' = type /\ phase' = phase /\ errors' = errors
        /\ totalPhys' = totalPhys /\ totalUser' = totalUser
        /\ freeBlocks' = freeBlocks /\ files' = files /\ overrun' = overrun
        /\ chkAllowWrite' = chkAllowWrite
    BY <1>9 DEF vars, sizeVars
  <2>2. BlocksInv' BY <2>1, BoundKept DEF StayInv, BlocksInv, HeadReadable, InFile
  <2>3. FilesStayOnCard'
    BY <2>1 DEF StayInv, FilesStayOnCard, ChainOf, NextInChain, VmuEntries, DirBlocks
  <2> QED BY <2>1, <2>2, <2>3 DEF StayInv
<1> QED BY <1>1, <1>2, <1>3, <1>4, <1>5, <1>6, <1>7, <1>8, <1>9 DEF Next

\* loadSysInfo() and VmuFilePrivate never leave the user blocks of the card,
\* whatever the root block, the directory and the FAT say: each chain of a
\* VMU's file is the one the FAT has, no longer than its entry and the card.
\* The only images that crash the program while it opens them are VMUs with a
\* root block that has no user blocks and a directory that has files; and only
\* an image flagged as too big has its free blocks counted past the table.
THEOREM ChainsOnCard == Spec => []FilesStayOnCard
<1>1. Init => StayInv
  BY DEF Init, StayInv, BlocksInv, FilesStayOnCard
<1>2. StayInv /\ [Next]_vars => StayInv' BY StayStep
<1>3. StayInv => FilesStayOnCard BY DEF StayInv
<1> QED BY <1>1, <1>2, <1>3, PTL DEF Spec
=============================================================================
