--------------------------- MODULE CardBrowserProofs ---------------------------
(***************************************************************************)
(* Theorems about CardBrowser and their proofs.                            *)
(*                                                                         *)
(* A method of the card is a sequence of steps, so that the properties of  *)
(* the idle program depend on what holds before each step.  Place is the   *)
(* outline: one predicate per step, of the variables and of the steps that *)
(* are still to come.                                                      *)
(***************************************************************************)
EXTENDS CardBrowserProps, FiniteSetTheorems, FunctionTheorems, SequenceTheorems,
        WellFoundedInduction, TLAPS

IsSeq(s) == Len(s) \in Nat /\ s = [n \in 1 .. Len(s) |-> s[n]]
Known(s) == IsSeq(s) /\ \A n \in 1 .. Len(s) : s[n].op \in StepNames
Next1(s, op) == s # << >> /\ Head(s).op = op

Fresh == FilesOfTables(Img, dat, bat)
AnimatedIn(files) == {f \in files : Animated(f)}
LostObjects == {f \in DOMAIN heap : Lost(f)}
\* The addresses left for further lost files.
Free == Cardinality(Objects) - MaxEntries(Img) - Cardinality(LostObjects)

-----------------------------------------------------------------------------
(* The steps to come *)

Opens(s) == s = << >> \/ (Next1(s, "open") /\ Tail(s) = << >>)
Deletes(s) == Next1(s, "delete") /\ Opens(Tail(s))
Clears(s) == Next1(s, "clearViews") /\ Deletes(Tail(s))
Detaches(s) == Next1(s, "detached") /\ Clears(Tail(s))

Shows(s) == Next1(s, "showCard") /\ Tail(s) = << >>
Attaches(s) == Next1(s, "attached") /\ Shows(Tail(s))

TableChange(s) == \/ Next1(s, "datChanged") /\ Head(s).idx \in TableIdx /\ Tail(s) = << >>
                  \/ Next1(s, "batChanged") /\ Head(s).idx \in TableIdx /\ Tail(s) = << >>
Changes(s) == s = << >> \/ TableChange(s)
Loads(s) == Next1(s, "load") /\ Changes(Tail(s))
Counts(s) == Next1(s, "blockCount") /\ Changes(Tail(s))

Inserted(s) == Next1(s, "inserted") /\ (Tail(s) = << >> \/ Counts(Tail(s)))
Appends(s) == Next1(s, "append") /\ Inserted(Tail(s))

LostBatch(objs, free) ==
    /\ IsSeq(objs) /\ Len(objs) <= free
    /\ \A n \in 1 .. Len(objs) : \E a \in BOOLEAN : objs[n] = LostFile(a)
AddsLost(s, free) ==
    Next1(s, "addLost") /\ LostBatch(Head(s).objs, free) /\ Tail(s) = << >>
RemovesLost(s, free) == Next1(s, "removeLost") /\ AddsLost(Tail(s), free)

-----------------------------------------------------------------------------
(* What holds before a step *)

\* The card, its model and the views agree.
Steady ==
    /\ IsOpen /\ attached /\ insertRange = NoRange /\ change = NoChange
    /\ rows = Len(lstFiles) /\ fileCount = Len(lstFiles)
    /\ animState = AnimatedIn(ToSet(lstFiles))

\* The model has no card.
Apart ==
    /\ ~attached /\ insertRange = NoRange /\ change = NoChange
    /\ rows = 0 /\ fileCount = 0

NoCard == ~IsOpen /\ heap = << >> /\ lstFiles = << >>

\* The model has the card and is between the two signals of a change.
Changing(kind, known) ==
    /\ IsOpen /\ attached /\ change.kind = kind
    /\ rows = known /\ fileCount = known

ListHolds ==
    /\ Len(Fresh) <= Len(lstFiles)
    /\ \A n \in 1 .. Len(lstFiles) :
         IF n <= Len(Fresh) THEN heap[lstFiles[n]] = Fresh[n] ELSE Lost(lstFiles[n])
MapHolds == usedBlockMap = CountUses(ResetMap, Fresh)
Listed == ListHolds /\ MapHolds

AtIdle == todo = << >> /\ ((Steady /\ Listed) \/ (Apart /\ NoCard))

AtDetach == Doing("detach") /\ Detaches(Tail(todo)) /\ (Steady \/ Apart)
AtDetached ==
    /\ Detaches(todo) /\ insertRange = NoRange
    /\ \/ Apart
       \/ /\ attached /\ rows = Len(lstFiles) /\ fileCount = Len(lstFiles)
          /\ change = IF Len(lstFiles) > 0
                      THEN [kind |-> "remove", first |-> 0, last |-> Len(lstFiles) - 1]
                      ELSE NoChange
AtClearViews == Clears(todo) /\ Apart
AtDelete == Deletes(todo) /\ Apart
AtOpen == Doing("open") /\ Tail(todo) = << >> /\ Apart /\ NoCard

AtAttach == Doing("attach") /\ Attaches(Tail(todo)) /\ Apart /\ IsOpen /\ Listed
AtAttached ==
    /\ Attaches(todo) /\ IsOpen /\ Listed
    /\ ~attached /\ insertRange = NoRange /\ rows = 0 /\ fileCount = 0
    /\ change = IF Len(lstFiles) > 0
                THEN [kind |-> "insert", first |-> 0, last |-> Len(lstFiles) - 1]
                ELSE NoChange
AtShowCard == Shows(todo) /\ Steady /\ Listed

AllGo(s) ==
    /\ Next1(s, "aboutToBeRemoved") /\ Head(s).first = 0 /\ Head(s).last = Len(lstFiles) - 1
    /\ Len(lstFiles) > 0
    /\ Next1(Tail(s), "deleteAll") /\ Next1(Tail(Tail(s)), "removed")
    /\ Loads(Tail(Tail(Tail(s))))
RowGoes(row, s) ==
    /\ Next1(s, "remove") /\ Head(s).row = row
    /\ row \in 0 .. Len(lstFiles) - 1 /\ Lost(lstFiles[row + 1])
    /\ Next1(Tail(s), "removed") /\ RemovesLost(Tail(Tail(s)), Free)
AtRemoving ==
    /\ Doing("aboutToBeRemoved") /\ Steady
    /\ \/ AllGo(todo)
       \/ /\ Head(todo).first = Head(todo).last /\ RowGoes(Head(todo).first, Tail(todo))
          /\ Listed
AtDeleteAll ==
    /\ Doing("deleteAll") /\ insertRange = NoRange
    /\ \/ Steady /\ Len(lstFiles) = 0 /\ Loads(Tail(todo))
       \/ /\ Changing("remove", Len(lstFiles)) /\ animState = {} /\ Len(lstFiles) > 0
          /\ change.first = 0 /\ change.last = Len(lstFiles) - 1
          /\ Next1(Tail(todo), "removed") /\ Loads(Tail(Tail(todo)))
AtRemove ==
    /\ Doing("remove") /\ RowGoes(Head(todo).row, todo) /\ insertRange = NoRange
    /\ Changing("remove", Len(lstFiles)) /\ Listed
    /\ change.first = Head(todo).row /\ change.last = Head(todo).row
    /\ animState = AnimatedIn(ToSet(lstFiles)) \ {lstFiles[Head(todo).row + 1]}
AtRemoved ==
    /\ Doing("removed") /\ insertRange = NoRange
    /\ change.first \in Nat /\ change.last \in Nat /\ change.first <= change.last
    /\ Changing("remove", Len(lstFiles) + change.last - change.first + 1)
    /\ change.last < rows
    /\ animState = AnimatedIn(ToSet(lstFiles))
    /\ \/ lstFiles = << >> /\ Loads(Tail(todo))
       \/ Listed /\ RemovesLost(Tail(todo), Free)

AtLoad == Loads(todo) /\ Steady /\ lstFiles = << >>
AtRemoveLost == RemovesLost(todo, Free) /\ Steady /\ Listed
AtAddLost == AddsLost(todo, Free) /\ Steady /\ Listed

\* The files to be inserted: all of the tables, or those a search found.
Batch(objs) ==
    /\ IsSeq(objs) /\ Len(objs) > 0 /\ MapHolds
    /\ \/ lstFiles = << >> /\ objs = Fresh
       \/ ListHolds /\ LostBatch(objs, Free)
AtInserting ==
    /\ Doing("aboutToBeInserted") /\ Steady
    /\ Appends(Tail(todo)) /\ Batch(Head(Tail(todo)).objs)
    /\ Head(todo).first = Len(lstFiles)
    /\ Head(todo).last = Len(lstFiles) + Len(Head(Tail(todo)).objs) - 1
AtAppend ==
    /\ Appends(todo) /\ Batch(Head(todo).objs)
    /\ Changing("insert", Len(lstFiles))
    /\ insertRange = <<change.first, change.last>>
    /\ change.first = Len(lstFiles)
    /\ change.last = Len(lstFiles) + Len(Head(todo).objs) - 1
    /\ animState = AnimatedIn(ToSet(lstFiles))
AtInserted ==
    /\ Inserted(todo) /\ Listed
    /\ insertRange = <<change.first, change.last>>
    /\ change.first \in Nat /\ change.last \in Nat /\ change.first <= change.last
    /\ Len(lstFiles) = change.last + 1 /\ Changing("insert", change.first)
    /\ animState = AnimatedIn(FilesIn(0, change.first - 1))
AtBlockCount == Counts(todo) /\ Steady /\ Listed
AtTableChange == TableChange(todo) /\ Steady /\ Listed

Place ==
    \/ AtIdle
    \/ AtDetach \/ AtDetached \/ AtClearViews \/ AtDelete
    \/ AtOpen \/ AtAttach \/ AtAttached \/ AtShowCard
    \/ AtRemoving \/ AtDeleteAll \/ AtRemove \/ AtRemoved
    \/ AtLoad \/ AtRemoveLost \/ AtAddLost
    \/ AtInserting \/ AtAppend \/ AtInserted
    \/ AtBlockCount \/ AtTableChange

-----------------------------------------------------------------------------
(* What always holds *)

\* The objects of files and the list of them.
FileObject(o) == /\ o.lost \in BOOLEAN /\ o.animated \in BOOLEAN
                 /\ Len(o.chain) \in Nat /\ Len(o.chain) <= UserBlocks
HeapInv ==
    /\ DOMAIN heap \subseteq Objects
    /\ heap = [f \in DOMAIN heap |-> heap[f]]
    /\ \A f \in DOMAIN heap : FileObject(heap[f])
    /\ IsSeq(lstFiles) /\ ToSet(lstFiles) \subseteq DOMAIN heap /\ IsInjective(lstFiles)
    /\ \A f \in DOMAIN heap : Lost(f) \/ f \in ToSet(lstFiles)
    /\ IsOpen => Free >= 0

\* The tables and the map.
CardInv ==
    /\ Known(todo)
    /\ image = << >> \/ (image = <<image[1]>> /\ image[1] \in Images)
    /\ dat \in TableIdx /\ bat \in TableIdx
    /\ datActive \in {-1, 0, 1} /\ batActive \in {-1, 0, 1}
    /\ freeBlocks \in Nat
    /\ usedBlockMap \in [0 .. TotalPhys - 1 -> 0 .. MaxCount]

\* The widgets.
ViewInv ==
    /\ attached \in BOOLEAN /\ animState \subseteq Objects /\ animTimer \in BOOLEAN
    /\ pauseCounter \in 0 .. 1
    /\ viewTimer \in BOOLEAN /\ viewed \in BOOLEAN
    /\ headerIcon \in BOOLEAN /\ countIcon \in BOOLEAN
    /\ datButton \in {-1, 0, 1} /\ batButton \in {-1, 0, 1}

TimerInv ==
    /\ pauseCounter > 0 => ~animTimer
    /\ attached /\ pauseCounter = 0 /\ animState # {} => animTimer

IInv == /\ HeapInv /\ CardInv /\ ViewInv /\ TimerInv /\ Place
        /\ OpenedWithBestTables /\ NoDanglingFile

-----------------------------------------------------------------------------
(* Sequences *)

\* A sequence is one of its own elements.
LEMMA OwnElements ==
    ASSUME NEW s, IsSeq(s), NEW S, \A n \in 1 .. Len(s) : s[n] \in S
    PROVE  s \in Seq(S)
<1>1. s \in [1 .. Len(s) -> S]
  BY DEF IsSeq
<1> QED
  BY <1>1, SeqDef DEF IsSeq

LEMMA SeqIsSeq ==
    ASSUME NEW S, NEW s \in Seq(S)
    PROVE  IsSeq(s)
BY DEF IsSeq

\* What is left after a step, and after more steps were put before.
LEMMA Popped ==
    ASSUME NEW s, IsSeq(s), s # << >>
    PROVE  /\ IsSeq(Tail(s)) /\ Len(s) > 0 /\ Len(Tail(s)) = Len(s) - 1
           /\ Head(s) = s[1]
           /\ \A n \in 1 .. Len(Tail(s)) : Tail(s)[n] = s[n + 1]
<1> DEFINE S == {s[n] : n \in 1 .. Len(s)}
<1>1. s \in Seq(S)
  BY OwnElements
<1> HIDE DEF S
<1>2. Tail(s) \in Seq(S) /\ Len(Tail(s)) = Len(s) - 1 /\ Len(s) > 0
  BY <1>1
<1>3. \A n \in 1 .. Len(Tail(s)) : Tail(s)[n] = s[n + 1]
  BY <1>1, <1>2
<1>4. Head(s) = s[1]
  BY <1>1
<1> QED
  BY <1>2, <1>3, <1>4, SeqIsSeq

LEMMA Joined ==
    ASSUME NEW s, NEW t, IsSeq(s), IsSeq(t)
    PROVE  /\ IsSeq(s \o t) /\ Len(s \o t) = Len(s) + Len(t)
           /\ \A n \in 1 .. Len(s) : (s \o t)[n] = s[n]
           /\ \A n \in 1 .. Len(t) : (s \o t)[Len(s) + n] = t[n]
           /\ \A n \in 1 .. Len(s \o t) :
                 \/ n \in 1 .. Len(s)
                 \/ n - Len(s) \in 1 .. Len(t) /\ (s \o t)[n] = t[n - Len(s)]
<1> DEFINE S == {s[n] : n \in 1 .. Len(s)} \cup {t[n] : n \in 1 .. Len(t)}
<1>1. s \in Seq(S)
  BY OwnElements
<1>2. t \in Seq(S)
  BY OwnElements
<1> HIDE DEF S
<1>3. s \o t \in Seq(S) /\ Len(s \o t) = Len(s) + Len(t)
  BY <1>1, <1>2
<1>4. \A n \in 1 .. Len(s) : (s \o t)[n] = s[n]
  BY <1>1, <1>2
<1>5. \A n \in 1 .. Len(t) : (s \o t)[Len(s) + n] = t[n]
  BY <1>1, <1>2
<1>6. \A n \in 1 .. Len(s \o t) :
         \/ n \in 1 .. Len(s)
         \/ n - Len(s) \in 1 .. Len(t) /\ (s \o t)[n] = t[n - Len(s)]
  BY <1>1, <1>2, <1>3
<1> QED
  BY <1>3, <1>4, <1>5, <1>6, SeqIsSeq

LEMMA Pushed ==
    ASSUME NEW a, NEW s, IsSeq(s)
    PROVE  /\ IsSeq(<<a>> \o s) /\ <<a>> \o s # << >>
           /\ Head(<<a>> \o s) = a /\ Tail(<<a>> \o s) = s
           /\ a.op \in StepNames /\ Known(s) => Known(<<a>> \o s)
<1> DEFINE S == {s[n] : n \in 1 .. Len(s)} \cup {a}
<1>1. s \in Seq(S) /\ a \in S
  BY OwnElements
<1> HIDE DEF S
<1>2. /\ <<a>> \o s \in Seq(S) /\ <<a>> \o s # << >>
      /\ Head(<<a>> \o s) = a /\ Tail(<<a>> \o s) = s
  BY <1>1
<1>3. a.op \in StepNames /\ Known(s) => Known(<<a>> \o s)
  <2>1. IsSeq(<<a>>) /\ Len(<<a>>) = 1 /\ <<a>>[1] = a
    BY DEF IsSeq
  <2> QED
    BY <2>1, Joined DEF Known
<1> QED
  BY <1>2, <1>3, SeqIsSeq

LEMMA Associates ==
    ASSUME NEW r, NEW s, NEW t, IsSeq(r), IsSeq(s), IsSeq(t)
    PROVE  (r \o s) \o t = r \o (s \o t)
<1> DEFINE S == {r[n] : n \in 1 .. Len(r)} \cup {s[n] : n \in 1 .. Len(s)}
                \cup {t[n] : n \in 1 .. Len(t)}
<1>1. r \in Seq(S)
  BY OwnElements
<1>2. s \in Seq(S)
  BY OwnElements
<1>3. t \in Seq(S)
  BY OwnElements
<1> HIDE DEF S
<1> QED
  BY <1>1, <1>2, <1>3, ConcatAssociative

LEMMA NoMore ==
    ASSUME NEW s, IsSeq(s)
    PROVE  << >> \o s = s /\ s \o << >> = s
BY OwnElements, ConcatEmptySeq DEF IsSeq

LEMMA LiteralSeqs ==
    ASSUME NEW a, NEW b, NEW c, NEW d
    PROVE  /\ IsSeq(<< >>) /\ IsSeq(<<a>>) /\ IsSeq(<<a, b>>)
           /\ IsSeq(<<a, b, c>>) /\ IsSeq(<<a, b, c, d>>)
<1>1. <<a>> \in Seq({a}) /\ <<a, b>> \in Seq({a, b})
  OBVIOUS
<1>2. <<a, b, c>> \in Seq({a, b, c}) /\ <<a, b, c, d>> \in Seq({a, b, c, d})
  OBVIOUS
<1> QED
  BY <1>1, <1>2, SeqIsSeq DEF IsSeq

LEMMA LastOf ==
    ASSUME NEW s, NEW a, IsSeq(s)
    PROVE  Append(s, a) = s \o <<a>>
<1> DEFINE S == {s[n] : n \in 1 .. Len(s)} \cup {a}
<1>1. s \in Seq(S) /\ a \in S
  BY OwnElements
<1> HIDE DEF S
<1> QED
  BY <1>1, AppendIsConcat

LEMMA PushedTwo ==
    ASSUME NEW a, NEW b, NEW s, IsSeq(s)
    PROVE  <<a, b>> \o s = <<a>> \o (<<b>> \o s)
<1> DEFINE x == <<a>>  y == <<b>>
<1>1. IsSeq(x)
  BY LiteralSeqs
<1>2. IsSeq(y)
  BY LiteralSeqs
<1>3. <<a, b>> = x \o y
  <2>1. <<a, b>> = Append(x, b)
    OBVIOUS
  <2> QED
    BY <1>1, <2>1, LastOf
<1> HIDE DEF x, y
<1>4. (x \o y) \o s = x \o (y \o s)
  BY <1>1, <1>2, Associates
<1> QED
  BY <1>3, <1>4 DEF x, y

LEMMA PushedThree ==
    ASSUME NEW a, NEW b, NEW c, NEW s, IsSeq(s)
    PROVE  <<a, b, c>> \o s = <<a>> \o (<<b>> \o (<<c>> \o s))
<1> DEFINE x == <<a, b>>  y == <<c>>  t == y \o s
<1>1. IsSeq(x)
  BY LiteralSeqs
<1>2. IsSeq(y)
  BY LiteralSeqs
<1>3. <<a, b, c>> = x \o y
  BY <1>1, LastOf
<1> HIDE DEF x, y
<1>4. (x \o y) \o s = x \o t
  BY <1>1, <1>2, Associates
<1>5. IsSeq(t)
  BY <1>2, Joined
<1> HIDE DEF t
<1>6. <<a, b>> \o t = <<a>> \o (<<b>> \o t)
  BY <1>5, PushedTwo
<1> QED
  BY <1>3, <1>4, <1>6 DEF x, y, t

LEMMA PushedFour ==
    ASSUME NEW a, NEW b, NEW c, NEW d, NEW s, IsSeq(s)
    PROVE  <<a, b, c, d>> \o s = <<a>> \o (<<b>> \o (<<c>> \o (<<d>> \o s)))
<1> DEFINE x == <<a, b, c>>  y == <<d>>  t == y \o s
<1>1. IsSeq(x)
  BY LiteralSeqs
<1>2. IsSeq(y)
  BY LiteralSeqs
<1>3. <<a, b, c, d>> = x \o y
  BY <1>1, LastOf
<1> HIDE DEF x, y
<1>4. (x \o y) \o s = x \o t
  BY <1>1, <1>2, Associates
<1>5. IsSeq(t)
  BY <1>2, Joined
<1> HIDE DEF t
<1>6. <<a, b, c>> \o t = <<a>> \o (<<b>> \o (<<c>> \o t))
  <2>1. ASSUME NEW u, IsSeq(u) PROVE <<a, b, c>> \o u = <<a>> \o (<<b>> \o (<<c>> \o u))
    BY <2>1, PushedThree
  <2> QED
    BY <1>5, <2>1, Zenon
<1> QED
  BY <1>3, <1>4, <1>6 DEF x, y, t

LEMMA JoinedLiterals ==
    ASSUME NEW a, NEW b, NEW c, NEW d
    PROVE  /\ <<a>> \o <<b>> = <<a, b>> /\ <<a, b>> \o <<c>> = <<a, b, c>>
           /\ <<a, b, c>> \o <<d>> = <<a, b, c, d>>
<1>1. <<a, b>> = <<a>> \o <<b>>
  <2>1. IsSeq(<<a>>)
    BY LiteralSeqs
  <2>2. <<a, b>> = Append(<<a>>, b)
    OBVIOUS
  <2> QED
    BY <2>1, <2>2, LastOf
<1>2. <<a, b, c>> = <<a, b>> \o <<c>>
  <2>1. IsSeq(<<a, b>>)
    BY LiteralSeqs
  <2>2. <<a, b, c>> = Append(<<a, b>>, c)
    OBVIOUS
  <2> QED
    BY <2>1, <2>2, LastOf
<1>3. <<a, b, c, d>> = <<a, b, c>> \o <<d>>
  <2>1. IsSeq(<<a, b, c>>)
    BY LiteralSeqs
  <2>2. <<a, b, c, d>> = Append(<<a, b, c>>, d)
    OBVIOUS
  <2> QED
    BY <2>1, <2>2, LastOf
<1> QED
  BY <1>1, <1>2, <1>3

LEMMA OneStep ==
    ASSUME NEW r, r.op \in StepNames
    PROVE  <<r>> # << >> /\ Head(<<r>>) = r /\ Tail(<<r>>) = << >> /\ Known(<<r>>)
<1>1. IsSeq(<<r>>)
  BY LiteralSeqs
<1>2. Len(<<r>>) = 1 /\ <<r>>[1] = r
  OBVIOUS
<1>3. Head(<<r>>) = r /\ Tail(<<r>>) = << >> /\ <<r>> # << >>
  OBVIOUS
<1> QED
  BY <1>1, <1>2, <1>3 DEF Known

-----------------------------------------------------------------------------
(* The files of a table *)

LEMMA ChainBound ==
    ASSUME NEW e, e.length \in Nat, NEW b
    PROVE  Len(Chain(e, b)) \in Nat /\ Len(Chain(e, b)) <= UserBlocks
<1> DEFINE limit == IF ChainLength(e) < 1 THEN 1 ELSE ChainLength(e)
<1>1. limit \in Nat /\ limit <= UserBlocks /\ 1 <= limit
  BY SizesAssumption DEF ChainLength, UserBlocks, FirstBlock
<1> HIDE DEF limit
<1>2. ASSUME NEW A, A \subseteq 1 .. limit
      PROVE  Cardinality(A) \in Nat /\ Cardinality(A) <= limit
  <2>1. IsFiniteSet(1 .. limit) /\ Cardinality(1 .. limit) = limit
    BY <1>1, FS_Interval
  <2> QED
    BY <1>2, <2>1, FS_Subset, FS_CardinalityType
<1> DEFINE link[n \in Nat \ {0}] ==
             IF n = 1 THEN e.block
             ELSE IF InFat(link[n - 1]) THEN b.fat[link[n - 1] - FirstBlock] ELSE 0
           A == {n \in 1 .. limit : \A m \in 1 .. n : InFat(link[m])}
<1>3. Chain(e, b) = [n \in 1 .. Cardinality(A) |-> link[n]]
  BY DEF Chain, limit
<1> HIDE DEF link
<1>4. Cardinality(A) \in Nat /\ Cardinality(A) <= limit
  BY <1>2
<1> HIDE DEF A
<1>5. Len(Chain(e, b)) = Cardinality(A)
  BY <1>3, <1>4
<1> QED
  BY <1>1, <1>4, <1>5, SizesAssumption DEF UserBlocks, FirstBlock

LEMMA TableFiles ==
    ASSUME NEW i \in Images, NEW d \in TableIdx, NEW b
    PROVE  LET objs == FilesOfTables(i, d, b) IN
           /\ IsSeq(objs) /\ Len(objs) <= MaxEntries(i)
           /\ \A n \in 1 .. Len(objs) : FileObject(objs[n]) /\ ~objs[n].lost
<1> DEFINE es == i.dats[d].entries
           objs == FilesOfTables(i, d, b)
<1>1. /\ i.dats[0].entries \in Seq([block : Nat, length : Nat, animated : BOOLEAN])
      /\ i.dats[1].entries \in Seq([block : Nat, length : Nat, animated : BOOLEAN])
  BY ImagesAssumption DEF IsImage, TableIdx
<1>2. es = i.dats[0].entries \/ es = i.dats[1].entries
  BY DEF TableIdx
<1>3. es \in Seq([block : Nat, length : Nat, animated : BOOLEAN])
  BY <1>1, <1>2
<1>4. Len(es) <= MaxEntries(i)
  <2> DEFINE m == Len(i.dats[0].entries)  n == Len(i.dats[1].entries)
  <2>1. m \in Nat /\ n \in Nat /\ (Len(es) = m \/ Len(es) = n)
    BY <1>1, <1>2
  <2>2. MaxEntries(i) = IF m > n THEN m ELSE n
    BY DEF MaxEntries
  <2> HIDE DEF m, n, es
  <2> QED
    BY <2>1, <2>2
<1> HIDE DEF es
<1>5. objs = [n \in 1 .. Len(es) |-> RegularFile(es[n], i.bats[b])]
  BY <1>3 DEF FilesOfTables, es
<1> HIDE DEF objs
<1>6. Len(objs) = Len(es) /\ Len(es) \in Nat
  BY <1>3, <1>5
<1>7. \A n \in 1 .. Len(es) : objs[n] = RegularFile(es[n], i.bats[b])
  BY <1>5
<1>8. IsSeq(objs)
  BY <1>5, <1>6, <1>7 DEF IsSeq
<1>9. ASSUME NEW n \in 1 .. Len(objs) PROVE FileObject(objs[n]) /\ ~objs[n].lost
  <2> DEFINE entry == es[n]
  <2>1. entry \in [block : Nat, length : Nat, animated : BOOLEAN]
    BY <1>3, <1>6, ElementOfSeq
  <2>2. entry.length \in Nat /\ entry.animated \in BOOLEAN
    BY <2>1
  <2>3. Len(Chain(es[n], i.bats[b])) \in Nat /\ Len(Chain(es[n], i.bats[b])) <= UserBlocks
    BY <2>2, ChainBound
  <2>4. objs[n] = RegularFile(es[n], i.bats[b])
    BY <1>6, <1>7
  <2> QED
    BY <2>2, <2>3, <2>4 DEF FileObject, RegularFile
<1> QED
  BY <1>4, <1>6, <1>8, <1>9 DEF objs

\* The addresses of new objects are free, and there are enough of them.
LEMMA UnusedAddresses ==
    ASSUME DOMAIN heap \subseteq Objects, NEW n \in Nat,
           Cardinality(DOMAIN heap) + n <= Cardinality(Objects)
    PROVE  /\ Unused(n) \in [1 .. n -> Objects \ DOMAIN heap]
           /\ \A j, k \in 1 .. n : Unused(n)[j] = Unused(n)[k] => j = k
<1> DEFINE S == Objects \ DOMAIN heap
<1>1. IsFiniteSet(S) /\ IsFiniteSet(DOMAIN heap) /\ IsFiniteSet(Objects)
  BY ObjectsAssumption, FS_Subset
<1>2. Cardinality(S) = Cardinality(Objects) - Cardinality(Objects \cap DOMAIN heap)
  BY <1>1, FS_Difference
<1>3. Objects \cap DOMAIN heap = DOMAIN heap
  OBVIOUS
<1>4. Cardinality(S) \in Nat /\ Cardinality(Objects) \in Nat /\ Cardinality(DOMAIN heap) \in Nat
  BY <1>1, FS_CardinalityType
<1> HIDE DEF S
<1>5. n <= Cardinality(S)
  BY <1>2, <1>3, <1>4
<1>6. PICK f : f \in Bijection(1 .. Cardinality(S), S)
  <2>1. ExistsBijection(1 .. Cardinality(S), S)
    BY <1>1, FS_CardinalityType
  <2> QED
    BY <2>1 DEF ExistsBijection
<1> DEFINE g == [k \in 1 .. n |-> f[k]]
<1>7. f \in [1 .. Cardinality(S) -> S] /\ \A j, k \in 1 .. Cardinality(S) : f[j] = f[k] => j = k
  BY <1>6, Fun_BijectionProperties
<1>8. 1 .. n \subseteq 1 .. Cardinality(S)
  BY <1>4, <1>5
<1>9. g \in [1 .. n -> S] /\ IsInjective(g)
  BY <1>7, <1>8 DEF IsInjective
<1>10. Unused(n) \in [1 .. n -> S] /\ IsInjective(Unused(n))
  BY <1>9 DEF Unused, S
<1> QED
  BY <1>10 DEF IsInjective, S

-----------------------------------------------------------------------------
(* New objects *)

LEMMA ToSetOf ==
    ASSUME NEW s, IsSeq(s)
    PROVE  DOMAIN s = 1 .. Len(s) /\ ToSet(s) = {s[n] : n \in 1 .. Len(s)}
BY DEF IsSeq, ToSet

\* What operator new and append() make of the heap and the list.
Extended(objs, h, l) ==
    /\ DOMAIN h \subseteq Objects /\ h = [f \in DOMAIN h |-> h[f]]
    /\ \A f \in DOMAIN heap : f \in DOMAIN h /\ h[f] = heap[f]
    /\ \A f \in DOMAIN h :
         f \in DOMAIN heap \/ \E n \in 1 .. Len(objs) : f = l[Len(lstFiles) + n]
    /\ IsSeq(l) /\ Len(l) = Len(lstFiles) + Len(objs)
    /\ \A n \in 1 .. Len(lstFiles) : l[n] = lstFiles[n]
    /\ \A n \in 1 .. Len(objs) : /\ l[Len(lstFiles) + n] \in DOMAIN h \ DOMAIN heap
                                 /\ h[l[Len(lstFiles) + n]] = objs[n]
    /\ ToSet(l) \subseteq DOMAIN h /\ IsInjective(l)

LEMMA Appending ==
    ASSUME HeapInv, NEW objs, IsSeq(objs), NEW h, NEW l,
           Cardinality(DOMAIN heap) + Len(objs) <= Cardinality(Objects),
           h = WithObjects(Unused(Len(objs)), objs),
           l = lstFiles \o Unused(Len(objs))
    PROVE  Extended(objs, h, l)
<1> DEFINE k == Len(objs)  m == Len(lstFiles)  addrs == Unused(k)
<1>1. k \in Nat /\ m \in Nat /\ DOMAIN heap \subseteq Objects
  BY DEF HeapInv, IsSeq
<1>2. /\ addrs \in [1 .. k -> Objects \ DOMAIN heap]
      /\ \A i, j \in 1 .. k : addrs[i] = addrs[j] => i = j
  BY <1>1, UnusedAddresses
<1>3. h = [f \in DOMAIN heap \cup ToSet(addrs) |->
             IF f \in DOMAIN heap THEN heap[f]
             ELSE objs[CHOOSE n \in DOMAIN addrs : addrs[n] = f]]
  BY DEF WithObjects
<1>4. l = lstFiles \o addrs
  OBVIOUS
<1> HIDE DEF addrs
<1>5. addrs \in Seq(Objects)
  BY <1>1, <1>2, SeqDef
<1>6. IsSeq(addrs) /\ Len(addrs) = k
  BY <1>1, <1>2, <1>5, SeqIsSeq
<1>7. DOMAIN addrs = 1 .. k /\ ToSet(addrs) = {addrs[n] : n \in 1 .. k}
  BY <1>6, ToSetOf
<1>8. /\ IsSeq(lstFiles) /\ ToSet(lstFiles) = {lstFiles[n] : n \in 1 .. m}
      /\ ToSet(lstFiles) \subseteq DOMAIN heap
      /\ \A i, j \in 1 .. m : lstFiles[i] = lstFiles[j] => i = j
  BY ToSetOf DEF HeapInv, IsInjective
<1>9. /\ IsSeq(l) /\ Len(l) = m + k
      /\ \A n \in 1 .. m : l[n] = lstFiles[n]
      /\ \A n \in 1 .. k : l[m + n] = addrs[n]
      /\ \A n \in 1 .. Len(l) : \/ n \in 1 .. m
                                \/ n - m \in 1 .. k /\ l[n] = addrs[n - m]
  <2>1. IsSeq(lstFiles) /\ IsSeq(addrs) /\ l = lstFiles \o addrs
    BY <1>4, <1>6, <1>8
  <2> QED
    BY <2>1, <1>6, Joined
<1> HIDE DEF k, m
<1>10. \A n \in 1 .. k : h[addrs[n]] = objs[n]
  <2> TAKE n \in 1 .. k
  <2>1. addrs[n] \in ToSet(addrs) /\ addrs[n] \notin DOMAIN heap
    BY <1>2, <1>7
  <2>2. (CHOOSE i \in DOMAIN addrs : addrs[i] = addrs[n]) = n
    BY <1>2, <1>7
  <2> QED
    BY <1>3, <2>1, <2>2
<1>11. DOMAIN h = DOMAIN heap \cup ToSet(addrs)
  BY <1>3
<1>12. h = [f \in DOMAIN h |-> h[f]]
  BY <1>3
<1>13. DOMAIN h \subseteq Objects
  BY <1>1, <1>2, <1>7, <1>11
<1>14. \A f \in DOMAIN heap : f \in DOMAIN h /\ h[f] = heap[f]
  BY <1>3, <1>11
<1>15. \A f \in DOMAIN h : f \in DOMAIN heap \/ \E n \in 1 .. k : f = l[m + n]
  BY <1>7, <1>9, <1>11
<1>16. \A n \in 1 .. k : l[m + n] \in DOMAIN h \ DOMAIN heap /\ h[l[m + n]] = objs[n]
  <2> TAKE n \in 1 .. k
  <2>1. addrs[n] \in ToSet(addrs) /\ addrs[n] \notin DOMAIN heap
    BY <1>2, <1>7
  <2>2. l[m + n] = addrs[n] /\ h[addrs[n]] = objs[n]
    BY <1>9, <1>10
  <2> QED
    BY <2>1, <2>2, <1>11
<1>17. ToSet(l) \subseteq DOMAIN h
  <2>0. IsSeq(l)
    BY <1>9
  <2>1. ToSet(l) = {l[n] : n \in 1 .. Len(l)}
    BY <2>0 DEF ToSet, IsSeq
  <2>2. ASSUME NEW n \in 1 .. Len(l) PROVE l[n] \in DOMAIN h
    <3>1. CASE n \in 1 .. m
      BY <3>1, <1>8, <1>9, <1>11
    <3>2. CASE n - m \in 1 .. k /\ l[n] = addrs[n - m]
      BY <3>2, <1>7, <1>11
    <3> QED
      BY <3>1, <3>2, <1>9
  <2> QED
    BY <2>1, <2>2
<1>18. IsInjective(l)
  <2>0. /\ \A n \in 1 .. m : l[n] \in DOMAIN heap
        /\ \A n \in 1 .. k : addrs[n] \notin DOMAIN heap
    BY <1>2, <1>8, <1>9
  <2>1. ASSUME NEW i \in 1 .. Len(l), NEW j \in 1 .. Len(l), l[i] = l[j] PROVE i = j
    <3>1. CASE i \in 1 .. m /\ j \in 1 .. m
      BY <2>1, <3>1, <1>8, <1>9
    <3>2. CASE i - m \in 1 .. k /\ l[i] = addrs[i - m] /\ j - m \in 1 .. k /\ l[j] = addrs[j - m]
      <4>1. i - m = j - m
        BY <2>1, <3>2, <1>2
      <4>2. i \in Int /\ j \in Int /\ m \in Int
        BY <1>1
      <4> QED
        BY <4>1, <4>2
    <3>3. CASE i \in 1 .. m /\ j - m \in 1 .. k /\ l[j] = addrs[j - m]
      BY <2>0, <2>1, <3>3
    <3>4. CASE j \in 1 .. m /\ i - m \in 1 .. k /\ l[i] = addrs[i - m]
      BY <2>0, <2>1, <3>4
    <3> QED
      BY <3>1, <3>2, <3>3, <3>4, <1>9
  <2> QED
    BY <2>1, <1>9, ToSetOf DEF IsInjective
<1> QED
  BY <1>9, <1>12, <1>13, <1>14, <1>15, <1>16, <1>17, <1>18 DEF Extended, k, m

LEMMA ImageCount ==
    ASSUME NEW k \in Nat, NEW s
    PROVE  LET T == {s[n] : n \in 1 .. k} IN IsFiniteSet(T) /\ Cardinality(T) <= k
<1> DEFINE T == {s[n] : n \in 1 .. k}
           f == [n \in 1 .. k |-> s[n]]
<1>1. f \in Surjection(1 .. k, T)
  BY DEF Surjection
<1>2. IsFiniteSet(1 .. k) /\ Cardinality(1 .. k) = k
  BY FS_Interval
<1> HIDE DEF f, T
<1>3. IsFiniteSet(T) /\ Cardinality(T) <= Cardinality(1 .. k)
  BY <1>1, <1>2, FS_Surjection
<1> QED
  BY <1>2, <1>3 DEF T

\* The objects are the lost ones and those of the list.
LEMMA HeapSize ==
    ASSUME HeapInv, ListHolds, Len(Fresh) \in Nat
    PROVE  Cardinality(DOMAIN heap) <= Cardinality(LostObjects) + Len(Fresh)
<1> DEFINE T == {lstFiles[n] : n \in 1 .. Len(Fresh)}
<1>1. IsFiniteSet(DOMAIN heap) /\ IsFiniteSet(LostObjects)
  BY ObjectsAssumption, FS_Subset DEF HeapInv, LostObjects
<1>2. IsFiniteSet(T) /\ Cardinality(T) <= Len(Fresh)
  BY ImageCount
<1>3. ASSUME NEW f \in DOMAIN heap, ~Lost(f) PROVE f \in T
  <2>1. ToSet(lstFiles) = {lstFiles[n] : n \in 1 .. Len(lstFiles)}
    BY ToSetOf DEF HeapInv
  <2>2. f \in ToSet(lstFiles)
    BY <1>3 DEF HeapInv
  <2>3. PICK n \in 1 .. Len(lstFiles) : f = lstFiles[n]
    BY <2>1, <2>2
  <2>4. n <= Len(Fresh)
    BY <1>3, <2>3 DEF ListHolds
  <2> QED
    BY <2>3, <2>4
<1> HIDE DEF T
<1>4. DOMAIN heap \subseteq LostObjects \cup T
  BY <1>3 DEF LostObjects
<1>5. /\ IsFiniteSet(LostObjects \cup T)
      /\ Cardinality(LostObjects \cup T)
           = Cardinality(LostObjects) + Cardinality(T) - Cardinality(LostObjects \cap T)
  BY <1>1, <1>2, FS_Union
<1>6. IsFiniteSet(LostObjects \cap T)
  BY <1>1, FS_Intersection
<1>7. Cardinality(DOMAIN heap) <= Cardinality(LostObjects \cup T)
  BY <1>4, <1>5, FS_Subset
<1>8. /\ Cardinality(DOMAIN heap) \in Nat /\ Cardinality(LostObjects) \in Nat
      /\ Cardinality(T) \in Nat /\ Cardinality(LostObjects \cap T) \in Nat
      /\ Cardinality(LostObjects \cup T) \in Nat
  BY <1>1, <1>2, <1>5, <1>6, FS_CardinalityType
<1> QED
  BY <1>2, <1>5, <1>7, <1>8

LEMMA FreshFiles ==
    ASSUME CardInv, IsOpen
    PROVE  /\ Img \in Images /\ IsSeq(Fresh) /\ Len(Fresh) \in Nat
           /\ Len(Fresh) <= MaxEntries(Img)
           /\ \A n \in 1 .. Len(Fresh) : FileObject(Fresh[n]) /\ ~Fresh[n].lost
<1>1. Img \in Images /\ dat \in TableIdx
  BY DEF CardInv, IsOpen, Img
<1>2. /\ IsSeq(Fresh) /\ Len(Fresh) <= MaxEntries(Img)
      /\ \A n \in 1 .. Len(Fresh) : FileObject(Fresh[n]) /\ ~Fresh[n].lost
  BY <1>1, TableFiles DEF Fresh
<1> QED
  BY <1>1, <1>2 DEF IsSeq

LEMMA Entries ==
    ASSUME NEW i \in Images
    PROVE  MaxEntries(i) \in Nat
<1> DEFINE m == Len(i.dats[0].entries)  n == Len(i.dats[1].entries)
<1>1. m \in Nat /\ n \in Nat
  BY ImagesAssumption DEF IsImage, TableIdx
<1>2. MaxEntries(i) = IF m > n THEN m ELSE n
  BY DEF MaxEntries
<1> HIDE DEF m, n
<1> QED
  BY <1>1, <1>2

LEMMA Numbers ==
    ASSUME HeapInv, CardInv, IsOpen
    PROVE  /\ Cardinality(Objects) \in Nat /\ Cardinality(LostObjects) \in Nat
           /\ Cardinality(DOMAIN heap) \in Nat /\ MaxEntries(Img) \in Nat /\ Free \in Nat
<1>1. IsFiniteSet(DOMAIN heap) /\ IsFiniteSet(LostObjects) /\ IsFiniteSet(Objects)
  BY ObjectsAssumption, FS_Subset DEF HeapInv, LostObjects
<1>2. MaxEntries(Img) \in Nat
  BY FreshFiles, Entries
<1>3. /\ Cardinality(Objects) \in Nat /\ Cardinality(LostObjects) \in Nat
      /\ Cardinality(DOMAIN heap) \in Nat
  BY <1>1, FS_CardinalityType
<1> QED
  BY <1>2, <1>3 DEF Free, HeapInv

-----------------------------------------------------------------------------
(* Steps that leave a part of the state alone *)

LEMMA ListedStays ==
    ASSUME Listed, image' = image, dat' = dat, bat' = bat, heap' = heap,
           lstFiles' = lstFiles, usedBlockMap' = usedBlockMap
    PROVE  Listed'
BY DEF Listed, ListHolds, MapHolds, Fresh, Img, Lost

LEMMA SteadyStays ==
    ASSUME Steady, image' = image, heap' = heap, lstFiles' = lstFiles,
           attached' = attached, insertRange' = insertRange, change' = change,
           rows' = rows, fileCount' = fileCount, animState' = animState
    PROVE  Steady'
BY DEF Steady, IsOpen, AnimatedIn, Animated

LEMMA FreeStays ==
    ASSUME image' = image, heap' = heap
    PROVE  Free' = Free
BY DEF Free, Img, LostObjects, Lost

-----------------------------------------------------------------------------
(* From step to step: opening and closing *)

LEMMA AfterDetach == ASSUME AtDetach, Detach PROVE AtDetached'
<1>1. /\ Detaches(Tail(todo)) /\ todo' = Tail(todo) /\ lstFiles' = lstFiles
      /\ attached' = attached /\ fileCount' = fileCount /\ insertRange' = insertRange
      /\ rows' = rows
      /\ change' = IF attached /\ Len(lstFiles) > 0
                   THEN [kind |-> "remove", first |-> 0, last |-> Len(lstFiles) - 1]
                   ELSE change
  BY DEF AtDetach, Detach, StepDone, BeginDetach, BeginRemoveRows
<1>2. CASE Steady
  BY <1>1, <1>2 DEF Steady, AtDetached
<1>3. CASE Apart
  BY <1>1, <1>3 DEF Apart, AtDetached
<1> QED
  BY <1>2, <1>3 DEF AtDetach

LEMMA AfterDetached == ASSUME HeapInv, AtDetached, Detached PROVE AtClearViews'
<1>1. /\ Clears(Tail(todo)) /\ todo' = Tail(todo) /\ attached' = FALSE
      /\ fileCount' = (IF attached THEN 0 ELSE fileCount) /\ insertRange' = insertRange
      /\ IF change # NoChange THEN EndRows ELSE NoRows
  BY DEF AtDetached, Detaches, Detached, StepDone, EndDetach
<1>2. CASE Apart
  BY <1>1, <1>2 DEF Apart, AtClearViews, NoRows
<1>3. CASE attached /\ change = NoChange /\ rows = 0
  BY <1>1, <1>3 DEF AtDetached, Apart, AtClearViews, NoRows
<1>4. CASE /\ attached /\ Len(lstFiles) > 0 /\ rows = Len(lstFiles)
           /\ change = [kind |-> "remove", first |-> 0, last |-> Len(lstFiles) - 1]
  <2>1. Len(lstFiles) \in Nat
    BY DEF HeapInv, IsSeq
  <2>2. change.kind = "remove" /\ change.first = 0 /\ change.last = Len(lstFiles) - 1
    BY <1>4
  <2>3. change # NoChange
    BY <2>2 DEF NoChange
  <2>4. rows' = 0 /\ change' = NoChange
    BY <1>1, <1>4, <2>1, <2>2, <2>3 DEF EndRows
  <2> QED
    BY <1>1, <1>4, <2>4 DEF AtDetached, Apart, AtClearViews
<1> QED
  BY <1>2, <1>3, <1>4 DEF AtDetached, HeapInv, IsSeq

LEMMA AfterClearViews == ASSUME AtClearViews, ClearViews PROVE AtDelete'
BY DEF AtClearViews, AtDelete, ClearViews, Clears, StepDone, Apart, modelVars

LEMMA AfterDelete == ASSUME AtDelete, Delete PROVE AtIdle' \/ AtOpen'
BY DEF AtDelete, AtIdle, AtOpen, Deletes, Opens, Delete, DeleteCard, Apart, NoCard,
       IsOpen, modelVars, Next1, Doing

\* closeCard() and what may follow it.
LEMMA Closing ==
    ASSUME NEW s, Known(s), Opens(s)
    PROVE  LET t == CloseSteps \o s IN
           Known(t) /\ Next1(t, "detach") /\ Detaches(Tail(t))
<1> DEFINE a == Step("detach")  b == Step("detached")
           c == Step("clearViews")  d == Step("delete")
           s1 == <<d>> \o s  s2 == <<c>> \o s1  s3 == <<b>> \o s2  s4 == <<a>> \o s3
<1>0. CloseSteps = <<a, b, c, d>>
  BY DEF CloseSteps
<1>1. /\ a.op = "detach" /\ b.op = "detached" /\ c.op = "clearViews" /\ d.op = "delete"
      /\ {"detach", "detached", "clearViews", "delete"} \subseteq StepNames
  BY DEF Step, StepNames
<1> HIDE DEF a, b, c, d
<1>2. IsSeq(s)
  BY DEF Known
<1>3. <<a, b, c, d>> \o s = s4
  BY <1>2, PushedFour
<1>4. IsSeq(s1) /\ s1 # << >> /\ Head(s1) = d /\ Tail(s1) = s /\ Known(s1)
  BY <1>1, <1>2, Pushed
<1> HIDE DEF s1
<1>5. IsSeq(s2) /\ s2 # << >> /\ Head(s2) = c /\ Tail(s2) = s1 /\ Known(s2)
  BY <1>1, <1>4, Pushed
<1> HIDE DEF s2
<1>6. IsSeq(s3) /\ s3 # << >> /\ Head(s3) = b /\ Tail(s3) = s2 /\ Known(s3)
  BY <1>1, <1>5, Pushed
<1> HIDE DEF s3
<1>7. IsSeq(s4) /\ s4 # << >> /\ Head(s4) = a /\ Tail(s4) = s3 /\ Known(s4)
  BY <1>1, <1>6, Pushed
<1> HIDE DEF s4
<1>8. Next1(s4, "detach") /\ Detaches(Tail(s4))
  BY <1>1, <1>4, <1>5, <1>6, <1>7 DEF Next1, Detaches, Clears, Deletes
<1> QED
  BY <1>0, <1>3, <1>7, <1>8

LEMMA OpenIsKnown ==
    /\ Known(<< >>) /\ Opens(<< >>)
    /\ Known(<<Step("open")>>) /\ Opens(<<Step("open")>>)
<1>1. IsSeq(<< >>) /\ Len(<< >>) = 0 /\ IsSeq(<<Step("open")>>) /\ Len(<<Step("open")>>) = 1
  BY LiteralSeqs
<1>2. Step("open").op = "open" /\ "open" \in StepNames
  BY DEF Step, StepNames
<1>3. Head(<<Step("open")>>) = Step("open") /\ Tail(<<Step("open")>>) = << >>
      /\ <<Step("open")>>[1] = Step("open") /\ <<Step("open")>> # << >>
  BY DEF Step
<1>4. Known(<< >>) /\ Opens(<< >>)
  BY <1>1 DEF Known, Opens
<1>5. Known(<<Step("open")>>)
  BY <1>1, <1>2, <1>3 DEF Known
<1>6. Opens(<<Step("open")>>)
  BY <1>2, <1>3 DEF Opens, Next1
<1> QED
  BY <1>4, <1>5, <1>6

LEMMA AfterOpenCard == ASSUME AtIdle, OpenCard PROVE (AtOpen \/ AtDetach)' /\ Known(todo')
<1>1. UNCHANGED <<tableVars, heap, lstFiles, usedBlockMap, modelVars>>
  BY DEF OpenCard
<1>2. CASE ~IsOpen
  <2>1. todo' = <<Step("open")>>
    BY <1>2, OpenIsKnown, NoMore DEF OpenCard, Known
  <2>2. todo' # << >> /\ Head(todo').op = "open" /\ Tail(todo') = << >>
    BY <2>1 DEF Step
  <2>3. Known(todo')
    BY <2>1, OpenIsKnown
  <2> QED
    BY <1>1, <1>2, <2>2, <2>3 DEF AtIdle, AtOpen, Apart, NoCard, Doing, IsOpen, Steady,
         modelVars, tableVars
<1>3. CASE IsOpen
  <2>1. todo' = CloseSteps \o <<Step("open")>>
    BY <1>3 DEF OpenCard
  <2>2. Known(todo') /\ Next1(todo', "detach") /\ Detaches(Tail(todo'))
    BY <2>1, OpenIsKnown, Closing
  <2>3. Steady'
    BY <1>1, <1>3, SteadyStays DEF AtIdle, NoCard, tableVars, modelVars
  <2> QED
    BY <2>2, <2>3 DEF AtDetach, Doing, Next1
<1> QED
  BY <1>2, <1>3

LEMMA AfterCloseCard == ASSUME AtIdle, CloseCard PROVE AtDetach' /\ Known(todo')
<1>1. UNCHANGED <<tableVars, heap, lstFiles, usedBlockMap, modelVars>>
  BY DEF CloseCard
<1>2. todo' = CloseSteps \o << >>
  <2>1. IsSeq(CloseSteps)
    BY LiteralSeqs DEF CloseSteps
  <2> QED
    BY <2>1, NoMore DEF CloseCard
<1>3. Known(todo') /\ Next1(todo', "detach") /\ Detaches(Tail(todo'))
  BY <1>2, OpenIsKnown, Closing
<1>4. Steady'
  BY <1>1, SteadyStays DEF AtIdle, CloseCard, NoCard, tableVars, modelVars
<1> QED
  BY <1>3, <1>4 DEF AtDetach, Doing, Next1

-----------------------------------------------------------------------------
(* New files in the list *)

Grows(objs) ==
    /\ IsSeq(objs) /\ \A n \in 1 .. Len(objs) : FileObject(objs[n])
    /\ Cardinality(DOMAIN heap) + Len(objs) <= Cardinality(Objects)
    /\ heap' = WithObjects(Unused(Len(objs)), objs)
    /\ lstFiles' = lstFiles \o Unused(Len(objs))

LEMMA NewHeap ==
    ASSUME HeapInv, NEW objs, Grows(objs), IsOpen' => Free' >= 0
    PROVE  HeapInv'
<1> DEFINE h == heap'  l == lstFiles'
<1>1. IsSeq(objs) /\ \A n \in 1 .. Len(objs) : FileObject(objs[n])
  BY DEF Grows
<1>2. /\ DOMAIN h \subseteq Objects /\ h = [f \in DOMAIN h |-> h[f]]
      /\ \A f \in DOMAIN heap : f \in DOMAIN h /\ h[f] = heap[f]
      /\ \A f \in DOMAIN h :
           f \in DOMAIN heap \/ \E n \in 1 .. Len(objs) : f = l[Len(lstFiles) + n]
      /\ IsSeq(l) /\ Len(l) = Len(lstFiles) + Len(objs)
      /\ \A n \in 1 .. Len(lstFiles) : l[n] = lstFiles[n]
      /\ \A n \in 1 .. Len(objs) : /\ l[Len(lstFiles) + n] \in DOMAIN h \ DOMAIN heap
                                   /\ h[l[Len(lstFiles) + n]] = objs[n]
      /\ ToSet(l) \subseteq DOMAIN h /\ IsInjective(l)
  <2>1. Extended(objs, heap', lstFiles')
    BY Appending DEF Grows
  <2> QED
    BY <2>1 DEF Extended
<1>3. Len(lstFiles) \in Nat /\ Len(objs) \in Nat /\ IsSeq(lstFiles)
  BY DEF HeapInv, Grows, IsSeq
<1>4. ToSet(l) = {l[n] : n \in 1 .. Len(l)} /\ ToSet(lstFiles) = {lstFiles[n] : n \in 1 .. Len(lstFiles)}
  BY <1>2, <1>3, ToSetOf
<1>5. \A n \in 1 .. Len(objs) : Len(lstFiles) + n \in 1 .. Len(l)
  BY <1>2, <1>3
<1>6. ASSUME NEW f \in DOMAIN h
      PROVE  FileObject(h[f]) /\ (h[f].lost \/ f \in ToSet(l))
  <2>1. CASE f \in DOMAIN heap
    <3>1. FileObject(heap[f]) /\ (heap[f].lost \/ f \in ToSet(lstFiles)) /\ h[f] = heap[f]
      BY <1>2, <2>1 DEF HeapInv, Lost
    <3>2. f \in ToSet(lstFiles) => f \in ToSet(l)
      BY <1>2, <1>3, <1>4
    <3> QED
      BY <3>1, <3>2
  <2>2. CASE \E n \in 1 .. Len(objs) : f = l[Len(lstFiles) + n]
    BY <2>2, <1>1, <1>2, <1>4, <1>5
  <2> QED
    BY <1>2, <2>1, <2>2
<1> QED
  BY <1>2, <1>6 DEF HeapInv, Lost

LEMMA NewList ==
    ASSUME HeapInv, NEW objs, Grows(objs),
           \/ lstFiles = << >> /\ objs = Fresh'
           \/ /\ ListHolds /\ Fresh' = Fresh /\ Len(Fresh) \in Nat
              /\ \A n \in 1 .. Len(objs) : objs[n].lost
    PROVE  ListHolds'
<1> DEFINE h == heap'  l == lstFiles'  k == Len(lstFiles)
<1>1. /\ \A f \in DOMAIN heap : h[f] = heap[f]
      /\ IsSeq(l) /\ Len(l) = k + Len(objs)
      /\ \A n \in 1 .. k : l[n] = lstFiles[n]
      /\ \A n \in 1 .. Len(objs) : h[l[k + n]] = objs[n]
  <2>1. Extended(objs, heap', lstFiles')
    BY Appending DEF Grows
  <2> QED
    BY <2>1 DEF Extended
<1>2. k \in Nat /\ Len(objs) \in Nat /\ IsSeq(lstFiles)
  BY DEF HeapInv, Grows, IsSeq
<1>3. CASE lstFiles = << >> /\ objs = Fresh'
  <2>1. k = 0
    BY <1>3
  <2>2. \A n \in 1 .. Len(l) : h[l[n]] = objs[n]
    BY <1>1, <1>2, <2>1
  <2> QED
    BY <1>1, <1>2, <1>3, <2>1, <2>2 DEF ListHolds
<1>4. CASE /\ ListHolds /\ Fresh' = Fresh /\ Len(Fresh) \in Nat
           /\ \A n \in 1 .. Len(objs) : objs[n].lost
  <2>1. \A n \in 1 .. k : lstFiles[n] \in DOMAIN heap
    BY <1>2, ToSetOf DEF HeapInv
  <2>2. Len(Fresh) <= k
    BY <1>4 DEF ListHolds
  <2>3. ASSUME NEW n \in 1 .. Len(l)
        PROVE  IF n <= Len(Fresh) THEN h[l[n]] = Fresh[n] ELSE h[l[n]].lost
    <3>1. CASE n \in 1 .. k
      <4>1. h[l[n]] = heap[lstFiles[n]]
        BY <1>1, <2>1, <3>1
      <4> QED
        BY <4>1, <3>1, <1>4 DEF ListHolds, Lost
    <3>2. CASE n \notin 1 .. k
      <4>1. PICK j \in 1 .. Len(objs) : n = k + j
        <5>1. n - k \in 1 .. Len(objs) /\ n = k + (n - k)
          BY <1>1, <1>2, <3>2
        <5> QED
          BY <5>1
      <4>2. h[l[n]].lost
        BY <1>1, <1>4, <4>1
      <4> QED
        BY <4>1, <4>2, <1>2, <1>4, <2>2
    <3> QED
      BY <3>1, <3>2
  <2>4. Len(Fresh) <= Len(l)
    BY <1>1, <1>2, <1>4, <2>2
  <2> QED
    BY <1>4, <2>3, <2>4 DEF ListHolds, Lost
<1> QED
  BY <1>3, <1>4

-----------------------------------------------------------------------------
(* Opening an image *)

\* checkTables() finds a valid table if there is one, the newer one of two.
LEMMA ActiveIsBest ==
    ASSUME NEW tables, tables[0].updated \in Nat, tables[1].updated \in Nat, NEW valid
    PROVE  LET a == ActiveTable(tables, valid) IN
           /\ a \in {-1, 0, 1}
           /\ a = -1 => \A t \in TableIdx : t \notin valid
           /\ a # -1 => /\ a \in TableIdx /\ a \in valid
                        /\ 1 - a \in valid => tables[a].updated >= tables[1 - a].updated
           /\ ReadTable(a) \in TableIdx
<1> DEFINE t == Newer(tables)
<1>1. /\ t \in {0, 1} /\ 1 - t \in {0, 1} /\ 1 - (1 - t) = t /\ {t, 1 - t} = {0, 1}
      /\ tables[t].updated >= tables[1 - t].updated
  BY DEF Newer
<1>2. ActiveTable(tables, valid) =
        IF t \in valid THEN t ELSE IF 1 - t \in valid THEN 1 - t ELSE -1
  BY DEF ActiveTable
<1> HIDE DEF t
<1>3. CASE t \in valid
  <2>1. ActiveTable(tables, valid) = t
    BY <1>2, <1>3
  <2> QED
    BY <2>1, <1>1, <1>3 DEF ReadTable, TableIdx
<1>4. CASE t \notin valid /\ 1 - t \in valid
  <2>1. ActiveTable(tables, valid) = 1 - t
    BY <1>2, <1>4
  <2> QED
    BY <2>1, <1>1, <1>4 DEF ReadTable, TableIdx
<1>5. CASE t \notin valid /\ 1 - t \notin valid
  <2>1. ActiveTable(tables, valid) = -1
    BY <1>2, <1>5
  <2>2. \A x \in TableIdx : x = t \/ x = 1 - t
    BY <1>1 DEF TableIdx
  <2> QED
    BY <2>1, <2>2, <1>5 DEF ReadTable, TableIdx
<1> QED
  BY <1>3, <1>4, <1>5

LEMMA VisitsFinite ==
    ASSUME NEW files, IsSeq(files), NEW b
    PROVE  IsFiniteSet(Visits(files, b)) /\ Cardinality(Visits(files, b)) \in Nat
<1>1. DOMAIN files = 1 .. Len(files) /\ Len(files) \in Nat
  BY DEF IsSeq
<1>2. IsFiniteSet(DOMAIN files) /\ IsFiniteSet(1 .. FatSize)
  BY <1>1, SizesAssumption, FS_Interval
<1>3. IsFiniteSet((DOMAIN files) \X (1 .. FatSize))
  BY <1>2, FS_Product
<1>4. Visits(files, b) \subseteq (DOMAIN files) \X (1 .. FatSize)
  BY DEF Visits
<1>5. IsFiniteSet(Visits(files, b))
  BY <1>3, <1>4, FS_Subset
<1> QED
  BY <1>5, FS_CardinalityType

LEMMA MapTyped ==
    ASSUME NEW files, IsSeq(files)
    PROVE  CountUses(ResetMap, files) \in [0 .. TotalPhys - 1 -> 0 .. MaxCount]
<1>1. \A b : IsFiniteSet(Visits(files, b)) /\ Cardinality(Visits(files, b)) \in Nat
  BY VisitsFinite
<1>2. ASSUME NEW n \in Nat PROVE Saturated(n) \in 0 .. MaxCount
  BY SizesAssumption DEF Saturated
<1>3. DOMAIN ResetMap = 0 .. TotalPhys - 1
  BY DEF ResetMap
<1>4. ASSUME NEW b \in 0 .. TotalPhys - 1
      PROVE  (IF b < FirstBlock THEN ResetMap[b]
              ELSE Saturated(ResetMap[b] + Cardinality(Visits(files, b)))) \in 0 .. MaxCount
  <2>1. ResetMap[b] = IF b < FirstBlock THEN 1 ELSE 0
    BY DEF ResetMap
  <2>2. CASE b < FirstBlock
    BY <2>1, <2>2, SizesAssumption
  <2>3. CASE ~(b < FirstBlock)
    <3>1. ResetMap[b] + Cardinality(Visits(files, b)) \in Nat
      BY <1>1, <2>1, <2>3
    <3> QED
      BY <1>2, <2>3, <3>1
  <2> QED
    BY <2>2, <2>3
<1> QED
  BY <1>3, <1>4 DEF CountUses

LEMMA AfterOpenImage ==
    ASSUME HeapInv, Apart, NoCard, NEW i \in Images, OpenImage(i), UNCHANGED modelVars
    PROVE  /\ HeapInv' /\ Apart' /\ IsOpen' /\ Listed' /\ OpenedWithBestTables'
           /\ image' = <<i>> /\ dat' \in TableIdx /\ bat' \in TableIdx
           /\ datActive' \in {-1, 0, 1} /\ batActive' \in {-1, 0, 1} /\ freeBlocks' \in Nat
           /\ usedBlockMap' \in [0 .. TotalPhys - 1 -> 0 .. MaxCount]
<1> DEFINE d == ActiveDat(i)  b == ActiveBat(i)
           objs == FilesOfTables(i, ReadTable(d), ReadTable(b))
<1>1. /\ image' = <<i>> /\ dat' = ReadTable(d) /\ datActive' = d
      /\ bat' = ReadTable(b) /\ batActive' = b
      /\ freeBlocks' = i.bats[ReadTable(b)].freeblocks
      /\ heap' = WithObjects(Unused(Len(objs)), objs)
      /\ lstFiles' = Unused(Len(objs))
      /\ usedBlockMap' = CountUses(ResetMap, objs)
  BY DEF OpenImage
<1>2. IsImage(i)
  BY ImagesAssumption
<1>3. /\ d \in {-1, 0, 1} /\ ReadTable(d) \in TableIdx
      /\ d = -1 => \A t \in TableIdx : ~DatValid(i, t)
      /\ d # -1 => /\ DatValid(i, d)
                   /\ DatValid(i, 1 - d) => i.dats[d].updated >= i.dats[1 - d].updated
  <2>1. i.dats[0].updated \in Nat /\ i.dats[1].updated \in Nat
    BY <1>2 DEF IsImage, TableIdx
  <2> DEFINE valid == {t \in TableIdx : DatValid(i, t)}
  <2>2. d = ActiveTable(i.dats, valid)
    BY DEF ActiveDat
  <2>3. \A t : t \in valid => DatValid(i, t)
    OBVIOUS
  <2>4. \A t \in TableIdx : DatValid(i, t) => t \in valid
    OBVIOUS
  <2> HIDE DEF valid, d
  <2>5. /\ d \in {-1, 0, 1}
        /\ d = -1 => \A t \in TableIdx : t \notin valid
        /\ d # -1 => /\ d \in TableIdx /\ d \in valid
                     /\ 1 - d \in valid => i.dats[d].updated >= i.dats[1 - d].updated
        /\ ReadTable(d) \in TableIdx
    BY <2>1, <2>2, ActiveIsBest
  <2>6. d # -1 => 1 - d \in TableIdx
    BY <2>5 DEF TableIdx
  <2> QED
    BY <2>3, <2>4, <2>5, <2>6
<1>4. /\ b \in {-1, 0, 1} /\ ReadTable(b) \in TableIdx
      /\ b = -1 => \A t \in TableIdx : ~BatValid(i, t)
      /\ b # -1 => /\ BatValid(i, b)
                   /\ BatValid(i, 1 - b) => i.bats[b].updated >= i.bats[1 - b].updated
  <2>1. i.bats[0].updated \in Nat /\ i.bats[1].updated \in Nat
    BY <1>2 DEF IsImage, TableIdx
  <2> DEFINE valid == {t \in TableIdx : BatValid(i, t)}
  <2>2. b = ActiveTable(i.bats, valid)
    BY DEF ActiveBat
  <2>3. \A t : t \in valid => BatValid(i, t)
    OBVIOUS
  <2>4. \A t \in TableIdx : BatValid(i, t) => t \in valid
    OBVIOUS
  <2> HIDE DEF valid, b
  <2>5. /\ b \in {-1, 0, 1}
        /\ b = -1 => \A t \in TableIdx : t \notin valid
        /\ b # -1 => /\ b \in TableIdx /\ b \in valid
                     /\ 1 - b \in valid => i.bats[b].updated >= i.bats[1 - b].updated
        /\ ReadTable(b) \in TableIdx
    BY <2>1, <2>2, ActiveIsBest
  <2>6. b # -1 => 1 - b \in TableIdx
    BY <2>5 DEF TableIdx
  <2> QED
    BY <2>3, <2>4, <2>5, <2>6
<1> HIDE DEF d, b
<1>5. Img' = i /\ IsOpen' /\ Fresh' = objs
  BY <1>1 DEF Img, IsOpen, Fresh
<1>6. freeBlocks' \in Nat
  BY <1>1, <1>2, <1>4 DEF IsImage
<1>7. /\ IsSeq(objs) /\ Len(objs) <= MaxEntries(i)
      /\ \A n \in 1 .. Len(objs) : FileObject(objs[n]) /\ ~objs[n].lost
  BY <1>3, <1>4, TableFiles
<1> HIDE DEF objs
<1>8. Cardinality(DOMAIN heap) = 0 /\ lstFiles = << >>
  BY FS_EmptySet DEF NoCard
<1>9. MaxEntries(i) \in Nat /\ MaxEntries(i) <= Cardinality(Objects)
  BY Entries, BoundsAssumption
<1>10. Cardinality(Objects) \in Nat /\ Len(objs) \in Nat
  BY <1>7, ObjectsAssumption, FS_CardinalityType DEF IsSeq
<1>11. Grows(objs)
  <2>1. IsSeq(Unused(Len(objs)))
    <3>1. Unused(Len(objs)) \in [1 .. Len(objs) -> Objects \ DOMAIN heap]
      BY <1>7, <1>8, <1>9, <1>10, UnusedAddresses DEF HeapInv
    <3>2. Unused(Len(objs)) \in Seq(Objects \ DOMAIN heap)
      BY <3>1, <1>10, SeqDef
    <3> QED
      BY <3>2, SeqIsSeq
  <2>2. lstFiles' = lstFiles \o Unused(Len(objs))
    BY <2>1, <1>1, <1>8, NoMore
  <2>3. Cardinality(DOMAIN heap) + Len(objs) <= Cardinality(Objects)
    BY <1>7, <1>8, <1>9, <1>10
  <2> QED
    BY <2>2, <2>3, <1>1, <1>7 DEF Grows
<1>12. LostObjects' = {}
  <2>1. Extended(objs, heap', lstFiles')
    BY <1>7, <1>11, Appending DEF Grows
  <2>2. \A f \in DOMAIN heap' : \E n \in 1 .. Len(objs) : heap'[f] = objs[n]
    <3>1. \A f \in DOMAIN heap' : f \in DOMAIN heap
              \/ \E n \in 1 .. Len(objs) : heap'[f] = objs[n]
      BY <2>1 DEF Extended
    <3>2. DOMAIN heap = {}
      BY DEF NoCard
    <3> QED
      BY <3>1, <3>2
  <2> QED
    BY <2>2, <1>7 DEF LostObjects, Lost
<1>13. Free' >= 0
  BY <1>5, <1>9, <1>10, <1>12, FS_EmptySet DEF Free
<1>14. HeapInv'
  BY <1>11, <1>13, NewHeap
<1>15. Listed'
  BY <1>1, <1>5, <1>8, <1>11, NewList DEF Listed, MapHolds
<1>16. OpenedWithBestTables'
  BY <1>1, <1>3, <1>4, <1>5 DEF OpenedWithBestTables
<1>17. usedBlockMap' \in [0 .. TotalPhys - 1 -> 0 .. MaxCount]
  BY <1>1, <1>7, MapTyped
<1>18. Apart'
  BY DEF Apart, modelVars
<1> QED
  BY <1>1, <1>3, <1>4, <1>5, <1>6, <1>14, <1>15, <1>16, <1>17, <1>18

-----------------------------------------------------------------------------
(* From step to step: which step is next *)

LEMMA Whereabouts ==
    /\ AtIdle => todo = << >>
    /\ AtDetach => Doing("detach")
    /\ AtDetached => Doing("detached")
    /\ AtClearViews => Doing("clearViews")
    /\ AtDelete => Doing("delete")
    /\ AtOpen => Doing("open")
    /\ AtAttach => Doing("attach")
    /\ AtAttached => Doing("attached")
    /\ AtShowCard => Doing("showCard")
    /\ AtRemoving => Doing("aboutToBeRemoved")
    /\ AtDeleteAll => Doing("deleteAll")
    /\ AtRemove => Doing("remove")
    /\ AtRemoved => Doing("removed")
    /\ AtLoad => Doing("load")
    /\ AtRemoveLost => Doing("removeLost")
    /\ AtAddLost => Doing("addLost")
    /\ AtInserting => Doing("aboutToBeInserted")
    /\ AtAppend => Doing("append")
    /\ AtInserted => Doing("inserted")
    /\ AtBlockCount => Doing("blockCount")
    /\ AtTableChange => Doing("datChanged") \/ Doing("batChanged")
<1> USE DEF Doing, Next1
<1>1. /\ AtIdle => todo = << >>
      /\ AtDetach => Doing("detach")
      /\ AtDetached => Doing("detached")
      /\ AtClearViews => Doing("clearViews")
      /\ AtDelete => Doing("delete")
      /\ AtOpen => Doing("open")
      /\ AtAttach => Doing("attach")
  BY DEF AtIdle, AtDetach, AtDetached, AtClearViews, AtDelete, AtOpen, AtAttach,
         Detaches, Clears, Deletes
<1>2. /\ AtAttached => Doing("attached")
      /\ AtShowCard => Doing("showCard")
      /\ AtRemoving => Doing("aboutToBeRemoved")
      /\ AtDeleteAll => Doing("deleteAll")
      /\ AtRemove => Doing("remove")
      /\ AtRemoved => Doing("removed")
      /\ AtLoad => Doing("load")
  BY DEF AtAttached, AtShowCard, AtRemoving, AtDeleteAll, AtRemove, AtRemoved, AtLoad,
         Attaches, Shows, Loads
<1>3. /\ AtRemoveLost => Doing("removeLost")
      /\ AtAddLost => Doing("addLost")
      /\ AtInserting => Doing("aboutToBeInserted")
      /\ AtAppend => Doing("append")
      /\ AtInserted => Doing("inserted")
      /\ AtBlockCount => Doing("blockCount")
      /\ AtTableChange => Doing("datChanged") \/ Doing("batChanged")
  BY DEF AtRemoveLost, AtAddLost, AtInserting, AtAppend, AtInserted, AtBlockCount,
         AtTableChange, RemovesLost, AddsLost, Appends, Inserted, Counts, TableChange
<1> QED
  BY <1>1, <1>2, <1>3

LEMMA Where ==
    ASSUME Place
    PROVE  /\ Idle => AtIdle
           /\ Doing("detach") => AtDetach
           /\ Doing("detached") => AtDetached
           /\ Doing("clearViews") => AtClearViews
           /\ Doing("delete") => AtDelete
           /\ Doing("open") => AtOpen
           /\ Doing("attach") => AtAttach
           /\ Doing("attached") => AtAttached
           /\ Doing("showCard") => AtShowCard
           /\ Doing("aboutToBeRemoved") => AtRemoving
           /\ Doing("deleteAll") => AtDeleteAll
           /\ Doing("remove") => AtRemove
           /\ Doing("removed") => AtRemoved
           /\ Doing("load") => AtLoad
           /\ Doing("removeLost") => AtRemoveLost
           /\ Doing("addLost") => AtAddLost
           /\ Doing("aboutToBeInserted") => AtInserting
           /\ Doing("append") => AtAppend
           /\ Doing("inserted") => AtInserted
           /\ Doing("blockCount") => AtBlockCount
           /\ Doing("datChanged") \/ Doing("batChanged") => AtTableChange
<1>1. Idle => AtIdle
  BY Whereabouts DEF Place, Idle, Doing
<1>2. ASSUME todo # << >>
      PROVE  /\ Doing("detach") => AtDetach
             /\ Doing("detached") => AtDetached
             /\ Doing("clearViews") => AtClearViews
             /\ Doing("delete") => AtDelete
             /\ Doing("open") => AtOpen
             /\ Doing("attach") => AtAttach
             /\ Doing("attached") => AtAttached
             /\ Doing("showCard") => AtShowCard
             /\ Doing("aboutToBeRemoved") => AtRemoving
             /\ Doing("deleteAll") => AtDeleteAll
             /\ Doing("remove") => AtRemove
             /\ Doing("removed") => AtRemoved
             /\ Doing("load") => AtLoad
             /\ Doing("removeLost") => AtRemoveLost
             /\ Doing("addLost") => AtAddLost
             /\ Doing("aboutToBeInserted") => AtInserting
             /\ Doing("append") => AtAppend
             /\ Doing("inserted") => AtInserted
             /\ Doing("blockCount") => AtBlockCount
             /\ Doing("datChanged") \/ Doing("batChanged") => AtTableChange
  BY <1>2, Whereabouts DEF Place, Doing
<1> QED
  BY <1>1, <1>2 DEF Doing

LEMMA PopKnown ==
    ASSUME NEW s, Known(s), s # << >>
    PROVE  Known(Tail(s))
<1>1. /\ IsSeq(s) /\ IsSeq(Tail(s)) /\ Len(s) > 0 /\ Len(Tail(s)) = Len(s) - 1
      /\ \A n \in 1 .. Len(Tail(s)) : Tail(s)[n] = s[n + 1]
  BY Popped DEF Known
<1>2. ASSUME NEW n \in 1 .. Len(Tail(s)) PROVE n + 1 \in 1 .. Len(s)
  BY <1>1 DEF IsSeq
<1> QED
  BY <1>1, <1>2 DEF Known

-----------------------------------------------------------------------------
(* From step to step: a card is opened and shown *)

LEMMA Attaching ==
    LET t == << Step("attach"), Step("attached"), Step("showCard") >> IN
    Known(t) /\ Next1(t, "attach") /\ Attaches(Tail(t))
<1> DEFINE a == Step("attach")  b == Step("attached")  c == Step("showCard")
           s1 == <<c>> \o << >>  s2 == <<b>> \o s1  s3 == <<a>> \o s2
<1>0. << Step("attach"), Step("attached"), Step("showCard") >> = <<a, b, c>>
  OBVIOUS
<1>1. /\ a.op = "attach" /\ b.op = "attached" /\ c.op = "showCard"
      /\ {"attach", "attached", "showCard"} \subseteq StepNames
  BY DEF Step, StepNames
<1> HIDE DEF a, b, c
<1>2. IsSeq(<< >>) /\ Known(<< >>)
  BY OpenIsKnown DEF Known
<1>3. <<a, b, c>> = s3
  <2>1. IsSeq(<<a, b, c>>)
    BY LiteralSeqs
  <2>2. <<a, b, c>> \o << >> = s3
    BY <1>2, PushedThree
  <2> QED
    BY <2>1, <2>2, NoMore
<1>4. IsSeq(s1) /\ s1 # << >> /\ Head(s1) = c /\ Tail(s1) = << >> /\ Known(s1)
  BY <1>1, <1>2, Pushed
<1> HIDE DEF s1
<1>5. IsSeq(s2) /\ s2 # << >> /\ Head(s2) = b /\ Tail(s2) = s1 /\ Known(s2)
  BY <1>1, <1>4, Pushed
<1> HIDE DEF s2
<1>6. IsSeq(s3) /\ s3 # << >> /\ Head(s3) = a /\ Tail(s3) = s2 /\ Known(s3)
  BY <1>1, <1>5, Pushed
<1> HIDE DEF s3
<1>7. Next1(s3, "attach") /\ Attaches(Tail(s3))
  BY <1>1, <1>4, <1>5, <1>6 DEF Next1, Attaches, Shows
<1> QED
  BY <1>0, <1>3, <1>6, <1>7

LEMMA AfterAttach == ASSUME AtAttach, Attach PROVE AtAttached'
<1>1. /\ todo' = Tail(todo) /\ UNCHANGED <<tableVars, heap, lstFiles, usedBlockMap>>
      /\ attached' = attached /\ insertRange' = insertRange /\ rows' = rows
      /\ fileCount' = fileCount
      /\ change' = IF Len(lstFiles) > 0
                   THEN [kind |-> "insert", first |-> 0, last |-> Len(lstFiles) - 1]
                   ELSE change
  BY DEF Attach, StepDone, BeginAttach, BeginInsertRows
<1>2. Attaches(Tail(todo)) /\ Apart /\ IsOpen /\ Listed
  BY DEF AtAttach
<1>3. Listed'
  BY <1>1, <1>2, ListedStays DEF tableVars
<1> QED
  BY <1>1, <1>2, <1>3 DEF AtAttached, Apart, IsOpen, tableVars

\* The files of all rows.
LEMMA AllRows ==
    ASSUME IsSeq(lstFiles)
    PROVE  FilesIn(0, Len(lstFiles) - 1) = ToSet(lstFiles)
<1>1. ToSet(lstFiles) = {lstFiles[n] : n \in 1 .. Len(lstFiles)} /\ Len(lstFiles) \in Nat
  BY ToSetOf DEF IsSeq
<1>2. ASSUME NEW n \in 1 .. Len(lstFiles)
      PROVE  n - 1 \in 0 .. Len(lstFiles) - 1 /\ (n - 1) + 1 = n
  BY <1>1
<1>3. ASSUME NEW r \in 0 .. Len(lstFiles) - 1 PROVE r + 1 \in 1 .. Len(lstFiles)
  BY <1>1
<1> QED
  BY <1>1, <1>2, <1>3 DEF FilesIn, File

LEMMA AfterAttached == ASSUME HeapInv, AtAttached, Attached PROVE AtShowCard'
<1>1. /\ todo' = Tail(todo) /\ UNCHANGED <<tableVars, heap, lstFiles, usedBlockMap>>
      /\ attached' = TRUE /\ fileCount' = Len(lstFiles)
      /\ animState' = WithHelpers({}, FilesIn(0, Len(lstFiles) - 1))
      /\ IF change # NoChange THEN EndRows ELSE NoRows
      /\ insertRange' = insertRange
  BY DEF Attached, StepDone, EndAttach
<1>2. Shows(Tail(todo)) /\ IsOpen /\ Listed /\ rows = 0 /\ insertRange = NoRange
  BY DEF AtAttached, Attaches
<1>3. Len(lstFiles) \in Nat /\ IsSeq(lstFiles)
  BY DEF HeapInv, IsSeq
<1>4. animState' = AnimatedIn(ToSet(lstFiles))
  BY <1>1, <1>3, AllRows DEF WithHelpers, AnimatedIn
<1>5. rows' = Len(lstFiles) /\ change' = NoChange
  <2>1. CASE Len(lstFiles) > 0
    <3>1. change.kind = "insert" /\ change.first = 0 /\ change.last = Len(lstFiles) - 1
      BY <2>1 DEF AtAttached
    <3>2. change # NoChange
      BY <3>1 DEF NoChange
    <3> QED
      BY <1>1, <1>2, <1>3, <3>1, <3>2 DEF EndRows
  <2>2. CASE ~(Len(lstFiles) > 0)
    <3>1. change = NoChange
      BY <2>2 DEF AtAttached
    <3> QED
      BY <1>1, <1>2, <1>3, <2>2, <3>1 DEF NoRows
  <2> QED
    BY <2>1, <2>2
<1>6. Listed'
  BY <1>1, <1>2, ListedStays DEF tableVars
<1>7. Steady'
  BY <1>1, <1>2, <1>4, <1>5 DEF Steady, IsOpen, tableVars, AnimatedIn, Animated
<1> QED
  BY <1>1, <1>2, <1>6, <1>7 DEF AtShowCard

LEMMA AfterShowViews == ASSUME AtShowCard, ShowViews PROVE AtIdle'
<1>1. /\ todo' = << >>
      /\ UNCHANGED <<tableVars, heap, lstFiles, usedBlockMap, modelVars>>
  BY DEF AtShowCard, Shows, ShowViews, StepDone
<1>2. Steady'
  BY <1>1, SteadyStays DEF AtShowCard, tableVars, modelVars
<1>3. Listed'
  BY <1>1, ListedStays DEF AtShowCard, tableVars
<1> QED
  BY <1>1, <1>2, <1>3 DEF AtIdle

LEMMA AfterOpen ==
    ASSUME HeapInv, CardInv, AtOpen, Open
    PROVE  /\ (AtAttach \/ AtDetach)' /\ HeapInv' /\ CardInv'
           /\ (OpenedWithBestTables => OpenedWithBestTables') /\ DOMAIN heap = {}
<1>0. Apart /\ NoCard /\ DOMAIN heap = {}
  BY DEF AtOpen, NoCard
<1>1. ASSUME NEW i \in Images, OpenImage(i), UNCHANGED modelVars,
             todo' = << Step("attach"), Step("attached"), Step("showCard") >>
      PROVE  AtAttach' /\ HeapInv' /\ CardInv' /\ OpenedWithBestTables'
  <2>1. /\ HeapInv' /\ Apart' /\ IsOpen' /\ Listed' /\ OpenedWithBestTables'
        /\ image' = <<i>> /\ dat' \in TableIdx /\ bat' \in TableIdx
        /\ datActive' \in {-1, 0, 1} /\ batActive' \in {-1, 0, 1} /\ freeBlocks' \in Nat
        /\ usedBlockMap' \in [0 .. TotalPhys - 1 -> 0 .. MaxCount]
    BY <1>0, <1>1, AfterOpenImage
  <2>2. Known(todo') /\ Next1(todo', "attach") /\ Attaches(Tail(todo'))
    BY <1>1, Attaching
  <2>3. AtAttach'
    BY <2>1, <2>2 DEF AtAttach, Doing, Next1
  <2>4. CardInv'
    BY <2>1, <2>2 DEF CardInv
  <2> QED
    BY <2>1, <2>3, <2>4
<1>2. ASSUME todo' = CloseSteps, UNCHANGED <<tableVars, heap, lstFiles, usedBlockMap>>,
             UNCHANGED modelVars
      PROVE  /\ AtDetach' /\ HeapInv' /\ CardInv'
             /\ OpenedWithBestTables => OpenedWithBestTables'
  <2>1. todo' = CloseSteps \o << >>
    <3>1. IsSeq(CloseSteps)
      BY LiteralSeqs DEF CloseSteps
    <3> QED
      BY <1>2, <3>1, NoMore
  <2>2. Known(todo') /\ Next1(todo', "detach") /\ Detaches(Tail(todo'))
    BY <2>1, OpenIsKnown, Closing
  <2>3. Apart'
    BY <1>0, <1>2 DEF Apart, modelVars
  <2>4. AtDetach'
    BY <2>2, <2>3 DEF AtDetach, Doing, Next1
  <2>5. CardInv'
    BY <1>2, <2>2 DEF CardInv, tableVars
  <2>6. HeapInv'
    BY <1>2, FreeStays DEF HeapInv, tableVars, IsOpen, Lost
  <2>7. OpenedWithBestTables => OpenedWithBestTables'
    BY <1>2 DEF OpenedWithBestTables, tableVars, IsOpen, Img
  <2> QED
    BY <2>4, <2>5, <2>6, <2>7
<1> QED
  BY <1>0, <1>1, <1>2 DEF Open

-----------------------------------------------------------------------------
(* Rows that go away *)

\* What RemoveAt leaves.
LEMMA RemovedAt ==
    ASSUME NEW s, IsSeq(s), NEW i \in 1 .. Len(s)
    PROVE  LET r == RemoveAt(s, i) IN
           /\ IsSeq(r) /\ Len(r) = Len(s) - 1
           /\ \A n \in 1 .. Len(r) : r[n] = IF n < i THEN s[n] ELSE s[n + 1]
<1> DEFINE S == {s[n] : n \in 1 .. Len(s)}
           a == SubSeq(s, 1, i - 1)
           b == SubSeq(s, i + 1, Len(s))
<1>1. Len(s) \in Nat /\ \A n \in 1 .. Len(s) : s[n] \in S
  BY DEF IsSeq
<1> HIDE DEF S
<1>2. /\ a \in Seq(S) /\ Len(a) = i - 1
      /\ \A n \in 1 .. i - 1 : a[n] = s[n]
  <2>1. \A n \in 1 .. i - 1 : s[n] \in S
    BY <1>1
  <2>2. /\ a \in Seq(S) /\ Len(a) = IF 1 <= i - 1 THEN (i - 1) - 1 + 1 ELSE 0
        /\ \A n \in 1 .. (i - 1) - 1 + 1 : a[n] = s[1 + n - 1]
    BY <2>1, <1>1, SubSeqProperties
  <2> HIDE DEF a
  <2> QED
    BY <2>2, <1>1
<1>3. /\ b \in Seq(S) /\ Len(b) = Len(s) - i
      /\ \A n \in 1 .. Len(s) - i : b[n] = s[i + n]
  <2>1. \A n \in i + 1 .. Len(s) : s[n] \in S
    BY <1>1
  <2>2. /\ b \in Seq(S)
        /\ Len(b) = IF i + 1 <= Len(s) THEN Len(s) - (i + 1) + 1 ELSE 0
        /\ \A n \in 1 .. Len(s) - (i + 1) + 1 : b[n] = s[(i + 1) + n - 1]
    BY <2>1, <1>1, SubSeqProperties
  <2> HIDE DEF b
  <2> QED
    BY <2>2, <1>1
<1>4. RemoveAt(s, i) = a \o b
  BY DEF RemoveAt
<1> HIDE DEF a, b
<1>5. IsSeq(a) /\ IsSeq(b)
  BY <1>2, <1>3, SeqIsSeq
<1> DEFINE r == a \o b
<1>6. /\ IsSeq(r) /\ Len(r) = Len(a) + Len(b)
      /\ \A n \in 1 .. Len(a) : r[n] = a[n]
      /\ \A n \in 1 .. Len(r) :
            \/ n \in 1 .. Len(a)
            \/ n - Len(a) \in 1 .. Len(b) /\ r[n] = b[n - Len(a)]
  BY <1>5, Joined
<1> HIDE DEF r
<1>7. Len(r) = Len(s) - 1
  BY <1>1, <1>2, <1>3, <1>6
<1>8. ASSUME NEW n \in 1 .. Len(r)
      PROVE  r[n] = IF n < i THEN s[n] ELSE s[n + 1]
  <2>1. CASE n < i
    BY <2>1, <1>1, <1>2, <1>6, <1>7
  <2>2. CASE ~(n < i)
    <3>1. n - (i - 1) \in 1 .. Len(s) - i /\ r[n] = b[n - (i - 1)]
      BY <2>2, <1>1, <1>2, <1>3, <1>6, <1>7
    <3>2. b[n - (i - 1)] = s[i + (n - (i - 1))]
      BY <3>1, <1>3
    <3>3. i + (n - (i - 1)) = n + 1
      BY <1>1, <1>7
    <3> QED
      BY <2>2, <3>1, <3>2, <3>3
  <2> QED
    BY <2>1, <2>2
<1> QED
  BY <1>4, <1>6, <1>7, <1>8 DEF r

\* A set of rows has a last one.
LEMMA LastRow ==
    ASSUME NEW k \in Nat, NEW R, R \subseteq 0 .. k - 1, R # {}
    PROVE  \E r \in R : \A q \in R : q <= r
<1> DEFINE T == {n \in Nat : k - n \in R}
<1>1. T # {}
  <2>1. PICK r \in R : TRUE
    OBVIOUS
  <2>2. k - r \in Nat /\ k - (k - r) = r
    BY <2>1
  <2> QED
    BY <2>1, <2>2
<1>2. \E n \in T : \A m \in T : ~(<<m, n>> \in OpToRel(<, Nat))
  BY <1>1, WFMin, NatLessThanWellFounded, Zenon
<1>3. PICK n \in T : \A m \in T : ~(m < n)
  BY <1>2 DEF OpToRel
<1>4. k - n \in R
  OBVIOUS
<1>5. ASSUME NEW q \in R PROVE q <= k - n
  <2>1. k - q \in Nat /\ k - (k - q) = q
    OBVIOUS
  <2>2. k - q \in T
    BY <2>1
  <2>3. n \in Nat /\ ~(k - q < n)
    BY <2>2, <1>3
  <2> QED
    BY <2>1, <2>3
<1> QED
  BY <1>4, <1>5

LEMMA AfterEmitAboutToBeRemoved ==
    ASSUME HeapInv, AtRemoving, EmitAboutToBeRemoved
    PROVE  (AtDeleteAll \/ AtRemove)'
<1> DEFINE first == Head(todo).first  last == Head(todo).last
<1>1. /\ todo' = Tail(todo) /\ UNCHANGED <<tableVars, heap, lstFiles, usedBlockMap>>
      /\ change' = [kind |-> "remove", first |-> first, last |-> last]
      /\ animState' = animState \ FilesIn(first, last)
      /\ UNCHANGED <<attached, fileCount, insertRange, rows>>
  BY DEF EmitAboutToBeRemoved, Emitted, FilesAboutToBeRemoved, BeginRemoveRows
<1>2. Steady /\ IsSeq(lstFiles) /\ Len(lstFiles) \in Nat
  BY DEF AtRemoving, HeapInv, IsSeq
<1>3. /\ Changing("remove", Len(lstFiles))' /\ insertRange' = NoRange
      /\ change'.first = first /\ change'.last = last
  BY <1>1, <1>2 DEF Steady, Changing, IsOpen, tableVars
<1>4. CASE AllGo(todo)
  <2>1. /\ first = 0 /\ last = Len(lstFiles) - 1 /\ Len(lstFiles) > 0
        /\ Next1(Tail(todo), "deleteAll") /\ Next1(Tail(Tail(todo)), "removed")
        /\ Loads(Tail(Tail(Tail(todo))))
    BY <1>4 DEF AllGo
  <2>2. animState' = {}
    BY <1>1, <1>2, <2>1, AllRows DEF Steady, AnimatedIn
  <2> QED
    BY <1>1, <1>3, <2>1, <2>2 DEF AtDeleteAll, Doing, Next1
<1>5. CASE first = last /\ RowGoes(first, Tail(todo)) /\ Listed
  <2>0. Free' = Free
    BY <1>1, FreeStays DEF tableVars
  <2>2. Listed'
    BY <1>1, <1>5, ListedStays DEF tableVars
  <2>3. /\ Head(Tail(todo)).row = first /\ Next1(Tail(todo), "remove")
        /\ first \in 0 .. Len(lstFiles) - 1 /\ Lost(lstFiles[first + 1])
        /\ Next1(Tail(Tail(todo)), "removed") /\ RemovesLost(Tail(Tail(Tail(todo))), Free)
    BY <1>5 DEF RowGoes
  <2>1. RowGoes(Head(todo).row, todo)'
    BY <1>1, <2>0, <2>3 DEF RowGoes, Lost
  <2>4. FilesIn(first, first) = {lstFiles[first + 1]}
    BY <2>3, <1>2 DEF FilesIn, File
  <2>5. animState' = AnimatedIn(ToSet(lstFiles)) \ {lstFiles[first + 1]}
    BY <1>1, <1>2, <1>5, <2>4 DEF Steady
  <2>6. AnimatedIn(ToSet(lstFiles))' = AnimatedIn(ToSet(lstFiles))
    BY <1>1 DEF AnimatedIn, Animated
  <2> QED
    BY <1>1, <1>3, <1>5, <2>1, <2>2, <2>3, <2>5, <2>6 DEF AtRemove, Doing, Next1
<1> QED
  BY <1>4, <1>5 DEF AtRemoving

\* What is left when the listed files are deleted.
LEMMA AfterDeleteAll ==
    ASSUME HeapInv, CardInv, AtDeleteAll, Doing("deleteAll"), DeleteAll, UNCHANGED modelVars
    PROVE  HeapInv' /\ (AtRemoved \/ AtLoad)'
<1>1. /\ heap' = Without(ToSet(lstFiles)) /\ lstFiles' = << >> /\ todo' = Tail(todo)
      /\ UNCHANGED <<tableVars, usedBlockMap>>
  BY DEF DeleteAll
<1>2. IsSeq(lstFiles') /\ Len(lstFiles') = 0 /\ ToSet(lstFiles') = {}
      /\ IsInjective(lstFiles') /\ AnimatedIn(ToSet(lstFiles))' = {}
  <2>1. IsSeq(<< >>) /\ Len(<< >>) = 0 /\ ToSet(<< >>) = {} /\ IsInjective(<< >>)
    BY DEF IsSeq, ToSet, IsInjective
  <2> QED
    BY <1>1, <2>1 DEF AnimatedIn
<1>3. /\ DOMAIN heap' = DOMAIN heap \ ToSet(lstFiles)
      /\ heap' = [f \in DOMAIN heap \ ToSet(lstFiles) |-> heap[f]]
  BY <1>1 DEF Without
<1>4. \A f \in DOMAIN heap' : f \in DOMAIN heap /\ heap'[f] = heap[f] /\ heap[f].lost
  BY <1>3 DEF HeapInv, Lost
<1>5. LostObjects' \subseteq LostObjects
  BY <1>4 DEF LostObjects, Lost
<1>6. ASSUME IsOpen' PROVE Free' >= 0
  <2>1. IsOpen /\ MaxEntries(Img)' = MaxEntries(Img)
    BY <1>1, <1>6 DEF tableVars, IsOpen, Img
  <2>2. IsFiniteSet(LostObjects)
    BY ObjectsAssumption, FS_Subset DEF HeapInv, LostObjects
  <2>3. Cardinality(LostObjects') <= Cardinality(LostObjects) /\ IsFiniteSet(LostObjects')
    BY <1>5, <2>2, FS_Subset
  <2>4. /\ Cardinality(LostObjects) \in Nat /\ Cardinality(LostObjects') \in Nat
        /\ Cardinality(Objects) \in Nat /\ MaxEntries(Img) \in Nat /\ Free >= 0
    BY <2>1, <2>3, Numbers, FS_CardinalityType DEF HeapInv
  <2> QED
    BY <2>1, <2>3, <2>4 DEF Free
<1>7. HeapInv'
  <2>1. DOMAIN heap' \subseteq Objects /\ heap' = [f \in DOMAIN heap' |-> heap'[f]]
    BY <1>3 DEF HeapInv
  <2>2. \A f \in DOMAIN heap' : FileObject(heap'[f])
    BY <1>4 DEF HeapInv
  <2> QED
    BY <1>2, <1>4, <1>6, <2>1, <2>2 DEF HeapInv, Lost
<1>8. CASE Steady /\ Len(lstFiles) = 0 /\ Loads(Tail(todo))
  <2>1. animState = {}
    <3>1. ToSet(lstFiles) = {}
      BY <1>8, ToSetOf DEF HeapInv
    <3> QED
      BY <1>8, <3>1 DEF Steady, AnimatedIn
  <2>2. Steady'
    BY <1>1, <1>2, <1>8, <2>1 DEF Steady, IsOpen, tableVars, modelVars
  <2> QED
    BY <1>1, <1>7, <1>8, <2>2 DEF AtLoad
<1>9. CASE /\ Changing("remove", Len(lstFiles)) /\ animState = {} /\ Len(lstFiles) > 0
           /\ change.first = 0 /\ change.last = Len(lstFiles) - 1
           /\ Next1(Tail(todo), "removed") /\ Loads(Tail(Tail(todo)))
  <2>1. Len(lstFiles) \in Nat
    BY DEF HeapInv, IsSeq
  <2>2. Len(lstFiles) = 0 + change.last - change.first + 1 /\ change.last < Len(lstFiles)
        /\ change.first \in Nat /\ change.last \in Nat /\ change.first <= change.last
    BY <1>9, <2>1
  <2>3. Changing("remove", Len(lstFiles') + change.last - change.first + 1)
    BY <1>2, <1>9, <2>2
  <2>4. Changing("remove", Len(lstFiles) + change.last - change.first + 1)'
    BY <1>1, <2>3 DEF Changing, modelVars, tableVars, IsOpen
  <2>5. insertRange' = NoRange /\ animState' = {} /\ change' = change /\ rows' = Len(lstFiles)
    BY <1>9 DEF AtDeleteAll, modelVars, Changing
  <2> QED
    BY <1>1, <1>2, <1>7, <1>9, <2>2, <2>4, <2>5 DEF AtRemoved, Doing, Next1
<1> QED
  BY <1>8, <1>9 DEF AtDeleteAll

\* What is left when a lost file leaves the list.
LEMMA AfterRemoveRow ==
    ASSUME HeapInv, CardInv, AtRemove, RemoveRow, UNCHANGED modelVars
    PROVE  HeapInv' /\ AtRemoved'
<1> DEFINE row == Head(todo).row  i == row + 1
<1>1. /\ lstFiles' = RemoveAt(lstFiles, i) /\ todo' = Tail(todo)
      /\ UNCHANGED <<tableVars, heap, usedBlockMap>>
  BY DEF RemoveRow
<1>2. /\ row \in 0 .. Len(lstFiles) - 1 /\ Lost(lstFiles[i]) /\ Len(lstFiles) \in Nat
      /\ Next1(Tail(todo), "removed") /\ RemovesLost(Tail(Tail(todo)), Free)
      /\ Listed /\ insertRange = NoRange /\ Changing("remove", Len(lstFiles))
      /\ change.first = row /\ change.last = row
      /\ animState = AnimatedIn(ToSet(lstFiles)) \ {lstFiles[i]}
  BY DEF AtRemove, RowGoes, HeapInv, IsSeq
<1> HIDE DEF row
<1>3. i \in 1 .. Len(lstFiles)
  BY <1>2
<1>4. /\ IsSeq(lstFiles') /\ Len(lstFiles') = Len(lstFiles) - 1
      /\ \A n \in 1 .. Len(lstFiles') :
            lstFiles'[n] = IF n < i THEN lstFiles[n] ELSE lstFiles[n + 1]
  BY <1>1, <1>3, RemovedAt DEF HeapInv
<1>5. /\ IsSeq(lstFiles) /\ ToSet(lstFiles) = {lstFiles[n] : n \in 1 .. Len(lstFiles)}
      /\ \A j, k \in 1 .. Len(lstFiles) : lstFiles[j] = lstFiles[k] => j = k
  BY ToSetOf DEF HeapInv, IsInjective
<1>6. ToSet(lstFiles') = {lstFiles'[n] : n \in 1 .. Len(lstFiles')}
      /\ DOMAIN lstFiles' = 1 .. Len(lstFiles')
  BY <1>4, ToSetOf
<1> HIDE DEF i
<1>7. ToSet(lstFiles') = ToSet(lstFiles) \ {lstFiles[i]}
  <2>1. ASSUME NEW n \in 1 .. Len(lstFiles')
        PROVE  lstFiles'[n] \in ToSet(lstFiles) \ {lstFiles[i]}
    <3>1. CASE n < i
      <4>1. n \in 1 .. Len(lstFiles) /\ n # i /\ lstFiles'[n] = lstFiles[n]
        BY <3>1, <1>2, <1>3, <1>4
      <4> QED
        BY <4>1, <1>3, <1>5
    <3>2. CASE ~(n < i)
      <4>1. n + 1 \in 1 .. Len(lstFiles) /\ n + 1 # i /\ lstFiles'[n] = lstFiles[n + 1]
        BY <3>2, <1>2, <1>3, <1>4
      <4> QED
        BY <4>1, <1>3, <1>5
    <3> QED
      BY <3>1, <3>2
  <2>2. ASSUME NEW n \in 1 .. Len(lstFiles), n # i
        PROVE  lstFiles[n] \in ToSet(lstFiles')
    <3>1. CASE n < i
      <4>1. n \in 1 .. Len(lstFiles') /\ lstFiles'[n] = lstFiles[n]
        BY <3>1, <1>2, <1>3, <1>4
      <4> QED
        BY <4>1, <1>6
    <3>2. CASE i < n
      <4>1. n - 1 \in 1 .. Len(lstFiles') /\ ~(n - 1 < i) /\ (n - 1) + 1 = n
        BY <3>2, <1>2, <1>3, <1>4
      <4>2. lstFiles'[n - 1] = lstFiles[n]
        BY <4>1, <1>4
      <4> QED
        BY <4>1, <4>2, <1>6
    <3> QED
      BY <2>2, <3>1, <3>2, <1>3
  <2>3. ToSet(lstFiles') \subseteq ToSet(lstFiles) \ {lstFiles[i]}
    BY <2>1, <1>6
  <2>4. ToSet(lstFiles) \ {lstFiles[i]} \subseteq ToSet(lstFiles')
    BY <2>2, <1>5
  <2> QED
    BY <2>3, <2>4
<1>8. IsInjective(lstFiles')
  <2>1. ASSUME NEW j \in 1 .. Len(lstFiles'), NEW k \in 1 .. Len(lstFiles'),
               lstFiles'[j] = lstFiles'[k]
        PROVE  j = k
    <3> DEFINE p(n) == IF n < i THEN n ELSE n + 1
    <3>1. /\ p(j) \in 1 .. Len(lstFiles) /\ p(k) \in 1 .. Len(lstFiles)
          /\ p(j) = p(k) => j = k
      BY <1>2, <1>3, <1>4
    <3>2. lstFiles'[j] = lstFiles[p(j)] /\ lstFiles'[k] = lstFiles[p(k)]
      BY <1>4
    <3> HIDE DEF p
    <3>3. p(j) = p(k)
      BY <2>1, <3>1, <3>2, <1>5
    <3> QED
      BY <3>1, <3>3
  <2> QED
    BY <2>1, <1>6 DEF IsInjective
<1>9. Free' = Free
  BY <1>1, FreeStays DEF tableVars
<1>10. HeapInv'
  <2>1. \A f \in DOMAIN heap : Lost(f) \/ f \in ToSet(lstFiles')
    BY <1>2, <1>7 DEF HeapInv
  <2> QED
    BY <1>1, <1>4, <1>7, <1>8, <1>9, <2>1 DEF HeapInv, Lost, IsOpen, tableVars
<1>11. Listed'
  <2>1. IsOpen
    BY <1>2 DEF Changing
  <2>2. Len(Fresh) \in Nat /\ \A n \in 1 .. Len(Fresh) : ~Fresh[n].lost
    BY <2>1, FreshFiles
  <2>3. Fresh' = Fresh
    BY <1>1 DEF Fresh, Img, tableVars
  <2>4. /\ Len(Fresh) <= Len(lstFiles)
        /\ \A n \in 1 .. Len(lstFiles) :
             IF n <= Len(Fresh) THEN heap[lstFiles[n]] = Fresh[n] ELSE heap[lstFiles[n]].lost
    BY <1>2 DEF Listed, ListHolds, Lost
  <2>5. i > Len(Fresh)
    <3>1. ASSUME i <= Len(Fresh) PROVE FALSE
      <4>1. i \in 1 .. Len(Fresh) /\ heap[lstFiles[i]] = Fresh[i]
        BY <3>1, <1>3, <2>2, <2>4
      <4> QED
        BY <4>1, <1>2, <2>2 DEF Lost
    <3> QED
      BY <3>1, <1>3, <2>2
  <2>6. Len(Fresh) <= Len(lstFiles')
    BY <1>2, <1>3, <1>4, <2>2, <2>5
  <2>7. ASSUME NEW n \in 1 .. Len(lstFiles')
        PROVE  IF n <= Len(Fresh) THEN heap[lstFiles'[n]] = Fresh[n]
               ELSE heap[lstFiles'[n]].lost
    <3>1. CASE n < i
      <4>1. n \in 1 .. Len(lstFiles) /\ lstFiles'[n] = lstFiles[n]
        BY <3>1, <1>2, <1>3, <1>4
      <4> QED
        BY <4>1, <2>4
    <3>2. CASE ~(n < i)
      <4>1. n + 1 \in 1 .. Len(lstFiles) /\ lstFiles'[n] = lstFiles[n + 1]
            /\ ~(n <= Len(Fresh)) /\ ~(n + 1 <= Len(Fresh))
        BY <3>2, <1>2, <1>3, <1>4, <2>2, <2>5
      <4> QED
        BY <4>1, <2>4
    <3> QED
      BY <3>1, <3>2
  <2>8. ListHolds'
    BY <1>1, <2>3, <2>6, <2>7 DEF ListHolds, Lost
  <2>9. MapHolds'
    BY <1>1, <1>2, <2>3 DEF Listed, MapHolds
  <2> QED
    BY <2>8, <2>9 DEF Listed
<1>12. animState' = AnimatedIn(ToSet(lstFiles))'
  BY <1>1, <1>2, <1>7 DEF AnimatedIn, Animated, modelVars
<1>13. Changing("remove", Len(lstFiles) + change.last - change.first + 1)'
  <2>1. row \in Int /\ Len(lstFiles') + row - row + 1 = Len(lstFiles)
    BY <1>2, <1>4
  <2> QED
    BY <1>1, <1>2, <2>1 DEF Changing, modelVars, tableVars, IsOpen
<1>14. /\ change'.first \in Nat /\ change'.last \in Nat /\ change'.first <= change'.last
       /\ change'.last < rows'
  BY <1>2 DEF Changing, modelVars
<1> QED
  BY <1>1, <1>2, <1>9, <1>10, <1>11, <1>12, <1>13, <1>14
  DEF AtRemoved, Doing, Next1, modelVars

LEMMA AfterEmitRemoved ==
    ASSUME HeapInv, AtRemoved, EmitRemoved
    PROVE  (AtLoad \/ AtRemoveLost)'
<1>1. /\ todo' = Tail(todo) /\ UNCHANGED <<tableVars, heap, lstFiles, usedBlockMap>>
      /\ fileCount' = Len(lstFiles) /\ EndRows
      /\ UNCHANGED <<attached, insertRange, animState>>
  BY DEF EmitRemoved, Emitted, FilesRemoved
<1>2. /\ insertRange = NoRange /\ change.first \in Nat /\ change.last \in Nat
      /\ IsOpen /\ attached /\ change.kind = "remove"
      /\ rows = Len(lstFiles) + change.last - change.first + 1
      /\ animState = AnimatedIn(ToSet(lstFiles)) /\ Len(lstFiles) \in Nat
  BY DEF AtRemoved, Changing, HeapInv, IsSeq
<1>3. rows' = Len(lstFiles) /\ change' = NoChange
  BY <1>1, <1>2 DEF EndRows
<1>4. Steady'
  BY <1>1, <1>2, <1>3 DEF Steady, IsOpen, tableVars, AnimatedIn, Animated
<1>5. CASE lstFiles = << >> /\ Loads(Tail(todo))
  BY <1>1, <1>4, <1>5 DEF AtLoad
<1>6. CASE Listed /\ RemovesLost(Tail(todo), Free)
  <2>1. Listed' /\ Free' = Free
    BY <1>1, <1>6, ListedStays, FreeStays DEF tableVars
  <2> QED
    BY <1>1, <1>4, <1>6, <2>1 DEF AtRemoveLost
<1> QED
  BY <1>5, <1>6 DEF AtRemoved

-----------------------------------------------------------------------------
(* Rows that come *)

\* The steps that add a batch of files.
Filed(t, k, objs) ==
    /\ Known(t) /\ Next1(t, "aboutToBeInserted") /\ Appends(Tail(t))
    /\ Head(Tail(t)).objs = objs
    /\ Head(t).first = k /\ Head(t).last = k + Len(objs) - 1

LEMMA Filing ==
    ASSUME NEW k, NEW objs, IsSeq(objs), Len(objs) > 0,
           NEW s, Known(s), s = << >> \/ Counts(s)
    PROVE  Filed(AddFiles(k, objs) \o s, k, objs)
<1> DEFINE a == AboutToBeInserted(k, k + Len(objs) - 1)
           b == Appended(objs)  c == Step("inserted")
           s1 == <<c>> \o s  s2 == <<b>> \o s1  s3 == <<a>> \o s2
<1>0. objs # << >>
  OBVIOUS
<1>1. AddFiles(k, objs) = <<a, b, c>>
  BY <1>0 DEF AddFiles
<1>2. /\ a.op = "aboutToBeInserted" /\ a.first = k /\ a.last = k + Len(objs) - 1
      /\ b.op = "append" /\ b.objs = objs /\ c.op = "inserted"
      /\ {"aboutToBeInserted", "append", "inserted"} \subseteq StepNames
  BY DEF AboutToBeInserted, Appended, Step, StepNames
<1> HIDE DEF a, b, c
<1>3. IsSeq(s)
  BY DEF Known
<1>4. <<a, b, c>> \o s = s3
  BY <1>3, PushedThree
<1>5. IsSeq(s1) /\ s1 # << >> /\ Head(s1) = c /\ Tail(s1) = s /\ Known(s1)
  BY <1>2, <1>3, Pushed
<1> HIDE DEF s1
<1>6. IsSeq(s2) /\ s2 # << >> /\ Head(s2) = b /\ Tail(s2) = s1 /\ Known(s2)
  BY <1>2, <1>5, Pushed
<1> HIDE DEF s2
<1>7. IsSeq(s3) /\ s3 # << >> /\ Head(s3) = a /\ Tail(s3) = s2 /\ Known(s3)
  BY <1>2, <1>6, Pushed
<1> HIDE DEF s3
<1>8. Next1(s3, "aboutToBeInserted") /\ Appends(Tail(s3))
  BY <1>2, <1>5, <1>6, <1>7 DEF Next1, Appends, Inserted
<1> QED
  BY <1>1, <1>2, <1>4, <1>6, <1>7, <1>8 DEF Filed

LEMMA AddFilesIsSeq ==
    ASSUME NEW k, NEW objs
    PROVE  IsSeq(AddFiles(k, objs))
<1>1. CASE objs = << >>
  <2>1. AddFiles(k, objs) = << >>
    BY <1>1 DEF AddFiles
  <2> QED
    BY <2>1, LiteralSeqs
<1>2. CASE objs # << >>
  <2> DEFINE a == AboutToBeInserted(k, k + Len(objs) - 1)
             b == Appended(objs)  c == Step("inserted")
  <2>1. AddFiles(k, objs) = <<a, b, c>>
    BY <1>2 DEF AddFiles
  <2> HIDE DEF a, b, c
  <2> QED
    BY <2>1, LiteralSeqs
<1> QED
  BY <1>1, <1>2

LEMMA AfterLoad ==
    ASSUME HeapInv, CardInv, AtLoad, Load, UNCHANGED modelVars
    PROVE  CardInv' /\ (AtInserting \/ AtBlockCount)'
<1> DEFINE bc == Step("blockCount")  s == <<bc>> \o Tail(todo)
<1>0. Steady /\ IsOpen /\ lstFiles = << >> /\ todo # << >> /\ Changes(Tail(todo))
  BY DEF AtLoad, Steady, Loads, Next1
<1>1. /\ usedBlockMap' = CountUses(ResetMap, Fresh)
      /\ todo' = AddFiles(0, Fresh) \o <<bc>> \o Tail(todo)
      /\ UNCHANGED <<tableVars, heap, lstFiles>>
  BY DEF Load, Fresh
<1>2. /\ IsSeq(Fresh) /\ Len(Fresh) \in Nat
      /\ \A n \in 1 .. Len(Fresh) : ~Fresh[n].lost
  BY <1>0, FreshFiles
<1>3. Fresh' = Fresh
  BY <1>1 DEF Fresh, Img, tableVars
<1>4. Known(Tail(todo)) /\ IsSeq(Tail(todo))
  BY <1>0, PopKnown DEF CardInv, Known
<1>5. bc.op = "blockCount" /\ "blockCount" \in StepNames
  BY DEF Step, StepNames
<1> HIDE DEF bc
<1>6. IsSeq(<<bc>>)
  BY LiteralSeqs
<1>7. IsSeq(s) /\ s # << >> /\ Head(s) = bc /\ Tail(s) = Tail(todo) /\ Known(s)
  BY <1>4, <1>5, Pushed
<1>8. todo' = AddFiles(0, Fresh) \o s
  <2>1. IsSeq(AddFiles(0, Fresh))
    BY AddFilesIsSeq
  <2> DEFINE x == AddFiles(0, Fresh)  y == <<bc>>  z == Tail(todo)
  <2>2. todo' = (x \o y) \o z /\ s = y \o z
    BY <1>1
  <2>3. IsSeq(x) /\ IsSeq(y) /\ IsSeq(z)
    BY <2>1, <1>4, <1>6
  <2> HIDE DEF x, y, z, s
  <2>4. (x \o y) \o z = x \o (y \o z)
    BY <2>3, Associates
  <2> QED
    BY <2>2, <2>4 DEF x
<1> HIDE DEF s
<1>9. Counts(s)
  BY <1>0, <1>5, <1>7 DEF Counts, Next1
<1>10. MapHolds' /\ usedBlockMap' \in [0 .. TotalPhys - 1 -> 0 .. MaxCount]
  BY <1>1, <1>2, <1>3, MapTyped DEF MapHolds
<1>11. Steady'
  BY <1>0, <1>1, SteadyStays DEF tableVars, modelVars
<1>12. CASE Len(Fresh) > 0
  <2>1. /\ Known(todo') /\ Next1(todo', "aboutToBeInserted") /\ Appends(Tail(todo'))
        /\ Head(Tail(todo')).objs = Fresh
        /\ Head(todo').first = 0 /\ Head(todo').last = 0 + Len(Fresh) - 1
    <3>1. Filed(AddFiles(0, Fresh) \o s, 0, Fresh)
      BY <1>2, <1>7, <1>9, <1>12, Filing
    <3> QED
      BY <1>8, <3>1 DEF Filed
  <2>2. Len(lstFiles') = 0
    BY <1>0, <1>1
  <2>3. Batch(Head(Tail(todo)).objs)'
    BY <1>0, <1>1, <1>2, <1>3, <1>10, <1>12, <2>1 DEF Batch
  <2>4. AtInserting'
    BY <1>11, <2>1, <2>2, <2>3 DEF AtInserting, Doing, Next1
  <2> QED
    BY <1>1, <1>10, <2>1, <2>4 DEF CardInv, tableVars
<1>13. CASE Len(Fresh) = 0
  <2>1. Fresh = << >>
    BY <1>2, <1>13 DEF IsSeq
  <2>2. todo' = s
    BY <1>7, <1>8, <2>1, NoMore DEF AddFiles
  <2>3. ListHolds'
    BY <1>0, <1>1, <1>3, <1>13 DEF ListHolds
  <2> QED
    BY <1>1, <1>7, <1>9, <1>10, <1>11, <2>2, <2>3
    DEF AtBlockCount, Listed, CardInv, tableVars
<1> QED
  BY <1>2, <1>12, <1>13

\* The steps that remove a row.
RowRemoved(t, row, s) ==
    /\ Known(t) /\ Next1(t, "aboutToBeRemoved") /\ Head(t).first = row /\ Head(t).last = row
    /\ Next1(Tail(t), "remove") /\ Head(Tail(t)).row = row
    /\ Next1(Tail(Tail(t)), "removed") /\ Tail(Tail(Tail(t))) = s

LEMMA RemovingRow ==
    ASSUME NEW row, NEW s, Known(s)
    PROVE  RowRemoved(<<AboutToBeRemoved(row, row), Removed(row), Step("removed")>> \o s, row, s)
<1> DEFINE a == AboutToBeRemoved(row, row)  b == Removed(row)  c == Step("removed")
           s1 == <<c>> \o s  s2 == <<b>> \o s1  s3 == <<a>> \o s2
<1>0. <<AboutToBeRemoved(row, row), Removed(row), Step("removed")>> = <<a, b, c>>
  OBVIOUS
<1>1. /\ a.op = "aboutToBeRemoved" /\ a.first = row /\ a.last = row
      /\ b.op = "remove" /\ b.row = row /\ c.op = "removed"
      /\ {"aboutToBeRemoved", "remove", "removed"} \subseteq StepNames
  BY DEF AboutToBeRemoved, Removed, Step, StepNames
<1> HIDE DEF a, b, c
<1>2. IsSeq(s)
  BY DEF Known
<1>3. <<a, b, c>> \o s = s3
  <2>1. <<a, b>> \o s1 = s3
    <3>1. IsSeq(s1)
      BY <1>2, Pushed
    <3> HIDE DEF s1
    <3>2. <<a, b>> \o s1 = <<a>> \o (<<b>> \o s1)
      BY <3>1, PushedTwo
    <3> QED
      BY <3>2
  <2>2. <<a, b, c>> = <<a, b>> \o <<c>>
    <3>1. IsSeq(<<a, b>>)
      BY LiteralSeqs
    <3> QED
      BY <3>1, LastOf
  <2>3. IsSeq(<<a, b>>) /\ IsSeq(<<c>>)
    BY LiteralSeqs
  <2>4. (<<a, b>> \o <<c>>) \o s = <<a, b>> \o (<<c>> \o s)
    BY <1>2, <2>3, Associates
  <2> QED
    BY <2>1, <2>2, <2>4 DEF s1
<1>4. IsSeq(s1) /\ s1 # << >> /\ Head(s1) = c /\ Tail(s1) = s /\ Known(s1)
  BY <1>1, <1>2, Pushed
<1> HIDE DEF s1
<1>5. IsSeq(s2) /\ s2 # << >> /\ Head(s2) = b /\ Tail(s2) = s1 /\ Known(s2)
  BY <1>1, <1>4, Pushed
<1> HIDE DEF s2
<1>6. IsSeq(s3) /\ s3 # << >> /\ Head(s3) = a /\ Tail(s3) = s2 /\ Known(s3)
  BY <1>1, <1>5, Pushed
<1> HIDE DEF s3
<1> QED
  BY <1>0, <1>1, <1>3, <1>4, <1>5, <1>6 DEF RowRemoved, Next1

LEMMA AfterRemoveLostFiles ==
    ASSUME HeapInv, CardInv, AtRemoveLost, RemoveLostFiles, UNCHANGED modelVars
    PROVE  Known(todo') /\ (AtRemoving \/ AtAddLost)'
<1> DEFINE gone == {r \in 0 .. Len(lstFiles) - 1 : Lost(lstFiles[r + 1])}
           last == CHOOSE r \in gone : \A q \in gone : q <= r
<1>0. todo # << >> /\ Known(todo) /\ RemovesLost(todo, Free) /\ Steady /\ Listed
  BY DEF AtRemoveLost, RemovesLost, Next1, CardInv
<1>1. /\ todo' = IF gone = {} THEN Tail(todo)
                 ELSE <<AboutToBeRemoved(last, last), Removed(last), Step("removed")>> \o todo
      /\ UNCHANGED <<tableVars, heap, lstFiles, usedBlockMap>>
  BY DEF RemoveLostFiles
<1>2. Listed' /\ Steady' /\ Free' = Free
  BY <1>0, <1>1, ListedStays, SteadyStays, FreeStays DEF tableVars, modelVars
<1>3. CASE gone = {}
  <2>1. Known(Tail(todo)) /\ todo' = Tail(todo)
    BY <1>0, <1>1, <1>3, PopKnown
  <2> QED
    BY <1>0, <1>2, <2>1 DEF AtAddLost, RemovesLost
<1>4. CASE gone # {}
  <2>1. last \in gone
    <3>1. Len(lstFiles) \in Nat /\ gone \subseteq 0 .. Len(lstFiles) - 1
      BY DEF HeapInv, IsSeq
    <3> HIDE DEF gone
    <3>2. \E r \in gone : \A q \in gone : q <= r
      BY <1>4, <3>1, LastRow
    <3> QED
      BY <3>2
  <2>2. last \in 0 .. Len(lstFiles) - 1 /\ Lost(lstFiles[last + 1])
    BY <2>1
  <2> HIDE DEF last, gone
  <2>3. RowRemoved(todo', last, todo)
    BY <1>0, <1>1, <1>4, RemovingRow
  <2>4. RowGoes(Head(todo).first, Tail(todo))'
    BY <1>0, <1>1, <1>2, <2>2, <2>3 DEF RowRemoved, RowGoes, Lost
  <2> QED
    BY <1>2, <2>3, <2>4 DEF AtRemoving, RowRemoved, Doing, Next1
<1> QED
  BY <1>3, <1>4

LEMMA AfterAddLostFiles ==
    ASSUME HeapInv, CardInv, AtAddLost, AddLostFiles, UNCHANGED modelVars
    PROVE  Known(todo') /\ (AtInserting \/ AtIdle)'
<1> DEFINE objs == Head(todo).objs
<1>0. /\ AddsLost(todo, Free) /\ Steady /\ Listed
      /\ LostBatch(objs, Free) /\ IsSeq(objs) /\ Tail(todo) = << >>
  BY DEF AtAddLost, AddsLost, LostBatch
<1>1. /\ todo' = AddFiles(Len(lstFiles), objs) \o << >>
      /\ UNCHANGED <<tableVars, heap, lstFiles, usedBlockMap>>
  BY <1>0 DEF AddLostFiles
<1> HIDE DEF objs
<1>2. Listed' /\ Steady' /\ Free' = Free
  BY <1>0, <1>1, ListedStays, SteadyStays, FreeStays DEF tableVars, modelVars
<1>3. CASE Len(objs) > 0
  <2>1. /\ Known(todo') /\ Next1(todo', "aboutToBeInserted") /\ Appends(Tail(todo'))
        /\ Head(Tail(todo')).objs = objs
        /\ Head(todo').first = Len(lstFiles)
        /\ Head(todo').last = Len(lstFiles) + Len(objs) - 1
    <3>1. Filed(AddFiles(Len(lstFiles), objs) \o << >>, Len(lstFiles), objs)
      BY <1>0, <1>3, OpenIsKnown, Filing
    <3> QED
      BY <1>1, <3>1 DEF Filed
  <2>2. Batch(Head(Tail(todo)).objs)'
    BY <1>0, <1>2, <1>3, <2>1 DEF Batch, Listed
  <2>3. AtInserting'
    BY <1>1, <1>2, <2>1, <2>2 DEF AtInserting, Doing, Next1
  <2> QED
    BY <2>1, <2>3
<1>4. CASE ~(Len(objs) > 0)
  <2>1. objs = << >>
    BY <1>0, <1>4 DEF IsSeq
  <2>2. todo' = << >>
    BY <1>1, <2>1, OpenIsKnown, NoMore DEF AddFiles, Known
  <2> QED
    BY <1>2, <2>2, OpenIsKnown DEF AtIdle
<1> QED
  BY <1>3, <1>4

LEMMA AfterEmitAboutToBeInserted ==
    ASSUME AtInserting, EmitAboutToBeInserted
    PROVE  AtAppend'
<1> DEFINE first == Head(todo).first  last == Head(todo).last
<1>1. /\ todo' = Tail(todo) /\ UNCHANGED <<tableVars, heap, lstFiles, usedBlockMap>>
      /\ change' = [kind |-> "insert", first |-> first, last |-> last]
      /\ insertRange' = <<first, last>>
      /\ UNCHANGED <<attached, fileCount, animState, rows>>
  BY DEF EmitAboutToBeInserted, Emitted, FilesAboutToBeInserted, BeginInsertRows
<1>2. /\ Steady /\ Appends(Tail(todo)) /\ Batch(Head(Tail(todo)).objs)
      /\ first = Len(lstFiles) /\ last = Len(lstFiles) + Len(Head(Tail(todo)).objs) - 1
  BY DEF AtInserting
<1> HIDE DEF first, last
<1>3. /\ change'.kind = "insert" /\ change'.first = first /\ change'.last = last
  BY <1>1
<1>4. Changing("insert", Len(lstFiles))'
  BY <1>1, <1>2, <1>3 DEF Changing, Steady, IsOpen, tableVars
<1>5. Fresh' = Fresh /\ Free' = Free
  BY <1>1, FreeStays DEF Fresh, Img, tableVars
<1>6. Batch(Head(todo).objs)'
  BY <1>1, <1>2, <1>5 DEF Batch, ListHolds, MapHolds, Lost
<1>7. animState' = AnimatedIn(ToSet(lstFiles))'
  BY <1>1, <1>2 DEF Steady, AnimatedIn, Animated
<1> QED
  BY <1>1, <1>2, <1>3, <1>4, <1>6, <1>7 DEF AtAppend

\* There is room for a batch, and there is room after it.
LEMMA RoomForBatch ==
    ASSUME HeapInv, CardInv, IsOpen, NEW objs, Batch(objs)
    PROVE  /\ IsSeq(objs) /\ Len(objs) \in Nat
           /\ \A n \in 1 .. Len(objs) : FileObject(objs[n])
           /\ Cardinality(DOMAIN heap) + Len(objs) <= Cardinality(Objects)
<1>1. IsSeq(objs) /\ Len(objs) \in Nat
  BY DEF Batch, IsSeq
<1>2. /\ Len(Fresh) \in Nat /\ Len(Fresh) <= MaxEntries(Img)
      /\ \A n \in 1 .. Len(Fresh) : FileObject(Fresh[n])
  BY FreshFiles
<1>3. /\ Cardinality(Objects) \in Nat /\ Cardinality(LostObjects) \in Nat
      /\ Cardinality(DOMAIN heap) \in Nat /\ MaxEntries(Img) \in Nat /\ Free \in Nat
      /\ Free = Cardinality(Objects) - MaxEntries(Img) - Cardinality(LostObjects)
  BY Numbers DEF Free
<1>4. CASE lstFiles = << >> /\ objs = Fresh
  <2>1. DOMAIN heap = LostObjects
    <3>1. ToSet(lstFiles) = {}
      BY <1>4 DEF ToSet
    <3> QED
      BY <3>1 DEF HeapInv, LostObjects
  <2> QED
    BY <1>1, <1>2, <1>3, <1>4, <2>1
<1>5. CASE ListHolds /\ LostBatch(objs, Free)
  <2>1. Cardinality(DOMAIN heap) <= Cardinality(LostObjects) + Len(Fresh)
    BY <1>2, <1>5, HeapSize
  <2>2. Len(objs) <= Free /\ \A n \in 1 .. Len(objs) : \E a \in BOOLEAN : objs[n] = LostFile(a)
    BY <1>5 DEF LostBatch
  <2>3. \A a \in BOOLEAN : FileObject(LostFile(a))
    <3> TAKE a \in BOOLEAN
    <3>1. /\ LostFile(a).lost = TRUE /\ LostFile(a).animated = a
          /\ LostFile(a).chain = <<FirstBlock>>
      BY DEF LostFile
    <3>2. Len(<<FirstBlock>>) = 1
      OBVIOUS
    <3>3. UserBlocks \in Int /\ 1 <= UserBlocks
      BY SizesAssumption DEF UserBlocks, FirstBlock
    <3> QED
      BY <3>1, <3>2, <3>3 DEF FileObject
  <2>4. Cardinality(DOMAIN heap) + Len(objs) <= Cardinality(Objects)
    BY <1>1, <1>2, <1>3, <2>1, <2>2
  <2> QED
    BY <1>1, <2>2, <2>3, <2>4
<1> QED
  BY <1>4, <1>5 DEF Batch

LEMMA RoomAfterBatch ==
    ASSUME HeapInv, CardInv, IsOpen, NEW objs, Batch(objs), Grows(objs), image' = image
    PROVE  Free' >= 0
<1> DEFINE added == {lstFiles'[Len(lstFiles) + n] : n \in 1 .. Len(objs)}
<1>1. /\ \A f \in DOMAIN heap : heap'[f] = heap[f]
      /\ \A f \in DOMAIN heap' : f \in DOMAIN heap
                                 \/ \E n \in 1 .. Len(objs) : f = lstFiles'[Len(lstFiles) + n]
      /\ \A n \in 1 .. Len(objs) : heap'[lstFiles'[Len(lstFiles) + n]] = objs[n]
  <2>1. Extended(objs, heap', lstFiles')
    BY Appending DEF Grows
  <2> QED
    BY <2>1 DEF Extended
<1>2. /\ Cardinality(Objects) \in Nat /\ Cardinality(LostObjects) \in Nat
      /\ MaxEntries(Img) \in Nat /\ Free \in Nat
      /\ Free = Cardinality(Objects) - MaxEntries(Img) - Cardinality(LostObjects)
      /\ Free' = Cardinality(Objects) - MaxEntries(Img) - Cardinality(LostObjects')
      /\ IsFiniteSet(LostObjects) /\ Len(objs) \in Nat
  <2>1. IsFiniteSet(LostObjects)
    BY ObjectsAssumption, FS_Subset DEF HeapInv, LostObjects
  <2> QED
    BY <2>1, Numbers DEF Free, Img, Grows, IsSeq
<1>3. CASE lstFiles = << >> /\ objs = Fresh
  <2>1. \A n \in 1 .. Len(objs) : ~objs[n].lost
    BY <1>3, FreshFiles
  <2>2. LostObjects' \subseteq LostObjects
    BY <1>1, <2>1 DEF LostObjects, Lost
  <2>3. Cardinality(LostObjects') <= Cardinality(LostObjects) /\ Cardinality(LostObjects') \in Nat
    BY <1>2, <2>2, FS_Subset, FS_CardinalityType
  <2> QED
    BY <1>2, <2>3
<1>4. CASE ListHolds /\ LostBatch(objs, Free)
  <2>1. IsFiniteSet(added) /\ Cardinality(added) <= Len(objs)
    <3> DEFINE s == [n \in 1 .. Len(objs) |-> lstFiles'[Len(lstFiles) + n]]
               T == {s[n] : n \in 1 .. Len(objs)}
    <3>1. added = T
      OBVIOUS
    <3> HIDE DEF s, added
    <3>2. IsFiniteSet(T) /\ Cardinality(T) <= Len(objs)
      BY <1>2, ImageCount
    <3> QED
      BY <3>1, <3>2
  <2>2. LostObjects' \subseteq LostObjects \cup added
    BY <1>1 DEF LostObjects, Lost
  <2> HIDE DEF added
  <2>3. /\ IsFiniteSet(LostObjects \cup added)
        /\ Cardinality(LostObjects \cup added)
             = Cardinality(LostObjects) + Cardinality(added) - Cardinality(LostObjects \cap added)
    BY <1>2, <2>1, FS_Union
  <2>4. IsFiniteSet(LostObjects \cap added)
    BY <1>2, FS_Intersection
  <2>5. /\ Cardinality(LostObjects') <= Cardinality(LostObjects \cup added)
        /\ Cardinality(LostObjects') \in Nat
    BY <2>2, <2>3, FS_Subset, FS_CardinalityType
  <2>6. Cardinality(LostObjects \cap added) \in Nat /\ Cardinality(added) \in Nat
    BY <2>1, <2>4, FS_CardinalityType
  <2>7. Len(objs) <= Free
    BY <1>4 DEF LostBatch
  <2> QED
    BY <1>2, <2>1, <2>3, <2>5, <2>6, <2>7
<1> QED
  BY <1>3, <1>4 DEF Batch

LEMMA AfterAppendFiles ==
    ASSUME HeapInv, CardInv, AtAppend, AppendFiles, UNCHANGED modelVars
    PROVE  HeapInv' /\ AtInserted'
<1> DEFINE objs == Head(todo).objs
<1>1. /\ heap' = WithObjects(Unused(Len(objs)), objs)
      /\ lstFiles' = lstFiles \o Unused(Len(objs))
      /\ todo' = Tail(todo) /\ UNCHANGED <<tableVars, usedBlockMap>>
  BY DEF AppendFiles
<1>2. /\ IsOpen /\ Batch(objs) /\ Inserted(Tail(todo))
      /\ insertRange = <<change.first, change.last>> /\ Changing("insert", Len(lstFiles))
      /\ change.first = Len(lstFiles) /\ change.last = Len(lstFiles) + Len(objs) - 1
      /\ animState = AnimatedIn(ToSet(lstFiles))
  BY DEF AtAppend, Appends, Changing
<1> HIDE DEF objs
<1>3. /\ IsSeq(objs) /\ Len(objs) \in Nat
      /\ \A n \in 1 .. Len(objs) : FileObject(objs[n])
      /\ Cardinality(DOMAIN heap) + Len(objs) <= Cardinality(Objects)
  BY <1>2, RoomForBatch
<1>4. Grows(objs)
  BY <1>1, <1>3 DEF Grows
<1>5. HeapInv'
  <2>1. Free' >= 0
    BY <1>1, <1>2, <1>4, RoomAfterBatch DEF tableVars
  <2> QED
    BY <1>4, <2>1, NewHeap
<1>6. Fresh' = Fresh /\ Len(Fresh) \in Nat
  BY <1>1, <1>2, FreshFiles DEF Fresh, Img, tableVars
<1>7. ListHolds'
  <2>1. CASE lstFiles = << >> /\ objs = Fresh
    BY <1>4, <1>6, <2>1, NewList
  <2>2. CASE ListHolds /\ LostBatch(objs, Free)
    <3>1. \A n \in 1 .. Len(objs) : objs[n].lost
      <4>1. \A a \in BOOLEAN : LostFile(a).lost
        BY DEF LostFile
      <4>2. \A n \in 1 .. Len(objs) : \E a \in BOOLEAN : objs[n] = LostFile(a)
        BY <2>2 DEF LostBatch
      <4> QED
        BY <4>1, <4>2
    <3> QED
      BY <1>4, <1>6, <2>2, <3>1, NewList
  <2> QED
    BY <1>2, <2>1, <2>2 DEF Batch
<1>8. MapHolds'
  BY <1>1, <1>2, <1>6 DEF Batch, MapHolds
<1>9. /\ \A f \in DOMAIN heap : heap'[f] = heap[f]
      /\ Len(lstFiles') = Len(lstFiles) + Len(objs)
      /\ \A n \in 1 .. Len(lstFiles) : lstFiles'[n] = lstFiles[n]
  <2>1. Extended(objs, heap', lstFiles')
    BY <1>3, <1>4, Appending DEF Grows
  <2> QED
    BY <2>1 DEF Extended
<1>10. IsSeq(lstFiles) /\ Len(lstFiles) \in Nat /\ ToSet(lstFiles) \subseteq DOMAIN heap
  BY DEF HeapInv, IsSeq
<1>11. FilesIn(0, change.first - 1)' = ToSet(lstFiles)
  <2>1. change'.first - 1 = Len(lstFiles) - 1
    BY <1>2 DEF modelVars
  <2>2. \A r \in 0 .. Len(lstFiles) - 1 : lstFiles'[r + 1] = lstFiles[r + 1]
    BY <1>9, <1>10
  <2>3. FilesIn(0, Len(lstFiles) - 1) = ToSet(lstFiles)
    BY <1>10, AllRows
  <2> QED
    BY <2>1, <2>2, <2>3 DEF FilesIn, File
<1>12. animState' = AnimatedIn(FilesIn(0, change.first - 1))'
  <2>1. \A f \in ToSet(lstFiles) : heap'[f] = heap[f]
    BY <1>9, <1>10
  <2>2. AnimatedIn(FilesIn(0, change.first - 1))' = {f \in ToSet(lstFiles) : heap'[f].animated}
    BY <1>11 DEF AnimatedIn, Animated
  <2>3. animState' = {f \in ToSet(lstFiles) : heap[f].animated}
    BY <1>2 DEF AnimatedIn, Animated, modelVars
  <2> QED
    BY <2>1, <2>2, <2>3
<1>13. Changing("insert", change.first)'
  BY <1>1, <1>2 DEF Changing, IsOpen, tableVars, modelVars
<1>14. /\ change'.first \in Nat /\ change'.last \in Nat /\ change'.first <= change'.last
       /\ Len(lstFiles') = change'.last + 1
  <2>1. Len(objs) > 0 /\ change' = change
    BY <1>2 DEF Batch, modelVars
  <2> QED
    BY <2>1, <1>2, <1>3, <1>9, <1>10
<1> QED
  BY <1>1, <1>2, <1>5, <1>7, <1>8, <1>12, <1>13, <1>14 DEF AtInserted, Listed, modelVars

LEMMA AfterEmitInserted ==
    ASSUME HeapInv, AtInserted, EmitInserted
    PROVE  (AtBlockCount \/ AtIdle)' /\ Steady'
<1> DEFINE first == change.first  last == change.last
<1>1. /\ todo' = Tail(todo) /\ UNCHANGED <<tableVars, heap, lstFiles, usedBlockMap>>
      /\ animState' = IF insertRange = NoRange THEN animState
                      ELSE WithHelpers(animState, FilesIn(insertRange[1], insertRange[2]))
      /\ insertRange' = NoRange /\ fileCount' = Len(lstFiles) /\ EndRows
      /\ attached' = attached
  BY DEF EmitInserted, Emitted, FilesInserted
<1>2. /\ insertRange = <<first, last>> /\ first \in Nat /\ last \in Nat /\ first <= last
      /\ Len(lstFiles) = last + 1 /\ Changing("insert", first)
      /\ animState = AnimatedIn(FilesIn(0, first - 1))
      /\ Inserted(todo) /\ Listed /\ IsOpen /\ attached
  BY DEF AtInserted, Changing
<1>3. rows' = Len(lstFiles) /\ change' = NoChange
  <2>1. change.kind = "insert" /\ rows = change.first
    BY <1>2 DEF Changing
  <2>2. rows' = rows + (change.last - change.first + 1) /\ change' = NoChange
    BY <1>1, <2>1 DEF EndRows
  <2> QED
    BY <1>2, <2>1, <2>2
<1> HIDE DEF first, last
<1>4. insertRange # NoRange /\ insertRange[1] = first /\ insertRange[2] = last
  <2>1. insertRange[1] = first /\ insertRange[2] = last /\ first # -1
    BY <1>2
  <2>2. NoRange[1] = -1
    BY DEF NoRange
  <2> QED
    BY <2>1, <2>2
<1>5. FilesIn(0, first - 1) \cup FilesIn(first, last) = ToSet(lstFiles)
  <2>1. FilesIn(0, last) = ToSet(lstFiles)
    <3>1. last = Len(lstFiles) - 1 /\ IsSeq(lstFiles)
      BY <1>2 DEF HeapInv
    <3> QED
      BY <3>1, AllRows
  <2>2. FilesIn(0, first - 1) \cup FilesIn(first, last) = FilesIn(0, last)
    <3>1. 0 .. last = (0 .. first - 1) \cup (first .. last)
      BY <1>2
    <3> QED
      BY <3>1 DEF FilesIn
  <2> QED
    BY <2>1, <2>2
<1>6. animState' = AnimatedIn(ToSet(lstFiles))
  BY <1>1, <1>2, <1>4, <1>5 DEF WithHelpers, AnimatedIn
<1>7. Steady'
  BY <1>1, <1>2, <1>3, <1>6 DEF Steady, IsOpen, tableVars, AnimatedIn, Animated
<1>8. Listed'
  BY <1>1, <1>2, ListedStays DEF tableVars
<1> QED
  BY <1>1, <1>2, <1>7, <1>8 DEF Inserted, AtBlockCount, AtIdle

LEMMA AfterEmitBlockCount ==
    ASSUME AtBlockCount, EmitBlockCount
    PROVE  (AtTableChange \/ AtIdle)'
<1>1. /\ todo' = Tail(todo) /\ Changes(Tail(todo))
      /\ UNCHANGED <<tableVars, heap, lstFiles, usedBlockMap, modelVars>>
  BY DEF AtBlockCount, Counts, EmitBlockCount, Emitted
<1>2. Steady' /\ Listed'
  BY <1>1, SteadyStays, ListedStays DEF AtBlockCount, tableVars, modelVars
<1> QED
  BY <1>1, <1>2 DEF Changes, AtTableChange, AtIdle

LEMMA AfterEmitTableChanged ==
    ASSUME AtTableChange, EmitTableChanged
    PROVE  AtIdle' /\ Head(todo).idx \in TableIdx
<1>1. /\ todo' = << >> /\ Head(todo).idx \in TableIdx
      /\ UNCHANGED <<tableVars, heap, lstFiles, usedBlockMap, modelVars>>
  BY DEF AtTableChange, TableChange, EmitTableChanged, Emitted
<1>2. Steady' /\ Listed'
  BY <1>1, SteadyStays, ListedStays DEF AtTableChange, tableVars, modelVars
<1> QED
  BY <1>1, <1>2 DEF AtIdle

-----------------------------------------------------------------------------
(* From the idle program *)

\* The steps that clear the list and read the tables.
Reloads(t) ==
    /\ Known(t)
    /\ \/ AllGo(t)
       \/ Len(lstFiles) = 0 /\ Next1(t, "deleteAll") /\ Loads(Tail(t))

LEMMA Reloading ==
    ASSUME IsSeq(lstFiles), NEW s, Known(s), Changes(s)
    PROVE  Reloads(LoadGcnFileList \o s)
<1> DEFINE n == Len(lstFiles)
           a == AboutToBeRemoved(0, n - 1)  b == Step("deleteAll")
           c == Step("removed")  d == Step("load")
           s1 == <<d>> \o s
<1>1. LoadGcnFileList = (IF n > 0 THEN <<a>> ELSE << >>) \o <<b>>
                        \o (IF n > 0 THEN <<c>> ELSE << >>) \o <<d>>
  BY DEF LoadGcnFileList
<1>2. n \in Nat /\ IsSeq(s)
  BY DEF IsSeq, Known
<1>3. /\ a.op = "aboutToBeRemoved" /\ a.first = 0 /\ a.last = n - 1
      /\ b.op = "deleteAll" /\ c.op = "removed" /\ d.op = "load"
      /\ {"aboutToBeRemoved", "deleteAll", "removed", "load"} \subseteq StepNames
  BY DEF AboutToBeRemoved, Step, StepNames
<1> HIDE DEF a, b, c, d
<1>4. IsSeq(s1) /\ s1 # << >> /\ Head(s1) = d /\ Tail(s1) = s /\ Known(s1)
  BY <1>2, <1>3, Pushed
<1>5. CASE n > 0
  <2> DEFINE s2 == <<c>> \o s1  s3 == <<b>> \o s2  s4 == <<a>> \o s3
  <2>1. LoadGcnFileList = <<a, b, c, d>>
    <3>1. /\ <<a>> \o <<b>> = <<a, b>> /\ <<a, b>> \o <<c>> = <<a, b, c>>
          /\ <<a, b, c>> \o <<d>> = <<a, b, c, d>>
      BY JoinedLiterals
    <3> QED
      BY <1>1, <1>5, <3>1
  <2>2. <<a, b, c, d>> \o s = s4
    <3>1. ASSUME NEW u, IsSeq(u)
          PROVE  <<a, b, c, d>> \o u = <<a>> \o (<<b>> \o (<<c>> \o (<<d>> \o u)))
      BY <3>1, PushedFour
    <3> QED
      BY <1>2, <3>1, Zenon
  <2> HIDE DEF s1
  <2>3. IsSeq(s2) /\ s2 # << >> /\ Head(s2) = c /\ Tail(s2) = s1 /\ Known(s2)
    BY <1>3, <1>4, Pushed
  <2> HIDE DEF s2
  <2>4. IsSeq(s3) /\ s3 # << >> /\ Head(s3) = b /\ Tail(s3) = s2 /\ Known(s3)
    BY <1>3, <2>3, Pushed
  <2> HIDE DEF s3
  <2>5. IsSeq(s4) /\ s4 # << >> /\ Head(s4) = a /\ Tail(s4) = s3 /\ Known(s4)
    BY <1>3, <2>4, Pushed
  <2> HIDE DEF s4
  <2>6. AllGo(s4)
    BY <1>3, <1>4, <1>5, <2>3, <2>4, <2>5 DEF AllGo, Next1, Loads
  <2> QED
    BY <2>1, <2>2, <2>5, <2>6 DEF Reloads
<1>6. CASE n = 0
  <2> DEFINE s2 == <<b>> \o s1
  <2>1. LoadGcnFileList = <<b, d>>
    <3>1. IsSeq(<<b>>) /\ << >> \o <<b>> = <<b>> /\ <<b>> \o << >> = <<b>>
      BY LiteralSeqs, NoMore
    <3>2. <<b>> \o <<d>> = <<b, d>>
      BY JoinedLiterals, Zenon
    <3> QED
      BY <1>1, <1>6, <3>1, <3>2
  <2>2. <<b, d>> \o s = s2
    BY <1>2, PushedTwo
  <2> HIDE DEF s1
  <2>3. IsSeq(s2) /\ s2 # << >> /\ Head(s2) = b /\ Tail(s2) = s1 /\ Known(s2)
    BY <1>3, <1>4, Pushed
  <2> HIDE DEF s2
  <2>4. Next1(s2, "deleteAll") /\ Loads(Tail(s2))
    BY <1>3, <1>4, <2>3 DEF Next1, Loads
  <2> QED
    BY <1>6, <2>1, <2>2, <2>3, <2>4 DEF Reloads
<1> QED
  BY <1>2, <1>5, <1>6

LEMMA ChangeIsKnown ==
    ASSUME NEW t \in TableIdx,
           NEW r, r \in {[op |-> "datChanged", idx |-> t], [op |-> "batChanged", idx |-> t]}
    PROVE  Known(<<r>>) /\ Changes(<<r>>) /\ Known(<< >>) /\ Changes(<< >>)
<1>1. r.idx = t /\ (r.op = "datChanged" \/ r.op = "batChanged") /\ r.op \in StepNames
  BY DEF StepNames
<1>2. <<r>> # << >> /\ Head(<<r>>) = r /\ Tail(<<r>>) = << >> /\ Known(<<r>>)
  BY <1>1, OneStep
<1>3. Changes(<<r>>)
  BY <1>1, <1>2 DEF Changes, TableChange, Next1
<1> QED
  BY <1>2, <1>3, OpenIsKnown DEF Changes

LEMMA AfterReload ==
    ASSUME HeapInv, AtIdle, IsOpen, Reloads(todo'), image' = image,
           UNCHANGED <<heap, lstFiles, modelVars>>
    PROVE  (AtRemoving \/ AtDeleteAll)'
<1>1. Steady
  BY DEF AtIdle, NoCard
<1>2. Steady'
  BY <1>1, SteadyStays DEF modelVars
<1>3. CASE AllGo(todo')
  <2>1. AllGo(todo)'
    BY <1>3 DEF AllGo
  <2> QED
    BY <1>2, <2>1 DEF AtRemoving, AllGo, Doing, Next1
<1>4. CASE Len(lstFiles) = 0 /\ Next1(todo', "deleteAll") /\ Loads(Tail(todo'))
  BY <1>2, <1>4 DEF AtDeleteAll, Doing, Next1, Steady
<1> QED
  BY <1>3, <1>4 DEF Reloads

LEMMA AfterSetActiveIdx ==
    ASSUME HeapInv, CardInv, AtIdle, NEW t \in TableIdx,
           SetActiveDatIdx(t) \/ SetActiveBatIdx(t), UNCHANGED modelVars
    PROVE  HeapInv' /\ CardInv' /\ (AtRemoving \/ AtDeleteAll)'
           /\ (OpenedWithBestTables => OpenedWithBestTables')
<1> DEFINE dc == [op |-> "datChanged", idx |-> t]  bc == [op |-> "batChanged", idx |-> t]
<1>1. /\ IsOpen /\ dat' \in TableIdx /\ bat' \in TableIdx
      /\ UNCHANGED <<image, datActive, batActive, freeBlocks, heap, lstFiles, usedBlockMap>>
  BY DEF SetActiveDatIdx, SetActiveBatIdx, CardInv
<1>2. \/ todo' = LoadGcnFileList \o << >>
      \/ todo' = LoadGcnFileList \o <<dc>>
      \/ todo' = LoadGcnFileList \o <<bc>>
  BY DEF SetActiveDatIdx, SetActiveBatIdx
<1>3. /\ Known(<<dc>>) /\ Changes(<<dc>>) /\ Known(<<bc>>) /\ Changes(<<bc>>)
      /\ Known(<< >>) /\ Changes(<< >>)
  BY ChangeIsKnown
<1> HIDE DEF dc, bc
<1>4. Reloads(todo')
  <2>1. ASSUME NEW s, Known(s), Changes(s) PROVE Reloads(LoadGcnFileList \o s)
    BY <2>1, Reloading DEF HeapInv
  <2> QED
    BY <1>2, <1>3, <2>1
<1>5. (AtRemoving \/ AtDeleteAll)'
  BY <1>1, <1>4, AfterReload
<1>6. CardInv'
  BY <1>1, <1>4 DEF CardInv, Reloads
<1>7. HeapInv'
  BY <1>1, FreeStays DEF HeapInv, IsOpen, Lost
<1>8. OpenedWithBestTables => OpenedWithBestTables'
  BY <1>1 DEF OpenedWithBestTables, IsOpen, Img
<1> QED
  BY <1>5, <1>6, <1>7, <1>8

LEMMA AfterSearchFinished ==
    ASSUME HeapInv, CardInv, AtIdle, SearchFinished
    PROVE  Known(todo') /\ AtRemoveLost'
<1>1. PICK n \in 0 .. MaxLost, anim \in BOOLEAN :
        /\ Cardinality({f \in DOMAIN heap : Lost(f)}) + n + MaxEntries(Img)
               <= Cardinality(Objects)
        /\ todo' = << Step("removeLost"), LostFound([k \in 1 .. n |-> LostFile(anim)]) >>
  BY DEF SearchFinished
<1>2. /\ IsOpen /\ UNCHANGED <<tableVars, heap, lstFiles, usedBlockMap, modelVars>>
  BY DEF SearchFinished
<1>3. Steady' /\ Listed' /\ Free' = Free
  BY <1>2, SteadyStays, ListedStays, FreeStays DEF AtIdle, NoCard, tableVars, modelVars
<1> DEFINE objs == [k \in 1 .. n |-> LostFile(anim)]
           a == Step("removeLost")  b == LostFound(objs)
           s1 == <<b>> \o << >>  s2 == <<a>> \o s1
<1>4. LostBatch(objs, Free)
  <2>1. n \in Nat
    BY BoundsAssumption
  <2>2. IsSeq(objs) /\ Len(objs) = n
    BY <2>1 DEF IsSeq
  <2>3. n <= Free
    <3>1. /\ Cardinality(Objects) \in Nat /\ Cardinality(LostObjects) \in Nat
          /\ MaxEntries(Img) \in Nat
      BY <1>2, Numbers
    <3>2. Cardinality(LostObjects) + n + MaxEntries(Img) <= Cardinality(Objects)
      BY <1>1 DEF LostObjects
    <3> QED
      BY <2>1, <3>1, <3>2 DEF Free
  <2> QED
    BY <2>2, <2>3 DEF LostBatch
<1>5. /\ a.op = "removeLost" /\ b.op = "addLost" /\ b.objs = objs
      /\ {"removeLost", "addLost"} \subseteq StepNames
  BY DEF Step, LostFound, StepNames
<1>6. todo' = <<a, b>>
  BY <1>1
<1> HIDE DEF a, b, objs
<1>7. IsSeq(<< >>) /\ Known(<< >>)
  BY OpenIsKnown DEF Known
<1>8. todo' = s2
  <2>1. IsSeq(<<a, b>>)
    BY LiteralSeqs
  <2>2. <<a, b>> \o << >> = s2
    BY <1>7, PushedTwo
  <2> QED
    BY <1>6, <2>1, <2>2, NoMore
<1>9. IsSeq(s1) /\ s1 # << >> /\ Head(s1) = b /\ Tail(s1) = << >> /\ Known(s1)
  BY <1>5, <1>7, Pushed
<1> HIDE DEF s1
<1>10. IsSeq(s2) /\ s2 # << >> /\ Head(s2) = a /\ Tail(s2) = s1 /\ Known(s2)
  BY <1>5, <1>9, Pushed
<1> HIDE DEF s2
<1>11. RemovesLost(s2, Free)
  BY <1>4, <1>5, <1>9, <1>10 DEF RemovesLost, AddsLost, Next1
<1> QED
  BY <1>3, <1>8, <1>10, <1>11 DEF AtRemoveLost

\* Nothing but the widgets, the current file or the animation changes.
LEMMA IdleStays ==
    ASSUME AtIdle, UNCHANGED cardVars, attached' = attached, insertRange' = insertRange,
           change' = change, rows' = rows, fileCount' = fileCount, animState' = animState
    PROVE  AtIdle'
BY DEF AtIdle, Steady, Listed, ListHolds, MapHolds, Apart, NoCard, cardVars, Fresh, Img,
       IsOpen, AnimatedIn, Animated, Lost

-----------------------------------------------------------------------------
(* Every step keeps the invariant *)

LEMMA HeapStays ==
    ASSUME HeapInv, UNCHANGED <<image, heap, lstFiles>>
    PROVE  HeapInv'
<1>1. Free' = Free
  BY FreeStays
<1> QED
  BY <1>1 DEF HeapInv, IsOpen, Lost

LEMMA BestStays ==
    ASSUME OpenedWithBestTables, UNCHANGED <<image, datActive, batActive>>
    PROVE  OpenedWithBestTables'
BY DEF OpenedWithBestTables, IsOpen, Img

\* The card is left alone.
CardKept == UNCHANGED <<tableVars, heap, lstFiles, usedBlockMap>>

LEMMA CardStays ==
    ASSUME IInv, CardKept, Known(todo')
    PROVE  HeapInv' /\ CardInv' /\ OpenedWithBestTables'
<1>1. HeapInv'
  BY HeapStays DEF IInv, CardKept, tableVars
<1>2. CardInv'
  BY DEF IInv, CardInv, CardKept, tableVars
<1>3. OpenedWithBestTables'
  BY BestStays DEF IInv, CardKept, tableVars
<1> QED
  BY <1>1, <1>2, <1>3

LEMMA CardStaysAfterPop ==
    ASSUME IInv, CardKept, todo # << >>, todo' = Tail(todo)
    PROVE  HeapInv' /\ CardInv' /\ OpenedWithBestTables'
BY PopKnown, CardStays DEF IInv, CardInv

LEMMA ViewsStay ==
    ASSUME ViewInv, TimerInv, UNCHANGED <<modelVars, widgetVars>>
    PROVE  ViewInv' /\ TimerInv'
BY DEF ViewInv, TimerInv, modelVars, widgetVars, fileViewVars, cardViewVars

LEMMA FilesShownStay ==
    ASSUME NoDanglingFile, DOMAIN heap \subseteq DOMAIN heap', UNCHANGED fileViewVars
    PROVE  NoDanglingFile'
BY DEF NoDanglingFile, fileViewVars

LEMMA FileSet ==
    ASSUME ViewInv, NoDanglingFile, heap' = heap, NEW f \in DOMAIN heap \cup {None}, SetFile(f)
    PROVE  viewTimer' \in BOOLEAN /\ NoDanglingFile'
<1>1. CASE f = None
  BY <1>1 DEF SetFile, ViewInv, NoDanglingFile
<1>2. CASE f # None
  <2>1. shown' = f /\ helper' = f /\ viewTimer' = (pauseCounter <= 0 /\ Animated(f))
    BY <1>2 DEF SetFile
  <2>2. viewTimer' \in BOOLEAN
    BY <2>1, Zenon
  <2> QED
    BY <2>1, <2>2 DEF NoDanglingFile
<1> QED
  BY <1>1, <1>2

LEMMA SelectionMoved ==
    ASSUME HeapInv, ViewInv, NoDanglingFile, heap' = heap, NEW first, NEW last,
           SelectionMoves(first, last)
    PROVE  viewTimer' \in BOOLEAN /\ NoDanglingFile'
<1>1. CASE UNCHANGED fileViewVars
  BY <1>1 DEF ViewInv, NoDanglingFile, fileViewVars
<1>2. ASSUME NEW f \in {None} \cup (ToSet(lstFiles) \ FilesIn(first, last)), SetFile(f)
      PROVE  viewTimer' \in BOOLEAN /\ NoDanglingFile'
  <2>1. f \in DOMAIN heap \cup {None}
    BY DEF HeapInv
  <2> QED
    BY <1>2, <2>1, FileSet
<1> QED
  BY <1>1, <1>2 DEF SelectionMoves

LEMMA TimerStateIs ==
    ASSUME ViewInv, NEW S
    PROVE  /\ TimerState(S) \in BOOLEAN
           /\ pauseCounter > 0 => ~TimerState(S)
           /\ pauseCounter = 0 /\ S # {} => TimerState(S)
<1>1. /\ pauseCounter > 0 => ~(pauseCounter <= 0)
      /\ pauseCounter = 0 => pauseCounter <= 0
  BY DEF ViewInv
<1>2. TimerState(S) \in BOOLEAN
  BY Zenon DEF TimerState
<1>3. pauseCounter > 0 => ~TimerState(S)
  BY <1>1, Zenon DEF TimerState
<1>4. pauseCounter = 0 /\ S # {} => TimerState(S)
  BY <1>1, Zenon DEF TimerState
<1> QED
  BY <1>2, <1>3, <1>4

-----------------------------------------------------------------------------
(* ... opening and closing *)

LEMMA StepOpenCard == ASSUME IInv, OpenCard PROVE IInv'
<1>1. AtIdle
  BY Where DEF IInv, OpenCard
<1>2. (AtOpen \/ AtDetach)' /\ Known(todo')
  BY <1>1, AfterOpenCard
<1>3. CardKept /\ UNCHANGED <<modelVars, widgetVars>>
  BY DEF OpenCard, CardKept
<1>4. HeapInv' /\ CardInv' /\ OpenedWithBestTables'
  BY <1>2, <1>3, CardStays
<1>5. ViewInv' /\ TimerInv'
  BY <1>3, ViewsStay DEF IInv
<1>6. NoDanglingFile'
  BY <1>3, FilesShownStay DEF IInv, CardKept, widgetVars
<1> QED
  BY <1>2, <1>4, <1>5, <1>6 DEF IInv, Place

LEMMA StepCloseCard == ASSUME IInv, CloseCard PROVE IInv'
<1>1. AtIdle
  BY Where DEF IInv, CloseCard
<1>2. AtDetach' /\ Known(todo')
  BY <1>1, AfterCloseCard
<1>3. CardKept /\ UNCHANGED <<modelVars, widgetVars>>
  BY DEF CloseCard, CardKept
<1>4. HeapInv' /\ CardInv' /\ OpenedWithBestTables'
  BY <1>2, <1>3, CardStays
<1>5. ViewInv' /\ TimerInv'
  BY <1>3, ViewsStay DEF IInv
<1>6. NoDanglingFile'
  BY <1>3, FilesShownStay DEF IInv, CardKept, widgetVars
<1> QED
  BY <1>2, <1>4, <1>5, <1>6 DEF IInv, Place

LEMMA StepOpen == ASSUME IInv, Open PROVE IInv'
<1>1. AtOpen
  BY Where DEF IInv, Open
<1>2. /\ (AtAttach \/ AtDetach)' /\ HeapInv' /\ CardInv' /\ OpenedWithBestTables'
      /\ DOMAIN heap = {}
  BY <1>1, AfterOpen DEF IInv
<1>3. UNCHANGED <<modelVars, widgetVars>>
  BY DEF Open
<1>4. ViewInv' /\ TimerInv'
  BY <1>3, ViewsStay DEF IInv
<1>5. NoDanglingFile'
  BY <1>2, <1>3, FilesShownStay DEF IInv, widgetVars
<1> QED
  BY <1>2, <1>4, <1>5 DEF IInv, Place

LEMMA StepDelete == ASSUME IInv, Delete PROVE IInv'
<1>1. AtDelete
  BY Where DEF IInv, Delete
<1>2. (AtIdle \/ AtOpen)'
  BY <1>1, AfterDelete
<1>3. /\ DeleteCard /\ todo # << >> /\ todo' = Tail(todo) /\ FilesDestroyed(DOMAIN heap)
      /\ UNCHANGED <<modelVars, cardViewVars>>
  BY DEF Delete, Doing
<1>4. DOMAIN heap' = {} /\ heap' = << >> /\ lstFiles' = << >> /\ ~IsOpen'
  BY <1>3 DEF DeleteCard, IsOpen
<1>5. HeapInv'
  <2>1. IsSeq(<< >>) /\ ToSet(<< >>) = {} /\ IsInjective(<< >>)
    BY DEF IsSeq, ToSet, IsInjective
  <2>2. heap' = [f \in DOMAIN heap' |-> heap'[f]]
    <3>1. << >> = [n \in {} |-> << >>[n]]
      OBVIOUS
    <3> QED
      BY <3>1, <1>4
  <2> QED
    BY <1>4, <2>1, <2>2 DEF HeapInv
<1>6. CardInv'
  <2>1. Known(todo')
    BY <1>3, PopKnown DEF IInv, CardInv
  <2>2. usedBlockMap' \in [0 .. TotalPhys - 1 -> 0 .. MaxCount]
    BY <1>3, SizesAssumption DEF DeleteCard, ResetMap
  <2> QED
    BY <1>3, <2>1, <2>2 DEF DeleteCard, CardInv, TableIdx
<1>7. OpenedWithBestTables'
  BY <1>4 DEF OpenedWithBestTables
<1>8. ViewInv' /\ TimerInv'
  BY <1>3 DEF IInv, ViewInv, TimerInv, FilesDestroyed, modelVars, cardViewVars
<1>9. NoDanglingFile'
  BY <1>3, <1>4 DEF IInv, NoDanglingFile, FilesDestroyed
<1> QED
  BY <1>2, <1>5, <1>6, <1>7, <1>8, <1>9 DEF IInv, Place

LEMMA StepAttach == ASSUME IInv, Attach PROVE IInv'
<1>1. AtAttached'
  BY Where, AfterAttach DEF IInv, Attach
<1>2. /\ CardKept /\ todo # << >> /\ todo' = Tail(todo) /\ UNCHANGED widgetVars
      /\ UNCHANGED <<attached, animState, animTimer, pauseCounter>>
  BY DEF Attach, Doing, StepDone, CardKept, BeginAttach
<1>3. HeapInv' /\ CardInv' /\ OpenedWithBestTables'
  BY <1>2, CardStaysAfterPop
<1>4. ViewInv' /\ TimerInv'
  BY <1>2 DEF IInv, ViewInv, TimerInv, widgetVars, fileViewVars, cardViewVars
<1>5. NoDanglingFile'
  BY <1>2, FilesShownStay DEF IInv, CardKept, widgetVars
<1> QED
  BY <1>1, <1>3, <1>4, <1>5 DEF IInv, Place

LEMMA StepAttached == ASSUME IInv, Attached PROVE IInv'
<1>1. AtShowCard'
  BY Where, AfterAttached DEF IInv, Attached
<1>2. /\ CardKept /\ todo # << >> /\ todo' = Tail(todo) /\ UNCHANGED widgetVars
      /\ attached' = TRUE /\ animTimer' = TimerState(animState') /\ pauseCounter' = pauseCounter
  BY DEF Attached, Doing, StepDone, CardKept, EndAttach
<1>3. HeapInv' /\ CardInv' /\ OpenedWithBestTables'
  BY <1>2, CardStaysAfterPop
<1>4. ViewInv'
  <2>1. (animState \subseteq Objects)'
    BY <1>1, <1>3 DEF AtShowCard, HeapInv, Steady, AnimatedIn
  <2>2. animTimer' \in BOOLEAN
    BY <1>2, TimerStateIs DEF IInv
  <2> QED
    BY <1>2, <2>1, <2>2 DEF IInv, ViewInv, widgetVars, fileViewVars, cardViewVars
<1>5. TimerInv'
  <2>1. /\ pauseCounter > 0 => ~TimerState(animState')
        /\ pauseCounter = 0 /\ animState' # {} => TimerState(animState')
    BY TimerStateIs DEF IInv
  <2> QED
    BY <1>2, <2>1 DEF TimerInv
<1>6. NoDanglingFile'
  BY <1>2, FilesShownStay DEF IInv, CardKept, widgetVars
<1> QED
  BY <1>1, <1>3, <1>4, <1>5, <1>6 DEF IInv, Place

LEMMA StepDetach == ASSUME IInv, Detach PROVE IInv'
<1>1. AtDetached'
  BY Where, AfterDetach DEF IInv, Detach
<1>2. /\ CardKept /\ todo # << >> /\ todo' = Tail(todo) /\ UNCHANGED cardViewVars
      /\ UNCHANGED <<attached, animState, animTimer, pauseCounter>>
      /\ heap' = heap
      /\ IF attached /\ Len(lstFiles) > 0
         THEN SelectionMoves(0, Len(lstFiles) - 1) ELSE UNCHANGED fileViewVars
  BY DEF Detach, Doing, StepDone, CardKept, BeginDetach
<1>3. HeapInv' /\ CardInv' /\ OpenedWithBestTables'
  BY <1>2, CardStaysAfterPop
<1>4. viewTimer' \in BOOLEAN /\ NoDanglingFile'
  <2>1. CASE SelectionMoves(0, Len(lstFiles) - 1)
    BY <1>2, <2>1, SelectionMoved DEF IInv
  <2>2. CASE UNCHANGED fileViewVars
    BY <1>2, <2>2 DEF IInv, ViewInv, NoDanglingFile, fileViewVars
  <2> QED
    BY <1>2, <2>1, <2>2
<1>5. ViewInv' /\ TimerInv'
  BY <1>2, <1>4 DEF IInv, ViewInv, TimerInv, cardViewVars
<1> QED
  BY <1>1, <1>3, <1>4, <1>5 DEF IInv, Place

LEMMA StepDetached == ASSUME IInv, Detached PROVE IInv'
<1>1. AtClearViews'
  BY Where, AfterDetached DEF IInv, Detached
<1>2. /\ CardKept /\ todo # << >> /\ todo' = Tail(todo) /\ UNCHANGED widgetVars
      /\ attached' = FALSE /\ UNCHANGED <<animState, animTimer, pauseCounter>>
  BY DEF Detached, Doing, StepDone, CardKept, EndDetach
<1>3. HeapInv' /\ CardInv' /\ OpenedWithBestTables'
  BY <1>2, CardStaysAfterPop
<1>4. ViewInv' /\ TimerInv'
  BY <1>2 DEF IInv, ViewInv, TimerInv, widgetVars, fileViewVars, cardViewVars
<1>5. NoDanglingFile'
  BY <1>2, FilesShownStay DEF IInv, CardKept, widgetVars
<1> QED
  BY <1>1, <1>3, <1>4, <1>5 DEF IInv, Place

LEMMA CardShown ==
    ASSUME CardInv, ViewInv, ShowCard
    PROVE  /\ headerIcon' \in BOOLEAN /\ countIcon' \in BOOLEAN
           /\ datButton' \in {-1, 0, 1} /\ batButton' \in {-1, 0, 1}
<1>1. /\ countIcon' = (countIcon \/ CountInvalid) /\ headerIcon' = ~Img.header
      /\ datButton' = ButtonsFor(datActive, datButton)
      /\ batButton' = ButtonsFor(batActive, batButton)
  BY DEF ShowCard
<1>2. headerIcon' \in BOOLEAN /\ countIcon' \in BOOLEAN
  BY <1>1, Zenon
<1> QED
  BY <1>1, <1>2 DEF CardInv, ViewInv, ButtonsFor

LEMMA StepShowViews == ASSUME IInv, ShowViews PROVE IInv'
<1>1. AtIdle'
  BY Where, AfterShowViews DEF IInv, ShowViews
<1>2. /\ CardKept /\ todo # << >> /\ todo' = Tail(todo) /\ UNCHANGED <<modelVars, fileViewVars>>
      /\ ShowCard /\ viewed' = TRUE
  BY DEF ShowViews, Doing, StepDone, CardKept, SetViewedCard
<1>3. HeapInv' /\ CardInv' /\ OpenedWithBestTables'
  BY <1>2, CardStaysAfterPop
<1>4. /\ headerIcon' \in BOOLEAN /\ countIcon' \in BOOLEAN
      /\ datButton' \in {-1, 0, 1} /\ batButton' \in {-1, 0, 1}
  BY <1>2, CardShown DEF IInv
<1>5. ViewInv' /\ TimerInv'
  BY <1>2, <1>4 DEF IInv, ViewInv, TimerInv, modelVars, fileViewVars
<1>6. NoDanglingFile'
  BY <1>2, FilesShownStay DEF IInv, CardKept
<1> QED
  BY <1>1, <1>3, <1>5, <1>6 DEF IInv, Place

LEMMA StepClearViews == ASSUME IInv, ClearViews PROVE IInv'
<1>1. AtDelete'
  BY Where, AfterClearViews DEF IInv, ClearViews
<1>2. /\ CardKept /\ todo # << >> /\ todo' = Tail(todo) /\ UNCHANGED modelVars
      /\ ClearViewedCard /\ SetFile(None) /\ heap' = heap
  BY DEF ClearViews, Doing, StepDone, CardKept
<1>3. HeapInv' /\ CardInv' /\ OpenedWithBestTables'
  BY <1>2, CardStaysAfterPop
<1>4. viewTimer' \in BOOLEAN /\ NoDanglingFile'
  BY <1>2, FileSet DEF IInv
<1>5. ViewInv' /\ TimerInv'
  BY <1>2, <1>4 DEF IInv, ViewInv, TimerInv, modelVars, ClearViewedCard
<1> QED
  BY <1>1, <1>3, <1>4, <1>5 DEF IInv, Place

-----------------------------------------------------------------------------
(* ... the signals *)

LEMMA StepEmitAboutToBeRemoved == ASSUME IInv, EmitAboutToBeRemoved PROVE IInv'
<1>1. (AtDeleteAll \/ AtRemove)'
  BY Where, AfterEmitAboutToBeRemoved DEF IInv, EmitAboutToBeRemoved
<1>2. /\ CardKept /\ todo # << >> /\ todo' = Tail(todo) /\ heap' = heap
      /\ UNCHANGED <<attached, animTimer, pauseCounter, cardViewVars>>
      /\ animState' \subseteq animState
      /\ SelectionMoves(Head(todo).first, Head(todo).last)
  BY DEF EmitAboutToBeRemoved, Doing, Emitted, CardKept, FilesAboutToBeRemoved
<1>3. HeapInv' /\ CardInv' /\ OpenedWithBestTables'
  BY <1>2, CardStaysAfterPop
<1>4. viewTimer' \in BOOLEAN /\ NoDanglingFile'
  BY <1>2, SelectionMoved DEF IInv
<1>5. ViewInv' /\ TimerInv'
  BY <1>2, <1>4 DEF IInv, ViewInv, TimerInv, cardViewVars
<1> QED
  BY <1>1, <1>3, <1>4, <1>5 DEF IInv, Place

LEMMA StepEmitRemoved == ASSUME IInv, EmitRemoved PROVE IInv'
<1>1. (AtLoad \/ AtRemoveLost)'
  BY Where, AfterEmitRemoved DEF IInv, EmitRemoved
<1>2. /\ CardKept /\ todo # << >> /\ todo' = Tail(todo)
      /\ UNCHANGED <<attached, animState, animTimer, pauseCounter, widgetVars>>
  BY DEF EmitRemoved, Doing, Emitted, CardKept, FilesRemoved
<1>3. HeapInv' /\ CardInv' /\ OpenedWithBestTables'
  BY <1>2, CardStaysAfterPop
<1>4. ViewInv' /\ TimerInv'
  BY <1>2 DEF IInv, ViewInv, TimerInv, widgetVars, fileViewVars, cardViewVars
<1>5. NoDanglingFile'
  BY <1>2, FilesShownStay DEF IInv, CardKept, widgetVars
<1> QED
  BY <1>1, <1>3, <1>4, <1>5 DEF IInv, Place

LEMMA StepEmitAboutToBeInserted == ASSUME IInv, EmitAboutToBeInserted PROVE IInv'
<1>1. AtAppend'
  BY Where, AfterEmitAboutToBeInserted DEF IInv, EmitAboutToBeInserted
<1>2. /\ CardKept /\ todo # << >> /\ todo' = Tail(todo)
      /\ UNCHANGED <<attached, animState, animTimer, pauseCounter, widgetVars>>
  BY DEF EmitAboutToBeInserted, Doing, Emitted, CardKept, FilesAboutToBeInserted
<1>3. HeapInv' /\ CardInv' /\ OpenedWithBestTables'
  BY <1>2, CardStaysAfterPop
<1>4. ViewInv' /\ TimerInv'
  BY <1>2 DEF IInv, ViewInv, TimerInv, widgetVars, fileViewVars, cardViewVars
<1>5. NoDanglingFile'
  BY <1>2, FilesShownStay DEF IInv, CardKept, widgetVars
<1> QED
  BY <1>1, <1>3, <1>4, <1>5 DEF IInv, Place

LEMMA StepEmitInserted == ASSUME IInv, EmitInserted PROVE IInv'
<1>1. (AtBlockCount \/ AtIdle)' /\ Steady'
  BY Where, AfterEmitInserted DEF IInv, EmitInserted
<1>2. /\ CardKept /\ todo # << >> /\ todo' = Tail(todo) /\ UNCHANGED widgetVars
      /\ animTimer' = TimerState(animState') /\ UNCHANGED <<attached, pauseCounter>>
  BY DEF EmitInserted, Doing, Emitted, CardKept, FilesInserted
<1>3. HeapInv' /\ CardInv' /\ OpenedWithBestTables'
  BY <1>2, CardStaysAfterPop
<1>4. ViewInv'
  <2>1. (animState \subseteq Objects)'
    BY <1>1, <1>3 DEF HeapInv, Steady, AnimatedIn
  <2>2. animTimer' \in BOOLEAN
    BY <1>2, TimerStateIs DEF IInv
  <2> QED
    BY <1>2, <2>1, <2>2 DEF IInv, ViewInv, widgetVars, fileViewVars, cardViewVars
<1>5. TimerInv'
  <2>1. /\ pauseCounter > 0 => ~TimerState(animState')
        /\ pauseCounter = 0 /\ animState' # {} => TimerState(animState')
    BY TimerStateIs DEF IInv
  <2> QED
    BY <1>2, <2>1 DEF TimerInv
<1>6. NoDanglingFile'
  BY <1>2, FilesShownStay DEF IInv, CardKept, widgetVars
<1> QED
  BY <1>1, <1>3, <1>4, <1>5, <1>6 DEF IInv, Place

LEMMA StepEmitBlockCount == ASSUME IInv, EmitBlockCount PROVE IInv'
<1>1. (AtTableChange \/ AtIdle)'
  BY Where, AfterEmitBlockCount DEF IInv, EmitBlockCount
<1>2. /\ CardKept /\ todo # << >> /\ todo' = Tail(todo)
      /\ UNCHANGED <<modelVars, fileViewVars, viewed, datButton, batButton>>
      /\ countIcon' = (countIcon \/ CountInvalid)
      /\ headerIcon' = (headerIcon /\ CountInvalid)
  BY DEF EmitBlockCount, Doing, Emitted, CardKept, BlockCountChanged
<1>3. HeapInv' /\ CardInv' /\ OpenedWithBestTables'
  BY <1>2, CardStaysAfterPop
<1>4. countIcon' \in BOOLEAN /\ headerIcon' \in BOOLEAN
  BY <1>2, Zenon
<1>5. ViewInv' /\ TimerInv'
  BY <1>2, <1>4 DEF IInv, ViewInv, TimerInv, modelVars, fileViewVars
<1>6. NoDanglingFile'
  BY <1>2, FilesShownStay DEF IInv, CardKept
<1> QED
  BY <1>1, <1>3, <1>5, <1>6 DEF IInv, Place

LEMMA StepEmitTableChanged == ASSUME IInv, EmitTableChanged PROVE IInv'
<1>1. AtIdle' /\ Head(todo).idx \in TableIdx
  BY Where, AfterEmitTableChanged DEF IInv, EmitTableChanged
<1>2. /\ CardKept /\ todo # << >> /\ todo' = Tail(todo)
      /\ UNCHANGED <<modelVars, fileViewVars, viewed, headerIcon, countIcon>>
      /\ datButton' = datButton \/ datButton' = Head(todo).idx
      /\ batButton' = batButton \/ batButton' = Head(todo).idx
  BY DEF EmitTableChanged, Doing, Emitted, CardKept
<1>3. HeapInv' /\ CardInv' /\ OpenedWithBestTables'
  BY <1>2, CardStaysAfterPop
<1>4. ViewInv' /\ TimerInv'
  BY <1>1, <1>2 DEF IInv, ViewInv, TimerInv, modelVars, fileViewVars, TableIdx
<1>5. NoDanglingFile'
  BY <1>2, FilesShownStay DEF IInv, CardKept
<1> QED
  BY <1>1, <1>3, <1>4, <1>5 DEF IInv, Place

-----------------------------------------------------------------------------
(* ... the code between two signals *)

LEMMA StepDeleteAll ==
    ASSUME IInv, Doing("deleteAll"), DeleteAll, FilesDestroyed(ToSet(lstFiles)),
           UNCHANGED <<modelVars, cardViewVars>>
    PROVE  IInv'
<1>1. HeapInv' /\ (AtRemoved \/ AtLoad)'
  BY Where, AfterDeleteAll DEF IInv
<1>2. /\ todo # << >> /\ todo' = Tail(todo) /\ UNCHANGED <<tableVars, usedBlockMap>>
      /\ DOMAIN heap' = DOMAIN heap \ ToSet(lstFiles)
  BY DEF DeleteAll, Doing, Without
<1>3. CardInv'
  BY <1>2, PopKnown DEF IInv, CardInv, tableVars
<1>4. OpenedWithBestTables'
  BY <1>2, BestStays DEF IInv, tableVars
<1>5. ViewInv' /\ TimerInv'
  BY DEF IInv, ViewInv, TimerInv, FilesDestroyed, modelVars, cardViewVars
<1>6. NoDanglingFile'
  BY <1>2 DEF IInv, NoDanglingFile, FilesDestroyed
<1> QED
  BY <1>1, <1>3, <1>4, <1>5, <1>6 DEF IInv, Place

LEMMA StepLoad ==
    ASSUME IInv, Doing("load"), Load, UNCHANGED <<modelVars, widgetVars>>
    PROVE  IInv'
<1>1. CardInv' /\ (AtInserting \/ AtBlockCount)'
  BY Where, AfterLoad DEF IInv
<1>2. UNCHANGED <<tableVars, heap, lstFiles>>
  BY DEF Load
<1>3. HeapInv' /\ OpenedWithBestTables'
  BY <1>2, HeapStays, BestStays DEF IInv, tableVars
<1>4. ViewInv' /\ TimerInv'
  BY ViewsStay DEF IInv
<1>5. NoDanglingFile'
  BY <1>2, FilesShownStay DEF IInv, widgetVars
<1> QED
  BY <1>1, <1>3, <1>4, <1>5 DEF IInv, Place

LEMMA StepAppend ==
    ASSUME IInv, Doing("append"), AppendFiles, UNCHANGED <<modelVars, widgetVars>>
    PROVE  IInv'
<1>1. HeapInv' /\ AtInserted'
  BY Where, AfterAppendFiles DEF IInv
<1>2. /\ todo # << >> /\ todo' = Tail(todo) /\ UNCHANGED <<tableVars, usedBlockMap>>
      /\ DOMAIN heap \subseteq DOMAIN heap'
  BY DEF AppendFiles, Doing, WithObjects
<1>3. CardInv'
  BY <1>2, PopKnown DEF IInv, CardInv, tableVars
<1>4. OpenedWithBestTables'
  BY <1>2, BestStays DEF IInv, tableVars
<1>5. ViewInv' /\ TimerInv'
  BY ViewsStay DEF IInv
<1>6. NoDanglingFile'
  BY <1>2, FilesShownStay DEF IInv, widgetVars
<1> QED
  BY <1>1, <1>3, <1>4, <1>5, <1>6 DEF IInv, Place

LEMMA StepRemoveRow ==
    ASSUME IInv, Doing("remove"), RemoveRow, UNCHANGED <<modelVars, widgetVars>>
    PROVE  IInv'
<1>1. HeapInv' /\ AtRemoved'
  BY Where, AfterRemoveRow DEF IInv
<1>2. todo # << >> /\ todo' = Tail(todo) /\ UNCHANGED <<tableVars, heap, usedBlockMap>>
  BY DEF RemoveRow, Doing
<1>3. CardInv'
  BY <1>2, PopKnown DEF IInv, CardInv, tableVars
<1>4. OpenedWithBestTables'
  BY <1>2, BestStays DEF IInv, tableVars
<1>5. ViewInv' /\ TimerInv'
  BY ViewsStay DEF IInv
<1>6. NoDanglingFile'
  BY <1>2, FilesShownStay DEF IInv, widgetVars
<1> QED
  BY <1>1, <1>3, <1>4, <1>5, <1>6 DEF IInv, Place

LEMMA StepRemoveLostFiles ==
    ASSUME IInv, Doing("removeLost"), RemoveLostFiles, UNCHANGED <<modelVars, widgetVars>>
    PROVE  IInv'
<1>1. Known(todo') /\ (AtRemoving \/ AtAddLost)'
  BY Where, AfterRemoveLostFiles DEF IInv
<1>2. CardKept
  BY DEF RemoveLostFiles, CardKept
<1>3. HeapInv' /\ CardInv' /\ OpenedWithBestTables'
  BY <1>1, <1>2, CardStays
<1>4. ViewInv' /\ TimerInv'
  BY ViewsStay DEF IInv
<1>5. NoDanglingFile'
  BY <1>2, FilesShownStay DEF IInv, CardKept, widgetVars
<1> QED
  BY <1>1, <1>3, <1>4, <1>5 DEF IInv, Place

LEMMA StepAddLostFiles ==
    ASSUME IInv, Doing("addLost"), AddLostFiles, UNCHANGED <<modelVars, widgetVars>>
    PROVE  IInv'
<1>1. Known(todo') /\ (AtInserting \/ AtIdle)'
  BY Where, AfterAddLostFiles DEF IInv
<1>2. CardKept
  BY DEF AddLostFiles, CardKept
<1>3. HeapInv' /\ CardInv' /\ OpenedWithBestTables'
  BY <1>1, <1>2, CardStays
<1>4. ViewInv' /\ TimerInv'
  BY ViewsStay DEF IInv
<1>5. NoDanglingFile'
  BY <1>2, FilesShownStay DEF IInv, CardKept, widgetVars
<1> QED
  BY <1>1, <1>3, <1>4, <1>5 DEF IInv, Place

LEMMA StepCardStep == ASSUME IInv, CardStep PROVE IInv'
BY StepDeleteAll, StepLoad, StepAppend, StepRemoveRow, StepRemoveLostFiles, StepAddLostFiles
DEF CardStep

-----------------------------------------------------------------------------
(* ... the events *)

LEMMA StepClick ==
    ASSUME IInv, NEW t \in TableIdx, ClickDat(t) \/ ClickBat(t)
    PROVE  IInv'
<1>1. /\ SetActiveDatIdx(t) \/ SetActiveBatIdx(t)
      /\ UNCHANGED <<modelVars, fileViewVars, viewed, headerIcon, countIcon>>
      /\ datButton' = datButton \/ datButton' = t
      /\ batButton' = batButton \/ batButton' = t
      /\ Idle
  BY DEF ClickDat, ClickBat
<1>2. AtIdle /\ UNCHANGED modelVars
  BY <1>1, Where DEF IInv
<1>3. HeapInv' /\ CardInv' /\ (AtRemoving \/ AtDeleteAll)' /\ OpenedWithBestTables'
  BY <1>1, <1>2, AfterSetActiveIdx DEF IInv
<1>4. ViewInv' /\ TimerInv'
  BY <1>1 DEF IInv, ViewInv, TimerInv, modelVars, fileViewVars, TableIdx
<1>5. heap' = heap
  BY <1>1 DEF SetActiveDatIdx, SetActiveBatIdx
<1>6. NoDanglingFile'
  BY <1>1, <1>5, FilesShownStay DEF IInv
<1> QED
  BY <1>3, <1>4, <1>6 DEF IInv, Place

LEMMA StepSearchFinished == ASSUME IInv, SearchFinished PROVE IInv'
<1>1. Known(todo') /\ AtRemoveLost'
  BY Where, AfterSearchFinished DEF IInv, SearchFinished
<1>2. CardKept /\ UNCHANGED <<modelVars, widgetVars>>
  BY DEF SearchFinished, CardKept
<1>3. HeapInv' /\ CardInv' /\ OpenedWithBestTables'
  BY <1>1, <1>2, CardStays
<1>4. ViewInv' /\ TimerInv'
  BY <1>2, ViewsStay DEF IInv
<1>5. NoDanglingFile'
  BY <1>2, FilesShownStay DEF IInv, CardKept, widgetVars
<1> QED
  BY <1>1, <1>3, <1>4, <1>5 DEF IInv, Place

\* The card and the model's rows are left alone.
LEMMA CardIdles ==
    ASSUME IInv, Idle, UNCHANGED cardVars, attached' = attached,
           insertRange' = insertRange, change' = change, rows' = rows,
           fileCount' = fileCount, animState' = animState
    PROVE  HeapInv' /\ CardInv' /\ OpenedWithBestTables' /\ Place'
<1>1. AtIdle'
  BY Where, IdleStays DEF IInv
<1>2. CardKept /\ todo' = todo
  BY DEF cardVars, CardKept, tableVars
<1>3. HeapInv' /\ CardInv' /\ OpenedWithBestTables'
  BY <1>2, CardStays DEF IInv, CardInv
<1> QED
  BY <1>1, <1>3 DEF Place

LEMMA StepSelectFile == ASSUME IInv, SelectFile PROVE IInv'
<1>1. /\ Idle /\ UNCHANGED <<cardVars, modelVars, cardViewVars>>
  BY DEF SelectFile
<1>2. HeapInv' /\ CardInv' /\ OpenedWithBestTables' /\ Place'
  BY <1>1, CardIdles DEF modelVars
<1>3. PICK f \in {None} \cup ToSet(lstFiles) : SetFile(f)
  BY DEF SelectFile
<1>4. f \in DOMAIN heap \cup {None} /\ heap' = heap
  BY <1>1 DEF IInv, HeapInv, cardVars
<1>5. viewTimer' \in BOOLEAN /\ NoDanglingFile'
  BY <1>3, <1>4, FileSet DEF IInv
<1>6. ViewInv' /\ TimerInv'
  BY <1>1, <1>5 DEF IInv, ViewInv, TimerInv, modelVars, cardViewVars
<1> QED
  BY <1>2, <1>5, <1>6 DEF IInv

LEMMA StepPause == ASSUME IInv, Minimize \/ Restore PROVE IInv'
<1>1. /\ Idle /\ UNCHANGED <<cardVars, cardViewVars>>
      /\ UNCHANGED <<attached, fileCount, insertRange, animState, rows, change, shown, helper>>
      /\ viewTimer' = (pauseCounter' <= 0 /\ shown # None /\ HelperAnimates)
  BY DEF Minimize, Restore, PauseAnimation, ResumeAnimation, ViewPauseChanged
<1>2. HeapInv' /\ CardInv' /\ OpenedWithBestTables' /\ Place'
  BY <1>1, CardIdles
<1>3. viewTimer' \in BOOLEAN
  BY <1>1, Zenon
<1>4. NoDanglingFile'
  BY <1>1 DEF IInv, NoDanglingFile, cardVars
<1>5. /\ pauseCounter' \in 0 .. 1 /\ animTimer' \in BOOLEAN
      /\ pauseCounter' > 0 => ~animTimer'
      /\ pauseCounter' = 0 /\ animState # {} => animTimer'
  <2>1. CASE Minimize
    <3>1. pauseCounter' = 1 /\ animTimer' = FALSE
      <4>1. pauseCounter = 0 /\ pauseCounter' = pauseCounter + 1 /\ animTimer' = FALSE
        BY <2>1 DEF Minimize, PauseAnimation
      <4> QED
        BY <4>1
    <3>2. animTimer' \in BOOLEAN /\ ~animTimer'
      BY <3>1, Zenon
    <3>3. pauseCounter' \in 0 .. 1 /\ ~(pauseCounter' = 0)
      BY <3>1
    <3> QED
      BY <3>2, <3>3, Zenon
  <2>2. CASE Restore
    <3>1. pauseCounter' = 0 /\ pauseCounter' <= 0
      BY <2>2 DEF IInv, ViewInv, Restore, ResumeAnimation
    <3>2. animTimer' = (pauseCounter' <= 0 /\ animState # {})
      BY <2>2 DEF Restore, ResumeAnimation
    <3>3. animTimer' \in BOOLEAN /\ (animState # {} => animTimer')
      BY <3>1, <3>2, Zenon
    <3> QED
      BY <3>1, <3>3
  <2> QED
    BY <2>1, <2>2
<1>6. ViewInv' /\ TimerInv'
  BY <1>1, <1>3, <1>5 DEF IInv, ViewInv, TimerInv, cardViewVars
<1> QED
  BY <1>2, <1>4, <1>6 DEF IInv

LEMMA StepChangeLanguage == ASSUME IInv, ChangeLanguage PROVE IInv'
<1>1. /\ Idle /\ UNCHANGED <<cardVars, modelVars>> /\ SetFile(shown)
      /\ \/ ShowCard /\ UNCHANGED viewed
         \/ ClearViewedCard
  BY DEF ChangeLanguage
<1>2. HeapInv' /\ CardInv' /\ OpenedWithBestTables' /\ Place'
  BY <1>1, CardIdles DEF modelVars
<1>3. shown \in DOMAIN heap \cup {None} /\ heap' = heap
  BY <1>1 DEF IInv, NoDanglingFile, cardVars
<1>4. viewTimer' \in BOOLEAN /\ NoDanglingFile'
  BY <1>1, <1>3, FileSet DEF IInv
<1>5. /\ viewed' \in BOOLEAN /\ headerIcon' \in BOOLEAN /\ countIcon' \in BOOLEAN
      /\ datButton' \in {-1, 0, 1} /\ batButton' \in {-1, 0, 1}
  <2>1. CASE ShowCard /\ UNCHANGED viewed
    BY <2>1, CardShown DEF IInv, ViewInv
  <2>2. CASE ClearViewedCard
    BY <2>2 DEF IInv, ViewInv, ClearViewedCard
  <2> QED
    BY <1>1, <2>1, <2>2
<1>6. ViewInv' /\ TimerInv'
  BY <1>1, <1>4, <1>5 DEF IInv, ViewInv, TimerInv, modelVars
<1> QED
  BY <1>2, <1>4, <1>6 DEF IInv

LEMMA StepTick == ASSUME IInv, Tick PROVE IInv'
<1>1. /\ Idle /\ UNCHANGED <<cardVars, cardViewVars, shown, helper>>
      /\ UNCHANGED <<attached, fileCount, insertRange, animState, pauseCounter, rows, change>>
  BY DEF Tick, AnimTick, ViewTick, modelVars, fileViewVars
<1>2. HeapInv' /\ CardInv' /\ OpenedWithBestTables' /\ Place'
  BY <1>1, CardIdles
<1>3. NoDanglingFile'
  BY <1>1 DEF IInv, NoDanglingFile, cardVars
<1>4. CASE AnimTick /\ UNCHANGED fileViewVars
  BY <1>1, <1>2, <1>3, <1>4
  DEF IInv, ViewInv, TimerInv, AnimTick, fileViewVars, cardViewVars
<1>5. CASE ViewTick /\ UNCHANGED modelVars
  <2>1. viewTimer' = (shown # None /\ HelperAnimates /\ pauseCounter <= 0)
    BY <1>5 DEF ViewTick
  <2>2. viewTimer' \in BOOLEAN
    BY <2>1, Zenon
  <2> QED
    BY <1>1, <1>2, <1>3, <1>5, <2>2 DEF IInv, ViewInv, TimerInv, modelVars, cardViewVars
<1> QED
  BY <1>4, <1>5 DEF Tick

LEMMA StepStutter == ASSUME IInv, UNCHANGED vars PROVE IInv'
<1>1. /\ UNCHANGED <<cardVars, modelVars, widgetVars>>
  BY DEF vars
<1>2. UNCHANGED <<image, heap, lstFiles, tableVars, usedBlockMap, todo>>
  BY <1>1 DEF cardVars, tableVars
<1>3. HeapInv' /\ CardInv' /\ OpenedWithBestTables'
  <2>1. CardKept /\ Known(todo')
    BY <1>2 DEF CardKept, IInv, CardInv
  <2> QED
    BY <2>1, CardStays
<1>4. ViewInv' /\ TimerInv'
  BY <1>1, ViewsStay DEF IInv
<1>5. NoDanglingFile'
  BY <1>1, <1>2, FilesShownStay DEF IInv, widgetVars
<1>6. Free' = Free
  BY <1>2, FreeStays
<1>7. Place'
  <2>1. UNCHANGED <<attached, fileCount, insertRange, animState, rows, change>>
    BY <1>1 DEF modelVars
  <2>2. Steady => Steady'
    BY <1>2, <2>1, SteadyStays
  <2>3. Apart => Apart'
    BY <2>1 DEF Apart
  <2>4. Listed => Listed'
    BY <1>2, ListedStays DEF tableVars
  <2>5. Fresh' = Fresh
    BY <1>2 DEF Fresh, Img, tableVars
  <2>6. /\ AtIdle => AtIdle'
        /\ AtDetach => AtDetach'
        /\ AtDetached => AtDetached'
        /\ AtClearViews => AtClearViews'
        /\ AtDelete => AtDelete'
        /\ AtOpen => AtOpen'
        /\ AtAttach => AtAttach'
        /\ AtAttached => AtAttached'
        /\ AtShowCard => AtShowCard'
    BY <1>2, <2>1, <2>2, <2>3, <2>4
    DEF AtIdle, AtDetach, AtDetached, AtClearViews, AtDelete, AtOpen, AtAttach, AtAttached,
        AtShowCard, NoCard, Doing, IsOpen
  <2>7. /\ AtLoad => AtLoad'
        /\ AtRemoveLost => AtRemoveLost'
        /\ AtAddLost => AtAddLost'
        /\ AtBlockCount => AtBlockCount'
        /\ AtTableChange => AtTableChange'
    BY <1>2, <1>6, <2>2, <2>4
    DEF AtLoad, AtRemoveLost, AtAddLost, AtBlockCount, AtTableChange
  <2>8. \A row, s : RowGoes(row, s) => RowGoes(row, s)'
    BY <1>2, <1>6 DEF RowGoes, Lost
  <2>9. /\ AtRemoving => AtRemoving'
        /\ AtDeleteAll => AtDeleteAll'
        /\ AtRemove => AtRemove'
        /\ AtRemoved => AtRemoved'
    BY <1>2, <1>6, <2>1, <2>2, <2>4, <2>8
    DEF AtRemoving, AtDeleteAll, AtRemove, AtRemoved, AllGo, Changing, Doing, IsOpen,
        AnimatedIn, Animated
  <2>10. \A objs : Batch(objs) => Batch(objs)'
    BY <1>2, <1>6, <2>5 DEF Batch, ListHolds, MapHolds, Lost
  <2>11. /\ AtInserting => AtInserting'
         /\ AtAppend => AtAppend'
         /\ AtInserted => AtInserted'
    BY <1>2, <2>1, <2>2, <2>4, <2>10
    DEF AtInserting, AtAppend, AtInserted, Changing, Doing, IsOpen, AnimatedIn, Animated,
        FilesIn, File
  <2> QED
    BY <2>6, <2>7, <2>9, <2>11 DEF IInv, Place
<1> QED
  BY <1>3, <1>4, <1>5, <1>7 DEF IInv

LEMMA Initially == ASSUME Init PROVE IInv
<1>1. /\ image = << >> /\ dat = 0 /\ bat = 0 /\ datActive = -1 /\ batActive = -1
      /\ freeBlocks = 0 /\ heap = << >> /\ lstFiles = << >> /\ usedBlockMap = ResetMap
      /\ todo = << >>
      /\ attached = FALSE /\ fileCount = 0 /\ insertRange = NoRange
      /\ animState = {} /\ animTimer = FALSE /\ pauseCounter = 0
      /\ rows = 0 /\ change = NoChange
      /\ shown = None /\ helper = None /\ viewTimer = FALSE
      /\ viewed = FALSE /\ headerIcon = FALSE /\ countIcon = FALSE
      /\ datButton = -1 /\ batButton = -1
  BY DEF Init, CardInit, ModelInit, WidgetInit
<1>2. HeapInv
  <2>1. IsSeq(<< >>) /\ ToSet(<< >>) = {} /\ IsInjective(<< >>) /\ DOMAIN heap = {}
    BY <1>1 DEF IsSeq, ToSet, IsInjective
  <2>2. << >> = [n \in {} |-> << >>[n]]
    OBVIOUS
  <2> QED
    BY <1>1, <2>1, <2>2 DEF HeapInv, IsOpen
<1>3. CardInv
  <2>1. usedBlockMap \in [0 .. TotalPhys - 1 -> 0 .. MaxCount]
    BY <1>1, SizesAssumption DEF ResetMap
  <2> QED
    BY <1>1, <2>1, OpenIsKnown DEF CardInv, TableIdx
<1>4. ViewInv
  <2>1. /\ attached \in BOOLEAN /\ animState \subseteq Objects /\ animTimer \in BOOLEAN
        /\ viewTimer \in BOOLEAN /\ viewed \in BOOLEAN
        /\ headerIcon \in BOOLEAN /\ countIcon \in BOOLEAN
    BY <1>1, Zenon
  <2>2. pauseCounter \in 0 .. 1 /\ datButton \in {-1, 0, 1} /\ batButton \in {-1, 0, 1}
    BY <1>1
  <2> QED
    BY <2>1, <2>2, Zenon DEF ViewInv
<1>5. TimerInv /\ OpenedWithBestTables /\ NoDanglingFile
  BY <1>1 DEF TimerInv, OpenedWithBestTables, NoDanglingFile, IsOpen
<1>6. AtIdle
  BY <1>1 DEF AtIdle, Apart, NoCard, IsOpen
<1> QED
  BY <1>2, <1>3, <1>4, <1>5, <1>6 DEF IInv, Place

\* The outline and what always holds are an inductive invariant of the card,
\* its model and its views: every handler runs from one predicate of the
\* outline to the next (openCard(), closeCard(), loadGcnFileList(),
\* addLostFiles(), removeLostFiles(), setCard() and the slots they run).
THEOREM Invariance == Spec => []IInv
<1>1. Init => IInv
  BY Initially
<1>2. IInv /\ [Next]_vars => IInv'
  BY StepOpenCard, StepCloseCard, StepOpen, StepDelete, StepAttach, StepAttached,
     StepDetach, StepDetached, StepShowViews, StepClearViews,
     StepEmitAboutToBeRemoved, StepEmitRemoved, StepEmitAboutToBeInserted,
     StepEmitInserted, StepEmitBlockCount, StepEmitTableChanged, StepCardStep,
     StepClick, StepSearchFinished, StepSelectFile, StepPause, StepChangeLanguage,
     StepTick, StepStutter
  DEF Next
<1> QED
  BY <1>1, <1>2, PTL DEF Spec

-----------------------------------------------------------------------------
(* What the outline says of the rows and of the signals *)

Ranges ==
    /\ fileCount \in Nat /\ rows \in Nat
    /\ change.kind \in {"none", "insert", "remove"}
    /\ insertRange \in (Nat \cup {-1}) \X (Nat \cup {-1})
    /\ change.kind = "remove" => change.first >= 0 /\ change.last < rows
    /\ change.kind = "insert" => change.first <= rows /\ change.first <= change.last
    /\ change.kind = "none" => fileCount = rows

LEMMA QuietRanges ==
    ASSUME Len(lstFiles) \in Nat, insertRange = NoRange, change = NoChange,
           fileCount = rows, rows = 0 \/ rows = Len(lstFiles)
    PROVE  Ranges
<1>1. change.kind = "none"
  BY DEF NoChange
<1> QED
  BY <1>1 DEF Ranges, NoRange

LEMMA RemovalRanges ==
    ASSUME insertRange = NoRange, change.kind = "remove",
           fileCount \in Nat, rows \in Nat, change.first >= 0, change.last < rows
    PROVE  Ranges
BY DEF Ranges, NoRange

LEMMA InsertionRanges ==
    ASSUME insertRange \in (Nat \cup {-1}) \X (Nat \cup {-1}), change.kind = "insert",
           fileCount \in Nat, rows \in Nat,
           change.first <= rows, change.first <= change.last
    PROVE  Ranges
BY DEF Ranges

\* The cases of the outline.
LEMMA PlacedRanges == ASSUME HeapInv, Place PROVE Ranges
<1>1. Len(lstFiles) \in Nat
  BY DEF HeapInv, IsSeq
<1>2. CASE Steady
  BY <1>1, <1>2, QuietRanges DEF Steady
<1>3. CASE Apart
  BY <1>1, <1>3, QuietRanges DEF Apart
<1>4. CASE AtDetached
  <2>1. CASE Apart
    BY <1>3, <2>1
  <2>2. CASE change = NoChange /\ rows = Len(lstFiles) /\ fileCount = Len(lstFiles)
    BY <1>1, <1>4, <2>2, QuietRanges DEF AtDetached
  <2>3. CASE /\ Len(lstFiles) > 0 /\ rows = Len(lstFiles) /\ fileCount = Len(lstFiles)
             /\ change = [kind |-> "remove", first |-> 0, last |-> Len(lstFiles) - 1]
    <3>1. change.kind = "remove" /\ change.first = 0 /\ change.last = Len(lstFiles) - 1
      BY <2>3
    <3>2. change.first >= 0 /\ change.last < rows /\ rows \in Nat /\ fileCount \in Nat
      BY <1>1, <2>3, <3>1
    <3> QED
      BY <1>4, <3>1, <3>2, RemovalRanges DEF AtDetached
  <2> QED
    BY <1>4, <2>1, <2>2, <2>3 DEF AtDetached
<1>5. CASE AtAttached
  <2>1. CASE change = NoChange
    BY <1>1, <1>5, <2>1, QuietRanges DEF AtAttached
  <2>2. CASE /\ Len(lstFiles) > 0
             /\ change = [kind |-> "insert", first |-> 0, last |-> Len(lstFiles) - 1]
    <3>1. change.kind = "insert" /\ change.first = 0 /\ change.last = Len(lstFiles) - 1
      BY <2>2
    <3>2. /\ change.first <= rows /\ change.first <= change.last
          /\ rows \in Nat /\ fileCount \in Nat
      BY <1>1, <1>5, <2>2, <3>1 DEF AtAttached
    <3>3. insertRange \in (Nat \cup {-1}) \X (Nat \cup {-1})
      BY <1>5 DEF AtAttached, NoRange
    <3> QED
      BY <3>1, <3>2, <3>3, InsertionRanges
  <2> QED
    BY <1>5, <2>1, <2>2 DEF AtAttached
<1>6. CASE AtDeleteAll
  <2>1. CASE ~Steady
    BY <1>1, <1>6, <2>1, RemovalRanges DEF AtDeleteAll, Changing
  <2> QED
    BY <1>2, <2>1
<1>7. CASE AtRemove
  BY <1>1, <1>7, RemovalRanges DEF AtRemove, Changing, RowGoes
<1>8. CASE AtRemoved
  BY <1>1, <1>8, RemovalRanges DEF AtRemoved, Changing
<1>9. CASE AtAppend
  <2>1. Len(Head(todo).objs) \in Nat /\ Len(Head(todo).objs) > 0
    BY <1>9 DEF AtAppend, Batch, IsSeq
  <2>2. /\ change.first <= rows /\ change.first <= change.last
        /\ change.first \in Nat /\ change.last \in Nat
        /\ rows \in Nat /\ fileCount \in Nat /\ change.kind = "insert"
    BY <1>1, <1>9, <2>1 DEF AtAppend, Changing
  <2>3. insertRange \in (Nat \cup {-1}) \X (Nat \cup {-1})
    BY <1>9, <2>2 DEF AtAppend
  <2> QED
    BY <2>2, <2>3, InsertionRanges
<1>10. CASE AtInserted
  <2>1. /\ change.first \in Nat /\ change.last \in Nat /\ change.first <= change.last
        /\ rows = change.first /\ fileCount = change.first /\ change.kind = "insert"
    BY <1>10 DEF AtInserted, Changing
  <2>2. insertRange \in (Nat \cup {-1}) \X (Nat \cup {-1})
    BY <1>10, <2>1 DEF AtInserted
  <2> QED
    BY <2>1, <2>2, InsertionRanges
<1> QED
  BY <1>2, <1>3, <1>4, <1>5, <1>6, <1>7, <1>8, <1>9, <1>10
  DEF Place, AtIdle, AtDetach, AtClearViews, AtDelete, AtOpen, AtAttach, AtShowCard,
      AtRemoving, AtLoad, AtRemoveLost, AtAddLost, AtInserting, AtBlockCount,
      AtTableChange

-----------------------------------------------------------------------------
(* The properties *)

LEMMA Types == ASSUME IInv PROVE TypeOK
<1>1. HeapInv /\ CardInv /\ ViewInv /\ NoDanglingFile /\ Ranges
  BY PlacedRanges DEF IInv
<1>2. lstFiles \in Seq(DOMAIN heap)
  <2>1. \A n \in 1 .. Len(lstFiles) : lstFiles[n] \in DOMAIN heap
    BY <1>1, ToSetOf DEF HeapInv
  <2> QED
    BY <1>1, <2>1, OwnElements DEF HeapInv
<1>3. \A n \in DOMAIN todo : todo[n].op \in StepNames
  BY <1>1, ToSetOf DEF CardInv, Known
<1>4. shown \in Objects \cup {None} /\ helper \in Objects \cup {None}
  BY <1>1 DEF HeapInv, NoDanglingFile
<1>5. {viewTimer, viewed, headerIcon, countIcon} \subseteq BOOLEAN
  BY <1>1, Zenon DEF ViewInv
<1>6. \A f \in DOMAIN heap : /\ Lost(f) \in BOOLEAN /\ Animated(f) \in BOOLEAN
                             /\ Len(heap[f].chain) <= UserBlocks
  BY <1>1 DEF HeapInv, FileObject, Lost, Animated
<1>7. /\ image = << >> \/ image[1] \in Images
      /\ dat \in TableIdx /\ bat \in TableIdx
      /\ datActive \in {-1, 0, 1} /\ batActive \in {-1, 0, 1}
      /\ freeBlocks \in Nat
      /\ usedBlockMap \in [0 .. TotalPhys - 1 -> 0 .. MaxCount]
  BY <1>1, Zenon DEF CardInv
<1>8. /\ attached \in BOOLEAN /\ animState \subseteq Objects /\ animTimer \in BOOLEAN
      /\ pauseCounter \in 0 .. 1
      /\ datButton \in {-1, 0, 1} /\ batButton \in {-1, 0, 1}
  BY <1>1, Zenon DEF ViewInv
<1>9. DOMAIN heap \subseteq Objects /\ IsInjective(lstFiles)
  BY <1>1 DEF HeapInv
<1>10. /\ fileCount \in Nat /\ insertRange \in (Nat \cup {-1}) \X (Nat \cup {-1})
       /\ rows \in Nat /\ change.kind \in {"none", "insert", "remove"}
  BY <1>1, Zenon DEF Ranges
<1> QED
  BY <1>2, <1>3, <1>4, <1>5, <1>6, <1>7, <1>8, <1>9, <1>10, Zenon DEF TypeOK

\* Every variable of the card, of its model and of the widgets has its type,
\* and the list names each of its file objects once.
THEOREM TypeCorrect == Spec => []TypeOK
BY Invariance, Types, PTL

\* beginRemoveRows() and beginInsertRows() always name rows the views know or
\* that come right behind them; when no method of the card runs, the views
\* know exactly the files of the card (MemCardModel's slots, setCard()).
THEOREM RowsStayInStep == Spec => []RowsInStep
<1>1. IInv => RowsInStep
  <2>1. ASSUME IInv PROVE RowsInStep
    <3>1. Ranges
      BY <2>1, PlacedRanges DEF IInv
    <3>2. Idle => /\ change.kind = "none"
                  /\ rows = IF attached THEN Len(lstFiles) ELSE 0
      BY <2>1, Where DEF IInv, AtIdle, Steady, Apart, NoChange
    <3> QED
      BY <3>1, <3>2 DEF RowsInStep, Ranges
  <2> QED
    BY <2>1
<1> QED
  BY <1>1, Invariance, PTL

\* When no method of the card runs, the list is the directory table that is
\* selected read through the block table that is selected, and then the lost
\* files (loadGcnFileList(), addLostFiles(), removeLostFiles()).
THEOREM ListIsOfTheTables == Spec => []ListFollowsTables
<1>1. IInv => ListFollowsTables
  <2>1. ASSUME IInv, Idle, IsOpen PROVE ListHolds /\ IsSeq(lstFiles)
    BY <2>1, Where DEF IInv, AtIdle, Listed, NoCard, HeapInv
  <2> QED
    BY <2>1, ToSetOf DEF ListFollowsTables, ListHolds, Fresh
<1> QED
  BY <1>1, Invariance, PTL

\* checkTables() selects a valid table whenever the card has one, and of two
\* valid ones the one updated last.
THEOREM BestTablesOpened == Spec => []OpenedWithBestTables
BY Invariance, PTL DEF IInv

\* When no method of the card runs, the model has an animation helper for each
\* listed file with an animated icon and for no other (initAnimState(), the
\* slots of filesInserted() and filesAboutToBeRemoved()).
THEOREM HelpersAreOfTheFiles == Spec => []HelpersMatchFiles
<1>1. IInv => HelpersMatchFiles
  BY Where DEF IInv, AtIdle, Steady, Apart, AnimatedIn, HelpersMatchFiles
<1> QED
  BY <1>1, Invariance, PTL

\* FileView and its animation helper forget a file object before it is gone
\* (their file_destroyed_slot(), run by the destructor of File).
THEOREM NoFileDangles == Spec => []NoDanglingFile
BY Invariance, PTL DEF IInv

\* The timer of the list's animation is stopped while the window is minimized
\* and runs otherwise when there is an icon to animate (updateAnimTimerState(),
\* pauseAnimation(), resumeAnimation()).
THEOREM TimerFollowsPause == Spec => []AnimationFollowsPause
<1>1. IInv => AnimationFollowsPause
  BY DEF IInv, TimerInv, AnimationFollowsPause
<1> QED
  BY <1>1, Invariance, PTL

\* The visits of a block counted on the tables are those counted on the list:
\* the files of the tables are the files of the list that are not lost.
LEMMA SameVisits ==
    ASSUME IsSeq(lstFiles), ListHolds, IsInjective(lstFiles), IsSeq(Fresh),
           \A n \in 1 .. Len(Fresh) : ~Fresh[n].lost,
           NEW b
    PROVE  Cardinality(Visits(Fresh, b)) =
             Cardinality({v \in ToSet(lstFiles) \X (1 .. FatSize) :
                            /\ ~Lost(v[1])
                            /\ v[2] \in DOMAIN heap[v[1]].chain
                            /\ heap[v[1]].chain[v[2]] = b})
<1> DEFINE S == Visits(Fresh, b)
           T == {v \in ToSet(lstFiles) \X (1 .. FatSize) :
                   /\ ~Lost(v[1])
                   /\ v[2] \in DOMAIN heap[v[1]].chain /\ heap[v[1]].chain[v[2]] = b}
           g == [v \in S |-> <<lstFiles[v[1]], v[2]>>]
<1>1. /\ DOMAIN Fresh = 1 .. Len(Fresh) /\ Len(Fresh) \in Nat
      /\ Len(lstFiles) \in Nat /\ DOMAIN lstFiles = 1 .. Len(lstFiles)
      /\ ToSet(lstFiles) = {lstFiles[n] : n \in 1 .. Len(lstFiles)}
      /\ Len(Fresh) <= Len(lstFiles)
  BY ToSetOf DEF IsSeq, ListHolds
<1>2. \A n \in 1 .. Len(Fresh) :
        n \in 1 .. Len(lstFiles) /\ heap[lstFiles[n]] = Fresh[n] /\ ~Lost(lstFiles[n])
  BY <1>1 DEF ListHolds, Lost
<1>3. \A n \in 1 .. Len(lstFiles) : Lost(lstFiles[n]) \/ n \in 1 .. Len(Fresh)
  BY <1>1 DEF ListHolds
<1>4. IsFiniteSet(S)
  BY VisitsFinite
<1>5. ASSUME NEW v \in S
      PROVE  /\ v[1] \in 1 .. Len(Fresh) /\ v[2] \in 1 .. FatSize
             /\ v = <<v[1], v[2]>>
             /\ v[2] \in DOMAIN Fresh[v[1]].chain /\ Fresh[v[1]].chain[v[2]] = b
  BY <1>1 DEF Visits
<1>6. ASSUME NEW v \in S PROVE g[v] \in T
  <2>1. lstFiles[v[1]] \in ToSet(lstFiles)
    BY <1>1, <1>2, <1>5
  <2>2. <<lstFiles[v[1]], v[2]>> \in ToSet(lstFiles) \X (1 .. FatSize)
    BY <1>5, <2>1
  <2>3. ~Lost(lstFiles[v[1]]) /\ heap[lstFiles[v[1]]] = Fresh[v[1]]
    BY <1>2, <1>5
  <2> QED
    BY <1>5, <2>2, <2>3
<1>7. ASSUME NEW v \in S, NEW w \in S, g[v] = g[w] PROVE v = w
  <2>1. lstFiles[v[1]] = lstFiles[w[1]] /\ v[2] = w[2]
    BY <1>7
  <2>2. v[1] \in DOMAIN lstFiles /\ w[1] \in DOMAIN lstFiles
    BY <1>1, <1>2, <1>5
  <2>3. v[1] = w[1]
    BY <2>1, <2>2 DEF IsInjective
  <2> QED
    BY <1>5, <2>1, <2>3
<1>8. ASSUME NEW t \in T PROVE \E v \in S : g[v] = t
  <2>1. /\ t[1] \in ToSet(lstFiles) /\ t[2] \in 1 .. FatSize /\ t = <<t[1], t[2]>>
        /\ ~Lost(t[1])
        /\ t[2] \in DOMAIN heap[t[1]].chain /\ heap[t[1]].chain[t[2]] = b
    OBVIOUS
  <2>2. PICK n \in 1 .. Len(lstFiles) : t[1] = lstFiles[n]
    BY <1>1, <2>1
  <2>3. n \in 1 .. Len(Fresh) /\ heap[t[1]] = Fresh[n]
    BY <1>2, <1>3, <2>1, <2>2
  <2>4. <<n, t[2]>> \in S
    BY <1>1, <2>1, <2>3 DEF Visits
  <2>5. g[<<n, t[2]>>] = <<lstFiles[n], t[2]>>
    BY <2>4
  <2> QED
    BY <2>1, <2>2, <2>4, <2>5
<1> HIDE DEF T
<1>9. g \in [S -> T]
  BY <1>6
<1> HIDE DEF S
<1>10. g \in Bijection(S, T)
  <2> HIDE DEF g
  <2> QED
    BY <1>7, <1>8, <1>9, Fun_IsBij
<1>11. ExistsBijection(S, T)
  BY <1>10 DEF ExistsBijection
<1>12. Cardinality(S) = Cardinality(T)
  BY <1>4, <1>11, FS_Bijection
<1> QED
  BY <1>12 DEF S, T

\* When no method of the card runs, a block's use count is the number of times
\* the chains of the listed files visit it, lost files left out, up to the
\* greatest value of the counter (loadGcnFileList()).
THEOREM BlocksAreCounted == Spec => []UsedBlocksCounted
<1>1. IInv => UsedBlocksCounted
  <2>1. ASSUME IInv, Idle, IsOpen, NEW b \in FirstBlock .. TotalPhys - 1
        PROVE  usedBlockMap[b] = Saturated(Cardinality(Visits(Fresh, b)))
    <3>1. MapHolds /\ IsSeq(Fresh)
      BY <2>1, Where, FreshFiles DEF IInv, AtIdle, Listed, NoCard
    <3>2. b \in 0 .. TotalPhys - 1 /\ ~(b < FirstBlock)
      BY <2>1, SizesAssumption DEF FirstBlock
    <3>3. DOMAIN ResetMap = 0 .. TotalPhys - 1 /\ ResetMap[b] = 0
      BY <3>2 DEF ResetMap
    <3>4. usedBlockMap[b] = Saturated(0 + Cardinality(Visits(Fresh, b)))
      BY <3>1, <3>2, <3>3 DEF MapHolds, CountUses
    <3>5. Cardinality(Visits(Fresh, b)) \in Nat
      BY <3>1, VisitsFinite
    <3> QED
      BY <3>4, <3>5
  <2>2. ASSUME IInv, Idle, IsOpen
        PROVE  /\ IsSeq(lstFiles) /\ ListHolds /\ IsInjective(lstFiles) /\ IsSeq(Fresh)
               /\ \A n \in 1 .. Len(Fresh) : ~Fresh[n].lost
    BY <2>2, Where, FreshFiles DEF IInv, AtIdle, Listed, NoCard, HeapInv
  <2> QED
    BY <2>1, <2>2, SameVisits DEF UsedBlocksCounted
<1> QED
  BY <1>1, Invariance, PTL
=============================================================================
