----------------------------- MODULE Levels_proofs -----------------------------
(***************************************************************************)
(* Proofs about the tree of table files, for any number of keys, levels    *)
(* and writes and every setting of the limits: whatever is flushed, moved  *)
(* and compacted, a search from the top meets newer entries first.         *)
(***************************************************************************)
EXTENDS Levels, FiniteNumbers, SequenceTheorems

LEMMA Limits ==
  /\ NumLevels \in Nat /\ NumLevels >= 3 /\ MaxKey \in Nat \ {0}
  /\ MaxMemCompactLevel \in 0..(NumLevels - 1) /\ MaxFileSizes \subseteq Nat \ {0}
BY LevelsAssumption

-----------------------------------------------------------------------------
(* The inductive invariant.                                                *)

AllFiles == UNION {files[l] : l \in Level}
Stored   == Entries(AllFiles)

(* A sequence number is given once, in increasing order.                   *)
WritesInv ==
  /\ IsFiniteSet(written) /\ written \subseteq Entry
  /\ \A e \in written : e.s <= lastSequence
  /\ \A d, e \in written : d.s = e.s => d = e
  /\ memtable \subseteq written /\ immtable \subseteq written
  /\ snapshots \in Seq(0..lastSequence)

(* A table file of entries, with its ends.                                 *)
IsFile(f) ==
  /\ f.num \in Nat /\ f.entries \subseteq written
  /\ f.smallest \in f.entries /\ f.largest \in f.entries
  /\ \A e \in f.entries : e = f.smallest \/ Before(f.smallest, e)
  /\ \A e \in f.entries : e = f.largest \/ Before(e, f.largest)

FilesInv ==
  /\ DOMAIN files = Level
  /\ nextFileNumber \in Nat \ {0}
  /\ \A l \in Level : IsFiniteSet(files[l])
  /\ \A l \in Level : \A f \in files[l] : IsFile(f) /\ f.num \in 1..(nextFileNumber - 1)
  /\ \A l, m \in Level : \A f \in files[l], g \in files[m] : f.num = g.num => f = g /\ l = m

(* What is above is newer: memtables than all below, tables of level 0 by  *)
(* their numbers, and deeper ones as far as they have keys in common.      *)
NewerInv ==
  /\ \A d \in memtable, e \in immtable \cup Stored : d.s > e.s
  /\ \A d \in immtable, e \in Stored : d.s > e.s
  /\ \A f, g \in files[0] : f.num > g.num =>
       \A d \in f.entries, e \in g.entries : d.s > e.s
  /\ \A l, m \in Level : l < m =>
       \A d \in Entries(files[l]), e \in Entries(files[m]) : d.k = e.k => d.s > e.s

(* If the files of F go down, what stays on their level is newer.          *)
StaysNewer(level, F) ==
  \A f \in files[level] \ F, g \in F :
    \A d \in f.entries, e \in g.entries : d.k = e.k => d.s > e.s

(* The inputs of a compaction are still there when it ends.                *)
CompactionInv ==
  compaction # NoCompaction =>
    /\ compaction.level \in 0..(NumLevels - 3)
    /\ compaction.inputs[1] # {} /\ compaction.inputs[1] \subseteq files[compaction.level]
    /\ compaction.inputs[2] \subseteq files[compaction.level + 1]
    /\ StaysNewer(compaction.level, compaction.inputs[1])
    /\ compaction.manual => manual # NoManual

ManualInv ==
  manual # NoManual =>
    /\ manual \in [level : 0..(NumLevels - 2), last : 0..(NumLevels - 2),
                   begin : Keys, start : Keys, end : Keys]
    /\ manual.level <= manual.last

DriverInv ==
  /\ driver \in {"none", "writer", "compactRange"}
  /\ driver = "none" <=> (Idle /\ ~NeedsCompaction)
  /\ stopped \in {"no", "overlap", "level"}
  /\ maxFileSize \in MaxFileSizes

IInv ==
  /\ WritesInv /\ FilesInv /\ NewerInv /\ LevelsInOrder(files)
  /\ CompactionInv /\ ManualInv /\ DriverInv

-----------------------------------------------------------------------------
(* Finite sets with an order, and with a total one: R[x] is what comes     *)
(* after x.                                                                *)
Order(S, R) ==
  /\ IsFiniteSet(S) /\ R \in [S -> SUBSET S]
  /\ \A x \in S : x \notin R[x]
  /\ \A x, y, z \in S : y \in R[x] /\ z \in R[y] => z \in R[x]

StrictOrder(S, R) ==
  Order(S, R) /\ \A x, y \in S : x = y \/ y \in R[x] \/ x \in R[y]

Earlier(S, R, x) == {y \in S : x \in R[y]}

(* Counting what precedes numbers the elements.                            *)
LEMMA PlacesDiffer ==
  ASSUME NEW S, NEW R, Order(S, R), NEW x \in S, NEW y \in S, y \in R[x]
  PROVE  Cardinality(Earlier(S, R, x)) < Cardinality(Earlier(S, R, y))
<1>. DEFINE a == Earlier(S, R, x)
            b == Earlier(S, R, y)
<1>1. a \in SUBSET b /\ x \in b /\ x \notin a
  <2>1. \A z \in S : x \in R[z] => y \in R[z]
    BY DEF Order
  <2>2. x \notin R[x]
    BY DEF Order
  <2>. QED
    BY <2>1, <2>2 DEF Earlier
<1>2. IsFiniteSet(b)
  <2>1. b \subseteq S /\ IsFiniteSet(S)
    BY DEF Earlier, Order
  <2>. QED
    BY <2>1, FS_Subset
<1>. HIDE DEF a, b
<1>3. Cardinality(a) <= Cardinality(b) /\ Cardinality(a) # Cardinality(b)
  BY <1>1, <1>2, FS_Subset
<1>4. Cardinality(a) \in Nat /\ Cardinality(b) \in Nat
  BY <1>1, <1>2, FS_Subset, FS_CardinalityType
<1>. QED
  BY <1>3, <1>4 DEF a, b

LEMMA PlaceInRange ==
  ASSUME NEW S, NEW R, Order(S, R), NEW x \in S
  PROVE  Cardinality(Earlier(S, R, x)) \in 0..(Cardinality(S) - 1)
<1>. DEFINE a == Earlier(S, R, x)
<1>1. a \in SUBSET S /\ x \in S /\ x \notin a /\ IsFiniteSet(S)
  BY DEF Earlier, Order
<1>. HIDE DEF a
<1>2. Cardinality(a) <= Cardinality(S) /\ Cardinality(a) # Cardinality(S)
  BY <1>1, FS_Subset
<1>3. Cardinality(a) \in Nat /\ Cardinality(S) \in Nat
  BY <1>1, FS_Subset, FS_CardinalityType
<1>. QED
  BY <1>2, <1>3 DEF a

LEMMA EveryPlaceTaken ==
  ASSUME NEW S, NEW R, StrictOrder(S, R), NEW i \in 1..Cardinality(S)
  PROVE  \E x \in S : Cardinality(Earlier(S, R, x)) = i - 1
<1>. SUFFICES ASSUME \A x \in S : Cardinality(Earlier(S, R, x)) # i - 1 PROVE FALSE
  OBVIOUS
<1>. DEFINE n == Cardinality(S)
            I == (0..(n - 1)) \ {i - 1}
            r == [x \in S |-> Cardinality(Earlier(S, R, x))]
<1>1. IsFiniteSet(S) /\ n \in Nat /\ n > 0
  <2>1. IsFiniteSet(S)
    BY DEF StrictOrder, Order
  <2>2. n \in Nat
    BY <2>1, FS_CardinalityType
  <2>. QED
    BY <2>1, <2>2
<1>2. IsFiniteSet(I) /\ Cardinality(I) = n - 1
  <2>. HIDE DEF n
  <2>1. IsFiniteSet(0..(n - 1)) /\ Cardinality(0..(n - 1)) = n
    BY <1>1, FS_Interval
  <2>2. i - 1 \in 0..(n - 1)
    BY <1>1 DEF n
  <2>. QED
    BY <2>1, <2>2, FS_RemoveElement
<1>3. r \in [S -> I]
  <2>1. \A x \in S : Cardinality(Earlier(S, R, x)) \in 0..(n - 1)
    BY PlaceInRange DEF StrictOrder
  <2>. QED
    BY <2>1
<1>4. PICK x \in S, y \in S : x # y /\ r[x] = r[y]
  <2>. HIDE DEF I, r, n
  <2>1. Cardinality(I) < n
    BY <1>1, <1>2
  <2>. QED
    BY <1>1, <1>2, <1>3, <2>1, FS_PigeonHole DEF n
<1>5. r[x] = Cardinality(Earlier(S, R, x)) /\ r[y] = Cardinality(Earlier(S, R, y))
  OBVIOUS
<1>6. r[x] \in Int /\ r[y] \in Int
  <2>. HIDE DEF r
  <2>. QED
    BY <1>1, <1>3
<1>7. r[x] < r[y] \/ r[y] < r[x]
  <2>1. y \in R[x] \/ x \in R[y]
    BY <1>4 DEF StrictOrder
  <2>. HIDE DEF r
  <2>. QED
    BY <1>5, <2>1, PlacesDiffer DEF StrictOrder
<1>. HIDE DEF r
<1>. QED
  BY <1>4, <1>6, <1>7

(* Nothing comes before some element; in a total order all the others      *)
(* come after it.                                                          *)
LEMMA MinimalOfOrder ==
  ASSUME NEW S, NEW R, Order(S, R), S # {}
  PROVE  \E x \in S : \A y \in S : x \notin R[y]
<1>. DEFINE C == {Cardinality(Earlier(S, R, x)) : x \in S}
<1>1. \A x \in S : Cardinality(Earlier(S, R, x)) \in Nat
  <2>. TAKE x \in S
  <2>1. IsFiniteSet(S) /\ Earlier(S, R, x) \in SUBSET S
    BY DEF Order, Earlier
  <2>. QED
    BY <2>1, FS_Subset, FS_CardinalityType
<1>2. C \subseteq Nat /\ C # {}
  BY <1>1
<1>3. PICK c \in C : \A b \in C : c <= b
  <2>. HIDE DEF C
  <2>. QED
    BY <1>2, LeastNumber
<1>4. PICK x \in S : Cardinality(Earlier(S, R, x)) = c
  OBVIOUS
<1>5. ASSUME NEW y \in S, x \in R[y] PROVE FALSE
  <2>1. Cardinality(Earlier(S, R, y)) < Cardinality(Earlier(S, R, x))
    BY <1>5, PlacesDiffer
  <2>2. c <= Cardinality(Earlier(S, R, y))
    BY <1>3
  <2>. QED
    BY <1>1, <1>4, <2>1, <2>2
<1>. QED
  BY <1>5

LEMMA LeastOfOrder ==
  ASSUME NEW S, NEW R, StrictOrder(S, R), S # {}
  PROVE  \E x \in S : \A y \in S : x = y \/ y \in R[x]
BY MinimalOfOrder DEF StrictOrder

-----------------------------------------------------------------------------
(* Entries and files.                                                      *)
Sane == WritesInv /\ FilesInv /\ NewerInv /\ LevelsInOrder(files)

LEMMA WrittenFields ==
  ASSUME WritesInv, NEW e \in written
  PROVE  e.k \in Keys /\ e.k \in Int /\ e.s \in Int
BY DEF WritesInv, Entry, Keys

LEMMA BeforeTrans ==
  ASSUME WritesInv, NEW a \in written, NEW b \in written, NEW c \in written,
         Before(a, b), Before(b, c)
  PROVE  Before(a, c)
BY WrittenFields DEF Before

LEMMA BeforeStrict ==
  ASSUME WritesInv, NEW a \in written, NEW b \in written, Before(a, b)
  PROVE  ~Before(b, a) /\ a # b /\ a.k <= b.k
BY WrittenFields DEF Before

LEMMA BeforeTotal ==
  ASSUME WritesInv, NEW a \in written, NEW b \in written
  PROVE  a = b \/ Before(a, b) \/ Before(b, a)
BY WrittenFields DEF Before, WritesInv

(* Of things that each have an entry of their own, one is the first and    *)
(* one the last.                                                           *)
LEMMA FirstAndLast ==
  ASSUME WritesInv, NEW F, IsFiniteSet(F), F # {}, NEW x \in [F -> written],
         \A f, g \in F : x[f] = x[g] => f = g
  PROVE  /\ \E f \in F : \A g \in F : f = g \/ Before(x[f], x[g])
         /\ \E f \in F : \A g \in F : f = g \/ Before(x[g], x[f])
<1>. DEFINE R == [f \in F |-> {g \in F : Before(x[f], x[g])}]
            Q == [f \in F |-> {g \in F : Before(x[g], x[f])}]
<1>1. R \in [F -> SUBSET F] /\ Q \in [F -> SUBSET F]
  OBVIOUS
<1>2. \A f, g \in F : g \in R[f] <=> Before(x[f], x[g])
  OBVIOUS
<1>3. \A f, g \in F : g \in Q[f] <=> Before(x[g], x[f])
  OBVIOUS
<1>. HIDE DEF R, Q
<1>4. \A f \in F : x[f] \in written /\ ~Before(x[f], x[f])
  BY BeforeStrict
<1>5. \A f, g, h \in F : Before(x[f], x[g]) /\ Before(x[g], x[h]) => Before(x[f], x[h])
  BY <1>4, BeforeTrans
<1>6. \A f, g \in F : f = g \/ Before(x[f], x[g]) \/ Before(x[g], x[f])
  BY <1>4, BeforeTotal
<1>7. StrictOrder(F, R)
  BY <1>1, <1>2, <1>4, <1>5, <1>6 DEF StrictOrder, Order
<1>8. StrictOrder(F, Q)
  BY <1>1, <1>3, <1>4, <1>5, <1>6 DEF StrictOrder, Order
<1>9. \E f \in F : \A g \in F : f = g \/ g \in R[f]
  BY <1>7, LeastOfOrder
<1>10. \E f \in F : \A g \in F : f = g \/ g \in Q[f]
  BY <1>8, LeastOfOrder
<1>. QED
  BY <1>2, <1>3, <1>9, <1>10

(* The two ends of a set of entries.                                       *)
LEMMA EndsOf ==
  ASSUME WritesInv, NEW E, E \subseteq written, E # {}
  PROVE  /\ Smallest(E) \in E /\ \A d \in E : d = Smallest(E) \/ Before(Smallest(E), d)
         /\ Largest(E) \in E /\ \A d \in E : d = Largest(E) \/ Before(d, Largest(E))
<1>. DEFINE x == [e \in E |-> e]
<1>1. x \in [E -> written] /\ (\A e \in E : x[e] = e) /\ IsFiniteSet(E)
  BY FS_Subset DEF WritesInv
<1>. HIDE DEF x
<1>2. /\ \E e \in E : \A d \in E : e = d \/ Before(x[e], x[d])
      /\ \E e \in E : \A d \in E : e = d \/ Before(x[d], x[e])
  BY <1>1, FirstAndLast
<1>3. /\ \E e \in E : \A d \in E : e = d \/ Before(e, d)
      /\ \E e \in E : \A d \in E : e = d \/ Before(d, e)
  BY <1>1, <1>2
<1>. QED
  BY <1>3 DEF Smallest, Largest

LEMMA TableIsFile ==
  ASSUME WritesInv, NEW E, E \subseteq written, E # {}, NEW n \in Nat
  PROVE  /\ IsFile(Table(n, E)) /\ Table(n, E).num = n /\ Table(n, E).entries = E
         /\ Table(n, E).smallest = Smallest(E) /\ Table(n, E).largest = Largest(E)
BY EndsOf DEF Table, IsFile

LEMMA FilesAreFiles ==
  ASSUME FilesInv, NEW f \in AllFiles
  PROVE  /\ IsFile(f) /\ f.num \in 1..(nextFileNumber - 1)
         /\ f.smallest \in written /\ f.largest \in written
BY DEF FilesInv, AllFiles, IsFile

(* The keys of a file are between its ends.                                *)
LEMMA KeyInFile ==
  ASSUME WritesInv, NEW f, IsFile(f), NEW e \in f.entries
  PROVE  /\ e \in written /\ f.smallest.k <= e.k /\ e.k <= f.largest.k
         /\ f.smallest.k \in Keys /\ f.largest.k \in Keys
         /\ f.smallest.k <= f.largest.k
<1>1. e \in written /\ f.smallest \in written /\ f.largest \in written
  BY DEF IsFile
<1>2. f.smallest.k <= e.k /\ e.k <= f.largest.k
  BY <1>1, WrittenFields, BeforeStrict DEF IsFile
<1>. QED
  BY <1>1, <1>2, WrittenFields

(* No entry is in two files.                                               *)
LEMMA FilesApart ==
  ASSUME Sane, NEW f \in AllFiles, NEW g \in AllFiles, f # g, NEW e \in f.entries
  PROVE  e \notin g.entries
<1>. SUFFICES ASSUME e \in g.entries PROVE FALSE
  OBVIOUS
<1>1. PICK l \in Level : f \in files[l]
  BY DEF AllFiles
<1>2. PICK m \in Level : g \in files[m]
  BY DEF AllFiles
<1>3. IsFile(f) /\ IsFile(g) /\ e \in written /\ e.s \in Int /\ ~(e.s > e.s)
  BY FilesAreFiles, WrittenFields DEF Sane, IsFile
<1>4. CASE l = m /\ l = 0
  <2>1. f.num # g.num /\ f.num \in Nat /\ g.num \in Nat
    BY <1>1, <1>2, <1>3, <1>4 DEF Sane, FilesInv, IsFile
  <2>2. f.num > g.num \/ g.num > f.num
    BY <2>1
  <2>. QED
    BY <1>1, <1>2, <1>3, <1>4, <2>2 DEF Sane, NewerInv
<1>5. CASE l = m /\ l # 0
  <2>1. Before(f.largest, g.smallest) \/ Before(g.largest, f.smallest)
    BY <1>1, <1>2, <1>5 DEF Sane, LevelsInOrder
  <2>2. /\ f.smallest \in written /\ f.largest \in written
        /\ g.smallest \in written /\ g.largest \in written
    BY <1>3 DEF IsFile
  <2>3. (e = f.largest \/ Before(e, f.largest)) /\ (e = g.smallest \/ Before(g.smallest, e))
        /\ (e = g.largest \/ Before(e, g.largest)) /\ (e = f.smallest \/ Before(f.smallest, e))
    BY <1>3 DEF IsFile
  <2>4. Before(e, e)
    BY <1>3, <2>1, <2>2, <2>3, BeforeTrans DEF Sane
  <2>. QED
    BY <1>3, <2>4, BeforeStrict DEF Sane
<1>6. CASE l # m
  <2>1. l < m \/ m < l
    BY <1>6 DEF Level
  <2>2. e \in Entries(files[l]) /\ e \in Entries(files[m])
    BY <1>1, <1>2 DEF Entries
  <2>. QED
    BY <1>3, <2>1, <2>2 DEF Sane, NewerInv
<1>. QED
  BY <1>4, <1>5, <1>6

LEMMA FilesFinite ==
  ASSUME FilesInv
  PROVE  IsFiniteSet(AllFiles)
<1>1. IsFiniteSet(Level)
  BY Limits, FS_Interval DEF Level
<1>2. IsFiniteSet({files[l] : l \in DOMAIN files})
  BY <1>1, FiniteImage DEF FilesInv
<1>3. \A S \in {files[l] : l \in DOMAIN files} : IsFiniteSet(S)
  BY DEF FilesInv
<1>. QED
  BY <1>2, <1>3, FS_UNION DEF FilesInv, AllFiles

(* The first file of a group, the one with the largest key, and the last.  *)
LastFile(F) == CHOOSE f \in F : \A g \in F : f = g \/ Before(g.smallest, f.smallest)

LEMMA EndsOfGroup ==
  ASSUME Sane, NEW F, F \subseteq AllFiles, F # {}
  PROVE  /\ FirstFile(F) \in F /\ LastFile(F) \in F
         /\ \A g \in F : g = FirstFile(F) \/ Before(FirstFile(F).smallest, g.smallest)
         /\ \E h \in F : /\ LargestKey(F) = h.largest
                         /\ \A g \in F : g = h \/ Before(g.largest, h.largest)
<1>. DEFINE x == [f \in F |-> f.smallest]
            y == [f \in F |-> f.largest]
<1>1. \A f \in F : /\ x[f] = f.smallest /\ x[f] \in f.entries /\ x[f] \in written
                  /\ y[f] = f.largest /\ y[f] \in f.entries /\ y[f] \in written
  BY FilesAreFiles DEF Sane, IsFile
<1>2. x \in [F -> written] /\ y \in [F -> written]
  BY <1>1
<1>. HIDE DEF x, y
<1>3. IsFiniteSet(F)
  BY FilesFinite, FS_Subset DEF Sane
<1>4. \A f, g \in F : x[f] = x[g] \/ y[f] = y[g] => f = g
  BY <1>1, FilesApart
<1>5. \E f \in F : \A g \in F : f = g \/ Before(x[f], x[g])
  BY <1>2, <1>3, <1>4, FirstAndLast DEF Sane
<1>6. \E f \in F : \A g \in F : f = g \/ Before(x[g], x[f])
  BY <1>2, <1>3, <1>4, FirstAndLast DEF Sane
<1>7. \E f \in F : \A g \in F : f = g \/ Before(y[g], y[f])
  BY <1>2, <1>3, <1>4, FirstAndLast DEF Sane
<1>8. FirstFile(F) \in F
      /\ \A g \in F : FirstFile(F) = g \/ Before(FirstFile(F).smallest, g.smallest)
  <2>1. \E f \in F : \A g \in F : f = g \/ Before(f.smallest, g.smallest)
    BY <1>1, <1>5
  <2>. QED
    BY <2>1 DEF FirstFile
<1>9. LastFile(F) \in F
  <2>1. \E f \in F : \A g \in F : f = g \/ Before(g.smallest, f.smallest)
    BY <1>1, <1>6
  <2>. QED
    BY <2>1 DEF LastFile
<1>10. PICK h \in F : /\ LargestKey(F) = h.largest
                      /\ \A g \in F : h = g \/ Before(g.largest, h.largest)
  <2>1. \E f \in F : \A g \in F : f = g \/ Before(g.largest, f.largest)
    BY <1>1, <1>7
  <2>. DEFINE h == CHOOSE f \in F : \A g \in F : f = g \/ Before(g.largest, f.largest)
  <2>2. h \in F /\ \A g \in F : h = g \/ Before(g.largest, h.largest)
    BY <2>1
  <2>. QED
    BY <2>2 DEF LargestKey
<1>. QED
  BY <1>8, <1>9, <1>10

(* The range of user keys that Spanned looks at.                           *)
LEMMA SpanOf ==
  ASSUME Sane, NEW F, F \subseteq AllFiles, F # {}
  PROVE  /\ FirstFile(F).smallest.k \in Keys /\ LargestKey(F).k \in Keys
         /\ LargestKey(F) \in written
         /\ \A g \in F : /\ FirstFile(F).smallest.k <= g.smallest.k
                         /\ g.largest.k <= LargestKey(F).k
                         /\ g.largest = LargestKey(F) \/ Before(g.largest, LargestKey(F))
<1>1. FirstFile(F) \in F
      /\ \A g \in F : g = FirstFile(F) \/ Before(FirstFile(F).smallest, g.smallest)
  BY EndsOfGroup
<1>2. PICK h \in F : /\ LargestKey(F) = h.largest
                     /\ \A g \in F : g = h \/ Before(g.largest, h.largest)
  BY EndsOfGroup
<1>3. \A g \in F : /\ g.smallest \in written /\ g.largest \in written
                   /\ g.smallest.k \in Keys /\ g.largest.k \in Keys
  BY FilesAreFiles, WrittenFields DEF Sane
<1>4. FirstFile(F).smallest.k \in Keys /\ LargestKey(F).k \in Keys /\ LargestKey(F) \in written
  BY <1>1, <1>2, <1>3
<1>5. ASSUME NEW g \in F
      PROVE  /\ FirstFile(F).smallest.k <= g.smallest.k
             /\ g.largest.k <= LargestKey(F).k
             /\ g.largest = LargestKey(F) \/ Before(g.largest, LargestKey(F))
  <2>1. g = FirstFile(F) \/ Before(FirstFile(F).smallest, g.smallest)
    BY <1>1
  <2>2. g = h \/ Before(g.largest, h.largest)
    BY <1>2
  <2>3. FirstFile(F).smallest.k <= g.smallest.k
    BY <1>1, <1>3, <2>1, BeforeStrict DEF Sane, Keys
  <2>4. g.largest.k <= h.largest.k
    BY <1>3, <2>2, BeforeStrict DEF Sane, Keys
  <2>. QED
    BY <1>2, <2>2, <2>3, <2>4
<1>. QED
  BY <1>4, <1>5

-----------------------------------------------------------------------------
(* The files that a compaction takes from its level.  On level 0 they      *)
(* share no user key with those left behind; on the others none of those   *)
(* lies between two of them.                                               *)
Apart(f, g) == f.largest.k < g.smallest.k \/ g.largest.k < f.smallest.k

Solid(level, F) ==
  /\ F \subseteq files[level]
  /\ level = 0 => \A f \in files[0] \ F, g \in F : Apart(f, g)
  /\ level # 0 => \A f \in files[level] \ F, g, h \in F :
                    Before(g.largest, f.smallest) => Before(h.largest, f.smallest)

LEMMA InLevel ==
  ASSUME Sane, NEW level \in Level, NEW f \in files[level]
  PROVE  /\ f \in AllFiles /\ IsFile(f)
         /\ f.smallest \in written /\ f.largest \in written
         /\ f.smallest.k \in Keys /\ f.largest.k \in Keys
         /\ f.smallest.k \in Int /\ f.largest.k \in Int
         /\ f.smallest.k <= f.largest.k
<1>1. f \in AllFiles
  BY DEF AllFiles
<1>2. IsFile(f) /\ f.smallest \in written /\ f.largest \in written
  BY <1>1, FilesAreFiles DEF Sane
<1>3. f.smallest.k <= f.largest.k
  BY <1>2, KeyInFile DEF Sane, IsFile
<1>. QED
  BY <1>1, <1>2, <1>3, WrittenFields DEF Sane

LEMMA OverlappingIsSolid ==
  ASSUME Sane, NEW level \in Level, NEW lo \in Keys, NEW hi \in Keys
  PROVE  /\ Solid(level, GetOverlappingInputs(level, lo, hi))
         /\ \A f \in files[level] : lo <= f.smallest.k /\ f.largest.k <= hi =>
              f \in GetOverlappingInputs(level, lo, hi)
<1>. DEFINE G == GetOverlappingInputs(level, lo, hi)
            Covers(a, b) == \A f \in files[level] :
                              Overlaps(f, a, b) => a <= f.smallest.k /\ f.largest.k <= b
<1>1. lo \in Int /\ hi \in Int
  BY DEF Keys
<1>2. CASE level = 0
  <2>1. G = {f \in files[0] : \A a \in 1..lo, b \in hi..MaxKey :
                                Covers(a, b) => Overlaps(f, a, b)}
    BY <1>2 DEF GetOverlappingInputs
  <2>. HIDE DEF G
  <2>2. ASSUME NEW f \in files[0] \ G, NEW g \in G PROVE Apart(f, g)
    <3>1. PICK a \in 1..lo, b \in hi..MaxKey : Covers(a, b) /\ ~Overlaps(f, a, b)
      BY <2>1, <2>2
    <3>2. g \in files[0] /\ Overlaps(g, a, b)
      BY <2>1, <3>1
    <3>3. a <= g.smallest.k /\ g.largest.k <= b
      BY <1>2, <3>1, <3>2
    <3>4. ~(a <= f.largest.k /\ f.smallest.k <= b)
      BY <3>1 DEF Overlaps
    <3>5. /\ f.smallest.k \in Int /\ f.largest.k \in Int /\ g.smallest.k \in Int
          /\ g.largest.k \in Int /\ a \in Int /\ b \in Int
      BY <1>1, <1>2, <2>2, <3>2, InLevel, Limits
    <3>. QED
      BY <3>3, <3>4, <3>5 DEF Apart
  <2>3. ASSUME NEW f \in files[level], lo <= f.smallest.k, f.largest.k <= hi PROVE f \in G
    <3>1. \A a \in 1..lo, b \in hi..MaxKey : Overlaps(f, a, b)
      <4>. TAKE a \in 1..lo, b \in hi..MaxKey
      <4>1. f.smallest.k \in Int /\ f.largest.k \in Int /\ f.smallest.k <= f.largest.k
        BY InLevel
      <4>2. a <= lo /\ hi <= b /\ a \in Int /\ b \in Int
        BY <1>1, Limits
      <4>. QED
        BY <1>1, <2>3, <4>1, <4>2 DEF Overlaps
    <3>. QED
      BY <1>2, <2>1, <3>1
  <2>4. G \subseteq files[level]
    BY <1>2, <2>1
  <2>5. Solid(level, G)
    BY <1>2, <2>2, <2>4 DEF Solid
  <2>. QED
    BY <2>3, <2>5 DEF G
<1>3. CASE level # 0
  <2>1. G = {f \in files[level] : Overlaps(f, lo, hi)}
    BY <1>3 DEF GetOverlappingInputs
  <2>. HIDE DEF G
  <2>2. ASSUME NEW f \in files[level] \ G, NEW g \in G, NEW h \in G,
               Before(g.largest, f.smallest)
        PROVE  Before(h.largest, f.smallest)
    <3>1. /\ f \in files[level] /\ g \in files[level] /\ h \in files[level]
          /\ lo <= g.largest.k /\ h.smallest.k <= hi
          /\ ~(lo <= f.largest.k /\ f.smallest.k <= hi)
      BY <2>1, <2>2 DEF Overlaps
    <3>2. g.largest.k <= f.smallest.k
      BY <2>2, <3>1, InLevel, BeforeStrict DEF Sane
    <3>3. hi < f.smallest.k
      BY <1>1, <3>1, <3>2, InLevel
    <3>4. h.smallest.k < f.largest.k
      BY <1>1, <3>1, <3>3, InLevel
    <3>5. ~Before(f.largest, h.smallest)
      BY <3>1, <3>4, InLevel DEF Before
    <3>. QED
      BY <1>3, <2>2, <3>1, <3>5 DEF Sane, LevelsInOrder
  <2>3. Solid(level, G)
    BY <1>3, <2>1, <2>2 DEF Solid
  <2>4. ASSUME NEW f \in files[level], lo <= f.smallest.k, f.largest.k <= hi PROVE f \in G
    BY <1>1, <2>1, <2>4, InLevel DEF Overlaps
  <2>. QED
    BY <2>3, <2>4 DEF G
<1>. QED
  BY <1>2, <1>3

LEMMA SpannedIsSolid ==
  ASSUME Sane, NEW level \in Level, NEW F, F \subseteq AllFiles, F # {}
  PROVE  /\ Solid(level, Spanned(level, F))
         /\ F \cap files[level] \subseteq Spanned(level, F)
<1>1. /\ FirstFile(F).smallest.k \in Keys /\ LargestKey(F).k \in Keys
      /\ \A f \in F : FirstFile(F).smallest.k <= f.smallest.k /\ f.largest.k <= LargestKey(F).k
  BY SpanOf
<1>2. /\ Solid(level, Spanned(level, F))
      /\ \A f \in files[level] :
           FirstFile(F).smallest.k <= f.smallest.k /\ f.largest.k <= LargestKey(F).k =>
             f \in Spanned(level, F)
  BY <1>1, OverlappingIsSolid DEF Spanned
<1>. QED
  BY <1>1, <1>2

(* addBoundaryInputs: what stays on the level is newer, because the rest   *)
(* of the last user key goes along.                                        *)
LEMMA BoundaryInputs ==
  ASSUME Sane, NEW level \in Level, NEW F, Solid(level, F), F # {}
  PROVE  /\ F \subseteq AddBoundaryInputs(level, F)
         /\ AddBoundaryInputs(level, F) \subseteq files[level]
         /\ StaysNewer(level, AddBoundaryInputs(level, F))
<1>. DEFINE after == {f \in files[level] : Before(LargestKey(F), f.smallest)}
            Continues(g) == \E f \in F \cup after :
                              Before(f.largest, g.smallest) /\ f.largest.k = g.smallest.k
            more == {f \in after : \A g \in after :
                       Before(f.smallest, g.smallest) \/ Continues(g)}
<1>1. AddBoundaryInputs(level, F) = F \cup more
  BY DEF AddBoundaryInputs
<1>2. F \subseteq files[level] /\ F \subseteq AllFiles
  BY DEF Solid, AllFiles
<1>3. PICK last \in F : /\ LargestKey(F) = last.largest
                        /\ \A g \in F : g = last \/ Before(g.largest, last.largest)
  BY <1>2, EndsOfGroup
<1>. HIDE DEF more
<1>4. more \subseteq after /\ after \subseteq files[level]
  BY DEF more
<1>5. F \cup more \subseteq files[level]
  BY <1>2, <1>4
<1>6. \A f \in files[level] : /\ f.smallest \in written /\ f.largest \in written
                              /\ f.smallest.k \in Int /\ f.largest.k \in Int
                              /\ f.smallest.k <= f.largest.k
                              /\ f.smallest = f.largest \/ Before(f.smallest, f.largest)
  BY InLevel DEF IsFile
<1>7. \A x \in after : Before(last.largest, x.smallest) /\ x \notin F
  <2>. TAKE x \in after
  <2>1. x \in files[level] /\ Before(last.largest, x.smallest)
    BY <1>3
  <2>2. Before(last.largest, x.largest)
    BY <1>2, <1>3, <1>6, <2>1, BeforeTrans DEF Sane
  <2>. QED
    BY <1>2, <1>3, <1>6, <2>1, <2>2, BeforeStrict DEF Sane
<1>8. level = 0 => more = {}
  <2>. SUFFICES ASSUME level = 0, NEW g \in more PROVE FALSE
    OBVIOUS
  <2>. DEFINE T == {x \in after : x = g \/ Before(x.smallest, g.smallest)}
  <2>1. T \subseteq AllFiles /\ T # {} /\ T \subseteq files[level]
    BY <1>4 DEF AllFiles
  <2>. DEFINE x == FirstFile(T)
  <2>2. x \in T /\ \A y \in T : y = x \/ Before(x.smallest, y.smallest)
    BY <2>1, EndsOfGroup
  <2>3. x \in after /\ x \in files[level] /\ g \in files[level]
    BY <1>4, <2>2
  <2>. HIDE DEF x
  <2>4. ~Before(g.smallest, x.smallest)
    BY <1>6, <2>2, <2>3, BeforeStrict DEF Sane
  <2>5. PICK h \in F \cup after : Before(h.largest, x.smallest) /\ h.largest.k = x.smallest.k
    BY <2>3, <2>4 DEF more
  <2>6. h \in files[level]
    BY <1>2, <2>5
  <2>7. Before(h.smallest, x.smallest)
    BY <1>6, <2>3, <2>5, <2>6, BeforeTrans DEF Sane
  <2>8. h \in F
    <3>. SUFFICES ASSUME h \in after PROVE FALSE
      BY <2>5
    <3>1. Before(h.smallest, g.smallest)
      BY <1>6, <2>2, <2>3, <2>6, <2>7, BeforeTrans DEF Sane
    <3>2. h = x \/ Before(x.smallest, h.smallest)
      BY <2>2, <3>1
    <3>. QED
      BY <1>6, <2>3, <2>6, <2>7, <3>2, BeforeStrict DEF Sane
  <2>9. Apart(x, h)
    BY <1>7, <2>3, <2>8 DEF Solid
  <2>. QED
    BY <1>6, <2>3, <2>5, <2>6, <2>9 DEF Apart
<1>9. ASSUME NEW f \in files[level] \ (F \cup more), NEW g \in F \cup more,
             NEW d \in f.entries, NEW e \in g.entries, d.k = e.k
      PROVE  d.s > e.s
  <2>. f \in files[level] /\ g \in files[level]
    BY <1>5
  <2>1. /\ d \in written /\ e \in written /\ d.s \in Int /\ e.s \in Int
        /\ f.smallest.k <= d.k /\ d.k <= f.largest.k
        /\ g.smallest.k <= e.k /\ e.k <= g.largest.k
    BY InLevel, KeyInFile, WrittenFields DEF Sane
  <2>2. d.k \in Int
    BY <2>1, WrittenFields DEF Sane
  <2>3. CASE level = 0
    <3>1. Apart(f, g)
      BY <1>8, <1>9, <2>3 DEF Solid
    <3>. QED
      BY <1>6, <1>9, <2>1, <2>2, <3>1 DEF Apart
  <2>4. CASE level # 0 /\ Before(f.largest, g.smallest)
    <3>1. d = f.largest \/ Before(d, f.largest)
      BY <1>9, InLevel DEF IsFile
    <3>2. e = g.smallest \/ Before(g.smallest, e)
      BY <1>9, InLevel DEF IsFile
    <3>3. Before(d, e)
      BY <1>6, <2>1, <2>4, <3>1, <3>2, BeforeTrans DEF Sane
    <3>. QED
      BY <1>9, <2>1, <2>2, <3>3 DEF Before
  <2>5. CASE level # 0 /\ Before(g.largest, f.smallest)
    <3>1. g.largest.k = f.smallest.k
      <4>1. g.largest.k <= f.smallest.k
        BY <1>6, <2>5, BeforeStrict DEF Sane
      <4>. QED
        BY <1>6, <1>9, <2>1, <2>2, <4>1
    <3>2. f \in after
      <4>1. CASE g \in F
        <5>1. Before(last.largest, f.smallest)
          BY <1>9, <2>5, <4>1 DEF Solid
        <5>. QED
          BY <1>3, <5>1
      <4>2. CASE g \in more
        <5>1. Before(last.largest, g.largest)
          BY <1>2, <1>3, <1>4, <1>6, <1>7, <4>2, BeforeTrans DEF Sane
        <5>2. Before(last.largest, f.smallest)
          BY <1>2, <1>3, <1>6, <2>5, <5>1, BeforeTrans DEF Sane
        <5>. QED
          BY <1>3, <5>2
      <4>. QED
        BY <1>9, <4>1, <4>2
    <3>3. g \in F \cup after
      BY <1>4
    <3>4. PICK x \in after : ~Before(f.smallest, x.smallest) /\ ~Continues(x)
      BY <1>9, <3>2 DEF more
    <3>5. x \in files[level] /\ x # f
      BY <2>5, <3>1, <3>3, <3>4
    <3>6. Before(x.largest, f.smallest)
      <4>1. Before(f.largest, x.smallest) \/ Before(x.largest, f.smallest)
        BY <2>5, <3>5 DEF Sane, LevelsInOrder
      <4>2. Before(f.largest, x.smallest) => Before(f.smallest, x.smallest)
        BY <1>6, <3>5, BeforeTrans DEF Sane
      <4>. QED
        BY <3>4, <4>1, <4>2
    <3>7. Before(g.largest, x.smallest)
      <4>1. CASE g \in F
        <5>1. g = last \/ Before(g.largest, last.largest)
          BY <1>3, <4>1
        <5>. QED
          BY <1>2, <1>3, <1>6, <1>7, <3>4, <3>5, <5>1, BeforeTrans DEF Sane
      <4>2. CASE g \in more
        <5>1. Before(g.smallest, x.smallest)
          BY <3>4, <4>2 DEF more
        <5>2. g # x /\ ~Before(x.smallest, g.smallest)
          BY <1>6, <3>5, <5>1, BeforeStrict DEF Sane
        <5>3. Before(g.largest, x.smallest) \/ Before(x.largest, g.smallest)
          BY <2>5, <3>5, <5>2 DEF Sane, LevelsInOrder
        <5>4. Before(x.largest, g.smallest) => Before(x.smallest, g.smallest)
          BY <1>6, <3>5, BeforeTrans DEF Sane
        <5>. QED
          BY <5>2, <5>3, <5>4
      <4>. QED
        BY <1>9, <4>1, <4>2
    <3>8. g.largest.k = x.smallest.k
      <4>1. g.largest.k <= x.smallest.k
        BY <1>6, <3>5, <3>7, BeforeStrict DEF Sane
      <4>2. x.largest.k <= f.smallest.k
        BY <1>6, <3>5, <3>6, BeforeStrict DEF Sane
      <4>. QED
        BY <1>6, <3>1, <3>5, <4>1, <4>2
    <3>9. Continues(x)
      BY <3>3, <3>7, <3>8
    <3>. QED
      BY <3>4, <3>9
  <2>6. level # 0 => Before(f.largest, g.smallest) \/ Before(g.largest, f.smallest)
    BY <1>9 DEF Sane, LevelsInOrder
  <2>. QED
    BY <2>3, <2>4, <2>5, <2>6
<1>. QED
  BY <1>1, <1>5, <1>9 DEF StaysNewer

(* setupOtherInputs: the inputs of both levels, expanded or not.           *)
LEMMA InputsAreSound ==
  ASSUME Sane, NEW level \in 0..(NumLevels - 2), NEW F, Solid(level, F), F # {},
         NEW in, in = SetupOtherInputs(level, F)
  PROVE  /\ in[1] # {} /\ in[1] \subseteq files[level] /\ in[2] \subseteq files[level + 1]
         /\ StaysNewer(level, in[1])
<1>. DEFINE in0 == AddBoundaryInputs(level, F)
            in1 == Spanned(level + 1, in0)
            wide == Spanned(level, in0 \cup in1)
            expand0 == AddBoundaryInputs(level, wide)
            expand1 == Spanned(level + 1, expand0)
<1>1. in = <<expand0, expand1>> \/ in = <<in0, in1>>
  BY DEF SetupOtherInputs
<1>. HIDE DEF in0, in1, wide, expand0, expand1
<1>2. level \in Level /\ level + 1 \in Level
  BY Limits DEF Level
<1>3. in0 # {} /\ in0 \subseteq files[level] /\ StaysNewer(level, in0)
  BY <1>2, BoundaryInputs DEF in0
<1>4. in0 \subseteq AllFiles
  BY <1>2, <1>3 DEF AllFiles
<1>5. in1 \subseteq files[level + 1]
  BY <1>2, <1>3, <1>4, SpannedIsSolid DEF in1, Solid
<1>6. in0 \cup in1 \subseteq AllFiles
  BY <1>2, <1>4, <1>5 DEF AllFiles
<1>7. Solid(level, wide) /\ in0 \subseteq wide
  BY <1>2, <1>3, <1>6, SpannedIsSolid DEF wide
<1>8. expand0 # {} /\ expand0 \subseteq files[level] /\ StaysNewer(level, expand0)
  BY <1>2, <1>3, <1>7, BoundaryInputs DEF expand0
<1>9. expand0 \subseteq AllFiles
  BY <1>2, <1>8 DEF AllFiles
<1>10. expand1 \subseteq files[level + 1]
  BY <1>2, <1>8, <1>9, SpannedIsSolid DEF expand1, Solid
<1>. QED
  BY <1>1, <1>3, <1>5, <1>8, <1>10

(* Scores are compared by cross-multiplication.                            *)
LEMMA RatioTrans ==
  ASSUME NEW a \in Nat, NEW b \in Nat \ {0}, NEW c \in Nat, NEW d \in Nat \ {0},
         NEW e \in Nat, NEW f \in Nat \ {0}, a * d < c * b, c * f < e * d
  PROVE  a * f < e * b
<1>1. (a * d) * f < (c * b) * f
  OBVIOUS
<1>2. (c * f) * b < (e * d) * b
  OBVIOUS
<1>3. (a * f) * d < (e * b) * d
  BY <1>1, <1>2
<1>4. a * f \in Int /\ e * b \in Int
  OBVIOUS
<1>. HIDE DEF Nat
<1>. QED
  BY <1>3, <1>4

LEMMA ScoreTyped ==
  ASSUME Sane, NEW l \in Level
  PROVE  /\ Score(l)[1] \in Nat /\ Score(l)[2] \in Nat \ {0}
         /\ files[l] = {} => Score(l)[1] = 0
<1>1. CASE l = 0
  <2>1. IsFiniteSet(files[0])
    BY <1>1 DEF Sane, FilesInv
  <2>2. Cardinality(files[0]) \in Nat /\ (files[0] = {} => Cardinality(files[0]) = 0)
    BY <2>1, FS_CardinalityType, FS_EmptySet
  <2>. QED
    BY <1>1, <2>2, LevelsAssumption DEF Score
<1>2. CASE l # 0
  <2>1. Entries(files[l]) \subseteq written
    BY DEF Sane, FilesInv, IsFile, Entries
  <2>2. IsFiniteSet(Entries(files[l]))
    BY <2>1, FS_Subset DEF Sane, WritesInv
  <2>3. Total(files[l]) \in Nat
    BY <2>2, FS_CardinalityType DEF Total
  <2>4. files[l] = {} => Total(files[l]) = 0
    <3>1. files[l] = {} => Entries(files[l]) = {}
      BY DEF Entries
    <3>. QED
      BY <3>1, FS_EmptySet DEF Total
  <2>5. LevelRatio^(l - 1) \in Nat \ {0} /\ BaseSize \in Nat \ {0}
    BY <1>2, LevelsAssumption DEF Level
  <2>6. BaseSize * LevelRatio^(l - 1) \in Nat \ {0}
    BY <2>5
  <2>. QED
    BY <1>2, <2>3, <2>4, <2>6 DEF Score
<1>. QED
  BY <1>1, <1>2

(* The level to be compacted has files.                                    *)
LEMMA CompactionLevelHasFiles ==
  ASSUME Sane, NeedsCompaction
  PROVE  CompactionLevel \in Level /\ files[CompactionLevel] # {}
<1>. DEFINE s(l) == Score(l)[1]
            d(l) == Score(l)[2]
            R == [l \in Level |-> {m \in Level : s(m) * d(l) < s(l) * d(m)}]
            best == {l \in Level : \A m \in Level : s(m) * d(l) <= s(l) * d(m)}
<1>1. \A l \in Level : s(l) \in Nat /\ d(l) \in Nat \ {0}
  BY ScoreTyped
<1>2. \A l, m \in Level : m \in R[l] <=> s(m) * d(l) < s(l) * d(m)
  OBVIOUS
<1>3. CompactionLevel = Min(best)
  BY DEF CompactionLevel
<1>4. R \in [Level -> SUBSET Level]
  OBVIOUS
<1>5. PICK l0 \in Level : s(l0) >= d(l0)
  BY DEF NeedsCompaction
<1>. HIDE DEF s, d, R
<1>6. Order(Level, R)
  <2>1. IsFiniteSet(Level)
    BY Limits, FS_Interval DEF Level
  <2>2. \A l \in Level : l \notin R[l]
    <3>. TAKE l \in Level
    <3>1. ~(s(l) * d(l) < s(l) * d(l))
      BY <1>1
    <3>. QED
      BY <1>2, <3>1
  <2>3. \A l, m, n \in Level : m \in R[l] /\ n \in R[m] => n \in R[l]
    BY <1>1, <1>2, RatioTrans
  <2>. QED
    BY <1>4, <2>1, <2>2, <2>3 DEF Order
<1>7. best # {}
  <2>1. Level # {}
    BY Limits DEF Level
  <2>2. PICK l \in Level : \A m \in Level : l \notin R[m]
    BY <1>6, <2>1, MinimalOfOrder
  <2>3. \A m \in Level : s(m) * d(l) <= s(l) * d(m)
    <3>. TAKE m \in Level
    <3>1. ~(s(l) * d(m) < s(m) * d(l))
      BY <1>2, <2>2
    <3>2. s(l) * d(m) \in Int /\ s(m) * d(l) \in Int
      BY <1>1
    <3>. QED
      BY <3>1, <3>2
  <2>. QED
    BY <2>3
<1>8. best \subseteq Nat
  BY Limits DEF Level
<1>9. CompactionLevel \in best
  <2>. HIDE DEF best
  <2>. QED
    BY <1>3, <1>7, <1>8, MinOfSome
<1>10. files[CompactionLevel] # {}
  <2>. SUFFICES ASSUME files[CompactionLevel] = {} PROVE FALSE
    OBVIOUS
  <2>1. s(CompactionLevel) = 0
    BY <1>9, ScoreTyped DEF s
  <2>2. s(l0) * d(CompactionLevel) <= 0 * d(l0)
    BY <1>9, <2>1
  <2>3. s(l0) \in Nat \ {0} /\ d(CompactionLevel) \in Nat \ {0} /\ d(l0) \in Nat
    BY <1>1, <1>5, <1>9
  <2>4. s(l0) * d(CompactionLevel) > 0
    BY <2>3
  <2>. QED
    BY <2>2, <2>3, <2>4
<1>. QED
  BY <1>9, <1>10

(* What pickCompaction begins with.                                        *)
LEMMA PickedInputs ==
  ASSUME Sane, NeedsCompaction, NEW level, level = CompactionLevel, NEW F,
         F = IF level = 0 THEN Spanned(0, {Picked(0)}) ELSE {Picked(level)}
  PROVE  level \in Level /\ Solid(level, F) /\ F # {}
<1>1. level \in Level /\ files[level] # {} /\ files[level] \subseteq AllFiles
  BY CompactionLevelHasFiles DEF AllFiles
<1>2. Picked(level) \in files[level]
  <2>. DEFINE after == {f \in files[level] : Before(compactPointers[level], f.largest)}
              G == IF after = {} THEN files[level] ELSE after
  <2>1. G # {} /\ G \subseteq files[level] /\ G \subseteq AllFiles
    BY <1>1
  <2>2. Picked(level) = FirstFile(G)
    BY DEF Picked
  <2>. HIDE DEF G
  <2>. QED
    BY <2>1, <2>2, EndsOfGroup
<1>3. CASE level = 0
  BY <1>1, <1>2, <1>3, SpannedIsSolid
<1>4. CASE level # 0
  BY <1>1, <1>2, <1>4 DEF Solid
<1>. QED
  BY <1>1, <1>3, <1>4

(* What a round of compactRange begins with.                               *)
LEMMA ManualInputs ==
  ASSUME Sane, NEW level \in Level, NEW lo \in Keys, NEW hi \in Keys,
         maxFileSize \in Nat
  PROVE  Solid(level, ManualFiles(level, lo, hi))
<1>. DEFINE in == GetOverlappingInputs(level, lo, hi)
            Before_(f) == {g \in in : Before(g.smallest, f.smallest)}
<1>1. Solid(level, in)
  BY OverlappingIsSolid
<1>2. CASE level = 0
  BY <1>1, <1>2 DEF ManualFiles
<1>3. CASE level # 0
  <2>. DEFINE F == {f \in in : Total(Before_(f)) < maxFileSize}
  <2>1. ManualFiles(level, lo, hi) = F
    BY <1>3 DEF ManualFiles
  <2>. HIDE DEF in
  <2>2. in \subseteq files[level]
    BY <1>1 DEF Solid
  <2>3. ASSUME NEW f \in files[level] \ F, NEW g \in F, NEW h \in F,
               Before(g.largest, f.smallest)
        PROVE  Before(h.largest, f.smallest)
    <3>. g \in in /\ h \in in /\ g \in files[level] /\ h \in files[level] /\ f \in files[level]
      BY <2>2
    <3>1. CASE f \notin in
      BY <1>1, <1>3, <2>3, <3>1 DEF Solid
    <3>2. CASE f \in in
      <4>. SUFFICES ASSUME ~Before(h.largest, f.smallest) PROVE FALSE
        OBVIOUS
      <4>1. Before(f.largest, h.smallest)
        BY <1>3, <2>3, <3>2 DEF Sane, LevelsInOrder
      <4>2. Before(f.smallest, h.smallest)
        <5>1. f.smallest = f.largest \/ Before(f.smallest, f.largest)
          BY InLevel DEF IsFile
        <5>. QED
          BY <4>1, <5>1, InLevel, BeforeTrans DEF Sane
      <4>3. Before_(f) \subseteq Before_(h)
        BY <2>2, <4>2, InLevel, BeforeTrans DEF Sane
      <4>4. Entries(Before_(f)) \subseteq Entries(Before_(h)) /\ Entries(Before_(h)) \subseteq written
        BY <2>2, <4>3, InLevel DEF Entries, IsFile
      <4>5. Total(Before_(f)) <= Total(Before_(h)) /\ Total(Before_(f)) \in Nat /\ Total(Before_(h)) \in Nat
        <5>1. IsFiniteSet(Entries(Before_(h)))
          BY <4>4, FS_Subset DEF Sane, WritesInv
        <5>2. IsFiniteSet(Entries(Before_(f)))
             /\ Cardinality(Entries(Before_(f))) <= Cardinality(Entries(Before_(h)))
          BY <4>4, <5>1, FS_Subset
        <5>. QED
          BY <5>1, <5>2, FS_CardinalityType DEF Total
      <4>. QED
        BY <2>3, <3>2, <4>5
    <3>. QED
      BY <3>1, <3>2
  <2>. QED
    BY <1>3, <2>1, <2>2, <2>3 DEF Solid
<1>. QED
  BY <1>2, <1>3

-----------------------------------------------------------------------------
(* The tables that a compaction writes.                                    *)

(* A sorted sequence has nothing but the elements of the set.              *)
LEMMA SortedElements ==
  ASSUME WritesInv, NEW E, E \subseteq written
  PROVE  /\ Cardinality(E) \in Nat /\ DOMAIN Sorted(E) = 1..Cardinality(E)
         /\ \A i \in 1..Cardinality(E) : Sorted(E)[i] \in E
<1>. DEFINE R == [a \in E |-> {b \in E : Before(a, b)}]
<1>1. R \in [E -> SUBSET E] /\ IsFiniteSet(E)
  BY FS_Subset DEF WritesInv
<1>2. \A a, b \in E : b \in R[a] <=> Before(a, b)
  OBVIOUS
<1>. HIDE DEF R
<1>3. StrictOrder(E, R)
  BY <1>1, <1>2, BeforeStrict, BeforeTrans, BeforeTotal DEF StrictOrder, Order
<1>4. ASSUME NEW i \in 1..Cardinality(E) PROVE Sorted(E)[i] \in E
  <2>1. PICK e \in E : Cardinality(Earlier(E, R, e)) = i - 1
    BY <1>3, EveryPlaceTaken
  <2>2. Earlier(E, R, e) = {d \in E : Before(d, e)}
    BY <1>2 DEF Earlier
  <2>3. \E x \in E : Cardinality({d \in E : Before(d, x)}) = i - 1
    BY <2>1, <2>2
  <2>. QED
    BY <2>3 DEF Sorted
<1>5. DOMAIN Sorted(E) = 1..Cardinality(E)
  BY DEF Sorted
<1>. QED
  BY <1>1, <1>4, <1>5, FS_CardinalityType

LEMMA OutputsAreFiles ==
  ASSUME Sane, NEW c, Inputs(c) \subseteq AllFiles, NEW new, new = Outputs(c)
  PROVE  /\ Cardinality(new) \in Nat /\ IsFiniteSet(new)
         /\ \A f \in new : /\ IsFile(f) /\ f.entries \subseteq Entries(Inputs(c))
                           /\ f.num >= nextFileNumber
                           /\ f.num < nextFileNumber + Cardinality(new)
         /\ \A f, g \in new : f.num = g.num => f = g
<1>. DEFINE in == InputEntries(c)
            kept == {i \in DOMAIN in : ~Drops(c, in[i])}
            stops == StopsBefore(c, in)
            open[i \in 0..Len(in)] ==
              IF i = 0 THEN 0
              ELSE ((IF i \in stops THEN 0 ELSE open[i - 1])
                    + (IF i \in kept THEN 1 ELSE 0)) % maxFileSize
            starts == {i \in kept : open[i] = 1 % maxFileSize}
            Run(i) == {in[j] : j \in {j \in kept : j >= i /\ ~\E n \in starts : i < n /\ n <= j}}
            before(i) == {n \in starts : n < i}
            num(i) == nextFileNumber + Cardinality(before(i))
<1>1. new = {Table(num(i), Run(i)) : i \in starts}
  BY DEF Outputs
<1>. HIDE DEF open
<1>2. Entries(Inputs(c)) \subseteq written
  BY FilesAreFiles DEF Sane, Entries, IsFile
<1>3. /\ Cardinality(Entries(Inputs(c))) \in Nat
      /\ DOMAIN in = 1..Cardinality(Entries(Inputs(c)))
      /\ \A i \in DOMAIN in : in[i] \in Entries(Inputs(c))
  BY <1>2, SortedElements DEF InputEntries, Sane
<1>. HIDE DEF in
<1>4. IsFiniteSet(starts) /\ starts \subseteq kept /\ kept \subseteq Nat
  <2>1. IsFiniteSet(1..Cardinality(Entries(Inputs(c))))
    BY <1>3, FS_Interval
  <2>2. starts \in SUBSET (1..Cardinality(Entries(Inputs(c))))
    BY <1>3
  <2>. QED
    BY <1>3, <2>1, <2>2, FS_Subset
<1>5. \A i \in starts : Run(i) \subseteq Entries(Inputs(c)) /\ Run(i) # {}
  <2>. TAKE i \in starts
  <2>1. Run(i) \subseteq Entries(Inputs(c))
    BY <1>3
  <2>2. i \in kept /\ i >= i /\ ~\E n \in starts : i < n /\ n <= i
    BY <1>4
  <2>3. in[i] \in Run(i)
    BY <2>2
  <2>. QED
    BY <2>1, <2>3
<1>. HIDE DEF kept, starts, Run
<1>6. \A i \in starts : Cardinality(before(i)) \in Nat /\ Cardinality(before(i)) < Cardinality(starts)
  <2>. TAKE i \in starts
  <2>1. before(i) \in SUBSET starts /\ i \in starts /\ i \notin before(i)
    BY <1>4
  <2>. HIDE DEF before
  <2>2. Cardinality(before(i)) <= Cardinality(starts) /\ before(i) # starts
        /\ IsFiniteSet(before(i)) /\ (Cardinality(before(i)) = Cardinality(starts) => before(i) = starts)
    BY <1>4, <2>1, FS_Subset
  <2>. QED
    BY <1>4, <2>2, FS_CardinalityType
<1>7. \A i, j \in starts : i < j => Cardinality(before(i)) < Cardinality(before(j))
  <2>. SUFFICES ASSUME NEW i \in starts, NEW j \in starts, i < j
                PROVE  Cardinality(before(i)) < Cardinality(before(j))
    OBVIOUS
  <2>0. i < j
    OBVIOUS
  <2>1. before(i) \in SUBSET before(j) /\ i \in before(j) /\ i \notin before(i)
    <3>1. i \in Nat /\ j \in Nat /\ \A n \in starts : n \in Nat
      BY <1>4
    <3>2. \A n \in starts : n < i => n < j
      BY <2>0, <3>1
    <3>3. i \in before(j) /\ i \notin before(i)
      BY <2>0, <3>1
    <3>4. \A n \in before(i) : n \in before(j)
      BY <3>2
    <3>. QED
      BY <3>3, <3>4
  <2>2. before(j) \in SUBSET starts
    OBVIOUS
  <2>3. IsFiniteSet(before(j)) /\ IsFiniteSet(before(i))
    BY <1>4, <2>1, <2>2, FS_Subset
  <2>. HIDE DEF before
  <2>4. Cardinality(before(i)) <= Cardinality(before(j))
        /\ (Cardinality(before(i)) = Cardinality(before(j)) => before(i) = before(j))
    BY <2>1, <2>3, FS_Subset
  <2>. QED
    BY <2>1, <2>3, <2>4, FS_CardinalityType
<1>8. nextFileNumber \in Nat
  BY DEF Sane, FilesInv
<1>9. \A i, j \in starts : num(i) = num(j) => i = j
  <2>. SUFFICES ASSUME NEW i \in starts, NEW j \in starts, num(i) = num(j), i # j PROVE FALSE
    OBVIOUS
  <2>1. i < j \/ j < i
    BY <1>4
  <2>2. Cardinality(before(i)) \in Nat /\ Cardinality(before(j)) \in Nat
    BY <1>6
  <2>3. Cardinality(before(i)) # Cardinality(before(j))
    BY <1>7, <2>1, <2>2
  <2>. HIDE DEF before
  <2>. QED
    BY <1>8, <2>2, <2>3
<1>10. \A i \in starts : /\ num(i) \in Nat /\ num(i) >= nextFileNumber
                         /\ num(i) < nextFileNumber + Cardinality(starts)
  <2>. HIDE DEF before
  <2>1. Cardinality(starts) \in Nat
    BY <1>4, FS_CardinalityType
  <2>. QED
    BY <1>6, <1>8, <2>1
<1>. HIDE DEF num, before
<1>11. \A i \in starts : LET t == Table(num(i), Run(i)) IN
         /\ IsFile(t) /\ t.num = num(i) /\ t.entries = Run(i)
  BY <1>2, <1>5, <1>10, TableIsFile DEF Sane
<1>12. IsFiniteSet(new) /\ Cardinality(new) = Cardinality(starts)
  <2>. DEFINE t == [i \in starts |-> Table(num(i), Run(i))]
  <2>1. t \in Bijection(starts, new)
    <3>1. t \in [starts -> new] /\ \A y \in new : \E i \in starts : t[i] = y
      BY <1>1
    <3>2. \A i, j \in starts : t[i] = t[j] => i = j
      BY <1>9, <1>11
    <3>. HIDE DEF t
    <3>. QED
      BY <3>1, <3>2 DEF Bijection, Injection, Surjection, IsInjective
  <2>. HIDE DEF t
  <2>. QED
    BY <1>4, <2>1, FS_Bijection DEF ExistsBijection
<1>13. \A f \in new : /\ IsFile(f) /\ f.entries \subseteq Entries(Inputs(c))
                      /\ f.num >= nextFileNumber
                      /\ f.num < nextFileNumber + Cardinality(new)
  BY <1>1, <1>5, <1>10, <1>11, <1>12
<1>14. \A f, g \in new : f.num = g.num => f = g
  BY <1>1, <1>9, <1>11
<1>. QED
  BY <1>12, <1>13, <1>14, FS_CardinalityType

-----------------------------------------------------------------------------
(* Steps that leave the files alone.                                       *)
LEMMA SequenceCounts ==
  ASSUME WritesInv
  PROVE  lastSequence \in Nat
BY FS_CardinalityType DEF WritesInv, lastSequence

LEMMA FilesKept ==
  ASSUME FilesInv, LevelsInOrder(files), UNCHANGED <<files, nextFileNumber>>,
         written \subseteq written'
  PROVE  FilesInv' /\ LevelsInOrder(files)' /\ (NeedsCompaction' <=> NeedsCompaction)
         /\ Stored' = Stored
<1>1. \A f : IsFile(f) => IsFile(f)'
  BY DEF IsFile
<1>2. FilesInv'
  BY <1>1 DEF FilesInv
<1>3. LevelsInOrder(files)'
  BY DEF LevelsInOrder
<1>4. NeedsCompaction' <=> NeedsCompaction
  <2>1. files' = files
    OBVIOUS
  <2>. QED
    BY <2>1 DEF NeedsCompaction, Score
<1>5. Stored' = Stored
  BY DEF Stored, AllFiles
<1>. QED
  BY <1>2, <1>3, <1>4, <1>5

LEMMA InitIInv == Init => IInv
<1>. SUFFICES ASSUME Init PROVE IInv
  OBVIOUS
<1>1. lastSequence = 0
  BY FS_EmptySet DEF Init, lastSequence
<1>2. WritesInv
  BY <1>1, FS_EmptySet, EmptySeq DEF Init, WritesInv
<1>3. \A l \in Level : files[l] = {}
  BY DEF Init
<1>4. FilesInv
  BY <1>3, FS_EmptySet DEF Init, FilesInv
<1>5. NewerInv
  <2>1. 0 \in Level
    BY Limits DEF Level
  <2>2. Stored = {} /\ \A l \in Level : Entries(files[l]) = {}
    BY <1>3 DEF Stored, AllFiles, Entries
  <2>. QED
    BY <1>3, <2>1, <2>2 DEF Init, NewerInv
<1>6. LevelsInOrder(files)
  BY <1>3 DEF LevelsInOrder
<1>7. CompactionInv /\ ManualInv
  BY DEF Init, CompactionInv, ManualInv
<1>8. DriverInv
  <2>1. Sane
    BY <1>2, <1>4, <1>5, <1>6 DEF Sane
  <2>2. ASSUME NEW l \in Level PROVE ~(Score(l)[1] >= Score(l)[2])
    BY <1>3, <2>1, <2>2, ScoreTyped
  <2>. QED
    BY <2>2 DEF Init, DriverInv, Idle, NeedsCompaction
<1>. QED
  BY <1>2, <1>4, <1>5, <1>6, <1>7, <1>8 DEF IInv

LEMMA WriteKeeps ==
  ASSUME IInv, NEW k \in Keys, NEW del \in BOOLEAN, Write(k, del)
  PROVE  IInv'
<1>. DEFINE e == [k |-> k, s |-> lastSequence + 1, del |-> del]
<1>1. /\ WritesInv /\ FilesInv /\ NewerInv /\ LevelsInOrder(files)
      /\ CompactionInv /\ ManualInv /\ DriverInv
  BY DEF IInv
<1>2. lastSequence \in Nat /\ lastSequence < MaxWrites /\ MaxWrites \in Nat
  <2>1. MaxWrites \in Nat
    BY LevelsAssumption
  <2>. QED
    BY <1>1, <2>1, SequenceCounts DEF Write
<1>3. /\ memtable' = memtable \cup {e} /\ written' = written \cup {e}
      /\ UNCHANGED <<immtable, files, compactPointers, nextFileNumber, snapshots,
                     compaction, manual, driver, stopped, maxFileSize, ranges>>
  BY DEF Write
<1>4. e \in Entry /\ e.s = lastSequence + 1
  <2>1. lastSequence + 1 \in 1..MaxWrites
    BY <1>2
  <2>. QED
    BY <2>1 DEF Entry
<1>. HIDE DEF e
<1>5. \A d \in written : d.s < e.s /\ d.s \in Nat
  BY <1>1, <1>2, <1>4 DEF WritesInv, Entry
<1>6. e \notin written
  BY <1>5
<1>7. IsFiniteSet(written') /\ lastSequence' = lastSequence + 1
  BY <1>1, <1>3, <1>6, FS_AddElement DEF WritesInv, lastSequence
<1>8. WritesInv'
  <2>1. \A d \in written' : d.s <= lastSequence'
    BY <1>1, <1>2, <1>3, <1>4, <1>5, <1>7 DEF WritesInv
  <2>2. \A c, d \in written' : c.s = d.s => c = d
    BY <1>1, <1>3, <1>5 DEF WritesInv
  <2>3. snapshots' \in Seq(0..lastSequence')
    <3>1. snapshots \in Seq(0..lastSequence) /\ snapshots' = snapshots
      BY <1>1, <1>3 DEF WritesInv
    <3>2. 0..lastSequence \subseteq 0..lastSequence'
      BY <1>2, <1>7
    <3>. QED
      BY <3>1, <3>2, SeqMonotonic
  <2>. QED
    BY <1>1, <1>3, <1>4, <1>7, <2>1, <2>2, <2>3 DEF WritesInv
<1>9. FilesInv' /\ LevelsInOrder(files)' /\ (NeedsCompaction' <=> NeedsCompaction) /\ Stored' = Stored
  BY <1>1, <1>3, FilesKept
<1>10. NewerInv'
  <2>1. Stored \subseteq written
    BY <1>1, FilesAreFiles DEF Stored, Entries, IsFile
  <2>2. \A d \in memtable', x \in immtable' \cup Stored' : d.s > x.s
    BY <1>1, <1>3, <1>5, <1>9, <2>1 DEF NewerInv, WritesInv
  <2>. QED
    BY <1>1, <1>3, <1>9, <2>2 DEF NewerInv
<1>11. CompactionInv' /\ ManualInv'
  BY <1>1, <1>3 DEF CompactionInv, ManualInv, StaysNewer
<1>12. DriverInv'
  BY <1>1, <1>3, <1>9 DEF DriverInv, Idle
<1>. QED
  BY <1>8, <1>9, <1>10, <1>11, <1>12 DEF IInv

LEMMA SwitchKeeps ==
  ASSUME IInv, SwitchMemtable
  PROVE  IInv'
<1>1. /\ WritesInv /\ FilesInv /\ NewerInv /\ LevelsInOrder(files)
      /\ CompactionInv /\ ManualInv /\ DriverInv
  BY DEF IInv
<1>2. /\ memtable # {} /\ immtable = {} /\ immtable' = memtable /\ memtable' = {}
      /\ driver' = IF driver = "none" THEN "writer" ELSE driver
      /\ UNCHANGED <<files, compactPointers, nextFileNumber, snapshots, compaction,
                     manual, stopped, maxFileSize, written, ranges>>
  BY DEF SwitchMemtable
<1>3. FilesInv' /\ LevelsInOrder(files)' /\ (NeedsCompaction' <=> NeedsCompaction) /\ Stored' = Stored
  BY <1>1, <1>2, FilesKept
<1>4. WritesInv'
  BY <1>1, <1>2 DEF WritesInv, lastSequence
<1>5. NewerInv'
  BY <1>1, <1>2, <1>3 DEF NewerInv
<1>6. CompactionInv' /\ ManualInv'
  BY <1>1, <1>2 DEF CompactionInv, ManualInv, StaysNewer
<1>7. DriverInv'
  BY <1>1, <1>2 DEF DriverInv, Idle
<1>. QED
  BY <1>3, <1>4, <1>5, <1>6, <1>7 DEF IInv

(* Nothing but the snapshots changes.                                      *)
LEMMA SnapshotsOnly ==
  ASSUME IInv, snapshots' \in Seq(0..lastSequence),
         UNCHANGED <<memtable, immtable, files, compactPointers, nextFileNumber,
                     compaction, manual, driver, stopped, maxFileSize, written, ranges>>
  PROVE  IInv'
<1>1. /\ WritesInv /\ FilesInv /\ NewerInv /\ LevelsInOrder(files)
      /\ CompactionInv /\ ManualInv /\ DriverInv
  BY DEF IInv
<1>2. FilesInv' /\ LevelsInOrder(files)' /\ (NeedsCompaction' <=> NeedsCompaction) /\ Stored' = Stored
  BY <1>1, FilesKept
<1>3. WritesInv'
  BY <1>1 DEF WritesInv, lastSequence
<1>4. NewerInv'
  BY <1>1, <1>2 DEF NewerInv
<1>5. CompactionInv' /\ ManualInv'
  BY <1>1 DEF CompactionInv, ManualInv, StaysNewer
<1>6. DriverInv'
  BY <1>1, <1>2 DEF DriverInv, Idle
<1>. QED
  BY <1>2, <1>3, <1>4, <1>5, <1>6 DEF IInv

LEMMA SnapshotsKeep ==
  ASSUME IInv, GetSnapshot \/ \E i \in 1..Len(snapshots) : ReleaseSnapshot(i)
  PROVE  IInv'
<1>1. snapshots \in Seq(0..lastSequence) /\ lastSequence \in Nat
  BY SequenceCounts DEF IInv, WritesInv
<1>2. CASE GetSnapshot
  <2>1. snapshots' = Append(snapshots, lastSequence) /\ lastSequence \in 0..lastSequence
    BY <1>1, <1>2 DEF GetSnapshot
  <2>2. snapshots' \in Seq(0..lastSequence)
    BY <1>1, <2>1, AppendProperties
  <2>. QED
    BY <1>2, <2>2, SnapshotsOnly DEF GetSnapshot
<1>3. ASSUME NEW i \in 1..Len(snapshots), ReleaseSnapshot(i) PROVE IInv'
  <2>1. snapshots' = RemoveAt(snapshots, i)
    BY <1>3 DEF ReleaseSnapshot
  <2>2. snapshots' \in Seq(0..lastSequence)
    BY <1>1, <1>3, <2>1 DEF RemoveAt
  <2>. QED
    BY <1>3, <2>2, SnapshotsOnly DEF ReleaseSnapshot
<1>. QED
  BY <1>2, <1>3

LEMMA CompactRangeKeeps ==
  ASSUME IInv, NEW lo \in Keys, NEW hi \in Keys, CompactRange(lo, hi)
  PROVE  IInv'
<1>1. /\ WritesInv /\ FilesInv /\ NewerInv /\ LevelsInOrder(files)
      /\ CompactionInv /\ ManualInv /\ DriverInv
  BY DEF IInv
<1>. DEFINE deep == {l \in Level : OverlapInLevel(l, lo, hi)}
            last == IF deep = {} THEN 1 ELSE Max(deep)
<1>2. /\ manual = NoManual /\ driver = "none"
      /\ manual' = IF last = 0 THEN NoManual
                   ELSE [level |-> 0, last |-> last - 1, begin |-> lo, start |-> lo, end |-> hi]
      /\ immtable' = memtable /\ memtable' = {}
      /\ driver' = IF memtable = {} THEN "none" ELSE "writer"
      /\ UNCHANGED <<files, compactPointers, nextFileNumber, snapshots, compaction,
                     stopped, maxFileSize, written>>
  BY DEF CompactRange
<1>3. last \in 0..(NumLevels - 1)
  <2>1. deep \subseteq Nat /\ deep \subseteq Level /\ IsFiniteSet(Level)
    BY Limits, FS_Interval DEF Level
  <2>. HIDE DEF deep
  <2>2. IsFiniteSet(deep)
    BY <2>1, FS_Subset
  <2>3. deep # {} => Max(deep) \in Level
    BY <2>1, <2>2, MaxOfFinite
  <2>4. 1 \in Level
    BY Limits DEF Level
  <2>5. last \in Level
    BY <2>3, <2>4
  <2>. QED
    BY <2>5 DEF Level
<1>. HIDE DEF last
<1>4. FilesInv' /\ LevelsInOrder(files)' /\ (NeedsCompaction' <=> NeedsCompaction) /\ Stored' = Stored
  BY <1>1, <1>2, FilesKept
<1>5. WritesInv'
  BY <1>1, <1>2 DEF WritesInv, lastSequence
<1>6. immtable = {} /\ compaction = NoCompaction /\ stopped = "no"
  BY <1>1, <1>2 DEF DriverInv, Idle
<1>7. NewerInv'
  BY <1>1, <1>2, <1>4, <1>6 DEF NewerInv
<1>8. CompactionInv'
  BY <1>2, <1>6 DEF CompactionInv
<1>9. ManualInv'
  <2>1. last # 0 => last - 1 \in 0..(NumLevels - 2) /\ 0 <= last - 1
    BY <1>3, Limits
  <2>2. 0 \in 0..(NumLevels - 2)
    BY Limits
  <2>. QED
    BY <1>2, <2>1, <2>2 DEF ManualInv
<1>10. DriverInv'
  BY <1>1, <1>2, <1>4, <1>6 DEF DriverInv, Idle
<1>. QED
  BY <1>4, <1>5, <1>7, <1>8, <1>9, <1>10 DEF IInv

-----------------------------------------------------------------------------
(* logAndApply.                                                            *)
LEMMA EntriesOf ==
  ASSUME NEW F, NEW e
  PROVE  e \in Entries(F) <=> \E f \in F : e \in f.entries
BY DEF Entries

LEMMA StoredBelow ==
  ASSUME FilesInv
  PROVE  /\ \A l \in Level : Entries(files[l]) \subseteq Stored
         /\ \A e \in Stored : \E l \in Level : e \in Entries(files[l])
BY DEF Stored, AllFiles, Entries

(* What goes down one level, with what it meets there, leaves a search     *)
(* from the top with the newer entries first.                              *)
LEMMA InstallKeeps ==
  ASSUME Sane, NEW level \in 0..(NumLevels - 2), NEW in0, NEW in1, NEW deleted, NEW added,
         in0 \subseteq files[level], in1 \subseteq files[level + 1],
         deleted = in0 \cup in1, StaysNewer(level, in0), IsFiniteSet(added),
         nextFileNumber' \in Nat, nextFileNumber' >= nextFileNumber,
         \A f \in added : /\ IsFile(f) /\ f.entries \subseteq Entries(deleted)
                          /\ f \in in0 \/ f.num >= nextFileNumber
                          /\ f.num < nextFileNumber',
         \A f, g \in added : f.num = g.num => f = g,
         LogAndApply(level, deleted, level + 1, added),
         UNCHANGED <<memtable, immtable, written>>
  PROVE  FilesInv' /\ NewerInv' /\ LevelsInOrder(files)'
<1>1. WritesInv /\ FilesInv /\ NewerInv /\ LevelsInOrder(files)
  BY DEF Sane
<1>2. /\ level \in Level /\ level + 1 \in Level /\ 0 \in Level /\ level + 1 # 0
      /\ level # level + 1 /\ level \in Int
      /\ \A l \in Level : l \in Int /\ l >= 0
  BY Limits DEF Level
<1>3. \A f : IsFile(f) => IsFile(f)'
  BY DEF IsFile
<1>4. \A l \in Level : \A f \in files[l] :
        /\ IsFile(f) /\ f.num \in Nat /\ 1 <= f.num /\ f.num < nextFileNumber
  <2>1. nextFileNumber \in Nat
    BY <1>1 DEF FilesInv
  <2>. QED
    BY <1>1, <2>1 DEF FilesInv
<1>. DEFINE kept == [l \in Level |-> IF l \in {level, level + 1} THEN files[l] \ deleted ELSE files[l]]
            version == [kept EXCEPT ![level + 1] = @ \cup added]
<1>5. CASE files' = files
  <2>1. nextFileNumber \in Nat /\ nextFileNumber' \in Nat /\ nextFileNumber <= nextFileNumber'
    BY <1>1 DEF FilesInv
  <2>2. \A l \in Level : \A f \in files[l] : f.num \in 1..(nextFileNumber' - 1)
    BY <1>4, <2>1
  <2>3. FilesInv'
    <3>1. nextFileNumber' \in Nat \ {0}
      BY <1>1, <2>1 DEF FilesInv
    <3>. QED
      BY <1>1, <1>3, <1>5, <2>2, <3>1 DEF FilesInv
  <2>4. NewerInv'
    BY <1>1, <1>5 DEF NewerInv, Stored, AllFiles
  <2>. QED
    BY <1>1, <1>5, <2>3, <2>4 DEF LevelsInOrder
<1>6. CASE files' = version /\ LevelsInOrder(version)
  <2>1. /\ DOMAIN version = Level
        /\ version[level] = files[level] \ deleted
        /\ version[level + 1] = (files[level + 1] \ deleted) \cup added
        /\ \A l \in Level : l # level /\ l # level + 1 => version[l] = files[l]
    BY <1>2
  <2>. HIDE DEF version, kept
  <2>2. /\ \A l \in Level : \A f \in version[l] :
             \/ f \in files[l] /\ (l = level => f \notin in0)
             \/ l = level + 1 /\ f \in added
        /\ \A l \in Level : version[l] \subseteq files[l] \cup added
    BY <2>1
  <2>3. \A l \in Level : IsFiniteSet(version[l])
    <3>1. ASSUME NEW l \in Level PROVE IsFiniteSet(version[l])
      <4>1. IsFiniteSet(files[l])
        BY <1>1 DEF FilesInv
      <4>2. IsFiniteSet(files[l] \cup added)
        BY <4>1, FS_Union
      <4>. QED
        BY <2>2, <4>2, FS_Subset
    <3>. QED
      BY <3>1
  <2>4. \A l \in Level : \A f \in version[l] : IsFile(f) /\ f.num \in 1..(nextFileNumber' - 1)
    <3>1. ASSUME NEW l \in Level, NEW f \in version[l]
          PROVE  IsFile(f) /\ f.num \in 1..(nextFileNumber' - 1)
      <4>1. CASE f \in files[l]
        <5>1. nextFileNumber \in Nat
          BY <1>1 DEF FilesInv
        <5>. QED
          BY <1>4, <4>1, <5>1
      <4>2. CASE f \in added
        <5>1. nextFileNumber \in Nat /\ nextFileNumber >= 1
          BY <1>1 DEF FilesInv
        <5>2. IsFile(f) /\ f.num \in Nat /\ f.num < nextFileNumber'
          BY <4>2 DEF IsFile
        <5>3. f.num >= 1
          <6>1. CASE f \in in0
            BY <1>2, <1>4, <6>1
          <6>2. CASE f.num >= nextFileNumber
            BY <5>1, <5>2, <6>2
          <6>. QED
            BY <4>2, <6>1, <6>2
        <5>. QED
          BY <5>1, <5>2, <5>3
      <4>. QED
        BY <2>2, <4>1, <4>2
    <3>. QED
      BY <3>1
  <2>5. \A l, m \in Level : \A f \in version[l], g \in version[m] : f.num = g.num => f = g /\ l = m
    <3>1. ASSUME NEW l \in Level, NEW m \in Level, NEW f \in version[l], NEW g \in version[m],
                 f.num = g.num, f \in files[l], l = level => f \notin in0
          PROVE  f = g /\ l = m
      <4>1. CASE g \in files[m]
        BY <1>1, <3>1, <4>1 DEF FilesInv
      <4>2. CASE m = level + 1 /\ g \in added
        <5>1. nextFileNumber \in Nat /\ f.num < nextFileNumber /\ f.num \in Nat
          BY <1>1, <1>4, <3>1 DEF FilesInv
        <5>2. g \in in0
          BY <3>1, <4>2, <5>1
        <5>3. f = g /\ l = level
          BY <1>1, <1>2, <3>1, <5>2 DEF FilesInv
        <5>. QED
          BY <3>1, <5>2, <5>3
      <4>. QED
        BY <2>2, <4>1, <4>2
    <3>2. ASSUME NEW l \in Level, NEW m \in Level, NEW f \in version[l], NEW g \in version[m],
                 f.num = g.num
          PROVE  f = g /\ l = m
      <4>1. CASE f \in files[l] /\ (l = level => f \notin in0)
        BY <3>1, <3>2, <4>1
      <4>2. CASE g \in files[m] /\ (m = level => g \notin in0)
        <5>1. g = f /\ m = l
          BY <3>1, <3>2, <4>2
        <5>. QED
          BY <5>1
      <4>3. CASE f \in added /\ g \in added /\ l = level + 1 /\ m = level + 1
        BY <3>2, <4>3
      <4>. QED
        BY <2>2, <4>1, <4>2, <4>3
    <3>. QED
      BY <3>2
  <2>6. FilesInv'
    <3>1. nextFileNumber' \in Nat \ {0}
      BY <1>1 DEF FilesInv
    <3>. QED
      BY <1>3, <1>6, <2>1, <2>3, <2>4, <2>5, <3>1 DEF FilesInv
  <2>7. Entries(deleted) \subseteq Entries(in0) \cup Entries(in1)
    BY DEF Entries
  <2>8. Entries(in0) \subseteq Entries(files[level])
        /\ Entries(in1) \subseteq Entries(files[level + 1])
    BY DEF Entries
  <2>9. \A l \in Level : \A e \in Entries(version[l]) :
          \/ /\ e \in Entries(files[l])
             /\ l = level => \E f \in files[level] \ in0 : e \in f.entries
          \/ l = level + 1 /\ e \in Entries(in0)
    <3>1. ASSUME NEW l \in Level, NEW e \in Entries(version[l])
          PROVE  \/ /\ e \in Entries(files[l])
                    /\ l = level => \E f \in files[level] \ in0 : e \in f.entries
                 \/ l = level + 1 /\ e \in Entries(in0)
      <4>1. PICK f \in version[l] : e \in f.entries
        BY EntriesOf, <3>1
      <4>2. CASE f \in files[l] /\ (l = level => f \notin in0)
        BY EntriesOf, <4>1, <4>2
      <4>3. CASE l = level + 1 /\ f \in added
        BY <1>2, <2>7, <2>8, <4>1, <4>3
      <4>. QED
        BY <2>2, <4>2, <4>3
    <3>. QED
      BY <3>1
  <2>10. Stored' \subseteq Stored
    <3>1. ASSUME NEW e \in Stored' PROVE e \in Stored
      <4>1. PICK l \in Level : e \in Entries(version[l])
        BY <1>6, <3>1 DEF Stored, AllFiles, Entries
      <4>2. e \in Entries(files[l]) \/ e \in Entries(files[level])
        BY <2>8, <2>9, <4>1
      <4>. QED
        BY <1>1, <1>2, <4>2, StoredBelow
    <3>. QED
      BY <3>1
  <2>11. version[0] \subseteq files[0]
    BY <1>2, <2>2
  <2>12. ASSUME NEW l \in Level, NEW m \in Level, l < m,
                NEW d \in Entries(version[l]), NEW e \in Entries(version[m]), d.k = e.k
         PROVE  d.s > e.s
    <3>1. \A p, q \in Level : p < q /\ d \in Entries(files[p]) /\ e \in Entries(files[q]) => d.s > e.s
      BY <1>1, <2>12 DEF NewerInv
    <3>2. CASE e \in Entries(files[m])
      <4>1. CASE d \in Entries(files[l])
        BY <2>12, <3>1, <3>2, <4>1
      <4>2. CASE l = level + 1 /\ d \in Entries(in0)
        <5>1. level < m
          BY <1>2, <2>12, <4>2
        <5>. QED
          BY <1>2, <2>8, <3>1, <3>2, <4>2, <5>1
      <4>. QED
        BY <2>9, <4>1, <4>2
    <3>3. CASE m = level + 1 /\ e \in Entries(in0)
      <4>1. l # level + 1 /\ l <= level
        BY <1>2, <2>12, <3>3
      <4>2. d \in Entries(files[l]) /\ (l = level => \E f \in files[level] \ in0 : d \in f.entries)
        BY <2>9, <4>1
      <4>3. CASE l = level
        <5>1. PICK f \in files[level] \ in0 : d \in f.entries
          BY <4>2, <4>3
        <5>2. PICK g \in in0 : e \in g.entries
          BY EntriesOf, <3>3
        <5>. QED
          BY <2>12, <5>1, <5>2 DEF StaysNewer
      <4>4. CASE l < level
        BY <1>2, <2>8, <3>1, <3>3, <4>2, <4>4
      <4>. QED
        BY <1>2, <4>1, <4>3, <4>4
    <3>. QED
      BY <2>9, <3>2, <3>3
  <2>13. NewerInv'
    <3>1. \A f, g \in version[0] : f.num > g.num => \A d \in f.entries, e \in g.entries : d.s > e.s
      BY <1>1, <2>11 DEF NewerInv
    <3>2. /\ \A d \in memtable', e \in immtable' \cup Stored' : d.s > e.s
          /\ \A d \in immtable', e \in Stored' : d.s > e.s
      BY <1>1, <2>10 DEF NewerInv
    <3>. QED
      BY <1>6, <2>12, <3>1, <3>2 DEF NewerInv
  <2>. QED
    BY <1>6, <2>6, <2>13 DEF LevelsInOrder
<1>. QED
  BY <1>5, <1>6 DEF LogAndApply

(* pickLevelForMemTableOutput: nothing above the level has keys in the     *)
(* range.                                                                  *)
LEMMA PickedLevel ==
  ASSUME NEW lo \in Keys, NEW hi \in Keys, NEW level,
         level = PickLevelForMemTableOutput(lo, hi)
  PROVE  level \in Level /\ \A l \in Level : l < level => ~OverlapInLevel(l, lo, hi)
<1>1. CASE OverlapInLevel(0, lo, hi)
  BY <1>1, Limits DEF PickLevelForMemTableOutput, Level
<1>2. CASE ~OverlapInLevel(0, lo, hi)
  <2>. DEFINE Fits(m) == /\ ~OverlapInLevel(m + 1, lo, hi)
                         /\ m + 2 < NumLevels =>
                              Total(GetOverlappingInputs(m + 2, lo, hi)) <= MaxGrandParentOverlap
              L == {l \in 0..MaxMemCompactLevel : \A m \in 0..(l - 1) : Fits(m)}
  <2>1. level = Max(L)
    BY <1>2 DEF PickLevelForMemTableOutput
  <2>2. L \subseteq Nat /\ L \subseteq Level /\ IsFiniteSet(0..MaxMemCompactLevel)
        /\ L \subseteq 0..MaxMemCompactLevel
    BY Limits, FS_Interval DEF Level
  <2>3. 0 \in L
    BY Limits
  <2>4. \A l \in L : \A m \in 0..(l - 1) : ~OverlapInLevel(m + 1, lo, hi)
    OBVIOUS
  <2>. HIDE DEF L
  <2>5. IsFiniteSet(L)
    BY <2>2, FS_Subset
  <2>6. level \in L
    BY <2>1, <2>2, <2>3, <2>5, MaxOfFinite
  <2>7. ASSUME NEW l \in Level, l < level PROVE ~OverlapInLevel(l, lo, hi)
    <3>1. CASE l = 0
      BY <1>2, <3>1
    <3>2. CASE l # 0
      <4>1. level \in Nat /\ l \in Nat
        BY <2>2, <2>6 DEF Level
      <4>2. l - 1 \in 0..(level - 1) /\ (l - 1) + 1 = l
        BY <2>7, <3>2, <4>1
      <4>. QED
        BY <2>4, <2>6, <4>2
    <3>. QED
      BY <3>1, <3>2
  <2>. QED
    BY <2>2, <2>6, <2>7
<1>. QED
  BY <1>1, <1>2

(* compactMemTable: the table of the memtable is newer than all others.    *)
LEMMA FlushKeeps ==
  ASSUME IInv, FlushMemtable
  PROVE  IInv'
<1>1. /\ WritesInv /\ FilesInv /\ NewerInv /\ LevelsInOrder(files)
      /\ CompactionInv /\ ManualInv /\ DriverInv
  BY DEF IInv
<1>. DEFINE lo == Smallest(immtable).k
            hi == Largest(immtable).k
            level == PickLevelForMemTableOutput(lo, hi)
            t == Table(nextFileNumber, immtable)
<1>2. /\ immtable # {} /\ stopped = "no"
      /\ LogAndApply(level, {}, level, {t})
      /\ nextFileNumber' = nextFileNumber + 1
      /\ immtable' = IF stopped' = "no" THEN {} ELSE immtable
      /\ UNCHANGED <<memtable, compactPointers, snapshots, compaction, manual,
                     maxFileSize, written, ranges>>
      /\ driver' = IF Idle' /\ ~NeedsCompaction' THEN "none" ELSE driver
  BY DEF FlushMemtable, Reschedule
<1>3. nextFileNumber \in Nat /\ immtable \subseteq written /\ 0 \in Level
      /\ \A l \in Level : l \in Int /\ l >= 0
  BY <1>1, Limits DEF FilesInv, WritesInv, Level
<1>4. /\ IsFile(t) /\ t.num = nextFileNumber /\ t.entries = immtable
      /\ t.smallest.k = lo /\ t.largest.k = hi
  BY <1>1, <1>2, <1>3, TableIsFile
<1>5. lo \in Keys /\ hi \in Keys
  <2>1. PICK e \in t.entries : TRUE
    BY <1>2, <1>4
  <2>. QED
    BY <1>1, <1>4, <2>1, KeyInFile
<1>. HIDE DEF lo, hi
<1>6. level \in Level /\ \A l \in Level : l < level => ~OverlapInLevel(l, lo, hi)
  BY <1>5, PickedLevel
<1>. DEFINE kept == [l \in Level |-> IF l \in {level, level + 1} THEN files[l] \ {} ELSE files[l]]
            version == [kept EXCEPT ![level] = @ \cup {t}]
<1>7. \/ files' = version /\ LevelsInOrder(version) /\ stopped' = stopped
      \/ files' = files /\ stopped' = "overlap"
  BY <1>2 DEF LogAndApply
<1>8. /\ DOMAIN version = Level /\ version[level] = files[level] \cup {t}
      /\ \A l \in Level : l # level => version[l] = files[l]
  BY <1>6
<1>. HIDE DEF level, t, kept, version
<1>9. \A f : IsFile(f) => IsFile(f)'
  BY <1>2 DEF IsFile
<1>10. \A l \in Level : \A f \in files[l] :
         IsFile(f) /\ f.num \in Nat /\ 1 <= f.num /\ f.num < nextFileNumber
  BY <1>1, <1>3 DEF FilesInv
<1>11. WritesInv'
  BY <1>1, <1>2 DEF WritesInv, lastSequence
<1>12. ManualInv'
  BY <1>1, <1>2 DEF ManualInv
<1>13. DriverInv'
  <2>1. driver # "none"
    BY <1>1, <1>2 DEF DriverInv, Idle
  <2>2. stopped' \in {"no", "overlap", "level"}
    BY <1>1, <1>7 DEF DriverInv
  <2>. QED
    BY <1>1, <1>2, <2>1, <2>2 DEF DriverInv
<1>14. CASE files' = files /\ stopped' = "overlap"
  <2>1. \A l \in Level : \A f \in files[l] : f.num \in 1..(nextFileNumber' - 1)
    BY <1>2, <1>3, <1>10
  <2>2. nextFileNumber' \in Nat \ {0}
    BY <1>2, <1>3
  <2>3. FilesInv'
    BY <1>1, <1>9, <1>14, <2>1, <2>2 DEF FilesInv
  <2>4. NewerInv'
    BY <1>1, <1>2, <1>14 DEF NewerInv, Stored, AllFiles
  <2>5. CompactionInv'
    BY <1>1, <1>2, <1>14 DEF CompactionInv, StaysNewer
  <2>6. LevelsInOrder(files)'
    BY <1>1, <1>14 DEF LevelsInOrder
  <2>. QED
    BY <1>11, <1>12, <1>13, <2>3, <2>4, <2>5, <2>6 DEF IInv
<1>15. CASE files' = version /\ LevelsInOrder(version) /\ stopped' = stopped
  <2>1. \A l \in Level : \A f \in version[l] : f \in files[l] \/ (l = level /\ f = t)
    <3>1. ASSUME NEW l \in Level, NEW f \in version[l]
          PROVE  f \in files[l] \/ (l = level /\ f = t)
      <4>1. CASE l = level
        BY <1>8, <4>1
      <4>2. CASE l # level
        BY <1>8, <4>2
      <4>. QED
        BY <4>1, <4>2
    <3>. QED
      BY <3>1
  <2>2. \A l \in Level : IsFiniteSet(version[l])
    BY <1>1, <1>8, FS_AddElement DEF FilesInv
  <2>3. \A l \in Level : \A f \in version[l] : IsFile(f) /\ f.num \in 1..(nextFileNumber' - 1)
    <3>1. \A l \in Level : \A f \in files[l] : f.num \in 1..(nextFileNumber' - 1)
      BY <1>2, <1>3, <1>10
    <3>2. t.num \in 1..(nextFileNumber' - 1)
      <4>1. nextFileNumber >= 1
        BY <1>1, <1>3 DEF FilesInv
      <4>. QED
        BY <1>2, <1>3, <1>4, <4>1
    <3>. QED
      BY <1>4, <1>10, <2>1, <3>1, <3>2
  <2>4. \A l, m \in Level : \A f \in version[l], g \in version[m] : f.num = g.num => f = g /\ l = m
    <3>1. \A l \in Level : \A f \in files[l] : f.num # t.num
      BY <1>3, <1>4, <1>10
    <3>. QED
      BY <1>1, <2>1, <3>1 DEF FilesInv
  <2>5. FilesInv'
    <3>1. nextFileNumber' \in Nat \ {0}
      BY <1>2, <1>3
    <3>. QED
      BY <1>8, <1>9, <1>15, <2>2, <2>3, <2>4, <3>1 DEF FilesInv
  <2>6. \A l \in Level : \A e \in Entries(version[l]) :
          e \in Entries(files[l]) \/ (l = level /\ e \in immtable)
    BY <1>4, <2>1 DEF Entries
  <2>7. Stored' \subseteq Stored \cup immtable
    <3>1. ASSUME NEW e \in Stored' PROVE e \in Stored \cup immtable
      <4>1. PICK l \in Level : e \in Entries(version[l])
        BY <1>15, <3>1 DEF Stored, AllFiles, Entries
      <4>. QED
        BY <1>1, <2>6, <4>1, StoredBelow
    <3>. QED
      BY <3>1
  <2>8. \A d \in immtable, l \in Level : \A e \in Entries(files[l]) : d.s > e.s
    BY <1>1, StoredBelow DEF NewerInv
  <2>9. ASSUME NEW l \in Level, NEW m \in Level, l < m,
               NEW d \in Entries(version[l]), NEW e \in Entries(version[m]), d.k = e.k
        PROVE  d.s > e.s
    <3>1. CASE d \in Entries(files[l]) /\ e \in Entries(files[m])
      BY <1>1, <2>9, <3>1 DEF NewerInv
    <3>2. CASE d \in immtable /\ l = level
      <4>1. m # level
        BY <1>3, <2>9, <3>2
      <4>. QED
        BY <2>6, <2>8, <3>2, <4>1
    <3>3. CASE m = level /\ e \in immtable /\ d \in Entries(files[l])
      <4>1. PICK f \in files[l] : d \in f.entries
        BY EntriesOf, <3>3
      <4>2. /\ f.smallest.k <= d.k /\ d.k <= f.largest.k
            /\ f.smallest.k \in Keys /\ f.largest.k \in Keys
        BY <1>1, <1>10, <4>1, KeyInFile
      <4>3. lo <= e.k /\ e.k <= hi
        BY <1>1, <1>4, <3>3, KeyInFile
      <4>4. Overlaps(f, lo, hi)
        <5>1. /\ d.k \in Int /\ lo \in Int /\ hi \in Int
              /\ f.smallest.k \in Int /\ f.largest.k \in Int
          BY <1>1, <1>3, <1>5, <2>9, <3>3, <4>2, WrittenFields DEF Keys
        <5>. QED
          BY <2>9, <4>2, <4>3, <5>1 DEF Overlaps
      <4>5. OverlapInLevel(l, lo, hi)
        BY <4>4 DEF OverlapInLevel
      <4>. QED
        BY <1>6, <2>9, <3>3, <4>5
    <3>. QED
      BY <2>6, <3>1, <3>2, <3>3
  <2>10. NewerInv'
    <3>1. \A f, g \in version[0] : f.num > g.num => \A d \in f.entries, e \in g.entries : d.s > e.s
      <4>1. ASSUME NEW f \in version[0], NEW g \in version[0], f.num > g.num
            PROVE  \A d \in f.entries, e \in g.entries : d.s > e.s
        <5>1. CASE f \in files[0] /\ g \in files[0]
          BY <1>1, <4>1, <5>1 DEF NewerInv
        <5>2. CASE f = t /\ g \in files[0]
          BY <1>3, <1>4, <2>8, <5>2, EntriesOf
        <5>3. CASE g = t
          <6>1. f \in files[0] => f.num < t.num /\ f.num \in Int
            BY <1>3, <1>4, <1>10
          <6>2. t.num \in Int
            BY <1>3, <1>4
          <6>3. f = t \/ f \in files[0]
            BY <1>3, <2>1
          <6>. QED
            BY <4>1, <5>3, <6>1, <6>2, <6>3
        <5>. QED
          BY <1>3, <2>1, <5>1, <5>2, <5>3
      <4>. QED
        BY <4>1
    <3>2. immtable' = {} /\ memtable' = memtable
      BY <1>2, <1>15
    <3>3. \A d \in memtable', e \in immtable' \cup Stored' : d.s > e.s
      BY <1>1, <2>7, <3>2 DEF NewerInv
    <3>. QED
      BY <1>15, <2>9, <3>1, <3>2, <3>3 DEF NewerInv
  <2>11. CompactionInv'
    <3>. SUFFICES ASSUME compaction # NoCompaction PROVE CompactionInv'
      BY <1>2 DEF CompactionInv
    <3>. DEFINE c == compaction
    <3>1. /\ c.level \in 0..(NumLevels - 3)
          /\ c.inputs[1] # {} /\ c.inputs[1] \subseteq files[c.level]
          /\ c.inputs[2] \subseteq files[c.level + 1]
          /\ StaysNewer(c.level, c.inputs[1])
          /\ c.manual => manual # NoManual
      BY <1>1 DEF CompactionInv
    <3>. HIDE DEF c
    <3>2. c.level \in Level /\ c.level + 1 \in Level
      BY <3>1, Limits DEF Level
    <3>3. files[c.level] \subseteq files'[c.level] /\ files[c.level + 1] \subseteq files'[c.level + 1]
      BY <1>8, <1>15, <3>2
    <3>4. ASSUME NEW f \in files'[c.level] \ c.inputs[1], NEW g \in c.inputs[1],
                 NEW d \in f.entries, NEW e \in g.entries, d.k = e.k
          PROVE  d.s > e.s
      <4>1. CASE f \in files[c.level]
        BY <3>1, <3>4, <4>1 DEF StaysNewer
      <4>2. CASE f = t
        BY <1>4, <2>8, <3>1, <3>2, <3>4, <4>2, EntriesOf
      <4>. QED
        BY <1>15, <2>1, <3>2, <4>1, <4>2
    <3>5. StaysNewer(c.level, c.inputs[1])'
      BY <1>2, <3>4 DEF StaysNewer, c
    <3>. QED
      BY <1>2, <3>1, <3>3, <3>5 DEF CompactionInv, c
  <2>. QED
    BY <1>11, <1>12, <1>13, <1>15, <2>5, <2>10, <2>11 DEF IInv, LevelsInOrder
<1>. QED
  BY <1>7, <1>14, <1>15

(* The inputs of a new compaction are its level's and the next one's.      *)
LEMMA CompactionIsSound ==
  ASSUME Sane, NEW level \in 0..(NumLevels - 2), NEW F, Solid(level, F), F # {},
         NEW b \in BOOLEAN, NEW c, c = Compaction(level, F, b)
  PROVE  /\ c.level = level /\ c.manual = b
         /\ c.inputs[1] # {} /\ c.inputs[1] \subseteq files[level]
         /\ c.inputs[2] \subseteq files[level + 1] /\ StaysNewer(level, c.inputs[1])
<1>1. c.level = level /\ c.manual = b /\ c.inputs = SetupOtherInputs(level, F)
  BY DEF Compaction
<1>. QED
  BY <1>1, InputsAreSound

(* pickCompaction, with the trivial move.                                  *)
LEMMA PickCompactionKeeps ==
  ASSUME IInv, PickCompaction
  PROVE  IInv'
<1>1. /\ WritesInv /\ FilesInv /\ NewerInv /\ LevelsInOrder(files)
      /\ CompactionInv /\ ManualInv /\ DriverInv /\ Sane
  BY DEF IInv, Sane
<1>. DEFINE level == CompactionLevel
            F == IF level = 0 THEN Spanned(0, {Picked(0)}) ELSE {Picked(level)}
            c == Compaction(level, F, FALSE)
<1>2. /\ Idle /\ NeedsCompaction
      /\ UNCHANGED <<memtable, immtable, nextFileNumber, snapshots, manual,
                     maxFileSize, written, ranges>>
      /\ driver' = IF Idle' /\ ~NeedsCompaction' THEN "none" ELSE driver
  BY DEF PickCompaction, Reschedule
<1>3. \/ stopped' = "level" /\ files' = files /\ compaction' = compaction
      \/ /\ ~(level + 2 >= NumLevels)
         /\ \/ /\ IsTrivialMove(c)
               /\ LogAndApply(level, c.inputs[1], level + 1, c.inputs[1])
               /\ compaction' = compaction
            \/ compaction' = c /\ files' = files /\ stopped' = stopped
  BY DEF PickCompaction
<1>4. level \in Level /\ Solid(level, F) /\ F # {}
  BY <1>1, <1>2, PickedInputs
<1>. HIDE DEF level, F
<1>5. ~(level + 2 >= NumLevels) =>
        /\ level \in 0..(NumLevels - 3) /\ level \in 0..(NumLevels - 2)
        /\ level + 1 \in Level /\ level \in Int
  BY <1>4, Limits DEF Level
<1>6. ~(level + 2 >= NumLevels) =>
        /\ c.level = level /\ c.manual = FALSE
        /\ c.inputs[1] # {} /\ c.inputs[1] \subseteq files[level]
        /\ c.inputs[2] \subseteq files[level + 1] /\ StaysNewer(level, c.inputs[1])
  BY <1>1, <1>4, <1>5, CompactionIsSound
<1>. HIDE DEF c
<1>7. compaction = NoCompaction /\ driver # "none" /\ stopped = "no" /\ immtable = {}
  BY <1>1, <1>2 DEF DriverInv, Idle
<1>8. WritesInv'
  BY <1>1, <1>2 DEF WritesInv, lastSequence
<1>9. ManualInv'
  BY <1>1, <1>2 DEF ManualInv
<1>10. DriverInv'
  <2>1. stopped' \in {"no", "overlap", "level"}
    BY <1>3, <1>7 DEF LogAndApply
  <2>. QED
    BY <1>1, <1>2, <1>7, <2>1 DEF DriverInv
<1>11. ASSUME files' = files PROVE FilesInv' /\ NewerInv' /\ LevelsInOrder(files)'
  <2>1. FilesInv' /\ LevelsInOrder(files)' /\ Stored' = Stored
    BY <1>1, <1>2, <1>11, FilesKept
  <2>. QED
    BY <1>1, <1>2, <1>11, <2>1 DEF NewerInv
<1>12. CASE stopped' = "level" /\ files' = files /\ compaction' = compaction
  <2>1. CompactionInv'
    BY <1>7, <1>12 DEF CompactionInv
  <2>. QED
    BY <1>8, <1>9, <1>10, <1>11, <1>12, <2>1 DEF IInv
<1>13. CASE ~(level + 2 >= NumLevels) /\ compaction' = c /\ files' = files /\ stopped' = stopped
  <2>1. CompactionInv'
    BY <1>5, <1>6, <1>13 DEF CompactionInv, StaysNewer
  <2>. QED
    BY <1>8, <1>9, <1>10, <1>11, <1>13, <2>1 DEF IInv
<1>14. CASE /\ ~(level + 2 >= NumLevels)
            /\ IsTrivialMove(c)
            /\ LogAndApply(level, c.inputs[1], level + 1, c.inputs[1])
            /\ compaction' = compaction
  <2>1. CompactionInv'
    BY <1>7, <1>14 DEF CompactionInv
  <2>. DEFINE in == c.inputs[1]
              none == {}
  <2>2. IsFiniteSet(in)
    BY <1>1, <1>4, <1>6, <1>14, FS_Subset DEF FilesInv
  <2>3. in = in \cup none /\ none \subseteq files[level + 1]
    OBVIOUS
  <2>4. nextFileNumber' \in Nat /\ nextFileNumber' >= nextFileNumber
    BY <1>1, <1>2 DEF FilesInv
  <2>5. \A f \in in : /\ IsFile(f) /\ f.entries \subseteq Entries(in)
                      /\ f \in in \/ f.num >= nextFileNumber
                      /\ f.num < nextFileNumber'
    <3>1. \A f \in in : IsFile(f) /\ f.num \in 1..(nextFileNumber - 1) /\ nextFileNumber \in Nat
      BY <1>1, <1>4, <1>6, <1>14 DEF FilesInv
    <3>. QED
      BY <1>2, <3>1, EntriesOf
  <2>6. \A f, g \in in : f.num = g.num => f = g
    BY <1>1, <1>4, <1>6, <1>14 DEF FilesInv
  <2>7. StaysNewer(level, in) /\ in \subseteq files[level]
    BY <1>6, <1>14
  <2>8. LogAndApply(level, in, level + 1, in)
    BY <1>14
  <2>. HIDE DEF in, none
  <2>9. FilesInv' /\ NewerInv' /\ LevelsInOrder(files)'
    BY <1>1, <1>2, <1>5, <1>14, <2>2, <2>3, <2>4, <2>5, <2>6, <2>7, <2>8,
       InstallKeeps
  <2>. QED
    BY <1>8, <1>9, <1>10, <2>1, <2>9 DEF IInv
<1>. QED
  BY <1>3, <1>12, <1>13, <1>14

(* A round of compactRange.                                                *)
LEMMA ManualCompactionKeeps ==
  ASSUME IInv, ManualCompaction
  PROVE  IInv'
<1>1. /\ WritesInv /\ FilesInv /\ NewerInv /\ LevelsInOrder(files)
      /\ CompactionInv /\ ManualInv /\ DriverInv /\ Sane
  BY DEF IInv, Sane
<1>. DEFINE level == manual.level
            F == ManualFiles(level, manual.begin, manual.end)
            c == Compaction(level, F, TRUE)
<1>2. /\ manual # NoManual /\ driver = "none"
      /\ UNCHANGED <<memtable, immtable, files, nextFileNumber, snapshots,
                     maxFileSize, written, ranges>>
  BY DEF ManualCompaction
<1>3. \/ /\ F = {} /\ manual' = NextLevel
         /\ UNCHANGED <<compaction, stopped, driver>>
      \/ /\ F # {} /\ driver' = "compactRange" /\ manual' = manual
         /\ \/ stopped' = "level" /\ compaction' = compaction
            \/ ~(level + 2 >= NumLevels) /\ compaction' = c /\ stopped' = stopped
  BY DEF ManualCompaction
<1>4. /\ level \in 0..(NumLevels - 2) /\ level \in Level
      /\ manual.begin \in Keys /\ manual.end \in Keys
  BY <1>1, <1>2, Limits DEF ManualInv, Level
<1>5. maxFileSize \in Nat
  BY <1>1, Limits DEF DriverInv
<1>6. Solid(level, F)
  BY <1>1, <1>4, <1>5, ManualInputs
<1>. HIDE DEF level, F
<1>7. F # {} =>
        /\ c.level = level /\ c.manual = TRUE
        /\ c.inputs[1] # {} /\ c.inputs[1] \subseteq files[level]
        /\ c.inputs[2] \subseteq files[level + 1] /\ StaysNewer(level, c.inputs[1])
  BY <1>1, <1>4, <1>6, CompactionIsSound
<1>. HIDE DEF c
<1>8. Idle /\ compaction = NoCompaction /\ stopped = "no" /\ immtable = {} /\ ~NeedsCompaction
  BY <1>1, <1>2 DEF DriverInv, Idle
<1>9. WritesInv'
  BY <1>1, <1>2 DEF WritesInv, lastSequence
<1>10. FilesInv' /\ LevelsInOrder(files)' /\ (NeedsCompaction' <=> NeedsCompaction) /\ Stored' = Stored
  BY <1>1, <1>2, FilesKept
<1>11. NewerInv'
  BY <1>1, <1>2, <1>10 DEF NewerInv
<1>12. CASE F = {} /\ manual' = NextLevel /\ UNCHANGED <<compaction, stopped, driver>>
  <2>1. CompactionInv'
    BY <1>8, <1>12 DEF CompactionInv
  <2>2. DriverInv'
    BY <1>1, <1>2, <1>10, <1>12 DEF DriverInv, Idle
  <2>3. ManualInv'
    <3>1. CASE manual.level < manual.last
      <4>1. manual' = [manual EXCEPT !.level = @ + 1, !.begin = manual.start]
        BY <1>12, <3>1 DEF NextLevel
      <4>2. /\ manual \in [level : 0..(NumLevels - 2), last : 0..(NumLevels - 2),
                           begin : Keys, start : Keys, end : Keys]
        BY <1>1, <1>2 DEF ManualInv
      <4>3. manual.level + 1 \in 0..(NumLevels - 2) /\ manual.level + 1 <= manual.last
        BY <3>1, <4>2, Limits
      <4>. QED
        BY <4>1, <4>2, <4>3 DEF ManualInv
    <3>2. CASE ~(manual.level < manual.last)
      BY <1>12, <3>2 DEF NextLevel, ManualInv
    <3>. QED
      BY <3>1, <3>2
  <2>. QED
    BY <1>9, <1>10, <1>11, <2>1, <2>2, <2>3 DEF IInv
<1>13. CASE F # {} /\ driver' = "compactRange" /\ manual' = manual
            /\ stopped' = "level" /\ compaction' = compaction
  <2>1. CompactionInv' /\ ManualInv'
    BY <1>1, <1>8, <1>13 DEF CompactionInv, ManualInv
  <2>2. DriverInv'
    BY <1>1, <1>2, <1>13 DEF DriverInv, Idle
  <2>. QED
    BY <1>9, <1>10, <1>11, <2>1, <2>2 DEF IInv
<1>14. CASE F # {} /\ driver' = "compactRange" /\ manual' = manual
            /\ ~(level + 2 >= NumLevels) /\ compaction' = c /\ stopped' = stopped
  <2>1. level \in 0..(NumLevels - 3)
    BY <1>4, <1>14, Limits
  <2>2. CompactionInv'
    BY <1>2, <1>7, <1>14, <2>1 DEF CompactionInv, StaysNewer
  <2>3. ManualInv'
    BY <1>1, <1>14 DEF ManualInv
  <2>4. DriverInv'
    <3>1. level # -1 /\ NoCompaction.level = -1
      BY <2>1 DEF NoCompaction
    <3>2. ~Idle'
      BY <1>7, <1>14, <3>1 DEF Idle
    <3>. QED
      BY <1>1, <1>2, <1>14, <3>2 DEF DriverInv
  <2>. QED
    BY <1>9, <1>10, <1>11, <2>2, <2>3, <2>4 DEF IInv
<1>. QED
  BY <1>3, <1>12, <1>13, <1>14

(* The end of a compaction: its tables hold entries of its inputs, in      *)
(* files with fresh numbers.                                               *)
LEMMA FinishCompactionKeeps ==
  ASSUME IInv, FinishCompaction
  PROVE  IInv'
<1>1. /\ WritesInv /\ FilesInv /\ NewerInv /\ LevelsInOrder(files)
      /\ CompactionInv /\ ManualInv /\ DriverInv /\ Sane
  BY DEF IInv, Sane
<1>. DEFINE c == compaction
<1>2. PICK tables \in {Outputs(c)} :
        /\ LogAndApply(c.level, Inputs(c), c.level + 1, tables)
        /\ nextFileNumber' = nextFileNumber + Cardinality(tables)
  BY DEF FinishCompaction
<1>3. /\ c # NoCompaction /\ stopped = "no" /\ compaction' = NoCompaction
      /\ manual' = IF c.manual THEN [manual EXCEPT !.begin = LastFile(c.inputs[1]).largest.k]
                   ELSE manual
      /\ UNCHANGED <<memtable, immtable, compactPointers, snapshots, maxFileSize,
                     written, ranges>>
      /\ driver' = IF Idle' /\ ~NeedsCompaction' THEN "none" ELSE driver
  BY DEF FinishCompaction, Reschedule, LastFile
<1>4. /\ c.level \in 0..(NumLevels - 3)
      /\ c.inputs[1] # {} /\ c.inputs[1] \subseteq files[c.level]
      /\ c.inputs[2] \subseteq files[c.level + 1]
      /\ StaysNewer(c.level, c.inputs[1])
      /\ c.manual => manual # NoManual
  BY <1>1, <1>3 DEF CompactionInv
<1>. HIDE DEF c
<1>5. /\ c.level \in Level /\ c.level + 1 \in Level /\ c.level \in 0..(NumLevels - 2)
  BY <1>4, Limits DEF Level
<1>6. Inputs(c) \subseteq AllFiles /\ c.inputs[1] \subseteq AllFiles
      /\ Inputs(c) = c.inputs[1] \cup c.inputs[2]
  BY <1>4, <1>5 DEF Inputs, AllFiles
<1>7. /\ Cardinality(tables) \in Nat /\ IsFiniteSet(tables)
      /\ \A f \in tables : /\ IsFile(f) /\ f.entries \subseteq Entries(Inputs(c))
                           /\ f.num >= nextFileNumber
                           /\ f.num < nextFileNumber + Cardinality(tables)
      /\ \A f, g \in tables : f.num = g.num => f = g
  BY <1>1, <1>2, <1>6, OutputsAreFiles
<1>8. FilesInv' /\ NewerInv' /\ LevelsInOrder(files)'
  <2>1. nextFileNumber' \in Nat /\ nextFileNumber' >= nextFileNumber
    BY <1>1, <1>2, <1>7 DEF FilesInv
  <2>2. \A f \in tables : /\ IsFile(f) /\ f.entries \subseteq Entries(Inputs(c))
                          /\ f \in c.inputs[1] \/ f.num >= nextFileNumber
                          /\ f.num < nextFileNumber'
    BY <1>2, <1>7
  <2>. QED
    BY <1>1, <1>2, <1>3, <1>4, <1>5, <1>6, <1>7, <2>1, <2>2, InstallKeeps
<1>9. WritesInv'
  BY <1>1, <1>3 DEF WritesInv, lastSequence
<1>10. CompactionInv'
  BY <1>3 DEF CompactionInv
<1>11. ManualInv'
  <2>1. CASE c.manual
    <3>1. LastFile(c.inputs[1]) \in AllFiles
      BY <1>1, <1>4, <1>6, EndsOfGroup
    <3>2. LastFile(c.inputs[1]).largest \in written
      BY <1>1, <3>1, FilesAreFiles
    <3>3. LastFile(c.inputs[1]).largest.k \in Keys
      BY <1>1, <3>2, WrittenFields
    <3>. QED
      BY <1>1, <1>3, <1>4, <2>1, <3>3 DEF ManualInv
  <2>2. CASE ~c.manual
    BY <1>1, <1>3, <2>2 DEF ManualInv
  <2>. QED
    BY <2>1, <2>2
<1>12. DriverInv'
  <2>1. driver # "none"
    BY <1>1, <1>3 DEF DriverInv, Idle, c
  <2>2. stopped' \in {"no", "overlap", "level"}
    BY <1>2, <1>3 DEF LogAndApply
  <2>. QED
    BY <1>1, <1>3, <2>1, <2>2 DEF DriverInv
<1>. QED
  BY <1>8, <1>9, <1>10, <1>11, <1>12 DEF IInv

-----------------------------------------------------------------------------
(* The theorems.                                                           *)

(* The inductive invariant holds of every behaviour.                       *)
THEOREM Invariance == Spec => []IInv
<1>1. IInv /\ [Next]_vars => IInv'
  <2>. SUFFICES ASSUME IInv, [Next]_vars PROVE IInv'
    OBVIOUS
  <2>1. CASE UNCHANGED vars
    <3>1. snapshots' \in Seq(0..lastSequence)
      BY <2>1 DEF vars, IInv, WritesInv
    <3>. QED
      BY <2>1, <3>1, SnapshotsOnly DEF vars
  <2>2. ASSUME NEW k \in Keys, NEW del \in BOOLEAN, Write(k, del) PROVE IInv'
    BY <2>2, WriteKeeps
  <2>3. CASE SwitchMemtable
    BY <2>3, SwitchKeeps
  <2>4. CASE GetSnapshot \/ \E i \in 1..Len(snapshots) : ReleaseSnapshot(i)
    BY <2>4, SnapshotsKeep
  <2>5. ASSUME NEW lo \in Keys, NEW hi \in Keys, CompactRange(lo, hi) PROVE IInv'
    BY <2>5, CompactRangeKeeps
  <2>6. CASE Background
    BY <2>6, FlushKeeps, PickCompactionKeeps, ManualCompactionKeeps,
       FinishCompactionKeeps DEF Background
  <2>. QED
    BY <2>1, <2>2, <2>3, <2>4, <2>5, <2>6 DEF Next
<1>. QED
  BY <1>1, InitIInv, PTL DEF Spec

(* A file number is given once, whatever is flushed, moved and compacted,  *)
(* and a chain of background work runs exactly while there is some to do.  *)
THEOREM TypeCorrect == Spec => []TypeOK
<1>1. IInv => TypeOK
  <2>. SUFFICES ASSUME IInv PROVE TypeOK
    OBVIOUS
  <2>1. /\ WritesInv /\ FilesInv /\ CompactionInv /\ ManualInv /\ DriverInv
    BY DEF IInv
  <2>2. \A l \in Level : \A f \in files[l] :
          f.num \in 1..(nextFileNumber - 1) /\ f.entries \subseteq written /\ f.entries # {}
    BY <2>1 DEF FilesInv, IsFile
  <2>3. compaction.level \in -1..(NumLevels - 3)
    <3>1. CASE compaction = NoCompaction
      BY <3>1, Limits DEF NoCompaction
    <3>2. CASE compaction # NoCompaction
      BY <2>1, <3>2, Limits DEF CompactionInv
    <3>. QED
      BY <3>1, <3>2
  <2>4. manual.level \in -1..(NumLevels - 2) /\ manual.last \in -1..(NumLevels - 2)
    <3>1. CASE manual = NoManual
      BY <3>1, Limits DEF NoManual
    <3>2. CASE manual # NoManual
      BY <2>1, <3>2, Limits DEF ManualInv
    <3>. QED
      BY <3>1, <3>2
  <2>. QED
    BY <2>1, <2>2, <2>3, <2>4 DEF TypeOK, WritesInv, FilesInv, DriverInv
<1>. QED
  BY <1>1, Invariance, PTL

(* The search of level 0 takes its files from the newest to the oldest.    *)
LEMMA NewestFileFirst ==
  ASSUME Sane
  PROVE  /\ Cardinality(files[0]) \in Nat
         /\ Level0Search \in Seq(SUBSET written) /\ Len(Level0Search) = Cardinality(files[0])
         /\ \A i \in 1..Cardinality(files[0]) : Level0Search[i] \subseteq Entries(files[0])
         /\ \A i, j \in 1..Cardinality(files[0]) : i < j =>
              \A d \in Level0Search[i], e \in Level0Search[j] : d.s > e.s
         /\ \A f \in files[0] : \E i \in 1..Cardinality(files[0]) : Level0Search[i] = f.entries
<1>. DEFINE n == Cardinality(files[0])
            R == [g \in files[0] |-> {f \in files[0] : f.num < g.num}]
            At(i) == CHOOSE f \in files[0] : Cardinality({g \in files[0] : g.num > f.num}) = i - 1
<1>1. /\ IsFiniteSet(files[0]) /\ FilesInv /\ NewerInv
      /\ \A f \in files[0] : f.num \in Nat /\ f.entries \subseteq written
      /\ \A f, g \in files[0] : f.num = g.num => f = g
  BY Limits DEF Sane, FilesInv, IsFile, Level
<1>2. n \in Nat
  BY <1>1, FS_CardinalityType
<1>3. \A f \in files[0] : {g \in files[0] : g.num > f.num} = Earlier(files[0], R, f)
  BY <1>1 DEF Earlier
<1>4. StrictOrder(files[0], R)
  <2>1. Order(files[0], R)
    BY <1>1 DEF Order
  <2>2. \A f, g \in files[0] : f = g \/ g \in R[f] \/ f \in R[g]
    BY <1>1
  <2>. QED
    BY <2>1, <2>2 DEF StrictOrder
<1>5. \A f, g \in files[0] : f.num > g.num <=> g \in R[f]
  BY <1>1
<1>. HIDE DEF R
<1>6. ASSUME NEW i \in 1..n
      PROVE  At(i) \in files[0] /\ Cardinality(Earlier(files[0], R, At(i))) = i - 1
  <2>1. \E f \in files[0] : Cardinality({g \in files[0] : g.num > f.num}) = i - 1
    BY <1>3, <1>4, EveryPlaceTaken
  <2>. QED
    BY <1>3, <2>1
<1>7. Level0Search = [i \in 1..n |-> At(i).entries]
  BY DEF Level0Search
<1>. HIDE DEF n, At
<1>8. Level0Search \in Seq(SUBSET written) /\ Len(Level0Search) = n
      /\ \A i \in 1..n : Level0Search[i] = At(i).entries
  BY <1>1, <1>2, <1>6, <1>7
<1>9. \A i \in 1..n : Level0Search[i] \subseteq Entries(files[0])
  BY <1>6, <1>8, EntriesOf
<1>10. ASSUME NEW i \in 1..n, NEW j \in 1..n, i < j,
              NEW d \in Level0Search[i], NEW e \in Level0Search[j]
       PROVE  d.s > e.s
  <2>1. At(i) \notin R[At(j)]
    <3>. SUFFICES ASSUME At(i) \in R[At(j)] PROVE FALSE
      OBVIOUS
    <3>1. Cardinality(Earlier(files[0], R, At(j))) < Cardinality(Earlier(files[0], R, At(i)))
      BY <1>4, <1>6, PlacesDiffer DEF StrictOrder
    <3>. QED
      BY <1>2, <1>6, <1>10, <3>1
  <2>2. At(i) # At(j)
    <3>1. i - 1 # j - 1
      BY <1>2, <1>10
    <3>. QED
      BY <1>6, <3>1
  <2>3. At(j) \in R[At(i)]
    BY <1>4, <1>6, <2>1, <2>2 DEF StrictOrder
  <2>4. At(i).num > At(j).num
    BY <1>5, <1>6, <2>3
  <2>. QED
    BY <1>1, <1>6, <1>8, <1>10, <2>4 DEF NewerInv
<1>11. ASSUME NEW f \in files[0] PROVE \E i \in 1..n : Level0Search[i] = f.entries
  <2>1. Cardinality(Earlier(files[0], R, f)) \in 0..(n - 1)
    BY <1>4, PlaceInRange DEF StrictOrder, n
  <2>2. PICK i \in 1..n : i - 1 = Cardinality(Earlier(files[0], R, f))
    <3>. DEFINE i == Cardinality(Earlier(files[0], R, f)) + 1
    <3>1. i \in 1..n /\ i - 1 = Cardinality(Earlier(files[0], R, f))
      BY <1>2, <2>1
    <3>. QED
      BY <3>1
  <2>3. f \notin R[At(i)] /\ At(i) \notin R[f]
    <3>1. ~(i - 1 < i - 1)
      BY <1>2
    <3>. QED
      BY <1>4, <1>6, <2>2, <3>1, PlacesDiffer DEF StrictOrder
  <2>4. At(i) = f
    BY <1>4, <1>6, <2>3 DEF StrictOrder
  <2>. QED
    BY <1>8, <2>4
<1>. QED
  BY <1>2, <1>8, <1>9, <1>10, <1>11 DEF n

(* Two elements, a sequence and another one, element by element.           *)
Joined(x, y, s, t) == <<x, y>> \o s \o t

LEMMA JoinedParts ==
  ASSUME NEW S, NEW x \in S, NEW y \in S, NEW s \in Seq(S), NEW t \in Seq(S),
         NEW n \in Nat, NEW d \in Nat, Len(s) = n, Len(t) = d
  PROVE  /\ DOMAIN Joined(x, y, s, t) = 1..(2 + n + d)
         /\ Joined(x, y, s, t)[1] = x /\ Joined(x, y, s, t)[2] = y
         /\ \A i \in 3..(2 + n) : Joined(x, y, s, t)[i] = s[i - 2]
         /\ \A i \in (3 + n)..(2 + n + d) : Joined(x, y, s, t)[i] = t[i - (2 + n)]
<1>. DEFINE top == <<x, y>>
            m == 2
            w == m + n
<1>1. top \in Seq(S) /\ Len(top) = m /\ m \in Nat /\ top[1] = x /\ top[2] = y
  OBVIOUS
<1>. HIDE DEF top, m
<1>2. /\ top \o s \in Seq(S) /\ Len(top \o s) = m + n
      /\ \A i \in 1..m : (top \o s)[i] = top[i]
      /\ \A i \in (m + 1)..(m + n) : (top \o s)[i] = s[i - m]
  <2>1. top \o s \in Seq(S) /\ Len(top \o s) = m + n
    BY <1>1, ConcatProperties
  <2>2. \A i \in 1..m : (top \o s)[i] = top[i]
    BY <1>1
  <2>3. \A i \in (m + 1)..(m + n) : (top \o s)[i] = s[i - m]
    BY <1>1
  <2>. QED
    BY <2>1, <2>2, <2>3
<1>. DEFINE u == top \o s
<1>3. w \in Nat /\ Len(u) = w /\ u \in Seq(S)
  BY <1>1, <1>2
<1>. HIDE DEF u, w
<1>4. /\ DOMAIN (u \o t) = 1..(w + d)
      /\ \A i \in 1..w : (u \o t)[i] = u[i]
      /\ \A i \in (w + 1)..(w + d) : (u \o t)[i] = t[i - w]
  BY <1>3
<1>. DEFINE v == u \o t
<1>5. m = 2 /\ w = 2 + n /\ w + 1 = 3 + n /\ w + d = 2 + n + d
  BY DEF m, w
<1>6. 1 \in 1..m /\ 2 \in 1..m /\ 1 \in 1..w /\ 2 \in 1..w
      /\ \A i \in 3..(2 + n) : i \in (m + 1)..(m + n) /\ i \in 1..w
  BY <1>5
<1>7. /\ \A i \in 1..m : u[i] = top[i]
      /\ \A i \in (m + 1)..(m + n) : u[i] = s[i - m]
  BY <1>2 DEF u
<1>8. /\ DOMAIN v = 1..(w + d)
      /\ \A i \in 1..w : v[i] = u[i]
      /\ \A i \in (w + 1)..(w + d) : v[i] = t[i - w]
  BY <1>4
<1>. HIDE DEF v
<1>9. v[1] = x /\ v[2] = y /\ DOMAIN v = 1..(2 + n + d)
  BY <1>1, <1>5, <1>6, <1>7, <1>8
<1>10. \A i \in 3..(2 + n) : v[i] = s[i - 2]
  BY <1>5, <1>6, <1>7, <1>8
<1>11. \A i \in (3 + n)..(2 + n + d) : v[i] = t[i - (2 + n)]
  BY <1>5, <1>8
<1>. QED
  BY <1>9, <1>10, <1>11 DEF v, u, top, Joined

(* A function on the numbers up to m is a sequence.                        *)
LEMMA LevelSequence ==
  ASSUME NEW S, NEW m \in Nat, NEW f \in [1..m -> S]
  PROVE  f \in Seq(S) /\ Len(f) = m
OBVIOUS

(* The places that get searches, with `deep` for the deeper levels.        *)
Places(deep) == Joined(memtable, immtable, Level0Search, deep)

LEMMA SearchPlaces ==
  ASSUME Sane, NEW deep \in Seq(SUBSET written), Len(deep) = NumLevels - 1
  PROVE  LET n == Cardinality(files[0])
             places == Places(deep)
         IN  /\ n \in Nat /\ DOMAIN places = 1..(1 + n + NumLevels)
             /\ places[1] = memtable /\ places[2] = immtable
             /\ \A i \in 3..(2 + n) : places[i] = Level0Search[i - 2] /\ i - 2 \in 1..n
             /\ \A i \in (3 + n)..(1 + n + NumLevels) :
                  places[i] = deep[i - (2 + n)] /\ i - (2 + n) \in 1..(NumLevels - 1)
<1>. DEFINE n == Cardinality(files[0])
            d == NumLevels - 1
            places == Places(deep)
<1>1. n \in Nat /\ Level0Search \in Seq(SUBSET written) /\ Len(Level0Search) = n
  BY NewestFileFirst
<1>2. memtable \in SUBSET written /\ immtable \in SUBSET written
  BY DEF Sane, WritesInv
<1>3. d \in Nat /\ Len(deep) = d /\ deep \in Seq(SUBSET written)
  BY Limits
<1>. HIDE DEF n, d
<1>4. /\ DOMAIN places = 1..(2 + n + d)
      /\ places[1] = memtable /\ places[2] = immtable
      /\ \A i \in 3..(2 + n) : places[i] = Level0Search[i - 2]
      /\ \A i \in (3 + n)..(2 + n + d) : places[i] = deep[i - (2 + n)]
  <2>. DEFINE S == SUBSET written
              s == Level0Search
              t == deep
              p == Joined(memtable, immtable, s, t)
  <2>1. places = p
    BY DEF Places
  <2>2. /\ memtable \in S /\ immtable \in S /\ s \in Seq(S) /\ t \in Seq(S)
        /\ n \in Nat /\ d \in Nat /\ Len(s) = n /\ Len(t) = d
    BY <1>1, <1>2, <1>3
  <2>. HIDE DEF S, s, t, places
  <2>3. DOMAIN p = 1..(2 + n + d) /\ p[1] = memtable /\ p[2] = immtable
    BY <2>2, JoinedParts
  <2>4. \A i \in 3..(2 + n) : p[i] = s[i - 2]
    BY <2>2, JoinedParts
  <2>5. \A i \in (3 + n)..(2 + n + d) : p[i] = t[i - (2 + n)]
    BY <2>2, JoinedParts
  <2>. QED
    BY <2>1, <2>3, <2>4, <2>5 DEF s, t
<1>. HIDE DEF places
<1>5. 2 + n + d = 1 + n + NumLevels
  BY <1>1, Limits DEF d
<1>6. \A i \in 3..(2 + n) : i - 2 \in 1..n
  BY <1>1
<1>7. \A i \in (3 + n)..(2 + n + d) : i - (2 + n) \in 1..d
  BY <1>1, <1>3
<1>. QED
  BY <1>1, <1>4, <1>5, <1>6, <1>7 DEF n, d, places

(* Of each user key, a place that get searches earlier holds newer entries *)
(* than one it searches later, whatever is written, flushed, moved and     *)
(* compacted, and between any two of these steps: get may stop at the      *)
(* first place where it finds one.                                         *)
THEOREM NewestFirst == Spec => []NewerAbove
<1>1. IInv => NewerAbove
  <2>. SUFFICES ASSUME IInv PROVE NewerAbove
    OBVIOUS
  <2>1. WritesInv /\ FilesInv /\ NewerInv /\ Sane
    BY DEF IInv, Sane
  <2>. DEFINE n == Cardinality(files[0])
              deep == [l \in 1..(NumLevels - 1) |-> Entries(files[l])]
              places == Places(deep)
  <2>2. /\ \A i \in 1..n : Level0Search[i] \subseteq Entries(files[0])
        /\ \A i, j \in 1..n : i < j => \A d \in Level0Search[i], e \in Level0Search[j] : d.s > e.s
    BY <2>1, NewestFileFirst
  <2>3. 0 \in Level /\ \A l \in 1..(NumLevels - 1) : l \in Level /\ 0 < l
    BY Limits DEF Level
  <2>4. deep \in Seq(SUBSET written) /\ Len(deep) = NumLevels - 1
    <3>1. deep \in [1..(NumLevels - 1) -> SUBSET written] /\ NumLevels - 1 \in Nat
      BY <2>1, <2>3, Limits DEF Entries, FilesInv, IsFile
    <3>. HIDE DEF deep
    <3>. QED
      BY <3>1, LevelSequence
  <2>5. \A l \in 1..(NumLevels - 1) : deep[l] = Entries(files[l])
    OBVIOUS
  <2>. HIDE DEF deep, n, places
  <2>6. /\ n \in Nat /\ DOMAIN places = 1..(1 + n + NumLevels)
        /\ places[1] = memtable /\ places[2] = immtable
        /\ \A i \in 3..(2 + n) : places[i] = Level0Search[i - 2] /\ i - 2 \in 1..n
        /\ \A i \in (3 + n)..(1 + n + NumLevels) :
             places[i] = deep[i - (2 + n)] /\ i - (2 + n) \in 1..(NumLevels - 1)
    BY <2>1, <2>4, SearchPlaces DEF n, places
  <2>7. \A i \in (3 + n)..(1 + n + NumLevels) :
          places[i] = Entries(files[i - (2 + n)]) /\ i - (2 + n) \in 1..(NumLevels - 1)
    BY <2>5, <2>6
  <2>8. /\ \A l \in Level : Entries(files[l]) \subseteq Stored
        /\ \A d \in memtable, e \in immtable \cup Stored : d.s > e.s
        /\ \A d \in immtable, e \in Stored : d.s > e.s
        /\ \A l, m \in Level : l < m =>
             \A d \in Entries(files[l]), e \in Entries(files[m]) : d.k = e.k => d.s > e.s
    BY <2>1, StoredBelow DEF NewerInv
  <2>9. ASSUME NEW i \in 3..(1 + n + NumLevels) PROVE places[i] \subseteq Stored
    <3>1. i \in 3..(2 + n) \/ i \in (3 + n)..(1 + n + NumLevels)
      BY <2>6, Limits
    <3>. QED
      BY <2>2, <2>3, <2>6, <2>7, <2>8, <3>1
  <2>10. ASSUME NEW i \in DOMAIN places, NEW j \in DOMAIN places, i < j,
                NEW d \in places[i], NEW e \in places[j], d.k = e.k
         PROVE  d.s > e.s
    <3>1. /\ i \in Nat /\ j \in Nat /\ 1 <= i /\ i < j /\ j <= 1 + n + NumLevels
          /\ n \in Nat /\ NumLevels \in Nat
      BY <2>6, <2>10, Limits
    <3>2. CASE i = 1
      <4>1. j = 2 \/ j \in 3..(1 + n + NumLevels)
        BY <3>1, <3>2
      <4>. QED
        BY <2>6, <2>8, <2>9, <2>10, <3>2, <4>1
    <3>3. CASE i = 2
      <4>1. j \in 3..(1 + n + NumLevels)
        BY <3>1, <3>3
      <4>. QED
        BY <2>6, <2>8, <2>9, <2>10, <3>3, <4>1
    <3>4. CASE i \in 3..(2 + n) /\ j \in 3..(2 + n)
      <4>1. i - 2 < j - 2
        BY <3>1
      <4>. QED
        BY <2>2, <2>6, <2>10, <3>4, <4>1
    <3>5. CASE i \in 3..(2 + n) /\ j \in (3 + n)..(1 + n + NumLevels)
      BY <2>2, <2>3, <2>6, <2>7, <2>8, <2>10, <3>5
    <3>6. CASE i \in (3 + n)..(1 + n + NumLevels) /\ j \in (3 + n)..(1 + n + NumLevels)
      <4>1. i - (2 + n) < j - (2 + n)
        BY <3>1
      <4>. QED
        BY <2>3, <2>7, <2>8, <2>10, <3>6, <4>1
    <3>7. i = 1 \/ i = 2 \/ i \in 3..(2 + n) \/ i \in (3 + n)..(1 + n + NumLevels)
      BY <3>1
    <3>8. i \in 3..(2 + n) => j \in 3..(2 + n) \/ j \in (3 + n)..(1 + n + NumLevels)
      BY <3>1
    <3>9. i \in (3 + n)..(1 + n + NumLevels) => j \in (3 + n)..(1 + n + NumLevels)
      BY <3>1
    <3>. QED
      BY <3>2, <3>3, <3>4, <3>5, <3>6, <3>7, <3>8, <3>9
  <2>. QED
    BY <2>10 DEF NewerAbove, places, deep, Places, Joined
<1>. QED
  BY <1>1, Invariance, PTL

-----------------------------------------------------------------------------
(* What a compaction does not drop is in its tables.                       *)

(* A sorted sequence has every element of the set.                         *)
LEMMA SortedHasAll ==
  ASSUME WritesInv, NEW E, E \subseteq written, NEW e \in E
  PROVE  \E i \in 1..Cardinality(E) : Sorted(E)[i] = e
<1>. DEFINE R == [a \in E |-> {b \in E : Before(a, b)}]
            i == Cardinality(Earlier(E, R, e)) + 1
<1>1. R \in [E -> SUBSET E] /\ IsFiniteSet(E)
  BY FS_Subset DEF WritesInv
<1>2. \A a, b \in E : b \in R[a] <=> Before(a, b)
  OBVIOUS
<1>. HIDE DEF R
<1>3. StrictOrder(E, R) /\ Order(E, R)
  BY <1>1, <1>2, BeforeStrict, BeforeTrans, BeforeTotal DEF StrictOrder, Order
<1>4. \A x \in E : Earlier(E, R, x) = {d \in E : Before(d, x)}
  BY <1>2 DEF Earlier
<1>5. Cardinality(Earlier(E, R, e)) \in 0..(Cardinality(E) - 1) /\ Cardinality(E) \in Nat
  BY <1>1, <1>3, PlaceInRange, FS_CardinalityType
<1>6. i \in 1..Cardinality(E) /\ i - 1 = Cardinality(Earlier(E, R, e))
  BY <1>5
<1>. HIDE DEF i
<1>7. \A x \in E : Cardinality(Earlier(E, R, x)) = i - 1 => x = e
  <2>. SUFFICES ASSUME NEW x \in E, Cardinality(Earlier(E, R, x)) = i - 1, x # e PROVE FALSE
    OBVIOUS
  <2>1. x \in R[e] \/ e \in R[x]
    BY <1>3 DEF StrictOrder
  <2>2. \/ Cardinality(Earlier(E, R, e)) < Cardinality(Earlier(E, R, x))
        \/ Cardinality(Earlier(E, R, x)) < Cardinality(Earlier(E, R, e))
    BY <1>3, <2>1, PlacesDiffer
  <2>. QED
    BY <1>5, <1>6, <2>2
<1>8. Sorted(E)[i] = CHOOSE x \in E : Cardinality({d \in E : Before(d, x)}) = i - 1
  BY <1>6 DEF Sorted
<1>9. (CHOOSE x \in E : Cardinality({d \in E : Before(d, x)}) = i - 1) = e
  BY <1>4, <1>6, <1>7
<1>. QED
  BY <1>6, <1>8, <1>9

LEMMA OutputsHold ==
  ASSUME Sane, NEW c, Inputs(c) \subseteq AllFiles, maxFileSize \in Nat \ {0},
         NEW e \in Entries(Inputs(c)), ~Drops(c, e)
  PROVE  \E f \in Outputs(c) : e \in f.entries
<1>. DEFINE in == InputEntries(c)
            kept == {i \in DOMAIN in : ~Drops(c, in[i])}
            stops == StopsBefore(c, in)
            open[i \in 0..Len(in)] ==
              IF i = 0 THEN 0
              ELSE ((IF i \in stops THEN 0 ELSE open[i - 1])
                    + (IF i \in kept THEN 1 ELSE 0)) % maxFileSize
            starts == {i \in kept : open[i] = 1 % maxFileSize}
            Run(i) == {in[j] : j \in {j \in kept : j >= i /\ ~\E n \in starts : i < n /\ n <= j}}
            num(i) == nextFileNumber + Cardinality({n \in starts : n < i})
            N == Cardinality(Entries(Inputs(c)))
<1>1. Outputs(c) = {Table(num(i), Run(i)) : i \in starts}
  BY DEF Outputs
<1>2. Entries(Inputs(c)) \subseteq written
  BY FilesAreFiles DEF Sane, Entries, IsFile
<1>3. N \in Nat /\ DOMAIN in = 1..N
  BY <1>2, SortedElements DEF InputEntries, Sane
<1>4. Len(in) = N
  BY <1>3
<1>5. PICK at \in kept : in[at] = e
  <2>1. PICK i \in 1..N : in[i] = e
    BY <1>2, SortedHasAll DEF InputEntries, Sane
  <2>. QED
    BY <1>3, <2>1
<1>6. kept \subseteq Nat /\ kept \subseteq 1..N
  BY <1>3
<1>7. open[0] = 0 /\ \A i \in 1..N :
        open[i] = ((IF i \in stops THEN 0 ELSE open[i - 1])
                   + (IF i \in kept THEN 1 ELSE 0)) % maxFileSize
  <2>. DEFINE g(f) == [i \in 0..Len(in) |->
                        IF i = 0 THEN 0
                        ELSE ((IF i \in stops THEN 0 ELSE f[i - 1])
                              + (IF i \in kept THEN 1 ELSE 0)) % maxFileSize]
              step == [i \in 1..N |-> [w \in Int |->
                        ((IF i \in stops THEN 0 ELSE w)
                         + (IF i \in kept THEN 1 ELSE 0)) % maxFileSize]]
  <2>1. open = CHOOSE f : f = g(f)
    BY DEF open
  <2>. HIDE DEF open, stops, kept, in
  <2>2. step \in [1..N -> [Int -> Int]]
    OBVIOUS
  <2>3. PICK f \in [0..N -> Int] : f[0] = 0 /\ \A i \in 1..N : f[i] = step[i][f[i - 1]]
    <3>. DEFINE V == Int
                zero == 0
    <3>1. N \in Nat /\ zero \in V /\ step \in [1..N -> [V -> V]]
      BY <1>3, <2>2
    <3>. HIDE DEF step, N, V, zero
    <3>2. \E f \in [0..N -> V] : f[0] = zero /\ \A i \in 1..N : f[i] = step[i][f[i - 1]]
      BY <3>1, RecursionOnNumbers
    <3>. QED
      BY <3>2 DEF V, zero
  <2>4. f = g(f)
    <3>1. \A i \in 0..N : i # 0 => i \in 1..N /\ i - 1 \in 0..N
      BY <1>3
    <3>2. ASSUME NEW i \in 1..N
          PROVE  f[i] = ((IF i \in stops THEN 0 ELSE f[i - 1])
                         + (IF i \in kept THEN 1 ELSE 0)) % maxFileSize
      <4>1. i - 1 \in 0..N
        BY <1>3
      <4>2. f[i - 1] \in Int
        BY <4>1
      <4>. QED
        BY <2>3, <4>2
    <3>. QED
      BY <1>4, <2>3, <3>1, <3>2
  <2>5. open = g(open)
    <3>. HIDE DEF g
    <3>. QED
      BY <2>1, <2>4
  <2>. QED
    BY <1>3, <1>4, <2>5
<1>. HIDE DEF open, stops, kept, in, N
<1>8. 0 % maxFileSize = 0
  OBVIOUS
<1>9. PICK first \in kept : \A i \in kept : first <= i
  BY <1>5, <1>6, LeastNumber
<1>10. \A i \in 0..(first - 1) : open[i] = 0
  <2>. DEFINE T == {i \in 0..(first - 1) : open[i] # 0}
  <2>. SUFFICES ASSUME T # {} PROVE FALSE
    OBVIOUS
  <2>1. T \subseteq Nat /\ T \subseteq 0..(first - 1)
    OBVIOUS
  <2>2. PICK i \in T : \A j \in T : i <= j
    <3>. HIDE DEF T
    <3>. QED
      BY <2>1, LeastNumber
  <2>3. i # 0 /\ first \in 1..N /\ i \in 0..(first - 1)
    BY <1>6, <1>7, <1>9, <2>2
  <2>4. i \in 1..N /\ i \notin kept /\ i - 1 \in 0..(first - 1) /\ ~(i <= i - 1)
    BY <1>3, <1>9, <2>3
  <2>5. open[i - 1] = 0
    BY <2>2, <2>4
  <2>6. open[i] = 0 % maxFileSize
    BY <1>7, <2>4, <2>5
  <2>. QED
    BY <1>8, <2>2, <2>6
<1>11. first \in starts
  <2>1. first \in 1..N /\ first - 1 \in 0..(first - 1)
    BY <1>3, <1>6, <1>9
  <2>2. open[first - 1] = 0
    BY <1>10, <2>1
  <2>3. open[first] = 1 % maxFileSize
    BY <1>7, <1>9, <2>1, <2>2
  <2>. QED
    BY <1>9, <2>3
<1>12. starts \subseteq kept
  OBVIOUS
<1>. HIDE DEF starts
<1>13. PICK i \in starts : i <= at /\ \A n \in starts : n <= at => n <= i
  <2>. DEFINE S == {n \in starts : n <= at}
  <2>1. S \subseteq Nat /\ S \subseteq 1..N /\ first \in S
    BY <1>5, <1>6, <1>9, <1>11, <1>12
  <2>. HIDE DEF S
  <2>2. IsFiniteSet(S)
    <3>1. IsFiniteSet(1..N)
      BY <1>3, FS_Interval
    <3>. QED
      BY <2>1, <3>1, FS_Subset
  <2>3. Max(S) \in S /\ \A n \in S : n <= Max(S)
    BY <2>1, <2>2, MaxOfFinite
  <2>. QED
    BY <2>3 DEF S
<1>14. e \in Run(i)
  <2>1. at >= i /\ ~\E n \in starts : i < n /\ n <= at
    BY <1>5, <1>6, <1>12, <1>13
  <2>. QED
    BY <1>5, <2>1
<1>. HIDE DEF Run, num
<1>15. Table(num(i), Run(i)).entries = Run(i)
  BY DEF Table
<1>. QED
  BY <1>1, <1>13, <1>14, <1>15

-----------------------------------------------------------------------------
(* What compactions keep: the newest entry of a key at every sequence      *)
(* number that somebody may read at, unless it is a deletion.              *)
Horizons == Range(snapshots) \cup {lastSequence}

NewestAt(e, s) ==
  e.s <= s /\ \A d \in written : d.k = e.k /\ d.s <= s => d.s <= e.s

(* The list of snapshots is in order, and its oldest was read when the     *)
(* compaction began; none that came later is older.                        *)
SnapshotsInv ==
  /\ \A i, j \in DOMAIN snapshots : i <= j => snapshots[i] <= snapshots[j]
  /\ compaction # NoCompaction =>
       /\ compaction.smallestSnapshot \in Nat
       /\ \A s \in Horizons : compaction.smallestSnapshot <= s

KeptInv ==
  \A e \in written, s \in Horizons :
    ~e.del /\ NewestAt(e, s) => e \in memtable \cup immtable \cup Stored

LEMMA HorizonNumbers ==
  ASSUME WritesInv
  PROVE  /\ lastSequence \in Nat /\ Horizons \subseteq 0..lastSequence /\ Horizons \subseteq Nat
         /\ \A i \in DOMAIN snapshots : snapshots[i] \in 0..lastSequence
         /\ Len(snapshots) \in Nat /\ DOMAIN snapshots = 1..Len(snapshots)
<1>1. lastSequence \in Nat
  BY SequenceCounts
<1>2. snapshots \in Seq(0..lastSequence)
  BY DEF WritesInv
<1>3. \A i \in DOMAIN snapshots : snapshots[i] \in 0..lastSequence
  <2>. DEFINE S == 0..lastSequence
  <2>. HIDE DEF S
  <2>1. \A i \in 1..Len(snapshots) : snapshots[i] \in S
    BY <1>2, ElementOfSeq DEF S
  <2>. QED
    BY <1>2, <2>1 DEF S
<1>4. Horizons \subseteq 0..lastSequence
  BY <1>1, <1>3 DEF Horizons, Range
<1>. QED
  BY <1>1, <1>2, <1>3, <1>4

(* Steps that write nothing and take no snapshot away from a compaction.   *)
LEMMA SnapshotsInvKept ==
  ASSUME SnapshotsInv, UNCHANGED <<snapshots, written>>,
         compaction' = compaction \/ compaction' = NoCompaction
  PROVE  SnapshotsInv' /\ Horizons' = Horizons /\ \A e, s : NewestAt(e, s)' <=> NewestAt(e, s)
<1>1. Horizons' = Horizons
  BY DEF Horizons, lastSequence
<1>2. \A e, s : NewestAt(e, s)' <=> NewestAt(e, s)
  BY DEF NewestAt
<1>. QED
  BY <1>1, <1>2 DEF SnapshotsInv

LEMMA InstallStores ==
  ASSUME FilesInv, NEW level \in Level, NEW deleted, NEW to \in Level, NEW added,
         LogAndApply(level, deleted, to, added), NEW e
  PROVE  /\ e \in Stored /\ (e \in Entries(deleted) => e \in Entries(added)) => e \in Stored'
         /\ e \in Entries(added) /\ stopped' # "overlap" => e \in Stored'
<1>. DEFINE kept == [l \in Level |-> IF l \in {level, level + 1} THEN files[l] \ deleted ELSE files[l]]
            version == [kept EXCEPT ![to] = @ \cup added]
<1>1. \/ files' = version
      \/ files' = files /\ stopped' = "overlap"
  BY DEF LogAndApply
<1>2. CASE files' = files /\ stopped' = "overlap"
  BY <1>2 DEF Stored, AllFiles
<1>3. CASE files' = version
  <2>1. added \subseteq version[to] /\ \A l \in Level : files[l] \ deleted \subseteq version[l]
    OBVIOUS
  <2>. HIDE DEF version
  <2>2. \A l \in Level : \A f \in version[l] : e \in f.entries => e \in Stored'
    BY <1>3 DEF Stored, AllFiles, Entries
  <2>3. e \in Entries(added) => e \in Stored'
    BY <2>1, <2>2, EntriesOf
  <2>4. ASSUME e \in Stored, e \notin Entries(deleted) PROVE e \in Stored'
    <3>1. PICK l \in Level : e \in Entries(files[l])
      BY <2>4, StoredBelow
    <3>2. PICK f \in files[l] : e \in f.entries
      BY <3>1, EntriesOf
    <3>3. f \notin deleted
      BY <2>4, <3>2, EntriesOf
    <3>. QED
      BY <2>1, <2>2, <3>2, <3>3
  <2>. QED
    BY <2>3, <2>4
<1>. QED
  BY <1>1, <1>2, <1>3

LEMMA WriteRetains ==
  ASSUME IInv, SnapshotsInv, KeptInv, NEW k \in Keys, NEW del \in BOOLEAN, Write(k, del)
  PROVE  SnapshotsInv' /\ KeptInv'
<1>. DEFINE new == [k |-> k, s |-> lastSequence + 1, del |-> del]
<1>1. WritesInv /\ FilesInv /\ LevelsInOrder(files)
  BY DEF IInv
<1>2. /\ memtable' = memtable \cup {new} /\ written' = written \cup {new}
      /\ UNCHANGED <<immtable, files, nextFileNumber, snapshots, compaction>>
      /\ new.k = k /\ new.s = lastSequence + 1
  BY DEF Write
<1>. HIDE DEF new
<1>3. /\ lastSequence \in Nat /\ Horizons \subseteq 0..lastSequence
      /\ \A d \in written : d.s <= lastSequence /\ d.s \in Int
  BY <1>1, HorizonNumbers, WrittenFields DEF WritesInv
<1>4. lastSequence' = lastSequence + 1
  <2>1. new \notin written
    BY <1>2, <1>3
  <2>. QED
    BY <1>1, <1>2, <2>1, FS_AddElement DEF WritesInv, lastSequence
<1>5. Horizons' = Range(snapshots) \cup {lastSequence + 1} /\ Range(snapshots) \subseteq Horizons
      /\ lastSequence \in Horizons
  BY <1>2, <1>4 DEF Horizons, Range
<1>6. SnapshotsInv'
  <2>1. compaction # NoCompaction => compaction.smallestSnapshot <= lastSequence + 1
    BY <1>3, <1>5 DEF SnapshotsInv
  <2>. QED
    BY <1>2, <1>5, <2>1 DEF SnapshotsInv
<1>7. ASSUME NEW e \in written, NEW s \in Horizons', ~e.del, NewestAt(e, s)'
      PROVE  e \in memtable \cup immtable \cup Stored
  <2>1. \A d \in written \cup {new} : d.k = e.k /\ d.s <= s => d.s <= e.s
    BY <1>2, <1>7 DEF NewestAt
  <2>2. e.s <= s
    BY <1>7 DEF NewestAt
  <2>3. CASE s \in Range(snapshots)
    <3>1. NewestAt(e, s)
      BY <2>1, <2>2 DEF NewestAt
    <3>. QED
      BY <1>5, <1>7, <2>3, <3>1 DEF KeptInv
  <2>4. CASE s = lastSequence + 1
    <3>1. NewestAt(e, lastSequence)
      <4>1. \A d \in written : d.s <= s
        BY <1>3, <2>4
      <4>. QED
        BY <1>3, <2>1, <4>1 DEF NewestAt
    <3>. QED
      BY <1>5, <1>7, <3>1 DEF KeptInv
  <2>. QED
    BY <1>5, <2>3, <2>4
<1>8. Stored' = Stored
  BY <1>2 DEF Stored, AllFiles
<1>9. KeptInv'
  BY <1>2, <1>7, <1>8 DEF KeptInv
<1>. QED
  BY <1>6, <1>9

LEMMA SnapshotsRetain ==
  ASSUME IInv, SnapshotsInv, KeptInv,
         GetSnapshot \/ \E i \in 1..Len(snapshots) : ReleaseSnapshot(i)
  PROVE  SnapshotsInv' /\ KeptInv'
<1>1. UNCHANGED <<memtable, immtable, files, compaction, written>>
  BY DEF GetSnapshot, ReleaseSnapshot
<1>2. /\ lastSequence \in Nat /\ \A i \in DOMAIN snapshots : snapshots[i] \in 0..lastSequence
      /\ Len(snapshots) \in Nat /\ DOMAIN snapshots = 1..Len(snapshots)
      /\ snapshots \in Seq(0..lastSequence)
  BY HorizonNumbers DEF IInv, WritesInv
<1>3. \A i, j \in DOMAIN snapshots : i <= j => snapshots[i] <= snapshots[j]
  BY DEF SnapshotsInv
<1>4. /\ \A i, j \in DOMAIN snapshots' : i <= j => snapshots'[i] <= snapshots'[j]
      /\ \A i \in DOMAIN snapshots' : snapshots'[i] \in Horizons
  <2>1. CASE GetSnapshot
    <3>1. snapshots' = Append(snapshots, lastSequence)
      BY <2>1 DEF GetSnapshot
    <3>2. /\ DOMAIN snapshots' = 1..(Len(snapshots) + 1)
          /\ \A i \in 1..Len(snapshots) : snapshots'[i] = snapshots[i]
          /\ snapshots'[Len(snapshots) + 1] = lastSequence
      BY <1>2, <3>1
    <3>3. \A i \in 1..(Len(snapshots) + 1) : i \in 1..Len(snapshots) \/ i = Len(snapshots) + 1
      BY <1>2
    <3>4. \A i \in DOMAIN snapshots' : snapshots'[i] \in Horizons
      BY <1>2, <3>2, <3>3 DEF Horizons, Range
    <3>5. ASSUME NEW i \in DOMAIN snapshots', NEW j \in DOMAIN snapshots', i <= j
          PROVE  snapshots'[i] <= snapshots'[j]
      <4>1. CASE j \in 1..Len(snapshots)
        <5>1. i \in 1..Len(snapshots)
          BY <1>2, <3>2, <3>5, <4>1
        <5>. QED
          BY <1>2, <1>3, <3>2, <3>5, <4>1, <5>1
      <4>2. CASE j = Len(snapshots) + 1
        BY <1>2, <3>2, <3>3, <4>2
      <4>. QED
        BY <3>2, <3>3, <4>1, <4>2
    <3>. QED
      BY <3>4, <3>5
  <2>2. ASSUME NEW i \in 1..Len(snapshots), ReleaseSnapshot(i)
        PROVE  /\ \A m, j \in DOMAIN snapshots' : m <= j => snapshots'[m] <= snapshots'[j]
               /\ \A m \in DOMAIN snapshots' : snapshots'[m] \in Horizons
    <3>. DEFINE from(m) == IF m < i THEN m ELSE m + 1
    <3>1. snapshots' = SubSeq(snapshots, 1, i - 1) \o SubSeq(snapshots, i + 1, Len(snapshots))
      BY <2>2 DEF ReleaseSnapshot, RemoveAt
    <3>2. /\ DOMAIN snapshots' = 1..(Len(snapshots) - 1)
          /\ \A m \in 1..(Len(snapshots) - 1) : snapshots'[m] = snapshots[from(m)]
      <4>. DEFINE u == SubSeq(snapshots, 1, i - 1)
                  v == SubSeq(snapshots, i + 1, Len(snapshots))
      <4>1. /\ u \in Seq(0..lastSequence) /\ Len(u) = i - 1
            /\ \A m \in 1..(i - 1) : u[m] = snapshots[m]
        BY <1>2, SubSeqProperties
      <4>2. /\ v \in Seq(0..lastSequence) /\ Len(v) = Len(snapshots) - i
            /\ \A m \in 1..(Len(snapshots) - i) : v[m] = snapshots[m + i]
        <5>1. i + 1 \in Int /\ Len(snapshots) \in Int /\ i \in 1..Len(snapshots)
          BY <1>2
        <5>2. \A m \in (i + 1)..Len(snapshots) : m \in 1..Len(snapshots)
          BY <5>1
        <5>3. \A m \in (i + 1)..Len(snapshots) : snapshots[m] \in 0..lastSequence
          BY <1>2, <5>2
        <5>4. /\ v \in Seq(0..lastSequence)
              /\ Len(v) = IF i + 1 <= Len(snapshots) THEN Len(snapshots) - (i + 1) + 1 ELSE 0
              /\ \A m \in 1..(Len(snapshots) - (i + 1) + 1) : v[m] = snapshots[(i + 1) + m - 1]
          BY <5>1, <5>3, SubSeqProperties
        <5>5. Len(v) = Len(snapshots) - i
          BY <5>1, <5>4
        <5>6. ASSUME NEW m \in 1..(Len(snapshots) - i) PROVE v[m] = snapshots[m + i]
          <6>1. m \in 1..(Len(snapshots) - (i + 1) + 1) /\ (i + 1) + m - 1 = m + i
            BY <5>1
          <6>. QED
            BY <5>4, <6>1
        <5>. QED
          BY <5>4, <5>5, <5>6
      <4>3. i \in Nat /\ Len(snapshots) \in Nat /\ i >= 1 /\ i <= Len(snapshots)
        BY <1>2
      <4>. HIDE DEF u, v
      <4>4. /\ DOMAIN (u \o v) = 1..(Len(snapshots) - 1)
            /\ \A m \in 1..(Len(snapshots) - 1) :
                 (u \o v)[m] = IF m <= i - 1 THEN u[m] ELSE v[m - (i - 1)]
        BY <4>1, <4>2, <4>3, ConcatProperties
      <4>5. ASSUME NEW m \in 1..(Len(snapshots) - 1) PROVE (u \o v)[m] = snapshots[from(m)]
        <5>1. CASE m < i
          BY <4>1, <4>3, <4>4, <5>1
        <5>2. CASE ~(m < i)
          <6>1. m - (i - 1) \in 1..(Len(snapshots) - i) /\ m - (i - 1) + i = m + 1 /\ ~(m <= i - 1)
            BY <4>3, <5>2
          <6>. QED
            BY <4>2, <4>4, <5>2, <6>1
        <5>. QED
          BY <5>1, <5>2
      <4>. QED
        BY <3>1, <4>4, <4>5 DEF u, v
    <3>3. \A m \in 1..(Len(snapshots) - 1) : from(m) \in 1..Len(snapshots)
      BY <1>2
    <3>4. \A m, j \in 1..(Len(snapshots) - 1) : m <= j => from(m) <= from(j)
      BY <1>2
    <3>. HIDE DEF from
    <3>. QED
      BY <1>2, <1>3, <3>2, <3>3, <3>4 DEF Horizons, Range
  <2>. QED
    BY <2>1, <2>2
<1>5. lastSequence' = lastSequence /\ Stored' = Stored
  BY <1>1 DEF lastSequence, Stored, AllFiles
<1>6. Horizons' \subseteq Horizons
  <2>1. lastSequence \in Horizons
    BY DEF Horizons
  <2>2. Horizons' = {snapshots'[i] : i \in DOMAIN snapshots'} \cup {lastSequence}
    BY <1>5 DEF Horizons, Range
  <2>. QED
    BY <1>4, <2>1, <2>2
<1>7. \A e, s : NewestAt(e, s)' <=> NewestAt(e, s)
  BY <1>1 DEF NewestAt
<1>8. SnapshotsInv'
  BY <1>1, <1>4, <1>6 DEF SnapshotsInv
<1>9. KeptInv'
  BY <1>1, <1>5, <1>6, <1>7 DEF KeptInv
<1>. QED
  BY <1>8, <1>9

LEMMA FlushRetains ==
  ASSUME IInv, SnapshotsInv, KeptInv, FlushMemtable
  PROVE  SnapshotsInv' /\ KeptInv'
<1>1. WritesInv /\ FilesInv /\ Sane
  BY DEF IInv, Sane
<1>. DEFINE lo == Smallest(immtable).k
            hi == Largest(immtable).k
            level == PickLevelForMemTableOutput(lo, hi)
            added == {Table(nextFileNumber, immtable)}
<1>2. /\ immtable # {} /\ LogAndApply(level, {}, level, added)
      /\ immtable' = IF stopped' = "no" THEN {} ELSE immtable
      /\ UNCHANGED <<memtable, snapshots, compaction, written>>
  BY DEF FlushMemtable
<1>3. lo \in Keys /\ hi \in Keys
  BY <1>1, <1>2, EndsOf, WrittenFields DEF WritesInv
<1>4. Entries(added) = immtable
  BY DEF Entries, Table
<1>. HIDE DEF lo, hi, added
<1>5. level \in Level
  BY <1>3, PickedLevel
<1>. HIDE DEF level
<1>6. Entries({}) = {}
  BY DEF Entries
<1>7. \A e \in Stored : e \in Stored'
  BY <1>1, <1>2, <1>5, <1>6, InstallStores
<1>8. \A e \in immtable : e \in immtable' \cup Stored'
  <2>. SUFFICES ASSUME NEW e \in immtable, stopped' = "no" PROVE e \in Stored'
    BY <1>2
  <2>. QED
    BY <1>1, <1>2, <1>4, <1>5, InstallStores
<1>9. SnapshotsInv' /\ Horizons' = Horizons /\ \A e, s : NewestAt(e, s)' <=> NewestAt(e, s)
  BY <1>2, SnapshotsInvKept
<1>10. KeptInv'
  BY <1>2, <1>7, <1>8, <1>9 DEF KeptInv
<1>. QED
  BY <1>9, <1>10

(* A new compaction takes the oldest sequence number of them all.          *)
LEMMA BeginRetains ==
  ASSUME IInv, SnapshotsInv, UNCHANGED <<snapshots, written>>,
         compaction'.smallestSnapshot = SmallestSnapshot
  PROVE  SnapshotsInv'
<1>1. /\ Horizons' = Horizons /\ lastSequence \in Nat /\ Horizons \subseteq 0..lastSequence
      /\ Len(snapshots) \in Nat /\ DOMAIN snapshots = 1..Len(snapshots)
      /\ snapshots \in Seq(0..lastSequence)
      /\ \A i \in DOMAIN snapshots : snapshots[i] \in 0..lastSequence
  BY HorizonNumbers DEF IInv, WritesInv, Horizons, lastSequence
<1>2. CASE snapshots = <<>>
  <2>1. Horizons = {lastSequence} /\ SmallestSnapshot = lastSequence
    BY <1>1, <1>2 DEF Horizons, Range, SmallestSnapshot
  <2>. QED
    BY <1>1, <2>1 DEF SnapshotsInv
<1>3. CASE snapshots # <<>>
  <2>1. 1 \in DOMAIN snapshots /\ \A i \in DOMAIN snapshots : 1 <= i
    BY <1>1, <1>3
  <2>2. SmallestSnapshot = snapshots[1] /\ snapshots[1] \in 0..lastSequence
    BY <1>1, <1>3, <2>1 DEF SmallestSnapshot
  <2>3. \A i \in DOMAIN snapshots : snapshots[1] <= snapshots[i]
    BY <2>1 DEF SnapshotsInv
  <2>4. \A s \in Horizons : snapshots[1] <= s
    BY <1>1, <2>2, <2>3 DEF Horizons, Range
  <2>. QED
    BY <1>1, <2>2, <2>4 DEF SnapshotsInv
<1>. QED
  BY <1>2, <1>3

LEMMA PickCompactionRetains ==
  ASSUME IInv, SnapshotsInv, KeptInv, PickCompaction
  PROVE  SnapshotsInv' /\ KeptInv'
<1>1. WritesInv /\ FilesInv /\ Sane
  BY DEF IInv, Sane
<1>. DEFINE level == CompactionLevel
            F == IF level = 0 THEN Spanned(0, {Picked(0)}) ELSE {Picked(level)}
            c == Compaction(level, F, FALSE)
<1>2. NeedsCompaction /\ UNCHANGED <<memtable, immtable, snapshots, written>>
  BY DEF PickCompaction
<1>3. \/ files' = files /\ compaction' = compaction
      \/ /\ ~(level + 2 >= NumLevels)
         /\ LogAndApply(level, c.inputs[1], level + 1, c.inputs[1])
         /\ compaction' = compaction
      \/ compaction' = c /\ files' = files
  BY DEF PickCompaction
<1>4. level \in Level
  BY <1>1, <1>2, PickedInputs
<1>5. c.smallestSnapshot = SmallestSnapshot
  BY DEF Compaction
<1>. HIDE DEF level, c
<1>6. SnapshotsInv'
  <2>1. CASE compaction' = compaction
    BY <1>2, <2>1, SnapshotsInvKept
  <2>2. CASE compaction' = c
    BY <1>2, <1>5, <2>2, BeginRetains
  <2>. QED
    BY <1>3, <2>1, <2>2
<1>7. Stored \subseteq Stored'
  <2>1. CASE files' = files
    BY <2>1 DEF Stored, AllFiles
  <2>2. CASE ~(level + 2 >= NumLevels)
             /\ LogAndApply(level, c.inputs[1], level + 1, c.inputs[1])
    <3>1. level + 1 \in Level
      BY <1>4, <2>2, Limits DEF Level
    <3>. QED
      BY <1>1, <1>4, <2>2, <3>1, InstallStores
  <2>. QED
    BY <1>3, <2>1, <2>2
<1>8. Horizons' = Horizons /\ \A e, s : NewestAt(e, s)' <=> NewestAt(e, s)
  BY <1>2 DEF Horizons, NewestAt, lastSequence
<1>9. KeptInv'
  BY <1>2, <1>7, <1>8 DEF KeptInv
<1>. QED
  BY <1>6, <1>9

LEMMA ManualCompactionRetains ==
  ASSUME IInv, SnapshotsInv, KeptInv, ManualCompaction
  PROVE  SnapshotsInv' /\ KeptInv'
<1>. DEFINE c == Compaction(manual.level, ManualFiles(manual.level, manual.begin, manual.end), TRUE)
<1>1. UNCHANGED <<memtable, immtable, files, snapshots, written>>
  BY DEF ManualCompaction
<1>2. compaction' = compaction \/ compaction' = c
  BY DEF ManualCompaction
<1>3. c.smallestSnapshot = SmallestSnapshot
  BY DEF Compaction
<1>. HIDE DEF c
<1>4. SnapshotsInv'
  <2>1. CASE compaction' = compaction
    BY <1>1, <2>1, SnapshotsInvKept
  <2>2. CASE compaction' = c
    BY <1>1, <1>3, <2>2, BeginRetains
  <2>. QED
    BY <1>2, <2>1, <2>2
<1>5. Stored' = Stored
  BY <1>1 DEF Stored, AllFiles
<1>6. Horizons' = Horizons /\ \A e, s : NewestAt(e, s)' <=> NewestAt(e, s)
  BY <1>1 DEF Horizons, NewestAt, lastSequence
<1>7. KeptInv'
  BY <1>1, <1>5, <1>6 DEF KeptInv
<1>. QED
  BY <1>4, <1>7

(* The drop rules of doCompactionWork: what is newest for somebody has no  *)
(* newer entry of its key up to the oldest snapshot.                       *)
LEMMA FinishCompactionRetains ==
  ASSUME IInv, SnapshotsInv, KeptInv, FinishCompaction
  PROVE  SnapshotsInv' /\ KeptInv'
<1>1. WritesInv /\ FilesInv /\ Sane /\ CompactionInv /\ DriverInv
  BY DEF IInv, Sane
<1>. DEFINE c == compaction
<1>2. /\ LogAndApply(c.level, Inputs(c), c.level + 1, Outputs(c))
      /\ c # NoCompaction /\ compaction' = NoCompaction
      /\ UNCHANGED <<memtable, immtable, snapshots, maxFileSize, written>>
  BY DEF FinishCompaction
<1>3. /\ c.level \in Level /\ c.level + 1 \in Level
      /\ c.inputs[1] \subseteq files[c.level] /\ c.inputs[2] \subseteq files[c.level + 1]
  BY <1>1, <1>2, Limits DEF CompactionInv, Level
<1>4. c.smallestSnapshot \in Nat /\ \A s \in Horizons : c.smallestSnapshot <= s
  BY <1>2 DEF SnapshotsInv
<1>. HIDE DEF c
<1>5. Inputs(c) \subseteq AllFiles
  BY <1>3 DEF Inputs, AllFiles
<1>6. Entries(Inputs(c)) \subseteq written
  BY <1>1, <1>5, FilesAreFiles DEF Entries, IsFile
<1>7. Horizons \subseteq Nat /\ \A d \in written : d.s \in Nat
  BY <1>1, HorizonNumbers DEF WritesInv, Entry
<1>8. ASSUME NEW e \in Entries(Inputs(c)), NEW s \in Horizons, ~e.del, NewestAt(e, s)
      PROVE  ~Drops(c, e)
  <2>. DEFINE newer == {d.s : d \in {d \in Entries(Inputs(c)) : d.k = e.k /\ d.s > e.s}}
  <2>. SUFFICES ASSUME newer # {}, Min(newer) <= c.smallestSnapshot PROVE FALSE
    BY <1>8 DEF Drops
  <2>1. newer \subseteq Nat
    BY <1>6, <1>7
  <2>2. \A x \in newer : \E d \in written : d.k = e.k /\ d.s > e.s /\ x = d.s
    BY <1>6
  <2>. HIDE DEF newer
  <2>3. Min(newer) \in newer
    BY <2>1, MinOfSome
  <2>4. PICK d \in written : d.k = e.k /\ d.s > e.s /\ Min(newer) = d.s
    BY <2>2, <2>3
  <2>5. d.s <= s
    BY <1>4, <1>7, <2>4
  <2>6. d.s <= e.s
    BY <1>8, <2>4, <2>5 DEF NewestAt
  <2>. QED
    BY <1>6, <1>7, <2>4, <2>6
<1>9. maxFileSize \in Nat \ {0}
  BY <1>1, Limits DEF DriverInv
<1>10. ASSUME NEW e \in Entries(Inputs(c)), ~Drops(c, e) PROVE e \in Entries(Outputs(c))
  BY <1>1, <1>5, <1>9, <1>10, OutputsHold, EntriesOf
<1>11. SnapshotsInv' /\ Horizons' = Horizons /\ \A e, s : NewestAt(e, s)' <=> NewestAt(e, s)
  BY <1>2, SnapshotsInvKept
<1>12. ASSUME NEW e \in written, NEW s \in Horizons, ~e.del, NewestAt(e, s)
       PROVE  e \in memtable' \cup immtable' \cup Stored'
  <2>1. e \in memtable \cup immtable \cup Stored
    BY <1>12 DEF KeptInv
  <2>2. e \in Entries(Inputs(c)) => e \in Entries(Outputs(c))
    BY <1>8, <1>10, <1>12
  <2>3. e \in Stored => e \in Stored'
    BY <1>1, <1>2, <1>3, <2>2, InstallStores
  <2>. QED
    BY <1>2, <2>1, <2>3
<1>13. KeptInv'
  BY <1>2, <1>11, <1>12 DEF KeptInv
<1>. QED
  BY <1>11, <1>13

(* Nothing that somebody may read is lost.                                 *)
THEOREM Retention == Spec => [](SnapshotsInv /\ KeptInv)
<1>1. Init => SnapshotsInv /\ KeptInv
  BY DEF Init, SnapshotsInv, KeptInv
<1>2. IInv /\ (SnapshotsInv /\ KeptInv) /\ [Next]_vars => (SnapshotsInv /\ KeptInv)'
  <2>. SUFFICES ASSUME IInv, SnapshotsInv, KeptInv, [Next]_vars PROVE SnapshotsInv' /\ KeptInv'
    OBVIOUS
  <2>1. ASSUME UNCHANGED <<snapshots, written, files, compaction>>,
               memtable' \cup immtable' = memtable \cup immtable
        PROVE  SnapshotsInv' /\ KeptInv'
    <3>1. Stored' = Stored
      BY <2>1 DEF Stored, AllFiles
    <3>2. SnapshotsInv' /\ Horizons' = Horizons /\ \A e, s : NewestAt(e, s)' <=> NewestAt(e, s)
      BY <2>1, SnapshotsInvKept
    <3>3. KeptInv'
      BY <2>1, <3>1, <3>2 DEF KeptInv
    <3>. QED
      BY <3>2, <3>3
  <2>2. CASE UNCHANGED vars
    BY <2>1, <2>2 DEF vars
  <2>3. ASSUME NEW k \in Keys, NEW del \in BOOLEAN, Write(k, del)
        PROVE  SnapshotsInv' /\ KeptInv'
    BY <2>3, WriteRetains
  <2>4. CASE SwitchMemtable
    <3>1. UNCHANGED <<snapshots, written, files, compaction>>
          /\ immtable = {} /\ immtable' = memtable /\ memtable' = {}
      BY <2>4 DEF SwitchMemtable
    <3>. QED
      BY <2>1, <3>1
  <2>5. CASE GetSnapshot \/ \E i \in 1..Len(snapshots) : ReleaseSnapshot(i)
    BY <2>5, SnapshotsRetain
  <2>6. ASSUME NEW lo \in Keys, NEW hi \in Keys, CompactRange(lo, hi)
        PROVE  SnapshotsInv' /\ KeptInv'
    <3>1. UNCHANGED <<snapshots, written, files, compaction>>
          /\ driver = "none" /\ immtable' = memtable /\ memtable' = {}
      BY <2>6 DEF CompactRange
    <3>2. immtable = {}
      BY <3>1 DEF IInv, DriverInv, Idle
    <3>. QED
      BY <2>1, <3>1, <3>2
  <2>7. CASE Background
    BY <2>7, FlushRetains, PickCompactionRetains, ManualCompactionRetains,
       FinishCompactionRetains DEF Background
  <2>. QED
    BY <2>2, <2>3, <2>4, <2>5, <2>6, <2>7 DEF Next
<1>. QED
  BY <1>1, <1>2, Invariance, PTL DEF Spec

-----------------------------------------------------------------------------
(* get finds what is kept.                                                 *)

(* The first file of a level that does not end before the key and the      *)
(* sequence number is the one that has the entry.                          *)
LEMMA FileForFinds ==
  ASSUME Sane, NEW l \in 1..(NumLevels - 1), NEW k \in Keys, NEW s \in Nat
  PROVE  /\ FileFor(l, k, s) \subseteq Entries(files[l])
         /\ \A e \in Entries(files[l]) : e.k = k /\ NewestAt(e, s) => e \in FileFor(l, k, s)
<1>. DEFINE from == {f \in files[l] : ~Before(f.largest, [k |-> k, s |-> s])}
<1>1. /\ WritesInv /\ FilesInv /\ LevelsInOrder(files) /\ l \in Level /\ l \in Level \ {0}
      /\ k \in Int
  BY Limits DEF Sane, Level, Keys
<1>2. \A f \in from : f \in files[l] /\ f \in AllFiles
  BY <1>1 DEF AllFiles
<1>3. FileFor(l, k, s) = IF from = {} THEN {} ELSE FirstFile(from).entries
  BY DEF FileFor
<1>4. \A f \in files[l] : f \in from <=>
        ~(f.largest.k < k \/ (f.largest.k = k /\ f.largest.s > s))
  BY DEF Before
<1>. HIDE DEF from
<1>5. from # {} => /\ FirstFile(from) \in from
                   /\ \A g \in from : g = FirstFile(from) \/ Before(FirstFile(from).smallest, g.smallest)
  BY <1>2, EndsOfGroup
<1>6. FileFor(l, k, s) \subseteq Entries(files[l])
  BY <1>2, <1>3, <1>5, EntriesOf
<1>7. ASSUME NEW e \in Entries(files[l]), e.k = k, NewestAt(e, s)
      PROVE  e \in FileFor(l, k, s)
  <2>1. PICK f \in files[l] : e \in f.entries
    BY <1>7, EntriesOf
  <2>2. /\ IsFile(f) /\ e \in written /\ f.largest \in written /\ f.smallest \in written
        /\ e = f.largest \/ Before(e, f.largest)
        /\ e = f.smallest \/ Before(f.smallest, e)
    BY <1>1, <2>1, InLevel DEF IsFile
  <2>3. e.s <= s /\ e.s \in Int /\ f.largest.k \in Int /\ f.largest.s \in Int
    BY <1>1, <1>7, <2>2, WrittenFields DEF NewestAt
  <2>4. f \in from
    BY <1>1, <1>4, <1>7, <2>1, <2>2, <2>3 DEF Before
  <2>. DEFINE g == FirstFile(from)
  <2>5. g \in files[l] /\ g \in from /\ (f = g \/ Before(g.smallest, f.smallest))
    BY <1>2, <1>5, <2>4
  <2>. HIDE DEF g
  <2>6. ASSUME f # g PROVE FALSE
    <3>1. /\ g.largest \in written /\ g.smallest \in written
          /\ g.smallest = g.largest \/ Before(g.smallest, g.largest)
      BY <1>1, <2>5, InLevel DEF IsFile
    <3>2. Before(g.largest, f.smallest)
      <4>1. Before(f.largest, g.smallest) \/ Before(g.largest, f.smallest)
        BY <1>1, <2>1, <2>5, <2>6 DEF LevelsInOrder
      <4>2. f.smallest = f.largest \/ Before(f.smallest, f.largest)
        BY <2>2 DEF IsFile
      <4>3. ~Before(f.largest, g.smallest)
        BY <1>1, <2>2, <2>5, <2>6, <3>1, <4>2, BeforeStrict, BeforeTrans
      <4>. QED
        BY <4>1, <4>3
    <3>3. Before(g.largest, e)
      BY <1>1, <2>2, <3>1, <3>2, BeforeTrans
    <3>4. g.largest.k \in Int /\ g.largest.s \in Int
      BY <1>1, <3>1, WrittenFields
    <3>5. g.largest.k = k /\ g.largest.s > e.s /\ g.largest.s <= s
      BY <1>1, <1>4, <1>7, <2>3, <2>5, <3>3, <3>4 DEF Before
    <3>6. g.largest.s <= e.s
      BY <1>7, <3>1, <3>5 DEF NewestAt
    <3>. QED
      BY <2>3, <3>4, <3>5, <3>6
  <2>. QED
    BY <1>3, <2>1, <2>4, <2>6 DEF g
<1>. QED
  BY <1>6, <1>7

(* The newest of the entries that a lookup may return.                     *)
LEMMA NewestIsFirst ==
  ASSUME WritesInv, NEW E, E \subseteq written, NEW k, NEW s \in Nat,
         NEW e \in E, e.k = k, NewestAt(e, s)
  PROVE  e \in Hits(E, k, s) /\ Smallest(Hits(E, k, s)) = e
<1>. DEFINE H == Hits(E, k, s)
<1>1. H \subseteq written /\ e \in H /\ \A d \in H : d.k = k /\ d.s <= s
  BY DEF Hits, NewestAt
<1>. HIDE DEF H
<1>2. Smallest(H) \in H /\ \A d \in H : d = Smallest(H) \/ Before(Smallest(H), d)
  BY <1>1, EndsOf
<1>3. Smallest(H).s <= e.s /\ Smallest(H).s \in Int /\ e.s \in Int /\ e.k \in Int
  BY <1>1, <1>2, WrittenFields DEF NewestAt
<1>4. ~Before(Smallest(H), e)
  BY <1>1, <1>2, <1>3 DEF Before
<1>. QED
  BY <1>1, <1>2, <1>4 DEF H

LEMMA GetFinds ==
  ASSUME Sane, NewerAbove, NEW k \in Keys, NEW s \in Nat,
         NEW e \in memtable \cup immtable \cup Stored, e.k = k, NewestAt(e, s)
  PROVE  Get(k, s) = {e}
<1>1. WritesInv /\ FilesInv
  BY DEF Sane
<1>. DEFINE n == Cardinality(files[0])
            all == [l \in 1..(NumLevels - 1) |-> Entries(files[l])]
            some == [l \in 1..(NumLevels - 1) |-> FileFor(l, k, s)]
            above == Places(all)
            places == Places(some)
            found == {i \in DOMAIN places : Hits(places[i], k, s) # {}}
<1>2. /\ Get(k, s) = IF found = {} THEN {} ELSE Seek(places[Min(found)], k, s)
      /\ \A i, j \in DOMAIN above : i < j =>
           \A c \in above[i], d \in above[j] : c.k = d.k => c.s > d.s
  BY DEF Get, Match, NewerAbove, Places, Joined
<1>3. 0 \in Level /\ \A l \in 1..(NumLevels - 1) : l \in Level /\ 0 < l
  BY Limits DEF Level
<1>4. \A l \in Level : Entries(files[l]) \subseteq written
  BY <1>1 DEF Entries, FilesInv, IsFile
<1>5. /\ all \in [1..(NumLevels - 1) -> SUBSET written]
      /\ some \in [1..(NumLevels - 1) -> SUBSET written]
      /\ NumLevels - 1 \in Nat
      /\ \A l \in 1..(NumLevels - 1) : all[l] = Entries(files[l]) /\ some[l] = FileFor(l, k, s)
      /\ \A l \in 1..(NumLevels - 1) : some[l] \subseteq all[l]
  BY <1>3, <1>4, FileForFinds, Limits
<1>. HIDE DEF n, all, some, above, places
<1>6. /\ all \in Seq(SUBSET written) /\ Len(all) = NumLevels - 1
      /\ some \in Seq(SUBSET written) /\ Len(some) = NumLevels - 1
  BY <1>5, LevelSequence
<1>7. /\ n \in Nat /\ DOMAIN above = 1..(1 + n + NumLevels)
      /\ above[1] = memtable /\ above[2] = immtable
      /\ \A i \in 3..(2 + n) : above[i] = Level0Search[i - 2] /\ i - 2 \in 1..n
      /\ \A i \in (3 + n)..(1 + n + NumLevels) :
           above[i] = all[i - (2 + n)] /\ i - (2 + n) \in 1..(NumLevels - 1)
  BY <1>6, SearchPlaces DEF n, above
<1>8. /\ DOMAIN places = 1..(1 + n + NumLevels)
      /\ places[1] = memtable /\ places[2] = immtable
      /\ \A i \in 3..(2 + n) : places[i] = Level0Search[i - 2] /\ i - 2 \in 1..n
      /\ \A i \in (3 + n)..(1 + n + NumLevels) :
           places[i] = some[i - (2 + n)] /\ i - (2 + n) \in 1..(NumLevels - 1)
  BY <1>6, SearchPlaces DEF n, places
<1>9. /\ \A i \in 1..n : Level0Search[i] \subseteq Entries(files[0])
      /\ \A f \in files[0] : \E i \in 1..n : Level0Search[i] = f.entries
  BY NewestFileFirst DEF n
<1>10. ASSUME NEW i \in DOMAIN places
      PROVE  places[i] \subseteq above[i] /\ above[i] \subseteq written
  <2>1. i = 1 \/ i = 2 \/ i \in 3..(2 + n) \/ i \in (3 + n)..(1 + n + NumLevels)
    BY <1>7, <1>8, Limits
  <2>2. memtable \subseteq written /\ immtable \subseteq written
    BY <1>1 DEF WritesInv
  <2>3. CASE i = 1 \/ i = 2
    BY <1>7, <1>8, <2>2, <2>3
  <2>4. CASE i \in 3..(2 + n)
    BY <1>3, <1>4, <1>7, <1>8, <1>9, <2>4
  <2>5. CASE i \in (3 + n)..(1 + n + NumLevels)
    BY <1>5, <1>7, <1>8, <2>5
  <2>. QED
    BY <2>1, <2>3, <2>4, <2>5
<1>11. PICK p \in DOMAIN places : e \in places[p]
  <2>1. 1 \in DOMAIN places /\ 2 \in DOMAIN places
    BY <1>7, <1>8, Limits
  <2>2. ASSUME e \in Stored PROVE \E p \in DOMAIN places : e \in places[p]
    <3>1. PICK l \in Level : e \in Entries(files[l])
      BY <1>1, <2>2, StoredBelow
    <3>2. CASE l = 0
      <4>1. PICK f \in files[0] : e \in f.entries
        BY <3>1, <3>2, EntriesOf
      <4>2. PICK i \in 1..n : Level0Search[i] = f.entries
        BY <1>9
      <4>3. i + 2 \in 3..(2 + n) /\ i + 2 \in 1..(1 + n + NumLevels) /\ (i + 2) - 2 = i
        BY <1>7, Limits
      <4>4. e \in places[i + 2]
        BY <1>8, <4>1, <4>2, <4>3
      <4>. QED
        BY <1>8, <4>3, <4>4
    <3>3. CASE l # 0
      <4>1. l \in 1..(NumLevels - 1) /\ l \in Nat
        BY <3>3, Limits DEF Level
      <4>2. l + (2 + n) \in (3 + n)..(1 + n + NumLevels) /\ (l + (2 + n)) - (2 + n) = l
            /\ l + (2 + n) \in 1..(1 + n + NumLevels)
        BY <1>7, <4>1, Limits
      <4>3. e \in FileFor(l, k, s)
        BY <3>1, <4>1, FileForFinds
      <4>4. e \in places[l + (2 + n)]
        BY <1>5, <1>8, <4>1, <4>2, <4>3
      <4>. QED
        BY <1>8, <4>2, <4>4
    <3>. QED
      BY <3>2, <3>3
  <2>3. CASE e \in memtable
    BY <1>8, <2>1, <2>3
  <2>4. CASE e \in immtable
    BY <1>8, <2>1, <2>4
  <2>. QED
    BY <2>2, <2>3, <2>4
<1>12. e \in Hits(places[p], k, s) /\ Smallest(Hits(places[p], k, s)) = e
  BY <1>1, <1>10, <1>11, NewestIsFirst
<1>13. ASSUME NEW i \in DOMAIN places, i < p PROVE Hits(places[i], k, s) = {}
  <2>. SUFFICES ASSUME NEW d \in Hits(places[i], k, s) PROVE FALSE
    OBVIOUS
  <2>1. d \in above[i] /\ e \in above[p] /\ d \in written /\ e \in written /\ d.k = k /\ d.s <= s
    BY <1>10, <1>11 DEF Hits
  <2>2. d.s > e.s
    BY <1>2, <1>7, <1>8, <1>13, <2>1
  <2>3. d.s <= e.s /\ d.s \in Int /\ e.s \in Int
    BY <1>1, <2>1, WrittenFields DEF NewestAt
  <2>. QED
    BY <2>2, <2>3
<1>14. Min(found) = p
  <2>1. found \subseteq Nat /\ p \in found /\ p \in Nat
    BY <1>7, <1>8, <1>11, <1>12, Limits
  <2>2. \A i \in found : ~(i < p)
    BY <1>13
  <2>. HIDE DEF found
  <2>3. Min(found) \in found /\ Min(found) <= p
    BY <2>1, MinOfSome
  <2>. DEFINE q == Min(found)
  <2>4. q \in Nat /\ q <= p /\ ~(q < p)
    BY <2>1, <2>2, <2>3
  <2>. HIDE DEF q
  <2>5. q = p
    BY <2>1, <2>4
  <2>. QED
    BY <2>5 DEF q
<1>15. found # {}
  BY <1>11, <1>12
<1>16. Get(k, s) = Seek(places[p], k, s)
  BY <1>2, <1>14, <1>15
<1>. QED
  BY <1>12, <1>16 DEF Seek

(* A get at any live snapshot, and one without, returns the value that was *)
(* the newest of its key then: none of the flushes, trivial moves and      *)
(* compactions since has dropped it, split it from its key or put an older *)
(* one before it, for any number of keys and levels and all limits.        *)
THEOREM SnapshotsAreRight == Spec => []SnapshotReads
<1>1. IInv /\ SnapshotsInv /\ KeptInv /\ NewerAbove => SnapshotReads
  <2>. SUFFICES ASSUME IInv, KeptInv, NewerAbove, NEW k \in Keys, NEW s \in Horizons,
                       Value(Newest(k, s)) # {}
                PROVE  Get(k, s) = Newest(k, s)
    BY DEF SnapshotReads, Horizons
  <2>1. WritesInv /\ Sane /\ s \in Nat
    BY HorizonNumbers DEF IInv, Sane
  <2>. DEFINE E == Hits(written, k, s)
              e == Smallest(E)
  <2>2. E # {} /\ Newest(k, s) = {e} /\ ~e.del
    BY DEF Newest, Value
  <2>3. E \subseteq written /\ \A d \in E : d.k = k /\ d.s <= s
    BY DEF Hits
  <2>4. e \in E /\ \A d \in E : d = e \/ Before(e, d)
    BY <2>1, <2>2, <2>3, EndsOf
  <2>5. \A d \in written : d.k = k /\ d.s <= s => d \in E
    BY DEF Hits
  <2>. HIDE DEF E, e
  <2>6. e \in written /\ e.k = k /\ e.s \in Int /\ k \in Int
    BY <2>1, <2>3, <2>4, WrittenFields
  <2>7. NewestAt(e, s)
    <3>1. ASSUME NEW d \in written, d.k = k, d.s <= s PROVE d.s <= e.s
      <4>1. d = e \/ Before(e, d)
        BY <2>4, <2>5, <3>1
      <4>2. d.s \in Int
        BY <2>1, WrittenFields
      <4>. QED
        BY <2>6, <3>1, <4>1, <4>2 DEF Before
    <3>. QED
      BY <2>3, <2>4, <2>6, <3>1 DEF NewestAt
  <2>8. e \in memtable \cup immtable \cup Stored
    BY <2>2, <2>6, <2>7 DEF KeptInv
  <2>. QED
    BY <2>1, <2>2, <2>6, <2>7, <2>8, GetFinds
<1>. QED
  BY <1>1, Invariance, Retention, NewestFirst, PTL
=============================================================================
