----------------------------- MODULE Repair_proofs -----------------------------
(***************************************************************************)
(* Proofs about the repairer, for every directory it may be given and any  *)
(* number of crashes and runs: no step of it destroys what could be read,  *)
(* and a run that resolves lists exactly the tables that can be read and   *)
(* leaves a database that answers from the last file that has a key, logs  *)
(* before tables; with the two exceptions that RepairedReads names.        *)
(***************************************************************************)
EXTENDS Repair, FiniteNumbers, SequenceTheorems

-----------------------------------------------------------------------------
(* The inductive invariant.                                                *)

(* A directory has finitely many numbered files.                           *)
Numbered ==
  /\ IsFiniteSet(DOMAIN logs) /\ DOMAIN logs \subseteq Nat
  /\ IsFiniteSet(DOMAIN tables) /\ DOMAIN tables \subseteq Nat

(* While tables are written, the next number is above every table, so that *)
(* none is overwritten; the one under way is not readable.                 *)
OutputInv ==
  /\ pc \in {"convert", "build", "copy"} =>
       nextFileNumber \in Nat /\ \A n \in DOMAIN tables : n < nextFileNumber
  /\ pc \in {"build", "copy"} =>
       /\ nextFileNumber - 1 \in DOMAIN tables
       /\ ~tables[nextFileNumber - 1].whole

Once(s) == \A i, j \in 1..Len(s) : s[i] = s[j] => i = j

(* A log is converted once, then archived once: a rename never replaces a  *)
(* log in lost/.                                                           *)
LogsOnce ==
  /\ todo \in Seq(DOMAIN logs \ archiving) /\ Once(todo)
  /\ archiving \subseteq DOMAIN logs
  /\ pc = "down" => archiving = {}
  /\ pc = "build" => todo # <<>>
  /\ \A n \in DOMAIN logs : <<"log", n>> \notin DOMAIN lost

(* A table is scanned once, and never the one that is being written; only  *)
(* a table without readable entries is taken away.                         *)
TablesOnce ==
  /\ unread \in Seq(DOMAIN tables) /\ Once(unread)
  /\ pc \in {"build", "copy"} =>
       \A i \in 1..Len(unread) : unread[i] # nextFileNumber - 1
  /\ pc = "copy" => unread # <<>> /\ ~ReadsThrough(tables[Head(unread)])
  /\ \A n \in Nat : <<"table", n>> \in DOMAIN lost => lost[<<"table", n>>] = {}

IInv == Numbered /\ OutputInv /\ LogsOnce /\ TablesOnce /\ NothingVanishes

-----------------------------------------------------------------------------
(* The entry is where a reader, or whoever looks into lost/, finds it:     *)
(* with the logs l, the lost files x and the tables t.                     *)
HeldIn(e, l, x, t) ==
  \/ \E n \in DOMAIN l : e \in l[n]
  \/ \E f \in DOMAIN x : e \in x[f]
  \/ \E n \in DOMAIN t : t[n].whole /\ e \in t[n].recs

LEMMA HeldInUnion ==
  ASSUME NEW e, NEW l, NEW x, NEW t
  PROVE  e \in (UNION Range(l)) \cup (UNION Range(x))
                 \cup (UNION {t[n].recs : n \in SoundTables(t)})
           <=> HeldIn(e, l, x, t)
<1>1. e \in UNION Range(l) <=> \E n \in DOMAIN l : e \in l[n]
  BY DEF Range
<1>2. e \in UNION Range(x) <=> \E f \in DOMAIN x : e \in x[f]
  BY DEF Range
<1>3. e \in UNION {t[n].recs : n \in SoundTables(t)}
        <=> \E n \in DOMAIN t : t[n].whole /\ e \in t[n].recs
  BY DEF SoundTables
<1>. QED
  BY <1>1, <1>2, <1>3 DEF HeldIn

LEMMA HeldIsKept ==
  /\ NothingVanishes <=> \A e \in Given : HeldIn(e, logs, lost, tables)
  /\ NothingVanishes' <=> \A e \in Given' : HeldIn(e, logs', lost', tables')
BY HeldInUnion DEF NothingVanishes

(* A step after which everything is still held keeps NothingVanishes.      *)
LEMMA HeldStays ==
  ASSUME NothingVanishes, UNCHANGED found,
         \A e : HeldIn(e, logs, lost, tables) => HeldIn(e, logs', lost', tables')
  PROVE  NothingVanishes'
<1>1. Given' = Given
  BY DEF Given, SoundTables
<1>2. \A e \in Given : HeldIn(e, logs, lost, tables)
  BY HeldIsKept
<1>. QED
  BY <1>1, <1>2, HeldIsKept

(* Files are added and removed one at a time.                              *)
LEMMA WithoutRemoves ==
  ASSUME NEW f, NEW n
  PROVE  /\ DOMAIN Without(f, n) = DOMAIN f \ {n}
         /\ \A m \in DOMAIN f \ {n} : Without(f, n)[m] = f[m]
BY DEF Without, Restrict

(* The tail of a sequence without repetition has its other elements.       *)
LEMMA TailOnce ==
  ASSUME NEW S, NEW s \in Seq(S), s # <<>>, Once(s)
  PROVE  /\ Head(s) \in S /\ Head(s) = s[1] /\ 1 \in 1..Len(s)
         /\ Tail(s) \in Seq(S \ {Head(s)}) /\ Once(Tail(s))
         /\ \A i \in 1..Len(Tail(s)) : i + 1 \in 1..Len(s) /\ Tail(s)[i] = s[i + 1]
<1>1. /\ Head(s) \in S /\ Head(s) = s[1] /\ Tail(s) \in Seq(S)
      /\ Len(s) \in Nat /\ Len(s) # 0 /\ Len(Tail(s)) = Len(s) - 1
      /\ \A i \in 1..Len(Tail(s)) : Tail(s)[i] = s[i + 1]
  BY HeadTailProperties, EmptySeq, LenProperties
<1>2. \A i \in 1..Len(Tail(s)) : i + 1 \in 1..Len(s)
  BY <1>1
<1>3. 1 \in 1..Len(s)
  BY <1>1
<1>4. ASSUME NEW i \in 1..Len(Tail(s)) PROVE Tail(s)[i] \in S \ {Head(s)}
  <2>1. Tail(s)[i] \in S
    BY <1>1, ElementOfSeq
  <2>2. i + 1 # 1
    OBVIOUS
  <2>. QED
    BY <1>1, <1>2, <1>3, <2>1, <2>2 DEF Once
<1>5. Tail(s) \in Seq(S \ {Head(s)})
  <2>. DEFINE t == Tail(s)
  <2>1. t \in Seq(S) /\ Len(t) \in Nat /\ \A i \in 1..Len(t) : t[i] \in S \ {Head(s)}
    BY <1>1, <1>4
  <2>. HIDE DEF t
  <2>2. t = [i \in 1..Len(t) |-> t[i]]
    BY <2>1, LenProperties
  <2>3. [i \in 1..Len(t) |-> t[i]] \in Seq(S \ {Head(s)})
    BY <2>1, IsASeq
  <2>. QED
    BY <2>2, <2>3 DEF t
<1>6. Once(Tail(s))
  <2>. SUFFICES ASSUME NEW i \in 1..Len(Tail(s)), NEW j \in 1..Len(Tail(s)),
                       Tail(s)[i] = Tail(s)[j]
                PROVE  i = j
    BY DEF Once
  <2>1. i + 1 = j + 1
    BY <1>1, <1>2 DEF Once
  <2>. QED
    BY <2>1
<1>. QED
  BY <1>1, <1>2, <1>3, <1>5, <1>6

(* Ascending lists the elements of a set once each.                        *)
LEMMA AscendingLists ==
  ASSUME NEW s, s \subseteq Nat, IsFiniteSet(s)
  PROVE  Ascending(s) \in Seq(s) /\ Once(Ascending(s))
<1>. DEFINE a == Ascending(s)
<1>1. Cardinality(s) \in Nat
  BY FS_CardinalityType
<1>2. ASSUME NEW i \in 1..Cardinality(s)
      PROVE  a[i] \in s /\ Rank(s, a[i]) = i
  <2>1. \E n \in s : Rank(s, n) = i
    BY RankIsBijective
  <2>2. a[i] = CHOOSE n \in s : Rank(s, n) = i
    BY DEF Ascending, Rank
  <2>. QED
    BY <2>1, <2>2
<1>3. a \in Seq(s)
  <2>1. a = [i \in 1..Cardinality(s) |-> a[i]]
    BY DEF Ascending
  <2>. HIDE DEF a
  <2>2. [i \in 1..Cardinality(s) |-> a[i]] \in Seq(s)
    BY <1>1, <1>2, IsASeq
  <2>. QED
    BY <2>1, <2>2
<1>4. Len(a) = Cardinality(s)
  <2>1. DOMAIN a = 1..Cardinality(s)
    BY DEF Ascending
  <2>. HIDE DEF a
  <2>. QED
    BY <1>1, <1>3, <2>1, LenProperties
<1>. HIDE DEF a
<1>5. Once(a)
  BY <1>2, <1>4 DEF Once
<1>. QED
  BY <1>3, <1>5 DEF a

(* FirstFree is above every log and every table.                           *)
LEMMA FirstFreeIsAbove ==
  ASSUME Numbered
  PROVE  /\ FirstFree \in Nat
         /\ \A n \in DOMAIN logs \cup DOMAIN tables : n < FirstFree
<1>. DEFINE D == DOMAIN logs \cup DOMAIN tables
            above == {n + 1 : n \in D}
            X == IF temp.there THEN {2} ELSE {}
            all == {1} \cup above \cup X
<1>1. IsFiniteSet(D) /\ D \subseteq Nat
  BY FS_Union DEF Numbered
<1>2. IsFiniteSet(above)
  <2>. DEFINE f == [n \in D |-> n + 1]
  <2>1. IsFiniteSet({f[x] : x \in DOMAIN f})
    <3>1. IsFiniteSet(DOMAIN f)
      BY <1>1
    <3>. HIDE DEF f
    <3>. QED
      BY <3>1, FiniteImage
  <2>2. {f[x] : x \in DOMAIN f} = above
    OBVIOUS
  <2>. QED
    BY <2>1, <2>2
<1>3. IsFiniteSet(X) /\ IsFiniteSet({1})
  BY FS_Singleton, FS_EmptySet
<1>4. above \subseteq Nat /\ \A n \in D : n + 1 \in above
  BY <1>1
<1>5. X \subseteq Nat
  OBVIOUS
<1>6. FirstFree = Max(all)
  BY DEF FirstFree
<1>. HIDE DEF above, X
<1>7. IsFiniteSet(all) /\ all \subseteq Nat /\ all # {}
  <2>1. IsFiniteSet({1} \cup above)
    BY <1>2, <1>3, FS_Union
  <2>2. IsFiniteSet(({1} \cup above) \cup X)
    BY <1>3, <2>1, FS_Union
  <2>. QED
    BY <1>4, <1>5, <2>2
<1>8. \A n \in D : n + 1 \in all
  BY <1>4
<1>. HIDE DEF all, D
<1>9. Max(all) \in all /\ \A y \in all : y <= Max(all)
  BY <1>7, MaxOfFinite
<1>10. ASSUME NEW n \in D PROVE n < Max(all)
  <2>1. n \in Nat /\ n + 1 <= Max(all) /\ Max(all) \in Nat
    BY <1>1, <1>7, <1>8, <1>9
  <2>. QED
    BY <2>1
<1>. QED
  BY <1>6, <1>7, <1>9, <1>10 DEF D

-----------------------------------------------------------------------------
LEMMA InitEstablishes == Init => IInv
<1>. SUFFICES ASSUME Init PROVE IInv
  OBVIOUS
<1>1. Numbered
  BY RepairAssumption DEF Init, Numbered
<1>2. OutputInv
  BY DEF Init, OutputInv
<1>3. DOMAIN lost = {} /\ todo = <<>> /\ unread = <<>> /\ archiving = {}
  BY DEF Init
<1>4. Len(<<>>) = 0 /\ \A S : <<>> \in Seq(S)
  BY EmptySeq
<1>5. LogsOnce
  BY <1>3, <1>4 DEF Init, LogsOnce, Once
<1>6. TablesOnce
  BY <1>3, <1>4 DEF Init, TablesOnce, Once
<1>7. NothingVanishes
  BY DEF Init, NothingVanishes, Given
<1>. QED
  BY <1>1, <1>2, <1>5, <1>6, <1>7 DEF IInv

LEMMA FindFilesPreserves ==
  ASSUME IInv, FindFiles
  PROVE  IInv'
<1>. USE DEF IInv
<1>1. /\ UNCHANGED <<logs, tables, lost, archiving, found>>
      /\ todo' = Ascending(DOMAIN logs) /\ unread' = Ascending(DOMAIN tables)
      /\ nextFileNumber' = FirstFree /\ pc' = "convert" /\ pc = "down"
  BY DEF FindFiles, disk
<1>2. Numbered'
  BY <1>1 DEF Numbered
<1>3. OutputInv'
  BY <1>1, FirstFreeIsAbove DEF OutputInv
<1>4. LogsOnce'
  <2>1. Ascending(DOMAIN logs) \in Seq(DOMAIN logs) /\ Once(Ascending(DOMAIN logs))
    BY AscendingLists DEF Numbered
  <2>2. archiving = {} /\ DOMAIN logs \ {} = DOMAIN logs
    BY <1>1 DEF LogsOnce
  <2>. QED
    BY <1>1, <2>1, <2>2 DEF LogsOnce
<1>5. TablesOnce'
  <2>1. Ascending(DOMAIN tables) \in Seq(DOMAIN tables) /\ Once(Ascending(DOMAIN tables))
    BY AscendingLists DEF Numbered
  <2>. QED
    BY <1>1, <2>1 DEF TablesOnce
<1>6. NothingVanishes'
  BY <1>1, HeldStays
<1>. QED
  BY <1>2, <1>3, <1>4, <1>5, <1>6

(* A step that touches neither logs nor tables, and converts and scans     *)
(* nothing.                                                                *)
LEMMA OtherPreserves ==
  ASSUME IInv,
         UNCHANGED <<logs, tables, lost, found, archiving, todo, unread, nextFileNumber>>,
         pc' = pc \/ pc' \notin {"down", "convert", "build", "copy"}
  PROVE  IInv'
<1>. USE DEF IInv
<1>1. Numbered'
  BY DEF Numbered
<1>2. OutputInv'
  BY DEF OutputInv
<1>3. LogsOnce'
  BY DEF LogsOnce
<1>4. TablesOnce'
  BY DEF TablesOnce
<1>5. NothingVanishes'
  BY HeldStays
<1>. QED
  BY <1>1, <1>2, <1>3, <1>4, <1>5

LEMMA CrashPreserves ==
  ASSUME IInv, Crash
  PROVE  IInv'
<1>. USE DEF IInv
<1>1. /\ UNCHANGED <<logs, tables, lost, found>> /\ pc' = "down"
      /\ archiving' = {} /\ todo' = <<>> /\ unread' = <<>>
  BY DEF Crash, disk
<1>2. Numbered'
  BY <1>1 DEF Numbered
<1>3. OutputInv'
  BY <1>1 DEF OutputInv
<1>4. Len(<<>>) = 0 /\ \A S : <<>> \in Seq(S)
  BY EmptySeq
<1>5. LogsOnce'
  BY <1>1, <1>4 DEF LogsOnce, Once
<1>6. TablesOnce'
  BY <1>1, <1>4 DEF TablesOnce, Once
<1>7. NothingVanishes'
  BY <1>1, HeldStays
<1>. QED
  BY <1>2, <1>3, <1>5, <1>6, <1>7

LEMMA ArchivePreserves ==
  ASSUME IInv, NEW n \in archiving, Archive(n)
  PROVE  IInv'
<1>. USE DEF IInv
<1>1. /\ archiving' = archiving \ {n} /\ logs' = Without(logs, n)
      /\ lost' = Put(lost, <<"log", n>>, logs[n])
      /\ UNCHANGED <<tables, found, pc, todo, unread, nextFileNumber>>
  BY DEF Archive
<1>2. n \in DOMAIN logs /\ <<"log", n>> \notin DOMAIN lost
  BY DEF LogsOnce
<1>3. /\ DOMAIN logs' = DOMAIN logs \ {n}
      /\ \A m \in DOMAIN logs' : logs'[m] = logs[m]
  BY <1>1, WithoutRemoves
<1>4. /\ DOMAIN lost' = DOMAIN lost \cup {<<"log", n>>}
      /\ lost'[<<"log", n>>] = logs[n]
      /\ \A f \in DOMAIN lost : lost'[f] = lost[f]
  BY <1>1, <1>2 DEF Put
<1>5. Numbered'
  BY <1>1, <1>3, FS_RemoveElement DEF Numbered
<1>6. OutputInv'
  BY <1>1 DEF OutputInv
<1>7. LogsOnce'
  <2>1. DOMAIN logs' \ archiving' = DOMAIN logs \ archiving
    BY <1>1, <1>3
  <2>2. \A m \in DOMAIN logs' : <<"log", m>> \notin DOMAIN lost'
    BY <1>3, <1>4 DEF LogsOnce
  <2>3. archiving' \subseteq DOMAIN logs'
    BY <1>1, <1>3 DEF LogsOnce
  <2>4. pc = "down" => archiving' = {}
    BY <1>1 DEF LogsOnce
  <2>. QED
    BY <1>1, <2>1, <2>2, <2>3, <2>4 DEF LogsOnce
<1>8. TablesOnce'
  <2>1. \A m \in Nat : <<"table", m>> # <<"log", n>>
    OBVIOUS
  <2>2. \A m \in Nat : <<"table", m>> \in DOMAIN lost' => lost'[<<"table", m>>] = {}
    BY <1>4, <2>1 DEF TablesOnce
  <2>. QED
    BY <1>1, <2>2 DEF TablesOnce
<1>9. ASSUME NEW e, HeldIn(e, logs, lost, tables)
      PROVE  HeldIn(e, logs', lost', tables')
  <2>1. CASE \E m \in DOMAIN logs : e \in logs[m]
    <3>1. PICK m \in DOMAIN logs : e \in logs[m]
      BY <2>1
    <3>2. CASE m = n
      BY <1>4, <3>1, <3>2 DEF HeldIn
    <3>3. CASE m # n
      BY <1>3, <3>1, <3>3 DEF HeldIn
    <3>. QED
      BY <3>2, <3>3
  <2>2. CASE \E f \in DOMAIN lost : e \in lost[f]
    BY <1>4, <2>2 DEF HeldIn
  <2>3. CASE \E m \in DOMAIN tables : tables[m].whole /\ e \in tables[m].recs
    BY <1>1, <2>3 DEF HeldIn
  <2>. QED
    BY <1>9, <2>1, <2>2, <2>3 DEF HeldIn
<1>10. NothingVanishes'
  BY <1>1, <1>9, HeldStays
<1>. QED
  BY <1>5, <1>6, <1>7, <1>8, <1>10

(* What holds after a table has been opened, be it for a log or for the    *)
(* copy of a table.                                                        *)
LEMMA OpenedOutput ==
  ASSUME IInv, pc = "convert", pc' \in {"build", "copy"},
         tables' = Put(tables, nextFileNumber, [recs |-> {}, whole |-> FALSE]),
         nextFileNumber' = nextFileNumber + 1,
         UNCHANGED <<logs, lost, found, unread>>
  PROVE  /\ Numbered' /\ OutputInv' /\ NothingVanishes'
         /\ unread' \in Seq(DOMAIN tables') /\ Once(unread')
         /\ \A n \in DOMAIN tables : tables'[n] = tables[n]
         /\ \A i \in 1..Len(unread') : unread'[i] # nextFileNumber' - 1
<1>. USE DEF IInv
<1>1. nextFileNumber \in Nat /\ \A n \in DOMAIN tables : n < nextFileNumber
  BY DEF OutputInv
<1>2. nextFileNumber \notin DOMAIN tables
  BY <1>1
<1>3. /\ DOMAIN tables' = DOMAIN tables \cup {nextFileNumber}
      /\ tables'[nextFileNumber] = [recs |-> {}, whole |-> FALSE]
      /\ \A n \in DOMAIN tables : tables'[n] = tables[n]
  BY <1>2, SMT DEF Put
<1>4. Numbered'
  BY <1>1, <1>3, FS_AddElement DEF Numbered
<1>5. OutputInv'
  <2>1. nextFileNumber' - 1 = nextFileNumber
    BY <1>1
  <2>2. \A n \in DOMAIN tables' : n < nextFileNumber'
    BY <1>1, <1>3, <1>4 DEF Numbered
  <2>3. ~tables'[nextFileNumber].whole
    BY <1>3
  <2>. QED
    BY <1>1, <1>3, <2>1, <2>2, <2>3 DEF OutputInv
<1>6. /\ unread \in Seq(DOMAIN tables) /\ Once(unread) /\ Len(unread) \in Nat
      /\ \A i \in 1..Len(unread) : unread[i] \in DOMAIN tables
  BY LenProperties, ElementOfSeq DEF TablesOnce
<1>7. unread \in Seq(DOMAIN tables')
  <2>1. unread = [i \in 1..Len(unread) |-> unread[i]]
    BY <1>6, LenProperties
  <2>2. [i \in 1..Len(unread) |-> unread[i]] \in Seq(DOMAIN tables')
    BY <1>3, <1>6, IsASeq
  <2>. QED
    BY <2>1, <2>2
<1>8. \A i \in 1..Len(unread) : unread[i] # nextFileNumber
  BY <1>2, <1>6
<1>9. ASSUME NEW e, HeldIn(e, logs, lost, tables)
      PROVE  HeldIn(e, logs', lost', tables')
  BY <1>3, <1>9 DEF HeldIn
<1>10. NothingVanishes'
  BY <1>9, HeldStays
<1>. QED
  BY <1>1, <1>3, <1>4, <1>5, <1>6, <1>7, <1>8, <1>10

LEMMA StartConversionPreserves ==
  ASSUME IInv, StartConversion
  PROVE  IInv'
<1>. USE DEF IInv
<1>1. /\ pc = "convert" /\ pc' = "build" /\ todo # <<>>
      /\ tables' = Put(tables, nextFileNumber, [recs |-> {}, whole |-> FALSE])
      /\ nextFileNumber' = nextFileNumber + 1
      /\ UNCHANGED <<logs, lost, found, archiving, todo, unread>>
  BY DEF StartConversion
<1>2. /\ Numbered' /\ OutputInv' /\ NothingVanishes'
      /\ unread' \in Seq(DOMAIN tables') /\ Once(unread')
      /\ \A i \in 1..Len(unread') : unread'[i] # nextFileNumber' - 1
  BY <1>1, OpenedOutput
<1>3. LogsOnce'
  BY <1>1 DEF LogsOnce
<1>4. TablesOnce'
  BY <1>1, <1>2 DEF TablesOnce
<1>. QED
  BY <1>2, <1>3, <1>4

LEMMA StartCopyPreserves ==
  ASSUME IInv, StartCopy
  PROVE  IInv'
<1>. USE DEF IInv
<1>1. /\ pc = "convert" /\ pc' = "copy" /\ unread # <<>>
      /\ ~ReadsThrough(tables[Head(unread)])
      /\ tables' = Put(tables, nextFileNumber, [recs |-> {}, whole |-> FALSE])
      /\ nextFileNumber' = nextFileNumber + 1
      /\ UNCHANGED <<logs, lost, found, archiving, todo, unread>>
  BY DEF StartCopy, Scanning
<1>2. /\ Numbered' /\ OutputInv' /\ NothingVanishes'
      /\ unread' \in Seq(DOMAIN tables') /\ Once(unread')
      /\ \A n \in DOMAIN tables : tables'[n] = tables[n]
      /\ \A i \in 1..Len(unread') : unread'[i] # nextFileNumber' - 1
  BY <1>1, OpenedOutput
<1>3. LogsOnce'
  BY <1>1 DEF LogsOnce
<1>4. Head(unread) \in DOMAIN tables
  BY <1>1, TailOnce DEF TablesOnce
<1>5. tables'[Head(unread)] = tables[Head(unread)]
  BY <1>2, <1>4
<1>6. TablesOnce'
  BY <1>1, <1>2, <1>5 DEF TablesOnce, ReadsThrough
<1>. QED
  BY <1>2, <1>3, <1>6

LEMMA EndConversionPreserves ==
  ASSUME IInv, EndConversion
  PROVE  IInv'
<1>. USE DEF IInv
<1>. DEFINE recs == logs[Head(todo)]
            out == nextFileNumber - 1
<1>1. /\ pc = "build" /\ pc' = "convert" /\ todo # <<>>
      /\ archiving' = archiving \cup {Head(todo)} /\ todo' = Tail(todo)
      /\ UNCHANGED <<logs, lost, found, nextFileNumber>>
  BY DEF EndConversion, AfterConversion, LogsOnce
<1>2. \/ /\ tables' = [tables EXCEPT ![out] = [recs |-> recs, whole |-> TRUE]]
         /\ unread' = Append(unread, out)
      \/ tables' = tables /\ unread' = unread
  BY DEF EndConversion
<1>3. /\ out \in DOMAIN tables /\ ~tables[out].whole
      /\ \A i \in 1..Len(unread) : unread[i] # out
      /\ unread \in Seq(DOMAIN tables) /\ Once(unread) /\ Len(unread) \in Nat
  BY <1>1, LenProperties DEF OutputInv, TablesOnce
<1>. HIDE DEF out, recs
<1>4. DOMAIN tables' = DOMAIN tables /\ \A n \in DOMAIN tables : n # out => tables'[n] = tables[n]
  BY <1>2
<1>5. Numbered'
  BY <1>1, <1>4 DEF Numbered
<1>6. OutputInv'
  BY <1>1, <1>4 DEF OutputInv
<1>7. LogsOnce'
  <2>1. todo \in Seq(DOMAIN logs \ archiving) /\ Once(todo)
    BY DEF LogsOnce
  <2>2. /\ Head(todo) \in DOMAIN logs \ archiving
        /\ Tail(todo) \in Seq((DOMAIN logs \ archiving) \ {Head(todo)}) /\ Once(Tail(todo))
    BY <1>1, <2>1, TailOnce
  <2>3. (DOMAIN logs \ archiving) \ {Head(todo)} = DOMAIN logs' \ archiving'
    BY <1>1
  <2>. QED
    BY <1>1, <2>2, <2>3 DEF LogsOnce
<1>8. TablesOnce'
  <2>1. CASE unread' = unread
    BY <1>1, <1>3, <1>4, <2>1 DEF TablesOnce
  <2>2. CASE unread' = Append(unread, out)
    <3>1. /\ unread' \in Seq(DOMAIN tables) /\ Len(unread') = Len(unread) + 1
          /\ \A i \in 1..Len(unread) : unread'[i] = unread[i]
          /\ unread'[Len(unread) + 1] = out
      BY <1>3, <2>2, AppendProperties
    <3>2. Once(unread')
      <4>. SUFFICES ASSUME NEW i \in 1..Len(unread'), NEW j \in 1..Len(unread'),
                           unread'[i] = unread'[j]
                    PROVE  i = j
        BY DEF Once
      <4>1. /\ i \in 1..Len(unread) \/ i = Len(unread) + 1
            /\ j \in 1..Len(unread) \/ j = Len(unread) + 1
        BY <1>3, <3>1
      <4>. QED
        BY <1>3, <3>1, <4>1 DEF Once
    <3>. QED
      BY <1>1, <1>4, <3>1, <3>2 DEF TablesOnce
  <2>. QED
    BY <1>2, <2>1, <2>2
<1>9. ASSUME NEW e, HeldIn(e, logs, lost, tables)
      PROVE  HeldIn(e, logs', lost', tables')
  BY <1>1, <1>3, <1>4, <1>9 DEF HeldIn
<1>10. NothingVanishes'
  BY <1>1, <1>9, HeldStays
<1>. QED
  BY <1>5, <1>6, <1>7, <1>8, <1>10

LEMMA ListTablePreserves ==
  ASSUME IInv, ListTable
  PROVE  IInv'
<1>. USE DEF IInv
<1>1. /\ pc = "convert" /\ unread # <<>> /\ unread' = Tail(unread)
      /\ UNCHANGED <<logs, tables, lost, found, pc, archiving, todo, nextFileNumber>>
  BY DEF ListTable, Scanning, disk
<1>2. Numbered'
  BY <1>1 DEF Numbered
<1>3. OutputInv'
  BY <1>1 DEF OutputInv
<1>4. LogsOnce'
  BY <1>1 DEF LogsOnce
<1>5. unread' \in Seq(DOMAIN tables) /\ Once(unread')
  BY <1>1, TailOnce, HeadTailProperties DEF TablesOnce
<1>6. TablesOnce'
  BY <1>1, <1>5 DEF TablesOnce
<1>7. NothingVanishes'
  BY <1>1, HeldStays
<1>. QED
  BY <1>2, <1>3, <1>4, <1>6, <1>7

LEMMA EndCopyPreserves ==
  ASSUME IInv, EndCopy
  PROVE  IInv'
<1>. USE DEF IInv
<1>. DEFINE n == Head(unread)
            out == nextFileNumber - 1
<1>1. /\ pc = "copy" /\ pc' = "convert" /\ unread' = Tail(unread)
      /\ UNCHANGED <<logs, found, archiving, todo, nextFileNumber>>
      /\ \/ /\ tables[n].whole /\ lost' = Put(lost, <<"table", n>>, {})
            /\ tables' = Without(tables, n)
         \/ tables' = Without(tables, out) /\ lost' = lost
  BY DEF EndCopy
<1>2. /\ out \in DOMAIN tables /\ ~tables[out].whole
      /\ \A i \in 1..Len(unread) : unread[i] # out
      /\ unread # <<>> /\ ~ReadsThrough(tables[n])
  BY <1>1 DEF OutputInv, TablesOnce
<1>3. /\ n \in DOMAIN tables /\ Once(Tail(unread))
      /\ Tail(unread) \in Seq(DOMAIN tables \ {n})
      /\ \A i \in 1..Len(Tail(unread)) : i + 1 \in 1..Len(unread) /\ Tail(unread)[i] = unread[i + 1]
  BY <1>2, TailOnce DEF TablesOnce
<1>4. n \in Nat
  BY <1>3 DEF Numbered
<1>. HIDE DEF n, out
<1>5. PICK gone \in {n, out} :
        /\ tables' = Without(tables, gone)
        /\ tables[gone].whole => tables[gone].recs = {}
        /\ lost' = lost \/ lost' = Put(lost, <<"table", n>>, {})
  <2>1. ReadsThrough(tables[n]) <=> tables[n].whole /\ tables[n].recs # {}
    BY DEF ReadsThrough
  <2>. QED
    BY <1>1, <1>2, <2>1
<1>6. /\ DOMAIN tables' = DOMAIN tables \ {gone}
      /\ \A m \in DOMAIN tables' : tables'[m] = tables[m]
  BY <1>5, WithoutRemoves
<1>7. /\ DOMAIN lost \subseteq DOMAIN lost'
      /\ DOMAIN lost' \subseteq DOMAIN lost \cup {<<"table", n>>}
      /\ \A f \in DOMAIN lost : lost'[f] = lost[f]
      /\ <<"table", n>> \in DOMAIN lost' => lost'[<<"table", n>>] = {}
  <2>1. <<"table", n>> \in DOMAIN lost => lost[<<"table", n>>] = {}
    BY <1>4 DEF TablesOnce
  <2>2. CASE lost' = lost
    BY <2>1, <2>2
  <2>3. CASE lost' = Put(lost, <<"table", n>>, {})
    <3>1. /\ DOMAIN lost' = DOMAIN lost \cup {<<"table", n>>}
          /\ lost'[<<"table", n>>] = {}
          /\ \A f \in DOMAIN lost : f # <<"table", n>> => lost'[f] = lost[f]
      BY <2>3 DEF Put
    <3>. QED
      BY <2>1, <3>1
  <2>. QED
    BY <1>5, <2>2, <2>3
<1>8. Numbered'
  BY <1>1, <1>6, FS_RemoveElement DEF Numbered
<1>9. OutputInv'
  BY <1>1, <1>6 DEF OutputInv
<1>10. LogsOnce'
  <2>1. \A m : <<"log", m>> # <<"table", n>>
    OBVIOUS
  <2>2. \A m \in DOMAIN logs : <<"log", m>> \notin DOMAIN lost'
    BY <1>7, <2>1 DEF LogsOnce
  <2>. QED
    BY <1>1, <2>2 DEF LogsOnce
<1>11. unread' \in Seq(DOMAIN tables')
  <2>. DEFINE t == Tail(unread)
  <2>1. /\ t \in Seq(DOMAIN tables \ {n}) /\ Len(t) \in Nat
        /\ \A i \in 1..Len(t) : t[i] \in DOMAIN tables \ {n} /\ t[i] # out
    BY <1>2, <1>3, LenProperties, ElementOfSeq
  <2>. HIDE DEF t
  <2>2. t = [i \in 1..Len(t) |-> t[i]]
    BY <2>1, LenProperties
  <2>3. [i \in 1..Len(t) |-> t[i]] \in Seq(DOMAIN tables')
    BY <1>6, <2>1, IsASeq
  <2>. QED
    BY <1>1, <2>2, <2>3 DEF t
<1>12. TablesOnce'
  <2>1. \A m \in Nat : <<"table", m>> \in DOMAIN lost' => lost'[<<"table", m>>] = {}
    BY <1>7 DEF TablesOnce
  <2>. QED
    BY <1>1, <1>3, <1>11, <2>1 DEF TablesOnce
<1>13. ASSUME NEW e, HeldIn(e, logs, lost, tables)
       PROVE  HeldIn(e, logs', lost', tables')
  <2>1. CASE \E m \in DOMAIN logs : e \in logs[m]
    BY <1>1, <2>1 DEF HeldIn
  <2>2. CASE \E f \in DOMAIN lost : e \in lost[f]
    BY <1>7, <2>2 DEF HeldIn
  <2>3. CASE \E m \in DOMAIN tables : tables[m].whole /\ e \in tables[m].recs
    <3>1. PICK m \in DOMAIN tables : tables[m].whole /\ e \in tables[m].recs
      BY <2>3
    <3>2. m # gone
      BY <1>5, <3>1
    <3>. QED
      BY <1>6, <3>1, <3>2 DEF HeldIn
  <2>. QED
    BY <1>13, <2>1, <2>2, <2>3 DEF HeldIn
<1>14. NothingVanishes'
  BY <1>1, <1>13, HeldStays
<1>. QED
  BY <1>8, <1>9, <1>10, <1>12, <1>14

-----------------------------------------------------------------------------
LEMMA NextPreserves ==
  ASSUME IInv, [Next]_vars
  PROVE  IInv'
<1>1. CASE \/ WriteDescriptor \/ ArchiveManifest \/ SubmitInstall \/ Install
           \/ WriteTemp \/ RenameCurrent \/ UNCHANGED vars
  <2>1. /\ UNCHANGED <<logs, tables, lost, found, archiving, todo, unread, nextFileNumber>>
        /\ pc' = pc \/ pc' \notin {"down", "convert", "build", "copy"}
    BY <1>1 DEF WriteDescriptor, ArchiveManifest, SubmitInstall, Install,
       WriteTemp, RenameCurrent, vars, disk, run
  <2>. QED
    BY <2>1, OtherPreserves
<1>2. CASE \E n \in archiving : Archive(n)
  BY <1>2, ArchivePreserves
<1>. QED
  BY <1>1, <1>2, FindFilesPreserves, StartConversionPreserves,
     EndConversionPreserves, ListTablePreserves, StartCopyPreserves,
     EndCopyPreserves, CrashPreserves DEF Next

(* The inductive invariant holds in every reachable state.                 *)
THEOREM Invariance == Spec => []IInv
<1>1. Init => IInv
  BY InitEstablishes
<1>2. IInv /\ [Next]_vars => IInv'
  BY NextPreserves
<1>. QED
  BY <1>1, <1>2, PTL DEF Spec

(* Whatever the repairer finds and whenever it dies, every entry it could  *)
(* read remains in a readable table, in a log or in lost/.                 *)
THEOREM KeepsEverything == Spec => []NothingVanishes
<1>1. IInv => NothingVanishes
  BY DEF IInv
<1>. QED
  BY <1>1, Invariance, PTL

-----------------------------------------------------------------------------
(* What a run that resolves leaves to be read.  A second invariant, beside *)
(* IInv.                                                                   *)

(* The tables that a scan lists.                                           *)
Listable == {n \in DOMAIN tables : ReadsThrough(tables[n])}

(* The logs that are not converted yet.                                    *)
Pending == DOMAIN logs \ archiving

(* What could be read is in a table or in a log not converted yet, and     *)
(* tables have nothing else.                                               *)
OriginInv ==
  /\ found \in Directories
  /\ \A n \in DOMAIN logs : n \in DOMAIN found.logs /\ logs[n] = found.logs[n]
  /\ \A n \in Listable : IsFiniteSet(tables[n].recs) /\ tables[n].recs \subseteq Readable
  /\ \A e \in Readable :
       \/ \E n \in Listable : e \in tables[n].recs
       \/ \E n \in Pending : e \in logs[n] /\ Convertible(logs[n])

Increasing(s) == \A i, j \in 1..Len(s) : i < j => s[i] < s[j]

(* A run converts every log, in the order of the numbers, and scans every  *)
(* table.                                                                  *)
CourseInv ==
  /\ pc # "down" => \A n \in Pending : \E i \in 1..Len(todo) : todo[i] = n
  /\ Increasing(todo)
  /\ pc \notin {"down", "convert", "build"} => todo = <<>>
  /\ pc \notin {"down", "convert", "build", "copy"} => unread = <<>>
  /\ pc # "down" =>
       \A n \in Listable : n \in infos \/ \E i \in 1..Len(unread) : unread[i] = n
  /\ infos \subseteq Listable

PendingLogs  == [n \in {m \in Pending : Convertible(logs[m])} |-> logs[n]]
ListedTables == [n \in Listable |-> tables[n].recs]

(* The logs not converted yet are the last ones, and their order and that  *)
(* of the tables is such that every key has its latest value.  After a     *)
(* crash between the conversion of a log and its archiving this is not so. *)
OrderInv ==
  \A k : Latest(k) =
    Searched(IF \E n \in DOMAIN PendingLogs : Has(PendingLogs[n], k)
             THEN PendingLogs ELSE ListedTables, k)

(* An edit lists the tables and allocates above them.                      *)
Lists(edit) == edit.version = Listable /\ \A n \in Listable : n < edit.next

Installed == 1 \in DOMAIN manifests /\ manifests[1].good /\ Lists(manifests[1])

(* Where the edit is, from 1.dbtmp to the manifest that CURRENT names.     *)
EditInv ==
  /\ temp.text => pc = "current"
  /\ installing => pc = "truncate"
  /\ pc = "manifests" \/ installing => temp.there /\ Lists(temp)
  /\ pc = "truncate" => installing \/ Installed
  /\ pc = "current" => temp.there /\ Installed
  /\ pc = "resolved" => current = 1 /\ Installed

AnswerInv ==
  /\ OriginInv /\ CourseInv
  /\ temp.version \subseteq Listable
  /\ ~overtaken => EditInv
  /\ ~reconverted => OrderInv

-----------------------------------------------------------------------------
LEMMA AscendingIncreases ==
  ASSUME NEW s, s \subseteq Nat, IsFiniteSet(s)
  PROVE  /\ Ascending(s) \in Seq(s) /\ Increasing(Ascending(s))
         /\ \A n \in s : \E i \in 1..Len(Ascending(s)) : Ascending(s)[i] = n
<1>. DEFINE a == Ascending(s)
<1>1. Cardinality(s) \in Nat
  BY FS_CardinalityType
<1>2. ASSUME NEW i \in 1..Cardinality(s)
      PROVE  a[i] \in s /\ Rank(s, a[i]) = i
  <2>1. \E n \in s : Rank(s, n) = i
    BY RankIsBijective
  <2>2. a[i] = CHOOSE n \in s : Rank(s, n) = i
    BY DEF Ascending, Rank
  <2>. QED
    BY <2>1, <2>2
<1>3. DOMAIN a = 1..Cardinality(s)
  BY DEF Ascending
<1>4. a \in Seq(s)
  BY AscendingLists
<1>. HIDE DEF a
<1>5. Len(a) = Cardinality(s)
  BY <1>1, <1>3, <1>4, LenProperties
<1>6. Increasing(a)
  <2>. SUFFICES ASSUME NEW i \in 1..Len(a), NEW j \in 1..Len(a), i < j
                PROVE  a[i] < a[j]
    BY DEF Increasing
  <2>1. /\ a[i] \in s /\ a[j] \in s /\ a[i] \in Nat /\ a[j] \in Nat
        /\ Rank(s, a[i]) = i /\ Rank(s, a[j]) = j
    BY <1>2, <1>5
  <2>2. a[j] < a[i] => Rank(s, a[j]) < Rank(s, a[i])
    BY <2>1, RankIsBijective
  <2>3. a[j] = a[i] => i = j
    BY <2>1
  <2>. QED
    BY <1>5, <2>1, <2>2, <2>3
<1>7. ASSUME NEW n \in s PROVE \E i \in 1..Len(a) : a[i] = n
  <2>. DEFINE r == Rank(s, n)
  <2>1. r \in 1..Cardinality(s)
    BY RankIsBijective
  <2>. HIDE DEF r
  <2>2. a[r] \in s /\ Rank(s, a[r]) = r
    BY <1>2, <2>1
  <2>3. /\ a[r] < n => Rank(s, a[r]) < Rank(s, n)
        /\ n < a[r] => Rank(s, n) < Rank(s, a[r])
    BY <2>2, RankIsBijective
  <2>4. r \in Nat /\ n \in Nat /\ a[r] \in Nat
    <3>1. r \in Nat
      BY <1>1, <2>1
    <3>2. n \in Nat
      OBVIOUS
    <3>3. a[r] \in Nat
      BY <2>2
    <3>. QED
      BY <3>1, <3>2, <3>3
  <2>5. Rank(s, n) = r
    BY DEF r
  <2>6. a[r] = n
    BY <2>2, <2>3, <2>4, <2>5
  <2>. QED
    BY <1>5, <2>1, <2>6
<1>. QED
  BY <1>4, <1>6, <1>7 DEF a

(* The tail of an increasing sequence increases, above its head, and lists *)
(* what the sequence lists but for the head.                               *)
LEMMA TailIncreases ==
  ASSUME NEW S, NEW s \in Seq(S), s # <<>>
  PROVE  /\ Increasing(s) =>
              Increasing(Tail(s)) /\ \A i \in 1..Len(Tail(s)) : Head(s) < Tail(s)[i]
         /\ \A n : (\E i \in 1..Len(s) : s[i] = n)
                    => n = Head(s) \/ \E i \in 1..Len(Tail(s)) : Tail(s)[i] = n
<1>. DEFINE t == Tail(s)
<1>1. /\ Head(s) = s[1] /\ Len(s) \in Nat /\ Len(s) # 0 /\ Len(t) = Len(s) - 1
      /\ \A i \in 1..Len(t) : t[i] = s[i + 1]
  BY HeadTailProperties, EmptySeq, LenProperties
<1>. HIDE DEF t
<1>2. 1 \in 1..Len(s) /\ \A i \in 1..Len(t) : i + 1 \in 1..Len(s) /\ 1 < i + 1
  BY <1>1
<1>3. ASSUME Increasing(s)
      PROVE  Increasing(t) /\ \A i \in 1..Len(t) : Head(s) < t[i]
  <2>1. \A i \in 1..Len(t) : Head(s) < t[i]
    BY <1>1, <1>2, <1>3 DEF Increasing
  <2>2. ASSUME NEW i \in 1..Len(t), NEW j \in 1..Len(t), i < j
        PROVE  t[i] < t[j]
    <3>1. i + 1 < j + 1
      BY <1>1, <2>2
    <3>. QED
      BY <1>1, <1>2, <1>3, <3>1 DEF Increasing
  <2>. QED
    BY <2>1, <2>2 DEF Increasing
<1>4. ASSUME NEW n, NEW i \in 1..Len(s), s[i] = n
      PROVE  n = Head(s) \/ \E j \in 1..Len(t) : t[j] = n
  <2>1. CASE i = 1
    BY <1>1, <1>4, <2>1
  <2>2. CASE i # 1
    <3>1. i - 1 \in 1..Len(t) /\ (i - 1) + 1 = i
      BY <1>1, <2>2
    <3>. QED
      BY <1>1, <1>4, <3>1
  <2>. QED
    BY <2>1, <2>2
<1>. QED
  BY <1>3, <1>4 DEF t

(* The greatest number of a set is what Max returns.                       *)
LEMMA MaxIs ==
  ASSUME NEW T, T \subseteq Nat, NEW x \in T, \A y \in T : y <= x
  PROVE  Max(T) = x
<1>1. Max(T) \in T /\ \A y \in T : Max(T) >= y
  BY DEF Max
<1>2. Max(T) \in Nat /\ x \in Nat /\ Max(T) >= x /\ Max(T) <= x
  BY <1>1
<1>. QED
  BY <1>2

-----------------------------------------------------------------------------
(* A step that changes no table a scan lists and no log not converted yet. *)
Kept ==
  /\ UNCHANGED found
  /\ Listable' = Listable /\ \A n \in Listable : tables'[n].recs = tables[n].recs
  /\ Pending' = Pending
  /\ DOMAIN logs' \subseteq DOMAIN logs /\ \A n \in DOMAIN logs' : logs'[n] = logs[n]

LEMMA ReadableIs ==
  ASSUME NEW e
  PROVE  e \in Readable <=>
           \/ \E n \in DOMAIN found.logs : Convertible(found.logs[n]) /\ e \in found.logs[n]
           \/ \E n \in SoundTables(found.tables) : e \in found.tables[n].recs
<1>1. e \in (UNION Range(FoundLogs)) <=>
        \E n \in DOMAIN found.logs : Convertible(found.logs[n]) /\ e \in found.logs[n]
  BY DEF FoundLogs, Range
<1>2. e \in (UNION Range(FoundTables)) <=>
        \E n \in SoundTables(found.tables) : e \in found.tables[n].recs
  BY DEF FoundTables, Range
<1>. QED
  BY <1>1, <1>2 DEF Readable

LEMMA ReadableStays == UNCHANGED found => Readable' = Readable
BY DEF Readable, FoundLogs, FoundTables, SoundTables

LEMMA LatestStays == UNCHANGED found => \A k : Latest(k)' = Latest(k)
<1>1. ASSUME UNCHANGED found PROVE FoundLogs' = FoundLogs /\ FoundTables' = FoundTables
  BY <1>1 DEF FoundLogs, FoundTables, SoundTables
<1>. QED
  BY <1>1 DEF Latest

LEMMA KeptContents ==
  ASSUME OriginInv, Kept
  PROVE  OriginInv' /\ (OrderInv => OrderInv')
<1>1. Readable' = Readable
  BY ReadableStays DEF Kept
<1>2. \A n \in Pending : n \in DOMAIN logs' /\ logs'[n] = logs[n]
  BY DEF Kept, Pending
<1>3. OriginInv'
  <2>1. found' \in Directories
    BY DEF Kept, OriginInv
  <2>2. \A n \in DOMAIN logs' : n \in DOMAIN found'.logs /\ logs'[n] = found'.logs[n]
    BY DEF Kept, OriginInv
  <2>3. \A n \in Listable' :
          IsFiniteSet(tables'[n].recs) /\ tables'[n].recs \subseteq Readable'
    BY <1>1 DEF Kept, OriginInv
  <2>4. ASSUME NEW e \in Readable'
        PROVE  \/ \E n \in Listable' : e \in tables'[n].recs
               \/ \E n \in Pending' : e \in logs'[n] /\ Convertible(logs'[n])
    BY <1>1, <1>2 DEF Kept, OriginInv
  <2>. QED
    BY <2>1, <2>2, <2>3, <2>4 DEF OriginInv
<1>4. PendingLogs' = PendingLogs /\ ListedTables' = ListedTables
  <2>1. PendingLogs' = PendingLogs
    BY <1>2 DEF Kept, PendingLogs
  <2>2. ListedTables' = ListedTables
    BY DEF Kept, ListedTables
  <2>. QED
    BY <2>1, <2>2
<1>5. OrderInv => OrderInv'
  BY <1>4, LatestStays DEF Kept, OrderInv
<1>. QED
  BY <1>3, <1>5

(* Logs, tables and manifests as they were.                                *)
LEMMA UntouchedIsKept ==
  ASSUME UNCHANGED <<logs, tables, archiving, found>>
  PROVE  Kept
BY DEF Kept, Listable, Pending

LEMMA OpenedIsKept ==
  ASSUME IInv, pc = "convert", UNCHANGED <<logs, archiving, found>>,
         tables' = Put(tables, nextFileNumber, [recs |-> {}, whole |-> FALSE])
  PROVE  Kept
<1>1. nextFileNumber \notin DOMAIN tables
  BY DEF IInv, OutputInv, Numbered
<1>2. /\ DOMAIN tables' = DOMAIN tables \cup {nextFileNumber}
      /\ tables'[nextFileNumber] = [recs |-> {}, whole |-> FALSE]
      /\ \A n \in DOMAIN tables : tables'[n] = tables[n]
  BY <1>1, SMT DEF Put
<1>3. ~ReadsThrough(tables'[nextFileNumber])
  BY <1>2 DEF ReadsThrough
<1>4. Listable' = Listable
  BY <1>1, <1>2, <1>3 DEF Listable
<1>5. \A n \in Listable : tables'[n].recs = tables[n].recs
  BY <1>2 DEF Listable
<1>. QED
  BY <1>4, <1>5 DEF Kept, Pending

(* Before the edit is written and after a crash, it is nowhere.            *)
Early == {"down", "convert", "build", "copy"}

LEMMA NoEditYet ==
  ASSUME EditInv, pc \in Early, pc' \in Early, UNCHANGED <<temp, installing>>
  PROVE  EditInv'
BY DEF EditInv, Early

LEMMA KeptAnswer ==
  ASSUME AnswerInv, Kept, CourseInv', temp.version' \subseteq Listable',
         UNCHANGED reconverted, ~overtaken' => ~overtaken /\ EditInv'
  PROVE  AnswerInv'
<1>1. OriginInv' /\ (OrderInv => OrderInv')
  BY KeptContents DEF AnswerInv
<1>. QED
  BY <1>1 DEF AnswerInv

LEMMA FindFilesAnswer ==
  ASSUME IInv, AnswerInv, FindFiles
  PROVE  AnswerInv'
<1>1. /\ UNCHANGED <<logs, tables, archiving, found, temp, installing, overtaken, reconverted>>
      /\ todo' = Ascending(DOMAIN logs) /\ unread' = Ascending(DOMAIN tables)
      /\ infos' = {} /\ pc' = "convert" /\ pc = "down"
  BY DEF FindFiles, disk
<1>2. Kept
  BY <1>1, UntouchedIsKept
<1>3. CourseInv'
  <2>1. /\ Increasing(Ascending(DOMAIN logs))
        /\ \A n \in DOMAIN logs :
             \E i \in 1..Len(Ascending(DOMAIN logs)) : Ascending(DOMAIN logs)[i] = n
    BY AscendingIncreases DEF IInv, Numbered
  <2>2. \A n \in DOMAIN tables :
          \E i \in 1..Len(Ascending(DOMAIN tables)) : Ascending(DOMAIN tables)[i] = n
    BY AscendingIncreases DEF IInv, Numbered
  <2>3. Pending' \subseteq DOMAIN logs /\ Listable' \subseteq DOMAIN tables
    BY <1>1 DEF Pending, Listable
  <2>. QED
    BY <1>1, <2>1, <2>2, <2>3 DEF CourseInv
<1>4. temp.version' \subseteq Listable'
  BY <1>1, <1>2 DEF Kept, AnswerInv
<1>5. EditInv => EditInv'
  BY <1>1, NoEditYet DEF Early
<1>. QED
  BY <1>1, <1>2, <1>3, <1>4, <1>5, KeptAnswer DEF AnswerInv

LEMMA StartConversionAnswer ==
  ASSUME IInv, AnswerInv, StartConversion
  PROVE  AnswerInv'
<1>1. /\ UNCHANGED <<logs, archiving, found, temp, installing, overtaken,
                     reconverted, todo, unread, infos>>
      /\ tables' = Put(tables, nextFileNumber, [recs |-> {}, whole |-> FALSE])
      /\ pc = "convert" /\ pc' = "build"
  BY DEF StartConversion
<1>2. Kept
  BY <1>1, OpenedIsKept
<1>3. CourseInv'
  BY <1>1, <1>2 DEF Kept, AnswerInv, CourseInv
<1>4. temp.version' \subseteq Listable'
  BY <1>1, <1>2 DEF Kept, AnswerInv
<1>5. EditInv => EditInv'
  BY <1>1, NoEditYet DEF Early
<1>. QED
  BY <1>1, <1>2, <1>3, <1>4, <1>5, KeptAnswer DEF AnswerInv

LEMMA StartCopyAnswer ==
  ASSUME IInv, AnswerInv, StartCopy
  PROVE  AnswerInv'
<1>1. /\ UNCHANGED <<logs, archiving, found, temp, installing, overtaken,
                     reconverted, todo, unread, infos>>
      /\ tables' = Put(tables, nextFileNumber, [recs |-> {}, whole |-> FALSE])
      /\ pc = "convert" /\ pc' = "copy" /\ todo = <<>>
  BY DEF StartCopy, Scanning
<1>2. Kept
  BY <1>1, OpenedIsKept
<1>3. CourseInv'
  BY <1>1, <1>2 DEF Kept, AnswerInv, CourseInv
<1>4. temp.version' \subseteq Listable'
  BY <1>1, <1>2 DEF Kept, AnswerInv
<1>5. EditInv => EditInv'
  BY <1>1, NoEditYet DEF Early
<1>. QED
  BY <1>1, <1>2, <1>3, <1>4, <1>5, KeptAnswer DEF AnswerInv

LEMMA ArchiveAnswer ==
  ASSUME IInv, AnswerInv, NEW n \in archiving, Archive(n)
  PROVE  AnswerInv'
<1>1. /\ UNCHANGED <<tables, found, temp, installing, overtaken,
                     reconverted, todo, unread, infos, pc,
                     manifests, current>>
      /\ archiving' = archiving \ {n} /\ logs' = Without(logs, n)
  BY DEF Archive
<1>2. /\ DOMAIN logs' = DOMAIN logs \ {n}
      /\ \A m \in DOMAIN logs' : logs'[m] = logs[m]
  BY <1>1, WithoutRemoves
<1>3. Kept
  BY <1>1, <1>2 DEF Kept, Listable, Pending
<1>4. CourseInv'
  BY <1>1, <1>3 DEF Kept, AnswerInv, CourseInv
<1>5. temp.version' \subseteq Listable'
  BY <1>1, <1>3 DEF Kept, AnswerInv
<1>6. EditInv => EditInv'
  BY <1>1, <1>3 DEF Kept, EditInv, Installed, Lists
<1>. QED
  BY <1>1, <1>3, <1>4, <1>5, <1>6, KeptAnswer DEF AnswerInv

LEMMA ListTableAnswer ==
  ASSUME IInv, AnswerInv, ListTable
  PROVE  AnswerInv'
<1>1. /\ UNCHANGED <<logs, tables, found, archiving, temp, installing, overtaken,
                     reconverted, todo, pc>>
      /\ infos' = infos \cup {Head(unread)} /\ unread' = Tail(unread)
      /\ pc = "convert" /\ unread # <<>> /\ ReadsThrough(tables[Head(unread)])
  BY DEF ListTable, Scanning, disk
<1>2. Kept
  BY <1>1, UntouchedIsKept
<1>3. CourseInv'
  <2>1. unread \in Seq(DOMAIN tables)
    BY DEF IInv, TablesOnce
  <2>2. Head(unread) \in Listable
    BY <1>1, <2>1, HeadTailProperties DEF Listable
  <2>3. \A n : (\E i \in 1..Len(unread) : unread[i] = n)
                => n = Head(unread) \/ \E i \in 1..Len(unread') : unread'[i] = n
    BY <1>1, <2>1, TailIncreases
  <2>. QED
    BY <1>1, <1>2, <2>2, <2>3 DEF Kept, AnswerInv, CourseInv
<1>4. temp.version' \subseteq Listable'
  BY <1>1, <1>2 DEF Kept, AnswerInv
<1>5. EditInv => EditInv'
  BY <1>1, NoEditYet DEF Early
<1>. QED
  BY <1>1, <1>2, <1>3, <1>4, <1>5, KeptAnswer DEF AnswerInv

LEMMA EndCopyAnswer ==
  ASSUME IInv, AnswerInv, EndCopy
  PROVE  AnswerInv'
<1>. DEFINE n == Head(unread)
            out == nextFileNumber - 1
<1>1. /\ UNCHANGED <<logs, found, archiving, temp, installing, overtaken,
                     reconverted, todo, infos>>
      /\ pc = "copy" /\ pc' = "convert" /\ unread' = Tail(unread)
      /\ \/ tables[n].whole /\ tables' = Without(tables, n)
         \/ tables' = Without(tables, out)
  BY DEF EndCopy
<1>2. /\ ~tables[out].whole /\ unread # <<>> /\ ~ReadsThrough(tables[n])
      /\ unread \in Seq(DOMAIN tables)
  BY <1>1 DEF IInv, OutputInv, TablesOnce
<1>. HIDE DEF n, out
<1>3. n \notin Listable /\ out \notin Listable
  BY <1>2 DEF Listable, ReadsThrough
<1>4. PICK gone \in {n, out} : tables' = Without(tables, gone)
  BY <1>1
<1>5. /\ DOMAIN tables' = DOMAIN tables \ {gone}
      /\ \A m \in DOMAIN tables' : tables'[m] = tables[m]
  BY <1>4, WithoutRemoves
<1>6. Listable' = Listable /\ \A m \in Listable : tables'[m].recs = tables[m].recs
  BY <1>3, <1>5 DEF Listable
<1>7. Kept
  BY <1>1, <1>6 DEF Kept, Pending
<1>8. CourseInv'
  <2>1. \A m : (\E i \in 1..Len(unread) : unread[i] = m)
                => m = n \/ \E i \in 1..Len(unread') : unread'[i] = m
    BY <1>1, <1>2, TailIncreases DEF n
  <2>. QED
    BY <1>1, <1>3, <1>7, <2>1 DEF Kept, AnswerInv, CourseInv
<1>9. temp.version' \subseteq Listable'
  BY <1>1, <1>7 DEF Kept, AnswerInv
<1>10. EditInv => EditInv'
  BY <1>1, NoEditYet DEF Early
<1>. QED
  BY <1>1, <1>7, <1>8, <1>9, <1>10, KeptAnswer DEF AnswerInv

(* What a search comes upon: the file with the highest number of those     *)
(* that have the key.                                                      *)
LEMMA SearchFinds ==
  ASSUME NEW f, NEW k, DOMAIN f \subseteq Nat, NEW n \in DOMAIN f, Has(f[n], k),
         \A m \in DOMAIN f : Has(f[m], k) => m <= n
  PROVE  Searched(f, k) = Max({e.seq : e \in {d \in f[n] : d.key = k}})
<1>. DEFINE having == {m \in DOMAIN f : Has(f[m], k)}
<1>1. having \subseteq Nat /\ n \in having /\ \A m \in having : m <= n
  OBVIOUS
<1>2. Searched(f, k) = IF having = {} THEN 0
                       ELSE Max({e.seq : e \in {d \in f[Max(having)] : d.key = k}})
  BY DEF Searched
<1>. HIDE DEF having
<1>3. Max(having) = n
  BY <1>1, MaxIs
<1>. QED
  BY <1>1, <1>2, <1>3

(* There is a highest one, if any has the key.                             *)
LEMMA SearchEnds ==
  ASSUME NEW f, NEW k, DOMAIN f \subseteq Nat, IsFiniteSet(DOMAIN f),
         \E n \in DOMAIN f : Has(f[n], k)
  PROVE  \E n \in DOMAIN f : Has(f[n], k) /\ \A m \in DOMAIN f : Has(f[m], k) => m <= n
<1>. DEFINE having == {m \in DOMAIN f : Has(f[m], k)}
<1>1. having \subseteq DOMAIN f /\ having # {}
  OBVIOUS
<1>2. Max(having) \in having /\ \A m \in having : m <= Max(having)
  <2>. HIDE DEF having
  <2>1. IsFiniteSet(having) /\ having \subseteq Nat
    BY <1>1, FS_Subset
  <2>. QED
    BY <1>1, <2>1, MaxOfFinite
<1>. QED
  BY <1>2

(* Files without the key make no difference to a search.                   *)
LEMMA SearchPasses ==
  ASSUME NEW f, NEW g, NEW k, DOMAIN f \subseteq Nat, IsFiniteSet(DOMAIN f),
         DOMAIN g \subseteq Nat,
         \A n \in DOMAIN f : Has(f[n], k) => n \in DOMAIN g /\ g[n] = f[n],
         \A n \in DOMAIN g : Has(g[n], k) => n \in DOMAIN f /\ g[n] = f[n]
  PROVE  Searched(f, k) = Searched(g, k)
<1>1. CASE \E n \in DOMAIN f : Has(f[n], k)
  <2>1. PICK n \in DOMAIN f :
          Has(f[n], k) /\ \A m \in DOMAIN f : Has(f[m], k) => m <= n
    BY <1>1, SearchEnds
  <2>2. /\ n \in DOMAIN g /\ g[n] = f[n]
        /\ \A m \in DOMAIN g : Has(g[m], k) => m <= n
    BY <2>1
  <2>3. Searched(f, k) = Max({e.seq : e \in {d \in f[n] : d.key = k}})
    BY <2>1, SearchFinds
  <2>4. Searched(g, k) = Max({e.seq : e \in {d \in g[n] : d.key = k}})
    BY <2>1, <2>2, SearchFinds
  <2>. QED
    BY <2>2, <2>3, <2>4
<1>2. CASE ~\E n \in DOMAIN f : Has(f[n], k)
  <2>1. ~\E n \in DOMAIN g : Has(g[n], k)
    BY <1>2
  <2>2. {n \in DOMAIN f : Has(f[n], k)} = {} /\ {n \in DOMAIN g : Has(g[n], k)} = {}
    BY <1>2, <2>1
  <2>. QED
    BY <2>2 DEF Searched
<1>. QED
  BY <1>1, <1>2

(* The lowest one of the logs p becomes the highest one of the tables s:   *)
(* then the logs are q, and the tables t.                                  *)
Converts(p, q, s, t, h, out) ==
  /\ h \in DOMAIN p /\ out \in Nat
  /\ DOMAIN p \subseteq Nat /\ IsFiniteSet(DOMAIN p) /\ DOMAIN q = DOMAIN p \ {h}
  /\ \A n \in DOMAIN q : q[n] = p[n] /\ h < n
  /\ DOMAIN s \subseteq Nat /\ IsFiniteSet(DOMAIN s)
  /\ DOMAIN t = IF p[h] = {} THEN DOMAIN s ELSE DOMAIN s \cup {out}
  /\ p[h] # {} => t[out] = p[h]
  /\ \A n \in DOMAIN s : t[n] = s[n] /\ n < out

(* A search of the logs and then the tables finds what it found before.    *)
LEMMA ConvertedSearch ==
  ASSUME NEW p, NEW q, NEW s, NEW t, NEW h, NEW out, Converts(p, q, s, t, h, out), NEW k
  PROVE  Searched(IF \E n \in DOMAIN p : Has(p[n], k) THEN p ELSE s, k)
           = Searched(IF \E n \in DOMAIN q : Has(q[n], k) THEN q ELSE t, k)
<1>. USE DEF Converts
<1>1. CASE \E n \in DOMAIN q : Has(q[n], k)
  <2>1. DOMAIN q \subseteq Nat /\ IsFiniteSet(DOMAIN q)
    BY FS_Subset
  <2>2. PICK n \in DOMAIN q :
          Has(q[n], k) /\ \A m \in DOMAIN q : Has(q[m], k) => m <= n
    BY <1>1, <2>1, SearchEnds
  <2>3. n \in DOMAIN p /\ p[n] = q[n] /\ h < n /\ n \in Nat /\ h \in Nat
    OBVIOUS
  <2>4. \A m \in DOMAIN p : Has(p[m], k) => m <= n
    BY <2>2, <2>3
  <2>5. Searched(p, k) = Max({e.seq : e \in {d \in p[n] : d.key = k}})
    BY <2>2, <2>3, <2>4, SearchFinds
  <2>6. Searched(q, k) = Max({e.seq : e \in {d \in q[n] : d.key = k}})
    BY <2>1, <2>2, SearchFinds
  <2>. QED
    BY <1>1, <2>2, <2>3, <2>5, <2>6
<1>2. CASE (~\E n \in DOMAIN q : Has(q[n], k)) /\ Has(p[h], k)
  <2>1. Searched(p, k) = Max({e.seq : e \in {d \in p[h] : d.key = k}})
    <3>1. h \in Nat /\ \A m \in DOMAIN p : Has(p[m], k) => m <= h
      BY <1>2
    <3>. QED
      BY <1>2, <3>1, SearchFinds
  <2>2. p[h] # {}
    BY <1>2 DEF Has
  <2>3. /\ out \in DOMAIN t /\ t[out] = p[h] /\ DOMAIN t \subseteq Nat
        /\ \A m \in DOMAIN t : m <= out
    BY <2>2
  <2>4. Searched(t, k) = Max({e.seq : e \in {d \in t[out] : d.key = k}})
    BY <1>2, <2>3, SearchFinds
  <2>. QED
    BY <1>2, <2>1, <2>3, <2>4
<1>3. CASE (~\E n \in DOMAIN q : Has(q[n], k)) /\ ~Has(p[h], k)
  <2>1. ~\E n \in DOMAIN p : Has(p[n], k)
    BY <1>3
  <2>2. /\ DOMAIN t \subseteq Nat
        /\ \A n \in DOMAIN s : n \in DOMAIN t /\ t[n] = s[n]
        /\ \A n \in DOMAIN t : Has(t[n], k) => n \in DOMAIN s
    BY <1>3
  <2>3. Searched(s, k) = Searched(t, k)
    BY <2>2, SearchPasses
  <2>. QED
    BY <1>3, <2>1, <2>3
<1>. QED
  BY <1>1, <1>2, <1>3

(* The table of a converted log is above all others, and of all logs not   *)
(* converted yet this one has the lowest number.                           *)
LEMMA ConversionAnswer ==
  ASSUME IInv, AnswerInv, EndConversion, Convertible(logs[Head(todo)])
  PROVE  AnswerInv'
<1>. DEFINE h == Head(todo)
            recs == logs[h]
            out == nextFileNumber - 1
<1>1. /\ UNCHANGED <<logs, found, temp, installing, overtaken,
                     reconverted, infos, nextFileNumber>>
      /\ pc = "build" /\ pc' = "convert" /\ todo # <<>> /\ todo' = Tail(todo)
      /\ archiving' = archiving \cup {h} /\ unread' = Append(unread, out)
      /\ tables' = [tables EXCEPT ![out] = [recs |-> recs, whole |-> TRUE]]
  BY DEF EndConversion, AfterConversion, IInv, LogsOnce
<1>2. /\ out \in DOMAIN tables /\ ~tables[out].whole /\ nextFileNumber \in Nat
      /\ \A n \in DOMAIN tables : n \in Nat /\ n < nextFileNumber
      /\ unread \in Seq(DOMAIN tables) /\ Len(unread) \in Nat
  BY <1>1, LenProperties DEF IInv, OutputInv, TablesOnce, Numbered
<1>3. /\ todo \in Seq(DOMAIN logs \ archiving) /\ h \in Pending
      /\ \A n : (\E i \in 1..Len(todo) : todo[i] = n)
                => n = h \/ \E i \in 1..Len(todo') : todo'[i] = n
      /\ Increasing(todo') /\ \A i \in 1..Len(todo') : h < todo'[i]
  <2>1. todo \in Seq(DOMAIN logs \ archiving)
    BY DEF IInv, LogsOnce
  <2>2. Increasing(todo)
    BY DEF AnswerInv, CourseInv
  <2>3. h \in Pending
    BY <1>1, <2>1, HeadTailProperties DEF Pending
  <2>. QED
    BY <1>1, <2>1, <2>2, <2>3, TailIncreases
<1>. HIDE DEF h, out
<1>4. Pending' = Pending \ {h} /\ h \in DOMAIN logs /\ Convertible(recs)
  BY <1>1, <1>3 DEF Pending, h
<1>5. /\ DOMAIN tables' = DOMAIN tables /\ tables'[out] = [recs |-> recs, whole |-> TRUE]
      /\ \A n \in DOMAIN tables : n # out => tables'[n] = tables[n]
  BY <1>1, <1>2
<1>6. out \notin Listable
  BY <1>2 DEF Listable, ReadsThrough
<1>7. Listable' = IF recs = {} THEN Listable ELSE Listable \cup {out}
  <2>1. ReadsThrough(tables'[out]) <=> recs # {}
    BY <1>5 DEF ReadsThrough
  <2>. QED
    BY <1>2, <1>5, <1>6, <2>1 DEF Listable
<1>8. /\ \A n \in Listable : tables'[n].recs = tables[n].recs /\ n < out /\ n \in Nat
      /\ tables'[out].recs = recs /\ out \in Nat
  <2>1. tables'[out].recs = recs
    BY <1>5
  <2>2. ASSUME NEW n \in Listable
        PROVE  tables'[n].recs = tables[n].recs /\ n < out /\ n \in Nat
    <3>1. n \in DOMAIN tables /\ n # out
      BY <1>6 DEF Listable
    <3>2. n \in Nat /\ n < nextFileNumber /\ n # nextFileNumber - 1
      BY <1>2, <3>1 DEF out
    <3>3. n < out
      BY <1>2, <3>2 DEF out
    <3>. QED
      BY <1>5, <3>1, <3>2, <3>3
  <2>. QED
    BY <1>2, <2>1, <2>2
<1>9. Readable' = Readable
  BY <1>1, ReadableStays
<1>10. /\ found \in Directories /\ h \in DOMAIN found.logs /\ recs = found.logs[h]
       /\ \A n \in DOMAIN logs : n \in DOMAIN found.logs /\ logs[n] = found.logs[n]
  BY <1>4 DEF AnswerInv, OriginInv
<1>11. OriginInv'
  <2>1. IsFiniteSet(recs) /\ recs \subseteq Readable
    BY <1>4, <1>10, RepairAssumption, ReadableIs
  <2>2. \A n \in Listable' :
          IsFiniteSet(tables'[n].recs) /\ tables'[n].recs \subseteq Readable'
    BY <1>7, <1>8, <1>9, <2>1 DEF AnswerInv, OriginInv
  <2>3. ASSUME NEW e \in Readable'
        PROVE  \/ \E n \in Listable' : e \in tables'[n].recs
               \/ \E n \in Pending' : e \in logs'[n] /\ Convertible(logs'[n])
    <3>1. CASE \E n \in Listable : e \in tables[n].recs
      BY <1>7, <1>8, <3>1
    <3>2. CASE \E n \in Pending : e \in logs[n] /\ Convertible(logs[n])
      <4>1. PICK n \in Pending : e \in logs[n] /\ Convertible(logs[n])
        BY <3>2
      <4>2. CASE n = h
        BY <1>7, <1>8, <4>1, <4>2
      <4>3. CASE n # h
        BY <1>1, <1>4, <4>1, <4>3
      <4>. QED
        BY <4>2, <4>3
    <3>. QED
      BY <1>9, <3>1, <3>2 DEF AnswerInv, OriginInv
  <2>. QED
    BY <1>1, <1>10, <2>2, <2>3 DEF OriginInv
<1>12. CourseInv'
  <2>1. /\ Len(unread') = Len(unread) + 1 /\ unread'[Len(unread) + 1] = out
        /\ \A i \in 1..Len(unread) : unread'[i] = unread[i]
    BY <1>1, <1>2, AppendProperties
  <2>2. ASSUME NEW n \in Listable'
        PROVE  n \in infos \/ \E i \in 1..Len(unread') : unread'[i] = n
    <3>1. CASE n = out
      <4>1. Len(unread) + 1 \in 1..Len(unread')
        BY <1>2, <2>1
      <4>. QED
        BY <2>1, <3>1, <4>1
    <3>2. CASE n # out
      <4>1. n \in infos \/ \E i \in 1..Len(unread) : unread[i] = n
        BY <1>1, <1>7, <3>2 DEF AnswerInv, CourseInv
      <4>2. 1..Len(unread) \subseteq 1..Len(unread')
        BY <1>2, <2>1
      <4>. QED
        BY <2>1, <4>1, <4>2
    <3>. QED
      BY <3>1, <3>2
  <2>3. \A n \in Pending' : \E i \in 1..Len(todo') : todo'[i] = n
    BY <1>1, <1>3, <1>4 DEF AnswerInv, CourseInv
  <2>4. infos' \subseteq Listable'
    BY <1>1, <1>7 DEF AnswerInv, CourseInv
  <2>. QED
    BY <1>1, <1>3, <2>2, <2>3, <2>4 DEF CourseInv
<1>13. ASSUME OrderInv PROVE OrderInv'
  <2>1. /\ DOMAIN PendingLogs \subseteq Nat /\ IsFiniteSet(DOMAIN PendingLogs)
        /\ h \in DOMAIN PendingLogs /\ PendingLogs[h] = recs
        /\ DOMAIN PendingLogs' = DOMAIN PendingLogs \ {h}
        /\ \A n \in DOMAIN PendingLogs' : PendingLogs'[n] = PendingLogs[n] /\ h < n
    <3>1. DOMAIN logs \subseteq Nat /\ IsFiniteSet(DOMAIN logs)
      BY DEF IInv, Numbered
    <3>2. DOMAIN PendingLogs \subseteq DOMAIN logs
      BY DEF PendingLogs, Pending
    <3>3. h \in DOMAIN PendingLogs /\ PendingLogs[h] = recs
      BY <1>3, <1>4 DEF PendingLogs
    <3>4. /\ DOMAIN PendingLogs' = DOMAIN PendingLogs \ {h}
          /\ \A n \in DOMAIN PendingLogs' : PendingLogs'[n] = PendingLogs[n]
      BY <1>1, <1>4 DEF PendingLogs
    <3>5. ASSUME NEW n \in DOMAIN PendingLogs' PROVE h < n
      <4>1. n \in Pending /\ n # h
        BY <3>4 DEF PendingLogs
      <4>2. \E i \in 1..Len(todo) : todo[i] = n
        BY <1>1, <4>1 DEF AnswerInv, CourseInv
      <4>. QED
        BY <1>3, <4>1, <4>2
    <3>. QED
      BY <3>1, <3>2, <3>3, <3>4, <3>5, FS_Subset
  <2>2. /\ DOMAIN ListedTables \subseteq Nat /\ IsFiniteSet(DOMAIN ListedTables)
        /\ DOMAIN ListedTables' = IF recs = {} THEN DOMAIN ListedTables
                                              ELSE DOMAIN ListedTables \cup {out}
        /\ recs # {} => ListedTables'[out] = recs
        /\ \A n \in DOMAIN ListedTables : ListedTables'[n] = ListedTables[n] /\ n < out
    <3>1. DOMAIN tables \subseteq Nat /\ IsFiniteSet(DOMAIN tables)
      BY DEF IInv, Numbered
    <3>2. DOMAIN ListedTables = Listable /\ DOMAIN ListedTables' = Listable'
      BY DEF ListedTables
    <3>3. Listable \subseteq DOMAIN tables
      BY DEF Listable
    <3>4. recs # {} => ListedTables'[out] = recs
      BY <1>7, <1>8 DEF ListedTables
    <3>5. \A n \in Listable : ListedTables'[n] = ListedTables[n] /\ n < out
      BY <1>7, <1>8 DEF ListedTables
    <3>. QED
      BY <1>7, <3>1, <3>2, <3>3, <3>4, <3>5, FS_Subset
  <2>3. out \in Nat
    BY <1>8
  <2>4. \A k : Latest(k)' = Latest(k)
    BY <1>1, LatestStays
  <2>5. PICK p, q, s, t : /\ p = PendingLogs /\ q = PendingLogs'
                           /\ s = ListedTables /\ t = ListedTables'
    OBVIOUS
  <2>6. ASSUME NEW k
        PROVE  Searched(IF \E n \in DOMAIN p : Has(p[n], k) THEN p ELSE s, k)
                 = Searched(IF \E n \in DOMAIN q : Has(q[n], k) THEN q ELSE t, k)
    <3>1. /\ DOMAIN p \subseteq Nat /\ IsFiniteSet(DOMAIN p)
          /\ h \in DOMAIN p /\ p[h] = recs /\ DOMAIN q = DOMAIN p \ {h}
          /\ \A n \in DOMAIN q : q[n] = p[n] /\ h < n
      BY <2>1, <2>5
    <3>2. /\ DOMAIN s \subseteq Nat /\ IsFiniteSet(DOMAIN s)
          /\ DOMAIN t = IF p[h] = {} THEN DOMAIN s ELSE DOMAIN s \cup {out}
          /\ p[h] # {} => t[out] = p[h]
          /\ \A n \in DOMAIN s : t[n] = s[n] /\ n < out
      BY <2>2, <2>5, <3>1
    <3>3. Converts(p, q, s, t, h, out)
      BY <2>3, <3>1, <3>2 DEF Converts
    <3>. QED
      BY <3>3, ConvertedSearch
  <2>. QED
    BY <1>13, <2>4, <2>5, <2>6 DEF OrderInv
<1>14. temp.version' \subseteq Listable'
  BY <1>1, <1>7 DEF AnswerInv
<1>15. EditInv => EditInv'
  BY <1>1, NoEditYet DEF Early
<1>. QED
  BY <1>1, <1>11, <1>12, <1>13, <1>14, <1>15 DEF AnswerInv

(* A log that cannot be converted has nothing that counts as readable, but *)
(* for what other files have too.                                          *)
LEMMA RefusedAnswer ==
  ASSUME IInv, AnswerInv, EndConversion, ~Convertible(logs[Head(todo)])
  PROVE  AnswerInv'
<1>. DEFINE h == Head(todo)
<1>1. /\ UNCHANGED <<logs, tables, found, temp, installing, overtaken,
                     reconverted, infos, unread>>
      /\ pc = "build" /\ pc' = "convert" /\ todo # <<>> /\ todo' = Tail(todo)
      /\ archiving' = archiving \cup {h}
  BY DEF EndConversion, AfterConversion, IInv, LogsOnce
<1>2. /\ \A n : (\E i \in 1..Len(todo) : todo[i] = n)
                => n = h \/ \E i \in 1..Len(todo') : todo'[i] = n
      /\ Increasing(todo')
  <2>1. todo \in Seq(DOMAIN logs \ archiving)
    BY DEF IInv, LogsOnce
  <2>2. Increasing(todo)
    BY DEF AnswerInv, CourseInv
  <2>. QED
    BY <1>1, <2>1, <2>2, TailIncreases
<1>. HIDE DEF h
<1>3. Pending' = Pending \ {h} /\ ~Convertible(logs[h])
  BY <1>1 DEF Pending, h
<1>4. Readable' = Readable /\ Listable' = Listable
  BY <1>1, ReadableStays DEF Listable
<1>5. OriginInv'
  <2>1. ASSUME NEW e \in Readable'
        PROVE  \/ \E n \in Listable' : e \in tables'[n].recs
               \/ \E n \in Pending' : e \in logs'[n] /\ Convertible(logs'[n])
    BY <1>1, <1>3, <1>4 DEF AnswerInv, OriginInv
  <2>2. \A n \in Listable' :
          IsFiniteSet(tables'[n].recs) /\ tables'[n].recs \subseteq Readable'
    BY <1>1, <1>4 DEF AnswerInv, OriginInv
  <2>3. found' \in Directories /\ \A n \in DOMAIN logs' :
          n \in DOMAIN found'.logs /\ logs'[n] = found'.logs[n]
    BY <1>1 DEF AnswerInv, OriginInv
  <2>. QED
    BY <2>1, <2>2, <2>3 DEF OriginInv
<1>6. CourseInv'
  <2>1. \A n \in Pending' : \E i \in 1..Len(todo') : todo'[i] = n
    BY <1>1, <1>2, <1>3 DEF AnswerInv, CourseInv
  <2>. QED
    BY <1>1, <1>2, <1>4, <2>1 DEF AnswerInv, CourseInv
<1>7. OrderInv => OrderInv'
  <2>1. PendingLogs' = PendingLogs /\ ListedTables' = ListedTables
    BY <1>1, <1>3, <1>4 DEF PendingLogs, ListedTables
  <2>. QED
    BY <1>1, <2>1, LatestStays DEF OrderInv
<1>8. temp.version' \subseteq Listable'
  BY <1>1, <1>4 DEF AnswerInv
<1>9. EditInv => EditInv'
  BY <1>1, NoEditYet DEF Early
<1>. QED
  BY <1>1, <1>5, <1>6, <1>7, <1>8, <1>9 DEF AnswerInv

(* A step of writeDescriptor or setCurrentFile, which only moves the edit. *)
LEMMA EditMoves ==
  ASSUME AnswerInv,
         UNCHANGED <<logs, tables, found, archiving, todo, unread, infos>>,
         pc \notin Early \/ (pc = "convert" /\ todo = <<>> /\ unread = <<>>),
         pc' \notin Early,
         temp.version' \subseteq Listable, UNCHANGED reconverted,
         ~overtaken' => ~overtaken /\ EditInv'
  PROVE  AnswerInv'
<1>1. Kept
  BY UntouchedIsKept
<1>2. CourseInv'
  BY <1>1 DEF Kept, AnswerInv, CourseInv, Early
<1>3. temp.version' \subseteq Listable'
  BY <1>1 DEF Kept
<1>. QED
  BY <1>1, <1>2, <1>3, KeptAnswer

LEMMA EditSteps ==
  ASSUME IInv, AnswerInv,
         WriteDescriptor \/ ArchiveManifest \/ SubmitInstall \/ Install \/ WriteTemp
           \/ RenameCurrent
  PROVE  AnswerInv'
<1>0. CourseInv /\ temp.version \subseteq Listable /\ (~overtaken => EditInv)
  BY DEF AnswerInv
<1>1. NoTemp.version = {} /\ ~NoTemp.text /\ ~NoTemp.there
  BY DEF NoTemp
<1>2. CASE WriteDescriptor
  <2>1. /\ UNCHANGED <<logs, tables, found, archiving, todo, unread, infos, installing,
                       overtaken, reconverted>>
        /\ temp' = [there |-> TRUE, text |-> temp.text,
                    version |-> temp.version \cup infos, next |-> nextFileNumber]
        /\ pc = "convert" /\ pc' = "manifests" /\ todo = <<>> /\ unread = <<>>
    BY <1>2 DEF WriteDescriptor
  <2>2. Len(<<>>) = 0
    BY EmptySeq
  <2>3. temp'.version = Listable
    BY <1>0, <2>1, <2>2 DEF CourseInv
  <2>4. \A n \in Listable : n < nextFileNumber
    BY <2>1 DEF IInv, OutputInv, Listable
  <2>5. Listable' = Listable
    BY <2>1 DEF Listable
  <2>6. EditInv => EditInv'
    BY <2>1, <2>3, <2>4, <2>5 DEF EditInv, Lists
  <2>. QED
    BY <1>0, <2>1, <2>3, <2>6, EditMoves DEF Early
<1>3. CASE ArchiveManifest
  <2>1. /\ UNCHANGED <<logs, tables, found, archiving, todo, unread, infos, installing,
                       overtaken, reconverted, temp>>
        /\ pc = "manifests" /\ pc' = pc
    BY <1>3 DEF ArchiveManifest
  <2>2. Listable' = Listable
    BY <2>1 DEF Listable
  <2>3. EditInv => EditInv'
    BY <2>1, <2>2 DEF EditInv, Lists
  <2>4. temp.version' \subseteq Listable /\ (~overtaken' => ~overtaken /\ EditInv')
    BY <1>0, <2>1, <2>3
  <2>5. pc \notin Early /\ pc' \notin Early
    BY <2>1 DEF Early
  <2>. QED
    BY <2>1, <2>4, <2>5, EditMoves
<1>4. CASE SubmitInstall
  <2>1. /\ UNCHANGED <<logs, tables, found, archiving, todo, unread, infos, overtaken,
                       reconverted, temp>>
        /\ pc = "manifests" /\ pc' = "truncate" /\ installing'
    BY <1>4 DEF SubmitInstall, disk
  <2>2. Listable' = Listable
    BY <2>1 DEF Listable
  <2>3. EditInv => EditInv'
    BY <2>1, <2>2 DEF EditInv, Lists
  <2>4. temp.version' \subseteq Listable /\ (~overtaken' => ~overtaken /\ EditInv')
    BY <1>0, <2>1, <2>3
  <2>5. pc \notin Early /\ pc' \notin Early
    BY <2>1 DEF Early
  <2>. QED
    BY <2>1, <2>4, <2>5, EditMoves
<1>5. CASE Install
  <2>1. /\ UNCHANGED <<logs, tables, found, archiving, todo, unread, infos, overtaken,
                       reconverted, pc, current>>
        /\ installing /\ ~installing'
        /\ temp' \in {temp, NoTemp}
        /\ temp.there => manifests' = Put(manifests, 1, [good    |-> ~temp.text,
                                                        version |-> temp.version,
                                                        next    |-> temp.next])
                          /\ temp' = NoTemp
    BY <1>5 DEF Install
  <2>2. Listable' = Listable
    BY <2>1 DEF Listable
  <2>3. ASSUME EditInv PROVE EditInv' /\ pc = "truncate"
    <3>1. pc = "truncate" /\ temp.there /\ ~temp.text /\ Lists(temp)
      BY <2>1, <2>3 DEF EditInv
    <3>2. /\ 1 \in DOMAIN manifests' /\ manifests'[1].good
          /\ manifests'[1].version = temp.version /\ manifests'[1].next = temp.next
      <4>1. PICK r : r = [good |-> ~temp.text, version |-> temp.version, next |-> temp.next]
        OBVIOUS
      <4>2. manifests' = Put(manifests, 1, r)
        BY <2>1, <3>1, <4>1
      <4>3. 1 \in DOMAIN manifests' /\ manifests'[1] = r
        BY <4>2 DEF Put
      <4>4. r.good = ~temp.text /\ r.version = temp.version /\ r.next = temp.next
        BY <4>1
      <4>. QED
        BY <3>1, <4>3, <4>4
    <3>3. Installed'
      BY <2>2, <3>1, <3>2 DEF Installed, Lists
    <3>. QED
      BY <1>1, <2>1, <3>1, <3>3 DEF EditInv
  <2>4. temp.version' \subseteq Listable
    BY <1>0, <1>1, <2>1
  <2>5. CASE pc \notin Early
    <3>1. pc' \notin Early /\ (~overtaken' => ~overtaken /\ EditInv')
      BY <1>0, <2>1, <2>3, <2>5
    <3>. QED
      BY <2>1, <2>4, <2>5, <3>1, EditMoves
  <2>6. CASE pc \in Early
    <3>1. ~EditInv /\ overtaken
      BY <1>0, <2>3, <2>6 DEF Early
    <3>2. Kept
      BY <2>1, UntouchedIsKept
    <3>3. CourseInv'
      BY <1>0, <2>1, <3>2 DEF Kept, CourseInv
    <3>. QED
      BY <2>1, <2>2, <2>4, <3>1, <3>2, <3>3, KeptAnswer
  <2>. QED
    BY <2>5, <2>6
<1>6. CASE WriteTemp
  <2>1. /\ UNCHANGED <<logs, tables, found, archiving, todo, unread, infos, installing, manifests>>
        /\ temp' = [NoTemp EXCEPT !.there = TRUE, !.text = TRUE]
        /\ overtaken' = (overtaken \/ installing) /\ UNCHANGED reconverted
        /\ pc = "truncate" /\ pc' = "current"
    BY <1>6 DEF WriteTemp
  <2>2. Listable' = Listable
    BY <2>1 DEF Listable
  <2>3. temp'.version = {} /\ temp'.there
    BY <2>1 DEF NoTemp
  <2>4. ASSUME EditInv, ~installing PROVE EditInv'
    <3>1. Installed'
      BY <2>1, <2>2, <2>4 DEF EditInv, Installed, Lists
    <3>. QED
      BY <2>1, <2>3, <2>4, <3>1 DEF EditInv
  <2>5. pc \notin Early /\ pc' \notin Early /\ (~overtaken' => ~overtaken /\ EditInv')
    BY <1>0, <2>1, <2>4 DEF Early
  <2>. QED
    BY <2>1, <2>3, <2>5, EditMoves
<1>7. CASE RenameCurrent
  <2>1. /\ UNCHANGED <<logs, tables, found, archiving, todo, unread, infos, installing,
                       manifests, overtaken, reconverted>>
        /\ pc = "current" /\ pc' \in {"resolved", "rejected"}
        /\ temp' \in {temp, NoTemp}
        /\ temp.there => current' = 1 /\ temp' = NoTemp /\ pc' = "resolved"
    BY <1>7 DEF RenameCurrent
  <2>2. Listable' = Listable
    BY <2>1 DEF Listable
  <2>3. temp.version' \subseteq Listable
    BY <1>0, <1>1, <2>1
  <2>4. ASSUME EditInv PROVE EditInv'
    <3>1. temp.there /\ Installed /\ ~installing
      BY <2>1, <2>4 DEF EditInv
    <3>2. Installed'
      BY <2>1, <2>2, <3>1 DEF Installed, Lists
    <3>. QED
      BY <1>1, <2>1, <3>1, <3>2 DEF EditInv
  <2>5. pc \notin Early /\ pc' \notin Early /\ (~overtaken' => ~overtaken /\ EditInv')
    BY <1>0, <2>1, <2>4 DEF Early
  <2>. QED
    BY <2>1, <2>3, <2>5, EditMoves
<1>. QED
  BY <1>2, <1>3, <1>4, <1>5, <1>6, <1>7

LEMMA CrashAnswer ==
  ASSUME IInv, AnswerInv, Crash
  PROVE  AnswerInv'
<1>1. /\ UNCHANGED <<logs, tables, found, temp>>
      /\ pc' = "down" /\ archiving' = {} /\ ~installing'
      /\ todo' = <<>> /\ unread' = <<>> /\ infos' = {}
      /\ overtaken' = temp.text /\ reconverted' = (reconverted \/ archiving # {})
  BY DEF Crash, disk
<1>2. Readable' = Readable /\ Listable' = Listable
  BY <1>1, ReadableStays DEF Listable
<1>3. Pending \subseteq Pending' /\ (archiving = {} => Pending' = Pending)
  BY <1>1 DEF Pending
<1>4. OriginInv'
  <2>1. ASSUME NEW e \in Readable'
        PROVE  \/ \E n \in Listable' : e \in tables'[n].recs
               \/ \E n \in Pending' : e \in logs'[n] /\ Convertible(logs'[n])
    BY <1>1, <1>2, <1>3 DEF AnswerInv, OriginInv
  <2>2. \A n \in Listable' :
          IsFiniteSet(tables'[n].recs) /\ tables'[n].recs \subseteq Readable'
    BY <1>1, <1>2 DEF AnswerInv, OriginInv
  <2>3. found' \in Directories /\ \A n \in DOMAIN logs' :
          n \in DOMAIN found'.logs /\ logs'[n] = found'.logs[n]
    BY <1>1 DEF AnswerInv, OriginInv
  <2>. QED
    BY <2>1, <2>2, <2>3 DEF OriginInv
<1>5. CourseInv'
  <2>1. Len(<<>>) = 0
    BY EmptySeq
  <2>. QED
    BY <1>1, <2>1 DEF CourseInv, Increasing
<1>6. temp.version' \subseteq Listable'
  BY <1>1, <1>2 DEF AnswerInv
<1>7. ASSUME ~overtaken' PROVE EditInv'
  BY <1>1, <1>7 DEF EditInv
<1>8. ASSUME ~reconverted' PROVE OrderInv'
  <2>1. ~reconverted /\ Pending' = Pending
    BY <1>1, <1>3, <1>8
  <2>2. PendingLogs' = PendingLogs /\ ListedTables' = ListedTables
    BY <1>1, <1>2, <2>1 DEF PendingLogs, ListedTables
  <2>. QED
    BY <1>1, <2>1, <2>2, LatestStays DEF AnswerInv, OrderInv
<1>. QED
  BY <1>4, <1>5, <1>6, <1>7, <1>8 DEF AnswerInv

LEMMA InitAnswer ==
  ASSUME Init
  PROVE  AnswerInv
<1>1. /\ found \in Directories /\ logs = found.logs /\ tables = found.tables
      /\ archiving = {} /\ todo = <<>> /\ unread = <<>> /\ infos = {} /\ pc = "down"
      /\ temp = NoTemp /\ installing = FALSE
  BY DEF Init
<1>2. Pending = DOMAIN logs
  BY <1>1 DEF Pending
<1>3. \A n \in DOMAIN tables : tables[n].whole <=> n \in SoundTables(tables)
  BY DEF SoundTables
<1>4. Listable = {n \in SoundTables(tables) : tables[n].recs # {}}
  BY <1>3 DEF Listable, ReadsThrough, SoundTables
<1>5. OriginInv
  <2>1. \A n \in Listable : IsFiniteSet(tables[n].recs)
    BY <1>1, RepairAssumption DEF Listable
  <2>2. \A n \in Listable : tables[n].recs \subseteq Readable
    BY <1>1, <1>4, ReadableIs
  <2>3. ASSUME NEW e \in Readable
        PROVE  \/ \E n \in Listable : e \in tables[n].recs
               \/ \E n \in Pending : e \in logs[n] /\ Convertible(logs[n])
    <3>1. \/ \E n \in SoundTables(tables) : e \in tables[n].recs
          \/ \E n \in DOMAIN logs : e \in logs[n] /\ Convertible(logs[n])
      BY <1>1, <2>3, ReadableIs
    <3>. QED
      BY <1>2, <1>4, <3>1
  <2>. QED
    BY <1>1, <2>1, <2>2, <2>3 DEF OriginInv
<1>6. CourseInv
  <2>1. Len(<<>>) = 0
    BY EmptySeq
  <2>. QED
    BY <1>1, <2>1 DEF CourseInv, Increasing
<1>7. OrderInv
  <2>1. PendingLogs = FoundLogs
    BY <1>1, <1>2 DEF PendingLogs, FoundLogs
  <2>2. /\ DOMAIN ListedTables = Listable /\ DOMAIN FoundTables = SoundTables(tables)
        /\ \A n \in Listable : ListedTables[n] = tables[n].recs
        /\ \A n \in SoundTables(tables) : FoundTables[n] = tables[n].recs
    BY <1>1 DEF ListedTables, FoundTables
  <2>3. SoundTables(tables) \subseteq Nat /\ IsFiniteSet(SoundTables(tables))
    <3>1. SoundTables(tables) \subseteq DOMAIN tables
      BY DEF SoundTables
    <3>2. DOMAIN tables \subseteq Nat /\ IsFiniteSet(DOMAIN tables)
      BY <1>1, RepairAssumption
    <3>. QED
      BY <3>1, <3>2, FS_Subset
  <2>4. ASSUME NEW k PROVE Searched(FoundTables, k) = Searched(ListedTables, k)
    <3>1. \A n \in SoundTables(tables) : Has(tables[n].recs, k) => n \in Listable
      BY <1>4 DEF Has
    <3>2. Listable \subseteq SoundTables(tables)
      BY <1>4
    <3>. QED
      BY <2>2, <2>3, <3>1, <3>2, SearchPasses
  <2>. QED
    BY <2>1, <2>4 DEF OrderInv, Latest
<1>8. temp.version \subseteq Listable /\ EditInv
  BY <1>1 DEF EditInv, NoTemp
<1>. QED
  BY <1>5, <1>6, <1>7, <1>8 DEF AnswerInv

LEMMA NextAnswer ==
  ASSUME IInv, AnswerInv, [Next]_vars
  PROVE  AnswerInv'
<1>1. CASE EndConversion
  BY <1>1, ConversionAnswer, RefusedAnswer
<1>2. CASE \E n \in archiving : Archive(n)
  BY <1>2, ArchiveAnswer
<1>3. CASE UNCHANGED vars
  <2>1. /\ UNCHANGED <<logs, tables, lost, manifests, current, temp>>
        /\ UNCHANGED <<pc, archiving, installing, todo, unread, infos, olds, nextFileNumber>>
        /\ UNCHANGED <<found, overtaken, reconverted>>
    BY <1>3 DEF vars, disk, run
  <2>2. Kept
    BY <2>1, UntouchedIsKept
  <2>3. CourseInv' /\ temp.version' \subseteq Listable'
    BY <2>1, <2>2 DEF Kept, AnswerInv, CourseInv
  <2>4. EditInv => EditInv'
    BY <2>1, <2>2 DEF Kept, EditInv, Installed, Lists
  <2>. QED
    BY <2>1, <2>2, <2>3, <2>4, KeptAnswer DEF AnswerInv
<1>. QED
  BY <1>1, <1>2, <1>3, FindFilesAnswer, StartConversionAnswer,
     ListTableAnswer, StartCopyAnswer, EndCopyAnswer, EditSteps, CrashAnswer
     DEF Next

-----------------------------------------------------------------------------
LEMMA ResolvedIsRight ==
  ASSUME IInv, AnswerInv
  PROVE  RepairedReads
<1>. SUFFICES ASSUME pc = "resolved", ~overtaken PROVE
       /\ current = 1 /\ 1 \in DOMAIN manifests /\ manifests[1].good
       /\ manifests[1].version = {n \in SoundTables(tables) : tables[n].recs # {}}
       /\ \A n \in manifests[1].version : n < manifests[1].next
       /\ Readable \subseteq UNION {tables[n].recs : n \in manifests[1].version}
       /\ ~reconverted =>
            \A e \in Given : Answer(manifests[1].version, e.key) = Latest(e.key)
  BY DEF RepairedReads
<1>1. current = 1 /\ Installed /\ OriginInv /\ CourseInv
  BY DEF AnswerInv, EditInv
<1>2. /\ manifests[1].version = Listable
      /\ \A n \in Listable : n < manifests[1].next
  BY <1>1 DEF Installed, Lists
<1>3. Pending = {}
  <2>1. Len(<<>>) = 0
    BY EmptySeq
  <2>. QED
    BY <1>1, <2>1 DEF CourseInv
<1>4. Listable = {n \in SoundTables(tables) : tables[n].recs # {}}
  BY DEF Listable, SoundTables, ReadsThrough
<1>5. Readable \subseteq UNION {tables[n].recs : n \in Listable}
  BY <1>1, <1>3 DEF OriginInv
<1>6. ASSUME ~reconverted, NEW k PROVE Answer(Listable, k) = Latest(k)
  <2>1. DOMAIN PendingLogs = {}
    BY <1>3 DEF PendingLogs
  <2>2. OrderInv
    BY <1>6 DEF AnswerInv
  <2>. QED
    BY <2>1, <2>2 DEF OrderInv, Answer, ListedTables
<1>. QED
  BY <1>1, <1>2, <1>4, <1>5, <1>6 DEF Installed

(* A repair that resolves, whatever runs have died before it and whatever  *)
(* numbers compactions have given to the tables, leaves a database that    *)
(* opens, unless the text of CURRENT overtook its manifest; that has all   *)
(* of what could be read in a listed table; and that answers each key from *)
(* the last log that had it, or else the last table, unless a run before   *)
(* died while a log was being archived.                                    *)
THEOREM RepairIsRight == Spec => []RepairedReads
<1>1. Init => AnswerInv
  BY InitAnswer
<1>2. IInv /\ AnswerInv /\ [Next]_vars => AnswerInv'
  BY NextAnswer
<1>3. IInv /\ AnswerInv => RepairedReads
  BY ResolvedIsRight
<1>. QED
  BY <1>1, <1>2, <1>3, Invariance, PTL DEF Spec
=============================================================================
