-------------------------------- MODULE Levels --------------------------------
(***************************************************************************)
(* The tree of table files: the level a flushed memtable goes to           *)
(* (Version.pickLevelForMemTableOutput), the files a compaction takes      *)
(* (VersionSet.pickCompaction, compactRange, setupOtherInputs), the        *)
(* entries it drops and the tables it writes (Database.doCompactionWork),  *)
(* the version it installs (VersionBuilder), and the order in which get    *)
(* searches all this (Database.get, Version.get).                          *)
(*                                                                         *)
(* An entry is a user key, a sequence number and whether it is a deletion; *)
(* a table is its set of entries, and its size their number.  The state of *)
(* the write path, failures of files and the deletion of files are in      *)
(* GroupCommit, MemtableSwitch and Recovery.                               *)
(*                                                                         *)
(* One chain of background work runs at a time, and whoever began it waits *)
(* for its end: a write that switched memtables, behind which every other  *)
(* write queues, or a compactRange, beside which writes go on.  A          *)
(* compaction reads what it read when it began (its input files, the       *)
(* oldest snapshot, the version it derives from), so that its outputs are  *)
(* computed when it ends; between the two, as between any two entries of   *)
(* the loop in the code, writes go on and a full memtable is flushed.      *)
(* Interleavings in which a compactRange blocks the event loop are left to *)
(* MemtableSwitch: nothing follows them.                                   *)
(***************************************************************************)
EXTENDS Integers, Sequences, FiniteSets, FiniteSetsExt, SequencesExt

CONSTANTS
  MaxKey,               \* user keys are 1..MaxKey
  NumLevels,            \* Config.kNumLevels
  MaxMemCompactLevel,   \* Config.kMaxMemCompactLevel
  L0CompactionTrigger,  \* Config.kL0CompactionTrigger
  BaseSize, LevelRatio, \* getMaxBytesForLevel: of level 1, and from level to level
  MaxFileSizes,         \* values of options.maxFileSize, in entries
  GrandParentFactor,    \* maxGrandParentOverlapBytes / maxFileSize
  ExpandFactor,         \* getExpandedCompactionByteSizeLimit / maxFileSize
  MaxWrites,            \* bound: number of writes
  MaxDeletes,           \* bound: how many of them are deletions
  MaxSnapshots,         \* bound: snapshots alive at a time
  MaxRanges             \* bound: number of calls of compactRange

ASSUME LevelsAssumption ==
  /\ MaxKey \in Nat \ {0}
  /\ NumLevels \in Nat /\ NumLevels >= 3
  /\ MaxMemCompactLevel \in 0..(NumLevels - 1)
  /\ L0CompactionTrigger \in Nat \ {0}
  /\ BaseSize \in Nat \ {0} /\ LevelRatio \in Nat \ {0}
  /\ \A l \in 1..(NumLevels - 1) : LevelRatio^(l - 1) \in Nat \ {0}
  /\ MaxFileSizes \subseteq Nat \ {0}
  /\ GrandParentFactor \in Nat /\ ExpandFactor \in Nat
  /\ {MaxWrites, MaxDeletes, MaxSnapshots, MaxRanges} \subseteq Nat

VARIABLES
  memtable, immtable,   \* sets of entries
  files,                \* current version: level -> its table files
  compactPointers,      \* level -> largest key of its last compaction
  nextFileNumber,
  snapshots,            \* SnapshotList: sequence numbers, oldest first
  compaction,           \* the compaction under way
  manual,               \* the compactRange under way
  driver,               \* who waits for the chain: "none", "writer", "compactRange"
  stopped,              \* "no", or why the background job threw for good
  maxFileSize,          \* the option, fixed when the database is opened
  written,              \* history: every entry ever written
  ranges                \* history: number of calls of compactRange

vars == <<memtable, immtable, files, compactPointers, nextFileNumber, snapshots,
          compaction, manual, driver, stopped, maxFileSize, written, ranges>>

Keys == 1..MaxKey
Level == 0..(NumLevels - 1)
Entry == [k : Keys, s : 1..MaxWrites, del : BOOLEAN]

(* Each write takes the next sequence number.                              *)
lastSequence == Cardinality(written)

-----------------------------------------------------------------------------
(* InternalKeyComparator: increasing user key, decreasing sequence number. *)
Before(a, b) == a.k < b.k \/ (a.k = b.k /\ a.s > b.s)

Smallest(E) == CHOOSE e \in E : \A d \in E : e = d \/ Before(e, d)
Largest(E)  == CHOOSE e \in E : \A d \in E : e = d \/ Before(d, e)

(* FileMetaData; the size of a file is the number of its entries.          *)
Table(num, E) ==
  [num |-> num, entries |-> E, smallest |-> Smallest(E), largest |-> Largest(E)]

(* What the files of F hold, and how much (totalFileSize, getTotalBytes).  *)
Entries(F) == UNION {f.entries : f \in F}
Total(F)   == Cardinality(Entries(F))

(* getRange: the ends of what they span; findLargestKey.                   *)
FirstFile(F) == CHOOSE f \in F : \A g \in F : f = g \/ Before(f.smallest, g.smallest)
LargestKey(F) == (CHOOSE f \in F : \A g \in F : f = g \/ Before(g.largest, f.largest)).largest

(* The file reaches into the user keys from lo to hi.                      *)
Overlaps(f, lo, hi) == lo <= f.largest.k /\ f.smallest.k <= hi

OverlapInLevel(level, lo, hi) == \E f \in files[level] : Overlaps(f, lo, hi)

(* The files of a level that overlap a range.  On level 0 the range grows  *)
(* to the ends of every file it meets, until it covers all it overlaps.    *)
GetOverlappingInputs(level, lo, hi) ==
  LET Covers(a, b) == \A f \in files[level] :
        Overlaps(f, a, b) => a <= f.smallest.k /\ f.largest.k <= b
  IN IF level # 0
     THEN {f \in files[level] : Overlaps(f, lo, hi)}
     ELSE {f \in files[level] : \A a \in 1..lo, b \in hi..MaxKey :
                                  Covers(a, b) => Overlaps(f, a, b)}

(* Those in the range that the files of F span.                            *)
Spanned(level, F) == GetOverlappingInputs(level, FirstFile(F).smallest.k, LargestKey(F).k)

MaxGrandParentOverlap == GrandParentFactor * maxFileSize

(* As deep as nothing overlaps, while not too much overlaps below.         *)
PickLevelForMemTableOutput(lo, hi) ==
  IF OverlapInLevel(0, lo, hi) THEN 0
  ELSE Max({l \in 0..MaxMemCompactLevel : \A m \in 0..(l - 1) :
              /\ ~OverlapInLevel(m + 1, lo, hi)
              /\ m + 2 < NumLevels =>
                   Total(GetOverlappingInputs(m + 2, lo, hi)) <= MaxGrandParentOverlap})

(* Mutant: a user key whose entries span two files is torn apart.          *)
WithoutBoundaryInputs(level, F) == F

(* The files that hold the rest of the user key with which F ends, the     *)
(* rest of the one with which these end, and so on, until a file begins    *)
(* with a user key of its own (findSmallestBoundaryFile, again and again). *)
AddBoundaryInputs(level, F) ==
  LET after == {f \in files[level] : Before(LargestKey(F), f.smallest)}
      Continues(g) == \E f \in F \cup after :
                        Before(f.largest, g.smallest) /\ f.largest.k = g.smallest.k
  IN F \cup {f \in after : \A g \in after : Before(f.smallest, g.smallest) \/ Continues(g)}

-----------------------------------------------------------------------------
NoCompaction == [level |-> -1, inputs |-> <<{}, {}>>, grandparents |-> {},
                 base |-> <<>>, smallestSnapshot |-> 0, manual |-> FALSE]

NoManual == [level |-> -1, last |-> -1, begin |-> 0, start |-> 0, end |-> 0]

Idle == compaction = NoCompaction /\ immtable = {} /\ stopped = "no"

(* finalize: how full a level is, as a fraction.                           *)
Score(level) ==
  IF level = 0 THEN <<Cardinality(files[0]), L0CompactionTrigger>>
  ELSE <<Total(files[level]), BaseSize * LevelRatio^(level - 1)>>

(* The first level with the highest score.                                 *)
CompactionLevel ==
  Min({l \in Level : \A m \in Level : Score(m)[1] * Score(l)[2] <= Score(l)[1] * Score(m)[2]})

NeedsCompaction == \E l \in Level : Score(l)[1] >= Score(l)[2]

(* Both input levels.  The files of the first level are extended to all    *)
(* that both levels span, if that adds none to the second.                 *)
SetupOtherInputs(level, F) ==
  LET in0 == AddBoundaryInputs(level, F)
      in1 == Spanned(level + 1, in0)
      expand0 == AddBoundaryInputs(level, Spanned(level, in0 \cup in1))
      expand1 == Spanned(level + 1, expand0)
  IN IF /\ Cardinality(expand0) > Cardinality(in0)
        /\ Total(in1) + Total(expand0) < ExpandFactor * maxFileSize
        /\ Cardinality(expand1) = Cardinality(in1)
     THEN <<expand0, expand1>>
     ELSE <<in0, in1>>

(* Mutant: forgets the snapshots.                                          *)
IgnoredSnapshot == lastSequence

(* The oldest entries anybody may still want to read.                      *)
SmallestSnapshot == IF snapshots = <<>> THEN lastSequence ELSE snapshots[1]

(* The compaction of the files F of a level, and those they drag in.       *)
Compaction(level, F, isManual) ==
  LET inputs == SetupOtherInputs(level, F)
  IN [level |-> level, inputs |-> inputs,
      grandparents |-> Spanned(level + 2, inputs[1] \cup inputs[2]),
      base |-> files, smallestSnapshot |-> SmallestSnapshot, manual |-> isManual]

Inputs(c) == c.inputs[1] \cup c.inputs[2]

IsTrivialMove(c) ==
  /\ Cardinality(c.inputs[1]) = 1 /\ c.inputs[2] = {}
  /\ Total(c.grandparents) <= MaxGrandParentOverlap

(* No file below the output level has the user key in its range.           *)
IsBaseLevelForKey(c, k) ==
  \A l \in Level : l >= c.level + 2 => \A f \in c.base[l] : ~Overlaps(f, k, k)

(* The entry is hidden, for every snapshot, by a newer one of the inputs,  *)
(* or is a deletion with nothing left to delete.                           *)
Drops(c, e) ==
  LET newer == {d.s : d \in {d \in Entries(Inputs(c)) : d.k = e.k /\ d.s > e.s}}
  IN \/ newer # {} /\ Min(newer) <= c.smallestSnapshot
     \/ e.del /\ e.s <= c.smallestSnapshot /\ IsBaseLevelForKey(c, e.k)

Sorted(E) ==
  [i \in 1..Cardinality(E) |-> CHOOSE e \in E : Cardinality({d \in E : Before(d, e)}) = i - 1]

(* makeInputIterator: the entries of all inputs, in order.                *)
InputEntries(c) == Sorted(Entries(Inputs(c)))

(* shouldStopBefore: the entries of `in` before which a table ends, because*)
(* it overlaps too much of the level below the outputs.                    *)
StopsBefore(c, in) ==
  LET Passed(i) == {g \in c.grandparents : Before(g.largest, in[i])}
      overlapped[i \in 0..Len(in)] ==   \* overlappedBytes before the test for entry i
        IF i <= 1 THEN 0
        ELSE (IF overlapped[i - 1] > MaxGrandParentOverlap THEN 0 ELSE overlapped[i - 1])
             + Total(Passed(i) \ Passed(i - 1))
  IN {i \in DOMAIN in : overlapped[i] > MaxGrandParentOverlap}

(* The tables of a compaction: one ends there, or when it is full          *)
(* (maxOutputFilesize).                                                    *)
Outputs(c) ==
  LET in == InputEntries(c)
      kept == {i \in DOMAIN in : ~Drops(c, in[i])}
      stops == StopsBefore(c, in)
      open[i \in 0..Len(in)] ==         \* entries in the open table after entry i
        IF i = 0 THEN 0
        ELSE ((IF i \in stops THEN 0 ELSE open[i - 1])
              + (IF i \in kept THEN 1 ELSE 0)) % maxFileSize
      starts == {i \in kept : open[i] = 1 % maxFileSize}
      Run(i) == {in[j] : j \in {j \in kept : j >= i /\ ~\E n \in starts : i < n /\ n <= j}}
  IN {Table(nextFileNumber + Cardinality({n \in starts : n < i}), Run(i)) : i \in starts}

(* What the assertion of maybeAddFile demands of a version.                *)
LevelsInOrder(version) ==
  \A l \in Level \ {0} : \A f, g \in version[l] :
    f = g \/ Before(f.largest, g.smallest) \/ Before(g.largest, f.smallest)

(* logAndApply: the version without the files `deleted` of two levels and  *)
(* with the files `added`; or the exception that ends the background job.  *)
LogAndApply(level, deleted, to, added) ==
  LET kept == [l \in Level |-> IF l \in {level, level + 1} THEN files[l] \ deleted ELSE files[l]]
      version == [kept EXCEPT ![to] = @ \cup added]
  IN IF LevelsInOrder(version)
     THEN files' = version /\ stopped' = stopped
     ELSE files' = files /\ stopped' = "overlap"

-----------------------------------------------------------------------------
Init ==
  /\ memtable = {} /\ immtable = {}
  /\ files = [l \in Level |-> {}]
  /\ compactPointers = [l \in Level |-> [k |-> 0, s |-> 0]]
  /\ nextFileNumber = 1
  /\ snapshots = <<>>
  /\ compaction = NoCompaction /\ manual = NoManual /\ driver = "none"
  /\ stopped = "no"
  /\ maxFileSize \in MaxFileSizes
  /\ written = {} /\ ranges = 0

(* put and del, as far as the memtable; behind a write that waits for the  *)
(* background chain, they queue.                                           *)
Write(k, del) ==
  LET e == [k |-> k, s |-> lastSequence + 1, del |-> del]
  IN /\ driver # "writer" /\ lastSequence < MaxWrites
     /\ del => Cardinality({d \in written : d.del}) < MaxDeletes
     /\ memtable' = memtable \cup {e} /\ written' = written \cup {e}
     /\ UNCHANGED <<immtable, files, compactPointers, nextFileNumber, snapshots,
                    compaction, manual, driver, stopped, maxFileSize, ranges>>

(* makeRoomForWrite switches memtables (the size at which is left open)    *)
(* and begins the background chain, unless it runs.  Between two rounds of *)
(* a compactRange, that would block the event loop.                        *)
SwitchMemtable ==
  /\ memtable # {} /\ immtable = {} /\ driver # "writer"
  /\ driver = "none" => manual = NoManual
  /\ immtable' = memtable /\ memtable' = {}
  /\ driver' = IF driver = "none" THEN "writer" ELSE driver
  /\ UNCHANGED <<files, compactPointers, nextFileNumber, snapshots, compaction,
                 manual, stopped, maxFileSize, written, ranges>>

GetSnapshot ==
  /\ Len(snapshots) < MaxSnapshots
  /\ snapshots' = Append(snapshots, lastSequence)
  /\ UNCHANGED <<memtable, immtable, files, compactPointers, nextFileNumber,
                 compaction, manual, driver, stopped, maxFileSize, written, ranges>>

ReleaseSnapshot(i) ==
  /\ snapshots' = RemoveAt(snapshots, i)
  /\ UNCHANGED <<memtable, immtable, files, compactPointers, nextFileNumber,
                 compaction, manual, driver, stopped, maxFileSize, written, ranges>>

(* Mutant: looks at the memtable only, not at the levels.                  *)
RescheduleForMemtable == driver' = IF Idle' THEN "none" ELSE driver

(* backgroundCall, after each piece of work: the chain ends when there is  *)
(* nothing left to do.                                                     *)
Reschedule == driver' = IF Idle' /\ ~NeedsCompaction' THEN "none" ELSE driver

(* compactMemTable, at the start of the background job or between two      *)
(* entries of a compaction: the table goes where the current version says. *)
FlushMemtable ==
  LET level == PickLevelForMemTableOutput(Smallest(immtable).k, Largest(immtable).k)
  IN /\ immtable # {} /\ stopped = "no"
     /\ LogAndApply(level, {}, level, {Table(nextFileNumber, immtable)})
     /\ nextFileNumber' = nextFileNumber + 1
     /\ immtable' = IF stopped' = "no" THEN {} ELSE immtable
     /\ UNCHANGED <<memtable, compactPointers, snapshots, compaction, manual,
                    maxFileSize, written, ranges>>
     /\ Reschedule

(* The first file after the last compaction of the level, or the first.    *)
Picked(level) ==
  LET after == {f \in files[level] : Before(compactPointers[level], f.largest)}
  IN FirstFile(IF after = {} THEN files[level] ELSE after)

(* pickCompaction, and a trivial move at once.  On the last level its      *)
(* assertion fails; on the level before, the grandparents are undefined,   *)
(* and looping over them throws: either way the chain never ends.          *)
PickCompaction ==
  LET level == CompactionLevel
      inputs == IF level = 0 THEN Spanned(0, {Picked(0)}) ELSE {Picked(level)}
  IN /\ Idle /\ NeedsCompaction
     /\ IF level + 2 >= NumLevels
        THEN stopped' = "level" /\ UNCHANGED <<files, compactPointers, compaction>>
        ELSE \E c \in {Compaction(level, inputs, FALSE)} :
               /\ compactPointers' = [compactPointers EXCEPT ![level] = LargestKey(c.inputs[1])]
               /\ IF IsTrivialMove(c)
                  THEN /\ LogAndApply(level, c.inputs[1], level + 1, c.inputs[1])
                       /\ UNCHANGED compaction
                  ELSE compaction' = c /\ UNCHANGED <<files, stopped>>
     /\ UNCHANGED <<memtable, immtable, nextFileNumber, snapshots, manual,
                    maxFileSize, written, ranges>>
     /\ Reschedule

(* compactRange: how deep the range reaches, and the forced switch, which  *)
(* waits for the chain it begins.  If the range reaches into level 0       *)
(* alone, no level is compacted.                                           *)
CompactRange(lo, hi) ==
  LET deep == {l \in Level : OverlapInLevel(l, lo, hi)}
      maxLevelWithFiles == IF deep = {} THEN 1 ELSE Max(deep)
  IN /\ ranges < MaxRanges /\ manual = NoManual /\ driver = "none" /\ lo <= hi
     /\ manual' = IF maxLevelWithFiles = 0 THEN NoManual
                  ELSE [level |-> 0, last |-> maxLevelWithFiles - 1,
                        begin |-> lo, start |-> lo, end |-> hi]
     /\ immtable' = memtable /\ memtable' = {}
     /\ driver' = IF memtable = {} THEN "none" ELSE "writer"
     /\ ranges' = ranges + 1
     /\ UNCHANGED <<files, compactPointers, nextFileNumber, snapshots, compaction,
                    stopped, maxFileSize, written>>

(* The files of one manual compaction: deeper than level 0, no more than   *)
(* fill one table.                                                         *)
ManualFiles(level, lo, hi) ==
  LET in == GetOverlappingInputs(level, lo, hi)
      Preceding(f) == {g \in in : Before(g.smallest, f.smallest)}
  IN IF level = 0 THEN in ELSE {f \in in : Total(Preceding(f)) < maxFileSize}

(* Mutant: begins again with the first level, where new files may be.      *)
AllLevelsAgain ==
  [manual EXCEPT !.level = IF @ < manual.last THEN @ + 1 ELSE 0, !.begin = manual.start]

(* The loop of compactRange over the levels.                               *)
NextLevel ==
  IF manual.level < manual.last
  THEN [manual EXCEPT !.level = @ + 1, !.begin = manual.start]
  ELSE NoManual

(* One round of manualCompactRangeWithLevel: a compaction of what is left  *)
(* of the range on this level, or on to the next level.                    *)
ManualCompaction ==
  LET level == manual.level
      in == ManualFiles(level, manual.begin, manual.end)
  IN /\ manual # NoManual /\ driver = "none"
     /\ IF in = {}
        THEN /\ manual' = NextLevel
             /\ UNCHANGED <<compactPointers, compaction, stopped, driver>>
        ELSE /\ driver' = "compactRange" /\ manual' = manual
             /\ IF level + 2 >= NumLevels
                THEN stopped' = "level" /\ UNCHANGED <<compactPointers, compaction>>
                ELSE /\ \E c \in {Compaction(level, in, TRUE)} :
                          /\ compaction' = c
                          /\ compactPointers' =
                               [compactPointers EXCEPT ![level] = LargestKey(c.inputs[1])]
                     /\ stopped' = stopped
     /\ UNCHANGED <<memtable, immtable, files, nextFileNumber, snapshots,
                    maxFileSize, written, ranges>>

(* The end of the loop of doCompactionWork, and installCompactionResults.  *)
FinishCompaction ==
  LET c == compaction
      LastFile == CHOOSE f \in c.inputs[1] : \A g \in c.inputs[1] :
                    f = g \/ Before(g.smallest, f.smallest)
  IN /\ c # NoCompaction /\ stopped = "no"
     /\ \E tables \in {Outputs(c)} :
          /\ LogAndApply(c.level, Inputs(c), c.level + 1, tables)
          /\ nextFileNumber' = nextFileNumber + Cardinality(tables)
     /\ compaction' = NoCompaction
     /\ manual' = IF c.manual THEN [manual EXCEPT !.begin = LastFile.largest.k] ELSE manual
     /\ UNCHANGED <<memtable, immtable, compactPointers, snapshots, maxFileSize,
                    written, ranges>>
     /\ Reschedule

Background == FlushMemtable \/ PickCompaction \/ ManualCompaction \/ FinishCompaction

Next ==
  \/ \E k \in Keys, del \in BOOLEAN : Write(k, del)
  \/ SwitchMemtable
  \/ GetSnapshot
  \/ \E i \in 1..Len(snapshots) : ReleaseSnapshot(i)
  \/ \E lo, hi \in Keys : CompactRange(lo, hi)
  \/ Background

Spec == Init /\ [][Next]_vars

(* There is background work to do, by the chain or by a compactRange.      *)
Busy == stopped = "no" /\ (driver # "none" \/ manual # NoManual)

(* Both go on while they can, waiting for nothing but promises that        *)
(* settle: weak fairness of Background, with Busy for its ENABLED.  (When  *)
(* Busy holds, one of its actions can go on: the chain has work, says      *)
(* TypeOK, or a compactRange is between two rounds.)                       *)
FairSpec == Spec /\ ([]<>~Busy \/ []<><<Background>>_vars)

-----------------------------------------------------------------------------
(* The entries of a table or memtable that a lookup of k at s may return. *)
Hits(E, k, s) == {e \in E : e.k = k /\ e.s <= s}

(* The skip list is positioned at the first of them: the newest.           *)
Seek(E, k, s) == IF Hits(E, k, s) = {} THEN {} ELSE {Smallest(Hits(E, k, s))}

FileFor(level, k, s) ==
  LET from == {f \in files[level] : ~Before(f.largest, [k |-> k, s |-> s])}
  IN IF from = {} THEN {} ELSE FirstFile(from).entries

Level0Search ==
  [i \in 1..Cardinality(files[0]) |->
     (CHOOSE f \in files[0] : Cardinality({g \in files[0] : g.num > f.num}) = i - 1).entries]

(* State.match ends the search at the first table with an entry, a value   *)
(* or a deletion.                                                          *)
Match(places, k, s) ==
  LET found == {i \in DOMAIN places : Hits(places[i], k, s) # {}}
  IN IF found = {} THEN {} ELSE Seek(places[Min(found)], k, s)

(* What get finds at sequence number s, in the order of its search: the    *)
(* memtables, level 0 from the newest file to the oldest, and of every     *)
(* deeper level the first file that does not end before the key.           *)
Get(k, s) ==
  Match(<<memtable, immtable>> \o Level0Search
          \o [l \in 1..(NumLevels - 1) |-> FileFor(l, k, s)], k, s)

(* The value of a key: its newest entry, if that is not a deletion.        *)
Value(E) == {e \in E : ~e.del}
Newest(k, s) ==
  LET E == Hits(written, k, s) IN IF E = {} THEN {} ELSE {Smallest(E)}

(* Types; a file number is given once (getNextFileNumber); and a chain of  *)
(* background work runs exactly while there is some to do (backgroundCall).*)
TypeOK ==
  /\ written \subseteq Entry /\ memtable \subseteq written /\ immtable \subseteq written
  /\ \A l \in Level : \A f \in files[l] :
       /\ f.num \in 1..(nextFileNumber - 1) /\ f.entries \subseteq written /\ f.entries # {}
  /\ \A l, m \in Level : \A f \in files[l], g \in files[m] :
       f.num = g.num => f = g /\ l = m
  /\ snapshots \in Seq(0..lastSequence)
  /\ compaction.level \in -1..(NumLevels - 3)
  /\ manual.level \in -1..(NumLevels - 2) /\ manual.last \in -1..(NumLevels - 2)
  /\ driver \in {"none", "writer", "compactRange"}
  /\ driver = "none" <=> (Idle /\ ~NeedsCompaction)
  /\ stopped \in {"no", "overlap", "level"}

(* A get at any live snapshot, and one without, returns the value that was *)
(* the newest of its key then, whatever was flushed and compacted since    *)
(* (Database.get, the drop rules of doCompactionWork).                     *)
SnapshotReads ==
  \A k \in Keys, s \in Range(snapshots) \cup {lastSequence} :
    Value(Newest(k, s)) # {} => Get(k, s) = Newest(k, s)

(* And it returns nothing for a key that was deleted or never written: of  *)
(* a deletion marker that doCompactionWork drops, a comment (Database.ts:  *)
(* 989-996) says "data in layers that are being compacted here and have    *)
(* smaller sequence numbers will be dropped in the next few iterations of  *)
(* this loop", "Therefore this deletion marker is obsolete".               *)
DeletedStaysDeleted ==
  \A k \in Keys, s \in Range(snapshots) \cup {lastSequence} :
    Value(Newest(k, s)) = {} => Value(Get(k, s)) = {}

(* Every place that get searches earlier holds newer entries of a user key *)
(* than any it searches later: the reason that it may stop at the first.   *)
NewerAbove ==
  LET places == <<memtable, immtable>> \o Level0Search
                  \o [l \in 1..(NumLevels - 1) |-> Entries(files[l])]
  IN \A i, j \in DOMAIN places : i < j =>
       \A d \in places[i], e \in places[j] : d.k = e.k => d.s > e.s

(* Flushes and compactions come to an end, whatever they do to the levels, *)
(* and every compactRange returns (the loops of backgroundCall and         *)
(* manualCompactRangeWithLevel), unless an exception ended them for good.  *)
QuietInTheEnd == <>[]~Busy
=============================================================================
