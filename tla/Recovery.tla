-------------------------------- MODULE Recovery --------------------------------
(***************************************************************************)
(* What a crash of the process leaves on disk, and what opening the        *)
(* database makes of it: the log, the table files, the manifest and        *)
(* CURRENT, as written by write(), makeRoomForWrite, compactMemTable and   *)
(* logAndApply, and as read by VersionSet.recover, recover, recoverLogFile *)
(* and recoverWrapper.                                                     *)
(*                                                                         *)
(* The process may die at any step, in the middle of a table or between    *)
(* truncating and writing CURRENT included; what was written before        *)
(* survives.  A record of a log or of the manifest is appended in one step *)
(* (LogFormat has torn ones).  Every write overwrites one key, so the      *)
(* value of a write is its sequence number.  The flush runs in the chain   *)
(* of a compactRange, the general case: writes go on beside it             *)
(* (MemtableSwitch).  Compactions do not run.                              *)
(***************************************************************************)
EXTENDS Integers, Sequences, FiniteSets, FiniteSetsExt, SequencesExt, Functions

CONSTANTS
  FirstFree,    \* next file number of the database at the start
  WriteBuffer,  \* Options.writeBufferSize, in records
  MaxWrites,    \* bound: number of writes
  MaxCrashes    \* bound: number of crashes

ASSUME RecoveryAssumption ==
  /\ FirstFree \in Nat /\ FirstFree >= 4
  /\ WriteBuffer \in Nat
  /\ MaxWrites \in Nat /\ MaxCrashes \in Nat

VARIABLES
  current,      \* CURRENT: a manifest number, or 0 while it is truncated
  manifests,    \* manifest number -> what replaying the file yields
  logs,         \* log number -> its records, in order
  tables,       \* table number -> the images appended to the file
  pc,           \* whether the process is down, recovering, open or broken
  task,         \* what the flush, or the recovery, does next
  vset,         \* VersionSet: the current version and the counters
  memtable, immtable,
  logFileNumber,
  edit,         \* the VersionEdit under way, with the state it leads to
  out,          \* the number of the table being built
  todo,         \* logs still to be replayed, a set
  acked,        \* history: the last acknowledged write
  crashes,      \* history: number of crashes
  disordered    \* history: whether names of logs have sorted other than numbers

disk    == <<current, manifests, logs, tables>>
process == <<pc, task, vset, memtable, immtable, logFileNumber, edit, out, todo>>
vars    == <<current, manifests, logs, tables, pc, task, vset, memtable, immtable,
             logFileNumber, edit, out, todo, acked, crashes, disordered>>

Put(f, n, x) == [m \in DOMAIN f \cup {n} |-> IF m = n THEN x ELSE f[m]]

(* The names of the logs are numbers, and Array.sort compares the decimal  *)
(* representations: digit by digit, a prefix first.                        *)
Digits[n \in Nat] == IF n < 10 THEN <<n>> ELSE Append(Digits[n \div 10], n % 10)

SortsBefore(m, n) ==
  LET a == Digits[m]
      b == Digits[n]
  IN \/ IsStrictPrefix(a, b)
     \/ \E i \in 1..Len(a) : /\ i <= Len(b) /\ a[i] < b[i]
                             /\ \A j \in 1..(i - 1) : a[j] = b[j]

InOrder(s) == \A m, n \in s : SortsBefore(m, n) => m < n

(* The first of the logs in s.                                             *)
First(s) == {n \in s : \A m \in s \ {n} : SortsBefore(n, m)}

(* A table file opened with "a+" keeps what it held, and the blocks of a    *)
(* table are appended one by one: an image is whole once its footer is     *)
(* there.  A reader finds the footer at the end of the file, but its       *)
(* offsets count from the start.  An image that a crash tears is taken to  *)
(* have its first block: one without any byte does no harm.                *)
OpenImage(n) == Put(tables, n, (IF n \in DOMAIN tables THEN tables[n] ELSE <<>>)
                                 \o <<[recs |-> {}, whole |-> FALSE]>>)
CloseImage(n, recs) ==
  IF n \in DOMAIN tables
  THEN [tables EXCEPT ![n] = Front(@) \o <<[recs |-> recs, whole |-> TRUE]>>]
  ELSE tables

Sound(n) ==
  /\ n \in DOMAIN tables
  /\ Last(tables[n]).whole
  /\ tables[n][1] = Last(tables[n])

(* It is complete, but behind what a crash left of an earlier attempt.     *)
BehindTorn(n) ==
  /\ n \in DOMAIN tables
  /\ Last(tables[n]).whole
  /\ ~tables[n][1].whole

(* Version.pickLevelForMemTableOutput when every table holds the key.      *)
PickLevel(version) ==
  LET at(l) == \E t \in version : t.level = l
  IN IF at(0) \/ at(1) THEN 0 ELSE IF at(2) THEN 1 ELSE 2

(* Version.get: memtables first, then the tables from new to old; one that *)
(* cannot be read ends the search.                                         *)
Newest(version) ==
  CHOOSE t \in version : \A u \in version \ {t} :
    t.level < u.level \/ (t.level = u.level /\ t.number > u.number)

Get ==
  IF memtable # {} THEN Max(memtable)
  ELSE IF immtable # {} THEN Max(immtable)
  ELSE IF vset.version = {} THEN 0
  ELSE LET n == Newest(vset.version).number
       IN IF Sound(n) THEN Max(Last(tables[n]).recs) ELSE 0

NoEdit == [version |-> {}, logNumber |-> 0, nextFile |-> 0, lastSequence |-> 0]
-----------------------------------------------------------------------------
(* An open, empty database that has used up the numbers below FirstFree.   *)
Init ==
  LET manifest == FirstFree - 2
      log      == FirstFree - 1
  IN /\ current = manifest
     /\ manifests = [n \in {manifest} |->
          [version |-> {}, logNumber |-> log, nextFile |-> FirstFree,
           lastSequence |-> 0]]
     /\ logs = [n \in {log} |-> <<>>]
     /\ tables = [n \in {} |-> <<>>]
     /\ pc = "open"
     /\ task = "idle"
     /\ vset = [version |-> {}, logNumber |-> log, manifest |-> manifest,
                nextFile |-> FirstFree, lastSequence |-> 0]
     /\ memtable = {} /\ immtable = {}
     /\ logFileNumber = log
     /\ edit = NoEdit
     /\ out = 0
     /\ todo = {}
     /\ acked = 0
     /\ crashes = 0
     /\ disordered = FALSE

(* write(): the record reaches the log; an earlier one of this process has *)
(* been acknowledged.                                                      *)
LogRecord ==
  /\ pc = "open"
  /\ vset.lastSequence < MaxWrites
  /\ Cardinality(memtable) <= WriteBuffer
  /\ vset.lastSequence + 1 \notin ToSet(logs[logFileNumber])
  /\ logs' = [logs EXCEPT ![logFileNumber] = Append(@, vset.lastSequence + 1)]
  /\ UNCHANGED <<current, manifests, tables, process, acked, crashes,
                 disordered>>

(* write(): it is inserted, published and acknowledged.                    *)
Acknowledge ==
  /\ pc = "open"
  /\ vset.lastSequence + 1 \in ToSet(logs[logFileNumber])
  /\ memtable' = memtable \cup {vset.lastSequence + 1}
  /\ vset' = [vset EXCEPT !.lastSequence = @ + 1]
  /\ acked' = vset.lastSequence + 1
  /\ UNCHANGED <<disk, pc, task, immtable, logFileNumber, edit, out, todo,
                 crashes, disordered>>

(* makeRoomForWrite: a new log and a new memtable.                         *)
SwitchMemtable ==
  /\ pc = "open"
  /\ Cardinality(memtable) > WriteBuffer
  /\ immtable = {}
  /\ logs' = Put(logs, vset.nextFile, <<>>)
  /\ logFileNumber' = vset.nextFile
  /\ vset' = [vset EXCEPT !.nextFile = @ + 1]
  /\ immtable' = memtable
  /\ memtable' = {}
  /\ UNCHANGED <<current, manifests, tables, pc, task, edit, out, todo, acked,
                 crashes, disordered>>

(* compactMemTable: a table number is taken and its file opened.           *)
StartFlush ==
  /\ pc = "open" /\ task = "idle"
  /\ immtable # {}
  /\ out' = vset.nextFile
  /\ vset' = [vset EXCEPT !.nextFile = @ + 1]
  /\ tables' = OpenImage(vset.nextFile)
  /\ task' = "table"
  /\ UNCHANGED <<current, manifests, logs, pc, memtable, immtable,
                 logFileNumber, edit, todo, acked, crashes, disordered>>

(* Mutant: the edit takes the next log for the first one still needed.     *)
FlushEditSkipsLog ==
  [version      |-> vset.version
                      \cup {[number |-> out, level |-> PickLevel(vset.version)]},
   logNumber    |-> vset.nextFile,
   nextFile     |-> vset.nextFile,
   lastSequence |-> vset.lastSequence]

(* compactMemTable and logAndApply: the table joins the version, and the   *)
(* logs before the one in use are no longer needed.                        *)
FlushEdit ==
  [version      |-> vset.version
                      \cup {[number |-> out, level |-> PickLevel(vset.version)]},
   logNumber    |-> logFileNumber,
   nextFile     |-> vset.nextFile,
   lastSequence |-> vset.lastSequence]

(* The table is complete, and logAndApply fixes the edit.                  *)
BuildFlushTable ==
  /\ pc = "open" /\ task = "table"
  /\ tables' = CloseImage(out, immtable)
  /\ edit' = FlushEdit
  /\ task' = "append"
  /\ UNCHANGED <<current, manifests, logs, pc, vset, memtable, immtable,
                 logFileNumber, out, todo, acked, crashes, disordered>>
-----------------------------------------------------------------------------
(* What the manifest yields with the snapshot of the current version and   *)
(* the edit at its end (writeSnapshot, logAndApply); a recovery that       *)
(* crashed may have left one of the same number, whose records stay in     *)
(* front.                                                                  *)
WithSnapshot ==
  LET before == IF vset.manifest \in DOMAIN manifests
                THEN manifests[vset.manifest].version ELSE {}
  IN [edit EXCEPT !.version = @ \cup vset.version \cup before]

AppendEdit ==
  /\ task = "append"
  /\ manifests' = Put(manifests, vset.manifest, WithSnapshot)
  /\ task' = "truncate"
  /\ UNCHANGED <<current, logs, tables, pc, vset, memtable, immtable,
                 logFileNumber, edit, out, todo, acked, crashes, disordered>>

(* CURRENT is written by writeFile, which truncates it first.              *)
TruncateCurrent ==
  /\ task = "truncate"
  /\ current' = 0
  /\ task' = "write"
  /\ UNCHANGED <<manifests, logs, tables, pc, vset, memtable, immtable,
                 logFileNumber, edit, out, todo, acked, crashes, disordered>>

(* CURRENT is complete, the version installed, the flushed memtable gone.  *)
WriteCurrent ==
  /\ task = "write"
  /\ current' = vset.manifest
  /\ vset' = [vset EXCEPT !.version = edit.version, !.logNumber = edit.logNumber]
  /\ immtable' = {}
  /\ out' = 0
  /\ task' = "clean"
  /\ UNCHANGED <<manifests, logs, tables, pc, memtable, logFileNumber, edit,
                 todo, acked, crashes, disordered>>

(* Mutant: the manifest in use is taken for an older one.                  *)
OldManifestsInclusive == {n \in DOMAIN manifests : n <= vset.manifest}

OldManifests == {n \in DOMAIN manifests : n < vset.manifest}
OldTables    == DOMAIN tables \ {t.number : t \in vset.version}

(* Mutants: logs below the one in use go, whatever the manifest says; the  *)
(* first log still needed goes.                                            *)
OldLogsInclusive == {n \in DOMAIN logs : n <= vset.logNumber}
OldLogsByUse == {n \in DOMAIN logs : n < logFileNumber}

OldLogs      == {n \in DOMAIN logs : n < vset.logNumber}

(* deleteObsoleteFiles unlinks one file after the other.                   *)
DeleteObsolete ==
  /\ task = "clean"
  /\ \/ /\ \E n \in OldManifests :
             manifests' = Restrict(manifests, DOMAIN manifests \ {n})
        /\ UNCHANGED <<logs, tables>>
     \/ /\ \E n \in OldLogs : logs' = Restrict(logs, DOMAIN logs \ {n})
        /\ UNCHANGED <<manifests, tables>>
     \/ /\ \E n \in OldTables : tables' = Restrict(tables, DOMAIN tables \ {n})
        /\ UNCHANGED <<manifests, logs>>
  /\ UNCHANGED <<current, process, acked, crashes, disordered>>

(* Nothing is left to unlink: the flush, or the recovery, is over.         *)
Finish ==
  /\ task = "clean"
  /\ OldManifests = {} /\ OldLogs = {} /\ OldTables = {}
  /\ edit' = NoEdit
  /\ task' = "idle"
  /\ pc' = "open"
  /\ UNCHANGED <<disk, vset, memtable, immtable, logFileNumber, out, todo,
                 acked, crashes, disordered>>
-----------------------------------------------------------------------------
(* The process dies, at any point.  A table it was building is left torn,  *)
(* CURRENT between truncation and writing empty.                           *)
Crash ==
  /\ pc \in {"open", "recovering"}
  /\ crashes < MaxCrashes
  /\ pc' = "down"
  /\ task' = "idle"
  /\ vset' = [version |-> {}, logNumber |-> 0, manifest |-> 0, nextFile |-> 0,
              lastSequence |-> 0]
  /\ memtable' = {} /\ immtable' = {}
  /\ logFileNumber' = 0
  /\ edit' = NoEdit
  /\ out' = 0
  /\ todo' = {}
  /\ crashes' = crashes + 1
  /\ UNCHANGED <<disk, acked, disordered>>

(* A file of the version is missing when no file has its number, of        *)
(* whatever type.                                                          *)
Missing(version) ==
  {t \in version :
     t.number \notin DOMAIN tables \cup DOMAIN logs \cup DOMAIN manifests}

(* Open: an empty CURRENT, a missing manifest or a missing table is        *)
(* refused.                                                                *)
Refuse ==
  /\ pc = "down"
  /\ current \in DOMAIN manifests => Missing(manifests[current].version) # {}
  /\ pc' = "broken"
  /\ UNCHANGED <<disk, task, vset, memtable, immtable, logFileNumber, edit, out,
                 todo, acked, crashes, disordered>>

(* Mutant: the number of the new manifest is given out again.              *)
RecoveredSharesNumber(state) ==
  [version      |-> state.version,
   logNumber    |-> state.logNumber,
   manifest     |-> state.nextFile,
   nextFile     |-> state.nextFile,
   lastSequence |-> state.lastSequence]

(* VersionSet.recover: the manifest's next file number becomes the number  *)
(* of a new manifest.                                                      *)
Recovered(state) ==
  [version      |-> state.version,
   logNumber    |-> state.logNumber,
   manifest     |-> state.nextFile,
   nextFile     |-> state.nextFile + 1,
   lastSequence |-> state.lastSequence]

(* Open: the manifest is replayed, and the logs from its log number on are *)
(* to be replayed.                                                         *)
Open ==
  /\ pc = "down"
  /\ current \in DOMAIN manifests
  /\ Missing(manifests[current].version) = {}
  /\ LET state == manifests[current]
     IN /\ vset' = Recovered(state)
        /\ todo' = {n \in DOMAIN logs : n >= state.logNumber}
        /\ edit' = [NoEdit EXCEPT !.version = state.version]
  /\ disordered' = (disordered \/ ~InOrder(todo'))
  /\ pc' = "recovering"
  /\ task' = "replay"
  /\ UNCHANGED <<disk, memtable, immtable, logFileNumber, out, acked, crashes>>

MarkFileNumberUsed(v, n) == [v EXCEPT !.nextFile = IF @ <= n THEN n + 1 ELSE @]

(* recoverLogFile: an empty log only marks its number used; any other      *)
(* fills a memtable, for which a table is opened.                          *)
ReplayLog ==
  /\ task = "replay"
  /\ \E n \in First(todo) :
       \/ /\ logs[n] = <<>>
          /\ vset' = MarkFileNumberUsed(vset, n)
          /\ todo' = todo \ {n}
          /\ UNCHANGED <<tables, memtable, out, task>>
       \/ /\ logs[n] # <<>>
          /\ memtable' = ToSet(logs[n])
          /\ out' = vset.nextFile
          /\ tables' = OpenImage(vset.nextFile)
          /\ vset' = [vset EXCEPT !.nextFile = @ + 1]
          /\ task' = "table"
          /\ UNCHANGED todo
  /\ UNCHANGED <<current, manifests, logs, pc, immtable, logFileNumber, edit,
                 acked, crashes, disordered>>

(* Its table, on level 0, is complete.                                     *)
FinishReplay ==
  /\ pc = "recovering" /\ task = "table"
  /\ tables' = CloseImage(out, memtable)
  /\ edit' = [edit EXCEPT !.version = @ \cup {[number |-> out, level |-> 0]},
                          !.lastSequence = Max({@, Max(memtable)})]
  /\ \E n \in First(todo) :
       vset' = MarkFileNumberUsed(vset, n) /\ todo' = todo \ {n}
  /\ memtable' = {}
  /\ out' = 0
  /\ task' = "replay"
  /\ UNCHANGED <<current, manifests, logs, pc, immtable, logFileNumber, acked,
                 crashes, disordered>>

(* Mutant: the sequence number found in the logs is not taken over.        *)
RecoveredSequenceOfManifest == vset.lastSequence

RecoveredSequence == Max({vset.lastSequence, edit.lastSequence})

(* All logs are replayed: recoverWrapper opens a new one and calls         *)
(* logAndApply, which makes the older ones obsolete.                       *)
NewLog ==
  /\ task = "replay"
  /\ todo = {}
  /\ LET log == vset.nextFile IN
       /\ logs' = Put(logs, log, <<>>)
       /\ logFileNumber' = log
       /\ vset' = [vset EXCEPT !.nextFile = log + 1,
                              !.lastSequence = RecoveredSequence]
       /\ edit' = [version |-> edit.version, logNumber |-> log,
                   nextFile |-> log + 1, lastSequence |-> RecoveredSequence]
  /\ task' = "append"
  /\ UNCHANGED <<current, manifests, tables, pc, memtable, immtable, out, todo,
                 acked, crashes, disordered>>

Work ==
  \/ StartFlush \/ BuildFlushTable
  \/ AppendEdit \/ TruncateCurrent \/ WriteCurrent \/ DeleteObsolete \/ Finish
  \/ Refuse \/ Open \/ ReplayLog \/ FinishReplay \/ NewLog

Next == LogRecord \/ Acknowledge \/ SwitchMemtable \/ Work \/ Crash

Spec == Init /\ [][Next]_vars

(* The file system answers, and a process that died is started again.      *)
FairSpec == Spec /\ WF_vars(Work)
-----------------------------------------------------------------------------
TypeOK ==
  /\ current \in Nat
  /\ \A n \in DOMAIN logs : logs[n] \in Seq(1..MaxWrites)
  /\ \A n \in DOMAIN tables : \A i \in 1..Len(tables[n]) :
       tables[n][i].recs \subseteq 1..MaxWrites /\ tables[n][i].whole \in BOOLEAN
  /\ pc \in {"open", "down", "recovering", "broken"}
  /\ task \in {"idle", "table", "append", "truncate", "write", "clean", "replay"}
  /\ memtable \subseteq 1..MaxWrites /\ immtable \subseteq 1..MaxWrites
  /\ vset.lastSequence \in 0..MaxWrites
  /\ pc = "open" => logFileNumber \in DOMAIN logs

(* "If it is just the process that crashes, no writes will be lost even if *)
(* sync==false" (Options.ts, WriteOptions.sync): an open database returns  *)
(* the last acknowledged write, or one after it that was under way when    *)
(* the process died, and never an older one.                               *)
NoWriteLost == pc = "open" => Get >= acked

(* What is left of that promise however often the process dies, in the     *)
(* middle of a table or of CURRENT included: only two things lose a write. *)
(* Either names of logs have sorted other than their numbers, or the table *)
(* that holds the newest writes was appended to the torn one of an earlier *)
(* recovery, which makes it unreadable.                                    *)
LostOnlyIfTorn ==
  pc = "open" /\ ~disordered =>
    \/ Get >= acked
    \/ /\ Get = 0 /\ vset.version # {}
       /\ LET n == Newest(vset.version).number
          IN BehindTorn(n) /\ Max(Last(tables[n]).recs) >= acked

(* At every point, down or up, the last acknowledged write is on disk      *)
(* where the next recovery will look for it: in a complete table of the    *)
(* manifest CURRENT names, or in a log that manifest still asks for; no    *)
(* table of that manifest is missing, and those that are not sound are     *)
(* complete behind a torn image.  Logs replayed in another order end that.  *)
Recoverable ==
  current # 0 /\ acked > 0 /\ ~disordered =>
    LET state == manifests[current] IN
      /\ current \in DOMAIN manifests
      /\ Missing(state.version) = {}
      /\ \A t \in state.version : Sound(t.number) \/ BehindTorn(t.number)
      /\ \/ \E t \in state.version : acked \in Last(tables[t.number]).recs
         \/ \E n \in DOMAIN logs : n >= state.logNumber /\ acked \in ToSet(logs[n])

(* "Recover in the order in which the logs were generated" (Database.ts,    *)
(* recover): the tables made of younger logs get higher numbers, so that    *)
(* get, which reads level 0 from high numbers to low, never meets one with  *)
(* older writes only before the one with the last acknowledged write.       *)
ReplayedInOrder ==
  pc = "open" =>
    \A t, u \in {v \in vset.version : v.level = 0} :
      t.number < u.number /\ acked \in Last(tables[t.number]).recs =>
        Max(Last(tables[u.number]).recs) >= acked

(* No sequence number is given out twice: what is on disk anywhere is at   *)
(* most the last sequence of an open database, but for one record under    *)
(* way.                                                                    *)
SequencesFresh ==
  pc = "open" =>
    /\ \A n \in DOMAIN logs : \A s \in ToSet(logs[n]) :
         s <= vset.lastSequence \/ (n = logFileNumber /\ s = vset.lastSequence + 1)
    /\ \A t \in vset.version : Sound(t.number) =>
         \A s \in Last(tables[t.number]).recs : s <= vset.lastSequence

(* No file number is given out twice: the files of an open database have   *)
(* numbers of their own, whatever numbers its earlier incarnations had     *)
(* allocated without recording them, and it allocates above all of them.   *)
NumbersFresh ==
  pc = "open" =>
    /\ vset.manifest \notin DOMAIN logs \cup DOMAIN tables
    /\ DOMAIN logs \cap DOMAIN tables = {}
    /\ \A n \in DOMAIN logs \cup DOMAIN tables : n < vset.nextFile

(* A process that is started again opens the database, unless a crash      *)
(* caught CURRENT truncated or logs were replayed in the wrong order:      *)
(* recovery itself never ends in a state that it refuses.                  *)
RecoveryCompletes == (pc = "down") ~> (pc = "open" \/ current = 0 \/ disordered)
=============================================================================
