----------------------------- MODULE MemtableSwitch -----------------------------
(***************************************************************************)
(* How memtables are switched and flushed: makeRoomForWrite, the           *)
(* background compaction it schedules, compactMemTable, compactRange,      *)
(* logAndApply and deleteObsoleteFiles, on one event loop.                 *)
(*                                                                         *)
(* There is no background thread.  maybeScheduleCompaction is awaited by   *)
(* the call that needs room, or by compactRange, and that call runs the    *)
(* whole chain of flushes and compactions before it goes on; other calls   *)
(* interleave at its awaits.  pc[c] is the await a call is suspended at.   *)
(* A call at "scheduling" or "background" has not reached an await yet,    *)
(* and one that is "spinning" goes round a loop without an await and never *)
(* gives the event loop back; in both cases nobody else moves (Quiet).  A  *)
(* timer fires or a file answers only when, besides, no promise that has   *)
(* been resolved still has code to run (Idle).                             *)
(*                                                                         *)
(* A write is one record under a key of its own: which records a           *)
(* compaction may drop, and the key ranges, are the subject of another     *)
(* module; the writers lead one by one (GroupCommit merges them).          *)
(***************************************************************************)
EXTENDS Integers, Sequences, FiniteSets

CONSTANTS
  Writers,        \* put, del and batch calls
  Compactors,     \* compactRange calls
  None,           \* no immutable memtable, no manual compaction
  WriteBuffer,    \* Options.writeBufferSize, in records
  Trigger,        \* kL0CompactionTrigger
  Slowdown,       \* kL0SlowdownWritesTrigger
  Stop,           \* kL0StopWritesTrigger
  OpenTables,     \* level-0 tables the database is opened with
  IOErrors,       \* whether files may fail to open, append or unlink
  MaxFileNumber   \* bound: no flush starts in a compaction beyond it

Calls == Writers \cup Compactors

ASSUME MemtableSwitchAssumption ==
  /\ Writers \cap Compactors = {}
  /\ None \notin Calls /\ \A W \in SUBSET Writers : None # W
  /\ WriteBuffer \in Nat
  /\ Trigger \in Nat \ {0} /\ Slowdown \in Nat /\ Stop \in Nat
  /\ Trigger <= Slowdown /\ Slowdown <= Stop
  /\ OpenTables \in Nat /\ OpenTables < Trigger
  /\ IOErrors \in BOOLEAN
  /\ MaxFileNumber \in Nat

VARIABLES
  queue,          \* Database.writers
  pc,             \* where each call is
  room,           \* makeRoomForWrite's force, allowDelay and newLogNumber
  memtable,       \* the writes in Database._memtable
  immtable,       \* those in Database._immtable, or None
  logs,           \* the log files, and the writes in each
  logFileNumber,  \* Database._logFileNumber: the log of memtable
  tables,         \* the table files, and the writes in each
  level0,         \* the level-0 tables of the current version
  deeper,         \* its tables at the levels below
  logNumber,      \* VersionSet.logNumber: the oldest log recovery reads
  nextFileNumber, \* VersionSet.nextFileNumber
  pendingOutputs, \* Database.pendingOutputs
  scheduled,      \* Database._backgroundCompactionScheduled
  bgError,        \* whether Database._bgError is set
  manual,         \* Database._manualCompaction
  manualDone,     \* the compactors whose ManualCompaction is done
  job             \* the local variables of each call's background chain

front      == <<queue, room>>
memory     == <<memtable, immtable, logs, logFileNumber>>
version    == <<level0, deeper, logNumber>>
files      == <<tables, nextFileNumber, pendingOutputs>>
background == <<scheduled, bgError, manual, manualDone, job>>
vars == <<queue, room, pc, memtable, immtable, logs, logFileNumber, level0, deeper,
          logNumber, tables, nextFileNumber, pendingOutputs, scheduled, bgError,
          manual, manualDone, job>>

Chain == {"background", "building", "applyingFlush", "cleaning", "compacting",
          "applyingCompaction", "cleaningUp", "applyingMove", "ended", "moveFailed",
          "unscheduling"}
PCs   == {"idle", "queued", "room", "asleep", "switching", "logging", "logged",
          "scheduling", "manual", "spinning", "returned", "dropped", "failed"}
           \cup Chain

NoJob == [flush |-> 0, in0 |-> {}, in1 |-> {}, out |-> 0,
          level0 |-> {}, deeper |-> {}, log |-> 0]

Job == [flush : Nat, in0 : SUBSET Nat, in1 : SUBSET Nat, out : Nat,
        level0 : SUBSET Nat, deeper : SUBSET Nat, log : Nat]

Quiet == \A c \in Calls : pc[c] \notin {"scheduling", "background", "spinning"}

Leads(c) == queue # <<>> /\ Head(queue) = c

Ready(c) ==
  \/ pc[c] \in {"room", "manual", "ended", "moveFailed", "unscheduling"}
  \/ pc[c] = "queued" /\ Leads(c)

Idle == Quiet /\ \A c \in Calls : ~Ready(c)

GoTo(c, where) == pc' = [pc EXCEPT ![c] = where]

Restrict(f, S) == [x \in DOMAIN f \cap S |-> f[x]]

(* A new file n with content x; opening with "a" keeps nothing older here  *)
(* because n is fresh.                                                     *)
Create(f, n, x) == [m \in DOMAIN f \cup {n} |-> IF m = n THEN x ELSE f[m]]
-----------------------------------------------------------------------------
Init ==
  /\ queue = <<>>
  /\ pc = [c \in Calls |-> "idle"]
  /\ room = [force |-> FALSE, allowDelay |-> FALSE, newLog |-> 0]
  /\ memtable = {}
  /\ immtable = None
  /\ logs = [n \in {OpenTables + 1} |-> {}]
  /\ logFileNumber = OpenTables + 1
  /\ tables = [n \in 1..OpenTables |-> {}]
  /\ level0 = 1..OpenTables
  /\ deeper = {}
  /\ logNumber = OpenTables + 1
  /\ nextFileNumber = OpenTables + 2
  /\ pendingOutputs = 1..OpenTables
  /\ scheduled = FALSE
  /\ bgError = FALSE
  /\ manual = None
  /\ manualDone = {}
  /\ job = [c \in Calls |-> NoJob]

(* write() is called, by put or by the flush compactRange starts with.     *)
Call(c) ==
  /\ Quiet
  /\ pc[c] = "idle"
  /\ queue' = Append(queue, c)
  /\ GoTo(c, "queued")
  /\ UNCHANGED <<room, memory, version, files, background>>

(* The call at the front enters makeRoomForWrite; a flush forces.          *)
Lead(c) ==
  /\ Quiet
  /\ pc[c] = "queued" /\ Leads(c)
  /\ room' = [force |-> c \in Compactors, allowDelay |-> c \in Writers, newLog |-> 0]
  /\ GoTo(c, "room")
  /\ UNCHANGED <<queue, memory, version, files, background>>

Slow == room.allowDelay /\ Cardinality(level0) >= Slowdown
Full == room.force \/ Cardinality(memtable) > WriteBuffer

(* A background error refuses the write; write() swallows it.              *)
Refuse(c) ==
  /\ Quiet
  /\ pc[c] = "room"
  /\ bgError
  /\ queue' = Tail(queue)
  /\ GoTo(c, IF c \in Compactors THEN "manual" ELSE "dropped")
  /\ UNCHANGED <<room, memory, version, files, background>>

(* Each write is delayed once when level 0 is getting full.                *)
Delay(c) ==
  /\ Quiet
  /\ pc[c] = "room"
  /\ ~bgError /\ Slow
  /\ GoTo(c, "asleep")
  /\ UNCHANGED <<front, memory, version, files, background>>

WakeUp(c) ==
  /\ Idle
  /\ pc[c] = "asleep"
  /\ room' = [room EXCEPT !.allowDelay = FALSE]
  /\ GoTo(c, "room")
  /\ UNCHANGED <<queue, memory, version, files, background>>

(* There is room: a write goes to the log, a flush is over.                *)
HasRoom(c) ==
  /\ Quiet
  /\ pc[c] = "room"
  /\ ~bgError /\ ~Slow /\ ~Full
  /\ IF c \in Writers
     THEN GoTo(c, "logging") /\ UNCHANGED queue
     ELSE GoTo(c, "manual") /\ queue' = Tail(queue)
  /\ UNCHANGED <<room, memory, version, files, background>>

(* The two "waiting..." branches go round the loop without an await.       *)
Spin(c) ==
  /\ Quiet
  /\ pc[c] = "room"
  /\ ~bgError /\ ~Slow /\ Full
  /\ immtable # None \/ Cardinality(level0) >= Stop
  /\ GoTo(c, "spinning")
  /\ UNCHANGED <<front, memory, version, files, background>>

(* A log number is taken; then the old log is closed and the new opened.   *)
StartSwitch(c) ==
  /\ Quiet
  /\ pc[c] = "room"
  /\ ~bgError /\ ~Slow /\ Full
  /\ immtable = None /\ Cardinality(level0) < Stop
  /\ room' = [room EXCEPT !.newLog = nextFileNumber]
  /\ nextFileNumber' = nextFileNumber + 1
  /\ GoTo(c, "switching")
  /\ UNCHANGED <<queue, memory, version, tables, pendingOutputs, background>>

(* The new log is open: the memtable becomes immutable.                    *)
FinishSwitch(c) ==
  /\ Idle
  /\ pc[c] = "switching"
  /\ logs' = Create(logs, room.newLog, {})
  /\ immtable' = memtable
  /\ memtable' = {}
  /\ logFileNumber' = room.newLog
  /\ room' = [room EXCEPT !.force = FALSE]
  /\ GoTo(c, "scheduling")
  /\ UNCHANGED <<queue, version, files, background>>

(* addRecord: the record is in the current log.                            *)
LogAppend(c) ==
  /\ Idle
  /\ pc[c] = "logging"
  /\ logs' = [logs EXCEPT ![logFileNumber] = @ \cup {c}]
  /\ GoTo(c, "logged")
  /\ UNCHANGED <<front, memtable, immtable, logFileNumber, version, files, background>>

(* Mutant: the writer does not leave the queue.                            *)
InsertKeepsFront(c) ==
  /\ Idle
  /\ pc[c] = "logged"
  /\ memtable' = memtable \cup {c}
  /\ GoTo(c, "returned")
  /\ UNCHANGED <<front, immtable, logs, logFileNumber, version, files, background>>

(* The record is inserted into the memtable, and the writer leaves.        *)
Insert(c) ==
  /\ Idle
  /\ pc[c] = "logged"
  /\ memtable' = memtable \cup {c}
  /\ queue' = Tail(queue)
  /\ GoTo(c, "returned")
  /\ UNCHANGED <<room, immtable, logs, logFileNumber, version, files, background>>
-----------------------------------------------------------------------------
Due == immtable # None \/ manual # None \/ Cardinality(level0) >= Trigger

(* The call awaits maybeScheduleCompaction in makeRoomForWrite if it       *)
(* leads, in manualCompactRangeWithLevel otherwise.                        *)
Caller(c) == IF Leads(c) THEN "room" ELSE "manual"

(* Mutant: maybeScheduleCompaction does not look whether a chain runs.     *)
ScheduleTwice(c) ==
  /\ pc[c] = "scheduling"
  /\ IF bgError \/ ~Due
     THEN GoTo(c, Caller(c)) /\ UNCHANGED scheduled
     ELSE GoTo(c, "background") /\ scheduled' = TRUE
  /\ UNCHANGED <<front, memory, version, files, bgError, manual, manualDone, job>>

(* maybeScheduleCompaction.                                                *)
Schedule(c) ==
  /\ pc[c] = "scheduling"
  /\ IF scheduled \/ bgError \/ ~Due
     THEN GoTo(c, Caller(c)) /\ UNCHANGED scheduled
     ELSE GoTo(c, "background") /\ scheduled' = TRUE
  /\ UNCHANGED <<front, memory, version, files, bgError, manual, manualDone, job>>

(* compactMemTable up to the awaits of buildTable: at the start of         *)
(* backgroundCompaction, or before any entry of a running compaction.  An  *)
(* empty memtable gets no file.                                            *)
StartFlush(c) ==
  /\ \/ pc[c] = "background"
     \/ Idle /\ pc[c] = "compacting" /\ nextFileNumber < MaxFileNumber
  /\ immtable # None
  /\ IF immtable = {}
     THEN UNCHANGED files /\ job' = [job EXCEPT ![c].flush = 0]
     ELSE /\ job' = [job EXCEPT ![c].flush = nextFileNumber]
          /\ nextFileNumber' = nextFileNumber + 1
          /\ tables' = Create(tables, nextFileNumber, immtable)
          /\ pendingOutputs' = pendingOutputs \cup {nextFileNumber}
  /\ GoTo(c, "building")
  /\ UNCHANGED <<front, memory, version, scheduled, bgError, manual, manualDone>>

(* Mutant: the logs up to the next file number are no longer needed.       *)
FlushBuiltDropsLog(c) ==
  /\ Idle
  /\ pc[c] = "building"
  /\ pendingOutputs' = pendingOutputs \ {job[c].flush}
  /\ job' = [job EXCEPT ![c].level0 = level0 \cup ({job[c].flush} \ {0}),
                        ![c].deeper = deeper,
                        ![c].log    = nextFileNumber]
  /\ GoTo(c, "applyingFlush")
  /\ UNCHANGED <<front, memory, version, tables, nextFileNumber, scheduled, bgError,
                 manual, manualDone>>

(* The table is written and leaves pendingOutputs; logAndApply derives the *)
(* next version from the current one.  The table goes to level 0 or, if no *)
(* key overlaps, deeper.                                                   *)
FlushBuilt(c) ==
  /\ Idle
  /\ pc[c] = "building"
  /\ pendingOutputs' = pendingOutputs \ {job[c].flush}
  /\ LET new == {job[c].flush} \ {0} IN
     \E sinks \in BOOLEAN :
       job' = [job EXCEPT ![c].level0 = IF sinks THEN level0 ELSE level0 \cup new,
                          ![c].deeper = IF sinks THEN deeper \cup new ELSE deeper,
                          ![c].log    = logFileNumber]
  /\ GoTo(c, "applyingFlush")
  /\ UNCHANGED <<front, memory, version, tables, nextFileNumber, scheduled, bgError,
                 manual, manualDone>>

(* A flush inside a compaction goes back to it; one that was all the work  *)
(* leaves backgroundCompaction at once.                                    *)
AfterFlush(c) == IF job[c].in0 # {} THEN "compacting" ELSE "unscheduling"

(* Table or manifest could not be written: compactMemTable records it, and *)
(* the memtable stays.                                                     *)
FlushFails(c) ==
  /\ Idle
  /\ IOErrors
  /\ pc[c] \in {"building", "applyingFlush"}
  /\ pendingOutputs' = pendingOutputs \ {job[c].flush}
  /\ bgError' = TRUE
  /\ GoTo(c, AfterFlush(c))
  /\ UNCHANGED <<front, memory, version, tables, nextFileNumber, scheduled, manual,
                 manualDone, job>>

(* Mutant: deletions are not applied.                                      *)
InstallAddsOnly(c) ==
  /\ level0' = level0 \cup job[c].level0
  /\ deeper' = deeper \cup job[c].deeper
  /\ logNumber' = job[c].log

(* logAndApply installs the version it derived.                            *)
Install(c) ==
  /\ level0' = job[c].level0
  /\ deeper' = job[c].deeper
  /\ logNumber' = job[c].log

(* The memtable is dropped, and deleteObsoleteFiles starts: it adds every  *)
(* live table to pendingOutputs itself.                                    *)
FlushApplied(c) ==
  /\ Idle
  /\ pc[c] = "applyingFlush"
  /\ Install(c)
  /\ immtable' = None
  /\ pendingOutputs' = pendingOutputs \cup level0' \cup deeper'
  /\ GoTo(c, "cleaning")
  /\ UNCHANGED <<front, memtable, logs, logFileNumber, tables, nextFileNumber,
                 background>>

(* The directory has been read: what is neither live nor needed goes.      *)
Clean(c) ==
  /\ Idle
  /\ pc[c] \in {"cleaning", "cleaningUp"}
  /\ tables' = Restrict(tables, pendingOutputs)
  /\ logs' = Restrict(logs, {n \in DOMAIN logs : n >= logNumber})
  /\ GoTo(c, IF pc[c] = "cleaning" THEN AfterFlush(c) ELSE "ended")
  /\ UNCHANGED <<front, memtable, immtable, logFileNumber, version, nextFileNumber,
                 pendingOutputs, background>>
-----------------------------------------------------------------------------
(* compactRange of the version set finds tables in the range, or none, and *)
(* then the manual compaction is done.                                     *)
PickManual(c) ==
  /\ pc[c] = "background"
  /\ immtable = None /\ manual # None
  /\ \E in0 \in SUBSET level0 :
       IF in0 = {}
       THEN /\ manualDone' = manualDone \cup {manual}
            /\ GoTo(c, "ended")
            /\ UNCHANGED job
       ELSE \E in1 \in SUBSET deeper :
            /\ job' = [job EXCEPT ![c].in0 = in0, ![c].in1 = in1, ![c].out = 0]
            /\ GoTo(c, "compacting")
            /\ UNCHANGED manualDone
  /\ UNCHANGED <<front, memory, version, files, scheduled, bgError, manual>>

(* pickCompaction; one table with nothing below it is moved, without a     *)
(* merge (its overlap with the grandparents is taken to be small).         *)
PickAuto(c) ==
  /\ pc[c] = "background"
  /\ immtable = None /\ manual = None
  /\ \E in0 \in (SUBSET level0) \ {{}} : \E in1 \in SUBSET deeper :
       IF Cardinality(in0) = 1 /\ in1 = {}
       THEN /\ job' = [job EXCEPT ![c].level0 = level0 \ in0,
                                  ![c].deeper = deeper \cup in0,
                                  ![c].log    = logNumber]
            /\ GoTo(c, "applyingMove")
       ELSE /\ job' = [job EXCEPT ![c].in0 = in0, ![c].in1 = in1, ![c].out = 0]
            /\ GoTo(c, "compacting")
  /\ UNCHANGED <<front, memory, version, files, scheduled, bgError, manual,
                 manualDone>>

Moved(c) ==
  /\ Idle
  /\ pc[c] = "applyingMove"
  /\ Install(c)
  /\ GoTo(c, "ended")
  /\ UNCHANGED <<front, memory, files, background>>

(* A failed move is not recorded as a background error.                    *)
MoveFails(c) ==
  /\ Idle
  /\ IOErrors
  /\ pc[c] = "applyingMove"
  /\ GoTo(c, "moveFailed")
  /\ UNCHANGED <<front, memory, version, files, background>>

(* doCompactionWork opens its output at the first entry it keeps.          *)
OpenOutput(c) ==
  /\ Idle
  /\ pc[c] = "compacting"
  /\ job[c].out = 0
  /\ LET merged == UNION {tables[t] : t \in (job[c].in0 \cup job[c].in1) \cap DOMAIN tables}
     IN tables' = Create(tables, nextFileNumber, merged)
  /\ job' = [job EXCEPT ![c].out = nextFileNumber]
  /\ pendingOutputs' = pendingOutputs \cup {nextFileNumber}
  /\ nextFileNumber' = nextFileNumber + 1
  /\ UNCHANGED <<front, pc, memory, version, scheduled, bgError, manual, manualDone>>

(* Mutant: the next version is derived from the inputs' version.           *)
FinishOutputFromInputs(c) ==
  /\ Idle
  /\ pc[c] = "compacting"
  /\ job[c].out # 0
  /\ job' = [job EXCEPT ![c].level0 = {},
                        ![c].deeper = (deeper \ job[c].in1) \cup {job[c].out},
                        ![c].log    = logNumber]
  /\ GoTo(c, "applyingCompaction")
  /\ UNCHANGED <<front, memory, version, files, scheduled, bgError, manual, manualDone>>

(* The output is finished; installCompactionResults calls logAndApply.     *)
FinishOutput(c) ==
  /\ Idle
  /\ pc[c] = "compacting"
  /\ job[c].out # 0
  /\ job' = [job EXCEPT ![c].level0 = level0 \ job[c].in0,
                        ![c].deeper = (deeper \ job[c].in1) \cup {job[c].out},
                        ![c].log    = logNumber]
  /\ GoTo(c, "applyingCompaction")
  /\ UNCHANGED <<front, memory, version, files, scheduled, bgError, manual, manualDone>>

EndJob(c) == job' = [job EXCEPT ![c].in0 = {}, ![c].in1 = {}, ![c].out = 0]

(* Mutant: the live tables are not added to pendingOutputs.                *)
CompactionAppliedForgetsLive(c) ==
  /\ Idle
  /\ pc[c] = "applyingCompaction"
  /\ Install(c)
  /\ pendingOutputs' = pendingOutputs \ {job[c].out}
  /\ EndJob(c)
  /\ GoTo(c, "cleaningUp")
  /\ UNCHANGED <<front, memory, tables, nextFileNumber, scheduled, bgError, manual,
                 manualDone>>

(* The result is installed; cleanupCompaction, then deleteObsoleteFiles.   *)
CompactionApplied(c) ==
  /\ Idle
  /\ pc[c] = "applyingCompaction"
  /\ Install(c)
  /\ pendingOutputs' = (pendingOutputs \ {job[c].out}) \cup level0' \cup deeper'
  /\ EndJob(c)
  /\ GoTo(c, "cleaningUp")
  /\ UNCHANGED <<front, memory, tables, nextFileNumber, scheduled, bgError, manual,
                 manualDone>>

(* The status of doCompactionWork is an error.                             *)
CompactionFails(c) ==
  /\ Idle
  /\ IOErrors
  /\ pc[c] \in {"compacting", "applyingCompaction"}
  /\ bgError' = TRUE
  /\ pendingOutputs' = (pendingOutputs \ {job[c].out}) \cup level0 \cup deeper
  /\ EndJob(c)
  /\ GoTo(c, "cleaningUp")
  /\ UNCHANGED <<front, memory, version, tables, nextFileNumber, scheduled, manual,
                 manualDone>>

(* The end of backgroundCompaction forgets the manual compaction, whether  *)
(* or not it was the one that ran; only a failed move marks it done.       *)
EndBackground(c) ==
  /\ Quiet
  /\ pc[c] \in {"ended", "moveFailed"}
  /\ manual' = None
  /\ manualDone' = manualDone \cup (IF pc[c] = "moveFailed" THEN {manual} \ {None} ELSE {})
  /\ GoTo(c, "unscheduling")
  /\ UNCHANGED <<front, memory, version, files, scheduled, bgError, job>>

(* backgroundCall: the flag is reset, and maybeScheduleCompaction runs     *)
(* again.                                                                  *)
Unschedule(c) ==
  /\ Quiet
  /\ pc[c] = "unscheduling"
  /\ scheduled' = FALSE
  /\ GoTo(c, "scheduling")
  /\ UNCHANGED <<front, memory, version, files, bgError, manual, manualDone, job>>

(* manualCompactRangeWithLevel: the loop of compactRange.                  *)
ManualStep(c) ==
  /\ Quiet
  /\ pc[c] = "manual"
  /\ IF c \in manualDone
     THEN /\ GoTo(c, "returned")
          /\ manual' = IF manual = c THEN None ELSE manual
     ELSE IF manual = None
     THEN GoTo(c, "scheduling") /\ manual' = c
     ELSE GoTo(c, "spinning") /\ UNCHANGED manual
  /\ UNCHANGED <<front, memory, version, files, scheduled, bgError, manualDone, job>>

(* An exception (a file that cannot be opened, closed, listed or unlinked) *)
(* leaves through every frame: a leader stays at the front, and a chain    *)
(* stays scheduled.                                                        *)
Throw(c) ==
  /\ Idle
  /\ IOErrors
  /\ pc[c] \in {"switching", "logging", "logged", "building", "applyingFlush",
                "cleaning", "compacting", "applyingCompaction", "cleaningUp",
                "applyingMove"}
  /\ GoTo(c, "failed")
  /\ UNCHANGED <<front, memory, version, files, background>>

MakeRoom(c) ==
  \/ Lead(c) \/ Refuse(c) \/ Delay(c) \/ WakeUp(c) \/ HasRoom(c) \/ Spin(c)
  \/ StartSwitch(c) \/ FinishSwitch(c) \/ LogAppend(c) \/ Insert(c)

Background(c) ==
  \/ Schedule(c) \/ StartFlush(c) \/ FlushBuilt(c) \/ FlushApplied(c) \/ Clean(c)
  \/ PickManual(c) \/ PickAuto(c) \/ Moved(c)
  \/ OpenOutput(c) \/ FinishOutput(c) \/ CompactionApplied(c)
  \/ EndBackground(c) \/ Unschedule(c) \/ ManualStep(c)

Faults(c) == FlushFails(c) \/ MoveFails(c) \/ CompactionFails(c) \/ Throw(c)

Next == \E c \in Calls : Call(c) \/ MakeRoom(c) \/ Background(c) \/ Faults(c)

Spec == Init /\ [][Next]_vars

(* Every callback that is ready runs, timers fire and files answer; a move *)
(* that is tried again and again does not fail for ever.                   *)
FairSpec ==
  Spec /\ \A c \in Calls : WF_vars(MakeRoom(c) \/ Background(c)) /\ SF_vars(Moved(c))
-----------------------------------------------------------------------------
TypeOK ==
  /\ queue \in Seq(Calls)
  /\ pc \in [Calls -> PCs]
  /\ room \in [force : BOOLEAN, allowDelay : BOOLEAN, newLog : Nat]
  /\ memtable \subseteq Writers
  /\ immtable = None \/ immtable \subseteq Writers
  /\ \A n \in DOMAIN logs : n \in Nat /\ logs[n] \subseteq Writers
  /\ logFileNumber \in DOMAIN logs
  /\ \A n \in DOMAIN tables : n \in Nat /\ tables[n] \subseteq Writers
  /\ level0 \subseteq Nat /\ deeper \subseteq Nat /\ level0 \cap deeper = {}
  /\ logNumber \in Nat /\ nextFileNumber \in Nat /\ logNumber < nextFileNumber
  /\ pendingOutputs \subseteq Nat
  /\ scheduled \in BOOLEAN /\ bgError \in BOOLEAN
  /\ manual \in Compactors \cup {None}
  /\ manualDone \subseteq Compactors
  /\ job \in [Calls -> Job]

Installed == UNION {tables[t] : t \in (level0 \cup deeper) \cap DOMAIN tables}

(* One background chain at a time, although any call may start one: the    *)
(* read of a version in logAndApply and its installation, several awaits   *)
(* later, are never interleaved with another's.                            *)
OneBackground ==
  \A c, d \in Calls : pc[c] \in Chain /\ pc[d] \in Chain => c = d

(* Every acknowledged write can be found by get: in the memtable, in the   *)
(* one being flushed or in a table of the current version.                 *)
Readable ==
  \A w \in Writers : pc[w] = "returned" =>
    w \in memtable \/ (immtable # None /\ w \in immtable) \/ w \in Installed

(* Every acknowledged write would survive a crash at this point: it is in  *)
(* a table of the current version, or in a log that recovery reads.        *)
Retained ==
  \A w \in Writers : pc[w] = "returned" =>
    \/ w \in Installed
    \/ \E n \in DOMAIN logs : n >= logNumber /\ w \in logs[n]

(* Garbage collection never deletes a table of the current version, nor    *)
(* one that a running compaction reads or writes.                          *)
TablesExist ==
  /\ level0 \cup deeper \subseteq DOMAIN tables
  /\ \A c \in Calls : pc[c] = "compacting" =>
       job[c].in0 \cup job[c].in1 \cup ({job[c].out} \ {0}) \subseteq DOMAIN tables

(* Every call resolves, or one of two things stopped it.  A call at the     *)
(* front threw, and nobody takes its place; or a call goes round a loop     *)
(* without an await, and nothing else ever runs.  The latter takes a        *)
(* compactRange or a failure: writers alone never come to it.               *)
Spinning ==
  /\ \E d \in Calls : pc[d] = "spinning"
  /\ \/ bgError
     \/ \E d \in Calls : pc[d] = "failed" \/ (d \in Compactors /\ pc[d] # "idle")

EveryCallReturns ==
  <>[](\A c \in Calls : pc[c] # "idle" =>
         \/ pc[c] \in {"returned", "dropped", "failed"}
         \/ \E d \in Calls : pc[d] = "failed" /\ Leads(d)
         \/ Spinning)

(* "We have filled up the current memtable, but the previous one is still  *)
(* being compacted, so we wait" (makeRoomForWrite): a wait lets the        *)
(* compaction finish.                                                      *)
FullMemtableWaits == \A w \in Writers : pc[w] = "spinning" => immtable = None
=============================================================================
