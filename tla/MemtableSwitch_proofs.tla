-------------------------- MODULE MemtableSwitch_proofs --------------------------
(***************************************************************************)
(* Proofs about memtable switches, flushes and compactions, for any number *)
(* of calls and every setting of the triggers.                             *)
(***************************************************************************)
EXTENDS MemtableSwitch, TLAPS

USE MemtableSwitchAssumption

-----------------------------------------------------------------------------
(* The types of the variables, alone: what TypeOK says besides about them  *)
(* follows from the other parts of the invariant.                          *)
FrontTyped ==
  /\ queue \in Seq(Calls)
  /\ pc \in [Calls -> PCs]
  /\ room \in [force : BOOLEAN, allowDelay : BOOLEAN, newLog : Nat]

MemoryTyped ==
  /\ memtable \subseteq Writers
  /\ immtable = None \/ immtable \subseteq Writers
  /\ \A n \in DOMAIN logs : n \in Nat /\ logs[n] \subseteq Writers
  /\ logFileNumber \in Nat

VersionTyped ==
  level0 \subseteq Nat /\ deeper \subseteq Nat /\ logNumber \in Nat

FilesTyped ==
  /\ \A n \in DOMAIN tables : n \in Nat /\ tables[n] \subseteq Writers
  /\ nextFileNumber \in Nat
  /\ pendingOutputs \subseteq Nat

BackgroundTyped ==
  /\ scheduled \in BOOLEAN /\ bgError \in BOOLEAN
  /\ manual \in Compactors \cup {None}
  /\ manualDone \subseteq Compactors

JobTyped == job \in [Calls -> Job]

Typed ==
  FrontTyped /\ MemoryTyped /\ VersionTyped /\ FilesTyped /\ BackgroundTyped /\ JobTyped

(* Who is in these places is at the front of the queue.  A compactRange    *)
(* call may also run its background chain after it has left the queue.     *)
Leading(c) ==
  \/ pc[c] \in {"room", "asleep", "switching", "logging", "logged"}
  \/ c \in Writers /\ pc[c] \in Chain \cup {"scheduling"}

LeadersInv ==
  /\ \A c \in Calls : Leading(c) => Leads(c)
  /\ \A c \in Calls : pc[c] \in {"logging", "logged"} => c \in Writers
  /\ \A c \in Calls : pc[c] = "manual" => c \in Compactors

(* A chain runs only while the flag is set, and it runs alone.             *)
ChainInv ==
  /\ OneBackground
  /\ \A c \in Calls : pc[c] \in Chain => scheduled

(* Log numbers: recovery reads the current log; a new one gets a number    *)
(* that no file has had, and is opened with no memtable to be flushed.     *)
LogsInv ==
  /\ logFileNumber \in DOMAIN logs
  /\ logNumber <= logFileNumber /\ logFileNumber < nextFileNumber
  /\ \A c \in Calls : pc[c] = "switching" =>
       /\ immtable = None
       /\ logFileNumber < room.newLog /\ room.newLog < nextFileNumber
       /\ \A n \in DOMAIN logs : n < room.newLog
  /\ \A n \in DOMAIN logs : n <= logFileNumber

(* What the memtables hold is in the logs that recovery reads.             *)
MemoryInv ==
  /\ memtable \subseteq logs[logFileNumber]
  /\ immtable # None => \E n \in DOMAIN logs : n >= logNumber /\ immtable \subseteq logs[n]
  /\ \A c \in Calls : pc[c] = "logged" => c \in logs[logFileNumber]

(* The tables of the version exist, and file numbers are fresh.            *)
TablesInv ==
  /\ level0 \cup deeper \subseteq DOMAIN tables /\ level0 \cap deeper = {}
  /\ \A n \in DOMAIN tables : 0 < n /\ n < nextFileNumber

Flushing == {"building", "applyingFlush"}
Merging  == {"compacting", "applyingCompaction"}

(* The flush of c writes the immutable memtable to a table of no version.  *)
FlushInv(c) ==
  pc[c] \in Flushing =>
    /\ immtable # None
    /\ \/ job[c].flush = 0 /\ immtable = {}
       \/ /\ job[c].flush \in DOMAIN tables /\ tables[job[c].flush] = immtable
          /\ job[c].flush \notin level0 \cup deeper
          /\ job[c].in0 # {} => job[c].flush # job[c].out

(* The compaction of c merges tables of the version into a table that is   *)
(* in none and that garbage collection spares.                             *)
Merged(c) ==
  /\ job[c].in0 \subseteq level0 /\ job[c].in1 \subseteq deeper
  /\ job[c].out # 0 =>
       /\ job[c].out \in DOMAIN tables \cap pendingOutputs
       /\ job[c].out \notin level0 \cup deeper
       /\ tables[job[c].out] = UNION {tables[t] : t \in job[c].in0 \cup job[c].in1}

CompactionInv(c) ==
  /\ pc[c] \notin Flushing \cup Merging \cup {"cleaning", "failed"} =>
       job[c].in0 = {}
  /\ pc[c] \in Merging => job[c].in0 # {}
  /\ pc[c] \in Flushing \cup Merging \cup {"cleaning"} /\ job[c].in0 # {} => Merged(c)

(* The version that c is about to install, compared with the current one.  *)
NextVersionInv(c) ==
  /\ pc[c] = "applyingFlush" =>
       LET new == {job[c].flush} \ {0} IN
       /\ \/ job[c].level0 = level0 /\ job[c].deeper = deeper \cup new
          \/ job[c].level0 = level0 \cup new /\ job[c].deeper = deeper
       /\ job[c].log <= logFileNumber
  /\ pc[c] = "applyingCompaction" =>
       /\ job[c].out # 0
       /\ job[c].level0 = level0 \ job[c].in0
       /\ job[c].deeper = (deeper \ job[c].in1) \cup {job[c].out}
       /\ job[c].log = logNumber
  /\ pc[c] = "applyingMove" =>
       /\ \E in0 \in SUBSET level0 :
            job[c].level0 = level0 \ in0 /\ job[c].deeper = deeper \cup in0
       /\ job[c].log = logNumber

(* Garbage collection spares the current version.                          *)
CleaningInv(c) ==
  pc[c] \in {"cleaning", "cleaningUp"} => level0 \cup deeper \subseteq pendingOutputs

JobsInv ==
  \A c \in Calls : FlushInv(c) /\ CompactionInv(c) /\ NextVersionInv(c) /\ CleaningInv(c)

IInv ==
  /\ Typed /\ LeadersInv /\ ChainInv /\ LogsInv /\ MemoryInv /\ TablesInv /\ JobsInv
  /\ Readable
-----------------------------------------------------------------------------
(* The initial state satisfies the invariant.                              *)
LEMMA InitIInv == Init => IInv
<1>. SUFFICES ASSUME Init PROVE IInv
  OBVIOUS
<1>1. /\ FrontTyped /\ MemoryTyped /\ VersionTyped /\ FilesTyped /\ BackgroundTyped
  <2>1. FrontTyped
    BY DEF Init, FrontTyped, PCs
  <2>2. MemoryTyped
    BY DEF Init, MemoryTyped
  <2>3. VersionTyped
    BY DEF Init, VersionTyped
  <2>4. FilesTyped
    <3>1. 1..OpenTables \subseteq Nat
      OBVIOUS
    <3>. QED
      BY <3>1 DEF Init, FilesTyped
  <2>5. BackgroundTyped
    BY DEF Init, BackgroundTyped
  <2>. QED
    BY <2>1, <2>2, <2>3, <2>4, <2>5
<1>2. JobTyped
  BY DEF Init, JobTyped, Job, NoJob
<1>3. LeadersInv /\ ChainInv
  BY DEF Init, LeadersInv, Leading, ChainInv, OneBackground, Chain
<1>4. LogsInv /\ MemoryInv /\ TablesInv
  BY DEF Init, LogsInv, MemoryInv, TablesInv
<1>5. JobsInv
  BY DEF Init, JobsInv, FlushInv, CompactionInv, Merged, NextVersionInv,
     CleaningInv, Flushing, Merging, NoJob
<1>6. Readable
  BY DEF Init, Readable, Calls
<1>. QED
  BY <1>1, <1>2, <1>3, <1>4, <1>5, <1>6 DEF IInv, Typed

-----------------------------------------------------------------------------
(* A step of the call c.                                                   *)
Step(c) == Call(c) \/ MakeRoom(c) \/ Background(c) \/ Faults(c)

(* Only these actions change the queue and the state of makeRoomForWrite.  *)
LEMMA FrontFrame ==
  ASSUME NEW c \in Calls, Step(c)
  PROVE  \/ UNCHANGED <<queue, room>>
         \/ Call(c) \/ Lead(c) \/ Refuse(c) \/ WakeUp(c) \/ HasRoom(c) \/ StartSwitch(c)
         \/ FinishSwitch(c) \/ Insert(c)
BY DEF Step, MakeRoom, Background, Faults, front, Delay, Spin, LogAppend,
   Schedule, StartFlush, FlushBuilt, FlushFails, FlushApplied, Clean,
   PickManual, PickAuto, Moved, MoveFails, OpenOutput, FinishOutput,
   CompactionApplied, CompactionFails, EndBackground, Unschedule, ManualStep,
   Throw

(* ... the memtables and the logs.                                         *)
LEMMA MemoryFrame ==
  ASSUME NEW c \in Calls, Step(c)
  PROVE  \/ UNCHANGED memory
         \/ FinishSwitch(c) \/ LogAppend(c) \/ Insert(c) \/ FlushApplied(c) \/ Clean(c)
BY DEF Step, MakeRoom, Background, Faults, memory, Call, Lead, Refuse, Delay,
   WakeUp, HasRoom, Spin, StartSwitch, Schedule, StartFlush, FlushBuilt,
   FlushFails, PickManual, PickAuto, Moved, MoveFails, OpenOutput,
   FinishOutput, CompactionApplied, CompactionFails, EndBackground,
   Unschedule, ManualStep, Throw

(* ... the current version.                                                *)
LEMMA VersionFrame ==
  ASSUME NEW c \in Calls, Step(c)
  PROVE  \/ UNCHANGED version
         \/ FlushApplied(c) \/ Moved(c) \/ CompactionApplied(c)
BY DEF Step, MakeRoom, Background, Faults, version, Call, Lead, Refuse, Delay,
   WakeUp, HasRoom, Spin, StartSwitch, FinishSwitch, LogAppend, Insert,
   Schedule, StartFlush, FlushBuilt, FlushFails, Clean, PickManual, PickAuto,
   MoveFails, OpenOutput, FinishOutput, CompactionFails, EndBackground,
   Unschedule, ManualStep, Throw

(* ... the tables, the file numbers and pendingOutputs.                    *)
LEMMA FilesFrame ==
  ASSUME NEW c \in Calls, Step(c)
  PROVE  \/ UNCHANGED files
         \/ StartSwitch(c) \/ StartFlush(c) \/ FlushBuilt(c) \/ FlushFails(c) \/ FlushApplied(c) \/ Clean(c)
         \/ OpenOutput(c) \/ CompactionApplied(c) \/ CompactionFails(c)
BY DEF Step, MakeRoom, Background, Faults, files, Call, Lead, Refuse, Delay,
   WakeUp, HasRoom, Spin, FinishSwitch, LogAppend, Insert, Schedule,
   PickManual, PickAuto, MoveFails, Moved, FinishOutput, EndBackground,
   Unschedule, ManualStep, Throw

(* ... the local variables of the chains.                                  *)
LEMMA JobFrame ==
  ASSUME NEW c \in Calls, Step(c)
  PROVE  \/ UNCHANGED job
         \/ StartFlush(c) \/ FlushBuilt(c) \/ PickManual(c) \/ PickAuto(c)
         \/ OpenOutput(c) \/ FinishOutput(c) \/ CompactionApplied(c) \/ CompactionFails(c)
BY DEF Step, MakeRoom, Background, Faults, background, Call, Lead, Refuse,
   Delay, WakeUp, HasRoom, Spin, StartSwitch, FinishSwitch, LogAppend, Insert,
   Schedule, FlushFails, FlushApplied, Clean, MoveFails, Moved, EndBackground,
   Unschedule, ManualStep, Throw

(* A step moves c, and only c.                                             *)
LEMMA PcFrame ==
  ASSUME FrontTyped, NEW c \in Calls, Step(c)
  PROVE  pc' \in [Calls -> PCs] /\ \A d \in Calls : d # c => pc'[d] = pc[d]
BY DEF Step, MakeRoom, Background, Faults, FrontTyped, PCs, Chain, GoTo,
   front, memory, Call, Lead, Refuse, Delay, WakeUp, HasRoom, Spin,
   StartSwitch, FinishSwitch, LogAppend, Insert, Schedule, StartFlush,
   FlushBuilt, FlushFails, FlushApplied, Clean, PickManual, PickAuto, Moved,
   MoveFails, OpenOutput, FinishOutput, CompactionApplied, CompactionFails,
   EndBackground, Unschedule, ManualStep, Throw, Caller, AfterFlush

(* The types are preserved.                                                *)
LEMMA FrontTypedStep ==
  ASSUME Typed, LeadersInv, NEW c \in Calls, Step(c)
  PROVE  FrontTyped'
<1>1. pc' \in [Calls -> PCs]
  BY PcFrame DEF Typed
<1>2. queue' \in Seq(Calls)
  <2>1. CASE Call(c)
    BY <2>1 DEF Call, Typed, FrontTyped
  <2>2. CASE Refuse(c) \/ HasRoom(c) \/ Insert(c)
    <3>1. queue # <<>> /\ queue' \in {queue, Tail(queue)}
      BY <2>2 DEF Refuse, HasRoom, Insert, LeadersInv, Leading, Leads
    <3>. QED
      BY <3>1 DEF Typed, FrontTyped
  <2>3. CASE Lead(c) \/ WakeUp(c) \/ StartSwitch(c) \/ FinishSwitch(c)
    BY <2>3 DEF Lead, WakeUp, StartSwitch, FinishSwitch, Typed, FrontTyped
  <2>. QED
    BY <2>1, <2>2, <2>3, FrontFrame DEF Typed, FrontTyped
<1>3. room' \in [force : BOOLEAN, allowDelay : BOOLEAN, newLog : Nat]
  <2>1. CASE Lead(c)
    <3>1. room' = [force |-> c \in Compactors, allowDelay |-> c \in Writers, newLog |-> 0]
      BY <2>1 DEF Lead
    <3>. QED
      BY <3>1
  <2>3. CASE WakeUp(c) \/ StartSwitch(c) \/ FinishSwitch(c)
    BY <2>3 DEF WakeUp, StartSwitch, FinishSwitch, Typed, FrontTyped,
       FilesTyped
  <2>2. CASE Call(c) \/ Refuse(c) \/ HasRoom(c) \/ Insert(c)
    BY <2>2 DEF Call, Refuse, HasRoom, Insert, Typed, FrontTyped
  <2>. QED
    BY <2>1, <2>2, <2>3, FrontFrame DEF Typed, FrontTyped
<1>. QED
  BY <1>1, <1>2, <1>3 DEF FrontTyped

(* Memtables and logs hold writes: only a writer gets to the log.          *)
LEMMA MemoryTypedStep ==
  ASSUME Typed, LeadersInv, NEW c \in Calls, Step(c)
  PROVE  MemoryTyped'
<1>. USE DEF Typed, MemoryTyped
<1>1. CASE FinishSwitch(c)
  BY <1>1 DEF FinishSwitch, Create, FrontTyped
<1>2. CASE LogAppend(c)
  BY <1>2 DEF LogAppend, LeadersInv, front
<1>3. CASE Insert(c)
  BY <1>3 DEF Insert, LeadersInv
<1>4. CASE FlushApplied(c)
  BY <1>4 DEF FlushApplied
<1>5. CASE Clean(c)
  BY <1>5 DEF Clean, Restrict
<1>. QED
  BY <1>1, <1>2, <1>3, <1>4, <1>5, MemoryFrame DEF memory

(* A version that is installed was a set of file numbers.                  *)
LEMMA VersionTypedStep ==
  ASSUME Typed, NEW c \in Calls, Step(c)
  PROVE  VersionTyped'
<1>1. CASE Install(c)
  BY <1>1 DEF Install, Typed, JobTyped, Job, VersionTyped
<1>2. CASE FlushApplied(c) \/ Moved(c) \/ CompactionApplied(c)
  BY <1>1, <1>2 DEF FlushApplied, Moved, CompactionApplied
<1>. QED
  BY <1>2, VersionFrame DEF version, Typed, VersionTyped

(* A new table holds what a memtable or other tables held.                 *)
LEMMA FilesTypedStep ==
  ASSUME Typed, NEW c \in Calls, Step(c)
  PROVE  FilesTyped'
<1>. USE DEF Typed, FilesTyped
<1>1. CASE StartSwitch(c)
  BY <1>1 DEF StartSwitch
<1>2. CASE StartFlush(c)
  BY <1>2 DEF StartFlush, files, Create, MemoryTyped
<1>3. CASE FlushBuilt(c) \/ FlushFails(c)
  BY <1>3 DEF FlushBuilt, FlushFails
<1>4. CASE FlushApplied(c) \/ CompactionApplied(c)
  BY <1>4, VersionTypedStep DEF FlushApplied, CompactionApplied, VersionTyped
<1>5. CASE Clean(c)
  BY <1>5 DEF Clean, Restrict
<1>6. CASE OpenOutput(c)
  BY <1>6 DEF OpenOutput, Create
<1>7. CASE CompactionFails(c)
  BY <1>7 DEF CompactionFails, version, VersionTyped
<1>. QED
  BY <1>1, <1>2, <1>3, <1>4, <1>5, <1>6, <1>7, FilesFrame DEF files

(* Only compactRange calls get to the manual compaction.                   *)
LEMMA BackgroundTypedStep ==
  ASSUME Typed, LeadersInv, NEW c \in Calls, Step(c)
  PROVE  BackgroundTyped'
BY DEF Typed, BackgroundTyped, LeadersInv, Step, MakeRoom, Background, Faults,
   background, Call, Lead, Refuse, Delay, WakeUp, HasRoom, Spin, StartSwitch,
   FinishSwitch, LogAppend, Insert, Schedule, StartFlush, FlushBuilt,
   FlushFails, FlushApplied, Clean, PickManual, PickAuto, Moved, MoveFails,
   OpenOutput, FinishOutput, CompactionApplied, CompactionFails,
   EndBackground, Unschedule, ManualStep, Throw

(* What a chain remembers of versions and files is file numbers.           *)
LEMMA JobTypedStep ==
  ASSUME Typed, NEW c \in Calls, Step(c)
  PROVE  JobTyped'
<1>. USE DEF Typed, JobTyped
<1>0. job[c] \in Job
  OBVIOUS
<1>1. CASE StartFlush(c)
  BY <1>1 DEF StartFlush, Job, FilesTyped
<1>2. CASE FlushBuilt(c)
  <2>. DEFINE new == {job[c].flush} \ {0}
  <2>1. new \subseteq Nat
    BY <1>0 DEF Job
  <2>2. PICK sinks \in BOOLEAN :
          job' = [job EXCEPT ![c].level0 = IF sinks THEN level0 ELSE level0 \cup new,
                             ![c].deeper = IF sinks THEN deeper \cup new ELSE deeper,
                             ![c].log    = logFileNumber]
    BY <1>2 DEF FlushBuilt
  <2>. HIDE DEF new
  <2>. QED
    BY <2>1, <2>2, <1>0 DEF Job, VersionTyped, MemoryTyped
<1>3. CASE PickManual(c)
  <2>1. PICK in0 \in SUBSET level0 :
          \/ UNCHANGED job
          \/ \E in1 \in SUBSET deeper :
               job' = [job EXCEPT ![c].in0 = in0, ![c].in1 = in1, ![c].out = 0]
    BY <1>3 DEF PickManual
  <2>2. CASE UNCHANGED job
    BY <2>2
  <2>3. ASSUME NEW in1 \in SUBSET deeper,
               job' = [job EXCEPT ![c].in0 = in0, ![c].in1 = in1, ![c].out = 0]
        PROVE  job' \in [Calls -> Job]
    BY <2>3, <1>0 DEF Job, VersionTyped
  <2>. QED
    BY <2>1, <2>2, <2>3
<1>4. CASE PickAuto(c)
  BY <1>4 DEF PickAuto, Job, VersionTyped
<1>5. CASE OpenOutput(c)
  BY <1>5 DEF OpenOutput, Job, FilesTyped
<1>6. CASE FinishOutput(c)
  BY <1>6, <1>0 DEF FinishOutput, Job, VersionTyped
<1>7. CASE CompactionApplied(c) \/ CompactionFails(c)
  BY <1>7 DEF CompactionApplied, CompactionFails, EndJob, Job
<1>. QED
  BY <1>1, <1>2, <1>3, <1>4, <1>5, <1>6, <1>7, JobFrame

(* All of it together.                                                     *)
LEMMA TypedStep ==
  ASSUME Typed, LeadersInv, NEW c \in Calls, Step(c)
  PROVE  Typed'
BY FrontTypedStep, MemoryTypedStep, VersionTypedStep, FilesTypedStep,
   BackgroundTypedStep, JobTypedStep DEF Typed

-----------------------------------------------------------------------------
(* The front of the queue keeps its place until its call leaves.           *)
LEMMA LeadsFrame ==
  ASSUME Typed, LeadersInv, NEW c \in Calls, Step(c), NEW d \in Calls, Leads(d)
  PROVE  Leads(d)' \/ (d = c /\ pc'[c] \in {"manual", "dropped", "returned"})
<1>. USE DEF Typed, FrontTyped
<1>1. CASE Call(c)
  <2>1. queue' = Append(queue, c) /\ queue \in Seq(Calls) /\ queue # <<>>
    BY <1>1 DEF Call, Leads
  <2>2. queue' # <<>> /\ Head(queue') = Head(queue)
    BY <2>1
  <2>. QED
    BY <2>2 DEF Leads
<1>2. CASE Refuse(c) \/ HasRoom(c) \/ Insert(c)
  <2>1. Leads(c)
    BY <1>2 DEF Refuse, HasRoom, Insert, LeadersInv, Leading
  <2>2. d = c
    BY <2>1 DEF Leads
  <2>3. UNCHANGED queue \/ pc'[c] \in {"manual", "dropped", "returned"}
    BY <1>2 DEF Refuse, HasRoom, Insert, GoTo
  <2>. QED
    BY <2>2, <2>3 DEF Leads
<1>3. CASE Lead(c) \/ WakeUp(c) \/ StartSwitch(c) \/ FinishSwitch(c)
  BY <1>3 DEF Lead, WakeUp, StartSwitch, FinishSwitch, Leads
<1>. QED
  BY <1>1, <1>2, <1>3, FrontFrame DEF Leads

(* Who is in makeRoomForWrite, or writes to the log, has been at the front *)
(* since it entered.                                                       *)
LEMMA LeadersStep ==
  ASSUME Typed, LeadersInv, NEW c \in Calls, Step(c)
  PROVE  LeadersInv'
<1>. USE DEF Typed, FrontTyped
<1>1. Leading(c)' => Leads(c)
  BY DEF Leading, Step, MakeRoom, Background, Faults, Caller, AfterFlush,
     Chain, GoTo, LeadersInv, Calls, Call, Lead, Refuse, Delay, WakeUp,
     HasRoom, Spin, StartSwitch, FinishSwitch, LogAppend, Insert, Schedule,
     StartFlush, FlushBuilt, FlushFails, FlushApplied, Clean, PickManual,
     PickAuto, Moved, MoveFails, OpenOutput, FinishOutput, CompactionApplied,
     CompactionFails, EndBackground, Unschedule, ManualStep, Throw
<1>2. ASSUME NEW d \in Calls, Leading(d)' PROVE Leads(d)'
  <2>1. Leads(d)
    BY <1>1, <1>2, PcFrame DEF Leading, LeadersInv
  <2>. QED
    BY <1>2, <2>1, LeadsFrame DEF Leading, Chain
<1>3. pc'[c] \in {"logging", "logged"} => c \in Writers
  BY DEF Step, MakeRoom, Background, Faults, Caller, AfterFlush, GoTo,
     LeadersInv, Call, Lead, Refuse, Delay, WakeUp, HasRoom, Spin,
     StartSwitch, FinishSwitch, LogAppend, Insert, Schedule, StartFlush,
     FlushBuilt, FlushFails, FlushApplied, Clean, PickManual, PickAuto, Moved,
     MoveFails, OpenOutput, FinishOutput, CompactionApplied, CompactionFails,
     EndBackground, Unschedule, ManualStep, Throw
<1>4. pc'[c] = "manual" => c \in Compactors
  BY DEF Step, MakeRoom, Background, Faults, Caller, AfterFlush, GoTo,
     LeadersInv, Leading, Calls, Call, Lead, Refuse, Delay, WakeUp, HasRoom,
     Spin, StartSwitch, FinishSwitch, LogAppend, Insert, Schedule, StartFlush,
     FlushBuilt, FlushFails, FlushApplied, Clean, PickManual, PickAuto, Moved,
     MoveFails, OpenOutput, FinishOutput, CompactionApplied, CompactionFails,
     EndBackground, Unschedule, ManualStep, Throw
<1>. QED
  BY <1>2, <1>3, <1>4, PcFrame DEF LeadersInv

(* Only Schedule, which finds the flag down, starts a chain, and only the  *)
(* chain itself takes the flag down.                                       *)
LEMMA ChainStep ==
  ASSUME Typed, ChainInv, NEW c \in Calls, Step(c)
  PROVE  ChainInv'
<1>. USE DEF Typed, FrontTyped
<1>1. pc'[c] \in Chain => pc[c] \in Chain \/ ~scheduled
  BY DEF Step, MakeRoom, Background, Faults, Caller, AfterFlush, GoTo, Chain,
     Call, Lead, Refuse, Delay, WakeUp, HasRoom, Spin, StartSwitch,
     FinishSwitch, LogAppend, Insert, Schedule, StartFlush, FlushBuilt,
     FlushFails, FlushApplied, Clean, PickManual, PickAuto, Moved, MoveFails,
     OpenOutput, FinishOutput, CompactionApplied, CompactionFails,
     EndBackground, Unschedule, ManualStep, Throw
<1>2. pc'[c] \in Chain => scheduled'
  <2>1. CASE Unschedule(c)
    BY <2>1 DEF Unschedule, GoTo, Chain
  <2>2. CASE Schedule(c)
    BY <2>2 DEF Schedule, GoTo, Caller, Chain
  <2>3. CASE ~Unschedule(c) /\ ~Schedule(c)
    <3>1. UNCHANGED scheduled
      BY <2>3 DEF Step, MakeRoom, Background, Faults, background, Call, Lead,
         Refuse, Delay, WakeUp, HasRoom, Spin, StartSwitch, FinishSwitch,
         LogAppend, Insert, StartFlush, FlushBuilt, FlushFails, FlushApplied,
         Clean, PickManual, PickAuto, Moved, MoveFails, OpenOutput,
         FinishOutput, CompactionApplied, CompactionFails, EndBackground,
         ManualStep, Throw
    <3>2. pc'[c] \in Chain => pc[c] \in Chain
      BY <2>3 DEF Step, MakeRoom, Background, Faults, Caller, AfterFlush,
         GoTo, Chain, Call, Lead, Refuse, Delay, WakeUp, HasRoom, Spin,
         StartSwitch, FinishSwitch, LogAppend, Insert, StartFlush, FlushBuilt,
         FlushFails, FlushApplied, Clean, PickManual, PickAuto, Moved,
         MoveFails, OpenOutput, FinishOutput, CompactionApplied,
         CompactionFails, EndBackground, ManualStep, Throw
    <3>. QED
      BY <3>1, <3>2 DEF ChainInv
  <2>. QED
    BY <2>1, <2>2, <2>3
<1>3. scheduled => scheduled' \/ pc[c] \in Chain
  BY DEF Step, MakeRoom, Background, Faults, background, Chain, Call, Lead,
     Refuse, Delay, WakeUp, HasRoom, Spin, StartSwitch, FinishSwitch,
     LogAppend, Insert, Schedule, StartFlush, FlushBuilt, FlushFails,
     FlushApplied, Clean, PickManual, PickAuto, Moved, MoveFails, OpenOutput,
     FinishOutput, CompactionApplied, CompactionFails, EndBackground,
     Unschedule, ManualStep, Throw
<1>. QED
  BY <1>1, <1>2, <1>3, PcFrame DEF ChainInv, OneBackground

-----------------------------------------------------------------------------
(* File numbers grow.                                                      *)
LEMMA NextFileNumberFrame ==
  ASSUME Typed, NEW c \in Calls, Step(c)
  PROVE  nextFileNumber <= nextFileNumber'
<1>1. CASE StartSwitch(c) \/ StartFlush(c) \/ OpenOutput(c)
  BY <1>1 DEF StartSwitch, StartFlush, OpenOutput, files, Typed, FilesTyped
<1>2. CASE \/ FlushBuilt(c) \/ FlushFails(c) \/ FlushApplied(c) \/ Clean(c)
           \/ CompactionApplied(c) \/ CompactionFails(c)
  <2>1. UNCHANGED nextFileNumber
    BY <1>2 DEF FlushBuilt, FlushFails, FlushApplied, Clean,
       CompactionApplied, CompactionFails
  <2>. QED
    BY <2>1 DEF Typed, FilesTyped
<1>. QED
  BY <1>1, <1>2, FilesFrame DEF files, Typed, FilesTyped

(* While a log is being opened, its call leads, so nobody else is in       *)
(* makeRoomForWrite.                                                       *)
LEMMA SwitchingFrame ==
  ASSUME Typed, LeadersInv, NEW c \in Calls, Step(c), ~StartSwitch(c),
         NEW d \in Calls, pc'[d] = "switching"
  PROVE  pc[d] = "switching" /\ UNCHANGED room
<1>1. pc'[c] # "switching"
  BY DEF Step, MakeRoom, Background, Faults, Caller, AfterFlush, GoTo, Typed,
     FrontTyped, Call, Lead, Refuse, Delay, WakeUp, HasRoom, Spin,
     FinishSwitch, LogAppend, Insert, Schedule, StartFlush, FlushBuilt,
     FlushFails, FlushApplied, Clean, PickManual, PickAuto, Moved, MoveFails,
     OpenOutput, FinishOutput, CompactionApplied, CompactionFails,
     EndBackground, Unschedule, ManualStep, Throw
<1>2. d # c /\ pc[d] = "switching"
  BY <1>1, PcFrame DEF Typed
<1>3. ~Leads(c)
  BY <1>2 DEF LeadersInv, Leading, Leads
<1>4. CASE Lead(c) \/ WakeUp(c) \/ FinishSwitch(c)
  BY <1>3, <1>4 DEF Lead, WakeUp, FinishSwitch, LeadersInv, Leading
<1>5. CASE Call(c) \/ Refuse(c) \/ HasRoom(c) \/ Insert(c)
  BY <1>2, <1>5 DEF Call, Refuse, HasRoom, Insert
<1>. QED
  BY <1>2, <1>4, <1>5, FrontFrame

(* Log numbers grow: a log comes from FinishSwitch, whose caller leads, so *)
(* no other switch is under way; logNumber from FlushApplied, which brings *)
(* it to a log number that was current when the flush was built.           *)
LEMMA LogsStep ==
  ASSUME IInv, NEW c \in Calls, Step(c)
  PROVE  LogsInv'
<1>. USE DEF IInv, Typed, FrontTyped, LogsInv
<1>1. CASE StartSwitch(c)
  <2>1. \A d \in Calls : pc'[d] = "switching" => d = c
    BY <1>1, PcFrame DEF StartSwitch, LeadersInv, Leading, Leads
  <2>. QED
    BY <1>1, <2>1 DEF StartSwitch, memory, version, FilesTyped, MemoryTyped
<1>2. CASE FinishSwitch(c)
  <2>1. \A d \in Calls : pc'[d] # "switching"
    BY <1>2, PcFrame DEF FinishSwitch, GoTo, LeadersInv, Leading, Leads
  <2>. QED
    BY <1>2, <2>1 DEF FinishSwitch, Create, version, files, FilesTyped,
       MemoryTyped, VersionTyped
<1>3. CASE ~StartSwitch(c) /\ ~FinishSwitch(c)
  <2>1. \A d \in Calls : pc'[d] = "switching" => pc[d] = "switching" /\ UNCHANGED room
    BY <1>3, SwitchingFrame
  <2>2. nextFileNumber <= nextFileNumber' /\ nextFileNumber' \in Nat
    BY NextFileNumberFrame, FilesTypedStep DEF FilesTyped
  <2>3. /\ logFileNumber' = logFileNumber
        /\ DOMAIN logs' \subseteq DOMAIN logs /\ logFileNumber \in DOMAIN logs'
        /\ immtable' \in {immtable, None}
    <3>1. CASE LogAppend(c)
      BY <3>1 DEF LogAppend
    <3>2. CASE Clean(c)
      BY <3>2 DEF Clean, Restrict
    <3>3. CASE Insert(c) \/ FlushApplied(c)
      BY <3>3 DEF Insert, FlushApplied
    <3>. QED
      BY <1>3, <3>1, <3>2, <3>3, MemoryFrame DEF memory
  <2>4. logNumber' \in Nat /\ logNumber' <= logFileNumber
    <3>1. CASE FlushApplied(c)
      BY <3>1 DEF FlushApplied, Install, JobsInv, NextVersionInv, JobTyped,
         Job
    <3>2. CASE Moved(c) \/ CompactionApplied(c)
      BY <3>2 DEF Moved, CompactionApplied, Install, JobsInv, NextVersionInv,
         VersionTyped
    <3>. QED
      BY <3>1, <3>2, VersionFrame DEF version, VersionTyped
  <2>. QED
    BY <2>1, <2>2, <2>3, <2>4 DEF FilesTyped, MemoryTyped
<1>. QED
  BY <1>1, <1>2, <1>3

(* A memtable and the log beside it are switched together, and a log is    *)
(* deleted only when the memtable written beside it is in a table.         *)
LEMMA MemoryStep ==
  ASSUME IInv, NEW c \in Calls, Step(c)
  PROVE  MemoryInv'
<1>. USE DEF IInv, Typed, MemoryInv
<1>1. CASE FinishSwitch(c)
  <2>1. \A d \in Calls : pc'[d] # "logged"
    BY <1>1, PcFrame DEF FinishSwitch, GoTo, LeadersInv, Leading, Leads,
       FrontTyped
  <2>2. logFileNumber < room.newLog
    BY <1>1 DEF FinishSwitch, LogsInv
  <2>3. /\ logFileNumber \in DOMAIN logs /\ logFileNumber \in DOMAIN logs'
        /\ logs'[logFileNumber] = logs[logFileNumber] /\ logFileNumber >= logNumber
    BY <1>1, <2>2 DEF FinishSwitch, Create, LogsInv, MemoryTyped, VersionTyped
  <2>. QED
    BY <1>1, <2>1, <2>2, <2>3 DEF FinishSwitch, version
<1>2. CASE LogAppend(c)
  <2>1. /\ DOMAIN logs' = DOMAIN logs
        /\ \A n \in DOMAIN logs : logs[n] \subseteq logs'[n]
        /\ c \in logs'[logFileNumber]
    BY <1>2 DEF LogAppend, LogsInv
  <2>2. \A d \in Calls : pc'[d] = "logged" => d = c \/ pc[d] = "logged"
    BY PcFrame
  <2>. QED
    BY <1>2, <2>1, <2>2 DEF LogAppend, version, LogsInv
<1>3. ASSUME ~LogAppend(c)
      PROVE  \A d \in Calls : pc'[d] = "logged" => pc[d] = "logged"
  <2>1. pc'[c] # "logged"
    BY <1>3 DEF Step, MakeRoom, Background, Faults, Caller, AfterFlush, GoTo,
       FrontTyped, Call, Lead, Refuse, Delay, WakeUp, HasRoom, Spin,
       StartSwitch, FinishSwitch, Insert, Schedule, StartFlush, FlushBuilt,
       FlushFails, FlushApplied, Clean, PickManual, PickAuto, Moved,
       MoveFails, OpenOutput, FinishOutput, CompactionApplied,
       CompactionFails, EndBackground, Unschedule, ManualStep, Throw
  <2>. QED
    BY <2>1, PcFrame
<1>4. CASE Insert(c)
  <2>1. ~LogAppend(c)
    BY <1>4 DEF Insert, LogAppend
  <2>. QED
    BY <1>3, <1>4, <2>1 DEF Insert, version
<1>5. CASE FlushApplied(c)
  <2>1. ~LogAppend(c)
    BY <1>5 DEF FlushApplied, LogAppend
  <2>. QED
    BY <1>3, <1>5, <2>1 DEF FlushApplied
<1>6. CASE Clean(c)
  <2>1. ~LogAppend(c)
    BY <1>6 DEF Clean, LogAppend
  <2>. QED
    BY <1>3, <1>6, <2>1 DEF Clean, Restrict, version, LogsInv
<1>7. CASE UNCHANGED memory /\ ~LogAppend(c)
  <2>1. logNumber' = logNumber \/ immtable = None
    <3>1. CASE FlushApplied(c)
      BY <1>7, <3>1 DEF FlushApplied, memory
    <3>2. CASE Moved(c) \/ CompactionApplied(c)
      BY <3>2 DEF Moved, CompactionApplied, Install, JobsInv, NextVersionInv
    <3>. QED
      BY <3>1, <3>2, VersionFrame DEF version
  <2>. QED
    BY <1>3, <1>7, <2>1 DEF memory
<1>. QED
  BY <1>1, <1>2, <1>4, <1>5, <1>6, <1>7, MemoryFrame

-----------------------------------------------------------------------------
(* A new table has the next file number; only garbage collection removes   *)
(* tables, and it spares pendingOutputs.                                   *)
LEMMA TablesFrame ==
  ASSUME IInv, NEW c \in Calls, Step(c)
  PROVE  /\ \A n \in DOMAIN tables : ~Clean(c) \/ n \in pendingOutputs =>
              n \in DOMAIN tables' /\ tables'[n] = tables[n]
         /\ \A n \in DOMAIN tables' : 0 < n /\ n < nextFileNumber'
<1>. USE DEF IInv, Typed, FilesTyped, TablesInv
<1>1. nextFileNumber \notin DOMAIN tables /\ nextFileNumber <= nextFileNumber'
      /\ nextFileNumber' \in Nat
  BY NextFileNumberFrame, FilesTypedStep DEF FilesTyped
<1>2. CASE StartFlush(c) \/ OpenOutput(c)
  <2>1. \/ UNCHANGED tables
        \/ /\ nextFileNumber' = nextFileNumber + 1
           /\ \E x : tables' = Create(tables, nextFileNumber, x)
    BY <1>2 DEF StartFlush, OpenOutput, files
  <2>2. nextFileNumber > 0
    BY DEF IInv, LogsInv, MemoryTyped
  <2>. QED
    BY <1>1, <2>1, <2>2 DEF Create
<1>3. CASE Clean(c)
  BY <1>1, <1>3 DEF Clean, Restrict
<1>4. CASE UNCHANGED tables
  BY <1>1, <1>4 DEF Clean
<1>5. CASE \/ StartSwitch(c) \/ FlushBuilt(c) \/ FlushFails(c) \/ FlushApplied(c)
           \/ CompactionApplied(c) \/ CompactionFails(c)
  <2>1. UNCHANGED tables
    BY <1>5 DEF StartSwitch, FlushBuilt, FlushFails, FlushApplied,
       CompactionApplied, CompactionFails
  <2>. QED
    BY <1>4, <2>1
<1>. QED
  BY <1>2, <1>3, <1>4, <1>5, FilesFrame DEF files

(* A table of the version stays as it is.                                  *)
LEMMA LiveTablesFrame ==
  ASSUME IInv, NEW c \in Calls, Step(c), NEW n \in level0 \cup deeper
  PROVE  n \in DOMAIN tables /\ n \in DOMAIN tables' /\ tables'[n] = tables[n]
<1>1. n \in DOMAIN tables
  BY DEF IInv, TablesInv
<1>2. CASE Clean(c)
  <2>1. n \in pendingOutputs
    BY <1>2 DEF Clean, IInv, JobsInv, CleaningInv
  <2>. QED
    BY <1>1, <1>2, <2>1, TablesFrame
<1>. QED
  BY <1>1, <1>2, TablesFrame

(* What installing a version does to the version: a flush adds its table,  *)
(* a compaction replaces its inputs by its output, a move changes levels.  *)
LEMMA VersionChange ==
  ASSUME IInv, NEW c \in Calls, Step(c)
  PROVE  \/ UNCHANGED version
         \/ /\ FlushApplied(c)
            /\ \/ level0' = level0 /\ deeper' = deeper \cup ({job[c].flush} \ {0})
               \/ level0' = level0 \cup ({job[c].flush} \ {0}) /\ deeper' = deeper
         \/ /\ CompactionApplied(c)
            /\ level0' = level0 \ job[c].in0
            /\ deeper' = (deeper \ job[c].in1) \cup {job[c].out}
         \/ /\ Moved(c)
            /\ \E in0 \in SUBSET level0 : level0' = level0 \ in0 /\ deeper' = deeper \cup in0
<1>1. CASE FlushApplied(c)
  BY <1>1 DEF FlushApplied, Install, IInv, JobsInv, NextVersionInv
<1>2. CASE CompactionApplied(c)
  BY <1>2 DEF CompactionApplied, Install, IInv, JobsInv, NextVersionInv
<1>3. CASE Moved(c)
  BY <1>3 DEF Moved, Install, IInv, JobsInv, NextVersionInv
<1>. QED
  BY <1>1, <1>2, <1>3, VersionFrame

(* The output of a compaction and the table of a flush, when their version *)
(* is installed.                                                           *)
LEMMA InstalledTable ==
  ASSUME IInv, NEW c \in Calls
  PROVE  /\ FlushApplied(c) => FlushInv(c)
         /\ CompactionApplied(c) =>
              /\ job[c].in0 \subseteq level0 /\ job[c].in1 \subseteq deeper
              /\ job[c].out # 0 /\ job[c].out \in DOMAIN tables
              /\ job[c].out \notin level0 \cup deeper
              /\ tables[job[c].out] = UNION {tables[t] : t \in job[c].in0 \cup job[c].in1}
BY DEF IInv, JobsInv, CompactionApplied, CompactionInv, Merged,
   NextVersionInv, Merging

(* The tables of a version exist when it is installed, and stay.           *)
LEMMA TablesStep ==
  ASSUME IInv, NEW c \in Calls, Step(c)
  PROVE  TablesInv'
<1>. USE DEF TablesInv
<1>1. \A n \in DOMAIN tables' : 0 < n /\ n < nextFileNumber'
  BY TablesFrame
<1>2. CASE UNCHANGED version
  BY <1>1, <1>2, LiveTablesFrame DEF version, IInv
<1>3. CASE FlushApplied(c)
  <2>1. UNCHANGED tables /\ pc[c] \in Flushing
    BY <1>3 DEF FlushApplied, Flushing
  <2>2. ~UNCHANGED version => ~CompactionApplied(c) /\ ~Moved(c)
    BY <1>3 DEF FlushApplied, CompactionApplied, Moved
  <2>. QED
    BY <1>1, <1>2, <1>3, <2>1, <2>2, VersionChange, InstalledTable DEF
       FlushInv, IInv
<1>4. CASE CompactionApplied(c)
  <2>1. UNCHANGED tables
    BY <1>4 DEF CompactionApplied
  <2>2. ~FlushApplied(c) /\ ~Moved(c)
    BY <1>4 DEF FlushApplied, CompactionApplied, Moved
  <2>. QED
    BY <1>1, <1>2, <1>4, <2>1, <2>2, VersionChange, InstalledTable DEF IInv
<1>5. CASE Moved(c)
  <2>1. UNCHANGED tables
    BY <1>5 DEF Moved, files
  <2>2. ~FlushApplied(c) /\ ~CompactionApplied(c)
    BY <1>5 DEF FlushApplied, CompactionApplied, Moved
  <2>. QED
    BY <1>1, <1>2, <1>5, <2>1, <2>2, VersionChange DEF IInv
<1>. QED
  BY <1>2, <1>3, <1>4, <1>5, VersionFrame

(* Nothing that is in a table of the version leaves the version.           *)
LEMMA InstalledGrows ==
  ASSUME IInv, NEW c \in Calls, Step(c)
  PROVE  Installed \subseteq Installed'
<1>. SUFFICES ASSUME NEW n \in level0 \cup deeper, NEW w \in tables[n]
              PROVE  \E m \in level0' \cup deeper' : m \in DOMAIN tables' /\ w \in tables'[m]
  BY DEF Installed
<1>1. n \in DOMAIN tables' /\ tables'[n] = tables[n]
  BY LiveTablesFrame
<1>2. CASE n \in level0' \cup deeper'
  BY <1>1, <1>2
<1>3. CASE n \notin level0' \cup deeper'
  <2>1. CompactionApplied(c) /\ n \in job[c].in0 \cup job[c].in1 /\ job[c].out \in deeper'
    BY <1>3, VersionChange DEF version
  <2>2. UNCHANGED tables
    BY <2>1 DEF CompactionApplied
  <2>3. w \in tables[job[c].out]
    BY <2>1, InstalledTable
  <2>. QED
    BY <2>1, <2>2, <2>3, InstalledTable
<1>. QED
  BY <1>2, <1>3

(* A write that can be found stays so, wherever its record moves.          *)
LEMMA ReadableStep ==
  ASSUME IInv, NEW c \in Calls, Step(c)
  PROVE  Readable'
<1>. SUFFICES ASSUME NEW w \in Writers, pc'[w] = "returned"
              PROVE  \/ w \in memtable' \/ (immtable' # None /\ w \in immtable')
                     \/ w \in Installed'
  BY DEF Readable
<1>1. CASE pc[w] # "returned"
  <2>1. w = c
    BY <1>1, PcFrame DEF IInv, Typed, Calls
  <2>2. Insert(c)
    BY <1>1, <2>1 DEF Step, MakeRoom, Background, Faults, Caller, AfterFlush,
       GoTo, IInv, Typed, FrontTyped, LeadersInv, Calls, Call, Lead, Refuse,
       Delay, WakeUp, HasRoom, Spin, StartSwitch, FinishSwitch, LogAppend,
       Schedule, StartFlush, FlushBuilt, FlushFails, FlushApplied, Clean,
       PickManual, PickAuto, Moved, MoveFails, OpenOutput, FinishOutput,
       CompactionApplied, CompactionFails, EndBackground, Unschedule,
       ManualStep, Throw
  <2>. QED
    BY <2>1, <2>2 DEF Insert
<1>2. CASE w \in Installed
  BY <1>2, InstalledGrows
<1>3. CASE w \in memtable
  <2>1. CASE FinishSwitch(c)
    BY <1>3, <2>1 DEF FinishSwitch, IInv, Typed, MemoryTyped
  <2>2. CASE LogAppend(c) \/ Insert(c) \/ FlushApplied(c) \/ Clean(c)
    BY <1>3, <2>2 DEF LogAppend, Insert, FlushApplied, Clean
  <2>. QED
    BY <1>3, <2>1, <2>2, MemoryFrame DEF memory
<1>4. CASE immtable # None /\ w \in immtable
  <2>1. CASE FinishSwitch(c)
    BY <1>4, <2>1 DEF FinishSwitch, IInv, LogsInv
  <2>2. CASE LogAppend(c) \/ Insert(c) \/ Clean(c)
    BY <1>4, <2>2 DEF LogAppend, Insert, Clean
  <2>3. CASE FlushApplied(c)
    <3>1. /\ job[c].flush # 0 /\ job[c].flush \in DOMAIN tables
          /\ tables[job[c].flush] = immtable
      BY <1>4, <2>3, InstalledTable DEF FlushInv, Flushing, FlushApplied,
         IInv, TablesInv
    <3>2. UNCHANGED tables /\ Install(c) /\ pc[c] = "applyingFlush"
      BY <2>3 DEF FlushApplied
    <3>3. job[c].flush \in level0' \cup deeper'
      BY <3>1, <3>2 DEF Install, IInv, JobsInv, NextVersionInv
    <3>. QED
      BY <1>4, <3>1, <3>2, <3>3 DEF Installed
  <2>. QED
    BY <1>4, <2>1, <2>2, <2>3, MemoryFrame DEF memory
<1>. QED
  BY <1>1, <1>2, <1>3, <1>4 DEF IInv, Readable

-----------------------------------------------------------------------------
(* A call outside the chains leaves the files and the versions alone, and  *)
(* puts memtables only where there is none.                                *)
LEMMA OutsideChain ==
  ASSUME IInv, NEW c \in Calls, Step(c), pc[c] \notin Chain
  PROVE  /\ UNCHANGED <<version, tables, pendingOutputs, job>>
         /\ immtable = None \/ UNCHANGED immtable
         /\ UNCHANGED logFileNumber \/ FinishSwitch(c)
<1>1. CASE \/ FlushApplied(c) \/ Moved(c) \/ CompactionApplied(c) \/ StartFlush(c)
           \/ FlushBuilt(c) \/ FlushFails(c) \/ Clean(c) \/ OpenOutput(c)
           \/ CompactionFails(c) \/ PickManual(c) \/ PickAuto(c) \/ FinishOutput(c)
  BY <1>1 DEF FlushApplied, Moved, CompactionApplied, StartFlush, FlushBuilt,
     FlushFails, Clean, OpenOutput, CompactionFails, PickManual, PickAuto,
     FinishOutput, Chain
<1>2. UNCHANGED <<version, job>>
  BY <1>1, VersionFrame, JobFrame
<1>3. UNCHANGED <<tables, pendingOutputs>>
  BY <1>1, FilesFrame DEF StartSwitch, files
<1>4. immtable = None \/ UNCHANGED immtable
  <2>1. CASE FinishSwitch(c)
    BY <2>1 DEF FinishSwitch, IInv, LogsInv
  <2>2. CASE LogAppend(c) \/ Insert(c)
    BY <2>2 DEF LogAppend, Insert
  <2>. QED
    BY <1>1, <2>1, <2>2, MemoryFrame DEF memory
<1>5. UNCHANGED logFileNumber \/ FinishSwitch(c)
  BY <1>1, MemoryFrame DEF memory, LogAppend, Insert
<1>. QED
  BY <1>2, <1>3, <1>4, <1>5

(* The local variables of d are changed by d's own steps.                  *)
LEMMA JobOwner ==
  ASSUME IInv, NEW c \in Calls, Step(c), NEW d \in Calls, d # c
  PROVE  job'[d] = job[d]
<1>1. CASE StartFlush(c) \/ FlushBuilt(c) \/ PickManual(c)
  BY <1>1 DEF IInv, Typed, JobTyped, StartFlush, FlushBuilt, PickManual
<1>2. CASE PickAuto(c) \/ OpenOutput(c) \/ FinishOutput(c)
  BY <1>2 DEF IInv, Typed, JobTyped, PickAuto, OpenOutput, FinishOutput
<1>3. CASE CompactionApplied(c) \/ CompactionFails(c)
  BY <1>3 DEF IInv, Typed, JobTyped, CompactionApplied, CompactionFails,
     EndJob
<1>. QED
  BY <1>1, <1>2, <1>3, JobFrame

(* The chain of d is not disturbed by the steps of other calls.            *)
LEMMA OthersStep ==
  ASSUME IInv, NEW c \in Calls, Step(c), NEW d \in Calls, d # c
  PROVE  (FlushInv(d) /\ CompactionInv(d) /\ NextVersionInv(d) /\ CleaningInv(d))'
<1>1. FlushInv(d) /\ CompactionInv(d) /\ NextVersionInv(d) /\ CleaningInv(d)
  BY DEF IInv, JobsInv
<1>2. pc'[d] = pc[d] /\ job'[d] = job[d]
  BY PcFrame, JobOwner DEF IInv, Typed
<1>3. CASE pc[d] \in Chain
  <2>1. pc[c] \notin Chain
    BY <1>3 DEF IInv, ChainInv, OneBackground
  <2>2. /\ UNCHANGED <<version, tables, pendingOutputs, job>>
        /\ immtable = None \/ UNCHANGED immtable
        /\ UNCHANGED logFileNumber \/ FinishSwitch(c)
    BY <2>1, OutsideChain
  <2>3. pc[d] \in Flushing => UNCHANGED immtable
    BY <1>1, <2>2 DEF FlushInv
  <2>4. FlushInv(d)'
    BY <1>1, <1>2, <2>2, <2>3 DEF FlushInv, version
  <2>5. CompactionInv(d)'
    BY <1>1, <1>2, <2>2 DEF CompactionInv, Merged, version
  <2>6. NextVersionInv(d)'
    <3>1. logFileNumber \in Nat /\ logFileNumber' \in Nat /\ logFileNumber <= logFileNumber'
      BY <2>2, MemoryTypedStep DEF FinishSwitch, IInv, LogsInv, Typed,
         MemoryTyped
    <3>2. job[d].log \in Nat
      BY DEF IInv, Typed, JobTyped, Job
    <3>. QED
      BY <1>1, <1>2, <2>2, <3>1, <3>2 DEF NextVersionInv, version
  <2>7. CleaningInv(d)'
    BY <1>1, <1>2, <2>2 DEF CleaningInv, version
  <2>. QED
    BY <2>4, <2>5, <2>6, <2>7
<1>4. CASE pc[d] \notin Chain
  BY <1>1, <1>2, <1>4 DEF FlushInv, CompactionInv, Merged, NextVersionInv,
     CleaningInv, Chain, Flushing, Merging
<1>. QED
  BY <1>3, <1>4

(* The own steps of a chain, phase by phase.                               *)
LEMMA OwnFlushInv ==
  ASSUME IInv, NEW c \in Calls, Step(c)
  PROVE  FlushInv(c)'
<1>1. CASE StartFlush(c)
  <2>1. pc[c] = "background" => job[c].in0 = {}
    BY DEF IInv, JobsInv, CompactionInv, Merged, Flushing, Merging
  <2>2. /\ nextFileNumber \notin DOMAIN tables /\ nextFileNumber \notin level0 \cup deeper
        /\ pc[c] = "compacting" /\ job[c].in0 # {} => nextFileNumber # job[c].out
    <3>1. nextFileNumber \in Nat \ {0} /\ nextFileNumber \notin DOMAIN tables
      BY DEF IInv, Typed, FilesTyped, TablesInv, LogsInv, MemoryTyped
    <3>. QED
      BY <3>1 DEF IInv, TablesInv, JobsInv, CompactionInv, Merged, Merging
  <2>3. UNCHANGED <<version, immtable>> /\ immtable # None
    BY <1>1 DEF StartFlush, memory, version
  <2>4. CASE immtable = {}
    <3>1. job'[c] = [job[c] EXCEPT !.flush = 0]
      BY <1>1, <2>4 DEF StartFlush, IInv, Typed, JobTyped
    <3>. QED
      BY <2>3, <2>4, <3>1 DEF FlushInv, IInv, Typed, JobTyped, Job
  <2>5. CASE immtable # {}
    <3>1. /\ job'[c] = [job[c] EXCEPT !.flush = nextFileNumber]
          /\ tables' = Create(tables, nextFileNumber, immtable)
          /\ pc[c] \in {"background", "compacting"}
      BY <1>1, <2>5 DEF StartFlush, IInv, Typed, JobTyped
    <3>2. /\ job'[c].flush = nextFileNumber /\ job'[c].in0 = job[c].in0
          /\ job'[c].out = job[c].out
      BY <3>1 DEF IInv, Typed, JobTyped, Job
    <3>3. nextFileNumber \in DOMAIN tables' /\ tables'[nextFileNumber] = immtable
      BY <3>1 DEF Create
    <3>. QED
      BY <2>1, <2>2, <2>3, <3>1, <3>2, <3>3 DEF FlushInv, version
  <2>. QED
    BY <2>4, <2>5
<1>2. CASE FlushBuilt(c)
  <2>1. /\ job'[c].flush = job[c].flush /\ job'[c].in0 = job[c].in0
        /\ job'[c].out = job[c].out
    BY <1>2 DEF FlushBuilt, IInv, Typed, JobTyped, Job
  <2>2. UNCHANGED <<version, immtable, tables>> /\ pc[c] \in Flushing
    BY <1>2 DEF FlushBuilt, memory, version, Flushing
  <2>. QED
    BY <2>1, <2>2 DEF FlushInv, IInv, JobsInv, version
<1>3. CASE ~StartFlush(c) /\ ~FlushBuilt(c)
  <2>1. pc'[c] \notin Flushing
    BY <1>3 DEF Step, MakeRoom, Background, Faults, Caller, AfterFlush, GoTo,
       Flushing, IInv, Typed, FrontTyped, Call, Lead, Refuse, Delay, WakeUp,
       HasRoom, Spin, StartSwitch, FinishSwitch, LogAppend, Insert, Schedule,
       FlushFails, FlushApplied, Clean, PickManual, PickAuto, Moved,
       MoveFails, OpenOutput, FinishOutput, CompactionApplied,
       CompactionFails, EndBackground, Unschedule, ManualStep, Throw
  <2>. QED
    BY <2>1 DEF FlushInv
<1>. QED
  BY <1>1, <1>2, <1>3

(* A step of the chain that leaves the compaction alone.                   *)
LEMMA MergedKept ==
  ASSUME IInv, NEW c \in Calls, Step(c), Merged(c),
         job'[c].in0 = job[c].in0, job'[c].in1 = job[c].in1, job'[c].out = job[c].out,
         level0 \subseteq level0', deeper \subseteq deeper',
         job[c].out # 0 => job[c].out \notin level0' \cup deeper' /\ job[c].out \in pendingOutputs'
  PROVE  Merged(c)'
<1>. DEFINE ins == job[c].in0 \cup job[c].in1
<1>1. \A t \in ins : tables'[t] = tables[t]
  BY LiveTablesFrame DEF Merged
<1>2. {tables'[t] : t \in ins} = {tables[t] : t \in ins}
  BY <1>1
<1>3. job[c].out # 0 =>
        job[c].out \in DOMAIN tables' /\ tables'[job[c].out] = tables[job[c].out]
  BY TablesFrame DEF Merged
<1>. QED
  BY <1>2, <1>3 DEF Merged

(* The inputs of a compaction stay in the version while it runs, because   *)
(* nobody else installs one but its own flushes, which only add.           *)
LEMMA OwnCompactionInv ==
  ASSUME IInv, NEW c \in Calls, Step(c)
  PROVE  CompactionInv(c)'
<1>0. CompactionInv(c) /\ FlushInv(c) /\ NextVersionInv(c) /\ CleaningInv(c)
  BY DEF IInv, JobsInv
<1>1. CASE PickManual(c) \/ PickAuto(c)
  <2>1. pc[c] = "background" /\ job[c].in0 = {} /\ UNCHANGED version
    BY <1>0, <1>1 DEF PickManual, PickAuto, CompactionInv, Merged, Flushing,
       Merging
  <2>2. \/ job'[c].in0 = {} /\ pc'[c] \in {"ended", "applyingMove"}
        \/ /\ job'[c].in0 # {} /\ pc'[c] = "compacting" /\ job'[c].out = 0
           /\ job'[c].in0 \subseteq level0 /\ job'[c].in1 \subseteq deeper
    <3>1. CASE UNCHANGED job /\ pc' = [pc EXCEPT ![c] = "ended"]
      BY <2>1, <3>1 DEF IInv, Typed, FrontTyped
    <3>2. ASSUME NEW in0 \in SUBSET level0, NEW in1 \in SUBSET deeper, in0 # {},
                 job' = [job EXCEPT ![c].in0 = in0, ![c].in1 = in1, ![c].out = 0],
                 pc' = [pc EXCEPT ![c] = "compacting"]
          PROVE  /\ job'[c].in0 # {} /\ pc'[c] = "compacting" /\ job'[c].out = 0
                 /\ job'[c].in0 \subseteq level0 /\ job'[c].in1 \subseteq deeper
      BY <3>2 DEF IInv, Typed, FrontTyped, JobTyped, Job
    <3>3. ASSUME NEW in0 \in SUBSET level0,
                 job' = [job EXCEPT ![c].level0 = level0 \ in0,
                                    ![c].deeper = deeper \cup in0,
                                    ![c].log    = logNumber],
                 pc' = [pc EXCEPT ![c] = "applyingMove"]
          PROVE  job'[c].in0 = {} /\ pc'[c] = "applyingMove"
      BY <2>1, <3>3 DEF IInv, Typed, FrontTyped, JobTyped, Job
    <3>4. CASE PickManual(c)
      BY <3>1, <3>2, <3>4 DEF PickManual, GoTo
    <3>5. CASE PickAuto(c)
      <4>1. PICK in0 \in (SUBSET level0) \ {{}}, in1 \in SUBSET deeper :
              \/ /\ job' = [job EXCEPT ![c].level0 = level0 \ in0,
                                      ![c].deeper = deeper \cup in0,
                                      ![c].log    = logNumber]
                 /\ pc' = [pc EXCEPT ![c] = "applyingMove"]
              \/ /\ job' = [job EXCEPT ![c].in0 = in0, ![c].in1 = in1, ![c].out = 0]
                 /\ pc' = [pc EXCEPT ![c] = "compacting"]
        BY <3>5, Zenon DEF PickAuto, GoTo
      <4>2. in0 \in SUBSET level0 /\ in0 # {}
        OBVIOUS
      <4>. QED
        BY <3>2, <3>3, <4>1, <4>2
    <3>. QED
      BY <1>1, <3>4, <3>5
  <2>. QED
    BY <2>1, <2>2 DEF CompactionInv, Merged, Flushing, Merging, version
<1>2. CASE OpenOutput(c)
  <2>1. UNCHANGED <<version, pc>>
    BY <1>2 DEF OpenOutput
  <2>2. /\ pc[c] = "compacting" /\ job[c].in0 # {}
        /\ job[c].in0 \subseteq level0 /\ job[c].in1 \subseteq deeper
    BY <1>0, <1>2 DEF OpenOutput, CompactionInv, Merged, Merging
  <2>3. /\ job'[c].in0 = job[c].in0 /\ job'[c].in1 = job[c].in1
        /\ job'[c].out = nextFileNumber
    BY <1>2 DEF OpenOutput, IInv, Typed, JobTyped, Job
  <2>4. nextFileNumber \notin DOMAIN tables
    BY DEF IInv, Typed, FilesTyped, TablesInv
  <2>5. (job[c].in0 \cup job[c].in1) \cap DOMAIN tables = job[c].in0 \cup job[c].in1
    BY <2>2 DEF IInv, TablesInv
  <2>6. tables' = Create(tables, nextFileNumber,
                         UNION {tables[t] : t \in job[c].in0 \cup job[c].in1})
    BY <1>2, <2>5 DEF OpenOutput
  <2>7. \A t \in job[c].in0 \cup job[c].in1 : tables'[t] = tables[t]
    BY <2>2, LiveTablesFrame
  <2>a. {tables[t] : t \in job[c].in0 \cup job[c].in1}
          = {tables'[t] : t \in job'[c].in0 \cup job'[c].in1}
    BY <2>3, <2>7
  <2>8. /\ nextFileNumber \in DOMAIN tables' /\ nextFileNumber \in pendingOutputs'
        /\ tables'[nextFileNumber] = UNION {tables'[t] : t \in job'[c].in0 \cup job'[c].in1}
    BY <1>2, <2>6, <2>a DEF OpenOutput, Create
  <2>9. nextFileNumber \notin level0' \cup deeper'
    BY <2>1, <2>4 DEF IInv, TablesInv, version
  <2>. QED
    BY <2>1, <2>2, <2>3, <2>8, <2>9 DEF CompactionInv, Merged, version,
       Merging, Flushing
<1>3. CASE CompactionApplied(c) \/ CompactionFails(c)
  <2>1. job'[c].in0 = {} /\ pc'[c] = "cleaningUp"
    BY <1>3 DEF CompactionApplied, CompactionFails, EndJob, GoTo, IInv, Typed,
       JobTyped, Job, FrontTyped
  <2>. QED
    BY <2>1 DEF CompactionInv, Merged, Flushing, Merging
<1>4. CASE StartFlush(c)
  <2>1. /\ job'[c].in0 = job[c].in0 /\ job'[c].in1 = job[c].in1 /\ job'[c].out = job[c].out
    BY <1>4 DEF StartFlush, IInv, Typed, JobTyped, Job
  <2>2. pc'[c] = "building" /\ UNCHANGED version /\ pendingOutputs \subseteq pendingOutputs'
    BY <1>4 DEF StartFlush, GoTo, IInv, Typed, FrontTyped, files
  <2>3. CASE job[c].in0 # {}
    <3>1. Merged(c)
      BY <1>0, <1>4, <2>3 DEF StartFlush, CompactionInv, Merged, Flushing,
         Merging
    <3>2. Merged(c)'
      BY <2>1, <2>2, <3>1, MergedKept DEF Merged, version
    <3>. QED
      BY <2>2, <3>2 DEF CompactionInv, Merged, Flushing, Merging
  <2>. QED
    BY <2>1, <2>2, <2>3 DEF CompactionInv, Merged, Flushing, Merging
<1>5. CASE FlushBuilt(c) \/ FlushFails(c)
  <2>1. /\ job'[c].in0 = job[c].in0 /\ job'[c].in1 = job[c].in1 /\ job'[c].out = job[c].out
    <3>1. CASE FlushBuilt(c)
      BY <3>1 DEF FlushBuilt, IInv, Typed, JobTyped, Job
    <3>2. CASE FlushFails(c)
      BY <3>2 DEF FlushFails
    <3>. QED
      BY <1>5, <3>1, <3>2
  <2>2. /\ pc[c] \in Flushing /\ UNCHANGED version
        /\ pendingOutputs' = pendingOutputs \ {job[c].flush}
        /\ pc'[c] \in {"applyingFlush", AfterFlush(c)}
    BY <1>5 DEF FlushBuilt, FlushFails, GoTo, IInv, Typed, FrontTyped,
       Flushing
  <2>3. CASE job[c].in0 # {}
    <3>1. Merged(c)
      BY <1>0, <2>2, <2>3 DEF CompactionInv, Merged
    <3>2. job[c].out # 0 => job[c].out \in pendingOutputs'
      BY <1>0, <2>2, <2>3, <3>1 DEF Merged, FlushInv
    <3>3. Merged(c)'
      BY <2>1, <2>2, <3>1, <3>2, MergedKept DEF Merged, version
    <3>. QED
      BY <2>1, <2>2, <2>3, <3>3 DEF CompactionInv, Merged, AfterFlush,
         Flushing, Merging
  <2>. QED
    BY <2>1, <2>2, <2>3 DEF CompactionInv, Merged, AfterFlush, Flushing,
       Merging
<1>6. CASE FlushApplied(c)
  <2>1. UNCHANGED job /\ pc[c] \in Flushing /\ pc'[c] = "cleaning"
    BY <1>6 DEF FlushApplied, GoTo, IInv, Typed, FrontTyped, Flushing,
       background
  <2>2. CASE job[c].in0 # {}
    <3>1. Merged(c)
      BY <1>0, <2>1, <2>2 DEF CompactionInv, Merged
    <3>2. /\ pendingOutputs \subseteq pendingOutputs'
          /\ level0 \subseteq level0' /\ level0' \subseteq level0 \cup ({job[c].flush} \ {0})
          /\ deeper \subseteq deeper' /\ deeper' \subseteq deeper \cup ({job[c].flush} \ {0})
      BY <1>0, <1>6 DEF FlushApplied, Install, NextVersionInv
    <3>3. Merged(c)'
      BY <1>0, <2>1, <2>2, <3>1, <3>2, MergedKept DEF Merged, FlushInv
    <3>. QED
      BY <2>1, <3>3 DEF CompactionInv, Merged, Flushing, Merging
  <2>. QED
    BY <2>1, <2>2 DEF CompactionInv, Merged, Flushing, Merging
<1>7. CASE Clean(c) \/ FinishOutput(c)
  <2>1. /\ job'[c].in0 = job[c].in0 /\ job'[c].in1 = job[c].in1 /\ job'[c].out = job[c].out
        /\ UNCHANGED <<version, pendingOutputs>>
    BY <1>7 DEF Clean, FinishOutput, IInv, Typed, JobTyped, Job, files,
       background
  <2>2. /\ pc[c] \in {"cleaning", "cleaningUp", "compacting"}
        /\ pc[c] = "cleaning" => pc'[c] = AfterFlush(c)
        /\ pc[c] = "cleaningUp" => pc'[c] = "ended"
        /\ pc[c] = "compacting" => pc'[c] = "applyingCompaction"
    BY <1>7 DEF Clean, FinishOutput, GoTo, IInv, Typed, FrontTyped
  <2>3. CASE job[c].in0 # {}
    <3>1. Merged(c) /\ pc[c] # "cleaningUp"
      BY <1>0, <2>2, <2>3 DEF CompactionInv, Merged, Flushing, Merging
    <3>2. Merged(c)'
      BY <2>1, <3>1, MergedKept DEF Merged, version
    <3>. QED
      BY <2>1, <2>2, <2>3, <3>1, <3>2 DEF CompactionInv, Merged, AfterFlush,
         Flushing, Merging
  <2>4. CASE job[c].in0 = {}
    <3>1. pc[c] # "compacting"
      BY <1>0, <2>4 DEF CompactionInv, Merged, Merging
    <3>. QED
      BY <2>1, <2>2, <2>4, <3>1 DEF CompactionInv, Merged, AfterFlush,
         Flushing, Merging
  <2>. QED
    BY <2>3, <2>4
<1>8. CASE Throw(c)
  BY <1>8 DEF Throw, GoTo, CompactionInv, Merged, Flushing, Merging, IInv,
     Typed, FrontTyped
<1>9. CASE \/ Call(c) \/ Lead(c) \/ Refuse(c) \/ Delay(c) \/ WakeUp(c) \/ HasRoom(c)
           \/ Spin(c) \/ StartSwitch(c) \/ FinishSwitch(c) \/ LogAppend(c) \/ Insert(c)
           \/ Schedule(c) \/ Moved(c) \/ MoveFails(c) \/ EndBackground(c)
           \/ Unschedule(c) \/ ManualStep(c)
  <2>1. /\ pc[c] \notin Flushing \cup Merging \cup {"cleaning", "failed"}
        /\ pc'[c] \notin Flushing \cup Merging \cup {"cleaning", "failed"}
        /\ UNCHANGED job
    BY <1>9 DEF GoTo, Caller, Flushing, Merging, background, IInv, Typed,
       FrontTyped, Call, Lead, Refuse, Delay, WakeUp, HasRoom, Spin,
       StartSwitch, FinishSwitch, LogAppend, Insert, Schedule, Moved,
       MoveFails, EndBackground, Unschedule, ManualStep
  <2>. QED
    BY <1>0, <2>1 DEF CompactionInv, Merged
<1>. QED
  BY <1>1, <1>2, <1>3, <1>4, <1>5, <1>6, <1>7, <1>8, <1>9 DEF Step, MakeRoom,
     Background, Faults

(* The version about to be installed is derived from the current one, and  *)
(* nobody installs another before.                                         *)
LEMMA OwnNextVersionInv ==
  ASSUME IInv, NEW c \in Calls, Step(c)
  PROVE  NextVersionInv(c)'
<1>0. JobTyped /\ FrontTyped /\ MemoryTyped /\ CompactionInv(c)
  BY DEF IInv, Typed, JobsInv
<1>1. CASE FlushBuilt(c)
  <2>. DEFINE new == {job[c].flush} \ {0}
  <2>1. PICK sinks \in BOOLEAN :
          job' = [job EXCEPT ![c].level0 = IF sinks THEN level0 ELSE level0 \cup new,
                             ![c].deeper = IF sinks THEN deeper \cup new ELSE deeper,
                             ![c].log    = logFileNumber]
    BY <1>1 DEF FlushBuilt
  <2>2. job'[c].flush = job[c].flush
    BY <1>0, <2>1 DEF JobTyped, Job
  <2>3. /\ job'[c].level0 = IF sinks THEN level0 ELSE level0 \cup new
        /\ job'[c].deeper = IF sinks THEN deeper \cup new ELSE deeper
        /\ job'[c].log = logFileNumber
    <3>. HIDE DEF new
    <3>. QED
      BY <1>0, <2>1 DEF JobTyped, Job
  <2>4. pc'[c] = "applyingFlush" /\ UNCHANGED <<version, memory>>
    BY <1>0, <1>1 DEF FlushBuilt, GoTo, FrontTyped
  <2>. QED
    BY <1>0, <2>2, <2>3, <2>4 DEF NextVersionInv, version, memory, MemoryTyped
<1>2. CASE FinishOutput(c)
  <2>1. /\ job'[c].in0 = job[c].in0 /\ job'[c].in1 = job[c].in1 /\ job'[c].out = job[c].out
        /\ job[c].out # 0
        /\ job'[c].level0 = level0 \ job[c].in0
        /\ job'[c].deeper = (deeper \ job[c].in1) \cup {job[c].out}
        /\ job'[c].log = logNumber
    BY <1>0, <1>2 DEF FinishOutput, JobTyped, Job
  <2>2. pc'[c] = "applyingCompaction" /\ UNCHANGED version
    BY <1>0, <1>2 DEF FinishOutput, GoTo, FrontTyped
  <2>. QED
    BY <2>1, <2>2 DEF NextVersionInv, version
<1>3. CASE PickAuto(c)
  <2>1. PICK in0 \in (SUBSET level0) \ {{}}, in1 \in SUBSET deeper :
          \/ /\ job' = [job EXCEPT ![c].level0 = level0 \ in0,
                                  ![c].deeper = deeper \cup in0,
                                  ![c].log    = logNumber]
             /\ pc' = [pc EXCEPT ![c] = "applyingMove"]
          \/ pc' = [pc EXCEPT ![c] = "compacting"]
    BY <1>3, Zenon DEF PickAuto, GoTo
  <2>2. UNCHANGED version
    BY <1>3 DEF PickAuto
  <2>3. CASE pc' = [pc EXCEPT ![c] = "compacting"]
    BY <1>0, <2>3 DEF NextVersionInv, FrontTyped
  <2>4. ASSUME job' = [job EXCEPT ![c].level0 = level0 \ in0,
                                  ![c].deeper = deeper \cup in0,
                                  ![c].log    = logNumber],
               pc' = [pc EXCEPT ![c] = "applyingMove"]
        PROVE  NextVersionInv(c)'
    <3>1. /\ job'[c].level0 = level0 \ in0 /\ job'[c].deeper = deeper \cup in0
          /\ job'[c].log = logNumber /\ pc'[c] = "applyingMove"
      BY <1>0, <2>4 DEF JobTyped, Job, FrontTyped
    <3>2. in0 \in SUBSET level0'
      BY <2>2 DEF version
    <3>. QED
      BY <2>2, <3>1, <3>2 DEF NextVersionInv, version
  <2>. QED
    BY <2>1, <2>3, <2>4
<1>4. CASE ~FlushBuilt(c) /\ ~FinishOutput(c) /\ ~PickAuto(c)
  <2>1. pc'[c] \notin {"applyingFlush", "applyingCompaction", "applyingMove"}
    BY <1>0, <1>4 DEF Step, MakeRoom, Background, Faults, Caller, AfterFlush,
       GoTo, FrontTyped, Call, Lead, Refuse, Delay, WakeUp, HasRoom, Spin,
       StartSwitch, FinishSwitch, LogAppend, Insert, Schedule, StartFlush,
       FlushFails, FlushApplied, Clean, PickManual, Moved, MoveFails,
       OpenOutput, CompactionApplied, CompactionFails, EndBackground,
       Unschedule, ManualStep, Throw
  <2>. QED
    BY <2>1 DEF NextVersionInv
<1>. QED
  BY <1>1, <1>2, <1>3, <1>4

(* deleteObsoleteFiles starts by adding the live tables to pendingOutputs. *)
LEMMA OwnCleaningInv ==
  ASSUME IInv, NEW c \in Calls, Step(c)
  PROVE  CleaningInv(c)'
<1>1. CASE FlushApplied(c) \/ CompactionApplied(c)
  BY <1>1 DEF FlushApplied, CompactionApplied, CleaningInv
<1>2. CASE CompactionFails(c)
  BY <1>2 DEF CompactionFails, CleaningInv, version
<1>3. CASE ~FlushApplied(c) /\ ~CompactionApplied(c) /\ ~CompactionFails(c)
  <2>1. pc'[c] \notin {"cleaning", "cleaningUp"}
    BY <1>3 DEF Step, MakeRoom, Background, Faults, Caller, AfterFlush, GoTo,
       IInv, Typed, FrontTyped, Call, Lead, Refuse, Delay, WakeUp, HasRoom,
       Spin, StartSwitch, FinishSwitch, LogAppend, Insert, Schedule,
       StartFlush, FlushBuilt, FlushFails, Clean, PickManual, PickAuto, Moved,
       MoveFails, OpenOutput, FinishOutput, EndBackground, Unschedule,
       ManualStep, Throw
  <2>. QED
    BY <2>1 DEF CleaningInv
<1>. QED
  BY <1>1, <1>2, <1>3

(* The chains, own steps and those of others together.                     *)
LEMMA JobsStep ==
  ASSUME IInv, NEW c \in Calls, Step(c)
  PROVE  JobsInv'
BY OthersStep, OwnFlushInv, OwnCompactionInv, OwnNextVersionInv,
   OwnCleaningInv DEF JobsInv

-----------------------------------------------------------------------------
(* The invariant is inductive.                                             *)
LEMMA NextIInv == IInv /\ [Next]_vars => IInv'
<1>. SUFFICES ASSUME IInv, [Next]_vars PROVE IInv'
  OBVIOUS
<1>1. ASSUME NEW c \in Calls, Step(c) PROVE IInv'
  BY <1>1, TypedStep, LeadersStep, ChainStep, LogsStep, MemoryStep,
     TablesStep, JobsStep, ReadableStep DEF IInv
<1>2. CASE UNCHANGED vars
  <2>1. UNCHANGED <<queue, pc, room, memtable, immtable, logs, logFileNumber>>
    BY <1>2 DEF vars
  <2>2. UNCHANGED <<level0, deeper, logNumber, tables, nextFileNumber, pendingOutputs>>
    BY <1>2 DEF vars
  <2>3. UNCHANGED <<scheduled, bgError, manual, manualDone, job>>
    BY <1>2 DEF vars
  <2>4. Typed'
    BY <2>1, <2>2, <2>3 DEF IInv, Typed, FrontTyped, MemoryTyped,
       VersionTyped, FilesTyped, BackgroundTyped, JobTyped
  <2>5. LeadersInv' /\ ChainInv' /\ LogsInv' /\ MemoryInv' /\ TablesInv'
    BY <2>1, <2>2, <2>3 DEF IInv, LeadersInv, Leading, Leads, ChainInv,
       OneBackground, LogsInv, MemoryInv, TablesInv
  <2>6. JobsInv'
    BY <2>1, <2>2, <2>3 DEF IInv, JobsInv, FlushInv, CompactionInv, Merged,
       NextVersionInv, CleaningInv
  <2>7. Readable'
    BY <2>1, <2>2 DEF IInv, Readable, Installed
  <2>. QED
    BY <2>4, <2>5, <2>6, <2>7 DEF IInv
<1>. QED
  BY <1>1, <1>2 DEF Next, Step

(* The invariant holds in every reachable state.                           *)
THEOREM Invariance == Spec => []IInv
<1>. QED
  BY InitIInv, NextIInv, PTL DEF Spec

(* Every variable keeps its type; a version has no table on two levels,    *)
(* and recovery is never told to start at a log that does not exist yet.   *)
THEOREM TypeCorrect == Spec => []TypeOK
<1>1. IInv => TypeOK
  BY DEF IInv, Typed, FrontTyped, MemoryTyped, VersionTyped, FilesTyped,
     BackgroundTyped, JobTyped, LogsInv, TablesInv, TypeOK
<1>. QED
  BY <1>1, Invariance, PTL

(* At most one call runs the background chain, whoever starts it.          *)
THEOREM OneChain == Spec => []OneBackground
<1>1. IInv => OneBackground
  BY DEF IInv, ChainInv
<1>. QED
  BY <1>1, Invariance, PTL

(* A write that has returned is found by a get, however its record has     *)
(* been moved between memtables and tables.                                *)
THEOREM AckedReadable == Spec => []Readable
<1>1. IInv => Readable
  BY DEF IInv
<1>. QED
  BY <1>1, Invariance, PTL

(* A write that has returned is in what recovery would read, at any point. *)
THEOREM AckedRetained == Spec => []Retained
<1>1. ASSUME IInv, NEW w \in Writers, pc[w] = "returned"
      PROVE  \/ w \in Installed
             \/ \E n \in DOMAIN logs : n >= logNumber /\ w \in logs[n]
  <2>1. CASE w \in memtable
    <3>1. w \in logs[logFileNumber] /\ logFileNumber \in DOMAIN logs
          /\ logFileNumber >= logNumber
      BY <1>1, <2>1 DEF IInv, MemoryInv, LogsInv, Typed, MemoryTyped,
         VersionTyped
    <3>. QED
      BY <3>1
  <2>2. CASE immtable # None /\ w \in immtable
    BY <1>1, <2>2 DEF IInv, MemoryInv
  <2>. QED
    BY <1>1, <2>1, <2>2 DEF IInv, Readable
<1>2. IInv => Retained
  BY <1>1 DEF Retained
<1>. QED
  BY <1>2, Invariance, PTL

(* Garbage collection spares the tables of the version, and those that a   *)
(* compaction reads or writes.                                             *)
THEOREM TablesStay == Spec => []TablesExist
<1>1. ASSUME IInv, NEW c \in Calls, pc[c] = "compacting"
      PROVE  job[c].in0 \cup job[c].in1 \cup ({job[c].out} \ {0}) \subseteq DOMAIN tables
  <2>1. /\ job[c].in0 \subseteq level0 /\ job[c].in1 \subseteq deeper
        /\ job[c].out # 0 => job[c].out \in DOMAIN tables
    BY <1>1 DEF IInv, JobsInv, CompactionInv, Merged, Merging
  <2>. QED
    BY <1>1, <2>1 DEF IInv, TablesInv
<1>2. IInv => TablesExist
  BY <1>1 DEF TablesExist, IInv, TablesInv
<1>. QED
  BY <1>2, Invariance, PTL
=============================================================================
