---------------------------- MODULE Recovery_proofs ----------------------------
(***************************************************************************)
(* Proofs about crashes and recovery, for any number of writes, crashes    *)
(* and files and any size of the memtable: no acknowledged write is lost,  *)
(* unless the table it is in was appended to a torn one, and neither       *)
(* sequence numbers nor file numbers are given out twice.                  *)
(*                                                                         *)
(* The process may die anywhere, in the middle of a table or of CURRENT    *)
(* included.  All of it holds until logs have been replayed in an order    *)
(* other than that of their numbers; the runs have what happens then.      *)
(***************************************************************************)
EXTENDS Recovery, FiniteNumbers, SequenceTheorems

-----------------------------------------------------------------------------
(* Types, and what the control needs of them whatever the order of names.  *)
Versions == SUBSET [number : Nat, level : 0..2]
Edits    == {e \in [version : Versions, logNumber : Nat, nextFile : Nat,
                    lastSequence : 0..MaxWrites] : e.logNumber <= e.nextFile}
Counters == [version : Versions, logNumber : Nat, manifest : Nat, nextFile : Nat,
             lastSequence : 0..MaxWrites]
Images   == [recs : SUBSET (1..MaxWrites), whole : BOOLEAN]

ManifestsTyped(M) == DOMAIN M \subseteq Nat /\ M \in [DOMAIN M -> Edits]
LogsTyped(L)      == DOMAIN L \subseteq Nat /\ L \in [DOMAIN L -> Seq(1..MaxWrites)]
TablesTyped(T)    == /\ DOMAIN T \subseteq Nat /\ T \in [DOMAIN T -> Seq(Images)]
                     /\ \A n \in DOMAIN T : T[n] # <<>>

FilesTyped ==
  current \in Nat /\ ManifestsTyped(manifests) /\ LogsTyped(logs) /\ TablesTyped(tables)

ProcessTyped ==
  /\ pc \in {"open", "down", "recovering", "broken"}
  /\ task \in {"idle", "table", "append", "truncate", "write", "clean", "replay"}
  /\ vset \in Counters /\ edit \in Edits
  /\ memtable \in SUBSET (1..MaxWrites) /\ immtable \in SUBSET (1..MaxWrites)
  /\ logFileNumber \in Nat /\ out \in Nat
  /\ todo \subseteq DOMAIN logs
  /\ acked \in 0..MaxWrites

(* The log in use exists: deleteObsoleteFiles unlinks lower numbers only.  *)
Control ==
  /\ pc = "open" => task # "replay"
  /\ pc = "recovering" => task # "idle"
  /\ pc \in {"down", "broken"} => task = "idle"
  /\ pc = "open" \/ task \in {"append", "truncate", "write", "clean"} =>
       /\ logFileNumber \in DOMAIN logs
       /\ vset.logNumber <= logFileNumber /\ logFileNumber < vset.nextFile
       /\ task \in {"append", "truncate", "write"} => edit.logNumber <= logFileNumber
       /\ todo = {}
  /\ pc = "recovering" /\ task = "table" => memtable # {}
  /\ vset.logNumber <= vset.nextFile

Typed == FilesTyped /\ ProcessTyped /\ Control

(* What the last image of a file is, and the ones in front of it.          *)
LEMMA OneMore ==
  ASSUME NEW s, s \in Seq(Images), NEW x \in Images
  PROVE  LET t == s \o <<x>> IN
         /\ t \in Seq(Images) /\ t # <<>>
         /\ Len(t) = Len(s) + 1 /\ t[Len(s) + 1] = x
         /\ \A i \in 1..Len(s) : t[i] = s[i]
  OBVIOUS

LEMMA LastReplaced ==
  ASSUME NEW s, s \in Seq(Images), s # <<>>, NEW x \in Images
  PROVE  LET t == Front(s) \o <<x>> IN
         /\ t \in Seq(Images) /\ t # <<>>
         /\ Len(t) = Len(s) /\ t[Len(s)] = x
         /\ \A i \in 1..(Len(s) - 1) : t[i] = s[i]
<1>1. Len(s) \in Nat \ {0}
  BY EmptySeq, LenProperties
<1>2. Front(s) = SubSeq(s, 1, Len(s) - 1)
  BY DEF Front
<1>3. /\ Front(s) \in Seq(Images) /\ Len(Front(s)) = Len(s) - 1
      /\ \A i \in 1..(Len(s) - 1) : Front(s)[i] = s[i]
  <2>. PICK n \in Nat : n = Len(s) - 1
    BY <1>1
  <2>. PICK one \in Nat : one = 1
    OBVIOUS
  <2>1. one \in 1..(n + 1) /\ n \in (one - 1)..Len(s) /\ SubSeq(s, one, n) = Front(s)
    BY <1>1, <1>2
  <2>2. /\ SubSeq(s, one, n) \in Seq(Images) /\ Len(SubSeq(s, one, n)) = n - one + 1
        /\ \A i \in 1..(n - one + 1) : SubSeq(s, one, n)[i] = s[one + i - 1]
    BY <2>1, SubSeqProperties
  <2>. QED
    BY <2>1, <2>2
<1>. HIDE DEF Front
<1>. QED
  BY <1>1, <1>3

LEMMA WritesAreFinite ==
  ASSUME NEW s \in SUBSET (1..MaxWrites)
  PROVE  /\ IsFiniteSet(s) /\ s \subseteq Nat
         /\ s # {} => Max(s) \in s /\ \A x \in s : x <= Max(s)
<1>1. MaxWrites \in Nat
  BY RecoveryAssumption
<1>2. IsFiniteSet(1..MaxWrites)
  BY <1>1, FS_Interval
<1>3. IsFiniteSet(s)
  BY <1>2, FS_Subset
<1>4. s \subseteq Nat
  BY <1>1
<1>. QED
  BY <1>3, <1>4, MaxOfFinite

LEMMA GreaterOf ==
  ASSUME NEW a \in 0..MaxWrites, NEW b \in 0..MaxWrites
  PROVE  Max({a, b}) \in {a, b} /\ a <= Max({a, b}) /\ b <= Max({a, b})
<1>1. MaxWrites \in Nat
  BY RecoveryAssumption
<1>2. IsFiniteSet({a, b})
  <2>1. IsFiniteSet(0..MaxWrites) /\ {a, b} \subseteq 0..MaxWrites
    BY <1>1, FS_Interval
  <2>. QED
    BY <2>1, FS_Subset
<1>3. {a, b} \subseteq Nat /\ {a, b} # {}
  BY <1>1
<1>. QED
  BY <1>2, <1>3, MaxOfFinite

(* The records of a log.                                                   *)
LEMMA RecordsOf ==
  ASSUME NEW s, s \in Seq(1..MaxWrites)
  PROVE  /\ ToSet(s) \in SUBSET (1..MaxWrites)
         /\ ToSet(s) = {} <=> s = <<>>
         /\ \A x \in 1..MaxWrites : /\ Append(s, x) \in Seq(1..MaxWrites) /\ Append(s, x) # <<>>
                                    /\ ToSet(Append(s, x)) = ToSet(s) \cup {x}
<1>1. Len(s) \in Nat /\ DOMAIN s = 1..Len(s)
  BY LenProperties
<1>2. \A i \in 1..Len(s) : s[i] \in 1..MaxWrites
  BY ElementOfSeq
<1>3. s = <<>> <=> Len(s) = 0
  BY EmptySeq
<1>4. ASSUME NEW x \in 1..MaxWrites
      PROVE  /\ Append(s, x) \in Seq(1..MaxWrites) /\ Append(s, x) # <<>>
             /\ ToSet(Append(s, x)) = ToSet(s) \cup {x}
  <2>. DEFINE t == Append(s, x)
  <2>1. /\ t \in Seq(1..MaxWrites) /\ Len(t) = Len(s) + 1 /\ t # <<>> /\ t[Len(s) + 1] = x
        /\ \A i \in 1..Len(s) : t[i] = s[i]
        /\ DOMAIN t = 1..(Len(s) + 1)
    BY AppendProperties
  <2>2. 1..(Len(s) + 1) = 1..Len(s) \cup {Len(s) + 1}
    BY <1>1
  <2>. HIDE DEF t
  <2>3. {t[i] : i \in DOMAIN t} = {s[i] : i \in DOMAIN s} \cup {x}
    BY <1>1, <2>1, <2>2
  <2>. QED
    BY <2>1, <2>3 DEF t, ToSet
<1>5. ToSet(s) \in SUBSET (1..MaxWrites)
  BY <1>1, <1>2 DEF ToSet
<1>6. ToSet(s) = {} <=> s = <<>>
  <2>1. s = <<>> <=> 1 \notin 1..Len(s)
    BY <1>1, <1>3
  <2>2. \A i \in 1..Len(s) : 1 \in 1..Len(s)
    BY <1>1
  <2>. QED
    BY <1>1, <2>1, <2>2 DEF ToSet
<1>. QED
  BY <1>4, <1>5, <1>6

LEMMA FilesPut ==
  ASSUME NEW n \in Nat
  PROVE  /\ ManifestsTyped(manifests) => \A x \in Edits : ManifestsTyped(Put(manifests, n, x))
         /\ LogsTyped(logs) => LogsTyped(Put(logs, n, <<>>))
         /\ TablesTyped(tables) => \A x \in Seq(Images) :
              x # <<>> => TablesTyped(Put(tables, n, x))
<1>1. <<>> \in Seq(1..MaxWrites)
  OBVIOUS
<1>. QED
  BY <1>1 DEF Put, ManifestsTyped, LogsTyped, TablesTyped

LEMMA FilesUnlinked ==
  ASSUME NEW n
  PROVE  /\ ManifestsTyped(manifests) => ManifestsTyped(Restrict(manifests, DOMAIN manifests \ {n}))
         /\ LogsTyped(logs) => LogsTyped(Restrict(logs, DOMAIN logs \ {n}))
         /\ TablesTyped(tables) => TablesTyped(Restrict(tables, DOMAIN tables \ {n}))
  BY DEF Restrict, ManifestsTyped, LogsTyped, TablesTyped

LEMMA ImagesPut ==
  ASSUME TablesTyped(tables), NEW n \in Nat
  PROVE  /\ TablesTyped(OpenImage(n))
         /\ \A r \in SUBSET (1..MaxWrites) : TablesTyped(CloseImage(n, r))
<1>. DEFINE new == [recs |-> {}, whole |-> FALSE]
            before == IF n \in DOMAIN tables THEN tables[n] ELSE <<>>
<1>1. new \in Images
  BY DEF Images
<1>2. before \in Seq(Images)
  BY DEF TablesTyped
<1>. HIDE DEF before, new
<1>3. before \o <<new>> \in Seq(Images) /\ before \o <<new>> # <<>>
  BY <1>1, <1>2, OneMore
<1>4. TablesTyped(OpenImage(n))
  BY <1>3, FilesPut DEF OpenImage, before, new
<1>5. ASSUME NEW r \in SUBSET (1..MaxWrites), n \in DOMAIN tables
      PROVE  TablesTyped(CloseImage(n, r))
  <2>. DEFINE x == [recs |-> r, whole |-> TRUE]
  <2>1. x \in Images
    BY DEF Images
  <2>2. tables[n] \in Seq(Images) /\ tables[n] # <<>>
    BY <1>5 DEF TablesTyped
  <2>3. CloseImage(n, r) = [tables EXCEPT ![n] = Front(tables[n]) \o <<x>>]
    BY <1>5 DEF CloseImage
  <2>. HIDE DEF x
  <2>4. Front(tables[n]) \o <<x>> \in Seq(Images) /\ Front(tables[n]) \o <<x>> # <<>>
    BY <2>1, <2>2, LastReplaced
  <2>. QED
    BY <2>3, <2>4, <1>5 DEF TablesTyped
<1>6. ASSUME n \notin DOMAIN tables PROVE \A r : CloseImage(n, r) = tables
  BY <1>6 DEF CloseImage
<1>. QED
  BY <1>4, <1>5, <1>6

LEMMA PicksLevel == \A v : PickLevel(v) \in 0..2
  BY DEF PickLevel

(* The fields of the records.                                              *)
LEMMA EditFields ==
  ASSUME NEW e \in Edits
  PROVE  /\ e.version \in Versions /\ e.logNumber \in Nat /\ e.nextFile \in Nat
         /\ e.lastSequence \in 0..MaxWrites /\ e.logNumber <= e.nextFile
         /\ \A t \in e.version : t.number \in Nat /\ t.level \in 0..2
  BY DEF Edits, Versions

LEMMA CounterFields ==
  ASSUME vset \in Counters
  PROVE  /\ vset.version \in Versions /\ vset.logNumber \in Nat /\ vset.manifest \in Nat
         /\ vset.nextFile \in Nat /\ vset.lastSequence \in 0..MaxWrites
         /\ \A t \in vset.version : t.number \in Nat /\ t.level \in 0..2
  BY DEF Counters, Versions

LEMMA InitTyped == Init => Typed
<1>. SUFFICES ASSUME Init PROVE Typed
  OBVIOUS
<1>. USE RecoveryAssumption
<1>1. FirstFree \in Nat /\ FirstFree >= 4 /\ FirstFree - 1 \in Nat /\ FirstFree - 2 \in Nat /\ MaxWrites \in Nat
  OBVIOUS
<1>2. /\ NoEdit \in Edits /\ [version |-> {}, logNumber |-> FirstFree - 1, nextFile |-> FirstFree, lastSequence |-> 0] \in Edits
      /\ vset \in Counters
  BY <1>1 DEF Init, NoEdit, Edits, Counters, Versions
<1>3. FilesTyped
  BY <1>1, <1>2 DEF Init, FilesTyped, ManifestsTyped, LogsTyped, TablesTyped
<1>4. ProcessTyped
  BY <1>1, <1>2 DEF Init, ProcessTyped
<1>5. Control
  BY <1>1, <1>2 DEF Init, Control
<1>. QED
  BY <1>3, <1>4, <1>5 DEF Typed

LEMMA LogRecordTyped == Typed /\ LogRecord => Typed'
<1>. SUFFICES ASSUME Typed, LogRecord PROVE Typed'
  OBVIOUS
<1>. USE DEF Typed
<1>1. MaxWrites \in Nat /\ vset.lastSequence \in 0..MaxWrites
  BY RecoveryAssumption, CounterFields DEF ProcessTyped
<1>2. vset.lastSequence + 1 \in 1..MaxWrites
  BY <1>1 DEF LogRecord
<1>3. FilesTyped'
  <2>1. logFileNumber \in DOMAIN logs /\ logs[logFileNumber] \in Seq(1..MaxWrites)
    BY DEF LogRecord, Control, FilesTyped, LogsTyped
  <2>2. Append(logs[logFileNumber], vset.lastSequence + 1) \in Seq(1..MaxWrites)
    BY <1>2, <2>1, RecordsOf
  <2>3. LogsTyped(logs')
    BY <2>1, <2>2 DEF LogRecord, FilesTyped, LogsTyped
  <2>. QED
    BY <2>3 DEF LogRecord, FilesTyped
<1>4. DOMAIN logs' = DOMAIN logs /\ UNCHANGED <<process, acked>>
  BY DEF LogRecord, Control
<1>. QED
  BY <1>3, <1>4 DEF process, ProcessTyped, Control

LEMMA AcknowledgeTyped == Typed /\ Acknowledge => Typed'
<1>. SUFFICES ASSUME Typed, Acknowledge PROVE Typed'
  OBVIOUS
<1>. USE DEF Typed
<1>1. logFileNumber \in DOMAIN logs /\ logs[logFileNumber] \in Seq(1..MaxWrites)
  BY DEF Acknowledge, Control, FilesTyped, LogsTyped
<1>2. vset.lastSequence + 1 \in 1..MaxWrites
  BY <1>1, RecordsOf DEF Acknowledge
<1>3. /\ vset' \in Counters /\ vset'.logNumber = vset.logNumber /\ vset'.nextFile = vset.nextFile
  BY <1>2 DEF Acknowledge, ProcessTyped, Counters
<1>4. UNCHANGED <<current, manifests, logs, tables, pc, task, immtable, logFileNumber, edit, out, todo>>
  BY DEF Acknowledge, disk
<1>5. FilesTyped'
  BY <1>4 DEF FilesTyped, LogsTyped, ManifestsTyped, TablesTyped
<1>6. ProcessTyped'
  BY <1>2, <1>3, <1>4, RecoveryAssumption DEF ProcessTyped, Acknowledge
<1>7. Control'
  BY <1>3, <1>4 DEF Control, Acknowledge
<1>. QED
  BY <1>5, <1>6, <1>7

LEMMA SwitchMemtableTyped == Typed /\ SwitchMemtable => Typed'
<1>. SUFFICES ASSUME Typed, SwitchMemtable PROVE Typed'
  OBVIOUS
<1>. USE DEF Typed
<1>1. vset.nextFile \in Nat /\ vset.logNumber \in Nat /\ logFileNumber \in Nat
  BY CounterFields DEF ProcessTyped
<1>2. /\ vset' \in Counters /\ vset'.logNumber = vset.logNumber /\ vset'.nextFile = vset.nextFile + 1
  BY <1>1 DEF SwitchMemtable, ProcessTyped, Counters
<1>3. LogsTyped(logs') /\ DOMAIN logs' = DOMAIN logs \cup {vset.nextFile}
  BY <1>1, FilesPut DEF SwitchMemtable, FilesTyped, Put
<1>4. FilesTyped'
  BY <1>3 DEF SwitchMemtable, FilesTyped
<1>5. ProcessTyped'
  BY <1>1, <1>2, <1>3 DEF ProcessTyped, SwitchMemtable
<1>6. Control'
  BY <1>1, <1>2, <1>3, EditFields DEF Control, SwitchMemtable, ProcessTyped
<1>. QED
  BY <1>4, <1>5, <1>6

LEMMA StartFlushTyped == Typed /\ StartFlush => Typed'
<1>. SUFFICES ASSUME Typed, StartFlush PROVE Typed'
  OBVIOUS
<1>. USE DEF Typed
<1>1. vset.nextFile \in Nat /\ vset.logNumber \in Nat /\ logFileNumber \in Nat
  BY CounterFields DEF ProcessTyped
<1>2. /\ vset' \in Counters /\ vset'.logNumber = vset.logNumber /\ vset'.nextFile = vset.nextFile + 1
  BY <1>1 DEF StartFlush, ProcessTyped, Counters
<1>3. TablesTyped(tables')
  BY <1>1, ImagesPut DEF StartFlush, FilesTyped
<1>4. FilesTyped'
  BY <1>3 DEF StartFlush, FilesTyped
<1>5. ProcessTyped'
  BY <1>1, <1>2 DEF ProcessTyped, StartFlush
<1>6. Control'
  BY <1>1, <1>2 DEF Control, StartFlush
<1>. QED
  BY <1>4, <1>5, <1>6

LEMMA BuildFlushTableTyped == Typed /\ BuildFlushTable => Typed'
<1>. SUFFICES ASSUME Typed, BuildFlushTable PROVE Typed'
  OBVIOUS
<1>. USE DEF Typed
<1>1. out \in Nat /\ immtable \in SUBSET (1..MaxWrites) /\ logFileNumber \in Nat
  BY DEF ProcessTyped
<1>2. TablesTyped(tables')
  BY <1>1, ImagesPut DEF BuildFlushTable, FilesTyped
<1>3. FilesTyped'
  BY <1>2 DEF BuildFlushTable, FilesTyped
<1>4. edit' \in Edits /\ edit'.logNumber = logFileNumber
  <2>1. logFileNumber <= vset.nextFile /\ vset.nextFile \in Nat /\ vset.lastSequence \in 0..MaxWrites
    BY <1>1, CounterFields DEF BuildFlushTable, ProcessTyped, Control
  <2>2. vset.version \cup {[number |-> out, level |-> PickLevel(vset.version)]} \in Versions
    BY <1>1, CounterFields, PicksLevel DEF Versions, ProcessTyped
  <2>. QED
    BY <1>1, <2>1, <2>2 DEF BuildFlushTable, FlushEdit, Edits
<1>5. ProcessTyped'
  BY <1>4 DEF ProcessTyped, BuildFlushTable
<1>6. Control'
  BY <1>1, <1>4 DEF Control, BuildFlushTable
<1>. QED
  BY <1>3, <1>5, <1>6

LEMMA AppendEditTyped == Typed /\ AppendEdit => Typed'
<1>. SUFFICES ASSUME Typed, AppendEdit PROVE Typed'
  OBVIOUS
<1>. USE DEF Typed
<1>1. \A n \in DOMAIN manifests : manifests[n].version \in Versions
  BY EditFields DEF FilesTyped, ManifestsTyped
<1>2. WithSnapshot \in Edits
  <2>. DEFINE before == IF vset.manifest \in DOMAIN manifests THEN manifests[vset.manifest].version ELSE {}
  <2>1. before \in Versions
    BY <1>1 DEF Versions
  <2>2. WithSnapshot = [edit EXCEPT !.version = edit.version \cup vset.version \cup before]
    BY DEF WithSnapshot, Edits, ProcessTyped
  <2>. HIDE DEF before
  <2>3. edit.version \cup vset.version \cup before \in Versions
    BY <2>1, EditFields, CounterFields DEF ProcessTyped, Versions
  <2>. QED
    BY <2>2, <2>3 DEF Edits, ProcessTyped
<1>3. FilesTyped'
  BY <1>2, FilesPut, CounterFields DEF AppendEdit, FilesTyped, ProcessTyped
<1>4. ProcessTyped' /\ Control'
  BY DEF ProcessTyped, Control, AppendEdit
<1>. QED
  BY <1>3, <1>4

LEMMA TruncateCurrentTyped == Typed /\ TruncateCurrent => Typed'
  BY DEF Typed, FilesTyped, ProcessTyped, Control, TruncateCurrent,
     ManifestsTyped, LogsTyped, TablesTyped

LEMMA WriteCurrentTyped == Typed /\ WriteCurrent => Typed'
<1>. SUFFICES ASSUME Typed, WriteCurrent PROVE Typed'
  OBVIOUS
<1>. USE DEF Typed
<1>1. /\ vset' \in Counters /\ vset'.logNumber = edit.logNumber /\ vset'.nextFile = vset.nextFile
  BY EditFields DEF WriteCurrent, ProcessTyped, Counters
<1>2. FilesTyped'
  BY CounterFields DEF WriteCurrent, FilesTyped, ProcessTyped
<1>3. ProcessTyped'
  BY <1>1 DEF ProcessTyped, WriteCurrent
<1>4. Control'
  <2>1. edit.logNumber <= vset.nextFile
    <3>1. edit.logNumber \in Nat /\ logFileNumber \in Nat /\ vset.nextFile \in Nat
      BY EditFields, CounterFields DEF ProcessTyped
    <3>. QED
      BY <3>1 DEF Control, WriteCurrent
  <2>. QED
    BY <1>1, <2>1 DEF Control, WriteCurrent
<1>. QED
  BY <1>2, <1>3, <1>4

LEMMA DeleteObsoleteTyped == Typed /\ DeleteObsolete => Typed'
<1>. SUFFICES ASSUME Typed, DeleteObsolete PROVE Typed'
  OBVIOUS
<1>. USE DEF Typed
<1>1. /\ UNCHANGED <<current, process, acked>>
      /\ manifests' = manifests \/ \E n : manifests' = Restrict(manifests, DOMAIN manifests \ {n})
      /\ logs' = logs \/ \E n \in OldLogs : logs' = Restrict(logs, DOMAIN logs \ {n})
      /\ tables' = tables \/ \E n : tables' = Restrict(tables, DOMAIN tables \ {n})
  BY DEF DeleteObsolete
<1>2. FilesTyped'
  <2>1. ManifestsTyped(manifests')
    BY <1>1, FilesUnlinked DEF FilesTyped, ManifestsTyped
  <2>2. LogsTyped(logs')
    BY <1>1, FilesUnlinked DEF FilesTyped, LogsTyped
  <2>3. TablesTyped(tables')
    BY <1>1, FilesUnlinked DEF FilesTyped, TablesTyped
  <2>. QED
    BY <1>1, <2>1, <2>2, <2>3 DEF FilesTyped
<1>3. logFileNumber \in DOMAIN logs /\ vset.logNumber <= logFileNumber /\ todo = {}
  BY DEF DeleteObsolete, Control
<1>4. logFileNumber \in DOMAIN logs'
  <2>1. logFileNumber \notin OldLogs
    BY <1>3, CounterFields DEF OldLogs, ProcessTyped
  <2>. QED
    BY <1>1, <1>3, <2>1 DEF Restrict
<1>5. ProcessTyped' /\ Control'
  BY <1>1, <1>3, <1>4 DEF process, ProcessTyped, Control
<1>. QED
  BY <1>2, <1>5

LEMMA FinishTyped == Typed /\ Finish => Typed'
<1>. SUFFICES ASSUME Typed, Finish PROVE Typed'
  OBVIOUS
<1>. USE DEF Typed
<1>1. NoEdit \in Edits
  BY RecoveryAssumption DEF NoEdit, Edits, Versions
<1>2. UNCHANGED <<current, manifests, logs, tables>>
  BY DEF Finish, disk
<1>3. FilesTyped'
  BY <1>2 DEF FilesTyped, ManifestsTyped, LogsTyped, TablesTyped
<1>4. ProcessTyped' /\ Control'
  BY <1>1, <1>2 DEF Finish, ProcessTyped, Control
<1>. QED
  BY <1>3, <1>4

LEMMA CrashTyped == Typed /\ Crash => Typed'
<1>. SUFFICES ASSUME Typed, Crash PROVE Typed'
  OBVIOUS
<1>. USE DEF Typed
<1>1. NoEdit \in Edits /\ vset' \in Counters
  BY RecoveryAssumption DEF Crash, NoEdit, Edits, Versions, Counters
<1>2. UNCHANGED <<current, manifests, logs, tables>>
  BY DEF Crash, disk
<1>3. FilesTyped'
  BY <1>2 DEF FilesTyped, ManifestsTyped, LogsTyped, TablesTyped
<1>4. ProcessTyped' /\ Control'
  BY <1>1, <1>2 DEF Crash, ProcessTyped, Control
<1>. QED
  BY <1>3, <1>4

LEMMA RefuseTyped == Typed /\ Refuse => Typed'
  BY DEF Typed, FilesTyped, ProcessTyped, Control, Refuse, ManifestsTyped,
     LogsTyped, TablesTyped, disk

LEMMA OpenTyped == Typed /\ Open => Typed'
<1>. SUFFICES ASSUME Typed, Open PROVE Typed'
  OBVIOUS
<1>. USE DEF Typed
<1>1. PICK s \in Edits : s = manifests[current]
  BY DEF Open, FilesTyped, ManifestsTyped
<1>2. vset' = Recovered(s) /\ edit' = [NoEdit EXCEPT !.version = s.version]
  BY <1>1 DEF Open
<1>3. vset' \in Counters /\ edit' \in Edits
  BY <1>2, EditFields, RecoveryAssumption DEF Recovered, NoEdit, Counters,
     Edits
<1>4. UNCHANGED <<current, manifests, logs, tables>>
  BY DEF Open, disk
<1>5. FilesTyped'
  BY <1>4 DEF FilesTyped, ManifestsTyped, LogsTyped, TablesTyped
<1>6. vset'.logNumber <= vset'.nextFile
  <2>1. s.logNumber \in Nat /\ s.nextFile \in Nat /\ s.logNumber <= s.nextFile
    BY EditFields
  <2>. QED
    BY <1>2, <2>1 DEF Recovered
<1>7. ProcessTyped' /\ Control'
  BY <1>3, <1>4, <1>6 DEF Open, ProcessTyped, Control
<1>. QED
  BY <1>5, <1>7

LEMMA MarkTyped ==
  ASSUME vset \in Counters, NEW n \in Nat
  PROVE  /\ MarkFileNumberUsed(vset, n) \in Counters
         /\ MarkFileNumberUsed(vset, n) =
              [vset EXCEPT !.nextFile = IF vset.nextFile <= n THEN n + 1 ELSE vset.nextFile]
         /\ MarkFileNumberUsed(vset, n).logNumber = vset.logNumber
         /\ vset.logNumber <= vset.nextFile =>
              vset.logNumber <= MarkFileNumberUsed(vset, n).nextFile
  BY DEF MarkFileNumberUsed, Counters

LEMMA ReplayLogTyped == Typed /\ ReplayLog => Typed'
<1>. SUFFICES ASSUME Typed, ReplayLog PROVE Typed'
  OBVIOUS
<1>. USE DEF Typed
<1>1. PICK n \in First(todo) :
        \/ /\ logs[n] = <<>>
           /\ vset' = MarkFileNumberUsed(vset, n)
           /\ todo' = todo \ {n}
           /\ UNCHANGED <<tables, memtable, out, task>>
        \/ /\ logs[n] # <<>>
           /\ memtable' = ToSet(logs[n])
           /\ out' = vset.nextFile
           /\ tables' = OpenImage(vset.nextFile)
           /\ vset' = [vset EXCEPT !.nextFile = @ + 1]
           /\ task' = "table"
           /\ UNCHANGED todo
  BY DEF ReplayLog
<1>2. n \in DOMAIN logs /\ n \in Nat /\ logs[n] \in Seq(1..MaxWrites)
  BY DEF First, ProcessTyped, FilesTyped, LogsTyped
<1>3. UNCHANGED <<current, manifests, logs, pc, immtable, logFileNumber, edit, acked>> /\ task = "replay"
  BY DEF ReplayLog
<1>4. vset.nextFile \in Nat
  BY CounterFields DEF ProcessTyped
<1>5. CASE logs[n] = <<>>
  <2>1. /\ vset' \in Counters /\ UNCHANGED <<tables, memtable, out, task>> /\ todo' \subseteq todo
        /\ vset'.logNumber <= vset'.nextFile
    BY <1>1, <1>2, <1>5, MarkTyped DEF ProcessTyped, Control
  <2>2. FilesTyped'
    BY <1>3, <2>1 DEF FilesTyped
  <2>. QED
    BY <1>3, <2>1, <2>2 DEF ProcessTyped, Control
<1>6. CASE logs[n] # <<>>
  <2>1. /\ memtable' = ToSet(logs[n]) /\ out' = vset.nextFile /\ tables' = OpenImage(vset.nextFile)
        /\ vset' = [vset EXCEPT !.nextFile = @ + 1] /\ task' = "table" /\ UNCHANGED todo
    BY <1>1, <1>6
  <2>2. memtable' \in SUBSET (1..MaxWrites) /\ memtable' # {}
    BY <1>2, <1>6, <2>1, RecordsOf
  <2>3. vset' \in Counters /\ vset'.logNumber <= vset'.nextFile
    <3>1. vset.logNumber \in Nat /\ vset.logNumber <= vset.nextFile
      BY CounterFields DEF ProcessTyped, Control
    <3>. QED
      BY <1>4, <2>1, <3>1 DEF ProcessTyped, Counters
  <2>4. FilesTyped'
    BY <1>3, <1>4, <2>1, ImagesPut DEF FilesTyped
  <2>5. pc = "recovering"
    BY <1>3 DEF Control, ProcessTyped
  <2>. QED
    BY <1>3, <1>4, <2>1, <2>2, <2>3, <2>4, <2>5 DEF ProcessTyped, Control
<1>. QED
  BY <1>5, <1>6

LEMMA FinishReplayTyped == Typed /\ FinishReplay => Typed'
<1>. SUFFICES ASSUME Typed, FinishReplay PROVE Typed'
  OBVIOUS
<1>. USE DEF Typed
<1>1. PICK n \in First(todo) : vset' = MarkFileNumberUsed(vset, n) /\ todo' = todo \ {n}
  BY DEF FinishReplay
<1>2. n \in DOMAIN logs /\ n \in Nat
  BY DEF First, ProcessTyped, FilesTyped, LogsTyped
<1>3. vset' \in Counters /\ vset'.logNumber <= vset'.nextFile
  BY <1>1, <1>2, MarkTyped DEF ProcessTyped, Control
<1>4. memtable \in SUBSET (1..MaxWrites) /\ Max(memtable) \in 0..MaxWrites /\ out \in Nat
  <2>1. memtable # {} /\ memtable \in SUBSET (1..MaxWrites) /\ out \in Nat
    BY DEF FinishReplay, Control, ProcessTyped
  <2>2. Max(memtable) \in memtable
    BY <2>1, WritesAreFinite
  <2>3. \A x \in 1..MaxWrites : x \in 0..MaxWrites
    BY RecoveryAssumption
  <2>. QED
    BY <2>1, <2>2, <2>3
<1>5. edit' \in Edits
  <2>1. /\ edit' = [edit EXCEPT !.version = edit.version \cup {[number |-> out, level |-> 0]},
                               !.lastSequence = Max({edit.lastSequence, Max(memtable)})]
        /\ edit \in Edits /\ out \in Nat
    BY DEF FinishReplay, ProcessTyped, Edits
  <2>2. Max({edit.lastSequence, Max(memtable)}) \in 0..MaxWrites
    BY <1>4, <2>1, EditFields, GreaterOf
  <2>3. edit.version \cup {[number |-> out, level |-> 0]} \in Versions
    BY <2>1 DEF Edits, Versions
  <2>. HIDE DEF Versions
  <2>. QED
    BY <2>1, <2>2, <2>3 DEF Edits
<1>6. TablesTyped(tables')
  BY <1>4, ImagesPut DEF FinishReplay, FilesTyped
<1>7. UNCHANGED <<current, manifests, logs, pc, immtable, logFileNumber, acked>>
  BY DEF FinishReplay
<1>8. FilesTyped'
  BY <1>6, <1>7 DEF FilesTyped
<1>9. ProcessTyped'
  BY <1>1, <1>3, <1>5, <1>7 DEF FinishReplay, ProcessTyped
<1>10. Control'
  BY <1>3, <1>7 DEF FinishReplay, Control
<1>. QED
  BY <1>8, <1>9, <1>10

LEMMA NewLogTyped == Typed /\ NewLog => Typed'
<1>. SUFFICES ASSUME Typed, NewLog PROVE Typed'
  OBVIOUS
<1>. USE DEF Typed
<1>1. /\ vset.nextFile \in Nat /\ vset.logNumber \in Nat /\ RecoveredSequence \in 0..MaxWrites
      /\ edit.version \in Versions
  BY CounterFields, EditFields, GreaterOf DEF ProcessTyped, RecoveredSequence
<1>. HIDE DEF RecoveredSequence
<1>2. /\ logs' = Put(logs, vset.nextFile, <<>>) /\ logFileNumber' = vset.nextFile
      /\ vset' = [vset EXCEPT !.nextFile = vset.nextFile + 1, !.lastSequence = RecoveredSequence]
      /\ edit' = [version |-> edit.version, logNumber |-> vset.nextFile,
                  nextFile |-> vset.nextFile + 1, lastSequence |-> RecoveredSequence]
      /\ task = "replay" /\ task' = "append" /\ todo = {}
      /\ UNCHANGED <<current, manifests, tables, pc, memtable, immtable, out, todo, acked>>
  BY DEF NewLog
<1>3. /\ vset' \in Counters /\ vset'.logNumber = vset.logNumber /\ vset'.nextFile = vset.nextFile + 1
  <2>1. vset.nextFile + 1 \in Nat /\ vset \in Counters
    BY <1>1 DEF ProcessTyped
  <2>. QED
    BY <1>1, <1>2, <2>1 DEF Counters
<1>4. edit' \in Edits /\ edit'.logNumber = vset.nextFile
  BY <1>1, <1>2 DEF Edits
<1>5. FilesTyped' /\ DOMAIN logs' = DOMAIN logs \cup {vset.nextFile}
  <2>2. LogsTyped(logs')
    BY <1>1, <1>2, FilesPut DEF FilesTyped
  <2>. QED
    BY <1>2, <2>2 DEF FilesTyped, Put
<1>6. ProcessTyped'
  BY <1>1, <1>2, <1>3, <1>4 DEF ProcessTyped
<1>7. vset.logNumber <= vset.nextFile
  BY DEF Control
<1>8. Control'
  BY <1>1, <1>2, <1>3, <1>4, <1>5, <1>7 DEF Control
<1>. QED
  BY <1>5, <1>6, <1>8

LEMMA NextTyped == Typed /\ [Next]_vars => Typed'
<1>. SUFFICES ASSUME Typed, [Next]_vars PROVE Typed'
  OBVIOUS
<1>1. CASE UNCHANGED vars
  BY <1>1 DEF vars, Typed, FilesTyped, ProcessTyped, Control, ManifestsTyped,
     LogsTyped, TablesTyped
<1>2. CASE Next
  BY <1>2, LogRecordTyped, AcknowledgeTyped, SwitchMemtableTyped,
     StartFlushTyped, BuildFlushTableTyped, AppendEditTyped,
     TruncateCurrentTyped, WriteCurrentTyped, DeleteObsoleteTyped,
     FinishTyped, CrashTyped, RefuseTyped, OpenTyped, ReplayLogTyped,
     FinishReplayTyped, NewLogTyped DEF Next, Work
<1>. QED
  BY <1>1, <1>2

(* Type correctness, whatever the order in which logs are replayed and     *)
(* whatever a crash leaves behind.                                         *)
THEOREM TypeCorrect == Spec => []TypeOK
<1>1. Typed => TypeOK
  <2>. SUFFICES ASSUME Typed PROVE TypeOK
    OBVIOUS
  <2>1. vset.lastSequence \in 0..MaxWrites
    BY CounterFields DEF Typed, ProcessTyped
  <2>2. \A n \in DOMAIN tables : \A i \in 1..Len(tables[n]) :
          tables[n][i].recs \subseteq 1..MaxWrites /\ tables[n][i].whole \in BOOLEAN
    <3>. TAKE n \in DOMAIN tables
    <3>. TAKE i \in 1..Len(tables[n])
    <3>1. tables[n] \in Seq(Images)
      BY DEF Typed, FilesTyped, TablesTyped
    <3>2. tables[n][i] \in Images
      BY <3>1, ElementOfSeq
    <3>. QED
      BY <3>2 DEF Images
  <2>. QED
    BY <2>1, <2>2 DEF Typed, FilesTyped, ProcessTyped, Control, LogsTyped,
       TypeOK
<1>. QED
  BY <1>1, InitTyped, NextTyped, PTL DEF Spec
-----------------------------------------------------------------------------
(* What is on disk: functions of the manifests M, the logs L and the       *)
(* tables T.                                                               *)

Held(T, n) == Last(T[n]).recs

(* An image that was begun, whether it is under way or was left torn.      *)
Begun == [recs |-> {}, whole |-> FALSE]

(* The last image is complete, and the others are the same or torn.        *)
Complete(T, n) == n \in DOMAIN T /\ Last(T[n]).whole = TRUE

Settled(T, n) ==
  /\ Complete(T, n) /\ Held(T, n) # {}
  /\ \A i \in 1..Len(T[n]) : T[n][i] \in {Begun, Last(T[n])}

Newer(t, u) == t.level < u.level \/ (t.level = u.level /\ t.number > u.number)
Above(s, r) == \A x \in s, y \in r : x > y

(* The tables of a version, and the order in which get searches them.      *)
Ordered(T, version) ==
  /\ \A t \in version : Settled(T, t.number)
  /\ \A t, u \in version : t # u => t.number # u.number /\ (Newer(t, u) \/ Newer(u, t))
  /\ \A t, u \in version : Newer(t, u) => Above(Held(T, t.number), Held(T, u.number))
  /\ version = {} \/ \E t \in version : \A u \in version \ {t} : Newer(t, u)

Covered(T, version) == UNION {Held(T, t.number) : t \in version}

Logged(L, n) == ToSet(L[n])
Filled(L, n) == n \in DOMAIN L /\ L[n] # <<>>
Live(L, s)   == {n \in DOMAIN L : n >= s.logNumber}

(* What is in the file of table t was made from the log n.                 *)
CopyOf(T, L, t, n) ==
  /\ Filled(L, n)
  /\ \A i \in 1..Len(T[t]) : T[t][i] \in {Begun, [recs |-> Logged(L, n), whole |-> TRUE]}

(* The tables that a recovery from s makes of its logs, and the version it *)
(* has when it has replayed the logs in done.                              *)
TableOfFirst(s)  == [number |-> s.nextFile + 1, level |-> 0]
TableOfSecond(s) == [number |-> s.nextFile + 2, level |-> 0]

Replayed(L, s, done) ==
  s.version \cup {t \in {TableOfFirst(s)}  : Filled(L, s.logNumber) /\ s.logNumber \in done}
            \cup {t \in {TableOfSecond(s)} : Filled(L, s.nextFile) /\ s.nextFile \in done}

(* The numbers that s accounts for.                                        *)
Marked(c, s) ==
  /\ c < s.nextFile /\ s.logNumber < s.nextFile
  /\ \A t \in s.version : t.number < s.nextFile /\ t.number # c

(* Files of other numbers are those of recoveries from s that crashed, and *)
(* the next one makes the same again.                                      *)
Orphans(T, L, s) ==
  \A t \in DOMAIN T :
    \/ t < s.nextFile
    \/ t = s.nextFile + 1 /\ CopyOf(T, L, t, s.logNumber)
    \/ t = s.nextFile + 2 /\ CopyOf(T, L, t, s.nextFile)

Attempts(M, L, c, s) ==
  \A m \in DOMAIN M :
    m <= c \/ (m = s.nextFile /\ M[m].version = Replayed(L, s, DOMAIN L))

(* The tables of s, and the logs that are to be replayed: the one in use   *)
(* when s was written, and one more.                                       *)
Tabled(T, s) ==
  Ordered(T, s.version) /\ \A x \in Covered(T, s.version) : x <= s.lastSequence

Logging(T, L, s) ==
  /\ s.logNumber \in DOMAIN L
  /\ \A n \in DOMAIN L : n < s.logNumber => \A x \in Logged(L, n) : x <= s.lastSequence
  /\ \A n \in Live(L, s) : Filled(L, n) =>
       n = s.logNumber \/ (n = s.nextFile /\ Filled(L, s.logNumber))
  /\ \A n \in Live(L, s) : Above(Logged(L, n), Covered(T, s.version))
  /\ s.nextFile \in DOMAIN L => Above(Logged(L, s.nextFile), Logged(L, s.logNumber))

Durable(T, L, a, s) ==
  a = 0 \/ a \in Covered(T, s.version) \/ \E n \in Live(L, s) : a \in Logged(L, n)

OnDisk(M, T, L, a, c) ==
  /\ c \in DOMAIN M
  /\ Marked(c, M[c]) /\ Orphans(T, L, M[c]) /\ Attempts(M, L, c, M[c])
  /\ Tabled(T, M[c]) /\ Logging(T, L, M[c]) /\ Durable(T, L, a, M[c])
-----------------------------------------------------------------------------
LEMMA SettledReads ==
  ASSUME NEW T, TablesTyped(T), NEW n, Settled(T, n)
  PROVE  /\ Held(T, n) \in SUBSET (1..MaxWrites) /\ Held(T, n) # {}
         /\ Last(T[n]).whole
         /\ T[n][1] = Last(T[n]) \/ ~T[n][1].whole
<1>1. T[n] \in Seq(Images) /\ T[n] # <<>>
  BY DEF TablesTyped, Settled, Complete
<1>2. Len(T[n]) \in 1..Len(T[n]) /\ 1 \in 1..Len(T[n])
  BY <1>1, LenProperties, EmptySeq
<1>3. T[n][Len(T[n])] \in Images /\ Last(T[n]) = T[n][Len(T[n])]
  BY <1>1, <1>2, ElementOfSeq DEF Last
<1>4. PICK x : x = Last(T[n])
  OBVIOUS
<1>5. x \in Images /\ x.recs = Held(T, n) /\ x.whole = TRUE /\ Held(T, n) # {}
  BY <1>3, <1>4 DEF Settled, Complete, Held
<1>6. T[n][1] \in {Begun, x}
  BY <1>2, <1>4 DEF Settled, Complete
<1>7. ~Begun.whole
  BY DEF Begun
<1>. QED
  BY <1>4, <1>5, <1>6, <1>7 DEF Images

(* A reader finds the table, or a torn image in its place.                 *)
LEMMA SoundOrTorn ==
  ASSUME TablesTyped(tables), NEW n, Settled(tables, n)
  PROVE  Sound(n) \/ BehindTorn(n)
<1>1. n \in DOMAIN tables
  BY DEF Settled, Complete
<1>. QED
  BY <1>1, SettledReads DEF Sound, BehindTorn

LEMMA SameTables ==
  ASSUME NEW T, NEW U, NEW v, Ordered(T, v),
         \A t \in v : t.number \in DOMAIN U /\ U[t.number] = T[t.number]
  PROVE  Ordered(U, v) /\ Covered(U, v) = Covered(T, v)
<1>1. \A t \in v : Held(U, t.number) = Held(T, t.number)
  BY DEF Held
<1>2. \A t \in v : Settled(U, t.number)
  BY <1>1 DEF Ordered, Settled, Complete
<1>3. Ordered(U, v)
  BY <1>1, <1>2 DEF Ordered
<1>4. {Held(U, t.number) : t \in v} = {Held(T, t.number) : t \in v}
  BY <1>1
<1>. QED
  BY <1>3, <1>4 DEF Covered

LEMMA CoveredBy ==
  ASSUME NEW T, NEW v, NEW x
  PROVE  x \in Covered(T, v) <=> \E t \in v : x \in Held(T, t.number)
  BY DEF Covered

(* A table on top of all the others.                                       *)
LEMMA OneMoreTable ==
  ASSUME NEW T, NEW v \in Versions, Ordered(T, v), NEW t \in [number : Nat, level : 0..2],
         Settled(T, t.number), Above(Held(T, t.number), Covered(T, v)),
         \A u \in v : t.number > u.number /\ t.level <= u.level /\ (t.level = u.level => t.level = 0)
  PROVE  Ordered(T, v \cup {t}) /\ Covered(T, v \cup {t}) = Covered(T, v) \cup Held(T, t.number)
<1>1. \A u \in v : u.number \in Nat /\ u.level \in 0..2
  BY DEF Versions
<1>2. t.number \in Nat /\ t.level \in 0..2
  OBVIOUS
<1>3. \A u \in v : Newer(t, u) /\ ~Newer(u, t) /\ t.number # u.number
  BY <1>1, <1>2 DEF Newer
<1>4. \A u \in v : Above(Held(T, t.number), Held(T, u.number))
  BY CoveredBy DEF Above
<1>5. ~Newer(t, t)
  BY <1>2 DEF Newer
<1>6. Ordered(T, v \cup {t})
  BY <1>3, <1>4, <1>5 DEF Ordered
<1>. QED
  BY <1>6 DEF Covered
-----------------------------------------------------------------------------
(* The inductive invariant.                                                *)
Disk(c) == OnDisk(manifests, tables, logs, acked, c)

(* What an open database holds in memory, against its logs and tables.     *)
MemoryInv ==
  LET w == vset.lastSequence + 1 IN
  /\ memtable \subseteq Logged(logs, logFileNumber)
  /\ Logged(logs, logFileNumber) \subseteq memtable \cup {w}
  /\ w \in Logged(logs, logFileNumber) => Cardinality(memtable) <= WriteBuffer
  /\ \A n \in DOMAIN logs : \A x \in Logged(logs, n) : x < w \/ (x = w /\ n = logFileNumber)
  /\ \A x \in memtable \cup immtable \cup Covered(tables, vset.version) : x < w
  /\ Ordered(tables, vset.version)
  /\ Above(memtable, immtable) /\ Above(memtable, Covered(tables, vset.version))
  /\ Above(immtable, Covered(tables, vset.version))
  /\ acked < w
  /\ acked = 0 \/ acked \in memtable \cup immtable \cup Covered(tables, vset.version)

(* Between two flushes the counters are those of the manifest, up to the   *)
(* log of a second memtable.                                               *)
RestInv(s) ==
  /\ vset.version = s.version /\ vset.logNumber = s.logNumber
  /\ \A t \in DOMAIN tables : t < s.nextFile
  /\ immtable = {} => logFileNumber = s.logNumber /\ vset.nextFile = s.nextFile
  /\ immtable # {} => /\ immtable = Logged(logs, s.logNumber)
                      /\ logFileNumber = s.nextFile /\ vset.nextFile = s.nextFile + 1

(* A flush whose edit is not in the manifest.                              *)
BuildInv(s) ==
  /\ vset.version = s.version /\ vset.logNumber = s.logNumber
  /\ immtable # {} /\ immtable = Logged(logs, s.logNumber)
  /\ logFileNumber = s.nextFile /\ vset.nextFile = s.nextFile + 2
  /\ out = s.nextFile + 1 /\ out \in DOMAIN tables /\ Len(tables[out]) = 1
  /\ \A t \in DOMAIN tables : t <= out
  /\ task = "append" =>
       /\ tables[out] = <<[recs |-> immtable, whole |-> TRUE]>>
       /\ edit.version = s.version \cup {[number |-> out, level |-> PickLevel(s.version)]}
       /\ edit.logNumber = logFileNumber /\ edit.nextFile = vset.nextFile
       /\ \A x \in Covered(tables, s.version) : x <= edit.lastSequence
       /\ \A n \in DOMAIN logs \ {logFileNumber} : \A x \in Logged(logs, n) :
            x <= edit.lastSequence
       /\ edit.lastSequence <= vset.lastSequence

(* A flush whose edit is in the manifest, and not yet in memory.           *)
InstallInv(s) ==
  /\ edit = s /\ immtable # {}
  /\ Covered(tables, s.version) = immtable \cup Covered(tables, vset.version)
  /\ \A t \in DOMAIN tables : t < s.nextFile
  /\ logFileNumber = s.logNumber /\ vset.nextFile = s.nextFile

OpenInv(s) ==
  /\ current = IF task = "write" THEN 0 ELSE vset.manifest
  /\ Disk(vset.manifest)
  /\ \A m \in DOMAIN manifests : m <= vset.manifest
  /\ NumbersFresh
  /\ MemoryInv
  /\ task \in {"idle", "clean"} => RestInv(s)
  /\ task \in {"table", "append"} => BuildInv(s)
  /\ task \in {"truncate", "write"} => InstallInv(s)

(* A recovery that replays the logs of the state s, from the first on.     *)
ReplayInv(s) ==
  LET done == DOMAIN logs \ todo
      a    == s.logNumber
      b    == s.nextFile IN
  /\ vset.version = s.version /\ vset.logNumber = a /\ vset.manifest = b
  /\ \A n \in DOMAIN logs : n \in todo => n >= a
  /\ \A n \in DOMAIN logs : n < a => n \in done
  /\ \A m \in done, n \in todo : m < n
  /\ edit.version = Replayed(logs, s, done)
  /\ s.lastSequence <= vset.lastSequence
  /\ \A n \in done : n >= a => \A x \in Logged(logs, n) : x <= edit.lastSequence
  /\ vset.nextFile > b
  /\ \A n \in done : n >= a =>
       /\ n < vset.nextFile
       /\ Filled(logs, n) => b + 1 < vset.nextFile /\ Complete(tables, b + 1)
       /\ Filled(logs, n) /\ n = b => b + 2 < vset.nextFile /\ Complete(tables, b + 2)
  /\ task = "replay" =>
       /\ memtable = {}
       /\ Filled(logs, a) /\ a \in todo => vset.nextFile = b + 1
       /\ Filled(logs, b) /\ b \in todo /\ a \in done => vset.nextFile = b + 2
  /\ task = "table" =>
       \E n \in First(todo) :
         /\ memtable = Logged(logs, n) /\ Filled(logs, n)
         /\ out = b + (IF n = a THEN 1 ELSE 2)
         /\ vset.nextFile = out + 1
         /\ out \in DOMAIN tables

(* A recovery that has replayed them: the new log is there, and the edit   *)
(* that makes it the first.                                                *)
EditInv ==
  /\ memtable = {}
  /\ logFileNumber = edit.logNumber /\ logs[logFileNumber] = <<>>
  /\ edit.nextFile = logFileNumber + 1 /\ vset.nextFile = edit.nextFile
  /\ edit.lastSequence = vset.lastSequence
  /\ \A n \in DOMAIN logs : n <= logFileNumber
  /\ \A n \in DOMAIN logs : \A x \in Logged(logs, n) : x <= vset.lastSequence
  /\ \A t \in DOMAIN tables : t < logFileNumber
  /\ \A m \in DOMAIN manifests : m <= vset.manifest
  /\ vset.manifest < logFileNumber
  /\ \A t \in edit.version : t.number < logFileNumber /\ t.number # vset.manifest
  /\ Tabled(tables, edit)
  /\ acked = 0 \/ acked \in Covered(tables, edit.version)

(* Recovery hands its edit to logAndApply: all logs are in tables.          *)
HandInv(s) ==
  /\ edit.version = Replayed(logs, s, DOMAIN logs)
  /\ vset.version = s.version /\ vset.manifest = s.nextFile

RecoveryInv ==
  /\ immtable = {}
  /\ task \in {"replay", "table", "append", "truncate"} => Disk(current)
  /\ task \in {"replay", "table"} => \E s \in {manifests[current]} : ReplayInv(s)
  /\ task \in {"append", "truncate"} => \E s \in {manifests[current]} : HandInv(s)
  /\ task \in {"append", "truncate", "write", "clean"} => EditInv
  /\ task \in {"truncate", "write", "clean"} =>
       vset.manifest \in DOMAIN manifests /\ manifests[vset.manifest] = edit
  /\ task = "write" => current = 0
  /\ task = "clean" =>
       /\ current = vset.manifest
       /\ vset.version = edit.version /\ vset.logNumber = edit.logNumber

IInv ==
  /\ Typed /\ 0 \notin DOMAIN manifests
  /\ pc = "open" => \E s \in {manifests[vset.manifest]} : OpenInv(s)
  /\ pc = "recovering" => RecoveryInv
  /\ pc = "down" => memtable = {} /\ immtable = {} /\ (current # 0 => Disk(current))
  /\ pc = "broken" => current = 0
-----------------------------------------------------------------------------
(* An open database: where the log in use stands to the manifest.          *)
LEMMA Position ==
  ASSUME Typed, pc = "open", NEW s \in {manifests[vset.manifest]}, OpenInv(s)
  PROVE  /\ s \in Edits /\ s = manifests[vset.manifest] /\ vset.manifest \in DOMAIN manifests
         /\ s.logNumber \in Nat /\ s.nextFile \in Nat /\ s.logNumber < s.nextFile
         /\ s.lastSequence \in 0..MaxWrites
         /\ vset.lastSequence \in 0..MaxWrites /\ vset.nextFile \in Nat /\ vset.manifest \in Nat
         /\ logFileNumber \in DOMAIN logs /\ logFileNumber \in {s.logNumber, s.nextFile}
         /\ s.nextFile <= vset.nextFile
         /\ logFileNumber = s.nextFile =>
              immtable # {} /\ immtable = Logged(logs, s.logNumber) /\ s.nextFile < vset.nextFile
         /\ logFileNumber = s.logNumber => s.nextFile \notin DOMAIN logs
         /\ \A x \in Covered(tables, s.version) : x <= vset.lastSequence
         /\ \A t \in DOMAIN tables :
              t < s.nextFile \/ (t = s.nextFile + 1 /\ logFileNumber = s.nextFile)
<1>. USE DEF Typed
<1>1. task \in {"idle", "clean", "table", "append", "truncate", "write"}
  BY DEF ProcessTyped, Control
<1>2. /\ RestInv(s) \/ BuildInv(s) \/ InstallInv(s)
      /\ OnDisk(manifests, tables, logs, acked, vset.manifest)
  BY <1>1 DEF OpenInv, Disk
<1>3. s = manifests[vset.manifest] /\ vset.manifest \in DOMAIN manifests
  BY <1>2 DEF OnDisk
<1>4. s \in Edits
  BY <1>3 DEF FilesTyped, ManifestsTyped
<1>5. /\ s.logNumber \in Nat /\ s.nextFile \in Nat /\ s.logNumber < s.nextFile
      /\ s.lastSequence \in 0..MaxWrites
  BY <1>2, <1>3, <1>4, EditFields DEF OnDisk, Marked
<1>6. /\ vset.lastSequence \in 0..MaxWrites /\ vset.nextFile \in Nat /\ vset.manifest \in Nat
      /\ logFileNumber \in DOMAIN logs
  BY CounterFields DEF ProcessTyped, Control
<1>7. /\ logFileNumber \in {s.logNumber, s.nextFile}
      /\ logFileNumber = s.nextFile =>
           immtable # {} /\ immtable = Logged(logs, s.logNumber) /\ s.nextFile < vset.nextFile
      /\ logFileNumber = s.logNumber => vset.nextFile = s.nextFile
      /\ s.nextFile <= vset.nextFile
  BY <1>2, <1>5, <1>6 DEF RestInv, BuildInv, InstallInv
<1>8. logFileNumber = s.logNumber => s.nextFile \notin DOMAIN logs
  <2>1. \A n \in DOMAIN logs : n \in Nat /\ n < vset.nextFile
    BY DEF OpenInv, NumbersFresh, FilesTyped, LogsTyped
  <2>. QED
    BY <1>5, <1>7, <2>1
<1>9. \A x \in Covered(tables, s.version) : x <= vset.lastSequence
  <2>1. \A x \in immtable \cup Covered(tables, vset.version) : x < vset.lastSequence + 1
    BY DEF OpenInv, MemoryInv
  <2>2. Covered(tables, s.version) \subseteq immtable \cup Covered(tables, vset.version)
    BY <1>2 DEF RestInv, BuildInv, InstallInv
  <2>3. Tabled(tables, s)
    BY <1>2, <1>3 DEF OnDisk
  <2>4. \A x \in Covered(tables, s.version) : x \in 1..MaxWrites
    BY <2>3, SettledReads, CoveredBy DEF Tabled, Ordered, FilesTyped
  <2>. QED
    BY <1>6, <2>1, <2>2, <2>4
<1>10. \A t \in DOMAIN tables :
         t < s.nextFile \/ (t = s.nextFile + 1 /\ logFileNumber = s.nextFile)
  <2>1. \A t \in DOMAIN tables : t \in Nat
    BY DEF FilesTyped, TablesTyped
  <2>2. CASE BuildInv(s)
    <3>1. \A t \in DOMAIN tables : t <= s.nextFile + 1
      BY <2>2 DEF BuildInv
    <3>2. logFileNumber = s.nextFile
      BY <2>2 DEF BuildInv
    <3>3. s.nextFile \notin DOMAIN tables
      BY <1>6, <3>2 DEF OpenInv, NumbersFresh
    <3>. QED
      BY <1>5, <2>1, <3>1, <3>2, <3>3
  <2>. QED
    BY <1>2, <2>2 DEF RestInv, InstallInv
<1>. QED
  BY <1>3, <1>4, <1>5, <1>6, <1>7, <1>8, <1>9, <1>10

(* One record more in the log in use.                                      *)
LEMMA LogRecordKeeps == IInv /\ LogRecord => IInv'
<1>. SUFFICES ASSUME IInv, LogRecord PROVE IInv'
  OBVIOUS
<1>. DEFINE w == vset.lastSequence + 1
            g == logFileNumber
<1>1. Typed /\ Typed' /\ pc = "open"
  BY LogRecordTyped DEF IInv, LogRecord
<1>2. PICK s \in {manifests[vset.manifest]} : OpenInv(s)
  BY <1>1 DEF IInv
<1>3. /\ s \in Edits /\ s = manifests[vset.manifest] /\ vset.manifest \in DOMAIN manifests
      /\ s.logNumber \in Nat /\ s.nextFile \in Nat /\ s.logNumber < s.nextFile
      /\ vset.lastSequence \in 0..MaxWrites
      /\ g \in DOMAIN logs /\ g \in {s.logNumber, s.nextFile}
      /\ g = s.nextFile => immtable # {} /\ immtable = Logged(logs, s.logNumber)
      /\ g = s.logNumber => s.nextFile \notin DOMAIN logs
      /\ \A x \in Covered(tables, s.version) : x <= vset.lastSequence
      /\ \A t \in DOMAIN tables : t < s.nextFile \/ (t = s.nextFile + 1 /\ g = s.nextFile)
  BY <1>1, <1>2, Position
<1>4. /\ UNCHANGED <<current, manifests, tables, pc, task, vset, memtable, immtable,
                     logFileNumber, edit, out, todo, acked>>
      /\ w \notin Logged(logs, g) /\ Cardinality(memtable) <= WriteBuffer
      /\ logs' = [logs EXCEPT ![g] = Append(logs[g], w)]
  BY DEF LogRecord, process, Logged
<1>5. /\ DOMAIN logs' = DOMAIN logs
      /\ Logged(logs', g) = Logged(logs, g) \cup {w} /\ logs'[g] # <<>>
      /\ \A n \in DOMAIN logs : n # g => Logged(logs', n) = Logged(logs, n) /\ logs'[n] = logs[n]
  <2>1. logs[g] \in Seq(1..MaxWrites) /\ w \in 1..MaxWrites
    <3>1. w <= MaxWrites
      BY <1>3, RecoveryAssumption DEF LogRecord
    <3>. QED
      BY <1>1, <1>3, <3>1, RecoveryAssumption DEF Typed, FilesTyped, LogsTyped
  <2>2. Append(logs[g], w) # <<>> /\ ToSet(Append(logs[g], w)) = ToSet(logs[g]) \cup {w}
    BY <2>1, RecordsOf
  <2>. HIDE DEF w
  <2>. QED
    BY <1>3, <1>4, <2>2 DEF Logged
<1>6. \A n \in DOMAIN logs : \A x \in Logged(logs, n) : x \in 1..MaxWrites /\ x < w
  <2>1. \A n \in DOMAIN logs : \A x \in Logged(logs, n) : x < w
    BY <1>2, <1>4 DEF OpenInv, MemoryInv
  <2>2. \A n \in DOMAIN logs : Logged(logs, n) \in SUBSET (1..MaxWrites)
    BY <1>1, RecordsOf DEF Typed, FilesTyped, LogsTyped, Logged
  <2>. QED
    BY <2>1, <2>2
<1>7. s.logNumber \in DOMAIN logs /\ OnDisk(manifests, tables, logs, acked, vset.manifest)
  BY <1>2, <1>3 DEF OpenInv, Disk, OnDisk, Logging
<1>8. Live(logs', s) = Live(logs, s) /\ \A n \in DOMAIN logs : Filled(logs, n) => Filled(logs', n)
  BY <1>5 DEF Live, Filled
<1>. HIDE DEF w, g
<1>9. OnDisk(manifests', tables', logs', acked', vset'.manifest)
  <2>1. Orphans(tables, logs', s)
    <3>1. \A t \in DOMAIN tables : t < s.nextFile
                                   \/ (t = s.nextFile + 1 /\ CopyOf(tables, logs', t, s.logNumber))
      <4>. SUFFICES ASSUME NEW t \in DOMAIN tables, ~(t < s.nextFile)
                    PROVE  t = s.nextFile + 1 /\ CopyOf(tables, logs', t, s.logNumber)
        OBVIOUS
      <4>1. t = s.nextFile + 1 /\ g = s.nextFile
        BY <1>3
      <4>2. CopyOf(tables, logs, t, s.logNumber)
        BY <1>3, <1>7, <4>1 DEF OnDisk, Orphans
      <4>3. logs'[s.logNumber] = logs[s.logNumber] /\ Logged(logs', s.logNumber) = Logged(logs, s.logNumber)
        BY <1>3, <1>5, <1>7, <4>1
      <4>. QED
        BY <1>5, <4>1, <4>2, <4>3 DEF CopyOf, Filled
    <3>. QED
      BY <3>1 DEF Orphans
  <2>2. Attempts(manifests, logs', vset.manifest, s)
    BY <1>2 DEF OpenInv, Attempts
  <2>3. Logging(tables, logs', s)
    <3>1. \A n \in DOMAIN logs' : n < s.logNumber => \A x \in Logged(logs', n) : x <= s.lastSequence
      BY <1>3, <1>5, <1>7 DEF OnDisk, Logging
    <3>2. \A n \in Live(logs', s) : Filled(logs', n) =>
            n = s.logNumber \/ (n = s.nextFile /\ Filled(logs', s.logNumber))
      <4>. TAKE n \in Live(logs', s)
      <4>. HAVE Filled(logs', n)
      <4>1. CASE n = g
        <5>. SUFFICES ASSUME g = s.nextFile PROVE Filled(logs', s.logNumber)
          BY <1>3, <4>1
        <5>1. Logged(logs, s.logNumber) # {}
          BY <1>3
        <5>2. logs[s.logNumber] # <<>>
          BY <5>1 DEF Logged, ToSet
        <5>. QED
          BY <1>3, <1>5, <1>7, <5>2 DEF Filled
      <4>2. CASE n # g
        <5>1. Filled(logs, n) /\ n \in Live(logs, s)
          BY <1>5, <1>8, <4>2 DEF Filled
        <5>. QED
          BY <1>3, <1>7, <1>8, <5>1 DEF OnDisk, Logging
      <4>. QED
        BY <4>1, <4>2
    <3>3. \A n \in Live(logs', s) : Above(Logged(logs', n), Covered(tables, s.version))
      <4>1. \A n \in Live(logs, s) : n \in DOMAIN logs /\ Above(Logged(logs, n), Covered(tables, s.version))
        BY <1>3, <1>7 DEF OnDisk, Logging, Live
      <4>2. \A y \in Covered(tables, s.version) : w > y
        <5>1. Tabled(tables, s)
          BY <1>3, <1>7 DEF OnDisk
        <5>2. \A y \in Covered(tables, s.version) : y \in 1..MaxWrites
          BY <1>1, <5>1, SettledReads, CoveredBy DEF Tabled, Ordered,
             FilesTyped, Typed
        <5>. QED
          BY <1>3, <5>2 DEF w
      <4>. QED
        BY <1>5, <1>8, <4>1, <4>2 DEF Above
    <3>4. s.nextFile \in DOMAIN logs' => Above(Logged(logs', s.nextFile), Logged(logs', s.logNumber))
      <4>. HAVE s.nextFile \in DOMAIN logs'
      <4>1. g = s.nextFile /\ s.logNumber # g
        BY <1>3, <1>5
      <4>2. Above(Logged(logs, s.nextFile), Logged(logs, s.logNumber))
        BY <1>3, <1>5, <1>7 DEF OnDisk, Logging
      <4>3. \A y \in Logged(logs, s.logNumber) : w > y
        BY <1>3, <1>6, <1>7 DEF w
      <4>. QED
        BY <1>5, <1>7, <4>1, <4>2, <4>3 DEF Above
    <3>. QED
      BY <1>5, <1>7, <3>1, <3>2, <3>3, <3>4 DEF Logging
  <2>4. Durable(tables, logs', acked, s)
    <3>1. \A n \in Live(logs, s) : Logged(logs, n) \subseteq Logged(logs', n)
      BY <1>5 DEF Live
    <3>. QED
      BY <1>3, <1>7, <1>8, <3>1 DEF OnDisk, Durable
  <2>. QED
    BY <1>3, <1>4, <1>7, <2>1, <2>2, <2>3, <2>4 DEF OnDisk
<1>10. NumbersFresh'
  BY <1>2, <1>4, <1>5 DEF OpenInv, NumbersFresh
<1>11. MemoryInv'
  BY <1>2, <1>3, <1>4, <1>5, <1>6 DEF OpenInv, MemoryInv, w, g
<1>12. RestInv(s) => RestInv(s)'
  BY <1>3, <1>4, <1>5, <1>7 DEF RestInv, g
<1>13. BuildInv(s) => BuildInv(s)'
  BY <1>3, <1>4, <1>5, <1>7 DEF BuildInv, g
<1>14. InstallInv(s) => InstallInv(s)'
  BY <1>4 DEF InstallInv
<1>15. OpenInv(s)'
  BY <1>2, <1>4, <1>9, <1>10, <1>11, <1>12, <1>13, <1>14 DEF OpenInv, Disk
<1>. QED
  BY <1>1, <1>3, <1>4, <1>15 DEF IInv

(* What is in memory, in logs and in tables are numbers of writes.         *)
LEMMA WritesTyped ==
  ASSUME Typed
  PROVE  /\ \A n \in DOMAIN logs : Logged(logs, n) \in SUBSET (1..MaxWrites)
         /\ \A n \in DOMAIN logs : n \in Nat /\ (Logged(logs, n) = {} <=> logs[n] = <<>>)
         /\ memtable \in SUBSET (1..MaxWrites) /\ immtable \in SUBSET (1..MaxWrites)
         /\ \A v : Ordered(tables, v) => Covered(tables, v) \in SUBSET (1..MaxWrites)
         /\ \A t \in DOMAIN tables : t \in Nat
         /\ \A m \in DOMAIN manifests : m \in Nat
         /\ acked \in 0..MaxWrites /\ vset.lastSequence \in 0..MaxWrites /\ MaxWrites \in Nat
<1>1. \A v : Ordered(tables, v) => Covered(tables, v) \in SUBSET (1..MaxWrites)
  BY SettledReads, CoveredBy DEF Ordered, Typed, FilesTyped
<1>2. \A n \in DOMAIN logs :
        Logged(logs, n) \in SUBSET (1..MaxWrites) /\ (Logged(logs, n) = {} <=> logs[n] = <<>>)
  BY RecordsOf DEF Typed, FilesTyped, LogsTyped, Logged
<1>. QED
  BY <1>1, <1>2, CounterFields, RecoveryAssumption DEF Typed, FilesTyped,
     ProcessTyped, LogsTyped, TablesTyped, ManifestsTyped

LEMMA AcknowledgeKeeps == IInv /\ Acknowledge => IInv'
<1>. SUFFICES ASSUME IInv, Acknowledge PROVE IInv'
  OBVIOUS
<1>. DEFINE w == vset.lastSequence + 1
<1>1. Typed /\ Typed' /\ pc = "open"
  BY AcknowledgeTyped DEF IInv, Acknowledge
<1>2. PICK s \in {manifests[vset.manifest]} : OpenInv(s)
  BY <1>1 DEF IInv
<1>3. /\ s = manifests[vset.manifest] /\ s.logNumber \in Nat /\ s.nextFile \in Nat
      /\ s.logNumber < s.nextFile
      /\ logFileNumber \in DOMAIN logs /\ logFileNumber \in {s.logNumber, s.nextFile}
  BY <1>1, <1>2, Position
<1>4. /\ UNCHANGED <<current, manifests, logs, tables, pc, task, immtable, logFileNumber, edit,
                     out, todo>>
      /\ w \in Logged(logs, logFileNumber) /\ memtable' = memtable \cup {w} /\ acked' = w
      /\ vset' = [vset EXCEPT !.lastSequence = w]
  BY DEF Acknowledge, disk, Logged
<1>5. /\ vset'.lastSequence = w /\ vset'.version = vset.version /\ vset'.manifest = vset.manifest
      /\ vset'.nextFile = vset.nextFile /\ vset'.logNumber = vset.logNumber
  BY <1>1, <1>4 DEF Typed, ProcessTyped, Counters
<1>6. /\ OnDisk(manifests, tables, logs, acked, vset.manifest)
      /\ MemoryInv
  BY <1>2 DEF OpenInv, Disk
<1>7. OnDisk(manifests', tables', logs', acked', vset'.manifest)
  <2>1. logFileNumber \in Live(logs, s)
    BY <1>3 DEF Live
  <2>. HIDE DEF w
  <2>2. Durable(tables, logs, w, s)
    BY <1>4, <2>1 DEF Durable
  <2>. QED
    BY <1>3, <1>4, <1>5, <1>6, <2>2 DEF OnDisk
<1>8. NumbersFresh'
  BY <1>2, <1>4, <1>5 DEF OpenInv, NumbersFresh
<1>9. MemoryInv'
  <2>1. /\ memtable \subseteq Logged(logs, logFileNumber)
        /\ Logged(logs, logFileNumber) \subseteq memtable \cup {w}
        /\ \A n \in DOMAIN logs : \A x \in Logged(logs, n) : x < w \/ (x = w /\ n = logFileNumber)
        /\ \A x \in memtable \cup immtable \cup Covered(tables, vset.version) : x < w
        /\ Ordered(tables, vset.version)
        /\ Above(memtable, immtable) /\ Above(memtable, Covered(tables, vset.version))
        /\ Above(immtable, Covered(tables, vset.version))
    BY <1>6 DEF MemoryInv
  <2>2. /\ \A n \in DOMAIN logs : Logged(logs, n) \in SUBSET (1..MaxWrites)
        /\ memtable \in SUBSET (1..MaxWrites) /\ immtable \in SUBSET (1..MaxWrites)
        /\ Covered(tables, vset.version) \in SUBSET (1..MaxWrites)
        /\ MaxWrites \in Nat /\ vset.lastSequence \in 0..MaxWrites
    BY <1>1, <2>1, WritesTyped
  <2>3. w \in Nat /\ w < w + 1
    BY <2>2
  <2>4. \A n \in DOMAIN logs : \A x \in Logged(logs, n) : x < w + 1
    <3>. TAKE n \in DOMAIN logs
    <3>. TAKE x \in Logged(logs, n)
    <3>1. x \in 1..MaxWrites /\ (x < w \/ x = w)
      BY <2>1, <2>2
    <3>. HIDE DEF w
    <3>. QED
      BY <2>2, <2>3, <3>1
  <2>5. \A x \in memtable \cup immtable \cup Covered(tables, vset.version) :
          x \in 1..MaxWrites /\ w > x /\ x < w + 1
    <3>. TAKE x \in memtable \cup immtable \cup Covered(tables, vset.version)
    <3>1. x \in 1..MaxWrites /\ x < w
      BY <2>1, <2>2
    <3>. HIDE DEF w
    <3>. QED
      BY <2>2, <2>3, <3>1
  <2>6. w + 1 \notin Logged(logs, logFileNumber)
    <3>. HIDE DEF w
    <3>. QED
      BY <1>3, <2>3, <2>4
  <2>. HIDE DEF w
  <2>7. Above(memtable', immtable) /\ Above(memtable', Covered(tables, vset.version))
    BY <1>4, <2>1, <2>5 DEF Above
  <2>8. \A x \in memtable' \cup immtable \cup Covered(tables, vset.version) : x < w + 1
    BY <1>4, <2>3, <2>5
  <2>. QED
    BY <1>4, <1>5, <2>1, <2>3, <2>4, <2>6, <2>7, <2>8 DEF MemoryInv
<1>10. RestInv(s) => RestInv(s)'
  BY <1>4, <1>5 DEF RestInv
<1>11. BuildInv(s) => BuildInv(s)'
  <2>1. edit.lastSequence <= vset.lastSequence => edit.lastSequence <= w
    BY <1>1, CounterFields, EditFields, RecoveryAssumption DEF Typed,
       ProcessTyped
  <2>. HIDE DEF w
  <2>. QED
    BY <1>4, <1>5, <2>1 DEF BuildInv
<1>12. InstallInv(s) => InstallInv(s)'
  BY <1>4, <1>5 DEF InstallInv
<1>13. OpenInv(s)'
  BY <1>2, <1>4, <1>5, <1>7, <1>8, <1>9, <1>10, <1>11, <1>12 DEF OpenInv, Disk
<1>. QED
  BY <1>1, <1>3, <1>4, <1>5, <1>13 DEF IInv

LEMMA SwitchMemtableKeeps == IInv /\ SwitchMemtable => IInv'
<1>. SUFFICES ASSUME IInv, SwitchMemtable PROVE IInv'
  OBVIOUS
<1>1. Typed /\ Typed' /\ pc = "open"
  BY SwitchMemtableTyped DEF IInv, SwitchMemtable
<1>2. PICK s \in {manifests[vset.manifest]} : OpenInv(s)
  BY <1>1 DEF IInv
<1>3. /\ s = manifests[vset.manifest] /\ s.logNumber \in Nat /\ s.nextFile \in Nat
      /\ s.logNumber < s.nextFile /\ vset.manifest \in Nat
  BY <1>1, <1>2, Position
<1>4. /\ UNCHANGED <<current, manifests, tables, pc, task, edit, out, todo, acked>>
      /\ Cardinality(memtable) > WriteBuffer /\ immtable = {}
      /\ logs' = Put(logs, vset.nextFile, <<>>) /\ logFileNumber' = vset.nextFile
      /\ vset' = [vset EXCEPT !.nextFile = vset.nextFile + 1]
      /\ immtable' = memtable /\ memtable' = {}
  BY DEF SwitchMemtable
<1>5. /\ vset'.lastSequence = vset.lastSequence /\ vset'.version = vset.version
      /\ vset'.manifest = vset.manifest /\ vset'.nextFile = vset.nextFile + 1
      /\ vset'.logNumber = vset.logNumber
  BY <1>1, <1>4 DEF Typed, ProcessTyped, Counters
<1>6. /\ OnDisk(manifests, tables, logs, acked, vset.manifest)
      /\ MemoryInv /\ NumbersFresh
  BY <1>2 DEF OpenInv, Disk
<1>7. /\ task \in {"idle", "clean"} /\ RestInv(s)
      /\ logFileNumber = s.logNumber /\ vset.nextFile = s.nextFile
  <2>1. task \in {"idle", "clean", "table", "append", "truncate", "write"}
    BY <1>1 DEF Typed, ProcessTyped, Control
  <2>2. ~BuildInv(s) /\ ~InstallInv(s)
    BY <1>4 DEF BuildInv, InstallInv
  <2>. QED
    BY <1>2, <1>4, <2>1, <2>2 DEF OpenInv, RestInv
<1>8. memtable = Logged(logs, s.logNumber) /\ memtable # {}
  <2>1. vset.lastSequence + 1 \notin Logged(logs, logFileNumber)
    <3>1. Cardinality(memtable) \in Nat /\ WriteBuffer \in Nat
      BY <1>1, WritesTyped, WritesAreFinite, FS_CardinalityType,
         RecoveryAssumption
    <3>. QED
      BY <1>4, <1>6, <3>1 DEF MemoryInv
  <2>2. memtable # {}
    <3>1. Cardinality({}) = 0
      BY FS_EmptySet
    <3>2. ~(0 > WriteBuffer)
      BY RecoveryAssumption
    <3>. QED
      BY <1>4, <3>1, <3>2
  <2>. QED
    BY <1>6, <1>7, <2>1, <2>2 DEF MemoryInv
<1>9. /\ s.nextFile \notin DOMAIN logs /\ DOMAIN logs' = DOMAIN logs \cup {s.nextFile}
      /\ Logged(logs', s.nextFile) = {} /\ ~Filled(logs', s.nextFile)
      /\ \A n \in DOMAIN logs : logs'[n] = logs[n] /\ Logged(logs', n) = Logged(logs, n)
                                /\ (Filled(logs', n) <=> Filled(logs, n))
      /\ s.logNumber \in DOMAIN logs
  <2>1. \A n \in DOMAIN logs : n < s.nextFile
    BY <1>1, <1>6, <1>7 DEF NumbersFresh
  <2>2. s.nextFile \notin DOMAIN logs
    BY <1>3, <2>1
  <2>3. /\ DOMAIN logs' = DOMAIN logs \cup {s.nextFile} /\ logs'[s.nextFile] = <<>>
        /\ \A n \in DOMAIN logs : logs'[n] = logs[n]
    BY <1>4, <1>7, <2>2 DEF Put
  <2>4. s.logNumber \in DOMAIN logs
    BY <1>3, <1>6 DEF OnDisk, Logging
  <2>. QED
    BY <2>2, <2>3, <2>4 DEF Logged, ToSet, Filled
<1>10. OnDisk(manifests', tables', logs', acked', vset'.manifest)
  <2>1. Orphans(tables, logs', s)
    BY <1>7 DEF RestInv, Orphans
  <2>2. Attempts(manifests, logs', vset.manifest, s)
    BY <1>2 DEF OpenInv, Attempts
  <2>3. Logging(tables, logs', s)
    <3>1. /\ \A n \in DOMAIN logs : n < s.logNumber => \A x \in Logged(logs, n) : x <= s.lastSequence
          /\ \A n \in Live(logs, s) : Filled(logs, n) =>
               n = s.logNumber \/ (n = s.nextFile /\ Filled(logs, s.logNumber))
          /\ \A n \in Live(logs, s) : Above(Logged(logs, n), Covered(tables, s.version))
      BY <1>3, <1>6 DEF OnDisk, Logging
    <3>2. \A n \in Live(logs', s) : n = s.nextFile \/ n \in Live(logs, s)
      BY <1>9 DEF Live
    <3>3. \A n \in Live(logs, s) : n \in DOMAIN logs
      BY DEF Live
    <3>4. \A y : Above({}, y)
      BY DEF Above
    <3>5. \A n \in DOMAIN logs' : n < s.logNumber => n \in DOMAIN logs
      BY <1>3, <1>9
    <3>. QED
      BY <1>9, <3>1, <3>2, <3>3, <3>4, <3>5 DEF Logging
  <2>4. Durable(tables, logs', acked, s)
    <3>1. \A n \in Live(logs, s) : n \in Live(logs', s) /\ Logged(logs', n) = Logged(logs, n)
      BY <1>9 DEF Live
    <3>. QED
      BY <1>3, <1>6, <3>1 DEF OnDisk, Durable
  <2>. QED
    BY <1>3, <1>4, <1>5, <1>6, <2>1, <2>2, <2>3, <2>4 DEF OnDisk
<1>11. NumbersFresh'
  <2>1. \A n \in DOMAIN logs \cup DOMAIN tables : n \in Nat /\ n < s.nextFile
    BY <1>1, <1>6, <1>7, WritesTyped DEF NumbersFresh
  <2>2. vset.manifest < s.nextFile
    BY <1>3, <1>6 DEF OnDisk, Marked
  <2>. QED
    BY <1>3, <1>4, <1>5, <1>6, <1>7, <1>9, <2>1, <2>2 DEF NumbersFresh
<1>12. MemoryInv'
  <2>1. \A n \in DOMAIN logs : \A x \in Logged(logs, n) : x < vset.lastSequence + 1
    BY <1>6, <1>7, <1>8 DEF MemoryInv
  <2>2. \A y : Above({}, y)
    BY DEF Above
  <2>. QED
    BY <1>4, <1>5, <1>6, <1>7, <1>8, <1>9, <2>1, <2>2 DEF MemoryInv
<1>13. RestInv(s)'
  BY <1>4, <1>5, <1>7, <1>8, <1>9 DEF RestInv
<1>14. OpenInv(s)'
  BY <1>2, <1>4, <1>5, <1>7, <1>10, <1>11, <1>12, <1>13 DEF OpenInv, Disk
<1>. QED
  BY <1>1, <1>3, <1>4, <1>5, <1>14 DEF IInv

(* A flush takes the next number for its table.                            *)
LEMMA StartFlushKeeps == IInv /\ StartFlush => IInv'
<1>. SUFFICES ASSUME IInv, StartFlush PROVE IInv'
  OBVIOUS
<1>1. Typed /\ Typed' /\ pc = "open" /\ task = "idle"
  BY StartFlushTyped DEF IInv, StartFlush
<1>2. PICK s \in {manifests[vset.manifest]} : OpenInv(s)
  BY <1>1 DEF IInv
<1>3. /\ s \in Edits /\ s = manifests[vset.manifest] /\ s.logNumber \in Nat /\ s.nextFile \in Nat
      /\ s.logNumber < s.nextFile /\ vset.manifest \in Nat
  BY <1>1, <1>2, Position
<1>4. /\ RestInv(s) /\ NumbersFresh /\ MemoryInv
      /\ OnDisk(manifests, tables, logs, acked, vset.manifest)
  BY <1>1, <1>2 DEF OpenInv, Disk
<1>5. /\ immtable # {} /\ immtable = Logged(logs, s.logNumber)
      /\ vset.version = s.version /\ vset.logNumber = s.logNumber
      /\ logFileNumber = s.nextFile /\ vset.nextFile = s.nextFile + 1
      /\ \A t \in DOMAIN tables : t < s.nextFile
  BY <1>4 DEF RestInv, StartFlush
<1>6. /\ UNCHANGED <<current, manifests, logs, pc, memtable, immtable, logFileNumber, edit,
                     todo, acked>>
      /\ out' = s.nextFile + 1 /\ task' = "table"
      /\ tables' = OpenImage(s.nextFile + 1)
      /\ vset' = [vset EXCEPT !.nextFile = s.nextFile + 2]
  BY <1>3, <1>5 DEF StartFlush
<1>7. /\ vset'.lastSequence = vset.lastSequence /\ vset'.version = vset.version
      /\ vset'.manifest = vset.manifest /\ vset'.nextFile = s.nextFile + 2
      /\ vset'.logNumber = vset.logNumber
  BY <1>1, <1>6 DEF Typed, ProcessTyped, Counters
<1>8. /\ s.nextFile + 1 \notin DOMAIN tables
      /\ DOMAIN tables' = DOMAIN tables \cup {s.nextFile + 1}
      /\ Len(tables'[s.nextFile + 1]) = 1 /\ tables'[s.nextFile + 1][1] = Begun
      /\ \A t \in DOMAIN tables : tables'[t] = tables[t]
  <2>1. s.nextFile + 1 \notin DOMAIN tables
    BY <1>3, <1>5
  <2>2. /\ DOMAIN tables' = DOMAIN tables \cup {s.nextFile + 1}
        /\ tables'[s.nextFile + 1] = <<>> \o <<Begun>>
        /\ \A t \in DOMAIN tables : tables'[t] = tables[t]
    BY <1>6, <2>1 DEF OpenImage, Put, Begun
  <2>3. \A x : Len(<<>> \o <<x>>) = 1 /\ (<<>> \o <<x>>)[1] = x
    OBVIOUS
  <2>. QED
    BY <2>1, <2>2, <2>3
<1>9. Ordered(tables', s.version) /\ Covered(tables', s.version) = Covered(tables, s.version)
  <2>1. Ordered(tables, s.version)
    BY <1>3, <1>4 DEF OnDisk, Tabled
  <2>2. \A t \in s.version : t.number \in DOMAIN tables
    BY <2>1 DEF Ordered, Settled, Complete
  <2>. QED
    BY <1>8, <2>1, <2>2, SameTables
<1>10. OnDisk(manifests', tables', logs', acked', vset'.manifest)
  <2>1. Orphans(tables', logs, s)
    <3>1. Filled(logs, s.logNumber)
      <4>1. s.logNumber \in DOMAIN logs
        BY <1>3, <1>4 DEF OnDisk, Logging
      <4>. QED
        BY <1>1, <1>5, <4>1, WritesTyped DEF Filled
    <3>2. CopyOf(tables', logs, s.nextFile + 1, s.logNumber)
      <4>1. \A i \in 1..1 : i = 1
        OBVIOUS
      <4>. QED
        BY <1>8, <3>1, <4>1 DEF CopyOf
    <3>. QED
      BY <1>5, <1>8, <3>2 DEF Orphans
  <2>2. Tabled(tables', s)
    BY <1>3, <1>4, <1>9 DEF OnDisk, Tabled
  <2>3. Logging(tables', logs, s) /\ Durable(tables', logs, acked, s)
    BY <1>3, <1>4, <1>9 DEF OnDisk, Logging, Durable
  <2>. QED
    BY <1>3, <1>4, <1>6, <1>7, <2>1, <2>2, <2>3 DEF OnDisk
<1>11. NumbersFresh'
  <2>1. \A n \in DOMAIN logs \cup DOMAIN tables : n \in Nat /\ n < s.nextFile + 1
    BY <1>1, <1>4, <1>5, WritesTyped DEF NumbersFresh
  <2>2. vset.manifest < s.nextFile
    BY <1>3, <1>4 DEF OnDisk, Marked
  <2>. QED
    BY <1>1, <1>3, <1>4, <1>6, <1>7, <1>8, <2>1, <2>2 DEF NumbersFresh
<1>12. MemoryInv'
  BY <1>4, <1>5, <1>6, <1>7, <1>9 DEF MemoryInv
<1>13. BuildInv(s)'
  <2>1. \A t \in DOMAIN tables' : t <= s.nextFile + 1
    BY <1>1, <1>3, <1>5, <1>8, WritesTyped
  <2>. QED
    BY <1>5, <1>6, <1>7, <1>8, <2>1 DEF BuildInv
<1>14. OpenInv(s)'
  BY <1>1, <1>2, <1>6, <1>7, <1>10, <1>11, <1>12, <1>13 DEF OpenInv, Disk
<1>. QED
  BY <1>1, <1>3, <1>6, <1>7, <1>14 DEF IInv

(* It writes there what the first of the two logs holds.                   *)
LEMMA BuildFlushTableKeeps == IInv /\ BuildFlushTable => IInv'
<1>. SUFFICES ASSUME IInv, BuildFlushTable PROVE IInv'
  OBVIOUS
<1>. DEFINE image == [recs |-> immtable, whole |-> TRUE]
<1>1. Typed /\ Typed' /\ pc = "open" /\ task = "table"
  BY BuildFlushTableTyped DEF IInv, BuildFlushTable
<1>2. PICK s \in {manifests[vset.manifest]} : OpenInv(s)
  BY <1>1 DEF IInv
<1>3. /\ s \in Edits /\ s = manifests[vset.manifest] /\ s.logNumber \in Nat /\ s.nextFile \in Nat
      /\ s.logNumber < s.nextFile /\ vset.manifest \in Nat
      /\ \A x \in Covered(tables, s.version) : x <= vset.lastSequence
  BY <1>1, <1>2, Position
<1>4. /\ BuildInv(s) /\ NumbersFresh /\ MemoryInv
      /\ OnDisk(manifests, tables, logs, acked, vset.manifest)
  BY <1>1, <1>2 DEF OpenInv, Disk
<1>5. /\ immtable # {} /\ immtable = Logged(logs, s.logNumber)
      /\ vset.version = s.version /\ vset.logNumber = s.logNumber
      /\ logFileNumber = s.nextFile /\ vset.nextFile = s.nextFile + 2
      /\ out = s.nextFile + 1 /\ out \in DOMAIN tables /\ Len(tables[out]) = 1
      /\ \A t \in DOMAIN tables : t <= out
  BY <1>4 DEF BuildInv
<1>6. /\ UNCHANGED <<current, manifests, logs, pc, vset, memtable, immtable, logFileNumber,
                     out, todo, acked>>
      /\ tables' = CloseImage(out, immtable) /\ edit' = FlushEdit
      /\ task' = "append"
  BY DEF BuildFlushTable
<1>7. /\ DOMAIN tables' = DOMAIN tables /\ tables'[out] = <<image>>
      /\ \A t \in DOMAIN tables : t # out => tables'[t] = tables[t]
  <2>1. tables' = [tables EXCEPT ![out] = Front(tables[out]) \o <<image>>]
    BY <1>5, <1>6 DEF CloseImage
  <2>2. Front(tables[out]) \o <<image>> = <<image>>
    <3>1. tables[out] \in Seq(Images) /\ tables[out] # <<>> /\ image \in Images
      BY <1>1, <1>5, WritesTyped DEF Typed, FilesTyped, TablesTyped, Images
    <3>. HIDE DEF image
    <3>. DEFINE t == Front(tables[out]) \o <<image>>
    <3>2. t \in Seq(Images) /\ Len(t) = 1 /\ t[1] = image
      BY <1>5, <3>1, LastReplaced
    <3>. HIDE DEF t
    <3>3. t = <<image>>
      BY <3>2
    <3>. QED
      BY <3>3 DEF t
  <2>. HIDE DEF image
  <2>. QED
    BY <1>5, <2>1, <2>2
<1>8. Ordered(tables', s.version) /\ Covered(tables', s.version) = Covered(tables, s.version)
  <2>1. Ordered(tables, s.version)
    BY <1>3, <1>4 DEF OnDisk, Tabled
  <2>2. \A t \in s.version : t.number \in DOMAIN tables
    BY <2>1 DEF Ordered, Settled, Complete
  <2>3. \A t \in s.version : t.number # out
    BY <1>3, <1>4, <1>5, EditFields DEF OnDisk, Marked
  <2>. QED
    BY <1>7, <2>1, <2>2, <2>3, SameTables
<1>9. OnDisk(manifests', tables', logs', acked', vset'.manifest)
  <2>1. Orphans(tables', logs, s)
    <3>1. CopyOf(tables', logs, out, s.logNumber)
      <4>1. Filled(logs, s.logNumber)
        <5>1. s.logNumber \in DOMAIN logs
          BY <1>3, <1>4 DEF OnDisk, Logging
        <5>. QED
          BY <1>1, <1>5, <5>1, WritesTyped DEF Filled
      <4>2. \A i \in 1..Len(tables'[out]) : tables'[out][i] = [recs |-> Logged(logs, s.logNumber), whole |-> TRUE]
        <5>. HIDE DEF image
        <5>1. \A i \in 1..Len(<<image>>) : <<image>>[i] = image
          OBVIOUS
        <5>. QED
          BY <1>5, <1>7, <5>1 DEF image
      <4>. QED
        BY <4>1, <4>2 DEF CopyOf
    <3>2. \A t \in DOMAIN tables : t < s.nextFile \/ t = out
      BY <1>1, <1>2, <1>5, Position
    <3>. QED
      BY <1>5, <1>7, <3>1, <3>2 DEF Orphans
  <2>2. Tabled(tables', s)
    BY <1>3, <1>4, <1>8 DEF OnDisk, Tabled
  <2>3. Logging(tables', logs, s) /\ Durable(tables', logs, acked, s)
    BY <1>3, <1>4, <1>8 DEF OnDisk, Logging, Durable
  <2>. QED
    BY <1>3, <1>4, <1>6, <2>1, <2>2, <2>3 DEF OnDisk
<1>10. NumbersFresh'
  BY <1>1, <1>4, <1>6, <1>7 DEF NumbersFresh
<1>11. MemoryInv'
  BY <1>4, <1>5, <1>6, <1>8 DEF MemoryInv
<1>12. BuildInv(s)'
  <2>1. /\ edit'.version = s.version \cup {[number |-> out, level |-> PickLevel(s.version)]}
        /\ edit'.logNumber = logFileNumber /\ edit'.nextFile = vset.nextFile
        /\ edit'.lastSequence = vset.lastSequence
    BY <1>5, <1>6 DEF FlushEdit
  <2>2. \A n \in DOMAIN logs \ {logFileNumber} : \A x \in Logged(logs, n) : x <= vset.lastSequence
    <3>. TAKE n \in DOMAIN logs \ {logFileNumber}
    <3>. TAKE x \in Logged(logs, n)
    <3>1. x < vset.lastSequence + 1
      BY <1>4 DEF MemoryInv
    <3>2. x \in 1..MaxWrites /\ MaxWrites \in Nat /\ vset.lastSequence \in 0..MaxWrites
      BY <1>1, WritesTyped
    <3>. QED
      BY <3>1, <3>2
  <2>3. vset.lastSequence <= vset.lastSequence
    BY <1>1, WritesTyped
  <2>. QED
    BY <1>3, <1>5, <1>6, <1>7, <1>8, <2>1, <2>2, <2>3 DEF BuildInv
<1>13. OpenInv(s)'
  BY <1>1, <1>2, <1>6, <1>9, <1>10, <1>11, <1>12 DEF OpenInv, Disk
<1>. QED
  BY <1>1, <1>3, <1>6, <1>13 DEF IInv

(* The edit of a flush is in the manifest: the first log is dead.          *)
LEMMA AppendEditOpen == IInv /\ pc = "open" /\ AppendEdit => IInv'
<1>. SUFFICES ASSUME IInv, pc = "open", AppendEdit PROVE IInv'
  OBVIOUS
<1>. DEFINE c == vset.manifest
            table == [number |-> out, level |-> PickLevel(vset.version)]
<1>1. Typed /\ Typed' /\ task = "append"
  BY AppendEditTyped DEF IInv, AppendEdit
<1>2. PICK s \in {manifests[vset.manifest]} : OpenInv(s)
  BY DEF IInv
<1>3. /\ s \in Edits /\ s = manifests[c] /\ c \in DOMAIN manifests /\ c \in Nat
      /\ s.logNumber \in Nat /\ s.nextFile \in Nat /\ s.logNumber < s.nextFile
      /\ s.lastSequence \in 0..MaxWrites
  BY <1>1, <1>2, Position
<1>4. /\ BuildInv(s) /\ NumbersFresh /\ MemoryInv
      /\ OnDisk(manifests, tables, logs, acked, c)
      /\ current = c /\ \A m \in DOMAIN manifests : m <= c
  BY <1>1, <1>2 DEF OpenInv, Disk
<1>5. /\ immtable # {} /\ vset.version = s.version
      /\ logFileNumber = s.nextFile /\ vset.nextFile = s.nextFile + 2
      /\ out = s.nextFile + 1 /\ out \in DOMAIN tables
      /\ \A t \in DOMAIN tables : t <= out
      /\ tables[out] = <<[recs |-> immtable, whole |-> TRUE]>>
      /\ edit.version = s.version \cup {table}
      /\ edit.logNumber = s.nextFile /\ edit.nextFile = s.nextFile + 2
      /\ \A x \in Covered(tables, s.version) : x <= edit.lastSequence
      /\ \A n \in DOMAIN logs \ {logFileNumber} : \A x \in Logged(logs, n) : x <= edit.lastSequence
      /\ immtable = Logged(logs, s.logNumber)
  BY <1>1, <1>4 DEF BuildInv
<1>6. WithSnapshot = edit
  <2>1. edit.version \cup vset.version \cup manifests[c].version = edit.version
    BY <1>3, <1>5
  <2>2. edit \in [version : Versions, logNumber : Nat, nextFile : Nat, lastSequence : 0..MaxWrites]
    BY <1>1 DEF Typed, ProcessTyped, Edits
  <2>3. WithSnapshot = [edit EXCEPT !.version = edit.version]
    BY <1>3, <2>1, <2>2 DEF WithSnapshot
  <2>. QED
    BY <2>2, <2>3
<1>7. /\ UNCHANGED <<current, logs, tables, pc, vset, memtable, immtable, logFileNumber, edit,
                     out, todo, acked>>
      /\ task' = "truncate"
      /\ DOMAIN manifests' = DOMAIN manifests /\ manifests'[c] = edit
  BY <1>1, <1>3, <1>6 DEF AppendEdit, Put
<1>8. /\ \A t \in s.version : t.number \in Nat /\ t.number < s.nextFile /\ t.number # c
      /\ c < s.nextFile
  BY <1>3, <1>4, EditFields DEF OnDisk, Marked
<1>9. /\ Ordered(tables, edit.version)
      /\ Covered(tables, edit.version) = Covered(tables, s.version) \cup immtable
  <2>1. Held(tables, out) = immtable /\ Settled(tables, out)
    <3>. PICK x : x = [recs |-> immtable, whole |-> TRUE]
      OBVIOUS
    <3>1. tables[out] = <<x>> /\ x.recs = immtable /\ x.whole = TRUE
      BY <1>5
    <3>2. Len(<<x>>) = 1 /\ <<x>>[1] = x
      OBVIOUS
    <3>3. \A i \in 1..1 : i = 1
      OBVIOUS
    <3>4. \A i \in 1..Len(tables[out]) : tables[out][i] = x
      BY <3>1, <3>2, <3>3
    <3>5. Last(tables[out]) = x
      BY <3>1, <3>2 DEF Last
    <3>. QED
      BY <1>5, <3>1, <3>4, <3>5 DEF Held, Settled, Complete
  <2>2. Ordered(tables, s.version) /\ Above(immtable, Covered(tables, s.version))
    BY <1>4, <1>5 DEF MemoryInv
  <2>3. table \in [number : Nat, level : 0..2] /\ table.number = out /\ table.level = PickLevel(s.version)
    BY <1>3, <1>5, PicksLevel
  <2>4. \A u \in s.version : out > u.number
    BY <1>3, <1>5, <1>8
  <2>5. \A u \in s.version : PickLevel(s.version) <= u.level
                             /\ (PickLevel(s.version) = u.level => PickLevel(s.version) = 0)
    <3>. TAKE u \in s.version
    <3>1. u.level \in 0..2
      BY <1>3, EditFields
    <3>2. u.level = 0 \/ u.level = 1 => PickLevel(s.version) = 0
      BY DEF PickLevel
    <3>3. u.level = 2 => PickLevel(s.version) \in {0, 1}
      BY DEF PickLevel
    <3>. QED
      BY <3>1, <3>2, <3>3
  <2>6. s.version \in Versions
    BY <1>3, EditFields
  <2>. HIDE DEF table
  <2>. PICK t \in [number : Nat, level : 0..2] : t = table
    BY <2>3
  <2>7. /\ Settled(tables, t.number) /\ Above(Held(tables, t.number), Covered(tables, s.version))
        /\ \A u \in s.version : t.number > u.number /\ t.level <= u.level
                               /\ (t.level = u.level => t.level = 0)
    BY <2>1, <2>2, <2>3, <2>4, <2>5
  <2>8. /\ Ordered(tables, s.version \cup {t})
        /\ Covered(tables, s.version \cup {t}) = Covered(tables, s.version) \cup Held(tables, t.number)
    BY <2>2, <2>6, <2>7, OneMoreTable
  <2>. QED
    BY <1>5, <2>1, <2>3, <2>8
<1>10. /\ edit.logNumber \in DOMAIN logs /\ Live(logs, edit) = {s.nextFile}
       /\ s.nextFile + 2 \notin DOMAIN logs
  <2>1. s.nextFile \in DOMAIN logs
    BY <1>1, <1>5 DEF Typed, Control
  <2>2. out \notin DOMAIN logs /\ \A n \in DOMAIN logs : n < s.nextFile + 2
    BY <1>4, <1>5 DEF NumbersFresh
  <2>3. \A n \in DOMAIN logs : n \in Nat
    BY <1>1, WritesTyped
  <2>4. \A n \in DOMAIN logs : n >= s.nextFile => n = s.nextFile
    BY <1>3, <1>5, <2>2, <2>3
  <2>5. s.nextFile >= s.nextFile /\ ~(s.nextFile + 2 < s.nextFile + 2)
    BY <1>3
  <2>. QED
    BY <1>5, <2>1, <2>2, <2>4, <2>5 DEF Live
<1>. HIDE DEF table
<1>11. OnDisk(manifests', tables', logs', acked', vset'.manifest)
  <2>1. Marked(c, edit)
    <3>1. \A t \in edit.version : t.number \in Nat /\ t.number < s.nextFile + 2 /\ t.number # c
      BY <1>3, <1>5, <1>8 DEF table
    <3>. QED
      BY <1>3, <1>5, <1>8, <3>1 DEF Marked
  <2>2. Orphans(tables, logs, edit)
    <3>1. \A t \in DOMAIN tables : t < s.nextFile + 2
      BY <1>1, <1>3, <1>5, WritesTyped
    <3>. QED
      BY <1>5, <3>1 DEF Orphans
  <2>3. Attempts(manifests', logs, c, edit)
    BY <1>4, <1>7 DEF Attempts
  <2>4. Tabled(tables, edit)
    <3>1. \A x \in immtable : x <= edit.lastSequence
      <4>1. s.logNumber \in DOMAIN logs /\ s.logNumber # logFileNumber
        BY <1>3, <1>4, <1>5 DEF OnDisk, Logging
      <4>. QED
        BY <1>5, <4>1
    <3>. QED
      BY <1>5, <1>9, <3>1 DEF Tabled
  <2>5. Logging(tables, logs, edit)
    <3>1. \A n \in DOMAIN logs : n < edit.logNumber => \A x \in Logged(logs, n) : x <= edit.lastSequence
      BY <1>3, <1>5
    <3>2. Above(Logged(logs, s.nextFile), Covered(tables, edit.version))
      <4>1. /\ Logged(logs, s.nextFile) \subseteq memtable \cup {vset.lastSequence + 1}
            /\ Above(memtable, immtable) /\ Above(memtable, Covered(tables, s.version))
            /\ \A x \in immtable \cup Covered(tables, s.version) : x < vset.lastSequence + 1
        BY <1>4, <1>5 DEF MemoryInv
      <4>2. Covered(tables, s.version) \in SUBSET (1..MaxWrites) /\ immtable \in SUBSET (1..MaxWrites)
            /\ vset.lastSequence \in 0..MaxWrites /\ MaxWrites \in Nat
        BY <1>1, <1>4, <1>5, WritesTyped DEF MemoryInv
      <4>3. \A y \in immtable \cup Covered(tables, s.version) : vset.lastSequence + 1 > y
        BY <4>1, <4>2
      <4>. QED
        BY <1>9, <4>1, <4>3 DEF Above
    <3>. QED
      BY <1>5, <1>10, <3>1, <3>2 DEF Logging
  <2>6. Durable(tables, logs, acked, edit)
    <3>1. /\ acked = 0 \/ acked \in memtable \cup immtable \cup Covered(tables, s.version)
          /\ memtable \subseteq Logged(logs, s.nextFile)
      BY <1>4, <1>5 DEF MemoryInv
    <3>. QED
      BY <1>9, <1>10, <3>1 DEF Durable
  <2>. QED
    BY <1>3, <1>7, <2>1, <2>2, <2>3, <2>4, <2>5, <2>6 DEF OnDisk
<1>12. NumbersFresh'
  BY <1>4, <1>7 DEF NumbersFresh
<1>13. MemoryInv'
  BY <1>4, <1>7 DEF MemoryInv
<1>14. InstallInv(edit)'
  <2>1. \A t \in DOMAIN tables : t < s.nextFile + 2
    BY <1>1, <1>3, <1>5, WritesTyped
  <2>2. Covered(tables, edit.version) = immtable \cup Covered(tables, vset.version)
    BY <1>5, <1>9
  <2>. QED
    BY <1>5, <1>7, <2>1, <2>2 DEF InstallInv
<1>. DEFINE r == edit
<1>15. OpenInv(r)'
  BY <1>4, <1>7, <1>11, <1>12, <1>13, <1>14 DEF OpenInv, Disk
<1>16. edit' = manifests'[vset'.manifest]
  BY <1>7
<1>. QED
  BY <1>1, <1>7, <1>15, <1>16 DEF IInv, Typed

LEMMA TruncateCurrentOpen == IInv /\ pc = "open" /\ TruncateCurrent => IInv'
<1>. SUFFICES ASSUME IInv, pc = "open", TruncateCurrent PROVE IInv'
  OBVIOUS
<1>1. Typed /\ Typed' /\ task = "truncate"
  BY TruncateCurrentTyped DEF IInv, TruncateCurrent
<1>2. PICK s \in {manifests[vset.manifest]} : OpenInv(s)
  BY DEF IInv
<1>3. /\ UNCHANGED <<manifests, logs, tables, pc, vset, memtable, immtable, logFileNumber,
                     edit, out, todo, acked>>
      /\ task' = "write" /\ current' = 0
  BY <1>1 DEF TruncateCurrent
<1>4. NumbersFresh' /\ MemoryInv' /\ InstallInv(s)'
  BY <1>1, <1>2, <1>3 DEF OpenInv, NumbersFresh, MemoryInv, InstallInv
<1>5. OpenInv(s)'
  BY <1>1, <1>2, <1>3, <1>4 DEF OpenInv, Disk
<1>. QED
  BY <1>1, <1>3, <1>5 DEF IInv

(* The version with the new table takes the place of the memtable.         *)
LEMMA WriteCurrentOpen == IInv /\ pc = "open" /\ WriteCurrent => IInv'
<1>. SUFFICES ASSUME IInv, pc = "open", WriteCurrent PROVE IInv'
  OBVIOUS
<1>1. Typed /\ Typed' /\ task = "write"
  BY WriteCurrentTyped DEF IInv, WriteCurrent
<1>2. PICK s \in {manifests[vset.manifest]} : OpenInv(s)
  BY DEF IInv
<1>3. /\ s = manifests[vset.manifest] /\ s.logNumber \in Nat /\ s.nextFile \in Nat
      /\ s.logNumber < s.nextFile
  BY <1>1, <1>2, Position
<1>4. /\ InstallInv(s) /\ NumbersFresh /\ MemoryInv
      /\ OnDisk(manifests, tables, logs, acked, vset.manifest)
      /\ \A m \in DOMAIN manifests : m <= vset.manifest
  BY <1>1, <1>2 DEF OpenInv, Disk
<1>5. /\ edit = s /\ immtable # {}
      /\ Covered(tables, s.version) = immtable \cup Covered(tables, vset.version)
      /\ \A t \in DOMAIN tables : t < s.nextFile
      /\ logFileNumber = s.logNumber /\ vset.nextFile = s.nextFile
  BY <1>4 DEF InstallInv
<1>6. /\ UNCHANGED <<manifests, logs, tables, pc, memtable, logFileNumber, edit, todo, acked>>
      /\ current' = vset.manifest /\ immtable' = {} /\ task' = "clean"
      /\ vset' = [vset EXCEPT !.version = s.version, !.logNumber = s.logNumber]
  BY <1>5 DEF WriteCurrent
<1>7. /\ vset'.lastSequence = vset.lastSequence /\ vset'.version = s.version
      /\ vset'.manifest = vset.manifest /\ vset'.nextFile = vset.nextFile
      /\ vset'.logNumber = s.logNumber
  BY <1>1, <1>6 DEF Typed, ProcessTyped, Counters
<1>8. NumbersFresh'
  BY <1>4, <1>6, <1>7 DEF NumbersFresh
<1>9. MemoryInv'
  <2>1. Ordered(tables, s.version)
    BY <1>3, <1>4 DEF OnDisk, Tabled
  <2>2. Above(memtable, Covered(tables, s.version)) /\ Above({}, Covered(tables, s.version))
        /\ Above(memtable, {})
    BY <1>4, <1>5 DEF MemoryInv, Above
  <2>. QED
    BY <1>4, <1>5, <1>6, <1>7, <2>1, <2>2 DEF MemoryInv
<1>10. RestInv(s)'
  BY <1>5, <1>6, <1>7 DEF RestInv
<1>11. OpenInv(s)'
  BY <1>4, <1>6, <1>7, <1>8, <1>9, <1>10 DEF OpenInv, Disk
<1>. QED
  BY <1>1, <1>3, <1>6, <1>7, <1>11 DEF IInv

(* What deleteObsoleteFiles leaves.                                        *)
LEMMA Unlinked ==
  ASSUME Typed, DeleteObsolete
  PROVE  /\ UNCHANGED <<current, process, acked>>
         /\ \A m \in DOMAIN manifests' : m \in DOMAIN manifests /\ manifests'[m] = manifests[m]
         /\ \A n \in DOMAIN logs' : n \in DOMAIN logs /\ logs'[n] = logs[n]
         /\ \A t \in DOMAIN tables' : t \in DOMAIN tables /\ tables'[t] = tables[t]
         /\ \A m \in DOMAIN manifests : m >= vset.manifest => m \in DOMAIN manifests'
         /\ \A n \in DOMAIN logs : n >= vset.logNumber => n \in DOMAIN logs'
         /\ \A t \in vset.version : t.number \in DOMAIN tables => t.number \in DOMAIN tables'
<1>1. /\ UNCHANGED <<current, process, acked>>
      /\ manifests' = manifests \/ \E n \in OldManifests : manifests' = Restrict(manifests, DOMAIN manifests \ {n})
      /\ logs' = logs \/ \E n \in OldLogs : logs' = Restrict(logs, DOMAIN logs \ {n})
      /\ tables' = tables \/ \E n \in OldTables : tables' = Restrict(tables, DOMAIN tables \ {n})
  BY DEF DeleteObsolete
<1>2. /\ \A m \in DOMAIN manifests' : m \in DOMAIN manifests /\ manifests'[m] = manifests[m]
      /\ \A m \in DOMAIN manifests : m >= vset.manifest => m \in DOMAIN manifests'
  <2>1. \A m \in OldManifests : ~(m >= vset.manifest)
    BY CounterFields, WritesTyped DEF OldManifests, Typed, ProcessTyped
  <2>. QED
    BY <1>1, <2>1 DEF Restrict
<1>3. /\ \A n \in DOMAIN logs' : n \in DOMAIN logs /\ logs'[n] = logs[n]
      /\ \A n \in DOMAIN logs : n >= vset.logNumber => n \in DOMAIN logs'
  <2>1. \A n \in OldLogs : ~(n >= vset.logNumber)
    BY CounterFields, WritesTyped DEF OldLogs, Typed, ProcessTyped
  <2>. QED
    BY <1>1, <2>1 DEF Restrict
<1>4. /\ \A t \in DOMAIN tables' : t \in DOMAIN tables /\ tables'[t] = tables[t]
      /\ \A t \in vset.version : t.number \in DOMAIN tables => t.number \in DOMAIN tables'
  BY <1>1 DEF Restrict, OldTables
<1>. QED
  BY <1>1, <1>2, <1>3, <1>4

(* Nothing that the manifest in use needs is unlinked.                     *)
LEMMA DeleteObsoleteOpen == IInv /\ pc = "open" /\ DeleteObsolete => IInv'
<1>. SUFFICES ASSUME IInv, pc = "open", DeleteObsolete PROVE IInv'
  OBVIOUS
<1>1. Typed /\ Typed' /\ task = "clean"
  BY DeleteObsoleteTyped DEF IInv, DeleteObsolete
<1>2. PICK s \in {manifests[vset.manifest]} : OpenInv(s)
  BY DEF IInv
<1>3. /\ s = manifests[vset.manifest] /\ vset.manifest \in DOMAIN manifests /\ vset.manifest \in Nat
      /\ s.logNumber \in Nat /\ s.nextFile \in Nat /\ s.logNumber < s.nextFile
      /\ logFileNumber \in DOMAIN logs /\ logFileNumber \in {s.logNumber, s.nextFile}
  BY <1>1, <1>2, Position
<1>4. /\ RestInv(s) /\ NumbersFresh /\ MemoryInv
      /\ OnDisk(manifests, tables, logs, acked, vset.manifest)
      /\ \A m \in DOMAIN manifests : m <= vset.manifest
  BY <1>1, <1>2 DEF OpenInv, Disk
<1>5. vset.version = s.version /\ vset.logNumber = s.logNumber /\ \A t \in DOMAIN tables : t < s.nextFile
  BY <1>4 DEF RestInv
<1>6. /\ UNCHANGED <<current, pc, task, vset, memtable, immtable, logFileNumber, edit, out, todo,
                     acked>>
      /\ \A m \in DOMAIN manifests' : m \in DOMAIN manifests /\ manifests'[m] = manifests[m]
      /\ \A n \in DOMAIN logs' : n \in DOMAIN logs /\ logs'[n] = logs[n]
      /\ \A t \in DOMAIN tables' : t \in DOMAIN tables /\ tables'[t] = tables[t]
      /\ vset.manifest \in DOMAIN manifests'
      /\ \A n \in DOMAIN logs : n >= s.logNumber => n \in DOMAIN logs'
      /\ \A t \in s.version : t.number \in DOMAIN tables => t.number \in DOMAIN tables'
  BY <1>1, <1>3, <1>5, Unlinked DEF process
<1>7. \A n \in DOMAIN logs' : Logged(logs', n) = Logged(logs, n) /\ (Filled(logs', n) <=> Filled(logs, n))
  BY <1>6 DEF Logged, Filled
<1>8. Ordered(tables', s.version) /\ Covered(tables', s.version) = Covered(tables, s.version)
  <2>1. Ordered(tables, s.version)
    BY <1>3, <1>4 DEF OnDisk, Tabled
  <2>2. \A t \in s.version : t.number \in DOMAIN tables
    BY <2>1 DEF Ordered, Settled, Complete
  <2>. QED
    BY <1>6, <2>1, <2>2, SameTables
<1>9. /\ s.logNumber \in DOMAIN logs' /\ logFileNumber \in DOMAIN logs'
      /\ Live(logs', s) = Live(logs, s)
  <2>1. s.logNumber \in DOMAIN logs
    BY <1>3, <1>4 DEF OnDisk, Logging
  <2>2. s.logNumber >= s.logNumber /\ logFileNumber >= s.logNumber
    BY <1>3
  <2>. QED
    BY <1>3, <1>6, <2>1, <2>2 DEF Live
<1>10. OnDisk(manifests', tables', logs', acked', vset'.manifest)
  <2>1. Orphans(tables', logs', s)
    BY <1>5, <1>6 DEF Orphans
  <2>2. Attempts(manifests', logs', vset.manifest, s)
    BY <1>4, <1>6 DEF Attempts
  <2>3. Tabled(tables', s)
    BY <1>3, <1>4, <1>8 DEF OnDisk, Tabled
  <2>4. Logging(tables', logs', s)
    <3>1. \A n \in Live(logs, s) : n \in DOMAIN logs'
      BY <1>9 DEF Live
    <3>. QED
      BY <1>3, <1>4, <1>6, <1>7, <1>8, <1>9, <3>1 DEF OnDisk, Logging
  <2>5. Durable(tables', logs', acked, s)
    <3>1. \A n \in Live(logs, s) : Logged(logs', n) = Logged(logs, n)
      BY <1>7, <1>9 DEF Live
    <3>. QED
      BY <1>3, <1>4, <1>8, <1>9, <3>1 DEF OnDisk, Durable
  <2>. QED
    BY <1>3, <1>4, <1>6, <2>1, <2>2, <2>3, <2>4, <2>5 DEF OnDisk
<1>11. NumbersFresh'
  BY <1>4, <1>6 DEF NumbersFresh
<1>12. MemoryInv'
  BY <1>4, <1>5, <1>6, <1>7, <1>8, <1>9 DEF MemoryInv
<1>13. RestInv(s)'
  BY <1>4, <1>5, <1>6, <1>7, <1>9 DEF RestInv
<1>14. OpenInv(s)'
  BY <1>1, <1>2, <1>4, <1>6, <1>10, <1>11, <1>12, <1>13 DEF OpenInv, Disk
<1>. QED
  BY <1>1, <1>3, <1>6, <1>14 DEF IInv

LEMMA FinishOpen == IInv /\ pc = "open" /\ Finish => IInv'
<1>. SUFFICES ASSUME IInv, pc = "open", Finish PROVE IInv'
  OBVIOUS
<1>1. Typed /\ Typed' /\ task = "clean"
  BY FinishTyped DEF IInv, Finish
<1>2. PICK s \in {manifests[vset.manifest]} : OpenInv(s)
  BY DEF IInv
<1>3. /\ UNCHANGED <<current, manifests, logs, tables, vset, memtable, immtable, logFileNumber,
                     out, todo, acked>>
      /\ task' = "idle" /\ pc' = "open"
  BY <1>1 DEF Finish, disk
<1>4. NumbersFresh' /\ MemoryInv' /\ RestInv(s)'
  BY <1>1, <1>2, <1>3 DEF OpenInv, NumbersFresh, MemoryInv, RestInv
<1>5. OpenInv(s)'
  BY <1>1, <1>2, <1>3, <1>4 DEF OpenInv, Disk
<1>. QED
  BY <1>1, <1>3, <1>5 DEF IInv

LEMMA RefuseKeeps == IInv /\ Refuse => IInv'
<1>. SUFFICES ASSUME IInv, Refuse PROVE IInv'
  OBVIOUS
<1>1. Typed /\ Typed' /\ pc = "down" /\ pc' = "broken" /\ manifests' = manifests /\ current' = current
  BY RefuseTyped DEF IInv, Refuse, disk
<1>2. current = 0
  <2>. SUFFICES ASSUME current # 0 PROVE FALSE
    OBVIOUS
  <2>1. OnDisk(manifests, tables, logs, acked, current)
    BY <1>1 DEF IInv, Disk
  <2>2. current \in DOMAIN manifests /\ \A t \in manifests[current].version : t.number \in DOMAIN tables
    BY <2>1 DEF OnDisk, Tabled, Ordered, Settled, Complete
  <2>. QED
    BY <2>2 DEF Refuse, Missing
<1>. QED
  BY <1>1, <1>2 DEF IInv
-----------------------------------------------------------------------------
(* Recovery: what it writes to its manifest is all that it needs.          *)
LEMMA EditDisk ==
  ASSUME Typed, task \in {"truncate", "write", "clean"}, EditInv,
         vset.manifest \in DOMAIN manifests, manifests[vset.manifest] = edit
  PROVE  OnDisk(manifests, tables, logs, acked, vset.manifest)
<1>1. /\ logFileNumber \in Nat /\ vset.manifest \in Nat /\ edit.logNumber = logFileNumber
      /\ edit.nextFile = logFileNumber + 1 /\ logs[logFileNumber] = <<>>
      /\ logFileNumber \in DOMAIN logs /\ edit.lastSequence = vset.lastSequence
      /\ vset.manifest < logFileNumber
  BY CounterFields DEF Typed, ProcessTyped, Control, EditInv
<1>2. /\ \A n \in DOMAIN logs : n \in Nat /\ n <= logFileNumber
      /\ \A t \in DOMAIN tables : t \in Nat /\ t < logFileNumber
      /\ \A t \in edit.version : t.number \in Nat /\ t.number < logFileNumber /\ t.number # vset.manifest
  BY WritesTyped, EditFields DEF EditInv, Typed, ProcessTyped
<1>3. Marked(vset.manifest, edit)
  BY <1>1, <1>2 DEF Marked
<1>4. Orphans(tables, logs, edit)
  BY <1>1, <1>2 DEF Orphans
<1>5. Attempts(manifests, logs, vset.manifest, edit)
  BY DEF EditInv, Attempts
<1>6. Tabled(tables, edit)
  BY DEF EditInv
<1>7. Live(logs, edit) = {logFileNumber} /\ edit.nextFile \notin DOMAIN logs
  BY <1>1, <1>2 DEF Live
<1>8. Logging(tables, logs, edit)
  <2>1. \A n \in DOMAIN logs : \A x \in Logged(logs, n) : x <= edit.lastSequence
    BY <1>1 DEF EditInv
  <2>2. ~Filled(logs, logFileNumber) /\ Logged(logs, logFileNumber) = {}
    BY <1>1, WritesTyped DEF Filled
  <2>3. \A y : Above({}, y)
    BY DEF Above
  <2>. QED
    BY <1>1, <1>7, <2>1, <2>2, <2>3 DEF Logging
<1>9. Durable(tables, logs, acked, edit)
  BY DEF EditInv, Durable
<1>. QED
  BY <1>3, <1>4, <1>5, <1>6, <1>8, <1>9 DEF OnDisk

(* Whatever the process does, the manifest that CURRENT names is enough to *)
(* recover from.                                                           *)
LEMMA AlwaysOnDisk ==
  ASSUME IInv, current # 0
  PROVE  OnDisk(manifests, tables, logs, acked, current)
<1>1. Typed /\ pc \in {"open", "recovering", "down", "broken"}
  BY DEF IInv, Typed, ProcessTyped
<1>2. CASE pc = "open"
  <2>1. PICK s \in {manifests[vset.manifest]} : OpenInv(s)
    BY <1>2 DEF IInv
  <2>. QED
    BY <2>1 DEF OpenInv, Disk
<1>3. CASE pc = "recovering"
  <2>1. task \in {"replay", "table", "append", "truncate", "write", "clean"} /\ RecoveryInv
    BY <1>1, <1>3 DEF IInv, Typed, ProcessTyped, Control
  <2>2. CASE task = "clean"
    BY <1>1, <2>1, <2>2, EditDisk DEF RecoveryInv
  <2>. QED
    BY <2>1, <2>2 DEF RecoveryInv, Disk
<1>. QED
  BY <1>1, <1>2, <1>3 DEF IInv, Disk

LEMMA CrashKeeps == IInv /\ Crash => IInv'
<1>. SUFFICES ASSUME IInv, Crash PROVE IInv'
  OBVIOUS
<1>1. /\ Typed' /\ pc' = "down"
      /\ UNCHANGED <<current, manifests, logs, tables, acked>>
      /\ memtable' = {} /\ immtable' = {}
  BY CrashTyped DEF IInv, Crash, disk
<1>. QED
  BY <1>1, AlwaysOnDisk DEF IInv, Disk

LEMMA TruncateCurrentRecovering == IInv /\ pc = "recovering" /\ TruncateCurrent => IInv'
<1>. SUFFICES ASSUME IInv, pc = "recovering", TruncateCurrent PROVE IInv'
  OBVIOUS
<1>1. Typed /\ Typed' /\ task = "truncate" /\ RecoveryInv
  BY TruncateCurrentTyped DEF IInv, TruncateCurrent
<1>2. /\ UNCHANGED <<manifests, logs, tables, pc, vset, memtable, immtable, logFileNumber,
                     edit, out, todo, acked>>
      /\ task' = "write" /\ current' = 0
  BY DEF TruncateCurrent
<1>3. EditInv'
  BY <1>1, <1>2 DEF RecoveryInv, EditInv
<1>4. RecoveryInv'
  BY <1>1, <1>2, <1>3 DEF RecoveryInv
<1>. QED
  BY <1>1, <1>2, <1>4 DEF IInv

LEMMA WriteCurrentRecovering == IInv /\ pc = "recovering" /\ WriteCurrent => IInv'
<1>. SUFFICES ASSUME IInv, pc = "recovering", WriteCurrent PROVE IInv'
  OBVIOUS
<1>1. Typed /\ Typed' /\ task = "write" /\ RecoveryInv
  BY WriteCurrentTyped DEF IInv, WriteCurrent
<1>2. /\ UNCHANGED <<manifests, logs, tables, pc, memtable, logFileNumber, edit, todo, acked>>
      /\ task' = "clean" /\ current' = vset.manifest /\ immtable' = {}
      /\ vset' = [vset EXCEPT !.version = edit.version, !.logNumber = edit.logNumber]
  BY DEF WriteCurrent
<1>3. /\ vset'.lastSequence = vset.lastSequence /\ vset'.version = edit.version
      /\ vset'.manifest = vset.manifest /\ vset'.nextFile = vset.nextFile
      /\ vset'.logNumber = edit.logNumber
  BY <1>1, <1>2 DEF Typed, ProcessTyped, Counters
<1>4. EditInv'
  BY <1>1, <1>2, <1>3 DEF RecoveryInv, EditInv
<1>5. RecoveryInv'
  BY <1>1, <1>2, <1>3, <1>4 DEF RecoveryInv
<1>. QED
  BY <1>1, <1>2, <1>5 DEF IInv

LEMMA DeleteObsoleteRecovering == IInv /\ pc = "recovering" /\ DeleteObsolete => IInv'
<1>. SUFFICES ASSUME IInv, pc = "recovering", DeleteObsolete PROVE IInv'
  OBVIOUS
<1>1. Typed /\ Typed' /\ task = "clean" /\ RecoveryInv
  BY DeleteObsoleteTyped DEF IInv, DeleteObsolete
<1>2. /\ EditInv /\ vset.manifest \in DOMAIN manifests /\ manifests[vset.manifest] = edit
      /\ current = vset.manifest /\ vset.version = edit.version /\ vset.logNumber = edit.logNumber
      /\ vset.manifest \in Nat /\ logFileNumber \in DOMAIN logs /\ logFileNumber \in Nat
      /\ logFileNumber = edit.logNumber
  BY <1>1, CounterFields DEF RecoveryInv, EditInv, Typed, ProcessTyped,
     Control
<1>3. /\ UNCHANGED <<current, pc, task, vset, memtable, immtable, logFileNumber, edit, out, todo,
                     acked>>
      /\ \A m \in DOMAIN manifests' : m \in DOMAIN manifests /\ manifests'[m] = manifests[m]
      /\ \A n \in DOMAIN logs' : n \in DOMAIN logs /\ logs'[n] = logs[n]
      /\ \A t \in DOMAIN tables' : t \in DOMAIN tables /\ tables'[t] = tables[t]
      /\ vset.manifest \in DOMAIN manifests' /\ logFileNumber \in DOMAIN logs'
      /\ \A t \in edit.version : t.number \in DOMAIN tables => t.number \in DOMAIN tables'
  <2>1. vset.manifest >= vset.manifest /\ logFileNumber >= vset.logNumber
    BY <1>2
  <2>. QED
    BY <1>1, <1>2, <2>1, Unlinked DEF process
<1>4. Ordered(tables', edit.version) /\ Covered(tables', edit.version) = Covered(tables, edit.version)
  <2>1. Ordered(tables, edit.version)
    BY <1>2 DEF EditInv, Tabled
  <2>2. \A t \in edit.version : t.number \in DOMAIN tables
    BY <2>1 DEF Ordered, Settled, Complete
  <2>. QED
    BY <1>3, <2>1, <2>2, SameTables
<1>5. EditInv'
  <2>1. \A n \in DOMAIN logs' : Logged(logs', n) = Logged(logs, n)
    BY <1>3 DEF Logged
  <2>2. Tabled(tables', edit)
    BY <1>2, <1>4 DEF EditInv, Tabled
  <2>. QED
    BY <1>2, <1>3, <1>4, <2>1, <2>2 DEF EditInv
<1>6. RecoveryInv'
  BY <1>1, <1>2, <1>3, <1>5 DEF RecoveryInv
<1>. QED
  BY <1>1, <1>3, <1>6 DEF IInv

(* When all that is obsolete is gone the new files share no numbers.       *)
LEMMA FinishRecovering == IInv /\ pc = "recovering" /\ Finish => IInv'
<1>. SUFFICES ASSUME IInv, pc = "recovering", Finish PROVE IInv'
  OBVIOUS
<1>1. Typed /\ Typed' /\ task = "clean" /\ RecoveryInv
  BY FinishTyped DEF IInv, Finish
<1>2. /\ EditInv /\ vset.manifest \in DOMAIN manifests /\ manifests[vset.manifest] = edit
      /\ current = vset.manifest /\ vset.version = edit.version /\ vset.logNumber = edit.logNumber
      /\ immtable = {}
  BY <1>1 DEF RecoveryInv
<1>3. /\ UNCHANGED <<current, manifests, logs, tables, vset, memtable, immtable, logFileNumber,
                     out, todo, acked>>
      /\ task' = "idle" /\ pc' = "open"
  BY DEF Finish, disk
<1>4. /\ logFileNumber \in Nat /\ vset.manifest \in Nat /\ edit.logNumber = logFileNumber
      /\ vset.nextFile = logFileNumber + 1 /\ edit.nextFile = vset.nextFile
      /\ logFileNumber \in DOMAIN logs
      /\ edit.lastSequence = vset.lastSequence /\ vset.manifest < logFileNumber
      /\ memtable = {} /\ logs[logFileNumber] = <<>>
  BY <1>1, <1>2, CounterFields DEF Typed, ProcessTyped, Control, EditInv
<1>5. OnDisk(manifests, tables, logs, acked, vset.manifest)
  BY <1>1, <1>2, EditDisk
<1>6. /\ \A n \in DOMAIN logs : n = logFileNumber
      /\ \A t \in DOMAIN tables : t \in Nat /\ t < logFileNumber /\ t # vset.manifest
  <2>1. \A n \in DOMAIN logs : n \in Nat /\ n <= logFileNumber /\ ~(n < logFileNumber)
    BY <1>1, <1>2, <1>4, WritesTyped DEF Finish, OldLogs, EditInv
  <2>2. \A t \in DOMAIN tables : t \in Nat /\ t < logFileNumber /\ \E u \in edit.version : t = u.number
    BY <1>1, <1>2, WritesTyped DEF Finish, OldTables, EditInv
  <2>. QED
    BY <1>2, <1>4, <2>1, <2>2 DEF EditInv
<1>7. NumbersFresh'
  BY <1>3, <1>4, <1>6 DEF NumbersFresh
<1>8. MemoryInv'
  <2>1. Logged(logs, logFileNumber) = {}
    BY <1>1, <1>4, WritesTyped
  <2>2. Ordered(tables, edit.version) /\ \A x \in Covered(tables, edit.version) : x <= vset.lastSequence
    BY <1>2, <1>4 DEF EditInv, Tabled
  <2>3. /\ Covered(tables, edit.version) \in SUBSET (1..MaxWrites)
        /\ MaxWrites \in Nat /\ vset.lastSequence \in 0..MaxWrites
    BY <1>1, <2>2, WritesTyped
  <2>4. \A x \in Covered(tables, edit.version) : x < vset.lastSequence + 1
    BY <2>2, <2>3
  <2>5. \A y : Above({}, y)
    BY DEF Above
  <2>6. acked = 0 \/ acked \in Covered(tables, edit.version)
    BY <1>2 DEF EditInv
  <2>7. 0 < vset.lastSequence + 1
    BY <2>3
  <2>. QED
    BY <1>2, <1>3, <1>4, <1>6, <2>1, <2>2, <2>4, <2>5, <2>6, <2>7 DEF
       MemoryInv
<1>9. PICK s \in {manifests[vset.manifest]} : s = edit
  BY <1>2
<1>10. RestInv(s)'
  <2>1. \A t \in DOMAIN tables : t < s.nextFile
    BY <1>4, <1>6, <1>9
  <2>. QED
    BY <1>2, <1>3, <1>4, <1>9, <2>1 DEF RestInv
<1>11. \A m \in DOMAIN manifests : m <= vset.manifest
  BY <1>2 DEF EditInv
<1>12. OpenInv(s)'
  BY <1>2, <1>3, <1>5, <1>7, <1>8, <1>10, <1>11 DEF OpenInv, Disk
<1>. QED
  BY <1>1, <1>3, <1>9, <1>12 DEF IInv

(* What a recovery finds.                                                  *)
LEMMA RecoveringFrom ==
  ASSUME Typed, 0 \notin DOMAIN manifests, Disk(current), NEW s \in {manifests[current]}
  PROVE  /\ s \in Edits /\ s = manifests[current] /\ current \in DOMAIN manifests
         /\ current \in Nat /\ current # 0
         /\ s.logNumber \in Nat /\ s.nextFile \in Nat /\ s.logNumber < s.nextFile
         /\ current < s.nextFile /\ s.lastSequence \in 0..MaxWrites
         /\ \A t \in s.version : t.number \in Nat /\ t.number < s.nextFile
         /\ Orphans(tables, logs, s) /\ Attempts(manifests, logs, current, s)
         /\ Tabled(tables, s) /\ Logging(tables, logs, s) /\ Durable(tables, logs, acked, s)
         /\ \A n \in DOMAIN logs : n >= s.logNumber /\ Filled(logs, n) =>
              n = s.logNumber \/ (n = s.nextFile /\ Filled(logs, s.logNumber))
<1>1. OnDisk(manifests, tables, logs, acked, current) /\ s = manifests[current]
  BY DEF Disk
<1>2. current \in DOMAIN manifests /\ current \in Nat /\ current # 0
  BY <1>1 DEF OnDisk, Typed, FilesTyped
<1>3. s \in Edits
  BY <1>1, <1>2 DEF Typed, FilesTyped, ManifestsTyped
<1>. QED
  BY <1>1, <1>2, <1>3, EditFields DEF OnDisk, Marked, Logging, Live

LEMMA OpenKeeps == IInv /\ Open => IInv'
<1>. SUFFICES ASSUME IInv, Open PROVE IInv'
  OBVIOUS
<1>1. Typed /\ Typed' /\ pc = "down" /\ task = "idle" /\ memtable = {} /\ immtable = {}
  BY OpenTyped DEF IInv, Open, Typed, Control
<1>2. Disk(current)
  BY <1>1 DEF IInv, Open
<1>3. PICK s \in {manifests[current]} : TRUE
  OBVIOUS
<1>4. /\ s = manifests[current] /\ s.logNumber \in Nat /\ s.nextFile \in Nat
      /\ s.logNumber < s.nextFile /\ s.lastSequence \in 0..MaxWrites
  BY <1>1, <1>2, RecoveringFrom DEF IInv
<1>5. /\ UNCHANGED <<current, manifests, logs, tables, memtable, immtable, acked>>
      /\ pc' = "recovering" /\ task' = "replay"
      /\ vset' = Recovered(s) /\ edit' = [NoEdit EXCEPT !.version = s.version]
      /\ todo' = {n \in DOMAIN logs : n >= s.logNumber}
  BY <1>1, <1>4 DEF Open, disk
<1>6. /\ vset'.version = s.version /\ vset'.logNumber = s.logNumber /\ vset'.manifest = s.nextFile
      /\ vset'.nextFile = s.nextFile + 1 /\ vset'.lastSequence = s.lastSequence
      /\ edit'.version = s.version
  BY <1>5 DEF Recovered, NoEdit
<1>7. Disk(current)'
  BY <1>2, <1>5 DEF Disk
<1>8. \A n \in DOMAIN logs \ todo' : n \in Nat /\ n < s.logNumber
  BY <1>1, <1>4, <1>5, WritesTyped
<1>9. ReplayInv(s)'
  <2>1. Replayed(logs, s, DOMAIN logs \ todo') = s.version
    <3>1. s.logNumber \notin DOMAIN logs \ todo' /\ s.nextFile \notin DOMAIN logs \ todo'
      BY <1>4, <1>8
    <3>. QED
      BY <3>1 DEF Replayed
  <2>2. \A m \in DOMAIN logs \ todo', n \in todo' : m < n
    <3>. TAKE m \in DOMAIN logs \ todo', n \in todo'
    <3>1. m \in Nat /\ m < s.logNumber /\ n \in Nat /\ n >= s.logNumber
      BY <1>1, <1>5, <1>8, WritesTyped
    <3>. QED
      BY <1>4, <3>1
  <2>3. s.lastSequence <= s.lastSequence
    BY <1>1, <1>4, WritesTyped
  <2>4. \A n \in DOMAIN logs \ todo' : ~(n >= s.logNumber)
    BY <1>4, <1>8
  <2>5. \A n \in DOMAIN logs : (n \in todo' => n >= s.logNumber) /\ (n < s.logNumber => n \notin todo')
    BY <1>1, <1>4, <1>5, WritesTyped
  <2>6. s.nextFile + 1 > s.nextFile /\ s.logNumber \notin DOMAIN logs \ todo'
    BY <1>4, <1>8
  <2>. QED
    BY <1>1, <1>5, <1>6, <2>1, <2>2, <2>3, <2>4, <2>5, <2>6 DEF ReplayInv
<1>10. RecoveryInv'
  BY <1>1, <1>4, <1>5, <1>7, <1>9 DEF RecoveryInv
<1>. QED
  BY <1>1, <1>5, <1>10 DEF IInv

(* With numbers that sort as such, the first log is the one of the least.  *)
LEMMA FirstIsLeast ==
  ASSUME Typed, InOrder(todo), NEW n \in First(todo)
  PROVE  n \in todo /\ n \in DOMAIN logs /\ n \in Nat /\ \A m \in todo \ {n} : m \in Nat /\ n < m
<1>1. todo \subseteq DOMAIN logs /\ DOMAIN logs \subseteq Nat
  BY DEF Typed, ProcessTyped, FilesTyped, LogsTyped
<1>. QED
  BY <1>1 DEF First, InOrder

(* An empty log adds nothing.                                              *)
LEMMA ReplayedEmpty ==
  ASSUME NEW s, NEW done, NEW n, ~Filled(logs, n)
  PROVE  Replayed(logs, s, done \cup {n}) = Replayed(logs, s, done)
<1>1. /\ (Filled(logs, s.logNumber) /\ s.logNumber \in done \cup {n})
           <=> (Filled(logs, s.logNumber) /\ s.logNumber \in done)
      /\ (Filled(logs, s.nextFile) /\ s.nextFile \in done \cup {n})
           <=> (Filled(logs, s.nextFile) /\ s.nextFile \in done)
  OBVIOUS
<1>. QED
  BY <1>1 DEF Replayed

LEMMA ReplayEmptyKeeps ==
  ASSUME IInv, Typed', InOrder(todo), task = "replay", pc = "recovering",
         NEW n \in First(todo), logs[n] = <<>>,
         vset' = MarkFileNumberUsed(vset, n), todo' = todo \ {n},
         UNCHANGED <<tables, memtable, out, task, current, manifests, logs, pc, immtable,
                     logFileNumber, edit, acked>>
  PROVE  IInv'
<1>1. Typed /\ RecoveryInv /\ Disk(current)
  BY DEF IInv, RecoveryInv
<1>2. PICK s \in {manifests[current]} : ReplayInv(s)
  BY <1>1 DEF RecoveryInv
<1>. DEFINE a == s.logNumber
            b == s.nextFile
            done == DOMAIN logs \ todo
<1>3. /\ s = manifests[current] /\ a \in Nat /\ b \in Nat /\ a < b
      /\ \A k \in DOMAIN logs : k >= a /\ Filled(logs, k) => k = a \/ (k = b /\ Filled(logs, a))
  BY <1>1, <1>2, RecoveringFrom DEF IInv
<1>4. /\ n \in todo /\ n \in DOMAIN logs /\ n \in Nat /\ \A m \in todo \ {n} : m \in Nat /\ n < m
      /\ ~Filled(logs, n)
  BY <1>1, FirstIsLeast DEF Filled
<1>5. /\ vset'.version = vset.version /\ vset'.logNumber = vset.logNumber
      /\ vset'.manifest = vset.manifest /\ vset'.lastSequence = vset.lastSequence
      /\ vset'.nextFile = IF vset.nextFile <= n THEN n + 1 ELSE vset.nextFile
      /\ vset.nextFile \in Nat
  BY <1>1, <1>4, MarkTyped DEF Typed, ProcessTyped, Counters
<1>6. /\ vset.version = s.version /\ vset.logNumber = a /\ vset.manifest = b
      /\ \A k \in DOMAIN logs : k \in todo => k >= a
      /\ \A k \in DOMAIN logs : k < a => k \in done
      /\ \A m \in done, k \in todo : m < k
      /\ edit.version = Replayed(logs, s, done)
      /\ s.lastSequence <= vset.lastSequence
      /\ \A k \in done : k >= a => \A x \in Logged(logs, k) : x <= edit.lastSequence
      /\ vset.nextFile > b
      /\ \A k \in done : k >= a =>
           /\ k < vset.nextFile
           /\ Filled(logs, k) => b + 1 < vset.nextFile /\ Complete(tables, b + 1)
           /\ Filled(logs, k) /\ k = b => b + 2 < vset.nextFile /\ Complete(tables, b + 2)
      /\ memtable = {}
      /\ Filled(logs, a) /\ a \in todo => vset.nextFile = b + 1
      /\ Filled(logs, b) /\ b \in todo /\ a \in done => vset.nextFile = b + 2
  BY <1>2 DEF ReplayInv
<1>7. DOMAIN logs \ todo' = done \cup {n}
  BY <1>4
<1>8. \A k \in DOMAIN logs : k \in Nat
  BY <1>1, WritesTyped
<1>. HIDE DEF a, b, done
<1>9. vset'.nextFile > b /\ vset'.nextFile >= vset.nextFile /\ n < vset'.nextFile /\ vset'.nextFile \in Nat
  BY <1>3, <1>4, <1>5, <1>6
<1>10. a \notin todo'
  BY <1>3, <1>4, <1>6
<1>11. Filled(logs, b) /\ b \in todo' => vset'.nextFile = b + 2
  <2>. SUFFICES ASSUME Filled(logs, b), b \in todo' PROVE vset'.nextFile = b + 2
    OBVIOUS
  <2>1. b \in DOMAIN logs /\ b >= a /\ Filled(logs, a) /\ a \in DOMAIN logs
    BY <1>3 DEF Filled
  <2>2. a \in done
    BY <1>4, <1>7, <1>10, <2>1
  <2>3. vset.nextFile = b + 2 /\ n < b
    BY <1>4, <1>6, <2>2
  <2>. QED
    BY <1>3, <1>4, <1>5, <2>3
<1>12. ReplayInv(s)'
  <2>1. Replayed(logs, s, done \cup {n}) = Replayed(logs, s, done)
    BY <1>4, ReplayedEmpty
  <2>2. \A m \in done \cup {n}, k \in todo' : m < k
    BY <1>4, <1>6
  <2>3. \A k \in done \cup {n} : k >= a => \A x \in Logged(logs, k) : x <= edit.lastSequence
    BY <1>1, <1>4, <1>6, WritesTyped DEF Filled
  <2>4. \A k \in done \cup {n} : k >= a =>
           /\ k < vset'.nextFile
           /\ Filled(logs, k) => b + 1 < vset'.nextFile /\ Complete(tables, b + 1)
           /\ Filled(logs, k) /\ k = b => b + 2 < vset'.nextFile /\ Complete(tables, b + 2)
    <3>. SUFFICES ASSUME NEW k \in done, k >= a
                  PROVE  /\ k < vset'.nextFile
                         /\ Filled(logs, k) => b + 1 < vset'.nextFile /\ Complete(tables, b + 1)
                         /\ Filled(logs, k) /\ k = b => b + 2 < vset'.nextFile /\ Complete(tables, b + 2)
      BY <1>4, <1>9
    <3>1. k \in Nat
      BY <1>8 DEF done
    <3>. QED
      BY <1>3, <1>5, <1>6, <1>9, <3>1
  <2>5. \A k \in DOMAIN logs : (k \in todo' => k >= a) /\ (k < a => k \in done \cup {n})
    BY <1>6
  <2>6. task' # "table"
    OBVIOUS
  <2>. QED
    BY <1>5, <1>6, <1>7, <1>9, <1>10, <1>11, <2>1, <2>2, <2>3, <2>4, <2>5,
       <2>6 DEF ReplayInv, a, b, done
<1>13. Disk(current)'
  BY <1>1 DEF Disk
<1>14. RecoveryInv'
  BY <1>1, <1>3, <1>12, <1>13 DEF RecoveryInv
<1>. QED
  BY <1>14 DEF IInv

(* Any other is one of two, and its table is begun after the tables of     *)
(* earlier attempts at the same log.                                       *)
LEMMA ReplayFilledKeeps ==
  ASSUME IInv, Typed', InOrder(todo), task = "replay", pc = "recovering",
         NEW n \in First(todo), logs[n] # <<>>,
         memtable' = ToSet(logs[n]), out' = vset.nextFile, tables' = OpenImage(vset.nextFile),
         vset' = [vset EXCEPT !.nextFile = @ + 1], task' = "table",
         UNCHANGED <<todo, current, manifests, logs, pc, immtable, logFileNumber, edit, acked>>
  PROVE  IInv'
<1>1. Typed /\ RecoveryInv /\ Disk(current)
  BY DEF IInv, RecoveryInv
<1>2. PICK s \in {manifests[current]} : ReplayInv(s)
  BY <1>1 DEF RecoveryInv
<1>. DEFINE a == s.logNumber
            b == s.nextFile
            done == DOMAIN logs \ todo
            t == vset.nextFile
<1>3. /\ s = manifests[current] /\ a \in Nat /\ b \in Nat /\ a < b
      /\ current \in DOMAIN manifests
      /\ \A u \in s.version : u.number \in Nat /\ u.number < b
      /\ Tabled(tables, s) /\ Logging(tables, logs, s)
      /\ Durable(tables, logs, acked, s) /\ Attempts(manifests, logs, current, s)
      /\ Orphans(tables, logs, s)
      /\ \A k \in DOMAIN logs : k >= a /\ Filled(logs, k) => k = a \/ (k = b /\ Filled(logs, a))
  BY <1>1, <1>2, RecoveringFrom DEF IInv
<1>4. /\ n \in todo /\ n \in DOMAIN logs /\ n \in Nat /\ \A m \in todo \ {n} : m \in Nat /\ n < m
      /\ Filled(logs, n)
  BY <1>1, FirstIsLeast DEF Filled
<1>5. /\ vset'.version = vset.version /\ vset'.logNumber = vset.logNumber
      /\ vset'.manifest = vset.manifest /\ vset'.lastSequence = vset.lastSequence
      /\ vset'.nextFile = t + 1 /\ t \in Nat
  BY <1>1 DEF Typed, ProcessTyped, Counters
<1>6. /\ vset.version = s.version /\ vset.logNumber = a /\ vset.manifest = b
      /\ \A k \in DOMAIN logs : k \in todo => k >= a
      /\ \A k \in DOMAIN logs : k < a => k \in done
      /\ \A m \in done, k \in todo : m < k
      /\ edit.version = Replayed(logs, s, done)
      /\ s.lastSequence <= vset.lastSequence
      /\ \A k \in done : k >= a => \A x \in Logged(logs, k) : x <= edit.lastSequence
      /\ t > b
      /\ \A k \in done : k >= a =>
           /\ k < t
           /\ Filled(logs, k) => b + 1 < t /\ Complete(tables, b + 1)
           /\ Filled(logs, k) /\ k = b => b + 2 < t /\ Complete(tables, b + 2)
      /\ Filled(logs, a) /\ a \in todo => t = b + 1
      /\ Filled(logs, b) /\ b \in todo /\ a \in done => t = b + 2
  BY <1>2 DEF ReplayInv
<1>7. \A k \in DOMAIN logs : k \in Nat
  BY <1>1, WritesTyped
<1>. HIDE DEF a, b, done, t
<1>8. n \in {a, b} /\ t = b + (IF n = a THEN 1 ELSE 2)
  <2>1. n = a \/ (n = b /\ Filled(logs, a))
    BY <1>3, <1>4, <1>6
  <2>2. CASE n = a
    BY <1>4, <1>6, <2>2
  <2>3. CASE n = b /\ n # a
    <3>1. a \in DOMAIN logs
      BY <2>1, <2>3 DEF Filled
    <3>2. a \in done
      BY <1>3, <1>4, <2>3, <3>1 DEF done
    <3>. QED
      BY <1>4, <1>6, <2>3, <3>2
  <2>. QED
    BY <2>1, <2>2, <2>3
<1>9. t \in {b + 1, b + 2} /\ t > b
  BY <1>3, <1>8 DEF t
<1>10. DOMAIN tables' = DOMAIN tables \cup {t} /\ \A u \in DOMAIN tables : u # t => tables'[u] = tables[u]
  BY DEF OpenImage, Put, t
<1>11. Ordered(tables', s.version) /\ Covered(tables', s.version) = Covered(tables, s.version)
  <2>1. Ordered(tables, s.version)
    BY <1>3 DEF Tabled
  <2>2. \A u \in s.version : u.number \in DOMAIN tables /\ u.number # t
    BY <1>3, <1>5, <1>9, <2>1 DEF Ordered, Settled, Complete
  <2>. QED
    BY <1>10, <2>1, <2>2, SameTables
<1>12. CopyOf(tables', logs, t, n)
  <2>1. ASSUME t \in DOMAIN tables PROVE CopyOf(tables, logs, t, n)
    <3>1. \/ t < b
          \/ t = b + 1 /\ CopyOf(tables, logs, t, a)
          \/ t = b + 2 /\ CopyOf(tables, logs, t, b)
      BY <1>3, <2>1 DEF Orphans, a, b
    <3>. QED
      BY <1>3, <1>5, <1>8, <1>9, <3>1
  <2>. DEFINE before == IF t \in DOMAIN tables THEN tables[t] ELSE <<>>
  <2>2. tables'[t] = before \o <<Begun>>
    BY DEF OpenImage, Put, Begun, t
  <2>3. before \in Seq(Images) /\ Begun \in Images
    <3>1. Begun \in Images
      BY DEF Images, Begun
    <3>2. t \in DOMAIN tables => tables[t] \in Seq(Images)
      BY <1>1 DEF Typed, FilesTyped, TablesTyped
    <3>. QED
      BY <3>1, <3>2
  <2>4. \A i \in 1..Len(before) : before[i] \in {Begun, [recs |-> Logged(logs, n), whole |-> TRUE]}
    <3>2. CASE t \in DOMAIN tables
      BY <2>1, <3>2 DEF CopyOf
    <3>3. CASE t \notin DOMAIN tables
      <4>1. before = <<>>
        BY <3>3
      <4>. HIDE DEF before
      <4>2. 1..Len(before) = {}
        BY <4>1
      <4>. QED
        BY <4>2
    <3>. QED
      BY <3>2, <3>3
  <2>. HIDE DEF before
  <2>5. /\ Len(tables'[t]) = Len(before) + 1 /\ Len(before) \in Nat
        /\ tables'[t][Len(before) + 1] = Begun
        /\ \A i \in 1..Len(before) : tables'[t][i] = before[i]
    BY <2>2, <2>3, OneMore, LenProperties
  <2>6. \A i \in 1..Len(tables'[t]) : i = Len(tables'[t]) \/ i \in 1..Len(before)
    BY <2>5
  <2>. QED
    BY <1>4, <2>4, <2>5, <2>6 DEF CopyOf
<1>13. Disk(current)'
  <2>1. Orphans(tables', logs, s)
    <3>. SUFFICES ASSUME NEW u \in DOMAIN tables'
                  PROVE  \/ u < b
                         \/ u = b + 1 /\ CopyOf(tables', logs, u, a)
                         \/ u = b + 2 /\ CopyOf(tables', logs, u, b)
      BY DEF Orphans, a, b
    <3>1. CASE u = t
      BY <1>3, <1>8, <1>12, <3>1
    <3>2. CASE u # t
      <4>1. u \in DOMAIN tables /\ tables'[u] = tables[u]
        BY <1>10, <3>2
      <4>2. \/ u < b
            \/ u = b + 1 /\ CopyOf(tables, logs, u, a)
            \/ u = b + 2 /\ CopyOf(tables, logs, u, b)
        BY <1>3, <4>1 DEF Orphans, a, b
      <4>3. u # 0 => \A k : CopyOf(tables, logs, u, k) => CopyOf(tables', logs, u, k)
        BY <4>1 DEF CopyOf
      <4>. QED
        BY <1>3, <4>2, <4>3
    <3>. QED
      BY <3>1, <3>2
  <2>2. Tabled(tables', s) /\ Logging(tables', logs, s) /\ Durable(tables', logs, acked, s)
    BY <1>3, <1>11 DEF Tabled, Logging, Durable
  <2>3. Marked(current, s)
    BY <1>1, <1>3 DEF Disk, OnDisk
  <2>. QED
    BY <1>3, <1>9, <2>1, <2>2, <2>3 DEF Disk, OnDisk
<1>14. ReplayInv(s)'
  <2>1. \A k \in done : k >= a =>
           /\ k < t + 1
           /\ Filled(logs, k) => b + 1 < t + 1 /\ Complete(tables', b + 1)
           /\ Filled(logs, k) /\ k = b => b + 2 < t + 1 /\ Complete(tables', b + 2)
    <3>. TAKE k \in done
    <3>. HAVE k >= a
    <3>1. k \in Nat
      BY <1>7 DEF done
    <3>2. \A u : u # t /\ Complete(tables, u) => Complete(tables', u)
      BY <1>10 DEF Complete
    <3>3. b + 1 < t => b + 1 # t
      BY <1>3, <1>9
    <3>4. b + 2 < t => b + 2 # t
      BY <1>3, <1>9
    <3>. QED
      BY <1>3, <1>5, <1>6, <1>10, <3>1, <3>2, <3>3, <3>4
  <2>2. /\ memtable' = Logged(logs, n) /\ out' = b + (IF n = a THEN 1 ELSE 2)
        /\ vset'.nextFile = out' + 1 /\ out' \in DOMAIN tables'
    BY <1>5, <1>8, <1>10 DEF Logged, t
  <2>3. t + 1 > b
    BY <1>3, <1>5, <1>6
  <2>4. n \in First(todo') /\ task' # "replay"
    OBVIOUS
  <2>. QED
    BY <1>4, <1>5, <1>6, <2>1, <2>2, <2>3, <2>4 DEF ReplayInv, a, b, done
<1>15. RecoveryInv'
  BY <1>1, <1>3, <1>13, <1>14 DEF RecoveryInv
<1>. QED
  BY <1>15 DEF IInv

LEMMA ReplayLogKeeps == IInv /\ ReplayLog /\ InOrder(todo) => IInv'
<1>. SUFFICES ASSUME IInv, ReplayLog, InOrder(todo) PROVE IInv'
  OBVIOUS
<1>1. Typed' /\ task = "replay" /\ pc = "recovering"
  BY ReplayLogTyped DEF IInv, ReplayLog, Typed, ProcessTyped, Control
<1>2. PICK n \in First(todo) :
        \/ /\ logs[n] = <<>>
           /\ vset' = MarkFileNumberUsed(vset, n)
           /\ todo' = todo \ {n}
           /\ UNCHANGED <<tables, memtable, out, task>>
        \/ /\ logs[n] # <<>>
           /\ memtable' = ToSet(logs[n])
           /\ out' = vset.nextFile
           /\ tables' = OpenImage(vset.nextFile)
           /\ vset' = [vset EXCEPT !.nextFile = @ + 1]
           /\ task' = "table"
           /\ UNCHANGED todo
  BY DEF ReplayLog
<1>3. UNCHANGED <<current, manifests, logs, pc, immtable, logFileNumber, edit, acked>>
  BY DEF ReplayLog
<1>4. CASE logs[n] = <<>>
  BY <1>1, <1>2, <1>3, <1>4, ReplayEmptyKeeps
<1>5. CASE logs[n] # <<>>
  BY <1>1, <1>2, <1>3, <1>5, ReplayFilledKeeps
<1>. QED
  BY <1>4, <1>5

(* The table holds the log, as do the images in front of it.               *)
LEMMA FinishReplayKeeps == IInv /\ FinishReplay /\ InOrder(todo) => IInv'
<1>. SUFFICES ASSUME IInv, FinishReplay, InOrder(todo) PROVE IInv'
  OBVIOUS
<1>1. /\ Typed /\ Typed' /\ task = "table" /\ pc = "recovering" /\ RecoveryInv /\ Disk(current)
  BY FinishReplayTyped DEF IInv, FinishReplay, RecoveryInv
<1>2. PICK s \in {manifests[current]} : ReplayInv(s)
  BY <1>1 DEF RecoveryInv
<1>. DEFINE a == s.logNumber
            b == s.nextFile
            done == DOMAIN logs \ todo
            image == [recs |-> memtable, whole |-> TRUE]
<1>3. /\ s = manifests[current] /\ a \in Nat /\ b \in Nat /\ a < b
      /\ \A u \in s.version : u.number \in Nat /\ u.number < b
      /\ Tabled(tables, s) /\ Logging(tables, logs, s)
      /\ Durable(tables, logs, acked, s) /\ Attempts(manifests, logs, current, s)
      /\ Orphans(tables, logs, s)
      /\ \A k \in DOMAIN logs : k >= a /\ Filled(logs, k) => k = a \/ (k = b /\ Filled(logs, a))
  BY <1>1, <1>2, RecoveringFrom DEF IInv
<1>4. /\ vset.version = s.version /\ vset.logNumber = a /\ vset.manifest = b
      /\ \A k \in DOMAIN logs : k \in todo => k >= a
      /\ \A k \in DOMAIN logs : k < a => k \in done
      /\ \A m \in done, k \in todo : m < k
      /\ edit.version = Replayed(logs, s, done)
      /\ s.lastSequence <= vset.lastSequence
      /\ \A k \in done : k >= a => \A x \in Logged(logs, k) : x <= edit.lastSequence
      /\ vset.nextFile > b
      /\ \A k \in done : k >= a =>
           /\ k < vset.nextFile
           /\ Filled(logs, k) => b + 1 < vset.nextFile /\ Complete(tables, b + 1)
           /\ Filled(logs, k) /\ k = b => b + 2 < vset.nextFile /\ Complete(tables, b + 2)
  BY <1>2 DEF ReplayInv
<1>5. PICK n \in First(todo) :
         /\ memtable = Logged(logs, n) /\ Filled(logs, n)
         /\ out = b + (IF n = a THEN 1 ELSE 2)
         /\ vset.nextFile = out + 1
         /\ out \in DOMAIN tables
  BY <1>1, <1>2 DEF ReplayInv
<1>6. /\ n \in todo /\ n \in DOMAIN logs /\ n \in Nat /\ \A m \in todo \ {n} : m \in Nat /\ n < m
  BY <1>1, FirstIsLeast
<1>7. /\ vset' = MarkFileNumberUsed(vset, n) /\ todo' = todo \ {n}
  <2>1. PICK m \in First(todo) : vset' = MarkFileNumberUsed(vset, m) /\ todo' = todo \ {m}
    BY DEF FinishReplay
  <2>2. m \in Nat /\ m \in todo /\ \A k \in todo \ {m} : m < k
    BY <1>1, FirstIsLeast
  <2>3. m = n
    BY <1>6, <2>2
  <2>. QED
    BY <2>1, <2>3
<1>8. /\ tables' = CloseImage(out, memtable) /\ memtable' = {} /\ task' = "replay"
      /\ edit' = [edit EXCEPT !.version = edit.version \cup {[number |-> out, level |-> 0]},
                              !.lastSequence = Max({edit.lastSequence, Max(memtable)})]
      /\ UNCHANGED <<current, manifests, logs, pc, immtable, logFileNumber, acked>>
  <2>1. edit \in [version : Versions, logNumber : Nat, nextFile : Nat, lastSequence : 0..MaxWrites]
    BY <1>1 DEF Typed, ProcessTyped, Edits
  <2>. QED
    BY <2>1 DEF FinishReplay
<1>9. /\ edit'.version = edit.version \cup {[number |-> out, level |-> 0]}
      /\ edit'.lastSequence = Max({edit.lastSequence, Max(memtable)})
  <2>1. edit \in [version : Versions, logNumber : Nat, nextFile : Nat, lastSequence : 0..MaxWrites]
    BY <1>1 DEF Typed, ProcessTyped, Edits
  <2>. QED
    BY <1>8, <2>1
<1>. HIDE DEF a, b, done
<1>10. /\ n \in {a, b} /\ out \in {b + 1, b + 2} /\ out \in Nat /\ out # 0 /\ n < vset.nextFile
       /\ n # a => a \in done /\ Filled(logs, a)
  <2>1. n = a \/ (n = b /\ Filled(logs, a))
    BY <1>3, <1>4, <1>5, <1>6
  <2>2. n # a => a \in done
    <3>. SUFFICES ASSUME n # a PROVE a \in done
      OBVIOUS
    <3>1. a \in DOMAIN logs /\ a < n
      BY <1>3, <2>1 DEF Filled
    <3>. QED
      BY <1>3, <1>6, <3>1 DEF done
  <2>. QED
    BY <1>3, <1>5, <2>1, <2>2
<1>11. /\ vset'.version = vset.version /\ vset'.logNumber = vset.logNumber
       /\ vset'.manifest = vset.manifest /\ vset'.lastSequence = vset.lastSequence
       /\ vset'.nextFile = vset.nextFile
  <2>1. vset.nextFile \in Nat /\ ~(vset.nextFile <= n)
    BY <1>1, <1>6, <1>10, CounterFields DEF Typed, ProcessTyped
  <2>. QED
    BY <1>1, <1>6, <1>7, <2>1, MarkTyped DEF Typed, ProcessTyped, Counters
<1>12. DOMAIN logs \ todo' = done \cup {n}
  BY <1>6, <1>7 DEF done
<1>13. /\ DOMAIN tables' = DOMAIN tables
       /\ \A u \in DOMAIN tables : u # out => tables'[u] = tables[u]
       /\ Len(tables'[out]) = Len(tables[out]) /\ tables'[out][Len(tables[out])] = image
       /\ Len(tables[out]) \in Nat
       /\ \A i \in 1..(Len(tables[out]) - 1) : tables'[out][i] = tables[out][i]
  <2>1. tables[out] \in Seq(Images) /\ tables[out] # <<>> /\ image \in Images
    BY <1>1, <1>5, WritesTyped DEF Typed, FilesTyped, TablesTyped, Images
  <2>2. tables' = [tables EXCEPT ![out] = Front(tables[out]) \o <<image>>]
    BY <1>5, <1>8 DEF CloseImage
  <2>. HIDE DEF image
  <2>3. LET t == Front(tables[out]) \o <<image>> IN
          /\ Len(t) = Len(tables[out]) /\ t[Len(tables[out])] = image
          /\ \A i \in 1..(Len(tables[out]) - 1) : t[i] = tables[out][i]
    BY <2>1, LastReplaced
  <2>. QED
    BY <1>5, <2>1, <2>2, <2>3, LenProperties
<1>14. CopyOf(tables', logs, out, n)
  <2>1. CopyOf(tables, logs, out, n)
    <3>1. \/ out < b
          \/ out = b + 1 /\ CopyOf(tables, logs, out, a)
          \/ out = b + 2 /\ CopyOf(tables, logs, out, b)
      BY <1>3, <1>5 DEF Orphans, a, b
    <3>. QED
      BY <1>3, <1>5, <1>10, <3>1
  <2>2. \A i \in 1..Len(tables[out]) :
          tables[out][i] \in {Begun, [recs |-> Logged(logs, n), whole |-> TRUE]}
    BY <2>1 DEF CopyOf
  <2>3. \A i \in 1..Len(tables[out]) : i = Len(tables[out]) \/ i \in 1..(Len(tables[out]) - 1)
    BY <1>13
  <2>. QED
    BY <1>5, <1>13, <2>2, <2>3 DEF CopyOf
<1>. DEFINE completed == /\ Complete(tables', out)
                         /\ \A u : Complete(tables, u) => Complete(tables', u)
<1>whole. completed
  <2>1. image.whole = TRUE
    OBVIOUS
  <2>2. Last(tables'[out]) = image
    BY <1>13 DEF Last
  <2>. QED
    BY <1>5, <1>13, <2>1, <2>2 DEF Complete
<1>. HIDE DEF completed
<1>15. Ordered(tables', s.version) /\ Covered(tables', s.version) = Covered(tables, s.version)
  <2>1. Ordered(tables, s.version)
    BY <1>3 DEF Tabled
  <2>2. \A u \in s.version : u.number \in DOMAIN tables /\ u.number # out
    BY <1>3, <1>10, <2>1 DEF Ordered, Settled, Complete
  <2>. QED
    BY <1>13, <2>1, <2>2, SameTables
<1>. HIDE DEF image
<1>16. Disk(current)'
  <2>1. Orphans(tables', logs, s)
    <3>. SUFFICES ASSUME NEW u \in DOMAIN tables'
                  PROVE  \/ u < b
                         \/ u = b + 1 /\ CopyOf(tables', logs, u, a)
                         \/ u = b + 2 /\ CopyOf(tables', logs, u, b)
      BY DEF Orphans, a, b
    <3>1. CASE u = out
      BY <1>3, <1>5, <1>10, <1>14, <3>1
    <3>2. CASE u # out
      <4>1. u \in DOMAIN tables /\ tables'[u] = tables[u]
        BY <1>13, <3>2
      <4>2. \/ u < b
            \/ u = b + 1 /\ CopyOf(tables, logs, u, a)
            \/ u = b + 2 /\ CopyOf(tables, logs, u, b)
        BY <1>3, <4>1 DEF Orphans, a, b
      <4>3. \A k : CopyOf(tables, logs, u, k) => CopyOf(tables', logs, u, k)
        BY <3>2, <4>1 DEF CopyOf
      <4>. QED
        BY <4>2, <4>3
    <3>. QED
      BY <3>1, <3>2
  <2>2. Tabled(tables', s) /\ Logging(tables', logs, s) /\ Durable(tables', logs, acked, s)
    BY <1>3, <1>15 DEF Tabled, Logging, Durable
  <2>3. Marked(current, s) /\ current \in DOMAIN manifests
    BY <1>1, <1>3 DEF Disk, OnDisk
  <2>. QED
    BY <1>3, <1>8, <2>1, <2>2, <2>3 DEF Disk, OnDisk
<1>17. Replayed(logs, s, done \cup {n}) = edit.version \cup {[number |-> out, level |-> 0]}
  <2>1. [number |-> out, level |-> 0] = IF n = a THEN TableOfFirst(s) ELSE TableOfSecond(s)
    BY <1>5 DEF TableOfFirst, TableOfSecond, a, b
  <2>2. CASE n = a
    <3>1. b \in done \cup {n} <=> b \in done
      BY <1>3, <2>2
    <3>2. Filled(logs, a)
      BY <1>5, <2>2
    <3>. QED
      BY <1>4, <2>1, <2>2, <3>1, <3>2 DEF Replayed, a, b
  <2>3. CASE n # a
    <3>1. n = b /\ Filled(logs, b) /\ a \in done
      BY <1>5, <1>10, <2>3
    <3>. QED
      BY <1>4, <2>1, <2>3, <3>1 DEF Replayed, a, b
  <2>. QED
    BY <2>2, <2>3
<1>18. \A k \in done \cup {n} : k >= a => \A x \in Logged(logs, k) : x <= edit'.lastSequence
  <2>1. memtable # {} /\ memtable \in SUBSET (1..MaxWrites)
    BY <1>1 DEF Typed, ProcessTyped, Control
  <2>2. Max(memtable) \in 0..MaxWrites /\ \A x \in memtable : x <= Max(memtable)
    <3>1. Max(memtable) \in memtable /\ \A x \in memtable : x <= Max(memtable)
      BY <2>1, WritesAreFinite
    <3>2. \A x \in 1..MaxWrites : x \in 0..MaxWrites
      BY RecoveryAssumption
    <3>. QED
      BY <2>1, <3>1, <3>2
  <2>3. edit.lastSequence \in 0..MaxWrites
    BY <1>1, EditFields DEF Typed, ProcessTyped
  <2>4. /\ edit'.lastSequence \in 0..MaxWrites
        /\ edit.lastSequence <= edit'.lastSequence /\ Max(memtable) <= edit'.lastSequence
    <3>1. PICK q \in 0..MaxWrites : q = Max(memtable)
      BY <2>2
    <3>2. Max({edit.lastSequence, q}) \in {edit.lastSequence, q}
          /\ edit.lastSequence <= Max({edit.lastSequence, q}) /\ q <= Max({edit.lastSequence, q})
      BY <2>3, GreaterOf
    <3>. QED
      BY <1>9, <2>3, <3>1, <3>2
  <2>. TAKE k \in done \cup {n}
  <2>. HAVE k >= a
  <2>. TAKE x \in Logged(logs, k)
  <2>5. x <= edit.lastSequence \/ x <= Max(memtable)
    BY <1>4, <1>5, <2>2
  <2>6. x \in 1..MaxWrites /\ MaxWrites \in Nat
    BY <1>1, <1>6, WritesTyped DEF done
  <2>. QED
    BY <2>2, <2>3, <2>4, <2>5, <2>6
<1>19. ReplayInv(s)'
  <2>1. \A m \in done \cup {n}, k \in todo' : m < k
    BY <1>4, <1>6, <1>7
  <2>2. \A k \in done \cup {n} : k >= a =>
           /\ k < vset.nextFile
           /\ Filled(logs, k) => b + 1 < vset.nextFile /\ Complete(tables', b + 1)
           /\ Filled(logs, k) /\ k = b => b + 2 < vset.nextFile /\ Complete(tables', b + 2)
    <3>1. /\ n < vset.nextFile
          /\ b + 1 < vset.nextFile /\ Complete(tables', b + 1)
          /\ n = b => b + 2 < vset.nextFile /\ Complete(tables', b + 2)
      <4>1. CASE n = a
        BY <1>whole, <1>3, <1>5, <1>10, <4>1 DEF completed
      <4>2. CASE n # a
        <5>1. a >= a
          BY <1>3
        <5>2. Complete(tables', b + 1) /\ out = b + 2
          BY <1>whole, <1>4, <1>5, <1>10, <4>2, <5>1 DEF completed
        <5>. QED
          BY <1>whole, <1>3, <1>5, <1>10, <5>2 DEF completed
      <4>. QED
        BY <4>1, <4>2
    <3>. QED
      BY <1>whole, <1>4, <3>1 DEF completed
  <2>3. \A k \in DOMAIN logs : (k \in todo' => k >= a) /\ (k < a => k \in done \cup {n})
    BY <1>4, <1>7
  <2>4. a \notin todo'
    BY <1>7, <1>10 DEF done
  <2>5. Filled(logs, b) /\ b \in todo' => vset.nextFile = b + 2
    BY <1>3, <1>5, <1>7, <1>10
  <2>6. task' # "table"
    BY <1>8
  <2>. QED
    BY <1>4, <1>8, <1>9, <1>11, <1>12, <1>13, <1>17, <1>18, <2>1, <2>2, <2>3,
       <2>4, <2>5, <2>6 DEF ReplayInv, a, b, done
<1>20. RecoveryInv'
  BY <1>1, <1>3, <1>8, <1>16, <1>19 DEF RecoveryInv
<1>. QED
  BY <1>1, <1>8, <1>20 DEF IInv

(* All logs are in tables, of which the new version is made.               *)
LEMMA NewLogKeeps == IInv /\ NewLog => IInv'
<1>. SUFFICES ASSUME IInv, NewLog PROVE IInv'
  OBVIOUS
<1>1. /\ Typed /\ Typed' /\ task = "replay" /\ pc = "recovering" /\ todo = {}
      /\ RecoveryInv /\ Disk(current)
  BY NewLogTyped DEF IInv, NewLog, RecoveryInv, Typed, ProcessTyped, Control
<1>2. PICK s \in {manifests[current]} : ReplayInv(s)
  BY <1>1 DEF RecoveryInv
<1>. DEFINE a == s.logNumber
            b == s.nextFile
            e == vset.nextFile
            q == RecoveredSequence
<1>3. /\ s = manifests[current] /\ s \in Edits /\ a \in Nat /\ b \in Nat /\ a < b
      /\ current \in DOMAIN manifests /\ current \in Nat /\ current < b
      /\ s.lastSequence \in 0..MaxWrites
      /\ \A u \in s.version : u.number \in Nat /\ u.number < b
      /\ Tabled(tables, s) /\ Logging(tables, logs, s)
      /\ Durable(tables, logs, acked, s) /\ Attempts(manifests, logs, current, s)
      /\ Orphans(tables, logs, s)
      /\ \A k \in DOMAIN logs : k >= a /\ Filled(logs, k) => k = a \/ (k = b /\ Filled(logs, a))
  BY <1>1, <1>2, RecoveringFrom DEF IInv
<1>4. /\ vset.version = s.version /\ vset.manifest = b /\ memtable = {} /\ immtable = {}
      /\ edit.version = Replayed(logs, s, DOMAIN logs)
      /\ s.lastSequence <= vset.lastSequence
      /\ \A k \in DOMAIN logs : k >= a => \A x \in Logged(logs, k) : x <= edit.lastSequence
      /\ e > b
      /\ \A k \in DOMAIN logs : k >= a =>
           /\ k < e
           /\ Filled(logs, k) => b + 1 < e /\ Complete(tables, b + 1)
           /\ Filled(logs, k) /\ k = b => b + 2 < e /\ Complete(tables, b + 2)
  BY <1>1, <1>2 DEF ReplayInv, RecoveryInv
<1>5. /\ UNCHANGED <<current, manifests, tables, pc, memtable, immtable, out, todo, acked>>
      /\ task' = "append"
      /\ logs' = Put(logs, e, <<>>) /\ logFileNumber' = e
      /\ vset' = [vset EXCEPT !.nextFile = e + 1, !.lastSequence = q]
      /\ edit' = [version |-> edit.version, logNumber |-> e, nextFile |-> e + 1, lastSequence |-> q]
  BY <1>1 DEF NewLog
<1>6. /\ vset.lastSequence \in 0..MaxWrites /\ edit.lastSequence \in 0..MaxWrites
      /\ q \in 0..MaxWrites /\ vset.lastSequence <= q /\ edit.lastSequence <= q
      /\ e \in Nat /\ MaxWrites \in Nat
  <2>1. vset.lastSequence \in 0..MaxWrites /\ edit.lastSequence \in 0..MaxWrites /\ e \in Nat
    BY <1>1, CounterFields, EditFields DEF Typed, ProcessTyped
  <2>2. Max({vset.lastSequence, edit.lastSequence}) \in {vset.lastSequence, edit.lastSequence}
        /\ vset.lastSequence <= Max({vset.lastSequence, edit.lastSequence})
        /\ edit.lastSequence <= Max({vset.lastSequence, edit.lastSequence})
    BY <2>1, GreaterOf
  <2>. QED
    BY <2>1, <2>2, RecoveryAssumption DEF RecoveredSequence
<1>. HIDE DEF a, b, e, q
<1>7. /\ vset'.version = s.version /\ vset'.manifest = b /\ vset'.nextFile = e + 1
      /\ vset'.lastSequence = q /\ edit'.version = edit.version /\ edit'.logNumber = e
      /\ edit'.nextFile = e + 1 /\ edit'.lastSequence = q
  <2>1. vset' = [vset EXCEPT !.nextFile = e + 1, !.lastSequence = q]
    BY <1>5
  <2>2. vset \in Counters
    BY <1>1 DEF Typed, ProcessTyped
  <2>. QED
    BY <1>4, <1>5, <2>1, <2>2 DEF Counters
<1>8. /\ \A k \in DOMAIN logs : k \in Nat /\ k < e
      /\ DOMAIN logs' = DOMAIN logs \cup {e} /\ logs'[e] = <<>> /\ e \notin DOMAIN logs
      /\ Logged(logs', e) = {} /\ ~Filled(logs', e)
      /\ \A k \in DOMAIN logs : logs'[k] = logs[k] /\ Logged(logs', k) = Logged(logs, k)
      /\ \A k : Filled(logs', k) <=> Filled(logs, k)
  <2>1. \A k \in DOMAIN logs : k \in Nat /\ k < e
    BY <1>1, <1>3, <1>4, <1>6, WritesTyped
  <2>2. e \notin DOMAIN logs
    BY <1>6, <2>1
  <2>3. /\ DOMAIN logs' = DOMAIN logs \cup {e} /\ logs'[e] = <<>>
        /\ \A k \in DOMAIN logs : logs'[k] = logs[k]
    BY <1>5, <2>2 DEF Put
  <2>. QED
    BY <2>1, <2>2, <2>3 DEF Logged, ToSet, Filled
<1>9. e > b /\ e # a /\ e # b
  BY <1>3, <1>4, <1>6
<1>10. Replayed(logs', s, DOMAIN logs') = Replayed(logs, s, DOMAIN logs)
  BY <1>8, <1>9 DEF Replayed, a, b
<1>11. \A t, k : CopyOf(tables, logs, t, k) => CopyOf(tables, logs', t, k)
  <2>. SUFFICES ASSUME NEW t, NEW k, CopyOf(tables, logs, t, k)
                PROVE  CopyOf(tables, logs', t, k)
    OBVIOUS
  <2>1. k \in DOMAIN logs
    BY DEF CopyOf, Filled
  <2>2. Logged(logs', k) = Logged(logs, k) /\ Filled(logs', k) <=> Filled(logs, k)
    BY <1>8, <2>1
  <2>. QED
    BY <1>8, <2>1, <2>2 DEF CopyOf
<1>12. Disk(current)'
  <2>1. Orphans(tables, logs', s)
    BY <1>3, <1>11 DEF Orphans, a, b
  <2>2. Attempts(manifests, logs', current, s)
    BY <1>3, <1>10 DEF Attempts
  <2>3. Logging(tables, logs', s)
    <3>1. /\ a \in DOMAIN logs
          /\ \A k \in DOMAIN logs : k < a => \A x \in Logged(logs, k) : x <= s.lastSequence
          /\ \A k \in Live(logs, s) : Above(Logged(logs, k), Covered(tables, s.version))
          /\ b \in DOMAIN logs => Above(Logged(logs, b), Logged(logs, a))
      BY <1>3 DEF Logging, a, b
    <3>2. \A k \in DOMAIN logs' : k < a => k \in DOMAIN logs
      BY <1>3, <1>6, <1>8, <1>9
    <3>3. \A k \in Live(logs', s) : k = e \/ k \in Live(logs, s)
      BY <1>8 DEF Live
    <3>4. \A k \in Live(logs, s) : k \in DOMAIN logs /\ k >= a
      BY DEF Live, a
    <3>5. \A y : Above({}, y)
      BY DEF Above
    <3>6. \A k \in Live(logs', s) : Filled(logs', k) => k = a \/ (k = b /\ Filled(logs', a))
      BY <1>3, <1>8, <3>3, <3>4
    <3>7. \A k \in Live(logs', s) : Above(Logged(logs', k), Covered(tables, s.version))
      BY <1>8, <3>1, <3>3, <3>4, <3>5
    <3>. QED
      BY <1>8, <1>9, <3>1, <3>2, <3>6, <3>7 DEF Logging, a, b
  <2>4. Durable(tables, logs', acked, s)
    <3>1. \A k \in Live(logs, s) : k \in Live(logs', s) /\ Logged(logs', k) = Logged(logs, k)
      BY <1>8 DEF Live
    <3>. QED
      BY <1>3, <3>1 DEF Durable
  <2>5. Marked(current, s)
    BY <1>1, <1>3 DEF Disk, OnDisk
  <2>. QED
    BY <1>3, <1>5, <2>1, <2>2, <2>3, <2>4, <2>5 DEF Disk, OnDisk
<1>. DEFINE first  == {t \in {TableOfFirst(s)} : Filled(logs, a)}
            second == {t \in {TableOfSecond(s)} : Filled(logs, b)}
<1>13. edit.version = (s.version \cup first) \cup second
  <2>1. \A k : Filled(logs, k) => k \in DOMAIN logs
    BY DEF Filled
  <2>. QED
    BY <1>4, <2>1 DEF Replayed, a, b
<1>14. \A k, t : k \in {a, b} /\ Filled(logs, k) /\ t = b + (IF k = a THEN 1 ELSE 2) =>
         t < e /\ Settled(tables, t) /\ Held(tables, t) = Logged(logs, k)
  <2>. SUFFICES ASSUME NEW k \in {a, b}, Filled(logs, k), NEW t, t = b + (IF k = a THEN 1 ELSE 2)
                PROVE  t < e /\ Settled(tables, t) /\ Held(tables, t) = Logged(logs, k)
    OBVIOUS
  <2>1. k \in DOMAIN logs /\ k >= a
    BY <1>3 DEF Filled
  <2>2. t < e /\ t \in DOMAIN tables /\ Complete(tables, t)
    <3>1. t < e /\ Complete(tables, t)
      BY <1>3, <1>4, <2>1
    <3>. QED
      BY <3>1 DEF Complete
  <2>3. CopyOf(tables, logs, t, k)
    <3>1. \/ t < b
          \/ t = b + 1 /\ CopyOf(tables, logs, t, a)
          \/ t = b + 2 /\ CopyOf(tables, logs, t, b)
      BY <1>3, <2>2 DEF Orphans, a, b
    <3>. QED
      BY <1>3, <3>1
  <2>. DEFINE x == [recs |-> Logged(logs, k), whole |-> TRUE]
  <2>4. \A i \in 1..Len(tables[t]) : tables[t][i] \in {Begun, x}
    BY <2>2, <2>3 DEF CopyOf
  <2>5. Len(tables[t]) \in 1..Len(tables[t])
    <3>1. tables[t] \in Seq(Images) /\ tables[t] # <<>>
      BY <1>1, <2>2 DEF Typed, FilesTyped, TablesTyped
    <3>. QED
      BY <3>1, LenProperties, EmptySeq
  <2>6. x.recs = Logged(logs, k) /\ x.whole = TRUE
    OBVIOUS
  <2>7. Logged(logs, k) # {}
    BY <1>1, <2>1, WritesTyped DEF Filled
  <2>. HIDE DEF x
  <2>8. Last(tables[t]) = x
    <3>1. Last(tables[t]) \in {Begun, x} /\ Last(tables[t]).whole = TRUE
      BY <2>2, <2>4, <2>5 DEF Last, Complete
    <3>. QED
      BY <3>1 DEF Begun
  <2>. QED
    BY <2>2, <2>4, <2>6, <2>7, <2>8 DEF Settled, Held
<1>15. /\ a \in DOMAIN logs /\ a \in Live(logs, s) /\ (b \in DOMAIN logs => b \in Live(logs, s))
  BY <1>3 DEF Logging, Live, a, b
<1>16. /\ Ordered(tables, s.version \cup first)
       /\ \A x \in Covered(tables, s.version \cup first) :
            x \in Covered(tables, s.version) \/ x \in Logged(logs, a)
       /\ Covered(tables, s.version) \subseteq Covered(tables, s.version \cup first)
       /\ Filled(logs, a) => Logged(logs, a) \subseteq Covered(tables, s.version \cup first)
       /\ s.version \cup first \in Versions
       /\ \A u \in s.version \cup first : u.number \in Nat /\ u.number <= b + 1 /\ u.number < e /\ u.number # b
  <2>0. s.version \in Versions /\ Ordered(tables, s.version)
    BY <1>3, EditFields DEF Tabled
  <2>1. CASE ~Filled(logs, a)
    <3>1. s.version \cup first = s.version
      BY <2>1
    <3>2. \A u \in s.version : u.number \in Nat /\ u.number <= b + 1 /\ u.number < e /\ u.number # b
      BY <1>3, <1>6, <1>9
    <3>. QED
      BY <2>0, <2>1, <3>1, <3>2
  <2>2. CASE Filled(logs, a)
    <3>0. b + 1 \in Nat /\ 0 \in 0..2 /\ TableOfFirst(s) = [number |-> b + 1, level |-> 0]
      BY <1>3 DEF TableOfFirst, b
    <3>. PICK t \in [number : Nat, level : 0..2] : t = TableOfFirst(s)
      BY <3>0
    <3>1. t.number = b + 1 /\ t.level = 0 /\ first = {t}
      BY <2>2 DEF TableOfFirst, b
    <3>2. Settled(tables, t.number) /\ Held(tables, t.number) = Logged(logs, a) /\ t.number < e
      BY <1>14, <2>2, <3>1
    <3>3. Above(Held(tables, t.number), Covered(tables, s.version))
      BY <1>3, <1>15, <3>2 DEF Logging
    <3>4. \A u \in s.version : t.number > u.number /\ t.level <= u.level /\ (t.level = u.level => t.level = 0)
      BY <1>3, <2>0, <3>1 DEF Versions
    <3>5. /\ Ordered(tables, s.version \cup {t})
          /\ Covered(tables, s.version \cup {t}) = Covered(tables, s.version) \cup Held(tables, t.number)
      BY <2>0, <3>2, <3>3, <3>4, OneMoreTable
    <3>6. s.version \cup {t} \in Versions
      BY <2>0 DEF Versions
    <3>7. \A u \in s.version \cup {t} : u.number \in Nat /\ u.number <= b + 1 /\ u.number < e /\ u.number # b
      BY <1>3, <1>6, <1>9, <3>1, <3>2
    <3>. HIDE DEF first
    <3>. QED
      BY <3>1, <3>2, <3>5, <3>6, <3>7
  <2>. QED
    BY <2>1, <2>2
<1>. DEFINE one == s.version \cup first
<1>. HIDE DEF one
<1>17. /\ Ordered(tables, edit.version)
       /\ \A x \in Covered(tables, edit.version) :
            x \in Covered(tables, s.version) \/ x \in Logged(logs, a) \/ (b \in DOMAIN logs /\ x \in Logged(logs, b))
       /\ Covered(tables, s.version) \subseteq Covered(tables, edit.version)
       /\ Filled(logs, a) => Logged(logs, a) \subseteq Covered(tables, edit.version)
       /\ Filled(logs, b) => Logged(logs, b) \subseteq Covered(tables, edit.version)
       /\ \A u \in edit.version : u.number < e /\ u.number # b
  <2>0. edit.version = one \cup second
    BY <1>13 DEF one
  <2>1. CASE ~Filled(logs, b)
    <3>1. edit.version = one
      BY <2>0, <2>1
    <3>. QED
      BY <1>16, <2>1, <3>1 DEF one
  <2>2. CASE Filled(logs, b)
    <3>0. b \in DOMAIN logs
      BY <2>2 DEF Filled
    <3>00. b + 2 \in Nat /\ 0 \in 0..2 /\ TableOfSecond(s) = [number |-> b + 2, level |-> 0]
      BY <1>3 DEF TableOfSecond, b
    <3>. PICK t \in [number : Nat, level : 0..2] : t = TableOfSecond(s)
      BY <3>00
    <3>1. t.number = b + 2 /\ t.level = 0 /\ edit.version = one \cup {t}
      BY <2>0, <2>2 DEF TableOfSecond, b
    <3>2. Settled(tables, t.number) /\ Held(tables, t.number) = Logged(logs, b) /\ t.number < e
      BY <1>3, <1>14, <2>2, <3>1
    <3>3. Above(Held(tables, t.number), Covered(tables, one))
      <4>1. Above(Logged(logs, b), Covered(tables, s.version)) /\ Above(Logged(logs, b), Logged(logs, a))
        BY <1>3, <1>15, <3>0 DEF Logging, a, b
      <4>. QED
        BY <1>16, <3>2, <4>1 DEF Above, one
    <3>4. \A u \in one : t.number > u.number /\ t.level <= u.level /\ (t.level = u.level => t.level = 0)
      BY <1>3, <1>16, <3>1 DEF Versions, one
    <3>5. one \in Versions /\ Ordered(tables, one)
      BY <1>16 DEF one
    <3>6. /\ Ordered(tables, one \cup {t})
          /\ Covered(tables, one \cup {t}) = Covered(tables, one) \cup Held(tables, t.number)
      BY <3>2, <3>3, <3>4, <3>5, OneMoreTable
    <3>7. \A u \in one : u.number < e /\ u.number # b
      BY <1>16 DEF one
    <3>8. \A u \in one \cup {t} : u.number < e /\ u.number # b
      BY <1>3, <3>1, <3>2, <3>7
    <3>9. /\ \A x \in Covered(tables, one) : x \in Covered(tables, s.version) \/ x \in Logged(logs, a)
          /\ Covered(tables, s.version) \subseteq Covered(tables, one)
          /\ Filled(logs, a) => Logged(logs, a) \subseteq Covered(tables, one)
      BY <1>16 DEF one
    <3>10. Covered(tables, edit.version) = Covered(tables, one) \cup Logged(logs, b)
      BY <3>1, <3>2, <3>6
    <3>11. Ordered(tables, edit.version) /\ \A u \in edit.version : u.number < e /\ u.number # b
      BY <3>1, <3>6, <3>8
    <3>. QED
      BY <3>0, <3>9, <3>10, <3>11
  <2>. QED
    BY <2>1, <2>2
<1>. HIDE DEF first, second
<1>18. /\ \A k \in DOMAIN logs : \A x \in Logged(logs, k) : x <= q
       /\ \A x \in Covered(tables, edit.version) : x <= q
  <2>1. \A k \in DOMAIN logs : \A x \in Logged(logs, k) : x \in 1..MaxWrites
    BY <1>1, WritesTyped
  <2>2. \A x \in Covered(tables, s.version) : x \in 1..MaxWrites /\ x <= s.lastSequence
    BY <1>1, <1>3, WritesTyped DEF Tabled
  <2>3. \A k \in DOMAIN logs : \A x \in Logged(logs, k) : x <= s.lastSequence \/ x <= edit.lastSequence
    <3>1. \A k \in DOMAIN logs : k < a \/ k >= a
      BY <1>3, <1>8
    <3>. QED
      BY <1>3, <1>4, <3>1 DEF Logging, a
  <2>4. \A k \in DOMAIN logs : \A x \in Logged(logs, k) : x <= q
    BY <1>3, <1>4, <1>6, <2>1, <2>3
  <2>5. \A x \in Covered(tables, s.version) : x <= q
    BY <1>3, <1>4, <1>6, <2>2
  <2>. QED
    BY <1>15, <1>17, <2>4, <2>5
<1>19. EditInv'
  <2>1. \A t \in DOMAIN tables : t < e
    <3>. TAKE t \in DOMAIN tables
    <3>1. \/ t < b
          \/ t = b + 1 /\ CopyOf(tables, logs, t, a)
          \/ t = b + 2 /\ CopyOf(tables, logs, t, b)
      BY <1>3 DEF Orphans, a, b
    <3>2. t = b + 1 /\ CopyOf(tables, logs, t, a) => t < e
      BY <1>14 DEF CopyOf
    <3>3. t = b + 2 /\ CopyOf(tables, logs, t, b) => t < e
      BY <1>3, <1>14 DEF CopyOf
    <3>4. t \in Nat
      BY <1>1, WritesTyped
    <3>. QED
      BY <1>3, <1>6, <1>9, <3>1, <3>2, <3>3, <3>4
  <2>2. \A m \in DOMAIN manifests : m <= b
    BY <1>1, <1>3, WritesTyped DEF Attempts, b
  <2>3. \A k \in DOMAIN logs' : k <= e
    BY <1>6, <1>8
  <2>4. \A k \in DOMAIN logs' : \A x \in Logged(logs', k) : x <= q
    BY <1>8, <1>18
  <2>5. Tabled(tables, edit')
    BY <1>7, <1>17, <1>18 DEF Tabled
  <2>6. acked = 0 \/ acked \in Covered(tables, edit.version)
    <3>1. \A k \in Live(logs, s) : acked \in Logged(logs, k) => k \in {a, b} /\ Filled(logs, k)
      <4>1. \A k \in Live(logs, s) : k \in DOMAIN logs /\ k >= a
        BY DEF Live, a
      <4>2. \A k \in DOMAIN logs : acked \in Logged(logs, k) => Filled(logs, k)
        BY <1>1, WritesTyped DEF Filled
      <4>. QED
        BY <1>3, <4>1, <4>2
    <3>. QED
      BY <1>3, <1>17, <3>1 DEF Durable
  <2>7. b < e
    BY <1>3, <1>6, <1>9
  <2>. QED
    BY <1>4, <1>5, <1>7, <1>8, <1>17, <2>1, <2>2, <2>3, <2>4, <2>5, <2>6, <2>7
       DEF EditInv
<1>20. HandInv(s)'
  BY <1>4, <1>7, <1>10 DEF HandInv, b
<1>21. RecoveryInv'
  BY <1>3, <1>4, <1>5, <1>12, <1>19, <1>20 DEF RecoveryInv
<1>. QED
  BY <1>1, <1>5, <1>21 DEF IInv

(* The new manifest, or the one of an earlier attempt once more.           *)
LEMMA AppendEditRecovering == IInv /\ pc = "recovering" /\ AppendEdit => IInv'
<1>. SUFFICES ASSUME IInv, pc = "recovering", AppendEdit PROVE IInv'
  OBVIOUS
<1>1. Typed /\ Typed' /\ task = "append" /\ RecoveryInv /\ Disk(current)
  BY AppendEditTyped DEF IInv, AppendEdit, RecoveryInv
<1>2. PICK s \in {manifests[current]} : HandInv(s)
  BY <1>1 DEF RecoveryInv
<1>3. /\ s = manifests[current] /\ s.nextFile \in Nat /\ current \in DOMAIN manifests
      /\ current \in Nat /\ current # 0 /\ current < s.nextFile
      /\ Attempts(manifests, logs, current, s)
  BY <1>1, <1>2, RecoveringFrom DEF IInv
<1>4. /\ edit.version = Replayed(logs, s, DOMAIN logs)
      /\ vset.version = s.version /\ vset.manifest = s.nextFile
  BY <1>2 DEF HandInv
<1>5. WithSnapshot = edit
  <2>. DEFINE before == IF vset.manifest \in DOMAIN manifests
                        THEN manifests[vset.manifest].version ELSE {}
  <2>1. before \subseteq edit.version
    BY <1>3, <1>4 DEF Attempts
  <2>2. vset.version \subseteq edit.version
    BY <1>4 DEF Replayed
  <2>3. edit \in [version : Versions, logNumber : Nat, nextFile : Nat, lastSequence : 0..MaxWrites]
    BY <1>1 DEF Typed, ProcessTyped, Edits
  <2>4. WithSnapshot = [edit EXCEPT !.version = edit.version \cup vset.version \cup before]
    BY <2>3 DEF WithSnapshot
  <2>. HIDE DEF before
  <2>5. edit.version \cup vset.version \cup before = edit.version
    BY <2>1, <2>2
  <2>. QED
    BY <2>3, <2>4, <2>5
<1>6. /\ UNCHANGED <<current, logs, tables, pc, vset, memtable, immtable, logFileNumber, edit,
                     out, todo, acked>>
      /\ task' = "truncate"
      /\ DOMAIN manifests' = DOMAIN manifests \cup {s.nextFile} /\ manifests'[s.nextFile] = edit
      /\ \A m \in DOMAIN manifests : m # s.nextFile => manifests'[m] = manifests[m]
  BY <1>1, <1>4, <1>5 DEF AppendEdit, Put
<1>7. manifests'[current] = s
  BY <1>3, <1>6
<1>8. Disk(current)'
  <2>1. Attempts(manifests', logs, current, s)
    BY <1>3, <1>4, <1>6 DEF Attempts
  <2>. QED
    BY <1>1, <1>3, <1>6, <1>7, <2>1 DEF Disk, OnDisk
<1>9. HandInv(s)'
  BY <1>4, <1>6 DEF HandInv
<1>10. EditInv'
  <2>1. EditInv
    BY <1>1 DEF RecoveryInv
  <2>2. \A m \in DOMAIN manifests' : m <= vset.manifest
    BY <1>3, <1>4, <1>6, <2>1 DEF EditInv
  <2>. QED
    BY <1>6, <2>1, <2>2 DEF EditInv
<1>11. RecoveryInv'
  BY <1>1, <1>4, <1>6, <1>7, <1>8, <1>9, <1>10 DEF RecoveryInv
<1>12. 0 \notin DOMAIN manifests'
  BY <1>3, <1>6 DEF IInv
<1>. QED
  BY <1>1, <1>6, <1>11, <1>12 DEF IInv
-----------------------------------------------------------------------------
LEMMA InitInv == Init => IInv
<1>. SUFFICES ASSUME Init PROVE IInv
  OBVIOUS
<1>. USE RecoveryAssumption
<1>1. Typed
  BY InitTyped
<1>. DEFINE m == FirstFree - 2
            n == FirstFree - 1
<1>2. PICK s \in {manifests[vset.manifest]} : TRUE
  OBVIOUS
<1>3. /\ FirstFree \in Nat /\ m \in Nat /\ n \in Nat /\ m # 0 /\ m < FirstFree /\ n < FirstFree
      /\ m # n /\ m <= m /\ MaxWrites \in Nat
  OBVIOUS
<1>4. /\ current = m /\ DOMAIN manifests = {m} /\ DOMAIN logs = {n} /\ logs[n] = <<>>
      /\ DOMAIN tables = {} /\ pc = "open" /\ task = "idle" /\ memtable = {} /\ immtable = {}
      /\ logFileNumber = n /\ acked = 0
      /\ vset.version = {} /\ vset.logNumber = n /\ vset.manifest = m
      /\ vset.nextFile = FirstFree /\ vset.lastSequence = 0
      /\ s = manifests[m] /\ s.version = {} /\ s.logNumber = n /\ s.nextFile = FirstFree
      /\ s.lastSequence = 0
  BY <1>3 DEF Init
<1>. HIDE DEF m, n
<1>5. Ordered(tables, {}) /\ Covered(tables, {}) = {} /\ \A y : Above({}, y)
  BY DEF Ordered, Covered, Above
<1>6. Logged(logs, n) = {} /\ ~Filled(logs, n)
  BY <1>1, <1>4, WritesTyped DEF Filled
<1>7. OnDisk(manifests, tables, logs, acked, m)
  <2>1. Marked(m, s)
    BY <1>3, <1>4 DEF Marked
  <2>2. Orphans(tables, logs, s) /\ Attempts(manifests, logs, m, s)
    BY <1>3, <1>4 DEF Orphans, Attempts
  <2>3. Tabled(tables, s)
    BY <1>4, <1>5 DEF Tabled
  <2>4. Logging(tables, logs, s)
    <3>1. \A k \in DOMAIN logs : k = n /\ ~(k < n)
      BY <1>3, <1>4
    <3>2. \A k \in Live(logs, s) : k = n
      BY <1>4 DEF Live
    <3>3. FirstFree \notin DOMAIN logs
      BY <1>3, <1>4
    <3>4. s.logNumber \in DOMAIN logs /\ \A k \in Live(logs, s) : ~Filled(logs, k)
      BY <1>4, <1>6, <3>2
    <3>5. \A k \in Live(logs, s) : Above(Logged(logs, k), Covered(tables, s.version))
      BY <1>5, <1>6, <3>2
    <3>. QED
      BY <1>4, <3>1, <3>3, <3>4, <3>5 DEF Logging
  <2>5. Durable(tables, logs, acked, s)
    BY <1>4 DEF Durable
  <2>. QED
    BY <1>4, <2>1, <2>2, <2>3, <2>4, <2>5 DEF OnDisk
<1>8. NumbersFresh
  BY <1>3, <1>4 DEF NumbersFresh
<1>9. MemoryInv
  BY <1>3, <1>4, <1>5, <1>6 DEF MemoryInv
<1>10. RestInv(s)
  BY <1>4 DEF RestInv
<1>11. OpenInv(s)
  BY <1>3, <1>4, <1>7, <1>8, <1>9, <1>10 DEF OpenInv, Disk
<1>. QED
  BY <1>1, <1>3, <1>4, <1>11 DEF IInv

LEMMA Stuttering == IInv /\ UNCHANGED vars => IInv'
<1>. SUFFICES ASSUME IInv, UNCHANGED vars PROVE IInv'
  OBVIOUS
<1>1. Typed'
  BY NextTyped DEF IInv
<1>2. UNCHANGED <<current, manifests, logs, tables, pc, task, vset, memtable, immtable,
                  logFileNumber, edit, out, todo, acked>>
  BY DEF vars
<1>3. \A c : OnDisk(manifests', tables', logs', acked', c)
               <=> OnDisk(manifests, tables, logs, acked, c)
  BY <1>2
<1>4. NumbersFresh <=> NumbersFresh'
  BY <1>2 DEF NumbersFresh
<1>5. MemoryInv <=> MemoryInv'
  BY <1>2 DEF MemoryInv
<1>6. \A s : (RestInv(s) <=> RestInv(s)') /\ (BuildInv(s) <=> BuildInv(s)')
             /\ (InstallInv(s) <=> InstallInv(s)')
  BY <1>2 DEF RestInv, BuildInv, InstallInv
<1>7. \A s : OpenInv(s) => OpenInv(s)'
  BY <1>2, <1>3, <1>4, <1>5, <1>6 DEF OpenInv, Disk
<1>8. \A s : (ReplayInv(s) <=> ReplayInv(s)') /\ (HandInv(s) <=> HandInv(s)')
  BY <1>2 DEF ReplayInv, HandInv
<1>9. EditInv <=> EditInv'
  BY <1>2 DEF EditInv
<1>10. RecoveryInv => RecoveryInv'
  BY <1>2, <1>3, <1>8, <1>9 DEF RecoveryInv, Disk
<1>. QED
  BY <1>1, <1>2, <1>3, <1>7, <1>10 DEF IInv, Disk

LEMMA NextKeeps == IInv /\ [Next]_vars /\ InOrder(todo) => IInv'
<1>. SUFFICES ASSUME IInv, [Next]_vars, InOrder(todo) PROVE IInv'
  OBVIOUS
<1>1. CASE UNCHANGED vars
  BY <1>1, Stuttering
<1>2. ASSUME AppendEdit \/ TruncateCurrent \/ WriteCurrent \/ DeleteObsolete \/ Finish
      PROVE  pc \in {"open", "recovering"}
  BY <1>2 DEF IInv, Typed, ProcessTyped, Control, AppendEdit, TruncateCurrent,
     WriteCurrent, DeleteObsolete, Finish
<1>3. CASE AppendEdit \/ TruncateCurrent \/ WriteCurrent \/ DeleteObsolete \/ Finish
  BY <1>2, <1>3, AppendEditOpen, AppendEditRecovering, TruncateCurrentOpen,
     TruncateCurrentRecovering, WriteCurrentOpen, WriteCurrentRecovering,
     DeleteObsoleteOpen, DeleteObsoleteRecovering, FinishOpen,
     FinishRecovering
<1>4. CASE LogRecord \/ Acknowledge \/ SwitchMemtable \/ StartFlush \/ BuildFlushTable
  BY <1>4, LogRecordKeeps, AcknowledgeKeeps, SwitchMemtableKeeps,
     StartFlushKeeps, BuildFlushTableKeeps
<1>5. CASE Crash \/ Refuse \/ Open \/ ReplayLog \/ FinishReplay \/ NewLog
  BY <1>5, CrashKeeps, RefuseKeeps, OpenKeeps, ReplayLogKeeps,
     FinishReplayKeeps, NewLogKeeps
<1>. QED
  BY <1>1, <1>3, <1>4, <1>5 DEF Next, Work

(* The logs still to be replayed are in order, or it has been noted.       *)
LEMMA NextOrders == InOrder(todo) /\ [Next]_vars => disordered' \/ InOrder(todo')
<1>. SUFFICES ASSUME InOrder(todo), [Next]_vars PROVE disordered' \/ InOrder(todo')
  OBVIOUS
<1>1. CASE todo' \subseteq todo
  BY <1>1 DEF InOrder
<1>2. CASE Open
  BY <1>2 DEF Open
<1>3. CASE ReplayLog \/ FinishReplay
  <2>1. todo' \subseteq todo
    BY <1>3 DEF ReplayLog, FinishReplay
  <2>. QED
    BY <1>1, <2>1
<1>4. CASE Crash
  BY <1>4 DEF Crash, InOrder
<1>5. CASE UNCHANGED vars
  BY <1>1, <1>5 DEF vars
<1>6. CASE \/ LogRecord \/ Acknowledge \/ SwitchMemtable \/ StartFlush \/ BuildFlushTable
           \/ AppendEdit \/ TruncateCurrent \/ WriteCurrent \/ DeleteObsolete \/ Finish
           \/ Refuse \/ NewLog
  <2>1. todo' = todo
    BY <1>6 DEF LogRecord, Acknowledge, SwitchMemtable, StartFlush, BuildFlushTable,
       AppendEdit, TruncateCurrent, WriteCurrent, DeleteObsolete, Finish, Refuse,
       NewLog, process
  <2>. QED
    BY <1>1, <2>1
<1>. QED
  BY <1>2, <1>3, <1>4, <1>5, <1>6 DEF Next, Work

LEMMA StaysDisordered == disordered /\ [Next]_vars => disordered'
  BY DEF Next, Work, vars, LogRecord, Acknowledge, SwitchMemtable, StartFlush,
     BuildFlushTable, AppendEdit, TruncateCurrent, WriteCurrent, DeleteObsolete,
     Finish, Crash, Refuse, Open, ReplayLog, FinishReplay, NewLog

(* The inductive invariant: of an IInv that holds until logs have been     *)
(* replayed in the wrong order.                                            *)
Inv == disordered \/ (IInv /\ InOrder(todo))

THEOREM Invariance == Spec => []Inv
<1>1. Init => Inv
  BY InitInv DEF Init, InOrder, Inv
<1>2. Inv /\ [Next]_vars => Inv'
  BY NextKeeps, NextOrders, StaysDisordered DEF Inv
<1>. QED
  BY <1>1, <1>2, PTL DEF Spec
-----------------------------------------------------------------------------
(* Whenever the process dies, the last acknowledged write is in a complete *)
(* table or a log that the manifest named by CURRENT still asks for, no    *)
(* table of it is missing, and only a torn image hides one from a reader   *)
(* (compactMemTable, logAndApply, deleteObsoleteFiles).                    *)
THEOREM AlwaysRecoverable == Spec => []Recoverable
<1>1. IInv => Recoverable
  <2>. SUFFICES ASSUME IInv, current # 0, acked > 0,
                       NEW s \in {manifests[current]}
                PROVE  /\ current \in DOMAIN manifests
                       /\ Missing(s.version) = {}
                       /\ \A t \in s.version : Sound(t.number) \/ BehindTorn(t.number)
                       /\ \/ \E t \in s.version : acked \in Last(tables[t.number]).recs
                          \/ \E n \in DOMAIN logs : n >= s.logNumber /\ acked \in ToSet(logs[n])
    BY DEF Recoverable
  <2>1. OnDisk(manifests, tables, logs, acked, current) /\ TablesTyped(tables)
    BY AlwaysOnDisk DEF IInv, Typed, FilesTyped
  <2>2. /\ current \in DOMAIN manifests /\ \A t \in s.version : Settled(tables, t.number)
        /\ Durable(tables, logs, acked, s)
    BY <2>1 DEF OnDisk, Tabled, Ordered
  <2>3. Missing(s.version) = {}
    BY <2>2 DEF Missing, Settled, Complete
  <2>4. \A t \in s.version : Sound(t.number) \/ BehindTorn(t.number)
    BY <2>1, <2>2, SoundOrTorn
  <2>5. acked # 0
    BY DEF IInv, Typed, ProcessTyped
  <2>6. CASE acked \in Covered(tables, s.version)
    BY <2>2, <2>3, <2>4, <2>6, CoveredBy DEF Held
  <2>7. CASE \E n \in Live(logs, s) : acked \in Logged(logs, n)
    BY <2>2, <2>3, <2>4, <2>7 DEF Live, Logged
  <2>. QED
    BY <2>2, <2>5, <2>6, <2>7 DEF Durable
<1>2. Inv => Recoverable
  BY <1>1 DEF Inv, Recoverable
<1>. QED
  BY <1>2, Invariance, PTL

(* However often the process died, in the middle of a table too, an open   *)
(* database answers with the last acknowledged write or a later one        *)
(* (Version.get), but where the table of the newest writes was appended to *)
(* a torn one, or the names of logs have sorted other than their numbers.  *)
THEOREM NothingIsLost == Spec => []LostOnlyIfTorn
<1>. DEFINE Hidden == /\ Get = 0 /\ vset.version # {}
                      /\ LET n == Newest(vset.version).number
                         IN BehindTorn(n) /\ Max(Last(tables[n]).recs) >= acked
<1>1. IInv /\ pc = "open" => Get >= acked \/ Hidden
  <2>. SUFFICES ASSUME IInv, pc = "open" PROVE Get >= acked \/ Hidden
    OBVIOUS
  <2>. HIDE DEF Hidden
  <2>1. Typed /\ MemoryInv
    BY DEF IInv, OpenInv
  <2>. DEFINE v == vset.version
  <2>2. /\ memtable \in SUBSET (1..MaxWrites) /\ immtable \in SUBSET (1..MaxWrites)
        /\ Covered(tables, v) \in SUBSET (1..MaxWrites) /\ acked \in 0..MaxWrites /\ MaxWrites \in Nat
        /\ Ordered(tables, v) /\ TablesTyped(tables)
        /\ acked = 0 \/ acked \in memtable \cup immtable \cup Covered(tables, v)
        /\ Above(memtable, immtable) /\ Above(memtable, Covered(tables, v))
        /\ Above(immtable, Covered(tables, v))
    BY <2>1, WritesTyped DEF MemoryInv, Typed, FilesTyped
  <2>. HIDE DEF v
  <2>3. \A r, x, y : x \in r /\ Above(r, y) /\ acked \in y => x > acked
    BY DEF Above
  <2>4. ASSUME memtable # {} PROVE Get >= acked
    <3>1. Max(memtable) \in memtable /\ \A x \in memtable : x <= Max(memtable)
      BY <2>2, <2>4, WritesAreFinite
    <3>. QED
      BY <2>2, <2>3, <2>4, <3>1 DEF Get
  <2>5. ASSUME memtable = {}, immtable # {} PROVE Get >= acked
    <3>1. Max(immtable) \in immtable /\ \A x \in immtable : x <= Max(immtable)
      BY <2>2, <2>5, WritesAreFinite
    <3>2. Get = Max(immtable) /\ acked \notin memtable
      BY <2>5 DEF Get
    <3>3. Max(immtable) \in Nat /\ acked \in Nat
      <4>1. Max(immtable) \in 1..MaxWrites
        BY <2>2, <3>1
      <4>. QED
        BY <2>2, <4>1
    <3>4. acked \in Covered(tables, v) => Max(immtable) > acked
      BY <2>2, <2>3, <3>1
    <3>. QED
      BY <2>2, <3>1, <3>2, <3>3, <3>4
  <2>6. ASSUME memtable = {}, immtable = {}, v = {} PROVE Get >= acked
    <3>1. Covered(tables, v) = {}
      BY <2>6 DEF Covered
    <3>2. Get = 0
      BY <2>6 DEF Get, v
    <3>. QED
      BY <2>2, <2>6, <3>1, <3>2
  <2>7. ASSUME memtable = {}, immtable = {}, v # {} PROVE Get >= acked \/ Hidden
    <3>. DEFINE t == Newest(v)
    <3>1. t \in v /\ \A u \in v \ {t} : Newer(t, u)
      BY <2>2, <2>7 DEF Ordered, Newest, Newer
    <3>. HIDE DEF t
    <3>2. Settled(tables, t.number)
      BY <2>2, <3>1 DEF Ordered
    <3>. DEFINE held == Held(tables, t.number)
    <3>3. held \in SUBSET (1..MaxWrites) /\ held # {}
      BY <2>2, <3>2, SettledReads
    <3>4. held = Last(tables[t.number]).recs
      BY DEF Held
    <3>. HIDE DEF held
    <3>5. Max(held) \in held /\ \A x \in held : x <= Max(held)
      BY <3>3, WritesAreFinite
    <3>6. ASSUME acked # 0 PROVE acked \in held \/ Max(held) > acked
      <4>1. PICK u \in v : acked \in Held(tables, u.number)
        BY <2>2, <2>7, <3>6, CoveredBy
      <4>2. u # t => Above(held, Held(tables, u.number))
        BY <2>2, <3>1 DEF Ordered, held
      <4>. QED
        BY <2>3, <3>5, <4>1, <4>2 DEF held
    <3>7. Max(held) >= acked
      <4>1. Max(held) \in 1..MaxWrites
        BY <3>3, <3>5
      <4>2. CASE acked = 0
        BY <2>2, <4>1, <4>2
      <4>3. CASE acked # 0
        BY <2>2, <3>5, <3>6, <4>1, <4>3
      <4>. QED
        BY <4>2, <4>3
    <3>8. Get = IF Sound(t.number) THEN Max(held) ELSE 0
      BY <2>7, <3>4 DEF Get, t, v
    <3>9. CASE Sound(t.number)
      BY <3>7, <3>8, <3>9
    <3>10. CASE ~Sound(t.number)
      <4>1. BehindTorn(t.number) /\ Get = 0
        BY <2>2, <3>2, <3>8, <3>10, SoundOrTorn
      <4>. QED
        BY <2>7, <3>4, <3>7, <4>1 DEF Hidden, t, v
    <3>. QED
      BY <3>9, <3>10
  <2>. QED
    BY <2>4, <2>5, <2>6, <2>7
<1>2. Inv => LostOnlyIfTorn
  BY <1>1 DEF Inv, LostOnlyIfTorn
<1>. QED
  BY <1>2, Invariance, PTL

(* No sequence number is given out twice: recovery finds the greatest one  *)
(* in the manifest or in the logs (recoverWrapper).                        *)
THEOREM SequencesAreFresh == Spec => [](disordered \/ SequencesFresh)
<1>1. IInv => SequencesFresh
  <2>. SUFFICES ASSUME IInv, pc = "open" PROVE SequencesFresh
    BY DEF SequencesFresh
  <2>1. Typed /\ MemoryInv
    BY DEF IInv, OpenInv
  <2>2. vset.lastSequence \in 0..MaxWrites /\ MaxWrites \in Nat
    BY <2>1, WritesTyped
  <2>3. \A x \in 1..MaxWrites : x < vset.lastSequence + 1 => x <= vset.lastSequence
    BY <2>2
  <2>4. \A n \in DOMAIN logs : \A s \in ToSet(logs[n]) :
          s <= vset.lastSequence \/ (n = logFileNumber /\ s = vset.lastSequence + 1)
    BY <2>1, <2>3, WritesTyped DEF MemoryInv, Logged
  <2>5. \A t \in vset.version : \A s \in Last(tables[t.number]).recs : s <= vset.lastSequence
    <3>. TAKE t \in vset.version
    <3>1. Settled(tables, t.number) /\ TablesTyped(tables)
      BY <2>1 DEF MemoryInv, Ordered, Typed, FilesTyped
    <3>2. /\ Last(tables[t.number]).recs = Held(tables, t.number)
          /\ Held(tables, t.number) \in SUBSET (1..MaxWrites)
      BY <3>1, SettledReads DEF Held
    <3>. QED
      BY <2>1, <2>3, <3>2, CoveredBy DEF MemoryInv
  <2>. QED
    BY <2>4, <2>5 DEF SequencesFresh
<1>2. Inv => disordered \/ SequencesFresh
  BY <1>1 DEF Inv
<1>. QED
  BY <1>2, Invariance, PTL

(* No file number is given out twice: what earlier incarnations allocated  *)
(* and did not record is gone, or marked as used, before new files are     *)
(* made (markFileNumberUsed, deleteObsoleteFiles).                         *)
THEOREM NumbersAreFresh == Spec => [](disordered \/ NumbersFresh)
<1>1. IInv => NumbersFresh
  BY DEF IInv, OpenInv, NumbersFresh
<1>2. Inv => disordered \/ NumbersFresh
  BY <1>1 DEF Inv
<1>. QED
  BY <1>2, Invariance, PTL
=============================================================================
