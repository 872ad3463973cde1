--------------------------------- MODULE Repair ---------------------------------
(***************************************************************************)
(* DBRepairer: a database directory whose manifest is gone gets a new one, *)
(* from the logs, which become tables, and the tables that can be read.    *)
(* The process may die between any two file operations and be run again.   *)
(*                                                                         *)
(* Two promises are not awaited: the one of the rename that archives a     *)
(* log, and the one of the rename that installs the manifest, from the     *)
(* very file that setCurrentFile writes next.  They answer at any time.    *)
(*                                                                         *)
(* An entry is a key and a sequence number, which stands for its value.    *)
(***************************************************************************)
EXTENDS Naturals, Sequences, FiniteSets, FiniteSetsExt, Functions

CONSTANTS
  Directories,  \* the directories a repair starts from, records of logs and
                \* tables, by number
  MaxRuns       \* bound: how often the repairer is run

ASSUME RepairAssumption ==
  /\ MaxRuns \in Nat \ {0}
  /\ \A d \in Directories :
       /\ IsFiniteSet(DOMAIN d.logs) /\ DOMAIN d.logs \subseteq Nat
       /\ IsFiniteSet(DOMAIN d.tables) /\ DOMAIN d.tables \subseteq Nat
       /\ \A n \in DOMAIN d.logs :
            IsFiniteSet(d.logs[n]) /\ \A e \in d.logs[n] : e.seq \in Nat
       /\ \A n \in DOMAIN d.tables :
            IsFiniteSet(d.tables[n].recs) /\ \A e \in d.tables[n].recs : e.seq \in Nat

VARIABLES
  found,        \* history: the directory before the first run
  logs,         \* log number -> its entries
  tables,       \* table number -> its entries, and whether it can be read
  lost,         \* the files in lost/: name -> entries
  manifests,    \* manifest number -> what replaying the file yields
  current,      \* the manifest that CURRENT names, or 0
  temp,         \* 1.dbtmp
  pc,           \* what run() does next
  archiving,    \* logs whose rename is under way
  installing,   \* whether the rename to MANIFEST-000001 is under way
  todo,         \* logs to be converted
  unread,       \* tables to be scanned
  infos,        \* the tables that go into the manifest
  olds,         \* the manifests to be archived
  nextFileNumber,
  runs,         \* number of runs
  overtaken,    \* history: the text of CURRENT is, or was in this run, where
                \* the manifest should be
  reconverted   \* history: a run died while a log it had converted was being
                \* archived

disk == <<logs, tables, lost, manifests, current, temp>>
run  == <<pc, archiving, installing, todo, unread, infos, olds, nextFileNumber>>
vars == <<disk, run, found, runs, overtaken, reconverted>>

NoTemp == [there |-> FALSE, text |-> FALSE, version |-> {}, next |-> 0]

Put(f, n, x) == [m \in DOMAIN f \cup {n} |-> IF m = n THEN x ELSE f[m]]
Without(f, n) == Restrict(f, DOMAIN f \ {n})

Init ==
  /\ found \in Directories
  /\ logs = found.logs /\ tables = found.tables
  /\ lost = [n \in {} |-> {}]
  /\ manifests = [n \in {2} |-> [good |-> FALSE, version |-> {}, next |-> 0]]
  /\ current \in {0, 2}
  /\ temp = NoTemp
  /\ pc = "down" /\ archiving = {} /\ installing = FALSE
  /\ todo = <<>> /\ unread = <<>> /\ infos = {} /\ olds = {}
  /\ nextFileNumber = 1
  /\ runs = 0 /\ overtaken = FALSE /\ reconverted = FALSE
-----------------------------------------------------------------------------
Ascending(s) ==
  [i \in 1..Cardinality(s) |-> CHOOSE n \in s : Cardinality({m \in s : m <= n}) = i]

(* Above every file but the manifests.                                     *)
FirstFree ==
  Max({1} \cup {n + 1 : n \in DOMAIN logs \cup DOMAIN tables}
          \cup (IF temp.there THEN {2} ELSE {}))

(* findFiles; the names are sorted (readdir of the node port).             *)
FindFiles ==
  /\ pc = "down" /\ runs < MaxRuns
  /\ runs' = runs + 1
  /\ todo' = Ascending(DOMAIN logs)
  /\ unread' = Ascending(DOMAIN tables)
  /\ olds' = DOMAIN manifests
  /\ nextFileNumber' = FirstFree
  /\ infos' = {}
  /\ pc' = "convert"
  /\ UNCHANGED <<disk, archiving, installing, found, overtaken, reconverted>>

(* convertLogToTable: the log is in a memtable, and the file of its table  *)
(* open.                                                                   *)
StartConversion ==
  /\ pc = "convert" /\ todo # <<>>
  /\ tables' = Put(tables, nextFileNumber, [recs |-> {}, whole |-> FALSE])
  /\ nextFileNumber' = nextFileNumber + 1
  /\ pc' = "build"
  /\ UNCHANGED <<logs, lost, manifests, current, temp, archiving, installing, todo,
                 unread, infos, olds, found, runs, overtaken, reconverted>>

(* The builder compares internal keys byte by byte, as no Database has     *)
(* replaced the comparator of its options: of two versions of a key the    *)
(* memtable has the newer one first, and the assertion that keys ascend    *)
(* fails (sequence numbers below 256).                                     *)
Convertible(recs) == \A d, e \in recs : d.key = e.key => d = e

(* Mutant: the log is unlinked.                                            *)
AfterConversionUnlinked(n) ==
  /\ logs' = Without(logs, n)
  /\ UNCHANGED archiving

(* Whatever became of the conversion, the log is archived; nobody waits.   *)
AfterConversion(n) ==
  /\ archiving' = archiving \cup {n}
  /\ UNCHANGED logs

EndConversion ==
  /\ pc = "build"
  /\ LET recs == logs[Head(todo)]
         out  == nextFileNumber - 1
     IN IF Convertible(recs)
        THEN /\ tables' = [tables EXCEPT ![out] = [recs |-> recs, whole |-> TRUE]]
             /\ unread' = Append(unread, out)
        ELSE UNCHANGED <<tables, unread>>
  /\ AfterConversion(Head(todo))
  /\ todo' = Tail(todo)
  /\ pc' = "convert"
  /\ UNCHANGED <<lost, manifests, current, temp, installing, infos, olds,
                 nextFileNumber, found, runs, overtaken, reconverted>>

(* archiveFile of a log: its rename.                                       *)
Archive(n) ==
  /\ n \in archiving
  /\ archiving' = archiving \ {n}
  /\ logs' = Without(logs, n)
  /\ lost' = Put(lost, <<"log", n>>, logs[n])
  /\ UNCHANGED <<tables, manifests, current, temp, pc, installing, todo, unread,
                 infos, olds, nextFileNumber, found, runs, overtaken, reconverted>>
-----------------------------------------------------------------------------
Scanning == pc = "convert" /\ todo = <<>> /\ unread # <<>>

(* Mutant: a table is listed before the scan has found an error in it.     *)
ReadsThroughOpened(t) == t.recs # {} \/ ~t.whole

(* scanTable yields an entry and no error.                                 *)
ReadsThrough(t) == t.whole /\ t.recs # {}

(* scanTable: the table can be read to its end.                            *)
ListTable ==
  /\ Scanning
  /\ ReadsThrough(tables[Head(unread)])
  /\ infos' = infos \cup {Head(unread)}
  /\ unread' = Tail(unread)
  /\ UNCHANGED <<disk, pc, archiving, installing, todo, olds, nextFileNumber, found,
                 runs, overtaken, reconverted>>

(* repairTable: the file of the copy is open.                              *)
StartCopy ==
  /\ Scanning
  /\ ~ReadsThrough(tables[Head(unread)])
  /\ tables' = Put(tables, nextFileNumber, [recs |-> {}, whole |-> FALSE])
  /\ nextFileNumber' = nextFileNumber + 1
  /\ pc' = "copy"
  /\ UNCHANGED <<logs, lost, manifests, current, temp, archiving, installing, todo,
                 unread, infos, olds, found, runs, overtaken, reconverted>>

(* A table that has been in error is so again, and the copy is unlinked;   *)
(* an empty one is archived, and the empty copy stays.  Neither is listed. *)
EndCopy ==
  /\ pc = "copy"
  /\ LET n == Head(unread) IN
     IF tables[n].whole
     THEN /\ lost' = Put(lost, <<"table", n>>, {})
          /\ tables' = Without(tables, n)
     ELSE /\ tables' = Without(tables, nextFileNumber - 1)
          /\ UNCHANGED lost
  /\ unread' = Tail(unread)
  /\ pc' = "convert"
  /\ UNCHANGED <<logs, manifests, current, temp, archiving, installing, todo, infos,
                 olds, nextFileNumber, found, runs, overtaken, reconverted>>
-----------------------------------------------------------------------------
(* writeDescriptor: the edit is appended to 1.dbtmp; one that a run before *)
(* has left there comes first, and so does the text of CURRENT, behind     *)
(* which the reader finds nothing.                                         *)
WriteDescriptor ==
  /\ pc = "convert" /\ todo = <<>> /\ unread = <<>>
  /\ temp' = [there |-> TRUE, text |-> temp.text,
              version |-> temp.version \cup infos, next |-> nextFileNumber]
  /\ pc' = "manifests"
  /\ UNCHANGED <<logs, tables, lost, manifests, current, archiving, installing, todo,
                 unread, infos, olds, nextFileNumber, found, runs, overtaken,
                 reconverted>>

ArchiveManifest ==
  /\ pc = "manifests" /\ olds # {}
  /\ manifests' = Without(manifests, Min(olds))
  /\ olds' = olds \ {Min(olds)}
  /\ UNCHANGED <<logs, tables, lost, current, temp, pc, archiving, installing, todo,
                 unread, infos, nextFileNumber, found, runs, overtaken, reconverted>>

(* The rename to MANIFEST-000001 is submitted, and nobody waits.           *)
SubmitInstall ==
  /\ pc = "manifests" /\ olds = {}
  /\ installing' = TRUE
  /\ pc' = "truncate"
  /\ UNCHANGED <<disk, archiving, todo, unread, infos, olds, nextFileNumber, found,
                 runs, overtaken, reconverted>>

(* It answers; if 1.dbtmp is no longer there, with an error for nobody.    *)
Install ==
  /\ installing
  /\ installing' = FALSE
  /\ IF temp.there
     THEN /\ manifests' = Put(manifests, 1, [good    |-> ~temp.text,
                                             version |-> temp.version,
                                             next    |-> temp.next])
          /\ temp' = NoTemp
     ELSE UNCHANGED <<manifests, temp>>
  /\ UNCHANGED <<logs, tables, lost, current, pc, archiving, todo, unread, infos,
                 olds, nextFileNumber, found, runs, overtaken, reconverted>>

(* setCurrentFile: writeFile(1.dbtmp), which truncates the file that is to *)
(* be the manifest if it is still there.                                   *)
WriteTemp ==
  /\ pc = "truncate"
  /\ temp' = [NoTemp EXCEPT !.there = TRUE, !.text = TRUE]
  /\ overtaken' = (overtaken \/ installing)
  /\ pc' = "current"
  /\ UNCHANGED <<logs, tables, lost, manifests, current, archiving, installing, todo,
                 unread, infos, olds, nextFileNumber, found, runs, reconverted>>

(* ... and rename(1.dbtmp, CURRENT), which rejects if the other rename has *)
(* taken the file away.                                                    *)
RenameCurrent ==
  /\ pc = "current"
  /\ IF temp.there
     THEN current' = 1 /\ temp' = NoTemp /\ pc' = "resolved"
     ELSE UNCHANGED <<current, temp>> /\ pc' = "rejected"
  /\ UNCHANGED <<logs, tables, lost, manifests, archiving, installing, todo, unread,
                 infos, olds, nextFileNumber, found, runs, overtaken, reconverted>>

(* The process dies, or ends when run() has rejected; renames that were    *)
(* under way have not happened.                                            *)
Crash ==
  /\ pc \notin {"down", "resolved"}
  /\ pc' = "down"
  /\ archiving' = {} /\ installing' = FALSE
  /\ todo' = <<>> /\ unread' = <<>> /\ infos' = {} /\ olds' = {}
  /\ nextFileNumber' = 1
  /\ overtaken' = temp.text
  /\ reconverted' = (reconverted \/ archiving # {})
  /\ UNCHANGED <<disk, found, runs>>

Next ==
  \/ FindFiles \/ StartConversion \/ EndConversion
  \/ \E n \in archiving : Archive(n)
  \/ ListTable \/ StartCopy \/ EndCopy
  \/ WriteDescriptor \/ ArchiveManifest \/ SubmitInstall \/ Install
  \/ WriteTemp \/ RenameCurrent
  \/ Crash

Spec == Init /\ [][Next]_vars
-----------------------------------------------------------------------------
(* The entries of the logs and of the sound tables that the first run      *)
(* found.                                                                  *)
SoundTables(ts) == {n \in DOMAIN ts : ts[n].whole}
Given ==
  (UNION Range(found.logs))
    \cup (UNION {found.tables[n].recs : n \in SoundTables(found.tables)})

(* Nothing that could be read before is destroyed, at any point of any     *)
(* run: it is in a table that can be read, in a log, or in lost/.          *)
NothingVanishes ==
  Given \subseteq (UNION Range(logs)) \cup (UNION Range(lost))
                    \cup (UNION {tables[n].recs : n \in SoundTables(tables)})

(* The convertible logs and the sound tables that the first run found.     *)
FoundLogs ==
  [n \in {m \in DOMAIN found.logs : Convertible(found.logs[m])} |-> found.logs[n]]

FoundTables == [n \in SoundTables(found.tables) |-> found.tables[n].recs]

Readable == (UNION Range(FoundLogs)) \cup (UNION Range(FoundTables))

Has(recs, k) == \E e \in recs : e.key = k

(* What is found by a search for k through the files from the highest      *)
(* number down.                                                            *)
Searched(files, k) ==
  LET having == {n \in DOMAIN files : Has(files[n], k)}
  IN IF having = {} THEN 0
     ELSE Max({e.seq : e \in {f \in files[Max(having)] : f.key = k}})

(* What the repaired database answers: all tables are on level 0.          *)
Answer(version, k) == Searched([n \in version |-> tables[n].recs], k)

(* The value in the last of the convertible logs that have the key, or if  *)
(* none has it in the last of the tables.                                  *)
Latest(k) ==
  Searched(IF \E n \in DOMAIN FoundLogs : Has(FoundLogs[n], k) THEN FoundLogs
                                                              ELSE FoundTables, k)

(* When run() resolves, CURRENT names a manifest that can be read and that *)
(* lists all tables that can be read, and no other, and allocates above    *)
(* them; whatever was in a sound table or in a log that could be converted *)
(* is in one of them; and every key is answered from the last log that had *)
(* it, or else from the last table.  But for two cases: the manifest's     *)
(* rename, or 1.dbtmp, was overtaken by the text of CURRENT, in this run   *)
(* or left by the one before; and, as for what is answered, a run died     *)
(* while a log was being archived, which the next one converts again.      *)
RepairedReads ==
  pc = "resolved" /\ ~overtaken =>
    /\ current = 1 /\ 1 \in DOMAIN manifests /\ manifests[1].good
    /\ LET v == manifests[1].version IN
         /\ v = {n \in SoundTables(tables) : tables[n].recs # {}}
         /\ \A n \in v : n < manifests[1].next
         /\ Readable \subseteq UNION {tables[n].recs : n \in v}
         /\ ~reconverted => \A e \in Given : Answer(v, e.key) = Latest(e.key)
=============================================================================
