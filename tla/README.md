# RippleDB in TLA+

Specifications, model checks and proofs for RippleDB, a port of LevelDB to
TypeScript. Paths are relative to the root of the repository; `Database.ts`
stands for `src/Database.ts`, and so on.

RippleDB has no threads. JavaScript runs one callback at a time and switches
only at an `await`, so what interleaves is the code between two awaits of the
calls in flight. Two consequences shape every module:

* a step of a model is the code between two awaits, never less;
* a loop that does not await stops everything, the work it waits for included.

## Inventory

| Component | State it keeps | Operations | Interacts with |
|---|---|---|---|
| Write path (`Database.write`, `WriterQueue`, `WriteBatch`) | queue of writers, `tmpBatch`, `lastSequence` | `put`, `del`, `batch`, merging, popping, signalling | log, memtable, makeRoomForWrite |
| Memtable switch and background work (`makeRoomForWrite` to `deleteObsoleteFiles`) | `_memtable`, `_immtable`, `_logFileNumber`, `pendingOutputs`, `_backgroundCompactionScheduled`, `_bgError`, `_manualCompaction` | switch, schedule, flush, compact, `compactRange`, collect files | write path (which awaits it), versions, file system |
| Versions and levels (`VersionSet`, `Version`, `VersionBuilder`, `VersionFormat`, `VersionEdit`, `Compaction`) | list of versions, counters, compaction pointers, manifest | `logAndApply`, `recover`, `pickCompaction`, `get`, level choice | everything that reads or installs tables |
| Recovery (`recoverWrapper`, `recover`, `recoverLogFile`) | none of its own | replay manifest, replay logs, new log, new manifest | lock, log reader, tables |
| Log format (`LogWriter`, `LogReader`, `LogRecord`) | block offset, read buffer | `addRecord`, iteration | write path, manifest, recovery |
| Memtable (`MemTable`, `Skiplist`) | skip list | `add`, `get`, iteration | write path, get |
| Snapshots (`Snapshot`) | linked list | insert, delete, oldest | compaction, get |
| Scans (`Merger`, `IteratorHelper`, `Database.iterator`) | cursors | forward and reverse iteration | memtables, tables |
| Tables (`SSTable*`, `Builder`, filters) | the file | build, open, get, scan | cache, compaction |
| Caches (`SSTableCache`, `LRUCache`, `Yallist`) | open tables, blocks | find, set, trim, reset | get, scans |
| Lock (`Lockfile`) | a file, a timer, an exit handler | lock, refresh, unlock | other databases, opening and closing |
| Repair (`DBRepairer`) | lists of files | logs to tables, scan tables, rebuild the manifest | tables, logs, CURRENT |
| Encodings (`Coding`, `Format`, `Slice`, `Crc32`, ...) | none | pure functions | all |

**Interaction.** `write` awaits `makeRoomForWrite`, which awaits
`maybeScheduleCompaction`, which awaits the whole chain of flushes and
compactions: the "background" runs inside whichever call started it, while
other calls interleave at its awaits. A chain reports to the others through
shared fields (`_bgError`, `_immtable`, the current version). Log, manifest,
CURRENT, the lock file and the tables are the state that outlives the process.

**What is hard.** Hand-over between queued writers; state read before an await
and used after it (`lastSequence`, the version `logAndApply` derives, the live
set of `deleteObsoleteFiles`, the memtables and the version of a read); which log a flush
makes obsolete while writes go on; exceptions that leave a writer in the queue or a chain scheduled; waits
that never give the event loop back; a crash at any step, in the middle of a table included;
numbers of files used again after a crash; promises that nobody awaits (the refresh
of the lock, two renames of the repairer); handles that one reader closes and another
reads. `PROJECT.json` lists each at its line
under `hazards`.

**What makes each component correct.**

* Write path: each call takes effect at one instant, whole and once, in queue
  order; the log is ahead of the memtable; a call resolves unless one before it threw or
  `makeRoomForWrite` cannot make room.
* Switch and background: one chain at a time; every acknowledged write can be
  read and would survive a crash; no needed file is deleted; calls return.
* Recovery: an opened database holds the last acknowledged write (which the code gives
  with two exceptions); sequence and file numbers are never given out twice; opening ends.
* Levels: files of a level do not overlap; a newer entry is never below an older
  one; a compaction drops nothing that a snapshot or get still needs.
* Log format: the reader returns what the writer wrote, for every record length.
* Reads: get answers what was stored when it was called; a scan yields each key once,
  in order, with the value it had at the call (which the code gives but for later writes
  to one memtable). Caches: every open handle has an owner, and a table
  in the cache can be read.
* Lock: an owner that refreshes in time keeps the lock; an abandoned lock is taken
  over; `lock()` ends. Repair: nothing is destroyed, and all that can be read is in the
  repaired database.

## Modules

### GroupCommit, with AtomicWrites and GroupCommit_proofs

`GroupCommit` is `Database.write` (635-685), `buildBatchGroup` (687-724) and
`WriterQueue`. `pc[w]` is the await a call is suspended at:

| `pc` | in the code |
|---|---|
| `waiting`, `woken` | inside `writer.wait()`; its promise resolved, the loop test not yet run |
| `leading` | about to get an answer from makeRoomForWrite |
| `room`, `refused` | that answer, before the caller has seen it (`await status.ok()`) |
| `building` | inside the loop of buildBatchGroup: nothing else runs (`Quiet`) |
| `logging`, `logged` | `addRecord` called; the record in the file, the promise pending |
| `spinning` | going round the loop of makeRoomForWrite (757-766) for ever; nothing else runs |
| `returned`, `dropped`, `failed` | resolved; resolved but refused; rejected |

`group` and `tmpBatch` are the locals of buildBatchGroup and the shared batch.
`log` and `mem` are the sequences of records, with the sequence number each got;
`ticket` and `calls` are history. A flush (a call without a batch) is absorbed
into a group as in the code. `BackgroundError`, `MakeRoomThrows` and `LogThrows`
are the failures; a call that throws stays at the front. `MakeRoomSpins` is the third thing
that may become of makeRoomForWrite, beside an answer and an exception: when that is possible is
in MemtableSwitch, and here it may happen at any time.

`AtomicWrites` is what callers are promised: every call is applied at one
instant between its call and its answer, whole and once, or never.
`ImplementsAtomicWrites` is the refinement: `store` is the memtable contents, and
a served call counts as applied from the `Commit` of its leader on.

### MemtableSwitch, with MemtableSwitch_proofs

`makeRoomForWrite` (729-798) branch by branch, `maybeScheduleCompaction` and
`backgroundCall` (800-838), `backgroundCompaction` (840-920), `compactMemTable`
and `writeLevel0Table` (1083-1156), `compactRange` (1231-1301),
`VersionSet.logAndApply` and `deleteObsoleteFiles`. A call carries its own chain
(`job`), because the chain runs inside it. Between two awaits, or at "spinning",
where the code never awaits again, nobody else moves (`Quiet`); a timer fires
and a file answers only when no resolved promise is left to run (`Idle`). Tables and
logs are sets of writes; a version is the tables of level 0 and those deeper.
`FlushFails`, `MoveFails`, `CompactionFails` and `Throw` are the failures at
every await. A flush may start before any entry of a running compaction, as in
`doCompactionWork` (946).

Abstracted: a write has a key of its own; a compaction has one output; automatic
compactions leave level 0 only (Levels has the others); a failing logAndApply
does not damage the manifest.

### Recovery, with Recovery_proofs

The files (`current`, `manifests`, `logs`, `tables`) and what is in memory, which
a `Crash` forgets. Each file operation of a flush is a step (`StartFlush`,
`BuildFlushTable`, `AppendEdit`, `TruncateCurrent`, `WriteCurrent`,
`DeleteObsolete` file by file), as is each of recovery (`Open`, `ReplayLog`,
`FinishReplay`, `NewLog`, then the same tail). `CURRENT` is 0 while `writeFile`
has truncated it. A table is the list of images appended to its file, since files
are opened with "a+"; it is `Sound` when its last image is whole and is the
first. `Crash` is possible at every step, so the last image may be torn, and the next recovery
may give its number to a table again (`BehindTorn`). `todo` is the set of logs still to be
replayed; the next one is `First(todo)`, in the order `Array.sort` gives their numbers
(`SortsBefore`); `disordered` records that this was once not the order of the numbers. All writes
go to one key, so `Get` tells whether an older value came back.

Abstracted: no compactions; a record of log or manifest is appended whole or not
at all (torn appends are in LogFormat); a torn image of a table has its first block (one without
any byte does no harm); no I/O errors; a database that exists already.

### Levels, with Levels_proofs

Which tables a version has on which level, and who finds what in them. An entry
is a user key, a sequence number and whether it deletes; a table (`FileMetaData`)
is its set of entries with the smallest and the largest; its size is their number.

| Definition | in the code |
|---|---|
| `FlushMemtable`, `PickLevelForMemTableOutput` | `compactMemTable`; the level is picked from the version of that moment, also inside a compaction |
| `Score`, `CompactionLevel`, `NeedsCompaction` | `VersionSet.finalize` |
| `PickCompaction`, `Picked`, `SetupOtherInputs`, `AddBoundaryInputs` | `pickCompaction` with compaction pointers, boundary files, expansion and grandparents; a trivial move is installed in the same step |
| `Drops`, `StopsBefore`, `Outputs` | the loop of `doCompactionWork`: drop rules, and where one table ends and the next begins |
| `LogAndApply`, `LevelsInOrder` | `VersionBuilder.saveTo`: the new version, or its assertion throws |
| `CompactRange`, `ManualFiles`, `ManualCompaction`, `NextLevel` | `compactRange` and its loops |
| `Get`, `Level0Search`, `FileFor`, `Match`, `Seek` | `Database.get`, `Version.forEachOverlapping`, `State.match`, `MemTable.get` |

`driver` says who waits for the chain of background work: a write that switched
memtables, behind which all writes queue, or a compactRange, beside which writes
go on. `PickCompaction` or `ManualCompaction` begins a compaction and
`FinishCompaction` installs it; its outputs depend only on what it read at the
beginning, so they are computed at the end, and flushes come in between. `stopped`
is set where the code throws for good: "overlap" for the assertion of
VersionBuilder, "level" for a compaction of the last two levels, which have no
grandparents (VersionSet.ts:697, Compaction.ts:130). `AddBoundaryInputs` says in one
set what the loop of `addBoundaryInputs` collects file by file: all files after those of F, up
to the first that does not continue a user key.

Abstracted: file sizes are numbers of entries; memtables switch at any size; a
compactRange is called while no chain runs (otherwise its write would queue, or it
would block the event loop, as in MemtableSwitch); no failures of files, no seek
compactions (`updateStats` is empty in the code).

### LogFormat

`LogWriter` and `LogReader`, for the log and the manifest. A file is a sequence of
cells: the length and the type of a header (the checksum is never compared), a
byte of a record with its place, a zero. `NextAppend` is `addRecord` up to its next
await; `EmitPhysicalRecord` is the append that answers, `Crash` leaves a part of it.
`NewWriter` is what `logAndApply` does for every edit (VersionSet.ts:319-328, 359-360):
the file is opened for appending by a writer that starts counting at zero. The
reader keeps its one buffer over all blocks and ignores how much `read` returned
(LogReader.ts:41-52), so past the end of the file it parses the block before;
`AsType` and `AsLength` let it take any value from a byte that is not what it
expects. `Fragments` and `Records` are the format, independent of both.

Three faults of the code are visible in it, and the properties say where they end:

* The reader throws on a complete file when a record that ended with a last
  fragment leaves exactly a header's room in its block
  (`LastAfterLast`): the writer puts a first fragment without data there
  (LogWriter.ts:68), the reader skips it (LogReader.ts:39), and the assertion on two last
  fragments (LogReader.ts:64) fails. `NothingMissing` holds up to this case.
* Behind the last record of a file of several blocks the reader may yield old
  records again, invent some, or throw; only a file within its first block is
  read exactly (`FirstBlockExact`).
* A manifest of several writers is readable within its first block only: beyond it
  the writer's blocks are not the reader's (`OneWriter`).

### Lock, with Lock_proofs

`Lockfile`, as used by `shouldInit` (`Database.ts` 157-176), `close` (423-432) and the exit
handler that its constructor installs. A process is one `Database` object, which
locks once. Time is discrete: `Tick` ages the file and advances every clock.

| `pc` | in the code |
|---|---|
| `waiting`, `deciding`, `closing`, `sleeping` | `waitUntilExpire` before `open`, after `stat`, in `fd.close()`, in the timeout |
| `taking`, `written`, `holding` | `waitUntilOk` said yes; the first `writeSomething` is done; `lock()` returned, with the interval set |
| `failed`, `removing` | `lock()` threw; its `close()` unlinks the file all the same |
| `unlocking`, `unlinked`, `closed` | `unlock()`, whose interval is cleared after the unlink |

A refresh is submitted by the interval (`Refresh`) and reaches the file later
(`LandRefresh`), also after `unlock`. `WriteFails` and `RefreshFails` are the errors that
`writeSomething` swallows. No timer fires and no file answers in time by assumption; a
process that is late by more than MaxDelay, whose write failed, or whose file somebody
else unlinked is in `lapsed`, and the properties say what holds for the others.
With `lockfileStale` of 10 s a holder may be late by 1.5 s; a blocked event
loop (`MemtableSwitch`) makes it later than that.

What the lock does *not* give is at most one holder. `waitUntilOk` and
`writeSomething` are two steps, so two processes that find no file, or an abandoned one,
both hold the lock; the close of a database that failed to lock, and the exit handler of
one that was closed long ago, unlink the file of the holder. `NoIntrusion` is what
remains.

Abstracted: `open` and `stat` are one step; `open` fails only for want of the file.

### TableCache and Reads, with Reads_proofs

`TableCache` is `findTable` (SSTableCache.ts 74-98) over `LRUCache`: one call per reader,
at its three awaits (`opening`, `reading`, `found` or `error`). `CacheWith` and `Disposed`
are `LRUCache.set` with `trim`: nothing moves on `get`, a table that is in the cache
already keeps its place with the new handle, and the old handle is closed at once.

`Reads` composes it with `Database.get` (541-597) and `Database.iterator` (434-534). Both
capture memtables and version at their call. `GetFindTable`, `SearchTable` and
`SearchFails` are `State.match`, table by table; `ScanFindTable` and `AddTable` collect
the sources of a scan, and each `Pull` is one `next()` that the merger awaits: `Pulled` moves
the cursor of a memtable or a table, `Hit` is the choice of the merger, `Taken`
the filter of `iterator`. Beside them the data changes: `Write`, `SwitchMemtable`,
`InstallFlush`, `DropImm`, `Compact`, `Close`.

Some of what the code does is visible in the model and exempted by name in
the properties:

* A failed open ends the search of get as if the key were not there
  (Version.ts:79-81, 224-226); a scan leaves such a table out (Database.ts:492).
* A scan is not a snapshot. `Options.ts` 32-35, for the options that those of an iterator extend,
  says: "If "snapshot" is null, use an implicit snapshot of the state at the beginning of this
  read operation", and docs/implementation/SnapShots.md:32-34 that `get` and `iterator` answer
  records older than the sequence of a snapshot. `iterator()` computes that number
  (Database.ts:438-441), makes a `lookupKey` of it, and never compares an entry with it. So a
  scan yields what is written after its call into the memtable that was current then, even once
  that is flushed, and `options.snapshot` of a scan has no effect. `ScanAnswers` says how far
  exactly this goes: a forward scan yields the value of its call or one written since into a
  memtable that it captured (`held`), and nothing that was written into a memtable made after
  its call.
* A backward scan yields the *oldest* version that a memtable or
  a table has of a key, and one without `start` skips all tables
  (Database.ts:485-490): `ScanAnswers` claims only order and uniqueness for it.
* A forward scan never yields a key equal to its `start`.

Abstracted: what flushes and compactions do to levels is in Levels; old versions and
tables are never deleted; a table block holds one entry; a caller that leaves a scan early
is not modelled; no snapshots. The block cache is left out: its keys are new buffers,
which a `Map` compares by identity, so it never hits.

### Repair, with Repair_proofs

`DBRepairer.run` on a directory without a usable manifest: `FindFiles`, then for each log
`StartConversion`, `EndConversion` and the rename nobody awaits (`Archive`), for each
table `ListTable` or `StartCopy` and `EndCopy`, then `WriteDescriptor`, `ArchiveManifest`,
`SubmitInstall`, and `setCurrentFile` (`WriteTemp`, `RenameCurrent`), beside which the other
rename that nobody awaits answers (`Install`). `Crash` may happen at every step, and the
repairer runs again on what it left.

What the code does, as opposed to what its documentation says, is visible here:

* The rename of `1.dbtmp` to the manifest races with `setCurrentFile`, which writes
  and renames the same name. If it is late, the manifest is the text of CURRENT, or
  `run()` rejects with ENOENT although tests/repair.test.ts:33 expects it to resolve. The
  model has both outcomes; `overtaken` marks the first, and `RepairedReads` excepts it.
* A crash in `setCurrentFile` leaves a `1.dbtmp` with text, which the next run appends
  to (DBRepairer.ts:348), making the manifest unreadable (`overtaken` as well; a crash
  elsewhere clears it).
* A crash while the rename of a log is pending leaves the log beside its table; the
  next run converts it into a table with a higher number than those of newer logs,
  and older values come back (`reconverted`). What is listed is right all the same.
* A log with two versions of a key is not converted, although docs/implementation/Repair.md:38
  says "If `.log` file is found, convert it to SSTable files": the repairer compares internal
  keys byte by byte, and the assertion of `SSTableBuilder.add` fails. The log goes to `lost/` all the
  same, so what it held is not in the repaired database; `NothingVanishes` counts `lost/`, and
  `RepairedReads` speaks of the convertible logs (`FoundLogs`).
* "Drop the damaged records when iterator SSTable files" (Repair.md:43): a damaged table is left
  out whole, with its good records, and stays where it is ("RepairTable archives input file",
  DBRepairer.ts:279).
* All tables are put on level 0, where the one with the highest number wins. A compaction of a
  deeper level writes old values under a high number, so after one an older value may come back.
  `RepairedReads` says what is answered: the value of the last convertible log that has the
  key, or else of the last table (`Latest`), be it the newest or not. The instances have
  both kinds of directory.

Abstracted: logs are read as they are (LogFormat has damaged ones); no I/O errors but
those of missing files and damaged tables; the database is not opened between two runs.

## Runs

| Run | Configuration | Question and result |
|---|---|---|
| `group_commit` | five calls: a batch of two, two of one, one too large to merge, a flush; every failure | nine safety, action and liveness properties and the refinement hold |
| `memtable_switch` | three writers, one compactRange, failures at every await | one chain; acknowledged writes stay readable and recoverable; no needed table deleted; calls return unless one fails at the front or one spins |
| `recovery` | three crashes at any step, in tables and CURRENT included | the last acknowledged write stays on disk and is answered, unless its table is behind a torn image; numbers stay fresh; opening ends |
| `levels` | two keys, four writes, one a deletion, a snapshot, a compactRange | values are read at every live snapshot as written; newer above older; compactions end |
| `log_format` | records of 1 to 8 cells in blocks of 7, a second writer, a crash in any append | the file holds the acknowledged records; the reader yields them first, exactly them within a block, and ends |
| `lock` | two processes, every failure and delay | the lock is not taken from an owner in good standing; an abandoned lock is taken over; `lock()` ends |
| `reads` | one get, one scan, a cache of one table, one failing open, two writes, a compaction, `close()` | get answers right; forward scans do, but for writes to the memtable of their call; every handle has an owner |
| `repair` | eight directories, two of compacted databases, three runs, crashes anywhere | nothing is destroyed; a repair that was not overtaken lists exactly what can be read, and answers from the last log or else the last table |
| `memtable_switch_waits` | as memtable_switch, no failures | **violated**: the "wait" for the previous memtable never lets it finish |
| `recovery_order` | file numbers around 10 | **violated**: logs are not replayed "in the order in which the logs were generated", and an older value comes back |
| `recovery_torn` | two writes, two crashes | **violated**: a crash inside the table of a recovery, and the next recovery loses an acknowledged write |
| `levels_deleted` | two keys, five writes, a snapshot, automatic compactions | **violated**: a compaction drops a deletion marker but not the older value in the next table of its output level, which is read again |

The four violated ones refute what a comment of the repository says; `PROJECT.json` quotes it
under `findings`. Other disagreements are states the models reach, without a run that demands the
opposite:

* A write that meets a recorded background error is not written, and its promise resolves
  (`pc = "dropped"` in GroupCommit; Database.ts:651, 733-735), although Options.ts:65-67
  says "no writes will be lost even if sync==false".
* A scan yields writes that were made after its call (`Pull` in Reads), against the "implicit
  snapshot" of Options.ts:32-35: see Reads above.
* The repairer does not convert every log it finds and drops whole tables (`EndConversion`,
  `EndCopy`), against Repair.md:38 and 43: see Repair above.
* A crash between truncating and writing CURRENT leaves a database that is not opened again
  (`Refuse` in Recovery), against the same lines of Options.ts.
* With three keys and a compactRange of level 1 over two tables with a gap, Levels reaches
  `stopped = "overlap"`: a memtable in the gap is flushed to level 2 in the middle of the
  compaction (Database.ts:946, Version.ts:404-438), the output overlaps it, and the assertion
  of VersionBuilder.ts:121 ends all background work.

**Bounds.** Limits are scaled, not dropped. `group_commit`: SmallBatch 1 and
MaxGroup 4 so that both limits of buildBatchGroup cut a group, with a first batch
below and one above the small limit; five calls give a group of three, a group cut
by size, an absorbed flush and a second leader. `memtable_switch`: WriteBuffer 0
switches the memtable at every second write, so three writers reach two
full memtables; triggers 2/2/3 instead of 4/8/12 reach compaction, the delay and the
full level; MaxFileNumber bounds how often a flush starts inside a compaction
that never ends. Writers are interchangeable, and are called in one order (`CalledInOrder`):
symmetry would not be sound with EveryCallReturns. `recovery`:
WriteBuffer 1 gives logs with one and with two records; six writes are three
memtables, so three logs can exist at once; three crashes allow one in normal
operation and two in the recoveries that follow. FirstFree is 10, so that all file numbers have
two digits and the names of the logs sort as their numbers (`disordered` stays FALSE);
`recovery_order` starts at 9 instead. `recovery_torn` needs one write and two crashes. The runs
of Levels have four levels and compact level 0 at two files and level 1 at two
entries, so flushes and compactions reach level 2. Tables hold one entry, where a
snapshot spreads a user key over two tables and boundary files matter, or two,
where tables merge. `levels` has two keys, enough for an order within a table and a
level; a gap between tables would take three. LevelRatio keeps level 2
below its limit and level 3 empty: the exceptions for
the last levels are modelled, but no bound reaches them.

`log_format` has blocks of seven cells with headers of two, and records of every size
up to eight: full, two and three fragments, a trailer, no trailer, a bare header.
Three records reach the sixth block. MaxMixed stops a file of two writers three
cells into its second block, because what a reader may make of it from there on is
anything and grows without saying more.

`lock`: Stale 4 and Slack 2 give an interval of 2; with MaxDelay 1 the assumption
`Half + 4 * MaxDelay <= Stale + Slack` holds with equality, so every delay counts. Ages,
waits and clocks are capped where the code no longer tells them apart. Two processes
are enough for one to hold, lose and regain the file while the other waits; the proofs
are for any number. `reads`: the cache has one entry, so every second table disposes of
a handle; two tables on disk that overlap, one with a deletion, and a memtable and its
flushed table give a scan up to four sources; one file operation fails; two more writes,
one a deletion, may come at any point. `repair`: two logs and two tables, one of them damaged
or empty, or one log and two tables of which the one with the higher number is older, as a
compaction leaves them; three runs allow a repair that was interrupted twice.

**Fairness.** Weak fairness of a call's own steps: the event loop runs every
callback that is ready in turn, and a file operation that was submitted answers.
Clients need not call, and failures need not happen. A crashed process is
restarted (`Recovery`). `Levels` states weak fairness of the background chain with
its enabling condition written out (`Busy`), because TLC evaluates ENABLED of an
action that computes whole compactions too slowly. `Lock` assumes that time
passes and that each pending step of a process happens in the end, not that it happens
in time. Strong fairness is assumed once: in `MemtableSwitch` of `Moved`, since a trivial move that
fails is tried again by the chain, and a file system that rejects every attempt for ever would
keep it going. Deadlock checking is off
in the runs where the system really may stop: everyone behind a spinning or failed
call, or the bound on writes, runs and crashes reached.

**Liveness, stated as it is.** `EveryWriteReturns` carries the two exceptions the code
has: once a call threw, the calls behind it wait for ever; and a call for which
`makeRoomForWrite` has no room and no way to make any goes round its loop (Database.ts:757-766)
without an await, and nothing else runs. `GroupCommit` does not assume that
`makeRoomForWrite` answers (`MakeRoomSpins`). `EveryCallReturns` says, with the whole body of
`makeRoomForWrite`, when that may be: a call spins only if a compactRange was called or
something failed. Writers alone always return, because the chain a writer starts ends before another
writer can fill the memtable again. With a compactRange beside them it does happen, which is the
finding of `memtable_switch_waits`.
`LockEnds` holds although the file may be refreshed or change hands for ever, since
the patience of `waitUntilExpire` counts from its first call.
`RecoveryCompletes` excludes a truncated CURRENT, which the code refuses to open, and a database
whose logs were replayed in another order than that of their numbers.

## Proofs

Each `*_proofs` module has an inductive invariant `IInv`, a lemma for each action and
conjunct that the action can disturb, and `Invariance`, which joins them; the other
theorems follow from it. They hold for every value of the constants that satisfies the
named assumption of the component's module, without further hypotheses. TLC checks those
assumptions on every
instance; that the configurations reach the interesting states is what the runs add.

| Module | Theorems | of |
|---|---|---|
| `GroupCommit_proofs` | `TypeCorrect`, `Leadership`, `WakeUps`, `Sequences`, `LogOrder`, `LogBeforeMemtable`, `Acknowledged`, `NothingAfterFailure`, `BatchOfGroup`, `Refinement` | the write path, AtomicWrites |
| `MemtableSwitch_proofs` | `TypeCorrect`, `OneChain`, `AckedReadable`, `AckedRetained`, `TablesStay` | memtable switch and background work |
| `Levels_proofs` | `TypeCorrect`, `NewestFirst`, `Retention`, `SnapshotsAreRight` | levels and compactions |
| `Recovery_proofs` | `TypeCorrect`, `AlwaysRecoverable`, `NothingIsLost`, `SequencesAreFresh`, `NumbersAreFresh` | recovery and manifest |
| `Reads_proofs` | `HandlesAreOwned`, `GetIsRight`, `ScanIsRight` | table cache, get, iterator |
| `Repair_proofs` | `KeepsEverything`, `RepairIsRight` | the repairer |
| `Lock_proofs` | `TypeCorrect`, `OwnersAreSafe`, `AbandonedIsTaken` | the lock |

`FiniteNumbers` has the lemmas about finite sets of numbers that several of them need: a
nonempty set has a least number, a finite one a greatest; a finite set of numbers leaves one
free above it; `RankIsBijective`, by which the tables that get searches, a filtered
sequence, are exactly the overlapping ones in their order; `RecursionOnNumbers`, that a function
given by its first value and the step to each next one exists, by which the recursive function
that cuts a compaction into tables has the values it says. Where one would use induction the
proofs take a least counterexample, because the library's induction theorems have an operator
as a parameter.

### GroupCommit_proofs

For every set of writers, every batch (empty ones included), every limit and every
combination of failures. The assumption is the types of the constants, and that a flush has
no records. The inductive invariant adds to the types:

* `QueueInv`: the queue holds the calls not yet served in the order of their
  tickets; all but the front sleep; the front is awake. It gives OneLeader and
  NoLostWakeup, and lets the rest speak of "the first n of the queue".
* `GroupInv`: while a leader merges, the batch under way has the records of
  exactly the first `group.n` calls, complete and in order. This links
  buildBatchGroup to the pop loop: who is told "done" is who was written.
* `TmpInv`: `tmpBatch` is empty unless a merge is under way or a call failed, so
  the batch the next leader starts has nothing old in front.
* `LogInv`: the log is what was published plus at most the batch in flight, and
  tickets in its published part are below those in the queue. It gives
  contiguity, call order and write-ahead.
* `ServedInv`: whoever was told it is done is in the memtable.

`FailStop` follows from `IInv`: a failed call is at the front for good, so no other can lead.

The refinement needs one more direction: the batch holds *nothing but* the records of the
group (`RecordsInv`, theorem `BatchOfGroup`). Then `Commit` appends exactly the records of
the calls it serves, and is the step of AtomicWrites that applies them, one after another; every
other step leaves the abstract store alone or is the abstract call or answer (`Refinement`).

### MemtableSwitch_proofs

For any number of calls and every setting of the triggers, with failures at every await. The
assumption orders the triggers as the code's constants are, keeps writers and compactions
apart, and says that `None` is neither a call nor a set of writes.

* `LeadersInv`, `ChainInv`: who is inside makeRoomForWrite is at the front; a chain runs only
  while `_backgroundCompactionScheduled` is set. They make the shared fields stable between
  two awaits of one call.
* `LogsInv`, `MemoryInv`: log numbers grow, and what a memtable holds is in a log that recovery
  reads. A switch is possible only while there is no immutable memtable.
* `TablesInv`, `JobsInv`: what a running flush or compaction knows of the version is still so when
  it installs its edit: its table is in no version yet, its inputs are still there, the version it
  derived differs from the current one by its own edit only (`NextVersionInv`, the hazard of
  `logAndApply`), and the collection of files spares them.
* `Readable` is itself inductive given these.

The proof uses neither `Quiet` nor `Idle`: which callback the event loop runs first does not
matter for safety, only that code between two awaits is not interrupted.

### Recovery_proofs

For any numbers of writes and crashes and any memtable size, with crashes at any step and no
hypothesis. What the code does not keep is in the statements:

* Once `disordered` is set nothing is claimed but types: `Inv` is `disordered` or `IInv`, with
  the logs still to be replayed in the order of their numbers. `recovery_order` shows what happens
  else; with `FirstFree = 9` a single crash suffices. It is a history variable and not a
  condition on `FirstFree` because `Digits` is a recursive function, which the provers cannot
  unfold for every number, and because a database of any age meets 10, 100 and so on.
* `NothingIsLost` proves `LostOnlyIfTorn`: an acknowledged write that get does not answer is in
  the newest table, complete, behind a torn image of the same number. `recovery_torn` shows that
  this happens. `AlwaysRecoverable` has the same of every table of the version on disk: it
  can be read, or it is complete behind a torn image, and no other way of losing a write exists.

The central definition is `OnDisk(M, T, L, b, a, c)`, a predicate of the files alone, with `s` the
state that manifest `c` records. It holds in every phase, and when the process crashes nothing
else is left:

* `Marked`: CURRENT, log and tables of s have numbers below its `nextFile`.
* `Orphans`, `Attempts`: files above `nextFile` were left by recoveries from this same s that
  crashed. They hold what the next attempt will write under the same number, so that "a+"
  appends a second copy of the same table, which still reads right, unless the
  copy in front of it is torn (`Begun`). This is the reason that recoveries that were interrupted
  between two tables are harmless, and where a torn table or another order of logs breaks them.
* `Tabled` with `Ordered`: the tables of s are complete (`Settled`), and newer ones come first in
  the search
  of get and hold only newer sequence numbers.
* `Logging`: at most two logs have something to replay; the second one is newer, and both are above
  what the tables cover.
* `Durable`: the last acknowledged write is in one of these.

`OpenInv(s)` relates an open database to it (`MemoryInv`, and what a flush has done so far:
`RestInv`, `BuildInv`, `InstallInv`), `RecoveryInv` a recovering one (`ReplayInv`: which logs are
replayed and what the edit has of them; `HandInv`, `EditInv`: the new log and the edit to be
written). `FinishReplay` is the hard step: the version that the edit makes must satisfy
OnDisk for the *new* manifest although CURRENT still names the old one.

### Levels_proofs

For any numbers of keys, levels, writes, snapshots and compactRanges and every setting of the
limits. `LevelsAssumption` is the types of the constants, three levels at least, and that
the powers of the level ratio, which the provers cannot compute with, are positive.

* `FilesInv`: tables are sets of written entries with their ends, under numbers used once.
* `NewerInv`: memtables are newer than all below, tables of level 0 newer by their numbers,
  deeper ones as far as they have keys in common.
* `CompactionInv`: when a compaction ends its inputs are still there, though memtables were flushed
  meanwhile, and no file that stays on their level has older entries of their keys
  (`StaysNewer`).

The work is in the choice of the inputs. `Solid` is what getOverlappingInputs gives: on level 0
nothing left behind shares a key with them, on the others nothing lies between two of them.
`BoundaryInputs` shows that addBoundaryInputs then leaves no older entry above, which is what it
is for; `InputsAreSound` carries it through setupOtherInputs, expanded or not. The
second input level needs no such property for this (the finding of `levels_deleted` is about
it). `InstallKeeps` is one lemma for trivial moves and compactions: what goes down one
level leaves newer entries first. A flush keeps it because `PickedLevel` finds no key of its
range above the level it picks. `LevelsInOrder` is an invariant since the code asserts it before it
installs a version; that the assertion never fails is not so (see Runs).

`SnapshotsAreRight` has three parts. `KeptInv` (theorem `Retention`): the newest entry of a key
at a number somebody may read at, a live snapshot or the last sequence number, is in a memtable
or a table unless it is a deletion. It needs `SnapshotsInv`: the list of snapshots is in order,
and the oldest number that a compaction under way has read is not above any of them, whatever
is taken and released meanwhile. The drop rules remove no such entry; `OutputsHold` shows that
every entry they leave is in one of the tables, however `StopsBefore` cuts. `GetFinds` then has
get reach it: `NewerAbove` leaves no earlier place with a hit, and `FileForFinds` shows that the
binary search by the ends of the files ends at the file with the entry, for which the order of
a deeper level is needed. Deletions are not kept in this sense: the finding of `levels_deleted`.

### Reads_proofs

For any number of gets, keys, tables, writes, flushes and compactions, and any size of the
cache. The assumption on `Disk` is what an opened database has: finite nonempty tables, newer
ones first, sequence numbers used once.

* `CacheInv`: a handle is in the cache, or in the flight of exactly one call, or it was dropped
  (`HandlesOwned`); no two cached tables share one.
* `DataInv`: sequence numbers are used once (`Numbering`); memtable, immutable memtable and
  the tables in their order are newer and newer (`Layered`); for each key, the newest entry of what
  a new get would search is the newest of all ever written, but for deletions with nothing
  to hide (`NothingHidden`).
* `GetsOnCourse`: what a get captured at its call, less what it has searched, still leads to
  the value it is to answer. Tables never change, so flushes and compactions keep it.

`ScanIsRight` needs a second invariant, `ScanInv`, proved with `IInv` of both states at hand.
What an iterator yields depends on all it has captured at its call, and on how far each of its
sources has come while the database went on:

* `SourceOnCourse`: a source has gone by nothing beyond the last key but its head. One of a memtable
  is resumed behind its cursor, in a list that has grown; so there must be an entry between
  the cursor and the last key to be resumed at, or it would yield a key again.
* `KeyOnCourse`, for each key beyond the last one: `held` has the value of the call and
  what was written since into a captured memtable. Either the key was absent at one of these
  moments, and every entry the scan has of it is in `held`; or one of its entries is still to
  come, and that entry and all newer ones are in `held`. Inserts into a captured memtable
  add newer values, and a flush or compaction takes away no table that was captured, so
  that every step of others keeps it (`Grown`, `ScanStays`).
* What is yielded is the foremost of all heads (`NotAfter`), hence the newest of its key that
  is to come (`TakenIs`), and a key that is passed over had none to come (`Passes`).

Order and uniqueness (`ScanOrdered`) hold for scans in both directions and with failed file
operations; values and completeness for forward scans without, as `ScanAnswers` says.

### Repair_proofs

For every directory with finitely many numbered logs and tables, any crashes and runs.
`NothingVanishes` needs that no file is overwritten, appended to by mistake, or renamed over
another: `OutputInv` (the next number is above every table), `LogsOnce` (a log is converted and
archived once) and `TablesOnce` (a table is scanned once and taken away only if it has nothing
readable).

`RepairIsRight` holds for every directory too, whatever numbers compactions have given to
its tables. Its invariant `AnswerInv`, beside `IInv`:

* `OriginInv`: what could be read is in a table that a scan lists or in a log not converted yet,
  and those tables have nothing else. It holds after every crash.
* `CourseInv`: a run meets every log, in ascending order, and every table it can list, those of the
  logs included; so the edit lists exactly the tables that can be read, also when it is
  appended to that of a run that died, whose tables can all be listed still.
* `EditInv`, while no rename is overtaken: where the edit is, from `1.dbtmp` to the manifest that
  CURRENT names.
* `OrderInv`, while no run died at the archiving of a log: a search for a key through the logs not
  converted yet, and if none has it through the tables that can be listed, finds what the same
  search of the first directory found (`Latest`). A log that is converted leaves the end of the first
  search for the front of the second, as its table has the highest number (`ConvertedSearch`).

When no log is left, the search of the tables is the answer of the repaired database, whose tables
are all on level 0.

### Lock_proofs

`Lock_proofs` proves `TypeCorrect`, `OwnersAreSafe` (NoIntrusion) and `AbandonedIsTaken`
(FailsOnlyIfContended) for every set of processes and all times that satisfy
`LockAssumption`, the only assumption. The inductive invariant adds to the types:

* `LeaseInv`: the file of an owner in good standing exists and is no older than its
  interval, plus the delays that are still due. Without the clocks and the flight of the
  refresh, a single tick would break it.
* `SightInv`: what a waiting process saw, at most a delay ago, is no older than
  the owners it saw allow; so `Expired` implies that all of them have lapsed.
* `PatienceInv`: as long as nobody touches the file of a waiting process, its age grows with
  the waiting time, so it expires before patience ends, for all the sleeps and delays between.

`StepLease`, `StepSight` and `StepPatience` have one case per action, and `ExpiredMeansLapsed`
joins the first two.

### Only model-checked

* All liveness, fairness and ENABLED: EveryWriteReturns, EveryCallReturns, RecoveryCompletes,
  LockEnds and those of Levels and LogFormat. They are beyond the prover.
* LogFormat as a whole: what `Records` and `Fragments` say of a file is computed from its
  start to its end, so every fact about them is an induction over the cells of the file. Its
  four invariants are the only ones of the runs that no theorem states.
* For which file numbers the names of the logs sort otherwise (`disordered`), see above.

## Not modelled

Left for later: I/O errors during recovery; creating a database; `close()` beside running
writes and a running chain; opening a database after a repair that died; scans that are left
early.

Left out for good: byte encodings, hashing, CRCs and block layout inside tables
(sequential computation on data), the environments for node and deno (pure I/O), tests,
fixtures, benchmarks and scripts.
