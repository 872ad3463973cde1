------------------------------ MODULE GroupCommit ------------------------------
(***************************************************************************)
(* The write path of RippleDB: Database.write, buildBatchGroup and the     *)
(* WriterQueue.  Every call of put, del, batch and manualCompactMemTable   *)
(* becomes a Writer in one queue.  The writer at the front leads: it makes *)
(* room, merges the batches queued behind it into one, appends the merged  *)
(* batch to the log, inserts it into the memtable, publishes the new last  *)
(* sequence number and wakes the writers it served.                        *)
(*                                                                         *)
(* JavaScript runs one callback at a time and switches only at an await,   *)
(* so each action is the code between two awaits.  The one exception is    *)
(* the loop of buildBatchGroup: it has an action per iteration, and        *)
(* nothing else runs until the loop ends (Quiet); nor does anything run    *)
(* once makeRoomForWrite goes round its loop without an await.             *)
(*                                                                         *)
(* makeRoomForWrite appears here only through its outcome (room, the       *)
(* background error, an exception, or a loop that never ends);             *)
(* MemtableSwitch models its body.                                         *)
(***************************************************************************)
EXTENDS Integers, Sequences

CONSTANTS
  Writers,      \* the write calls
  Flushes,      \* the calls without a batch (manualCompactMemTable)
  Count,        \* Count[w]: number of records in the batch of w
  Size,         \* Size[w]: its byte size
  SmallBatch,   \* 128 << 10: the most a small first batch may grow by
  MaxGroup,     \* 1 << 20: the limit of a merged batch
  BgErrors,     \* whether a background compaction may fail
  IOErrors      \* whether opening or appending to the log may fail

ASSUME GroupCommitAssumption ==
  /\ Flushes \subseteq Writers
  /\ Count \in [Writers -> Nat]
  /\ \A w \in Flushes : Count[w] = 0
  /\ Size \in [Writers -> Nat]
  /\ SmallBatch \in Nat
  /\ MaxGroup \in Nat
  /\ BgErrors \in BOOLEAN
  /\ IOErrors \in BOOLEAN

VARIABLES
  queue,        \* Database.writers
  pc,           \* where each call is
  done,         \* Writer.done
  group,        \* the leader's local variables of buildBatchGroup
  tmpBatch,     \* Database.tmpBatch
  log,          \* the records of the write-ahead log, in file order
  mem,          \* the records inserted into memtables, in insertion order
  lastSequence, \* VersionSet.lastSequence
  bgError,      \* whether Database._bgError is set
  ticket,       \* history: arrival number of each call, 0 before it
  calls         \* history: number of calls made

vars == <<queue, pc, done, group, tmpBatch, log, mem, lastSequence, bgError,
          ticket, calls>>

(* A call holds the front of the queue from the moment it leads until it   *)
(* pops itself; a call that throws never pops.                             *)
Leading   == {"leading", "room", "refused", "building", "logging", "logged",
              "failed", "spinning"}
Merging   == {"building", "logging", "logged"}
Resolved  == {"returned", "dropped"}
PCs       == {"idle", "waiting", "woken"} \cup Leading \cup Resolved

Op      == [w : Writers, i : Nat \ {0}]
Entry   == [seq : Nat \ {0}, op : Op]
Ops(w)  == [i \in 1..Count[w] |-> [w |-> w, i |-> i]]

(* No callback is in the middle of buildBatchGroup, or in the loop of      *)
(* makeRoomForWrite for good.                                              *)
Quiet == \A w \in Writers : pc[w] \notin {"building", "spinning"}

(* The batch buildBatchGroup returns: the first writer's own batch, or     *)
(* tmpBatch once a second batch was merged.                                *)
Result == IF group.merged THEN tmpBatch ELSE Ops(queue[1])

(* Mutant: the header carries lastSequence, without the + 1.               *)
StampedFromLast(ops) ==
  [k \in 1..Len(ops) |-> [seq |-> lastSequence + k - 1, op |-> ops[k]]]

(* The entries of a batch whose header carries sequence lastSequence + 1.  *)
Stamped(ops) == [k \in 1..Len(ops) |-> [seq |-> lastSequence + k, op |-> ops[k]]]

(* Writer.signal: it resolves the promise of wait(), if there is one.      *)
Signal(S) == [w \in Writers |-> IF w \in S /\ pc[w] = "waiting" THEN "woken"
                                                               ELSE pc[w]]
-----------------------------------------------------------------------------
Init ==
  /\ queue = <<>>
  /\ pc = [w \in Writers |-> "idle"]
  /\ done = [w \in Writers |-> FALSE]
  /\ group = [n |-> 0, size |-> 0, merged |-> FALSE]
  /\ tmpBatch = <<>>
  /\ log = <<>>
  /\ mem = <<>>
  /\ lastSequence = 0
  /\ bgError = FALSE
  /\ ticket = [w \in Writers |-> 0]
  /\ calls = 0

(* Mutant: the writer does not wait for its turn.                          *)
CallLeadsAtOnce(w) ==
  /\ Quiet
  /\ pc[w] = "idle"
  /\ queue' = Append(queue, w)
  /\ pc' = [pc EXCEPT ![w] = "leading"]
  /\ calls' = calls + 1
  /\ ticket' = [ticket EXCEPT ![w] = calls + 1]
  /\ UNCHANGED <<done, group, tmpBatch, log, mem, lastSequence, bgError>>

(* write() is called: push the writer, lead if it is alone, else wait().   *)
Call(w) ==
  /\ Quiet
  /\ pc[w] = "idle"
  /\ queue' = Append(queue, w)
  /\ pc' = [pc EXCEPT ![w] = IF queue = <<>> THEN "leading" ELSE "waiting"]
  /\ calls' = calls + 1
  /\ ticket' = [ticket EXCEPT ![w] = calls + 1]
  /\ UNCHANGED <<done, group, tmpBatch, log, mem, lastSequence, bgError>>

(* The promise of wait() has been resolved and the while loop goes round.  *)
Resume(w) ==
  /\ Quiet
  /\ pc[w] = "woken"
  /\ pc' = [pc EXCEPT ![w] = IF done[w] THEN "returned"
                             ELSE IF queue[1] = w THEN "leading" ELSE "waiting"]
  /\ UNCHANGED <<queue, done, group, tmpBatch, log, mem, lastSequence, bgError,
                 ticket, calls>>

(* makeRoomForWrite answers with _bgError if it is set, else with room.    *)
(* Its caller sees the answer only after `await status.ok()`.              *)
MakeRoom(w) ==
  /\ Quiet
  /\ pc[w] = "leading"
  /\ pc' = [pc EXCEPT ![w] = IF bgError THEN "refused" ELSE "room"]
  /\ UNCHANGED <<queue, done, group, tmpBatch, log, mem, lastSequence, bgError,
                 ticket, calls>>

(* makeRoomForWrite throws: closing the old log or opening the new one     *)
(* failed.  write() has no handler, so the writer is never popped.         *)
MakeRoomThrows(w) ==
  /\ Quiet
  /\ IOErrors
  /\ pc[w] = "leading"
  /\ pc' = [pc EXCEPT ![w] = "failed"]
  /\ UNCHANGED <<queue, done, group, tmpBatch, log, mem, lastSequence, bgError,
                 ticket, calls>>

(* The memtable is full, and the one before it, or level 0, as well: the   *)
(* two branches that say "waiting..." go round the loop without an await,  *)
(* so that what they wait for never comes.  MemtableSwitch says when.      *)
MakeRoomSpins(w) ==
  /\ Quiet
  /\ ~bgError
  /\ pc[w] = "leading"
  /\ pc' = [pc EXCEPT ![w] = "spinning"]
  /\ UNCHANGED <<queue, done, group, tmpBatch, log, mem, lastSequence, bgError,
                 ticket, calls>>

(* Mutants: the new front, or the writers served, are not signalled.       *)
PopThroughSilently(w, n, outcome) ==
  LET served == {queue[k] : k \in 2..n}
  IN /\ queue' = SubSeq(queue, n + 1, Len(queue))
     /\ done' = [v \in Writers |-> v \in served \/ done[v]]
     /\ pc' = [Signal(served) EXCEPT ![w] = outcome]

PopThroughForgetsServed(w, n, outcome) ==
  LET rest   == SubSeq(queue, n + 1, Len(queue))
      served == {queue[k] : k \in 2..n}
  IN /\ queue' = rest
     /\ done' = [v \in Writers |-> v \in served \/ done[v]]
     /\ pc' = [Signal(IF rest = <<>> THEN {} ELSE {rest[1]}) EXCEPT ![w] = outcome]

(* The pop loop of write(): the writers up to the last one of the group    *)
(* leave, all but the leader are told they are done, and the new front, if *)
(* there is one, is signalled.                                             *)
PopThrough(w, n, outcome) ==
  LET rest   == SubSeq(queue, n + 1, Len(queue))
      served == {queue[k] : k \in 2..n}
      next   == IF rest = <<>> THEN {} ELSE {rest[1]}
  IN /\ queue' = rest
     /\ done' = [v \in Writers |-> v \in served \/ done[v]]
     /\ pc' = [Signal(served \cup next) EXCEPT ![w] = outcome]

(* A leader with no batch, or with a refused one, pops itself alone.  The  *)
(* error status of a refused write is dropped: its promise resolves.       *)
PopAlone(w) ==
  /\ Quiet
  /\ \/ pc[w] = "refused"
     \/ pc[w] = "room" /\ w \in Flushes
  /\ PopThrough(w, 1, IF pc[w] = "refused" THEN "dropped" ELSE "returned")
  /\ UNCHANGED <<group, tmpBatch, log, mem, lastSequence, bgError, ticket, calls>>
-----------------------------------------------------------------------------
(* buildBatchGroup starts with the leader's own batch.                     *)
StartGroup(w) ==
  /\ Quiet
  /\ pc[w] = "room"
  /\ w \notin Flushes
  /\ pc' = [pc EXCEPT ![w] = "building"]
  /\ group' = [n |-> 1, size |-> Size[w], merged |-> FALSE]
  /\ UNCHANGED <<queue, done, tmpBatch, log, mem, lastSequence, bgError, ticket,
                 calls>>

GroupLimit(w) == IF Size[w] <= SmallBatch THEN Size[w] + SmallBatch ELSE MaxGroup

(* The writer after the last one taken may join: a flush always, a batch   *)
(* if the merged size stays within the limit.                              *)
Fits(w) ==
  /\ group.n < Len(queue)
  /\ LET next == queue[group.n + 1]
     IN next \in Flushes \/ group.size + Size[next] <= GroupLimit(w)

(* Mutant: tmpBatch does not start with the first writer's batch.          *)
ExtendGroupWithoutFirst(w) ==
  /\ pc[w] = "building"
  /\ Fits(w)
  /\ LET next == queue[group.n + 1] IN
       IF next \in Flushes
       THEN /\ group' = [group EXCEPT !.n = @ + 1]
            /\ UNCHANGED tmpBatch
       ELSE /\ group' = [n |-> group.n + 1, size |-> group.size + Size[next],
                         merged |-> TRUE]
            /\ tmpBatch' = tmpBatch \o Ops(next)
  /\ UNCHANGED <<queue, pc, done, log, mem, lastSequence, bgError, ticket, calls>>

(* One iteration of the loop of buildBatchGroup.                           *)
ExtendGroup(w) ==
  /\ pc[w] = "building"
  /\ Fits(w)
  /\ LET next == queue[group.n + 1] IN
       IF next \in Flushes
       THEN /\ group' = [group EXCEPT !.n = @ + 1]
            /\ UNCHANGED tmpBatch
       ELSE /\ group' = [n |-> group.n + 1, size |-> group.size + Size[next],
                         merged |-> TRUE]
            /\ tmpBatch' = (IF group.merged THEN tmpBatch
                            ELSE tmpBatch \o Ops(w)) \o Ops(next)
  /\ UNCHANGED <<queue, pc, done, log, mem, lastSequence, bgError, ticket, calls>>

(* Mutants: the writer that did not fit counts as the last of the group;   *)
(* the log is skipped.                                                     *)
SubmitGroupTakesNext(w) ==
  /\ pc[w] = "building"
  /\ ~Fits(w)
  /\ pc' = [pc EXCEPT ![w] = "logging"]
  /\ group' = [group EXCEPT !.n = IF @ < Len(queue) THEN @ + 1 ELSE @]
  /\ UNCHANGED <<queue, done, tmpBatch, log, mem, lastSequence, bgError, ticket,
                 calls>>

SubmitGroupSkipsLog(w) ==
  /\ pc[w] = "building"
  /\ ~Fits(w)
  /\ pc' = [pc EXCEPT ![w] = "logged"]
  /\ UNCHANGED <<queue, done, group, tmpBatch, log, mem, lastSequence, bgError,
                 ticket, calls>>

(* The loop ends, and _log.addRecord is called with the batch.             *)
SubmitGroup(w) ==
  /\ pc[w] = "building"
  /\ ~Fits(w)
  /\ pc' = [pc EXCEPT ![w] = "logging"]
  /\ UNCHANGED <<queue, done, group, tmpBatch, log, mem, lastSequence, bgError,
                 ticket, calls>>

(* The record reaches the file.                                            *)
LogAppend(w) ==
  /\ Quiet
  /\ pc[w] = "logging"
  /\ log' = log \o Stamped(Result)
  /\ pc' = [pc EXCEPT ![w] = "logged"]
  /\ UNCHANGED <<queue, done, group, tmpBatch, mem, lastSequence, bgError, ticket,
                 calls>>

(* Mutant: the failing leader pops itself, as a `finally` would.           *)
LogThrowsAndPops(w) ==
  /\ Quiet
  /\ IOErrors
  /\ pc[w] \in {"logging", "logged"}
  /\ PopThrough(w, 1, "failed")
  /\ UNCHANGED <<group, tmpBatch, log, mem, lastSequence, bgError, ticket, calls>>

(* addRecord rejects, before or after the record reached the file.  The    *)
(* leader throws out of write(): it stays at the front, and tmpBatch keeps *)
(* what it holds.                                                          *)
LogThrows(w) ==
  /\ Quiet
  /\ IOErrors
  /\ pc[w] \in {"logging", "logged"}
  /\ pc' = [pc EXCEPT ![w] = "failed"]
  /\ UNCHANGED <<queue, done, group, tmpBatch, log, mem, lastSequence, bgError,
                 ticket, calls>>

(* Mutants: lastSequence counts batches, not records; tmpBatch keeps what  *)
(* it holds.                                                               *)
CommitCountsBatches(w) ==
  /\ Quiet
  /\ pc[w] = "logged"
  /\ mem' = mem \o Stamped(Result)
  /\ lastSequence' = lastSequence + group.n
  /\ tmpBatch' = IF group.merged THEN <<>> ELSE tmpBatch
  /\ PopThrough(w, group.n, "returned")
  /\ UNCHANGED <<group, log, bgError, ticket, calls>>

CommitKeepsTmpBatch(w) ==
  /\ Quiet
  /\ pc[w] = "logged"
  /\ mem' = mem \o Stamped(Result)
  /\ lastSequence' = lastSequence + Len(Result)
  /\ PopThrough(w, group.n, "returned")
  /\ UNCHANGED <<group, tmpBatch, log, bgError, ticket, calls>>

(* addRecord resolves: insert into the memtable, clear tmpBatch if it was  *)
(* used, publish the last sequence number, pop the group.                  *)
Commit(w) ==
  /\ Quiet
  /\ pc[w] = "logged"
  /\ mem' = mem \o Stamped(Result)
  /\ lastSequence' = lastSequence + Len(Result)
  /\ tmpBatch' = IF group.merged THEN <<>> ELSE tmpBatch
  /\ PopThrough(w, group.n, "returned")
  /\ UNCHANGED <<group, log, bgError, ticket, calls>>

(* recordBackgroundError, called by the background compaction.             *)
BackgroundError ==
  /\ Quiet
  /\ BgErrors
  /\ bgError' = TRUE
  /\ UNCHANGED <<queue, pc, done, group, tmpBatch, log, mem, lastSequence, ticket,
                 calls>>

Next ==
  \/ BackgroundError
  \/ \E w \in Writers :
       \/ Call(w) \/ Resume(w)
       \/ MakeRoom(w) \/ MakeRoomThrows(w) \/ MakeRoomSpins(w) \/ PopAlone(w)
       \/ StartGroup(w) \/ ExtendGroup(w) \/ SubmitGroup(w)
       \/ LogAppend(w) \/ LogThrows(w) \/ Commit(w)

(* The event loop runs every callback that is ready, and the file system   *)
(* answers every request; clients need not call.                           *)
Progress(w) ==
  \/ Resume(w) \/ MakeRoom(w) \/ PopAlone(w)
  \/ StartGroup(w) \/ ExtendGroup(w) \/ SubmitGroup(w)
  \/ LogAppend(w) \/ Commit(w)

Spec == Init /\ [][Next]_vars
FairSpec == Spec /\ \A w \in Writers : WF_vars(Progress(w))
-----------------------------------------------------------------------------
TypeOK ==
  /\ queue \in Seq(Writers)
  /\ pc \in [Writers -> PCs]
  /\ done \in [Writers -> BOOLEAN]
  /\ group \in [n : Nat, size : Nat, merged : BOOLEAN]
  /\ tmpBatch \in Seq(Op)
  /\ log \in Seq(Entry)
  /\ mem \in Seq(Entry)
  /\ lastSequence \in Nat
  /\ bgError \in BOOLEAN
  /\ ticket \in [Writers -> Nat]
  /\ calls \in Nat

InLog(w) == \A i \in 1..Count[w] : \E k \in 1..Len(log) : log[k].op = [w |-> w, i |-> i]
InMem(w) == \A i \in 1..Count[w] : \E k \in 1..Len(mem) : mem[k].op = [w |-> w, i |-> i]

(* Two calls never lead at once: the call that runs makeRoomForWrite,      *)
(* buildBatchGroup or addRecord is the front of the queue, so no other     *)
(* call touches tmpBatch, the log or lastSequence meanwhile.               *)
OneLeader == \A w \in Writers : pc[w] \in Leading => queue # <<>> /\ queue[1] = w

(* No wake-up is lost: the front of the queue is never asleep in wait()    *)
(* with nobody left to signal it, and a call told it is done has been      *)
(* signalled.                                                              *)
NoLostWakeup ==
  /\ queue # <<>> => pc[queue[1]] \in Leading \cup {"woken"}
  /\ \A w \in Writers : done[w] => pc[w] \in {"woken", "returned"}

(* The sequence number a record carries in the log is its position: merged *)
(* batches get contiguous numbers, none is reused and none is skipped.     *)
SequencesContiguous == \A k \in 1..Len(log) : log[k].seq = k

(* The log holds the records in the order of the calls, each at most once, *)
(* and those of one batch in the order of the batch.                       *)
LogInCallOrder ==
  \A k, l \in 1..Len(log) : k < l =>
    \/ ticket[log[k].op.w] < ticket[log[l].op.w]
    \/ log[k].op.w = log[l].op.w /\ log[k].op.i < log[l].op.i

(* Write-ahead: the memtables hold exactly the records of the log up to    *)
(* the published last sequence number, so nothing a reader can see would   *)
(* be missing from the log, and nothing is visible out of log order.       *)
WriteAhead ==
  /\ Len(mem) = lastSequence
  /\ lastSequence <= Len(log)
  /\ \A k \in 1..lastSequence : mem[k] = log[k]

(* A write that went through the log path resolves only when its records   *)
(* are in the log and visible, whichever call wrote them.                  *)
AckedIsApplied ==
  \A w \in Writers \ Flushes : pc[w] = "returned" => InLog(w) /\ InMem(w)

(* The shared tmpBatch is empty whenever a leader starts merging; the code *)
(* asserts it in buildBatchGroup.                                          *)
TmpBatchEmpty ==
  \A w \in Writers : pc[w] = "building" /\ ~group.merged => tmpBatch = <<>>

(* After a write threw, nothing more is logged or published: what tmpBatch *)
(* still holds is not written a second time and no later write overtakes.  *)
FailStop ==
  [][(\E w \in Writers : pc[w] = "failed") => UNCHANGED <<log, mem, lastSequence>>]_vars

(* Every write call resolves, with two exceptions.  A call that threw stays *)
(* at the front, and the calls queued behind it wait for ever; and one for  *)
(* which makeRoomForWrite found no room and no way to make any goes round   *)
(* its loop for ever, and nothing else runs.                                *)
EveryWriteReturns ==
  \A w \in Writers :
    (pc[w] # "idle") ~> \/ pc[w] \in Resolved
                        \/ \E v \in Writers : pc[v] \in {"failed", "spinning"}

(* The write path implements AtomicWrites: what readers see is the memtable *)
(* contents; a call takes effect at the Commit that serves it.             *)
Seen == [k \in 1..Len(mem) |-> mem[k].op]

RequestState(w) ==
  CASE pc[w] = "idle"                                     -> "new"
    [] pc[w] = "returned" \/ (pc[w] = "woken" /\ done[w]) -> "applied"
    [] pc[w] \in {"dropped", "failed"}                    -> "rejected"
    [] OTHER                                              -> "pending"

Promise == INSTANCE AtomicWrites
  WITH req <- [w \in Writers |-> RequestState(w)], store <- Seen

ImplementsAtomicWrites == Promise!Spec
-----------------------------------------------------------------------------
(* The inductive invariant behind the safety properties, in four parts.    *)

(* The queue is the calls not yet served, in call order; all but the front *)
(* sleep, and the front is awake.                                          *)
QueueInv ==
  /\ Len(queue) <= calls
  /\ \A k \in 1..Len(queue) : ticket[queue[k]] = calls - Len(queue) + k
  /\ \A k \in 2..Len(queue) : pc[queue[k]] = "waiting" /\ ~done[queue[k]]
  /\ queue # <<>> => pc[queue[1]] \in Leading \cup {"woken"} /\ ~done[queue[1]]
  /\ \A w \in Writers :
       pc[w] \in Leading \cup {"waiting"} \/ (pc[w] = "woken" /\ ~done[w])
         => \E k \in 1..Len(queue) : queue[k] = w
  /\ \A w \in Writers : done[w] => pc[w] \in {"woken", "returned"}
  /\ \A w \in Writers : pc[w] = "idle" => ticket[w] = 0

(* While a leader merges, Result is the batches of the first group.n       *)
(* writers of the queue: only their records, all of them, in call order.   *)
ResultFromGroup ==
  \A k \in 1..Len(Result) :
    /\ ticket[Result[k].w] > calls - Len(queue)
    /\ ticket[Result[k].w] <= calls - Len(queue) + group.n

ResultInCallOrder ==
  \A k, l \in 1..Len(Result) : k < l =>
    \/ ticket[Result[k].w] < ticket[Result[l].w]
    \/ Result[k].w = Result[l].w /\ Result[k].i < Result[l].i

InResult(w) == \A i \in 1..Count[w] : \E k \in 1..Len(Result) : Result[k] = [w |-> w, i |-> i]

ResultComplete == \A m \in 1..group.n : queue[m] \notin Flushes => InResult(queue[m])

GroupInv ==
  \A v \in Writers : pc[v] \in Merging =>
    /\ v \notin Flushes
    /\ group.n \in 1..Len(queue)
    /\ ResultFromGroup
    /\ ResultInCallOrder
    /\ ResultComplete

(* tmpBatch holds something only between a merge and the end of its write. *)
TmpInv ==
  tmpBatch # <<>> =>
    \E w \in Writers : pc[w] = "failed" \/ (pc[w] \in Merging /\ group.merged)

ResultLogged ==
  /\ Len(log) = lastSequence + Len(Result)
  /\ \A k \in 1..Len(Result) : log[lastSequence + k].op = Result[k]

(* The log is what was published, plus the batch in flight.                *)
LogInv ==
  /\ SequencesContiguous
  /\ LogInCallOrder
  /\ WriteAhead
  /\ \A k \in 1..Len(log) : ticket[log[k].op.w] > 0
  /\ \A k \in 1..lastSequence : ticket[log[k].op.w] <= calls - Len(queue)
  /\ Len(log) # lastSequence => \E w \in Writers : pc[w] \in {"logged", "failed"}
  /\ \A w \in Writers : pc[w] = "logged" => ResultLogged

(* Whoever was told its write is done, or is about to read it, was served. *)
ServedInv ==
  \A w \in Writers \ Flushes :
    pc[w] = "returned" \/ (pc[w] = "woken" /\ done[w]) => InMem(w)

IInv == TypeOK /\ QueueInv /\ GroupInv /\ TmpInv /\ LogInv /\ ServedInv
=============================================================================
