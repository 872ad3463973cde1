---------------------------------- MODULE Reads ----------------------------------
(***************************************************************************)
(* Database.get and Database.iterator, beside writes, memtable switches,   *)
(* flushes and compactions: what a read captures when it starts, how it    *)
(* gets at the tables of its version (TableCache), and how an iterator     *)
(* merges the memtables and the tables (Merger, Skiplist, SSTable).        *)
(*                                                                         *)
(* A key is a number, the empty key is 0; the value of a write is its      *)
(* sequence number.  A block of a table holds one entry.  What flushes and *)
(* compactions do is reduced to the memtables and versions they leave      *)
(* (MemtableSwitch, Levels); a table stays as long as a version has it,    *)
(* and no version is ever dropped.  Reads are without a snapshot: what a   *)
(* get captures holds nothing newer than its sequence number.              *)
(***************************************************************************)
EXTENDS TableCache, Functions

CONSTANTS
  Getter,        \* calls of get
  Scanner,       \* the call of iterator
  MaxKey,        \* keys are 1..MaxKey
  Asked,         \* the keys that get is called with
  Updates,       \* the writes that are tried, pairs of a key and whether it
                 \* is deleted
  Starts,        \* IteratorOptions.start, the values that are tried
  Backward,      \* IteratorOptions.reverse, the values that are tried
  Disk,          \* what the tables hold when the database is opened, the
                 \* newest table first
  Faults,        \* the file operations that may fail: "open", "table"; one
                 \* fails
  MaxWrites,     \* bound: number of writes
  MaxCompactions \* bound: number of compactions

Key   == 1..MaxKey
Entry == [key : Key, seq : Nat \ {0}, del : BOOLEAN]

ASSUME ReadsAssumption ==
  /\ Reader = Getter \cup {Scanner} /\ Scanner \notin Getter
  /\ MaxKey \in Nat \ {0}
  /\ Asked \subseteq Key /\ Updates \subseteq Key \X BOOLEAN
  /\ Starts \subseteq 0..MaxKey /\ Backward \subseteq BOOLEAN
  /\ Faults \subseteq {"open", "table"}
  /\ MaxWrites \in Nat /\ MaxCompactions \in Nat
  /\ Disk \in Seq(SUBSET Entry)
  /\ \A i \in 1..Len(Disk) : Disk[i] # {} /\ IsFiniteSet(Disk[i])
  /\ \A i, j \in 1..Len(Disk) : \A a \in Disk[i], b \in Disk[j] :
       a.key = b.key => (i < j => a.seq > b.seq) /\ (i = j /\ a.seq = b.seq => a = b)

VARIABLES
  mems,        \* the memtables ever used: a sequence of sets of entries
  imm,         \* the immutable memtable: a position in mems, or 0
  tables,      \* the tables ever written: a sequence of sets of entries
  version,     \* the current version: its tables, in the order get searches
  flushed,     \* whether the version has the table of the immutable memtable
  lastSequence,
  compactions, \* number of compactions
  closed,      \* Database.close() has come to the table cache
  get,         \* each get
  scan,        \* the iterator
  erred,       \* history: the readers whose findTable failed
  wanted,      \* history: the value of its key when each get was called
  held         \* history: the value each key had when the scan was called,
               \* and those written since to a memtable it captured

dataVars == <<mems, imm, tables, version, flushed, lastSequence, compactions, closed>>
vars     == <<dataVars, cacheVars, get, scan, erred, wanted, held>>

mem == Len(mems)

NoGet  == [at |-> "idle", key |-> 0, files |-> <<>>, value |-> 0]
NoScan == [at |-> "idle", back |-> FALSE, start |-> 0, files |-> <<>>,
           sources |-> <<>>, last |-> 0, out |-> <<>>]

Init ==
  /\ mems = <<{}>> /\ imm = 0 /\ flushed = FALSE
  /\ tables = Disk /\ version = [i \in 1..Len(Disk) |-> i]
  /\ lastSequence = Max({0} \cup {e.seq : e \in (UNION Range(Disk))})
  /\ compactions = 0 /\ closed = FALSE
  /\ InitCache
  /\ get = [g \in Getter |-> NoGet]
  /\ scan = NoScan
  /\ erred = {}
  /\ wanted = [g \in Getter |-> 0]
  /\ held = [k \in Key |-> {}]
-----------------------------------------------------------------------------
(* InternalKeyComparator: newer entries of a key first.                    *)
Precedes(a, b) == a.key < b.key \/ (a.key = b.key /\ a.seq > b.seq)

(* The order in which a scan goes through its sources.                     *)
Ahead(a, b, back) == IF back THEN Precedes(b, a) ELSE Precedes(a, b)

First(s, back) == {e \in s : \A f \in s \ {e} : Ahead(e, f, back)}

(* The entry that a search for k in a memtable or a table comes upon.      *)
Newest(s, k) == First({e \in s : e.key = k}, FALSE)

Value(found) ==
  IF \E e \in found : ~e.del THEN (CHOOSE e \in found : TRUE).seq ELSE 0

Stored(k) ==
  Value(Newest((UNION Range(mems))
                 \cup (UNION {tables[version[i]] : i \in 1..Len(version)}), k))

Smallest(t) == Min({e.key : e \in tables[t]})
Largest(t)  == Max({e.key : e \in tables[t]})

(* The elements of the sequence s at the positions p, in their order.      *)
At(s, p) ==
  [j \in 1..Cardinality(p) |-> s[CHOOSE i \in p : Cardinality({h \in p : h <= i}) = j]]
-----------------------------------------------------------------------------
(* The data.                                                               *)

(* Whether the scan goes through the memtable m.                           *)
Captures(m) == \E i \in 1..Len(scan.sources) : scan.sources[i].mem = m

Write(k, del) ==
  LET e == [key |-> k, seq |-> lastSequence + 1, del |-> del] IN
  /\ ~closed /\ lastSequence < MaxWrites
  /\ lastSequence' = lastSequence + 1
  /\ mems' = [mems EXCEPT ![mem] = @ \cup {e}]
  /\ held' = [held EXCEPT ![k] =
       IF scan.at = "open" /\ Captures(mem) THEN @ \cup {Value({e})} ELSE @]
  /\ UNCHANGED <<imm, tables, version, flushed, compactions, closed, cacheVars,
                 get, scan, erred, wanted>>

SwitchMemtable ==
  /\ ~closed /\ imm = 0 /\ mems[mem] # {}
  /\ imm' = mem /\ mems' = Append(mems, {})
  /\ UNCHANGED <<tables, version, flushed, lastSequence, compactions, closed,
                 cacheVars, get, scan, erred, wanted, held>>

(* compactMemtable, up to the version with the new table.                  *)
InstallFlush ==
  /\ imm # 0 /\ ~flushed
  /\ tables' = Append(tables, mems[imm])
  /\ version' = <<Len(tables) + 1>> \o version
  /\ flushed' = TRUE
  /\ UNCHANGED <<mems, imm, lastSequence, compactions, closed, cacheVars, get,
                 scan, erred, wanted, held>>

DropImm ==
  /\ imm # 0 /\ flushed
  /\ imm' = 0 /\ flushed' = FALSE
  /\ UNCHANGED <<mems, tables, version, lastSequence, compactions, closed,
                 cacheVars, get, scan, erred, wanted, held>>

(* A compaction of the tables from the i-th on, two of them at least: the  *)
(* newest entry of each key is kept, and not if it is a deletion, for      *)
(* there is nothing below.                                                 *)
Kept(s) == {e \in s : e \in Newest(s, e.key) /\ ~e.del}

Compact(i) ==
  LET kept == Kept(UNION {tables[version[j]] : j \in i..Len(version)})
      above == SubSeq(version, 1, i - 1)
  IN
  /\ ~flushed /\ compactions < MaxCompactions
  /\ tables' = IF kept = {} THEN tables ELSE Append(tables, kept)
  /\ version' = IF kept = {} THEN above ELSE Append(above, Len(tables) + 1)
  /\ compactions' = compactions + 1
  /\ UNCHANGED <<mems, imm, flushed, lastSequence, closed, cacheVars, get, scan,
                 erred, wanted, held>>

Close ==
  /\ ~closed /\ closed' = TRUE
  /\ Reset
  /\ UNCHANGED <<mems, imm, tables, version, flushed, lastSequence, compactions,
                 get, scan, erred, wanted, held>>
-----------------------------------------------------------------------------
(* get.                                                                    *)

(* Mutant: the oldest table is searched first.                             *)
OverlappingOldestFirst(k) ==
  Reverse(At(version, {i \in 1..Len(version) :
                         Smallest(version[i]) <= k /\ k <= Largest(version[i])}))

Overlapping(k) ==
  At(version, {i \in 1..Len(version) :
                 Smallest(version[i]) <= k /\ k <= Largest(version[i])})

InMemory(k) ==
  IF Newest(mems[mem], k) = {} /\ imm # 0 THEN Newest(mems[imm], k)
                                          ELSE Newest(mems[mem], k)

(* The memtables are searched, and the version is captured, at once.       *)
GetCall(g, k) ==
  /\ ~closed /\ get[g].at = "idle"
  /\ LET files == IF InMemory(k) # {} THEN <<>> ELSE Overlapping(k) IN
     get' = [get EXCEPT ![g] =
       [at    |-> IF files = <<>> THEN "answered" ELSE "open",
        key   |-> k,
        files |-> files,
        value |-> Value(InMemory(k))]]
  /\ wanted' = [wanted EXCEPT ![g] = Stored(k)]
  /\ UNCHANGED <<dataVars, cacheVars, scan, erred, held>>

GetFindTable(g) ==
  /\ get[g].at = "open"
  /\ FindTable(g, Head(get[g].files))
  /\ UNCHANGED <<dataVars, get, scan, erred, wanted, held>>

(* State.match after tableCache.get: a table that has no entry of the key  *)
(* is followed by the next one.  A closed handle rejects the read of the   *)
(* block, and get with it.                                                 *)
SearchTable(g) ==
  /\ get[g].at = "open" /\ look[g].at = "found"
  /\ LET found == Newest(tables[look[g].table], get[g].key)
         files == Tail(get[g].files)
     IN get' = [get EXCEPT ![g] =
          IF look[g].handle \notin opened THEN [@ EXCEPT !.at = "rejected"]
          ELSE IF found = {} /\ files # <<>> THEN [@ EXCEPT !.files = files]
          ELSE [@ EXCEPT !.at = "answered", !.files = <<>>, !.value = Value(found)]]
  /\ look' = [look EXCEPT ![g] = NoLook]
  /\ UNCHANGED <<dataVars, cache, opened, leaked, scan, erred, wanted, held>>

(* Any other error than NotFound ends the search, and Version.get says     *)
(* NotFound for it: get answers that there is no such key.                 *)
SearchFails(g) ==
  /\ get[g].at = "open" /\ look[g].at = "error"
  /\ get' = [get EXCEPT ![g].at = "answered", ![g].files = <<>>]
  /\ look' = [look EXCEPT ![g] = NoLook]
  /\ UNCHANGED <<dataVars, cache, opened, leaked, scan, erred, wanted, held>>
-----------------------------------------------------------------------------
(* iterator.                                                               *)

Edge(back) == [key |-> IF back THEN MaxKey + 1 ELSE 0, seq |-> 0, del |-> FALSE]

(* A child of the merger: a memtable or a table, its cursor, and the entry *)
(* that the merger has of it.                                              *)
Source(m, t, h, back) ==
  [mem |-> m, table |-> t, handle |-> h, at |-> "fresh", cursor |-> Edge(back),
   head |-> {}]

MemSources(back) ==
  <<Source(mem, 0, 0, back)>> \o (IF imm = 0 THEN <<>> ELSE <<Source(imm, 0, 0, back)>>)

Relevant(t, start, back) ==
  IF back THEN start >= Smallest(t) ELSE start <= Largest(t)

(* The memtables and the version are captured at once.                     *)
ScanCall(back, start) ==
  /\ ~closed /\ scan.at = "idle"
  /\ scan' = [at |-> "open", back |-> back, start |-> start,
              files |-> At(version, {i \in 1..Len(version) :
                                       Relevant(version[i], start, back)}),
              sources |-> MemSources(back),
              last |-> IF back THEN MaxKey + 1 ELSE start,
              out |-> <<>>]
  /\ held' = [k \in Key |-> {Stored(k)}]
  /\ UNCHANGED <<dataVars, cacheVars, get, erred, wanted>>

ScanFindTable ==
  /\ scan.at = "open" /\ scan.files # <<>>
  /\ FindTable(Scanner, Head(scan.files))
  /\ UNCHANGED <<dataVars, get, scan, erred, wanted, held>>

(* A table that cannot be opened is left out without a word.               *)
AddTable ==
  /\ look[Scanner].at \in {"found", "error"}
  /\ LET l == look[Scanner] IN
     scan' = [scan EXCEPT !.files = Tail(@), !.sources =
       IF l.at = "found" THEN Append(@, Source(0, l.table, l.handle, scan.back)) ELSE @]
  /\ look' = [look EXCEPT ![Scanner] = NoLook]
  /\ UNCHANGED <<dataVars, cache, opened, leaked, get, erred, wanted, held>>

Beyond(s, e, back) == First({f \in s : Ahead(e, f, back)}, back)

(* A memtable that is read forward is resumed at the node before the one   *)
(* it yielded: what has been inserted between the two is stepped over, and *)
(* the entry is yielded again.                                             *)
Resumed(src) ==
  IF src.mem # 0 /\ src.at = "running" /\ ~scan.back
  THEN CHOOSE e \in Beyond(mems[src.mem], src.cursor, FALSE) : TRUE
  ELSE src.cursor

(* A source after next(): its head is its next entry.                      *)
Pulled(src) ==
  LET s    == IF src.mem # 0 THEN mems[src.mem] ELSE tables[src.table]
      from == Resumed(src)
      next == Beyond(s, from, scan.back)
  IN [src EXCEPT !.at = IF next = {} THEN "ended" ELSE "running",
                 !.cursor = IF (src.mem # 0 /\ ~scan.back) \/ next = {}
                            THEN from ELSE CHOOSE e \in next : TRUE,
                 !.head = next]

Empty(sources) == {i \in 1..Len(sources) : sources[i].head = {} /\ sources[i].at # "ended"}

(* The source whose head goes first; of equal heads the first.             *)
Hit(sources) == {i \in 1..Len(sources) :
  \E e \in sources[i].head : \A j \in 1..Len(sources) \ {i} : \A f \in sources[j].head :
     Ahead(e, f, scan.back) \/ (~Ahead(f, e, scan.back) /\ i < j)}

(* Mutant: a key that is deleted does not become the last one.            *)
TakenUnlessDeleted(sc, e) ==
  IF Ahead([e EXCEPT !.key = sc.last], e, sc.back) /\ ~e.del
  THEN [sc EXCEPT !.last = e.key, !.out = Append(@, e)]
  ELSE sc

(* iterator() passes on the first entry of every key beyond the last one,  *)
(* unless it is a deletion.                                                *)
Taken(sc, e) ==
  IF IF sc.back THEN e.key < sc.last ELSE e.key > sc.last
  THEN [sc EXCEPT !.last = e.key, !.out = IF e.del THEN @ ELSE Append(@, e)]
  ELSE sc

(* The merger awaits the first source that it has no entry of; when it has *)
(* one of all of them it yields the one that goes first.  A closed handle  *)
(* rejects the read of a block.                                            *)
Pull ==
  /\ scan.at = "open" /\ scan.files = <<>>
  /\ LET i == Min(Empty(scan.sources))
         src == Pulled(scan.sources[i])
         sources == [scan.sources EXCEPT ![i] = src]
         hit == Hit(sources)
         rest == [j \in 1..Len(sources) |->
                    IF j \in hit THEN [sources[j] EXCEPT !.head = {}] ELSE sources[j]]
     IN scan' =
          IF src.table # 0 /\ src.head # {} /\ src.handle \notin opened
          THEN [scan EXCEPT !.at = "rejected"]
          ELSE IF Empty(sources) # {} THEN [scan EXCEPT !.sources = sources]
          ELSE IF hit = {} THEN [scan EXCEPT !.at = "done", !.sources = <<>>]
          ELSE Taken([scan EXCEPT !.sources = rest],
                     CHOOSE e \in UNION {sources[j].head : j \in hit} : TRUE)
  /\ UNCHANGED <<dataVars, cacheVars, get, erred, wanted, held>>
-----------------------------------------------------------------------------
(* The file operations of findTable, for any reader.                       *)

Used == {look[r].handle : r \in Reader}
          \cup {scan.sources[i].handle : i \in 1..Len(scan.sources)}

Open(r) ==
  /\ OpenFile(r, Used)
  /\ UNCHANGED <<dataVars, get, scan, erred, wanted, held>>

OpenError(r) ==
  /\ erred = {} /\ erred' = {r}
  /\ \/ "open" \in Faults /\ OpenFails(r)
     \/ "table" \in Faults /\ OpenTableFails(r)
  /\ UNCHANGED <<dataVars, get, scan, wanted, held>>

Cache(r) ==
  /\ OpenTable(r)
  /\ UNCHANGED <<dataVars, get, scan, erred, wanted, held>>

GetStep(g) == GetFindTable(g) \/ SearchTable(g) \/ SearchFails(g)

ScanStep == ScanFindTable \/ AddTable \/ Pull

Next ==
  \/ \E u \in Updates : Write(u[1], u[2])
  \/ SwitchMemtable \/ InstallFlush \/ DropImm
  \/ \E i \in 1..(Len(version) - 1) : Compact(i)
  \/ Close
  \/ \E g \in Getter : \E k \in Asked : GetCall(g, k)
  \/ \E g \in Getter : GetStep(g)
  \/ \E back \in Backward, start \in Starts : ScanCall(back, start)
  \/ ScanStep
  \/ \E r \in Reader : Open(r) \/ OpenError(r) \/ Cache(r)

Spec == Init /\ [][Next]_vars
-----------------------------------------------------------------------------
(* A get that is answered says what was stored under its key when it was   *)
(* called, whatever is written, flushed, compacted or dropped from the     *)
(* cache before the answer; unless a table could not be opened.            *)
GetAnswers ==
  \A g \in Getter : get[g].at = "answered" /\ g \notin erred =>
    get[g].value = wanted[g]

(* A scan yields every key once, in its direction.  A forward scan that no *)
(* file operation failed yields the values that its keys had when it was   *)
(* called, but for later writes to the memtable that was current then; and *)
(* when it ends it has yielded every key beyond its start, but for those   *)
(* deleted there or in that memtable.  ReadOptions.snapshot promises "an   *)
(* implicit snapshot of the state at the beginning of this read operation" *)
(* (Options.ts:34-35): iterator() never compares the sequence it takes,    *)
(* and these writes are how far it falls short of that.                    *)
ScanAnswers ==
  LET out  == scan.out
      keys == {out[i].key : i \in 1..Len(out)}
  IN
  /\ \A i, j \in 1..Len(out) : i < j =>
       IF scan.back THEN out[j].key < out[i].key ELSE out[i].key < out[j].key
  /\ ~scan.back /\ Scanner \notin erred =>
       /\ \A i \in 1..Len(out) : out[i].seq \in held[out[i].key]
       /\ scan.at = "done" =>
            \A k \in (scan.start + 1)..MaxKey : k \in keys \/ 0 \in held[k]
=============================================================================
