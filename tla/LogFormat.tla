------------------------------- MODULE LogFormat -------------------------------
(***************************************************************************)
(* The file format of the write-ahead log and of the manifest: LogWriter   *)
(* cuts a record into fragments that do not cross a block, LogReader puts  *)
(* them together again, block by block, in a buffer that it never clears.  *)
(*                                                                         *)
(* A file is a sequence of cells, one for each byte that matters: the      *)
(* length and the type in a header, the bytes of the records, zeros.  The  *)
(* manifest's writer is made anew for every edit (VersionSet.logAndApply), *)
(* in the middle of a block; a crash may cut the last append short.        *)
(***************************************************************************)
EXTENDS Integers, Sequences, FiniteSets, SequencesExt, Functions

CONSTANTS
  kBlockSize,    \* 32768 in the code
  kHeaderSize,   \* 7 in the code: checksum, length, type
  RecordSizes,   \* the sizes of the records, in cells
  MaxRecords,    \* bound: number of records
  MaxReopens,    \* bound: how often the file is opened for a new writer
  MaxMixed       \* bound: length of a file to which a second writer adds

ASSUME LogFormatAssumption ==
  /\ kHeaderSize \in Nat /\ kHeaderSize >= 2
  /\ kBlockSize \in Nat /\ kBlockSize > 2 * kHeaderSize
  /\ RecordSizes \subseteq Nat \ {0}
  /\ MaxRecords \in Nat /\ MaxReopens \in Nat /\ MaxMixed \in Nat

VARIABLES
  file,          \* the cells on disk
  pc,            \* "idle", "adding", then "reading", "end" or "threw"
  blockOffset,   \* LogWriter._blockOffset
  left, begun,   \* addRecord: what is left of the record; hasFirstRecordCreated
  sizes,         \* history: the records added, the one under way included
  reopens,       \* history: number of writers made for the file after the first
  blockIndex, buf, position,  \* LogReader.iterator: block, buffer, place in it
  latestType, latestOpBuf,    \* type of the last fragment, fragments put together
  result         \* history: the records the reader has yielded

writer == <<blockOffset, left, begun, sizes, reopens>>
reader == <<blockIndex, buf, position, latestType, latestOpBuf, result>>
vars   == <<file, pc, blockOffset, left, begun, sizes, reopens, blockIndex, buf,
            position, latestType, latestOpBuf, result>>

-----------------------------------------------------------------------------
kZeroType   == 0
kFullType   == 1
kFirstType  == 2
kMiddleType == 3
kLastType   == 4
OtherType   == 5   \* any byte above kLastType

Zero       == <<"zero">>
Data(i, j) == <<"data", i, j>>
Header(type, length) ==
  [i \in 1..(kHeaderSize - 2) |-> <<"checksum">>] \o <<<<"length", length>>, <<"type", type>>>>

Record(i) == [j \in 1..sizes[i] |-> Data(i, j)]

(* What the reader may take a cell for.  The checksum is not verified and  *)
(* the bytes of a record are anything, so in the wrong place it may read   *)
(* any type and any length; those beyond a block end the block like it.    *)
AsType(cell) ==
  IF cell[1] = "type" THEN {cell[2]} ELSE IF cell = Zero THEN {kZeroType} ELSE 0..OtherType
AsLength(cell) ==
  IF cell[1] = "length" THEN {cell[2]} ELSE IF cell = Zero THEN {0} ELSE 0..(kBlockSize - kHeaderSize)

(* Mutant: the buffer comes with what was in memory.                       *)
UnclearedBuffer == [i \in 1..kBlockSize |-> Data(0, i)]

NewBuffer == [i \in 1..kBlockSize |-> Zero]

-----------------------------------------------------------------------------
Init ==
  /\ file = <<>> /\ pc = "idle"
  /\ blockOffset = 0 /\ left = 0 /\ begun = FALSE
  /\ sizes = <<>> /\ reopens = 0
  /\ blockIndex = -1 /\ buf = NewBuffer /\ position = 0
  /\ latestType = kZeroType /\ latestOpBuf = <<>> /\ result = <<>>

(* A caller has a record added.  Callers do not overlap: the writers' queue*)
(* and the chain of background work see to it.                             *)
AddRecord(size) ==
  /\ pc = "idle" /\ Len(sizes) < MaxRecords
  /\ reopens = 0 \/ Len(file) + kHeaderSize + size <= MaxMixed
  /\ pc' = "adding" /\ left' = size /\ begun' = FALSE /\ sizes' = Append(sizes, size)
  /\ UNCHANGED <<file, blockOffset, reopens, reader>>

(* Mutants: the header is forgotten, in the room for a fragment, in the    *)
(* place after it.                                                         *)
AvailableWithHeader(offset) == kBlockSize - offset
AfterDataOnly(offset, length) == offset + length

Available(offset) == kBlockSize - offset - kHeaderSize
After(offset, length) == offset + length + kHeaderSize

(* The loop of addRecord up to its next await of appendFile: a block with  *)
(* no room for a header is filled up, otherwise a fragment follows.        *)
NextAppend ==
  LET leftover == kBlockSize - blockOffset
      offset   == IF leftover < kHeaderSize THEN 0 ELSE blockOffset
      avail    == Available(offset)
      length   == IF left < avail THEN left ELSE avail
      type     == CASE ~begun /\ left = length -> kFullType
                    [] ~begun /\ left # length -> kFirstType
                    [] begun /\ left = length  -> kLastType
                    [] begun /\ left # length  -> kMiddleType
      done     == Last(sizes) - left
  IN IF leftover \in 1..(kHeaderSize - 1)
     THEN [cells |-> [i \in 1..leftover |-> Zero], offset |-> 0, length |-> 0, begun |-> begun]
     ELSE [cells  |-> Header(type, length) \o SubSeq(Record(Len(sizes)), done + 1, done + length),
           offset |-> After(offset, length), length |-> length, begun |-> TRUE]

(* The append has answered.                                                *)
EmitPhysicalRecord ==
  /\ pc = "adding"
  /\ file' = file \o NextAppend.cells
  /\ blockOffset' = NextAppend.offset
  /\ left' = left - NextAppend.length /\ begun' = NextAppend.begun
  /\ pc' = IF left' = 0 THEN "idle" ELSE "adding"
  /\ UNCHANGED <<sizes, reopens, reader>>

(* logAndApply closed the writer after the last edit and opens the file    *)
(* for appending: the new writer believes to be at the start of a block.   *)
NewWriter ==
  /\ pc = "idle" /\ file # <<>> /\ reopens < MaxReopens
  /\ blockOffset' = 0 /\ reopens' = reopens + 1
  /\ UNCHANGED <<file, pc, left, begun, sizes, reader>>

(* The file is closed, or the process dies and leaves a part of the last   *)
(* append.  Either way, somebody reads the file.                           *)
Close ==
  /\ pc = "idle"
  /\ pc' = "reading"
  /\ UNCHANGED <<file, writer, reader>>

Crash ==
  /\ pc = "adding"
  /\ \E n \in 0..(Len(NextAppend.cells) - 1) : file' = file \o SubSeq(NextAppend.cells, 1, n)
  /\ pc' = "reading"
  /\ UNCHANGED <<writer, reader>>

-----------------------------------------------------------------------------
(* Mutant: a header and one byte may be left over.                         *)
BlockDoneEarly == blockIndex = -1 \/ position >= kBlockSize - kHeaderSize - 1

(* iterator() asks for the next block when there is no room for a fragment *)
(* with data.                                                              *)
BlockDone == blockIndex = -1 \/ position >= kBlockSize - kHeaderSize

(* The answer of read() overwrites as much of the buffer as there is in    *)
(* the file.                                                               *)
ReadBlock ==
  /\ pc = "reading" /\ BlockDone
  /\ blockIndex' = blockIndex + 1
  /\ LET start == blockIndex' * kBlockSize
         end   == IF start + kBlockSize < Len(file) THEN start + kBlockSize ELSE Len(file)
         read  == SubSeq(file, start + 1, end)
     IN IF read = <<>>
        THEN pc' = "end" /\ UNCHANGED <<buf, position>>
        ELSE /\ buf' = read \o SubSeq(buf, Len(read) + 1, kBlockSize)
             /\ position' = 0
             /\ UNCHANGED pc
  /\ UNCHANGED <<file, writer, latestType, latestOpBuf, result>>

(* Mutant: a fragment without data is not passed by.                       *)
PassData(length) == position + length

Pass(length) == position + kHeaderSize + length

(* The fragment at the position: yielded, kept for the ones to follow, or  *)
(* skipped.  An assertion throws on two first or two last fragments in     *)
(* succession; zeros end the block.                                        *)
ReadPhysicalRecord ==
  /\ pc = "reading" /\ ~BlockDone
  /\ \E type   \in AsType(buf[position + kHeaderSize]),
        length \in AsLength(buf[position + kHeaderSize - 1]) :
       LET start == position + kHeaderSize
           data  == SubSeq(buf, start + 1,
                           IF start + length < kBlockSize THEN start + length ELSE kBlockSize)
       IN \/ /\ type \in {kFirstType, kLastType} /\ latestType = type
             /\ pc' = "threw"
             /\ UNCHANGED <<position, latestType, latestOpBuf, result>>
          \/ /\ type \notin {kFirstType, kLastType} \/ latestType # type
             /\ position' = IF type = kZeroType THEN kBlockSize ELSE Pass(length)
             /\ latestType' = type
             /\ latestOpBuf' = CASE type = kFirstType  -> data
                                 [] type = kMiddleType -> latestOpBuf \o data
                                 [] type = kLastType   -> <<>>
                                 [] OTHER              -> latestOpBuf
             /\ result' = CASE type = kFullType -> Append(result, data)
                            [] type = kLastType -> Append(result, latestOpBuf \o data)
                            [] OTHER            -> result
             /\ UNCHANGED pc
  /\ UNCHANGED <<file, writer, blockIndex, buf>>

Read == ReadBlock \/ ReadPhysicalRecord

Done == pc \in {"end", "threw"} /\ UNCHANGED vars

Next ==
  \/ \E size \in RecordSizes : AddRecord(size)
  \/ EmitPhysicalRecord
  \/ NewWriter
  \/ Close \/ Crash
  \/ ReadBlock \/ ReadPhysicalRecord
  \/ Done

Spec == Init /\ [][Next]_vars
FairSpec == Spec /\ WF_vars(Read)

-----------------------------------------------------------------------------
(* Types, and the place of the writer: never past the end of a block.      *)
TypeOK ==
  /\ pc \in {"idle", "adding", "reading", "end", "threw"}
  /\ blockOffset \in 0..kBlockSize
  /\ left \in Nat /\ begun \in BOOLEAN
  /\ sizes \in Seq(RecordSizes) /\ reopens \in 0..MaxReopens
  /\ blockIndex \in Int /\ position \in Nat
  /\ Len(buf) = kBlockSize
  /\ latestType \in 0..OtherType

(* The records whose addRecord has resolved.                               *)
Acknowledged ==
  [i \in 1..(IF left = 0 THEN Len(sizes) ELSE Len(sizes) - 1) |-> Record(i)]

(* The file has one writer, or has not grown beyond its first block: a     *)
(* writer made anew in the middle of a block cuts the records elsewhere    *)
(* than a reader expects.                                                  *)
OneWriter == reopens = 0 \/ Len(file) <= kBlockSize

(* The format, as the comments of LogFormat and LogWriter describe it: in  *)
(* each block fragments one after the other, at the end of a block a       *)
(* trailer too short for a header; the fragments of f from cell p on.      *)
Fragments(f) ==
  LET From[p \in 0..(Len(f) + kBlockSize)] ==
        LET room  == kBlockSize - (p % kBlockSize)
            start == p + kHeaderSize
        IN IF room < kHeaderSize THEN From[p + room]
           ELSE IF start > Len(f) \/ f[start][1] # "type" \/ f[start - 1][1] # "length" THEN <<>>
           ELSE LET end == start + f[start - 1][2]
                IN IF end > Len(f) \/ end > p + room THEN <<>>
                   ELSE <<[type |-> f[start][2], data |-> SubSeq(f, start + 1, end)]>> \o From[end]
  IN From[0]

StartsRecord(frags, i) == i = 1 \/ frags[i - 1].type \in {kFullType, kLastType}

Records(frags) ==
  LET Take(acc, frag) ==
        LET op == IF frag.type \in {kFullType, kFirstType} THEN frag.data ELSE acc.op \o frag.data
        IN [op |-> op, records |-> IF frag.type \in {kFullType, kLastType}
                                   THEN Append(acc.records, op) ELSE acc.records]
  IN FoldLeft(Take, [op |-> <<>>, records |-> <<>>], frags).records

(* Whatever the sizes of the records, and wherever a crash cuts the file:  *)
(* by the rules of the format it holds the acknowledged records, in order, *)
(* and no part of another is taken for one (LogWriter.addRecord, 61-106).  *)
FileDecodes ==
  OneWriter /\ blockIndex = -1 =>
    LET frags == Fragments(file)
    IN /\ Records(frags) = Acknowledged
       /\ \A i \in DOMAIN frags :
            frags[i].type \in {kFullType, kFirstType} <=> StartsRecord(frags, i)

(* A header without data fits at the end of a block, the writer puts the   *)
(* first fragment of a record there, and the reader skips it: if the       *)
(* record before it had a last fragment, two of them follow each other,    *)
(* and the assertion at line 64 of LogReader throws on a complete file.    *)
LastAfterLast ==
  LET frags == Fragments(file)
  IN \E i \in 1..(Len(frags) - 2) :
       /\ frags[i].type = kLastType /\ frags[i + 2].type = kLastType
       /\ frags[i + 1].type = kFirstType /\ frags[i + 1].data = <<>>

(* A reader that stops has yielded every acknowledged record before        *)
(* anything else, torn file or not; one that throws before has met         *)
(* LastAfterLast.  What it takes from the old contents of its buffer, past *)
(* the end of the file, comes after them (LogReader.iterator, 31-81).      *)
NothingMissing ==
  OneWriter /\ pc \in {"end", "threw"} =>
    \/ IsPrefix(Acknowledged, result)
    \/ pc = "threw" /\ LastAfterLast

(* While the file is within the first block the buffer holds zeros past    *)
(* its end: nothing is invented, except that a crash may leave a record    *)
(* that is yielded incomplete, because checksums are not compared.         *)
FirstBlockExact ==
  Len(file) <= kBlockSize /\ pc \in {"end", "threw"} =>
    /\ pc = "end"
    /\ \/ result = Acknowledged
       \/ /\ left > 0 /\ Front(result) = Acknowledged
          /\ Last(result) # Record(Len(sizes))

(* The reader comes to an end on every file, also where it takes data for  *)
(* headers.                                                                *)
ReaderEnds == pc = "reading" ~> pc \in {"end", "threw"}
=============================================================================
