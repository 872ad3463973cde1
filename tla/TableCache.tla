------------------------------- MODULE TableCache -------------------------------
(***************************************************************************)
(* The cache of open tables (SSTableCache.ts over LRUCache.ts and          *)
(* Yallist.ts) and the file handles it owns.  findTable may be under way   *)
(* for several readers at once: each opens the file and reads its index    *)
(* on its own, and the cache closes the handle that it drops, whoever      *)
(* still reads from it.                                                    *)
(***************************************************************************)
EXTENDS Naturals, Sequences, FiniteSets, FiniteSetsExt, SequencesExt

CONSTANTS
  Reader,      \* the calls that may be under way at once
  Entries      \* the capacity of the cache, from maxOpenFiles

ASSUME TableCacheAssumption == IsFiniteSet(Reader) /\ Entries \in Nat \ {0}

VARIABLES
  cache,       \* the list, youngest first, of [table, handle]
  opened,      \* the handles that are open
  look,        \* the findTable call of each reader
  leaked       \* handles that findTable dropped without closing them

cacheVars == <<cache, opened, look, leaked>>

NoLook == [at |-> "none", table |-> 0, handle |-> 0]

InitCache ==
  /\ cache = <<>>
  /\ opened = {}
  /\ look = [r \in Reader |-> NoLook]
  /\ leaked = {}

Cached(t) == {i \in 1..Len(cache) : cache[i].table = t}

(* LRUCache.get without doUse: nothing moves.  A miss submits the open.    *)
FindTable(r, t) ==
  /\ look[r] = NoLook
  /\ look' = [look EXCEPT ![r] =
       IF Cached(t) # {}
       THEN [at |-> "found", table |-> t, handle |-> cache[Max(Cached(t))].handle]
       ELSE [at |-> "opening", table |-> t, handle |-> 0]]
  /\ UNCHANGED <<cache, opened, leaked>>

(* The file is open, under a handle that nobody uses; its footer and its   *)
(* index are being read.                                                   *)
OpenFile(r, used) ==
  /\ look[r].at = "opening"
  /\ LET h == Min((1..(Cardinality(opened \cup used) + 1)) \ (opened \cup used))
     IN /\ opened' = opened \cup {h}
        /\ look' = [look EXCEPT ![r].at = "reading", ![r].handle = h]
  /\ UNCHANGED <<cache, leaked>>

OpenFails(r) ==
  /\ look[r].at = "opening"
  /\ look' = [look EXCEPT ![r].at = "error"]
  /\ UNCHANGED <<cache, opened, leaked>>

(* Table.open rejects: nobody closes the file.                             *)
OpenTableFails(r) ==
  /\ look[r].at = "reading"
  /\ look' = [look EXCEPT ![r].at = "error"]
  /\ leaked' = leaked \cup {look[r].handle}
  /\ UNCHANGED <<cache, opened>>

(* LRUCache.set: a table that another call has put there meanwhile keeps   *)
(* its place, with the new handle; otherwise the table goes to the front,  *)
(* and trim drops from the tail.                                           *)
CacheWith(t, h) ==
  IF Cached(t) # {}
  THEN [i \in 1..Len(cache) |->
          IF cache[i].table = t THEN [table |-> t, handle |-> h] ELSE cache[i]]
  ELSE SubSeq(<<[table |-> t, handle |-> h]>> \o cache, 1, Min({Entries, Len(cache) + 1}))

(* Mutant: the option noDisposeOnSet is on.                                *)
DisposedByTrimOnly(t) ==
  IF Cached(t) # {} THEN {} ELSE {cache[i].handle : i \in Entries..Len(cache)}

(* What set disposes of.                                                   *)
Disposed(t) ==
  IF Cached(t) # {}
  THEN {cache[i].handle : i \in Cached(t)}
  ELSE {cache[i].handle : i \in Entries..Len(cache)}

OpenTable(r) ==
  /\ look[r].at = "reading"
  /\ cache' = CacheWith(look[r].table, look[r].handle)
  /\ opened' = opened \ Disposed(look[r].table)
  /\ look' = [look EXCEPT ![r].at = "found"]
  /\ UNCHANGED leaked

(* destroy(): the tables in the cache are closed, and the cache is empty;  *)
(* nothing stops a findTable that is under way.                            *)
Reset ==
  /\ cache' = <<>>
  /\ opened' = opened \ {cache[i].handle : i \in 1..Len(cache)}
  /\ UNCHANGED <<look, leaked>>
-----------------------------------------------------------------------------
(* The handles of the files that findTable has opened and not cached yet.  *)
InFlight == {look[r].handle : r \in {q \in Reader : look[q].at = "reading"}}

(* A table in the cache can be read: its handle is open, and no other call *)
(* will close it but by dropping it from the cache; the cache holds a      *)
(* table once, and no more of them than it may.  And no handle is lost:    *)
(* one that is open is in the cache, or about to get there, or was left    *)
(* behind by a table that could not be read.                               *)
HandlesOwned ==
  LET cached == {cache[i].handle : i \in 1..Len(cache)} IN
  /\ Len(cache) <= Entries
  /\ \A i, j \in 1..Len(cache) : i # j =>
       /\ cache[i].table # cache[j].table
       /\ cache[i].handle # cache[j].handle
  /\ cached \subseteq opened
  /\ opened \subseteq cached \cup InFlight \cup leaked
=============================================================================
