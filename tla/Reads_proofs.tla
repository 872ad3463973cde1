------------------------------ MODULE Reads_proofs ------------------------------
(***************************************************************************)
(* Proofs about the reads and the table cache under them, for any number   *)
(* of calls, keys and tables and any capacity of the cache: who owns an    *)
(* open file handle, that get answers what was stored when it was called,  *)
(* and what an iterator yields.                                            *)
(***************************************************************************)
EXTENDS Reads, FiniteNumbers, SequenceTheorems

(* Lists of whatever they hold.                                            *)
IsList(s) == s \in Seq(Range(s))

(* What a list is: its length is a number, its domain the positions.       *)
LEMMA ListBasics ==
  ASSUME NEW s, IsList(s)
  PROVE  /\ Len(s) \in Nat /\ DOMAIN s = 1..Len(s)
         /\ s = [i \in 1..Len(s) |-> s[i]]
         /\ IsFiniteSet(1..Len(s))
<1>1. Len(s) \in Nat /\ DOMAIN s = 1..Len(s) /\ s = [i \in 1..Len(s) |-> s[i]]
  BY LenProperties DEF IsList
<1>2. IsFiniteSet(1..Len(s))
  BY <1>1, FS_Interval
<1>. QED
  BY <1>1, <1>2

(* What is defined at 1, ..., n is a list of length n.                     *)
LEMMA ListMade ==
  ASSUME NEW n \in Nat, NEW s, s = [i \in 1..n |-> s[i]]
  PROVE  IsList(s) /\ Len(s) = n
<1>1. \A i \in 1..n : s[i] \in Range(s)
  BY DEF Range
<1>. DEFINE S == Range(s)
<1>2. [i \in 1..n |-> s[i]] \in Seq(S)
  <2>. HIDE DEF S
  <2>. QED
    BY <1>1, IsASeq DEF S
<1>3. s \in Seq(S)
  BY <1>2
<1>4. DOMAIN s = 1..n
  OBVIOUS
<1>5. Len(s) = n
  <2>. HIDE DEF S
  <2>. QED
    BY <1>3, <1>4, LenProperties
<1>. QED
  BY <1>3, <1>5 DEF IsList

(* LRUCache.set with a new entry: it comes first, and the last ones may    *)
(* have to go.                                                             *)
Trim(x, s, n) == SubSeq(<<x>> \o s, 1, Min({n, Len(s) + 1}))

(* The new element comes first, then what there is room for, in order.     *)
LEMMA TrimmedList ==
  ASSUME NEW s, IsList(s), NEW x, NEW n \in Nat \ {0}
  PROVE  LET t == Trim(x, s, n) IN
         /\ IsList(t) /\ Len(t) <= n /\ Len(t) <= Len(s) + 1
         /\ Len(t) = n \/ Len(t) = Len(s) + 1
         /\ 1 \in 1..Len(t) /\ t[1] = x
         /\ \A i \in 1..Len(t) : i # 1 => i - 1 \in 1..Len(s) /\ t[i] = s[i - 1]
<1>. DEFINE S == Range(s) \cup {x}
            m == Min({n, Len(s) + 1})
            u == <<x>> \o s
            t == Trim(x, s, n)
<1>1. Len(s) \in Nat
  BY ListBasics
<1>2. m \in {n, Len(s) + 1} /\ m <= n /\ m <= Len(s) + 1
  <2>. DEFINE two == {n, Len(s) + 1}
  <2>1. two \subseteq Nat /\ two # {}
    BY <1>1
  <2>2. Min(two) \in two /\ \A y \in two : Min(two) <= y
    <3>. HIDE DEF two
    <3>. QED
      BY <2>1, MinOfSome
  <2>. QED
    BY <2>2
<1>3. m \in Nat /\ m # 0
  BY <1>1, <1>2
<1>4. /\ u \in Seq(S) /\ Len(u) = Len(s) + 1
      /\ u[1] = x /\ \A i \in 2..Len(u) : u[i] = s[i - 1]
  <2>1. <<x>> \in Seq(S) /\ s \in Seq(S) /\ Len(<<x>>) = 1 /\ <<x>>[1] = x
    <3>1. s = [i \in 1..Len(s) |-> s[i]] /\ \A i \in 1..Len(s) : s[i] \in S
      BY ListBasics DEF Range
    <3>. HIDE DEF S
    <3>2. s \in Seq(S)
      BY <1>1, <3>1, IsASeq
    <3>. QED
      BY <3>2 DEF S
  <2>. HIDE DEF S
  <2>2. PICK v : v = <<x>>
    OBVIOUS
  <2>3. /\ v \o s \in Seq(S) /\ Len(v \o s) = Len(v) + Len(s)
        /\ \A i \in 1..(Len(v) + Len(s)) :
             (v \o s)[i] = IF i <= Len(v) THEN v[i] ELSE s[i - Len(v)]
    BY <2>1, <2>2, ConcatProperties
  <2>4. Len(v) = 1 /\ v[1] = x
    BY <2>1, <2>2
  <2>5. /\ u \in Seq(S) /\ Len(u) = 1 + Len(s)
        /\ \A i \in 1..(1 + Len(s)) : u[i] = IF i <= 1 THEN v[i] ELSE s[i - 1]
    BY <2>2, <2>3, <2>4
  <2>. HIDE DEF u
  <2>. QED
    BY <1>1, <2>4, <2>5
<1>. HIDE DEF S, u, m, t
<1>5. t = SubSeq(u, 1, m)
  BY DEF u, m, t, Trim
<1>6. t \in Seq(S) /\ Len(t) = m /\ \A i \in 1..m : t[i] = u[i]
  <2>1. 1 \in Int /\ m \in Int /\ 1 <= m /\ m - 1 + 1 = m
    BY <1>3
  <2>2. \A i \in 1..m : u[i] \in S
    BY <1>1, <1>2, <1>3, <1>4, ElementOfSeq
  <2>3. /\ t \in Seq(S) /\ Len(t) = m - 1 + 1
        /\ \A i \in 1..(m - 1 + 1) : t[i] = u[1 + i - 1]
    <3>1. PICK a : a = 1
      OBVIOUS
    <3>2. /\ SubSeq(u, a, m) \in Seq(S)
          /\ Len(SubSeq(u, a, m)) = IF a <= m THEN m - a + 1 ELSE 0
          /\ \A i \in 1..(m - a + 1) : SubSeq(u, a, m)[i] = u[a + i - 1]
      BY <2>1, <2>2, <3>1, SubSeqProperties
    <3>. QED
      BY <1>5, <2>1, <3>1, <3>2
  <2>4. \A i \in 1..m : 1 + i - 1 = i
    OBVIOUS
  <2>. QED
    BY <2>1, <2>3, <2>4
<1>7. IsList(t)
  <2>1. t = [i \in 1..m |-> t[i]]
    BY <1>6, LenProperties
  <2>. QED
    BY <1>3, <2>1, ListMade
<1>8. 1 \in 1..Len(t) /\ t[1] = x
  BY <1>3, <1>4, <1>6
<1>9. ASSUME NEW i \in 1..Len(t), i # 1
      PROVE  i - 1 \in 1..Len(s) /\ t[i] = s[i - 1]
  BY <1>1, <1>2, <1>3, <1>4, <1>6, <1>9
<1>. QED
  BY <1>1, <1>2, <1>6, <1>7, <1>8, <1>9 DEF t

-----------------------------------------------------------------------------
(* The table cache.                                                        *)

CacheTyped ==
  /\ IsList(cache) /\ IsFiniteSet(opened)
  /\ DOMAIN look = Reader
  /\ \A r \in Reader : {"at", "table", "handle"} \subseteq DOMAIN look[r]

(* The handle of a file that is being read for the first time is open and  *)
(* nobody else's: the cache, which closes what it drops, does not have it. *)
FlightsOwned ==
  /\ \A r \in Reader : look[r].at = "reading" =>
       /\ look[r].handle \in opened
       /\ \A i \in 1..Len(cache) : cache[i].handle # look[r].handle
  /\ \A r, q \in Reader :
       look[r].at = "reading" /\ look[q].at = "reading"
         /\ look[r].handle = look[q].handle => r = q

CacheInv == CacheTyped /\ FlightsOwned /\ HandlesOwned

(* The steps of the table cache, one lemma each.                           *)
LEMMA InitCacheEstablishes == InitCache => CacheInv
<1>. SUFFICES ASSUME InitCache PROVE CacheInv
  OBVIOUS
<1>1. IsList(cache) /\ Len(cache) = 0
  BY DEF InitCache, IsList
<1>2. \A r \in Reader : look[r] = NoLook
  BY DEF InitCache
<1>3. \A r \in Reader : look[r].at = "none" /\ {"at", "table", "handle"} \subseteq DOMAIN look[r]
  BY <1>2 DEF NoLook
<1>4. IsFiniteSet(opened) /\ opened = {}
  BY FS_EmptySet DEF InitCache
<1>5. DOMAIN look = Reader
  BY DEF InitCache
<1>6. CacheTyped
  BY <1>1, <1>3, <1>4, <1>5 DEF CacheTyped
<1>7. FlightsOwned
  BY <1>3 DEF FlightsOwned
<1>8. HandlesOwned
  BY <1>1, <1>4, TableCacheAssumption DEF HandlesOwned
<1>. QED
  BY <1>6, <1>7, <1>8 DEF CacheInv

(* A step of a call that neither opens a file nor ends the reading of one. *)
LEMMA LookPreserves ==
  ASSUME CacheInv, NEW r \in Reader, NEW x, look' = [look EXCEPT ![r] = x],
         {"at", "table", "handle"} \subseteq DOMAIN x, x.at # "reading",
         look[r].at # "reading", UNCHANGED <<cache, opened, leaked>>
  PROVE  CacheInv'
<1>. USE DEF CacheInv
<1>1. /\ DOMAIN look' = Reader /\ look'[r] = x
      /\ \A q \in Reader : q # r => look'[q] = look[q]
  BY DEF CacheTyped
<1>2. CacheTyped'
  BY <1>1 DEF CacheTyped
<1>3. \A q \in Reader : look'[q].at = "reading" <=> look[q].at = "reading"
  BY <1>1
<1>4. \A q \in Reader : look'[q].at = "reading" => look'[q] = look[q]
  BY <1>1
<1>5. FlightsOwned'
  BY <1>3, <1>4 DEF FlightsOwned
<1>6. InFlight' = InFlight
  BY <1>3, <1>4 DEF InFlight
<1>7. HandlesOwned'
  BY <1>6 DEF HandlesOwned
<1>. QED
  BY <1>2, <1>5, <1>7

LEMMA FindTablePreserves ==
  ASSUME CacheInv, NEW r \in Reader, NEW t, FindTable(r, t)
  PROVE  CacheInv'
<1>1. PICK x : /\ look' = [look EXCEPT ![r] = x]
               /\ DOMAIN x = {"at", "table", "handle"} /\ x.at \in {"found", "opening"}
  <2>. DEFINE hit == [at |-> "found", table |-> t, handle |-> cache[Max(Cached(t))].handle]
              miss == [at |-> "opening", table |-> t, handle |-> 0]
  <2>1. look' = [look EXCEPT ![r] = IF Cached(t) # {} THEN hit ELSE miss]
    BY DEF FindTable
  <2>2. /\ DOMAIN hit = {"at", "table", "handle"} /\ hit.at = "found"
        /\ DOMAIN miss = {"at", "table", "handle"} /\ miss.at = "opening"
    OBVIOUS
  <2>. HIDE DEF hit, miss
  <2>. QED
    BY <2>1, <2>2
<1>2. look[r].at # "reading"
  BY DEF FindTable, NoLook
<1>. QED
  BY <1>1, <1>2, LookPreserves DEF FindTable

LEMMA OpenFilePreserves ==
  ASSUME CacheInv, NEW r \in Reader, NEW used, IsFiniteSet(used), OpenFile(r, used)
  PROVE  CacheInv'
<1>. USE DEF CacheInv
<1>1. PICK h : /\ h = Min((1..(Cardinality(opened \cup used) + 1)) \ (opened \cup used))
               /\ opened' = opened \cup {h}
               /\ look' = [look EXCEPT ![r].at = "reading", ![r].handle = h]
               /\ look[r].at = "opening"
               /\ UNCHANGED <<cache, leaked>>
  BY DEF OpenFile
<1>2. h \notin opened
  <2>. DEFINE taken == opened \cup used
  <2>1. IsFiniteSet(taken)
    BY FS_Union DEF CacheTyped
  <2>. HIDE DEF taken
  <2>2. (1..(Cardinality(taken) + 1)) \ taken # {}
    BY <2>1, FreeNumber
  <2>3. h \notin taken
    <3>1. h = Min((1..(Cardinality(taken) + 1)) \ taken)
      BY <1>1 DEF taken
    <3>. QED
      BY <2>2, <3>1, MinOfSome
  <2>. QED
    BY <2>3 DEF taken
<1>3. /\ DOMAIN look' = Reader
      /\ look'[r].at = "reading" /\ look'[r].handle = h
      /\ {"at", "table", "handle"} \subseteq DOMAIN look'[r]
      /\ \A q \in Reader : q # r => look'[q] = look[q]
  <2>1. {"at", "table", "handle"} \subseteq DOMAIN look[r] /\ DOMAIN look = Reader
    BY DEF CacheTyped
  <2>. QED
    BY <1>1, <2>1
<1>4. IsFiniteSet(opened')
  BY <1>1, FS_AddElement DEF CacheTyped
<1>5. CacheTyped'
  BY <1>1, <1>3, <1>4 DEF CacheTyped
<1>6. \A i \in 1..Len(cache) : cache[i].handle # h
  BY <1>2 DEF HandlesOwned
<1>7. FlightsOwned'
  <2>1. \A q \in Reader : q # r /\ look'[q].at = "reading" =>
          look'[q].handle \in opened /\ look'[q].handle # h
    BY <1>2, <1>3 DEF FlightsOwned
  <2>2. ASSUME NEW q \in Reader, look'[q].at = "reading"
        PROVE  /\ look'[q].handle \in opened'
               /\ \A i \in 1..Len(cache') : cache'[i].handle # look'[q].handle
    <3>1. CASE q = r
      BY <1>1, <1>3, <1>6, <3>1
    <3>2. CASE q # r
      BY <1>1, <1>3, <2>2, <3>2 DEF FlightsOwned
    <3>. QED
      BY <3>1, <3>2
  <2>3. ASSUME NEW p \in Reader, NEW q \in Reader,
               look'[p].at = "reading", look'[q].at = "reading",
               look'[p].handle = look'[q].handle
        PROVE  p = q
    <3>1. CASE p = r \/ q = r
      BY <1>3, <2>1, <2>3, <3>1
    <3>2. CASE p # r /\ q # r
      BY <1>3, <2>3, <3>2 DEF FlightsOwned
    <3>. QED
      BY <3>1, <3>2
  <2>. QED
    BY <2>2, <2>3 DEF FlightsOwned
<1>8. InFlight' = InFlight \cup {h}
  BY <1>1, <1>3 DEF InFlight
<1>9. HandlesOwned'
  BY <1>1, <1>8 DEF HandlesOwned
<1>. QED
  BY <1>5, <1>7, <1>9

LEMMA OpenFailsPreserves ==
  ASSUME CacheInv, NEW r \in Reader, OpenFails(r)
  PROVE  CacheInv'
<1>1. look' = [look EXCEPT ![r] = [look[r] EXCEPT !.at = "error"]]
  BY DEF OpenFails
<1>2. {"at", "table", "handle"} \subseteq DOMAIN look[r]
  BY DEF CacheInv, CacheTyped
<1>. DEFINE x == [look[r] EXCEPT !.at = "error"]
<1>3. {"at", "table", "handle"} \subseteq DOMAIN x /\ x.at = "error"
  BY <1>2
<1>. HIDE DEF x
<1>. QED
  BY <1>1, <1>3, LookPreserves DEF OpenFails, x

LEMMA OpenTableFailsPreserves ==
  ASSUME CacheInv, NEW r \in Reader, OpenTableFails(r)
  PROVE  CacheInv'
<1>. USE DEF CacheInv
<1>1. /\ look[r].at = "reading" /\ leaked' = leaked \cup {look[r].handle}
      /\ look' = [look EXCEPT ![r].at = "error"] /\ UNCHANGED <<cache, opened>>
  BY DEF OpenTableFails
<1>2. {"at", "table", "handle"} \subseteq DOMAIN look[r] /\ DOMAIN look = Reader
  BY DEF CacheTyped
<1>3. /\ DOMAIN look' = Reader /\ look'[r].at = "error"
      /\ {"at", "table", "handle"} \subseteq DOMAIN look'[r]
      /\ \A q \in Reader : q # r => look'[q] = look[q]
  BY <1>1, <1>2
<1>4. CacheTyped'
  BY <1>1, <1>3 DEF CacheTyped
<1>5. FlightsOwned'
  BY <1>1, <1>3 DEF FlightsOwned
<1>6. InFlight \subseteq InFlight' \cup {look[r].handle}
  BY <1>3 DEF InFlight
<1>7. HandlesOwned'
  BY <1>1, <1>6 DEF HandlesOwned
<1>. QED
  BY <1>4, <1>5, <1>7

(* LRUCache.set: the handle that was read comes into the cache, and what   *)
(* falls out of it is closed.                                              *)
LEMMA OpenTablePreserves ==
  ASSUME CacheInv, NEW r \in Reader, OpenTable(r)
  PROVE  CacheInv'
<1>. USE DEF CacheInv
<1>. DEFINE t == look[r].table
            h == look[r].handle
<1>1. /\ look[r].at = "reading" /\ cache' = CacheWith(t, h)
      /\ opened' = opened \ Disposed(t)
      /\ look' = [look EXCEPT ![r].at = "found"] /\ leaked' = leaked
  BY DEF OpenTable
<1>2. /\ IsList(cache) /\ Len(cache) \in Nat
      /\ DOMAIN look = Reader /\ {"at", "table", "handle"} \subseteq DOMAIN look[r]
  BY ListBasics DEF CacheTyped
<1>3. /\ DOMAIN look' = Reader /\ look'[r].at = "found"
      /\ {"at", "table", "handle"} \subseteq DOMAIN look'[r]
      /\ \A q \in Reader : q # r => look'[q] = look[q]
  BY <1>1, <1>2
<1>4. IsFiniteSet(opened')
  BY <1>1, FS_Subset DEF CacheTyped
<1>5. /\ h \in opened
      /\ \A i \in 1..Len(cache) : cache[i].handle # h
      /\ \A i \in 1..Len(cache) : cache[i].handle \in opened
  BY <1>1 DEF FlightsOwned, HandlesOwned
<1>. HIDE DEF t, h
<1>6. InFlight \subseteq InFlight' \cup {h}
  BY <1>3 DEF InFlight, h
(* What the cache is afterwards: the new handle is in it, every other one  *)
(* of its handles was there before at the same table, and has not been     *)
(* disposed of; what it had is still there or has been disposed of.        *)
<1>7. /\ IsList(cache') /\ Len(cache') <= Entries
      /\ \E i \in 1..Len(cache') : cache'[i].handle = h
      /\ \A i, j \in 1..Len(cache') : i # j =>
           /\ cache'[i].table # cache'[j].table
           /\ cache'[i].handle # cache'[j].handle
      /\ \A i \in 1..Len(cache') :
           \/ cache'[i].handle = h
           \/ \E j \in 1..Len(cache) : /\ cache'[i] = cache[j]
                                       /\ cache[j].handle \notin Disposed(t)
      /\ \A j \in 1..Len(cache) :
           \/ cache[j].handle \in Disposed(t)
           \/ \E i \in 1..Len(cache') : cache'[i] = cache[j]
      /\ \A g \in Disposed(t) : \E j \in 1..Len(cache) : g = cache[j].handle
  <2>1. CASE Cached(t) # {}
    <3>1. PICK k \in 1..Len(cache) : cache[k].table = t
      BY <2>1 DEF Cached
    <3>2. \A i \in 1..Len(cache) : cache[i].table = t <=> i = k
      BY <3>1 DEF HandlesOwned
    <3>3. Disposed(t) = {cache[k].handle}
      BY <2>1, <3>1, <3>2 DEF Disposed, Cached
    <3>. DEFINE e == [table |-> t, handle |-> h]
    <3>4. e.table = t /\ e.handle = h
      OBVIOUS
    <3>5. cache' = [i \in 1..Len(cache) |-> IF cache[i].table = t THEN e ELSE cache[i]]
      BY <1>1, <2>1 DEF CacheWith
    <3>. HIDE DEF e
    <3>6. cache' = [i \in 1..Len(cache) |-> cache'[i]]
      BY <3>5
    <3>7. IsList(cache') /\ Len(cache') = Len(cache)
      BY <1>2, <3>6, ListMade
    <3>8. \A i \in 1..Len(cache) : cache'[i] = IF i = k THEN e ELSE cache[i]
      BY <3>2, <3>5
    <3>9. Len(cache) <= Entries
      BY DEF HandlesOwned
    <3>10. \A i, j \in 1..Len(cache) : i # j =>
             /\ cache'[i].table # cache'[j].table
             /\ cache'[i].handle # cache'[j].handle
      BY <1>5, <3>2, <3>4, <3>8 DEF HandlesOwned
    <3>11. \A j \in 1..Len(cache) : j # k => cache[j].handle # cache[k].handle
      BY DEF HandlesOwned
    <3>. QED
      BY <3>3, <3>4, <3>7, <3>8, <3>9, <3>10, <3>11
  <2>2. CASE Cached(t) = {}
    <3>1. \A i \in 1..Len(cache) : cache[i].table # t
      BY <2>2 DEF Cached
    <3>. DEFINE e == [table |-> t, handle |-> h]
    <3>2. e.table = t /\ e.handle = h
      OBVIOUS
    <3>3. /\ cache' = Trim(e, cache, Entries)
          /\ Disposed(t) = {cache[i].handle : i \in Entries..Len(cache)}
      BY <1>1, <2>2 DEF CacheWith, Disposed, Trim
    <3>. HIDE DEF e
    <3>4. Entries \in Nat \ {0}
      BY TableCacheAssumption
    <3>5. /\ IsList(cache') /\ Len(cache') <= Entries /\ Len(cache') <= Len(cache) + 1
          /\ Len(cache') = Entries \/ Len(cache') = Len(cache) + 1
          /\ 1 \in 1..Len(cache') /\ cache'[1] = e
          /\ \A i \in 1..Len(cache') : i # 1 =>
               i - 1 \in 1..Len(cache) /\ cache'[i] = cache[i - 1]
      BY <1>2, <3>3, <3>4, TrimmedList
    <3>6. \A i, j \in 1..Len(cache) : cache[i].handle = cache[j].handle => i = j
      BY DEF HandlesOwned
    <3>7. \A i \in Entries..Len(cache) : i \in 1..Len(cache)
      BY <1>2, <3>4
    <3>8. Len(cache') \in Nat
      BY <3>5, ListBasics
    <3>9. ASSUME NEW j \in 1..Len(cache)
          PROVE  \/ cache[j].handle \in Disposed(t)
                 \/ \E i \in 1..Len(cache') : cache'[i] = cache[j]
      <4>1. CASE j + 1 \in 1..Len(cache')
        <5>1. j + 1 # 1 /\ j + 1 - 1 = j
          OBVIOUS
        <5>. QED
          BY <3>5, <4>1, <5>1
      <4>2. CASE j + 1 \notin 1..Len(cache')
        <5>1. j \in Entries..Len(cache)
          BY <1>2, <3>4, <3>5, <3>8, <4>2
        <5>. QED
          BY <3>3, <5>1
      <4>. QED
        BY <4>1, <4>2
    <3>10. ASSUME NEW i \in 1..Len(cache'), i # 1
           PROVE  /\ i - 1 \in 1..Len(cache) /\ cache'[i] = cache[i - 1]
                  /\ cache[i - 1].handle \notin Disposed(t)
      <4>1. i - 1 \in 1..Len(cache) /\ cache'[i] = cache[i - 1]
        BY <3>5, <3>10
      <4>2. i - 1 \notin Entries..Len(cache)
        BY <3>4, <3>5, <3>8
      <4>. QED
        BY <3>3, <3>6, <3>7, <4>1, <4>2
    <3>11. ASSUME NEW i \in 1..Len(cache'), NEW j \in 1..Len(cache'), i # j
           PROVE  /\ cache'[i].table # cache'[j].table
                  /\ cache'[i].handle # cache'[j].handle
      <4>1. CASE i # 1 /\ j # 1
        <5>1. i - 1 # j - 1
          BY <3>11
        <5>. QED
          BY <3>10, <4>1, <5>1 DEF HandlesOwned
      <4>2. CASE i = 1 /\ j # 1
        BY <1>5, <3>1, <3>2, <3>5, <4>2
      <4>3. CASE i # 1 /\ j = 1
        BY <1>5, <3>1, <3>2, <3>5, <4>3
      <4>. QED
        BY <3>11, <4>1, <4>2, <4>3
    <3>12. \E i \in 1..Len(cache') : cache'[i].handle = h
      BY <3>2, <3>5
    <3>13. \A i \in 1..Len(cache') :
             \/ cache'[i].handle = h
             \/ \E j \in 1..Len(cache) : /\ cache'[i] = cache[j]
                                         /\ cache[j].handle \notin Disposed(t)
      BY <3>2, <3>5, <3>10
    <3>14. \A g \in Disposed(t) : \E j \in 1..Len(cache) : g = cache[j].handle
      BY <3>3, <3>7
    <3>. QED
      BY <3>5, <3>9, <3>11, <3>12, <3>13, <3>14
  <2>. QED
    BY <2>1, <2>2
<1>8. CacheTyped'
  BY <1>3, <1>4, <1>7 DEF CacheTyped
<1>9. h \notin Disposed(t)
  BY <1>5, <1>7
<1>10. FlightsOwned'
  <2>1. ASSUME NEW q \in Reader, look'[q].at = "reading"
        PROVE  /\ look'[q].handle \in opened'
               /\ \A i \in 1..Len(cache') : cache'[i].handle # look'[q].handle
    <3>1. q # r /\ look'[q] = look[q]
      BY <1>3, <2>1
    <3>2. /\ look[q].handle \in opened /\ look[q].handle # h
          /\ \A i \in 1..Len(cache) : cache[i].handle # look[q].handle
      BY <1>1, <2>1, <3>1 DEF FlightsOwned, h
    <3>. QED
      BY <1>1, <1>7, <3>1, <3>2
  <2>2. \A p, q \in Reader : look'[p].at = "reading" /\ look'[q].at = "reading" =>
          look'[p] = look[p] /\ look'[q] = look[q]
    BY <1>3
  <2>. QED
    BY <2>1, <2>2 DEF FlightsOwned
<1>11. HandlesOwned'
  <2>1. \A i \in 1..Len(cache') : cache'[i].handle \in opened'
    BY <1>1, <1>5, <1>7, <1>9
  <2>2. ASSUME NEW g \in opened'
        PROVE  g \in {cache'[i].handle : i \in 1..Len(cache')} \cup InFlight' \cup leaked'
    <3>1. g \in opened /\ g \notin Disposed(t)
      BY <1>1
    <3>2. CASE \E j \in 1..Len(cache) : g = cache[j].handle
      BY <1>7, <3>1, <3>2
    <3>3. CASE g \in InFlight
      BY <1>6, <1>7, <3>3
    <3>4. CASE g \in leaked
      BY <1>1, <3>4
    <3>. QED
      BY <3>1, <3>2, <3>3, <3>4 DEF HandlesOwned
  <2>. QED
    BY <1>7, <2>1, <2>2 DEF HandlesOwned
<1>. QED
  BY <1>8, <1>10, <1>11

LEMMA ResetPreserves ==
  ASSUME CacheInv, Reset
  PROVE  CacheInv'
<1>. USE DEF CacheInv
<1>1. /\ cache' = <<>> /\ opened' = opened \ {cache[i].handle : i \in 1..Len(cache)}
      /\ UNCHANGED <<look, leaked>>
  BY DEF Reset
<1>2. IsList(cache') /\ Len(cache') = 0
  BY <1>1 DEF IsList
<1>3. CacheTyped'
  BY <1>1, <1>2, FS_Subset DEF CacheTyped
<1>4. FlightsOwned'
  BY <1>1, <1>2 DEF FlightsOwned
<1>5. InFlight' = InFlight
  BY <1>1 DEF InFlight
<1>6. HandlesOwned'
  BY <1>1, <1>2, <1>5, TableCacheAssumption DEF HandlesOwned
<1>. QED
  BY <1>3, <1>4, <1>6

-----------------------------------------------------------------------------
(* The newest entry of a key.                                              *)

(* A set of entries in which no two of a key have the same number.         *)
Coherent(s) ==
  /\ s \subseteq Entry
  /\ \A e, f \in s : e.key = f.key /\ e.seq = f.seq => e = f

(* Of every key, what s holds is newer than what t holds.                  *)
Newer(s, t) == \A e \in s, f \in t : e.key = f.key => e.seq > f.seq

(* Search in a set of entries: newest by key.                              *)
LEMMA EntryFields ==
  ASSUME NEW e \in Entry
  PROVE  e.key \in Key /\ e.key \in Nat /\ e.seq \in Nat /\ e.seq # 0 /\ e.del \in BOOLEAN
BY DEF Entry, Key

(* The newest entry of a key is the one with the largest sequence number.  *)
LEMMA NewestIs ==
  ASSUME NEW s, Coherent(s), NEW k, NEW e
  PROVE  e \in Newest(s, k) <=>
           e \in s /\ e.key = k /\ \A f \in s : f.key = k => f.seq <= e.seq
<1>. DEFINE of == {f \in s : f.key = k}
<1>1. \A f \in s : f.key \in Nat /\ f.seq \in Nat
  BY EntryFields DEF Coherent
<1>2. e \in Newest(s, k) <=> e \in of /\ \A f \in of \ {e} : Precedes(e, f)
  BY DEF Newest, First, Ahead
<1>3. ASSUME e \in of, NEW f \in of
      PROVE  (f # e => Precedes(e, f)) <=> f.seq <= e.seq
  BY <1>1, <1>3 DEF Precedes, Coherent
<1>. QED
  BY <1>2, <1>3

(* A finite, coherent set that has the key has its newest entry.           *)
LEMMA NewestExists ==
  ASSUME NEW s, Coherent(s), NEW b \in Nat, \A e \in s : e.seq <= b,
         NEW x \in s
  PROVE  \E e \in s : e.key = x.key /\ Newest(s, x.key) = {e}
<1>. DEFINE k == x.key
            S == {e.seq : e \in {f \in s : f.key = k}}
<1>1. \A f \in s : f.seq \in Nat
  BY EntryFields DEF Coherent
<1>2. S \subseteq 0..b /\ S \subseteq Nat /\ x.seq \in S
  BY <1>1
<1>3. IsFiniteSet(S)
  <2>1. IsFiniteSet(0..b)
    BY FS_Interval
  <2>. HIDE DEF S
  <2>. QED
    BY <1>2, <2>1, FS_Subset
<1>4. Max(S) \in S /\ \A y \in S : y <= Max(S)
  <2>. HIDE DEF S
  <2>. QED
    BY <1>2, <1>3, MaxOfFinite
<1>5. PICK e \in s : e.key = k /\ e.seq = Max(S)
  BY <1>4
<1>6. e \in Newest(s, k)
  BY <1>4, <1>5, NewestIs
<1>7. ASSUME NEW f \in Newest(s, k) PROVE f = e
  <2>1. f \in s /\ f.key = k /\ f.seq <= e.seq /\ e.seq <= f.seq
    BY <1>5, <1>6, <1>7, NewestIs
  <2>. QED
    BY <1>1, <1>5, <2>1 DEF Coherent
<1>. QED
  BY <1>5, <1>6, <1>7

(* A set and a part of it that has its newest entry of a key.              *)
LEMMA NewestOfPart ==
  ASSUME NEW s, Coherent(s), NEW t \in SUBSET s, NEW k, NEW e, Newest(s, k) = {e},
         e \in t
  PROVE  Coherent(t) /\ Newest(t, k) = {e}
<1>1. Coherent(t)
  BY DEF Coherent
<1>2. e \in s /\ e.key = k /\ \A f \in s : f.key = k => f.seq <= e.seq
  BY NewestIs
<1>3. e \in Newest(t, k)
  BY <1>1, <1>2, NewestIs
<1>4. ASSUME NEW f \in Newest(t, k) PROVE f = e
  <2>1. f \in t /\ f.key = k /\ e.seq <= f.seq
    BY <1>1, <1>2, <1>4, NewestIs
  <2>2. f.seq <= e.seq /\ f.seq \in Nat /\ e.seq \in Nat
    BY <1>2, <2>1, EntryFields DEF Coherent
  <2>. QED
    BY <1>2, <2>1, <2>2 DEF Coherent
<1>. QED
  BY <1>1, <1>3, <1>4

(* An entry is added that is newer than all the others.                    *)
LEMMA NewestOfMore ==
  ASSUME NEW s, Coherent(s), NEW e \in Entry, \A f \in s : f.seq < e.seq, NEW k
  PROVE  /\ Coherent(s \cup {e})
         /\ Newest(s \cup {e}, k) = IF e.key = k THEN {e} ELSE Newest(s, k)
<1>. DEFINE t == s \cup {e}
<1>1. \A f \in t : f \in Entry /\ f.seq \in Nat
  BY EntryFields DEF Coherent
<1>2. \A f \in s : f.seq # e.seq
  BY <1>1
<1>3. Coherent(t)
  BY <1>1, <1>2 DEF Coherent
<1>4. CASE e.key = k
  <2>1. ASSUME NEW f PROVE f \in Newest(t, k) <=> f = e
    <3>1. f \in Newest(t, k) <=>
            f \in t /\ f.key = k /\ \A h \in t : h.key = k => h.seq <= f.seq
      BY <1>3, NewestIs
    <3>. QED
      BY <1>1, <1>4, <3>1
  <2>. QED
    BY <1>3, <1>4, <2>1
<1>5. CASE e.key # k
  <2>1. ASSUME NEW f PROVE f \in Newest(t, k) <=> f \in Newest(s, k)
    <3>1. f \in Newest(t, k) <=>
            f \in t /\ f.key = k /\ \A h \in t : h.key = k => h.seq <= f.seq
      BY <1>3, NewestIs
    <3>2. f \in Newest(s, k) <=>
            f \in s /\ f.key = k /\ \A h \in s : h.key = k => h.seq <= f.seq
      BY NewestIs
    <3>. QED
      BY <1>5, <3>1, <3>2
  <2>2. Newest(t, k) = Newest(s, k)
    BY <2>1
  <2>. QED
    BY <1>3, <1>5, <2>2
<1>. QED
  BY <1>4, <1>5

(* Nothing is found of a key that is not there.                            *)
LEMMA NoneNewest ==
  ASSUME NEW s, Coherent(s), NEW k, \A e \in s : e.key # k
  PROVE  Newest(s, k) = {}
BY NewestIs

(* The value of an entry that is found.                                    *)
LEMMA ValueIs ==
  /\ Value({}) = 0
  /\ \A e \in Entry : Value({e}) = IF e.del THEN 0 ELSE e.seq
<1>1. Value({}) = 0
  BY DEF Value
<1>2. ASSUME NEW e \in Entry PROVE Value({e}) = IF e.del THEN 0 ELSE e.seq
  <2>1. (CHOOSE x \in {e} : TRUE) = e
    OBVIOUS
  <2>2. (\E x \in {e} : ~x.del) <=> ~e.del
    OBVIOUS
  <2>. QED
    BY <2>1, <2>2 DEF Value
<1>. QED
  BY <1>1, <1>2

(* At lists the positions in p, in their order.                            *)
LEMMA AtLists ==
  ASSUME NEW s, IsList(s), NEW p \in SUBSET (1..Len(s))
  PROVE  /\ IsList(At(s, p))
         /\ \A j \in 1..Len(At(s, p)) : \E i \in p : Rank(p, i) = j /\ At(s, p)[j] = s[i]
         /\ \A i \in p : Rank(p, i) \in 1..Len(At(s, p)) /\ At(s, p)[Rank(p, i)] = s[i]
         /\ \A i, h \in p : i < h => Rank(p, i) < Rank(p, h)
<1>. DEFINE a == At(s, p)
<1>1. IsFiniteSet(p) /\ Cardinality(p) \in Nat /\ p \subseteq Nat
  BY ListBasics, FS_Subset, FS_CardinalityType
<1>2. /\ \A i \in p : Rank(p, i) \in 1..Cardinality(p)
      /\ \A i, h \in p : i < h => Rank(p, i) < Rank(p, h)
      /\ \A j \in 1..Cardinality(p) : \E i \in p : Rank(p, i) = j
  BY <1>1, RankIsBijective
<1>3. ASSUME NEW i \in p, NEW h \in p, Rank(p, i) = Rank(p, h) PROVE i = h
  <2>1. Rank(p, i) \in Nat /\ i \in Nat /\ h \in Nat
    BY <1>1, <1>2
  <2>2. ~(i < h) /\ ~(h < i)
    BY <1>2, <1>3, <2>1
  <2>. QED
    BY <2>1, <2>2
<1>4. ASSUME NEW i \in p PROVE a[Rank(p, i)] = s[i]
  <2>1. a[Rank(p, i)] = s[CHOOSE h \in p : Rank(p, h) = Rank(p, i)]
    BY <1>2 DEF At, Rank
  <2>2. (CHOOSE h \in p : Rank(p, h) = Rank(p, i)) = i
    BY <1>3
  <2>. QED
    BY <2>1, <2>2
<1>5. a = [j \in 1..Cardinality(p) |-> a[j]]
  BY DEF At
<1>. HIDE DEF a
<1>6. IsList(a) /\ Len(a) = Cardinality(p)
  BY <1>1, <1>5, ListMade
<1>7. \A j \in 1..Len(a) : \E i \in p : Rank(p, i) = j /\ a[j] = s[i]
  BY <1>2, <1>4, <1>6
<1>. QED
  BY <1>2, <1>4, <1>6, <1>7 DEF a

-----------------------------------------------------------------------------
(* The inductive invariant.                                                *)

InMemtables == UNION Range(mems)
InTables    == UNION {tables[version[i]] : i \in 1..Len(version)}

(* What get searches, and what was ever written.                           *)
Live == mems[mem] \cup (IF imm = 0 THEN {} ELSE mems[imm]) \cup InTables
All  == InMemtables \cup InTables

DataTyped ==
  /\ IsList(mems) /\ IsList(tables) /\ IsList(version)
  /\ lastSequence \in Nat /\ flushed \in BOOLEAN
  /\ mem # 0 /\ imm \in {0, mem - 1} /\ (imm # 0 => mems[imm] # {})
  /\ \A i \in 1..Len(version) : version[i] \in 1..Len(tables) /\ tables[version[i]] # {}
  /\ flushed => imm # 0 /\ version # <<>> /\ tables[version[1]] = mems[imm]

(* Sequence numbers are used once, and in order: what is in a memtable was *)
(* written, or is newer than what was on disk when the database was        *)
(* opened.                                                                 *)
Numbering ==
  /\ Coherent(All) /\ \A e \in All : e.seq <= lastSequence
  /\ \A e \in InTables, f \in InMemtables : e \in InMemtables \/ e.seq < f.seq

(* What get comes upon first is newest.                                    *)
Layered ==
  /\ \A i, j \in 1..Len(version) : i < j =>
       Newer(tables[version[i]], tables[version[j]])
  /\ \A i \in 1..Len(version) : Newer(mems[mem], tables[version[i]])
  /\ imm # 0 => Newer(mems[mem], mems[imm])
  /\ imm # 0 /\ ~flushed =>
       \A i \in 1..Len(version) : Newer(mems[imm], tables[version[i]])

(* No write is lost, but for deletions that have nothing left to hide.     *)
NothingHidden ==
  \A k \in Key :
    \/ Newest(Live, k) = Newest(All, k)
    \/ Newest(Live, k) = {} /\ Value(Newest(All, k)) = 0

(* A search for k through the tables in files, in their order, comes upon  *)
(* the value v.                                                            *)
Finds(t, files, k, v) ==
  \/ \E i \in 1..Len(files) :
       /\ Newest(t[files[i]], k) # {} /\ Value(Newest(t[files[i]], k)) = v
       /\ \A j \in 1..(i - 1) : Newest(t[files[j]], k) = {}
  \/ v = 0 /\ \A i \in 1..Len(files) : Newest(t[files[i]], k) = {}

(* What a get has before it still leads to the value that was stored when  *)
(* it was called.                                                          *)
GetsOnCourse ==
  /\ DOMAIN get = Getter /\ DOMAIN wanted = Getter
  /\ \A g \in Getter :
       /\ {"at", "key", "files", "value"} \subseteq DOMAIN get[g]
       /\ look[g].at # "none" =>
            get[g].at = "open" /\ look[g].table = get[g].files[1]
       /\ look[g].at = "error" => g \in erred
       /\ get[g].at = "open" =>
            /\ IsList(get[g].files) /\ get[g].files # <<>>
            /\ \A i \in 1..Len(get[g].files) : get[g].files[i] \in 1..Len(tables)
            /\ Finds(tables, get[g].files, get[g].key, wanted[g])

SourcesListed == "sources" \in DOMAIN scan /\ IsList(scan.sources)

DataInv == DataTyped /\ Numbering /\ Layered /\ NothingHidden

IInv == CacheInv /\ DataInv /\ SourcesListed /\ GetsOnCourse /\ GetAnswers

-----------------------------------------------------------------------------
(* The data.                                                               *)

(* The elements of the members of a list of sets.                          *)
LEMMA UnionOfList ==
  ASSUME NEW s, IsList(s), NEW e
  PROVE  e \in UNION Range(s) <=> \E i \in 1..Len(s) : e \in s[i]
<1>1. DOMAIN s = 1..Len(s)
  BY ListBasics
<1>. QED
  BY <1>1 DEF Range

(* Appending to a list.                                                    *)
LEMMA AppendedList ==
  ASSUME NEW s, IsList(s), NEW x
  PROVE  /\ IsList(Append(s, x)) /\ Len(Append(s, x)) = Len(s) + 1
         /\ Append(s, x)[Len(s) + 1] = x
         /\ \A i \in 1..Len(s) : Append(s, x)[i] = s[i]
<1>. DEFINE t == Append(s, x)
<1>. DEFINE S == Range(s) \cup {x}
<1>1. Len(s) \in Nat
  BY ListBasics
<1>2. s = [i \in 1..Len(s) |-> s[i]] /\ \A i \in 1..Len(s) : s[i] \in S
  BY ListBasics DEF Range
<1>3. x \in S
  OBVIOUS
<1>. HIDE DEF S, t
<1>4. s \in Seq(S)
  BY <1>1, <1>2, IsASeq
<1>5. /\ t \in Seq(S) /\ Len(t) = Len(s) + 1
      /\ \A i \in 1..Len(s) : t[i] = s[i]
      /\ t[Len(s) + 1] = x
  BY <1>3, <1>4, AppendProperties DEF t
<1>6. t = [i \in 1..(Len(s) + 1) |-> t[i]]
  BY <1>5, LenProperties
<1>7. IsList(t)
  BY <1>1, <1>6, ListMade
<1>. QED
  BY <1>5, <1>7 DEF t

Prepend(x, s) == <<x>> \o s

(* Putting an element in front of a list.                                  *)
LEMMA PrependedList ==
  ASSUME NEW s, IsList(s), NEW x
  PROVE  /\ IsList(Prepend(x, s)) /\ Len(Prepend(x, s)) = Len(s) + 1
         /\ Prepend(x, s)[1] = x
         /\ \A i \in 1..Len(Prepend(x, s)) : i # 1 =>
              i - 1 \in 1..Len(s) /\ Prepend(x, s)[i] = s[i - 1]
         /\ \A i \in 1..Len(s) :
              i + 1 \in 1..Len(Prepend(x, s)) /\ Prepend(x, s)[i + 1] = s[i]
<1>. DEFINE t == Prepend(x, s)
<1>. DEFINE S == Range(s) \cup {x}
<1>1. Len(s) \in Nat
  BY ListBasics
<1>2. s = [i \in 1..Len(s) |-> s[i]] /\ \A i \in 1..Len(s) : s[i] \in S
  BY ListBasics DEF Range
<1>3. <<x>> \in Seq(S) /\ Len(<<x>>) = 1 /\ <<x>>[1] = x
  OBVIOUS
<1>. HIDE DEF S, t
<1>4. s \in Seq(S)
  BY <1>1, <1>2, IsASeq
<1>5. PICK v : v = <<x>>
  OBVIOUS
<1>6. /\ v \o s \in Seq(S) /\ Len(v \o s) = Len(v) + Len(s)
      /\ \A i \in 1..(Len(v) + Len(s)) :
           (v \o s)[i] = IF i <= Len(v) THEN v[i] ELSE s[i - Len(v)]
  BY <1>3, <1>4, <1>5, ConcatProperties
<1>7. Len(v) = 1 /\ v[1] = x
  BY <1>3, <1>5
<1>8. /\ t \in Seq(S) /\ Len(t) = 1 + Len(s)
      /\ \A i \in 1..(1 + Len(s)) : t[i] = IF i <= 1 THEN x ELSE s[i - 1]
  <2>1. t = v \o s
    BY <1>5 DEF Prepend, t
  <2>2. \A i \in 1..(1 + Len(s)) : i <= 1 => i = 1
    OBVIOUS
  <2>. QED
    BY <1>6, <1>7, <2>1, <2>2
<1>9. t = [i \in 1..(1 + Len(s)) |-> t[i]]
  BY <1>8, LenProperties
<1>10. IsList(t)
  <2>1. 1 + Len(s) \in Nat
    BY <1>1
  <2>. QED
    BY <1>9, <2>1, ListMade
<1>11. t[1] = x
  BY <1>1, <1>8
<1>12. ASSUME NEW i \in 1..Len(t), i # 1
       PROVE  i - 1 \in 1..Len(s) /\ t[i] = s[i - 1]
  BY <1>1, <1>8, <1>12
<1>13. ASSUME NEW i \in 1..Len(s)
       PROVE  i + 1 \in 1..Len(t) /\ t[i + 1] = s[i]
  <2>1. i + 1 \in 1..Len(t) /\ ~(i + 1 <= 1) /\ i + 1 - 1 = i
    BY <1>1, <1>8
  <2>. QED
    BY <1>8, <2>1
<1>. QED
  BY <1>8, <1>10, <1>11, <1>12, <1>13 DEF t

(* The first n elements of a list.                                         *)
LEMMA FirstOfList ==
  ASSUME NEW s, IsList(s), NEW n \in 0..Len(s), NEW t, t = SubSeq(s, 1, n)
  PROVE  IsList(t) /\ Len(t) = n /\ \A i \in 1..n : t[i] = s[i]
<1>. DEFINE S == Range(s)
<1>1. Len(s) \in Nat /\ n \in Nat
  BY ListBasics
<1>2. \A i \in 1..n : s[i] \in S
  BY <1>1, ListBasics DEF Range
<1>. HIDE DEF S
<1>3. PICK a : a = 1
  OBVIOUS
<1>4. /\ SubSeq(s, a, n) \in Seq(S)
      /\ Len(SubSeq(s, a, n)) = IF a <= n THEN n - a + 1 ELSE 0
      /\ \A i \in 1..(n - a + 1) : SubSeq(s, a, n)[i] = s[a + i - 1]
  BY <1>1, <1>2, <1>3, SubSeqProperties
<1>5. Len(t) = n
  BY <1>1, <1>3, <1>4
<1>6. \A i \in 1..n : t[i] = s[i]
  <2>. TAKE i \in 1..n
  <2>1. i \in 1..(n - a + 1) /\ a + i - 1 = i
    BY <1>1, <1>3
  <2>. QED
    BY <1>3, <1>4, <2>1
<1>7. t = [i \in 1..n |-> t[i]]
  BY <1>3, <1>4, <1>5, LenProperties
<1>. QED
  BY <1>1, <1>5, <1>6, <1>7, ListMade

(* The steps of the data: writes, switches, flushes and compactions.       *)
LEMMA LiveIsPart ==
  ASSUME DataTyped
  PROVE  Live \subseteq All /\ (Coherent(All) => Coherent(Live))
<1>1. mem \in 1..Len(mems) /\ (imm # 0 => imm \in 1..Len(mems))
  BY ListBasics DEF DataTyped, mem
<1>2. \A m \in 1..Len(mems) : mems[m] \subseteq InMemtables
  BY UnionOfList DEF DataTyped, InMemtables
<1>3. Live \subseteq All
  BY <1>1, <1>2 DEF Live, All
<1>. QED
  BY <1>3 DEF Coherent

LEMMA DataStays ==
  ASSUME DataInv, UNCHANGED <<mems, imm, tables, version, flushed, lastSequence>>
  PROVE  DataInv'
<1>. USE DEF DataInv
<1>1. /\ mem' = mem /\ InMemtables' = InMemtables /\ InTables' = InTables
  BY DEF mem, InMemtables, InTables
<1>2. Live' = Live /\ All' = All
  BY <1>1 DEF Live, All
<1>. QED
  BY <1>1, <1>2 DEF DataTyped, Numbering, Layered, NothingHidden

LEMMA WritePreserves ==
  ASSUME DataInv, NEW k \in Key, NEW del \in BOOLEAN, Write(k, del)
  PROVE  DataInv'
<1>. USE DEF DataInv
<1>. DEFINE e == [key |-> k, seq |-> lastSequence + 1, del |-> del]
<1>1. /\ lastSequence' = lastSequence + 1
      /\ mems' = [mems EXCEPT ![mem] = @ \cup {e}]
      /\ UNCHANGED <<imm, tables, version, flushed>>
  BY DEF Write
<1>2. /\ e \in Entry /\ e.key = k /\ e.seq = lastSequence + 1
      /\ lastSequence \in Nat /\ lastSequence + 1 \in Nat
  BY DEF DataTyped, Entry
<1>. HIDE DEF e
<1>3. /\ IsList(mems') /\ Len(mems') = mem /\ mem' = mem
      /\ mem \in 1..mem /\ (imm # 0 => imm \in 1..mem /\ imm # mem)
      /\ mems'[mem] = mems[mem] \cup {e}
      /\ \A m \in 1..mem : m # mem => mems'[m] = mems[m]
  <2>1. IsList(mems) /\ mem \in Nat /\ DOMAIN mems = 1..mem /\ mem # 0
    BY ListBasics DEF DataTyped, mem
  <2>2. mems' = [m \in 1..mem |-> mems'[m]]
    BY <1>1, <2>1
  <2>3. IsList(mems') /\ Len(mems') = mem
    BY <2>1, <2>2, ListMade
  <2>4. mem \in 1..mem /\ (imm # 0 => imm \in 1..mem /\ imm # mem)
    BY <2>1 DEF DataTyped
  <2>. QED
    BY <1>1, <2>1, <2>3, <2>4 DEF mem
<1>4. /\ InMemtables' = InMemtables \cup {e} /\ InTables' = InTables
      /\ Live' = Live \cup {e} /\ All' = All \cup {e}
  <2>1. ASSUME NEW f PROVE f \in InMemtables' <=> f \in InMemtables \cup {e}
    <3>1. f \in InMemtables <=> \E m \in 1..mem : f \in mems[m]
      BY UnionOfList DEF DataTyped, InMemtables, mem
    <3>2. f \in InMemtables' <=> \E m \in 1..mem : f \in mems'[m]
      BY <1>3, UnionOfList DEF InMemtables
    <3>. QED
      BY <1>3, <3>1, <3>2
  <2>2. InMemtables' = InMemtables \cup {e}
    BY <2>1
  <2>3. InTables' = InTables
    BY <1>1 DEF InTables
  <2>4. Live' = Live \cup {e}
    BY <1>1, <1>3, <2>3 DEF Live
  <2>. QED
    BY <2>2, <2>3, <2>4 DEF All
<1>5. DataTyped'
  <2>1. mem' # 0 /\ imm' \in {0, mem' - 1} /\ (imm' # 0 => mems'[imm'] # {})
    BY <1>1, <1>3 DEF DataTyped
  <2>2. flushed' => imm' # 0 /\ version' # <<>> /\ tables'[version'[1]] = mems'[imm']
    BY <1>1, <1>3 DEF DataTyped
  <2>. QED
    BY <1>1, <1>2, <1>3, <2>1, <2>2 DEF DataTyped
<1>6. \A f \in All : f.seq \in Nat /\ f.seq <= lastSequence /\ f.seq < e.seq
  BY <1>2, EntryFields DEF Numbering, Coherent
<1>7. Numbering'
  <2>1. Coherent(All')
    BY <1>2, <1>4, <1>6, NewestOfMore DEF Numbering
  <2>2. \A f \in All' : f.seq <= lastSequence'
    BY <1>1, <1>2, <1>4, <1>6
  <2>3. \A f \in InTables', h \in InMemtables' : f \in InMemtables' \/ f.seq < h.seq
    BY <1>4, <1>6 DEF Numbering, All
  <2>. QED
    BY <2>1, <2>2, <2>3 DEF Numbering
<1>8. Layered'
  <2>1. ASSUME NEW s \in SUBSET All, Newer(mems[mem], s)
        PROVE  Newer(mems'[mem'], s)
    BY <1>2, <1>3, <1>6, <2>1 DEF Newer
  <2>2. \A i \in 1..Len(version) : tables[version[i]] \in SUBSET All
    BY DEF All, InTables
  <2>3. imm # 0 => mems[imm] \in SUBSET All
    BY <1>3, LiveIsPart DEF Live
  <2>. QED
    BY <1>1, <1>3, <2>1, <2>2, <2>3 DEF Layered
<1>9. NothingHidden'
  <2>. SUFFICES ASSUME NEW j \in Key
                PROVE  \/ Newest(Live', j) = Newest(All', j)
                       \/ Newest(Live', j) = {} /\ Value(Newest(All', j)) = 0
    BY DEF NothingHidden
  <2>1. Newest(All', j) = IF e.key = j THEN {e} ELSE Newest(All, j)
    BY <1>2, <1>4, <1>6, NewestOfMore DEF Numbering
  <2>2. Newest(Live', j) = IF e.key = j THEN {e} ELSE Newest(Live, j)
    <3>1. Coherent(Live) /\ \A f \in Live : f.seq < e.seq
      BY <1>6, LiveIsPart DEF Numbering
    <3>. QED
      BY <1>2, <1>4, <3>1, NewestOfMore
  <2>. QED
    BY <2>1, <2>2 DEF NothingHidden
<1>. QED
  BY <1>5, <1>7, <1>8, <1>9

LEMMA SwitchMemtablePreserves ==
  ASSUME DataInv, SwitchMemtable
  PROVE  DataInv'
<1>. USE DEF DataInv
<1>1. /\ imm = 0 /\ mems[mem] # {} /\ imm' = mem /\ mems' = Append(mems, {})
      /\ UNCHANGED <<tables, version, flushed, lastSequence>>
  BY DEF SwitchMemtable
<1>2. /\ mem \in Nat /\ mem # 0 /\ flushed = FALSE
  BY <1>1, ListBasics DEF DataTyped, mem
<1>3. /\ IsList(mems') /\ mem' = mem + 1 /\ Len(mems') = mem + 1
      /\ mems'[mem + 1] = {} /\ \A m \in 1..mem : mems'[m] = mems[m]
  BY <1>1, AppendedList DEF DataTyped, mem
<1>4. /\ InMemtables' = InMemtables /\ InTables' = InTables
      /\ Live' = Live /\ All' = All
  <2>1. ASSUME NEW f PROVE f \in InMemtables' <=> f \in InMemtables
    <3>1. f \in InMemtables <=> \E m \in 1..mem : f \in mems[m]
      BY UnionOfList DEF DataTyped, InMemtables, mem
    <3>2. f \in InMemtables' <=> \E m \in 1..(mem + 1) : f \in mems'[m]
      BY <1>3, UnionOfList DEF InMemtables
    <3>3. \A m : m \in 1..(mem + 1) <=> m \in 1..mem \/ m = mem + 1
      BY <1>2
    <3>. QED
      BY <1>3, <3>1, <3>2, <3>3
  <2>2. InMemtables' = InMemtables
    BY <2>1
  <2>3. InTables' = InTables
    BY <1>1 DEF InTables
  <2>4. mem \in 1..mem
    BY <1>2
  <2>5. Live' = mems'[mem + 1] \cup mems'[mem] \cup InTables
    BY <1>1, <1>2, <1>3, <2>3 DEF Live
  <2>6. Live = mems[mem] \cup InTables
    BY <1>1 DEF Live
  <2>. QED
    BY <1>3, <2>2, <2>3, <2>4, <2>5, <2>6 DEF All
<1>5. mems'[imm'] = mems[mem] /\ imm' = mem' - 1
  BY <1>1, <1>2, <1>3
<1>6. DataTyped'
  BY <1>1, <1>2, <1>3, <1>5 DEF DataTyped
<1>7. Numbering'
  BY <1>1, <1>4 DEF Numbering
<1>8. Layered'
  BY <1>1, <1>2, <1>3, <1>5 DEF Layered, Newer
<1>9. NothingHidden'
  BY <1>4 DEF NothingHidden
<1>. QED
  BY <1>6, <1>7, <1>8, <1>9

LEMMA InstallFlushPreserves ==
  ASSUME DataInv, InstallFlush
  PROVE  DataInv'
<1>. USE DEF DataInv
<1>1. /\ imm # 0 /\ ~flushed /\ flushed' = TRUE
      /\ tables' = Append(tables, mems[imm]) /\ version' = <<Len(tables) + 1>> \o version
      /\ UNCHANGED <<mems, imm, lastSequence>>
  BY DEF InstallFlush
<1>2. /\ IsList(tables) /\ Len(tables) \in Nat /\ IsList(version) /\ Len(version) \in Nat
      /\ mems[imm] # {}
      /\ \A j \in 1..Len(version) : version[j] \in 1..Len(tables)
  BY <1>1, ListBasics DEF DataTyped
<1>3. /\ IsList(tables') /\ Len(tables') = Len(tables) + 1
      /\ tables'[Len(tables) + 1] = mems[imm]
      /\ \A t \in 1..Len(tables) : tables'[t] = tables[t]
  BY <1>1, <1>2, AppendedList
<1>4. /\ IsList(version') /\ Len(version') = Len(version) + 1
      /\ version'[1] = Len(tables) + 1
      /\ \A j \in 1..Len(version') : j # 1 =>
           j - 1 \in 1..Len(version) /\ version'[j] = version[j - 1]
      /\ \A j \in 1..Len(version) : j + 1 \in 1..Len(version') /\ version'[j + 1] = version[j]
  <2>1. version' = Prepend(Len(tables) + 1, version)
    BY <1>1 DEF Prepend
  <2>. QED
    BY <1>2, <2>1, PrependedList
<1>5. /\ 1 \in 1..Len(version') /\ tables'[version'[1]] = mems[imm]
      /\ \A j \in 1..Len(version') : j # 1 =>
           /\ j - 1 \in 1..Len(version) /\ version'[j] \in 1..Len(tables)
           /\ tables'[version'[j]] = tables[version[j - 1]]
  BY <1>2, <1>3, <1>4
<1>6. InTables' = InTables \cup mems[imm]
  <2>1. ASSUME NEW f PROVE f \in InTables' <=> f \in InTables \cup mems[imm]
    <3>1. f \in InTables' <=> \E j \in 1..Len(version') : f \in tables'[version'[j]]
      BY DEF InTables
    <3>2. f \in InTables <=> \E j \in 1..Len(version) : f \in tables[version[j]]
      BY DEF InTables
    <3>3. \A j \in 1..Len(version) : j + 1 \in 1..Len(version') /\ j + 1 # 1 /\ j + 1 - 1 = j
      BY <1>4
    <3>4. \A j \in 1..Len(version) : tables'[version'[j + 1]] = tables[version[j]]
      BY <1>5, <3>3
    <3>. QED
      BY <1>5, <3>1, <3>2, <3>3, <3>4
  <2>. QED
    BY <2>1
<1>7. /\ mem' = mem /\ InMemtables' = InMemtables /\ mems[imm] \subseteq InMemtables
      /\ Live' = Live /\ All' = All
  <2>1. imm \in 1..mem
    BY <1>1, ListBasics DEF DataTyped, mem
  <2>2. mems[imm] \subseteq InMemtables
    BY <2>1, UnionOfList DEF DataTyped, InMemtables, mem
  <2>3. mem' = mem /\ InMemtables' = InMemtables
    BY <1>1 DEF mem, InMemtables
  <2>4. Live' = Live
    BY <1>1, <1>6, <2>3 DEF Live
  <2>. QED
    BY <1>6, <2>2, <2>3, <2>4 DEF All
<1>8. DataTyped'
  <2>1. \A j \in 1..Len(version') : version'[j] \in 1..Len(tables') /\ tables'[version'[j]] # {}
    <3>. TAKE j \in 1..Len(version')
    <3>1. CASE j = 1
      BY <1>2, <1>3, <1>4, <1>5, <3>1
    <3>2. CASE j # 1
      <4>1. \A t \in 1..Len(tables) : t \in 1..Len(tables')
        BY <1>2, <1>3
      <4>. QED
        BY <1>5, <3>2, <4>1 DEF DataTyped
    <3>. QED
      BY <3>1, <3>2
  <2>2. version' # <<>>
    BY <1>4, <1>5
  <2>. QED
    BY <1>1, <1>3, <1>4, <1>5, <1>7, <2>1, <2>2 DEF DataTyped
<1>9. Numbering'
  BY <1>1, <1>6, <1>7 DEF Numbering
<1>10. Layered'
  <2>1. ASSUME NEW a \in 1..Len(version'), NEW b \in 1..Len(version'), a < b
        PROVE  Newer(tables'[version'[a]], tables'[version'[b]])
    <3>1. b # 1
      BY <1>4, <2>1
    <3>2. CASE a = 1
      BY <1>1, <1>5, <3>1, <3>2 DEF Layered
    <3>3. CASE a # 1
      <4>1. a - 1 < b - 1
        BY <2>1
      <4>. QED
        BY <1>5, <3>1, <3>3, <4>1 DEF Layered
    <3>. QED
      BY <3>2, <3>3
  <2>2. \A j \in 1..Len(version') : Newer(mems[mem], tables'[version'[j]])
    BY <1>1, <1>5 DEF Layered
  <2>. QED
    BY <1>1, <1>7, <2>1, <2>2 DEF Layered
<1>11. NothingHidden'
  BY <1>7 DEF NothingHidden
<1>. QED
  BY <1>8, <1>9, <1>10, <1>11

LEMMA DropImmPreserves ==
  ASSUME DataInv, DropImm
  PROVE  DataInv'
<1>. USE DEF DataInv
<1>1. /\ imm # 0 /\ flushed /\ imm' = 0 /\ flushed' = FALSE
      /\ UNCHANGED <<mems, tables, version, lastSequence>>
  BY DEF DropImm
<1>2. mems[imm] \subseteq InTables
  <2>1. /\ IsList(version) /\ version # <<>> /\ tables[version[1]] = mems[imm]
    BY <1>1 DEF DataTyped
  <2>2. 1 \in 1..Len(version)
    <3>1. Len(version) \in Nat /\ Len(version) # 0
      BY <2>1, ListBasics, EmptySeq DEF IsList
    <3>. QED
      BY <3>1
  <2>. QED
    BY <2>1, <2>2 DEF InTables
<1>3. /\ mem' = mem /\ InMemtables' = InMemtables /\ InTables' = InTables
      /\ Live' = Live /\ All' = All
  <2>1. mem' = mem /\ InMemtables' = InMemtables /\ InTables' = InTables
    BY <1>1 DEF mem, InMemtables, InTables
  <2>. QED
    BY <1>1, <1>2, <2>1 DEF Live, All
<1>. QED
  BY <1>1, <1>3 DEF DataTyped, Numbering, Layered, NothingHidden

LEMMA CompactPreserves ==
  ASSUME DataInv, NEW i \in 1..(Len(version) - 1), Compact(i)
  PROVE  DataInv'
<1>. USE DEF DataInv
<1>. DEFINE lower == UNION {tables[version[j]] : j \in i..Len(version)}
            kept == Kept(lower)
            above == SubSeq(version, 1, i - 1)
            upper == UNION {tables[version[j]] : j \in 1..(i - 1)}
            B == mems[mem] \cup (IF imm = 0 THEN {} ELSE mems[imm]) \cup upper
<1>1. /\ ~flushed /\ UNCHANGED <<mems, imm, flushed, lastSequence>>
      /\ tables' = IF kept = {} THEN tables ELSE Append(tables, kept)
      /\ version' = IF kept = {} THEN above ELSE Append(above, Len(tables) + 1)
  BY DEF Compact
<1>2. /\ IsList(tables) /\ Len(tables) \in Nat /\ IsList(version) /\ Len(version) \in Nat
      /\ \A j \in 1..Len(version) : version[j] \in 1..Len(tables) /\ tables[version[j]] # {}
      /\ i \in Nat /\ i # 0 /\ i - 1 \in 0..Len(version)
  BY ListBasics DEF DataTyped
<1>3. IsList(above) /\ Len(above) = i - 1 /\ \A j \in 1..(i - 1) : above[j] = version[j]
  BY <1>2, FirstOfList
<1>4. kept \subseteq lower
  BY DEF Kept
<1>5. InTables = upper \cup lower
  <2>1. \A j : j \in 1..Len(version) <=> j \in 1..(i - 1) \/ j \in i..Len(version)
    BY <1>2
  <2>. QED
    BY <2>1 DEF InTables
<1>. HIDE DEF lower, kept, above
(* The new version: what is above stays, what was kept may follow.         *)
<1>6. /\ IsList(tables') /\ Len(tables') \in Nat /\ IsList(version') /\ Len(version') \in Nat
      /\ \A t \in 1..Len(tables) : t \in 1..Len(tables') /\ tables'[t] = tables[t]
      /\ \A j \in 1..(i - 1) : j \in 1..Len(version') /\ version'[j] = version[j]
      /\ \A j \in 1..Len(version') : j \notin 1..(i - 1) =>
           /\ j = i /\ version'[j] \in 1..Len(tables')
           /\ tables'[version'[j]] = kept /\ kept # {}
      /\ kept # {} => i \in 1..Len(version')
  <2>1. CASE kept = {}
    BY <1>1, <1>2, <1>3, <2>1
  <2>2. CASE kept # {}
    <3>1. tables' = Append(tables, kept) /\ version' = Append(above, Len(tables) + 1)
      BY <1>1, <2>2
    <3>2. /\ IsList(tables') /\ Len(tables') = Len(tables) + 1
          /\ tables'[Len(tables) + 1] = kept
          /\ \A t \in 1..Len(tables) : tables'[t] = tables[t]
      BY <1>2, <3>1, AppendedList
    <3>3. /\ IsList(version') /\ Len(version') = i - 1 + 1
          /\ version'[i - 1 + 1] = Len(tables) + 1
          /\ \A j \in 1..(i - 1) : version'[j] = above[j]
      BY <1>3, <3>1, AppendedList
    <3>4. /\ i - 1 + 1 = i /\ i \in 1..i
          /\ \A j \in 1..i : j \notin 1..(i - 1) => j = i
          /\ \A j \in 1..(i - 1) : j \in 1..i
      BY <1>2
    <3>5. Len(tables) + 1 \in 1..Len(tables') /\ \A t \in 1..Len(tables) : t \in 1..Len(tables')
      BY <1>2, <3>2
    <3>. QED
      BY <1>2, <1>3, <2>2, <3>2, <3>3, <3>4, <3>5
  <2>. QED
    BY <2>1, <2>2
<1>7. \A j \in 1..(i - 1) : /\ j \in 1..Len(version) /\ version[j] \in 1..Len(tables)
                            /\ tables'[version'[j]] = tables[version[j]]
  BY <1>2, <1>6
<1>8. InTables' = upper \cup kept
  <2>1. ASSUME NEW f PROVE f \in InTables' <=> f \in upper \cup kept
    <3>1. f \in InTables' <=> \E j \in 1..Len(version') : f \in tables'[version'[j]]
      BY DEF InTables
    <3>2. f \in upper <=> \E j \in 1..(i - 1) : f \in tables[version[j]]
      OBVIOUS
    <3>3. ASSUME f \in kept PROVE f \in InTables'
      <4>1. i \in 1..Len(version') /\ i \notin 1..(i - 1)
        BY <1>2, <1>6, <3>3
      <4>. QED
        BY <1>6, <3>1, <3>3, <4>1
    <3>. QED
      BY <1>6, <1>7, <3>1, <3>2, <3>3
  <2>. QED
    BY <2>1
<1>. HIDE DEF upper
<1>9. /\ mem' = mem /\ InMemtables' = InMemtables
      /\ Live = B \cup lower /\ Live' = B \cup kept
      /\ All = InMemtables \cup upper \cup lower
      /\ All' = InMemtables \cup upper \cup kept
  <2>1. mem' = mem /\ InMemtables' = InMemtables
    BY <1>1 DEF mem, InMemtables
  <2>. QED
    BY <1>1, <1>5, <1>8, <2>1 DEF Live, All
<1>10. /\ All' \in SUBSET All /\ Live' \in SUBSET Live /\ Live \in SUBSET All
       /\ lower \in SUBSET Live /\ Live' \in SUBSET All'
  <2>1. imm # 0 => mems[imm] \subseteq InMemtables
    <3>1. imm # 0 => imm \in 1..mem
      BY ListBasics DEF DataTyped, mem
    <3>. QED
      BY <3>1, UnionOfList DEF DataTyped, InMemtables, mem
  <2>2. mems[mem] \subseteq InMemtables
    <3>1. mem \in 1..mem
      BY ListBasics DEF DataTyped, mem
    <3>. QED
      BY <3>1, UnionOfList DEF DataTyped, InMemtables, mem
  <2>3. B \subseteq InMemtables \cup upper
    BY <2>1, <2>2
  <2>. HIDE DEF B
  <2>. QED
    BY <1>4, <1>9, <2>3, LiveIsPart
<1>11. \A b \in B, l \in lower : b.key = l.key => b.seq > l.seq
  <2>1. ASSUME NEW b \in B, NEW j \in i..Len(version), NEW l \in tables[version[j]],
               b.key = l.key
        PROVE  b.seq > l.seq
    <3>1. j \in 1..Len(version)
      BY <1>2
    <3>2. CASE b \in upper
      <4>1. PICK h \in 1..(i - 1) : b \in tables[version[h]]
        BY <3>2 DEF upper
      <4>2. h \in 1..Len(version) /\ h < j
        BY <1>2
      <4>. QED
        BY <2>1, <3>1, <4>1, <4>2 DEF Layered, Newer
    <3>3. CASE b \in mems[mem]
      BY <2>1, <3>1, <3>3 DEF Layered, Newer
    <3>4. CASE imm # 0 /\ b \in mems[imm]
      BY <1>1, <2>1, <3>1, <3>4 DEF Layered, Newer
    <3>. QED
      BY <3>2, <3>3, <3>4
  <2>. QED
    BY <2>1 DEF lower
<1>12. DataTyped'
  <2>1. \A j \in 1..Len(version') : version'[j] \in 1..Len(tables') /\ tables'[version'[j]] # {}
    BY <1>2, <1>6, <1>7
  <2>. QED
    BY <1>1, <1>6, <1>9, <2>1 DEF DataTyped
<1>13. Numbering'
  <2>1. Coherent(All')
    BY <1>10 DEF Numbering, Coherent
  <2>2. InTables' \subseteq InTables
    BY <1>4, <1>5, <1>8
  <2>. QED
    BY <1>1, <1>9, <1>10, <2>1, <2>2 DEF Numbering
<1>14. Layered'
  <2>1. ASSUME NEW a \in 1..Len(version'), NEW b \in 1..Len(version'), a < b
        PROVE  Newer(tables'[version'[a]], tables'[version'[b]])
    <3>1. a \in 1..(i - 1)
      <4>. SUFFICES ASSUME a \notin 1..(i - 1) PROVE FALSE
        OBVIOUS
      <4>1. a = i /\ b \notin 1..(i - 1)
        BY <1>2, <1>6, <2>1
      <4>2. b = i
        BY <1>6, <4>1
      <4>. QED
        BY <1>2, <2>1, <4>1, <4>2
    <3>2. CASE b \in 1..(i - 1)
      BY <1>7, <2>1, <3>1, <3>2 DEF Layered
    <3>3. CASE b \notin 1..(i - 1)
      <4>1. tables'[version'[b]] \subseteq lower
        BY <1>4, <1>6, <3>3
      <4>2. tables'[version'[a]] \subseteq B
        BY <1>7, <3>1 DEF upper
      <4>. QED
        BY <1>11, <4>1, <4>2 DEF Newer
    <3>. QED
      BY <3>2, <3>3
  <2>2. ASSUME NEW s \in SUBSET B, NEW j \in 1..Len(version'),
               \A h \in 1..Len(version) : Newer(s, tables[version[h]])
        PROVE  Newer(s, tables'[version'[j]])
    <3>1. CASE j \in 1..(i - 1)
      BY <1>7, <2>2, <3>1
    <3>2. CASE j \notin 1..(i - 1)
      <4>1. tables'[version'[j]] \subseteq lower
        BY <1>4, <1>6, <3>2
      <4>. QED
        BY <1>11, <4>1 DEF Newer
    <3>. QED
      BY <3>1, <3>2
  <2>3. mems[mem] \in SUBSET B /\ (imm # 0 => mems[imm] \in SUBSET B)
    OBVIOUS
  <2>. HIDE DEF B
  <2>4. \A j \in 1..Len(version') : Newer(mems[mem], tables'[version'[j]])
    BY <2>2, <2>3 DEF Layered
  <2>5. imm # 0 => \A j \in 1..Len(version') : Newer(mems[imm], tables'[version'[j]])
    BY <1>1, <2>2, <2>3 DEF Layered
  <2>. QED
    BY <1>1, <1>9, <2>1, <2>4, <2>5 DEF Layered
<1>. HIDE DEF B
<1>15. NothingHidden'
  <2>. SUFFICES ASSUME NEW k \in Key
                PROVE  \/ Newest(Live', k) = Newest(All', k)
                       \/ Newest(Live', k) = {} /\ Value(Newest(All', k)) = 0
    BY DEF NothingHidden
  <2>1. /\ Coherent(All) /\ Coherent(All') /\ Coherent(Live) /\ Coherent(Live')
        /\ Coherent(lower) /\ \A e \in All : e.seq <= lastSequence
    BY <1>9, <1>10, <1>13 DEF Numbering, Coherent
  <2>2. \A e \in All : e \in Entry /\ e.seq \in Nat
    BY <2>1, EntryFields DEF Coherent
  <2>3. CASE \A e \in Live : e.key # k
    <3>1. Newest(Live, k) = {} /\ Newest(Live', k) = {}
      BY <1>10, <2>1, <2>3, NoneNewest
    <3>2. Value(Newest(All, k)) = 0
      BY <3>1, ValueIs DEF NothingHidden
    <3>3. \A e \in All : e.key = k => e \in InMemtables
      BY <1>9, <2>3 DEF B
    <3>4. \A e : e \in All /\ e.key = k <=> e \in All' /\ e.key = k
      BY <1>9, <1>10, <3>3
    <3>5. ASSUME NEW e PROVE e \in Newest(All, k) <=> e \in Newest(All', k)
      <4>1. e \in Newest(All, k) <=>
              e \in All /\ e.key = k /\ \A f \in All : f.key = k => f.seq <= e.seq
        BY <2>1, NewestIs
      <4>2. e \in Newest(All', k) <=>
              e \in All' /\ e.key = k /\ \A f \in All' : f.key = k => f.seq <= e.seq
        BY <2>1, NewestIs
      <4>. QED
        BY <3>4, <4>1, <4>2
    <3>6. Newest(All, k) = Newest(All', k)
      BY <3>5
    <3>. QED
      BY <3>1, <3>2, <3>6
  <2>4. CASE \E e \in Live : e.key = k
    <3>1. PICK x \in Live : x.key = k /\ Newest(Live, k) = {x}
      <4>1. PICK e \in Live : e.key = k
        BY <2>4
      <4>2. \A f \in Live : f.seq <= lastSequence
        BY <1>10, <2>1
      <4>3. lastSequence \in Nat
        BY DEF DataTyped
      <4>. QED
        BY <2>1, <4>1, <4>2, <4>3, NewestExists
    <3>2. Newest(All, k) = {x} /\ x \in All
      BY <1>10, <3>1 DEF NothingHidden
    <3>3. CASE x \in Live'
      <4>1. Newest(Live', k) = {x}
        BY <1>10, <2>1, <3>1, <3>3, NewestOfPart
      <4>2. Newest(All', k) = {x}
        BY <1>10, <2>1, <3>2, <3>3, NewestOfPart
      <4>. QED
        BY <4>1, <4>2
    <3>4. CASE x \notin Live'
      <4>1. x \in lower /\ x \notin B
        BY <1>9, <3>1, <3>4
      <4>2. Newest(lower, k) = {x}
        BY <1>10, <2>1, <3>1, <4>1, NewestOfPart
      <4>3. x.del
        BY <1>9, <3>1, <3>4, <4>1, <4>2 DEF Kept, kept
      <4>4. \A e \in All : e.key = k => e.seq <= x.seq
        BY <2>1, <3>2, NewestIs
      <4>5. ASSUME NEW e \in Live', e.key = k PROVE FALSE
        <5>1. CASE e \in B
          <6>1. e.seq > x.seq /\ e \in All
            BY <1>10, <1>11, <3>1, <4>1, <4>5, <5>1
          <6>2. e.seq \in Nat /\ x.seq \in Nat /\ e.seq <= x.seq
            BY <2>2, <3>2, <4>4, <4>5, <6>1
          <6>. QED
            BY <6>1, <6>2
        <5>2. CASE e \in kept
          BY <4>2, <4>3, <4>5, <5>2 DEF Kept, kept
        <5>. QED
          BY <1>9, <4>5, <5>1, <5>2
      <4>6. Newest(Live', k) = {}
        BY <2>1, <4>5, NoneNewest
      <4>7. CASE x \in All'
        <5>1. Newest(All', k) = {x}
          BY <1>10, <2>1, <3>2, <4>7, NewestOfPart
        <5>2. Value({x}) = 0
          BY <2>2, <3>2, <4>3, ValueIs
        <5>. QED
          BY <4>6, <5>1, <5>2
      <4>8. CASE x \notin All'
        <5>1. x \notin InMemtables /\ x \in InTables
          BY <1>5, <1>9, <4>1, <4>8
        <5>2. ASSUME NEW e \in All', e.key = k PROVE FALSE
          <6>1. CASE e \in InMemtables
            <7>1. x.seq < e.seq
              BY <5>1, <6>1 DEF Numbering
            <7>2. e \in All /\ e.seq \in Nat /\ x.seq \in Nat /\ e.seq <= x.seq
              BY <1>10, <2>2, <3>2, <4>4, <5>2
            <7>. QED
              BY <7>1, <7>2
          <6>2. CASE e \in upper \cup kept
            <7>1. e \in Live'
              BY <1>9, <6>2 DEF B
            <7>. QED
              BY <4>5, <5>2, <7>1
          <6>. QED
            BY <1>9, <5>2, <6>1, <6>2
        <5>3. Newest(All', k) = {}
          BY <2>1, <5>2, NoneNewest
        <5>. QED
          BY <4>6, <5>3
      <4>. QED
        BY <4>7, <4>8
    <3>. QED
      BY <3>3, <3>4
  <2>. QED
    BY <2>3, <2>4
<1>. QED
  BY <1>12, <1>13, <1>14, <1>15

LEMMA InitData == Init => DataInv
<1>. SUFFICES ASSUME Init PROVE DataInv
  OBVIOUS
<1>1. /\ mems = <<{}>> /\ imm = 0 /\ flushed = FALSE /\ tables = Disk
      /\ version = [j \in 1..Len(Disk) |-> j]
      /\ lastSequence = Max({0} \cup {e.seq : e \in (UNION Range(Disk))})
  BY DEF Init
<1>2. /\ Disk \in Seq(SUBSET Entry) /\ Len(Disk) \in Nat
      /\ \A j \in 1..Len(Disk) : Disk[j] # {} /\ IsFiniteSet(Disk[j]) /\ Disk[j] \subseteq Entry
      /\ \A a, b \in 1..Len(Disk) : \A e \in Disk[a], f \in Disk[b] :
           e.key = f.key => (a < b => e.seq > f.seq) /\ (a = b /\ e.seq = f.seq => e = f)
  BY ReadsAssumption, LenProperties, ElementOfSeq
<1>3. IsList(Disk)
  <2>1. Disk = [j \in 1..Len(Disk) |-> Disk[j]]
    BY <1>2, LenProperties
  <2>. QED
    BY <1>2, <2>1, ListMade
<1>4. IsList(version) /\ Len(version) = Len(Disk) /\ \A j \in 1..Len(Disk) : version[j] = j
  <2>1. version = [j \in 1..Len(Disk) |-> version[j]]
    BY <1>1
  <2>. QED
    BY <1>1, <1>2, <2>1, ListMade
<1>5. IsList(mems) /\ mem = 1 /\ mems[1] = {} /\ InMemtables = {}
  <2>1. mems = [j \in 1..1 |-> mems[j]] /\ mems[1] = {}
    BY <1>1
  <2>2. IsList(mems) /\ Len(mems) = 1
    BY <2>1, ListMade
  <2>3. \A e : e \in InMemtables <=> \E j \in 1..Len(mems) : e \in mems[j]
    BY <2>2, UnionOfList DEF InMemtables
  <2>. QED
    BY <2>1, <2>2, <2>3 DEF mem
<1>6. InTables = UNION Range(Disk) /\ Live = InTables /\ All = InTables
  <2>1. \A e : e \in InTables <=> \E j \in 1..Len(Disk) : e \in Disk[j]
    BY <1>1, <1>4 DEF InTables
  <2>2. \A e : e \in UNION Range(Disk) <=> \E j \in 1..Len(Disk) : e \in Disk[j]
    BY <1>3, UnionOfList
  <2>3. InTables = UNION Range(Disk)
    BY <2>1, <2>2
  <2>. QED
    BY <1>1, <1>5, <2>3 DEF Live, All
<1>7. IsFiniteSet(InTables)
  <2>1. IsFiniteSet({Disk[j] : j \in 1..Len(Disk)})
    <3>1. IsFiniteSet(DOMAIN Disk) /\ DOMAIN Disk = 1..Len(Disk)
      BY <1>3, ListBasics
    <3>. QED
      BY <3>1, FiniteImage
  <2>2. \A t \in {Disk[j] : j \in 1..Len(Disk)} : IsFiniteSet(t)
    BY <1>2
  <2>3. IsFiniteSet(UNION {Disk[j] : j \in 1..Len(Disk)})
    BY <2>1, <2>2, FS_UNION
  <2>4. InTables = UNION {Disk[j] : j \in 1..Len(Disk)}
    BY <1>1, <1>4 DEF InTables
  <2>. QED
    BY <2>3, <2>4
<1>8. /\ \A e \in InTables : e \in Entry /\ e.seq \in Nat
      /\ \A e \in InTables : \E j \in 1..Len(Disk) : e \in Disk[j]
  BY <1>1, <1>2, <1>4, EntryFields DEF InTables
<1>9. lastSequence \in Nat /\ \A e \in InTables : e.seq <= lastSequence
  <2>. DEFINE f == [e \in InTables |-> e.seq]
              S == {0} \cup {f[e] : e \in InTables}
  <2>1. IsFiniteSet({f[e] : e \in DOMAIN f})
    BY <1>7, FiniteImage
  <2>2. IsFiniteSet(S)
    BY <2>1, FS_EmptySet, FS_AddElement, FS_Union
  <2>3. S \subseteq Nat /\ S # {} /\ \A e \in InTables : e.seq \in S
    BY <1>8
  <2>4. lastSequence = Max(S)
    <3>1. S = {0} \cup {e.seq : e \in (UNION Range(Disk))}
      BY <1>6
    <3>. QED
      BY <1>1, <3>1
  <2>. HIDE DEF S
  <2>. QED
    BY <2>2, <2>3, <2>4, MaxOfFinite
<1>10. DataTyped
  <2>1. mem # 0 /\ imm \in {0, mem - 1} /\ (imm # 0 => mems[imm] # {})
    BY <1>1, <1>5
  <2>2. \A j \in 1..Len(version) : version[j] \in 1..Len(tables) /\ tables[version[j]] # {}
    BY <1>1, <1>2, <1>4
  <2>. QED
    BY <1>1, <1>3, <1>4, <1>5, <1>9, <2>1, <2>2 DEF DataTyped
<1>11. Numbering
  <2>1. Coherent(All)
    <3>1. ASSUME NEW e \in All, NEW f \in All, e.key = f.key, e.seq = f.seq
          PROVE  e = f
      <4>1. PICK a \in 1..Len(Disk), b \in 1..Len(Disk) : e \in Disk[a] /\ f \in Disk[b]
        BY <1>6, <1>8
      <4>2. e.seq \in Nat /\ f.seq \in Nat
        BY <1>6, <1>8
      <4>3. ~(a < b) /\ ~(b < a)
        BY <1>2, <3>1, <4>1, <4>2
      <4>4. a = b
        BY <1>2, <4>3
      <4>. QED
        BY <1>2, <3>1, <4>1, <4>4
    <3>. QED
      BY <1>6, <1>8, <3>1 DEF Coherent
  <2>. QED
    BY <1>5, <1>6, <1>9, <2>1 DEF Numbering
<1>12. Layered
  BY <1>1, <1>2, <1>4, <1>5 DEF Layered, Newer
<1>13. NothingHidden
  BY <1>6 DEF NothingHidden
<1>. QED
  BY <1>10, <1>11, <1>12, <1>13 DEF DataInv

-----------------------------------------------------------------------------
(* What get finds.                                                         *)

(* Where the newest entry of a key is, if the rest has none that is newer. *)
LEMMA NewestOfLayer ==
  ASSUME NEW s, Coherent(s), NEW t \in SUBSET s, NEW k, Newest(t, k) # {},
         \A e \in t, f \in s \ t : e.key = k /\ f.key = k => e.seq > f.seq
  PROVE  Newest(s, k) = Newest(t, k)
<1>1. Coherent(t) /\ \A e \in s : e.seq \in Nat
  BY EntryFields DEF Coherent
<1>2. PICK w : w \in Newest(t, k)
  OBVIOUS
<1>3. w \in t /\ w.key = k /\ \A f \in t : f.key = k => f.seq <= w.seq
  BY <1>1, <1>2, NewestIs
<1>4. ASSUME NEW e PROVE e \in Newest(s, k) <=> e \in Newest(t, k)
  <2>1. e \in Newest(s, k) <=>
          e \in s /\ e.key = k /\ \A f \in s : f.key = k => f.seq <= e.seq
    BY NewestIs
  <2>2. e \in Newest(t, k) <=>
          e \in t /\ e.key = k /\ \A f \in t : f.key = k => f.seq <= e.seq
    BY <1>1, NewestIs
  <2>3. ASSUME e \in s, e.key = k, \A f \in s : f.key = k => f.seq <= e.seq PROVE e \in t
    BY <1>1, <1>3, <2>3
  <2>4. ASSUME e \in t, e.key = k, \A f \in t : f.key = k => f.seq <= e.seq,
               NEW f \in s, f.key = k
        PROVE  f.seq <= e.seq
    BY <1>1, <2>4
  <2>. QED
    BY <2>1, <2>2, <2>3, <2>4
<1>. QED
  BY <1>4

(* What a get finds in each place, once it is the place that answers.      *)
LEMMA NoneOfKey ==
  ASSUME NEW s, Coherent(s), NEW b \in Nat, \A e \in s : e.seq <= b,
         NEW k, Newest(s, k) = {}
  PROVE  \A e \in s : e.key # k
BY NewestExists

LEMMA StoredIsLive ==
  ASSUME DataInv, NEW k \in Key
  PROVE  Stored(k) = Value(Newest(Live, k))
<1>1. Stored(k) = Value(Newest(All, k))
  BY DEF Stored, All, InMemtables, InTables
<1>. QED
  BY <1>1, ValueIs DEF DataInv, NothingHidden

(* The parts of what is live.                                              *)
LEMMA Parts ==
  ASSUME DataInv
  PROVE  /\ Coherent(Live) /\ lastSequence \in Nat
         /\ mems[mem] \in SUBSET Live /\ (imm # 0 => mems[imm] \in SUBSET Live)
         /\ \A i \in 1..Len(version) : tables[version[i]] \in SUBSET Live
         /\ \A s \in SUBSET Live : Coherent(s) /\ \A e \in s : e.seq <= lastSequence
<1>1. Coherent(Live) /\ Live \subseteq All /\ lastSequence \in Nat
  BY LiveIsPart DEF DataInv, DataTyped, Numbering
<1>2. \A s \in SUBSET Live : Coherent(s) /\ \A e \in s : e.seq <= lastSequence
  BY <1>1 DEF DataInv, Numbering, Coherent
<1>. QED
  BY <1>1, <1>2 DEF Live, InTables

(* What is found in a memtable is the newest entry.                        *)
LEMMA MemoryAnswers ==
  ASSUME DataInv, NEW k \in Key, InMemory(k) # {}
  PROVE  Newest(Live, k) = InMemory(k)
<1>1. \A e \in Live : \/ e \in mems[mem]
                      \/ imm # 0 /\ e \in mems[imm]
                      \/ \E i \in 1..Len(version) : e \in tables[version[i]]
  <2>. TAKE e \in Live
  <2>1. CASE e \in mems[mem] \/ (imm # 0 /\ e \in mems[imm])
    BY <2>1
  <2>2. CASE e \in InTables
    BY <2>2 DEF InTables
  <2>. QED
    BY <2>1, <2>2 DEF Live
<1>2. CASE Newest(mems[mem], k) # {}
  <2>1. \A e \in mems[mem], f \in Live \ mems[mem] : e.key = k /\ f.key = k => e.seq > f.seq
    BY <1>1 DEF DataInv, Layered, Newer
  <2>2. Newest(Live, k) = Newest(mems[mem], k)
    BY <1>2, <2>1, Parts, NewestOfLayer
  <2>. QED
    BY <1>2, <2>2 DEF InMemory
<1>3. CASE Newest(mems[mem], k) = {}
  <2>1. imm # 0 /\ InMemory(k) = Newest(mems[imm], k)
    BY <1>3 DEF InMemory
  <2>2. \A f \in mems[mem] : f.key # k
    BY <1>3, Parts, NoneOfKey
  <2>3. ASSUME NEW e \in mems[imm], NEW i \in 1..Len(version), NEW f \in tables[version[i]],
               f \notin mems[imm], e.key = k, f.key = k
        PROVE  e.seq > f.seq
    <3>1. CASE ~flushed
      BY <2>1, <2>3, <3>1 DEF DataInv, Layered, Newer
    <3>2. CASE flushed
      <4>1. tables[version[1]] = mems[imm]
        BY <3>2 DEF DataInv, DataTyped
      <4>2. i # 1 /\ 1 \in 1..Len(version) /\ 1 < i
        <5>1. i # 1 /\ Len(version) \in Nat
          BY <2>3, <4>1, ListBasics DEF DataInv, DataTyped
        <5>. QED
          BY <5>1
      <4>3. Newer(tables[version[1]], tables[version[i]])
        BY <4>2 DEF DataInv, Layered
      <4>. QED
        BY <2>3, <4>1, <4>3 DEF Newer
    <3>. QED
      BY <3>1, <3>2 DEF DataInv, DataTyped
  <2>4. \A e \in mems[imm], f \in Live \ mems[imm] : e.key = k /\ f.key = k => e.seq > f.seq
    BY <1>1, <2>2, <2>3
  <2>. QED
    BY <2>1, <2>4, Parts, NewestOfLayer
<1>. QED
  BY <1>2, <1>3

(* The range of a table's keys has all its keys.                           *)
LEMMA KeysInRange ==
  ASSUME DataInv, NEW i \in 1..Len(version), NEW e \in tables[version[i]]
  PROVE  Smallest(version[i]) <= e.key /\ e.key <= Largest(version[i])
<1>. DEFINE S == {f.key : f \in tables[version[i]]}
<1>1. \A f \in tables[version[i]] : f.key \in Key /\ f.key \in Nat
  BY Parts, EntryFields DEF Coherent
<1>2. IsFiniteSet(Key)
  BY ReadsAssumption, FS_Interval DEF Key
<1>3. S \subseteq Nat /\ S \subseteq Key /\ e.key \in S
  BY <1>1
<1>4. Smallest(version[i]) = Min(S) /\ Largest(version[i]) = Max(S)
  BY DEF Smallest, Largest
<1>. HIDE DEF S
<1>5. IsFiniteSet(S)
  BY <1>2, <1>3, FS_Subset
<1>6. Min(S) <= e.key
  BY <1>3, MinOfSome
<1>7. e.key <= Max(S)
  BY <1>3, <1>5, MaxOfFinite
<1>. QED
  BY <1>4, <1>6, <1>7

(* When the memtables do not have the key, the search through the tables   *)
(* whose range it is in finds what is stored.                              *)
LEMMA TablesAnswer ==
  ASSUME DataInv, NEW k \in Key, InMemory(k) = {}
  PROVE  /\ IsList(Overlapping(k))
         /\ \A j \in 1..Len(Overlapping(k)) : Overlapping(k)[j] \in 1..Len(tables)
         /\ Finds(tables, Overlapping(k), k, Stored(k))
<1>. DEFINE p == {i \in 1..Len(version) : Smallest(version[i]) <= k /\ k <= Largest(version[i])}
            o == Overlapping(k)
<1>1. o = At(version, p)
  BY DEF Overlapping
<1>2. p \in SUBSET (1..Len(version)) /\ IsList(version)
  BY DEF DataInv, DataTyped
<1>3. \A i \in 1..Len(version) : (\E e \in tables[version[i]] : e.key = k) => i \in p
  BY KeysInRange
<1>. HIDE DEF p, o
<1>4. /\ IsList(o)
      /\ \A j \in 1..Len(o) : \E i \in p : Rank(p, i) = j /\ o[j] = version[i]
      /\ \A i \in p : Rank(p, i) \in 1..Len(o) /\ o[Rank(p, i)] = version[i]
      /\ \A i, h \in p : i < h => Rank(p, i) < Rank(p, h)
  BY <1>1, <1>2, AtLists
<1>5. \A j \in 1..Len(o) : o[j] \in 1..Len(tables)
  BY <1>2, <1>4 DEF DataInv, DataTyped
<1>6. /\ \A f \in mems[mem] : f.key # k
      /\ imm # 0 => \A f \in mems[imm] : f.key # k
  <2>1. Newest(mems[mem], k) = {} /\ (imm # 0 => Newest(mems[imm], k) = {})
    BY DEF InMemory
  <2>. QED
    BY <2>1, Parts, NoneOfKey
<1>7. CASE \A i \in 1..Len(version) : \A e \in tables[version[i]] : e.key # k
  <2>1. \A e \in Live : e.key # k
    BY <1>6, <1>7 DEF Live, InTables
  <2>2. Stored(k) = 0
    BY <2>1, Parts, NoneNewest, ValueIs, StoredIsLive
  <2>3. \A j \in 1..Len(o) : Newest(tables[o[j]], k) = {}
    <3>1. \A i \in p : Newest(tables[version[i]], k) = {}
      BY <1>2, <1>7, Parts, NoneNewest
    <3>. QED
      BY <1>4, <3>1
  <2>. QED
    BY <1>4, <1>5, <2>2, <2>3 DEF Finds, o
<1>8. CASE \E i \in 1..Len(version) : \E e \in tables[version[i]] : e.key = k
  <2>. DEFINE S == {i \in 1..Len(version) : \E e \in tables[version[i]] : e.key = k}
  <2>1. S \subseteq Nat /\ S # {} /\ S \subseteq p
    BY <1>3, <1>8
  <2>2. PICK i \in S : \A h \in S : i <= h
    <3>. HIDE DEF S
    <3>. QED
      BY <2>1, LeastNumber
  <2>3. /\ i \in 1..Len(version) /\ i \in p
        /\ \A h \in 1..Len(version) : h < i => \A e \in tables[version[h]] : e.key # k
    BY <2>1, <2>2
  <2>4. PICK e \in tables[version[i]] : e.key = k
    BY <2>2
  <2>5. Newest(tables[version[i]], k) # {}
    BY <2>3, <2>4, Parts, NoneOfKey
  <2>6. ASSUME NEW a \in tables[version[i]], NEW f \in Live, f \notin tables[version[i]],
               a.key = k, f.key = k
        PROVE  a.seq > f.seq
    <3>1. PICK h \in 1..Len(version) : f \in tables[version[h]]
      BY <1>6, <2>6 DEF Live, InTables
    <3>2. i < h
      BY <2>3, <2>6, <3>1
    <3>. QED
      BY <2>3, <2>6, <3>1, <3>2 DEF DataInv, Layered, Newer
  <2>7. Newest(Live, k) = Newest(tables[version[i]], k)
    BY <2>3, <2>5, <2>6, Parts, NewestOfLayer
  <2>. DEFINE r == Rank(p, i)
  <2>8. r \in 1..Len(o) /\ o[r] = version[i]
    BY <1>4, <2>3
  <2>9. ASSUME NEW j \in 1..(r - 1) PROVE Newest(tables[o[j]], k) = {}
    <3>1. Len(o) \in Nat /\ r \in Nat
      BY <1>4, <2>8, ListBasics
    <3>2. j \in 1..Len(o) /\ j < r
      BY <2>8, <3>1
    <3>3. PICK h \in p : Rank(p, h) = j /\ o[j] = version[h]
      BY <1>4, <3>2
    <3>4. h \in 1..Len(version) /\ h \in Nat /\ i \in Nat
      BY <1>2, <2>3
    <3>5. h # i
      BY <3>1, <3>2, <3>3
    <3>6. ~(i < h)
      <4>1. Rank(p, i) = r
        OBVIOUS
      <4>. HIDE DEF r
      <4>2. i < h => r < j
        BY <1>4, <2>3, <3>3, <4>1
      <4>. QED
        BY <3>1, <3>2, <4>2
    <3>7. \A f \in tables[version[h]] : f.key # k
      BY <2>3, <3>4, <3>5, <3>6
    <3>. QED
      BY <3>3, <3>4, <3>7, Parts, NoneNewest
  <2>10. Stored(k) = Value(Newest(tables[o[r]], k))
    BY <2>7, <2>8, StoredIsLive
  <2>. HIDE DEF r
  <2>11. Finds(tables, o, k, Stored(k))
    BY <2>5, <2>8, <2>9, <2>10 DEF Finds
  <2>. QED
    BY <1>4, <1>5, <2>11 DEF o
<1>. QED
  BY <1>7, <1>8

-----------------------------------------------------------------------------
(* The calls of get.                                                       *)

GetsInv == GetsOnCourse /\ GetAnswers

(* A list without its head.                                                *)
LEMMA HeadAndTail ==
  ASSUME NEW s, IsList(s), s # <<>>
  PROVE  /\ Head(s) = s[1] /\ 1 \in 1..Len(s)
         /\ IsList(Tail(s)) /\ Len(Tail(s)) = Len(s) - 1 /\ Len(s) \in Nat
         /\ \A i \in 1..Len(Tail(s)) : i + 1 \in 1..Len(s) /\ Tail(s)[i] = s[i + 1]
<1>. DEFINE S == Range(s)
            t == Tail(s)
<1>1. s \in Seq(S) /\ Len(s) \in Nat
  BY ListBasics DEF IsList
<1>. HIDE DEF S
<1>2. /\ Head(s) = s[1] /\ t \in Seq(S) /\ Len(t) = Len(s) - 1
      /\ \A i \in 1..Len(t) : t[i] = s[i + 1]
  BY <1>1, HeadTailProperties
<1>3. Len(s) # 0
  BY <1>1, EmptySeq
<1>. HIDE DEF t
<1>4. t = [i \in 1..Len(t) |-> t[i]] /\ Len(t) \in Nat
  BY <1>2, LenProperties
<1>5. IsList(t)
  BY <1>4, ListMade
<1>6. 1 \in 1..Len(s) /\ \A i \in 1..Len(t) : i + 1 \in 1..Len(s)
  BY <1>1, <1>2, <1>3
<1>. QED
  BY <1>1, <1>2, <1>5, <1>6 DEF t

(* The tables are only added to.                                           *)
LEMMA GetsStay ==
  ASSUME GetsInv, UNCHANGED <<get, wanted, look, erred>>,
         \A t \in 1..Len(tables) : t \in 1..Len(tables') /\ tables'[t] = tables[t]
  PROVE  GetsInv'
<1>. USE DEF GetsInv
<1>1. ASSUME NEW g \in Getter, get[g].at = "open"
      PROVE  /\ \A i \in 1..Len(get[g].files) : get[g].files[i] \in 1..Len(tables')
             /\ Finds(tables', get[g].files, get[g].key, wanted[g])
  <2>. DEFINE files == get[g].files
  <2>1. /\ IsList(files) /\ \A i \in 1..Len(files) : files[i] \in 1..Len(tables)
        /\ Finds(tables, files, get[g].key, wanted[g])
    BY <1>1 DEF GetsOnCourse
  <2>. HIDE DEF files
  <2>2. \A i \in 1..Len(files) : tables'[files[i]] = tables[files[i]]
    BY <2>1
  <2>3. \A i \in 1..Len(files) : \A j \in 1..(i - 1) : j \in 1..Len(files)
    BY <2>1, ListBasics
  <2>4. Finds(tables', files, get[g].key, wanted[g])
    <3>. DEFINE k == get[g].key
                v == wanted[g]
    <3>1. CASE \E i \in 1..Len(files) :
                 /\ Newest(tables[files[i]], k) # {} /\ Value(Newest(tables[files[i]], k)) = v
                 /\ \A j \in 1..(i - 1) : Newest(tables[files[j]], k) = {}
      <4>1. PICK i \in 1..Len(files) :
                 /\ Newest(tables[files[i]], k) # {} /\ Value(Newest(tables[files[i]], k)) = v
                 /\ \A j \in 1..(i - 1) : Newest(tables[files[j]], k) = {}
        BY <3>1
      <4>2. /\ Newest(tables'[files[i]], k) # {} /\ Value(Newest(tables'[files[i]], k)) = v
            /\ \A j \in 1..(i - 1) : Newest(tables'[files[j]], k) = {}
        BY <2>2, <2>3, <4>1
      <4>. QED
        BY <4>2 DEF Finds
    <3>2. CASE v = 0 /\ \A i \in 1..Len(files) : Newest(tables[files[i]], k) = {}
      BY <2>2, <3>2 DEF Finds
    <3>. QED
      BY <2>1, <3>1, <3>2 DEF Finds
  <2>. QED
    BY <2>1, <2>4 DEF files
<1>2. GetsOnCourse'
  BY <1>1 DEF GetsOnCourse
<1>3. GetAnswers'
  BY DEF GetAnswers
<1>. QED
  BY <1>2, <1>3

(* A step of findTable: it stays at its table, or it fails.                *)
LEMMA LookingOn ==
  ASSUME GetsInv, NEW r \in Reader, DOMAIN look = Reader,
         \A q \in Reader : q # r => look'[q] = look[q],
         r \in Getter => /\ look[r].at # "none" /\ look'[r].table = look[r].table
                         /\ look'[r].at = "error" => r \in erred',
         erred \subseteq erred', UNCHANGED <<get, wanted, tables>>
  PROVE  GetsInv'
<1>. USE DEF GetsInv
<1>1. Getter \subseteq Reader
  BY ReadsAssumption
<1>2. GetAnswers'
  BY DEF GetAnswers
<1>3. ASSUME NEW g \in Getter
      PROVE  /\ look'[g].at # "none" =>
                  get[g].at = "open" /\ look'[g].table = get[g].files[1]
             /\ look'[g].at = "error" => g \in erred'
  <2>1. CASE g = r
    <3>1. r \in Getter
      BY <2>1
    <3>2. get[r].at = "open" /\ look[r].table = get[r].files[1]
      BY <3>1 DEF GetsOnCourse
    <3>3. look'[r].table = get[r].files[1] /\ (look'[r].at = "error" => r \in erred')
      BY <3>1, <3>2
    <3>. QED
      BY <2>1, <3>2, <3>3
  <2>2. CASE g # r
    BY <1>1, <2>2 DEF GetsOnCourse
  <2>. QED
    BY <2>1, <2>2
<1>4. GetsOnCourse'
  BY <1>3 DEF GetsOnCourse
<1>. QED
  BY <1>2, <1>4

(* The steps of a get, one lemma each.                                     *)
LEMMA GetCallPreserves ==
  ASSUME DataInv, GetsInv, NEW g \in Getter, NEW k \in Key, GetCall(g, k)
  PROVE  GetsInv'
<1>. USE DEF GetsInv
<1>. DEFINE files == IF InMemory(k) # {} THEN <<>> ELSE Overlapping(k)
            call  == [at |-> IF files = <<>> THEN "answered" ELSE "open", key |-> k,
                      files |-> files, value |-> Value(InMemory(k))]
<1>1. /\ get[g].at = "idle" /\ get' = [get EXCEPT ![g] = call]
      /\ wanted' = [wanted EXCEPT ![g] = Stored(k)]
      /\ UNCHANGED <<tables, look, erred>>
  BY DEF GetCall, dataVars, cacheVars
<1>2. /\ DOMAIN call = {"at", "key", "files", "value"}
      /\ call.at = IF files = <<>> THEN "answered" ELSE "open"
      /\ call.key = k /\ call.files = files /\ call.value = Value(InMemory(k))
  OBVIOUS
<1>3. InMemory(k) # {} => Value(InMemory(k)) = Stored(k)
  BY MemoryAnswers, StoredIsLive
<1>4. InMemory(k) = {} =>
        /\ IsList(files) /\ \A j \in 1..Len(files) : files[j] \in 1..Len(tables)
        /\ Finds(tables, files, k, Stored(k))
  BY TablesAnswer
<1>5. InMemory(k) = {} /\ files = <<>> => Value(InMemory(k)) = Stored(k)
  <2>. SUFFICES ASSUME InMemory(k) = {}, files = <<>> PROVE Value(InMemory(k)) = Stored(k)
    OBVIOUS
  <2>1. Finds(tables, <<>>, k, Stored(k))
    BY <1>4
  <2>2. Stored(k) = 0
    BY <2>1 DEF Finds
  <2>. QED
    BY <2>2, ValueIs
<1>6. InMemory(k) # {} => files = <<>>
  OBVIOUS
<1>. HIDE DEF files, call
<1>7. /\ DOMAIN get' = Getter /\ get'[g] = call
      /\ DOMAIN wanted' = Getter /\ wanted'[g] = Stored(k)
      /\ \A q \in Getter : q # g => get'[q] = get[q] /\ wanted'[q] = wanted[q]
  BY <1>1 DEF GetsOnCourse
<1>8. look[g].at = "none"
  BY <1>1 DEF GetsOnCourse
<1>9. ASSUME NEW q \in Getter
      PROVE  /\ {"at", "key", "files", "value"} \subseteq DOMAIN get'[q]
             /\ look'[q].at # "none" =>
                  get'[q].at = "open" /\ look'[q].table = get'[q].files[1]
             /\ look'[q].at = "error" => q \in erred'
             /\ get'[q].at = "open" =>
                  /\ IsList(get'[q].files) /\ get'[q].files # <<>>
                  /\ \A i \in 1..Len(get'[q].files) : get'[q].files[i] \in 1..Len(tables')
                  /\ Finds(tables', get'[q].files, get'[q].key, wanted'[q])
  <2>1. CASE q = g
    BY <1>1, <1>2, <1>4, <1>6, <1>7, <1>8, <2>1
  <2>2. CASE q # g
    BY <1>1, <1>7, <2>2 DEF GetsOnCourse
  <2>. QED
    BY <2>1, <2>2
<1>10. GetsOnCourse'
  BY <1>7, <1>9 DEF GetsOnCourse
<1>11. GetAnswers'
  BY <1>1, <1>2, <1>3, <1>5, <1>7 DEF GetAnswers
<1>. QED
  BY <1>10, <1>11

LEMMA GetFindTablePreserves ==
  ASSUME GetsInv, NEW g \in Getter, DOMAIN look = Reader, GetFindTable(g)
  PROVE  GetsInv'
<1>. USE DEF GetsInv
<1>. DEFINE t == Head(get[g].files)
            hit == [at |-> "found", table |-> t, handle |-> cache[Max(Cached(t))].handle]
            miss == [at |-> "opening", table |-> t, handle |-> 0]
<1>1. /\ get[g].at = "open" /\ UNCHANGED <<get, wanted, erred, tables>>
      /\ look' = [look EXCEPT ![g] = IF Cached(t) # {} THEN hit ELSE miss]
  BY DEF GetFindTable, FindTable, dataVars
<1>2. hit.at = "found" /\ hit.table = t /\ miss.at = "opening" /\ miss.table = t
  OBVIOUS
<1>3. t = get[g].files[1]
  BY <1>1, HeadAndTail DEF GetsOnCourse
<1>. HIDE DEF hit, miss, t
<1>4. g \in Reader /\ Getter \subseteq Reader
  BY ReadsAssumption
<1>5. /\ look'[g].at \in {"found", "opening"} /\ look'[g].table = get[g].files[1]
      /\ \A q \in Getter : q # g => look'[q] = look[q]
  BY <1>1, <1>2, <1>3, <1>4
<1>6. ASSUME NEW q \in Getter
      PROVE  /\ look'[q].at # "none" =>
                  get[q].at = "open" /\ look'[q].table = get[q].files[1]
             /\ look'[q].at = "error" => q \in erred
  BY <1>1, <1>5 DEF GetsOnCourse
<1>7. GetsOnCourse'
  BY <1>1, <1>6 DEF GetsOnCourse
<1>8. GetAnswers'
  BY <1>1 DEF GetAnswers
<1>. QED
  BY <1>7, <1>8

(* A call that is done with a table: it has been answered or rejected, or  *)
(* it goes on with the files that follow.                                  *)
LEMMA TableDone ==
  ASSUME GetsInv, NEW g \in Getter, DOMAIN look = Reader,
         UNCHANGED <<wanted, erred, tables>>,
         look' = [look EXCEPT ![g] = NoLook],
         NEW x, get' = [get EXCEPT ![g] = x],
         {"at", "key", "files", "value"} \subseteq DOMAIN x,
         x.at = "open" =>
           /\ IsList(x.files) /\ x.files # <<>>
           /\ \A i \in 1..Len(x.files) : x.files[i] \in 1..Len(tables)
           /\ Finds(tables, x.files, x.key, wanted[g]),
         x.at = "answered" /\ g \notin erred => x.value = wanted[g]
  PROVE  GetsInv'
<1>. USE DEF GetsInv
<1>1. Getter \subseteq Reader
  BY ReadsAssumption
<1>2. /\ look'[g] = NoLook /\ \A q \in Getter : q # g => look'[q] = look[q]
  BY <1>1
<1>3. /\ DOMAIN get' = Getter /\ get'[g] = x
      /\ \A q \in Getter : q # g => get'[q] = get[q]
  BY DEF GetsOnCourse
<1>4. NoLook.at = "none"
  BY DEF NoLook
<1>5. ASSUME NEW q \in Getter
      PROVE  /\ {"at", "key", "files", "value"} \subseteq DOMAIN get'[q]
             /\ look'[q].at # "none" =>
                  get'[q].at = "open" /\ look'[q].table = get'[q].files[1]
             /\ look'[q].at = "error" => q \in erred'
             /\ get'[q].at = "open" =>
                  /\ IsList(get'[q].files) /\ get'[q].files # <<>>
                  /\ \A i \in 1..Len(get'[q].files) : get'[q].files[i] \in 1..Len(tables')
                  /\ Finds(tables', get'[q].files, get'[q].key, wanted'[q])
  <2>1. CASE q = g
    BY <1>2, <1>3, <1>4, <2>1
  <2>2. CASE q # g
    BY <1>2, <1>3, <2>2 DEF GetsOnCourse
  <2>. QED
    BY <2>1, <2>2
<1>6. GetsOnCourse'
  BY <1>3, <1>5 DEF GetsOnCourse
<1>7. GetAnswers'
  BY <1>3 DEF GetAnswers
<1>. QED
  BY <1>6, <1>7

LEMMA SearchTablePreserves ==
  ASSUME GetsInv, NEW g \in Getter, DOMAIN look = Reader, SearchTable(g)
  PROVE  GetsInv'
<1>. USE DEF GetsInv
<1>. DEFINE found == Newest(tables[look[g].table], get[g].key)
            files == Tail(get[g].files)
            rejected == [get[g] EXCEPT !.at = "rejected"]
            next == [get[g] EXCEPT !.files = files]
            answered == [get[g] EXCEPT !.at = "answered", !.files = <<>>, !.value = Value(found)]
<1>1. /\ get[g].at = "open" /\ look[g].at = "found"
      /\ look' = [look EXCEPT ![g] = NoLook]
      /\ UNCHANGED <<wanted, erred, tables>>
      /\ get' = [get EXCEPT ![g] =
           IF look[g].handle \notin opened THEN rejected
           ELSE IF found = {} /\ files # <<>> THEN next ELSE answered]
  BY DEF SearchTable, dataVars
<1>2. /\ IsList(get[g].files) /\ get[g].files # <<>>
      /\ \A i \in 1..Len(get[g].files) : get[g].files[i] \in 1..Len(tables)
      /\ Finds(tables, get[g].files, get[g].key, wanted[g])
      /\ look[g].table = get[g].files[1]
      /\ {"at", "key", "files", "value"} \subseteq DOMAIN get[g]
  BY <1>1 DEF GetsOnCourse
<1>3. /\ DOMAIN rejected = DOMAIN get[g] /\ rejected.at = "rejected"
      /\ DOMAIN next = DOMAIN get[g] /\ next.at = "open" /\ next.key = get[g].key
      /\ next.files = files
      /\ DOMAIN answered = DOMAIN get[g] /\ answered.at = "answered"
      /\ answered.value = Value(found)
  BY <1>1, <1>2
<1>4. /\ IsList(files) /\ Len(files) = Len(get[g].files) - 1 /\ Len(get[g].files) \in Nat
      /\ 1 \in 1..Len(get[g].files)
      /\ \A i \in 1..Len(files) : i + 1 \in 1..Len(get[g].files) /\ files[i] = get[g].files[i + 1]
  BY <1>2, HeadAndTail
<1>5. found = Newest(tables[get[g].files[1]], get[g].key)
  BY <1>2
<1>. HIDE DEF found, files, rejected, next, answered
<1>6. CASE found # {}
  <2>1. Value(found) = wanted[g]
    <3>1. CASE \E i \in 1..Len(get[g].files) :
                 /\ Value(Newest(tables[get[g].files[i]], get[g].key)) = wanted[g]
                 /\ \A j \in 1..(i - 1) : Newest(tables[get[g].files[j]], get[g].key) = {}
      <4>1. PICK i \in 1..Len(get[g].files) :
                 /\ Value(Newest(tables[get[g].files[i]], get[g].key)) = wanted[g]
                 /\ \A j \in 1..(i - 1) : Newest(tables[get[g].files[j]], get[g].key) = {}
        BY <3>1
      <4>2. i = 1
        <5>1. 1 \notin 1..(i - 1)
          BY <1>5, <1>6, <4>1
        <5>. QED
          BY <1>4, <5>1
      <4>. QED
        BY <1>5, <4>1, <4>2
    <3>. QED
      BY <1>2, <1>4, <1>5, <1>6, <3>1 DEF Finds
  <2>2. PICK x \in {rejected, answered} : get' = [get EXCEPT ![g] = x]
    BY <1>1, <1>6
  <2>3. /\ {"at", "key", "files", "value"} \subseteq DOMAIN x /\ x.at # "open"
        /\ x.at = "answered" => x.value = wanted[g]
    BY <1>2, <1>3, <2>1
  <2>. QED
    BY <1>1, <2>2, <2>3, TableDone
<1>7. CASE found = {}
  <2>1. Finds(tables, files, get[g].key, wanted[g])
    <3>1. CASE \E i \in 1..Len(get[g].files) :
                 /\ Newest(tables[get[g].files[i]], get[g].key) # {}
                 /\ Value(Newest(tables[get[g].files[i]], get[g].key)) = wanted[g]
                 /\ \A j \in 1..(i - 1) : Newest(tables[get[g].files[j]], get[g].key) = {}
      <4>1. PICK i \in 1..Len(get[g].files) :
                 /\ Newest(tables[get[g].files[i]], get[g].key) # {}
                 /\ Value(Newest(tables[get[g].files[i]], get[g].key)) = wanted[g]
                 /\ \A j \in 1..(i - 1) : Newest(tables[get[g].files[j]], get[g].key) = {}
        BY <3>1
      <4>2. i # 1
        BY <1>5, <1>7, <4>1
      <4>3. i - 1 \in 1..Len(files) /\ i - 1 + 1 = i
        BY <1>4, <4>2
      <4>4. files[i - 1] = get[g].files[i]
        BY <1>4, <4>3
      <4>5. ASSUME NEW j \in 1..(i - 1 - 1)
            PROVE  Newest(tables[files[j]], get[g].key) = {}
        <5>1. j \in 1..Len(files) /\ j + 1 \in 1..(i - 1)
          BY <1>4, <4>3
        <5>. QED
          BY <1>4, <4>1, <5>1
      <4>. QED
        BY <4>1, <4>3, <4>4, <4>5 DEF Finds
    <3>2. CASE /\ wanted[g] = 0
               /\ \A i \in 1..Len(get[g].files) : Newest(tables[get[g].files[i]], get[g].key) = {}
      BY <1>4, <3>2 DEF Finds
    <3>. QED
      BY <1>2, <3>1, <3>2 DEF Finds
  <2>2. \A i \in 1..Len(files) : files[i] \in 1..Len(tables)
    BY <1>2, <1>4
  <2>3. CASE files # <<>>
    <3>1. PICK x \in {rejected, next} : get' = [get EXCEPT ![g] = x]
      BY <1>1, <1>7, <2>3
    <3>2. /\ {"at", "key", "files", "value"} \subseteq DOMAIN x /\ x.at # "answered"
          /\ x.at = "open" => x.files = files /\ x.key = get[g].key
      BY <1>2, <1>3
    <3>3. x.at = "open" =>
            /\ IsList(x.files) /\ x.files # <<>>
            /\ \A i \in 1..Len(x.files) : x.files[i] \in 1..Len(tables)
            /\ Finds(tables, x.files, x.key, wanted[g])
      <4>. SUFFICES ASSUME x.files = files, x.key = get[g].key
                    PROVE  /\ IsList(x.files) /\ x.files # <<>>
                           /\ \A i \in 1..Len(x.files) : x.files[i] \in 1..Len(tables)
                           /\ Finds(tables, x.files, x.key, wanted[g])
        BY <3>2
      <4>. QED
        BY <1>4, <2>1, <2>2, <2>3
    <3>. QED
      BY <1>1, <3>1, <3>2, <3>3, TableDone
  <2>4. CASE files = <<>>
    <3>1. wanted[g] = 0
      BY <2>1, <2>4 DEF Finds
    <3>2. Value(found) = wanted[g]
      BY <1>7, <3>1, ValueIs
    <3>3. PICK x \in {rejected, answered} : get' = [get EXCEPT ![g] = x]
      BY <1>1, <1>7, <2>4
    <3>4. /\ {"at", "key", "files", "value"} \subseteq DOMAIN x /\ x.at # "open"
          /\ x.at = "answered" => x.value = wanted[g]
      BY <1>2, <1>3, <3>2
    <3>. QED
      BY <1>1, <3>3, <3>4, TableDone
  <2>. QED
    BY <2>3, <2>4
<1>. QED
  BY <1>6, <1>7

LEMMA SearchFailsPreserves ==
  ASSUME GetsInv, NEW g \in Getter, DOMAIN look = Reader, SearchFails(g)
  PROVE  GetsInv'
<1>. DEFINE x == [get[g] EXCEPT !.at = "answered", !.files = <<>>]
<1>1. /\ look[g].at = "error" /\ look' = [look EXCEPT ![g] = NoLook]
      /\ get' = [get EXCEPT ![g] = x] /\ UNCHANGED <<wanted, erred, tables>>
  BY DEF SearchFails, dataVars
<1>2. g \in erred /\ {"at", "key", "files", "value"} \subseteq DOMAIN get[g]
  BY <1>1 DEF GetsInv, GetsOnCourse
<1>3. DOMAIN x = DOMAIN get[g] /\ x.at = "answered"
  BY <1>2
<1>. HIDE DEF x
<1>. QED
  BY <1>1, <1>2, <1>3, TableDone

-----------------------------------------------------------------------------
(* The tables are only added to.                                           *)
LEMMA TablesGrow ==
  ASSUME DataInv,
         \/ UNCHANGED tables \/ InstallFlush
         \/ \E i \in 1..(Len(version) - 1) : Compact(i)
  PROVE  \A t \in 1..Len(tables) : t \in 1..Len(tables') /\ tables'[t] = tables[t]
<1>1. PICK x : tables' = tables \/ tables' = Append(tables, x)
  BY DEF InstallFlush, Compact
<1>2. IsList(tables)
  BY DEF DataInv, DataTyped
<1>3. CASE tables' = tables
  BY <1>3
<1>4. CASE tables' = Append(tables, x)
  <2>1. /\ Len(tables') = Len(tables) + 1 /\ Len(tables) \in Nat
        /\ \A t \in 1..Len(tables) : tables'[t] = tables[t]
    BY <1>2, <1>4, AppendedList, ListBasics
  <2>. QED
    BY <2>1
<1>. QED
  BY <1>1, <1>3, <1>4

LEMMA CacheStays ==
  ASSUME CacheInv, UNCHANGED cacheVars
  PROVE  CacheInv'
BY DEF CacheInv, CacheTyped, FlightsOwned, HandlesOwned, InFlight, cacheVars

(* The handles in use are finitely many, so there is a free one.           *)
LEMMA UsedFinite ==
  ASSUME SourcesListed
  PROVE  IsFiniteSet(Used)
<1>. DEFINE f == [r \in Reader |-> look[r].handle]
            h == [i \in 1..Len(scan.sources) |-> scan.sources[i].handle]
<1>1. IsFiniteSet(Reader) /\ IsFiniteSet(1..Len(scan.sources))
  BY TableCacheAssumption, ListBasics DEF SourcesListed
<1>2. IsFiniteSet({f[r] : r \in DOMAIN f}) /\ IsFiniteSet({h[i] : i \in DOMAIN h})
  <2>1. IsFiniteSet(DOMAIN f) /\ IsFiniteSet(DOMAIN h)
    BY <1>1
  <2>. HIDE DEF f, h
  <2>. QED
    BY <2>1, FiniteImage
<1>3. Used = {f[r] : r \in DOMAIN f} \cup {h[i] : i \in DOMAIN h}
  BY DEF Used
<1>. HIDE DEF f, h
<1>. QED
  BY <1>2, <1>3, FS_Union

-----------------------------------------------------------------------------
(* The iterator.                                                           *)

(* The steps of the scan keep its sources a list.                          *)
LEMMA ScanCallPreserves ==
  ASSUME DataInv, NEW back, NEW start, ScanCall(back, start)
  PROVE  SourcesListed'
<1>1. /\ "sources" \in DOMAIN scan' /\ scan'.sources = MemSources(back)
  BY DEF ScanCall
<1>2. IsList(MemSources(back))
  <2>. DEFINE a == Source(mem, 0, 0, back)
              b == Source(imm, 0, 0, back)
  <2>1. MemSources(back) \in {Prepend(a, <<>>), Prepend(a, <<b>>)}
    BY DEF MemSources, Prepend
  <2>. HIDE DEF a, b
  <2>2. IsList(<<>>)
    BY DEF IsList
  <2>3. IsList(<<b>>)
    <3>1. <<b>> = [i \in 1..1 |-> <<b>>[i]]
      OBVIOUS
    <3>. QED
      BY <3>1, ListMade
  <2>. QED
    BY <2>1, <2>2, <2>3, PrependedList
<1>. QED
  BY <1>1, <1>2 DEF SourcesListed

LEMMA AddTablePreserves ==
  ASSUME SourcesListed, AddTable
  PROVE  SourcesListed'
<1>1. PICK x : scan' = [scan EXCEPT !.files = Tail(@), !.sources =
                          IF look[Scanner].at = "found" THEN Append(@, x) ELSE @]
  BY DEF AddTable
<1>2. "sources" \in DOMAIN scan /\ IsList(scan.sources) /\ IsList(Append(scan.sources, x))
  BY AppendedList DEF SourcesListed
<1>3. "sources" \in DOMAIN scan' /\ scan'.sources \in {scan.sources, Append(scan.sources, x)}
  BY <1>1, <1>2
<1>. QED
  BY <1>2, <1>3 DEF SourcesListed

LEMMA PullPreserves ==
  ASSUME SourcesListed, Pull
  PROVE  SourcesListed'
<1>1. "sources" \in DOMAIN scan /\ IsList(scan.sources)
  BY DEF SourcesListed
<1>. DEFINE i == Min(Empty(scan.sources))
            src == Pulled(scan.sources[i])
            sources == [scan.sources EXCEPT ![i] = src]
            hit == Hit(sources)
            rest == [j \in 1..Len(sources) |->
                       IF j \in hit THEN [sources[j] EXCEPT !.head = {}] ELSE sources[j]]
            e == CHOOSE e \in UNION {sources[j].head : j \in hit} : TRUE
<1>2. scan' = IF src.table # 0 /\ src.head # {} /\ src.handle \notin opened
              THEN [scan EXCEPT !.at = "rejected"]
              ELSE IF Empty(sources) # {} THEN [scan EXCEPT !.sources = sources]
              ELSE IF hit = {} THEN [scan EXCEPT !.at = "done", !.sources = <<>>]
              ELSE Taken([scan EXCEPT !.sources = rest], e)
  BY DEF Pull
<1>3. IsList(sources) /\ Len(sources) \in Nat
  <2>1. sources = [j \in 1..Len(scan.sources) |-> sources[j]] /\ Len(scan.sources) \in Nat
    BY <1>1, ListBasics
  <2>. HIDE DEF sources
  <2>. QED
    BY <2>1, ListMade
<1>. HIDE DEF src, sources, hit, e
<1>4. IsList(rest)
  <2>1. rest = [j \in 1..Len(sources) |-> rest[j]]
    OBVIOUS
  <2>. HIDE DEF rest
  <2>. QED
    BY <1>3, <2>1, ListMade
<1>. HIDE DEF rest
<1>5. \A sc : "sources" \in DOMAIN sc => /\ "sources" \in DOMAIN Taken(sc, e)
                                         /\ Taken(sc, e).sources = sc.sources
  BY DEF Taken
<1>6. "sources" \in DOMAIN scan' /\ scan'.sources \in {scan.sources, sources, <<>>, rest}
  <2>. DEFINE sc == [scan EXCEPT !.sources = rest]
  <2>1. "sources" \in DOMAIN sc /\ sc.sources = rest
    BY <1>1
  <2>. HIDE DEF sc
  <2>2. "sources" \in DOMAIN Taken(sc, e) /\ Taken(sc, e).sources = rest
    BY <1>5, <2>1
  <2>3. CASE scan' = Taken(sc, e)
    BY <2>2, <2>3
  <2>4. CASE \/ scan' = [scan EXCEPT !.at = "rejected"]
             \/ scan' = [scan EXCEPT !.sources = sources]
             \/ scan' = [scan EXCEPT !.at = "done", !.sources = <<>>]
    BY <1>1, <2>4
  <2>. QED
    BY <1>2, <2>3, <2>4 DEF sc
<1>7. IsList(<<>>)
  BY DEF IsList
<1>. QED
  BY <1>1, <1>3, <1>4, <1>6, <1>7 DEF SourcesListed

-----------------------------------------------------------------------------
(* The invariant holds at first, and every step keeps it.                  *)
LEMMA InitEstablishes == Init => IInv
<1>. SUFFICES ASSUME Init PROVE IInv
  OBVIOUS
<1>1. CacheInv /\ DataInv
  BY InitCacheEstablishes, InitData DEF Init
<1>2. SourcesListed
  <2>1. scan = NoScan /\ "sources" \in DOMAIN NoScan /\ NoScan.sources = <<>>
    BY DEF Init, NoScan
  <2>2. IsList(<<>>)
    BY DEF IsList
  <2>. QED
    BY <2>1, <2>2 DEF SourcesListed
<1>3. \A g \in Getter : get[g] = NoGet /\ look[g] = NoLook
  BY ReadsAssumption DEF Init, InitCache
<1>4. NoGet.at = "idle" /\ DOMAIN NoGet = {"at", "key", "files", "value"} /\ NoLook.at = "none"
  BY DEF NoGet, NoLook
<1>5. GetsOnCourse
  BY <1>3, <1>4 DEF GetsOnCourse, Init
<1>6. GetAnswers
  BY <1>3, <1>4 DEF GetAnswers
<1>. QED
  BY <1>1, <1>2, <1>5, <1>6 DEF IInv

LEMMA NextPreserves ==
  ASSUME IInv, [Next]_vars
  PROVE  IInv'
<1>. USE DEF IInv
<1>1. /\ DOMAIN look = Reader /\ Getter \subseteq Reader /\ Scanner \in Reader
      /\ Scanner \notin Getter /\ GetsInv
      /\ \A r \in Reader : {"at", "table", "handle"} \subseteq DOMAIN look[r]
  BY ReadsAssumption DEF CacheInv, CacheTyped, GetsInv
<1>. USE DEF GetsInv
<1>2. ASSUME UNCHANGED <<cacheVars, get, scan, erred, wanted>>, DataInv',
             \/ UNCHANGED tables \/ InstallFlush
             \/ \E i \in 1..(Len(version) - 1) : Compact(i)
      PROVE  IInv'
  <2>1. GetsInv'
    BY <1>1, <1>2, TablesGrow, GetsStay DEF cacheVars
  <2>. QED
    BY <1>2, <2>1, CacheStays DEF SourcesListed
<1>3. CASE \E u \in Updates : Write(u[1], u[2])
  <2>1. PICK u \in Updates : Write(u[1], u[2])
    BY <1>3
  <2>2. u[1] \in Key /\ u[2] \in BOOLEAN
    BY ReadsAssumption
  <2>3. DataInv' /\ UNCHANGED <<tables, cacheVars, get, scan, erred, wanted>>
    BY <2>1, <2>2, WritePreserves DEF Write
  <2>. QED
    BY <1>2, <2>3
<1>4. CASE SwitchMemtable
  BY <1>2, <1>4, SwitchMemtablePreserves DEF SwitchMemtable
<1>5. CASE InstallFlush
  BY <1>2, <1>5, InstallFlushPreserves DEF InstallFlush
<1>6. CASE DropImm
  BY <1>2, <1>6, DropImmPreserves DEF DropImm
<1>7. CASE \E i \in 1..(Len(version) - 1) : Compact(i)
  <2>1. UNCHANGED <<cacheVars, get, scan, erred, wanted>>
    BY <1>7 DEF Compact
  <2>. QED
    BY <1>2, <1>7, <2>1, CompactPreserves
<1>8. CASE Close
  <2>1. /\ Reset /\ UNCHANGED <<mems, imm, tables, version, flushed, lastSequence,
                               get, scan, erred, wanted, look>>
    BY <1>8 DEF Close, Reset
  <2>2. CacheInv' /\ DataInv'
    BY <2>1, ResetPreserves, DataStays
  <2>3. GetsInv'
    BY <1>1, <2>1, GetsStay
  <2>. QED
    BY <2>1, <2>2, <2>3 DEF SourcesListed
<1>9. ASSUME UNCHANGED dataVars PROVE DataInv'
  BY <1>9, DataStays DEF dataVars
<1>10. CASE \E g \in Getter : \E k \in Asked : GetCall(g, k)
  <2>1. PICK g \in Getter, k \in Key : GetCall(g, k)
    BY <1>10, ReadsAssumption
  <2>2. UNCHANGED <<dataVars, cacheVars, scan>>
    BY <2>1 DEF GetCall
  <2>. QED
    BY <1>1, <1>9, <2>1, <2>2, GetCallPreserves, CacheStays DEF SourcesListed
<1>11. CASE \E g \in Getter : GetStep(g)
  <2>1. PICK g \in Getter : GetFindTable(g) \/ SearchTable(g) \/ SearchFails(g)
    BY <1>11 DEF GetStep
  <2>2. UNCHANGED <<dataVars, scan>>
    BY <2>1 DEF GetFindTable, SearchTable, SearchFails
  <2>3. CASE GetFindTable(g)
    <3>1. CacheInv'
      BY <1>1, <2>3, FindTablePreserves DEF GetFindTable
    <3>. QED
      BY <1>1, <1>9, <2>2, <2>3, <3>1, GetFindTablePreserves DEF SourcesListed
  <2>4. CASE SearchTable(g) \/ SearchFails(g)
    <3>1. /\ look' = [look EXCEPT ![g] = NoLook] /\ UNCHANGED <<cache, opened, leaked>>
          /\ look[g].at # "reading"
      BY <2>4 DEF SearchTable, SearchFails
    <3>2. {"at", "table", "handle"} \subseteq DOMAIN NoLook /\ NoLook.at # "reading"
      BY DEF NoLook
    <3>3. CacheInv'
      BY <1>1, <3>1, <3>2, LookPreserves
    <3>. QED
      BY <1>1, <1>9, <2>2, <2>4, <3>3, SearchTablePreserves,
         SearchFailsPreserves DEF SourcesListed
  <2>. QED
    BY <2>1, <2>3, <2>4
<1>12. CASE \E back \in Backward, start \in Starts : ScanCall(back, start)
  <2>1. PICK back, start : ScanCall(back, start)
    BY <1>12
  <2>2. UNCHANGED <<dataVars, cacheVars, get, erred, wanted>>
    BY <2>1 DEF ScanCall
  <2>3. GetsInv'
    BY <1>1, <2>2, GetsStay DEF cacheVars, dataVars
  <2>. QED
    BY <1>9, <2>1, <2>2, <2>3, ScanCallPreserves, CacheStays
<1>13. ASSUME UNCHANGED <<dataVars, get, wanted>>, erred \subseteq erred', NEW r \in Reader,
              \A q \in Reader : q # r => look'[q] = look[q],
              r \in Getter => /\ look[r].at # "none" /\ look'[r].table = look[r].table
                              /\ look'[r].at = "error" => r \in erred'
       PROVE  DataInv' /\ GetsInv'
  BY <1>1, <1>9, <1>13, LookingOn DEF dataVars
<1>14. CASE ScanStep
  <2>1. CASE ScanFindTable
    <3>1. FindTable(Scanner, Head(scan.files)) /\ UNCHANGED <<dataVars, get, scan, erred, wanted>>
      BY <2>1 DEF ScanFindTable
    <3>2. \A q \in Reader : q # Scanner => look'[q] = look[q]
      BY <1>1, <3>1 DEF FindTable
    <3>3. CacheInv'
      BY <1>1, <3>1, FindTablePreserves
    <3>. QED
      BY <1>1, <1>13, <3>1, <3>2, <3>3 DEF SourcesListed
  <2>2. CASE AddTable
    <3>1. /\ look' = [look EXCEPT ![Scanner] = NoLook] /\ UNCHANGED <<cache, opened, leaked>>
          /\ look[Scanner].at # "reading" /\ UNCHANGED <<dataVars, get, erred, wanted>>
      BY <2>2 DEF AddTable
    <3>2. {"at", "table", "handle"} \subseteq DOMAIN NoLook /\ NoLook.at # "reading"
      BY DEF NoLook
    <3>3. CacheInv'
      BY <1>1, <3>1, <3>2, LookPreserves
    <3>4. \A q \in Reader : q # Scanner => look'[q] = look[q]
      BY <1>1, <3>1
    <3>. QED
      BY <1>1, <1>13, <2>2, <3>1, <3>3, <3>4, AddTablePreserves
  <2>3. CASE Pull
    <3>1. UNCHANGED <<dataVars, cacheVars, get, erred, wanted>>
      BY <2>3 DEF Pull
    <3>2. GetsInv'
      BY <1>1, <3>1, GetsStay DEF cacheVars, dataVars
    <3>. QED
      BY <1>9, <2>3, <3>1, <3>2, PullPreserves, CacheStays
  <2>. QED
    BY <1>14, <2>1, <2>2, <2>3 DEF ScanStep
<1>15. CASE \E r \in Reader : Open(r) \/ OpenError(r) \/ Cache(r)
  <2>1. PICK r \in Reader : Open(r) \/ OpenError(r) \/ Cache(r)
    BY <1>15
  <2>2. UNCHANGED <<dataVars, get, scan, wanted>> /\ erred \subseteq erred'
    BY <2>1 DEF Open, OpenError, Cache
  <2>3. /\ look[r].at \in {"opening", "reading"}
        /\ \E h : \/ look' = [look EXCEPT ![r].at = "reading", ![r].handle = h]
                  \/ look' = [look EXCEPT ![r].at = "error"] /\ r \in erred'
                  \/ look' = [look EXCEPT ![r].at = "found"]
    <3>1. CASE Open(r)
      <4>1. PICK h : look' = [look EXCEPT ![r].at = "reading", ![r].handle = h]
        BY <3>1 DEF Open, OpenFile
      <4>2. look[r].at = "opening"
        BY <3>1 DEF Open, OpenFile
      <4>. QED
        BY <4>1, <4>2
    <3>2. CASE OpenError(r)
      BY <3>2 DEF OpenError, OpenFails, OpenTableFails
    <3>3. CASE Cache(r)
      BY <3>3 DEF Cache, OpenTable
    <3>. QED
      BY <2>1, <3>1, <3>2, <3>3
  <2>4. /\ \A q \in Reader : q # r => look'[q] = look[q]
        /\ look'[r].table = look[r].table
        /\ look'[r].at = "error" => r \in erred'
    BY <1>1, <2>3
  <2>5. CacheInv'
    <3>1. CASE Open(r)
      BY <3>1, UsedFinite, OpenFilePreserves DEF Open
    <3>2. CASE OpenError(r)
      BY <3>2, OpenFailsPreserves, OpenTableFailsPreserves DEF OpenError
    <3>3. CASE Cache(r)
      BY <3>3, OpenTablePreserves DEF Cache
    <3>. QED
      BY <2>1, <3>1, <3>2, <3>3
  <2>. QED
    BY <1>13, <2>2, <2>3, <2>4, <2>5 DEF SourcesListed
<1>16. CASE UNCHANGED vars
  <2>1. UNCHANGED <<dataVars, cacheVars, get, scan, erred, wanted>>
    BY <1>16 DEF vars
  <2>2. UNCHANGED tables /\ DataInv'
    BY <1>9, <2>1 DEF dataVars
  <2>. QED
    BY <1>2, <2>1, <2>2
<1>. QED
  BY <1>3, <1>4, <1>5, <1>6, <1>7, <1>8, <1>10, <1>11, <1>12, <1>14, <1>15,
     <1>16 DEF Next

(* The inductive invariant holds in every reachable state.                 *)
THEOREM Invariance == Spec => []IInv
<1>1. Init => IInv
  BY InitEstablishes
<1>2. IInv /\ [Next]_vars => IInv'
  BY NextPreserves
<1>. QED
  BY <1>1, <1>2, PTL DEF Spec

(* Whoever opens, caches, drops and closes files at once: a cached table   *)
(* can be read, the cache keeps its bound, and no handle is lost but those *)
(* of tables that could not be read.                                       *)
THEOREM HandlesAreOwned == Spec => []HandlesOwned
<1>1. IInv => HandlesOwned
  BY DEF IInv, CacheInv
<1>. QED
  BY <1>1, Invariance, PTL

(* Whatever is written, switched, flushed, compacted, dropped or closed    *)
(* between the call of get and its answer, it answers what was stored when *)
(* it was called; unless a file operation of it failed.                    *)
THEOREM GetIsRight == Spec => []GetAnswers
<1>1. IInv => GetAnswers
  BY DEF IInv
<1>. QED
  BY <1>1, Invariance, PTL

-----------------------------------------------------------------------------
(* What the invariant says of the scan.                                    *)

(* The entries behind a source.                                            *)
Contents(src) == IF src.mem # 0 THEN mems[src.mem] ELSE tables[src.table]

SourceTyped(src) ==
  /\ DOMAIN src = {"mem", "table", "handle", "at", "cursor", "head"}
  /\ src.mem \in 0..mem /\ (src.mem = 0 => src.table \in 1..Len(tables))
  /\ src.at \in {"fresh", "running", "ended"}
  /\ src.head \subseteq Contents(src) /\ \A e, f \in src.head : e = f
  /\ src.head # {} => src.at = "running"

ScanTyped ==
  /\ DOMAIN scan = {"at", "back", "start", "files", "sources", "last", "out"}
  /\ scan.back \in BOOLEAN /\ scan.start \in Nat /\ scan.last \in Nat
  /\ IsList(scan.files) /\ \A j \in 1..Len(scan.files) : scan.files[j] \in 1..Len(tables)
  /\ IsList(scan.sources) /\ \A i \in 1..Len(scan.sources) : SourceTyped(scan.sources[i])
  /\ IsList(scan.out) /\ \A i \in 1..Len(scan.out) : scan.out[i] \in Entry
  /\ DOMAIN held = Key
  /\ scan.at = "open" => Empty(scan.sources) # {}

(* The findTable of the scan is about its first file.                      *)
ScanLooks ==
  /\ look[Scanner].at # "none" =>
       scan.at = "open" /\ scan.files # <<>> /\ look[Scanner].table = scan.files[1]
  /\ look[Scanner].at = "error" => Scanner \in erred

(* What has been yielded goes in the direction of the scan, up to its last *)
(* key.                                                                    *)
ScanOrdered ==
  /\ \A i \in 1..Len(scan.out) :
       IF scan.back THEN scan.last <= scan.out[i].key ELSE scan.out[i].key <= scan.last
  /\ \A i, j \in 1..Len(scan.out) : i < j =>
       IF scan.back THEN scan.out[j].key < scan.out[i].key
                    ELSE scan.out[i].key < scan.out[j].key

(* Where a source of a forward scan is, when the last key is last: it has  *)
(* gone by nothing that is beyond that key but its head.  A memtable has   *)
(* an entry between its cursor and the last key to be resumed at.          *)
SourceOnCourse(src, last) ==
  /\ src.cursor.key \in Nat /\ src.cursor.seq \in Nat
  /\ src.at = "fresh" => src.cursor.key = 0
  /\ \A e \in src.head : IF src.mem # 0 THEN Precedes(src.cursor, e) ELSE src.cursor = e
  /\ src.at = "running" /\ src.head = {} =>
       IF src.mem # 0
       THEN \E e \in mems[src.mem] : Precedes(src.cursor, e) /\ e.key <= last
       ELSE src.cursor.key <= last

(* The source has not gone by the entry w.                                 *)
NotPassed(src, w) == src.at # "ended" /\ \A h \in src.head : w = h \/ Precedes(h, w)

(* The scan has the entry behind one of its sources or files, and it is    *)
(* still to come.                                                          *)
Captured(sources, files, e) ==
  \/ \E i \in 1..Len(sources) : e \in Contents(sources[i])
  \/ \E j \in 1..Len(files) : e \in tables[files[j]]

ToCome(sources, files, w) ==
  \/ \E i \in 1..Len(sources) : w \in Contents(sources[i]) /\ NotPassed(sources[i], w)
  \/ \E j \in 1..Len(files) : w \in tables[files[j]]

(* Whatever the scan may yield of the key k, beyond its last key, is held  *)
(* for the key: because its absence is held, and every captured entry is;  *)
(* or because an entry of it is to come, and that one and the newer ones   *)
(* are held.                                                               *)
KeyOnCourse(sources, files, k) ==
  \/ /\ 0 \in held[k]
     /\ \A e \in Entry : Captured(sources, files, e) /\ e.key = k => Value({e}) \in held[k]
  \/ \E w \in Entry :
       /\ w.key = k /\ ToCome(sources, files, w)
       /\ \A e \in Entry : Captured(sources, files, e) /\ e.key = k /\ e.seq >= w.seq =>
            Value({e}) \in held[k]

Yields(out, k) == \E i \in 1..Len(out) : out[i].key = k

ScanOnCourse ==
  ~scan.back /\ Scanner \notin erred =>
    /\ \A i \in 1..Len(scan.out) : scan.out[i].seq \in held[scan.out[i].key]
    /\ scan.at = "open" =>
         /\ \A i \in 1..Len(scan.sources) : SourceOnCourse(scan.sources[i], scan.last)
         /\ \A k \in Key : k > scan.last => KeyOnCourse(scan.sources, scan.files, k)
    /\ scan.at \in {"open", "done"} =>
         \A k \in Key : scan.start < k /\ (scan.at = "open" => k <= scan.last) =>
           Yields(scan.out, k) \/ 0 \in held[k]

(* Every table ever written, whether a version still has it or not.        *)
TablesSound ==
  \A t \in 1..Len(tables) : Coherent(tables[t]) /\ \A e \in tables[t] : e.seq <= lastSequence

-----------------------------------------------------------------------------
(* The order of the entries.                                               *)

(* The entry e comes before f, or is of the same key and not older.        *)
NotAfter(e, f) == e.key < f.key \/ (e.key = f.key /\ e.seq >= f.seq)

(* In a set of entries with bounded numbers there is one that comes after  *)
(* none of the others.                                                     *)
LEMMA ForemostExists ==
  ASSUME NEW s \in SUBSET Entry, s # {}, NEW b \in Nat, \A e \in s : e.seq <= b
  PROVE  \E e \in s : \A f \in s : NotAfter(e, f)
<1>1. \A e \in s : e.key \in Nat /\ e.seq \in Nat
  BY EntryFields
<1>. DEFINE K == {e.key : e \in s}
<1>2. PICK k \in K : \A y \in K : k <= y
  <2>1. K \subseteq Nat /\ K # {}
    BY <1>1
  <2>. HIDE DEF K
  <2>. QED
    BY <2>1, LeastNumber
<1>. DEFINE of == {e \in s : e.key = k}
            N == {b - e.seq : e \in of}
<1>3. of # {}
  BY <1>2
<1>4. PICK n \in N : \A y \in N : n <= y
  <2>1. \A e \in of : e.seq \in Nat /\ e.seq <= b
    BY <1>1
  <2>. HIDE DEF of
  <2>2. N \subseteq Nat /\ N # {}
    BY <1>3, <2>1
  <2>. HIDE DEF N
  <2>. QED
    BY <2>2, LeastNumber
<1>5. PICK e \in of : n = b - e.seq
  BY <1>4
<1>6. ASSUME NEW f \in s PROVE NotAfter(e, f)
  <2>1. e.key = k /\ k <= f.key /\ k \in Nat /\ f.key \in Nat
    BY <1>1, <1>2, <1>5
  <2>2. ASSUME f.key = k PROVE e.seq >= f.seq
    <3>1. b - f.seq \in N
      BY <2>2
    <3>2. b - e.seq <= b - f.seq /\ e.seq \in Nat /\ f.seq \in Nat
      BY <1>1, <1>4, <1>5, <3>1
    <3>. QED
      BY <3>2
  <2>. QED
    BY <2>1, <2>2 DEF NotAfter
<1>. QED
  BY <1>5, <1>6

(* No two entries are ahead of each other.                                 *)
LEMMA AheadAsymmetric ==
  ASSUME NEW e \in Entry, NEW f \in Entry, NEW back \in BOOLEAN
  PROVE  ~(Ahead(e, f, back) /\ Ahead(f, e, back))
BY EntryFields DEF Ahead, Precedes

(* The first of a set is one entry, or none.                               *)
LEMMA FirstIsOne ==
  ASSUME NEW s \in SUBSET Entry, NEW back \in BOOLEAN
  PROVE  First(s, back) \subseteq s /\ \A e, f \in First(s, back) : e = f
<1>1. ASSUME NEW e \in First(s, back), NEW f \in First(s, back), e # f PROVE FALSE
  <2>1. e \in s /\ f \in s /\ Ahead(e, f, back) /\ Ahead(f, e, back)
    BY <1>1 DEF First
  <2>. QED
    BY <2>1, AheadAsymmetric
<1>. QED
  BY <1>1 DEF First

(* A coherent set that is not empty has a first entry, going forward.      *)
LEMMA FirstExists ==
  ASSUME NEW s, Coherent(s), NEW b \in Nat, \A e \in s : e.seq <= b, s # {}
  PROVE  \E e \in s : First(s, FALSE) = {e} /\ \A f \in s : f = e \/ Precedes(e, f)
<1>1. s \in SUBSET Entry
  BY DEF Coherent
<1>2. PICK e \in s : \A f \in s : NotAfter(e, f)
  BY <1>1, ForemostExists
<1>3. ASSUME NEW f \in s PROVE f = e \/ Precedes(e, f)
  <2>1. NotAfter(e, f) /\ e.seq \in Nat /\ f.seq \in Nat
    BY <1>1, <1>2, EntryFields
  <2>2. e.key = f.key /\ e.seq = f.seq => f = e
    BY DEF Coherent
  <2>. QED
    BY <2>1, <2>2 DEF NotAfter, Precedes
<1>4. e \in First(s, FALSE)
  BY <1>3 DEF First, Ahead
<1>5. First(s, FALSE) = {e}
  <2>1. \A x, y \in First(s, FALSE) : x = y
    BY <1>1, FirstIsOne
  <2>. QED
    BY <1>4, <2>1
<1>. QED
  BY <1>3, <1>5

(* What a source yields next.                                              *)
LEMMA BeyondIs ==
  ASSUME NEW s, Coherent(s), NEW b \in Nat, \A e \in s : e.seq <= b,
         NEW c, NEW back \in BOOLEAN
  PROVE  /\ Beyond(s, c, back) \subseteq s /\ \A e, f \in Beyond(s, c, back) : e = f
         /\ ~back => \A w \in s : Precedes(c, w) =>
              \E h \in s : /\ Beyond(s, c, back) = {h} /\ Precedes(c, h)
                           /\ w = h \/ Precedes(h, w)
<1>. DEFINE rest == {f \in s : Ahead(c, f, back)}
<1>1. rest \in SUBSET Entry /\ rest \subseteq s /\ Beyond(s, c, back) = First(rest, back)
  BY DEF Coherent, Beyond
<1>2. /\ Beyond(s, c, back) \subseteq s /\ \A e, f \in Beyond(s, c, back) : e = f
  <2>. HIDE DEF rest
  <2>. QED
    BY <1>1, FirstIsOne
<1>3. ASSUME ~back, NEW w \in s, Precedes(c, w)
      PROVE  \E h \in s : /\ Beyond(s, c, back) = {h} /\ Precedes(c, h)
                          /\ w = h \/ Precedes(h, w)
  <2>1. back = FALSE
    BY <1>3
  <2>2. w \in rest /\ \A f \in rest : Precedes(c, f)
    BY <1>3, <2>1 DEF Ahead
  <2>3. Coherent(rest) /\ \A e \in rest : e.seq <= b
    BY DEF Coherent
  <2>. HIDE DEF rest
  <2>4. PICK h \in rest : /\ First(rest, FALSE) = {h}
                          /\ \A f \in rest : f = h \/ Precedes(h, f)
    BY <2>2, <2>3, FirstExists
  <2>. QED
    BY <1>1, <2>1, <2>2, <2>4
<1>. QED
  BY <1>2, <1>3

(* What is behind a source is coherent.                                    *)
LEMMA ContentsSound ==
  ASSUME DataInv, TablesSound, NEW src, SourceTyped(src)
  PROVE  /\ Coherent(Contents(src)) /\ \A e \in Contents(src) : e.seq <= lastSequence
         /\ lastSequence \in Nat
<1>1. lastSequence \in Nat
  BY DEF DataInv, DataTyped
<1>2. CASE src.mem = 0
  BY <1>1, <1>2 DEF TablesSound, SourceTyped, Contents
<1>3. CASE src.mem # 0
  <2>1. src.mem \in 1..Len(mems)
    <3>1. mem \in Nat /\ mem = Len(mems)
      BY ListBasics DEF DataInv, DataTyped, mem
    <3>. QED
      BY <1>3, <3>1 DEF SourceTyped
  <2>2. mems[src.mem] \subseteq InMemtables
    BY <2>1, UnionOfList DEF DataInv, DataTyped, InMemtables
  <2>. QED
    BY <1>1, <1>3, <2>2 DEF DataInv, Numbering, All, Coherent, Contents
<1>. QED
  BY <1>2, <1>3

(* A source after next().                                                  *)
LEMMA PulledIs ==
  ASSUME NEW src, DOMAIN src = {"mem", "table", "handle", "at", "cursor", "head"},
         NEW p, p = Pulled(src), NEW next, next = Beyond(Contents(src), Resumed(src), scan.back)
  PROVE  /\ DOMAIN p = DOMAIN src /\ p.mem = src.mem /\ p.table = src.table
         /\ p.head = next /\ p.at = IF next = {} THEN "ended" ELSE "running"
         /\ p.cursor = IF (src.mem # 0 /\ ~scan.back) \/ next = {}
                       THEN Resumed(src) ELSE CHOOSE e \in next : TRUE
         /\ Contents(p) = Contents(src)
<1>1. p = [src EXCEPT !.at = IF next = {} THEN "ended" ELSE "running",
                      !.cursor = IF (src.mem # 0 /\ ~scan.back) \/ next = {}
                                 THEN Resumed(src) ELSE CHOOSE e \in next : TRUE,
                      !.head = next]
  BY DEF Pulled, Contents
<1>. QED
  BY <1>1 DEF Contents

(* It is still a source of the same entries, and it has one or it has      *)
(* ended.                                                                  *)
LEMMA PulledTyped ==
  ASSUME DataInv, TablesSound, scan.back \in BOOLEAN, NEW src, SourceTyped(src)
  PROVE  /\ SourceTyped(Pulled(src)) /\ Contents(Pulled(src)) = Contents(src)
         /\ Pulled(src).head = {} => Pulled(src).at = "ended"
<1>. DEFINE p == Pulled(src)
            next == Beyond(Contents(src), Resumed(src), scan.back)
<1>1. next \subseteq Contents(src) /\ \A e, f \in next : e = f
  BY ContentsSound, BeyondIs
<1>2. /\ DOMAIN p = DOMAIN src /\ p.mem = src.mem /\ p.table = src.table
      /\ p.head = next /\ p.at = IF next = {} THEN "ended" ELSE "running"
      /\ Contents(p) = Contents(src)
  BY PulledIs DEF SourceTyped
<1>. HIDE DEF p, next
<1>3. SourceTyped(p)
  BY <1>1, <1>2 DEF SourceTyped
<1>. QED
  BY <1>2, <1>3 DEF p

(* Going forward, it has what is next beyond the last key.                 *)
LEMMA PulledOnCourse ==
  ASSUME DataInv, TablesSound, scan.back = FALSE, NEW src, SourceTyped(src),
         NEW last \in Nat, SourceOnCourse(src, last), src.head = {}, src.at # "ended"
  PROVE  /\ SourceOnCourse(Pulled(src), last)
         /\ \A w \in Contents(src) : w.key > last => NotPassed(Pulled(src), w)
<1>. DEFINE p == Pulled(src)
            s == Contents(src)
            from == Resumed(src)
            next == Beyond(s, from, FALSE)
<1>1. Coherent(s) /\ lastSequence \in Nat /\ \A e \in s : e.seq <= lastSequence
  BY ContentsSound
<1>2. \A e \in s : e.key \in Nat /\ e.key # 0 /\ e.seq \in Nat
  BY <1>1, EntryFields DEF Coherent, Key
<1>3. src.at \in {"fresh", "running"} /\ src.cursor.key \in Nat /\ src.cursor.seq \in Nat
  BY DEF SourceTyped, SourceOnCourse
<1>4. /\ p.mem = src.mem /\ p.head = next /\ p.at = IF next = {} THEN "ended" ELSE "running"
      /\ p.cursor = IF src.mem # 0 \/ next = {} THEN from ELSE CHOOSE e \in next : TRUE
  <2>1. next = Beyond(Contents(src), Resumed(src), scan.back)
    OBVIOUS
  <2>2. DOMAIN src = {"mem", "table", "handle", "at", "cursor", "head"}
    BY DEF SourceTyped
  <2>. HIDE DEF next, from, s
  <2>3. p = Pulled(src)
    OBVIOUS
  <2>. HIDE DEF p
  <2>. QED
    BY <2>1, <2>2, <2>3, PulledIs DEF from
<1>. HIDE DEF p, s
<1>5. /\ from.key \in Nat /\ from.seq \in Nat
      /\ \A w \in s : w.key > last => Precedes(from, w)
  <2>1. CASE src.mem # 0 /\ src.at = "running"
    <3>1. PICK y \in s : Precedes(src.cursor, y) /\ y.key <= last
      BY <2>1 DEF SourceOnCourse, Contents, s
    <3>2. from = CHOOSE e \in Beyond(s, src.cursor, FALSE) : TRUE
      BY <2>1 DEF Resumed, Contents, s
    <3>3. PICK x \in s : /\ Beyond(s, src.cursor, FALSE) = {x}
                         /\ y = x \/ Precedes(x, y)
      <4>. DEFINE c == src.cursor
      <4>1. Precedes(c, y)
        BY <3>1
      <4>. HIDE DEF c
      <4>2. \E x \in s : Beyond(s, c, FALSE) = {x} /\ (y = x \/ Precedes(x, y))
        BY <1>1, <4>1, BeyondIs
      <4>. QED
        BY <4>2 DEF c
    <3>4. from = x
      BY <3>2, <3>3
    <3>5. x.key <= y.key
      BY <1>2, <3>3 DEF Precedes
    <3>. QED
      BY <1>2, <3>1, <3>4, <3>5 DEF Precedes
  <2>2. CASE ~(src.mem # 0 /\ src.at = "running")
    <3>1. from = src.cursor
      BY <2>2 DEF Resumed
    <3>2. src.cursor.key = 0 \/ src.cursor.key <= last
      BY <1>3, <2>2 DEF SourceOnCourse
    <3>. QED
      BY <1>2, <1>3, <3>1, <3>2 DEF Precedes
  <2>. QED
    BY <2>1, <2>2
<1>. HIDE DEF from
<1>6. next \subseteq s /\ \A e, f \in next : e = f
  BY <1>1, BeyondIs
<1>7. \A h \in next : Precedes(from, h)
  BY DEF Beyond, First, Ahead
<1>8. ASSUME NEW w \in s, w.key > last PROVE next # {} /\ \A h \in next : w = h \/ Precedes(h, w)
  <2>1. PICK h \in s : next = {h} /\ (w = h \/ Precedes(h, w))
    BY <1>1, <1>5, <1>8, BeyondIs
  <2>. QED
    BY <2>1
<1>. HIDE DEF next
<1>9. \A w \in s : w.key > last => NotPassed(p, w)
  BY <1>4, <1>8 DEF NotPassed
<1>10. SourceOnCourse(p, last)
  <2>1. p.cursor.key \in Nat /\ p.cursor.seq \in Nat
    <3>1. p.cursor = from \/ (next # {} /\ p.cursor = CHOOSE e \in next : TRUE)
      BY <1>4
    <3>2. next # {} => (CHOOSE e \in next : TRUE) \in s
      BY <1>6
    <3>. QED
      BY <1>2, <1>5, <3>1, <3>2
  <2>2. ASSUME NEW e \in p.head
        PROVE  IF p.mem # 0 THEN Precedes(p.cursor, e) ELSE p.cursor = e
    <3>1. e \in next /\ next # {}
      BY <1>4, <2>2
    <3>2. (CHOOSE h \in next : TRUE) = e
      BY <1>6, <3>1
    <3>. QED
      BY <1>4, <1>7, <3>1, <3>2
  <2>. QED
    BY <1>4, <2>1, <2>2 DEF SourceOnCourse
<1>. QED
  BY <1>9, <1>10 DEF p, s

(* The merger yields the foremost of the heads, and it is one.             *)
LEMMA HitIs ==
  ASSUME NEW n \in Nat, NEW s, Len(s) = n, NEW b \in Nat, scan.back \in BOOLEAN,
         \A i \in 1..n : /\ s[i].head \subseteq Entry
                         /\ \A e, f \in s[i].head : e = f /\ e.seq <= b
  PROVE  /\ \A i \in Hit(s) : i \in 1..n /\ s[i].head # {}
         /\ \A i, j \in Hit(s) : i = j
         /\ ~scan.back => \A i \in Hit(s) : \A e \in s[i].head :
              \A j \in 1..n : \A f \in s[j].head : NotAfter(e, f)
         /\ ~scan.back /\ Hit(s) = {} => \A i \in 1..n : s[i].head = {}
<1>1. \A i \in 1..n : \A e \in s[i].head : e \in Entry /\ e.key \in Nat /\ e.seq \in Nat
  BY EntryFields
<1>2. ASSUME NEW i \in Hit(s)
      PROVE  /\ i \in 1..n /\ s[i].head # {}
             /\ \A e \in s[i].head : \A j \in 1..n \ {i} : \A f \in s[j].head :
                  Ahead(e, f, scan.back) \/ (~Ahead(f, e, scan.back) /\ i < j)
  BY <1>2 DEF Hit
<1>3. ASSUME NEW i \in Hit(s), NEW j \in Hit(s), i # j PROVE FALSE
  <2>1. PICK e \in s[i].head, f \in s[j].head : TRUE
    BY <1>2
  <2>2. e \in Entry /\ f \in Entry /\ i \in 1..n /\ j \in 1..n
    BY <1>1, <1>2, <2>1
  <2>3. Ahead(e, f, scan.back) \/ (~Ahead(f, e, scan.back) /\ i < j)
    BY <1>2, <1>3, <2>2
  <2>4. Ahead(f, e, scan.back) \/ (~Ahead(e, f, scan.back) /\ j < i)
    BY <1>2, <1>3, <2>2
  <2>5. ~(Ahead(e, f, scan.back) /\ Ahead(f, e, scan.back))
    BY <2>2, AheadAsymmetric
  <2>. QED
    BY <2>2, <2>3, <2>4, <2>5
<1>4. ASSUME ~scan.back, NEW i \in Hit(s), NEW e \in s[i].head, NEW j \in 1..n, NEW f \in s[j].head
      PROVE  NotAfter(e, f)
  <2>1. CASE i = j
    <3>1. e = f /\ e.seq \in Nat
      BY <1>1, <1>2, <1>4, <2>1
    <3>. QED
      BY <3>1 DEF NotAfter
  <2>2. CASE i # j
    <3>1. Precedes(e, f) \/ ~Precedes(f, e)
      BY <1>2, <1>4, <2>2 DEF Ahead
    <3>2. e.key \in Nat /\ e.seq \in Nat /\ f.key \in Nat /\ f.seq \in Nat
      BY <1>1, <1>2, <1>4
    <3>. QED
      BY <3>1, <3>2 DEF Precedes, NotAfter
  <2>. QED
    BY <2>1, <2>2
<1>5. ASSUME ~scan.back, NEW m \in 1..n, s[m].head # {} PROVE Hit(s) # {}
  <2>. DEFINE heads == UNION {s[i].head : i \in 1..n}
  <2>1. heads \in SUBSET Entry /\ heads # {} /\ \A e \in heads : e.seq <= b
    BY <1>5
  <2>2. PICK e \in heads : \A f \in heads : NotAfter(e, f)
    <3>. HIDE DEF heads
    <3>. QED
      BY <2>1, ForemostExists
  <2>. DEFINE I == {i \in 1..n : \E h \in s[i].head : h.key = e.key /\ h.seq = e.seq}
  <2>3. I \subseteq Nat /\ I # {}
    BY <2>2
  <2>4. PICK i \in I : \A j \in I : i <= j
    <3>. HIDE DEF I
    <3>. QED
      BY <2>3, LeastNumber
  <2>5. PICK h \in s[i].head : h.key = e.key /\ h.seq = e.seq
    BY <2>4
  <2>6. ASSUME NEW j \in 1..n \ {i}, NEW f \in s[j].head
        PROVE  Ahead(h, f, scan.back) \/ (~Ahead(f, h, scan.back) /\ i < j)
    <3>1. NotAfter(e, f)
      BY <2>2, <2>6
    <3>2. h.key \in Nat /\ h.seq \in Nat /\ f.key \in Nat /\ f.seq \in Nat
      BY <1>1, <2>4, <2>5, <2>6
    <3>3. CASE f.key = e.key /\ f.seq = e.seq
      <4>1. j \in I
        BY <2>6, <3>3
      <4>2. i < j
        BY <2>4, <2>6, <4>1
      <4>3. ~Precedes(f, h)
        BY <2>5, <3>2, <3>3 DEF Precedes
      <4>. QED
        BY <1>5, <4>2, <4>3 DEF Ahead
    <3>4. CASE ~(f.key = e.key /\ f.seq = e.seq)
      <4>1. Precedes(h, f)
        BY <2>5, <3>1, <3>2, <3>4 DEF Precedes, NotAfter
      <4>. QED
        BY <1>5, <4>1 DEF Ahead
    <3>. QED
      BY <3>3, <3>4
  <2>7. i \in Hit(s)
    BY <2>4, <2>5, <2>6 DEF Hit
  <2>. QED
    BY <2>7
<1>. QED
  BY <1>2, <1>3, <1>4, <1>5

-----------------------------------------------------------------------------
(* The steps of the others leave the scan on its course: tables are only   *)
(* added, and what is added to a memtable that the scan goes through is    *)
(* held for its key.                                                       *)
Grown ==
  /\ \A t \in 1..Len(tables) : t \in 1..Len(tables') /\ tables'[t] = tables[t]
  /\ \A m \in 1..mem : m \in 1..mem' /\ mems[m] \subseteq mems'[m]
  /\ scan.at = "open" => \A m \in 1..mem : Captures(m) =>
       \A e \in mems'[m] \ mems[m] : Value({e}) \in held'[e.key]
  /\ DOMAIN held' = Key /\ \A k \in Key : held[k] \subseteq held'[k]
  /\ erred \subseteq erred' /\ UNCHANGED scan

(* A key that is on course stays so.                                       *)
LEMMA CourseStays ==
  ASSUME mem \in Nat, Grown, scan.at = "open", NEW s, NEW f, NEW k \in Key,
         s = scan.sources, \A i \in 1..Len(s) : SourceTyped(s[i]), \A j \in 1..Len(f) : f[j] \in 1..Len(tables),
         KeyOnCourse(s, f, k)
  PROVE  KeyOnCourse(s, f, k)'
<1>1. ASSUME NEW i \in 1..Len(s)
      PROVE  /\ Contents(s[i]) \subseteq Contents(s[i])'
             /\ \A e \in Contents(s[i])' : e \in Contents(s[i]) \/ Value({e}) \in held'[e.key]
  <2>1. SourceTyped(s[i])
    OBVIOUS
  <2>2. CASE s[i].mem = 0
    BY <2>1, <2>2 DEF SourceTyped, Contents, Grown
  <2>3. CASE s[i].mem # 0
    <3>1. s[i].mem \in 1..mem
      BY <2>1, <2>3 DEF SourceTyped
    <3>. QED
      BY <2>3, <3>1 DEF Contents, Grown, Captures
  <2>. QED
    BY <2>2, <2>3
<1>2. \A j \in 1..Len(f) : tables'[f[j]] = tables[f[j]]
  BY DEF Grown
<1>3. ASSUME NEW w, ToCome(s, f, w) PROVE ToCome(s, f, w)'
  BY <1>1, <1>2, <1>3 DEF ToCome, NotPassed
<1>4. ASSUME NEW e, Captured(s, f, e)'
      PROVE  Captured(s, f, e) \/ Value({e}) \in held'[e.key]
  BY <1>1, <1>2, <1>4 DEF Captured
<1>5. held[k] \subseteq held'[k]
  BY DEF Grown
<1>6. CASE /\ 0 \in held[k]
           /\ \A e \in Entry : Captured(s, f, e) /\ e.key = k => Value({e}) \in held[k]
  <2>1. ASSUME NEW e \in Entry, Captured(s, f, e)', e.key = k PROVE Value({e}) \in held'[k]
    BY <1>4, <1>5, <1>6, <2>1
  <2>. QED
    BY <1>5, <1>6, <2>1 DEF KeyOnCourse
<1>7. ASSUME NEW w \in Entry, w.key = k, ToCome(s, f, w),
             \A e \in Entry : Captured(s, f, e) /\ e.key = k /\ e.seq >= w.seq =>
               Value({e}) \in held[k]
      PROVE  KeyOnCourse(s, f, k)'
  <2>1. ASSUME NEW e \in Entry, Captured(s, f, e)', e.key = k, e.seq >= w.seq
        PROVE  Value({e}) \in held'[k]
    BY <1>4, <1>5, <1>7, <2>1
  <2>2. ToCome(s, f, w)'
    BY <1>3, <1>7
  <2>. QED
    BY <1>7, <2>1, <2>2 DEF KeyOnCourse
<1>. QED
  BY <1>6, <1>7 DEF KeyOnCourse

(* So is the whole scan.                                                   *)
LEMMA ScanStays ==
  ASSUME mem \in Nat, mem' \in Nat, Grown, ScanTyped, ScanOrdered, ScanOnCourse
  PROVE  ScanTyped' /\ ScanOrdered' /\ ScanOnCourse'
<1>1. UNCHANGED scan /\ DOMAIN held' = Key /\ \A k \in Key : held[k] \subseteq held'[k]
  BY DEF Grown
<1>2. ASSUME NEW i \in 1..Len(scan.sources)
      PROVE  SourceTyped(scan.sources[i])'
  <2>. DEFINE src == scan.sources[i]
  <2>1. SourceTyped(src) /\ src' = src
    BY <1>1 DEF ScanTyped
  <2>. HIDE DEF src
  <2>2. src.mem # 0 => src.mem \in 1..mem
    BY <2>1 DEF SourceTyped
  <2>3. src.mem \in 0..mem' /\ (src.mem = 0 => src.table \in 1..Len(tables'))
    BY <2>1, <2>2 DEF SourceTyped, Grown
  <2>4. Contents(src) \subseteq Contents(src)'
    BY <2>1, <2>2 DEF SourceTyped, Contents, Grown
  <2>5. SourceTyped(src)'
    BY <2>1, <2>3, <2>4 DEF SourceTyped
  <2>. QED
    BY <2>5 DEF src
<1>3. ScanTyped'
  <2>1. \A j \in 1..Len(scan.files) : scan.files[j] \in 1..Len(tables')
    BY DEF ScanTyped, Grown
  <2>2. Empty(scan.sources)' = Empty(scan.sources)
    BY <1>1 DEF Empty
  <2>. QED
    BY <1>1, <1>2, <2>1, <2>2 DEF ScanTyped
<1>4. ScanOrdered'
  BY <1>1 DEF ScanOrdered
<1>5. ScanOnCourse'
  <2>. SUFFICES ASSUME ~scan.back, Scanner \notin erred
                PROVE  /\ \A i \in 1..Len(scan.out) : scan.out[i].seq \in held'[scan.out[i].key]
                       /\ scan.at = "open" =>
                            /\ \A i \in 1..Len(scan.sources) :
                                 SourceOnCourse(scan.sources[i], scan.last)'
                            /\ \A k \in Key : k > scan.last =>
                                 KeyOnCourse(scan.sources, scan.files, k)'
                       /\ scan.at \in {"open", "done"} =>
                            \A k \in Key :
                              scan.start < k /\ (scan.at = "open" => k <= scan.last) =>
                                Yields(scan.out, k) \/ 0 \in held'[k]
    BY <1>1 DEF ScanOnCourse, Grown, Yields
  <2>1. \A i \in 1..Len(scan.out) : scan.out[i].seq \in held'[scan.out[i].key]
    <3>1. \A i \in 1..Len(scan.out) : scan.out[i].key \in Key
      BY EntryFields DEF ScanTyped
    <3>. QED
      BY <1>1, <3>1 DEF ScanOnCourse
  <2>2. ASSUME scan.at = "open", NEW i \in 1..Len(scan.sources)
        PROVE  SourceOnCourse(scan.sources[i], scan.last)'
    <3>. DEFINE src == scan.sources[i]
    <3>1. SourceTyped(src) /\ SourceOnCourse(src, scan.last) /\ src' = src
      BY <1>1, <2>2 DEF ScanTyped, ScanOnCourse
    <3>. HIDE DEF src
    <3>2. src.mem # 0 => mems[src.mem] \subseteq mems'[src.mem]
      BY <3>1 DEF SourceTyped, Grown
    <3>3. SourceOnCourse(src, scan.last)'
      BY <1>1, <3>1, <3>2 DEF SourceOnCourse
    <3>. QED
      BY <3>3 DEF src
  <2>3. ASSUME scan.at = "open", NEW k \in Key, k > scan.last
        PROVE  KeyOnCourse(scan.sources, scan.files, k)'
    <3>1. PICK s, f : s = scan.sources /\ f = scan.files
      OBVIOUS
    <3>2. KeyOnCourse(s, f, k)
      BY <2>3, <3>1 DEF ScanOnCourse
    <3>3. /\ \A i \in 1..Len(s) : SourceTyped(s[i])
          /\ \A j \in 1..Len(f) : f[j] \in 1..Len(tables)
      BY <3>1 DEF ScanTyped
    <3>4. KeyOnCourse(s, f, k)'
      BY <2>3, <3>1, <3>2, <3>3, CourseStays
    <3>5. s = scan.sources' /\ f = scan.files'
      BY <1>1, <3>1
    <3>. QED
      BY <3>4, <3>5
  <2>4. ASSUME scan.at \in {"open", "done"}, NEW k \in Key, scan.start < k,
               scan.at = "open" => k <= scan.last
        PROVE  Yields(scan.out, k) \/ 0 \in held'[k]
    BY <1>1, <2>4 DEF ScanOnCourse
  <2>. QED
    BY <2>1, <2>2, <2>3, <2>4
<1>. QED
  BY <1>3, <1>4, <1>5

-----------------------------------------------------------------------------
(* The call of the scan.                                                   *)
(* The sources of a call: the memtable, and the immutable one if there is  *)
(* one.                                                                    *)
LEMMA MemSourcesAre ==
  ASSUME NEW back, NEW s, s = MemSources(back)
  PROVE  /\ IsList(s) /\ 1 \in 1..Len(s) /\ (imm # 0 => 2 \in 1..Len(s))
         /\ \A i \in 1..Len(s) : i = 1 \/ (i = 2 /\ imm # 0)
         /\ s[1] = Source(mem, 0, 0, back) /\ (imm # 0 => s[2] = Source(imm, 0, 0, back))
<1>. DEFINE a == Source(mem, 0, 0, back)
            b == Source(imm, 0, 0, back)
<1>1. s = Prepend(a, IF imm = 0 THEN <<>> ELSE <<b>>)
  BY DEF MemSources, Prepend
<1>. HIDE DEF a, b
<1>2. PICK r : r = IF imm = 0 THEN <<>> ELSE <<b>>
  OBVIOUS
<1>3. /\ IsList(r) /\ Len(r) = IF imm = 0 THEN 0 ELSE 1
      /\ imm # 0 => r[1] = b
  <2>1. CASE imm = 0
    BY <1>2, <2>1 DEF IsList
  <2>2. CASE imm # 0
    <3>1. r = <<b>> /\ r = [i \in 1..1 |-> r[i]] /\ r[1] = b
      BY <1>2, <2>2
    <3>2. IsList(r) /\ Len(r) = 1
      BY <3>1, ListMade
    <3>. QED
      BY <2>2, <3>1, <3>2
  <2>. QED
    BY <2>1, <2>2
<1>4. s = Prepend(a, r)
  BY <1>1, <1>2
<1>5. /\ IsList(s) /\ Len(s) = Len(r) + 1 /\ s[1] = a
      /\ \A i \in 1..Len(r) : s[i + 1] = r[i]
  <2>1. IsList(r)
    BY <1>3
  <2>. QED
    BY <1>4, <2>1, PrependedList
<1>6. imm # 0 => s[2] = b
  <2>1. imm # 0 => 1 \in 1..Len(r) /\ 1 + 1 = 2
    BY <1>3
  <2>. QED
    BY <1>3, <1>5, <2>1
<1>7. Len(s) = IF imm = 0 THEN 1 ELSE 2
  BY <1>3, <1>5
<1>8. /\ 1 \in 1..Len(s) /\ (imm # 0 => 2 \in 1..Len(s))
      /\ \A i \in 1..Len(s) : i = 1 \/ (i = 2 /\ imm # 0)
  <2>. DEFINE n == Len(s)
  <2>1. n = IF imm = 0 THEN 1 ELSE 2
    BY <1>7
  <2>. HIDE DEF n
  <2>2. /\ 1 \in 1..n /\ (imm # 0 => 2 \in 1..n)
        /\ \A i \in 1..n : i = 1 \/ (i = 2 /\ imm # 0)
    BY <2>1
  <2>. QED
    BY <2>2 DEF n
<1>. QED
  BY <1>5, <1>6, <1>8 DEF a, b

(* A source that has not been pulled.                                      *)
LEMMA SourceIs ==
  ASSUME NEW m, NEW t, NEW h, NEW back, NEW src, src = Source(m, t, h, back)
  PROVE  /\ DOMAIN src = {"mem", "table", "handle", "at", "cursor", "head"}
         /\ src.mem = m /\ src.table = t /\ src.at = "fresh" /\ src.head = {}
         /\ Contents(src) = IF m # 0 THEN mems[m] ELSE tables[t]
         /\ ~back => src.cursor.key = 0 /\ src.cursor.seq = 0
BY DEF Source, Contents, Edge

(* A source that has not been pulled has all its entries to come.          *)
LEMMA FreshSource ==
  ASSUME NEW m, NEW t, NEW h, NEW back, NEW src, src = Source(m, t, h, back), mem \in Nat,
         IF m = 0 THEN t \in 1..Len(tables) ELSE m \in 1..mem
  PROVE  /\ SourceTyped(src) /\ src.head = {} /\ src.at # "ended"
         /\ ~back => \A last \in Nat : SourceOnCourse(src, last)
         /\ \A w \in Contents(src) : NotPassed(src, w)
<1>1. /\ DOMAIN src = {"mem", "table", "handle", "at", "cursor", "head"}
      /\ src.mem = m /\ src.table = t /\ src.at = "fresh" /\ src.head = {}
      /\ ~back => src.cursor.key = 0 /\ src.cursor.seq = 0
  BY SourceIs
<1>2. m \in 0..mem
  OBVIOUS
<1>. QED
  BY <1>1, <1>2 DEF SourceTyped, SourceOnCourse, NotPassed

(* What is stored under a key when the scan is called is to come, or there *)
(* is nothing of the key in what the scan captures.                        *)
LEMMA CallOnCourse ==
  ASSUME DataInv, NEW start \in Nat, NEW s, s = MemSources(FALSE),
         NEW f, f = At(version, {i \in 1..Len(version) : Relevant(version[i], start, FALSE)}),
         held' = [k \in Key |-> {Stored(k)}], UNCHANGED dataVars,
         NEW k \in Key, start < k
  PROVE  KeyOnCourse(s, f, k)'
<1>. DEFINE p == {i \in 1..Len(version) : Relevant(version[i], start, FALSE)}
<1>1. /\ mem \in Nat /\ mem \in 1..mem /\ (imm # 0 => imm \in 1..mem)
      /\ IsList(version) /\ \A i \in 1..Len(version) : version[i] \in 1..Len(tables)
  BY ListBasics DEF DataInv, DataTyped, mem
<1>2. /\ \A j \in 1..Len(f) : \E i \in 1..Len(version) : f[j] = version[i]
      /\ \A i \in p : \E j \in 1..Len(f) : f[j] = version[i]
  <2>1. p \in SUBSET (1..Len(version)) /\ f = At(version, p)
    OBVIOUS
  <2>. HIDE DEF p
  <2>2. /\ \A j \in 1..Len(At(version, p)) : \E i \in p : At(version, p)[j] = version[i]
        /\ \A i \in p : \E j \in 1..Len(At(version, p)) : At(version, p)[j] = version[i]
    BY <1>1, <2>1, AtLists
  <2>. QED
    BY <2>1, <2>2
<1>. HIDE DEF p
<1>3. /\ 1 \in 1..Len(s) /\ (imm # 0 => 2 \in 1..Len(s))
      /\ \A i \in 1..Len(s) : i = 1 \/ (i = 2 /\ imm # 0)
  BY MemSourcesAre
<1>4. /\ Contents(s[1]) = mems[mem] /\ \A w \in Contents(s[1]) : NotPassed(s[1], w)
      /\ imm # 0 => /\ Contents(s[2]) = mems[imm]
                    /\ \A w \in Contents(s[2]) : NotPassed(s[2], w)
  <2>1. mem # 0 /\ mem \in 1..mem /\ mem \in Nat /\ (imm # 0 => imm \in 1..mem)
    BY <1>1
  <2>2. PICK a, b : a = Source(mem, 0, 0, FALSE) /\ b = Source(imm, 0, 0, FALSE)
    OBVIOUS
  <2>3. s[1] = a /\ (imm # 0 => s[2] = b)
    BY <2>2, MemSourcesAre
  <2>4. Contents(a) = mems[mem] /\ (imm # 0 => Contents(b) = mems[imm])
    <3>1. a.mem = mem /\ b.mem = imm
      BY <2>2 DEF Source
    <3>. QED
      BY <2>1, <3>1 DEF Contents
  <2>5. \A w \in Contents(a) : NotPassed(a, w)
    BY <2>1, <2>2, FreshSource
  <2>6. imm # 0 => \A w \in Contents(b) : NotPassed(b, w)
    BY <2>1, <2>2, FreshSource
  <2>. QED
    BY <2>3, <2>4, <2>5, <2>6
<1>5. ASSUME NEW e, Captured(s, f, e) PROVE e \in Live
  <2>1. ASSUME NEW i \in 1..Len(s), e \in Contents(s[i]) PROVE e \in Live
    <3>1. i = 1 \/ (i = 2 /\ imm # 0)
      BY <1>3, <2>1
    <3>. QED
      BY <1>4, <2>1, <3>1 DEF Live
  <2>2. ASSUME NEW j \in 1..Len(f), e \in tables[f[j]] PROVE e \in Live
    <3>1. PICK i \in 1..Len(version) : f[j] = version[i]
      BY <1>2
    <3>2. e \in InTables
      BY <2>2, <3>1 DEF InTables
    <3>. QED
      BY <3>2 DEF Live
  <2>. QED
    BY <1>5, <2>1, <2>2 DEF Captured
<1>6. ASSUME NEW w \in Live, w.key = k PROVE ToCome(s, f, w)
  <2>1. CASE w \in mems[mem]
    <3>1. 1 \in 1..Len(s)
      BY <1>3
    <3>. QED
      BY <1>4, <2>1, <3>1 DEF ToCome
  <2>2. CASE imm # 0 /\ w \in mems[imm]
    <3>1. 2 \in 1..Len(s)
      BY <1>3, <2>2
    <3>. QED
      BY <1>4, <2>2, <3>1 DEF ToCome
  <2>3. CASE w \in InTables
    <3>1. PICK i \in 1..Len(version) : w \in tables[version[i]]
      BY <2>3 DEF InTables
    <3>2. k <= Largest(version[i])
      BY <1>6, <3>1, KeysInRange
    <3>3. Largest(version[i]) \in Nat
      <4>. DEFINE S == {e.key : e \in tables[version[i]]}
      <4>1. \A e \in tables[version[i]] : e.key \in Key
        BY Parts, EntryFields DEF Coherent
      <4>2. S \subseteq Key /\ S \subseteq Nat /\ w.key \in S
        BY <3>1, <4>1 DEF Key
      <4>3. IsFiniteSet(Key)
        BY ReadsAssumption, FS_Interval DEF Key
      <4>. HIDE DEF S
      <4>4. Max(S) \in S
        <5>1. IsFiniteSet(S)
          BY <4>2, <4>3, FS_Subset
        <5>. QED
          BY <4>2, <5>1, MaxOfFinite
      <4>. QED
        BY <4>2, <4>4 DEF S, Largest
    <3>4. i \in p
      <4>1. k \in Nat
        BY DEF Key
      <4>. QED
        BY <3>2, <3>3, <4>1 DEF Relevant, p
    <3>. QED
      BY <1>2, <3>1, <3>4 DEF ToCome
  <2>. QED
    BY <1>6, <2>1, <2>2, <2>3 DEF Live
<1>7. held'[k] = {Value(Newest(Live, k))}
  BY StoredIsLive
<1>8. Coherent(Live) /\ lastSequence \in Nat /\ \A e \in Live : e.seq <= lastSequence
  BY Parts
<1>9. KeyOnCourse(s, f, k)' <=>
        \/ /\ 0 \in held'[k]
           /\ \A e \in Entry : Captured(s, f, e) /\ e.key = k => Value({e}) \in held'[k]
        \/ \E w \in Entry :
             /\ w.key = k /\ ToCome(s, f, w)
             /\ \A e \in Entry : Captured(s, f, e) /\ e.key = k /\ e.seq >= w.seq =>
                  Value({e}) \in held'[k]
  <2>1. \A i \in 1..Len(s) : Contents(s[i])' = Contents(s[i])
    BY DEF Contents, dataVars
  <2>2. \A e : Captured(s, f, e)' <=> Captured(s, f, e)
    BY <2>1 DEF Captured, dataVars
  <2>3. \A w : ToCome(s, f, w)' <=> ToCome(s, f, w)
    BY <2>1 DEF ToCome, NotPassed, dataVars
  <2>. QED
    BY <2>2, <2>3 DEF KeyOnCourse
<1>10. CASE Newest(Live, k) = {}
  <2>1. \A e \in Live : e.key # k
    BY <1>8, <1>10, NoneOfKey
  <2>2. 0 \in held'[k]
    BY <1>7, <1>10, ValueIs
  <2>. QED
    BY <1>5, <1>9, <2>1, <2>2
<1>11. CASE Newest(Live, k) # {}
  <2>1. PICK x \in Newest(Live, k) : TRUE
    BY <1>11
  <2>2. x \in Live /\ x.key = k
    BY <1>8, <2>1, NewestIs
  <2>3. PICK w \in Live : w.key = k /\ Newest(Live, k) = {w}
    BY <1>8, <2>2, NewestExists
  <2>4. w \in Entry /\ ToCome(s, f, w)
    BY <1>6, <1>8, <2>3 DEF Coherent
  <2>5. ASSUME NEW e \in Entry, Captured(s, f, e), e.key = k, e.seq >= w.seq
        PROVE  Value({e}) \in held'[k]
    <3>1. e \in Live
      BY <1>5, <2>5
    <3>2. e.seq <= w.seq /\ e.seq \in Nat /\ w.seq \in Nat
      BY <1>8, <2>3, <2>4, <2>5, <3>1, NewestIs, EntryFields
    <3>3. e = w
      BY <1>8, <2>3, <2>5, <3>1, <3>2 DEF Coherent
    <3>. QED
      BY <1>7, <2>3, <3>3
  <2>. QED
    BY <1>9, <2>3, <2>4, <2>5
<1>. QED
  BY <1>10, <1>11

(* A scan starts on its course.                                            *)
LEMMA CallStarts ==
  ASSUME DataInv, ScanTyped, ScanLooks, NEW back \in Backward, NEW start \in Starts,
         ScanCall(back, start)
  PROVE  ScanTyped' /\ ScanLooks' /\ ScanOrdered' /\ ScanOnCourse'
<1>1. PICK s, f : s = MemSources(back)
        /\ f = At(version, {i \in 1..Len(version) : Relevant(version[i], start, back)})
  OBVIOUS
<1>2. /\ DOMAIN scan' = {"at", "back", "start", "files", "sources", "last", "out"}
      /\ scan.at = "idle" /\ scan'.at = "open" /\ scan'.back = back /\ scan'.start = start
      /\ scan'.files = f /\ scan'.sources = s /\ scan'.out = <<>>
      /\ scan'.last = IF back THEN MaxKey + 1 ELSE start
      /\ held' = [k \in Key |-> {Stored(k)}]
      /\ UNCHANGED <<dataVars, cacheVars, get, erred, wanted>>
  BY <1>1 DEF ScanCall
<1>3. back \in BOOLEAN /\ start \in Nat /\ MaxKey \in Nat
  BY ReadsAssumption
<1>4. /\ mem \in Nat /\ mem \in 1..mem /\ (imm # 0 => imm \in 1..mem)
      /\ IsList(version) /\ \A i \in 1..Len(version) : version[i] \in 1..Len(tables)
  BY ListBasics DEF DataInv, DataTyped, mem
<1>5. IsList(f) /\ \A j \in 1..Len(f) : f[j] \in 1..Len(tables)
  <2>. DEFINE p == {i \in 1..Len(version) : Relevant(version[i], start, back)}
  <2>1. p \in SUBSET (1..Len(version)) /\ f = At(version, p)
    BY <1>1
  <2>. HIDE DEF p
  <2>2. IsList(At(version, p))
    BY <1>4, <2>1, AtLists
  <2>3. ASSUME NEW j \in 1..Len(At(version, p)) PROVE At(version, p)[j] \in 1..Len(tables)
    <3>1. PICK i \in p : At(version, p)[j] = version[i]
      BY <1>4, <2>1, AtLists
    <3>. QED
      BY <1>4, <2>1, <3>1
  <2>. QED
    BY <2>1, <2>2, <2>3
<1>6. /\ IsList(s) /\ 1 \in 1..Len(s)
      /\ \A i \in 1..Len(s) : /\ SourceTyped(s[i]) /\ s[i].head = {} /\ s[i].at # "ended"
                              /\ ~back => \A last \in Nat : SourceOnCourse(s[i], last)
  <2>1. /\ IsList(s) /\ 1 \in 1..Len(s)
        /\ \A i \in 1..Len(s) : i = 1 \/ (i = 2 /\ imm # 0)
    BY <1>1, MemSourcesAre
  <2>2. PICK a, b : a = Source(mem, 0, 0, back) /\ b = Source(imm, 0, 0, back)
    OBVIOUS
  <2>3. s[1] = a /\ (imm # 0 => s[2] = b)
    BY <1>1, <2>2, MemSourcesAre
  <2>4. /\ SourceTyped(a) /\ a.head = {} /\ a.at # "ended"
        /\ ~back => \A last \in Nat : SourceOnCourse(a, last)
    <3>1. mem # 0
      BY <1>4
    <3>. QED
      BY <1>4, <2>2, <3>1, FreshSource
  <2>5. imm # 0 => /\ SourceTyped(b) /\ b.head = {} /\ b.at # "ended"
                   /\ ~back => \A last \in Nat : SourceOnCourse(b, last)
    BY <1>4, <2>2, FreshSource
  <2>. QED
    BY <2>1, <2>3, <2>4, <2>5
<1>7. UNCHANGED <<mem, mems, tables, version, imm, look, erred>>
  BY <1>2 DEF mem, dataVars, cacheVars
<1>8. /\ \A i \in 1..Len(s) : SourceTyped(s[i])'
      /\ ~back => \A i \in 1..Len(s) : SourceOnCourse(s[i], start)'
  <2>1. ASSUME NEW i \in 1..Len(s) PROVE SourceTyped(s[i])'
    BY <1>6, <1>7 DEF SourceTyped, Contents
  <2>2. ASSUME ~back, NEW i \in 1..Len(s) PROVE SourceOnCourse(s[i], start)'
    BY <1>3, <1>6, <1>7, <2>2 DEF SourceOnCourse
  <2>. QED
    BY <2>1, <2>2
<1>9. IsList(<<>>) /\ Len(<<>>) = 0
  BY DEF IsList
<1>10. ScanTyped'
  <2>1. 1 \in Empty(s)
    BY <1>6 DEF Empty
  <2>2. Empty(scan.sources)' = Empty(s)
    BY <1>2 DEF Empty
  <2>3. scan'.last \in Nat /\ scan'.start \in Nat /\ scan'.back \in BOOLEAN
    BY <1>2, <1>3
  <2>4. \A i \in 1..Len(scan'.out) : scan'.out[i] \in Entry
    BY <1>2, <1>9
  <2>5. IsList(scan'.out) /\ DOMAIN held' = Key
    BY <1>2, <1>9
  <2>6. IsList(scan'.sources) /\ \A i \in 1..Len(scan'.sources) : SourceTyped(scan.sources[i])'
    BY <1>2, <1>6, <1>8
  <2>7. IsList(scan'.files) /\ \A j \in 1..Len(scan'.files) : scan'.files[j] \in 1..Len(tables')
    BY <1>2, <1>5, <1>7
  <2>. QED
    BY <1>2, <2>1, <2>2, <2>3, <2>4, <2>5, <2>6, <2>7 DEF ScanTyped
<1>11. ScanLooks'
  BY <1>2, <1>7 DEF ScanLooks
<1>12. ScanOrdered'
  BY <1>2, <1>9 DEF ScanOrdered
<1>13. ScanOnCourse'
  <2>. SUFFICES ASSUME back = FALSE PROVE ScanOnCourse'
    BY <1>2, <1>3 DEF ScanOnCourse
  <2>1. \A k \in Key : k > start => KeyOnCourse(s, f, k)'
    <3>. TAKE k \in Key
    <3>1. k > start => start < k
      BY <1>3 DEF Key
    <3>2. UNCHANGED dataVars
      BY <1>2
    <3>3. /\ s = MemSources(FALSE)
          /\ f = At(version, {i \in 1..Len(version) : Relevant(version[i], start, FALSE)})
      BY <1>1
    <3>. QED
      BY <1>2, <1>3, <3>1, <3>2, <3>3, CallOnCourse
  <2>2. scan'.last = start /\ \A k \in Key : k \in Nat
    BY <1>2, <1>3 DEF Key
  <2>3. \A k \in Key : ~(start < k /\ k <= start)
    BY <1>3, <2>2
  <2>4. \A i \in 1..Len(scan'.sources) : SourceOnCourse(scan.sources[i], scan.last)'
    BY <1>2, <1>8, <2>2
  <2>5. \A k \in Key : k > scan'.last => KeyOnCourse(scan.sources, scan.files, k)'
    BY <1>2, <2>1, <2>2
  <2>6. \A i \in 1..Len(scan'.out) : scan'.out[i].seq \in held'[scan'.out[i].key]
    BY <1>2, <1>9
  <2>. QED
    BY <1>2, <2>2, <2>3, <2>4, <2>5, <2>6 DEF ScanOnCourse
<1>. QED
  BY <1>10, <1>11, <1>12, <1>13

-----------------------------------------------------------------------------
(* A file becomes a source, or is left out.                                *)
LEMMA AddTableOnCourse ==
  ASSUME CacheInv, DataInv, ScanTyped, ScanLooks, ScanOrdered, ScanOnCourse, AddTable
  PROVE  ScanTyped' /\ ScanLooks' /\ ScanOrdered' /\ ScanOnCourse'
<1>1. PICK s, f, l, x : /\ s = scan.sources /\ f = scan.files /\ l = look[Scanner]
                        /\ x = Source(0, l.table, l.handle, scan.back)
  OBVIOUS
<1>2. /\ l.at \in {"found", "error"}
      /\ scan' = [scan EXCEPT !.files = Tail(f),
                              !.sources = IF l.at = "found" THEN Append(s, x) ELSE s]
      /\ look' = [look EXCEPT ![Scanner] = NoLook]
      /\ UNCHANGED <<dataVars, cache, opened, leaked, get, erred, wanted, held>>
  BY <1>1 DEF AddTable
<1>3. /\ scan.at = "open" /\ f # <<>> /\ l.table = f[1] /\ (l.at = "error" => Scanner \in erred)
  BY <1>1, <1>2 DEF ScanLooks
<1>4. PICK t, u : t = Tail(f) /\ u = IF l.at = "found" THEN Append(s, x) ELSE s
  OBVIOUS
<1>5. /\ DOMAIN scan' = DOMAIN scan /\ scan'.files = t /\ scan'.sources = u
      /\ scan'.at = "open" /\ scan'.back = scan.back /\ scan'.start = scan.start
      /\ scan'.last = scan.last /\ scan'.out = scan.out
  BY <1>2, <1>3, <1>4 DEF ScanTyped
<1>6. UNCHANGED <<mem, mems, tables, erred, held>>
  BY <1>2 DEF mem, dataVars
<1>7. /\ IsList(s) /\ IsList(f)
      /\ \A i \in 1..Len(s) : SourceTyped(s[i])
      /\ \A j \in 1..Len(f) : f[j] \in 1..Len(tables)
  BY <1>1 DEF ScanTyped
<1>8. /\ IsList(t) /\ f[1] \in 1..Len(tables)
      /\ \A j \in 1..Len(t) : t[j] \in 1..Len(tables)
      /\ \A j \in 1..Len(t) : \E h \in 1..Len(f) : t[j] = f[h]
      /\ \A h \in 1..Len(f) : h = 1 \/ \E j \in 1..Len(t) : t[j] = f[h]
  <2>1. /\ 1 \in 1..Len(f) /\ IsList(t) /\ Len(t) = Len(f) - 1 /\ Len(f) \in Nat
        /\ \A i \in 1..Len(t) : i + 1 \in 1..Len(f) /\ t[i] = f[i + 1]
    BY <1>3, <1>4, <1>7, HeadAndTail
  <2>2. ASSUME NEW h \in 1..Len(f), h # 1 PROVE \E j \in 1..Len(t) : t[j] = f[h]
    <3>1. h - 1 \in 1..Len(t) /\ h - 1 + 1 = h
      BY <2>1, <2>2
    <3>. QED
      BY <2>1, <3>1
  <2>. QED
    BY <1>7, <2>1, <2>2
<1>9. mem \in Nat
  BY ListBasics DEF DataInv, DataTyped, mem
<1>10. /\ SourceTyped(x) /\ x.head = {} /\ x.at # "ended"
       /\ ~scan.back => \A last \in Nat : SourceOnCourse(x, last)
       /\ \A w \in Contents(x) : NotPassed(x, w)
       /\ Contents(x) = tables[f[1]]
  <2>1. x.mem = 0 /\ x.table = f[1]
    BY <1>1, <1>3 DEF Source
  <2>. QED
    BY <1>1, <1>3, <1>8, <1>9, <2>1, FreshSource DEF Contents
<1>11. /\ IsList(u)
       /\ \A i \in 1..Len(u) : (i \in 1..Len(s) /\ u[i] = s[i]) \/ (l.at = "found" /\ u[i] = x)
       /\ \A i \in 1..Len(s) : i \in 1..Len(u) /\ u[i] = s[i]
       /\ l.at = "found" => \E i \in 1..Len(u) : u[i] = x
  <2>1. CASE l.at # "found"
    BY <1>4, <1>7, <2>1
  <2>2. CASE l.at = "found"
    <3>1. u = Append(s, x)
      BY <1>4, <2>2
    <3>2. /\ IsList(u) /\ Len(u) = Len(s) + 1 /\ u[Len(s) + 1] = x
          /\ \A i \in 1..Len(s) : u[i] = s[i]
      BY <1>7, <3>1, AppendedList
    <3>3. Len(s) \in Nat
      BY <1>7, ListBasics
    <3>4. /\ \A i \in 1..Len(u) : i \in 1..Len(s) \/ i = Len(s) + 1
          /\ \A i \in 1..Len(s) : i \in 1..Len(u)
          /\ Len(s) + 1 \in 1..Len(u)
      BY <3>2, <3>3
    <3>. QED
      BY <2>2, <3>2, <3>4
  <2>. QED
    BY <2>1, <2>2
<1>12. ScanTyped'
  <2>1. \A i \in 1..Len(u) : SourceTyped(u[i])
    BY <1>7, <1>10, <1>11
  <2>2. \A i \in 1..Len(u) : SourceTyped(u[i])'
    BY <1>6, <2>1 DEF SourceTyped, Contents
  <2>3. Empty(s) # {} /\ Empty(s) \subseteq Empty(u) /\ Empty(scan.sources)' = Empty(u)
    BY <1>1, <1>3, <1>5, <1>11 DEF ScanTyped, Empty
  <2>4. \A i \in 1..Len(scan'.sources) : SourceTyped(scan.sources[i])'
    BY <1>5, <2>2
  <2>. QED
    BY <1>5, <1>6, <1>8, <1>11, <2>3, <2>4 DEF ScanTyped
<1>13. ScanLooks'
  <2>1. look'[Scanner].at = "none"
    BY <1>2, ReadsAssumption DEF CacheInv, CacheTyped, NoLook
  <2>. QED
    BY <2>1 DEF ScanLooks
<1>14. ScanOrdered'
  BY <1>5 DEF ScanOrdered
<1>15. ScanOnCourse'
  <2>. SUFFICES ASSUME ~scan.back, Scanner \notin erred PROVE ScanOnCourse'
    BY <1>5, <1>6 DEF ScanOnCourse
  <2>1. l.at = "found" /\ scan.last \in Nat
    BY <1>2, <1>3 DEF ScanTyped
  <2>2. \A i \in 1..Len(u) : SourceOnCourse(u[i], scan.last)
    BY <1>1, <1>3, <1>10, <1>11, <2>1 DEF ScanOnCourse
  <2>3. \A i \in 1..Len(u) : SourceOnCourse(u[i], scan.last)'
    BY <1>5, <1>6, <2>2 DEF SourceOnCourse
  <2>4. ASSUME NEW e, Captured(u, t, e) PROVE Captured(s, f, e)
    <3>1. ASSUME NEW i \in 1..Len(u), e \in Contents(u[i]) PROVE Captured(s, f, e)
      <4>1. CASE i \in 1..Len(s) /\ u[i] = s[i]
        BY <3>1, <4>1 DEF Captured
      <4>2. CASE u[i] = x
        <5>1. 1 \in 1..Len(f)
          BY <1>3, <1>7, HeadAndTail
        <5>. QED
          BY <1>10, <3>1, <4>2, <5>1 DEF Captured
      <4>. QED
        BY <1>11, <4>1, <4>2
    <3>2. ASSUME NEW j \in 1..Len(t), e \in tables[t[j]] PROVE Captured(s, f, e)
      <4>1. PICK h \in 1..Len(f) : t[j] = f[h]
        BY <1>8
      <4>. QED
        BY <3>2, <4>1 DEF Captured
    <3>. QED
      BY <2>4, <3>1, <3>2 DEF Captured
  <2>5. ASSUME NEW w, ToCome(s, f, w) PROVE ToCome(u, t, w)
    <3>1. ASSUME NEW i \in 1..Len(s), w \in Contents(s[i]), NotPassed(s[i], w)
          PROVE  ToCome(u, t, w)
      BY <1>11, <3>1 DEF ToCome
    <3>2. ASSUME NEW h \in 1..Len(f), w \in tables[f[h]] PROVE ToCome(u, t, w)
      <4>1. CASE h = 1
        BY <1>10, <1>11, <2>1, <3>2, <4>1 DEF ToCome
      <4>2. CASE h # 1
        <5>1. PICK j \in 1..Len(t) : t[j] = f[h]
          BY <1>8, <4>2
        <5>. QED
          BY <3>2, <5>1 DEF ToCome
      <4>. QED
        BY <4>1, <4>2
    <3>. QED
      BY <2>5, <3>1, <3>2 DEF ToCome
  <2>6. \A k \in Key : k > scan.last => KeyOnCourse(s, f, k)
    BY <1>1, <1>3 DEF ScanOnCourse
  <2>7. \A k \in Key : k > scan.last => KeyOnCourse(u, t, k)
    BY <2>4, <2>5, <2>6 DEF KeyOnCourse
  <2>8. \A i \in 1..Len(u) : Contents(u[i])' = Contents(u[i])
    BY <1>6 DEF Contents
  <2>9. \A k \in Key : k > scan.last => KeyOnCourse(u, t, k)'
    <3>1. \A e : Captured(u, t, e)' <=> Captured(u, t, e)
      BY <1>6, <2>8 DEF Captured
    <3>2. \A w : ToCome(u, t, w)' <=> ToCome(u, t, w)
      BY <1>6, <2>8 DEF ToCome, NotPassed
    <3>. QED
      BY <1>6, <2>7, <3>1, <3>2 DEF KeyOnCourse
  <2>10. \A k \in Key : k > scan'.last => KeyOnCourse(scan.sources, scan.files, k)'
    BY <1>5, <2>9
  <2>11. \A i \in 1..Len(scan'.sources) : SourceOnCourse(scan.sources[i], scan.last)'
    BY <1>5, <2>3
  <2>. QED
    BY <1>3, <1>5, <1>6, <2>10, <2>11 DEF ScanOnCourse
<1>. QED
  BY <1>12, <1>13, <1>14, <1>15

-----------------------------------------------------------------------------
(* The merger takes the next entry of a source, and yields the foremost.   *)
OnCourse(s, last) ==
  /\ \A j \in 1..Len(s) : SourceOnCourse(s[j], last)
  /\ \A k \in Key : k > last => KeyOnCourse(s, <<>>, k)

(* After next() on a source, nothing beyond the last key has been gone by, *)
(* and the same entries are behind the sources.                            *)
LEMMA PullTakes ==
  ASSUME DataInv, TablesSound, ScanTyped, ScanOnCourse, scan.at = "open", scan.files = <<>>,
         NEW s, s = scan.sources, NEW i, i = Min(Empty(s)),
         NEW m, m = [s EXCEPT ![i] = Pulled(s[i])]
  PROVE  /\ IsList(m) /\ Len(m) = Len(s) /\ i \in 1..Len(s) /\ m[i] = Pulled(s[i])
         /\ \A j \in 1..Len(m) : SourceTyped(m[j])
         /\ ~scan.back /\ Scanner \notin erred => OnCourse(m, scan.last)
<1>1. /\ IsList(s) /\ Len(s) \in Nat /\ DOMAIN s = 1..Len(s)
      /\ \A j \in 1..Len(s) : SourceTyped(s[j])
      /\ Empty(s) # {} /\ scan.back \in BOOLEAN /\ scan.last \in Nat
  BY ListBasics DEF ScanTyped
<1>2. i \in 1..Len(s) /\ s[i].head = {} /\ s[i].at # "ended"
  <2>1. Empty(s) \subseteq Nat /\ Empty(s) # {}
    BY <1>1 DEF Empty
  <2>2. i \in Empty(s)
    BY <2>1, MinOfSome
  <2>. QED
    BY <2>2 DEF Empty
<1>3. /\ m = [j \in 1..Len(s) |-> m[j]] /\ m[i] = Pulled(s[i])
      /\ \A j \in 1..Len(s) : j # i => m[j] = s[j]
  BY <1>1, <1>2
<1>4. IsList(m) /\ Len(m) = Len(s)
  BY <1>1, <1>3, ListMade
<1>5. \A j \in 1..Len(s) : SourceTyped(m[j]) /\ Contents(m[j]) = Contents(s[j])
  <2>1. SourceTyped(Pulled(s[i])) /\ Contents(Pulled(s[i])) = Contents(s[i])
    BY <1>1, <1>2, PulledTyped
  <2>. QED
    BY <1>1, <1>3, <2>1
<1>6. ASSUME ~scan.back, Scanner \notin erred PROVE OnCourse(m, scan.last)
  <2>1. /\ \A j \in 1..Len(s) : SourceOnCourse(s[j], scan.last)
        /\ \A k \in Key : k > scan.last => KeyOnCourse(s, <<>>, k)
    BY <1>6 DEF ScanOnCourse
  <2>2. /\ SourceOnCourse(m[i], scan.last)
        /\ \A w \in Contents(s[i]) : w.key > scan.last => NotPassed(m[i], w)
    <3>1. scan.back = FALSE /\ SourceTyped(s[i]) /\ SourceOnCourse(s[i], scan.last)
      BY <1>1, <1>2, <1>6, <2>1
    <3>. QED
      BY <1>1, <1>2, <1>3, <3>1, PulledOnCourse
  <2>3. \A j \in 1..Len(m) : SourceOnCourse(m[j], scan.last)
    BY <1>3, <1>4, <2>1, <2>2
  <2>4. \A e : Captured(m, <<>>, e) <=> Captured(s, <<>>, e)
    BY <1>4, <1>5 DEF Captured
  <2>5. ASSUME NEW w, w.key > scan.last, ToCome(s, <<>>, w) PROVE ToCome(m, <<>>, w)
    <3>1. ASSUME NEW j \in 1..Len(s), w \in Contents(s[j]), NotPassed(s[j], w)
          PROVE  ToCome(m, <<>>, w)
      <4>1. NotPassed(m[j], w)
        BY <1>3, <2>2, <2>5, <3>1
      <4>. QED
        BY <1>4, <1>5, <3>1, <4>1 DEF ToCome
    <3>. QED
      BY <2>5, <3>1 DEF ToCome
  <2>6. ASSUME NEW k \in Key, k > scan.last PROVE KeyOnCourse(m, <<>>, k)
    <3>1. KeyOnCourse(s, <<>>, k)
      BY <2>1, <2>6
    <3>2. \A w : w.key = k /\ ToCome(s, <<>>, w) => ToCome(m, <<>>, w)
      BY <2>5, <2>6
    <3>. QED
      BY <2>4, <3>1, <3>2 DEF KeyOnCourse
  <2>. QED
    BY <2>3, <2>6 DEF OnCourse
<1>. QED
  BY <1>2, <1>3, <1>4, <1>5, <1>6

(* When all sources have ended, nothing is to come.                        *)
LEMMA NothingToCome ==
  ASSUME NEW m, Empty(m) = {}, \A j \in 1..Len(m) : m[j].head = {},
         NEW k \in Key, KeyOnCourse(m, <<>>, k)
  PROVE  0 \in held[k]
<1>1. \A j \in 1..Len(m) : m[j].at = "ended"
  BY DEF Empty
<1>2. \A w : ~ToCome(m, <<>>, w)
  <2>1. \A j \in 1..Len(<<>>) : FALSE
    OBVIOUS
  <2>. QED
    BY <1>1, <2>1 DEF ToCome, NotPassed
<1>. QED
  BY <1>2 DEF KeyOnCourse

(* What the merger yields when every source has an entry or has ended.     *)
LEMMA TakenIsRight ==
  ASSUME NEW m, Empty(m) = {}, NEW j \in 1..Len(m), NEW e \in m[j].head,
         NEW last \in Nat, OnCourse(m, last), e.key > last,
         \A n \in 1..Len(m) : SourceTyped(m[n]) /\ m[n].head \subseteq Entry
                              /\ \A f \in m[n].head : NotAfter(e, f)
  PROVE  /\ Value({e}) \in held[e.key]
         /\ \A k \in Key : last < k /\ k < e.key => 0 \in held[k]
<1>1. e \in Entry /\ e.key \in Key /\ e.key \in Nat /\ e.seq \in Nat
  BY EntryFields
<1>2. Captured(m, <<>>, e)
  BY DEF Captured, SourceTyped
<1>3. ASSUME NEW w \in Entry, ToCome(m, <<>>, w)
      PROVE  e.key < w.key \/ (e.key = w.key /\ e.seq >= w.seq)
  <2>1. PICK n \in 1..Len(m) : NotPassed(m[n], w)
    <3>1. \A n \in 1..Len(<<>>) : FALSE
      OBVIOUS
    <3>. QED
      BY <1>3, <3>1 DEF ToCome
  <2>2. m[n].head # {}
    BY <2>1 DEF NotPassed, Empty
  <2>3. PICK h \in m[n].head : w = h \/ Precedes(h, w)
    BY <2>1, <2>2 DEF NotPassed
  <2>4. NotAfter(e, h) /\ h \in Entry
    OBVIOUS
  <2>5. /\ h.key \in Nat /\ h.seq \in Nat /\ w.key \in Nat /\ w.seq \in Nat
    BY <2>4, EntryFields
  <2>. QED
    BY <1>1, <2>3, <2>4, <2>5 DEF NotAfter, Precedes
<1>4. Value({e}) \in held[e.key]
  <2>1. KeyOnCourse(m, <<>>, e.key)
    BY <1>1 DEF OnCourse
  <2>2. CASE \A f \in Entry : Captured(m, <<>>, f) /\ f.key = e.key => Value({f}) \in held[e.key]
    BY <1>1, <1>2, <2>2
  <2>3. CASE \E w \in Entry :
               /\ w.key = e.key /\ ToCome(m, <<>>, w)
               /\ \A f \in Entry : Captured(m, <<>>, f) /\ f.key = e.key /\ f.seq >= w.seq =>
                    Value({f}) \in held[e.key]
    <3>1. PICK w \in Entry :
               /\ w.key = e.key /\ ToCome(m, <<>>, w)
               /\ \A f \in Entry : Captured(m, <<>>, f) /\ f.key = e.key /\ f.seq >= w.seq =>
                    Value({f}) \in held[e.key]
      BY <2>3
    <3>2. e.seq >= w.seq
      BY <1>1, <1>3, <3>1
    <3>. QED
      BY <1>1, <1>2, <3>1, <3>2
  <2>. QED
    BY <2>1, <2>2, <2>3 DEF KeyOnCourse
<1>5. ASSUME NEW k \in Key, last < k, k < e.key PROVE 0 \in held[k]
  <2>1. k > last /\ k \in Nat
    BY <1>5 DEF Key
  <2>2. KeyOnCourse(m, <<>>, k)
    BY <2>1 DEF OnCourse
  <2>3. ASSUME NEW w \in Entry, w.key = k, ToCome(m, <<>>, w) PROVE FALSE
    BY <1>1, <1>3, <1>5, <2>1, <2>3
  <2>. QED
    BY <2>2, <2>3 DEF KeyOnCourse
<1>. QED
  BY <1>4, <1>5

(* The sources after the foremost entry has been yielded.                  *)
Cleared(m, j) == [n \in 1..Len(m) |-> IF n = j THEN [m[n] EXCEPT !.head = {}] ELSE m[n]]

(* What is beyond the entry that has been yielded is still to come.        *)
LEMMA ClearedOnCourse ==
  ASSUME NEW m, IsList(m), Empty(m) = {}, NEW j \in 1..Len(m), NEW e \in m[j].head,
         \A n \in 1..Len(m) : SourceTyped(m[n]), e \in Entry,
         NEW r, r = Cleared(m, j)
  PROVE  /\ IsList(r) /\ Empty(r) # {} /\ \A n \in 1..Len(r) : SourceTyped(r[n])
         /\ \A last \in Nat, next \in Nat :
              OnCourse(m, last) /\ last <= next /\ e.key <= next => OnCourse(r, next)
<1>1. Len(m) \in Nat
  BY ListBasics
<1>2. r = [n \in 1..Len(m) |-> r[n]] /\ \A n \in 1..Len(m) : n # j => r[n] = m[n]
  BY DEF Cleared
<1>3. IsList(r) /\ Len(r) = Len(m)
  BY <1>1, <1>2, ListMade
<1>4. SourceTyped(m[j]) /\ m[j].at = "running"
  BY DEF SourceTyped
<1>5. /\ DOMAIN r[j] = DOMAIN m[j] /\ r[j].head = {} /\ r[j].at = "running"
      /\ r[j].mem = m[j].mem /\ r[j].table = m[j].table /\ r[j].cursor = m[j].cursor
  <2>1. r[j] = [m[j] EXCEPT !.head = {}]
    BY DEF Cleared
  <2>. QED
    BY <1>4, <2>1 DEF SourceTyped
<1>6. Contents(r[j]) = Contents(m[j]) /\ SourceTyped(r[j])
  BY <1>4, <1>5 DEF SourceTyped, Contents
<1>7. \A n \in 1..Len(m) : SourceTyped(r[n]) /\ Contents(r[n]) = Contents(m[n])
  BY <1>2, <1>6
<1>8. j \in Empty(r)
  BY <1>3, <1>5 DEF Empty
<1>9. ASSUME NEW last \in Nat, NEW next \in Nat, OnCourse(m, last), last <= next, e.key <= next
      PROVE  OnCourse(r, next)
  <2>1. SourceOnCourse(r[j], next)
    <3>1. SourceOnCourse(m[j], last)
      BY <1>9 DEF OnCourse
    <3>2. e \in Contents(m[j])
      BY <1>4 DEF SourceTyped
    <3>3. IF m[j].mem # 0 THEN e \in mems[m[j].mem] /\ Precedes(m[j].cursor, e)
                          ELSE m[j].cursor = e
      BY <3>1, <3>2 DEF SourceOnCourse, Contents
    <3>. QED
      BY <1>5, <1>9, <3>1, <3>3 DEF SourceOnCourse
  <2>2. ASSUME NEW n \in 1..Len(m), n # j PROVE SourceOnCourse(r[n], next)
    <3>1. SourceOnCourse(m[n], last) /\ r[n] = m[n]
      BY <1>2, <1>9, <2>2 DEF OnCourse
    <3>2. m[n].head = {} => m[n].at = "ended"
      BY DEF Empty
    <3>. QED
      BY <3>1, <3>2 DEF SourceOnCourse
  <2>3. \A f : Captured(r, <<>>, f) <=> Captured(m, <<>>, f)
    BY <1>3, <1>7 DEF Captured
  <2>4. ASSUME NEW w, ToCome(m, <<>>, w) PROVE ToCome(r, <<>>, w)
    <3>1. PICK n \in 1..Len(m) : w \in Contents(m[n]) /\ NotPassed(m[n], w)
      <4>1. \A n \in 1..Len(<<>>) : FALSE
        OBVIOUS
      <4>. QED
        BY <2>4, <4>1 DEF ToCome
    <3>2. NotPassed(r[n], w)
      BY <1>2, <1>5, <3>1 DEF NotPassed
    <3>. QED
      BY <1>3, <1>7, <3>1, <3>2 DEF ToCome
  <2>5. \A k \in Key : k > next => KeyOnCourse(r, <<>>, k)
    <3>1. \A k \in Key : k > next => k > last
      BY <1>9 DEF Key
    <3>2. \A k \in Key : k > next => KeyOnCourse(m, <<>>, k)
      BY <1>9, <3>1 DEF OnCourse
    <3>. QED
      BY <2>3, <2>4, <3>2 DEF KeyOnCourse
  <2>. QED
    BY <1>3, <2>1, <2>2, <2>5 DEF OnCourse
<1>. QED
  BY <1>3, <1>7, <1>8, <1>9

(* What has been yielded is in order, up to the last key.                  *)
Ordered(back, last, out) ==
  /\ IsList(out) /\ \A i \in 1..Len(out) : out[i] \in Entry
  /\ \A i \in 1..Len(out) :
       IF back THEN last <= out[i].key ELSE out[i].key <= last
  /\ \A i, j \in 1..Len(out) : i < j =>
       IF back THEN out[j].key < out[i].key ELSE out[i].key < out[j].key

(* What a pull has to leave behind.                                        *)
LEMMA ScanGoesOn ==
  ASSUME ScanTyped, ScanLooks, scan.files = <<>>,
         UNCHANGED <<dataVars, cacheVars, erred, held>>,
         NEW a, NEW s, NEW last \in Nat, NEW out,
         DOMAIN scan' = DOMAIN scan, scan'.at = a, scan'.back = scan.back,
         scan'.start = scan.start, scan'.files = <<>>, scan'.sources = s,
         scan'.last = last, scan'.out = out,
         IsList(s), \A n \in 1..Len(s) : SourceTyped(s[n]), a = "open" => Empty(s) # {},
         Ordered(scan.back, last, out),
         ~scan.back /\ Scanner \notin erred =>
           /\ \A i \in 1..Len(out) : out[i].seq \in held[out[i].key]
           /\ a = "open" => OnCourse(s, last)
           /\ a \in {"open", "done"} =>
                \A k \in Key : scan.start < k /\ (a = "open" => k <= last) =>
                  Yields(out, k) \/ 0 \in held[k]
  PROVE  ScanTyped' /\ ScanLooks' /\ ScanOrdered' /\ ScanOnCourse'
<1>1. UNCHANGED <<mem, mems, tables, look, erred, held>>
  BY DEF mem, dataVars, cacheVars
<1>2. ScanTyped'
  <2>1. \A n \in 1..Len(s) : SourceTyped(s[n])'
    BY <1>1 DEF SourceTyped, Contents
  <2>2. \A n \in 1..Len(scan'.sources) : SourceTyped(scan.sources[n])'
    BY <2>1
  <2>3. Empty(scan.sources)' = Empty(s)
    BY DEF Empty
  <2>4. IsList(scan'.files) /\ \A j \in 1..Len(scan'.files) : scan'.files[j] \in 1..Len(tables')
    BY <1>1 DEF ScanTyped
  <2>. QED
    BY <1>1, <2>2, <2>3, <2>4 DEF ScanTyped, Ordered
<1>3. ScanLooks'
  BY <1>1 DEF ScanLooks
<1>4. ScanOrdered'
  BY DEF ScanOrdered, Ordered
<1>5. ScanOnCourse'
  <2>. SUFFICES ASSUME ~scan.back, Scanner \notin erred PROVE ScanOnCourse'
    BY <1>1 DEF ScanOnCourse
  <2>1. a = "open" => \A n \in 1..Len(s) : SourceOnCourse(s[n], last)'
    BY <1>1 DEF OnCourse, SourceOnCourse
  <2>2. ASSUME a = "open", NEW k \in Key, k > last PROVE KeyOnCourse(s, <<>>, k)'
    <3>1. \A n \in 1..Len(s) : Contents(s[n])' = Contents(s[n])
      BY <1>1 DEF Contents
    <3>2. \A e : Captured(s, <<>>, e)' <=> Captured(s, <<>>, e)
      BY <1>1, <3>1 DEF Captured
    <3>3. \A w : ToCome(s, <<>>, w)' <=> ToCome(s, <<>>, w)
      BY <1>1, <3>1 DEF ToCome, NotPassed
    <3>4. KeyOnCourse(s, <<>>, k)
      BY <2>2 DEF OnCourse
    <3>. QED
      BY <1>1, <3>2, <3>3, <3>4 DEF KeyOnCourse
  <2>3. /\ a = "open" => \A n \in 1..Len(scan'.sources) :
                           SourceOnCourse(scan.sources[n], scan.last)'
        /\ a = "open" => \A k \in Key : k > scan'.last =>
                           KeyOnCourse(scan.sources, scan.files, k)'
    BY <2>1, <2>2
  <2>4. a \in {"open", "done"} =>
          \A k \in Key : scan.start < k /\ (a = "open" => k <= last) =>
            Yields(out, k) \/ 0 \in held'[k]
    BY <1>1
  <2>. QED
    BY <1>1, <2>3, <2>4 DEF ScanOnCourse
<1>. QED
  BY <1>2, <1>3, <1>4, <1>5

(* The entry is beyond the last key: it is passed on.                      *)
Passes(back, last, e) == IF back THEN e.key < last ELSE e.key > last

(* What iterator() does with an entry.                                     *)
LEMMA TakenIs ==
  ASSUME NEW sc, {"last", "out"} \subseteq DOMAIN sc, NEW e, NEW t, t = Taken(sc, e)
  PROVE  /\ DOMAIN t = DOMAIN sc
         /\ \A x \in DOMAIN sc \ {"last", "out"} : t[x] = sc[x]
         /\ Passes(sc.back, sc.last, e) =>
              t.last = e.key /\ t.out = IF e.del THEN sc.out ELSE Append(sc.out, e)
         /\ ~Passes(sc.back, sc.last, e) => t = sc
<1>1. CASE Passes(sc.back, sc.last, e)
  <2>1. t = [sc EXCEPT !.last = e.key, !.out = IF e.del THEN @ ELSE Append(@, e)]
    BY <1>1 DEF Taken, Passes
  <2>. QED
    BY <1>1, <2>1
<1>2. CASE ~Passes(sc.back, sc.last, e)
  <2>1. t = sc
    BY <1>2 DEF Taken, Passes
  <2>. QED
    BY <1>2, <2>1
<1>. QED
  BY <1>1, <1>2

(* What is passed on comes after what has been yielded.                    *)
LEMMA OrderedWith ==
  ASSUME NEW out, NEW back, NEW last \in Nat, Ordered(back, last, out), NEW e \in Entry,
         Passes(back, last, e), NEW new, new = Append(out, e)
  PROVE  /\ Ordered(back, e.key, new) /\ Ordered(back, e.key, out)
         /\ \A i \in 1..Len(new) : new[i] = e \/ \E j \in 1..Len(out) : new[i] = out[j]
         /\ Yields(new, e.key) /\ \A k : Yields(out, k) => Yields(new, k)
<1>1. /\ IsList(new) /\ Len(new) = Len(out) + 1 /\ new[Len(out) + 1] = e
      /\ \A i \in 1..Len(out) : new[i] = out[i]
  BY AppendedList DEF Ordered
<1>2. Len(out) \in Nat /\ e.key \in Nat /\ \A i \in 1..Len(out) : out[i].key \in Nat
  BY ListBasics, EntryFields DEF Ordered
<1>3. /\ \A i \in 1..Len(new) : i \in 1..Len(out) \/ i = Len(out) + 1
      /\ \A i \in 1..Len(out) : i \in 1..Len(new)
      /\ Len(out) + 1 \in 1..Len(new)
  BY <1>1, <1>2
<1>4. \A i \in 1..Len(new) : new[i] = e \/ \E j \in 1..Len(out) : new[i] = out[j]
  BY <1>1, <1>3
<1>5. Yields(new, e.key) /\ \A k : Yields(out, k) => Yields(new, k)
  BY <1>1, <1>3 DEF Yields
<1>6. \A i \in 1..Len(out) : IF back THEN e.key < out[i].key ELSE out[i].key < e.key
  BY <1>2 DEF Ordered, Passes
<1>7. Ordered(back, e.key, out)
  BY <1>2, <1>6 DEF Ordered
<1>8. Ordered(back, e.key, new)
  <2>1. \A i \in 1..Len(new) : IF back THEN e.key <= new[i].key ELSE new[i].key <= e.key
    BY <1>1, <1>2, <1>3, <1>6
  <2>2. ASSUME NEW i \in 1..Len(new), NEW j \in 1..Len(new), i < j
        PROVE  IF back THEN new[j].key < new[i].key ELSE new[i].key < new[j].key
    <3>1. i \in 1..Len(out)
      BY <1>1, <1>2, <2>2
    <3>2. CASE j \in 1..Len(out)
      BY <1>1, <2>2, <3>1, <3>2 DEF Ordered
    <3>3. CASE j = Len(out) + 1
      BY <1>1, <1>6, <3>1, <3>3
    <3>. QED
      BY <1>3, <3>2, <3>3
  <2>3. \A i \in 1..Len(new) : new[i] \in Entry
    BY <1>4 DEF Ordered
  <2>. QED
    BY <1>1, <2>1, <2>2, <2>3 DEF Ordered
<1>. QED
  BY <1>4, <1>5, <1>7, <1>8

(* A pull keeps the scan on its course, whether it is rejected, goes on,   *)
(* ends or yields.                                                         *)
LEMMA PullOnCourse ==
  ASSUME DataInv, TablesSound, ScanTyped, ScanLooks, ScanOrdered, ScanOnCourse, Pull
  PROVE  ScanTyped' /\ ScanLooks' /\ ScanOrdered' /\ ScanOnCourse'
<1>1. PICK s, i, m : s = scan.sources /\ i = Min(Empty(s)) /\ m = [s EXCEPT ![i] = Pulled(s[i])]
  OBVIOUS
<1>. DEFINE first == CHOOSE e \in UNION {m[n].head : n \in Hit(m)} : TRUE
            rest == [n \in 1..Len(m) |->
                       IF n \in Hit(m) THEN [m[n] EXCEPT !.head = {}] ELSE m[n]]
<1>2. /\ scan.at = "open" /\ scan.files = <<>>
      /\ UNCHANGED <<dataVars, cacheVars, erred, held>>
      /\ scan' = IF m[i].table # 0 /\ m[i].head # {} /\ m[i].handle \notin opened
                 THEN [scan EXCEPT !.at = "rejected"]
                 ELSE IF Empty(m) # {} THEN [scan EXCEPT !.sources = m]
                 ELSE IF Hit(m) = {} THEN [scan EXCEPT !.at = "done", !.sources = <<>>]
                 ELSE Taken([scan EXCEPT !.sources = rest], first)
  <2>. DEFINE src == Pulled(scan.sources[Min(Empty(scan.sources))])
              sources == [scan.sources EXCEPT ![Min(Empty(scan.sources))] = src]
              hit == Hit(sources)
              cleared == [j \in 1..Len(sources) |->
                            IF j \in hit THEN [sources[j] EXCEPT !.head = {}] ELSE sources[j]]
              e == CHOOSE e \in UNION {sources[j].head : j \in hit} : TRUE
  <2>1. /\ scan.at = "open" /\ scan.files = <<>>
        /\ UNCHANGED <<dataVars, cacheVars, erred, held>>
        /\ scan' = IF src.table # 0 /\ src.head # {} /\ src.handle \notin opened
                   THEN [scan EXCEPT !.at = "rejected"]
                   ELSE IF Empty(sources) # {} THEN [scan EXCEPT !.sources = sources]
                   ELSE IF hit = {} THEN [scan EXCEPT !.at = "done", !.sources = <<>>]
                   ELSE Taken([scan EXCEPT !.sources = cleared], e)
    BY DEF Pull
  <2>2. m[i] = Pulled(s[i])
    BY <1>1, <2>1, PullTakes
  <2>3. src = m[i] /\ sources = m
    BY <1>1, <2>2
  <2>. HIDE DEF src, sources
  <2>4. cleared = rest /\ e = first /\ hit = Hit(m)
    BY <2>3
  <2>. HIDE DEF hit, cleared, e, rest, first
  <2>. QED
    BY <2>1, <2>3, <2>4
<1>3. /\ IsList(m) /\ Len(m) \in Nat /\ \A n \in 1..Len(m) : SourceTyped(m[n])
      /\ ~scan.back /\ Scanner \notin erred => OnCourse(m, scan.last)
  BY <1>1, <1>2, PullTakes, ListBasics
<1>4. /\ scan.back \in BOOLEAN /\ scan.last \in Nat /\ scan.start \in Nat
      /\ Ordered(scan.back, scan.last, scan.out)
      /\ DOMAIN scan = {"at", "back", "start", "files", "sources", "last", "out"}
  BY DEF ScanTyped, ScanOrdered, Ordered
<1>5. ~scan.back /\ Scanner \notin erred =>
        /\ \A n \in 1..Len(scan.out) : scan.out[n].seq \in held[scan.out[n].key]
        /\ \A k \in Key : scan.start < k /\ k <= scan.last => Yields(scan.out, k) \/ 0 \in held[k]
  BY <1>2 DEF ScanOnCourse
<1>6. \A n \in 1..Len(m) : /\ m[n].head \subseteq Entry
                           /\ \A e, f \in m[n].head : e = f /\ e.seq <= lastSequence
  <2>. TAKE n \in 1..Len(m)
  <2>1. SourceTyped(m[n])
    BY <1>3
  <2>2. /\ m[n].head \subseteq Contents(m[n]) /\ \A e, f \in m[n].head : e = f
        /\ Coherent(Contents(m[n])) /\ \A e \in Contents(m[n]) : e.seq <= lastSequence
    BY <2>1, ContentsSound DEF SourceTyped
  <2>. QED
    BY <2>2 DEF Coherent
<1>7. /\ \A n \in Hit(m) : n \in 1..Len(m) /\ m[n].head # {}
      /\ \A n, l \in Hit(m) : n = l
      /\ ~scan.back => \A n \in Hit(m) : \A e \in m[n].head :
           \A l \in 1..Len(m) : \A f \in m[l].head : NotAfter(e, f)
      /\ ~scan.back /\ Hit(m) = {} => \A n \in 1..Len(m) : m[n].head = {}
  <2>1. lastSequence \in Nat
    BY DEF DataInv, DataTyped
  <2>. QED
    BY <1>3, <1>4, <1>6, <2>1, HitIs
<1>. HIDE DEF rest, first
<1>8. PICK back, start, last, out :
        back = scan.back /\ start = scan.start /\ last = scan.last /\ out = scan.out
  OBVIOUS
<1>9. CASE scan' = [scan EXCEPT !.at = "rejected"]
  <2>1. /\ DOMAIN scan' = DOMAIN scan /\ scan'.at = "rejected" /\ scan'.back = scan.back
        /\ scan'.start = scan.start /\ scan'.files = <<>> /\ scan'.sources = s
        /\ scan'.last = last /\ scan'.out = out
    BY <1>1, <1>2, <1>4, <1>8, <1>9
  <2>2. IsList(s) /\ \A n \in 1..Len(s) : SourceTyped(s[n])
    BY <1>1 DEF ScanTyped
  <2>. QED
    BY <1>2, <1>4, <1>5, <1>8, <2>1, <2>2, ScanGoesOn
<1>10. CASE scan' = [scan EXCEPT !.sources = m] /\ Empty(m) # {}
  <2>1. /\ DOMAIN scan' = DOMAIN scan /\ scan'.at = "open" /\ scan'.back = scan.back
        /\ scan'.start = scan.start /\ scan'.files = <<>> /\ scan'.sources = m
        /\ scan'.last = last /\ scan'.out = out
    BY <1>2, <1>4, <1>8, <1>10
  <2>. QED
    BY <1>2, <1>3, <1>4, <1>5, <1>8, <1>10, <2>1, ScanGoesOn
<1>11. CASE /\ scan' = [scan EXCEPT !.at = "done", !.sources = <<>>]
            /\ Empty(m) = {} /\ Hit(m) = {}
  <2>1. PICK z : z = <<>>
    OBVIOUS
  <2>2. /\ DOMAIN scan' = DOMAIN scan /\ scan'.at = "done" /\ scan'.back = scan.back
        /\ scan'.start = scan.start /\ scan'.files = <<>> /\ scan'.sources = z
        /\ scan'.last = last /\ scan'.out = out
    BY <1>2, <1>4, <1>8, <1>11, <2>1
  <2>3. IsList(z) /\ Len(z) = 0
    BY <2>1 DEF IsList
  <2>4. \A n \in 1..Len(z) : SourceTyped(z[n])
    BY <2>3
  <2>5. ASSUME ~scan.back, Scanner \notin erred, NEW k \in Key, scan.start < k
        PROVE  Yields(out, k) \/ 0 \in held[k]
    <3>1. k \in Nat
      BY DEF Key
    <3>2. CASE k <= scan.last
      BY <1>5, <1>8, <2>5, <3>2
    <3>3. CASE k > scan.last
      <4>1. KeyOnCourse(m, <<>>, k)
        BY <1>3, <2>5, <3>3 DEF OnCourse
      <4>. QED
        BY <1>7, <1>11, <2>5, <4>1, NothingToCome
    <3>. QED
      BY <1>4, <3>1, <3>2, <3>3
  <2>. QED
    BY <1>2, <1>4, <1>5, <1>8, <2>2, <2>3, <2>4, <2>5, ScanGoesOn
<1>12. CASE /\ scan' = Taken([scan EXCEPT !.sources = rest], first)
            /\ Empty(m) = {} /\ Hit(m) # {}
  <2>1. PICK j \in Hit(m) : TRUE
    BY <1>12
  <2>2. PICK e \in m[j].head : TRUE
    BY <1>7, <2>1
  <2>3. j \in 1..Len(m) /\ Hit(m) = {j} /\ m[j].head = {e} /\ e \in Entry
    BY <1>6, <1>7, <2>1, <2>2
  <2>4. first = e
    BY <2>3 DEF first
  <2>5. PICK r : r = Cleared(m, j)
    OBVIOUS
  <2>6. rest = r
    BY <2>3, <2>5 DEF rest, Cleared
  <2>7. /\ IsList(r) /\ Empty(r) # {} /\ \A n \in 1..Len(r) : SourceTyped(r[n])
    BY <1>3, <1>12, <2>3, <2>5, ClearedOnCourse
  <2>8. \A a \in Nat, b \in Nat : OnCourse(m, a) /\ a <= b /\ e.key <= b => OnCourse(r, b)
    BY <1>3, <1>12, <2>3, <2>5, ClearedOnCourse
  <2>9. e.key \in Key /\ e.key \in Nat /\ e.seq \in Nat /\ \A k \in Key : k \in Nat
    BY <2>3, EntryFields DEF Key
  <2>10. PICK sc : sc = [scan EXCEPT !.sources = r]
    OBVIOUS
  <2>11. /\ DOMAIN sc = DOMAIN scan /\ sc.at = "open" /\ sc.back = scan.back
         /\ sc.start = scan.start /\ sc.files = <<>> /\ sc.sources = r
         /\ sc.last = scan.last /\ sc.out = scan.out
    BY <1>2, <1>4, <2>10
  <2>12. PICK t : t = Taken(sc, e)
    OBVIOUS
  <2>13. /\ DOMAIN t = DOMAIN sc /\ \A y \in DOMAIN sc \ {"last", "out"} : t[y] = sc[y]
         /\ Passes(sc.back, sc.last, e) =>
              t.last = e.key /\ t.out = IF e.del THEN sc.out ELSE Append(sc.out, e)
         /\ ~Passes(sc.back, sc.last, e) => t = sc
    <3>1. {"last", "out"} \subseteq DOMAIN sc
      BY <1>4, <2>11
    <3>2. /\ DOMAIN t = DOMAIN sc /\ \A y \in DOMAIN sc \ {"last", "out"} : t[y] = sc[y]
      BY <2>12, <3>1, TakenIs
    <3>3. Passes(sc.back, sc.last, e) =>
            t.last = e.key /\ t.out = IF e.del THEN sc.out ELSE Append(sc.out, e)
      BY <2>12, <3>1, TakenIs
    <3>4. ~Passes(sc.back, sc.last, e) => t = sc
      BY <2>12, <3>1, TakenIs
    <3>. QED
      BY <3>2, <3>3, <3>4
  <2>14. scan' = t
    BY <1>12, <2>4, <2>6, <2>10, <2>12
  <2>15. /\ DOMAIN scan' = DOMAIN scan /\ scan'.at = "open" /\ scan'.back = scan.back
         /\ scan'.start = scan.start /\ scan'.files = <<>> /\ scan'.sources = r
    BY <1>4, <2>11, <2>13, <2>14
  <2>16. CASE ~Passes(scan.back, scan.last, e)
    <3>1. scan'.last = last /\ scan'.out = out
      BY <1>8, <2>11, <2>13, <2>14, <2>16
    <3>2. ~scan.back /\ Scanner \notin erred => OnCourse(r, last)
      BY <1>3, <1>4, <1>8, <2>8, <2>9, <2>16 DEF Passes
    <3>3. /\ Ordered(scan.back, last, out) /\ last \in Nat
          /\ ~scan.back /\ Scanner \notin erred =>
               /\ \A n \in 1..Len(out) : out[n].seq \in held[out[n].key]
               /\ \A k \in Key : scan.start < k /\ k <= last => Yields(out, k) \/ 0 \in held[k]
      BY <1>4, <1>5, <1>8
    <3>4. scan.files = <<>> /\ UNCHANGED <<dataVars, cacheVars, erred, held>>
      BY <1>2
    <3>. QED
      BY <2>7, <2>15, <3>1, <3>2, <3>3, <3>4, ScanGoesOn
  <2>17. CASE Passes(scan.back, scan.last, e)
    <3>1. PICK new, with, next : /\ with = Append(out, e) /\ next = e.key
                                 /\ new = IF e.del THEN out ELSE with
      OBVIOUS
    <3>2. scan'.last = next /\ scan'.out = new /\ next \in Nat
      BY <1>8, <2>9, <2>11, <2>13, <2>14, <2>17, <3>1
    <3>3. /\ Ordered(scan.back, next, with) /\ Ordered(scan.back, next, out)
          /\ \A n \in 1..Len(with) : with[n] = e \/ \E l \in 1..Len(out) : with[n] = out[l]
          /\ Yields(with, next) /\ \A k : Yields(out, k) => Yields(with, k)
      <4>1. /\ last \in Nat /\ Ordered(back, last, out)
            /\ e \in Entry /\ Passes(back, last, e)
        BY <1>4, <1>8, <2>3, <2>17
      <4>2. /\ Ordered(back, e.key, with) /\ Ordered(back, e.key, out)
        BY <3>1, <4>1, OrderedWith
      <4>3. \A n \in 1..Len(with) : with[n] = e \/ \E l \in 1..Len(out) : with[n] = out[l]
        BY <3>1, <4>1, OrderedWith
      <4>4. Yields(with, e.key) /\ \A k : Yields(out, k) => Yields(with, k)
        BY <3>1, <4>1, OrderedWith
      <4>. QED
        BY <1>8, <3>1, <4>2, <4>3, <4>4
    <3>4. /\ Ordered(scan.back, next, new)
          /\ \A k : Yields(out, k) => Yields(new, k)
      BY <1>4, <1>8, <3>1, <3>3
    <3>5. ASSUME ~scan.back, Scanner \notin erred
          PROVE  /\ \A n \in 1..Len(new) : new[n].seq \in held[new[n].key]
                 /\ OnCourse(r, next)
                 /\ \A k \in Key : scan.start < k /\ k <= next => Yields(new, k) \/ 0 \in held[k]
      <4>1. e.key > last /\ OnCourse(m, last) /\ last \in Nat
        BY <1>3, <1>4, <1>8, <2>17, <3>5 DEF Passes
      <4>2. /\ Value({e}) \in held[e.key]
            /\ \A k \in Key : last < k /\ k < e.key => 0 \in held[k]
        <5>1. \A n \in 1..Len(m) : SourceTyped(m[n]) /\ m[n].head \subseteq Entry
                                   /\ \A f \in m[n].head : NotAfter(e, f)
          BY <1>3, <1>6, <1>7, <2>1, <2>2, <3>5
        <5>. QED
          BY <1>12, <2>2, <2>3, <4>1, <5>1, TakenIsRight
      <4>3. OnCourse(r, next)
        BY <2>8, <2>9, <3>1, <4>1
      <4>4. Value({e}) = IF e.del THEN 0 ELSE e.seq
        BY <2>3, ValueIs
      <4>5. ASSUME NEW n \in 1..Len(new) PROVE new[n].seq \in held[new[n].key]
        <5>1. CASE \E l \in 1..Len(out) : new[n] = out[l]
          BY <1>5, <1>8, <3>5, <5>1
        <5>2. CASE ~e.del /\ new[n] = e
          BY <4>2, <4>4, <5>2
        <5>. QED
          BY <3>1, <3>3, <4>5, <5>1, <5>2
      <4>6. ASSUME NEW k \in Key, scan.start < k, k <= next
            PROVE  Yields(new, k) \/ 0 \in held[k]
        <5>1. CASE k <= last
          BY <1>5, <1>8, <3>4, <3>5, <4>6, <5>1
        <5>2. CASE last < k /\ k < e.key
          BY <4>2, <5>2
        <5>3. CASE k = e.key
          BY <3>1, <3>3, <4>2, <4>4, <5>3
        <5>. QED
          BY <2>9, <3>1, <4>1, <4>6, <5>1, <5>2, <5>3
      <4>. QED
        BY <4>3, <4>5, <4>6
    <3>. QED
      BY <1>2, <2>7, <2>15, <3>2, <3>4, <3>5, ScanGoesOn
  <2>. QED
    BY <2>16, <2>17
<1>. QED
  BY <1>2, <1>9, <1>10, <1>11, <1>12

-----------------------------------------------------------------------------
(* The scan's part of the invariant, in every step.                        *)
ScanInv == TablesSound /\ ScanTyped /\ ScanLooks /\ ScanOrdered /\ ScanOnCourse

(* There is no scan at first.                                              *)
LEMMA InitScan == Init => ScanInv
<1>. SUFFICES ASSUME Init PROVE ScanInv
  OBVIOUS
<1>1. DataInv
  BY InitData
<1>2. /\ tables = Disk /\ version = [i \in 1..Len(Disk) |-> i] /\ scan = NoScan
      /\ look = [r \in Reader |-> NoLook] /\ held = [k \in Key |-> {}]
  BY DEF Init, InitCache
<1>3. TablesSound
  <2>1. Len(Disk) \in Nat /\ \A t \in 1..Len(Disk) : Disk[t] \in SUBSET Entry
    BY ReadsAssumption, LenProperties, ElementOfSeq
  <2>2. DOMAIN version = 1..Len(Disk) /\ IsList(version)
    BY <1>1, <1>2 DEF DataInv, DataTyped
  <2>3. Len(version) = Len(Disk)
    BY <1>2, <2>1, ListMade
  <2>4. ASSUME NEW t \in 1..Len(tables)
        PROVE  Coherent(tables[t]) /\ \A e \in tables[t] : e.seq <= lastSequence
    <3>1. t \in 1..Len(version) /\ version[t] = t
      BY <1>2, <2>3, <2>4
    <3>2. tables[t] \subseteq InTables
      BY <3>1 DEF InTables
    <3>. QED
      BY <1>1, <3>2 DEF DataInv, Numbering, All, Coherent
  <2>. QED
    BY <2>4 DEF TablesSound
<1>4. /\ scan.at = "idle" /\ scan.back = FALSE /\ scan.start = 0 /\ scan.last = 0
      /\ scan.files = <<>> /\ scan.sources = <<>> /\ scan.out = <<>>
      /\ DOMAIN scan = {"at", "back", "start", "files", "sources", "last", "out"}
  BY <1>2 DEF NoScan
<1>5. IsList(<<>>) /\ Len(<<>>) = 0 /\ \A i \in 1..Len(<<>>) : FALSE
  BY DEF IsList
<1>6. ScanTyped
  <2>1. DOMAIN held = Key
    BY <1>2
  <2>2. IsList(scan.files) /\ \A j \in 1..Len(scan.files) : scan.files[j] \in 1..Len(tables)
    BY <1>4, <1>5
  <2>3. IsList(scan.sources) /\ \A i \in 1..Len(scan.sources) : SourceTyped(scan.sources[i])
    BY <1>4, <1>5
  <2>4. IsList(scan.out) /\ \A i \in 1..Len(scan.out) : scan.out[i] \in Entry
    BY <1>4, <1>5
  <2>5. scan.back \in BOOLEAN
    BY <1>4
  <2>6. scan.start \in Nat /\ scan.last \in Nat
    BY <1>4
  <2>7. scan.at # "open"
    BY <1>4
  <2>8. DOMAIN scan = {"at", "back", "start", "files", "sources", "last", "out"}
    BY <1>4
  <2>. QED
    BY <2>1, <2>2, <2>3, <2>4, <2>5, <2>8, <2>6, <2>7 DEF ScanTyped
<1>7. ScanLooks
  <2>1. look[Scanner] = NoLook
    BY <1>2, ReadsAssumption
  <2>. QED
    BY <2>1 DEF ScanLooks, NoLook
<1>8. ScanOrdered
  BY <1>4, <1>5 DEF ScanOrdered
<1>9. ScanOnCourse
  BY <1>4, <1>5 DEF ScanOnCourse
<1>. QED
  BY <1>3, <1>6, <1>7, <1>8, <1>9 DEF ScanInv

(* A table that is written holds what there was.                           *)
LEMMA SoundStays ==
  ASSUME DataInv, TablesSound, lastSequence' \in Nat, lastSequence <= lastSequence',
         NEW x \in SUBSET All, tables' = tables \/ tables' = Append(tables, x)
  PROVE  TablesSound'
<1>1. lastSequence \in Nat /\ IsList(tables) /\ Len(tables) \in Nat
  BY ListBasics DEF DataInv, DataTyped
<1>2. \A s \in SUBSET Entry : (\A e \in s : e.seq <= lastSequence) =>
                                 \A e \in s : e.seq <= lastSequence'
  BY <1>1, EntryFields
<1>3. Coherent(x) /\ \A e \in x : e.seq <= lastSequence
  BY DEF DataInv, Numbering, Coherent
<1>4. ASSUME NEW t \in 1..Len(tables')
      PROVE  tables'[t] = x \/ (t \in 1..Len(tables) /\ tables'[t] = tables[t])
  <2>1. CASE tables' = tables
    BY <2>1
  <2>2. CASE tables' = Append(tables, x)
    <3>1. /\ Len(tables') = Len(tables) + 1 /\ tables'[Len(tables) + 1] = x
          /\ \A i \in 1..Len(tables) : tables'[i] = tables[i]
      BY <1>1, <2>2, AppendedList
    <3>2. t \in 1..Len(tables) \/ t = Len(tables) + 1
      BY <1>1, <3>1
    <3>. QED
      BY <3>1, <3>2
  <2>. QED
    BY <2>1, <2>2
<1>5. \A t \in 1..Len(tables') :
        Coherent(tables'[t]) /\ \A e \in tables'[t] : e.seq <= lastSequence
  BY <1>3, <1>4 DEF TablesSound
<1>6. \A t \in 1..Len(tables') :
        Coherent(tables'[t]) /\ \A e \in tables'[t] : e.seq <= lastSequence'
  BY <1>2, <1>5 DEF Coherent
<1>. QED
  BY <1>6 DEF TablesSound, Coherent

(* The findTable of the scan goes on, or is none of the step's business.   *)
LEMMA LooksStay ==
  ASSUME ScanLooks, UNCHANGED scan, erred \subseteq erred',
         \/ look'[Scanner] = look[Scanner]
         \/ /\ look[Scanner].at # "none" /\ look'[Scanner].table = look[Scanner].table
            /\ look'[Scanner].at = "error" => Scanner \in erred'
  PROVE  ScanLooks'
BY DEF ScanLooks

(* A write is a value its key has while the scan is open.                  *)
LEMMA WriteGrows ==
  ASSUME DataInv, ScanTyped, NEW k \in Key, NEW del, Write(k, del)
  PROVE  Grown
<1>. DEFINE e == [key |-> k, seq |-> lastSequence + 1, del |-> del]
<1>1. /\ mems' = [mems EXCEPT ![mem] = @ \cup {e}]
      /\ held' = [held EXCEPT ![k] = IF scan.at = "open" /\ Captures(mem)
                                   THEN @ \cup {Value({e})} ELSE @]
      /\ UNCHANGED <<tables, scan, erred>>
  BY DEF Write
<1>2. e.key = k
  OBVIOUS
<1>. HIDE DEF e
<1>3. IsList(mems) /\ mem \in Nat /\ DOMAIN mems = 1..mem /\ DOMAIN held = Key
  BY ListBasics DEF DataInv, DataTyped, ScanTyped, mem
<1>4. mem' = mem /\ \A m \in 1..mem : mems'[m] = IF m = mem THEN mems[m] \cup {e} ELSE mems[m]
  <2>1. mems' = [m \in 1..mem |-> mems'[m]]
    BY <1>1, <1>3
  <2>2. Len(mems') = mem
    BY <1>3, <2>1, ListMade
  <2>. QED
    BY <1>1, <1>3, <2>2 DEF mem
<1>5. /\ DOMAIN held' = Key /\ \A h \in Key : held[h] \subseteq held'[h]
      /\ scan.at = "open" /\ Captures(mem) => Value({e}) \in held'[k]
  BY <1>1, <1>3
<1>6. \A m \in 1..mem : m \in 1..mem' /\ mems[m] \subseteq mems'[m]
  BY <1>4
<1>7. scan.at = "open" => \A m \in 1..mem : Captures(m) =>
        \A f \in mems'[m] \ mems[m] : Value({f}) \in held'[f.key]
  <2>1. \A m \in 1..mem : \A f \in mems'[m] \ mems[m] : m = mem /\ f = e
    BY <1>4
  <2>. QED
    BY <1>2, <1>5, <2>1
<1>8. \A t \in 1..Len(tables) : t \in 1..Len(tables') /\ tables'[t] = tables[t]
  BY <1>1
<1>. QED
  BY <1>1, <1>5, <1>6, <1>7, <1>8 DEF Grown

(* All other steps but the scan's add nothing to what it has captured.     *)
LEMMA RestGrows ==
  ASSUME DataInv, ScanTyped, UNCHANGED <<scan, held>>, erred \subseteq erred',
         UNCHANGED mems \/ SwitchMemtable,
         \/ UNCHANGED tables \/ InstallFlush
         \/ \E i \in 1..(Len(version) - 1) : Compact(i)
  PROVE  Grown
<1>1. \A m \in 1..mem : m \in 1..mem' /\ mems'[m] = mems[m]
  <2>1. CASE UNCHANGED mems
    BY <2>1 DEF mem
  <2>2. CASE SwitchMemtable
    <3>1. mems' = Append(mems, {}) /\ IsList(mems) /\ Len(mems) \in Nat
      BY <2>2, ListBasics DEF SwitchMemtable, DataInv, DataTyped
    <3>2. Len(mems') = Len(mems) + 1 /\ \A m \in 1..Len(mems) : mems'[m] = mems[m]
      BY <3>1, AppendedList
    <3>. QED
      BY <3>1, <3>2 DEF mem
  <2>. QED
    BY <2>1, <2>2
<1>2. \A t \in 1..Len(tables) : t \in 1..Len(tables') /\ tables'[t] = tables[t]
  BY TablesGrow
<1>. QED
  BY <1>1, <1>2 DEF Grown, ScanTyped

(* Every step keeps the scan's part of the invariant.                      *)
LEMMA ScanNextPreserves ==
  ASSUME IInv, IInv', ScanInv, [Next]_vars
  PROVE  ScanInv'
<1>. USE DEF ScanInv
<1>1. /\ CacheInv /\ DataInv /\ lastSequence \in Nat /\ lastSequence' \in Nat
      /\ mem \in Nat /\ mem' \in Nat
      /\ DOMAIN look = Reader /\ Getter \subseteq Reader /\ Scanner \in Reader
      /\ Scanner \notin Getter
      /\ \A r \in Reader : {"at", "table", "handle"} \subseteq DOMAIN look[r]
  BY ReadsAssumption, ListBasics DEF IInv, CacheInv, CacheTyped, DataInv,
     DataTyped, mem
<1>2. ASSUME Grown, TablesSound', ScanLooks' PROVE ScanInv'
  BY <1>1, <1>2, ScanStays
<1>3. ASSUME UNCHANGED <<mems, tables, lastSequence, scan, held>>, erred \subseteq erred',
             ScanLooks'
      PROVE  ScanInv'
  <2>1. Grown
    BY <1>1, <1>3, RestGrows
  <2>2. {} \in SUBSET All /\ lastSequence <= lastSequence'
    BY <1>1, <1>3
  <2>3. TablesSound'
    BY <1>1, <1>3, <2>2, SoundStays
  <2>. QED
    BY <1>2, <1>3, <2>1, <2>3
<1>4. CASE \E u \in Updates : Write(u[1], u[2])
  <2>1. PICK u \in Updates : Write(u[1], u[2])
    BY <1>4
  <2>2. u[1] \in Key
    BY ReadsAssumption
  <2>3. UNCHANGED <<tables, look, scan, erred>> /\ lastSequence' = lastSequence + 1
    BY <2>1 DEF Write, cacheVars
  <2>4. Grown
    BY <1>1, <2>1, <2>2, WriteGrows
  <2>5. {} \in SUBSET All /\ lastSequence <= lastSequence'
    BY <1>1, <2>3
  <2>6. TablesSound'
    BY <1>1, <2>3, <2>5, SoundStays
  <2>7. ScanLooks'
    BY <2>3, LooksStay
  <2>. QED
    BY <1>2, <2>4, <2>6, <2>7
<1>5. CASE \/ SwitchMemtable \/ InstallFlush \/ DropImm \/ Close
           \/ \E i \in 1..(Len(version) - 1) : Compact(i)
  <2>1. /\ UNCHANGED <<lastSequence, look, scan, erred, held>>
        /\ UNCHANGED mems \/ SwitchMemtable
        /\ UNCHANGED tables \/ InstallFlush \/ \E i \in 1..(Len(version) - 1) : Compact(i)
    BY <1>5 DEF SwitchMemtable, InstallFlush, DropImm, Close, Reset, Compact,
       cacheVars
  <2>2. Grown
    BY <1>1, <2>1, RestGrows
  <2>3. \E x \in SUBSET All : tables' = tables \/ tables' = Append(tables, x)
    <3>1. CASE UNCHANGED tables
      BY <3>1
    <3>2. CASE InstallFlush
      <4>1. tables' = Append(tables, mems[imm]) /\ imm # 0
        BY <3>2 DEF InstallFlush
      <4>2. mems[imm] \in SUBSET Live /\ Live \subseteq All
        BY <1>1, <4>1, Parts, LiveIsPart DEF DataInv
      <4>. QED
        BY <4>1, <4>2
    <3>3. CASE \E i \in 1..(Len(version) - 1) : Compact(i)
      <4>1. PICK i \in 1..(Len(version) - 1) : Compact(i)
        BY <3>3
      <4>. DEFINE below == UNION {tables[version[j]] : j \in i..Len(version)}
      <4>2. tables' = tables \/ tables' = Append(tables, Kept(below))
        BY <4>1 DEF Compact
      <4>3. below \subseteq InTables
        <5>1. Len(version) \in Nat
          BY <1>1, ListBasics DEF DataInv, DataTyped
        <5>2. \A j \in i..Len(version) : j \in 1..Len(version)
          BY <5>1
        <5>. QED
          BY <5>2 DEF InTables
      <4>4. Kept(below) \subseteq below
        BY DEF Kept
      <4>. HIDE DEF below
      <4>5. Kept(below) \in SUBSET All
        BY <4>3, <4>4 DEF All
      <4>. QED
        BY <4>2, <4>5
    <3>. QED
      BY <2>1, <3>1, <3>2, <3>3
  <2>4. PICK x \in SUBSET All : tables' = tables \/ tables' = Append(tables, x)
    BY <2>3
  <2>5. lastSequence <= lastSequence'
    BY <1>1, <2>1
  <2>6. TablesSound'
    BY <1>1, <2>4, <2>5, SoundStays
  <2>7. ScanLooks'
    BY <2>1, LooksStay
  <2>. QED
    BY <1>2, <2>2, <2>6, <2>7
<1>6. CASE \E g \in Getter : \E k \in Asked : GetCall(g, k)
  <2>1. UNCHANGED <<dataVars, cacheVars, scan, erred, held>>
    BY <1>6 DEF GetCall
  <2>2. ScanLooks'
    BY <2>1, LooksStay DEF cacheVars
  <2>. QED
    BY <1>3, <2>1, <2>2 DEF dataVars
<1>7. CASE \E g \in Getter : GetStep(g)
  <2>1. PICK g \in Getter : GetFindTable(g) \/ SearchTable(g) \/ SearchFails(g)
    BY <1>7 DEF GetStep
  <2>2. /\ UNCHANGED <<dataVars, scan, erred, held>>
        /\ \E l : look' = [look EXCEPT ![g] = l]
    BY <2>1 DEF GetFindTable, FindTable, SearchTable, SearchFails
  <2>3. look'[Scanner] = look[Scanner]
    BY <1>1, <2>2
  <2>4. ScanLooks'
    BY <2>2, <2>3, LooksStay
  <2>. QED
    BY <1>3, <2>2, <2>4 DEF dataVars
<1>8. CASE \E back \in Backward, start \in Starts : ScanCall(back, start)
  <2>1. PICK back \in Backward, start \in Starts : ScanCall(back, start)
    BY <1>8
  <2>2. ScanTyped' /\ ScanLooks' /\ ScanOrdered' /\ ScanOnCourse'
    BY <1>1, <2>1, CallStarts
  <2>3. UNCHANGED <<tables, lastSequence>>
    BY <2>1 DEF ScanCall, dataVars
  <2>. QED
    BY <2>2, <2>3 DEF TablesSound
<1>9. CASE ScanFindTable
  <2>1. /\ scan.at = "open" /\ scan.files # <<>> /\ FindTable(Scanner, Head(scan.files))
        /\ UNCHANGED <<dataVars, scan, erred, held>>
    BY <1>9 DEF ScanFindTable
  <2>2. Head(scan.files) = scan.files[1]
    BY <2>1, HeadAndTail DEF ScanTyped
  <2>3. look'[Scanner].at \in {"found", "opening"} /\ look'[Scanner].table = scan.files[1]
    <3>. DEFINE t == Head(scan.files)
                hit == [at |-> "found", table |-> t, handle |-> cache[Max(Cached(t))].handle]
                miss == [at |-> "opening", table |-> t, handle |-> 0]
    <3>1. look' = [look EXCEPT ![Scanner] = IF Cached(t) # {} THEN hit ELSE miss]
      BY <2>1 DEF FindTable
    <3>2. hit.at = "found" /\ hit.table = t /\ miss.at = "opening" /\ miss.table = t
      OBVIOUS
    <3>. HIDE DEF hit, miss, t
    <3>3. look'[Scanner] \in {hit, miss} /\ t = scan.files[1]
      BY <1>1, <2>2, <3>1 DEF t
    <3>. QED
      BY <3>2, <3>3
  <2>4. ScanLooks'
    BY <2>1, <2>3 DEF ScanLooks
  <2>. QED
    BY <1>3, <2>1, <2>4 DEF dataVars
<1>10. CASE AddTable
  <2>1. UNCHANGED <<tables, lastSequence>>
    BY <1>10 DEF AddTable, dataVars
  <2>2. ScanTyped' /\ ScanLooks' /\ ScanOrdered' /\ ScanOnCourse'
    BY <1>1, <1>10, AddTableOnCourse
  <2>. QED
    BY <2>1, <2>2 DEF TablesSound
<1>11. CASE Pull
  <2>1. UNCHANGED <<tables, lastSequence>>
    BY <1>11 DEF Pull, dataVars
  <2>2. ScanTyped' /\ ScanLooks' /\ ScanOrdered' /\ ScanOnCourse'
    BY <1>1, <1>11, PullOnCourse
  <2>. QED
    BY <2>1, <2>2 DEF TablesSound
<1>12. CASE \E r \in Reader : Open(r) \/ OpenError(r) \/ Cache(r)
  <2>1. PICK r \in Reader : Open(r) \/ OpenError(r) \/ Cache(r)
    BY <1>12
  <2>2. UNCHANGED <<dataVars, scan, held>> /\ erred \subseteq erred'
    BY <2>1 DEF Open, OpenError, Cache
  <2>3. /\ look[r].at \in {"opening", "reading"}
        /\ \E h : \/ look' = [look EXCEPT ![r].at = "reading", ![r].handle = h]
                  \/ look' = [look EXCEPT ![r].at = "error"] /\ r \in erred'
                  \/ look' = [look EXCEPT ![r].at = "found"]
    <3>1. CASE Open(r)
      <4>1. PICK h : look' = [look EXCEPT ![r].at = "reading", ![r].handle = h]
        BY <3>1 DEF Open, OpenFile
      <4>2. look[r].at = "opening"
        BY <3>1 DEF Open, OpenFile
      <4>. QED
        BY <4>1, <4>2
    <3>2. CASE OpenError(r)
      BY <3>2 DEF OpenError, OpenFails, OpenTableFails
    <3>3. CASE Cache(r)
      BY <3>3 DEF Cache, OpenTable
    <3>. QED
      BY <2>1, <3>1, <3>2, <3>3
  <2>4. \/ look'[Scanner] = look[Scanner]
        \/ /\ look[Scanner].at # "none" /\ look'[Scanner].table = look[Scanner].table
           /\ look'[Scanner].at = "error" => Scanner \in erred'
    <3>1. CASE r = Scanner
      BY <1>1, <2>3, <3>1
    <3>2. CASE r # Scanner
      BY <1>1, <2>3, <3>2
    <3>. QED
      BY <3>1, <3>2
  <2>5. ScanLooks'
    BY <2>2, <2>4, LooksStay
  <2>. QED
    BY <1>3, <2>2, <2>5 DEF dataVars
<1>13. CASE UNCHANGED vars
  <2>1. UNCHANGED <<dataVars, cacheVars, scan, erred, held>>
    BY <1>13 DEF vars
  <2>2. ScanLooks'
    BY <2>1, LooksStay DEF cacheVars
  <2>. QED
    BY <1>3, <2>1, <2>2 DEF dataVars
<1>. QED
  BY <1>4, <1>5, <1>6, <1>7, <1>8, <1>9, <1>10, <1>11, <1>12, <1>13 DEF Next,
     ScanStep

(* A scan that memtables are written and switched under, tables flushed    *)
(* and compacted, cached ones dropped and the database closed, yields each *)
(* key once and in its direction; going forward, and if no file operation  *)
(* of it failed, what it yields are the values that the keys had at its    *)
(* call, or got since in a memtable that it captured; and when it ends, a  *)
(* key beyond its start is missing only if it was absent at the call or    *)
(* deleted since in such a memtable.                                       *)
THEOREM ScanIsRight == Spec => []ScanAnswers
<1>1. Init => ScanInv
  BY InitScan
<1>2. IInv /\ IInv' /\ ScanInv /\ [Next]_vars => ScanInv'
  BY ScanNextPreserves
<1>3. ScanInv => ScanAnswers
  <2>. SUFFICES ASSUME ScanInv PROVE ScanAnswers
    OBVIOUS
  <2>. DEFINE keys == {scan.out[i].key : i \in 1..Len(scan.out)}
  <2>1. ScanOrdered /\ ScanOnCourse
    BY DEF ScanInv
  <2>2. ASSUME ~scan.back, Scanner \notin erred, scan.at = "done",
               NEW k \in (scan.start + 1)..MaxKey
        PROVE  k \in keys \/ 0 \in held[k]
    <3>1. k \in Key /\ scan.start < k
      <4>1. scan.start \in Nat /\ MaxKey \in Nat
        BY ReadsAssumption DEF ScanInv, ScanTyped
      <4>. QED
        BY <4>1 DEF Key
    <3>2. Yields(scan.out, k) \/ 0 \in held[k]
      BY <2>1, <2>2, <3>1 DEF ScanOnCourse
    <3>. QED
      BY <3>2 DEF Yields
  <2>. QED
    BY <2>1, <2>2 DEF ScanAnswers, ScanOrdered, ScanOnCourse
<1>. QED
  BY <1>1, <1>2, <1>3, Invariance, PTL DEF Spec
=============================================================================
