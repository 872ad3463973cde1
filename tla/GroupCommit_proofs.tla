-------------------------- MODULE GroupCommit_proofs --------------------------
(***************************************************************************)
(* Proofs about the write path, for every set of write calls, every batch  *)
(* size and every limit.                                                   *)
(***************************************************************************)
EXTENDS GroupCommit, SequenceTheorems, TLAPS

USE GroupCommitAssumption

-----------------------------------------------------------------------------
(* The records of a batch, as a sequence.                                  *)
LEMMA OpsOfBatch ==
  ASSUME NEW w \in Writers
  PROVE  /\ Ops(w) \in Seq(Op)
         /\ Len(Ops(w)) = Count[w]
         /\ \A i \in 1..Count[w] : Ops(w)[i] = [w |-> w, i |-> i]
<1>1. Count[w] \in Nat
  OBVIOUS
<1>2. \A i \in 1..Count[w] : [w |-> w, i |-> i] \in Op
  BY <1>1 DEF Op
<1>3. Ops(w) \in Seq(Op)
  BY <1>1, <1>2, IsASeq DEF Ops
<1>. QED
  BY <1>1, <1>3 DEF Ops

(* Concatenation, index by index.                                          *)
LEMMA ConcatIndexed ==
  ASSUME NEW S, NEW s \in Seq(S), NEW t \in Seq(S)
  PROVE  /\ s \o t \in Seq(S)
         /\ Len(s \o t) = Len(s) + Len(t)
         /\ \A k \in 1..Len(s) : (s \o t)[k] = s[k]
         /\ \A k \in 1..Len(t) : (s \o t)[Len(s) + k] = t[k]
         /\ \A k \in (Len(s) + 1)..Len(s \o t) :
              k - Len(s) \in 1..Len(t) /\ (s \o t)[k] = t[k - Len(s)]
<1>1. Len(s) \in Nat /\ Len(t) \in Nat
  BY LenProperties
<1>. QED
  BY <1>1, ConcatProperties

(* A record of a batch names a call and a position.                        *)
LEMMA BatchRecord ==
  ASSUME NEW r \in Seq(Op), NEW k \in 1..Len(r)
  PROVE  r[k].w \in Writers /\ r[k].i \in Nat
<1>1. r[k] \in Op
  BY ElementOfSeq
<1>. QED
  BY <1>1 DEF Op

(* The batch s is the batch r followed by the records of v.                *)
Extends(s, r, v) ==
  /\ Len(s) = Len(r) + Count[v]
  /\ \A k \in 1..Len(r) : s[k] = r[k]
  /\ \A k \in (Len(r) + 1)..Len(s) : s[k].w = v /\ s[k].i = k - Len(r)
  /\ \A i \in 1..Count[v] : s[Len(r) + i] = [w |-> v, i |-> i]

(* What merging the batch of v adds to a batch r.                          *)
LEMMA ExtendedBatch ==
  ASSUME NEW r \in Seq(Op), NEW v \in Writers
  PROVE  /\ r \o Ops(v) \in Seq(Op)
         /\ Len(r) \in Nat /\ Count[v] \in Nat
         /\ Extends(r \o Ops(v), r, v)
<1>. DEFINE s == r \o Ops(v)
<1>1. /\ Ops(v) \in Seq(Op) /\ Len(Ops(v)) = Count[v] /\ Count[v] \in Nat
      /\ \A i \in 1..Count[v] : Ops(v)[i] = [w |-> v, i |-> i]
  BY OpsOfBatch
<1>a. s = r \o Ops(v)
  OBVIOUS
<1>. HIDE DEF Ops, s
<1>2. /\ s \in Seq(Op) /\ Len(s) = Len(r) + Len(Ops(v))
      /\ \A k \in 1..Len(r) : s[k] = r[k]
      /\ \A k \in 1..Len(Ops(v)) : s[Len(r) + k] = Ops(v)[k]
      /\ \A k \in (Len(r) + 1)..Len(s) :
           k - Len(r) \in 1..Len(Ops(v)) /\ s[k] = Ops(v)[k - Len(r)]
  <2>. DEFINE o == Ops(v)
  <2>1. o \in Seq(Op) /\ s = r \o o
    BY <1>1, <1>a
  <2>. HIDE DEF o
  <2>2. /\ s \in Seq(Op) /\ Len(s) = Len(r) + Len(o)
        /\ \A k \in 1..Len(r) : s[k] = r[k]
        /\ \A k \in 1..Len(o) : s[Len(r) + k] = o[k]
        /\ \A k \in (Len(r) + 1)..Len(s) : k - Len(r) \in 1..Len(o) /\ s[k] = o[k - Len(r)]
    BY <2>1, ConcatIndexed
  <2>. QED
    BY <2>2 DEF o
<1>3. Len(r) \in Nat
  BY LenProperties
<1>4. ASSUME NEW k \in (Len(r) + 1)..Len(s)
      PROVE  s[k].w = v /\ s[k].i = k - Len(r)
  <2>1. k - Len(r) \in 1..Count[v] /\ s[k] = Ops(v)[k - Len(r)]
    BY <1>1, <1>2
  <2>2. s[k] = [w |-> v, i |-> k - Len(r)]
    BY <1>1, <2>1
  <2>. QED
    BY <2>2
<1>5. \A i \in 1..Count[v] : s[Len(r) + i] = [w |-> v, i |-> i]
  BY <1>1, <1>2
<1>6. Len(s) = Len(r) + Count[v]
  BY <1>1, <1>2
<1>7. Extends(s, r, v)
  BY <1>2, <1>4, <1>5, <1>6 DEF Extends
<1>. QED
  BY <1>1, <1>2, <1>3, <1>7, <1>a

(* The batch in flight and its stamped form are sequences of the same      *)
(* length.                                                                 *)
LEMMA ResultIsBatch ==
  ASSUME TypeOK, queue # <<>>
  PROVE  Result \in Seq(Op) /\ Len(Result) \in Nat
<1>1. queue[1] \in Writers
  BY ElementOfSeq, EmptySeq, LenProperties DEF TypeOK
<1>2. Result \in Seq(Op)
  BY <1>1, OpsOfBatch DEF Result, TypeOK
<1>. QED
  BY <1>2, LenProperties

LEMMA StampedBatch ==
  ASSUME TypeOK, NEW ops \in Seq(Op)
  PROVE  /\ Stamped(ops) \in Seq(Entry)
         /\ Len(Stamped(ops)) = Len(ops)
         /\ \A k \in 1..Len(ops) :
              Stamped(ops)[k] = [seq |-> lastSequence + k, op |-> ops[k]]
<1>1. Len(ops) \in Nat /\ lastSequence \in Nat
  BY LenProperties DEF TypeOK
<1>2. \A k \in 1..Len(ops) : [seq |-> lastSequence + k, op |-> ops[k]] \in Entry
  BY <1>1, ElementOfSeq DEF Entry
<1>3. Stamped(ops) \in Seq(Entry)
  BY <1>1, <1>2, IsASeq DEF Stamped
<1>. QED
  BY <1>1, <1>3 DEF Stamped

LEMMA QueueType ==
  ASSUME TypeOK
  PROVE  /\ Len(queue) \in Nat
         /\ \A k \in 1..Len(queue) : queue[k] \in Writers
         /\ queue # <<>> <=> Len(queue) >= 1
<1>1. queue \in Seq(Writers)
  BY DEF TypeOK
<1>. QED
  BY <1>1, LenProperties, EmptySeq, ElementOfSeq

(* The call that leads is the front of the queue, and the only one.        *)
LEMMA LeaderIsFront ==
  ASSUME TypeOK, QueueInv, NEW w \in Writers, pc[w] \in Leading
  PROVE  /\ queue # <<>> /\ Len(queue) \in Nat /\ Len(queue) >= 1
         /\ queue[1] = w
         /\ \A v \in Writers : pc[v] \in Leading => v = w
<1>1. Len(queue) \in Nat
  BY QueueType
<1>2. ASSUME NEW v \in Writers, pc[v] \in Leading
      PROVE  1 \in 1..Len(queue) /\ queue[1] = v
  <2>1. PICK k \in 1..Len(queue) : queue[k] = v
    BY <1>2 DEF QueueInv
  <2>2. pc[queue[k]] # "waiting"
    BY <1>2, <2>1 DEF Leading
  <2>3. k = 1
    BY <1>1, <2>2 DEF QueueInv
  <2>. QED
    BY <2>1, <2>3
<1>. QED
  BY <1>1, <1>2, QueueType

(* The queue holds each call once, in call order.                          *)
LEMMA QueueDistinct ==
  ASSUME TypeOK, QueueInv, NEW k \in 1..Len(queue), NEW l \in 1..Len(queue),
         queue[k] = queue[l]
  PROVE  k = l
<1>1. /\ Len(queue) \in Nat /\ calls \in Nat
      /\ ticket[queue[k]] = calls - Len(queue) + k
      /\ ticket[queue[l]] = calls - Len(queue) + l
  BY QueueType DEF TypeOK, QueueInv
<1>. QED
  BY <1>1

-----------------------------------------------------------------------------
(* Popping the first n writers keeps the queue well formed.                *)
LEMMA PopKeepsQueue ==
  ASSUME TypeOK, QueueInv, NEW w \in Writers, pc[w] \in Leading,
         NEW n \in 1..Len(queue), NEW outcome \in Resolved,
         PopThrough(w, n, outcome), UNCHANGED <<ticket, calls>>
  PROVE  /\ queue' \in Seq(Writers) /\ Len(queue') = Len(queue) - n
         /\ pc' \in [Writers -> PCs] /\ done' \in [Writers -> BOOLEAN]
         /\ pc'[w] = outcome
         /\ QueueInv'
         /\ \A v \in Writers : v # w => pc'[v] \notin Leading
         /\ \A v \in Writers \ {w} :
              pc'[v] = "returned" \/ (pc'[v] = "woken" /\ done'[v]) =>
                \/ pc[v] = "returned" \/ (pc[v] = "woken" /\ done[v])
                \/ \E k \in 2..n : queue[k] = v
<1>. DEFINE rest == SubSeq(queue, n + 1, Len(queue))
            served == {queue[k] : k \in 2..n}
            next == IF rest = <<>> THEN {} ELSE {rest[1]}
<1>1. Len(queue) \in Nat /\ queue[1] = w /\ \A v \in Writers : pc[v] \in Leading => v = w
  BY LeaderIsFront
<1>2. /\ rest \in Seq(Writers) /\ Len(rest) = Len(queue) - n
      /\ \A k \in 1..Len(rest) : rest[k] = queue[n + k]
      /\ rest = <<>> <=> Len(rest) = 0
  <2>. HIDE DEF next, served
  <2>1. n + 1 \in Int /\ Len(queue) \in Int /\ \A i \in (n + 1)..Len(queue) : queue[i] \in Writers
    BY <1>1, QueueType
  <2>2. /\ rest \in Seq(Writers)
        /\ Len(rest) = IF n + 1 <= Len(queue) THEN Len(queue) - (n + 1) + 1 ELSE 0
        /\ \A k \in 1..Len(queue) - (n + 1) + 1 : rest[k] = queue[n + 1 + k - 1]
    BY <2>1, SubSeqProperties
  <2>3. Len(rest) = Len(queue) - n
    BY <1>1, <2>2
  <2>4. \A k \in 1..Len(rest) : rest[k] = queue[n + k]
    <3>. TAKE k \in 1..Len(rest)
    <3>1. n + 1 + k - 1 = n + k /\ k \in 1..Len(queue) - (n + 1) + 1
      BY <1>1, <2>3
    <3>. QED
      BY <2>2, <3>1
  <2>5. rest = <<>> <=> Len(rest) = 0
    BY <2>2, EmptySeq, LenProperties
  <2>. QED
    BY <2>2, <2>3, <2>4, <2>5
<1>3. /\ queue' = rest
      /\ done' = [v \in Writers |-> v \in served \/ done[v]]
      /\ pc' = [Signal(served \cup next) EXCEPT ![w] = outcome]
  BY DEF PopThrough
<1>. HIDE DEF rest
<1>4. \A v \in Writers \ {w} :
        pc'[v] = IF v \in served \cup next /\ pc[v] = "waiting" THEN "woken" ELSE pc[v]
  BY <1>3 DEF Signal
<1>5. pc'[w] = outcome
  BY <1>3 DEF Signal
<1>6. /\ \A v \in Writers : pc'[v] \in PCs
      /\ pc' \in [Writers -> PCs] /\ done' \in [Writers -> BOOLEAN]
  BY <1>3, <1>4, <1>5 DEF Signal, PCs, TypeOK
<1>a. /\ \A v : v \in served <=> \E k \in 2..n : queue[k] = v
      /\ \A v : v \in next <=> rest # <<>> /\ v = rest[1]
  OBVIOUS
<1>b. \A v \in Writers : done'[v] <=> v \in served \/ done[v]
  BY <1>3
<1>. HIDE DEF served, next
<1>c. n \in Nat /\ n >= 1 /\ n <= Len(queue) /\ 1 \in 1..Len(queue)
  BY <1>1
<1>d. w \notin served
  <2>. SUFFICES ASSUME NEW k \in 2..n, queue[k] = queue[1] PROVE FALSE
    BY <1>1, <1>a
  <2>1. k \in 1..Len(queue) /\ k # 1
    BY <1>1, <1>c
  <2>. QED
    BY <1>c, <2>1, QueueDistinct
<1>e. \A k \in 1..Len(rest) : /\ n + k \in 1..Len(queue) /\ n + k \in 2..Len(queue)
                              /\ rest[k] = queue[n + k]
  <2>. TAKE k \in 1..Len(rest)
  <2>1. Len(rest) = Len(queue) - n /\ rest[k] = queue[n + k]
    BY <1>2
  <2>. QED
    BY <1>1, <1>c, <2>1
<1>7. \A k \in 1..Len(rest) : /\ rest[k] \in Writers \ {w}
                              /\ rest[k] \notin served
                              /\ pc[rest[k]] = "waiting" /\ ~done[rest[k]]
                              /\ (k # 1 => rest[k] \notin next)
  <2>. TAKE k \in 1..Len(rest)
  <2>1. n + k \in 1..Len(queue) /\ rest[k] = queue[n + k] /\ n + k \in 2..Len(queue)
    BY <1>e
  <2>2. rest[k] \notin served
    BY <1>1, <1>a, <2>1, QueueDistinct, SMTT(40)
  <2>3. rest[k] # w
    BY <1>1, <1>a, <2>1, QueueDistinct
  <2>4. k # 1 => rest[k] \notin next
    <3>1. n + 1 \in 1..Len(queue) /\ 1 \in 1..Len(rest) /\ rest[1] = queue[n + 1]
      BY <1>1, <1>2
    <3>. QED
      BY <1>1, <1>a, <2>1, <3>1, QueueDistinct
  <2>. QED
    BY <1>1, <2>1, <2>2, <2>3, <2>4, QueueType DEF QueueInv
<1>8. QueueInv'
  <2>1. Len(queue') <= calls' /\ \A k \in 1..Len(queue') : ticket'[queue'[k]] = calls' - Len(queue') + k
    <3>1. Len(rest) <= calls /\ calls \in Nat
      BY <1>1, <1>2 DEF QueueInv, TypeOK
    <3>2. ASSUME NEW k \in 1..Len(rest)
          PROVE  ticket[rest[k]] = calls - Len(rest) + k
      <4>1. n + k \in 1..Len(queue) /\ rest[k] = queue[n + k]
        BY <1>e
      <4>2. ticket[queue[n + k]] = calls - Len(queue) + (n + k)
        BY <4>1 DEF QueueInv
      <4>. QED
        BY <1>1, <1>2, <3>1, <4>1, <4>2
    <3>. QED
      BY <1>3, <3>1, <3>2
  <2>2. \A k \in 2..Len(queue') : pc'[queue'[k]] = "waiting" /\ ~done'[queue'[k]]
    <3>. SUFFICES ASSUME NEW k \in 2..Len(rest)
                  PROVE  pc'[rest[k]] = "waiting" /\ ~done'[rest[k]]
      BY <1>3
    <3>1. k \in 1..Len(rest) /\ k # 1
      BY <1>1, <1>2, <1>c, SMTT(40)
    <3>. QED
      BY <1>4, <1>7, <1>b, <3>1
  <2>3. queue' # <<>> => pc'[queue'[1]] \in Leading \cup {"woken"} /\ ~done'[queue'[1]]
    <3>. SUFFICES ASSUME rest # <<>>
                  PROVE  pc'[rest[1]] \in Leading \cup {"woken"} /\ ~done'[rest[1]]
      BY <1>3
    <3>1. 1 \in 1..Len(rest)
      BY <1>1, <1>2, <1>c
    <3>. QED
      BY <1>4, <1>7, <1>a, <1>b, <3>1
  <2>4. ASSUME NEW v \in Writers,
               pc'[v] \in Leading \cup {"waiting"} \/ (pc'[v] = "woken" /\ ~done'[v])
        PROVE  \E k \in 1..Len(queue') : queue'[k] = v
    <3>1. v # w
      BY <1>5, <2>4 DEF Leading, Resolved
    <3>2. pc[v] \in Leading \cup {"waiting"} \/ (pc[v] = "woken" /\ ~done[v])
      BY <1>4, <1>b, <2>4, <3>1
    <3>3. PICK j \in 1..Len(queue) : queue[j] = v
      BY <3>2 DEF QueueInv
    <3>4. pc[v] = "waiting" /\ j \in 2..Len(queue)
      BY <1>1, <3>1, <3>3 DEF QueueInv
    <3>5. v \notin served
      BY <1>4, <1>b, <2>4, <3>1, <3>4 DEF Leading
    <3>6. j - n \in 1..Len(rest) /\ rest[j - n] = v
      <4>1. j > n
        BY <1>1, <1>a, <1>c, <3>3, <3>4, <3>5
      <4>2. j - n \in 1..Len(rest) /\ n + (j - n) = j
        BY <1>1, <1>2, <1>c, <4>1, SMTT(40)
      <4>. QED
        BY <1>2, <3>3, <4>2
    <3>. QED
      BY <1>3, <3>6
  <2>5. \A v \in Writers : done'[v] => pc'[v] \in {"woken", "returned"}
    <3>. SUFFICES ASSUME NEW v \in Writers, done'[v] PROVE pc'[v] \in {"woken", "returned"}
      OBVIOUS
    <3>1. v # w
      BY <1>b, <1>d DEF QueueInv, Leading
    <3>2. CASE v \in served
      <4>1. PICK k \in 2..n : queue[k] = v
        BY <1>a, <3>2
      <4>2. k \in 2..Len(queue)
        BY <1>1, <1>c
      <4>3. pc[v] = "waiting"
        BY <4>1, <4>2 DEF QueueInv
      <4>. QED
        BY <1>4, <3>1, <3>2, <4>3
    <3>3. CASE v \notin served
      BY <1>4, <1>b, <3>1, <3>3 DEF QueueInv
    <3>. QED
      BY <3>2, <3>3
  <2>6. \A v \in Writers : pc'[v] = "idle" => ticket'[v] = 0
    BY <1>4, <1>5 DEF QueueInv, Resolved
  <2>. QED
    BY <2>1, <2>2, <2>3, <2>4, <2>5, <2>6 DEF QueueInv
<1>9. \A v \in Writers : v # w => pc'[v] \notin Leading
  BY <1>1, <1>4 DEF Leading
<1>10. ASSUME NEW v \in Writers \ {w},
              pc'[v] = "returned" \/ (pc'[v] = "woken" /\ done'[v])
       PROVE  \/ pc[v] = "returned" \/ (pc[v] = "woken" /\ done[v])
              \/ \E k \in 2..n : queue[k] = v
  BY <1>1, <1>4, <1>7, <1>10, <1>a, <1>b
<1>11. queue' \in Seq(Writers) /\ Len(queue') = Len(queue) - n
  BY <1>2, <1>3
<1>. QED
  BY <1>5, <1>6, <1>8, <1>9, <1>10, <1>11
-----------------------------------------------------------------------------
(* A step of the leader that leaves the queue alone.                       *)
LEMMA LeaderStepKeepsQueue ==
  ASSUME TypeOK, QueueInv, NEW w \in Writers, pc[w] \in Leading,
         NEW x \in Leading, pc' = [pc EXCEPT ![w] = x],
         UNCHANGED <<queue, done, ticket, calls>>
  PROVE  /\ pc' \in [Writers -> PCs] /\ pc'[w] = x
         /\ \A v \in Writers \ {w} : pc'[v] = pc[v] /\ pc[v] \notin Leading
         /\ QueueInv'
<1>1. queue # <<>> /\ queue[1] = w /\ \A v \in Writers : pc[v] \in Leading => v = w
  BY LeaderIsFront
<1>2. pc' \in [Writers -> PCs] /\ pc'[w] = x /\ \A v \in Writers \ {w} : pc'[v] = pc[v]
  BY DEF TypeOK, PCs
<1>3. \A k \in 1..Len(queue) : queue[k] \in Writers /\ Len(queue) \in Nat
  BY QueueType
<1>4. \A k \in 2..Len(queue) : pc'[queue[k]] = "waiting" /\ ~done[queue[k]]
  BY <1>2, <1>3, QueueInv DEF QueueInv, Leading
<1>5. \A v \in Writers : done[v] => pc'[v] \in {"woken", "returned"}
  BY <1>1, <1>2 DEF QueueInv, Leading
<1>6. \A v \in Writers : pc'[v] = "idle" => ticket[v] = 0
  BY <1>2 DEF QueueInv, Leading
<1>7. \A v \in Writers :
        pc'[v] \in Leading \cup {"waiting"} \/ (pc'[v] = "woken" /\ ~done[v])
          => \E k \in 1..Len(queue) : queue[k] = v
  BY <1>2 DEF QueueInv
<1>8. queue # <<>> => pc'[queue[1]] \in Leading \cup {"woken"} /\ ~done[queue[1]]
  BY <1>1, <1>2 DEF QueueInv
<1>9. QueueInv'
  BY <1>4, <1>5, <1>6, <1>7, <1>8 DEF QueueInv
<1>. QED
  BY <1>1, <1>2, <1>9

(* A step that touches neither the log nor what is published keeps the      *)
(* sequence numbers, the order of the log and the write-ahead rule.         *)
LEMMA LogStays ==
  ASSUME SequencesContiguous, WriteAhead, UNCHANGED <<log, mem, lastSequence>>
  PROVE  SequencesContiguous' /\ WriteAhead'
<1>1. log' = log /\ mem' = mem /\ lastSequence' = lastSequence
  OBVIOUS
<1>2. SequencesContiguous'
  BY <1>1 DEF SequencesContiguous
<1>3. WriteAhead'
  BY <1>1 DEF WriteAhead
<1>. QED
  BY <1>2, <1>3

(* The order of the log depends on the log and on the tickets of its calls. *)
LEMMA LogOrderStays ==
  ASSUME LogInCallOrder, log' = log,
         \A k \in 1..Len(log) : ticket'[log[k].op.w] = ticket[log[k].op.w]
  PROVE  LogInCallOrder'
<1>. SUFFICES ASSUME NEW k \in 1..Len(log), NEW l \in 1..Len(log), k < l
              PROVE  \/ ticket'[log[k].op.w] < ticket'[log[l].op.w]
                     \/ log[k].op.w = log[l].op.w /\ log[k].op.i < log[l].op.i
  BY DEF LogInCallOrder
<1>1. \/ ticket[log[k].op.w] < ticket[log[l].op.w]
      \/ log[k].op.w = log[l].op.w /\ log[k].op.i < log[l].op.i
  BY DEF LogInCallOrder
<1>2. ticket'[log[k].op.w] = ticket[log[k].op.w] /\ ticket'[log[l].op.w] = ticket[log[l].op.w]
  OBVIOUS
<1>. QED
  BY <1>1, <1>2

(* The conjuncts of LogInv that speak of the log alone.                    *)
LEMMA LogInvParts ==
  ASSUME LogInv
  PROVE  SequencesContiguous /\ LogInCallOrder /\ WriteAhead
BY DEF LogInv

(* The other parts of the invariant survive a leader's step that changes   *)
(* neither the batch in flight nor the log, if it does not begin to merge  *)
(* and does not claim the log was written.                                 *)
LEMMA LeaderStepKeepsRest ==
  ASSUME IInv, NEW w \in Writers, pc[w] \in Leading,
         NEW x \in Leading, pc' = [pc EXCEPT ![w] = x],
         x \in Merging => pc[w] \in Merging, x # "logged",
         pc[w] \in {"logged", "failed"} \cup Merging => x \in Merging \cup {"failed"},
         pc[w] \in {"logged", "failed"} => x = "failed",
         UNCHANGED <<queue, done, group, tmpBatch, log, mem, lastSequence, ticket,
                     calls>>,
         bgError' \in BOOLEAN
  PROVE  IInv'
<1>. USE DEF IInv
<1>1. /\ pc' \in [Writers -> PCs] /\ pc'[w] = x
      /\ \A v \in Writers \ {w} : pc'[v] = pc[v] /\ pc[v] \notin Leading
      /\ QueueInv'
  BY LeaderStepKeepsQueue
<1>2. TypeOK'
  BY <1>1 DEF TypeOK
<1>3. Result' = Result
  BY DEF Result
<1>4. GroupInv'
  <2>1. \A v \in Writers : pc'[v] \in Merging => pc[v] \in Merging
    BY <1>1
  <2>2. /\ ResultFromGroup' = ResultFromGroup
        /\ ResultInCallOrder' = ResultInCallOrder
        /\ ResultComplete' = ResultComplete
    BY <1>3 DEF ResultFromGroup, ResultInCallOrder, ResultComplete, InResult
  <2>. QED
    BY <2>1, <2>2 DEF GroupInv
<1>5. TmpInv'
  BY <1>1 DEF TmpInv, Merging, Leading
<1>6. LogInv'
  <2>1. \A v \in Writers : pc'[v] # "logged"
    BY <1>1 DEF Leading
  <2>2. Len(log) # lastSequence => \E v \in Writers : pc'[v] \in {"logged", "failed"}
    BY <1>1 DEF LogInv, Leading
  <2>3. SequencesContiguous' /\ LogInCallOrder' /\ WriteAhead'
    BY LogInvParts, LogStays, LogOrderStays
  <2>. QED
    BY <1>3, <2>1, <2>2, <2>3 DEF LogInv
<1>7. ServedInv'
  <2>1. \A v \in Writers : InMem(v)' = InMem(v)
    BY DEF InMem
  <2>. QED
    BY <1>1, <2>1 DEF ServedInv, Leading
<1>. QED
  BY <1>1, <1>2, <1>4, <1>5, <1>6, <1>7

-----------------------------------------------------------------------------
LEMMA InitEstablishes == Init => IInv
<1>. SUFFICES ASSUME Init PROVE IInv
  OBVIOUS
<1>1. TypeOK
  BY EmptySeq DEF Init, TypeOK, PCs
<1>2. Len(queue) = 0 /\ Len(log) = 0 /\ Len(mem) = 0
  BY EmptySeq DEF Init
<1>3. QueueInv
  BY <1>2 DEF Init, QueueInv, Leading
<1>4. GroupInv /\ TmpInv /\ ServedInv
  BY DEF Init, GroupInv, TmpInv, ServedInv, Merging
<1>5. LogInv
  BY <1>2 DEF Init, LogInv, SequencesContiguous, LogInCallOrder, WriteAhead
<1>. QED
  BY <1>1, <1>3, <1>4, <1>5 DEF IInv

LEMMA CallPreserves ==
  ASSUME IInv, NEW w \in Writers, Call(w)
  PROVE  IInv'
<1>. USE DEF IInv
<1>1. /\ pc[w] = "idle" /\ ticket[w] = 0 /\ ~done[w]
      /\ queue' = Append(queue, w)
      /\ calls' = calls + 1 /\ calls \in Nat
      /\ UNCHANGED <<done, group, tmpBatch, log, mem, lastSequence, bgError>>
  BY DEF Call, QueueInv, TypeOK
<1>2. /\ Len(queue) \in Nat /\ queue' \in Seq(Writers)
      /\ Len(queue') = Len(queue) + 1
      /\ \A k \in 1..Len(queue) : queue'[k] = queue[k] /\ queue[k] \in Writers
      /\ queue'[Len(queue) + 1] = w
  BY <1>1, AppendProperties, QueueType, SMTT(40) DEF TypeOK
<1>3. pc' = [pc EXCEPT ![w] = IF queue = <<>> THEN "leading" ELSE "waiting"]
  BY DEF Call
<1>4. /\ pc' \in [Writers -> PCs]
      /\ pc'[w] = IF queue = <<>> THEN "leading" ELSE "waiting"
      /\ \A v \in Writers \ {w} : pc'[v] = pc[v]
  BY <1>3 DEF TypeOK, PCs, Leading
<1>5. /\ ticket' \in [Writers -> Nat] /\ ticket'[w] = calls + 1
      /\ \A v \in Writers \ {w} : ticket'[v] = ticket[v]
  BY <1>1 DEF Call, TypeOK
<1>6. \A k \in 1..Len(queue) : queue[k] # w
  <2>1. \A k \in 1..Len(queue) : ticket[queue[k]] = calls - Len(queue) + k /\ Len(queue) <= calls
    BY DEF QueueInv
  <2>. QED
    BY <1>1, <1>2, <2>1
<1>7. TypeOK'
  BY <1>1, <1>2, <1>4, <1>5 DEF TypeOK
<1>8. QueueInv'
  <2>1. \A k \in 1..Len(queue') : ticket'[queue'[k]] = calls' - Len(queue') + k
    <3>. TAKE k \in 1..Len(queue')
    <3>1. CASE k = Len(queue) + 1
      BY <1>1, <1>2, <1>5, <3>1
    <3>2. CASE k \in 1..Len(queue)
      <4>1. ticket[queue[k]] = calls - Len(queue) + k
        BY <3>2 DEF QueueInv
      <4>2. ticket'[queue'[k]] = ticket[queue[k]]
        BY <1>2, <1>5, <1>6, <3>2
      <4>. QED
        BY <1>1, <1>2, <4>1, <4>2
    <3>. QED
      BY <1>2, <3>1, <3>2
  <2>2. \A k \in 2..Len(queue') : pc'[queue'[k]] = "waiting" /\ ~done'[queue'[k]]
    <3>. TAKE k \in 2..Len(queue')
    <3>1. CASE k = Len(queue) + 1
      <4>1. queue # <<>> /\ queue'[k] = w
        BY <1>2, <3>1, QueueType
      <4>. QED
        BY <1>1, <1>4, <4>1
    <3>2. CASE k \in 2..Len(queue)
      <4>1. k \in 1..Len(queue) /\ pc[queue[k]] = "waiting" /\ ~done[queue[k]]
        BY <1>2, <3>2 DEF QueueInv
      <4>. QED
        BY <1>1, <1>2, <1>4, <1>6, <4>1
    <3>. QED
      BY <1>2, <3>1, <3>2
  <2>3. queue' # <<>> => pc'[queue'[1]] \in Leading \cup {"woken"} /\ ~done'[queue'[1]]
    BY <1>1, <1>2, <1>4, <1>6, QueueType DEF QueueInv, Leading
  <2>4. \A v \in Writers :
          pc'[v] \in Leading \cup {"waiting"} \/ (pc'[v] = "woken" /\ ~done'[v])
            => \E k \in 1..Len(queue') : queue'[k] = v
    <3>. TAKE v \in Writers
    <3>1. CASE v = w
      <4>1. Len(queue) + 1 \in 1..Len(queue') /\ queue'[Len(queue) + 1] = v
        BY <1>2, <3>1
      <4>. QED
        BY <4>1
    <3>2. CASE v # w /\ (pc[v] \in Leading \cup {"waiting"} \/ (pc[v] = "woken" /\ ~done[v]))
      <4>1. PICK k \in 1..Len(queue) : queue[k] = v
        BY <3>2 DEF QueueInv
      <4>2. k \in 1..Len(queue') /\ queue'[k] = v
        BY <1>2, <4>1, SMTT(40)
      <4>. QED
        BY <4>2
    <3>. QED
      BY <1>1, <1>4, <3>1, <3>2
  <2>5. \A v \in Writers : done'[v] => pc'[v] \in {"woken", "returned"}
    BY <1>1, <1>4 DEF QueueInv
  <2>6. \A v \in Writers : pc'[v] = "idle" => ticket'[v] = 0
    <3>1. pc'[w] # "idle"
      BY <1>4
    <3>. QED
      BY <1>4, <1>5, <3>1 DEF QueueInv
  <2>. QED
    <3>1. Len(queue') <= calls'
      BY <1>1, <1>2 DEF QueueInv
    <3>. QED
      BY <2>1, <2>2, <2>3, <2>4, <2>5, <2>6, <3>1 DEF QueueInv
<1>9. ASSUME NEW v \in Writers, pc'[v] \in Merging
      PROVE  /\ v # w /\ pc[v] \in Merging /\ queue # <<>>
             /\ Result' = Result /\ Result \in Seq(Op) /\ Len(Result) \in Nat
  <2>1. v # w /\ pc[v] \in Merging
    BY <1>4, <1>9 DEF Merging
  <2>2. queue # <<>> /\ queue'[1] = queue[1]
    BY <1>2, <2>1, LeaderIsFront DEF Merging, Leading
  <2>3. Result' = Result
    BY <1>1, <2>2 DEF Result, Ops
  <2>. QED
    BY <2>1, <2>2, <2>3, ResultIsBatch
<1>a. /\ calls' - Len(queue') = calls - Len(queue)
      /\ calls \in Nat /\ calls - Len(queue) \in Nat
  BY <1>1, <1>2 DEF QueueInv
<1>10. GroupInv'
  <2>. SUFFICES ASSUME NEW v \in Writers, pc'[v] \in Merging
                PROVE  /\ v \notin Flushes
                       /\ group.n \in 1..Len(queue')
                       /\ ResultFromGroup' /\ ResultInCallOrder' /\ ResultComplete'
    BY <1>1 DEF GroupInv
  <2>1. /\ pc[v] \in Merging /\ Len(Result) \in Nat
        /\ Result \in Seq(Op) /\ Result' = Result
    BY <1>9
  <2>2. /\ v \notin Flushes /\ group.n \in 1..Len(queue) /\ group.n \in Nat
        /\ ResultFromGroup /\ ResultInCallOrder /\ ResultComplete
    BY <2>1 DEF GroupInv, TypeOK
  <2>3. \A k \in 1..Len(Result) : ticket'[Result[k].w] = ticket[Result[k].w]
    <3>. TAKE k \in 1..Len(Result)
    <3>1. Result[k] \in Op
      BY <2>1, ElementOfSeq
    <3>2. Result[k].w \in Writers
      BY <3>1 DEF Op
    <3>3. ticket[Result[k].w] > calls - Len(queue)
      BY <2>2 DEF ResultFromGroup
    <3>. QED
      BY <1>1, <1>5, <1>a, <3>2, <3>3, SMTT(40)
  <2>4. \A m \in 1..group.n : queue'[m] = queue[m]
    BY <1>2, <2>2
  <2>5. ResultFromGroup'
    BY <1>1, <1>a, <2>1, <2>2, <2>3 DEF ResultFromGroup
  <2>6. ResultInCallOrder'
    BY <2>1, <2>2, <2>3 DEF ResultInCallOrder
  <2>7. ResultComplete'
    BY <1>1, <2>1, <2>2, <2>4 DEF ResultComplete, InResult
  <2>. QED
    BY <1>2, <2>2, <2>5, <2>6, <2>7
<1>11. TmpInv'
  BY <1>1, <1>4 DEF TmpInv, Merging
<1>12. LogInv'
  <2>1. Len(log) \in Nat /\ log \in Seq(Entry) /\ lastSequence \in Nat
    BY LenProperties DEF TypeOK
  <2>2. \A k \in 1..Len(log) : ticket'[log[k].op.w] = ticket[log[k].op.w]
    <3>. TAKE k \in 1..Len(log)
    <3>1. log[k] \in Entry
      BY <2>1, ElementOfSeq
    <3>2. log[k].op.w \in Writers
      BY <3>1 DEF Entry, Op
    <3>3. ticket[log[k].op.w] > 0
      BY DEF LogInv
    <3>. QED
      BY <1>1, <1>5, <3>2, <3>3
  <2>4. SequencesContiguous' /\ WriteAhead'
    BY <1>1, LogInvParts, LogStays
  <2>5. LogInCallOrder'
    BY <1>1, <2>2, LogInvParts, LogOrderStays
  <2>6. \A k \in 1..Len(log) : ticket'[log[k].op.w] > 0
    BY <2>2 DEF LogInv
  <2>7. \A k \in 1..lastSequence : ticket'[log[k].op.w] <= calls' - Len(queue')
    <3>. TAKE k \in 1..lastSequence
    <3>1. k \in 1..Len(log)
      BY <2>1 DEF LogInv, WriteAhead
    <3>. QED
      BY <1>a, <2>2, <3>1 DEF LogInv
  <2>8. Len(log) # lastSequence => \E v \in Writers : pc'[v] \in {"logged", "failed"}
    BY <1>1, <1>4 DEF LogInv
  <2>9. \A v \in Writers : pc'[v] = "logged" => ResultLogged'
    BY <1>1, <1>4, <1>9 DEF LogInv, Merging, ResultLogged
  <2>. QED
    BY <1>1, <2>4, <2>5, <2>6, <2>7, <2>8, <2>9 DEF LogInv
<1>13. ServedInv'
  <2>1. \A v \in Writers : InMem(v)' = InMem(v)
    BY <1>1 DEF InMem
  <2>. QED
    BY <1>1, <1>4, <2>1 DEF ServedInv
<1>. QED
  BY <1>7, <1>8, <1>10, <1>11, <1>12, <1>13

LEMMA ResumePreserves ==
  ASSUME IInv, NEW w \in Writers, Resume(w)
  PROVE  IInv'
<1>. USE DEF IInv
<1>1. /\ pc[w] = "woken"
      /\ pc' = [pc EXCEPT ![w] = IF done[w] THEN "returned"
                                 ELSE IF queue[1] = w THEN "leading" ELSE "waiting"]
      /\ UNCHANGED <<queue, done, group, tmpBatch, log, mem, lastSequence, bgError,
                     ticket, calls>>
  BY DEF Resume
<1>2. \A v \in Writers \ {w} : pc'[v] = pc[v]
  BY <1>1 DEF TypeOK
<1>3. ~done[w] => queue[1] = w
  <2>. SUFFICES ASSUME ~done[w] PROVE queue[1] = w
    OBVIOUS
  <2>1. PICK k \in 1..Len(queue) : queue[k] = w
    BY <1>1 DEF QueueInv
  <2>2. k \notin 2..Len(queue)
    BY <1>1, <2>1 DEF QueueInv
  <2>. QED
    BY <2>1, <2>2, QueueType
<1>4. pc'[w] = IF done[w] THEN "returned" ELSE "leading"
  BY <1>1, <1>3 DEF TypeOK
<1>5. \A k \in 1..Len(queue) : queue[k] \in Writers /\ ~done[queue[k]]
  <2>. TAKE k \in 1..Len(queue)
  <2>1. CASE k = 1
    BY <2>1, QueueType DEF QueueInv
  <2>2. CASE k \in 2..Len(queue)
    BY <2>2, QueueType DEF QueueInv
  <2>. QED
    BY <2>1, <2>2, QueueType
<1>6. TypeOK'
  BY <1>1, <1>2, <1>4 DEF TypeOK, PCs, Leading, Resolved
<1>7. QueueInv'
  <2>1. \A k \in 2..Len(queue) : pc'[queue[k]] = "waiting" /\ ~done[queue[k]]
    <3>. TAKE k \in 2..Len(queue)
    <3>1. k \in 1..Len(queue) /\ pc[queue[k]] = "waiting"
      BY QueueType DEF QueueInv
    <3>. QED
      BY <1>1, <1>2, <1>5, <3>1
  <2>2. queue # <<>> => pc'[queue[1]] \in Leading \cup {"woken"} /\ ~done[queue[1]]
    BY <1>2, <1>4, <1>5, QueueType DEF QueueInv, Leading
  <2>3. \A v \in Writers :
          pc'[v] \in Leading \cup {"waiting"} \/ (pc'[v] = "woken" /\ ~done[v])
            => \E k \in 1..Len(queue) : queue[k] = v
    BY <1>1, <1>2, <1>4 DEF QueueInv, Leading
  <2>4. \A v \in Writers : done[v] => pc'[v] \in {"woken", "returned"}
    BY <1>2, <1>4 DEF QueueInv
  <2>5. pc'[w] # "idle"
    BY <1>4
  <2>6. \A v \in Writers : pc'[v] = "idle" => ticket[v] = 0
    BY <1>2, <2>5 DEF QueueInv
  <2>7. Len(queue) <= calls /\ \A k \in 1..Len(queue) : ticket[queue[k]] = calls - Len(queue) + k
    BY DEF QueueInv
  <2>. QED
    BY <1>1, <2>1, <2>2, <2>3, <2>4, <2>6, <2>7 DEF QueueInv
<1>8. Result' = Result
  BY <1>1 DEF Result
<1>9. \A v \in Writers : pc'[v] \in Merging => pc[v] \in Merging
  BY <1>2, <1>4 DEF Merging
<1>10. GroupInv'
  <2>1. /\ ResultFromGroup' = ResultFromGroup
        /\ ResultInCallOrder' = ResultInCallOrder
        /\ ResultComplete' = ResultComplete
    BY <1>1, <1>8 DEF ResultFromGroup, ResultInCallOrder, ResultComplete,
       InResult
  <2>. QED
    BY <1>1, <1>9, <2>1 DEF GroupInv
<1>11. TmpInv'
  BY <1>1, <1>2 DEF TmpInv, Merging
<1>12. LogInv'
  <2>1. SequencesContiguous' /\ LogInCallOrder' /\ WriteAhead'
    BY <1>1, LogInvParts, LogStays, LogOrderStays
  <2>2. \A v \in Writers : pc'[v] = "logged" => ResultLogged'
    <3>1. ResultLogged' = ResultLogged
      BY <1>1, <1>8 DEF ResultLogged
    <3>2. \A v \in Writers : pc'[v] = "logged" => pc[v] = "logged"
      BY <1>2, <1>4
    <3>. QED
      BY <3>1, <3>2 DEF LogInv
  <2>3. Len(log) # lastSequence => \E v \in Writers : pc'[v] \in {"logged", "failed"}
    BY <1>1, <1>2 DEF LogInv
  <2>. QED
    BY <1>1, <2>1, <2>2, <2>3 DEF LogInv
<1>13. ServedInv'
  <2>1. \A v \in Writers : InMem(v)' = InMem(v)
    BY <1>1 DEF InMem
  <2>. QED
    BY <1>1, <1>2, <1>4, <2>1 DEF ServedInv
<1>. QED
  BY <1>6, <1>7, <1>10, <1>11, <1>12, <1>13

LEMMA RoomPreserves ==
  ASSUME IInv, NEW w \in Writers,
         MakeRoom(w) \/ MakeRoomThrows(w) \/ MakeRoomSpins(w)
  PROVE  IInv'
<1>1. PICK x \in {"refused", "room", "failed", "spinning"} :
        /\ pc[w] = "leading" /\ pc' = [pc EXCEPT ![w] = x]
        /\ UNCHANGED <<queue, done, group, tmpBatch, log, mem, lastSequence,
                       bgError, ticket, calls>>
  BY DEF MakeRoom, MakeRoomThrows, MakeRoomSpins
<1>2. pc[w] \in Leading /\ x \in Leading /\ x \notin Merging /\ pc[w] \notin Merging
      /\ bgError' \in BOOLEAN /\ pc[w] \notin {"logged", "failed"} /\ x # "logged"
  BY <1>1 DEF Leading, Merging, IInv, TypeOK
<1>. QED
  BY <1>1, <1>2, LeaderStepKeepsRest

LEMMA SubmitPreserves ==
  ASSUME IInv, NEW w \in Writers, SubmitGroup(w)
  PROVE  IInv'
<1>1. /\ pc[w] = "building" /\ pc' = [pc EXCEPT ![w] = "logging"]
      /\ UNCHANGED <<queue, done, group, tmpBatch, log, mem, lastSequence,
                     bgError, ticket, calls>>
  BY DEF SubmitGroup
<1>2. /\ pc[w] \in Leading /\ "logging" \in Leading
      /\ "logging" \in Merging /\ pc[w] \in Merging
      /\ bgError' \in BOOLEAN /\ pc[w] \notin {"logged", "failed"}
  BY <1>1 DEF Leading, Merging, IInv, TypeOK
<1>. QED
  BY <1>1, <1>2, LeaderStepKeepsRest

LEMMA LogThrowsPreserves ==
  ASSUME IInv, NEW w \in Writers, LogThrows(w)
  PROVE  IInv'
<1>1. /\ pc[w] \in {"logging", "logged"} /\ pc' = [pc EXCEPT ![w] = "failed"]
      /\ UNCHANGED <<queue, done, group, tmpBatch, log, mem, lastSequence,
                     bgError, ticket, calls>>
  BY DEF LogThrows
<1>2. /\ pc[w] \in Leading /\ "failed" \in Leading
      /\ "failed" \notin Merging /\ bgError' \in BOOLEAN
  BY <1>1 DEF Leading, Merging, IInv, TypeOK
<1>. QED
  BY <1>1, <1>2, LeaderStepKeepsRest

(* Steps that change nothing but bgError, and stuttering.                  *)
LEMMA IdlePreserves ==
  ASSUME IInv, BackgroundError \/ UNCHANGED vars
  PROVE  IInv'
<1>. USE DEF IInv
<1>1. /\ UNCHANGED <<queue, pc, done, group, tmpBatch, log, mem, lastSequence,
                     ticket, calls>>
      /\ bgError' \in BOOLEAN
  BY DEF BackgroundError, vars, TypeOK
<1>2. TypeOK'
  BY <1>1 DEF TypeOK
<1>3. Result' = Result
  BY <1>1 DEF Result
<1>4. QueueInv'
  BY <1>1 DEF QueueInv
<1>5. GroupInv'
  <2>1. /\ ResultFromGroup' = ResultFromGroup
        /\ ResultInCallOrder' = ResultInCallOrder
        /\ ResultComplete' = ResultComplete
    BY <1>1, <1>3 DEF ResultFromGroup, ResultInCallOrder, ResultComplete,
       InResult
  <2>. QED
    BY <1>1, <2>1 DEF GroupInv
<1>6. TmpInv'
  BY <1>1 DEF TmpInv
<1>7. LogInv'
  <2>1. SequencesContiguous' /\ LogInCallOrder' /\ WriteAhead'
    BY <1>1, LogInvParts, LogStays, LogOrderStays
  <2>2. ResultLogged' = ResultLogged
    BY <1>1, <1>3 DEF ResultLogged
  <2>. QED
    BY <1>1, <2>1, <2>2 DEF LogInv
<1>8. ServedInv'
  BY <1>1 DEF ServedInv, InMem
<1>. QED
  BY <1>2, <1>4, <1>5, <1>6, <1>7, <1>8

LEMMA StartGroupPreserves ==
  ASSUME IInv, NEW w \in Writers, StartGroup(w)
  PROVE  IInv'
<1>. USE DEF IInv
<1>1. /\ pc[w] = "room" /\ w \notin Flushes /\ pc' = [pc EXCEPT ![w] = "building"]
      /\ group' = [n |-> 1, size |-> Size[w], merged |-> FALSE]
      /\ UNCHANGED <<queue, done, tmpBatch, log, mem, lastSequence, bgError,
                     ticket, calls>>
  BY DEF StartGroup
<1>2. pc[w] \in Leading /\ "building" \in Leading /\ pc[w] \notin Merging
  BY <1>1 DEF Leading, Merging
<1>3. /\ pc' \in [Writers -> PCs] /\ pc'[w] = "building"
      /\ \A v \in Writers \ {w} : pc'[v] = pc[v] /\ pc[v] \notin Leading
      /\ QueueInv'
  BY <1>1, <1>2, LeaderStepKeepsQueue
<1>4. queue # <<>> /\ queue[1] = w /\ Len(queue) \in Nat /\ Len(queue) >= 1
  BY <1>2, LeaderIsFront
<1>5. TypeOK'
  BY <1>1, <1>3 DEF TypeOK
<1>6. \A v \in Writers : pc[v] \notin Merging \cup {"failed", "logged"}
  BY <1>1, <1>3 DEF Merging, Leading
<1>7. TmpInv'
  BY <1>1, <1>6 DEF TmpInv
<1>8. Result' = Ops(w)
  BY <1>1, <1>4 DEF Result, Ops
<1>9. /\ Len(Ops(w)) = Count[w] /\ Count[w] \in Nat
      /\ \A i \in 1..Count[w] : Ops(w)[i] = [w |-> w, i |-> i]
  BY OpsOfBatch
<1>10. GroupInv'
  <2>1. \A v \in Writers : pc'[v] \in Merging => v \notin Flushes
    BY <1>1, <1>3 DEF Merging, Leading
  <2>2. ticket[w] = calls - Len(queue) + 1 /\ calls \in Nat
    BY <1>4, SMTT(40) DEF QueueInv, TypeOK
  <2>a. \A k \in 1..Len(Result') : Result'[k].w = w /\ Result'[k].i = k
    BY <1>8, <1>9
  <2>3. ResultFromGroup'
    <3>. SUFFICES ASSUME NEW k \in 1..Len(Result')
                  PROVE  /\ ticket[Result'[k].w] > calls - Len(queue)
                         /\ ticket[Result'[k].w] <= calls - Len(queue) + 1
      BY <1>1 DEF ResultFromGroup
    <3>1. ticket[Result'[k].w] = calls - Len(queue) + 1
      BY <2>2, <2>a
    <3>. QED
      BY <1>4, <2>2, <3>1
  <2>4. ResultInCallOrder'
    <3>. SUFFICES ASSUME NEW k \in 1..Len(Result'), NEW l \in 1..Len(Result'), k < l
                  PROVE  Result'[k].w = Result'[l].w /\ Result'[k].i < Result'[l].i
      BY <1>1 DEF ResultInCallOrder
    <3>. QED
      BY <2>a
  <2>5. \A i \in 1..Count[w] : \E k \in 1..Len(Result') : Result'[k] = [w |-> w, i |-> i]
    BY <1>8, <1>9
  <2>6. ResultComplete'
    <3>1. group'.n = 1 /\ queue' = queue /\ queue[1] = w
      BY <1>1, <1>4
    <3>2. InResult(w)'
      BY <2>5 DEF InResult
    <3>3. \A m \in 1..1 : queue[m] = w
      BY <3>1
    <3>. QED
      BY <2>5, <3>1, <3>3, SMTT(40) DEF ResultComplete, InResult
  <2>. QED
    BY <1>1, <1>4, <2>1, <2>3, <2>4, <2>6 DEF GroupInv
<1>11. LogInv'
  <2>1. SequencesContiguous' /\ WriteAhead'
    BY <1>1, LogInvParts, LogStays
  <2>4. LogInCallOrder'
    BY <1>1, LogInvParts, LogOrderStays
  <2>2. \A v \in Writers : pc'[v] # "logged"
    BY <1>3 DEF Leading
  <2>3. Len(log) = lastSequence
    BY <1>6 DEF LogInv
  <2>. QED
    BY <1>1, <2>1, <2>2, <2>3, <2>4 DEF LogInv
<1>12. ServedInv'
  <2>1. \A v \in Writers : InMem(v)' = InMem(v)
    BY <1>1 DEF InMem
  <2>. QED
    BY <1>1, <1>3, <2>1 DEF ServedInv
<1>. QED
  BY <1>3, <1>5, <1>7, <1>10, <1>11, <1>12

(* Building a group touches neither the queue nor the log.                 *)
LEMMA ExtendKeepsLog ==
  ASSUME IInv, NEW w \in Writers, pc[w] = "building",
         UNCHANGED <<queue, pc, done, log, mem, lastSequence, bgError, ticket, calls>>
  PROVE  QueueInv' /\ LogInv' /\ ServedInv'
<1>. USE DEF IInv
<1>1. QueueInv'
  BY DEF QueueInv
<1>2. \A v \in Writers : pc[v] # "logged" /\ pc[v] # "failed"
  BY LeaderIsFront DEF Leading
<1>3. SequencesContiguous' /\ LogInCallOrder' /\ WriteAhead'
  BY LogInvParts, LogStays, LogOrderStays
<1>4. LogInv'
  BY <1>2, <1>3 DEF LogInv
<1>5. ServedInv'
  BY DEF ServedInv, InMem
<1>. QED
  BY <1>1, <1>4, <1>5

LEMMA ExtendGroupPreserves ==
  ASSUME IInv, NEW w \in Writers, ExtendGroup(w)
  PROVE  IInv'
<1>. USE DEF IInv
<1>. DEFINE next == queue[group.n + 1]
<1>1. /\ pc[w] = "building" /\ group.n < Len(queue)
      /\ UNCHANGED <<queue, pc, done, log, mem, lastSequence, bgError, ticket, calls>>
  BY DEF ExtendGroup, Fits
<1>2. /\ queue # <<>> /\ queue[1] = w /\ Len(queue) \in Nat
      /\ \A v \in Writers : pc[v] \in Leading => v = w
      /\ pc[w] \in Merging /\ pc[w] \in Leading
  BY <1>1, LeaderIsFront DEF Leading, Merging
<1>3. /\ w \notin Flushes /\ group.n \in 1..Len(queue) /\ group.n \in Nat
      /\ ResultFromGroup /\ ResultInCallOrder /\ ResultComplete
      /\ group.size \in Nat /\ group.merged \in BOOLEAN
  BY <1>2 DEF GroupInv, TypeOK
<1>4. group.n + 1 \in 1..Len(queue) /\ next \in Writers /\ Size[next] \in Nat
  BY <1>1, <1>2, <1>3, QueueType
<1>5. ticket[next] = calls - Len(queue) + (group.n + 1) /\ calls \in Nat
  BY <1>4 DEF QueueInv, TypeOK
<1>6. Result \in Seq(Op) /\ Len(Result) \in Nat
  BY <1>2, ResultIsBatch
<1>. HIDE DEF next
<1>7. CASE next \in Flushes
  <2>1. group' = [group EXCEPT !.n = @ + 1] /\ tmpBatch' = tmpBatch
    BY <1>7 DEF ExtendGroup, next
  <2>a. group \in [n : Nat, size : Nat, merged : BOOLEAN]
    BY DEF TypeOK
  <2>b. group' = [n |-> group.n + 1, size |-> group.size, merged |-> group.merged]
    BY <2>1, <2>a
  <2>2. /\ group'.n = group.n + 1 /\ group'.merged = group.merged
        /\ group' \in [n : Nat, size : Nat, merged : BOOLEAN]
    BY <1>3, <2>b
  <2>3. Result' = Result
    BY <1>1, <2>1, <2>2 DEF Result
  <2>4. TypeOK'
    BY <1>1, <2>1, <2>2 DEF TypeOK
  <2>5. GroupInv'
    <3>1. ResultFromGroup'
      <4>. SUFFICES ASSUME NEW k \in 1..Len(Result)
                    PROVE  /\ ticket[Result[k].w] > calls - Len(queue)
                           /\ ticket[Result[k].w] <= calls - Len(queue) + (group.n + 1)
        BY <1>1, <2>2, <2>3 DEF ResultFromGroup
      <4>1. Result[k].w \in Writers
        BY <1>6, BatchRecord
      <4>2. ticket[Result[k].w] \in Nat
        BY <4>1 DEF TypeOK
      <4>. QED
        BY <1>2, <1>3, <1>5, <4>2, SMTT(40) DEF ResultFromGroup
    <3>2. ResultInCallOrder'
      BY <1>1, <1>3, <2>3 DEF ResultInCallOrder
    <3>3. ResultComplete'
      <4>. SUFFICES ASSUME NEW m \in 1..(group.n + 1), queue[m] \notin Flushes
                    PROVE  InResult(queue[m])'
        BY <1>1, <2>2, <2>3 DEF ResultComplete, InResult
      <4>1. m \in 1..group.n
        BY <1>3, <1>7 DEF next
      <4>. QED
        BY <1>1, <1>3, <2>3, <4>1 DEF ResultComplete, InResult
    <3>. QED
      BY <1>1, <1>2, <1>3, <1>4, <2>2, <3>1, <3>2, <3>3 DEF GroupInv, Leading,
         Merging
  <2>6. TmpInv'
    BY <1>1, <2>1, <2>2 DEF TmpInv
  <2>. QED
    BY <1>1, <1>2, <2>4, <2>5, <2>6, ExtendKeepsLog
<1>8. CASE next \notin Flushes
  <2>1. /\ group' = [n |-> group.n + 1, size |-> group.size + Size[next], merged |-> TRUE]
        /\ tmpBatch' = (IF group.merged THEN tmpBatch ELSE tmpBatch \o Ops(w)) \o Ops(next)
    BY <1>8 DEF ExtendGroup, next
  <2>2. ~group.merged => tmpBatch = <<>>
    BY <1>2 DEF TmpInv, Leading, Merging
  <2>3. Ops(w) \in Seq(Op) /\ <<>> \o Ops(w) = Ops(w)
    BY OpsOfBatch, ConcatEmptySeq
  <2>4. Result = IF group.merged THEN tmpBatch ELSE tmpBatch \o Ops(w)
    BY <1>2, <2>2, <2>3 DEF Result
  <2>5. tmpBatch' = Result \o Ops(next) /\ Result' = Result \o Ops(next)
    BY <2>1, <2>4 DEF Result
  <2>6. Result' \in Seq(Op) /\ Len(Result) \in Nat /\ Count[next] \in Nat
    BY <1>4, <1>6, <2>5, ExtendedBatch
  <2>c. Extends(Result', Result, next)
    BY <1>4, <1>6, <2>5, ExtendedBatch
  <2>7. /\ Len(Result') = Len(Result) + Count[next]
        /\ \A k \in 1..Len(Result) : Result'[k] = Result[k]
        /\ \A k \in (Len(Result) + 1)..Len(Result') :
              Result'[k].w = next /\ Result'[k].i = k - Len(Result)
        /\ \A i \in 1..Count[next] : Result'[Len(Result) + i] = [w |-> next, i |-> i]
    BY <2>c DEF Extends
  <2>8. TypeOK'
    <3>1. group' \in [n : Nat, size : Nat, merged : BOOLEAN]
      BY <1>3, <1>4, <2>1, SMTT(40)
    <3>2. tmpBatch' \in Seq(Op)
      BY <2>5, <2>6
    <3>. QED
      BY <1>1, <3>1, <3>2 DEF TypeOK
  <2>9. ASSUME NEW k \in 1..Len(Result)
        PROVE  /\ Result[k].w \in Writers /\ ticket[Result[k].w] \in Nat
               /\ ticket[Result[k].w] > calls - Len(queue)
               /\ ticket[Result[k].w] <= calls - Len(queue) + group.n
    <3>1. Result[k].w \in Writers
      BY <1>6, BatchRecord
    <3>. QED
      BY <1>3, <3>1 DEF TypeOK, ResultFromGroup
  <2>10. GroupInv'
    <3>1. ResultFromGroup'
      <4>. SUFFICES ASSUME NEW k \in 1..Len(Result')
                    PROVE  /\ ticket[Result'[k].w] > calls - Len(queue)
                           /\ ticket[Result'[k].w] <= calls - Len(queue) + (group.n + 1)
        BY <1>1, <2>1 DEF ResultFromGroup
      <4>1. CASE k \in 1..Len(Result)
        <5>1. Result'[k] = Result[k]
          BY <2>7, <4>1
        <5>. QED
          <6>1. /\ ticket[Result'[k].w] = ticket[Result[k].w] /\ ticket[Result[k].w] \in Nat
                /\ ticket[Result[k].w] > calls - Len(queue)
                /\ ticket[Result[k].w] <= calls - Len(queue) + group.n
            BY <2>9, <4>1, <5>1
          <6>. QED
            BY <1>2, <1>3, <1>5, <6>1, SMTT(40)
      <4>2. CASE k \in (Len(Result) + 1)..Len(Result')
        <5>1. ticket[Result'[k].w] = calls - Len(queue) + (group.n + 1)
          BY <1>5, <2>7, <4>2
        <5>. QED
          BY <1>2, <1>3, <1>5, <5>1
      <4>. QED
        BY <1>6, <2>6, <2>7, <4>1, <4>2
    <3>2. ResultInCallOrder'
      <4>. SUFFICES ASSUME NEW k \in 1..Len(Result'), NEW l \in 1..Len(Result'), k < l
                    PROVE  \/ ticket[Result'[k].w] < ticket[Result'[l].w]
                           \/ Result'[k].w = Result'[l].w /\ Result'[k].i < Result'[l].i
        BY <1>1 DEF ResultInCallOrder
      <4>1. CASE l \in 1..Len(Result)
        <5>1. k \in 1..Len(Result)
          BY <1>6, <4>1
        <5>2. Result'[k] = Result[k] /\ Result'[l] = Result[l]
          BY <2>7, <4>1, <5>1
        <5>. QED
          BY <1>3, <4>1, <5>1, <5>2 DEF ResultInCallOrder
      <4>2. CASE k \in 1..Len(Result) /\ l \in (Len(Result) + 1)..Len(Result')
        <5>1. Result'[k] = Result[k] /\ Result'[l].w = next
          BY <2>7, <4>2
        <5>. QED
          <6>1. /\ ticket[Result'[k].w] = ticket[Result[k].w] /\ ticket[Result[k].w] \in Nat
                /\ ticket[Result[k].w] <= calls - Len(queue) + group.n
            BY <2>9, <4>2, <5>1
          <6>2. ticket[Result'[l].w] = calls - Len(queue) + (group.n + 1)
            BY <1>5, <5>1
          <6>. QED
            BY <1>2, <1>3, <1>5, <6>1, <6>2, SMTT(40)
      <4>3. CASE k \in (Len(Result) + 1)..Len(Result') /\ l \in (Len(Result) + 1)..Len(Result')
        <5>1. /\ Result'[k].w = next /\ Result'[k].i = k - Len(Result)
              /\ Result'[l].w = next /\ Result'[l].i = l - Len(Result)
          BY <2>7, <4>3
        <5>. QED
          BY <1>6, <5>1
      <4>. QED
        BY <1>6, <2>6, <2>7, <4>1, <4>2, <4>3, SMTT(40)
    <3>3. ResultComplete'
      <4>. SUFFICES ASSUME NEW m \in 1..(group.n + 1), queue[m] \notin Flushes
                    PROVE  \A i \in 1..Count[queue[m]] :
                             \E k \in 1..Len(Result') : Result'[k] = [w |-> queue[m], i |-> i]
        BY <1>1, <2>1 DEF ResultComplete, InResult
      <4>1. CASE m \in 1..group.n
        <5>. TAKE i \in 1..Count[queue[m]]
        <5>1. PICK k \in 1..Len(Result) : Result[k] = [w |-> queue[m], i |-> i]
          BY <1>3, <4>1 DEF ResultComplete, InResult
        <5>2. k \in 1..Len(Result')
          BY <2>6, <2>7
        <5>3. Result'[k] = [w |-> queue[m], i |-> i]
          BY <2>7, <5>1
        <5>. QED
          BY <5>2, <5>3
      <4>2. CASE m = group.n + 1
        <5>. TAKE i \in 1..Count[queue[m]]
        <5>1. i \in 1..Count[next] /\ queue[m] = next
          BY <4>2 DEF next
        <5>2. Len(Result) + i \in 1..Len(Result')
          BY <2>6, <2>7, <5>1
        <5>3. Result'[Len(Result) + i] = [w |-> next, i |-> i]
          BY <2>7, <5>1
        <5>. QED
          BY <5>1, <5>2, <5>3
      <4>. QED
        BY <1>3, <4>1, <4>2
    <3>. QED
      BY <1>1, <1>2, <1>3, <1>4, <2>1, <3>1, <3>2, <3>3 DEF GroupInv, Leading,
         Merging
  <2>11. TmpInv'
    BY <1>1, <1>2, <2>1 DEF TmpInv
  <2>. QED
    BY <1>1, <1>2, <2>8, <2>10, <2>11, ExtendKeepsLog
<1>. QED
  BY <1>7, <1>8

-----------------------------------------------------------------------------
(* The batch in flight reaches the log: it lies behind everything that was *)
(* published, and its calls arrived after those of everything published.   *)
LEMMA LogAppendPreserves ==
  ASSUME IInv, NEW w \in Writers, LogAppend(w)
  PROVE  IInv'
<1>. USE DEF IInv
<1>1. /\ pc[w] = "logging" /\ pc' = [pc EXCEPT ![w] = "logged"]
      /\ log' = log \o Stamped(Result)
      /\ UNCHANGED <<queue, done, group, tmpBatch, mem, lastSequence, bgError,
                     ticket, calls>>
  BY DEF LogAppend
<1>2. /\ pc[w] \in Leading /\ pc[w] \in Merging /\ "logged" \in Leading
      /\ "logged" \in Merging
  BY <1>1 DEF Leading, Merging
<1>3. /\ pc' \in [Writers -> PCs] /\ pc'[w] = "logged"
      /\ \A v \in Writers \ {w} : pc'[v] = pc[v] /\ pc[v] \notin Leading
      /\ QueueInv'
  BY <1>1, <1>2, LeaderStepKeepsQueue
<1>4. /\ queue # <<>> /\ Len(queue) \in Nat /\ calls \in Nat /\ Len(queue) <= calls
      /\ lastSequence \in Nat /\ log \in Seq(Entry) /\ Len(log) \in Nat
  BY <1>2, LeaderIsFront, LenProperties DEF TypeOK, QueueInv
<1>5. Result \in Seq(Op) /\ Len(Result) \in Nat
  BY <1>4, ResultIsBatch
<1>6. group.n \in Nat /\ ResultFromGroup /\ ResultInCallOrder
  BY <1>2 DEF GroupInv, TypeOK
<1>7. Len(log) = lastSequence
  BY <1>1, <1>3 DEF LogInv, Leading
<1>8. /\ log' \in Seq(Entry) /\ Len(log') = lastSequence + Len(Result)
      /\ \A k \in 1..lastSequence : log'[k] = log[k]
      /\ \A k \in 1..Len(Result) :
           log'[lastSequence + k] = [seq |-> lastSequence + k, op |-> Result[k]]
  <2>1. PICK ops, stamped :
          /\ ops = Result /\ stamped = Stamped(Result) /\ log' = log \o stamped
          /\ ops \in Seq(Op) /\ stamped = Stamped(ops)
    BY <1>1, <1>5
  <2>2. /\ stamped \in Seq(Entry) /\ Len(stamped) = Len(ops)
        /\ \A k \in 1..Len(ops) : stamped[k] = [seq |-> lastSequence + k, op |-> ops[k]]
    BY <2>1, StampedBatch
  <2>3. /\ log \o stamped \in Seq(Entry) /\ Len(log \o stamped) = Len(log) + Len(stamped)
        /\ \A k \in 1..Len(log) : (log \o stamped)[k] = log[k]
        /\ \A k \in 1..Len(stamped) : (log \o stamped)[Len(log) + k] = stamped[k]
    <3>1. log \in Seq(Entry) /\ stamped \in Seq(Entry)
      BY <1>4, <2>2
    <3>. QED
      BY ONLY <3>1, ConcatIndexed, SMT
  <2>. QED
    BY <1>7, <2>1, <2>2, <2>3
<1>9. ASSUME NEW k \in 1..Len(log')
      PROVE  \/ k \in 1..lastSequence
             \/ k - lastSequence \in 1..Len(Result) /\ k = lastSequence + (k - lastSequence)
  BY <1>4, <1>5, <1>8
<1>10. ASSUME NEW k \in 1..lastSequence
       PROVE  /\ log'[k] = log[k] /\ log[k].seq = k
              /\ log[k].op.w \in Writers /\ ticket[log[k].op.w] \in Nat
              /\ ticket[log[k].op.w] > 0 /\ ticket[log[k].op.w] <= calls - Len(queue)
  <2>1. k \in 1..Len(log) /\ log[k] \in Entry
    BY <1>4, <1>7, ElementOfSeq
  <2>2. log[k].op.w \in Writers
    BY <2>1 DEF Entry, Op
  <2>. QED
    BY <1>8, <2>1, <2>2 DEF LogInv, SequencesContiguous, TypeOK
<1>11. ASSUME NEW k \in 1..Len(Result)
       PROVE  /\ log'[lastSequence + k].op = Result[k]
              /\ log'[lastSequence + k].seq = lastSequence + k
              /\ Result[k].w \in Writers /\ ticket[Result[k].w] \in Nat
              /\ ticket[Result[k].w] > calls - Len(queue)
  <2>1. Result[k].w \in Writers
    BY <1>5, BatchRecord
  <2>2. log'[lastSequence + k] = [seq |-> lastSequence + k, op |-> Result[k]]
    BY <1>8
  <2>3. ticket[Result[k].w] > calls - Len(queue)
    BY <1>6 DEF ResultFromGroup
  <2>. QED
    BY <2>1, <2>2, <2>3, SMTT(40) DEF TypeOK
<1>12. Result' = Result
  BY <1>1 DEF Result
<1>13. TypeOK'
  BY <1>1, <1>3, <1>8 DEF TypeOK
<1>14. GroupInv'
  <2>1. /\ ResultFromGroup' = ResultFromGroup
        /\ ResultInCallOrder' = ResultInCallOrder
        /\ ResultComplete' = ResultComplete
    BY <1>1, <1>12 DEF ResultFromGroup, ResultInCallOrder, ResultComplete,
       InResult
  <2>2. \A v \in Writers : pc'[v] \in Merging => pc[v] \in Merging
    BY <1>2, <1>3
  <2>. QED
    BY <1>1, <2>1, <2>2 DEF GroupInv
<1>15. TmpInv'
  BY <1>1, <1>2, <1>3 DEF TmpInv, Merging, Leading
<1>16. SequencesContiguous'
  <2>. SUFFICES ASSUME NEW k \in 1..Len(log') PROVE log'[k].seq = k
    BY DEF SequencesContiguous
  <2>1. CASE k \in 1..lastSequence
    BY <1>10, <2>1
  <2>2. CASE k - lastSequence \in 1..Len(Result) /\ k = lastSequence + (k - lastSequence)
    BY <1>11, <2>2
  <2>. QED
    BY <1>9, <2>1, <2>2
<1>17. LogInCallOrder'
  <2>. SUFFICES ASSUME NEW k \in 1..Len(log'), NEW l \in 1..Len(log'), k < l
                PROVE  \/ ticket[log'[k].op.w] < ticket[log'[l].op.w]
                       \/ /\ log'[k].op.w = log'[l].op.w
                          /\ log'[k].op.i < log'[l].op.i
    BY <1>1 DEF LogInCallOrder
  <2>. DEFINE a == k - lastSequence
              b == l - lastSequence
  <2>1. CASE l \in 1..lastSequence
    <3>1. k \in 1..lastSequence /\ k \in 1..Len(log) /\ l \in 1..Len(log)
      BY <1>4, <1>7, <2>1
    <3>2. log'[k] = log[k] /\ log'[l] = log[l]
      BY <1>10, <2>1, <3>1
    <3>3. LogInCallOrder
      BY DEF LogInv
    <3>. QED
      BY <3>1, <3>2, <3>3 DEF LogInCallOrder
  <2>2. CASE k \in 1..lastSequence /\ b \in 1..Len(Result) /\ l = lastSequence + b
    <3>1. log'[k] = log[k] /\ ticket[log[k].op.w] <= calls - Len(queue) /\ ticket[log[k].op.w] \in Nat
      BY <1>10, <2>2
    <3>2. log'[l].op = Result[b] /\ ticket[Result[b].w] > calls - Len(queue) /\ ticket[Result[b].w] \in Nat
      BY <1>11, <2>2
    <3>. QED
      BY <1>4, <3>1, <3>2, SMTT(40)
  <2>3. CASE /\ a \in 1..Len(Result) /\ k = lastSequence + a
             /\ b \in 1..Len(Result) /\ l = lastSequence + b
    <3>1. log'[k].op = Result[a] /\ log'[l].op = Result[b]
      BY <1>11, <2>3
    <3>2. a < b
      BY <1>4, <2>3
    <3>. QED
      BY <1>6, <2>3, <3>1, <3>2 DEF ResultInCallOrder
  <2>4. CASE l \notin 1..lastSequence /\ k \in 1..lastSequence
    BY <1>9, <2>2, <2>4
  <2>5. CASE l \notin 1..lastSequence /\ k \notin 1..lastSequence
    BY <1>9, <2>3, <2>5
  <2>. QED
    BY <2>1, <2>4, <2>5
<1>18. WriteAhead'
  <2>1. Len(mem) = lastSequence /\ \A k \in 1..lastSequence : mem[k] = log[k]
    BY DEF LogInv, WriteAhead
  <2>2. lastSequence <= Len(log')
    BY <1>4, <1>5, <1>8
  <2>3. \A k \in 1..lastSequence : mem[k] = log'[k]
    BY <1>8, <2>1
  <2>. QED
    BY <1>1, <2>1, <2>2, <2>3 DEF WriteAhead
<1>19. \A k \in 1..Len(log') : ticket[log'[k].op.w] > 0
  <2>. TAKE k \in 1..Len(log')
  <2>1. CASE k \in 1..lastSequence
    BY <1>10, <2>1
  <2>2. CASE k - lastSequence \in 1..Len(Result) /\ k = lastSequence + (k - lastSequence)
    <3>1. /\ log'[k].op = Result[k - lastSequence]
          /\ ticket[Result[k - lastSequence].w] \in Nat
          /\ ticket[Result[k - lastSequence].w] > calls - Len(queue)
      BY <1>11, <2>2
    <3>. QED
      BY <1>4, <3>1
  <2>. QED
    BY <1>9, <2>1, <2>2
<1>20. \A k \in 1..lastSequence : ticket[log'[k].op.w] <= calls - Len(queue)
  BY <1>10
<1>21. ResultLogged'
  <2>1. \A k \in 1..Len(Result) : log'[lastSequence + k].op = Result[k]
    BY <1>11
  <2>. QED
    BY <1>1, <1>8, <1>12, <2>1 DEF ResultLogged
<1>22. LogInv'
  BY <1>1, <1>3, <1>16, <1>17, <1>18, <1>19, <1>20, <1>21 DEF LogInv
<1>23. ServedInv'
  <2>1. \A v \in Writers : InMem(v)' = InMem(v)
    BY <1>1 DEF InMem
  <2>. QED
    BY <1>1, <1>3, <2>1 DEF ServedInv
<1>. QED
  BY <1>3, <1>13, <1>14, <1>15, <1>22, <1>23

(* A leader that writes nothing pops itself.                               *)
LEMMA PopAlonePreserves ==
  ASSUME IInv, NEW w \in Writers, PopAlone(w)
  PROVE  IInv'
<1>. USE DEF IInv
<1>1. PICK outcome \in Resolved :
        /\ PopThrough(w, 1, outcome)
        /\ pc[w] = "refused" \/ (pc[w] = "room" /\ w \in Flushes)
        /\ outcome = "returned" => w \in Flushes
        /\ UNCHANGED <<group, tmpBatch, log, mem, lastSequence, bgError, ticket, calls>>
  BY DEF PopAlone, Resolved
<1>2. pc[w] \in Leading /\ pc[w] \notin Merging \cup {"failed"}
  BY <1>1 DEF Leading, Merging
<1>3. /\ queue # <<>> /\ Len(queue) \in Nat /\ Len(queue) >= 1
      /\ \A v \in Writers : pc[v] \in Leading => v = w
  BY <1>2, LeaderIsFront
<1>4. 1 \in 1..Len(queue)
  BY <1>3
<1>5. /\ queue' \in Seq(Writers) /\ Len(queue') = Len(queue) - 1
      /\ pc' \in [Writers -> PCs] /\ done' \in [Writers -> BOOLEAN]
      /\ pc'[w] = outcome /\ QueueInv'
      /\ \A v \in Writers : v # w => pc'[v] \notin Leading
      /\ \A v \in Writers \ {w} :
           pc'[v] = "returned" \/ (pc'[v] = "woken" /\ done'[v]) =>
             \/ pc[v] = "returned" \/ (pc[v] = "woken" /\ done[v])
             \/ \E k \in 2..1 : queue[k] = v
  BY <1>1, <1>2, <1>4, PopKeepsQueue
<1>6. \A v \in Writers : pc'[v] \notin Leading /\ pc[v] \notin Merging \cup {"failed"}
  BY <1>2, <1>3, <1>5 DEF Leading, Merging, Resolved
<1>7. TypeOK'
  BY <1>1, <1>5 DEF TypeOK
<1>8. GroupInv'
  BY <1>6 DEF GroupInv, Merging, Leading
<1>9. TmpInv'
  BY <1>1, <1>6 DEF TmpInv
<1>10. LogInv'
  <2>1. SequencesContiguous' /\ WriteAhead'
    BY <1>1, LogInvParts, LogStays
  <2>2. LogInCallOrder'
    BY <1>1, LogInvParts, LogOrderStays
  <2>3. Len(log) = lastSequence /\ lastSequence \in Nat /\ calls \in Nat
    BY <1>6 DEF LogInv, Merging, TypeOK
  <2>4. \A k \in 1..lastSequence : ticket[log[k].op.w] <= calls - Len(queue')
    <3>. TAKE k \in 1..lastSequence
    <3>1. log[k] \in Entry
      BY <2>3, ElementOfSeq DEF TypeOK
    <3>2. ticket[log[k].op.w] \in Nat
      BY <3>1 DEF Entry, Op, TypeOK
    <3>3. ticket[log[k].op.w] <= calls - Len(queue)
      BY DEF LogInv
    <3>. QED
      BY <1>3, <1>5, <2>3, <3>2, <3>3
  <2>5. \A v \in Writers : pc'[v] # "logged"
    BY <1>6 DEF Leading
  <2>. QED
    BY <1>1, <2>1, <2>2, <2>3, <2>4, <2>5 DEF LogInv
<1>11. ServedInv'
  <2>1. \A v \in Writers : InMem(v)' = InMem(v)
    BY <1>1 DEF InMem
  <2>2. \A k : k \notin 2..1
    OBVIOUS
  <2>. SUFFICES ASSUME NEW v \in Writers \ Flushes,
                       pc'[v] = "returned" \/ (pc'[v] = "woken" /\ done'[v])
                PROVE  InMem(v)'
    BY DEF ServedInv
  <2>3. v # w
    BY <1>1, <1>5 DEF Resolved
  <2>4. pc[v] = "returned" \/ (pc[v] = "woken" /\ done[v])
    BY <1>5, <2>2, <2>3
  <2>. QED
    BY <2>1, <2>4 DEF ServedInv
<1>. QED
  BY <1>5, <1>7, <1>8, <1>9, <1>10, <1>11

(* The leader commits: what was in flight becomes visible, the calls it    *)
(* served leave the queue, and exactly their records are now visible.      *)
LEMMA CommitPreserves ==
  ASSUME IInv, NEW w \in Writers, Commit(w)
  PROVE  IInv'
<1>. USE DEF IInv
<1>1. /\ pc[w] = "logged" /\ mem' = mem \o Stamped(Result)
      /\ lastSequence' = lastSequence + Len(Result)
      /\ tmpBatch' = IF group.merged THEN <<>> ELSE tmpBatch
      /\ PopThrough(w, group.n, "returned")
      /\ UNCHANGED <<group, log, bgError, ticket, calls>>
  BY DEF Commit
<1>2. pc[w] \in Leading /\ pc[w] \in Merging
  BY <1>1 DEF Leading, Merging
<1>3. /\ queue # <<>> /\ queue[1] = w /\ Len(queue) \in Nat /\ Len(queue) >= 1
      /\ \A v \in Writers : pc[v] \in Leading => v = w
  BY <1>2, LeaderIsFront
<1>4. /\ w \notin Flushes /\ group.n \in 1..Len(queue)
      /\ ResultFromGroup /\ ResultComplete /\ ResultLogged
  BY <1>1, <1>2 DEF GroupInv, LogInv
<1>5. /\ queue' \in Seq(Writers) /\ Len(queue') = Len(queue) - group.n
      /\ pc' \in [Writers -> PCs] /\ done' \in [Writers -> BOOLEAN]
      /\ pc'[w] = "returned" /\ QueueInv'
      /\ \A v \in Writers : v # w => pc'[v] \notin Leading
      /\ \A v \in Writers \ {w} :
           pc'[v] = "returned" \/ (pc'[v] = "woken" /\ done'[v]) =>
             \/ pc[v] = "returned" \/ (pc[v] = "woken" /\ done[v])
             \/ \E k \in 2..group.n : queue[k] = v
  <2>1. "returned" \in Resolved
    BY DEF Resolved
  <2>. QED
    BY <1>1, <1>2, <1>4, <2>1, PopKeepsQueue
<1>6. \A v \in Writers : pc'[v] \notin Leading
  BY <1>5 DEF Leading
<1>7. Result \in Seq(Op) /\ Len(Result) \in Nat
  BY <1>3, ResultIsBatch
<1>8. /\ lastSequence \in Nat /\ calls \in Nat /\ group.n \in Nat
      /\ log \in Seq(Entry) /\ mem \in Seq(Entry)
      /\ Len(mem) = lastSequence /\ \A k \in 1..lastSequence : mem[k] = log[k]
      /\ Len(log) = lastSequence + Len(Result)
      /\ \A k \in 1..Len(Result) : log[lastSequence + k].op = Result[k]
      /\ \A k \in 1..Len(log) : log[k].seq = k
  BY <1>4 DEF TypeOK, LogInv, WriteAhead, ResultLogged, SequencesContiguous
<1>9. /\ mem' \in Seq(Entry) /\ Len(mem') = lastSequence + Len(Result)
      /\ \A k \in 1..lastSequence : mem'[k] = mem[k]
      /\ \A k \in 1..Len(Result) :
           mem'[lastSequence + k] = [seq |-> lastSequence + k, op |-> Result[k]]
  <2>1. PICK ops, stamped :
          /\ ops = Result /\ stamped = Stamped(Result) /\ mem' = mem \o stamped
          /\ ops \in Seq(Op) /\ stamped = Stamped(ops)
    BY <1>1, <1>7
  <2>2. /\ stamped \in Seq(Entry) /\ Len(stamped) = Len(ops)
        /\ \A k \in 1..Len(ops) : stamped[k] = [seq |-> lastSequence + k, op |-> ops[k]]
    BY <2>1, StampedBatch
  <2>3. /\ mem \o stamped \in Seq(Entry) /\ Len(mem \o stamped) = Len(mem) + Len(stamped)
        /\ \A k \in 1..Len(mem) : (mem \o stamped)[k] = mem[k]
        /\ \A k \in 1..Len(stamped) : (mem \o stamped)[Len(mem) + k] = stamped[k]
    <3>1. mem \in Seq(Entry) /\ stamped \in Seq(Entry)
      BY <1>8, <2>2
    <3>. QED
      BY ONLY <3>1, ConcatIndexed, SMT
  <2>. QED
    BY <1>8, <2>1, <2>2, <2>3
<1>10. lastSequence' \in Nat /\ lastSequence' = Len(log)
  BY <1>1, <1>7, <1>8
<1>11. TypeOK'
  <2>1. tmpBatch' \in Seq(Op)
    BY <1>1, EmptySeq DEF TypeOK
  <2>. QED
    BY <1>1, <1>5, <1>9, <1>10, <2>1 DEF TypeOK
<1>12. GroupInv'
  BY <1>6 DEF GroupInv, Merging, Leading
<1>13. TmpInv'
  <2>1. tmpBatch # <<>> => group.merged
    BY <1>1, <1>3 DEF TmpInv, Leading, Merging
  <2>. QED
    BY <1>1, <2>1 DEF TmpInv
<1>14. WriteAhead'
  <2>1. ASSUME NEW k \in 1..Len(log)
        PROVE  mem'[k] = log[k]
    <3>1. CASE k \in 1..lastSequence
      BY <1>8, <1>9, <3>1
    <3>2. CASE k \notin 1..lastSequence
      <4>1. k - lastSequence \in 1..Len(Result) /\ k = lastSequence + (k - lastSequence)
        BY <1>7, <1>8, <3>2
      <4>2. mem'[k] = [seq |-> k, op |-> Result[k - lastSequence]]
        BY <1>9, <4>1
      <4>3. log[k].seq = k /\ log[k].op = Result[k - lastSequence]
        BY <1>8, <4>1
      <4>4. log[k] \in Entry
        BY <1>8, ElementOfSeq
      <4>5. log[k] = [seq |-> log[k].seq, op |-> log[k].op]
        BY <4>4 DEF Entry
      <4>. QED
        BY <4>2, <4>3, <4>5
    <3>. QED
      BY <3>1, <3>2
  <2>2. Len(mem') = Len(log) /\ Len(log) \in Nat
    BY <1>7, <1>8, <1>9
  <2>. QED
    BY <1>1, <1>10, <2>1, <2>2 DEF WriteAhead
<1>15. ASSUME NEW k \in 1..Len(log)
       PROVE  ticket[log[k].op.w] <= calls - Len(queue')
  <2>1. log[k] \in Entry
    BY <1>8, ElementOfSeq
  <2>2. ticket[log[k].op.w] \in Nat
    BY <2>1 DEF Entry, Op, TypeOK
  <2>3. CASE k \in 1..lastSequence
    <3>1. ticket[log[k].op.w] <= calls - Len(queue)
      BY <2>3 DEF LogInv
    <3>2. /\ Len(queue) \in Nat /\ Len(queue') = Len(queue) - group.n
          /\ group.n \in Nat /\ calls \in Nat
      BY <1>3, <1>5, <1>8
    <3>. QED
      BY <2>2, <3>1, <3>2, SMTT(40)
  <2>4. CASE k \notin 1..lastSequence
    <3>1. k - lastSequence \in 1..Len(Result) /\ k = lastSequence + (k - lastSequence)
      BY <1>7, <1>8, <2>4
    <3>2. log[k].op = Result[k - lastSequence]
      BY <1>8, <3>1
    <3>3. ticket[log[k].op.w] <= calls - Len(queue) + group.n
      BY <1>4, <3>1, <3>2 DEF ResultFromGroup
    <3>. QED
      BY <1>3, <1>5, <1>8, <2>2, <3>3
  <2>. QED
    BY <2>3, <2>4
<1>16. LogInv'
  <2>1. SequencesContiguous'
    BY <1>1 DEF LogInv, SequencesContiguous
  <2>2. LogInCallOrder'
    BY <1>1, LogInvParts, LogOrderStays
  <2>3. \A k \in 1..Len(log) : ticket[log[k].op.w] > 0
    BY DEF LogInv
  <2>4. \A v \in Writers : pc'[v] # "logged"
    BY <1>6 DEF Leading
  <2>5. \A k \in 1..lastSequence' : ticket[log[k].op.w] <= calls - Len(queue')
    BY <1>10, <1>15
  <2>. QED
    BY <1>1, <1>10, <1>14, <2>1, <2>2, <2>3, <2>4, <2>5 DEF LogInv
<1>17. ASSUME NEW v \in Writers, InMem(v)
       PROVE  InMem(v)'
  <2>. SUFFICES ASSUME NEW i \in 1..Count[v]
                PROVE  \E k \in 1..Len(mem') : mem'[k].op = [w |-> v, i |-> i]
    BY DEF InMem
  <2>1. PICK k \in 1..Len(mem) : mem[k].op = [w |-> v, i |-> i]
    BY <1>17 DEF InMem
  <2>2. k \in 1..Len(mem') /\ mem'[k] = mem[k]
    BY <1>7, <1>8, <1>9
  <2>. QED
    BY <2>1, <2>2
<1>18. ASSUME NEW v \in Writers \ Flushes, NEW m \in 1..group.n, queue[m] = v
       PROVE  InMem(v)'
  <2>. SUFFICES ASSUME NEW i \in 1..Count[v]
                PROVE  \E k \in 1..Len(mem') : mem'[k].op = [w |-> v, i |-> i]
    BY DEF InMem
  <2>1. PICK k \in 1..Len(Result) : Result[k] = [w |-> v, i |-> i]
    BY <1>4, <1>18 DEF ResultComplete, InResult
  <2>2. lastSequence + k \in 1..Len(mem')
    BY <1>7, <1>8, <1>9
  <2>3. mem'[lastSequence + k] = [seq |-> lastSequence + k, op |-> Result[k]]
    BY <1>9
  <2>. QED
    BY <2>1, <2>2, <2>3
<1>19. ServedInv'
  <2>. SUFFICES ASSUME NEW v \in Writers \ Flushes,
                       pc'[v] = "returned" \/ (pc'[v] = "woken" /\ done'[v])
                PROVE  InMem(v)'
    BY DEF ServedInv
  <2>1. CASE v = w
    <3>1. 1 \in 1..group.n
      BY <1>4, <1>8
    <3>. QED
      BY <1>3, <1>18, <2>1, <3>1
  <2>2. CASE v # w /\ (pc[v] = "returned" \/ (pc[v] = "woken" /\ done[v]))
    BY <1>17, <2>2 DEF ServedInv
  <2>3. CASE v # w /\ \E k \in 2..group.n : queue[k] = v
    <3>1. PICK k \in 2..group.n : queue[k] = v
      BY <2>3
    <3>2. k \in 1..group.n
      BY <1>8, <3>1
    <3>. QED
      BY <1>18, <3>1, <3>2
  <2>. QED
    BY <1>5, <2>1, <2>2, <2>3
<1>. QED
  BY <1>5, <1>11, <1>12, <1>13, <1>16, <1>19

-----------------------------------------------------------------------------
LEMMA NextPreserves ==
  ASSUME IInv, [Next]_vars
  PROVE  IInv'
<1>1. CASE BackgroundError \/ UNCHANGED vars
  BY <1>1, IdlePreserves
<1>2. ASSUME NEW w \in Writers,
             \/ Call(w) \/ Resume(w)
             \/ MakeRoom(w) \/ MakeRoomThrows(w) \/ MakeRoomSpins(w) \/ PopAlone(w)
             \/ StartGroup(w) \/ ExtendGroup(w) \/ SubmitGroup(w)
             \/ LogAppend(w) \/ LogThrows(w) \/ Commit(w)
      PROVE  IInv'
  BY <1>2, CallPreserves, ResumePreserves, RoomPreserves, PopAlonePreserves,
     StartGroupPreserves, ExtendGroupPreserves, SubmitPreserves,
     LogAppendPreserves, LogThrowsPreserves, CommitPreserves
<1>. QED
  BY <1>1, <1>2 DEF Next

(* The inductive invariant holds in every reachable state.                 *)
THEOREM Invariance == Spec => []IInv
<1>1. Init => IInv
  BY InitEstablishes
<1>2. IInv /\ [Next]_vars => IInv'
  BY NextPreserves
<1>. QED
  BY <1>1, <1>2, PTL DEF Spec

(* The write path keeps its types.                                         *)
THEOREM TypeCorrect == Spec => []TypeOK
<1>1. IInv => TypeOK
  BY DEF IInv
<1>. QED
  BY <1>1, Invariance, PTL

(* The two loops of write() and the pop loop never let two calls lead.     *)
THEOREM Leadership == Spec => []OneLeader
<1>1. IInv => OneLeader
  BY LeaderIsFront DEF IInv, OneLeader
<1>. QED
  BY <1>1, Invariance, PTL

(* signal() reaches the front of the queue and everyone who was served.    *)
THEOREM WakeUps == Spec => []NoLostWakeup
<1>1. IInv => NoLostWakeup
  BY DEF IInv, QueueInv, NoLostWakeup
<1>. QED
  BY <1>1, Invariance, PTL

(* Sequence numbers are contiguous, whatever was merged with what.         *)
THEOREM Sequences == Spec => []SequencesContiguous
<1>1. IInv => SequencesContiguous
  BY DEF IInv, LogInv
<1>. QED
  BY <1>1, Invariance, PTL

(* The log keeps the order of the calls and holds no record twice.         *)
THEOREM LogOrder == Spec => []LogInCallOrder
<1>1. IInv => LogInCallOrder
  BY DEF IInv, LogInv
<1>. QED
  BY <1>1, Invariance, PTL

(* Nothing is visible before it is logged, or in another order.            *)
THEOREM LogBeforeMemtable == Spec => []WriteAhead
<1>1. IInv => WriteAhead
  BY DEF IInv, LogInv
<1>. QED
  BY <1>1, Invariance, PTL

(* A write that resolved without being refused is logged and visible.      *)
THEOREM Acknowledged == Spec => []AckedIsApplied
<1>1. ASSUME IInv, NEW w \in Writers \ Flushes, pc[w] = "returned"
      PROVE  InLog(w) /\ InMem(w)
  <2>1. InMem(w)
    BY <1>1 DEF IInv, ServedInv
  <2>2. /\ Len(mem) = lastSequence /\ lastSequence <= Len(log)
        /\ \A k \in 1..lastSequence : mem[k] = log[k]
        /\ Len(log) \in Nat /\ lastSequence \in Nat
    BY <1>1, LenProperties DEF IInv, LogInv, WriteAhead, TypeOK
  <2>3. ASSUME NEW i \in 1..Count[w]
        PROVE  \E k \in 1..Len(log) : log[k].op = [w |-> w, i |-> i]
    <3>1. PICK k \in 1..Len(mem) : mem[k].op = [w |-> w, i |-> i]
      BY <2>1 DEF InMem
    <3>2. k \in 1..Len(log) /\ log[k] = mem[k]
      BY <2>2
    <3>. QED
      BY <3>1, <3>2
  <2>. QED
    BY <2>1, <2>3 DEF InLog
<1>2. IInv => AckedIsApplied
  BY <1>1 DEF AckedIsApplied
<1>. QED
  BY <1>2, Invariance, PTL

(* A call that threw still blocks the front: nothing is written after it.  *)
THEOREM NothingAfterFailure == Spec => FailStop
<1>1. ASSUME IInv, [Next]_vars, NEW v \in Writers, pc[v] = "failed"
      PROVE  UNCHANGED <<log, mem, lastSequence>>
  <2>1. \A w \in Writers : pc[w] # "logging" /\ pc[w] # "logged"
    BY <1>1, LeaderIsFront DEF IInv, Leading
  <2>. QED
    BY <1>1, <2>1 DEF Next, vars, BackgroundError, Call, Resume, MakeRoom,
       MakeRoomThrows, MakeRoomSpins, PopAlone, StartGroup, ExtendGroup, SubmitGroup,
       LogAppend, LogThrows, Commit
<1>2. IInv /\ [Next]_vars =>
        [(\E w \in Writers : pc[w] = "failed") => UNCHANGED <<log, mem, lastSequence>>]_vars
  BY <1>1
<1>. QED
  BY <1>2, Invariance, PTL DEF Spec, FailStop
-----------------------------------------------------------------------------
(* The record r is one of the batch of one of the first n writers of q.    *)
OfFirst(q, r, n) ==
  \E m \in 1..n : r.w = q[m] /\ r.i \in 1..Count[q[m]]

(* While a leader merges, the batch in flight holds records of its group   *)
(* only.                                                                   *)
RecordsInv ==
  \A v \in Writers : pc[v] \in Merging =>
    \A k \in 1..Len(Result) : OfFirst(queue, Result[k], group.n)

LEMMA RecordsKept ==
  ASSUME RecordsInv, UNCHANGED <<queue, group, tmpBatch>>,
         \A v \in Writers : pc'[v] \in Merging => pc[v] \in Merging
  PROVE  RecordsInv'
<1>1. Result' = Result /\ queue' = queue /\ group' = group
  BY DEF Result
<1>. QED
  BY <1>1 DEF RecordsInv

LEMMA CallKeepsRecords ==
  ASSUME IInv, RecordsInv, NEW w \in Writers, Call(w)
  PROVE  RecordsInv'
<1>. SUFFICES ASSUME NEW v \in Writers, pc'[v] \in Merging,
                     NEW k \in 1..Len(Result')
              PROVE  OfFirst(queue', Result'[k], group'.n)
  BY DEF RecordsInv
<1>1. pc[v] \in Merging
  BY DEF Call, Merging, IInv, TypeOK
<1>2. queue # <<>> /\ group.n \in 1..Len(queue) /\ Len(queue) \in Nat
  BY <1>1, LeaderIsFront DEF IInv, GroupInv, Merging, Leading
<1>3. \A m \in 1..Len(queue) : queue'[m] = queue[m]
  BY <1>2, AppendProperties DEF Call, IInv, TypeOK
<1>4. Result' = Result /\ group' = group
  BY <1>2, <1>3, 1 \in 1..Len(queue) DEF Call, Result, Ops
<1>5. OfFirst(queue, Result[k], group.n)
  BY <1>1, <1>4 DEF RecordsInv
<1>6. PICK m \in 1..group.n :
        Result[k].w = queue[m] /\ Result[k].i \in 1..Count[queue[m]]
  BY <1>5 DEF OfFirst
<1>7. queue'[m] = queue[m]
  BY <1>2, <1>3
<1>. QED
  BY <1>4, <1>6, <1>7 DEF OfFirst

LEMMA StartKeepsRecords ==
  ASSUME IInv, NEW w \in Writers, StartGroup(w)
  PROVE  RecordsInv'
<1>1. queue # <<>> /\ queue[1] = w
  BY LeaderIsFront DEF StartGroup, IInv, Leading
<1>2. Result' = Ops(w) /\ group'.n = 1 /\ queue' = queue
  BY <1>1 DEF StartGroup, Result, Ops
<1>3. /\ Len(Ops(w)) = Count[w] /\ Count[w] \in Nat
      /\ \A i \in 1..Count[w] : Ops(w)[i] = [w |-> w, i |-> i]
  BY OpsOfBatch
<1>4. \A k \in 1..Len(Result') : Result'[k].w = queue'[1] /\ Result'[k].i \in 1..Count[w]
  <2>1. PICK r : r = Ops(w)
    OBVIOUS
  <2>2. /\ Len(r) = Count[w] /\ Result' = r /\ queue'[1] = w
        /\ \A i \in 1..Count[w] : r[i] = [w |-> w, i |-> i]
    BY <1>1, <1>2, <1>3, <2>1
  <2>3. ASSUME NEW k \in 1..Len(r) PROVE r[k].w = w /\ r[k].i = k
    <3>1. r[k] = [w |-> w, i |-> k]
      BY <2>2
    <3>. QED
      BY <3>1
  <2>. QED
    BY <1>3, <2>2, <2>3
<1>5. \A k \in 1..Len(Result') : OfFirst(queue', Result'[k], group'.n)
  BY <1>1, <1>2, <1>4, SMTT(40) DEF OfFirst
<1>. QED
  BY <1>5 DEF RecordsInv

LEMMA ExtendKeepsRecords ==
  ASSUME IInv, RecordsInv, NEW w \in Writers, ExtendGroup(w)
  PROVE  RecordsInv'
<1>. DEFINE next == queue[group.n + 1]
<1>1. /\ pc[w] \in Merging /\ pc[w] \in Leading /\ pc[w] = "building"
      /\ group.n < Len(queue) /\ UNCHANGED <<queue, pc>>
  BY DEF ExtendGroup, Fits, Merging, Leading
<1>a. queue # <<>> /\ queue[1] = w /\ Len(queue) \in Nat
  BY <1>1, LeaderIsFront DEF IInv
<1>2. /\ queue # <<>> /\ queue[1] = w /\ Len(queue) \in Nat
      /\ group.n \in Nat /\ group.n >= 1 /\ group.n + 1 \in 1..Len(queue)
      /\ next \in Writers
  BY <1>1, <1>a, QueueType DEF IInv, GroupInv
<1>3. Result \in Seq(Op) /\ Len(Result) \in Nat
  BY <1>2, ResultIsBatch DEF IInv
<1>4. \A k \in 1..Len(Result) : OfFirst(queue, Result[k], group.n)
  BY <1>1 DEF RecordsInv
<1>. HIDE DEF next
<1>5. ASSUME NEW r, OfFirst(queue, r, group.n) PROVE OfFirst(queue', r, group.n + 1)
  <2>1. PICK m \in 1..group.n : r.w = queue[m] /\ r.i \in 1..Count[queue[m]]
    BY <1>5 DEF OfFirst
  <2>2. m \in 1..(group.n + 1) /\ queue' = queue
    BY <1>1, <1>2
  <2>. QED
    BY <2>1, <2>2 DEF OfFirst
<1>6. group \in [n : Nat, size : Nat, merged : BOOLEAN]
  BY DEF IInv, TypeOK
<1>7. CASE next \in Flushes
  <2>1. group' = [group EXCEPT !.n = @ + 1] /\ tmpBatch' = tmpBatch
    BY <1>7 DEF ExtendGroup, next
  <2>2. group' = [n |-> group.n + 1, size |-> group.size, merged |-> group.merged]
    BY <1>6, <2>1
  <2>3. Result' = Result /\ group'.n = group.n + 1
    BY <1>1, <2>1, <2>2 DEF Result
  <2>4. \A k \in 1..Len(Result') : OfFirst(queue', Result'[k], group'.n)
    BY <1>4, <1>5, <2>3
  <2>. QED
    BY <2>4 DEF RecordsInv
<1>8. CASE next \notin Flushes
  <2>1. /\ group' = [n |-> group.n + 1, size |-> group.size + Size[next], merged |-> TRUE]
        /\ tmpBatch' = (IF group.merged THEN tmpBatch ELSE tmpBatch \o Ops(w)) \o Ops(next)
    BY <1>8 DEF ExtendGroup, next
  <2>2. ~group.merged => tmpBatch = <<>>
    BY <1>1, <1>2, LeaderIsFront DEF IInv, TmpInv, Leading, Merging
  <2>3. Ops(w) \in Seq(Op) /\ <<>> \o Ops(w) = Ops(w)
    BY OpsOfBatch, ConcatEmptySeq
  <2>4. Result = IF group.merged THEN tmpBatch ELSE tmpBatch \o Ops(w)
    BY <1>2, <2>2, <2>3 DEF Result
  <2>5. Result' = Result \o Ops(next) /\ group'.n = group.n + 1
    BY <2>1, <2>4 DEF Result
  <2>6. Extends(Result \o Ops(next), Result, next) /\ Count[next] \in Nat
    BY <1>2, <1>3, ExtendedBatch
  <2>. DEFINE s == Result'
  <2>7. Extends(s, Result, next)
    BY <2>5, <2>6
  <2>. HIDE DEF s
  <2>8. ASSUME NEW k \in 1..Len(s) PROVE OfFirst(queue', s[k], group'.n)
    <3>1. CASE k \in 1..Len(Result)
      BY <1>4, <1>5, <2>5, <2>7, <3>1 DEF Extends
    <3>2. CASE k \notin 1..Len(Result)
      <4>1. k \in (Len(Result) + 1)..Len(s) /\ Len(s) = Len(Result) + Count[next]
        BY <1>3, <2>6, <2>7, <3>2 DEF Extends
      <4>2. s[k].w = next /\ s[k].i = k - Len(Result)
        BY <2>7, <4>1 DEF Extends
      <4>3. s[k].i \in 1..Count[next]
        BY <1>3, <2>6, <4>1, <4>2
      <4>4. /\ group.n + 1 \in 1..(group.n + 1) /\ queue'[group.n + 1] = next
            /\ group'.n = group.n + 1
        BY <1>1, <1>2, <2>5 DEF next
      <4>. QED
        BY <4>2, <4>3, <4>4, Zenon DEF OfFirst
    <3>. QED
      BY <3>1, <3>2
  <2>. QED
    BY <2>8 DEF RecordsInv, s
<1>. QED
  BY <1>7, <1>8

(* After a pop nobody merges.                                              *)
LEMMA PopKeepsRecords ==
  ASSUME IInv, NEW w \in Writers, PopAlone(w) \/ Commit(w)
  PROVE  RecordsInv'
<1>1. PICK n \in 1..Len(queue), outcome \in Resolved :
        PopThrough(w, n, outcome) /\ pc[w] \in Leading
        /\ UNCHANGED <<ticket, calls>>
  <2>1. CASE PopAlone(w)
    <3>1. pc[w] \in Leading
      BY <2>1 DEF PopAlone, Leading
    <3>2. 1 \in 1..Len(queue)
      BY <3>1, LeaderIsFront DEF IInv
    <3>. QED
      BY <2>1, <3>1, <3>2 DEF PopAlone, Resolved
  <2>2. CASE Commit(w)
    <3>1. pc[w] \in Leading /\ group.n \in 1..Len(queue)
      BY <2>2 DEF Commit, Leading, Merging, IInv, GroupInv
    <3>. QED
      BY <2>2, <3>1 DEF Commit, Resolved
  <2>. QED
    BY <2>1, <2>2
<1>2. \A v \in Writers : pc'[v] \notin Merging
  BY <1>1, PopKeepsQueue DEF IInv, Resolved, Leading, Merging
<1>. QED
  BY <1>2 DEF RecordsInv

LEMMA NextKeepsRecords ==
  ASSUME IInv, RecordsInv, [Next]_vars
  PROVE  RecordsInv'
<1>1. CASE BackgroundError \/ UNCHANGED vars
  BY <1>1, RecordsKept DEF BackgroundError, vars
<1>2. ASSUME NEW w \in Writers,
             \/ Resume(w) \/ MakeRoom(w) \/ MakeRoomThrows(w) \/ MakeRoomSpins(w)
             \/ SubmitGroup(w) \/ LogAppend(w) \/ LogThrows(w)
      PROVE  RecordsInv'
  <2>1. UNCHANGED <<queue, group, tmpBatch>>
    BY <1>2 DEF Resume, MakeRoom, MakeRoomThrows, MakeRoomSpins, SubmitGroup,
       LogAppend, LogThrows
  <2>2. \A v \in Writers : pc'[v] \in Merging => pc[v] \in Merging
    BY <1>2 DEF Resume, MakeRoom, MakeRoomThrows, MakeRoomSpins, SubmitGroup,
       LogAppend, LogThrows, Merging, IInv, TypeOK
  <2>. QED
    BY <2>1, <2>2, RecordsKept
<1>. QED
  BY <1>1, <1>2, CallKeepsRecords, StartKeepsRecords, ExtendKeepsRecords,
     PopKeepsRecords DEF Next
-----------------------------------------------------------------------------
(* What popping the first n writers does to the requests: the leader's is  *)
(* answered, those of the other writers of the group take effect.          *)
LEMMA PopAnswers ==
  ASSUME TypeOK, QueueInv, NEW w \in Writers, pc[w] \in Leading,
         NEW n \in 1..Len(queue), NEW outcome \in Resolved,
         PopThrough(w, n, outcome)
  PROVE  \A v \in Writers :
           RequestState(v)' =
             IF v = w THEN IF outcome = "returned" THEN "applied" ELSE "rejected"
             ELSE IF \E k \in 2..n : queue[k] = v THEN "applied" ELSE RequestState(v)
<1>. DEFINE rest == SubSeq(queue, n + 1, Len(queue))
            served == {queue[k] : k \in 2..n}
            next == IF rest = <<>> THEN {} ELSE {rest[1]}
<1>1. /\ done' = [v \in Writers |-> v \in served \/ done[v]]
      /\ pc' = [Signal(served \cup next) EXCEPT ![w] = outcome]
  BY DEF PopThrough
<1>2. \A v : v \in served <=> \E k \in 2..n : queue[k] = v
  OBVIOUS
<1>. HIDE DEF next, served
<1>3. \A v \in Writers \ {w} :
        pc'[v] = IF v \in served \cup next /\ pc[v] = "waiting" THEN "woken" ELSE pc[v]
  BY <1>1 DEF Signal
<1>4. pc'[w] = outcome
  BY <1>1 DEF Signal
<1>5. \A v \in Writers : done'[v] <=> v \in served \/ done[v]
  BY <1>1
<1>6. ASSUME NEW v \in served PROVE v \in Writers /\ pc[v] = "waiting" /\ ~done[v]
  <2>1. PICK k \in 2..n : queue[k] = v
    BY <1>2, <1>6
  <2>2. k \in 2..Len(queue) /\ k \in 1..Len(queue)
    BY QueueType
  <2>. QED
    BY <2>1, <2>2, QueueType DEF QueueInv
<1>7. ASSUME NEW v \in Writers PROVE done[v] => pc[v] \in {"woken", "returned"}
  BY DEF QueueInv
<1>8. RequestState(w)' = IF outcome = "returned" THEN "applied" ELSE "rejected"
  BY <1>4 DEF RequestState, Resolved
<1>9. ASSUME NEW v \in Writers \ {w}, v \in served PROVE RequestState(v)' = "applied"
  BY <1>3, <1>5, <1>6, <1>9 DEF RequestState
<1>10. ASSUME NEW v \in Writers \ {w}, v \notin served
       PROVE  RequestState(v)' = RequestState(v)
  BY <1>3, <1>5, <1>7, <1>10 DEF RequestState
<1>. QED
  BY <1>2, <1>8, <1>9, <1>10

(* A step that leaves the requests and the memtables alone is a stutter.    *)
LEMMA StutterMaps ==
  ASSUME UNCHANGED mem, \A w \in Writers : RequestState(w)' = RequestState(w)
  PROVE  UNCHANGED <<[w \in Writers |-> RequestState(w)], Seen>>
<1>1. [w \in Writers |-> RequestState(w)]' = [w \in Writers |-> RequestState(w)]
  OBVIOUS
<1>2. Seen' = Seen
  BY DEF Seen
<1>. QED
  BY <1>1, <1>2

(* Init maps to Init.                                                      *)
LEMMA InitMaps == Init => Promise!Init
<1>. SUFFICES ASSUME Init PROVE Promise!Init
  OBVIOUS
<1>1. [w \in Writers |-> RequestState(w)] = [w \in Writers |-> "new"]
  BY DEF Init, RequestState
<1>2. Seen = <<>>
  BY EmptySeq DEF Init, Seen
<1>. QED
  BY <1>1, <1>2 DEF Promise!Init

LEMMA CallMaps ==
  ASSUME IInv, NEW w \in Writers, Call(w)
  PROVE  Promise!Next
<1>1. /\ pc[w] = "idle" /\ ~done[w] /\ UNCHANGED <<done, mem>>
      /\ pc' = [pc EXCEPT ![w] = IF queue = <<>> THEN "leading" ELSE "waiting"]
  BY DEF Call, IInv, QueueInv
<1>2. RequestState(w) = "new" /\ RequestState(w)' = "pending"
  BY <1>1 DEF RequestState, IInv, TypeOK
<1>3. \A v \in Writers \ {w} : RequestState(v)' = RequestState(v)
  BY <1>1 DEF RequestState, IInv, TypeOK
<1>4. [v \in Writers |-> RequestState(v)]' =
        [[v \in Writers |-> RequestState(v)] EXCEPT ![w] = "pending"]
  BY <1>2, <1>3
<1>5. Seen' = Seen
  BY <1>1 DEF Seen
<1>6. Promise!Submit(w)
  BY <1>2, <1>4, <1>5 DEF Promise!Submit
<1>. QED
  BY <1>6 DEF Promise!Next

(* The exceptions, and the dropped error status of a refused write.        *)
LEMMA RejectMaps ==
  ASSUME NEW w \in Writers, RequestState(w) = "pending", RequestState(w)' = "rejected",
         \A v \in Writers \ {w} : RequestState(v)' = RequestState(v),
         UNCHANGED mem
  PROVE  Promise!Next
<1>1. [v \in Writers |-> RequestState(v)]' =
        [[v \in Writers |-> RequestState(v)] EXCEPT ![w] = "rejected"]
  OBVIOUS
<1>2. Seen' = Seen
  BY DEF Seen
<1>3. Promise!Reject(w)
  BY <1>1, <1>2 DEF Promise!Reject
<1>. QED
  BY <1>3 DEF Promise!Next

LEMMA ThrowMaps ==
  ASSUME IInv, NEW w \in Writers, MakeRoomThrows(w) \/ LogThrows(w)
  PROVE  Promise!Next
<1>1. /\ pc[w] \in {"leading", "logging", "logged"} /\ UNCHANGED <<done, mem>>
      /\ pc' = [pc EXCEPT ![w] = "failed"]
  BY DEF MakeRoomThrows, LogThrows
<1>2. RequestState(w) = "pending" /\ RequestState(w)' = "rejected"
  BY <1>1 DEF RequestState, IInv, TypeOK
<1>3. \A v \in Writers \ {w} : RequestState(v)' = RequestState(v)
  BY <1>1 DEF RequestState, IInv, TypeOK
<1>. QED
  BY <1>1, <1>2, <1>3, RejectMaps

(* What readers see of a memtable, record by record.                       *)
LEMMA SeenOfMemtable ==
  ASSUME NEW m \in Seq(Entry), NEW s, s = [k \in 1..Len(m) |-> m[k].op]
  PROVE  /\ Len(s) = Len(m) /\ Len(s) \in Nat
         /\ \A k \in 1..Len(s) : s[k] = m[k].op
<1>1. Len(m) \in Nat
  BY LenProperties
<1>2. \A k \in 1..Len(m) : m[k].op \in Op
  <2>. TAKE k \in 1..Len(m)
  <2>1. m[k] \in Entry
    BY ElementOfSeq
  <2>. QED
    BY <2>1 DEF Entry
<1>3. s \in Seq(Op)
  BY <1>1, <1>2, IsASeq
<1>4. Len(s) = Len(m)
  BY <1>1, <1>3, LenProperties
<1>. QED
  BY <1>1, <1>4

(* A call without a batch takes effect and adds no record.                 *)
LEMMA FlushMaps ==
  ASSUME TypeOK, NEW w \in Flushes,
         RequestState(w) = "pending", RequestState(w)' = "applied",
         \A v \in Writers \ {w} : RequestState(v)' = RequestState(v),
         UNCHANGED mem
  PROVE  Promise!Next
<1>. DEFINE req == [v \in Writers |-> RequestState(v)]
<1>1. w \in Writers /\ Count[w] = 0
  BY GroupCommitAssumption
<1>2. req' = [v \in Writers |-> IF v \in {w} THEN "applied" ELSE req[v]]
  OBVIOUS
<1>3. Seen' = Seen /\ Len(Seen) \in Nat
  BY SeenOfMemtable DEF Seen, TypeOK
<1>4. Promise!Adds({w})
  <2>1. \A i : i \notin 1..0
    OBVIOUS
  <2>2. \A k : k \notin (Len(Seen) + 1)..Len(Seen)
    BY <1>3
  <2>. QED
    BY <1>1, <1>3, <2>1, <2>2 DEF Promise!Adds
<1>5. Promise!Apply({w})
  BY <1>1, <1>2, <1>4 DEF Promise!Apply
<1>6. {w} \in SUBSET Writers /\ {w} # {}
  BY <1>1
<1>. QED
  BY <1>5, <1>6, Zenon DEF Promise!Next

LEMMA PopAloneMaps ==
  ASSUME IInv, NEW w \in Writers, PopAlone(w)
  PROVE  Promise!Next
<1>1. pc[w] \in Leading /\ pc[w] \in {"room", "refused"} /\ UNCHANGED mem
  BY DEF PopAlone, Leading
<1>2. 1 \in 1..Len(queue)
  BY <1>1, LeaderIsFront DEF IInv
<1>3. RequestState(w) = "pending"
  BY <1>1 DEF RequestState
<1>4. \A k : k \notin 2..1
  OBVIOUS
<1>5. CASE pc[w] = "refused"
  <2>1. PopThrough(w, 1, "dropped") /\ "dropped" \in Resolved
    BY <1>5 DEF PopAlone, Resolved
  <2>2. \A v \in Writers : RequestState(v)' = IF v = w THEN "rejected" ELSE RequestState(v)
    BY <1>1, <1>2, <1>4, <2>1, PopAnswers DEF IInv
  <2>. QED
    BY <1>1, <1>3, <2>2, RejectMaps
<1>6. CASE pc[w] = "room"
  <2>1. PopThrough(w, 1, "returned") /\ "returned" \in Resolved /\ w \in Flushes
    BY <1>6 DEF PopAlone, Resolved
  <2>2. \A v \in Writers : RequestState(v)' = IF v = w THEN "applied" ELSE RequestState(v)
    BY <1>1, <1>2, <1>4, <2>1, PopAnswers DEF IInv
  <2>. QED
    BY <1>1, <1>3, <2>1, <2>2, FlushMaps DEF IInv
<1>. QED
  BY <1>1, <1>5, <1>6

(* A commit: the calls of the group take effect at once, and exactly their *)
(* records are added, those of each batch in order.                        *)
LEMMA CommitMaps ==
  ASSUME IInv, RecordsInv, NEW w \in Writers, Commit(w)
  PROVE  Promise!Next
<1>. USE DEF IInv
<1>. DEFINE S == {queue[m] : m \in 1..group.n}
            req == [v \in Writers |-> RequestState(v)]
            old == Seen
            new == Seen'
<1>1. /\ pc[w] = "logged" /\ PopThrough(w, group.n, "returned")
      /\ pc[w] \in Leading /\ pc[w] \in Merging /\ "returned" \in Resolved
      /\ mem' = mem \o Stamped(Result)
  BY DEF Commit, Leading, Merging, Resolved
<1>2. /\ queue # <<>> /\ queue[1] = w /\ Len(queue) \in Nat
  BY <1>1, LeaderIsFront
<1>3. /\ group.n \in 1..Len(queue) /\ group.n \in Nat /\ group.n >= 1
      /\ ResultInCallOrder /\ ResultComplete
      /\ \A k \in 1..Len(Result) : OfFirst(queue, Result[k], group.n)
  BY <1>1, <1>2 DEF GroupInv, RecordsInv
<1>4. Result \in Seq(Op) /\ Len(Result) \in Nat
  BY <1>2, ResultIsBatch
<1>5. /\ mem \in Seq(Entry) /\ Len(mem) \in Nat
      /\ mem' \in Seq(Entry) /\ Len(mem') = Len(mem) + Len(Result)
      /\ \A k \in 1..Len(mem) : mem'[k] = mem[k]
      /\ \A k \in 1..Len(Result) : mem'[Len(mem) + k].op = Result[k]
  <2>1. PICK ops, stamped :
          /\ ops = Result /\ stamped = Stamped(Result) /\ mem' = mem \o stamped
          /\ ops \in Seq(Op) /\ stamped = Stamped(ops)
    BY <1>1, <1>4
  <2>2. /\ stamped \in Seq(Entry) /\ Len(stamped) = Len(ops)
        /\ \A k \in 1..Len(ops) : stamped[k] = [seq |-> lastSequence + k, op |-> ops[k]]
    BY <2>1, StampedBatch
  <2>3. mem \in Seq(Entry) /\ Len(mem) \in Nat
    BY LenProperties DEF TypeOK
  <2>4. /\ mem \o stamped \in Seq(Entry) /\ Len(mem \o stamped) = Len(mem) + Len(stamped)
        /\ \A k \in 1..Len(mem) : (mem \o stamped)[k] = mem[k]
        /\ \A k \in 1..Len(stamped) : (mem \o stamped)[Len(mem) + k] = stamped[k]
    <3>1. mem \in Seq(Entry) /\ stamped \in Seq(Entry)
      BY <2>2, <2>3
    <3>. QED
      BY ONLY <3>1, ConcatIndexed, SMT
  <2>5. ASSUME NEW k \in 1..Len(ops) PROVE stamped[k].op = ops[k]
    <3>1. stamped[k] = [seq |-> lastSequence + k, op |-> ops[k]]
      BY <2>2
    <3>. QED
      BY <3>1
  <2>. QED
    BY <2>1, <2>2, <2>3, <2>4, <2>5
<1>6. /\ Len(old) = Len(mem) /\ Len(new) = Len(mem) + Len(Result)
      /\ \A k \in 1..Len(old) : new[k] = old[k]
      /\ \A k \in 1..Len(Result) : new[Len(old) + k] = Result[k]
  <2>1. /\ Len(old) = Len(mem) /\ Len(old) \in Nat
        /\ \A k \in 1..Len(old) : old[k] = mem[k].op
    BY <1>5, SeenOfMemtable DEF Seen
  <2>2. /\ Len(new) = Len(mem') /\ Len(new) \in Nat
        /\ \A k \in 1..Len(new) : new[k] = mem'[k].op
    BY <1>5, SeenOfMemtable DEF Seen
  <2>. HIDE DEF old, new
  <2>3. \A k \in 1..Len(old) : k \in 1..Len(new)
    BY <1>4, <1>5, <2>1, <2>2
  <2>4. \A k \in 1..Len(Result) : Len(old) + k \in 1..Len(new)
    BY <1>4, <1>5, <2>1, <2>2
  <2>. QED
    BY <1>5, <2>1, <2>2, <2>3, <2>4
<1>7. /\ S \in SUBSET Writers /\ w \in S
      /\ \A v \in Writers : v \in S <=> v = w \/ \E k \in 2..group.n : queue[k] = v
  <2>1. \A m \in 1..group.n : queue[m] \in Writers
    BY <1>2, <1>3, QueueType
  <2>2. 1 \in 1..group.n /\ \A m \in 1..group.n : m = 1 \/ m \in 2..group.n
    BY <1>3
  <2>3. \A m \in 2..group.n : m \in 1..group.n
    BY <1>3
  <2>. QED
    BY <1>2, <2>1, <2>2, <2>3, Zenon
<1>8. \A v \in Writers : RequestState(v)' = IF v \in S THEN "applied" ELSE RequestState(v)
  <2>1. \A v \in Writers :
           RequestState(v)' =
             IF v = w THEN "applied"
             ELSE IF \E k \in 2..group.n : queue[k] = v THEN "applied" ELSE RequestState(v)
    BY <1>1, <1>3, PopAnswers
  <2>. HIDE DEF S
  <2>. QED
    BY <1>7, <2>1
<1>9. req' = [v \in Writers |-> IF v \in S THEN "applied" ELSE req[v]]
  <2>. HIDE DEF S
  <2>. QED
    BY <1>8
<1>10. \A v \in S : RequestState(v) = "pending"
  <2>. SUFFICES ASSUME NEW m \in 1..group.n PROVE RequestState(queue[m]) = "pending"
    OBVIOUS
  <2>1. m \in 1..Len(queue) /\ (m = 1 \/ m \in 2..Len(queue))
    BY <1>2, <1>3
  <2>2. m # 1 => pc[queue[m]] = "waiting"
    BY <2>1 DEF QueueInv
  <2>. QED
    BY <1>1, <1>2, <2>1, <2>2 DEF RequestState
<1>11. Promise!Adds(S)
  <2>1. Len(old) \in Nat /\ Len(new) \in Nat /\ Len(old) <= Len(new)
    BY <1>4, <1>5, <1>6
  <2>2. \A k \in (Len(old) + 1)..Len(new) :
          k - Len(old) \in 1..Len(Result) /\ new[k] = Result[k - Len(old)]
    <3>. TAKE k \in (Len(old) + 1)..Len(new)
    <3>. HIDE DEF old, new
    <3>1. k - Len(old) \in 1..Len(Result) /\ k = Len(old) + (k - Len(old))
      BY <1>4, <1>5, <1>6, <2>1
    <3>. QED
      BY <1>6, <3>1
  <2>3. ASSUME NEW k \in (Len(old) + 1)..Len(new)
        PROVE  new[k].w \in S /\ new[k].i \in 1..Count[new[k].w]
    <3>1. OfFirst(queue, new[k], group.n)
      BY <1>3, <2>2
    <3>. QED
      BY <3>1 DEF OfFirst
  <2>4. ASSUME NEW m \in 1..group.n, NEW i \in 1..Count[queue[m]]
        PROVE  \E k \in (Len(old) + 1)..Len(new) : new[k] = [w |-> queue[m], i |-> i]
    <3>1. queue[m] \notin Flushes
      <4>1. \A j : j \notin 1..0
        OBVIOUS
      <4>. QED
        BY <2>4, <4>1, GroupCommitAssumption
    <3>2. PICK k \in 1..Len(Result) : Result[k] = [w |-> queue[m], i |-> i]
      BY <1>3, <3>1 DEF ResultComplete, InResult
    <3>. HIDE DEF old, new
    <3>3. Len(old) + k \in (Len(old) + 1)..Len(new)
      BY <1>4, <1>5, <1>6, <2>1
    <3>. QED
      BY <1>6, <3>2, <3>3
  <2>5. ASSUME NEW k \in (Len(old) + 1)..Len(new), NEW l \in (Len(old) + 1)..Len(new),
               k < l, new[k].w = new[l].w
        PROVE  new[k].i < new[l].i
    <3>. DEFINE a == k - Len(old)
                b == l - Len(old)
    <3>1. /\ a \in 1..Len(Result) /\ new[k] = Result[a]
          /\ b \in 1..Len(Result) /\ new[l] = Result[b]
      BY <2>2
    <3>2. a < b
      BY <2>1, <2>5
    <3>. HIDE DEF a, b, old, new
    <3>3. ticket[Result[a].w] \in Nat /\ Result[a].w = Result[b].w
      BY <1>4, <2>5, <3>1, BatchRecord DEF TypeOK
    <3>4. \/ ticket[Result[a].w] < ticket[Result[b].w]
          \/ Result[a].i < Result[b].i
      BY <1>3, <3>1, <3>2 DEF ResultInCallOrder
    <3>. QED
      BY <3>1, <3>3, <3>4
  <2>6. \A v \in S : \A i \in 1..Count[v] :
          \E k \in (Len(old) + 1)..Len(new) : new[k] = [w |-> v, i |-> i]
    BY <2>4
  <2>. HIDE DEF S
  <2>. QED
    BY <1>6, <2>1, <2>3, <2>5, <2>6 DEF Promise!Adds
<1>12. Promise!Apply(S)
  <2>. HIDE DEF S
  <2>. QED
    BY <1>7, <1>9, <1>10, <1>11 DEF Promise!Apply
<1>13. S # {}
  BY <1>7
<1>. QED
  BY <1>7, <1>12, <1>13, Zenon DEF Promise!Next

(* Every step of the write path is a step of AtomicWrites or a stutter.     *)
LEMMA NextMaps ==
  ASSUME IInv, RecordsInv, [Next]_vars
  PROVE  [Promise!Next]_<<[w \in Writers |-> RequestState(w)], Seen>>
<1>1. CASE BackgroundError \/ UNCHANGED vars
  <2>1. UNCHANGED <<pc, done, mem>>
    BY <1>1 DEF BackgroundError, vars
  <2>2. \A w \in Writers : RequestState(w)' = RequestState(w)
    BY <2>1 DEF RequestState
  <2>. QED
    BY <2>1, <2>2, StutterMaps
<1>2. ASSUME NEW w \in Writers,
             \/ Resume(w) \/ MakeRoom(w) \/ MakeRoomSpins(w) \/ StartGroup(w)
             \/ ExtendGroup(w) \/ SubmitGroup(w) \/ LogAppend(w)
      PROVE  UNCHANGED <<[v \in Writers |-> RequestState(v)], Seen>>
  <2>1. UNCHANGED <<done, mem>> /\ \A v \in Writers \ {w} : pc'[v] = pc[v]
    BY <1>2 DEF Resume, MakeRoom, MakeRoomSpins, StartGroup, ExtendGroup,
       SubmitGroup, LogAppend, IInv, TypeOK
  <2>2. \A v \in Writers \ {w} : RequestState(v)' = RequestState(v)
    BY <2>1 DEF RequestState
  <2>3. RequestState(w)' = RequestState(w)
    <3>1. CASE Resume(w)
      <4>1. /\ pc[w] = "woken"
            /\ pc'[w] = IF done[w] THEN "returned"
                        ELSE IF queue[1] = w THEN "leading" ELSE "waiting"
        BY <3>1 DEF Resume, IInv, TypeOK
      <4>. QED
        BY <2>1, <4>1 DEF RequestState
    <3>2. CASE ~Resume(w)
      <4>1. /\ pc[w] \in {"leading", "room", "building", "logging"}
            /\ pc'[w] \in {"room", "refused", "spinning", "building", "logging",
                          "logged"}
        BY <1>2, <3>2 DEF MakeRoom, MakeRoomSpins, StartGroup, ExtendGroup,
           SubmitGroup, LogAppend, IInv, TypeOK
      <4>. QED
        BY <4>1 DEF RequestState
    <3>. QED
      BY <3>1, <3>2
  <2>. QED
    BY <2>1, <2>2, <2>3, StutterMaps
<1>. QED
  BY <1>1, <1>2, CallMaps, ThrowMaps, PopAloneMaps, CommitMaps DEF Next

(* The records of the batch in flight stay within its group.               *)
THEOREM BatchOfGroup == Spec => []RecordsInv
<1>1. Init => RecordsInv
  BY DEF Init, RecordsInv, Merging
<1>2. IInv /\ RecordsInv /\ [Next]_vars => RecordsInv'
  BY NextKeepsRecords
<1>. QED
  BY <1>1, <1>2, Invariance, PTL DEF Spec

(* The write path implements AtomicWrites: whatever is merged with what,   *)
(* refused or thrown, each call takes effect whole, once and in order, at  *)
(* one instant, or not at all.                                             *)
THEOREM Refinement == Spec => ImplementsAtomicWrites
<1>1. Init => Promise!Init
  BY InitMaps
<1>2. IInv /\ RecordsInv /\ [Next]_vars
        => [Promise!Next]_<<[w \in Writers |-> RequestState(w)], Seen>>
  BY NextMaps
<1>. QED
  BY <1>1, <1>2, Invariance, BatchOfGroup, PTL DEF Spec,
     ImplementsAtomicWrites, Promise!Spec
=============================================================================
