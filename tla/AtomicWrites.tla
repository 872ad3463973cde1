----------------------------- MODULE AtomicWrites -----------------------------
(***************************************************************************)
(* What the write path of the database promises its callers: each write    *)
(* call is applied at one instant between its call and its answer, whole,  *)
(* once, and with the records of its batch in order.  Several calls may be *)
(* applied at the same instant.  A call may also be refused or fail; then  *)
(* nothing of it is ever applied.  GroupCommit implements this             *)
(* specification.                                                          *)
(***************************************************************************)
EXTENDS Integers, Sequences

CONSTANTS Writers, Count

VARIABLES
  req,          \* the state of each call
  store         \* the records a reader can see, in the order they took effect

Op == [w : Writers, i : Nat]

Init ==
  /\ req = [w \in Writers |-> "new"]
  /\ store = <<>>

Submit(w) ==
  /\ req[w] = "new"
  /\ req' = [req EXCEPT ![w] = "pending"]
  /\ UNCHANGED store

(* The records of the calls in S, and nothing else, are added behind what  *)
(* the store already holds; each batch keeps its order.                    *)
Adds(S) ==
  LET old  == Len(store)
      news == (old + 1)..Len(store')
  IN /\ old <= Len(store')
     /\ \A k \in 1..old : store'[k] = store[k]
     /\ \A k \in news : store'[k].w \in S /\ store'[k].i \in 1..Count[store'[k].w]
     /\ \A w \in S : \A i \in 1..Count[w] :
          \E k \in news : store'[k] = [w |-> w, i |-> i]
     /\ \A k, l \in news :
          k < l /\ store'[k].w = store'[l].w => store'[k].i < store'[l].i

Apply(S) ==
  /\ \A w \in S : req[w] = "pending"
  /\ req' = [w \in Writers |-> IF w \in S THEN "applied" ELSE req[w]]
  /\ Adds(S)

Reject(w) ==
  /\ req[w] = "pending"
  /\ req' = [req EXCEPT ![w] = "rejected"]
  /\ UNCHANGED store

Next ==
  \/ \E w \in Writers : Submit(w) \/ Reject(w)
  \/ \E S \in SUBSET Writers : S # {} /\ Apply(S)

Spec == Init /\ [][Next]_<<req, store>>
=============================================================================
