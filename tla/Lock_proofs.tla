------------------------------ MODULE Lock_proofs ------------------------------
(***************************************************************************)
(* Proofs about Lock, for any set of processes and any Stale, Slack and    *)
(* MaxDelay that satisfy LockAssumption.                                   *)
(***************************************************************************)
EXTENDS Lock, TLAPS

(* What a process in good standing can count on: its operations have been  *)
(* answered in time, and, once its file is written, the file is there and  *)
(* no older than this.                                                     *)
Bound(q) ==
  IF pc[q] = "written" THEN clock[q]
  ELSE IF flight[q] THEN Half + 2 * MaxDelay + clock[q]
  ELSE clock[q] + MaxDelay

Lease(q) ==
  /\ pc[q] \in {"deciding", "closing", "written"} => clock[q] <= MaxDelay
  /\ pc[q] = "holding" /\ flight[q] => clock[q] <= MaxDelay
  /\ pc[q] \in {"written", "holding"} => present /\ age <= Bound(q)

LeaseInv == \A q \in Process : q \notin lapsed => Lease(q)

(* What a process in good standing has seen of such an owner.              *)
Sight(p) ==
  /\ pc[p] = "deciding" =>
       \A q \in rival[p] \ lapsed : seen[p] <= Half + 3 * MaxDelay + clock[p]
  /\ pc[p] = "taking" => rival[p] \subseteq lapsed

SightInv == \A p \in Process : p \notin lapsed => Sight(p)

(* A file that nobody touches while p waits is at least as old as the wait *)
(* is long, so p, if it finds it unexpired, has not waited long; and       *)
(* whoever failed has seen it touched.                                     *)
Patience(p) ==
  /\ pc[p] \in Waiting /\ ~touched[p] =>
       present /\ (age >= waited[p] \/ age = MaxAge)
  /\ pc[p] = "deciding" /\ ~touched[p] => seen[p] >= waited[p] \/ seen[p] = MaxAge
  /\ pc[p] = "closing" /\ ~touched[p] => waited[p] <= Stale + Slack + clock[p]
  /\ pc[p] \in {"failed", "removing"} => touched[p]

PatienceInv == \A p \in Process : p \notin lapsed => Patience(p)

IInv == TypeOK /\ LeaseInv /\ SightInv /\ PatienceInv
-----------------------------------------------------------------------------
(* Half is a number of ticks, at least one.                                *)
LEMMA HalfNat == Half \in Nat \ {0}
  BY LockAssumption DEF Half

(* The caps on ages, waits and clocks are naturals.                        *)
LEMMA CapsNat == MaxAge \in Nat /\ MaxWait \in Nat /\ MaxClock \in Nat
  BY HalfNat, LockAssumption DEF MaxAge, MaxWait, MaxClock

(* A capped tick stays below the cap, and adds one at most.                *)
LEMMA LaterType ==
  ASSUME NEW max \in Nat, NEW t \in 0..max
  PROVE  /\ Later(t, max) \in 0..max
         /\ Later(t, max) <= t + 1
         /\ t < max => Later(t, max) = t + 1
         /\ t = max => Later(t, max) = max
  BY DEF Later

(* The first state has all types right.                                    *)
LEMMA InitType == Init => TypeOK
<1> SUFFICES ASSUME Init PROVE TypeOK
  OBVIOUS
<1> USE DEF Init
<1>1. pc \in [Process -> PC]
  BY DEF PC, Asleep
<1>2. /\ age \in 0..MaxAge
      /\ clock \in [Process -> 0..MaxClock]
      /\ waited \in [Process -> 0..MaxWait]
      /\ seen \in [Process -> 0..MaxAge]
  BY CapsNat
<1>3. /\ rival \in [Process -> SUBSET Process]
      /\ flight \in [Process -> BOOLEAN]
      /\ touched \in [Process -> BOOLEAN]
      /\ lapsed \subseteq Process
  OBVIOUS
<1> QED BY <1>1, <1>2, <1>3 DEF TypeOK

(* Every step keeps them.                                                  *)
LEMMA StepType == TypeOK /\ [Next]_vars => TypeOK'
<1> SUFFICES ASSUME TypeOK, [Next]_vars PROVE TypeOK'
  OBVIOUS
<1> USE CapsNat DEF TypeOK, PC, Asleep, Waiting, Ticking, GoTo, Owners
<1>0. [q \in Process |-> touched[q] \/ pc[q] \in Waiting] \in [Process -> BOOLEAN]
  OBVIOUS
<1>1. CASE Tick
  <2>1. age' \in 0..MaxAge
    BY <1>1, LaterType DEF Tick
  <2>2. clock' \in [Process -> 0..MaxClock]
    BY <1>1, LaterType DEF Tick
  <2>3. waited' \in [Process -> 0..MaxWait]
    BY <1>1, LaterType DEF Tick
  <2>4. seen' \in [Process -> 0..MaxAge]
    BY <1>1, LaterType DEF Tick
  <2> QED BY <1>1, <2>1, <2>2, <2>3, <2>4 DEF Tick
<1>2. ASSUME NEW p \in Process, Check(p) PROVE TypeOK'
  BY <1>2 DEF Check
<1>3. ASSUME NEW p \in Process, Step(p) PROVE TypeOK'
  <2>1. CASE Stat(p) BY <2>1 DEF Stat
  <2>2. CASE TakeOver(p) BY <2>2 DEF TakeOver
  <2>3. CASE GiveUp(p) BY <2>3 DEF GiveUp
  <2>4. CASE Sleep(p) BY <2>4 DEF Sleep
  <2>5. CASE Wake(p) BY <2>5 DEF Wake
  <2>6. CASE LandWrite(p) BY <1>0, <2>6 DEF LandWrite, Written
  <2>7. CASE WriteFails(p) BY <2>7 DEF WriteFails
  <2>8. CASE Locked(p) BY <2>8 DEF Locked
  <2>9. CASE Refresh(p) BY <2>9 DEF Refresh
  <2>10. CASE LandRefresh(p)
    <3>1. /\ present' \in BOOLEAN /\ age' \in 0..MaxAge
          /\ touched' \in [Process -> BOOLEAN]
      BY <1>0, <2>10 DEF LandRefresh, Written
    <3>2. /\ flight' \in [Process -> BOOLEAN]
          /\ \A q \in Process : flight'[q] => flight[q]
      BY <2>10 DEF LandRefresh
    <3> QED BY <2>10, <3>1, <3>2 DEF LandRefresh
  <2>11. CASE RefreshFails(p) BY <2>11 DEF RefreshFails
  <2>12. CASE LandUnlink(p)
    <3>0. present' = FALSE /\ age' = 0
      BY <2>12 DEF LandUnlink, Unlinked
    <3>1. age' \in 0..MaxAge
      BY <3>0
    <3>2. touched' \in [Process -> BOOLEAN]
      BY <1>0, <2>12 DEF LandUnlink, Unlinked
    <3>3. lapsed' \subseteq Process
      BY <2>12 DEF LandUnlink, Unlinked
    <3>4. /\ pc' \in [Process -> PC]
          /\ \A q \in Process : pc[q] \in Ticking \cup {"closed"} =>
               pc'[q] \in Ticking \cup {"closed"}
      BY <2>12 DEF LandUnlink
    <3> QED BY <2>12, <3>0, <3>1, <3>2, <3>3, <3>4 DEF LandUnlink
  <2>13. CASE EndUnlock(p) BY <2>13 DEF EndUnlock
  <2>14. CASE NotYet(p) BY <2>14 DEF NotYet
  <2> QED
    BY <1>3, <2>1, <2>2, <2>3, <2>4, <2>5, <2>6, <2>7, <2>8, <2>9, <2>10, <2>11,
       <2>12, <2>13, <2>14 DEF Step
<1>4. ASSUME NEW p \in Process, Close(p) PROVE TypeOK'
  BY <1>4 DEF Close
<1>5. ASSUME NEW p \in Process, Exit(p) PROVE TypeOK'
  <2>0. present' = FALSE /\ age' = 0
    BY <1>5 DEF Exit, Unlinked
  <2>1. age' \in 0..MaxAge
    BY <2>0
  <2>6. touched' \in [Process -> BOOLEAN]
    BY <1>0, <1>5 DEF Exit, Unlinked
  <2>5. lapsed' \subseteq Process
    BY <1>5 DEF Exit, Unlinked
  <2>2. /\ flight' \in [Process -> BOOLEAN]
        /\ \A q \in Process : flight'[q] => flight[q] /\ q # p
    BY <1>5 DEF Exit
  <2>3. /\ pc' \in [Process -> PC]
        /\ \A q \in Process \ {p} : pc'[q] = pc[q]
    BY <1>5 DEF Exit, Gone
  <2>4. /\ clock' \in [Process -> 0..MaxClock]
        /\ waited' \in [Process -> 0..MaxWait]
        /\ seen' \in [Process -> 0..MaxAge]
        /\ rival' \in [Process -> SUBSET Process]
    BY <1>5 DEF Exit, Gone
  <2> QED BY <2>0, <2>1, <2>2, <2>3, <2>4, <2>5, <2>6
<1>6. ASSUME NEW p \in Process, Crash(p) PROVE TypeOK'
  BY <1>6 DEF Crash, Gone
<1>7. CASE UNCHANGED vars
  BY <1>7 DEF vars
<1> QED
  BY <1>1, <1>2, <1>3, <1>4, <1>5, <1>6, <1>7 DEF Next
-----------------------------------------------------------------------------
(* The leases.  A step of p changes what Lease says of another process     *)
(* only through the file, which gets younger or is lost to its owners.     *)
LEMMA StepLease ==
  ASSUME TypeOK, LeaseInv, [Next]_vars
  PROVE  LeaseInv'
<1> USE DEF LeaseInv, Lease, Bound, GoTo, Owners
<1> SUFFICES ASSUME NEW q \in Process, q \notin lapsed' PROVE Lease(q)'
  OBVIOUS
<1>0. /\ pc \in [Process -> PC] /\ clock \in [Process -> 0..MaxClock]
      /\ flight \in [Process -> BOOLEAN] /\ age \in 0..MaxAge
      /\ flight[q] => pc[q] \in Ticking \cup {"closed"}
  BY DEF TypeOK
<1>00. /\ MaxDelay \in Nat /\ Half \in Nat /\ MaxDelay < Half
       /\ MaxClock = Half + MaxDelay /\ MaxAge \in Nat
  BY HalfNat, CapsNat, LockAssumption DEF MaxClock
<1> USE <1>0, <1>00
<1>1. CASE Tick
  <2>1. q \notin lapsed /\ ~Overdue(q) /\ Lease(q)
    BY <1>1 DEF Tick
  <2>2. /\ clock'[q] = IF pc[q] \in Asleep THEN clock[q] ELSE Later(clock[q], MaxClock)
        /\ clock[q] \in 0..MaxClock
    BY <1>1 DEF Tick
  <2>3. pc' = pc /\ flight' = flight /\ present' = present
    BY <1>1 DEF Tick
  <2>4. present => age' <= age + 1 /\ age' \in 0..MaxAge
    BY <1>1, LaterType DEF Tick
  <2>5. clock[q] < MaxClock => Later(clock[q], MaxClock) = clock[q] + 1
    BY <2>2, LaterType
  <2>6. pc[q] \in {"deciding", "closing", "written"} =>
          clock[q] < MaxDelay /\ clock'[q] = clock[q] + 1
    BY <2>1, <2>2, <2>5 DEF Overdue, Asleep
  <2>8. pc[q] = "holding" => clock[q] < MaxClock /\ clock'[q] = clock[q] + 1
    BY <2>1, <2>2, <2>5 DEF Overdue, Asleep
  <2>7. pc[q] = "holding" /\ flight[q] => clock[q] < MaxDelay
    BY <2>1, <2>2 DEF Overdue
  <2> QED BY <2>1, <2>2, <2>3, <2>4, <2>6, <2>7, <2>8
<1>2. ASSUME NEW p \in Process, Check(p) PROVE Lease(q)'
  BY <1>2 DEF Check
<1>3. ASSUME NEW p \in Process, Step(p) PROVE Lease(q)'
  <2>1. CASE Stat(p) BY <2>1 DEF Stat
  <2>2. CASE TakeOver(p) BY <2>2 DEF TakeOver
  <2>3. CASE GiveUp(p) BY <2>3 DEF GiveUp
  <2>4. CASE Sleep(p) BY <2>4 DEF Sleep
  <2>5. CASE Wake(p) BY <2>5 DEF Wake
  <2>6. CASE LandWrite(p) BY <2>6 DEF LandWrite, Written, Ticking
  <2>7. CASE WriteFails(p) BY <2>7 DEF WriteFails
  <2>8. CASE Locked(p) BY <2>8 DEF Locked, Ticking
  <2>9. CASE Refresh(p) BY <2>9 DEF Refresh, Ticking
  <2>10. CASE LandRefresh(p) BY <2>10 DEF LandRefresh, Written
  <2>11. CASE RefreshFails(p) BY <2>11 DEF RefreshFails
  <2>12. CASE LandUnlink(p) BY <2>12 DEF LandUnlink, Unlinked
  <2>13. CASE EndUnlock(p) BY <2>13 DEF EndUnlock
  <2>14. CASE NotYet(p) BY <2>14 DEF NotYet
  <2> QED
    BY <1>3, <2>1, <2>2, <2>3, <2>4, <2>5, <2>6, <2>7, <2>8, <2>9, <2>10, <2>11,
       <2>12, <2>13, <2>14 DEF Step
<1>4. ASSUME NEW p \in Process, Close(p) PROVE Lease(q)'
  BY <1>4 DEF Close
<1>5. ASSUME NEW p \in Process, Exit(p) PROVE Lease(q)'
  BY <1>5 DEF Exit, Gone, Unlinked
<1>6. ASSUME NEW p \in Process, Crash(p) PROVE Lease(q)'
  BY <1>6 DEF Crash, Gone
<1>7. CASE UNCHANGED vars
  BY <1>7 DEF vars
<1> QED
  BY <1>1, <1>2, <1>3, <1>4, <1>5, <1>6, <1>7 DEF Next
-----------------------------------------------------------------------------
(* What a process sees when it looks at the file of such an owner.         *)
LEMMA YoungFile ==
  ASSUME TypeOK, LeaseInv, NEW q \in Owners, q \notin lapsed
  PROVE  present /\ age <= Half + 3 * MaxDelay
<1>1. clock[q] \in 0..MaxClock /\ MaxDelay \in Nat /\ Half \in Nat
  BY HalfNat, LockAssumption DEF TypeOK, Owners
<1>2. Lease(q) /\ q \in Process /\ pc[q] \in {"written", "holding"}
  BY DEF LeaseInv, Owners
<1>3. age \in Nat /\ (pc[q] = "written" => ~flight[q])
  BY <1>2, CapsNat DEF TypeOK, Ticking
<1> QED BY <1>1, <1>2, <1>3 DEF Lease, Bound, MaxClock

(* A process in good standing that finds the lock expired had no rival in  *)
(* good standing when it looked.                                           *)
LEMMA ExpiredMeansLapsed ==
  ASSUME TypeOK, LeaseInv, SightInv, NEW p \in Process, p \notin lapsed,
         pc[p] = "deciding", Expired(p)
  PROVE  rival[p] \subseteq lapsed
<1>1. clock[p] <= MaxDelay /\ clock[p] \in Nat /\ seen[p] \in Nat
  BY CapsNat DEF TypeOK, LeaseInv, Lease
<1>2. \A q \in rival[p] \ lapsed : seen[p] <= Half + 3 * MaxDelay + clock[p]
  BY DEF SightInv, Sight
<1> QED BY <1>1, <1>2, HalfNat, LockAssumption DEF Expired

(* Every step keeps what is known of the files that processes have seen: an *)
(* owner in good standing writes its file before it looks abandoned.       *)
LEMMA StepSight ==
  ASSUME TypeOK, LeaseInv, SightInv, [Next]_vars
  PROVE  SightInv'
<1> USE DEF SightInv, Sight, GoTo
<1> SUFFICES ASSUME NEW r \in Process, r \notin lapsed' PROVE Sight(r)'
  OBVIOUS
<1>0. /\ pc \in [Process -> PC] /\ clock \in [Process -> 0..MaxClock]
      /\ seen \in [Process -> 0..MaxAge]
      /\ rival \in [Process -> SUBSET Process]
  BY DEF TypeOK
<1>00. MaxDelay \in Nat /\ Half \in Nat /\ MaxClock \in Nat /\ MaxAge \in Nat
  BY HalfNat, CapsNat, LockAssumption
<1> USE <1>0, <1>00
<1>1. CASE Tick
  <2>1. r \notin lapsed /\ ~Overdue(r) /\ lapsed \subseteq lapsed' /\ Sight(r)
    BY <1>1 DEF Tick
  <2>2. pc' = pc /\ rival' = rival
    BY <1>1 DEF Tick
  <2>3. CASE pc[r] = "deciding"
    <3>1. clock[r] < MaxDelay
      BY <2>1, <2>3 DEF Overdue
    <3>2. clock'[r] = Later(clock[r], MaxClock)
      BY <1>1, <2>3 DEF Tick, Asleep
    <3>3. clock'[r] = clock[r] + 1
      BY <3>1, <3>2, LaterType DEF MaxClock
    <3>4. seen'[r] = Later(seen[r], MaxAge)
      BY <1>1, <2>3 DEF Tick
    <3>5. seen'[r] <= seen[r] + 1 /\ seen'[r] \in Nat
      BY <3>4, LaterType
    <3> QED BY <2>1, <2>2, <2>3, <3>3, <3>5
  <2> QED BY <2>1, <2>2, <2>3
<1>2. ASSUME NEW p \in Process, Check(p) PROVE Sight(r)'
  <2>1. ~present => Owners \subseteq lapsed
    BY YoungFile
  <2> QED BY <1>2, <2>1 DEF Check
<1>3. ASSUME NEW p \in Process, Step(p) PROVE Sight(r)'
  <2>1. CASE Stat(p)
    <3>1. \A q \in Owners \ lapsed : age <= Half + 3 * MaxDelay
      BY YoungFile
    <3> QED BY <2>1, <3>1 DEF Stat
  <2>2. CASE TakeOver(p)
    BY <2>2, ExpiredMeansLapsed DEF TakeOver
  <2>3. CASE GiveUp(p) BY <2>3 DEF GiveUp
  <2>4. CASE Sleep(p) BY <2>4 DEF Sleep
  <2>5. CASE Wake(p) BY <2>5 DEF Wake
  <2>6. CASE LandWrite(p) BY <2>6 DEF LandWrite
  <2>7. CASE WriteFails(p) BY <2>7 DEF WriteFails
  <2>8. CASE Locked(p) BY <2>8 DEF Locked
  <2>9. CASE Refresh(p) BY <2>9 DEF Refresh, Ticking
  <2>10. CASE LandRefresh(p) BY <2>10 DEF LandRefresh
  <2>11. CASE RefreshFails(p) BY <2>11 DEF RefreshFails
  <2>12. CASE LandUnlink(p) BY <2>12 DEF LandUnlink, Unlinked
  <2>13. CASE EndUnlock(p) BY <2>13 DEF EndUnlock
  <2>14. CASE NotYet(p) BY <2>14 DEF NotYet
  <2> QED
    BY <1>3, <2>1, <2>2, <2>3, <2>4, <2>5, <2>6, <2>7, <2>8, <2>9, <2>10, <2>11,
       <2>12, <2>13, <2>14 DEF Step
<1>4. ASSUME NEW p \in Process, Close(p) PROVE Sight(r)'
  BY <1>4 DEF Close
<1>5. ASSUME NEW p \in Process, Exit(p) PROVE Sight(r)'
  BY <1>5 DEF Exit, Gone, Unlinked
<1>6. ASSUME NEW p \in Process, Crash(p) PROVE Sight(r)'
  BY <1>6 DEF Crash, Gone
<1>7. CASE UNCHANGED vars
  BY <1>7 DEF vars
<1> QED
  BY <1>1, <1>2, <1>3, <1>4, <1>5, <1>6, <1>7 DEF Next
-----------------------------------------------------------------------------
(* The waits.  The file gets older by a tick when a wait gets longer by    *)
(* one, unless somebody touches it.                                        *)
LEMMA StepPatience ==
  ASSUME TypeOK, LeaseInv, PatienceInv, [Next]_vars
  PROVE  PatienceInv'
<1> USE DEF PatienceInv, Patience, GoTo, Waiting
<1> SUFFICES ASSUME NEW r \in Process, r \notin lapsed' PROVE Patience(r)'
  OBVIOUS
<1>0. /\ pc \in [Process -> PC] /\ waited \in [Process -> 0..MaxWait]
      /\ seen \in [Process -> 0..MaxAge] /\ age \in 0..MaxAge
      /\ touched \in [Process -> BOOLEAN] /\ clock \in [Process -> 0..MaxClock]
  BY DEF TypeOK
<1>00. /\ Stale \in Nat /\ Slack \in Nat
       /\ MaxWait \in Nat /\ MaxAge \in Nat /\ MaxClock \in Nat
       /\ MaxDelay \in Nat /\ MaxDelay <= Stale
  BY CapsNat, LockAssumption DEF Half
<1> USE <1>0, <1>00
<1>1. CASE Tick
  <2>1. /\ pc' = pc /\ touched' = touched /\ present' = present
        /\ r \notin lapsed /\ ~Overdue(r)
    BY <1>1 DEF Tick
  <2>2. pc[r] \in Waiting => waited'[r] = Later(waited[r], MaxWait)
    BY <1>1 DEF Tick
  <2>3. pc[r] \in Waiting => waited'[r] <= waited[r] + 1 /\ waited'[r] \in Nat
    BY <2>2 DEF Later
  <2>4. pc[r] = "deciding" => seen'[r] = Later(seen[r], MaxAge)
    BY <1>1 DEF Tick
  <2>5. pc[r] = "deciding" =>
          IF seen[r] = MaxAge THEN seen'[r] = MaxAge ELSE seen'[r] = seen[r] + 1
    BY <2>4 DEF Later
  <2>6. present => IF age = MaxAge THEN age' = MaxAge ELSE age' = age + 1
    BY <1>1 DEF Tick, Later
  <2>7. pc[r] \in Waiting /\ ~touched[r] =>
          present' /\ (age' >= waited'[r] \/ age' = MaxAge)
    BY <2>1, <2>3, <2>6
  <2>8. pc[r] = "deciding" /\ ~touched[r] => seen'[r] >= waited'[r] \/ seen'[r] = MaxAge
    BY <2>1, <2>3, <2>5
  <2>9. pc[r] = "closing" => clock'[r] = clock[r] + 1
    <3>1. pc[r] = "closing" => clock[r] < MaxDelay
      BY <2>1 DEF Overdue
    <3>2. pc[r] = "closing" => clock'[r] = Later(clock[r], MaxClock)
      BY <1>1 DEF Tick, Asleep
    <3> QED BY <3>1, <3>2, HalfNat, LockAssumption DEF Later, MaxClock
  <2> QED BY <2>1, <2>3, <2>7, <2>8, <2>9
<1>2. ASSUME NEW p \in Process, Check(p) PROVE Patience(r)'
  BY <1>2 DEF Check
<1>3. ASSUME NEW p \in Process, Step(p) PROVE Patience(r)'
  <2>1. CASE Stat(p) BY <2>1 DEF Stat
  <2>2. CASE TakeOver(p) BY <2>2 DEF TakeOver
  <2>3. CASE GiveUp(p)
    <3>1. p \notin lapsed => clock[p] <= MaxDelay
      BY <2>3 DEF GiveUp, LeaseInv, Lease
    <3> QED BY <2>3, <3>1 DEF GiveUp, OutOfPatience
  <2>4. CASE Sleep(p) BY <2>4 DEF Sleep
  <2>5. CASE Wake(p) BY <2>5 DEF Wake
  <2>6. CASE LandWrite(p) BY <2>6 DEF LandWrite, Written
  <2>7. CASE WriteFails(p) BY <2>7 DEF WriteFails
  <2>8. CASE Locked(p) BY <2>8 DEF Locked
  <2>9. CASE Refresh(p) BY <2>9 DEF Refresh, Ticking
  <2>10. CASE LandRefresh(p) BY <2>10 DEF LandRefresh, Written
  <2>11. CASE RefreshFails(p) BY <2>11 DEF RefreshFails
  <2>12. CASE LandUnlink(p) BY <2>12 DEF LandUnlink, Unlinked
  <2>13. CASE EndUnlock(p) BY <2>13 DEF EndUnlock
  <2>14. CASE NotYet(p)
    BY <2>14 DEF NotYet, Expired, MaxAge
  <2> QED
    BY <1>3, <2>1, <2>2, <2>3, <2>4, <2>5, <2>6, <2>7, <2>8, <2>9, <2>10, <2>11,
       <2>12, <2>13, <2>14 DEF Step
<1>4. ASSUME NEW p \in Process, Close(p) PROVE Patience(r)'
  BY <1>4 DEF Close
<1>5. ASSUME NEW p \in Process, Exit(p) PROVE Patience(r)'
  BY <1>5 DEF Exit, Gone, Unlinked
<1>6. ASSUME NEW p \in Process, Crash(p) PROVE Patience(r)'
  BY <1>6 DEF Crash, Gone
<1>7. CASE UNCHANGED vars
  BY <1>7 DEF vars
<1> QED
  BY <1>1, <1>2, <1>3, <1>4, <1>5, <1>6, <1>7 DEF Next
-----------------------------------------------------------------------------
(* The invariant that the lock rests on holds in every state.              *)
THEOREM Invariance == Spec => []IInv
<1>1. Init => IInv
  BY InitType DEF Init, IInv, LeaseInv, Lease, SightInv, Sight, PatienceInv, Patience,
     Waiting
<1>2. IInv /\ [Next]_vars => IInv'
  BY StepType, StepLease, StepSight, StepPatience DEF IInv
<1> QED BY <1>1, <1>2, PTL DEF Spec

(* Type correctness of the lock.                                           *)
THEOREM TypeCorrect == Spec => []TypeOK
<1>1. IInv => TypeOK
  BY DEF IInv
<1> QED BY <1>1, Invariance, PTL

(* A process that answers in time never takes the lock from an owner that  *)
(* refreshes in time and whose file nobody unlinked.                       *)
THEOREM OwnersAreSafe == Spec => []NoIntrusion
<1>1. IInv => NoIntrusion
  BY DEF IInv, SightInv, Sight, NoIntrusion
<1> QED BY <1>1, Invariance, PTL

(* lock() throws only when somebody touched the file during the wait.      *)
THEOREM AbandonedIsTaken == Spec => []FailsOnlyIfContended
<1>1. IInv => FailsOnlyIfContended
  BY DEF IInv, PatienceInv, Patience, FailsOnlyIfContended
<1> QED BY <1>1, Invariance, PTL
=============================================================================
