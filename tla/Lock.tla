---------------------------------- MODULE Lock ----------------------------------
(***************************************************************************)
(* The lock on a database directory (Lockfile.ts): a file that its owner   *)
(* rewrites every Half of Stale, and that any other process takes over     *)
(* once it has not been written for Stale and some Slack.  Database.ok()   *)
(* locks, Database.close() unlocks, and the exit handler that the          *)
(* constructor installs unlinks the file, whoever owns it.                 *)
(*                                                                         *)
(* A "process" is one Database object; it locks once.  Time is discrete.   *)
(* Nothing in the model makes a timer fire or a file answer in time: a     *)
(* process that is late by more than MaxDelay is remembered in lapsed, and *)
(* the properties say what the others may rely on.                         *)
(***************************************************************************)
EXTENDS Integers

CONSTANTS
  Process,   \* the Database objects that open the directory
  Stale,     \* Options.lockfileStale
  Slack,     \* the 1000 ms added to it
  MaxDelay   \* how late a timer may fire and a file operation may answer

Half == Stale \div 2

(* A file may be as old as Half, three delays (the interval fires late,    *)
(* the first write and the refresh answer late) and the delay of the       *)
(* reader before it may count as abandoned.  With the default of 10 s this *)
(* allows delays of a second and a half.                                   *)
ASSUME LockAssumption ==
  /\ Stale \in Nat /\ Slack \in Nat /\ MaxDelay \in Nat
  /\ MaxDelay < Half
  /\ Half + 4 * MaxDelay <= Stale + Slack

VARIABLES
  present,   \* whether the lock file exists
  age,       \* the time since it was written
  pc,        \* the await each process is suspended at
  clock,     \* the time since a process got there, or since its interval
             \* fired
  waited,    \* the time since startTime of waitUntilExpire
  seen,      \* Date.now() - filetime, of the stat the process looks at
  flight,    \* whether a refresh of the process is under way
  rival,     \* history: the owners when a process that decides, or takes the
             \* lock, last looked at the file
  touched,   \* history: the file was written or unlinked since startTime
  lapsed     \* history: processes that were late, whose file could not be
             \* written, or was unlinked by another process

vars == <<present, age, pc, clock, waited, seen, flight, rival, touched, lapsed>>

(* Ages are compared with Stale + Slack, waiting times with twice Stale    *)
(* and Slack, clocks with Half + MaxDelay at most: beyond that they need   *)
(* not be told apart.                                                      *)
MaxAge   == Stale + Slack + 1
MaxWait  == 2 * Stale + Slack + 1
MaxClock == Half + MaxDelay

Later(t, max) == IF t < max THEN t + 1 ELSE max

Waiting == {"waiting", "deciding", "closing", "sleeping"}
Asleep  == {"none", "waiting", "taking", "failed", "removing", "closed", "gone"}
Ticking == {"holding", "unlocking", "unlinked"}

PC == Waiting \cup Asleep \cup Ticking \cup {"written"}

Owners == {q \in Process : pc[q] \in {"written", "holding"}}

GoTo(p, l) == pc' = [pc EXCEPT ![p] = l]

Written == /\ present' = TRUE
           /\ age' = 0
           /\ touched' = [q \in Process |-> touched[q] \/ pc[q] \in Waiting]

(* The file is unlinked, by p: any other owner loses it.                   *)
Unlinked(p) == /\ present' = FALSE
               /\ age' = 0
               /\ touched' = [q \in Process |-> touched[q] \/ pc[q] \in Waiting]
               /\ lapsed' = lapsed \cup (Owners \ {p})
-----------------------------------------------------------------------------
Init ==
  /\ present = FALSE
  /\ age = 0
  /\ pc = [p \in Process |-> "none"]
  /\ clock = [p \in Process |-> 0]
  /\ waited = [p \in Process |-> 0]
  /\ seen = [p \in Process |-> 0]
  /\ flight = [p \in Process |-> FALSE]
  /\ rival = [p \in Process |-> {}]
  /\ touched = [p \in Process |-> FALSE]
  /\ lapsed = {}

(* waitUntilOk: without a file the lock is free.                           *)
Check(p) ==
  /\ pc[p] = "none"
  /\ GoTo(p, IF present THEN "waiting" ELSE "taking")
  /\ clock' = [clock EXCEPT ![p] = 0]
  /\ rival' = [rival EXCEPT ![p] = Owners]
  /\ touched' = [touched EXCEPT ![p] = FALSE]
  /\ waited' = [waited EXCEPT ![p] = 0]
  /\ UNCHANGED <<present, age, seen, flight, lapsed>>

(* waitUntilExpire opens the file, which fails when it is gone, and stats  *)
(* it.                                                                     *)
Stat(p) ==
  /\ pc[p] = "waiting"
  /\ GoTo(p, IF present THEN "deciding" ELSE "failed")
  /\ clock' = [clock EXCEPT ![p] = 0]
  /\ seen' = [seen EXCEPT ![p] = age]
  /\ waited' = [waited EXCEPT ![p] = IF present THEN @ ELSE 0]
  /\ rival' = [rival EXCEPT ![p] = IF present THEN Owners ELSE {}]
  /\ UNCHANGED <<present, age, flight, touched, lapsed>>

(* Mutant: the slack is left out.                                          *)
ExpiredAtOnce(p) == seen[p] > Stale

Expired(p) == seen[p] > Stale + Slack

(* The answer of stat.  The lock has expired, and will be written once the *)
(* file is closed;                                                         *)
TakeOver(p) ==
  /\ pc[p] = "deciding"
  /\ Expired(p)
  /\ GoTo(p, "taking")
  /\ clock' = [clock EXCEPT ![p] = 0]
  /\ seen' = [seen EXCEPT ![p] = 0]
  /\ waited' = [waited EXCEPT ![p] = 0]
  /\ touched' = [touched EXCEPT ![p] = FALSE]
  /\ UNCHANGED <<present, age, flight, rival, lapsed>>

(* or it has not, and the file is closed first.                            *)
NotYet(p) ==
  /\ pc[p] = "deciding"
  /\ ~Expired(p)
  /\ GoTo(p, "closing")
  /\ clock' = [clock EXCEPT ![p] = 0]
  /\ seen' = [seen EXCEPT ![p] = 0]
  /\ rival' = [rival EXCEPT ![p] = {}]
  /\ UNCHANGED <<present, age, waited, flight, touched, lapsed>>

(* Mutant: the wait ends before an abandoned lock expires.                 *)
OutOfPatienceEarly(p) == waited[p] > Stale

OutOfPatience(p) == waited[p] > 2 * Stale + Slack

(* lock() throws, or the process sleeps for Half.                          *)
GiveUp(p) ==
  /\ pc[p] = "closing"
  /\ OutOfPatience(p)
  /\ GoTo(p, "failed")
  /\ clock' = [clock EXCEPT ![p] = 0]
  /\ waited' = [waited EXCEPT ![p] = 0]
  /\ UNCHANGED <<present, age, seen, flight, rival, touched, lapsed>>

Sleep(p) ==
  /\ pc[p] = "closing"
  /\ ~OutOfPatience(p)
  /\ GoTo(p, "sleeping")
  /\ clock' = [clock EXCEPT ![p] = 0]
  /\ UNCHANGED <<present, age, waited, seen, flight, rival, touched, lapsed>>

(* Mutant: the recursive call does not pass startTime on.                  *)
WakeAnew(p) ==
  /\ pc[p] = "sleeping"
  /\ clock[p] >= Half
  /\ GoTo(p, "waiting")
  /\ clock' = [clock EXCEPT ![p] = 0]
  /\ waited' = [waited EXCEPT ![p] = 0]
  /\ UNCHANGED <<present, age, seen, flight, rival, touched, lapsed>>

Wake(p) ==
  /\ pc[p] = "sleeping"
  /\ clock[p] >= Half
  /\ GoTo(p, "waiting")
  /\ clock' = [clock EXCEPT ![p] = 0]
  /\ UNCHANGED <<present, age, waited, seen, flight, rival, touched, lapsed>>
-----------------------------------------------------------------------------
(* writeSomething: the file is there, before the process knows.  An error  *)
(* is swallowed, and lock() succeeds all the same.                         *)
LandWrite(p) ==
  /\ pc[p] = "taking"
  /\ GoTo(p, "written")
  /\ Written
  /\ clock' = [clock EXCEPT ![p] = 0]
  /\ rival' = [rival EXCEPT ![p] = {}]
  /\ UNCHANGED <<waited, seen, flight, lapsed>>

WriteFails(p) ==
  /\ pc[p] = "taking"
  /\ GoTo(p, "written")
  /\ clock' = [clock EXCEPT ![p] = 0]
  /\ rival' = [rival EXCEPT ![p] = {}]
  /\ lapsed' = lapsed \cup {p}
  /\ UNCHANGED <<present, age, waited, seen, flight, touched>>

(* lock() returns, with the interval set.                                  *)
Locked(p) ==
  /\ pc[p] = "written"
  /\ GoTo(p, "holding")
  /\ clock' = [clock EXCEPT ![p] = 0]
  /\ UNCHANGED <<present, age, waited, seen, flight, rival, touched, lapsed>>

(* The interval fires, until clearInterval, whether or not the last        *)
(* refresh has answered.                                                   *)
Refresh(p) ==
  /\ pc[p] \in Ticking
  /\ clock[p] >= Half
  /\ clock' = [clock EXCEPT ![p] = 0]
  /\ flight' = [flight EXCEPT ![p] = TRUE]
  /\ UNCHANGED <<present, age, pc, waited, seen, rival, touched, lapsed>>

(* A refresh reaches the file, even of a process that has unlocked since,  *)
(* or of one that has lost the lock: nobody looks whose file it is.        *)
LandRefresh(p) ==
  /\ flight[p]
  /\ flight' = [flight EXCEPT ![p] = FALSE]
  /\ Written
  /\ UNCHANGED <<pc, clock, waited, seen, rival, lapsed>>

RefreshFails(p) ==
  /\ flight[p]
  /\ flight' = [flight EXCEPT ![p] = FALSE]
  /\ lapsed' = lapsed \cup {p}
  /\ UNCHANGED <<present, age, pc, clock, waited, seen, rival, touched>>
-----------------------------------------------------------------------------
(* Database.close() calls unlock(), on a database that was opened and on   *)
(* one that could not be.                                                  *)
Close(p) ==
  /\ \/ pc[p] = "holding" /\ GoTo(p, "unlocking")
     \/ pc[p] = "failed" /\ GoTo(p, "removing")
  /\ UNCHANGED <<present, age, clock, waited, seen, flight, rival, touched, lapsed>>

LandUnlink(p) ==
  /\ \/ pc[p] = "unlocking" /\ GoTo(p, "unlinked")
     \/ pc[p] = "removing" /\ GoTo(p, "closed")
  /\ Unlinked(p)
  /\ UNCHANGED <<clock, waited, seen, flight, rival>>

(* unlock() goes on: clearInterval.                                        *)
EndUnlock(p) ==
  /\ pc[p] = "unlinked"
  /\ GoTo(p, "closed")
  /\ clock' = [clock EXCEPT ![p] = 0]
  /\ UNCHANGED <<present, age, waited, seen, flight, rival, touched, lapsed>>

Gone(p) ==
  /\ pc[p] \notin {"none", "gone"}
  /\ GoTo(p, "gone")
  /\ clock' = [clock EXCEPT ![p] = 0]
  /\ waited' = [waited EXCEPT ![p] = 0]
  /\ seen' = [seen EXCEPT ![p] = 0]
  /\ rival' = [rival EXCEPT ![p] = {}]

(* Mutant: a refresh survives the process.                                 *)
ExitUnderWay(p) ==
  /\ Gone(p)
  /\ Unlinked(p)
  /\ UNCHANGED flight

(* The process exits, and the handler unlinks the file: also when this     *)
(* database was closed, or never got the lock.                             *)
Exit(p) ==
  /\ Gone(p)
  /\ Unlinked(p)
  /\ flight' = [flight EXCEPT ![p] = FALSE]

(* It dies without running handlers; the file stays.                       *)
Crash(p) ==
  /\ Gone(p)
  /\ flight' = [flight EXCEPT ![p] = FALSE]
  /\ UNCHANGED <<present, age, touched, lapsed>>

(* p has something due that is late by MaxDelay already.                   *)
Overdue(p) ==
  \/ pc[p] \in {"deciding", "closing", "written"} /\ clock[p] >= MaxDelay
  \/ pc[p] = "holding" /\ flight[p] /\ clock[p] >= MaxDelay
  \/ pc[p] = "holding" /\ clock[p] >= Half + MaxDelay

Tick ==
  /\ age' = IF present THEN Later(age, MaxAge) ELSE 0
  /\ clock' = [p \in Process |->
       IF pc[p] \in Asleep THEN clock[p] ELSE Later(clock[p], MaxClock)]
  /\ waited' = [p \in Process |->
       IF pc[p] \in Waiting THEN Later(waited[p], MaxWait) ELSE waited[p]]
  /\ seen' = [p \in Process |->
       IF pc[p] = "deciding" THEN Later(seen[p], MaxAge) ELSE seen[p]]
  /\ lapsed' = lapsed \cup {p \in Process : Overdue(p)}
  /\ UNCHANGED <<present, pc, flight, rival, touched>>

Step(p) ==
  \/ Stat(p) \/ TakeOver(p) \/ NotYet(p) \/ GiveUp(p) \/ Sleep(p) \/ Wake(p)
  \/ LandWrite(p) \/ WriteFails(p) \/ Locked(p)
  \/ Refresh(p) \/ LandRefresh(p) \/ RefreshFails(p)
  \/ LandUnlink(p) \/ EndUnlock(p)

Next ==
  \/ Tick
  \/ \E p \in Process : Check(p) \/ Step(p) \/ Close(p) \/ Exit(p) \/ Crash(p)

Spec == Init /\ [][Next]_vars

(* Time passes; timers fire and files answer in the end.                   *)
FairSpec == Spec /\ WF_vars(Tick) /\ \A p \in Process : WF_vars(Step(p))
-----------------------------------------------------------------------------
TypeOK ==
  /\ present \in BOOLEAN
  /\ age \in 0..MaxAge
  /\ pc \in [Process -> PC]
  /\ clock \in [Process -> 0..MaxClock]
  /\ waited \in [Process -> 0..MaxWait]
  /\ seen \in [Process -> 0..MaxAge]
  /\ flight \in [Process -> BOOLEAN]
  /\ \A p \in Process : flight[p] => pc[p] \in Ticking \cup {"closed"}
  /\ rival \in [Process -> SUBSET Process]
  /\ touched \in [Process -> BOOLEAN]
  /\ lapsed \subseteq Process

(* Lock() goes ahead only on a file, or on the lack of one, that no owner  *)
(* in good standing had: an owner that refreshes in time, and whose file   *)
(* nobody unlinked, never loses the lock to a process that reads it in     *)
(* time.  (That two processes then find the lock free at once, and both    *)
(* write it, is not excluded: waitUntilOk and writeSomething are two       *)
(* steps.)                                                                 *)
NoIntrusion ==
  \A p \in Process :
    pc[p] = "taking" /\ p \notin lapsed => rival[p] \subseteq lapsed

(* lock() fails only when the file was written or unlinked while the       *)
(* process waited, or the process itself was late: a lock that its owner   *)
(* left behind, by a crash or by a refresh that landed behind the unlink,  *)
(* is always taken over, although the process looks at its file before it  *)
(* closes it, and at its own waiting time after.                           *)
FailsOnlyIfContended ==
  \A p \in Process :
    pc[p] \in {"failed", "removing"} => touched[p] \/ p \in lapsed

(* lock() returns or throws, whatever the others do, however often the     *)
(* file is refreshed or changes hands.                                     *)
LockEnds ==
  \A p \in Process :
    pc[p] = "waiting" ~> pc[p] \in {"holding", "failed", "gone"}
=============================================================================
