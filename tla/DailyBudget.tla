----------------------------- MODULE DailyBudget -----------------------------
(***************************************************************************)
(* The in-memory budget of api/budget.py: one counter, the UTC date it     *)
(* counts for, and the lock that serialises the server's threads.          *)
(*                                                                         *)
(* A call is split where another thread, midnight or a restart can come    *)
(* between: taking the lock, reading the clock, rolling the counter over,  *)
(* and deciding.  reset() is left out: only the tests call it.             *)
(***************************************************************************)
EXTENDS DailyAllowance

CONSTANTS
    Thread,        \* the threads that call the budget
    NoThread,      \* "the lock is free"
    MaxRestarts    \* bound: process restarts in a behaviour

ASSUME BudgetAssumption ==
    /\ NoThread \notin Thread
    /\ MaxRestarts \in Nat

VARIABLES
    day,        \* self._day
    count,      \* self._count
    lock,       \* the thread inside "with self._lock", or NoThread
    op,         \* which call each thread is making
    seen,       \* the date each thread read inside the lock
    restarts    \* history: process restarts so far

callVars == <<lock, pc, op, seen>>
vars == <<today, day, count, callVars, admitted, allowance, restarts>>

TypeOK ==
    /\ today \in Day
    /\ day \in Day
    /\ count \in 0 .. Cap
    /\ lock \in Thread \cup {NoThread}
    /\ pc \in [Thread -> {"idle", "locked", "read", "rolled", "consume"}]
    /\ op \in [Thread -> {"check_and_increment", "remaining"}]
    /\ seen \in [Thread -> Day]
    /\ admitted \in [Day -> Nat]
    /\ allowance \in [Day -> Nat]
    /\ restarts \in 0 .. MaxRestarts

Init ==
    /\ today = 0
    /\ day = 0
    /\ count = 0
    /\ lock = NoThread
    /\ pc = [t \in Thread |-> "idle"]
    /\ op = [t \in Thread |-> "remaining"]
    /\ seen = [t \in Thread |-> 0]
    /\ admitted = [d \in Day |-> 0]
    /\ allowance = [d \in Day |-> Cap]
    /\ restarts = 0

-----------------------------------------------------------------------------
\* Steps of a call

\* Leave the "with" block and return.
Return(t) == Goto(t, "idle") /\ lock' = NoThread

\* Start check_and_increment() or remaining() inside the "with" block.
Enter(t, call) ==
    /\ pc[t] = "idle"
    /\ lock' = t
    /\ op' = [op EXCEPT ![t] = call]
    /\ Goto(t, "locked")
    /\ UNCHANGED <<today, day, count, seen, admitted, allowance, restarts>>

Acquire(t, call) == lock = NoThread /\ Enter(t, call)

\* today = self._now().date(): midnight may pass before the date is used.
ReadClock(t) ==
    /\ pc[t] = "locked"
    /\ seen' = [seen EXCEPT ![t] = today]
    /\ Goto(t, "read")
    /\ UNCHANGED <<today, day, count, lock, op, admitted, allowance, restarts>>

\* Fault: every call clears the counter, whatever day it is.
RolledCountAlways(date) == 0

\* The counter after _maybe_roll_over(date).
RolledCount(date) == IF date # day THEN 0 ELSE count

MaybeRollOver(t) ==
    /\ pc[t] = "read"
    /\ day' = seen[t]
    /\ count' = RolledCount(seen[t])
    /\ Goto(t, "rolled")
    /\ UNCHANGED <<today, lock, op, seen, admitted, allowance, restarts>>

Checking(t) == pc[t] = "rolled" /\ op[t] = "check_and_increment"

\* The cap is reached: return False and leave the counter alone.
Refuse(t) ==
    /\ Checking(t)
    /\ count >= Cap
    /\ Return(t)
    /\ UNCHANGED <<today, day, count, op, seen, admitted, allowance, restarts>>

\* The check is passed: go on to "self._count += 1".
GoConsume(t) ==
    /\ Checking(t)
    /\ Goto(t, "consume")
    /\ UNCHANGED <<today, day, count, lock, op, seen, admitted, allowance, restarts>>

\* Fault: off by one in the comparison with the cap.
PassCheckOffByOne(t) == count <= Cap /\ GoConsume(t)

PassCheck(t) == count < Cap /\ GoConsume(t)

Consume(t) ==
    /\ pc[t] = "consume"
    /\ count' = count + 1
    /\ admitted' = [admitted EXCEPT ![day] = @ + 1]
    /\ Return(t)
    /\ UNCHANGED <<today, day, op, seen, allowance, restarts>>

\* remaining() has rolled the counter over and only reports what is left.
ReturnRemaining(t) ==
    /\ pc[t] = "rolled"
    /\ op[t] = "remaining"
    /\ Return(t)
    /\ UNCHANGED <<today, day, count, op, seen, admitted, allowance, restarts>>

-----------------------------------------------------------------------------
\* The environment

Midnight ==
    /\ today < LastDay
    /\ today' = today + 1
    /\ UNCHANGED <<day, count, callVars, admitted, allowance, restarts>>

\* The process dies with its calls and comes back through __init__.
Restart ==
    /\ restarts < MaxRestarts
    /\ day' = today
    /\ count' = 0
    /\ lock' = NoThread
    /\ pc' = [t \in Thread |-> "idle"]
    /\ op' = [t \in Thread |-> "remaining"]
    /\ seen' = [t \in Thread |-> 0]
    /\ allowance' = [allowance EXCEPT ![today] = @ + Cap]
    /\ restarts' = restarts + 1
    /\ UNCHANGED <<today, admitted>>

Step(t) ==
    \/ ReadClock(t) \/ MaybeRollOver(t)
    \/ Refuse(t) \/ PassCheck(t) \/ Consume(t) \/ ReturnRemaining(t)

Next ==
    \/ \E t \in Thread : \E call \in {"check_and_increment", "remaining"} : Acquire(t, call)
    \/ \E t \in Thread : Step(t)
    \/ Midnight
    \/ Restart

Spec == Init /\ [][Next]_vars

-----------------------------------------------------------------------------
\* Properties

\* Within one life of the process the day being counted has at least as many
\* admissions as the counter shows, and what is left of the counter fits into
\* what is left of the day's allowance: no admission escapes the counter.
CounterCovers ==
    admitted[day] + (Cap - count) <= allowance[day]

\* A counted day never moves backwards: a thread that read the clock before
\* midnight cannot re-open the day another thread already closed.
DayNeverReopens == [][day' >= day]_vars
=============================================================================
