--------------------------- MODULE DailyAllowance ---------------------------
(***************************************************************************)
(* What the two budgets of api/budget.py have in common: the UTC days, the *)
(* callers in the middle of a call, and the account of each day that       *)
(* DailyCap promises to keep.                                              *)
(***************************************************************************)
EXTENDS Integers

CONSTANTS
    Cap,       \* requests allowed per UTC day
    LastDay    \* bound: the last UTC day

ASSUME AllowanceAssumption == Cap \in Nat /\ LastDay \in Nat

Day == 0 .. LastDay

VARIABLES
    today,      \* the UTC date: datetime.now(UTC).date()
    pc,         \* where each caller is in its call
    admitted,   \* history: requests allowed against each day's counter
    allowance   \* history: the slots each day may hand out, one Cap per life of its counter

Goto(caller, where) == pc' = [pc EXCEPT ![caller] = where]

\* No more requests are allowed against a day than its allowance, one cap for each
\* life of the counter (of the process, of the key): ADR-0010 accepts that two
\* restarts in a day give three times the cap, and no interleaving of threads,
\* instances, failures and midnight may give more.
AllowanceKept == \A d \in Day : admitted[d] <= allowance[d]

\* A budget implements the daily cap: a slot that its counter grants is an
\* admission, a counter that is lost grants one more cap, and everything else
\* stutters or is midnight.
Abstract == INSTANCE DailyCap
CapSpec == Abstract!Spec
=============================================================================
