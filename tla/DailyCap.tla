------------------------------ MODULE DailyCap ------------------------------
(***************************************************************************)
(* What a daily request cap promises, whatever keeps the counter: a        *)
(* request admitted on a UTC day uses one slot of that day's allowance,    *)
(* and an allowance is never overdrawn.  The allowance of a day is Cap;    *)
(* losing the counter of a day (the process that holds it restarts, which  *)
(* ADR-0010 accepts, or the store drops its key) grants one more Cap.      *)
(***************************************************************************)
EXTENDS Naturals

CONSTANTS
    Cap,      \* requests allowed per UTC day (settings.demo_daily_request_cap)
    LastDay   \* bound: the last UTC day a behaviour reaches

Day == 0 .. LastDay

VARIABLES
    today,       \* the current UTC date
    admitted,    \* requests admitted against each day's counter
    allowance    \* the slots each day may hand out

capVars == <<today, admitted, allowance>>

Init ==
    /\ today = 0
    /\ admitted = [d \in Day |-> 0]
    /\ allowance = [d \in Day |-> Cap]

Midnight ==
    /\ today < LastDay
    /\ today' = today + 1
    /\ UNCHANGED <<admitted, allowance>>

\* A request decided just after midnight may still be charged to the day
\* whose date it read.
Admit(d) ==
    /\ d <= today
    /\ admitted[d] < allowance[d]
    /\ admitted' = [admitted EXCEPT ![d] = @ + 1]
    /\ UNCHANGED <<today, allowance>>

CounterLost(d) ==
    /\ d <= today
    /\ allowance' = [allowance EXCEPT ![d] = @ + Cap]
    /\ UNCHANGED <<today, admitted>>

Next ==
    \/ Midnight
    \/ \E d \in Day : Admit(d) \/ CounterLost(d)

Spec == Init /\ [][Next]_capVars

=============================================================================
