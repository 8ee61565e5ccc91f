--------------------------- MODULE RedisDailyBudget ---------------------------
(***************************************************************************)
(* The shared budget of api/budget.py: every instance of the service       *)
(* increments one Redis counter per UTC date, and the instance that finds  *)
(* it has created the counter gives it a time to live.                     *)
(*                                                                         *)
(* INCR and EXPIRE are atomic in Redis, but a call is not: the date is     *)
(* read before INCR is sent, the time to live is computed from a second    *)
(* reading of the clock, and any command may fail, take effect without its *)
(* reply arriving, or never be sent because the instance died.             *)
(*                                                                         *)
(* Time passes in ticks, TicksPerSecond to a second, because the time to   *)
(* live is a whole number of seconds.  remaining() and reset() are left    *)
(* out: one only reads, the other is for tests.                            *)
(***************************************************************************)
EXTENDS DailyAllowance, FiniteSets

CONSTANTS
    Instance,        \* the running copies of the service
    NoTtl,           \* "the key never expires"
    TicksPerSecond,
    SecondsPerDay,
    MaxRequests,     \* bound: calls in a behaviour
    MaxFaults        \* bound: failed commands and crashes in a behaviour

ASSUME RedisAssumption ==
    /\ NoTtl \notin Nat
    /\ Cap # 0
    /\ TicksPerSecond \in Nat \ {0}
    /\ SecondsPerDay \in Nat \ {0}
    /\ MaxRequests \in Nat
    /\ MaxFaults \in Nat

DayTicks == SecondsPerDay * TicksPerSecond

VARIABLES
    tick,       \* ticks since midnight
    value,      \* Redis: the counter under each date's key, 0 when there is none
    left,       \* Redis: ticks each key still has to live, or NoTtl
    key,        \* the date in the key each instance is using
    ttl,        \* the seconds each instance is about to pass to EXPIRE
    requests,   \* calls made so far
    faults      \* failed commands and crashes so far

redisVars == <<value, left>>
history == <<requests, faults, admitted, allowance>>
sharedVars == <<today, tick, redisVars, pc, key, ttl, history>>

SharedTypeOK ==
    /\ today \in Day
    /\ tick \in Nat
    /\ value \in [Day -> Nat]
    /\ left \in [Day -> Nat \cup {NoTtl}]
    /\ pc \in [Instance -> {"idle", "incr", "ttl", "expire"}]
    /\ key \in [Instance -> Day]
    /\ ttl \in [Instance -> Nat \ {0}]
    /\ requests \in 0 .. MaxRequests
    /\ faults \in 0 .. MaxFaults
    /\ admitted \in [Day -> Nat]
    /\ allowance \in [Day -> Nat]

SharedInit ==
    /\ today = 0
    /\ tick = 0
    /\ value = [d \in Day |-> 0]
    /\ left = [d \in Day |-> NoTtl]
    /\ pc = [i \in Instance |-> "idle"]
    /\ key = [i \in Instance |-> 0]
    /\ ttl = [i \in Instance |-> 1]
    /\ requests = 0
    /\ faults = 0
    /\ admitted = [d \in Day |-> 0]
    /\ allowance = [d \in Day |-> Cap]

-----------------------------------------------------------------------------
\* The clock and Redis

\* A key that is due is removed before anything else touches it.
Due(d) == value[d] > 0 /\ left[d] = 0

CountDown == left' = [d \in Day |-> IF left[d] \in Nat /\ left[d] > 0 THEN left[d] - 1 ELSE left[d]]

Tick ==
    /\ \A d \in Day : ~Due(d)
    /\ \/ /\ tick + 1 < DayTicks
          /\ tick' = tick + 1
          /\ UNCHANGED today
       \/ /\ tick + 1 >= DayTicks
          /\ today < LastDay
          /\ tick' = 0
          /\ today' = today + 1
    /\ CountDown
    /\ UNCHANGED <<value, pc, key, ttl, history>>

KeyExpires(d) ==
    /\ Due(d)
    /\ value' = [value EXCEPT ![d] = 0]
    /\ left' = [left EXCEPT ![d] = NoTtl]
    /\ allowance' = [allowance EXCEPT ![d] = @ + Cap]
    /\ UNCHANGED <<today, tick, pc, key, ttl, requests, faults, admitted>>

-----------------------------------------------------------------------------
\* check_and_increment()

\* key = self._key()
ReadKey(i) ==
    /\ pc[i] = "idle"
    /\ requests < MaxRequests
    /\ key' = [key EXCEPT ![i] = today]
    /\ requests' = requests + 1
    /\ Goto(i, "incr")
    /\ UNCHANGED <<today, tick, redisVars, ttl, faults, admitted, allowance>>

\* Fault: the comparison is off by one.
WithinCapOffByOne(count) == count <= Cap + 1

\* The counter let this request through.
WithinCap(count) == count <= Cap

\* INCR key, and the comparison of its reply with the cap.
Incr(i) ==
    LET d == key[i]
        count == value[d] + 1
    IN  /\ pc[i] = "incr"
        /\ ~Due(d)
        /\ value' = [value EXCEPT ![d] = count]
        /\ admitted' = IF WithinCap(count) THEN [admitted EXCEPT ![d] = @ + 1] ELSE admitted
        /\ Goto(i, IF count = 1 THEN "ttl" ELSE "idle")
        /\ UNCHANGED <<today, tick, left, key, ttl, requests, faults, allowance>>

\* _seconds_until_midnight(): whole seconds, at least one.
SecondsUntilMidnight ==
    LET seconds == (DayTicks - tick) \div TicksPerSecond
    IN  IF seconds > 1 THEN seconds ELSE 1

ReadTtl(i) ==
    /\ pc[i] = "ttl"
    /\ ttl' = [ttl EXCEPT ![i] = SecondsUntilMidnight]
    /\ Goto(i, "expire")
    /\ UNCHANGED <<today, tick, redisVars, key, history>>

\* Fault: the instance that created the key forgets EXPIRE.
ExpireForgotten(i) ==
    /\ pc[i] = "expire"
    /\ ~Due(key[i])
    /\ Goto(i, "idle")
    /\ UNCHANGED <<today, tick, redisVars, key, ttl, history>>

\* EXPIRE does nothing to a key that has gone.
Expire(i) ==
    /\ pc[i] = "expire"
    /\ ~Due(key[i])
    /\ left' = IF value[key[i]] > 0
                 THEN [left EXCEPT ![key[i]] = ttl[i] * TicksPerSecond]
                 ELSE left
    /\ Goto(i, "idle")
    /\ UNCHANGED <<today, tick, value, key, ttl, history>>

-----------------------------------------------------------------------------
\* Failures

Fault == faults < MaxFaults /\ faults' = faults + 1

\* The exception handler of check_and_increment returns True: the request goes
\* through with no slot.
FailOpen(i) == Goto(i, "idle")

\* INCR raises without having reached Redis.
IncrFails(i) ==
    /\ pc[i] = "incr"
    /\ Fault
    /\ FailOpen(i)
    /\ UNCHANGED <<today, tick, redisVars, key, ttl, requests, admitted, allowance>>

\* INCR takes effect, and raises because its reply is lost.
IncrReplyLost(i) ==
    /\ pc[i] = "incr"
    /\ ~Due(key[i])
    /\ Fault
    /\ FailOpen(i)
    /\ value' = [value EXCEPT ![key[i]] = @ + 1]
    /\ UNCHANGED <<today, tick, left, key, ttl, requests, admitted, allowance>>

\* EXPIRE raises; the slot that INCR took lets the request through anyway.
ExpireFails(i) ==
    /\ pc[i] = "expire"
    /\ Fault
    /\ Goto(i, "idle")
    /\ UNCHANGED <<today, tick, redisVars, key, ttl, requests, admitted, allowance>>

\* The instance dies in the middle of a call and is replaced.
Crash(i) ==
    /\ pc[i] # "idle"
    /\ Fault
    /\ Goto(i, "idle")
    /\ UNCHANGED <<today, tick, redisVars, key, ttl, requests, admitted, allowance>>

Call(i) ==
    \/ ReadKey(i) \/ Incr(i) \/ ReadTtl(i) \/ Expire(i)
    \/ IncrFails(i) \/ IncrReplyLost(i) \/ ExpireFails(i) \/ Crash(i)

SharedNext ==
    \/ Tick
    \/ \E d \in Day : KeyExpires(d)
    \/ \E i \in Instance : Call(i)

SharedSpec == SharedInit /\ [][SharedNext]_sharedVars

-----------------------------------------------------------------------------
\* Properties

\* What one life of a key has left to grant fits into the date's allowance: a
\* slot is never granted twice, by two instances or by a retry.
KeyCovers ==
    \A d \in Day : value[d] <= Cap => admitted[d] + (Cap - value[d]) <= allowance[d]

\* The dates whose keys stay for ever: there is no time to live, and no call is
\* at work on them that could give them one.
LeftBehind ==
    {d \in Day : value[d] > 0 /\ left[d] = NoTtl /\ \A i \in Instance : pc[i] # "idle" => key[i] # d}

\* Stale keys do not accumulate but by failures, and a failure leaves at most one
\* behind: only the call whose INCR returned 1 gives a key its time to live, so a
\* lost reply, a failed EXPIRE or a crash in that call keeps the key for ever.
EveryKeyExpires == Cardinality(LeftBehind) <= faults
=============================================================================
