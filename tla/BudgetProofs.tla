---------------------------- MODULE BudgetProofs ----------------------------
(***************************************************************************)
(* Proofs about the daily budgets, for every cap and number of days: the   *)
(* in-memory one for every set of threads, the shared one for every set of *)
(* instances, length of day and number of failures.  Of each: its types,   *)
(* its safety invariants, and that it implements DailyCap; of the first    *)
(* the action property on the counted day.                                 *)
(***************************************************************************)
EXTENDS DailyBudget, RedisDailyBudget, FiniteSetTheorems, TLAPS

-----------------------------------------------------------------------------
\* The in-memory budget

\* Only the holder of the lock is inside a call.
OnlyHolderInside == \A t \in Thread : pc[t] # "idle" => lock = t

\* The counted day is never in the future, and a date read inside the lock is
\* neither in the future nor before the counted day.
DatesInOrder ==
    /\ day <= today
    /\ \A t \in Thread : pc[t] = "read" => day <= seen[t] /\ seen[t] <= today

\* A day the counter has not reached has admitted nothing.
FutureUntouched == \A d \in Day : day < d => admitted[d] = 0

\* Every day may hand out at least one cap.
CapAtLeast == \A d \in Day : Cap <= allowance[d]

\* A thread about to consume found a free slot, and nobody took it since.
SlotReserved == \A t \in Thread : pc[t] = "consume" => count < Cap

IInv ==
    /\ TypeOK
    /\ OnlyHolderInside
    /\ DatesInOrder
    /\ FutureUntouched
    /\ SlotReserved
    /\ CapAtLeast
    /\ CounterCovers
    /\ AllowanceKept

\* The initial state satisfies the inductive invariant.
LEMMA InitIInv == Init => IInv
<1> SUFFICES ASSUME Init PROVE IInv
  OBVIOUS
<1> USE BudgetAssumption, AllowanceAssumption
<1>1. TypeOK
  BY DEF Init, TypeOK, Day
<1>2. OnlyHolderInside /\ DatesInOrder /\ FutureUntouched /\ SlotReserved
  BY DEF Init, OnlyHolderInside, DatesInOrder, FutureUntouched, SlotReserved, Day
<1>4. CounterCovers /\ AllowanceKept /\ CapAtLeast
  BY DEF Init, CounterCovers, AllowanceKept, CapAtLeast, Day
<1>5. QED
  BY <1>1, <1>2, <1>4 DEF IInv


\* The call steps of one thread keep the types.
LEMMA TypeStep == TypeOK /\ OnlyHolderInside /\ DatesInOrder /\ SlotReserved
                  /\ [Next]_vars => TypeOK'
<1> SUFFICES ASSUME TypeOK, OnlyHolderInside, DatesInOrder, SlotReserved, [Next]_vars
             PROVE  TypeOK'
  OBVIOUS
<1> USE BudgetAssumption, AllowanceAssumption DEF TypeOK, Day, Goto, Return, Checking
<1>1. ASSUME NEW t \in Thread, NEW call \in {"check_and_increment", "remaining"},
             Acquire(t, call)
      PROVE  TypeOK'
  BY <1>1 DEF Acquire, Enter
<1>2. ASSUME NEW t \in Thread, ReadClock(t) PROVE TypeOK'
  BY <1>2 DEF ReadClock
<1>3. ASSUME NEW t \in Thread, MaybeRollOver(t) PROVE TypeOK'
  BY <1>3 DEF MaybeRollOver, RolledCount
<1>4. ASSUME NEW t \in Thread, Refuse(t) \/ ReturnRemaining(t) PROVE TypeOK'
  BY <1>4 DEF Refuse, ReturnRemaining
<1>5. ASSUME NEW t \in Thread, PassCheck(t) PROVE TypeOK'
  BY <1>5 DEF PassCheck, GoConsume
<1>6. ASSUME NEW t \in Thread, Consume(t) PROVE TypeOK'
  <2>1. count < Cap
    BY <1>6 DEF Consume, SlotReserved
  <2>2. count' \in 0 .. Cap /\ admitted' \in [Day -> Nat]
    BY <1>6, <2>1 DEF Consume
  <2>3. lock' \in Thread \cup {NoThread} /\ UNCHANGED <<today, day, op, seen, allowance, restarts>>
    BY <1>6 DEF Consume
  <2>4. pc' \in [Thread -> {"idle", "locked", "read", "rolled", "consume"}]
    BY <1>6 DEF Consume
  <2>5. QED
    BY <2>2, <2>3, <2>4
<1>7. CASE Midnight
  BY <1>7 DEF Midnight, callVars
<1>8. CASE Restart
  BY <1>8 DEF Restart
<1>9. CASE UNCHANGED vars
  BY <1>9 DEF vars, callVars
<1>10. QED
  BY <1>1, <1>2, <1>3, <1>4, <1>5, <1>6, <1>7, <1>8, <1>9 DEF Next, Step

\* Mutual exclusion, the order of the dates and the reserved slot survive every
\* step: the lock is what keeps another thread out between a check and its
\* increment.
LEMMA CallStep == TypeOK /\ OnlyHolderInside /\ DatesInOrder /\ SlotReserved
                  /\ [Next]_vars => (OnlyHolderInside /\ DatesInOrder /\ SlotReserved)'
<1> SUFFICES ASSUME TypeOK, OnlyHolderInside, DatesInOrder, SlotReserved, [Next]_vars
             PROVE  (OnlyHolderInside /\ DatesInOrder /\ SlotReserved)'
  OBVIOUS
<1> USE BudgetAssumption, AllowanceAssumption DEF TypeOK, Day, Goto, Return, Checking,
                             OnlyHolderInside, DatesInOrder, SlotReserved
<1> DEFINE Goal == (OnlyHolderInside /\ DatesInOrder /\ SlotReserved)'
<1>1. ASSUME NEW t \in Thread, NEW call \in {"check_and_increment", "remaining"},
             Acquire(t, call)
      PROVE  Goal
  BY <1>1 DEF Acquire, Enter
<1>2. ASSUME NEW t \in Thread, ReadClock(t) PROVE Goal
  BY <1>2 DEF ReadClock
<1>3. ASSUME NEW t \in Thread, MaybeRollOver(t) PROVE Goal
  BY <1>3 DEF MaybeRollOver, RolledCount
<1>4. ASSUME NEW t \in Thread, Refuse(t) \/ ReturnRemaining(t) PROVE Goal
  BY <1>4 DEF Refuse, ReturnRemaining
<1>5. ASSUME NEW t \in Thread, PassCheck(t) PROVE Goal
  BY <1>5 DEF PassCheck, GoConsume
<1>6. ASSUME NEW t \in Thread, Consume(t) PROVE Goal
  BY <1>6 DEF Consume
<1>7. CASE Midnight
  BY <1>7 DEF Midnight, callVars
<1>8. CASE Restart
  BY <1>8 DEF Restart
<1>9. CASE UNCHANGED vars
  BY <1>9 DEF vars, callVars
<1>10. QED
  BY <1>1, <1>2, <1>3, <1>4, <1>5, <1>6, <1>7, <1>8, <1>9 DEF Next, Step

\* Rolling the counter over to a later day starts on an untouched allowance.
LEMMA RollOverAccount ==
    ASSUME IInv, NEW t \in Thread, MaybeRollOver(t)
    PROVE  (FutureUntouched /\ CounterCovers /\ AllowanceKept)'
<1>1. /\ day' = seen[t] /\ seen[t] \in Day /\ day <= seen[t]
      /\ count' = IF seen[t] # day THEN 0 ELSE count
      /\ UNCHANGED <<admitted, allowance>>
  BY DEF IInv, TypeOK, DatesInOrder, MaybeRollOver, RolledCount
<1>2. /\ day \in Nat /\ count \in Nat /\ Cap \in Nat
      /\ admitted \in [Day -> Nat] /\ allowance \in [Day -> Nat]
  BY BudgetAssumption, AllowanceAssumption DEF IInv, TypeOK, Day
<1>3. FutureUntouched'
  BY <1>1, <1>2 DEF IInv, FutureUntouched, Day
<1>4. AllowanceKept'
  BY <1>1 DEF IInv, AllowanceKept
<1>5. CounterCovers'
  <2>1. CASE seen[t] = day
    BY <1>1, <2>1 DEF IInv, CounterCovers
  <2>2. CASE seen[t] # day
    <3>1. admitted[seen[t]] = 0 /\ Cap <= allowance[seen[t]]
      BY <1>1, <1>2, <2>2 DEF IInv, FutureUntouched, CapAtLeast, Day
    <3>2. QED
      BY <1>1, <1>2, <2>2, <3>1 DEF CounterCovers
  <2>3. QED
    BY <2>1, <2>2
<1>6. QED
  BY <1>3, <1>4, <1>5

\* Consuming a reserved slot keeps the admissions under the allowance.
LEMMA ConsumeAccount ==
    ASSUME IInv, NEW t \in Thread, Consume(t)
    PROVE  (FutureUntouched /\ CounterCovers /\ AllowanceKept)'
<1>1. /\ UNCHANGED <<day, allowance>>
      /\ count' = count + 1
      /\ admitted' = [admitted EXCEPT ![day] = @ + 1]
      /\ count < Cap
  BY DEF IInv, SlotReserved, Consume
<1>2. /\ day \in Day /\ count \in Nat /\ Cap \in Nat
      /\ admitted \in [Day -> Nat] /\ allowance \in [Day -> Nat]
  BY BudgetAssumption, AllowanceAssumption DEF IInv, TypeOK
<1>3. /\ admitted'[day] = admitted[day] + 1
      /\ \A d \in Day : d # day => admitted'[d] = admitted[d]
  BY <1>1, <1>2
<1>4. FutureUntouched'
  BY <1>1, <1>2, <1>3 DEF IInv, FutureUntouched, Day
<1>5. CounterCovers'
  BY <1>1, <1>2, <1>3 DEF IInv, CounterCovers
<1>6. AllowanceKept'
  <2>1. admitted[day] + (Cap - count) <= allowance[day]
    BY DEF IInv, CounterCovers
  <2>2. admitted[day] + 1 <= allowance[day]
    BY <1>1, <1>2, <2>1
  <2>3. QED
    BY <1>1, <1>2, <1>3, <2>2 DEF IInv, AllowanceKept
<1>7. QED
  BY <1>4, <1>5, <1>6

\* A restart forgets the counter and is granted a cap for it.
LEMMA RestartAccount ==
    ASSUME IInv, Restart
    PROVE  (FutureUntouched /\ CounterCovers /\ AllowanceKept /\ CapAtLeast)'
<1>1. /\ day' = today /\ count' = 0 /\ admitted' = admitted /\ day <= today
      /\ allowance' = [allowance EXCEPT ![today] = @ + Cap]
  BY DEF IInv, DatesInOrder, Restart
<1>2. /\ today \in Day /\ day \in Day /\ Cap \in Nat
      /\ admitted \in [Day -> Nat] /\ allowance \in [Day -> Nat]
  BY BudgetAssumption, AllowanceAssumption DEF IInv, TypeOK
<1>3. /\ allowance'[today] = allowance[today] + Cap
      /\ \A d \in Day : d # today => allowance'[d] = allowance[d]
  BY <1>1, <1>2
<1>4. FutureUntouched'
  BY <1>1, <1>2 DEF IInv, FutureUntouched, Day
<1>5. CounterCovers'
  BY <1>1, <1>2, <1>3 DEF IInv, AllowanceKept, CounterCovers
<1>6. (AllowanceKept /\ CapAtLeast)'
  BY <1>1, <1>2, <1>3 DEF IInv, AllowanceKept, CapAtLeast
<1>7. QED
  BY <1>4, <1>5, <1>6

\* The accounting survives every step.
LEMMA AccountStep == IInv /\ [Next]_vars
                     => (FutureUntouched /\ CounterCovers /\ AllowanceKept /\ CapAtLeast)'
<1> DEFINE Goal == (FutureUntouched /\ CounterCovers /\ AllowanceKept /\ CapAtLeast)'
<1> SUFFICES ASSUME IInv, [Next]_vars PROVE Goal
  OBVIOUS
<1>1. ASSUME UNCHANGED <<day, count, admitted, allowance>> PROVE Goal
  BY <1>1 DEF IInv, FutureUntouched, CounterCovers, AllowanceKept, CapAtLeast
<1>2. ASSUME NEW t \in Thread, MaybeRollOver(t) PROVE Goal
  BY <1>2, RollOverAccount DEF MaybeRollOver, IInv, CapAtLeast
<1>3. ASSUME NEW t \in Thread, Consume(t) PROVE Goal
  BY <1>3, ConsumeAccount DEF Consume, IInv, CapAtLeast
<1>4. ASSUME NEW t \in Thread, NEW call \in {"check_and_increment", "remaining"},
             Acquire(t, call)
      PROVE  Goal
  BY <1>1, <1>4 DEF Acquire, Enter
<1>5. ASSUME NEW t \in Thread,
             ReadClock(t) \/ Refuse(t) \/ PassCheck(t) \/ ReturnRemaining(t)
      PROVE  Goal
  BY <1>1, <1>5 DEF ReadClock, Refuse, PassCheck, GoConsume, ReturnRemaining
<1>6. CASE Midnight
  BY <1>1, <1>6 DEF Midnight
<1>7. CASE Restart
  BY <1>7, RestartAccount
<1>8. CASE UNCHANGED vars
  BY <1>1, <1>8 DEF vars
<1>9. QED
  BY <1>2, <1>3, <1>4, <1>5, <1>6, <1>7, <1>8 DEF Next, Step

\* The inductive invariant holds in every state.
THEOREM Inductive == Spec => []IInv
<1>1. IInv /\ [Next]_vars => IInv'
  BY TypeStep, CallStep, AccountStep DEF IInv
<1>2. QED
  BY InitIInv, <1>1, PTL DEF Spec

\* Types: in particular the counter never passes the cap, so remaining() is
\* never negative.
THEOREM TypeCorrect == Spec => []TypeOK
BY Inductive, PTL DEF IInv

\* For any threads, cap and days, no interleaving of calls, midnights and
\* restarts admits more requests against a day than its allowance.
THEOREM AllowanceTheorem == Spec => []AllowanceKept
BY Inductive, PTL DEF IInv

\* No admission escapes the counter.
THEOREM CounterTheorem == Spec => []CounterCovers
BY Inductive, PTL DEF IInv

\* The counted day never moves backwards.
THEOREM DayTheorem == Spec => DayNeverReopens
<1>1. IInv /\ [Next]_vars => [day' >= day]_vars
  <2> SUFFICES ASSUME IInv, Next PROVE day' >= day
    BY DEF vars
  <2>1. day \in Nat /\ today \in Nat /\ day <= today
    BY DEF IInv, TypeOK, DatesInOrder, Day
  <2>2. ASSUME NEW t \in Thread, MaybeRollOver(t) PROVE day' >= day
    BY <2>1, <2>2 DEF MaybeRollOver, IInv, TypeOK, DatesInOrder, Day
  <2>3. CASE Restart
    BY <2>1, <2>3 DEF Restart
  <2>4. CASE Midnight
    BY <2>1, <2>4 DEF Midnight
  <2>5. ASSUME NEW t \in Thread, NEW call \in {"check_and_increment", "remaining"},
               Acquire(t, call)
        PROVE  day' >= day
    BY <2>1, <2>5 DEF Acquire, Enter
  <2>6. ASSUME NEW t \in Thread,
               ReadClock(t) \/ Refuse(t) \/ PassCheck(t) \/ Consume(t) \/ ReturnRemaining(t)
        PROVE  day' >= day
    BY <2>1, <2>6 DEF ReadClock, Refuse, PassCheck, GoConsume, Consume, ReturnRemaining
  <2>7. QED
    BY <2>2, <2>3, <2>4, <2>5, <2>6 DEF Next, Step
<1>2. QED
  BY Inductive, <1>1, PTL DEF Spec, DayNeverReopens

\* The budget implements the abstract cap: the initial states agree, and every
\* step is an admission, a midnight, a restart or a stutter.
THEOREM ImplementsCap == Spec => CapSpec
<1>1. Init => Abstract!Init
  BY DEF Init, Abstract!Init, Day, Abstract!Day
<1>2. IInv /\ [Next]_vars => [Abstract!Next]_(Abstract!capVars)
  <2> SUFFICES ASSUME IInv, [Next]_vars
               PROVE  Abstract!Next \/ UNCHANGED Abstract!capVars
    OBVIOUS
  <2>1. ASSUME NEW t \in Thread, Consume(t) PROVE Abstract!Admit(day) /\ day \in Abstract!Day
    <3>1. /\ day \in Day /\ day <= today /\ count < Cap
          /\ admitted[day] + (Cap - count) <= allowance[day]
      BY <2>1 DEF Consume, IInv, TypeOK, DatesInOrder, SlotReserved, CounterCovers
    <3>2. count \in Nat /\ Cap \in Nat /\ admitted[day] \in Nat /\ allowance[day] \in Nat
      BY <3>1, BudgetAssumption, AllowanceAssumption DEF IInv, TypeOK
    <3>3. admitted[day] < allowance[day]
      BY <3>1, <3>2
    <3>4. QED
      BY <2>1, <3>1, <3>3 DEF Consume, Abstract!Admit, Abstract!Day, Day
  <2>2. CASE Restart
    <3>1. today \in Abstract!Day /\ today \in Nat
      BY DEF IInv, TypeOK, Day, Abstract!Day
    <3>2. Abstract!CounterLost(today)
      BY <2>2, <3>1 DEF Restart, Abstract!CounterLost
    <3>3. QED
      BY <3>1, <3>2 DEF Abstract!Next
  <2>3. CASE Midnight
    BY <2>3 DEF Midnight, Abstract!Midnight, Abstract!Next
  <2>4. ASSUME NEW t \in Thread, NEW call \in {"check_and_increment", "remaining"},
               Acquire(t, call)
        PROVE  UNCHANGED Abstract!capVars
    BY <2>4 DEF Acquire, Enter, Abstract!capVars
  <2>5. ASSUME NEW t \in Thread,
               ReadClock(t) \/ MaybeRollOver(t) \/ Refuse(t) \/ PassCheck(t) \/ ReturnRemaining(t)
        PROVE  UNCHANGED Abstract!capVars
    BY <2>5 DEF ReadClock, MaybeRollOver, Refuse, PassCheck, GoConsume, ReturnRemaining,
                Abstract!capVars
  <2>6. CASE UNCHANGED vars
    BY <2>6 DEF vars, Abstract!capVars
  <2>7. QED
    BY <2>1, <2>2, <2>3, <2>4, <2>5, <2>6 DEF Next, Step, Abstract!Next
<1>3. QED
  BY Inductive, <1>1, <1>2, PTL DEF Spec, CapSpec, Abstract!Spec

-----------------------------------------------------------------------------
\* The shared budget

\* No call, and no key in Redis, is for a date that has not come yet.
DatesPast ==
    /\ \A i \in Instance : key[i] <= today
    /\ \A d \in Day : value[d] > 0 => d <= today

SharedIInv ==
    /\ SharedTypeOK
    /\ DatesPast
    /\ KeyCovers
    /\ AllowanceKept

\* The initial state satisfies the inductive invariant.
LEMMA SharedInitIInv == SharedInit => SharedIInv
<1> SUFFICES ASSUME SharedInit PROVE SharedIInv
  OBVIOUS
<1> USE RedisAssumption, AllowanceAssumption
<1>1. SharedTypeOK
  BY DEF SharedInit, SharedTypeOK, Day
<1>2. DatesPast /\ KeyCovers /\ AllowanceKept
  BY DEF SharedInit, DatesPast, KeyCovers, AllowanceKept, Day
<1>3. QED
  BY <1>1, <1>2 DEF SharedIInv

\* The time to live that a call computes is a positive number of seconds.
LEMMA TtlPositive == SharedTypeOK => SecondsUntilMidnight \in Nat \ {0}
<1> SUFFICES ASSUME SharedTypeOK PROVE SecondsUntilMidnight \in Nat \ {0}
  OBVIOUS
<1>1. DayTicks - tick \in Int /\ TicksPerSecond \in Nat /\ TicksPerSecond > 0
  BY RedisAssumption, AllowanceAssumption DEF SharedTypeOK, DayTicks
<1>2. (DayTicks - tick) \div TicksPerSecond \in Int
  BY <1>1
<1>3. QED
  BY <1>2 DEF SecondsUntilMidnight

\* A tick lowers the times to live and nothing else in Redis.
LEMMA CountDownType == SharedTypeOK /\ CountDown => left' \in [Day -> Nat \cup {NoTtl}]
BY RedisAssumption, AllowanceAssumption DEF SharedTypeOK, CountDown

\* Failures stay within their bound.
LEMMA FaultCounted == SharedTypeOK /\ Fault => faults' \in 0 .. MaxFaults
BY RedisAssumption, AllowanceAssumption DEF SharedTypeOK, Fault

\* Every step keeps the types.
LEMMA SharedTypeStep == SharedTypeOK /\ [SharedNext]_sharedVars => SharedTypeOK'
<1> SUFFICES ASSUME SharedTypeOK, [SharedNext]_sharedVars PROVE SharedTypeOK'
  OBVIOUS
<1> USE RedisAssumption, AllowanceAssumption DEF SharedTypeOK, Day, Goto, redisVars, history, FailOpen
<1>1. CASE Tick
  <2>1. today' \in Day /\ tick' \in Nat
    BY <1>1 DEF Tick
  <2>2. left' \in [Day -> Nat \cup {NoTtl}]
    BY <1>1, CountDownType DEF Tick
  <2>3. UNCHANGED <<value, pc, key, ttl, requests, faults, admitted, allowance>>
    BY <1>1 DEF Tick
  <2>4. QED
    BY <2>1, <2>2, <2>3
<1>2. ASSUME NEW d \in Day, KeyExpires(d) PROVE SharedTypeOK'
  <2>1. value' \in [Day -> Nat] /\ left' \in [Day -> Nat \cup {NoTtl}]
    BY <1>2 DEF KeyExpires
  <2>2. allowance' \in [Day -> Nat]
    BY <1>2 DEF KeyExpires
  <2>3. UNCHANGED <<today, tick, pc, key, ttl, requests, faults, admitted>>
    BY <1>2 DEF KeyExpires
  <2>4. QED
    BY <2>1, <2>2, <2>3
<1>3. ASSUME NEW i \in Instance, ReadKey(i) PROVE SharedTypeOK'
  <2>1. key' \in [Instance -> Day] /\ requests' \in 0 .. MaxRequests
    BY <1>3 DEF ReadKey
  <2>2. pc' \in [Instance -> {"idle", "incr", "ttl", "expire"}]
    BY <1>3 DEF ReadKey
  <2>3. UNCHANGED <<today, tick, value, left, ttl, faults, admitted, allowance>>
    BY <1>3 DEF ReadKey
  <2>4. QED
    BY <2>1, <2>2, <2>3
<1>4. ASSUME NEW i \in Instance, Incr(i) PROVE SharedTypeOK'
  <2>1. value' \in [Day -> Nat] /\ admitted' \in [Day -> Nat]
    <3>1. /\ value' = [value EXCEPT ![key[i]] = value[key[i]] + 1]
          /\ \/ admitted' = [admitted EXCEPT ![key[i]] = @ + 1]
             \/ admitted' = admitted
      BY <1>4 DEF Incr
    <3>2. value \in [Day -> Nat] /\ admitted \in [Day -> Nat] /\ key[i] \in Day
      OBVIOUS
    <3>3. QED
      BY ONLY <3>1, <3>2
  <2>2. pc' \in [Instance -> {"idle", "incr", "ttl", "expire"}]
    BY <1>4 DEF Incr
  <2>3. UNCHANGED <<today, tick, left, key, ttl, requests, faults, allowance>>
    BY <1>4 DEF Incr
  <2>4. QED
    BY <2>1, <2>2, <2>3
<1>5. ASSUME NEW i \in Instance, ReadTtl(i) PROVE SharedTypeOK'
  <2>1. ttl' \in [Instance -> Nat \ {0}]
    BY <1>5, TtlPositive DEF ReadTtl
  <2>2. pc' \in [Instance -> {"idle", "incr", "ttl", "expire"}]
    BY <1>5 DEF ReadTtl
  <2>3. UNCHANGED <<today, tick, value, left, key, requests, faults, admitted, allowance>>
    BY <1>5 DEF ReadTtl
  <2>4. QED
    BY <2>1, <2>2, <2>3
<1>6. ASSUME NEW i \in Instance, Expire(i) PROVE SharedTypeOK'
  <2>1. ttl[i] * TicksPerSecond \in Nat
    OBVIOUS
  <2>2. QED
    BY <1>6, <2>1 DEF Expire
<1>7. ASSUME NEW i \in Instance, IncrFails(i) PROVE SharedTypeOK'
  BY <1>7, FaultCounted DEF IncrFails
<1>8. ASSUME NEW i \in Instance, IncrReplyLost(i) PROVE SharedTypeOK'
  <2>1. value' \in [Day -> Nat]
    BY <1>8 DEF IncrReplyLost
  <2>2. QED
    BY <1>8, <2>1, FaultCounted DEF IncrReplyLost
<1>9. ASSUME NEW i \in Instance, ExpireFails(i) PROVE SharedTypeOK'
  BY <1>9, FaultCounted DEF ExpireFails
<1>10. ASSUME NEW i \in Instance, Crash(i) PROVE SharedTypeOK'
  BY <1>10, FaultCounted DEF Crash
<1>11. CASE UNCHANGED sharedVars
  BY <1>11 DEF sharedVars
<1>12. QED
  BY <1>1, <1>2, <1>3, <1>4, <1>5, <1>6, <1>7, <1>8, <1>9, <1>10, <1>11 DEF SharedNext, Call

\* The dates in use stay in the past or present.
LEMMA SharedDatesStep == SharedTypeOK /\ DatesPast /\ [SharedNext]_sharedVars => DatesPast'
<1> SUFFICES ASSUME SharedTypeOK, DatesPast, [SharedNext]_sharedVars PROVE DatesPast'
  OBVIOUS
<1> USE DEF SharedTypeOK, Day, DatesPast, redisVars
<1>1. CASE Tick
  BY <1>1 DEF Tick
<1>2. ASSUME NEW d \in Day, KeyExpires(d) PROVE DatesPast'
  BY <1>2 DEF KeyExpires
<1>3. ASSUME NEW i \in Instance, ReadKey(i) PROVE DatesPast'
  BY <1>3 DEF ReadKey
<1>4. ASSUME NEW i \in Instance, Incr(i) \/ IncrReplyLost(i) PROVE DatesPast'
  <2>1. /\ value' = [value EXCEPT ![key[i]] = @ + 1]
        /\ UNCHANGED <<today, key>>
    BY <1>4 DEF Incr, IncrReplyLost
  <2>2. QED
    BY <2>1
<1>5. ASSUME NEW i \in Instance,
             ReadTtl(i) \/ Expire(i) \/ IncrFails(i) \/ ExpireFails(i) \/ Crash(i)
      PROVE  UNCHANGED <<today, key, value>>
  BY <1>5 DEF ReadTtl, Expire, IncrFails, ExpireFails, Crash
<1>6. CASE UNCHANGED sharedVars
  BY <1>6 DEF sharedVars
<1>7. QED
  BY <1>1, <1>2, <1>3, <1>4, <1>5, <1>6 DEF SharedNext, Call

\* A granted slot was still in the counter.
LEMMA IncrAccount ==
    ASSUME SharedIInv, NEW i \in Instance, Incr(i)
    PROVE  (KeyCovers /\ AllowanceKept)'
<1> DEFINE d == key[i]
<1>1. /\ value' = [value EXCEPT ![d] = @ + 1]
      /\ admitted' = IF value[d] + 1 <= Cap THEN [admitted EXCEPT ![d] = @ + 1] ELSE admitted
      /\ allowance' = allowance
  BY DEF Incr, WithinCap
<1>2. /\ d \in Day /\ Cap \in Nat
      /\ value \in [Day -> Nat] /\ admitted \in [Day -> Nat] /\ allowance \in [Day -> Nat]
  BY RedisAssumption, AllowanceAssumption DEF SharedIInv, SharedTypeOK
<1>3. /\ value'[d] = value[d] + 1
      /\ admitted'[d] = IF value[d] + 1 <= Cap THEN admitted[d] + 1 ELSE admitted[d]
      /\ \A e \in Day : e # d => value'[e] = value[e] /\ admitted'[e] = admitted[e]
  BY <1>1, <1>2
<1>4. KeyCovers'
  BY <1>1, <1>2, <1>3 DEF SharedIInv, KeyCovers
<1>5. AllowanceKept'
  <2>1. admitted'[d] <= allowance[d]
    BY <1>2, <1>3 DEF SharedIInv, KeyCovers, AllowanceKept
  <2>2. QED
    BY <1>1, <1>2, <1>3, <2>1 DEF SharedIInv, AllowanceKept
<1>6. QED
  BY <1>4, <1>5

\* A slot that INCR took without its reply arriving is lost, not granted twice.
LEMMA ReplyLostAccount ==
    ASSUME SharedIInv, NEW i \in Instance, IncrReplyLost(i)
    PROVE  (KeyCovers /\ AllowanceKept)'
<1>1. value' = [value EXCEPT ![key[i]] = @ + 1] /\ UNCHANGED <<admitted, allowance>>
  BY DEF IncrReplyLost
<1>2. /\ key[i] \in Day /\ Cap \in Nat
      /\ value \in [Day -> Nat] /\ admitted \in [Day -> Nat] /\ allowance \in [Day -> Nat]
  BY RedisAssumption, AllowanceAssumption DEF SharedIInv, SharedTypeOK
<1>3. \A e \in Day : value'[e] >= value[e] /\ value'[e] \in Nat
  BY <1>1, <1>2
<1>4. QED
  BY <1>1, <1>2, <1>3 DEF SharedIInv, KeyCovers, AllowanceKept

\* A dropped key takes its count with it and is granted a cap for it.
LEMMA ExpiryAccount ==
    ASSUME SharedIInv, NEW d \in Day, KeyExpires(d)
    PROVE  (KeyCovers /\ AllowanceKept)'
<1>1. /\ value' = [value EXCEPT ![d] = 0]
      /\ allowance' = [allowance EXCEPT ![d] = @ + Cap]
      /\ admitted' = admitted
  BY DEF KeyExpires
<1>2. /\ Cap \in Nat
      /\ value \in [Day -> Nat] /\ admitted \in [Day -> Nat] /\ allowance \in [Day -> Nat]
  BY RedisAssumption, AllowanceAssumption DEF SharedIInv, SharedTypeOK
<1>3. /\ value'[d] = 0 /\ allowance'[d] = allowance[d] + Cap
      /\ \A e \in Day : e # d => value'[e] = value[e] /\ allowance'[e] = allowance[e]
  BY <1>1, <1>2
<1>4. QED
  BY <1>1, <1>2, <1>3 DEF SharedIInv, KeyCovers, AllowanceKept

\* The accounting survives every step.
LEMMA SharedAccountStep == SharedIInv /\ [SharedNext]_sharedVars => (KeyCovers /\ AllowanceKept)'
<1> SUFFICES ASSUME SharedIInv, [SharedNext]_sharedVars PROVE (KeyCovers /\ AllowanceKept)'
  OBVIOUS
<1>1. ASSUME UNCHANGED <<value, admitted, allowance>> PROVE (KeyCovers /\ AllowanceKept)'
  BY <1>1 DEF SharedIInv, KeyCovers, AllowanceKept
<1>2. ASSUME NEW i \in Instance,
             \/ ReadKey(i) \/ ReadTtl(i) \/ Expire(i)
             \/ IncrFails(i) \/ ExpireFails(i) \/ Crash(i)
      PROVE  UNCHANGED <<value, admitted, allowance>>
  BY <1>2 DEF ReadKey, ReadTtl, Expire, IncrFails, ExpireFails, Crash, redisVars, history
<1>3. CASE Tick
  BY <1>1, <1>3 DEF Tick, history
<1>4. CASE UNCHANGED sharedVars
  BY <1>1, <1>4 DEF sharedVars, redisVars, history
<1>5. QED
  BY <1>1, <1>2, <1>3, <1>4, IncrAccount, ReplyLostAccount, ExpiryAccount DEF SharedNext, Call

\* The inductive invariant holds in every state.
THEOREM SharedInductive == SharedSpec => []SharedIInv
<1>1. SharedIInv /\ [SharedNext]_sharedVars => SharedIInv'
  BY SharedTypeStep, SharedDatesStep, SharedAccountStep DEF SharedIInv
<1>2. QED
  BY SharedInitIInv, <1>1, PTL DEF SharedSpec

\* Types: in particular no call ever passes EXPIRE a time of zero, which would
\* delete the counter.
THEOREM SharedTypeCorrect == SharedSpec => []SharedTypeOK
BY SharedInductive, PTL DEF SharedIInv

\* For any number of instances, requests and failures, the counter grants no
\* more slots of a date than one cap for each life of its key.
THEOREM SharedAllowanceTheorem == SharedSpec => []AllowanceKept
BY SharedInductive, PTL DEF SharedIInv

\* What a key has left to grant fits into its date's allowance.
THEOREM SharedCounterTheorem == SharedSpec => []KeyCovers
BY SharedInductive, PTL DEF SharedIInv

\* The shared budget implements the abstract cap: a granted slot is an
\* admission, an expired key a lost counter, the turn of the day a midnight.
THEOREM SharedImplementsCap == SharedSpec => CapSpec
<1>1. SharedInit => Abstract!Init
  BY DEF SharedInit, Abstract!Init, Day, Abstract!Day
<1>2. SharedIInv /\ [SharedNext]_sharedVars => [Abstract!Next]_(Abstract!capVars)
  <2> SUFFICES ASSUME SharedIInv, [SharedNext]_sharedVars
               PROVE  Abstract!Next \/ UNCHANGED Abstract!capVars
    OBVIOUS
  <2> USE DEF Abstract!capVars
  <2>1. ASSUME NEW i \in Instance, Incr(i)
        PROVE  Abstract!Next \/ UNCHANGED Abstract!capVars
    <3>1. CASE WithinCap(value[key[i]] + 1)
      <4>1. /\ key[i] \in Day /\ key[i] <= today /\ value[key[i]] \in Nat /\ Cap \in Nat
            /\ admitted[key[i]] \in Nat /\ allowance[key[i]] \in Nat
        BY RedisAssumption, AllowanceAssumption DEF SharedIInv, SharedTypeOK, DatesPast
      <4>2. value[key[i]] + 1 <= Cap
        BY <3>1 DEF WithinCap
      <4>3. admitted[key[i]] + (Cap - value[key[i]]) <= allowance[key[i]]
        BY <4>1, <4>2 DEF SharedIInv, KeyCovers
      <4>4. admitted[key[i]] < allowance[key[i]]
        BY <4>1, <4>2, <4>3
      <4>5. Abstract!Admit(key[i])
        BY <2>1, <3>1, <4>1, <4>4 DEF Incr, Abstract!Admit
      <4>6. QED
        BY <4>1, <4>5 DEF Abstract!Next, Abstract!Day, Day
    <3>2. CASE ~WithinCap(value[key[i]] + 1)
      BY <2>1, <3>2 DEF Incr
    <3>3. QED
      BY <3>1, <3>2
  <2>2. ASSUME NEW d \in Day, KeyExpires(d) PROVE Abstract!Next
    <3>1. d <= today
      BY <2>2 DEF KeyExpires, Due, SharedIInv, DatesPast
    <3>2. Abstract!CounterLost(d)
      BY <2>2, <3>1 DEF KeyExpires, Abstract!CounterLost
    <3>3. QED
      BY <3>2 DEF Abstract!Next, Abstract!Day, Day
  <2>3. CASE Tick
    BY <2>3 DEF Tick, history, Abstract!Midnight, Abstract!Next
  <2>4. ASSUME NEW i \in Instance,
               \/ ReadKey(i) \/ ReadTtl(i) \/ Expire(i)
               \/ IncrFails(i) \/ IncrReplyLost(i) \/ ExpireFails(i) \/ Crash(i)
        PROVE  UNCHANGED Abstract!capVars
    BY <2>4 DEF ReadKey, ReadTtl, Expire, IncrFails, IncrReplyLost, ExpireFails, Crash, history
  <2>5. CASE UNCHANGED sharedVars
    BY <2>5 DEF sharedVars, history
  <2>6. QED
    BY <2>1, <2>2, <2>3, <2>4, <2>5 DEF SharedNext, Call
<1>3. QED
  BY SharedInductive, <1>1, <1>2, PTL DEF SharedSpec, CapSpec, Abstract!Spec

-----------------------------------------------------------------------------
\* A counter that no call has given a time to live has a call that will.
Cared(d) == left[d] \in Nat \/ \E i \in Instance : key[i] = d /\ pc[i] \in {"ttl", "expire"}

\* The counters that will never have one.
Uncared == {d \in Day : value[d] > 0 /\ ~ Cared(d)}

ExpiryInv == Cardinality(Uncared) <= faults

\* A call that is not about to set a time to live is nobody's hope.
LEMMA CareLasts ==
    ASSUME NEW d \in Day, Cared(d), NEW i \in Instance,
           left[d] \in Nat => left'[d] \in Nat,
           pc[i] \notin {"ttl", "expire"},
           \A j \in Instance \ {i} : key'[j] = key[j] /\ pc'[j] = pc[j]
    PROVE  Cared(d)'
<1>1. CASE left[d] \in Nat
  BY <1>1 DEF Cared
<1>2. ASSUME NEW j \in Instance, key[j] = d, pc[j] \in {"ttl", "expire"} PROVE Cared(d)'
  <2>1. j # i
    BY <1>2
  <2>2. key'[j] = d /\ pc'[j] \in {"ttl", "expire"}
    BY <1>2, <2>1
  <2> QED
    BY <2>2 DEF Cared
<1> QED
  BY <1>1, <1>2 DEF Cared

\* One step of one date, for each command of a call: a counter that is cared for
\* stays so, and a new one is.
LEMMA ReadKeyCares ==
    ASSUME SharedTypeOK, NEW d \in Day, value[d] > 0 => Cared(d), value'[d] > 0, NEW i \in Instance, ReadKey(i)
    PROVE  Cared(d)'
<1>1. /\ pc[i] = "idle" /\ UNCHANGED <<value, left, faults>>
      /\ \A j \in Instance \ {i} : key'[j] = key[j] /\ pc'[j] = pc[j]
  BY DEF ReadKey, Goto, redisVars, SharedTypeOK
<1> QED
  BY <1>1, CareLasts

LEMMA IncrCares ==
    ASSUME SharedTypeOK, NEW d \in Day, value[d] > 0 => Cared(d), value'[d] > 0, NEW i \in Instance, Incr(i)
    PROVE  Cared(d)'
<1>1. /\ pc[i] = "incr" /\ UNCHANGED <<left, faults, key>>
      /\ value' = [value EXCEPT ![key[i]] = value[key[i]] + 1]
      /\ value[key[i]] + 1 = 1 => pc'[i] = "ttl"
      /\ \A j \in Instance \ {i} : pc'[j] = pc[j]
  BY DEF Incr, Goto, SharedTypeOK
<1>2. key[i] \in Day /\ value \in [Day -> Nat]
  BY DEF SharedTypeOK
<1>3. CASE value[d] > 0
  <2>1. Cared(d)
    BY <1>3
  <2> QED
    BY <1>1, <2>1, CareLasts
<1>4. CASE ~(value[d] > 0)
  <2>1. d = key[i] /\ value[key[i]] + 1 = 1
    BY <1>1, <1>2, <1>4
  <2>2. key'[i] = d /\ pc'[i] = "ttl"
    BY <1>1, <2>1
  <2> QED
    BY <2>2 DEF Cared
<1> QED
  BY <1>3, <1>4

LEMMA ReadTtlCares ==
    ASSUME SharedTypeOK, NEW d \in Day, value[d] > 0 => Cared(d), value'[d] > 0, NEW i \in Instance, ReadTtl(i)
    PROVE  Cared(d)'
<1>1. /\ UNCHANGED <<value, left, key, faults>>
      /\ pc' = [pc EXCEPT ![i] = "expire"] /\ pc \in [Instance -> {"idle", "incr", "ttl", "expire"}]
  BY DEF ReadTtl, Goto, redisVars, history, SharedTypeOK
<1>2. \A j \in Instance : pc[j] \in {"ttl", "expire"} => pc'[j] \in {"ttl", "expire"}
  BY <1>1
<1> QED
  BY <1>1, <1>2 DEF Cared

LEMMA ExpireCares ==
    ASSUME SharedTypeOK, NEW d \in Day, value[d] > 0 => Cared(d), value'[d] > 0, NEW i \in Instance, Expire(i)
    PROVE  Cared(d)'
<1>1. /\ UNCHANGED <<value, key, faults>>
      /\ left' = IF value[key[i]] > 0 THEN [left EXCEPT ![key[i]] = ttl[i] * TicksPerSecond] ELSE left
      /\ \A j \in Instance \ {i} : pc'[j] = pc[j]
  BY DEF Expire, Goto, history, SharedTypeOK
<1>2. /\ key[i] \in Day /\ left \in [Day -> Nat \cup {NoTtl}] /\ ttl[i] \in Nat /\ TicksPerSecond \in Nat
  BY RedisAssumption, AllowanceAssumption DEF SharedTypeOK
<1>3. ttl[i] * TicksPerSecond \in Nat
  BY <1>2
<1>4. CASE d = key[i]
  <2>1. left'[d] \in Nat
    BY <1>1, <1>2, <1>3, <1>4
  <2> QED
    BY <2>1 DEF Cared
<1>5. CASE d # key[i]
  <2>1. left'[d] = left[d]
    BY <1>1, <1>2, <1>5
  <2>2. CASE left[d] \in Nat
    BY <2>1, <2>2 DEF Cared
  <2>3. ASSUME NEW j \in Instance, key[j] = d, pc[j] \in {"ttl", "expire"} PROVE Cared(d)'
    <3>1. key'[j] = d /\ pc'[j] \in {"ttl", "expire"}
      BY <1>1, <1>5, <2>3
    <3> QED
      BY <3>1 DEF Cared
  <2> QED
    BY <1>1, <2>2, <2>3 DEF Cared
<1> QED
  BY <1>4, <1>5

\* Time and expiry: a count goes down to zero, and a key that has gone needs no care.
LEMMA ClockCares ==
    ASSUME SharedTypeOK, NEW d \in Day, value[d] > 0 => Cared(d), value'[d] > 0,
           Tick \/ (\E e \in Day : KeyExpires(e))
    PROVE  Cared(d)'
<1>1. CASE Tick
  <2>1. UNCHANGED <<value, pc, key>> /\ CountDown
    BY <1>1 DEF Tick, history
  <2>2. left[d] \in Nat => left'[d] \in Nat
    BY <2>1 DEF CountDown, SharedTypeOK
  <2> QED
    BY <2>1, <2>2 DEF Cared
<1>2. ASSUME NEW e \in Day, KeyExpires(e) PROVE Cared(d)'
  <2>1. /\ value' = [value EXCEPT ![e] = 0] /\ left' = [left EXCEPT ![e] = NoTtl]
        /\ UNCHANGED <<pc, key>>
    BY <1>2 DEF KeyExpires
  <2>2. value \in [Day -> Nat] /\ left \in [Day -> Nat \cup {NoTtl}]
    BY DEF SharedTypeOK
  <2>3. d # e /\ value[d] > 0 /\ left'[d] = left[d]
    BY <2>1, <2>2
  <2> QED
    BY <2>1, <2>3 DEF Cared
<1> QED
  BY <1>1, <1>2

\* A failure concerns no date but the one of the call it hits.
LEMMA FaultCares ==
    ASSUME SharedTypeOK, NEW i \in Instance, NEW d \in Day \ {key[i]}, value[d] > 0 => Cared(d), value'[d] > 0,
           IncrFails(i) \/ IncrReplyLost(i) \/ ExpireFails(i) \/ Crash(i)
    PROVE  Cared(d)'
<1>1. /\ UNCHANGED <<left, key>>
      /\ value' = value \/ value' = [value EXCEPT ![key[i]] = value[key[i]] + 1]
      /\ \A j \in Instance \ {i} : pc'[j] = pc[j]
  BY DEF IncrFails, IncrReplyLost, ExpireFails, Crash, FailOpen, Goto, redisVars, SharedTypeOK
<1>2. value[d] > 0
  BY <1>1 DEF SharedTypeOK
<1>3. CASE left[d] \in Nat
  BY <1>1, <1>3 DEF Cared
<1>4. ASSUME NEW j \in Instance, key[j] = d, pc[j] \in {"ttl", "expire"} PROVE Cared(d)'
  <2>1. j # i
    BY <1>4
  <2>2. key'[j] = d /\ pc'[j] \in {"ttl", "expire"}
    BY <1>1, <1>4, <2>1
  <2> QED
    BY <2>2 DEF Cared
<1> QED
  BY <1>2, <1>3, <1>4 DEF Cared

LEMMA SomeDates == ASSUME NEW S, S \subseteq Day PROVE IsFiniteSet(S) /\ Cardinality(S) \in Nat
<1>1. 0 \in Int /\ LastDay \in Int
  BY AllowanceAssumption
<1>2. IsFiniteSet(Day)
  BY <1>1, FS_Interval DEF Day
<1> QED
  BY <1>2, FS_Subset, FS_CardinalityType

LEMMA ExpiryStep == SharedTypeOK /\ ExpiryInv /\ [SharedNext]_sharedVars => ExpiryInv'
<1> SUFFICES ASSUME SharedTypeOK, ExpiryInv, [SharedNext]_sharedVars PROVE ExpiryInv'
  OBVIOUS
<1> DEFINE After == {d \in Day : value'[d] > 0 /\ ~ Cared(d)'}
<1>1. Uncared' = After
  BY DEF Uncared, Day
<1>2. faults \in Nat /\ Uncared \subseteq Day /\ After \subseteq Day
  BY DEF SharedTypeOK, Uncared
<1>3. ASSUME After \subseteq Uncared, faults' = faults PROVE ExpiryInv'
  <2> HIDE DEF After
  <2>1. Cardinality(After) <= Cardinality(Uncared) /\ Cardinality(After) \in Nat /\ Cardinality(Uncared) \in Nat
    BY <1>2, <1>3, SomeDates, FS_Subset
  <2>2. Cardinality(After) <= faults'
    BY <1>2, <1>3, <2>1 DEF ExpiryInv
  <2> QED
    BY <1>1, <2>2 DEF ExpiryInv
<1>4. ASSUME NEW i \in Instance, IncrFails(i) \/ IncrReplyLost(i) \/ ExpireFails(i) \/ Crash(i)
      PROVE  ExpiryInv'
  <2> DEFINE k == key[i]
  <2>1. faults' = faults + 1
    BY <1>4 DEF IncrFails, IncrReplyLost, ExpireFails, Crash, Fault
  <2>2. After \subseteq Uncared \cup {k}
    BY <1>4, FaultCares DEF Uncared
  <2> HIDE DEF After, k
  <2>3. IsFiniteSet(Uncared) /\ Cardinality(Uncared) \in Nat /\ Cardinality(After) \in Nat
    BY <1>2, SomeDates
  <2>4. /\ IsFiniteSet(Uncared \cup {k})
        /\ Cardinality(Uncared \cup {k}) = Cardinality(Uncared) \/ Cardinality(Uncared \cup {k}) = Cardinality(Uncared) + 1
    BY <2>3, FS_AddElement
  <2>5. Cardinality(After) <= Cardinality(Uncared \cup {k})
    BY <2>2, <2>4, FS_Subset
  <2>6. Cardinality(After) <= faults'
    BY <1>2, <2>1, <2>3, <2>4, <2>5 DEF ExpiryInv
  <2> QED
    BY <1>1, <2>6 DEF ExpiryInv
<1>5. ASSUME NEW i \in Instance, ReadKey(i) \/ Incr(i) \/ ReadTtl(i) \/ Expire(i) PROVE ExpiryInv'
  <2>1. faults' = faults
    BY <1>5 DEF ReadKey, Incr, ReadTtl, Expire, history
  <2>2. After \subseteq Uncared
    BY <1>5, ReadKeyCares, IncrCares, ReadTtlCares, ExpireCares DEF Uncared
  <2> QED
    BY <1>3, <2>1, <2>2
<1>6. ASSUME Tick \/ (\E e \in Day : KeyExpires(e)) PROVE ExpiryInv'
  <2>1. faults' = faults
    BY <1>6 DEF Tick, KeyExpires, history
  <2>2. After \subseteq Uncared
    BY <1>6, ClockCares DEF Uncared
  <2> QED
    BY <1>3, <2>1, <2>2
<1>7. CASE UNCHANGED sharedVars
  <2>1. faults' = faults /\ After \subseteq Uncared
    BY <1>7 DEF sharedVars, redisVars, history, Uncared, Cared
  <2> QED
    BY <1>3, <2>1
<1> QED
  BY <1>4, <1>5, <1>6, <1>7 DEF SharedNext, Call

\* For any number of instances, calls, days and failures: of the counters that no
\* call is at work on, no more lack a time to live than there were failures.
THEOREM ExpiryTheorem == SharedSpec => []EveryKeyExpires
<1>1. SharedInit => ExpiryInv
  <2> SUFFICES ASSUME SharedInit PROVE ExpiryInv
    OBVIOUS
  <2>1. Uncared = {} /\ faults = 0
    BY DEF SharedInit, Uncared
  <2> QED
    BY <2>1, FS_EmptySet DEF ExpiryInv
<1>2. SharedTypeOK /\ ExpiryInv => EveryKeyExpires
  <2> SUFFICES ASSUME SharedTypeOK, ExpiryInv PROVE EveryKeyExpires
    OBVIOUS
  <2>1. LeftBehind \subseteq Uncared /\ Uncared \subseteq Day
    <3>1. ASSUME NEW d \in LeftBehind PROVE ~ Cared(d)
      BY RedisAssumption DEF LeftBehind, Cared
    <3> QED
      BY <3>1 DEF LeftBehind, Uncared
  <2>2. Cardinality(LeftBehind) <= Cardinality(Uncared)
    BY <2>1, SomeDates, FS_Subset
  <2>3. Cardinality(LeftBehind) \in Nat /\ Cardinality(Uncared) \in Nat /\ faults \in Nat
    BY <2>1, SomeDates DEF SharedTypeOK
  <2> QED
    BY <2>2, <2>3 DEF ExpiryInv, EveryKeyExpires
<1> QED
  BY SharedTypeCorrect, <1>1, <1>2, ExpiryStep, PTL DEF SharedSpec
=============================================================================
