------------------------ MODULE CircuitBreakerProofs ------------------------
(***************************************************************************)
(* Type correctness of CircuitBreaker, the debts of the calls, and why     *)
(* Recovers fails for all thresholds and timeouts.                         *)
(***************************************************************************)
EXTENDS CircuitBreaker, TLAPS

Pc == {"idle", "isOpen", "provider"} \union Failing \union Succeeding

-----------------------------------------------------------------------------
(* What a step does to the call that takes it *)

LEMMA GotoCall ==
    ASSUME call \in [Server -> Call], NEW s \in Server, NEW pc \in Pc, Goto(s, pc)
    PROVE  /\ call' \in [Server -> Call]
           /\ call'[s] = [pc |-> pc, enough |-> FALSE, age |-> 0]
           /\ \A t \in Server \ {s} : call'[t] = call[t]
<1>1. [pc |-> pc, enough |-> FALSE, age |-> 0] \in Call
  BY ConfigAssumption DEF Call, Pc
<1> QED BY <1>1 DEF Goto, Idle

LEMMA DoneCall ==
    ASSUME call \in [Server -> Call], NEW s \in Server, Done(s)
    PROVE  /\ call' \in [Server -> Call]
           /\ call'[s] = [pc |-> "idle", enough |-> FALSE, age |-> 0]
           /\ \A t \in Server \ {s} : call'[t] = call[t]
<1>1. Idle \in Call
  BY ConfigAssumption DEF Call, Idle
<1> QED BY <1>1 DEF Done, Idle

LEMMA CountedCall ==
    ASSUME call \in [Server -> Call], NEW s \in Server, NEW pc \in Pc,
           NEW n \in Nat, NEW max \in Nat, Counted(s, n, max, pc)
    PROVE  /\ call' \in [Server -> Call]
           /\ call'[s] = [pc |-> pc, enough |-> n + 1 >= max, age |-> 0]
           /\ \A t \in Server \ {s} : call'[t] = call[t]
<1>1. (n + 1 >= max) \in BOOLEAN
  OBVIOUS
<1>2. [pc |-> pc, enough |-> n + 1 >= max, age |-> 0] \in Call
  BY <1>1, ConfigAssumption DEF Call, Pc
<1> QED BY <1>2 DEF Counted

-----------------------------------------------------------------------------
(* Types *)

KeysOK ==
    /\ state \in CircuitState
    /\ failures \in 0..FailureThreshold
    /\ successes \in 0..SuccessThreshold
    /\ openedAt \in 0..Timeout \union {None}
    /\ ttl \in [Key -> Nat \union {None}]
    /\ \A k \in Key : ttl[k] # None => Present(k)

LEMMA KeysStep ==
    ASSUME KeysOK, NEW s \in Server,
           recordFailure(s) \/ recordSuccess(s) \/ UNCHANGED redis
    PROVE  KeysOK'
<1> USE ConfigAssumption DEF KeysOK, Key
<1>1. CASE incrFailures(s)
  BY <1>1 DEF incrFailures, Present, CircuitState, redis, CapAt
<1>2. CASE expireFailures(s)
  BY <1>2 DEF expireFailures, Present, CircuitState, redis, Expire
<1>3. CASE getFailureState(s)
  BY <1>3 DEF getFailureState, Present, CircuitState, redis
<1>4. CASE setOpen(s)
  BY <1>4 DEF setOpen, Present, CircuitState, redis
<1>5. CASE setOpenedAt(s)
  BY <1>5 DEF setOpenedAt, Present, CircuitState, redis, Fresh
<1>6. CASE expireOpenedAt(s)
  BY <1>6 DEF expireOpenedAt, Present, CircuitState, redis, Expire
<1>7. CASE getSuccessState(s)
  BY <1>7 DEF getSuccessState, Present, CircuitState, redis
<1>8. CASE incrSuccesses(s)
  BY <1>8 DEF incrSuccesses, Present, CircuitState, redis, CapAt
<1>9. CASE expireSuccesses(s)
  BY <1>9 DEF expireSuccesses, Present, CircuitState, redis, Expire
<1>10. CASE delState(s)
  BY <1>10 DEF delState, Present, CircuitState, redis
<1>11. CASE delSuccesses(s)
  BY <1>11 DEF delSuccesses, Present, CircuitState, redis, Fresh
<1>12. CASE delFailures(s)
  BY <1>12 DEF delFailures, Present, CircuitState, redis, DelFailures, Fresh
<1>13. CASE delOpenedAt(s)
  BY <1>13 DEF delOpenedAt, Present, CircuitState, redis, Fresh
<1>14. CASE getOpenedAt(s)
  BY <1>14 DEF getOpenedAt, Present, CircuitState, redis
<1>15. CASE setHalfOpen(s)
  BY <1>15 DEF setHalfOpen, Present, CircuitState, redis
<1>16. CASE setSuccesses(s)
  BY <1>16 DEF setSuccesses, Present, CircuitState, redis, Fresh
<1>17. CASE resetFailures(s)
  BY <1>17 DEF resetFailures, Present, CircuitState, redis, DelFailures, Fresh
<1>18. CASE UNCHANGED redis
  BY <1>18 DEF redis, Present
<1> QED BY <1>1, <1>2, <1>3, <1>4, <1>5, <1>6, <1>7, <1>8, <1>9, <1>10, <1>11, <1>12, <1>13,
       <1>14, <1>15, <1>16, <1>17, <1>18 DEF recordFailure, recordSuccess

LEMMA CallStep ==
    ASSUME KeysOK, call \in [Server -> Call], NEW s \in Server,
           chat(s) \/ isOpen(s) \/ retryWithBackoff(s)
             \/ recordFailure(s) \/ recordSuccess(s) \/ getStateFails(s)
    PROVE  /\ call' \in [Server -> Call]
           /\ \A t \in Server \ {s} : call'[t] = call[t]
<1>1. ASSUME NEW pc \in Pc, Goto(s, pc)
      PROVE  call' \in [Server -> Call] /\ \A t \in Server \ {s} : call'[t] = call[t]
  BY <1>1, GotoCall
<1>2. ASSUME Done(s)
      PROVE  call' \in [Server -> Call] /\ \A t \in Server \ {s} : call'[t] = call[t]
  BY <1>2, DoneCall
<1> USE DEF Pc, Failing, Succeeding, Closing
<1>3. CASE chat(s)
  BY <1>3, <1>1, <1>2 DEF chat
<1>4. CASE isOpen(s)
  BY <1>4, <1>1, <1>2 DEF isOpen
<1>5. CASE retryWithBackoff(s)
  BY <1>5, <1>1, <1>2 DEF retryWithBackoff
<1>6. CASE incrFailures(s)
  <2>1. failures \in Nat /\ FailureThreshold \in Nat
    BY ConfigAssumption DEF KeysOK
  <2>2. "expireFailures" \in Pc /\ Counted(s, failures, FailureThreshold, "expireFailures")
    BY <1>6 DEF incrFailures
  <2> QED BY <2>1, <2>2, CountedCall
<1>7. CASE expireFailures(s)
  BY <1>7, <1>1, <1>2 DEF expireFailures
<1>8. CASE getFailureState(s)
  BY <1>8, <1>1, <1>2 DEF getFailureState
<1>9. CASE setOpen(s)
  BY <1>9, <1>1, <1>2 DEF setOpen
<1>10. CASE setOpenedAt(s)
  BY <1>10, <1>1, <1>2 DEF setOpenedAt
<1>11. CASE expireOpenedAt(s)
  BY <1>11, <1>1, <1>2 DEF expireOpenedAt
<1>12. CASE getSuccessState(s)
  BY <1>12, <1>1, <1>2 DEF getSuccessState, CircuitState, KeysOK
<1>13. CASE incrSuccesses(s)
  <2>1. successes \in Nat /\ SuccessThreshold \in Nat
    BY ConfigAssumption DEF KeysOK
  <2>2. "expireSuccesses" \in Pc /\ Counted(s, successes, SuccessThreshold, "expireSuccesses")
    BY <1>13 DEF incrSuccesses
  <2> QED BY <2>1, <2>2, CountedCall
<1>14. CASE expireSuccesses(s)
  BY <1>14, <1>1, <1>2 DEF expireSuccesses
<1>15. CASE delState(s)
  BY <1>15, <1>1, <1>2 DEF delState
<1>16. CASE delSuccesses(s)
  BY <1>16, <1>1, <1>2 DEF delSuccesses
<1>17. CASE delFailures(s)
  BY <1>17, <1>1, <1>2 DEF delFailures
<1>18. CASE delOpenedAt(s)
  BY <1>18, <1>1, <1>2 DEF delOpenedAt
<1>19. CASE getOpenedAt(s)
  <2>1. CASE openedAt = None
    BY <1>19, <2>1, <1>2 DEF getOpenedAt
  <2>2. CASE openedAt # None
    <3>1. [pc |-> "setHalfOpen", enough |-> FALSE, age |-> openedAt] \in Call
      BY <2>2 DEF Call, KeysOK
    <3> QED BY <1>19, <2>2, <3>1 DEF getOpenedAt
  <2> QED BY <2>1, <2>2
<1>20. CASE setHalfOpen(s)
  BY <1>20, <1>1, <1>2 DEF setHalfOpen
<1>21. CASE setSuccesses(s)
  BY <1>21, <1>1, <1>2 DEF setSuccesses
<1>22. CASE resetFailures(s)
  BY <1>22, <1>1, <1>2 DEF resetFailures
<1>23. CASE getStateFails(s)
  BY <1>23, <1>1, <1>2 DEF getStateFails
<1> QED BY <1>3, <1>4, <1>5, <1>6, <1>7, <1>8, <1>9, <1>10, <1>11, <1>12, <1>13, <1>14,
       <1>15, <1>16, <1>17, <1>18, <1>19, <1>20, <1>21, <1>22, <1>23 DEF recordFailure,
       recordSuccess

LEMMA TypeStep ==
    ASSUME TypeOK, [Next]_vars
    PROVE  TypeOK'
<1>1. KeysOK /\ call \in [Server -> Call] /\ cut \in SUBSET Debt
  BY DEF TypeOK, KeysOK
<1>2. ASSUME NEW s \in Server, Advance(s)
      PROVE  TypeOK'
  <2>1. /\ \/ chat(s) \/ isOpen(s) \/ retryWithBackoff(s)
           \/ recordFailure(s) \/ recordSuccess(s) \/ getStateFails(s)
        /\ cut' \subseteq cut
    BY <1>2 DEF Advance
  <2>2. call' \in [Server -> Call]
    BY <1>1, <2>1, CallStep
  <2>3. recordFailure(s) \/ recordSuccess(s) \/ UNCHANGED redis
    BY <2>1 DEF chat, isOpen, retryWithBackoff, getStateFails
  <2>4. KeysOK'
    BY <1>1, <2>3, KeysStep
  <2> QED BY <1>1, <2>1, <2>2, <2>4 DEF TypeOK, KeysOK
<1>3. ASSUME NEW s \in Server, Cut(s)
      PROVE  TypeOK'
  <2>1. call' \in [Server -> Call]
    BY <1>1, <1>3, DoneCall DEF Cut
  <2>2. KeysOK'
    BY <1>1, <1>3 DEF Cut, redis, KeysOK, Present
  <2>3. cut' \in SUBSET Debt
    BY <1>1, <1>3 DEF Cut
  <2> QED BY <2>1, <2>2, <2>3 DEF TypeOK, KeysOK
<1>4. CASE Tick
  <2>1. call' \in [Server -> Call]
    <3>1. ASSUME NEW c \in Call
          PROVE  [c EXCEPT !.age = CapAt(@ + 1, Timeout)] \in Call
      BY ConfigAssumption DEF Call, CapAt
    <3> QED BY <1>1, <1>4, <3>1 DEF Tick
  <2>2. cut' \in SUBSET Debt
    BY <1>1, <1>4 DEF Tick
  <2>3. KeysOK'
    BY <1>1, <1>4, ConfigAssumption DEF Tick, KeysOK, Key, Present, CapAt
  <2> QED BY <2>1, <2>2, <2>3 DEF TypeOK, KeysOK
<1>5. CASE UNCHANGED vars
  BY <1>5 DEF vars, redis, TypeOK, Present
<1> QED BY <1>2, <1>3, <1>4, <1>5 DEF Next

\* What every variable holds, and that no key that is gone keeps a time to
\* live, whatever commands interleave, fail or expire.
THEOREM TypeCorrect == Spec => []TypeOK
<1>1. Init => TypeOK
  BY ConfigAssumption
     DEF Init, TypeOK, CircuitState, Idle, Call, Present, Key, Debt
<1> QED BY <1>1, TypeStep, PTL DEF Spec

-----------------------------------------------------------------------------
(* Debts *)

\* A step of s leaves what other calls owe.
LEMMA OthersOwe ==
    ASSUME NEW t, call'[t] = call[t], NEW d, Owes(t, d)
    PROVE  Owes(t, d)'
BY DEF Owes, At

LEMMA Enough ==
    ASSUME NEW pc, NEW b \in BOOLEAN, NEW c, c = [pc |-> pc, enough |-> b, age |-> 0]
    PROVE  b => c.enough
OBVIOUS

LEMMA OwedIs ==
    /\ Owed("open") <=> state = "CLOSED" /\ failures >= FailureThreshold
    /\ Owed("failures") <=> failures > 0 /\ ttl["failures"] = None
    /\ Owed("successes") <=> successes > 0 /\ ttl["successes"] = None
    /\ Owed("openedAt") <=> openedAt # None /\ ttl["openedAt"] = None
<1>1. /\ Present("failures") <=> failures > 0
      /\ Present("successes") <=> successes > 0
      /\ Present("openedAt") <=> openedAt # None
  BY DEF Present
<1> QED BY <1>1 DEF Owed

LEMMA OwedIsNext ==
    /\ Owed("open")' <=> state' = "CLOSED" /\ failures' >= FailureThreshold
    /\ Owed("failures")' <=> failures' > 0 /\ ttl'["failures"] = None
    /\ Owed("successes")' <=> successes' > 0 /\ ttl'["successes"] = None
    /\ Owed("openedAt")' <=> openedAt' # None /\ ttl'["openedAt"] = None
<1>1. /\ Present("failures")' <=> failures' > 0
      /\ Present("successes")' <=> successes' > 0
      /\ Present("openedAt")' <=> openedAt' # None
  BY DEF Present
<1> QED BY <1>1 DEF Owed

\* Whatever is owed after a step of s and was not, or was owed by s, s owes.
LEMMA OwesAfter ==
    ASSUME TypeOK, NEW s \in Server, NEW d \in Debt, Owed(d)',
           ~Owed(d) \/ Owes(s, d),
           recordFailure(s) \/ recordSuccess(s) \/ UNCHANGED redis,
           UNCHANGED redis =>
               chat(s) \/ isOpen(s) \/ retryWithBackoff(s) \/ getStateFails(s)
                 \/ recordFailure(s) \/ recordSuccess(s)
    PROVE  Owes(s, d)'
<1> USE ConfigAssumption DEF Debt, Key
<1>1. call \in [Server -> Call]
  BY DEF TypeOK
<1>2. ASSUME NEW pc \in Pc, Goto(s, pc)
      PROVE  call'[s].pc = pc
  <2>1. call'[s] = [pc |-> pc, enough |-> FALSE, age |-> 0]
    BY <1>1, <1>2, GotoCall
  <2> QED BY <2>1
<1>3. CASE chat(s)
  BY <1>3, OwedIs, OwedIsNext DEF chat, redis, TypeOK, Owes, At
<1>4. CASE isOpen(s)
  BY <1>4, OwedIs, OwedIsNext DEF isOpen, redis, TypeOK, Owes, At
<1>5. CASE retryWithBackoff(s)
  BY <1>5, OwedIs, OwedIsNext DEF retryWithBackoff, redis, TypeOK, Owes, At
<1>6. CASE getStateFails(s)
  <2>1. CASE At(s, "getFailureState") /\ Goto(s, "setOpen")
    <3>1. call'[s].pc = "setOpen"
      BY <1>2, <2>1 DEF Pc, Failing
    <3> QED BY <1>6, <2>1, <3>1 DEF getStateFails, redis, Owed, Owes, At, Present
  <2> QED BY <1>6, <2>1 DEF getStateFails, redis, Owed, Owes, At, Present
<1>7. CASE incrFailures(s)
  <2>1. failures \in 0..FailureThreshold /\ FailureThreshold \in Nat
    BY DEF TypeOK
  <2>2. "expireFailures" \in Pc /\ Counted(s, failures, FailureThreshold, "expireFailures")
    BY <1>7 DEF incrFailures, Pc, Failing, Succeeding
  <2>3. call'[s] = [pc |-> "expireFailures", enough |-> failures + 1 >= FailureThreshold, age |-> 0]
    BY <1>1, <2>1, <2>2, CountedCall
  <2>4. call'[s].pc = "expireFailures"
    BY <2>3
  <2>5. failures + 1 >= FailureThreshold => call'[s].enough
    <3>1. (failures + 1 >= FailureThreshold) \in BOOLEAN
      OBVIOUS
    <3> QED BY <2>3, <3>1, Enough
  <2>6. CASE d = "open"
    BY <1>7, <2>1, <2>4, <2>5, <2>6 DEF incrFailures, CapAt, Owed, Owes, At
  <2>7. CASE d \in Key
    BY <1>7, <2>1, <2>4, <2>7 DEF incrFailures, CapAt, Owed, Owes, At, Present, TypeOK
  <2> QED BY <2>6, <2>7
<1>8. CASE expireFailures(s)
  <2>1. call'[s].pc = IF call[s].enough THEN "getFailureState" ELSE "idle"
    <3>1. (IF call[s].enough THEN "getFailureState" ELSE "idle") \in Pc
      BY DEF Pc, Failing, Succeeding, Closing
    <3> QED BY <1>8, <1>2, <3>1 DEF expireFailures
  <2>2. CASE d = "open"
    BY <1>8, <2>1, <2>2 DEF expireFailures, redis, Owed, Owes, At, Expire
  <2>3. CASE d = "failures"
    BY <1>8, <2>1, <2>3, OwedIs, OwedIsNext DEF expireFailures, redis, Owes, At, TypeOK, Expire, Present
  <2>4. CASE d = "successes"
    BY <1>8, <2>1, <2>4, OwedIs, OwedIsNext DEF expireFailures, redis, Owes, At, TypeOK, Expire, Present
  <2>5. CASE d = "openedAt"
    BY <1>8, <2>1, <2>5, OwedIs, OwedIsNext DEF expireFailures, redis, Owes, At, TypeOK, Expire, Present
  <2> QED BY <2>2, <2>3, <2>4, <2>5
<1>9. CASE getFailureState(s)
  <2>1. call'[s].pc = IF state = "OPEN" THEN "idle" ELSE "setOpen"
    <3>1. (IF state = "OPEN" THEN "idle" ELSE "setOpen") \in Pc
      BY DEF Pc, Failing, Succeeding, Closing
    <3> QED BY <1>9, <1>2, <3>1 DEF getFailureState
  <2>2. CASE d = "open"
    BY <1>9, <2>1, <2>2 DEF getFailureState, redis, Owed, Owes, At
  <2>3. CASE d = "failures"
    BY <1>9, <2>1, <2>3, OwedIs, OwedIsNext DEF getFailureState, redis, Owes, At, TypeOK
  <2>4. CASE d = "successes"
    BY <1>9, <2>1, <2>4, OwedIs, OwedIsNext DEF getFailureState, redis, Owes, At, TypeOK
  <2>5. CASE d = "openedAt"
    BY <1>9, <2>1, <2>5, OwedIs, OwedIsNext DEF getFailureState, redis, Owes, At, TypeOK
  <2> QED BY <2>2, <2>3, <2>4, <2>5
<1>10. CASE setOpen(s)
  <2>1. call'[s].pc = "setOpenedAt"
    <3>1. ("setOpenedAt") \in Pc
      BY DEF Pc, Failing, Succeeding, Closing
    <3> QED BY <1>10, <1>2, <3>1 DEF setOpen
  <2>2. CASE d = "open"
    BY <1>10, <2>1, <2>2 DEF setOpen, redis, Owed, Owes, At
  <2>3. CASE d = "failures"
    BY <1>10, <2>1, <2>3, OwedIs, OwedIsNext DEF setOpen, redis, Owes, At, TypeOK
  <2>4. CASE d = "successes"
    BY <1>10, <2>1, <2>4, OwedIs, OwedIsNext DEF setOpen, redis, Owes, At, TypeOK
  <2>5. CASE d = "openedAt"
    BY <1>10, <2>1, <2>5, OwedIs, OwedIsNext DEF setOpen, redis, Owes, At, TypeOK
  <2> QED BY <2>2, <2>3, <2>4, <2>5
<1>11. CASE setOpenedAt(s)
  <2>1. call'[s].pc = "expireOpenedAt"
    <3>1. ("expireOpenedAt") \in Pc
      BY DEF Pc, Failing, Succeeding, Closing
    <3> QED BY <1>11, <1>2, <3>1 DEF setOpenedAt
  <2>2. CASE d = "open"
    BY <1>11, <2>1, <2>2 DEF setOpenedAt, redis, Owed, Owes, At, Fresh
  <2>3. CASE d = "failures"
    BY <1>11, <2>1, <2>3, OwedIs, OwedIsNext DEF setOpenedAt, redis, Owes, At, TypeOK, Fresh
  <2>4. CASE d = "successes"
    BY <1>11, <2>1, <2>4, OwedIs, OwedIsNext DEF setOpenedAt, redis, Owes, At, TypeOK, Fresh
  <2>5. CASE d = "openedAt"
    BY <1>11, <2>1, <2>5, OwedIs, OwedIsNext DEF setOpenedAt, redis, Owes, At, TypeOK, Fresh
  <2> QED BY <2>2, <2>3, <2>4, <2>5
<1>12. CASE expireOpenedAt(s)
  BY <1>12, OwedIs, OwedIsNext DEF expireOpenedAt, redis, TypeOK, Owes, At, Expire, Present
<1>13. CASE getSuccessState(s)
  BY <1>13, OwedIs, OwedIsNext DEF getSuccessState, redis, TypeOK, Owes, At
<1>14. CASE incrSuccesses(s)
  <2>1. successes \in 0..SuccessThreshold /\ SuccessThreshold \in Nat
    BY DEF TypeOK
  <2>2. "expireSuccesses" \in Pc /\ Counted(s, successes, SuccessThreshold, "expireSuccesses")
    BY <1>14 DEF incrSuccesses, Pc, Failing, Succeeding
  <2>3. call'[s] = [pc |-> "expireSuccesses", enough |-> successes + 1 >= SuccessThreshold, age |-> 0]
    BY <1>1, <2>1, <2>2, CountedCall
  <2>4. call'[s].pc = "expireSuccesses"
    BY <2>3
  <2>5. successes + 1 >= SuccessThreshold => call'[s].enough
    <3>1. (successes + 1 >= SuccessThreshold) \in BOOLEAN
      OBVIOUS
    <3> QED BY <2>3, <3>1, Enough
  <2>6. CASE d = "open"
    BY <1>14, <2>1, <2>4, <2>5, <2>6 DEF incrSuccesses, CapAt, Owed, Owes, At
  <2>7. CASE d \in Key
    BY <1>14, <2>1, <2>4, <2>7 DEF incrSuccesses, CapAt, Owed, Owes, At, Present, TypeOK
  <2> QED BY <2>6, <2>7
<1>15. CASE expireSuccesses(s)
  <2>1. call'[s].pc = IF call[s].enough THEN "delState" ELSE "idle"
    <3>1. (IF call[s].enough THEN "delState" ELSE "idle") \in Pc
      BY DEF Pc, Failing, Succeeding, Closing
    <3> QED BY <1>15, <1>2, <3>1 DEF expireSuccesses
  <2>2. CASE d = "open"
    BY <1>15, <2>1, <2>2 DEF expireSuccesses, redis, Owed, Owes, At, Expire
  <2>3. CASE d = "failures"
    BY <1>15, <2>1, <2>3, OwedIs, OwedIsNext DEF expireSuccesses, redis, Owes, At, TypeOK, Expire, Present
  <2>4. CASE d = "successes"
    BY <1>15, <2>1, <2>4, OwedIs, OwedIsNext DEF expireSuccesses, redis, Owes, At, TypeOK, Expire, Present
  <2>5. CASE d = "openedAt"
    BY <1>15, <2>1, <2>5, OwedIs, OwedIsNext DEF expireSuccesses, redis, Owes, At, TypeOK, Expire, Present
  <2> QED BY <2>2, <2>3, <2>4, <2>5
<1>16. CASE delState(s)
  <2>1. call'[s].pc = "delSuccesses"
    <3>1. ("delSuccesses") \in Pc
      BY DEF Pc, Failing, Succeeding, Closing
    <3> QED BY <1>16, <1>2, <3>1 DEF delState
  <2>2. CASE d = "open"
    BY <1>16, <2>1, <2>2 DEF delState, redis, Owed, Owes, At
  <2>3. CASE d = "failures"
    BY <1>16, <2>1, <2>3, OwedIs, OwedIsNext DEF delState, redis, Owes, At, TypeOK
  <2>4. CASE d = "successes"
    BY <1>16, <2>1, <2>4, OwedIs, OwedIsNext DEF delState, redis, Owes, At, TypeOK
  <2>5. CASE d = "openedAt"
    BY <1>16, <2>1, <2>5, OwedIs, OwedIsNext DEF delState, redis, Owes, At, TypeOK
  <2> QED BY <2>2, <2>3, <2>4, <2>5
<1>17. CASE delSuccesses(s)
  <2>1. call'[s].pc = "delFailures"
    <3>1. ("delFailures") \in Pc
      BY DEF Pc, Failing, Succeeding, Closing
    <3> QED BY <1>17, <1>2, <3>1 DEF delSuccesses
  <2>2. CASE d = "open"
    BY <1>17, <2>1, <2>2 DEF delSuccesses, redis, Owed, Owes, At, Fresh
  <2>3. CASE d = "failures"
    BY <1>17, <2>1, <2>3, OwedIs, OwedIsNext DEF delSuccesses, redis, Owes, At, TypeOK, Fresh
  <2>4. CASE d = "successes"
    BY <1>17, <2>1, <2>4, OwedIs, OwedIsNext DEF delSuccesses, redis, Owes, At, TypeOK, Fresh
  <2>5. CASE d = "openedAt"
    BY <1>17, <2>1, <2>5, OwedIs, OwedIsNext DEF delSuccesses, redis, Owes, At, TypeOK, Fresh
  <2> QED BY <2>2, <2>3, <2>4, <2>5
<1>18. CASE delFailures(s)
  <2>1. call'[s].pc = "delOpenedAt"
    <3>1. ("delOpenedAt") \in Pc
      BY DEF Pc, Failing, Succeeding, Closing
    <3> QED BY <1>18, <1>2, <3>1 DEF delFailures
  <2>2. CASE d = "open"
    BY <1>18, <2>1, <2>2 DEF delFailures, redis, Owed, Owes, At, DelFailures, Fresh
  <2>3. CASE d = "failures"
    BY <1>18, <2>1, <2>3, OwedIs, OwedIsNext DEF delFailures, redis, Owes, At, TypeOK, DelFailures, Fresh
  <2>4. CASE d = "successes"
    BY <1>18, <2>1, <2>4, OwedIs, OwedIsNext DEF delFailures, redis, Owes, At, TypeOK, DelFailures, Fresh
  <2>5. CASE d = "openedAt"
    BY <1>18, <2>1, <2>5, OwedIs, OwedIsNext DEF delFailures, redis, Owes, At, TypeOK, DelFailures, Fresh
  <2> QED BY <2>2, <2>3, <2>4, <2>5
<1>19. CASE delOpenedAt(s)
  BY <1>19, OwedIs, OwedIsNext DEF delOpenedAt, redis, TypeOK, Owes, At, Fresh
<1>20. CASE getOpenedAt(s)
  BY <1>20, OwedIs, OwedIsNext DEF getOpenedAt, redis, TypeOK, Owes, At
<1>21. CASE setHalfOpen(s)
  BY <1>21, OwedIs, OwedIsNext DEF setHalfOpen, redis, TypeOK, Owes, At
<1>22. CASE setSuccesses(s)
  <2>1. call'[s].pc = "expireSuccesses"
    <3>1. ("expireSuccesses") \in Pc
      BY DEF Pc, Failing, Succeeding, Closing
    <3> QED BY <1>22, <1>2, <3>1 DEF setSuccesses
  <2>2. CASE d = "open"
    BY <1>22, <2>1, <2>2 DEF setSuccesses, redis, Owed, Owes, At, Fresh
  <2>3. CASE d = "failures"
    BY <1>22, <2>1, <2>3, OwedIs, OwedIsNext DEF setSuccesses, redis, Owes, At, TypeOK, Fresh
  <2>4. CASE d = "successes"
    BY <1>22, <2>1, <2>4, OwedIs, OwedIsNext DEF setSuccesses, redis, Owes, At, TypeOK, Fresh
  <2>5. CASE d = "openedAt"
    BY <1>22, <2>1, <2>5, OwedIs, OwedIsNext DEF setSuccesses, redis, Owes, At, TypeOK, Fresh
  <2> QED BY <2>2, <2>3, <2>4, <2>5
<1>23. CASE resetFailures(s)
  <2>1. failures' = 0 /\ ttl' = [ttl EXCEPT !["failures"] = None]
    BY <1>23 DEF resetFailures, DelFailures, Fresh
  <2>2. d \notin {"open", "failures"}
    BY <2>1, OwedIsNext
  <2>3. Owed(d)
    BY <1>23, <2>1, <2>2, OwedIs, OwedIsNext DEF resetFailures, DelFailures, TypeOK
  <2> QED BY <1>23, <2>2, <2>3 DEF resetFailures, Owes, At
<1> QED BY <1>3, <1>4, <1>5, <1>6, <1>7, <1>8, <1>9, <1>10, <1>11, <1>12, <1>13, <1>14,
       <1>15, <1>16, <1>17, <1>18, <1>19, <1>20, <1>21, <1>22, <1>23 DEF recordFailure,
       recordSuccess

LEMMA DebtsStep ==
    ASSUME TypeOK, TypeOK', DebtsArePaid, [Next]_vars
    PROVE  DebtsArePaid'
<1> SUFFICES ASSUME NEW d \in Debt, Owed(d)', d \notin cut'
             PROVE  \E t \in Server : Owes(t, d)'
  BY DEF DebtsArePaid
<1>1. Owed(d) => d \in cut \/ \E t \in Server : Owes(t, d)
  BY DEF DebtsArePaid
<1>2. ASSUME NEW s \in Server, Advance(s)
      PROVE  \E t \in Server : Owes(t, d)'
  <2>1. /\ chat(s) \/ isOpen(s) \/ retryWithBackoff(s)
             \/ recordFailure(s) \/ recordSuccess(s) \/ getStateFails(s)
        /\ cut' = {e \in cut : Owed(e)'}
    BY <1>2 DEF Advance
  <2>2. d \notin cut
    BY <2>1
  <2>3. recordFailure(s) \/ recordSuccess(s) \/ UNCHANGED redis
    BY <2>1 DEF chat, isOpen, retryWithBackoff, getStateFails
  <2>4. CASE ~Owed(d) \/ Owes(s, d)
    BY <2>1, <2>3, <2>4, OwesAfter
  <2>5. CASE Owed(d) /\ ~Owes(s, d)
    <3>1. PICK t \in Server : Owes(t, d)
      BY <1>1, <2>2, <2>5
    <3>2. t # s
      BY <2>5, <3>1
    <3>3. call'[t] = call[t]
      BY <2>1, <3>2, CallStep DEF TypeOK, KeysOK
    <3> QED BY <3>1, <3>3, OthersOwe
  <2> QED BY <2>4, <2>5
<1>3. ASSUME NEW s \in Server, Cut(s)
      PROVE  \E t \in Server : Owes(t, d)'
  <2>1. Owed(d)
    BY <1>3 DEF Cut, redis, Owed, Present
  <2>2. d \notin cut /\ ~Owes(s, d)
    BY <1>3, <2>1 DEF Cut
  <2>3. PICK t \in Server : Owes(t, d)
    BY <1>1, <2>1, <2>2
  <2>4. t # s
    BY <2>2, <2>3
  <2>5. call'[t] = call[t]
    BY <1>3, <2>4, DoneCall DEF Cut, TypeOK
  <2> QED BY <2>3, <2>5, OthersOwe
<1>4. CASE Tick
  <2>1. Owed(d)
    BY <1>4, ConfigAssumption, OwedIs, OwedIsNext DEF Tick, TypeOK, Debt, Key
  <2>2. d \notin cut
    BY <1>4, <2>1 DEF Tick
  <2>3. PICK t \in Server : Owes(t, d)
    BY <1>1, <2>1, <2>2
  <2>4. call'[t].pc = call[t].pc /\ call'[t].enough = call[t].enough
    BY <1>4, <2>3 DEF Tick, TypeOK, Call
  <2>5. Owes(t, d)'
    BY <2>3, <2>4 DEF Owes, At
  <2> QED BY <2>5
<1>5. CASE UNCHANGED vars
  BY <1>1, <1>5 DEF vars, redis, Owed, Owes, At, Present
<1> QED BY <1>2, <1>3, <1>4, <1>5 DEF Next

\* Calls never leave behind a closed circuit at its threshold, or a counter or
\* a stamp that lives for ever, unless one of them failed on the way.
THEOREM DebtsPaid == Spec => []DebtsArePaid
<1>1. Init => DebtsArePaid
  BY ConfigAssumption, OwedIs DEF Init, DebtsArePaid, Debt, Key
<1> QED BY <1>1, TypeCorrect, DebtsStep, PTL DEF Spec

-----------------------------------------------------------------------------
(* The open circuit *)

\* An open circuit whose stamp is gone, with no call about to write the state
\* or the stamp on account of what it read before.
Stuck ==
    /\ state = "OPEN"
    /\ openedAt = None
    /\ \A s \in Server :
        /\ call[s].pc \notin {"setOpen", "setOpenedAt", "setHalfOpen",
                              "incrSuccesses", "delState"}
        /\ At(s, "expireSuccesses") => ~call[s].enough

LEMMA StuckStep ==
    ASSUME TypeOK, Stuck, [Next /\ Answered]_vars
    PROVE  Stuck'
<1>1. call \in [Server -> Call]
  BY DEF TypeOK
<1>2. ASSUME NEW s \in Server,
             chat(s) \/ isOpen(s) \/ retryWithBackoff(s)
               \/ recordFailure(s) \/ recordSuccess(s)
      PROVE  Stuck'
  <2>1. \A t \in Server \ {s} : call'[t] = call[t]
    BY <1>2, CallStep DEF TypeOK, KeysOK
  <2>2. ASSUME state' = "OPEN", openedAt' = None,
               call'[s].pc \notin {"setOpen", "setOpenedAt", "setHalfOpen",
                                   "incrSuccesses", "delState"},
               call'[s].pc = "expireSuccesses" => ~call'[s].enough
        PROVE  Stuck'
    BY <2>1, <2>2 DEF Stuck, At
  <2>3. ASSUME NEW pc \in Pc, Goto(s, pc)
        PROVE  call'[s].pc = pc /\ ~call'[s].enough
    <3>1. call'[s] = [pc |-> pc, enough |-> FALSE, age |-> 0]
      BY <1>1, <2>3, GotoCall
    <3>2. call'[s].pc = pc
      BY <3>1
    <3>3. ~call'[s].enough
      BY <3>1
    <3> QED BY <3>2, <3>3
  <2>4. ASSUME Done(s)
        PROVE  call'[s].pc = "idle"
    BY <1>1, <2>4, DoneCall
  <2> USE DEF Stuck, At, Pc, Failing, Succeeding, Closing
  <2>5. CASE chat(s)
    BY <2>5, <2>2, <2>3, <2>4 DEF chat, redis
  <2>6. CASE isOpen(s)
    BY <2>6, <2>2, <2>3, <2>4 DEF isOpen, redis
  <2>7. CASE retryWithBackoff(s)
    BY <2>7, <2>2, <2>3, <2>4 DEF retryWithBackoff, redis
  <2>8. CASE incrFailures(s)
    <3>1. call'[s].pc = "expireFailures"
      BY <1>1, <2>8 DEF incrFailures, Counted
    <3> QED BY <2>8, <2>2, <3>1 DEF incrFailures
  <2>9. CASE expireFailures(s)
    BY <2>9, <2>2, <2>3, <2>4 DEF expireFailures, redis, Expire
  <2>10. CASE getFailureState(s)
    BY <2>10, <2>2, <2>3, <2>4 DEF getFailureState, redis
  <2>11. CASE setOpen(s)
    BY <2>11, <2>2, <2>3, <2>4 DEF setOpen, redis
  <2>12. CASE setOpenedAt(s)
    BY <2>12, <2>2, <2>3, <2>4 DEF setOpenedAt, redis, Fresh
  <2>13. CASE expireOpenedAt(s)
    BY <2>13, <2>2, <2>3, <2>4 DEF expireOpenedAt, redis, Expire
  <2>14. CASE getSuccessState(s)
    BY <2>14, <2>2, <2>3, <2>4 DEF getSuccessState, redis
  <2>15. CASE incrSuccesses(s)
    BY <2>15, <2>2, <2>3, <2>4 DEF incrSuccesses, redis, CapAt
  <2>16. CASE expireSuccesses(s)
    BY <2>16, <2>2, <2>3, <2>4 DEF expireSuccesses, redis, Expire
  <2>17. CASE delState(s)
    BY <2>17, <2>2, <2>3, <2>4 DEF delState, redis
  <2>18. CASE delSuccesses(s)
    BY <2>18, <2>2, <2>3, <2>4 DEF delSuccesses, redis, Fresh
  <2>19. CASE delFailures(s)
    BY <2>19, <2>2, <2>3, <2>4 DEF delFailures, redis, DelFailures, Fresh
  <2>20. CASE delOpenedAt(s)
    BY <2>20, <2>2, <2>3, <2>4 DEF delOpenedAt, redis, Fresh
  <2>21. CASE getOpenedAt(s)
    BY <2>21, <2>2, <2>3, <2>4 DEF getOpenedAt, redis
  <2>22. CASE setHalfOpen(s)
    BY <2>22, <2>2, <2>3, <2>4 DEF setHalfOpen, redis
  <2>23. CASE setSuccesses(s)
    BY <2>23, <2>2, <2>3, <2>4 DEF setSuccesses, redis, Fresh
  <2>24. CASE resetFailures(s)
    BY <2>24, <2>2, <2>3, <2>4 DEF resetFailures, redis, DelFailures, Fresh
  <2> QED BY <1>2, <2>5, <2>6, <2>7, <2>8, <2>9, <2>10, <2>11, <2>12, <2>13, <2>14, <2>15,
         <2>16, <2>17, <2>18, <2>19, <2>20, <2>21, <2>22, <2>23, <2>24 DEF recordFailure,
         recordSuccess
<1>3. CASE Tick
  <2>1. \A t \in Server : /\ call'[t].pc = call[t].pc
                           /\ call'[t].enough = call[t].enough
    BY <1>1, <1>3 DEF Tick, Call
  <2>2. state' = "OPEN" /\ openedAt' = None
    BY <1>3 DEF Tick, Stuck
  <2> QED BY <2>1, <2>2 DEF Stuck, At
<1>4. CASE UNCHANGED vars
  BY <1>4 DEF vars, redis, Stuck, At
<1> QED BY <1>2, <1>3, <1>4 DEF Answered

\* What Recovers rules out happens: the stamp that recordSuccess wants expires
\* when the timeout it is to measure is over, isOpen refuses every new call, and
\* so the circuit, though Redis and the provider answer, is open for good.
LEMMA NeverTriedAgain == AnsweredSpec => [](Stuck => []Stuck)
<1>1. TypeOK /\ [Next /\ Answered]_vars => (Stuck => Stuck')
  BY StuckStep
<1>2. [Next /\ Answered]_vars => [Next]_vars
  OBVIOUS
<1>3. Init /\ [][Next /\ Answered]_vars => Spec
  BY <1>2, PTL DEF Spec
<1>4. Init /\ [][Next /\ Answered]_vars => [](Stuck => []Stuck)
  BY <1>1, <1>3, TypeCorrect, PTL
<1> QED BY <1>4, PTL DEF AnsweredSpec
=============================================================================
