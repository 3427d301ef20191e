---------------------------- MODULE CircuitBreaker ----------------------------
(***************************************************************************)
(* The circuit breaker in front of the language model, for one             *)
(* organization: AiService.chat asks isOpen, calls the provider and        *)
(* records a success or a failure with a sequence of Redis commands.  Each *)
(* command is a step, so that the records of several calls interleave.  A  *)
(* server here handles one call at a time; a process with several calls in *)
(* flight is several servers.                                              *)
(*                                                                         *)
(* A command may fail, because Redis is unreachable or was not connected   *)
(* in the first place, and a process may stop: both end the record of a    *)
(* call early.  Only a failing GET of the state does not: getState answers *)
(* CLOSED instead.  Times are counted in ticks; ages are counted up to the *)
(* one value they are compared with and times to live down to zero, so     *)
(* that neither the clock nor the number of calls has a bound.             *)
(***************************************************************************)
EXTENDS Naturals

CONSTANTS
    Server,
    FailureThreshold,
    SuccessThreshold,
    Timeout,            \* ticks an open circuit waits; also a time to live
    ResetTimeout,       \* ticks a count of failures lives
    None                \* no value; no time to live

ASSUME ConfigAssumption ==
    /\ FailureThreshold \in Nat \ {0}
    /\ SuccessThreshold \in Nat \ {0}
    /\ Timeout \in Nat \ {0}
    /\ ResetTimeout \in Nat \ {0}
    /\ None \notin Nat

VARIABLES
    state,      \* the state key; the code deletes it for CLOSED
    failures,   \* the count of failures up to FailureThreshold, 0 if absent
    successes,  \* the count of successes up to SuccessThreshold, 0 if absent
    openedAt,   \* the age of the opened-at stamp, or None
    ttl,        \* what is left to live of the other keys, None for no limit
    call,       \* what each server's call is about to do, and what it has read
    cut         \* history: the debts, below, that failed calls left behind

redis == <<state, failures, successes, openedAt, ttl>>
vars == <<redis, call, cut>>

CircuitState == {"CLOSED", "OPEN", "HALF_OPEN"}
Key == {"failures", "successes", "openedAt"}

Failing ==
    {"incrFailures", "expireFailures", "getFailureState", "setOpen",
     "setOpenedAt", "expireOpenedAt"}
Closing == {"delState", "delSuccesses", "delFailures", "delOpenedAt"}
Succeeding ==
    {"getSuccessState", "incrSuccesses", "expireSuccesses", "getOpenedAt",
     "setHalfOpen", "setSuccesses", "resetFailures"} \union Closing

Call ==
    [pc: {"idle", "isOpen", "provider"} \union Failing \union Succeeding,
     enough: BOOLEAN,                   \* the count it got is at the threshold
     age: 0..Timeout]                   \* of the stamp it has read

Idle == [pc |-> "idle", enough |-> FALSE, age |-> 0]

At(s, pc) == call[s].pc = pc
Goto(s, pc) == call' = [call EXCEPT ![s] = [Idle EXCEPT !.pc = pc]]
Done(s) == call' = [call EXCEPT ![s] = Idle]

CapAt(n, max) == IF n < max THEN n ELSE max

\* INCR: the call goes on with whether the count has reached max.
Counted(s, n, max, pc) ==
    call' = [call EXCEPT ![s] =
        [pc |-> pc, enough |-> n + 1 >= max, age |-> 0]]

Present(k) ==
    CASE k = "failures" -> failures > 0
      [] k = "successes" -> successes > 0
      [] k = "openedAt" -> openedAt # None

\* EXPIRE does nothing to a key that is not there.
Expire(k, ticks) ==
    /\ ttl' = [ttl EXCEPT ![k] = IF Present(k) THEN ticks ELSE None]
    /\ UNCHANGED <<state, failures, successes, openedAt>>

\* Mutant: the time to live outlasts its key.
FreshKept(k) == UNCHANGED ttl

\* A key that SET writes or DEL removes has no time to live.
Fresh(k) == ttl' = [ttl EXCEPT ![k] = None]

-----------------------------------------------------------------------------

(***************************************************************************)
(* What calls owe: to open a closed circuit that has enough failures, and  *)
(* to give each counter and the stamp a time to live.                      *)
(***************************************************************************)
Debt == {"open"} \union Key

Owed(d) ==
    IF d = "open" THEN state = "CLOSED" /\ failures >= FailureThreshold
                  ELSE Present(d) /\ ttl[d] = None

\* s is on its way to pay d, or to delete what d is about.
Owes(s, d) ==
    CASE d = "open" ->
            \/ At(s, "expireFailures") /\ call[s].enough
            \/ call[s].pc \in {"getFailureState", "setOpen",
                               "delSuccesses", "delFailures"}
      [] d = "failures" -> At(s, "expireFailures")
      [] d = "successes" -> At(s, "expireSuccesses")
      [] d = "openedAt" -> At(s, "expireOpenedAt")

-----------------------------------------------------------------------------

Init ==
    /\ state = "CLOSED"
    /\ failures = 0
    /\ successes = 0
    /\ openedAt = None
    /\ ttl = [k \in Key |-> None]
    /\ call = [s \in Server |-> Idle]
    /\ cut = {}

\* Time passes: stamps age, and keys whose time is over go.
Tick ==
    LET Over(k) == ttl[k] # None /\ ttl[k] <= 1
    IN  /\ failures' = IF Over("failures") THEN 0 ELSE failures
        /\ successes' = IF Over("successes") THEN 0 ELSE successes
        /\ openedAt' = IF openedAt = None \/ Over("openedAt") THEN None
                       ELSE CapAt(openedAt + 1, Timeout)
        /\ ttl' = [k \in Key |-> IF ttl[k] = None \/ Over(k) THEN None
                                 ELSE ttl[k] - 1]
        /\ call' = [s \in Server |->
                        IF At(s, "setHalfOpen")
                        THEN [call[s] EXCEPT !.age = CapAt(@ + 1, Timeout)]
                        ELSE call[s]]
        /\ UNCHANGED state
        /\ cut' = {d \in cut : Owed(d)'}

\* A call arrives and asks isOpen.
chat(s) ==
    /\ At(s, "idle")
    /\ Goto(s, "isOpen")
    /\ UNCHANGED redis

\* An open circuit refuses the call.
isOpen(s) ==
    /\ At(s, "isOpen")
    /\ Goto(s, IF state = "OPEN" THEN "idle" ELSE "provider")
    /\ UNCHANGED redis

\* The last attempt of retryWithBackoff ends, well or not.
retryWithBackoff(s) ==
    /\ At(s, "provider")
    /\ \E pc \in {"getSuccessState", "incrFailures"} : Goto(s, pc)
    /\ UNCHANGED redis

-----------------------------------------------------------------------------

incrFailures(s) ==
    /\ At(s, "incrFailures")
    /\ failures' = CapAt(failures + 1, FailureThreshold)
    /\ Counted(s, failures, FailureThreshold, "expireFailures")
    /\ UNCHANGED <<state, successes, openedAt, ttl>>

expireFailures(s) ==
    /\ At(s, "expireFailures")
    /\ Expire("failures", ResetTimeout)
    /\ Goto(s, IF call[s].enough THEN "getFailureState" ELSE "idle")

getFailureState(s) ==
    /\ At(s, "getFailureState")
    /\ Goto(s, IF state = "OPEN" THEN "idle" ELSE "setOpen")
    /\ UNCHANGED redis

setOpen(s) ==
    /\ At(s, "setOpen")
    /\ state' = "OPEN"
    /\ Goto(s, "setOpenedAt")
    /\ UNCHANGED <<failures, successes, openedAt, ttl>>

setOpenedAt(s) ==
    /\ At(s, "setOpenedAt")
    /\ openedAt' = 0
    /\ Fresh("openedAt")
    /\ Goto(s, "expireOpenedAt")
    /\ UNCHANGED <<state, failures, successes>>

expireOpenedAt(s) ==
    /\ At(s, "expireOpenedAt")
    /\ Expire("openedAt", Timeout)
    /\ Done(s)

recordFailure(s) ==
    \/ incrFailures(s) \/ expireFailures(s) \/ getFailureState(s)
    \/ setOpen(s) \/ setOpenedAt(s) \/ expireOpenedAt(s)

-----------------------------------------------------------------------------

getSuccessState(s) ==
    /\ At(s, "getSuccessState")
    /\ Goto(s, CASE state = "HALF_OPEN" -> "incrSuccesses"
                 [] state = "OPEN" -> "getOpenedAt"
                 [] state = "CLOSED" -> "resetFailures")
    /\ UNCHANGED redis

incrSuccesses(s) ==
    /\ At(s, "incrSuccesses")
    /\ successes' = CapAt(successes + 1, SuccessThreshold)
    /\ Counted(s, successes, SuccessThreshold, "expireSuccesses")
    /\ UNCHANGED <<state, failures, openedAt, ttl>>

expireSuccesses(s) ==
    /\ At(s, "expireSuccesses")
    /\ Expire("successes", Timeout)
    /\ Goto(s, IF call[s].enough THEN "delState" ELSE "idle")

delState(s) ==
    /\ At(s, "delState")
    /\ state' = "CLOSED"
    /\ Goto(s, "delSuccesses")
    /\ UNCHANGED <<failures, successes, openedAt, ttl>>

delSuccesses(s) ==
    /\ At(s, "delSuccesses")
    /\ successes' = 0
    /\ Fresh("successes")
    /\ Goto(s, "delFailures")
    /\ UNCHANGED <<state, failures, openedAt>>

DelFailures ==
    /\ failures' = 0
    /\ Fresh("failures")
    /\ UNCHANGED <<state, successes, openedAt>>

\* Mutant: closing the circuit keeps the count of failures.
delFailuresSkipped(s) ==
    /\ At(s, "delFailures")
    /\ Goto(s, "delOpenedAt")
    /\ UNCHANGED redis

delFailures(s) ==
    /\ At(s, "delFailures")
    /\ DelFailures
    /\ Goto(s, "delOpenedAt")

delOpenedAt(s) ==
    /\ At(s, "delOpenedAt")
    /\ openedAt' = None
    /\ Fresh("openedAt")
    /\ Done(s)
    /\ UNCHANGED <<state, failures, successes>>

getOpenedAt(s) ==
    /\ At(s, "getOpenedAt")
    /\ IF openedAt = None
       THEN Done(s)
       ELSE call' = [call EXCEPT ![s] =
                [pc |-> "setHalfOpen", enough |-> FALSE, age |-> openedAt]]
    /\ UNCHANGED redis

\* The age is taken when the answer has come: by then the key may be gone.
setHalfOpen(s) ==
    /\ At(s, "setHalfOpen")
    /\ IF call[s].age >= Timeout
       THEN /\ state' = "HALF_OPEN"
            /\ Goto(s, "setSuccesses")
       ELSE /\ Done(s)
            /\ UNCHANGED state
    /\ UNCHANGED <<failures, successes, openedAt, ttl>>

setSuccesses(s) ==
    /\ At(s, "setSuccesses")
    /\ successes' = 1
    /\ Fresh("successes")
    /\ Goto(s, "expireSuccesses")
    /\ UNCHANGED <<state, failures, openedAt>>

\* A success while the circuit is closed.
resetFailures(s) ==
    /\ At(s, "resetFailures")
    /\ DelFailures
    /\ Done(s)

recordSuccess(s) ==
    \/ getSuccessState(s) \/ incrSuccesses(s) \/ expireSuccesses(s)
    \/ delState(s) \/ delSuccesses(s) \/ delFailures(s) \/ delOpenedAt(s)
    \/ getOpenedAt(s) \/ setHalfOpen(s) \/ setSuccesses(s) \/ resetFailures(s)

-----------------------------------------------------------------------------

\* Redis cannot be asked for the state: getState answers CLOSED.
getStateFails(s) ==
    /\ \/ At(s, "isOpen") /\ Goto(s, "provider")
       \/ At(s, "getFailureState") /\ Goto(s, "setOpen")
       \/ At(s, "getSuccessState") /\ Goto(s, "resetFailures")
    /\ UNCHANGED redis

\* Another command of a record fails, or the process stops.
Cut(s) ==
    /\ ~At(s, "idle")
    /\ Done(s)
    /\ cut' = cut \union {d \in Debt : Owed(d) /\ Owes(s, d)}
    /\ UNCHANGED redis

\* A step of a call that goes on settles the debts that are owed no more.
Advance(s) ==
    /\ chat(s) \/ isOpen(s) \/ retryWithBackoff(s)
         \/ recordFailure(s) \/ recordSuccess(s) \/ getStateFails(s)
    /\ cut' = {d \in cut : Owed(d)'}

Next == Tick \/ \E s \in Server : Advance(s) \/ Cut(s)

Spec == Init /\ [][Next]_vars

\* Redis answers every command, and no process stops.
Answered ==
    \/ Tick
    \/ \E s \in Server : chat(s) \/ isOpen(s) \/ retryWithBackoff(s)
                           \/ recordFailure(s) \/ recordSuccess(s)

\* Then the calls proceed, more of them come, and time passes.
AnsweredSpec ==
    /\ Init
    /\ [][Next /\ Answered]_vars
    /\ WF_vars(Tick)
    /\ \A s \in Server : WF_vars(Advance(s))

-----------------------------------------------------------------------------

\* Every variable has its type; only a key that is there has a time to live.
TypeOK ==
    /\ state \in CircuitState
    /\ failures \in 0..FailureThreshold
    /\ successes \in 0..SuccessThreshold
    /\ openedAt \in 0..Timeout \union {None}
    /\ ttl \in [Key -> Nat \union {None}]
    /\ \A k \in Key : ttl[k] # None => Present(k)
    /\ call \in [Server -> Call]
    /\ cut \in SUBSET Debt

\* What is owed is on the way, whatever other calls record meanwhile, or was
\* left behind by a call that failed: recordFailure never leaves a closed
\* circuit at its threshold, and closing one leaves no old count behind that
\* would, and no count or stamp lives for ever.
DebtsArePaid ==
    \A d \in Debt : Owed(d) => d \in cut \/ \E s \in Server : Owes(s, d)

\* No call of the provider fails.
ProviderAnswers == \A s \in Server : At(s, "provider") => ~At(s, "incrFailures")'

\* Once the provider answers again, an open circuit does not stay open: it is
\* tried after the timeout, "5 minutes before half-open"
\* (circuit-breaker.service.ts:14,21), and so a caller who was told to "try
\* again later" (ai.service.ts:20) is served.
Recovers == <>[][ProviderAnswers]_vars => (state = "OPEN" ~> state # "OPEN")

=============================================================================
