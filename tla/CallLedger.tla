------------------------------ MODULE CallLedger ------------------------------
(***************************************************************************)
(* What the gateway promises about calls, as chats remember them: a room   *)
(* has at most one call at a time, and a call that ends is handed over     *)
(* once to be saved as a message, unless another call replaced it in its   *)
(* room before it ended.                                                   *)
(***************************************************************************)
EXTENDS Naturals

CONSTANTS Room, None

VARIABLES
    current,    \* current[r]: the call that room r has, or None
    saved,      \* calls handed over to be saved
    started     \* how many calls have started; they are numbered from 1

ledger == <<current, saved, started>>

InitLedger ==
    /\ current = [r \in Room |-> None]
    /\ saved = {}
    /\ started = 0

\* A call starts in r; the one that r had is forgotten.
Start(r) ==
    /\ started' = started + 1
    /\ current' = [current EXCEPT ![r] = started']
    /\ UNCHANGED saved

\* The calls of the rooms R end.
End(R) ==
    /\ \A r \in R : current[r] # None
    /\ current' = [r \in Room |-> IF r \in R THEN None ELSE current[r]]
    /\ saved' = saved \cup {current[r] : r \in R}
    /\ UNCHANGED started

NextLedger ==
    \/ \E r \in Room : Start(r)
    \/ \E R \in SUBSET Room : End(R)

LedgerSpec == InitLedger /\ [][NextLedger]_ledger

\* A call belongs to one room and is not saved as long as it goes on, so that no call
\* is ever saved twice.
SavedOnce ==
    /\ saved \subseteq 1..started
    /\ \A r \in Room : current[r] # None => current[r] \in (1..started) \ saved
    /\ \A r, q \in Room : current[r] # None /\ current[r] = current[q] => r = q
=============================================================================
