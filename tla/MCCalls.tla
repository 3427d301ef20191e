------------------------------- MODULE MCCalls -------------------------------
EXTENDS Calls, TLC

CONSTANTS u1, u2, u3, r1, r2

\* Two chats of two users each that have one user in common.
Pairs == {f \in [{r1, r2} -> SUBSET {u1, u2, u3}] :
            /\ \A r \in {r1, r2} : Cardinality(f[r]) = 2
            /\ f[r1] # f[r2]}

\* One chat of three users.
Groups == {f \in [{r1, r2} -> SUBSET {u1, u2, u3}] :
            \E r \in {r1, r2} :
                f = [q \in {r1, r2} |-> IF q = r THEN {u1, u2, u3} ELSE {}]}

Chats == Pairs \cup Groups

Events == [f \in Chats |-> IF f \in Pairs THEN 2 ELSE 1]

Alike == Permutations({u1, u2, u3}) \cup Permutations({r1, r2})
=============================================================================
