------------------------------ MODULE MCProjects ------------------------------
(* Projects for TLC: an epic and its child in two sprints, one member. *)
EXTENDS Projects, TLC

CONSTANTS t1, t2, t3, t4, s1, s2, u1, u2

Patches ==
    {[NoChange EXCEPT !.resolution = "DONE"],
     [NoChange EXCEPT !.sprint = s1],
     [NoChange EXCEPT !.assignee = u2, !.parent = t1]}

Rows ==
    (t1 :> [number |-> 1, deleted |-> FALSE,
            columns |-> [NewColumns EXCEPT !.type = "EPIC", !.sprint = s2]])
 @@ (t2 :> [number |-> 2, deleted |-> FALSE,
            columns |-> [NewColumns EXCEPT !.parent = t1, !.sprint = s1,
                                           !.assignee = u1]])
 @@ (t3 :> None) @@ (t4 :> None)

Beginnings ==
    {[member |-> (u1 :> "ADMIN") @@ (u2 :> "none"),
      sprint |-> [s \in Sprint |-> [status |-> "PLANNING", deleted |-> FALSE]],
      ticket |-> Rows, sequence |-> 2]}
===============================================================================
