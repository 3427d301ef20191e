------------------------------- MODULE Projects -------------------------------
(***************************************************************************)
(* One project: its members, sprints and tickets, and the requests that    *)
(* change them (ticket.service, sprint.service, project.service).          *)
(*                                                                         *)
(* A request runs statement by statement on connections of one pool.  Some *)
(* requests open a READ COMMITTED transaction, which keeps a connection    *)
(* and the locks of the rows it wrote until it commits; its writes are     *)
(* seen by nobody else before.  Some statements are sent without the       *)
(* transaction, on a second connection, while the first one is kept.       *)
(* Other requests read and then write with statements that each commit at  *)
(* once.                                                                   *)
(*                                                                         *)
(* Rows are soft-deleted: they keep their ticket number, and other rows    *)
(* may still name them, but queries no longer find them.                   *)
(***************************************************************************)
EXTENDS Naturals, FiniteSets

CONSTANTS
    Client,        \* those who send requests, each one at a time
    Ticket, Sprint, User,
    Patch,         \* the bodies of ticket requests; Same leaves a column alone
    Earlier,       \* the rows that earlier requests may have left
    Pools,         \* connections that the rest of the server may leave us
    MaxRequests,   \* bound: requests altogether
    None, Same

Resolution == {"UNRESOLVED", "DONE", "WONT_DO"}
TicketType == {"EPIC", "TASK"}
SprintStatus == {"PLANNING", "ACTIVE", "COMPLETED"}
Role == {"ADMIN", "MEMBER"}

Columns ==
    [type: TicketType, resolution: Resolution, sprint: Sprint \union {None},
     assignee: User \union {None}, parent: Ticket \union {None}]

Body ==
    [type: TicketType \union {Same}, resolution: Resolution \union {Same},
     sprint: Sprint \union {None, Same}, assignee: User \union {None, Same},
     parent: Ticket \union {None, Same}]

Row == [number: Nat \ {0}, deleted: BOOLEAN, columns: Columns]

\* member[u] is "none" if u never was a member.
Project ==
    [member: [User -> Role \union {"none", "removed"}],
     sprint: [Sprint -> [status: SprintStatus, deleted: BOOLEAN]],
     ticket: [Ticket -> Row \union {None}], sequence: Nat]

ASSUME ProjectsAssumption ==
    /\ Patch \subseteq Body
    /\ Earlier \subseteq Project
    /\ IsFiniteSet(User) /\ IsFiniteSet(Sprint) /\ IsFiniteSet(Ticket)
    /\ Pools \subseteq Nat \ {0}
    /\ MaxRequests \in Nat
    /\ Same # None
    /\ {Same, None} \intersect (TicketType \union Resolution) = {}
    /\ {Same, None} \intersect (Ticket \union Sprint \union User \union Row) = {}

VARIABLES
    member, sprint, ticket, sequence,   \* the rows of the project
    pc,         \* pc[k]: how far the request of k is
    req,        \* req[k]: what it asks for and what it has read
    pool,       \* connections for the requests of this project
    requests,   \* how many requests have been sent
    raced       \* history: pairs of operations, one of which was answered
                \* with a write while the other was under way

db == <<member, sprint, ticket, sequence>>
vars == <<db, pc, req, pool, requests, raced>>

Operation ==
    {"createTicket", "updateTicket", "moveTicket", "removeTicket",
     "startSprint", "completeSprint", "removeSprint", "addMember", "removeMember"}

Request ==
    [op: Operation, ticket: Ticket \union {None}, sprint: Sprint \union {None},
     user: User \union {None}, body: Body, role: Role \union {None},
     epic: BOOLEAN, count: Nat, rows: SUBSET Ticket]

NoChange ==
    [type |-> Same, resolution |-> Same, sprint |-> Same, assignee |-> Same,
     parent |-> Same]

NewColumns ==
    [type |-> "TASK", resolution |-> "UNRESOLVED", sprint |-> None,
     assignee |-> None, parent |-> None]

\* Mutant: columns that the body leaves alone are overwritten.
PatchedWhole(c, b) == [f \in DOMAIN c |-> b[f]]

\* The columns c after an update with body b.
Patched(c, b) == [f \in DOMAIN c |-> IF b[f] = Same THEN c[f] ELSE b[f]]

Made == {t \in Ticket : ticket[t] # None}
Live == {t \in Made : ~ticket[t].deleted}
Col(t) == ticket[t].columns
Numbers == {ticket[t].number : t \in Made}
InSprint(s) == {t \in Live : Col(t).sprint = s}
Unresolved(s) == {t \in InSprint(s) : Col(t).resolution = "UNRESOLVED"}
Children(t) == {c \in Live : Col(c).parent = t}
Assigned(u) == {t \in Live : Col(t).assignee = u}
Members == {u \in User : member[u] \in Role}
Admins == {u \in User : member[u] = "ADMIN"}
Active == {s \in Sprint : sprint[s] = [status |-> "ACTIVE", deleted |-> FALSE]}

-----------------------------------------------------------------------------
(* Connections and locks *)

At(k, op, where) == pc[k] = where /\ req[k].op = op
Pending(k) == pc[k] # "idle"
Others(k) == Client \ {k}

\* k has a transaction open, and with it a connection.
InTransaction(k) == pc[k] \notin {"idle", "found", "validated", "checked"}

FreeConnection == Cardinality({k \in Client : InTransaction(k)}) < pool

\* The statement that k sends next goes to a connection it does not have.
NeedsConnection(k) ==
    \/ pc[k] \in {"found", "validated", "checked"}
    \/ At(k, "createTicket", "open") \/ At(k, "createTicket", "numbered")
    \/ At(k, "addMember", "open")

\* The rows that the transactions of others have written.  The shared locks
\* of foreign keys, which only delay, are left out.
ProjectFree(k) ==
    \A l \in Others(k) : pc[l] \notin {"numbered", "placed", "inserted"}
SprintFree(k, s) == \A l \in Others(k) : ~(pc[l] = "written" /\ req[l].sprint = s)
TicketsFree(k, S) ==
    \A l \in Others(k) : pc[l] \in {"moved", "written"} => req[l].rows \intersect S = {}

-----------------------------------------------------------------------------
(* Steps of a request *)

Blank(op) ==
    [op |-> op, ticket |-> None, sprint |-> None, user |-> None, body |-> NoChange,
     role |-> None, epic |-> FALSE, count |-> 0, rows |-> {}]

\* k sends request r, whose first statement brings it to `where`.
Begins(k, r, where) ==
    /\ ~Pending(k)
    /\ requests < MaxRequests
    /\ FreeConnection
    /\ requests' = requests + 1
    /\ pc' = [pc EXCEPT ![k] = where]
    /\ req' = [req EXCEPT ![k] = r]
    /\ UNCHANGED <<db, pool, raced>>

\* A statement of k, which has read `r`, brings it on.
Goes(k, r, where) ==
    /\ NeedsConnection(k) => FreeConnection
    /\ pc' = [pc EXCEPT ![k] = where]
    /\ req' = [req EXCEPT ![k] = r]
    /\ UNCHANGED <<db, pool, requests, raced>>

\* The request of k is answered, and its transaction, if any, is over.
Ends(k) ==
    /\ pc' = [pc EXCEPT ![k] = "idle"]
    /\ req' = [req EXCEPT ![k] = Blank("updateTicket")]
    /\ UNCHANGED <<pool, requests>>

\* k is refused, or fails: nothing is written.
Refused(k) == Ends(k) /\ UNCHANGED <<db, raced>>

\* A statement of k brings it on if it finds ok, and has it refused if not.
Checks(k, ok, where) ==
    \/ ok /\ Goes(k, req[k], where)
    \/ ~ok /\ (NeedsConnection(k) => FreeConnection) /\ Refused(k)

\* What k writes becomes visible, and its request is answered.
Commits(k) ==
    /\ NeedsConnection(k) => FreeConnection
    /\ raced' = raced \union
           {{req[k].op, req[l].op} : l \in {l \in Others(k) : Pending(l)}}
    /\ Ends(k)

\* The requests that first read without a transaction open one.
execute(k) ==
    /\ At(k, "createTicket", "checked") \/ At(k, "removeMember", "checked")
    /\ Goes(k, req[k], "open")

-----------------------------------------------------------------------------
(* Tickets *)

createTicket(k) ==
    \E t \in Ticket \ Made, b \in Patch :
        /\ \A l \in Client : req[l].ticket # t
        /\ b.resolution = Same
        /\ Begins(k, [Blank("createTicket") EXCEPT !.ticket = t, !.body = b], "found")

\* updateTicket stands for assignTicket too, whose body has the assignee alone.
updateTicket(k) ==
    \E t \in Live, b \in Patch :
        Begins(k, [Blank("updateTicket") EXCEPT
                     !.ticket = t, !.body = b, !.epic = Col(t).type = "EPIC"], "found")

\* Mutant: a move to the last column is not checked.
moveTicketUnchecked(k) ==
    \E t \in Live, to \in {"DONE", "UNRESOLVED", Same} :
        /\ to # "DONE" => (to = "UNRESOLVED" <=> Col(t).resolution = "DONE")
        /\ Begins(k, [Blank("moveTicket") EXCEPT
                        !.ticket = t, !.body = [NoChange EXCEPT !.resolution = to]], "found")

\* A move to the last column resolves; one elsewhere reopens what was done.
moveTicket(k) ==
    \E t \in Live, to \in {"DONE", "UNRESOLVED", Same} :
        /\ to # "DONE" => (to = "UNRESOLVED" <=> Col(t).resolution = "DONE")
        /\ Begins(k, [Blank("moveTicket") EXCEPT
                        !.ticket = t, !.body = [NoChange EXCEPT !.resolution = to],
                        !.epic = Col(t).type = "EPIC"], "found")

\* The assignee, if there is one, has to be a member.  For a move, this is the
\* query of the board's columns, which refuses nothing.
validateAssigneeMembership(k) ==
    /\ pc[k] = "found"
    /\ req[k].op \in {"createTicket", "updateTicket", "moveTicket"}
    /\ Checks(k, req[k].body.assignee \in Members \union {None, Same},
              IF req[k].op = "createTicket" THEN "checked" ELSE "validated")

\* What was read as an epic is closed only if all its children are done.
validateEpicCanClose(k) ==
    /\ pc[k] = "validated"
    /\ Checks(k, req[k].epic /\ req[k].body.resolution = "DONE" =>
                     \A c \in Children(req[k].ticket) : Col(c).resolution = "DONE",
              "checked")

\* An UPDATE of a ticket that is deleted by now changes nothing.
writeTicket(k) ==
    LET t == req[k].ticket IN
    /\ At(k, "updateTicket", "checked") \/ At(k, "moveTicket", "checked")
    /\ TicketsFree(k, {t})
    /\ ticket' = [ticket EXCEPT ![t].columns =
                    IF t \in Live THEN Patched(@, req[k].body) ELSE @]
    /\ UNCHANGED <<member, sprint, sequence>>
    /\ Commits(k)

removeTicket(k) ==
    \E t \in Live : Begins(k, [Blank("removeTicket") EXCEPT !.ticket = t], "found")

\* Mutant: the row is removed, not marked.
deleteTicketForced(k) ==
    /\ At(k, "removeTicket", "found")
    /\ TicketsFree(k, {req[k].ticket})
    /\ ticket' = [ticket EXCEPT ![req[k].ticket] = None]
    /\ UNCHANGED <<member, sprint, sequence>>
    /\ Commits(k)

deleteTicket(k) ==
    /\ At(k, "removeTicket", "found")
    /\ TicketsFree(k, {req[k].ticket})
    /\ ticket' = [ticket EXCEPT ![req[k].ticket].deleted = TRUE]
    /\ UNCHANGED <<member, sprint, sequence>>
    /\ Commits(k)

\* The project and the board's columns, outside the transaction.
readProject(k) == At(k, "createTicket", "open") /\ Goes(k, req[k], "keyed")

\* incrementTicketSequence reads the sequence ...
readSequence(k) ==
    /\ At(k, "createTicket", "keyed")
    /\ Goes(k, [req[k] EXCEPT !.count = sequence + 1], "counted")

\* ... and writes what it read, and one, to the project.
writeSequence(k) ==
    /\ At(k, "createTicket", "counted")
    /\ ProjectFree(k)
    /\ Goes(k, req[k], "numbered")

getMaxPositionInColumn(k) == At(k, "createTicket", "numbered") /\ Goes(k, req[k], "placed")

\* The unique index refuses a number that the project has.
insertTicket(k) ==
    At(k, "createTicket", "placed") /\ Checks(k, req[k].count \notin Numbers, "inserted")

commitTicket(k) ==
    /\ At(k, "createTicket", "inserted")
    /\ sequence' = req[k].count
    /\ ticket' = [ticket EXCEPT ![req[k].ticket] =
                    [number |-> req[k].count, deleted |-> FALSE,
                     columns |-> Patched(NewColumns, req[k].body)]]
    /\ UNCHANGED <<member, sprint>>
    /\ Commits(k)

-----------------------------------------------------------------------------
(* Sprints *)

startSprint(k) ==
    \E s \in Sprint : Begins(k, [Blank("startSprint") EXCEPT !.sprint = s], "open")

startReads(k) ==
    /\ At(k, "startSprint", "open")
    /\ Checks(k, sprint[req[k].sprint] = [status |-> "PLANNING", deleted |-> FALSE], "known")

startCountsTickets(k) ==
    At(k, "startSprint", "known") /\ Checks(k, InSprint(req[k].sprint) # {}, "counted")

\* Mutant: only this sprint is looked at.
startLooksForActiveSelf(k) ==
    At(k, "startSprint", "counted") /\ Checks(k, req[k].sprint \notin Active, "moved")

startLooksForActive(k) ==
    At(k, "startSprint", "counted") /\ Checks(k, Active = {}, "moved")

completeSprint(k) ==
    \E s \in Sprint : Begins(k, [Blank("completeSprint") EXCEPT !.sprint = s], "open")

completeReads(k) ==
    At(k, "completeSprint", "open") /\ Checks(k, req[k].sprint \in Active, "known")

completeCounts(k) ==
    /\ At(k, "completeSprint", "known")
    /\ Goes(k, [req[k] EXCEPT !.count = Cardinality(InSprint(req[k].sprint))], "counted")

\* Mutant: the tenant filter hides the tickets from the update.
completeMovesNone(k) ==
    At(k, "completeSprint", "counted") /\ Goes(k, req[k], "moved")

completeMoves(k) ==
    LET rows == Unresolved(req[k].sprint) IN
    /\ At(k, "completeSprint", "counted")
    /\ TicketsFree(k, rows)
    /\ Goes(k, [req[k] EXCEPT !.rows = rows], "moved")

\* The UPDATE of the sprint waits for another one.
writeSprint(k) ==
    /\ At(k, "startSprint", "moved") \/ At(k, "completeSprint", "moved")
    /\ SprintFree(k, req[k].sprint)
    /\ Goes(k, req[k], "written")

\* It changes nothing if the sprint is deleted by now.
commitSprint(k) ==
    LET s == req[k].sprint IN
    /\ pc[k] = "written"
    /\ sprint' = [sprint EXCEPT ![s].status =
                    IF sprint[s].deleted THEN @
                    ELSE IF req[k].op = "startSprint" THEN "ACTIVE" ELSE "COMPLETED"]
    /\ ticket' = [t \in Ticket |->
                    IF t \in req[k].rows
                    THEN [ticket[t] EXCEPT !.columns = [@ EXCEPT !.sprint = None]]
                    ELSE ticket[t]]
    /\ UNCHANGED <<member, sequence>>
    /\ Commits(k)

\* Mutant: an active sprint may be deleted.
removeSprintActive(k) ==
    \E s \in Sprint :
        /\ ~sprint[s].deleted
        /\ Begins(k, [Blank("removeSprint") EXCEPT !.sprint = s], "found")

removeSprint(k) ==
    \E s \in Sprint \ Active :
        /\ ~sprint[s].deleted
        /\ Begins(k, [Blank("removeSprint") EXCEPT !.sprint = s], "found")

deleteSprint(k) ==
    /\ At(k, "removeSprint", "found")
    /\ SprintFree(k, req[k].sprint)
    /\ sprint' = [sprint EXCEPT ![req[k].sprint].deleted = TRUE]
    /\ UNCHANGED <<member, ticket, sequence>>
    /\ Commits(k)

-----------------------------------------------------------------------------
(* Members *)

addMember(k) ==
    \E u \in User, r \in Role :
        Begins(k, [Blank("addMember") EXCEPT !.user = u, !.role = r], "open")

\* Outside the transaction.
addMemberLooks(k) ==
    At(k, "addMember", "open") /\ Checks(k, req[k].user \notin Members, "unique")

\* MySQL has no partial indexes: the row of a removed member is in the way.
insertMember(k) ==
    LET u == req[k].user IN
    /\ At(k, "addMember", "unique")
    /\ \/ /\ member[u] = "none"
          /\ member' = [member EXCEPT ![u] = req[k].role]
          /\ UNCHANGED <<sprint, ticket, sequence>>
          /\ Commits(k)
       \/ member[u] # "none" /\ Refused(k)

removeMember(k) ==
    \E u \in Members :
        Begins(k, [Blank("removeMember") EXCEPT !.user = u, !.role = member[u]], "found")

\* Mutant: one administrator is enough for one to go.
removeMemberCountsAdminsLast(k) ==
    /\ At(k, "removeMember", "found")
    /\ Checks(k, req[k].role = "ADMIN" => Cardinality(Admins) >= 1, "checked")

removeMemberCountsAdmins(k) ==
    /\ At(k, "removeMember", "found")
    /\ Checks(k, req[k].role = "ADMIN" => Cardinality(Admins) > 1, "checked")

\* Mutant: the tenant filter hides the tickets from the update.
unassignNone(k) ==
    At(k, "removeMember", "open") /\ Goes(k, req[k], "moved")

unassign(k) ==
    LET rows == Assigned(req[k].user) IN
    /\ At(k, "removeMember", "open")
    /\ TicketsFree(k, rows)
    /\ Goes(k, [req[k] EXCEPT !.rows = rows], "moved")

deleteMember(k) ==
    /\ At(k, "removeMember", "moved")
    /\ member' = [member EXCEPT ![req[k].user] = "removed"]
    /\ ticket' = [t \in Ticket |->
                    IF t \in req[k].rows
                    THEN [ticket[t] EXCEPT !.columns = [@ EXCEPT !.assignee = None]]
                    ELSE ticket[t]]
    /\ UNCHANGED <<sprint, sequence>>
    /\ Commits(k)

-----------------------------------------------------------------------------

\* A statement fails, the database breaks a deadlock, or the server stops.
Fail(k) == Pending(k) /\ Refused(k)

\* Mutant: a request waits for a connection as long as it takes.
AcquireTimeoutNever(k) == pc[k] = "waited" /\ Refused(k)

\* No connection has become free in time.
AcquireTimeout(k) == NeedsConnection(k) /\ ~FreeConnection /\ Refused(k)

Starts(k) ==
    \/ createTicket(k) \/ updateTicket(k) \/ moveTicket(k) \/ removeTicket(k)
    \/ startSprint(k) \/ completeSprint(k) \/ removeSprint(k)
    \/ addMember(k) \/ removeMember(k)

Advance(k) ==
    \/ execute(k) \/ validateAssigneeMembership(k) \/ validateEpicCanClose(k)
    \/ writeTicket(k) \/ deleteTicket(k)
    \/ readProject(k) \/ readSequence(k) \/ writeSequence(k)
    \/ getMaxPositionInColumn(k) \/ insertTicket(k) \/ commitTicket(k)
    \/ startReads(k) \/ startCountsTickets(k) \/ startLooksForActive(k)
    \/ completeReads(k) \/ completeCounts(k) \/ completeMoves(k)
    \/ writeSprint(k) \/ commitSprint(k) \/ deleteSprint(k)
    \/ addMemberLooks(k) \/ insertMember(k)
    \/ removeMemberCountsAdmins(k) \/ unassign(k) \/ deleteMember(k)
    \/ AcquireTimeout(k)

-----------------------------------------------------------------------------
(* Properties *)

\* The variables have their types.
TypeOK ==
    /\ member \in [User -> Role \union {"none", "removed"}]
    /\ sprint \in [Sprint -> [status: SprintStatus, deleted: BOOLEAN]]
    /\ ticket \in [Ticket -> Row \union {None}]
    /\ sequence \in Nat
    /\ pc \in [Client -> {"idle", "found", "validated", "checked", "open", "keyed",
                          "counted", "numbered", "placed", "inserted", "known",
                          "moved", "written", "unique"}]
    /\ req \in [Client -> Request]
    /\ pool \in Pools
    /\ requests \in 0..MaxRequests
    /\ raced \subseteq SUBSET Operation

\* The tickets of a project, deleted ones too, are numbered 1, 2, ... without
\* a gap and without a number used twice, whatever creations overlap, fail or
\* take the sequence from each other (project.service.ts:227-238).
NumbersGapless ==
    /\ Numbers = 1..sequence
    /\ \A t, u \in Made : ticket[t].number = ticket[u].number => t = u

\* "Only one active sprint allowed per project" (sprint.service.ts:101).
OnlyOneActiveSprint == Cardinality(Active) <= 1

\* Two sprints are active only after two starts overlapped
\* (sprint.service.ts:94-102).
OneActiveSprint == OnlyOneActiveSprint \/ {"startSprint"} \in raced

\* "Cannot delete an active sprint. Complete it first." (sprint.service.ts:165)
ActiveSprintStays ==
    \A s \in Sprint : sprint[s] # [status |-> "ACTIVE", deleted |-> TRUE]

\* A deleted sprint is active only after its start overlapped its removal
\* (sprint.service.ts:162-170).
DeletedNotActive == ActiveSprintStays \/ {"startSprint", "removeSprint"} \in raced

\* Nobody has a ticket who is not a member: an assignment to such a user is
\* refused (ticket.service.ts:136), and a removal unassigns the tickets of the
\* user in its own transaction (project.service.ts:201-213).
OnlyMembersAssigned == \A t \in Live : Col(t).assignee \in Members \union {None}

\* Who has a ticket is a member, unless a removal overlapped the request that
\* assigned it (ticket.service.ts:131-137, project.service.ts:201-213).
AssigneeIsMember ==
    \/ OnlyMembersAssigned
    \/ \E op \in {"createTicket", "updateTicket"} : {"removeMember", op} \in raced

\* "Cannot remove the last admin from the project" (project.service.ts:197).
AdminRemains == Admins # {}

\* A project keeps an administrator, unless two removals of members
\* overlapped (project.service.ts:191-199).
KeepsAdmin == AdminRemains \/ {"removeMember"} \in raced

\* This step closes no epic that has a child not done.
ClosesWhole ==
    \A t \in Live :
        /\ Col(t).type = "EPIC" /\ Col(t).resolution # "DONE"
        /\ Col(t)'.resolution = "DONE"
        => \A c \in Children(t)' : Col(c)'.resolution = "DONE"

\* An epic becomes done only when all its children are, unless two requests
\* that write tickets overlapped (ticket.service.ts:505-523).
EpicClosesWhole ==
    [][\/ ClosesWhole
       \/ \E o1, o2 \in {"createTicket", "updateTicket", "moveTicket"} :
              {o1, o2} \in raced']_vars

\* k completes sprint s in this step.
Completes(k, s) ==
    /\ At(k, "completeSprint", "written") /\ s = req[k].sprint
    /\ sprint'[s].status # sprint[s].status

\* A sprint that completes keeps no unresolved ticket, and the summary counts
\* those it keeps as done, unless a request on tickets overlapped
\* (sprint.service.ts:123-145).
CompletionClears ==
    [][\A k \in Client, s \in Sprint :
         Completes(k, s)
         => \/ /\ Unresolved(s)' = {}
               /\ req[k].count - Cardinality(req[k].rows) = Cardinality(InSprint(s)')
            \/ \E op \in Operation : {"completeSprint", op} \in raced']_vars

\* Every request is answered, those too that hold one connection of an
\* exhausted pool and wait for another (database.module.ts:131-136).
RequestsEnd == \A k \in Client : Pending(k) ~> ~Pending(k)

-----------------------------------------------------------------------------

Init ==
    /\ \E e \in Earlier :
         /\ member = e.member
         /\ sprint = e.sprint
         /\ ticket = e.ticket
         /\ sequence = e.sequence
    /\ pc = [k \in Client |-> "idle"]
    /\ req = [k \in Client |-> Blank("updateTicket")]
    /\ pool \in Pools
    /\ requests = 0
    /\ raced = {}
    /\ NumbersGapless /\ OneActiveSprint /\ DeletedNotActive
    /\ AssigneeIsMember /\ KeepsAdmin

Next == \E k \in Client : Starts(k) \/ Advance(k) \/ Fail(k)

Spec == Init /\ [][Next]_vars

\* The event loop sends every pending statement and the database answers it,
\* once the connection and the locks it waits for stay free.
FairSpec == Spec /\ \A k \in Client : WF_vars(Advance(k))
=============================================================================
