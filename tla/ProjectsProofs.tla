---------------------------- MODULE ProjectsProofs ----------------------------
(***************************************************************************)
(* Proofs about the requests of a project, for any number of clients, any  *)
(* rows, request bodies and connections.                                   *)
(*                                                                         *)
(* Most statements are quiet: they change no row, only what one request    *)
(* knows.  So the invariant says of each pending request, apart from the   *)
(* others, what it may rely on (Sensible): a request r that has come to w. *)
(* A quiet step has to establish that for its own request; the seven steps *)
(* that commit have to keep it for all others, or to record that they      *)
(* overlapped.                                                             *)
(***************************************************************************)
EXTENDS Projects, FiniteSetTheorems, TLAPS

Pc == {"idle", "found", "validated", "checked", "open", "keyed", "counted",
       "numbered", "placed", "inserted", "known", "moved", "written", "unique"}

HasProject == {"numbered", "placed", "inserted"}
Assigning == {"createTicket", "updateTicket"}

\* What request r asks for exists, and its rows do.
Wanted(r, w) ==
    /\ r.rows \subseteq Made
    /\ w \in HasProject => r.op = "createTicket"
    /\ w = "validated" => r.op \in {"updateTicket", "moveTicket"}
    /\ w = "written" => r.op \in {"startSprint", "completeSprint"}
    /\ w # "idle" =>
         /\ r.op = "createTicket" => r.ticket \in Ticket \ Made
         /\ r.op \in {"updateTicket", "moveTicket", "removeTicket"} => r.ticket \in Made
         /\ r.op = "moveTicket" => r.body.assignee = Same
         /\ r.op = "removeSprint" => r.sprint \in Sprint
         /\ r.op = "addMember" => r.user \in User /\ r.role \in Role
         /\ r.op = "removeMember" =>
              /\ r.user \in User
              /\ member[r.user] # "none"
              /\ member[r.user] = "ADMIN" => r.role = "ADMIN"

\* The number that r has read is at most the next one.
Numbering(r, w) ==
    r.op = "createTicket" =>
        /\ w \in HasProject \union {"counted"} => r.count \in 1..(sequence + 1)
        /\ w = "inserted" => r.count \notin Numbers

\* No sprint is active when one is about to be.
Starting(r, w) ==
    \/ {"startSprint"} \in raced
    \/ r.op = "startSprint" /\ w \in {"moved", "written"} => Active = {}

\* The sprint that r removes is not active.
Deleting(r, w) ==
    \/ {"startSprint", "removeSprint"} \in raced
    \/ r.op = "removeSprint" /\ w # "idle" => sprint[r.sprint].status # "ACTIVE"

AssigneeRaced == \E op \in Assigning : {"removeMember", op} \in raced

\* Who gets a ticket is a member, and who leaves has none but r's rows.
Assignment(r, w) ==
    \/ AssigneeRaced
    \/ /\ r.op \in Assigning /\ w \notin {"idle", "found"} =>
            r.body.assignee \in Members \union {None, Same}
       /\ r.op = "removeMember" /\ w = "moved" => Assigned(r.user) \subseteq r.rows

\* An administrator who leaves is not the last.
Leaving(r, w) ==
    \/ {"removeMember"} \in raced
    \/ r.op = "removeMember" /\ w \in {"checked", "open", "moved"}
         => Admins \ {r.user} # {}

Sensible(r, w) ==
    /\ Wanted(r, w) /\ Numbering(r, w) /\ Starting(r, w) /\ Deleting(r, w)
    /\ Assignment(r, w) /\ Leaving(r, w)

\* No other request has the lock of the project, or makes the same row.
Alone(k, r, w) ==
    /\ w \in HasProject => ProjectFree(k)
    /\ r.op = "createTicket" /\ w # "idle" =>
         \A l \in Others(k) :
            Pending(l) /\ req[l].op = "createTicket" => req[l].ticket # r.ticket

Inv ==
    /\ TypeOK /\ NumbersGapless /\ OneActiveSprint /\ DeletedNotActive
    /\ AssigneeIsMember /\ KeepsAdmin
    /\ \A k \in Client : Sensible(req[k], pc[k]) /\ Alone(k, req[k], pc[k])

-----------------------------------------------------------------------------
(* Quiet steps *)

\* Only the request of k is changed, to r at w.
Moves(k, r, w) ==
    /\ pc' = [pc EXCEPT ![k] = w]
    /\ req' = [req EXCEPT ![k] = r]
    /\ requests' \in 0..MaxRequests
    /\ UNCHANGED <<db, pool, raced>>

Quiet(k) == \E r \in Request, w \in Pc : Moves(k, r, w) /\ Sensible(r, w) /\ Alone(k, r, w)

LEMMA QuietKeeps ==
    ASSUME Inv, NEW k \in Client, Quiet(k)
    PROVE  Inv'
<1>1. PICK r \in Request, w \in Pc : Moves(k, r, w) /\ Sensible(r, w) /\ Alone(k, r, w)
  BY DEF Quiet
<1>2. TypeOK'
  BY <1>1 DEF Inv, TypeOK, Moves, Pc, db
<1>3. /\ pc'[k] = w /\ req'[k] = r
      /\ \A l \in Others(k) : pc'[l] = pc[l] /\ req'[l] = req[l]
      /\ member' = member /\ sprint' = sprint /\ ticket' = ticket
      /\ sequence' = sequence /\ raced' = raced
  BY <1>1 DEF Inv, TypeOK, Moves, Others, db
<1>4. NumbersGapless' /\ OneActiveSprint' /\ DeletedNotActive' /\ AssigneeIsMember' /\ KeepsAdmin'
  BY <1>3 DEF Inv, NumbersGapless, Numbers, Made, OneActiveSprint, OnlyOneActiveSprint, Active,
       DeletedNotActive, ActiveSprintStays,
              AssigneeIsMember, OnlyMembersAssigned, Live, Col, Members, KeepsAdmin, AdminRemains, Admins
<1>5. ASSUME NEW l \in Client
      PROVE  Sensible(req[l], pc[l])'
  <2>1. Sensible(req'[l], pc'[l])
    BY <1>1, <1>3 DEF Inv, Others
  <2>2. /\ Made' = Made /\ Numbers' = Numbers /\ Active' = Active /\ Members' = Members
        /\ Admins' = Admins /\ \A u \in User : Assigned(u)' = Assigned(u)
        /\ AssigneeRaced' = AssigneeRaced
    BY <1>3 DEF Made, Numbers, Active, Members, Admins, Assigned, Live, Col, AssigneeRaced
  <2>3. Wanted(req[l], pc[l])' /\ Numbering(req[l], pc[l])' /\ Starting(req[l], pc[l])'
    BY <2>1, <2>2, <1>3 DEF Sensible, Wanted, Numbering, Starting
  <2>4. Deleting(req[l], pc[l])' /\ Leaving(req[l], pc[l])'
    BY <2>1, <2>2, <1>3 DEF Sensible, Deleting, Leaving
  <2>5. req'[l].op = "removeMember" /\ pc'[l] = "moved" => req'[l].user \in User
    BY <2>1 DEF Sensible, Wanted
  <2>6. Assignment(req[l], pc[l])'
    BY <2>1, <2>2, <2>5, <1>3 DEF Sensible, Assignment
  <2> QED BY <2>3, <2>4, <2>6 DEF Sensible
<1>6. ASSUME NEW l \in Client
      PROVE  Alone(l, req[l], pc[l])'
  <2>1. CASE l = k
    BY <2>1, <1>1, <1>3 DEF Alone, ProjectFree, Others, Pending, HasProject
  <2>2. CASE l # k
    <3>1. Alone(l, req[l], pc[l]) /\ l \in Others(k) /\ k \in Others(l)
      BY <2>2 DEF Inv, Others
    <3>2. pc'[l] = pc[l] /\ req'[l] = req[l]
      BY <1>3, <3>1
    <3>3. pc[l] \in HasProject => ProjectFree(l)'
      BY <3>1, <1>1, <1>3 DEF Alone, ProjectFree, Others, HasProject
    <3>4. req[l].op = "createTicket" /\ pc[l] # "idle"
            => \A m \in Others(l) : Pending(m)' /\ req'[m].op = "createTicket"
                                      => req'[m].ticket # req[l].ticket
      <4>1. SUFFICES ASSUME req[l].op = "createTicket", pc[l] # "idle",
                            NEW m \in Others(l), pc'[m] # "idle",
                            req'[m].op = "createTicket"
                     PROVE  req'[m].ticket # req[l].ticket
        BY DEF Pending
      <4>2. CASE m = k
        <5>1. w # "idle" /\ req'[m] = r
          BY <4>1, <4>2, <1>3
        <5> QED BY <5>1, <4>1, <4>2, <1>1, <1>3, <3>1 DEF Alone, Pending
      <4>3. CASE m # k
        BY <4>1, <4>3, <3>1, <1>3 DEF Alone, Pending, Others
      <4> QED BY <4>2, <4>3
    <3> QED BY <3>2, <3>3, <3>4 DEF Alone, HasProject, Others
  <2> QED BY <2>1, <2>2
<1> QED BY <1>2, <1>4, <1>5, <1>6 DEF Inv

LEMMA BlankRequest ==
    ASSUME NEW op \in Operation
    PROVE  Blank(op) \in Request /\ Blank(op).op = op /\ Blank(op).rows = {}
<1>1. NoChange \in Body
  BY DEF NoChange, Body
<1> QED BY <1>1 DEF Blank, Request

LEMMA RefusedQuiet ==
    ASSUME TypeOK, NEW k \in Client, Refused(k)
    PROVE  Quiet(k)
<1>1. Blank("updateTicket") \in Request /\ "idle" \in Pc
  BY BlankRequest DEF Operation, Pc
<1>2. Moves(k, Blank("updateTicket"), "idle")
  BY DEF Refused, Ends, Moves, TypeOK
<1>3. Sensible(Blank("updateTicket"), "idle") /\ Alone(k, Blank("updateTicket"), "idle")
  BY DEF Blank, Sensible, Wanted, Numbering, Starting, Deleting, Assignment, Leaving, Alone,
         HasProject, Assigning
<1> QED BY <1>1, <1>2, <1>3 DEF Quiet

LEMMA GoesQuiet ==
    ASSUME TypeOK, NEW k \in Client, NEW r \in Request, NEW w \in Pc,
           Goes(k, r, w), Sensible(r, w), Alone(k, r, w)
    PROVE  Quiet(k)
BY DEF Quiet, Moves, Goes, TypeOK

LEMMA BeginsQuiet ==
    ASSUME TypeOK, NEW k \in Client, NEW r \in Request, NEW w \in Pc,
           Begins(k, r, w), Sensible(r, w), Alone(k, r, w)
    PROVE  Quiet(k)
<1>1. requests' \in 0..MaxRequests
  BY ProjectsAssumption DEF Begins, TypeOK
<1> QED BY <1>1 DEF Quiet, Moves, Begins

LEMMA ChecksQuiet ==
    ASSUME TypeOK, NEW k \in Client, NEW ok \in BOOLEAN, NEW w \in Pc, Checks(k, ok, w),
           ok => Sensible(req[k], w) /\ Alone(k, req[k], w)
    PROVE  Quiet(k)
<1>1. req[k] \in Request
  BY DEF TypeOK
<1> QED BY <1>1, GoesQuiet, RefusedQuiet DEF Checks

-----------------------------------------------------------------------------
(* A request is sent *)

\* A new request relies on little.
LEMMA NewSensible ==
    ASSUME NEW r \in Request, r.rows = {}, r.op \in Operation,
           NEW w \in {"found", "open"}, Wanted(r, w), Deleting(r, w),
           r.op = "removeMember" => w = "found",
           r.op \in Assigning => w = "found"
    PROVE  Sensible(r, w)
BY DEF Sensible, Numbering, Starting, Assignment, Leaving, HasProject

LEMMA StartsQuiet ==
    ASSUME Inv, NEW k \in Client, Starts(k)
    PROVE  Quiet(k)
<1>1. TypeOK /\ "found" \in Pc /\ "open" \in Pc
  BY DEF Inv, Pc
<1>2. \A op \in Operation : /\ Blank(op) \in Request
                            /\ Blank(op).op = op /\ Blank(op).rows = {}
  BY BlankRequest
<1>3. CASE createTicket(k)
  <2>1. PICK t \in Ticket \ Made, b \in Patch :
          /\ \A l \in Client : req[l].ticket # t
          /\ Begins(k, [Blank("createTicket") EXCEPT !.ticket = t, !.body = b], "found")
    BY <1>3 DEF createTicket
  <2> DEFINE q == Blank("createTicket")
             r == [q EXCEPT !.ticket = t, !.body = b]
  <2>2. r \in Request /\ r.op = "createTicket" /\ r.ticket = t /\ r.rows = {}
    <3>1. q \in Request /\ q.op = "createTicket" /\ q.rows = {}
      BY <1>2 DEF Operation
    <3>2. t \in Ticket /\ b \in Body
      BY ProjectsAssumption DEF Live, Made
    <3> HIDE DEF q
    <3> QED BY <3>1, <3>2 DEF Request
  <2>3. Wanted(r, "found") /\ Deleting(r, "found") /\ Alone(k, r, "found")
    BY <2>1, <2>2 DEF Wanted, Deleting, Alone, HasProject, Others
  <2> HIDE DEF r
  <2>4. Sensible(r, "found")
    BY <2>2, <2>3, NewSensible DEF Operation, Assigning
  <2> QED BY <1>1, <2>1, <2>2, <2>3, <2>4, BeginsQuiet DEF r
<1>4. CASE updateTicket(k)
  <2>1. PICK t \in Live, b \in Patch :
          Begins(k, [Blank("updateTicket") EXCEPT
                       !.ticket = t, !.body = b, !.epic = Col(t).type = "EPIC"], "found")
    BY <1>4 DEF updateTicket
  <2> DEFINE q == Blank("updateTicket")
             epic == Col(t).type = "EPIC"
             r == [q EXCEPT !.ticket = t, !.body = b, !.epic = epic]
  <2>5. epic \in BOOLEAN /\ b \in Body
    BY ProjectsAssumption
  <2>6. Begins(k, r, "found")
    BY <2>1
  <2> HIDE DEF epic
  <2>2. r \in Request /\ r.op = "updateTicket" /\ r.ticket = t /\ r.rows = {}
    <3>1. q \in Request /\ q.op = "updateTicket" /\ q.rows = {}
      BY <1>2 DEF Operation
    <3>2. t \in Ticket
      BY DEF Live, Made
    <3> HIDE DEF q
    <3> QED BY <3>1, <3>2, <2>5 DEF Request
  <2>3. Wanted(r, "found") /\ Deleting(r, "found") /\ Alone(k, r, "found")
    BY <2>1, <2>2 DEF Wanted, Deleting, Alone, HasProject, Live
  <2> HIDE DEF r
  <2>4. Sensible(r, "found")
    BY <2>2, <2>3, NewSensible DEF Operation, Assigning
  <2> QED BY <1>1, <2>2, <2>3, <2>4, <2>6, BeginsQuiet
<1>5. CASE moveTicket(k)
  <2>1. PICK t \in Live, to \in {"DONE", "UNRESOLVED", Same} :
          Begins(k, [Blank("moveTicket") EXCEPT
                       !.ticket = t, !.body = [NoChange EXCEPT !.resolution = to],
                       !.epic = Col(t).type = "EPIC"], "found")
    BY <1>5 DEF moveTicket
  <2> DEFINE q == Blank("moveTicket")
             b == [NoChange EXCEPT !.resolution = to]
             epic == Col(t).type = "EPIC"
             r == [q EXCEPT !.ticket = t, !.body = b, !.epic = epic]
  <2>2. b \in Body /\ b.assignee = Same
    BY DEF NoChange, Body, Resolution
  <2>7. epic \in BOOLEAN
    OBVIOUS
  <2>5. Begins(k, r, "found")
    BY <2>1
  <2> HIDE DEF b, epic
  <2>3. /\ r \in Request /\ r.op = "moveTicket" /\ r.ticket = t /\ r.rows = {}
        /\ r.body.assignee = Same
    <3>1. q \in Request /\ q.op = "moveTicket" /\ q.rows = {}
      BY <1>2 DEF Operation
    <3>2. t \in Ticket
      BY DEF Live, Made
    <3> HIDE DEF q
    <3> QED BY <3>1, <3>2, <2>2, <2>7 DEF Request
  <2>4. Wanted(r, "found") /\ Deleting(r, "found") /\ Alone(k, r, "found")
    BY <2>1, <2>3 DEF Wanted, Deleting, Alone, HasProject, Live
  <2> HIDE DEF r
  <2>6. Sensible(r, "found")
    BY <2>3, <2>4, NewSensible DEF Operation, Assigning
  <2> QED BY <1>1, <2>5, <2>3, <2>4, <2>6, BeginsQuiet
<1>6. CASE removeTicket(k)
  <2>1. PICK t \in Live : Begins(k, [Blank("removeTicket") EXCEPT !.ticket = t], "found")
    BY <1>6 DEF removeTicket
  <2> DEFINE q == Blank("removeTicket")
             r == [q EXCEPT !.ticket = t]
  <2>2. r \in Request /\ r.op = "removeTicket" /\ r.ticket = t /\ r.rows = {}
    <3>1. q \in Request /\ q.op = "removeTicket" /\ q.rows = {}
      BY <1>2 DEF Operation
    <3>2. t \in Ticket
      BY DEF Live, Made
    <3> HIDE DEF q
    <3> QED BY <3>1, <3>2 DEF Request
  <2>3. Wanted(r, "found") /\ Deleting(r, "found") /\ Alone(k, r, "found")
    BY <2>1, <2>2 DEF Wanted, Deleting, Alone, HasProject, Live
  <2> HIDE DEF r
  <2>4. Sensible(r, "found")
    BY <2>2, <2>3, NewSensible DEF Operation, Assigning
  <2> QED BY <1>1, <2>1, <2>2, <2>3, <2>4, BeginsQuiet DEF r
<1>7. CASE startSprint(k) \/ completeSprint(k)
  <2>1. PICK op \in {"startSprint", "completeSprint"}, s \in Sprint :
          Begins(k, [Blank(op) EXCEPT !.sprint = s], "open")
    BY <1>7 DEF startSprint, completeSprint
  <2> DEFINE q == Blank(op)
             r == [q EXCEPT !.sprint = s]
  <2>2. r \in Request /\ r.op = op /\ op \in Operation /\ r.rows = {}
    <3>1. q \in Request /\ q.op = op /\ q.rows = {}
      BY <1>2 DEF Operation
    <3> HIDE DEF q
    <3> QED BY <3>1 DEF Request, Operation
  <2>3. Wanted(r, "open") /\ Deleting(r, "open") /\ Alone(k, r, "open")
    BY <2>1, <2>2 DEF Wanted, Deleting, Alone, HasProject
  <2> HIDE DEF r
  <2>4. Sensible(r, "open")
    BY <2>1, <2>2, <2>3, NewSensible DEF Assigning
  <2> QED BY <1>1, <2>1, <2>2, <2>3, <2>4, BeginsQuiet DEF r
<1>8. CASE removeSprint(k)
  <2>1. PICK s \in Sprint \ Active :
          /\ ~sprint[s].deleted
          /\ Begins(k, [Blank("removeSprint") EXCEPT !.sprint = s], "found")
    BY <1>8 DEF removeSprint
  <2> DEFINE q == Blank("removeSprint")
             r == [q EXCEPT !.sprint = s]
  <2>2. r \in Request /\ r.op = "removeSprint" /\ r.sprint = s /\ r.rows = {}
    <3>1. q \in Request /\ q.op = "removeSprint" /\ q.rows = {}
      BY <1>2 DEF Operation
    <3> HIDE DEF q
    <3> QED BY <3>1 DEF Request
  <2>3. sprint[s].status # "ACTIVE"
    BY <1>1, <2>1 DEF TypeOK, Active
  <2>4. Wanted(r, "found") /\ Deleting(r, "found") /\ Alone(k, r, "found")
    BY <2>1, <2>2, <2>3 DEF Wanted, Deleting, Alone, HasProject
  <2> HIDE DEF r
  <2>5. Sensible(r, "found")
    BY <2>2, <2>4, NewSensible DEF Operation, Assigning
  <2> QED BY <1>1, <2>1, <2>2, <2>4, <2>5, BeginsQuiet DEF r
<1>9. CASE addMember(k)
  <2>1. PICK u \in User, a \in Role :
          Begins(k, [Blank("addMember") EXCEPT !.user = u, !.role = a], "open")
    BY <1>9 DEF addMember
  <2> DEFINE q == Blank("addMember")
             r == [q EXCEPT !.user = u, !.role = a]
  <2>2. r \in Request /\ r.op = "addMember" /\ r.user = u /\ r.role = a /\ r.rows = {}
    <3>1. q \in Request /\ q.op = "addMember" /\ q.rows = {}
      BY <1>2 DEF Operation
    <3> HIDE DEF q
    <3> QED BY <3>1 DEF Request
  <2>3. Wanted(r, "open") /\ Deleting(r, "open") /\ Alone(k, r, "open")
    BY <2>1, <2>2 DEF Wanted, Deleting, Alone, HasProject
  <2> HIDE DEF r
  <2>4. Sensible(r, "open")
    BY <2>2, <2>3, NewSensible DEF Operation, Assigning
  <2> QED BY <1>1, <2>1, <2>2, <2>3, <2>4, BeginsQuiet DEF r
<1>10. CASE removeMember(k)
  <2>1. PICK u \in User, a \in Role :
          /\ a = member[u]
          /\ Begins(k, [Blank("removeMember") EXCEPT !.user = u, !.role = a], "found")
    BY <1>10 DEF removeMember, Members
  <2> DEFINE q == Blank("removeMember")
             r == [q EXCEPT !.user = u, !.role = a]
  <2>2. r \in Request /\ r.op = "removeMember" /\ r.user = u /\ r.role = a /\ r.rows = {}
    <3>1. q \in Request /\ q.op = "removeMember" /\ q.rows = {}
      BY <1>2 DEF Operation
    <3> HIDE DEF q
    <3> QED BY <3>1 DEF Request
  <2>3. Wanted(r, "found") /\ Deleting(r, "found") /\ Alone(k, r, "found")
    BY <2>1, <2>2 DEF Wanted, Deleting, Alone, HasProject, Role
  <2> HIDE DEF r
  <2>4. Sensible(r, "found")
    BY <2>2, <2>3, NewSensible DEF Operation, Assigning
  <2> QED BY <1>1, <2>1, <2>2, <2>3, <2>4, BeginsQuiet DEF r
<1> QED BY <1>3, <1>4, <1>5, <1>6, <1>7, <1>8, <1>9, <1>10 DEF Starts

-----------------------------------------------------------------------------
(* A request goes on *)

\* The steps of k that commit.
Writes(k) ==
    \/ writeTicket(k) \/ deleteTicket(k) \/ commitTicket(k) \/ commitSprint(k)
    \/ deleteSprint(k) \/ insertMember(k) \/ deleteMember(k)

LEMMA TicketQuiet ==
    ASSUME Inv, NEW k \in Client,
           \/ execute(k) \/ validateAssigneeMembership(k) \/ validateEpicCanClose(k)
           \/ readProject(k) \/ readSequence(k) \/ writeSequence(k)
           \/ getMaxPositionInColumn(k) \/ insertTicket(k)
    PROVE  Quiet(k)
<1> DEFINE r == req[k]
<1> USE DEF Sensible
<1>1. /\ TypeOK /\ r \in Request /\ pc[k] \in Pc
      /\ Sensible(r, pc[k]) /\ Alone(k, r, pc[k])
  BY DEF Inv, TypeOK, Pc
<1> HIDE DEF r
<1>2. CASE execute(k)
  <2>1. Goes(k, r, "open") /\ pc[k] = "checked" /\ r.op \in {"createTicket", "removeMember"}
    BY <1>2 DEF execute, At, r
  <2>2. Sensible(r, "open") /\ Alone(k, r, "open")
    BY <2>1, <1>1 DEF Wanted, Numbering, Starting, Deleting, Assignment, Leaving, Alone,
         HasProject
  <2> QED BY <1>1, <2>1, <2>2, GoesQuiet DEF Pc
<1>3. CASE validateAssigneeMembership(k)
  <2> DEFINE ok == r.body.assignee \in Members \union {None, Same}
             w == IF r.op = "createTicket" THEN "checked" ELSE "validated"
  <2>1. /\ Checks(k, ok, w) /\ pc[k] = "found" /\ w \in Pc /\ ok \in BOOLEAN
        /\ r.op \in {"createTicket", "updateTicket", "moveTicket"}
        /\ w \in {"checked", "validated"}
    BY <1>3 DEF validateAssigneeMembership, r, Pc
  <2>2. ASSUME ok PROVE Sensible(r, w) /\ Alone(k, r, w)
    BY <2>1, <2>2, <1>1 DEF Wanted, Numbering, Starting, Deleting, Assignment, Leaving, Alone,
         HasProject
  <2> HIDE DEF ok, w
  <2> QED BY <1>1, <2>1, <2>2, ChecksQuiet DEF r
<1>4. CASE validateEpicCanClose(k)
  <2> DEFINE ok == r.epic /\ r.body.resolution = "DONE" =>
                     \A c \in Children(r.ticket) : Col(c).resolution = "DONE"
  <2>1. Checks(k, ok, "checked") /\ pc[k] = "validated" /\ ok \in BOOLEAN /\ "checked" \in Pc
    BY <1>4 DEF validateEpicCanClose, r, Pc
  <2>2. r.op # "removeMember"
    BY <2>1, <1>1 DEF Wanted
  <2>3. Sensible(r, "checked") /\ Alone(k, r, "checked")
    BY <2>1, <2>2, <1>1 DEF Wanted, Numbering, Starting, Deleting, Assignment, Leaving, Alone,
         HasProject
  <2> HIDE DEF ok
  <2> QED BY <1>1, <2>1, <2>3, ChecksQuiet DEF r
<1>5. CASE readProject(k)
  <2>1. Goes(k, r, "keyed") /\ pc[k] = "open" /\ r.op = "createTicket"
    BY <1>5 DEF readProject, At, r
  <2>2. Sensible(r, "keyed") /\ Alone(k, r, "keyed")
    BY <2>1, <1>1 DEF Wanted, Numbering, Starting, Deleting, Assignment, Leaving, Alone,
         HasProject
  <2> QED BY <1>1, <2>1, <2>2, GoesQuiet DEF Pc
<1>6. CASE readSequence(k)
  <2> DEFINE q == [r EXCEPT !.count = sequence + 1]
  <2>1. Goes(k, q, "counted") /\ pc[k] = "keyed" /\ r.op = "createTicket"
    BY <1>6 DEF readSequence, At, r
  <2>2. sequence \in Nat
    BY <1>1 DEF TypeOK
  <2>3. /\ q \in Request /\ q.op = r.op /\ q.rows = r.rows /\ q.ticket = r.ticket
        /\ q.body = r.body /\ q.count = sequence + 1
    BY <2>2, <1>1 DEF Request
  <2>4. Sensible(q, "counted") /\ Alone(k, q, "counted")
    BY <2>1, <2>2, <2>3, <1>1
       DEF Wanted, Numbering, Starting, Deleting, Assignment, Leaving, Alone, HasProject
  <2> HIDE DEF q
  <2> QED BY <1>1, <2>1, <2>3, <2>4, GoesQuiet DEF Pc
<1>7. CASE writeSequence(k)
  <2>1. Goes(k, r, "numbered") /\ pc[k] = "counted" /\ r.op = "createTicket" /\ ProjectFree(k)
    BY <1>7 DEF writeSequence, At, r
  <2>2. Sensible(r, "numbered") /\ Alone(k, r, "numbered")
    BY <2>1, <1>1 DEF Wanted, Numbering, Starting, Deleting, Assignment, Leaving, Alone,
         HasProject
  <2> QED BY <1>1, <2>1, <2>2, GoesQuiet DEF Pc
<1>8. CASE getMaxPositionInColumn(k)
  <2>1. Goes(k, r, "placed") /\ pc[k] = "numbered" /\ r.op = "createTicket"
    BY <1>8 DEF getMaxPositionInColumn, At, r
  <2>2. Sensible(r, "placed") /\ Alone(k, r, "placed")
    BY <2>1, <1>1 DEF Wanted, Numbering, Starting, Deleting, Assignment, Leaving, Alone,
         HasProject
  <2> QED BY <1>1, <2>1, <2>2, GoesQuiet DEF Pc
<1>9. CASE insertTicket(k)
  <2> DEFINE ok == r.count \notin Numbers
  <2>1. /\ Checks(k, ok, "inserted") /\ pc[k] = "placed" /\ r.op = "createTicket"
        /\ ok \in BOOLEAN /\ "inserted" \in Pc
    BY <1>9 DEF insertTicket, At, r, Pc
  <2>2. ASSUME ok PROVE Sensible(r, "inserted") /\ Alone(k, r, "inserted")
    BY <2>1, <2>2, <1>1 DEF Wanted, Numbering, Starting, Deleting, Assignment, Leaving, Alone,
         HasProject
  <2> HIDE DEF ok
  <2> QED BY <1>1, <2>1, <2>2, ChecksQuiet DEF r
<1> QED BY <1>2, <1>3, <1>4, <1>5, <1>6, <1>7, <1>8, <1>9

LEMMA SprintQuiet ==
    ASSUME Inv, NEW k \in Client,
           \/ startReads(k) \/ startCountsTickets(k) \/ startLooksForActive(k)
           \/ completeReads(k) \/ completeCounts(k) \/ completeMoves(k) \/ writeSprint(k)
    PROVE  Quiet(k)
<1> DEFINE r == req[k]
<1> USE DEF Sensible
<1>1. /\ TypeOK /\ r \in Request /\ pc[k] \in Pc
      /\ Sensible(r, pc[k]) /\ Alone(k, r, pc[k])
  BY DEF Inv, TypeOK, Pc
<1> HIDE DEF r
<1>2. ASSUME r.op \in {"startSprint", "completeSprint"}, NEW w \in {"known", "counted"}
      PROVE  Sensible(r, w) /\ Alone(k, r, w)
  BY <1>1, <1>2 DEF Wanted, Numbering, Starting, Deleting, Assignment, Leaving, Alone,
       HasProject,
                    Assigning
<1>3. CASE startReads(k)
  <2>1. /\ Checks(k, sprint[r.sprint] = [status |-> "PLANNING", deleted |-> FALSE], "known")
        /\ r.op = "startSprint"
    BY <1>3 DEF startReads, At, r
  <2> QED BY <1>1, <1>2, <2>1, ChecksQuiet DEF Pc, r
<1>4. CASE startCountsTickets(k)
  <2>1. Checks(k, InSprint(r.sprint) # {}, "counted") /\ r.op = "startSprint"
    BY <1>4 DEF startCountsTickets, At, r
  <2> QED BY <1>1, <1>2, <2>1, ChecksQuiet DEF Pc, r
<1>5. CASE startLooksForActive(k)
  <2>1. Checks(k, Active = {}, "moved") /\ r.op = "startSprint"
    BY <1>5 DEF startLooksForActive, At, r
  <2>2. ASSUME Active = {} PROVE Sensible(r, "moved") /\ Alone(k, r, "moved")
    BY <1>1, <2>1, <2>2 DEF Wanted, Numbering, Starting, Deleting, Assignment, Leaving, Alone,
       HasProject, Assigning
  <2> QED BY <1>1, <2>1, <2>2, ChecksQuiet DEF Pc, r
<1>6. CASE completeReads(k)
  <2> DEFINE ok == r.sprint \in Active
  <2>1. Checks(k, ok, "known") /\ r.op = "completeSprint" /\ ok \in BOOLEAN
    BY <1>6 DEF completeReads, At, r
  <2> HIDE DEF ok
  <2> QED BY <1>1, <1>2, <2>1, ChecksQuiet DEF Pc, r
<1>7. CASE completeCounts(k)
  <2> DEFINE n == Cardinality(InSprint(r.sprint))
             q == [r EXCEPT !.count = n]
  <2>1. Goes(k, q, "counted") /\ r.op = "completeSprint"
    BY <1>7 DEF completeCounts, At, r
  <2>2. n \in Nat
    <3>1. IsFiniteSet(InSprint(r.sprint))
      <4>1. IsFiniteSet(Ticket) /\ InSprint(r.sprint) \subseteq Ticket
        BY ProjectsAssumption DEF InSprint, Live, Made
      <4> QED BY <4>1, FS_Subset
    <3> QED BY <3>1, FS_CardinalityType
  <2> HIDE DEF n
  <2>3. q \in Request /\ q.op = r.op /\ q.rows = r.rows
    BY <2>2, <1>1 DEF Request
  <2>4. Sensible(q, "counted") /\ Alone(k, q, "counted")
    BY <1>1, <2>1, <2>3 DEF Wanted, Numbering, Starting, Deleting, Assignment, Leaving, Alone,
       HasProject, Assigning
  <2> HIDE DEF q
  <2> QED BY <1>1, <2>1, <2>3, <2>4, GoesQuiet DEF Pc
<1>8. CASE completeMoves(k)
  <2> DEFINE rows == Unresolved(r.sprint)
             q == [r EXCEPT !.rows = rows]
  <2>1. Goes(k, q, "moved") /\ r.op = "completeSprint"
    BY <1>8 DEF completeMoves, At, r
  <2>2. rows \subseteq Made /\ rows \subseteq Ticket
    BY DEF Unresolved, InSprint, Live, Made
  <2> HIDE DEF rows
  <2>3. q \in Request /\ q.op = r.op /\ q.rows = rows
    BY <2>2, <1>1 DEF Request
  <2>4. Sensible(q, "moved") /\ Alone(k, q, "moved")
    BY <1>1, <2>1, <2>2, <2>3 DEF Wanted, Numbering, Starting, Deleting, Assignment, Leaving,
       Alone, HasProject, Assigning
  <2> HIDE DEF q
  <2> QED BY <1>1, <2>1, <2>3, <2>4, GoesQuiet DEF Pc
<1>9. CASE writeSprint(k)
  <2>1. Goes(k, r, "written") /\ pc[k] = "moved" /\ r.op \in {"startSprint", "completeSprint"}
    BY <1>9 DEF writeSprint, At, r
  <2>2. Sensible(r, "written") /\ Alone(k, r, "written")
    BY <1>1, <2>1 DEF Wanted, Numbering, Starting, Deleting, Assignment, Leaving, Alone,
       HasProject, Assigning
  <2> QED BY <1>1, <2>1, <2>2, GoesQuiet DEF Pc
<1> QED BY <1>3, <1>4, <1>5, <1>6, <1>7, <1>8, <1>9

LEMMA MemberQuiet ==
    ASSUME Inv, NEW k \in Client,
           addMemberLooks(k) \/ removeMemberCountsAdmins(k) \/ unassign(k)
    PROVE  Quiet(k)
<1> DEFINE r == req[k]
<1> USE DEF Sensible
<1>1. /\ TypeOK /\ r \in Request /\ pc[k] \in Pc
      /\ Sensible(r, pc[k]) /\ Alone(k, r, pc[k])
  BY DEF Inv, TypeOK, Pc
<1> HIDE DEF r
<1>2. CASE addMemberLooks(k)
  <2>1. Checks(k, r.user \notin Members, "unique") /\ pc[k] = "open" /\ r.op = "addMember"
    BY <1>2 DEF addMemberLooks, At, r
  <2>2. Sensible(r, "unique") /\ Alone(k, r, "unique")
    BY <1>1, <2>1 DEF Wanted, Numbering, Starting, Deleting, Assignment, Leaving, Alone,
       HasProject, Assigning
  <2> QED BY <1>1, <2>1, <2>2, ChecksQuiet DEF Pc, r
<1>3. CASE removeMemberCountsAdmins(k)
  <2> DEFINE ok == r.role = "ADMIN" => Cardinality(Admins) > 1
  <2>1. Checks(k, ok, "checked") /\ pc[k] = "found" /\ r.op = "removeMember" /\ ok \in BOOLEAN
    BY <1>3 DEF removeMemberCountsAdmins, At, r
  <2>2. ASSUME ok, {"removeMember"} \notin raced PROVE Admins \ {r.user} # {}
    <3>1. Admins # {}
      BY <2>2 DEF Inv, KeepsAdmin, AdminRemains
    <3>2. CASE r.user \in Admins
      <4>1. r.role = "ADMIN"
        BY <3>2, <2>1, <1>1 DEF Wanted, Admins
      <4>2. Cardinality(Admins) > 1
        BY <4>1, <2>2
      <4>3. Cardinality({r.user}) = 1
        BY FS_Singleton
      <4> QED BY <3>2, <4>2, <4>3
    <3>3. CASE r.user \notin Admins
      BY <3>1, <3>3
    <3> QED BY <3>2, <3>3
  <2>3. ASSUME ok PROVE Sensible(r, "checked") /\ Alone(k, r, "checked")
    <3>1. Leaving(r, "checked")
      BY <2>2, <2>3 DEF Leaving
    <3> QED
      BY <1>1, <2>1, <3>1 DEF Wanted, Numbering, Starting, Deleting, Assignment, Alone,
         HasProject, Assigning
  <2> HIDE DEF ok
  <2> QED BY <1>1, <2>1, <2>3, ChecksQuiet DEF Pc, r
<1>4. CASE unassign(k)
  <2> DEFINE rows == Assigned(r.user)
             q == [r EXCEPT !.rows = rows]
  <2>1. Goes(k, q, "moved") /\ pc[k] = "open" /\ r.op = "removeMember"
    BY <1>4 DEF unassign, At, r
  <2>2. rows \subseteq Made /\ rows \subseteq Ticket
    BY DEF Assigned, Live, Made
  <2>3. q \in Request /\ q.op = r.op /\ q.rows = rows /\ q.user = r.user /\ q.role = r.role
    <3> HIDE DEF rows
    <3> QED BY <2>2, <1>1 DEF Request
  <2> HIDE DEF q
  <2>4. Sensible(q, "moved") /\ Alone(k, q, "moved")
    BY <1>1, <2>1, <2>2, <2>3 DEF Wanted, Numbering, Starting, Deleting, Assignment, Leaving,
       Alone, HasProject, Assigning
  <2> QED BY <1>1, <2>1, <2>3, <2>4, GoesQuiet DEF Pc
<1> QED BY <1>2, <1>3, <1>4

-----------------------------------------------------------------------------
(* What a request commits, and what the others keep *)

LEMMA CommitFrame ==
    ASSUME TypeOK, NEW k \in Client, Commits(k)
    PROVE  /\ pc' \in [Client -> Pc] /\ req' \in [Client -> Request]
           /\ requests' \in 0..MaxRequests /\ pool' \in Pools
           /\ raced' \subseteq SUBSET Operation
           /\ raced \subseteq raced'
           /\ pc'[k] = "idle" /\ req'[k] = Blank("updateTicket")
           /\ \A l \in Others(k) :
                /\ pc'[l] = pc[l] /\ req'[l] = req[l]
                /\ pc[l] # "idle" => {req[k].op, req[l].op} \in raced'
<1>1. Blank("updateTicket") \in Request
  BY BlankRequest DEF Operation
<1>2. \A l \in Client : req[l].op \in Operation
  BY DEF TypeOK, Request
<1> QED BY <1>1, <1>2 DEF TypeOK, Commits, Ends, Pc, Others, Pending

LEMMA CommitKeeps ==
    ASSUME Inv, NEW k \in Client, Commits(k),
           <<member', sprint', ticket', sequence'>>
             \in [User -> Role \union {"none", "removed"}]
                   \X [Sprint -> [status: SprintStatus, deleted: BOOLEAN]]
                   \X [Ticket -> Row \union {None}] \X Nat,
           NumbersGapless', OneActiveSprint', DeletedNotActive', AssigneeIsMember', KeepsAdmin',
           \A l \in Others(k) : Sensible(req[l], pc[l])'
    PROVE  Inv'
<1>1. TypeOK /\ \A l \in Client : Alone(l, req[l], pc[l])
  BY DEF Inv
<1>2. TypeOK'
  BY <1>1, CommitFrame DEF TypeOK, Pc
<1>3. pc'[k] = "idle" /\ req'[k] = Blank("updateTicket")
  BY <1>1, CommitFrame
<1>4. \A l \in Others(k) : pc'[l] = pc[l] /\ req'[l] = req[l]
  BY <1>1, CommitFrame
<1>5. Sensible(req[k], pc[k])'
  BY <1>3 DEF Blank, Sensible, Wanted, Numbering, Starting, Deleting, Assignment, Leaving,
              HasProject, Assigning
<1>6. ASSUME NEW l \in Client PROVE Alone(l, req[l], pc[l])'
  BY <1>1, <1>3, <1>4 DEF Alone, ProjectFree, Others, Pending, HasProject
<1> QED BY <1>2, <1>5, <1>6 DEF Inv, Others

LEMMA SprintsKept ==
    ASSUME Inv, NEW k \in Client, Commits(k), sprint' = sprint
    PROVE  /\ OneActiveSprint' /\ DeletedNotActive'
           /\ \A l \in Others(k) : Starting(req[l], pc[l])' /\ Deleting(req[l], pc[l])'
<1>1. /\ raced \subseteq raced' /\ Active' = Active
      /\ \A l \in Others(k) : pc'[l] = pc[l] /\ req'[l] = req[l]
  BY CommitFrame DEF Inv, Active
<1>2. \A l \in Others(k) : Starting(req[l], pc[l]) /\ Deleting(req[l], pc[l])
  BY DEF Inv, Sensible, Others
<1> QED BY <1>1, <1>2 DEF Inv, OneActiveSprint, OnlyOneActiveSprint, DeletedNotActive,
     ActiveSprintStays, Starting, Deleting

LEMMA MembersKept ==
    ASSUME Inv, NEW k \in Client, Commits(k), member' = member
    PROVE  /\ KeepsAdmin'
           /\ \A l \in Others(k) : Leaving(req[l], pc[l])'
<1>1. /\ raced \subseteq raced' /\ Admins' = Admins
      /\ \A l \in Others(k) : pc'[l] = pc[l] /\ req'[l] = req[l]
  BY CommitFrame DEF Inv, Admins
<1>2. \A l \in Others(k) : Leaving(req[l], pc[l])
  BY DEF Inv, Sensible, Others
<1> QED BY <1>1, <1>2 DEF Inv, KeepsAdmin, AdminRemains, Leaving

\* Rows of tickets are changed, but neither made nor numbered anew.
Rewritten ==
    /\ sequence' = sequence
    /\ ticket' \in [Ticket -> Row \union {None}]
    /\ \A t \in Ticket : /\ ticket'[t] = None <=> ticket[t] = None
                         /\ ticket[t] # None => ticket'[t].number = ticket[t].number

LEMMA NumbersKept ==
    ASSUME Inv, NEW k \in Client, Commits(k), Rewritten
    PROVE  /\ NumbersGapless' /\ Made' = Made
           /\ \A l \in Others(k) : Numbering(req[l], pc[l])'
<1>1. Made' = Made /\ Numbers' = Numbers
  BY DEF Rewritten, Made, Numbers
<1>2. \A l \in Others(k) : pc'[l] = pc[l] /\ req'[l] = req[l]
  BY CommitFrame DEF Inv
<1>3. \A l \in Others(k) : Numbering(req[l], pc[l])
  BY DEF Inv, Sensible, Others
<1>4. NumbersGapless'
  BY <1>1 DEF Inv, NumbersGapless, Rewritten, Made
<1> QED BY <1>1, <1>2, <1>3, <1>4 DEF Numbering, Rewritten

LEMMA WantedKept ==
    ASSUME Inv, NEW k \in Client, Commits(k), Made' = Made, member' = member
    PROVE  \A l \in Others(k) : Wanted(req[l], pc[l])'
<1>1. \A l \in Others(k) : pc'[l] = pc[l] /\ req'[l] = req[l]
  BY CommitFrame DEF Inv
<1>2. \A l \in Others(k) : Wanted(req[l], pc[l])
  BY DEF Inv, Sensible, Others
<1> QED BY <1>1, <1>2 DEF Wanted

\* Nobody gets a ticket.
LEMMA AssigneesKept ==
    ASSUME Inv, NEW k \in Client, Commits(k), member' = member,
           \A t \in Ticket : t \in Live' => t \in Live /\ Col(t)'.assignee = Col(t).assignee
    PROVE  /\ AssigneeIsMember'
           /\ \A l \in Others(k) : Assignment(req[l], pc[l])'
<1>1. /\ raced \subseteq raced' /\ Members' = Members
      /\ \A l \in Others(k) : pc'[l] = pc[l] /\ req'[l] = req[l]
  BY CommitFrame DEF Inv, Members
<1>2. \A l \in Others(k) : Assignment(req[l], pc[l])
  BY DEF Inv, Sensible, Others
<1>3. \A u : Assigned(u)' \subseteq Assigned(u)
  BY DEF Assigned, Live, Made
<1>4. AssigneeRaced => AssigneeRaced'
  BY <1>1 DEF AssigneeRaced
<1>5. AssigneeIsMember'
  BY <1>1 DEF Inv, AssigneeIsMember, OnlyMembersAssigned, Live, Made
<1>6. ASSUME NEW l \in Others(k) PROVE Assignment(req[l], pc[l])'
  <2>1. CASE AssigneeRaced
    BY <2>1, <1>4 DEF Assignment
  <2>2. CASE ~AssigneeRaced
    <3>1. Assigned(req[l].user)' \subseteq Assigned(req[l].user)
      BY <1>1, <1>3 DEF Assigned
    <3> QED BY <3>1, <2>2, <1>1, <1>2 DEF Assignment
  <2> QED BY <2>1, <2>2
<1> QED BY <1>5, <1>6

LEMMA Typed ==
    ASSUME Inv
    PROVE  /\ member \in [User -> Role \union {"none", "removed"}]
           /\ sprint \in [Sprint -> [status: SprintStatus, deleted: BOOLEAN]]
           /\ ticket \in [Ticket -> Row \union {None}] /\ sequence \in Nat
           /\ \A t \in Made : t \in Ticket /\ ticket[t] \in Row
           /\ \A k \in Client : /\ req[k] \in Request
                                /\ Sensible(req[k], pc[k]) /\ Alone(k, req[k], pc[k])
BY DEF Inv, TypeOK, Made

\* k gives tickets to the one it validated.
LEMMA AssigneeGiven ==
    ASSUME Inv, NEW k \in Client, Commits(k), member' = member,
           req[k].op \in Assigning, pc[k] \notin {"idle", "found"},
           NEW a, a = req[k].body.assignee,
           \A t \in Ticket : t \in Live' =>
               \/ t \in Live /\ Col(t)'.assignee = Col(t).assignee
               \/ Col(t)'.assignee \in {None, a} \ {Same}
    PROVE  /\ AssigneeIsMember'
           /\ \A l \in Others(k) : Assignment(req[l], pc[l])'
<1>1. /\ raced \subseteq raced' /\ Members' = Members
      /\ \A l \in Others(k) : pc'[l] = pc[l] /\ req'[l] = req[l]
                              /\ (pc[l] # "idle" => {req[k].op, req[l].op} \in raced')
  BY CommitFrame DEF Inv, Members
<1>2. CASE AssigneeRaced'
  BY <1>2 DEF AssigneeIsMember, OnlyMembersAssigned, Assignment, AssigneeRaced, Assigning
<1>3. CASE ~AssigneeRaced'
  <2>1. ~AssigneeRaced /\ \A l \in Others(k) : ~(pc[l] # "idle" /\ req[l].op = "removeMember")
    BY <1>1, <1>3 DEF AssigneeRaced
  <2>2. a \in Members \union {None, Same}
    BY <2>1, Typed DEF Sensible, Assignment
  <2>3. \A t \in Live : Col(t).assignee \in Members \union {None}
    BY <2>1 DEF Inv, AssigneeIsMember, OnlyMembersAssigned, AssigneeRaced, Assigning
  <2>4. AssigneeIsMember'
    BY <1>1, <2>2, <2>3 DEF AssigneeIsMember, OnlyMembersAssigned, Live, Made
  <2>5. ASSUME NEW l \in Others(k) PROVE Assignment(req[l], pc[l])'
    <3>1. Assignment(req[l], pc[l])
      BY Typed DEF Sensible, Others
    <3> QED BY <1>1, <2>1, <3>1 DEF Assignment
  <2> QED BY <2>4, <2>5
<1> QED BY <1>2, <1>3

-----------------------------------------------------------------------------
(* The steps that commit *)

LEMMA PatchedColumns ==
    ASSUME NEW c \in Columns, NEW b \in Body
    PROVE  /\ Patched(c, b) \in Columns
           /\ Patched(c, b).assignee = IF b.assignee = Same THEN c.assignee ELSE b.assignee
BY DEF Patched, Columns, Body

LEMMA writeTicketKeeps ==
    ASSUME Inv, NEW k \in Client, writeTicket(k)
    PROVE  Inv'
<1>0. PICK t \in Made, b \in Body : t = req[k].ticket /\ b = req[k].body
  BY Typed DEF writeTicket, At, Sensible, Wanted, Request
<1>1. /\ Commits(k) /\ pc[k] = "checked" /\ req[k].op \in {"updateTicket", "moveTicket"}
      /\ UNCHANGED <<member, sprint, sequence>>
      /\ ticket' = [ticket EXCEPT ![t].columns = IF t \in Live THEN Patched(@, b) ELSE @]
  BY <1>0 DEF writeTicket, At
<1>2. t \in Made /\ t \in Ticket /\ ticket[t] \in Row /\ b \in Body
  BY <1>0, Typed
<1>3. Patched(ticket[t].columns, b) \in Columns
  BY <1>2, PatchedColumns DEF Row
<1>4. /\ ticket' \in [Ticket -> Row \union {None}]
      /\ \A u \in Ticket \ {t} : ticket'[u] = ticket[u]
      /\ ticket'[t].number = ticket[t].number /\ ticket'[t].deleted = ticket[t].deleted
      /\ ticket'[t].columns = IF t \in Live THEN Patched(ticket[t].columns, b)
                                            ELSE ticket[t].columns
      /\ ticket'[t] \in Row
  BY <1>1, <1>2, <1>3, Typed DEF Row
<1>5. Rewritten
  <2>1. None \notin Row
    BY ProjectsAssumption
  <2> QED BY <1>1, <1>2, <1>4, <2>1 DEF Rewritten, Made
<1>6. Made' = Made /\ NumbersGapless' /\ \A l \in Others(k) : Numbering(req[l], pc[l])'
  BY <1>1, <1>5, NumbersKept
<1>7. \A l \in Others(k) : Wanted(req[l], pc[l])'
  BY <1>1, <1>6, WantedKept
<1>8. /\ OneActiveSprint' /\ DeletedNotActive' /\ KeepsAdmin'
      /\ \A l \in Others(k) : Starting(req[l], pc[l])' /\ Deleting(req[l], pc[l])'
                              /\ Leaving(req[l], pc[l])'
  BY <1>1, SprintsKept, MembersKept
<1>9. Live' = Live
  BY <1>2, <1>4, <1>6 DEF Live, Made
<1>10. AssigneeIsMember' /\ \A l \in Others(k) : Assignment(req[l], pc[l])'
  <2>1. Col(t)'.assignee
          = IF t \in Live /\ b.assignee # Same THEN b.assignee ELSE Col(t).assignee
    BY <1>2, <1>4, PatchedColumns DEF Row, Col
  <2>2. \A u \in Ticket \ {t} : Col(u)' = Col(u)
    BY <1>4 DEF Col
  <2>3. CASE req[k].op = "moveTicket"
    <3>1. b.assignee = Same
      BY <1>0, <1>1, <2>3, Typed DEF Sensible, Wanted
    <3> QED BY <1>1, <1>9, <2>1, <2>2, <3>1, AssigneesKept
  <2>4. CASE req[k].op = "updateTicket"
    <3>1. \A u \in Ticket : u \in Live' =>
             \/ u \in Live /\ Col(u)'.assignee = Col(u).assignee
             \/ Col(u)'.assignee \in {None, b.assignee} \ {Same}
      BY <1>9, <2>1, <2>2
    <3> QED BY <1>0, <1>1, <2>4, <3>1, AssigneeGiven DEF Assigning
  <2> QED BY <1>1, <2>3, <2>4
<1> QED
  <2>1. \A l \in Others(k) : Sensible(req[l], pc[l])'
    BY <1>6, <1>7, <1>8, <1>10 DEF Sensible
  <2>2. ticket' \in [Ticket -> Row \union {None}]
    BY <1>4
  <2> QED BY <1>1, <1>6, <1>8, <1>10, <2>1, <2>2, CommitKeeps, Typed

LEMMA deleteTicketKeeps ==
    ASSUME Inv, NEW k \in Client, deleteTicket(k)
    PROVE  Inv'
<1>0. PICK t \in Made : t = req[k].ticket
  BY Typed DEF deleteTicket, At, Sensible, Wanted
<1>1. /\ Commits(k) /\ pc[k] = "found" /\ req[k].op = "removeTicket"
      /\ UNCHANGED <<member, sprint, sequence>>
      /\ ticket' = [ticket EXCEPT ![t].deleted = TRUE]
  BY <1>0 DEF deleteTicket, At
<1>2. t \in Made /\ t \in Ticket /\ ticket[t] \in Row
  BY <1>0, Typed
<1>3. /\ ticket' \in [Ticket -> Row \union {None}]
      /\ \A u \in Ticket \ {t} : ticket'[u] = ticket[u]
      /\ ticket'[t].number = ticket[t].number /\ ticket'[t].deleted
      /\ ticket'[t] \in Row
  BY <1>1, <1>2, Typed DEF Row
<1>4. Rewritten
  <2>1. None \notin Row
    BY ProjectsAssumption
  <2> QED BY <1>1, <1>2, <1>3, <2>1 DEF Rewritten, Made
<1>5. Made' = Made /\ NumbersGapless' /\ \A l \in Others(k) : Numbering(req[l], pc[l])'
  BY <1>1, <1>4, NumbersKept
<1>6. \A l \in Others(k) : Wanted(req[l], pc[l])'
  BY <1>1, <1>5, WantedKept
<1>7. /\ OneActiveSprint' /\ DeletedNotActive' /\ KeepsAdmin'
      /\ \A l \in Others(k) : Starting(req[l], pc[l])' /\ Deleting(req[l], pc[l])'
                              /\ Leaving(req[l], pc[l])'
  BY <1>1, SprintsKept, MembersKept
<1>8. AssigneeIsMember' /\ \A l \in Others(k) : Assignment(req[l], pc[l])'
  <2>1. \A u \in Ticket : u \in Live' => u \in Live /\ Col(u)'.assignee = Col(u).assignee
    BY <1>2, <1>3, <1>5 DEF Live, Col
  <2> QED BY <1>1, <2>1, AssigneesKept
<1> QED
  <2>1. \A l \in Others(k) : Sensible(req[l], pc[l])'
    BY <1>5, <1>6, <1>7, <1>8 DEF Sensible
  <2> QED BY <1>1, <1>3, <1>5, <1>7, <1>8, <2>1, CommitKeeps, Typed

LEMMA commitTicketKeeps ==
    ASSUME Inv, NEW k \in Client, commitTicket(k)
    PROVE  Inv'
<1>0. PICK t \in Ticket \ Made, b \in Body, n \in Nat :
        t = req[k].ticket /\ b = req[k].body /\ n = req[k].count
  BY Typed DEF commitTicket, At, Sensible, Wanted, Request
<1>1. /\ Commits(k) /\ pc[k] = "inserted" /\ req[k].op = "createTicket"
      /\ UNCHANGED <<member, sprint>> /\ sequence' = n
      /\ ticket' = [ticket EXCEPT ![t] = [number |-> n, deleted |-> FALSE,
                                          columns |-> Patched(NewColumns, b)]]
  BY <1>0 DEF commitTicket, At
<1>2. n = sequence + 1
  <2>1. n \in 1..(sequence + 1) /\ n \notin Numbers /\ Numbers = 1..sequence
    BY <1>0, <1>1, Typed DEF Sensible, Numbering, HasProject, Inv, NumbersGapless
  <2> QED BY <2>1, Typed
<1>3. /\ Patched(NewColumns, b) \in Columns
      /\ Patched(NewColumns, b).assignee = IF b.assignee = Same THEN None ELSE b.assignee
  <2>1. NewColumns \in Columns /\ NewColumns.assignee = None
    BY DEF NewColumns, Columns, TicketType, Resolution
  <2> HIDE DEF NewColumns
  <2> QED BY <2>1, PatchedColumns
<1>4. /\ ticket' \in [Ticket -> Row \union {None}]
      /\ \A u \in Ticket \ {t} : ticket'[u] = ticket[u]
      /\ ticket'[t] \in Row /\ ticket'[t].number = n
      /\ ticket'[t].columns = Patched(NewColumns, b)
  <2> DEFINE row == [number |-> n, deleted |-> FALSE, columns |-> Patched(NewColumns, b)]
  <2>1. row \in Row /\ row.number = n /\ row.columns = Patched(NewColumns, b)
    BY <1>2, <1>3, Typed DEF Row
  <2> HIDE DEF row
  <2>2. ticket' = [ticket EXCEPT ![t] = row]
    BY <1>1 DEF row
  <2> QED BY <2>1, <2>2, Typed
<1>5. Made' = Made \union {t} /\ Numbers' = Numbers \union {n}
  <2>1. None \notin Row
    BY ProjectsAssumption
  <2>2. Made' = Made \union {t}
    BY <1>4, <2>1 DEF Made
  <2>3. \A u \in Made : ticket'[u] = ticket[u]
    BY <1>0, <1>4, Typed
  <2> QED BY <1>4, <2>2, <2>3 DEF Numbers
<1>6. NumbersGapless'
  <2>1. Numbers' = 1..sequence'
    BY <1>1, <1>2, <1>5, Typed DEF Inv, NumbersGapless
  <2>2. \A u \in Made : ticket[u].number \in 1..sequence /\ ticket'[u] = ticket[u]
    BY <1>0, <1>4, Typed DEF Inv, NumbersGapless, Numbers
  <2>3. n \notin 1..sequence
    BY <1>2, Typed
  <2>4. \A u, v \in Made' : ticket'[u].number = ticket'[v].number => u = v
    BY <1>4, <1>5, <2>2, <2>3 DEF Inv, NumbersGapless
  <2> QED BY <2>1, <2>4 DEF NumbersGapless
<1>7. \A l \in Others(k) : pc'[l] = pc[l] /\ req'[l] = req[l]
  BY <1>1, CommitFrame DEF Inv
<1>8. ASSUME NEW l \in Others(k) PROVE Wanted(req[l], pc[l])' /\ Numbering(req[l], pc[l])'
  <2>1. /\ Wanted(req[l], pc[l]) /\ Numbering(req[l], pc[l]) /\ Alone(l, req[l], pc[l])
        /\ l \in Client /\ k \in Others(l)
    BY Typed DEF Sensible, Others
  <2>2. pc[l] \notin HasProject
    BY <1>1, Typed DEF Alone, ProjectFree, HasProject
  <2>3. pc[l] # "idle" /\ req[l].op = "createTicket" => req[l].ticket # t
    BY <1>0, <1>1, <2>1 DEF Alone, Pending
  <2>4. Wanted(req[l], pc[l])'
    BY <1>1, <1>5, <1>7, <2>1, <2>3 DEF Wanted
  <2>5. Numbering(req[l], pc[l])'
    BY <1>1, <1>2, <1>7, <2>1, <2>2, Typed DEF Numbering, HasProject
  <2> QED BY <2>4, <2>5
<1>9. /\ OneActiveSprint' /\ DeletedNotActive' /\ KeepsAdmin'
      /\ \A l \in Others(k) : Starting(req[l], pc[l])' /\ Deleting(req[l], pc[l])'
                              /\ Leaving(req[l], pc[l])'
  BY <1>1, SprintsKept, MembersKept
<1>10. AssigneeIsMember' /\ \A l \in Others(k) : Assignment(req[l], pc[l])'
  <2>1. \A u \in Ticket \ {t} : u \in Live' => u \in Live /\ Col(u)'.assignee = Col(u).assignee
    BY <1>4, <1>5 DEF Live, Col
  <2>2. Col(t)'.assignee \in {None, b.assignee} \ {Same}
    BY <1>3, <1>4, ProjectsAssumption DEF Col
  <2> QED BY <1>0, <1>1, <2>1, <2>2, AssigneeGiven DEF Assigning
<1> QED
  <2>1. \A l \in Others(k) : Sensible(req[l], pc[l])'
    BY <1>8, <1>9, <1>10 DEF Sensible
  <2> QED BY <1>1, <1>4, <1>6, <1>9, <1>10, <2>1, CommitKeeps, Typed

LEMMA commitSprintKeeps ==
    ASSUME Inv, NEW k \in Client, commitSprint(k)
    PROVE  Inv'
<1>0. PICK s, S, op : s = req[k].sprint /\ S = req[k].rows /\ op = req[k].op
  OBVIOUS
<1>1. /\ Commits(k) /\ pc[k] = "written" /\ op \in {"startSprint", "completeSprint"}
      /\ S \subseteq Made /\ UNCHANGED <<member, sequence>>
      /\ sprint' = [sprint EXCEPT ![s].status =
                      IF sprint[s].deleted THEN @
                      ELSE IF op = "startSprint" THEN "ACTIVE" ELSE "COMPLETED"]
      /\ ticket' = [t \in Ticket |->
                      IF t \in S THEN [ticket[t] EXCEPT !.columns = [@ EXCEPT !.sprint = None]]
                                 ELSE ticket[t]]
  BY <1>0, Typed DEF commitSprint, Sensible, Wanted
<1>2. \A t \in S : /\ ticket'[t] \in Row /\ ticket'[t].number = ticket[t].number
                   /\ ticket'[t].deleted = ticket[t].deleted
                   /\ ticket'[t].columns.assignee = ticket[t].columns.assignee
  <2> SUFFICES ASSUME NEW t \in S
               PROVE  /\ ticket'[t] \in Row /\ ticket'[t].number = ticket[t].number
                      /\ ticket'[t].deleted = ticket[t].deleted
                      /\ ticket'[t].columns.assignee = ticket[t].columns.assignee
    OBVIOUS
  <2>1. t \in Ticket /\ ticket[t] \in Row
    BY <1>1, Typed DEF Made
  <2>2. ticket'[t] = [ticket[t] EXCEPT !.columns = [@ EXCEPT !.sprint = None]]
    BY <1>1, <2>1
  <2> QED BY <2>1, <2>2 DEF Row, Columns
<1>3. /\ ticket' \in [Ticket -> Row \union {None}]
      /\ \A t \in Ticket \ S : ticket'[t] = ticket[t]
  BY <1>1, <1>2, Typed
<1>4. Rewritten
  <2>1. None \notin Row
    BY ProjectsAssumption
  <2> QED BY <1>1, <1>2, <1>3, <2>1 DEF Rewritten, Made
<1>5. Made' = Made /\ NumbersGapless' /\ \A l \in Others(k) : Numbering(req[l], pc[l])'
  BY <1>1, <1>4, NumbersKept
<1>6. \A l \in Others(k) : Wanted(req[l], pc[l])'
  BY <1>1, <1>5, WantedKept
<1>7. AssigneeIsMember' /\ \A l \in Others(k) : Assignment(req[l], pc[l])'
  <2>1. \A t \in Ticket : t \in Live' => t \in Live /\ Col(t)'.assignee = Col(t).assignee
    BY <1>2, <1>3, <1>5 DEF Live, Col
  <2> QED BY <1>1, <2>1, AssigneesKept
<1>8. KeepsAdmin' /\ \A l \in Others(k) : Leaving(req[l], pc[l])'
  BY <1>1, MembersKept
<1>9. /\ sprint' \in [Sprint -> [status: SprintStatus, deleted: BOOLEAN]]
      /\ \A u \in Sprint \ {s} : sprint'[u] = sprint[u]
      /\ s \in Sprint => /\ sprint'[s].deleted = sprint[s].deleted
                         /\ sprint'[s].status = IF sprint[s].deleted THEN sprint[s].status
                              ELSE IF op = "startSprint" THEN "ACTIVE" ELSE "COMPLETED"
  BY <1>1, Typed DEF SprintStatus
<1>10. /\ raced \subseteq raced'
       /\ \A l \in Others(k) : /\ pc'[l] = pc[l] /\ req'[l] = req[l]
                               /\ pc[l] # "idle" => {op, req[l].op} \in raced'
                               /\ Starting(req[l], pc[l]) /\ Deleting(req[l], pc[l])
  BY <1>0, <1>1, CommitFrame, Typed DEF Inv, Sensible, Others
<1>11. OneActiveSprint' /\ \A l \in Others(k) : Starting(req[l], pc[l])'
  <2>1. CASE {"startSprint"} \in raced'
    BY <2>1 DEF OneActiveSprint, OnlyOneActiveSprint, Starting
  <2>2. CASE {"startSprint"} \notin raced' /\ op = "startSprint"
    <3>1. Active = {}
      BY <1>0, <1>1, <1>10, <2>2, Typed DEF Sensible, Starting
    <3>2. Active' \subseteq {s}
      BY <1>9, <3>1, Typed DEF Active
    <3>3. Cardinality(Active') <= 1
      <4>1. IsFiniteSet({s}) /\ Cardinality({s}) = 1
        BY FS_Singleton
      <4>2. IsFiniteSet(Active') /\ Cardinality(Active') <= Cardinality({s})
        BY <3>2, <4>1, FS_Subset
      <4> QED BY <4>1, <4>2
    <3>4. \A l \in Others(k) : ~(pc[l] # "idle" /\ req[l].op = "startSprint")
      BY <1>10, <2>2
    <3> QED BY <1>10, <3>3, <3>4 DEF OneActiveSprint, OnlyOneActiveSprint, Starting
  <2>3. CASE {"startSprint"} \notin raced' /\ op = "completeSprint"
    <3>1. Active' \subseteq Active
      BY <1>9, <2>3, Typed DEF Active
    <3>2. Cardinality(Active') <= 1
      <4>1. IsFiniteSet(Active) /\ Cardinality(Active) \in Nat
        BY ProjectsAssumption, FS_Subset, FS_CardinalityType DEF Active
      <4>2. IsFiniteSet(Active') /\ Cardinality(Active') <= Cardinality(Active)
        BY <3>1, <4>1, FS_Subset
      <4>3. Cardinality(Active') \in Nat /\ Cardinality(Active) <= 1
        BY <1>10, <2>3, <4>2, FS_CardinalityType DEF Inv, OneActiveSprint, OnlyOneActiveSprint
      <4> QED BY <4>1, <4>2, <4>3
    <3> QED BY <1>10, <2>3, <3>1, <3>2 DEF OneActiveSprint, OnlyOneActiveSprint, Starting
  <2> QED BY <1>1, <2>1, <2>2, <2>3
<1>12. DeletedNotActive' /\ \A l \in Others(k) : Deleting(req[l], pc[l])'
  <2>1. CASE {"startSprint", "removeSprint"} \in raced'
    BY <2>1 DEF DeletedNotActive, ActiveSprintStays, Deleting
  <2>2. CASE {"startSprint", "removeSprint"} \notin raced'
    <3>1. \A u \in Sprint : sprint[u] # [status |-> "ACTIVE", deleted |-> TRUE]
      BY <1>10, <2>2 DEF Inv, DeletedNotActive, ActiveSprintStays
    <3>2. DeletedNotActive'
      BY <1>9, <3>1, Typed DEF DeletedNotActive, ActiveSprintStays
    <3>3. ASSUME NEW l \in Others(k), pc[l] # "idle", req[l].op = "removeSprint"
          PROVE  sprint'[req[l].sprint].status # "ACTIVE"
      <4>1. op = "completeSprint" /\ sprint[req[l].sprint].status # "ACTIVE"
        BY <1>1, <1>10, <2>2, <3>3 DEF Deleting
      <4>2. req[l].sprint \in Sprint
        BY <3>3, Typed DEF Sensible, Wanted, Others
      <4> QED BY <1>9, <4>1, <4>2
    <3> QED BY <1>10, <3>2, <3>3 DEF Deleting
  <2> QED BY <2>1, <2>2
<1> QED
  <2>1. \A l \in Others(k) : Sensible(req[l], pc[l])'
    BY <1>5, <1>6, <1>7, <1>8, <1>11, <1>12 DEF Sensible
  <2> QED BY <1>1, <1>3, <1>5, <1>7, <1>8, <1>9, <1>11, <1>12, <2>1, CommitKeeps, Typed

LEMMA deleteSprintKeeps ==
    ASSUME Inv, NEW k \in Client, deleteSprint(k)
    PROVE  Inv'
<1>0. PICK s \in Sprint : s = req[k].sprint
  BY Typed DEF deleteSprint, At, Sensible, Wanted
<1>1. /\ Commits(k) /\ pc[k] = "found" /\ req[k].op = "removeSprint"
      /\ UNCHANGED <<member, ticket, sequence>>
      /\ sprint' = [sprint EXCEPT ![s].deleted = TRUE]
  BY <1>0 DEF deleteSprint, At
<1>2. Rewritten
  BY <1>1, Typed DEF Rewritten
<1>3. Made' = Made /\ NumbersGapless' /\ \A l \in Others(k) : Numbering(req[l], pc[l])'
  BY <1>1, <1>2, NumbersKept
<1>4. \A l \in Others(k) : Wanted(req[l], pc[l])'
  BY <1>1, <1>3, WantedKept
<1>5. AssigneeIsMember' /\ \A l \in Others(k) : Assignment(req[l], pc[l])'
  <2>1. \A t \in Ticket : t \in Live' => t \in Live /\ Col(t)'.assignee = Col(t).assignee
    BY <1>1, <1>3 DEF Live, Col
  <2> QED BY <1>1, <2>1, AssigneesKept
<1>6. KeepsAdmin' /\ \A l \in Others(k) : Leaving(req[l], pc[l])'
  BY <1>1, MembersKept
<1>7. /\ sprint' \in [Sprint -> [status: SprintStatus, deleted: BOOLEAN]]
      /\ \A u \in Sprint \ {s} : sprint'[u] = sprint[u]
      /\ sprint'[s].deleted /\ sprint'[s].status = sprint[s].status
  BY <1>1, Typed
<1>8. /\ raced \subseteq raced'
      /\ \A l \in Others(k) : /\ pc'[l] = pc[l] /\ req'[l] = req[l]
                              /\ Starting(req[l], pc[l]) /\ Deleting(req[l], pc[l])
  BY <1>1, CommitFrame, Typed DEF Inv, Sensible, Others
<1>9. OneActiveSprint' /\ \A l \in Others(k) : Starting(req[l], pc[l])'
  <2>1. Active' \subseteq Active
    BY <1>7, Typed DEF Active
  <2>2. IsFiniteSet(Active) /\ Cardinality(Active) \in Nat
    BY ProjectsAssumption, FS_Subset, FS_CardinalityType DEF Active
  <2>3. IsFiniteSet(Active') /\ Cardinality(Active') <= Cardinality(Active)
    BY <2>1, <2>2, FS_Subset
  <2>4. Cardinality(Active') \in Nat
    BY <2>3, FS_CardinalityType
  <2> QED BY <1>8, <2>1, <2>2, <2>3, <2>4 DEF Inv, OneActiveSprint, OnlyOneActiveSprint,
       Starting
<1>10. DeletedNotActive' /\ \A l \in Others(k) : Deleting(req[l], pc[l])'
  <2>1. CASE {"startSprint", "removeSprint"} \in raced'
    BY <2>1 DEF DeletedNotActive, ActiveSprintStays, Deleting
  <2>2. CASE {"startSprint", "removeSprint"} \notin raced'
    <3>1. /\ \A u \in Sprint : sprint[u] # [status |-> "ACTIVE", deleted |-> TRUE]
          /\ sprint[s].status # "ACTIVE"
      BY <1>0, <1>1, <1>8, <2>2, Typed DEF Inv, DeletedNotActive, ActiveSprintStays, Sensible,
           Deleting
    <3>2. DeletedNotActive'
      <4>1. sprint'[s] # [status |-> "ACTIVE", deleted |-> TRUE]
        BY <1>7, <3>1
      <4> QED BY <1>7, <3>1, <4>1 DEF DeletedNotActive, ActiveSprintStays
    <3>3. ASSUME NEW l \in Others(k), pc[l] # "idle", req[l].op = "removeSprint"
          PROVE  sprint'[req[l].sprint].status # "ACTIVE"
      <4>1. sprint[req[l].sprint].status # "ACTIVE"
        BY <1>8, <2>2, <3>3 DEF Deleting
      <4>2. req[l].sprint \in Sprint
        BY <3>3, Typed DEF Sensible, Wanted, Others
      <4> QED BY <1>7, <4>1, <4>2
    <3> QED BY <1>8, <3>2, <3>3 DEF Deleting
  <2> QED BY <2>1, <2>2
<1> QED
  <2>1. \A l \in Others(k) : Sensible(req[l], pc[l])'
    BY <1>3, <1>4, <1>5, <1>6, <1>9, <1>10 DEF Sensible
  <2> QED BY <1>1, <1>3, <1>5, <1>6, <1>7, <1>9, <1>10, <2>1, CommitKeeps, Typed

LEMMA insertMemberKeeps ==
    ASSUME Inv, NEW k \in Client, insertMember(k)
    PROVE  Inv'
<1>1. CASE Refused(k)
  BY <1>1, RefusedQuiet, QuietKeeps DEF Inv
<1>2. CASE ~Refused(k)
  <2>0. PICK u \in User, a \in Role : u = req[k].user /\ a = req[k].role
    BY Typed DEF insertMember, At, Sensible, Wanted
  <2>1. /\ Commits(k) /\ req[k].op = "addMember" /\ member[u] = "none"
        /\ member' = [member EXCEPT ![u] = a]
        /\ UNCHANGED <<sprint, ticket, sequence>>
    BY <1>2, <2>0 DEF insertMember, At
  <2>2. /\ member' \in [User -> Role \union {"none", "removed"}] /\ member'[u] = a
        /\ \A v \in User \ {u} : member'[v] = member[v]
    BY <2>1, Typed
  <2>3. Rewritten
    BY <2>1, Typed DEF Rewritten
  <2>4. Made' = Made /\ NumbersGapless' /\ \A l \in Others(k) : Numbering(req[l], pc[l])'
    BY <2>1, <2>3, NumbersKept
  <2>5. /\ OneActiveSprint' /\ DeletedNotActive'
        /\ \A l \in Others(k) : Starting(req[l], pc[l])' /\ Deleting(req[l], pc[l])'
    BY <2>1, SprintsKept
  <2>6. Admins \subseteq Admins' /\ Members \subseteq Members'
    BY <2>1, <2>2 DEF Admins, Members, Role
  <2>7. raced \subseteq raced' /\ \A l \in Others(k) : pc'[l] = pc[l] /\ req'[l] = req[l]
    BY <2>1, CommitFrame DEF Inv
  <2>8. KeepsAdmin'
    BY <2>6, <2>7 DEF Inv, KeepsAdmin, AdminRemains
  <2>9. AssigneeIsMember'
    <3>1. Live' = Live /\ \A t : Col(t)' = Col(t)
      BY <2>1 DEF Live, Made, Col
    <3>2. CASE AssigneeRaced
      BY <2>7, <3>2 DEF AssigneeRaced, Assigning, AssigneeIsMember, OnlyMembersAssigned
    <3>3. CASE ~AssigneeRaced
      <4>1. \A t \in Live : Col(t).assignee \in Members \union {None}
        BY <3>3 DEF Inv, AssigneeIsMember, OnlyMembersAssigned, AssigneeRaced, Assigning
      <4> QED BY <2>1, <2>6, <4>1 DEF AssigneeIsMember, OnlyMembersAssigned, Live, Made, Col
    <3> QED BY <3>2, <3>3
  <2>10. ASSUME NEW l \in Others(k) PROVE Sensible(req[l], pc[l])'
    <3>1. /\ Wanted(req[l], pc[l]) /\ Assignment(req[l], pc[l]) /\ Leaving(req[l], pc[l])
      BY Typed DEF Sensible, Others
    <3>2. Wanted(req[l], pc[l])'
      BY <2>1, <2>2, <2>4, <2>7, <3>1 DEF Wanted, Role
    <3>3. Leaving(req[l], pc[l])'
      BY <2>6, <2>7, <3>1 DEF Leaving
    <3>4. Assigned(req[l].user)' = Assigned(req'[l].user)
      BY <2>1 DEF Assigned, Live, Made, Col
    <3>5. Assignment(req[l], pc[l])'
      BY <2>6, <2>7, <3>1, <3>4 DEF Assignment, AssigneeRaced
    <3> QED BY <2>4, <2>5, <3>2, <3>3, <3>5 DEF Sensible
  <2> QED BY <2>1, <2>2, <2>4, <2>5, <2>8, <2>9, <2>10, CommitKeeps, Typed
<1> QED BY <1>1, <1>2

LEMMA deleteMemberKeeps ==
    ASSUME Inv, NEW k \in Client, deleteMember(k)
    PROVE  Inv'
<1>0. PICK u \in User, S \in SUBSET Ticket : u = req[k].user /\ S = req[k].rows
  BY Typed DEF deleteMember, At, Sensible, Wanted, Request
<1>1. /\ Commits(k) /\ pc[k] = "moved" /\ req[k].op = "removeMember"
      /\ S \subseteq Made /\ UNCHANGED <<sprint, sequence>>
      /\ member' = [member EXCEPT ![u] = "removed"]
      /\ ticket' = [t \in Ticket |->
                      IF t \in S THEN [ticket[t] EXCEPT !.columns = [@ EXCEPT !.assignee = None]]
                                 ELSE ticket[t]]
  BY <1>0, Typed DEF deleteMember, At, Sensible, Wanted
<1>2. \A t \in S : /\ ticket'[t] \in Row /\ ticket'[t].number = ticket[t].number
                   /\ ticket'[t].deleted = ticket[t].deleted
                   /\ ticket'[t].columns.assignee = None
  <2> SUFFICES ASSUME NEW t \in S
               PROVE  /\ ticket'[t] \in Row /\ ticket'[t].number = ticket[t].number
                      /\ ticket'[t].deleted = ticket[t].deleted
                      /\ ticket'[t].columns.assignee = None
    OBVIOUS
  <2>1. t \in Ticket /\ ticket[t] \in Row
    BY <1>1, Typed
  <2>2. ticket'[t] = [ticket[t] EXCEPT !.columns = [@ EXCEPT !.assignee = None]]
    BY <1>1, <2>1
  <2> QED BY <2>1, <2>2 DEF Row, Columns
<1>3. /\ ticket' \in [Ticket -> Row \union {None}]
      /\ \A t \in Ticket \ S : ticket'[t] = ticket[t]
  BY <1>1, <1>2, Typed
<1>4. Rewritten
  <2>1. None \notin Row
    BY ProjectsAssumption
  <2> QED BY <1>1, <1>2, <1>3, <2>1 DEF Rewritten, Made
<1>5. Made' = Made /\ NumbersGapless' /\ \A l \in Others(k) : Numbering(req[l], pc[l])'
  BY <1>1, <1>4, NumbersKept
<1>6. /\ OneActiveSprint' /\ DeletedNotActive'
      /\ \A l \in Others(k) : Starting(req[l], pc[l])' /\ Deleting(req[l], pc[l])'
  BY <1>1, SprintsKept
<1>7. /\ member' \in [User -> Role \union {"none", "removed"}] /\ member'[u] = "removed"
      /\ \A v \in User \ {u} : member'[v] = member[v]
  BY <1>1, Typed
<1>8. /\ raced \subseteq raced'
      /\ \A l \in Others(k) : /\ pc'[l] = pc[l] /\ req'[l] = req[l]
                              /\ pc[l] # "idle" => {"removeMember", req[l].op} \in raced'
  BY <1>1, CommitFrame DEF Inv
<1>9. Live' = Live
  BY <1>1, <1>2, <1>3, <1>5 DEF Live, Made
<1>10. KeepsAdmin'
  <2>1. CASE {"removeMember"} \in raced'
    BY <2>1 DEF KeepsAdmin, AdminRemains
  <2>2. CASE {"removeMember"} \notin raced'
    <3>1. Admins \ {u} # {}
      BY <1>0, <1>1, <1>8, <2>2, Typed DEF Sensible, Leaving
    <3>2. Admins \ {u} \subseteq Admins'
      BY <1>7 DEF Admins
    <3> QED BY <3>1, <3>2 DEF KeepsAdmin, AdminRemains
  <2> QED BY <2>1, <2>2
<1>11. AssigneeIsMember'
  <2>1. CASE AssigneeRaced
    BY <1>8, <2>1 DEF AssigneeRaced, Assigning, AssigneeIsMember, OnlyMembersAssigned
  <2>2. CASE ~AssigneeRaced
    <3>1. \A t \in Live : Col(t).assignee \in Members \union {None}
      BY <2>2 DEF Inv, AssigneeIsMember, OnlyMembersAssigned, AssigneeRaced, Assigning
    <3>2. Assigned(u) \subseteq S
      BY <1>0, <1>1, <2>2, Typed DEF Sensible, Assignment
    <3>3. \A t \in Live : t \notin S => Col(t).assignee \in (Members \ {u}) \union {None}
      BY <3>1, <3>2 DEF Assigned
    <3>4. Members \ {u} \subseteq Members'
      BY <1>7 DEF Members
    <3>5. \A t \in Live : ticket'[t].columns.assignee \in Members' \union {None}
      BY <1>2, <1>3, <3>3, <3>4 DEF Col, Live, Made
    <3> QED BY <1>9, <3>5 DEF AssigneeIsMember, OnlyMembersAssigned, Col
  <2> QED BY <2>1, <2>2
<1>12. ASSUME NEW l \in Others(k) PROVE Sensible(req[l], pc[l])'
  <2>1. /\ Wanted(req[l], pc[l]) /\ Assignment(req[l], pc[l]) /\ Leaving(req[l], pc[l])
    BY Typed DEF Sensible, Others
  <2>2. Wanted(req[l], pc[l])'
    BY <1>1, <1>5, <1>7, <1>8, <2>1 DEF Wanted
  <2>3. Leaving(req[l], pc[l])'
    BY <1>8 DEF Leaving
  <2>4. Assignment(req[l], pc[l])'
    <3>1. CASE AssigneeRaced'
      BY <3>1 DEF Assignment
    <3>2. CASE ~AssigneeRaced'
      <4>1. pc[l] # "idle" => req[l].op \notin Assigning
        BY <1>8, <3>2 DEF AssigneeRaced
      <4>2. ~AssigneeRaced
        BY <1>8, <3>2 DEF AssigneeRaced
      <4>3. \A v : v \in Live' /\ Col(v)'.assignee = req[l].user /\ req[l].user \in User
                   => v \in Live /\ Col(v).assignee = req[l].user
        BY <1>2, <1>3, <1>9, ProjectsAssumption DEF Col, Live, Made
      <4>4. req[l].op = "removeMember" /\ pc[l] = "moved" =>
              Assigned(req[l].user) \subseteq req[l].rows /\ req[l].user \in User
        BY <2>1, <4>2 DEF Assignment, Wanted
      <4>5. req[l].op = "removeMember" /\ pc[l] = "moved" =>
              Assigned(req[l].user)' \subseteq req'[l].rows
        BY <1>8, <4>3, <4>4 DEF Assigned
      <4> QED BY <1>8, <4>1, <4>5 DEF Assignment
    <3> QED BY <3>1, <3>2
  <2> QED BY <1>5, <1>6, <2>2, <2>3, <2>4 DEF Sensible
<1> QED BY <1>1, <1>3, <1>5, <1>6, <1>7, <1>10, <1>11, <1>12, CommitKeeps, Typed

-----------------------------------------------------------------------------
(* The invariant *)

LEMMA InitInv == Init => Inv
<1> SUFFICES ASSUME Init PROVE Inv
  OBVIOUS
<1>1. TypeOK
  <2>1. Blank("updateTicket") \in Request
    BY BlankRequest DEF Operation
  <2>2. \A e \in Earlier : e \in Project
    BY ProjectsAssumption
  <2>3. 0 \in 0..MaxRequests
    BY ProjectsAssumption
  <2> QED BY <2>1, <2>2, <2>3 DEF Init, TypeOK, Project
<1>2. \A k \in Client : pc[k] = "idle" /\ req[k] = Blank("updateTicket")
  BY DEF Init
<1>3. \A k \in Client : Sensible(req[k], pc[k]) /\ Alone(k, req[k], pc[k])
  BY <1>2 DEF Blank, Sensible, Wanted, Numbering, Starting, Deleting, Assignment, Leaving,
       Alone,
              HasProject, Assigning
<1> QED BY <1>1, <1>3 DEF Init, Inv

LEMMA NextInv == Inv /\ [Next]_vars => Inv'
<1> SUFFICES ASSUME Inv, [Next]_vars PROVE Inv'
  OBVIOUS
<1>1. CASE UNCHANGED vars
  <2>1. /\ Made' = Made /\ Numbers' = Numbers /\ Active' = Active /\ Members' = Members
        /\ Admins' = Admins /\ Live' = Live /\ AssigneeRaced' = AssigneeRaced
        /\ pc' = pc /\ req' = req /\ raced' = raced /\ member' = member /\ sprint' = sprint
        /\ ticket' = ticket /\ sequence' = sequence
    BY <1>1 DEF vars, db, Made, Numbers, Active, Members, Admins, Live, AssigneeRaced
  <2>2. TypeOK'
    BY <1>1 DEF vars, db, Inv, TypeOK
  <2>3. NumbersGapless' /\ OneActiveSprint' /\ DeletedNotActive' /\ AssigneeIsMember' /\ KeepsAdmin'
    BY <2>1 DEF Inv, NumbersGapless, OneActiveSprint, OnlyOneActiveSprint, DeletedNotActive,
         ActiveSprintStays, AssigneeIsMember, OnlyMembersAssigned, Col,
                KeepsAdmin, AdminRemains
  <2>4. ASSUME NEW k \in Client PROVE Sensible(req[k], pc[k])' /\ Alone(k, req[k], pc[k])'
    <3>1. Sensible(req[k], pc[k]) /\ Alone(k, req[k], pc[k])
      BY Typed
    <3>2. Wanted(req[k], pc[k])' /\ Numbering(req[k], pc[k])' /\ Starting(req[k], pc[k])'
          /\ Deleting(req[k], pc[k])' /\ Leaving(req[k], pc[k])'
      BY <2>1, <3>1 DEF Sensible, Wanted, Numbering, Starting, Deleting, Leaving
    <3>3. Assignment(req[k], pc[k])'
      BY <2>1, <3>1 DEF Sensible, Assignment, Assigned, Col
    <3>4. Alone(k, req[k], pc[k])'
      BY <2>1, <3>1 DEF Alone, ProjectFree, Pending
    <3> QED BY <3>2, <3>3, <3>4 DEF Sensible
  <2> QED BY <2>2, <2>3, <2>4 DEF Inv
<1>2. CASE Next
  <2>1. PICK k \in Client : Starts(k) \/ Advance(k) \/ Fail(k)
    BY <1>2 DEF Next
  <2>2. CASE Starts(k)
    BY <2>2, StartsQuiet, QuietKeeps
  <2>3. CASE Fail(k) \/ AcquireTimeout(k)
    BY <2>3, RefusedQuiet, QuietKeeps DEF Fail, AcquireTimeout, Inv
  <2>4. CASE Advance(k) /\ ~AcquireTimeout(k)
    <3>1. \/ Quiet(k)
          \/ writeTicket(k) \/ deleteTicket(k) \/ commitTicket(k) \/ commitSprint(k)
          \/ deleteSprint(k) \/ insertMember(k) \/ deleteMember(k)
      BY <2>4, TicketQuiet, SprintQuiet, MemberQuiet DEF Advance
    <3> QED BY <3>1, QuietKeeps, writeTicketKeeps, deleteTicketKeeps, commitTicketKeeps,
              commitSprintKeeps, deleteSprintKeeps, insertMemberKeeps, deleteMemberKeeps
  <2> QED BY <2>1, <2>2, <2>3, <2>4
<1> QED BY <1>1, <1>2

LEMMA Invariant == Spec => []Inv
BY InitInv, NextInv, PTL DEF Spec

\* The variables keep their types (the columns of ticket.entity.ts,
\* sprint.entity.ts and project-member.entity.ts).
THEOREM TypeCorrect == Spec => []TypeOK
<1>1. Inv => TypeOK
  BY DEF Inv
<1> QED BY <1>1, Invariant, PTL

\* Tickets are numbered without gaps and without doubles, although a creation
\* may write a sequence that it read before another one (project.service.ts:227-238):
\* the lock of the project and the unique index together make it fail.
THEOREM NumbersAreGapless == Spec => []NumbersGapless
<1>1. Inv => NumbersGapless
  BY DEF Inv
<1> QED BY <1>1, Invariant, PTL

\* One sprint at most is active, until two starts overlap (sprint.service.ts:94-102).
THEOREM SprintActiveOnce == Spec => []OneActiveSprint
<1>1. Inv => OneActiveSprint
  BY DEF Inv
<1> QED BY <1>1, Invariant, PTL

\* No deleted sprint is active, until a start overlaps a removal (sprint.service.ts:162-170).
THEOREM DeletedStaysInactive == Spec => []DeletedNotActive
<1>1. Inv => DeletedNotActive
  BY DEF Inv
<1> QED BY <1>1, Invariant, PTL

\* Tickets belong to members, until the removal of a member overlaps a request
\* that assigns (project.service.ts:201-213).
THEOREM AssigneesAreMembers == Spec => []AssigneeIsMember
<1>1. Inv => AssigneeIsMember
  BY DEF Inv
<1> QED BY <1>1, Invariant, PTL

\* A project keeps an administrator, until two removals overlap (project.service.ts:191-199).
THEOREM AdminKept == Spec => []KeepsAdmin
<1>1. Inv => KeepsAdmin
  BY DEF Inv
<1> QED BY <1>1, Invariant, PTL

-----------------------------------------------------------------------------
(* What a request has read and still counts on *)

Ticketing == {"createTicket", "updateTicket", "moveTicket"}
TicketsRaced == \E o1, o2 \in Ticketing : {o1, o2} \in raced
CompletionRaced == \E op \in Operation : {"completeSprint", op} \in raced

\* An epic is known as one, and its children are done once that has been checked.
Closing(r, w) ==
    \/ TicketsRaced
    \/ r.op \in {"updateTicket", "moveTicket"} /\ w # "idle" =>
         /\ r.ticket \in Live /\ Col(r.ticket).type = "EPIC" => r.epic
         /\ w = "checked" /\ r.epic /\ r.body.resolution = "DONE" =>
              \A c \in Children(r.ticket) : Col(c).resolution = "DONE"

\* The count and the rows of a completion are those of its sprint.
Completing(r, w) ==
    \/ CompletionRaced
    \/ r.op = "completeSprint" =>
         /\ w \in {"counted", "moved", "written"} =>
              r.count = Cardinality(InSprint(r.sprint))
         /\ w \in {"moved", "written"} => r.rows = Unresolved(r.sprint)

ReadsHold == \A k \in Client : Closing(req[k], pc[k]) /\ Completing(req[k], pc[k])

LEMMA QuietHolds ==
    ASSUME Inv, ReadsHold, NEW k \in Client, NEW r, NEW w, Moves(k, r, w),
           Closing(r, w), Completing(r, w)
    PROVE  ReadsHold'
<1>1. /\ pc'[k] = w /\ req'[k] = r
      /\ \A l \in Others(k) : pc'[l] = pc[l] /\ req'[l] = req[l]
      /\ ticket' = ticket /\ raced' = raced
  BY DEF Inv, TypeOK, Moves, Others, db
<1>2. ASSUME NEW l \in Client PROVE Closing(req[l], pc[l])' /\ Completing(req[l], pc[l])'
  <2>1. Closing(req'[l], pc'[l]) /\ Completing(req'[l], pc'[l])
    BY <1>1 DEF ReadsHold, Others
  <2> DEFINE q == req'[l]
             v == pc'[l]
  <2> HIDE DEF q, v
  <2>2. /\ Live' = Live /\ \A t : Col(t)' = Col(t)
        /\ TicketsRaced' = TicketsRaced /\ CompletionRaced' = CompletionRaced
    BY <1>1 DEF Live, Made, Col, TicketsRaced, CompletionRaced
  <2>3. /\ Children(req[l].ticket)' = Children(q.ticket)
        /\ InSprint(req[l].sprint)' = InSprint(q.sprint)
        /\ Unresolved(req[l].sprint)' = Unresolved(q.sprint)
    BY <2>2, <1>1 DEF Children, InSprint, Unresolved, q, Col, Live
  <2>4. Closing(q, v) /\ Completing(q, v) /\ q = req'[l] /\ v = pc'[l]
    BY <2>1 DEF q, v
  <2>5. Closing(req[l], pc[l])'
    BY <1>1, <2>2, <2>3, <2>4 DEF Closing, Col
  <2>6. Completing(req[l], pc[l])'
    BY <2>2, <2>3, <2>4 DEF Completing
  <2> QED BY <2>5, <2>6
<1> QED BY <1>2 DEF ReadsHold

\* Other requests count on nothing that they have read.
LEMMA Indifferent ==
    ASSUME NEW r, NEW w, r.op \notin {"updateTicket", "moveTicket", "completeSprint"}
    PROVE  Closing(r, w) /\ Completing(r, w)
BY DEF Closing, Completing

LEMMA RefusedHolds ==
    ASSUME Inv, ReadsHold, NEW k \in Client, Refused(k)
    PROVE  ReadsHold'
<1>1. Moves(k, Blank("updateTicket"), "idle")
  BY DEF Inv, TypeOK, Refused, Ends, Moves
<1>2. Closing(Blank("updateTicket"), "idle") /\ Completing(Blank("updateTicket"), "idle")
  BY DEF Closing, Completing, Blank
<1> QED BY <1>1, <1>2, QuietHolds

LEMMA GoesHolds ==
    ASSUME Inv, ReadsHold, NEW k \in Client, NEW r, NEW w, Goes(k, r, w),
           Closing(r, w), Completing(r, w)
    PROVE  ReadsHold'
<1>1. Moves(k, r, w)
  BY DEF Inv, TypeOK, Goes, Moves
<1> QED BY <1>1, QuietHolds

LEMMA BeginsHolds ==
    ASSUME Inv, ReadsHold, NEW k \in Client, NEW r, NEW w, Begins(k, r, w),
           Closing(r, w), Completing(r, w)
    PROVE  ReadsHold'
<1>1. Moves(k, r, w)
  BY ProjectsAssumption DEF Inv, TypeOK, Begins, Moves
<1> QED BY <1>1, QuietHolds

LEMMA ChecksHolds ==
    ASSUME Inv, ReadsHold, NEW k \in Client, NEW ok \in BOOLEAN, NEW w, Checks(k, ok, w),
           ok => Closing(req[k], w) /\ Completing(req[k], w)
    PROVE  ReadsHold'
BY GoesHolds, RefusedHolds DEF Checks

LEMMA StartsHolds ==
    ASSUME Inv, ReadsHold, NEW k \in Client, Starts(k)
    PROVE  ReadsHold'
<1>1. \A op \in Operation : Blank(op) \in Request /\ Blank(op).op = op
  BY BlankRequest
<1>2. ASSUME NEW t, NEW b, NEW op \in {"updateTicket", "moveTicket"}, NEW epic,
             epic = (Col(t).type = "EPIC"),
             Begins(k, [Blank(op) EXCEPT !.ticket = t, !.body = b, !.epic = epic], "found")
      PROVE  ReadsHold'
  <2> DEFINE q == Blank(op)
             r == [q EXCEPT !.ticket = t, !.body = b, !.epic = epic]
  <2>1. r.op = op /\ r.ticket = t /\ r.epic = epic
    <3>1. q \in Request /\ q.op = op
      BY <1>1 DEF Operation
    <3> HIDE DEF q
    <3> QED BY <3>1 DEF Request
  <2>2. Begins(k, r, "found")
    BY <1>2
  <2> HIDE DEF r
  <2>3. Closing(r, "found") /\ Completing(r, "found")
    BY <1>2, <2>1 DEF Closing, Completing
  <2> QED BY <2>2, <2>3, BeginsHolds
<1>3. ASSUME NEW r, r.op \notin {"updateTicket", "moveTicket", "completeSprint"}, NEW w,
             Begins(k, r, w)
      PROVE  ReadsHold'
  BY <1>3, Indifferent, BeginsHolds
<1>4. CASE createTicket(k)
  <2>1. PICK t \in Ticket \ Made, b \in Patch :
          Begins(k, [Blank("createTicket") EXCEPT !.ticket = t, !.body = b], "found")
    BY <1>4 DEF createTicket
  <2> DEFINE q == Blank("createTicket")
             r == [q EXCEPT !.ticket = t, !.body = b]
  <2>2. q \in Request /\ q.op = "createTicket"
    BY <1>1 DEF Operation
  <2>3. Begins(k, r, "found")
    BY <2>1
  <2> HIDE DEF q
  <2>4. r.op = "createTicket"
    BY <2>2 DEF Request
  <2> HIDE DEF r
  <2> QED BY <1>3, <2>3, <2>4
<1>5. CASE updateTicket(k)
  BY <1>2, <1>5 DEF updateTicket
<1>6. CASE moveTicket(k)
  BY <1>2, <1>6 DEF moveTicket
<1>7. CASE removeTicket(k)
  <2>1. PICK t \in Live : Begins(k, [Blank("removeTicket") EXCEPT !.ticket = t], "found")
    BY <1>7 DEF removeTicket
  <2> DEFINE q == Blank("removeTicket")
             r == [q EXCEPT !.ticket = t]
  <2>2. q \in Request /\ q.op = "removeTicket"
    BY <1>1 DEF Operation
  <2>3. Begins(k, r, "found")
    BY <2>1
  <2> HIDE DEF q
  <2>4. r.op = "removeTicket"
    BY <2>2 DEF Request
  <2> HIDE DEF r
  <2> QED BY <1>3, <2>3, <2>4
<1>8. CASE startSprint(k) \/ removeSprint(k) \/ completeSprint(k)
  <2>1. PICK op \in {"startSprint", "removeSprint", "completeSprint"}, s \in Sprint,
             w \in {"open", "found"} :
          /\ Begins(k, [Blank(op) EXCEPT !.sprint = s], w)
          /\ op = "completeSprint" => w = "open"
    BY <1>8 DEF startSprint, removeSprint, completeSprint
  <2> DEFINE q == Blank(op)
             r == [q EXCEPT !.sprint = s]
  <2>2. q \in Request /\ q.op = op
    BY <1>1 DEF Operation
  <2>3. Begins(k, r, w)
    BY <2>1
  <2> HIDE DEF q
  <2>4. r.op = op
    BY <2>2 DEF Request
  <2> HIDE DEF r
  <2>5. Closing(r, w) /\ Completing(r, w)
    BY <2>1, <2>4 DEF Closing, Completing
  <2> QED BY <2>3, <2>5, BeginsHolds
<1>9. CASE addMember(k) \/ removeMember(k)
  <2>1. PICK op \in {"addMember", "removeMember"}, u \in User, a \in Role,
             w \in {"open", "found"} :
          Begins(k, [Blank(op) EXCEPT !.user = u, !.role = a], w)
    BY <1>9 DEF addMember, removeMember, Members
  <2> DEFINE q == Blank(op)
             r == [q EXCEPT !.user = u, !.role = a]
  <2>2. q \in Request /\ q.op = op
    BY <1>1 DEF Operation
  <2>3. Begins(k, r, w)
    BY <2>1
  <2> HIDE DEF q
  <2>4. r.op = op
    BY <2>2 DEF Request
  <2> HIDE DEF r
  <2> QED BY <1>3, <2>3, <2>4
<1> QED BY <1>4, <1>5, <1>6, <1>7, <1>8, <1>9 DEF Starts

LEMMA ReadsHolds ==
    ASSUME Inv, ReadsHold, NEW k \in Client,
           \/ execute(k) \/ validateAssigneeMembership(k) \/ validateEpicCanClose(k)
           \/ readProject(k) \/ readSequence(k) \/ writeSequence(k)
           \/ getMaxPositionInColumn(k) \/ insertTicket(k)
           \/ startReads(k) \/ startCountsTickets(k) \/ startLooksForActive(k)
           \/ completeReads(k) \/ completeCounts(k) \/ completeMoves(k) \/ writeSprint(k)
           \/ addMemberLooks(k) \/ removeMemberCountsAdmins(k) \/ unassign(k)
    PROVE  ReadsHold'
<1> DEFINE r == req[k]
<1>1. r \in Request /\ Closing(r, pc[k]) /\ Completing(r, pc[k]) /\ Wanted(r, pc[k])
  BY Typed DEF ReadsHold, Sensible
<1> HIDE DEF r
<1>2. ASSUME r.op \notin {"updateTicket", "moveTicket", "completeSprint"}, NEW w,
             \/ Goes(k, r, w)
             \/ \E ok \in BOOLEAN : Checks(k, ok, w)
      PROVE  ReadsHold'
  <2>1. Closing(r, w) /\ Completing(r, w)
    BY <1>2, Indifferent
  <2> QED BY <1>2, <2>1, GoesHolds, ChecksHolds DEF r
<1>3. CASE execute(k)
  BY <1>2, <1>3 DEF execute, At, r
<1>4. CASE validateAssigneeMembership(k)
  <2> DEFINE ok == r.body.assignee \in Members \union {None, Same}
             w == IF r.op = "createTicket" THEN "checked" ELSE "validated"
  <2>1. /\ Checks(k, ok, w) /\ pc[k] = "found" /\ ok \in BOOLEAN
        /\ r.op \in {"createTicket", "updateTicket", "moveTicket"}
    BY <1>4 DEF validateAssigneeMembership, r
  <2>2. Closing(r, w) /\ Completing(r, w)
    BY <1>1, <2>1 DEF Closing, Completing
  <2> HIDE DEF ok, w
  <2> QED BY <2>1, <2>2, ChecksHolds DEF r
<1>5. CASE validateEpicCanClose(k)
  <2> DEFINE ok == r.epic /\ r.body.resolution = "DONE" =>
                     \A c \in Children(r.ticket) : Col(c).resolution = "DONE"
  <2>1. Checks(k, ok, "checked") /\ pc[k] = "validated" /\ ok \in BOOLEAN
    BY <1>5 DEF validateEpicCanClose, r
  <2>2. r.op \in {"updateTicket", "moveTicket"}
    BY <1>1, <2>1 DEF Wanted
  <2>3. ok => Closing(r, "checked") /\ Completing(r, "checked")
    BY <1>1, <2>1, <2>2 DEF Closing, Completing
  <2> HIDE DEF ok
  <2> QED BY <2>1, <2>3, ChecksHolds DEF r
<1>6. CASE readProject(k) \/ writeSequence(k) \/ getMaxPositionInColumn(k)
  BY <1>2, <1>6 DEF readProject, writeSequence, getMaxPositionInColumn, At, r
<1>7. CASE readSequence(k)
  <2> DEFINE q == [r EXCEPT !.count = sequence + 1]
  <2>1. Goes(k, q, "counted") /\ r.op = "createTicket"
    BY <1>7 DEF readSequence, At, r
  <2>2. q.op = r.op
    BY <1>1 DEF Request
  <2> HIDE DEF q
  <2> QED BY <2>1, <2>2, Indifferent, GoesHolds
<1>8. CASE insertTicket(k)
  <2>1. r.op = "createTicket" /\ Checks(k, r.count \notin Numbers, "inserted")
    BY <1>8 DEF insertTicket, At, r
  <2> QED BY <1>2, <2>1
<1>9. CASE startReads(k)
  <2>1. r.op = "startSprint" /\
        Checks(k, sprint[r.sprint] = [status |-> "PLANNING", deleted |-> FALSE], "known")
    BY <1>9 DEF startReads, At, r
  <2> QED BY <1>2, <2>1
<1>10. CASE startCountsTickets(k)
  <2>1. r.op = "startSprint" /\ Checks(k, InSprint(r.sprint) # {}, "counted")
    BY <1>10 DEF startCountsTickets, At, r
  <2> QED BY <1>2, <2>1
<1>11. CASE startLooksForActive(k)
  <2>1. r.op = "startSprint" /\ Checks(k, Active = {}, "moved")
    BY <1>11 DEF startLooksForActive, At, r
  <2> QED BY <1>2, <2>1
<1>12. CASE completeReads(k)
  <2> DEFINE ok == r.sprint \in Active
  <2>1. Checks(k, ok, "known") /\ r.op = "completeSprint" /\ ok \in BOOLEAN
    BY <1>12 DEF completeReads, At, r
  <2>2. Closing(r, "known") /\ Completing(r, "known")
    BY <2>1 DEF Closing, Completing
  <2> HIDE DEF ok
  <2> QED BY <2>1, <2>2, ChecksHolds DEF r
<1>13. CASE completeCounts(k)
  <2> DEFINE n == Cardinality(InSprint(r.sprint))
             q == [r EXCEPT !.count = n]
  <2>1. Goes(k, q, "counted") /\ r.op = "completeSprint"
    BY <1>13 DEF completeCounts, At, r
  <2>2. q.op = r.op /\ q.sprint = r.sprint /\ q.count = n
    <3> HIDE DEF n
    <3> QED BY <1>1 DEF Request
  <2> HIDE DEF q
  <2>3. Closing(q, "counted") /\ Completing(q, "counted")
    BY <2>1, <2>2 DEF Closing, Completing
  <2> QED BY <2>1, <2>3, GoesHolds
<1>14. CASE completeMoves(k)
  <2> DEFINE rows == Unresolved(r.sprint)
             q == [r EXCEPT !.rows = rows]
  <2>1. Goes(k, q, "moved") /\ r.op = "completeSprint" /\ pc[k] = "counted"
    BY <1>14 DEF completeMoves, At, r
  <2>2. q.op = r.op /\ q.sprint = r.sprint /\ q.count = r.count /\ q.rows = rows
    <3> HIDE DEF rows
    <3> QED BY <1>1 DEF Request
  <2> HIDE DEF q
  <2>3. Closing(q, "moved") /\ Completing(q, "moved")
    BY <1>1, <2>1, <2>2 DEF Closing, Completing
  <2> QED BY <2>1, <2>3, GoesHolds
<1>15. CASE writeSprint(k)
  <2>1. Goes(k, r, "written") /\ pc[k] = "moved" /\ r.op \in {"startSprint", "completeSprint"}
    BY <1>15 DEF writeSprint, At, r
  <2>2. Closing(r, "written") /\ Completing(r, "written")
    BY <1>1, <2>1 DEF Closing, Completing
  <2> QED BY <2>1, <2>2, GoesHolds
<1>16. CASE addMemberLooks(k)
  <2>1. r.op = "addMember" /\ Checks(k, r.user \notin Members, "unique")
    BY <1>16 DEF addMemberLooks, At, r
  <2> QED BY <1>2, <2>1
<1>17. CASE removeMemberCountsAdmins(k)
  <2> DEFINE ok == r.role = "ADMIN" => Cardinality(Admins) > 1
  <2>1. r.op = "removeMember" /\ Checks(k, ok, "checked") /\ ok \in BOOLEAN
    BY <1>17 DEF removeMemberCountsAdmins, At, r
  <2> HIDE DEF ok
  <2> QED BY <1>2, <2>1
<1>18. CASE unassign(k)
  <2> DEFINE rows == Assigned(r.user)
             q == [r EXCEPT !.rows = rows]
  <2>1. Goes(k, q, "moved") /\ r.op = "removeMember"
    BY <1>18 DEF unassign, At, r
  <2>2. q.op = r.op
    BY <1>1 DEF Request
  <2> HIDE DEF q
  <2> QED BY <2>1, <2>2, Indifferent, GoesHolds
<1> QED BY <1>3, <1>4, <1>5, <1>6, <1>7, <1>8, <1>9, <1>10, <1>11, <1>12, <1>13, <1>14,
           <1>15, <1>16, <1>17, <1>18

-----------------------------------------------------------------------------
(* What the others have read, after a commit *)

\* Whether a ticket is an epic, is done, or is a child of another is kept.
Untouched(t) ==
    t \in Live' => /\ t \in Live
                   /\ Col(t)'.type = Col(t).type
                   /\ Col(t)'.resolution = Col(t).resolution
                   /\ Col(t)'.parent = Col(t).parent

LEMMA CommitHolds ==
    ASSUME Inv, ReadsHold, NEW k \in Client, Commits(k),
           req[k].op \in Ticketing \/ \A t \in Ticket : Untouched(t)
    PROVE  ReadsHold'
<1>1. /\ raced \subseteq raced' /\ pc'[k] = "idle" /\ req'[k] = Blank("updateTicket")
      /\ req[k].op \in Operation
      /\ \A l \in Others(k) : pc'[l] = pc[l] /\ req'[l] = req[l]
                              /\ (pc[l] # "idle" => {req[k].op, req[l].op} \in raced')
  BY CommitFrame, Typed DEF Inv, Request
<1>2. Closing(req[k], pc[k])' /\ Completing(req[k], pc[k])'
  BY <1>1 DEF Closing, Completing, Blank
<1>3. ASSUME NEW l \in Others(k) PROVE Closing(req[l], pc[l])'
  <2>1. Closing(req[l], pc[l]) /\ l \in Client
    BY DEF ReadsHold, Others
  <2>2. CASE TicketsRaced
    BY <1>1, <2>2 DEF Closing, TicketsRaced
  <2>3. CASE pc[l] = "idle" \/ req[l].op \notin {"updateTicket", "moveTicket"}
    BY <1>1, <2>3 DEF Closing
  <2>4. CASE req[k].op \in Ticketing /\ pc[l] # "idle"
             /\ req[l].op \in {"updateTicket", "moveTicket"}
    <3>1. {req[k].op, req[l].op} \in raced' /\ req[l].op \in Ticketing
      BY <1>1, <2>4 DEF Ticketing
    <3>2. TicketsRaced'
      BY <2>4, <3>1 DEF TicketsRaced
    <3> QED BY <3>2 DEF Closing
  <2>5. CASE (\A t \in Ticket : Untouched(t)) /\ ~TicketsRaced
             /\ pc[l] # "idle" /\ req[l].op \in {"updateTicket", "moveTicket"}
    <3> DEFINE t == req[l].ticket
    <3>1. \A u \in Live' : u \in Ticket /\ Untouched(u)
      BY <2>5 DEF Live, Made
    <3>2. req'[l].ticket = t /\ req'[l].epic = req[l].epic /\ req'[l].body = req[l].body
          /\ pc'[l] = pc[l] /\ req'[l] = req[l]
      BY <1>1
    <3>3. /\ t \in Live /\ Col(t).type = "EPIC" => req[l].epic
          /\ pc[l] = "checked" /\ req[l].epic /\ req[l].body.resolution = "DONE" =>
               \A c \in Live : Col(c).parent = t => Col(c).resolution = "DONE"
      BY <2>1, <2>5 DEF Closing, Children
    <3> HIDE DEF t
    <3>4. t \in Live' /\ ticket'[t].columns.type = "EPIC" => req[l].epic
      BY <3>1, <3>3 DEF Untouched, Col
    <3>5. pc[l] = "checked" /\ req[l].epic /\ req[l].body.resolution = "DONE" =>
            \A c \in Live' : ticket'[c].columns.parent = t => ticket'[c].columns.resolution = "DONE"
      BY <3>1, <3>3 DEF Untouched, Col
    <3> QED BY <3>2, <3>4, <3>5 DEF Closing, Children, Col
  <2> QED BY <2>2, <2>3, <2>4, <2>5
<1>4. ASSUME NEW l \in Others(k) PROVE Completing(req[l], pc[l])'
  <2>1. CASE pc[l] = "idle" \/ req[l].op # "completeSprint"
    BY <1>1, <2>1 DEF Completing
  <2>2. CASE pc[l] # "idle" /\ req[l].op = "completeSprint"
    <3>1. {"completeSprint", req[k].op} \in raced'
      BY <1>1, <2>2
    <3> QED BY <1>1, <3>1 DEF Completing, CompletionRaced
  <2> QED BY <2>1, <2>2
<1> QED BY <1>2, <1>3, <1>4 DEF ReadsHold, Others

\* The steps that commit tickets' columns leave these columns of the others alone.
LEMMA ColumnsKept ==
    ASSUME Inv, NEW k \in Client,
           deleteTicket(k) \/ commitSprint(k) \/ deleteSprint(k) \/ deleteMember(k)
    PROVE  /\ Commits(k)
           /\ \A t \in Ticket : Untouched(t)
           /\ \A t \in Live : Col(t)'.resolution = Col(t).resolution
<1>1. CASE deleteTicket(k)
  <2>0. PICK t \in Made : t = req[k].ticket
    BY <1>1, Typed DEF deleteTicket, At, Sensible, Wanted
  <2>1. Commits(k) /\ ticket' = [ticket EXCEPT ![t].deleted = TRUE]
    BY <1>1, <2>0 DEF deleteTicket
  <2>2. t \in Ticket /\ ticket[t] \in Row
    BY <2>0, Typed
  <2>3. /\ \A u \in Ticket \ {t} : ticket'[u] = ticket[u]
        /\ ticket'[t].columns = ticket[t].columns /\ ticket'[t].deleted
    BY <2>1, <2>2, Typed DEF Row
  <2> QED BY <2>1, <2>2, <2>3 DEF Untouched, Live, Made, Col
<1>2. ASSUME NEW S \in SUBSET Made, NEW f \in {"sprint", "assignee"}, Commits(k),
             ticket' = [t \in Ticket |->
                          IF t \in S THEN [ticket[t] EXCEPT !.columns = [@ EXCEPT ![f] = None]]
                                     ELSE ticket[t]]
      PROVE  /\ \A t \in Ticket : Untouched(t)
             /\ \A t \in Live : Col(t)'.resolution = Col(t).resolution
  <2>1. ASSUME NEW t \in S
        PROVE  /\ ticket'[t].deleted = ticket[t].deleted
               /\ ticket'[t].columns.type = ticket[t].columns.type
               /\ ticket'[t].columns.resolution = ticket[t].columns.resolution
               /\ ticket'[t].columns.parent = ticket[t].columns.parent
    <3>1. t \in Ticket /\ ticket[t] \in Row
      BY Typed
    <3> DEFINE row == ticket[t]
               cs == [row.columns EXCEPT ![f] = None]
    <3>2. row \in Row /\ row.columns \in Columns
      BY <3>1 DEF Row
    <3>3. ticket'[t] = [row EXCEPT !.columns = cs]
      BY <1>2, <3>1
    <3> HIDE DEF row
    <3>4. /\ cs.type = row.columns.type /\ cs.parent = row.columns.parent
          /\ cs.resolution = row.columns.resolution
      BY <3>2 DEF Columns
    <3> HIDE DEF cs
    <3>5. ticket'[t].columns = cs /\ ticket'[t].deleted = row.deleted
      BY <3>2, <3>3 DEF Row
    <3> QED BY <3>4, <3>5 DEF row
  <2>2. \A t \in Ticket \ S : ticket'[t] = ticket[t]
    BY <1>2
  <2> QED BY <2>1, <2>2 DEF Untouched, Live, Made, Col
<1>3. CASE commitSprint(k)
  <2>1. /\ Commits(k) /\ req[k].rows \subseteq Made
        /\ ticket' = [t \in Ticket |->
             IF t \in req[k].rows
             THEN [ticket[t] EXCEPT !.columns = [@ EXCEPT !["sprint"] = None]] ELSE ticket[t]]
    BY <1>3, Typed DEF commitSprint, Sensible, Wanted
  <2> QED BY <1>2, <2>1
<1>4. CASE deleteSprint(k)
  BY <1>4 DEF deleteSprint, Untouched, Live, Made, Col
<1>5. CASE deleteMember(k)
  <2>1. /\ Commits(k) /\ req[k].rows \subseteq Made
        /\ ticket' = [t \in Ticket |->
             IF t \in req[k].rows
             THEN [ticket[t] EXCEPT !.columns = [@ EXCEPT !["assignee"] = None]] ELSE ticket[t]]
    BY <1>5, Typed DEF deleteMember, Sensible, Wanted
  <2> QED BY <1>2, <2>1
<1> QED BY <1>1, <1>3, <1>4, <1>5

LEMMA NextHolds == Inv /\ ReadsHold /\ [Next]_vars => ReadsHold'
<1> SUFFICES ASSUME Inv, ReadsHold, [Next]_vars PROVE ReadsHold'
  OBVIOUS
<1>1. CASE UNCHANGED vars
  <2>1. /\ req' = req /\ pc' = pc /\ raced' = raced
        /\ Live' = Live /\ \A t : Col(t)' = Col(t)
    BY <1>1 DEF vars, db, Live, Made, Col
  <2>2. TicketsRaced' = TicketsRaced /\ CompletionRaced' = CompletionRaced
    BY <2>1 DEF TicketsRaced, CompletionRaced
  <2>3. ASSUME NEW k \in Client PROVE Closing(req[k], pc[k])'
    <3>1. Closing(req[k], pc[k])
      BY DEF ReadsHold
    <3>2. Children(req[k].ticket)' = Children(req[k].ticket)
      BY <2>1 DEF Children
    <3> QED BY <2>1, <2>2, <3>1, <3>2 DEF Closing
  <2>4. ASSUME NEW k \in Client PROVE Completing(req[k], pc[k])'
    <3>1. Completing(req[k], pc[k])
      BY DEF ReadsHold
    <3>2. InSprint(req[k].sprint)' = InSprint(req[k].sprint)
      BY <2>1 DEF InSprint
    <3>3. Unresolved(req[k].sprint)' = Unresolved(req[k].sprint)
      BY <2>1, <3>2 DEF Unresolved
    <3> QED BY <2>1, <2>2, <3>1, <3>2, <3>3 DEF Completing
  <2> QED BY <2>3, <2>4 DEF ReadsHold
<1>2. ASSUME NEW k \in Client, Starts(k) PROVE ReadsHold'
  BY <1>2, StartsHolds
<1>3. ASSUME NEW k \in Client, Fail(k) \/ AcquireTimeout(k) PROVE ReadsHold'
  BY <1>3, RefusedHolds DEF Fail, AcquireTimeout
<1>4. ASSUME NEW k \in Client, writeTicket(k) \/ commitTicket(k) PROVE ReadsHold'
  BY <1>4, CommitHolds DEF writeTicket, commitTicket, At, Ticketing
<1>5. ASSUME NEW k \in Client,
             deleteTicket(k) \/ commitSprint(k) \/ deleteSprint(k) \/ deleteMember(k)
      PROVE  ReadsHold'
  BY <1>5, ColumnsKept, CommitHolds
<1>6. ASSUME NEW k \in Client, insertMember(k) PROVE ReadsHold'
  <2>1. CASE Refused(k)
    BY <2>1, RefusedHolds
  <2>2. CASE ~Refused(k)
    <3>1. Commits(k) /\ \A t \in Ticket : Untouched(t)
      BY <1>6, <2>2 DEF insertMember, Untouched, Live, Made, Col
    <3> QED BY <3>1, CommitHolds
  <2> QED BY <2>1, <2>2
<1> QED BY <1>1, <1>2, <1>3, <1>4, <1>5, <1>6, ReadsHolds DEF Next, Advance

LEMMA InitHolds == Init => ReadsHold
BY DEF Init, ReadsHold, Closing, Completing, Blank

-----------------------------------------------------------------------------
(* The steps that close an epic or complete a sprint *)

LEMMA EpicStep ==
    ASSUME Inv, ReadsHold, [Next]_vars, NEW t \in Live,
           Col(t).type = "EPIC", Col(t).resolution # "DONE", Col(t)'.resolution = "DONE",
           ~TicketsRaced'
    PROVE  \A c \in Children(t)' : Col(c)'.resolution = "DONE"
<1>1. t \in Made /\ t \in Ticket /\ ticket' # ticket
  BY Typed DEF Live, Col
<1>2. PICK k \in Client :
        \/ writeTicket(k) \/ commitTicket(k)
        \/ deleteTicket(k) \/ commitSprint(k) \/ deleteMember(k)
  <2>1. PICK k \in Client : Starts(k) \/ Advance(k) \/ Fail(k)
    BY <1>1 DEF Next, vars, db
  <2>2. ~Quiet(k)
    BY <1>1 DEF Quiet, Moves, db
  <2>3. ~Starts(k) /\ ~Fail(k) /\ ~AcquireTimeout(k)
    BY <2>2, StartsQuiet, RefusedQuiet DEF Fail, AcquireTimeout, Inv
  <2>4. ~insertMember(k) /\ ~deleteSprint(k)
    BY <1>1 DEF insertMember, deleteSprint, Refused, db
  <2> QED BY <2>1, <2>2, <2>3, <2>4, TicketQuiet, SprintQuiet, MemberQuiet DEF Advance
<1>3. CASE deleteTicket(k) \/ commitSprint(k) \/ deleteMember(k)
  BY <1>3, ColumnsKept
<1>4. CASE commitTicket(k)
  <2>1. req[k].ticket # t
    BY <1>1, <1>4, Typed DEF commitTicket, At, Sensible, Wanted
  <2>2. ticket'[t] = ticket[t]
    BY <1>1, <1>4, <2>1, Typed DEF commitTicket
  <2> QED BY <2>2 DEF Col
<1>5. CASE writeTicket(k)
  <2>0. PICK u \in Made, b \in Body : u = req[k].ticket /\ b = req[k].body
    BY <1>5, Typed DEF writeTicket, At, Sensible, Wanted, Request
  <2>1. /\ Commits(k) /\ pc[k] = "checked" /\ req[k].op \in {"updateTicket", "moveTicket"}
        /\ ticket' = [ticket EXCEPT ![u].columns = IF u \in Live THEN Patched(@, b) ELSE @]
    BY <1>5, <2>0 DEF writeTicket, At
  <2>2. u = t
    BY <1>1, <2>1, Typed DEF Col
  <2>3. ticket[t] \in Row /\ ticket[t].columns \in Columns
    BY <1>1, Typed DEF Row
  <2>4. /\ ticket'[t].columns = Patched(ticket[t].columns, b)
        /\ \A c \in Ticket \ {t} : ticket'[c] = ticket[c]
    BY <1>1, <2>1, <2>2, <2>3, Typed DEF Row
  <2>5. b.resolution = "DONE"
    <3>1. Patched(ticket[t].columns, b).resolution
            = IF b.resolution = Same THEN ticket[t].columns.resolution ELSE b.resolution
      BY <2>3 DEF Patched, Columns
    <3> QED BY <2>4, <3>1 DEF Col
  <2>6. ~TicketsRaced /\ Closing(req[k], pc[k])
    <3>1. raced \subseteq raced'
      BY <2>1, CommitFrame DEF Inv
    <3> QED BY <3>1 DEF TicketsRaced, ReadsHold
  <2>7. \A c \in Children(t) : Col(c).resolution = "DONE"
    BY <2>0, <2>1, <2>2, <2>5, <2>6 DEF Closing
  <2>8. \A c \in Ticket \ {t} : c \in Children(t)' => c \in Children(t)
    BY <2>4 DEF Children, Live, Made, Col
  <2>9. \A c \in Children(t)' : c \in Ticket
    BY DEF Children, Live, Made
  <2> QED BY <2>4, <2>7, <2>8, <2>9 DEF Col
<1> QED BY <1>2, <1>3, <1>4, <1>5

LEMMA CompletionStep ==
    ASSUME Inv, ReadsHold, [Next]_vars, NEW k \in Client, NEW s \in Sprint,
           At(k, "completeSprint", "written"), s = req[k].sprint, sprint' # sprint,
           ~CompletionRaced'
    PROVE  /\ Unresolved(s)' = {}
           /\ req[k].count - Cardinality(req[k].rows) = Cardinality(InSprint(s)')
<1>1. PICK l \in Client : commitSprint(l) \/ deleteSprint(l)
  <2>1. PICK l \in Client : Starts(l) \/ Advance(l) \/ Fail(l)
    BY DEF Next, vars, db
  <2>2. ~Quiet(l)
    BY DEF Quiet, Moves, db
  <2>3. ~Starts(l) /\ ~Fail(l) /\ ~AcquireTimeout(l)
    BY <2>2, StartsQuiet, RefusedQuiet DEF Fail, AcquireTimeout, Inv
  <2>4. ~insertMember(l) /\ ~writeTicket(l) /\ ~deleteTicket(l) /\ ~commitTicket(l)
        /\ ~deleteMember(l)
    BY DEF insertMember, Refused, db, writeTicket, deleteTicket, commitTicket, deleteMember
  <2> QED BY <2>1, <2>2, <2>3, <2>4, TicketQuiet, SprintQuiet, MemberQuiet DEF Advance
<1>2. Commits(l) /\ req[l].op \in Operation
  BY <1>1, Typed DEF commitSprint, deleteSprint, Request
<1>3. l = k
  <2>1. SUFFICES ASSUME l # k PROVE FALSE
    OBVIOUS
  <2>2. {req[l].op, "completeSprint"} \in raced'
    BY <1>2, <2>1, CommitFrame DEF Inv, At, Others
  <2> QED BY <1>2, <2>2 DEF CompletionRaced
<1> DEFINE S == req[k].rows
<1>4. /\ Commits(k) /\ S \subseteq Made
      /\ ticket' = [t \in Ticket |->
                      IF t \in S THEN [ticket[t] EXCEPT !.columns = [@ EXCEPT !.sprint = None]]
                                 ELSE ticket[t]]
  BY <1>1, <1>3, Typed DEF commitSprint, deleteSprint, At, Sensible, Wanted
<1>5. S = Unresolved(s) /\ req[k].count = Cardinality(InSprint(s))
  <2>1. raced \subseteq raced'
    BY <1>4, CommitFrame DEF Inv
  <2>2. ~CompletionRaced /\ Completing(req[k], pc[k])
    BY <2>1 DEF CompletionRaced, ReadsHold
  <2> QED BY <2>2 DEF Completing, At
<1> HIDE DEF S
<1>6. ASSUME NEW t \in S
      PROVE  ticket'[t].columns.sprint = None /\ ticket'[t].deleted = ticket[t].deleted
             /\ ticket'[t] # None
  <2>1. t \in Ticket /\ ticket[t] \in Row
    BY <1>4, Typed
  <2>2. ticket'[t] = [ticket[t] EXCEPT !.columns = [@ EXCEPT !.sprint = None]]
    BY <1>4, <2>1
  <2>3. None \notin Row
    BY ProjectsAssumption
  <2> QED BY <2>1, <2>2, <2>3 DEF Row, Columns
<1>7. \A t \in Ticket \ S : ticket'[t] = ticket[t]
  BY <1>4
<1>8. s # None
  BY ProjectsAssumption
<1>9. InSprint(s)' = InSprint(s) \ S
  <2>1. \A t \in Ticket : t \in InSprint(s)' <=> t \in InSprint(s) /\ t \notin S
    BY <1>6, <1>7, <1>8 DEF InSprint, Live, Made, Col
  <2>2. InSprint(s)' \subseteq Ticket /\ InSprint(s) \subseteq Ticket
    BY DEF InSprint, Live, Made
  <2> QED BY <2>1, <2>2
<1>10. Unresolved(s)' = {}
  BY <1>5, <1>7, <1>9 DEF Unresolved, InSprint, Live, Made, Col
<1>11. Cardinality(InSprint(s)') = Cardinality(InSprint(s)) - Cardinality(S)
  <2>1. IsFiniteSet(InSprint(s))
    <3>1. InSprint(s) \subseteq Ticket /\ IsFiniteSet(Ticket)
      BY ProjectsAssumption DEF InSprint, Live, Made
    <3> QED BY <3>1, FS_Subset
  <2>2. S \subseteq InSprint(s) /\ InSprint(s) \intersect S = S
    BY <1>5 DEF Unresolved
  <2>3. Cardinality(InSprint(s) \ S)
          = Cardinality(InSprint(s)) - Cardinality(InSprint(s) \intersect S)
    BY <2>1, FS_Difference
  <2> QED BY <1>9, <2>2, <2>3
<1> QED BY <1>5, <1>10, <1>11 DEF S

\* An epic is closed only when all its children are done, for any epics, children and
\* clients, until two requests that write tickets overlap (ticket.service.ts:505-523).
THEOREM EpicsCloseWhole == Spec => EpicClosesWhole
<1> DEFINE Step ==
      \/ ClosesWhole
      \/ \E o1, o2 \in {"createTicket", "updateTicket", "moveTicket"} :
             {o1, o2} \in raced'
<1>1. Inv /\ ReadsHold /\ [Next]_vars => Step
  BY EpicStep DEF ClosesWhole, TicketsRaced, Ticketing
<1> HIDE DEF Step
<1>2. Spec => [][Step]_vars
  BY InitInv, NextInv, InitHolds, NextHolds, <1>1, PTL DEF Spec
<1> QED BY <1>2 DEF EpicClosesWhole, Step

\* A completed sprint keeps no unresolved ticket, and the numbers of its summary are
\* right, until another request overlaps the completion (sprint.service.ts:123-145).
THEOREM CompletionsClear == Spec => CompletionClears
<1> DEFINE Step ==
      \A k \in Client, s \in Sprint :
         Completes(k, s)
         => \/ /\ Unresolved(s)' = {}
               /\ req[k].count - Cardinality(req[k].rows) = Cardinality(InSprint(s)')
            \/ \E op \in Operation : {"completeSprint", op} \in raced'
<1>1. Inv /\ ReadsHold /\ [Next]_vars => Step
  BY CompletionStep DEF Completes, CompletionRaced
<1> HIDE DEF Step
<1>2. Spec => [][Step]_vars
  BY InitInv, NextInv, InitHolds, NextHolds, <1>1, PTL DEF Spec
<1> QED BY <1>2 DEF CompletionClears, Step

-----------------------------------------------------------------------------
(* One request at a time *)

\* No two requests have overlapped of which one committed.
NoRace == raced = {}

\* Requests that follow one another overlap with nothing.
LEMMA SerialNeverRaces ==
    ASSUME \A k, l \in Client : k = l
    PROVE  Spec => []NoRace
<1>1. Init => NoRace
  BY DEF Init, NoRace
<1>2. Inv /\ NoRace /\ [Next]_vars => NoRace'
  <2> SUFFICES ASSUME Inv, raced = {}, [Next]_vars PROVE raced' = {}
    BY DEF NoRace
  <2>1. CASE UNCHANGED vars
    BY <2>1 DEF vars
  <2>2. ASSUME NEW k \in Client, Starts(k) \/ Advance(k) \/ Fail(k) PROVE raced' = {}
    <3>1. CASE Quiet(k)
      BY <3>1 DEF Quiet, Moves
    <3>2. CASE Refused(k)
      BY <3>2 DEF Refused
    <3>3. CASE Commits(k)
      <4>1. Others(k) = {}
        BY DEF Others
      <4> QED BY <3>3, <4>1 DEF Commits
    <3>4. CASE Starts(k)
      BY <3>1, <3>4, StartsQuiet
    <3>5. CASE Advance(k)
      <4>1. \/ Quiet(k) \/ AcquireTimeout(k)
            \/ writeTicket(k) \/ deleteTicket(k) \/ commitTicket(k) \/ commitSprint(k)
            \/ deleteSprint(k) \/ insertMember(k) \/ deleteMember(k)
        BY <3>5, TicketQuiet, SprintQuiet, MemberQuiet DEF Advance
      <4>2. Quiet(k) \/ Refused(k) \/ Commits(k)
        BY <4>1 DEF AcquireTimeout, writeTicket, deleteTicket, commitTicket, commitSprint,
           deleteSprint, insertMember, deleteMember
      <4> QED BY <3>1, <3>2, <3>3, <4>2
    <3> QED BY <2>2, <3>2, <3>4, <3>5 DEF Fail
  <2> QED BY <2>1, <2>2 DEF Next
<1> QED BY <1>1, <1>2, Invariant, PTL DEF Spec

\* When requests follow one another, the checks of the services are enough, whatever
\* fails or times out: one sprint at most is active and none of the deleted, assignees
\* are members, and an administrator stays.  What the other theorems except takes two
\* requests that overlap.
THEOREM SerialChecksHold ==
    ASSUME \A k, l \in Client : k = l
    PROVE  Spec => [](/\ OnlyOneActiveSprint /\ ActiveSprintStays
                      /\ OnlyMembersAssigned /\ AdminRemains)
<1>1. Inv /\ NoRace => /\ OnlyOneActiveSprint /\ ActiveSprintStays
                      /\ OnlyMembersAssigned /\ AdminRemains
  BY DEF Inv, NoRace, OneActiveSprint, DeletedNotActive, AssigneeIsMember, KeepsAdmin
<1> QED BY <1>1, Invariant, SerialNeverRaces, PTL

===============================================================================
