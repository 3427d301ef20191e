--------------------------------- MODULE Calls ---------------------------------
(***************************************************************************)
(* Audio and video calls in chat rooms: the maps of the WebSocket gateway, *)
(* the call stores of the users' pages, and the packets between them.      *)
(*                                                                         *)
(* Socket.IO delivers packets in order and at most once.  Each connection  *)
(* of a page is a socket of its own.  A page that is offline keeps what it *)
(* emits until it is connected again; packets under way when a connection  *)
(* breaks are lost, and the server notices the end of the old socket at    *)
(* any later time.                                                         *)
(*                                                                         *)
(* Every user has one page, which shows the user's chats, asks for camera  *)
(* and microphone once at a time and loses its connection at most once.    *)
(* Offers are the only WebRTC packets here: answers and candidates change  *)
(* no state that a property is about.                                      *)
(*                                                                         *)
(* The code has ways to make a page and the gateway disagree about a call, *)
(* and nothing that brings them together again.  `strayed` collects the    *)
(* users to whom one of them has happened: a stream that starts after the  *)
(* call was given up, an answer to a call that is over or from a page that *)
(* is busy or offline, a call replaced in its room or torn down by the end *)
(* of another, a declined call that the gateway is not told about, a hang- *)
(* up that overtakes its call, a connection that breaks in a call, and an  *)
(* old socket whose end is noticed after the new one has registered.       *)
(***************************************************************************)
EXTENDS Naturals, SequencesExt

CONSTANTS
    User,
    Room,
    Membership,      \* the chats to check: functions from rooms to their members
    MaxEvents,       \* bound: presses of the call button and broken connections, for
                     \* each of them
    None

ASSUME CallsAssumption ==
    /\ Membership \subseteq [Room -> SUBSET User]
    /\ MaxEvents \in [Membership -> Nat]
    /\ IsFiniteSet(Room)
    /\ None \notin User \cup Room \cup Nat \cup [room: Room, caller: User]
                   \cup (User \X {1, 2})

VARIABLES
    member,        \* member[r]: the members of the chat r
    \* pages
    page,          \* page[u]: the call store of the page of u
    media,         \* media[u]: requests for camera and microphone not answered yet
    number,        \* number[u]: the last socket that the page of u opened
    online,        \* the users whose page is connected
    events,        \* how often the call button was pressed or a connection broke
    \* packets
    up,            \* up[u]: packets of u to the gateway
    down,          \* down[u]: packets to the current socket of u
    \* the gateway
    sockets,       \* sockets that the server has not seen closing
    userSockets,   \* userSockets[u]: the socket registered for u, or None
    socketUsers,   \* socketUsers[s]: the user that registered s, or None
    chatSockets,   \* chatSockets[r]: the sockets in the room "chat-r"
    callSockets,   \* callSockets[r]: the sockets in the room "call-r"
    activeCalls,   \* activeCalls[r]: who is in the call of r, {} for no entry
    callMeta,      \* callMeta[r]: the number of the call of r, or None
    started,       \* how many calls have started
    messages,      \* calls that have ended and been taken to be saved as messages
    strayed        \* users whose page and the gateway may disagree about calls

pages == <<member, page, media, number, online, events>>
maps == <<sockets, userSockets, socketUsers, chatSockets, callSockets, activeCalls,
          callMeta, started, messages>>
vars == <<pages, up, down, maps, strayed>>

Socket == User \X {1, 2}

SocketOf(u) == <<u, number[u]>>

-----------------------------------------------------------------------------
(* Packets *)

Packet(type, r, u) == [type |-> type, room |-> r, user |-> u]

\* Packets of a page.  It may leave without a room, after it has forgotten the call.
PagePacket ==
    [type: {"join-chat-rooms", "register-user"}, room: {None}, user: User] \cup
    [type: {"call-initiate", "call-join", "call-reject", "call-offer"}, room: Room,
     user: User] \cup
    [type: {"call-leave"}, room: Room \cup {None}, user: User]

\* Packets of the gateway.
Event ==
    [type: {"incoming-call", "call-user-joined", "call-offer", "call-user-left",
            "call-rejected"}, room: Room, user: User] \cup
    [type: {"call-ended"}, room: Room, user: {None}]

\* What a page emits.
Emit(u, packets) == up' = [up EXCEPT ![u] = @ \o packets]

\* An event for the sockets S: those that are gone receive nothing.
To(S, event) ==
    [u \in User |-> IF u \in online /\ SocketOf(u) \in S THEN <<event>> ELSE <<>>]

Nothing == [u \in User |-> <<>>]

\* The gateway takes the first packet of u and emits `first`, then `second`.
Answer(u, first, second) ==
    /\ up' = [up EXCEPT ![u] = Tail(@)]
    /\ down' = [v \in User |-> down[v] \o first[v] \o second[v]]

-----------------------------------------------------------------------------
(* Pages *)

\* The initial state of the call store.
IdlePage == [state |-> "idle", room |-> None, peers |-> {}, incoming |-> None]

Page == [state: {"idle", "calling", "in-call"}, room: Room \cup {None},
         peers: SUBSET User, incoming: [room: Room, caller: User] \cup {None}]

\* A call (of no caller) or an answer that waits for the user's camera and microphone.
MediaRequest == [room: Room, caller: User \cup {None}]

Busy(u) == page[u].state # "idle"

Init ==
    /\ member \in Membership
    /\ page = [u \in User |-> IdlePage]
    /\ media = [u \in User |-> {}]
    /\ number = [u \in User |-> 1]
    /\ online = User
    /\ events = 0
    /\ up = Nothing
    /\ down = Nothing
    /\ sockets = {SocketOf(u) : u \in User}
    /\ userSockets = [u \in User |-> SocketOf(u)]
    /\ socketUsers = [s \in Socket |-> IF s \in sockets THEN s[1] ELSE None]
    /\ chatSockets = [r \in Room |-> {SocketOf(u) : u \in member[r]}]
    /\ callSockets = [r \in Room |-> {}]
    /\ activeCalls = [r \in Room |-> {}]
    /\ callMeta = [r \in Room |-> None]
    /\ started = 0
    /\ messages = {}
    /\ strayed = {}

\* The call button in the chat of r.
handleStartCall(u) ==
    /\ events < MaxEvents[member]
    /\ page[u].state = "idle"
    /\ media[u] = {}
    /\ \E r \in {q \in Room : u \in member[q]} :
         /\ page' = [page EXCEPT ![u] = [@ EXCEPT !.state = "calling", !.room = r]]
         /\ media' = [media EXCEPT ![u] = {[room |-> r, caller |-> None]}]
    /\ events' = events + 1
    /\ UNCHANGED <<member, number, online, up, down, maps, strayed>>

\* The stream is there: the call goes out, whatever the page has become meanwhile.
StreamStarts(u) ==
    \E m \in media[u] :
        /\ m.caller = None
        /\ media' = [media EXCEPT ![u] = @ \ {m}]
        /\ Emit(u, <<Packet("call-initiate", m.room, u)>>)
        /\ strayed' = IF page[u].state = "calling" /\ page[u].room = m.room
                      THEN strayed ELSE strayed \cup {u}
        /\ UNCHANGED <<member, page, number, online, events, down, maps>>

StreamFails(u) ==
    \E m \in media[u] :
        /\ m.caller = None
        /\ media' = [media EXCEPT ![u] = @ \ {m}]
        /\ page' = [page EXCEPT ![u] = [@ EXCEPT !.state = "idle", !.room = None]]
        /\ UNCHANGED <<member, number, online, events, up, down, maps, strayed>>

\* The Accept button of the dialog, which stays open while the stream is awaited.
handleAcceptCall(u) ==
    /\ page[u].incoming # None
    /\ media[u] = {}
    /\ media' = [media EXCEPT ![u] = {page[u].incoming}]
    /\ UNCHANGED <<member, page, number, online, events, up, down, maps, strayed>>

\* The stream is there, or there is none and the user joins as a listener.
AcceptContinues(u) ==
    \E m \in media[u] :
        /\ m.caller # None
        /\ media' = [media EXCEPT ![u] = @ \ {m}]
        /\ page' = [page EXCEPT ![u] = [state |-> "in-call", room |-> m.room,
                                        peers |-> @.peers \cup {m.caller},
                                        incoming |-> None]]
        /\ Emit(u, <<Packet("call-join", m.room, u)>>)
        /\ strayed' = IF u \in online /\ page[u].state = "idle" /\ page[u].incoming = m
                      THEN strayed ELSE strayed \cup {u}
        /\ UNCHANGED <<member, number, online, events, down, maps>>

handleRejectCall(u) ==
    /\ page[u].incoming # None
    /\ Emit(u, <<Packet("call-reject", page[u].incoming.room, page[u].incoming.caller)>>)
    /\ page' = [page EXCEPT ![u] = [@ EXCEPT !.incoming = None]]
    /\ UNCHANGED <<member, media, number, online, events, down, maps, strayed>>

\* The hang-up button of the call's screen.
handleEndCall(u) ==
    /\ Busy(u)
    /\ Emit(u, <<Packet("call-leave", page[u].room, u)>>)
    /\ page' = [page EXCEPT ![u] = IdlePage]
    /\ UNCHANGED <<member, media, number, online, events, down, maps, strayed>>

\* The page of u handles its next event: it becomes p, emits packets and strays or not.
Handled(u, p, packets, strays) ==
    /\ down' = [down EXCEPT ![u] = Tail(@)]
    /\ page' = [page EXCEPT ![u] = p]
    /\ Emit(u, packets)
    /\ strayed' = IF strays THEN strayed \cup {u} ELSE strayed
    /\ UNCHANGED <<member, media, number, online, events, maps>>

Arrives(u, type) == down[u] # <<>> /\ Head(down[u]).type = type

handleIncomingCall(u) ==
    /\ Arrives(u, "incoming-call")
    /\ LET e == Head(down[u]) IN
       Handled(u, IF Busy(u) THEN page[u]
                  ELSE [page[u] EXCEPT !.incoming = [room |-> e.room, caller |-> e.user]],
               <<>>, FALSE)

\* Somebody joined: those in the call offer a connection, and a caller is in the call.
handleCallUserJoined(u) ==
    /\ Arrives(u, "call-user-joined")
    /\ LET e == Head(down[u]) IN
       IF e.user = u
       THEN Handled(u, page[u], <<>>, FALSE)
       ELSE Handled(u, [page[u] EXCEPT !.peers = @ \cup {e.user},
                                       !.state = IF Busy(u) THEN "in-call" ELSE "idle"],
                    IF Busy(u) THEN <<Packet("call-offer", e.room, e.user)>> ELSE <<>>,
                    FALSE)

\* Mutant: whoever offers is not added to the participants.
handleCallOfferKnownOnly(u) ==
    /\ Arrives(u, "call-offer")
    /\ Handled(u, page[u], <<>>, FALSE)

handleCallOffer(u) ==
    /\ Arrives(u, "call-offer")
    /\ Handled(u, [page[u] EXCEPT !.peers = @ \cup {Head(down[u]).user}], <<>>, FALSE)

\* Mutant: whoever is left alone does not tell the gateway.
handleCallUserLeftSilent(u) ==
    /\ Arrives(u, "call-user-left")
    /\ LET left == page[u].peers \ {Head(down[u]).user} IN
       Handled(u, IF left = {} THEN IdlePage ELSE [page[u] EXCEPT !.peers = left],
               <<>>, FALSE)

\* Whoever is left alone leaves as well.  The room may be none, which no call has.
handleCallUserLeft(u) ==
    /\ Arrives(u, "call-user-left")
    /\ LET left == page[u].peers \ {Head(down[u]).user} IN
       IF left = {}
       THEN Handled(u, IdlePage, <<Packet("call-leave", page[u].room, u)>>, FALSE)
       ELSE Handled(u, [page[u] EXCEPT !.peers = left], <<>>, FALSE)

\* A call has ended, in whichever room.
handleCallEnded(u) ==
    /\ Arrives(u, "call-ended")
    /\ Handled(u, IdlePage, <<>>, Busy(u))

\* The caller gives up when nobody is in the call yet, and does not tell the gateway.
handleCallRejected(u) ==
    /\ Arrives(u, "call-rejected")
    /\ Handled(u, IF page[u].peers = {} THEN IdlePage ELSE page[u], <<>>,
               page[u].peers = {} /\ Busy(u))

\* The connection breaks; what is under way is lost.
Disconnect(u) ==
    /\ u \in online
    /\ events < MaxEvents[member]
    /\ events' = events + 1
    /\ number[u] = 1
    /\ online' = online \ {u}
    /\ up' = [up EXCEPT ![u] = <<>>]
    /\ down' = [down EXCEPT ![u] = <<>>]
    /\ strayed' = IF Busy(u) \/ media[u] # {} \/ up[u] # <<>> \/ down[u] # <<>>
                  THEN strayed \cup {u} ELSE strayed
    /\ UNCHANGED <<member, page, media, number, maps>>

\* A new socket: what the page emitted meanwhile goes first, then joinRoomsAndRegister.
Reconnect(u) ==
    /\ u \notin online
    /\ number' = [number EXCEPT ![u] = 2]
    /\ online' = online \cup {u}
    /\ sockets' = sockets \cup {<<u, 2>>}
    /\ Emit(u, <<Packet("join-chat-rooms", None, u), Packet("register-user", None, u)>>)
    /\ UNCHANGED <<member, page, media, events, down, userSockets, socketUsers, chatSockets,
                   callSockets, activeCalls, callMeta, started, messages,
                   strayed>>

-----------------------------------------------------------------------------
(* The gateway *)

Received(u, type) == u \in online /\ up[u] # <<>> /\ Head(up[u]).type = type

handleJoinChatRooms(u) ==
    /\ Received(u, "join-chat-rooms")
    /\ chatSockets' = [r \in Room |-> chatSockets[r] \cup
                                      {SocketOf(v) : v \in {u} \cap member[r]}]
    /\ Answer(u, Nothing, Nothing)
    /\ UNCHANGED <<pages, sockets, userSockets, socketUsers, callSockets, activeCalls,
                   callMeta, started, messages, strayed>>

\* Mutant: each map gets the other one's value.
handleRegisterUserSwapped(u) ==
    /\ Received(u, "register-user")
    /\ userSockets' = [userSockets EXCEPT ![u] = u]
    /\ socketUsers' = [socketUsers EXCEPT ![SocketOf(u)] = SocketOf(u)]
    /\ Answer(u, Nothing, Nothing)
    /\ UNCHANGED <<pages, sockets, chatSockets, callSockets, activeCalls, callMeta,
                   started, messages, strayed>>

handleRegisterUser(u) ==
    /\ Received(u, "register-user")
    /\ userSockets' = [userSockets EXCEPT ![u] = SocketOf(u)]
    /\ socketUsers' = [socketUsers EXCEPT ![SocketOf(u)] = u]
    /\ Answer(u, Nothing, Nothing)
    /\ UNCHANGED <<pages, sockets, chatSockets, callSockets, activeCalls, callMeta,
                   started, messages, strayed>>

\* The handler waits for fetchSockets, while the next packet, which came together with
\* this one, is handled.
AwaitsSockets(u) ==
    /\ Received(u, "call-initiate")
    /\ Len(up[u]) > 1
    /\ up[u][2].type # "call-initiate"
    /\ up' = [up EXCEPT ![u] = <<@[2], @[1]>> \o SubSeq(@, 3, Len(@))]
    /\ strayed' = IF up[u][2].type = "call-leave" THEN strayed \cup {u} ELSE strayed
    /\ UNCHANGED <<pages, down, maps>>

\* The room may have a call already, which is overwritten.
handleCallInitiate(u) ==
    /\ Received(u, "call-initiate")
    /\ LET r == Head(up[u]).room IN
       /\ activeCalls' = [activeCalls EXCEPT ![r] = {u}]
       /\ started' = started + 1
       /\ callMeta' = [callMeta EXCEPT ![r] = started']
       /\ callSockets' = [callSockets EXCEPT ![r] = @ \cup {SocketOf(u)}]
       /\ Answer(u, To(chatSockets[r] \ {SocketOf(u)}, Packet("incoming-call", r, u)), Nothing)
       /\ strayed' = strayed \cup (activeCalls[r] \ {u})
    /\ UNCHANGED <<pages, sockets, userSockets, socketUsers, chatSockets, messages>>

\* Joining a call that is over does nothing.
handleCallJoin(u) ==
    /\ Received(u, "call-join")
    /\ LET r == Head(up[u]).room IN
       IF activeCalls[r] = {}
       THEN /\ Answer(u, Nothing, Nothing)
            /\ strayed' = strayed \cup {u}
            /\ UNCHANGED <<activeCalls, callSockets>>
       ELSE /\ activeCalls' = [activeCalls EXCEPT ![r] = @ \cup {u}]
            /\ callSockets' = [callSockets EXCEPT ![r] = @ \cup {SocketOf(u)}]
            /\ Answer(u, To(callSockets'[r], Packet("call-user-joined", r, u)), Nothing)
            /\ UNCHANGED strayed
    /\ UNCHANGED <<pages, sockets, userSockets, socketUsers, chatSockets, callMeta,
                   started, messages>>

\* An offer, or a rejection, for the socket that is registered for a user.
Relay(u, user, event) ==
    /\ Answer(u, To({userSockets[user]}, event), Nothing)
    /\ UNCHANGED <<pages, maps, strayed>>

RelayCallOffer(u) ==
    /\ Received(u, "call-offer")
    /\ LET p == Head(up[u]) IN Relay(u, p.user, Packet("call-offer", p.room, u))

handleCallReject(u) ==
    /\ Received(u, "call-reject")
    /\ LET p == Head(up[u]) IN Relay(u, p.user, Packet("call-rejected", p.room, u))

\* Mutant: the entry of callMeta is not deleted.
SaveCallsKept(R) ==
    /\ UNCHANGED callMeta
    /\ messages' = messages \cup ({callMeta[r] : r \in R} \ {None})

\* Mutant: the newest call is saved, whichever room it is in.
SaveCallsNewest(R) ==
    /\ callMeta' = [r \in Room |-> IF r \in R THEN None ELSE callMeta[r]]
    /\ messages' = IF R = {} THEN messages ELSE messages \cup {started}

\* saveCallMessage: the calls of the rooms R are taken out of callMeta to be saved.
SaveCalls(R) ==
    /\ callMeta' = [r \in Room |-> IF r \in R THEN None ELSE callMeta[r]]
    /\ messages' = messages \cup ({callMeta[r] : r \in R} \ {None})

handleCallLeave(u) ==
    /\ Received(u, "call-leave")
    /\ LET r == Head(up[u]).room IN
       IF r = None
       THEN /\ Answer(u, Nothing, Nothing)
            /\ UNCHANGED <<activeCalls, callSockets, callMeta, messages>>
       ELSE /\ activeCalls' = [activeCalls EXCEPT ![r] = @ \ {u}]
            /\ callSockets' = [callSockets EXCEPT ![r] = @ \ {SocketOf(u)}]
            /\ SaveCalls(IF activeCalls'[r] = {} THEN {r} ELSE {})
            /\ Answer(u, To(callSockets'[r], Packet("call-user-left", r, u)),
                      IF activeCalls'[r] = {}
                      THEN To(chatSockets[r], Packet("call-ended", r, None)) ELSE Nothing)
    /\ UNCHANGED <<pages, sockets, userSockets, socketUsers, chatSockets, started, strayed>>

\* The server notices that a socket is closed: Socket.IO takes it out of its rooms,
\* and the user whom it registered out of the calls, in an order that is left open.
handleDisconnect(s) ==
    LET u == socketUsers[s]
        R == IF u = None THEN {} ELSE {r \in Room : u \in activeCalls[r]} IN
    /\ s \in sockets
    /\ s[1] \in online => s # SocketOf(s[1])
    /\ sockets' = sockets \ {s}
    /\ chatSockets' = [r \in Room |-> chatSockets[r] \ {s}]
    /\ callSockets' = [r \in Room |-> callSockets[r] \ {s}]
    /\ socketUsers' = [socketUsers EXCEPT ![s] = None]
    /\ userSockets' = IF u = None THEN userSockets ELSE [userSockets EXCEPT ![u] = None]
    /\ activeCalls' = [r \in Room |-> activeCalls[r] \ {u}]
    /\ SaveCalls({r \in R : activeCalls'[r] = {}})
    /\ \E orders \in [User -> UNION {SetToSeqs(S) : S \in SUBSET R}] :
         /\ \A v \in User :
              orders[v] \in
                 SetToSeqs({r \in R : v \in online /\ SocketOf(v) \in callSockets'[r]})
         /\ down' = [v \in User |-> down[v] \o
                       [i \in DOMAIN orders[v] |->
                           Packet("call-user-left", orders[v][i], u)]]
    /\ strayed' = IF u # None /\ (R # {} \/ userSockets[u] # s)
                  THEN strayed \cup {u} ELSE strayed
    /\ UNCHANGED <<pages, up, started>>

-----------------------------------------------------------------------------
Next ==
    \/ \E u \in User :
          \/ handleStartCall(u) \/ StreamStarts(u) \/ StreamFails(u)
          \/ handleAcceptCall(u) \/ AcceptContinues(u) \/ handleRejectCall(u)
          \/ handleEndCall(u)
          \/ handleIncomingCall(u) \/ handleCallUserJoined(u) \/ handleCallOffer(u)
          \/ handleCallUserLeft(u) \/ handleCallEnded(u) \/ handleCallRejected(u)
          \/ Disconnect(u) \/ Reconnect(u)
          \/ handleJoinChatRooms(u) \/ handleRegisterUser(u)
          \/ AwaitsSockets(u) \/ handleCallInitiate(u) \/ handleCallJoin(u) \/ RelayCallOffer(u)
          \/ handleCallReject(u) \/ handleCallLeave(u)
    \/ \E s \in Socket : handleDisconnect(s)

Spec == Init /\ [][Next]_vars

-----------------------------------------------------------------------------
(* Properties *)

TypeOK ==
    /\ member \in Membership
    /\ page \in [User -> Page]
    /\ media \in [User -> SUBSET MediaRequest]
    /\ number \in [User -> {1, 2}]
    /\ online \subseteq User
    /\ events \in 0..MaxEvents[member]
    /\ up \in [User -> Seq(PagePacket)]
    /\ down \in [User -> Seq(Event)]
    /\ sockets \subseteq Socket
    /\ userSockets \in [User -> Socket \cup {None}]
    /\ socketUsers \in [Socket -> User \cup {None}]
    /\ chatSockets \in [Room -> SUBSET Socket]
    /\ callSockets \in [Room -> SUBSET Socket]
    /\ activeCalls \in [Room -> SUBSET User]
    /\ callMeta \in [Room -> Nat \cup {None}]
    /\ started \in Nat
    /\ messages \subseteq Nat
    /\ strayed \subseteq User

\* activeCalls and callMeta have entries for the same rooms, through calls that
\* overwrite each other, leaves and joins that cross, and lost sockets: otherwise a
\* call would end without a record, or a record would be made for no call.
CallHasMeta == \A r \in Room : activeCalls[r] = {} <=> callMeta[r] = None

\* Nothing is under way: no packet, no request for a stream, no broken connection
\* that either side has yet to deal with.
Quiet ==
    /\ \A u \in User : up[u] = <<>> /\ down[u] = <<>> /\ media[u] = {}
    /\ online = User
    /\ sockets = {SocketOf(u) : u \in User}

\* Once nothing is under way, a user is in the gateway's call of a room if and only
\* if the user's page shows that call, unless the user has strayed.
ViewsAgree ==
    Quiet => \A u \in User \ strayed, r \in Room :
                u \in activeCalls[r] <=> Busy(u) /\ page[u].room = r

\* Once nothing is under way, any two users in one call have each other among their
\* participants, whoever joined first and through whichever packets, unless one of
\* them has strayed.
PeersKnown ==
    Quiet => \A u, v \in User \ strayed :
                \A r \in Room :
                    {u, v} \subseteq activeCalls[r] /\ u # v => v \in page[u].peers

-----------------------------------------------------------------------------
Ledger == INSTANCE CallLedger WITH current <- callMeta, saved <- messages

\* A room has one call at a time, and a call that ends by its last leave or lost
\* socket is taken to be saved once, unless another had replaced it (saveCallMessage
\* deletes the entry of callMeta before it inserts the message).
ImplementsLedger == Ledger!LedgerSpec
=============================================================================
