----------------------------- MODULE CallsProofs -----------------------------
(***************************************************************************)
(* Type correctness of Calls, the entries of its two maps of calls, and    *)
(* the refinement of CallLedger.  What the pages show of the calls is the  *)
(* subject of CallsViewsProofs.                                            *)
(***************************************************************************)
EXTENDS Calls, FiniteSetTheorems, TLAPS

-----------------------------------------------------------------------------
(* Sequences of packets *)

LEMMA Appended ==
    ASSUME NEW S, NEW s \in Seq(S), NEW t \in Seq(S)
    PROVE  s \o t \in Seq(S)
OBVIOUS

LEMMA Single ==
    ASSUME NEW S, NEW a \in S
    PROVE  <<a>> \in Seq(S)
OBVIOUS

LEMMA Two ==
    ASSUME NEW S, NEW a \in S, NEW b \in S
    PROVE  <<a, b>> \in Seq(S)
OBVIOUS

LEMMA Empty ==
    ASSUME NEW S
    PROVE  <<>> \in Seq(S)
OBVIOUS

LEMMA FirstAndRest ==
    ASSUME NEW S, NEW s \in Seq(S), s # <<>>
    PROVE  Head(s) \in S /\ Tail(s) \in Seq(S)
OBVIOUS

LEMMA Swapped ==
    ASSUME NEW S, NEW s \in Seq(S), Len(s) > 1
    PROVE  <<s[2], s[1]>> \o SubSeq(s, 3, Len(s)) \in Seq(S)
<1>1. s[1] \in S /\ s[2] \in S
  OBVIOUS
<1>2. SubSeq(s, 3, Len(s)) \in Seq(S)
  OBVIOUS
<1> QED BY <1>1, <1>2, Two, Appended

LEMMA LeftPackets ==
    ASSUME NEW S, S \subseteq Room, NEW u \in User, NEW order \in SetToSeqs(S)
    PROVE  [i \in DOMAIN order |-> Packet("call-user-left", order[i], u)] \in Seq(Event)
<1>1. IsFiniteSet(S)
  BY CallsAssumption, FS_Subset
<1>2. Cardinality(S) \in Nat
  BY <1>1, FS_CardinalityType
<1>3. order \in [1..Cardinality(S) -> S]
  BY DEF SetToSeqs
<1>4. \A i \in DOMAIN order : Packet("call-user-left", order[i], u) \in Event
  BY <1>3 DEF Packet, Event
<1> QED BY <1>2, <1>3, <1>4

LEMMA ToType ==
    ASSUME NEW S, NEW event \in Event
    PROVE  To(S, event) \in [User -> Seq(Event)]
BY Single, Empty DEF To

LEMMA NothingType == ASSUME NEW S PROVE Nothing \in [User -> Seq(S)]
BY Empty DEF Nothing

LEMMA AnswerType ==
    ASSUME TypeOK, NEW u \in User, up[u] # <<>>,
           NEW first \in [User -> Seq(Event)], NEW second \in [User -> Seq(Event)],
           Answer(u, first, second)
    PROVE  up' \in [User -> Seq(PagePacket)] /\ down' \in [User -> Seq(Event)]
<1>1. Tail(up[u]) \in Seq(PagePacket)
  BY FirstAndRest DEF TypeOK
<1>2. \A v \in User : down[v] \o first[v] \o second[v] \in Seq(Event)
  BY Appended DEF TypeOK
<1> QED BY <1>1, <1>2 DEF Answer, TypeOK

LEMMA EmitType ==
    ASSUME TypeOK, NEW u \in User, NEW packets \in Seq(PagePacket), Emit(u, packets)
    PROVE  up' \in [User -> Seq(PagePacket)]
<1>1. up[u] \o packets \in Seq(PagePacket)
  BY Appended DEF TypeOK
<1> QED BY <1>1 DEF Emit, TypeOK

-----------------------------------------------------------------------------
(* The handlers of a page *)

LEMMA PageFields ==
    ASSUME TypeOK, NEW u \in User
    PROVE  /\ page[u] \in Page
           /\ page[u].state \in {"idle", "calling", "in-call"}
           /\ page[u].room \in Room \cup {None}
           /\ page[u].peers \subseteq User
           /\ page[u].incoming \in [room: Room, caller: User] \cup {None}
BY DEF TypeOK, Page

LEMMA PageSet ==
    ASSUME TypeOK, NEW u \in User, NEW p \in Page, page' = [page EXCEPT ![u] = p]
    PROVE  page' \in [User -> Page]
BY DEF TypeOK

LEMMA PageMoved ==
    ASSUME NEW p \in Page, NEW state \in {"idle", "calling", "in-call"},
           NEW r \in Room \cup {None}
    PROVE  [p EXCEPT !.state = state, !.room = r] \in Page
BY DEF Page

LEMMA IdleType == IdlePage \in Page
BY DEF IdlePage, Page

LEMMA HandledType ==
    ASSUME TypeOK, NEW u \in User, down[u] # <<>>, NEW p \in Page,
           NEW packets \in Seq(PagePacket), NEW strays, Handled(u, p, packets, strays)
    PROVE  TypeOK'
<1>1. Tail(down[u]) \in Seq(Event)
  BY FirstAndRest DEF TypeOK
<1>2. down' \in [User -> Seq(Event)]
  BY <1>1 DEF Handled, TypeOK
<1>3. up' \in [User -> Seq(PagePacket)]
  BY EmitType DEF Handled
<1>4. page' \in [User -> Page]
  BY PageSet DEF Handled
<1>5. strayed' \subseteq User
  BY DEF Handled, TypeOK
<1> QED BY <1>2, <1>3, <1>4, <1>5 DEF Handled, TypeOK, maps

LEMMA handleStartCallType ==
    ASSUME TypeOK, NEW u \in User, handleStartCall(u)
    PROVE  TypeOK'
<1>1. PICK r \in Room :
         /\ page' = [page EXCEPT ![u] = [@ EXCEPT !.state = "calling", !.room = r]]
         /\ media' = [media EXCEPT ![u] = {[room |-> r, caller |-> None]}]
  BY DEF handleStartCall
<1>2. page' \in [User -> Page]
  <2>1. [page[u] EXCEPT !.state = "calling", !.room = r] \in Page
    BY PageFields, PageMoved
  <2> QED BY <1>1, <2>1, PageSet
<1>3. media' \in [User -> SUBSET MediaRequest]
  BY <1>1 DEF TypeOK, MediaRequest
<1>4. member \in Membership /\ MaxEvents[member] \in Nat
  BY CallsAssumption DEF TypeOK
<1>5. events' \in 0..MaxEvents[member]
  BY <1>4 DEF TypeOK, handleStartCall
<1> QED BY <1>2, <1>3, <1>5 DEF TypeOK, handleStartCall, maps

LEMMA StreamStartsType ==
    ASSUME TypeOK, NEW u \in User, StreamStarts(u)
    PROVE  TypeOK'
<1>1. PICK m \in media[u] :
         /\ media' = [media EXCEPT ![u] = @ \ {m}]
         /\ Emit(u, <<Packet("call-initiate", m.room, u)>>)
         /\ strayed' \in {strayed, strayed \cup {u}}
         /\ UNCHANGED <<member, page, number, online, events, down, maps>>
  BY DEF StreamStarts
<1>2. Packet("call-initiate", m.room, u) \in PagePacket
  BY DEF TypeOK, MediaRequest, Packet, PagePacket
<1>3. up' \in [User -> Seq(PagePacket)]
  BY <1>1, <1>2, EmitType, Single
<1> QED BY <1>1, <1>3 DEF TypeOK, maps

LEMMA StreamFailsType ==
    ASSUME TypeOK, NEW u \in User, StreamFails(u)
    PROVE  TypeOK'
<1>1. page' = [page EXCEPT ![u] = [@ EXCEPT !.state = "idle", !.room = None]]
  BY DEF StreamFails
<1>2. page' \in [User -> Page]
  <2>1. [page[u] EXCEPT !.state = "idle", !.room = None] \in Page
    BY PageFields, PageMoved
  <2> QED BY <1>1, <2>1, PageSet
<1> QED BY <1>2 DEF TypeOK, StreamFails, maps

LEMMA handleAcceptCallType ==
    ASSUME TypeOK, NEW u \in User, handleAcceptCall(u)
    PROVE  TypeOK'
<1>1. page[u].incoming \in MediaRequest
  BY PageFields DEF handleAcceptCall, MediaRequest
<1> QED BY <1>1 DEF TypeOK, handleAcceptCall, maps

LEMMA AcceptContinuesType ==
    ASSUME TypeOK, NEW u \in User, AcceptContinues(u)
    PROVE  TypeOK'
<1>1. PICK m \in media[u] :
         /\ m.caller # None
         /\ media' = [media EXCEPT ![u] = @ \ {m}]
         /\ page' = [page EXCEPT ![u] = [state |-> "in-call", room |-> m.room,
                                         peers |-> @.peers \cup {m.caller},
                                         incoming |-> None]]
         /\ Emit(u, <<Packet("call-join", m.room, u)>>)
         /\ strayed' \in {strayed, strayed \cup {u}}
         /\ UNCHANGED <<member, number, online, events, down, maps>>
  BY DEF AcceptContinues
<1>2. m.room \in Room /\ m.caller \in User
  BY <1>1 DEF TypeOK, MediaRequest
<1>3. page' \in [User -> Page]
  <2>1. [state |-> "in-call", room |-> m.room, peers |-> page[u].peers \cup {m.caller},
         incoming |-> None] \in Page
    BY <1>2, PageFields DEF Page
  <2> QED BY <1>1, <2>1 DEF TypeOK
<1>4. Packet("call-join", m.room, u) \in PagePacket
  BY <1>2 DEF Packet, PagePacket
<1>5. up' \in [User -> Seq(PagePacket)]
  BY <1>1, <1>4, EmitType, Single
<1> QED BY <1>1, <1>3, <1>5 DEF TypeOK, maps

LEMMA handleRejectCallType ==
    ASSUME TypeOK, NEW u \in User, handleRejectCall(u)
    PROVE  TypeOK'
<1>1. page[u].incoming \in [room: Room, caller: User]
  BY PageFields DEF handleRejectCall
<1>2. Packet("call-reject", page[u].incoming.room, page[u].incoming.caller) \in PagePacket
  BY <1>1 DEF Packet, PagePacket
<1>3. up' \in [User -> Seq(PagePacket)]
  BY <1>2, EmitType, Single DEF handleRejectCall
<1>4. page' \in [User -> Page]
  <2>1. [page[u] EXCEPT !.incoming = None] \in Page
    BY PageFields DEF Page
  <2> QED BY <2>1, PageSet DEF handleRejectCall
<1> QED BY <1>3, <1>4 DEF TypeOK, handleRejectCall, maps

LEMMA handleEndCallType ==
    ASSUME TypeOK, NEW u \in User, handleEndCall(u)
    PROVE  TypeOK'
<1>1. Packet("call-leave", page[u].room, u) \in PagePacket
  BY PageFields DEF Packet, PagePacket
<1>2. up' \in [User -> Seq(PagePacket)]
  BY <1>1, EmitType, Single DEF handleEndCall
<1>3. page' \in [User -> Page]
  BY IdleType, PageSet DEF handleEndCall
<1> QED BY <1>2, <1>3 DEF TypeOK, handleEndCall, maps

LEMMA EventFields ==
    ASSUME TypeOK, NEW u \in User, NEW type, Arrives(u, type), type # "call-ended"
    PROVE  /\ down[u] # <<>>
           /\ Head(down[u]).room \in Room
           /\ Head(down[u]).user \in User
<1>1. Head(down[u]) \in Event /\ Head(down[u]).type # "call-ended"
  BY FirstAndRest DEF Arrives, TypeOK
<1> QED BY <1>1 DEF Event, Arrives

LEMMA handleIncomingCallType ==
    ASSUME TypeOK, NEW u \in User, handleIncomingCall(u)
    PROVE  TypeOK'
<1> DEFINE e == Head(down[u])
           p == IF Busy(u) THEN page[u]
                ELSE [page[u] EXCEPT !.incoming = [room |-> e.room, caller |-> e.user]]
<1>1. down[u] # <<>> /\ e.room \in Room /\ e.user \in User
  BY EventFields DEF handleIncomingCall
<1>2. p \in Page
  BY <1>1, PageFields DEF Page
<1>3. Handled(u, p, <<>>, FALSE)
  BY DEF handleIncomingCall
<1> HIDE DEF p
<1> QED BY <1>1, <1>2, <1>3, HandledType, Empty

LEMMA handleCallUserJoinedType ==
    ASSUME TypeOK, NEW u \in User, handleCallUserJoined(u)
    PROVE  TypeOK'
<1> DEFINE e == Head(down[u])
           p == [page[u] EXCEPT !.peers = @ \cup {e.user},
                                !.state = IF Busy(u) THEN "in-call" ELSE "idle"]
           offer == IF Busy(u) THEN <<Packet("call-offer", e.room, e.user)>> ELSE <<>>
<1>1. down[u] # <<>> /\ e.room \in Room /\ e.user \in User
  BY EventFields DEF handleCallUserJoined
<1>2. CASE e.user = u
  <2>1. Handled(u, page[u], <<>>, FALSE)
    BY <1>2 DEF handleCallUserJoined
  <2> QED BY <1>1, <2>1, PageFields, HandledType, Empty
<1>3. CASE e.user # u
  <2>1. p \in Page
    <3> DEFINE state == IF Busy(u) THEN "in-call" ELSE "idle"
    <3>1. state \in {"idle", "calling", "in-call"}
      OBVIOUS
    <3> HIDE DEF state
    <3>2. [page[u] EXCEPT !.peers = @ \cup {e.user}] \in Page
      BY <1>1, PageFields DEF Page
    <3>3. [[page[u] EXCEPT !.peers = @ \cup {e.user}] EXCEPT !.state = state] \in Page
      BY <3>1, <3>2 DEF Page
    <3> QED BY <3>3 DEF state
  <2>2. Packet("call-offer", e.room, e.user) \in PagePacket
    BY <1>1 DEF Packet, PagePacket
  <2>3. offer \in Seq(PagePacket)
    BY <2>2, Single, Empty
  <2>4. Handled(u, p, offer, FALSE)
    BY <1>3 DEF handleCallUserJoined
  <2> HIDE DEF p, offer
  <2> QED BY <1>1, <2>1, <2>3, <2>4, HandledType
<1> QED BY <1>2, <1>3

LEMMA handleCallOfferType ==
    ASSUME TypeOK, NEW u \in User, handleCallOffer(u)
    PROVE  TypeOK'
<1> DEFINE p == [page[u] EXCEPT !.peers = @ \cup {Head(down[u]).user}]
<1>1. down[u] # <<>> /\ Head(down[u]).user \in User
  BY EventFields DEF handleCallOffer
<1>2. p \in Page
  BY <1>1, PageFields DEF Page
<1>3. Handled(u, p, <<>>, FALSE)
  BY DEF handleCallOffer
<1> HIDE DEF p
<1> QED BY <1>1, <1>2, <1>3, HandledType, Empty

LEMMA handleCallUserLeftType ==
    ASSUME TypeOK, NEW u \in User, handleCallUserLeft(u)
    PROVE  TypeOK'
<1> DEFINE left == page[u].peers \ {Head(down[u]).user}
           p == [page[u] EXCEPT !.peers = left]
           leave == Packet("call-leave", page[u].room, u)
<1>1. down[u] # <<>>
  BY DEF handleCallUserLeft, Arrives
<1>2. CASE left = {}
  <2>1. leave \in PagePacket
    BY PageFields DEF Packet, PagePacket
  <2>2. Handled(u, IdlePage, <<leave>>, FALSE)
    BY <1>2 DEF handleCallUserLeft
  <2> HIDE DEF leave
  <2> QED BY <1>1, <2>1, <2>2, IdleType, HandledType, Single
<1>3. CASE left # {}
  <2>1. p \in Page
    BY PageFields DEF Page
  <2>2. Handled(u, p, <<>>, FALSE)
    BY <1>3 DEF handleCallUserLeft
  <2> HIDE DEF p
  <2> QED BY <1>1, <2>1, <2>2, HandledType, Empty
<1> QED BY <1>2, <1>3

LEMMA handleCallEndedType ==
    ASSUME TypeOK, NEW u \in User, handleCallEnded(u)
    PROVE  TypeOK'
BY IdleType, HandledType, Empty DEF handleCallEnded, Arrives

LEMMA handleCallRejectedType ==
    ASSUME TypeOK, NEW u \in User, handleCallRejected(u)
    PROVE  TypeOK'
<1>1. (IF page[u].peers = {} THEN IdlePage ELSE page[u]) \in Page
  BY IdleType, PageFields
<1> QED BY <1>1, HandledType, Empty DEF handleCallRejected, Arrives

LEMMA DisconnectType ==
    ASSUME TypeOK, NEW u \in User, Disconnect(u)
    PROVE  TypeOK'
<1>1. member \in Membership /\ MaxEvents[member] \in Nat
  BY CallsAssumption DEF TypeOK
<1> QED BY <1>1, Empty DEF TypeOK, Disconnect, maps

LEMMA ReconnectType ==
    ASSUME TypeOK, NEW u \in User, Reconnect(u)
    PROVE  TypeOK'
<1>1. /\ Packet("join-chat-rooms", None, u) \in PagePacket
      /\ Packet("register-user", None, u) \in PagePacket
  BY DEF Packet, PagePacket
<1>2. up' \in [User -> Seq(PagePacket)]
  BY <1>1, EmitType, Two DEF Reconnect
<1>3. sockets' \subseteq Socket /\ number' \in [User -> {1, 2}]
  BY DEF Reconnect, TypeOK, Socket
<1> QED BY <1>2, <1>3 DEF TypeOK, Reconnect

-----------------------------------------------------------------------------
(* The handlers of the gateway *)

LEMMA SocketType == ASSUME TypeOK, NEW u \in User PROVE SocketOf(u) \in Socket
BY DEF TypeOK, SocketOf, Socket

LEMMA PacketFields ==
    ASSUME TypeOK, NEW u \in User,
           NEW type \in {"call-initiate", "call-join", "call-reject", "call-offer"},
           Received(u, type)
    PROVE  /\ up[u] # <<>>
           /\ Head(up[u]).room \in Room
           /\ Head(up[u]).user \in User
<1>1. Head(up[u]) \in PagePacket /\ Head(up[u]).type = type
  BY FirstAndRest DEF Received, TypeOK
<1> QED BY <1>1 DEF PagePacket, Received

LEMMA handleJoinChatRoomsType ==
    ASSUME TypeOK, NEW u \in User, handleJoinChatRooms(u)
    PROVE  TypeOK'
<1>1. up' \in [User -> Seq(PagePacket)] /\ down' \in [User -> Seq(Event)]
  BY AnswerType, NothingType DEF handleJoinChatRooms, Received
<1>2. chatSockets' \in [Room -> SUBSET Socket]
  <2>1. \A r \in Room : {SocketOf(v) : v \in {u} \cap member[r]} \subseteq Socket
    BY SocketType
  <2> QED BY <2>1 DEF handleJoinChatRooms, TypeOK
<1> QED BY <1>1, <1>2 DEF TypeOK, handleJoinChatRooms, pages

LEMMA handleRegisterUserType ==
    ASSUME TypeOK, NEW u \in User, handleRegisterUser(u)
    PROVE  TypeOK'
<1>1. up' \in [User -> Seq(PagePacket)] /\ down' \in [User -> Seq(Event)]
  BY AnswerType, NothingType DEF handleRegisterUser, Received
<1>2. /\ userSockets' \in [User -> Socket \cup {None}]
      /\ socketUsers' \in [Socket -> User \cup {None}]
  BY SocketType DEF handleRegisterUser, TypeOK
<1> QED BY <1>1, <1>2 DEF TypeOK, handleRegisterUser, pages

LEMMA AwaitsSocketsType ==
    ASSUME TypeOK, NEW u \in User, AwaitsSockets(u)
    PROVE  TypeOK'
<1>1. <<up[u][2], up[u][1]>> \o SubSeq(up[u], 3, Len(up[u])) \in Seq(PagePacket)
  BY Swapped DEF AwaitsSockets, TypeOK
<1> QED BY <1>1 DEF TypeOK, AwaitsSockets, pages, maps

LEMMA handleCallInitiateType ==
    ASSUME TypeOK, NEW u \in User, handleCallInitiate(u)
    PROVE  TypeOK'
<1> DEFINE r == Head(up[u]).room
<1>1. up[u] # <<>> /\ r \in Room
  BY PacketFields DEF handleCallInitiate
<1>2. Packet("incoming-call", r, u) \in Event
  BY <1>1 DEF Packet, Event
<1>3. up' \in [User -> Seq(PagePacket)] /\ down' \in [User -> Seq(Event)]
  BY <1>1, <1>2, AnswerType, ToType, NothingType DEF handleCallInitiate
<1>4. /\ activeCalls' \in [Room -> SUBSET User]
      /\ started' \in Nat
      /\ callMeta' \in [Room -> Nat \cup {None}]
      /\ strayed' \subseteq User
  BY <1>1 DEF handleCallInitiate, TypeOK
<1>5. callSockets' \in [Room -> SUBSET Socket]
  BY SocketType DEF handleCallInitiate, TypeOK
<1> QED BY <1>3, <1>4, <1>5 DEF TypeOK, handleCallInitiate, pages

LEMMA handleCallJoinType ==
    ASSUME TypeOK, NEW u \in User, handleCallJoin(u)
    PROVE  TypeOK'
<1> DEFINE r == Head(up[u]).room
<1>1. up[u] # <<>> /\ r \in Room
  BY PacketFields DEF handleCallJoin
<1>2. CASE activeCalls[r] = {}
  <2>1. up' \in [User -> Seq(PagePacket)] /\ down' \in [User -> Seq(Event)]
    BY <1>1, <1>2, AnswerType, NothingType DEF handleCallJoin
  <2> QED BY <1>2, <2>1 DEF TypeOK, handleCallJoin, pages
<1>3. CASE activeCalls[r] # {}
  <2>1. /\ activeCalls' = [activeCalls EXCEPT ![r] = @ \cup {u}]
        /\ callSockets' = [callSockets EXCEPT ![r] = @ \cup {SocketOf(u)}]
        /\ Answer(u, To(callSockets'[r], Packet("call-user-joined", r, u)), Nothing)
        /\ UNCHANGED strayed
    BY <1>3 DEF handleCallJoin
  <2>2. Packet("call-user-joined", r, u) \in Event
    BY <1>1 DEF Packet, Event
  <2>3. up' \in [User -> Seq(PagePacket)] /\ down' \in [User -> Seq(Event)]
    BY <1>1, <2>1, <2>2, AnswerType, ToType, NothingType
  <2>4. activeCalls' \in [Room -> SUBSET User]
    BY <2>1 DEF TypeOK
  <2>5. callSockets' \in [Room -> SUBSET Socket]
    BY <2>1, SocketType DEF TypeOK
  <2> QED BY <2>1, <2>3, <2>4, <2>5 DEF TypeOK, handleCallJoin, pages
<1> QED BY <1>2, <1>3

LEMMA RelayType ==
    ASSUME TypeOK, NEW u \in User, up[u] # <<>>, NEW user, NEW event \in Event,
           Relay(u, user, event)
    PROVE  TypeOK'
<1>1. up' \in [User -> Seq(PagePacket)] /\ down' \in [User -> Seq(Event)]
  BY AnswerType, ToType, NothingType DEF Relay
<1> QED BY <1>1 DEF TypeOK, Relay, pages, maps

LEMMA RelayCallOfferType ==
    ASSUME TypeOK, NEW u \in User, RelayCallOffer(u)
    PROVE  TypeOK'
<1> DEFINE p == Head(up[u])
<1>1. up[u] # <<>> /\ p.room \in Room
  BY PacketFields DEF RelayCallOffer
<1>2. Packet("call-offer", p.room, u) \in Event
  BY <1>1 DEF Packet, Event
<1>3. Relay(u, p.user, Packet("call-offer", p.room, u))
  BY DEF RelayCallOffer
<1> QED BY <1>1, <1>2, <1>3, RelayType

LEMMA handleCallRejectType ==
    ASSUME TypeOK, NEW u \in User, handleCallReject(u)
    PROVE  TypeOK'
<1> DEFINE p == Head(up[u])
<1>1. up[u] # <<>> /\ p.room \in Room
  BY PacketFields DEF handleCallReject
<1>2. Packet("call-rejected", p.room, u) \in Event
  BY <1>1 DEF Packet, Event
<1>3. Relay(u, p.user, Packet("call-rejected", p.room, u))
  BY DEF handleCallReject
<1> QED BY <1>1, <1>2, <1>3, RelayType

LEMMA SaveType ==
    ASSUME TypeOK, NEW R, R \subseteq Room, SaveCalls(R)
    PROVE  callMeta' \in [Room -> Nat \cup {None}] /\ messages' \subseteq Nat
<1>1. callMeta' \in [Room -> Nat \cup {None}]
  BY DEF SaveCalls, TypeOK
<1>2. \A r \in R : callMeta[r] \in Nat \cup {None}
  BY DEF TypeOK
<1>3. {callMeta[r] : r \in R} \ {None} \subseteq Nat
  BY <1>2
<1> QED BY <1>1, <1>3 DEF SaveCalls, TypeOK

LEMMA handleCallLeaveType ==
    ASSUME TypeOK, NEW u \in User, handleCallLeave(u)
    PROVE  TypeOK'
<1> DEFINE r == Head(up[u]).room
<1>1. Head(up[u]) \in PagePacket /\ up[u] # <<>>
  BY FirstAndRest DEF TypeOK, handleCallLeave, Received
<1>2. CASE r = None
  BY <1>2, AnswerType, NothingType DEF TypeOK, handleCallLeave, Received, pages
<1>3. CASE r # None
  <2>1. r \in Room
    BY <1>1, <1>3 DEF PagePacket
  <2>2. /\ activeCalls' = [activeCalls EXCEPT ![r] = @ \ {u}]
        /\ callSockets' = [callSockets EXCEPT ![r] = @ \ {SocketOf(u)}]
        /\ SaveCalls(IF activeCalls'[r] = {} THEN {r} ELSE {})
        /\ Answer(u, To(callSockets'[r], Packet("call-user-left", r, u)),
                  IF activeCalls'[r] = {}
                  THEN To(chatSockets[r], Packet("call-ended", r, None)) ELSE Nothing)
    BY <1>3 DEF handleCallLeave
  <2>3. Packet("call-user-left", r, u) \in Event /\ Packet("call-ended", r, None) \in Event
    BY <2>1 DEF Packet, Event
  <2>4. /\ To(callSockets'[r], Packet("call-user-left", r, u)) \in [User -> Seq(Event)]
        /\ (IF activeCalls'[r] = {}
            THEN To(chatSockets[r], Packet("call-ended", r, None)) ELSE Nothing)
              \in [User -> Seq(Event)]
    BY <2>3, ToType, NothingType
  <2>5. up' \in [User -> Seq(PagePacket)] /\ down' \in [User -> Seq(Event)]
    BY <1>1, <2>2, <2>4, AnswerType
  <2>6. /\ activeCalls' \in [Room -> SUBSET User]
        /\ callSockets' \in [Room -> SUBSET Socket]
    BY <2>2 DEF TypeOK
  <2>7. callMeta' \in [Room -> Nat \cup {None}] /\ messages' \subseteq Nat
    <3> DEFINE E == IF activeCalls'[r] = {} THEN {r} ELSE {}
    <3>1. E \subseteq Room
      BY <2>1
    <3>2. SaveCalls(E)
      BY <2>2
    <3> HIDE DEF E
    <3> QED BY <3>1, <3>2, SaveType
  <2> QED BY <2>5, <2>6, <2>7 DEF TypeOK, handleCallLeave, pages
<1> QED BY <1>2, <1>3

LEMMA handleDisconnectType ==
    ASSUME TypeOK, NEW s \in Socket, handleDisconnect(s)
    PROVE  TypeOK'
<1> DEFINE u == socketUsers[s]
           R == IF u = None THEN {} ELSE {r \in Room : u \in activeCalls[r]}
<1>1. u \in User \cup {None} /\ R \subseteq Room
  BY DEF TypeOK
<1>2. PICK orders \in [User -> UNION {SetToSeqs(S) : S \in SUBSET R}] :
         /\ \A v \in User :
              orders[v] \in
                 SetToSeqs({r \in R : v \in online /\ SocketOf(v) \in callSockets'[r]})
         /\ down' = [v \in User |-> down[v] \o
                       [i \in DOMAIN orders[v] |->
                           Packet("call-user-left", orders[v][i], u)]]
  BY DEF handleDisconnect
<1>3. \A v \in User :
        [i \in DOMAIN orders[v] |-> Packet("call-user-left", orders[v][i], u)] \in Seq(Event)
  <2> SUFFICES ASSUME NEW v \in User
               PROVE  [i \in DOMAIN orders[v] |->
                          Packet("call-user-left", orders[v][i], u)] \in Seq(Event)
    OBVIOUS
  <2> DEFINE S == {r \in R : v \in online /\ SocketOf(v) \in callSockets'[r]}
  <2>1. orders[v] \in SetToSeqs(S)
    BY <1>2
  <2>2. CASE u \in User
    BY <1>1, <2>1, <2>2, LeftPackets
  <2>3. CASE u = None
    <3>1. S = {}
      BY <2>3
    <3>2. orders[v] \in SetToSeqs({})
      BY <2>1, <3>1
    <3>3. DOMAIN orders[v] = {}
      BY <3>2, FS_EmptySet DEF SetToSeqs
    <3> QED BY <3>3, Empty
  <2> QED BY <1>1, <2>2, <2>3
<1>4. down' \in [User -> Seq(Event)]
  BY <1>2, <1>3, Appended DEF TypeOK
<1>5. /\ sockets' \subseteq Socket
      /\ userSockets' \in [User -> Socket \cup {None}]
      /\ socketUsers' \in [Socket -> User \cup {None}]
      /\ chatSockets' \in [Room -> SUBSET Socket]
      /\ callSockets' \in [Room -> SUBSET Socket]
      /\ activeCalls' \in [Room -> SUBSET User]
      /\ strayed' \subseteq User
  BY <1>1 DEF handleDisconnect, TypeOK
<1>6. callMeta' \in [Room -> Nat \cup {None}] /\ messages' \subseteq Nat
  BY <1>1, SaveType DEF handleDisconnect
<1> QED BY <1>4, <1>5, <1>6 DEF TypeOK, handleDisconnect, pages

LEMMA InitType == Init => TypeOK
<1> SUFFICES ASSUME Init PROVE TypeOK
  OBVIOUS
<1>1. member \in Membership /\ MaxEvents[member] \in Nat
  BY CallsAssumption DEF Init
<1>2. \A u \in User : SocketOf(u) \in Socket /\ SocketOf(u)[1] = u
  BY DEF Init, SocketOf, Socket
<1>3. sockets \subseteq Socket
  BY <1>2 DEF Init
<1>4. socketUsers \in [Socket -> User \cup {None}]
  BY <1>3 DEF Init, Socket
<1>5. chatSockets \in [Room -> SUBSET Socket]
  <2>1. \A r \in Room : member[r] \subseteq User
    BY <1>1, CallsAssumption
  <2> QED BY <1>2, <2>1 DEF Init
<1>6. userSockets \in [User -> Socket \cup {None}]
  BY <1>2 DEF Init
<1>7. page \in [User -> Page] /\ number \in [User -> {1, 2}]
  BY IdleType DEF Init
<1>8. up \in [User -> Seq(PagePacket)] /\ down \in [User -> Seq(Event)]
  BY NothingType DEF Init
<1>9. media \in [User -> SUBSET MediaRequest]
  BY DEF Init
<1> QED BY <1>1, <1>3, <1>4, <1>5, <1>6, <1>7, <1>8, <1>9 DEF Init, TypeOK

-----------------------------------------------------------------------------
(* What becomes of the calls in a step *)

LEMMA Kept == UNCHANGED <<activeCalls, callMeta, started, messages>> /\ CallHasMeta => CallHasMeta'
BY DEF CallHasMeta

LEMMA LeaveCalls ==
    ASSUME TypeOK, CallHasMeta, NEW u \in User, handleCallLeave(u)
    PROVE  /\ CallHasMeta'
           /\ [Ledger!NextLedger]_Ledger!ledger
<1> DEFINE r == Head(up[u]).room
<1>1. Head(up[u]) \in PagePacket
  BY FirstAndRest DEF TypeOK, handleCallLeave, Received
<1>2. CASE r = None
  BY <1>2, Kept DEF handleCallLeave, Ledger!ledger
<1>3. CASE r # None
  <2>1. r \in Room
    BY <1>1, <1>3 DEF PagePacket
  <2>2. /\ activeCalls' = [activeCalls EXCEPT ![r] = @ \ {u}]
        /\ SaveCalls(IF activeCalls'[r] = {} THEN {r} ELSE {})
        /\ UNCHANGED started
    BY <1>3 DEF handleCallLeave
  <2>3. CallHasMeta'
    BY <2>1, <2>2 DEF CallHasMeta, TypeOK, SaveCalls
  <2>4. CASE activeCalls'[r] # {} \/ callMeta[r] = None
    <3>1. UNCHANGED <<callMeta, messages>>
      BY <2>1, <2>2, <2>4 DEF SaveCalls, TypeOK
    <3> QED BY <2>2, <2>3, <3>1 DEF Ledger!ledger
  <2>5. CASE activeCalls'[r] = {} /\ callMeta[r] # None
    <3>1. Ledger!End({r})
      BY <2>1, <2>2, <2>5 DEF SaveCalls, TypeOK, Ledger!End
    <3> QED BY <2>1, <2>3, <3>1 DEF Ledger!NextLedger
  <2> QED BY <2>4, <2>5
<1> QED BY <1>2, <1>3

LEMMA DisconnectCalls ==
    ASSUME TypeOK, CallHasMeta, NEW s \in Socket, handleDisconnect(s)
    PROVE  /\ CallHasMeta'
           /\ [Ledger!NextLedger]_Ledger!ledger
<1> DEFINE u == socketUsers[s]
           R == IF u = None THEN {} ELSE {r \in Room : u \in activeCalls[r]}
           Emptied == {r \in R : activeCalls'[r] = {}}
<1>1. /\ activeCalls' = [r \in Room |-> activeCalls[r] \ {u}]
      /\ SaveCalls(Emptied)
      /\ UNCHANGED started
  BY DEF handleDisconnect
<1>2. \A r \in Room : u \in activeCalls[r] => u # None
  BY CallsAssumption DEF TypeOK
<1>3. Emptied = {r \in Room : activeCalls[r] # {} /\ activeCalls'[r] = {}}
  BY <1>1, <1>2
<1>4. \A r \in Emptied : callMeta[r] # None
  BY <1>3 DEF CallHasMeta
<1> HIDE DEF Emptied
<1>5. CallHasMeta'
  <2>1. \A r \in Room : activeCalls'[r] = {} <=> activeCalls[r] = {} \/ r \in Emptied
    BY <1>1, <1>3
  <2>2. \A r \in Room : callMeta'[r] = None <=> callMeta[r] = None \/ r \in Emptied
    BY <1>1 DEF SaveCalls
  <2> QED BY <2>1, <2>2 DEF CallHasMeta
<1>6. Ledger!End(Emptied)
  <2>1. {callMeta[r] : r \in Emptied} \ {None} = {callMeta[r] : r \in Emptied}
    BY <1>4
  <2> QED BY <1>1, <1>4, <2>1 DEF SaveCalls, Ledger!End
<1>7. Emptied \in SUBSET Room
  BY <1>3
<1> QED BY <1>5, <1>6, <1>7 DEF Ledger!NextLedger

LEMMA InitiateCalls ==
    ASSUME TypeOK, CallHasMeta, NEW u \in User, handleCallInitiate(u)
    PROVE  /\ CallHasMeta'
           /\ [Ledger!NextLedger]_Ledger!ledger
<1> DEFINE r == Head(up[u]).room
<1>1. Head(up[u]) \in PagePacket /\ Head(up[u]).type = "call-initiate"
  BY FirstAndRest DEF TypeOK, handleCallInitiate, Received
<1>2. r \in Room
  BY <1>1 DEF PagePacket
<1>3. /\ activeCalls' = [activeCalls EXCEPT ![r] = {u}]
      /\ started' = started + 1
      /\ callMeta' = [callMeta EXCEPT ![r] = started']
      /\ UNCHANGED messages
  BY DEF handleCallInitiate
<1>4. started' # None
  BY <1>3, CallsAssumption DEF TypeOK
<1>5. CallHasMeta'
  BY <1>2, <1>3, <1>4 DEF CallHasMeta, TypeOK
<1>6. Ledger!Start(r)
  BY <1>3 DEF Ledger!Start
<1> QED BY <1>2, <1>5, <1>6 DEF Ledger!NextLedger

LEMMA JoinCalls ==
    ASSUME TypeOK, CallHasMeta, NEW u \in User, handleCallJoin(u)
    PROVE  /\ CallHasMeta'
           /\ [Ledger!NextLedger]_Ledger!ledger
<1> DEFINE r == Head(up[u]).room
<1>1. Head(up[u]) \in PagePacket /\ Head(up[u]).type = "call-join"
  BY FirstAndRest DEF TypeOK, handleCallJoin, Received
<1>2. r \in Room
  BY <1>1 DEF PagePacket
<1>3. UNCHANGED <<callMeta, started, messages>>
  BY DEF handleCallJoin
<1>4. \A q \in Room : activeCalls'[q] = {} <=> activeCalls[q] = {}
  <2>1. CASE activeCalls[r] = {}
    BY <2>1 DEF handleCallJoin
  <2>2. CASE activeCalls[r] # {}
    <3>1. activeCalls' = [activeCalls EXCEPT ![r] = @ \cup {u}]
      BY <2>2 DEF handleCallJoin
    <3> QED BY <1>2, <2>2, <3>1 DEF TypeOK
  <2> QED BY <2>1, <2>2
<1> QED BY <1>3, <1>4 DEF CallHasMeta, Ledger!ledger

-----------------------------------------------------------------------------
(* Every step *)

LEMMA TypeStep == TypeOK /\ [Next]_vars => TypeOK'
<1> SUFFICES ASSUME TypeOK, [Next]_vars PROVE TypeOK'
  OBVIOUS
<1>1. ASSUME NEW u \in User,
             \/ handleStartCall(u) \/ StreamStarts(u) \/ StreamFails(u)
             \/ handleAcceptCall(u) \/ AcceptContinues(u) \/ handleRejectCall(u)
             \/ handleEndCall(u)
      PROVE  TypeOK'
  BY <1>1, handleStartCallType, StreamStartsType, StreamFailsType, handleAcceptCallType,
     AcceptContinuesType, handleRejectCallType, handleEndCallType
<1>2. ASSUME NEW u \in User,
             \/ handleIncomingCall(u) \/ handleCallUserJoined(u) \/ handleCallOffer(u)
             \/ handleCallUserLeft(u) \/ handleCallEnded(u) \/ handleCallRejected(u)
             \/ Disconnect(u) \/ Reconnect(u)
      PROVE  TypeOK'
  BY <1>2, handleIncomingCallType, handleCallUserJoinedType, handleCallOfferType,
     handleCallUserLeftType, handleCallEndedType, handleCallRejectedType, DisconnectType,
     ReconnectType
<1>3. ASSUME NEW u \in User,
             \/ handleJoinChatRooms(u) \/ handleRegisterUser(u) \/ AwaitsSockets(u)
             \/ handleCallInitiate(u) \/ handleCallJoin(u) \/ RelayCallOffer(u)
             \/ handleCallReject(u) \/ handleCallLeave(u)
      PROVE  TypeOK'
  BY <1>3, handleJoinChatRoomsType, handleRegisterUserType, AwaitsSocketsType,
     handleCallInitiateType, handleCallJoinType, RelayCallOfferType, handleCallRejectType,
     handleCallLeaveType
<1>4. ASSUME NEW s \in Socket, handleDisconnect(s) PROVE TypeOK'
  BY <1>4, handleDisconnectType
<1>5. CASE UNCHANGED vars
  BY <1>5 DEF vars, pages, maps, TypeOK
<1> QED BY <1>1, <1>2, <1>3, <1>4, <1>5 DEF Next

\* Only four packets and the end of a socket change what becomes of the calls.
LEMMA CallsStep ==
    ASSUME TypeOK, CallHasMeta, [Next]_vars
    PROVE  CallHasMeta' /\ [Ledger!NextLedger]_Ledger!ledger
<1> DEFINE same == UNCHANGED <<activeCalls, callMeta, started, messages>>
<1>1. ASSUME NEW u \in User,
             \/ handleStartCall(u) \/ StreamStarts(u) \/ StreamFails(u)
             \/ handleAcceptCall(u) \/ AcceptContinues(u) \/ handleRejectCall(u)
             \/ handleEndCall(u)
      PROVE  same
  BY <1>1 DEF handleStartCall, StreamStarts, StreamFails, handleAcceptCall,
     AcceptContinues, handleRejectCall, handleEndCall, maps
<1>2. ASSUME NEW u \in User,
             \/ handleIncomingCall(u) \/ handleCallUserJoined(u) \/ handleCallOffer(u)
             \/ handleCallUserLeft(u) \/ handleCallEnded(u) \/ handleCallRejected(u)
             \/ Disconnect(u) \/ Reconnect(u)
      PROVE  same
  BY <1>2 DEF handleIncomingCall, handleCallUserJoined, handleCallOffer,
     handleCallUserLeft, handleCallEnded, handleCallRejected, Handled, Disconnect, Reconnect,
     maps
<1>3. ASSUME NEW u \in User,
             \/ handleJoinChatRooms(u) \/ handleRegisterUser(u) \/ AwaitsSockets(u)
             \/ RelayCallOffer(u) \/ handleCallReject(u)
      PROVE  same
  BY <1>3 DEF handleJoinChatRooms, handleRegisterUser, AwaitsSockets, RelayCallOffer,
     handleCallReject, Relay, maps
<1>4. CASE UNCHANGED vars
  BY <1>4, Kept DEF vars, maps, Ledger!ledger
<1>5. CASE same
  BY <1>5, Kept DEF Ledger!ledger
<1> QED BY <1>1, <1>2, <1>3, <1>4, <1>5, InitiateCalls, JoinCalls, LeaveCalls,
           DisconnectCalls DEF Next

-----------------------------------------------------------------------------
\* Every variable of the gateway, of the pages and of the packets between them
\* keeps its type: what a handler of ws.gateway.ts or ChatPage.tsx receives has
\* the room and the user it goes on with.
THEOREM TypeCorrect == Spec => []TypeOK
<1>1. TypeOK /\ [Next]_vars => TypeOK'
  BY TypeStep
<1> QED BY <1>1, InitType, PTL DEF Spec

\* activeCalls and callMeta of ws.gateway.ts have entries for the same rooms,
\* for any users, rooms and connections.
THEOREM MetaKept == Spec => []CallHasMeta
<1>1. Init => CallHasMeta
  BY DEF Init, CallHasMeta
<1>2. TypeOK /\ CallHasMeta /\ [Next]_vars => CallHasMeta'
  BY CallsStep
<1> QED BY <1>1, <1>2, TypeCorrect, PTL DEF Spec

\* The gateway implements the ledger: a call ends once, with the call of its
\* room handed over to be saved, and is saved by nothing else.
THEOREM Implementation == Spec => ImplementsLedger
<1>1. Init => Ledger!InitLedger
  BY DEF Init, Ledger!InitLedger
<1>2. TypeOK /\ CallHasMeta /\ [Next]_vars => [Ledger!NextLedger]_Ledger!ledger
  BY CallsStep
<1> QED BY <1>1, <1>2, TypeCorrect, MetaKept, PTL DEF Spec, ImplementsLedger, Ledger!LedgerSpec

LEMMA SavedOnceStep ==
    ASSUME TypeOK, Ledger!SavedOnce, [Ledger!NextLedger]_Ledger!ledger
    PROVE  Ledger!SavedOnce'
<1> USE DEF Ledger!SavedOnce
<1>1. started \in Nat /\ callMeta \in [Room -> Nat \cup {None}]
  BY DEF TypeOK
<1>2. ASSUME NEW r \in Room, Ledger!Start(r) PROVE Ledger!SavedOnce'
  <2>1. /\ started' = started + 1
        /\ callMeta' = [callMeta EXCEPT ![r] = started']
        /\ UNCHANGED messages
    BY <1>2 DEF Ledger!Start
  <2>2. started' \notin 1..started /\ 1..started \subseteq 1..started'
    BY <1>1, <2>1
  <2>3. \A q \in Room : callMeta'[q] = IF q = r THEN started' ELSE callMeta[q]
    BY <1>1, <2>1
  <2>4. started' \in 1..started'
    BY <1>1, <2>1
  <2>5. messages' \subseteq 1..started'
    BY <2>1, <2>2
  <2>6. \A q \in Room : callMeta'[q] # None => callMeta'[q] \in (1..started') \ messages'
    BY <2>1, <2>2, <2>3, <2>4
  <2>7. \A p, q \in Room : callMeta'[p] # None /\ callMeta'[p] = callMeta'[q] => p = q
    BY <2>2, <2>3
  <2> QED BY <2>5, <2>6, <2>7
<1>3. ASSUME NEW R \in SUBSET Room, Ledger!End(R) PROVE Ledger!SavedOnce'
  <2>1. /\ callMeta' = [r \in Room |-> IF r \in R THEN None ELSE callMeta[r]]
        /\ messages' = messages \cup {callMeta[r] : r \in R}
        /\ UNCHANGED started
        /\ \A r \in R : callMeta[r] # None
    BY <1>3 DEF Ledger!End
  <2>2. messages' \subseteq 1..started'
    BY <2>1
  <2>3. \A q \in Room : callMeta'[q] # None => callMeta'[q] \in (1..started') \ messages'
    BY <2>1
  <2>4. \A p, q \in Room : callMeta'[p] # None /\ callMeta'[p] = callMeta'[q] => p = q
    BY <2>1
  <2> QED BY <2>2, <2>3, <2>4
<1>4. CASE UNCHANGED Ledger!ledger
  BY <1>4 DEF Ledger!ledger
<1> QED BY <1>2, <1>3, <1>4 DEF Ledger!NextLedger

\* No call is saved twice, and none is saved while it goes on, whatever leaves,
\* joins and lost sockets meet in handleCallLeave and handleDisconnect.
THEOREM RecordedOnce == Spec => []Ledger!SavedOnce
<1>1. Init => Ledger!SavedOnce
  BY DEF Init, Ledger!SavedOnce
<1>2. /\ TypeOK /\ CallHasMeta /\ Ledger!SavedOnce /\ [Next]_vars
      => Ledger!SavedOnce'
  BY CallsStep, SavedOnceStep
<1> QED BY <1>1, <1>2, TypeCorrect, MetaKept, PTL DEF Spec
=============================================================================
