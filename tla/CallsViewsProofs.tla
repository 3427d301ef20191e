--------------------------- MODULE CallsViewsProofs ---------------------------
(***************************************************************************)
(* What the pages show of calls, and who is in them at the gateway.        *)
(*                                                                         *)
(* Nothing is claimed of users who have strayed.  Of any other user u:     *)
(*   - the packets that u has emitted lead from the calls that the gateway *)
(*     has u in to the call that the page of u shows (ViewInv);            *)
(*   - if u and v are in one call and have emitted nothing that takes them *)
(*     out of it, then u has v among its participants once the events that *)
(*     u is to receive are handled, or v is about to send u an offer       *)
(*     (PairInv).                                                          *)
(* When nothing is under way, the first is ViewsAgree and the second       *)
(* PeersKnown.                                                             *)
(***************************************************************************)
EXTENDS CallsProofs, SumLemmas, SequenceTheorems

-----------------------------------------------------------------------------
(* The invariant *)

\* What changes the calls that the sender is in.
Command(p) ==
    p.type \in {"call-initiate", "call-join"} \/ (p.type = "call-leave" /\ p.room # None)

\* Packet p takes its sender from the calls S to the calls T.
Turns(S, p, T) ==
    \/ p.type \in {"call-initiate", "call-join"} /\ S = {} /\ T = {p.room}
    \/ p.type = "call-leave" /\ p.room # None /\ S \subseteq {p.room} /\ T = {}
    \/ ~Command(p) /\ T = S

\* f has the calls before, between and after the packets.
Path(f, S, packets, T) ==
    /\ f \in [1..(Len(packets) + 1) -> SUBSET Room]
    /\ f[1] = S /\ f[Len(packets) + 1] = T
    /\ \A i \in 1..Len(packets) : Turns(f[i], packets[i], f[i + 1])

Leads(S, packets, T) == \E f : Path(f, S, packets, T)

InCalls(u) == {r \in Room : u \in activeCalls[r]}

\* The call that page p with requests ms for media shows, and has told the gateway of.
ShownBy(p, ms) ==
    IF p.state # "idle" /\ ~ \E m \in ms : m.caller = None THEN {p.room} ELSE {}

Shown(u) == ShownBy(page[u], media[u])

Registered(u) == userSockets[u] = SocketOf(u)

NoJoin(s) == \A i \in 1..Len(s) : s[i].type # "call-join"

\* The registration goes out before u joins a call.
Registering(s) ==
    \E i \in 1..Len(s) : /\ s[i].type = "register-user"
                         /\ \A j \in 1..Len(s) : j < i => s[j].type # "call-join"

PageInv(u) ==
    /\ page[u].state = "idle" <=> page[u].room = None
    /\ \A m, n \in media[u] : m = n
    /\ number[u] = 1 => \A r \in Room : <<u, 2>> \notin callSockets[r]
    /\ u \notin online => number[u] = 1

ViewInv(u) ==
    /\ Leads(InCalls(u), up[u], Shown(u))
    /\ \A r \in Room : SocketOf(u) \in callSockets[r] <=> u \in activeCalls[r]
    /\ u \notin online => InCalls(u) = {} /\ NoJoin(up[u])
    /\ u \in online => Registered(u) \/ Registering(up[u])

Still(s) == \A i \in 1..Len(s) : ~Command(s[i])

\* Event e makes a page add v to its participants, or drop v.
Adds(e, v) == e.type \in {"call-user-joined", "call-offer"} /\ e.user = v
Drops(e, v) == e.type = "call-user-left" /\ e.user = v

Clear(s, v) == \A j \in 1..Len(s) : ~Drops(s[j], v)
Hears(s, v) ==
    \E i \in 1..Len(s) : /\ Adds(s[i], v)
                         /\ \A j \in 1..Len(s) : j > i => ~Drops(s[j], v)

\* u has v among its participants once it has handled its events.
Learns(u, v) == (v \in page[u].peers /\ Clear(down[u], v)) \/ Hears(down[u], v)

HasOffer(s, u) == \E i \in 1..Len(s) : s[i].type = "call-offer" /\ s[i].user = u
HasJoined(s, u) == \E i \in 1..Len(s) : s[i].type = "call-user-joined" /\ s[i].user = u

\* v has sent u an offer, or will when it hears that u has joined.
WillOffer(v, u) == Registered(u) /\ (HasOffer(up[v], u) \/ HasJoined(down[v], u))

PairInv(u, v) ==
    Still(up[u]) /\ Still(up[v]) /\ InCalls(u) \cap InCalls(v) # {} =>
        Learns(u, v) \/ WillOffer(v, u)

PagesInv == \A u \in User : PageInv(u)
ViewsInv == \A u \in User \ strayed : ViewInv(u)
PairsInv == \A u, v \in User \ strayed : u # v => PairInv(u, v)

IInv == TypeOK /\ PagesInv /\ ViewsInv /\ PairsInv

-----------------------------------------------------------------------------
(* Sequences: their elements after an append, without their head, swapped *)

LEMMA AppendAt ==
    ASSUME NEW S, NEW s \in Seq(S), NEW t \in Seq(S)
    PROVE  /\ s \o t \in Seq(S) /\ Len(s \o t) = Len(s) + Len(t)
           /\ Len(s) \in Nat /\ Len(t) \in Nat
           /\ \A i \in 1..Len(s) : (s \o t)[i] = s[i]
           /\ \A i \in 1..Len(t) : (s \o t)[Len(s) + i] = t[i]
           /\ \A i \in 1..(Len(s) + Len(t)) : i > Len(s) => (s \o t)[i] = t[i - Len(s)]
OBVIOUS

LEMMA TailAt ==
    ASSUME NEW S, NEW s \in Seq(S), s # <<>>
    PROVE  /\ Tail(s) \in Seq(S) /\ Len(Tail(s)) = Len(s) - 1 /\ Head(s) = s[1]
           /\ Len(s) \in Nat \ {0}
           /\ \A i \in 1..(Len(s) - 1) : Tail(s)[i] = s[i + 1]
           /\ \A i \in 2..Len(s) : Tail(s)[i - 1] = s[i]
OBVIOUS

SwapOf(s) == <<s[2], s[1]>> \o SubSeq(s, 3, Len(s))

LEMMA SwapAt ==
    ASSUME NEW S, NEW s \in Seq(S), Len(s) > 1
    PROVE  /\ SwapOf(s) \in Seq(S) /\ Len(SwapOf(s)) = Len(s) /\ Len(s) \in Nat
           /\ SwapOf(s)[1] = s[2] /\ SwapOf(s)[2] = s[1]
           /\ \A i \in 3..Len(s) : SwapOf(s)[i] = s[i]
<1> DEFINE a == <<s[2], s[1]>>
           b == SubSeq(s, 3, Len(s))
<1>1. s[1] \in S /\ s[2] \in S /\ Len(s) \in Nat /\ \A i \in 3..Len(s) : s[i] \in S
  OBVIOUS
<1>2. a \in Seq(S) /\ Len(a) = 2 /\ a[1] = s[2] /\ a[2] = s[1]
  BY <1>1
<1>3. /\ b \in Seq(S)
      /\ Len(b) = IF 3 <= Len(s) THEN Len(s) - 3 + 1 ELSE 0
      /\ \A i \in 1..(Len(s) - 3 + 1) : b[i] = s[3 + i - 1]
  BY <1>1, SubSeqProperties
<1> HIDE DEF a, b
<1>4. Len(b) = Len(s) - 2 /\ \A i \in 3..Len(s) : b[i - 2] = s[i]
  <2>1. Len(b) = Len(s) - 2
    <3>1. CASE 3 <= Len(s)
      BY <1>1, <1>3, <3>1
    <3>2. CASE ~(3 <= Len(s))
      <4>1. Len(b) = 0
        BY <1>3, <3>2
      <4>2. Len(s) = 2
        <5>1. \A k \in Nat : k > 1 /\ ~(3 <= k) => k = 2
          OBVIOUS
        <5> QED BY <1>1, <3>2, <5>1
      <4> QED BY <4>1, <4>2
    <3> QED BY <3>1, <3>2
  <2>2. ASSUME NEW i \in 3..Len(s) PROVE b[i - 2] = s[i]
    <3>1. i - 2 \in 1..(Len(s) - 3 + 1) /\ 3 + (i - 2) - 1 = i
      BY <1>1
    <3> QED BY <1>3, <3>1
  <2> QED BY <2>1, <2>2
<1>5. a \o b \in Seq(S) /\ Len(a \o b) = Len(s) /\ (a \o b)[1] = s[2] /\ (a \o b)[2] = s[1]
  <2>1. a \o b \in Seq(S) /\ Len(a \o b) = Len(a) + Len(b)
    BY <1>2, <1>3, AppendAt
  <2>2. (a \o b)[1] = a[1] /\ (a \o b)[2] = a[2]
    <3>1. 1 \in 1..Len(a) /\ 2 \in 1..Len(a)
      BY <1>2
    <3>2. a \in Seq(S) /\ b \in Seq(S)
      BY <1>2, <1>3
    <3> QED BY <3>1, <3>2, AppendAt
  <2>3. Len(a) + Len(b) = Len(s)
    BY <1>1, <1>2, <1>4
  <2> QED BY <1>2, <2>1, <2>2, <2>3
<1>6. ASSUME NEW i \in 3..Len(s) PROVE (a \o b)[i] = s[i]
  <2>1. \A j \in 1..(Len(a) + Len(b)) : j > Len(a) => (a \o b)[j] = b[j - Len(a)]
    BY <1>2, <1>3, AppendAt
  <2>2. i \in 1..(Len(a) + Len(b)) /\ i > Len(a)
    BY <1>1, <1>2, <1>4
  <2> QED BY <1>2, <1>4, <2>1, <2>2
<1> QED BY <1>1, <1>5, <1>6 DEF SwapOf, a, b

-----------------------------------------------------------------------------
(* Where packets lead *)

LEMMA LeadsNothing ==
    ASSUME NEW A \in SUBSET Room, NEW B
    PROVE  Leads(A, <<>>, B) <=> A = B
<1>1. ASSUME Leads(A, <<>>, B) PROVE A = B
  BY <1>1 DEF Leads, Path
<1>2. ASSUME A = B PROVE Leads(A, <<>>, B)
  <2> DEFINE f == [i \in 1..(0 + 1) |-> A]
  <2>1. Path(f, A, <<>>, B)
    BY <1>2 DEF Path
  <2> QED BY <2>1 DEF Leads
<1> QED BY <1>1, <1>2

LEMMA LeadsAppend ==
    ASSUME NEW S, NEW s \in Seq(S), NEW x \in S, NEW A, NEW B, NEW C \in SUBSET Room,
           Leads(A, s, B), Turns(B, x, C)
    PROVE  Leads(A, s \o <<x>>, C)
<1>1. PICK f : Path(f, A, s, B)
  BY DEF Leads
<1> DEFINE n == Len(s)
           t == s \o <<x>>
           g == [i \in 1..(n + 1 + 1) |-> IF i = n + 2 THEN C ELSE f[i]]
<1>2. <<x>> \in Seq(S) /\ Len(<<x>>) = 1 /\ <<x>>[1] = x
  OBVIOUS
<1>3. n \in Nat /\ Len(t) = n + 1 /\ t[n + 1] = x /\ \A i \in 1..n : t[i] = s[i]
  <2>1. n \in Nat /\ Len(t) = n + Len(<<x>>) /\ \A i \in 1..n : t[i] = s[i]
    BY <1>2, AppendAt
  <2>2. \A i \in 1..Len(<<x>>) : t[n + i] = <<x>>[i]
    BY <1>2, AppendAt
  <2> QED BY <1>2, <2>1, <2>2
<1>4. /\ f \in [1..(n + 1) -> SUBSET Room]
      /\ f[1] = A /\ f[n + 1] = B
      /\ \A i \in 1..n : Turns(f[i], s[i], f[i + 1])
  BY <1>1 DEF Path
<1> HIDE DEF t
<1>5. g \in [1..(Len(t) + 1) -> SUBSET Room] /\ g[1] = A /\ g[Len(t) + 1] = C
  BY <1>3, <1>4
<1>6. ASSUME NEW i \in 1..Len(t) PROVE Turns(g[i], t[i], g[i + 1])
  <2>1. CASE i = n + 1
    <3>1. g[i] = B /\ t[i] = x /\ g[i + 1] = C
      BY <1>3, <1>4, <2>1
    <3> QED BY <3>1
  <2>2. CASE i # n + 1
    <3>1. i \in 1..n /\ g[i] = f[i] /\ g[i + 1] = f[i + 1] /\ t[i] = s[i]
      BY <1>3, <1>4, <2>2
    <3> QED BY <1>4, <3>1
  <2> QED BY <2>1, <2>2
<1>7. Path(g, A, t, C)
  BY <1>5, <1>6 DEF Path
<1> QED BY <1>7 DEF Leads, t

LEMMA LeadsTail ==
    ASSUME NEW S, NEW s \in Seq(S), s # <<>>, NEW A, NEW B, Leads(A, s, B)
    PROVE  \E C \in SUBSET Room : Turns(A, Head(s), C) /\ Leads(C, Tail(s), B)
<1>1. PICK f : Path(f, A, s, B)
  BY DEF Leads
<1> DEFINE n == Len(s)
           t == Tail(s)
           g == [i \in 1..(n - 1 + 1) |-> f[i + 1]]
<1>2. t \in Seq(S) /\ Len(t) = n - 1 /\ Head(s) = s[1] /\ n \in Nat \ {0}
      /\ \A i \in 1..(n - 1) : t[i] = s[i + 1]
  BY TailAt
<1>3. /\ f \in [1..(n + 1) -> SUBSET Room]
      /\ f[1] = A /\ f[n + 1] = B
      /\ \A i \in 1..n : Turns(f[i], s[i], f[i + 1])
  BY <1>1 DEF Path
<1> HIDE DEF t
<1>4. f[2] \in SUBSET Room /\ Turns(A, Head(s), f[2])
  <2>1. 1 \in 1..n /\ 2 \in 1..(n + 1) /\ 1 + 1 = 2
    BY <1>2
  <2> QED BY <1>2, <1>3, <2>1
<1>5. g \in [1..(Len(t) + 1) -> SUBSET Room] /\ g[1] = f[2] /\ g[Len(t) + 1] = B
  BY <1>2, <1>3
<1>6. ASSUME NEW i \in 1..Len(t) PROVE Turns(g[i], t[i], g[i + 1])
  <2>1. i + 1 \in 1..n /\ g[i] = f[i + 1] /\ g[i + 1] = f[i + 1 + 1] /\ t[i] = s[i + 1]
    BY <1>2
  <2> QED BY <1>3, <2>1
<1>7. Path(g, f[2], t, B)
  BY <1>5, <1>6 DEF Path
<1> QED BY <1>4, <1>7 DEF Leads, t

\* A call-initiate and a packet after it that is no leave may change places.
LEMMA LeadsSwap ==
    ASSUME NEW S, NEW s \in Seq(S), Len(s) > 1, s[1].type = "call-initiate",
           s[2].type \notin {"call-initiate", "call-leave"},
           NEW A, NEW B, Leads(A, s, B)
    PROVE  Leads(A, SwapOf(s), B)
<1>1. PICK f : Path(f, A, s, B)
  BY DEF Leads
<1> DEFINE n == Len(s)
           t == SwapOf(s)
           g == [f EXCEPT ![2] = A]
<1>2. t \in Seq(S) /\ Len(t) = n /\ n \in Nat /\ t[1] = s[2] /\ t[2] = s[1]
      /\ \A i \in 3..n : t[i] = s[i]
  BY SwapAt
<1>3. /\ f \in [1..(n + 1) -> SUBSET Room]
      /\ f[1] = A /\ f[n + 1] = B
      /\ \A i \in 1..n : Turns(f[i], s[i], f[i + 1])
  BY <1>1 DEF Path
<1> HIDE DEF t
<1>4. g \in [1..(Len(t) + 1) -> SUBSET Room] /\ g[1] = A /\ g[Len(t) + 1] = B
  BY <1>2, <1>3
<1>5. Turns(f[1], s[1], f[2]) /\ Turns(f[2], s[2], f[3])
  <2>1. 1 \in 1..n /\ 2 \in 1..n /\ 1 + 1 = 2 /\ 2 + 1 = 3
    BY <1>2
  <2> QED BY <1>3, <2>1
<1>6. f[3] = f[2]
  BY <1>5 DEF Turns, Command
<1>9. ~Command(s[2])
  BY <1>5 DEF Turns, Command
<1>7. ASSUME NEW i \in 1..Len(t) PROVE Turns(g[i], t[i], g[i + 1])
  <2>1. CASE i = 1
    <3>1. g[i] = A /\ g[i + 1] = A /\ t[i] = s[2]
      BY <1>2, <1>3, <2>1
    <3> QED BY <1>9, <3>1 DEF Turns
  <2>2. CASE i = 2
    <3>1. g[i] = A /\ g[i + 1] = f[3] /\ t[i] = s[1]
      BY <1>2, <1>3, <2>2
    <3> QED BY <1>3, <1>5, <1>6, <3>1
  <2>3. CASE i # 1 /\ i # 2
    <3>1. i \in 1..n /\ i \in 3..n /\ g[i] = f[i] /\ g[i + 1] = f[i + 1] /\ t[i] = s[i]
      BY <1>2, <1>3, <2>3
    <3> QED BY <1>3, <3>1
  <2> QED BY <2>1, <2>2, <2>3
<1>8. Path(g, A, t, B)
  BY <1>4, <1>7 DEF Path
<1> QED BY <1>8 DEF Leads, t

\* Packets that change no calls lead nowhere.
LEMMA LeadsStill ==
    ASSUME NEW S, NEW s \in Seq(S), NEW A, NEW B, Leads(A, s, B), Still(s)
    PROVE  A = B
<1>1. PICK f : Path(f, A, s, B)
  BY DEF Leads
<1> DEFINE n == Len(s)
           D == {i \in 1..(n + 1) : f[i] # A}
<1>2. /\ n \in Nat
      /\ f[1] = A /\ f[n + 1] = B
      /\ \A i \in 1..n : Turns(f[i], s[i], f[i + 1])
  BY <1>1 DEF Path
<1>3. D = {}
  <2> SUFFICES ASSUME D # {} PROVE FALSE
    OBVIOUS
  <2>1. D \subseteq Nat
    BY <1>2
  <2> HIDE DEF D
  <2>6. PICK m \in D : \A i \in D : m <= i
    BY <2>1, LeastNatural
  <2> USE DEF D
  <2>2. m - 1 \in 1..n /\ m - 1 + 1 = m
    BY <1>2, <2>6
  <2>3. f[m - 1] = A
    BY <1>2, <2>6, <2>2
  <2>4. Turns(f[m - 1], s[m - 1], f[m]) /\ ~Command(s[m - 1])
    BY <1>2, <2>2 DEF Still
  <2>5. f[m] = f[m - 1]
    BY <2>4 DEF Turns, Command
  <2> QED BY <2>6, <2>3, <2>5
<1>4. n + 1 \in 1..(n + 1)
  BY <1>2
<1> QED BY <1>2, <1>3, <1>4

-----------------------------------------------------------------------------
(* What sequences of packets hold *)

LEMMA StillAppend ==
    ASSUME NEW S, NEW s \in Seq(S), NEW t \in Seq(S)
    PROVE  /\ Still(s \o t) <=> Still(s) /\ Still(t)
           /\ NoJoin(s \o t) <=> NoJoin(s) /\ NoJoin(t)
           /\ \A v : Clear(s \o t, v) <=> Clear(s, v) /\ Clear(t, v)
<1> DEFINE m == Len(s)
           n == Len(t)
<1>1. /\ Len(s \o t) = m + n /\ m \in Nat /\ n \in Nat
      /\ \A i \in 1..m : (s \o t)[i] = s[i]
      /\ \A i \in 1..n : (s \o t)[m + i] = t[i]
      /\ \A i \in 1..(m + n) : i > m => (s \o t)[i] = t[i - m]
  BY AppendAt
<1>2. \A i \in 1..m : i \in 1..(m + n)
  BY <1>1
<1>3. \A i \in 1..n : m + i \in 1..(m + n)
  BY <1>1
<1>4. \A i \in 1..(m + n) : i \in 1..m \/ (i > m /\ i - m \in 1..n)
  BY <1>1
<1> HIDE DEF m, n
<1>5. Still(s \o t) <=> Still(s) /\ Still(t)
  BY <1>1, <1>2, <1>3, <1>4 DEF Still, m, n
<1>6. NoJoin(s \o t) <=> NoJoin(s) /\ NoJoin(t)
  <2>1. NoJoin(s \o t) => NoJoin(s)
    BY <1>1, <1>2 DEF NoJoin, m, n
  <2>2. NoJoin(s \o t) => NoJoin(t)
    BY <1>1, <1>3 DEF NoJoin, m, n
  <2>3. NoJoin(s) /\ NoJoin(t) => NoJoin(s \o t)
    BY <1>1, <1>4 DEF NoJoin, m, n
  <2> QED BY <2>1, <2>2, <2>3
<1>7. ASSUME NEW v PROVE Clear(s \o t, v) <=> Clear(s, v) /\ Clear(t, v)
  BY <1>1, <1>2, <1>3, <1>4 DEF Clear, m, n
<1> QED BY <1>5, <1>6, <1>7

LEMMA HasAppend ==
    ASSUME NEW S, NEW s \in Seq(S), NEW t \in Seq(S), NEW u
    PROVE  /\ HasOffer(s \o t, u) <=> HasOffer(s, u) \/ HasOffer(t, u)
           /\ HasJoined(s \o t, u) <=> HasJoined(s, u) \/ HasJoined(t, u)
<1> DEFINE m == Len(s)
           n == Len(t)
<1>1. /\ Len(s \o t) = m + n /\ m \in Nat /\ n \in Nat
      /\ \A i \in 1..m : (s \o t)[i] = s[i]
      /\ \A i \in 1..n : (s \o t)[m + i] = t[i]
      /\ \A i \in 1..(m + n) : i > m => (s \o t)[i] = t[i - m]
  BY AppendAt
<1>2. \A i \in 1..m : i \in 1..(m + n)
  BY <1>1
<1>3. \A i \in 1..n : m + i \in 1..(m + n)
  BY <1>1
<1>4. \A i \in 1..(m + n) : i \in 1..m \/ (i > m /\ i - m \in 1..n)
  BY <1>1
<1> HIDE DEF m, n
<1>5. HasOffer(s \o t, u) <=> HasOffer(s, u) \/ HasOffer(t, u)
  <2>1. HasOffer(s, u) => HasOffer(s \o t, u)
    BY <1>1, <1>2 DEF HasOffer, m, n
  <2>2. HasOffer(t, u) => HasOffer(s \o t, u)
    BY <1>1, <1>3 DEF HasOffer, m, n
  <2>3. HasOffer(s \o t, u) => HasOffer(s, u) \/ HasOffer(t, u)
    BY <1>1, <1>4 DEF HasOffer, m, n
  <2> QED BY <2>1, <2>2, <2>3
<1>6. HasJoined(s \o t, u) <=> HasJoined(s, u) \/ HasJoined(t, u)
  <2>1. HasJoined(s, u) => HasJoined(s \o t, u)
    BY <1>1, <1>2 DEF HasJoined, m, n
  <2>2. HasJoined(t, u) => HasJoined(s \o t, u)
    BY <1>1, <1>3 DEF HasJoined, m, n
  <2>3. HasJoined(s \o t, u) => HasJoined(s, u) \/ HasJoined(t, u)
    BY <1>1, <1>4 DEF HasJoined, m, n
  <2> QED BY <2>1, <2>2, <2>3
<1> QED BY <1>5, <1>6

LEMMA HearsAppend ==
    ASSUME NEW S, NEW s \in Seq(S), NEW t \in Seq(S), NEW v
    PROVE  Hears(s \o t, v) <=> Hears(t, v) \/ (Hears(s, v) /\ Clear(t, v))
<1> DEFINE m == Len(s)
           n == Len(t)
           c == s \o t
<1>1. /\ Len(c) = m + n /\ m \in Nat /\ n \in Nat
      /\ \A i \in 1..m : c[i] = s[i]
      /\ \A i \in 1..n : c[m + i] = t[i]
      /\ \A i \in 1..(m + n) : i > m => c[i] = t[i - m]
  BY AppendAt
<1>2. \A i \in 1..m : i \in 1..(m + n)
  BY <1>1
<1>3. \A i \in 1..n : m + i \in 1..(m + n)
  BY <1>1
<1>4. \A i \in 1..(m + n) : i \in 1..m \/ (i > m /\ i - m \in 1..n)
  BY <1>1
<1> HIDE DEF c
<1>5. ASSUME Hears(t, v) PROVE Hears(c, v)
  <2>1. PICK i \in 1..n : Adds(t[i], v) /\ \A j \in 1..n : j > i => ~Drops(t[j], v)
    BY <1>5 DEF Hears
  <2>2. ASSUME NEW j \in 1..(m + n), j > m + i PROVE ~Drops(c[j], v)
    <3>1. j > m /\ j - m \in 1..n /\ j - m > i
      BY <1>1, <2>2
    <3> QED BY <1>1, <2>1, <3>1
  <2> QED BY <1>1, <1>3, <2>1, <2>2 DEF Hears
<1>6. ASSUME Hears(s, v), Clear(t, v) PROVE Hears(c, v)
  <2>1. PICK i \in 1..m : Adds(s[i], v) /\ \A j \in 1..m : j > i => ~Drops(s[j], v)
    BY <1>6 DEF Hears
  <2>2. ASSUME NEW j \in 1..(m + n), j > i PROVE ~Drops(c[j], v)
    <3>1. CASE j \in 1..m
      BY <1>1, <2>1, <2>2, <3>1
    <3>2. CASE j > m /\ j - m \in 1..n
      BY <1>1, <1>6, <3>2 DEF Clear
    <3> QED BY <1>4, <3>1, <3>2
  <2> QED BY <1>1, <1>2, <2>1, <2>2 DEF Hears
<1>7. ASSUME Hears(c, v) PROVE Hears(t, v) \/ (Hears(s, v) /\ Clear(t, v))
  <2>1. PICK i \in 1..(m + n) : Adds(c[i], v) /\ \A j \in 1..(m + n) : j > i => ~Drops(c[j], v)
    BY <1>1, <1>7 DEF Hears
  <2>2. CASE i \in 1..m
    <3>1. ASSUME NEW j \in 1..m, j > i PROVE ~Drops(s[j], v)
      BY <1>1, <1>2, <2>1, <3>1
    <3>2. ASSUME NEW j \in 1..n PROVE ~Drops(t[j], v)
      <4>1. m + j \in 1..(m + n) /\ m + j > i /\ c[m + j] = t[j]
        BY <1>1, <2>2
      <4> QED BY <2>1, <4>1
    <3> QED BY <1>1, <2>1, <2>2, <3>1, <3>2 DEF Hears, Clear
  <2>3. CASE i > m /\ i - m \in 1..n
    <3>1. ASSUME NEW j \in 1..n, j > i - m PROVE ~Drops(t[j], v)
      <4>1. m + j \in 1..(m + n) /\ m + j > i /\ c[m + j] = t[j]
        BY <1>1, <2>3, <3>1
      <4> QED BY <2>1, <4>1
    <3> QED BY <1>1, <2>1, <2>3, <3>1 DEF Hears
  <2> QED BY <1>4, <2>2, <2>3
<1> QED BY <1>5, <1>6, <1>7 DEF c

LEMMA RegisteringAppend ==
    ASSUME NEW S, NEW s \in Seq(S), NEW t \in Seq(S)
    PROVE  /\ Registering(s) => Registering(s \o t)
           /\ NoJoin(s) /\ Registering(t) => Registering(s \o t)
           /\ Registering(s \o t) => Registering(s) \/ (NoJoin(s) /\ Registering(t))
<1> DEFINE m == Len(s)
           n == Len(t)
           c == s \o t
<1>1. /\ Len(c) = m + n /\ m \in Nat /\ n \in Nat
      /\ \A i \in 1..m : c[i] = s[i]
      /\ \A i \in 1..n : c[m + i] = t[i]
      /\ \A i \in 1..(m + n) : i > m => c[i] = t[i - m]
  BY AppendAt
<1>2. \A i \in 1..m : i \in 1..(m + n)
  BY <1>1
<1>3. \A i \in 1..n : m + i \in 1..(m + n)
  BY <1>1
<1>4. \A i \in 1..(m + n) : i \in 1..m \/ (i > m /\ i - m \in 1..n)
  BY <1>1
<1> HIDE DEF c
<1>5. ASSUME Registering(s) PROVE Registering(c)
  <2>1. PICK i \in 1..m : /\ s[i].type = "register-user"
                          /\ \A j \in 1..m : j < i => s[j].type # "call-join"
    BY <1>5 DEF Registering
  <2>2. ASSUME NEW j \in 1..(m + n), j < i PROVE c[j].type # "call-join"
    <3>1. j \in 1..m
      BY <1>1, <2>2
    <3> QED BY <1>1, <2>1, <2>2, <3>1
  <2> QED BY <1>1, <1>2, <2>1, <2>2 DEF Registering
<1>6. ASSUME NoJoin(s), Registering(t) PROVE Registering(c)
  <2>1. PICK i \in 1..n : /\ t[i].type = "register-user"
                          /\ \A j \in 1..n : j < i => t[j].type # "call-join"
    BY <1>6 DEF Registering
  <2>2. ASSUME NEW j \in 1..(m + n), j < m + i PROVE c[j].type # "call-join"
    <3>1. CASE j \in 1..m
      BY <1>1, <1>6, <3>1 DEF NoJoin
    <3>2. CASE j > m /\ j - m \in 1..n
      <4>1. j - m < i
        BY <1>1, <2>2
      <4> QED BY <1>1, <2>1, <3>2, <4>1
    <3> QED BY <1>4, <3>1, <3>2
  <2> QED BY <1>1, <1>3, <2>1, <2>2 DEF Registering
<1>7. ASSUME Registering(c) PROVE Registering(s) \/ (NoJoin(s) /\ Registering(t))
  <2>1. PICK i \in 1..(m + n) :
              /\ c[i].type = "register-user"
              /\ \A j \in 1..(m + n) : j < i => c[j].type # "call-join"
    BY <1>1, <1>7 DEF Registering
  <2>2. CASE i \in 1..m
    <3>1. ASSUME NEW j \in 1..m, j < i PROVE s[j].type # "call-join"
      BY <1>1, <1>2, <2>1, <3>1
    <3> QED BY <1>1, <2>1, <2>2, <3>1 DEF Registering
  <2>3. CASE i > m /\ i - m \in 1..n
    <3>1. ASSUME NEW j \in 1..n, j < i - m PROVE t[j].type # "call-join"
      <4>1. m + j \in 1..(m + n) /\ m + j < i /\ c[m + j] = t[j]
        BY <1>1, <2>3, <3>1
      <4> QED BY <2>1, <4>1
    <3>2. ASSUME NEW j \in 1..m PROVE s[j].type # "call-join"
      <4>1. j \in 1..(m + n) /\ j < i /\ c[j] = s[j]
        BY <1>1, <2>3
      <4> QED BY <2>1, <4>1
    <3> QED BY <1>1, <2>1, <2>3, <3>1, <3>2 DEF Registering, NoJoin
  <2> QED BY <1>4, <2>2, <2>3
<1> QED BY <1>5, <1>6, <1>7 DEF c

\* Sequences of no packet and of one.
LEMMA HoldsNone ==
    /\ Still(<<>>) /\ NoJoin(<<>>) /\ ~Registering(<<>>)
    /\ \A u : Clear(<<>>, u) /\ ~Hears(<<>>, u) /\ ~HasOffer(<<>>, u) /\ ~HasJoined(<<>>, u)
BY DEF Still, NoJoin, Registering, Clear, Hears, HasOffer, HasJoined

LEMMA HoldsOne ==
    ASSUME NEW x
    PROVE  /\ Still(<<x>>) <=> ~Command(x)
           /\ NoJoin(<<x>>) <=> x.type # "call-join"
           /\ Registering(<<x>>) <=> x.type = "register-user"
           /\ \A u : /\ Clear(<<x>>, u) <=> ~Drops(x, u)
                     /\ Hears(<<x>>, u) <=> Adds(x, u)
                     /\ HasOffer(<<x>>, u) <=> x.type = "call-offer" /\ x.user = u
                     /\ HasJoined(<<x>>, u) <=> x.type = "call-user-joined" /\ x.user = u
BY DEF Still, NoJoin, Registering, Clear, Hears, HasOffer, HasJoined

LEMMA HeadAndTail ==
    ASSUME NEW S, NEW s \in Seq(S), s # <<>>
    PROVE  /\ Head(s) \in S /\ <<Head(s)>> \in Seq(S) /\ Tail(s) \in Seq(S)
           /\ s = <<Head(s)>> \o Tail(s)
BY HeadTailProperties

LEMMA OneAndOne ==
    ASSUME NEW S, NEW a \in S, NEW b \in S
    PROVE  <<a>> \o <<b>> = <<a, b>>
<1> DEFINE c == <<a>> \o <<b>>
           d == <<a, b>>
<1>1. <<a>> \in Seq(S) /\ <<b>> \in Seq(S) /\ d \in Seq(S)
  OBVIOUS
<1>2. Len(c) = Len(d)
  BY <1>1
<1>3. \A i \in 1..Len(d) : c[i] = d[i]
  BY <1>1
<1>4. c \in Seq(S)
  BY <1>1, ConcatProperties
<1> HIDE DEF c, d
<1>5. c = d
  BY <1>1, <1>2, <1>3, <1>4, SeqEqual
<1> QED BY <1>5 DEF c, d

LEMMA SwapParts ==
    ASSUME NEW S, NEW s \in Seq(S), Len(s) > 1
    PROVE  \E t \in Seq(S) : /\ s[1] \in S /\ s[2] \in S
                             /\ s = <<s[1]>> \o (<<s[2]>> \o t)
                             /\ SwapOf(s) = <<s[2]>> \o (<<s[1]>> \o t)
<1> DEFINE t == SubSeq(s, 3, Len(s))
           one == <<s[1]>>
           two == <<s[2]>>
<1>1. s[1] \in S /\ s[2] \in S /\ t \in Seq(S)
  <2>1. s[1] \in S /\ s[2] \in S /\ Len(s) \in Nat /\ \A i \in 3..Len(s) : s[i] \in S
    OBVIOUS
  <2> QED BY <2>1, SubSeqProperties
<1>2. s = one \o (two \o t)
  <2>1. 2 \in 1..Len(s) /\ 1 \in 1..Len(s) /\ Len(s) \in 1..Len(s) /\ Len(s) \in 2..Len(s)
    OBVIOUS
  <2>2. SubSeq(s, 1, Len(s)) = one \o SubSeq(s, 2, Len(s))
    BY <2>1, SubSeqRecursiveFirst
  <2>3. SubSeq(s, 2, Len(s)) = two \o t
    <3>1. SubSeq(s, 2, Len(s)) = <<s[2]>> \o SubSeq(s, 2 + 1, Len(s))
      BY <2>1, SubSeqRecursiveFirst
    <3>2. 2 + 1 = 3
      OBVIOUS
    <3> QED BY <3>1, <3>2
  <2>4. SubSeq(s, 1, Len(s)) = s
    BY SubSeqFull
  <2> QED BY <2>2, <2>3, <2>4
<1>3. SwapOf(s) = two \o (one \o t)
  <2>1. two \in Seq(S) /\ one \in Seq(S)
    BY <1>1
  <2>3. two \o one = <<s[2], s[1]>>
    BY <1>1, OneAndOne
  <2>2. (two \o one) \o t = two \o (one \o t)
    BY <1>1, <2>1, ConcatAssociative
  <2> QED BY <2>2, <2>3 DEF SwapOf
<1> QED BY <1>1, <1>2, <1>3

LEMMA TailHolds ==
    ASSUME NEW S, NEW s \in Seq(S), s # <<>>
    PROVE  /\ Still(s) <=> ~Command(Head(s)) /\ Still(Tail(s))
           /\ NoJoin(s) => NoJoin(Tail(s))
           /\ Registering(s) => \/ Head(s).type = "register-user"
                                \/ Head(s).type # "call-join" /\ Registering(Tail(s))
<1> DEFINE x == Head(s)
           t == Tail(s)
<1>1. <<x>> \in Seq(S) /\ t \in Seq(S) /\ s = <<x>> \o t
  BY HeadAndTail
<1> HIDE DEF x, t
<1>2. Still(s) <=> ~Command(x) /\ Still(t)
  BY <1>1, StillAppend, HoldsOne
<1>3. NoJoin(s) => NoJoin(t)
  BY <1>1, StillAppend
<1>4. Registering(s) => Registering(<<x>>) \/ (NoJoin(<<x>>) /\ Registering(t))
  BY <1>1, RegisteringAppend
<1> QED BY <1>2, <1>3, <1>4, HoldsOne DEF x, t

LEMMA TailKnows ==
    ASSUME NEW S, NEW s \in Seq(S), s # <<>>, NEW u
    PROVE  /\ HasOffer(s, u) => \/ Head(s).type = "call-offer" /\ Head(s).user = u
                                \/ HasOffer(Tail(s), u)
           /\ HasJoined(s, u) => \/ Head(s).type = "call-user-joined" /\ Head(s).user = u
                                 \/ HasJoined(Tail(s), u)
           /\ Clear(s, u) => ~Drops(Head(s), u) /\ Clear(Tail(s), u)
           /\ Hears(s, u) => Hears(Tail(s), u) \/ (Adds(Head(s), u) /\ Clear(Tail(s), u))
<1> DEFINE x == Head(s)
           t == Tail(s)
<1>1. <<x>> \in Seq(S) /\ t \in Seq(S) /\ s = <<x>> \o t
  BY HeadAndTail
<1> HIDE DEF x, t
<1>2. HasOffer(s, u) => HasOffer(<<x>>, u) \/ HasOffer(t, u)
  BY <1>1, HasAppend
<1>3. HasJoined(s, u) => HasJoined(<<x>>, u) \/ HasJoined(t, u)
  BY <1>1, HasAppend
<1>4. Clear(s, u) => Clear(<<x>>, u) /\ Clear(t, u)
  BY <1>1, StillAppend
<1>5. Hears(s, u) => Hears(t, u) \/ (Hears(<<x>>, u) /\ Clear(t, u))
  BY <1>1, HearsAppend
<1> QED BY <1>2, <1>3, <1>4, <1>5, HoldsOne DEF x, t

LEMMA SwapHolds ==
    ASSUME NEW S, NEW s \in Seq(S), Len(s) > 1
    PROVE  /\ SwapOf(s) \in Seq(S)
           /\ Still(SwapOf(s)) => Still(s)
           /\ \A u : HasOffer(s, u) => HasOffer(SwapOf(s), u)
           /\ Registering(s) /\ s[1].type = "call-initiate" => Registering(SwapOf(s))
<1>1. PICK t \in Seq(S) : /\ s[1] \in S /\ s[2] \in S
                          /\ s = <<s[1]>> \o (<<s[2]>> \o t)
                          /\ SwapOf(s) = <<s[2]>> \o (<<s[1]>> \o t)
  BY SwapParts
<1> DEFINE x == <<s[1]>>
           y == <<s[2]>>
<1>2. x \in Seq(S) /\ y \in Seq(S) /\ x \o t \in Seq(S) /\ y \o t \in Seq(S)
  <2>1. x \in Seq(S) /\ y \in Seq(S)
    BY <1>1
  <2> QED BY <1>1, <2>1, ConcatProperties
<1>3. s = x \o (y \o t) /\ SwapOf(s) = y \o (x \o t)
  BY <1>1
<1>4. s[1].type = "call-initiate" => ~Registering(x) /\ NoJoin(x)
  BY HoldsOne
<1> HIDE DEF x, y
<1>5. SwapOf(s) \in Seq(S)
  BY <1>2, <1>3, ConcatProperties
<1>6. Still(SwapOf(s)) => Still(s)
  <2>1. Still(SwapOf(s)) => Still(x) /\ Still(y) /\ Still(t)
    <3>1. Still(y \o (x \o t)) => Still(y) /\ Still(x \o t)
      BY <1>2, StillAppend
    <3>2. Still(x \o t) => Still(x) /\ Still(t)
      BY <1>1, <1>2, StillAppend
    <3> QED BY <1>3, <3>1, <3>2
  <2>2. Still(x) /\ Still(y) /\ Still(t) => Still(s)
    <3>1. Still(y) /\ Still(t) => Still(y \o t)
      BY <1>1, <1>2, StillAppend
    <3>2. Still(x) /\ Still(y \o t) => Still(s)
      BY <1>2, <1>3, StillAppend
    <3> QED BY <3>1, <3>2
  <2> QED BY <2>1, <2>2
<1>7. ASSUME NEW u, HasOffer(s, u) PROVE HasOffer(SwapOf(s), u)
  <2>1. HasOffer(x, u) \/ HasOffer(y, u) \/ HasOffer(t, u)
    <3>1. HasOffer(x, u) \/ HasOffer(y \o t, u)
      BY <1>2, <1>3, <1>7, HasAppend
    <3>2. HasOffer(y \o t, u) => HasOffer(y, u) \/ HasOffer(t, u)
      BY <1>1, <1>2, HasAppend
    <3> QED BY <3>1, <3>2
  <2>2. HasOffer(x, u) \/ HasOffer(t, u) => HasOffer(x \o t, u)
    BY <1>1, <1>2, HasAppend
  <2>3. HasOffer(y, u) \/ HasOffer(x \o t, u) => HasOffer(y \o (x \o t), u)
    BY <1>2, HasAppend
  <2> QED BY <1>3, <2>1, <2>2, <2>3
<1>8. ASSUME Registering(s), s[1].type = "call-initiate" PROVE Registering(SwapOf(s))
  <2>1. Registering(y \o t)
    BY <1>2, <1>3, <1>4, <1>8, RegisteringAppend
  <2>2. Registering(y) \/ (NoJoin(y) /\ Registering(t))
    BY <1>1, <1>2, <2>1, RegisteringAppend
  <2>3. Registering(t) => Registering(x \o t)
    BY <1>1, <1>2, <1>4, <1>8, RegisteringAppend
  <2>4. Registering(y) \/ (NoJoin(y) /\ Registering(x \o t)) => Registering(y \o (x \o t))
    BY <1>2, RegisteringAppend
  <2> QED BY <1>3, <2>2, <2>3, <2>4
<1> QED BY <1>5, <1>6, <1>7, <1>8

-----------------------------------------------------------------------------
(* What a step leaves of the invariant *)

LEMMA TypesOf ==
    ASSUME TypeOK, NEW u \in User
    PROVE  /\ up[u] \in Seq(PagePacket) /\ down[u] \in Seq(Event)
           /\ InCalls(u) \in SUBSET Room
           /\ number[u] \in {1, 2} /\ SocketOf(u) \in Socket
           /\ None \notin Room /\ None \notin User
BY CallsAssumption DEF TypeOK, InCalls, SocketOf, Socket

LEMMA ShownType ==
    ASSUME NEW p \in Page, p.state = "idle" <=> p.room = None, NEW ms
    PROVE  /\ ShownBy(p, ms) \in SUBSET Room
           /\ ShownBy(p, ms) \subseteq {p.room}
           /\ p.state = "idle" => ShownBy(p, ms) = {}
BY DEF Page, ShownBy

\* Nothing of u changes.
LEMMA ViewKept ==
    ASSUME NEW u \in User, ViewInv(u),
           up'[u] = up[u], page'[u] = page[u], media'[u] = media[u],
           number'[u] = number[u], u \in online' <=> u \in online,
           userSockets'[u] = userSockets[u],
           InCalls(u)' = InCalls(u),
           \A r \in Room : SocketOf(u) \in callSockets'[r] <=> SocketOf(u) \in callSockets[r],
           \A r \in Room : u \in activeCalls'[r] <=> u \in activeCalls[r]
    PROVE  ViewInv(u)'
<1>1. SocketOf(u)' = SocketOf(u) /\ Shown(u)' = Shown(u)
  BY DEF SocketOf, Shown, ShownBy
<1>2. Leads(InCalls(u)', up'[u], Shown(u)')
  BY <1>1 DEF ViewInv
<1>3. Registered(u)' <=> Registered(u)
  BY <1>1 DEF Registered
<1> QED BY <1>1, <1>2, <1>3 DEF ViewInv

LEMMA PairKept ==
    ASSUME NEW u \in User, NEW v \in User, PairInv(u, v),
           InCalls(u)' \subseteq InCalls(u), InCalls(v)' \subseteq InCalls(v),
           Still(up'[u]) => Still(up[u]), Still(up'[v]) => Still(up[v]),
           (Still(up'[u]) /\ Still(up'[v]) /\ InCalls(u)' # {}) =>
              /\ Learns(u, v) => Learns(u, v)'
              /\ WillOffer(v, u) => WillOffer(v, u)' \/ Learns(u, v)'
    PROVE  PairInv(u, v)'
BY DEF PairInv

\* Who is in a call, and has emitted nothing that changes that, shows the call.
LEMMA StillBusy ==
    ASSUME TypeOK, NEW u \in User, PageInv(u), ViewInv(u), Still(up[u]), InCalls(u) # {}
    PROVE  Busy(u) /\ u \in online /\ InCalls(u) = Shown(u)
<1>1. Leads(InCalls(u), up[u], Shown(u))
  BY DEF ViewInv
<1>2. InCalls(u) = Shown(u)
  BY <1>1, TypesOf, LeadsStill
<1>3. Busy(u)
  BY <1>2 DEF Shown, ShownBy, Busy
<1> QED BY <1>2, <1>3 DEF ViewInv

-----------------------------------------------------------------------------
(* Steps of a page *)

\* A step of the page of a, which may handle an event and emit packets.
PageMoves(a, packets) ==
    /\ \A u \in User \ {a} : /\ page'[u] = page[u] /\ media'[u] = media[u]
                             /\ up'[u] = up[u] /\ down'[u] = down[u]
    /\ up'[a] = up[a] \o packets
    /\ UNCHANGED <<number, online, userSockets, callSockets, activeCalls>>
    /\ strayed \subseteq strayed'
    /\ page'[a].state = "idle" <=> page'[a].room = None
    /\ \A m, n \in media'[a] : m = n

\* The packets lead from what the page of a showed to what it shows then.
PageLeads(a, packets) ==
    /\ \A A \in SUBSET Room : Leads(A, up[a], Shown(a)) => Leads(A, up'[a], Shown(a)')
    /\ a \notin online => NoJoin(packets)

\* In a call, the page of a forgets nobody whom it has heard of.
PageLearns(a, packets) ==
    Still(packets) /\ Busy(a) =>
        \A v \in User \ {a} :
            /\ Learns(a, v) => Learns(a, v)'
            /\ HasJoined(down[a], v) => HasJoined(down'[a], v) \/ HasOffer(packets, v)

LEMMA PageStep ==
    ASSUME IInv, TypeOK', NEW a \in User, NEW packets \in Seq(PagePacket),
           PageMoves(a, packets),
           a \notin strayed' => PageLeads(a, packets) /\ PageLearns(a, packets)
    PROVE  IInv'
<1> USE DEF IInv
<1>1. PagesInv'
  <2> SUFFICES ASSUME NEW u \in User PROVE PageInv(u)'
    BY DEF PagesInv
  <2>1. PageInv(u)
    BY DEF PagesInv
  <2>2. CASE u = a
    BY <2>1, <2>2 DEF PageInv, PageMoves
  <2>3. CASE u # a
    BY <2>1, <2>3 DEF PageInv, PageMoves
  <2> QED BY <2>2, <2>3
<1>2. \A u \in User : InCalls(u)' = InCalls(u)
  BY DEF InCalls, PageMoves
<1>3. \A u \in User : SocketOf(u)' = SocketOf(u) /\ (Registered(u)' <=> Registered(u))
  BY DEF SocketOf, Registered, PageMoves
<1>4. \A u \in User \ strayed' : u \notin strayed /\ PageInv(u) /\ ViewInv(u)
  BY DEF PageMoves, PagesInv, ViewsInv
<1>5. ViewsInv'
  <2> SUFFICES ASSUME NEW u \in User \ strayed' PROVE ViewInv(u)'
    BY DEF ViewsInv
  <2>1. CASE u = a
    <3>1. up[a] \in Seq(PagePacket) /\ up'[a] = up[a] \o packets /\ InCalls(a) \in SUBSET Room
      BY TypesOf DEF PageMoves
    <3>2. Leads(InCalls(a)', up'[a], Shown(a)')
      BY <1>2, <1>4, <2>1, <3>1 DEF PageLeads, ViewInv
    <3>3. \A r \in Room : (SocketOf(a) \in callSockets[r])' <=> a \in activeCalls'[r]
      BY <1>3, <1>4, <2>1 DEF ViewInv, PageMoves
    <3>4. a \notin online' => InCalls(a)' = {} /\ NoJoin(up'[a])
      BY <1>2, <1>4, <2>1, <3>1, StillAppend DEF ViewInv, PageMoves, PageLeads
    <3>5. a \in online' => Registered(a)' \/ Registering(up'[a])
      BY <1>3, <1>4, <2>1, <3>1, RegisteringAppend DEF ViewInv, PageMoves
    <3> QED BY <2>1, <3>2, <3>3, <3>4, <3>5 DEF ViewInv
  <2>2. CASE u # a
    BY <1>2, <1>4, <2>2, ViewKept DEF PageMoves
  <2> QED BY <2>1, <2>2
<1>6. PairsInv'
  <2> SUFFICES ASSUME NEW u \in User \ strayed', NEW v \in User \ strayed', u # v
               PROVE  PairInv(u, v)'
    BY DEF PairsInv
  <2>1. PairInv(u, v)
    BY <1>4 DEF PairsInv
  <2>2. up[a] \in Seq(PagePacket) /\ up'[a] = up[a] \o packets
    BY TypesOf DEF PageMoves
  <2>3. Still(up'[a]) => Still(up[a]) /\ Still(packets)
    BY <2>2, StillAppend
  <2>4. \A w : HasOffer(up[a], w) \/ HasOffer(packets, w) => HasOffer(up'[a], w)
    BY <2>2, HasAppend
  <2>5. \A w \in User : Still(up'[w]) => Still(up[w])
    BY <2>3 DEF PageMoves
  <2>6. Still(up'[a]) /\ InCalls(a) # {} /\ a \notin strayed' =>
           \A w \in User \ {a} :
              /\ Learns(a, w) => Learns(a, w)'
              /\ HasJoined(down[a], w) => HasJoined(down'[a], w) \/ HasOffer(packets, w)
    BY <1>4, <2>3, StillBusy DEF PageLearns
  <2>7. ASSUME u # a PROVE Learns(u, v) => Learns(u, v)'
    BY <2>7 DEF Learns, PageMoves
  <2>8. ASSUME v # a PROVE WillOffer(v, u) => WillOffer(v, u)'
    BY <1>3, <2>8 DEF WillOffer, PageMoves
  <2>9. ASSUME PairInv(u, v), Still(up'[u]), Still(up'[v]), InCalls(u) \cap InCalls(v) # {}
        PROVE  Learns(u, v)' \/ WillOffer(v, u)'
    <3>1. Learns(u, v) \/ WillOffer(v, u)
      BY <2>5, <2>9 DEF PairInv
    <3>2. CASE u = a
      BY <2>6, <2>8, <2>9, <3>1, <3>2
    <3>3. CASE v = a
      <4>1. WillOffer(a, u) => WillOffer(a, u)'
        BY <1>3, <2>4, <2>6, <2>9, <3>3 DEF WillOffer
      <4> QED BY <2>7, <3>1, <3>3, <4>1
    <3>4. CASE u # a /\ v # a
      BY <2>7, <2>8, <3>1, <3>4
    <3> QED BY <3>2, <3>3, <3>4
  <2> QED BY <1>2, <2>1, <2>9 DEF PairInv
<1> QED BY <1>1, <1>5, <1>6

LEMMA SilentLeads ==
    ASSUME TypeOK, NEW a \in User, up'[a] = up[a] \o <<>>, Shown(a)' = Shown(a)
    PROVE  PageLeads(a, <<>>)
<1>1. up'[a] = up[a]
  BY TypesOf, ConcatEmptySeq
<1> QED BY <1>1, HoldsNone DEF PageLeads

LEMMA PacketLeads ==
    ASSUME TypeOK, NEW a \in User, NEW x \in PagePacket, up'[a] = up[a] \o <<x>>,
           Shown(a)' \in SUBSET Room, Turns(Shown(a), x, Shown(a)'),
           x.type = "call-join" => a \in online
    PROVE  PageLeads(a, <<x>>)
<1>1. ASSUME NEW A \in SUBSET Room, Leads(A, up[a], Shown(a))
      PROVE  Leads(A, up'[a], Shown(a)')
  <2>1. up[a] \in Seq(PagePacket)
    BY TypesOf
  <2> QED BY <1>1, <2>1, LeadsAppend
<1>2. a \notin online => NoJoin(<<x>>)
  BY HoldsOne
<1> QED BY <1>1, <1>2 DEF PageLeads

\* A step without an event leaves the participants as they are.
LEMMA SameLearns ==
    ASSUME NEW a \in User, NEW packets, down'[a] = down[a], page'[a].peers = page[a].peers
    PROVE  PageLearns(a, packets)
BY DEF PageLearns, Learns

\* The handler of an event adds and removes participants as Adds and Drops say.
LEMMA EventLearns ==
    ASSUME TypeOK, NEW a \in User, NEW packets, down[a] # <<>>, down'[a] = Tail(down[a]),
           (Still(packets) /\ Busy(a)) =>
              \A v \in User \ {a} :
                 /\ (v \in page[a].peers /\ ~Drops(Head(down[a]), v)) \/ Adds(Head(down[a]), v)
                       => v \in page'[a].peers
                 /\ Head(down[a]).type = "call-user-joined" /\ Head(down[a]).user = v
                       => HasOffer(packets, v)
    PROVE  PageLearns(a, packets)
<1> DEFINE e == Head(down[a])
<1> SUFFICES ASSUME Still(packets), Busy(a), NEW v \in User \ {a}
             PROVE  /\ Learns(a, v) => Learns(a, v)'
                    /\ HasJoined(down[a], v) => HasJoined(down'[a], v) \/ HasOffer(packets, v)
  BY DEF PageLearns
<1>1. /\ v \in page[a].peers /\ ~Drops(e, v) => v \in page'[a].peers
      /\ Adds(e, v) => v \in page'[a].peers
      /\ e.type = "call-user-joined" /\ e.user = v => HasOffer(packets, v)
  OBVIOUS
<1>2. down[a] \in Seq(Event)
  BY TypesOf
<1>3. /\ HasJoined(down[a], v) => \/ e.type = "call-user-joined" /\ e.user = v
                                  \/ HasJoined(down'[a], v)
      /\ Clear(down[a], v) => ~Drops(e, v) /\ Clear(down'[a], v)
      /\ Hears(down[a], v) => Hears(down'[a], v) \/ (Adds(e, v) /\ Clear(down'[a], v))
  BY <1>2, TailKnows
<1> QED BY <1>1, <1>3 DEF Learns

LEMMA handleStartCallViews ==
    ASSUME IInv, NEW a \in User, handleStartCall(a)
    PROVE  IInv'
<1>1. TypeOK /\ TypeOK' /\ PageInv(a)
  BY handleStartCallType DEF IInv, PagesInv
<1>2. PICK r \in Room :
         /\ page' = [page EXCEPT ![a] = [@ EXCEPT !.state = "calling", !.room = r]]
         /\ media' = [media EXCEPT ![a] = {[room |-> r, caller |-> None]}]
  BY DEF handleStartCall
<1>3. /\ page'[a] = [page[a] EXCEPT !.state = "calling", !.room = r]
      /\ media'[a] = {[room |-> r, caller |-> None]}
      /\ \A u \in User \ {a} : page'[u] = page[u] /\ media'[u] = media[u]
  BY <1>1, <1>2 DEF TypeOK
<1>4. /\ page'[a].state = "calling" /\ page'[a].room = r /\ r # None
      /\ page'[a].peers = page[a].peers
  BY <1>1, <1>3, PageFields, TypesOf DEF Page
<1>5. up'[a] = up[a] \o <<>> /\ down'[a] = down[a]
  BY <1>1, TypesOf, ConcatEmptySeq DEF handleStartCall
<1>6. PageMoves(a, <<>>)
  BY <1>3, <1>4, <1>5 DEF PageMoves, handleStartCall, maps
<1>7. Shown(a)' = Shown(a)
  <2>1. Shown(a) = {}
    BY DEF Shown, ShownBy, handleStartCall
  <2>2. \E m \in media'[a] : m.caller = None
    BY <1>3
  <2> QED BY <2>1, <2>2 DEF Shown, ShownBy
<1> QED BY <1>1, <1>4, <1>5, <1>6, <1>7, Empty, PageStep, SilentLeads, SameLearns

LEMMA StreamStartsViews ==
    ASSUME IInv, NEW a \in User, StreamStarts(a)
    PROVE  IInv'
<1>1. TypeOK /\ TypeOK' /\ PageInv(a)
  BY StreamStartsType DEF IInv, PagesInv
<1>2. PICK m \in media[a] :
         /\ m.caller = None
         /\ media' = [media EXCEPT ![a] = @ \ {m}]
         /\ Emit(a, <<Packet("call-initiate", m.room, a)>>)
         /\ strayed' = IF page[a].state = "calling" /\ page[a].room = m.room
                       THEN strayed ELSE strayed \cup {a}
  BY DEF StreamStarts
<1> DEFINE x == Packet("call-initiate", m.room, a)
<1>3. m \in MediaRequest /\ m.room \in Room
  BY <1>1 DEF TypeOK, MediaRequest
<1>4. x \in PagePacket /\ x.type = "call-initiate" /\ x.room = m.room
  BY <1>3 DEF Packet, PagePacket
<1> HIDE DEF x
<1>5. /\ media'[a] = {} /\ \A u \in User \ {a} : media'[u] = media[u]
      /\ page' = page /\ down' = down
      /\ up'[a] = up[a] \o <<x>> /\ \A u \in User \ {a} : up'[u] = up[u]
  BY <1>1, <1>2 DEF TypeOK, PageInv, Emit, StreamStarts, x
<1>6. PageMoves(a, <<x>>)
  BY <1>1, <1>2, <1>5 DEF PageMoves, PageInv, StreamStarts, maps
<1>7. ASSUME a \notin strayed' PROVE PageLeads(a, <<x>>)
  <2>1. page[a].state = "calling" /\ page[a].room = m.room
    BY <1>2, <1>7
  <2>2. Shown(a) = {} /\ Shown(a)' = {m.room}
    BY <1>2, <1>5, <2>1 DEF Shown, ShownBy
  <2>3. Turns(Shown(a), x, Shown(a)')
    BY <1>4, <2>2 DEF Turns
  <2> QED BY <1>1, <1>3, <1>4, <1>5, <2>2, <2>3, PacketLeads
<1>8. PageLearns(a, <<x>>)
  BY <1>5, SameLearns
<1> QED BY <1>1, <1>4, <1>6, <1>7, <1>8, Single, PageStep

LEMMA StreamFailsViews ==
    ASSUME IInv, NEW a \in User, StreamFails(a)
    PROVE  IInv'
<1>1. TypeOK /\ TypeOK' /\ PageInv(a)
  BY StreamFailsType DEF IInv, PagesInv
<1>2. PICK m \in media[a] : m.caller = None /\ media' = [media EXCEPT ![a] = @ \ {m}]
  BY DEF StreamFails
<1>3. /\ page'[a] = [page[a] EXCEPT !.state = "idle", !.room = None]
      /\ media'[a] = {}
      /\ \A u \in User \ {a} : page'[u] = page[u] /\ media'[u] = media[u]
  BY <1>1, <1>2 DEF TypeOK, PageInv, StreamFails
<1>4. page'[a].state = "idle" /\ page'[a].room = None /\ page'[a].peers = page[a].peers
  BY <1>1, <1>3, PageFields DEF Page
<1>5. up'[a] = up[a] \o <<>> /\ down'[a] = down[a]
  BY <1>1, TypesOf, ConcatEmptySeq DEF StreamFails
<1>6. PageMoves(a, <<>>)
  BY <1>3, <1>4, <1>5 DEF PageMoves, StreamFails, maps
<1>7. Shown(a)' = Shown(a)
  BY <1>2, <1>4 DEF Shown, ShownBy
<1> QED BY <1>1, <1>4, <1>5, <1>6, <1>7, Empty, PageStep, SilentLeads, SameLearns

LEMMA handleAcceptCallViews ==
    ASSUME IInv, NEW a \in User, handleAcceptCall(a)
    PROVE  IInv'
<1>1. TypeOK /\ TypeOK' /\ PageInv(a)
  BY handleAcceptCallType DEF IInv, PagesInv
<1>2. /\ media'[a] = {page[a].incoming} /\ media[a] = {}
      /\ \A u \in User \ {a} : media'[u] = media[u]
  BY <1>1 DEF TypeOK, handleAcceptCall
<1>3. page[a].incoming.caller # None
  BY <1>1, PageFields, TypesOf DEF handleAcceptCall
<1>4. up'[a] = up[a] \o <<>> /\ down'[a] = down[a] /\ page' = page
  BY <1>1, TypesOf, ConcatEmptySeq DEF handleAcceptCall
<1>5. PageMoves(a, <<>>)
  BY <1>1, <1>2, <1>4 DEF PageMoves, PageInv, handleAcceptCall, maps
<1>6. Shown(a)' = Shown(a)
  BY <1>2, <1>3, <1>4 DEF Shown, ShownBy
<1> QED BY <1>1, <1>4, <1>5, <1>6, Empty, PageStep, SilentLeads, SameLearns

LEMMA AcceptContinuesViews ==
    ASSUME IInv, NEW a \in User, AcceptContinues(a)
    PROVE  IInv'
<1>1. TypeOK /\ TypeOK' /\ PageInv(a)
  BY AcceptContinuesType DEF IInv, PagesInv
<1>2. PICK m \in media[a] :
         /\ m.caller # None
         /\ media' = [media EXCEPT ![a] = @ \ {m}]
         /\ page' = [page EXCEPT ![a] = [state |-> "in-call", room |-> m.room,
                                         peers |-> @.peers \cup {m.caller},
                                         incoming |-> None]]
         /\ Emit(a, <<Packet("call-join", m.room, a)>>)
         /\ strayed' = IF a \in online /\ page[a].state = "idle" /\ page[a].incoming = m
                       THEN strayed ELSE strayed \cup {a}
  BY DEF AcceptContinues
<1> DEFINE x == Packet("call-join", m.room, a)
<1>3. m \in MediaRequest /\ m.room \in Room /\ m.room # None
  BY <1>1, TypesOf DEF TypeOK, MediaRequest
<1>4. x \in PagePacket /\ x.type = "call-join" /\ x.room = m.room
  BY <1>3 DEF Packet, PagePacket
<1> HIDE DEF x
<1>5. /\ media'[a] = {} /\ \A u \in User \ {a} : media'[u] = media[u] /\ page'[u] = page[u]
      /\ page'[a].state = "in-call" /\ page'[a].room = m.room
      /\ page[a].peers \subseteq page'[a].peers /\ down' = down
      /\ up'[a] = up[a] \o <<x>> /\ \A u \in User \ {a} : up'[u] = up[u]
  <2>1. media'[a] = {} /\ \A u \in User \ {a} : media'[u] = media[u]
    BY <1>1, <1>2 DEF TypeOK, PageInv
  <2>2. /\ page'[a] = [state |-> "in-call", room |-> m.room,
                       peers |-> page[a].peers \cup {m.caller}, incoming |-> None]
        /\ \A u \in User \ {a} : page'[u] = page[u]
    BY <1>1, <1>2 DEF TypeOK
  <2>3. up'[a] = up[a] \o <<x>> /\ \A u \in User \ {a} : up'[u] = up[u]
    BY <1>1, <1>2 DEF TypeOK, Emit, x
  <2> QED BY <2>1, <2>2, <2>3 DEF AcceptContinues
<1>6. PageMoves(a, <<x>>)
  BY <1>2, <1>3, <1>5 DEF PageMoves, AcceptContinues, maps
<1>7. ASSUME a \notin strayed' PROVE PageLeads(a, <<x>>)
  <2>1. a \in online /\ page[a].state = "idle"
    BY <1>2, <1>7
  <2>2. Shown(a) = {} /\ Shown(a)' = {m.room}
    BY <1>5, <2>1 DEF Shown, ShownBy
  <2>3. Turns(Shown(a), x, Shown(a)')
    BY <1>4, <2>2 DEF Turns
  <2> QED BY <1>1, <1>3, <1>4, <1>5, <2>1, <2>2, <2>3, PacketLeads
<1>8. PageLearns(a, <<x>>)
  <2>1. ~Still(<<x>>)
    BY <1>4, HoldsOne DEF Command
  <2> QED BY <2>1 DEF PageLearns
<1> QED BY <1>1, <1>4, <1>6, <1>7, <1>8, Single, PageStep

LEMMA handleRejectCallViews ==
    ASSUME IInv, NEW a \in User, handleRejectCall(a)
    PROVE  IInv'
<1>1. TypeOK /\ TypeOK' /\ PageInv(a)
  BY handleRejectCallType DEF IInv, PagesInv
<1> DEFINE x == Packet("call-reject", page[a].incoming.room, page[a].incoming.caller)
<1>2. x \in PagePacket /\ x.type = "call-reject"
  BY <1>1, PageFields DEF handleRejectCall, Packet, PagePacket
<1>3. /\ page'[a] = [page[a] EXCEPT !.incoming = None]
      /\ \A u \in User \ {a} : page'[u] = page[u]
      /\ up'[a] = up[a] \o <<x>> /\ \A u \in User \ {a} : up'[u] = up[u]
  BY <1>1 DEF TypeOK, handleRejectCall, Emit
<1> HIDE DEF x
<1>4. /\ page'[a].state = page[a].state /\ page'[a].room = page[a].room
      /\ page'[a].peers = page[a].peers
  BY <1>1, <1>3, PageFields DEF Page
<1>5. PageMoves(a, <<x>>)
  BY <1>1, <1>3, <1>4 DEF PageMoves, PageInv, handleRejectCall, maps
<1>6. Shown(a)' = Shown(a) /\ Shown(a) \in SUBSET Room
  BY <1>1, <1>4, PageFields, ShownType DEF Shown, ShownBy, PageInv, handleRejectCall
<1>7. Turns(Shown(a), x, Shown(a)')
  BY <1>2, <1>6 DEF Turns, Command
<1>8. PageLeads(a, <<x>>)
  BY <1>1, <1>2, <1>3, <1>6, <1>7, PacketLeads
<1>9. PageLearns(a, <<x>>)
  BY <1>4, SameLearns DEF handleRejectCall
<1> QED BY <1>1, <1>2, <1>5, <1>8, <1>9, Single, PageStep

LEMMA handleEndCallViews ==
    ASSUME IInv, NEW a \in User, handleEndCall(a)
    PROVE  IInv'
<1>1. TypeOK /\ TypeOK' /\ PageInv(a)
  BY handleEndCallType DEF IInv, PagesInv
<1> DEFINE x == Packet("call-leave", page[a].room, a)
<1>2. page[a].room # None
  BY <1>1 DEF handleEndCall, Busy, PageInv
<1>3. x \in PagePacket /\ x.type = "call-leave" /\ x.room = page[a].room
  BY <1>1, PageFields DEF Packet, PagePacket
<1>4. /\ page'[a] = IdlePage
      /\ \A u \in User \ {a} : page'[u] = page[u]
      /\ up'[a] = up[a] \o <<x>> /\ \A u \in User \ {a} : up'[u] = up[u]
  BY <1>1 DEF TypeOK, handleEndCall, Emit
<1> HIDE DEF x
<1>5. page'[a].state = "idle" /\ page'[a].room = None
  BY <1>4 DEF IdlePage
<1>6. PageMoves(a, <<x>>)
  BY <1>1, <1>4, <1>5 DEF PageMoves, PageInv, handleEndCall, maps
<1>7. Shown(a)' = {} /\ Shown(a) \subseteq {page[a].room}
  BY <1>1, <1>5, PageFields, ShownType DEF Shown, ShownBy, PageInv
<1>8. Turns(Shown(a), x, Shown(a)')
  BY <1>2, <1>3, <1>7 DEF Turns
<1>9. PageLeads(a, <<x>>)
  BY <1>1, <1>3, <1>4, <1>7, <1>8, PacketLeads
<1>10. PageLearns(a, <<x>>)
  <2>1. ~Still(<<x>>)
    BY <1>2, <1>3, HoldsOne DEF Command
  <2> QED BY <2>1 DEF PageLearns
<1> QED BY <1>1, <1>3, <1>6, <1>9, <1>10, Single, PageStep

-----------------------------------------------------------------------------
(* Events that a page handles *)

LEMMA HandledMoves ==
    ASSUME IInv, NEW a \in User, NEW p, NEW packets, NEW strays,
           Handled(a, p, packets, strays), p.state = "idle" <=> p.room = None
    PROVE  /\ PageMoves(a, packets)
           /\ page'[a] = p /\ media'[a] = media[a] /\ online' = online
           /\ up'[a] = up[a] \o packets /\ down'[a] = Tail(down[a])
           /\ TypeOK /\ PageInv(a)
<1>1. TypeOK /\ PageInv(a)
  BY DEF IInv, PagesInv
<1>2. page'[a] = p /\ \A u \in User \ {a} : page'[u] = page[u]
  BY <1>1 DEF TypeOK, Handled
<1>3. up'[a] = up[a] \o packets /\ \A u \in User \ {a} : up'[u] = up[u]
  BY <1>1 DEF TypeOK, Handled, Emit
<1>4. down'[a] = Tail(down[a]) /\ \A u \in User \ {a} : down'[u] = down[u]
  BY <1>1 DEF TypeOK, Handled
<1>5. strayed \subseteq strayed'
  BY DEF Handled
<1>6. /\ media' = media /\ UNCHANGED <<number, online, userSockets, callSockets, activeCalls>>
  BY DEF Handled, maps
<1>7. PageMoves(a, packets)
  BY <1>1, <1>2, <1>3, <1>4, <1>5, <1>6 DEF PageMoves, PageInv
<1> QED BY <1>1, <1>2, <1>3, <1>4, <1>5, <1>6, <1>7

\* An event whose handler emits nothing and leaves the call of the page as it is.
LEMMA QuietEvent ==
    ASSUME IInv, TypeOK', NEW a \in User, NEW p, NEW strays,
           Handled(a, p, <<>>, strays), down[a] # <<>>,
           p.state = page[a].state, p.room = page[a].room,
           \A v \in User :
              (v \in page[a].peers /\ ~Drops(Head(down[a]), v)) \/ Adds(Head(down[a]), v)
                 => v \in p.peers,
           Busy(a) => \A v \in User \ {a} :
              ~(Head(down[a]).type = "call-user-joined" /\ Head(down[a]).user = v)
    PROVE  IInv'
<1>1. /\ PageMoves(a, <<>>)
      /\ page'[a] = p /\ media'[a] = media[a]
      /\ up'[a] = up[a] \o <<>> /\ down'[a] = Tail(down[a])
      /\ TypeOK
  BY HandledMoves DEF IInv, PagesInv, PageInv
<1>2. Shown(a)' = Shown(a)
  BY <1>1 DEF Shown, ShownBy
<1>3. PageLeads(a, <<>>)
  BY <1>1, <1>2, SilentLeads
<1>4. PageLearns(a, <<>>)
  BY <1>1, EventLearns
<1> QED BY <1>1, <1>3, <1>4, Empty, PageStep

LEMMA handleIncomingCallViews ==
    ASSUME IInv, NEW a \in User, handleIncomingCall(a)
    PROVE  IInv'
<1> DEFINE e == Head(down[a])
           p == IF Busy(a) THEN page[a]
                ELSE [page[a] EXCEPT !.incoming = [room |-> e.room, caller |-> e.user]]
<1>1. TypeOK /\ TypeOK' /\ down[a] # <<>> /\ e.type = "incoming-call"
  BY handleIncomingCallType DEF IInv, handleIncomingCall, Arrives
<1>2. Handled(a, p, <<>>, FALSE)
  BY DEF handleIncomingCall
<1>3. p.state = page[a].state /\ p.room = page[a].room /\ p.peers = page[a].peers
  BY <1>1, PageFields DEF Page
<1> HIDE DEF p
<1>4. \A v \in User : ~Adds(e, v) /\ ~Drops(e, v)
  BY <1>1 DEF Adds, Drops
<1> QED BY <1>1, <1>2, <1>3, <1>4, QuietEvent

LEMMA handleCallOfferViews ==
    ASSUME IInv, NEW a \in User, handleCallOffer(a)
    PROVE  IInv'
<1> DEFINE e == Head(down[a])
           p == [page[a] EXCEPT !.peers = @ \cup {e.user}]
<1>1. TypeOK /\ TypeOK' /\ down[a] # <<>> /\ e.type = "call-offer"
  BY handleCallOfferType DEF IInv, handleCallOffer, Arrives
<1>2. Handled(a, p, <<>>, FALSE)
  BY DEF handleCallOffer
<1>3. /\ p.state = page[a].state /\ p.room = page[a].room
      /\ p.peers = page[a].peers \cup {e.user}
  BY <1>1, PageFields DEF Page
<1> HIDE DEF p
<1>4. \A v \in User : Adds(e, v) => v = e.user
  BY DEF Adds
<1> QED BY <1>1, <1>2, <1>3, <1>4, QuietEvent

LEMMA handleCallUserJoinedViews ==
    ASSUME IInv, NEW a \in User, handleCallUserJoined(a)
    PROVE  IInv'
<1> DEFINE e == Head(down[a])
           p == [page[a] EXCEPT !.peers = @ \cup {e.user},
                                !.state = IF Busy(a) THEN "in-call" ELSE "idle"]
           x == Packet("call-offer", e.room, e.user)
<1>1. TypeOK /\ TypeOK' /\ down[a] # <<>> /\ e.type = "call-user-joined"
  BY handleCallUserJoinedType DEF IInv, handleCallUserJoined, Arrives
<1>2. PageInv(a) /\ e.user \in User /\ e.room \in Room
  BY EventFields DEF IInv, PagesInv, handleCallUserJoined
<1>3. \A v \in User : Adds(e, v) => v = e.user
  BY DEF Adds
<1>4. \A v \in User : ~Drops(e, v)
  BY <1>1 DEF Drops
<1>5. CASE e.user = a
  <2>1. Handled(a, page[a], <<>>, FALSE)
    BY <1>5 DEF handleCallUserJoined
  <2>2. /\ page'[a] = page[a] /\ media'[a] = media[a] /\ PageMoves(a, <<>>)
        /\ up'[a] = up[a] \o <<>> /\ down'[a] = Tail(down[a])
    BY <1>2, <2>1, HandledMoves DEF PageInv
  <2>3. PageLeads(a, <<>>)
    BY <1>1, <2>2, SilentLeads DEF Shown, ShownBy
  <2>4. PageLearns(a, <<>>)
    BY <1>1, <1>3, <1>5, <2>2, EventLearns
  <2> QED BY <1>1, <2>2, <2>3, <2>4, Empty, PageStep
<1>6. CASE e.user # a /\ ~Busy(a)
  <2>1. Handled(a, p, <<>>, FALSE)
    BY <1>6 DEF handleCallUserJoined
  <2>2. /\ p.state = page[a].state /\ p.room = page[a].room
        /\ p.peers = page[a].peers \cup {e.user}
    BY <1>1, <1>6, PageFields DEF Page, Busy
  <2> HIDE DEF p
  <2> QED BY <1>1, <1>3, <1>6, <2>1, <2>2, QuietEvent
<1>7. CASE e.user # a /\ Busy(a)
  <2>1. Handled(a, p, <<x>>, FALSE)
    BY <1>7 DEF handleCallUserJoined
  <2>2. p.state = "in-call" /\ p.room = page[a].room /\ p.peers = page[a].peers \cup {e.user}
    BY <1>1, <1>7, PageFields DEF Page
  <2>3. x \in PagePacket /\ x.type = "call-offer" /\ x.user = e.user
    BY <1>2 DEF Packet, PagePacket
  <2> HIDE DEF p, x
  <2>4. page[a].state # "idle" /\ page[a].room # None
    BY <1>2, <1>7 DEF Busy, PageInv
  <2>5. /\ page'[a] = p /\ media'[a] = media[a] /\ PageMoves(a, <<x>>)
        /\ up'[a] = up[a] \o <<x>> /\ down'[a] = Tail(down[a])
    BY <2>1, <2>2, <2>4, HandledMoves
  <2>6. Shown(a)' = Shown(a)
    BY <2>2, <2>4, <2>5 DEF Shown, ShownBy
  <2>7. Shown(a) \in SUBSET Room
    BY <1>1, <1>2, PageFields, ShownType DEF Shown, PageInv
  <2>8. Turns(Shown(a), x, Shown(a)')
    BY <2>3, <2>6 DEF Turns, Command
  <2>9. PageLeads(a, <<x>>)
    BY <1>1, <2>3, <2>5, <2>6, <2>7, <2>8, PacketLeads
  <2>10. HasOffer(<<x>>, e.user)
    BY <2>3, HoldsOne
  <2>11. PageLearns(a, <<x>>)
    BY <1>1, <1>3, <2>2, <2>5, <2>10, EventLearns
  <2> QED BY <1>1, <2>3, <2>5, <2>9, <2>11, Single, PageStep
<1> QED BY <1>5, <1>6, <1>7

LEMMA handleCallUserLeftViews ==
    ASSUME IInv, NEW a \in User, handleCallUserLeft(a)
    PROVE  IInv'
<1> DEFINE e == Head(down[a])
           left == page[a].peers \ {e.user}
           p == [page[a] EXCEPT !.peers = left]
           x == Packet("call-leave", page[a].room, a)
<1>1. TypeOK /\ TypeOK' /\ down[a] # <<>> /\ e.type = "call-user-left"
  BY handleCallUserLeftType DEF IInv, handleCallUserLeft, Arrives
<1>2. PageInv(a)
  BY DEF IInv, PagesInv
<1>3. \A v \in User : ~Adds(e, v) /\ (~Drops(e, v) => v # e.user)
  BY <1>1 DEF Adds, Drops
<1>4. CASE left = {}
  <2>1. Handled(a, IdlePage, <<x>>, FALSE)
    BY <1>4 DEF handleCallUserLeft
  <2>2. x \in PagePacket /\ x.type = "call-leave" /\ x.room = page[a].room
    BY <1>1, PageFields DEF Packet, PagePacket
  <2> HIDE DEF x
  <2>3. /\ page'[a] = IdlePage /\ PageMoves(a, <<x>>) /\ up'[a] = up[a] \o <<x>>
    <3>1. IdlePage.state = "idle" /\ IdlePage.room = None
      BY DEF IdlePage
    <3> QED BY <2>1, <3>1, HandledMoves
  <2>4. Shown(a)' = {}
    BY <2>3 DEF Shown, ShownBy, IdlePage
  <2>5. Shown(a) \subseteq {page[a].room} /\ (page[a].room = None => Shown(a) = {})
    BY <1>1, <1>2, PageFields, ShownType DEF Shown, PageInv
  <2>6. Turns(Shown(a), x, Shown(a)')
    BY <2>2, <2>4, <2>5 DEF Turns, Command
  <2>7. PageLeads(a, <<x>>)
    BY <1>1, <2>2, <2>3, <2>4, <2>6, PacketLeads
  <2>8. PageLearns(a, <<x>>)
    <3>1. Busy(a) => ~Still(<<x>>)
      BY <1>2, <2>2, HoldsOne DEF Command, Busy, PageInv
    <3> QED BY <3>1 DEF PageLearns
  <2> QED BY <1>1, <2>2, <2>3, <2>7, <2>8, Single, PageStep
<1>5. CASE left # {}
  <2>1. Handled(a, p, <<>>, FALSE)
    BY <1>5 DEF handleCallUserLeft
  <2>2. p.state = page[a].state /\ p.room = page[a].room /\ p.peers = left
    BY <1>1, PageFields DEF Page
  <2> HIDE DEF p
  <2> QED BY <1>1, <1>3, <2>1, <2>2, QuietEvent
<1> QED BY <1>4, <1>5

\* A page that becomes idle without a word strays, unless it was idle before.
LEMMA GivenUp ==
    ASSUME IInv, TypeOK', NEW a \in User, down[a] # <<>>,
           Handled(a, IdlePage, <<>>, Busy(a))
    PROVE  IInv'
<1>1. /\ PageMoves(a, <<>>) /\ page'[a] = IdlePage /\ up'[a] = up[a] \o <<>>
      /\ TypeOK /\ PageInv(a)
  BY HandledMoves DEF IdlePage
<1>2. a \notin strayed' => ~Busy(a)
  BY DEF Handled
<1>3. a \notin strayed' => Shown(a)' = Shown(a)
  BY <1>1, <1>2 DEF Shown, ShownBy, IdlePage, Busy
<1>4. a \notin strayed' => PageLeads(a, <<>>)
  BY <1>1, <1>3, SilentLeads
<1>5. a \notin strayed' => PageLearns(a, <<>>)
  BY <1>2 DEF PageLearns
<1> QED BY <1>1, <1>4, <1>5, Empty, PageStep

LEMMA handleCallEndedViews ==
    ASSUME IInv, NEW a \in User, handleCallEnded(a)
    PROVE  IInv'
BY GivenUp, handleCallEndedType DEF handleCallEnded, Arrives, IInv

LEMMA handleCallRejectedViews ==
    ASSUME IInv, NEW a \in User, handleCallRejected(a)
    PROVE  IInv'
<1>1. TypeOK /\ TypeOK' /\ down[a] # <<>> /\ Head(down[a]).type = "call-rejected"
  BY handleCallRejectedType DEF IInv, handleCallRejected, Arrives
<1>2. CASE page[a].peers = {}
  BY <1>1, <1>2, GivenUp DEF handleCallRejected, Busy
<1>3. CASE page[a].peers # {}
  <2>1. Handled(a, page[a], <<>>, FALSE)
    BY <1>3 DEF handleCallRejected
  <2>2. \A v \in User : ~Adds(Head(down[a]), v) /\ ~Drops(Head(down[a]), v)
    BY <1>1 DEF Adds, Drops
  <2> QED BY <1>1, <2>1, <2>2, QuietEvent
<1> QED BY <1>2, <1>3

-----------------------------------------------------------------------------
(* Connections that break and come back *)

LEMMA PairUntouched ==
    ASSUME NEW u \in User, NEW v \in User, PairInv(u, v),
           InCalls(u)' \subseteq InCalls(u), InCalls(v)' \subseteq InCalls(v),
           page'[u] = page[u], down'[u] = down[u], down'[v] = down[v],
           up'[u] = up[u], up'[v] = up[v], Registered(u) => Registered(u)'
    PROVE  PairInv(u, v)'
<1>1. Learns(u, v) => Learns(u, v)'
  BY DEF Learns
<1>2. WillOffer(v, u) => WillOffer(v, u)'
  BY DEF WillOffer
<1> QED BY <1>1, <1>2, PairKept

LEMMA DisconnectViews ==
    ASSUME IInv, NEW a \in User, Disconnect(a)
    PROVE  IInv'
<1>1. TypeOK /\ TypeOK'
  BY DisconnectType DEF IInv
<1>2. /\ up'[a] = <<>> /\ down'[a] = <<>>
      /\ \A u \in User \ {a} : up'[u] = up[u] /\ down'[u] = down[u]
  BY <1>1 DEF TypeOK, Disconnect
<1>3. /\ page' = page /\ media' = media /\ number' = number /\ online' = online \ {a}
      /\ userSockets' = userSockets /\ callSockets' = callSockets
      /\ activeCalls' = activeCalls /\ strayed \subseteq strayed' /\ number[a] = 1
  BY DEF Disconnect, maps
<1>4. a \notin strayed' => ~Busy(a) /\ media[a] = {} /\ up[a] = <<>> /\ down[a] = <<>>
  BY DEF Disconnect
<1>5. \A u \in User : /\ InCalls(u)' = InCalls(u) /\ (Registered(u)' <=> Registered(u))
                      /\ SocketOf(u)' = SocketOf(u) /\ Shown(u)' = Shown(u)
  BY <1>3 DEF InCalls, Registered, SocketOf, Shown, ShownBy
<1>6. PagesInv'
  <2> SUFFICES ASSUME NEW u \in User PROVE PageInv(u)'
    BY DEF PagesInv
  <2> QED BY <1>3 DEF IInv, PagesInv, PageInv
<1>7. ASSUME a \notin strayed' PROVE InCalls(a) = {} /\ ViewInv(a)'
  <2>1. ViewInv(a)
    BY <1>3, <1>7 DEF IInv, ViewsInv
  <2>2. Shown(a) = {}
    BY <1>4, <1>7 DEF Shown, ShownBy, Busy
  <2>3. InCalls(a) = {}
    <3>1. Leads(InCalls(a), <<>>, {})
      BY <1>4, <1>7, <2>1, <2>2 DEF ViewInv
    <3> QED BY <1>1, <3>1, TypesOf, LeadsNothing
  <2>4. Leads(InCalls(a)', up'[a], Shown(a)') /\ NoJoin(up'[a])
    BY <1>2, <1>5, <2>2, <2>3, LeadsNothing, HoldsNone
  <2>5. \A r \in Room : (SocketOf(a) \in callSockets[r])' <=> a \in activeCalls'[r]
    BY <1>3, <1>5, <2>1 DEF ViewInv
  <2>6. ViewInv(a)'
    BY <1>3, <1>5, <2>3, <2>4, <2>5 DEF ViewInv
  <2> QED BY <2>3, <2>6
<1>8. ViewsInv'
  <2> SUFFICES ASSUME NEW u \in User \ strayed' PROVE ViewInv(u)'
    BY DEF ViewsInv
  <2>1. CASE u # a
    <3>1. ViewInv(u)
      BY <1>3 DEF IInv, ViewsInv
    <3> QED BY <1>2, <1>3, <1>5, <2>1, <3>1, ViewKept
  <2> QED BY <1>7, <2>1
<1>9. PairsInv'
  <2> SUFFICES ASSUME NEW u \in User \ strayed', NEW v \in User \ strayed', u # v
               PROVE  PairInv(u, v)'
    BY DEF PairsInv
  <2>1. CASE u = a \/ v = a
    BY <1>5, <1>7, <2>1 DEF PairInv
  <2>2. CASE u # a /\ v # a
    <3>1. PairInv(u, v)
      BY <1>3 DEF IInv, PairsInv
    <3> QED BY <1>2, <1>3, <1>5, <2>2, <3>1, PairUntouched
  <2> QED BY <2>1, <2>2
<1> QED BY <1>1, <1>6, <1>8, <1>9 DEF IInv

LEMMA ReconnectViews ==
    ASSUME IInv, NEW a \in User, Reconnect(a)
    PROVE  IInv'
<1> DEFINE join == Packet("join-chat-rooms", None, a)
           register == Packet("register-user", None, a)
           both == <<join, register>>
<1>1. TypeOK /\ TypeOK' /\ PageInv(a)
  BY ReconnectType DEF IInv, PagesInv
<1>2. /\ join \in PagePacket /\ register \in PagePacket
      /\ join.type = "join-chat-rooms" /\ register.type = "register-user"
  BY DEF Packet, PagePacket
<1>3. up'[a] = up[a] \o both /\ \A u \in User \ {a} : up'[u] = up[u]
  BY <1>1 DEF TypeOK, Reconnect, Emit
<1> HIDE DEF join, register
<1>4. /\ page' = page /\ media' = media /\ down' = down /\ online' = online \cup {a}
      /\ number' = [number EXCEPT ![a] = 2] /\ a \notin online
      /\ userSockets' = userSockets /\ callSockets' = callSockets
      /\ activeCalls' = activeCalls /\ strayed' = strayed
  BY DEF Reconnect
<1>5. /\ number'[a] = 2 /\ SocketOf(a)' = <<a, 2>>
      /\ \A u \in User \ {a} : number'[u] = number[u]
  BY <1>1, <1>4 DEF TypeOK, SocketOf
<1>6. \A u \in User : InCalls(u)' = InCalls(u) /\ Shown(u)' = Shown(u)
  BY <1>4 DEF InCalls, Shown, ShownBy
<1>7. PagesInv'
  <2> SUFFICES ASSUME NEW u \in User PROVE PageInv(u)'
    BY DEF PagesInv
  <2>1. PageInv(u)
    BY DEF IInv, PagesInv
  <2>2. CASE u = a
    BY <1>4, <1>5, <2>1, <2>2 DEF PageInv
  <2>3. CASE u # a
    BY <1>4, <1>5, <2>1, <2>3 DEF PageInv
  <2> QED BY <2>2, <2>3
<1>8. ASSUME a \notin strayed PROVE InCalls(a) = {} /\ ViewInv(a)'
  <2>1. ViewInv(a)
    BY <1>8 DEF IInv, ViewsInv
  <2>2. InCalls(a) = {} /\ NoJoin(up[a]) /\ number[a] = 1
    BY <1>1, <1>4, <2>1 DEF ViewInv, PageInv
  <2>3. Leads(InCalls(a)', up'[a], Shown(a)')
    <3>1. /\ up[a] \in Seq(PagePacket)
          /\ <<join>> \in Seq(PagePacket) /\ <<register>> \in Seq(PagePacket)
      BY <1>1, <1>2, TypesOf
    <3>2. Shown(a) \in SUBSET Room
      BY <1>1, PageFields, ShownType DEF Shown, PageInv
    <3>3. Turns(Shown(a), join, Shown(a)) /\ Turns(Shown(a), register, Shown(a))
      BY <1>2 DEF Turns, Command
    <3>4. Leads(InCalls(a), up[a] \o <<join>>, Shown(a))
      BY <1>2, <2>1, <3>1, <3>2, <3>3, LeadsAppend DEF ViewInv
    <3>5. up[a] \o <<join>> \in Seq(PagePacket)
      BY <3>1, ConcatProperties
    <3>6. Leads(InCalls(a), (up[a] \o <<join>>) \o <<register>>, Shown(a))
      BY <1>2, <3>2, <3>3, <3>4, <3>5, LeadsAppend
    <3>7. (up[a] \o <<join>>) \o <<register>> = up[a] \o both
      <4>1. (up[a] \o <<join>>) \o <<register>> = up[a] \o (<<join>> \o <<register>>)
        BY <3>1, ConcatAssociative
      <4>2. <<join>> \o <<register>> = both
        BY <1>2, OneAndOne
      <4> QED BY <4>1, <4>2
    <3> QED BY <1>3, <1>6, <3>6, <3>7
  <2>4. \A r \in Room : (SocketOf(a) \in callSockets[r])' <=> a \in activeCalls'[r]
    BY <1>1, <1>4, <1>5, <2>2 DEF PageInv, InCalls
  <2>5. Registering(up'[a])
    <3>1. NoJoin(<<join>>) /\ Registering(<<register>>)
      BY <1>2, HoldsOne
    <3>2. /\ up[a] \in Seq(PagePacket)
          /\ <<join>> \in Seq(PagePacket) /\ <<register>> \in Seq(PagePacket)
      BY <1>1, <1>2, TypesOf
    <3>3. both = <<join>> \o <<register>>
      BY <1>2, OneAndOne
    <3>4. Registering(both) /\ both \in Seq(PagePacket)
      BY <3>1, <3>2, <3>3, RegisteringAppend, ConcatProperties
    <3>5. Registering(up[a] \o both)
      BY <2>2, <3>2, <3>4, RegisteringAppend
    <3> QED BY <1>3, <3>5
  <2>6. ViewInv(a)'
    BY <1>4, <2>3, <2>4, <2>5 DEF ViewInv
  <2> QED BY <2>2, <2>6
<1>9. ViewsInv'
  <2> SUFFICES ASSUME NEW u \in User \ strayed PROVE ViewInv(u)'
    BY <1>4 DEF ViewsInv
  <2>1. CASE u # a
    <3>1. ViewInv(u)
      BY DEF IInv, ViewsInv
    <3> QED BY <1>3, <1>4, <1>5, <1>6, <2>1, <3>1, ViewKept
  <2> QED BY <1>8, <2>1
<1>10. PairsInv'
  <2> SUFFICES ASSUME NEW u \in User \ strayed, NEW v \in User \ strayed, u # v
               PROVE  PairInv(u, v)'
    BY <1>4 DEF PairsInv
  <2>1. CASE u = a \/ v = a
    BY <1>6, <1>8, <2>1 DEF PairInv
  <2>2. CASE u # a /\ v # a
    <3>1. PairInv(u, v)
      BY DEF IInv, PairsInv
    <3>2. Registered(u)' <=> Registered(u)
      BY <1>4, <1>5, <2>2 DEF Registered, SocketOf
    <3> QED BY <1>3, <1>4, <1>6, <2>2, <3>1, <3>2, PairUntouched
  <2> QED BY <2>1, <2>2
<1> QED BY <1>1, <1>7, <1>9, <1>10 DEF IInv

-----------------------------------------------------------------------------
(* Steps of the gateway *)

\* The gateway takes the first packet of a, who is online, and sends events.
Takes(a, sent) ==
    /\ a \in online /\ up[a] # <<>>
    /\ up'[a] = Tail(up[a]) /\ \A u \in User \ {a} : up'[u] = up[u]
    /\ \A u \in User : down'[u] = down[u] \o sent[u]
    /\ UNCHANGED <<page, media, number, online>>
    /\ strayed \subseteq strayed'
    /\ \A r \in Room : callSockets'[r] \subseteq callSockets[r] \cup {SocketOf(a)}

\* It leaves the calls, the seat and the registration of u alone.
Leaves(u) ==
    /\ userSockets'[u] = userSockets[u]
    /\ \A r \in Room :
         /\ u \in activeCalls'[r] <=> u \in activeCalls[r]
         /\ SocketOf(u) \in callSockets'[r] <=> SocketOf(u) \in callSockets[r]

\* It does to the calls of a what the packet says, and seats the socket of a accordingly.
Follows(a) ==
    /\ \A S \in SUBSET Room : Turns(InCalls(a), Head(up[a]), S) => S = InCalls(a)'
    /\ \A r \in Room : SocketOf(a) \in callSockets'[r] <=> a \in activeCalls'[r]
    /\ Registered(a) \/ Head(up[a]).type = "register-user" => Registered(a)'

\* u loses nobody, and hears of an offer that reaches the gateway.
Informs(a, sent, u, v) ==
    /\ a \in {u, v} => ~Command(Head(up[a]))
    /\ Clear(sent[u], v)
    /\ /\ v = a /\ Head(up[a]).type = "call-offer" /\ Head(up[a]).user = u
       /\ Registered(u) /\ u \in online
       => Hears(sent[u], v)

LEMMA HeadView ==
    ASSUME TypeOK, NEW a \in User, ViewInv(a), NEW sent, Takes(a, sent), Follows(a)
    PROVE  ViewInv(a)'
<1>1. up[a] \in Seq(PagePacket) /\ up[a] # <<>> /\ InCalls(a) \in SUBSET Room
  BY TypesOf DEF Takes
<1>2. Leads(InCalls(a), up[a], Shown(a))
  BY DEF ViewInv
<1>3. PICK S \in SUBSET Room : /\ Turns(InCalls(a), Head(up[a]), S)
                               /\ Leads(S, Tail(up[a]), Shown(a))
  BY <1>1, <1>2, LeadsTail
<1>4. SocketOf(a)' = SocketOf(a) /\ Shown(a)' = Shown(a) /\ a \in online'
  BY DEF Takes, SocketOf, Shown, ShownBy
<1>5. Leads(InCalls(a)', up'[a], Shown(a)')
  BY <1>3, <1>4 DEF Takes, Follows
<1>6. \A r \in Room : (SocketOf(a) \in callSockets[r])' <=> a \in activeCalls'[r]
  BY <1>4 DEF Follows
<1>7. Registered(a)' \/ Registering(up'[a])
  BY <1>1, TailHolds DEF ViewInv, Takes, Follows
<1> QED BY <1>4, <1>5, <1>6, <1>7 DEF ViewInv

LEMMA TakesPages ==
    ASSUME IInv, NEW a \in User, NEW sent, Takes(a, sent)
    PROVE  PagesInv'
<1> SUFFICES ASSUME NEW u \in User PROVE PageInv(u)'
  BY DEF PagesInv
<1>1. PageInv(u)
  BY DEF IInv, PagesInv
<1>2. number[u] = 1 => <<u, 2>> # SocketOf(a)
  BY DEF SocketOf
<1>3. ASSUME number[u] = 1, NEW r \in Room PROVE <<u, 2>> \notin callSockets'[r]
  BY <1>1, <1>2, <1>3 DEF PageInv, Takes
<1> QED BY <1>1, <1>3 DEF PageInv, Takes

LEMMA GatewayPair ==
    ASSUME TypeOK, NEW u \in User, NEW v \in User, PairInv(u, v),
           InCalls(u)' \subseteq InCalls(u), InCalls(v)' \subseteq InCalls(v),
           Still(up'[u]) => Still(up[u]), Still(up'[v]) => Still(up[v]),
           NEW x \in Seq(Event), NEW y \in Seq(Event),
           down'[u] = down[u] \o x, down'[v] = down[v] \o y, page'[u] = page[u],
           Clear(x, v), Registered(u) => Registered(u)',
           (Still(up'[u]) /\ InCalls(u)' # {} /\ Registered(u) /\ HasOffer(up[v], u)) =>
              HasOffer(up'[v], u) \/ Hears(x, v)
    PROVE  PairInv(u, v)'
<1>1. down[u] \in Seq(Event) /\ down[v] \in Seq(Event)
  BY TypesOf
<1>2. Learns(u, v) => Learns(u, v)'
  BY <1>1, StillAppend, HearsAppend DEF Learns
<1>3. Hears(x, v) => Learns(u, v)'
  BY <1>1, HearsAppend DEF Learns
<1>4. HasJoined(down[v], u) => HasJoined(down'[v], u)
  BY <1>1, HasAppend
<1>5. Still(up'[u]) /\ InCalls(u)' # {} =>
         (WillOffer(v, u) => WillOffer(v, u)' \/ Learns(u, v)')
  BY <1>3, <1>4 DEF WillOffer
<1> QED BY <1>2, <1>5, PairKept

LEMMA GatewayStep ==
    ASSUME IInv, TypeOK', NEW a \in User, NEW sent \in [User -> Seq(Event)],
           Takes(a, sent),
           \A u \in User \ strayed' : u # a => Leaves(u),
           a \notin strayed' => Follows(a),
           \A u, v \in User \ strayed' : u # v => PairInv(u, v)' \/ Informs(a, sent, u, v)
    PROVE  IInv'
<1>1. TypeOK /\ strayed \subseteq strayed'
  BY DEF IInv, Takes
<1>2. \A u \in User \ strayed' : u \notin strayed /\ PageInv(u) /\ ViewInv(u)
  BY <1>1 DEF IInv, PagesInv, ViewsInv
<1>3. \A u \in User : SocketOf(u)' = SocketOf(u)
  BY DEF SocketOf, Takes
<1>4. \A u \in User \ strayed' : u # a => InCalls(u)' = InCalls(u)
  BY DEF InCalls, Leaves
<1>5. ViewsInv'
  <2> SUFFICES ASSUME NEW u \in User \ strayed' PROVE ViewInv(u)'
    BY DEF ViewsInv
  <2>1. CASE u = a
    BY <1>1, <1>2, <2>1, HeadView
  <2>2. CASE u # a
    BY <1>2, <1>4, <2>2, ViewKept DEF Takes, Leaves
  <2> QED BY <2>1, <2>2
<1>6. PairsInv'
  <2> SUFFICES ASSUME NEW u \in User \ strayed', NEW v \in User \ strayed', u # v,
                      Informs(a, sent, u, v)
               PROVE  PairInv(u, v)'
    BY DEF PairsInv
  <2>1. PairInv(u, v)
    BY <1>2 DEF IInv, PairsInv
  <2>2. \A w \in {u, v} : InCalls(w)' = InCalls(w)
    <3> SUFFICES ASSUME NEW w \in {u, v} PROVE InCalls(w)' = InCalls(w)
      OBVIOUS
    <3>1. CASE w = a
      <4>1. Turns(InCalls(a), Head(up[a]), InCalls(a))
        BY <3>1 DEF Informs, Turns
      <4>2. InCalls(a) \in SUBSET Room
        BY <1>1, TypesOf
      <4> QED BY <3>1, <4>1, <4>2 DEF Follows
    <3> QED BY <1>4, <3>1
  <2>3. \A w \in {u, v} : Still(up'[w]) => Still(up[w])
    <3>1. up[a] \in Seq(PagePacket) /\ up[a] # <<>>
      BY <1>1, TypesOf DEF Takes
    <3>2. a \in {u, v} => (Still(up'[a]) => Still(up[a]))
      BY <3>1, TailHolds DEF Takes, Informs
    <3> QED BY <3>2 DEF Takes
  <2>4. Registered(u) => Registered(u)'
    <3>1. CASE u = a
      BY <3>1 DEF Follows
    <3>2. CASE u # a
      BY <1>3, <3>2 DEF Registered, Leaves
    <3> QED BY <3>1, <3>2
  <2>5. ASSUME Still(up'[u]), InCalls(u)' # {}, Registered(u), HasOffer(up[v], u)
        PROVE  HasOffer(up'[v], u) \/ Hears(sent[u], v)
    <3>1. u \in online
      BY <1>1, <1>2, <2>2, <2>3, <2>5, StillBusy
    <3>2. CASE v = a
      <4>1. up[a] \in Seq(PagePacket) /\ up[a] # <<>>
        BY <1>1, TypesOf DEF Takes
      <4>2. \/ Head(up[a]).type = "call-offer" /\ Head(up[a]).user = u
            \/ HasOffer(up'[a], u)
        BY <2>5, <3>2, <4>1, TailKnows DEF Takes
      <4> QED BY <2>5, <3>1, <3>2, <4>2 DEF Informs
    <3>3. CASE v # a
      BY <2>5, <3>3 DEF Takes
    <3> QED BY <3>2, <3>3
  <2>6. /\ sent[u] \in Seq(Event) /\ sent[v] \in Seq(Event)
        /\ down'[u] = down[u] \o sent[u] /\ down'[v] = down[v] \o sent[v]
        /\ page'[u] = page[u] /\ Clear(sent[u], v)
    BY DEF Takes, Informs
  <2> QED BY <1>1, <2>1, <2>2, <2>3, <2>4, <2>5, <2>6, GatewayPair
<1> QED BY <1>5, <1>6, TakesPages DEF IInv

\* What each page is sent.
Sent(first, second) == [u \in User |-> first[u] \o second[u]]

LEMMA EventsAssociate ==
    ASSUME NEW s \in Seq(Event), NEW t \in Seq(Event), NEW v \in Seq(Event)
    PROVE  (s \o t) \o v = s \o (t \o v)
BY ConcatAssociative

LEMMA AnswerTakes ==
    ASSUME TypeOK, NEW a \in User, a \in online, up[a] # <<>>,
           NEW first \in [User -> Seq(Event)], NEW second \in [User -> Seq(Event)],
           Answer(a, first, second), UNCHANGED pages, strayed \subseteq strayed',
           \A r \in Room : callSockets'[r] \subseteq callSockets[r] \cup {SocketOf(a)}
    PROVE  Takes(a, Sent(first, second)) /\ Sent(first, second) \in [User -> Seq(Event)]
<1>1. up'[a] = Tail(up[a]) /\ \A u \in User \ {a} : up'[u] = up[u]
  BY DEF Answer, TypeOK
<1>2. \A u \in User : down'[u] = down[u] \o Sent(first, second)[u]
  <2> SUFFICES ASSUME NEW u \in User PROVE down'[u] = down[u] \o Sent(first, second)[u]
    OBVIOUS
  <2>1. down[u] \in Seq(Event) /\ first[u] \in Seq(Event) /\ second[u] \in Seq(Event)
    BY TypesOf
  <2>2. (down[u] \o first[u]) \o second[u] = down[u] \o (first[u] \o second[u])
    BY <2>1, EventsAssociate
  <2> QED BY <2>2 DEF Answer, Sent
<1>3. Sent(first, second) \in [User -> Seq(Event)]
  <2>1. \A u \in User : first[u] \o second[u] \in Seq(Event)
    BY ConcatProperties
  <2> QED BY <2>1 DEF Sent
<1> QED BY <1>1, <1>2, <1>3 DEF Takes, pages

\* Events that drop nobody, or do not drop v.
LEMMA SentClear ==
    ASSUME NEW first \in [User -> Seq(Event)], NEW second \in [User -> Seq(Event)],
           NEW u \in User, NEW v, Clear(first[u], v), Clear(second[u], v)
    PROVE  Clear(Sent(first, second)[u], v)
<1>1. Clear(first[u] \o second[u], v)
  BY StillAppend
<1> QED BY <1>1 DEF Sent

LEMMA NothingClear == \A u \in User : \A v : Clear(Nothing[u], v)
BY HoldsNone DEF Nothing

LEMMA ToClear ==
    ASSUME NEW S, NEW event, NEW u \in User, NEW v, ~Drops(event, v)
    PROVE  Clear(To(S, event)[u], v)
<1>1. Clear(<<>>, v) /\ Clear(<<event>>, v)
  BY HoldsNone, HoldsOne
<1> QED BY <1>1 DEF To

\* What one event adds for those whom it reaches.
LEMMA ToReaches ==
    ASSUME NEW S, NEW event \in Event, NEW u \in User, u \in online, SocketOf(u) \in S, NEW v
    PROVE  /\ Adds(event, v) => Hears(Sent(To(S, event), Nothing)[u], v)
           /\ event.type = "call-user-joined" /\ event.user = v =>
                HasJoined(Sent(To(S, event), Nothing)[u], v)
<1>1. <<event>> \in Seq(Event) /\ <<event>> \o <<>> = <<event>>
  BY ConcatEmptySeq
<1>2. Sent(To(S, event), Nothing)[u] = <<event>>
  BY <1>1 DEF Sent, To, Nothing
<1> QED BY <1>2, HoldsOne

\* A packet that changes no calls.
LEMMA NoCommandFollows ==
    ASSUME NEW a \in User, ViewInv(a), ~Command(Head(up[a])), activeCalls' = activeCalls,
           callSockets' = callSockets,
           Registered(a) \/ Head(up[a]).type = "register-user" => Registered(a)'
    PROVE  Follows(a)
<1>1. InCalls(a)' = InCalls(a)
  BY DEF InCalls
<1> QED BY <1>1 DEF Follows, Turns, Command, ViewInv

LEMMA handleJoinChatRoomsViews ==
    ASSUME IInv, NEW a \in User, handleJoinChatRooms(a)
    PROVE  IInv'
<1>1. TypeOK /\ TypeOK' /\ a \in online /\ up[a] # <<>> /\ Head(up[a]).type = "join-chat-rooms"
  BY handleJoinChatRoomsType DEF IInv, handleJoinChatRooms, Received
<1> DEFINE sent == Sent(Nothing, Nothing)
<1>2. Nothing \in [User -> Seq(Event)]
  BY NothingType
<1>3. Takes(a, sent) /\ sent \in [User -> Seq(Event)]
  BY <1>1, <1>2, AnswerTakes DEF handleJoinChatRooms
<1>4. \A u \in User : Leaves(u)
  BY DEF Leaves, handleJoinChatRooms
<1>5. a \notin strayed' => Follows(a)
  <2>1. a \notin strayed' => ViewInv(a)
    BY DEF IInv, ViewsInv, handleJoinChatRooms
  <2>2. Registered(a)' <=> Registered(a)
    BY DEF Registered, SocketOf, handleJoinChatRooms, pages
  <2> QED BY <1>1, <2>1, <2>2, NoCommandFollows DEF Command, handleJoinChatRooms
<1>6. \A u, v \in User : Informs(a, sent, u, v)
  BY <1>1, <1>2, SentClear, NothingClear DEF Informs, Command
<1> HIDE DEF sent
<1> QED BY <1>1, <1>3, <1>4, <1>5, <1>6, GatewayStep

LEMMA handleRegisterUserViews ==
    ASSUME IInv, NEW a \in User, handleRegisterUser(a)
    PROVE  IInv'
<1>1. TypeOK /\ TypeOK' /\ a \in online /\ up[a] # <<>> /\ Head(up[a]).type = "register-user"
  BY handleRegisterUserType DEF IInv, handleRegisterUser, Received
<1> DEFINE sent == Sent(Nothing, Nothing)
<1>2. Nothing \in [User -> Seq(Event)]
  BY NothingType
<1>3. Takes(a, sent) /\ sent \in [User -> Seq(Event)]
  BY <1>1, <1>2, AnswerTakes DEF handleRegisterUser
<1>4. \A u \in User \ {a} : Leaves(u)
  BY <1>1 DEF Leaves, handleRegisterUser, TypeOK
<1>5. a \notin strayed' => Follows(a)
  <2>1. a \notin strayed' => ViewInv(a)
    BY DEF IInv, ViewsInv, handleRegisterUser
  <2>2. Registered(a)'
    BY <1>1 DEF Registered, SocketOf, handleRegisterUser, pages, TypeOK
  <2> QED BY <1>1, <2>1, <2>2, NoCommandFollows DEF Command, handleRegisterUser
<1>6. \A u, v \in User : Informs(a, sent, u, v)
  BY <1>1, <1>2, SentClear, NothingClear DEF Informs, Command
<1> HIDE DEF sent
<1> QED BY <1>1, <1>3, <1>4, <1>5, <1>6, GatewayStep

LEMMA RelayCallOfferViews ==
    ASSUME IInv, NEW a \in User, RelayCallOffer(a)
    PROVE  IInv'
<1> DEFINE p == Head(up[a])
           offer == Packet("call-offer", p.room, a)
           first == To({userSockets[p.user]}, offer)
           sent == Sent(first, Nothing)
<1>1. TypeOK /\ TypeOK' /\ a \in online /\ up[a] # <<>> /\ p.type = "call-offer"
  BY RelayCallOfferType DEF IInv, RelayCallOffer, Received
<1>2. p.room \in Room
  BY <1>1, PacketFields DEF RelayCallOffer
<1>3. offer \in Event /\ offer.type = "call-offer" /\ offer.user = a
  BY <1>2 DEF Packet, Event
<1>4. first \in [User -> Seq(Event)] /\ Nothing \in [User -> Seq(Event)]
  BY <1>3, ToType, NothingType
<1>5. /\ Answer(a, first, Nothing) /\ UNCHANGED <<pages, maps, strayed>>
  BY DEF RelayCallOffer, Relay
<1> HIDE DEF offer
<1>6. Takes(a, sent) /\ sent \in [User -> Seq(Event)]
  BY <1>1, <1>4, <1>5, AnswerTakes DEF maps
<1>7. \A u \in User : Leaves(u)
  BY <1>5 DEF Leaves, maps
<1>8. a \notin strayed' => Follows(a)
  <2>1. a \notin strayed' => ViewInv(a)
    BY <1>5 DEF IInv, ViewsInv
  <2>2. Registered(a)' <=> Registered(a)
    BY <1>5 DEF Registered, SocketOf, pages, maps
  <2> QED BY <1>1, <1>5, <2>1, <2>2, NoCommandFollows DEF Command, maps
<1>9. ASSUME NEW u \in User, NEW v \in User PROVE Informs(a, sent, u, v)
  <2>1. Clear(first[u], v)
    BY <1>3, ToClear DEF Drops
  <2>2. Clear(sent[u], v)
    BY <1>4, <2>1, SentClear, NothingClear
  <2>3. ASSUME v = a, p.user = u, Registered(u), u \in online PROVE Hears(sent[u], v)
    <3>1. SocketOf(u) \in {userSockets[p.user]} /\ Adds(offer, v)
      BY <1>3, <2>3 DEF Registered, Adds
    <3> QED BY <1>3, <2>3, <3>1, ToReaches
  <2> QED BY <1>1, <2>2, <2>3 DEF Informs, Command
<1> HIDE DEF sent
<1> QED BY <1>1, <1>6, <1>7, <1>8, <1>9, GatewayStep

LEMMA handleCallRejectViews ==
    ASSUME IInv, NEW a \in User, handleCallReject(a)
    PROVE  IInv'
<1> DEFINE p == Head(up[a])
           rejected == Packet("call-rejected", p.room, a)
           first == To({userSockets[p.user]}, rejected)
           sent == Sent(first, Nothing)
<1>1. TypeOK /\ TypeOK' /\ a \in online /\ up[a] # <<>> /\ p.type = "call-reject"
  BY handleCallRejectType DEF IInv, handleCallReject, Received
<1>2. p.room \in Room
  BY <1>1, PacketFields DEF handleCallReject
<1>3. rejected \in Event /\ rejected.type = "call-rejected"
  BY <1>2 DEF Packet, Event
<1>4. first \in [User -> Seq(Event)] /\ Nothing \in [User -> Seq(Event)]
  BY <1>3, ToType, NothingType
<1>5. /\ Answer(a, first, Nothing) /\ UNCHANGED <<pages, maps, strayed>>
  BY DEF handleCallReject, Relay
<1> HIDE DEF rejected
<1>6. Takes(a, sent) /\ sent \in [User -> Seq(Event)]
  BY <1>1, <1>4, <1>5, AnswerTakes DEF maps
<1>7. \A u \in User : Leaves(u)
  BY <1>5 DEF Leaves, maps
<1>8. a \notin strayed' => Follows(a)
  <2>1. a \notin strayed' => ViewInv(a)
    BY <1>5 DEF IInv, ViewsInv
  <2>2. Registered(a)' <=> Registered(a)
    BY <1>5 DEF Registered, SocketOf, pages, maps
  <2> QED BY <1>1, <1>5, <2>1, <2>2, NoCommandFollows DEF Command, maps
<1>9. ASSUME NEW u \in User, NEW v \in User PROVE Informs(a, sent, u, v)
  <2>1. Clear(first[u], v)
    BY <1>3, ToClear DEF Drops
  <2>2. Clear(sent[u], v)
    BY <1>4, <2>1, SentClear, NothingClear
  <2> QED BY <1>1, <2>2 DEF Informs, Command
<1> HIDE DEF sent
<1> QED BY <1>1, <1>6, <1>7, <1>8, <1>9, GatewayStep

LEMMA TurnsNext ==
    ASSUME TypeOK, NEW a \in User, ViewInv(a), up[a] # <<>>
    PROVE  \E S \in SUBSET Room : Turns(InCalls(a), Head(up[a]), S)
<1>1. Leads(InCalls(a), up[a], Shown(a))
  BY DEF ViewInv
<1> QED BY <1>1, TypesOf, LeadsTail

LEMMA handleCallInitiateViews ==
    ASSUME IInv, NEW a \in User, handleCallInitiate(a)
    PROVE  IInv'
<1> DEFINE r == Head(up[a]).room
           incoming == Packet("incoming-call", r, a)
           first == To(chatSockets[r] \ {SocketOf(a)}, incoming)
           sent == Sent(first, Nothing)
<1>1. TypeOK /\ TypeOK' /\ a \in online /\ up[a] # <<>> /\ Head(up[a]).type = "call-initiate"
  BY handleCallInitiateType DEF IInv, handleCallInitiate, Received
<1>2. r \in Room
  BY <1>1, PacketFields DEF handleCallInitiate
<1>3. incoming \in Event /\ incoming.type = "incoming-call"
  BY <1>2 DEF Packet, Event
<1>4. first \in [User -> Seq(Event)] /\ Nothing \in [User -> Seq(Event)]
  BY <1>3, ToType, NothingType
<1>5. /\ activeCalls' = [activeCalls EXCEPT ![r] = {a}]
      /\ callSockets' = [callSockets EXCEPT ![r] = @ \cup {SocketOf(a)}]
      /\ Answer(a, first, Nothing)
      /\ strayed' = strayed \cup (activeCalls[r] \ {a})
      /\ UNCHANGED <<pages, userSockets>>
  BY DEF handleCallInitiate
<1> HIDE DEF incoming
<1>6. /\ activeCalls'[r] = {a} /\ callSockets'[r] = callSockets[r] \cup {SocketOf(a)}
      /\ \A q \in Room \ {r} :
           activeCalls'[q] = activeCalls[q] /\ callSockets'[q] = callSockets[q]
  BY <1>1, <1>2, <1>5 DEF TypeOK
<1>7. Takes(a, sent) /\ sent \in [User -> Seq(Event)]
  BY <1>1, <1>4, <1>5, <1>6, AnswerTakes
<1>8. ASSUME NEW u \in User \ strayed', u # a PROVE Leaves(u) /\ u \notin activeCalls[r]
  <2>1. u \notin activeCalls[r] /\ SocketOf(u) # SocketOf(a)
    BY <1>5, <1>8 DEF SocketOf
  <2> QED BY <1>5, <1>6, <1>8, <2>1 DEF Leaves
<1>9. a \notin strayed' => ViewInv(a)
  BY <1>5 DEF IInv, ViewsInv
<1>10. ASSUME a \notin strayed' PROVE Follows(a) /\ InCalls(a)' = {r}
  <2>1. ASSUME NEW S \in SUBSET Room, Turns(InCalls(a), Head(up[a]), S)
        PROVE  S = {r} /\ InCalls(a)' = {r}
    <3>1. InCalls(a) = {} /\ S = {r}
      BY <1>1, <2>1 DEF Turns, Command
    <3> QED BY <1>2, <1>6, <3>1 DEF InCalls
  <2>2. Registered(a)' <=> Registered(a)
    BY <1>5 DEF Registered, SocketOf, pages
  <2>3. \A q \in Room : SocketOf(a) \in callSockets'[q] <=> a \in activeCalls'[q]
    BY <1>6, <1>9, <1>10 DEF ViewInv
  <2>4. \E S \in SUBSET Room : Turns(InCalls(a), Head(up[a]), S)
    BY <1>1, <1>9, <1>10, TurnsNext
  <2> QED BY <1>1, <2>1, <2>2, <2>3, <2>4 DEF Follows
<1>11. ASSUME NEW u \in User \ strayed', NEW v \in User \ strayed', u # v
       PROVE  PairInv(u, v)' \/ Informs(a, sent, u, v)
  <2>1. ASSUME NEW w \in User \ strayed', w # a PROVE r \notin InCalls(w)'
    BY <1>6, <2>1 DEF InCalls
  <2>2. CASE a \in {u, v}
    BY <1>10, <1>11, <2>1, <2>2 DEF PairInv
  <2>3. CASE a \notin {u, v}
    <3>1. Clear(first[u], v)
      BY <1>3, ToClear DEF Drops
    <3>2. Clear(sent[u], v)
      BY <1>4, <3>1, NothingClear, SentClear
    <3> QED BY <2>3, <3>2 DEF Informs
  <2> QED BY <2>2, <2>3
<1> HIDE DEF sent
<1> QED BY <1>1, <1>7, <1>8, <1>10, <1>11, GatewayStep

LEMMA handleCallJoinViews ==
    ASSUME IInv, NEW a \in User, handleCallJoin(a)
    PROVE  IInv'
<1> DEFINE r == Head(up[a]).room
           joined == Packet("call-user-joined", r, a)
           first == To(callSockets'[r], joined)
           none == Sent(Nothing, Nothing)
           sent == Sent(first, Nothing)
<1>1. TypeOK /\ TypeOK' /\ a \in online /\ up[a] # <<>> /\ Head(up[a]).type = "call-join"
  BY handleCallJoinType DEF IInv, handleCallJoin, Received
<1>2. r \in Room
  BY <1>1, PacketFields DEF handleCallJoin
<1>3. joined \in Event /\ joined.type = "call-user-joined" /\ joined.user = a
  BY <1>2 DEF Packet, Event
<1>4. first \in [User -> Seq(Event)] /\ Nothing \in [User -> Seq(Event)]
  BY <1>3, ToType, NothingType
<1>5. UNCHANGED <<pages, userSockets>>
  BY DEF handleCallJoin
<1> HIDE DEF joined
<1>6. CASE activeCalls[r] = {}
  <2>1. /\ Answer(a, Nothing, Nothing) /\ strayed' = strayed \cup {a}
        /\ activeCalls' = activeCalls /\ callSockets' = callSockets
    BY <1>6 DEF handleCallJoin
  <2>2. Takes(a, none) /\ none \in [User -> Seq(Event)]
    BY <1>1, <1>4, <1>5, <2>1, AnswerTakes
  <2>3. \A u \in User : Leaves(u)
    BY <1>5, <2>1 DEF Leaves
  <2>4. ASSUME NEW u \in User \ strayed', NEW v \in User \ strayed' PROVE Informs(a, none, u, v)
    BY <1>4, <2>1, SentClear, NothingClear DEF Informs
  <2> HIDE DEF none
  <2> QED BY <1>1, <2>1, <2>2, <2>3, <2>4, GatewayStep
<1>7. CASE activeCalls[r] # {}
  <2>1. /\ activeCalls' = [activeCalls EXCEPT ![r] = @ \cup {a}]
        /\ callSockets' = [callSockets EXCEPT ![r] = @ \cup {SocketOf(a)}]
        /\ Answer(a, first, Nothing) /\ strayed' = strayed
    BY <1>7 DEF handleCallJoin, joined
  <2>2. /\ activeCalls'[r] = activeCalls[r] \cup {a}
        /\ callSockets'[r] = callSockets[r] \cup {SocketOf(a)}
        /\ \A q \in Room \ {r} : /\ activeCalls'[q] = activeCalls[q]
                                 /\ callSockets'[q] = callSockets[q]
    BY <1>1, <1>2, <2>1 DEF TypeOK
  <2>3. Takes(a, sent) /\ sent \in [User -> Seq(Event)]
    BY <1>1, <1>4, <1>5, <2>1, <2>2, AnswerTakes
  <2>4. ASSUME NEW u \in User, u # a PROVE Leaves(u)
    <3>1. SocketOf(u) # SocketOf(a)
      BY <2>4 DEF SocketOf
    <3> QED BY <1>5, <2>2, <2>4, <3>1 DEF Leaves
  <2>5. \A u \in User \ strayed' : ViewInv(u)
    BY <2>1 DEF IInv, ViewsInv
  <2>6. ASSUME a \notin strayed' PROVE Follows(a) /\ InCalls(a)' = {r} /\ Registered(a)
    <3>1. ASSUME NEW S \in SUBSET Room, Turns(InCalls(a), Head(up[a]), S)
          PROVE  S = {r} /\ InCalls(a)' = {r}
      <4>1. InCalls(a) = {} /\ S = {r}
        BY <1>1, <3>1 DEF Turns, Command
      <4> QED BY <1>2, <2>2, <4>1 DEF InCalls
    <3>2. Registered(a)' <=> Registered(a)
      BY <1>5 DEF Registered, SocketOf, pages
    <3>3. \A q \in Room : SocketOf(a) \in callSockets'[q] <=> a \in activeCalls'[q]
      BY <2>2, <2>5, <2>6 DEF ViewInv
    <3>4. \E S \in SUBSET Room : Turns(InCalls(a), Head(up[a]), S)
      BY <1>1, <2>5, <2>6, TurnsNext
    <3>5. Registered(a)
      <4>1. up[a] \in Seq(PagePacket) /\ (Registered(a) \/ Registering(up[a]))
        BY <1>1, <2>5, <2>6, TypesOf DEF ViewInv
      <4> QED BY <1>1, <4>1, TailHolds
    <3> QED BY <1>1, <3>1, <3>2, <3>3, <3>4, <3>5 DEF Follows
  \* Whoever is in the call hears that a has joined.
  <2>7. ASSUME NEW w \in User \ strayed', w # a, r \in InCalls(w)'
        PROVE  Hears(down'[w], a) /\ HasJoined(down'[w], a)
    <3>1. w \in activeCalls[r]
      BY <2>2, <2>7 DEF InCalls
    <3>2. w \in online /\ SocketOf(w) \in callSockets'[r]
      BY <1>2, <2>2, <2>5, <3>1 DEF ViewInv, InCalls
    <3>3. Hears(sent[w], a) /\ HasJoined(sent[w], a)
      BY <1>3, <3>2, ToReaches DEF Adds
    <3>4. down[w] \in Seq(Event) /\ sent[w] \in Seq(Event) /\ down'[w] = down[w] \o sent[w]
      BY <1>1, <2>3, TypesOf DEF Takes
    <3> HIDE DEF sent
    <3> QED BY <3>3, <3>4, HearsAppend, HasAppend
  <2>8. ASSUME NEW u \in User \ strayed', NEW v \in User \ strayed', u # v
        PROVE  PairInv(u, v)' \/ Informs(a, sent, u, v)
    <3>1. CASE v = a
      BY <2>6, <2>7, <2>8, <3>1 DEF PairInv, Learns
    <3>2. CASE u = a
      <4>1. Registered(a)'
        BY <1>5, <2>6, <3>2 DEF Registered, SocketOf, pages
      <4> QED BY <2>6, <2>7, <2>8, <3>2, <4>1 DEF PairInv, WillOffer
    <3>3. CASE a \notin {u, v}
      <4>1. Clear(first[u], v)
        BY <1>3, ToClear DEF Drops
      <4>2. Clear(sent[u], v)
        BY <1>4, <4>1, NothingClear, SentClear
      <4> QED BY <3>3, <4>2 DEF Informs
    <3> QED BY <3>1, <3>2, <3>3
  <2> HIDE DEF sent
  <2> QED BY <1>1, <2>3, <2>4, <2>6, <2>8, GatewayStep
<1> QED BY <1>6, <1>7

LEMMA handleCallLeaveViews ==
    ASSUME IInv, NEW a \in User, handleCallLeave(a)
    PROVE  IInv'
<1> DEFINE r == Head(up[a]).room
           left == Packet("call-user-left", r, a)
           ended == Packet("call-ended", r, None)
           first == To(callSockets'[r], left)
           second == IF activeCalls'[r] = {} THEN To(chatSockets[r], ended) ELSE Nothing
           none == Sent(Nothing, Nothing)
           sent == Sent(first, second)
<1>1. TypeOK /\ TypeOK' /\ a \in online /\ up[a] # <<>> /\ Head(up[a]).type = "call-leave"
  BY handleCallLeaveType DEF IInv, handleCallLeave, Received
<1>2. UNCHANGED <<pages, userSockets, strayed>>
  BY DEF handleCallLeave
<1>3. Nothing \in [User -> Seq(Event)]
  BY NothingType
<1>4. \A u \in User \ strayed' : ViewInv(u)
  BY <1>2 DEF IInv, ViewsInv
<1>5. Registered(a)' <=> Registered(a)
  BY <1>2 DEF Registered, SocketOf, pages
<1>6. CASE r = None
  <2>1. /\ Answer(a, Nothing, Nothing)
        /\ activeCalls' = activeCalls /\ callSockets' = callSockets
    BY <1>6 DEF handleCallLeave
  <2>2. Takes(a, none) /\ none \in [User -> Seq(Event)]
    BY <1>1, <1>2, <1>3, <2>1, AnswerTakes
  <2>3. \A u \in User : Leaves(u)
    BY <1>2, <2>1 DEF Leaves
  <2>4. ~Command(Head(up[a]))
    BY <1>1, <1>6 DEF Command
  <2>5. a \notin strayed' => Follows(a)
    BY <1>1, <1>4, <1>5, <2>1, <2>4, NoCommandFollows
  <2>6. \A u, v \in User : Informs(a, none, u, v)
    BY <1>1, <1>3, <2>4, SentClear, NothingClear DEF Informs
  <2> HIDE DEF none
  <2> QED BY <1>1, <2>2, <2>3, <2>5, <2>6, GatewayStep
<1>7. CASE r # None
  <2>1. /\ activeCalls' = [activeCalls EXCEPT ![r] = @ \ {a}]
        /\ callSockets' = [callSockets EXCEPT ![r] = @ \ {SocketOf(a)}]
        /\ Answer(a, first, second)
    BY <1>7 DEF handleCallLeave
  <2>2. r \in Room
    <3>1. Head(up[a]) \in PagePacket
      BY <1>1, FirstAndRest DEF TypeOK
    <3> QED BY <1>1, <1>7, <3>1 DEF PagePacket
  <2>3. /\ left \in Event /\ left.type = "call-user-left" /\ left.user = a
        /\ ended \in Event /\ ended.type = "call-ended"
    BY <2>2 DEF Packet, Event
  <2>4. first \in [User -> Seq(Event)] /\ second \in [User -> Seq(Event)]
    BY <1>3, <2>3, ToType
  <2> HIDE DEF left, ended
  <2>5. /\ activeCalls'[r] = activeCalls[r] \ {a}
        /\ callSockets'[r] = callSockets[r] \ {SocketOf(a)}
        /\ \A q \in Room \ {r} : /\ activeCalls'[q] = activeCalls[q]
                                 /\ callSockets'[q] = callSockets[q]
    BY <1>1, <2>1, <2>2 DEF TypeOK
  <2>6. ASSUME NEW u \in User, NEW v \in User, v # a PROVE Clear(sent[u], v)
    <3>1. Clear(first[u], v)
      BY <2>3, <2>6, ToClear DEF Drops
    <3>2. Clear(second[u], v)
      BY <2>3, ToClear, NothingClear DEF Drops
    <3> HIDE DEF first, second
    <3> QED BY <2>4, <3>1, <3>2, SentClear
  <2> HIDE DEF first, second
  <2>7. Takes(a, sent) /\ sent \in [User -> Seq(Event)]
    BY <1>1, <1>2, <2>1, <2>4, <2>5, AnswerTakes
  <2>8. ASSUME NEW u \in User, u # a PROVE Leaves(u)
    <3>1. SocketOf(u) # SocketOf(a)
      BY <2>8 DEF SocketOf
    <3> QED BY <1>2, <2>5, <2>8, <3>1 DEF Leaves
  <2>9. ASSUME a \notin strayed' PROVE Follows(a) /\ InCalls(a)' = {}
    <3>1. ASSUME NEW S \in SUBSET Room, Turns(InCalls(a), Head(up[a]), S)
          PROVE  S = {} /\ InCalls(a)' = {}
      <4>1. InCalls(a) \subseteq {r} /\ S = {}
        BY <1>1, <1>7, <3>1 DEF Turns, Command
      <4> QED BY <2>2, <2>5, <4>1 DEF InCalls
    <3>2. \A q \in Room : SocketOf(a) \in callSockets'[q] <=> a \in activeCalls'[q]
      BY <1>4, <2>5, <2>9 DEF ViewInv
    <3>3. \E S \in SUBSET Room : Turns(InCalls(a), Head(up[a]), S)
      BY <1>1, <1>4, <2>9, TurnsNext
    <3> QED BY <1>1, <1>5, <3>1, <3>2, <3>3 DEF Follows
  <2>10. ASSUME NEW u \in User \ strayed', NEW v \in User \ strayed', u # v
         PROVE  PairInv(u, v)' \/ Informs(a, sent, u, v)
    <3>1. CASE a \in {u, v}
      BY <2>9, <2>10, <3>1 DEF PairInv
    <3>2. CASE a \notin {u, v}
      BY <2>6, <3>2 DEF Informs
    <3> QED BY <3>1, <3>2
  <2> HIDE DEF sent
  <2> QED BY <1>1, <2>7, <2>8, <2>9, <2>10, GatewayStep
<1> QED BY <1>6, <1>7

LEMMA AwaitsSocketsViews ==
    ASSUME IInv, NEW a \in User, AwaitsSockets(a)
    PROVE  IInv'
<1>1. TypeOK /\ TypeOK' /\ a \in online /\ Len(up[a]) > 1 /\ up[a] # <<>>
  BY AwaitsSocketsType DEF IInv, AwaitsSockets, Received
<1>2. up[a] \in Seq(PagePacket)
  BY <1>1, TypesOf
<1>3. up[a][1].type = "call-initiate" /\ up[a][2].type # "call-initiate"
  BY <1>1, <1>2, TailAt DEF AwaitsSockets, Received
<1>4. up'[a] = SwapOf(up[a]) /\ \A u \in User \ {a} : up'[u] = up[u]
  BY <1>1 DEF TypeOK, AwaitsSockets, SwapOf
<1>5. /\ UNCHANGED <<page, media, number, online, down, userSockets, callSockets, activeCalls>>
      /\ strayed \subseteq strayed'
  BY DEF AwaitsSockets, pages, maps
<1>6. \A u \in User : /\ InCalls(u)' = InCalls(u) /\ (Registered(u)' <=> Registered(u))
                      /\ SocketOf(u)' = SocketOf(u) /\ Shown(u)' = Shown(u)
  BY <1>5 DEF InCalls, Registered, SocketOf, Shown, ShownBy
<1>7. PagesInv'
  <2> SUFFICES ASSUME NEW u \in User PROVE PageInv(u)'
    BY DEF PagesInv
  <2> QED BY <1>5 DEF IInv, PagesInv, PageInv
<1>8. ViewsInv'
  <2> SUFFICES ASSUME NEW u \in User \ strayed' PROVE ViewInv(u)'
    BY DEF ViewsInv
  <2>1. ViewInv(u)
    BY <1>5 DEF IInv, ViewsInv
  <2>2. CASE u = a
    <3>1. up[a][2].type # "call-leave"
      BY <2>2 DEF AwaitsSockets
    <3>2. Leads(InCalls(a), up[a], Shown(a))
      BY <2>1, <2>2 DEF ViewInv
    <3>3. Leads(InCalls(a), SwapOf(up[a]), Shown(a))
      BY <1>1, <1>2, <1>3, <3>1, <3>2, LeadsSwap
    <3>4. Registering(up[a]) => Registering(SwapOf(up[a]))
      BY <1>1, <1>2, <1>3, SwapHolds
    <3> QED BY <1>1, <1>4, <1>5, <1>6, <2>1, <2>2, <3>3, <3>4 DEF ViewInv
  <2>3. CASE u # a
    BY <1>4, <1>5, <1>6, <2>1, <2>3, ViewKept
  <2> QED BY <2>2, <2>3
<1>9. PairsInv'
  <2> SUFFICES ASSUME NEW u \in User \ strayed', NEW v \in User \ strayed', u # v
               PROVE  PairInv(u, v)'
    BY DEF PairsInv
  <2>1. PairInv(u, v)
    BY <1>5 DEF IInv, PairsInv
  <2>2. \A w \in User : Still(up'[w]) => Still(up[w])
    BY <1>1, <1>2, <1>4, SwapHolds
  <2>3. HasOffer(up[v], u) => HasOffer(up'[v], u)
    BY <1>1, <1>2, <1>4, SwapHolds
  <2>4. Learns(u, v) => Learns(u, v)'
    BY <1>5 DEF Learns
  <2>5. WillOffer(v, u) => WillOffer(v, u)'
    BY <1>5, <1>6, <2>3 DEF WillOffer
  <2> QED BY <1>6, <2>1, <2>2, <2>4, <2>5, PairKept
<1> QED BY <1>1, <1>7, <1>8, <1>9 DEF IInv

-----------------------------------------------------------------------------
(* The end of a socket *)

\* Events that tell of u leaving drop nobody else.
LEMMA LeftClear ==
    ASSUME NEW R, R \subseteq Room, NEW u, NEW order \in SetToSeqs(R), NEW v, v # u
    PROVE  Clear([i \in DOMAIN order |-> Packet("call-user-left", order[i], u)], v)
<1> DEFINE s == [i \in DOMAIN order |-> Packet("call-user-left", order[i], u)]
<1>1. IsFiniteSet(R)
  BY CallsAssumption, FS_Subset
<1>2. Cardinality(R) \in Nat
  BY <1>1, FS_CardinalityType
<1>3. order \in [1..Cardinality(R) -> R]
  BY DEF SetToSeqs
<1>4. Len(s) = Cardinality(R)
  BY <1>2, <1>3
<1>5. \A i \in 1..Len(s) : ~Drops(s[i], v)
  BY <1>3, <1>4 DEF Drops, Packet
<1> QED BY <1>5 DEF Clear

LEMMA handleDisconnectViews ==
    ASSUME IInv, NEW s \in Socket, handleDisconnect(s)
    PROVE  IInv'
<1> DEFINE w == socketUsers[s]
           R == IF w = None THEN {} ELSE {r \in Room : w \in activeCalls[r]}
           Seated(v) == {r \in R : v \in online /\ SocketOf(v) \in callSockets'[r]}
<1>1. TypeOK /\ TypeOK'
  BY handleDisconnectType DEF IInv
<1>2. /\ s \in sockets
      /\ s[1] \in online => s # SocketOf(s[1])
      /\ callSockets' = [r \in Room |-> callSockets[r] \ {s}]
      /\ userSockets' = IF w = None THEN userSockets ELSE [userSockets EXCEPT ![w] = None]
      /\ activeCalls' = [r \in Room |-> activeCalls[r] \ {w}]
      /\ strayed' = IF w # None /\ (R # {} \/ userSockets[w] # s)
                    THEN strayed \cup {w} ELSE strayed
      /\ UNCHANGED <<pages, up>>
  BY DEF handleDisconnect
<1>3. w \in User \cup {None} /\ None \notin User
  BY <1>1, CallsAssumption DEF TypeOK
<1>4. PICK orders :
        /\ \A v \in User : orders[v] \in SetToSeqs(Seated(v))
        /\ down' = [v \in User |-> down[v] \o
                      [i \in DOMAIN orders[v] |-> Packet("call-user-left", orders[v][i], w)]]
  BY DEF handleDisconnect
<1> DEFINE sent == [v \in User |->
                      [i \in DOMAIN orders[v] |-> Packet("call-user-left", orders[v][i], w)]]
<1>5. \A v \in User : Seated(v) \subseteq Room
  OBVIOUS
<1>6. ASSUME NEW u \in User PROVE sent[u] \in Seq(Event) /\ down'[u] = down[u] \o sent[u]
  <2>1. down'[u] = down[u] \o sent[u]
    BY <1>4
  <2>2. CASE w \in User
    BY <1>4, <1>5, <2>2, LeftPackets
  <2>3. CASE w = None
    <3>1. Seated(u) = {} /\ orders[u] \in SetToSeqs({})
      BY <1>4, <2>3
    <3>2. DOMAIN orders[u] = {}
      BY <3>1, FS_EmptySet DEF SetToSeqs
    <3>3. sent[u] = <<>>
      BY <3>2
    <3> QED BY <2>1, <3>3
  <2> QED BY <1>3, <2>1, <2>2, <2>3
<1>7. ASSUME NEW u \in User, NEW v \in User, v # w PROVE Clear(sent[u], v)
  <2>1. orders[u] \in SetToSeqs(Seated(u)) /\ Seated(u) \subseteq Room
    BY <1>4
  <2> HIDE DEF Seated
  <2>2. Clear([i \in DOMAIN orders[u] |-> Packet("call-user-left", orders[u][i], w)], v)
    BY <1>7, <2>1, LeftClear
  <2> QED BY <2>2
<1> HIDE DEF sent, Seated
<1>8. strayed \subseteq strayed' /\ UNCHANGED <<page, media, number, online, up>>
  BY <1>2 DEF pages
<1>9. \A u \in User \ strayed' : u \notin strayed /\ ViewInv(u) /\ PageInv(u)
  BY <1>8 DEF IInv, ViewsInv, PagesInv
<1>10. \A u \in User : SocketOf(u)' = SocketOf(u) /\ Shown(u)' = Shown(u)
  BY <1>8 DEF SocketOf, Shown, ShownBy
\* The calls that the gateway has somebody in who has not strayed stay as they are.
<1>11. ASSUME NEW u \in User \ strayed'
       PROVE  /\ \A r \in Room : u \in activeCalls'[r] <=> u \in activeCalls[r]
              /\ InCalls(u)' = InCalls(u)
  <2>1. \A r \in Room : u \in activeCalls'[r] <=> u \in activeCalls[r]
    <3>1. CASE u = w
      <4>1. \A r \in Room : u \notin activeCalls[r]
        BY <1>2, <1>3, <3>1
      <4> QED BY <1>2, <4>1
    <3>2. CASE u # w
      BY <1>2, <3>2
    <3> QED BY <3>1, <3>2
  <2> QED BY <2>1 DEF InCalls
<1>12. ASSUME NEW u \in User \ strayed', NEW r \in Room
       PROVE  SocketOf(u) \in callSockets'[r] <=> SocketOf(u) \in callSockets[r]
  <2>1. CASE SocketOf(u) = s
    <3>1. s[1] = u
      BY <2>1 DEF SocketOf
    <3>2. u \notin online
      BY <1>2, <2>1, <3>1
    <3>3. SocketOf(u) \notin callSockets[r]
      BY <1>9, <3>2 DEF ViewInv, InCalls
    <3> QED BY <1>2, <3>3
  <2>2. CASE SocketOf(u) # s
    BY <1>2, <2>2
  <2> QED BY <2>1, <2>2
<1>13. ASSUME NEW u \in User \ strayed', u \in online, Registered(u) PROVE Registered(u)'
  <2>1. userSockets'[u] = userSockets[u]
    <3>1. CASE u = w
      <4>1. userSockets[u] = s
        BY <1>2, <1>3, <3>1
      <4>2. SocketOf(u) = s /\ s[1] = u
        BY <1>13, <4>1 DEF Registered, SocketOf
      <4> QED BY <1>2, <1>13, <4>2
    <3>2. CASE u # w
      BY <1>1, <1>2, <3>2 DEF TypeOK
    <3> QED BY <3>1, <3>2
  <2> QED BY <1>10, <1>13, <2>1 DEF Registered
<1>14. PagesInv'
  <2> SUFFICES ASSUME NEW u \in User PROVE PageInv(u)'
    BY DEF PagesInv
  <2>1. PageInv(u)
    BY DEF IInv, PagesInv
  <2>2. \A r \in Room : callSockets'[r] \subseteq callSockets[r]
    BY <1>2
  <2> QED BY <1>8, <2>1, <2>2 DEF PageInv
<1>15. ViewsInv'
  <2> SUFFICES ASSUME NEW u \in User \ strayed' PROVE ViewInv(u)'
    BY DEF ViewsInv
  <2>1. ViewInv(u)
    BY <1>9
  <2>2. u \in online' => Registered(u)' \/ Registering(up'[u])
    BY <1>8, <1>13, <2>1 DEF ViewInv
  <2>3. \A r \in Room : (SocketOf(u) \in callSockets[r])' <=> u \in activeCalls'[r]
    BY <1>10, <1>11, <1>12, <2>1 DEF ViewInv
  <2>4. Leads(InCalls(u)', up'[u], Shown(u)')
    BY <1>8, <1>10, <1>11, <2>1 DEF ViewInv
  <2>5. u \notin online' => InCalls(u)' = {} /\ NoJoin(up'[u])
    BY <1>8, <1>11, <2>1 DEF ViewInv
  <2> QED BY <2>2, <2>3, <2>4, <2>5 DEF ViewInv
<1>16. PairsInv'
  <2> SUFFICES ASSUME NEW u \in User \ strayed', NEW v \in User \ strayed', u # v
               PROVE  PairInv(u, v)'
    BY DEF PairsInv
  <2>1. PairInv(u, v)
    BY <1>9 DEF IInv, PairsInv
  <2>2. CASE w \in {u, v}
    <3>1. ASSUME NEW x \in User, x = w PROVE InCalls(x)' = {}
      BY <1>2, <3>1 DEF InCalls
    <3> QED BY <2>2, <3>1 DEF PairInv
  <2>3. CASE w \notin {u, v}
    <3>1. Clear(sent[u], v) /\ sent[u] \in Seq(Event) /\ sent[v] \in Seq(Event)
          /\ down'[u] = down[u] \o sent[u] /\ down'[v] = down[v] \o sent[v]
      BY <1>6, <1>7, <2>3
    <3>2. userSockets'[u] = userSockets[u]
      BY <1>1, <1>2, <2>3 DEF TypeOK
    <3>3. Registered(u) => Registered(u)'
      BY <1>10, <3>2 DEF Registered
    <3> QED BY <1>1, <1>8, <1>11, <2>1, <3>1, <3>3, GatewayPair
  <2> QED BY <2>2, <2>3
<1> QED BY <1>1, <1>14, <1>15, <1>16 DEF IInv

-----------------------------------------------------------------------------
(* The theorems *)

LEMMA InitViews == Init => IInv
<1> SUFFICES ASSUME Init PROVE IInv
  OBVIOUS
<1>1. /\ \A u \in User : /\ page[u] = IdlePage /\ media[u] = {} /\ up[u] = <<>>
                         /\ number[u] = 1 /\ u \in online /\ userSockets[u] = SocketOf(u)
      /\ \A r \in Room : callSockets[r] = {} /\ activeCalls[r] = {}
  BY DEF Init, Nothing
<1>2. \A u \in User : InCalls(u) = {} /\ Shown(u) = {}
  BY <1>1 DEF InCalls, Shown, ShownBy, IdlePage
<1>3. PagesInv
  BY <1>1 DEF PagesInv, PageInv, IdlePage
<1>4. \A u \in User : Leads(InCalls(u), up[u], Shown(u))
  <2>1. Leads({}, <<>>, {})
    BY LeadsNothing
  <2> QED BY <1>1, <1>2, <2>1
<1>5. ViewsInv
  BY <1>1, <1>2, <1>4 DEF ViewsInv, ViewInv, Registered
<1>6. PairsInv
  BY <1>2 DEF PairsInv, PairInv
<1> QED BY <1>3, <1>5, <1>6, InitType DEF IInv

LEMMA UnchangedViews == IInv /\ UNCHANGED vars => IInv'
<1> SUFFICES ASSUME IInv, UNCHANGED vars PROVE IInv'
  OBVIOUS
<1>1. TypeOK'
  BY TypeStep DEF IInv
<1>2. UNCHANGED <<page, media, number, online, up, down, userSockets, callSockets,
                  activeCalls, strayed>>
  BY DEF vars, pages, maps
<1>3. \A u \in User : /\ InCalls(u)' = InCalls(u) /\ (Registered(u)' <=> Registered(u))
                      /\ SocketOf(u)' = SocketOf(u) /\ Shown(u)' = Shown(u)
  BY <1>2 DEF InCalls, Registered, SocketOf, Shown, ShownBy
<1>4. PagesInv'
  BY <1>2 DEF IInv, PagesInv, PageInv
<1>5. ViewsInv'
  BY <1>2, <1>3, ViewKept DEF IInv, ViewsInv
<1>6. PairsInv'
  BY <1>2, <1>3, PairUntouched DEF IInv, PairsInv
<1> QED BY <1>1, <1>4, <1>5, <1>6 DEF IInv

LEMMA NextViews == IInv /\ [Next]_vars => IInv'
<1> SUFFICES ASSUME IInv, [Next]_vars PROVE IInv'
  OBVIOUS
<1>1. ASSUME NEW u \in User,
             \/ handleStartCall(u) \/ StreamStarts(u) \/ StreamFails(u)
             \/ handleAcceptCall(u) \/ AcceptContinues(u) \/ handleRejectCall(u)
             \/ handleEndCall(u)
      PROVE  IInv'
  BY <1>1, handleStartCallViews, StreamStartsViews, StreamFailsViews, handleAcceptCallViews,
     AcceptContinuesViews, handleRejectCallViews, handleEndCallViews
<1>2. ASSUME NEW u \in User,
             \/ handleIncomingCall(u) \/ handleCallUserJoined(u) \/ handleCallOffer(u)
             \/ handleCallUserLeft(u) \/ handleCallEnded(u) \/ handleCallRejected(u)
             \/ Disconnect(u) \/ Reconnect(u)
      PROVE  IInv'
  BY <1>2, handleIncomingCallViews, handleCallUserJoinedViews, handleCallOfferViews,
     handleCallUserLeftViews, handleCallEndedViews, handleCallRejectedViews, DisconnectViews,
     ReconnectViews
<1>3. ASSUME NEW u \in User,
             \/ handleJoinChatRooms(u) \/ handleRegisterUser(u) \/ AwaitsSockets(u)
             \/ handleCallInitiate(u) \/ handleCallJoin(u) \/ RelayCallOffer(u)
             \/ handleCallReject(u) \/ handleCallLeave(u)
      PROVE  IInv'
  BY <1>3, handleJoinChatRoomsViews, handleRegisterUserViews, AwaitsSocketsViews,
     handleCallInitiateViews, handleCallJoinViews, RelayCallOfferViews, handleCallRejectViews,
     handleCallLeaveViews
<1>4. ASSUME NEW s \in Socket, handleDisconnect(s) PROVE IInv'
  BY <1>4, handleDisconnectViews
<1>5. CASE UNCHANGED vars
  BY <1>5, UnchangedViews
<1> QED BY <1>1, <1>2, <1>3, <1>4, <1>5 DEF Next

\* When nothing is under way, the packets lead nowhere: the calls that the gateway has
\* u in are what the page shows.
LEMMA AgreeWhenQuiet == IInv => ViewsAgree
<1> SUFFICES ASSUME IInv, Quiet, NEW u \in User \ strayed, NEW r \in Room
             PROVE  u \in activeCalls[r] <=> Busy(u) /\ page[u].room = r
  BY DEF ViewsAgree
<1>1. ViewInv(u) /\ TypeOK
  BY DEF IInv, ViewsInv
<1>2. up[u] = <<>> /\ media[u] = {}
  BY DEF Quiet
<1>3. Leads(InCalls(u), <<>>, Shown(u))
  BY <1>1, <1>2 DEF ViewInv
<1>4. InCalls(u) = Shown(u)
  BY <1>1, <1>3, TypesOf, LeadsNothing
<1> QED BY <1>2, <1>4 DEF InCalls, Shown, ShownBy, Busy

\* When nothing is under way, nobody is about to be told of anything.
LEMMA KnownWhenQuiet == IInv => PeersKnown
<1> SUFFICES ASSUME IInv, Quiet, NEW u \in User \ strayed, NEW v \in User \ strayed,
                    NEW r \in Room, {u, v} \subseteq activeCalls[r], u # v
             PROVE  v \in page[u].peers
  BY DEF PeersKnown
<1>1. PairInv(u, v)
  BY DEF IInv, PairsInv
<1>2. /\ up[u] = <<>> /\ up[v] = <<>> /\ down[u] = <<>> /\ down[v] = <<>>
  BY DEF Quiet
<1>3. r \in InCalls(u) \cap InCalls(v)
  BY DEF InCalls
<1>4. Learns(u, v) \/ WillOffer(v, u)
  BY <1>1, <1>2, <1>3, HoldsNone DEF PairInv
<1> QED BY <1>2, <1>4, HoldsNone DEF Learns, WillOffer

\* Once nothing is under way, a user who has not strayed is in the gateway's call of a
\* room if and only if the user's page shows that call, for any users, rooms and chats
\* and however many calls start (a page loses its connection at most once, as in Calls).
THEOREM ViewsAlwaysAgree == Spec => []ViewsAgree
<1>1. Spec => []IInv
  BY InitViews, NextViews, PTL DEF Spec
<1> QED BY <1>1, AgreeWhenQuiet, PTL

\* Once nothing is under way, any two users in one call who have not strayed have each
\* other among their participants: nobody is forgotten between a join, its event, the
\* offer that answers it and the events about others that cross them.
THEOREM PeersAlwaysKnown == Spec => []PeersKnown
<1>1. Spec => []IInv
  BY InitViews, NextViews, PTL DEF Spec
<1> QED BY <1>1, KnownWhenQuiet, PTL

=============================================================================
