SPECIFICATION Spec
CONSTANTS
    u1 = u1
    u2 = u2
    u3 = u3
    r1 = r1
    r2 = r2
    None = None
    User = {u1, u2, u3}
    Room = {r1, r2}
    Membership <- Chats
    MaxEvents <- Events
INVARIANTS TypeOK CallHasMeta ViewsAgree PeersKnown
PROPERTY ImplementsLedger
SYMMETRY Alike
CHECK_DEADLOCK FALSE
