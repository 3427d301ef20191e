SPECIFICATION FairSpec
CONSTANTS
    Client = {k1, k2}
    Ticket = {t1, t2, t3, t4}
    Sprint = {s1, s2}
    User = {u1, u2}
    t1 = t1
    t2 = t2
    t3 = t3
    t4 = t4
    s1 = s1
    s2 = s2
    u1 = u1
    u2 = u2
    Patch <- Patches
    Earlier <- Beginnings
    Pools = {2, 3}
    MaxRequests = 3
    None = None
    Same = Same
INVARIANTS TypeOK NumbersGapless OneActiveSprint DeletedNotActive AssigneeIsMember KeepsAdmin
PROPERTIES EpicClosesWhole CompletionClears RequestsEnd
CHECK_DEADLOCK FALSE
