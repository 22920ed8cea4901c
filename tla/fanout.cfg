SPECIFICATION Spec
CONSTANTS
    a1 = a1
    a2 = a2
    me = me
    r1 = r1
    r2 = r2
    Agents = {a1, a2}
    Self = me
    Resources = {r1, r2}
    InScheme = {r1}
    Holds <- MCHolds
    Backlog = 2
    Timeout = 1
    MayBreak = {"gossip"}
    MayEnd = {a2}
    Reachable = {a1, me}
    Moderated = {a1}
INVARIANTS AgreementIsHonest BlockedAreShutOut NoAnswerDropped
PROPERTIES FanoutEnds
CHECK_DEADLOCK FALSE
