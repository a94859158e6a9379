SPECIFICATION Spec
CONSTANTS
    None = None
    p1 = p1
    p2 = p2
    p3 = p3
    Session = {s1, s2}
    Agent = {a1}
    Proposal = {p1, p2, p3}
    Payload <- MCPayload
    Entry <- MCEntry
    Grant = {g1, g2}
    Rate <- MCRate
    MaxPending = 2
    MaxRows = 2
    MaxRevision = 2
PROPERTY ResolutionIsFinal
