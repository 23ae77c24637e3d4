\* One membership, three tokens, two requests at once.
SPECIFICATION Spec
CONSTANTS
    t1 = t1
    t2 = t2
    t3 = t3
    m1 = m1
    c1 = c1
    c2 = c2
    None = None
    Tokens <- ThreeTokens
    Members <- OneMember
    Requests <- TwoRequests
INVARIANTS TypeOK LateTokensAreDead
PROPERTIES KeepsFamilies EveryRequestEnds
