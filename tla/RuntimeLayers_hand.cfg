\* By hand: each of these is violated.
SPECIFICATION Spec
CONSTANTS
    MaxPort = 3
    Candidates = 2
    Servers = {"user"}
PROPERTY DnsSurvivesTun
\* PROPERTY PortReturns
\* INVARIANT PortOfItsOwn
