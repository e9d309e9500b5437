SPECIFICATION Spec
CONSTANTS
    a = a  b = b  c = c  d = d  e = e
    Nodes = {a, b, c}
    Deps <- Join
    Workers = {w1, w2}
    w1 = w1
    w2 = w2
    Operator = Operator  NoOwner = NoOwner  NoNode = NoNode
    Publishers = {x1}  x1 = x1
    Ops = {"cancel", "retry", "crash", "block"}
    MaxOps = 1  MaxGen = 4
SYMMETRY Symmetry
INVARIANTS WorksOnResults CompletedMissionIsSound
PROPERTIES VerdictsAreFinal CompletedStays
CHECK_DEADLOCK FALSE
