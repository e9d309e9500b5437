SPECIFICATION ReplaySpec
CONSTANTS
    a = a  b = b  c = c  d = d  e = e
    Nodes = {a, b, c, d, e}
    Deps <- Wide
    Workers = {w1, w2}
    w1 = w1
    w2 = w2
    Operator = Operator  NoOwner = NoOwner  NoNode = NoNode
    Publishers = {x1}  x1 = x1
    Ops = {"retry"}
    MaxOps = 1  MaxGen = 4
SYMMETRY Symmetry
PROPERTY CompletedStaysRetried
CHECK_DEADLOCK FALSE
