SPECIFICATION FairSpec
CONSTANTS
    a = a  b = b  c = c  d = d  e = e
    Nodes = {a, b, c}
    Deps <- Join
    Workers = {w1}
    w1 = w1
    Operator = Operator  NoOwner = NoOwner  NoNode = NoNode
    Publishers = {x1}  x1 = x1
    Ops = {}
    MaxOps = 0  MaxGen = 4
PROPERTIES MissionSettles
CHECK_DEADLOCK FALSE
