\* Two of the six pool workers that fill rq_six_dof.
CONSTANTS
    Capacity = 3
    Producers = {p1, p2}
    Consumers = {c1}
    Items = {f1, f2, f3}
    NoItem = none
SPECIFICATION Spec
INVARIANT NoAcceptedItemLost
