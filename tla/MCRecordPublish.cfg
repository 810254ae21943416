CONSTANTS
    v1 = v1
    v2 = v2
    v3 = v3
    Callers = {c1, c2, c3}
    Values <- MCValues
    Subject <- MCSubject
    None = None
    Torn = Torn
SPECIFICATION Spec
SYMMETRY SomeCaller
INVARIANTS TypeOK NeverTorn PromiseKept
PROPERTY IsDurableRegister
