SPECIFICATION Spec
CONSTANTS
    p1 = p1
    p2 = p2
    s1 = s1
    id1 = id1
    id2 = id2
    other = other
    Proxies = {p1, p2}
    Servers = {s1}
    Ids = {id1, id2, other}
    IdOf <- MCIdOf
    ClientVias <- NoVias
    MaxHops = 3
INVARIANT LoopsEnd
