SPECIFICATION Spec
CONSTANTS
    u1 = u1  f1 = f1  f2 = f2  s1 = s1  s2 = s2
    a1 = a1  a2 = a2  w1 = w1  w2 = w2
    Users = {u1}
    Paths = {f1}
    PathsOf <- OneUserFile
    Secrets = {s1, s2}
    Aliases = {a1}
    Passwds = {w1}
    Prefixes <- OneAlias
    Faults <- InitFaults
    ListCap = 1
    NULL = NULL
    NoPasswd = NoPasswd
    NoSecret = NoSecret
    Missing = Missing
    Torn = Torn
INVARIANT AttachedCanDetach
