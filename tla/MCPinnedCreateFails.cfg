SPECIFICATION Spec
CONSTANTS
    Target = target
    Temps = {n1, n2}
    Inodes = {i1, i2, i3}
    Texts = {a, b}
    Writers = {w1, w2}
    Kinds = {"replace", "create"}
    None = None
    Torn = Torn
    MaxWrites = 2
    MaxOutside = 3
    MaxCrashes = 0
CHECK_DEADLOCK FALSE
SYMMETRY Symmetry
PROPERTIES CreateRemovesItsOwn
