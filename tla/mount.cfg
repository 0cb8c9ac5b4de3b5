SPECIFICATION Spec
CONSTANTS
    t = t
    x = x
    y = y
    Name <- MCName
    Root = Root
    Dir = {Root, d1}
    File = {f1, f2}
    Special = {s1}
    Handle = {h1}
    Nothing = Nothing
    MaxEntries = 3
SYMMETRY MCSymmetry
INVARIANTS
    SourceUntouched
    NoShadow
    NamesAgree
