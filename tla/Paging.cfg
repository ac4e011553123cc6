\* Lists of up to three of three articles, ints from -8 to 7.
CONSTANTS
    Articles = {a1, a2, a3}
    MaxInt = 7
    MaxLength = 3
    Panic = Panic
SPECIFICATION Spec
INVARIANTS ScrolledSoFar
PROPERTY PartServed
