SPECIFICATION Spec
CONSTANTS
    Octets = {0, 1, 2, 4, 192}
    MaxOctets = 6
    Letters = {97, 45, 46, 10}
    MaxLetters = 5
    Pieces = {1, 12, 20, Empty, Quad, Dotted, Word}
    MaxPieces = 5
    MaxLabel = 2
    MaxName = 4
    MaxRecursion = 10
    Groups = 4
    Base = 16
    Width = 4
    MaxHost = 3
    Empty = Empty
    Quad = Quad
    Dotted = Dotted
    Word = Word
    Implicit = Implicit
    NotYet = NotYet
INVARIANTS
    NamesExact
    ResponsesExact
    HostnamesReadBack
    TextsReadBack
    AddressesExact
CHECK_DEADLOCK FALSE
