\* IPv4 addresses, and memory that holds something already.
CONSTANTS
    Texts4 = {}
    Texts6 = {}
    Quads <- AllQuads
    Words = {}
    Sizes = {3, 9, 16, 46}
    Fills = {"", "x"}
    Scans = {}
    Leftovers = {0}
    Letters <- LettersRead
    IntWidth = 8
SPECIFICATION Spec
INVARIANTS
    NtopWritesString
