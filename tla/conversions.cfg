\* Every text of up to five or nine fields, every address of a few numbers.
CONSTANTS
    Texts4 <- AllTexts4
    Texts6 <- AllTexts6
    Quads <- AllQuads
    Words <- AllWords
    Sizes = {3, 9, 16, 46}
    Fills = {"", "x"}
    Scans <- AllScans
    Letters <- LettersRead
    Leftovers = {0, 7}
    IntWidth = 8
SPECIFICATION Spec
INVARIANTS
    Pton4ReadsMeaning
    Pton6ReadsMeaning
    Ntop4ReadsBack
    Ntop6ReadsBack
    LongestRunLeftOut
    ScanReadsBack
