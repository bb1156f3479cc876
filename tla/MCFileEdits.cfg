SPECIFICATION EditSpec
CONSTANTS
    Char <- MCStrings
    Label <- MCStrings
    Languages <- ByExtension
    Files <- MCFiles
    Asked <- MCAsked
    Given <- MCGiven
    Malformed <- MCMalformed
    Reserved <- MCReserved
    Specs <- MCSpecs
    MaxEdits = 2
    Contents <- MCContents
    NewLines = {"n"}
    MaxLine = 3
    MaxUpdates = 2
INVARIANTS
    TextIsTree
    ImportIsEnsured
    BatchIsFromOriginal
PROPERTIES
    AllOrNothing
    TestsFollowRename
CHECK_DEADLOCK FALSE
