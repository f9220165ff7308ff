SPECIFICATION TextsSpec
CONSTANTS
    Lines = {"", "blanks", "quick", "slow", "other"}
    Blank = ""
    Words <- SomeWords
    Texts <- SomeTexts
    Context = 1
    LongestReply = 6
    LongestFenced = 5
    LongestName = 7
    LongestPath = 8
    LongestOddPath = 5
    ReplyTexts <- SomeReplies
    FilePaths <- SomePaths
    Commands <- SomeCommands
    Setups <- SomeSetups
INVARIANTS
    SidesAreWhole
    NothingNeedless
    ReplyIsFound
    PathsStayInside
    WordsArrive
    SettingsAgree
\* One diff is done once, and one question is answered once.
CHECK_DEADLOCK FALSE
