SPECIFICATION CallSpec
CONSTANTS
    WORD = 2
    INTBITS = 4
    LLBITS = 8
    BUFSIZE = 4
    MAXARGS = 3
    SECTSIZE = 4
    Moves <- MCMoves
    Prints <- MCPrints
    Searches <- MCSearches
    Lines <- MCLines
    Commands <- MCCommands
    Images <- MCImages
INVARIANTS
    OutputFaithful
    ResultsExact
CHECK_DEADLOCK FALSE
