SPECIFICATION Spec
CONSTANTS
    CONSBUFSIZE = 3
    BUFLEN = 3
    CRT_COLS = 2
    CRT_SIZE = 4
    Prompt <- MCPrompt
    Keys = {"lshift", "caps", "rctl", "lalt", "a", "enter", "del"}
    SerialChars = {"DEL"}
    UserChars = {"TAB"}
    KBDQ = 2
    MAXSER = 1
    MAXKEY = 3
    MAXOUT = 1
INVARIANTS
    InputSafe
    KeysFollowed
    EchoMatches
PROPERTY LineDelivered
