SPECIFICATION Spec
CONSTANTS
    e1 = e1
    e2 = e2
    e3 = e3
    Envs = {e1, e2, e3}
    MAXGEN <- MCGen
    MAXSEND = 2
    Senders = {e2, e3}
    Receivers = {e1, e2}
    Offers <- MCOffers
    Targets = {"U", "M", "none"}
    Text = Text
    NULL = NULL
INVARIANTS
    PagesSound
PROPERTIES
    ImplementsMailbox
    ReceiverServed
    SenderReleased
CHECK_DEADLOCK FALSE
