\* Two accounts one after the other, two requests at a time, one link, one
\* completion of a sign-up and one failure.
CONSTANTS
    r1 = r1
    r2 = r2
    Requests = {r1, r2}
    MaxAccounts = 2
    MaxLinks = 1
    MaxChoices = 1
    MaxFaults = 1
SPECIFICATION Spec
CHECK_DEADLOCK FALSE
INVARIANTS OnlyConfirmedAreSent OptInsAreHandedOff NothingLeftBehind SentByEachOnce
PROPERTIES ConfirmedIsKept UnconfirmedGoes
