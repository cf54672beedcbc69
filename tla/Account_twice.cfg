\* Two clicks on one link, and nothing chosen anew afterwards.
CONSTANTS
    r1 = r1
    r2 = r2
    Requests = {r1, r2}
    MaxAccounts = 2
    MaxLinks = 1
    MaxChoices = 0
    MaxFaults = 1
SPECIFICATION Spec
CHECK_DEADLOCK FALSE
INVARIANT SentOnce

