\* The schedule's digest and preview and an admin's, and two faults: with them a
\* job with one retry can fail for good.
CONSTANTS
    schedule = schedule
    admin = admin
    editor = editor
    again = again
    ann = ann
    Broadcasts = {schedule, admin}
    Previews = {editor, again}
    Users = {ann}
    RetryLimit = 1
    MaxHandlers = 2
    MaxFaults = 2
SPECIFICATION Spec
CHECK_DEADLOCK FALSE
INVARIANTS OneBroadcast FavoritesFollowBroadcast CopiesAreDeliveries PreviewsHaveCause
PROPERTY BroadcastGoesOut
