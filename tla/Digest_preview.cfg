\* One preview job, retried after a fault between its mail and the row that
\* remembers it.
CONSTANTS
    editor = editor
    Broadcasts = {}
    Previews = {editor}
    Users = {}
    RetryLimit = 1
    MaxHandlers = 1
    MaxFaults = 1
SPECIFICATION Spec
CHECK_DEADLOCK FALSE
INVARIANT OnePreview
