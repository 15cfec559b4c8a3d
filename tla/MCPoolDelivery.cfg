\* The smallest pool in which a granted lease is lost on its way.
CONSTANTS
    Clients = {c1}
    Requests = {r1}
    Capacity = 1
    MaxWaiters = 1
    MailboxCap = 1
    InboxCap = 1
    NoRequest = NoRequest
SPECIFICATION Spec
CHECK_DEADLOCK FALSE
INVARIANTS RepliedIsDelivered
