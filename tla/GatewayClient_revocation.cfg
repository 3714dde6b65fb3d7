CONSTANTS
    Ids = {c1}
    NoId = NoId
    Slots = {s1}
    MaxRemembered = 1
    MaxUnread = 1
SPECIFICATION Spec
PROPERTY RevocationNotLost
CHECK_DEADLOCK FALSE
