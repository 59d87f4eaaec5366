\* Session-UID tracking: refinement of UidSession.
CONSTANTS
    Uids = {u1, u2}
    Sentinel = Sentinel
    None = None
    MaxDatagrams = 3
    MaxEncodes = 1
SPECIFICATION Spec
PROPERTY UidRefinesSession
CHECK_DEADLOCK FALSE
