SPECIFICATION Spec
CONSTANTS
    Routes = {1, 2}
    Bad = 2
    Messages = {m1}
    Watchers = {"config"}
    Consoles = {}
    Apis = {a1, a2}
    Edited = {}
    MaxEdits = 2
    Empty = Empty
    None = None
PROPERTY FileStaysValid
CHECK_DEADLOCK FALSE
