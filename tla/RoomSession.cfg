SPECIFICATION SessionSpec
CONSTANTS
    Tabs = {t1, t2}
    Rydes = {"r1", "r2"}
    MaxMembers = 2
    MaxUpsets = 1
INVARIANT SessionTypeOK
INVARIANT LiveSessionIsKept
PROPERTY StaleSessionsEnd
PROPERTY NoTugOfWar
CHECK_DEADLOCK FALSE
