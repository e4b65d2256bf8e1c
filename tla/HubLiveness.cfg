SPECIFICATION FairSpec
CONSTANTS
    c1 = c1
    c2 = c2
    k1 = k1
    m1 = m1
    r1 = r1
    Rooms = {r1}
    Members = {m1}
    Codes = {k1}
    Modes = {"group_ride"}
    Conns = {c1, c2}
    Commands = {"presence.ping", "query", "location.update", "voice.join"}
    Deadlines = {"heartbeat", "room.ttl", "token.ttl", "location.stale", "location.interval"}
    MaxPeers = 2
    SnapshotCap = 2
    VoiceEnabled = TRUE
PROPERTY DeadPeersLeave
PROPERTY GoneRoomsEmpty
PROPERTY GhostPeersEnd
PROPERTY StaleLocationsClear
