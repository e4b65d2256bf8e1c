SPECIFICATION Spec
CONSTANTS
    c1 = c1
    c2 = c2
    c3 = c3
    k1 = k1
    m1 = m1
    m2 = m2
    r1 = r1
    Rooms = {r1}
    Members = {m1, m2}
    Codes = {k1}
    Modes = {"group_ride"}
    Conns = {c1, c2, c3}
    Commands = {"voice.join", "voice.leave", "voice.talk.start", "voice.talk.stop"}
    Deadlines = {}
    MaxPeers = 2
    SnapshotCap = 2
    VoiceEnabled = TRUE
SYMMETRY Symmetry
INVARIANT ViewsConverge
PROPERTY LateCloseHarmless
PROPERTY ImplementsVoiceChannel
