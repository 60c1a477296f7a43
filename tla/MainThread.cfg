SPECIFICATION MainSpec
CONSTANTS
    Players = {p1, p2, p3}
    AllPlayers = {p1, p2}
    Sessions = {s1, s2}
    Addresses = {a1, a2}
    NULL = NULL
    NoPlayer = NoPlayer
    NoSession = NoSession
    Messages = {m1}
    Handled = {HeartBeat, Other}
    Unknown = {Stray}
    MSGID_HEART_BEAT = HeartBeat
    NoOpcode = NoOpcode
SYMMETRY Symmetry
INVARIANTS
    NamedIsOnline
    OnlineUntilMisuse
PROPERTIES
    PresenceUntilMisuse
CHECK_DEADLOCK FALSE
