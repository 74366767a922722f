CONSTANTS
    Channels = {c1, c2}
    NoChannel = NoChannel
    Chats = {k1, k2}
    NoChat = NoChat
    Turns = {t1}
    Deleters = {d1, d2}
SPECIFICATION Spec
SYMMETRY Symmetry
INVARIANTS
    TypeOK
    VoiceIsASource
    FailedTurnLeavesNoReply
    
PROPERTIES
    SweepSparesOthers
    UsageOutlivesDeletion
CHECK_DEADLOCK FALSE
