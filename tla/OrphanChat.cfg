CONSTANTS
    Channels = {c1, c2}
    NoChannel = NoChannel
    Chats = {k1}
    NoChat = NoChat
    Turns = {t1}
    Deleters = {d1, d2}
SPECIFICATION Spec
SYMMETRY Symmetry
INVARIANT NoSourcelessChat
CHECK_DEADLOCK FALSE
