SPECIFICATION FairSpec
CONSTANTS
    kp8 = kp8
    up = up
    leftshift = leftshift
    KEY_KP8 = KEY_KP8
    KEY_LEFTSHIFT = KEY_LEFTSHIFT
    Key = {kp8, up, leftshift}
    Extended = {up}
    Number = {KEY_KP8, KEY_LEFTSHIFT}
    keymap <- MCkeymap
    Shift = {KEY_LEFTSHIFT}
    KEY_RESERVED = KEY_RESERVED
    KEY_INSERT = KEY_INSERT
    MaxBytes = 3
INVARIANTS
    KeyFaithful
    ShiftFaithful
    StatusFaithful
PROPERTIES
    NeverStuck
