----------------------------- MODULE MCKeyboard -----------------------------
(* The pad's 8, the arrow up, whose code is the same behind an E0, and a     *)
(* shift key (kbdmap.c:15, 26).                                              *)
EXTENDS Keyboard

CONSTANTS kp8, up, leftshift, KEY_KP8, KEY_LEFTSHIFT

MCkeymap == [k \in Key |-> IF k = leftshift THEN KEY_LEFTSHIFT ELSE KEY_KP8]
=============================================================================
