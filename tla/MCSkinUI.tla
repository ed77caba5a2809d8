------------------------------ MODULE MCSkinUI ------------------------------
(* A skin with three layouts, portrait first; the keycodes are the values *)
(* convertKeyCode of the Qt window produces (linux/input.h) and -1.       *)
EXTENDS SkinUI

MCLayoutNames == <<"portrait", "landscape", "reverse">>
MCDpadRotation == <<0, 1, 3>>
(* A skin with a single layout, turned a quarter: LAYOUT_NEXT and         *)
(* LAYOUT_PREV must both keep it.                                          *)
MCOneLayoutNames == <<"landscape">>
MCOneDpadRotation == <<1>>

MCInitialNames == {NoName, "landscape", "unknown"}

(* KEY_LEFT, KEY_RIGHT, KEY_UP, KEY_DOWN *)
MCDpadLeft == 105
MCDpadRight == 106
MCDpadUp == 103
MCDpadDown == 108
(* KEY_LEFTALT, KEY_RIGHTALT, KEY_LEFTSHIFT, KEY_RIGHTSHIFT, KEY_COMPOSE *)
MCAltLeft == 56
MCAltRight == 100
MCCapLeft == 42
MCCapRight == 54
MCSym == 127
MCKeyK == 37
(* KEY_KP7, KEY_KP9 *)
MCKeypadKeys == {71, 73}
(* KEY_HOME, KEY_BACK *)
MCAlwaysSent == {102, 158}
(* The default keyset binds KP7 and KP9 to the layout commands. *)
MCBindings == {[code |-> 71, mod |-> {}, cmd |-> "LayoutPrev"],
               [code |-> 73, mod |-> {}, cmd |-> "LayoutNext"]}

(* convertKeyCode: Left, Up, Key_1, Control, Shift and an unknown key. *)
MCKeyCodes == {105, 103, 2, 29, 42, -1}
MCMods == {{}, {"LCtrl"}, {"LShift", "LAlt"}}
=============================================================================
