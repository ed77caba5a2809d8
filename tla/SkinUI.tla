------------------------------- MODULE SkinUI -------------------------------
(***************************************************************************)
(* The SkinUI of android/skin/ui.c as the QEMU thread drives it: the       *)
(* current layout of the skin file, the keyboard it owns (SkinKeyboard)    *)
(* and the trackball rotation, changed by the events that                  *)
(* skin_ui_process_events dispatches: kEventKeyDown / kEventKeyUp to the   *)
(* keyboard, kEventLayoutNext / kEventLayoutPrev to                        *)
(* _skin_ui_handle_key_command.                                            *)
(*                                                                         *)
(* The skin file's layouts are the list 1..Len(LayoutNames) linked by     *)
(* next (NULL after the last).                                             *)
(***************************************************************************)
EXTENDS Integers, Sequences, SequencesExt

CONSTANTS
    LayoutNames,      \* LayoutNames[i]: the name of the i-th layout
    DpadRotation,     \* DpadRotation[i]: skin_layout_get_dpad_rotation
    InitialNames,     \* initial_orientation values, NoName for NULL
    NoName,
    EnableTrackball,  \* ui_params.enable_trackball
    UseRawKeys,       \* ui_params.keyboard_raw_keys
    KeyCodes,         \* the keycodes a polled key event may carry
    Mods,             \* the modifier sets a polled key event may carry
    ChangeLayoutNext, ChangeLayoutPrev,  \* SKIN_KEY_COMMAND_CHANGE_LAYOUT_*
    MaxSent           \* bound on the device key events of a behaviour

CONSTANTS DpadLeft, DpadRight, DpadUp, DpadDown, AltLeft, AltRight, CapLeft,
          CapRight, Sym, KeyK, KeypadKeys, AlwaysSent, Bindings, NoCommand

VARIABLES
    layout,             \* ui->layout, an index of the layout list
    trackballRotation,  \* the trackball's rotation, 0 when created
    enabled, raw_keys, rotation, unicode, sent, commands  \* ui->keyboard

K == INSTANCE SkinKeyboard

vars == <<layout, trackballRotation, enabled,
          raw_keys, rotation, unicode, sent, commands>>

N == Len(LayoutNames)

-----------------------------------------------------------------------------
(* layout->next, with 0 for NULL.                                          *)
NextOf(l) == IF l < N THEN l + 1 ELSE 0

(* skin_file_select_layout: the first layout with the name, or the head.  *)
skin_file_select_layout(name) ==
    IF name = NoName \/ SelectInSeq(LayoutNames, LAMBDA n : n = name) = 0
    THEN 1
    ELSE SelectInSeq(LayoutNames, LAMBDA n : n = name)

(* Mutant: the walk of LAYOUT_PREV without the test for the end of the   *)
(* list, so from the head of a one-layout skin it steps past the last.     *)
RECURSIVE PrevWalkNoNullCheck(_, _)
PrevWalkNoNullCheck(l, cur) ==
    IF NextOf(l) # cur THEN PrevWalkNoNullCheck(NextOf(l), cur) ELSE l

(* The loop of CHANGE_LAYOUT_PREV: walk from the head while the next       *)
(* layout exists and is not the current one.                               *)
RECURSIVE PrevWalk(_, _)
PrevWalk(l, cur) ==
    IF NextOf(l) # 0 /\ NextOf(l) # cur THEN PrevWalk(NextOf(l), cur) ELSE l

(* Mutant: LAYOUT_PREV stops at the head instead of wrapping to the last. *)
NewLayoutPrevNoWrap(command, cur) ==
    IF command = ChangeLayoutNext
    THEN IF NextOf(cur) = 0 THEN 1 ELSE NextOf(cur)
    ELSE IF cur = 1 THEN 1 ELSE cur - 1

(* The layout that CHANGE_LAYOUT_NEXT / _PREV selects.                     *)
NewLayout(command, cur) ==
    IF command = ChangeLayoutNext
    THEN IF NextOf(cur) = 0 THEN 1 ELSE NextOf(cur)
    ELSE PrevWalk(1, cur)

(* Mutant: the trackball is given the negated rotation, as the keyboard    *)
(* negates it for skin_keycode_rotate.                                     *)
ChangeLayoutNegated(command) ==
    LET l == NewLayout(command, layout)
    IN  /\ layout' = l
        /\ K!skin_keyboard_set_rotation(DpadRotation[l])
        /\ trackballRotation' = IF EnableTrackball THEN -DpadRotation[l]
                                ELSE trackballRotation

(* _skin_ui_handle_key_command(ui, CHANGE_LAYOUT_NEXT or _PREV, 1), from   *)
(* kEventLayoutNext / kEventLayoutPrev: select the layout, reset the       *)
(* window to it, and give its D-pad rotation to the keyboard and, when     *)
(* there is one, the trackball.                                            *)
ChangeLayout(command) ==
    LET l == NewLayout(command, layout)
    IN  /\ layout' = l
        /\ K!skin_keyboard_set_rotation(DpadRotation[l])
        /\ trackballRotation' = IF EnableTrackball THEN DpadRotation[l]
                                ELSE trackballRotation

(* case kEventKeyDown / kEventKeyUp of skin_ui_process_events.             *)
KeyEvent(keycode, mod, down) ==
    /\ Len(sent) < MaxSent
    /\ K!skin_keyboard_process_event(keycode, mod, down)
    /\ UNCHANGED <<layout, trackballRotation>>

(* skin_ui_create: the layout named by initial_orientation, the keyboard   *)
(* created and enabled, the trackball created with rotation 0.             *)
Init ==
    /\ layout \in {skin_file_select_layout(n) : n \in InitialNames}
    /\ trackballRotation = 0
    /\ K!KInit(UseRawKeys)

Next ==
    \/ \E c \in {ChangeLayoutNext, ChangeLayoutPrev} : ChangeLayout(c)
    \/ \E keycode \in KeyCodes, mod \in Mods, down \in {0, 1} :
           KeyEvent(keycode, mod, down)

Spec == Init /\ [][Next]_vars

-----------------------------------------------------------------------------
(* Properties                                                              *)

TypeOK ==
    /\ layout \in 1..N
    /\ trackballRotation \in 0..3
    /\ enabled \in BOOLEAN /\ raw_keys \in BOOLEAN /\ unicode \in BOOLEAN
    /\ rotation \in 0..3
    /\ \A i \in 1..Len(sent) : sent[i].down \in {0, 1}

(* The layouts form the cycle the spec describes: LAYOUT_NEXT past the    *)
(* last goes to the first, and LAYOUT_PREV (the walk from the head of the  *)
(* list) goes to the predecessor, from the first to the last.              *)
LayoutCycle ==
    /\ NewLayout(ChangeLayoutNext, layout) = (layout % N) + 1
    /\ NewLayout(ChangeLayoutPrev, layout) = IF layout = 1 THEN N ELSE layout - 1

(* From the first event on, the keyboard carries the D-pad rotation of the *)
(* current layout, the one skin_ui_create selected from                    *)
(* initial_orientation included.                                           *)
RotationFollowsInitialLayout ==
    rotation = DpadRotation[layout] % 4

(* The spec's arrow-key rotation: an arrow key that reaches the device is  *)
(* the polled arrow rotated back by the keyboard rotation, so a Dpad-Left  *)
(* under rotation 1 gives the device the code of an unrotated Dpad-Up.     *)
ArrowKeysRotated ==
    \A i \in 1..Len(sent) :
        sent[i].from \in K!Arrows =>
            sent[i].code = K!skin_keycode_rotate(sent[i].from, -sent[i].rot)

=============================================================================
