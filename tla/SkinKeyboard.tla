---------------------------- MODULE SkinKeyboard ----------------------------
(***************************************************************************)
(* The SkinKeyboard of android/skin/keyboard.c: turns the key events that  *)
(* skin_ui_process_events polls into device key events, keyset commands   *)
(* and the raw/unicode mode switch.                                        *)
(*                                                                         *)
(* Key codes are integers (the Linux KEY_* values that convertKeyCode of   *)
(* the Qt window produces, or -1 for a key it does not know).  A modifier  *)
(* mask is abstracted to the set of modifier bits it has.  The keycode     *)
(* buffer and its flush are abstracted to the sequence of device key       *)
(* events sent so far: every path that adds to the buffer flushes it       *)
(* before returning.                                                       *)
(***************************************************************************)
EXTENDS Integers, Sequences

CONSTANTS
    DpadLeft, DpadRight, DpadUp, DpadDown,  \* kKeyCodeDpad*
    AltLeft, AltRight, CapLeft, CapRight,   \* kKeyCodeAlt*, kKeyCodeCap*
    Sym,                                    \* kKeyCodeSym
    KeyK,                                   \* kKeyCodeK
    KeypadKeys,   \* KEY_KP0 .. KEY_KPENTER, ignored under NumLock
    AlwaysSent,   \* KEY_APPSWITCH, KEY_PLAY, ... KEY_HOME (lines 246-252)
    Bindings,     \* the keyset: a set of [code, mod, cmd] bindings
    NoCommand     \* SKIN_KEY_COMMAND_NONE

Arrows == {DpadLeft, DpadRight, DpadUp, DpadDown}

VARIABLES
    enabled,      \* keyboard->enabled
    raw_keys,     \* keyboard->raw_keys
    rotation,     \* keyboard->rotation, 0..3
    unicode,      \* the host unicode translation, skin_event_enable_unicode
    sent,         \* device key events: [code, down, from, rot] records; from
                  \* and rot are ghost fields (the polled keycode and the
                  \* keyboard rotation when it was processed)
    commands      \* <<command, down>> pairs given to the command callback

kvars == <<enabled, raw_keys, rotation, unicode, sent, commands>>

-----------------------------------------------------------------------------
(* skin_keycode_rotate (android/skin/keycode.c): the D-pad keys form a     *)
(* cycle and a rotation by r quarter turns moves a key r places along it.  *)
(* Chosen so that rotating Left by -1 gives Up, as the spec requires.       *)
DpadCycle == <<DpadUp, DpadLeft, DpadDown, DpadRight>>

skin_keycode_rotate(code, r) ==
    LET i == CHOOSE j \in 1..4 : DpadCycle[j] = code
    IN  DpadCycle[((i - 1 + r) % 4) + 1]

(* The command bound to (code, mod) in the keyset, or NoCommand.           *)
skin_keyset_get_command(code, mod) ==
    IF \E b \in Bindings : b.code = code /\ b.mod = mod
    THEN (CHOOSE b \in Bindings : b.code = code /\ b.mod = mod).cmd
    ELSE NoCommand

Ev(code, down, from) == [code |-> code, down |-> down, from |-> from,
                         rot |-> rotation]

(* The modifier key events that bracket an arrow key outside raw mode, in *)
(* the order of lines 93-96 when the key goes down and 101-104 when up.    *)
ModifierKeys(mod) ==
    SelectSeq(<<<<"LAlt", AltLeft>>, <<"RAlt", AltRight>>,
                <<"LShift", CapLeft>>, <<"RShift", CapRight>>>>,
              LAMBDA p : p[1] \in mod)

(* skin_keyboard_key_to_code: the code it returns (0 = handled, -1 = not  *)
(* handled), the device key events it adds and the command it issues.     *)
skin_keyboard_key_to_code(code, mod, down) ==
    IF code \in Arrows
    THEN LET rc   == skin_keycode_rotate(code, -rotation)
             mods == [i \in 1..Len(ModifierKeys(mod)) |-> ModifierKeys(mod)[i][2]]
             Seq1(c, d) == [i \in 1..Len(c) |-> Ev(c[i], d, code)]
             Rev(s) == [i \in 1..Len(s) |-> s[Len(s) + 1 - i]]
         IN  IF raw_keys
             THEN [ret |-> rc, events |-> <<>>, cmd |-> NoCommand]
             ELSE [ret |-> 0, cmd |-> NoCommand,
                   events |-> IF down = 1
                              THEN Seq1(mods, 1) \o <<Ev(rc, 1, code)>>
                              ELSE <<Ev(rc, 0, code)>> \o Seq1(Rev(mods), 0)]
    ELSE IF "NumLock" \in mod /\ code \in KeypadKeys
    THEN [ret |-> 0, events |-> <<>>, cmd |-> NoCommand]
    ELSE IF skin_keyset_get_command(code, mod) # NoCommand
    THEN [ret |-> 0, events |-> <<>>, cmd |-> skin_keyset_get_command(code, mod)]
    ELSE [ret |-> -1, events |-> <<>>, cmd |-> NoCommand]

(* skin_keyboard_do_key_event followed by skin_keyboard_flush.             *)
SendKey(code, down, from) ==
    /\ sent' = Append(sent, Ev(code, down, from))
    /\ UNCHANGED <<raw_keys, unicode, commands>>

(* skin_keyboard_process_event for a kEventKeyDown (down = 1) or           *)
(* kEventKeyUp (down = 0) event carrying keycode and mod.  The @jide        *)
(* region sends every positive keycode to the device as it is; only the    *)
(* rest goes through the keyboard-mode-independent keys, Ctrl-K, the       *)
(* modifier filter and the allowlist.                                       *)
skin_keyboard_process_event(keycode, mod, down) ==
    /\ enabled
    /\ UNCHANGED <<enabled, rotation>>
    /\ \/ /\ keycode > 0
          /\ SendKey(keycode, down, keycode)
       \/ /\ keycode <= 0
          /\ LET k == skin_keyboard_key_to_code(keycode, mod, down)
             IN  CASE k.ret = 0 ->
                        /\ sent' = sent \o k.events
                        /\ commands' = IF k.cmd = NoCommand THEN commands
                                       ELSE Append(commands, <<k.cmd, down>>)
                        /\ UNCHANGED <<raw_keys, unicode>>
                   [] k.ret > 0 -> SendKey(k.ret, down, keycode)
                   [] keycode = KeyK /\ (mod = {"LCtrl"} \/ mod = {"RCtrl"}) ->
                        /\ raw_keys' = IF down = 1 THEN ~raw_keys ELSE raw_keys
                        /\ unicode' = IF down = 1 THEN raw_keys ELSE unicode
                        /\ UNCHANGED <<sent, commands>>
                   [] ~raw_keys /\ keycode \in {AltLeft, AltRight, CapLeft,
                                                CapRight, Sym} ->
                        UNCHANGED <<raw_keys, unicode, sent, commands>>
                   [] keycode \in AlwaysSent -> SendKey(keycode, down, keycode)
                   [] OTHER -> UNCHANGED <<raw_keys, unicode, sent, commands>>

(* skin_keyboard_set_rotation: rotation & 3.                               *)
skin_keyboard_set_rotation(r) ==
    /\ rotation' = r % 4
    /\ UNCHANGED <<enabled, raw_keys, unicode, sent, commands>>

(* skin_keyboard_create followed by skin_keyboard_enable(kb, 1) in          *)
(* skin_ui_create: zeroed (rotation 0), raw_keys from the options, and      *)
(* enabling turns unicode translation on unless raw.                        *)
KInit(use_raw_keys) ==
    /\ enabled = TRUE
    /\ raw_keys = use_raw_keys
    /\ rotation = 0
    /\ unicode = ~use_raw_keys
    /\ sent = <<>>
    /\ commands = <<>>

=============================================================================
