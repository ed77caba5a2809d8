---------------------------- MODULE SettingsPage ----------------------------
(***************************************************************************)
(* The "Send keyboard shortcuts" pull-down of the extended window's       *)
(* settings page (settings-page.cpp) and the QSettings value              *)
(* FORWARD_SHORTCUTS_TO_DEVICE behind it.                                 *)
(*                                                                         *)
(* The pull-down acts like a checkbox: index 0 is off, index 1 is on.     *)
(* Its currentIndexChanged signal is connected both to the page's own    *)
(* signal onForwardShortcutsToDeviceChanged (for the emulator window) and *)
(* to on_set_forwardShortcutsToDevice_currentIndexChanged, which saves    *)
(* the setting.  A QComboBox emits currentIndexChanged only when the     *)
(* index really changes, and a new one starts at index 0.                 *)
(*                                                                         *)
(* The saved value is "Unset" until the first save, then "On" or "Off". *)
(* The settings file outlives the process; the page does not.            *)
(***************************************************************************)
EXTENDS Integers

VARIABLES
    forwardSetting,  \* the saved FORWARD_SHORTCUTS_TO_DEVICE value
    forwardIndex     \* the pull-down's index, NoPage while no page exists

NoPage == -1  \* no page: not an index of the pull-down

Stored == {"Unset", "On", "Off"}

Built == forwardIndex # NoPage

(* settings.value(FORWARD_SHORTCUTS_TO_DEVICE, default).toBool()           *)
ReadForward(s, default) == IF s = "Unset" THEN default ELSE s = "On"

(* settings.setValue(FORWARD_SHORTCUTS_TO_DEVICE, (index != 0))            *)
on_set_forwardShortcutsToDevice_currentIndexChanged(index) ==
    forwardSetting' = IF index # 0 THEN "On" ELSE "Off"

(* The index the constructor selects: the saved value, on by default.     *)
CtorIndex(s) == IF ReadForward(s, TRUE) THEN 1 ELSE 0

(* Mutant: the constructor's selection is not saved (signals blocked      *)
(* while the page is set up).                                              *)
CtorStoreUnsaved(s) == s

(* The saved value after the constructor: setCurrentIndex(1) moves the    *)
(* new pull-down off index 0, so currentIndexChanged fires and the value  *)
(* is saved; setCurrentIndex(0) changes nothing and saves nothing.         *)
CtorStore(s) == IF CtorIndex(s) # 0 THEN "On" ELSE s

(* SettingsPage::SettingsPage, the forward-shortcuts part (lines 68-75).  *)
SettingsPageCtor ==
    /\ ~Built
    /\ forwardIndex' = CtorIndex(forwardSetting)
    /\ forwardSetting' = CtorStore(forwardSetting)

(* The user picks the other entry of the pull-down: the index changes and *)
(* the auto-connected slot saves it.                                       *)
SelectForwardShortcuts(index) ==
    /\ Built
    /\ index \in {0, 1} \ {forwardIndex}
    /\ forwardIndex' = index
    /\ on_set_forwardShortcutsToDevice_currentIndexChanged(index)

=============================================================================
