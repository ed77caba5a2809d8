------------------------------ MODULE QtWindow ------------------------------
(***************************************************************************)
(* The zoom, scale and mouse-grab state of EmulatorQtWindow                *)
(* (emulator-qt-window.cpp) on the Qt UI thread.                           *)
(*                                                                         *)
(* Zoom and scale requests leave the window as kEventSetZoom and           *)
(* kEventSetScale events; the QEMU thread applies them in queue order and  *)
(* each one comes back as a slot_showWindow call with the new size.  The   *)
(* window events still to be applied are the sequence inflight.  The       *)
(* zoom factor is counted in quarters (4 = 1.0), the step of zoomIn and    *)
(* zoomOut.  Sizes, scroll positions and focus points are left out.        *)
(*                                                                         *)
(* The window also holds mForwardShortcutsToDevice, which its constructor *)
(* reads from the settings and the settings page changes (SettingsPage).  *)
(* Restart is the emulator exiting and starting again: the window and the *)
(* page are built anew, the saved settings are kept.                      *)
(***************************************************************************)
EXTENDS Naturals, Sequences, SequencesExt

CONSTANTS
    MaxZoom,      \* the largest zoom, in quarters, that zoomIn / zoomTo reach
    MaxInflight   \* bound on the window events not yet applied

VARIABLES
    mInZoomMode, mNextIsZoom, mZoomFactor,
    mMouseGrabbed,
    fullscreen,   \* whether the SkinWindow shows the window full screen
    inflight,     \* SetZoom / SetScale events queued and not yet shown
    showMismatch, \* history: a show ran with mNextIsZoom not telling
                  \* whether it was the show of a zoom
    pressed,      \* the user holds the mouse button
    deviceDown,   \* history: a button down was queued and not its up
    unmatchedUp,  \* history: a button up was queued with no down before it
    forwardSetting, forwardIndex,   \* the settings page, see SettingsPage
    mForwardShortcutsToDevice,
    shownAtExit,  \* history: the page's index when the last process exited
    forwardAtStart \* history: what the window constructor set the flag to

vars == <<mInZoomMode, mNextIsZoom, mZoomFactor, mMouseGrabbed, fullscreen,
          inflight, showMismatch, pressed, deviceDown, unmatchedUp,
          forwardSetting, forwardIndex, mForwardShortcutsToDevice,
          shownAtExit, forwardAtStart>>

settingsVars == <<forwardSetting, forwardIndex, mForwardShortcutsToDevice,
                  shownAtExit, forwardAtStart>>

S == INSTANCE SettingsPage

One == 4  \* a zoom factor of 1.0

-----------------------------------------------------------------------------
(* simulateSetScale, from doResize (scaleUp, scaleDown, a resize drag and *)
(* leaving zoom mode): dropped while a zoom is pending in zoom mode;      *)
(* otherwise the local zoom goes back to 1.0 and kEventSetScale is queued.*)
simulateSetScale ==
    /\ ~(mInZoomMode /\ mNextIsZoom)
    /\ Len(inflight) < MaxInflight
    /\ mZoomFactor' = One
    /\ inflight' = Append(inflight, [type |-> "Scale", zoom |-> One])
    /\ UNCHANGED <<mInZoomMode, mNextIsZoom, mMouseGrabbed, fullscreen,
                   showMismatch, pressed, deviceDown, unmatchedUp>>

(* simulateSetZoom(zoom): dropped while a zoom is pending or when the zoom *)
(* does not change; otherwise mNextIsZoom is set and kEventSetZoom queued.*)
simulateSetZoom(zoom) ==
    /\ ~(mNextIsZoom \/ mZoomFactor = zoom)
    /\ Len(inflight) < MaxInflight
    /\ mNextIsZoom' = TRUE
    /\ mZoomFactor' = zoom
    /\ inflight' = Append(inflight, [type |-> "Zoom", zoom |-> zoom])
    /\ UNCHANGED <<mInZoomMode, mMouseGrabbed, fullscreen, showMismatch,
                   pressed, deviceDown, unmatchedUp>>

(* Mutant: zoomIn without the maxZoom limit.                              *)
zoomInNoMax ==
    simulateSetZoom(mZoomFactor + 1)

(* zoomIn: a quarter more, up to the largest zoom (maxZoom, 2x pixels).    *)
zoomIn ==
    /\ mZoomFactor < MaxZoom
    /\ simulateSetZoom(Min({mZoomFactor + 1, MaxZoom}))

(* zoomOut: a quarter less, down to 1.0, only when zoomed.                 *)
zoomOut ==
    /\ mZoomFactor > One
    /\ simulateSetZoom(Max({mZoomFactor - 1, One}))

(* zoomReset and zoomTo: any zoom from 1.0 to the largest; zoomTo's       *)
(* framing of a rectangle is abstracted to the zoom it picks.             *)
zoomTo == \E z \in One..MaxZoom : simulateSetZoom(z)

(* toggleZoomMode: leaving zoom mode snaps back with doResize, whose      *)
(* simulateSetScale now runs outside zoom mode.                            *)
toggleZoomMode ==
    \/ /\ ~mInZoomMode
       /\ mInZoomMode' = TRUE
       /\ UNCHANGED <<mNextIsZoom, mZoomFactor, mMouseGrabbed, fullscreen,
                      inflight, showMismatch, pressed, deviceDown, unmatchedUp>>
    \/ /\ mInZoomMode
       /\ Len(inflight) < MaxInflight
       /\ mInZoomMode' = FALSE
       /\ mZoomFactor' = One
       /\ inflight' = Append(inflight, [type |-> "Scale", zoom |-> One])
          /\ UNCHANGED <<mNextIsZoom, mMouseGrabbed, fullscreen, showMismatch,
                      pressed, deviceDown, unmatchedUp>>

(* The QEMU thread applies the oldest window event (skin_window_set_zoom / *)
(* skin_window_set_scale) and the window is shown again: slot_showWindow.  *)
(* Full screen only showFullScreen() runs; otherwise mNextIsZoom chooses   *)
(* between keeping the container size (recenterFocusPoint) and resizing  *)
(* it, and is cleared.                                                     *)
slot_showWindow ==
    /\ inflight # <<>>
    /\ inflight' = Tail(inflight)
    /\ showMismatch' = (showMismatch \/
                        (~fullscreen /\ mNextIsZoom # (Head(inflight).type = "Zoom")))
    /\ mNextIsZoom' = IF fullscreen THEN mNextIsZoom ELSE FALSE
    /\ UNCHANGED <<mInZoomMode, mZoomFactor, mMouseGrabbed, fullscreen,
                   pressed, deviceDown, unmatchedUp>>

(* skin_window_toggle_fullscreen (android/skin/window.c): the window is  *)
(* shown again in the other mode, through the same slot_showWindow.        *)
toggleFullscreen ==
    /\ Len(inflight) < MaxInflight
    /\ fullscreen' = ~fullscreen
    /\ inflight' = Append(inflight, [type |-> "Show", zoom |-> mZoomFactor])
    /\ UNCHANGED <<mInZoomMode, mNextIsZoom, mZoomFactor, mMouseGrabbed,
                   showMismatch, pressed, deviceDown, unmatchedUp>>

(* mousePressEvent: the first press only grabs the mouse; later presses   *)
(* queue kEventMouseButtonDown.                                            *)
mousePressEvent ==
    /\ ~pressed
    /\ pressed' = TRUE
    /\ \/ /\ ~mMouseGrabbed
          /\ mMouseGrabbed' = TRUE
          /\ UNCHANGED deviceDown
       \/ /\ mMouseGrabbed
          /\ deviceDown' = TRUE
          /\ UNCHANGED mMouseGrabbed
    /\ UNCHANGED <<mInZoomMode, mNextIsZoom, mZoomFactor, fullscreen,
                   inflight, showMismatch, unmatchedUp>>

(* mouseReleaseEvent: always queues kEventMouseButtonUp.                  *)
mouseReleaseEvent ==
    /\ pressed
    /\ pressed' = FALSE
    /\ unmatchedUp' = (unmatchedUp \/ ~deviceDown)
    /\ deviceDown' = FALSE
    /\ UNCHANGED <<mInZoomMode, mNextIsZoom, mZoomFactor, mMouseGrabbed,
                   fullscreen, inflight, showMismatch>>

(* keyPressEvent with Ctrl and Alt held releases the grab.                 *)
keyPressEventCtrlAlt ==
    /\ mMouseGrabbed' = FALSE
    /\ UNCHANGED <<mInZoomMode, mNextIsZoom, mZoomFactor, fullscreen,
                   inflight, showMismatch, pressed, deviceDown,
                   unmatchedUp>>

(* Mutant: the flag is set the wrong way round.                           *)
setForwardShortcutsToDeviceInverted(index) ==
    mForwardShortcutsToDevice' = (index = 0)

(* setForwardShortcutsToDevice, the slot behind the page's signal.        *)
setForwardShortcutsToDevice(index) ==
    mForwardShortcutsToDevice' = (index # 0)

windowVars == <<mInZoomMode, mNextIsZoom, mZoomFactor, mMouseGrabbed,
                fullscreen, inflight, showMismatch, pressed,
                deviceDown, unmatchedUp>>

(* The settings page is built when the extended window is first needed.   *)
(* The constructor's currentIndexChanged reaches the window only if the   *)
(* tool window has already connected onForwardShortcutsToDeviceChanged,   *)
(* which this code does not show: either.                                  *)
OpenSettingsPage ==
    /\ S!SettingsPageCtor
    /\ \/ /\ forwardIndex' # 0
          /\ setForwardShortcutsToDevice(forwardIndex')
       \/ UNCHANGED mForwardShortcutsToDevice
    /\ UNCHANGED <<shownAtExit, forwardAtStart>>
    /\ UNCHANGED windowVars

(* The user picks the other entry; the page's signal runs                 *)
(* setForwardShortcutsToDevice with the new index.                         *)
ChangeForwardShortcuts ==
    \E index \in {0, 1} :
        /\ S!SelectForwardShortcuts(index)
        /\ setForwardShortcutsToDevice(index)
        /\ UNCHANGED <<shownAtExit, forwardAtStart>>
        /\ UNCHANGED windowVars

(* The forward-shortcuts part of a new process, from the saved value s:   *)
(* the tool window may build the settings page before the window          *)
(* constructor reads the setting, off by default (lines 164-166).          *)
StartProcess(s) ==
    /\ \E eager \in BOOLEAN :
          /\ forwardIndex' = IF eager THEN S!CtorIndex(s) ELSE S!NoPage
          /\ forwardSetting' = IF eager THEN S!CtorStore(s) ELSE s
    /\ setForwardShortcutsToDevice(
           IF S!ReadForward(forwardSetting', FALSE) THEN 1 ELSE 0)
    /\ forwardAtStart' = mForwardShortcutsToDevice'

(* The emulator exits and is started again: a new window (the             *)
(* constructor's member values, the grab flag uninitialized) and a new    *)
(* page; the settings file and the histories are kept.                      *)
Restart ==
    /\ shownAtExit' = forwardIndex
    /\ StartProcess(forwardSetting)
    /\ mInZoomMode' = FALSE /\ mNextIsZoom' = FALSE /\ mZoomFactor' = One
    /\ mMouseGrabbed' \in BOOLEAN /\ fullscreen' = FALSE
    /\ inflight' = <<>>
    /\ pressed' = FALSE /\ deviceDown' = FALSE
    /\ UNCHANGED <<showMismatch, unmatchedUp>>

-----------------------------------------------------------------------------
(* The constructor: zoom 1.0, not in zoom mode, no zoom pending.           *)
(* mMouseGrabbed is not initialized, so it holds whatever the allocation  *)
(* held: either value.  The settings file is whatever an earlier run left *)
(* and the first process starts from it as StartProcess does.              *)
Init ==
    /\ mInZoomMode = FALSE
    /\ mNextIsZoom = FALSE
    /\ mZoomFactor = One
    /\ mMouseGrabbed \in BOOLEAN
    /\ fullscreen = FALSE
    /\ inflight = <<>>
    /\ showMismatch = FALSE
    /\ pressed = FALSE
    /\ deviceDown = FALSE
    /\ unmatchedUp = FALSE
    /\ \E s \in S!Stored, eager \in BOOLEAN :
          /\ forwardIndex = IF eager THEN S!CtorIndex(s) ELSE S!NoPage
          /\ forwardSetting = IF eager THEN S!CtorStore(s) ELSE s
    /\ mForwardShortcutsToDevice = S!ReadForward(forwardSetting, FALSE)
    /\ forwardAtStart = mForwardShortcutsToDevice
    /\ shownAtExit = S!NoPage

WindowNext ==
    \/ simulateSetScale
    \/ zoomIn
    \/ zoomOut
    \/ zoomTo
    \/ toggleZoomMode
    \/ slot_showWindow
    \/ toggleFullscreen
    \/ mousePressEvent
    \/ mouseReleaseEvent
    \/ keyPressEventCtrlAlt

Next ==
    \/ WindowNext /\ UNCHANGED settingsVars
    \/ OpenSettingsPage
    \/ ChangeForwardShortcuts
    \/ Restart

Spec == Init /\ [][Next]_vars

-----------------------------------------------------------------------------
(* Properties                                                              *)

TypeOK ==
    /\ mInZoomMode \in BOOLEAN /\ mNextIsZoom \in BOOLEAN
    /\ mZoomFactor \in One..MaxZoom
    /\ mMouseGrabbed \in BOOLEAN /\ fullscreen \in BOOLEAN
    /\ inflight \in Seq([type : {"Zoom", "Scale", "Show"}, zoom : One..MaxZoom])
    /\ Len(inflight) <= MaxInflight
    /\ showMismatch \in BOOLEAN
    /\ pressed \in BOOLEAN /\ deviceDown \in BOOLEAN /\ unmatchedUp \in BOOLEAN
    /\ forwardSetting \in S!Stored
    /\ forwardIndex \in {0, 1, S!NoPage} /\ shownAtExit \in {0, 1, S!NoPage}
    /\ mForwardShortcutsToDevice \in BOOLEAN /\ forwardAtStart \in BOOLEAN

(* slot_showWindow tells the show of a zoom from any other show by        *)
(* mNextIsZoom (the comment at lines 869-870): every show in a window not *)
(* full screen runs with mNextIsZoom set exactly when it applies a zoom.  *)
ShowKnowsZoom == ~showMismatch

(* The device never gets a mouse button up that no button down preceded: *)
(* mouseReleaseEvent queues kEventMouseButtonUp only after                 *)
(* mousePressEvent queued the down.                                       *)
ButtonUpAfterDown == ~unmatchedUp

(* Whenever the settings page exists, the saved setting is the entry the  *)
(* pull-down shows: the constructor's on-by-default selection is saved    *)
(* through the same currentIndexChanged slot as a user's change, so the   *)
(* page never shows a value the settings file does not hold.               *)
StoredMatchesPage ==
    S!Built => forwardSetting = IF forwardIndex = 1 THEN "On" ELSE "Off"

(* A process that starts after one in which the settings page was shown   *)
(* forwards shortcuts exactly when the page last showed "on": the window  *)
(* constructor's read with default off agrees with the page's read with   *)
(* default on once the page has saved its choice.                          *)
RestartKeepsForwarding ==
    shownAtExit # S!NoPage => forwardAtStart = (shownAtExit = 1)

=============================================================================
