-------------------------- MODULE EmulatorEventLoop --------------------------
(***************************************************************************)
(* The two threads around the skin event queue.                            *)
(*                                                                         *)
(* Qt UI thread: the window's input handlers push events                   *)
(* (slot_queueEvent), keyReleaseEvent also reads the global                *)
(* EmulatorWindow's ui pointer, and the thread serves the pollEvent        *)
(* signals that the QEMU thread sends.                                     *)
(*                                                                         *)
(* QEMU main-loop thread: emulator_window_refresh (emulator-window.c),     *)
(* called periodically from the framebuffer poll, runs                     *)
(* skin_ui_process_events (ui.c), which polls until the queue is empty.    *)
(* Each poll is a queued signal to the Qt thread followed by a wait on a   *)
(* semaphore, so the Qt thread may push more events between two polls of  *)
(* one drain.  A Quit event ends the drain; refresh then frees the SkinUI  *)
(* (skin_ui_free), only afterwards clears emulator->ui, and requests the   *)
(* shutdown, which the main loop (not under src/) tests after every       *)
(* iteration.  emulator_window_init leaves emulator->ui NULL; the first    *)
(* framebuffer update creates the SkinUI (emulator_window_fb_update).      *)
(***************************************************************************)
EXTENDS Naturals, Sequences, SequencesExt

CONSTANTS
    Types, Coalescing, MaxPush,
    KeyDown,           \* kEventKeyDown, pushed by keyPressEvent
    KeyUp,             \* kEventKeyUp, pushed by keyReleaseEvent
    ScrollBarChanged,  \* kEventScrollBarChanged
    SetScale,          \* kEventSetScale
    SetZoom,           \* kEventSetZoom
    Quit               \* kEventQuit

ASSUME /\ {KeyDown, KeyUp, ScrollBarChanged, Quit} \subseteq Types

VARIABLES
    mSkinEventQueue, pushed, polled,   \* the queue, see EventQueue
    cpc,          \* where the QEMU thread is in emulator_window_refresh
    ignoreScroll, \* the local ignoreScroll of skin_ui_process_events
    scrollApplied,\* history: ids of scroll events given to skin_window
    uiPtr,        \* emulator->ui: "Set" or "Null"
    shutdownRequested, \* qemu_system_shutdown_request() has been called
    uiMem,        \* the SkinUI object: "None" before the first, "Live",
                  \* or "Freed"
    uafRead,      \* history: the Qt thread read a freed SkinUI
    resizesAhead, \* history: resizesAhead[k] = ids of the SetScale and
                  \* SetZoom events queued at push k
    mForwardShortcutsToDevice  \* key events are queued only when set

Q == INSTANCE EventQueue

qvars   == <<mSkinEventQueue, pushed, polled, resizesAhead>>
qemuvars == <<cpc, ignoreScroll, scrollApplied, uiPtr, shutdownRequested, uiMem>>

vars == <<mSkinEventQueue, pushed, polled, cpc, ignoreScroll,
          scrollApplied, uiPtr, shutdownRequested, uiMem, uafRead, resizesAhead,
          mForwardShortcutsToDevice>>

QEMUStates == {"Idle", "Poll", "Got", "Empty", "Freeing", "Clearing", "Done"}

-----------------------------------------------------------------------------
(* Qt thread                                                               *)

(* The SetScale and SetZoom events queued now: the ghost record of what a *)
(* push lands behind.                                                      *)
QueuedResizes ==
    {mSkinEventQueue[i].id : i \in {i \in 1..Len(mSkinEventQueue) :
                                mSkinEventQueue[i].type \in {SetScale, SetZoom}}}

(* queueEvent / slot_queueEvent of an event of type t, with the ghost      *)
(* record of the SetScale events it lands behind.                          *)
QueuePush(t) ==
    /\ Q!slot_queueEvent(t)
    /\ resizesAhead' = Append(resizesAhead, QueuedResizes)

(* A Qt handler queues an event of type t, as simulateWindowMoved and     *)
(* simulateZoomedWindowResized do unconditionally.  The early returns of  *)
(* simulateSetScale and simulateSetZoom depend on the window's zoom state, *)
(* which QtWindow models; here any of them may be queued at any time.      *)
QtQueueEvent(t) ==
    /\ QueuePush(t)
    /\ UNCHANGED <<qemuvars, uafRead, mForwardShortcutsToDevice>>

(* handleKeyEvent: with the @jide region, a key event is forwarded         *)
(* (forwardKeyEventToEmulator, which queues it) only when shortcuts are    *)
(* forwarded to the device; otherwise it is dropped.                       *)
handleKeyEvent(type) ==
    \/ mForwardShortcutsToDevice /\ QueuePush(type)
    \/ ~mForwardShortcutsToDevice /\ UNCHANGED qvars

(* keyPressEvent: handleKeyEvent(kEventKeyDown).  The Ctrl+Alt release of *)
(* the mouse grab is in QtWindow.                                          *)
keyPressEvent ==
    /\ handleKeyEvent(KeyDown)
    /\ UNCHANGED <<qemuvars, uafRead, mForwardShortcutsToDevice>>

(* skin_ui_is_trackball_active(ew->ui) reads the SkinUI when the pointer  *)
(* is set.                                                                 *)
ReadsFreedUi == uiPtr = "Set" /\ uiMem = "Freed"

(* keyReleaseEvent: handleKeyEvent(kEventKeyUp), then the handler reads    *)
(* emulator_window_get()->ui for skin_ui_is_trackball_active.              *)
keyReleaseEvent ==
    /\ handleKeyEvent(KeyUp)
    /\ uafRead' = (uafRead \/ ReadsFreedUi)
    /\ UNCHANGED <<qemuvars, mForwardShortcutsToDevice>>

(* closeEvent while the main-loop thread runs, with savevm_on_exit:        *)
(* queueQuitEvent.  (Without savevm_on_exit the tool window's adb stop     *)
(* runs instead, which is not under src/; after the main loop has stopped  *)
(* the close is accepted and nothing is queued.)                           *)
closeEvent ==
    /\ cpc # "Done"
    /\ QueuePush(Quit)
    /\ UNCHANGED <<qemuvars, uafRead, mForwardShortcutsToDevice>>

(* setForwardShortcutsToDevice, from the settings page's pull-down.        *)
setForwardShortcutsToDevice(index) ==
    /\ mForwardShortcutsToDevice' = (index # 0)
    /\ UNCHANGED <<qvars, qemuvars, uafRead>>

(* The Qt thread runs slot_pollEvent for the waiting QEMU thread and       *)
(* releases its semaphore.                                                 *)
ServePoll ==
    /\ cpc = "Poll"
    /\ \/ Q!slot_pollEvent /\ cpc' = "Got"
       \/ Q!slot_pollEventEmpty /\ cpc' = "Empty"
    /\ UNCHANGED <<ignoreScroll, scrollApplied, uiPtr, shutdownRequested,
                   uiMem, uafRead, resizesAhead, mForwardShortcutsToDevice>>

-----------------------------------------------------------------------------
(* QEMU thread                                                             *)

(* qframebuffer_check_updates at the start of emulator_window_refresh      *)
(* calls emulator_window_fb_update, which runs emulator_window_setup when  *)
(* emulator->ui is NULL: skin_ui_create makes a new SkinUI.  Once the     *)
(* shutdown is requested no further refresh runs.                          *)
FbUpdate ==
    /\ cpc = "Idle"
    /\ ~shutdownRequested
    /\ uiPtr = "Null"
    /\ uiPtr' = "Set"
    /\ uiMem' = "Live"
    /\ UNCHANGED <<qvars, cpc, ignoreScroll, scrollApplied, shutdownRequested,
                   uafRead, mForwardShortcutsToDevice>>

(* emulator_window_fb_rotate, the framebuffer's rotation callback, calls  *)
(* emulator_window_setup unconditionally; setup returns at once while a    *)
(* SkinUI exists, so it too creates one only when emulator->ui is NULL.   *)
FbRotate ==
    /\ cpc = "Idle"
    /\ ~shutdownRequested
    /\ uiPtr = "Null"
    /\ uiPtr' = "Set"
    /\ uiMem' = "Live"
    /\ UNCHANGED <<qvars, cpc, ignoreScroll, scrollApplied, shutdownRequested,
                   uafRead, mForwardShortcutsToDevice>>

(* emulator_window_refresh with emulator->ui set enters                    *)
(* skin_ui_process_events: ignoreScroll starts false, the first poll is    *)
(* sent.                                                                   *)
StartDrain ==
    /\ cpc = "Idle"
    /\ uiPtr = "Set"
    /\ cpc' = "Poll"
    /\ ignoreScroll' = FALSE
    /\ UNCHANGED <<qvars, scrollApplied, uiPtr, shutdownRequested, uiMem,
                   uafRead, mForwardShortcutsToDevice>>

(* Whether skin_window_scroll_updated is called for a polled scroll event. *)
AppliesScroll(ev, ignore) == ev.type = ScrollBarChanged /\ ~ignore

(* One turn of the while loop of skin_ui_process_events for a non-Quit    *)
(* event: the switch dispatches it, kEventSetScale sets ignoreScroll, and  *)
(* the next poll is sent.                                                  *)
Dispatch ==
    LET ev == Last(polled)
    IN  /\ cpc = "Got"
        /\ ev.type # Quit
        /\ scrollApplied' = IF AppliesScroll(ev, ignoreScroll)
                            THEN scrollApplied \cup {ev.id}
                            ELSE scrollApplied
        /\ ignoreScroll' = (ignoreScroll \/ ev.type = SetScale)
        /\ cpc' = "Poll"
        /\ UNCHANGED <<qvars, uiPtr, shutdownRequested, uiMem, uafRead,
                       mForwardShortcutsToDevice>>

(* case kEventQuit: skin_ui_process_events returns true at once.           *)
DispatchQuit ==
    /\ cpc = "Got"
    /\ Last(polled).type = Quit
    /\ cpc' = "Freeing"
    /\ UNCHANGED <<qvars, ignoreScroll, scrollApplied, uiPtr,
                   shutdownRequested, uiMem, uafRead, mForwardShortcutsToDevice>>

(* Mutant: an empty poll is taken as the end of event processing.          *)
EndDrainStops ==
    /\ cpc = "Empty"
    /\ cpc' = "Done"
    /\ UNCHANGED <<qvars, ignoreScroll, scrollApplied, uiPtr,
                   shutdownRequested, uiMem, uafRead, mForwardShortcutsToDevice>>

(* The poll found the queue empty: skin_keyboard_flush, return false.      *)
EndDrain ==
    /\ cpc = "Empty"
    /\ cpc' = "Idle"
    /\ UNCHANGED <<qvars, ignoreScroll, scrollApplied, uiPtr,
                   shutdownRequested, uiMem, uafRead, mForwardShortcutsToDevice>>

(* emulator_window_refresh after a Quit: skin_ui_free(emulator->ui).       *)
FreeUi ==
    /\ cpc = "Freeing"
    /\ uiMem' = "Freed"
    /\ cpc' = "Clearing"
    /\ UNCHANGED <<qvars, ignoreScroll, scrollApplied, uiPtr,
                   shutdownRequested, uafRead, mForwardShortcutsToDevice>>

(* Mutant: the UI is cleared but no shutdown is requested.                 *)
ClearUiPtrNoShutdown ==
    /\ cpc = "Clearing"
    /\ uiPtr' = "Null"
    /\ cpc' = "Idle"
    /\ UNCHANGED <<qvars, ignoreScroll, scrollApplied, shutdownRequested,
                   uiMem, uafRead, mForwardShortcutsToDevice>>

(* ... then emulator->ui = NULL and qemu_system_shutdown_request(), and    *)
(* emulator_window_refresh returns.                                        *)
ClearUiPtr ==
    /\ cpc = "Clearing"
    /\ uiPtr' = "Null"
    /\ shutdownRequested' = TRUE
    /\ cpc' = "Idle"
    /\ UNCHANGED <<qvars, ignoreScroll, scrollApplied, uiMem, uafRead,
                   mForwardShortcutsToDevice>>

(* The main loop sees the shutdown request and stops; the main-loop thread *)
(* is no longer running.                                                   *)
MainLoopExit ==
    /\ cpc = "Idle"
    /\ shutdownRequested
    /\ cpc' = "Done"
    /\ UNCHANGED <<qvars, ignoreScroll, scrollApplied, uiPtr,
                   shutdownRequested, uiMem, uafRead, mForwardShortcutsToDevice>>

-----------------------------------------------------------------------------
Init ==
    /\ Q!Init
    /\ cpc = "Idle"
    /\ ignoreScroll = FALSE
    /\ scrollApplied = {}
    /\ uiPtr = "Null"
    /\ shutdownRequested = FALSE
    /\ uiMem = "None"
    /\ uafRead = FALSE
    /\ resizesAhead = <<>>
    /\ mForwardShortcutsToDevice \in BOOLEAN

QtNext ==
    \/ \E t \in Types \ {KeyDown, KeyUp, Quit} : QtQueueEvent(t)
    \/ keyPressEvent
    \/ keyReleaseEvent
    \/ closeEvent
    \/ \E index \in {0, 1} : setForwardShortcutsToDevice(index)
    \/ ServePoll

QemuNext ==
    \/ FbUpdate
    \/ FbRotate
    \/ StartDrain
    \/ Dispatch
    \/ DispatchQuit
    \/ EndDrain
    \/ FreeUi
    \/ ClearUiPtr
    \/ MainLoopExit

Next == QtNext \/ QemuNext

(* The framebuffer poll calls emulator_window_refresh periodically, the    *)
(* QEMU thread runs each step it has begun, and the Qt event loop serves   *)
(* every queued pollEvent signal.  The guest draws after boot, so the     *)
(* first framebuffer update comes; the main loop tests the shutdown       *)
(* request after every iteration, so it stops once the request is made.   *)
(* The user's handlers get no fairness.                                    *)
Spec ==
    /\ Init
    /\ [][Next]_vars
    /\ WF_vars(QemuNext) /\ WF_vars(ServePoll)

-----------------------------------------------------------------------------
(* Properties                                                              *)

TypeOK ==
    /\ Q!TypeOK
    /\ cpc \in QEMUStates
    /\ ignoreScroll \in BOOLEAN
    /\ scrollApplied \subseteq 1..MaxPush
    /\ uiPtr \in {"Set", "Null"}
    /\ shutdownRequested \in BOOLEAN
    /\ uiMem \in {"None", "Live", "Freed"}
    /\ uafRead \in BOOLEAN
    /\ resizesAhead \in Seq(SUBSET (1..MaxPush))
    /\ mForwardShortcutsToDevice \in BOOLEAN

(* Whether push k has been handed to the QEMU thread.                      *)
Polled(k) == \E i \in 1..Len(polled) : polled[i].id = k

(* Whether push k was replaced in the queue by a later push of its type.  *)
Superseded(k) ==
    /\ k <= Len(pushed)
    /\ pushed[k] \in Coalescing
    /\ ~Polled(k)
    /\ \E m \in (k + 1)..Len(pushed) : pushed[m] = pushed[k]

QuitPolled == \E i \in 1..Len(polled) : polled[i].type = Quit

QuitQueued == \E k \in 1..Len(pushed) : pushed[k] = Quit

(* Every queued event is eventually handed to skin_ui_process_events,      *)
(* unless a newer event of its coalescing type replaced it or a Quit ended *)
(* event processing: the periodic refresh and the poll round trip never    *)
(* leave an event stranded in the queue.                                   *)
EveryEventPolled ==
    \A k \in 1..MaxPush :
        (k <= Len(pushed)) ~> (Polled(k) \/ Superseded(k) \/ QuitPolled)

(* The comment in skin_ui_process_events: scroll events that the Qt     *)
(* window produces while the window is zoomed or resized "will be in the  *)
(* event queue behind the set-scale or set-zoom" and are ignored, since   *)
(* applying them may move the GL sub-window off the window.  So no scroll *)
(* event pushed while a SetScale or SetZoom was queued is ever applied by *)
(* skin_window_scroll_updated.                                             *)
ResizeScrollIgnored ==
    \A k \in scrollApplied : resizesAhead[k] = {}

(* The Qt thread never reads the SkinUI that the QEMU thread has freed     *)
(* (keyReleaseEvent against skin_ui_free in emulator_window_refresh).      *)
NoUseAfterFree == ~uafRead

(* Closing the window stops the emulator: once closeEvent has queued a     *)
(* Quit, the main-loop thread eventually stops, through the poll round    *)
(* trip, the drain's return on kEventQuit, skin_ui_free, the shutdown     *)
(* request in emulator_window_refresh and the main loop's test of it,     *)
(* whatever the user queues and the drains poll in between.                *)
QuitStopsMainLoop == QuitQueued ~> (cpc = "Done")

=============================================================================
