# TLA+ models of the emulator skin and its input pipeline

These modules model the skin subsystem of the emulator under `src/`:
- the Qt window that turns host input into skin events;
- the queue between the Qt UI thread and the QEMU main-loop thread;
- the QEMU-side dispatcher (`skin_ui_process_events`);
- the keyboard remapper;
- the layout state machine;
- the window's zoom, scale and mouse-grab logic.

Each module is checked with TLC.

## The system

| Part | Source | Thread | State |
|---|---|---|---|
| Skin event queue | `emulator-qt-window.cpp` `slot_queueEvent`, `slot_pollEvent` | Qt UI | `mSkinEventQueue` |
| Event loop | `emulator-window.c` `emulator_window_refresh`, `ui.c` `skin_ui_process_events` | QEMU | local `ignoreScroll`, `emulator->ui` |
| Keyboard | `keyboard.c` | QEMU | `enabled`, `raw_keys`, `rotation`, keycode buffer |
| Layout / key commands | `ui.c` `_skin_ui_handle_key_command`, `skin_ui_create` | QEMU | `ui->layout`, `show_trackball`, onion alpha |
| Window zoom / mouse | `emulator-qt-window.cpp` `simulateSet*`, `zoom*`, `slot_showWindow`, mouse handlers | Qt UI | `mZoomFactor`, `mInZoomMode`, `mNextIsZoom`, `mMouseGrabbed` |
| Settings page | `settings-page.cpp` constructor, `on_set_forwardShortcutsToDevice_currentIndexChanged` | Qt UI | the pull-down's index, the `QSettings` file |

How the parts interact:
- **Qt handlers push events.** They call `slot_queueEvent` on the UI thread.
  - Scroll and zoomed-resize events are coalesced: a new one replaces the first queued event of its type in place.
  - When the queue was empty, the push calls `onNewUserEvent`. Neither it nor the `userEvents` callback behind it changes queue state: the QEMU side drains from its periodic refresh.
- **The QEMU thread drains the queue.** `emulator_window_refresh` calls `skin_ui_process_events`, which polls until the queue is empty.
  - Each poll is a queued signal to the Qt thread plus a semaphore wait. The Qt thread can therefore push between two polls of one drain.
  - A `kEventQuit` ends the drain. Refresh then calls `skin_ui_free`, only afterwards sets `emulator->ui = NULL`, and requests the shutdown. Meanwhile `keyReleaseEvent` on the Qt thread reads `emulator->ui` without a lock.
  - `emulator_window_init` leaves `emulator->ui` NULL. `emulator_window_fb_update` and `emulator_window_fb_rotate` run `emulator_window_setup`, which creates the SkinUI only while `emulator->ui` is NULL.
  - The main loop tests the shutdown request after every iteration, so no refresh runs once it is made.
- **Key events are queued only when forwarded.** With the `@jide` change, `handleKeyEvent` queues a key event only while `mForwardShortcutsToDevice` is set (the settings page's pull-down).
- **Forwarding is saved and read with two defaults.** The settings page reads `FORWARD_SHORTCUTS_TO_DEVICE` with default on. The window constructor reads it with default off.
  - The page's constructor selects its entry after connecting `currentIndexChanged`. Selecting "on" therefore saves it through the same slot as a user's change.
  - The file outlives the process, so the next window reads what the page saved.
  - The tool window connects the page's signal to `setForwardShortcutsToDevice` and decides when the page is built. That code is not under `src/`.
- **Key events go to the keyboard.** A `kEventKeyDown`/`kEventKeyUp` goes to `skin_keyboard_process_event`.
  - The `@jide` region sends every positive keycode to the device as it is.
  - `convertKeyCode` only produces positive Linux codes or -1. So the rest of the remapper cannot be reached from Qt key events: arrow rotation, the modifier bracketing, NumLock, keyset commands, Ctrl-K and the allowlist.
- **Layout events change the layout.** `kEventLayoutNext`/`Prev` select the next or previous layout and pass its D-pad rotation to the keyboard and the trackball.
- **Zoom and scale make a round trip.** Zoom and scale requests travel to the QEMU side as `kEventSetZoom`/`kEventSetScale` and come back as `slot_showWindow`.
  - `mNextIsZoom` is meant to tell the show that follows a zoom apart from any other show.

## Modules

- **`EventQueue`**: the queue alone.
  - Variable: `mSkinEventQueue`.
  - History: `pushed` and `polled`.
  - An event is `[id, type, slot]`. `slot` is a ghost field: the push that first took the queue position.
  - Actions: `slot_queueEvent(t)`, `slot_pollEvent`, `slot_pollEventEmpty` (a poll of the empty queue, which changes nothing).
- **`EmulatorEventLoop`**: composes `EventQueue` (`INSTANCE`) with the two threads.
  - QEMU thread: a program counter `cpc` for `emulator_window_refresh`.
    - `StartDrain`, `Dispatch` (one turn of the `while` loop of `skin_ui_process_events`, including the `ignoreScroll` update and whether `skin_window_scroll_updated` runs), `DispatchQuit` and `EndDrain`.
    - `FreeUi` and `ClearUiPtr`, the two steps of the teardown.
    - `FbUpdate` and `FbRotate` (the creation in `emulator_window_fb_update` and `emulator_window_fb_rotate`, both through `emulator_window_setup`, which does nothing while a UI exists), enabled until the shutdown is requested, and `MainLoopExit`.
    - `Init` is the state `emulator_window_init` leaves: no UI yet.
    - The main loop is not under `src/`; `MainLoopExit` is modelled from the design: it stops once the request is made.
  - Qt thread: `QtQueueEvent`, `keyPressEvent` and `keyReleaseEvent` through `handleKeyEvent` (they queue only when forwarding is on; the release then reads the UI), `closeEvent` (queues Quit while the main-loop thread runs), `setForwardShortcutsToDevice`, and `ServePoll` (the poll slot).
  - `QtQueueEvent` lets the window queue any non-key event at any time; the zoom-state guards of `simulateSetScale`/`simulateSetZoom` are in `QtWindow`.
- **`SkinKeyboard`**: `skin_keyboard_process_event` in full, with `skin_keyboard_key_to_code` as an operator, plus `skin_keyboard_set_rotation` and creation.
  - The keycode buffer and its flush become the sequence `sent` of device key events.
  - Two pieces are not under `src/` and are modelled from the spec: `skin_keycode_rotate` and the keyset lookup.
- **`SkinUI`**: the layout state machine (`ChangeLayout` for next/prev), key dispatch to the keyboard (`INSTANCE SkinKeyboard`), and `Init` from `skin_ui_create`.
  - The `PREV` walk is a `RECURSIVE` operator. It is checked against the reference cyclic order.
- **`QtWindow`**: the Qt-side zoom, scale and mouse state.
  - `inflight` is the sequence of window events queued and not yet shown.
  - `slot_showWindow` consumes its head.
  - Zoom is counted in quarters, where 4 = 1.0.
  - `toggleFullscreen` is modelled from the spec: `skin_window_toggle_fullscreen` is not under `src/`.
  - It composes `SettingsPage` (`INSTANCE`) with the window's `mForwardShortcutsToDevice`, through these actions:
    - `OpenSettingsPage`;
    - `ChangeForwardShortcuts`, where the page's signal calls `setForwardShortcutsToDevice`;
    - `Restart`: a new process with a new window and no page, where the settings file and the history variables survive.
  - `StartProcess` is the constructor's read. The page may be built before or after it, and the model allows both.
  - History: `shownAtExit` (the page's index when the process exited) and `forwardAtStart`.
- **`SettingsPage`**: the forward-shortcuts pull-down and its saved value (`Unset`, `On`, `Off`).
  - `CtorIndex` and `CtorStore` are the constructor's selection and what it saves. A `QComboBox` emits `currentIndexChanged` only on a real change, so `setCurrentIndex(0)` on the new page saves nothing.
  - `SelectForwardShortcuts` is a user's change and its save.

The `MC*` modules and `.cfg` files give the constants. Event types are model values. Keycodes are the real `linux/input.h` values.

## Runs

| Run | Expect | Checks |
|---|---|---|
| `queue` | pass | `PollOrderIsSlotOrder`, `CoalescedIsLatest`, `NoLossNoDuplicate` (6 pushes of 4 types, 2 of them coalescing) |
| `loop` | pass | `EveryEventPolled`: under fair refresh and fair poll service, every event is polled unless it was superseded or a Quit came first. `QuitStopsMainLoop`: once a Quit is queued, the main-loop thread eventually stops, whatever the user queues and the drains poll in between |
| `loop_resize_scroll` | violation | `ResizeScrollIgnored`, the claim of the comment at `ui.c:382-388` |
| `loop_zoom_scroll` | violation | `ResizeScrollIgnored` with `kEventSetZoom` instead of `kEventSetScale` |
| `loop_use_after_free` | violation | `NoUseAfterFree` |
| `skin_ui` | pass | `LayoutCycle` (next/prev against the spec's cyclic order) on three layouts |
| `skin_ui_one_layout` | pass | `LayoutCycle` on a skin with a single rotated layout: both commands keep it |
| `skin_ui_arrows` | violation | `ArrowKeysRotated`, the spec's arrow-rotation example |
| `skin_ui_initial_rotation` | violation | `RotationFollowsInitialLayout` |
| `qt_window` | pass | `StoredMatchesPage`: while the settings page exists, the file holds the entry it shows. `RestartKeepsForwarding`: a window started after a process that showed the page forwards shortcuts exactly when the page last showed "on" |
| `qt_window_show_zoom` | violation | `ShowKnowsZoom` |
| `qt_window_button_up` | violation | `ButtonUpAfterDown` |

What the violations show (details in `PROJECT.json`, `findings`):
- **Scroll applied after all.** A scroll produced while a SetScale is queued replaces an older scroll that sits ahead of the SetScale. It is then applied.
- **Scroll after a zoom applied.** `case kEventSetZoom` never sets `ignoreScroll`, although the comment names the set-zoom too.
- **Use after free.** The Qt thread can read the SkinUI between `skin_ui_free` and `ui = NULL`.
- **Arrows not rotated.** Arrow keys reach the device unrotated because of the pass-through.
- **Initial rotation not passed on.** A rotated initial orientation never reaches the keyboard or the trackball.
- **Zoom shown as a resize.** A scale's show clears `mNextIsZoom` before the zoom's own show arrives.
- **Unmatched button up.** The click that grabs the mouse sends a button-up without a button-down.

Each property of a passing run has a mutant in `PROJECT.json`, and TLC finds every one of them violated.

## Bounds

- **Queue.** 6 pushes are enough for a coalescing event to overtake two other events and to be replaced twice.
- **Loop.** 4 pushes of key-down, key-up, scroll, scale and quit are enough:
  - for the shortest artifact scenario, scroll, scale, scroll, with a poll in between;
  - for the first UI creation, a Quit and the teardown, with events queued around it.

  The zoom run uses 2 pushes, too few for coalescing to move a scroll ahead of the SetZoom. A violation there is a scroll queued behind the zoom itself.
- **SkinUI.** It uses three layouts with rotations 0, 1 and 3:
  - the wrap in both directions;
  - a non-trivial rotation (the spec's example);
  - an initial-orientation name that matches and one that does not.

  Up to 3 device key events are sent. A second run uses one layout, the edge case of the `PREV` walk (the head's `next` is NULL).
- **QtWindow.** Zooms go up to 1.5 (6 quarters), with at most 2 window events in flight: enough for one scale and one zoom in flight at the same time.
  - The settings file starts in each of its three states.
  - Restarts are unbounded: a restart resets everything but the file and the histories.
  - The run reaches about 64,000 distinct states.

## Fairness

`EmulatorEventLoop` assumes:
- weak fairness of the QEMU thread, because the framebuffer poll calls `emulator_window_refresh` periodically and a begun drain runs on;
- weak fairness of `ServePoll`, because the Qt event loop runs every queued `pollEvent` signal;
- `MainLoopExit` is a step of the QEMU thread, so the same weak fairness covers it: once the shutdown is requested no refresh runs and it stays enabled. The main loop is not under `src/`, so this comes from the design.
- The first framebuffer update (the guest draws after boot) is also a step of that thread.

User input has no fairness.

## Not modelled

- Text input and charmap reverse mapping: the Qt window never queues `kEventTextInput`, since that code is commented out.
- Pixel sizes, focus points, and the `doResize` arithmetic with its 0.2 clamp.
- **The other settings-page controls.** These are the theme, save location, adb path, always-on-top, auto-find-adb and crash-report controls, and the focus filter.
  - Each one saves what the user picked, or re-reads a value for display.
  - None of them feeds state the models keep. Their file dialogs and message boxes are I/O.
- **The help page and the update check.** The help page shows version strings and opens URLs. Its latest-version task is a network fetch on a thread that only sets a text box. `VersionExtractor.h` is an interface with no code.
- **The first process with no saved forwarding value.** There the page shows "on" while the window stays off. This is a difference of two defaults within one process, so no passing property can state it. It is listed as a hazard, and the two settings properties show that it ends at the first restart after the page was built.
- The window sizes behind `zoomIn`/`zoomTo`'s 2x limit and `slot_requestUpdate`, and the lifetime of `mBackingSurface`: `skin_window` (not under `src/`) drives them. The stale size in the zoom limit is listed as a hazard.
- Pairing of a key's press with its release: key codes are abstracted away in `EmulatorEventLoop`. The forwarding switch between the two is listed as a hazard.
- Key commands other than the layout ones (onion alpha, trackball, fullscreen, network, the buttons), and `show_trackball`. They are reached only through keyset commands, which the pass-through makes unreachable from the Qt window. A model of them would contain actions that never fire.

- **The screenshot flow.** This covers `screenshot`, `slot_screencapFinished` and `slot_screencapPullFinished`. Its two adb processes get their outcomes from `QProcess` and adb, outside `src/`. Two hazards are listed for it:
  - a crashed capture is still pulled;
  - a second capture can overlap the previous pull.

  Both would be violations of a property. No run checks them.
- **`emulator_window_done`.** It frees the UI just as the Quit path does. Its caller, and the thread it runs on, are not under `src/`.
- **The mouse's relative motion.** This is `handleMouseEvent` and the cursor warping of `grabMouseIfNeccessary`. `skin_window`, not under `src/`, is what consumes `xrel`/`yrel`.

## Plan for later work

- Model window sizes as rationals to check the 2x zoom limit against a SetScale in flight.
- Model mouse events as queue events in `EmulatorEventLoop`.
- Add the onion and trackball commands as operators checked over bounded inputs.
- Add `doResize`/`zoomTo` arithmetic on scaled integers.
