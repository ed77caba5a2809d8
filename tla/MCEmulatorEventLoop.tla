------------------------ MODULE MCEmulatorEventLoop ------------------------
(* The event loop with one event type of each kind the QEMU thread treats *)
(* differently: a key event, the coalescing scroll event, the scale event *)
(* that starts ignoring scrolls, and Quit.                                 *)
EXTENDS EmulatorEventLoop

MCTypes == {KeyDown, KeyUp, ScrollBarChanged, SetScale, Quit}
MCCoalescing == {ScrollBarChanged}

(* The same with kEventSetZoom in place of kEventSetScale. *)
MCTypesZoom == {KeyDown, KeyUp, ScrollBarChanged, SetZoom, Quit}
=============================================================================
