---------------------------- MODULE MCEventQueue ----------------------------
(* Model of the skin event queue alone: any Qt-thread push against any     *)
(* poll, with two coalescing and two plain event types.                    *)
EXTENDS EventQueue

CONSTANTS KeyDown, SetScale, ScrollBarChanged, ZoomedWindowResized

MCTypes == {KeyDown, SetScale, ScrollBarChanged, ZoomedWindowResized}
MCCoalescing == {ScrollBarChanged, ZoomedWindowResized}
=============================================================================
