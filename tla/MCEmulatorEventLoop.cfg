CONSTANTS
    KeyDown = KeyDown
    KeyUp = KeyUp
    ScrollBarChanged = ScrollBarChanged
    SetScale = SetScale
    SetZoom = SetZoom
    Quit = Quit
    Types <- MCTypes
    Coalescing <- MCCoalescing
    MaxPush = 4

SPECIFICATION Spec

INVARIANT TypeOK
PROPERTY QuitStopsMainLoop
PROPERTY EveryEventPolled

\* After kEventQuit the QEMU thread frees the UI and requests shutdown: the
\* model stops there once the Qt thread has used up its pushes.
CHECK_DEADLOCK FALSE
