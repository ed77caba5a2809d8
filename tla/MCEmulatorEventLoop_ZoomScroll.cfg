CONSTANTS
    KeyDown = KeyDown
    KeyUp = KeyUp
    ScrollBarChanged = ScrollBarChanged
    SetScale = SetScale
    SetZoom = SetZoom
    Quit = Quit
    Types <- MCTypesZoom
    Coalescing <- MCCoalescing
    MaxPush = 2

SPECIFICATION Spec

\* Two pushes: too few for a scroll to overtake the zoom by coalescing, so
\* a violation is a scroll queued behind the SetZoom itself.
INVARIANT ResizeScrollIgnored

\* After kEventQuit the QEMU thread frees the UI and requests shutdown: the
\* model stops there once the Qt thread has used up its pushes.
CHECK_DEADLOCK FALSE
