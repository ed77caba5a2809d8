CONSTANTS
    KeyDown = KeyDown
    SetScale = SetScale
    ScrollBarChanged = ScrollBarChanged
    ZoomedWindowResized = ZoomedWindowResized
    Types <- MCTypes
    Coalescing <- MCCoalescing
    MaxPush = 6

SPECIFICATION Spec

INVARIANT TypeOK
INVARIANT PollOrderIsSlotOrder
INVARIANT CoalescedIsLatest
INVARIANT NoLossNoDuplicate

