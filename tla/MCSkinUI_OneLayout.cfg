CONSTANTS
    NoName = NoName
    ChangeLayoutNext = ChangeLayoutNext
    ChangeLayoutPrev = ChangeLayoutPrev
    NoCommand = NoCommand
    LayoutNames <- MCOneLayoutNames
    DpadRotation <- MCOneDpadRotation
    InitialNames <- MCInitialNames
    EnableTrackball = TRUE
    UseRawKeys = FALSE
    KeyCodes <- MCKeyCodes
    Mods <- MCMods
    DpadLeft <- MCDpadLeft
    DpadRight <- MCDpadRight
    DpadUp <- MCDpadUp
    DpadDown <- MCDpadDown
    AltLeft <- MCAltLeft
    AltRight <- MCAltRight
    CapLeft <- MCCapLeft
    CapRight <- MCCapRight
    Sym <- MCSym
    KeyK <- MCKeyK
    KeypadKeys <- MCKeypadKeys
    AlwaysSent <- MCAlwaysSent
    Bindings <- MCBindings
    MaxSent = 3

SPECIFICATION Spec

INVARIANT LayoutCycle
