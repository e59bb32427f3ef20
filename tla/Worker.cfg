CONSTANTS
    Emulators = 2
    Pictures <- Frames
    Dark = "dark"
    Versions = 2
    Intro = {TRUE, FALSE}
SPECIFICATION WorkerSpec
INVARIANTS ScreenCurrent Joined
PROPERTY Retires
CHECK_DEADLOCK FALSE
