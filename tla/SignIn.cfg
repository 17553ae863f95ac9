SPECIFICATION SignInSpec
CONSTANTS
    Keys = {"email", "ip"}
    Resettable = {"email", "ip"}
    EmailKey = "email"
    AddressKey = "ip"
    Limit = 1
    Window = 4
    Second = 2
    Horizon = 10
    MaxCount = 2
INVARIANTS
    AtMostTwiceTheLimit
    NothingOutlivesASweep
    ToldTheLongestWait
PROPERTIES
    WindowsDoNotStretch
