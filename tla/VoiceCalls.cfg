\* Two pages and two calls, with one race or one fault.
SPECIFICATION Spec
CONSTANTS
    a1 = a1
    b1 = b1
    A = A
    B = B
    Null = Null
    Devices = {a1, b1}
    Users = {A, B}
    UserOf <- OneDeviceEach
    CallIds = {1, 2}
    MaxClicks = 2
    MaxTrouble = 1
INVARIANTS MicrophoneMeansAccepted
PROPERTIES CallsAreResolved HangUpIsHeard
CHECK_DEADLOCK FALSE
