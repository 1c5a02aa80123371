\* Three payloads, no firmware faults: does SelectPayload resolve typed
\* input as spec.md 4.5 describes?
CONSTANTS
    Listings <- MultiListing
    Suffix <- McSuffix
    MaxPayloads = 2
    MaxLength = 4
    Chars = {"A", "B", "C", "W", "c", "w", "q", "Q"}
    Keys = {"A", "B", "C", "W", "q"}
    UpperOf <- McUpper
    Quit = "q"
    Backspace = TRUE
    DeviceFaults = FALSE
SPECIFICATION Spec
PROPERTY EditedNameSelects
CHECK_DEADLOCK FALSE
