\* Three payloads, no firmware faults, input typed without corrections:
\* does SelectPayload resolve the input as spec.md 4.5 describes?
CONSTANTS
    Listings <- MultiListing
    Suffix <- McSuffix
    MaxPayloads = 2
    MaxLength = 4
    Chars = {"A", "B", "C", "W", "c", "w", "q", "Q"}
    Keys = {"A", "B", "C", "W", "q"}
    UpperOf <- McUpper
    Quit = "q"
    Backspace = FALSE
    DeviceFaults = FALSE
SPECIFICATION Spec
PROPERTY SelectionPerSpec
CHECK_DEADLOCK FALSE
