\* Every listing (none, one, several payloads), firmware faults enabled.
\* The run stops in done, panic or shutdown: SelectPayload returns, PANICs
\* or shuts the machine down.
CONSTANTS
    Listings <- AllListings
    Suffix <- McSuffix
    MaxPayloads = 2
    MaxLength = 4
    Chars = {"A", "B", "C", "W", "c", "w", "q", "Q"}
    Keys = {"A", "B", "C", "W", "q"}
    UpperOf <- McUpper
    Quit = "q"
    Backspace = TRUE
    DeviceFaults = TRUE
SPECIFICATION Spec
INVARIANT TypeOK
INVARIANT DiscoverListsPayloads
INVARIANT SelectionMatchesEcho
CHECK_DEADLOCK FALSE
