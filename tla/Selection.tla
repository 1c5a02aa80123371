----------------------------- MODULE Selection -----------------------------
(***************************************************************************)
(* Payload discovery and selection (src/boot/mftah_uefi/loader.c):        *)
(* DiscoverPayloads enumerates the root directory of the boot volume and  *)
(* opens every file whose name ends in the payload extension;             *)
(* SelectPayload then either takes the only payload or reads a name from  *)
(* the operator (ReadChar16KeyboardInput, module LineInput) and matches it *)
(* against every discovered file, exactly or as a prefix.                 *)
(*                                                                         *)
(* A file name is a sequence of characters from a small alphabet; the     *)
(* ".CROWS" extension is the constant Suffix.  A directory entry also     *)
(* carries the size of its EFI_FILE_INFO in units of the 4 KiB buffer, so *)
(* that entries needing the EFI_BUFFER_TOO_SMALL retry can be described.  *)
(* A discovered file handle is the index of its directory entry.          *)
(***************************************************************************)
EXTENDS Naturals, Sequences, SequencesExt

CONSTANTS
    Listings,       \* root directory listings the boot volume may hold
    Suffix,         \* BootPayloadExtensionPattern, upper case
    MaxPayloads,    \* MFTAH_MAX_PAYLOADS
    MaxLength,      \* MFTAH_MAX_FILENAME_LENGTH
    Chars,          \* characters of file names and of typed input
    Keys,           \* printable characters the operator types
    UpperOf,        \* StrUpr on one character: [Chars -> Chars]
    Quit,           \* the 'q' of the quit sentinel L"q\0"
    Backspace,      \* whether the operator uses the backspace key
    DeviceFaults    \* whether firmware calls may fail in this run

VARIABLES
    Dir,            \* the root directory listing: Seq of [name, size]
    pc,             \* where DiscoverPayloads / SelectPayload is
    dirPos,         \* next directory entry VolumeHandle->Read returns
    infoSize,       \* FileInfoSize, in units of 4 KiB
    handles,        \* LoadedPayloadHandles[0 .. HandleCount-1]
    InputBuffer,    \* SelectedPayloadName
    InputLength,    \* ReadChar16KeyboardInput's InputLength
    i,              \* SelectPayload's scan index (1-based)
    partialCount,   \* PartialMatchesCount
    partialMatch,   \* PartialFileMatch (0 is NULL)
    valid,          \* IsValidSelection
    selected,       \* *PayloadFileHandle (0 is NULL)
    Name,           \* gOperatingPayload.Name: the entry it names, 0 is NULL
    FromMultiSelect \* gOperatingPayload.FromMultiSelect

vars == <<Dir, pc, dirPos, infoSize, handles, InputBuffer, InputLength, i,
          partialCount, partialMatch, valid, selected, Name, FromMultiSelect>>

LI == INSTANCE LineInput

NUL == LI!NUL

Entries == 1 .. Len(Dir)

\* StrUpr over a whole string.
UpperSeq(s) == [j \in DOMAIN s |-> UpperOf[s[j]]]

UpperChar(c) == IF c = NUL THEN NUL ELSE UpperOf[c]

\* The k-th CHAR16 (0-based) of a NUL-terminated string held as a sequence.
CharAt(s, k) == IF k < Len(s) THEN s[k + 1] ELSE NUL

\* gnu-efi StrnCmp(s1, s2, len) = 0: walk while *s1 and len, stopping at
\* the first difference; the result is 0 when len ran out, and otherwise
\* is *s1 - *s2.
RECURSIVE StrnCmpZeroFrom(_, _, _, _)
StrnCmpZeroFrom(s1, s2, k, len) ==
    IF len = 0 THEN TRUE
    ELSE IF CharAt(s1, k) = NUL \/ CharAt(s1, k) # CharAt(s2, k)
         THEN CharAt(s1, k) = CharAt(s2, k)
         ELSE StrnCmpZeroFrom(s1, s2, k + 1, len - 1)

StrnCmpZero(s1, s2, len) == StrnCmpZeroFrom(s1, s2, 0, len)

\* StrSize(name) > StrSize(pattern), and the upper-cased tail of the name
\* equals the pattern.
IsPayloadNameOrBare(n) ==
    /\ Len(n) >= Len(Suffix)
    /\ UpperSeq(SubSeq(n, Len(n) - Len(Suffix) + 1, Len(n))) = Suffix

IsPayloadName(n) ==
    /\ Len(n) > Len(Suffix)
    /\ UpperSeq(SubSeq(n, Len(n) - Len(Suffix) + 1, Len(n))) = Suffix

\* The name LibFileInfo reports for a handle, after StrUpr.
UpperName(h) == UpperSeq(Dir[h].name)

\* The exact comparison: StrnCmp(..., MFTAH_MAX_FILENAME_LENGTH).
ExactMatch(s, h) == StrnCmpZero(s, UpperName(h), MaxLength)

PartialMatchAlways(s, h, len) == TRUE

\* The partial comparison passes SelectedPayloadNameLength, which holds
\* InputLength * sizeof(CHAR16): a count of bytes, used as characters.
PartialMatch(s, h, len) ==
    StrnCmpZero(s, UpperName(h), LI!ResultingBufferLength(len))

Init ==
    /\ Dir \in Listings
    /\ pc = "discover"
    /\ dirPos = 1
    /\ infoSize = 1
    /\ handles = <<>>
    /\ InputBuffer = LI!EmptyBuffer
    /\ InputLength = 0
    /\ i = 1
    /\ partialCount = 0
    /\ partialMatch = 0
    /\ valid = FALSE
    /\ selected = 0
    /\ Name = 0
    /\ FromMultiSelect = FALSE

Scan == <<i, partialCount, partialMatch, valid, selected, Name, FromMultiSelect>>
Line == <<InputBuffer, InputLength>>

(***************************************************************************)
(* DiscoverPayloads' enumeration loop.                                     *)
(***************************************************************************)
\* EFI_BUFFER_TOO_SMALL: FileInfoSize <<= 1 and read the same entry again.
DiscoverGrowBuffer ==
    /\ pc = "discover"
    /\ UNCHANGED Dir
    /\ Len(handles) < MaxPayloads
    /\ dirPos \in Entries
    /\ Dir[dirPos].size > infoSize
    /\ infoSize' = infoSize * 2
    /\ UNCHANGED <<pc, dirPos, handles>> /\ UNCHANGED Line /\ UNCHANGED Scan

\* One entry read: a payload file is opened and appended; FileInfoSize is
\* reset to 4 KiB.
DiscoverEntry ==
    /\ pc = "discover"
    /\ UNCHANGED Dir
    /\ Len(handles) < MaxPayloads
    /\ dirPos \in Entries
    /\ Dir[dirPos].size <= infoSize
    /\ handles' = IF IsPayloadName(Dir[dirPos].name)
                  THEN Append(handles, dirPos) ELSE handles
    /\ dirPos' = dirPos + 1
    /\ infoSize' = 1
    /\ UNCHANGED pc /\ UNCHANGED Line /\ UNCHANGED Scan

\* The loop ends at the end of the listing (FileInfoSize 0) or when
\* MFTAH_MAX_PAYLOADS handles are open; SelectPayload switches on the
\* returned classification.
DiscoverClassify ==
    /\ pc = "discover"
    /\ UNCHANGED Dir
    /\ Len(handles) = MaxPayloads \/ dirPos \notin Entries
    /\ pc' = CASE Len(handles) = 0 -> "panic"
               [] Len(handles) = 1 -> "single"
               [] OTHER            -> "prompt"
    /\ UNCHANGED <<dirPos, infoSize, handles>> /\ UNCHANGED Line
    /\ UNCHANGED Scan

\* A failing Read or Open returns its status, which SelectPayload's
\* default case turns into a PANIC.
DiscoverFault ==
    /\ DeviceFaults
    /\ pc = "discover"
    /\ UNCHANGED Dir
    /\ dirPos \in Entries
    /\ pc' = "panic"
    /\ UNCHANGED <<dirPos, infoSize, handles>> /\ UNCHANGED Line
    /\ UNCHANGED Scan

(***************************************************************************)
(* SelectPayload.                                                          *)
(***************************************************************************)
\* Top of the selection loop: reset the partial-match state, then
\* ReadChar16KeyboardInput clears the buffer.
PromptSelection ==
    /\ pc = "prompt"
    /\ UNCHANGED Dir
    /\ partialCount' = 0
    /\ partialMatch' = 0
    /\ LI!Begin
    /\ pc' = "read"
    /\ UNCHANGED <<dirPos, infoSize, handles, i, valid, selected, Name,
                   FromMultiSelect>>

\* One keystroke while reading the name.
ReadKey ==
    /\ pc = "read"
    /\ UNCHANGED Dir
    /\ \/ \E c \in Keys : LI!KeyPrintable(c)
       \/ Backspace /\ LI!KeyBackspace
    /\ UNCHANGED <<pc, dirPos, infoSize, handles>> /\ UNCHANGED Scan

ReadEnter ==
    /\ pc = "read"
    /\ UNCHANGED Dir
    /\ LI!KeyEnter
    /\ pc' = "entered"
    /\ UNCHANGED <<dirPos, infoSize, handles>> /\ UNCHANGED Scan

\* ConIn Reset / WaitForEvent / ReadKeyStroke failing: PANIC either inside
\* the editor or in SelectPayload on the returned status.
ReadFault ==
    /\ DeviceFaults
    /\ pc = "read"
    /\ UNCHANGED Dir
    /\ pc' = "panic"
    /\ UNCHANGED <<dirPos, infoSize, handles>> /\ UNCHANGED Line
    /\ UNCHANGED Scan

\* An empty entry is asked again; "q" (compared before StrUpr) shuts the
\* machine down; anything else is upper-cased in place and matched.
SubmitSelection ==
    /\ pc = "entered"
    /\ UNCHANGED Dir
    /\ CASE InputLength = 0 ->
                /\ pc' = "prompt" /\ UNCHANGED Line
          [] InputLength # 0 /\ StrnCmpZero(LI!CStr(InputBuffer), <<Quit>>, 4) ->
                /\ pc' = "shutdown" /\ UNCHANGED Line
          [] InputLength # 0 /\ ~StrnCmpZero(LI!CStr(InputBuffer), <<Quit>>, 4) ->
                /\ InputBuffer' = [k \in LI!Positions |-> UpperChar(InputBuffer[k])]
                /\ pc' = "match"
                /\ UNCHANGED InputLength
    /\ i' = 1
    /\ UNCHANGED <<dirPos, infoSize, handles, partialCount, partialMatch,
                   valid, selected, Name, FromMultiSelect>>

\* One iteration of the loop over PayloadHandles: a whole-name match ends
\* the loop with a valid selection; the first partial match records the
\* handle and names the payload; a second one clears the name and ends
\* the loop.
MatchHandle ==
    /\ pc = "match"
    /\ UNCHANGED Dir
    /\ i <= Len(handles)
    /\ LET h == handles[i]
           s == LI!CStr(InputBuffer)
       IN  CASE ExactMatch(s, h) ->
                    /\ valid' = TRUE /\ selected' = h /\ pc' = "resolve"
                    /\ UNCHANGED <<i, partialCount, partialMatch, Name>>
             [] ~ExactMatch(s, h) /\ PartialMatch(s, h, InputLength)
                /\ partialCount = 0 ->
                    /\ partialCount' = 1 /\ partialMatch' = h /\ Name' = h
                    /\ i' = i + 1
                    /\ UNCHANGED <<pc, valid, selected>>
             [] ~ExactMatch(s, h) /\ PartialMatch(s, h, InputLength)
                /\ partialCount = 1 ->
                    /\ partialCount' = 2 /\ partialMatch' = h /\ Name' = 0
                    /\ pc' = "resolve"
                    /\ UNCHANGED <<i, valid, selected>>
             [] ~ExactMatch(s, h) /\ ~PartialMatch(s, h, InputLength) ->
                    /\ i' = i + 1
                    /\ UNCHANGED <<pc, partialCount, partialMatch, valid,
                                   selected, Name>>
    /\ UNCHANGED <<dirPos, infoSize, handles, FromMultiSelect>> /\ UNCHANGED Line

\* LibFileInfo returns NULL: the handle is skipped.
MatchNoFileInfo ==
    /\ DeviceFaults
    /\ pc = "match"
    /\ UNCHANGED Dir
    /\ i <= Len(handles)
    /\ i' = i + 1
    /\ UNCHANGED <<pc, dirPos, infoSize, handles, partialCount, partialMatch,
                   valid, selected, Name, FromMultiSelect>> /\ UNCHANGED Line

MatchEnd ==
    /\ pc = "match"
    /\ UNCHANGED Dir
    /\ i > Len(handles)
    /\ pc' = "resolve"
    /\ UNCHANGED <<dirPos, infoSize, handles>> /\ UNCHANGED Line
    /\ UNCHANGED Scan

\* After the loop: a single partial match becomes the selection, even when
\* the loop ended on a whole-name match of another handle.
ResolveSelection ==
    /\ pc = "resolve"
    /\ UNCHANGED Dir
    /\ LET byPartial == partialCount = 1 /\ partialMatch # 0
       IN  /\ valid' = (valid \/ byPartial)
           /\ selected' = IF byPartial THEN partialMatch ELSE selected
           /\ IF valid'
              THEN pc' = "position" /\ FromMultiSelect' = TRUE
              ELSE pc' = "prompt" /\ UNCHANGED FromMultiSelect
    /\ UNCHANGED <<dirPos, infoSize, handles, i, partialCount, partialMatch,
                   Name>> /\ UNCHANGED Line

\* EFI_SINGLE_PAYLOAD_FOUND: the only handle is taken and named.
SelectSingle ==
    /\ pc = "single"
    /\ UNCHANGED Dir
    /\ Name' = handles[1]
    /\ selected' = handles[1]
    /\ FromMultiSelect' = FALSE
    /\ pc' = "position"
    /\ UNCHANGED <<dirPos, infoSize, handles, i, partialCount, partialMatch,
                   valid>> /\ UNCHANGED Line

\* (*PayloadFileHandle)->GetPosition; a failure PANICs.
GetPosition ==
    /\ pc = "position"
    /\ UNCHANGED Dir
    /\ \/ pc' = "done"
       \/ DeviceFaults /\ pc' = "panic"
    /\ UNCHANGED <<dirPos, infoSize, handles>> /\ UNCHANGED Line
    /\ UNCHANGED Scan

Next ==
    \/ DiscoverGrowBuffer \/ DiscoverEntry \/ DiscoverClassify \/ DiscoverFault
    \/ PromptSelection \/ ReadKey \/ ReadEnter \/ ReadFault
    \/ SubmitSelection \/ MatchHandle \/ MatchNoFileInfo \/ MatchEnd
    \/ ResolveSelection \/ SelectSingle \/ GetPosition

Spec == Init /\ [][Next]_vars

(***************************************************************************)
(* Properties.                                                             *)
(***************************************************************************)
TypeOK ==
    /\ pc \in {"discover", "prompt", "read", "entered", "match", "resolve",
              "single", "position", "done", "panic", "shutdown"}
    /\ dirPos \in 1 .. (Len(Dir) + 1)
    /\ infoSize \in {1, 2}
    /\ handles \in Seq(Entries) /\ Len(handles) <= MaxPayloads
    /\ LI!TypeOK
    /\ i \in 1 .. (MaxPayloads + 1)
    /\ partialCount \in 0 .. 2
    /\ {partialMatch, selected, Name} \subseteq Entries \cup {0}
    /\ valid \in BOOLEAN /\ FromMultiSelect \in BOOLEAN

\* What the operator typed, as the editor echoed it (upper-cased by StrUpr
\* once submitted).
Echo == LI!Echoed(InputBuffer, InputLength)

Discovered == Range(handles)

\* DiscoverPayloads, once it has returned, holds a handle for every entry
\* whose name is some non-empty stem followed by the extension in any
\* case, in directory order, and for no other entry, stopping after
\* MFTAH_MAX_PAYLOADS of them; entries needing the EFI_BUFFER_TOO_SMALL
\* retry are neither skipped nor listed twice.
SpecPayloads ==
    LET all == SelectSeq([k \in Entries |-> k],
                         LAMBDA k : IsStrictSuffix(Suffix, UpperSeq(Dir[k].name)))
    IN  SubSeq(all, 1, IF Len(all) < MaxPayloads THEN Len(all) ELSE MaxPayloads)

DiscoverListsPayloads ==
    pc \notin {"discover", "panic"} => handles = SpecPayloads

\* A payload chosen from the multi-payload menu always begins with what the
\* operator sees typed: the partial comparison, reading the buffer past
\* InputLength, never selects a file the echoed text rules out.
SelectionMatchesEcho ==
    pc \in {"position", "done"} /\ FromMultiSelect
        => IsPrefix(Echo, UpperName(selected))

\* spec.md 4.5: an exact case-insensitive match of the operator's input
\* wins; otherwise a unique prefix match is selected; otherwise the input
\* is rejected and the operator asked again.  Checked at the end of each
\* pass of SelectPayload's while loop.
ExactByEcho == {h \in Discovered : UpperName(h) = Echo}
PrefixByEcho == {h \in Discovered : IsPrefix(Echo, UpperName(h))}
SpecChoice ==
    IF ExactByEcho # {} THEN ExactByEcho
    ELSE IF Cardinality(PrefixByEcho) = 1 THEN PrefixByEcho ELSE {}

SelectionPerSpec ==
    [][pc = "resolve" =>
          IF SpecChoice = {} THEN pc' = "prompt"
          ELSE pc' = "position" /\ selected' \in SpecChoice]_vars

\* An operator who types the whole name of a payload, correcting a typo
\* with backspace on the way, gets that payload: ReadChar16KeyboardInput's
\* backspace must remove the erased character from SelectedPayloadName.
EditedNameSelects ==
    [][pc = "resolve" /\ ExactByEcho # {} =>
          pc' = "position" /\ selected' \in ExactByEcho]_vars
=============================================================================
