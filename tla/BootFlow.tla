----------------------------- MODULE BootFlow ------------------------------
(***************************************************************************)
(* efi_main's path from its start to the chain-load                       *)
(* (src/boot/mftah_uefi/main.c): EnvironmentInitialize, the password loop (GetPassword), the      *)
(* probe (CheckPassword), the full read and decryption (LoadAndDecrypt)    *)
(* and the hand-off (SetEfiVarsHints, WrapperRegisterRamdisk,              *)
(* JumpToRamdisk).                                                          *)
(*                                                                         *)
(* A payload file is a record [size, key]: its length in abstract bytes    *)
(* and the password its keyed check accepts.  The file's bytes are named   *)
(* by their offsets, so ReadBuffer is a function from buffer positions to  *)
(* the file offsets read into them (Junk where nothing was read).          *)
(* SelectPayload is taken as returning one discovered file, freshly        *)
(* opened at position 0 (DiscoverPayloads opens every handle anew); its    *)
(* matching loop is the Selection module.  The MFTAH library's calls are   *)
(* modelled from their use here: create_payload parses a header,           *)
(* check_password compares the password with the key when the probe read  *)
(* the real header, decrypt and get_buffer_base may fail.                  *)
(***************************************************************************)
EXTENDS Integers, Sequences, FiniteSets

CONSTANTS
    Volumes,        \* the possible sets of discovered payload files
    HeaderLen,      \* mftah_payload_header__sizeof()
    BlockLen,       \* AES_BLOCKLEN
    ChunkSize,      \* MFTAH_RAMDISK_LOAD_BLOCK_SIZE
    MaxLength,      \* MFTAH_MAX_PW_LEN
    Chars,          \* characters the operator may type
    Keys,           \* printable keys the operator presses
    Backspace,      \* whether the operator may press backspace
    DeviceFaults,   \* whether firmware and library calls may fail
    ShortReads,     \* whether a successful Read may return fewer bytes
    EnsureHints,    \* MFTAH_ENSURE_HINTS
    FsOrders        \* possible orders of the simple-file-system handles

VARIABLES
    Payloads,           \* the files DiscoverPayloads found
    pc,                 \* efi_main's position
    file,               \* PayloadFileHandle
    FromMultiSelect,    \* gOperatingPayload.FromMultiSelect
    InputBuffer,        \* efi_main's Password (CHAR16 buffer)
    InputLength,        \* the line editor's character count
    PasswordLength,     \* PasswordLength (bytes)
    PasswordActual,     \* PasswordActual (CHAR8 password accepted)
    pos,                \* the file handle's position
    size,               \* LoadAndDecrypt's ReadFileSize
    i,                  \* LoadAndDecrypt's chunk offset
    ReadBuffer,         \* LoadAndDecrypt's ReadBuffer
    plain,              \* the decrypted image is the payload's plaintext
    gRamdiskImageLength,
    crypto,             \* files handed to an MFTAH library call (history)
    hints,              \* the EFI variables SetEfiVarsHints has set
    Filesystems,        \* JumpToRamdisk's handle buffer
    k                   \* JumpToRamdisk's handle index

vars == <<Payloads, pc, file, FromMultiSelect, InputBuffer, InputLength,
          PasswordLength, PasswordActual, pos, size, i, ReadBuffer, plain,
          gRamdiskImageLength, crypto, hints, Filesystems, k>>

\* What the hand-off (SetEfiVarsHints to JumpToRamdisk) changes.
JumpVars == <<hints, Filesystems, k>>

LI == INSTANCE LineInput

\* Junk: a position nothing was read into (no file offset is negative).
Junk == -1
NoFile == [size |-> 0, key |-> <<>>]

\* InitialReadLength in CheckPassword: the header and one cipher block.
InitialReadLength == HeaderLen + BlockLen

Fails == IF DeviceFaults THEN BOOLEAN ELSE {FALSE}

\* FileSize (util.c): LibFileInfo's FileSize, or 0 when LibFileInfo fails.
FileSize(f) == {f.size} \cup (IF DeviceFaults THEN {0} ELSE {})

\* EFI_FILE_PROTOCOL.Read of n bytes at the handle's position: the number
\* of bytes it returns with EFI_SUCCESS.  Fewer than asked is normal at the
\* end of the file; fewer than available only with ShortReads.
ReadCounts(f, at, n) ==
    LET avail == IF at < f.size THEN f.size - at ELSE 0
        full  == IF n < avail THEN n ELSE avail
    IN  IF ShortReads THEN 0 .. full ELSE {full}

\* Reading got bytes at position at into the buffer at offset off.
ReadInto(buf, off, at, got) ==
    [j \in DOMAIN buf |-> IF off <= j /\ j < off + got THEN at + (j - off)
                                                       ELSE buf[j]]

\* Every buffer position holds the file byte of the same offset.
Intact(buf) == \A j \in DOMAIN buf : buf[j] = j

-----------------------------------------------------------------------------
Init ==
    /\ Payloads \in Volumes
    /\ pc = "init"
    /\ file = NoFile
    /\ FromMultiSelect = FALSE
    /\ InputBuffer = LI!EmptyBuffer
    /\ InputLength = 0
    /\ PasswordLength = 0
    /\ PasswordActual = <<>>
    /\ pos = 0
    /\ size = 0
    /\ i = 0
    /\ ReadBuffer = <<>>
    /\ plain = FALSE
    /\ gRamdiskImageLength = 0
    /\ crypto = {}
    /\ hints = {}
    /\ Filesystems \in FsOrders
    /\ k = 0

\* RDEntryPoint's result: the RamDisk driver is loaded, was already started
\* (the firmware carries one), or fails.
RamDiskStatuses == {"success", "already_started"}
                       \cup (IF DeviceFaults THEN {"error"} ELSE {})

\* ERRCHECK_UEFI(BS->SetWatchdogTimer, ...): efi_main returns its error.
WatchdogFails ==
    /\ DeviceFaults
    /\ pc = "init"
    /\ pc' = "exit"
    /\ UNCHANGED <<Payloads, file, FromMultiSelect, InputBuffer, InputLength,
                   PasswordLength, PasswordActual, pos, size, i, ReadBuffer,
                   plain, gRamdiskImageLength, crypto>>
    /\ UNCHANGED JumpVars

\* EnvironmentInitialize panics when EntryGraphics or AcpiLoadDriver fails
\* (or leaves gAcpiTableProtocol NULL), when RDEntryPoint fails with
\* anything but EFI_ALREADY_STARTED, or when the MFTAH protocol factory
\* fails.  register_hooks' status is stored and never read, so its result
\* does not change efi_main's path; EFI_ALREADY_STARTED only prints the
\* stale "Cannot initialize multiprocessing" warning.
EnvironmentPanics(graphicsFails, acpiFails, rd, factoryFails) ==
    graphicsFails \/ acpiFails \/ rd = "error" \/ factoryFails

EnvironmentInitialize ==
    /\ pc = "init"
    /\ \E g, a, f \in Fails, rd \in RamDiskStatuses :
         pc' = IF EnvironmentPanics(g, a, rd, f) THEN "panic" ELSE "select"
    /\ UNCHANGED <<Payloads, file, FromMultiSelect, InputBuffer, InputLength,
                   PasswordLength, PasswordActual, pos, size, i, ReadBuffer,
                   plain, gRamdiskImageLength, crypto>>
    /\ UNCHANGED JumpVars

\* Label__PayloadSelectionMenu: SelectPayload sets the handle and
\* FromMultiSelect (TRUE when more than one payload was discovered).
SelectPayload ==
    /\ pc = "select"
    /\ \E f \in Payloads :
         /\ file' = f
         /\ pos' = 0
    /\ FromMultiSelect' = (Cardinality(Payloads) > 1)
    /\ pc' = "password"
    /\ UNCHANGED <<Payloads, InputBuffer, InputLength, PasswordLength,
                   PasswordActual, size, i, ReadBuffer, plain,
                   gRamdiskImageLength, crypto>>
    /\ UNCHANGED JumpVars

\* GetPassword's loop head: PasswordLength = 0, ZeroMem(Password), and
\* ReadChar16KeyboardInput's reset of the buffer.
PromptPassword ==
    /\ pc = "password"
    /\ LI!Begin
    /\ pc' = "typing"
    /\ UNCHANGED <<Payloads, file, FromMultiSelect, PasswordLength,
                   PasswordActual, pos, size, i, ReadBuffer, plain,
                   gRamdiskImageLength, crypto>>
    /\ UNCHANGED JumpVars

TypeKey ==
    /\ pc = "typing"
    /\ \/ \E c \in Keys : LI!KeyPrintable(c)
       \/ Backspace /\ LI!KeyBackspace
    /\ UNCHANGED <<Payloads, pc, file, FromMultiSelect, PasswordLength,
                   PasswordActual, pos, size, i, ReadBuffer, plain,
                   gRamdiskImageLength, crypto>>
    /\ UNCHANGED JumpVars

\* A failing ReadKeyStroke (device error, unsupported, or any other error
\* returned to GetPassword) ends in PANIC.
PasswordInputFails ==
    /\ DeviceFaults
    /\ pc = "typing"
    /\ pc' = "panic"
    /\ UNCHANGED <<Payloads, file, FromMultiSelect, InputBuffer, InputLength,
                   PasswordLength, PasswordActual, pos, size, i, ReadBuffer,
                   plain, gRamdiskImageLength, crypto>>
    /\ UNCHANGED JumpVars

\* Enter ends ReadChar16KeyboardInput; GetPassword then re-prompts on an
\* empty entry, shuts down on "q", returns EFI_MENU_GO_BACK on "b" after a
\* multi-payload menu (efi_main resets the handle and reselects), and
\* otherwise returns the password and its length in bytes.  Its StrnCmp
\* against L"q\0" (or L"b\0") over 2 * sizeof(CHAR16) characters is zero
\* exactly when the NUL-terminated buffer is that one character.
\* Shutdown's ResetSystem does not return; if it does, PANIC.
SubmitPassword ==
    /\ pc = "typing"
    /\ LI!KeyEnter
    /\ LET entered == LI!CStr(InputBuffer') IN
       \/ /\ InputLength = 0
          /\ pc' = "password"
          /\ UNCHANGED <<file, pos, PasswordLength>>
       \/ /\ InputLength # 0
          /\ entered = <<"q">>
          /\ pc' \in {"reset"} \cup (IF DeviceFaults THEN {"panic"} ELSE {})
          /\ UNCHANGED <<file, pos, PasswordLength>>
       \/ /\ InputLength # 0
          /\ FromMultiSelect /\ entered = <<"b">>
          /\ pc' = "select"
          /\ file' = NoFile
          /\ pos' = 0
          /\ UNCHANGED PasswordLength
       \/ /\ InputLength # 0
          /\ entered # <<"q">>
          /\ ~(FromMultiSelect /\ entered = <<"b">>)
          /\ PasswordLength' = LI!ResultingBufferLength(InputLength)
          /\ pc' = "check"
          /\ UNCHANGED <<file, pos>>
    /\ UNCHANGED <<Payloads, FromMultiSelect, PasswordActual, size, i,
                   ReadBuffer, plain, gRamdiskImageLength, crypto>>
    /\ UNCHANGED JumpVars

-----------------------------------------------------------------------------
(* CheckPassword, one action per way out of it, each with efi_main's      *)
(* reaction: EFI_INVALID_PASSWORD asks again, any other error is PANIC.    *)

ProbeUnchanged == UNCHANGED <<Payloads, file, FromMultiSelect, InputBuffer,
                              InputLength, PasswordLength, size, i,
                              ReadBuffer, plain, gRamdiskImageLength>>

\* The size checks: too short for header and block, or not a multiple of
\* the block length, return EFI_ABORTED before anything is read.
SizeRejectedNoAlign(sz) == sz < InitialReadLength

SizeRejected(sz) == sz < InitialReadLength \/ sz % BlockLen # 0

CheckPasswordRejectsSize ==
    /\ pc = "check"
    /\ \E sz \in FileSize(file) : SizeRejected(sz)
    /\ pc' = "panic"
    /\ UNCHANGED <<PasswordActual, pos, crypto>>
    /\ ProbeUnchanged
    /\ UNCHANGED JumpVars

ProbeNoRewind(got) == pos' = pos + got

\* SetPosition(0) after the probe's Read.
ProbeRewind(got) == pos' = 0

\* Past the size checks: Read of header and block (an error or a short
\* count ends in EFI_END_OF_FILE), SetPosition(0), create_payload, the
\* CHAR16 to CHAR8 narrowing of PassLen / 2 characters, check_password.
\* check_password accepts exactly the payload's key when the probe read
\* the real header; on other bytes its verdict is either failure.
CheckPasswordProbe ==
    /\ pc = "check"
    /\ \E sz \in FileSize(file) :
         ~SizeRejected(sz)
    /\ \E readFails \in Fails, got \in ReadCounts(file, pos, InitialReadLength),
          setPosFails \in Fails, createFails \in Fails :
         LET password == LI!Echoed(InputBuffer, PasswordLength \div 2)
             realHeader == pos = 0
         IN
         \/ /\ readFails \/ got # InitialReadLength
            /\ pos' = pos + (IF readFails THEN 0 ELSE got)
            /\ pc' = "panic"
            /\ UNCHANGED <<PasswordActual, crypto>>
         \/ /\ ~readFails /\ got = InitialReadLength
            /\ setPosFails
            /\ pos' = pos + got
            /\ pc' = "panic"
            /\ UNCHANGED <<PasswordActual, crypto>>
         \/ /\ ~readFails /\ got = InitialReadLength /\ ~setPosFails
            /\ ProbeRewind(got)
            /\ crypto' = crypto \cup {file}
            /\ \/ createFails /\ pc' = "panic" /\ UNCHANGED PasswordActual
               \/ /\ ~createFails
                  /\ \/ realHeader /\ password = file.key
                        /\ PasswordActual' = password
                        /\ pc' = "load"
                     \/ realHeader /\ password # file.key
                        /\ pc' = "password"
                        /\ UNCHANGED PasswordActual
                     \/ ~realHeader
                        /\ pc' \in {"password", "panic"}
                        /\ UNCHANGED PasswordActual
    /\ ProbeUnchanged
    /\ UNCHANGED JumpVars

-----------------------------------------------------------------------------
(* LoadAndDecrypt.                                                         *)

LoadUnchanged == UNCHANGED <<Payloads, file, FromMultiSelect, InputBuffer,
                             InputLength, PasswordLength, PasswordActual>>

\* FileSize again, the alignment check (EFI_ABORTED, so PANIC in efi_main)
\* and AllocatePool of ReadFileSize bytes, whose contents are not zeroed;
\* a failed allocation is PANIC.
LoadBegin ==
    /\ pc = "load"
    /\ \E sz \in FileSize(file), allocFails \in Fails :
         /\ size' = sz
         /\ ReadBuffer' = [j \in 0 .. (sz - 1) |-> Junk]
         /\ pc' = IF sz % BlockLen # 0 \/ allocFails THEN "panic" ELSE "chunk"
    /\ i' = 0
    /\ UNCHANGED <<pos, plain, gRamdiskImageLength, crypto>>
    /\ LoadUnchanged
    /\ UNCHANGED JumpVars

\* One pass of `for (i = 0; i < ReadFileSize; i += BLOCK_SIZE)`: Read of
\* FileChunkSize bytes into ReadBuffer + i.  An error frees the buffer and
\* returns it (PANIC); the count Read returns is not looked at.
LoadChunk ==
    /\ pc = "chunk"
    /\ i < size
    /\ \E got \in ReadCounts(file, pos, ChunkSize) :
         /\ ReadBuffer' = ReadInto(ReadBuffer, i, pos, got)
         /\ pos' = pos + got
    /\ i' = i + ChunkSize
    /\ UNCHANGED <<pc, size, plain, gRamdiskImageLength, crypto>>
    /\ LoadUnchanged
    /\ UNCHANGED JumpVars

LoadChunkFails ==
    /\ DeviceFaults
    /\ pc = "chunk"
    /\ i < size
    /\ pc' = "panic"
    /\ UNCHANGED <<i, pos, ReadBuffer, size, plain, gRamdiskImageLength,
                   crypto>>
    /\ LoadUnchanged
    /\ UNCHANGED JumpVars

LoadAndDecryptFailsNoDecryptCheck(createFails, decryptFails, baseFails) ==
    size < InitialReadLength \/ createFails \/ baseFails

\* The error returns of LoadAndDecrypt after the loop.
LoadAndDecryptFails(createFails, decryptFails, baseFails) ==
    size < InitialReadLength \/ createFails \/ decryptFails \/ baseFails

\* After the loop: create_hash (a failure is only a warning),
\* create_payload over ReadFileSize bytes (it cannot parse fewer than a
\* header and a block), decrypt with the spawn and spin hooks, and
\* get_buffer_base; gRamdiskImageLength is read from the decrypted header.
\* efi_main PANICs on any error or a zero length, and otherwise clears
\* Password and PasswordActual and leaves the loop.
LoadFinish ==
    /\ pc = "chunk"
    /\ i >= size
    /\ crypto' = crypto \cup {file}
    /\ \E createFails \in Fails, decryptFails \in Fails, baseFails \in Fails :
       \/ /\ LoadAndDecryptFails(createFails, decryptFails, baseFails)
          /\ pc' = "panic"
          /\ UNCHANGED <<InputBuffer, PasswordActual, plain,
                         gRamdiskImageLength>>
       \/ /\ ~LoadAndDecryptFails(createFails, decryptFails, baseFails)
          /\ plain' = (Intact(ReadBuffer) /\ PasswordActual = file.key
                        /\ ~decryptFails)
          \* a header decrypted with another key holds any length
          /\ gRamdiskImageLength' \in
                {size - HeaderLen} \cup (IF plain' THEN {} ELSE {0})
          /\ IF gRamdiskImageLength' = 0
               THEN /\ pc' = "panic"
                    /\ UNCHANGED <<InputBuffer, PasswordActual>>
               ELSE /\ pc' = "hints"
                    /\ InputBuffer' = LI!EmptyBuffer
                    /\ PasswordActual' = <<>>
    /\ UNCHANGED <<Payloads, file, FromMultiSelect, InputLength,
                   PasswordLength, pos, size, i, ReadBuffer>>
    /\ UNCHANGED JumpVars

\* The variables SetEfiVarsHints sets, in its order.
HintNames == <<"__MFTAH_RDBASE", "__MFTAH_RDSIZE", "__MFTAH_LOADER_HASH",
               "__MFTAH_PAYLOAD_HASH">>

HintUnchanged == UNCHANGED <<pos, size, i, ReadBuffer, plain,
                             gRamdiskImageLength, crypto, PasswordActual,
                             Filesystems, k>>

\* efi_main's test of SetEfiVarsHints' status, compiled in only with
\* MFTAH_ENSURE_HINTS == 1.
HintFailureFatal == EnsureHints

\* One SetVariable of SetEfiVarsHints (for the two hashes, after its
\* AllocatePool of the copy).
SetHint ==
    /\ pc = "hints"
    /\ Cardinality(hints) < Len(HintNames)
    /\ hints' = hints \cup {HintNames[Cardinality(hints) + 1]}
    /\ UNCHANGED pc
    /\ HintUnchanged
    /\ LoadUnchanged

\* A SetVariable or AllocatePool fails: SetEfiVarsHints returns at once,
\* leaving the variables set so far, and efi_main panics only when the
\* check is compiled in; otherwise it goes on to register the ramdisk.
SetHintFails ==
    /\ DeviceFaults
    /\ pc = "hints"
    /\ Cardinality(hints) < Len(HintNames)
    /\ pc' = IF HintFailureFatal THEN "panic" ELSE "register"
    /\ UNCHANGED hints
    /\ HintUnchanged
    /\ LoadUnchanged

HintsDone ==
    /\ pc = "hints"
    /\ Cardinality(hints) = Len(HintNames)
    /\ pc' = "register"
    /\ UNCHANGED hints
    /\ HintUnchanged
    /\ LoadUnchanged

\* WrapperRegisterRamdisk: HandleProtocol(gImageHandle, RamDisk) and
\* Register; either failing is returned and efi_main panics.  Then
\* JumpToRamdisk's three LocateHandleBuffer calls (Block I/O, Disk I/O,
\* simple file system), whose failure is likewise PANIC.
RegisterAndLocate ==
    /\ pc = "register"
    /\ \E registerFails \in Fails, locateFails \in Fails :
         pc' = IF registerFails \/ locateFails THEN "panic" ELSE "jump"
    /\ k' = 1
    /\ UNCHANGED <<pos, size, i, ReadBuffer, plain, gRamdiskImageLength,
                   crypto, PasswordActual, hints, Filesystems>>
    /\ LoadUnchanged

\* What StartImage of the chain-load target does: it keeps the machine, or
\* exits with EFI_SUCCESS, or with an error.
ImageOutcomes == {"runs", "exits"} \cup (IF DeviceFaults THEN {"fails"} ELSE {})

\* One pass of JumpToRamdisk's loop over simple-file-system handles:
\* HandleProtocol and OpenVolume, Open of CROWS.CANARY at the root; on
\* EFI_NOT_FOUND the root is closed and the next handle tried, on another
\* error it returns; where the canary is found it loads and starts
\* EFI\BOOT\BOOTX64.EFI from that handle.  A started image that exits
\* with success lets the loop go on.
JumpScan ==
    /\ pc = "jump"
    /\ k <= Len(Filesystems)
    /\ \E openFails \in Fails, loadFails \in Fails, outcome \in ImageOutcomes :
         LET fs == Filesystems[k] IN
         \/ /\ openFails \/ fs.canary = "error"
            /\ pc' = "panic" /\ UNCHANGED k
         \/ /\ ~openFails /\ fs.canary = "absent"
            /\ k' = k + 1 /\ UNCHANGED pc
         \/ /\ ~openFails /\ fs.canary = "found"
            /\ \/ loadFails /\ pc' = "panic" /\ UNCHANGED k
               \/ ~loadFails /\ outcome = "runs" /\ pc' = "booted" /\ UNCHANGED k
               \/ ~loadFails /\ outcome = "exits" /\ k' = k + 1 /\ UNCHANGED pc
               \/ ~loadFails /\ outcome = "fails" /\ pc' = "panic" /\ UNCHANGED k
    /\ UNCHANGED <<pos, size, i, ReadBuffer, plain, gRamdiskImageLength,
                   crypto, PasswordActual, hints, Filesystems>>
    /\ LoadUnchanged

\* No handle carried the canary: JumpToRamdisk returns EFI_SUCCESS and
\* efi_main warns "No bootable device was found", waits for a key and
\* returns EFI_SUCCESS to the firmware.
JumpNoCanary ==
    /\ pc = "jump"
    /\ k > Len(Filesystems)
    /\ pc' = "exit"
    /\ UNCHANGED <<pos, size, i, ReadBuffer, plain, gRamdiskImageLength,
                   crypto, PasswordActual, JumpVars>>
    /\ LoadUnchanged

Next ==
    \/ WatchdogFails \/ EnvironmentInitialize
    \/ SelectPayload \/ PromptPassword \/ TypeKey \/ PasswordInputFails
    \/ SubmitPassword \/ CheckPasswordRejectsSize \/ CheckPasswordProbe
    \/ LoadBegin \/ LoadChunk \/ LoadChunkFails \/ LoadFinish
    \/ SetHint \/ SetHintFails \/ HintsDone \/ RegisterAndLocate
    \/ JumpScan \/ JumpNoCanary

Spec == Init /\ [][Next]_vars

(***************************************************************************)
(* Properties.                                                             *)
(***************************************************************************)
Files == UNION Volumes
Offsets == 0 .. (CHOOSE m \in {f.size : f \in Files} :
                     \A f \in Files : f.size <= m)

TypeOK ==
    /\ Payloads \in Volumes
    /\ pc \in {"init", "select", "password", "typing", "check", "load", "chunk",
               "hints", "register", "jump", "booted", "exit", "reset", "panic"}
    /\ file \in Payloads \cup {NoFile}
    /\ FromMultiSelect \in BOOLEAN
    /\ LI!TypeOK
    /\ PasswordLength \in 0 .. (2 * MaxLength)
    /\ PasswordActual \in UNION {[1 .. n -> Chars] : n \in 0 .. MaxLength}
    /\ pos \in Offsets
    /\ size \in Offsets
    /\ i \in 0 .. (size + ChunkSize)
    /\ ReadBuffer \in [0 .. (size - 1) -> {Junk} \cup Offsets]
    /\ plain \in BOOLEAN
    /\ gRamdiskImageLength \in Offsets
    /\ crypto \subseteq Payloads
    /\ hints \subseteq {HintNames[n] : n \in DOMAIN HintNames}
    /\ Filesystems \in FsOrders
    /\ k \in 0 .. (Len(Filesystems) + 1)

\* Spec 4.6 and 8: a payload whose length is below header plus one block,
\* or not a multiple of the block length, is rejected before any MFTAH
\* call (create_payload, check_password, decrypt) is made on it, by
\* CheckPassword's size checks or LoadAndDecrypt's.
StructuralChecksPrecedeCrypto ==
    \A f \in crypto : f.size >= InitialReadLength /\ f.size % BlockLen = 0

\* Spec 7: the loader hands off only the payload's plaintext: every byte
\* of ReadBuffer was read from its own offset of the file, decryption ran
\* with the key check_password accepted and succeeded, and the length
\* handed off is the header's.  This ties together the probe's
\* SetPosition(0), the chunk loop and the checks of decrypt's result.
BootsOnlyIntactImage ==
    pc = "booted" => plain /\ gRamdiskImageLength = file.size - HeaderLen

\* Spec 4.6 and 7: a wrong password only costs another prompt; the
\* payload's key, whenever it is submitted (after any number of failed
\* attempts on this handle), is never answered with another prompt.
KeyNeverRefused ==
    [][pc = "check" /\ LI!Echoed(InputBuffer, PasswordLength \div 2) = file.key
         => pc' \in {"load", "panic"}]_vars
=============================================================================
