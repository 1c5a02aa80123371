# CrOwS / MFTAH loader: TLA+ models

This directory holds the TLA+ specifications that model the MFTAH UEFI loader of
this repository, the TLC configurations that check them and `PROJECT.json`, which
names for every definition the source lines it translates. It also models the
entry of the CrOwS kernel (`src/kernel/`) that the loader chain-loads.

## 1. The system

The loader (`src/boot/mftah_uefi/`) is one UEFI application. It has these parts:

| Part | Source | State | Operations |
|---|---|---|---|
| Boot flow | `main.c` `efi_main` | selected payload, password buffers, `gRamdiskImage` | select payload, password loop, load & decrypt, set EFI variables, register ramdisk, chain-load |
| Payload discovery/selection | `loader.c` | list of `*.CROWS` files, `gOperatingPayload` | `DiscoverPayloads`, `SelectPayload` |
| Line input | `input.c` | input buffer, `InputLength` | `ReadChar16KeyboardInput` (printable, backspace, enter), `Confirm` (unused) |
| Processor registry | `threading.c` | `mSystemMultiprocessingContext` (`MpList[].IsWorking`, `IsBSP`), `ThreadMutex` | `InitializeThreading`, `RefreshMPs`, `IsThreadingEnabled`, `GetThreadLimit` |
| Thread handles | `threading.c`, `mftah_uefi.h` | `MFTAH_THREAD` (`Started`, `Finished`, `AssignedProcessorNumber`, `Context`) | `CreateThread`, `StartThread`, `FinishThread`, `JoinThread`/`DestroyThread` (unused) |
| Decryption dispatch and spin | `util.c` | global `Threads[MFTAH_MAX_THREAD_COUNT]`, per-thread `CurrentPlace` | `SpawnDecryptionWorker`, `work` (AP procedure), `SaveThreadProgress`, `UefiSpin`, `PrintProgress` |
| MFTAH library | not in this repository | work orders | `decrypt()` calls the spawn hook once per order, then the spin hook |
| Kernel entry | `src/kernel/core/main.c`, `multiboot.c` | `kernel_ctx` (`kmem_base`, `kmem_len`), the Multiboot2 information block, `memmap_line` | `kmain`'s hand-off checks, `multiboot2_seek_tag`, `kinit`'s memory-map loop |
| Kernel strings and UART | `src/kernel/core/str.c`, `drivers/uart.c` | none (buffers of the caller) | `strlen`, `snprintf`, `uart_puts` |

How they interact. `efi_main` selects a payload, loops on the password, then calls
`LoadAndDecrypt`, which hands `SpawnDecryptionWorker` and `UefiSpin` to the MFTAH
library. With threading enabled, `SpawnDecryptionWorker` only *creates* a thread
in slot `thread_index`; `UefiSpin` (on the BSP) starts created threads on free
application processors (APs) through `StartThread`, sums the progress the APs
report through `SaveThreadProgress`, prints a percentage and returns when its loop
condition fails. On the AP, `work` decrypts its order and calls `FinishThread`,
which clears the processor's `IsWorking` flag and marks the thread finished.

The hard behaviours are all in the dispatch: the BSP's `StartThread` and the AP's
`FinishThread` interleave on `IsWorking` and on the thread's fields, and the BSP
polls flags the APs write. Note that `EnvironmentInitialize` has
`InitializeThreading()` commented out (`main.c:226`), so in this build threading
is off and every order is decrypted synchronously inside `SpawnDecryptionWorker`;
the models cover both builds.

The kernel receives the Multiboot2 information block in RBX. `kmain` checks the
magic, prints the block's address and checks `total_size`; `kinit` finds the
memory-map tag with `multiboot2_seek_tag`, prints the map line by line through
`snprintf` into a reused 256-byte buffer and `uart_puts`, and takes the first
free entry of at least 1 MiB above 2 MiB as its temporary memory pool, marking
it reserved.

## 2. Modules

| Module | Models | Kind |
|---|---|---|
| `DecryptJob` | what decryption promises: every non-empty order is decrypted before the spin hook returns | abstract |
| `MpDecrypt` | `SpawnDecryptionWorker`, `UefiSpin`, `StartThread`, `work`, `FinishThread`, `SaveThreadProgress`, `PrintProgress` | detailed; refines `DecryptJob` |
| `MC_MpDecrypt` | the work-order sequences the runs use | TLC instantiation |
| `LineInput` | `ReadChar16KeyboardInput`'s buffer and `InputLength` updates | component, instantiated by `Selection` and `BootFlow` |
| `Selection` | `DiscoverPayloads` and `SelectPayload` | detailed; composes `LineInput` |
| `MC_Selection` | directory listings, the alphabet and `StrUpr` | TLC instantiation |
| `BootFlow` | `efi_main` from its start to the chain-load: the watchdog call, `EnvironmentInitialize`, `GetPassword`, `CheckPassword`, `LoadAndDecrypt`, `SetEfiVarsHints`, `WrapperRegisterRamdisk`, `JumpToRamdisk` | detailed; composes `LineInput` |
| `MC_BootFlow` | payload files and file-system orders | TLC instantiation |
| `MpRegistry` | `InitializeThreading`, `RefreshMPs`, `StartThread` as two steps, `FinishThread`'s clear, `IsThreadingEnabled` | detailed |
| `MC_MpRegistry` | processor tables | TLC instantiation |
| `KernelFormat` | `strlen` and `snprintf` as recursive operators, and an ISO C reference (`StdFormat`) | pure operators |
| `Kernel` | `kmain`, `multiboot2_seek_tag`, `kinit`, with `uart_puts` as `Puts` | detailed; uses `KernelFormat` |
| `MC_Kernel` | information blocks and what the seek reads off a tag boundary | TLC instantiation |

### MpDecrypt

Constants: `NumProcs` processors numbered `0..NumProcs-1` with the BSP at
`BspNumber`; `MaxThreadCount` thread slots (`MFTAH_MAX_THREAD_COUNT`);
`WorkOrders`, the sequence of `[thread_index, length, suppress_progress]` the
library hands to the spawn hook (a length is a number of chunks); `ThreadingModes`, the set from which
`ThreadingEnabled` is chosen in `Init` (the build with `InitializeThreading`
commented out is `FALSE`).

State: `bsp` is the BSP's program counter (`dispatch` — spawning orders; `spin`,
`scan`, `mark`, `poll` — inside `UefiSpin` and `StartThread`; `done`; `panic`);
`order`, `slot`, `cand` are the loop indices of the library, of `UefiSpin` and of
`StartThread`; `Completed`, `Progress`, `Printed` are `UefiSpin`'s locals and the
last printed percentage; `IsWorking` is `MpList[].IsWorking`; `Threads` is the
global array; `CurrentPlace[k]` is the progress reported for order `k`;
`Decrypted[k]` is the chunks of order `k` actually decrypted; `ap[p]` is AP `p`'s
program counter inside `work`/`FinishThread` and the processor number it read.

Each action is one step of the code between two points where another processor
can observe a difference: `StartThreadScan` is one probe of the processor loop
(including the `StartupThisAP` call, which hands the AP its work), and
`StartThreadMark` is the later write of `IsWorking`, `Started` and
`AssignedProcessorNumber`; `FinishThreadEnter` reads `AssignedProcessorNumber`
and `FinishThreadClear` writes `IsWorking` and `Finished`. The mutex is taken as
atomic: its definition is in a header missing from the repository.

`CryptFaults` lets the crypt hook fail on an AP while part of its range is
left (`WorkCryptFails`): the order goes into `failed` and the AP stays in
`panic`, as `PANIC`'s `while (TRUE)` does, so its thread is never finished and
its processor never freed. Like the crashes of the atomic-commit examples, this
step is left out of the fairness conditions.

### LineInput and Selection

`LineInput` keeps the caller's `CHAR16` buffer as a function from
`0..MaxLength` to a small alphabet plus `NUL`, and `InputLength`. Its actions
(`Begin`, `KeyPrintable`, `KeyBackspace`, `KeyEnter`) are the branches of the
key loop; a caller conjoins one with its own program counter. `CStr` is what a
reader of the NUL-terminated buffer sees, `Echoed` what the operator saw.

`Selection` has the directory listing `Dir` (names over a small alphabet, the
`.CROWS` extension abstracted to the two-character `Suffix`), the discovery loop
(`DiscoverGrowBuffer` for `EFI_BUFFER_TOO_SMALL`, `DiscoverEntry`,
`DiscoverClassify`, the `MFTAH_MAX_PAYLOADS` cap) and the selection loop
(`PromptSelection`, `ReadKey`/`ReadEnter`, `SubmitSelection`, one `MatchHandle`
per scanned handle, `ResolveSelection`). `StrnCmp` is translated from gnu-efi
(`StrnCmpZero`), including its count in characters, which is what exposes the
byte/character mix-up at `loader.c:284`.

### BootFlow

State: `pc` (the step of `efi_main`), the selected `file` (a record of size and
key), the password buffer through `LineInput`, `PasswordLength`,
`PasswordActual`, the file position `pos`, `size`, the chunk index `i`,
`ReadBuffer` (for each buffer position, the file offset whose byte is there, or
`Junk`), `plain` (the buffer decrypted to the payload's plaintext),
`gRamdiskImageLength`, `crypto` (the files any MFTAH call was made on), and the
file-system handle order `Filesystems` with `JumpToRamdisk`'s index `k`.
Every firmware or library call that can fail is a choice in `Fails` when
`DeviceFaults` is set; `ShortReads` lets a successful `Read` return fewer bytes.
`hints` is the set of EFI variables `SetEfiVarsHints` has set: `SetHint` sets
the next of `HintNames`, `SetHintFails` is a failing `SetVariable` or
`AllocatePool` (a panic only when `EnsureHints`, i.e. `MFTAH_ENSURE_HINTS`, is
set; `HintFailureFatal`), and `HintsDone` returns. `RegisterAndLocate` is
`WrapperRegisterRamdisk`'s `HandleProtocol` and `Register` with
`JumpToRamdisk`'s three `LocateHandleBuffer` calls, each of which panics on
failure.
The run starts at `pc = "init"`: `WatchdogFails` is `ERRCHECK_UEFI` returning
from `efi_main`, and `EnvironmentInitialize` panics when the graphics or ACPI
driver, the RamDisk driver (other than `EFI_ALREADY_STARTED`) or the MFTAH
protocol factory fails. `register_hooks`' status is never read, so its result
does not change the path (see the hazard at `main.c:251`).

### MpRegistry

`Firmware` describes each processor number as the MP services protocol answers
for it (exists, is the BSP, enabled at boot, `EnableDisableAP` succeeds). The BSP
runs `InitializeThreading` step by step (`InitLocate`, `InitQuery`,
`InitEnumerate` per processor, `InitPopulate`), then alternates `RefreshMPs`
(`RefreshBegin` takes the mutex and allocates, `RefreshCopy` per entry,
`RefreshSwap` installs the list and unlocks) with `StartThread` in its two
steps: `StartupThisAP` hands the procedure to the first available entry, and
`StartThreadMark` later sets `IsWorking = TRUE` under the mutex and records
`AssignedProcessorNumber` (`assigned`). An AP's `FinishThread` clears, under the
mutex, the entry of its `AssignedProcessorNumber`: its own when the mark came
first, any processor number otherwise (the stale value). `RefreshPreservesWorking`
checks that while `RefreshMPs` copies, every entry copied so far carries the
`IsWorking` bit the installed list has, so the swap loses no clear or mark; the
firmware of the run has a missing processor number (the `EFI_NOT_FOUND` skip)
and an AP whose `EnableDisableAP` fails, so `StartupThisAP` also meets the
processors that refuse a procedure.

### KernelFormat and Kernel

`KernelFormat` takes a character as its ASCII code and a format as the sequence
of its codes. `Walk` is `snprintf`'s main loop and `Convert` its `switch`, one
case per conversion; `Copied` is the copy loop bounded by `limit`. Where the
code reads stack it never wrote, the result is a set: `HexTexts` may end in an
unknown non-NUL byte (`Garbage`, from `hex_as_str[16]`), and a negative `%d`
or a `'0'` flag with no digit after it gives `Undefined`. `StdFormat` is the
reference: what ISO C 7.21.6.1 says the same conversions produce.

`Kernel`'s constant `Infos` is the set of information blocks, each a sequence of
tags `[type, size, entries]`. `TagStart` places them as Multiboot2 does, each on
an 8-byte boundary. `HeadersAt(tags, p)` is what the seek reads at offset `p`:
the tag starting there, or, off a boundary, one of `MisreadHeaders`. State: `pc`
(`start`, `size`, `seek`, `map`, `entry`, then `badinfo`, `nomap`, `nohole` or
`running`); the seek cursor `p`; `mapTag`; the entry cursor `e`; `types`, each
entry's `Type` as `kinit` leaves it; `kmem_base` and `kmem_len`; `linebuf`, the
bytes written so far to `memmap_line`; and `printed`/`line`, the last line sent
to the UART and the format and arguments it came from. `kernel_ctx` is not
initialised in `kmain`, so `kmem_base` starts in `InitialKmemBase`: `NULL`, or
`StackGarbage`. Actions: `KmainCheckHandOff`, `KmainCheckSize`, `SeekTag` (one
iteration of the seek), `SeekNotFound`, `MapSummary`, `MapEntry` (one whole
iteration: clear, print, hole tests, reservation) and `MapDone`.

## 3. Runs

| Run | Config | Expect | Checks |
|---|---|---|---|
| `mpdecrypt_safety` | 4 processors (BSP 1), 3 slots, 3 orders of 2,1,2 chunks, threading on and off, crypt failures, weak fairness | pass | `TypeOK`; `JobRefinement` (the spin hook only returns once every order is decrypted, i.e. `MpDecrypt` implements `DecryptJob`); `HaltsOnWorkerFailure` (with the crypt hook failing on any AP, `UefiSpin` never returns once a worker failed); `ProgressNeverRegresses` (printed percentage never decreases); `Termination` (`UefiSpin` returns unless a worker failed) |
| `mpdecrypt_hang` | 2 processors (one AP), 2 orders | violation | `Termination`: the AP finishes before `StartThread` marks it working, the stale `AssignedProcessorNumber` makes `FinishThread` clear the BSP's flag, the AP stays marked working and the second thread never starts |
| `mpdecrypt_early` | 3 processors (BSP 0), 3 slots, 2 orders, no suppression | violation | `SpinTerminationPerSpec`: `UefiSpin` returns on full progress while the last thread has not run `FinishThread` (`util.c:282`; spec 4.4 requires both conditions) |
| `selection_safety` | listings with no, one and three payloads (one needing the buffer retry, one over the cap of 2), names of up to 4 characters, backspace, faults | pass | `TypeOK`; `DiscoverListsPayloads` (discovery lists exactly the payload files, in order, up to the cap); `SelectionMatchesEcho` (a menu selection always begins with what the operator saw) |
| `selection_spec` | three payloads, no backspace, no faults | violation | `SelectionPerSpec`: a unique prefix is rejected (`loader.c:284`) |
| `selection_edited` | three payloads, backspace | violation | `EditedNameSelects`: a name corrected with backspace is not found (`input.c:54`) |
| `bootflow_safety` | one or three payloads (8 bytes with a key; 5 bytes misaligned; 3 bytes too short), header and block 2, chunk 3, password of up to 2 keys of `k q b`, backspace, faults, three file-system orders | pass | `TypeOK`; `StructuralChecksPrecedeCrypto` (no MFTAH call on a file that is too short or misaligned); `BootsOnlyIntactImage` (the hand-off only happens with the whole payload, decrypted with its key, and the right length); `KeyNeverRefused` (the right password is never answered with another prompt) |
| `bootflow_shortread` | one payload, short reads, no faults | violation | `BootsOnlyIntactImage`: a short `Read` shifts the payload and it is still handed off (`main.c:509`) |
| `mpregistry_safety` | 5 processor numbers (BSP 0, APs 1 and 2 enabled, AP 3 disabled with a failing `EnableDisableAP`, number 4 missing), protocol faults | pass | `TypeOK`; `RefreshPreservesWorking` (a refresh's new list keeps every `IsWorking` bit the installed list has, whatever `StartThread` and a stale `FinishThread` do meanwhile) |
| `kernel_safety` | 7 blocks: 5 map entries with 2 suitable holes; no hole; no map; 72 bytes (under the minimum of 96); bad magic; NULL; a 9-byte command line; `kmem_base` NULL or garbage | pass | `TypeOK`; `ReservedHoleIsFirstSuitable` (only the first suitable entry is reserved, it is the pool, and "no hole" only when none is suitable); `PrintedStartsWithFormatted` (every printed line begins with ISO C's text for its format and arguments, uninitialised bytes set aside) |
| `kernel_seek` | as `safety` | violation | `SeekFindsMemoryMap`: after a 9-byte tag the seek reads padding as a header and misses the map (`multiboot.c:19`) |
| `kernel_stack` | as `safety` | violation | `HoleIsSuitable`: a non-zero stack slot for `kmem_base` makes `kinit` succeed with a garbage hole (`main.c:127`) |

Every property of a passing run has a mutant in `PROJECT.json`: a plausible
code bug (a dropped guard, a missing rewind, a missing lock, a wrong allocation
size) that TLC finds violating it.

Bounds. The BSP is numbered 1 in the safety run so that the stale processor
number 0 of a freshly created thread names a real AP: an AP that finishes early
clears AP 0's flag, and `StartThread` then offers a new thread to AP 0 while it
still runs, which the firmware refuses (`EFI_NOT_READY`) and `UefiSpin` retries.
It has as many APs as orders, because `Termination` needs that: the hang run
shows that with fewer APs than orders a stale flag can starve a thread. Orders of 1–2
chunks are enough for progress to be partly reported when the spin loop polls.
In `BootFlow`, a chunk of 3 bytes over an 8-byte file makes the last chunk
partial and the chunk boundaries differ from the block boundaries; two key
presses are enough for a wrong password, the right one, an erased character and
the `q`/`b` sentinels. In `MpRegistry`, two APs let one be busy while the other
is chosen, and let a disabled AP come before or after a usable one. In
`Kernel`, two suitable entries are what the reservation test needs (a second one
must be left alone), a too-small and a reserved entry exercise the other two
`continue`s, and entry lines of different lengths exercise the reuse of
`memmap_line`; the address `0x190000` and base `0x900000` contain a hexadecimal
digit 9, the boundary of `HexDigit`. The misread headers are the bytes the seek
really reads 17 bytes into a block after an empty command line.

Fairness. `FairSpec` assumes weak fairness of the BSP and of every AP: the BSP
runs `UefiSpin` without blocking except the 50 ms stall, and the firmware runs an
AP's procedure once `StartupThisAP` accepted it. Nothing stronger is assumed.
`Selection`, `BootFlow` and `MpRegistry` are checked for safety only, so they
assume no fairness. Their runs set `CHECK_DEADLOCK FALSE` where the program
really stops (`PANIC`, `ResetSystem`, the chain-load, the end of selection);
`MpRegistry` never stops, since the BSP can always refresh again. `Kernel` is
checked for safety only; `kmain` returns, so its run sets `CHECK_DEADLOCK FALSE`.

## 4. Findings

* `util.c:282` (`mpdecrypt_early`): `UefiSpin` returns when either the threads
  are finished or the progress is full, where spec 4.4 requires both; the last
  AP is then still in `FinishThread`, calling boot services, while the BSP
  continues the boot.
* `threading.c:322` (`mpdecrypt_hang`): `StartupThisAP` runs before the thread is
  marked started; an AP that finishes first clears the wrong flag and `UefiSpin`
  never returns.
* `loader.c:284` (`selection_spec`): `StrnCmp` gets a length in bytes, so unique
  prefixes never match.
* `input.c:54` (`selection_edited`): backspace leaves the erased character in
  the buffer.
* `main.c:509` (`bootflow_shortread`): the byte count of a chunk `Read` is not
  checked.
* `multiboot.c:19` (`kernel_seek`): the tag walk does not round sizes up to
  8 bytes, so after an odd-sized tag it reads padding as a header; the kernel
  then panics with "Missing Multiboot2 Memory Map", or loops forever.
* `main.c:127` (`kernel_stack`): `kernel_ctx` is uninitialised, and `kinit`
  tests `kmem_base` before setting it; a non-zero stack slot gives a garbage
  memory pool that `kinit` then zeroes.

Also found while modelling, and listed as hazards without a run (the project
keeps to twelve runs, and these bugs are latent while `InitializeThreading` is
commented out, or cosmetic): a missing processor number leaves a zeroed,
seemingly available entry and hides the last processor (`threading.c:147`;
`mpregistry_safety`'s firmware has such a hole, and `StartupThisAP` on the
zeroed entry fails); `UefiSpin` skips its final 100% report whenever an order
suppresses progress (`util.c:287`; `MC_MpDecrypt`'s `TwoOrdersOneQuiet` orders
make TLC find `SpinTerminationPerSpec` violated that way too); a failed
initialisation leaves threading enabled and `GetThreadLimit` wraps
(`threading.c:105`); `kinit`'s clearing loop clears one
byte, so a shorter map line is printed with the previous line's tail
(`main.c:173`); `%x` may copy an uninitialised byte after its digits
(`str.c:84`); a failed
`EnableDisableAP` leaves the AP listed as available (`threading.c:175`), and
`JumpToRamdisk` boots from the first volume with `CROWS.CANARY`, which need not
be the ramdisk (`main.c:793`).

## 5. Plan (later work)

1. Compose `MpRegistry` into `MpDecrypt` in place of its fixed initial registry.
2. `SpawnDecryptionWorker`'s busy check with two orders for one slot (the
   library that chooses the slots is not in the repository).

## 6. Not modelled

Graphics, ACPI, `uart_init`, `uart_putc` and port I/O (pure firmware or
hardware I/O; `Puts` assumes the UART initialised); the kernel's `%X` of values
at or above 2^31 and `%d` of negative numbers (beyond TLC's integers; hazards); the memory
hook adapters in `wrappers.c` (no state); the MFTAH library (not in the
repository; its work orders are the `WorkOrders` constant); `src/boot/uefi/main.c`
(incomplete, does not compile); `JoinThread`, `DestroyThread`, `GetThreadLimit`
and `Confirm`, which nothing calls; the loader-hash block of `DiscoverPayloads`,
which only prints warnings; the headers `util.h`, `acpi.h` and most of
`mftah_uefi.h`, which only declare functions and types; the contents of the hash
hints `SetEfiVarsHints` copies from NULL; memory contents and pool allocation beyond success
or failure (so `RefreshMPs`' leak on `EFI_ABORTED` is a hazard, not a run).
