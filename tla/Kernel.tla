------------------------------- MODULE Kernel -------------------------------
(***************************************************************************)
(* The CrOwS kernel's entry (src/kernel/core/main.c kmain and kinit, and  *)
(* multiboot2_seek_tag in multiboot.c): the Multiboot2 hand-off checks,   *)
(* the walk over the information block's tags for the memory map, the    *)
(* printing of the map through snprintf and uart_puts, and the choice of  *)
(* a temporary memory hole.                                               *)
(*                                                                         *)
(* The information block is a sequence of tags, each [type, size,        *)
(* entries]; as Multiboot2 lays them out, every tag starts at an offset  *)
(* that is a multiple of 8.  The seek reads a tag header at whatever      *)
(* offset it reaches: at a tag start it reads that tag, elsewhere it      *)
(* reads padding or payload bytes, a choice among MisreadHeaders.         *)
(* Output lines are sequences of ASCII codes (module KernelFormat); the   *)
(* fixed text of each format string is shortened to a few characters.   *)
(* kmain's kernel_ctx is an uninitialised stack variable: kinit never     *)
(* sets kmem_base before testing it, so its first value is a choice.     *)
(***************************************************************************)
EXTENDS Integers, Sequences, SequencesExt, KernelFormat

CONSTANTS
    Infos,            \* information blocks the loader may pass
    InfoAddr,         \* the physical address in RBX
    MinInfoSize,      \* expected_minimum_multiboot_info_size
    MisreadHeaders,   \* [type, size] read off a tag boundary
    InitialKmemBase   \* what kernel_ctx.kmem_base holds before kinit

MbiMemoryMap == 6     \* MBI_MEMORY_MAP
EntrySize == 24       \* sizeof(multiboot_memory_map_entry)
MapHeaderSize == 16   \* sizeof(multiboot_info_tag_memory_map)
InfoHeaderSize == 8   \* sizeof(multiboot_info_header)
TwoMiB == 2097152     \* 0x200000
OneMiB == 1048576     \* 0x100000
Null == 0
LineLimit == 256      \* char memmap_line[256]
MessageLimit == 128   \* char message[128]

\* kernel_ctx.kmem_base / kmem_len before kinit writes them: an unknown
\* value, not NULL (addresses and lengths are otherwise non-negative).
StackGarbage == -2

ASSUME \A h \in MisreadHeaders : h.type # MbiMemoryMap

\* A memory-map tag's size covers its header and its entries.
ASSUME \A i \in Infos : \A t \in Range(i.tags) :
           t.type = MbiMemoryMap => t.size = MapHeaderSize + EntrySize * Len(t.entries)

\* Tags are padded to a multiple of 8 bytes.
Pad8(n) == ((n + 7) \div 8) * 8

\* The offset of tag k from the start of the block, and total_size.
TagStart(tags, k) == InfoHeaderSize + FoldLeft(LAMBDA acc, t : acc + Pad8(t.size), 0, SubSeq(tags, 1, k - 1))
TotalSize(tags) == TagStart(tags, Len(tags) + 1)

\* The headers a read at offset p can return.
HeadersAt(tags, p) ==
    IF \E k \in DOMAIN tags : TagStart(tags, k) = p
    THEN {[type |-> tags[k].type, size |-> tags[k].size, tag |-> k] :
             k \in {j \in DOMAIN tags : TagStart(tags, j) = p}}
    ELSE {[type |-> r.type, size |-> r.size, tag |-> 0] : r \in MisreadHeaders}

\* The format strings, with the fixed text shortened: "G 0x%X", "M %u %u",
\* " B 0x%X L 0x%X T %d", "U 0x%X".
FmtInfoAddress == <<71, 32, 48, 120, Pct, ConvUpperX>>
FmtMapHeader == <<77, 32, Pct, ConvU, 32, Pct, ConvU>>
FmtMapEntry == <<32, 66, 32, 48, 120, Pct, ConvUpperX, 32, 76, 32, 48, 120, Pct, ConvUpperX,
                 32, 84, 32, Pct, ConvD>>
FmtHole == <<85, 32, 48, 120, Pct, ConvUpperX>>

\* Whether an entry may hold the temporary pool.
Suitable(entry) ==
    /\ entry.Base >= TwoMiB
    /\ entry.Type = 1
    /\ entry.Length >= OneMiB

VARIABLES
    pc,           \* where kmain / kinit is
    info,         \* the information block at RBX
    p,            \* multiboot2_seek_tag's cursor (offset in the block)
    mapTag,       \* the index of the tag returned as the memory map
    e,            \* kinit's entry cursor (1-based)
    types,        \* entry->Type of each map entry, as kinit leaves it
    kmem_base,    \* kernel_ctx->kmem_base
    kmem_len,     \* kernel_ctx->kmem_len
    linebuf,      \* memmap_line: the bytes written so far (beyond: garbage)
    printed,      \* the last line uart_puts sent
    line          \* the format and arguments of that line

vars == <<pc, info, p, mapTag, e, types, kmem_base, kmem_len, linebuf, printed, line>>

MapEntries == info.tags[mapTag].entries

\* A kinit bug would be to test only the entry, not whether a hole was
\* already taken.
ClaimsAnySuitable(entry) == Suitable(entry)

\* The entry becomes the hole: no hole yet (line 179) and the entry
\* passes the tests of lines 182 and 185.
Claims(entry) == kmem_base = Null /\ Suitable(entry)

\* What uart_puts sends for a buffer whose written bytes are buf and whose
\* following bytes were never written: up to the first NUL, and possibly
\* garbage after the written bytes.
Puts(buf) ==
    IF \E k \in DOMAIN buf : buf[k] = Nul
    THEN {SubSeq(buf, 1, Strlen(buf))}
    ELSE {buf, buf \o <<Garbage>>}

\* snprintf's bytes written over the start of buf.
Overwrite(buf, out) == out \o SubSeq(buf, Len(out) + 1, Len(buf))

\* snprintf into a fresh stack or pool buffer, then uart_puts.
PrintFresh(limit, fmt, args) ==
    \E o \in Snprintf(limit, fmt, args) :
        /\ printed' \in Puts(o.str)
        /\ line' = [fmt |-> fmt, args |-> args]

\* snprintf into memmap_line, then uart_puts(memmap_line).
PrintLine(buf, fmt, args) ==
    \E o \in Snprintf(LineLimit, fmt, args) :
        /\ linebuf' = Overwrite(buf, o.str)
        /\ printed' \in Puts(linebuf')
        /\ line' = [fmt |-> fmt, args |-> args]

\* The clearing loop before each entry line: for (i = 0; i < strlen(..);
\* ++i) memmap_line[i] = 0.  strlen is 0 after the first store, so only
\* the first byte is cleared.
ClearFirst(buf) == IF buf = <<>> THEN <<Nul>> ELSE [buf EXCEPT ![1] = Nul]

Init ==
    /\ pc = "start"
    /\ info \in Infos
    /\ p = 0
    /\ mapTag = 0
    /\ e = 0
    /\ types = <<>>
    /\ kmem_base \in InitialKmemBase
    /\ kmem_len = StackGarbage
    /\ linebuf = <<>>
    /\ printed = <<>>
    /\ line = [fmt |-> <<>>, args |-> <<>>]

-----------------------------------------------------------------------------

\* kmain: the magic in EAX and a non-NULL RBX, then the address line.
KmainCheckHandOff ==
    /\ pc = "start"
    /\ IF info.magic /\ info.addr
       THEN /\ PrintFresh(MessageLimit, FmtInfoAddress, <<InfoAddr>>)
            /\ pc' = "size"
       ELSE /\ pc' = "badinfo"
            /\ UNCHANGED <<printed, line>>
    /\ UNCHANGED <<info, p, mapTag, e, types, kmem_base, kmem_len, linebuf>>

\* kmain: total_size against the minimum; kinit's NULL check; the seek
\* starts after the block header.
KmainCheckSize ==
    /\ pc = "size"
    /\ IF TotalSize(info.tags) < MinInfoSize
       THEN pc' = "badinfo" /\ UNCHANGED p
       ELSE pc' = "seek" /\ p' = InfoHeaderSize
    /\ UNCHANGED <<info, mapTag, e, types, kmem_base, kmem_len, linebuf, printed, line>>

\* multiboot2_seek_tag: one iteration; a header of another type advances p
\* by its size field, unrounded.
SeekTag ==
    /\ pc = "seek"
    /\ p < TotalSize(info.tags)
    /\ \E h \in HeadersAt(info.tags, p) :
         IF h.type = MbiMemoryMap
         THEN pc' = "map" /\ mapTag' = h.tag /\ UNCHANGED p
         ELSE p' = p + h.size /\ UNCHANGED <<pc, mapTag>>
    /\ UNCHANGED <<info, e, types, kmem_base, kmem_len, linebuf, printed, line>>

\* The seek runs off the block: NULL, "Missing Multiboot2 Memory Map", -1.
SeekNotFound ==
    /\ pc = "seek"
    /\ p >= TotalSize(info.tags)
    /\ pc' = "nomap"
    /\ UNCHANGED <<info, p, mapTag, e, types, kmem_base, kmem_len, linebuf, printed, line>>

\* kinit: the map's summary line (size and size / EntrySize).
MapSummary ==
    /\ pc = "map"
    /\ LET size == info.tags[mapTag].size
       IN  PrintLine(linebuf, FmtMapHeader, <<size, size \div EntrySize>>)
    /\ types' = [j \in DOMAIN MapEntries |-> MapEntries[j].Type]
    /\ e' = 1
    /\ pc' = "entry"
    /\ UNCHANGED <<info, p, mapTag, kmem_base, kmem_len>>

\* One iteration of kinit's loop over the entries: clear, print, then the
\* hole tests, each a continue.
MapEntry ==
    /\ pc = "entry"
    /\ e <= Len(MapEntries)
    /\ LET entry == [MapEntries[e] EXCEPT !.Type = types[e]]
       IN  /\ PrintLine(ClearFirst(linebuf), FmtMapEntry, <<entry.Base, entry.Length, entry.Type>>)
           /\ IF Claims(entry)
              THEN /\ kmem_base' = entry.Base
                   /\ kmem_len' = entry.Length
                   /\ types' = [types EXCEPT ![e] = 2]
              ELSE UNCHANGED <<kmem_base, kmem_len, types>>
    /\ e' = e + 1
    /\ UNCHANGED <<pc, info, p, mapTag>>

\* After the loop: no hole is -1; otherwise the hole's line is printed
\* into the hole itself and the hole is zeroed, and kinit returns 0.  With
\* kmem_base still the stack's garbage, that address is printed and used.
MapDone ==
    /\ pc = "entry"
    /\ e > Len(MapEntries)
    /\ IF kmem_base = Null
       THEN pc' = "nohole" /\ UNCHANGED <<printed, line>>
       ELSE /\ pc' = "running"
            /\ IF kmem_base = StackGarbage
               THEN printed' = <<Garbage>> /\ line' = [fmt |-> FmtHole, args |-> <<>>]
               ELSE PrintFresh(kmem_len, FmtHole, <<kmem_base>>)
    /\ UNCHANGED <<info, p, mapTag, e, types, kmem_base, kmem_len, linebuf>>

Next ==
    \/ KmainCheckHandOff
    \/ KmainCheckSize
    \/ SeekTag
    \/ SeekNotFound
    \/ MapSummary
    \/ MapEntry
    \/ MapDone

Spec == Init /\ [][Next]_vars
-----------------------------------------------------------------------------

TypeOK ==
    /\ pc \in {"start", "size", "seek", "map", "entry", "badinfo", "nomap", "nohole", "running"}
    /\ info \in Infos
    /\ p \in Nat
    /\ mapTag \in 0 .. Len(info.tags)
    /\ e \in Nat
    /\ kmem_base \in {StackGarbage} \cup Nat
    /\ kmem_len \in {StackGarbage} \cup Nat
    /\ \A k \in DOMAIN linebuf : linebuf[k] \in Byte \cup {Garbage}
    /\ \A k \in DOMAIN printed : printed[k] \in Byte \cup {Garbage}

\* The entries kinit may take as its hole, by index.
SuitableEntries == {j \in DOMAIN MapEntries : Suitable(MapEntries[j])}

\* kinit takes the FIRST suitable entry of the memory map and no other:
\* once the loop is under way, the only entry whose Type it has changed to
\* reserved is the first suitable one, kmem_base and kmem_len are that
\* entry's, and it reports no hole only when the map has none.  The test
\* at main.c:179 of a hole already taken is what keeps the later entries.
ReservedHoleIsFirstSuitable ==
    pc \in {"entry", "nohole", "running"} =>
        LET reserved == {j \in DOMAIN types : types[j] # MapEntries[j].Type}
        IN  /\ \A j \in reserved :
                 /\ j \in SuitableEntries
                 /\ \A k \in SuitableEntries : j <= k
                 /\ kmem_base = MapEntries[j].Base
                 /\ kmem_len = MapEntries[j].Length
            /\ pc = "nohole" => SuitableEntries = {}

\* Every line the kernel prints with numeric arguments begins with the text
\* ISO C's snprintf gives for its format and arguments, once the bytes
\* read from uninitialised stack are set aside: str.c's digit loops and
\* copy loop, and kinit's reuse of memmap_line after clearing only its
\* first byte, leave each number's digits whole and in place.
PrintedStartsWithFormatted ==
    (line.args # <<>> /\ \A k \in DOMAIN line.args : line.args[k] >= 0) =>
        IsPrefix(StdFormat(line.fmt, line.args), Remove(printed, Garbage))

\* Once kinit returns 0, kmem_base is the base of a suitable entry of the
\* memory map (the comment at main.c:178 and the message at main.c:196).
HoleIsSuitable ==
    pc = "running" => \E j \in SuitableEntries : kmem_base = MapEntries[j].Base

\* multiboot2_seek_tag reports no memory map only when the information
\* block has no memory-map tag.
SeekFindsMemoryMap ==
    pc = "nomap" => \A t \in Range(info.tags) : t.type # MbiMemoryMap
=============================================================================
