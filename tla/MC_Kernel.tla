------------------------------ MODULE MC_Kernel ------------------------------
(***************************************************************************)
(* Information blocks for the Kernel module.  Tag sizes follow the        *)
(* kernel's structures (multiboot.h, natural alignment): a cmdline or     *)
(* loader-name tag is 8 bytes plus its string and NUL, the framebuffer    *)
(* tag 40, a 64-bit pointer tag 16, the memory map 16 plus 24 per entry.  *)
(***************************************************************************)
EXTENDS Kernel

Tag(type, size) == [type |-> type, size |-> size, entries |-> <<>>]
MemMap(entries) == [type |-> MbiMemoryMap, size |-> MapHeaderSize + EntrySize * Len(entries),
                    entries |-> entries]

\* Tags: command line "" (9 bytes) or a 7-character one (16), loader name,
\* framebuffer, EFI 64-bit system table, end.
EmptyCmdline == Tag(1, 9)
Cmdline == Tag(1, 16)
LoaderName == Tag(2, 16)
Framebuffer == Tag(8, 40)
EfiSt64 == Tag(12, 16)
EndTag == Tag(0, 8)

\* Memory-map entries: low memory, a reserved region at 2 MiB, a free
\* region too small, and two free regions of at least 1 MiB above 2 MiB.
LowMem == [Base |-> 0, Length |-> 651264, Type |-> 1]
Reserved == [Base |-> 2097152, Length |-> 1048576, Type |-> 2]
SmallFree == [Base |-> 3145728, Length |-> 524288, Type |-> 1]
FreeA == [Base |-> 9437184, Length |-> 16777216, Type |-> 1]
FreeB == [Base |-> 33554432, Length |-> 33554432, Type |-> 1]

Block(tags) == [magic |-> TRUE, addr |-> TRUE, tags |-> tags]

McInfos ==
    { Block(<<Cmdline, LoaderName, Framebuffer, MemMap(<<LowMem, Reserved, SmallFree, FreeA, FreeB>>), EfiSt64, EndTag>>),
      Block(<<Cmdline, LoaderName, Framebuffer, MemMap(<<LowMem, Reserved, SmallFree>>), EfiSt64, EndTag>>),
      Block(<<Cmdline, LoaderName, Framebuffer, EfiSt64, Tag(17, 64), EndTag>>),
      Block(<<Cmdline, MemMap(<<FreeA>>), EndTag>>),
      Block(<<EmptyCmdline, LoaderName, Framebuffer, MemMap(<<LowMem, FreeA>>), EfiSt64, EndTag>>),
      [magic |-> FALSE, addr |-> TRUE, tags |-> <<>>],
      [magic |-> TRUE, addr |-> FALSE, tags |-> <<>>] }

\* What the seek reads 17 bytes into an information block whose first tag
\* is the 9-byte command line "": padding NULs for the type, and for the
\* size three padding NULs below the first byte of the next tag's type (2,
\* the loader name), i.e. 2 * 2^24; or, before an end tag, all NULs.
McMisread == {[type |-> 0, size |-> 33554432], [type |-> 0, size |-> 0]}

McInitialKmemBase == {Null, StackGarbage}

\* 0x190000: the address of the information block.
McInfoAddr == 1638400
=============================================================================
