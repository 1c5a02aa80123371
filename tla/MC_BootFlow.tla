----------------------------- MODULE MC_BootFlow ----------------------------
(* Instances of the boot flow for TLC.                                     *)
EXTENDS BootFlow

\* A payload of two blocks after its header, whose key is "k"; one whose
\* length is not a multiple of the block; one shorter than header + block.
Good == [size |-> 8, key |-> <<"k">>]
Odd == [size |-> 5, key |-> <<"k">>]
Short == [size |-> 3, key |-> <<"k">>]

\* A single discovered payload (no "b" to go back), or all three.
McVolumes == {{Good}, {Good, Odd, Short}}

\* The single payload alone.
OneVolume == {{Good}}

\* Simple-file-system handles as JumpToRamdisk finds them: the boot volume
\* (no canary) and the registered ramdisk, whose root has CROWS.CANARY.
BootVolume == [ramdisk |-> FALSE, canary |-> "absent"]
Ramdisk == [ramdisk |-> TRUE, canary |-> "found"]
\* A volume whose Open fails with an error other than EFI_NOT_FOUND.
Broken == [ramdisk |-> FALSE, canary |-> "error"]

McFsOrders == {<<BootVolume, Ramdisk>>, <<Ramdisk>>, <<BootVolume, Broken, Ramdisk>>}
=============================================================================
