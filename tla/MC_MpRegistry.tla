--------------------------- MODULE MC_MpRegistry ---------------------------
(* Processor tables for MpRegistry.  Processor 0 is the BSP in each.       *)
EXTENDS MpRegistry

\* Processors 1 and 2 are enabled APs; 3 is disabled at boot and
\* EnableDisableAP fails for it, so it stays listed as available but cannot
\* be started; GetProcessorInfo finds no processor 4 (EFI_NOT_FOUND).
McFirmware ==
    [n \in 0 .. 4 |->
        [exists |-> n # 4, bsp |-> n = 0, enabled |-> n \in {1, 2},
         enables |-> FALSE]]

=============================================================================
