---------------------------- MODULE MC_MpDecrypt ----------------------------
(* Instances of the decryption engine for TLC.                             *)
EXTENDS MpDecrypt

(* Three orders of 2, 1 and 2 chunks.                                     *)
ThreeOrders ==
    << [thread_index |-> 0, length |-> 2, suppress_progress |-> FALSE],
       [thread_index |-> 1, length |-> 1, suppress_progress |-> FALSE],
       [thread_index |-> 2, length |-> 2, suppress_progress |-> FALSE] >>

(* As many orders as APs, one of them empty.                              *)
TwoOrdersTwoAps ==
    << [thread_index |-> 0, length |-> 2, suppress_progress |-> FALSE],
       [thread_index |-> 1, length |-> 2, suppress_progress |-> FALSE],
       [thread_index |-> 2, length |-> 0, suppress_progress |-> FALSE] >>

(* Two orders, the second asking for progress reports to be suppressed.  *)
TwoOrdersOneQuiet ==
    << [thread_index |-> 0, length |-> 2, suppress_progress |-> FALSE],
       [thread_index |-> 1, length |-> 1, suppress_progress |-> TRUE] >>

(* Two orders on a single AP.                                             *)
TwoOrdersOneAp ==
    << [thread_index |-> 0, length |-> 1, suppress_progress |-> FALSE],
       [thread_index |-> 1, length |-> 1, suppress_progress |-> FALSE] >>
=============================================================================
