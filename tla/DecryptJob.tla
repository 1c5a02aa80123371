------------------------------ MODULE DecryptJob ------------------------------
(***************************************************************************)
(* What the decryption engine promises its caller (spec 4.3, 4.4): the    *)
(* caller issues a job of work orders, every non-empty order's range is   *)
(* decrypted exactly once, in any order, and the job is reported complete *)
(* only after all of them are.                                            *)
(***************************************************************************)
CONSTANTS Jobs          \* the non-empty work orders of the job

VARIABLES phase,        \* "issuing", "awaiting" or "complete"
          decrypted     \* the orders whose range is fully decrypted

Init == phase = "issuing" /\ decrypted = {}

\* One order's range becomes fully decrypted, while the job is not done.
DecryptOrder(j) ==
    /\ phase # "complete"
    /\ j \in Jobs \ decrypted
    /\ decrypted' = decrypted \cup {j}
    /\ UNCHANGED phase

\* The caller has issued every order and starts waiting.
Issued ==
    /\ phase = "issuing"
    /\ phase' = "awaiting"
    /\ UNCHANGED decrypted

\* The job completes only once every order is decrypted.
Complete ==
    /\ phase # "complete"
    /\ decrypted = Jobs
    /\ phase' = "complete"
    /\ UNCHANGED decrypted

Next == Issued \/ Complete \/ \E j \in Jobs : DecryptOrder(j)

Spec == Init /\ [][Next]_<<phase, decrypted>>

=============================================================================
