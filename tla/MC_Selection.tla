---------------------------- MODULE MC_Selection ----------------------------
(* Directory listings and the character set for checking Selection.  The   *)
(* extension ".CROWS" is the two characters C W: like the real six-letter  *)
(* extension it makes every payload name longer than twice the one        *)
(* character a stale-buffer partial match can be counted with.            *)
EXTENDS Selection

McSuffix == <<"C", "W">>

McUpper == [c \in Chars |-> CASE c = "c" -> "C"
                              [] c = "w" -> "W"
                              [] c = "q" -> "Q"
                              [] OTHER   -> c]

Entry(n, sz) == [name |-> n, size |-> sz]

\* A bare ".crows", a non-payload, then three payloads of which only two
\* fit MaxPayloads; "ACCW" needs the EFI_BUFFER_TOO_SMALL retry.
ThreePayloads ==
    << Entry(<<"c", "w">>, 1), Entry(<<"A", "B">>, 1),
       Entry(<<"A", "C", "W">>, 1), Entry(<<"A", "C", "C", "W">>, 2),
       Entry(<<"B", "C", "W">>, 1) >>

OnePayload == << Entry(<<"A", "B">>, 1), Entry(<<"A", "c", "w">>, 1) >>

NoPayload == << Entry(<<"A", "B">>, 1) >>

AllListings == {ThreePayloads, OnePayload, NoPayload}

MultiListing == {ThreePayloads}
=============================================================================
