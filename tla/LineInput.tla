----------------------------- MODULE LineInput -----------------------------
(***************************************************************************)
(* ReadChar16KeyboardInput (src/boot/mftah_uefi/input.c): the loader's     *)
(* line editor, used for the payload name and the password.               *)
(*                                                                         *)
(* The caller's CHAR16 buffer is a function from 0..MaxLength to a small   *)
(* set of printable characters plus NUL; InputLength is the editor's       *)
(* count of accepted characters.  This module defines the editor's steps   *)
(* as actions on those two variables; a caller conjoins them with its own  *)
(* program counter.  The echo of the prompt and of the typed characters    *)
(* is output only and is left out; so is EFI_NOT_READY, which changes      *)
(* nothing, and a non-printable key, which is ignored.                     *)
(***************************************************************************)
EXTENDS Naturals, Sequences

CONSTANTS
    MaxLength,      \* the MaxLength argument (characters, excluding NUL)
    Chars           \* printable characters the operator may type

VARIABLES InputBuffer, InputLength

NUL == "NUL"

Positions == 0 .. MaxLength

\* A buffer with every CHAR16 zero.
EmptyBuffer == [k \in Positions |-> NUL]

\* The characters a reader of the buffer sees: everything before the first
\* NUL, as a sequence.  InputBuffer[MaxLength] is always NUL.
CStr(buf) ==
    LET end == CHOOSE k \in Positions :
                   buf[k] = NUL /\ \A j \in 0 .. (k - 1) : buf[j] # NUL
    IN  [j \in 1 .. end |-> buf[j - 1]]

\* The characters the editor echoes: the first InputLength ones.
Echoed(buf, len) == [j \in 1 .. len |-> buf[j - 1]]

\* ConIn->Reset, then SetMem(InputBuffer, sizeof(CHAR16)*(MaxLength+1), 0).
Begin ==
    /\ InputBuffer' = EmptyBuffer
    /\ InputLength' = 0

KeyPrintableUnguarded(c) ==
    /\ InputBuffer' = [InputBuffer EXCEPT ![InputLength] = c]
    /\ InputLength' = InputLength + 1

\* A printable key is stored only while InputLength < MaxLength; at the
\* limit it is dropped, a step that changes nothing.
KeyPrintable(c) ==
    /\ InputLength < MaxLength
    /\ InputBuffer' = [InputBuffer EXCEPT ![InputLength] = c]
    /\ InputLength' = InputLength + 1

KeyBackspaceUnguarded ==
    /\ InputBuffer' = [InputBuffer EXCEPT ![InputLength] = NUL]
    /\ InputLength' = InputLength - 1

\* Backspace: InputBuffer[InputLength] = 0, then InputLength-- if positive.
\* The position written is the one after the last character, not the last
\* character itself.
KeyBackspace ==
    /\ InputBuffer' = [InputBuffer EXCEPT ![InputLength] = NUL]
    /\ InputLength' = IF InputLength > 0 THEN InputLength - 1 ELSE 0

\* Enter (0x0A or 0x0D) leaves the loop; InputBuffer[MaxLength] = '\0'.
\* The caller receives ResultingBufferLength = InputLength * sizeof(CHAR16).
KeyEnter ==
    /\ InputBuffer' = [InputBuffer EXCEPT ![MaxLength] = NUL]
    /\ UNCHANGED InputLength

ResultingBufferLength(len) == len * 2

TypeOK ==
    /\ InputBuffer \in [Positions -> Chars \cup {NUL}]
    /\ InputLength \in Positions
=============================================================================
