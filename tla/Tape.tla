-------------------------------- MODULE Tape --------------------------------
(***************************************************************************)
(* What a buffer promises (common/buffer.hpp): a sequence of bytes that is *)
(* written at both ends and read at the front, with the bytes before the   *)
(* front kept as far as nothing was written at the back.                   *)
(***************************************************************************)
EXTENDS Integers, Sequences, SequencesExt

CONSTANT Byte

VARIABLES
    head,       \* how many bytes of room in front are promised
    before,     \* the bytes in front of the reading position, the room included
    after       \* the contents

vars == <<head, before, after>>

\* An empty buffer with room for head bytes in front.
Empty ==
    /\ head' \in Nat
    /\ after' = <<>>
    /\ Len(before') = head'

Init == head \in Nat /\ after = <<>> /\ Len(before) = head

\* Bytes are appended.  What was read may be forgotten, down to the promised room.
PutBack ==
    /\ after # after'
    /\ IsPrefix(after, after')
    /\ \/ before' = before
       \/ Len(before) > head /\ before' = SubSeq(before, 1, head)
    /\ UNCHANGED head

\* Bytes go into the room in front.
PutFront ==
    /\ Len(before') < Len(before)
    /\ IsPrefix(before', before)
    /\ IsSuffix(after, after')
    /\ Len(before') + Len(after') = Len(before) + Len(after)
    /\ UNCHANGED head

\* Reading and seeking move the reading position over the bytes.
Move ==
    /\ before' \o after' = before \o after
    /\ UNCHANGED head

\* Bytes at the back are taken away.
CutBack ==
    /\ IsPrefix(after', after)
    /\ UNCHANGED <<head, before>>

Next == Empty \/ PutBack \/ PutFront \/ Move \/ CutBack

Spec == Init /\ [][Next]_vars
=============================================================================
