----------------------------- MODULE SerialLine -----------------------------
(***************************************************************************)
(* What a serial session promises, without queues, latches or instances:   *)
(* the bytes meant for the guest reach it once each and in order, the      *)
(* bytes it says reach the host once each and in order, and a kept session *)
(* resumes from the moment it was kept.                                    *)
(***************************************************************************)
EXTENDS Sequences, SequencesExt

CONSTANTS
    Byte,                \* characters on the line
    Silence,             \* what the guest has heard before its first byte
    Nothing              \* no session has been kept

VARIABLES
    coming,              \* bytes on their way to the guest, the next one first
    heard,               \* the byte the guest heard last
    said,                \* bytes the guest said and the host has not taken
    taken,               \* bytes the host took since the guest was loaded
    kept                 \* the session as it was kept, or Nothing

lineVars == <<coming, heard, said, taken, kept>>

Now == [coming |-> coming, heard |-> heard, said |-> said, taken |-> taken]

Fresh(bytes) ==
    [coming |-> bytes, heard |-> Silence, said |-> <<>>, taken |-> <<>>]

Init == Now = Fresh(<<>>) /\ kept = Nothing

Become(state) ==
    /\ coming' = state.coming /\ heard' = state.heard
    /\ said' = state.said /\ taken' = state.taken

\* Any number of bytes may follow those already on their way.
Queue ==
    /\ IsPrefix(coming, coming') /\ coming' \in Seq(Byte)
    /\ UNCHANGED <<heard, said, taken, kept>>

Hear ==
    /\ coming # <<>>
    /\ Become([Now EXCEPT !.coming = Tail(@), !.heard = Head(coming)])
    /\ UNCHANGED kept

Say(byte) == Become([Now EXCEPT !.said = Append(@, byte)]) /\ UNCHANGED kept

\* The guest resets its port: the byte waiting there, the first, is gone.
Drop == coming # <<>> /\ Become([Now EXCEPT !.coming = Tail(@)]) /\ UNCHANGED kept

Take ==
    /\ Become([Now EXCEPT !.taken = @ \o said, !.said = <<>>])
    /\ UNCHANGED kept

\* The machine is reset: its input is discarded, its words are not.
Restart == Become([Now EXCEPT !.coming = <<>>]) /\ UNCHANGED kept

\* A new machine with nothing said, and whatever tape the host attaches.
Load ==
    /\ coming' \in Seq(Byte)
    /\ Become(Fresh(coming'))
    /\ UNCHANGED kept

Keep == kept' = Now /\ UNCHANGED <<coming, heard, said, taken>>

Forget == kept' = Nothing /\ UNCHANGED <<coming, heard, said, taken>>

Resume == kept # Nothing /\ Become(kept) /\ UNCHANGED kept

Next ==
    \/ Queue \/ Hear \/ Drop \/ Restart \/ Load
    \/ \E byte \in Byte : Say(byte)
    \/ Take
    \/ Keep \/ Forget \/ Resume

Spec == Init /\ [][Next]_lineVars
=============================================================================
