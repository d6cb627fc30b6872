------------------------------ MODULE Transport -----------------------------
(***************************************************************************)
(* What any transport promises to the application that listens to its      *)
(* events (MinimumTransport of src/types.ts): messages only come while a   *)
(* session lasts, and the end of a session is announced exactly once.      *)
(* PEER_DISCONNECTED, the third event, says nothing of the session and is  *)
(* left out.                                                               *)
(***************************************************************************)
EXTENDS Naturals

VARIABLES
    session,   \* a session began and its end was not announced
    told,      \* how many DISCONNECTION events were emitted
    heard      \* how many message events were emitted

transportVars == <<session, told, heard>>

Init == session = FALSE /\ told = 0 /\ heard = 0

Begin ==
    /\ ~session /\ session' = TRUE
    /\ UNCHANGED <<told, heard>>

Message ==
    /\ session
    /\ heard' = heard + 1
    /\ UNCHANGED <<session, told>>

End ==
    /\ session /\ session' = FALSE
    /\ told' = told + 1
    /\ UNCHANGED heard

Next == Begin \/ Message \/ End

Spec == Init /\ [][Next]_transportVars

=============================================================================
