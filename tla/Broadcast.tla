------------------------------ MODULE Broadcast -----------------------------
(***************************************************************************)
(* What reliable messages promise to the application, without the mesh:    *)
(* a peer sends a message to its island, and every other peer's transport  *)
(* emits it only after it was sent, and no more often than a limit, which  *)
(* is one for peers whose clocks agree.                                    *)
(***************************************************************************)
EXTENDS Integers

CONSTANTS
    Peers,    \* peer ids
    Messages, \* all that may ever be sent, as records with a field src
    Limit     \* how often a peer may emit a message of a source

VARIABLES
    published,  \* the messages sent so far
    emitted     \* how often each peer's `message' event carried each one

vars == <<published, emitted>>

Init ==
    /\ published = {}
    /\ emitted = [p \in Peers |-> [m \in Messages |-> 0]]

Publish(m) ==
    /\ m \notin published
    /\ published' = published \cup {m}
    /\ UNCHANGED emitted

Emit(p, m) ==
    /\ m \in published /\ m.src # p /\ emitted[p][m] < Limit[p][m.src]
    /\ emitted' = [emitted EXCEPT ![p][m] = @ + 1]
    /\ UNCHANGED published

Next ==
    \E m \in Messages : Publish(m) \/ \E p \in Peers : Emit(p, m)

Spec == Init /\ [][Next]_vars

=============================================================================
