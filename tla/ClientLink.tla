------------------------------ MODULE ClientLink ------------------------------
(***************************************************************************)
(* What the game client promises about its connection, without epoll,       *)
(* batches, message events or partial sends: buffers are accepted at any    *)
(* time, the connection is established at most once, and while it lasts it  *)
(* carries the accepted units in order, each once.  When it is over it stays *)
(* over.                                                                    *)
(***************************************************************************)
EXTENDS Integers, Sequences

CONSTANTS Buffer,  \* the buffers handed to the client
          BufLen   \* units per buffer

VARIABLES accepted,  \* the buffers accepted so far, in order
          carried,   \* the units the connection has taken, each named by its buffer
          link       \* "down" before, "up" during and "over" after the connection

vars == <<accepted, carried, link>>

UnitsOf(s) == [i \in 1..(Len(s) * BufLen) |-> s[(i - 1) \div BufLen + 1]]

Init ==
    /\ accepted = <<>>
    /\ carried = <<>>
    /\ link = "down"

Accept(b) ==
    /\ accepted' = Append(accepted, b)
    /\ UNCHANGED <<carried, link>>

Establish ==
    /\ link = "down"
    /\ link' = "up"
    /\ UNCHANGED <<accepted, carried>>

\* The next units go out, any number of them.
Carry ==
    /\ link = "up"
    /\ \E n \in (Len(carried) + 1)..(Len(accepted) * BufLen) :
          carried' = SubSeq(UnitsOf(accepted), 1, n)
    /\ UNCHANGED <<accepted, link>>

Over ==
    /\ link \in {"down", "up"}
    /\ link' = "over"
    /\ UNCHANGED <<accepted, carried>>

Next ==
    \/ \E b \in Buffer : Accept(b)
    \/ Establish
    \/ Carry
    \/ Over

Spec == Init /\ [][Next]_vars

=============================================================================
