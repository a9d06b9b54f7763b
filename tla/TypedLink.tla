----------------------------- MODULE TypedLink -----------------------------
(***************************************************************************)
(* What the wire format promises its users: a connection that carries      *)
(* messages in order and hands over each as it was sent.  The client gets  *)
(* every message, the host every one but the refused ones.  All that is on *)
(* its way is lost with the connection.  PeerLink.tla implements it with   *)
(* bytes.                                                                  *)
(***************************************************************************)
EXTENDS Naturals, Sequences

CONSTANTS Messages, Refused(_), None

VARIABLES up, down,   \* messages on their way to the host and to the client
          got, told   \* the message that each of them is handling, or None

vars == <<up, down, got, told>>

Init == up = <<>> /\ down = <<>> /\ got = None /\ told = None

\* One of the messages joins the queue q.
Joins(q) == Len(q') = Len(q) + 1 /\ q'[Len(q')] \in Messages /\ q' = Append(q, q'[Len(q')])

Say == Joins(up) /\ UNCHANGED <<down, got, told>>
Tell == Joins(down) /\ UNCHANGED <<up, got, told>>

Hear ==
    /\ up # <<>> /\ up' = Tail(up)
    /\ \/ ~Refused(Head(up)) /\ got' = Head(up)
       \/ Refused(Head(up)) /\ UNCHANGED got
    /\ UNCHANGED <<down, told>>

Listen ==
    /\ down # <<>> /\ down' = Tail(down)
    /\ told' = Head(down)
    /\ UNCHANGED <<up, got>>

Done == (got' = None \/ UNCHANGED got) /\ (told' = None \/ UNCHANGED told) /\ UNCHANGED <<up, down>>
Break == up' = <<>> /\ down' = <<>> /\ UNCHANGED <<got, told>>

Next == Say \/ Hear \/ Tell \/ Listen \/ Done \/ Break

Spec == Init /\ [][Next]_vars
=============================================================================
