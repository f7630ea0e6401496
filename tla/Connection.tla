---------------------------- MODULE Connection ----------------------------
(***************************************************************************)
(* What a server built from server.cc and session.cc promises about its    *)
(* connections: one slot at a time waits for a client; a client that is    *)
(* accepted is answered exactly once and then its slot is free again.      *)
(***************************************************************************)
CONSTANT Slot
VARIABLE phase

Init == phase = [c \in Slot |-> "none"]

Becomes(c, from, to) == phase[c] = from /\ phase' = [phase EXCEPT ![c] = to]

\* Only one slot at a time waits for a client.
Wait(c) ==
    /\ \A d \in Slot : phase[d] # "listening"
    /\ Becomes(c, "none", "listening")

Accept(c) == Becomes(c, "listening", "open")
Refuse(c) == Becomes(c, "listening", "none")
Reply(c)  == Becomes(c, "open", "replying")
Close(c)  == Becomes(c, "replying", "none")

Next == \E c \in Slot : Wait(c) \/ Accept(c) \/ Refuse(c) \/ Reply(c) \/ Close(c)

Spec == Init /\ [][Next]_phase
=============================================================================
