----------------------------- MODULE MluiPress -----------------------------
(***************************************************************************)
(* What the kernel's pointer handling promises a host: an activation names *)
(* the node that is held, takes it out of hold, and stays to be read until *)
(* the host or a frame clears it.  A node is activated once for a press.   *)
(***************************************************************************)
EXTENDS Naturals

VARIABLES
    held,   \* the pressed node, 0 when none is
    fired   \* the node whose activation waits to be read, 0 when none does

Init == held = 0 /\ fired = 0

\* A press, over a node or over none, on its own or in a frame of its own.
Press == held' \in Nat /\ fired' \in {0, fired}

Activate == held # 0 /\ held' = 0 /\ fired' = held

Read == fired' = 0 /\ UNCHANGED held

Next == Press \/ Activate \/ Read

Spec == Init /\ [][Next]_<<held, fired>>

=============================================================================
