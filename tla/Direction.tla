------------------------------- MODULE Direction -------------------------------
(***************************************************************************)
(* What the reassembly of one direction promises, whatever the algorithm:  *)
(* chunks are collected in any order, then in one step the direction is    *)
(* delivered as exactly the captured bytes, each once, in stream order,    *)
(* with a gap reported if and only if a byte in between was not captured.  *)
(***************************************************************************)
EXTENDS Reassembly

CONSTANTS SeqNums,    \* sequence numbers a packet can have
          Lens,       \* payload lengths a packet can have
          MaxChunks   \* bound on the packets of a direction

VARIABLES collected,  \* the chunks of the direction, in capture order
          bytes,      \* the delivered bytes
          gap,        \* whether a gap was reported
          delivered

vars == <<collected, bytes, gap, delivered>>

Init == /\ collected = <<>>
        /\ bytes = <<>>
        /\ gap = FALSE
        /\ delivered = FALSE

Collect == /\ ~delivered
           /\ Len(collected) < MaxChunks
           /\ \E s \in SeqNums, n \in Lens :
                  collected' = Append(collected, [seq |-> s, len |-> n])
           /\ UNCHANGED <<bytes, gap, delivered>>

Deliver == /\ ~delivered
           /\ Ascending(bytes')
           /\ {bytes'[a] : a \in DOMAIN bytes'} = Carried(collected)
           /\ gap' = Hole(collected)
           /\ delivered' = TRUE
           /\ UNCHANGED collected

Next == Collect \/ Deliver

Spec == Init /\ [][Next]_vars
================================================================================
