--------------------------- MODULE MCStreamDiscovery ---------------------------
(***************************************************************************)
(* Two streams over a mail port and an ephemeral port, in all combinations *)
(* of ports at the two peers, and captures of up to three rows: enough for *)
(* data, the SYN of another stream and the stream's own, late, SYN.        *)
(***************************************************************************)
EXTENDS StreamDiscovery

CONSTANTS s1, s2

MCStreams == {s1, s2}
MCPorts == {25, 50000}
MCMailPorts == {25}
================================================================================
