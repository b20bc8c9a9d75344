--------------------------- MODULE MCStreamCapture ---------------------------
(***************************************************************************)
(* One connection of up to six packets and three bytes a peer: SYN, the    *)
(* answer, data of both, a retransmission and a reset or both FINs, each   *)
(* captured, truncated or missed.  The sequence space of 16 is far larger  *)
(* than what is sent, as 2^32 is; MCNearWrap are initial numbers whose     *)
(* data run over its end.                                                  *)
(***************************************************************************)
EXTENDS StreamCapture

MCPorts == {25, 50000}
MCMailPorts == {25}
MCFarFromWrap == {5}
MCNearWrap == {13}
===============================================================================
