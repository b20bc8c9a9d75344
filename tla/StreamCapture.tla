----------------------------- MODULE StreamCapture -----------------------------
(***************************************************************************)
(* One TCP connection on the wire, a capture of it that may miss or        *)
(* truncate packets, start late or end early, and what _reassemble_stream  *)
(* makes of the captured packets (ingestion/stream_reassembly.py).         *)
(*                                                                         *)
(* Sequence numbers are tcp.seq_raw: they start at an arbitrary initial    *)
(* number and wrap around at Modulus (2^32 on the wire).                   *)
(***************************************************************************)
EXTENDS StreamMeta, Reassembly

CONSTANTS Ports,
          ISNs,         \* initial sequence numbers
          Modulus,      \* of the sequence number space
          MaxBytes,     \* bound on the payload bytes a peer sends
          MaxPackets    \* bound on the packets on the wire

ASSUME CaptureAssumption == /\ MailPorts \subseteq Ports
                            /\ Modulus \in Nat /\ ISNs \subseteq 0..(Modulus - 1)
                            /\ MaxBytes \in Nat /\ MaxBytes + 1 < Modulus
                            /\ MaxPackets \in Nat

VARIABLES port,      \* the ports of the two peers
          isn,       \* their initial sequence numbers
          syn, fin,  \* who sent a SYN, who a FIN
          reset,     \* whether a RST was sent
          sent,      \* number of payload bytes each peer sent
          onWire,    \* number of packets so far
          packets,   \* what the capture holds, as _stream_packets returns it
          stream     \* the TCPStream, or NotAnalysed

wire == <<port, isn, syn, fin, reset, sent, onWire>>
vars == <<port, isn, syn, fin, reset, sent, onWire, packets, stream>>

NotAnalysed == [analysed |-> FALSE]

Init == /\ port \in [Roles -> Ports]
        /\ isn \in [Roles -> ISNs]
        /\ syn = [r \in Roles |-> FALSE]
        /\ fin = [r \in Roles |-> FALSE]
        /\ reset = FALSE
        /\ sent = [r \in Roles |-> 0]
        /\ onWire = 0
        /\ packets = <<>>
        /\ stream = NotAnalysed

-----------------------------------------------------------------------------
(* The wire (external): a peer's n bytes from its k-th on, in a packet the *)
(* capture misses, or holds with its first m bytes (tcp.payload may be     *)
(* shorter than tcp.len, which the code reads and does not use).           *)
RawSeq(r, k) == (isn[r] + 1 + k) % Modulus

Plain == [syn |-> FALSE, ack |-> TRUE, fin |-> FALSE, rst |-> FALSE]

Send(r, seq, n, flags) ==
    /\ ~stream.analysed
    /\ onWire < MaxPackets
    /\ onWire' = onWire + 1
    /\ \/ packets' = packets
       \/ \E m \in 0..n :
              packets' = Append(packets,
                  [from |-> r, seq |-> seq, len |-> m, flags |-> flags])
    /\ UNCHANGED <<port, isn, stream>>

SendSyn(r) == /\ ~syn[r]
              /\ r = "acceptor" => syn["opener"]
              /\ syn' = [syn EXCEPT ![r] = TRUE]
              /\ Send(r, isn[r], 0,
                      [Plain EXCEPT !.syn = TRUE, !.ack = (r = "acceptor")])
              /\ UNCHANGED <<fin, reset, sent>>

Connected == syn["opener"] /\ syn["acceptor"] /\ ~reset

SendData(r) == /\ Connected /\ ~fin[r]
               /\ \E n \in 1..(MaxBytes - sent[r]) :
                      /\ Send(r, RawSeq(r, sent[r]), n, Plain)
                      /\ sent' = [sent EXCEPT ![r] = @ + n]
               /\ UNCHANGED <<syn, fin, reset>>

Retransmit(r) == /\ Connected
                 /\ \E k \in 0..(sent[r] - 1) : \E n \in 1..(sent[r] - k) :
                        Send(r, RawSeq(r, k), n, Plain)
                 /\ UNCHANGED <<syn, fin, reset, sent>>

SendFin(r) == /\ Connected /\ ~fin[r]
              /\ fin' = [fin EXCEPT ![r] = TRUE]
              /\ Send(r, RawSeq(r, sent[r]), 0, [Plain EXCEPT !.fin = TRUE])
              /\ UNCHANGED <<syn, reset, sent>>

SendReset(r) == /\ syn["opener"] /\ ~reset
                /\ reset' = TRUE
                /\ Send(r, RawSeq(r, sent[r]), 0, [Plain EXCEPT !.rst = TRUE])
                /\ UNCHANGED <<syn, fin, sent>>

-----------------------------------------------------------------------------
EndOf(r) == [role |-> r, port |-> port[r]]

IsOpeningSyn(p) == p.flags.syn /\ ~p.flags.ack

(* _list_tcp_streams for this stream: its first SYN row, or else its first *)
(* row, gives the orientation.                                             *)
Meta ==
    LET syns == {k \in DOMAIN packets : IsOpeningSyn(packets[k])}
        from == packets[IF syns = {} THEN 1 ELSE Least(syns)].from
    IN  Orient(EndOf(from), EndOf(Other(from)))

(* Variant of ChunksOf: both directions in one.                            *)
ChunksOfAnyone(r) ==
    LET all == Picked(packets, {k \in DOMAIN packets : packets[k].len > 0})
    IN  [k \in DOMAIN all |-> [seq |-> all[k].seq, len |-> all[k].len]]

(* c2s_chunks and s2c_chunks: the chunks of the packets a peer sent that   *)
(* have a payload.                                                         *)
ChunksOf(r) ==
    LET theirs == Picked(packets, {k \in DOMAIN packets :
                                      packets[k].from = r /\ packets[k].len > 0})
    IN  [k \in DOMAIN theirs |-> [seq |-> theirs[k].seq, len |-> theirs[k].len]]

Some(Test(_)) == \E k \in DOMAIN packets : Test(packets[k])

HandshakeObserved == Some(LAMBDA p : p.flags.syn)

(* Variant of ConnectionClosed: a reset does not count.                    *)
ClosedByFins == \A r \in Roles : Some(LAMBDA p : p.flags.fin /\ p.from = r)

(* (client_fin and server_fin) or reset_seen *)
ConnectionClosed ==
    \/ \A r \in Roles : Some(LAMBDA p : p.flags.fin /\ p.from = r)
    \/ Some(LAMBDA p : p.flags.rst)

(* Variant of GapInEither.                                                 *)
GapInBoth(c2s, s2c) == c2s.has_gap /\ s2c.has_gap

GapInEither(c2s, s2c) == c2s.has_gap \/ s2c.has_gap

(* The TCPStream _reassemble_stream returns.                               *)
Reassembled ==
    LET meta == Meta
        c2s  == ReassembleDirection(ChunksOf(meta.client.role))
        s2c  == ReassembleDirection(ChunksOf(meta.server.role))
    IN  [analysed |-> TRUE,
         client |-> meta.client, server |-> meta.server,
         client_to_server |-> c2s.assembled,
         server_to_client |-> s2c.assembled,
         is_complete |-> /\ HandshakeObserved
                         /\ ConnectionClosed
                         /\ ~GapInEither(c2s, s2c)]

Analyse == /\ ~stream.analysed
           /\ packets # <<>>
           /\ stream' = Reassembled
           /\ UNCHANGED <<wire, packets>>

Next == \/ \E r \in Roles : \/ SendSyn(r) \/ SendData(r) \/ Retransmit(r)
                            \/ SendFin(r) \/ SendReset(r)
        \/ Analyse

Spec == Init /\ [][Next]_vars

-----------------------------------------------------------------------------
(* Which byte of the peer stands at a raw sequence position.               *)
Offset(r, p) == (p - isn[r] - 1) % Modulus

(* The bytes of a peer that the capture holds.                             *)
CapturedBytes(r) ==
    UNION {{Offset(r, b) : b \in BytesOf(packets[k])} :
           k \in {j \in DOMAIN packets : packets[j].from = r}}

SentBytes(r) == 0..(sent[r] - 1)

(* The analysed stream's bytes from peer r, as bytes of that peer.         *)
Analysed(r) ==
    LET raw == IF stream.client.role = r THEN stream.client_to_server
                                         ELSE stream.server_to_client
    IN  [k \in DOMAIN raw |-> Offset(r, raw[k])]

(* Each direction of the analysed stream holds the bytes its own peer sent *)
(* and the capture holds, whatever was lost, truncated or sent again, each *)
(* of them once.                                                           *)
OwnBytesOnce ==
    stream.analysed =>
        \A r \in Roles :
            /\ ToSet(Analysed(r)) = CapturedBytes(r)
            /\ CapturedBytes(r) \subseteq SentBytes(r)
            /\ Cardinality(CapturedBytes(r)) = Len(Analysed(r))

Held(r, flag) == \E k \in DOMAIN packets :
                     packets[k].from = r /\ packets[k].flags[flag]

(* The bytes of a peer lost between two that the capture holds.            *)
LostInside(r) ==
    {b \in SentBytes(r) \ CapturedBytes(r) :
         \E a, c \in CapturedBytes(r) : a < b /\ b < c}

(* A stream is called complete exactly if a SYN and the close were caught  *)
(* and neither direction lost a byte between two captured ones, whatever   *)
(* was truncated and whatever a retransmission made up for; then each      *)
(* direction reads as one run. No promise covers what was lost before the  *)
(* first captured byte of a direction, where the expected position starts, *)
(* or after its last: such a stream counts as complete.                    *)
CompleteIsContiguous ==
    stream.analysed =>
        /\ stream.is_complete
               <=> /\ \E r \in Roles : Held(r, "syn")
                   /\ \/ \A r \in Roles : Held(r, "fin")
                      \/ \E r \in Roles : Held(r, "rst")
                   /\ \A r \in Roles : LostInside(r) = {}
        /\ stream.is_complete =>
               \A r \in Roles : \A k \in 1..(Len(Analysed(r)) - 1) :
                   Analysed(r)[k + 1] = Analysed(r)[k] + 1

(* Everything the peers sent up to the close was captured at least once.   *)
WholeCapture ==
    /\ syn["opener"] /\ (reset \/ \A r \in Roles : fin[r])
    /\ \A r \in Roles : /\ CapturedBytes(r) = SentBytes(r)
                        /\ syn[r] => Held(r, "syn")
                        /\ fin[r] => Held(r, "fin")
    /\ reset => \E r \in Roles : Held(r, "rst")

(* The other way round: when nothing a peer sent is missing, even if some  *)
(* packets were only captured when they were sent again, the stream is     *)
(* complete and reads as it was sent.                                      *)
WholeCaptureIsComplete ==
    stream.analysed /\ WholeCapture =>
        /\ stream.is_complete
        /\ \A r \in Roles : Analysed(r) = [k \in 1..sent[r] |-> k - 1]

(* The flag of _reassemble_direction is about gaps in the sequence: where  *)
(* every byte of both peers was captured, none is reported ("report        *)
(* whether payload has sequence gaps").                                    *)
NoGapWithoutLoss ==
    stream.analysed /\ WholeCapture => stream.is_complete
===============================================================================
