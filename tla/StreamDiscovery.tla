---------------------------- MODULE StreamDiscovery ----------------------------
(***************************************************************************)
(* _list_tcp_streams of ingestion/stream_reassembly.py: the rows of a      *)
(* capture are scanned twice, first the SYN packets, then all TCP packets, *)
(* with one set of stream ids already seen, so that a stream captured from *)
(* its middle is found too.  One row is handled per step.                  *)
(***************************************************************************)
EXTENDS StreamMeta, Integers, Sequences

CONSTANTS Streams,    \* tcp.stream ids
          Ports,      \* port numbers
          MaxRows     \* bound on the packets of the capture

ASSUME DiscoveryAssumption == MailPorts \subseteq Ports /\ MaxRows \in Nat

VARIABLES port,       \* the ports the peers of each stream use
          rows,       \* the packets of the capture, in capture order
          pass,       \* "capture", "syn", "tcp", "done"
          row,        \* the position of the scan
          seen, streams

vars == <<port, rows, pass, row, seen, streams>>

(* A packet row of TShark.  Only a row with seven fields, a stream id and  *)
(* two numeric endpoints is readable (a frame may lack the IP fields, or   *)
(* list several values for one).                                           *)
Row == [stream : Streams, from : Roles, syn : BOOLEAN, readable : BOOLEAN]

EndOf(s, role) == [role |-> role, port |-> port[s][role]]

Init == /\ port \in [Streams -> [Roles -> Ports]]
        /\ rows = <<>>
        /\ pass = "capture"
        /\ row = 1
        /\ seen = {}
        /\ streams = <<>>

-----------------------------------------------------------------------------
(* The wire: a packet is captured; a SYN without ACK comes from the peer   *)
(* that opens the connection.                                              *)
Capture == /\ pass = "capture"
           /\ Len(rows) < MaxRows
           /\ \E r \in Row : /\ r.syn => r.from = "opener"
                             /\ rows' = Append(rows, r)
           /\ UNCHANGED <<port, pass, row, seen, streams>>

(* Variant of StartScan: only the unfiltered pass.                         *)
StartWithAllRows == /\ pass = "capture"
                    /\ pass' = "tcp"
                    /\ UNCHANGED <<port, rows, row, seen, streams>>

(* The first of the two TShark calls.                                      *)
StartScan == /\ pass = "capture"
             /\ pass' = "syn"
             /\ UNCHANGED <<port, rows, row, seen, streams>>

Scanning == pass \in {"syn", "tcp"} /\ row <= Len(rows)

(* Variant of Shown: both passes filter.                                   *)
ShownOnlySyn(r) == r.syn
(* The display filter of the pass lets the row through.                    *)
Shown(r) == pass = "syn" => r.syn

(* Variant of Usable: seen is not looked at.                               *)
UsableAgain(r) == r.readable
(* No continue of _stream_meta_from_rows applies.                          *)
Usable(r) == r.readable /\ r.stream \notin seen

(* Variant of SkipRow: an index that runs ahead.                           *)
SkipTwoRows == /\ Scanning
               /\ ~(Shown(rows[row]) /\ Usable(rows[row]))
               /\ row' = row + 2
               /\ UNCHANGED <<port, rows, pass, seen, streams>>

(* Rows of a stream already seen, unreadable rows and rows the filter      *)
(* removes are passed over.                                                *)
SkipRow == /\ Scanning
           /\ ~(Shown(rows[row]) /\ Usable(rows[row]))
           /\ row' = row + 1
           /\ UNCHANGED <<port, rows, pass, seen, streams>>

ListStream == /\ Scanning
              /\ Shown(rows[row]) /\ Usable(rows[row])
              /\ LET r == rows[row]
                 IN  /\ streams' = Append(streams,
                            [id |-> r.stream,
                             ends |-> Orient(EndOf(r.stream, r.from),
                                             EndOf(r.stream, Other(r.from)))])
                     /\ seen' = seen \cup {r.stream}
              /\ row' = row + 1
              /\ UNCHANGED <<port, rows, pass>>

(* Variant of NextPass: the second pass goes on at the end.                *)
NextPassWithoutRewind == /\ pass \in {"syn", "tcp"}
                         /\ row > Len(rows)
                         /\ pass' = IF pass = "syn" THEN "tcp" ELSE "done"
                         /\ UNCHANGED <<port, rows, row, seen, streams>>

(* The second call starts from the first row with the same seen.           *)
NextPass == /\ pass \in {"syn", "tcp"}
            /\ row > Len(rows)
            /\ pass' = IF pass = "syn" THEN "tcp" ELSE "done"
            /\ row' = 1
            /\ UNCHANGED <<port, rows, seen, streams>>

Next == Capture \/ StartScan \/ SkipRow \/ ListStream \/ NextPass

Spec == Init /\ [][Next]_vars

-----------------------------------------------------------------------------
Listing == [id : Streams,
            ends : [client : [role : Roles, port : Ports],
                    server : [role : Roles, port : Ports]]]

TypeOK == /\ port \in [Streams -> [Roles -> Ports]]
          /\ rows \in Seq(Row)
          /\ pass \in {"capture", "syn", "tcp", "done"}
          /\ row \in 1..(Len(rows) + 1)
          /\ seen \subseteq Streams
          /\ streams \in Seq(Listing)

(* A stream is listed once although both passes meet its packets: reassemble *)
(* would analyse it twice and keep only the later orientation.             *)
ListedOnce ==
    \A a, b \in DOMAIN streams : streams[a].id = streams[b].id => a = b

(* The two passes together find every stream with a readable packet, also  *)
(* one whose SYN is missing or unreadable.                                 *)
NoStreamMissed ==
    pass = "done" =>
        \A k \in DOMAIN rows :
            rows[k].readable =>
                \E a \in DOMAIN streams : streams[a].id = rows[k].stream

(* A lone mail port is taken for the server whichever packet of the stream *)
(* was captured first, and the two ends are the two peers.                 *)
MailPortServes ==
    \A a \in DOMAIN streams :
        LET s == streams[a].id
            e == streams[a].ends
        IN  /\ {e.client.role, e.server.role} = Roles
            /\ \A r \in Roles :
                   port[s][r] \in MailPorts /\ port[s][Other(r)] \notin MailPorts
                       => e.server.role = r

(* A readable SYN decides the orientation of the other streams, even when  *)
(* packets of the acceptor come earlier in the capture.                    *)
OpenerIsClient ==
    \A a \in DOMAIN streams :
        LET s == streams[a].id
        IN  /\ \E k \in DOMAIN rows : rows[k].stream = s /\ rows[k].syn
                                      /\ rows[k].readable
            /\ ~(port[s]["opener"] \in MailPorts
                 /\ port[s]["acceptor"] \notin MailPorts)
            => streams[a].ends.client.role = "opener"

(* seen is exactly what was listed, and accounts for every row passed: in   *)
(* the second pass a stream not in seen has no readable SYN anywhere.      *)
ScanInv ==
    /\ \A k \in DOMAIN rows : rows[k].syn => rows[k].from = "opener"
    /\ seen = {streams[a].id : a \in DOMAIN streams}
    /\ pass = "capture" => streams = <<>> /\ row = 1
    /\ pass \in {"syn", "tcp"} =>
           \A k \in 1..(row - 1) :
               Shown(rows[k]) /\ rows[k].readable => rows[k].stream \in seen
    /\ pass \in {"tcp", "done"} =>
           \A k \in DOMAIN rows :
               rows[k].syn /\ rows[k].readable => rows[k].stream \in seen

(* All of this is what the passes maintain, step by step: the inductive    *)
(* invariant of _list_tcp_streams.                                         *)
Inv == /\ TypeOK /\ ScanInv
       /\ ListedOnce /\ NoStreamMissed /\ MailPortServes /\ OpenerIsClient
===============================================================================
