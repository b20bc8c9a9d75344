------------------------ MODULE StreamDiscoveryProofs ------------------------
(***************************************************************************)
(* Proofs about StreamDiscovery, for captures of any length, any number of *)
(* streams and any assignment of ports.                                    *)
(***************************************************************************)
EXTENDS StreamDiscovery, SequenceTheorems, TLAPS

(* The two roles.                                                          *)
LEMMA OtherRole ==
    /\ Other("opener") = "acceptor"
    /\ Other("acceptor") = "opener"
    /\ \A r \in Roles : Other(r) \in Roles /\ Other(r) # r
                        /\ Roles = {r, Other(r)}
BY DEF Other, Roles

(* The ends of a listing are the two peers, a lone mail port is the server *)
(* and otherwise the source of the row is the client.                      *)
LEMMA OrientPeers ==
    ASSUME TypeOK, NEW s \in Streams, NEW r \in Roles
    PROVE  LET e == Orient(EndOf(s, r), EndOf(s, Other(r)))
           IN  /\ e \in [client : [role : Roles, port : Ports],
                         server : [role : Roles, port : Ports]]
               /\ {e.client.role, e.server.role} = Roles
               /\ \A q \in Roles :
                      port[s][q] \in MailPorts /\ port[s][Other(q)] \notin MailPorts
                          => e.server.role = q
               /\ ~(port[s][r] \in MailPorts /\ port[s][Other(r)] \notin MailPorts)
                      => e.client.role = r
<1> DEFINE o == Other(r)
<1>1. o \in Roles /\ o # r /\ Roles = {r, o} /\ Other(o) = r
  BY OtherRole DEF Roles
<1>2. port[s][r] \in Ports /\ port[s][o] \in Ports
  BY <1>1 DEF TypeOK
<1>3. EndOf(s, r) \in [role : Roles, port : Ports]
      /\ EndOf(s, r).role = r /\ EndOf(s, r).port = port[s][r]
  BY <1>2 DEF EndOf
<1>4. EndOf(s, o) \in [role : Roles, port : Ports]
      /\ EndOf(s, o).role = o /\ EndOf(s, o).port = port[s][o]
  BY <1>1, <1>2 DEF EndOf
<1> HIDE DEF o
<1>5. CASE port[s][r] \in MailPorts /\ port[s][o] \notin MailPorts
  <2>1. Orient(EndOf(s, r), EndOf(s, o)) = [client |-> EndOf(s, o), server |-> EndOf(s, r)]
    BY <1>3, <1>4, <1>5 DEF Orient, IsMailEnd
  <2> QED
    BY <2>1, <1>1, <1>3, <1>4, <1>5 DEF o
<1>6. CASE ~(port[s][r] \in MailPorts /\ port[s][o] \notin MailPorts)
  <2>1. Orient(EndOf(s, r), EndOf(s, o)) = [client |-> EndOf(s, r), server |-> EndOf(s, o)]
    BY <1>3, <1>4, <1>6 DEF Orient, IsMailEnd
  <2> QED
    BY <2>1, <1>1, <1>3, <1>4, <1>6 DEF o
<1> QED
  BY <1>5, <1>6

(* Nothing is captured and nothing listed.                                 *)
LEMMA InitInv == Init => Inv
<1> SUFFICES ASSUME Init PROVE Inv
  OBVIOUS
<1>1. <<>> \in Seq(Row) /\ <<>> \in Seq(Listing) /\ Len(<<>>) = 0 /\ DOMAIN <<>> = {}
  BY EmptySeq
<1>2. TypeOK
  BY <1>1 DEF Init, TypeOK
<1>3. ListedOnce /\ NoStreamMissed /\ MailPortServes /\ OpenerIsClient
  BY <1>1 DEF Init, ListedOnce, NoStreamMissed, MailPortServes, OpenerIsClient
<1>4. ScanInv
  BY <1>1 DEF Init, ScanInv
<1> QED
  BY <1>2, <1>3, <1>4 DEF Inv

(* A new row is the last one; no pass has begun.                           *)
LEMMA CaptureStep == Inv /\ Capture => Inv'
<1> SUFFICES ASSUME Inv, Capture PROVE Inv'
  OBVIOUS
<1> USE DEF Inv
<1>1. PICK r \in Row : (r.syn => r.from = "opener") /\ rows' = Append(rows, r)
  BY DEF Capture
<1>2. /\ rows' \in Seq(Row)
      /\ Len(rows') = Len(rows) + 1 /\ Len(rows) \in Nat
      /\ \A k \in 1..Len(rows) : rows'[k] = rows[k]
      /\ rows'[Len(rows) + 1] = r
      /\ DOMAIN rows' = 1..(Len(rows) + 1)
      /\ DOMAIN rows = 1..Len(rows)
  BY <1>1, AppendProperties, LenProperties DEF TypeOK
<1>3. streams = <<>> /\ streams' = <<>> /\ DOMAIN <<>> = {} /\ pass = "capture"
      /\ pass' = "capture" /\ row' = 1 /\ row = 1 /\ seen' = seen
  BY DEF Capture, ScanInv
<1>4. TypeOK'
  BY <1>2, <1>3 DEF TypeOK, Capture
<1>5. ListedOnce' /\ NoStreamMissed' /\ MailPortServes' /\ OpenerIsClient'
  BY <1>3 DEF ListedOnce, NoStreamMissed, MailPortServes, OpenerIsClient
<1>6. ScanInv'
  BY <1>1, <1>2, <1>3 DEF ScanInv
<1> QED
  BY <1>4, <1>5, <1>6

(* The first pass starts with nothing to account for.                      *)
LEMMA StartScanStep == Inv /\ StartScan => Inv'
<1> SUFFICES ASSUME Inv, StartScan PROVE Inv'
  OBVIOUS
<1> USE DEF Inv, StartScan
<1>1. TypeOK'
  BY DEF TypeOK
<1>2. ListedOnce' /\ NoStreamMissed' /\ MailPortServes' /\ OpenerIsClient'
  BY DEF ListedOnce, NoStreamMissed, MailPortServes, OpenerIsClient
<1>3. ScanInv'
  BY DEF ScanInv
<1> QED
  BY <1>1, <1>2, <1>3

(* A row that is shown and readable is passed over only if it is in seen.  *)
LEMMA SkipRowStep == Inv /\ SkipRow => Inv'
<1> SUFFICES ASSUME Inv, SkipRow PROVE Inv'
  OBVIOUS
<1> USE DEF Inv
<1>1. row \in 1..Len(rows) /\ row' = row + 1 /\ Len(rows) \in Nat
      /\ DOMAIN rows = 1..Len(rows)
  BY LenProperties DEF SkipRow, Scanning, TypeOK
<1>2. TypeOK'
  BY <1>1 DEF TypeOK, SkipRow
<1>3. ListedOnce' /\ NoStreamMissed' /\ MailPortServes' /\ OpenerIsClient'
  BY DEF ListedOnce, NoStreamMissed, MailPortServes, OpenerIsClient, SkipRow,
         Scanning
<1>4. ScanInv'
  <2>1. \A k \in 1..(row' - 1) : k = row \/ k \in 1..(row - 1)
    BY <1>1
  <2>2. pass \in {"syn", "tcp"} /\ UNCHANGED <<port, rows, pass, seen, streams>>
        /\ ~(Shown(rows[row]) /\ Usable(rows[row]))
    BY DEF SkipRow, Scanning
  <2>3. \A k \in 1..(row' - 1) :
            Shown(rows[k]) /\ rows[k].readable => rows[k].stream \in seen
    BY <2>1, <2>2 DEF ScanInv, Usable
  <2> QED
    BY <2>2, <2>3 DEF ScanInv, Shown
<1> QED
  BY <1>2, <1>3, <1>4

(* The listing action: the stream is new, and in the second pass it has no *)
(* readable SYN, so its orientation is free.                               *)
LEMMA ListStreamStep == Inv /\ ListStream => Inv'
<1> SUFFICES ASSUME Inv, ListStream PROVE Inv'
  OBVIOUS
<1> USE DEF Inv
<1> DEFINE r == rows[row]
           e == Orient(EndOf(r.stream, r.from), EndOf(r.stream, Other(r.from)))
           x == [id |-> r.stream, ends |-> e]
<1>1. /\ row \in 1..Len(rows) /\ Len(rows) \in Nat /\ DOMAIN rows = 1..Len(rows)
      /\ rows \in Seq(Row)
      /\ Shown(r) /\ Usable(r) /\ pass \in {"syn", "tcp"}
      /\ streams' = Append(streams, x) /\ seen' = seen \cup {r.stream}
      /\ row' = row + 1 /\ UNCHANGED <<port, rows, pass>>
  BY LenProperties DEF ListStream, Scanning, TypeOK
<1>2. r \in Row
  BY <1>1, ElementOfSeq
<1>3. r.stream \in Streams /\ r.from \in Roles
  BY <1>2 DEF Row
<1>4. /\ e \in [client : [role : Roles, port : Ports],
                server : [role : Roles, port : Ports]]
      /\ {e.client.role, e.server.role} = Roles
      /\ \A q \in Roles :
             port[r.stream][q] \in MailPorts /\ port[r.stream][Other(q)] \notin MailPorts
                 => e.server.role = q
      /\ ~(port[r.stream][r.from] \in MailPorts
           /\ port[r.stream][Other(r.from)] \notin MailPorts)
             => e.client.role = r.from
  BY <1>3, OrientPeers
<1> HIDE DEF e
<1>5. x \in Listing /\ x.id = r.stream /\ x.ends = e
  BY <1>3, <1>4 DEF Listing
<1> HIDE DEF x, r
<1> DEFINE n == Len(streams)
<1>6. /\ streams' \in Seq(Listing) /\ streams \in Seq(Listing)
      /\ n \in Nat /\ DOMAIN streams = 1..n /\ DOMAIN streams' = 1..(n + 1)
      /\ \A k \in 1..n : streams'[k] = streams[k]
      /\ streams'[n + 1] = x
      /\ \A k \in 1..(n + 1) : k = n + 1 \/ k \in 1..n
  <2>1. streams \in Seq(Listing)
    BY DEF TypeOK
  <2>2. Len(streams') = n + 1 /\ streams' \in Seq(Listing)
        /\ (\A k \in 1..n : streams'[k] = streams[k]) /\ streams'[n + 1] = x
    BY <2>1, <1>1, <1>5, AppendProperties
  <2> QED
    BY <2>1, <2>2, LenProperties
<1> HIDE DEF n
<1>7. r.stream \notin seen
  BY <1>1 DEF Usable
<1>8. TypeOK'
  BY <1>1, <1>3, <1>6 DEF TypeOK
<1>9. ListedOnce'
  BY <1>5, <1>6, <1>7 DEF ListedOnce, ScanInv
<1>10. MailPortServes'
  BY <1>1, <1>4, <1>5, <1>6 DEF MailPortServes
<1>11. ASSUME NEW k \in DOMAIN rows, rows[k].stream = r.stream, rows[k].syn,
              rows[k].readable,
              ~(port[r.stream]["opener"] \in MailPorts
                /\ port[r.stream]["acceptor"] \notin MailPorts)
       PROVE  e.client.role = "opener"
  <2>1. pass = "syn"
    BY <1>1, <1>7, <1>11 DEF ScanInv
  <2>2. r.from = "opener"
    BY <1>1, <2>1 DEF Shown, ScanInv, r
  <2> QED
    BY <1>4, <1>11, <2>2, OtherRole
<1>12. OpenerIsClient'
  BY <1>1, <1>5, <1>6, <1>11 DEF OpenerIsClient
<1>13. ScanInv'
  <2>1. \A k \in 1..(row' - 1) : k = row \/ k \in 1..(row - 1)
    BY <1>1
  <2>2. \A k \in 1..(row' - 1) :
            Shown(rows[k]) /\ rows[k].readable => rows[k].stream \in seen'
    BY <1>1, <2>1 DEF ScanInv, r
  <2>3. seen' = {streams'[a].id : a \in DOMAIN streams'}
    BY <1>1, <1>5, <1>6 DEF ScanInv
  <2> QED
    BY <1>1, <2>2, <2>3 DEF ScanInv, Shown
<1>14. NoStreamMissed'
  BY <1>1 DEF NoStreamMissed
<1> QED
  BY <1>8, <1>9, <1>10, <1>12, <1>13, <1>14

(* A pass that ends has accounted for every row it was shown.              *)
LEMMA NextPassStep == Inv /\ NextPass => Inv'
<1> SUFFICES ASSUME Inv, NextPass PROVE Inv'
  OBVIOUS
<1> USE DEF Inv
<1>1. Len(rows) \in Nat /\ DOMAIN rows = 1..Len(rows) /\ row - 1 = Len(rows)
      /\ row' = 1 /\ UNCHANGED <<port, rows, seen, streams>>
  BY LenProperties DEF TypeOK, NextPass
<1>2. TypeOK'
  BY <1>1 DEF TypeOK, NextPass
<1>3. ListedOnce' /\ MailPortServes' /\ OpenerIsClient'
  BY <1>1 DEF ListedOnce, MailPortServes, OpenerIsClient
<1>4. ScanInv'
  BY <1>1 DEF ScanInv, NextPass, Shown
<1>5. NoStreamMissed'
  <2> SUFFICES ASSUME pass = "tcp", NEW k \in DOMAIN rows, rows[k].readable
               PROVE  rows[k].stream \in seen
    BY <1>1 DEF NoStreamMissed, ScanInv, NextPass
  <2> QED
    BY <1>1 DEF ScanInv, Shown
<1> QED
  BY <1>2, <1>3, <1>4, <1>5

(* Every action preserves the invariant.                                   *)
LEMMA NextStep == Inv /\ [Next]_vars => Inv'
<1>1. Inv /\ UNCHANGED vars => Inv'
  BY DEF vars, Inv, TypeOK, ListedOnce, NoStreamMissed, MailPortServes, OpenerIsClient, ScanInv,
         Shown
<1> QED
  BY <1>1, CaptureStep, StartScanStep, SkipRowStep, ListStreamStep, NextPassStep
     DEF Next

(* The scan's inductive invariant.                                         *)
THEOREM Invariance == Spec => []Inv
BY InitInv, NextStep, PTL DEF Spec

(* Each stream is listed at most once over the two passes.                 *)
THEOREM Once == Spec => []ListedOnce
BY Invariance, PTL DEF Inv

(* Every stream with a readable packet is listed when the scan is over.    *)
THEOREM Found == Spec => []NoStreamMissed
BY Invariance, PTL DEF Inv

(* A lone mail port is the server, whatever was captured first.            *)
THEOREM MailPort == Spec => []MailPortServes
BY Invariance, PTL DEF Inv

(* A readable SYN fixes the orientation wherever it stands in the capture. *)
THEOREM Opener == Spec => []OpenerIsClient
BY Invariance, PTL DEF Inv
===============================================================================
