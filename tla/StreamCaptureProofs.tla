------------------------- MODULE StreamCaptureProofs -------------------------
(***************************************************************************)
(* Proofs about StreamCapture, for any ports and initial sequence numbers  *)
(* and any number of packets and bytes, as long as the data of a peer do   *)
(* not run over the end of the sequence space.                             *)
(***************************************************************************)
EXTENDS StreamCapture, OperatorLemmas, FiniteSetTheorems

(* The one thing the code relies on: it compares raw sequence numbers.     *)
NoWrap == \A n \in ISNs : n + 1 + MaxBytes <= Modulus

Packet == [from : Roles, seq : Nat, len : Nat,
           flags : [syn : BOOLEAN, ack : BOOLEAN, fin : BOOLEAN, rst : BOOLEAN]]

WireTypes ==
    /\ isn \in [Roles -> ISNs]
    /\ sent \in [Roles -> 0..MaxBytes]
    /\ packets \in Seq(Packet)

(* A captured payload is part of what its sender sent.                     *)
Within(p, first, count) ==
    p.len > 0 => /\ first[p.from] + 1 <= p.seq
                 /\ End(p) <= first[p.from] + 1 + count[p.from]

(* The stream was made of the packets that are there.                      *)
CaptureInv ==
    /\ WireTypes
    /\ \A k \in DOMAIN packets : Within(packets[k], isn, sent)
    /\ stream = NotAnalysed \/ (stream = Reassembled /\ packets # <<>>)

-----------------------------------------------------------------------------
(* Numbers below the modulus are their own remainders.                     *)
LEMMA Remainder ==
    ASSUME NEW m \in Nat \ {0}, NEW x \in Nat
    PROVE  x % m \in Nat /\ (x < m => x % m = x)
OBVIOUS

FlagSets == [syn : BOOLEAN, ack : BOOLEAN, fin : BOOLEAN, rst : BOOLEAN]

(* The fields of packets and the initial numbers are numbers.              *)
LEMMA Numbers ==
    /\ ISNs \subseteq Nat /\ MaxBytes \in Nat /\ Modulus \in Nat
    /\ \A n \in ISNs : n < Modulus
    /\ \A p \in Packet : /\ p.from \in Roles /\ p.seq \in Nat /\ p.len \in Nat
                         /\ p.flags \in FlagSets
  BY CaptureAssumption DEF Packet, FlagSets

(* A packet the capture may hold: if its payload is within what its sender *)
(* has sent by then, the invariant is kept.                                *)
LEMMA SendStep ==
    ASSUME CaptureInv, NEW r \in Roles, NEW seq \in Nat, NEW n \in Nat,
           NEW flags \in FlagSets,
           Send(r, seq, n, flags),
           sent' \in [Roles -> 0..MaxBytes],
           \A s \in Roles : sent[s] <= sent'[s],
           n > 0 => isn[r] + 1 <= seq /\ seq + n <= isn[r] + 1 + sent'[r]
    PROVE  CaptureInv'
<1>1. /\ isn' = isn /\ isn \in [Roles -> ISNs] /\ sent \in [Roles -> 0..MaxBytes]
      /\ packets \in Seq(Packet)
      /\ stream' = stream /\ ~stream.analysed
  BY DEF Send, CaptureInv, WireTypes
<1>2. stream' = NotAnalysed
  BY <1>1 DEF CaptureInv, Reassembled
<1>3. \A s \in Roles : isn[s] \in Nat /\ sent[s] \in Nat /\ sent'[s] \in Nat
  <2>1. \A f \in [Roles -> ISNs] : \A s \in Roles : f[s] \in Nat
    BY Numbers
  <2>2. \A f \in [Roles -> 0..MaxBytes] : \A s \in Roles : f[s] \in Nat
    BY Numbers
  <2> QED
    BY <1>1, <2>1, <2>2
<1>4. ASSUME NEW p \in Packet, Within(p, isn, sent) PROVE Within(p, isn, sent')
  <2>1. /\ p.from \in Roles /\ p.seq \in Nat /\ p.len \in Nat
        /\ isn[p.from] \in Nat /\ sent[p.from] \in Nat /\ sent'[p.from] \in Nat
        /\ sent[p.from] <= sent'[p.from]
    BY <1>3, Numbers
  <2> DEFINE first == isn[p.from]
             before == sent[p.from]
             after == sent'[p.from]
  <2>2. p.len > 0 => first + 1 <= p.seq /\ p.seq + p.len <= first + 1 + before
    BY <1>4 DEF Within, End
  <2>3. first \in Nat /\ before \in Nat /\ after \in Nat /\ before <= after
    BY <2>1
  <2> HIDE DEF first, before, after
  <2>4. p.len > 0 => first + 1 <= p.seq /\ p.seq + p.len <= first + 1 + after
    BY <2>1, <2>2, <2>3
  <2> QED
    BY <2>4 DEF Within, End, first, after
<1>5. \A k \in DOMAIN packets : Within(packets[k], isn, sent')
  <2> TAKE k \in DOMAIN packets
  <2>1. packets[k] \in Packet /\ Within(packets[k], isn, sent)
    BY <1>1 DEF CaptureInv
  <2> QED
    BY <1>4, <2>1
<1>6. CASE packets' = packets
  <2>1. WireTypes'
    BY <1>1, <1>6 DEF WireTypes
  <2>2. \A k \in DOMAIN packets' : Within(packets'[k], isn, sent')
    BY <1>5, <1>6
  <2> QED
    BY <1>1, <1>2, <2>1, <2>2 DEF CaptureInv
<1>7. ASSUME NEW m \in 0..n,
             packets' = Append(packets, [from |-> r, seq |-> seq, len |-> m, flags |-> flags])
      PROVE  CaptureInv'
  <2> DEFINE p == [from |-> r, seq |-> seq, len |-> m, flags |-> flags]
  <2>1. p \in Packet
    BY DEF Packet, FlagSets
  <2>2. Within(p, isn, sent')
    BY <1>1, <1>3 DEF Within, End
  <2>3. packets' = Append(packets, p)
    BY <1>7
  <2> HIDE DEF p
  <2>4. packets' \in Seq(Packet) /\ DOMAIN packets' = DOMAIN packets \cup {Len(packets) + 1}
        /\ (\A k \in DOMAIN packets : packets'[k] = packets[k])
        /\ packets'[Len(packets) + 1] = p
    BY <1>1, <2>1, <2>3
  <2>5. WireTypes'
    BY <1>1, <2>4 DEF WireTypes
  <2>6. \A k \in DOMAIN packets' : Within(packets'[k], isn, sent')
    BY <1>5, <2>2, <2>4
  <2> QED
    BY <1>1, <1>2, <2>5, <2>6 DEF CaptureInv
<1> QED
  BY <1>6, <1>7 DEF Send

(* A packet without a payload keeps it anyway.                             *)
LEMMA SendNothing ==
    ASSUME CaptureInv, NEW r \in Roles, NEW seq \in Nat, NEW flags \in FlagSets,
           Send(r, seq, 0, flags), sent' = sent
    PROVE  CaptureInv'
<1>1. sent \in [Roles -> 0..MaxBytes] /\ \A s \in Roles : sent[s] <= sent'[s]
  BY Numbers DEF CaptureInv, WireTypes
<1>2. ~(0 > 0)
  OBVIOUS
<1> QED
  BY <1>1, <1>2, SendStep

(* Without a wrap, a byte stands where its number says.                    *)
LEMMA RawSeqIs ==
    ASSUME CaptureInv, NEW r \in Roles, NEW k \in Nat
    PROVE  /\ RawSeq(r, k) \in Nat
           /\ NoWrap /\ k < MaxBytes => RawSeq(r, k) = isn[r] + 1 + k
<1>1. isn[r] \in Nat /\ isn[r] \in ISNs /\ Modulus \in Nat \ {0} /\ MaxBytes \in Nat
  <2>1. isn[r] \in ISNs
    BY DEF CaptureInv, WireTypes
  <2>2. Modulus \in Nat /\ Modulus # 0 /\ MaxBytes \in Nat
    BY CaptureAssumption
  <2> QED
    BY <2>1, <2>2, Numbers
<1>2. isn[r] + 1 + k \in Nat
  BY <1>1
<1>3. NoWrap /\ k < MaxBytes => isn[r] + 1 + k < Modulus
  BY <1>1 DEF NoWrap
<1> QED
  BY <1>1, <1>2, <1>3, Remainder DEF RawSeq

LEMMA InitCaptureInv == Init => CaptureInv
<1> SUFFICES ASSUME Init PROVE CaptureInv
  OBVIOUS
<1>1. [r \in Roles |-> 0] \in [Roles -> 0..MaxBytes]
  BY Numbers
<1>2. packets \in Seq(Packet) /\ DOMAIN packets = {}
  BY DEF Init
<1> QED
  BY <1>1, <1>2 DEF Init, CaptureInv, WireTypes

(* The stream depends on the ports and the packets only.                   *)
LEMMA SamePackets ==
    ASSUME UNCHANGED <<port, packets>>
    PROVE  Reassembled' = Reassembled
<1>1. Meta' = Meta
  BY DEF Meta, EndOf, IsOpeningSyn
<1>2. HandshakeObserved' = HandshakeObserved
  BY DEF HandshakeObserved, Some
<1>3. ConnectionClosed' = ConnectionClosed
  BY DEF ConnectionClosed, Some
<1>4. /\ ChunksOf(Meta.client.role)' = ChunksOf(Meta.client.role)
      /\ ChunksOf(Meta.server.role)' = ChunksOf(Meta.server.role)
  BY <1>1 DEF ChunksOf
<1> QED
  BY <1>1, <1>2, <1>3, <1>4 DEF Reassembled

(* What a packet carries is sent already, or is sent with it.              *)
LEMMA CaptureStep == ASSUME CaptureInv, NoWrap, [Next]_vars PROVE CaptureInv'
<1>1. /\ isn \in [Roles -> ISNs] /\ sent \in [Roles -> 0..MaxBytes]
      /\ MaxBytes \in Nat
      /\ \A r \in Roles : isn[r] \in Nat /\ sent[r] \in Nat /\ sent[r] <= MaxBytes
  <2>1. \A f \in [Roles -> ISNs] : \A s \in Roles : f[s] \in Nat
    BY Numbers
  <2>2. \A f \in [Roles -> 0..MaxBytes] : \A s \in Roles : f[s] \in Nat /\ f[s] <= MaxBytes
    BY Numbers
  <2> QED
    BY <2>1, <2>2, Numbers DEF CaptureInv, WireTypes
<1>2. /\ Plain \in FlagSets
      /\ [Plain EXCEPT !.fin = TRUE] \in FlagSets /\ [Plain EXCEPT !.rst = TRUE] \in FlagSets
      /\ \A r \in Roles : [Plain EXCEPT !.syn = TRUE, !.ack = (r = "acceptor")] \in FlagSets
  BY DEF Plain, FlagSets
<1>3. ASSUME NEW r \in Roles, SendSyn(r) PROVE CaptureInv'
  <2>1. /\ Send(r, isn[r], 0, [Plain EXCEPT !.syn = TRUE, !.ack = (r = "acceptor")])
        /\ sent' = sent
    BY <1>3 DEF SendSyn
  <2> QED
    BY <1>1, <1>2, <2>1, SendNothing
<1>4. ASSUME NEW r \in Roles, SendData(r) PROVE CaptureInv'
  <2>1. PICK n \in 1..(MaxBytes - sent[r]) :
            /\ Send(r, RawSeq(r, sent[r]), n, Plain)
            /\ sent' = [sent EXCEPT ![r] = @ + n]
    BY <1>4 DEF SendData
  <2>2. n \in Nat /\ n > 0 /\ sent[r] + n \in 0..MaxBytes /\ sent[r] < MaxBytes
    BY <1>1
  <2>3. RawSeq(r, sent[r]) \in Nat /\ RawSeq(r, sent[r]) = isn[r] + 1 + sent[r]
    BY <1>1, <2>2, RawSeqIs
  <2>4. sent' \in [Roles -> 0..MaxBytes] /\ sent'[r] = sent[r] + n
    BY <1>1, <2>1, <2>2
  <2>5. \A s \in Roles : sent[s] <= sent'[s]
    BY <1>1, <2>1, <2>2
  <2>6. /\ isn[r] + 1 <= RawSeq(r, sent[r])
        /\ RawSeq(r, sent[r]) + n <= isn[r] + 1 + sent'[r]
    BY <1>1, <2>2, <2>3, <2>4
  <2> QED
    BY <1>2, <2>1, <2>2, <2>3, <2>4, <2>5, <2>6, SendStep
<1>5. ASSUME NEW r \in Roles, Retransmit(r) PROVE CaptureInv'
  <2>1. PICK k \in 0..(sent[r] - 1) : \E n \in 1..(sent[r] - k) :
            Send(r, RawSeq(r, k), n, Plain)
    BY <1>5 DEF Retransmit
  <2>2. PICK n \in 1..(sent[r] - k) : Send(r, RawSeq(r, k), n, Plain)
    BY <2>1
  <2>3. n \in Nat /\ n > 0 /\ k \in Nat /\ k < MaxBytes /\ k + n <= sent[r]
    BY <1>1
  <2>4. RawSeq(r, k) \in Nat /\ RawSeq(r, k) = isn[r] + 1 + k
    BY <2>3, RawSeqIs
  <2>5. sent' = sent /\ \A s \in Roles : sent[s] <= sent'[s]
    BY <1>1, <1>5 DEF Retransmit
  <2>6. isn[r] + 1 <= RawSeq(r, k) /\ RawSeq(r, k) + n <= isn[r] + 1 + sent'[r]
    BY <1>1, <2>3, <2>4, <2>5
  <2> QED
    BY <1>1, <1>2, <2>2, <2>3, <2>4, <2>5, <2>6, SendStep
<1>6. ASSUME NEW r \in Roles, SendFin(r) PROVE CaptureInv'
  <2>1. /\ Send(r, RawSeq(r, sent[r]), 0, [Plain EXCEPT !.fin = TRUE])
        /\ sent' = sent /\ RawSeq(r, sent[r]) \in Nat
    BY <1>1, <1>6, RawSeqIs DEF SendFin
  <2> QED
    BY <1>1, <1>2, <2>1, SendNothing
<1>7. ASSUME NEW r \in Roles, SendReset(r) PROVE CaptureInv'
  <2>1. /\ Send(r, RawSeq(r, sent[r]), 0, [Plain EXCEPT !.rst = TRUE])
        /\ sent' = sent /\ RawSeq(r, sent[r]) \in Nat
    BY <1>1, <1>7, RawSeqIs DEF SendReset
  <2> QED
    BY <1>1, <1>2, <2>1, SendNothing
<1>8. ASSUME Analyse PROVE CaptureInv'
  <2>1. /\ UNCHANGED <<port, isn, syn, fin, sent, packets>>
        /\ packets # <<>> /\ stream' = Reassembled
    BY <1>8 DEF Analyse, wire
  <2>2. Reassembled' = Reassembled
    BY <2>1, SamePackets
  <2> QED
    BY <2>1, <2>2 DEF CaptureInv, WireTypes
<1>9. ASSUME UNCHANGED vars PROVE CaptureInv'
  <2>1. UNCHANGED <<port, isn, syn, fin, sent, packets, stream>>
    BY <1>9 DEF vars
  <2>2. Reassembled' = Reassembled
    BY <2>1, SamePackets
  <2> QED
    BY <2>1, <2>2 DEF CaptureInv, WireTypes
<1> QED
  BY <1>3, <1>4, <1>5, <1>6, <1>7, <1>8, <1>9 DEF Next

(* Every captured payload is a part of what its sender sent by then, and   *)
(* the stream is made of the packets that are there.                       *)
THEOREM CaptureInvariant == ASSUME NoWrap PROVE Spec => []CaptureInv
<1>1. CaptureInv /\ [Next]_vars => CaptureInv'
  BY CaptureStep
<1> QED
  BY <1>1, InitCaptureInv, PTL DEF Spec

-----------------------------------------------------------------------------
(* The ends of the stream are the two peers.                               *)
LEMMA EndsArePeers ==
    ASSUME CaptureInv, packets # <<>>
    PROVE  /\ Meta.client.role \in Roles /\ Meta.server.role \in Roles
           /\ Meta.client.role # Meta.server.role
<1> DEFINE syns == {k \in DOMAIN packets : IsOpeningSyn(packets[k])}
           row == IF syns = {} THEN 1 ELSE Least(syns)
           from == packets[row].from
<1>1. packets \in Seq(Packet) /\ DOMAIN packets \subseteq Nat /\ 1 \in DOMAIN packets
  BY DEF CaptureInv, WireTypes
<1>2. row \in DOMAIN packets
  <2>1. syns \subseteq Nat /\ syns \subseteq DOMAIN packets
    BY <1>1
  <2> HIDE DEF syns
  <2>2. syns # {} => Least(syns) \in syns
    BY <2>1, LeastNumber
  <2> QED
    BY <1>1, <2>1, <2>2
<1> HIDE DEF row
<1>3. from \in Roles
  <2>1. packets[row] \in Packet
    BY <1>1, <1>2
  <2> QED
    BY <2>1, Numbers
<1>4. Other(from) \in Roles /\ Other(from) # from
  BY <1>3 DEF Other, Roles
<1>5. Meta = Orient(EndOf(from), EndOf(Other(from)))
  BY DEF Meta, row
<1> HIDE DEF from
<1> QED
  BY <1>3, <1>4, <1>5 DEF Orient, EndOf

(* What the chunks of a peer carry is what the capture holds of it.        *)
LEMMA ChunksOfPeer ==
    ASSUME CaptureInv, NEW r \in Roles
    PROVE  /\ ChunksOf(r) \in Seq(Chunk)
           /\ \A b : b \in Carried(ChunksOf(r))
                        <=> \E k \in DOMAIN packets :
                                packets[k].from = r /\ b \in BytesOf(packets[k])
<1> DEFINE I == {k \in DOMAIN packets : packets[k].from = r /\ packets[k].len > 0}
           theirs == Picked(packets, I)
           chunks == [k \in DOMAIN theirs |-> [seq |-> theirs[k].seq, len |-> theirs[k].len]]
<1>1. packets \in Seq(Packet) /\ \A k \in DOMAIN packets : packets[k] \in Packet
  BY DEF CaptureInv, WireTypes
<1>2. /\ theirs \in Seq(Packet)
      /\ \A m \in DOMAIN theirs : \E k \in DOMAIN packets : k \in I /\ theirs[m] = packets[k]
      /\ \A k \in DOMAIN packets : k \in I => \E m \in DOMAIN theirs : theirs[m] = packets[k]
  <2> HIDE DEF I
  <2> QED
    BY <1>1, PickedElements
<1>3. ChunksOf(r) = chunks
  BY DEF ChunksOf
<1> HIDE DEF theirs
<1>4. \A m \in DOMAIN theirs : [seq |-> theirs[m].seq, len |-> theirs[m].len] \in Chunk
  <2> TAKE m \in DOMAIN theirs
  <2>1. theirs[m] \in Packet
    BY <1>2
  <2>2. theirs[m].seq \in Nat /\ theirs[m].len \in Nat
    BY <2>1, Numbers
  <2> QED
    BY <2>2 DEF Chunk
<1>5. chunks \in Seq(Chunk) /\ DOMAIN chunks = DOMAIN theirs
  <2>1. DOMAIN theirs = 1..Len(theirs) /\ Len(theirs) \in Nat
    BY <1>2
  <2>2. chunks \in [1..Len(theirs) -> Chunk]
    BY <1>4, <2>1
  <2> HIDE DEF chunks
  <2>3. chunks \in Seq(Chunk)
    BY <2>1, <2>2, SequenceOf
  <2> QED
    BY <2>3 DEF chunks
<1>6. \A m \in DOMAIN theirs : BytesOf(chunks[m]) = BytesOf(theirs[m])
  BY DEF BytesOf, End
<1>7. \A k \in DOMAIN packets : BytesOf(packets[k]) # {} => packets[k].len > 0
  <2> TAKE k \in DOMAIN packets
  <2>1. packets[k].seq \in Nat /\ packets[k].len \in Nat
    BY <1>1, Numbers
  <2> QED
    BY <2>1 DEF BytesOf, End
<1> HIDE DEF chunks
<1>8. ASSUME NEW b, b \in Carried(chunks)
      PROVE  \E k \in DOMAIN packets : packets[k].from = r /\ b \in BytesOf(packets[k])
  <2>1. PICK m \in DOMAIN theirs : b \in BytesOf(theirs[m])
    BY <1>5, <1>6, <1>8 DEF Carried
  <2> QED
    BY <1>2, <2>1
<1>9. ASSUME NEW b, NEW k \in DOMAIN packets, packets[k].from = r, b \in BytesOf(packets[k])
      PROVE  b \in Carried(chunks)
  <2>1. k \in I
    BY <1>7, <1>9
  <2>2. PICK m \in DOMAIN theirs : theirs[m] = packets[k]
    BY <1>2, <2>1
  <2> QED
    BY <1>5, <1>6, <1>9, <2>2 DEF Carried
<1> QED
  BY <1>3, <1>5, <1>8, <1>9

(* The positions it holds are those of bytes the peer sent.                *)
LEMMA Positions ==
    ASSUME CaptureInv, NoWrap, NEW r \in Roles
    PROVE  /\ isn[r] \in Nat /\ sent[r] \in Nat
           /\ \A b \in Carried(ChunksOf(r)) :
                  /\ b \in (isn[r] + 1) .. (isn[r] + sent[r])
                  /\ Offset(r, b) = b - isn[r] - 1
           /\ CapturedBytes(r) = {b - isn[r] - 1 : b \in Carried(ChunksOf(r))}
<1> DEFINE first == isn[r]
           count == sent[r]
           C == Carried(ChunksOf(r))
<1>1. /\ first \in Nat /\ count \in Nat /\ first + 1 + count <= Modulus
      /\ Modulus \in Nat \ {0}
  <2>1. first \in ISNs /\ count \in 0..MaxBytes
    BY DEF CaptureInv, WireTypes
  <2>2. first + 1 + MaxBytes <= Modulus
    BY <2>1 DEF NoWrap
  <2>3. first \in Nat /\ count \in Nat /\ count <= MaxBytes
    <3> HIDE DEF first, count
    <3>1. first \in Nat
      BY <2>1, Numbers
    <3>2. count \in Nat /\ count <= MaxBytes
      BY <2>1, CaptureAssumption
    <3> QED
      BY <3>1, <3>2
  <2>4. Modulus \in Nat /\ Modulus # 0 /\ MaxBytes \in Nat
    BY CaptureAssumption
  <2> HIDE DEF first, count
  <2> QED
    BY <2>2, <2>3, <2>4
<1>2. \A b : b \in C <=> \E k \in DOMAIN packets :
                             packets[k].from = r /\ b \in BytesOf(packets[k])
  BY ChunksOfPeer
<1> HIDE DEF C
<1>3. ASSUME NEW k \in DOMAIN packets, packets[k].from = r, NEW b \in BytesOf(packets[k])
      PROVE  b \in (first + 1) .. (first + count) /\ Offset(r, b) = b - first - 1
  <2>1. packets[k] \in Packet /\ Within(packets[k], isn, sent)
    BY DEF CaptureInv, WireTypes
  <2>2. packets[k].seq \in Nat /\ packets[k].len \in Nat
    BY <2>1, Numbers
  <2>3. b \in (first + 1) .. (first + count)
    BY <1>1, <1>3, <2>1, <2>2 DEF Within, BytesOf, End
  <2>4. b - first - 1 \in Nat /\ b - first - 1 < Modulus
    BY <1>1, <2>3
  <2> HIDE DEF first
  <2>5. (b - first - 1) % Modulus = b - first - 1
    BY <1>1, <2>4, Remainder
  <2> QED
    BY <2>3, <2>5 DEF Offset, first
<1>4. \A b \in C : b \in (first + 1) .. (first + count) /\ Offset(r, b) = b - first - 1
  BY <1>2, <1>3
<1>5. CapturedBytes(r) = {b - first - 1 : b \in C}
  <2>1. ASSUME NEW x \in CapturedBytes(r) PROVE x \in {b - first - 1 : b \in C}
    <3>1. PICK k \in DOMAIN packets : /\ packets[k].from = r
                                      /\ x \in {Offset(r, b) : b \in BytesOf(packets[k])}
      BY <2>1 DEF CapturedBytes
    <3>2. PICK b \in BytesOf(packets[k]) : x = Offset(r, b)
      BY <3>1
    <3>3. b \in C /\ x = b - first - 1
      BY <1>2, <1>3, <3>1, <3>2
    <3> QED
      BY <3>3
  <2>2. ASSUME NEW b \in C PROVE b - first - 1 \in CapturedBytes(r)
    <3>1. PICK k \in DOMAIN packets : packets[k].from = r /\ b \in BytesOf(packets[k])
      BY <1>2
    <3>2. b - first - 1 = Offset(r, b)
      BY <1>3, <3>1
    <3> QED
      BY <3>1, <3>2 DEF CapturedBytes
  <2> QED
    BY <2>1, <2>2
<1> QED
  BY <1>1, <1>4, <1>5 DEF C

(* The reassembled positions of a peer.                                    *)
Raw(r) == ReassembleDirection(ChunksOf(r)).assembled

LEMMA RawOfPeer ==
    ASSUME CaptureInv, NEW r \in Roles
    PROVE  /\ Raw(r) \in Seq(Nat) /\ Ascending(Raw(r))
           /\ Range(Raw(r)) = Carried(ChunksOf(r))
           /\ ReassembleDirection(ChunksOf(r)).has_gap <=> Hole(ChunksOf(r))
<1> DEFINE chunks == ChunksOf(r)
<1>1. chunks \in Seq(Chunk)
  BY ChunksOfPeer
<1> HIDE DEF chunks
<1>2. LET d == ReassembleDirection(chunks)
      IN  /\ d \in [assembled : Seq(Nat), has_gap : BOOLEAN]
          /\ Ascending(d.assembled)
          /\ Range(d.assembled) = Carried(chunks)
          /\ d.has_gap <=> Hole(chunks)
  BY <1>1, ReassembledDirection
<1> QED
  BY <1>2 DEF Raw, chunks

(* The analysed stream holds, for each peer, its own positions.            *)
LEMMA AnalysedOfPeer ==
    ASSUME CaptureInv, stream.analysed, NEW r \in Roles
    PROVE  /\ Analysed(r) = [k \in DOMAIN Raw(r) |-> Offset(r, Raw(r)[k])]
           /\ stream = Reassembled
<1>1. stream = Reassembled /\ packets # <<>>
  BY DEF CaptureInv, NotAnalysed
<1>2. /\ Meta.client.role \in Roles /\ Meta.server.role \in Roles
      /\ Meta.client.role # Meta.server.role
  BY <1>1, EndsArePeers
<1>3. /\ stream.client.role = Meta.client.role
      /\ stream.client_to_server = Raw(Meta.client.role)
      /\ stream.server_to_client = Raw(Meta.server.role)
  BY <1>1 DEF Reassembled, Raw
<1>4. r = Meta.client.role \/ (r # Meta.client.role /\ r = Meta.server.role)
  BY <1>2 DEF Roles
<1> QED
  BY <1>1, <1>3, <1>4 DEF Analysed

(* As bytes of the peer they ascend from those it sent first.              *)
LEMMA AnalysedBytes ==
    ASSUME CaptureInv, NoWrap, stream.analysed, NEW r \in Roles
    PROVE  /\ Analysed(r) \in Seq(Nat) /\ Ascending(Analysed(r))
           /\ Len(Analysed(r)) = Len(Raw(r))
           /\ \A k \in 1..Len(Raw(r)) : Analysed(r)[k] = Raw(r)[k] - isn[r] - 1
           /\ Range(Analysed(r)) = CapturedBytes(r)
           /\ CapturedBytes(r) \subseteq SentBytes(r)
<1> DEFINE raw == Raw(r)
           C == Carried(ChunksOf(r))
           first == isn[r]
           count == sent[r]
           own == Analysed(r)
<1>1. raw \in Seq(Nat) /\ Ascending(raw) /\ Range(raw) = C
  BY RawOfPeer
<1>2. /\ first \in Nat /\ count \in Nat
      /\ \A b \in C : b \in (first + 1) .. (first + count) /\ Offset(r, b) = b - first - 1
      /\ CapturedBytes(r) = {b - first - 1 : b \in C}
  BY Positions
<1>3. own = [k \in DOMAIN raw |-> Offset(r, raw[k])]
  BY AnalysedOfPeer
<1> HIDE DEF raw, C, first, count, own
<1>4. DOMAIN raw = 1..Len(raw) /\ Len(raw) \in Nat
  BY <1>1
<1>5. \A k \in 1..Len(raw) : raw[k] \in C /\ raw[k] \in Nat
  BY <1>1, <1>4 DEF Range
<1>6. \A k \in 1..Len(raw) : own[k] = raw[k] - first - 1 /\ own[k] \in Nat
  BY <1>2, <1>3, <1>4, <1>5
<1>7. own \in Seq(Nat) /\ Len(own) = Len(raw) /\ DOMAIN own = 1..Len(raw)
  <2>1. own \in [1..Len(raw) -> Nat]
    BY <1>3, <1>4, <1>6
  <2> QED
    BY <1>4, <2>1, SequenceOf
<1>8. Ascending(own)
  <2> SUFFICES ASSUME NEW a \in 1..Len(raw), NEW b \in 1..Len(raw), a < b
               PROVE  own[a] < own[b]
    BY <1>7 DEF Ascending
  <2>1. raw[a] < raw[b]
    BY <1>1, <1>4 DEF Ascending
  <2> QED
    BY <1>2, <1>5, <1>6, <2>1
<1>9. Range(own) = {b - first - 1 : b \in C}
  <2>1. ASSUME NEW k \in 1..Len(raw) PROVE own[k] \in {b - first - 1 : b \in C}
    BY <1>5, <1>6
  <2>2. ASSUME NEW b \in C PROVE b - first - 1 \in Range(own)
    <3>1. PICK k \in 1..Len(raw) : raw[k] = b
      BY <1>1, <1>4 DEF Range
    <3> QED
      BY <1>6, <1>7, <3>1 DEF Range
  <2> QED
    BY <1>7, <2>1, <2>2 DEF Range
<1>10. CapturedBytes(r) \subseteq 0..(count - 1)
  BY <1>2
<1> QED
  BY <1>2, <1>6, <1>7, <1>8, <1>9, <1>10 DEF SentBytes, raw, first, count, own

(* An ascending sequence has as many elements as it is long.               *)
LEMMA AscendingCount ==
    ASSUME NEW s \in Seq(Nat), Ascending(s)
    PROVE  Cardinality(Range(s)) = Len(s)
<1>1. DOMAIN s = 1..Len(s) /\ Len(s) \in Nat /\ \A k \in 1..Len(s) : s[k] \in Nat
  OBVIOUS
<1>2. s \in [1..Len(s) -> Range(s)]
  BY <1>1 DEF Range
<1>3. \A a, b \in 1..Len(s) : s[a] = s[b] => a = b
  <2> SUFFICES ASSUME NEW a \in 1..Len(s), NEW b \in 1..Len(s), a < b
               PROVE  s[a] # s[b]
    BY <1>1
  <2>1. s[a] < s[b]
    BY <1>1 DEF Ascending
  <2> QED
    BY <1>1, <2>1
<1>4. \A x \in Range(s) : \E k \in 1..Len(s) : s[k] = x
  BY <1>1 DEF Range
<1>5. s \in Bijection(1..Len(s), Range(s))
  BY <1>2, <1>3, <1>4 DEF Bijection, Injection, IsInjective, Surjection
<1>6. ExistsBijection(1..Len(s), Range(s))
  BY <1>5 DEF ExistsBijection
<1> QED
  BY <1>1, <1>6, FS_CountingElements

(* Each direction of the analysed stream is what the capture holds of what *)
(* its peer sent, each byte once.                                          *)
THEOREM OwnBytes == ASSUME NoWrap PROVE Spec => []OwnBytesOnce
<1>1. ASSUME CaptureInv PROVE OwnBytesOnce
  <2> SUFFICES ASSUME stream.analysed, NEW r \in Roles
               PROVE  /\ ToSet(Analysed(r)) = CapturedBytes(r)
                      /\ CapturedBytes(r) \subseteq SentBytes(r)
                      /\ Cardinality(CapturedBytes(r)) = Len(Analysed(r))
    BY DEF OwnBytesOnce
  <2>1. /\ Analysed(r) \in Seq(Nat) /\ Ascending(Analysed(r))
        /\ Range(Analysed(r)) = CapturedBytes(r)
        /\ CapturedBytes(r) \subseteq SentBytes(r)
    BY <1>1, AnalysedBytes
  <2>2. ToSet(Analysed(r)) = Range(Analysed(r))
    BY DEF ToSet, Range
  <2>3. Cardinality(Range(Analysed(r))) = Len(Analysed(r))
    BY <2>1, AscendingCount
  <2> QED
    BY <2>1, <2>2, <2>3
<1> QED
  BY <1>1, CaptureInvariant, PTL

(* Where no position is missing the bytes follow one another.              *)
LEMMA NoHoleConsecutive ==
    ASSUME NEW chunks \in Seq(Chunk), ~Hole(chunks),
           NEW s \in Seq(Nat), Ascending(s), Range(s) = Carried(chunks),
           NEW k \in 1..(Len(s) - 1)
    PROVE  s[k + 1] = s[k] + 1
<1>1. /\ DOMAIN s = 1..Len(s) /\ Len(s) \in Nat
      /\ k \in 1..Len(s) /\ k + 1 \in 1..Len(s) /\ k < k + 1
      /\ \A m \in 1..Len(s) : s[m] \in Nat
  OBVIOUS
<1>2. s[k] < s[k + 1]
  BY <1>1 DEF Ascending
<1>3. s[k] \in Carried(chunks) /\ s[k + 1] \in Carried(chunks)
  BY <1>1 DEF Range
<1>4. PICK i \in DOMAIN chunks : s[k] \in BytesOf(chunks[i])
  BY <1>3 DEF Carried
<1>5. PICK j \in DOMAIN chunks : s[k + 1] \in BytesOf(chunks[j])
  BY <1>3 DEF Carried
<1>6. \A x \in Chunk : \A b \in BytesOf(x) :
          /\ HasPayload(x) /\ x.seq \in Nat /\ End(x) \in Nat /\ b \in Nat
          /\ x.seq <= b /\ b < End(x)
  <2>1. \A x \in Chunk : x.seq \in Nat /\ x.len \in Nat
    BY DEF Chunk
  <2> QED
    BY <2>1 DEF BytesOf, End, HasPayload
<1>7. /\ HasPayload(chunks[i]) /\ chunks[i].seq \in Nat /\ chunks[i].seq <= s[k]
      /\ HasPayload(chunks[j]) /\ End(chunks[j]) \in Nat /\ s[k + 1] < End(chunks[j])
  <2>1. chunks[i] \in Chunk /\ chunks[j] \in Chunk
    OBVIOUS
  <2> QED
    BY <1>4, <1>5, <1>6, <2>1
<1>8. ASSUME s[k] + 1 < s[k + 1] PROVE FALSE
  <2>1. s[k] + 1 \in chunks[i].seq .. (End(chunks[j]) - 1)
    <3> DEFINE b == s[k]
               next == s[k + 1]
               first == chunks[i].seq
               last == End(chunks[j])
    <3>1. b \in Nat /\ next \in Nat /\ first \in Nat /\ last \in Nat
      BY <1>1, <1>7
    <3>2. first <= b /\ b + 1 < next /\ next < last
      BY <1>7, <1>8
    <3> HIDE DEF b, next, first, last
    <3>3. b + 1 \in first .. (last - 1)
      BY <3>1, <3>2
    <3> QED
      BY <3>3 DEF b, first, last
  <2>2. PICK n \in DOMAIN chunks : s[k] + 1 \in BytesOf(chunks[n])
    BY <1>7, <2>1 DEF Hole
  <2>3. s[k] + 1 \in Range(s)
    BY <2>2 DEF Carried
  <2>4. PICK m \in 1..Len(s) : s[m] = s[k] + 1
    BY <1>1, <2>3 DEF Range
  <2>5. ~(m <= k)
    <3> SUFFICES ASSUME m <= k PROVE FALSE
      OBVIOUS
    <3>1. m = k \/ m < k
      BY <1>1
    <3>2. m = k \/ s[m] < s[k]
      BY <1>1, <3>1 DEF Ascending
    <3>3. s[m] \in Nat /\ s[k] \in Nat
      BY <1>1
    <3> QED
      BY <2>4, <3>2, <3>3
  <2>6. ~(m >= k + 1)
    <3> SUFFICES ASSUME m >= k + 1 PROVE FALSE
      OBVIOUS
    <3>1. m = k + 1 \/ k + 1 < m
      BY <1>1
    <3>2. m = k + 1 \/ s[k + 1] < s[m]
      BY <1>1, <3>1 DEF Ascending
    <3>3. s[m] \in Nat /\ s[k] \in Nat /\ s[k + 1] \in Nat
      BY <1>1
    <3> DEFINE here == s[m]
               next == s[k + 1]
    <3>4. here < next /\ (here = next \/ next < here) /\ here \in Nat /\ next \in Nat
      BY <1>8, <2>4, <3>2, <3>3
    <3> HIDE DEF here, next
    <3> QED
      BY <3>4
  <2> QED
    BY <1>1, <2>5, <2>6
<1> QED
  BY <1>1, <1>2, <1>8

(* The gap flag of a direction is raised exactly if the capture lost bytes *)
(* of its peer between two that it holds.                                  *)
LEMMA HoleIsLoss ==
    ASSUME CaptureInv, NoWrap, stream.analysed, NEW r \in Roles
    PROVE  Hole(ChunksOf(r)) <=> LostInside(r) # {}
<1> DEFINE chunks == ChunksOf(r)
           C == Carried(chunks)
           first == isn[r]
           count == sent[r]
           Own == CapturedBytes(r)
<1>1. /\ first \in Nat /\ count \in Nat
      /\ \A b \in C : b \in (first + 1) .. (first + count)
      /\ Own = {b - first - 1 : b \in C}
  BY Positions
<1>2. chunks \in Seq(Chunk)
  BY ChunksOfPeer
<1>3. \A j \in DOMAIN chunks : /\ chunks[j].seq \in Nat /\ chunks[j].len \in Nat
                               /\ End(chunks[j]) = chunks[j].seq + chunks[j].len
  <2> TAKE j \in DOMAIN chunks
  <2>1. chunks[j] \in Chunk
    BY <1>2
  <2> QED
    BY <2>1 DEF Chunk, End
<1>4. \A b : b \in C <=> \E j \in DOMAIN chunks : b \in BytesOf(chunks[j])
  BY DEF Carried
<1> HIDE DEF chunks, C, first, count, Own
<1>5. \A x \in 0..(count - 1) : x \in Own <=> x + first + 1 \in C
  <2> TAKE x \in 0..(count - 1)
  <2>1. ASSUME x \in Own PROVE x + first + 1 \in C
    <3>1. PICK b \in C : x = b - first - 1
      BY <1>1, <2>1
    <3>2. x + first + 1 = b
      BY <1>1, <3>1
    <3> QED
      BY <3>1, <3>2
  <2>2. ASSUME x + first + 1 \in C PROVE x \in Own
    <3>1. x = (x + first + 1) - first - 1
      BY <1>1
    <3> QED
      BY <1>1, <2>2, <3>1
  <2> QED
    BY <2>1, <2>2
<1>6. Own \subseteq 0..(count - 1)
  BY <1>1
<1>7. ASSUME Hole(chunks) PROVE LostInside(r) # {}
  <2>1. PICK i, j \in DOMAIN chunks :
            /\ HasPayload(chunks[i]) /\ HasPayload(chunks[j])
            /\ \E p \in chunks[i].seq .. (End(chunks[j]) - 1) :
                   \A m \in DOMAIN chunks : p \notin BytesOf(chunks[m])
    BY <1>7 DEF Hole
  <2>2. PICK p \in chunks[i].seq .. (End(chunks[j]) - 1) :
            \A m \in DOMAIN chunks : p \notin BytesOf(chunks[m])
    BY <2>1
  <2> DEFINE low == chunks[i].seq
             high == End(chunks[j]) - 1
  <2>3. low \in BytesOf(chunks[i]) /\ high \in BytesOf(chunks[j])
    BY <1>3, <2>1 DEF BytesOf, HasPayload
  <2>4. low \in C /\ high \in C /\ p \notin C
    BY <1>4, <2>2, <2>3
  <2>5. p \in low..high /\ low \in Nat /\ high \in Int
    BY <1>3, <2>2
  <2> HIDE DEF low, high
  <2>6. /\ low \in (first + 1) .. (first + count) /\ high \in (first + 1) .. (first + count)
        /\ p # low /\ p # high
    BY <1>1, <2>4
  <2>7. low < p /\ p < high /\ p \in Int
    BY <2>5, <2>6
  <2> DEFINE a == low - first - 1
             b == p - first - 1
             c == high - first - 1
  <2>8. a \in Own /\ c \in Own
    BY <1>1, <2>4
  <2>9. a < b /\ b < c /\ b \in 0..(count - 1) /\ b + first + 1 = p
    BY <1>1, <2>6, <2>7
  <2> HIDE DEF a, b, c
  <2>10. b \notin Own
    BY <1>5, <2>4, <2>9
  <2>11. b \in LostInside(r)
    BY <2>8, <2>9, <2>10 DEF LostInside, SentBytes, Own, count
  <2> QED
    BY <2>11
<1>8. ASSUME LostInside(r) # {} PROVE Hole(chunks)
  <2>1. PICK b \in 0..(count - 1) :
            b \notin Own /\ \E a, c \in Own : a < b /\ b < c
    BY <1>8 DEF LostInside, SentBytes, Own, count
  <2>2. PICK a \in Own, c \in Own : a < b /\ b < c
    BY <2>1
  <2> DEFINE p == b + first + 1
             low == a + first + 1
             high == c + first + 1
  <2>3. low \in C /\ high \in C /\ p \notin C
    BY <1>5, <1>6, <2>1, <2>2
  <2>4. low < p /\ p < high /\ p \in Int
    BY <1>1, <1>6, <2>1, <2>2
  <2> HIDE DEF p, low, high
  <2>5. PICK i \in DOMAIN chunks : low \in BytesOf(chunks[i])
    BY <1>4, <2>3
  <2>6. PICK j \in DOMAIN chunks : high \in BytesOf(chunks[j])
    BY <1>4, <2>3
  <2>7. low \in chunks[i].seq .. (End(chunks[i]) - 1) /\ high \in chunks[j].seq .. (End(chunks[j]) - 1)
    BY <2>5, <2>6 DEF BytesOf
  <2>8. HasPayload(chunks[i]) /\ HasPayload(chunks[j])
    BY <1>3, <2>7 DEF HasPayload
  <2>9. p \in chunks[i].seq .. (End(chunks[j]) - 1)
    BY <1>3, <2>4, <2>7
  <2>10. \A m \in DOMAIN chunks : p \notin BytesOf(chunks[m])
    BY <1>4, <2>3
  <2> QED
    BY <2>8, <2>9, <2>10 DEF Hole
<1> QED
  BY <1>7, <1>8 DEF chunks

(* is_complete is exactly: a SYN, a close, and no loss inside a direction, *)
(* each of which then reads as one run.                                    *)
THEOREM Contiguous == ASSUME NoWrap PROVE Spec => []CompleteIsContiguous
<1>1. ASSUME CaptureInv, stream.analysed
      PROVE  /\ stream.is_complete
                    <=> /\ \E r \in Roles : Held(r, "syn")
                        /\ \/ \A r \in Roles : Held(r, "fin")
                           \/ \E r \in Roles : Held(r, "rst")
                        /\ \A r \in Roles : LostInside(r) = {}
             /\ stream.is_complete =>
                    \A r \in Roles : ~Hole(ChunksOf(r))
  <2> DEFINE gap(r) == ReassembleDirection(ChunksOf(r)).has_gap
  <2>1. stream = Reassembled /\ packets # <<>>
    BY <1>1 DEF CaptureInv, NotAnalysed
  <2>2. /\ Meta.client.role \in Roles /\ Meta.server.role \in Roles
        /\ Meta.client.role # Meta.server.role
    BY <1>1, <2>1, EndsArePeers
  <2>3. stream.is_complete
            <=> /\ HandshakeObserved /\ ConnectionClosed
                /\ ~gap(Meta.client.role) /\ ~gap(Meta.server.role)
    BY <2>1 DEF Reassembled, GapInEither
  <2> HIDE DEF gap
  <2>4. \A r \in Roles : r = Meta.client.role \/ r = Meta.server.role
    BY <2>2 DEF Roles
  <2>5. stream.is_complete
            <=> HandshakeObserved /\ ConnectionClosed /\ \A r \in Roles : ~gap(r)
    BY <2>2, <2>3, <2>4
  <2>6. \A r \in Roles : gap(r) <=> Hole(ChunksOf(r))
    BY <1>1, RawOfPeer DEF gap
  <2>7. \A r \in Roles : gap(r) <=> LostInside(r) # {}
    BY <1>1, <2>6, HoleIsLoss
  <2>8. \A p \in DOMAIN packets : packets[p].from \in Roles
    <3> TAKE p \in DOMAIN packets
    <3>1. packets[p] \in Packet
      BY <1>1 DEF CaptureInv, WireTypes
    <3> QED
      BY <3>1 DEF Packet
  <2>9. HandshakeObserved <=> \E r \in Roles : Held(r, "syn")
    BY <2>8 DEF HandshakeObserved, Some, Held
  <2>10. ConnectionClosed <=> \/ \A r \in Roles : Held(r, "fin")
                             \/ \E r \in Roles : Held(r, "rst")
    BY <2>8 DEF ConnectionClosed, Some, Held
  <2> QED
    BY <2>5, <2>6, <2>7, <2>9, <2>10
<1>2. ASSUME CaptureInv, stream.analysed, stream.is_complete, NEW r \in Roles,
             NEW k \in 1..(Len(Analysed(r)) - 1)
      PROVE  Analysed(r)[k + 1] = Analysed(r)[k] + 1
  <2>5. ChunksOf(r) \in Seq(Chunk) /\ ~Hole(ChunksOf(r))
    BY <1>1, <1>2, ChunksOfPeer
  <2>6. /\ Raw(r) \in Seq(Nat) /\ Ascending(Raw(r))
        /\ Range(Raw(r)) = Carried(ChunksOf(r))
    BY <1>2, RawOfPeer
  <2>7. /\ Len(Analysed(r)) = Len(Raw(r))
        /\ \A m \in 1..Len(Raw(r)) : Analysed(r)[m] = Raw(r)[m] - isn[r] - 1
        /\ isn[r] \in Nat
    BY <1>2, AnalysedBytes, Positions
  <2>8. Raw(r)[k + 1] = Raw(r)[k] + 1
    BY <2>5, <2>6, <2>7, NoHoleConsecutive
  <2>9. k \in 1..Len(Raw(r)) /\ k + 1 \in 1..Len(Raw(r)) /\ Raw(r)[k] \in Nat
    BY <2>6, <2>7
  <2> DEFINE here == Raw(r)[k]
             next == Raw(r)[k + 1]
             first == isn[r]
  <2>10. Analysed(r)[k] = here - first - 1 /\ Analysed(r)[k + 1] = next - first - 1
    BY <2>7, <2>9
  <2>11. here \in Nat /\ first \in Nat /\ next = here + 1
    BY <2>7, <2>8, <2>9
  <2> HIDE DEF here, next, first
  <2> QED
    BY <2>10, <2>11
<1>3. ASSUME CaptureInv PROVE CompleteIsContiguous
  BY <1>1, <1>2, <1>3 DEF CompleteIsContiguous
<1> QED
  BY <1>3, CaptureInvariant, PTL

(* Of a whole capture no position of a peer is missing.                    *)
LEMMA WholeHasNoHole ==
    ASSUME CaptureInv, NoWrap, NEW r \in Roles, CapturedBytes(r) = SentBytes(r)
    PROVE  ~Hole(ChunksOf(r))
<1> DEFINE chunks == ChunksOf(r)
           first == isn[r]
           count == sent[r]
           C == Carried(chunks)
<1>1. chunks \in Seq(Chunk)
  BY ChunksOfPeer
<1>2. /\ first \in Nat /\ count \in Nat
      /\ \A b \in C : b \in (first + 1) .. (first + count)
      /\ CapturedBytes(r) = {b - first - 1 : b \in C}
  BY Positions
<1>3. {b - first - 1 : b \in C} = 0..(count - 1)
  BY <1>2 DEF SentBytes
<1> HIDE DEF chunks, first, count
<1>4. ASSUME NEW k \in (first + 1) .. (first + count) PROVE k \in C
  <2>1. k - first - 1 \in 0..(count - 1)
    BY <1>2
  <2>2. PICK b \in C : b - first - 1 = k - first - 1
    BY <1>3, <2>1
  <2>3. b \in Int /\ b = k
    BY <1>2, <2>2
  <2> QED
    BY <2>3
<1>5. \A x \in Chunk : x.seq \in Nat /\ x.len \in Nat
  BY DEF Chunk
<1>6. ASSUME NEW j \in DOMAIN chunks, HasPayload(chunks[j])
      PROVE  first + 1 <= chunks[j].seq /\ End(chunks[j]) - 1 <= first + count
             /\ chunks[j].seq \in Nat /\ End(chunks[j]) \in Nat
  <2>1. chunks[j].seq \in Nat /\ chunks[j].len \in Nat /\ chunks[j].len > 0
    BY <1>1, <1>5, <1>6 DEF HasPayload
  <2>2. chunks[j].seq \in BytesOf(chunks[j]) /\ End(chunks[j]) - 1 \in BytesOf(chunks[j])
    BY <2>1 DEF BytesOf, End
  <2>3. chunks[j].seq \in C /\ End(chunks[j]) - 1 \in C
    BY <2>2 DEF Carried
  <2> QED
    BY <1>2, <2>1, <2>3 DEF End
<1>7. ASSUME Hole(chunks) PROVE FALSE
  <2>1. PICK c \in {chunks[j] : j \in DOMAIN chunks}, d \in {chunks[j] : j \in DOMAIN chunks} :
            /\ HasPayload(c) /\ HasPayload(d)
            /\ \E k \in c.seq .. (End(d) - 1) :
                   \A j \in DOMAIN chunks : k \notin BytesOf(chunks[j])
    BY <1>7 DEF Hole
  <2>2. PICK k \in c.seq .. (End(d) - 1) : \A j \in DOMAIN chunks : k \notin BytesOf(chunks[j])
    BY <2>1
  <2>3. /\ first + 1 <= c.seq /\ End(d) - 1 <= first + count
        /\ c.seq \in Nat /\ End(d) \in Nat
    BY <1>6, <2>1
  <2>4. k \in (first + 1) .. (first + count)
    BY <1>2, <2>2, <2>3
  <2>5. k \in C
    BY <1>4, <2>4
  <2> QED
    BY <2>2, <2>5 DEF Carried
<1> QED
  BY <1>7 DEF chunks

(* When nothing is missing, the stream is called complete and reads as it  *)
(* was sent.                                                               *)
THEOREM WholeCaptures == ASSUME NoWrap PROVE Spec => []WholeCaptureIsComplete
<1>1. ASSUME CaptureInv PROVE WholeCaptureIsComplete
  <2> SUFFICES ASSUME stream.analysed, WholeCapture
               PROVE  /\ stream.is_complete
                      /\ \A r \in Roles : Analysed(r) = [k \in 1..sent[r] |-> k - 1]
    BY DEF WholeCaptureIsComplete
  <2>1. stream = Reassembled /\ packets # <<>>
    BY <1>1 DEF CaptureInv, NotAnalysed
  <2>2. /\ Meta.client.role \in Roles /\ Meta.server.role \in Roles
    BY <1>1, <2>1, EndsArePeers
  <2>3. \A r \in Roles : CapturedBytes(r) = SentBytes(r)
    BY DEF WholeCapture
  <2>4. \A r \in Roles : ~ReassembleDirection(ChunksOf(r)).has_gap
    <3> TAKE r \in Roles
    <3>1. ~Hole(ChunksOf(r))
      BY <1>1, <2>3, WholeHasNoHole
    <3> QED
      BY <1>1, <3>1, RawOfPeer
  <2>5. HandshakeObserved
    <3>1. "opener" \in Roles /\ syn["opener"]
      BY DEF WholeCapture, Roles
    <3>2. Held("opener", "syn")
      BY <3>1 DEF WholeCapture
    <3> QED
      BY <3>2 DEF HandshakeObserved, Some, Held
  <2>6. ConnectionClosed
    <3>1. CASE reset
      <4>1. PICK r \in Roles : Held(r, "rst")
        BY <3>1 DEF WholeCapture
      <4>2. PICK k \in DOMAIN packets : packets[k].flags["rst"]
        BY <4>1 DEF Held
      <4> QED
        BY <4>2 DEF ConnectionClosed, Some
    <3>2. CASE ~reset
      <4>1. \A r \in Roles : Held(r, "fin")
        BY <3>2 DEF WholeCapture
      <4>2. \A r \in Roles : \E k \in DOMAIN packets : packets[k].from = r /\ packets[k].flags["fin"]
        BY <4>1 DEF Held
      <4> QED
        BY <4>2 DEF ConnectionClosed, Some
    <3> QED
      BY <3>1, <3>2
  <2>7. stream.is_complete
    BY <2>1, <2>2, <2>4, <2>5, <2>6 DEF Reassembled, GapInEither
  <2>8. ASSUME NEW r \in Roles PROVE Analysed(r) = [k \in 1..sent[r] |-> k - 1]
    <3> DEFINE own == Analysed(r)
               whole == [k \in 1..sent[r] |-> k - 1]
    <3>1. /\ own \in Seq(Nat) /\ Ascending(own)
          /\ Range(own) = CapturedBytes(r)
      BY <1>1, AnalysedBytes
    <3>2. sent[r] \in Nat
      BY <1>1, Positions
    <3>3. whole \in [1..sent[r] -> Nat]
      BY <3>2
    <3>4. whole \in Seq(Nat) /\ DOMAIN whole = 1..sent[r]
      <4> HIDE DEF whole
      <4> QED
        BY <3>2, <3>3, SequenceOf
    <3>5. Ascending(whole)
      BY <3>2, <3>4 DEF Ascending
    <3>6. Range(whole) = 0..(sent[r] - 1)
      <4>1. \A k \in 1..sent[r] : whole[k] \in 0..(sent[r] - 1)
        BY <3>2
      <4>2. \A b \in 0..(sent[r] - 1) : b + 1 \in 1..sent[r] /\ whole[b + 1] = b
        BY <3>2
      <4> HIDE DEF whole
      <4> QED
        BY <3>4, <4>1, <4>2 DEF Range
    <3>7. Range(own) = Range(whole)
      BY <2>3, <3>1, <3>6 DEF SentBytes
    <3> HIDE DEF own, whole
    <3>8. own = whole
      BY <3>1, <3>4, <3>5, <3>7, AscendingUnique
    <3> QED
      BY <3>8 DEF own, whole
  <2> QED
    BY <2>7, <2>8
<1> QED
  BY <1>1, CaptureInvariant, PTL

(* What NoGapWithoutLoss fails for is a sequence number that wraps: without*)
(* one, no capture that lacks nothing is reported to lack something.       *)
THEOREM NoFalseGap == ASSUME NoWrap PROVE Spec => []NoGapWithoutLoss
<1>1. WholeCaptureIsComplete => NoGapWithoutLoss
  BY DEF WholeCaptureIsComplete, NoGapWithoutLoss
<1> QED
  BY <1>1, WholeCaptures, PTL
===============================================================================
