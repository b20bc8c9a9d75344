---------------------------- MODULE ReassemblyLoop ----------------------------
(***************************************************************************)
(* One direction of one TCP stream, from the packet loop of                *)
(* _reassemble_stream that collects its chunks in capture order to the     *)
(* loop of _reassemble_direction that sorts and merges them, one chunk per *)
(* step (src/src/ecforensics/ingestion/stream_reassembly.py).              *)
(***************************************************************************)
EXTENDS Reassembly

CONSTANTS SeqNums,    \* raw sequence numbers a packet can have
          Lens,       \* payload lengths a packet can have
          MaxChunks   \* bound on the chunks of the direction

ASSUME ConstantsAssumption == /\ SeqNums \subseteq Nat
                              /\ Lens \subseteq Nat
                              /\ MaxChunks \in Nat

VARIABLES chunks,     \* the argument of _reassemble_direction
          pc,         \* "collect", "merge", "done"
          queue,      \* the sorted chunks the for loop runs over
          i,          \* the loop's position in queue
          expected, assembled, has_gap

vars == <<chunks, pc, queue, i, expected, assembled, has_gap>>

Init == /\ chunks = <<>>
        /\ pc = "collect"
        /\ queue = <<>>
        /\ i = 1
        /\ expected = 0
        /\ assembled = <<>>
        /\ has_gap = FALSE

-----------------------------------------------------------------------------
(* A packet of this direction whose sequence number is known is read.      *)
(* _reassemble_stream keeps only those with a payload, and                 *)
(* _reassemble_direction filters again, so a chunk of length 0 may as well *)
(* arrive.                                                                 *)
Arrive == /\ pc = "collect"
          /\ Len(chunks) < MaxChunks
          /\ \E s \in SeqNums, n \in Lens :
                 chunks' = Append(chunks, [seq |-> s, len |-> n])
          /\ UNCHANGED <<pc, queue, i, expected, assembled, has_gap>>

(* Variant of Kept: one chunk for each sequence number, the first.         *)
FirstOfEachSeq == {j \in DOMAIN chunks : /\ HasPayload(chunks[j])
                                         /\ \A m \in 1..(j - 1) :
                                                chunks[m].seq # chunks[j].seq}

(* Positions of the chunks that have a payload. *)
Kept == {j \in DOMAIN chunks : HasPayload(chunks[j])}

(* The early returns: no chunk, or none with a payload. *)
ReturnEmpty == /\ pc = "collect"
               /\ Kept = {}
               /\ pc' = "done"
               /\ UNCHANGED <<chunks, queue, i, expected, assembled, has_gap>>

(* Variant of InOrder: the chunks are merged as they came.                 *)
AnyOrder(q) == TRUE

(* No tuple comes after a greater one. *)
InOrder(q) == \A a, b \in DOMAIN q : a < b => ~SortsBefore(q[b], q[a])

(* chunks = sorted(... if payload), and the initialisation of the loop. *)
Sort == /\ pc = "collect"
        /\ Kept # {}
        /\ \E p \in Bijection(1..Cardinality(Kept), Kept) :
               queue' = [j \in DOMAIN p |-> chunks[p[j]]]
        /\ InOrder(queue')
        /\ expected' = queue'[1].seq
        /\ i' = 1
        /\ assembled' = <<>>
        /\ has_gap' = FALSE
        /\ pc' = "merge"
        /\ UNCHANGED chunks

(* The loop has another chunk. *)
Merging == pc = "merge" /\ i <= Len(queue)

(* if end <= expected: continue *)
Covered(c) == End(c) <= expected

SkipCovered == /\ Merging
               /\ Covered(queue[i])
               /\ i' = i + 1
               /\ UNCHANGED <<chunks, pc, queue, expected, assembled, has_gap>>

(* Variants of AfterGap: no gap at all; an adjacent chunk is one.          *)
NeverAfterGap(c) == FALSE
AfterGapOrAdjacent(c) == c.seq >= expected

(* if seq > expected *)
AfterGap(c) == c.seq > expected

AppendAfterGap == /\ Merging
                  /\ ~Covered(queue[i])
                  /\ AfterGap(queue[i])
                  /\ has_gap' = TRUE
                  /\ assembled' = assembled \o Run(queue[i].seq, End(queue[i]))
                  /\ expected' = End(queue[i])
                  /\ i' = i + 1
                  /\ UNCHANGED <<chunks, pc, queue>>

(* Variant of FreshPart: the overlap is not cut off.                       *)
WholePayload(c) == Run(c.seq, End(c))

(* payload[overlap:], overlap = expected - seq *)
FreshPart(c) == Run(expected, End(c))

AppendFresh == /\ Merging
               /\ ~Covered(queue[i])
               /\ ~AfterGap(queue[i])
               /\ assembled' = assembled \o FreshPart(queue[i])
               /\ expected' = End(queue[i])
               /\ i' = i + 1
               /\ UNCHANGED <<chunks, pc, queue, has_gap>>

(* return bytes(assembled), has_gap *)
Return == /\ pc = "merge"
          /\ i > Len(queue)
          /\ pc' = "done"
          /\ UNCHANGED <<chunks, queue, i, expected, assembled, has_gap>>

Next == \/ Arrive \/ ReturnEmpty \/ Sort
        \/ SkipCovered \/ AppendAfterGap \/ AppendFresh \/ Return

Spec == Init /\ [][Next]_vars

-----------------------------------------------------------------------------
TypeOK == /\ chunks \in Seq(Chunk)
          /\ pc \in {"collect", "merge", "done"}
          /\ queue \in Seq(Chunk)
          /\ i \in 1..(Len(queue) + 1)
          /\ expected \in Nat
          /\ assembled \in Seq(Nat)
          /\ has_gap \in BOOLEAN

(* Retransmitted and overlapping chunks never make the assembled stream of *)
(* _reassemble_direction hold a byte twice or out of order, at any point   *)
(* of the loop.                                                            *)
NoByteTwice == Ascending(assembled)

(* When the function returns, the stream holds every captured byte and no  *)
(* other, however the chunks overlap and in whatever order they came.      *)
AllCapturedBytes ==
    pc = "done" => {assembled[a] : a \in DOMAIN assembled} = Carried(chunks)

(* has_gap is returned exactly when a byte between two captured bytes was  *)
(* not captured: a later retransmission that fills a hole clears it, and   *)
(* an overlap never raises it.                                             *)
GapIffHole == pc = "done" => (has_gap <=> Hole(chunks))

(* Once reported inside the loop a gap is definite: no chunk still to be   *)
(* merged covers the missing position, so the flag never has to be reset.  *)
GapIsFinal == has_gap => Hole(chunks)

(* The loop and the fold ReassembleDirection agree: the composed models,   *)
(* which use the fold, get what the loop proved correct here computes.     *)
FoldAgrees ==
    pc = "done" => [assembled |-> assembled, has_gap |-> has_gap]
                       = ReassembleDirection(chunks)

(* Why the loop is correct, as an inductive invariant.                      *)
(* The queue lists the chunks with a payload, by sequence number.          *)
QueueInv ==
    /\ pc = "collect" => queue = <<>>
    /\ pc = "merge" => queue # <<>>
    /\ pc = "done" => i = Len(queue) + 1 /\ (queue = <<>> => Kept = {})
    /\ queue = <<>> => assembled = <<>> /\ ~has_gap
    /\ queue # <<>> =>
           /\ \A k \in Kept : \E j \in DOMAIN queue : queue[j] = chunks[k]
           /\ \A j \in DOMAIN queue : \E k \in Kept : queue[j] = chunks[k]
    /\ \A a, b \in DOMAIN queue : a < b => queue[a].seq <= queue[b].seq

(* What was assembled is what the chunks merged so far carry, and nothing  *)
(* is missing between the start of the last of them and expected: this is  *)
(* why the part of the next chunk before expected may be cut off.          *)
MergeInv ==
    /\ \A b \in Range(assembled) :
           /\ b < expected
           /\ \E j \in 1..(i - 1) : b \in BytesOf(queue[j])
    /\ \A j \in 1..(i - 1) : /\ BytesOf(queue[j]) \subseteq Range(assembled)
                             /\ End(queue[j]) <= expected
    /\ i > 1 => queue[i - 1].seq .. (expected - 1) \subseteq Range(assembled)
    /\ queue # <<>> => queue[1].seq <= expected
    /\ queue # <<>> /\ i = 1 => expected = queue[1].seq

(* The flag: no byte is missing so far, or one is missing for good.        *)
GapInv ==
    /\ ~has_gap /\ queue # <<>> =>
           queue[1].seq .. (expected - 1) \subseteq Range(assembled)
    /\ has_gap =>
           \E c, d \in DOMAIN queue :
               \E k \in queue[c].seq .. (End(queue[d]) - 1) :
                   \A j \in DOMAIN queue : k \notin BytesOf(queue[j])

IInv == TypeOK /\ NoByteTwice /\ QueueInv /\ MergeInv /\ GapInv

(* Chunks and delivery as Direction promises them. *)
D == INSTANCE Direction
         WITH collected <- chunks,
              bytes     <- IF pc = "done" THEN assembled ELSE <<>>,
              gap       <- pc = "done" /\ has_gap,
              delivered <- pc = "done"

(* The sort-and-merge loop implements the one-step delivery of Direction.  *)
ImplementsDirection == D!Spec
===============================================================================
