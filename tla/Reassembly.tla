------------------------------ MODULE Reassembly ------------------------------
(***************************************************************************)
(* The pure part of ingestion/stream_reassembly.py: what                   *)
(* _reassemble_direction computes from the payload chunks of one direction.*)
(* A chunk is a (seq, payload) tuple of the code.  A payload byte is named *)
(* by its sequence position, so a payload is a length and two captured     *)
(* copies of a position carry the same byte; with that, the tuple order of *)
(* the code, which breaks ties on the payload, is the order SortsBefore.   *)
(***************************************************************************)
EXTENDS Selection, SequencesExt

Chunk == [seq : Nat, len : Nat]

(* end = seq + len(payload) *)
End(c) == c.seq + c.len

(* The sequence positions a chunk carries. *)
BytesOf(c) == c.seq .. (End(c) - 1)

(* The payload of a chunk from position `from` on, as a sequence of bytes. *)
Run(from, to) == [k \in 1..(to - from) |-> from + k - 1]

(* The order sorted() gives the tuples. *)
SortsBefore(c, d) == \/ c.seq < d.seq
                     \/ c.seq = d.seq /\ c.len < d.len

HasPayload(c) == c.len > 0

(* One iteration of the loop, on acc = [expected, assembled, has_gap]. *)
Absorb(acc, c) ==
    IF End(c) <= acc.expected THEN acc
    ELSE LET gap  == c.seq > acc.expected
             from == IF gap THEN c.seq ELSE acc.expected
         IN  [expected  |-> End(c),
              assembled |-> acc.assembled \o Run(from, End(c)),
              has_gap   |-> acc.has_gap \/ gap]

(* sorted(...): a chunk goes before the first that is greater. *)
Place(q, c) ==
    Least({j \in 1..(Len(q) + 1) : j <= Len(q) => SortsBefore(c, q[j])})

Inserted(chunks) ==
    LET q[n \in 0..Len(chunks)] ==
            IF n = 0 THEN <<>>
            ELSE IF HasPayload(chunks[n])
            THEN InsertAt(q[n - 1], Place(q[n - 1], chunks[n]), chunks[n])
            ELSE q[n - 1]
    IN  q

InSeqOrder(chunks) == Inserted(chunks)[Len(chunks)]

LoopStart(sorted) == [expected |-> sorted[1].seq, assembled |-> <<>>, has_gap |-> FALSE]

(* The loop, up to its n-th iteration. *)
Absorbed(sorted) ==
    LET acc[n \in 0..Len(sorted)] ==
            IF n = 0 THEN LoopStart(sorted)
            ELSE Absorb(acc[n - 1], sorted[n])
    IN  acc

(* (bytes(assembled), has_gap), with both early returns. *)
ReassembleDirection(chunks) ==
    LET sorted == InSeqOrder(chunks)
        acc    == Absorbed(sorted)[Len(sorted)]
    IN  IF sorted = <<>> THEN [assembled |-> <<>>, has_gap |-> FALSE]
        ELSE [assembled |-> acc.assembled, has_gap |-> acc.has_gap]

-----------------------------------------------------------------------------
(* Vocabulary of the properties. *)

(* Positions some chunk of a sequence of chunks carries. *)
Carried(chunks) == UNION {BytesOf(chunks[j]) : j \in DOMAIN chunks}

(* A position between two carried ones that no chunk carries. *)
Hole(chunks) ==
    \E c, d \in {chunks[j] : j \in DOMAIN chunks} :
        /\ HasPayload(c) /\ HasPayload(d)
        /\ \E k \in c.seq .. (End(d) - 1) :
               \A j \in DOMAIN chunks : k \notin BytesOf(chunks[j])

(* Strictly increasing: no byte twice, none out of order. *)
Ascending(s) == \A a, b \in DOMAIN s : a < b => s[a] < s[b]
===============================================================================
