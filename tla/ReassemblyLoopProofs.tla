------------------------- MODULE ReassemblyLoopProofs -------------------------
(***************************************************************************)
(* Proofs about ReassemblyLoop: for every set of sequence numbers and      *)
(* payload lengths, and for any number of chunks, the sort-and-merge loop  *)
(* returns the captured bytes, each once and in order, and reports a gap   *)
(* exactly when one is missing in between.                                 *)
(***************************************************************************)
EXTENDS ReassemblyLoop, OperatorLemmas, FiniteSetTheorems

-----------------------------------------------------------------------------
(* Nothing is collected yet.                                               *)
LEMMA InitIInv == Init => IInv
<1> SUFFICES ASSUME Init PROVE IInv
  OBVIOUS
<1>1. DOMAIN <<>> = {} /\ Len(<<>>) = 0
  OBVIOUS
<1>2. Range(<<>>) = {}
  BY DEF Range
<1>3. TypeOK
  <2>1. <<>> \in Seq(Chunk) /\ <<>> \in Seq(Nat)
    BY EmptySeq
  <2>2. 1 \in 1..(Len(<<>>) + 1)
    BY <1>1
  <2> QED
    BY <2>1, <2>2 DEF Init, TypeOK
<1>4. NoByteTwice
  BY <1>1 DEF Init, NoByteTwice, Ascending
<1>5. QueueInv
  BY <1>1 DEF Init, QueueInv
<1>6. MergeInv
  BY <1>1, <1>2 DEF Init, MergeInv
<1>7. GapInv
  BY <1>1 DEF Init, GapInv
<1> QED
  BY <1>3, <1>4, <1>5, <1>6, <1>7 DEF IInv

(* Collecting a chunk leaves the loop's state as it is; the queue is still *)
(* empty.                                                                  *)
LEMMA ArriveStep == IInv /\ Arrive => IInv'
<1> SUFFICES ASSUME IInv, Arrive PROVE IInv'
  OBVIOUS
<1> USE DEF IInv, Arrive
<1>1. PICK s \in SeqNums, n \in Lens :
          chunks' = Append(chunks, [seq |-> s, len |-> n])
  OBVIOUS
<1>2. [seq |-> s, len |-> n] \in Chunk
  BY ConstantsAssumption DEF Chunk
<1>3. chunks' \in Seq(Chunk)
  BY <1>1, <1>2, AppendProperties DEF TypeOK
<1>4. TypeOK'
  BY <1>3 DEF TypeOK
<1>5. NoByteTwice'
  BY DEF NoByteTwice
<1>6. queue = <<>> /\ DOMAIN queue = {}
  BY DEF QueueInv
<1>7. QueueInv'
  BY <1>6 DEF QueueInv
<1>8. MergeInv'
  BY DEF MergeInv
<1>9. GapInv'
  BY DEF GapInv
<1> QED
  BY <1>4, <1>5, <1>7, <1>8, <1>9

(* Returning without a payload leaves everything empty.                    *)
LEMMA ReturnEmptyStep == IInv /\ ReturnEmpty => IInv'
<1> SUFFICES ASSUME IInv, ReturnEmpty PROVE IInv'
  OBVIOUS
<1> USE DEF IInv, ReturnEmpty
<1>1. TypeOK'
  BY DEF TypeOK
<1>2. NoByteTwice'
  BY DEF NoByteTwice
<1>3. queue = <<>> /\ DOMAIN queue = {} /\ Len(queue) = 0
  BY DEF QueueInv
<1>4. i = Len(queue) + 1
  BY <1>3 DEF TypeOK
<1>5. Kept' = Kept
  BY DEF Kept
<1>6. QueueInv'
  BY <1>3, <1>4, <1>5 DEF QueueInv
<1>7. MergeInv'
  BY DEF MergeInv
<1>8. GapInv'
  BY DEF GapInv
<1> QED
  BY <1>1, <1>2, <1>6, <1>7, <1>8

(* Sorting starts the loop: nothing is assembled yet and expected is where *)
(* the first chunk starts.                                                 *)
LEMMA SortStep == IInv /\ Sort => IInv'
<1> SUFFICES ASSUME IInv, Sort PROVE IInv'
  OBVIOUS
<1> USE DEF IInv
<1> DEFINE n == Cardinality(Kept)
<1>1. chunks \in Seq(Chunk) /\ DOMAIN chunks = 1..Len(chunks)
  BY LenProperties DEF TypeOK
<1>2. PICK p \in Bijection(1..n, Kept) :
          queue' = [j \in DOMAIN p |-> chunks[p[j]]]
  BY DEF Sort
<1>3. /\ p \in [1..n -> Kept]
      /\ DOMAIN p = 1..n
      /\ \A k \in Kept : \E j \in 1..n : p[j] = k
  BY <1>2 DEF Bijection, Injection, Surjection
<1>4. n \in Nat /\ n # 0
  <2>1. IsFiniteSet(1..Len(chunks))
    BY <1>1, FS_Interval, LenProperties
  <2>2. IsFiniteSet(Kept)
    BY <2>1, <1>1, FS_Subset DEF Kept
  <2>3. Kept # {}
    BY DEF Sort
  <2> QED
    BY <2>2, <2>3, FS_CardinalityType, FS_EmptySet
<1>5. \A k \in Kept : chunks[k] \in Chunk
  BY <1>1, ElementOfSeq DEF Kept
<1>6. queue' \in [1..n -> Chunk]
  BY <1>2, <1>3, <1>5
<1>7. queue' \in Seq(Chunk) /\ Len(queue') = n /\ DOMAIN queue' = 1..n
  <2>1. queue' \in Seq(Chunk)
    BY <1>4, <1>6, SeqDef
  <2> QED
    BY <2>1, <1>4, <1>6, LenProperties
<1>8. 1 \in DOMAIN queue' /\ queue' # <<>>
  BY <1>4, <1>7, EmptySeq
<1>9. queue'[1] \in Chunk
  BY <1>6, <1>7, <1>8
<1>10. TypeOK'
  <2>1. assembled' \in Seq(Nat)
    BY EmptySeq DEF Sort
  <2>2. expected' \in Nat
    BY <1>9 DEF Sort, Chunk
  <2>3. i' \in 1..(Len(queue') + 1)
    BY <1>4, <1>7 DEF Sort
  <2> QED
    BY <1>7, <2>1, <2>2, <2>3 DEF TypeOK, Sort
<1>11. DOMAIN assembled' = {} /\ Range(assembled') = {}
  BY DEF Sort, Range
<1>12. NoByteTwice'
  BY <1>11 DEF NoByteTwice, Ascending
<1>13. QueueInv'
  <2>1. Kept' = Kept /\ chunks' = chunks
    BY DEF Sort, Kept
  <2>2. \A k \in Kept : \E j \in DOMAIN queue' : queue'[j] = chunks[k]
    BY <1>2, <1>3, <1>7
  <2>3. \A j \in DOMAIN queue' : \E k \in Kept : queue'[j] = chunks[k]
    BY <1>2, <1>3, <1>7
  <2>4. ASSUME NEW a \in DOMAIN queue', NEW b \in DOMAIN queue', a < b
        PROVE  queue'[a].seq <= queue'[b].seq
    <3>1. queue'[a] \in Chunk /\ queue'[b] \in Chunk
      BY <1>6, <1>7
    <3>2. ~SortsBefore(queue'[b], queue'[a])
      BY <2>4 DEF Sort, InOrder
    <3> QED
      BY <3>1, <3>2 DEF SortsBefore, Chunk
  <2>5. pc' = "merge"
    BY DEF Sort
  <2> QED
    BY <1>8, <2>1, <2>2, <2>3, <2>4, <2>5 DEF QueueInv
<1>14. i' = 1 /\ expected' = queue'[1].seq /\ expected' \in Nat /\ ~has_gap'
  BY <1>9 DEF Sort, Chunk
<1>15. MergeInv'
  BY <1>11, <1>14 DEF MergeInv
<1>16. GapInv'
  BY <1>14 DEF GapInv
<1> QED
  BY <1>10, <1>12, <1>13, <1>15, <1>16

-----------------------------------------------------------------------------
(* The state of the loop, as the accumulator of the fold.                  *)
LoopState == [expected |-> expected, assembled |-> assembled, has_gap |-> has_gap]

(* What the loop holds is what the fold holds after as many chunks.        *)
LoopAsFold == TypeOK /\ NoByteTwice /\ QueueInv /\ queue # <<>> =>
                  (MergeInv /\ GapInv <=> Merged(queue, i - 1, LoopState))

LEMMA LoopIsMerged == LoopAsFold
<1> SUFFICES ASSUME TypeOK, NoByteTwice, QueueInv, queue # <<>>
             PROVE  MergeInv /\ GapInv <=> Merged(queue, i - 1, LoopState)
  BY DEF LoopAsFold
<1>1. /\ queue \in Seq(Chunk) /\ DOMAIN queue = 1..Len(queue)
      /\ 1 \in DOMAIN queue /\ i \in Nat /\ i >= 1
      /\ \A j \in DOMAIN queue : queue[j].seq \in Nat
  <2>1. \A x \in Chunk : x.seq \in Nat
    BY DEF Chunk
  <2> QED
    BY <2>1 DEF TypeOK
<1>2. /\ LoopState.expected = expected /\ LoopState.assembled = assembled
      /\ LoopState.has_gap = has_gap /\ LoopState \in Acc
  BY DEF LoopState, Acc, TypeOK
<1>3. (i - 1 > 0 <=> i > 1) /\ (i - 1 = 0 <=> i = 1)
  BY <1>1
<1>4. (\E c, d \in DOMAIN queue : \E k \in queue[c].seq .. (End(queue[d]) - 1) :
           \A j \in DOMAIN queue : k \notin BytesOf(queue[j]))
      <=> (\E d \in DOMAIN queue : \E k \in queue[1].seq .. (End(queue[d]) - 1) :
               \A j \in DOMAIN queue : k \notin BytesOf(queue[j]))
  <2>1. ASSUME NEW c \in DOMAIN queue, NEW d \in DOMAIN queue,
               NEW k \in queue[c].seq .. (End(queue[d]) - 1)
        PROVE  k \in queue[1].seq .. (End(queue[d]) - 1)
    <3>1. c = 1 \/ 1 < c
      BY <1>1
    <3>2. queue[1].seq <= queue[c].seq
      BY <1>1, <3>1 DEF QueueInv
    <3>3. End(queue[d]) \in Nat
      <4>1. queue[d] \in Chunk
        BY <1>1
      <4> QED
        BY <4>1 DEF Chunk, End
    <3> QED
      BY <1>1, <3>2, <3>3
  <2> QED
    BY <1>1, <2>1
<1>5. Ascending(assembled)
  BY DEF NoByteTwice
<1> HIDE DEF LoopState
<1>6. ASSUME MergeInv, GapInv PROVE Merged(queue, i - 1, LoopState)
  BY <1>2, <1>3, <1>4, <1>5, <1>6 DEF MergeInv, GapInv, Merged
<1>7. ASSUME Merged(queue, i - 1, LoopState) PROVE MergeInv /\ GapInv
  <2>1. MergeInv
    BY <1>2, <1>3, <1>7 DEF MergeInv, Merged
  <2>2. GapInv
    BY <1>2, <1>4, <1>7 DEF GapInv, Merged
  <2> QED
    BY <2>1, <2>2
<1> QED
  BY <1>6, <1>7

(* An iteration that does what Absorb does keeps the invariant.            *)
LEMMA IterationStep ==
    ASSUME IInv, Merging, i' = i + 1, UNCHANGED <<chunks, pc, queue>>,
           LoopState' = Absorb(LoopState, queue[i])
    PROVE  IInv'
<1>1. /\ queue \in Seq(Chunk) /\ queue # <<>> /\ BySeq(queue)
      /\ Len(queue) \in Nat /\ DOMAIN queue = 1..Len(queue)
      /\ i - 1 \in Nat /\ (i - 1) + 1 = i /\ i \in 1..Len(queue)
      /\ i + 1 \in 1..(Len(queue) + 1)
  BY DEF IInv, TypeOK, QueueInv, Merging, BySeq
<1>2. Merged(queue, i - 1, LoopState)
  BY <1>1, LoopIsMerged DEF IInv, LoopAsFold
<1>3. Merged(queue, i, Absorb(LoopState, queue[i]))
  BY <1>1, <1>2, MergedStep
<1>4. Merged(queue', i' - 1, LoopState')
  <2>1. i' - 1 = i
    BY <1>1
  <2> QED
    BY <1>3, <2>1
<1>5. /\ LoopState' = [expected |-> expected', assembled |-> assembled', has_gap |-> has_gap']
      /\ LoopState' \in Acc /\ Ascending(LoopState'.assembled)
  BY <1>4 DEF LoopState, Merged
<1>6. /\ expected' \in Nat /\ assembled' \in Seq(Nat) /\ has_gap' \in BOOLEAN
      /\ Ascending(assembled')
  BY <1>5 DEF Acc
<1>7. TypeOK'
  BY <1>1, <1>6 DEF IInv, TypeOK
<1>8. NoByteTwice'
  BY <1>6 DEF NoByteTwice
<1>9. Kept' = Kept
  BY DEF Kept
<1>10. QueueInv'
  BY <1>1, <1>9 DEF IInv, QueueInv, Merging
<1>11. MergeInv' /\ GapInv'
  <2>1. LoopAsFold'
    BY LoopIsMerged, PTL
  <2>2. queue' # <<>>
    BY <1>1
  <2> QED
    BY <1>4, <1>7, <1>8, <1>10, <2>1, <2>2 DEF LoopAsFold
<1> QED
  BY <1>7, <1>8, <1>10, <1>11 DEF IInv

(* A covered chunk adds nothing.                                           *)
LEMMA SkipCoveredStep == IInv /\ SkipCovered => IInv'
<1> SUFFICES ASSUME IInv, SkipCovered PROVE IInv'
  OBVIOUS
<1>1. LoopState' = Absorb(LoopState, queue[i])
  BY DEF SkipCovered, Covered, LoopState, Absorb
<1> QED
  BY <1>1, IterationStep DEF SkipCovered

(* A chunk past expected is appended whole, and a gap noted.               *)
LEMMA AppendAfterGapStep == IInv /\ AppendAfterGap => IInv'
<1> SUFFICES ASSUME IInv, AppendAfterGap PROVE IInv'
  OBVIOUS
<1>1. LoopState' = Absorb(LoopState, queue[i])
  <2>1. (has_gap \/ queue[i].seq > expected) = TRUE
    BY DEF AppendAfterGap, AfterGap
  <2> QED
    BY <2>1 DEF AppendAfterGap, AfterGap, Covered, LoopState, Absorb
<1> QED
  BY <1>1, IterationStep DEF AppendAfterGap

(* Of any other chunk the part from expected on.                           *)
LEMMA AppendFreshStep == IInv /\ AppendFresh => IInv'
<1> SUFFICES ASSUME IInv, AppendFresh PROVE IInv'
  OBVIOUS
<1>1. LoopState' = Absorb(LoopState, queue[i])
  <2>1. has_gap \in BOOLEAN
    BY DEF IInv, TypeOK
  <2>2. (has_gap \/ queue[i].seq > expected) = has_gap
    BY <2>1 DEF AppendFresh, AfterGap
  <2> QED
    BY <2>2 DEF AppendFresh, AfterGap, Covered, FreshPart, LoopState, Absorb
<1> QED
  BY <1>1, IterationStep DEF AppendFresh

(* Returning changes the control state only.                               *)
LEMMA ReturnStep == IInv /\ Return => IInv'
<1> SUFFICES ASSUME IInv, Return PROVE IInv'
  OBVIOUS
<1>1. TypeOK'
  BY DEF IInv, TypeOK, Return
<1>2. NoByteTwice' /\ MergeInv' /\ GapInv'
  BY DEF IInv, NoByteTwice, MergeInv, GapInv, Return
<1>3. QueueInv'
  <2>1. Kept' = Kept
    BY DEF Kept, Return
  <2>2. i = Len(queue) + 1
    BY LenProperties DEF IInv, TypeOK, Return
  <2>3. queue # <<>>
    BY DEF IInv, QueueInv, Return
  <2> QED
    BY <2>1, <2>2, <2>3 DEF IInv, QueueInv, Return
<1> QED
  BY <1>1, <1>2, <1>3 DEF IInv

(* Nor does a step that changes no variable.                               *)
LEMMA StutterStep == IInv /\ UNCHANGED vars => IInv'
BY DEF vars, IInv, TypeOK, NoByteTwice, QueueInv, MergeInv, GapInv, Kept

(* Every action preserves the invariant.                                   *)
LEMMA NextStep == IInv /\ [Next]_vars => IInv'
BY ArriveStep, ReturnEmptyStep, SortStep, SkipCoveredStep, AppendAfterGapStep,
   AppendFreshStep, ReturnStep, StutterStep DEF Next

(* The inductive invariant holds in every state of every behaviour.        *)
THEOREM Invariance == Spec => []IInv
BY InitIInv, NextStep, PTL DEF Spec

(* Typing of every variable.                                               *)
THEOREM TypeCorrect == Spec => []TypeOK
BY Invariance, PTL DEF IInv

(* No byte twice and none out of order, after any number of iterations.    *)
THEOREM NeverTwice == Spec => []NoByteTwice
BY Invariance, PTL DEF IInv

-----------------------------------------------------------------------------
(* The chunks the sort drops carry nothing; the others are the queue.      *)
LEMMA QueueCarries ==
    ASSUME IInv, pc # "collect"
    PROVE  \A k : k \in Carried(chunks)
                     <=> \E j \in DOMAIN queue : k \in BytesOf(queue[j])
<1> SUFFICES ASSUME NEW k
             PROVE  k \in Carried(chunks)
                       <=> \E j \in DOMAIN queue : k \in BytesOf(queue[j])
  OBVIOUS
<1>1. ASSUME NEW j \in DOMAIN chunks, k \in BytesOf(chunks[j])
      PROVE  j \in Kept
  <2>1. chunks[j] \in Chunk
    BY LenProperties, ElementOfSeq DEF IInv, TypeOK
  <2> QED
    BY <1>1, <2>1 DEF Kept, HasPayload, BytesOf, End, Chunk
<1>2. CASE queue = <<>>
  <2>1. Kept = {} /\ DOMAIN queue = {}
    BY <1>2 DEF IInv, TypeOK, QueueInv
  <2> QED
    BY <1>1, <2>1 DEF Carried
<1>3. CASE queue # <<>>
  <2>1. ASSUME k \in Carried(chunks)
        PROVE  \E j \in DOMAIN queue : k \in BytesOf(queue[j])
    <3>1. PICK m \in DOMAIN chunks : k \in BytesOf(chunks[m])
      BY <2>1 DEF Carried
    <3>2. PICK j \in DOMAIN queue : queue[j] = chunks[m]
      BY <3>1, <1>1, <1>3 DEF IInv, QueueInv
    <3> QED
      BY <3>1, <3>2
  <2>2. ASSUME NEW j \in DOMAIN queue, k \in BytesOf(queue[j])
        PROVE  k \in Carried(chunks)
    <3>1. PICK m \in Kept : queue[j] = chunks[m]
      BY <1>3 DEF IInv, QueueInv
    <3> QED
      BY <2>2, <3>1 DEF Carried, Kept
  <2> QED
    BY <2>1, <2>2
<1> QED
  BY <1>2, <1>3

(* When the loop is over every chunk of the queue was merged.              *)
LEMMA CapturedWhenDone == IInv => AllCapturedBytes
<1> SUFFICES ASSUME IInv, pc = "done"
             PROVE  Range(assembled) = Carried(chunks)
  BY DEF AllCapturedBytes, Range
<1>1. DOMAIN queue = 1..Len(queue) /\ Len(queue) \in Nat
  BY LenProperties DEF IInv, TypeOK
<1>2. i - 1 = Len(queue)
  BY <1>1 DEF IInv, QueueInv
<1>3. \A j \in DOMAIN queue : BytesOf(queue[j]) \subseteq Range(assembled)
  BY <1>1, <1>2 DEF IInv, MergeInv
<1>4. \A b \in Range(assembled) : \E j \in DOMAIN queue : b \in BytesOf(queue[j])
  BY <1>1, <1>2 DEF IInv, MergeInv
<1> QED
  BY <1>3, <1>4, QueueCarries

(* The stream returned is exactly what was captured.                       *)
THEOREM Complete == Spec => []AllCapturedBytes
BY Invariance, CapturedWhenDone, PTL

(* The flag is raised only for a position nothing carries.                 *)
LEMMA GapMeansHole == IInv => GapIsFinal
<1> SUFFICES ASSUME IInv, has_gap PROVE Hole(chunks)
  BY DEF GapIsFinal
<1>1. PICK c \in DOMAIN queue, d \in DOMAIN queue :
          \E k \in queue[c].seq .. (End(queue[d]) - 1) :
              \A j \in DOMAIN queue : k \notin BytesOf(queue[j])
  BY DEF IInv, GapInv
<1>2. PICK k \in queue[c].seq .. (End(queue[d]) - 1) :
          \A j \in DOMAIN queue : k \notin BytesOf(queue[j])
  BY <1>1
<1>3. queue # <<>> /\ pc # "collect"
  BY DEF IInv, QueueInv
<1>4. PICK m \in Kept, n \in Kept : queue[c] = chunks[m] /\ queue[d] = chunks[n]
  BY <1>3 DEF IInv, QueueInv
<1>5. \A j \in DOMAIN chunks : k \notin BytesOf(chunks[j])
  <2>1. k \notin Carried(chunks)
    BY <1>2, <1>3, QueueCarries
  <2> QED
    BY <2>1 DEF Carried
<1>6. m \in DOMAIN chunks /\ n \in DOMAIN chunks
      /\ HasPayload(chunks[m]) /\ HasPayload(chunks[n])
  BY DEF Kept
<1> QED
  BY <1>2, <1>4, <1>5, <1>6 DEF Hole

(* At the end the flag is raised exactly for a hole.                       *)
LEMMA HoleWhenDone == IInv => GapIffHole
<1> SUFFICES ASSUME IInv, pc = "done", Hole(chunks) PROVE has_gap
  BY GapMeansHole DEF GapIffHole, GapIsFinal
<1>1. PICK c \in {chunks[j] : j \in DOMAIN chunks},
           d \in {chunks[j] : j \in DOMAIN chunks} :
          /\ HasPayload(c) /\ HasPayload(d)
          /\ \E k \in c.seq .. (End(d) - 1) :
                 \A j \in DOMAIN chunks : k \notin BytesOf(chunks[j])
  BY DEF Hole
<1>2. PICK k \in c.seq .. (End(d) - 1) :
          \A j \in DOMAIN chunks : k \notin BytesOf(chunks[j])
  BY <1>1
<1>3. PICK m \in Kept, n \in Kept : chunks[m] = c /\ chunks[n] = d
  BY <1>1 DEF Kept
<1>4. queue # <<>>
  BY <1>3 DEF IInv, QueueInv
<1>5. PICK a \in DOMAIN queue, b \in DOMAIN queue : queue[a] = c /\ queue[b] = d
  BY <1>3, <1>4 DEF IInv, QueueInv
<1>6. /\ queue \in Seq(Chunk) /\ Len(queue) \in Nat
      /\ DOMAIN queue = 1..Len(queue)
      /\ i - 1 = Len(queue)
      /\ expected \in Nat
  BY LenProperties DEF IInv, TypeOK, QueueInv
<1>7. queue[1] \in Chunk /\ queue[a] \in Chunk /\ queue[b] \in Chunk
  BY <1>5, <1>6, ElementOfSeq
<1>8. queue[1].seq <= queue[a].seq
  <2>1. 1 \in DOMAIN queue /\ (a = 1 \/ 1 < a)
    BY <1>5, <1>6
  <2> QED
    BY <2>1, <1>5, <1>7 DEF IInv, QueueInv, Chunk
<1>9. End(queue[b]) <= expected
  BY <1>5, <1>6 DEF IInv, MergeInv
<1>10. k \in queue[1].seq .. (expected - 1)
  BY <1>2, <1>5, <1>6, <1>7, <1>8, <1>9 DEF Chunk, End
<1>11. k \notin Range(assembled)
  <2>1. k \notin Carried(chunks)
    BY <1>2 DEF Carried
  <2> QED
    BY <2>1, CapturedWhenDone DEF AllCapturedBytes, Range
<1> QED
  BY <1>4, <1>10, <1>11 DEF IInv, GapInv

(* A gap is reported for a missing byte in between, and only for one.      *)
THEOREM GapExact == Spec => []GapIffHole
BY Invariance, HoleWhenDone, PTL

(* What the loop returns has the elements of what ReassembleDirection      *)
(* gives, in the same order, and the same flag.                            *)
LEMMA FoldWhenDone == IInv => FoldAgrees
<1> SUFFICES ASSUME IInv, pc = "done"
             PROVE  [assembled |-> assembled, has_gap |-> has_gap]
                        = ReassembleDirection(chunks)
  BY DEF FoldAgrees
<1> DEFINE r == ReassembleDirection(chunks)
<1>1. /\ chunks \in Seq(Chunk) /\ assembled \in Seq(Nat) /\ has_gap \in BOOLEAN
      /\ Ascending(assembled)
  BY DEF IInv, TypeOK, NoByteTwice
<1>2. Range(assembled) = Carried(chunks) /\ (has_gap <=> Hole(chunks))
  BY CapturedWhenDone, HoleWhenDone DEF AllCapturedBytes, GapIffHole, Range
<1>3. /\ r \in [assembled : Seq(Nat), has_gap : BOOLEAN]
      /\ Ascending(r.assembled) /\ Range(r.assembled) = Carried(chunks)
      /\ r.has_gap <=> Hole(chunks)
  BY <1>1, ReassembledDirection
<1> HIDE DEF r
<1>4. r.assembled \in Seq(Nat) /\ r.has_gap \in BOOLEAN
      /\ r = [assembled |-> r.assembled, has_gap |-> r.has_gap]
  BY <1>3
<1>5. assembled = r.assembled
  BY <1>1, <1>2, <1>3, <1>4, AscendingUnique
<1>6. has_gap = r.has_gap
  BY <1>1, <1>2, <1>3, <1>4
<1> QED
  BY <1>4, <1>5, <1>6 DEF r

(* The function the other models use for a whole direction returns what    *)
(* the loop returns.                                                       *)
THEOREM FoldIsLoop == Spec => []FoldAgrees
BY Invariance, FoldWhenDone, PTL

(* A gap, once seen by the loop, is never closed by a later chunk.         *)
THEOREM GapFinal == Spec => []GapIsFinal
BY Invariance, GapMeansHole, PTL

-----------------------------------------------------------------------------
(* The step that returns is the delivery of Direction, with the captured   *)
(* bytes and the gap it asks for; the merge steps are stutters.            *)
LEMMA RefinesInit == Init => D!Init
BY DEF Init, D!Init

(* The two returns deliver.                                                *)
LEMMA DeliverStep ==
    ASSUME IInv', pc # "done", pc' = "done", chunks' = chunks
    PROVE  D!Deliver
<1>1. AllCapturedBytes' /\ GapIffHole'
  BY CapturedWhenDone, HoleWhenDone, PTL
<1>2. /\ Ascending(assembled')
      /\ {assembled'[a] : a \in DOMAIN assembled'} = Carried(chunks)
      /\ has_gap' = Hole(chunks)
  <2>1. has_gap' \in BOOLEAN /\ Hole(chunks) \in BOOLEAN
    BY DEF IInv, TypeOK, Hole
  <2> QED
    BY <1>1, <2>1 DEF IInv, NoByteTwice, AllCapturedBytes, GapIffHole
<1>3. D!Ascending(assembled') = Ascending(assembled')
  BY DEF Ascending, D!Ascending
<1>4. D!Carried(chunks) = Carried(chunks)
  BY DEF Carried, D!Carried, BytesOf, D!BytesOf, End, D!End
<1>5. D!Hole(chunks) = Hole(chunks)
  BY DEF Hole, D!Hole, BytesOf, D!BytesOf, End, D!End, HasPayload, D!HasPayload
<1>6. (IF pc = "done" THEN assembled ELSE <<>>)' = assembled'
  OBVIOUS
<1>7. (pc = "done" /\ has_gap)' = D!Hole(chunks)
  <2>1. has_gap' = TRUE \/ has_gap' = FALSE
    BY DEF IInv, TypeOK
  <2>2. (pc = "done" /\ has_gap)' = has_gap'
    BY <2>1
  <2> QED
    BY <2>2, <1>2, <1>5
<1>8. (pc = "done")' = TRUE
  OBVIOUS
<1> QED
  BY <1>2, <1>3, <1>4, <1>6, <1>7, <1>8 DEF D!Deliver

(* Every step of the loop is a step of Direction or a stutter.             *)
LEMMA RefinesNext == IInv /\ IInv' /\ [Next]_vars => [D!Next]_(D!vars)
<1> SUFFICES ASSUME IInv, IInv', [Next]_vars PROVE [D!Next]_(D!vars)
  OBVIOUS
<1>1. CASE Arrive
  BY <1>1 DEF Arrive, D!Next, D!Collect
<1>2. CASE ReturnEmpty
  <2>1. D!Deliver
    BY <1>2, DeliverStep DEF ReturnEmpty
  <2> QED
    BY <2>1 DEF D!Next
<1>3. CASE Sort
  BY <1>3 DEF Sort, D!vars
<1>4. CASE SkipCovered
  BY <1>4 DEF SkipCovered, Merging, D!vars
<1>5. CASE AppendAfterGap
  BY <1>5 DEF AppendAfterGap, Merging, D!vars
<1>6. CASE AppendFresh
  BY <1>6 DEF AppendFresh, Merging, D!vars
<1>7. CASE Return
  <2>1. D!Deliver
    BY <1>7, DeliverStep DEF Return
  <2> QED
    BY <2>1 DEF D!Next
<1>8. CASE UNCHANGED vars
  BY <1>8 DEF vars, D!vars
<1> QED
  BY <1>1, <1>2, <1>3, <1>4, <1>5, <1>6, <1>7, <1>8 DEF Next

(* The loop implements the delivery in one step that Direction describes.  *)
THEOREM Refinement == Spec => ImplementsDirection
<1>1. Init => D!Init
  BY RefinesInit
<1>2. IInv /\ IInv' /\ [Next]_vars => [D!Next]_(D!vars)
  BY RefinesNext
<1> QED
  BY <1>1, <1>2, Invariance, PTL DEF Spec, D!Spec, ImplementsDirection
===============================================================================
