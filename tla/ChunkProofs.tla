---------------------------- MODULE ChunkProofs -----------------------------
(***************************************************************************)
(* Theorems about the two modules that handle chunks of a result:          *)
(* ResultReader, for any number of overlapping reads and results of any    *)
(* size, and DataChunk, for vectors and masks of any size and any number   *)
(* of calls.                                                               *)
(***************************************************************************)
EXTENDS ResultReader, DataChunk, SequenceTheorems, WellFoundedInduction, TLAPS

Fetch == [read : Reads, chunk : 0..Len(source)]

(* libduckdb has no more chunks to hand out.                               *)
Exhausted == fetched = Len(source) \/ broken

(* The queue q of fetches continues the n chunks already read.             *)
Continues(q, n) ==
  /\ \A i \in 1..Len(q) :
       q[i].chunk = IF n + i <= fetched THEN n + i ELSE NoChunk
  /\ fetched \in n..n + Len(q)
  /\ fetched < n + Len(q) => Exhausted

(* The end is seen only after the last chunk has been read.                *)
IInv ==
  /\ TypeOK
  /\ \A i \in 1..Len(chunks) : chunks[i] = i
  /\ Continues(fetches, Len(chunks))
  /\ done => Exhausted /\ fetched = Len(chunks)
  /\ ReadsGetWhatTheyAsked

-----------------------------------------------------------------------------
(* The index of an element of a sequence that has grown by one.            *)
LEMMA UpToNext ==
  ASSUME NEW n \in Nat, NEW i \in 1..n + 1
  PROVE  i \in 1..n \/ i = n + 1
  OBVIOUS

(* Taking the first fetch off the queue.                                   *)
LEMMA FirstRemoved ==
  ASSUME NEW S, NEW q \in Seq(S), q # <<>>
  PROVE  /\ RemoveAt(q, 1) \in Seq(S)
         /\ Len(RemoveAt(q, 1)) = Len(q) - 1
         /\ \A i \in 1..Len(q) - 1 : RemoveAt(q, 1)[i] = q[i + 1]
<1>1. SubSeq(q, 1, 0) = <<>>
  OBVIOUS
<1>2. /\ SubSeq(q, 2, Len(q)) \in Seq(S)
      /\ Len(SubSeq(q, 2, Len(q))) = Len(q) - 1
      /\ \A i \in 1..Len(q) - 1 : SubSeq(q, 2, Len(q))[i] = q[i + 1]
  BY HeadTailProperties, TailIsSubSeq
<1>3. RemoveAt(q, 1) = SubSeq(q, 2, Len(q))
  BY <1>1, <1>2 DEF RemoveAt
<1> QED
  BY <1>2, <1>3

(* A run that grows by a chunk is a run.                                   *)
LEMMA LongerRun ==
  ASSUME NEW run \in Runs, NEW rows \in Nat \ {0}
  PROVE  [run EXCEPT !.chunkCount = @ + 1, !.rowCount = @ + rows] \in Runs
<1> DEFINE count == run.chunkCount + 1
           total == run.rowCount + rows
<1>1. count \in Nat \ {0} /\ total \in Nat \ {0}
  BY DEF Runs
<1>2. [run EXCEPT !.chunkCount = @ + 1, !.rowCount = @ + rows]
        = [run EXCEPT !.chunkCount = count, !.rowCount = total]
  OBVIOUS
<1> HIDE DEF count, total
<1>3. [run EXCEPT !.chunkCount = count, !.rowCount = total] \in Runs
  BY <1>1 DEF Runs
<1> QED
  BY <1>2, <1>3

(* updateChunkSizeRuns keeps the runs well formed.                         *)
LEMMA WithChunkType ==
  ASSUME NEW runs \in Seq(Runs), NEW rows \in Sizes
  PROVE  WithChunk(runs, rows) \in Seq(Runs)
<1>0. rows \in Nat \ {0}
  BY ReaderAssumption
<1>1. CASE runs # <<>> /\ Last(runs).chunkSize = rows
  <2> DEFINE longer == [Last(runs) EXCEPT !.chunkCount = @ + 1, !.rowCount = @ + rows]
  <2>1. Len(runs) \in 1..Len(runs) /\ Last(runs) \in Runs
    BY <1>1 DEF Last
  <2>2. longer \in Runs
    BY <1>0, <2>1, LongerRun
  <2>3. Front(runs) \in Seq(Runs)
    BY DEF Front
  <2> HIDE DEF longer
  <2>4. Front(runs) \o <<longer>> \in Seq(Runs)
    BY <2>2, <2>3
  <2> QED
    BY <1>1, <2>4 DEF WithChunk, longer
<1>2. CASE ~(runs # <<>> /\ Last(runs).chunkSize = rows)
  <2> DEFINE run == [chunkCount |-> 1, chunkSize |-> rows, rowCount |-> rows]
  <2>1. run \in Runs
    BY <1>0 DEF Runs
  <2>2. WithChunk(runs, rows) = Append(runs, run)
    BY <1>2 DEF WithChunk
  <2> HIDE DEF run
  <2> QED
    BY <2>1, <2>2
<1> QED
  BY <1>1, <1>2

LEMMA InitIInv == Init => IInv
<1> SUFFICES ASSUME Init PROVE IInv
  OBVIOUS
<1>1. source \in Seq(Sizes)
  BY DEF Init, BoundedSeq, SeqOf
<1>2. Len(source) \in Nat /\ Everything \in 0..Everything
  BY <1>1, ReaderAssumption DEF Everything
<1>3. /\ pc \in [Reads -> {"idle", "fetching", "settled"}]
      /\ target \in [Reads -> 0..Everything]
      /\ fetched \in 0..Len(source)
  BY <1>2 DEF Init
<1>4. /\ fetches \in Seq(Fetch) /\ chunks \in Seq(1..Len(source))
      /\ chunkSizeRuns \in Seq(Runs) /\ currentRowCount \in Nat
  BY DEF Init
<1>6. streaming \in BOOLEAN /\ broken \in BOOLEAN /\ done \in BOOLEAN
  BY DEF Init
<1>5. TypeOK
  BY <1>1, <1>3, <1>4, <1>6 DEF TypeOK, Fetch
<1> QED
  BY <1>2, <1>5
     DEF Init, IInv, Continues, Exhausted, ReadsGetWhatTheyAsked

(* A read that goes round its loop, once reader and waiting are as they    *)
(* should be, leaves the invariant as it should be.                        *)
LEMMA RoundOfLoop ==
  ASSUME IInv, NEW r \in Reads, NEW waiting \in Seq(Fetch),
         Continues(waiting, Len(chunks')),
         target' \in [Reads -> 0..Everything],
         \A u \in Reads \ {r} : target'[u] = target[u],
         chunks' \in Seq(1..Len(source)), chunkSizeRuns' \in Seq(Runs),
         currentRowCount' \in Nat, currentRowCount' >= currentRowCount,
         done' \in BOOLEAN, done => done',
         \A i \in 1..Len(chunks') : chunks'[i] = i,
         done' => Exhausted /\ fetched = Len(chunks'),
         SettleOrFetch(r, waiting),
         UNCHANGED <<source, streaming, broken>>
  PROVE  IInv'
<1> USE ReaderAssumption
<1>t. TypeOK
  BY DEF IInv
<1>n. /\ fetched \in Nat /\ Len(source) \in Nat /\ Len(chunks') \in Nat
      /\ fetched <= Len(source) /\ Len(waiting) \in Nat
  BY <1>t DEF TypeOK
<1>c. /\ \A i \in 1..Len(waiting) :
           waiting[i].chunk = IF Len(chunks') + i <= fetched THEN Len(chunks') + i
                                                             ELSE NoChunk
      /\ fetched \in Len(chunks')..Len(chunks') + Len(waiting)
      /\ fetched < Len(chunks') + Len(waiting) => Exhausted
  BY DEF Continues
<1>f. /\ fetched \in Len(chunks')..Len(chunks') + Len(waiting)
      /\ fetched < Len(chunks') + Len(waiting) => Exhausted
  BY <1>c
<1>o. ASSUME pc' \in [Reads -> {"idle", "fetching", "settled"}],
             \A u \in Reads \ {r} : pc'[u] = pc[u],
             pc'[r] = "settled" => Enough(target'[r], currentRowCount', done')
      PROVE  ReadsGetWhatTheyAsked'
  <2> SUFFICES ASSUME NEW u \in Reads, pc'[u] = "settled"
               PROVE  IF target'[u] = Everything THEN done'
                      ELSE done' \/ currentRowCount' >= target'[u]
    BY DEF ReadsGetWhatTheyAsked, Everything
  <2>1. CASE u = r
    BY <1>o, <2>1 DEF Enough
  <2>2. CASE u # r
    BY <1>o, <1>t, <2>2 DEF IInv, ReadsGetWhatTheyAsked, TypeOK, Everything
  <2> QED
    BY <2>1, <2>2
<1>1. CASE Enough(target'[r], currentRowCount', done')
  <2>1. /\ pc' = [pc EXCEPT ![r] = "settled"] /\ fetches' = waiting
        /\ fetched' = fetched
    BY <1>1 DEF SettleOrFetch
  <2>2. TypeOK'
    BY <1>t, <2>1 DEF TypeOK, Fetch
  <2>3. ReadsGetWhatTheyAsked'
    BY <1>1, <1>o, <1>t, <2>1 DEF TypeOK
  <2>4. Continues(fetches, Len(chunks))'
    BY <2>1 DEF Continues, Exhausted
  <2> QED
    BY <2>1, <2>2, <2>3, <2>4 DEF IInv, Exhausted
<1>2. CASE ~Enough(target'[r], currentRowCount', done')
  <2>0. ~done' /\ pc' = [pc EXCEPT ![r] = "fetching"]
    BY <1>2 DEF SettleOrFetch, Enough
  <2>3. ReadsGetWhatTheyAsked'
    BY <2>0, <1>o, <1>t DEF TypeOK
  <2>1. CASE fetched < Len(source) /\ ~broken
    <3> DEFINE next == [read |-> r, chunk |-> fetched + 1]
    <3>1. fetches' = Append(waiting, next) /\ fetched' = fetched + 1
      BY <1>2, <2>1 DEF SettleOrFetch
    <3>2. next \in Fetch /\ next.chunk = fetched + 1
      BY <1>n, <2>1 DEF Fetch
    <3>3. fetched = Len(chunks') + Len(waiting)
      <4>1. ~Exhausted
        BY <1>n, <2>1 DEF Exhausted
      <4> QED
        BY <1>f, <1>n, <4>1
    <3> HIDE DEF next
    <3>4. fetches' \in Seq(Fetch)
      BY <3>1, <3>2
    <3>5. TypeOK'
      BY <1>t, <1>n, <2>0, <2>1, <3>1, <3>4 DEF TypeOK, Fetch
    <3>6. Continues(fetches, Len(chunks))'
      <4>1. /\ Len(fetches') = Len(waiting) + 1
            /\ \A i \in 1..Len(waiting) : fetches'[i] = waiting[i]
            /\ fetches'[Len(waiting) + 1] = next
        BY <3>1, <3>2
      <4>2. \A i \in 1..Len(waiting) : waiting[i].chunk = Len(chunks') + i
        <5> SUFFICES ASSUME NEW i \in 1..Len(waiting)
                     PROVE  waiting[i].chunk = Len(chunks') + i
          OBVIOUS
        <5>1. Len(chunks') + i <= fetched
          BY <1>n, <3>3
        <5> QED
          BY <1>c, <5>1
      <4> QED
        <5>1. ASSUME NEW i \in 1..Len(fetches')
              PROVE  fetches'[i].chunk = Len(chunks') + i /\ Len(chunks') + i <= fetched'
          <6>1. CASE i \in 1..Len(waiting)
            BY <1>n, <3>1, <3>3, <4>1, <4>2, <6>1
          <6>2. CASE i = Len(waiting) + 1
            BY <1>n, <3>1, <3>2, <3>3, <4>1, <6>2
          <6>3. i \in 1..Len(waiting) \/ i = Len(waiting) + 1
            <7>1. i \in 1..Len(waiting) + 1
              BY <4>1
            <7> QED
              BY <1>n, <7>1, UpToNext
          <6> QED
            BY <6>1, <6>2, <6>3
        <5>2. fetched' \in Len(chunks')..Len(chunks') + Len(fetches')
          BY <1>n, <3>1, <3>3, <4>1
        <5>3. ~(fetched' < Len(chunks') + Len(fetches'))
          BY <1>n, <3>1, <3>3, <4>1
        <5> QED
          BY <5>1, <5>2, <5>3 DEF Continues
    <3> QED
      BY <2>0, <2>3, <3>5, <3>6 DEF IInv
  <2>2. CASE ~(fetched < Len(source) /\ ~broken)
    <3> DEFINE next == [read |-> r, chunk |-> NoChunk]
    <3>1. fetches' = Append(waiting, next) /\ fetched' = fetched
      BY <1>2, <2>2 DEF SettleOrFetch
    <3>2. next \in Fetch /\ next.chunk = NoChunk
      BY <1>n DEF Fetch, NoChunk
    <3>3. Exhausted
      BY <1>n, <2>2 DEF Exhausted
    <3> HIDE DEF next
    <3>4. fetches' \in Seq(Fetch)
      BY <3>1, <3>2
    <3>5. TypeOK'
      BY <1>t, <2>0, <3>1, <3>4 DEF TypeOK, Fetch
    <3>6. Continues(fetches, Len(chunks))'
      <4>1. /\ Len(fetches') = Len(waiting) + 1
            /\ \A i \in 1..Len(waiting) : fetches'[i] = waiting[i]
            /\ fetches'[Len(waiting) + 1] = next
        BY <3>1, <3>2
      <4> QED
        BY <1>n, <1>c, <3>1, <3>2, <3>3, <4>1 DEF Continues, Exhausted
    <3> QED
      BY <2>0, <2>3, <3>5, <3>6 DEF IInv
  <2> QED
    BY <2>1, <2>2
<1> QED
  BY <1>1, <1>2

LEMMA StepIInv == IInv /\ [Next]_vars => IInv'
<1> SUFFICES ASSUME IInv, [Next]_vars PROVE IInv'
  OBVIOUS
<1> USE ReaderAssumption
<1>t. TypeOK
  BY DEF IInv
<1>0. CASE UNCHANGED vars
  BY <1>0 DEF vars, native, reader, IInv, TypeOK, Continues, Exhausted,
              ReadsGetWhatTheyAsked, Everything
<1>1. ASSUME NEW r \in Reads, StartRead(r) PROVE IInv'
  <2>1. PICK goal \in 0..Everything : target' = [target EXCEPT ![r] = goal]
    BY <1>1 DEF StartRead
  <2>2. /\ SettleOrFetch(r, fetches)
        /\ source' = source /\ streaming' = streaming /\ broken' = broken
        /\ chunks' = chunks /\ chunkSizeRuns' = chunkSizeRuns
        /\ currentRowCount' = currentRowCount /\ done' = done
    BY <1>1 DEF StartRead, reader
  <2>3. fetches \in Seq(Fetch)
    BY <1>t DEF TypeOK, Fetch
  <2>4. Continues(fetches, Len(chunks'))
    BY <2>2 DEF IInv, reader
  <2>5. /\ target' \in [Reads -> 0..Everything]
        /\ \A u \in Reads \ {r} : target'[u] = target[u]
    BY <1>t, <2>1 DEF TypeOK
  <2>6. /\ chunks' \in Seq(1..Len(source)) /\ chunkSizeRuns' \in Seq(Runs)
        /\ currentRowCount' \in Nat /\ currentRowCount' >= currentRowCount
        /\ done' \in BOOLEAN
    BY <1>t, <2>2 DEF TypeOK
  <2>8. done => done'
    BY <2>2
  <2>7. /\ \A i \in 1..Len(chunks') : chunks'[i] = i
        /\ done' => Exhausted /\ fetched = Len(chunks')
    BY <2>2 DEF IInv, reader
  <2> QED
    BY <2>2, <2>3, <2>4, <2>5, <2>6, <2>7, <2>8, RoundOfLoop
<1>2. ASSUME NEW r \in Reads, ResumeRead(r) PROVE IInv'
  <2> DEFINE head == fetches[1].chunk
             waiting == RemoveAt(fetches, 1)
  <2>1. /\ fetches # <<>> /\ target' = target
        /\ UNCHANGED <<source, streaming, broken>>
        /\ Receive(r, head) /\ SettleOrFetch(r, waiting)
    BY <1>2 DEF ResumeRead, InTurn
  <2>2. fetches \in Seq(Fetch) /\ Len(fetches) \in Nat \ {0}
    BY <1>t, <2>1 DEF TypeOK, Fetch
  <2>3. /\ waiting \in Seq(Fetch) /\ Len(waiting) = Len(fetches) - 1
        /\ \A i \in 1..Len(fetches) - 1 : waiting[i] = fetches[i + 1]
    BY <2>1, <2>2, FirstRemoved
  <2>4. /\ \A i \in 1..Len(fetches) :
             fetches[i].chunk = IF Len(chunks) + i <= fetched THEN Len(chunks) + i
                                                              ELSE NoChunk
        /\ fetched \in Len(chunks)..Len(chunks) + Len(fetches)
        /\ fetched < Len(chunks) + Len(fetches) => Exhausted
    BY DEF IInv, Continues
  <2>5. /\ Len(chunks) \in Nat /\ fetched \in 0..Len(source) /\ Len(source) \in Nat
        /\ chunks \in Seq(1..Len(source)) /\ target \in [Reads -> 0..Everything]
    BY <1>t DEF TypeOK
  <2>6. head = IF Len(chunks) + 1 <= fetched THEN Len(chunks) + 1 ELSE NoChunk
    BY <2>2, <2>4
  <2> HIDE DEF waiting, head
  <2>7. CASE Len(chunks) + 1 <= fetched
    <3>1. head = Len(chunks) + 1 /\ head \in 1..Len(source) /\ head # NoChunk
      BY <2>5, <2>6, <2>7 DEF NoChunk
    <3>2. /\ chunks' = Append(chunks, head)
          /\ chunkSizeRuns' = WithChunk(chunkSizeRuns, source[head])
          /\ currentRowCount' = currentRowCount + source[head]
          /\ done' = done
      BY <2>1, <3>1 DEF Receive
    <3>3. source[head] \in Sizes /\ source[head] \in Nat
      <4>1. source \in Seq(Sizes)
        BY <1>t DEF TypeOK
      <4>2. source[head] \in Sizes
        BY <3>1, <4>1, ElementOfSeq
      <4> QED
        BY <4>2
    <3>4. chunkSizeRuns' \in Seq(Runs)
      BY <1>t, <3>2, <3>3, WithChunkType DEF TypeOK
    <3>5. /\ chunks' \in Seq(1..Len(source)) /\ Len(chunks') = Len(chunks) + 1
          /\ \A i \in 1..Len(chunks) : chunks'[i] = chunks[i]
          /\ chunks'[Len(chunks) + 1] = head
      BY <2>5, <3>1, <3>2
    <3>6. \A i \in 1..Len(chunks') : chunks'[i] = i
      <4>1. \A i \in 1..Len(chunks) : chunks[i] = i
        BY DEF IInv
      <4> SUFFICES ASSUME NEW i \in 1..Len(chunks')
                   PROVE  chunks'[i] = i
        OBVIOUS
      <4>2. i \in 1..Len(chunks) + 1
        BY <3>5
      <4>3. i \in 1..Len(chunks) \/ i = Len(chunks) + 1
        BY <2>5, <4>2, UpToNext
      <4> QED
        BY <3>1, <3>5, <4>1, <4>3
    <3>7. Continues(waiting, Len(chunks'))
      <4>1. ASSUME NEW i \in 1..Len(waiting)
            PROVE  waiting[i].chunk = IF Len(chunks') + i <= fetched
                                      THEN Len(chunks') + i ELSE NoChunk
        <5>1. /\ i \in 1..Len(fetches) - 1 /\ i + 1 \in 1..Len(fetches)
              /\ Len(chunks) + (i + 1) = Len(chunks') + i
          BY <2>2, <2>3, <2>5, <3>5
        <5>2. waiting[i] = fetches[i + 1]
          BY <2>3, <5>1
        <5>3. fetches[i + 1].chunk = IF Len(chunks) + (i + 1) <= fetched
                                     THEN Len(chunks) + (i + 1) ELSE NoChunk
          BY <2>4, <5>1
        <5> QED
          BY <5>1, <5>2, <5>3
      <4>2. Len(chunks') + Len(waiting) = Len(chunks) + Len(fetches)
        BY <2>2, <2>3, <2>5, <3>5
      <4>3. fetched \in Len(chunks')..Len(chunks') + Len(waiting)
        BY <2>2, <2>4, <2>5, <2>7, <3>5, <4>2
      <4> QED
        BY <2>4, <4>1, <4>2, <4>3 DEF Continues
    <3>8. ~done
      BY <2>5, <2>7 DEF IInv
    <3>9. currentRowCount' \in Nat /\ currentRowCount' >= currentRowCount
      BY <1>t, <3>2, <3>3 DEF TypeOK
    <3>10. done' \in BOOLEAN /\ ~done'
      BY <1>t, <3>2, <3>8 DEF TypeOK
    <3> QED
      BY <2>1, <2>3, <2>5, <3>4, <3>5, <3>6, <3>7, <3>8, <3>9, <3>10, RoundOfLoop
  <2>8. CASE ~(Len(chunks) + 1 <= fetched)
    <3>1. head = NoChunk
      BY <2>6, <2>8
    <3>2. done' = TRUE /\ UNCHANGED <<chunks, chunkSizeRuns, currentRowCount>>
      BY <2>1, <3>1 DEF Receive
    <3>3. fetched = Len(chunks) /\ Exhausted
      BY <2>2, <2>4, <2>5, <2>8
    <3>4. Continues(waiting, Len(chunks'))
      <4>1. ASSUME NEW i \in 1..Len(waiting)
            PROVE  /\ waiting[i].chunk = NoChunk
                   /\ ~(Len(chunks') + i <= fetched)
        <5>1. /\ i \in 1..Len(fetches) - 1 /\ i + 1 \in 1..Len(fetches)
              /\ ~(Len(chunks) + (i + 1) <= fetched)
              /\ ~(Len(chunks) + i <= fetched)
          BY <2>2, <2>3, <2>5, <3>3
        <5>2. waiting[i] = fetches[i + 1]
          BY <2>3, <5>1
        <5>3. fetches[i + 1].chunk = NoChunk
          BY <2>4, <5>1
        <5> QED
          BY <3>2, <5>1, <5>2, <5>3
      <4>2. fetched \in Len(chunks')..Len(chunks') + Len(waiting)
        BY <2>2, <2>3, <2>5, <3>2, <3>3
      <4> QED
        BY <3>3, <4>1, <4>2 DEF Continues
    <3>5. /\ chunkSizeRuns' \in Seq(Runs) /\ currentRowCount' \in Nat
          /\ currentRowCount' >= currentRowCount
      BY <1>t, <3>2 DEF TypeOK
    <3>6. \A i \in 1..Len(chunks') : chunks'[i] = i
      BY <3>2 DEF IInv
    <3> QED
      BY <2>1, <2>3, <2>5, <3>2, <3>3, <3>4, <3>5, <3>6, RoundOfLoop
  <2> QED
    BY <2>7, <2>8
<1>3. CASE StreamFails
  BY <1>3 DEF StreamFails, reader, IInv, TypeOK, Continues, Exhausted,
              ReadsGetWhatTheyAsked, Everything
<1> QED
  BY <1>0, <1>1, <1>2, <1>3 DEF Next

LEMMA Invariant == Spec => []IInv
<1>1. IInv /\ [Next]_vars => IInv'
  BY StepIInv
<1> QED
  BY InitIInv, <1>1, PTL DEF Spec

-----------------------------------------------------------------------------
(* The variables keep their types.                                         *)
THEOREM TypeCorrect == Spec => []TypeOK
<1>1. IInv => TypeOK
  BY DEF IInv
<1> QED
  BY Invariant, <1>1, PTL

(* Overlapping reads keep libduckdb's chunks, all of them, in their order. *)
THEOREM OrderCorrect == Spec => []ChunksInOrder
<1>1. IInv => ChunksInOrder
  <2> SUFFICES ASSUME IInv PROVE ChunksInOrder
    OBVIOUS
  <2>1. DOMAIN chunks = 1..Len(chunks) /\ DOMAIN fetches = 1..Len(fetches)
    BY DEF IInv, TypeOK
  <2> QED
    BY <2>1 DEF IInv, Continues, ChunksInOrder
<1> QED
  BY Invariant, <1>1, PTL

(* A settled read got the rows it asked for, or the data ended.            *)
THEOREM ReadsCorrect == Spec => []ReadsGetWhatTheyAsked
<1>1. IInv => ReadsGetWhatTheyAsked
  BY DEF IInv
<1> QED
  BY Invariant, <1>1, PTL

(* Unless a stream failed, a reader that is done has every chunk.          *)
THEOREM DoneCorrect == Spec => []DoneMeansComplete
<1>1. IInv => DoneMeansComplete
  <2> SUFFICES ASSUME IInv, done, ~broken
               PROVE  chunks = [i \in DOMAIN source |-> i]
    BY DEF DoneMeansComplete
  <2>1. /\ chunks \in Seq(1..Len(source)) /\ DOMAIN source = 1..Len(source)
        /\ Len(chunks) = Len(source)
    BY DEF IInv, TypeOK, Exhausted
  <2>2. \A i \in 1..Len(chunks) : chunks[i] = i
    BY DEF IInv
  <2>3. DOMAIN chunks = 1..Len(chunks) /\ chunks = [i \in DOMAIN chunks |-> chunks[i]]
    BY <2>1
  <2> QED
    BY <2>1, <2>2, <2>3
<1> QED
  BY Invariant, <1>1, PTL

(* Nothing is added to a reader that is done.                              *)
THEOREM DoneFinal == Spec => DoneIsFinal
<1>1. IInv /\ [Next]_vars =>
        [done => done' /\ UNCHANGED <<chunks, chunkSizeRuns, currentRowCount>>]_vars
  <2> SUFFICES ASSUME IInv, [Next]_vars, done
               PROVE  done' /\ UNCHANGED <<chunks, chunkSizeRuns, currentRowCount>>
    OBVIOUS
  <2>1. CASE UNCHANGED vars
    BY <2>1 DEF vars, reader
  <2>2. ASSUME NEW r \in Reads, StartRead(r)
        PROVE  done' /\ UNCHANGED <<chunks, chunkSizeRuns, currentRowCount>>
    BY <2>2 DEF StartRead, reader
  <2>3. ASSUME NEW r \in Reads, ResumeRead(r)
        PROVE  done' /\ UNCHANGED <<chunks, chunkSizeRuns, currentRowCount>>
    <3>1. fetches # <<>> /\ Receive(r, fetches[1].chunk)
      BY <2>3 DEF ResumeRead, InTurn
    <3>2. 1 \in 1..Len(fetches) /\ Len(chunks) \in Nat
      BY <3>1 DEF IInv, TypeOK
    <3>3. fetches[1].chunk = NoChunk
      BY <3>2 DEF IInv, Continues
    <3> QED
      BY <3>1, <3>3 DEF Receive
  <2>4. CASE StreamFails
    BY <2>4 DEF StreamFails, reader
  <2> QED
    BY <2>1, <2>2, <2>3, <2>4 DEF Next
<1> QED
  BY Invariant, <1>1, PTL DEF Spec, DoneIsFinal

-----------------------------------------------------------------------------
(* value.  What is computed run by run, or chunk by chunk, is proved by    *)
(* looking at the first run or chunk at which it would be wrong.           *)

(* A set of numbers that is not empty has a least one.                     *)
LEMMA LeastNumber ==
  ASSUME NEW S \in SUBSET Nat, S # {}
  PROVE  \E m \in S : \A k \in S : m <= k
<1>1. PICK R : R = OpToRel(<, Nat)
  OBVIOUS
<1>2. \A x \in Nat, y \in Nat : y < x => <<y, x>> \in R
  BY <1>1 DEF OpToRel
<1>3. IsWellFoundedOn(R, Nat)
  BY <1>1, NatLessThanWellFounded
<1>4. PICK m \in S : \A y \in S : ~(<<y, m>> \in R)
  BY <1>3, WFMin
<1>5. \A y \in S : ~(y < m)
  BY <1>2, <1>4
<1> QED
  BY <1>5

(* A function that grows at each step grows.                              *)
LEMMA Monotone ==
  ASSUME NEW n \in Nat, NEW f \in [0..n -> Nat], \A c \in 1..n : f[c - 1] <= f[c],
         NEW a \in 0..n, NEW b \in a..n
  PROVE  f[a] <= f[b]
<1> DEFINE S == {c \in a..n : ~(f[a] <= f[c])}
<1>1. ASSUME S # {} PROVE FALSE
  <2>0. S \in SUBSET Nat
    OBVIOUS
  <2>1. PICK m \in S : \A k \in S : m <= k
    BY <1>1, <2>0, LeastNumber
  <2>2. m # a
    BY <2>1
  <2>3. m - 1 \in a..n /\ m - 1 \notin S /\ m \in 1..n
    BY <2>1, <2>2
  <2>4. f[a] <= f[m - 1] /\ f[m - 1] <= f[m]
    BY <2>3
  <2>5. f[a] \in Nat /\ f[m - 1] \in Nat /\ f[m] \in Nat
    BY <2>3
  <2>6. f[a] <= f[m]
    BY <2>4, <2>5
  <2> QED
    BY <2>1, <2>6
<1> QED
  BY <1>1

(* What a growing function reaches it reaches in one of its steps.         *)
LEMMA StepOf ==
  ASSUME NEW n \in Nat, NEW f \in [0..n -> Nat], f[0] = 0,
         NEW x \in Nat \ {0}, x <= f[n]
  PROVE  \E c \in 1..n : f[c - 1] < x /\ x <= f[c]
<1> DEFINE S == {c \in 0..n : x <= f[c]}
<1>1. n \in S
  OBVIOUS
<1>0. S \in SUBSET Nat
  OBVIOUS
<1>2. PICK m \in S : \A k \in S : m <= k
  BY <1>0, <1>1, LeastNumber
<1>3. m # 0
  BY <1>2
<1>4. m - 1 \in 0..n /\ m - 1 \notin S /\ m \in 1..n
  BY <1>2, <1>3
<1>5. ~(x <= f[m - 1]) /\ f[m - 1] \in Nat
  BY <1>4
<1> QED
  BY <1>2, <1>4, <1>5

(* The folds of value, run by run.                                         *)
Folding(g, base, runs, n) ==
  g = [s \in SUBSET (1..n) |-> IF s = {} THEN base
                               ELSE SkipRun(g[s \ {Max(s)}], runs[Max(s)])]

(* Max of a set of numbers up to m.                                        *)
LEMMA MaxOf ==
  ASSUME NEW m \in Nat, NEW s \in SUBSET (1..m)
  PROVE  /\ m \in s => Max(s) = m
         /\ s # {} => Max(s) \in s
<1>1. ASSUME m \in s PROVE Max(s) = m
  <2>1. \A y \in s : m >= y
    OBVIOUS
  <2>2. \A x \in s : (\A y \in s : x >= y) => x = m
    BY <1>1
  <2> QED
    BY <1>1, <2>1, <2>2 DEF Max
<1>2. ASSUME s # {} PROVE Max(s) \in s
  <2> DEFINE D == {d \in Nat : m - d \in s}
  <2>0. PICK e \in s : TRUE
    BY <1>2
  <2>1. D \in SUBSET Nat /\ m - e \in D
    BY <2>0
  <2>2. PICK x \in D : \A z \in D : x <= z
    BY <2>1, LeastNumber
  <2>3. \A z \in s : m - z \in D
    OBVIOUS
  <2>4. m - x \in s /\ \A z \in s : m - x >= z
    BY <2>2, <2>3
  <2> QED
    BY <2>4 DEF Max
<1> QED
  BY <1>1, <1>2

(* The fold over the first runs, for every number of them.                 *)
LEMMA FoldingExists ==
  ASSUME NEW base, NEW runs, NEW n \in Nat
  PROVE  \E g : Folding(g, base, runs, n)
<1> DEFINE S == {m \in Nat : ~\E g : Folding(g, base, runs, m)}
<1>1. ASSUME S # {} PROVE FALSE
  <2>1. PICK m \in S : \A k \in S : m <= k
    BY <1>1, LeastNumber
  <2>2. m # 0
    <3>1. Folding([s \in SUBSET (1..0) |-> base], base, runs, 0)
      BY DEF Folding
    <3> QED
      BY <2>1, <3>1
  <2>3. PICK g : Folding(g, base, runs, m - 1)
    BY <2>1, <2>2
  <2> DEFINE h == [s \in SUBSET (1..m) |-> IF m \in s THEN SkipRun(g[s \ {m}], runs[m])
                                           ELSE g[s]]
  <2>4. \A s \in SUBSET (1..m) : m \in s => Max(s) = m /\ s \ {m} \in SUBSET (1..m - 1)
    BY MaxOf
  <2>5. \A s \in SUBSET (1..m) : m \notin s => s \in SUBSET (1..m - 1)
    OBVIOUS
  <2>6. \A s \in SUBSET (1..m) : s # {} => Max(s) \in s
    BY MaxOf
  <2>7. ASSUME NEW s \in SUBSET (1..m), s # {}
        PROVE  h[s] = SkipRun(h[s \ {Max(s)}], runs[Max(s)])
    <3>1. CASE m \in s
      <4>1. m \notin s \ {m} /\ s \ {m} \in SUBSET (1..m)
        OBVIOUS
      <4>2. h[s \ {m}] = g[s \ {m}]
        BY <4>1
      <4> QED
        BY <2>4, <3>1, <4>2
    <3>2. CASE m \notin s
      <4>1. s \in SUBSET (1..m - 1) /\ s \ {Max(s)} \in SUBSET (1..m - 1)
        BY <2>5, <3>2
      <4>2. h[s] = g[s] /\ h[s \ {Max(s)}] = g[s \ {Max(s)}]
        BY <3>2, <4>1
      <4>3. g[s] = SkipRun(g[s \ {Max(s)}], runs[Max(s)])
        BY <2>3, <2>7, <4>1 DEF Folding
      <4> QED
        BY <4>2, <4>3
    <3> QED
      BY <3>1, <3>2
  <2>8. h[{}] = base
    BY <2>3, <2>2 DEF Folding
  <2>9. Folding(h, base, runs, m)
    BY <2>7, <2>8 DEF Folding
  <2> QED
    BY <2>1, <2>9
<1> QED
  BY <1>1

(* The search of value takes the runs one after the other.                 *)
LEMMA RunByRun ==
  ASSUME NEW base, NEW runs \in Seq(Runs)
  PROVE  \E st : /\ st[0] = base
                 /\ \A k \in 1..Len(runs) : st[k] = SkipRun(st[k - 1], runs[k])
                 /\ FoldLeft(SkipRun, base, runs) = st[Len(runs)]
<1> DEFINE n == Len(runs)
           G == CHOOSE g : Folding(g, base, runs, n)
<1>1. n \in Nat /\ DOMAIN runs = 1..n
  OBVIOUS
<1>2. Folding(G, base, runs, n)
  BY <1>1, FoldingExists
<1>3. FoldLeft(SkipRun, base, runs) = G[1..n]
  BY <1>1 DEF FoldLeft, MapThenFoldSet, Folding
<1> HIDE DEF G
<1>4. G[1..0] = base
  BY <1>2 DEF Folding
<1>5. ASSUME NEW k \in 1..n PROVE G[1..k] = SkipRun(G[1..k - 1], runs[k])
  <2>1. 1..k \in SUBSET (1..n) /\ k \in 1..k
    BY <1>1
  <2>3. (1..k) \ {k} = 1..k - 1
    BY <1>1
  <2>2. Max(1..k) = k
    BY <1>1, <2>1, MaxOf
  <2> QED
    BY <1>2, <2>1, <2>2, <2>3 DEF Folding
<1> DEFINE st == [k \in 0..n |-> G[1..k]]
<1>6. st[0] = base /\ st[n] = G[1..n]
  BY <1>1, <1>4
<1>7. \A k \in 1..n : st[k] = SkipRun(st[k - 1], runs[k])
  BY <1>1, <1>5
<1> QED
  BY <1>3, <1>6, <1>7

-----------------------------------------------------------------------------
(* Chunk c holds the rows off[c - 1] + 1 to off[c], run k the chunks       *)
(* start[k - 1] + 1 to start[k], all of its size.                          *)
Layout(src, off, start, runs, n, total) ==
  /\ off \in [0..n -> Nat] /\ off[0] = 0 /\ off[n] = total
  /\ \A c \in 1..n : off[c] = off[c - 1] + src[c]
  /\ start \in [0..Len(runs) -> 0..n] /\ start[0] = 0 /\ start[Len(runs)] = n
  /\ \A k \in 1..Len(runs) :
       /\ start[k] = start[k - 1] + runs[k].chunkCount
       /\ off[start[k]] = off[start[k - 1]] + runs[k].rowCount
       /\ \A c \in start[k - 1] + 1..start[k] :
            /\ src[c] = runs[k].chunkSize
            /\ off[c - 1] = off[start[k - 1]] + (c - 1 - start[k - 1]) * runs[k].chunkSize

LaidOut == \E off, start : Layout(source, off, start, chunkSizeRuns, Len(chunks), currentRowCount)

(* A chunk more, in the last run or in one of its own.                     *)
LEMMA LayoutGrows ==
  ASSUME NEW src, NEW off, NEW start, NEW runs \in Seq(Runs), NEW n \in Nat, NEW total \in Nat,
         Layout(src, off, start, runs, n, total), src[n + 1] \in Sizes
  PROVE  \E o, s : Layout(src, o, s, WithChunk(runs, src[n + 1]), n + 1, total + src[n + 1])
<1> DEFINE rows == src[n + 1]
           L == Len(runs)
           o == [c \in 0..n + 1 |-> IF c = n + 1 THEN total + rows ELSE off[c]]
<1>r. rows \in Nat \ {0}
  BY ReaderAssumption
<1>l. L \in Nat
  OBVIOUS
<1>1. rows \in Nat \ {0} /\ L \in Nat
  BY <1>r, <1>l
<1>2. /\ o \in [0..n + 1 -> Nat] /\ o[0] = 0 /\ o[n + 1] = total + rows
      /\ \A c \in 0..n : o[c] = off[c]
      /\ o[n] = total
  BY <1>1 DEF Layout
<1>3. \A c \in 1..n + 1 : o[c] = o[c - 1] + src[c]
  <2> SUFFICES ASSUME NEW c \in 1..n + 1 PROVE o[c] = o[c - 1] + src[c]
    OBVIOUS
  <2>1. CASE c = n + 1
    BY <1>2, <2>1
  <2>2. CASE c \in 1..n
    <3>1. c \in 0..n /\ c - 1 \in 0..n
      BY <2>2
    <3> QED
      BY <1>2, <2>2, <3>1 DEF Layout
  <2> QED
    BY <2>1, <2>2
<1>4. /\ start \in [0..L -> 0..n] /\ start[0] = 0 /\ start[L] = n
      /\ \A k \in 1..L :
           /\ start[k] = start[k - 1] + runs[k].chunkCount
           /\ off[start[k]] = off[start[k - 1]] + runs[k].rowCount
           /\ \A c \in start[k - 1] + 1..start[k] :
                /\ src[c] = runs[k].chunkSize
                /\ off[c - 1] = off[start[k - 1]] + (c - 1 - start[k - 1]) * runs[k].chunkSize
  BY DEF Layout
<1>5. \A k \in 1..L : runs[k] \in Runs
  OBVIOUS
<1>6. \A k \in 1..L : /\ o[start[k]] = o[start[k - 1]] + runs[k].rowCount
                       /\ \A c \in start[k - 1] + 1..start[k] :
                            o[c - 1] = o[start[k - 1]] + (c - 1 - start[k - 1]) * runs[k].chunkSize
  <2> SUFFICES ASSUME NEW k \in 1..L
               PROVE  /\ o[start[k]] = o[start[k - 1]] + runs[k].rowCount
                      /\ \A c \in start[k - 1] + 1..start[k] :
                           o[c - 1] = o[start[k - 1]] + (c - 1 - start[k - 1]) * runs[k].chunkSize
    OBVIOUS
  <2>1. start[k] \in 0..n /\ start[k - 1] \in 0..n
    BY <1>1, <1>4
  <2>2. \A c \in start[k - 1] + 1..start[k] : c - 1 \in 0..n
    BY <2>1
  <2> QED
    BY <1>2, <1>4, <2>1, <2>2
<1> HIDE DEF o
<1>7. CASE runs # <<>> /\ Last(runs).chunkSize = rows
  <2> DEFINE last == runs[L]
             longer == [last EXCEPT !.chunkCount = @ + 1, !.rowCount = @ + rows]
             longers == WithChunk(runs, rows)
             s == [k \in 0..L |-> IF k = L THEN n + 1 ELSE start[k]]
  <2>1. L \in 1..L /\ L - 1 \in 0..L /\ last \in Runs /\ last.chunkSize = rows
    BY <1>1, <1>5, <1>7 DEF Last
  <2>2. /\ longer.chunkCount = last.chunkCount + 1 /\ longer.rowCount = last.rowCount + rows
        /\ longer.chunkSize = rows
    BY <2>1 DEF Runs
  <2>t. longer \in Runs
    BY <1>1, <2>1, LongerRun
  <2>3. /\ longers = Front(runs) \o <<longer>>
        /\ Front(runs) \in Seq(Runs) /\ Len(Front(runs)) = L - 1
        /\ \A k \in 1..L - 1 : Front(runs)[k] = runs[k]
    BY <1>1, <1>7, <2>1 DEF WithChunk, Last, Front
  <2> HIDE DEF longer, longers
  <2>4. /\ Len(longers) = L /\ longers[L] = longer
        /\ \A k \in 1..L - 1 : longers[k] = runs[k]
    <3>1. Len(<<longer>>) = 1 /\ <<longer>>[1] = longer /\ <<longer>> \in Seq(Runs)
      BY <2>t
    <3>2. Len(longers) = L
      BY <1>1, <2>1, <2>3, <3>1, ConcatProperties
    <3>3. \A k \in 1..L - 1 : longers[k] = runs[k]
      BY <1>1, <2>1, <2>3, <3>1, ConcatProperties
    <3>4. longers[L] = longer
      BY <1>1, <2>1, <2>3, <3>1, ConcatProperties
    <3> QED
      BY <3>2, <3>3, <3>4
  <2>5. /\ s \in [0..L -> 0..n + 1] /\ s[0] = 0 /\ s[L] = n + 1
        /\ \A k \in 0..L - 1 : s[k] = start[k]
    BY <1>1, <1>4, <2>1
  <2> HIDE DEF s, last
  <2>6. ASSUME NEW k \in 1..L
        PROVE  /\ s[k] = s[k - 1] + longers[k].chunkCount
               /\ o[s[k]] = o[s[k - 1]] + longers[k].rowCount
               /\ \A c \in s[k - 1] + 1..s[k] :
                    /\ src[c] = longers[k].chunkSize
                    /\ o[c - 1] = o[s[k - 1]] + (c - 1 - s[k - 1]) * longers[k].chunkSize
    <3>1. CASE k \in 1..L - 1
      <4>1. k \in 0..L - 1 /\ k - 1 \in 0..L - 1
        BY <3>1
      <4>2. s[k] = start[k] /\ s[k - 1] = start[k - 1] /\ longers[k] = runs[k]
        BY <2>4, <2>5, <3>1, <4>1
      <4> QED
        BY <1>4, <1>6, <4>2
    <3>2. CASE k = L
      <4>a. s[k] = n + 1 /\ s[k - 1] = start[L - 1]
        BY <1>1, <2>1, <2>5, <3>2
      <4>b. start[L - 1] \in 0..n /\ n = start[L - 1] + last.chunkCount
        BY <1>4, <2>1 DEF last
      <4>c. last.chunkCount \in Nat \ {0} /\ last.rowCount \in Nat
        BY <2>1 DEF Runs
      <4>1. /\ s[k] = n + 1 /\ s[k - 1] = start[L - 1] /\ start[L - 1] \in 0..n
            /\ n = start[L - 1] + last.chunkCount
            /\ last.chunkCount \in Nat /\ last.rowCount \in Nat
        BY <4>a, <4>b, <4>c
      <4>2. /\ o[n] = o[start[L - 1]] + last.rowCount
            /\ \A c \in start[L - 1] + 1..n :
                 /\ src[c] = rows
                 /\ o[c - 1] = o[start[L - 1]] + (c - 1 - start[L - 1]) * rows
        BY <1>4, <1>6, <2>1 DEF last
      <4>3. o[start[L - 1]] \in Nat
        BY <1>2, <4>1
      <4>d. /\ longers[k].chunkCount = last.chunkCount + 1
            /\ longers[k].rowCount = last.rowCount + rows
        BY <2>2, <2>4, <3>2
      <4>4. s[k] = s[k - 1] + longers[k].chunkCount
        BY <4>1, <4>d
      <4>5. o[s[k]] = o[s[k - 1]] + longers[k].rowCount
        <5>1. o[s[k]] = total + rows /\ o[s[k - 1]] = o[start[L - 1]] /\ o[n] = total
          BY <1>2, <4>a
        <5> QED
          BY <1>1, <4>c, <4>2, <4>3, <4>d, <5>1
      <4>6. o[n] = o[start[L - 1]] + (n - start[L - 1]) * rows
        <5>1. n \in start[L - 1] + 1..n
          BY <4>b, <4>c
        <5>2. o[n - 1] = o[start[L - 1]] + (n - 1 - start[L - 1]) * rows /\ src[n] = rows
          BY <4>2, <5>1
        <5>3. o[n] = o[n - 1] + src[n]
          BY <1>3, <4>b, <5>1
        <5>4. (n - start[L - 1]) * rows = (n - 1 - start[L - 1]) * rows + rows
          BY <1>1, <4>1
        <5>5. (n - 1 - start[L - 1]) * rows \in Int
          BY <1>1, <4>b
        <5> QED
          BY <1>1, <4>3, <5>2, <5>3, <5>4, <5>5
      <4>7. ASSUME NEW c \in s[k - 1] + 1..s[k]
            PROVE  /\ src[c] = longers[k].chunkSize
                   /\ o[c - 1] = o[s[k - 1]] + (c - 1 - s[k - 1]) * longers[k].chunkSize
        <5>1. longers[k].chunkSize = rows
          BY <2>2, <2>4, <3>2
        <5>2. CASE c = n + 1
          BY <4>1, <4>6, <5>1, <5>2
        <5>3. CASE c # n + 1
          <6>1. c \in start[L - 1] + 1..n
            BY <4>1, <5>3
          <6> QED
            BY <4>1, <4>2, <5>1, <6>1
        <5> QED
          BY <5>2, <5>3
      <4> QED
        BY <4>4, <4>5, <4>7
    <3> QED
      BY <1>1, <3>1, <3>2
  <2> QED
    <3>1. Layout(src, o, s, longers, n + 1, total + rows)
      BY <1>2, <1>3, <2>4, <2>5, <2>6 DEF Layout
    <3> QED
      BY <3>1 DEF longers
<1>8. CASE ~(runs # <<>> /\ Last(runs).chunkSize = rows)
  <2> DEFINE run == [chunkCount |-> 1, chunkSize |-> rows, rowCount |-> rows]
             more == WithChunk(runs, rows)
             s == [k \in 0..L + 1 |-> IF k = L + 1 THEN n + 1 ELSE start[k]]
  <2>1. more = Append(runs, run)
    BY <1>8 DEF WithChunk
  <2>2. run.chunkCount = 1 /\ run.chunkSize = rows /\ run.rowCount = rows
    OBVIOUS
  <2> HIDE DEF run, more
  <2>3. /\ Len(more) = L + 1 /\ more[L + 1] = run
        /\ \A k \in 1..L : more[k] = runs[k]
    BY <2>1
  <2>4. /\ s \in [0..L + 1 -> 0..n + 1] /\ s[0] = 0 /\ s[L + 1] = n + 1 /\ s[L] = n
        /\ \A k \in 0..L : s[k] = start[k]
    BY <1>1, <1>4
  <2> HIDE DEF s
  <2>5. ASSUME NEW k \in 1..L + 1
        PROVE  /\ s[k] = s[k - 1] + more[k].chunkCount
               /\ o[s[k]] = o[s[k - 1]] + more[k].rowCount
               /\ \A c \in s[k - 1] + 1..s[k] :
                    /\ src[c] = more[k].chunkSize
                    /\ o[c - 1] = o[s[k - 1]] + (c - 1 - s[k - 1]) * more[k].chunkSize
    <3>1. CASE k \in 1..L
      <4>1. k \in 0..L /\ k - 1 \in 0..L
        BY <3>1
      <4>2. s[k] = start[k] /\ s[k - 1] = start[k - 1] /\ more[k] = runs[k]
        BY <2>3, <2>4, <3>1, <4>1
      <4> QED
        BY <1>4, <1>6, <3>1, <4>2
    <3>2. CASE k = L + 1
      <4>1. s[k] = n + 1 /\ s[k - 1] = n /\ more[k] = run
        BY <1>1, <2>3, <2>4, <3>2
      <4>2. \A c \in s[k - 1] + 1..s[k] : c = n + 1
        BY <4>1
      <4>3. (n + 1 - 1 - n) * rows = 0 /\ total + 0 = total
        BY <1>1
      <4>4. \A c \in s[k - 1] + 1..s[k] : o[c - 1] = o[n]
        BY <4>2
      <4> QED
        BY <1>2, <2>2, <4>1, <4>2, <4>3, <4>4
    <3> QED
      BY <1>1, <3>1, <3>2
  <2> QED
    <3>1. Layout(src, o, s, more, n + 1, total + rows)
      BY <1>2, <1>3, <2>3, <2>4, <2>5 DEF Layout
    <3> QED
      BY <3>1 DEF more
<1> QED
  BY <1>7, <1>8

-----------------------------------------------------------------------------
(* The place in the sequence of all rows that a flattening gives an item.  *)
Flattening(g, seqs, n) ==
  g = [i \in 1..n |-> IF i = 1 THEN seqs[i] ELSE g[i - 1] \o seqs[i]]

(* FlattenSeq's function exists.                                           *)
LEMMA FlatteningExists ==
  ASSUME NEW seqs, NEW n \in Nat \ {0}
  PROVE  \E g : Flattening(g, seqs, n)
<1> DEFINE S == {m \in Nat : m # 0 /\ ~\E g : Flattening(g, seqs, m)}
<1>1. ASSUME S # {} PROVE FALSE
  <2>1. PICK m \in S : \A k \in S : m <= k
    BY <1>1, LeastNumber
  <2>2. m # 1
    <3>1. Flattening([i \in 1..1 |-> seqs[i]], seqs, 1)
      BY DEF Flattening
    <3> QED
      BY <2>1, <3>1
  <2>3. m - 1 \in Nat /\ m - 1 # 0 /\ m - 1 \notin S
    BY <2>1, <2>2
  <2>4. PICK g : Flattening(g, seqs, m - 1)
    BY <2>3
  <2> DEFINE h == [i \in 1..m |-> IF i = m THEN g[m - 1] \o seqs[m] ELSE g[i]]
  <2>5. ASSUME NEW i \in 1..m PROVE h[i] = IF i = 1 THEN seqs[i] ELSE h[i - 1] \o seqs[i]
    <3>1. CASE i = m
      <4>1. i # 1 /\ m \in 1..m /\ m - 1 \in 1..m /\ m - 1 # m
        BY <2>1, <2>2, <3>1
      <4>2. h[m] = g[m - 1] \o seqs[m] /\ h[m - 1] = g[m - 1]
        BY <4>1
      <4> QED
        BY <3>1, <4>1, <4>2
    <3>2. CASE i # m
      <4>1. i \in 1..m - 1 /\ (i # 1 => i - 1 \in 1..m - 1)
        BY <3>2
      <4>2. g[i] = IF i = 1 THEN seqs[i] ELSE g[i - 1] \o seqs[i]
        BY <2>4, <4>1 DEF Flattening
      <4>3. h[i] = g[i] /\ (i # 1 => h[i - 1] = g[i - 1])
        BY <3>2, <4>1
      <4> QED
        BY <4>2, <4>3
    <3> QED
      BY <3>1, <3>2
  <2>6. Flattening(h, seqs, m)
    BY <2>5 DEF Flattening
  <2> QED
    BY <2>1, <2>6
<1> QED
  BY <1>1

(* FlattenSeq puts item j of the sequence c behind the sequences before c. *)
LEMMA Flattened ==
  ASSUME NEW T, NEW seqs \in Seq(Seq(T)), Len(seqs) # 0,
         NEW off \in [0..Len(seqs) -> Nat], off[0] = 0,
         \A c \in 1..Len(seqs) : off[c] = off[c - 1] + Len(seqs[c])
  PROVE  /\ FlattenSeq(seqs) \in Seq(T) /\ Len(FlattenSeq(seqs)) = off[Len(seqs)]
         /\ \A c \in 1..Len(seqs) : \A j \in 1..Len(seqs[c]) :
              FlattenSeq(seqs)[off[c - 1] + j] = seqs[c][j]
<1> DEFINE n == Len(seqs)
           G == CHOOSE g : Flattening(g, seqs, n)
<1>1. n \in Nat \ {0} /\ \A c \in 1..n : seqs[c] \in Seq(T) /\ Len(seqs[c]) \in Nat
  OBVIOUS
<1>2. Flattening(G, seqs, n)
  BY <1>1, FlatteningExists
<1>3. FlattenSeq(seqs) = G[n]
  BY <1>1 DEF FlattenSeq, Flattening
<1> HIDE DEF G
<1> DEFINE Good(i) == /\ G[i] \in Seq(T) /\ Len(G[i]) = off[i]
                      /\ \A c \in 1..i : \A j \in 1..Len(seqs[c]) :
                           G[i][off[c - 1] + j] = seqs[c][j]
           S == {i \in Nat : i \in 1..n /\ ~Good(i)}
<1>4. ASSUME NEW c \in 1..n, NEW i \in 1..n, c <= i
      PROVE  off[c - 1] \in Nat /\ off[c] <= off[i]
  <2>1. \A d \in 1..n : off[d - 1] <= off[d]
    <3> SUFFICES ASSUME NEW d \in 1..n PROVE off[d - 1] <= off[d]
      OBVIOUS
    <3>0. d - 1 \in 0..n
      BY <1>1
    <3>1. off[d - 1] \in Nat /\ Len(seqs[d]) \in Nat /\ off[d] = off[d - 1] + Len(seqs[d])
      BY <1>1, <3>0
    <3> QED
      BY <3>1
  <2>2. c \in 0..n /\ i \in c..n /\ c - 1 \in 0..n
    BY <1>4
  <2>3. off[c] <= off[i]
    BY <1>1, <2>1, <2>2, Monotone
  <2> QED
    BY <2>2, <2>3
<1>5. ASSUME S # {} PROVE FALSE
  <2>0. S \in SUBSET Nat
    OBVIOUS
  <2>1. PICK m \in S : \A k \in S : m <= k
    BY <1>5, <2>0, LeastNumber
  <2>2. m \in 1..n /\ ~Good(m)
    BY <2>1
  <2>3. CASE m = 1
    <3>1. G[1] = seqs[1]
      BY <1>1, <1>2 DEF Flattening
    <3>2. off[1] = Len(seqs[1]) /\ off[0] = 0
      BY <1>1
    <3> HIDE DEF S
    <3>3. G[1] \in Seq(T) /\ Len(G[1]) = off[1]
      BY <1>1, <3>1, <3>2
    <3>4. \A c \in 1..1 : \A j \in 1..Len(seqs[c]) : G[1][off[c - 1] + j] = seqs[c][j]
      BY <1>1, <3>1, <3>2
    <3> QED
      BY <2>2, <2>3, <3>3, <3>4
  <2>4. CASE m # 1
    <3> HIDE DEF Good, S
    <3>1. m - 1 \in 1..n /\ ~(m <= m - 1) /\ m - 1 \in Nat
      BY <2>2, <2>4
    <3>n. m - 1 \notin S
      BY <2>1, <3>1
    <3>2. Good(m - 1)
      BY <3>1, <3>n DEF S
    <3> USE DEF Good
    <3>3. G[m] = G[m - 1] \o seqs[m]
      BY <1>2, <2>2, <2>4 DEF Flattening
    <3>4. G[m - 1] \in Seq(T) /\ Len(G[m - 1]) = off[m - 1] /\ seqs[m] \in Seq(T)
      BY <1>1, <2>2, <3>2
    <3>5. off[m] = off[m - 1] + Len(seqs[m]) /\ off[m - 1] \in Nat
      BY <2>2, <3>4
    <3>6. /\ G[m] \in Seq(T) /\ Len(G[m]) = off[m]
          /\ \A x \in 1..off[m - 1] + Len(seqs[m]) :
               G[m][x] = IF x <= off[m - 1] THEN G[m - 1][x] ELSE seqs[m][x - off[m - 1]]
      <4>1. /\ G[m - 1] \o seqs[m] \in Seq(T)
            /\ Len(G[m - 1] \o seqs[m]) = Len(G[m - 1]) + Len(seqs[m])
            /\ \A x \in 1..Len(G[m - 1]) + Len(seqs[m]) :
                 (G[m - 1] \o seqs[m])[x] = IF x <= Len(G[m - 1]) THEN G[m - 1][x]
                                            ELSE seqs[m][x - Len(G[m - 1])]
        <5>1. G[m - 1] \in Seq(T) /\ seqs[m] \in Seq(T)
          BY <3>4
        <5> QED
          BY ONLY <5>1, ConcatProperties
      <4> QED
        BY <3>3, <3>4, <3>5, <4>1
    <3>7. ASSUME NEW c \in 1..m, NEW j \in 1..Len(seqs[c])
          PROVE  G[m][off[c - 1] + j] = seqs[c][j]
      <4>0. c \in 1..n
        BY <2>2
      <4>1. c \in 1..n /\ Len(seqs[c]) \in Nat /\ off[c - 1] \in Nat
        BY <1>1, <1>4, <4>0
      <4>2. off[c] = off[c - 1] + Len(seqs[c])
        BY <4>1
      <4>3. CASE c = m
        <5>1. /\ off[m - 1] + j \in 1..off[m - 1] + Len(seqs[m]) /\ ~(off[m - 1] + j <= off[m - 1])
              /\ (off[m - 1] + j) - off[m - 1] = j
          BY <4>1, <4>3
        <5> QED
          BY <3>6, <4>3, <5>1
      <4>4. CASE c # m
        <5>1. c \in 1..m - 1 /\ c <= m - 1
          BY <2>2, <4>4
        <5>2. off[c] <= off[m - 1]
          BY <1>4, <3>1, <4>1, <5>1
        <5>a. j \in Nat \ {0} /\ j <= Len(seqs[c])
          BY <4>1
        <5>b. off[c - 1] + j <= off[m - 1]
          BY <3>5, <4>1, <4>2, <5>2, <5>a
        <5>c. Len(seqs[m]) \in Nat
          BY <1>1, <2>2
        <5>3. off[c - 1] + j \in 1..off[m - 1] /\ Len(seqs[m]) \in Nat
          BY <3>5, <4>1, <5>a, <5>b, <5>c
        <5>4. G[m][off[c - 1] + j] = G[m - 1][off[c - 1] + j]
          <6>1. off[c - 1] + j \in 1..off[m - 1] + Len(seqs[m]) /\ off[c - 1] + j <= off[m - 1]
            BY <3>5, <5>3
          <6> QED
            BY <3>6, <6>1
        <5>5. G[m - 1][off[c - 1] + j] = seqs[c][j]
          BY <3>2, <5>1
        <5> QED
          BY <5>4, <5>5
      <4> QED
        BY <4>3, <4>4
    <3> QED
      BY <2>2, <3>6, <3>7
  <2> QED
    BY <2>3, <2>4
<1>6. Good(n)
  <2> HIDE DEF Good
  <2>1. n \in Nat /\ n \in 1..n /\ n \notin S
    BY <1>1, <1>5
  <2> QED
    BY <2>1
<1> QED
  BY <1>3, <1>6

-----------------------------------------------------------------------------
(* The chunk and the row within it, from a row of a run of equal sizes.    *)
LEMMA Parts ==
  ASSUME NEW q \in Nat, NEW s \in Nat \ {0}, NEW t \in 0..s - 1
  PROVE  (q * s + t) \div s = q /\ (q * s + t) % s = t
  OBVIOUS

(* Where the search is after it has skipped k runs, or has found the row.  *)
LEMMA SearchSkips ==
  ASSUME NEW off, NEW start, NEW runs \in Seq(Runs), NEW n \in Nat, NEW total \in Nat,
         Layout(source, off, start, runs, n, total),
         NEW x \in Nat, NEW st, st[0] = [found |-> FALSE, chunk |-> 0, row |-> x],
         \A k \in 1..Len(runs) : st[k] = SkipRun(st[k - 1], runs[k]),
         NEW last \in 0..Len(runs), \A k \in 0..last : off[start[k]] <= x
  PROVE  st[last] = [found |-> FALSE, chunk |-> start[last], row |-> x - off[start[last]]]
<1> DEFINE At(k) == [found |-> FALSE, chunk |-> start[k], row |-> x - off[start[k]]]
           S == {k \in Nat : k <= last /\ st[k] # At(k)}
<1>0. Len(runs) \in Nat /\ last \in Nat
  OBVIOUS
<1>1. /\ off \in [0..n -> Nat] /\ off[0] = 0
      /\ start \in [0..Len(runs) -> 0..n] /\ start[0] = 0
      /\ \A k \in 1..Len(runs) : /\ start[k] = start[k - 1] + runs[k].chunkCount
                                  /\ off[start[k]] = off[start[k - 1]] + runs[k].rowCount
  BY DEF Layout
<1>2. ASSUME S # {} PROVE FALSE
  <2>0. S \in SUBSET Nat
    OBVIOUS
  <2>1. PICK m \in S : \A k \in S : m <= k
    BY <1>2, <2>0, LeastNumber
  <2>2. m # 0
    <3>1. start[0] = 0 /\ off[start[0]] = 0
      BY <1>1
    <3>2. x - off[start[0]] = x
      BY <3>1
    <3>3. At(0) = [found |-> FALSE, chunk |-> 0, row |-> x]
      BY <3>1, <3>2
    <3> QED
      BY <2>1, <3>3
  <2>3. m \in 1..last /\ m - 1 \in Nat /\ m - 1 \notin S
    BY <2>1, <2>2
  <2>4. st[m - 1] = At(m - 1)
    BY <2>3
  <2> HIDE DEF S
  <2>5. m \in 1..Len(runs) /\ m \in 0..last /\ m - 1 \in 0..Len(runs) /\ m \in 0..Len(runs)
    BY <1>0, <2>3
  <2>6. /\ off[start[m]] <= x /\ start[m] \in 0..n /\ start[m - 1] \in 0..n
        /\ start[m] = start[m - 1] + runs[m].chunkCount
        /\ off[start[m]] = off[start[m - 1]] + runs[m].rowCount
    BY <1>1, <2>5
  <2>r. runs[m] \in Runs
    BY <2>5, ElementOfSeq
  <2>f. off \in [0..n -> Nat]
    BY <1>1
  <2>7. off[start[m]] \in Nat /\ off[start[m - 1]] \in Nat /\ runs[m].rowCount \in Nat
    BY <2>6, <2>r, <2>f DEF Runs
  <2> DEFINE a == off[start[m]]
             b == off[start[m - 1]]
             w == runs[m].rowCount
  <2>e. a = b + w /\ a <= x /\ a \in Nat /\ b \in Nat /\ w \in Nat
    BY <2>6, <2>7
  <2> HIDE DEF a, b, w
  <2>g. ~(x - b < w) /\ (x - b) - w = x - a
    BY <2>e
  <2>8. ~(x - off[start[m - 1]] < runs[m].rowCount)
        /\ (x - off[start[m - 1]]) - runs[m].rowCount = x - off[start[m]]
    BY <2>g DEF a, b, w
  <2>9. st[m] = SkipRun(At(m - 1), runs[m])
    BY <2>4, <2>5
  <2>10. SkipRun(At(m - 1), runs[m]) = [At(m - 1) EXCEPT !.chunk = @ + runs[m].chunkCount,
                                                         !.row = @ - runs[m].rowCount]
    BY <2>8 DEF SkipRun
  <2>11. st[m] = At(m)
    BY <2>6, <2>8, <2>9, <2>10
  <2> QED
    BY <2>1, <2>11 DEF S
<1>3. S = {}
  BY <1>2
<1>4. last <= last
  BY <1>0
<1> QED
  BY <1>0, <1>3, <1>4

(* Once the row is found the runs that follow change nothing.              *)
LEMMA SearchEnds ==
  ASSUME NEW runs \in Seq(Runs), NEW st,
         \A k \in 1..Len(runs) : st[k] = SkipRun(st[k - 1], runs[k]),
         NEW first \in 0..Len(runs), st[first].found = TRUE
  PROVE  st[Len(runs)] = st[first]
<1> DEFINE S == {k \in Nat : k \in first..Len(runs) /\ st[k] # st[first]}
<1>0. Len(runs) \in Nat
  OBVIOUS
<1>1. ASSUME S # {} PROVE FALSE
  <2>0. S \in SUBSET Nat
    OBVIOUS
  <2>1. PICK m \in S : \A k \in S : m <= k
    BY <1>1, <2>0, LeastNumber
  <2>2. m # first
    BY <2>1
  <2>3. m \in first..Len(runs) /\ m \in 1..Len(runs) /\ m - 1 \in Nat /\ m - 1 \in first..Len(runs)
        /\ m - 1 \notin S
    BY <1>0, <2>1, <2>2
  <2>4. st[m - 1] = st[first]
    BY <2>3
  <2>5. st[m] = st[m - 1]
    BY <2>3, <2>4 DEF SkipRun
  <2> QED
    BY <2>1, <2>4, <2>5
<1> QED
  BY <1>0, <1>1

(* Row j of chunk c is found there.                                        *)
LEMMA SearchFinds ==
  ASSUME NEW off, NEW start, NEW runs \in Seq(Runs), NEW n \in Nat, NEW total \in Nat,
         Layout(source, off, start, runs, n, total), source \in Seq(Sizes), n <= Len(source),
         NEW c \in 1..n, NEW j \in 1..source[c]
  PROVE  FoldLeft(SkipRun, [found |-> FALSE, chunk |-> 0, row |-> off[c - 1] + j - 1], runs)
           = [found |-> TRUE, chunk |-> c - 1, row |-> j - 1]
<1> DEFINE x == off[c - 1] + j - 1
           L == Len(runs)
<1>1. /\ off \in [0..n -> Nat] /\ off[0] = 0
      /\ start \in [0..L -> 0..n] /\ start[0] = 0 /\ start[L] = n
      /\ \A k \in 1..L :
           /\ start[k] = start[k - 1] + runs[k].chunkCount
           /\ off[start[k]] = off[start[k - 1]] + runs[k].rowCount
           /\ \A d \in start[k - 1] + 1..start[k] :
                /\ source[d] = runs[k].chunkSize
                /\ off[d - 1] = off[start[k - 1]] + (d - 1 - start[k - 1]) * runs[k].chunkSize
      /\ \A d \in 1..n : off[d] = off[d - 1] + source[d]
  BY DEF Layout
<1>l. L \in Nat
  OBVIOUS
<1>r. \A k \in 1..L : runs[k] \in Runs
  BY ElementOfSeq
<1>2. L \in Nat /\ \A k \in 1..L : runs[k].chunkCount \in Nat /\ runs[k].rowCount \in Nat
  BY <1>l, <1>r DEF Runs
<1>3. \A d \in 1..n : source[d] \in Nat \ {0} /\ d - 1 \in 0..n
  <2> SUFFICES ASSUME NEW d \in 1..n PROVE source[d] \in Nat \ {0} /\ d - 1 \in 0..n
    OBVIOUS
  <2>1. d \in 1..Len(source)
    OBVIOUS
  <2>2. source[d] \in Sizes
    BY <2>1, ElementOfSeq
  <2> QED
    <3>1. source[d] \in Nat \ {0}
      BY <2>2, ReaderAssumption
    <3>2. d - 1 \in 0..n
      OBVIOUS
    <3> QED
      BY <3>1, <3>2
<1>4. off[c - 1] \in Nat /\ x \in Nat /\ source[c] \in Nat \ {0} /\ off[c] = off[c - 1] + source[c]
      /\ off[c] \in Nat
  <2>1. source[c] \in Nat \ {0} /\ c - 1 \in 0..n /\ c \in 0..n
    BY <1>3
  <2>2. off[c - 1] \in Nat /\ off[c] \in Nat /\ off[c] = off[c - 1] + source[c]
    BY <1>1, <2>1
  <2>3. j \in Nat \ {0}
    BY <2>1
  <2>4. x \in Nat
    BY <2>2, <2>3
  <2> QED
    BY <2>1, <2>2, <2>4
<1>5. \A a \in 0..n : \A b \in a..n : off[a] <= off[b]
  <2>1. \A d \in 1..n : off[d - 1] <= off[d]
    <3> SUFFICES ASSUME NEW d \in 1..n PROVE off[d - 1] <= off[d]
      OBVIOUS
    <3>1. off[d - 1] \in Nat /\ source[d] \in Nat /\ off[d] = off[d - 1] + source[d]
      BY <1>1, <1>3
    <3> QED
      BY <3>1
  <2> QED
    BY <1>1, <2>1, Monotone
<1>6. \A a \in 0..L : \A b \in a..L : start[a] <= start[b]
  <2>1. start \in [0..L -> Nat]
    BY <1>1
  <2>2. \A k \in 1..L : start[k - 1] <= start[k]
    <3> SUFFICES ASSUME NEW k \in 1..L PROVE start[k - 1] <= start[k]
      OBVIOUS
    <3>1. k - 1 \in 0..L
      BY <1>2
    <3>2. start[k - 1] \in Nat
      BY <2>1, <3>1
    <3>3. runs[k].chunkCount \in Nat /\ start[k] = start[k - 1] + runs[k].chunkCount
      BY <1>1, <1>2
    <3> QED
      BY <3>2, <3>3
  <2> QED
    BY <1>2, <2>1, <2>2, Monotone
<1>7. PICK k \in 1..L : start[k - 1] < c /\ c <= start[k]
  <2>1. start \in [0..L -> Nat] /\ c \in Nat \ {0} /\ c <= start[L] /\ start[0] = 0
    BY <1>1
  <2> QED
    BY <1>2, <2>1, StepOf
<1> DEFINE s == start[k - 1]
           each == runs[k].chunkSize
<1>8. s \in 0..n /\ start[k] \in 0..n /\ k - 1 \in 0..L
  <2>1. k - 1 \in 0..L /\ k \in 0..L
    BY <1>2
  <2> QED
    BY <1>1, <2>1
<1>x. x = off[c - 1] + (j - 1) /\ j \in Nat \ {0} /\ j <= source[c]
  BY <1>4
<1> HIDE DEF x
<1>9. /\ c \in s + 1..start[k] /\ source[c] = each /\ each \in Nat \ {0}
      /\ off[c - 1] = off[s] + (c - 1 - s) * each
      /\ c - 1 - s \in Nat /\ off[s] \in Nat
  <2>1. c \in s + 1..start[k] /\ c - 1 - s \in Nat
    BY <1>7, <1>8
  <2>2. off[s] \in Nat
    BY <1>1, <1>8
  <2> QED
    BY <1>1, <1>4, <2>1, <2>2
<1>10. x - off[s] = (c - 1 - s) * each + (j - 1) /\ j - 1 \in 0..each - 1
  <2>1. (c - 1 - s) * each \in Nat
    BY <1>9
  <2>2. j - 1 \in 0..each - 1
    BY <1>9, <1>x
  <2>3. x = off[s] + (c - 1 - s) * each + (j - 1)
    BY <1>9, <1>x, <2>1, <2>2
  <2> DEFINE p == (c - 1 - s) * each
             b == off[s]
  <2>4. p \in Nat /\ b \in Nat /\ x = b + p + (j - 1)
    BY <1>9, <2>1, <2>3
  <2> HIDE DEF p, b
  <2>5. x - b = p + (j - 1)
    BY <1>x, <2>4
  <2>6. x - off[s] = (c - 1 - s) * each + (j - 1)
    BY <2>5 DEF p, b
  <2> QED
    BY ONLY <2>2, <2>6
<1>11. x - off[s] < runs[k].rowCount
  <2>1. off[c] <= off[start[k]]
    BY <1>5, <1>7, <1>8
  <2>2. off[start[k]] = off[s] + runs[k].rowCount /\ runs[k].rowCount \in Nat
    BY <1>1, <1>2
  <2>3. x < off[c]
    BY <1>4, <1>x
  <2> DEFINE a == off[c]
             b == off[s]
             e == off[start[k]]
             w == runs[k].rowCount
  <2>4. /\ a \in Nat /\ b \in Nat /\ w \in Nat /\ e = b + w /\ a <= e /\ x < a /\ x \in Nat
    BY <1>4, <1>9, <2>1, <2>2, <2>3
  <2> HIDE DEF a, b, e, w
  <2>5. x - b < w
    BY <2>4
  <2> QED
    BY <2>5 DEF b, w
<1>12. \A i \in 0..k - 1 : off[start[i]] <= x
  <2> SUFFICES ASSUME NEW i \in 0..k - 1 PROVE off[start[i]] <= x
    OBVIOUS
  <2>1. i \in 0..L /\ k - 1 \in i..L
    BY <1>2, <1>8
  <2>2. start[i] <= s /\ start[i] \in 0..n
    BY <1>1, <1>6, <2>1
  <2>3. start[i] \in 0..n /\ c - 1 \in start[i]..n
    BY <1>7, <1>8, <2>2
  <2>4. off[start[i]] <= off[c - 1] /\ off[start[i]] \in Nat
    BY <1>1, <1>5, <2>3
  <2>5. off[c - 1] <= x
    BY <1>4, <1>x
  <2> QED
    BY <1>4, <2>4, <2>5
<1>13. PICK st : /\ st[0] = [found |-> FALSE, chunk |-> 0, row |-> x]
                 /\ \A i \in 1..L : st[i] = SkipRun(st[i - 1], runs[i])
                 /\ FoldLeft(SkipRun, [found |-> FALSE, chunk |-> 0, row |-> x], runs) = st[L]
  BY RunByRun
<1>14. st[k - 1] = [found |-> FALSE, chunk |-> s, row |-> x - off[s]]
  <2>1. x \in Nat /\ k - 1 \in 0..Len(runs) /\ \A i \in 1..Len(runs) : st[i] = SkipRun(st[i - 1], runs[i])
    BY <1>4, <1>8, <1>13
  <2>2. Layout(source, off, start, runs, n, total) /\ n \in Nat /\ total \in Nat /\ runs \in Seq(Runs)
    OBVIOUS
  <2> QED
    BY <1>12, <1>13, <2>1, <2>2, SearchSkips
<1>15. st[k] = [found |-> TRUE, chunk |-> s + (x - off[s]) \div each, row |-> (x - off[s]) % each]
  <2>1. st[k] = SkipRun(st[k - 1], runs[k])
    BY <1>13
  <2> QED
    BY <1>11, <1>14, <2>1 DEF SkipRun
<1>16. (x - off[s]) \div each = c - 1 - s /\ (x - off[s]) % each = j - 1
  <2>1. c - 1 - s \in Nat /\ each \in Nat \ {0} /\ j - 1 \in 0..each - 1
    BY <1>9, <1>10
  <2>2. /\ ((c - 1 - s) * each + (j - 1)) \div each = c - 1 - s
        /\ ((c - 1 - s) * each + (j - 1)) % each = j - 1
    BY ONLY <2>1, Parts
  <2> QED
    BY ONLY <1>10, <2>2
<1>17. st[k] = [found |-> TRUE, chunk |-> c - 1, row |-> j - 1]
  <2>1. s + (c - 1 - s) = c - 1
    BY <1>8
  <2> QED
    BY <1>15, <1>16, <2>1
<1>18. st[L] = st[k]
  <2>1. k \in 0..L /\ st[k].found = TRUE
    BY <1>17
  <2> QED
    BY <1>13, <2>1, SearchEnds
<1>19. FoldLeft(SkipRun, [found |-> FALSE, chunk |-> 0, row |-> x], runs)
         = [found |-> TRUE, chunk |-> c - 1, row |-> j - 1]
  BY <1>13, <1>17, <1>18
<1> QED
  BY <1>19 DEF x

-----------------------------------------------------------------------------
LEMMA InitLaidOut == Init => LaidOut
<1> SUFFICES ASSUME Init PROVE LaidOut
  OBVIOUS
<1> DEFINE off == [c \in 0..0 |-> 0]
<1>1. chunkSizeRuns = <<>> /\ chunks = <<>> /\ currentRowCount = 0
  BY DEF Init
<1>2. Len(<<>>) = 0
  OBVIOUS
<1>3. off \in [0..0 -> Nat] /\ off \in [0..0 -> 0..0] /\ off[0] = 0
  OBVIOUS
<1>4. \A c : c \notin 1..0
  OBVIOUS
<1> HIDE DEF off
<1>5. Layout(source, off, off, <<>>, 0, 0)
  BY <1>2, <1>3, <1>4 DEF Layout
<1> QED
  BY <1>1, <1>2, <1>5 DEF LaidOut

LEMMA StepLaidOut == IInv /\ LaidOut /\ [Next]_vars => LaidOut'
<1> SUFFICES ASSUME IInv, LaidOut, [Next]_vars PROVE LaidOut'
  OBVIOUS
<1>t. TypeOK
  BY DEF IInv
<1>s. source' = source
  BY DEF Next, StartRead, ResumeRead, StreamFails, vars, native
<1>0. ASSUME UNCHANGED <<chunks, chunkSizeRuns, currentRowCount>> PROVE LaidOut'
  BY <1>0, <1>s DEF LaidOut
<1>1. ASSUME NEW r \in Reads, ResumeRead(r) PROVE LaidOut'
  <2> DEFINE head == fetches[1].chunk
  <2>1. fetches # <<>> /\ Receive(r, head)
    BY <1>1 DEF ResumeRead, InTurn
  <2>2. 1 \in 1..Len(fetches) /\ Len(chunks) \in Nat /\ Len(source) \in Nat
        /\ fetched \in 0..Len(source)
    BY <1>t, <2>1 DEF TypeOK
  <2>3. head = IF Len(chunks) + 1 <= fetched THEN Len(chunks) + 1 ELSE NoChunk
    BY <2>2 DEF IInv, Continues
  <2> HIDE DEF head
  <2>4. CASE head = NoChunk
    <3>1. UNCHANGED <<chunks, chunkSizeRuns, currentRowCount>>
      BY <2>1, <2>4 DEF Receive
    <3> QED
      BY <1>0, <3>1
  <2>5. CASE head # NoChunk
    <3>1. head = Len(chunks) + 1 /\ head \in 1..Len(source)
      BY <2>2, <2>3, <2>5
    <3>2. source[head] \in Sizes
      <4>1. source \in Seq(Sizes)
        BY <1>t DEF TypeOK
      <4> QED
        BY <3>1, <4>1, ElementOfSeq
    <3>3. /\ chunks' = Append(chunks, head)
          /\ chunkSizeRuns' = WithChunk(chunkSizeRuns, source[head])
          /\ currentRowCount' = currentRowCount + source[head]
      BY <2>1, <2>5 DEF Receive
    <3>4. Len(chunks') = Len(chunks) + 1
      BY <1>t, <3>1, <3>3 DEF TypeOK
    <3>5. PICK off, start : Layout(source, off, start, chunkSizeRuns, Len(chunks), currentRowCount)
      BY DEF LaidOut
    <3>6. chunkSizeRuns \in Seq(Runs) /\ currentRowCount \in Nat
      BY <1>t DEF TypeOK
    <3>7. source[Len(chunks) + 1] \in Sizes
      BY <3>1, <3>2
    <3>8. \E o, s : Layout(source, o, s, WithChunk(chunkSizeRuns, source[Len(chunks) + 1]),
                           Len(chunks) + 1, currentRowCount + source[Len(chunks) + 1])
      BY ONLY <2>2, <3>5, <3>6, <3>7, LayoutGrows
    <3> QED
      BY <1>s, <3>1, <3>3, <3>4, <3>8 DEF LaidOut
  <2> QED
    BY <2>4, <2>5
<1>2. ASSUME NEW r \in Reads, StartRead(r) PROVE LaidOut'
  BY <1>0, <1>2 DEF StartRead, reader
<1>3. CASE StreamFails
  BY <1>0, <1>3 DEF StreamFails, reader
<1>4. CASE UNCHANGED vars
  BY <1>0, <1>4 DEF vars, reader
<1> QED
  BY <1>1, <1>2, <1>3, <1>4 DEF Next

(* A row past the last one falls through every run.                        *)
LEMMA SearchMisses ==
  ASSUME NEW off, NEW start, NEW runs \in Seq(Runs), NEW n \in Nat, NEW total \in Nat,
         Layout(source, off, start, runs, n, total), source \in Seq(Sizes), n <= Len(source)
  PROVE  ~FoldLeft(SkipRun, [found |-> FALSE, chunk |-> 0, row |-> total], runs).found
<1> DEFINE L == Len(runs)
<1>1. /\ L \in Nat /\ off \in [0..n -> Nat] /\ off[n] = total
      /\ start \in [0..L -> 0..n]
      /\ \A d \in 1..n : off[d] = off[d - 1] + source[d]
  BY DEF Layout
<1>2. \A d \in 1..n : off[d - 1] <= off[d]
  <2> SUFFICES ASSUME NEW d \in 1..n PROVE off[d - 1] <= off[d]
    OBVIOUS
  <2>1. d \in 1..Len(source) /\ d - 1 \in 0..n
    OBVIOUS
  <2>2. source[d] \in Nat
    BY <2>1, ElementOfSeq, ReaderAssumption
  <2>3. off[d - 1] \in Nat /\ off[d] = off[d - 1] + source[d]
    BY <1>1, <2>1
  <2> QED
    BY <2>2, <2>3
<1>3. \A k \in 0..L : off[start[k]] <= total
  <2> SUFFICES ASSUME NEW k \in 0..L PROVE off[start[k]] <= total
    OBVIOUS
  <2>1. start[k] \in 0..n /\ n \in start[k]..n
    BY <1>1
  <2>2. off[start[k]] <= off[n]
    BY <1>1, <1>2, <2>1, Monotone
  <2> QED
    BY <1>1, <2>2
<1>4. PICK st : /\ st[0] = [found |-> FALSE, chunk |-> 0, row |-> total]
                /\ \A i \in 1..L : st[i] = SkipRun(st[i - 1], runs[i])
                /\ FoldLeft(SkipRun, [found |-> FALSE, chunk |-> 0, row |-> total], runs) = st[L]
  BY RunByRun
<1>5. L \in 0..L
  BY <1>1
<1>6. st[L] = [found |-> FALSE, chunk |-> start[L], row |-> total - off[start[L]]]
  BY <1>3, <1>4, <1>5, SearchSkips
<1> QED
  BY <1>4, <1>6

LEMMA EveryRowFound == IInv /\ LaidOut => ValueFindsEveryRow
<1> SUFFICES ASSUME IInv, LaidOut PROVE ValueFindsEveryRow
  OBVIOUS
<1> DEFINE n == Len(chunks)
           Place == [chunk : Nat, row : Nat]
           seqs == [i \in DOMAIN chunks |->
                     [j \in 1..source[chunks[i]] |-> [chunk |-> chunks[i], row |-> j - 1]]]
           places == FlattenSeq(seqs)
<1>1. /\ n \in Nat /\ DOMAIN chunks = 1..n /\ \A i \in 1..n : chunks[i] = i
      /\ source \in Seq(Sizes) /\ chunkSizeRuns \in Seq(Runs) /\ currentRowCount \in Nat
      /\ Len(source) \in Nat /\ fetched \in 0..Len(source) /\ fetched \in n..n + Len(fetches)
      /\ Len(fetches) \in Nat
  BY DEF IInv, TypeOK, Continues
<1>2. n <= Len(source)
  BY <1>1
<1>3. PICK off, start : Layout(source, off, start, chunkSizeRuns, n, currentRowCount)
  BY DEF LaidOut
<1>4. /\ off \in [0..n -> Nat] /\ off[0] = 0 /\ off[n] = currentRowCount
      /\ \A c \in 1..n : off[c] = off[c - 1] + source[c]
  BY <1>3 DEF Layout
<1>5. \A i \in 1..n : source[i] \in Nat
  <2> SUFFICES ASSUME NEW i \in 1..n PROVE source[i] \in Nat
    OBVIOUS
  <2>1. i \in 1..Len(source)
    BY <1>1, <1>2
  <2> QED
    BY <1>1, <2>1, ElementOfSeq, ReaderAssumption
<1>6. /\ Len(seqs) = n /\ seqs \in Seq(Seq(Place))
      /\ \A i \in 1..n : /\ Len(seqs[i]) = source[i]
                          /\ \A j \in 1..source[i] : seqs[i][j] = [chunk |-> i, row |-> j - 1]
  <2>1. ASSUME NEW i \in 1..n
        PROVE  /\ seqs[i] \in Seq(Place) /\ Len(seqs[i]) = source[i]
               /\ \A j \in 1..source[i] : seqs[i][j] = [chunk |-> i, row |-> j - 1]
    <3>1. seqs[i] = [j \in 1..source[i] |-> [chunk |-> i, row |-> j - 1]]
      BY <1>1
    <3>0. source[i] \in Nat
      BY <1>5
    <3>2. \A j \in 1..source[i] : [chunk |-> i, row |-> j - 1] \in Place
      BY <1>1, <3>0
    <3> HIDE DEF seqs, Place
    <3>3. seqs[i] \in [1..source[i] -> Place]
      BY <3>1, <3>2
    <3>4. seqs[i] \in Seq(Place) /\ Len(seqs[i]) = source[i]
      BY <3>0, <3>3
    <3> QED
      BY <3>1, <3>4
  <2>2. DOMAIN seqs = 1..n /\ seqs = [i \in 1..n |-> seqs[i]]
    BY <1>1
  <2> HIDE DEF seqs, Place
  <2>3. seqs \in [1..n -> Seq(Place)]
    BY <2>1, <2>2
  <2> QED
    BY <1>1, <2>1, <2>3
<1> HIDE DEF seqs, Place
<1>7. /\ places \in Seq(Place) /\ Len(places) = currentRowCount
      /\ \A c \in 1..n : \A j \in 1..source[c] :
           places[off[c - 1] + j] = [chunk |-> c, row |-> j - 1]
  <2>1. CASE n = 0
    <3>1. seqs = <<>>
      BY <1>6, <2>1
    <3>2. places = <<>>
      BY <3>1 DEF FlattenSeq
    <3>3. currentRowCount = 0
      BY <1>4, <2>1
    <3> HIDE DEF places
    <3> QED
      BY <2>1, <3>2, <3>3
  <2>2. CASE n # 0
    <3>1. off \in [0..Len(seqs) -> Nat] /\ Len(seqs) # 0
          /\ \A c \in 1..Len(seqs) : off[c] = off[c - 1] + Len(seqs[c])
      BY <1>4, <1>6, <2>2
    <3>2. /\ FlattenSeq(seqs) \in Seq(Place) /\ Len(FlattenSeq(seqs)) = off[Len(seqs)]
          /\ \A c \in 1..Len(seqs) : \A j \in 1..Len(seqs[c]) :
               FlattenSeq(seqs)[off[c - 1] + j] = seqs[c][j]
      BY ONLY <1>4, <1>6, <3>1, Flattened
    <3>3. places \in Seq(Place) /\ Len(places) = off[n]
      BY <1>6, <3>2
    <3>4. ASSUME NEW c \in 1..n, NEW j \in 1..source[c]
          PROVE  places[off[c - 1] + j] = [chunk |-> c, row |-> j - 1]
      <4>1. seqs[c][j] = [chunk |-> c, row |-> j - 1]
        BY <1>6
      <4>2. c \in 1..Len(seqs) /\ j \in 1..Len(seqs[c])
        BY <1>6
      <4>3. FlattenSeq(seqs)[off[c - 1] + j] = seqs[c][j]
        BY <3>2, <4>2
      <4> QED
        BY <4>1, <4>3
    <3> HIDE DEF places
    <3> QED
      BY <1>4, <3>3, <3>4
  <2> QED
    BY <2>1, <2>2
<1> HIDE DEF places
<1>8. ASSUME NEW r \in 1..currentRowCount PROVE Value(r - 1) = places[r]
  <2>1. r \in Nat \ {0} /\ r <= off[n]
    BY <1>1, <1>4
  <2>2. PICK c \in 1..n : off[c - 1] < r /\ r <= off[c]
    BY <1>1, <1>4, <2>1, StepOf
  <2>3. /\ c - 1 \in 0..n /\ off[c] = off[c - 1] + source[c] /\ source[c] \in Nat
    BY <1>1, <1>4, <1>5
  <2>4. off[c - 1] \in Nat
    BY <1>4, <2>3
  <2>5. PICK j \in 1..source[c] : r = off[c - 1] + j
    <3>1. r - off[c - 1] \in 1..source[c] /\ r = off[c - 1] + (r - off[c - 1])
      BY <2>2, <2>3, <2>4
    <3> QED
      BY <3>1
  <2>6. FoldLeft(SkipRun, [found |-> FALSE, chunk |-> 0, row |-> off[c - 1] + j - 1], chunkSizeRuns)
          = [found |-> TRUE, chunk |-> c - 1, row |-> j - 1]
    BY ONLY <1>1, <1>2, <1>3, SearchFinds
  <2>7. r - 1 = off[c - 1] + j - 1 /\ (c - 1) + 1 = c /\ currentRowCount > 0
    BY <1>1, <2>3, <2>4, <2>5
  <2>8. FoldLeft(SkipRun, [found |-> FALSE, chunk |-> 0, row |-> r - 1], chunkSizeRuns)
          = [found |-> TRUE, chunk |-> c - 1, row |-> j - 1]
    BY <2>6, <2>7
  <2>9. Value(r - 1) = [chunk |-> chunks[(c - 1) + 1], row |-> j - 1]
    BY <2>7, <2>8 DEF Value
  <2>10. chunks[(c - 1) + 1] = c
    BY <1>1, <2>7
  <2> QED
    BY <1>7, <2>5, <2>9, <2>10
<1>9. Value(currentRowCount) = NotRead
  <2>1. ~FoldLeft(SkipRun, [found |-> FALSE, chunk |-> 0, row |-> currentRowCount], chunkSizeRuns).found
    BY ONLY <1>1, <1>2, <1>3, SearchMisses
  <2> QED
    BY <2>1 DEF Value
<1>10. DOMAIN places = 1..currentRowCount
  BY <1>7
<1> QED
  BY <1>7, <1>8, <1>9, <1>10 DEF ValueFindsEveryRow, places, seqs

(* The search over the runs of equal sizes gives every row that has been   *)
(* read the place that the chunks in order give it, and gives none to the  *)
(* row after the last: value returns what libduckdb delivered, for chunks  *)
(* of any sizes and however the reads overlapped.                          *)
THEOREM ValueCorrect == Spec => []ValueFindsEveryRow
<1>1. Init => IInv /\ LaidOut
  BY InitIInv, InitLaidOut
<1>2. IInv /\ LaidOut /\ [Next]_vars => (IInv /\ LaidOut)'
  BY StepIInv, StepLaidOut
<1>3. IInv /\ LaidOut => ValueFindsEveryRow
  BY EveryRowFound
<1> QED
  BY <1>1, <1>2, <1>3, PTL DEF Spec

-----------------------------------------------------------------------------
Memory == Data \cup {Junk}

ItemArrays == UNION {[1..n -> Memory] : n \in 0 .. MaxRows}

Caches == [Rows -> Memory \cup {Null, None}]

VectorRecords ==
  [offset : 0 .. MaxRows, count : 0 .. MaxRows, items : ItemArrays,
   bits : UNION {Masks(n) : n \in 0 .. MaxRows}, shares : BOOLEAN,
   cache : Caches, dirty : SUBSET Rows]

(* What a mask says of a bit.                                              *)
Valid(bits, b) == bits = None \/ bits[b]

(* One vector.                                                             *)
WellFormed(r) ==
  /\ r.items \in [1 .. r.count -> Memory]
  /\ r.bits \in Masks(r.count)
  /\ \A i \in r.dirty : r.cache[i] # None
  /\ kind # "strings" => \A i \in Rows : r.cache[i] = None

Shape(vs) ==
  /\ DOMAIN vs \in {{"column"}, {"column", "slice"}}
  /\ vs \in [DOMAIN vs -> VectorRecords]
  /\ \A v \in DOMAIN vs : WellFormed(vs[v])
  /\ vs["column"].offset = 0 /\ ~vs["column"].shares
  /\ "slice" \in DOMAIN vs =>
       /\ vs["slice"].offset + vs["slice"].count <= vs["column"].count
       /\ vs["slice"].shares => vs["column"].bits # None /\ vs["slice"].bits = None

(* The rows whose value the column knows.                                  *)
Active(vs, w, th, i) ==
  w[i] # None /\ (i \in th => kind = "view" /\ vs["slice"].shares)

(* The column has what was set.                                            *)
Keeps(vs, w, th, un) ==
  LET c == vs["column"]
  IN \A i \in 1 .. c.count : Active(vs, w, th, i) =>
       /\ Valid(c.bits, i - 1) <=> w[i] # Null
       /\ c.cache[i] \in {None, w[i]}
       /\ c.cache[i] = None /\ w[i] # Null => c.items[i] = w[i]
       /\ kind = "strings" /\ i \in un => i \in c.dirty

(* What has been flushed the native vector has.                            *)
Publishes(vs, w, th, un, ow, data, bits) ==
  LET c == vs["column"]
  IN \A i \in 1 .. c.count :
       /\ Active(vs, w, th, i) /\ i \notin un =>
            /\ <<"data", i>> \notin ow /\ w[i] # Null => data[i] = w[i]
            /\ <<"mask", i>> \notin ow => (Valid(bits, i - 1) <=> w[i] # Null)
       /\ c.bits = None /\ <<"mask", i>> \notin ow => Valid(bits, i - 1)

(* What the column reads from its copies.                                  *)
Raw(c, i) == IF Valid(c.bits, i - 1) THEN c.items[i] ELSE Null

(* Row k of slice s and that row of the column c agree.                    *)
AgreeIn(s, c, k, row) ==
  /\ kind # "view" => s.items[k] = c.items[row]
  /\ ~s.shares => /\ Valid(c.bits, row - 1)
                  /\ s.bits # None /\ row - 1 \in DOMAIN s.bits => s.bits[row - 1]
  /\ s.cache[k] \in {None, Raw(c, row)}
  /\ c.cache[row] \in {None, Raw(c, row)}

(* The copies of a slice agree with the column's in unchanged rows.        *)
Agree(vs, ch) ==
  LET s == vs["slice"]
  IN \A k \in 1 .. s.count :
       s.offset + k \notin ch => AgreeIn(s, vs["column"], k, s.offset + k)

(* The part of the invariant that the vectors carry.                       *)
VectorsInv(vs, w, th, un, ow, ch, data, bits) ==
  /\ Shape(vs)
  /\ Keeps(vs, w, th, un)
  /\ Publishes(vs, w, th, un, ow, data, bits)
  /\ "slice" \in DOMAIN vs => Agree(vs, ch)
  /\ "slice" \notin DOMAIN vs => th = {}

(* Before the column has a vector.                                         *)
Unused ==
  /\ vectors = <<>>
  /\ through = {} /\ unflushed = {} /\ overwritten = {}
  /\ \A i \in Rows : want[i] \in {None, Native(i)}

ChunkTypes ==
  /\ kind \in Kinds /\ created \in BOOLEAN /\ size \in 0 .. MaxRows
  /\ nativeData \in [Rows -> Memory]
  /\ nativeBits \in Masks(MaxRows)
  /\ want \in [Rows -> Data \cup {Null, None}]
  /\ through \subseteq Rows /\ unflushed \subseteq Rows /\ changed \subseteq Rows
  /\ overwritten \subseteq {"data", "mask"} \X {b + 1 : b \in Bits(MaxRows)}
  /\ calls \in 0 .. MaxCalls

ChunkInv ==
  /\ ChunkTypes
  /\ Unused \/ VectorsInv(vectors, want, through, unflushed, overwritten, changed,
                          nativeData, nativeBits)

-----------------------------------------------------------------------------
LEMMA BitsCover ==
  ASSUME NEW n \in Nat, NEW i \in 1..n
  PROVE  i - 1 \in Bits(n)
<1> DEFINE a == n + WordBits - 1
           q == a \div WordBits
<1>1. WordBits \in Nat \ {0}
  BY ChunkAssumption
<1>2. a \in Nat /\ a \div WordBits \in Nat /\ a = WordBits * (a \div WordBits) + (a % WordBits)
      /\ a % WordBits \in 0..WordBits - 1
  BY <1>1
<1>3. q * WordBits = WordBits * q /\ q \in Nat
  BY <1>1, <1>2
<1> DEFINE p == WordBits * q
<1>4. p \in Nat
  BY <1>1, <1>3
<1>5. a = p + (a % WordBits)
  BY <1>2
<1>6. p >= n
  <2> HIDE DEF p
  <2> QED
    BY <1>1, <1>2, <1>4, <1>5
<1>7. i - 1 \in 0 .. p - 1
  <2> HIDE DEF p
  <2> QED
    BY <1>4, <1>6
<1> QED
  BY <1>3, <1>7 DEF Bits

LEMMA BitsGrow ==
  ASSUME NEW n \in Nat, NEW m \in Nat, n <= m
  PROVE  Bits(n) \subseteq Bits(m)
<1> DEFINE q == (n + WordBits - 1) \div WordBits
           r == (m + WordBits - 1) \div WordBits
<1>1. WordBits \in Nat \ {0}
  BY ChunkAssumption
<1>2. q \in Nat /\ r \in Nat /\ q <= r
  BY <1>1
<1>3. q * WordBits <= r * WordBits /\ q * WordBits \in Nat /\ r * WordBits \in Nat
  <2> HIDE DEF q, r
  <2> QED
    BY <1>1, <1>2
<1> QED
  BY <1>3 DEF Bits

-----------------------------------------------------------------------------
(* One vector of several is replaced.                                      *)
LEMMA OneReplaced ==
  ASSUME NEW D, NEW vs \in [D -> VectorRecords], NEW v \in D, NEW r \in VectorRecords
  PROVE  /\ [vs EXCEPT ![v] = r] \in [D -> VectorRecords]
         /\ [vs EXCEPT ![v] = r][v] = r
         /\ \A u \in D : u # v => [vs EXCEPT ![v] = r][u] = vs[u]
  OBVIOUS

(* A field of a vector is replaced.                                        *)
LEMMA NewItems ==
  ASSUME NEW r \in VectorRecords, NEW x \in ItemArrays
  PROVE  /\ [r EXCEPT !.items = x] \in VectorRecords
         /\ [r EXCEPT !.items = x].items = x
         /\ [r EXCEPT !.items = x].offset = r.offset /\ [r EXCEPT !.items = x].count = r.count
         /\ [r EXCEPT !.items = x].bits = r.bits /\ [r EXCEPT !.items = x].shares = r.shares
         /\ [r EXCEPT !.items = x].cache = r.cache /\ [r EXCEPT !.items = x].dirty = r.dirty
  BY DEF VectorRecords

LEMMA NewBits ==
  ASSUME NEW r \in VectorRecords, NEW x \in UNION {Masks(n) : n \in 0 .. MaxRows}
  PROVE  /\ [r EXCEPT !.bits = x] \in VectorRecords
         /\ [r EXCEPT !.bits = x].bits = x
         /\ [r EXCEPT !.bits = x].offset = r.offset /\ [r EXCEPT !.bits = x].count = r.count
         /\ [r EXCEPT !.bits = x].items = r.items /\ [r EXCEPT !.bits = x].shares = r.shares
         /\ [r EXCEPT !.bits = x].cache = r.cache /\ [r EXCEPT !.bits = x].dirty = r.dirty
  BY DEF VectorRecords

LEMMA NewCache ==
  ASSUME NEW r \in VectorRecords, NEW x \in Caches
  PROVE  /\ [r EXCEPT !.cache = x] \in VectorRecords
         /\ [r EXCEPT !.cache = x].cache = x
         /\ [r EXCEPT !.cache = x].offset = r.offset /\ [r EXCEPT !.cache = x].count = r.count
         /\ [r EXCEPT !.cache = x].items = r.items /\ [r EXCEPT !.cache = x].shares = r.shares
         /\ [r EXCEPT !.cache = x].bits = r.bits /\ [r EXCEPT !.cache = x].dirty = r.dirty
  BY DEF VectorRecords

LEMMA NewDirty ==
  ASSUME NEW r \in VectorRecords, NEW x \in SUBSET Rows
  PROVE  /\ [r EXCEPT !.dirty = x] \in VectorRecords
         /\ [r EXCEPT !.dirty = x].dirty = x
         /\ [r EXCEPT !.dirty = x].offset = r.offset /\ [r EXCEPT !.dirty = x].count = r.count
         /\ [r EXCEPT !.dirty = x].items = r.items /\ [r EXCEPT !.dirty = x].shares = r.shares
         /\ [r EXCEPT !.dirty = x].bits = r.bits /\ [r EXCEPT !.dirty = x].cache = r.cache
  BY DEF VectorRecords

(* What is in a vector of the right shape.                                 *)
LEMMA ShapeTypes ==
  ASSUME NEW vs, Shape(vs), NEW v \in DOMAIN vs
  PROVE  /\ vs[v] \in VectorRecords /\ WellFormed(vs[v])
         /\ vs[v].offset \in 0 .. MaxRows /\ vs[v].count \in 0 .. MaxRows
         /\ vs[v].items \in [1 .. vs[v].count -> Memory] /\ vs[v].bits \in Masks(vs[v].count)
         /\ vs[v].shares \in BOOLEAN /\ vs[v].cache \in Caches /\ vs[v].dirty \in SUBSET Rows
<1>1. vs[v] \in VectorRecords /\ WellFormed(vs[v])
  BY DEF Shape
<1>2. /\ vs[v].offset \in 0 .. MaxRows /\ vs[v].count \in 0 .. MaxRows
      /\ vs[v].shares \in BOOLEAN /\ vs[v].cache \in Caches /\ vs[v].dirty \in SUBSET Rows
  BY <1>1 DEF VectorRecords
<1> QED
  BY <1>1, <1>2 DEF WellFormed

(* The fields of r apart from its items, its mask, its cache.              *)
SameButItems(r, old) ==
  /\ r.offset = old.offset /\ r.count = old.count /\ r.shares = old.shares
  /\ r.bits = old.bits /\ r.cache = old.cache /\ r.dirty = old.dirty

SameButBits(r, old) ==
  /\ r.offset = old.offset /\ r.count = old.count /\ r.shares = old.shares
  /\ r.items = old.items /\ r.cache = old.cache /\ r.dirty = old.dirty

SameButCache(r, old) ==
  /\ r.offset = old.offset /\ r.count = old.count /\ r.shares = old.shares
  /\ r.items = old.items /\ r.bits = old.bits /\ r.dirty = old.dirty

SameButDirty(r, old) ==
  /\ r.offset = old.offset /\ r.count = old.count /\ r.shares = old.shares
  /\ r.items = old.items /\ r.bits = old.bits /\ r.cache = old.cache

(* out is vs with another field in vector u.                               *)
OnlyChanges(out, vs, u) ==
  /\ DOMAIN out = DOMAIN vs /\ out \in [DOMAIN vs -> VectorRecords]
  /\ \A w \in DOMAIN vs : w # u => out[w] = vs[w]

ItemChanged(out, vs, u, j, x) ==
  /\ OnlyChanges(out, vs, u) /\ SameButItems(out[u], vs[u])
  /\ out[u].items \in [1 .. vs[u].count -> Memory] /\ out[u].items[j] = x
  /\ \A k \in 1 .. vs[u].count : k # j => out[u].items[k] = vs[u].items[k]

CacheChanged(out, vs, u, j, x) ==
  /\ OnlyChanges(out, vs, u) /\ SameButCache(out[u], vs[u])
  /\ out[u].cache \in Caches /\ out[u].cache[j] = x
  /\ \A k \in Rows : k # j => out[u].cache[k] = vs[u].cache[k]

BitsChanged(out, vs, u, m) ==
  OnlyChanges(out, vs, u) /\ SameButBits(out[u], vs[u]) /\ out[u].bits = m

DirtyChanged(out, vs, u, x) ==
  OnlyChanges(out, vs, u) /\ SameButDirty(out[u], vs[u]) /\ out[u].dirty = x

(* The array of items of a vector with one item set.                       *)
LEMMA ItemPut ==
  ASSUME NEW n \in 0 .. MaxRows, NEW a \in [1..n -> Memory], NEW i \in 1..n, NEW x \in Data
  PROVE  /\ [a EXCEPT ![i] = x] \in [1..n -> Memory]
         /\ [a EXCEPT ![i] = x] \in ItemArrays
         /\ [a EXCEPT ![i] = x][i] = x
         /\ \A j \in 1..n : j # i => [a EXCEPT ![i] = x][j] = a[j]
<1>1. x \in Memory
  BY DEF Memory
<1>2. [a EXCEPT ![i] = x] \in [1..n -> Memory]
  BY <1>1
<1> QED
  BY <1>2 DEF ItemArrays

(* Writing a value into the items of vector u, at j.                       *)
LEMMA StoreIn ==
  ASSUME NEW vs, Shape(vs), NEW u \in DOMAIN vs, NEW j \in 1 .. vs[u].count, NEW x \in Data,
         NEW out, out = [vs EXCEPT ![u].items[j] = x]
  PROVE  ItemChanged(out, vs, u, j, x)
<1> DEFINE r == vs[u]
           a == [r.items EXCEPT ![j] = x]
           q == [r EXCEPT !.items = a]
<1>1. r \in VectorRecords /\ r.count \in 0 .. MaxRows /\ r.items \in [1 .. r.count -> Memory]
  BY ShapeTypes
<1>2. /\ a \in [1 .. r.count -> Memory] /\ a \in ItemArrays /\ a[j] = x
      /\ \A k \in 1 .. r.count : k # j => a[k] = r.items[k]
  BY <1>1, ItemPut
<1>3. out = [vs EXCEPT ![u] = q]
  OBVIOUS
<1> HIDE DEF a
<1>4. q \in VectorRecords /\ q.items = a /\ SameButItems(q, r)
  BY <1>1, <1>2, NewItems DEF SameButItems
<1>5. vs \in [DOMAIN vs -> VectorRecords]
  BY DEF Shape
<1> HIDE DEF q
<1>6. /\ out \in [DOMAIN vs -> VectorRecords] /\ out[u] = q
      /\ \A w \in DOMAIN vs : w # u => out[w] = vs[w]
  BY <1>3, <1>4, <1>5, OneReplaced
<1>7. DOMAIN out = DOMAIN vs
  BY <1>6
<1> QED
  BY <1>2, <1>4, <1>6, <1>7 DEF ItemChanged, OnlyChanges, SameButItems

(* Putting a string into the cache of vector u.                            *)
LEMMA CacheIn ==
  ASSUME NEW vs, Shape(vs), NEW u \in DOMAIN vs, NEW j \in Rows,
         NEW x \in Memory \cup {Null, None},
         NEW out, out = [vs EXCEPT ![u].cache[j] = x]
  PROVE  CacheChanged(out, vs, u, j, x)
<1> DEFINE r == vs[u]
           a == [r.cache EXCEPT ![j] = x]
           q == [r EXCEPT !.cache = a]
<1>1. r \in VectorRecords /\ r.cache \in Caches
  BY ShapeTypes
<1>2. a \in Caches /\ a[j] = x /\ \A k \in Rows : k # j => a[k] = r.cache[k]
  BY <1>1 DEF Caches
<1>3. out = [vs EXCEPT ![u] = q]
  OBVIOUS
<1> HIDE DEF a
<1>4. q \in VectorRecords /\ q.cache = a /\ SameButCache(q, r)
  BY <1>1, <1>2, NewCache DEF SameButCache
<1>5. vs \in [DOMAIN vs -> VectorRecords]
  BY DEF Shape
<1> HIDE DEF q
<1>6. /\ out \in [DOMAIN vs -> VectorRecords] /\ out[u] = q
      /\ \A w \in DOMAIN vs : w # u => out[w] = vs[w]
  BY <1>3, <1>4, <1>5, OneReplaced
<1>7. DOMAIN out = DOMAIN vs
  BY <1>6
<1> QED
  BY <1>2, <1>4, <1>6, <1>7 DEF CacheChanged, OnlyChanges

(* Giving vector u another mask.                                           *)
LEMMA BitsIn ==
  ASSUME NEW vs, Shape(vs), NEW u \in DOMAIN vs, NEW m \in Masks(vs[u].count),
         NEW out, out = [vs EXCEPT ![u].bits = m]
  PROVE  BitsChanged(out, vs, u, m)
<1> DEFINE r == vs[u]
           q == [r EXCEPT !.bits = m]
<1>1. r \in VectorRecords /\ r.count \in 0 .. MaxRows
  BY ShapeTypes
<1>2. m \in UNION {Masks(n) : n \in 0 .. MaxRows}
  BY <1>1
<1>3. out = [vs EXCEPT ![u] = q]
  OBVIOUS
<1>4. q \in VectorRecords /\ q.bits = m /\ SameButBits(q, r)
  BY <1>1, <1>2, NewBits DEF SameButBits
<1>5. vs \in [DOMAIN vs -> VectorRecords]
  BY DEF Shape
<1> HIDE DEF q
<1>6. /\ out \in [DOMAIN vs -> VectorRecords] /\ out[u] = q
      /\ \A w \in DOMAIN vs : w # u => out[w] = vs[w]
  BY <1>3, <1>4, <1>5, OneReplaced
<1>7. DOMAIN out = DOMAIN vs
  BY <1>6
<1> QED
  BY <1>4, <1>6, <1>7 DEF BitsChanged, OnlyChanges

(* Giving vector u of vectors of the right types other dirty rows.         *)
LEMMA DirtyIn ==
  ASSUME NEW D, NEW vs \in [D -> VectorRecords], NEW u \in D, NEW x \in SUBSET Rows,
         NEW out, out = [vs EXCEPT ![u].dirty = x]
  PROVE  DirtyChanged(out, vs, u, x)
<1> DEFINE r == vs[u]
           q == [r EXCEPT !.dirty = x]
<1>1. r \in VectorRecords
  OBVIOUS
<1>3. out = [vs EXCEPT ![u] = q]
  OBVIOUS
<1>4. q \in VectorRecords /\ q.dirty = x /\ SameButDirty(q, r)
  BY <1>1, NewDirty DEF SameButDirty
<1> HIDE DEF q
<1>6. /\ out \in [D -> VectorRecords] /\ out[u] = q
      /\ \A w \in D : w # u => out[w] = vs[w]
  BY <1>3, <1>4, OneReplaced
<1>7. DOMAIN out = D
  BY <1>6
<1> QED
  BY <1>4, <1>6, <1>7 DEF DirtyChanged, OnlyChanges

(* The mask with one bit set, made first if need be.                       *)
MaskSet(bits, n, bit, valid) ==
  LET mask == IF bits = None /\ ~valid THEN NewMask(n) ELSE bits
  IN  IF mask = None \/ ~(mask = None \/ bit \in DOMAIN mask) THEN mask
      ELSE [mask EXCEPT ![bit] = valid]

LEMMA MaskSetBits ==
  ASSUME NEW n \in 0 .. MaxRows, NEW bits \in Masks(n), NEW bit, NEW valid \in BOOLEAN
  PROVE  LET m == MaskSet(bits, n, bit, valid)
         IN /\ m \in Masks(n)
            /\ m = None => bits = None
            /\ bit \in Bits(n) => (Valid(m, bit) <=> valid)
            /\ \A b \in Bits(n) : b # bit => (Valid(m, b) <=> Valid(bits, b))
<1> DEFINE mask == IF bits = None /\ ~valid THEN NewMask(n) ELSE bits
           m == MaskSet(bits, n, bit, valid)
<1>0. None \notin [Bits(n) -> BOOLEAN]
  BY MaskAssumption
<1>1. CASE bits = None /\ valid
  <2>1. m = None
    BY <1>1 DEF MaskSet
  <2> QED
    BY <1>1, <2>1 DEF Masks, Valid
<1>2. CASE ~(bits = None /\ valid)
  <2>1. mask \in [Bits(n) -> BOOLEAN] /\ \A b \in Bits(n) : mask[b] <=> Valid(bits, b)
    <3>1. CASE bits = None
      BY <1>2, <3>1 DEF NewMask, Valid
    <3>2. CASE bits # None
      BY <3>2 DEF Masks, Valid
    <3> QED
      BY <3>1, <3>2
  <2>2. mask # None /\ DOMAIN mask = Bits(n)
    BY <1>0, <2>1
  <2>3. m = IF bit \notin Bits(n) THEN mask ELSE [mask EXCEPT ![bit] = valid]
    BY <2>2 DEF MaskSet
  <2> HIDE DEF mask
  <2>4. m \in [Bits(n) -> BOOLEAN] /\ \A b \in Bits(n) : m[b] = IF b = bit THEN valid ELSE mask[b]
    BY <2>1, <2>3
  <2>5. m # None
    BY <1>0, <2>4
  <2> HIDE DEF m
  <2> QED
    BY <2>1, <2>4, <2>5, <1>0 DEF Masks, Valid, m
<1> QED
  BY <1>1, <1>2

(* setItemValid changes one bit of the mask the vector works on, and can   *)
(* throw only when the mask has no such bit.                               *)
LEMMA ValiditySet ==
  ASSUME NEW vs, Shape(vs), NEW v \in DOMAIN vs, NEW i, NEW valid \in BOOLEAN,
         NEW u, u = MaskOwner(vs, v), NEW bit, bit = BitOf(vs[v], i),
         NEW s, s = SetItemValid(vs, v, i, valid)
  PROVE  /\ u \in DOMAIN vs
         /\ OnlyChanges(s.vs, vs, u) /\ SameButBits(s.vs[u], vs[u])
         /\ s.vs[u].bits \in Masks(vs[u].count)
         /\ s.vs[u].bits = None => vs[u].bits = None
         /\ bit \in Bits(vs[u].count) => s.ok /\ (Valid(s.vs[u].bits, bit) <=> valid)
         /\ \A b \in Bits(vs[u].count) :
              b # bit => (Valid(s.vs[u].bits, b) <=> Valid(vs[u].bits, b))
         /\ s.ok \in BOOLEAN
<1>1. u \in DOMAIN vs
  BY DEF MaskOwner, Shape
<1>2. vs[u].count \in 0 .. MaxRows /\ vs[u].bits \in Masks(vs[u].count)
  BY <1>1, ShapeTypes
<1> DEFINE n == vs[u].count
           m == MaskSet(vs[u].bits, n, bit, valid)
<1>3. s.vs = [vs EXCEPT ![u].bits = m]
  BY DEF SetItemValid, MaskSet
<1>4. /\ m \in Masks(n)
      /\ m = None => vs[u].bits = None
      /\ bit \in Bits(n) => (Valid(m, bit) <=> valid)
      /\ \A b \in Bits(n) : b # bit => (Valid(m, b) <=> Valid(vs[u].bits, b))
  BY <1>2, MaskSetBits
<1>5. bit \in Bits(n) => s.ok
  <2>1. vs[u].bits = None \/ DOMAIN vs[u].bits = Bits(n)
    BY <1>2 DEF Masks
  <2>2. DOMAIN NewMask(n) = Bits(n)
    BY DEF NewMask
  <2> QED
    BY <2>1, <2>2 DEF SetItemValid
<1>6. s.ok \in BOOLEAN
  BY DEF SetItemValid
<1> HIDE DEF m
<1>7. BitsChanged(s.vs, vs, u, m)
  BY <1>1, <1>3, <1>4, BitsIn
<1> QED
  BY <1>1, <1>4, <1>5, <1>6, <1>7 DEF BitsChanged

-----------------------------------------------------------------------------
(* Changing a vector leaves the shape as it is.                            *)
LEMMA ShapeKept ==
  ASSUME NEW vs, Shape(vs), NEW u \in DOMAIN vs, NEW out, OnlyChanges(out, vs, u),
         out[u].offset = vs[u].offset, out[u].count = vs[u].count,
         out[u].shares = vs[u].shares, WellFormed(out[u]),
         out[u].bits = None => vs[u].bits = None,
         vs[u].shares => out[u].bits = None
  PROVE  Shape(out)
<1>1. /\ DOMAIN vs \in {{"column"}, {"column", "slice"}}
      /\ DOMAIN out = DOMAIN vs /\ out \in [DOMAIN out -> VectorRecords]
      /\ \A w \in DOMAIN vs : w # u => out[w] = vs[w]
  BY DEF Shape, OnlyChanges
<1>2. \A w \in DOMAIN out : /\ WellFormed(out[w])
                            /\ out[w].offset = vs[w].offset /\ out[w].count = vs[w].count
                            /\ out[w].shares = vs[w].shares
                            /\ out[w].bits = None => vs[w].bits = None
                            /\ w = u \/ out[w].bits = vs[w].bits
  BY <1>1 DEF Shape
<1>3. "column" \in DOMAIN vs /\ vs["column"].offset = 0 /\ ~vs["column"].shares
  BY DEF Shape
<1>4. out["column"].offset = 0 /\ ~out["column"].shares
  BY <1>1, <1>2, <1>3
<1>5. ASSUME "slice" \in DOMAIN out
      PROVE  /\ out["slice"].offset + out["slice"].count <= out["column"].count
             /\ out["slice"].shares => out["column"].bits # None /\ out["slice"].bits = None
  <2>1. /\ vs["slice"].offset + vs["slice"].count <= vs["column"].count
        /\ vs["slice"].shares => vs["column"].bits # None /\ vs["slice"].bits = None
    BY <1>1, <1>5 DEF Shape
  <2> QED
    BY <1>1, <1>2, <1>3, <1>5, <2>1
<1> QED
  BY <1>1, <1>2, <1>4, <1>5 DEF Shape

(* What setItem does to the data: a string goes to the cache of its vector,*)
(* a value of a DataView to the column, a typed array keeps its own.       *)
LEMMA ItemStored ==
  ASSUME NEW vs, Shape(vs), NEW v \in DOMAIN vs, NEW i \in Rows, NEW x \in Data \cup {Null},
         kind = "view" /\ x # Null => i <= vs[v].count,
         NEW out, out = StoreItem(vs, v, i, x), kind \in Kinds
  PROVE  /\ Shape(out)
         /\ \/ kind = "strings" /\ CacheChanged(out, vs, v, i, x)
            \/ /\ kind = "view" /\ x # Null
               /\ vs[v].offset + i \in 1 .. vs["column"].count
               /\ ItemChanged(out, vs, "column", vs[v].offset + i, x)
            \/ /\ kind = "items" /\ x # Null /\ i \in 1 .. vs[v].count
               /\ ItemChanged(out, vs, v, i, x)
            \/ kind # "strings" /\ (x = Null \/ i \notin 1 .. vs[v].count) /\ out = vs
<1>1. /\ vs[v] \in VectorRecords /\ WellFormed(vs[v])
      /\ vs[v].offset \in 0 .. MaxRows /\ vs[v].count \in 0 .. MaxRows
      /\ vs[v].bits \in Masks(vs[v].count)
  BY ShapeTypes
<1>2. "column" \in DOMAIN vs /\ v \in {"column", "slice"} /\ vs["column"].count \in 0 .. MaxRows
      /\ ~vs["column"].shares /\ WellFormed(vs["column"])
  <2>1. "column" \in DOMAIN vs /\ v \in {"column", "slice"} /\ ~vs["column"].shares
    BY DEF Shape
  <2> QED
    BY <2>1, ShapeTypes
<1>m. MaxRows \in Nat
  BY ChunkAssumption
<1>3. CASE kind = "strings"
  <2>1. out = [vs EXCEPT ![v].cache[i] = x]
    BY <1>3 DEF StoreItem
  <2>2. x \in Memory \cup {Null, None} /\ x # None
    BY ChunkAssumption DEF Memory
  <2>3. CacheChanged(out, vs, v, i, x)
    BY <2>1, <2>2, CacheIn
  <2>4. WellFormed(out[v])
    BY <1>1, <1>3, <2>2, <2>3 DEF WellFormed, CacheChanged, SameButCache, VectorRecords
  <2>5. Shape(out)
    <3>1. vs[v].shares => vs[v].bits = None
      BY <1>2 DEF Shape
    <3>2. /\ OnlyChanges(out, vs, v) /\ out[v].offset = vs[v].offset /\ out[v].count = vs[v].count
          /\ out[v].shares = vs[v].shares /\ out[v].bits = vs[v].bits
      BY <2>3 DEF CacheChanged, SameButCache
    <3> QED
      BY <2>4, <3>1, <3>2, ShapeKept
  <2> QED
    BY <1>3, <2>3, <2>5
<1>4. CASE kind = "view" /\ x # Null
  <2>1. vs[v].offset + i \in 1 .. vs["column"].count
    <3>1. CASE v = "column"
      BY <1>1, <1>2, <1>4, <1>m, <3>1 DEF Shape, Rows
    <3>2. CASE v = "slice"
      <4>1. vs["slice"].offset + vs["slice"].count <= vs["column"].count
        BY <3>2 DEF Shape
      <4> QED
        BY <1>1, <1>2, <1>4, <1>m, <3>2, <4>1 DEF Rows
    <3> QED
      BY <1>2, <3>1, <3>2
  <2>2. PICK j \in 1 .. vs["column"].count : j = vs[v].offset + i
    BY <2>1
  <2>3. out = [vs EXCEPT !["column"].items[j] = x]
    BY <1>4, <2>2 DEF StoreItem
  <2>4. x \in Data
    BY <1>4
  <2>5. ItemChanged(out, vs, "column", j, x)
    BY <1>2, <2>3, <2>4, StoreIn
  <2>6. WellFormed(out["column"])
    BY <1>2, <1>4, <2>5 DEF WellFormed, ItemChanged, SameButItems
  <2>7. Shape(out)
    <3>2. /\ OnlyChanges(out, vs, "column") /\ out["column"].offset = vs["column"].offset
          /\ out["column"].count = vs["column"].count
          /\ out["column"].shares = vs["column"].shares /\ out["column"].bits = vs["column"].bits
      BY <2>5 DEF ItemChanged, SameButItems
    <3> QED
      BY <1>2, <2>6, <3>2, ShapeKept
  <2> QED
    BY <1>4, <2>1, <2>2, <2>5, <2>7
<1>5. CASE kind = "items" /\ x # Null /\ i <= vs[v].count
  <2>1. i \in 1 .. vs[v].count
    BY <1>1, <1>5, <1>m DEF Rows
  <2>3. out = [vs EXCEPT ![v].items[i] = x]
    BY <1>5 DEF StoreItem
  <2>4. x \in Data
    BY <1>5
  <2>5. ItemChanged(out, vs, v, i, x)
    BY <2>1, <2>3, <2>4, StoreIn
  <2>6. WellFormed(out[v])
    BY <1>1, <1>5, <2>5 DEF WellFormed, ItemChanged, SameButItems
  <2>7. Shape(out)
    <3>1. vs[v].shares => vs[v].bits = None
      BY <1>2 DEF Shape
    <3>2. /\ OnlyChanges(out, vs, v) /\ out[v].offset = vs[v].offset
          /\ out[v].count = vs[v].count
          /\ out[v].shares = vs[v].shares /\ out[v].bits = vs[v].bits
      BY <2>5 DEF ItemChanged, SameButItems
    <3> QED
      BY <2>6, <3>1, <3>2, ShapeKept
  <2> QED
    BY <1>5, <2>1, <2>5, <2>7
<1>6. CASE ~(kind = "strings") /\ ~(kind = "view" /\ x # Null)
           /\ ~(kind = "items" /\ x # Null /\ i <= vs[v].count)
  <2>1. out = vs
    BY <1>6 DEF StoreItem
  <2>2. x = Null \/ i \notin 1 .. vs[v].count
    BY <1>1, <1>6, <1>m DEF Kinds, Rows
  <2> QED
    BY <1>6, <2>1, <2>2
<1> QED
  BY <1>3, <1>4, <1>5, <1>6

(* A vector that has been given its validity and, if it is one of strings, *)
(* remembers the row as dirty.                                             *)
LEMMA ValidityShape ==
  ASSUME NEW vs, Shape(vs), NEW v \in DOMAIN vs, NEW i \in Rows, NEW valid \in BOOLEAN,
         NEW s, s = SetItemValid(vs, v, i, valid)
  PROVE  Shape(s.vs)
<1>1. PICK u : u = MaskOwner(vs, v)
  OBVIOUS
<1>2. PICK out : out = s.vs
  OBVIOUS
<1>3. /\ u \in DOMAIN vs
      /\ OnlyChanges(s.vs, vs, u) /\ SameButBits(s.vs[u], vs[u])
      /\ s.vs[u].bits \in Masks(vs[u].count)
      /\ s.vs[u].bits = None => vs[u].bits = None
  BY <1>1, ValiditySet
<1>4. /\ OnlyChanges(out, vs, u) /\ SameButBits(out[u], vs[u])
      /\ out[u].bits \in Masks(vs[u].count)
      /\ out[u].bits = None => vs[u].bits = None
  BY <1>2, <1>3
<1>5. ~vs[u].shares
  BY <1>1 DEF MaskOwner, Shape
<1>6. WellFormed(vs[u])
  BY <1>3 DEF Shape
<1>7. WellFormed(out[u])
  BY <1>4, <1>6 DEF WellFormed, SameButBits
<1>8. Shape(out)
  <2>1. /\ out[u].offset = vs[u].offset /\ out[u].count = vs[u].count
        /\ out[u].shares = vs[u].shares
    BY <1>4 DEF SameButBits
  <2> QED
    BY <1>3, <1>4, <1>5, <1>7, <2>1, ShapeKept
<1> QED
  BY <1>2, <1>8

LEMMA DirtyShape ==
  ASSUME NEW vs, Shape(vs), NEW v \in DOMAIN vs, NEW x \in SUBSET Rows,
         \A i \in x : vs[v].cache[i] # None,
         NEW out, out = [vs EXCEPT ![v].dirty = x]
  PROVE  DirtyChanged(out, vs, v, x) /\ Shape(out)
<1>1. vs \in [DOMAIN vs -> VectorRecords]
  BY DEF Shape
<1>2. DirtyChanged(out, vs, v, x)
  BY <1>1, DirtyIn
<1>3. WellFormed(vs[v]) /\ (vs[v].shares => vs[v].bits = None)
  BY DEF Shape
<1>4. WellFormed(out[v])
  BY <1>2, <1>3 DEF WellFormed, DirtyChanged, SameButDirty
<1>5. /\ OnlyChanges(out, vs, v) /\ out[v].offset = vs[v].offset /\ out[v].count = vs[v].count
      /\ out[v].shares = vs[v].shares /\ out[v].bits = vs[v].bits
  BY <1>2 DEF DirtyChanged, SameButDirty
<1> QED
  BY <1>2, <1>3, <1>4, <1>5, ShapeKept

(* setItem, taken apart: the data, the validity, the dirty rows.           *)
InSteps(s, vs, v, i, x) ==
  \E stored, w :
    /\ stored = StoreItem(vs, v, i, x) /\ w = SetItemValid(stored, v, i, x # Null)
    /\ s.ok = w.ok /\ Shape(stored) /\ Shape(w.vs) /\ Shape(s.vs)
    /\ DOMAIN stored = DOMAIN vs /\ DOMAIN w.vs = DOMAIN vs
    /\ IF kind = "strings" /\ w.ok
       THEN DirtyChanged(s.vs, w.vs, v, w.vs[v].dirty \cup {i})
       ELSE s.vs = w.vs

LEMMA SetInSteps ==
  ASSUME NEW vs, Shape(vs), NEW v \in DOMAIN vs, NEW i \in Rows, NEW x \in Data \cup {Null},
         kind = "view" /\ x # Null => i <= vs[v].count, kind \in Kinds,
         NEW s, s = AfterSet(vs, v, i, x)
  PROVE  InSteps(s, vs, v, i, x)
<1>1. PICK stored : stored = StoreItem(vs, v, i, x)
  OBVIOUS
<1>2. PICK w : w = SetItemValid(stored, v, i, x # Null)
  OBVIOUS
<1>3. PICK after : after = w.vs
  OBVIOUS
<1>4. /\ Shape(stored)
      /\ kind = "strings" => CacheChanged(stored, vs, v, i, x)
      /\ DOMAIN stored = DOMAIN vs
  <2>1. /\ Shape(stored)
        /\ \/ kind = "strings" /\ CacheChanged(stored, vs, v, i, x)
           \/ /\ kind = "view" /\ x # Null
              /\ vs[v].offset + i \in 1 .. vs["column"].count
              /\ ItemChanged(stored, vs, "column", vs[v].offset + i, x)
           \/ /\ kind = "items" /\ x # Null /\ i \in 1 .. vs[v].count
              /\ ItemChanged(stored, vs, v, i, x)
           \/ kind # "strings" /\ (x = Null \/ i \notin 1 .. vs[v].count) /\ stored = vs
    BY <1>1, ItemStored
  <2> QED
    BY <2>1 DEF CacheChanged, ItemChanged, OnlyChanges
<1>5. Shape(after)
  BY <1>2, <1>3, <1>4, ValidityShape
<1>6. OnlyChanges(w.vs, stored, MaskOwner(stored, v))
      /\ SameButBits(w.vs[MaskOwner(stored, v)], stored[MaskOwner(stored, v)])
      /\ w.ok \in BOOLEAN
  BY <1>2, <1>4, ValiditySet
<1>7. DOMAIN after = DOMAIN vs /\ after[v].cache = stored[v].cache
  BY <1>3, <1>4, <1>6 DEF OnlyChanges, SameButBits
<1>8. s = IF kind = "strings" /\ w.ok THEN [w EXCEPT !.vs[v].dirty = @ \cup {i}] ELSE w
  <2>1. i \in Nat /\ vs[v].count \in Nat
    BY ShapeTypes DEF Rows
  <2>2. ~(kind = "view" /\ x # Null /\ i > vs[v].count)
    BY <2>1
  <2> QED
    BY <1>1, <1>2, <2>2 DEF AfterSet
<1>9. w = [ok |-> w.ok, vs |-> w.vs]
  BY <1>2 DEF SetItemValid
<1>10. CASE kind = "strings" /\ w.ok
  <2>1. PICK d : d = after[v].dirty \cup {i}
    OBVIOUS
  <2>2. PICK out : out = [after EXCEPT ![v].dirty = d]
    OBVIOUS
  <2>3. s = [w EXCEPT !.vs = out]
    BY <1>3, <1>8, <1>10, <2>1, <2>2
  <2>4. s.ok = w.ok /\ s.vs = out
    BY <1>9, <2>3
  <2>5. /\ d \in SUBSET Rows
        /\ \A j \in d : after[v].cache[j] # None
    <3>1. after[v].dirty \in SUBSET Rows /\ \A j \in after[v].dirty : after[v].cache[j] # None
      BY <1>5, <1>7, ShapeTypes DEF WellFormed
    <3>2. after[v].cache[i] = x /\ x # None
      BY <1>4, <1>7, <1>10, ChunkAssumption DEF CacheChanged
    <3> QED
      BY <2>1, <3>1, <3>2
  <2>6. DirtyChanged(out, after, v, d) /\ Shape(out)
    BY <1>5, <1>7, <2>2, <2>5, DirtyShape
  <2> QED
    BY <1>1, <1>2, <1>3, <1>4, <1>5, <1>7, <1>10, <2>1, <2>4, <2>6 DEF InSteps
<1>11. CASE ~(kind = "strings" /\ w.ok)
  <2>1. s = w
    BY <1>8, <1>11
  <2> QED
    BY <1>1, <1>2, <1>3, <1>4, <1>5, <1>7, <1>11, <2>1 DEF InSteps
<1> QED
  BY <1>10, <1>11

(* What setItem of row i of the column leaves behind.                      *)
ColumnSet(out, ok, vs, i, x) ==
  LET c == vs["column"]
      d == out["column"]
  IN /\ OnlyChanges(out, vs, "column") /\ d.count = c.count
     /\ kind = "strings" => d.items = c.items
     /\ kind # "strings" => d.cache = c.cache
     /\ \A j \in 1 .. c.count : j # i =>
          d.items[j] = c.items[j] /\ (Valid(d.bits, j - 1) <=> Valid(c.bits, j - 1))
     /\ \A j \in Rows : j # i => d.cache[j] = c.cache[j]
     /\ d.bits = None => c.bits = None
     /\ c.dirty \subseteq d.dirty
     /\ i \in 1 .. c.count =>
          /\ ok /\ (Valid(d.bits, i - 1) <=> x # Null)
          /\ kind = "strings" => d.cache[i] = x /\ i \in d.dirty
          /\ kind # "strings" /\ x # Null => d.items[i] = x

LEMMA ColumnIsSet ==
  ASSUME NEW vs, Shape(vs), NEW i \in Rows, NEW x \in Data \cup {Null}, kind \in Kinds,
         NEW s, s = AfterSet(vs, "column", i, x)
  PROVE  Shape(s.vs) /\ ColumnSet(s.vs, s.ok, vs, i, x)
<1> DEFINE c == vs["column"]
<1>1. /\ "column" \in DOMAIN vs /\ c.offset = 0 /\ ~c.shares /\ c.count \in 0 .. MaxRows
      /\ c.count \in Nat /\ i \in Nat /\ c.cache \in Caches
  <2>1. "column" \in DOMAIN vs /\ c.offset = 0 /\ ~c.shares
    BY DEF Shape
  <2> QED
    BY <2>1, ShapeTypes, ChunkAssumption DEF Rows
<1>2. CASE kind = "view" /\ x # Null /\ i > c.count
  <2>1. s = [ok |-> FALSE, vs |-> vs]
    BY <1>2 DEF AfterSet
  <2>2. s.vs = vs /\ i \notin 1 .. c.count
    BY <1>1, <1>2, <2>1
  <2>3. OnlyChanges(vs, vs, "column")
    BY DEF OnlyChanges, Shape
  <2> QED
    BY <2>2, <2>3 DEF ColumnSet
<1>3. CASE ~(kind = "view" /\ x # Null /\ i > c.count)
  <2>1. PICK stored, w :
           /\ stored = StoreItem(vs, "column", i, x)
           /\ w = SetItemValid(stored, "column", i, x # Null)
           /\ s.ok = w.ok /\ Shape(stored) /\ Shape(w.vs) /\ Shape(s.vs)
           /\ DOMAIN stored = DOMAIN vs /\ DOMAIN w.vs = DOMAIN vs
           /\ IF kind = "strings" /\ w.ok
              THEN DirtyChanged(s.vs, w.vs, "column", w.vs["column"].dirty \cup {i})
              ELSE s.vs = w.vs
    <3>1. kind = "view" /\ x # Null => i <= c.count
      BY <1>1, <1>3
    <3>2. InSteps(s, vs, "column", i, x)
      BY <1>1, <3>1, SetInSteps
    <3> QED
      BY ONLY <3>2 DEF InSteps
  <2>2. \/ kind = "strings" /\ CacheChanged(stored, vs, "column", i, x)
        \/ /\ kind = "view" /\ x # Null
           /\ c.offset + i \in 1 .. c.count
           /\ ItemChanged(stored, vs, "column", c.offset + i, x)
        \/ /\ kind = "items" /\ x # Null /\ i \in 1 .. c.count
           /\ ItemChanged(stored, vs, "column", i, x)
        \/ kind # "strings" /\ (x = Null \/ i \notin 1 .. c.count) /\ stored = vs
    <3>1. kind = "view" /\ x # Null => i <= c.count
      BY <1>1, <1>3
    <3> QED
      BY <1>1, <2>1, <3>1, ItemStored
  <2>3. PICK e : e = stored["column"]
    OBVIOUS
  <2>4. PICK f : f = w.vs["column"]
    OBVIOUS
  <2>5. PICK d : d = s.vs["column"]
    OBVIOUS
  <2>6. c.offset + i = i
    BY <1>1
  <2>7. /\ OnlyChanges(stored, vs, "column")
        /\ e.offset = c.offset /\ e.count = c.count /\ e.shares = c.shares /\ e.bits = c.bits
        /\ e.dirty = c.dirty
        /\ kind = "strings" => e.items = c.items /\ e.cache[i] = x
        /\ kind # "strings" => e.cache = c.cache
        /\ \A j \in 1 .. c.count : j # i => e.items[j] = c.items[j]
        /\ \A j \in Rows : j # i => e.cache[j] = c.cache[j]
        /\ kind # "strings" /\ x # Null /\ i \in 1 .. c.count => e.items[i] = x
    <3>1. CASE kind = "strings" /\ CacheChanged(stored, vs, "column", i, x)
      BY <2>3, <3>1 DEF CacheChanged, SameButCache
    <3>2. CASE kind # "strings" /\ x # Null /\ ItemChanged(stored, vs, "column", i, x)
      BY <2>3, <3>2 DEF ItemChanged, SameButItems
    <3>3. CASE kind # "strings" /\ (x = Null \/ i \notin 1 .. c.count) /\ stored = vs
      <4>1. OnlyChanges(vs, vs, "column")
        BY DEF OnlyChanges, Shape
      <4> QED
        BY <2>3, <3>3, <4>1
    <3>4. kind = "view" => kind # "strings"
      OBVIOUS
    <3>5. kind = "items" => kind # "strings"
      OBVIOUS
    <3> QED
      BY <2>2, <2>6, <3>1, <3>2, <3>3, <3>4, <3>5
  <2>8. /\ OnlyChanges(w.vs, stored, "column") /\ SameButBits(f, e)
        /\ f.bits = None => e.bits = None
        /\ i - 1 \in Bits(e.count) => w.ok /\ (Valid(f.bits, i - 1) <=> x # Null)
        /\ \A b \in Bits(e.count) : b # i - 1 => (Valid(f.bits, b) <=> Valid(e.bits, b))
    <3>1. MaskOwner(stored, "column") = "column" /\ BitOf(stored["column"], i) = i - 1
      BY <1>1, <2>3, <2>7 DEF MaskOwner, BitOf
    <3>2. "column" \in DOMAIN stored
      BY <1>1, <2>1
    <3>3. PICK valid \in BOOLEAN : valid = (x # Null)
      OBVIOUS
    <3>4. w = SetItemValid(stored, "column", i, valid)
      BY <2>1, <3>3
    <3>5. /\ OnlyChanges(w.vs, stored, "column") /\ SameButBits(w.vs["column"], stored["column"])
          /\ w.vs["column"].bits = None => stored["column"].bits = None
          /\ i - 1 \in Bits(stored["column"].count) => w.ok /\ (Valid(w.vs["column"].bits, i - 1) <=> valid)
          /\ \A b \in Bits(stored["column"].count) : b # i - 1 =>
               (Valid(w.vs["column"].bits, b) <=> Valid(stored["column"].bits, b))
      BY <2>1, <3>1, <3>2, <3>4, ValiditySet
    <3> QED
      BY <2>3, <2>4, <3>3, <3>5
  <2>9. /\ d.count = f.count /\ d.items = f.items /\ d.bits = f.bits /\ d.cache = f.cache
        /\ f.dirty \subseteq d.dirty
        /\ kind = "strings" /\ w.ok => i \in d.dirty
        /\ OnlyChanges(s.vs, w.vs, "column")
    <3>1. CASE kind = "strings" /\ w.ok
      BY <2>1, <2>4, <2>5, <3>1 DEF DirtyChanged, SameButDirty
    <3>2. CASE ~(kind = "strings" /\ w.ok)
      <4>1. OnlyChanges(w.vs, w.vs, "column")
        BY <2>1 DEF OnlyChanges, Shape
      <4> QED
        BY <2>1, <2>4, <2>5, <3>2, <4>1
    <3> QED
      BY <3>1, <3>2
  <2>10. OnlyChanges(s.vs, vs, "column")
    BY <2>7, <2>8, <2>9 DEF OnlyChanges
  <2>11. \A j \in 1 .. c.count : j - 1 \in Bits(c.count) /\ (j # i => j - 1 # i - 1)
    BY <1>1, BitsCover
  <2>12. \A j \in 1 .. c.count : j # i =>
           d.items[j] = c.items[j] /\ (Valid(d.bits, j - 1) <=> Valid(c.bits, j - 1))
    BY <2>7, <2>8, <2>9, <2>11 DEF SameButBits
  <2>13. i \in 1 .. c.count =>
          /\ s.ok /\ (Valid(d.bits, i - 1) <=> x # Null)
          /\ kind = "strings" => d.cache[i] = x /\ i \in d.dirty
          /\ kind # "strings" /\ x # Null => d.items[i] = x
    BY <2>1, <2>7, <2>8, <2>9, <2>11 DEF SameButBits
  <2>14. /\ d.count = c.count
         /\ kind = "strings" => d.items = c.items
         /\ kind # "strings" => d.cache = c.cache
         /\ \A j \in Rows : j # i => d.cache[j] = c.cache[j]
         /\ d.bits = None => c.bits = None
         /\ c.dirty \subseteq d.dirty
    BY <2>7, <2>8, <2>9 DEF SameButBits
  <2>15. ColumnSet(s.vs, s.ok, vs, i, x)
    BY <2>5, <2>10, <2>12, <2>13, <2>14 DEF ColumnSet
  <2> QED
    BY <2>1, <2>15
<1> QED
  BY <1>2, <1>3

-----------------------------------------------------------------------------
(* A row of a slice is a row of the column.                                *)
LEMMA SliceRow ==
  ASSUME NEW vs, Shape(vs), "slice" \in DOMAIN vs, NEW k \in 1 .. vs["slice"].count
  PROVE  /\ vs["slice"].offset + k \in 1 .. vs["column"].count
         /\ vs["slice"].offset + k \in Rows /\ k \in Rows
         /\ vs["slice"].offset + k - 1 \in Bits(vs["column"].count)
         /\ vs["slice"].offset \in Nat /\ vs["slice"].count \in Nat
         /\ vs["column"].count \in 0 .. MaxRows
<1>1. "column" \in DOMAIN vs /\ MaxRows \in Nat
  BY ChunkAssumption DEF Shape
<1>2. /\ vs["slice"].offset \in 0 .. MaxRows /\ vs["slice"].count \in 0 .. MaxRows
      /\ vs["column"].count \in 0 .. MaxRows
  BY <1>1, ShapeTypes
<1>3. vs["slice"].offset + vs["slice"].count <= vs["column"].count
  BY DEF Shape
<1> DEFINE row == vs["slice"].offset + k
<1>4. row \in 1 .. vs["column"].count /\ row \in Rows /\ k \in Rows
  BY <1>1, <1>2, <1>3 DEF Rows
<1> HIDE DEF row
<1>5. row - 1 \in Bits(vs["column"].count)
  BY <1>1, <1>2, <1>4, BitsCover
<1> QED
  BY <1>1, <1>2, <1>4, <1>5 DEF row

(* What the program wants once it has set the rows in inside to x.         *)
Overwrite(w, inside, x) == [j \in Rows |-> IF j \in inside THEN x ELSE w[j]]

(* Setting a row of the column, inside the vector or past its end, keeps   *)
(* the invariant.                                                          *)
LEMMA ColumnSetKeeps ==
  ASSUME NEW vs, NEW w, NEW th, NEW un, NEW ow, NEW ch, NEW data, NEW bits,
         VectorsInv(vs, w, th, un, ow, ch, data, bits),
         NEW out, NEW ok, NEW i \in Rows, NEW x \in Data \cup {Null},
         Shape(out), ColumnSet(out, ok, vs, i, x),
         NEW inside, inside = {i} \cap 1 .. vs["column"].count
  PROVE  VectorsInv(out, Overwrite(w, inside, x), th \ inside, un \cup inside, ow, ch \cup inside, data, bits)
<1> DEFINE c == vs["column"]
           d == out["column"]
<1>w. PICK w2 : w2 = Overwrite(w, inside, x)
  OBVIOUS
<1>v. w2 = [j \in Rows |-> IF j \in inside THEN x ELSE w[j]]
  BY <1>w DEF Overwrite
<1>1. /\ Shape(vs) /\ Keeps(vs, w, th, un) /\ Publishes(vs, w, th, un, ow, data, bits)
      /\ "slice" \in DOMAIN vs => Agree(vs, ch)
      /\ "slice" \notin DOMAIN vs => th = {}
  BY DEF VectorsInv
<1>2. "column" \in DOMAIN vs /\ c.count \in 0 .. MaxRows /\ 1 .. c.count \subseteq Rows
  <2>1. "column" \in DOMAIN vs
    BY <1>1 DEF Shape
  <2>2. c.count \in 0 .. MaxRows
    BY <1>1, <2>1, ShapeTypes
  <2> QED
    BY <2>1, <2>2, ChunkAssumption DEF Rows
<1>3. /\ DOMAIN out = DOMAIN vs /\ ("slice" \in DOMAIN vs => out["slice"] = vs["slice"])
      /\ d.count = c.count
  BY DEF ColumnSet, OnlyChanges
<1>4. /\ kind = "strings" => d.items = c.items
      /\ kind # "strings" => d.cache = c.cache
      /\ \A j \in 1 .. c.count : j # i =>
          d.items[j] = c.items[j] /\ (Valid(d.bits, j - 1) <=> Valid(c.bits, j - 1))
      /\ \A j \in Rows : j # i => d.cache[j] = c.cache[j]
      /\ d.bits = None => c.bits = None
      /\ c.dirty \subseteq d.dirty
      /\ i \in 1 .. c.count =>
           /\ ok /\ (Valid(d.bits, i - 1) <=> x # Null)
           /\ kind = "strings" => d.cache[i] = x /\ i \in d.dirty
           /\ kind # "strings" /\ x # Null => d.items[i] = x
  BY DEF ColumnSet
<1>5. ASSUME NEW j \in 1 .. c.count, j # i
      PROVE  /\ j \notin inside /\ w2[j] = w[j]
             /\ Active(out, w2, th \ inside, j) <=> Active(vs, w, th, j)
             /\ j \in un \cup inside <=> j \in un
  <2>1. j \notin inside /\ j \in Rows
    BY <1>2, <1>5
  <2>2. w2[j] = w[j]
    BY <1>v, <2>1
  <2> QED
    BY <1>1, <1>3, <2>1, <2>2 DEF Active
<1>6. ASSUME i \in 1 .. c.count PROVE i \in inside /\ w2[i] = x
  BY <1>6, <1>v
<1>7. Keeps(out, w2, th \ inside, un \cup inside)
  <2> SUFFICES ASSUME NEW j \in 1 .. d.count, Active(out, w2, th \ inside, j)
               PROVE  /\ Valid(d.bits, j - 1) <=> w2[j] # Null
                      /\ d.cache[j] \in {None, w2[j]}
                      /\ d.cache[j] = None /\ w2[j] # Null => d.items[j] = w2[j]
                      /\ kind = "strings" /\ j \in un \cup inside => j \in d.dirty
    BY DEF Keeps
  <2>1. CASE j # i
    <3>1. /\ Valid(c.bits, j - 1) <=> w[j] # Null
          /\ c.cache[j] \in {None, w[j]}
          /\ c.cache[j] = None /\ w[j] # Null => c.items[j] = w[j]
          /\ kind = "strings" /\ j \in un => j \in c.dirty
      BY <1>1, <1>3, <1>5, <2>1 DEF Keeps
    <3>2. j \in 1 .. c.count /\ j \in Rows
      BY <1>2, <1>3
    <3> QED
      BY <1>4, <1>5, <2>1, <3>1, <3>2
  <2>2. CASE j = i
    <3>1. i \in 1 .. c.count /\ w2[i] = x
      BY <1>3, <1>6, <2>2
    <3>2. kind # "strings" => d.cache[i] = None
      BY <1>1, <1>2, <1>4 DEF Shape, WellFormed
    <3>3. x # None
      BY ChunkAssumption
    <3> QED
      BY <1>4, <2>2, <3>1, <3>2, <3>3
  <2> QED
    BY <2>1, <2>2
<1>8. Publishes(out, w2, th \ inside, un \cup inside, ow, data, bits)
  <2> SUFFICES ASSUME NEW j \in 1 .. d.count
               PROVE  /\ Active(out, w2, th \ inside, j) /\ j \notin un \cup inside =>
                           /\ <<"data", j>> \notin ow /\ w2[j] # Null => data[j] = w2[j]
                           /\ <<"mask", j>> \notin ow => (Valid(bits, j - 1) <=> w2[j] # Null)
                      /\ d.bits = None /\ <<"mask", j>> \notin ow => Valid(bits, j - 1)
    BY DEF Publishes
  <2>0. j \in 1 .. c.count
    BY <1>3
  <2>1. /\ Active(vs, w, th, j) /\ j \notin un =>
             /\ <<"data", j>> \notin ow /\ w[j] # Null => data[j] = w[j]
             /\ <<"mask", j>> \notin ow => (Valid(bits, j - 1) <=> w[j] # Null)
        /\ c.bits = None /\ <<"mask", j>> \notin ow => Valid(bits, j - 1)
    BY <1>1, <2>0 DEF Publishes
  <2>2. CASE j # i
    BY <1>4, <1>5, <2>0, <2>1, <2>2
  <2>3. CASE j = i
    BY <1>4, <1>6, <2>0, <2>1, <2>3
  <2> QED
    BY <2>2, <2>3
<1>9. ASSUME "slice" \in DOMAIN out PROVE Agree(out, ch \cup inside)
  <2> DEFINE s == vs["slice"]
  <2>1. "slice" \in DOMAIN vs /\ out["slice"] = s
    BY <1>3, <1>9
  <2> SUFFICES ASSUME NEW k \in 1 .. s.count, s.offset + k \notin ch \cup inside
               PROVE  AgreeIn(s, d, k, s.offset + k)
    BY <2>1 DEF Agree
  <2>2. PICK row : row = s.offset + k
    OBVIOUS
  <2>3. row \in 1 .. c.count /\ row \in Rows
    BY <1>1, <2>1, <2>2, SliceRow
  <2>4. row # i /\ row \notin ch
    BY <2>2, <2>3
  <2>5. AgreeIn(s, c, k, row)
    BY <1>1, <2>1, <2>2, <2>4 DEF Agree
  <2>6. d.items[row] = c.items[row] /\ (Valid(d.bits, row - 1) <=> Valid(c.bits, row - 1))
        /\ d.cache[row] = c.cache[row]
    BY <1>4, <2>3, <2>4
  <2>7. Raw(d, row) = Raw(c, row)
    BY <2>6 DEF Raw
  <2>8. AgreeIn(s, d, k, row)
    BY <2>5, <2>6, <2>7 DEF AgreeIn
  <2> QED
    BY <2>2, <2>8
<1> QED
  BY <1>w, <1>1, <1>3, <1>7, <1>8, <1>9 DEF VectorsInv

-----------------------------------------------------------------------------
(* The function that AfterSetting computes, up to row n.                   *)
Setting(f, vs, rows, n) ==
  f = [k \in 0 .. n |->
        IF k = 0 THEN [ok |-> TRUE, vs |-> vs]
        ELSE LET before == f[k - 1]
             IN  IF before.ok THEN AfterSet(before.vs, "column", k, rows[k]) ELSE before]

LEMMA SettingExists ==
  ASSUME NEW vs, NEW rows, NEW n \in Nat
  PROVE  \E f : Setting(f, vs, rows, n)
<1> DEFINE S == {m \in Nat : ~\E f : Setting(f, vs, rows, m)}
           Step(before, k) == IF before.ok THEN AfterSet(before.vs, "column", k, rows[k]) ELSE before
<1>1. ASSUME S # {} PROVE FALSE
  <2>0. S \in SUBSET Nat
    OBVIOUS
  <2>1. PICK m \in S : \A k \in S : m <= k
    BY <1>1, <2>0, LeastNumber
  <2>2. m # 0
    <3>1. Setting([k \in 0 .. 0 |-> [ok |-> TRUE, vs |-> vs]], vs, rows, 0)
      BY DEF Setting
    <3> QED
      BY <2>1, <3>1
  <2>3. m - 1 \in Nat /\ m - 1 \notin S /\ m \in Nat
    BY <2>1, <2>2
  <2>4. PICK g : Setting(g, vs, rows, m - 1)
    BY <2>3
  <2> HIDE DEF Step
  <2>5. g = [k \in 0 .. m - 1 |-> IF k = 0 THEN [ok |-> TRUE, vs |-> vs] ELSE Step(g[k - 1], k)]
    BY <2>4 DEF Setting, Step
  <2> DEFINE h == [k \in 0 .. m |-> IF k = m THEN Step(g[m - 1], m) ELSE g[k]]
  <2>6. ASSUME NEW k \in 0 .. m
        PROVE  h[k] = IF k = 0 THEN [ok |-> TRUE, vs |-> vs] ELSE Step(h[k - 1], k)
    <3>1. CASE k = m
      <4>1. k # 0 /\ m \in 0 .. m /\ m - 1 \in 0 .. m /\ m - 1 # m
        BY <2>3, <2>2, <3>1
      <4>2. h[m] = Step(g[m - 1], m) /\ h[m - 1] = g[m - 1]
        BY <4>1
      <4> QED
        BY <3>1, <4>1, <4>2
    <3>2. CASE k # m
      <4>1. k \in 0 .. m - 1 /\ (k # 0 => k - 1 \in 0 .. m /\ k - 1 # m)
        BY <2>3, <3>2
      <4>2. g[k] = IF k = 0 THEN [ok |-> TRUE, vs |-> vs] ELSE Step(g[k - 1], k)
        BY <2>5, <4>1
      <4>3. h[k] = g[k] /\ (k # 0 => h[k - 1] = g[k - 1])
        BY <3>2, <4>1
      <4> QED
        BY <4>2, <4>3
    <3> QED
      BY <3>1, <3>2
  <2>7. DOMAIN h = 0 .. m /\ h = [k \in 0 .. m |-> h[k]]
    OBVIOUS
  <2> HIDE DEF h, S
  <2>8. h = [k \in 0 .. m |-> IF k = 0 THEN [ok |-> TRUE, vs |-> vs] ELSE Step(h[k - 1], k)]
    BY <2>6, <2>7
  <2>9. Setting(h, vs, rows, m)
    BY <2>8 DEF Setting, Step
  <2> QED
    BY <2>1, <2>9 DEF S
<1> QED
  BY <1>1

(* What the program wants once the rows in inside have been set.           *)
Wanted(w, rows, inside) == [j \in Rows |-> IF j \in inside THEN rows[j] ELSE w[j]]

(* setRows and setColumns set one row after the other; none inside the     *)
(* vector fails.                                                           *)
LEMMA SettingKeeps ==
  ASSUME NEW vs, NEW w, NEW th, NEW un, NEW ow, NEW ch, NEW data, NEW bits,
         VectorsInv(vs, w, th, un, ow, ch, data, bits), kind \in Kinds,
         w \in [Rows -> Data \cup {Null, None}],
         NEW L \in 0 .. MaxRows, NEW rows \in [1 .. L -> Data \cup {Null}],
         NEW inside, inside = 1 .. L \cap 1 .. vs["column"].count,
         NEW a, a = AfterSetting(vs, rows)
  PROVE  VectorsInv(a.vs, Wanted(w, rows, inside), th \ inside, un \cup inside, ow,
                    ch \cup inside, data, bits)
<1> DEFINE f == CHOOSE f : Setting(f, vs, rows, L)
           count == vs["column"].count
           In(n) == 1 .. n \cap 1 .. count
           Good(n) ==
             /\ VectorsInv(f[n].vs, Wanted(w, rows, In(n)), th \ In(n), un \cup In(n), ow,
                           ch \cup In(n), data, bits)
             /\ f[n].vs["column"].count = count
             /\ f[n].ok \/ n > count
           S == {n \in 0 .. L : ~Good(n)}
<1>1. L \in Nat /\ Len(rows) = L /\ MaxRows \in Nat
  BY ChunkAssumption
<1>2. Setting(f, vs, rows, L)
  BY <1>1, SettingExists
<1>3. a = f[L]
  BY <1>1 DEF AfterSetting, Setting
<1> HIDE DEF f
<1>4. count \in 0 .. MaxRows
  <2>1. Shape(vs) /\ "column" \in DOMAIN vs
    BY DEF VectorsInv, Shape
  <2> QED
    BY <2>1, ShapeTypes
<1>5. Good(0)
  <2>1. f[0] = [ok |-> TRUE, vs |-> vs]
    BY <1>1, <1>2 DEF Setting
  <2>2. In(0) = {}
    OBVIOUS
  <2>3. Wanted(w, rows, {}) = w
    BY DEF Wanted
  <2>4. th \ {} = th /\ un \cup {} = un /\ ch \cup {} = ch
    OBVIOUS
  <2> QED
    BY <2>1, <2>2, <2>3, <2>4
<1>6. ASSUME NEW n \in 1 .. L, Good(n - 1) PROVE Good(n)
  <2>1. f[n] = IF f[n - 1].ok THEN AfterSet(f[n - 1].vs, "column", n, rows[n]) ELSE f[n - 1]
    BY <1>1, <1>2 DEF Setting
  <2>2. n \in Rows /\ rows[n] \in Data \cup {Null} /\ n \in Nat /\ n - 1 \in Nat
    BY <1>1 DEF Rows
  <2>3. CASE f[n - 1].ok
    <3>1. PICK old : old = f[n - 1].vs
      OBVIOUS
    <3>2. PICK s : s = AfterSet(old, "column", n, rows[n])
      OBVIOUS
    <3>3. f[n] = s
      BY <2>1, <2>3, <3>1, <3>2
    <3>4. VectorsInv(old, Wanted(w, rows, In(n - 1)), th \ In(n - 1), un \cup In(n - 1), ow,
                     ch \cup In(n - 1), data, bits)
          /\ old["column"].count = count
      BY <1>6, <3>1
    <3>5. Shape(old)
      BY <3>4 DEF VectorsInv
    <3>6. Shape(s.vs) /\ ColumnSet(s.vs, s.ok, old, n, rows[n])
      BY <2>2, <3>2, <3>5, ColumnIsSet
    <3>7. PICK new : new = {n} \cap 1 .. count
      OBVIOUS
    <3>8. PICK w2 : w2 = [j \in Rows |-> IF j \in new THEN rows[n] ELSE Wanted(w, rows, In(n - 1))[j]]
      OBVIOUS
    <3>9. VectorsInv(s.vs, w2, (th \ In(n - 1)) \ new, (un \cup In(n - 1)) \cup new, ow,
                     (ch \cup In(n - 1)) \cup new, data, bits)
      <4>1. new = {n} \cap 1 .. old["column"].count
        BY <3>4, <3>7
      <4>2. PICK w1 : w1 = Wanted(w, rows, In(n - 1))
        OBVIOUS
      <4>3. PICK th1, un1, ch1 : /\ th1 = th \ In(n - 1) /\ un1 = un \cup In(n - 1)
                                 /\ ch1 = ch \cup In(n - 1)
        OBVIOUS
      <4>4. VectorsInv(old, w1, th1, un1, ow, ch1, data, bits)
        BY <3>4, <4>2, <4>3
      <4>5. w2 = [j \in Rows |-> IF j \in new THEN rows[n] ELSE w1[j]]
        BY <3>8, <4>2
      <4>a. PICK out, ok, x : out = s.vs /\ ok = s.ok /\ x = rows[n]
        OBVIOUS
      <4>b. /\ n \in Rows /\ x \in Data \cup {Null} /\ Shape(out) /\ ColumnSet(out, ok, old, n, x)
        BY <2>2, <3>6, <4>a
      <4>c. VectorsInv(out, Overwrite(w1, new, x), th1 \ new, un1 \cup new, ow, ch1 \cup new, data, bits)
        BY ONLY <4>1, <4>4, <4>b, ColumnSetKeeps
      <4>6. VectorsInv(s.vs, w2, th1 \ new, un1 \cup new, ow, ch1 \cup new, data, bits)
        BY <4>5, <4>a, <4>c DEF Overwrite
      <4> QED
        BY <4>3, <4>6
    <3>10. In(n - 1) \cup new = In(n)
      BY <1>1, <1>4, <2>2, <3>7
    <3>11. w2 = Wanted(w, rows, In(n))
      <4> SUFFICES ASSUME NEW j \in Rows
                   PROVE  (IF j \in new THEN rows[n] ELSE Wanted(w, rows, In(n - 1))[j])
                            = IF j \in In(n) THEN rows[j] ELSE w[j]
        BY <3>8 DEF Wanted
      <4>1. Wanted(w, rows, In(n - 1))[j] = IF j \in In(n - 1) THEN rows[j] ELSE w[j]
        BY DEF Wanted
      <4>2. j \in new => j = n
        BY <3>7
      <4>3. j \in In(n) <=> j \in In(n - 1) \/ j \in new
        BY <3>10
      <4> HIDE DEF In
      <4> QED
        BY <4>1, <4>2, <4>3
    <3>12. (th \ In(n - 1)) \ new = th \ In(n) /\ (un \cup In(n - 1)) \cup new = un \cup In(n)
           /\ (ch \cup In(n - 1)) \cup new = ch \cup In(n)
      <4> HIDE DEF In
      <4> QED
        BY <3>10
    <3>13. s.vs["column"].count = count /\ (s.ok \/ n > count)
      <4>1. n \in 1 .. count => s.ok
        BY <3>4, <3>6 DEF ColumnSet
      <4>2. s.vs["column"].count = count
        BY <3>4, <3>6 DEF ColumnSet
      <4> QED
        BY <1>1, <1>4, <2>2, <4>1, <4>2
    <3> HIDE DEF In
    <3> QED
      BY <3>3, <3>9, <3>11, <3>12, <3>13
  <2>4. CASE ~f[n - 1].ok
    <3>1. f[n] = f[n - 1]
      BY <2>1, <2>4
    <3>2. n - 1 > count
      BY <1>6, <2>4
    <3>3. In(n) = In(n - 1) /\ n > count
      BY <1>1, <1>4, <2>2, <3>2
    <3> HIDE DEF In
    <3> QED
      BY <1>6, <3>1, <3>3
  <2> QED
    BY <2>3, <2>4
<1> HIDE DEF Good
<1>7. ASSUME S # {} PROVE FALSE
  <2>0. S \in SUBSET Nat
    BY <1>1
  <2>1. PICK m \in S : \A k \in S : m <= k
    BY <1>7, <2>0, LeastNumber
  <2>2. m # 0
    BY <1>5, <2>1
  <2>3. m \in 1 .. L /\ m - 1 \in 0 .. L /\ ~(m <= m - 1)
    BY <1>1, <2>1, <2>2
  <2>4. m - 1 \notin S
    BY <2>1, <2>3
  <2> QED
    BY <1>6, <2>1, <2>3, <2>4
<1>8. Good(L)
  BY <1>1, <1>7
<1>9. In(L) = inside
  OBVIOUS
<1> HIDE DEF In
<1> QED
  BY <1>3, <1>8, <1>9 DEF Good

-----------------------------------------------------------------------------
(* What setItem of row i of the slice, row of the column, leaves behind.   *)
SliceSet(out, vs, i, row, x) ==
  LET c == vs["column"]
      d == out["column"]
      s == vs["slice"]
      t == out["slice"]
  IN /\ DOMAIN out = DOMAIN vs
     /\ d.count = c.count /\ d.cache = c.cache /\ d.dirty = c.dirty
     /\ t.offset = s.offset /\ t.count = s.count /\ t.shares = s.shares
     /\ kind # "view" => d.items = c.items
     /\ \A j \in 1 .. c.count : j # row =>
          d.items[j] = c.items[j] /\ (Valid(d.bits, j - 1) <=> Valid(c.bits, j - 1))
     /\ d.bits = None => c.bits = None
     /\ kind = "view" /\ s.shares =>
          (Valid(d.bits, row - 1) <=> x # Null) /\ (x # Null => d.items[row] = x)
     /\ \A j \in 1 .. s.count : j # i => t.items[j] = s.items[j]
     /\ \A j \in Rows : j # i => t.cache[j] = s.cache[j]
     /\ ~s.shares => \A b \in Bits(s.count) :
                       b # row - 1 => (Valid(t.bits, b) <=> Valid(s.bits, b))

LEMMA SliceIsSet ==
  ASSUME NEW vs, Shape(vs), "slice" \in DOMAIN vs, NEW i \in 1 .. vs["slice"].count,
         NEW x \in Data \cup {Null}, kind \in Kinds, NEW row, row = vs["slice"].offset + i,
         NEW s, s = AfterSet(vs, "slice", i, x)
  PROVE  Shape(s.vs) /\ SliceSet(s.vs, vs, i, row, x)
<1> DEFINE c == vs["column"]
           l == vs["slice"]
<1>1. /\ row \in 1 .. c.count /\ i \in Rows /\ row - 1 \in Bits(c.count) /\ i <= l.count
      /\ l.offset \in Nat /\ l.count \in Nat /\ c.count \in Nat /\ i \in Nat
  BY SliceRow, ChunkAssumption DEF Rows
<1>0. "column" \in DOMAIN vs /\ ~c.shares
  BY DEF Shape
<1>2. PICK stored, w :
         /\ stored = StoreItem(vs, "slice", i, x)
         /\ w = SetItemValid(stored, "slice", i, x # Null)
         /\ s.ok = w.ok /\ Shape(stored) /\ Shape(w.vs) /\ Shape(s.vs)
         /\ DOMAIN stored = DOMAIN vs /\ DOMAIN w.vs = DOMAIN vs
         /\ IF kind = "strings" /\ w.ok
            THEN DirtyChanged(s.vs, w.vs, "slice", w.vs["slice"].dirty \cup {i})
            ELSE s.vs = w.vs
  <2>1. kind = "view" /\ x # Null => i <= vs["slice"].count
    BY <1>1
  <2>2. "slice" \in DOMAIN vs /\ i \in Rows /\ Shape(vs) /\ x \in Data \cup {Null}
        /\ kind \in Kinds /\ s = AfterSet(vs, "slice", i, x)
    BY <1>1
  <2>3. InSteps(s, vs, "slice", i, x)
    BY ONLY <2>1, <2>2, SetInSteps
  <2> QED
    BY ONLY <2>3 DEF InSteps
<1>3. \/ kind = "strings" /\ CacheChanged(stored, vs, "slice", i, x)
      \/ kind = "view" /\ x # Null /\ ItemChanged(stored, vs, "column", row, x)
      \/ kind = "items" /\ x # Null /\ ItemChanged(stored, vs, "slice", i, x)
      \/ kind # "strings" /\ x = Null /\ stored = vs
  <2>1. i \in 1 .. l.count
    OBVIOUS
  <2>2. \/ kind = "strings" /\ CacheChanged(stored, vs, "slice", i, x)
        \/ /\ kind = "view" /\ x # Null
           /\ l.offset + i \in 1 .. c.count
           /\ ItemChanged(stored, vs, "column", l.offset + i, x)
        \/ /\ kind = "items" /\ x # Null /\ i \in 1 .. l.count
           /\ ItemChanged(stored, vs, "slice", i, x)
        \/ kind # "strings" /\ (x = Null \/ i \notin 1 .. l.count) /\ stored = vs
    BY <1>1, <1>2, ItemStored
  <2> QED
    BY <2>1, <2>2
<1>4. PICK e, g : e = stored["column"] /\ g = stored["slice"]
  OBVIOUS
<1>5. PICK f, h : f = w.vs["column"] /\ h = w.vs["slice"]
  OBVIOUS
<1>6. PICK d, t : d = s.vs["column"] /\ t = s.vs["slice"]
  OBVIOUS
<1>7. /\ e.count = c.count /\ e.cache = c.cache /\ e.dirty = c.dirty /\ e.bits = c.bits
      /\ e.shares = c.shares
      /\ g.offset = l.offset /\ g.count = l.count /\ g.shares = l.shares /\ g.bits = l.bits
      /\ kind # "view" => e.items = c.items
      /\ \A j \in 1 .. c.count : j # row => e.items[j] = c.items[j]
      /\ kind = "view" /\ x # Null => e.items[row] = x
      /\ \A j \in 1 .. l.count : j # i => g.items[j] = l.items[j]
      /\ \A j \in Rows : j # i => g.cache[j] = l.cache[j]
  <2>1. CASE kind = "strings" /\ CacheChanged(stored, vs, "slice", i, x)
    BY <1>0, <1>4, <2>1 DEF CacheChanged, SameButCache, OnlyChanges
  <2>2. CASE kind = "view" /\ x # Null /\ ItemChanged(stored, vs, "column", row, x)
    BY <1>0, <1>4, <2>2 DEF ItemChanged, SameButItems, OnlyChanges
  <2>3. CASE kind = "items" /\ x # Null /\ ItemChanged(stored, vs, "slice", i, x)
    BY <1>0, <1>4, <2>3 DEF ItemChanged, SameButItems, OnlyChanges
  <2>4. CASE kind # "strings" /\ x = Null /\ stored = vs
    BY <1>4, <2>4
  <2> QED
    BY <1>3, <2>1, <2>2, <2>3, <2>4
<1>8. PICK valid \in BOOLEAN : valid = (x # Null)
  OBVIOUS
<1>9. BitOf(stored["slice"], i) = row - 1
  BY <1>1, <1>4, <1>7 DEF BitOf
<1>10. /\ f.count = e.count /\ f.cache = e.cache /\ f.dirty = e.dirty /\ f.items = e.items
       /\ h.offset = g.offset /\ h.count = g.count /\ h.shares = g.shares
       /\ h.items = g.items /\ h.cache = g.cache
       /\ \A b \in Bits(c.count) : b # row - 1 => (Valid(f.bits, b) <=> Valid(e.bits, b))
       /\ f.bits = None => e.bits = None
       /\ l.shares => (Valid(f.bits, row - 1) <=> valid)
       /\ ~l.shares => \A b \in Bits(l.count) :
                         b # row - 1 => (Valid(h.bits, b) <=> Valid(g.bits, b))
  <2>0. w = SetItemValid(stored, "slice", i, valid)
    BY <1>2, <1>8
  <2>1. CASE l.shares
    <3>1. MaskOwner(stored, "slice") = "column"
      BY <1>4, <1>7, <2>1 DEF MaskOwner
    <3>2. /\ OnlyChanges(w.vs, stored, "column") /\ SameButBits(w.vs["column"], stored["column"])
          /\ w.vs["column"].bits = None => stored["column"].bits = None
          /\ row - 1 \in Bits(stored["column"].count) => (Valid(w.vs["column"].bits, row - 1) <=> valid)
          /\ \A b \in Bits(stored["column"].count) : b # row - 1 =>
               (Valid(w.vs["column"].bits, b) <=> Valid(stored["column"].bits, b))
      BY <1>2, <1>9, <2>0, <3>1, ValiditySet
    <3>3. h = g
      BY <1>2, <1>4, <1>5, <3>2 DEF OnlyChanges
    <3> QED
      BY <1>1, <1>4, <1>5, <1>7, <2>1, <3>2, <3>3 DEF SameButBits
  <2>2. CASE ~l.shares
    <3>1. MaskOwner(stored, "slice") = "slice"
      BY <1>4, <1>7, <2>2 DEF MaskOwner
    <3>2. /\ OnlyChanges(w.vs, stored, "slice") /\ SameButBits(w.vs["slice"], stored["slice"])
          /\ \A b \in Bits(stored["slice"].count) : b # row - 1 =>
               (Valid(w.vs["slice"].bits, b) <=> Valid(stored["slice"].bits, b))
      BY <1>2, <1>9, <2>0, <3>1, ValiditySet
    <3>3. f = e
      BY <1>0, <1>2, <1>4, <1>5, <3>2 DEF OnlyChanges
    <3> QED
      BY <1>4, <1>5, <1>7, <2>2, <3>2, <3>3 DEF SameButBits
  <2> QED
    BY <2>1, <2>2
<1>11. d = f /\ t.offset = h.offset /\ t.count = h.count /\ t.shares = h.shares
       /\ t.items = h.items /\ t.bits = h.bits /\ t.cache = h.cache
       /\ DOMAIN s.vs = DOMAIN vs
  <2>1. CASE kind = "strings" /\ w.ok
    BY <1>0, <1>2, <1>5, <1>6, <2>1 DEF DirtyChanged, SameButDirty, OnlyChanges
  <2>2. CASE ~(kind = "strings" /\ w.ok)
    BY <1>2, <1>5, <1>6, <2>2
  <2> QED
    BY <2>1, <2>2
<1>12. ASSUME NEW j \in 1 .. c.count, j # row
       PROVE  d.items[j] = c.items[j] /\ (Valid(d.bits, j - 1) <=> Valid(c.bits, j - 1))
  <2>1. j - 1 \in Bits(c.count) /\ j - 1 # row - 1
    BY <1>1, <1>12, BitsCover
  <2> QED
    BY <1>7, <1>10, <1>11, <1>12, <2>1
<1>13. /\ d.count = c.count /\ d.cache = c.cache /\ d.dirty = c.dirty
       /\ t.offset = l.offset /\ t.count = l.count /\ t.shares = l.shares
       /\ kind # "view" => d.items = c.items
       /\ d.bits = None => c.bits = None
       /\ kind = "view" /\ l.shares =>
            (Valid(d.bits, row - 1) <=> x # Null) /\ (x # Null => d.items[row] = x)
       /\ \A j \in 1 .. l.count : j # i => t.items[j] = l.items[j]
       /\ \A j \in Rows : j # i => t.cache[j] = l.cache[j]
  <2>1. /\ d.count = c.count /\ d.cache = c.cache /\ d.dirty = c.dirty
        /\ t.offset = l.offset /\ t.count = l.count /\ t.shares = l.shares
    BY <1>7, <1>10, <1>11
  <2>2. kind # "view" => d.items = c.items
    BY <1>7, <1>10, <1>11
  <2>3. d.bits = None => c.bits = None
    BY <1>7, <1>10, <1>11
  <2>4. ASSUME kind = "view", l.shares
        PROVE  (Valid(d.bits, row - 1) <=> x # Null) /\ (x # Null => d.items[row] = x)
    <3>1. Valid(f.bits, row - 1) <=> valid
      BY <1>10, <2>4
    <3>2. x # Null => e.items[row] = x
      BY <1>7, <2>4
    <3> QED
      BY <1>8, <1>10, <1>11, <3>1, <3>2
  <2>5. \A j \in 1 .. l.count : j # i => t.items[j] = l.items[j]
    BY <1>7, <1>10, <1>11
  <2>6. \A j \in Rows : j # i => t.cache[j] = l.cache[j]
    BY <1>7, <1>10, <1>11
  <2> HIDE DEF c, l
  <2> QED
    BY <2>1, <2>2, <2>3, <2>4, <2>5, <2>6
<1>14. ~l.shares => \A b \in Bits(l.count) :
                       b # row - 1 => (Valid(t.bits, b) <=> Valid(l.bits, b))
  BY <1>7, <1>10, <1>11
<1> QED
  BY <1>2, <1>6, <1>11, <1>12, <1>13, <1>14 DEF SliceSet

LEMMA SliceSetKeeps ==
  ASSUME NEW vs, NEW w, NEW th, NEW un, NEW ow, NEW ch, NEW data, NEW bits,
         VectorsInv(vs, w, th, un, ow, ch, data, bits), "slice" \in DOMAIN vs,
         NEW out, NEW i \in 1 .. vs["slice"].count, NEW x \in Data \cup {Null},
         NEW row, row = vs["slice"].offset + i,
         Shape(out), SliceSet(out, vs, i, row, x)
  PROVE  VectorsInv(out, Overwrite(w, {row}, x), th \cup {row}, un \cup {row}, ow,
                    ch \cup {row}, data, bits)
<1> DEFINE c == vs["column"]
           d == out["column"]
           s == vs["slice"]
           t == out["slice"]
<1>w. PICK w2 : w2 = Overwrite(w, {row}, x)
  OBVIOUS
<1>v. w2 = [j \in Rows |-> IF j \in {row} THEN x ELSE w[j]]
  BY <1>w DEF Overwrite
<1>1. /\ Shape(vs) /\ Keeps(vs, w, th, un) /\ Publishes(vs, w, th, un, ow, data, bits)
      /\ Agree(vs, ch)
  BY DEF VectorsInv
<1>2. /\ c.count \in 0 .. MaxRows /\ row \in 1 .. c.count /\ 1 .. c.count \subseteq Rows
      /\ s.offset \in Nat /\ s.count \in Nat
  BY <1>1, SliceRow, ChunkAssumption DEF Rows
<1>3. /\ DOMAIN out = DOMAIN vs
      /\ d.count = c.count /\ d.cache = c.cache /\ d.dirty = c.dirty
      /\ t.offset = s.offset /\ t.count = s.count /\ t.shares = s.shares
      /\ kind # "view" => d.items = c.items
      /\ \A j \in 1 .. c.count : j # row =>
           d.items[j] = c.items[j] /\ (Valid(d.bits, j - 1) <=> Valid(c.bits, j - 1))
      /\ d.bits = None => c.bits = None
      /\ kind = "view" /\ s.shares =>
           (Valid(d.bits, row - 1) <=> x # Null) /\ (x # Null => d.items[row] = x)
  BY DEF SliceSet
<1>4. /\ \A j \in 1 .. s.count : j # i => t.items[j] = s.items[j]
      /\ \A j \in Rows : j # i => t.cache[j] = s.cache[j]
      /\ ~s.shares => \A b \in Bits(s.count) :
                        b # row - 1 => (Valid(t.bits, b) <=> Valid(s.bits, b))
  BY DEF SliceSet
<1>5. ASSUME NEW j \in 1 .. c.count, j # row
      PROVE  /\ w2[j] = w[j]
             /\ Active(out, w2, th \cup {row}, j) <=> Active(vs, w, th, j)
             /\ j \in un \cup {row} <=> j \in un
  <2>1. j \in Rows
    BY <1>2
  <2>2. w2[j] = w[j]
    BY <1>5, <1>v, <2>1
  <2> QED
    BY <1>3, <1>5, <2>2 DEF Active
<1>6. row \in Rows /\ w2[row] = x
  BY <1>2, <1>v
<1>7. Keeps(out, w2, th \cup {row}, un \cup {row})
  <2> SUFFICES ASSUME NEW j \in 1 .. d.count, Active(out, w2, th \cup {row}, j)
               PROVE  /\ Valid(d.bits, j - 1) <=> w2[j] # Null
                      /\ d.cache[j] \in {None, w2[j]}
                      /\ d.cache[j] = None /\ w2[j] # Null => d.items[j] = w2[j]
                      /\ kind = "strings" /\ j \in un \cup {row} => j \in d.dirty
    BY DEF Keeps
  <2>0. j \in 1 .. c.count
    BY <1>3
  <2>1. CASE j # row
    <3>1. /\ Valid(c.bits, j - 1) <=> w[j] # Null
          /\ c.cache[j] \in {None, w[j]}
          /\ c.cache[j] = None /\ w[j] # Null => c.items[j] = w[j]
          /\ kind = "strings" /\ j \in un => j \in c.dirty
      BY <1>1, <1>5, <2>0, <2>1 DEF Keeps
    <3> QED
      BY <1>3, <1>5, <2>0, <2>1, <3>1
  <2>2. CASE j = row
    <3>1. kind = "view" /\ s.shares
      BY <1>3, <2>2 DEF Active
    <3>2. d.cache[row] = None
      BY <1>3, <1>6, <3>1 DEF Shape, WellFormed
    <3> QED
      BY <1>3, <1>6, <2>2, <3>1, <3>2
  <2> QED
    BY <2>1, <2>2
<1>8. Publishes(out, w2, th \cup {row}, un \cup {row}, ow, data, bits)
  <2> SUFFICES ASSUME NEW j \in 1 .. d.count
               PROVE  /\ Active(out, w2, th \cup {row}, j) /\ j \notin un \cup {row} =>
                           /\ <<"data", j>> \notin ow /\ w2[j] # Null => data[j] = w2[j]
                           /\ <<"mask", j>> \notin ow => (Valid(bits, j - 1) <=> w2[j] # Null)
                      /\ d.bits = None /\ <<"mask", j>> \notin ow => Valid(bits, j - 1)
    BY DEF Publishes
  <2>0. j \in 1 .. c.count
    BY <1>3
  <2>1. /\ Active(vs, w, th, j) /\ j \notin un =>
             /\ <<"data", j>> \notin ow /\ w[j] # Null => data[j] = w[j]
             /\ <<"mask", j>> \notin ow => (Valid(bits, j - 1) <=> w[j] # Null)
        /\ c.bits = None /\ <<"mask", j>> \notin ow => Valid(bits, j - 1)
    BY <1>1, <2>0 DEF Publishes
  <2>2. CASE j # row
    BY <1>3, <1>5, <2>0, <2>1, <2>2
  <2>3. CASE j = row
    BY <1>3, <2>0, <2>1, <2>3
  <2> QED
    BY <2>2, <2>3
<1>9. Agree(out, ch \cup {row})
  <2> SUFFICES ASSUME NEW k \in 1 .. s.count, s.offset + k \notin ch \cup {row}
               PROVE  AgreeIn(t, d, k, s.offset + k)
    BY <1>3 DEF Agree
  <2>2. PICK r : r = s.offset + k
    OBVIOUS
  <2>3. r \in 1 .. c.count /\ r \in Rows /\ k \in Rows /\ k # i /\ r # row
    BY <1>1, <2>2, SliceRow
  <2>4. AgreeIn(s, c, k, r)
    BY <1>1, <2>2 DEF Agree
  <2>5. d.items[r] = c.items[r] /\ (Valid(d.bits, r - 1) <=> Valid(c.bits, r - 1))
        /\ d.cache[r] = c.cache[r] /\ t.items[k] = s.items[k] /\ t.cache[k] = s.cache[k]
    BY <1>3, <1>4, <2>3
  <2>6. Raw(d, r) = Raw(c, r)
    BY <2>5 DEF Raw
  <2>7. ASSUME ~s.shares, t.bits # None, r - 1 \in DOMAIN t.bits PROVE t.bits[r - 1]
    <3>1. t.bits \in Masks(s.count) /\ s.bits \in Masks(s.count)
      <4>1. t.bits \in Masks(t.count) /\ s.bits \in Masks(s.count)
        BY <1>1, <1>3, ShapeTypes
      <4> QED
        BY <1>3, <4>1
    <3>2. r - 1 \in Bits(s.count)
      BY <2>7, <3>1 DEF Masks
    <3>3. s.bits = None \/ s.bits[r - 1]
      BY <2>4, <2>7, <3>1, <3>2 DEF AgreeIn, Masks
    <3>4. Valid(t.bits, r - 1) <=> Valid(s.bits, r - 1)
      <4>1. r - 1 # row - 1
        BY <1>2, <2>3
      <4> QED
        BY <1>4, <2>7, <3>2, <4>1
    <3> QED
      BY <2>7, <3>3, <3>4 DEF Valid
  <2>8. AgreeIn(t, d, k, r)
    BY <1>3, <2>4, <2>5, <2>6, <2>7 DEF AgreeIn
  <2> QED
    BY <2>2, <2>8
<1> QED
  BY <1>w, <1>1, <1>3, <1>7, <1>8, <1>9 DEF VectorsInv
-----------------------------------------------------------------------------
(* The bits that a mask has.                                               *)
LEMMA MaskDomain ==
  ASSUME NEW n \in 0 .. MaxRows, NEW m \in Masks(n), m # None
  PROVE  /\ m \in [Bits(n) -> BOOLEAN] /\ DOMAIN m = Bits(n)
         /\ \A b \in Bits(n) : m[b] <=> Valid(m, b)
  BY DEF Masks, Valid

LEMMA BitsWithin ==
  ASSUME NEW n \in 0 .. MaxRows
  PROVE  Bits(n) \subseteq Bits(MaxRows) /\ \A b \in Bits(n) : b \in Nat
<1>1. n \in Nat /\ MaxRows \in Nat /\ n <= MaxRows
  BY ChunkAssumption
<1>2. Bits(n) \subseteq Bits(MaxRows)
  BY <1>1, BitsGrow
<1>3. \A b \in Bits(n) : b \in Nat
  BY DEF Bits
<1> QED
  BY <1>2, <1>3

(* The rows whose data a flush writes, and what it writes there.           *)
LEMMA TargetRows ==
  ASSUME NEW vs, Shape(vs), NEW v \in DOMAIN vs
  PROVE  /\ Targets(vs, v) \subseteq Rows
         /\ kind = "strings" => \A i \in Targets(vs, v) :
              vs[v].cache[i - vs[v].offset] \in Memory
         /\ kind # "strings" => \A i \in Targets(vs, v) :
              i \in 1 .. vs[v].count /\ Stored(vs, v, i) \in Memory
<1> DEFINE r == vs[v]
           c == vs["column"]
<1>1. /\ r.offset \in 0 .. MaxRows /\ r.count \in 0 .. MaxRows /\ r.cache \in Caches
      /\ r.items \in [1 .. r.count -> Memory] /\ r.dirty \in SUBSET Rows
      /\ WellFormed(r)
  BY ShapeTypes
<1>2. "column" \in DOMAIN vs /\ v \in {"column", "slice"} /\ c.offset = 0
  BY DEF Shape
<1>3. c.count \in 0 .. MaxRows /\ c.items \in [1 .. c.count -> Memory]
  BY <1>2, ShapeTypes
<1>4. r.offset + r.count <= c.count
  <2>1. CASE v = "column"
    BY <1>2, <1>3, <2>1, ChunkAssumption
  <2>2. CASE v = "slice"
    BY <2>2 DEF Shape
  <2> QED
    BY <1>2, <2>1, <2>2
<1>5. MaxRows \in Nat
  BY ChunkAssumption
<1>6. CASE kind = "strings"
  <2> SUFFICES ASSUME NEW i \in Targets(vs, v)
               PROVE  i \in Rows /\ r.cache[i - r.offset] \in Memory
    BY <1>6
  <2>1. PICK j \in r.dirty \cap 1 .. r.count : r.cache[j] # Null /\ i = r.offset + j
    BY <1>6 DEF Targets
  <2>2. i \in Rows /\ i - r.offset = j /\ j \in Rows
    BY <1>1, <1>3, <1>4, <1>5, <2>1 DEF Rows
  <2>3. r.cache[j] # None
    BY <1>1, <2>1 DEF WellFormed
  <2>4. r.cache[j] \in Memory \cup {Null, None}
    BY <1>1, <2>2 DEF Caches
  <2> QED
    BY <2>1, <2>2, <2>3, <2>4
<1>7. CASE kind # "strings"
  <2> SUFFICES ASSUME NEW i \in Targets(vs, v)
               PROVE  i \in Rows /\ i \in 1 .. r.count /\ Stored(vs, v, i) \in Memory
    BY <1>7
  <2>1. i \in 1 .. r.count
    BY <1>7 DEF Targets
  <2>2. i \in Rows /\ r.offset + i \in 1 .. c.count
    BY <1>1, <1>3, <1>4, <1>5, <2>1 DEF Rows
  <2>3. c.items[r.offset + i] \in Memory /\ r.items[i] \in Memory
    BY <1>1, <1>3, <2>1, <2>2
  <2> QED
    BY <2>1, <2>2, <2>3 DEF Stored
<1> QED
  BY <1>6, <1>7

(* What a flush of vector v leaves in the native vector and in the history *)
(* of what slices wrote there; u is the vector that owns the mask.         *)
Written(vs, v, u, data, bits, ow, newData, newBits, newOw) ==
  LET mask == vs[u].bits
      n == vs[u].count
  IN /\ newData \in [Rows -> Memory] /\ newBits \in Masks(MaxRows)
     /\ newOw \subseteq {"data", "mask"} \X {b + 1 : b \in Bits(MaxRows)}
     /\ \A i \in Rows : newData[i] =
          IF i \notin Targets(vs, v) THEN data[i]
          ELSE IF kind = "strings" THEN vs[v].cache[i - vs[v].offset] ELSE Stored(vs, v, i)
     /\ \A b \in Bits(MaxRows) : Valid(newBits, b) <=>
          IF mask = None \/ b \notin Bits(n) THEN Valid(bits, b) ELSE Valid(mask, b)
     /\ \A i \in Rows : <<"data", i>> \in newOw <=>
          IF i \in Targets(vs, v) THEN v # "column" ELSE <<"data", i>> \in ow
     /\ \A i \in Rows : <<"mask", i>> \in newOw <=>
          IF mask = None \/ i - 1 \notin Bits(n) THEN <<"mask", i>> \in ow ELSE u # "column"

LEMMA FlushWrites ==
  ASSUME ChunkTypes, NEW vs, Shape(vs), NEW v \in DOMAIN vs, Flush(vs, v),
         NEW u, u = MaskOwner(vs, v)
  PROVE  Written(vs, v, u, nativeData, nativeBits, overwritten,
                 nativeData', nativeBits', overwritten')
<1> DEFINE mask == vs[u].bits
           n == vs[u].count
           rows == Targets(vs, v)
           rewritten == IF mask = None THEN {} ELSE {b + 1 : b \in DOMAIN mask}
<1>1. u \in DOMAIN vs
  BY DEF MaskOwner, Shape
<1>2. n \in 0 .. MaxRows /\ mask \in Masks(n)
  BY <1>1, ShapeTypes
<1>3. /\ rows \subseteq Rows
      /\ kind = "strings" => \A i \in rows : vs[v].cache[i - vs[v].offset] \in Memory
      /\ kind # "strings" => \A i \in rows : i \in 1 .. vs[v].count /\ Stored(vs, v, i) \in Memory
  BY TargetRows
<1>4. /\ nativeData \in [Rows -> Memory] /\ nativeBits \in Masks(MaxRows)
      /\ overwritten \subseteq {"data", "mask"} \X {b + 1 : b \in Bits(MaxRows)}
  BY DEF ChunkTypes
<1>5. Bits(n) \subseteq Bits(MaxRows) /\ \A b \in Bits(MaxRows) : b \in Nat
  <2>1. MaxRows \in 0 .. MaxRows
    BY ChunkAssumption
  <2> QED
    BY <1>2, <2>1, BitsWithin
<1>6. mask # None => /\ mask \in [Bits(n) -> BOOLEAN] /\ DOMAIN mask = Bits(n)
                     /\ \A b \in Bits(n) : mask[b] <=> Valid(mask, b)
  BY <1>2, MaskDomain
<1>7. /\ nativeData' = [i \in Rows |-> IF i \notin rows THEN nativeData[i]
                          ELSE IF kind = "strings" THEN vs[v].cache[i - vs[v].offset]
                          ELSE Stored(vs, v, i)]
      /\ nativeBits' = IF mask = None THEN nativeBits
           ELSE [b \in Bits(MaxRows) |-> IF b \in DOMAIN mask THEN mask[b]
                                         ELSE nativeBits = None \/ nativeBits[b]]
      /\ overwritten' =
           (overwritten \ (({"data"} \X rows) \cup ({"mask"} \X rewritten))) \cup
           (IF v = "column" THEN {} ELSE {"data"} \X rows) \cup
           (IF u = "column" THEN {} ELSE {"mask"} \X rewritten)
  BY DEF Flush
<1>8. rewritten = IF mask = None THEN {} ELSE {b + 1 : b \in Bits(n)}
  BY <1>6
<1> HIDE DEF rows, rewritten, mask, n
<1>9. /\ nativeData' \in [Rows -> Memory]
      /\ \A i \in Rows : nativeData'[i] =
           IF i \notin rows THEN nativeData[i]
           ELSE IF kind = "strings" THEN vs[v].cache[i - vs[v].offset] ELSE Stored(vs, v, i)
  <2>1. \A i \in Rows : nativeData[i] \in Memory
    BY <1>4
  <2> QED
    BY <1>3, <1>7, <2>1
<1>10. /\ nativeBits' \in Masks(MaxRows)
       /\ \A b \in Bits(MaxRows) : Valid(nativeBits', b) <=>
            IF mask = None \/ b \notin Bits(n) THEN Valid(nativeBits, b) ELSE Valid(mask, b)
  <2>1. CASE mask = None
    BY <1>4, <1>7, <2>1
  <2>2. CASE mask # None
    <3>1. nativeBits' = [b \in Bits(MaxRows) |-> IF b \in Bits(n) THEN mask[b]
                                                 ELSE nativeBits = None \/ nativeBits[b]]
      BY <1>6, <1>7, <2>2
    <3>2. \A b \in Bits(n) : mask[b] \in BOOLEAN
      BY <1>6, <2>2
    <3>3. nativeBits # None => \A b \in Bits(MaxRows) : nativeBits[b] \in BOOLEAN
      BY <1>4 DEF Masks
    <3>4. nativeBits' \in [Bits(MaxRows) -> BOOLEAN]
      BY <3>1, <3>2, <3>3
    <3>5. nativeBits' # None
      <4>1. MaxRows \in 0 .. MaxRows
        BY ChunkAssumption
      <4> QED
        BY <3>4, <4>1, MaskAssumption
    <3>6. \A b \in Bits(MaxRows) : nativeBits'[b] <=>
            IF b \notin Bits(n) THEN Valid(nativeBits, b) ELSE Valid(mask, b)
      BY <1>6, <2>2, <3>1 DEF Valid
    <3> QED
      BY <2>2, <3>4, <3>5, <3>6 DEF Masks, Valid
  <2> QED
    BY <2>1, <2>2
<1>11. \A i \in Rows : <<"data", i>> \in overwritten' <=>
         IF i \in rows THEN v # "column" ELSE <<"data", i>> \in overwritten
  BY <1>7
<1>12. \A i \in Rows : i \in rewritten <=> mask # None /\ i - 1 \in Bits(n)
  <2> SUFFICES ASSUME NEW i \in Rows PROVE i \in {b + 1 : b \in Bits(n)} <=> i - 1 \in Bits(n)
    BY <1>8
  <2>1. \A b \in Bits(n) : b \in Nat
    BY <1>5
  <2> QED
    BY <2>1 DEF Rows
<1>13. \A i \in Rows : <<"mask", i>> \in overwritten' <=>
         IF mask = None \/ i - 1 \notin Bits(n) THEN <<"mask", i>> \in overwritten
         ELSE u # "column"
  BY <1>7, <1>12
<1>14. overwritten' \subseteq {"data", "mask"} \X {b + 1 : b \in Bits(MaxRows)}
  <2>1. rewritten \subseteq {b + 1 : b \in Bits(MaxRows)}
    BY <1>5, <1>8
  <2>2. rows \subseteq {b + 1 : b \in Bits(MaxRows)}
    <3> SUFFICES ASSUME NEW i \in Rows PROVE i \in {b + 1 : b \in Bits(MaxRows)}
      BY <1>3
    <3>1. MaxRows \in Nat /\ i \in 1 .. MaxRows /\ i = (i - 1) + 1
      BY ChunkAssumption DEF Rows
    <3>2. i - 1 \in Bits(MaxRows)
      BY <3>1, BitsCover
    <3> QED
      BY <3>1, <3>2
  <2> DEFINE H == {b + 1 : b \in Bits(MaxRows)}
  <2> HIDE DEF H
  <2>3. rewritten \subseteq H /\ rows \subseteq H /\ overwritten \subseteq {"data", "mask"} \X H
    BY <1>4, <2>1, <2>2 DEF H
  <2>4. overwritten' \subseteq {"data", "mask"} \X H
    BY <1>7, <2>3
  <2> QED
    BY <2>4 DEF H
<1>15. Written(vs, v, u, nativeData, nativeBits, overwritten,
               nativeData', nativeBits', overwritten')
  BY <1>9, <1>10, <1>11, <1>13, <1>14 DEF Written, rows, mask, n
<1> QED
  BY <1>15
Cleaned(vs, v) == [vs EXCEPT ![v].dirty = @ \ 1 .. vs[v].count]

(* The rows not flushed once vector v has been.                            *)
StillUnflushed(v, un) == IF v = "column" THEN {} ELSE un

(* A flush keeps the invariant.                                            *)
LEMMA FlushedKeeps ==
  ASSUME NEW vs, NEW w, NEW th, NEW un, NEW ow, NEW ch, NEW data, NEW bits,
         VectorsInv(vs, w, th, un, ow, ch, data, bits), NEW v \in DOMAIN vs,
         NEW u, u = MaskOwner(vs, v), NEW newData, NEW newBits, NEW newOw,
         Written(vs, v, u, data, bits, ow, newData, newBits, newOw),
         NEW out, out = Cleaned(vs, v),
         NEW newUn, newUn = StillUnflushed(v, un)
  PROVE  VectorsInv(out, w, th, newUn, newOw, ch, newData, newBits)
<1> DEFINE c == vs["column"]
           d == out["column"]
           s == vs["slice"]
           t == out["slice"]
           mask == vs[u].bits
<1>1. /\ Shape(vs) /\ Keeps(vs, w, th, un) /\ Publishes(vs, w, th, un, ow, data, bits)
      /\ "slice" \in DOMAIN vs => Agree(vs, ch)
      /\ "slice" \notin DOMAIN vs => th = {}
  BY DEF VectorsInv
<1>2. /\ "column" \in DOMAIN vs /\ v \in {"column", "slice"} /\ c.offset = 0 /\ ~c.shares
  BY <1>1 DEF Shape
<1>3. /\ c.count \in 0 .. MaxRows /\ c.bits \in Masks(c.count) /\ c.dirty \in SUBSET Rows
      /\ c.items \in [1 .. c.count -> Memory] /\ c.cache \in Caches /\ WellFormed(c)
      /\ MaxRows \in Nat /\ c.count \in Nat
  BY <1>1, <1>2, ShapeTypes, ChunkAssumption
<1>4. DirtyChanged(out, vs, v, vs[v].dirty \ 1 .. vs[v].count) /\ Shape(out)
  <2>1. PICK x : x = vs[v].dirty \ 1 .. vs[v].count
    OBVIOUS
  <2>2. vs[v].dirty \in SUBSET Rows /\ WellFormed(vs[v])
    BY <1>1, ShapeTypes
  <2>3. x \in SUBSET Rows /\ \A i \in x : vs[v].cache[i] # None
    BY <2>1, <2>2 DEF WellFormed
  <2>4. out = [vs EXCEPT ![v].dirty = x]
    BY <2>1 DEF Cleaned
  <2>5. DirtyChanged(out, vs, v, x) /\ Shape(out)
    BY <1>1, <2>3, <2>4, DirtyShape
  <2> QED
    BY <2>1, <2>5
<1>5. /\ DOMAIN out = DOMAIN vs
      /\ d.count = c.count /\ d.items = c.items /\ d.bits = c.bits /\ d.cache = c.cache
      /\ v # "column" => d.dirty = c.dirty
      /\ "slice" \in DOMAIN vs =>
           /\ t.offset = s.offset /\ t.count = s.count /\ t.shares = s.shares
           /\ t.items = s.items /\ t.bits = s.bits /\ t.cache = s.cache
  BY <1>2, <1>4 DEF DirtyChanged, OnlyChanges, SameButDirty
<1>u. newUn = IF v = "column" THEN {} ELSE un
  BY DEF StillUnflushed
<1>6. \A i : Active(out, w, th, i) <=> Active(vs, w, th, i)
  BY <1>1, <1>5 DEF Active
<1>7. /\ \A i \in Rows : newData[i] =
           IF i \notin Targets(vs, v) THEN data[i]
           ELSE IF kind = "strings" THEN vs[v].cache[i - vs[v].offset] ELSE Stored(vs, v, i)
      /\ \A b \in Bits(MaxRows) : Valid(newBits, b) <=>
           IF mask = None \/ b \notin Bits(vs[u].count) THEN Valid(bits, b) ELSE Valid(mask, b)
      /\ \A i \in Rows : <<"data", i>> \in newOw <=>
           IF i \in Targets(vs, v) THEN v # "column" ELSE <<"data", i>> \in ow
      /\ \A i \in Rows : <<"mask", i>> \in newOw <=>
           IF mask = None \/ i - 1 \notin Bits(vs[u].count) THEN <<"mask", i>> \in ow
           ELSE u # "column"
  BY DEF Written
<1>8. Keeps(out, w, th, newUn)
  <2> SUFFICES ASSUME NEW i \in 1 .. d.count, Active(out, w, th, i)
               PROVE  /\ Valid(d.bits, i - 1) <=> w[i] # Null
                      /\ d.cache[i] \in {None, w[i]}
                      /\ d.cache[i] = None /\ w[i] # Null => d.items[i] = w[i]
                      /\ kind = "strings" /\ i \in newUn => i \in d.dirty
    BY DEF Keeps
  <2>1. i \in 1 .. c.count /\ Active(vs, w, th, i)
    BY <1>5, <1>6
  <2>2. /\ Valid(c.bits, i - 1) <=> w[i] # Null
        /\ c.cache[i] \in {None, w[i]}
        /\ c.cache[i] = None /\ w[i] # Null => c.items[i] = w[i]
        /\ kind = "strings" /\ i \in un => i \in c.dirty
    BY <1>1, <2>1 DEF Keeps
  <2> QED
    BY <1>5, <1>u, <2>2
<1>9. ASSUME NEW i \in 1 .. c.count
      PROVE  /\ Active(vs, w, th, i) /\ i \notin newUn =>
                  /\ <<"data", i>> \notin newOw /\ w[i] # Null => newData[i] = w[i]
                  /\ <<"mask", i>> \notin newOw => (Valid(newBits, i - 1) <=> w[i] # Null)
             /\ c.bits = None /\ <<"mask", i>> \notin newOw => Valid(newBits, i - 1)
  <2>1. i \in Rows /\ i - 1 \in Bits(c.count) /\ i - 1 \in Bits(MaxRows) /\ i \in Nat
    <3>1. i \in Rows /\ i \in Nat
      BY <1>3 DEF Rows
    <3> QED
      BY <1>3, <3>1, BitsCover DEF Rows
  <2>2. /\ Active(vs, w, th, i) /\ i \notin un =>
             /\ <<"data", i>> \notin ow /\ w[i] # Null => data[i] = w[i]
             /\ <<"mask", i>> \notin ow => (Valid(bits, i - 1) <=> w[i] # Null)
        /\ c.bits = None /\ <<"mask", i>> \notin ow => Valid(bits, i - 1)
    BY <1>1 DEF Publishes
  <2>3. Active(vs, w, th, i) =>
          /\ Valid(c.bits, i - 1) <=> w[i] # Null
          /\ c.cache[i] \in {None, w[i]}
          /\ c.cache[i] = None /\ w[i] # Null => c.items[i] = w[i]
          /\ kind = "strings" /\ i \in un => i \in c.dirty
    BY <1>1 DEF Keeps
  <2>4. /\ newData[i] =
             IF i \notin Targets(vs, v) THEN data[i]
             ELSE IF kind = "strings" THEN vs[v].cache[i - vs[v].offset] ELSE Stored(vs, v, i)
        /\ Valid(newBits, i - 1) <=>
             IF mask = None \/ i - 1 \notin Bits(vs[u].count) THEN Valid(bits, i - 1)
             ELSE Valid(mask, i - 1)
        /\ <<"data", i>> \in newOw <=>
             IF i \in Targets(vs, v) THEN v # "column" ELSE <<"data", i>> \in ow
        /\ <<"mask", i>> \in newOw <=>
             IF mask = None \/ i - 1 \notin Bits(vs[u].count) THEN <<"mask", i>> \in ow
             ELSE u # "column"
    BY <1>7, <2>1
  <2>5. ASSUME v = "column", Active(vs, w, th, i), <<"data", i>> \notin newOw, w[i] # Null
        PROVE  newData[i] = w[i]
    <3>1. CASE kind # "strings"
      <4>1. i \in Targets(vs, v) /\ Stored(vs, v, i) = c.items[i]
        BY <1>2, <2>1, <2>5, <3>1 DEF Targets, Stored
      <4>2. c.cache[i] = None
        BY <1>3, <2>1, <3>1 DEF WellFormed
      <4> QED
        BY <2>3, <2>4, <2>5, <3>1, <4>1, <4>2
    <3>2. CASE kind = "strings" /\ i \in c.dirty
      <4>1. c.cache[i] = w[i]
        BY <1>3, <2>3, <2>5, <3>2 DEF WellFormed
      <4>2. i \in Targets(vs, v) /\ i - c.offset = i
        <5>1. c.offset + i = i /\ i - c.offset = i
          BY <1>2, <2>1
        <5> QED
          BY <2>5, <3>2, <4>1, <5>1 DEF Targets
      <4> QED
        BY <2>4, <2>5, <3>2, <4>1, <4>2
    <3>3. CASE kind = "strings" /\ i \notin c.dirty
      <4>1. i \notin Targets(vs, v)
        <5>1. \A j \in 1 .. c.count : c.offset + j = j
          BY <1>2, <1>3
        <5> QED
          BY <2>5, <3>3, <5>1 DEF Targets
      <4>2. i \notin un
        BY <2>3, <2>5, <3>3
      <4> QED
        BY <2>2, <2>4, <2>5, <4>1, <4>2
    <3> QED
      BY <3>1, <3>2, <3>3
  <2>6. ASSUME v # "column", Active(vs, w, th, i), i \notin un, <<"data", i>> \notin newOw,
               w[i] # Null
        PROVE  newData[i] = w[i]
    BY <2>2, <2>4, <2>6
  <2>7. ASSUME u = "column"
        PROVE  /\ Active(vs, w, th, i) /\ i \notin newUn /\ <<"mask", i>> \notin newOw =>
                    (Valid(newBits, i - 1) <=> w[i] # Null)
               /\ c.bits = None /\ <<"mask", i>> \notin newOw => Valid(newBits, i - 1)
    <3>1. c.bits = None => Valid(c.bits, i - 1)
      BY DEF Valid
    <3> QED
      BY <1>u, <2>1, <2>2, <2>3, <2>4, <2>7, <3>1
  <2>8. ASSUME u # "column"
        PROVE  /\ Active(vs, w, th, i) /\ i \notin newUn /\ <<"mask", i>> \notin newOw =>
                    (Valid(newBits, i - 1) <=> w[i] # Null)
               /\ c.bits = None /\ <<"mask", i>> \notin newOw => Valid(newBits, i - 1)
    <3>1. v # "column"
      BY <1>2, <2>8 DEF MaskOwner
    <3> QED
      BY <1>u, <2>2, <2>4, <2>8, <3>1
  <2> QED
    BY <1>u, <2>5, <2>6, <2>7, <2>8
<1>10. Publishes(out, w, th, newUn, newOw, newData, newBits)
  BY <1>5, <1>6, <1>9 DEF Publishes
<1>11. ASSUME "slice" \in DOMAIN out PROVE Agree(out, ch)
  <2>1. /\ "slice" \in DOMAIN vs /\ Agree(vs, ch)
        /\ t.offset = s.offset /\ t.count = s.count /\ t.shares = s.shares
        /\ t.items = s.items /\ t.bits = s.bits /\ t.cache = s.cache
    BY <1>1, <1>5, <1>11
  <2>2. \A k, row : AgreeIn(s, c, k, row) => AgreeIn(t, d, k, row)
    BY <1>5, <2>1 DEF AgreeIn, Raw
  <2> QED
    BY <2>1, <2>2 DEF Agree
<1> QED
  BY <1>1, <1>4, <1>5, <1>8, <1>10, <1>11 DEF VectorsInv

LEMMA FlushKeeps ==
  ASSUME ChunkTypes, NEW vs, NEW w, NEW th, NEW un, NEW ch,
         VectorsInv(vs, w, th, un, overwritten, ch, nativeData, nativeBits),
         NEW v \in DOMAIN vs, Flush(vs, v),
         NEW newUn, newUn = StillUnflushed(v, un)
  PROVE  /\ VectorsInv(vectors', w, th, newUn, overwritten', ch, nativeData', nativeBits')
         /\ nativeData' \in [Rows -> Memory] /\ nativeBits' \in Masks(MaxRows)
         /\ overwritten' \subseteq {"data", "mask"} \X {b + 1 : b \in Bits(MaxRows)}
<1>1. PICK u : u = MaskOwner(vs, v)
  OBVIOUS
<1>2. Shape(vs)
  BY DEF VectorsInv
<1>3. Written(vs, v, u, nativeData, nativeBits, overwritten,
              nativeData', nativeBits', overwritten')
  BY <1>1, <1>2, FlushWrites
<1>4. vectors' = Cleaned(vs, v)
  BY DEF Flush, Cleaned
<1>5. VectorsInv(vectors', w, th, newUn, overwritten', ch, nativeData', nativeBits')
  <2>1. PICK data, bits, ow : data = nativeData /\ bits = nativeBits /\ ow = overwritten
    OBVIOUS
  <2>2. PICK newData, newBits, newOw, out :
          newData = nativeData' /\ newBits = nativeBits' /\ newOw = overwritten' /\ out = vectors'
    OBVIOUS
  <2>3. /\ VectorsInv(vs, w, th, un, ow, ch, data, bits) /\ v \in DOMAIN vs
        /\ Written(vs, v, u, data, bits, ow, newData, newBits, newOw)
        /\ out = Cleaned(vs, v)
        /\ newUn = StillUnflushed(v, un)
    BY <1>3, <1>4, <2>1, <2>2
  <2>4. VectorsInv(out, w, th, newUn, newOw, ch, newData, newBits)
    BY ONLY <1>1, <2>3, FlushedKeeps
  <2> QED
    BY <2>2, <2>4
<1> QED
  BY <1>3, <1>5 DEF Written
-----------------------------------------------------------------------------
(* What getItem returns: the column always has a bit for the row.          *)
LEMMA ColumnItem ==
  ASSUME Shape(vectors), NEW i \in 1 .. vectors["column"].count
  PROVE  LET c == vectors["column"]
         IN Item("column", i) = IF c.cache[i] # None THEN c.cache[i] ELSE Raw(c, i)
<1> DEFINE c == vectors["column"]
<1>1. "column" \in DOMAIN vectors /\ c.offset = 0 /\ ~c.shares
  BY DEF Shape
<1>2. c.count \in 0 .. MaxRows /\ c.bits \in Masks(c.count) /\ c.count \in Nat
  BY <1>1, ShapeTypes, ChunkAssumption
<1>3. c.offset + i = i /\ c.offset + i - 1 = i - 1 /\ i - 1 \in Bits(c.count)
  BY <1>1, <1>2, BitsCover
<1>4. Stored(vectors, "column", i) = c.items[i] /\ BitOf(c, i) = i - 1
      /\ MaskOwner(vectors, "column") = "column"
  BY <1>1, <1>3 DEF Stored, BitOf, MaskOwner
<1>5. c.bits # None => DOMAIN c.bits = Bits(c.count)
  BY <1>2, MaskDomain
<1> QED
  BY <1>3, <1>4, <1>5 DEF Item, Raw, Valid

LEMMA SliceItem ==
  ASSUME Shape(vectors), "slice" \in DOMAIN vectors, NEW i \in 1 .. vectors["slice"].count,
         NEW row, row = vectors["slice"].offset + i
  PROVE  LET c == vectors["column"]
             s == vectors["slice"]
             mask == IF s.shares THEN c.bits ELSE s.bits
             stored == IF kind = "view" THEN c.items[row] ELSE s.items[i]
         IN /\ BitOf(s, i) = row - 1
            /\ s.shares => c.bits = None \/ row - 1 \in DOMAIN c.bits
            /\ Item("slice", i) =
                 IF s.cache[i] # None THEN s.cache[i]
                 ELSE IF mask # None /\ row - 1 \notin DOMAIN mask THEN "throws"
                 ELSE IF Valid(mask, row - 1) THEN stored ELSE Null
<1> DEFINE c == vectors["column"]
           s == vectors["slice"]
<1>1. BitOf(s, i) = row - 1
  <2>1. s.offset \in Nat /\ s.count \in Nat /\ i \in Nat
    BY SliceRow
  <2> QED
    BY <2>1 DEF BitOf
<1>2. MaskOwner(vectors, "slice") = IF s.shares THEN "column" ELSE "slice"
  BY DEF MaskOwner
<1>3. Stored(vectors, "slice", i) = IF kind = "view" THEN c.items[row] ELSE s.items[i]
  BY DEF Stored
<1>4. c.bits = None \/ row - 1 \in DOMAIN c.bits
  <2>1. "column" \in DOMAIN vectors
    BY DEF Shape
  <2>2. c.count \in 0 .. MaxRows /\ c.bits \in Masks(c.count)
    BY <2>1, ShapeTypes
  <2>3. row - 1 \in Bits(c.count)
    BY SliceRow
  <2> QED
    BY <2>2, <2>3, MaskDomain
<1> QED
  BY <1>1, <1>2, <1>3, <1>4 DEF Item, Valid

(* A string that getItem keeps is the one the column, or the slice, has.   *)
LEMMA GetItemKeeps ==
  ASSUME NEW w, NEW th, NEW un, NEW ow, NEW ch, NEW data, NEW bits,
         VectorsInv(vectors, w, th, un, ow, ch, data, bits), kind = "strings",
         NEW v \in DOMAIN vectors, NEW i \in 1 .. vectors[v].count, vectors[v].cache[i] = None,
         Item(v, i) # "throws", NEW out, out = [vectors EXCEPT ![v].cache[i] = Item(v, i)]
  PROVE  VectorsInv(out, w, th, un, ow, ch, data, bits)
<1> DEFINE c == vectors["column"]
           d == out["column"]
           s == vectors["slice"]
           t == out["slice"]
<1>1. /\ Shape(vectors) /\ Keeps(vectors, w, th, un)
      /\ Publishes(vectors, w, th, un, ow, data, bits)
      /\ "slice" \in DOMAIN vectors => Agree(vectors, ch)
      /\ "slice" \notin DOMAIN vectors => th = {}
  BY DEF VectorsInv
<1>2. /\ "column" \in DOMAIN vectors /\ v \in {"column", "slice"}
      /\ c.count \in 0 .. MaxRows /\ c.items \in [1 .. c.count -> Memory]
      /\ vectors[v].count \in 0 .. MaxRows /\ MaxRows \in Nat /\ i \in Rows
      /\ vectors[v].items \in [1 .. vectors[v].count -> Memory]
  <2>1. "column" \in DOMAIN vectors /\ v \in {"column", "slice"}
    BY <1>1 DEF Shape
  <2>2. /\ c.count \in 0 .. MaxRows /\ c.items \in [1 .. c.count -> Memory]
        /\ vectors[v].count \in 0 .. MaxRows /\ MaxRows \in Nat
        /\ vectors[v].items \in [1 .. vectors[v].count -> Memory]
    BY <1>1, <2>1, ShapeTypes, ChunkAssumption
  <2> QED
    BY <2>1, <2>2 DEF Rows
<1>3. PICK x : x = Item(v, i)
  OBVIOUS
<1>4. v = "column" => x = Raw(c, i)
  BY <1>1, <1>3, ColumnItem
<1>5. ASSUME v = "slice"
      PROVE  LET row == s.offset + i
                 mask == IF s.shares THEN c.bits ELSE s.bits
             IN /\ x = IF Valid(mask, row - 1) THEN s.items[i] ELSE Null
                /\ mask = None \/ row - 1 \in DOMAIN mask
  <2>1. PICK row : row = s.offset + i
    OBVIOUS
  <2>2. LET mask == IF s.shares THEN c.bits ELSE s.bits
            stored == IF kind = "view" THEN c.items[row] ELSE s.items[i]
        IN Item("slice", i) =
             IF s.cache[i] # None THEN s.cache[i]
             ELSE IF mask # None /\ row - 1 \notin DOMAIN mask THEN "throws"
             ELSE IF Valid(mask, row - 1) THEN stored ELSE Null
    BY <1>1, <1>5, <2>1, SliceItem
  <2>3. kind # "view" /\ s.cache[i] = None /\ Item("slice", i) # "throws" /\ x = Item("slice", i)
    BY <1>3, <1>5
  <2> QED
    BY <2>1, <2>2, <2>3
<1>6. x \in Memory \cup {Null}
  <2>1. CASE v = "column"
    BY <1>2, <1>4, <2>1 DEF Raw
  <2>2. CASE v = "slice"
    BY <1>2, <1>5, <2>2
  <2> QED
    BY <1>2, <2>1, <2>2
<1>7. CacheChanged(out, vectors, v, i, x)
  <2>1. out = [vectors EXCEPT ![v].cache[i] = x]
    BY <1>3
  <2> QED
    BY <1>1, <1>2, <1>6, <2>1, CacheIn
<1>8. /\ DOMAIN out = DOMAIN vectors
      /\ d.offset = c.offset /\ d.count = c.count /\ d.items = c.items /\ d.bits = c.bits
      /\ d.shares = c.shares /\ d.dirty = c.dirty
      /\ \A j \in Rows : ~(v = "column" /\ j = i) => d.cache[j] = c.cache[j]
      /\ v = "column" => d.cache[i] = x
      /\ "slice" \in DOMAIN vectors =>
           /\ t.offset = s.offset /\ t.count = s.count /\ t.shares = s.shares
           /\ t.items = s.items /\ t.bits = s.bits
           /\ \A j \in Rows : ~(v = "slice" /\ j = i) => t.cache[j] = s.cache[j]
      /\ v = "slice" => t.cache[i] = x
  BY <1>2, <1>7 DEF CacheChanged, OnlyChanges, SameButCache
<1>9. Shape(out)
  <2>1. /\ OnlyChanges(out, vectors, v) /\ SameButCache(out[v], vectors[v])
        /\ out[v].cache[i] = x
        /\ \A j \in Rows : j # i => out[v].cache[j] = vectors[v].cache[j]
    BY <1>7 DEF CacheChanged
  <2>2. WellFormed(vectors[v]) /\ (vectors[v].shares => vectors[v].bits = None)
    BY <1>1 DEF Shape
  <2>3. x # None
    BY <1>6, ChunkAssumption DEF Memory
  <2>4. WellFormed(out[v])
    <3>1. vectors[v].dirty \in SUBSET Rows
      BY <1>1, ShapeTypes
    <3> QED
      BY <2>1, <2>2, <2>3, <3>1 DEF WellFormed, SameButCache
  <2>5. /\ out[v].offset = vectors[v].offset /\ out[v].count = vectors[v].count
        /\ out[v].shares = vectors[v].shares /\ out[v].bits = vectors[v].bits
    BY <2>1 DEF SameButCache
  <2> QED
    BY <1>1, <2>1, <2>2, <2>4, <2>5, ShapeKept
<1>10. \A j : Active(out, w, th, j) <=> Active(vectors, w, th, j)
  BY <1>1, <1>8 DEF Active
<1>11. Keeps(out, w, th, un)
  <2> SUFFICES ASSUME NEW j \in 1 .. d.count, Active(out, w, th, j)
               PROVE  /\ Valid(d.bits, j - 1) <=> w[j] # Null
                      /\ d.cache[j] \in {None, w[j]}
                      /\ d.cache[j] = None /\ w[j] # Null => d.items[j] = w[j]
                      /\ kind = "strings" /\ j \in un => j \in d.dirty
    BY DEF Keeps
  <2>1. /\ Valid(c.bits, j - 1) <=> w[j] # Null
        /\ c.cache[j] \in {None, w[j]}
        /\ c.cache[j] = None /\ w[j] # Null => c.items[j] = w[j]
        /\ kind = "strings" /\ j \in un => j \in c.dirty
    BY <1>1, <1>8, <1>10 DEF Keeps
  <2>2. j \in Rows
    BY <1>2, <1>8 DEF Rows
  <2>3. CASE v = "column" /\ j = i
    <3>1. c.cache[j] = None /\ x = w[j]
      BY <1>4, <2>1, <2>3 DEF Raw
    <3> QED
      BY <1>8, <2>1, <2>3, <3>1
  <2>4. CASE ~(v = "column" /\ j = i)
    BY <1>8, <2>1, <2>2, <2>4
  <2> QED
    BY <2>3, <2>4
<1>12. Publishes(out, w, th, un, ow, data, bits)
  BY <1>1, <1>8, <1>10 DEF Publishes
<1>13. ASSUME "slice" \in DOMAIN out PROVE Agree(out, ch)
  <2>0. "slice" \in DOMAIN vectors
    BY <1>8, <1>13
  <2> SUFFICES ASSUME NEW k \in 1 .. t.count, t.offset + k \notin ch
               PROVE  AgreeIn(t, d, k, t.offset + k)
    BY DEF Agree
  <2>1. PICK row : row = s.offset + k
    OBVIOUS
  <2>2. /\ k \in 1 .. s.count /\ row \notin ch /\ t.offset + k = row
    BY <1>8, <2>0, <2>1
  <2>3. row \in Rows /\ k \in Rows
    BY <1>1, <2>0, <2>1, <2>2, SliceRow
  <2>4. AgreeIn(s, c, k, row)
    BY <1>1, <2>0, <2>1, <2>2 DEF Agree
  <2>5. Raw(d, row) = Raw(c, row)
    BY <1>8 DEF Raw
  <2>6. d.cache[row] \in {None, Raw(c, row)}
    <3>1. CASE v = "column" /\ row = i
      BY <1>4, <1>8, <3>1
    <3>2. CASE ~(v = "column" /\ row = i)
      BY <1>8, <2>3, <2>4, <3>2 DEF AgreeIn
    <3> QED
      BY <3>1, <3>2
  <2>7. t.cache[k] \in {None, Raw(c, row)}
    <3>1. CASE v = "slice" /\ k = i
      <4>1. s.items[k] = c.items[row]
        BY <2>4 DEF AgreeIn
      <4>2. CASE s.shares
        <5>1. x = IF Valid(c.bits, row - 1) THEN s.items[k] ELSE Null
          BY <1>5, <2>1, <3>1, <4>2
        <5> QED
          BY <1>8, <3>1, <4>1, <5>1 DEF Raw
      <4>3. CASE ~s.shares
        <5>1. x = IF Valid(s.bits, row - 1) THEN s.items[k] ELSE Null
          BY <1>5, <2>1, <3>1, <4>3
        <5>2. s.bits = None \/ row - 1 \in DOMAIN s.bits
          BY <1>5, <2>1, <3>1, <4>3
        <5>3. Valid(c.bits, row - 1) /\ Valid(s.bits, row - 1)
          BY <2>4, <4>3, <5>2 DEF AgreeIn, Valid
        <5> QED
          BY <1>8, <3>1, <4>1, <5>1, <5>3 DEF Raw
      <4> QED
        BY <4>2, <4>3
    <3>2. CASE ~(v = "slice" /\ k = i)
      BY <1>8, <2>0, <2>3, <2>4, <3>2 DEF AgreeIn
    <3> QED
      BY <3>1, <3>2
  <2>8. AgreeIn(t, d, k, row)
    BY <1>8, <2>0, <2>4, <2>5, <2>6, <2>7 DEF AgreeIn
  <2> QED
    BY <2>2, <2>8
<1> QED
  BY <1>1, <1>8, <1>9, <1>11, <1>12, <1>13 DEF VectorsInv
(* The vector of a chunk whose column has not been used has what the       *)
(* native vector has.                                                      *)
LEMMA RawVectorRecord ==
  ASSUME ChunkTypes, NEW n \in 0 .. MaxRows, NEW r, r = RawVector(n)
  PROVE  /\ r \in VectorRecords /\ WellFormed(r)
         /\ r.offset = 0 /\ r.count = n /\ ~r.shares /\ r.dirty = {}
         /\ \A i \in Rows : r.cache[i] = None
         /\ \A i \in 1..n : r.items[i] = nativeData[i]
         /\ r.bits = None <=> nativeBits = None
         /\ \A b \in Bits(n) : Valid(r.bits, b) <=> Valid(nativeBits, b)
<1> DEFINE items == [i \in 1..n |-> nativeData[i]]
           mask == IF nativeBits = None THEN None ELSE [b \in Bits(n) |-> nativeBits[b]]
           cache == [i \in Rows |-> None]
<1>1. /\ MaxRows \in Nat /\ nativeData \in [Rows -> Memory] /\ nativeBits \in Masks(MaxRows)
      /\ 1..n \subseteq Rows /\ MaxRows \in 0 .. MaxRows
  BY ChunkAssumption DEF ChunkTypes, Rows
<1>2. Bits(n) \subseteq Bits(MaxRows)
  BY BitsWithin
<1>3. /\ r.offset = 0 /\ r.count = n /\ r.items = items /\ r.bits = mask /\ r.shares = FALSE
      /\ r.cache = cache /\ r.dirty = {}
      /\ r = [offset |-> r.offset, count |-> r.count, items |-> r.items, bits |-> r.bits,
              shares |-> r.shares, cache |-> r.cache, dirty |-> r.dirty]
  BY DEF RawVector
<1>4. items \in [1..n -> Memory] /\ items \in ItemArrays /\ cache \in Caches
  <2>1. items \in [1..n -> Memory]
    BY <1>1
  <2>2. cache \in Caches
    BY DEF Caches
  <2> HIDE DEF items
  <2> QED
    BY <2>1, <2>2 DEF ItemArrays
<1>5. /\ mask \in Masks(n) /\ (mask = None <=> nativeBits = None)
      /\ \A b \in Bits(n) : Valid(mask, b) <=> Valid(nativeBits, b)
  <2>1. CASE nativeBits = None
    BY <2>1 DEF Masks, Valid
  <2>2. CASE nativeBits # None
    <3>1. nativeBits \in [Bits(MaxRows) -> BOOLEAN]
      BY <1>1, <2>2, MaskDomain
    <3>2. mask = [b \in Bits(n) |-> nativeBits[b]]
      BY <2>2
    <3>3. mask \in [Bits(n) -> BOOLEAN] /\ \A b \in Bits(n) : mask[b] = nativeBits[b]
      BY <1>2, <3>1, <3>2
    <3>4. mask # None
      BY <3>3, MaskAssumption
    <3> HIDE DEF mask
    <3> QED
      BY <2>2, <3>3, <3>4 DEF Masks, Valid
  <2> QED
    BY <2>1, <2>2
<1>6. mask \in UNION {Masks(k) : k \in 0 .. MaxRows}
  BY <1>5
<1>7. \A i \in 1..n : items[i] = nativeData[i]
  OBVIOUS
<1>8. \A i \in Rows : cache[i] = None
  OBVIOUS
<1> HIDE DEF items, mask, cache
<1>9. r \in VectorRecords
  <2>1. /\ r.offset \in 0 .. MaxRows /\ r.count \in 0 .. MaxRows /\ r.items \in ItemArrays
        /\ r.bits \in UNION {Masks(k) : k \in 0 .. MaxRows} /\ r.shares \in BOOLEAN
        /\ r.cache \in Caches /\ r.dirty \in SUBSET Rows
    <3>1. r.offset \in 0 .. MaxRows /\ r.count \in 0 .. MaxRows /\ r.dirty \in SUBSET Rows
      BY <1>1, <1>3
    <3>2. r.shares \in BOOLEAN
      BY <1>3
    <3>3. r.items \in ItemArrays /\ r.cache \in Caches
      BY <1>3, <1>4
    <3>4. r.bits \in UNION {Masks(k) : k \in 0 .. MaxRows}
      BY ONLY <1>3, <1>6
    <3> QED
      BY ONLY <3>1, <3>2, <3>3, <3>4
  <2> QED
    BY <1>3, <2>1 DEF VectorRecords
<1>10. WellFormed(r)
  BY <1>3, <1>4, <1>5, <1>8 DEF WellFormed
<1> QED
  BY <1>3, <1>5, <1>7, <1>8, <1>9, <1>10

LEMMA WithColumnInv ==
  ASSUME ChunkInv, NEW n \in 0 .. MaxRows
  PROVE  VectorsInv(WithColumn(n), want, through, unflushed, overwritten, changed,
                    nativeData, nativeBits)
<1>1. CASE VectorsInv(vectors, want, through, unflushed, overwritten, changed,
                      nativeData, nativeBits)
  <2>1. "column" \in DOMAIN vectors
    BY <1>1 DEF VectorsInv, Shape
  <2> QED
    BY <1>1, <2>1 DEF WithColumn
<1>2. CASE Unused
  <2>1. PICK r : r = RawVector(n)
    OBVIOUS
  <2>2. PICK vs : vs = [v \in {"column"} |-> r]
    OBVIOUS
  <2>3. WithColumn(n) = vs
    BY <1>2, <2>1, <2>2 DEF WithColumn, Unused
  <2>4. DOMAIN vs = {"column"} /\ vs["column"] = r
    BY <2>2
  <2>5. ChunkTypes
    BY DEF ChunkInv
  <2>6. /\ r \in VectorRecords /\ WellFormed(r)
        /\ r.offset = 0 /\ r.count = n /\ ~r.shares /\ r.dirty = {}
        /\ \A i \in Rows : r.cache[i] = None
        /\ \A i \in 1..n : r.items[i] = nativeData[i]
        /\ r.bits = None <=> nativeBits = None
        /\ \A b \in Bits(n) : Valid(r.bits, b) <=> Valid(nativeBits, b)
    BY <2>1, <2>5, RawVectorRecord
  <2>7. Shape(vs)
    BY <2>2, <2>4, <2>6 DEF Shape
  <2>8. ASSUME NEW i \in 1..n
        PROVE  /\ i \in Rows /\ i - 1 \in Bits(n)
               /\ Valid(r.bits, i - 1) <=> Valid(nativeBits, i - 1)
               /\ want[i] # None =>
                    /\ Valid(nativeBits, i - 1) <=> want[i] # Null
                    /\ want[i] # Null => nativeData[i] = want[i]
    <3>1. i \in Rows /\ i - 1 \in Bits(n)
      BY ChunkAssumption, BitsCover DEF Rows
    <3>2. want[i] \in {None, Native(i)}
      BY <1>2, <3>1 DEF Unused
    <3>3. nativeData[i] # Null
      <4>1. nativeData[i] \in Memory
        BY <2>5, <3>1 DEF ChunkTypes
      <4> QED
        BY <4>1, ChunkAssumption DEF Memory
    <3> QED
      BY <2>6, <3>1, <3>2, <3>3 DEF Native, Valid
  <2>9. /\ \A i : Active(vs, want, through, i) => want[i] # None
        /\ through = {} /\ unflushed = {} /\ overwritten = {}
    BY <1>2 DEF Unused, Active
  <2>10. Keeps(vs, want, through, unflushed)
    <3> SUFFICES ASSUME NEW i \in 1 .. n, Active(vs, want, through, i)
                 PROVE  /\ Valid(r.bits, i - 1) <=> want[i] # Null
                        /\ r.cache[i] \in {None, want[i]}
                        /\ r.cache[i] = None /\ want[i] # Null => r.items[i] = want[i]
                        /\ kind = "strings" /\ i \in unflushed => i \in r.dirty
      BY <2>4, <2>6 DEF Keeps
    <3> QED
      BY <2>6, <2>8, <2>9
  <2>11. Publishes(vs, want, through, unflushed, overwritten, nativeData, nativeBits)
    <3> SUFFICES ASSUME NEW i \in 1 .. n
                 PROVE  /\ Active(vs, want, through, i) /\ i \notin unflushed =>
                             /\ <<"data", i>> \notin overwritten /\ want[i] # Null =>
                                  nativeData[i] = want[i]
                             /\ <<"mask", i>> \notin overwritten =>
                                  (Valid(nativeBits, i - 1) <=> want[i] # Null)
                        /\ r.bits = None /\ <<"mask", i>> \notin overwritten =>
                             Valid(nativeBits, i - 1)
      BY <2>4, <2>6 DEF Publishes
    <3>1. r.bits = None => Valid(nativeBits, i - 1)
      BY <2>6 DEF Valid
    <3> QED
      BY <2>8, <2>9, <3>1
  <2>12. "slice" \notin DOMAIN vs
    BY <2>4
  <2> QED
    BY <2>3, <2>7, <2>9, <2>10, <2>11, <2>12 DEF VectorsInv
<1> QED
  BY <1>1, <1>2 DEF ChunkInv

-----------------------------------------------------------------------------
(* A new slice agrees with the column, except that it does not have the    *)
(* strings the column has staged.                                          *)
LEMMA SliceKeeps ==
  ASSUME ChunkInv, NEW offset \in 0 .. MaxRows - 1, NEW count \in Rows,
         Slice(offset, count)
  PROVE  VectorsInv(vectors', want, through, unflushed, overwritten, changed',
                    nativeData, nativeBits)
<1> DEFINE c == vectors["column"]
           items == [i \in 1 .. count |-> c.items[offset + i]]
           cache == [i \in Rows |-> None]
<1>1. DOMAIN vectors = {"column"} /\ offset + count <= c.count
  BY DEF Slice, Made
<1>2. VectorsInv(vectors, want, through, unflushed, overwritten, changed, nativeData, nativeBits)
  BY <1>1 DEF ChunkInv, Unused
<1>3. /\ Shape(vectors) /\ Keeps(vectors, want, through, unflushed)
      /\ Publishes(vectors, want, through, unflushed, overwritten, nativeData, nativeBits)
      /\ through = {}
  BY <1>1, <1>2 DEF VectorsInv
<1>4. /\ "column" \in DOMAIN vectors /\ c \in VectorRecords /\ WellFormed(c)
      /\ c.offset = 0 /\ ~c.shares /\ c.count \in 0 .. MaxRows
      /\ c.items \in [1 .. c.count -> Memory] /\ c.cache \in Caches
  <2>1. "column" \in DOMAIN vectors /\ c.offset = 0 /\ ~c.shares
    BY <1>3 DEF Shape
  <2> QED
    BY <1>3, <2>1, ShapeTypes
<1>5. MaxRows \in Nat /\ offset \in 0 .. MaxRows /\ count \in 0 .. MaxRows
  BY ChunkAssumption DEF Rows
<1>6. PICK s : s = [offset |-> offset, count |-> count, items |-> items,
                    bits |-> None, shares |-> c.bits # None, cache |-> cache, dirty |-> {}]
  OBVIOUS
<1>7. PICK out : out = vectors'
  OBVIOUS
<1>8. out = [v \in {"column", "slice"} |-> IF v = "slice" THEN s ELSE c]
  BY <1>6, <1>7 DEF Slice
<1>9. DOMAIN out = {"column", "slice"} /\ out["column"] = c /\ out["slice"] = s
  BY <1>8
<1>10. \A i \in 1 .. count : offset + i \in 1 .. c.count /\ offset + i \in Rows
  BY <1>1, <1>4, <1>5 DEF Rows
<1>11. items \in [1 .. count -> Memory] /\ items \in ItemArrays /\ cache \in Caches
  <2>1. items \in [1 .. count -> Memory]
    BY <1>4, <1>10
  <2>2. cache \in Caches
    BY DEF Caches
  <2> HIDE DEF items
  <2> QED
    BY <1>5, <2>1, <2>2 DEF ItemArrays
<1>12. s \in VectorRecords /\ WellFormed(s)
  <2>1. /\ s.offset = offset /\ s.count = count /\ s.items = items /\ s.bits = None
        /\ s.shares \in BOOLEAN /\ s.cache = cache /\ s.dirty = {}
    BY <1>6
  <2>2. None \in UNION {Masks(n) : n \in 0 .. MaxRows} /\ None \in Masks(count)
    BY <1>5 DEF Masks
  <2>3. \A i \in Rows : cache[i] = None
    OBVIOUS
  <2> HIDE DEF items, cache
  <2>4. s \in VectorRecords
    BY <1>5, <1>6, <1>11, <2>1, <2>2 DEF VectorRecords
  <2> QED
    BY <1>11, <2>1, <2>2, <2>3, <2>4 DEF WellFormed
<1>13. /\ s.offset = offset /\ s.count = count /\ s.bits = None
       /\ s.shares <=> c.bits # None
       /\ \A i \in 1 .. count : s.items[i] = c.items[offset + i]
       /\ \A i \in Rows : s.cache[i] = None
  BY <1>6
<1>14. Shape(out)
  <2>1. out \in [DOMAIN out -> VectorRecords]
    BY <1>4, <1>8, <1>12
  <2> QED
    BY <1>1, <1>4, <1>9, <1>12, <1>13, <2>1 DEF Shape
<1>15. \A i : Active(out, want, through, i) <=> Active(vectors, want, through, i)
  BY <1>3 DEF Active
<1>16. Keeps(out, want, through, unflushed)
  BY <1>3, <1>9, <1>15 DEF Keeps
<1>17. Publishes(out, want, through, unflushed, overwritten, nativeData, nativeBits)
  BY <1>3, <1>9, <1>15 DEF Publishes
<1>18. Agree(out, changed')
  <2> SUFFICES ASSUME NEW k \in 1 .. count, offset + k \notin changed'
               PROVE  AgreeIn(s, c, k, offset + k)
    BY <1>9, <1>13 DEF Agree
  <2>1. PICK row : row = offset + k
    OBVIOUS
  <2>2. row \in Rows /\ k \in Rows
    BY <1>5, <1>10, <2>1 DEF Rows
  <2>3. s.items[k] = c.items[row] /\ s.cache[k] = None
    BY <1>13, <2>1, <2>2
  <2>4. c.cache[row] = None
    <3>1. CASE kind = "strings"
      BY <2>1, <2>2, <3>1 DEF Slice
    <3>2. CASE kind # "strings"
      BY <1>4, <2>2, <3>2 DEF WellFormed
    <3> QED
      BY <3>1, <3>2
  <2>5. ~s.shares => Valid(c.bits, row - 1)
    BY <1>13 DEF Valid
  <2>6. AgreeIn(s, c, k, row)
    BY <1>13, <2>3, <2>4, <2>5 DEF AgreeIn
  <2> QED
    BY <2>1, <2>6
<1>19. VectorsInv(out, want, through, unflushed, overwritten, changed', nativeData, nativeBits)
  BY <1>3, <1>9, <1>14, <1>16, <1>17, <1>18 DEF VectorsInv
<1> QED
  BY <1>7, <1>19

(* After a reset nothing is known of the rows, and all of them are valid.  *)
LEMMA ResetKeeps ==
  ASSUME NEW vs, NEW w, NEW th, NEW un, NEW ow, NEW ch, NEW data, NEW bits,
         VectorsInv(vs, w, th, un, ow, ch, data, bits),
         NEW newWant, newWant = [i \in Rows |-> None]
  PROVE  VectorsInv(vs, newWant, {}, {}, {}, ch, data, None)
<1>1. Shape(vs) /\ ("slice" \in DOMAIN vs => Agree(vs, ch))
  BY DEF VectorsInv
<1>2. "column" \in DOMAIN vs
  BY <1>1 DEF Shape
<1>3. vs["column"].count \in 0 .. MaxRows
  BY <1>1, <1>2, ShapeTypes
<1>4. ASSUME NEW i \in 1 .. vs["column"].count PROVE ~Active(vs, newWant, {}, i)
  <2>1. i \in Rows
    BY <1>3, ChunkAssumption DEF Rows
  <2> QED
    BY <2>1 DEF Active
<1>5. Keeps(vs, newWant, {}, {})
  BY <1>4 DEF Keeps
<1>6. Publishes(vs, newWant, {}, {}, {}, data, None)
  BY <1>4 DEF Publishes, Valid
<1> QED
  BY <1>1, <1>5, <1>6 DEF VectorsInv
-----------------------------------------------------------------------------
(* The steps keep the invariant.                                           *)
VectorsNow == VectorsInv(vectors, want, through, unflushed, overwritten, changed,
                         nativeData, nativeBits)

LEMMA ChunkInvOfVectors ==
  ASSUME ChunkTypes', VectorsNow'
  PROVE  ChunkInv'
  BY DEF VectorsNow, ChunkInv

LEMMA MadeVectors ==
  ASSUME ChunkInv, NEW v \in Made
  PROVE  VectorsNow /\ v \in DOMAIN vectors /\ v \in {"column", "slice"} /\ Shape(vectors)
         /\ vectors[v].count \in Nat
<1>1. v \in DOMAIN vectors
  BY DEF Made
<1>2. ~Unused
  BY <1>1 DEF Unused
<1>3. VectorsNow
  BY <1>2 DEF ChunkInv, VectorsNow
<1>4. Shape(vectors)
  BY <1>3 DEF VectorsNow, VectorsInv
<1>5. v \in {"column", "slice"}
  BY <1>1, <1>4 DEF Shape
<1>6. vectors[v].count \in 0 .. MaxRows
  BY <1>1, <1>4, ShapeTypes
<1> QED
  BY <1>1, <1>3, <1>4, <1>5, <1>6, ChunkAssumption

LEMMA ChunkInitInv == ChunkInit => ChunkInv
<1> SUFFICES ASSUME ChunkInit PROVE ChunkInv
  OBVIOUS
<1>1. nativeBits \in Masks(MaxRows)
  BY DEF ChunkInit, Masks
<1>2. /\ kind \in Kinds /\ created \in BOOLEAN /\ size \in 0 .. MaxRows
      /\ nativeData \in [Rows -> Memory] /\ calls \in 0 .. MaxCalls
  BY ChunkAssumption DEF ChunkInit, Memory
<1>3. want = [i \in Rows |-> IF created \/ i > size THEN None ELSE Native(i)]
      /\ vectors = <<>> /\ through = {} /\ unflushed = {} /\ overwritten = {} /\ changed = {}
  BY DEF ChunkInit
<1>4. ASSUME NEW i \in Rows PROVE want[i] \in {None, Native(i)}
  BY <1>3
<1>5. ASSUME NEW i \in Rows PROVE want[i] \in Data \cup {Null, None}
  <2>1. nativeData[i] = Junk <=> created \/ i > size \/ Native(i) = Null
    BY DEF ChunkInit
  <2>2. nativeData[i] \in Data \cup {Junk}
    BY <1>2 DEF Memory
  <2>3. CASE created \/ i > size
    BY <1>3, <2>3
  <2>4. CASE ~(created \/ i > size)
    <3>1. want[i] = Native(i)
      BY <1>3, <2>4
    <3>2. Native(i) \in {nativeData[i], Null}
      BY DEF Native
    <3> QED
      BY <2>1, <2>2, <2>4, <3>1, <3>2
  <2> QED
    BY <2>3, <2>4
<1>6. ChunkTypes
  <2>1. want \in [Rows -> Data \cup {Null, None}]
    BY <1>3, <1>5
  <2> QED
    BY <1>1, <1>2, <1>3, <2>1 DEF ChunkTypes
<1>7. Unused
  BY <1>3, <1>4 DEF Unused
<1> QED
  BY <1>6, <1>7 DEF ChunkInv

LEMMA GetColumnVectorStep == ChunkInv /\ GetColumnVector => ChunkInv'
<1> SUFFICES ASSUME ChunkInv, GetColumnVector PROVE ChunkInv'
  OBVIOUS
<1>1. size \in 0 .. MaxRows /\ ChunkTypes
  BY DEF ChunkInv, ChunkTypes
<1>2. PICK n \in 0 .. MaxRows : n = size
  BY <1>1
<1>3. VectorsInv(WithColumn(n), want, through, unflushed, overwritten, changed,
                 nativeData, nativeBits)
  BY WithColumnInv
<1>4. /\ vectors' = WithColumn(n)
      /\ UNCHANGED <<kind, created, size, nativeVector, history, calls>>
  BY <1>2 DEF GetColumnVector
<1>5. UNCHANGED <<nativeData, nativeBits, want, through, unflushed, overwritten, changed>>
  BY <1>4 DEF nativeVector, history
<1>6. VectorsNow'
  BY <1>3, <1>4, <1>5 DEF VectorsNow, VectorsInv, Shape, Keeps, Publishes, Agree,
       AgreeIn, Active, Raw, WellFormed
<1>7. ChunkTypes'
  BY <1>1, <1>4, <1>5 DEF ChunkTypes
<1> QED
  BY <1>6, <1>7, ChunkInvOfVectors
LEMMA VectorsNext ==
  ASSUME kind' = kind,
         VectorsInv(vectors', want', through', unflushed', overwritten', changed',
                    nativeData', nativeBits')
  PROVE  VectorsNow'
BY DEF VectorsNow, VectorsInv, Shape, Keeps, Publishes, Agree, AgreeIn, Active, Raw, WellFormed

LEMMA GetItemStep ==
  ASSUME ChunkInv, NEW v \in Made, NEW i \in Rows, GetItem(v, i)
  PROVE  ChunkInv'
<1>1. VectorsNow /\ v \in DOMAIN vectors /\ vectors[v].count \in Nat
  BY MadeVectors
<1>2. /\ i <= vectors[v].count /\ kind = "strings" /\ vectors[v].cache[i] = None
      /\ Item(v, i) # "throws" /\ vectors' = [vectors EXCEPT ![v].cache[i] = Item(v, i)]
      /\ UNCHANGED <<kind, created, size, nativeVector, history, calls>>
  BY DEF GetItem
<1>3. i \in 1 .. vectors[v].count
  BY <1>1, <1>2 DEF Rows
<1>4. UNCHANGED <<nativeData, nativeBits, want, through, unflushed, overwritten, changed>>
  BY <1>2 DEF nativeVector, history
<1>5. VectorsInv(vectors', want, through, unflushed, overwritten, changed, nativeData, nativeBits)
  <2>1. PICK w, th, un, ow, ch, data, bits, out :
          /\ w = want /\ th = through /\ un = unflushed /\ ow = overwritten /\ ch = changed
          /\ data = nativeData /\ bits = nativeBits /\ out = vectors'
    OBVIOUS
  <2>2. VectorsInv(vectors, w, th, un, ow, ch, data, bits)
    BY <1>1, <2>1 DEF VectorsNow
  <2>3. kind = "strings" /\ vectors[v].cache[i] = None /\ Item(v, i) # "throws"
        /\ out = [vectors EXCEPT ![v].cache[i] = Item(v, i)]
    BY <1>2, <2>1
  <2>4. VectorsInv(out, w, th, un, ow, ch, data, bits)
    BY ONLY <1>1, <1>3, <2>2, <2>3, GetItemKeeps
  <2> QED
    BY <2>1, <2>4
<1>6. VectorsNow'
  BY <1>2, <1>4, <1>5, VectorsNext
<1>7. ChunkTypes'
  BY <1>2, <1>4 DEF ChunkTypes, ChunkInv
<1> QED
  BY <1>6, <1>7, ChunkInvOfVectors

LEMMA OverwriteType ==
  ASSUME NEW w \in [Rows -> Data \cup {Null, None}], NEW inside, NEW x \in Data \cup {Null}
  PROVE  Overwrite(w, inside, x) \in [Rows -> Data \cup {Null, None}]
  BY DEF Overwrite

LEMMA SetItemStep ==
  ASSUME ChunkInv, NEW v \in Made, NEW i \in Rows, NEW x \in Data \cup {Null}, SetItem(v, i, x)
  PROVE  ChunkInv'
<1> DEFINE row == vectors[v].offset + i
           in == {j \in {row} : i <= vectors[v].count}
<1>1. /\ VectorsNow /\ v \in DOMAIN vectors /\ v \in {"column", "slice"} /\ Shape(vectors)
      /\ vectors[v].count \in Nat
  BY MadeVectors
<1>2. /\ v = "slice" => i <= vectors[v].count
      /\ calls < MaxCalls /\ calls' = calls + 1
      /\ vectors' = AfterSet(vectors, v, i, x).vs
      /\ UNCHANGED <<kind, created, size, nativeVector, overwritten>>
      /\ want' = [j \in Rows |-> IF j \in in THEN x ELSE want[j]]
      /\ through' = IF v = "slice" THEN through \cup in ELSE through \ in
      /\ unflushed' = unflushed \cup in
      /\ changed' = changed \cup in
  BY DEF SetItem, Call, Want
<1>3. PICK inside : inside = in
  OBVIOUS
<1>4. /\ want' = Overwrite(want, inside, x)
      /\ through' = IF v = "slice" THEN through \cup inside ELSE through \ inside
      /\ unflushed' = unflushed \cup inside /\ changed' = changed \cup inside
      /\ UNCHANGED <<nativeData, nativeBits>>
  BY <1>2, <1>3 DEF Overwrite, nativeVector
<1>5. PICK s, out : s = AfterSet(vectors, v, i, x) /\ out = s.vs
  OBVIOUS
<1>6. vectors' = out
  BY <1>2, <1>5
<1>7. /\ ChunkTypes /\ kind \in Kinds /\ want \in [Rows -> Data \cup {Null, None}]
  BY DEF ChunkInv, ChunkTypes
<1>8. PICK vs, w, th, un, ow, ch, data, bits :
        /\ vs = vectors
        /\ w = want /\ th = through /\ un = unflushed /\ ow = overwritten /\ ch = changed
        /\ data = nativeData /\ bits = nativeBits
  OBVIOUS
<1>9. VectorsInv(vs, w, th, un, ow, ch, data, bits) /\ Shape(vs)
  BY <1>1, <1>8 DEF VectorsNow
<1>10. ASSUME v = "column"
       PROVE  /\ inside \subseteq Rows
              /\ VectorsInv(vectors', want', through', unflushed', overwritten', changed',
                            nativeData', nativeBits')
  <2>1. vectors[v].offset = 0 /\ i \in Nat
    BY <1>1, <1>10 DEF Shape, Rows
  <2>2. inside = {i} \cap 1 .. vs["column"].count
    BY <1>1, <1>3, <1>8, <1>10, <2>1 DEF Rows
  <2>3. s = AfterSet(vs, "column", i, x)
    BY <1>5, <1>8, <1>10
  <2>4. Shape(s.vs) /\ ColumnSet(s.vs, s.ok, vs, i, x)
    BY <1>7, <1>9, <2>3, ColumnIsSet
  <2>5. PICK ok : ok = s.ok
    OBVIOUS
  <2>6. Shape(out) /\ ColumnSet(out, ok, vs, i, x) /\ i \in Rows /\ x \in Data \cup {Null}
    BY <1>5, <2>4, <2>5
  <2>7. VectorsInv(out, Overwrite(w, inside, x), th \ inside, un \cup inside, ow,
                   ch \cup inside, data, bits)
    BY ONLY <1>9, <2>2, <2>6, ColumnSetKeeps
  <2>8. VectorsInv(vectors', want', through', unflushed', overwritten', changed',
                   nativeData', nativeBits')
    BY <1>2, <1>4, <1>6, <1>8, <1>10, <2>7
  <2>9. inside \subseteq Rows
    BY <2>2
  <2> QED
    BY <2>8, <2>9
<1>11. ASSUME v = "slice"
       PROVE  /\ inside \subseteq Rows
              /\ VectorsInv(vectors', want', through', unflushed', overwritten', changed',
                            nativeData', nativeBits')
  <2>1. i \in 1 .. vs["slice"].count /\ "slice" \in DOMAIN vs
    BY <1>1, <1>2, <1>8, <1>11 DEF Rows
  <2>2. PICK r : r = vs["slice"].offset + i
    OBVIOUS
  <2>3. inside = {r} /\ r \in Rows
    <3>1. r \in Rows
      BY <1>9, <2>1, <2>2, SliceRow
    <3>2. inside = {r}
      BY <1>2, <1>3, <1>8, <1>11, <2>2
    <3> QED
      BY <3>1, <3>2
  <2>4. s = AfterSet(vs, "slice", i, x)
    BY <1>5, <1>8, <1>11
  <2>5. Shape(s.vs) /\ SliceSet(s.vs, vs, i, r, x)
    BY <1>7, <1>9, <2>1, <2>2, <2>4, SliceIsSet
  <2>6. Shape(out) /\ SliceSet(out, vs, i, r, x) /\ x \in Data \cup {Null}
    BY <1>5, <2>5
  <2>7. VectorsInv(out, Overwrite(w, {r}, x), th \cup {r}, un \cup {r}, ow, ch \cup {r},
                   data, bits)
    BY ONLY <1>9, <2>1, <2>2, <2>6, SliceSetKeeps
  <2>8. VectorsInv(vectors', want', through', unflushed', overwritten', changed',
                   nativeData', nativeBits')
    BY <1>2, <1>4, <1>6, <1>8, <1>11, <2>3, <2>7
  <2> QED
    BY <2>3, <2>8
<1>12. /\ inside \subseteq Rows
       /\ VectorsInv(vectors', want', through', unflushed', overwritten', changed',
                     nativeData', nativeBits')
  BY <1>1, <1>10, <1>11
<1>13. VectorsNow'
  BY <1>2, <1>12, VectorsNext
<1>14. ChunkTypes'
  <2>1. want' \in [Rows -> Data \cup {Null, None}]
    BY <1>4, <1>7, OverwriteType
  <2>2. calls' \in 0 .. MaxCalls
    BY <1>2, <1>7, ChunkAssumption DEF ChunkTypes
  <2>3. through' \subseteq Rows /\ unflushed' \subseteq Rows /\ changed' \subseteq Rows
    BY <1>4, <1>7, <1>12 DEF ChunkTypes
  <2> QED
    BY <1>2, <1>4, <1>7, <2>1, <2>2, <2>3 DEF ChunkTypes
<1> QED
  BY <1>13, <1>14, ChunkInvOfVectors

LEMMA FlushStep ==
  ASSUME ChunkInv, NEW v \in Made, FlushVector(v)
  PROVE  ChunkInv'
<1>1. VectorsNow /\ v \in DOMAIN vectors
  BY MadeVectors
<1>2. /\ Flush(vectors, v) /\ unflushed' = StillUnflushed(v, unflushed)
      /\ UNCHANGED <<kind, created, size, want, through, changed, calls>>
  BY DEF FlushVector, StillUnflushed
<1>3. ChunkTypes
  BY DEF ChunkInv
<1>4. PICK vs, w, th, un, ch, newUn :
        /\ vs = vectors /\ w = want /\ th = through /\ un = unflushed /\ ch = changed
        /\ newUn = unflushed'
  OBVIOUS
<1>5. /\ VectorsInv(vs, w, th, un, overwritten, ch, nativeData, nativeBits) /\ v \in DOMAIN vs
      /\ Flush(vs, v) /\ newUn = StillUnflushed(v, un)
  BY <1>1, <1>2, <1>4 DEF VectorsNow
<1>6. /\ VectorsInv(vectors', w, th, newUn, overwritten', ch, nativeData', nativeBits')
      /\ nativeData' \in [Rows -> Memory] /\ nativeBits' \in Masks(MaxRows)
      /\ overwritten' \subseteq {"data", "mask"} \X {b + 1 : b \in Bits(MaxRows)}
  BY ONLY <1>3, <1>5, FlushKeeps
<1>7. VectorsInv(vectors', want', through', unflushed', overwritten', changed',
                 nativeData', nativeBits')
  BY <1>2, <1>4, <1>6
<1>8. VectorsNow'
  BY <1>2, <1>7, VectorsNext
<1>9. ChunkTypes'
  BY <1>2, <1>3, <1>6 DEF ChunkTypes, StillUnflushed
<1> QED
  BY <1>8, <1>9, ChunkInvOfVectors
LEMMA SetRowsStep ==
  ASSUME ChunkInv, NEW n \in 0 .. MaxRows, NEW rows \in [1..n -> Data \cup {Null}],
         SetRows(rows)
  PROVE  ChunkInv'
<1> DEFINE in == 1 .. n \cap 1 .. WithColumn(n)["column"].count
<1>1. Len(rows) = n /\ n \in Nat
  BY ChunkAssumption
<1>2. PICK vs, a, inside : /\ vs = WithColumn(n) /\ a = AfterSetting(vs, rows)
                           /\ inside = 1 .. n \cap 1 .. vs["column"].count
  OBVIOUS
<1>3. /\ calls < MaxCalls /\ calls' = calls + 1
      /\ size' = n
      /\ want' = [i \in Rows |-> IF i \in inside THEN rows[i] ELSE want[i]]
      /\ through' = through \ inside
      /\ changed' = changed \cup inside
      /\ \/ a.ok /\ Flush(a.vs, "column") /\ unflushed' = {}
         \/ /\ ~a.ok /\ vectors' = a.vs
            /\ unflushed' = unflushed \cup inside
            /\ UNCHANGED <<nativeVector, overwritten>>
      /\ UNCHANGED <<kind, created>>
  BY <1>1, <1>2 DEF SetRows, Call
<1>4. /\ ChunkTypes /\ kind \in Kinds /\ want \in [Rows -> Data \cup {Null, None}]
      /\ MaxRows \in Nat
  BY ChunkAssumption DEF ChunkInv, ChunkTypes
<1>5. inside \subseteq Rows
  BY <1>2, <1>4 DEF Rows
<1>6. want' = Wanted(want, rows, inside)
  BY <1>3 DEF Wanted
<1>7. want' \in [Rows -> Data \cup {Null, None}]
  <2>1. ASSUME NEW i \in Rows PROVE (IF i \in inside THEN rows[i] ELSE want[i]) \in Data \cup {Null, None}
    <3>1. i \in inside => i \in 1 .. n
      BY <1>2
    <3> QED
      BY <1>4, <3>1
  <2> QED
    BY <1>3, <2>1
<1>8. PICK w, th, un, ch, out, w2, th2, un2, ch2 :
        /\ w = want /\ th = through /\ un = unflushed /\ ch = changed /\ out = a.vs
        /\ w2 = want' /\ th2 = through' /\ ch2 = changed' /\ un2 = unflushed \cup inside
  OBVIOUS
<1>9. VectorsInv(out, w2, th2, un2, overwritten, ch2, nativeData, nativeBits)
  <2>1. PICK ow, data, bits : ow = overwritten /\ data = nativeData /\ bits = nativeBits
    OBVIOUS
  <2>2. VectorsInv(vs, w, th, un, ow, ch, data, bits)
    BY <1>2, <1>8, <2>1, WithColumnInv
  <2>3. /\ kind \in Kinds /\ w \in [Rows -> Data \cup {Null, None}]
        /\ n \in 0 .. MaxRows /\ rows \in [1 .. n -> Data \cup {Null}]
        /\ inside = 1 .. n \cap 1 .. vs["column"].count
        /\ a = AfterSetting(vs, rows)
    BY <1>2, <1>4, <1>8
  <2>4. VectorsInv(a.vs, Wanted(w, rows, inside), th \ inside, un \cup inside, ow,
                   ch \cup inside, data, bits)
    BY ONLY <2>2, <2>3, SettingKeeps
  <2> QED
    BY <1>3, <1>6, <1>8, <2>1, <2>4
<1>10. ASSUME a.ok, Flush(a.vs, "column"), unflushed' = {}
       PROVE  ChunkInv'
  <2>1. Flush(out, "column") /\ "column" \in DOMAIN out
    BY <1>8, <1>9, <1>10 DEF VectorsInv, Shape
  <2>2. PICK newUn : newUn = StillUnflushed("column", un2)
    OBVIOUS
  <2>3. newUn = {}
    BY <2>2 DEF StillUnflushed
  <2>4. PICK v : v = "column"
    OBVIOUS
  <2>5. Flush(out, v) /\ v \in DOMAIN out /\ newUn = StillUnflushed(v, un2)
    BY <2>1, <2>2, <2>4
  <2>6. /\ VectorsInv(vectors', w2, th2, newUn, overwritten', ch2, nativeData', nativeBits')
        /\ nativeData' \in [Rows -> Memory] /\ nativeBits' \in Masks(MaxRows)
        /\ overwritten' \subseteq {"data", "mask"} \X {b + 1 : b \in Bits(MaxRows)}
    BY ONLY <1>4, <1>9, <2>5, FlushKeeps
  <2>7. VectorsInv(vectors', want', through', unflushed', overwritten', changed',
                   nativeData', nativeBits')
    BY <1>8, <1>10, <2>3, <2>6
  <2>8. VectorsNow'
    BY <1>3, <2>7, VectorsNext
  <2>9. ChunkTypes'
    <3>1. calls' \in 0 .. MaxCalls
      BY <1>3, <1>4, ChunkAssumption DEF ChunkTypes
    <3>2. /\ kind' \in Kinds /\ created' \in BOOLEAN /\ size' \in 0 .. MaxRows
          /\ through' \subseteq Rows /\ unflushed' \subseteq Rows /\ changed' \subseteq Rows
      BY <1>3, <1>4, <1>5, <1>10 DEF ChunkTypes
    <3> QED
      BY <1>7, <2>6, <3>1, <3>2 DEF ChunkTypes
  <2> QED
    BY <2>8, <2>9, ChunkInvOfVectors
<1>11. ASSUME vectors' = a.vs, unflushed' = unflushed \cup inside,
              UNCHANGED <<nativeVector, overwritten>>
       PROVE  ChunkInv'
  <2>1. UNCHANGED <<nativeData, nativeBits, overwritten>>
    BY <1>11 DEF nativeVector
  <2>2. VectorsInv(vectors', want', through', unflushed', overwritten', changed',
                   nativeData', nativeBits')
    BY <1>8, <1>9, <1>11, <2>1
  <2>3. VectorsNow'
    BY <1>3, <2>2, VectorsNext
  <2>4. ChunkTypes'
    <3>1. calls' \in 0 .. MaxCalls
      BY <1>3, <1>4, ChunkAssumption DEF ChunkTypes
    <3>2. /\ kind' \in Kinds /\ created' \in BOOLEAN /\ size' \in 0 .. MaxRows
          /\ through' \subseteq Rows /\ unflushed' \subseteq Rows /\ changed' \subseteq Rows
      BY <1>3, <1>4, <1>5, <1>11 DEF ChunkTypes
    <3>3. /\ nativeData' \in [Rows -> Memory] /\ nativeBits' \in Masks(MaxRows)
          /\ overwritten' \subseteq {"data", "mask"} \X {b + 1 : b \in Bits(MaxRows)}
      BY <1>4, <2>1 DEF ChunkTypes
    <3> QED
      BY <1>7, <3>1, <3>2, <3>3 DEF ChunkTypes
  <2> QED
    BY <2>3, <2>4, ChunkInvOfVectors
<1> QED
  BY <1>3, <1>10, <1>11

(* The row count of the chunk is all that these steps change.              *)
LEMMA RowCountStep ==
  ASSUME ChunkInv, NEW n \in 0 .. MaxRows, Call, size' = n,
         UNCHANGED <<kind, created, nativeVector, vectors, history>>
  PROVE  ChunkInv'
<1>1. UNCHANGED <<nativeData, nativeBits, want, through, unflushed, overwritten, changed>>
  BY DEF nativeVector, history
<1>2. calls' \in 0 .. MaxCalls
  BY ChunkAssumption DEF Call, ChunkInv, ChunkTypes
<1>3. ChunkTypes'
  BY <1>1, <1>2 DEF ChunkInv, ChunkTypes
<1>4. CASE Unused
  <2>1. Unused'
    BY <1>1, <1>4 DEF Unused, Native
  <2> QED
    BY <1>3, <2>1 DEF ChunkInv
<1>5. CASE VectorsNow
  <2>1. VectorsNow'
    BY <1>1, <1>5, VectorsNext DEF VectorsNow
  <2> QED
    BY <1>3, <2>1, ChunkInvOfVectors
<1> QED
  BY <1>4, <1>5 DEF ChunkInv, VectorsNow

LEMMA ResetStep ==
  ASSUME ChunkInv, Reset
  PROVE  ChunkInv'
<1>1. /\ Call /\ size' = 0 /\ nativeBits' = None
      /\ want' = [i \in Rows |-> None]
      /\ through' = {} /\ unflushed' = {} /\ overwritten' = {}
      /\ UNCHANGED <<kind, created, nativeData, vectors, changed>>
  BY DEF Reset
<1>2. calls' \in 0 .. MaxCalls /\ 0 \in 0 .. MaxRows
  BY <1>1, ChunkAssumption DEF Call, ChunkInv, ChunkTypes
<1>3. ChunkTypes'
  <2>1. want' \in [Rows -> Data \cup {Null, None}] /\ nativeBits' \in Masks(MaxRows)
    BY <1>1 DEF Masks
  <2> QED
    BY <1>1, <1>2, <2>1 DEF ChunkInv, ChunkTypes
<1>4. CASE Unused
  <2>1. Unused'
    BY <1>1, <1>4 DEF Unused
  <2> QED
    BY <1>3, <2>1 DEF ChunkInv
<1>5. CASE VectorsNow
  <2>1. VectorsInv(vectors, want', {}, {}, {}, changed, nativeData, None)
    <3>1. PICK vs, w, th, un, ow, ch, data, bits, newWant :
            /\ vs = vectors /\ w = want /\ th = through /\ un = unflushed /\ ow = overwritten
            /\ ch = changed /\ data = nativeData /\ bits = nativeBits /\ newWant = want'
      OBVIOUS
    <3>2. VectorsInv(vs, w, th, un, ow, ch, data, bits) /\ newWant = [i \in Rows |-> None]
      BY <1>1, <1>5, <3>1 DEF VectorsNow
    <3>3. VectorsInv(vs, newWant, {}, {}, {}, ch, data, None)
      BY ONLY <3>2, ResetKeeps
    <3> QED
      BY <3>1, <3>3
  <2>2. VectorsNow'
    BY <1>1, <2>1, VectorsNext
  <2> QED
    BY <1>3, <2>2, ChunkInvOfVectors
<1> QED
  BY <1>4, <1>5 DEF ChunkInv, VectorsNow

LEMMA SliceStep ==
  ASSUME ChunkInv, NEW offset \in 0 .. MaxRows - 1, NEW count \in Rows, Slice(offset, count)
  PROVE  ChunkInv'
<1>1. /\ Call
      /\ changed' = IF kind = "strings"
                    THEN {i \in Rows : vectors["column"].cache[i] # None} ELSE {}
      /\ UNCHANGED <<kind, created, size, nativeVector, want, through, unflushed, overwritten>>
  BY DEF Slice
<1>2. UNCHANGED <<nativeData, nativeBits>>
  BY <1>1 DEF nativeVector
<1>3. VectorsInv(vectors', want, through, unflushed, overwritten, changed', nativeData, nativeBits)
  BY SliceKeeps
<1>4. VectorsNow'
  BY <1>1, <1>2, <1>3, VectorsNext
<1>5. calls' \in 0 .. MaxCalls
  BY <1>1, ChunkAssumption DEF Call, ChunkInv, ChunkTypes
<1>6. ChunkTypes'
  BY <1>1, <1>2, <1>5 DEF ChunkInv, ChunkTypes
<1> QED
  BY <1>4, <1>6, ChunkInvOfVectors

LEMMA ChunkStep == ChunkInv /\ [ChunkNext]_chunkVars => ChunkInv'
<1> SUFFICES ASSUME ChunkInv, [ChunkNext]_chunkVars PROVE ChunkInv'
  OBVIOUS
<1>1. CASE GetColumnVector
  BY <1>1, GetColumnVectorStep
<1>2. ASSUME NEW v \in Made, NEW i \in Rows, GetItem(v, i) PROVE ChunkInv'
  BY <1>2, GetItemStep
<1>3. ASSUME NEW v \in Made, NEW i \in Rows, NEW x \in Data \cup {Null}, SetItem(v, i, x)
      PROVE  ChunkInv'
  BY <1>3, SetItemStep
<1>4. ASSUME NEW v \in Made, FlushVector(v) PROVE ChunkInv'
  BY <1>4, FlushStep
<1>5. ASSUME NEW n \in 0 .. MaxRows, NEW rows \in [1..n -> Data \cup {Null}], SetRows(rows)
      PROVE  ChunkInv'
  BY <1>5, SetRowsStep
<1>6. ASSUME NEW n \in 0 .. MaxRows, SetColumnsRefused(n) PROVE ChunkInv'
  BY <1>6, RowCountStep DEF SetColumnsRefused
<1>7. ASSUME NEW n \in 0 .. MaxRows, SetRowCount(n) PROVE ChunkInv'
  BY <1>7, RowCountStep DEF SetRowCount
<1>8. CASE Reset
  BY <1>8, ResetStep
<1>9. ASSUME NEW offset \in 0 .. MaxRows - 1, NEW count \in Rows, Slice(offset, count)
      PROVE  ChunkInv'
  BY <1>9, SliceStep
<1>10. CASE UNCHANGED chunkVars
  <2>1. UNCHANGED <<kind, created, size, nativeData, nativeBits, vectors, want, through,
                    unflushed, overwritten, changed, calls>>
    BY <1>10 DEF chunkVars, nativeVector, history
  <2>2. ChunkTypes'
    BY <2>1 DEF ChunkInv, ChunkTypes
  <2>3. CASE Unused
    <3>1. Unused'
      BY <2>1, <2>3 DEF Unused, Native
    <3> QED
      BY <2>2, <3>1 DEF ChunkInv
  <2>4. CASE VectorsNow
    <3>1. VectorsNow'
      BY <2>1, <2>4, VectorsNext DEF VectorsNow
    <3> QED
      BY <2>2, <3>1, ChunkInvOfVectors
  <2> QED
    BY <2>3, <2>4 DEF ChunkInv, VectorsNow
<1> QED
  BY <1>1, <1>2, <1>3, <1>4, <1>5, <1>6, <1>7, <1>8, <1>9, <1>10 DEF ChunkNext
-----------------------------------------------------------------------------
(* What the invariant says.                                                *)
LEMMA ChunkInvTypes == ChunkInv => ChunkTypeOK
<1> SUFFICES ASSUME ChunkInv PROVE ChunkTypeOK
  OBVIOUS
<1>1. ChunkTypes
  BY DEF ChunkInv
<1>2. Made \subseteq {"column", "slice"}
  <2>1. CASE Unused
    BY <2>1 DEF Unused, Made
  <2>2. CASE VectorsNow
    <3>1. DOMAIN vectors \in {{"column"}, {"column", "slice"}}
      BY <2>2 DEF VectorsNow, VectorsInv, Shape
    <3> QED
      BY <3>1 DEF Made
  <2> QED
    BY <2>1, <2>2 DEF ChunkInv, VectorsNow
<1>3. ASSUME NEW v \in Made
      PROVE  LET r == vectors[v]
             IN  /\ r.offset + r.count \in 0 .. MaxRows
                 /\ r.items \in [1 .. r.count -> Data \cup {Junk}]
                 /\ r.bits \in Masks(r.count)
                 /\ r.cache \in [Rows -> Data \cup {Junk, Null, None}]
                 /\ r.dirty \subseteq Rows
  <2>1. /\ VectorsNow /\ v \in DOMAIN vectors /\ v \in {"column", "slice"} /\ Shape(vectors)
    BY MadeVectors
  <2>2. /\ vectors[v].offset \in 0 .. MaxRows /\ vectors[v].count \in 0 .. MaxRows
        /\ vectors[v].items \in [1 .. vectors[v].count -> Memory]
        /\ vectors[v].bits \in Masks(vectors[v].count)
        /\ vectors[v].cache \in Caches /\ vectors[v].dirty \in SUBSET Rows
    BY <2>1, ShapeTypes
  <2>3. vectors[v].offset + vectors[v].count \in 0 .. MaxRows
    <3>1. "column" \in DOMAIN vectors
      BY <2>1 DEF Shape
    <3>2. vectors["column"].count \in 0 .. MaxRows /\ MaxRows \in Nat
      BY <2>1, <3>1, ShapeTypes, ChunkAssumption
    <3>3. v = "column" => vectors[v].offset = 0
      BY <2>1 DEF Shape
    <3>4. v = "slice" => vectors[v].offset + vectors[v].count <= vectors["column"].count
      BY <2>1 DEF Shape
    <3> QED
      BY <2>1, <2>2, <3>2, <3>3, <3>4
  <2>4. vectors[v].cache \in [Rows -> Data \cup {Junk, Null, None}]
    BY <2>2 DEF Caches, Memory
  <2> QED
    BY <2>2, <2>3, <2>4 DEF Memory
<1> QED
  BY <1>1, <1>2, <1>3 DEF ChunkTypes, ChunkTypeOK, Memory

LEMMA ColumnRead == ChunkInv => ColumnKeepsWhatWasSet
<1> SUFFICES ASSUME ChunkInv, "column" \in Made,
                    NEW i \in 1 .. vectors["column"].count,
                    want[i] # None, ~(i \in through /\ ~Aliased)
             PROVE  /\ Item("column", i) = want[i]
                    /\ \/ i \in unflushed \/ <<"data", i>> \in overwritten
                       \/ <<"mask", i>> \in overwritten \/ Native(i) = want[i]
  BY DEF ColumnKeepsWhatWasSet
<1> DEFINE c == vectors["column"]
<1>1. VectorsNow /\ Shape(vectors)
  BY MadeVectors
<1>2. /\ Keeps(vectors, want, through, unflushed)
      /\ Publishes(vectors, want, through, unflushed, overwritten, nativeData, nativeBits)
  BY <1>1 DEF VectorsNow, VectorsInv
<1>3. Active(vectors, want, through, i)
  BY DEF Active, Aliased
<1>4. /\ Valid(c.bits, i - 1) <=> want[i] # Null
      /\ c.cache[i] \in {None, want[i]}
      /\ c.cache[i] = None /\ want[i] # Null => c.items[i] = want[i]
  BY <1>2, <1>3 DEF Keeps
<1>5. i \notin unflushed =>
        /\ <<"data", i>> \notin overwritten /\ want[i] # Null => nativeData[i] = want[i]
        /\ <<"mask", i>> \notin overwritten => (Valid(nativeBits, i - 1) <=> want[i] # Null)
  BY <1>2, <1>3 DEF Publishes
<1>6. Item("column", i) = IF c.cache[i] # None THEN c.cache[i] ELSE Raw(c, i)
  BY <1>1, ColumnItem
<1>7. Item("column", i) = want[i]
  BY <1>4, <1>6 DEF Raw
<1>8. Native(i) = IF Valid(nativeBits, i - 1) THEN nativeData[i] ELSE Null
  BY DEF Native, Valid
<1> QED
  BY <1>5, <1>7, <1>8

LEMMA SliceRead == ChunkInv => SlicesAliasOrSnapshot
<1> SUFFICES ASSUME ChunkInv, "slice" \in Made, NEW i \in 1 .. vectors["slice"].count,
                    NEW row, row = vectors["slice"].offset + i,
                    row \notin changed \/ Aliased,
                    vectors["slice"].bits = None
                      \/ BitOf(vectors["slice"], i) \in DOMAIN vectors["slice"].bits
             PROVE  Item("slice", i) = Item("column", row)
  BY DEF SlicesAliasOrSnapshot
<1> DEFINE c == vectors["column"]
           s == vectors["slice"]
<1>1. VectorsNow /\ Shape(vectors) /\ "slice" \in DOMAIN vectors
  BY MadeVectors DEF Made
<1>2. row \in 1 .. c.count /\ row \in Rows /\ i \in Rows
  BY <1>1, SliceRow
<1>3. Item("column", row) = IF c.cache[row] # None THEN c.cache[row] ELSE Raw(c, row)
  BY <1>1, <1>2, ColumnItem
<1>4. LET mask == IF s.shares THEN c.bits ELSE s.bits
          stored == IF kind = "view" THEN c.items[row] ELSE s.items[i]
      IN /\ BitOf(s, i) = row - 1
         /\ s.shares => c.bits = None \/ row - 1 \in DOMAIN c.bits
         /\ Item("slice", i) =
              IF s.cache[i] # None THEN s.cache[i]
              ELSE IF mask # None /\ row - 1 \notin DOMAIN mask THEN "throws"
              ELSE IF Valid(mask, row - 1) THEN stored ELSE Null
  BY <1>1, SliceItem
<1>5. CASE Aliased
  <2>1. kind = "view" /\ s.shares
    BY <1>5 DEF Aliased
  <2>2. s.cache[i] = None /\ c.cache[row] = None
    BY <1>1, <1>2, <2>1 DEF Shape, WellFormed
  <2> QED
    BY <1>3, <1>4, <2>1, <2>2 DEF Raw
<1>6. CASE row \notin changed
  <2>1. AgreeIn(s, c, i, row)
    BY <1>1, <1>6 DEF VectorsNow, VectorsInv, Agree
  <2>2. Item("column", row) = Raw(c, row)
    BY <1>3, <2>1 DEF AgreeIn
  <2>3. CASE s.shares
    <3>1. kind # "view" => s.items[i] = c.items[row]
      BY <2>1 DEF AgreeIn
    <3>2. s.cache[i] \in {None, Raw(c, row)}
      BY <2>1 DEF AgreeIn
    <3> QED
      BY <1>4, <2>2, <2>3, <3>1, <3>2 DEF Raw
  <2>4. CASE ~s.shares
    <3>1. kind # "view" => s.items[i] = c.items[row]
      BY <2>1 DEF AgreeIn
    <3>2. s.cache[i] \in {None, Raw(c, row)} /\ Valid(c.bits, row - 1)
      BY <2>1, <2>4 DEF AgreeIn
    <3>3. s.bits = None \/ row - 1 \in DOMAIN s.bits
      BY <1>4
    <3>4. Valid(s.bits, row - 1)
      BY <2>1, <2>4, <3>3 DEF AgreeIn, Valid
    <3> QED
      BY <1>4, <2>2, <2>4, <3>1, <3>2, <3>3, <3>4 DEF Raw
  <2> QED
    BY <2>3, <2>4
<1> QED
  BY <1>5, <1>6

-----------------------------------------------------------------------------
(* The copies, the caches and the native vector stay well-formed: a slice  *)
(* lies within its column, a mask has the words its vector's rows need.    *)
THEOREM ChunkTypeCorrect == ChunkSpec => []ChunkTypeOK
<1>1. ChunkInit => ChunkInv
  BY ChunkInitInv
<1>2. ChunkInv /\ [ChunkNext]_chunkVars => ChunkInv'
  BY ChunkStep
<1>3. ChunkInv => ChunkTypeOK
  BY ChunkInvTypes
<1> QED
  BY <1>1, <1>2, <1>3, PTL DEF ChunkSpec

(* setItem, setRows and flush: a row set inside the column vector reads as *)
(* it was last set and, once flushed, so it is in the native vector.       *)
THEOREM ColumnCorrect == ChunkSpec => []ColumnKeepsWhatWasSet
<1>1. ChunkInit => ChunkInv
  BY ChunkInitInv
<1>2. ChunkInv /\ [ChunkNext]_chunkVars => ChunkInv'
  BY ChunkStep
<1>3. ChunkInv => ColumnKeepsWhatWasSet
  BY ColumnRead
<1> QED
  BY <1>1, <1>2, <1>3, PTL DEF ChunkSpec

(* slice: the rows of a slice are the column's, or as they were when it    *)
(* was cut.                                                                *)
THEOREM SliceCorrect == ChunkSpec => []SlicesAliasOrSnapshot
<1>1. ChunkInit => ChunkInv
  BY ChunkInitInv
<1>2. ChunkInv /\ [ChunkNext]_chunkVars => ChunkInv'
  BY ChunkStep
<1>3. ChunkInv => SlicesAliasOrSnapshot
  BY SliceRead
<1> QED
  BY <1>1, <1>2, <1>3, PTL DEF ChunkSpec

=============================================================================
