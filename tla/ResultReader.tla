---------------------------- MODULE ResultReader ----------------------------
(***************************************************************************)
(* DuckDBResultReader: reads the chunks of one result into memory, on      *)
(* demand, and finds rows in them.                                         *)
(*                                                                         *)
(* readAll and readUntil may be called while other reads of the same       *)
(* reader are under way.  Each read fetches a chunk synchronously and      *)
(* awaits the promise that carries it; the continuations run in the order  *)
(* of the fetches, because every fetch takes the same number of turns of   *)
(* the microtask queue.  What libduckdb will deliver is the sequence       *)
(* source, the number of rows of each chunk; a chunk is known by its index *)
(* in source, and NoChunk stands for the NULL that libduckdb returns at the*)
(* end of the data and, just the same, when a streaming result has failed. *)
(***************************************************************************)
EXTENDS Naturals, Sequences, SequencesExt

CONSTANTS
  Reads,      \* calls of readAll and readUntil
  Sizes,      \* numbers of rows a chunk may have
  MaxChunks,  \* bound on the number of chunks of the result
  MaxTarget   \* bound on the target row count of a readUntil

ASSUME ReaderAssumption ==
  /\ Sizes \subseteq Nat \ {0}
  /\ MaxChunks \in Nat
  /\ MaxTarget \in Nat

VARIABLES
  source,          \* the rows of each chunk the result has
  streaming,       \* whether the result is computed while it is read
  broken,          \* whether the stream has failed
  fetched,         \* the number of chunks libduckdb has handed out
  pc,              \* where each read is
  target,          \* the target row count of each read, or Everything
  fetches,         \* the fetches that reads await, oldest first
  chunks,          \* the chunks read, by their index in source
  chunkSizeRuns,   \* the same chunks as runs of equal sizes
  currentRowCount, \* the number of rows read
  done             \* whether reading is done

native == <<source, streaming, broken, fetched>>
reader == <<chunks, chunkSizeRuns, currentRowCount, done>>
vars == <<native, pc, target, fetches, reader>>

-----------------------------------------------------------------------------
NoChunk == 0

Everything == MaxTarget + 1

Init ==
  /\ source \in BoundedSeq(Sizes, MaxChunks)
  /\ streaming \in BOOLEAN
  /\ broken = FALSE
  /\ fetched = 0
  /\ pc = [r \in Reads |-> "idle"]
  /\ target = [r \in Reads |-> Everything]
  /\ fetches = <<>>
  /\ chunks = <<>>
  /\ chunkSizeRuns = <<>>
  /\ currentRowCount = 0
  /\ done = FALSE

(* Mutant: one row less will do.                                           *)
EnoughOffByOne(goal, rows, isDone) ==
  \/ isDone
  \/ goal # Everything /\ rows + 1 >= goal

(* The condition of the loop in fetchChunks.                               *)
Enough(goal, rows, isDone) ==
  \/ isDone
  \/ goal # Everything /\ rows >= goal

(* Read r stops, or takes the next chunk from libduckdb and awaits it.     *)
SettleOrFetch(r, waiting) ==
  IF Enough(target'[r], currentRowCount', done')
  THEN /\ pc' = [pc EXCEPT ![r] = "settled"]
       /\ fetches' = waiting
       /\ UNCHANGED fetched
  ELSE /\ pc' = [pc EXCEPT ![r] = "fetching"]
       /\ IF fetched < Len(source) /\ ~broken
          THEN /\ fetched' = fetched + 1
               /\ fetches' = Append(waiting, [read |-> r, chunk |-> fetched + 1])
          ELSE /\ fetches' = Append(waiting, [read |-> r, chunk |-> NoChunk])
               /\ UNCHANGED fetched

(* readAll and readUntil, up to their first await.                         *)
StartRead(r) ==
  /\ pc[r] = "idle"
  /\ \E goal \in 0..Everything : target' = [target EXCEPT ![r] = goal]
  /\ UNCHANGED reader
  /\ SettleOrFetch(r, fetches)
  /\ UNCHANGED <<source, streaming, broken>>

(* Mutant: the row count of a longer run is not brought up to date.        *)
RunRowsForgotten(runs, rows) ==
  IF runs # <<>> /\ Last(runs).chunkSize = rows
  THEN Front(runs) \o <<[Last(runs) EXCEPT !.chunkCount = @ + 1]>>
  ELSE Append(runs, [chunkCount |-> 1, chunkSize |-> rows, rowCount |-> rows])

(* updateChunkSizeRuns: lengthen the last run, or begin a new one.         *)
WithChunk(runs, rows) ==
  IF runs # <<>> /\ Last(runs).chunkSize = rows
  THEN Front(runs) \o <<[Last(runs) EXCEPT !.chunkCount = @ + 1,
                                           !.rowCount = @ + rows]>>
  ELSE Append(runs, [chunkCount |-> 1, chunkSize |-> rows, rowCount |-> rows])

(* Mutant: a chunk that arrives when the read needs no more is dropped.    *)
DropWhenEnough(r, chunk) ==
  IF chunk # NoChunk /\ ~Enough(target[r], currentRowCount, done)
  THEN /\ chunks' = Append(chunks, chunk)
       /\ chunkSizeRuns' = WithChunk(chunkSizeRuns, source[chunk])
       /\ currentRowCount' = currentRowCount + source[chunk]
       /\ UNCHANGED done
  ELSE /\ done' = (done \/ chunk = NoChunk)
       /\ UNCHANGED <<chunks, chunkSizeRuns, currentRowCount>>

(* Mutant: a chunk smaller than the one before it is taken for the last.   *)
ShortChunkIsLast(r, chunk) ==
  IF chunk # NoChunk
  THEN /\ chunks' = Append(chunks, chunk)
       /\ chunkSizeRuns' = WithChunk(chunkSizeRuns, source[chunk])
       /\ currentRowCount' = currentRowCount + source[chunk]
       /\ done' = (done \/ (chunks # <<>> /\ source[chunk] < source[Last(chunks)]))
  ELSE /\ done' = TRUE
       /\ UNCHANGED <<chunks, chunkSizeRuns, currentRowCount>>

(* Mutant: the end of the data goes unnoticed.                             *)
EndUnnoticed(r, chunk) ==
  IF chunk # NoChunk
  THEN /\ chunks' = Append(chunks, chunk)
       /\ chunkSizeRuns' = WithChunk(chunkSizeRuns, source[chunk])
       /\ currentRowCount' = currentRowCount + source[chunk]
       /\ UNCHANGED done
  ELSE UNCHANGED reader

(* What a read does with what it awaited.                                  *)
Receive(r, chunk) ==
  IF chunk # NoChunk
  THEN /\ chunks' = Append(chunks, chunk)
       /\ chunkSizeRuns' = WithChunk(chunkSizeRuns, source[chunk])
       /\ currentRowCount' = currentRowCount + source[chunk]
       /\ UNCHANGED done
  ELSE /\ done' = TRUE
       /\ UNCHANGED <<chunks, chunkSizeRuns, currentRowCount>>

(* The continuation that runs next.                                        *)
InTurn == 1

(* The read whose turn it is takes its chunk, and goes round its loop.     *)
ResumeRead(r) ==
  /\ fetches # <<>> /\ fetches[InTurn].read = r
  /\ UNCHANGED target
  /\ Receive(r, fetches[InTurn].chunk)
  /\ SettleOrFetch(r, RemoveAt(fetches, InTurn))
  /\ UNCHANGED <<source, streaming, broken>>

(* A streaming result fails: a row raises an error, the query is           *)
(* interrupted, or another query runs on its connection.                   *)
StreamFails ==
  /\ streaming /\ ~broken
  /\ broken' = TRUE
  /\ UNCHANGED <<source, streaming, fetched, pc, target, fetches, reader>>

Next ==
  \/ \E r \in Reads : StartRead(r) \/ ResumeRead(r)
  \/ StreamFails

Spec == Init /\ [][Next]_vars

(* The event loop drains its microtasks.                                   *)
FairSpec == Spec /\ \A r \in Reads : WF_vars(ResumeRead(r))

-----------------------------------------------------------------------------
(* value(column, row): the place of a row, or NotRead.  Runs are skipped   *)
(* until one holds the row.                                                *)
NotRead == [chunk |-> NoChunk, row |-> 0]

SkipRun(state, run) ==
  IF state.found THEN state
  ELSE IF state.row < run.rowCount
  THEN [found |-> TRUE,
        chunk |-> state.chunk + state.row \div run.chunkSize,
        row |-> state.row % run.chunkSize]
  ELSE [state EXCEPT !.chunk = @ + run.chunkCount, !.row = @ - run.rowCount]

Value(row) ==
  LET end == FoldLeft(SkipRun, [found |-> FALSE, chunk |-> 0, row |-> row],
                      chunkSizeRuns)
  IN IF currentRowCount > 0 /\ end.found
     THEN [chunk |-> chunks[end.chunk + 1], row |-> end.row]
     ELSE NotRead

-----------------------------------------------------------------------------
Runs == [chunkCount : Nat \ {0}, chunkSize : Sizes, rowCount : Nat \ {0}]

(* The variables have the types their declarations say.                    *)
TypeOK ==
  /\ source \in Seq(Sizes)
  /\ streaming \in BOOLEAN /\ broken \in BOOLEAN
  /\ fetched \in 0..Len(source)
  /\ pc \in [Reads -> {"idle", "fetching", "settled"}]
  /\ target \in [Reads -> 0..Everything]
  /\ fetches \in Seq([read : Reads, chunk : 0..Len(source)])
  /\ chunks \in Seq(1..Len(source))
  /\ chunkSizeRuns \in Seq(Runs)
  /\ currentRowCount \in Nat
  /\ done \in BOOLEAN

(* Overlapping reads neither lose, repeat nor reorder a chunk: those read, *)
(* followed by those on their way, are the ones libduckdb handed out, in   *)
(* its order, and nothing but the end comes after them.                    *)
ChunksInOrder ==
  /\ \A i \in DOMAIN chunks : chunks[i] = i
  /\ \A i \in DOMAIN fetches :
       fetches[i].chunk = IF Len(chunks) + i <= fetched THEN Len(chunks) + i
                                                        ELSE NoChunk
  /\ fetched \in Len(chunks)..Len(chunks) + Len(fetches)

(* value finds every row that has been read where reading the chunks in    *)
(* order puts it, and no other row, although it computes the place from    *)
(* the runs alone.                                                         *)
ValueFindsEveryRow ==
  LET places == FlattenSeq([i \in DOMAIN chunks |->
                  [j \in 1..source[chunks[i]] |->
                    [chunk |-> chunks[i], row |-> j - 1]]])
  IN /\ Len(places) = currentRowCount
     /\ \A row \in DOMAIN places : Value(row - 1) = places[row]
     /\ Value(currentRowCount) = NotRead

(* A read that has settled got what it asked for: the whole result, or as  *)
(* many rows as its target, unless the data ended.                         *)
ReadsGetWhatTheyAsked ==
  \A r \in Reads : pc[r] = "settled" =>
    IF target[r] = Everything THEN done ELSE done \/ currentRowCount >= target[r]

(* While the stream has not failed, done means that every chunk was read.  *)
DoneMeansComplete ==
  done /\ ~broken => chunks = [i \in DOMAIN source |-> i]

(* Once reading is done nothing is added, even by reads still under way.   *)
DoneIsFinal ==
  [][done => done' /\ UNCHANGED <<chunks, chunkSizeRuns, currentRowCount>>]_vars

(* Every read settles.                                                     *)
EveryReadSettles ==
  \A r \in Reads : pc[r] = "fetching" ~> pc[r] = "settled"
=============================================================================
