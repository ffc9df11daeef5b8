---------------------------- MODULE NativeClient ----------------------------
(***************************************************************************)
(* The Bun-native client: DuckDBInstance, DuckDBConnection,                *)
(* PreparedStatement and readAllFromResult.  Its methods are async in name *)
(* only: none awaits, so a call runs to its end before the next begins.    *)
(* What can go wrong inside a call is an exception, thrown by a native     *)
(* error or, while rows are decoded, by JavaScript itself (toISOString on  *)
(* a date outside the range of Date).  What can go wrong between calls is  *)
(* a method called after close.  A wrapper tests #closed only in its close *)
(* method: every other method passes libduckdb the address it copied into  *)
(* a number when the wrapper was made, and the allocator may have given    *)
(* that address to another object since.                                   *)
(*                                                                         *)
(* Each wrapper has an object of its own in libduckdb, and freeing it      *)
(* leaves the others usable: a connection shares its database, and a       *)
(* statement its connection, by reference count (external).  A call on     *)
(* freed memory, or on an object of another kind, is recorded in fault,    *)
(* and the model stops there.  A call that fails to open, connect or       *)
(* prepare throws before there is a wrapper, and prepare frees what it     *)
(* got: nothing is left of it.                                             *)
(***************************************************************************)
EXTENDS Naturals

CONSTANTS
  Conns,       \* DuckDBConnection wrappers
  Stmts,       \* PreparedStatement wrappers
  Db,          \* the DuckDBInstance wrapper
  NoWrapper,   \* none of them
  Addresses,   \* where libduckdb may allocate an object
  NoAddress,   \* the null pointer
  MaxChunks,   \* bound on the chunks of a result
  MaxErrors    \* bound on the decode errors of a run of the model

Wrappers == {Db} \cup Conns \cup Stmts

ASSUME ClientAssumption ==
  /\ MaxChunks \in Nat
  /\ MaxErrors \in Nat
  /\ NoWrapper \notin Wrappers
  /\ NoAddress \notin Addresses

VARIABLES
  memory,        \* address -> the wrapper whose object is there
  wrappers,      \* the wrappers that have been created
  number,        \* #db, #conn, #stmt: the address as each wrapper copied it
  slot,          \* #dbBuf, #connBuf, #stmtBuf: the pointer libduckdb wrote
  closed,        \* the wrappers with #closed set
  astray,        \* history: the wrappers a call of which ran on another's object
  step,          \* where the current call is
  chunksLeft,    \* the chunks of the current result not yet fetched
  results,       \* the native results that exist
  chunks,        \* the native data chunks that exist
  decodeErrors,  \* history: the calls that ended in a decode error
  fault          \* the wrapper whose call met freed memory, if any

handles == <<memory, wrappers, number, slot, closed, astray>>
calls == <<step, chunksLeft, results, chunks, decodeErrors>>
clientVars == <<handles, calls, fault>>

-----------------------------------------------------------------------------
Steps == {"idle", "failed", "discard", "fetch", "decode"}

Ready == step = "idle" /\ fault = NoWrapper

New(w) == w \notin wrappers

ClientInit ==
  /\ memory = [a \in Addresses |-> NoWrapper]
  /\ wrappers = {}
  /\ number = [w \in Wrappers |-> NoAddress]
  /\ slot = [w \in Wrappers |-> NoAddress]
  /\ closed = {}
  /\ astray = {}
  /\ step = "idle"
  /\ chunksLeft = 0
  /\ results = 0
  /\ chunks = 0
  /\ decodeErrors = 0
  /\ fault = NoWrapper

(* The object a call of w runs on is whatever of its kind is at the        *)
(* address that w remembers.                                               *)
At(a) == IF a \in Addresses THEN memory[a] ELSE NoWrapper

SameKind(v, w) == \E kind \in {{Db}, Conns, Stmts} : {v, w} \subseteq kind

Runs(w) == ~New(w) /\ SameKind(At(number[w]), w)

Calls(w) ==
  /\ Ready /\ Runs(w)
  /\ astray' = astray \cup {v \in {w} : At(number[v]) # v}

(* libduckdb allocates an object, at any free address, and writes it to    *)
(* the slot; the constructor copies it.                                    *)
Allocate(w) ==
  /\ New(w)
  /\ wrappers' = wrappers \cup {w}
  /\ \E a \in {b \in Addresses : memory[b] = NoWrapper} :
       /\ memory' = [memory EXCEPT ![a] = w]
       /\ slot' = [slot EXCEPT ![w] = a]
       /\ number' = [number EXCEPT ![w] = a]
  /\ UNCHANGED <<closed, calls, fault>>

(* DuckDBInstance.create.                                                  *)
Create == Ready /\ Allocate(Db) /\ UNCHANGED astray

Connect(c) == Calls(Db) /\ Allocate(c)

Prepare(c, s) == Calls(c) /\ Allocate(s)

(* Mutant: #closed is not tested, and a slot is made from the number, as   *)
(* handleSlot of the drop-in layer makes one.                              *)
CloseByNumber(w) ==
  /\ Ready /\ ~New(w)
  /\ memory' = [a \in Addresses |-> IF a = number[w] THEN NoWrapper ELSE memory[a]]
  /\ closed' = closed \cup {w}
  /\ UNCHANGED <<wrappers, number, slot, astray, calls, fault>>

(* closeSync, and close of a statement.  A second call returns early; what *)
(* is freed is what the slot holds, and libduckdb sets it to null.         *)
Close(w) ==
  /\ Ready /\ ~New(w) /\ w \notin closed
  /\ memory' = [a \in Addresses |-> IF a = slot[w] THEN NoWrapper ELSE memory[a]]
  /\ slot' = [slot EXCEPT ![w] = NoAddress]
  /\ closed' = closed \cup {w}
  /\ UNCHANGED <<wrappers, number, astray, calls, fault>>

(* run, runAndReadAll, readAll: the query fills a result, with an error or *)
(* with rows that the caller discards or reads.                            *)
Query(w) ==
  /\ Calls(w) /\ w # Db
  /\ results' = results + 1
  /\ step' \in {"failed", "discard", "fetch"}
  /\ \E n \in 0..MaxChunks : chunksLeft' = n
  /\ UNCHANGED <<memory, wrappers, number, slot, closed, chunks, decodeErrors, fault>>

(* throwResultError, or run: the result is freed at once.                  *)
FreeResult ==
  /\ step \in {"failed", "discard"}
  /\ results' = results - 1
  /\ step' = "idle"
  /\ UNCHANGED <<handles, chunksLeft, chunks, decodeErrors, fault>>

FetchChunk ==
  /\ step = "fetch" /\ chunksLeft > 0
  /\ chunks' = chunks + 1
  /\ chunksLeft' = chunksLeft - 1
  /\ step' = "decode"
  /\ UNCHANGED <<handles, results, decodeErrors, fault>>

(* Mutant: the chunk of the rows just decoded is kept.                     *)
DecodeAndKeep ==
  /\ step = "decode"
  /\ step' = "fetch"
  /\ UNCHANGED <<handles, chunksLeft, results, chunks, decodeErrors, fault>>

DecodeChunk ==
  /\ step = "decode"
  /\ chunks' = chunks - 1
  /\ step' = "fetch"
  /\ UNCHANGED <<handles, chunksLeft, results, decodeErrors, fault>>

(* A value that JavaScript cannot represent: the exception leaves          *)
(* readAllFromResult past both frees.                                      *)
DecodeThrows ==
  /\ step = "decode" /\ decodeErrors < MaxErrors
  /\ decodeErrors' = decodeErrors + 1
  /\ step' = "idle"
  /\ UNCHANGED <<handles, chunksLeft, results, chunks, fault>>

FinishRead ==
  /\ step = "fetch" /\ chunksLeft = 0
  /\ results' = results - 1
  /\ step' = "idle"
  /\ UNCHANGED <<handles, chunksLeft, chunks, decodeErrors, fault>>

(* A method other than close, on a wrapper whose number leads nowhere now. *)
DanglingCall(w) ==
  /\ Ready /\ ~New(w) /\ ~Runs(w)
  /\ fault' = w
  /\ UNCHANGED <<handles, calls>>

ClientNext ==
  \/ Create
  \/ \E c \in Conns : Connect(c)
  \/ \E c \in Conns, s \in Stmts : Prepare(c, s)
  \/ \E w \in Wrappers : Close(w) \/ Query(w) \/ DanglingCall(w)
  \/ FreeResult \/ FetchChunk \/ DecodeChunk \/ DecodeThrows \/ FinishRead

ClientSpec == ClientInit /\ [][ClientNext]_clientVars

-----------------------------------------------------------------------------
(* The variables have the types their declarations say.                    *)
ClientTypeOK ==
  /\ memory \in [Addresses -> Wrappers \cup {NoWrapper}]
  /\ wrappers \subseteq Wrappers
  /\ number \in [Wrappers -> Addresses \cup {NoAddress}]
  /\ slot \in [Wrappers -> Addresses \cup {NoAddress}]
  /\ closed \subseteq wrappers /\ astray \subseteq wrappers
  /\ step \in Steps
  /\ chunksLeft \in 0..MaxChunks
  /\ results \in Nat
  /\ chunks \in Nat
  /\ decodeErrors \in 0..MaxErrors
  /\ fault \in Wrappers \cup {NoWrapper}

(* Whatever a call meets, a native error included, it frees its result and *)
(* every chunk it fetched, and holds one chunk at a time; only a decode    *)
(* error leaks, one result and one chunk each time.                        *)
OnlyDecodeErrorsLeak ==
  /\ results = decodeErrors + (IF step = "idle" THEN 0 ELSE 1)
  /\ chunks = decodeErrors + (IF step = "decode" THEN 1 ELSE 0)

(* However often wrappers are closed, in any order and whatever addresses  *)
(* are used again, a close frees the object of its own wrapper, once: an   *)
(* open wrapper keeps its object at the address it remembers and no other  *)
(* object is left.  A call meets freed memory, or runs on the object of    *)
(* another wrapper, only if the program had closed the wrapper it calls.   *)
ObjectsFollowWrappers ==
  /\ \A w \in wrappers : w \notin closed <=> At(number[w]) = w
  /\ \A a \in Addresses : memory[a] # NoWrapper => number[memory[a]] = a
  /\ astray \subseteq closed
  /\ fault # NoWrapper => fault \in closed

=============================================================================
