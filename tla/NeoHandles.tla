----------------------------- MODULE NeoHandles -----------------------------
(***************************************************************************)
(* The handle discipline of the drop-in ("neo") layer.                     *)
(*                                                                         *)
(* A native object of libduckdb is known to JavaScript by its address, a   *)
(* plain number, which the wrapper class (DuckDBInstance, DuckDBConnection,*)
(* DuckDBPreparedStatement) keeps in a readonly field for its whole life.  *)
(* The bindings remember, in two global sets of addresses, which           *)
(* connections and which prepared statements have not been freed yet, and  *)
(* a connection keeps weak references to the statements prepared on it.    *)
(*                                                                         *)
(* The program is single threaded: the code between two awaits runs to     *)
(* completion, so each action is one such stretch.  Wrappers are the       *)
(* identities of JavaScript objects and are never used twice.  The heap    *)
(* is libduckdb's and records, at each address, the wrapper for which the  *)
(* object living there was allocated.  A call that hands libduckdb an      *)
(* address at which no object of the right kind lives is undefined         *)
(* behaviour: it is recorded in fault, and the model says nothing of what  *)
(* happens after it.                                                       *)
(***************************************************************************)
EXTENDS Naturals, FiniteSets

CONSTANTS
  Instances,    \* DuckDBInstance objects
  Conns,        \* DuckDBConnection objects
  Stmts,        \* DuckDBPreparedStatement objects
  Addrs,        \* the addresses libduckdb's allocator can return
  Null,         \* no address / no object
  AddressReuse  \* may the allocator return an address that was freed?

Wrappers == Instances \cup Conns \cup Stmts

ASSUME KindsAssumption ==
  /\ Instances \cap Conns = {}
  /\ Instances \cap Stmts = {}
  /\ Conns \cap Stmts = {}

ASSUME NullAssumption == Null \notin Wrappers \cup Addrs

ASSUME ReuseAssumption == AddressReuse \in BOOLEAN

VARIABLES
  heap,                    \* Addrs -> the wrapper an object was allocated for
  used,                    \* addresses that have been returned by the allocator
  liveConnections,         \* handles.ts: addresses of undisconnected connections
  livePreparedStatements,  \* handles.ts: addresses of undestroyed statements
  addr,                    \* the address in each wrapper's readonly field
  parent,                  \* the connection object a statement was prepared by
  awaiting,                \* statements whose prepare() has not resumed yet
  preparedStatements,      \* each connection's collection of weak references
  extracted,               \* connections with a DuckDBExtractedStatements object
  collected,               \* statement wrappers reclaimed by the garbage collector
  fault                    \* the call that met a dangling address, if any

vars == <<heap, used, liveConnections, livePreparedStatements, addr, parent,
          awaiting, preparedStatements, extracted, collected, fault>>

-----------------------------------------------------------------------------
(* The calls into libduckdb that take a handle, by the kind of the handle. *)

InstanceCalls  == {"connect", "close"}
ConnCalls      == {"query", "prepare", "disconnect", "interrupt",
                   "client_context", "extract_statements",
                   "prepare_extracted_statement"}
StmtCalls      == {"execute_prepared", "bind", "destroy_prepare"}

NativeCalls == InstanceCalls \cup ConnCalls \cup StmtCalls

NoFault == "none"

CallsOf(w) == IF w \in Instances THEN InstanceCalls
              ELSE IF w \in Conns THEN ConnCalls ELSE StmtCalls

KindOf(w) == IF w \in Instances THEN Instances
             ELSE IF w \in Conns THEN Conns ELSE Stmts

(* What the binding checks before it makes the call.  Calls that are not   *)
(* listed are made without any check.                                      *)
Guard(call, w) ==
  /\ call \in {"query", "prepare", "disconnect"} => addr[w] \in liveConnections
  /\ call = "destroy_prepare" => addr[w] \in livePreparedStatements

(* An object of the wrapper's kind lives at the wrapper's address.         *)
Reaches(w) == addr[w] # Null /\ heap[addr[w]] \in KindOf(w)

(* No undefined behaviour has happened yet.                                *)
Running == fault = NoFault

(* The program holds a reference to the wrapper and can call its methods.  *)
Held(w) == addr[w] # Null /\ w \notin awaiting \cup collected

Unborn(w) == addr[w] = Null

Allocatable(a) == heap[a] = Null /\ (AddressReuse \/ a \notin used)

(* libduckdb allocates, and the wrapper keeps, an object at address a.     *)
Allocate(w, a) ==
  /\ Allocatable(a)
  /\ heap' = [heap EXCEPT ![a] = w]
  /\ used' = used \cup {a}
  /\ addr' = [addr EXCEPT ![w] = a]

FreeAll(A) == heap' = [a \in Addrs |-> IF a \in A THEN Null ELSE heap[a]]

-----------------------------------------------------------------------------
Init ==
  /\ heap = [a \in Addrs |-> Null]
  /\ used = {}
  /\ liveConnections = {}
  /\ livePreparedStatements = {}
  /\ addr = [w \in Wrappers |-> Null]
  /\ parent = [s \in Stmts |-> Null]
  /\ awaiting = {}
  /\ preparedStatements = [c \in Conns |-> {}]
  /\ extracted = {}
  /\ collected = {}
  /\ fault = NoFault

(* DuckDBInstance.create: duckdb_open_ext fills a fresh database handle.   *)
Open(i) ==
  /\ Running /\ Unborn(i)
  /\ \E a \in Addrs : Allocate(i, a)
  /\ UNCHANGED <<liveConnections, livePreparedStatements, parent, awaiting,
                 preparedStatements, extracted, collected, fault>>

(* DuckDBInstance.closeSync: duckdb_close on a copy of the handle, so that *)
(* nothing in JavaScript records that the database is gone.                *)
CloseInstance(i) ==
  /\ Running /\ Held(i) /\ Reaches(i) /\ Guard("close", i)
  /\ FreeAll({addr[i]})
  /\ UNCHANGED <<used, liveConnections, livePreparedStatements, addr, parent,
                 awaiting, preparedStatements, extracted, collected, fault>>

(* DuckDBInstance.connect.                                                 *)
Connect(i, c) ==
  /\ Running /\ Held(i) /\ Reaches(i) /\ Guard("connect", i) /\ Unborn(c)
  /\ \E a \in Addrs : /\ Allocate(c, a)
                      /\ liveConnections' = liveConnections \cup {a}
  /\ UNCHANGED <<livePreparedStatements, parent, awaiting, preparedStatements,
                 extracted, collected, fault>>

(* Mutant: the new statement is not recorded as live.                      *)
StatementNotRecorded(c, s) ==
  /\ Unborn(s)
  /\ \E a \in Addrs : Allocate(s, a)
  /\ parent' = [parent EXCEPT ![s] = c]
  /\ awaiting' = awaiting \cup {s}
  /\ UNCHANGED <<liveConnections, livePreparedStatements, preparedStatements,
                 extracted, collected, fault>>

(* duckdb_prepare or duckdb_prepare_extracted_statement succeeds: the new  *)
(* address is recorded as live, and the caller awaits.                     *)
NewStatement(c, s) ==
  /\ Unborn(s)
  /\ \E a \in Addrs :
       /\ Allocate(s, a)
       /\ livePreparedStatements' = livePreparedStatements \cup {a}
  /\ parent' = [parent EXCEPT ![s] = c]
  /\ awaiting' = awaiting \cup {s}
  /\ UNCHANGED <<liveConnections, preparedStatements, extracted, collected,
                 fault>>

(* duckdb_prepare fails: libduckdb still returned a statement object, which*)
(* carries the message and is destroyed before the binding throws.         *)
FailedStatement ==
  /\ \E a \in Addrs : Allocatable(a) /\ used' = used \cup {a}
  /\ UNCHANGED <<heap, liveConnections, livePreparedStatements, addr, parent,
                 awaiting, preparedStatements, extracted, collected, fault>>

Prepare(c, s) ==
  /\ Running /\ Held(c) /\ Reaches(c) /\ Guard("prepare", c)
  /\ NewStatement(c, s)

PrepareFails(c) ==
  /\ Running /\ Held(c) /\ Reaches(c) /\ Guard("prepare", c)
  /\ FailedStatement

(* DuckDBConnection.extractStatements: the object it returns, which is     *)
(* never freed, keeps the connection's address.                            *)
ExtractStatements(c) ==
  /\ Running /\ Held(c) /\ Reaches(c) /\ Guard("extract_statements", c)
  /\ extracted' = extracted \cup {c}
  /\ UNCHANGED <<heap, used, liveConnections, livePreparedStatements, addr,
                 parent, awaiting, preparedStatements, collected, fault>>

PrepareExtracted(c, s) ==
  /\ Running /\ c \in extracted
  /\ Reaches(c) /\ Guard("prepare_extracted_statement", c)
  /\ NewStatement(c, s)

PrepareExtractedFails(c) ==
  /\ Running /\ c \in extracted
  /\ Reaches(c) /\ Guard("prepare_extracted_statement", c)
  /\ FailedStatement

(* Mutant: pruning keeps only what was added last.                         *)
PruneAll(s) ==
  /\ Running /\ s \in awaiting
  /\ awaiting' = awaiting \ {s}
  /\ preparedStatements' = [preparedStatements EXCEPT ![parent[s]] = {s}]
  /\ UNCHANGED <<heap, used, liveConnections, livePreparedStatements, addr,
                 parent, extracted, collected, fault>>

(* The continuation of prepare(): the wrapper is made and registered with  *)
(* its connection's collection, which, once a second has passed since it   *)
(* last did so, first drops the references whose wrappers were collected.  *)
RegisterStatement(s) ==
  /\ Running /\ s \in awaiting
  /\ awaiting' = awaiting \ {s}
  /\ \E pruned \in {{}, collected} :
       preparedStatements' =
         [preparedStatements EXCEPT ![parent[s]] = (@ \ pruned) \cup {s}]
  /\ UNCHANGED <<heap, used, liveConnections, livePreparedStatements, addr,
                 parent, extracted, collected, fault>>

(* Mutant: every live statement is destroyed, whoever prepared it.         *)
DestroyEveryone(S) == IF S = {} THEN {} ELSE livePreparedStatements

(* The addresses freed when destroySync is called on each wrapper in S:    *)
(* those still recorded as live.                                           *)
DestroyedBy(S) == {addr[s] : s \in {x \in S : Guard("destroy_prepare", x)}}

(* DuckDBPreparedStatement.destroySync.                                    *)
DestroyStatement(s) ==
  /\ Running /\ Held(s) /\ (Guard("destroy_prepare", s) => Reaches(s))
  /\ livePreparedStatements' = livePreparedStatements \ DestroyedBy({s})
  /\ FreeAll(DestroyedBy({s}))
  /\ UNCHANGED <<used, liveConnections, addr, parent, awaiting,
                 preparedStatements, extracted, collected, fault>>

(* Mutant: the connection is freed but stays in liveConnections.           *)
DisconnectNotRecorded(c) ==
  LET targets == preparedStatements[c] \ collected IN
  /\ Running /\ Held(c)
  /\ \A s \in targets : Guard("destroy_prepare", s) => Reaches(s)
  /\ Guard("disconnect", c) /\ Reaches(c)
  /\ livePreparedStatements' = livePreparedStatements \ DestroyedBy(targets)
  /\ FreeAll(DestroyedBy(targets) \cup {addr[c]})
  /\ preparedStatements' = [preparedStatements EXCEPT ![c] = {}]
  /\ UNCHANGED <<used, liveConnections, addr, parent, awaiting, extracted,
                 collected, fault>>

(* DuckDBConnection.disconnectSync: every statement whose weak reference   *)
(* still has a target is destroyed, the collection is emptied, and then    *)
(* the connection itself is disconnected, if it is recorded as live.       *)
DisconnectedBy(c) == {addr[x] : x \in {y \in {c} : Guard("disconnect", y)}}

DisconnectSync(c) ==
  LET targets == preparedStatements[c] \ collected IN
  /\ Running /\ Held(c)
  /\ \A s \in targets : Guard("destroy_prepare", s) => Reaches(s)
  /\ Guard("disconnect", c) => Reaches(c)
  /\ livePreparedStatements' = livePreparedStatements \ DestroyedBy(targets)
  /\ liveConnections' = liveConnections \ DisconnectedBy(c)
  /\ FreeAll(DestroyedBy(targets) \cup DisconnectedBy(c))
  /\ preparedStatements' = [preparedStatements EXCEPT ![c] = {}]
  /\ UNCHANGED <<used, addr, parent, awaiting, extracted, collected, fault>>

(* The garbage collector reclaims a statement wrapper the program dropped. *)
(* No finalizer is registered for it: its native statement stays allocated *)
(* and its address stays in livePreparedStatements.                        *)
CollectGarbage(s) ==
  /\ Running /\ Held(s)
  /\ collected' = collected \cup {s}
  /\ UNCHANGED <<heap, used, liveConnections, livePreparedStatements, addr,
                 parent, awaiting, preparedStatements, extracted, fault>>

(* A call that passes its binding's check although nothing of the right    *)
(* kind lives at the address.  Calls that reach their object and change    *)
(* none of the variables (query, bind, execute...) have no action.         *)
DanglingCall(w) ==
  /\ Running /\ Held(w) /\ ~Reaches(w)
  /\ \E call \in CallsOf(w) : Guard(call, w) /\ fault' = call
  /\ UNCHANGED <<heap, used, liveConnections, livePreparedStatements, addr,
                 parent, awaiting, preparedStatements, extracted, collected>>

Next ==
  \/ \E i \in Instances : Open(i) \/ CloseInstance(i)
  \/ \E i \in Instances, c \in Conns : Connect(i, c)
  \/ \E c \in Conns, s \in Stmts : Prepare(c, s) \/ PrepareExtracted(c, s)
  \/ \E c \in Conns : \/ PrepareFails(c) \/ ExtractStatements(c)
                      \/ PrepareExtractedFails(c) \/ DisconnectSync(c)
  \/ \E s \in Stmts : \/ RegisterStatement(s) \/ DestroyStatement(s)
                      \/ CollectGarbage(s)
  \/ \E w \in Wrappers : DanglingCall(w)

Spec == Init /\ [][Next]_vars

-----------------------------------------------------------------------------
(* The variables have the types their declarations say.                    *)
TypeOK ==
  /\ heap \in [Addrs -> Wrappers \cup {Null}]
  /\ used \subseteq Addrs
  /\ liveConnections \subseteq Addrs
  /\ livePreparedStatements \subseteq Addrs
  /\ addr \in [Wrappers -> Addrs \cup {Null}]
  /\ parent \in [Stmts -> Conns \cup {Null}]
  /\ awaiting \subseteq Stmts
  /\ preparedStatements \in [Conns -> SUBSET Stmts]
  /\ extracted \subseteq Conns
  /\ collected \subseteq Stmts
  /\ fault \in NativeCalls \cup {NoFault}

(* The two live sets of handles.ts name exactly the addresses at which     *)
(* libduckdb has a connection, and a prepared statement: nothing is freed  *)
(* without being struck off, and nothing that exists is missing.           *)
LiveSetsExact ==
  /\ liveConnections = {a \in Addrs : heap[a] \in Conns}
  /\ livePreparedStatements = {a \in Addrs : heap[a] \in Stmts}

(* The four bindings that consult a live set never hand libduckdb an       *)
(* address at which no connection, or no statement, lives: no use after    *)
(* free in query and prepare, no double free in disconnect and destroy,    *)
(* whatever was closed, collected or awaited before (handles.ts:80-91).    *)
GuardedCallsNeverDangle ==
  fault \notin {"query", "prepare", "disconnect", "destroy_prepare"}

(* The object the wrapper was given still exists.                          *)
Owns(w) == addr[w] # Null /\ heap[addr[w]] = w

(* The wrapper had an object and it has been freed.                        *)
Stale(w) == addr[w] # Null /\ heap[addr[w]] # w

(* A wrapper whose address passes the liveness check still owns the object *)
(* there: a stale connection can neither query, nor disconnect, nor a stale*)
(* statement destroy, an object that belongs to someone else.              *)
GuardsFindOwnObject ==
  /\ \A c \in Conns : addr[c] \in liveConnections => Owns(c)
  /\ \A s \in Stmts : addr[s] \in livePreparedStatements => Owns(s)

(* A native statement that a running program can still name is registered  *)
(* with its connection, so that closing the connection will free it, or is *)
(* about to be: pruning and closing never forget a live wrapper.           *)
LiveStatementsRegistered ==
  \A s \in Stmts \ (collected \cup awaiting) :
    Owns(s) => s \in preparedStatements[parent[s]]

(* The layer keeps the promise stated in NeoLifecycle.                     *)
Lifecycle == INSTANCE NeoLifecycle WITH
               open   <- {w \in Wrappers : Owns(w)},
               closed <- {w \in Wrappers : Stale(w)}

LifecycleSpec == Lifecycle!Spec

(* Destroying a statement a second time, explicitly or through the         *)
(* collection of weak references, is a no-op for every statement there is  *)
(* (handles.ts:88-90: "destroy_prepare_sync must be a no-op the second     *)
(* time").                                                                 *)
SecondDestroyIsNoOp ==
  [][\A s \in Stmts : Stale(s) /\ DestroyStatement(s)
       => \A t \in Stmts : Owns(t) => Owns(t)']_vars
=============================================================================
