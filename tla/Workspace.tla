------------------------------- MODULE Workspace -------------------------------
(***************************************************************************)
(* The workspace example: one in-memory database per user and company,     *)
(* made on first use, shared by the calls of that key and closed by        *)
(* whichever call next notices that it has not been used for a while.      *)
(*                                                                         *)
(* A call runs from one await to the next without interruption.  A         *)
(* statement takes effect when it is issued, before the await on its       *)
(* result.  Suspended calls resume in any order: the number of ticks an    *)
(* await takes is the client's business, and the example was written for   *)
(* a client whose statements run on other threads.                         *)
(***************************************************************************)
EXTENDS Integers, FiniteSets

CONSTANTS
  Calls,       \* slots for calls in progress
  Keys,        \* keyFor(userId, companyId)
  Tables, Cols,\* table names; the columns a batch may bring besides the first
  None,        \* no workspace
  TTL,         \* WORKSPACE_TTL_MS
  MaxTables,   \* MAX_TABLES_PER_WORKSPACE
  MaxRows,     \* MAX_ROWS_PER_TABLE
  Batches,     \* the numbers of rows a call may append
  MaxEntries,  \* bound: workspaces ever made
  MaxCalls,    \* bound: calls ever started
  MaxTime      \* bound: the clock

Entries == 1 .. MaxEntries

ASSUME WorkspaceAssumption ==
  /\ TTL \in Nat /\ MaxTables \in Nat /\ MaxRows \in Nat
  /\ MaxEntries \in Nat /\ MaxCalls \in Nat /\ MaxTime \in Nat
  /\ Batches \subseteq Nat
  /\ None \notin Entries \cup Keys

VARIABLES
  workspaces,  \* the map: key -> entry or None
  entry,       \* entry -> key, open (its instance and connection), lastAccess
  db,          \* entry -> what its database holds, and its tableMeta
  call,        \* slot -> where its call is suspended and what it holds
  tmp,         \* the calls whose NDJSON file exists
  now,         \* Date.now()
  started,     \* number of calls started
  stored,      \* history: key -> table -> rows put in and not dropped
  refused,     \* history: <<entry, table>> refused for the row cap
  overlapped,  \* history: keys two calls have used at once
  troubled,    \* history: keys whose workspace was made twice at once, or whose making failed
  conflicts    \* history: keys a call on which failed on a changed table

world == <<workspaces, entry, now, started, overlapped, troubled>>
data == <<db, stored, refused>>
vars == <<world, data, call, tmp, conflicts>>

Kinds == {"append", "drop", "clear", "list", "query"}

Making == {"creating", "connecting", "configuring"}

Holding == {"ensured", "looked", "columns", "written", "counted",
            "recorded", "dropped", "listed", "clearing"}

NoRows == [t \in Tables |-> 0]

NoTables == [meta |-> {}, has |-> {}, rows |-> NoRows, cols |-> [t \in Tables |-> {}]]

NoEntry == [key |-> None, open |-> FALSE, lastAccess |-> 0]

Idle == [pc |-> "idle", kind |-> "query", key |-> None, table |-> None,
         n |-> 0, cols |-> {}, nulls |-> {}, ws |-> None, first |-> None,
         since |-> 0, found |-> FALSE, todo |-> {}, names |-> {}, total |-> 0]

Init ==
  /\ workspaces = [k \in Keys |-> None]
  /\ entry = [e \in Entries |-> NoEntry]
  /\ db = [e \in Entries |-> NoTables]
  /\ call = [c \in Calls |-> Idle]
  /\ tmp = {} /\ now = 0 /\ started = 0
  /\ stored = [k \in Keys |-> NoRows]
  /\ refused = {} /\ overlapped = {} /\ troubled = {} /\ conflicts = {}

-----------------------------------------------------------------------------
At(c, pc, kinds) == call[c].pc = pc /\ call[c].kind \in kinds

Db(c) == db[call[c].ws]

Usable(c) == entry[call[c].ws].open

Exists(c) == call[c].table \in Db(c).has

Goto(c, pc) == call' = [call EXCEPT ![c].pc = pc] /\ UNCHANGED tmp

(* The call returns or throws; appendRows removes its file in the finally. *)
Settle(c) == call' = [call EXCEPT ![c] = Idle] /\ tmp' = tmp \ {c}

(* A statement fails because the tables are not what the call saw before,  *)
(* or because its connection was closed.  A statement on a closed          *)
(* connection hands freed memory to libduckdb; of what may follow the      *)
(* model keeps the rejected promise.                                       *)
Reject(c, e) ==
  /\ Settle(c)
  /\ conflicts' = IF entry[e].open THEN conflicts \cup {call[c].key} ELSE conflicts
  /\ UNCHANGED <<world, data>>

Aged(e) == entry[e].lastAccess + TTL < now

Stale == {k \in Keys : workspaces[k] # None /\ Aged(workspaces[k])}

(* Mutant: the entry is deleted from the map but not closed.               *)
EvictedStillOpen(e) == entry[e]

Evicted(e) == [entry[e] EXCEPT !.open = @ /\ e \notin {workspaces[k] : k \in Stale}]

(* Mutant: a workspace in use is not touched.                              *)
NotTouched(e) == entry[e]

Touched(e) == [entry[e] EXCEPT !.lastAccess = now]

(* Mutant: the map is not consulted.                                       *)
NeverShared(k) == FALSE

Shared(k) == workspaces[k] # None /\ k \notin Stale

(* ensureWorkspace up to its first await: evict what is stale, then share  *)
(* the workspace of the key, or create the instance of a new one.          *)
Ensure(c, k, r) ==
  /\ workspaces' = [x \in Keys |-> IF x \in Stale THEN None ELSE workspaces[x]]
  /\ stored' = [x \in Keys |-> IF x \in Stale THEN NoRows ELSE stored[x]]
  /\ \/ /\ Shared(k)
        /\ entry' = [e \in Entries |-> IF e = workspaces[k] THEN Touched(e) ELSE Evicted(e)]
        /\ call' = [call EXCEPT ![c] = [r EXCEPT !.pc = "ensured", !.since = now,
                                                 !.ws = workspaces[k]]]
        /\ UNCHANGED troubled
     \/ /\ ~Shared(k)
        /\ \E new \in Entries :
             /\ entry[new].key = None
             /\ \A e \in Entries : e < new => entry[e].key # None
             /\ entry' = [e \in Entries |->
                  IF e = new THEN [NoEntry EXCEPT !.key = k, !.open = TRUE]
                             ELSE Evicted(e)]
             /\ call' = [call EXCEPT ![c] = [r EXCEPT !.pc = "creating", !.ws = new]]
        /\ troubled' = troubled \cup
             {x \in {k} : \E d \in Calls \ {c} : call[d].pc \in Making /\ call[d].key = k}

(* A call arrives: appendRows, dropTable, clearAllTables, listTables or    *)
(* runQuery.  Of a batch, cols are the columns with a value somewhere or a *)
(* place in the first row, nulls those that only later rows have, as null. *)
Start(c, k, kind, t, n, cols, nulls) ==
  /\ call[c].pc = "idle"
  /\ started < MaxCalls
  /\ kind # "append" => n = 0
  /\ n = 0 => cols = {} /\ nulls = {}
  /\ cols \cap nulls = {}
  /\ started' = started + 1
  /\ Ensure(c, k, [Idle EXCEPT !.kind = kind, !.key = k, !.n = n,
                !.cols = cols, !.nulls = nulls,
                !.table = IF kind \in {"append", "drop"} THEN t ELSE None])
  /\ overlapped' = overlapped \cup {x \in {k} : \E d \in Calls : call[d].key = k}
  /\ UNCHANGED <<db, tmp, now, refused, conflicts>>

(* The rest of ensureWorkspace, for a workspace being made: connect, then  *)
(* the temporary directory and four SET statements; any of it may fail.    *)
Connect(c) ==
  /\ call[c].pc = "creating"
  /\ Goto(c, "connecting")
  /\ UNCHANGED <<world, data, conflicts>>

Configure(c) ==
  /\ call[c].pc = "connecting"
  /\ Goto(c, "configuring")
  /\ UNCHANGED <<world, data, conflicts>>

MakingFails(c) ==
  /\ call[c].pc \in Making
  /\ Settle(c)
  /\ troubled' = troubled \cup {call[c].key}
  /\ UNCHANGED <<workspaces, entry, now, started, overlapped, data, conflicts>>

Publish(c) ==
  /\ call[c].pc = "configuring"
  /\ workspaces' = [workspaces EXCEPT ![call[c].key] = call[c].ws]
  /\ entry' = [entry EXCEPT ![call[c].ws].lastAccess = now]
  /\ call' = [call EXCEPT ![c].pc = "ensured", ![c].since = now]
  /\ UNCHANGED <<now, started, overlapped, troubled, data, tmp, conflicts>>

-----------------------------------------------------------------------------
(* appendRows.                                                             *)

(* Write the file, ask whether the table exists.                           *)
AppendLook(c) ==
  /\ At(c, "ensured", {"append"}) /\ Usable(c)
  /\ tmp' = IF call[c].n = 0 THEN tmp ELSE tmp \cup {c}
  /\ call' = [call EXCEPT ![c].pc = "looked", ![c].found = Exists(c)]
  /\ UNCHANGED <<world, data, conflicts>>

(* No rows: report the count and stop.                                     *)
AppendNothing(c) ==
  /\ At(c, "looked", {"append"}) /\ call[c].n = 0 /\ Usable(c)
  /\ \/ /\ call[c].found => Exists(c)
        /\ Settle(c) /\ UNCHANGED <<world, data, conflicts>>
     \/ call[c].found /\ ~Exists(c) /\ Reject(c, call[c].ws)

Absent(c) == ~call[c].found

AppendFull(c) ==
  /\ At(c, "looked", {"append"}) /\ call[c].n > 0 /\ Absent(c)
  /\ Cardinality(Db(c).meta) >= MaxTables
  /\ Settle(c)
  /\ UNCHANGED <<world, data, conflicts>>

(* The effect on tables of CREATE or INSERT, and the call's next place.    *)
Write(c, d) ==
  /\ db' = [db EXCEPT ![call[c].ws] = d]
  /\ stored' = [stored EXCEPT ![call[c].key][call[c].table] = @ + call[c].n]
  /\ Goto(c, "written")
  /\ UNCHANGED <<world, refused, conflicts>>

AppendCreate(c) ==
  LET t == call[c].table
  IN  /\ At(c, "looked", {"append"}) /\ call[c].n > 0 /\ Absent(c)
      /\ Cardinality(Db(c).meta) < MaxTables
      /\ Usable(c)
      /\ \/ ~Exists(c) /\ Write(c, [Db(c) EXCEPT !.has = @ \cup {t},
              !.rows[t] = call[c].n, !.cols[t] = call[c].cols \cup call[c].nulls])
         \/ Exists(c) /\ Reject(c, call[c].ws)

(* Mutant: the columns that the table has are not left out.                *)
EveryColumn(c) == call[c].cols

Missing(c) == call[c].cols \ Db(c).cols[call[c].table]

(* ensureColumnsExist: which columns are missing, ...                      *)
AppendColumns(c) ==
  /\ At(c, "looked", {"append"}) /\ call[c].n > 0 /\ ~Absent(c) /\ Usable(c)
  /\ \/ /\ Exists(c)
        /\ call' = [call EXCEPT ![c].pc = "columns", ![c].todo = Missing(c)]
        /\ UNCHANGED <<world, data, tmp, conflicts>>
     \/ ~Exists(c) /\ Reject(c, call[c].ws)

(* ... one ALTER TABLE for each, ...                                       *)
AppendAlter(c) ==
  /\ At(c, "columns", {"append"}) /\ Usable(c)
  /\ \E col \in call[c].todo :
       LET missing == Exists(c) /\ col \notin Db(c).cols[call[c].table]
       IN  \/ /\ missing
              /\ db' = [db EXCEPT ![call[c].ws].cols[call[c].table] = @ \cup {col}]
              /\ call' = [call EXCEPT ![c].todo = @ \ {col}]
              /\ UNCHANGED <<world, stored, refused, tmp, conflicts>>
           \/ ~missing /\ Reject(c, call[c].ws)

(* ... then INSERT BY NAME, which needs every column of the file: one that *)
(* is null wherever it occurs was not added.                               *)
AppendInsert(c) ==
  LET t == call[c].table
      missing == (call[c].cols \cup call[c].nulls) \ Db(c).cols[t]
  IN  /\ At(c, "columns", {"append"}) /\ call[c].todo = {} /\ Usable(c)
      /\ \/ /\ Exists(c) /\ missing = {}
            /\ Write(c, [Db(c) EXCEPT !.rows[t] = @ + call[c].n])
         \/ /\ Exists(c) /\ missing # {} /\ missing \subseteq call[c].nulls
            /\ Settle(c)
            /\ UNCHANGED <<world, data, conflicts>>
         \/ /\ ~Exists(c) \/ ~(missing \subseteq call[c].nulls)
            /\ Reject(c, call[c].ws)

AppendCount(c) ==
  /\ At(c, "written", {"append"}) /\ Usable(c)
  /\ \/ /\ Exists(c)
        /\ call' = [call EXCEPT ![c].pc = "counted",
                                ![c].total = Db(c).rows[call[c].table]]
        /\ UNCHANGED <<world, data, tmp, conflicts>>
     \/ ~Exists(c) /\ Reject(c, call[c].ws)

(* Mutant: the batch is measured, not the table.                           *)
BatchOverCap(c) == call[c].n > MaxRows

(* The row cap, tested when the rows are already in the table.             *)
OverCap(c) == call[c].total > MaxRows

AppendOverCap(c) ==
  /\ At(c, "counted", {"append"}) /\ OverCap(c)
  /\ Settle(c)
  /\ refused' = refused \cup {<<call[c].ws, call[c].table>>}
  /\ UNCHANGED <<world, db, stored, conflicts>>

(* tableMeta.set, then PRAGMA table_info for the answer.                   *)
AppendRecord(c) ==
  /\ At(c, "counted", {"append"}) /\ ~OverCap(c) /\ Usable(c)
  /\ db' = [db EXCEPT ![call[c].ws].meta = @ \cup {call[c].table}]
  /\ Settle(c)
  /\ conflicts' = IF Exists(c) THEN conflicts ELSE conflicts \cup {call[c].key}
  /\ UNCHANGED <<world, stored, refused>>

-----------------------------------------------------------------------------
(* dropTable, listTables, clearAllTables and runQuery.                     *)

(* DROP TABLE t on entry e, by a call that goes on as r.                   *)
DropStatement(c, e, t, r) ==
  \/ /\ t \in db[e].has
     /\ db' = [db EXCEPT ![e].has = @ \ {t}, ![e].rows[t] = 0, ![e].cols[t] = {}]
     /\ stored' = [stored EXCEPT ![call[c].key][t] = 0]
     /\ refused' = refused \ {<<e, t>>}
     /\ call' = [call EXCEPT ![c] = r]
     /\ UNCHANGED <<world, tmp, conflicts>>
  \/ t \notin db[e].has /\ Reject(c, e)

DropLook(c) ==
  /\ At(c, "ensured", {"drop"}) /\ Usable(c)
  /\ call' = [call EXCEPT ![c].pc = "looked", ![c].found = Exists(c)]
  /\ UNCHANGED <<world, data, tmp, conflicts>>

DropTable(c) ==
  /\ At(c, "looked", {"drop"}) /\ Usable(c)
  /\ \/ /\ call[c].found
        /\ DropStatement(c, call[c].ws, call[c].table, [call[c] EXCEPT !.pc = "dropped"])
     \/ ~call[c].found /\ Settle(c) /\ UNCHANGED <<world, data, conflicts>>

(* Mutant: the row of tableMeta stays.                                     *)
ForgetNothing(e, tables) == UNCHANGED db

Forget(e, tables) == db' = [db EXCEPT ![e].meta = @ \ tables]

DropForget(c) ==
  /\ At(c, "dropped", {"drop"})
  /\ Forget(call[c].ws, {call[c].table})
  /\ Settle(c)
  /\ UNCHANGED <<world, stored, refused, conflicts>>

(* clearAllTables calls listTables, which ensures the workspace again.     *)
ClearEnsureAgain(c) ==
  /\ At(c, "ensured", {"clear"}) /\ call[c].first = None
  /\ Ensure(c, call[c].key, [call[c] EXCEPT !.first = call[c].ws])
  /\ UNCHANGED <<now, started, overlapped, db, refused, tmp, conflicts>>

ListNames(c) ==
  /\ At(c, "ensured", {"clear", "list"}) /\ Usable(c)
  /\ call[c].kind = "clear" => call[c].first # None
  /\ call' = [call EXCEPT ![c].pc = "listed", ![c].todo = Db(c).has,
                          ![c].names = Db(c).has]
  /\ UNCHANGED <<world, data, tmp, conflicts>>

(* The columns and the row count of one listed table.                      *)
ListOne(c) ==
  /\ At(c, "listed", {"clear", "list"}) /\ Usable(c)
  /\ \E t \in call[c].todo :
       \/ /\ t \in Db(c).has
          /\ call' = [call EXCEPT ![c].todo = @ \ {t}]
          /\ UNCHANGED <<world, data, tmp, conflicts>>
       \/ t \notin Db(c).has /\ Reject(c, call[c].ws)

ListReturn(c) ==
  /\ At(c, "listed", {"clear", "list"}) /\ call[c].todo = {}
  /\ \/ call[c].kind = "list" /\ Settle(c)
     \/ /\ call[c].kind = "clear" /\ UNCHANGED tmp
        /\ call' = [call EXCEPT ![c].pc = "clearing", ![c].todo = call[c].names]
  /\ UNCHANGED <<world, data, conflicts>>

(* The drops go to the workspace of the first ensureWorkspace.             *)
ClearDrop(c) ==
  /\ At(c, "clearing", {"clear"}) /\ entry[call[c].first].open
  /\ \E t \in call[c].todo :
       DropStatement(c, call[c].first, t, [call[c] EXCEPT !.todo = @ \ {t}])

ClearForget(c) ==
  /\ At(c, "clearing", {"clear"}) /\ call[c].todo = {}
  /\ Forget(call[c].first, Tables)
  /\ Settle(c)
  /\ UNCHANGED <<world, stored, refused, conflicts>>

Query(c) ==
  /\ At(c, "ensured", {"query"}) /\ Usable(c)
  /\ Settle(c)
  /\ UNCHANGED <<world, data, conflicts>>

(* The next statement of the call finds its connection closed.             *)
StatementOnClosed(c) ==
  /\ call[c].pc \in Holding
  /\ \/ ~Usable(c) /\ Reject(c, call[c].ws)
     \/ call[c].pc = "clearing" /\ ~entry[call[c].first].open /\ Reject(c, call[c].first)

Tick ==
  /\ now < MaxTime
  /\ now' = now + 1
  /\ UNCHANGED <<workspaces, entry, started, overlapped, troubled, data, call, tmp,
                 conflicts>>

Next ==
  \/ \E c \in Calls, k \in Keys, kind \in Kinds, t \in Tables, n \in Batches :
       \E cols, nulls \in SUBSET Cols : Start(c, k, kind, t, n, cols, nulls)
  \/ \E c \in Calls : Connect(c)
  \/ \E c \in Calls : Configure(c)
  \/ \E c \in Calls : MakingFails(c)
  \/ \E c \in Calls : Publish(c)
  \/ \E c \in Calls : AppendLook(c)
  \/ \E c \in Calls : AppendNothing(c)
  \/ \E c \in Calls : AppendFull(c)
  \/ \E c \in Calls : AppendCreate(c)
  \/ \E c \in Calls : AppendColumns(c)
  \/ \E c \in Calls : AppendAlter(c)
  \/ \E c \in Calls : AppendInsert(c)
  \/ \E c \in Calls : AppendCount(c)
  \/ \E c \in Calls : AppendOverCap(c)
  \/ \E c \in Calls : AppendRecord(c)
  \/ \E c \in Calls : DropLook(c)
  \/ \E c \in Calls : DropTable(c)
  \/ \E c \in Calls : DropForget(c)
  \/ \E c \in Calls : ClearEnsureAgain(c)
  \/ \E c \in Calls : ListNames(c)
  \/ \E c \in Calls : ListOne(c)
  \/ \E c \in Calls : ListReturn(c)
  \/ \E c \in Calls : ClearDrop(c)
  \/ \E c \in Calls : ClearForget(c)
  \/ \E c \in Calls : Query(c)
  \/ \E c \in Calls : StatementOnClosed(c)
  \/ Tick

Spec == Init /\ [][Next]_vars

-----------------------------------------------------------------------------
(* Properties of appendRows, the quota checks and the workspace cache.     *)

CallRecords ==
  [pc : {"idle"} \cup Making \cup Holding, kind : Kinds, key : Keys \cup {None},
   table : Tables \cup {None}, n : Nat, cols : SUBSET Cols,
   nulls : SUBSET Cols, ws : Entries \cup {None}, first : Entries \cup {None},
   since : Nat, found : BOOLEAN, todo : SUBSET (Cols \cup Tables),
   names : SUBSET Tables, total : Nat]

EntryRecords == [key : Keys \cup {None}, open : BOOLEAN, lastAccess : Nat]

DbRecords ==
  [meta : SUBSET Tables, has : SUBSET Tables, rows : [Tables -> Nat],
   cols : [Tables -> SUBSET Cols]]

TypeOK ==
  /\ workspaces \in [Keys -> Entries \cup {None}]
  /\ entry \in [Entries -> EntryRecords]
  /\ db \in [Entries -> DbRecords]
  /\ call \in [Calls -> CallRecords]
  /\ tmp \subseteq Calls
  /\ now \in Nat /\ started \in Nat
  /\ stored \in [Keys -> [Tables -> Nat]]
  /\ refused \subseteq Entries \X Tables
  /\ overlapped \subseteq Keys /\ troubled \subseteq Keys /\ conflicts \subseteq Keys

(* A call that holds a workspace may find it closed only when the time to  *)
(* live has passed since the call obtained it: evictStale never closes a   *)
(* connection under a call that is younger than that.                      *)
EvictedOnlyAfterTTL ==
  \A c \in Calls : call[c].pc \in Holding /\ ~Usable(c) => call[c].since + TTL < now

(* An open database that no key leads to and no call is making is the      *)
(* work of two first calls on one key, or of a making that failed; nothing *)
(* else loses one.                                                         *)
OrphansNeedARace ==
  \A e \in Entries :
    entry[e].open =>
      \/ workspaces[entry[e].key] = e
      \/ \E c \in Calls : call[c].pc \in Making /\ call[c].ws = e
      \/ entry[e].key \in troubled

(* Unless it was made twice, the workspace of a key holds exactly the rows *)
(* its calls have put in since the last drop or eviction, also those of    *)
(* appends that were refused for the row cap.                              *)
WorkspaceKeepsRows ==
  \A k \in Keys \ troubled :
    stored[k] = IF workspaces[k] = None THEN [t \in Tables |-> 0]
                                        ELSE db[workspaces[k]].rows

(* No table of an open workspace exceeds the cap in silence: some call was *)
(* refused for it or is about to count.                                    *)
OverCapIsReported ==
  \A e \in Entries, t \in Tables :
    entry[e].open /\ db[e].rows[t] > MaxRows =>
      \/ <<e, t>> \in refused
      \/ \E c \in Calls : /\ call[c].ws = e /\ call[c].table = t
                          /\ \/ call[c].pc = "written"
                             \/ call[c].pc = "counted" /\ call[c].total > MaxRows

(* As long as its calls come one at a time, tableMeta, which the table     *)
(* limit counts, lists the tables of a workspace; only tables over the row *)
(* cap may be missing.                                                     *)
MetaTracksTables ==
  \A k \in Keys \ overlapped :
    LET d == db[workspaces[k]]
    IN  workspaces[k] # None /\ (\A c \in Calls : call[c].key # k) =>
          d.meta \subseteq d.has /\ \A t \in d.has \ d.meta : d.rows[t] > MaxRows

(* CREATE, ALTER, INSERT and DROP follow a look at the tables by several   *)
(* awaits; they fail on what they find only when calls overlap.            *)
ConflictsNeedOverlap == conflicts \subseteq overlapped

(* The NDJSON file exists only while its append is in the try block.       *)
TmpFilesBelongToAppends ==
  \A c \in tmp : call[c].kind = "append" /\ call[c].pc \in Holding \ {"ensured"}

=============================================================================
