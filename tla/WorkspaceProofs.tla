--------------------------- MODULE WorkspaceProofs ---------------------------
(***************************************************************************)
(* Theorems about Workspace, for any number of calls, keys, tables, rows   *)
(* and ticks.                                                              *)
(***************************************************************************)
EXTENDS Workspace, TLAPS

WorldTypes ==
  /\ workspaces \in [Keys -> Entries \cup {None}]
  /\ entry \in [Entries -> EntryRecords]
  /\ now \in Nat /\ started \in Nat
  /\ overlapped \subseteq Keys /\ troubled \subseteq Keys

DataTypes ==
  /\ db \in [Entries -> DbRecords]
  /\ stored \in [Keys -> [Tables -> Nat]]
  /\ refused \subseteq Entries \X Tables

CallTypes ==
  /\ call \in [Calls -> CallRecords]
  /\ tmp \subseteq Calls
  /\ conflicts \subseteq Keys

(* What the place of a call says of its record.                            *)
PlaceInv ==
  \A c \in Calls :
    call[c].pc # "idle" =>
      /\ call[c].key \in Keys /\ call[c].ws \in Entries
      /\ call[c].kind \in {"append", "drop"} => call[c].table \in Tables
      /\ call[c].pc = "columns" => call[c].todo \subseteq Cols

(* The map leads to open entries of the key; no entry was used after now.  *)
MapInv ==
  /\ \A k \in Keys :
       workspaces[k] # None => entry[workspaces[k]].open /\ entry[workspaces[k]].key = k
  /\ \A e \in Entries : /\ entry[e].lastAccess <= now
                        /\ entry[e].open => entry[e].key \in Keys

(* A workspace being made is open, in no map, and nobody else's.           *)
MakingInv ==
  \A c \in Calls :
    call[c].pc \in Making =>
      /\ entry[call[c].ws].open /\ entry[call[c].ws].key = call[c].key
      /\ \A k \in Keys : workspaces[k] # call[c].ws
      /\ workspaces[call[c].key] # None => call[c].key \in troubled
      /\ \A d \in Calls \ {c} :
           call[d].pc \in Making =>
             /\ call[d].ws # call[c].ws
             /\ call[d].key = call[c].key => call[c].key \in troubled

(* A workspace in use was touched when the call obtained it or later.      *)
HoldingInv ==
  \A c \in Calls :
    call[c].pc \in Holding =>
      /\ entry[call[c].ws].key # None
      /\ call[c].since <= now
      /\ call[c].since <= entry[call[c].ws].lastAccess
      /\ entry[call[c].ws].open \/ call[c].since + TTL < now

Inv == PlaceInv /\ MapInv /\ MakingInv /\ HoldingInv

IInv ==
  /\ WorldTypes /\ DataTypes /\ CallTypes
  /\ Inv /\ OrphansNeedARace /\ TmpFilesBelongToAppends

LEMMA InitIInv == Init => IInv
<1> SUFFICES ASSUME Init PROVE IInv
  OBVIOUS
<1> USE WorkspaceAssumption DEF Init
<1>1. WorldTypes
  BY DEF WorldTypes, NoEntry, EntryRecords
<1>2. DataTypes
  BY DEF DataTypes, NoTables, NoRows, DbRecords
<1>3. CallTypes
  BY DEF CallTypes, Idle, CallRecords, Kinds
<1>4. Inv /\ TmpFilesBelongToAppends
  BY DEF Inv, PlaceInv, MapInv, MakingInv, HoldingInv, Idle, Making, Holding, NoEntry,
         TmpFilesBelongToAppends
<1>5. OrphansNeedARace
  BY DEF OrphansNeedARace, NoEntry
<1> QED
  BY <1>1, <1>2, <1>3, <1>4, <1>5 DEF IInv

(* A step of call c that leaves the workspaces alone: the call goes on as  *)
(* r, or settles.                                                          *)
GoesOn(c, r) ==
  /\ call' = [call EXCEPT ![c] = r] /\ r \in CallRecords
  /\ r = Idle \/ r.pc \in Making \/ r.pc \in Holding \ {"ensured"}
  /\ r.pc \in Making => call[c].pc \in Making
  /\ r.pc \in Holding => call[c].pc \in Holding /\ r.since = call[c].since
  /\ r # Idle => /\ r.ws = call[c].ws /\ r.key = call[c].key
                 /\ r.kind = call[c].kind /\ r.table = call[c].table
                 /\ r.pc = "columns" => r.todo \subseteq Cols
  /\ tmp' \subseteq tmp \cup {c}
  /\ c \in tmp' => r.kind = "append" /\ r.pc \in Holding \ {"ensured"}

LEMMA GoingOnKeeps ==
  ASSUME IInv, NEW c \in Calls, call[c].pc # "idle", NEW r, GoesOn(c, r),
         UNCHANGED <<workspaces, entry, now, started, overlapped>>,
         troubled \subseteq troubled', troubled' \subseteq Keys,
         call[c].pc \in Making /\ r.pc \notin Making => call[c].key \in troubled',
         DataTypes', conflicts' \subseteq Keys
  PROVE  IInv'
<1>1. call \in [Calls -> CallRecords] /\ call' = [call EXCEPT ![c] = r] /\ r \in CallRecords
  BY DEF IInv, CallTypes, GoesOn
<1>2. /\ call'[c] = r
      /\ \A d \in Calls \ {c} : call'[d] = call[d]
  BY <1>1
<1>3. WorldTypes' /\ CallTypes'
  BY <1>1 DEF IInv, WorldTypes, CallTypes, GoesOn
<1>4. Idle.pc = "idle"
  BY DEF Idle
<1>5. PlaceInv' /\ MapInv'
  BY <1>2, <1>4 DEF IInv, Inv, PlaceInv, MapInv, GoesOn
<1>6. MakingInv'
  BY <1>2, <1>4 DEF IInv, Inv, MakingInv, GoesOn, Making, Holding
<1>7. HoldingInv'
  BY <1>2, <1>4 DEF IInv, Inv, HoldingInv, GoesOn, Making, Holding
<1>8. OrphansNeedARace'
  BY <1>2, <1>4 DEF IInv, Inv, MakingInv, OrphansNeedARace, GoesOn, Making
<1>9. TmpFilesBelongToAppends'
  BY <1>2 DEF IInv, TmpFilesBelongToAppends, CallTypes, GoesOn
<1> QED
  BY <1>3, <1>5, <1>6, <1>7, <1>8, <1>9 DEF IInv, Inv

(* What ensureWorkspace does to the entries that are not new.              *)
Swept(e) ==
  /\ entry'[e].key = entry[e].key
  /\ entry'[e].lastAccess \in {entry[e].lastAccess, now}
  /\ entry'[e].open <=> entry[e].open /\ e \notin {workspaces[x] : x \in Stale}

LEMMA SweptUnaged ==
  ASSUME WorldTypes, NEW e \in Entries, Swept(e), entry[e].open, ~entry'[e].open
  PROVE  entry[e].lastAccess + TTL < now
  BY DEF Swept, Stale, Aged

LEMMA SharingSweeps ==
  ASSUME IInv, NEW k \in Keys, Shared(k),
         entry' = [e \in Entries |-> IF e = workspaces[k] THEN Touched(e) ELSE Evicted(e)]
  PROVE  /\ entry' \in [Entries -> EntryRecords]
         /\ \A e \in Entries : Swept(e)
         /\ entry'[workspaces[k]].lastAccess = now
         /\ entry'[workspaces[k]].open
<1>1. entry \in [Entries -> EntryRecords] /\ now \in Nat
      /\ workspaces[k] \in Entries /\ entry[workspaces[k]].open
      /\ workspaces[k] \notin {workspaces[x] : x \in Stale}
  BY DEF IInv, WorldTypes, Inv, MapInv, Shared, Stale
<1>2. ASSUME NEW e \in Entries
      PROVE  /\ Touched(e) \in EntryRecords /\ Evicted(e) \in EntryRecords
             /\ Touched(e).key = entry[e].key /\ Evicted(e).key = entry[e].key
             /\ Touched(e).open = entry[e].open /\ Touched(e).lastAccess = now
             /\ Evicted(e).lastAccess = entry[e].lastAccess
             /\ Evicted(e).open <=> entry[e].open /\ e \notin {workspaces[x] : x \in Stale}
  BY <1>1 DEF Touched, Evicted, EntryRecords
<1>3. \A e \in Entries : Swept(e)
  BY <1>1, <1>2 DEF Swept
<1> QED
  BY <1>1, <1>2, <1>3

LEMMA MakingSweeps ==
  ASSUME IInv, NEW k \in Keys, NEW new \in Entries, entry[new].key = None,
         entry' = [e \in Entries |->
                     IF e = new THEN [NoEntry EXCEPT !.key = k, !.open = TRUE]
                                ELSE Evicted(e)]
  PROVE  /\ entry' \in [Entries -> EntryRecords]
         /\ \A e \in Entries \ {new} : Swept(e)
         /\ entry'[new].key = k /\ entry'[new].open /\ entry'[new].lastAccess = 0
<1>1. entry \in [Entries -> EntryRecords]
  BY DEF IInv, WorldTypes
<1>2. ASSUME NEW e \in Entries
      PROVE  /\ Evicted(e) \in EntryRecords
             /\ Evicted(e).key = entry[e].key
             /\ Evicted(e).lastAccess = entry[e].lastAccess
             /\ Evicted(e).open <=> entry[e].open /\ e \notin {workspaces[x] : x \in Stale}
  BY <1>1 DEF Evicted, EntryRecords
<1> DEFINE fresh == [NoEntry EXCEPT !.key = k, !.open = TRUE]
<1>3. fresh \in EntryRecords /\ fresh.key = k /\ fresh.open /\ fresh.lastAccess = 0
  BY DEF NoEntry, EntryRecords
<1>4. \A e \in Entries \ {new} : Swept(e)
  BY <1>2 DEF Swept
<1> QED
  BY <1>2, <1>3, <1>4

(* The map after a sweep.                                                  *)
LEMMA MapSwept ==
  ASSUME IInv, NEW x \in Keys,
         workspaces' = [y \in Keys |-> IF y \in Stale THEN None ELSE workspaces[y]]
  PROVE  /\ workspaces' \in [Keys -> Entries \cup {None}]
         /\ x \notin Stale => workspaces'[x] = workspaces[x]
         /\ workspaces'[x] # None =>
              /\ workspaces'[x] = workspaces[x] /\ workspaces[x] \in Entries
              /\ entry[workspaces[x]].open /\ entry[workspaces[x]].key = x
              /\ workspaces[x] \notin {workspaces[y] : y \in Stale}
<1>1. workspaces \in [Keys -> Entries \cup {None}]
  BY DEF IInv, WorldTypes
<1>2. workspaces[x] # None => entry[workspaces[x]].open /\ entry[workspaces[x]].key = x
  BY DEF IInv, Inv, MapInv
<1>3. x \notin Stale => workspaces[x] = None \/ workspaces[x] \notin {workspaces[y] : y \in Stale}
  BY DEF Stale
<1> QED
  BY <1>1, <1>2, <1>3

(* What a sweep leaves true of the calls that hold the swept workspaces.   *)
LEMMA MakingSwept ==
  ASSUME IInv, NEW d \in Calls, call[d].pc \in Making, Swept(call[d].ws),
         workspaces' = [y \in Keys |-> IF y \in Stale THEN None ELSE workspaces[y]]
  PROVE  /\ call[d].key \in Keys
         /\ entry'[call[d].ws].open /\ entry'[call[d].ws].key = call[d].key
         /\ \A x \in Keys : workspaces'[x] # call[d].ws
<1>1. call[d].ws \in Entries /\ call[d].key \in Keys /\ call[d].ws # None
  BY WorkspaceAssumption DEF IInv, Inv, PlaceInv, Making
<1>2. entry[call[d].ws].open /\ entry[call[d].ws].key = call[d].key
      /\ \A x \in Keys : workspaces[x] # call[d].ws
  BY DEF IInv, Inv, MakingInv
<1>3. \A x \in Keys : workspaces'[x] # call[d].ws
  BY <1>1, <1>2, MapSwept
<1>4. call[d].ws \notin {workspaces[x] : x \in Stale}
  BY <1>2 DEF Stale
<1> QED
  BY <1>1, <1>2, <1>3, <1>4 DEF Swept

LEMMA HoldingSwept ==
  ASSUME IInv, NEW d \in Calls, call[d].pc \in Holding, Swept(call[d].ws)
  PROVE  /\ entry'[call[d].ws].key # None
         /\ call[d].since <= now
         /\ call[d].since <= entry'[call[d].ws].lastAccess
         /\ entry'[call[d].ws].open \/ call[d].since + TTL < now
<1> DEFINE e == call[d].ws
<1>1. /\ e \in Entries /\ call[d].since \in Nat /\ entry[e].lastAccess \in Nat
      /\ TTL \in Nat /\ now \in Nat
  BY WorkspaceAssumption
     DEF IInv, WorldTypes, CallTypes, Inv, PlaceInv, Holding, CallRecords, EntryRecords
<1>2. /\ entry[e].key # None /\ call[d].since <= now
      /\ call[d].since <= entry[e].lastAccess
      /\ entry[e].open \/ call[d].since + TTL < now
  BY DEF IInv, Inv, HoldingInv
<1>3. Swept(e) /\ (entry[e].open /\ ~entry'[e].open => entry[e].lastAccess + TTL < now)
  BY <1>1, SweptUnaged DEF IInv
<1> HIDE DEF e
<1>4. entry'[e].key # None /\ call[d].since <= entry'[e].lastAccess
  BY <1>1, <1>2, <1>3 DEF Swept
<1>5. entry'[e].open \/ call[d].since + TTL < now
  BY <1>1, <1>2, <1>3
<1> QED
  BY <1>2, <1>4, <1>5 DEF e

LEMMA OrphansSwept ==
  ASSUME IInv, NEW e \in Entries, Swept(e), entry'[e].open,
         workspaces' = [y \in Keys |-> IF y \in Stale THEN None ELSE workspaces[y]]
  PROVE  \/ workspaces'[entry'[e].key] = e
         \/ \E d \in Calls : call[d].pc \in Making /\ call[d].ws = e
         \/ entry'[e].key \in troubled
<1>1. /\ entry[e].open /\ e \notin {workspaces[x] : x \in Stale}
      /\ entry'[e].key = entry[e].key /\ entry[e].key \in Keys
  BY DEF Swept, IInv, Inv, MapInv
<1>2. CASE workspaces[entry[e].key] = e
  <2>1. entry[e].key \notin Stale
    BY <1>1, <1>2
  <2> QED
    BY <1>1, <1>2, <2>1
<1> QED
  BY <1>1, <1>2 DEF IInv, OrphansNeedARace

LEMMA EnsureSharedKeeps ==
  ASSUME IInv, NEW c \in Calls, NEW k \in Keys, NEW r \in CallRecords,
         call[c].pc \in {"idle", "ensured"}, c \notin tmp, Shared(k), r.key = k,
         r.kind \in {"append", "drop"} => r.table \in Tables,
         workspaces' = [x \in Keys |-> IF x \in Stale THEN None ELSE workspaces[x]],
         stored' = [x \in Keys |-> IF x \in Stale THEN NoRows ELSE stored[x]],
         entry' = [e \in Entries |-> IF e = workspaces[k] THEN Touched(e) ELSE Evicted(e)],
         call' = [call EXCEPT ![c] = [r EXCEPT !.pc = "ensured", !.since = now,
                                               !.ws = workspaces[k]]],
         started' \in Nat, overlapped' \subseteq Keys,
         UNCHANGED <<now, troubled, db, refused, tmp, conflicts>>
  PROVE  IInv'
<1> DEFINE s == [r EXCEPT !.pc = "ensured", !.since = now, !.ws = workspaces[k]]
<1>1. /\ entry' \in [Entries -> EntryRecords] /\ \A e \in Entries : Swept(e)
      /\ entry'[workspaces[k]].lastAccess = now /\ entry'[workspaces[k]].open
  BY SharingSweeps
<1>2. /\ workspaces[k] \in Entries /\ now \in Nat /\ entry[workspaces[k]].key = k
      /\ call \in [Calls -> CallRecords] /\ entry \in [Entries -> EntryRecords]
  BY DEF Shared, IInv, WorldTypes, CallTypes, Inv, MapInv
<1>3. /\ s \in CallRecords /\ s.pc = "ensured" /\ s.since = now /\ s.ws = workspaces[k]
      /\ s.key = k /\ s.kind = r.kind /\ s.table = r.table
  BY <1>2 DEF CallRecords, Holding
<1>4. call' \in [Calls -> CallRecords] /\ call'[c] = s
      /\ \A d \in Calls \ {c} : call'[d] = call[d]
  BY <1>2, <1>3
<1> HIDE DEF s
<1>5. WorldTypes' /\ CallTypes'
  BY <1>1, <1>4, MapSwept DEF IInv, WorldTypes, CallTypes
<1>6. DataTypes'
  BY DEF IInv, DataTypes, NoRows
<1>7. PlaceInv'
  BY <1>2, <1>3, <1>4 DEF IInv, Inv, PlaceInv
<1>8. MapInv'
  <2>1. ASSUME NEW x \in Keys, workspaces'[x] # None
        PROVE  entry'[workspaces'[x]].open /\ entry'[workspaces'[x]].key = x
    BY <1>1, <2>1, MapSwept DEF Swept
  <2>2. ASSUME NEW e \in Entries
        PROVE  entry'[e].lastAccess <= now /\ (entry'[e].open => entry'[e].key \in Keys)
    BY <1>1, <1>2 DEF IInv, Inv, MapInv, Swept
  <2> QED
    BY <2>1, <2>2 DEF MapInv
<1>9. MakingInv'
  <2>1. ASSUME NEW d \in Calls, call'[d].pc \in Making PROVE d # c /\ call'[d] = call[d]
    BY <1>3, <1>4, <2>1 DEF Making
  <2>2. ASSUME NEW d \in Calls, call[d].pc \in Making
        PROVE  /\ entry'[call[d].ws].open /\ entry'[call[d].ws].key = call[d].key
               /\ \A x \in Keys : workspaces'[x] # call[d].ws
               /\ call[d].key \in Keys
    <3>1. call[d].ws \in Entries
      BY <2>2 DEF IInv, Inv, PlaceInv, Making
    <3> QED
      BY <1>1, <2>2, <3>1, MakingSwept
  <2>3. ASSUME NEW x \in Keys, workspaces'[x] # None PROVE workspaces[x] # None
    BY <2>3, MapSwept
  <2> QED
    BY <2>1, <2>2, <2>3 DEF IInv, Inv, MakingInv
<1>10. HoldingInv'
  <2>1. ASSUME NEW d \in Calls \ {c}, call[d].pc \in Holding
        PROVE  /\ entry'[call[d].ws].key # None
               /\ call[d].since <= now
               /\ call[d].since <= entry'[call[d].ws].lastAccess
               /\ entry'[call[d].ws].open \/ call[d].since + TTL < now
    <3>1. call[d].ws \in Entries
      BY <2>1 DEF IInv, Inv, PlaceInv, Holding
    <3> QED
      BY <1>1, <2>1, <3>1, HoldingSwept
  <2>2. /\ entry'[workspaces[k]].key # None
        /\ now <= entry'[workspaces[k]].lastAccess
    BY <1>1, <1>2, WorkspaceAssumption DEF Swept
  <2> QED
    BY <1>1, <1>2, <1>3, <1>4, <2>1, <2>2 DEF HoldingInv
<1>11. OrphansNeedARace'
  <2> SUFFICES ASSUME NEW e \in Entries, entry'[e].open
               PROVE  \/ workspaces'[entry'[e].key] = e
                      \/ \E d \in Calls : call'[d].pc \in Making /\ call'[d].ws = e
                      \/ entry'[e].key \in troubled'
    BY DEF OrphansNeedARace
  <2>1. ASSUME NEW d \in Calls, call[d].pc \in Making
        PROVE  call'[d].pc \in Making /\ call'[d].ws = call[d].ws
    BY <1>4, <2>1 DEF Making
  <2> QED
    BY <1>1, <2>1, OrphansSwept
<1>12. TmpFilesBelongToAppends'
  BY <1>4 DEF IInv, CallTypes, TmpFilesBelongToAppends
<1> QED
  BY <1>5, <1>6, <1>7, <1>8, <1>9, <1>10, <1>11, <1>12 DEF IInv, Inv

LEMMA EnsureNewKeeps ==
  ASSUME IInv, NEW c \in Calls, NEW k \in Keys, NEW r \in CallRecords,
         call[c].pc \in {"idle", "ensured"}, c \notin tmp, ~Shared(k), r.key = k,
         r.kind \in {"append", "drop"} => r.table \in Tables,
         NEW new \in Entries, entry[new].key = None,
         workspaces' = [x \in Keys |-> IF x \in Stale THEN None ELSE workspaces[x]],
         stored' = [x \in Keys |-> IF x \in Stale THEN NoRows ELSE stored[x]],
         entry' = [e \in Entries |->
                     IF e = new THEN [NoEntry EXCEPT !.key = k, !.open = TRUE]
                                ELSE Evicted(e)],
         call' = [call EXCEPT ![c] = [r EXCEPT !.pc = "creating", !.ws = new]],
         troubled' = troubled \cup
           {x \in {k} : \E d \in Calls \ {c} : call[d].pc \in Making /\ call[d].key = k},
         started' \in Nat, overlapped' \subseteq Keys,
         UNCHANGED <<now, db, refused, tmp, conflicts>>
  PROVE  IInv'
<1> DEFINE s == [r EXCEPT !.pc = "creating", !.ws = new]
<1>1. /\ entry' \in [Entries -> EntryRecords]
      /\ \A e \in Entries \ {new} : Swept(e)
      /\ entry'[new].key = k /\ entry'[new].open /\ entry'[new].lastAccess = 0
  BY MakingSweeps
<1>2. /\ now \in Nat /\ call \in [Calls -> CallRecords] /\ entry \in [Entries -> EntryRecords]
      /\ k # None /\ new # None
  BY WorkspaceAssumption DEF IInv, WorldTypes, CallTypes
<1>3. /\ s \in CallRecords /\ s.pc = "creating" /\ s.ws = new
      /\ s.key = k /\ s.kind = r.kind /\ s.table = r.table
  BY <1>2 DEF CallRecords, Making
<1>4. call' \in [Calls -> CallRecords] /\ call'[c] = s
      /\ \A d \in Calls \ {c} : call'[d] = call[d]
  BY <1>2, <1>3
<1> HIDE DEF s
<1>5. \A x \in Keys : workspaces'[x] # new
  <2>1. ASSUME NEW x \in Keys, workspaces'[x] = new PROVE FALSE
    <3>1. entry[new].key = x
      BY <1>2, <2>1, MapSwept
    <3> QED
      BY <3>1, WorkspaceAssumption
  <2> QED
    BY <2>1
<1>6. ASSUME NEW d \in Calls, call[d].pc \in Making \cup Holding
      PROVE  call[d].ws \in Entries /\ call[d].ws # new /\ Swept(call[d].ws)
  <2>1. call[d].ws \in Entries /\ entry[call[d].ws].key # None
    BY <1>6, WorkspaceAssumption
       DEF IInv, Inv, PlaceInv, MakingInv, HoldingInv, Making, Holding
  <2> QED
    BY <1>1, <2>1
<1>7. WorldTypes' /\ CallTypes'
  BY <1>1, <1>4, MapSwept DEF IInv, WorldTypes, CallTypes
<1>8. DataTypes'
  BY DEF IInv, DataTypes, NoRows
<1>9. PlaceInv'
  BY <1>3, <1>4 DEF IInv, Inv, PlaceInv
<1>10. MapInv'
  <2>1. ASSUME NEW x \in Keys, workspaces'[x] # None
        PROVE  entry'[workspaces'[x]].open /\ entry'[workspaces'[x]].key = x
    BY <1>1, <1>5, <2>1, MapSwept DEF Swept
  <2>2. ASSUME NEW e \in Entries
        PROVE  entry'[e].lastAccess <= now /\ (entry'[e].open => entry'[e].key \in Keys)
    <3>1. CASE e = new
      BY <1>1, <1>2, <3>1
    <3>2. CASE e # new
      BY <1>1, <1>2, <3>2 DEF IInv, Inv, MapInv, Swept
    <3> QED
      BY <3>1, <3>2
  <2> QED
    BY <2>1, <2>2 DEF MapInv
<1>11. MakingInv'
  <2>1. ASSUME NEW d \in Calls, call[d].pc \in Making
        PROVE  /\ entry'[call[d].ws].open /\ entry'[call[d].ws].key = call[d].key
               /\ \A x \in Keys : workspaces'[x] # call[d].ws
               /\ call[d].key \in Keys /\ call[d].ws # new /\ d # c
    BY <1>6, <2>1, MakingSwept DEF Making
  <2>2. ASSUME NEW x \in Keys, workspaces'[x] # None PROVE workspaces[x] # None
    BY <2>2, MapSwept
  <2>3. workspaces'[k] = None
    BY MapSwept DEF Shared
  <2>4. ASSUME NEW d \in Calls \ {c}, call[d].pc \in Making, call[d].key = k
        PROVE  k \in troubled'
    BY <2>4
  <2>5. call'[c].pc \in Making /\ call'[c].ws = new /\ call'[c].key = k
    BY <1>3, <1>4 DEF Making
  <2>6. troubled \subseteq troubled'
    OBVIOUS
  <2>7. ASSUME NEW d \in Calls \ {c}, call'[d].pc \in Making
        PROVE  /\ entry'[call'[d].ws].open /\ entry'[call'[d].ws].key = call'[d].key
               /\ \A x \in Keys : workspaces'[x] # call'[d].ws
               /\ workspaces'[call'[d].key] # None => call'[d].key \in troubled'
               /\ \A b \in Calls \ {d} :
                    call'[b].pc \in Making =>
                      /\ call'[b].ws # call'[d].ws
                      /\ call'[b].key = call'[d].key => call'[d].key \in troubled'
    <3>1. call'[d] = call[d] /\ call[d].pc \in Making
      BY <1>4, <2>7
    <3>2. workspaces'[call[d].key] # None => call[d].key \in troubled'
      BY <2>1, <2>2, <2>6, <3>1 DEF IInv, Inv, MakingInv
    <3>3. ASSUME NEW b \in Calls \ {c, d}, call[b].pc \in Making
          PROVE  /\ call[b].ws # call[d].ws
                 /\ call[b].key = call[d].key => call[d].key \in troubled'
      BY <2>6, <3>1, <3>3 DEF IInv, Inv, MakingInv
    <3>4. call'[c].ws # call[d].ws /\ (k = call[d].key => call[d].key \in troubled')
      BY <2>1, <2>4, <2>5, <3>1
    <3> QED
      BY <1>4, <2>1, <2>5, <3>1, <3>2, <3>3, <3>4
  <2>8. /\ entry'[new].open /\ entry'[new].key = k
        /\ \A d \in Calls \ {c} :
             call'[d].pc \in Making =>
               call'[d].ws # new /\ (call'[d].key = k => k \in troubled')
    BY <1>1, <1>4, <2>1, <2>4
  <2> QED
    BY <1>5, <2>3, <2>5, <2>7, <2>8 DEF MakingInv
<1>12. HoldingInv'
  <2>1. ASSUME NEW d \in Calls, call'[d].pc \in Holding PROVE d # c /\ call'[d] = call[d]
    BY <1>3, <1>4, <2>1 DEF Holding
  <2> QED
    BY <1>6, <2>1, HoldingSwept DEF HoldingInv
<1>13. OrphansNeedARace'
  <2>1. call'[c].pc \in Making /\ call'[c].ws = new
    BY <1>3, <1>4 DEF Making
  <2>2. ASSUME NEW d \in Calls, call[d].pc \in Making
        PROVE  call'[d].pc \in Making /\ call'[d].ws = call[d].ws
    BY <1>4, <2>2 DEF Making
  <2>3. ASSUME NEW e \in Entries \ {new}, entry'[e].open
        PROVE  \/ workspaces'[entry'[e].key] = e
               \/ \E d \in Calls : call'[d].pc \in Making /\ call'[d].ws = e
               \/ entry'[e].key \in troubled'
    BY <1>1, <2>2, <2>3, OrphansSwept
  <2> QED
    BY <2>1, <2>3 DEF OrphansNeedARace
<1>14. TmpFilesBelongToAppends'
  BY <1>4 DEF IInv, CallTypes, TmpFilesBelongToAppends
<1> QED
  BY <1>7, <1>8, <1>9, <1>10, <1>11, <1>12, <1>13, <1>14 DEF IInv, Inv

LEMMA EnsureKeeps ==
  ASSUME IInv, NEW c \in Calls, NEW k \in Keys, NEW r \in CallRecords,
         call[c].pc \in {"idle", "ensured"}, Ensure(c, k, r), r.key = k,
         r.kind \in {"append", "drop"} => r.table \in Tables,
         started' \in Nat, overlapped' \subseteq Keys,
         UNCHANGED <<now, db, refused, tmp, conflicts>>
  PROVE  IInv'
<1>1. c \notin tmp
  BY DEF IInv, TmpFilesBelongToAppends, Holding
<1>2. /\ workspaces' = [x \in Keys |-> IF x \in Stale THEN None ELSE workspaces[x]]
      /\ stored' = [x \in Keys |-> IF x \in Stale THEN NoRows ELSE stored[x]]
  BY DEF Ensure
<1>3. CASE Shared(k)
  <2>1. /\ entry' = [e \in Entries |-> IF e = workspaces[k] THEN Touched(e) ELSE Evicted(e)]
        /\ call' = [call EXCEPT ![c] = [r EXCEPT !.pc = "ensured", !.since = now,
                                                 !.ws = workspaces[k]]]
        /\ UNCHANGED troubled
    BY <1>3 DEF Ensure
  <2> QED
    BY <1>1, <1>2, <1>3, <2>1, EnsureSharedKeeps
<1>4. CASE ~Shared(k)
  <2>1. PICK new \in Entries :
          /\ entry[new].key = None
          /\ entry' = [e \in Entries |->
               IF e = new THEN [NoEntry EXCEPT !.key = k, !.open = TRUE]
                          ELSE Evicted(e)]
          /\ call' = [call EXCEPT ![c] = [r EXCEPT !.pc = "creating", !.ws = new]]
    BY <1>4 DEF Ensure
  <2>2. troubled' = troubled \cup
          {x \in {k} : \E d \in Calls \ {c} : call[d].pc \in Making /\ call[d].key = k}
    BY <1>4 DEF Ensure
  <2> QED
    BY <1>1, <1>2, <1>4, <2>1, <2>2, EnsureNewKeeps
<1> QED
  BY <1>3, <1>4

LEMMA StartKeeps ==
  ASSUME IInv, NEW c \in Calls, NEW k \in Keys, NEW kind \in Kinds, NEW t \in Tables,
         NEW n \in Batches, NEW cols \in SUBSET Cols, NEW nulls \in SUBSET Cols,
         Start(c, k, kind, t, n, cols, nulls)
  PROVE  IInv'
<1> DEFINE r == [Idle EXCEPT !.kind = kind, !.key = k, !.n = n,
                !.cols = cols, !.nulls = nulls,
                !.table = IF kind \in {"append", "drop"} THEN t ELSE None]
<1>1. Idle \in CallRecords
  BY DEF Idle, CallRecords, Kinds
<1>2. /\ r \in CallRecords /\ r.key = k
      /\ r.kind \in {"append", "drop"} => r.table \in Tables
  BY <1>1, WorkspaceAssumption DEF CallRecords
<1>3. /\ call[c].pc = "idle" /\ Ensure(c, k, r)
      /\ UNCHANGED <<now, db, refused, tmp, conflicts>>
      /\ started' = started + 1
      /\ overlapped' = overlapped \cup {x \in {k} : \E d \in Calls : call[d].key = k}
  BY DEF Start
<1>4. started' \in Nat /\ overlapped' \subseteq Keys
  BY <1>3 DEF IInv, WorldTypes
<1> HIDE DEF r
<1> QED
  BY <1>2, <1>3, <1>4, EnsureKeeps

LEMMA ClearEnsureAgainKeeps ==
  ASSUME IInv, NEW c \in Calls, ClearEnsureAgain(c) PROVE IInv'
<1> DEFINE r == [call[c] EXCEPT !.first = call[c].ws]
<1>1. /\ call[c].pc = "ensured" /\ call[c].kind = "clear" /\ Ensure(c, call[c].key, r)
      /\ UNCHANGED <<now, started, overlapped, db, refused, tmp, conflicts>>
  BY DEF ClearEnsureAgain, At
<1>2. call[c] \in CallRecords /\ call[c].key \in Keys
  BY <1>1 DEF IInv, CallTypes, Inv, PlaceInv
<1>3. r \in CallRecords /\ r.key = call[c].key /\ r.kind = "clear"
  BY <1>1, <1>2 DEF CallRecords
<1>4. started' \in Nat /\ overlapped' \subseteq Keys
  BY <1>1 DEF IInv, WorldTypes
<1> HIDE DEF r
<1> QED
  BY <1>1, <1>2, <1>3, <1>4, EnsureKeeps

LEMMA PublishKeeps ==
  ASSUME IInv, NEW c \in Calls, Publish(c) PROVE IInv'
<1> DEFINE k == call[c].key
           w == call[c].ws
           r == [call[c] EXCEPT !.pc = "ensured", !.since = now]
           f == [entry[w] EXCEPT !.lastAccess = now]
<1>1. /\ call[c] \in CallRecords /\ k \in Keys /\ w \in Entries /\ w # None
      /\ call \in [Calls -> CallRecords] /\ entry \in [Entries -> EntryRecords]
      /\ workspaces \in [Keys -> Entries \cup {None}] /\ now \in Nat
      /\ call[c].pc = "configuring" /\ call[c].pc \in Making
  BY WorkspaceAssumption
     DEF Publish, IInv, WorldTypes, CallTypes, Inv, PlaceInv, Making
<1>2. /\ workspaces' = [workspaces EXCEPT ![k] = w]
      /\ entry' = [entry EXCEPT ![w] = f]
      /\ call' = [call EXCEPT ![c] = r]
      /\ UNCHANGED <<now, started, overlapped, troubled, db, stored, refused, tmp, conflicts>>
  BY <1>1 DEF Publish, data, CallRecords, EntryRecords
<1>3. /\ r \in CallRecords /\ r.pc = "ensured" /\ r.since = now
      /\ r.ws = w /\ r.key = k /\ r.kind = call[c].kind /\ r.table = call[c].table
  BY <1>1 DEF CallRecords, Holding
<1>4. f \in EntryRecords /\ f.open = entry[w].open /\ f.key = entry[w].key /\ f.lastAccess = now
  BY <1>1 DEF EntryRecords
<1>5. /\ entry[w].open /\ entry[w].key = k
      /\ \A x \in Keys : workspaces[x] # w
      /\ workspaces[k] # None => k \in troubled
      /\ \A d \in Calls \ {c} :
           call[d].pc \in Making => call[d].ws # w /\ (call[d].key = k => k \in troubled)
  BY <1>1 DEF IInv, Inv, MakingInv
<1> HIDE DEF r, f, k, w
<1>6. /\ call' \in [Calls -> CallRecords] /\ call'[c] = r
      /\ \A d \in Calls \ {c} : call'[d] = call[d]
      /\ entry' \in [Entries -> EntryRecords] /\ entry'[w] = f
      /\ \A e \in Entries \ {w} : entry'[e] = entry[e]
      /\ workspaces' \in [Keys -> Entries \cup {None}] /\ workspaces'[k] = w
      /\ \A x \in Keys \ {k} : workspaces'[x] = workspaces[x]
  BY <1>1, <1>2, <1>3, <1>4
<1>7. WorldTypes' /\ DataTypes' /\ CallTypes'
  BY <1>2, <1>6 DEF IInv, WorldTypes, DataTypes, CallTypes
<1>8. PlaceInv'
  BY <1>1, <1>3, <1>6 DEF IInv, Inv, PlaceInv, k
<1>9. MapInv'
  <2>1. ASSUME NEW x \in Keys, workspaces'[x] # None
        PROVE  entry'[workspaces'[x]].open /\ entry'[workspaces'[x]].key = x
    <3>1. CASE x = k
      BY <1>4, <1>5, <1>6, <3>1
    <3>2. CASE x # k
      BY <1>1, <1>5, <1>6, <2>1, <3>2 DEF IInv, Inv, MapInv
    <3> QED
      BY <3>1, <3>2
  <2>2. ASSUME NEW e \in Entries
        PROVE  entry'[e].lastAccess <= now /\ (entry'[e].open => entry'[e].key \in Keys)
    <3>1. CASE e = w
      BY <1>1, <1>4, <1>5, <1>6, <3>1
    <3>2. CASE e # w
      BY <1>6, <3>2 DEF IInv, Inv, MapInv
    <3> QED
      BY <3>1, <3>2
  <2> QED
    BY <1>2, <2>1, <2>2 DEF MapInv
<1>10. MakingInv'
  <2>1. ASSUME NEW d \in Calls, call'[d].pc \in Making
        PROVE  d # c /\ call'[d] = call[d] /\ call[d].pc \in Making /\ call[d].ws \in Entries
    BY <1>3, <1>6, <2>1 DEF Making, IInv, Inv, PlaceInv
  <2>2. ASSUME NEW d \in Calls \ {c}, call[d].pc \in Making
        PROVE  /\ entry'[call[d].ws].open /\ entry'[call[d].ws].key = call[d].key
               /\ \A x \in Keys : workspaces'[x] # call[d].ws
               /\ workspaces'[call[d].key] # None => call[d].key \in troubled
               /\ \A b \in Calls \ {d} :
                    call[b].pc \in Making =>
                      /\ call[b].ws # call[d].ws
                      /\ call[b].key = call[d].key => call[d].key \in troubled
    <3>1. /\ entry[call[d].ws].open /\ entry[call[d].ws].key = call[d].key
          /\ \A x \in Keys : workspaces[x] # call[d].ws
          /\ workspaces[call[d].key] # None => call[d].key \in troubled
          /\ \A b \in Calls \ {d} :
               call[b].pc \in Making =>
                 /\ call[b].ws # call[d].ws
                 /\ call[b].key = call[d].key => call[d].key \in troubled
          /\ call[d].ws \in Entries /\ call[d].key \in Keys
      BY <2>2 DEF IInv, Inv, MakingInv, PlaceInv, Making
    <3> QED
      BY <1>5, <1>6, <2>2, <3>1
  <2> QED
    BY <1>2, <2>1, <2>2 DEF MakingInv
<1>11. HoldingInv'
  <2>1. ASSUME NEW d \in Calls \ {c}, call[d].pc \in Holding
        PROVE  /\ entry'[call[d].ws].key # None
               /\ call[d].since <= now
               /\ call[d].since <= entry'[call[d].ws].lastAccess
               /\ entry'[call[d].ws].open \/ call[d].since + TTL < now
    <3>1. /\ call[d].ws \in Entries
          /\ entry[call[d].ws].key # None
          /\ call[d].since <= now
          /\ call[d].since <= entry[call[d].ws].lastAccess
          /\ entry[call[d].ws].open \/ call[d].since + TTL < now
      BY <2>1 DEF IInv, Inv, PlaceInv, HoldingInv, Holding
    <3>2. CASE call[d].ws = w
      BY <1>4, <1>5, <1>6, <3>1, <3>2
    <3>3. CASE call[d].ws # w
      BY <1>6, <3>1, <3>3
    <3> QED
      BY <3>2, <3>3
  <2>2. /\ entry'[w].key # None /\ entry'[w].open /\ now <= now
        /\ now <= entry'[w].lastAccess
    <3>1. k # None
      BY <1>1, WorkspaceAssumption
    <3>2. now <= now
      BY <1>1
    <3> QED
      BY <1>4, <1>5, <1>6, <3>1, <3>2
  <2> QED
    BY <1>2, <1>3, <1>6, <2>1, <2>2 DEF HoldingInv
<1>12. OrphansNeedARace'
  <2> SUFFICES ASSUME NEW e \in Entries, entry'[e].open
               PROVE  \/ workspaces'[entry'[e].key] = e
                      \/ \E d \in Calls : call'[d].pc \in Making /\ call'[d].ws = e
                      \/ entry'[e].key \in troubled
    BY <1>2 DEF OrphansNeedARace
  <2>1. CASE e = w
    BY <1>4, <1>5, <1>6, <2>1
  <2>2. CASE e # w
    <3>1. entry'[e] = entry[e] /\ entry[e].key \in Keys
      BY <1>6, <2>2 DEF IInv, Inv, MapInv
    <3>2. CASE workspaces[entry[e].key] = e
      <4>1. CASE entry[e].key = k
        BY <1>5, <3>1, <3>2, <4>1, WorkspaceAssumption
      <4>2. CASE entry[e].key # k
        BY <1>6, <3>1, <3>2, <4>2
      <4> QED
        BY <4>1, <4>2
    <3>3. ASSUME NEW d \in Calls, call[d].pc \in Making, call[d].ws = e
          PROVE  call'[d].pc \in Making /\ call'[d].ws = e
      <4>1. d # c
        BY <2>2, <3>3 DEF w
      <4> QED
        BY <1>6, <3>3, <4>1
    <3> QED
      BY <3>1, <3>2, <3>3 DEF IInv, OrphansNeedARace
  <2> QED
    BY <2>1, <2>2
<1>13. TmpFilesBelongToAppends'
  <2>1. c \notin tmp
    BY <1>1 DEF IInv, TmpFilesBelongToAppends, Holding
  <2> QED
    BY <1>2, <1>6, <2>1 DEF IInv, CallTypes, TmpFilesBelongToAppends
<1> QED
  BY <1>7, <1>8, <1>9, <1>10, <1>11, <1>12, <1>13 DEF IInv, Inv

-----------------------------------------------------------------------------
(* The steps that leave the workspaces alone.                              *)

LEMMA CallFacts ==
  ASSUME IInv, NEW c \in Calls
  PROVE  /\ call \in [Calls -> CallRecords] /\ call[c] \in CallRecords
         /\ call[c].pc # "idle" => call[c].key \in Keys /\ call[c].ws \in Entries
         /\ tmp \subseteq Calls /\ conflicts \subseteq Keys /\ troubled \subseteq Keys
  BY DEF IInv, CallTypes, WorldTypes, Inv, PlaceInv

LEMMA IdleTyped == Idle \in CallRecords /\ Idle.pc = "idle"
  BY DEF Idle, CallRecords, Kinds

(* The call settles.                                                       *)
LEMMA SettleKeeps ==
  ASSUME IInv, NEW c \in Calls, call[c].pc # "idle", Settle(c),
         UNCHANGED <<workspaces, entry, now, started, overlapped>>,
         troubled \subseteq troubled', troubled' \subseteq Keys,
         call[c].pc \in Making => call[c].key \in troubled',
         DataTypes', conflicts' \subseteq Keys
  PROVE  IInv'
<1>1. GoesOn(c, Idle)
  BY IdleTyped DEF Settle, GoesOn, Making, Holding
<1> QED
  BY <1>1, GoingOnKeeps

LEMMA SettleHereKeeps ==
  ASSUME IInv, NEW c \in Calls, call[c].pc \in Holding, Settle(c), UNCHANGED world,
         DataTypes', conflicts' \subseteq Keys
  PROVE  IInv'
<1>1. troubled' = troubled /\ troubled \subseteq Keys
  BY CallFacts DEF world
<1> QED
  BY <1>1, SettleKeeps DEF world, Holding, Making

LEMMA RejectKeeps ==
  ASSUME IInv, NEW c \in Calls, call[c].pc \in Holding, NEW e, Reject(c, e)
  PROVE  IInv'
<1>1. call[c].key \in Keys /\ conflicts \subseteq Keys
  BY CallFacts DEF Holding
<1>2. conflicts' \subseteq Keys
  BY <1>1 DEF Reject
<1>3. DataTypes'
  BY DEF Reject, data, IInv, DataTypes
<1> QED
  BY <1>2, <1>3, SettleHereKeeps DEF Reject

(* The call goes on from one place among those of a workspace to another.  *)
LEMMA HoldingKeeps ==
  ASSUME IInv, NEW c \in Calls, call[c].pc \in Holding, NEW r \in CallRecords,
         call' = [call EXCEPT ![c] = r], r.pc \in Holding \ {"ensured"},
         r.ws = call[c].ws, r.key = call[c].key, r.kind = call[c].kind,
         r.table = call[c].table, r.since = call[c].since,
         r.pc = "columns" => r.todo \subseteq Cols,
         tmp' \subseteq tmp \cup {c}, c \in tmp' => r.kind = "append",
         UNCHANGED world, DataTypes', UNCHANGED conflicts
  PROVE  IInv'
<1>1. r # Idle /\ r.pc \notin Making /\ call[c].pc # "idle" /\ call[c].pc \notin Making
  BY IdleTyped DEF Holding, Making
<1>2. GoesOn(c, r)
  BY <1>1 DEF GoesOn
<1>3. troubled' = troubled /\ troubled \subseteq Keys /\ conflicts' \subseteq Keys
  BY CallFacts DEF world
<1> QED
  BY <1>1, <1>2, <1>3, GoingOnKeeps DEF world

(* A file is there only for an append.                                     *)
LEMMA TmpOfAppend ==
  ASSUME IInv, NEW c \in tmp PROVE call[c].kind = "append"
  BY DEF IInv, TmpFilesBelongToAppends

LEMMA DataStays ==
  ASSUME IInv, UNCHANGED data PROVE DataTypes'
  BY DEF IInv, DataTypes, data

LEMMA ConnectKeeps ==
  ASSUME IInv, NEW c \in Calls, Connect(c) \/ Configure(c) PROVE IInv'
<1> DEFINE to == IF call[c].pc = "creating" THEN "connecting" ELSE "configuring"
           r == [call[c] EXCEPT !.pc = to]
<1>1. /\ call[c] \in CallRecords /\ call \in [Calls -> CallRecords]
      /\ call[c].pc \in {"creating", "connecting"}
      /\ conflicts \subseteq Keys /\ troubled \subseteq Keys
  BY CallFacts DEF Connect, Configure
<1>2. /\ call' = [call EXCEPT ![c] = r] /\ UNCHANGED <<world, data, tmp, conflicts>>
  BY <1>1 DEF Connect, Configure, Goto
<1>3. /\ r \in CallRecords /\ r.pc \in {"connecting", "configuring"}
      /\ r.ws = call[c].ws /\ r.key = call[c].key /\ r.kind = call[c].kind
      /\ r.table = call[c].table
  BY <1>1 DEF CallRecords, Making
<1> HIDE DEF r
<1>4. c \notin tmp
  BY <1>1 DEF IInv, TmpFilesBelongToAppends, Holding
<1>5. GoesOn(c, r)
  BY <1>1, <1>2, <1>3, <1>4, IdleTyped DEF GoesOn, Making, Holding
<1> QED
  BY <1>1, <1>2, <1>3, <1>5, DataStays, GoingOnKeeps DEF world, Making

LEMMA MakingFailsKeeps ==
  ASSUME IInv, NEW c \in Calls, MakingFails(c) PROVE IInv'
<1>1. call[c].key \in Keys /\ conflicts \subseteq Keys /\ troubled \subseteq Keys
  BY CallFacts DEF MakingFails, Making
<1>2. /\ troubled \subseteq troubled' /\ troubled' \subseteq Keys
      /\ call[c].key \in troubled' /\ conflicts' \subseteq Keys
  BY <1>1 DEF MakingFails
<1>3. DataTypes'
  BY DataStays DEF MakingFails
<1> QED
  BY <1>2, <1>3, SettleKeeps DEF MakingFails, Making

LEMMA DbPut ==
  ASSUME IInv, NEW e, NEW d \in DbRecords, db' = [db EXCEPT ![e] = d]
  PROVE  db' \in [Entries -> DbRecords]
<1>1. db \in [Entries -> DbRecords]
  BY DEF IInv, DataTypes
<1> QED
  BY <1>1

LEMMA PlacesHold ==
  /\ Holding \subseteq {"idle"} \cup Making \cup Holding
  /\ {"looked", "columns", "written", "counted", "dropped", "listed", "clearing"}
       \subseteq Holding \ {"ensured"}
  /\ {"ensured", "looked", "columns", "written", "counted", "dropped", "listed",
      "clearing"} \subseteq Holding
  BY DEF Holding

LEMMA AppendLookKeeps ==
  ASSUME IInv, NEW c \in Calls, AppendLook(c) PROVE IInv'
<1> DEFINE r == [call[c] EXCEPT !.pc = "looked", !.found = Exists(c)]
<1>1. /\ call[c].pc = "ensured" /\ call[c].kind = "append"
      /\ tmp' = IF call[c].n = 0 THEN tmp ELSE tmp \cup {c}
      /\ UNCHANGED <<world, data, conflicts>>
  BY DEF AppendLook, At
<1>2. call[c] \in CallRecords /\ call \in [Calls -> CallRecords]
  BY CallFacts
<1>3. call' = [call EXCEPT ![c] = r]
  BY <1>2 DEF AppendLook, CallRecords
<1>4. Exists(c) \in BOOLEAN
  BY DEF Exists
<1>5. /\ r \in CallRecords /\ r.pc = "looked" /\ r.ws = call[c].ws /\ r.key = call[c].key
      /\ r.kind = "append" /\ r.table = call[c].table /\ r.since = call[c].since
  BY <1>1, <1>2, <1>4, PlacesHold DEF CallRecords
<1> HIDE DEF r
<1> QED
  BY <1>1, <1>3, <1>5, PlacesHold, DataStays, HoldingKeeps

LEMMA AppendNothingKeeps ==
  ASSUME IInv, NEW c \in Calls, AppendNothing(c) PROVE IInv'
  BY PlacesHold, DataStays, CallFacts, SettleHereKeeps, RejectKeeps
     DEF AppendNothing, At

LEMMA AppendFullKeeps ==
  ASSUME IInv, NEW c \in Calls, AppendFull(c) PROVE IInv'
  BY PlacesHold, DataStays, CallFacts, SettleHereKeeps DEF AppendFull, At

(* CREATE or INSERT.                                                       *)
LEMMA WriteKeeps ==
  ASSUME IInv, NEW c \in Calls, call[c].pc \in Holding, call[c].kind = "append",
         NEW d \in DbRecords, Write(c, d)
  PROVE  IInv'
<1> DEFINE r == [call[c] EXCEPT !.pc = "written"]
<1>1. /\ call[c] \in CallRecords /\ call \in [Calls -> CallRecords]
      /\ call[c].n \in Nat
  BY CallFacts DEF CallRecords
<1>2. call' = [call EXCEPT ![c] = r] /\ UNCHANGED <<world, refused, conflicts, tmp>>
  BY <1>1 DEF Write, Goto
<1>3. /\ r \in CallRecords /\ r.pc = "written" /\ r.ws = call[c].ws /\ r.key = call[c].key
      /\ r.kind = "append" /\ r.table = call[c].table /\ r.since = call[c].since
  BY <1>1, PlacesHold DEF CallRecords
<1>4. DataTypes'
  <2>1. /\ db' = [db EXCEPT ![call[c].ws] = d]
        /\ stored' = [stored EXCEPT ![call[c].key][call[c].table] = @ + call[c].n]
        /\ UNCHANGED refused
    BY DEF Write
  <2>2. db \in [Entries -> DbRecords] /\ stored \in [Keys -> [Tables -> Nat]]
    BY DEF IInv, DataTypes
  <2>3. db' \in [Entries -> DbRecords]
    BY <2>1, <2>2
  <2>4. stored' \in [Keys -> [Tables -> Nat]]
    <3> DEFINE k == call[c].key
               t == call[c].table
               more == [stored[k] EXCEPT ![t] = @ + call[c].n]
    <3>1. k \in Keys /\ t \in Tables
      BY CallFacts DEF IInv, Inv, PlaceInv, Holding
    <3>2. stored[k] \in [Tables -> Nat] /\ stored[k][t] + call[c].n \in Nat
      BY <1>1, <2>2, <3>1
    <3>3. more \in [Tables -> Nat]
      BY <3>2
    <3>4. stored' = [stored EXCEPT ![k] = more]
      BY <2>1
    <3> HIDE DEF more, k
    <3> QED
      BY <2>2, <3>3, <3>4
  <2> QED
    BY <2>1, <2>3, <2>4 DEF IInv, DataTypes
<1> HIDE DEF r
<1> QED
  BY <1>2, <1>3, <1>4, PlacesHold, HoldingKeeps

LEMMA AppendCreateKeeps ==
  ASSUME IInv, NEW c \in Calls, AppendCreate(c) PROVE IInv'
<1> DEFINE t == call[c].table
           d == [Db(c) EXCEPT !.has = @ \cup {t}, !.rows[t] = call[c].n,
                              !.cols[t] = call[c].cols \cup call[c].nulls]
<1>1. call[c].pc = "looked" /\ call[c].kind = "append"
  BY DEF AppendCreate, At
<1>2. /\ call[c] \in CallRecords /\ t \in Tables /\ Db(c) \in DbRecords
  BY <1>1, CallFacts DEF IInv, Inv, PlaceInv, DataTypes, Db
<1>3. d \in DbRecords
  BY <1>2 DEF CallRecords, DbRecords
<1>4. Write(c, d) \/ Reject(c, call[c].ws)
  BY DEF AppendCreate
<1> HIDE DEF d
<1> QED
  BY <1>1, <1>3, <1>4, PlacesHold, WriteKeeps, RejectKeeps

LEMMA AppendColumnsKeeps ==
  ASSUME IInv, NEW c \in Calls, AppendColumns(c) PROVE IInv'
<1> DEFINE left == call[c].cols \ Db(c).cols[call[c].table]
           r == [call[c] EXCEPT !.pc = "columns", !.todo = left]
<1>1. call[c].pc = "looked" /\ call[c].kind = "append"
  BY DEF AppendColumns, At
<1>2. call[c] \in CallRecords /\ call \in [Calls -> CallRecords]
  BY CallFacts
<1>3. CASE Reject(c, call[c].ws)
  BY <1>1, <1>3, PlacesHold, RejectKeeps
<1>4. CASE ~Reject(c, call[c].ws)
  <2>1. call' = [call EXCEPT ![c] = r] /\ UNCHANGED <<world, data, tmp, conflicts>>
    BY <1>2, <1>4 DEF AppendColumns, Missing, CallRecords
  <2>2. left \subseteq Cols
    BY <1>2 DEF CallRecords
  <2>3. /\ r \in CallRecords /\ r.pc = "columns" /\ r.todo = left
        /\ r.ws = call[c].ws /\ r.key = call[c].key
        /\ r.kind = "append" /\ r.table = call[c].table /\ r.since = call[c].since
    BY <1>1, <1>2, <2>2, PlacesHold DEF CallRecords
  <2> HIDE DEF r
  <2> QED
    BY <1>1, <2>1, <2>2, <2>3, PlacesHold, DataStays, HoldingKeeps
<1> QED
  BY <1>3, <1>4

LEMMA AppendAlterKeeps ==
  ASSUME IInv, NEW c \in Calls, AppendAlter(c) PROVE IInv'
<1>1. /\ call[c].pc = "columns" /\ call[c].kind = "append"
      /\ call[c] \in CallRecords /\ call \in [Calls -> CallRecords]
      /\ call[c].todo \subseteq Cols /\ call[c].ws \in Entries
  BY CallFacts DEF AppendAlter, At, IInv, Inv, PlaceInv
<1>2. CASE Reject(c, call[c].ws)
  BY <1>1, <1>2, PlacesHold, RejectKeeps
<1>3. ASSUME NEW col \in call[c].todo,
             db' = [db EXCEPT ![call[c].ws].cols[call[c].table] = @ \cup {col}],
             call' = [call EXCEPT ![c].todo = @ \ {col}],
             UNCHANGED <<world, stored, refused, tmp, conflicts>>
      PROVE  IInv'
  <2> DEFINE r == [call[c] EXCEPT !.todo = @ \ {col}]
  <2>1. call' = [call EXCEPT ![c] = r]
    BY <1>1, <1>3 DEF CallRecords
  <2>2. /\ r \in CallRecords /\ r.pc = "columns" /\ r.todo \subseteq Cols
        /\ r.ws = call[c].ws /\ r.key = call[c].key
        /\ r.kind = "append" /\ r.table = call[c].table /\ r.since = call[c].since
    BY <1>1 DEF CallRecords
  <2>3. DataTypes'
    <3> DEFINE old == db[call[c].ws]
               t == call[c].table
               d == [old EXCEPT !.cols[t] = @ \cup {col}]
    <3>2. old \in DbRecords /\ t \in Tables
      BY <1>1 DEF IInv, DataTypes, Inv, PlaceInv
    <3>3. old.cols[t] \cup {col} \in SUBSET Cols
      BY <1>1, <3>2 DEF DbRecords
    <3>4. d \in DbRecords
      BY <3>2, <3>3 DEF DbRecords
    <3>5. db' = [db EXCEPT ![call[c].ws] = d]
      BY <1>3
    <3> HIDE DEF d
    <3>1. db' \in [Entries -> DbRecords]
      BY <3>4, <3>5, DbPut
    <3> QED
      BY <1>3, <3>1 DEF IInv, DataTypes
  <2> HIDE DEF r
  <2> QED
    BY <1>1, <1>3, <2>1, <2>2, <2>3, PlacesHold, HoldingKeeps
<1> QED
  BY <1>2, <1>3 DEF AppendAlter

LEMMA AppendInsertKeeps ==
  ASSUME IInv, NEW c \in Calls, AppendInsert(c) PROVE IInv'
<1> DEFINE t == call[c].table
           d == [Db(c) EXCEPT !.rows[t] = @ + call[c].n]
<1>1. call[c].pc = "columns" /\ call[c].kind = "append"
  BY DEF AppendInsert, At
<1>2. call[c] \in CallRecords /\ t \in Tables /\ Db(c) \in DbRecords
  BY <1>1, CallFacts DEF IInv, Inv, PlaceInv, DataTypes, Db
<1>3. d \in DbRecords
  <2>1. Db(c).rows[t] + call[c].n \in Nat
    BY <1>2 DEF CallRecords, DbRecords
  <2> QED
    BY <1>2, <2>1 DEF DbRecords
<1>4. \/ Write(c, d) \/ Reject(c, call[c].ws)
      \/ Settle(c) /\ UNCHANGED <<world, data, conflicts>>
  BY DEF AppendInsert
<1> HIDE DEF d
<1> QED
  BY <1>1, <1>3, <1>4, PlacesHold, DataStays, CallFacts, WriteKeeps, RejectKeeps,
     SettleHereKeeps

LEMMA AppendCountKeeps ==
  ASSUME IInv, NEW c \in Calls, AppendCount(c) PROVE IInv'
<1> DEFINE total == Db(c).rows[call[c].table]
           r == [call[c] EXCEPT !.pc = "counted", !.total = total]
<1>1. call[c].pc = "written" /\ call[c].kind = "append"
  BY DEF AppendCount, At
<1>2. /\ call[c] \in CallRecords /\ call \in [Calls -> CallRecords]
      /\ call[c].table \in Tables /\ Db(c) \in DbRecords
  BY <1>1, CallFacts DEF IInv, Inv, PlaceInv, DataTypes, Db
<1>3. CASE Reject(c, call[c].ws)
  BY <1>1, <1>3, PlacesHold, RejectKeeps
<1>4. CASE ~Reject(c, call[c].ws)
  <2>1. call' = [call EXCEPT ![c] = r] /\ UNCHANGED <<world, data, tmp, conflicts>>
    BY <1>2, <1>4 DEF AppendCount, CallRecords
  <2>2. total \in Nat
    BY <1>2 DEF DbRecords
  <2>3. /\ r \in CallRecords /\ r.pc = "counted" /\ r.ws = call[c].ws
        /\ r.key = call[c].key /\ r.kind = "append" /\ r.table = call[c].table
        /\ r.since = call[c].since
    BY <1>1, <1>2, <2>2, PlacesHold DEF CallRecords
  <2> HIDE DEF r
  <2> QED
    BY <1>1, <2>1, <2>3, PlacesHold, DataStays, HoldingKeeps
<1> QED
  BY <1>3, <1>4

LEMMA AppendOverCapKeeps ==
  ASSUME IInv, NEW c \in Calls, AppendOverCap(c) PROVE IInv'
<1>1. /\ call[c].pc = "counted" /\ call[c].ws \in Entries /\ call[c].table \in Tables
      /\ conflicts \subseteq Keys
  BY CallFacts DEF AppendOverCap, At, IInv, Inv, PlaceInv
<1>2. DataTypes'
  BY <1>1 DEF AppendOverCap, IInv, DataTypes
<1> QED
  BY <1>1, <1>2, PlacesHold, SettleHereKeeps DEF AppendOverCap

LEMMA AppendRecordKeeps ==
  ASSUME IInv, NEW c \in Calls, AppendRecord(c) PROVE IInv'
<1>1. /\ call[c].pc = "counted" /\ call[c].table \in Tables
      /\ conflicts \subseteq Keys /\ call[c].key \in Keys /\ call[c].ws \in Entries
  BY CallFacts DEF AppendRecord, At, IInv, Inv, PlaceInv
<1>2. DataTypes'
  <2>1. db' \in [Entries -> DbRecords]
    <3>1. db' = [db EXCEPT ![call[c].ws].meta = @ \cup {call[c].table}]
      BY DEF AppendRecord
    <3>5. db \in [Entries -> DbRecords]
      BY DEF IInv, DataTypes
    <3> DEFINE d == [db[call[c].ws] EXCEPT !.meta = @ \cup {call[c].table}]
    <3>2. db[call[c].ws] \in DbRecords
      BY <1>1, <3>5
    <3>3. d \in DbRecords
      BY <1>1, <3>2 DEF DbRecords
    <3>4. db' = [db EXCEPT ![call[c].ws] = d]
      BY <3>1
    <3> HIDE DEF d
    <3> QED
      BY <3>3, <3>4, DbPut
  <2> QED
    BY <2>1 DEF AppendRecord, IInv, DataTypes
<1>3. conflicts' \subseteq Keys
  BY <1>1 DEF AppendRecord
<1> QED
  BY <1>1, <1>2, <1>3, PlacesHold, SettleHereKeeps DEF AppendRecord

-----------------------------------------------------------------------------
(* dropTable, listTables, clearAllTables and runQuery.                     *)

LEMMA DropStatementKeeps ==
  ASSUME IInv, NEW c \in Calls, call[c].pc \in Holding, NEW e, NEW t,
         NEW r \in CallRecords, r.pc \in {"dropped", "clearing"},
         r.ws = call[c].ws, r.key = call[c].key, r.kind = call[c].kind,
         call[c].kind # "append",
         r.table = call[c].table, r.since = call[c].since, DropStatement(c, e, t, r)
  PROVE  IInv'
<1>1. CASE Reject(c, e)
  BY <1>1, RejectKeeps
<1>2. CASE ~Reject(c, e)
  <2> DEFINE d == [db[e] EXCEPT !.has = @ \ {t}, !.rows[t] = 0, !.cols[t] = {}]
             k == call[c].key
             less == [stored[k] EXCEPT ![t] = 0]
  <2>1. /\ db' = [db EXCEPT ![e].has = @ \ {t}, ![e].rows[t] = 0, ![e].cols[t] = {}]
        /\ stored' = [stored EXCEPT ![k][t] = 0]
        /\ refused' = refused \ {<<e, t>>}
        /\ call' = [call EXCEPT ![c] = r]
        /\ UNCHANGED <<world, tmp, conflicts>>
    BY <1>2 DEF DropStatement
  <2>2. /\ db \in [Entries -> DbRecords] /\ stored \in [Keys -> [Tables -> Nat]]
        /\ refused \subseteq Entries \X Tables /\ k \in Keys
    BY CallFacts DEF IInv, DataTypes, Holding
  <2>3. db' \in [Entries -> DbRecords]
    <3>1. CASE e \in Entries
      <4>1. db[e] \in DbRecords
        BY <2>2, <3>1
      <4>2. d \in DbRecords
        BY <4>1 DEF DbRecords
      <4>3. db' = [db EXCEPT ![e] = d]
        BY <2>1, <2>2, <3>1, <4>1 DEF DbRecords
      <4> HIDE DEF d
      <4> QED
        BY <4>2, <4>3, DbPut
    <3>2. CASE e \notin Entries
      <4>1. db' = db
        BY <2>1, <2>2, <3>2
      <4> QED
        BY <2>2, <4>1
    <3> QED
      BY <3>1, <3>2
  <2>4. stored' \in [Keys -> [Tables -> Nat]]
    <3>1. less \in [Tables -> Nat] /\ stored' = [stored EXCEPT ![k] = less]
      BY <2>1, <2>2
    <3> HIDE DEF less, k
    <3> QED
      BY <2>2, <3>1
  <2>5. DataTypes'
    BY <2>1, <2>2, <2>3, <2>4 DEF DataTypes
  <2>6. c \notin tmp
    BY TmpOfAppend
  <2> QED
    BY <2>1, <2>5, <2>6, PlacesHold, HoldingKeeps
<1> QED
  BY <1>1, <1>2

LEMMA ForgetTypes ==
  ASSUME IInv, NEW e, NEW tables, Forget(e, tables), UNCHANGED <<stored, refused>>
  PROVE  DataTypes'
<1>1. /\ db \in [Entries -> DbRecords]
      /\ db' = [db EXCEPT ![e].meta = @ \ tables]
  BY DEF IInv, DataTypes, Forget
<1>2. db' \in [Entries -> DbRecords]
  BY <1>1 DEF DbRecords
<1> QED
  BY <1>2 DEF IInv, DataTypes

LEMMA DropLookKeeps ==
  ASSUME IInv, NEW c \in Calls, DropLook(c) PROVE IInv'
<1> DEFINE r == [call[c] EXCEPT !.pc = "looked", !.found = Exists(c)]
<1>1. /\ call[c].pc = "ensured" /\ call[c].kind = "drop"
      /\ UNCHANGED <<world, data, tmp, conflicts>>
  BY DEF DropLook, At
<1>2. call[c] \in CallRecords /\ call \in [Calls -> CallRecords]
  BY CallFacts
<1>3. call' = [call EXCEPT ![c] = r]
  BY <1>2 DEF DropLook, CallRecords
<1>4. Exists(c) \in BOOLEAN
  BY DEF Exists
<1>5. /\ r \in CallRecords /\ r.pc = "looked" /\ r.ws = call[c].ws /\ r.key = call[c].key
      /\ r.kind = "drop" /\ r.table = call[c].table /\ r.since = call[c].since
  BY <1>1, <1>2, <1>4, PlacesHold DEF CallRecords
<1>6. c \notin tmp
  BY <1>1, TmpOfAppend
<1> HIDE DEF r
<1> QED
  BY <1>1, <1>3, <1>5, <1>6, PlacesHold, DataStays, HoldingKeeps

LEMMA DropTableKeeps ==
  ASSUME IInv, NEW c \in Calls, DropTable(c) PROVE IInv'
<1> DEFINE r == [call[c] EXCEPT !.pc = "dropped"]
<1>1. /\ call[c].pc = "looked" /\ call[c].kind = "drop"
      /\ call[c] \in CallRecords /\ conflicts \subseteq Keys
  BY CallFacts DEF DropTable, At
<1>2. /\ r \in CallRecords /\ r.pc = "dropped" /\ r.ws = call[c].ws /\ r.key = call[c].key
      /\ r.kind = call[c].kind /\ r.table = call[c].table /\ r.since = call[c].since
  BY <1>1, PlacesHold DEF CallRecords
<1>3. \/ DropStatement(c, call[c].ws, call[c].table, r)
      \/ Settle(c) /\ UNCHANGED <<world, data, conflicts>>
  BY DEF DropTable
<1> HIDE DEF r
<1> QED
  BY <1>1, <1>2, <1>3, PlacesHold, DataStays, DropStatementKeeps, SettleHereKeeps

LEMMA ForgetKeeps ==
  ASSUME IInv, NEW c \in Calls, DropForget(c) \/ ClearForget(c) PROVE IInv'
<1>1. DataTypes'
  BY ForgetTypes DEF DropForget, ClearForget
<1> QED
  BY <1>1, PlacesHold, CallFacts, SettleHereKeeps DEF DropForget, ClearForget, At

LEMMA ListNamesKeeps ==
  ASSUME IInv, NEW c \in Calls, ListNames(c) PROVE IInv'
<1> DEFINE names == Db(c).has
           r == [call[c] EXCEPT !.pc = "listed", !.todo = names, !.names = names]
<1>1. /\ call[c].pc = "ensured" /\ call[c].kind \in {"clear", "list"}
      /\ UNCHANGED <<world, data, tmp, conflicts>>
  BY DEF ListNames, At
<1>2. /\ call[c] \in CallRecords /\ call \in [Calls -> CallRecords] /\ call[c].ws \in Entries
  BY <1>1, CallFacts
<1>3. call' = [call EXCEPT ![c] = r]
  BY <1>2 DEF ListNames, CallRecords
<1>4. names \in SUBSET Tables
  BY <1>2 DEF IInv, DataTypes, DbRecords, Db
<1> HIDE DEF names
<1>5. /\ r \in CallRecords /\ r.pc = "listed" /\ r.ws = call[c].ws /\ r.key = call[c].key
      /\ r.kind = call[c].kind /\ r.table = call[c].table /\ r.since = call[c].since
  BY <1>2, <1>4, PlacesHold DEF CallRecords
<1>6. c \notin tmp
  BY <1>1, TmpOfAppend
<1> HIDE DEF r
<1> QED
  BY <1>1, <1>3, <1>5, <1>6, PlacesHold, DataStays, HoldingKeeps

LEMMA ListOneKeeps ==
  ASSUME IInv, NEW c \in Calls, ListOne(c) PROVE IInv'
<1>1. /\ call[c].pc = "listed" /\ call[c].kind \in {"clear", "list"}
      /\ call[c] \in CallRecords /\ call \in [Calls -> CallRecords]
  BY CallFacts DEF ListOne, At
<1>2. CASE Reject(c, call[c].ws)
  BY <1>1, <1>2, PlacesHold, RejectKeeps
<1>3. ASSUME NEW t, call' = [call EXCEPT ![c].todo = @ \ {t}],
             UNCHANGED <<world, data, tmp, conflicts>>
      PROVE  IInv'
  <2> DEFINE r == [call[c] EXCEPT !.todo = @ \ {t}]
  <2>1. call' = [call EXCEPT ![c] = r]
    BY <1>1, <1>3 DEF CallRecords
  <2>2. /\ r \in CallRecords /\ r.pc = "listed" /\ r.ws = call[c].ws /\ r.key = call[c].key
        /\ r.kind = call[c].kind /\ r.table = call[c].table /\ r.since = call[c].since
    BY <1>1 DEF CallRecords
  <2>3. c \notin tmp
    BY <1>1, TmpOfAppend
  <2> HIDE DEF r
  <2> QED
    BY <1>1, <1>3, <2>1, <2>2, <2>3, PlacesHold, DataStays, HoldingKeeps
<1> QED
  BY <1>2, <1>3 DEF ListOne

LEMMA ListReturnKeeps ==
  ASSUME IInv, NEW c \in Calls, ListReturn(c) PROVE IInv'
<1>1. /\ call[c].pc = "listed" /\ call[c].kind \in {"clear", "list"}
      /\ call[c] \in CallRecords /\ call \in [Calls -> CallRecords]
      /\ UNCHANGED <<world, data, conflicts>> /\ conflicts \subseteq Keys
  BY CallFacts DEF ListReturn, At
<1>2. CASE Settle(c)
  BY <1>1, <1>2, PlacesHold, DataStays, SettleHereKeeps
<1>3. CASE ~Settle(c)
  <2> DEFINE r == [call[c] EXCEPT !.pc = "clearing", !.todo = call[c].names]
  <2>1. call' = [call EXCEPT ![c] = r] /\ UNCHANGED tmp
    BY <1>1, <1>3 DEF ListReturn, CallRecords
  <2>2. /\ r \in CallRecords /\ r.pc = "clearing" /\ r.ws = call[c].ws
        /\ r.key = call[c].key
        /\ r.kind = call[c].kind /\ r.table = call[c].table /\ r.since = call[c].since
    BY <1>1, PlacesHold DEF CallRecords
  <2>3. c \notin tmp
    BY <1>1, TmpOfAppend
  <2> HIDE DEF r
  <2> QED
    BY <1>1, <2>1, <2>2, <2>3, PlacesHold, DataStays, HoldingKeeps
<1> QED
  BY <1>2, <1>3

LEMMA ClearDropKeeps ==
  ASSUME IInv, NEW c \in Calls, ClearDrop(c) PROVE IInv'
<1>1. /\ call[c].pc = "clearing" /\ call[c].kind = "clear" /\ call[c] \in CallRecords
  BY CallFacts DEF ClearDrop, At
<1>2. PICK t \in call[c].todo :
        DropStatement(c, call[c].first, t, [call[c] EXCEPT !.todo = @ \ {t}])
  BY DEF ClearDrop
<1> DEFINE r == [call[c] EXCEPT !.todo = @ \ {t}]
<1>3. /\ r \in CallRecords /\ r.pc = "clearing" /\ r.ws = call[c].ws /\ r.key = call[c].key
      /\ r.kind = call[c].kind /\ r.table = call[c].table /\ r.since = call[c].since
  BY <1>1 DEF CallRecords
<1>4. DropStatement(c, call[c].first, t, r)
  BY <1>2
<1> HIDE DEF r
<1> QED
  BY <1>1, <1>3, <1>4, PlacesHold, DropStatementKeeps

LEMMA QueryKeeps ==
  ASSUME IInv, NEW c \in Calls, Query(c) PROVE IInv'
  BY PlacesHold, DataStays, CallFacts, SettleHereKeeps DEF Query, At

LEMMA StatementOnClosedKeeps ==
  ASSUME IInv, NEW c \in Calls, StatementOnClosed(c) PROVE IInv'
  BY RejectKeeps DEF StatementOnClosed

LEMMA TickKeeps == ASSUME IInv, Tick PROVE IInv'
<1>1. /\ now \in Nat /\ now' = now + 1
      /\ UNCHANGED <<workspaces, entry, started, overlapped, troubled, db, stored, refused,
                     call, tmp, conflicts>>
  BY DEF Tick, data, IInv, WorldTypes
<1>2. WorldTypes' /\ DataTypes' /\ CallTypes'
  BY <1>1 DEF IInv, WorldTypes, DataTypes, CallTypes
<1>3. PlaceInv' /\ MakingInv'
  BY <1>1 DEF IInv, Inv, PlaceInv, MakingInv
<1>4. MapInv'
  <2>1. ASSUME NEW e \in Entries PROVE entry[e].lastAccess \in Nat /\ entry[e].lastAccess <= now
    BY DEF IInv, WorldTypes, EntryRecords, Inv, MapInv
  <2>2. ASSUME NEW e \in Entries PROVE entry[e].lastAccess <= now + 1
    BY <1>1, <2>1
  <2> QED
    BY <1>1, <2>2 DEF IInv, Inv, MapInv
<1>5. HoldingInv'
  <2>1. ASSUME NEW c \in Calls, call[c].pc \in Holding
        PROVE  /\ call[c].since <= now + 1
               /\ entry[call[c].ws].open \/ call[c].since + TTL < now + 1
    <3>1. call[c].since \in Nat /\ TTL \in Nat
      BY CallFacts, WorkspaceAssumption DEF CallRecords
    <3>2. /\ call[c].since <= now
          /\ entry[call[c].ws].open \/ call[c].since + TTL < now
      BY <2>1 DEF IInv, Inv, HoldingInv
    <3> QED
      BY <1>1, <3>1, <3>2
  <2> QED
    BY <1>1, <2>1 DEF IInv, Inv, HoldingInv
<1>6. OrphansNeedARace' /\ TmpFilesBelongToAppends'
  BY <1>1 DEF IInv, OrphansNeedARace, TmpFilesBelongToAppends
<1> QED
  BY <1>2, <1>3, <1>4, <1>5, <1>6 DEF IInv, Inv

LEMMA StepIInv == IInv /\ [Next]_vars => IInv'
<1> SUFFICES ASSUME IInv, [Next]_vars PROVE IInv'
  OBVIOUS
<1>1. CASE UNCHANGED vars
  BY <1>1 DEF vars, world, data, IInv, WorldTypes, DataTypes, CallTypes, Inv, PlaceInv,
              MapInv, MakingInv, HoldingInv, OrphansNeedARace, TmpFilesBelongToAppends
<1>2. ASSUME NEW c \in Calls,
             \/ Connect(c) \/ Configure(c) \/ MakingFails(c) \/ Publish(c)
             \/ AppendLook(c) \/ AppendNothing(c) \/ AppendFull(c) \/ AppendCreate(c)
             \/ AppendColumns(c) \/ AppendAlter(c) \/ AppendInsert(c) \/ AppendCount(c)
             \/ AppendOverCap(c) \/ AppendRecord(c)
      PROVE  IInv'
  BY <1>2, ConnectKeeps, MakingFailsKeeps, PublishKeeps, AppendLookKeeps,
     AppendNothingKeeps, AppendFullKeeps, AppendCreateKeeps, AppendColumnsKeeps,
     AppendAlterKeeps, AppendInsertKeeps, AppendCountKeeps, AppendOverCapKeeps,
     AppendRecordKeeps
<1>3. ASSUME NEW c \in Calls,
             \/ DropLook(c) \/ DropTable(c) \/ DropForget(c) \/ ClearEnsureAgain(c)
             \/ ListNames(c) \/ ListOne(c) \/ ListReturn(c) \/ ClearDrop(c)
             \/ ClearForget(c) \/ Query(c) \/ StatementOnClosed(c)
      PROVE  IInv'
  BY <1>3, DropLookKeeps, DropTableKeeps, ForgetKeeps, ClearEnsureAgainKeeps,
     ListNamesKeeps, ListOneKeeps, ListReturnKeeps, ClearDropKeeps, QueryKeeps,
     StatementOnClosedKeeps
<1> QED
  BY <1>1, <1>2, <1>3, StartKeeps, TickKeeps DEF Next

LEMMA Invariant == Spec => []IInv
<1>1. IInv /\ [Next]_vars => IInv'
  BY StepIInv
<1> QED
  BY InitIInv, <1>1, PTL DEF Spec

(* The variables keep their types.                                         *)
THEOREM TypeCorrect == Spec => []TypeOK
<1>1. IInv => TypeOK
  BY DEF IInv, WorldTypes, DataTypes, CallTypes, TypeOK
<1> QED
  BY Invariant, <1>1, PTL

(* evictStale closes a workspace under a call only when the call has held  *)
(* it for longer than the time to live, however many keys and calls.       *)
THEOREM EvictionCorrect == Spec => []EvictedOnlyAfterTTL
<1>1. IInv => EvictedOnlyAfterTTL
  BY DEF IInv, Inv, HoldingInv, EvictedOnlyAfterTTL, Usable
<1> QED
  BY Invariant, <1>1, PTL

(* Only two first calls at once, or a failure while a workspace is made,   *)
(* leave an open database that nobody will close.                          *)
THEOREM OrphansExplained == Spec => []OrphansNeedARace
<1>1. IInv => OrphansNeedARace
  BY DEF IInv
<1> QED
  BY Invariant, <1>1, PTL

(* Whatever fails, the NDJSON file of an append does not outlive it.       *)
THEOREM TmpFilesCorrect == Spec => []TmpFilesBelongToAppends
<1>1. IInv => TmpFilesBelongToAppends
  BY DEF IInv
<1> QED
  BY Invariant, <1>1, PTL

-----------------------------------------------------------------------------
(* What the tables hold.  A second invariant, which rests on the first:    *)
(* what the calls that share a workspace know of it and of each other.     *)

(* What a call holds is an entry of its key that no call is making.        *)
Placed(r) ==
  /\ r.pc = "idle" => r.key = None /\ r.first = None
  /\ r.pc = "looked" => r.kind \in {"append", "drop"}
  /\ r.pc \in {"columns", "written", "counted"} => r.kind = "append"
  /\ r.pc = "dropped" => r.kind = "drop"
  /\ r.pc = "clearing" => r.kind = "clear"
  /\ r.pc \in {"listed", "clearing"} /\ r.kind = "clear" => r.first # None

Unmade(e) == \A d \in Calls : call[d].pc \in Making => call[d].ws # e

HoldsInv ==
  \A c \in Calls :
    /\ Placed(call[c])
    /\ call[c].pc \in Holding =>
         entry[call[c].ws].key = call[c].key /\ Unmade(call[c].ws)
    /\ call[c].first # None =>
         entry[call[c].first].key = call[c].key /\ Unmade(call[c].first)

(* A database is empty until its workspace is published, and a table that  *)
(* does not exist has no rows.                                             *)
EmptyInv ==
  /\ \A e \in Entries : entry[e].key = None => db[e] = NoTables
  /\ \A c \in Calls : call[c].pc \in Making => db[call[c].ws] = NoTables
  /\ \A e \in Entries : \A t \in Tables \ db[e].has : db[e].rows[t] = 0

(* tableMeta lists the tables, except for those in but and those over the  *)
(* row cap.                                                                *)
Tracked(d, but) ==
  /\ d.meta \ but \subseteq d.has
  /\ \A t \in d.has \ d.meta : t \in but \/ d.rows[t] > MaxRows

(* What a call that is alone knows of the tables d, from its place.        *)
Knows(r, d) ==
  /\ r.pc \in {"ensured", "looked", "columns", "listed"} => Tracked(d, {})
  /\ r.pc \in {"written", "counted", "dropped"} => Tracked(d, {r.table})
  /\ r.pc = "looked" => (r.found <=> r.table \in d.has)
  /\ r.pc \in {"columns", "written", "counted"} => r.table \in d.has
  /\ r.pc = "columns" => /\ r.todo \cap d.cols[r.table] = {}
                         /\ r.cols \subseteq r.todo \cup d.cols[r.table]
  /\ r.pc = "counted" => r.total = d.rows[r.table]
  /\ r.pc = "dropped" => r.table \notin d.has
  /\ r.pc = "listed" => r.names = d.has /\ r.todo \subseteq d.has
  /\ r.pc = "clearing" => IF r.first = r.ws THEN d.has = r.todo ELSE Tracked(d, {})

Alone(c) == call[c].pc # "idle" /\ call[c].key \notin overlapped

(* A call alone on its key holds the workspace of the key, or a closed     *)
(* one; it is the only one to change the tables.                           *)
AloneWith(c) ==
  /\ \A d \in Calls \ {c} : call[d].key # call[c].key
  /\ call[c].pc \in Making => workspaces[call[c].key] = None
  /\ call[c].pc \in Holding =>
       IF entry[call[c].ws].open
       THEN workspaces[call[c].key] = call[c].ws /\ Knows(call[c], db[call[c].ws])
       ELSE workspaces[call[c].key] = None
  /\ call[c].first # None /\ entry[call[c].first].open => call[c].first = call[c].ws

AloneInv == \A c \in Calls : Alone(c) => AloneWith(c)

JInv ==
  /\ HoldsInv /\ EmptyInv /\ OverCapIsReported /\ WorkspaceKeepsRows
  /\ AloneInv /\ MetaTracksTables /\ ConflictsNeedOverlap

(* MetaTracksTables of one key.                                            *)
LEMMA MetaTracked ==
  MetaTracksTables <=>
    \A k \in Keys \ overlapped :
      workspaces[k] # None /\ (\A c \in Calls : call[c].key # k) =>
        Tracked(db[workspaces[k]], {})
  BY DEF MetaTracksTables, Tracked

LEMMA IdleParts ==
  /\ Idle.pc = "idle" /\ Idle.key = None /\ Idle.first = None /\ Idle.ws = None
  /\ Placed(Idle)
  BY DEF Idle, Placed

LEMMA InitJInv == Init => JInv
<1> SUFFICES ASSUME Init PROVE JInv
  OBVIOUS
<1>1. \A c \in Calls : call[c] = Idle
  BY DEF Init
<1>2. \A e \in Entries : entry[e] = NoEntry /\ db[e] = NoTables
  BY DEF Init
<1>3. \A k \in Keys : workspaces[k] = None /\ stored[k] = NoRows
  BY DEF Init
<1>4. HoldsInv
  BY <1>1, IdleParts DEF HoldsInv, Holding
<1>5. EmptyInv
  <2>1. \A t \in Tables : NoTables.rows[t] = 0
    BY DEF NoTables, NoRows
  <2> QED
    BY <1>1, <1>2, <2>1, IdleParts DEF EmptyInv, Making
<1>6. OverCapIsReported
  BY <1>2 DEF OverCapIsReported, NoEntry
<1>7. WorkspaceKeepsRows
  BY <1>3 DEF WorkspaceKeepsRows, NoRows
<1>8. AloneInv
  BY <1>1, IdleParts DEF AloneInv, Alone
<1>9. MetaTracksTables
  BY <1>3 DEF MetaTracksTables
<1>10. ConflictsNeedOverlap
  BY DEF Init, ConflictsNeedOverlap
<1> QED
  BY <1>4, <1>5, <1>6, <1>7, <1>8, <1>9, <1>10 DEF JInv

-----------------------------------------------------------------------------
(* ensureWorkspace.                                                        *)

(* What the calls that are not in ensureWorkspace find afterwards.         *)
LEMMA OthersSwept ==
  ASSUME IInv, JInv, NEW d \in Calls, Alone(d), call[d].pc \in Holding,
         Swept(call[d].ws),
         workspaces' = [x \in Keys |-> IF x \in Stale THEN None ELSE workspaces[x]]
  PROVE  IF entry'[call[d].ws].open
         THEN workspaces'[call[d].key] = call[d].ws /\ Knows(call[d], db[call[d].ws])
         ELSE workspaces'[call[d].key] = None
<1> DEFINE w == call[d].ws
           k == call[d].key
<1>1. k \in Keys /\ w \in Entries /\ w # None /\ entry[w].key = k
  BY WorkspaceAssumption DEF IInv, Inv, PlaceInv, Holding, JInv, HoldsInv
<1>2. AloneWith(d)
  BY DEF JInv, AloneInv
<1>3. /\ workspaces'[k] # None => workspaces'[k] = workspaces[k]
      /\ k \notin Stale => workspaces'[k] = workspaces[k]
      /\ k \in Stale => workspaces'[k] = None
  BY <1>1
<1>4. CASE ~entry[w].open
  <2>1. ~entry'[w].open
    BY <1>4 DEF Swept
  <2> QED
    BY <1>2, <1>3, <1>4, <2>1 DEF AloneWith
<1>5. CASE entry[w].open
  <2>1. workspaces[k] = w /\ Knows(call[d], db[w])
    BY <1>2, <1>5 DEF AloneWith
  <2>2. ASSUME NEW x \in Stale, workspaces[x] = w PROVE x = k
    BY <1>1, <2>2 DEF Stale, IInv, Inv, MapInv
  <2>3. CASE k \in Stale
    BY <1>3, <2>1, <2>3 DEF Swept
  <2>4. CASE k \notin Stale
    BY <1>3, <1>5, <2>1, <2>2, <2>4 DEF Swept
  <2> QED
    BY <2>3, <2>4
<1> QED
  BY <1>4, <1>5

(* The rows of the keys after a sweep.                                     *)
LEMMA RowsSwept ==
  ASSUME IInv, WorkspaceKeepsRows,
         workspaces' = [x \in Keys |-> IF x \in Stale THEN None ELSE workspaces[x]],
         stored' = [x \in Keys |-> IF x \in Stale THEN NoRows ELSE stored[x]],
         troubled \subseteq troubled', UNCHANGED db
  PROVE  WorkspaceKeepsRows'
<1> SUFFICES ASSUME NEW k \in Keys, k \notin troubled'
             PROVE  stored'[k] = IF workspaces'[k] = None THEN [t \in Tables |-> 0]
                                 ELSE db[workspaces'[k]].rows
  BY DEF WorkspaceKeepsRows
<1>1. stored[k] = IF workspaces[k] = None THEN [t \in Tables |-> 0]
                                          ELSE db[workspaces[k]].rows
  BY DEF WorkspaceKeepsRows
<1>2. CASE k \in Stale
  BY <1>2 DEF NoRows
<1>3. CASE k \notin Stale
  BY <1>1, <1>3
<1> QED
  BY <1>2, <1>3

(* Call c is in ensureWorkspace for key k and goes on as s.                *)
Ensures(c, k, s) ==
  /\ \/ /\ call[c].pc = "idle" /\ s.first = None
        /\ overlapped' = overlapped \cup {x \in {k} : \E d \in Calls : call[d].key = k}
     \/ /\ call[c].pc = "ensured" /\ call[c].kind = "clear" /\ call[c].key = k
        /\ call[c].first = None /\ s.first = call[c].ws
        /\ UNCHANGED overlapped
  /\ s.key = k
  /\ workspaces' = [x \in Keys |-> IF x \in Stale THEN None ELSE workspaces[x]]
  /\ stored' = [x \in Keys |-> IF x \in Stale THEN NoRows ELSE stored[x]]
  /\ call' = [call EXCEPT ![c] = s]
  /\ troubled \subseteq troubled'
  /\ UNCHANGED <<db, refused, conflicts>>

LEMMA EnsuresFacts ==
  ASSUME IInv, JInv, NEW c \in Calls, NEW k \in Keys, NEW s, Ensures(c, k, s)
  PROVE  /\ call'[c] = s /\ \A d \in Calls \ {c} : call'[d] = call[d]
         /\ overlapped \subseteq overlapped'
         /\ k \notin overlapped' =>
              /\ \A d \in Calls \ {c} : call[d].key # k
              /\ workspaces[k] # None => Tracked(db[workspaces[k]], {})
         /\ s.first # None => /\ s.first \in Entries /\ s.first = call[c].ws
                              /\ entry[s.first].key = k /\ Unmade(s.first)
                              /\ call[c].pc = "ensured" /\ call[c].key = k
         /\ \A x \in Keys \ {k} : (\A d \in Calls : call'[d].key # x) =>
                                    \A d \in Calls : call[d].key # x
         /\ k # None
<1>1. call \in [Calls -> CallRecords] /\ k # None
  BY WorkspaceAssumption DEF IInv, CallTypes
<1>2. call'[c] = s /\ \A d \in Calls \ {c} : call'[d] = call[d]
  BY <1>1 DEF Ensures
<1>3. overlapped \subseteq overlapped'
  BY DEF Ensures
<1>4. CASE call[c].pc = "idle"
  <2>1. call[c].key = None /\ s.first = None
    BY <1>4 DEF JInv, HoldsInv, Placed, Ensures
  <2>2. ASSUME k \notin overlapped'
        PROVE  /\ \A d \in Calls : call[d].key # k
               /\ workspaces[k] # None => Tracked(db[workspaces[k]], {})
    <3>1. \A d \in Calls : call[d].key # k
      BY <1>4, <2>2 DEF Ensures
    <3> QED
      BY <1>3, <2>2, <3>1, MetaTracked DEF JInv
  <2>3. \A x \in Keys \ {k} : (\A d \in Calls : call'[d].key # x) =>
                                \A d \in Calls : call[d].key # x
    BY <1>2, <2>1, WorkspaceAssumption
  <2> QED
    BY <1>1, <1>2, <1>3, <2>1, <2>2, <2>3
<1>5. CASE call[c].pc # "idle"
  <2>1. /\ call[c].pc = "ensured" /\ call[c].pc \in Holding /\ call[c].key = k
        /\ s.first = call[c].ws /\ overlapped' = overlapped
    BY <1>5, PlacesHold DEF Ensures
  <2>2. call[c].ws \in Entries /\ entry[call[c].ws].key = k /\ Unmade(call[c].ws)
    BY <1>5, <2>1 DEF IInv, Inv, PlaceInv, JInv, HoldsInv
  <2>3. ASSUME k \notin overlapped'
        PROVE  /\ \A d \in Calls \ {c} : call[d].key # k
               /\ workspaces[k] # None => Tracked(db[workspaces[k]], {})
    <3>1. AloneWith(c)
      BY <1>5, <2>1, <2>3 DEF JInv, AloneInv, Alone
    <3> QED
      BY <2>1, <3>1 DEF AloneWith, Knows
  <2>4. \A x \in Keys \ {k} : (\A d \in Calls : call'[d].key # x) =>
                                \A d \in Calls : call[d].key # x
    BY <1>2, <2>1
  <2> QED
    BY <1>1, <1>2, <1>3, <2>1, <2>2, <2>3, <2>4
<1> QED
  BY <1>4, <1>5
LEMMA EnsureSharedKeepsRows ==
  ASSUME IInv, JInv, NEW c \in Calls, NEW k \in Keys, Shared(k), NEW s, Ensures(c, k, s),
         s.pc = "ensured", s.ws = workspaces[k],
         entry' = [e \in Entries |-> IF e = workspaces[k] THEN Touched(e) ELSE Evicted(e)]
  PROVE  JInv'
<1> DEFINE w == workspaces[k]
<1>1. /\ entry' \in [Entries -> EntryRecords] /\ \A e \in Entries : Swept(e)
      /\ entry'[w].open
  BY SharingSweeps
<1>2. /\ w \in Entries /\ w # None /\ entry[w].key = k /\ workspaces'[k] = w /\ Unmade(w)
  BY WorkspaceAssumption
     DEF Shared, IInv, WorldTypes, Inv, MapInv, MakingInv, Ensures, Unmade
<1>3. /\ call'[c] = s /\ \A d \in Calls \ {c} : call'[d] = call[d]
      /\ overlapped \subseteq overlapped'
      /\ k \notin overlapped' =>
           (\A d \in Calls \ {c} : call[d].key # k) /\ Tracked(db[w], {})
      /\ s.first # None => /\ s.first \in Entries /\ s.first = call[c].ws
                           /\ entry[s.first].key = k /\ Unmade(s.first)
                           /\ call[c].pc = "ensured" /\ call[c].key = k
      /\ \A x \in Keys \ {k} : (\A d \in Calls : call'[d].key # x) =>
                                 \A d \in Calls : call[d].key # x
      /\ s.key = k /\ k # None
  <2>1. s.key = k
    BY DEF Ensures
  <2> QED
    BY <1>2, <2>1, EnsuresFacts
<1>4. /\ \A e \in Entries : entry'[e].key = entry[e].key /\ (entry'[e].open => entry[e].open)
      /\ UNCHANGED <<db, refused, conflicts>> /\ troubled \subseteq troubled'
  BY <1>1 DEF Swept, Ensures
<1>5. \A d \in Calls : call'[d].pc \in Making =>
                         d # c /\ call[d].pc \in Making /\ call'[d] = call[d]
  BY <1>3 DEF Making
<1>6. \A e : Unmade(e) => Unmade(e)'
  BY <1>5 DEF Unmade
<1>7. \A d \in Calls : call[d].pc # "idle" => call[d].ws \in Entries /\ call[d].key \in Keys
  BY DEF IInv, Inv, PlaceInv
<1>8. \A d \in Calls : call[d].first # None => call[d].first \in Entries
  BY CallFacts DEF CallRecords
<1>9. HoldsInv'
  <2>1. ASSUME NEW d \in Calls \ {c}
        PROVE  /\ Placed(call[d])
               /\ call[d].pc \in Holding =>
                    entry'[call[d].ws].key = call[d].key /\ Unmade(call[d].ws)
               /\ call[d].first # None =>
                    entry'[call[d].first].key = call[d].key /\ Unmade(call[d].first)
    BY <1>4, <1>7, <1>8 DEF JInv, HoldsInv, Holding
  <2>2. /\ Placed(s) /\ entry'[s.ws].key = s.key /\ Unmade(s.ws)
        /\ s.first # None => entry'[s.first].key = s.key /\ Unmade(s.first)
    BY <1>2, <1>3, <1>4 DEF Placed
  <2> QED
    BY <1>3, <1>6, <2>1, <2>2 DEF HoldsInv
<1>10. EmptyInv'
  BY <1>4, <1>5 DEF JInv, EmptyInv
<1>11. OverCapIsReported'
  <2>1. call[c].pc \notin {"written", "counted"}
    BY DEF Ensures
  <2> QED
    BY <1>3, <1>4, <2>1 DEF JInv, OverCapIsReported
<1>12. WorkspaceKeepsRows'
  BY RowsSwept DEF JInv, Ensures
<1>13. AloneInv'
  <2>1. ASSUME NEW d \in Calls \ {c}, Alone(d)' PROVE AloneWith(d)'
    <3>1. /\ call'[d] = call[d] /\ Alone(d) /\ call[d].key # k /\ AloneWith(d)
          /\ call[d].key \in Keys /\ call[d].ws \in Entries
      BY <1>3, <1>7, <2>1 DEF Alone, JInv, AloneInv
    <3>2. \A b \in Calls \ {d} : call'[b].key # call'[d].key
      BY <1>3, <3>1 DEF AloneWith
    <3>3. call[d].pc \in Making => workspaces'[call[d].key] = None
      BY <3>1 DEF AloneWith, Ensures
    <3>4. call[d].pc \in Holding =>
            IF entry'[call[d].ws].open
            THEN workspaces'[call[d].key] = call[d].ws /\ Knows(call[d], db[call[d].ws])
            ELSE workspaces'[call[d].key] = None
      BY <1>1, <3>1, OthersSwept DEF Ensures
    <3>5. call[d].first # None /\ entry'[call[d].first].open => call[d].first = call[d].ws
      BY <1>4, <1>8, <3>1 DEF AloneWith
    <3> QED
      BY <1>4, <3>1, <3>2, <3>3, <3>4, <3>5 DEF AloneWith
  <2>2. ASSUME Alone(c)' PROVE AloneWith(c)'
    <3>1. k \notin overlapped' /\ Tracked(db[w], {})
          /\ \A d \in Calls \ {c} : call'[d].key # k
      BY <1>3, <2>2 DEF Alone
    <3>2. Knows(s, db[w])
      BY <3>1 DEF Knows
    <3>3. ASSUME s.first # None, entry'[s.first].open PROVE s.first = w
      <4>1. call[c].pc = "ensured" /\ call[c].key = k /\ s.first = call[c].ws
            /\ entry[call[c].ws].open
        BY <1>3, <1>4, <3>3
      <4>2. AloneWith(c)
        BY <1>3, <3>1, <4>1 DEF Alone, JInv, AloneInv
      <4> QED
        BY <4>1, <4>2, PlacesHold DEF AloneWith
    <3> QED
      BY <1>1, <1>2, <1>3, <1>4, <3>1, <3>2, <3>3 DEF AloneWith, Making
  <2> QED
    BY <2>1, <2>2 DEF AloneInv
<1>14. MetaTracksTables'
  <2> SUFFICES ASSUME NEW x \in Keys, x \notin overlapped', workspaces'[x] # None,
                      \A d \in Calls : call'[d].key # x
               PROVE  Tracked(db[workspaces'[x]], {})
    BY <1>4 DEF MetaTracksTables, Tracked
  <2>1. x # k /\ workspaces'[x] = workspaces[x] /\ x \notin overlapped
    BY <1>3 DEF Ensures
  <2> QED
    BY <1>3, <2>1, MetaTracked DEF JInv
<1>15. ConflictsNeedOverlap'
  BY <1>3, <1>4 DEF JInv, ConflictsNeedOverlap
<1> QED
  BY <1>9, <1>10, <1>11, <1>12, <1>13, <1>14, <1>15 DEF JInv

LEMMA EnsureNewKeepsRows ==
  ASSUME IInv, JInv, NEW c \in Calls, NEW k \in Keys, ~Shared(k), NEW s, Ensures(c, k, s),
         s.pc = "creating", NEW new \in Entries, entry[new].key = None, s.ws = new,
         entry' = [e \in Entries |->
                     IF e = new THEN [NoEntry EXCEPT !.key = k, !.open = TRUE]
                                ELSE Evicted(e)]
  PROVE  JInv'
<1>1. /\ entry' \in [Entries -> EntryRecords]
      /\ \A e \in Entries \ {new} : Swept(e)
      /\ entry'[new].key = k /\ entry'[new].open /\ entry'[new].lastAccess = 0
  BY MakingSweeps
<1>2. workspaces'[k] = None
  BY DEF Shared, Ensures
<1>3. /\ call'[c] = s /\ \A d \in Calls \ {c} : call'[d] = call[d]
      /\ overlapped \subseteq overlapped'
      /\ k \notin overlapped' => \A d \in Calls \ {c} : call[d].key # k
      /\ s.first # None => /\ s.first \in Entries /\ s.first = call[c].ws
                           /\ entry[s.first].key = k /\ Unmade(s.first)
                           /\ call[c].pc = "ensured" /\ call[c].key = k
      /\ \A x \in Keys \ {k} : (\A d \in Calls : call'[d].key # x) =>
                                 \A d \in Calls : call[d].key # x
      /\ s.key = k /\ k # None
  <2>1. s.key = k
    BY DEF Ensures
  <2> QED
    BY <2>1, EnsuresFacts
<1>4. /\ \A e \in Entries \ {new} :
           entry'[e].key = entry[e].key /\ (entry'[e].open => entry[e].open)
      /\ UNCHANGED <<db, refused, conflicts>> /\ troubled \subseteq troubled'
      /\ db[new] = NoTables
  BY <1>1 DEF Swept, Ensures, JInv, EmptyInv
<1>5. \A d \in Calls : call'[d].pc \in Making =>
        call'[d].ws = new \/ (call[d].pc \in Making /\ call'[d] = call[d])
  BY <1>3
<1>6. \A e : Unmade(e) /\ e # new => Unmade(e)'
  BY <1>5 DEF Unmade
<1>7. \A d \in Calls : call[d].pc # "idle" => call[d].ws \in Entries /\ call[d].key \in Keys
  BY DEF IInv, Inv, PlaceInv
<1>8. \A d \in Calls : call[d].first # None => call[d].first \in Entries /\ call[d].pc # "idle"
  BY CallFacts DEF CallRecords, JInv, HoldsInv, Placed
<1>9. ASSUME NEW d \in Calls, call[d].pc \in Holding PROVE call[d].ws # new
  BY <1>7, <1>9, WorkspaceAssumption DEF JInv, HoldsInv, Holding
<1>10. ASSUME NEW d \in Calls, call[d].first # None PROVE call[d].first # new
  BY <1>7, <1>8, <1>10, WorkspaceAssumption DEF JInv, HoldsInv
<1>11. s.first # new
  BY <1>3, WorkspaceAssumption
<1>12. HoldsInv'
  <2>1. ASSUME NEW d \in Calls \ {c}
        PROVE  /\ Placed(call[d])
               /\ call[d].pc \in Holding =>
                    entry'[call[d].ws].key = call[d].key /\ Unmade(call[d].ws)'
               /\ call[d].first # None =>
                    entry'[call[d].first].key = call[d].key /\ Unmade(call[d].first)'
    <3>1. Placed(call[d])
      BY DEF JInv, HoldsInv
    <3>2. ASSUME call[d].pc \in Holding
          PROVE  entry'[call[d].ws].key = call[d].key /\ Unmade(call[d].ws)
      BY <1>4, <1>7, <1>9, <3>2 DEF JInv, HoldsInv, Holding
    <3>3. ASSUME call[d].first # None
          PROVE  entry'[call[d].first].key = call[d].key /\ Unmade(call[d].first)
      BY <1>4, <1>8, <1>10, <3>3 DEF JInv, HoldsInv
    <3>4. call'[d] = call[d]
      BY <1>3
    <3> QED
      BY <1>5, <1>9, <1>10, <3>1, <3>2, <3>3, <3>4 DEF Unmade
  <2>2. /\ Placed(s) /\ s.pc \notin Holding
        /\ s.first # None => entry'[s.first].key = s.key /\ Unmade(s.first)
    BY <1>3, <1>4, <1>11 DEF Placed, Holding
  <2>3. s.first # None => Unmade(s.first)'
    BY <1>6, <1>11, <2>2
  <2> QED
    BY <1>3, <2>1, <2>2, <2>3 DEF HoldsInv
<1>13. EmptyInv'
  <2>1. \A e \in Entries : entry'[e].key = None => db[e] = NoTables
    BY <1>1, <1>3, <1>4 DEF JInv, EmptyInv
  <2>2. \A d \in Calls : call'[d].pc \in Making => db[call'[d].ws] = NoTables
    BY <1>4, <1>5 DEF JInv, EmptyInv
  <2> QED
    BY <1>4, <2>1, <2>2 DEF JInv, EmptyInv
<1>14. OverCapIsReported'
  <2>1. call[c].pc \notin {"written", "counted"}
    BY DEF Ensures
  <2>2. ASSUME NEW t \in Tables PROVE ~(db[new].rows[t] > MaxRows)
    <3>1. db[new].rows[t] = 0
      BY <1>4 DEF NoTables, NoRows
    <3> QED
      BY <3>1, WorkspaceAssumption
  <2>3. ASSUME NEW e \in Entries, NEW t \in Tables, entry'[e].open, db[e].rows[t] > MaxRows
        PROVE  \/ <<e, t>> \in refused
               \/ \E d \in Calls : /\ call'[d].ws = e /\ call'[d].table = t
                                   /\ \/ call'[d].pc = "written"
                                      \/ call'[d].pc = "counted" /\ call'[d].total > MaxRows
    <3>1. entry[e].open
      BY <1>4, <2>2, <2>3
    <3>2. \/ <<e, t>> \in refused
          \/ \E d \in Calls \ {c} :
               /\ call[d].ws = e /\ call[d].table = t
               /\ \/ call[d].pc = "written"
                  \/ call[d].pc = "counted" /\ call[d].total > MaxRows
      BY <2>1, <2>3, <3>1 DEF JInv, OverCapIsReported
    <3> QED
      BY <1>3, <3>2
  <2> QED
    BY <1>4, <2>3 DEF OverCapIsReported
<1>15. WorkspaceKeepsRows'
  BY RowsSwept DEF JInv, Ensures
<1>16. AloneInv'
  <2>1. ASSUME NEW d \in Calls \ {c}, Alone(d)' PROVE AloneWith(d)'
    <3>1. /\ call'[d] = call[d] /\ Alone(d) /\ call[d].key # k /\ AloneWith(d)
          /\ call[d].key \in Keys /\ call[d].ws \in Entries
      BY <1>3, <1>7, <2>1 DEF Alone, JInv, AloneInv
    <3>2. \A b \in Calls \ {d} : call'[b].key # call'[d].key
      BY <1>3, <3>1 DEF AloneWith
    <3>3. call[d].pc \in Making => workspaces'[call[d].key] = None
      BY <3>1 DEF AloneWith, Ensures
    <3>4. call[d].pc \in Holding =>
            IF entry'[call[d].ws].open
            THEN workspaces'[call[d].key] = call[d].ws /\ Knows(call[d], db[call[d].ws])
            ELSE workspaces'[call[d].key] = None
      BY <1>1, <1>9, <3>1, OthersSwept DEF Ensures
    <3>5. call[d].first # None /\ entry'[call[d].first].open => call[d].first = call[d].ws
      BY <1>4, <1>8, <1>10, <3>1 DEF AloneWith
    <3> QED
      BY <1>4, <3>1, <3>2, <3>3, <3>4, <3>5 DEF AloneWith
  <2>2. ASSUME Alone(c)' PROVE AloneWith(c)'
    <3>1. k \notin overlapped' /\ \A d \in Calls \ {c} : call'[d].key # k
      BY <1>3, <2>2 DEF Alone
    <3>2. ASSUME s.first # None, entry'[s.first].open PROVE FALSE
      <4>1. call[c].pc = "ensured" /\ call[c].key = k /\ s.first = call[c].ws
            /\ entry[call[c].ws].open /\ s.first \in Entries /\ Swept(s.first)
        BY <1>1, <1>3, <1>4, <1>11, <3>2
      <4>2. AloneWith(c)
        BY <1>3, <3>1, <4>1 DEF Alone, JInv, AloneInv
      <4>3. workspaces[k] = s.first
        BY <4>1, <4>2, PlacesHold DEF AloneWith
      <4>4. workspaces'[k] = workspaces[k]
        <5>1. k \notin Stale
          BY <3>2, <4>1, <4>3 DEF Swept
        <5> QED
          BY <5>1 DEF Ensures
      <4> QED
        BY <1>2, <4>1, <4>3, <4>4, WorkspaceAssumption
    <3> QED
      BY <1>2, <1>3, <3>1, <3>2 DEF AloneWith, Holding
  <2> QED
    BY <2>1, <2>2 DEF AloneInv
<1>17. MetaTracksTables'
  <2> SUFFICES ASSUME NEW x \in Keys, x \notin overlapped', workspaces'[x] # None,
                      \A d \in Calls : call'[d].key # x
               PROVE  Tracked(db[workspaces'[x]], {})
    BY <1>4 DEF MetaTracksTables, Tracked
  <2>1. x # k /\ workspaces'[x] = workspaces[x] /\ x \notin overlapped
    BY <1>3 DEF Ensures
  <2> QED
    BY <1>3, <2>1, MetaTracked DEF JInv
<1>18. ConflictsNeedOverlap'
  BY <1>3, <1>4 DEF JInv, ConflictsNeedOverlap
<1> QED
  BY <1>12, <1>13, <1>14, <1>15, <1>16, <1>17, <1>18 DEF JInv

LEMMA EnsureKeepsRows ==
  ASSUME IInv, JInv, NEW c \in Calls, NEW k \in Keys, NEW r \in CallRecords, Ensure(c, k, r),
         r.key = k, UNCHANGED <<db, refused, conflicts>>,
         \/ /\ call[c].pc = "idle" /\ r.first = None
            /\ overlapped' = overlapped \cup {x \in {k} : \E d \in Calls : call[d].key = k}
         \/ /\ call[c].pc = "ensured" /\ call[c].kind = "clear" /\ call[c].key = k
            /\ call[c].first = None /\ r.first = call[c].ws
            /\ UNCHANGED overlapped
  PROVE  JInv'
<1>1. /\ workspaces' = [x \in Keys |-> IF x \in Stale THEN None ELSE workspaces[x]]
      /\ stored' = [x \in Keys |-> IF x \in Stale THEN NoRows ELSE stored[x]]
  BY DEF Ensure
<1>2. CASE Shared(k)
  <2> DEFINE s == [r EXCEPT !.pc = "ensured", !.since = now, !.ws = workspaces[k]]
  <2>1. /\ entry' = [e \in Entries |-> IF e = workspaces[k] THEN Touched(e) ELSE Evicted(e)]
        /\ call' = [call EXCEPT ![c] = s] /\ UNCHANGED troubled
    BY <1>2 DEF Ensure
  <2>2. s.key = k /\ s.first = r.first /\ s.pc = "ensured" /\ s.ws = workspaces[k]
    BY DEF CallRecords
  <2> HIDE DEF s
  <2>3. Ensures(c, k, s)
    BY <1>1, <2>1, <2>2 DEF Ensures
  <2> QED
    BY <1>2, <2>1, <2>2, <2>3, EnsureSharedKeepsRows
<1>3. CASE ~Shared(k)
  <2>1. PICK new \in Entries :
          /\ entry[new].key = None
          /\ entry' = [e \in Entries |->
               IF e = new THEN [NoEntry EXCEPT !.key = k, !.open = TRUE]
                          ELSE Evicted(e)]
          /\ call' = [call EXCEPT ![c] = [r EXCEPT !.pc = "creating", !.ws = new]]
    BY <1>3 DEF Ensure
  <2> DEFINE s == [r EXCEPT !.pc = "creating", !.ws = new]
  <2>2. s.key = k /\ s.first = r.first /\ s.pc = "creating" /\ s.ws = new
    BY DEF CallRecords
  <2>3. troubled \subseteq troubled' /\ call' = [call EXCEPT ![c] = s]
    BY <1>3, <2>1 DEF Ensure
  <2> HIDE DEF s
  <2>4. Ensures(c, k, s)
    BY <1>1, <2>2, <2>3 DEF Ensures
  <2> QED
    BY <1>3, <2>1, <2>2, <2>4, EnsureNewKeepsRows
<1> QED
  BY <1>2, <1>3

LEMMA StartKeepsRows ==
  ASSUME IInv, JInv, NEW c \in Calls, NEW k \in Keys, NEW kind \in Kinds, NEW t \in Tables,
         NEW n \in Batches, NEW cols \in SUBSET Cols, NEW nulls \in SUBSET Cols,
         Start(c, k, kind, t, n, cols, nulls)
  PROVE  JInv'
<1> DEFINE r == [Idle EXCEPT !.kind = kind, !.key = k, !.n = n,
                !.cols = cols, !.nulls = nulls,
                !.table = IF kind \in {"append", "drop"} THEN t ELSE None]
<1>1. Idle \in CallRecords
  BY IdleTyped
<1>2. r \in CallRecords /\ r.key = k /\ r.first = None
  <2>1. r \in CallRecords /\ r.key = k
    BY <1>1, WorkspaceAssumption DEF CallRecords
  <2>2. r.first = Idle.first
    BY <1>1 DEF CallRecords
  <2> QED
    BY <2>1, <2>2, IdleParts
<1>3. /\ call[c].pc = "idle" /\ Ensure(c, k, r)
      /\ UNCHANGED <<db, refused, conflicts>>
      /\ overlapped' = overlapped \cup {x \in {k} : \E d \in Calls : call[d].key = k}
  BY DEF Start
<1> HIDE DEF r
<1> QED
  BY <1>2, <1>3, EnsureKeepsRows

LEMMA ClearEnsureAgainKeepsRows ==
  ASSUME IInv, JInv, NEW c \in Calls, ClearEnsureAgain(c) PROVE JInv'
<1> DEFINE r == [call[c] EXCEPT !.first = call[c].ws]
<1>1. /\ call[c].pc = "ensured" /\ call[c].kind = "clear" /\ call[c].first = None
      /\ Ensure(c, call[c].key, r) /\ UNCHANGED <<overlapped, db, refused, conflicts>>
  BY DEF ClearEnsureAgain, At
<1>2. call[c] \in CallRecords /\ call[c].key \in Keys
  BY <1>1, CallFacts
<1>3. r \in CallRecords /\ r.key = call[c].key /\ r.first = call[c].ws
  BY <1>2 DEF CallRecords
<1> HIDE DEF r
<1> QED
  BY <1>1, <1>2, <1>3, EnsureKeepsRows

(* connect, the SET statements, and their failure.                         *)
LEMMA MakingKeepsRows ==
  ASSUME IInv, JInv, NEW c \in Calls, call[c].pc \in Making, NEW r,
         call' = [call EXCEPT ![c] = r], Placed(r),
         \/ r.pc \in Making /\ r.key = call[c].key /\ r.ws = call[c].ws /\ r.first = call[c].first
         \/ r = Idle,
         UNCHANGED <<workspaces, entry, overlapped, db, stored, refused, conflicts>>,
         troubled \subseteq troubled'
  PROVE  JInv'
<1>1. /\ call \in [Calls -> CallRecords]
      /\ \A d \in Calls : call[d].pc # "idle" => call[d].key \in Keys /\ call[d].ws \in Entries
  BY CallFacts
<1>2. call'[c] = r /\ \A d \in Calls \ {c} : call'[d] = call[d]
  BY <1>1
<1>3. /\ \A d \in Calls : call'[d].pc \in Making =>
           call[d].pc \in Making /\ call'[d].ws = call[d].ws
      /\ r.pc \notin Holding
      /\ r.first # None => r.first = call[c].first /\ r.key = call[c].key /\ r.ws = call[c].ws
  BY <1>2, IdleParts DEF Making, Holding
<1>4. \A e : Unmade(e) => Unmade(e)'
  BY <1>3 DEF Unmade
<1>5. HoldsInv'
  BY <1>2, <1>3, <1>4 DEF JInv, HoldsInv
<1>6. EmptyInv'
  BY <1>3 DEF JInv, EmptyInv
<1>7. OverCapIsReported'
  BY <1>2 DEF JInv, OverCapIsReported, Making
<1>8. WorkspaceKeepsRows'
  BY DEF JInv, WorkspaceKeepsRows
<1>9. AloneInv'
  <2>1. ASSUME NEW d \in Calls, Alone(d)' PROVE Alone(d) /\ AloneWith(d)
    <3>1. Alone(d)
      BY <1>1, <1>2, <2>1, IdleParts DEF Alone, Making
    <3> QED
      BY <3>1 DEF JInv, AloneInv
  <2>2. \A d \in Calls : call'[d].key = call[d].key \/ call'[d].key = None
    BY <1>2, IdleParts
  <2>3. ASSUME NEW d \in Calls, Alone(d)' PROVE AloneWith(d)'
    <3>1. Alone(d) /\ AloneWith(d) /\ call[d].key # None
      BY <1>1, <2>1, <2>3, WorkspaceAssumption DEF Alone
    <3>2. call'[d].key = call[d].key /\ call'[d].ws = call[d].ws /\ call'[d].first = call[d].first
          /\ (call'[d].pc \in Making => call[d].pc \in Making)
          /\ (call'[d].pc \in Holding => call'[d] = call[d])
      BY <1>2, <1>3, <2>3, IdleParts DEF Alone
    <3>3. \A b \in Calls \ {d} : call'[b].key # call'[d].key
      BY <2>2, <3>1, <3>2 DEF AloneWith
    <3> QED
      BY <3>1, <3>2, <3>3 DEF AloneWith
  <2> QED
    BY <2>3 DEF AloneInv
<1>10. MetaTracksTables'
  <2> SUFFICES ASSUME NEW x \in Keys, x \notin overlapped', workspaces'[x] # None,
                      \A d \in Calls : call'[d].key # x
               PROVE  Tracked(db[workspaces'[x]], {})
    BY DEF MetaTracksTables, Tracked
  <2>1. CASE x = call[c].key
    <3>1. Alone(c)
      BY <2>1 DEF Alone, Making
    <3> QED
      BY <2>1, <3>1 DEF JInv, AloneInv, AloneWith
  <2>2. CASE x # call[c].key
    <3>1. \A d \in Calls : call[d].key # x
      BY <1>2, <2>2
    <3> QED
      BY <3>1, MetaTracked DEF JInv
  <2> QED
    BY <2>1, <2>2
<1>11. ConflictsNeedOverlap'
  BY DEF JInv, ConflictsNeedOverlap
<1> QED
  BY <1>5, <1>6, <1>7, <1>8, <1>9, <1>10, <1>11 DEF JInv

LEMMA MakingStepsKeepRows ==
  ASSUME IInv, JInv, NEW c \in Calls, Connect(c) \/ Configure(c) \/ MakingFails(c)
  PROVE  JInv'
<1>1. call[c] \in CallRecords /\ Placed(call[c])
  BY CallFacts DEF JInv, HoldsInv
<1>2. CASE Connect(c) \/ Configure(c)
  <2> DEFINE to == IF call[c].pc = "creating" THEN "connecting" ELSE "configuring"
             r == [call[c] EXCEPT !.pc = to]
  <2>1. /\ call[c].pc \in Making /\ call' = [call EXCEPT ![c] = r]
        /\ UNCHANGED <<workspaces, entry, overlapped, troubled, db, stored, refused, conflicts>>
    BY <1>1, <1>2 DEF Connect, Configure, Goto, world, data, Making
  <2>2. /\ r.pc \in Making /\ r.pc = to /\ r.key = call[c].key /\ r.ws = call[c].ws
        /\ r.first = call[c].first
    BY <1>1 DEF CallRecords, Making
  <2>3. Placed(r)
    BY <2>2 DEF Placed
  <2> HIDE DEF r
  <2> QED
    BY <2>1, <2>2, <2>3, MakingKeepsRows
<1>3. CASE MakingFails(c)
  <2>1. /\ call[c].pc \in Making /\ call' = [call EXCEPT ![c] = Idle]
        /\ UNCHANGED <<workspaces, entry, overlapped, db, stored, refused, conflicts>>
        /\ troubled \subseteq troubled'
    BY <1>3 DEF MakingFails, Settle, data
  <2> QED
    BY <2>1, IdleParts, MakingKeepsRows
<1> QED
  BY <1>2, <1>3

LEMMA PublishKeepsRows ==
  ASSUME IInv, JInv, NEW c \in Calls, Publish(c) PROVE JInv'
<1> DEFINE k == call[c].key
           w == call[c].ws
           r == [call[c] EXCEPT !.pc = "ensured", !.since = now]
           f == [entry[w] EXCEPT !.lastAccess = now]
<1>1. /\ call[c] \in CallRecords /\ k \in Keys /\ w \in Entries /\ w # None /\ k # None
      /\ call \in [Calls -> CallRecords] /\ entry \in [Entries -> EntryRecords]
      /\ workspaces \in [Keys -> Entries \cup {None}]
      /\ call[c].pc = "configuring" /\ call[c].pc \in Making
  BY WorkspaceAssumption, CallFacts DEF Publish, IInv, WorldTypes, Making
<1>2. /\ workspaces' = [workspaces EXCEPT ![k] = w]
      /\ entry' = [entry EXCEPT ![w] = f]
      /\ call' = [call EXCEPT ![c] = r]
      /\ UNCHANGED <<overlapped, troubled, db, stored, refused, conflicts>>
  BY <1>1 DEF Publish, data, CallRecords, EntryRecords
<1>3. /\ r.pc = "ensured" /\ r.ws = w /\ r.key = k /\ r.kind = call[c].kind
      /\ r.first = call[c].first
  BY <1>1 DEF CallRecords
<1>4. f.open = entry[w].open /\ f.key = entry[w].key
  BY <1>1 DEF EntryRecords
<1>5. /\ entry[w].open /\ entry[w].key = k
      /\ workspaces[k] # None => k \in troubled
      /\ \A d \in Calls \ {c} : call[d].pc \in Making => call[d].ws # w
      /\ db[w] = NoTables
  BY <1>1 DEF IInv, Inv, MakingInv, JInv, EmptyInv
<1> HIDE DEF r, f
<1>6. /\ call'[c] = r /\ \A d \in Calls \ {c} : call'[d] = call[d]
      /\ \A e \in Entries : entry'[e].key = entry[e].key /\ entry'[e].open = entry[e].open
      /\ workspaces'[k] = w
      /\ \A x \in Keys \ {k} : workspaces'[x] = workspaces[x]
  BY <1>1, <1>2, <1>4
<1>7. \A d \in Calls : call'[d].pc \in Making =>
                         d # c /\ call[d].pc \in Making /\ call'[d] = call[d]
  BY <1>3, <1>6 DEF Making
<1>8. /\ \A e : Unmade(e) => Unmade(e)'
      /\ \A d \in Calls : call'[d].pc \in Making => call'[d].ws # w
  BY <1>5, <1>7 DEF Unmade
<1>9. /\ \A d \in Calls : call[d].first # None => call[d].first \in Entries
      /\ \A d \in Calls : call[d].pc # "idle" => call[d].ws \in Entries /\ call[d].key \in Keys
  BY CallFacts DEF CallRecords
<1>10. HoldsInv'
  <2>1. Placed(r) /\ entry'[r.ws].key = r.key
        /\ (r.first # None => entry'[r.first].key = r.key /\ Unmade(r.first))
    BY <1>1, <1>3, <1>5, <1>6, <1>9 DEF JInv, HoldsInv, Placed
  <2>2. ASSUME NEW d \in Calls \ {c}
        PROVE  /\ Placed(call[d])
               /\ call[d].pc \in Holding =>
                    entry'[call[d].ws].key = call[d].key /\ Unmade(call[d].ws)
               /\ call[d].first # None =>
                    entry'[call[d].first].key = call[d].key /\ Unmade(call[d].first)
    BY <1>6, <1>9 DEF JInv, HoldsInv, Holding
  <2> QED
    BY <1>3, <1>6, <1>8, <2>1, <2>2 DEF HoldsInv, Unmade
<1>11. EmptyInv'
  BY <1>2, <1>6, <1>7 DEF JInv, EmptyInv
<1>12. OverCapIsReported'
  <2>1. call[c].pc \notin {"written", "counted"}
    BY <1>1
  <2> QED
    BY <1>2, <1>6, <2>1 DEF JInv, OverCapIsReported
<1>13. WorkspaceKeepsRows'
  <2> SUFFICES ASSUME NEW x \in Keys, x \notin troubled
               PROVE  stored[x] = IF workspaces'[x] = None THEN [t \in Tables |-> 0]
                                  ELSE db[workspaces'[x]].rows
    BY <1>2 DEF WorkspaceKeepsRows
  <2>1. stored[x] = IF workspaces[x] = None THEN [t \in Tables |-> 0]
                    ELSE db[workspaces[x]].rows
    BY DEF JInv, WorkspaceKeepsRows
  <2>2. NoTables.rows = [t \in Tables |-> 0]
    BY DEF NoTables, NoRows
  <2>3. CASE x = k
    BY <1>1, <1>5, <1>6, <2>1, <2>2, <2>3
  <2>4. CASE x # k
    BY <1>6, <2>1, <2>4
  <2> QED
    BY <2>3, <2>4
<1>14. AloneInv'
  <2>1. ASSUME NEW d \in Calls \ {c}, Alone(d)' PROVE AloneWith(d)'
    <3>1. call'[d] = call[d] /\ Alone(d) /\ AloneWith(d) /\ call[d].key # k
          /\ call[d].key \in Keys /\ call[d].ws \in Entries
      BY <1>2, <1>6, <1>9, <2>1 DEF Alone, JInv, AloneInv, AloneWith
    <3>2. \A b \in Calls \ {d} : call'[b].key # call'[d].key
      BY <1>3, <1>6, <3>1 DEF AloneWith
    <3> QED
      BY <1>2, <1>6, <1>9, <3>1, <3>2 DEF AloneWith
  <2>2. ASSUME Alone(c)' PROVE AloneWith(c)'
    <3>1. Alone(c) /\ AloneWith(c)
      BY <1>1, <1>2, <1>3, <1>6, <2>2 DEF Alone, JInv, AloneInv
    <3>2. Knows(r, db[w])
      BY <1>3, <1>5 DEF Knows, Tracked, NoTables
    <3>3. \A b \in Calls \ {c} : call'[b].key # call'[c].key
      BY <1>3, <1>6, <3>1 DEF AloneWith
    <3>4. r.pc \notin Making
      BY <1>3 DEF Making
    <3>5. r.first # None /\ entry'[r.first].open => r.first = r.ws
      BY <1>3, <1>6, <1>9, <3>1 DEF AloneWith
    <3> QED
      BY <1>1, <1>2, <1>3, <1>5, <1>6, <3>2, <3>3, <3>4, <3>5 DEF AloneWith
  <2> QED
    BY <2>1, <2>2 DEF AloneInv
<1>15. MetaTracksTables'
  <2> SUFFICES ASSUME NEW x \in Keys, x \notin overlapped, workspaces'[x] # None,
                      \A d \in Calls : call'[d].key # x
               PROVE  Tracked(db[workspaces'[x]], {})
    BY <1>2 DEF MetaTracksTables, Tracked
  <2>1. x # k /\ \A d \in Calls : call[d].key # x
    BY <1>3, <1>6
  <2> QED
    BY <1>6, <2>1, MetaTracked DEF JInv
<1>16. ConflictsNeedOverlap'
  BY <1>2 DEF JInv, ConflictsNeedOverlap
<1> QED
  BY <1>10, <1>11, <1>12, <1>13, <1>14, <1>15, <1>16 DEF JInv

LEMMA StutterKeepsRows ==
  ASSUME JInv, UNCHANGED <<workspaces, entry, call, db, stored, refused, overlapped, troubled,
                           conflicts>>
  PROVE  JInv'
<1>1. HoldsInv' /\ EmptyInv'
  BY DEF JInv, HoldsInv, EmptyInv, Unmade
<1>2. OverCapIsReported' /\ WorkspaceKeepsRows' /\ MetaTracksTables' /\ ConflictsNeedOverlap'
  BY DEF JInv, OverCapIsReported, WorkspaceKeepsRows, MetaTracksTables, ConflictsNeedOverlap
<1>3. AloneInv'
  BY DEF JInv, AloneInv, Alone, AloneWith
<1> QED
  BY <1>1, <1>2, <1>3 DEF JInv

-----------------------------------------------------------------------------
(* The steps of a call that holds a workspace.                             *)

LEMMA HolderFacts ==
  ASSUME IInv, JInv, NEW c \in Calls, call[c].pc \in Holding
  PROVE  /\ call \in [Calls -> CallRecords] /\ call[c] \in CallRecords
         /\ db \in [Entries -> DbRecords] /\ Db(c) = db[call[c].ws] /\ Db(c) \in DbRecords
         /\ call[c].pc # "idle" /\ call[c].pc \notin Making
         /\ call[c].key \in Keys /\ call[c].key # None
         /\ call[c].ws \in Entries /\ call[c].ws # None
         /\ entry[call[c].ws].key = call[c].key /\ Unmade(call[c].ws)
         /\ Placed(call[c])
         /\ call[c].first # None =>
              /\ call[c].first \in Entries
              /\ entry[call[c].first].key = call[c].key /\ Unmade(call[c].first)
         /\ Alone(c) => AloneWith(c)
         /\ Alone(c) /\ Usable(c) => Knows(call[c], Db(c))
<1>1. call \in [Calls -> CallRecords] /\ call[c] \in CallRecords
      /\ call[c].pc # "idle" /\ call[c].pc \notin Making
      /\ call[c].key \in Keys /\ call[c].ws \in Entries
      /\ (call[c].first # None => call[c].first \in Entries)
  BY CallFacts DEF Holding, Making, CallRecords
<1>2. call[c].key # None /\ call[c].ws # None
  BY <1>1, WorkspaceAssumption
<1>3. Alone(c) => AloneWith(c)
  BY DEF JInv, AloneInv
<1>4. db \in [Entries -> DbRecords] /\ Db(c) = db[call[c].ws]
  BY DEF IInv, DataTypes, Db
<1>5. Alone(c) /\ Usable(c) => Knows(call[c], Db(c))
  BY <1>3, <1>4 DEF AloneWith, Usable
<1> QED
  BY <1>1, <1>2, <1>3, <1>4, <1>5 DEF JInv, HoldsInv

(* Call c puts the tables d in entry e and goes on as r, or settles.       *)
Works(c, e, d, r) ==
  /\ call[c].pc \in Holding /\ e \in Entries /\ e # None
  /\ e = call[c].ws \/ e = call[c].first
  /\ UNCHANGED <<workspaces, entry, overlapped, troubled>>
  /\ call' = [call EXCEPT ![c] = r]
  /\ db' = [db EXCEPT ![e] = d]
  /\ r = Idle \/ /\ Placed(r) /\ r.pc \in Holding /\ r.key = call[c].key
                 /\ r.ws = call[c].ws /\ r.first = call[c].first
  /\ \A t \in Tables \ d.has : d.rows[t] = 0
  /\ conflicts' \subseteq conflicts \cup {call[c].key}
  /\ Alone(c) => UNCHANGED conflicts
  /\ Alone(c) /\ Usable(c) =>
       IF r = Idle THEN Tracked(db'[call[c].ws], {}) ELSE Knows(r, db'[call[c].ws])

LEMMA WorksKeeps ==
  ASSUME IInv, JInv, NEW c \in Calls, NEW e, NEW d, NEW r, Works(c, e, d, r)
  PROVE  HoldsInv' /\ EmptyInv' /\ AloneInv' /\ MetaTracksTables' /\ ConflictsNeedOverlap'
<1> DEFINE w == call[c].ws
           k == call[c].key
<1>1. /\ call \in [Calls -> CallRecords] /\ db \in [Entries -> DbRecords]
      /\ call[c].pc \notin Making /\ k \in Keys /\ k # None /\ w \in Entries
      /\ entry[w].key = k /\ Unmade(w) /\ Placed(call[c])
      /\ call[c].first # None => /\ call[c].first \in Entries
                                /\ entry[call[c].first].key = k /\ Unmade(call[c].first)
      /\ Alone(c) => AloneWith(c)
  BY HolderFacts DEF Works
<1>2. entry[e].key = k /\ Unmade(e) /\ e \in Entries
  BY <1>1 DEF Works
<1>3. /\ call'[c] = r /\ \A b \in Calls \ {c} : call'[b] = call[b]
      /\ db'[e] = d /\ \A f \in Entries \ {e} : db'[f] = db[f]
      /\ UNCHANGED <<workspaces, entry, overlapped, troubled>>
  BY <1>1, <1>2 DEF Works
<1>4. /\ Placed(r) /\ r.pc \notin Making
      /\ r.pc \in Holding => r.ws = w /\ r.key = k
      /\ r.first # None => r.pc \in Holding /\ r.first = call[c].first /\ r.ws = w /\ r.key = k
      /\ r # Idle => r.pc \in Holding
      /\ r.pc # "idle" => r # Idle
  BY IdleParts DEF Works, Making, Holding
<1>5. \A b \in Calls : call'[b].pc \in Making =>
                         b # c /\ call[b].pc \in Making /\ call'[b] = call[b]
  BY <1>3, <1>4
<1>6. \A f : Unmade(f) => Unmade(f)'
  BY <1>5 DEF Unmade
<1>7. \A b \in Calls : call[b].pc # "idle" => call[b].ws \in Entries /\ call[b].key \in Keys
  BY CallFacts
<1>8. HoldsInv'
  BY <1>1, <1>3, <1>4, <1>6 DEF JInv, HoldsInv
<1>9. EmptyInv'
  <2>1. \A f \in Entries : entry'[f].key = None => db'[f] = NoTables
    BY <1>1, <1>2, <1>3 DEF JInv, EmptyInv
  <2>2. ASSUME NEW b \in Calls, call'[b].pc \in Making PROVE db'[call'[b].ws] = NoTables
    <3>1. call[b].pc \in Making /\ call'[b] = call[b] /\ call[b].ws # e /\ call[b].ws \in Entries
      BY <1>2, <1>5, <1>7, <2>2 DEF Unmade, Making
    <3> QED
      BY <1>3, <3>1 DEF JInv, EmptyInv
  <2>3. \A f \in Entries : \A t \in Tables \ db'[f].has : db'[f].rows[t] = 0
    BY <1>3 DEF Works, JInv, EmptyInv
  <2> QED
    BY <2>1, <2>2, <2>3 DEF EmptyInv
<1>10. AloneInv'
  <2>1. ASSUME NEW b \in Calls \ {c}, Alone(b)' PROVE AloneWith(b)'
    <3>1. /\ call'[b] = call[b] /\ Alone(b) /\ AloneWith(b) /\ call[b].key # k
          /\ call[b].ws \in Entries
      BY <1>3, <1>7, <2>1 DEF Alone, JInv, AloneInv, AloneWith
    <3>2. \A a \in Calls \ {b} : call'[a].key # call'[b].key
      <4>1. r.key \in {k, None}
        BY <1>4, IdleParts
      <4>2. call[b].key # None
        BY <1>7, <3>1, WorkspaceAssumption DEF Alone
      <4> QED
        BY <1>3, <3>1, <4>1, <4>2 DEF AloneWith
    <3>3. call[b].pc \in Holding => call[b].ws # e
      BY <1>2, <3>1 DEF JInv, HoldsInv
    <3>4. call[b].pc \in Holding => db'[call[b].ws] = db[call[b].ws]
      BY <1>3, <3>1, <3>3
    <3> QED
      BY <1>3, <3>1, <3>2, <3>4 DEF AloneWith
  <2>2. ASSUME Alone(c)' PROVE AloneWith(c)'
    <3>1. r # Idle /\ r.pc \in Holding /\ r.key = k /\ r.ws = w /\ r.first = call[c].first
      BY <1>3, <1>4, <2>2 DEF Alone, Works
    <3>2. Alone(c) /\ AloneWith(c)
      BY <1>1, <1>3, <2>2, <3>1 DEF Alone, Works, Holding
    <3>3. entry[w].open => workspaces[k] = w /\ Knows(r, db'[w])
      BY <3>1, <3>2 DEF Works, AloneWith, Usable
    <3>4. ~entry[w].open => workspaces[k] = None
      BY <3>2 DEF AloneWith, Works
    <3>5. \A a \in Calls \ {c} : call'[a].key # k
      BY <1>3, <3>2 DEF AloneWith
    <3>6. call[c].first # None /\ entry[call[c].first].open => call[c].first = w
      BY <3>2 DEF AloneWith
    <3> QED
      BY <1>3, <1>4, <3>1, <3>3, <3>4, <3>5, <3>6 DEF AloneWith
  <2> QED
    BY <2>1, <2>2 DEF AloneInv
<1>11. MetaTracksTables'
  <2> SUFFICES ASSUME NEW x \in Keys, x \notin overlapped, workspaces[x] # None,
                      \A b \in Calls : call'[b].key # x
               PROVE  Tracked(db'[workspaces[x]], {})
    BY <1>3 DEF MetaTracksTables, Tracked
  <2>1. CASE x = k
    <3>1. Alone(c) /\ AloneWith(c) /\ r = Idle
      BY <1>1, <1>3, <2>1 DEF Alone, Works, Holding
    <3>2. workspaces[x] = w /\ Usable(c)
      BY <2>1, <3>1 DEF AloneWith, Works, Usable
    <3> QED
      BY <3>1, <3>2 DEF Works
  <2>2. CASE x # k
    <3>1. \A b \in Calls : call[b].key # x
      BY <1>3, <2>2
    <3>2. workspaces[x] \in Entries /\ workspaces[x] # e
      BY <1>2, <2>2 DEF IInv, WorldTypes, Inv, MapInv
    <3> QED
      BY <1>3, <3>1, <3>2, MetaTracked DEF JInv
  <2> QED
    BY <2>1, <2>2
<1>12. ConflictsNeedOverlap'
  BY <1>1, <1>3 DEF Works, JInv, ConflictsNeedOverlap, Alone, Holding
<1> QED
  BY <1>8, <1>9, <1>10, <1>11, <1>12

(* Steps that leave the rows and the refusals alone.                       *)
LEMMA CapQuiet ==
  ASSUME JInv, NEW c \in Calls, \A b \in Calls \ {c} : call'[b] = call[b],
         UNCHANGED <<entry, refused>>,
         \A e \in Entries, t \in Tables : db'[e].rows[t] = db[e].rows[t],
         \/ call[c].pc \notin {"written", "counted"}
         \/ ~entry[call[c].ws].open
         \/ call[c].pc = "counted" /\ ~(call[c].total > MaxRows)
         \/ ~(db[call[c].ws].rows[call[c].table] > MaxRows)
         \/ /\ call'[c].ws = call[c].ws /\ call'[c].table = call[c].table
            /\ call'[c].pc = "counted"
            /\ call'[c].total = db[call[c].ws].rows[call[c].table]
  PROVE  OverCapIsReported'
<1> SUFFICES ASSUME NEW e \in Entries, NEW t \in Tables, entry[e].open, db[e].rows[t] > MaxRows,
                    <<e, t>> \notin refused
             PROVE  \E b \in Calls : /\ call'[b].ws = e /\ call'[b].table = t
                                     /\ \/ call'[b].pc = "written"
                                        \/ call'[b].pc = "counted" /\ call'[b].total > MaxRows
  BY DEF OverCapIsReported
<1>1. PICK b \in Calls : /\ call[b].ws = e /\ call[b].table = t
                         /\ \/ call[b].pc = "written"
                            \/ call[b].pc = "counted" /\ call[b].total > MaxRows
  BY DEF JInv, OverCapIsReported
<1>2. CASE b # c
  BY <1>1, <1>2
<1>3. CASE b = c
  BY <1>1, <1>3
<1> QED
  BY <1>2, <1>3

LEMMA RowsQuiet ==
  ASSUME JInv, IInv, UNCHANGED <<workspaces, stored, troubled>>,
         \A e \in Entries : db'[e].rows = db[e].rows
  PROVE  WorkspaceKeepsRows'
<1>1. workspaces \in [Keys -> Entries \cup {None}]
  BY DEF IInv, WorldTypes
<1> QED
  BY <1>1 DEF JInv, WorkspaceKeepsRows

(* The call goes on with what it has seen, or settles.                     *)
LEMMA MoveKeepsRows ==
  ASSUME IInv, JInv, NEW c \in Calls, call[c].pc \in Holding, NEW r,
         call' = [call EXCEPT ![c] = r], UNCHANGED <<world, data>>,
         r = Idle \/ /\ Placed(r) /\ r.pc \in Holding /\ r.key = call[c].key
                     /\ r.ws = call[c].ws /\ r.first = call[c].first,
         conflicts' \subseteq conflicts \cup {call[c].key}, Alone(c) => UNCHANGED conflicts,
         Alone(c) /\ Usable(c) => IF r = Idle THEN Tracked(Db(c), {}) ELSE Knows(r, Db(c)),
         \/ call[c].pc \notin {"written", "counted"}
         \/ ~Usable(c)
         \/ ~(Db(c).rows[call[c].table] > MaxRows)
         \/ /\ r.ws = call[c].ws /\ r.table = call[c].table
            /\ r.pc = "counted" /\ r.total = Db(c).rows[call[c].table]
  PROVE  JInv'
<1> DEFINE w == call[c].ws
<1>1. /\ call \in [Calls -> CallRecords] /\ db \in [Entries -> DbRecords] /\ w \in Entries
      /\ Db(c) = db[w] /\ w # None
  BY HolderFacts
<1>2. UNCHANGED <<workspaces, entry, overlapped, troubled, db, stored, refused>>
  BY DEF world, data
<1>3. db' = [db EXCEPT ![w] = db[w]] /\ db'[w] = Db(c)
  BY <1>1, <1>2
<1>4. \A t \in Tables \ db[w].has : db[w].rows[t] = 0
  BY <1>1 DEF JInv, EmptyInv
<1>5. Works(c, w, db[w], r)
  BY <1>1, <1>2, <1>3, <1>4 DEF Works
<1>6. call'[c] = r /\ \A b \in Calls \ {c} : call'[b] = call[b]
  BY <1>1
<1>7. OverCapIsReported'
  BY <1>1, <1>2, <1>6, CapQuiet DEF Usable
<1>8. WorkspaceKeepsRows'
  BY <1>2, RowsQuiet
<1> QED
  BY <1>5, <1>7, <1>8, WorksKeeps DEF JInv

LEMMA SettleKeepsRows ==
  ASSUME IInv, JInv, NEW c \in Calls, call[c].pc \in Holding, Settle(c),
         UNCHANGED <<world, data, conflicts>>,
         call[c].pc \in {"ensured", "looked", "columns", "listed"} \/ ~Usable(c)
  PROVE  JInv'
<1>1. Alone(c) /\ Usable(c) => Tracked(Db(c), {})
  BY HolderFacts DEF Knows
<1>2. call' = [call EXCEPT ![c] = Idle]
  BY DEF Settle
<1> QED
  BY <1>1, <1>2, MoveKeepsRows

(* A statement that a call alone could not have had rejected.              *)
LEMMA RejectKeepsRows ==
  ASSUME IInv, JInv, NEW c \in Calls, call[c].pc \in Holding, NEW e, Reject(c, e),
         Alone(c) => ~entry[e].open,
         \/ ~Usable(c)
         \/ call[c].pc \in {"ensured", "looked", "columns", "listed"}
         \/ call[c].pc = "written" /\ ~(Db(c).rows[call[c].table] > MaxRows) /\ e = call[c].ws
         \/ call[c].pc = "clearing" /\ e = call[c].first
  PROVE  JInv'
<1>1. /\ call' = [call EXCEPT ![c] = Idle] /\ UNCHANGED <<world, data>>
      /\ conflicts' \subseteq conflicts \cup {call[c].key} /\ (Alone(c) => UNCHANGED conflicts)
  BY DEF Reject, Settle
<1>2. ASSUME Alone(c), Usable(c) PROVE Tracked(Db(c), {})
  <2>1. Knows(call[c], Db(c)) /\ ~entry[e].open
    BY <1>2, HolderFacts
  <2>2. CASE call[c].pc \in {"ensured", "looked", "columns", "listed"}
    BY <2>1, <2>2 DEF Knows
  <2>3. CASE call[c].pc = "written" /\ e = call[c].ws
    BY <1>2, <2>1, <2>3 DEF Usable
  <2>4. CASE call[c].pc = "clearing" /\ e = call[c].first
    BY <1>2, <2>1, <2>4 DEF Knows, Usable
  <2> QED
    BY <1>2, <2>2, <2>3, <2>4
<1> QED
  BY <1>1, <1>2, MoveKeepsRows

(* The rows of a workspace change with the tables of its entry.            *)
LEMMA RowsChange ==
  ASSUME IInv, JInv, NEW c \in Calls, call[c].pc \in Holding, NEW e, NEW d, NEW r,
         Works(c, e, d, r), entry[e].open, NEW rows,
         stored' = [stored EXCEPT ![call[c].key] = rows],
         stored[call[c].key] = db[e].rows => rows = d.rows
  PROVE  WorkspaceKeepsRows'
<1> DEFINE k == call[c].key
<1>1. /\ e \in Entries /\ e # None /\ k \in Keys /\ entry[e].key = k /\ Unmade(e)
      /\ db \in [Entries -> DbRecords]
  BY HolderFacts DEF Works
<1>2. /\ db'[e] = d /\ \A f \in Entries \ {e} : db'[f] = db[f]
      /\ UNCHANGED <<workspaces, entry, troubled>>
  BY <1>1 DEF Works
<1>3. /\ stored'[k] = rows /\ \A x \in Keys \ {k} : stored'[x] = stored[x]
      /\ workspaces \in [Keys -> Entries \cup {None}]
  BY <1>1 DEF IInv, DataTypes, WorldTypes
<1> SUFFICES ASSUME NEW x \in Keys, x \notin troubled
             PROVE  stored'[x] = IF workspaces[x] = None THEN [t \in Tables |-> 0]
                                 ELSE db'[workspaces[x]].rows
  BY <1>2 DEF WorkspaceKeepsRows
<1>4. stored[x] = IF workspaces[x] = None THEN [t \in Tables |-> 0]
                  ELSE db[workspaces[x]].rows
  BY DEF JInv, WorkspaceKeepsRows
<1>5. CASE x = k
  <2>1. workspaces[k] = e
    BY <1>1, <1>5 DEF IInv, OrphansNeedARace, Unmade
  <2> QED
    BY <1>1, <1>2, <1>3, <1>4, <1>5, <2>1
<1>6. CASE x # k
  <2>1. workspaces[x] # None => workspaces[x] \in Entries \ {e}
    BY <1>1, <1>3, <1>6 DEF IInv, Inv, MapInv
  <2> QED
    BY <1>2, <1>3, <1>4, <1>6, <2>1
<1> QED
  BY <1>5, <1>6

(* CREATE or INSERT.                                                       *)
LEMMA WriteKeepsRows ==
  ASSUME IInv, JInv, NEW c \in Calls, call[c].pc \in {"looked", "columns"},
         call[c].kind = "append", Usable(c), NEW d \in DbRecords, Write(c, d),
         d.meta = Db(c).meta, d.has = Db(c).has \cup {call[c].table},
         d.rows = [Db(c).rows EXCEPT ![call[c].table] = @ + call[c].n]
  PROVE  JInv'
<1> DEFINE r == [call[c] EXCEPT !.pc = "written"]
           w == call[c].ws
           t == call[c].table
           k == call[c].key
           rows == [stored[k] EXCEPT ![t] = @ + call[c].n]
<1>1. /\ call \in [Calls -> CallRecords] /\ call[c] \in CallRecords /\ call[c].pc \in Holding
      /\ db \in [Entries -> DbRecords] /\ Db(c) = db[w] /\ Db(c) \in DbRecords
      /\ w \in Entries /\ w # None /\ k \in Keys /\ Placed(call[c])
      /\ (Alone(c) => Knows(call[c], Db(c)))
  BY HolderFacts, PlacesHold
<1>2. t \in Tables /\ call[c].n \in Nat
  BY <1>1, PlacesHold DEF IInv, Inv, PlaceInv, Holding, CallRecords
<1>3. /\ call' = [call EXCEPT ![c] = r] /\ db' = [db EXCEPT ![w] = d]
      /\ UNCHANGED <<workspaces, entry, overlapped, troubled, refused, conflicts>>
      /\ stored' = [stored EXCEPT ![k] = rows]
  <2>1. call' = [call EXCEPT ![c] = r] /\ db' = [db EXCEPT ![w] = d]
        /\ UNCHANGED <<workspaces, entry, overlapped, troubled, refused, conflicts>>
    BY <1>1 DEF Write, Goto, world
  <2>2. stored' = [stored EXCEPT ![k] = rows]
    BY DEF Write
  <2> QED
    BY <2>1, <2>2
<1>4. /\ r.pc = "written" /\ r.ws = w /\ r.key = k /\ r.first = call[c].first
      /\ r.kind = "append" /\ r.table = t
  BY <1>1 DEF CallRecords
<1> HIDE DEF r, rows
<1>5. /\ db'[w] = d /\ call'[c] = r
      /\ \A b \in Calls \ {c} : call'[b] = call[b]
      /\ \A f \in Entries \ {w} : db'[f] = db[f]
  BY <1>1, <1>3
<1>6. \A u \in Tables \ {t} : d.rows[u] = Db(c).rows[u]
  BY <1>1 DEF DbRecords
<1>7. Works(c, w, d, r)
  <2>1. Placed(r) /\ r.pc \in Holding
    BY <1>4, PlacesHold DEF Placed
  <2>2. \A u \in Tables \ d.has : d.rows[u] = 0
    BY <1>1, <1>6 DEF JInv, EmptyInv
  <2>3. ASSUME Alone(c) PROVE Knows(r, d)
    <3>1. Tracked(Db(c), {})
      BY <1>1, <2>3 DEF Knows
    <3>2. d.meta \ {t} \subseteq d.has
      BY <3>1 DEF Tracked
    <3>3. \A u \in d.has \ d.meta : u \in {t} \/ d.rows[u] > MaxRows
      BY <1>1, <1>6, <3>1 DEF Tracked, DbRecords
    <3> QED
      BY <1>4, <3>2, <3>3 DEF Knows, Tracked
  <2>4. r # Idle
    BY <1>4, IdleParts
  <2> QED
    BY <1>1, <1>3, <1>4, <1>5, <2>1, <2>2, <2>3, <2>4 DEF Works
<1>8. WorkspaceKeepsRows'
  <2>1. stored[k] = db[w].rows => rows = d.rows
    BY <1>1 DEF rows
  <2> QED
    BY <1>1, <1>3, <1>7, <2>1, RowsChange DEF Usable
<1>9. OverCapIsReported'
  <2> SUFFICES ASSUME NEW e \in Entries, NEW u \in Tables, entry[e].open,
                      db'[e].rows[u] > MaxRows, <<e, u>> \notin refused
               PROVE  \E b \in Calls : /\ call'[b].ws = e /\ call'[b].table = u
                                       /\ \/ call'[b].pc = "written"
                                          \/ call'[b].pc = "counted" /\ call'[b].total > MaxRows
    BY <1>3 DEF OverCapIsReported
  <2>1. CASE e = w /\ u = t
    BY <1>4, <1>5, <2>1
  <2>2. CASE ~(e = w /\ u = t)
    <3>1. db[e].rows[u] > MaxRows
      <4>1. CASE e = w
        <5>1. u # t /\ db'[e] = d /\ db[e] = Db(c)
          BY <1>1, <1>5, <2>2, <4>1
        <5>2. d.rows[u] = db[e].rows[u]
          BY <1>6, <5>1
        <5> QED
          BY <5>1, <5>2
      <4>2. CASE e # w
        <5>1. db'[e] = db[e]
          BY <1>5, <4>2
        <5> QED
          BY <5>1
      <4> QED
        BY <4>1, <4>2
    <3>2. PICK b \in Calls : /\ call[b].ws = e /\ call[b].table = u
                             /\ \/ call[b].pc = "written"
                                \/ call[b].pc = "counted" /\ call[b].total > MaxRows
      BY <3>1 DEF JInv, OverCapIsReported
    <3>3. b # c
      BY <3>2
    <3> QED
      BY <1>5, <3>2, <3>3
  <2> QED
    BY <2>1, <2>2
<1> QED
  BY <1>7, <1>8, <1>9, WorksKeeps DEF JInv

LEMMA LookKeepsRows ==
  ASSUME IInv, JInv, NEW c \in Calls, AppendLook(c) \/ DropLook(c) PROVE JInv'
<1> DEFINE found == Exists(c)
           r == [call[c] EXCEPT !.pc = "looked", !.found = found]
<1>1. /\ call[c].pc = "ensured" /\ call[c].kind \in {"append", "drop"}
      /\ UNCHANGED <<world, data, conflicts>>
  BY DEF AppendLook, DropLook, At
<1>2. /\ call[c] \in CallRecords /\ call[c].pc \in Holding
      /\ (Alone(c) /\ Usable(c) => Knows(call[c], Db(c)))
  BY <1>1, HolderFacts, PlacesHold
<1>3. call' = [call EXCEPT ![c] = r]
  BY <1>2 DEF AppendLook, DropLook, CallRecords
<1>4. /\ r.pc = "looked" /\ r.ws = call[c].ws /\ r.key = call[c].key
      /\ r.kind = call[c].kind /\ r.table = call[c].table /\ r.first = call[c].first
      /\ r.found = found
  BY <1>2 DEF CallRecords
<1>5. found <=> r.table \in Db(c).has
  BY <1>4 DEF Exists
<1> HIDE DEF r, found
<1>6. Placed(r) /\ r.pc \in Holding /\ r # Idle
  BY <1>1, <1>4, PlacesHold, IdleParts DEF Placed
<1>7. Alone(c) /\ Usable(c) => Knows(r, Db(c))
  BY <1>1, <1>2, <1>4, <1>5 DEF Knows
<1> QED
  BY <1>1, <1>2, <1>3, <1>4, <1>6, <1>7, MoveKeepsRows

LEMMA AppendNothingKeepsRows ==
  ASSUME IInv, JInv, NEW c \in Calls, AppendNothing(c) PROVE JInv'
<1>1. call[c].pc = "looked" /\ call[c].pc \in Holding /\ Usable(c)
  BY PlacesHold DEF AppendNothing, At
<1>2. CASE Settle(c) /\ UNCHANGED <<world, data, conflicts>>
  BY <1>1, <1>2, SettleKeepsRows
<1>3. CASE call[c].found /\ ~Exists(c) /\ Reject(c, call[c].ws)
  <2>1. ~Alone(c)
    BY <1>1, <1>3, HolderFacts DEF Knows, Exists
  <2> QED
    BY <1>1, <1>3, <2>1, RejectKeepsRows
<1> QED
  BY <1>2, <1>3 DEF AppendNothing

LEMMA AppendFullKeepsRows ==
  ASSUME IInv, JInv, NEW c \in Calls, AppendFull(c) PROVE JInv'
  BY PlacesHold, SettleKeepsRows DEF AppendFull, At

LEMMA AppendCreateKeepsRows ==
  ASSUME IInv, JInv, NEW c \in Calls, AppendCreate(c) PROVE JInv'
<1> DEFINE t == call[c].table
           d == [Db(c) EXCEPT !.has = @ \cup {t}, !.rows[t] = call[c].n,
                              !.cols[t] = call[c].cols \cup call[c].nulls]
<1>1. /\ call[c].pc = "looked" /\ call[c].kind = "append" /\ Usable(c) /\ ~call[c].found
      /\ call[c].pc \in Holding
  BY PlacesHold DEF AppendCreate, At, Absent
<1>2. /\ call[c] \in CallRecords /\ Db(c) \in DbRecords /\ Db(c) = db[call[c].ws]
      /\ call[c].ws \in Entries
  BY <1>1, HolderFacts
<1>3. t \in Tables /\ call[c].n \in Nat
  BY <1>1, <1>2 DEF IInv, Inv, PlaceInv, CallRecords
<1>4. CASE ~Exists(c) /\ Write(c, d)
  <2>1. Db(c).rows[t] = 0
    BY <1>2, <1>3, <1>4 DEF JInv, EmptyInv, Exists
  <2>2. /\ d \in DbRecords /\ d.meta = Db(c).meta /\ d.has = Db(c).has \cup {t}
        /\ d.rows = [Db(c).rows EXCEPT ![t] = call[c].n]
    BY <1>2, <1>3 DEF CallRecords, DbRecords
  <2>3. d.rows = [Db(c).rows EXCEPT ![t] = @ + call[c].n]
    BY <1>3, <2>1, <2>2
  <2> HIDE DEF d
  <2> QED
    BY <1>1, <1>4, <2>2, <2>3, WriteKeepsRows
<1>5. CASE Exists(c) /\ Reject(c, call[c].ws)
  <2>1. ~Alone(c)
    BY <1>1, <1>5, HolderFacts DEF Knows, Exists
  <2> QED
    BY <1>1, <1>5, <2>1, RejectKeepsRows
<1> QED
  BY <1>4, <1>5 DEF AppendCreate

LEMMA AppendColumnsKeepsRows ==
  ASSUME IInv, JInv, NEW c \in Calls, AppendColumns(c) PROVE JInv'
<1> DEFINE left == Missing(c)
           r == [call[c] EXCEPT !.pc = "columns", !.todo = left]
<1>1. call[c].pc = "looked" /\ call[c].kind = "append" /\ Usable(c) /\ call[c].found
      /\ call[c].pc \in Holding
  BY PlacesHold DEF AppendColumns, At, Absent
<1>2. call[c] \in CallRecords /\ (Alone(c) => Knows(call[c], Db(c)))
  BY <1>1, HolderFacts
<1>3. CASE ~Exists(c) /\ Reject(c, call[c].ws)
  <2>1. ~Alone(c)
    BY <1>1, <1>2, <1>3 DEF Knows, Exists
  <2> QED
    BY <1>1, <1>3, <2>1, RejectKeepsRows
<1>4. CASE ~(~Exists(c) /\ Reject(c, call[c].ws))
  <2>1. /\ Exists(c) /\ call' = [call EXCEPT ![c] = r]
        /\ UNCHANGED <<world, data, conflicts>>
    BY <1>2, <1>4 DEF AppendColumns, CallRecords
  <2>2. /\ r.pc = "columns" /\ r.todo = left /\ r.ws = call[c].ws /\ r.key = call[c].key
        /\ r.kind = "append" /\ r.table = call[c].table /\ r.first = call[c].first
        /\ r.cols = call[c].cols
    BY <1>1, <1>2 DEF CallRecords
  <2>3. left = r.cols \ Db(c).cols[r.table]
    BY <2>2 DEF Missing
  <2> HIDE DEF r, left
  <2>4. Placed(r) /\ r.pc \in Holding /\ r # Idle
    BY <2>2, PlacesHold, IdleParts DEF Placed
  <2>5. Alone(c) => Knows(r, Db(c))
    BY <1>1, <1>2, <2>1, <2>2, <2>3 DEF Knows, Exists
  <2> QED
    BY <1>1, <2>1, <2>2, <2>4, <2>5, MoveKeepsRows
<1> QED
  BY <1>3, <1>4

LEMMA AppendAlterKeepsRows ==
  ASSUME IInv, JInv, NEW c \in Calls, AppendAlter(c) PROVE JInv'
<1> DEFINE t == call[c].table
           w == call[c].ws
<1>1. call[c].pc = "columns" /\ call[c].kind = "append" /\ Usable(c) /\ call[c].pc \in Holding
  BY PlacesHold DEF AppendAlter, At
<1>2. /\ call[c] \in CallRecords /\ (Alone(c) => Knows(call[c], Db(c)))
      /\ call \in [Calls -> CallRecords]
      /\ Db(c) \in DbRecords /\ Db(c) = db[w] /\ w \in Entries /\ w # None
      /\ db \in [Entries -> DbRecords]
  BY <1>1, HolderFacts
<1>3. t \in Tables
  BY <1>1 DEF IInv, Inv, PlaceInv
<1>4. PICK col \in call[c].todo :
        LET missing == Exists(c) /\ col \notin Db(c).cols[call[c].table]
        IN  \/ /\ missing
               /\ db' = [db EXCEPT ![call[c].ws].cols[call[c].table] = @ \cup {col}]
               /\ call' = [call EXCEPT ![c].todo = @ \ {col}]
               /\ UNCHANGED <<world, stored, refused, tmp, conflicts>>
            \/ ~missing /\ Reject(c, call[c].ws)
  BY DEF AppendAlter
<1>5. CASE /\ ~(Exists(c) /\ col \notin Db(c).cols[call[c].table])
           /\ Reject(c, call[c].ws)
  <2>1. ~Alone(c)
    BY <1>1, <1>2, <1>4, <1>5 DEF Knows, Exists
  <2> QED
    BY <1>1, <1>5, <2>1, RejectKeepsRows
<1>6. CASE /\ db' = [db EXCEPT ![w].cols[t] = @ \cup {col}]
           /\ call' = [call EXCEPT ![c].todo = @ \ {col}]
           /\ UNCHANGED <<world, stored, refused, tmp, conflicts>>
  <2> DEFINE left == call[c].todo \ {col}
             r == [call[c] EXCEPT !.todo = left]
             old == Db(c)
             more == old.cols[t] \cup {col}
             d == [old EXCEPT !.cols[t] = more]
  <2>1. call' = [call EXCEPT ![c] = r]
    BY <1>2, <1>6 DEF CallRecords
  <2>2. /\ r.pc = "columns" /\ r.todo = left /\ r.ws = w /\ r.key = call[c].key
        /\ r.kind = "append" /\ r.table = t /\ r.first = call[c].first /\ r.cols = call[c].cols
    BY <1>1, <1>2 DEF CallRecords
  <2>3. db' = [db EXCEPT ![w] = d]
    BY <1>2, <1>6 DEF DbRecords
  <2>4. d.meta = old.meta /\ d.has = old.has /\ d.rows = old.rows /\ d.cols[t] = more
    BY <1>2, <1>3 DEF DbRecords
  <2> HIDE DEF r, d
  <2>5. db'[w] = d /\ (\A f \in Entries \ {w} : db'[f] = db[f])
        /\ \A b \in Calls \ {c} : call'[b] = call[b]
    BY <1>2, <2>1, <2>3
  <2>6. UNCHANGED <<workspaces, entry, overlapped, troubled, stored, refused, conflicts>>
    BY <1>6 DEF world
  <2>7. Works(c, w, d, r)
    <3>1. Placed(r) /\ r.pc \in Holding /\ r # Idle
      BY <2>2, PlacesHold, IdleParts DEF Placed
    <3>2. \A u \in Tables \ d.has : d.rows[u] = 0
      BY <1>2, <2>4 DEF JInv, EmptyInv
    <3>3. ASSUME Alone(c) PROVE Knows(r, d)
      <4>1. Knows(call[c], old)
        BY <1>2, <3>3
      <4>2. Tracked(d, {})
        BY <1>1, <2>4, <4>1 DEF Knows, Tracked
      <4>3. /\ t \in d.has /\ left \cap d.cols[t] = {}
            /\ call[c].cols \subseteq left \cup d.cols[t]
        BY <1>1, <2>4, <4>1 DEF Knows
      <4> QED
        BY <2>2, <4>2, <4>3 DEF Knows
    <3> QED
      BY <1>1, <1>2, <2>1, <2>2, <2>3, <2>5, <2>6, <3>1, <3>2, <3>3 DEF Works
  <2>8. \A e \in Entries : db'[e].rows = db[e].rows
    BY <1>2, <2>4, <2>5
  <2> QED
    BY <1>1, <2>5, <2>6, <2>7, <2>8, WorksKeeps, RowsQuiet, CapQuiet DEF JInv
<1> QED
  BY <1>4, <1>5, <1>6

LEMMA AppendInsertKeepsRows ==
  ASSUME IInv, JInv, NEW c \in Calls, AppendInsert(c) PROVE JInv'
<1> DEFINE t == call[c].table
           d == [Db(c) EXCEPT !.rows[t] = @ + call[c].n]
           missing == (call[c].cols \cup call[c].nulls) \ Db(c).cols[t]
<1>1. /\ call[c].pc = "columns" /\ call[c].kind = "append" /\ Usable(c)
      /\ call[c].pc \in Holding /\ call[c].todo = {}
  BY PlacesHold DEF AppendInsert, At
<1>2. call[c] \in CallRecords /\ Db(c) \in DbRecords /\ (Alone(c) => Knows(call[c], Db(c)))
  BY <1>1, HolderFacts
<1>3. t \in Tables /\ call[c].n \in Nat
  BY <1>1, <1>2 DEF IInv, Inv, PlaceInv, CallRecords
<1>4. CASE Exists(c) /\ Write(c, d)
  <2>1. Db(c).rows[t] + call[c].n \in Nat
    BY <1>2, <1>3 DEF DbRecords
  <2>2. /\ d \in DbRecords /\ d.meta = Db(c).meta /\ d.has = Db(c).has
        /\ d.rows = [Db(c).rows EXCEPT ![t] = @ + call[c].n]
    BY <1>2, <1>3, <2>1 DEF DbRecords
  <2>3. d.has = Db(c).has \cup {t}
    BY <1>4, <2>2 DEF Exists
  <2> HIDE DEF d
  <2> QED
    BY <1>1, <1>4, <2>2, <2>3, WriteKeepsRows
<1>5. CASE Settle(c) /\ UNCHANGED <<world, data, conflicts>>
  BY <1>1, <1>5, SettleKeepsRows
<1>6. CASE (~Exists(c) \/ ~(missing \subseteq call[c].nulls)) /\ Reject(c, call[c].ws)
  <2>1. ~Alone(c)
    BY <1>1, <1>2, <1>6 DEF Knows, Exists
  <2> QED
    BY <1>1, <1>6, <2>1, RejectKeepsRows
<1> QED
  BY <1>4, <1>5, <1>6 DEF AppendInsert

LEMMA AppendCountKeepsRows ==
  ASSUME IInv, JInv, NEW c \in Calls, AppendCount(c) PROVE JInv'
<1> DEFINE total == Db(c).rows[call[c].table]
           r == [call[c] EXCEPT !.pc = "counted", !.total = total]
<1>1. call[c].pc = "written" /\ call[c].kind = "append" /\ Usable(c) /\ call[c].pc \in Holding
  BY PlacesHold DEF AppendCount, At
<1>2. /\ call[c] \in CallRecords /\ (Alone(c) => Knows(call[c], Db(c)))
      /\ Db(c) = db[call[c].ws] /\ call[c].ws \in Entries
  BY <1>1, HolderFacts
<1>3. CASE ~Exists(c) /\ Reject(c, call[c].ws)
  <2>1. ~Alone(c)
    BY <1>1, <1>2, <1>3 DEF Knows, Exists
  <2>2. call[c].table \in Tables
    BY <1>1 DEF IInv, Inv, PlaceInv
  <2>3. total = 0
    BY <1>2, <1>3, <2>2 DEF JInv, EmptyInv, Exists
  <2>4. ~(total > MaxRows)
    BY <2>3, WorkspaceAssumption
  <2> QED
    BY <1>1, <1>3, <2>1, <2>4, RejectKeepsRows
<1>4. CASE ~(~Exists(c) /\ Reject(c, call[c].ws))
  <2>1. Exists(c) /\ call' = [call EXCEPT ![c] = r] /\ UNCHANGED <<world, data, conflicts>>
    BY <1>2, <1>4 DEF AppendCount, CallRecords
  <2>2. /\ r.pc = "counted" /\ r.total = total /\ r.ws = call[c].ws /\ r.key = call[c].key
        /\ r.kind = "append" /\ r.table = call[c].table /\ r.first = call[c].first
    BY <1>1, <1>2 DEF CallRecords
  <2> HIDE DEF r
  <2>3. Placed(r) /\ r.pc \in Holding /\ r # Idle
    BY <2>2, PlacesHold, IdleParts DEF Placed
  <2>4. Alone(c) => Knows(r, Db(c))
    BY <1>1, <1>2, <2>1, <2>2 DEF Knows, Exists
  <2> QED
    BY <1>1, <2>1, <2>2, <2>3, <2>4, MoveKeepsRows
<1> QED
  BY <1>3, <1>4

LEMMA AppendOverCapKeepsRows ==
  ASSUME IInv, JInv, NEW c \in Calls, AppendOverCap(c) PROVE JInv'
<1> DEFINE w == call[c].ws
           t == call[c].table
<1>1. call[c].pc = "counted" /\ call[c].pc \in Holding /\ call[c].total > MaxRows
  BY PlacesHold DEF AppendOverCap, At, OverCap
<1>2. /\ call \in [Calls -> CallRecords] /\ db \in [Entries -> DbRecords]
      /\ w \in Entries /\ w # None /\ Db(c) = db[w]
      /\ (Alone(c) /\ Usable(c) => Knows(call[c], db[w]))
  BY <1>1, HolderFacts
<1>3. /\ call' = [call EXCEPT ![c] = Idle] /\ db' = [db EXCEPT ![w] = db[w]]
      /\ db' = db /\ UNCHANGED <<workspaces, entry, overlapped, troubled, stored, conflicts>>
      /\ refused' = refused \cup {<<w, t>>}
  BY <1>2 DEF AppendOverCap, Settle, world
<1>4. Works(c, w, db[w], Idle)
  <2>1. \A u \in Tables \ db[w].has : db[w].rows[u] = 0
    BY <1>2 DEF JInv, EmptyInv
  <2>2. ASSUME Alone(c), Usable(c) PROVE Tracked(db[w], {})
    <3>1. Tracked(db[w], {t}) /\ t \in db[w].has /\ db[w].rows[t] > MaxRows
      BY <1>1, <1>2, <2>2 DEF Knows
    <3> QED
      BY <3>1 DEF Tracked
  <2> QED
    BY <1>1, <1>2, <1>3, <2>1, <2>2 DEF Works
<1>5. WorkspaceKeepsRows'
  BY <1>3, RowsQuiet
<1>6. OverCapIsReported'
  <2> SUFFICES ASSUME NEW e \in Entries, NEW u \in Tables, entry[e].open, db[e].rows[u] > MaxRows,
                      <<e, u>> \notin refused'
               PROVE  \E b \in Calls : /\ call'[b].ws = e /\ call'[b].table = u
                                       /\ \/ call'[b].pc = "written"
                                          \/ call'[b].pc = "counted" /\ call'[b].total > MaxRows
    BY <1>3 DEF OverCapIsReported
  <2>1. PICK b \in Calls : /\ call[b].ws = e /\ call[b].table = u
                           /\ \/ call[b].pc = "written"
                              \/ call[b].pc = "counted" /\ call[b].total > MaxRows
    BY <1>3 DEF JInv, OverCapIsReported
  <2>2. b # c
    BY <1>3, <2>1
  <2> QED
    BY <1>2, <1>3, <2>1, <2>2
<1> QED
  BY <1>4, <1>5, <1>6, WorksKeeps DEF JInv

LEMMA AppendRecordKeepsRows ==
  ASSUME IInv, JInv, NEW c \in Calls, AppendRecord(c) PROVE JInv'
<1> DEFINE w == call[c].ws
           t == call[c].table
           more == db[w].meta \cup {t}
           d == [db[w] EXCEPT !.meta = more]
<1>1. /\ call[c].pc = "counted" /\ call[c].pc \in Holding /\ ~(call[c].total > MaxRows)
      /\ Usable(c)
  BY PlacesHold DEF AppendRecord, At, OverCap
<1>2. /\ call \in [Calls -> CallRecords] /\ db \in [Entries -> DbRecords]
      /\ w \in Entries /\ w # None /\ Db(c) = db[w] /\ db[w] \in DbRecords
      /\ (Alone(c) => Knows(call[c], db[w]))
  BY <1>1, HolderFacts
<1>3. /\ call' = [call EXCEPT ![c] = Idle]
      /\ UNCHANGED <<workspaces, entry, overlapped, troubled, stored, refused>>
      /\ conflicts' = IF Exists(c) THEN conflicts ELSE conflicts \cup {call[c].key}
  BY DEF AppendRecord, Settle, world
<1>4. db' = [db EXCEPT ![w] = d]
  BY <1>2 DEF AppendRecord, DbRecords
<1>5. d.meta = more /\ d.has = db[w].has /\ d.rows = db[w].rows
  BY <1>2 DEF DbRecords
<1> HIDE DEF d
<1>6. db'[w] = d /\ (\A f \in Entries \ {w} : db'[f] = db[f])
      /\ \A b \in Calls \ {c} : call'[b] = call[b]
  BY <1>2, <1>3, <1>4
<1>7. Works(c, w, d, Idle)
  <2>1. \A u \in Tables \ d.has : d.rows[u] = 0
    BY <1>2, <1>5 DEF JInv, EmptyInv
  <2>2. ASSUME Alone(c) PROVE Tracked(d, {}) /\ Exists(c)
    <3>1. Tracked(db[w], {t}) /\ t \in db[w].has
      BY <1>1, <1>2, <2>2 DEF Knows
    <3> QED
      BY <1>2, <1>5, <3>1 DEF Tracked, Exists
  <2> QED
    BY <1>1, <1>2, <1>3, <1>4, <1>6, <2>1, <2>2 DEF Works
<1>8. \A e \in Entries : db'[e].rows = db[e].rows
  BY <1>2, <1>5, <1>6
<1> QED
  BY <1>1, <1>3, <1>6, <1>7, <1>8, WorksKeeps, RowsQuiet, CapQuiet DEF JInv

-----------------------------------------------------------------------------
(* dropTable, listTables, clearAllTables and runQuery.                     *)

Without(d, t) == [d EXCEPT !.has = @ \ {t}, !.rows[t] = 0, !.cols[t] = {}]

Emptied(rows, t) == [rows EXCEPT ![t] = 0]

LEMMA DropKeepsRows ==
  ASSUME IInv, JInv, NEW c \in Calls, call[c].pc \in Holding,
         call[c].pc \notin {"written", "counted"},
         NEW e \in Entries, e = call[c].ws \/ e = call[c].first, e # None, entry[e].open,
         NEW t \in Tables, NEW r, Placed(r), r.pc \in Holding, r.key = call[c].key,
         r.ws = call[c].ws, r.first = call[c].first,
         db' = [db EXCEPT ![e] = Without(db[e], t)],
         stored' = [stored EXCEPT ![call[c].key] = Emptied(stored[call[c].key], t)],
         refused' = refused \ {<<e, t>>}, call' = [call EXCEPT ![c] = r],
         UNCHANGED <<world, tmp, conflicts>>,
         Alone(c) /\ Usable(c) => Knows(r, db'[call[c].ws])
  PROVE  JInv'
<1> DEFINE k == call[c].key
           d == Without(db[e], t)
           rows == Emptied(stored[k], t)
<1>1. /\ call \in [Calls -> CallRecords] /\ db \in [Entries -> DbRecords] /\ db[e] \in DbRecords
      /\ UNCHANGED <<workspaces, entry, overlapped, troubled, conflicts>>
  BY HolderFacts DEF world
<1>2. /\ d.meta = db[e].meta /\ d.has = db[e].has \ {t}
      /\ d.rows = Emptied(db[e].rows, t) /\ db[e].rows \in [Tables -> Nat]
  BY <1>1 DEF DbRecords, Without, Emptied
<1> HIDE DEF d
<1>3. d.rows[t] = 0 /\ \A u \in Tables \ {t} : d.rows[u] = db[e].rows[u]
  BY <1>2 DEF Emptied
<1>4. \A u \in Tables \ d.has : d.rows[u] = 0
  BY <1>1, <1>2, <1>3 DEF JInv, EmptyInv
<1>5. r # Idle
  BY IdleParts DEF Holding
<1>6. Works(c, e, d, r)
  BY <1>1, <1>4, <1>5 DEF Works, d
<1>7. stored[k] = db[e].rows => rows = d.rows
  BY <1>2
<1>8. stored' = [stored EXCEPT ![k] = rows]
  OBVIOUS
<1> HIDE DEF rows
<1>9. WorkspaceKeepsRows'
  BY ONLY IInv, JInv, c \in Calls, call[c].pc \in Holding, entry[e].open, <1>6, <1>7, <1>8,
     RowsChange
<1>10. OverCapIsReported'
  <2> SUFFICES ASSUME NEW f \in Entries, NEW u \in Tables, entry[f].open,
                      db'[f].rows[u] > MaxRows, <<f, u>> \notin refused'
               PROVE  \E b \in Calls : /\ call'[b].ws = f /\ call'[b].table = u
                                       /\ \/ call'[b].pc = "written"
                                          \/ call'[b].pc = "counted" /\ call'[b].total > MaxRows
    BY <1>1 DEF OverCapIsReported
  <2>1. db'[e] = d /\ \A x \in Entries \ {e} : db'[x] = db[x]
    BY <1>1 DEF d
  <2>2. ~(f = e /\ u = t)
    <3>1. ~(0 > MaxRows)
      BY WorkspaceAssumption
    <3> QED
      BY <1>3, <2>1, <3>1
  <2>3. db[f].rows[u] > MaxRows
    <3>1. CASE f = e
      <4>1. d.rows[u] = db[f].rows[u] /\ db'[f] = d
        BY <1>3, <2>1, <2>2, <3>1
      <4> QED
        BY <4>1
    <3>2. CASE f # e
      BY <2>1, <3>2
    <3> QED
      BY <3>1, <3>2
  <2>4. <<f, u>> \notin refused
    BY <2>2
  <2>5. PICK b \in Calls : /\ call[b].ws = f /\ call[b].table = u
                           /\ \/ call[b].pc = "written"
                              \/ call[b].pc = "counted" /\ call[b].total > MaxRows
    BY <2>3, <2>4 DEF JInv, OverCapIsReported
  <2>6. b # c
    BY <2>5
  <2> QED
    BY <1>1, <2>5, <2>6
<1> QED
  BY <1>6, <1>9, <1>10, WorksKeeps DEF JInv

(* What DROP TABLE t does on entry e, when the table is there.             *)
LEMMA DropParts ==
  ASSUME IInv, JInv, NEW c \in Calls, call[c].pc \in Holding, NEW e \in Entries, NEW t, NEW r,
         DropStatement(c, e, t, r), ~(t \notin db[e].has /\ Reject(c, e))
  PROVE  /\ t \in db[e].has /\ t \in Tables
         /\ db' = [db EXCEPT ![e] = Without(db[e], t)]
         /\ stored' = [stored EXCEPT ![call[c].key] = Emptied(stored[call[c].key], t)]
         /\ refused' = refused \ {<<e, t>>} /\ call' = [call EXCEPT ![c] = r]
         /\ UNCHANGED <<world, tmp, conflicts>>
<1>1. /\ t \in db[e].has
      /\ db' = [db EXCEPT ![e].has = @ \ {t}, ![e].rows[t] = 0, ![e].cols[t] = {}]
      /\ stored' = [stored EXCEPT ![call[c].key][t] = 0]
      /\ refused' = refused \ {<<e, t>>} /\ call' = [call EXCEPT ![c] = r]
      /\ UNCHANGED <<world, tmp, conflicts>>
  BY DEF DropStatement
<1>2. db \in [Entries -> DbRecords] /\ db[e] \in DbRecords
  BY HolderFacts
<1>3. t \in Tables
  BY <1>1, <1>2 DEF DbRecords
<1>4. db' = [db EXCEPT ![e] = Without(db[e], t)]
  BY <1>1, <1>2 DEF DbRecords, Without
<1>5. stored' = [stored EXCEPT ![call[c].key] = Emptied(stored[call[c].key], t)]
  BY <1>1 DEF Emptied
<1> QED
  BY <1>1, <1>3, <1>4, <1>5

LEMMA DropTableKeepsRows ==
  ASSUME IInv, JInv, NEW c \in Calls, DropTable(c) PROVE JInv'
<1> DEFINE w == call[c].ws
           t == call[c].table
           r == [call[c] EXCEPT !.pc = "dropped"]
           d == Without(db[w], t)
<1>1. call[c].pc = "looked" /\ call[c].kind = "drop" /\ Usable(c) /\ call[c].pc \in Holding
  BY PlacesHold DEF DropTable, At
<1>2. /\ call[c] \in CallRecords /\ db \in [Entries -> DbRecords] /\ db[w] \in DbRecords
      /\ w \in Entries /\ w # None /\ Db(c) = db[w]
      /\ (Alone(c) => Knows(call[c], db[w]))
  BY <1>1, HolderFacts
<1>3. CASE ~call[c].found
  BY <1>1, <1>3, SettleKeepsRows DEF DropTable
<1>4. CASE call[c].found /\ t \notin db[w].has /\ Reject(c, w)
  <2>1. ~Alone(c)
    BY <1>1, <1>2, <1>4 DEF Knows
  <2> QED
    BY <1>1, <1>4, <2>1, RejectKeepsRows
<1>5. CASE call[c].found /\ ~(t \notin db[w].has /\ Reject(c, w))
  <2>1. DropStatement(c, w, t, r)
    BY <1>5 DEF DropTable
  <2>2. /\ r.pc = "dropped" /\ r.kind = "drop" /\ r.key = call[c].key /\ r.ws = w
        /\ r.first = call[c].first /\ r.table = t
    BY <1>1, <1>2 DEF CallRecords
  <2> HIDE DEF r
  <2>3. /\ t \in db[w].has /\ t \in Tables /\ db' = [db EXCEPT ![w] = d]
        /\ stored' = [stored EXCEPT ![call[c].key] = Emptied(stored[call[c].key], t)]
        /\ refused' = refused \ {<<w, t>>} /\ call' = [call EXCEPT ![c] = r]
        /\ UNCHANGED <<world, tmp, conflicts>>
    BY <1>1, <1>2, <1>5, <2>1, DropParts
  <2>4. /\ d.meta = db[w].meta /\ d.has = db[w].has \ {t}
        /\ \A u \in Tables \ {t} : d.rows[u] = db[w].rows[u]
    BY <1>2, <2>3 DEF DbRecords, Without
  <2>5. db'[w] = d
    BY <1>2, <2>3
  <2>6. ASSUME Alone(c) PROVE Knows(r, d)
    <3>1. Tracked(db[w], {}) /\ db[w].has \subseteq Tables
      BY <1>1, <1>2, <2>6 DEF Knows, DbRecords
    <3>2. Tracked(d, {t}) /\ t \notin d.has
      BY <2>4, <3>1 DEF Tracked
    <3> QED
      BY <2>2, <3>2 DEF Knows
  <2>7. Placed(r) /\ r.pc \in Holding
    BY <2>2, PlacesHold DEF Placed
  <2>8. call[c].pc \notin {"written", "counted"} /\ entry[w].open
    BY <1>1 DEF Usable
  <2> QED
    BY <1>1, <1>2, <2>2, <2>3, <2>5, <2>6, <2>7, <2>8, DropKeepsRows
<1> QED
  BY <1>3, <1>4, <1>5

LEMMA ClearDropKeepsRows ==
  ASSUME IInv, JInv, NEW c \in Calls, ClearDrop(c) PROVE JInv'
<1> DEFINE w == call[c].ws
           f == call[c].first
<1>1. call[c].pc = "clearing" /\ call[c].kind = "clear" /\ call[c].pc \in Holding
      /\ entry[f].open
  BY PlacesHold DEF ClearDrop, At
<1>2. /\ call[c] \in CallRecords /\ db \in [Entries -> DbRecords]
      /\ w \in Entries /\ Db(c) = db[w] /\ Placed(call[c])
      /\ (f # None => f \in Entries)
      /\ (Alone(c) => AloneWith(c)) /\ (Alone(c) /\ Usable(c) => Knows(call[c], db[w]))
  BY <1>1, HolderFacts
<1>3. f # None /\ f \in Entries /\ (Alone(c) => f = w)
  BY <1>1, <1>2 DEF Placed, AloneWith
<1>4. PICK t \in call[c].todo : DropStatement(c, f, t, [call[c] EXCEPT !.todo = @ \ {t}])
  BY DEF ClearDrop
<1>5. Alone(c) => db[w].has = call[c].todo
  BY <1>1, <1>2, <1>3 DEF Knows, Usable
<1>6. CASE t \notin db[f].has /\ Reject(c, f)
  <2>1. ~Alone(c)
    BY <1>3, <1>4, <1>5, <1>6
  <2> QED
    BY <1>1, <1>6, <2>1, RejectKeepsRows
<1>7. CASE ~(t \notin db[f].has /\ Reject(c, f))
  <2> DEFINE left == call[c].todo \ {t}
             r == [call[c] EXCEPT !.todo = left]
             d == Without(db[f], t)
  <2>1. DropStatement(c, f, t, r)
    BY <1>2, <1>4 DEF CallRecords
  <2>2. /\ r.pc = "clearing" /\ r.kind = "clear" /\ r.key = call[c].key /\ r.ws = w
        /\ r.first = f /\ r.todo = left
    BY <1>1, <1>2 DEF CallRecords
  <2> HIDE DEF r
  <2>3. /\ t \in Tables /\ db' = [db EXCEPT ![f] = d]
        /\ stored' = [stored EXCEPT ![call[c].key] = Emptied(stored[call[c].key], t)]
        /\ refused' = refused \ {<<f, t>>} /\ call' = [call EXCEPT ![c] = r]
        /\ UNCHANGED <<world, tmp, conflicts>>
    BY <1>1, <1>3, <1>7, <2>1, DropParts
  <2>4. d.has = db[f].has \ {t}
    BY <1>2, <1>3 DEF DbRecords, Without
  <2>6. db'[f] = d
    BY <1>2, <1>3, <2>3
  <2>7. Alone(c) /\ Usable(c) => Knows(r, db'[w])
    BY <1>3, <1>5, <2>2, <2>4, <2>6 DEF Knows
  <2>8. Placed(r) /\ r.pc \in Holding /\ call[c].pc \notin {"written", "counted"}
    BY <1>1, <1>3, <2>2, PlacesHold DEF Placed
  <2> QED
    BY <1>1, <1>2, <1>3, <2>2, <2>3, <2>7, <2>8, DropKeepsRows
<1> QED
  BY <1>6, <1>7

LEMMA ForgetKeepsRows ==
  ASSUME IInv, JInv, NEW c \in Calls, DropForget(c) \/ ClearForget(c) PROVE JInv'
<1> DEFINE w == call[c].ws
           e == IF call[c].pc = "dropped" THEN w ELSE call[c].first
           gone == IF call[c].pc = "dropped" THEN {call[c].table} ELSE Tables
           less == db[e].meta \ gone
           d == [db[e] EXCEPT !.meta = less]
<1>1. /\ call[c].pc \in {"dropped", "clearing"} /\ call[c].pc \in Holding
      /\ call[c].pc = "clearing" => call[c].todo = {}
      /\ UNCHANGED <<world, stored, refused, conflicts>> /\ Settle(c) /\ Forget(e, gone)
  BY PlacesHold DEF DropForget, ClearForget, At
<1>2. /\ call \in [Calls -> CallRecords] /\ db \in [Entries -> DbRecords]
      /\ w \in Entries /\ w # None /\ Db(c) = db[w] /\ Placed(call[c])
      /\ (call[c].first # None => call[c].first \in Entries)
      /\ (Alone(c) => AloneWith(c)) /\ (Alone(c) /\ Usable(c) => Knows(call[c], db[w]))
  BY <1>1, HolderFacts
<1>3. e \in Entries /\ e # None /\ (e = w \/ e = call[c].first)
  BY <1>1, <1>2 DEF Placed
<1>4. db[e] \in DbRecords
  BY <1>2, <1>3
<1> HIDE DEF e
<1>5. db' = [db EXCEPT ![e] = d]
  BY <1>1, <1>2, <1>3, <1>4 DEF Forget, DbRecords
<1>6. d.meta = less /\ d.has = db[e].has /\ d.rows = db[e].rows
      /\ db[e].has \subseteq Tables /\ db[e].meta \subseteq Tables
  BY <1>4 DEF DbRecords
<1> HIDE DEF d
<1>7. /\ db'[e] = d /\ (\A f \in Entries \ {e} : db'[f] = db[f])
      /\ call' = [call EXCEPT ![c] = Idle] /\ \A b \in Calls \ {c} : call'[b] = call[b]
      /\ UNCHANGED <<workspaces, entry, overlapped, troubled, stored, refused, conflicts>>
  BY <1>1, <1>2, <1>3, <1>5 DEF Settle, world
<1>8. ASSUME Alone(c), Usable(c) PROVE Tracked(db'[w], {})
  <2>1. CASE call[c].pc = "dropped"
    <3>1. /\ e = w /\ gone = {call[c].table} /\ Tracked(db[w], gone)
          /\ call[c].table \notin db[w].has
      BY <1>2, <1>8, <2>1 DEF Knows, e
    <3> QED
      BY <1>6, <1>7, <3>1 DEF Tracked
  <2>2. CASE call[c].pc = "clearing" /\ e = w
    <3>1. db[w].has = {} /\ gone = Tables
      BY <1>1, <1>2, <1>8, <2>2 DEF Knows, e
    <3> QED
      BY <1>6, <1>7, <2>2, <3>1 DEF Tracked
  <2>3. CASE call[c].pc = "clearing" /\ e # w
    <3>1. Tracked(db[w], {})
      BY <1>2, <1>8, <2>3 DEF Knows, e
    <3> QED
      BY <1>2, <1>7, <2>3, <3>1
  <2> QED
    BY <1>1, <2>1, <2>2, <2>3
<1>9. \A u \in Tables \ d.has : d.rows[u] = 0
  BY <1>3, <1>6 DEF JInv, EmptyInv
<1>10. Works(c, e, d, Idle)
  BY <1>1, <1>3, <1>5, <1>7, <1>8, <1>9 DEF Works
<1>11. \A f \in Entries : db'[f].rows = db[f].rows
  BY <1>6, <1>7
<1>12. call[c].pc \notin {"written", "counted"}
  BY <1>1
<1> QED
  BY <1>7, <1>10, <1>11, <1>12, WorksKeeps, RowsQuiet, CapQuiet DEF JInv

LEMMA ListNamesKeepsRows ==
  ASSUME IInv, JInv, NEW c \in Calls, ListNames(c) PROVE JInv'
<1> DEFINE all == Db(c).has
           r == [call[c] EXCEPT !.pc = "listed", !.todo = all, !.names = all]
<1>1. /\ call[c].pc = "ensured" /\ call[c].pc \in Holding
      /\ call[c].kind = "clear" => call[c].first # None
      /\ UNCHANGED <<world, data, conflicts>>
  BY PlacesHold DEF ListNames, At
<1>2. /\ call[c] \in CallRecords
      /\ (Alone(c) /\ Usable(c) => Knows(call[c], Db(c)))
  BY <1>1, HolderFacts
<1>3. call' = [call EXCEPT ![c] = r]
  BY <1>2 DEF ListNames, CallRecords
<1>4. /\ r.pc = "listed" /\ r.ws = call[c].ws /\ r.key = call[c].key
      /\ r.kind = call[c].kind /\ r.first = call[c].first /\ r.todo = all /\ r.names = all
  BY <1>2 DEF CallRecords
<1> HIDE DEF r
<1>5. Placed(r) /\ r.pc \in Holding /\ r # Idle
  BY <1>1, <1>4, PlacesHold, IdleParts DEF Placed
<1>6. Alone(c) /\ Usable(c) => Knows(r, Db(c))
  BY <1>1, <1>2, <1>4 DEF Knows
<1> QED
  BY <1>1, <1>3, <1>4, <1>5, <1>6, MoveKeepsRows

LEMMA ListOneKeepsRows ==
  ASSUME IInv, JInv, NEW c \in Calls, ListOne(c) PROVE JInv'
<1>1. call[c].pc = "listed" /\ call[c].pc \in Holding /\ Usable(c)
  BY PlacesHold DEF ListOne, At
<1>2. /\ call[c] \in CallRecords /\ Placed(call[c])
      /\ (Alone(c) => Knows(call[c], Db(c)))
  BY <1>1, HolderFacts
<1>3. PICK t \in call[c].todo :
        \/ /\ t \in Db(c).has
           /\ call' = [call EXCEPT ![c].todo = @ \ {t}]
           /\ UNCHANGED <<world, data, tmp, conflicts>>
        \/ t \notin Db(c).has /\ Reject(c, call[c].ws)
  BY DEF ListOne
<1>4. CASE t \notin Db(c).has /\ Reject(c, call[c].ws)
  <2>1. ~Alone(c)
    BY <1>1, <1>2, <1>3, <1>4 DEF Knows
  <2> QED
    BY <1>1, <1>4, <2>1, RejectKeepsRows
<1>5. CASE /\ call' = [call EXCEPT ![c].todo = @ \ {t}]
           /\ UNCHANGED <<world, data, tmp, conflicts>>
  <2> DEFINE left == call[c].todo \ {t}
             r == [call[c] EXCEPT !.todo = left]
  <2>1. call' = [call EXCEPT ![c] = r]
    BY <1>2, <1>5 DEF CallRecords
  <2>2. /\ r.pc = "listed" /\ r.ws = call[c].ws /\ r.key = call[c].key
        /\ r.kind = call[c].kind /\ r.first = call[c].first /\ r.todo = left
        /\ r.names = call[c].names
    BY <1>1, <1>2 DEF CallRecords
  <2> HIDE DEF r
  <2>3. Placed(r) /\ r.pc \in Holding /\ r # Idle
    BY <1>1, <1>2, <2>2, PlacesHold, IdleParts DEF Placed
  <2>4. Alone(c) => Knows(r, Db(c))
    BY <1>1, <1>2, <2>2 DEF Knows
  <2> QED
    BY <1>1, <1>5, <2>1, <2>2, <2>3, <2>4, MoveKeepsRows
<1> QED
  BY <1>3, <1>4, <1>5

LEMMA ListReturnKeepsRows ==
  ASSUME IInv, JInv, NEW c \in Calls, ListReturn(c) PROVE JInv'
<1>1. /\ call[c].pc = "listed" /\ call[c].pc \in Holding
      /\ UNCHANGED <<world, data, conflicts>>
  BY PlacesHold DEF ListReturn, At
<1>2. /\ call[c] \in CallRecords /\ Placed(call[c])
      /\ (Alone(c) /\ Usable(c) => Knows(call[c], Db(c)))
  BY <1>1, HolderFacts
<1>3. CASE Settle(c)
  BY <1>1, <1>3, SettleKeepsRows
<1>4. CASE /\ call[c].kind = "clear"
           /\ call' = [call EXCEPT ![c].pc = "clearing", ![c].todo = call[c].names]
  <2> DEFINE all == call[c].names
             r == [call[c] EXCEPT !.pc = "clearing", !.todo = all]
  <2>1. call' = [call EXCEPT ![c] = r]
    BY <1>2, <1>4 DEF CallRecords
  <2>2. /\ r.pc = "clearing" /\ r.ws = call[c].ws /\ r.key = call[c].key
        /\ r.kind = "clear" /\ r.first = call[c].first /\ r.todo = all
    BY <1>2, <1>4 DEF CallRecords
  <2> HIDE DEF r
  <2>3. Placed(r) /\ r.pc \in Holding /\ r # Idle
    BY <1>1, <1>2, <1>4, <2>2, PlacesHold, IdleParts DEF Placed
  <2>4. Alone(c) /\ Usable(c) => Knows(r, Db(c))
    BY <1>1, <1>2, <2>2 DEF Knows
  <2> QED
    BY <1>1, <2>1, <2>2, <2>3, <2>4, MoveKeepsRows
<1> QED
  BY <1>3, <1>4 DEF ListReturn

LEMMA QueryKeepsRows ==
  ASSUME IInv, JInv, NEW c \in Calls, Query(c) PROVE JInv'
  BY PlacesHold, SettleKeepsRows DEF Query, At

LEMMA StatementOnClosedKeepsRows ==
  ASSUME IInv, JInv, NEW c \in Calls, StatementOnClosed(c) PROVE JInv'
<1>1. CASE ~Usable(c) /\ Reject(c, call[c].ws)
  BY <1>1, RejectKeepsRows DEF StatementOnClosed, Usable
<1>2. CASE /\ call[c].pc = "clearing" /\ ~entry[call[c].first].open
           /\ Reject(c, call[c].first)
  BY <1>2, RejectKeepsRows DEF StatementOnClosed
<1> QED
  BY <1>1, <1>2 DEF StatementOnClosed

LEMMA StepJInv == IInv /\ JInv /\ [Next]_vars => JInv'
<1> SUFFICES ASSUME IInv, JInv, [Next]_vars PROVE JInv'
  OBVIOUS
<1>1. CASE UNCHANGED vars \/ Tick
  BY <1>1, StutterKeepsRows DEF vars, world, data, Tick
<1>2. ASSUME NEW c \in Calls,
             \/ Connect(c) \/ Configure(c) \/ MakingFails(c) \/ Publish(c)
             \/ AppendLook(c) \/ AppendNothing(c) \/ AppendFull(c) \/ AppendCreate(c)
             \/ AppendColumns(c) \/ AppendAlter(c) \/ AppendInsert(c) \/ AppendCount(c)
             \/ AppendOverCap(c) \/ AppendRecord(c)
      PROVE  JInv'
  BY <1>2, MakingStepsKeepRows, PublishKeepsRows, LookKeepsRows,
     AppendNothingKeepsRows, AppendFullKeepsRows, AppendCreateKeepsRows,
     AppendColumnsKeepsRows, AppendAlterKeepsRows, AppendInsertKeepsRows,
     AppendCountKeepsRows, AppendOverCapKeepsRows, AppendRecordKeepsRows
<1>3. ASSUME NEW c \in Calls,
             \/ DropLook(c) \/ DropTable(c) \/ DropForget(c) \/ ClearEnsureAgain(c)
             \/ ListNames(c) \/ ListOne(c) \/ ListReturn(c) \/ ClearDrop(c)
             \/ ClearForget(c) \/ Query(c) \/ StatementOnClosed(c)
      PROVE  JInv'
  BY <1>3, LookKeepsRows, DropTableKeepsRows, ForgetKeepsRows, ClearEnsureAgainKeepsRows,
     ListNamesKeepsRows, ListOneKeepsRows, ListReturnKeepsRows, ClearDropKeepsRows,
     QueryKeepsRows, StatementOnClosedKeepsRows
<1> QED
  BY <1>1, <1>2, <1>3, StartKeepsRows DEF Next

LEMMA RowsInvariant == Spec => []JInv
<1>1. IInv /\ JInv /\ [Next]_vars => JInv'
  BY StepJInv
<1> QED
  BY Invariant, InitJInv, <1>1, PTL DEF Spec

(* However calls, evictions and drops interleave, a workspace that was     *)
(* made once holds the rows put in since the last drop or eviction.        *)
THEOREM RowsKept == Spec => []WorkspaceKeepsRows
<1>1. JInv => WorkspaceKeepsRows
  BY DEF JInv
<1> QED
  BY RowsInvariant, <1>1, PTL

(* A table over MAX_ROWS_PER_TABLE has had an append refused for it, or    *)
(* has one between its statement and its count: appendRows tests the cap   *)
(* too late, but never leaves it untested.                                 *)
THEOREM OverCapCorrect == Spec => []OverCapIsReported
<1>1. JInv => OverCapIsReported
  BY DEF JInv
<1> QED
  BY RowsInvariant, <1>1, PTL

(* Between calls that come one at a time, tableMeta lists the tables but   *)
(* for those over the row cap.                                             *)
THEOREM MetaCorrect == Spec => []MetaTracksTables
<1>1. JInv => MetaTracksTables
  BY DEF JInv
<1> QED
  BY RowsInvariant, <1>1, PTL

(* No statement of a call alone on its key finds tables other than those   *)
(* the call has looked at.                                                 *)
THEOREM ConflictsExplained == Spec => []ConflictsNeedOverlap
<1>1. JInv => ConflictsNeedOverlap
  BY DEF JInv
<1> QED
  BY RowsInvariant, <1>1, PTL
=============================================================================
