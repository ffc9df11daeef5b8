------------------------ MODULE ScalarFunctionsProofs ------------------------
(***************************************************************************)
(* Theorems about ScalarFunctions, for any number of functions,            *)
(* connections, queries, objects and tasks.                                *)
(***************************************************************************)
EXTENDS ScalarFunctions, TLAPS

(* The numbers libduckdb keeps lead to the objects they were given for.    *)
BindDataKept(q) ==
  query[q].bindData # 0 =>
    /\ query[q].bindData < nextObjectId
    /\ objectRegistry[query[q].bindData] =
         [kind |-> "bind", of |-> q, plan |-> query[q].plan]

ExtraInfoKept(f) ==
  extraInfo[f] # 0 =>
    /\ extraInfo[f] < nextObjectId
    /\ objectRegistry[extraInfo[f]] = [kind |-> "extra", of |-> f]

(* What the place of a query says of its record.  The conjunct on "ready"  *)
(* is why a result that was waited for is not overtaken by an error: it    *)
(* has no task left that could throw.                                      *)
RecordInv(r) ==
  /\ r.queued + r.held <= MaxTasks
  /\ r.at \in {"prepared"} \cup Running /\ ~r.failing => r.conn \in Conns /\ r.fun \in Funs
  /\ r.at \notin Running => r.held = 0 /\ ~r.failing
  /\ r.failing => r.queued = 0 /\ r.held = 0
  /\ r.threw => r.failing \/ r.at \in {"cut", "failed"}
  /\ r.at = "ready" /\ ~r.streaming => r.queued = 0 /\ r.held = 0 /\ ~r.threw
  /\ r.at = "streaming" => r.streaming

(* A worker holds a task only while SET threads=1 is not in force.         *)
OwnInv(q) ==
  /\ RecordInv(query[q])
  /\ BindDataKept(q)
  /\ query[q].at # "new" => registered # {}
  /\ query[q].held > 0 => unpinned

IInv ==
  /\ TypeOK
  /\ \A q \in Queries : OwnInv(q)
  /\ \A f \in Funs : ExtraInfoKept(f)
  /\ threads = "many" /\ registered # {} => unpinned
  /\ CallbacksOnTheCallersThread

LEMMA EndedTyped ==
  ASSUME NEW place \in Places, NEW threw \in BOOLEAN
  PROVE  /\ NewQuery \in QueryRecords
         /\ EndedAs(place, threw) \in QueryRecords
<1>1. 0 \in 0..MaxTasks /\ 0 \in Ids
  BY BoundsAssumption DEF Ids
<1>2. NewQuery \in QueryRecords
  BY <1>1 DEF NewQuery, QueryRecords, Places
<1> QED
  BY <1>2 DEF EndedAs, QueryRecords

LEMMA EndedFields ==
  ASSUME NEW place \in Places, NEW threw \in BOOLEAN
  PROVE  /\ EndedAs(place, threw).at = place
         /\ EndedAs(place, threw).threw = threw
         /\ EndedAs(place, threw).bindData = 0
         /\ EndedAs(place, threw).queued = 0
         /\ EndedAs(place, threw).held = 0
         /\ EndedAs(place, threw).failing = FALSE
         /\ EndedAs(place, threw).streaming = FALSE
  BY DEF EndedAs, NewQuery

LEMMA InitIInv == Init => IInv
<1> SUFFICES ASSUME Init PROVE IInv
  OBVIOUS
<1>1. NewQuery \in QueryRecords
  BY EndedTyped DEF Places
<1>2. TypeOK
  <2>1. 0 \in Ids /\ 1 \in 1 .. MaxObjects + 1
    BY BoundsAssumption DEF Ids
  <2> QED
    BY <1>1, <2>1 DEF Init, TypeOK
<1>3. ASSUME NEW q \in Queries PROVE OwnInv(q)
  BY <1>3, BoundsAssumption
     DEF Init, OwnInv, RecordInv, BindDataKept, NewQuery, Running
<1> QED
  BY <1>2, <1>3 DEF Init, IInv, ExtraInfoKept, CallbacksOnTheCallersThread

-----------------------------------------------------------------------------
(* Storing an object keeps the objects stored before.                      *)
RegistryTypes ==
  /\ nextObjectId \in 1 .. MaxObjects + 1
  /\ objectRegistry \in [1..MaxObjects -> Objects \cup {None}]

LEMMA StoreKeeps ==
  ASSUME RegistryTypes, NEW object \in Objects, Store(object)
  PROVE  /\ RegistryTypes'
         /\ nextObjectId \in 1..MaxObjects
         /\ nextObjectId' = nextObjectId + 1
         /\ objectRegistry'[nextObjectId] = object
         /\ \A i \in 1 .. nextObjectId - 1 : objectRegistry'[i] = objectRegistry[i]
<1> DEFINE Obj == Objects \cup {None}
<1>1. object \in Obj
  OBVIOUS
<1>2. objectRegistry \in [1..MaxObjects -> Obj]
  BY DEF RegistryTypes
<1> HIDE DEF Obj
<1>3. nextObjectId \in 1..MaxObjects /\ nextObjectId' = nextObjectId + 1
  BY BoundsAssumption DEF RegistryTypes, Store, FreshId
<1>4. objectRegistry' \in [1..MaxObjects -> Obj]
  BY <1>1, <1>2 DEF Store
<1>5. RegistryTypes'
  BY <1>3, <1>4, BoundsAssumption DEF RegistryTypes, Obj
<1> QED
  BY <1>2, <1>3, <1>5, BoundsAssumption DEF Store

(* What a step owes to the objects stored before it.                       *)
ObjectsKept ==
  /\ RegistryTypes'
  /\ nextObjectId <= nextObjectId'
  /\ \A i \in 1 .. nextObjectId - 1 : objectRegistry'[i] = objectRegistry[i]

LEMMA NothingStored ==
  ASSUME IInv, UNCHANGED <<nextObjectId, objectRegistry>> PROVE ObjectsKept
<1>1. nextObjectId \in 1 .. MaxObjects + 1
  BY DEF IInv, TypeOK
<1>2. nextObjectId <= nextObjectId'
  BY <1>1, BoundsAssumption
<1>3. RegistryTypes'
  BY DEF IInv, TypeOK, RegistryTypes
<1> QED
  BY <1>2, <1>3 DEF ObjectsKept

LEMMA ObjectStored ==
  ASSUME IInv, NEW object \in Objects, Store(object) PROVE ObjectsKept
<1>1. RegistryTypes
  BY DEF IInv, TypeOK, RegistryTypes
<1> QED
  BY <1>1, StoreKeeps, BoundsAssumption DEF ObjectsKept

LEMMA ExtraInfoStays ==
  ASSUME IInv, NEW f \in Funs, ObjectsKept, extraInfo'[f] = extraInfo[f]
  PROVE  ExtraInfoKept(f)'
<1>1. extraInfo[f] \in Ids /\ ExtraInfoKept(f)
  BY DEF IInv, TypeOK
<1>2. nextObjectId \in 1 .. MaxObjects + 1 /\ nextObjectId' \in 1 .. MaxObjects + 1
  BY DEF IInv, TypeOK, ObjectsKept, RegistryTypes
<1> QED
  BY <1>1, <1>2, BoundsAssumption DEF ExtraInfoKept, ObjectsKept, Ids

LEMMA BindDataStays ==
  ASSUME IInv, NEW q \in Queries, ObjectsKept,
         query'[q].bindData = query[q].bindData, query'[q].plan = query[q].plan
  PROVE  BindDataKept(q)'
<1>1. query[q].bindData \in Ids /\ BindDataKept(q)
  BY DEF IInv, TypeOK, QueryRecords, OwnInv
<1>2. nextObjectId \in 1 .. MaxObjects + 1 /\ nextObjectId' \in 1 .. MaxObjects + 1
  BY DEF IInv, TypeOK, ObjectsKept, RegistryTypes
<1> QED
  BY <1>1, <1>2, BoundsAssumption DEF BindDataKept, ObjectsKept, Ids

-----------------------------------------------------------------------------
(* What a step on one query does to the others: nothing, or it closes      *)
(* them.                                                                   *)
Kept(p) == query'[p] = query[p] \/ (Active(p) /\ query'[p] = Failing(p))

LEMMA OwnFacts ==
  ASSUME IInv, NEW q \in Queries
  PROVE  /\ query \in [Queries -> QueryRecords]
         /\ query[q] \in QueryRecords
         /\ OwnInv(q)
  BY DEF IInv, TypeOK

LEMMA FailingFields ==
  ASSUME IInv, NEW q \in Queries
  PROVE  /\ Failing(q) \in QueryRecords
         /\ Failing(q).at = query[q].at
         /\ Failing(q).threw = query[q].threw
         /\ Failing(q).streaming = query[q].streaming
         /\ Failing(q).bindData = 0
         /\ Failing(q).queued = 0
         /\ Failing(q).held = 0
         /\ Failing(q).failing = TRUE
<1>1. query[q].at \in Places /\ query[q].threw \in BOOLEAN /\ query[q].streaming \in BOOLEAN
  BY OwnFacts DEF QueryRecords
<1> DEFINE e == EndedAs(query[q].at, query[q].threw)
<1>2. e \in QueryRecords
  BY <1>1, EndedTyped
<1>3. /\ e.at = query[q].at /\ e.threw = query[q].threw
      /\ e.bindData = 0 /\ e.queued = 0 /\ e.held = 0
  BY <1>1, EndedFields
<1>4. Failing(q) = [e EXCEPT !.streaming = query[q].streaming, !.failing = TRUE]
  BY DEF Failing
<1> HIDE DEF e
<1> QED
  BY <1>1, <1>2, <1>3, <1>4 DEF QueryRecords

LEMMA ZeroNotPositive == ~(0 > 0)
  OBVIOUS

LEMMA FailingInv ==
  ASSUME IInv, NEW q \in Queries, Active(q) PROVE RecordInv(Failing(q))
<1>1. query[q].at \in Running /\ RecordInv(query[q])
  BY OwnFacts DEF Active, OwnInv
<1> DEFINE r == Failing(q)
<1>2. /\ r.at = query[q].at /\ r.threw = query[q].threw
      /\ r.streaming = query[q].streaming
      /\ r.queued = 0 /\ r.held = 0 /\ r.failing = TRUE
  BY FailingFields
<1>3. ~query[q].failing
  BY DEF Active
<1>4. 0 + 0 <= MaxTasks
  BY BoundsAssumption
<1> HIDE DEF r
<1>5. RecordInv(r)
  BY <1>1, <1>2, <1>3, <1>4 DEF RecordInv, Running
<1> QED
  BY <1>5 DEF r

LEMMA KeptIsGood ==
  ASSUME IInv, NEW p \in Queries, Kept(p), ObjectsKept, registered \subseteq registered',
         query[p].held = 0 \/ unpinned' = unpinned
  PROVE  OwnInv(p)'
<1>1. query[p] \in QueryRecords /\ OwnInv(p)
  BY OwnFacts
<1>2. CASE query'[p] = query[p]
  <2>1. BindDataKept(p)'
    BY <1>2, BindDataStays
  <2>2. query[p].held > 0 => unpinned'
    BY <1>1, BoundsAssumption DEF OwnInv, QueryRecords
  <2> QED
    BY <1>1, <1>2, <2>1, <2>2 DEF OwnInv, RecordInv
<1>3. CASE Active(p) /\ query'[p] = Failing(p)
  <2>1. RecordInv(query'[p])
    BY <1>3, FailingInv
  <2>2. query[p].at # "new"
    BY <1>3 DEF Active, Running
  <2>4. query'[p].bindData = 0 /\ query'[p].held = 0 /\ query'[p].at = query[p].at
    BY <1>3, FailingFields
  <2>3. BindDataKept(p)' /\ ~(query'[p].held > 0)
    BY <2>4, ZeroNotPositive DEF BindDataKept
  <2> QED
    BY <1>1, <2>1, <2>2, <2>3 DEF OwnInv, RecordInv
<1> QED
  BY <1>2, <1>3 DEF Kept

LEMMA ClosedKeeps ==
  ASSUME IInv, NEW c
  PROVE  /\ Closed(c) \in [Queries -> QueryRecords]
         /\ \A p \in Queries : Closed(c)[p] = query[p] \/ (Active(p) /\ Closed(c)[p] = Failing(p))
  BY OwnFacts, FailingFields DEF Closed

(* A step that gives q the record r, perhaps closing others.               *)
Gives(q, r) ==
  \/ query' = [query EXCEPT ![q] = r]
  \/ \E c \in Conns : query' = [Closed(c) EXCEPT ![q] = r]

LEMMA GivesFacts ==
  ASSUME IInv, NEW q \in Queries, NEW r \in QueryRecords, Gives(q, r)
  PROVE  /\ query' \in [Queries -> QueryRecords]
         /\ query'[q] = r
         /\ \A p \in Queries \ {q} : Kept(p)
<1>1. query \in [Queries -> QueryRecords]
  BY OwnFacts
<1>2. CASE query' = [query EXCEPT ![q] = r]
  BY <1>1, <1>2 DEF Kept
<1>3. CASE \E c \in Conns : query' = [Closed(c) EXCEPT ![q] = r]
  <2>1. PICK c \in Conns : query' = [Closed(c) EXCEPT ![q] = r]
    BY <1>3
  <2> QED
    BY <2>1, ClosedKeeps DEF Kept
<1> QED
  BY <1>2, <1>3 DEF Gives

LEMMA QueryStep ==
  ASSUME IInv, NEW q \in Queries, NEW r \in QueryRecords, Gives(q, r),
         UNCHANGED <<threads, unpinned, registered, extraInfo>>,
         ObjectsKept, OwnInv(q)', strayed' = FALSE
  PROVE  IInv'
<1>1. query' \in [Queries -> QueryRecords] /\ \A p \in Queries \ {q} : Kept(p)
  BY GivesFacts
<1>2. TypeOK'
  BY <1>1 DEF IInv, TypeOK, ObjectsKept, RegistryTypes
<1>3. ASSUME NEW p \in Queries PROVE OwnInv(p)'
  <2>1. CASE p = q
    BY <2>1
  <2>2. CASE p # q
    BY <1>1, <2>2, KeptIsGood
  <2> QED
    BY <2>1, <2>2
<1>4. ASSUME NEW f \in Funs PROVE ExtraInfoKept(f)'
  BY ExtraInfoStays
<1> QED
  BY <1>2, <1>3, <1>4 DEF IInv, CallbacksOnTheCallersThread

(* A step that plans nothing: q keeps its plan or has ended.               *)
LEMMA RecordStep ==
  ASSUME IInv, NEW q \in Queries, NEW r \in QueryRecords, Gives(q, r), RecordInv(r),
         \/ r.bindData = 0
         \/ r.bindData = query[q].bindData /\ r.plan = query[q].plan,
         registered # {}, r.held > 0 => unpinned,
         UNCHANGED <<threads, unpinned, registered, extraInfo, nextObjectId, objectRegistry>>,
         strayed' = FALSE
  PROVE  IInv'
<1>1. query'[q] = r /\ ObjectsKept
  BY GivesFacts, NothingStored
<1>2. BindDataKept(q)'
  <2>1. CASE r.bindData = 0
    BY <1>1, <2>1 DEF BindDataKept
  <2>2. CASE r.bindData = query[q].bindData /\ r.plan = query[q].plan
    BY <1>1, <2>2, BindDataStays
  <2> QED
    BY <2>1, <2>2
<1>3. OwnInv(q)'
  BY <1>1, <1>2 DEF OwnInv, RecordInv
<1> QED
  BY <1>1, <1>3, QueryStep

LEMMA EndStep ==
  ASSUME IInv, NEW q \in Queries, registered # {},
         NEW place \in {"done", "cut", "failed"}, NEW threw \in BOOLEAN,
         threw => place # "done", Gives(q, EndedAs(place, threw)),
         UNCHANGED <<threads, unpinned, registered, extraInfo, nextObjectId, objectRegistry>>,
         strayed' = FALSE
  PROVE  IInv'
<1> DEFINE r == EndedAs(place, threw)
<1>1. r \in QueryRecords
  BY EndedTyped DEF Places
<1>2. /\ r.at = place /\ r.threw = threw /\ r.bindData = 0 /\ r.queued = 0
      /\ r.held = 0 /\ r.failing = FALSE
  <2>1. place \in Places
    BY DEF Places
  <2> QED
    BY <2>1, EndedFields
<1>4. 0 + 0 <= MaxTasks
  BY BoundsAssumption
<1> HIDE DEF r
<1>3. RecordInv(r) /\ ~(r.held > 0)
  BY <1>2, <1>4, ZeroNotPositive DEF RecordInv, Running
<1> QED
  BY <1>1, <1>2, <1>3, RecordStep DEF r

-----------------------------------------------------------------------------
(* A main callback runs: it returns and q gets the record good, or it      *)
(* throws and q gets bad.                                                  *)
LEMMA WorkStep ==
  ASSUME IInv, NEW q \in Queries, NEW thread, NEW outcome \in Outcomes,
         NEW good \in QueryRecords, NEW bad \in QueryRecords,
         Work(q, thread, outcome, good, bad),
         RecordInv(good), good.held > 0 => unpinned,
         \/ good.bindData = 0
         \/ good.bindData = query[q].bindData /\ good.plan = query[q].plan,
         RecordInv([bad EXCEPT !.threw = TRUE]), bad.held = 0, bad.bindData = 0,
         registered # {}, thread = "worker" => unpinned,
         UNCHANGED <<threads, unpinned, registered, extraInfo, nextObjectId, objectRegistry>>
  PROVE  IInv'
<1>1. strayed' = FALSE
  BY DEF Work, IInv, CallbacksOnTheCallersThread
<1>2. CASE outcome = "throws"
  <2> DEFINE r == [bad EXCEPT !.threw = TRUE]
  <2>1. r \in QueryRecords /\ r.held = 0 /\ r.bindData = 0
    BY DEF QueryRecords
  <2>2. Gives(q, r)
    BY <1>2 DEF Work, ErrorSet, Gives
  <2> HIDE DEF r
  <2>3. RecordInv(r)
    BY DEF r
  <2> QED
    BY <1>1, <2>1, <2>2, <2>3, ZeroNotPositive, RecordStep
<1>3. CASE outcome # "throws"
  <2>1. [good EXCEPT !.threw = @ \/ FALSE] = good
    BY DEF QueryRecords
  <2>2. Gives(q, good)
    BY <1>3, <2>1 DEF Work, ErrorSet, Gives
  <2> QED
    BY <1>1, <2>2, RecordStep
<1> QED
  BY <1>2, <1>3

(* A query that has a task is not one whose result was waited for.         *)
LEMMA WithoutFacts ==
  ASSUME IInv, NEW q \in Queries, Active(q), NEW thread \in {"caller", "worker"},
         CanRun(q, thread)
  PROVE  /\ Without(q, thread) \in QueryRecords
         /\ RecordInv(Without(q, thread))
         /\ Without(q, thread).at = query[q].at
         /\ Without(q, thread).conn = query[q].conn
         /\ Without(q, thread).fun = query[q].fun
         /\ Without(q, thread).streaming = query[q].streaming
         /\ Without(q, thread).bindData = query[q].bindData
         /\ Without(q, thread).plan = query[q].plan
         /\ Without(q, thread).threw = query[q].threw
         /\ Without(q, thread).failing = FALSE
         /\ Without(q, thread).held > 0 => unpinned
         /\ Without(q, thread).queued + Without(q, thread).held <= MaxTasks
         /\ query[q].at = "ready" => query[q].streaming
<1> DEFINE rest == [query[q] EXCEPT !.buffered = query[q].streaming]
           r == Without(q, thread)
           n == IF thread = "caller" THEN query[q].queued - 1 ELSE query[q].queued
           h == IF thread = "caller" THEN query[q].held ELSE query[q].held - 1
<1>1. query[q] \in QueryRecords /\ OwnInv(q) /\ query[q].at \in Running /\ ~query[q].failing
  BY OwnFacts DEF Active
<1>2. /\ rest \in QueryRecords
      /\ rest.at = query[q].at /\ rest.conn = query[q].conn /\ rest.fun = query[q].fun
      /\ rest.streaming = query[q].streaming /\ rest.bindData = query[q].bindData
      /\ rest.plan = query[q].plan /\ rest.threw = query[q].threw
      /\ rest.failing = query[q].failing
      /\ rest.queued = query[q].queued /\ rest.held = query[q].held
  BY <1>1 DEF QueryRecords
<1>3. /\ query[q].queued \in 0..MaxTasks /\ query[q].held \in 0..MaxTasks
      /\ query[q].queued + query[q].held <= MaxTasks
      /\ IF thread = "caller" THEN query[q].queued > 0 ELSE query[q].held > 0
  BY <1>1 DEF QueryRecords, OwnInv, RecordInv, CanRun
<1>4. /\ n \in 0..MaxTasks /\ h \in 0..MaxTasks /\ n + h <= MaxTasks
      /\ h > 0 => query[q].held > 0
      /\ ~(query[q].queued = 0 /\ query[q].held = 0)
  BY <1>3, BoundsAssumption
<1>5. r = IF thread = "caller" THEN [rest EXCEPT !.queued = n] ELSE [rest EXCEPT !.held = h]
  BY <1>2 DEF Without
<1> HIDE DEF rest, n, h, r
<1>7. /\ r \in QueryRecords
      /\ r.at = query[q].at /\ r.conn = query[q].conn /\ r.fun = query[q].fun
      /\ r.streaming = query[q].streaming /\ r.bindData = query[q].bindData
      /\ r.plan = query[q].plan /\ r.threw = query[q].threw
      /\ r.failing = query[q].failing /\ r.queued = n /\ r.held = h
  <2>1. CASE thread = "caller"
    <3>1. r = [rest EXCEPT !.queued = n] /\ h = rest.held
      BY <1>2, <1>5, <2>1 DEF h
    <3> QED
      BY <1>2, <1>4, <3>1 DEF QueryRecords
  <2>2. CASE thread # "caller"
    <3>1. r = [rest EXCEPT !.held = h] /\ n = rest.queued
      BY <1>2, <1>5, <2>2 DEF n
    <3> QED
      BY <1>2, <1>4, <3>1 DEF QueryRecords
  <2> QED
    BY <2>1, <2>2
<1>8. query[q].at = "ready" => query[q].streaming
  BY <1>1, <1>4 DEF OwnInv, RecordInv
<1>9. query[q].failing = FALSE
  BY <1>1 DEF QueryRecords
<1>10. RecordInv(r)
  BY <1>1, <1>4, <1>7, <1>8, <1>9 DEF OwnInv, RecordInv, Running
<1>11. r.held > 0 => unpinned
  BY <1>1, <1>4, <1>7 DEF OwnInv
<1> QED
  BY <1>4, <1>7, <1>8, <1>9, <1>10, <1>11 DEF r

LEMMA ThrownRecord ==
  ASSUME IInv, NEW q \in Queries, Active(q), ~(query[q].at = "ready" /\ ~query[q].streaming)
  PROVE  RecordInv([Failing(q) EXCEPT !.threw = TRUE])
<1> DEFINE f == Failing(q)
           r == [f EXCEPT !.threw = TRUE]
<1>1. query[q].at \in Running /\ RecordInv(query[q])
  BY OwnFacts DEF Active, OwnInv
<1>2. /\ f \in QueryRecords /\ f.at = query[q].at /\ f.streaming = query[q].streaming
      /\ f.queued = 0 /\ f.held = 0 /\ f.failing = TRUE
  BY FailingFields
<1> HIDE DEF f
<1>3. /\ r.at = query[q].at /\ r.streaming = query[q].streaming
      /\ r.queued = 0 /\ r.held = 0 /\ r.failing = TRUE
  BY <1>2 DEF QueryRecords
<1>4. 0 + 0 <= MaxTasks
  BY BoundsAssumption
<1> HIDE DEF r
<1>5. RecordInv(r)
  BY <1>1, <1>3, <1>4 DEF RecordInv, Running
<1> QED
  BY <1>5 DEF r, f

LEMMA RunTaskKeeps ==
  ASSUME IInv, NEW q \in Queries, Active(q), NEW thread \in {"caller", "worker"},
         RunTask(q, thread),
         UNCHANGED <<threads, unpinned, registered, extraInfo, nextObjectId, objectRegistry>>
  PROVE  IInv'
<1>1. PICK outcome \in Outcomes : Work(q, thread, outcome, Without(q, thread), Failing(q))
  BY DEF RunTask
<1>2. CanRun(q, thread)
  BY DEF RunTask
<1>3. registered # {}
  BY OwnFacts DEF OwnInv, Active, Running
<1>4. thread = "worker" => unpinned
  BY <1>2, OwnFacts DEF OwnInv, CanRun
<1>5. Failing(q) \in QueryRecords /\ Failing(q).held = 0 /\ Failing(q).bindData = 0
  BY FailingFields
<1>6. RecordInv([Failing(q) EXCEPT !.threw = TRUE])
  BY <1>2, WithoutFacts, ThrownRecord
<1> QED
  BY <1>1, <1>2, <1>3, <1>4, <1>5, <1>6, WithoutFacts, WorkStep

LEMMA WorkerRunsKeeps ==
  ASSUME IInv, NEW q \in Queries, WorkerRuns(q) PROVE IInv'
  BY RunTaskKeeps DEF WorkerRuns

LEMMA TaskFailsKeeps ==
  ASSUME IInv, NEW q \in Queries, TaskFails(q) PROVE IInv'
<1>1. /\ Active(q) /\ Gives(q, Failing(q)) /\ UNCHANGED strayed
      /\ UNCHANGED <<threads, unpinned, registered, extraInfo, nextObjectId, objectRegistry>>
  BY DEF TaskFails, Gives
<1>2. /\ Failing(q) \in QueryRecords /\ Failing(q).bindData = 0
      /\ ~(Failing(q).held > 0)
  BY FailingFields, ZeroNotPositive
<1>3. RecordInv(Failing(q)) /\ registered # {}
  BY <1>1, FailingInv, OwnFacts DEF OwnInv, Active, Running
<1>4. strayed' = FALSE
  BY <1>1 DEF IInv, TypeOK, CallbacksOnTheCallersThread
<1> QED
  BY <1>1, <1>2, <1>3, <1>4, RecordStep

LEMMA InterruptKeeps ==
  ASSUME IInv, NEW c \in Conns, Interrupt(c) PROVE IInv'
  BY TaskFailsKeeps DEF Interrupt

LEMMA WorkerTakesKeeps ==
  ASSUME IInv, NEW q \in Queries, WorkerTakes(q) PROVE IInv'
<1> DEFINE r == [query[q] EXCEPT !.queued = @ - 1, !.held = @ + 1]
<1>1. query[q] \in QueryRecords /\ OwnInv(q)
  BY OwnFacts
<1>2. /\ Active(q) /\ query[q].queued > 0 /\ threads = "many" /\ Gives(q, r)
      /\ UNCHANGED <<threads, unpinned, registered, extraInfo, nextObjectId, objectRegistry>>
      /\ UNCHANGED strayed
  BY DEF WorkerTakes, Gives
<1>3. query[q].queued - 1 \in 0..MaxTasks /\ query[q].held + 1 \in 0..MaxTasks
      /\ (query[q].queued - 1) + (query[q].held + 1) <= MaxTasks
      /\ query[q].queued # 0
  <2>1. query[q].queued \in 0..MaxTasks /\ query[q].held \in 0..MaxTasks
    BY <1>1 DEF QueryRecords
  <2> QED
    BY <1>1, <1>2, <2>1, BoundsAssumption DEF OwnInv, RecordInv
<1>4. /\ r \in QueryRecords
      /\ r.at = query[q].at /\ r.conn = query[q].conn /\ r.fun = query[q].fun
      /\ r.streaming = query[q].streaming /\ r.bindData = query[q].bindData
      /\ r.plan = query[q].plan /\ r.threw = query[q].threw
      /\ r.failing = query[q].failing
      /\ r.queued = query[q].queued - 1 /\ r.held = query[q].held + 1
  BY <1>1, <1>3 DEF QueryRecords
<1> HIDE DEF r
<1>5. query[q].at \in Running /\ ~query[q].failing /\ registered # {}
  BY <1>1, <1>2 DEF Active, OwnInv, Running
<1>6. RecordInv(r)
  BY <1>1, <1>3, <1>4, <1>5 DEF OwnInv, RecordInv, Running
<1>7. unpinned
  BY <1>2, <1>5 DEF IInv
<1>8. strayed' = FALSE
  BY <1>2 DEF IInv, TypeOK, CallbacksOnTheCallersThread
<1> QED
  BY <1>2, <1>4, <1>5, <1>6, <1>7, <1>8, RecordStep

LEMMA RunAllTasksKeeps ==
  ASSUME IInv, NEW q \in Queries, RunAllTasks(q) PROVE IInv'
<1> DEFINE r == [query[q] EXCEPT !.at = "polling"]
<1>1. query[q] \in QueryRecords /\ OwnInv(q)
  BY OwnFacts
<1>2. /\ query[q].at = "pending" /\ Gives(q, r) /\ UNCHANGED strayed
      /\ UNCHANGED <<threads, unpinned, registered, extraInfo, nextObjectId, objectRegistry>>
  BY DEF RunAllTasks, Gives
<1>3. /\ r \in QueryRecords
      /\ r.at = "polling" /\ r.conn = query[q].conn /\ r.fun = query[q].fun
      /\ r.streaming = query[q].streaming /\ r.bindData = query[q].bindData
      /\ r.plan = query[q].plan /\ r.threw = query[q].threw
      /\ r.failing = query[q].failing
      /\ r.queued = query[q].queued /\ r.held = query[q].held
  BY <1>1 DEF QueryRecords, Places
<1> HIDE DEF r
<1>4. RecordInv(r) /\ (r.held > 0 => unpinned) /\ registered # {}
  BY <1>1, <1>2, <1>3 DEF OwnInv, RecordInv, Running
<1>5. strayed' = FALSE
  BY <1>2 DEF IInv, TypeOK, CallbacksOnTheCallersThread
<1> QED
  BY <1>2, <1>3, <1>4, <1>5, RecordStep

(* What the state of a pending result means.                               *)
LEMMA PendingStates ==
  ASSUME IInv, NEW q \in Queries
  PROVE  /\ PendingState(q) \in {"ERROR", "RESULT_READY", "RESULT_NOT_READY",
                                 "NO_TASKS_AVAILABLE"}
         /\ PendingState(q) = "ERROR" <=> query[q].failing
         /\ PendingState(q) = "RESULT_READY" =>
              query[q].streaming \/ (query[q].queued = 0 /\ query[q].held = 0)
         /\ PendingState(q) = "RESULT_NOT_READY" => query[q].queued > 0
         /\ PendingState(q) = "NO_TASKS_AVAILABLE" => query[q].held > 0
<1>1. query[q].queued \in 0..MaxTasks /\ query[q].held \in 0..MaxTasks
  BY OwnFacts DEF QueryRecords
<1>2. query[q].queued > 0 \/ query[q].queued = 0
  BY <1>1, BoundsAssumption
<1>3. query[q].held > 0 \/ query[q].held = 0
  BY <1>1, BoundsAssumption
<1> QED
  BY <1>2, <1>3 DEF PendingState

LEMMA LeaveKeeps ==
  ASSUME IInv, NEW q \in Queries, query[q].at \in Running,
         NEW place \in {"ready", "streaming", "done", "cut", "failed"}, Leave(q, place),
         place \in {"cut", "failed"} \/ ~query[q].failing,
         place = "ready" => query[q].streaming \/ (query[q].queued = 0 /\ query[q].held = 0),
         place = "streaming" => query[q].streaming,
         UNCHANGED <<threads, unpinned, registered, extraInfo, nextObjectId, objectRegistry>>
  PROVE  IInv'
<1>1. query[q] \in QueryRecords /\ OwnInv(q)
  BY OwnFacts
<1>2. strayed' = FALSE
  BY DEF Leave, IInv, TypeOK, CallbacksOnTheCallersThread
<1>3. registered # {}
  BY <1>1 DEF OwnInv, Running
<1>4. query[q].threw => query[q].failing
  BY <1>1 DEF OwnInv, RecordInv, Running
<1>5. CASE place \in {"ready", "streaming"}
  <2> DEFINE r == [query[q] EXCEPT !.at = place]
  <2>1. Gives(q, r)
    BY <1>5 DEF Leave, Gives, Running
  <2>2. /\ r \in QueryRecords
        /\ r.at = place /\ r.conn = query[q].conn /\ r.fun = query[q].fun
        /\ r.streaming = query[q].streaming /\ r.bindData = query[q].bindData
        /\ r.plan = query[q].plan /\ r.threw = query[q].threw
        /\ r.failing = query[q].failing
        /\ r.queued = query[q].queued /\ r.held = query[q].held
    BY <1>1 DEF QueryRecords, Places
  <2> HIDE DEF r
  <2>3. ~query[q].failing
    BY <1>5
  <2>4. RecordInv(r)
    BY <1>1, <1>4, <1>5, <2>2, <2>3 DEF OwnInv, RecordInv, Running
  <2>5. r.held > 0 => unpinned
    BY <1>1, <2>2 DEF OwnInv
  <2> QED
    BY <1>2, <1>3, <2>1, <2>2, <2>4, <2>5, RecordStep
<1>6. CASE place \in {"done", "cut", "failed"}
  <2>1. Gives(q, EndedAs(place, query[q].threw))
    BY <1>6 DEF Leave, Gives, Running
  <2>2. query[q].threw \in BOOLEAN
    BY <1>1 DEF QueryRecords
  <2>3. query[q].threw => place # "done"
    BY <1>4
  <2> QED
    BY <1>2, <1>3, <1>6, <2>1, <2>2, <2>3, EndStep
<1> QED
  BY <1>5, <1>6

LEMMA PollKeeps ==
  ASSUME IInv, NEW q \in Queries, Poll(q) PROVE IInv'
<1>1. /\ query[q].at = "polling" /\ query[q].at \in Running
      /\ UNCHANGED <<threads, unpinned, registered, extraInfo, nextObjectId, objectRegistry>>
  BY DEF Poll, Running
<1>2. CASE PendingState(q) = "ERROR"
  <2>1. Leave(q, "failed")
    BY <1>2 DEF Poll
  <2> QED
    BY <1>1, <2>1, LeaveKeeps
<1>3. CASE PendingState(q) = "RESULT_READY"
  <2>1. Leave(q, "ready")
    BY <1>3 DEF Poll
  <2>2. ~query[q].failing
    BY <1>3, PendingStates
  <2> QED
    BY <1>1, <1>3, <2>1, <2>2, PendingStates, LeaveKeeps
<1>4. CASE PendingState(q) = "RESULT_NOT_READY"
  <2>1. RunTask(q, "caller")
    BY <1>4 DEF Poll
  <2>2. Active(q)
    BY <1>1, <1>4, PendingStates DEF Active
  <2> QED
    BY <1>1, <2>1, <2>2, RunTaskKeeps
<1>5. CASE PendingState(q) = "NO_TASKS_AVAILABLE"
  <2>1. UNCHANGED <<query, strayed>>
    BY <1>5 DEF Poll
  <2> QED
    BY <1>1, <2>1
       DEF IInv, TypeOK, OwnInv, RecordInv, BindDataKept, ExtraInfoKept,
           CallbacksOnTheCallersThread
<1> QED
  BY <1>2, <1>3, <1>4, <1>5, PendingStates

LEMMA RunOneTaskKeeps ==
  ASSUME IInv, NEW q \in Queries, RunOneTask(q) PROVE IInv'
<1>1. Active(q)
  BY PendingStates DEF RunOneTask, Active, Running
<1> QED
  BY <1>1, RunTaskKeeps DEF RunOneTask

LEMMA EndedInv ==
  ASSUME NEW place \in {"done", "cut", "failed"}
  PROVE  /\ EndedAs(place, FALSE) \in QueryRecords
         /\ RecordInv(EndedAs(place, FALSE))
         /\ EndedAs(place, FALSE).bindData = 0
         /\ EndedAs(place, FALSE).held = 0
         /\ place # "done" => RecordInv([EndedAs(place, FALSE) EXCEPT !.threw = TRUE])
<1> DEFINE e == EndedAs(place, FALSE)
           r == [e EXCEPT !.threw = TRUE]
<1>1. place \in Places /\ 0 + 0 <= MaxTasks
  BY BoundsAssumption DEF Places
<1>2. /\ e \in QueryRecords /\ e.at = place /\ e.threw = FALSE /\ e.bindData = 0
      /\ e.queued = 0 /\ e.held = 0 /\ e.failing = FALSE
  BY <1>1, EndedTyped, EndedFields
<1> HIDE DEF e
<1>3. /\ r.at = place /\ r.threw = TRUE /\ r.queued = 0 /\ r.held = 0 /\ r.failing = FALSE
  BY <1>2 DEF QueryRecords
<1> HIDE DEF r
<1>4. RecordInv(e)
  BY <1>1, <1>2 DEF RecordInv, Running
<1>5. place # "done" => RecordInv(r)
  BY <1>1, <1>3 DEF RecordInv, Running
<1> QED
  BY <1>2, <1>4, <1>5 DEF e, r

LEMMA RunForRowsKeeps ==
  ASSUME IInv, NEW q \in Queries, Active(q), query[q].streaming,
         NEW place \in {"cut", "failed"}, RunForRows(q, place),
         UNCHANGED <<threads, unpinned, registered, extraInfo, nextObjectId, objectRegistry>>
  PROVE  IInv'
<1>1. PICK outcome \in Outcomes, thread \in {"caller", "worker"} :
        /\ CanRun(q, thread)
        /\ Work(q, thread, outcome, [Without(q, thread) EXCEPT !.at = "streaming"],
                EndedAs(place, FALSE))
  BY DEF RunForRows
<1> DEFINE w == Without(q, thread)
           r == [w EXCEPT !.at = "streaming"]
<1>2. /\ w \in QueryRecords /\ w.conn = query[q].conn /\ w.fun = query[q].fun
      /\ w.streaming = query[q].streaming /\ w.bindData = query[q].bindData
      /\ w.plan = query[q].plan /\ w.threw = query[q].threw /\ w.failing = FALSE
      /\ w.held > 0 => unpinned
      /\ w.queued + w.held <= MaxTasks
  BY <1>1, WithoutFacts
<1> HIDE DEF w
<1>3. /\ r \in QueryRecords /\ r.at = "streaming"
      /\ r.conn = query[q].conn /\ r.fun = query[q].fun
      /\ r.streaming = query[q].streaming /\ r.bindData = query[q].bindData
      /\ r.plan = query[q].plan /\ r.threw = query[q].threw /\ r.failing = FALSE
      /\ r.queued = w.queued /\ r.held = w.held
  BY <1>2 DEF QueryRecords, Places
<1>4. Work(q, thread, outcome, r, EndedAs(place, FALSE))
  BY <1>1 DEF w
<1> HIDE DEF r
<1>5. query[q].at \in Running /\ ~query[q].failing /\ OwnInv(q) /\ registered # {}
  BY OwnFacts DEF Active, OwnInv, Running
<1>6. RecordInv(r)
  BY <1>2, <1>3, <1>5 DEF OwnInv, RecordInv, Running
<1>7. thread = "worker" => unpinned
  BY <1>1, <1>5 DEF OwnInv, CanRun
<1> QED
  BY <1>2, <1>3, <1>4, <1>5, <1>6, <1>7, EndedInv, WorkStep

LEMMA GetResultKeeps ==
  ASSUME IInv, NEW q \in Queries, GetResult(q) PROVE IInv'
<1>1. /\ query[q].at \in {"pending", "ready"} /\ query[q].at \in Running
      /\ UNCHANGED <<threads, unpinned, registered, extraInfo, nextObjectId, objectRegistry>>
  BY DEF GetResult, Running
<1>2. CASE PendingState(q) = "ERROR" /\ Leave(q, "failed")
  BY <1>1, <1>2, LeaveKeeps
<1>3. CASE /\ PendingState(q) = "RESULT_READY"
           /\ Leave(q, IF query[q].streaming THEN "streaming" ELSE "done")
  <2>1. ~query[q].failing
    BY <1>3, PendingStates
  <2> QED
    BY <1>1, <1>3, <2>1, LeaveKeeps
<1>4. ASSUME PendingState(q) \in {"RESULT_NOT_READY", "NO_TASKS_AVAILABLE"},
             NEW outcome \in Outcomes,
             NEW thread \in {"caller"} \cup (IF threads = "many" THEN {"worker"} ELSE {}),
             Work(q, thread, outcome, EndedAs("done", FALSE), EndedAs("failed", FALSE))
      PROVE  IInv'
  <2>1. registered # {}
    BY <1>1, OwnFacts DEF OwnInv, Running
  <2>2. thread = "worker" => unpinned
    BY <1>4, <2>1 DEF IInv
  <2>3. /\ EndedAs("done", FALSE) \in QueryRecords
        /\ RecordInv(EndedAs("done", FALSE))
        /\ EndedAs("done", FALSE).bindData = 0
        /\ ~(EndedAs("done", FALSE).held > 0)
    BY EndedInv, ZeroNotPositive
  <2>4. /\ EndedAs("failed", FALSE) \in QueryRecords
        /\ EndedAs("failed", FALSE).bindData = 0
        /\ EndedAs("failed", FALSE).held = 0
        /\ RecordInv([EndedAs("failed", FALSE) EXCEPT !.threw = TRUE])
    BY EndedInv
  <2> QED
    BY <1>1, <1>4, <2>1, <2>2, <2>3, <2>4, WorkStep
<1>5. CASE /\ PendingState(q) \in {"RESULT_NOT_READY", "NO_TASKS_AVAILABLE"}
           /\ query[q].streaming
           /\ RunForRows(q, "failed")
  <2>1. Active(q)
    BY <1>1, <1>5, PendingStates DEF Active
  <2> QED
    BY <1>1, <1>5, <2>1, RunForRowsKeeps
<1> QED
  BY <1>2, <1>3, <1>4, <1>5 DEF GetResult

LEMMA FetchChunkKeeps ==
  ASSUME IInv, NEW q \in Queries, FetchChunk(q) PROVE IInv'
<1>1. /\ query[q].at = "streaming" /\ query[q].at \in Running
      /\ UNCHANGED <<threads, unpinned, registered, extraInfo, nextObjectId, objectRegistry>>
  BY DEF FetchChunk, Running
<1>2. query[q].streaming
  BY <1>1, OwnFacts DEF OwnInv, RecordInv
<1>3. CASE query[q].failing /\ Leave(q, "cut")
  BY <1>1, <1>3, LeaveKeeps
<1>4. CASE ~query[q].failing /\ RunForRows(q, "cut")
  BY <1>1, <1>2, <1>4, RunForRowsKeeps DEF Active
<1>5. CASE ~query[q].failing /\ Leave(q, "done")
  BY <1>1, <1>5, LeaveKeeps
<1> QED
  BY <1>3, <1>4, <1>5 DEF FetchChunk

-----------------------------------------------------------------------------
(* Planning a statement: e is the query's record before the bind callback. *)
LEMMA PlanKeeps ==
  ASSUME IInv, NEW q \in Queries, NEW e \in QueryRecords, registered # {},
         e.plan \in 0..1, e.conn \in Conns, e.fun \in Funs, e.held = 0,
         e.failing = FALSE,
         NEW place \in {"prepared", "pending"}, Plan(q, e, place),
         UNCHANGED <<threads, unpinned, registered, extraInfo, strayed>>
  PROVE  IInv'
<1>1. RegistryTypes /\ strayed' = FALSE
  BY DEF IInv, TypeOK, RegistryTypes, CallbacksOnTheCallersThread
<1>2. PICK outcome \in Outcomes, stores \in BOOLEAN :
        /\ \/ stores /\ Store([kind |-> "bind", of |-> q, plan |-> e.plan + 1])
           \/ ~stores /\ UNCHANGED <<nextObjectId, objectRegistry>>
        /\ query' = [Closed(e.conn) EXCEPT ![q] =
             IF ErrorSet(outcome) THEN EndedAs("failed", outcome = "throws")
             ELSE [e EXCEPT !.plan = @ + 1, !.at = place,
                            !.bindData = IF stores THEN nextObjectId ELSE 0,
                            !.threw = outcome = "throws"]]
  BY DEF Plan
<1> DEFINE object == [kind |-> "bind", of |-> q, plan |-> e.plan + 1]
           id == IF stores THEN nextObjectId ELSE 0
           r == [e EXCEPT !.plan = @ + 1, !.at = place, !.bindData = id, !.threw = FALSE]
<1>3. object \in Objects
  <2>1. e.plan + 1 \in 1..2
    OBVIOUS
  <2> QED
    BY <2>1 DEF Objects
<1>4. /\ ObjectsKept /\ id \in Ids
      /\ id # 0 => id < nextObjectId' /\ objectRegistry'[id] = object
  <2>1. CASE stores
    <3>1. Store(object)
      BY <1>2, <2>1
    <3> HIDE DEF object
    <3>2. /\ nextObjectId \in 1..MaxObjects /\ nextObjectId' = nextObjectId + 1
          /\ objectRegistry'[nextObjectId] = object
      BY <1>1, <1>3, <3>1, StoreKeeps
    <3>3. ObjectsKept
      BY <1>3, <3>1, ObjectStored
    <3>4. id = nextObjectId
      BY <2>1
    <3> HIDE DEF id
    <3> QED
      BY <3>2, <3>3, <3>4, BoundsAssumption DEF Ids
  <2>2. CASE ~stores
    <3>1. ObjectsKept
      BY <1>2, <2>2, NothingStored
    <3> QED
      BY <2>2, <3>1, BoundsAssumption DEF Ids
  <2> QED
    BY <2>1, <2>2
<1>5. CASE outcome = "throws"
  <2>1. query' = [Closed(e.conn) EXCEPT ![q] = EndedAs("failed", TRUE)]
    BY <1>2, <1>5 DEF ErrorSet
  <2>2. Gives(q, EndedAs("failed", TRUE)) /\ "failed" \in Places
    BY <2>1 DEF Gives, Places
  <2> DEFINE f == EndedAs("failed", TRUE)
  <2>3. /\ f \in QueryRecords /\ f.at = "failed" /\ f.threw = TRUE /\ f.bindData = 0
        /\ f.queued = 0 /\ f.held = 0 /\ f.failing = FALSE
    BY <2>2, EndedTyped, EndedFields
  <2>4. Gives(q, f)
    BY <2>2
  <2> HIDE DEF f
  <2>5. query'[q] = f /\ 0 + 0 <= MaxTasks
    BY <2>3, <2>4, GivesFacts, BoundsAssumption
  <2>6. OwnInv(q)'
    BY <2>3, <2>5, ZeroNotPositive DEF OwnInv, RecordInv, BindDataKept, Running
  <2> QED
    BY <1>1, <1>4, <2>3, <2>4, <2>6, QueryStep
<1>6. CASE outcome # "throws"
  <2>1. Gives(q, r)
    BY <1>2, <1>6 DEF ErrorSet, Gives
  <2>2. e.plan + 1 \in 0..2 /\ place \in Places
    BY DEF Places
  <2> HIDE DEF id
  <2>3. /\ r \in QueryRecords
        /\ r.plan = e.plan + 1 /\ r.at = place /\ r.bindData = id /\ r.threw = FALSE
        /\ r.conn = e.conn /\ r.fun = e.fun /\ r.held = 0 /\ r.queued = e.queued
        /\ r.failing = FALSE
    BY <1>4, <2>2 DEF QueryRecords
  <2>4. e.queued + 0 <= MaxTasks
    BY BoundsAssumption DEF QueryRecords
  <2>5. object = [kind |-> "bind", of |-> q, plan |-> r.plan]
    BY <2>3
  <2> HIDE DEF r, object
  <2>6. query'[q] = r
    BY <2>1, <2>3, GivesFacts
  <2>7. BindDataKept(q)'
    BY <1>4, <2>3, <2>5, <2>6 DEF BindDataKept
  <2>8. RecordInv(r)
    BY <2>3, <2>4 DEF RecordInv, Running
  <2>9. OwnInv(q)'
    BY <2>3, <2>6, <2>7, <2>8, ZeroNotPositive DEF OwnInv, RecordInv
  <2> QED
    BY <1>1, <1>4, <2>1, <2>3, <2>9, QueryStep
<1> QED
  BY <1>5, <1>6

LEMMA PrepareKeeps ==
  ASSUME IInv, NEW q \in Queries, NEW c \in Conns, NEW f \in Funs, Prepare(q, c, f)
  PROVE  IInv'
<1> DEFINE e == [NewQuery EXCEPT !.conn = c, !.fun = f]
<1>1. /\ f \in registered /\ Plan(q, e, "prepared")
      /\ UNCHANGED <<threads, unpinned, registered, extraInfo, strayed>>
  BY DEF Prepare
<1>2. NewQuery \in QueryRecords
  BY EndedTyped DEF Places
<1>3. /\ e \in QueryRecords
      /\ e.plan = 0 /\ e.conn = c /\ e.fun = f /\ e.held = 0 /\ e.failing = FALSE
  BY <1>2 DEF QueryRecords, NewQuery
<1>4. registered # {} /\ e.plan \in 0..1
  BY <1>1, <1>3
<1> HIDE DEF e
<1> QED
  BY <1>1, <1>3, <1>4, PlanKeeps

LEMMA StartKeeps ==
  ASSUME IInv, NEW q \in Queries, Start(q) PROVE IInv'
<1>1. query[q] \in QueryRecords /\ OwnInv(q)
  BY OwnFacts
<1>2. /\ query[q].at = "prepared"
      /\ UNCHANGED <<threads, unpinned, registered, extraInfo, strayed>>
  BY DEF Start
<1>3. /\ query[q].conn \in Conns /\ query[q].fun \in Funs /\ query[q].held = 0
      /\ query[q].failing = FALSE /\ query[q].threw = FALSE /\ registered # {}
  BY <1>1, <1>2 DEF OwnInv, RecordInv, Running, QueryRecords
<1>4. strayed' = FALSE
  BY <1>2 DEF IInv, TypeOK, CallbacksOnTheCallersThread
<1>5. PICK n \in 1..MaxTasks, stream \in BOOLEAN :
        LET started == [query[q] EXCEPT !.queued = n, !.streaming = stream] IN
        \/ /\ query' = [Closed(query[q].conn) EXCEPT ![q] = [started EXCEPT !.at = "pending"]]
           /\ UNCHANGED <<nextObjectId, objectRegistry>>
        \/ query[q].plan = 1 /\ Plan(q, started, "pending")
  BY DEF Start
<1> DEFINE e == [query[q] EXCEPT !.queued = n, !.streaming = stream]
           r == [e EXCEPT !.at = "pending"]
<1>6. n \in 0..MaxTasks /\ n + 0 <= MaxTasks
  BY BoundsAssumption
<1>7. /\ e \in QueryRecords
      /\ e.plan = query[q].plan /\ e.conn = query[q].conn /\ e.fun = query[q].fun
      /\ e.held = 0 /\ e.failing = FALSE /\ e.threw = FALSE /\ e.queued = n
      /\ e.bindData = query[q].bindData
  BY <1>1, <1>3, <1>6 DEF QueryRecords
<1>8. \/ /\ query' = [Closed(query[q].conn) EXCEPT ![q] = r]
         /\ UNCHANGED <<nextObjectId, objectRegistry>>
      \/ query[q].plan = 1 /\ Plan(q, e, "pending")
  BY <1>5
<1> HIDE DEF e
<1>9. CASE /\ query' = [Closed(query[q].conn) EXCEPT ![q] = r]
           /\ UNCHANGED <<nextObjectId, objectRegistry>>
  <2>1. /\ r \in QueryRecords /\ r.at = "pending"
        /\ r.plan = e.plan /\ r.conn = e.conn /\ r.fun = e.fun
        /\ r.held = 0 /\ r.failing = FALSE /\ r.threw = FALSE /\ r.queued = n
        /\ r.bindData = e.bindData
    BY <1>7 DEF QueryRecords, Places
  <2>2. Gives(q, r)
    BY <1>3, <1>9 DEF Gives
  <2> HIDE DEF r
  <2>3. RecordInv(r)
    BY <1>3, <1>6, <1>7, <2>1 DEF RecordInv, Running
  <2>4. ~(r.held > 0)
    BY <2>1, ZeroNotPositive
  <2> QED
    BY <1>2, <1>3, <1>4, <1>7, <1>9, <2>1, <2>2, <2>3, <2>4, RecordStep
<1>10. CASE query[q].plan = 1 /\ Plan(q, e, "pending")
  <2>1. e.plan \in 0..1
    BY <1>7, <1>10
  <2> QED
    BY <1>2, <1>3, <1>7, <1>10, <2>1, PlanKeeps
<1> QED
  BY <1>8, <1>9, <1>10

LEMMA StartRefusedKeeps ==
  ASSUME IInv, NEW q \in Queries, StartRefused(q) PROVE IInv'
<1>1. /\ query[q].at = "prepared"
      /\ query' = [Closed(query[q].conn) EXCEPT ![q] = EndedAs("failed", FALSE)]
      /\ UNCHANGED <<threads, unpinned, registered, extraInfo, nextObjectId,
                     objectRegistry, strayed>>
  BY DEF StartRefused
<1>2. query[q].conn \in Conns /\ registered # {} /\ strayed' = FALSE
  BY <1>1, OwnFacts
     DEF OwnInv, RecordInv, Running, IInv, TypeOK, CallbacksOnTheCallersThread
<1>3. Gives(q, EndedAs("failed", FALSE))
  BY <1>1, <1>2 DEF Gives
<1> QED
  BY <1>1, <1>2, <1>3, EndStep

LEMMA SetExtraInfoKeeps ==
  ASSUME IInv, NEW f \in Funs, SetExtraInfo(f) PROVE IInv'
<1> DEFINE object == [kind |-> "extra", of |-> f]
<1>1. object \in Objects /\ Store(object)
  BY DEF Objects, SetExtraInfo
<1> HIDE DEF object
<1>2. extraInfo' = [extraInfo EXCEPT ![f] = nextObjectId]
      /\ UNCHANGED <<threads, unpinned, registered, query, strayed>>
  BY DEF SetExtraInfo
<1>3. RegistryTypes
  BY DEF IInv, TypeOK, RegistryTypes
<1>4. /\ ObjectsKept /\ nextObjectId \in 1..MaxObjects
      /\ nextObjectId' = nextObjectId + 1 /\ objectRegistry'[nextObjectId] = object
  BY <1>1, <1>3, StoreKeeps, ObjectStored
<1>5. TypeOK'
  <2>1. nextObjectId \in Ids
    BY <1>4, BoundsAssumption DEF Ids
  <2>2. extraInfo' \in [Funs -> Ids]
    BY <1>2, <2>1 DEF IInv, TypeOK
  <2> QED
    BY <1>2, <1>4, <2>2 DEF IInv, TypeOK, ObjectsKept, RegistryTypes
<1>6. ASSUME NEW q \in Queries PROVE OwnInv(q)'
  BY <1>2, <1>4, KeptIsGood DEF Kept
<1>7. ASSUME NEW g \in Funs PROVE ExtraInfoKept(g)'
  <2>1. CASE g = f
    <3>1. extraInfo'[g] = nextObjectId
      BY <1>2, <2>1 DEF IInv, TypeOK
    <3> QED
      BY <1>4, <2>1, <3>1, BoundsAssumption DEF ExtraInfoKept, object
  <2>2. CASE g # f
    <3>1. extraInfo'[g] = extraInfo[g]
      BY <1>2, <2>2 DEF IInv, TypeOK
    <3> QED
      BY <1>4, <3>1, ExtraInfoStays
  <2> QED
    BY <2>1, <2>2
<1> QED
  BY <1>2, <1>5, <1>6, <1>7 DEF IInv, CallbacksOnTheCallersThread

(* SET threads on a connection, while no worker holds a task.              *)
LEMMA SettingKeeps ==
  ASSUME IInv, NEW c \in Conns, WorkersIdle, query' = Closed(c),
         threads' \in {"many", "one"}, unpinned' \in BOOLEAN,
         threads' = "many" => unpinned',
         registered' \subseteq Funs, registered \subseteq registered',
         UNCHANGED <<extraInfo, nextObjectId, objectRegistry, strayed>>
  PROVE  IInv'
<1>1. ObjectsKept
  BY NothingStored
<1>2. query' \in [Queries -> QueryRecords] /\ \A p \in Queries : Kept(p)
  BY ClosedKeeps DEF Kept
<1>3. TypeOK'
  BY <1>2 DEF IInv, TypeOK
<1>4. ASSUME NEW q \in Queries PROVE OwnInv(q)'
  BY <1>1, <1>2, KeptIsGood DEF WorkersIdle
<1>5. ASSUME NEW f \in Funs PROVE ExtraInfoKept(f)'
  BY <1>1, ExtraInfoStays
<1> QED
  BY <1>3, <1>4, <1>5 DEF IInv, CallbacksOnTheCallersThread

LEMMA RegisterKeeps ==
  ASSUME IInv, NEW f \in Funs, NEW c \in Conns, Register(f, c) PROVE IInv'
<1>1. /\ WorkersIdle /\ query' = Closed(c) /\ registered' = registered \cup {f}
      /\ UNCHANGED <<extraInfo, nextObjectId, objectRegistry, strayed>>
  BY DEF Register, Pin
<1>2. \/ threads' = "one" /\ unpinned' = FALSE
      \/ unpinned' = TRUE /\ UNCHANGED threads
  BY DEF Register, Pin
<1>3. threads \in {"many", "one"} /\ registered \subseteq Funs
  BY DEF IInv, TypeOK
<1> QED
  BY <1>1, <1>2, <1>3, SettingKeeps

LEMMA SetThreadsKeeps ==
  ASSUME IInv, NEW c \in Conns, SetThreads(c) PROVE IInv'
<1>1. registered \subseteq Funs
  BY DEF IInv, TypeOK
<1> QED
  BY <1>1, SettingKeeps DEF SetThreads

LEMMA StepIInv == IInv /\ [Next]_vars => IInv'
<1> SUFFICES ASSUME IInv, [Next]_vars PROVE IInv'
  OBVIOUS
<1>1. CASE UNCHANGED vars
  BY <1>1 DEF vars, IInv, TypeOK, OwnInv, RecordInv, BindDataKept, ExtraInfoKept,
              CallbacksOnTheCallersThread
<1>2. CASE Next
  BY <1>2, SetExtraInfoKeeps, RegisterKeeps, SetThreadsKeeps, PrepareKeeps, StartKeeps,
     StartRefusedKeeps, WorkerTakesKeeps, WorkerRunsKeeps, RunAllTasksKeeps, PollKeeps,
     RunOneTaskKeeps, GetResultKeeps, FetchChunkKeeps, TaskFailsKeeps, InterruptKeeps
     DEF Next
<1> QED
  BY <1>1, <1>2

LEMMA Invariant == Spec => []IInv
<1>1. IInv /\ [Next]_vars => IInv'
  BY StepIInv
<1> QED
  BY InitIInv, <1>1, PTL DEF Spec

-----------------------------------------------------------------------------
(* The variables keep their types.                                         *)
THEOREM TypeCorrect == Spec => []TypeOK
<1>1. IInv => TypeOK
  BY DEF IInv
<1> QED
  BY Invariant, <1>1, PTL

(* A main callback finds its own objects, however many functions, queries  *)
(* and plans have stored theirs.                                           *)
THEOREM ObjectsCorrect == Spec => []MainSeesOwnObjects
<1>1. IInv => MainSeesOwnObjects
  <2> SUFFICES ASSUME IInv, NEW q \in Queries, Active(q)
               PROVE  MainSees(q) =
                        [bindData  |-> IF query[q].bindData = 0 THEN None
                                       ELSE [kind |-> "bind", of |-> q, plan |-> query[q].plan],
                         extraInfo |-> IF extraInfo[query[q].fun] = 0 THEN None
                                       ELSE [kind |-> "extra", of |-> query[q].fun]]
    BY DEF MainSeesOwnObjects
  <2>1. BindDataKept(q) /\ query[q].fun \in Funs
    BY DEF IInv, OwnInv, RecordInv, Active
  <2>2. ExtraInfoKept(query[q].fun)
    BY <2>1 DEF IInv
  <2> QED
    BY <2>1, <2>2 DEF MainSees, Lookup, BindDataKept, ExtraInfoKept
<1> QED
  BY Invariant, <1>1, PTL

(* SET threads=1 keeps callbacks off the workers for as long as it holds.  *)
THEOREM ThreadCorrect == Spec => []CallbacksOnTheCallersThread
<1>1. IInv => CallbacksOnTheCallersThread
  BY DEF IInv
<1> QED
  BY Invariant, <1>1, PTL

(* No result is delivered whole, by start or by startStream, after one of  *)
(* the query's callbacks threw.                                            *)
THEOREM ThrowsReported == Spec => []ThrownIsNotDelivered
<1>1. IInv => ThrownIsNotDelivered
  <2> SUFFICES ASSUME IInv, NEW q \in Queries, query[q].threw
               PROVE  /\ query[q].at \notin {"prepared", "done"}
                      /\ query[q].at \in {"ready", "streaming"} => query[q].streaming
    BY DEF ThrownIsNotDelivered
  <2>1. RecordInv(query[q])
    BY DEF IInv, OwnInv
  <2> QED
    BY <2>1 DEF RecordInv, Running
<1> QED
  BY Invariant, <1>1, PTL
=============================================================================
