--------------------------- MODULE ScalarFunctions ---------------------------
(***************************************************************************)
(* Scalar functions written in JavaScript and the pending results that run *)
(* the queries calling them.  libduckdb keeps two void pointers for a      *)
(* function: the extra info set before registration and the bind data the  *)
(* bind callback sets each time a statement is planned.  The binding hands *)
(* it numbers instead of pointers and finds the objects again in a map.    *)
(* The callbacks are synchronous and may run only on the thread that       *)
(* called into libduckdb, so registering a function also runs              *)
(* SET threads=1 on the connection.                                        *)
(*                                                                         *)
(* A query is started (start, startStream), polled by runAllTasks with a   *)
(* sleep between two polls, and its result fetched; the program may do     *)
(* anything else between two calls.  The result of start comes when every  *)
(* task has run; that of startStream comes as soon as there are rows, and  *)
(* the other tasks run while fetch_chunk is asked for more.  A connection  *)
(* has one active query: the next statement prepared or run on it closes   *)
(* the one before.                                                         *)
(***************************************************************************)
EXTENDS Naturals, FiniteSets

CONSTANTS
  Funs,        \* scalar functions the program creates
  Conns,       \* connections of one database
  Queries,     \* queries the program starts, each calls one function
  MaxObjects,  \* bound on the objects stored for libduckdb
  MaxTasks,    \* bound on the tasks of a query
  None

ASSUME BoundsAssumption == MaxObjects \in Nat \ {0} /\ MaxTasks \in Nat \ {0}

ASSUME NoneAssumption == None \notin Queries \cup Conns \cup Funs

VARIABLES
  threads,         \* libduckdb's setting: "many" or "one"
  unpinned,        \* history: the last SET threads=1 failed or was undone since
  registered,      \* functions libduckdb knows
  extraInfo,       \* the number set as each function's extra info, 0 for none
  nextObjectId,    \* the next number to hand out
  objectRegistry,  \* number -> object
  query,           \* the state of each query
  strayed          \* history: a callback ran on a worker while pinned

vars == <<threads, unpinned, registered, extraInfo, nextObjectId,
          objectRegistry, query, strayed>>

-----------------------------------------------------------------------------
Ids == 0 .. MaxObjects

(* The objects a program stores: the extra info of a function and the bind *)
(* data of a query, one for every time its statement is planned.           *)
Objects == [kind : {"extra"}, of : Funs]
             \cup [kind : {"bind"}, of : Queries, plan : 1..2]

Places == {"new", "prepared", "pending", "polling", "ready", "streaming",
           "done", "cut", "failed"}

Running == {"pending", "polling", "ready", "streaming"}

(* How a callback ends.  One that throws null or undefined counts as       *)
(* returning: reading its message throws again inside the handler, and     *)
(* libduckdb is never told.                                                *)
Outcomes == {"returns", "throws"}

NewQuery == [at |-> "new", conn |-> None, fun |-> None, plan |-> 0,
             streaming |-> FALSE, buffered |-> FALSE,
             bindData |-> 0, queued |-> 0, held |-> 0,
             threw |-> FALSE, failing |-> FALSE]

(* What is left of a query that has ended: all its rows are delivered      *)
(* ("done"), the stream of them ends before the last ("cut") or the        *)
(* program gets an error ("failed").                                       *)
EndedAs(place, threw) == [NewQuery EXCEPT !.at = place, !.threw = threw]

Init ==
  /\ threads = "many"
  /\ unpinned = FALSE
  /\ registered = {}
  /\ extraInfo = [f \in Funs |-> 0]
  /\ nextObjectId = 1
  /\ objectRegistry = [i \in 1..MaxObjects |-> None]
  /\ query = [q \in Queries |-> NewQuery]
  /\ strayed = FALSE

-----------------------------------------------------------------------------
(* Mutant: the number is not advanced.                                     *)
StuckId(n) == n

FreshId(n) == n + 1

(* set_extra_info and set_bind_data: the object under the next number.     *)
Store(object) ==
  /\ nextObjectId <= MaxObjects
  /\ objectRegistry' = [objectRegistry EXCEPT ![nextObjectId] = object]
  /\ nextObjectId' = FreshId(nextObjectId)

(* get_extra_info and get_bind_data: undefined where libduckdb has NULL.   *)
Lookup(id) == IF id = 0 THEN None ELSE objectRegistry[id]

MainSees(q) == [bindData  |-> Lookup(query[q].bindData),
                extraInfo |-> Lookup(extraInfo[query[q].fun])]

(* Mutant: the handler catches what was thrown and says nothing.           *)
Swallowed(outcome) == FALSE

(* The handler around a callback reports what it threw to libduckdb.       *)
ErrorSet(outcome) == outcome = "throws"

SetExtraInfo(f) ==
  /\ f \notin registered /\ extraInfo[f] = 0
  /\ extraInfo' = [extraInfo EXCEPT ![f] = nextObjectId]
  /\ Store([kind |-> "extra", of |-> f])
  /\ UNCHANGED <<threads, unpinned, registered, query, strayed>>

(* The queries libduckdb is at work on, one of each connection.  It closes *)
(* that one before it runs or prepares another statement there: the tasks  *)
(* are dropped and all that can still be learnt of it is an error.         *)
Active(q) == query[q].at \in Running /\ ~query[q].failing

Failing(q) == [EndedAs(query[q].at, query[q].threw) EXCEPT
                 !.streaming = query[q].streaming, !.failing = TRUE]

Closed(c) ==
  [q \in Queries |-> IF query[q].conn = c /\ Active(q) THEN Failing(q) ELSE query[q]]

(* Changing the setting waits for the workers to put down their tasks.     *)
WorkersIdle == \A q \in Queries : query[q].held = 0

(* Mutant: registering does not set the number of threads.                 *)
PinForgotten(c) ==
  /\ WorkersIdle
  /\ query' = Closed(c)
  /\ UNCHANGED <<threads, unpinned>>

(* SET threads=1 on the connection; a failure of the statement is dropped. *)
Pin(c) ==
  /\ WorkersIdle
  /\ query' = Closed(c)
  /\ \/ threads' = "one" /\ unpinned' = FALSE
     \/ unpinned' = TRUE /\ UNCHANGED threads

(* register_scalar_function; when libduckdb refuses, nothing has changed.  *)
Register(f, c) ==
  /\ f \notin registered
  /\ registered' = registered \cup {f}
  /\ Pin(c)
  /\ UNCHANGED <<extraInfo, nextObjectId, objectRegistry, strayed>>

(* The program sets the number of threads itself.                          *)
SetThreads(c) ==
  /\ threads = "one" /\ WorkersIdle
  /\ threads' = "many"
  /\ unpinned' = TRUE
  /\ query' = Closed(c)
  /\ UNCHANGED <<registered, extraInfo, nextObjectId, objectRegistry, strayed>>

-----------------------------------------------------------------------------
(* Planning a statement calls the function's bind callback on the caller's *)
(* thread; the callback may store bind data for the plan.                  *)
Plan(q, entry, at) ==
  \E outcome \in Outcomes, stores \in BOOLEAN :
    /\ \/ stores /\ Store([kind |-> "bind", of |-> q, plan |-> entry.plan + 1])
       \/ ~stores /\ UNCHANGED <<nextObjectId, objectRegistry>>
    /\ query' = [Closed(entry.conn) EXCEPT ![q] =
         IF ErrorSet(outcome) THEN EndedAs("failed", outcome = "throws")
         ELSE [entry EXCEPT !.plan = @ + 1, !.at = at,
                            !.bindData = IF stores THEN nextObjectId ELSE 0,
                            !.threw = outcome = "throws"]]

(* A statement that libduckdb refuses to prepare is no query.              *)
Prepare(q, c, f) ==
  /\ query[q].at = "new" /\ f \in registered
  /\ Plan(q, [NewQuery EXCEPT !.conn = c, !.fun = f], "prepared")
  /\ UNCHANGED <<threads, unpinned, registered, extraInfo, strayed>>

(* pending_prepared (start) and pending_prepared_streaming (startStream).  *)
(* A statement prepared before the catalog changed is planned again.  When *)
(* libduckdb cannot start it the pending result is destroyed and the call  *)
(* throws.                                                                 *)
Start(q) ==
  /\ query[q].at = "prepared"
  /\ \E n \in 1..MaxTasks, stream \in BOOLEAN :
       LET started == [query[q] EXCEPT !.queued = n, !.streaming = stream] IN
       \/ /\ query' = [Closed(query[q].conn) EXCEPT ![q] = [started EXCEPT !.at = "pending"]]
          /\ UNCHANGED <<nextObjectId, objectRegistry>>
       \/ query[q].plan = 1 /\ Plan(q, started, "pending")
  /\ UNCHANGED <<threads, unpinned, registered, extraInfo, strayed>>

StartRefused(q) ==
  /\ query[q].at = "prepared"
  /\ query' = [Closed(query[q].conn) EXCEPT ![q] = EndedAs("failed", FALSE)]
  /\ UNCHANGED <<threads, unpinned, registered, extraInfo, nextObjectId,
                 objectRegistry, strayed>>

-----------------------------------------------------------------------------
(* One task: the main callback runs on the given thread.  An error ends    *)
(* the query inside libduckdb, which drops the other tasks; what a stream  *)
(* produces is buffered.  The record becomes good or bad.                  *)
Work(q, thread, outcome, good, bad) ==
  /\ strayed' = (strayed \/ (thread = "worker" /\ ~unpinned))
  /\ query' = [query EXCEPT ![q] =
       IF ErrorSet(outcome)
       THEN [bad EXCEPT !.threw = outcome = "throws"]
       ELSE [good EXCEPT !.threw = @ \/ outcome = "throws"]]

(* The tasks a thread may run: the caller one that is queued, a worker one *)
(* that it holds.                                                          *)
CanRun(q, thread) == IF thread = "caller" THEN query[q].queued > 0 ELSE query[q].held > 0

Without(q, thread) ==
  LET rest == [query[q] EXCEPT !.buffered = query[q].streaming] IN
  IF thread = "caller" THEN [rest EXCEPT !.queued = @ - 1]
                       ELSE [rest EXCEPT !.held = @ - 1]

RunTask(q, thread) ==
  /\ CanRun(q, thread)
  /\ \E outcome \in Outcomes :
       Work(q, thread, outcome, Without(q, thread), Failing(q))

WorkerTakes(q) ==
  /\ threads = "many"
  /\ Active(q) /\ query[q].queued > 0
  /\ query' = [query EXCEPT ![q].queued = @ - 1, ![q].held = @ + 1]
  /\ UNCHANGED <<threads, unpinned, registered, extraInfo, nextObjectId,
                 objectRegistry, strayed>>

WorkerRuns(q) ==
  /\ Active(q)
  /\ RunTask(q, "worker")
  /\ UNCHANGED <<threads, unpinned, registered, extraInfo, nextObjectId,
                 objectRegistry>>

(* A task of the query fails for reasons of libduckdb's own.               *)
TaskFails(q) ==
  /\ Active(q)
  /\ query[q].queued + query[q].held > 0
  /\ query' = [query EXCEPT ![q] = Failing(q)]
  /\ UNCHANGED <<threads, unpinned, registered, extraInfo, nextObjectId,
                 objectRegistry, strayed>>

(* interrupt: the next task of the query running on the connection fails;  *)
(* where no task is left it comes too late.                                *)
Interrupt(c) == \E q \in Queries : query[q].conn = c /\ TaskFails(q)

(* What pending_execute_task reports before it runs anything.              *)
PendingState(q) ==
  IF query[q].failing THEN "ERROR"
  ELSE IF query[q].streaming /\ query[q].buffered THEN "RESULT_READY"
  ELSE IF query[q].queued > 0 THEN "RESULT_NOT_READY"
  ELSE IF query[q].held > 0 THEN "NO_TASKS_AVAILABLE"
  ELSE "RESULT_READY"

RunAllTasks(q) ==
  /\ query[q].at = "pending"
  /\ query' = [query EXCEPT ![q].at = "polling"]
  /\ UNCHANGED <<threads, unpinned, registered, extraInfo, nextObjectId,
                 objectRegistry, strayed>>

(* The program learns where the query has got to.                          *)
Leave(q, place) ==
  /\ query' = [query EXCEPT ![q] =
       IF place \in Running THEN [@ EXCEPT !.at = place]
       ELSE EndedAs(place, query[q].threw)]
  /\ UNCHANGED strayed

(* Mutant: the loop does not leave on an error.                            *)
PollPastErrors(q) ==
  /\ query[q].at = "polling"
  /\ CASE PendingState(q) = "RESULT_READY" -> Leave(q, "ready")
       [] PendingState(q) = "RESULT_NOT_READY" -> RunTask(q, "caller")
       [] OTHER -> UNCHANGED <<query, strayed>>
  /\ UNCHANGED <<threads, unpinned, registered, extraInfo, nextObjectId,
                 objectRegistry>>

(* runTask, once around the loop of runAllTasks.  With no task to take it  *)
(* only sleeps; a task that fails is an error of the next time around.     *)
Poll(q) ==
  /\ query[q].at = "polling"
  /\ CASE PendingState(q) = "ERROR"        -> Leave(q, "failed")
       [] PendingState(q) = "RESULT_READY" -> Leave(q, "ready")
       [] PendingState(q) = "RESULT_NOT_READY" -> RunTask(q, "caller")
       [] OTHER -> UNCHANGED <<query, strayed>>
  /\ UNCHANGED <<threads, unpinned, registered, extraInfo, nextObjectId,
                 objectRegistry>>

(* runTask, called by the program itself before runAllTasks or getResult;  *)
(* in the other states it reports and changes nothing.                     *)
RunOneTask(q) ==
  /\ query[q].at = "pending"
  /\ PendingState(q) = "RESULT_NOT_READY"
  /\ RunTask(q, "caller")
  /\ UNCHANGED <<threads, unpinned, registered, extraInfo, nextObjectId,
                 objectRegistry>>

(* A task of a stream is run, or waited for, to have rows to hand out; if  *)
(* it fails the query ends at the given place.                             *)
RunForRows(q, place) ==
  \E outcome \in Outcomes, thread \in {"caller", "worker"} :
    /\ CanRun(q, thread)
    /\ Work(q, thread, outcome, [Without(q, thread) EXCEPT !.at = "streaming"],
            EndedAs(place, FALSE))

(* execute_pending throws what libduckdb reports.  It runs whatever tasks  *)
(* are left and waits for the workers, or, of a stream, runs tasks until   *)
(* there is something to hand out.                                         *)
GetResult(q) ==
  /\ query[q].at \in {"pending", "ready"}
  /\ \/ PendingState(q) = "ERROR" /\ Leave(q, "failed")
     \/ /\ PendingState(q) = "RESULT_READY"
        /\ Leave(q, IF query[q].streaming THEN "streaming" ELSE "done")
     \/ /\ PendingState(q) \in {"RESULT_NOT_READY", "NO_TASKS_AVAILABLE"}
        /\ ~query[q].streaming
        /\ \E outcome \in Outcomes,
              thread \in {"caller"} \cup (IF threads = "many" THEN {"worker"} ELSE {}) :
             Work(q, thread, outcome, EndedAs("done", FALSE), EndedAs("failed", FALSE))
     \/ /\ PendingState(q) \in {"RESULT_NOT_READY", "NO_TASKS_AVAILABLE"}
        /\ query[q].streaming
        /\ RunForRows(q, "failed")
  /\ UNCHANGED <<threads, unpinned, registered, extraInfo, nextObjectId,
                 objectRegistry>>

(* fetch_chunk of a stream runs another task for the next rows.  It        *)
(* returns null when there are no more and also when libduckdb reports an  *)
(* error or has closed the query: the program sees the end of the rows.    *)
FetchChunk(q) ==
  /\ query[q].at = "streaming"
  /\ \/ query[q].failing /\ Leave(q, "cut")
     \/ ~query[q].failing /\ RunForRows(q, "cut")
     \/ /\ ~query[q].failing /\ query[q].queued = 0 /\ query[q].held = 0
        /\ Leave(q, "done")
  /\ UNCHANGED <<threads, unpinned, registered, extraInfo, nextObjectId,
                 objectRegistry>>

-----------------------------------------------------------------------------
Next ==
  \/ \E f \in Funs : SetExtraInfo(f)
  \/ \E f \in Funs, c \in Conns : Register(f, c)
  \/ \E c \in Conns : SetThreads(c)
  \/ \E q \in Queries, c \in Conns, f \in Funs : Prepare(q, c, f)
  \/ \E q \in Queries : Start(q)
  \/ \E q \in Queries : StartRefused(q)
  \/ \E q \in Queries : WorkerTakes(q)
  \/ \E q \in Queries : WorkerRuns(q)
  \/ \E q \in Queries : RunAllTasks(q)
  \/ \E q \in Queries : RunOneTask(q)
  \/ \E q \in Queries : Poll(q)
  \/ \E q \in Queries : GetResult(q)
  \/ \E q \in Queries : FetchChunk(q)
  \/ \E q \in Queries : TaskFails(q)
  \/ \E c \in Conns : Interrupt(c)

(* runAllTasks sleeps on a timer that fires, and libduckdb's workers go on *)
(* with the task they hold; nothing else is promised.                      *)
Spec == Init /\ [][Next]_vars
          /\ \A q \in Queries : WF_vars(Poll(q)) /\ WF_vars(WorkerRuns(q))

-----------------------------------------------------------------------------
QueryRecords ==
  [at : Places, conn : Conns \cup {None}, fun : Funs \cup {None}, plan : 0..2,
   streaming : BOOLEAN, buffered : BOOLEAN, bindData : Ids,
   queued : 0..MaxTasks, held : 0..MaxTasks, threw : BOOLEAN, failing : BOOLEAN]

(* The type of every variable.                                             *)
TypeOK ==
  /\ threads \in {"many", "one"}
  /\ unpinned \in BOOLEAN
  /\ registered \subseteq Funs
  /\ extraInfo \in [Funs -> Ids]
  /\ nextObjectId \in 1 .. MaxObjects + 1
  /\ objectRegistry \in [1..MaxObjects -> Objects \cup {None}]
  /\ query \in [Queries -> QueryRecords]
  /\ strayed \in BOOLEAN

(* A main callback sees the objects its own statement's bind callback and  *)
(* its own function stored, and undefined where nothing was stored,        *)
(* whatever was stored, planned and registered in between.                 *)
MainSeesOwnObjects ==
  \A q \in Queries : Active(q) =>
    LET plan == query[q].plan
        f == query[q].fun
    IN  MainSees(q) =
          [bindData  |-> IF query[q].bindData = 0 THEN None
                         ELSE [kind |-> "bind", of |-> q, plan |-> plan],
           extraInfo |-> IF extraInfo[f] = 0 THEN None ELSE [kind |-> "extra", of |-> f]]

(* A callback runs on a worker thread only if SET threads=1 failed after   *)
(* registering, or the program changed the setting afterwards.             *)
CallbacksOnTheCallersThread ==
  ~strayed

(* The rows of a query one of whose callbacks threw are never all          *)
(* delivered as if nothing had happened: with start the query fails, in    *)
(* whatever task and on whatever thread it was ("Thrown JS errors are      *)
(* converted to duckdb errors", scalar.ts).  Of a stream that the program  *)
(* already has nothing but its end tells.                                  *)
ThrownIsNotDelivered ==
  \A q \in Queries :
    query[q].threw =>
      /\ query[q].at \notin {"prepared", "done"}
      /\ query[q].at \in {"ready", "streaming"} => query[q].streaming

(* runAllTasks ends, with the result ready or by throwing, even when the   *)
(* query is closed by another call or fails on a worker while it sleeps.   *)
RunAllTasksEnds ==
  \A q \in Queries : query[q].at = "polling" ~> query[q].at \in {"ready", "failed"}
=============================================================================
