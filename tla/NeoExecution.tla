---------------------------- MODULE NeoExecution ----------------------------
(***************************************************************************)
(* The asynchronous methods of one DuckDBConnection: run, stream and start *)
(* (and the ...AndRead forms, which call them first).  Each call is a task.*)
(* The event loop runs one task at a time, from one await to the next, so  *)
(* an action is the code between two awaits; other tasks, and closeSync,   *)
(* may run in between.  Without values, run hands the whole text to        *)
(* duckdb_query in one call.  Otherwise the text is split, every statement *)
(* but the last is prepared, run and destroyed in turn (runUntilLast), and *)
(* the last is prepared, bound, run and destroyed by the method itself.    *)
(*                                                                         *)
(* Handles are abstracted to what NeoHandles shows of them while addresses *)
(* are fresh: a statement is live from its prepare to its destroy, and the *)
(* second destroy of a statement does nothing.  A native call on something *)
(* that is gone is undefined behaviour: it is recorded in fault, and the   *)
(* model stops there.                                                      *)
(***************************************************************************)
EXTENDS Naturals, Sequences

CONSTANTS
  Tasks,          \* calls of run, stream, start... on the connection
  MaxStatements   \* bound on the number of statements in one SQL text

ASSUME MaxAssumption == MaxStatements \in Nat \ {0}

VARIABLES
  connOpen,        \* the native connection exists
  pc,              \* where each task is suspended
  method,          \* the method each task is a call of
  count,           \* the number of statements in each task's SQL text
  at,              \* the statement each task is working on, from 0
  live,            \* <<task, index>>: the prepared statements that exist
  preparedStatements, \* <<task, index>>: the collection of weak references
  executed,        \* the statements each task has run, in order
  failed,          \* whether the last of them raised an error
  closedInFlight,  \* history: the tasks that were running at a closeSync
  fault            \* the task and call that met freed memory, if any

vars == <<connOpen, pc, method, count, at, live, preparedStatements, executed,
          failed, closedInFlight, fault>>

-----------------------------------------------------------------------------
Methods == {"run", "stream", "start"}

Settled == {"done", "failed"}

Places == {"idle", "extracted", "preparing", "registered", "executed"} \cup Settled

NoFault == <<>>

Running == fault = NoFault

InFlight(t) == pc[t] \notin {"idle"} \cup Settled

Last(t) == at[t] = count[t] - 1

Current(t) == <<t, at[t]>>

Goto(t, place) == pc' = [pc EXCEPT ![t] = place]

Init ==
  /\ connOpen = TRUE
  /\ pc = [t \in Tasks |-> "idle"]
  /\ method = [t \in Tasks |-> "run"]
  /\ count = [t \in Tasks |-> 1]
  /\ at = [t \in Tasks |-> 0]
  /\ live = {}
  /\ preparedStatements = {}
  /\ executed = [t \in Tasks |-> <<>>]
  /\ failed = [t \in Tasks |-> FALSE]
  /\ closedInFlight = {}
  /\ fault = NoFault

(* run(sql): duckdb_query runs the statements up to the first error, none  *)
(* if the text does not parse.  On a connection that is not live the       *)
(* binding throws.                                                         *)
RunQuery(t) ==
  /\ Running /\ pc[t] = "idle"
  /\ \/ /\ connOpen
        /\ \E n \in 1..MaxStatements, err \in BOOLEAN : \E k \in 0..n :
             /\ err \/ k = n
             /\ count' = [count EXCEPT ![t] = n]
             /\ executed' = [executed EXCEPT ![t] = [j \in 1..k |-> j - 1]]
             /\ failed' = [failed EXCEPT ![t] = err]
             /\ Goto(t, IF err THEN "failed" ELSE "done")
     \/ /\ ~connOpen
        /\ Goto(t, "failed")
        /\ UNCHANGED <<count, executed, failed>>
  /\ UNCHANGED <<connOpen, method, at, live, preparedStatements,
                 closedInFlight, fault>>

(* run(sql, values), stream or start: the text is split at once, into at   *)
(* least one statement, or the task rejects.                               *)
Extract(t) ==
  /\ Running /\ pc[t] = "idle" /\ connOpen
  /\ \/ /\ \E m \in Methods, n \in 1..MaxStatements :
             /\ method' = [method EXCEPT ![t] = m]
             /\ count' = [count EXCEPT ![t] = n]
        /\ Goto(t, "extracted")
     \/ Goto(t, "failed") /\ UNCHANGED <<method, count>>
  /\ UNCHANGED <<connOpen, at, live, preparedStatements, executed, failed,
                 closedInFlight, fault>>

(* Once the statement the task has finished with, if any, is destroyed,    *)
(* statement i is prepared; if that fails the task rejects.                *)
DestroyThenPrepare(t, destroyed, i) ==
  \/ /\ live' = (live \ destroyed) \cup {<<t, i>>}
     /\ at' = [at EXCEPT ![t] = i]
     /\ Goto(t, "preparing")
  \/ /\ live' = live \ destroyed
     /\ Goto(t, "failed")
     /\ UNCHANGED at

PrepareFirst(t) ==
  /\ Running /\ pc[t] = "extracted" /\ connOpen
  /\ DestroyThenPrepare(t, {}, 0)
  /\ UNCHANGED <<connOpen, method, count, preparedStatements, executed, failed,
                 closedInFlight, fault>>

(* DuckDBExtractedStatements.prepare resumes and adds the new wrapper to   *)
(* the connection's collection.                                            *)
Register(t) ==
  /\ Running /\ pc[t] = "preparing"
  /\ preparedStatements' = preparedStatements \cup {Current(t)}
  /\ Goto(t, "registered")
  /\ UNCHANGED <<connOpen, method, count, at, live, executed, failed,
                 closedInFlight, fault>>

Records(t, err) ==
  /\ executed' = [executed EXCEPT ![t] = Append(@, at[t])]
  /\ failed' = [failed EXCEPT ![t] = err]

(* The statement is run or streamed, with or without an error; the caller  *)
(* awaits either way.                                                      *)
Execute(t) ==
  /\ Running /\ pc[t] = "registered" /\ Current(t) \in live
  /\ ~(Last(t) /\ method[t] = "start")
  /\ \E err \in BOOLEAN : Records(t, err)
  /\ Goto(t, "executed")
  /\ UNCHANGED <<connOpen, method, count, at, live, preparedStatements,
                 closedInFlight, fault>>

(* start: the last statement becomes a pending result, and is destroyed    *)
(* before anything else runs.                                              *)
StartPending(t) ==
  /\ Running /\ pc[t] = "registered" /\ Current(t) \in live
  /\ Last(t) /\ method[t] = "start"
  /\ \E err \in BOOLEAN : /\ Records(t, err)
                          /\ Goto(t, IF err THEN "failed" ELSE "done")
  /\ live' = live \ {Current(t)}
  /\ UNCHANGED <<connOpen, method, count, at, preparedStatements,
                 closedInFlight, fault>>

(* Binding a value of the last statement throws in JavaScript; the finally *)
(* block destroys the statement.                                           *)
BindThrows(t) ==
  /\ Running /\ pc[t] = "registered" /\ Last(t)
  /\ live' = live \ {Current(t)}
  /\ Goto(t, "failed")
  /\ UNCHANGED <<connOpen, method, count, at, preparedStatements, executed,
                 failed, closedInFlight, fault>>

(* Mutant: settling empties the whole collection, other tasks' statements  *)
(* included.                                                               *)
DestroyAllAfterExecute(t) ==
  /\ Running /\ pc[t] = "executed" /\ ~failed[t] /\ Last(t)
  /\ live' = live \ preparedStatements
  /\ Goto(t, "done")
  /\ UNCHANGED <<connOpen, method, count, at, preparedStatements, executed,
                 failed, closedInFlight, fault>>

(* Mutant: the statements after the first are forgotten.                   *)
SkipAfterExecute(t) ==
  /\ Running /\ pc[t] = "executed" /\ ~failed[t]
  /\ live' = live \ {Current(t)}
  /\ Goto(t, "done")
  /\ UNCHANGED <<connOpen, method, count, at, preparedStatements, executed,
                 failed, closedInFlight, fault>>

(* Back from the await of a statement that succeeded: it is destroyed, and *)
(* the next one, if there is one, is prepared at once.                     *)
AfterExecute(t) ==
  /\ Running /\ pc[t] = "executed" /\ ~failed[t]
  /\ \/ /\ Last(t)
        /\ live' = live \ {Current(t)}
        /\ Goto(t, "done")
        /\ UNCHANGED at
     \/ /\ ~Last(t) /\ connOpen
        /\ DestroyThenPrepare(t, {Current(t)}, at[t] + 1)
  /\ UNCHANGED <<connOpen, method, count, preparedStatements, executed, failed,
                 closedInFlight, fault>>

(* Mutant: the finally block is missing.                                   *)
NoFinallyAfterFailure(t) ==
  /\ Running /\ pc[t] = "executed" /\ failed[t]
  /\ Goto(t, "failed")
  /\ UNCHANGED <<connOpen, method, count, at, live, preparedStatements,
                 executed, failed, closedInFlight, fault>>

(* Mutant: an error in a statement before the last is swallowed.           *)
SwallowedFailure(t) ==
  /\ Running /\ pc[t] = "executed" /\ failed[t] /\ Last(t)
  /\ live' = live \ {Current(t)}
  /\ Goto(t, "failed")
  /\ UNCHANGED <<connOpen, method, count, at, preparedStatements, executed,
                 failed, closedInFlight, fault>>

(* Back from the await of a statement that failed: it is destroyed, and    *)
(* the error leaves the task.                                              *)
AfterFailure(t) ==
  /\ Running /\ pc[t] = "executed" /\ failed[t]
  /\ live' = live \ {Current(t)}
  /\ Goto(t, "failed")
  /\ UNCHANGED <<connOpen, method, count, at, preparedStatements, executed,
                 failed, closedInFlight, fault>>

(* closeSync, called by the program between two awaits, and perhaps again. *)
CloseSync ==
  /\ Running
  /\ connOpen \/ preparedStatements # {}
  /\ connOpen' = FALSE
  /\ live' = live \ preparedStatements
  /\ preparedStatements' = {}
  /\ closedInFlight' = closedInFlight \cup {t \in Tasks : InFlight(t)}
  /\ UNCHANGED <<pc, method, count, at, executed, failed, fault>>

(* The unguarded call a task is about to make meets something freed.       *)
DanglingCall(t) ==
  /\ Running
  /\ \E call \in {"extract_statements", "prepare_extracted_statement",
                  "execute_prepared"} :
       /\ \/ call = "extract_statements" /\ pc[t] = "idle" /\ ~connOpen
          \/ /\ call = "prepare_extracted_statement" /\ ~connOpen
             /\ \/ pc[t] = "extracted"
                \/ pc[t] = "executed" /\ ~failed[t] /\ ~Last(t)
          \/ /\ call = "execute_prepared"
             /\ pc[t] = "registered" /\ Current(t) \notin live
       /\ fault' = <<t, call>>
  /\ UNCHANGED <<connOpen, pc, method, count, at, live, preparedStatements,
                 executed, failed, closedInFlight>>

Resume(t) ==
  \/ PrepareFirst(t) \/ Register(t) \/ Execute(t) \/ StartPending(t)
  \/ BindThrows(t) \/ AfterExecute(t) \/ AfterFailure(t)
  \/ InFlight(t) /\ DanglingCall(t)

Next ==
  \/ \E t \in Tasks : \/ RunQuery(t) \/ Extract(t)
                      \/ PrepareFirst(t) \/ Register(t)
                      \/ Execute(t) \/ StartPending(t) \/ BindThrows(t)
                      \/ AfterExecute(t) \/ AfterFailure(t)
                      \/ DanglingCall(t)
  \/ CloseSync

Spec == Init /\ [][Next]_vars

(* The event loop drains its microtasks: a suspended task is resumed.      *)
FairSpec == Spec /\ \A t \in Tasks : WF_vars(Resume(t))

-----------------------------------------------------------------------------
Statements == Tasks \X (0..MaxStatements - 1)

(* The variables have the types their declarations say.                    *)
TypeOK ==
  /\ connOpen \in BOOLEAN
  /\ pc \in [Tasks -> Places]
  /\ method \in [Tasks -> Methods]
  /\ count \in [Tasks -> 1..MaxStatements]
  /\ at \in [Tasks -> 0..MaxStatements - 1]
  /\ live \subseteq Statements
  /\ preparedStatements \subseteq Statements
  /\ executed \in [Tasks -> Seq(0..MaxStatements - 1)]
  /\ failed \in [Tasks -> BOOLEAN]
  /\ closedInFlight \subseteq Tasks
  /\ fault \in {NoFault} \cup
       (Tasks \X {"extract_statements", "prepare_extracted_statement",
                  "execute_prepared"})

(* A task has at most one native statement, the one it is working on, and  *)
(* none once it has settled, whichever way: finally blocks, errors and     *)
(* closes that overtake the task leave no prepared statement behind.       *)
SettledTasksLeaveNothing ==
  \A s \in live : /\ InFlight(s[1])
                  /\ s = Current(s[1])

(* A task runs the statements of its text in order, each once, stops at    *)
(* the first error, rejects if there was one, and resolves only if it ran  *)
(* them all.                                                               *)
ScriptRunsInOrder ==
  \A t \in Tasks :
    /\ \A j \in DOMAIN executed[t] : executed[t][j] = j - 1
    /\ failed[t] => pc[t] \in {"executed", "failed"}
    /\ pc[t] = "done" => Len(executed[t]) = count[t]

(* A task touches freed memory only if the program closed the connection   *)
(* while that task was running, or called the method after the close: the  *)
(* methods never take each other's statements away.                        *)
FaultsNeedAnEarlyClose ==
  fault # NoFault =>
    /\ ~connOpen
    /\ fault[1] \in closedInFlight \/ fault[2] = "extract_statements"

(* Every promise the connection hands out settles, unless the task meets   *)
(* freed memory, after which nothing is promised.                          *)
EveryCallSettles ==
  \A t \in Tasks : InFlight(t) ~> (pc[t] \in Settled \/ fault # NoFault)
=============================================================================
