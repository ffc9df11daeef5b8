------------------------- MODULE NeoExecutionProofs -------------------------
(***************************************************************************)
(* Theorems about NeoExecution, for any number of overlapping calls and    *)
(* any number of statements in a text.                                     *)
(***************************************************************************)
EXTENDS NeoExecution, TLAPS

(* The native statements are those of tasks between prepare and destroy:   *)
(* SettledTasksLeaveNothing with the awaits told apart.                    *)
LiveInv ==
  \A s \in live : /\ pc[s[1]] \in {"preparing", "registered", "executed"}
                  /\ s = Current(s[1])

(* How far task t has come at each await.                                  *)
Progress(t) ==
  /\ at[t] < count[t]
  /\ pc[t] = "idle" => ~failed[t] /\ at[t] = 0 /\ executed[t] = <<>>
  /\ pc[t] = "extracted" => ~failed[t] /\ at[t] = 0 /\ executed[t] = <<>>
  /\ pc[t] \in {"preparing", "registered"} =>
       ~failed[t] /\ Len(executed[t]) = at[t]
  /\ pc[t] = "executed" => Len(executed[t]) = at[t] + 1
  /\ pc[t] = "done" => ~failed[t] /\ Len(executed[t]) = count[t]
  /\ \A j \in 1..Len(executed[t]) : executed[t][j] = j - 1

ProgressInv == \A t \in Tasks : Progress(t)

IInv == TypeOK /\ LiveInv /\ ProgressInv

LEMMA InitIInv == Init => IInv
  BY MaxAssumption
     DEF Init, IInv, TypeOK, LiveInv, ProgressInv, Progress, Places, Settled, Methods,
         NoFault, Statements

(* Appending the next index keeps a record of a run in order.              *)
LEMMA AppendInOrder ==
  ASSUME NEW k \in Nat, NEW S, k \in S, NEW e \in Seq(S), Len(e) = k,
         \A j \in 1..Len(e) : e[j] = j - 1
  PROVE  /\ Append(e, k) \in Seq(S)
         /\ Len(Append(e, k)) = k + 1
         /\ \A j \in 1..k + 1 : Append(e, k)[j] = j - 1
<1>1. /\ Append(e, k) \in Seq(S)
      /\ Len(Append(e, k)) = k + 1
      /\ \A j \in 1..k : Append(e, k)[j] = e[j]
      /\ Append(e, k)[k + 1] = k
  OBVIOUS
<1> DEFINE f == Append(e, k)
<1> HIDE DEF f
<1>2. \A j \in 1..k + 1 : f[j] = j - 1
  BY <1>1 DEF f
<1> QED
  BY <1>1, <1>2 DEF f

-----------------------------------------------------------------------------
(* A step of task t disturbs nothing that the invariant says of the others. *)
LEMMA OtherTasks ==
  ASSUME IInv, TypeOK', NEW t \in Tasks,
         \A u \in Tasks \ {t} : /\ pc'[u] = pc[u]
                                 /\ count'[u] = count[u]
                                 /\ at'[u] = at[u]
                                 /\ executed'[u] = executed[u]
                                 /\ failed'[u] = failed[u],
         \A s \in live' : s[1] # t => s \in live,
         \A s \in live' : s[1] = t =>
           /\ pc'[t] \in {"preparing", "registered", "executed"}
           /\ s = <<t, at'[t]>>,
         Progress(t)'
  PROVE  IInv'
<1>1. LiveInv'
  <2> SUFFICES ASSUME NEW s \in live'
               PROVE  /\ pc'[s[1]] \in {"preparing", "registered", "executed"}
                      /\ s = <<s[1], at'[s[1]]>>
    BY DEF LiveInv, Current
  <2>1. CASE s[1] = t
    BY <2>1
  <2>2. CASE s[1] # t
    <3>1. s \in live /\ s[1] \in Tasks \ {t}
      BY <2>2 DEF TypeOK, Statements
    <3> QED
      BY <3>1 DEF IInv, LiveInv, Current
  <2> QED
    BY <2>1, <2>2
<1>2. ProgressInv'
  <2> SUFFICES ASSUME NEW u \in Tasks PROVE Progress(u)'
    BY DEF ProgressInv
  <2>1. CASE u = t
    BY <2>1
  <2>2. CASE u # t
    <3>1. Progress(u)
      BY DEF IInv, ProgressInv
    <3> QED
      BY <2>2, <3>1 DEF Progress
  <2> QED
    BY <2>1, <2>2
<1> QED
  BY <1>1, <1>2 DEF IInv

(* The record of a task that has just executed its statement.              *)
LEMMA RecordInOrder ==
  ASSUME IInv, NEW t \in Tasks, NEW err \in BOOLEAN, Records(t, err),
         pc[t] = "registered"
  PROVE  /\ executed' \in [Tasks -> Seq(0..MaxStatements - 1)]
         /\ failed' = [failed EXCEPT ![t] = err]
         /\ Len(executed'[t]) = at[t] + 1
         /\ \A j \in 1..Len(executed'[t]) : executed'[t][j] = j - 1
         /\ \A u \in Tasks \ {t} : executed'[u] = executed[u]
<1>1. /\ executed[t] \in Seq(0..MaxStatements - 1)
      /\ at[t] \in Nat /\ at[t] \in 0..MaxStatements - 1
  BY MaxAssumption DEF IInv, TypeOK
<1>2. /\ Len(executed[t]) = at[t]
      /\ \A j \in 1..Len(executed[t]) : executed[t][j] = j - 1
  BY DEF IInv, ProgressInv, Progress
<1> DEFINE f == Append(executed[t], at[t])
<1>3. /\ f \in Seq(0..MaxStatements - 1) /\ Len(f) = at[t] + 1
      /\ \A j \in 1..at[t] + 1 : f[j] = j - 1
  BY <1>1, <1>2, AppendInOrder
<1>4. executed' = [executed EXCEPT ![t] = f] /\ failed' = [failed EXCEPT ![t] = err]
  BY DEF Records
<1> HIDE DEF f
<1> QED
  BY <1>3, <1>4 DEF IInv, TypeOK

-----------------------------------------------------------------------------
LEMMA StepIInv == IInv /\ [Next]_vars => IInv'
<1> SUFFICES ASSUME IInv, [Next]_vars PROVE IInv'
  OBVIOUS
<1> USE MaxAssumption DEF Goto
<1>t. TypeOK /\ LiveInv /\ ProgressInv
  BY DEF IInv
<1>0. CASE UNCHANGED vars
  BY <1>0 DEF vars, IInv, TypeOK, LiveInv, ProgressInv, Progress, Current
<1>1. ASSUME NEW t \in Tasks, RunQuery(t) PROVE IInv'
  <2>0. UNCHANGED <<connOpen, method, at, live, preparedStatements,
                    closedInFlight, fault>> /\ pc[t] = "idle"
    BY <1>1 DEF RunQuery
  <2>p. Progress(t) /\ at[t] = 0
    BY <1>t, <2>0 DEF ProgressInv, Progress
  <2>l. \A s \in live : s[1] # t
    BY <1>t, <2>0 DEF LiveInv
  <2>1. CASE ~connOpen
    <3>1. pc' = [pc EXCEPT ![t] = "failed"] /\ UNCHANGED <<count, executed, failed>>
      BY <1>1, <2>1 DEF RunQuery
    <3>2. TypeOK'
      BY <1>t, <2>0, <3>1 DEF TypeOK, Places, Settled
    <3>3. Progress(t)'
      BY <1>t, <2>0, <2>p, <3>1 DEF TypeOK, Progress
    <3> QED
      BY <1>t, <2>0, <2>l, <3>1, <3>2, <3>3, OtherTasks DEF TypeOK
  <2>2. CASE connOpen
    <3>0. PICK n \in 1..MaxStatements, err \in BOOLEAN :
             \E k \in 0..n :
               /\ err \/ k = n
               /\ count' = [count EXCEPT ![t] = n]
               /\ executed' = [executed EXCEPT ![t] = [j \in 1..k |-> j - 1]]
               /\ failed' = [failed EXCEPT ![t] = err]
               /\ pc' = [pc EXCEPT ![t] = IF err THEN "failed" ELSE "done"]
      BY <1>1, <2>2 DEF RunQuery
    <3>1. PICK k \in 0..n :
             /\ err \/ k = n
             /\ count' = [count EXCEPT ![t] = n]
             /\ executed' = [executed EXCEPT ![t] = [j \in 1..k |-> j - 1]]
             /\ failed' = [failed EXCEPT ![t] = err]
             /\ pc' = [pc EXCEPT ![t] = IF err THEN "failed" ELSE "done"]
      BY <3>0
    <3> DEFINE e == [j \in 1..k |-> j - 1]
    <3>2. e \in Seq(0..MaxStatements - 1) /\ Len(e) = k
      OBVIOUS
    <3>3. \A j \in 1..k : e[j] = j - 1
      OBVIOUS
    <3>4. executed' = [executed EXCEPT ![t] = e]
      BY <3>1
    <3> HIDE DEF e
    <3>5. TypeOK'
      BY <1>t, <2>0, <3>1, <3>2, <3>4 DEF TypeOK, Places, Settled
    <3>6. Progress(t)'
      BY <1>t, <2>0, <2>p, <3>1, <3>2, <3>3, <3>4 DEF TypeOK, Progress
    <3> QED
      BY <1>t, <2>0, <2>l, <3>1, <3>4, <3>5, <3>6, OtherTasks DEF TypeOK
  <2> QED
    BY <2>1, <2>2
<1>2. ASSUME NEW t \in Tasks, Extract(t) PROVE IInv'
  <2>0. /\ pc[t] = "idle"
        /\ UNCHANGED <<connOpen, at, live, preparedStatements, executed, failed,
                       closedInFlight, fault>>
    BY <1>2 DEF Extract
  <2>p. Progress(t) /\ ~failed[t] /\ at[t] = 0 /\ executed[t] = <<>>
    BY <1>t, <2>0 DEF ProgressInv, Progress
  <2>l. \A s \in live : s[1] # t
    BY <1>t, <2>0 DEF LiveInv
  <2>1. PICK c \in 1..MaxStatements, m \in Methods, place \in {"extracted", "failed"} :
          /\ count' = [count EXCEPT ![t] = c]
          /\ method' = [method EXCEPT ![t] = m]
          /\ pc' = [pc EXCEPT ![t] = place]
    <3>1. /\ count = [count EXCEPT ![t] = count[t]] /\ count[t] \in 1..MaxStatements
          /\ method = [method EXCEPT ![t] = method[t]] /\ method[t] \in Methods
      BY <1>t DEF TypeOK
    <3> QED
      BY <1>2, <3>1 DEF Extract
  <2>2. TypeOK'
    BY <1>t, <2>0, <2>1 DEF TypeOK, Places, Settled
  <2>3. Progress(t)'
    BY <1>t, <2>0, <2>1, <2>p DEF TypeOK, Progress
  <2> QED
    BY <1>t, <2>0, <2>l, <2>1, <2>2, <2>3, OtherTasks DEF TypeOK
(* A step that destroys the statement t has finished with, and prepares    *)
(* statement i or fails to.                                                *)
<1>d. ASSUME NEW t \in Tasks, NEW gone, NEW i \in 0..MaxStatements - 1,
             DestroyThenPrepare(t, gone, i),
             \A s \in live \ gone : s[1] # t,
             i < count[t], ~failed[t], Len(executed[t]) = i,
             UNCHANGED <<connOpen, method, count, preparedStatements, executed,
                         failed, closedInFlight, fault>>
      PROVE  IInv'
  <2>1. CASE /\ live' = (live \ gone) \cup {<<t, i>>}
             /\ at' = [at EXCEPT ![t] = i]
             /\ pc' = [pc EXCEPT ![t] = "preparing"]
    <3>1. TypeOK'
      BY <1>t, <1>d, <2>1 DEF TypeOK, Places, Statements
    <3>2. Progress(t)'
      BY <1>t, <1>d, <2>1 DEF TypeOK, ProgressInv, Progress
    <3>3. \A u \in Tasks \ {t} : /\ pc'[u] = pc[u] /\ at'[u] = at[u]
                                  /\ count'[u] = count[u]
                                  /\ executed'[u] = executed[u]
                                  /\ failed'[u] = failed[u]
      BY <1>t, <1>d, <2>1 DEF TypeOK
    <3>4. pc'[t] = "preparing" /\ at'[t] = i
      BY <1>t, <2>1 DEF TypeOK
    <3>5. \A s \in live' : IF s[1] = t THEN s = <<t, i>> ELSE s \in live
      BY <1>d, <2>1
    <3> QED
      BY <3>1, <3>2, <3>3, <3>4, <3>5, OtherTasks
  <2>2. CASE /\ live' = live \ gone
             /\ pc' = [pc EXCEPT ![t] = "failed"]
             /\ UNCHANGED at
    <3>1. TypeOK'
      BY <1>t, <1>d, <2>2 DEF TypeOK, Places, Settled
    <3>2. Progress(t)'
      BY <1>t, <1>d, <2>2 DEF TypeOK, ProgressInv, Progress
    <3> QED
      BY <1>t, <1>d, <2>2, <3>1, <3>2, OtherTasks DEF TypeOK
  <2> QED
    BY <1>d, <2>1, <2>2 DEF DestroyThenPrepare
<1>3. ASSUME NEW t \in Tasks, PrepareFirst(t) PROVE IInv'
  <2>1. /\ pc[t] = "extracted" /\ DestroyThenPrepare(t, {}, 0)
        /\ UNCHANGED <<connOpen, method, count, preparedStatements, executed,
                       failed, closedInFlight, fault>>
    BY <1>3 DEF PrepareFirst
  <2>2. /\ 0 < count[t] /\ ~failed[t] /\ Len(executed[t]) = 0
        /\ 0 \in 0..MaxStatements - 1
    BY <1>t, <2>1 DEF TypeOK, ProgressInv, Progress
  <2>3. \A s \in live \ {} : s[1] # t
    BY <1>t, <2>1 DEF LiveInv
  <2> QED
    BY <1>d, <2>1, <2>2, <2>3
<1>4. ASSUME NEW t \in Tasks, Register(t) PROVE IInv'
  <2>1. /\ pc[t] = "preparing" /\ pc' = [pc EXCEPT ![t] = "registered"]
        /\ preparedStatements' = preparedStatements \cup {<<t, at[t]>>}
        /\ UNCHANGED <<connOpen, method, count, at, live, executed, failed,
                       closedInFlight, fault>>
    BY <1>4 DEF Register, Current
  <2>2. TypeOK'
    BY <1>t, <2>1 DEF TypeOK, Places, Statements
  <2>3. Progress(t)'
    BY <1>t, <2>1 DEF TypeOK, ProgressInv, Progress
  <2> QED
    BY <1>t, <2>1, <2>2, <2>3, OtherTasks DEF TypeOK, LiveInv, Current
<1>6. ASSUME NEW t \in Tasks, Execute(t) PROVE IInv'
  <2>1. PICK err \in BOOLEAN : Records(t, err)
    BY <1>6 DEF Execute
  <2>2. /\ pc[t] = "registered" /\ pc' = [pc EXCEPT ![t] = "executed"]
        /\ UNCHANGED <<connOpen, method, count, at, live, preparedStatements,
                       closedInFlight, fault>>
    BY <1>6 DEF Execute
  <2>3. /\ executed' \in [Tasks -> Seq(0..MaxStatements - 1)]
        /\ failed' = [failed EXCEPT ![t] = err]
        /\ Len(executed'[t]) = at[t] + 1
        /\ \A j \in 1..Len(executed'[t]) : executed'[t][j] = j - 1
        /\ \A u \in Tasks \ {t} : executed'[u] = executed[u]
    BY <2>1, <2>2, RecordInOrder
  <2>4. TypeOK'
    BY <1>t, <2>2, <2>3 DEF TypeOK, Places
  <2>5. Progress(t)'
    BY <1>t, <2>2, <2>3 DEF TypeOK, ProgressInv, Progress
  <2> QED
    BY <1>t, <2>2, <2>3, <2>4, <2>5, OtherTasks DEF TypeOK, LiveInv, Current
(* A step that destroys t's own statement and settles t.                   *)
<1>s. ASSUME NEW t \in Tasks, live' = live \ {Current(t)},
             pc' \in [Tasks -> Places],
             \A u \in Tasks \ {t} : /\ pc'[u] = pc[u]
                                     /\ executed'[u] = executed[u]
                                     /\ failed'[u] = failed[u],
             executed' \in [Tasks -> Seq(0..MaxStatements - 1)],
             failed' \in [Tasks -> BOOLEAN],
             pc'[t] = "failed" \/ (pc'[t] = "done" /\ ~failed'[t]
                                     /\ Len(executed'[t]) = count[t]),
             \A j \in 1..Len(executed'[t]) : executed'[t][j] = j - 1,
             UNCHANGED <<connOpen, method, count, at, preparedStatements,
                         closedInFlight, fault>>
      PROVE  IInv'
  <2>1. TypeOK'
    BY <1>t, <1>s DEF TypeOK
  <2>2. \A s \in live' : s[1] # t /\ s \in live
    BY <1>t, <1>s DEF LiveInv
  <2>3. Progress(t)'
    BY <1>t, <1>s DEF TypeOK, ProgressInv, Progress
  <2> QED
    BY <1>s, <2>1, <2>2, <2>3, OtherTasks
<1>7. ASSUME NEW t \in Tasks, StartPending(t) PROVE IInv'
  <2>1. PICK err \in BOOLEAN :
          Records(t, err) /\ pc' = [pc EXCEPT ![t] = IF err THEN "failed" ELSE "done"]
    BY <1>7 DEF StartPending
  <2>2. /\ pc[t] = "registered" /\ at[t] = count[t] - 1
        /\ live' = live \ {Current(t)}
        /\ UNCHANGED <<connOpen, method, count, at, preparedStatements,
                       closedInFlight, fault>>
    BY <1>7 DEF StartPending, Last
  <2>3. /\ executed' \in [Tasks -> Seq(0..MaxStatements - 1)]
        /\ failed' = [failed EXCEPT ![t] = err]
        /\ Len(executed'[t]) = at[t] + 1
        /\ \A j \in 1..Len(executed'[t]) : executed'[t][j] = j - 1
        /\ \A u \in Tasks \ {t} : executed'[u] = executed[u]
    BY <2>1, <2>2, RecordInOrder
  <2>4. at[t] + 1 = count[t]
    BY <1>t, <2>2 DEF TypeOK
  <2>5. failed' \in [Tasks -> BOOLEAN] /\ failed'[t] = err
    BY <1>t, <2>3 DEF TypeOK
  <2>6. pc' \in [Tasks -> Places] /\ pc'[t] = IF err THEN "failed" ELSE "done"
    BY <1>t, <2>1 DEF TypeOK, Places, Settled
  <2>7. \A u \in Tasks \ {t} : pc'[u] = pc[u] /\ failed'[u] = failed[u]
    BY <1>t, <2>1, <2>3 DEF TypeOK
  <2> QED
    BY <1>s, <2>2, <2>3, <2>4, <2>5, <2>6, <2>7
<1>8. ASSUME NEW t \in Tasks, BindThrows(t) \/ AfterFailure(t) PROVE IInv'
  <2>1. /\ live' = live \ {Current(t)} /\ pc' = [pc EXCEPT ![t] = "failed"]
        /\ UNCHANGED <<connOpen, method, count, at, preparedStatements,
                       executed, failed, closedInFlight, fault>>
    BY <1>8 DEF BindThrows, AfterFailure
  <2>2. \A j \in 1..Len(executed[t]) : executed[t][j] = j - 1
    BY <1>t DEF ProgressInv, Progress
  <2>3. pc' \in [Tasks -> Places]
    BY <1>t, <2>1 DEF TypeOK, Places, Settled
  <2> QED
    BY <1>t, <1>s, <2>1, <2>2, <2>3 DEF TypeOK
<1>9. ASSUME NEW t \in Tasks, AfterExecute(t) PROVE IInv'
  <2>0. /\ pc[t] = "executed" /\ ~failed[t]
        /\ UNCHANGED <<connOpen, method, count, preparedStatements, executed,
                       failed, closedInFlight, fault>>
    BY <1>9 DEF AfterExecute
  <2>p. /\ at[t] < count[t] /\ Len(executed[t]) = at[t] + 1
        /\ \A j \in 1..Len(executed[t]) : executed[t][j] = j - 1
    BY <1>t, <2>0 DEF ProgressInv, Progress
  <2>1. CASE Last(t)
    <3>1. /\ live' = live \ {Current(t)} /\ pc' = [pc EXCEPT ![t] = "done"]
          /\ at' = at
      BY <1>9, <2>1 DEF AfterExecute
    <3>2. pc' \in [Tasks -> Places]
      BY <1>t, <3>1 DEF TypeOK, Places, Settled
    <3>3. Len(executed[t]) = count[t]
      BY <1>t, <2>p, <2>1 DEF TypeOK, Last
    <3> QED
      BY <1>t, <1>s, <2>0, <2>p, <3>1, <3>2, <3>3 DEF TypeOK
  <2>2. CASE ~Last(t)
    <3>1. at[t] + 1 < count[t] /\ at[t] + 1 \in 0..MaxStatements - 1
      BY <1>t, <2>p, <2>2 DEF Last, TypeOK
    <3>2. DestroyThenPrepare(t, {Current(t)}, at[t] + 1)
      BY <1>9, <2>2 DEF AfterExecute
    <3>3. \A s \in live \ {Current(t)} : s[1] # t
      BY <1>t DEF LiveInv
    <3> QED
      BY <1>d, <2>0, <2>p, <3>1, <3>2, <3>3
  <2> QED
    BY <2>1, <2>2
<1>11. CASE CloseSync
  BY <1>11 DEF CloseSync, IInv, TypeOK, LiveInv, ProgressInv, Progress, Current,
               InFlight
<1>12. ASSUME NEW t \in Tasks, DanglingCall(t) PROVE IInv'
  BY <1>12 DEF DanglingCall, IInv, TypeOK, LiveInv, ProgressInv, Progress, Current
<1> QED
  BY <1>0, <1>1, <1>2, <1>3, <1>4, <1>6, <1>7, <1>8, <1>9, <1>11, <1>12 DEF Next

LEMMA Invariant == Spec => []IInv
<1>1. IInv /\ [Next]_vars => IInv'
  BY StepIInv
<1> QED
  BY InitIInv, <1>1, PTL DEF Spec

(* The variables keep their types.                                         *)
THEOREM TypeCorrect == Spec => []TypeOK
<1>1. IInv => TypeOK
  BY DEF IInv
<1> QED
  BY Invariant, <1>1, PTL

(* No native statement outlives its task, and no task has two.             *)
THEOREM NothingLeftBehind == Spec => []SettledTasksLeaveNothing
<1>1. IInv => SettledTasksLeaveNothing
  BY DEF IInv, LiveInv, SettledTasksLeaveNothing, InFlight, Settled
<1> QED
  BY Invariant, <1>1, PTL

(* The statements of a text run in order, once each, up to the first error.*)
THEOREM ScriptCorrect == Spec => []ScriptRunsInOrder
<1>1. IInv => ScriptRunsInOrder
  <2> SUFFICES ASSUME IInv, NEW t \in Tasks
               PROVE  /\ \A j \in DOMAIN executed[t] : executed[t][j] = j - 1
                      /\ failed[t] => pc[t] \in {"executed", "failed"}
                      /\ pc[t] = "done" => Len(executed[t]) = count[t]
    BY DEF ScriptRunsInOrder
  <2>1. executed[t] \in Seq(0..MaxStatements - 1) /\ pc[t] \in Places
    BY DEF IInv, TypeOK
  <2>p. Progress(t)
    BY DEF IInv, ProgressInv
  <2>2. DOMAIN executed[t] = 1..Len(executed[t])
    BY <2>1
  <2> QED
    BY <2>p, <2>1, <2>2 DEF Progress, Places, Settled
<1> QED
  BY Invariant, <1>1, PTL

-----------------------------------------------------------------------------
(* A running task has its statement, and an open connection, unless a      *)
(* closeSync overtook it; a fault is explained by the same.                *)
CloseInv ==
  /\ closedInFlight # {} => ~connOpen
  /\ \A t \in Tasks : InFlight(t) /\ ~connOpen => t \in closedInFlight
  /\ \A t \in Tasks :
       pc[t] \in {"preparing", "registered"} /\ Current(t) \notin live =>
         t \in closedInFlight
  /\ FaultsNeedAnEarlyClose

(* No step takes another task's statement away, closeSync aside.           *)
LEMMA StepCloseInv == IInv /\ CloseInv /\ [Next]_vars => CloseInv'
<1> SUFFICES ASSUME IInv, CloseInv, [Next]_vars PROVE CloseInv'
  OBVIOUS
<1> USE DEF Goto, InFlight, Settled, Current
<1>t. TypeOK
  BY DEF IInv
(* What the step of one task must show.                                    *)
<1>a. ASSUME NEW t \in Tasks,
             UNCHANGED <<connOpen, closedInFlight, fault>>,
             \A u \in Tasks \ {t} : pc'[u] = pc[u] /\ at'[u] = at[u],
             \A s \in live : s[1] # t => s \in live',
             pc'[t] \in {"done", "failed"} \/
               /\ connOpen \/ pc[t] \notin {"idle", "done", "failed"}
               /\ pc'[t] \in {"preparing", "registered"} =>
                    <<t, at'[t]>> \in live' \/ t \in closedInFlight
      PROVE  CloseInv'
  <2>1. \A u \in Tasks : InFlight(u)' /\ ~connOpen' => u \in closedInFlight'
    <3> SUFFICES ASSUME NEW u \in Tasks, InFlight(u)', ~connOpen'
                 PROVE u \in closedInFlight'
      OBVIOUS
    <3>1. CASE u = t
      BY <1>a, <3>1 DEF CloseInv
    <3>2. CASE u # t
      BY <1>a, <3>2 DEF CloseInv
    <3> QED
      BY <3>1, <3>2
  <2>2. \A u \in Tasks :
          pc'[u] \in {"preparing", "registered"} /\ <<u, at'[u]>> \notin live' =>
            u \in closedInFlight'
    <3> SUFFICES ASSUME NEW u \in Tasks, pc'[u] \in {"preparing", "registered"},
                        <<u, at'[u]>> \notin live'
                 PROVE u \in closedInFlight'
      OBVIOUS
    <3>1. CASE u = t
      BY <1>a, <3>1
    <3>2. CASE u # t
      BY <1>a, <3>2 DEF CloseInv
    <3> QED
      BY <3>1, <3>2
  <2>3. FaultsNeedAnEarlyClose'
    BY <1>a DEF CloseInv, FaultsNeedAnEarlyClose
  <2>4. closedInFlight' # {} => ~connOpen'
    BY <1>a DEF CloseInv
  <2> QED
    BY <2>1, <2>2, <2>3, <2>4 DEF CloseInv
<1>0. CASE UNCHANGED vars
  BY <1>0 DEF vars, CloseInv, FaultsNeedAnEarlyClose
<1>1. ASSUME NEW t \in Tasks, RunQuery(t) PROVE CloseInv'
  <2>1. /\ UNCHANGED <<connOpen, closedInFlight, fault, live, at>>
        /\ \E p \in {"done", "failed"} : pc' = [pc EXCEPT ![t] = p]
    BY <1>1 DEF RunQuery
  <2> QED
    BY <1>t, <1>a, <2>1 DEF TypeOK
<1>2. ASSUME NEW t \in Tasks, Extract(t) PROVE CloseInv'
  <2>1. /\ UNCHANGED <<connOpen, closedInFlight, fault, live, at>> /\ connOpen
        /\ \E p \in {"extracted", "failed"} : pc' = [pc EXCEPT ![t] = p]
    BY <1>2 DEF Extract
  <2> QED
    BY <1>t, <1>a, <2>1 DEF TypeOK
<1>d. ASSUME NEW t \in Tasks, NEW gone, NEW i, DestroyThenPrepare(t, gone, i),
             connOpen, \A s \in gone : s[1] = t,
             UNCHANGED <<connOpen, closedInFlight, fault>>
      PROVE  CloseInv'
  <2>1. CASE /\ live' = (live \ gone) \cup {<<t, i>>}
             /\ at' = [at EXCEPT ![t] = i]
             /\ pc' = [pc EXCEPT ![t] = "preparing"]
    BY <1>t, <1>a, <1>d, <2>1 DEF TypeOK
  <2>2. CASE /\ live' = live \ gone
             /\ pc' = [pc EXCEPT ![t] = "failed"]
             /\ UNCHANGED at
    BY <1>t, <1>a, <1>d, <2>2 DEF TypeOK
  <2> QED
    BY <1>d, <2>1, <2>2 DEF DestroyThenPrepare
<1>3. ASSUME NEW t \in Tasks, PrepareFirst(t) PROVE CloseInv'
  BY <1>3, <1>d DEF PrepareFirst
<1>4. ASSUME NEW t \in Tasks, Register(t) PROVE CloseInv'
  BY <1>4, <1>t, <1>a DEF Register, TypeOK, CloseInv
<1>6. ASSUME NEW t \in Tasks, Execute(t) PROVE CloseInv'
  BY <1>6, <1>t, <1>a DEF Execute, TypeOK
<1>s. ASSUME NEW t \in Tasks, live' = live \ {<<t, at[t]>>},
             UNCHANGED <<connOpen, closedInFlight, fault, at>>,
             \E p \in {"done", "failed"} : pc' = [pc EXCEPT ![t] = p]
      PROVE  CloseInv'
  <2>1. /\ \A u \in Tasks \ {t} : pc'[u] = pc[u] /\ at'[u] = at[u]
        /\ pc'[t] \in {"done", "failed"}
    BY <1>s, <1>t DEF TypeOK
  <2>2. \A s \in live : s[1] # t => s \in live'
    BY <1>s
  <2> QED
    BY <1>s, <1>a, <2>1, <2>2
<1>7. ASSUME NEW t \in Tasks, StartPending(t) PROVE CloseInv'
  <2>1. \E p \in {"done", "failed"} : pc' = [pc EXCEPT ![t] = p]
    BY <1>7 DEF StartPending
  <2> QED
    BY <1>7, <1>s, <2>1 DEF StartPending
<1>8. ASSUME NEW t \in Tasks, BindThrows(t) \/ AfterFailure(t) PROVE CloseInv'
  BY <1>8, <1>s DEF BindThrows, AfterFailure
<1>9. ASSUME NEW t \in Tasks, AfterExecute(t) PROVE CloseInv'
  <2>1. CASE Last(t)
    BY <1>9, <2>1, <1>s DEF AfterExecute
  <2>2. CASE ~Last(t)
    BY <1>9, <2>2, <1>d DEF AfterExecute
  <2> QED
    BY <2>1, <2>2
<1>11. CASE CloseSync
  <2>1. /\ ~connOpen' /\ fault = NoFault
        /\ closedInFlight' = closedInFlight \cup {t \in Tasks : InFlight(t)}
        /\ UNCHANGED <<pc, at, fault>>
    BY <1>11 DEF CloseSync, Running
  <2>2. \A t \in Tasks : InFlight(t) => t \in closedInFlight'
    BY <2>1
  <2>3. \A t \in Tasks : InFlight(t)' <=> InFlight(t)
    BY <2>1
  <2>4. \A t \in Tasks : pc[t] \in {"preparing", "registered"} => InFlight(t)
    OBVIOUS
  <2>5. closedInFlight' # {} => ~connOpen'
    BY <2>1
  <2>6. FaultsNeedAnEarlyClose'
    BY <2>1 DEF FaultsNeedAnEarlyClose
  <2>7. \A t \in Tasks : InFlight(t)' /\ ~connOpen' => t \in closedInFlight'
    BY <2>2, <2>3
  <2>8. \A t \in Tasks :
          pc'[t] \in {"preparing", "registered"} /\ Current(t)' \notin live' =>
            t \in closedInFlight'
    BY <2>1, <2>2, <2>4
  <2> QED
    BY <2>5, <2>6, <2>7, <2>8 DEF CloseInv
<1>12. ASSUME NEW t \in Tasks, DanglingCall(t) PROVE CloseInv'
  <2>1. PICK call \in {"extract_statements", "prepare_extracted_statement",
                       "execute_prepared"} :
          /\ \/ call = "extract_statements" /\ pc[t] = "idle" /\ ~connOpen
             \/ /\ call = "prepare_extracted_statement" /\ ~connOpen
                /\ \/ pc[t] = "extracted"
                   \/ pc[t] = "executed" /\ ~failed[t] /\ ~Last(t)
             \/ /\ call = "execute_prepared"
                /\ pc[t] = "registered" /\ <<t, at[t]>> \notin live
          /\ fault' = <<t, call>>
    BY <1>12 DEF DanglingCall
  <2>2. UNCHANGED <<connOpen, pc, at, live, closedInFlight>>
    BY <1>12 DEF DanglingCall
  <2>3. ~connOpen /\ (t \in closedInFlight \/ call = "extract_statements")
    BY <2>1 DEF CloseInv
  <2> QED
    BY <2>1, <2>2, <2>3 DEF CloseInv, FaultsNeedAnEarlyClose
<1> QED
  BY <1>0, <1>1, <1>2, <1>3, <1>4, <1>6, <1>7, <1>8, <1>9, <1>11, <1>12 DEF Next

(* The connection's methods touch freed memory only when the program closed*)
(* the connection under a running call, or called them after the close.    *)
THEOREM FaultsExplained == Spec => []FaultsNeedAnEarlyClose
<1>1. Init => CloseInv
  BY DEF Init, CloseInv, FaultsNeedAnEarlyClose, InFlight, NoFault
<1>2. IInv /\ CloseInv /\ [Next]_vars => CloseInv'
  BY StepCloseInv
<1>3. CloseInv => FaultsNeedAnEarlyClose
  BY DEF CloseInv
<1> QED
  BY Invariant, <1>1, <1>2, <1>3, PTL DEF Spec
=============================================================================
