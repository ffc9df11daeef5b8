-------------------------- MODULE NeoHandlesProofs --------------------------
(***************************************************************************)
(* Theorems about NeoHandles, for any number of instances, connections,    *)
(* statements and addresses.  TypeCorrect, LiveSetsCorrect, GuardedSafe    *)
(* and RegisteredCorrect hold whatever the allocator does; OwnershipCorrect*)
(* and LifecycleRefinement assume that no address is handed out twice,     *)
(* which is exactly what the code's comments take for granted.             *)
(***************************************************************************)
EXTENDS NeoHandles, TLAPS

(* Every step that is not a stutter is one of the actions, with its        *)
(* parameters.  Each step proof below splits on these cases.               *)
LEMMA NextCases ==
  ASSUME Next, NEW P,
         \A i \in Instances : Open(i) => P,
         \A i \in Instances : CloseInstance(i) => P,
         \A i \in Instances, c \in Conns : Connect(i, c) => P,
         \A c \in Conns, s \in Stmts : Prepare(c, s) => P,
         \A c \in Conns, s \in Stmts : PrepareExtracted(c, s) => P,
         \A c \in Conns : PrepareFails(c) => P,
         \A c \in Conns : PrepareExtractedFails(c) => P,
         \A c \in Conns : ExtractStatements(c) => P,
         \A c \in Conns : DisconnectSync(c) => P,
         \A s \in Stmts : RegisterStatement(s) => P,
         \A s \in Stmts : DestroyStatement(s) => P,
         \A s \in Stmts : CollectGarbage(s) => P,
         \A w \in Wrappers : DanglingCall(w) => P
  PROVE  P
  BY DEF Next

LEMMA InitTypeOK == Init => TypeOK
  BY DEF Init, TypeOK, NoFault

(* A wrapper's calls are native calls.                                     *)
LEMMA CallsAreNative == \A w \in Wrappers : CallsOf(w) \subseteq NativeCalls
  BY DEF CallsOf, NativeCalls

LEMMA NewStatementTypeOK ==
  ASSUME TypeOK, NEW c \in Conns, NEW s \in Stmts, NewStatement(c, s)
  PROVE  TypeOK'
  BY DEF NewStatement, Allocate, TypeOK, Wrappers

LEMMA FailedStatementTypeOK == TypeOK /\ FailedStatement => TypeOK'
  BY DEF FailedStatement, TypeOK

LEMMA StepTypeOK == TypeOK /\ [Next]_vars => TypeOK'
<1> SUFFICES ASSUME TypeOK, [Next]_vars PROVE TypeOK'
  OBVIOUS
<1>0. CASE UNCHANGED vars
  BY <1>0 DEF vars, TypeOK
<1>1. ASSUME NEW i \in Instances, Open(i) PROVE TypeOK'
  BY <1>1 DEF Open, Allocate, TypeOK, Wrappers
<1>2. ASSUME NEW i \in Instances, CloseInstance(i) PROVE TypeOK'
  BY <1>2 DEF CloseInstance, FreeAll, TypeOK
<1>3. ASSUME NEW i \in Instances, NEW c \in Conns, Connect(i, c) PROVE TypeOK'
  BY <1>3 DEF Connect, Allocate, TypeOK, Wrappers
<1>4. ASSUME NEW c \in Conns, NEW s \in Stmts,
             Prepare(c, s) \/ PrepareExtracted(c, s)
      PROVE  TypeOK'
  BY <1>4, NewStatementTypeOK DEF Prepare, PrepareExtracted
<1>5. ASSUME NEW c \in Conns, PrepareFails(c) \/ PrepareExtractedFails(c)
      PROVE  TypeOK'
  BY <1>5, FailedStatementTypeOK DEF PrepareFails, PrepareExtractedFails
<1>6. ASSUME NEW c \in Conns, ExtractStatements(c) PROVE TypeOK'
  BY <1>6 DEF ExtractStatements, TypeOK
<1>7. ASSUME NEW c \in Conns, DisconnectSync(c) PROVE TypeOK'
  BY <1>7 DEF DisconnectSync, FreeAll, TypeOK
<1>8. ASSUME NEW s \in Stmts, RegisterStatement(s) PROVE TypeOK'
  <2>1. PICK pruned \in {{}, collected} :
          preparedStatements' =
            [preparedStatements EXCEPT ![parent[s]] = (@ \ pruned) \cup {s}]
    BY <1>8 DEF RegisterStatement
  <2>2. preparedStatements' \in [Conns -> SUBSET Stmts]
    BY <2>1 DEF TypeOK
  <2> QED
    BY <1>8, <2>2 DEF RegisterStatement, TypeOK
<1>9. ASSUME NEW s \in Stmts, DestroyStatement(s) PROVE TypeOK'
  BY <1>9 DEF DestroyStatement, FreeAll, TypeOK
<1>10. ASSUME NEW s \in Stmts, CollectGarbage(s) PROVE TypeOK'
  BY <1>10 DEF CollectGarbage, TypeOK
<1>11. ASSUME NEW w \in Wrappers, DanglingCall(w) PROVE TypeOK'
  BY <1>11, CallsAreNative DEF DanglingCall, TypeOK
<1> QED
  BY <1>0, <1>1, <1>2, <1>3, <1>4, <1>5, <1>6, <1>7, <1>8, <1>9, <1>10, <1>11,
     NextCases

(* The variables keep their types.                                         *)
THEOREM TypeCorrect == Spec => []TypeOK
<1>1. TypeOK /\ [Next]_vars => TypeOK'
  BY StepTypeOK
<1> QED
  BY InitTypeOK, <1>1, PTL DEF Spec

-----------------------------------------------------------------------------
(* The live sets.  TypeOK /\ LiveSetsExact is inductive as it stands: the  *)
(* only addresses a step frees are read from the live sets themselves, or  *)
(* belong to an instance.                                                  *)
LEMMA NewStatementLive ==
  ASSUME TypeOK, LiveSetsExact, NEW c \in Conns, NEW s \in Stmts,
         NewStatement(c, s)
  PROVE  LiveSetsExact'
  BY KindsAssumption, NullAssumption
     DEF NewStatement, Allocate, Allocatable, TypeOK, LiveSetsExact, Wrappers

LEMMA DestroyedAreLive ==
  \A S \in SUBSET Stmts : DestroyedBy(S) \subseteq livePreparedStatements
  BY DEF DestroyedBy, Guard

LEMMA DisconnectedAreLive ==
  \A c \in Conns : DisconnectedBy(c) \subseteq liveConnections
  BY DEF DisconnectedBy, Guard

LEMMA StepLiveSets ==
  ASSUME TypeOK, LiveSetsExact, [Next]_vars
  PROVE  LiveSetsExact'
<1> USE KindsAssumption, NullAssumption
<1>0. CASE UNCHANGED vars
  BY <1>0 DEF vars, LiveSetsExact
<1>1. ASSUME NEW i \in Instances, Open(i) PROVE LiveSetsExact'
  BY <1>1 DEF Open, Allocate, Allocatable, TypeOK, LiveSetsExact, Wrappers
<1>2. ASSUME NEW i \in Instances, CloseInstance(i) PROVE LiveSetsExact'
  <2>1. heap[addr[i]] \in Instances
    BY <1>2 DEF CloseInstance, Reaches, KindOf
  <2> QED
    BY <1>2, <2>1
       DEF CloseInstance, FreeAll, TypeOK, LiveSetsExact, Wrappers
<1>3. ASSUME NEW i \in Instances, NEW c \in Conns, Connect(i, c)
      PROVE  LiveSetsExact'
  BY <1>3 DEF Connect, Allocate, Allocatable, TypeOK, LiveSetsExact, Wrappers
<1>4. ASSUME NEW c \in Conns, NEW s \in Stmts,
             Prepare(c, s) \/ PrepareExtracted(c, s)
      PROVE  LiveSetsExact'
  BY <1>4, NewStatementLive DEF Prepare, PrepareExtracted
<1>5. ASSUME NEW c \in Conns, PrepareFails(c) \/ PrepareExtractedFails(c)
      PROVE  LiveSetsExact'
  BY <1>5 DEF PrepareFails, PrepareExtractedFails, FailedStatement, LiveSetsExact
<1>6. ASSUME NEW c \in Conns, ExtractStatements(c) PROVE LiveSetsExact'
  BY <1>6 DEF ExtractStatements, LiveSetsExact
<1>7. ASSUME NEW c \in Conns, DisconnectSync(c) PROVE LiveSetsExact'
  <2> DEFINE T == preparedStatements[c] \ collected
  <2>1. DestroyedBy(T) \subseteq livePreparedStatements
    BY DestroyedAreLive DEF TypeOK
  <2>2. DisconnectedBy(c) \subseteq liveConnections
    BY DisconnectedAreLive
  <2> HIDE DEF T
  <2>3. /\ livePreparedStatements' = livePreparedStatements \ DestroyedBy(T)
        /\ liveConnections' = liveConnections \ DisconnectedBy(c)
        /\ heap' = [a \in Addrs |-> IF a \in DestroyedBy(T) \cup DisconnectedBy(c)
                                    THEN Null ELSE heap[a]]
    BY <1>7 DEF DisconnectSync, FreeAll, T
  <2> QED
    BY <2>1, <2>2, <2>3 DEF TypeOK, LiveSetsExact, Wrappers
<1>8. ASSUME NEW s \in Stmts, RegisterStatement(s) PROVE LiveSetsExact'
  BY <1>8 DEF RegisterStatement, LiveSetsExact
<1>9. ASSUME NEW s \in Stmts, DestroyStatement(s) PROVE LiveSetsExact'
  <2>1. DestroyedBy({s}) \subseteq livePreparedStatements
    BY DestroyedAreLive
  <2> QED
    BY <1>9, <2>1 DEF DestroyStatement, FreeAll, TypeOK, LiveSetsExact, Wrappers
<1>10. ASSUME NEW s \in Stmts, CollectGarbage(s) PROVE LiveSetsExact'
  BY <1>10 DEF CollectGarbage, LiveSetsExact
<1>11. ASSUME NEW w \in Wrappers, DanglingCall(w) PROVE LiveSetsExact'
  BY <1>11 DEF DanglingCall, LiveSetsExact
<1> QED
  BY <1>0, <1>1, <1>2, <1>3, <1>4, <1>5, <1>6, <1>7, <1>8, <1>9, <1>10, <1>11,
     NextCases

(* The two live sets always name exactly the connections and statements    *)
(* that exist, even when freed addresses are handed out again.             *)
THEOREM LiveSetsCorrect == Spec => []LiveSetsExact
<1>1. Init => LiveSetsExact
  BY NullAssumption DEF Init, LiveSetsExact, Wrappers
<1>2. TypeOK /\ LiveSetsExact /\ [Next]_vars => LiveSetsExact'
  BY StepLiveSets
<1> QED
  BY <1>1, <1>2, TypeCorrect, PTL DEF Spec

-----------------------------------------------------------------------------
(* The guarded calls.  A dangling call that passes its guard would find its*)
(* address in a live set, where LiveSetsExact puts an object of its kind.  *)
LEMMA StepGuarded ==
  ASSUME TypeOK, LiveSetsExact, GuardedCallsNeverDangle, [Next]_vars
  PROVE  GuardedCallsNeverDangle'
<1>1. ASSUME NEW w \in Wrappers, DanglingCall(w)
      PROVE  GuardedCallsNeverDangle'
  <2> SUFFICES ASSUME NEW call \in {"query", "prepare", "disconnect", "destroy_prepare"},
                      fault' = call
               PROVE  FALSE
    BY DEF GuardedCallsNeverDangle
  <2>1. call \in CallsOf(w) /\ Guard(call, w) /\ ~Reaches(w) /\ addr[w] # Null
    BY <1>1 DEF DanglingCall, Held
  <2>2. CASE call = "destroy_prepare"
    <3>1. w \in Stmts /\ w \notin Instances /\ w \notin Conns
      BY <2>1, <2>2, KindsAssumption
         DEF CallsOf, InstanceCalls, ConnCalls, Wrappers
    <3> QED
      BY <2>1, <2>2, <3>1 DEF Guard, Reaches, KindOf, LiveSetsExact
  <2>3. CASE call \in {"query", "prepare", "disconnect"}
    <3>1. w \in Conns /\ w \notin Instances
      BY <2>1, <2>3, KindsAssumption
         DEF CallsOf, InstanceCalls, ConnCalls, StmtCalls, Wrappers
    <3> QED
      BY <2>1, <2>3, <3>1 DEF Guard, Reaches, KindOf, LiveSetsExact
  <2> QED
    BY <2>2, <2>3
<1>2. ASSUME UNCHANGED fault PROVE GuardedCallsNeverDangle'
  BY <1>2 DEF GuardedCallsNeverDangle
<1> QED
  BY <1>1, <1>2, NextCases
     DEF vars, Open, CloseInstance, Connect, Prepare, PrepareExtracted,
         NewStatement, PrepareFails, PrepareExtractedFails, FailedStatement,
         ExtractStatements, DisconnectSync, RegisterStatement,
         DestroyStatement, CollectGarbage

(* Whatever was closed, collected or awaited before, and wherever the      *)
(* allocator puts things, the guarded bindings never meet freed memory.    *)
THEOREM GuardedSafe == Spec => []GuardedCallsNeverDangle
<1>1. Init => GuardedCallsNeverDangle
  BY DEF Init, GuardedCallsNeverDangle, NoFault
<1>2. TypeOK /\ LiveSetsExact /\ GuardedCallsNeverDangle /\ [Next]_vars
        => GuardedCallsNeverDangle'
  BY StepGuarded
<1> QED
  BY <1>1, <1>2, TypeCorrect, LiveSetsCorrect, PTL DEF Spec
-----------------------------------------------------------------------------
(* What a step does to the heap: it allocates one object for a wrapper that*)
(* never had one, or it frees objects and allocates none.                  *)
FreesOnly ==
  /\ addr' = addr
  /\ used \subseteq used'
  /\ \A a \in Addrs : heap'[a] \in {heap[a], Null}

LEMMA StepShape ==
  ASSUME TypeOK, [Next]_vars
  PROVE  \/ \E w \in Wrappers, a \in Addrs : Unborn(w) /\ Allocate(w, a)
         \/ FreesOnly
<1> DEFINE Shape == \/ \E w \in Wrappers, a \in Addrs : Unborn(w) /\ Allocate(w, a)
                    \/ FreesOnly
<1>0. UNCHANGED vars => Shape
  BY DEF vars, FreesOnly
<1>1. \A i \in Instances : Open(i) => Shape
  BY DEF Open, Wrappers
<1>2. \A i \in Instances : CloseInstance(i) => Shape
  BY DEF CloseInstance, FreeAll, FreesOnly
<1>3. \A i \in Instances, c \in Conns : Connect(i, c) => Shape
  BY DEF Connect, Wrappers
<1>4. \A c \in Conns, s \in Stmts : NewStatement(c, s) => Shape
  BY DEF NewStatement, Wrappers
<1>5. FailedStatement => Shape
  BY DEF FailedStatement, FreesOnly
<1>6. \A c \in Conns : ExtractStatements(c) => Shape
  BY DEF ExtractStatements, FreesOnly
<1>7. \A c \in Conns : DisconnectSync(c) => Shape
  BY DEF DisconnectSync, FreeAll, FreesOnly
<1>8. \A s \in Stmts : RegisterStatement(s) => Shape
  BY DEF RegisterStatement, FreesOnly
<1>9. \A s \in Stmts : DestroyStatement(s) => Shape
  BY DEF DestroyStatement, FreeAll, FreesOnly
<1>10. \A s \in Stmts : CollectGarbage(s) => Shape
  BY DEF CollectGarbage, FreesOnly
<1>11. \A w \in Wrappers : DanglingCall(w) => Shape
  BY DEF DanglingCall, FreesOnly
<1> HIDE DEF Shape
<1>12. /\ \A c \in Conns, s \in Stmts : Prepare(c, s) => Shape
       /\ \A c \in Conns, s \in Stmts : PrepareExtracted(c, s) => Shape
       /\ \A c \in Conns : PrepareFails(c) => Shape
       /\ \A c \in Conns : PrepareExtractedFails(c) => Shape
  BY <1>4, <1>5 DEF Prepare, PrepareExtracted, PrepareFails, PrepareExtractedFails
<1>13. Next => Shape
  BY <1>1, <1>2, <1>3, <1>6, <1>7, <1>8, <1>9, <1>10, <1>11, <1>12, NextCases
<1>14. Shape
  BY <1>0, <1>13
<1> QED
  BY <1>14 DEF Shape

(* Fields and objects point at each other, and fresh addresses are told    *)
(* apart from old ones: the strengthening GuardsFindOwnObject needs.       *)
OwnershipInv ==
  /\ \A a \in Addrs : heap[a] # Null => addr[heap[a]] = a
  /\ \A w \in Wrappers : addr[w] # Null => addr[w] \in used
  /\ \A w, v \in Wrappers : addr[w] # Null /\ addr[w] = addr[v] => w = v

LEMMA StepOwnership ==
  ASSUME AddressReuse = FALSE, TypeOK, OwnershipInv, [Next]_vars
  PROVE  OwnershipInv'
<1> USE NullAssumption
<1>1. CASE FreesOnly
  BY <1>1 DEF FreesOnly, OwnershipInv, TypeOK
<1>2. ASSUME NEW w \in Wrappers, NEW a \in Addrs, Unborn(w), Allocate(w, a)
      PROVE  OwnershipInv'
  <2>1. \A v \in Wrappers : addr'[v] = IF v = w THEN a ELSE addr[v]
    BY <1>2 DEF Allocate, TypeOK
  <2>2. \A b \in Addrs : heap'[b] = IF b = a THEN w ELSE heap[b]
    BY <1>2 DEF Allocate, TypeOK
  <2>3. used' = used \cup {a} /\ a \notin used
    BY <1>2 DEF Allocate, Allocatable
  <2>4. addr[w] = Null /\ a # Null
    BY <1>2 DEF Unborn
  <2>5. \A b \in Addrs : heap'[b] # Null => addr'[heap'[b]] = b
    BY <2>1, <2>2, <2>4 DEF OwnershipInv, TypeOK
  <2>6. \A v \in Wrappers : addr'[v] # Null => addr'[v] \in used'
    BY <2>1, <2>3 DEF OwnershipInv
  <2>7. \A u, v \in Wrappers : addr'[u] # Null /\ addr'[u] = addr'[v] => u = v
    BY <2>1, <2>3 DEF OwnershipInv
  <2> QED
    BY <2>5, <2>6, <2>7 DEF OwnershipInv
<1> QED
  BY <1>1, <1>2, StepShape

LEMMA GuardsFromOwnership ==
  TypeOK /\ LiveSetsExact /\ OwnershipInv => GuardsFindOwnObject
  BY NullAssumption
     DEF TypeOK, LiveSetsExact, OwnershipInv, GuardsFindOwnObject, Owns, Wrappers

LEMMA OwnershipInvariant ==
  ASSUME AddressReuse = FALSE PROVE Spec => []OwnershipInv
<1>1. Init => OwnershipInv
  BY DEF Init, OwnershipInv
<1>2. TypeOK /\ OwnershipInv /\ [Next]_vars => OwnershipInv'
  BY StepOwnership
<1> QED
  BY <1>1, <1>2, TypeCorrect, PTL DEF Spec

(* If addresses are not handed out twice, a wrapper that passes a liveness *)
(* check owns the object at its address.                                   *)
THEOREM OwnershipCorrect ==
  ASSUME AddressReuse = FALSE PROVE Spec => []GuardsFindOwnObject
  BY TypeCorrect, LiveSetsCorrect, OwnershipInvariant, GuardsFromOwnership, PTL

-----------------------------------------------------------------------------
(* The collections of weak references.                                     *)
ParentInv ==
  /\ \A s \in Stmts : addr[s] # Null => parent[s] \in Conns
  /\ \A s \in awaiting : addr[s] # Null
  /\ \A c \in Conns : \A s \in preparedStatements[c] :
       addr[s] # Null /\ parent[s] = c

LEMMA StepParent ==
  ASSUME TypeOK, ParentInv, [Next]_vars
  PROVE  ParentInv'
<1> USE KindsAssumption, NullAssumption
<1>1. ASSUME UNCHANGED <<addr, parent, awaiting>>,
             \A c \in Conns : preparedStatements'[c] \subseteq preparedStatements[c]
      PROVE  ParentInv'
  BY <1>1 DEF ParentInv, TypeOK
<1>2. ASSUME NEW w \in Instances \cup Conns, NEW a \in Addrs, Allocate(w, a),
             UNCHANGED <<parent, awaiting, preparedStatements>>
      PROVE  ParentInv'
  BY <1>2 DEF ParentInv, Allocate, TypeOK, Wrappers
<1>3. ASSUME NEW c \in Conns, NEW s \in Stmts, NewStatement(c, s)
      PROVE  ParentInv'
  BY <1>3 DEF NewStatement, Unborn, Allocate, ParentInv, TypeOK, Wrappers
<1>4. ASSUME NEW s \in Stmts, RegisterStatement(s) PROVE ParentInv'
  <2>1. PICK pruned \in {{}, collected} :
          preparedStatements' =
            [preparedStatements EXCEPT ![parent[s]] = (@ \ pruned) \cup {s}]
    BY <1>4 DEF RegisterStatement
  <2>2. parent[s] \in Conns /\ addr[s] # Null
    BY <1>4 DEF RegisterStatement, ParentInv
  <2>3. \A c \in Conns : \A t \in preparedStatements'[c] :
          addr[t] # Null /\ parent[t] = c
    BY <2>1, <2>2 DEF ParentInv, TypeOK
  <2> QED
    BY <1>4, <2>3 DEF RegisterStatement, ParentInv
<1>5. ASSUME NEW c \in Conns, DisconnectSync(c) PROVE ParentInv'
  BY <1>1, <1>5 DEF DisconnectSync, TypeOK
<1>6. /\ \A i \in Instances : Open(i) => ParentInv'
      /\ \A i \in Instances, c \in Conns : Connect(i, c) => ParentInv'
  BY <1>2 DEF Open, Connect
<1>7. /\ \A c \in Conns, s \in Stmts : Prepare(c, s) => ParentInv'
      /\ \A c \in Conns, s \in Stmts : PrepareExtracted(c, s) => ParentInv'
  BY <1>3 DEF Prepare, PrepareExtracted
<1>8. /\ \A i \in Instances : CloseInstance(i) => ParentInv'
      /\ \A c \in Conns : PrepareFails(c) => ParentInv'
      /\ \A c \in Conns : PrepareExtractedFails(c) => ParentInv'
      /\ \A c \in Conns : ExtractStatements(c) => ParentInv'
      /\ \A s \in Stmts : DestroyStatement(s) => ParentInv'
      /\ \A s \in Stmts : CollectGarbage(s) => ParentInv'
      /\ \A w \in Wrappers : DanglingCall(w) => ParentInv'
  BY <1>1 DEF CloseInstance, PrepareFails, PrepareExtractedFails, FailedStatement,
              ExtractStatements, DestroyStatement, CollectGarbage, DanglingCall
<1>9. CASE UNCHANGED vars
  BY <1>1, <1>9 DEF vars
<1> QED
  BY <1>4, <1>5, <1>6, <1>7, <1>8, <1>9, NextCases

LEMMA ParentInvariant == Spec => []ParentInv
<1>1. Init => ParentInv
  BY DEF Init, ParentInv, Wrappers
<1>2. TypeOK /\ ParentInv /\ [Next]_vars => ParentInv'
  BY StepParent
<1> QED
  BY <1>1, <1>2, TypeCorrect, PTL DEF Spec
LEMMA StepRegistered ==
  ASSUME TypeOK, LiveSetsExact, ParentInv, LiveStatementsRegistered, [Next]_vars
  PROVE  LiveStatementsRegistered'
<1> USE KindsAssumption, NullAssumption
<1>1. ASSUME \A s \in Stmts : Owns(s)' => Owns(s),
             UNCHANGED <<parent, awaiting, preparedStatements>>,
             collected \subseteq collected'
      PROVE  LiveStatementsRegistered'
  BY <1>1 DEF LiveStatementsRegistered
<1>2. FreesOnly => \A s \in Stmts : Owns(s)' => Owns(s)
  BY DEF FreesOnly, Owns, TypeOK, Wrappers
<1>3. ASSUME NEW w \in Wrappers, NEW a \in Addrs, Allocate(w, a), NEW s \in Stmts,
             s # w, Owns(s)'
      PROVE  Owns(s)
  BY <1>3 DEF Allocate, Owns, TypeOK, Wrappers
<1>4. ASSUME NEW c \in Conns, NEW s \in Stmts, NewStatement(c, s)
      PROVE  LiveStatementsRegistered'
  <2> SUFFICES ASSUME NEW t \in Stmts, t \notin collected', t \notin awaiting',
                      Owns(t)'
               PROVE  t \in preparedStatements'[parent'[t]]
    BY DEF LiveStatementsRegistered
  <2>1. t # s /\ t \notin awaiting /\ t \notin collected
    BY <1>4 DEF NewStatement
  <2>2. Owns(t)
    BY <1>3, <1>4, <2>1 DEF NewStatement, Wrappers
  <2>3. preparedStatements' = preparedStatements /\ parent'[t] = parent[t]
    BY <1>4, <2>1 DEF NewStatement, TypeOK
  <2> QED
    BY <2>1, <2>2, <2>3 DEF LiveStatementsRegistered
<1>5. ASSUME NEW s \in Stmts, RegisterStatement(s)
      PROVE  LiveStatementsRegistered'
  <2>1. PICK pruned \in {{}, collected} :
          preparedStatements' =
            [preparedStatements EXCEPT ![parent[s]] = (@ \ pruned) \cup {s}]
    BY <1>5 DEF RegisterStatement
  <2>2. parent[s] \in Conns
    BY <1>5 DEF RegisterStatement, ParentInv
  <2> SUFFICES ASSUME NEW t \in Stmts, t \notin collected, t \notin awaiting',
                      Owns(t)
               PROVE  t \in preparedStatements'[parent[t]]
    BY <1>5 DEF RegisterStatement, LiveStatementsRegistered, Owns
  <2>3. CASE t = s
    BY <2>1, <2>2, <2>3 DEF TypeOK
  <2>4. CASE t # s
    <3>1. t \in preparedStatements[parent[t]] /\ parent[t] \in Conns
      BY <1>5, <2>4 DEF RegisterStatement, LiveStatementsRegistered, ParentInv, Owns
    <3> QED
      BY <2>1, <3>1 DEF TypeOK
  <2> QED
    BY <2>3, <2>4
<1>6. ASSUME NEW c \in Conns, DisconnectSync(c) PROVE LiveStatementsRegistered'
  <2> DEFINE T == preparedStatements[c] \ collected
  <2> SUFFICES ASSUME NEW s \in Stmts, s \notin collected, s \notin awaiting,
                      Owns(s)'
               PROVE  s \in preparedStatements'[parent[s]]
    BY <1>6 DEF DisconnectSync, LiveStatementsRegistered
  <2>1. addr[s] \in Addrs /\ Owns(s) /\ addr[s] \notin DestroyedBy(T)
    BY <1>6 DEF DisconnectSync, FreeAll, Owns, TypeOK, Wrappers
  <2>2. s \in preparedStatements[parent[s]] /\ parent[s] \in Conns
    BY <2>1 DEF LiveStatementsRegistered, ParentInv, Owns
  <2>3. addr[s] \in livePreparedStatements
    BY <2>1 DEF LiveSetsExact, Owns
  <2>4. s \notin T
    BY <2>1, <2>3 DEF DestroyedBy, Guard
  <2>5. parent[s] # c
    BY <2>2, <2>4
  <2> QED
    BY <1>6, <2>2, <2>5 DEF DisconnectSync, TypeOK
<1>7. /\ \A i \in Instances : Open(i) => LiveStatementsRegistered'
      /\ \A i \in Instances, c \in Conns : Connect(i, c) => LiveStatementsRegistered'
  BY <1>1, <1>3 DEF Open, Connect, Wrappers
<1>8. /\ \A i \in Instances : CloseInstance(i) => LiveStatementsRegistered'
      /\ \A s \in Stmts : DestroyStatement(s) => LiveStatementsRegistered'
  BY <1>1 DEF CloseInstance, DestroyStatement, FreeAll, Owns, TypeOK, Wrappers
<1>9. /\ \A c \in Conns : PrepareFails(c) => LiveStatementsRegistered'
      /\ \A c \in Conns : PrepareExtractedFails(c) => LiveStatementsRegistered'
      /\ \A c \in Conns : ExtractStatements(c) => LiveStatementsRegistered'
      /\ \A s \in Stmts : CollectGarbage(s) => LiveStatementsRegistered'
      /\ \A w \in Wrappers : DanglingCall(w) => LiveStatementsRegistered'
  BY <1>1 DEF PrepareFails, PrepareExtractedFails, FailedStatement,
              ExtractStatements, CollectGarbage, DanglingCall, Owns
<1>10. /\ \A c \in Conns, s \in Stmts : Prepare(c, s) => LiveStatementsRegistered'
       /\ \A c \in Conns, s \in Stmts :
            PrepareExtracted(c, s) => LiveStatementsRegistered'
  BY <1>4 DEF Prepare, PrepareExtracted
<1>11. CASE UNCHANGED vars
  BY <1>11, <1>1 DEF vars, Owns
<1> QED
  BY <1>5, <1>6, <1>7, <1>8, <1>9, <1>10, <1>11, NextCases

(* A statement the program can still name is never forgotten by its        *)
(* connection, even when freed addresses are handed out again.             *)
THEOREM RegisteredCorrect == Spec => []LiveStatementsRegistered
<1>1. Init => LiveStatementsRegistered
  BY DEF Init, LiveStatementsRegistered, Owns, Wrappers
<1>2. TypeOK /\ LiveSetsExact /\ ParentInv /\ LiveStatementsRegistered /\ [Next]_vars
        => LiveStatementsRegistered'
  BY StepRegistered
<1> QED
  BY <1>1, <1>2, TypeCorrect, LiveSetsCorrect, ParentInvariant, PTL DEF Spec
-----------------------------------------------------------------------------
(* Refinement of NeoLifecycle.  openW and closedW are the mapped variables.*)
openW == {w \in Wrappers : Owns(w)}
closedW == {w \in Wrappers : Stale(w)}

(* Freeing the addresses A ends the objects of the wrappers in W, if W and *)
(* A agree on every wrapper that owns an object.                           *)
LEMMA FreeingEnds ==
  ASSUME TypeOK, NEW A, FreeAll(A), addr' = addr, parent' = parent,
         NEW W \in SUBSET Wrappers,
         \A w \in Wrappers : Owns(w) => (addr[w] \in A <=> w \in W)
  PROVE  Lifecycle!End(W)
<1> USE NullAssumption
<1>1. \A w \in Wrappers : Owns(w)' <=> Owns(w) /\ w \notin W
  BY DEF FreeAll, Owns, TypeOK
<1>2. \A w \in Wrappers : Stale(w)' <=> Stale(w) \/ (Owns(w) /\ w \in W)
  BY <1>1 DEF Stale, Owns
<1> QED
  BY <1>1, <1>2 DEF Lifecycle!End

(* An allocation opens its wrapper and leaves every other as it was.       *)
LEMMA AllocationOpens ==
  ASSUME AddressReuse = FALSE, TypeOK, OwnershipInv,
         NEW w \in Wrappers, NEW a \in Addrs, Unborn(w), Allocate(w, a)
  PROVE  /\ openW' = openW \cup {w}
         /\ closedW' = closedW
         /\ w \notin openW \cup closedW
<1> USE NullAssumption
<1>1. \A v \in Wrappers : addr'[v] = IF v = w THEN a ELSE addr[v]
  BY DEF Allocate, TypeOK
<1>2. \A b \in Addrs : heap'[b] = IF b = a THEN w ELSE heap[b]
  BY DEF Allocate, TypeOK
<1>3. a \notin used /\ a # Null /\ addr[w] = Null
  BY DEF Allocate, Allocatable, Unborn
<1>4. \A v \in Wrappers : v # w => (Owns(v)' <=> Owns(v)) /\ (Stale(v)' <=> Stale(v))
  BY <1>1, <1>2, <1>3 DEF Owns, Stale, OwnershipInv, TypeOK
<1>5. Owns(w)' /\ ~Owns(w) /\ ~Stale(w) /\ ~Stale(w)'
  BY <1>1, <1>2, <1>3 DEF Owns, Stale
<1> QED
  BY <1>4, <1>5 DEF openW, closedW

(* An instance or connection that a call reaches is its wrapper's own.     *)
LEMMA ReachedIsOwned ==
  ASSUME TypeOK, OwnershipInv, NEW w \in Wrappers, Reaches(w)
  PROVE  Owns(w)
  BY NullAssumption, KindsAssumption
     DEF TypeOK, OwnershipInv, Reaches, KindOf, Owns, Wrappers

LEMMA StatementCreated ==
  ASSUME AddressReuse = FALSE, TypeOK, OwnershipInv,
         NEW c \in Conns, NEW s \in Stmts, Reaches(c), NewStatement(c, s)
  PROVE  Lifecycle!CreateStatement(c, s)
<1>1. PICK a \in Addrs : Allocate(s, a)
  BY DEF NewStatement
<1>2. openW' = openW \cup {s} /\ closedW' = closedW /\ s \notin openW \cup closedW
  BY <1>1, AllocationOpens DEF NewStatement, Wrappers
<1>3. c \in openW
  BY ReachedIsOwned DEF openW, Wrappers
<1> QED
  BY <1>2, <1>3 DEF Lifecycle!CreateStatement, Lifecycle!Fresh, openW, closedW,
                    NewStatement

LEMMA DisconnectCloses ==
  ASSUME TypeOK, LiveSetsExact, OwnershipInv, ParentInv,
         NEW c \in Conns, DisconnectSync(c)
  PROVE  Lifecycle!CloseConnection(c)
<1> USE KindsAssumption, NullAssumption
<1> DEFINE T == preparedStatements[c] \ collected
           A == DestroyedBy(T) \cup DisconnectedBy(c)
<1>1. T \in SUBSET {s \in Stmts : parent[s] = c}
  BY DEF ParentInv, TypeOK
<1>2. GuardsFindOwnObject
  BY GuardsFromOwnership
<1>3. FreeAll(A) /\ addr' = addr /\ parent' = parent
  BY DEF DisconnectSync
<1>4. ASSUME NEW w \in Wrappers, Owns(w), addr[w] \in A PROVE w \in T \cup {c}
  <2>1. PICK x \in T \cup {c} : addr[x] = addr[w] /\ x \in Wrappers
    BY <1>1, <1>4 DEF DestroyedBy, DisconnectedBy, Wrappers
  <2> QED
    BY <1>4, <2>1 DEF OwnershipInv, Owns
<1>5. ASSUME NEW w \in Wrappers, Owns(w), w \in T \cup {c} PROVE addr[w] \in A
  <2>1. addr[w] \in Addrs /\ heap[addr[w]] = w
    BY <1>5 DEF Owns, TypeOK
  <2>2. CASE w = c
    <3>1. addr[c] \in liveConnections
      BY <2>1, <2>2 DEF LiveSetsExact
    <3> QED
      BY <2>2, <3>1 DEF DisconnectedBy, Guard
  <2>3. CASE w \in T
    <3>1. addr[w] \in livePreparedStatements
      BY <1>1, <2>1, <2>3 DEF LiveSetsExact
    <3>2. Guard("destroy_prepare", w)
      BY <3>1 DEF Guard
    <3> QED
      BY <2>3, <3>2 DEF DestroyedBy
  <2> QED
    BY <1>5, <2>2, <2>3
<1>6. T \cup {c} \in SUBSET Wrappers
  BY <1>1 DEF Wrappers
<1> HIDE DEF T, A
<1>7. Lifecycle!End(T \cup {c})
  BY <1>3, <1>4, <1>5, <1>6, FreeingEnds
<1> QED
  BY <1>1, <1>7 DEF Lifecycle!CloseConnection

LEMMA StepLifecycle ==
  ASSUME AddressReuse = FALSE, TypeOK, LiveSetsExact, OwnershipInv, ParentInv,
         [Next]_vars
  PROVE  [Lifecycle!Next]_<<openW, closedW, parent>>
<1> USE KindsAssumption, NullAssumption
<1> DEFINE Step == [Lifecycle!Next]_<<openW, closedW, parent>>
<1>1. ASSUME NEW i \in Instances, Open(i) PROVE Step
  <2>1. openW' = openW \cup {i} /\ closedW' = closedW /\ i \notin openW \cup closedW
    BY <1>1, AllocationOpens DEF Open, Wrappers
  <2>2. Lifecycle!OpenInstance(i)
    BY <1>1, <2>1
       DEF Lifecycle!OpenInstance, Lifecycle!Fresh, openW, closedW, Open
  <2> QED
    BY <2>2 DEF Lifecycle!Next
<1>2. ASSUME NEW i \in Instances, CloseInstance(i) PROVE Step
  <2>1. Owns(i)
    BY <1>2, ReachedIsOwned DEF CloseInstance, Wrappers
  <2>2. Lifecycle!End({i})
    BY <1>2, <2>1, FreeingEnds DEF CloseInstance, OwnershipInv, Owns, Wrappers
  <2> QED
    BY <2>2 DEF Lifecycle!Next
<1>3. ASSUME NEW i \in Instances, NEW c \in Conns, Connect(i, c) PROVE Step
  <2>1. openW' = openW \cup {c} /\ closedW' = closedW /\ c \notin openW \cup closedW
    BY <1>3, AllocationOpens DEF Connect, Wrappers
  <2>2. i \in openW
    BY <1>3, ReachedIsOwned DEF Connect, openW, Wrappers
  <2>3. Lifecycle!OpenConnection(i, c)
    BY <1>3, <2>1, <2>2
       DEF Lifecycle!OpenConnection, Lifecycle!Fresh, openW, closedW, Connect
  <2> QED
    BY <2>3 DEF Lifecycle!Next
<1>4. ASSUME NEW c \in Conns, NEW s \in Stmts,
             Prepare(c, s) \/ PrepareExtracted(c, s)
      PROVE  Step
  <2>1. Lifecycle!CreateStatement(c, s)
    BY <1>4, StatementCreated DEF Prepare, PrepareExtracted
  <2> QED
    BY <2>1 DEF Lifecycle!Next
<1>5. ASSUME NEW c \in Conns, DisconnectSync(c) PROVE Step
  BY <1>5, DisconnectCloses DEF Lifecycle!Next
<1>6. ASSUME NEW s \in Stmts, DestroyStatement(s) PROVE Step
  <2>1. \A w \in Wrappers : Owns(w) => (addr[w] \in DestroyedBy({s}) <=> w \in {s})
    BY DEF DestroyedBy, Guard, OwnershipInv, Owns, LiveSetsExact, TypeOK, Wrappers
  <2>2. Lifecycle!End({s})
    BY <1>6, <2>1, FreeingEnds DEF DestroyStatement, Wrappers
  <2> QED
    BY <2>2 DEF Lifecycle!Next
<1>7. ASSUME UNCHANGED <<heap, addr, parent>> PROVE Step
  BY <1>7 DEF openW, closedW, Owns, Stale
<1>8. /\ \A c \in Conns : PrepareFails(c) => Step
      /\ \A c \in Conns : PrepareExtractedFails(c) => Step
      /\ \A c \in Conns : ExtractStatements(c) => Step
      /\ \A s \in Stmts : RegisterStatement(s) => Step
      /\ \A s \in Stmts : CollectGarbage(s) => Step
      /\ \A w \in Wrappers : DanglingCall(w) => Step
      /\ UNCHANGED vars => Step
  BY <1>7 DEF PrepareFails, PrepareExtractedFails, FailedStatement,
              ExtractStatements, RegisterStatement, CollectGarbage, DanglingCall,
              vars
<1> HIDE DEF Step
<1>9. Step
  BY <1>1, <1>2, <1>3, <1>4, <1>5, <1>6, <1>8, NextCases
<1> QED
  BY <1>9 DEF Step

(* If addresses are not handed out twice, the drop-in layer keeps the      *)
(* promise of NeoLifecycle.                                                *)
THEOREM LifecycleRefinement ==
  ASSUME AddressReuse = FALSE PROVE Spec => LifecycleSpec
<1>1. Init => Lifecycle!Init
  BY DEF Init, Lifecycle!Init, Owns, Stale
<1>2. TypeOK /\ LiveSetsExact /\ OwnershipInv /\ ParentInv /\ [Next]_vars
        => [Lifecycle!Next]_<<openW, closedW, parent>>
  BY StepLifecycle
<1>3. TypeOK /\ LiveSetsExact /\ OwnershipInv /\ ParentInv /\ [Next]_vars
        => [Lifecycle!Next]_<<{w \in Wrappers : Owns(w)},
                              {w \in Wrappers : Stale(w)}, parent>>
  BY <1>2 DEF openW, closedW
<1> QED
  BY <1>1, <1>3, TypeCorrect, LiveSetsCorrect, OwnershipInvariant,
     ParentInvariant, PTL DEF Spec, LifecycleSpec, Lifecycle!Spec
=============================================================================
