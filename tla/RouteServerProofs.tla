------------------------- MODULE RouteServerProofs --------------------------
(***************************************************************************)
(* Theorems about RouteServer, for any number of sessions, users, contents *)
(* and faults. The inductive invariant is Inv below; every action is a     *)
(* step of one of few shapes, so the lemmas first reduce the requests to   *)
(* Await and Die and the three steps of updateData to one each.            *)
(***************************************************************************)
EXTENDS RouteServer, FiniteSetTheorems, SequenceTheorems, TLAPS

-----------------------------------------------------------------------------
(* Lemmas about lists and tables *)

\* getAllRoutes returns a list of rows that are the loaded rows of the table.
LEMMA ListingType ==
    ASSUME NEW t \in SUBSET Rows, IsFiniteSet(t), NEW l \in Listings(t)
    PROVE  /\ l \in Seq(Rows)
           /\ Range(l) = {Load(r) : r \in t}
<1>1. Cardinality(t) \in Nat
  BY FS_CardinalityType
<1>2. {Load(r) : r \in t} \subseteq Rows
  BY ContentAssumption DEF Load, Rows
<1>3. l \in [1 .. Cardinality(t) -> {Load(r) : r \in t}]
  BY DEF Listings
<1>4. l \in [1 .. Cardinality(t) -> Rows]
  BY <1>2, <1>3
<1>5. l \in Seq(Rows)
  BY <1>1, <1>4
<1> QED
  BY <1>5 DEF Listings

\* A loaded row keeps its id and its owner.
LEMMA LoadKeeps ==
    ASSUME NEW r \in Rows
    PROVE  Load(r) \in Rows /\ Load(r).id = r.id /\ Load(r).owner = r.owner
BY ContentAssumption DEF Load, Rows

\* The rows of a list are rows.
LEMMA RangeOfRows ==
    ASSUME NEW l \in Seq(Rows)
    PROVE  Range(l) \subseteq Rows
BY DEF Range

\* Whatever getData returns is a list of rows, each from the collection or
\* from the list that is being copied into it.
LEMMA ReadType ==
    ASSUME TypeOK, NEW m \in Reads
    PROVE  m.list \in Seq(Rows)
<1>1. CASE m = [ok |-> TRUE, list |-> data]
  BY <1>1 DEF TypeOK
<1>2. CASE m \in {[ok |-> TRUE, list |-> <<>>], [ok |-> FALSE, list |-> <<>>]}
  <2>1. m.list = <<>>
    BY <1>2
  <2> QED
    BY <2>1
<1>3. ASSUME NEW t \in Threads, NEW n \in 0 .. Len(snap[t]),
             m = [ok |-> TRUE, list |-> SubSeq(snap[t], 1, n)]
      PROVE  m.list \in Seq(Rows)
  <2>1. snap[t] \in Seq(Rows)
    BY DEF TypeOK
  <2> QED
    BY <1>3, <2>1
<1> QED
  BY <1>1, <1>2, <1>3 DEF Reads

-----------------------------------------------------------------------------
(* The shape of the requests *)

Waits(s) == \E j \in Jobs, ids \in SUBSET Nat : Await(s, j, ids)

\* Whatever a client asks for, its session either comes to wait for the lock
\* with a well-formed job, or dies, or nothing changes, or it only opens or
\* closes the session.
LEMMA ClientShape ==
    ASSUME TypeOK, NEW s \in Sessions, Client(s)
    PROVE  \/ pc[s] = "idle" /\ Waits(s)
           \/ pc[s] = "idle" /\ Die(s)
           \/ UNCHANGED vars
           \/ Connect(s) \/ Disconnect(s)
<1>0. ASSUME NEW m \in Reads PROVE Range(m.list) \subseteq Rows
  BY ReadType, RangeOfRows
<1>1. CASE RequestAdd(s)
  BY <1>1 DEF RequestAdd, Waits, Jobs
<1>2. CASE RequestUpdate(s)
  <2>1. PICK m \in Reads :
          \/ /\ m.ok
             /\ \E r \in Range(m.list), v \in Routes :
                   /\ r.owner = UserOf[s]
                   /\ Await(s, [op |-> "update", route |-> v, id |-> r.id], {})
          \/ ~ m.ok /\ Die(s)
    BY <1>2 DEF RequestUpdate
  <2>2. ASSUME NEW r \in Range(m.list), NEW v \in Routes,
               Await(s, [op |-> "update", route |-> v, id |-> r.id], {})
        PROVE  Waits(s)
    <3>1. r.id \in Nat
      BY <1>0 DEF Rows
    <3>2. [op |-> "update", route |-> v, id |-> r.id] \in Jobs
      BY <3>1 DEF Jobs
    <3> QED
      BY <2>2, <3>2 DEF Waits
  <2> QED
    BY <1>2, <2>1, <2>2 DEF RequestUpdate
<1>3. CASE RequestRemoveById(s)
  BY <1>3 DEF RequestRemoveById, Waits, Jobs
<1>4. CASE RequestClear(s)
  BY <1>4 DEF RequestClear, Waits, Jobs
<1>5. CASE RequestRemoveGreater(s)
  <2>1. PICK m \in Reads, v \in Routes :
          \/ m.ok /\ Await(s, [op |-> "removeGreater", route |-> v],
                           Lower(m.list, v))
          \/ ~ m.ok /\ Die(s)
    BY <1>5 DEF RequestRemoveGreater
  <2>2. Lower(m.list, v) \in SUBSET Nat
    BY <1>0 DEF Lower, Rows
  <2>3. [op |-> "removeGreater", route |-> v] \in Jobs
    BY DEF Jobs
  <2> QED
    BY <1>5, <2>1, <2>2, <2>3 DEF RequestRemoveGreater, Waits
<1>6. CASE RequestRemoveLower(s)
  <2>1. PICK m \in Reads, v \in Routes :
          \/ m.ok /\ Await(s, [op |-> "removeLower", route |-> v],
                           Greater(m.list, v))
          \/ ~ m.ok /\ Die(s)
    BY <1>6 DEF RequestRemoveLower
  <2>2. Greater(m.list, v) \in SUBSET Nat
    BY <1>0 DEF Greater, Rows
  <2>3. [op |-> "removeLower", route |-> v] \in Jobs
    BY DEF Jobs
  <2> QED
    BY <1>6, <2>1, <2>2, <2>3 DEF RequestRemoveLower, Waits
<1>7. CASE RequestRemoveAny(s)
  <2>1. PICK m \in Reads, d \in Range(DistOf) :
          \/ \E ids \in IF AtDistance(m.list, d) = {} THEN {{}}
                        ELSE {{i} : i \in AtDistance(m.list, d)} :
               Await(s, [op |-> "removeAnyByDistance", distance |-> d], ids)
          \/ ~ m.ok /\ Die(s)
    BY <1>7 DEF RequestRemoveAny
  <2>2. AtDistance(m.list, d) \in SUBSET Nat
    BY <1>0 DEF AtDistance, Rows
  <2>3. [op |-> "removeAnyByDistance", distance |-> d] \in Jobs
    BY DEF Jobs
  <2> QED
    BY <1>7, <2>1, <2>2, <2>3 DEF RequestRemoveAny, Waits
<1>8. CASE Query(s)
  BY <1>8 DEF Query
<1>9. CASE Connect(s) \/ Disconnect(s)
  BY <1>9
<1> QED
  BY <1>1, <1>2, <1>3, <1>4, <1>5, <1>6, <1>7, <1>8, <1>9 DEF Client

-----------------------------------------------------------------------------
(* Type correctness *)

\* The statements of DatabaseWorker keep the table a finite set of rows.
LEMMA StatementType ==
    ASSUME TypeOK, NEW u \in Users, NEW v \in Routes, NEW id \in Nat,
           \/ AddNewRoute(v, u)
           \/ UpdateById(v, id, u)
           \/ RemoveById(id, u)
           \/ ClearRoutes(u)
    PROVE  table' \in SUBSET Rows /\ IsFiniteSet(table') /\ serial' \in Nat
<1>0. table \in SUBSET Rows /\ IsFiniteSet(table) /\ serial \in Nat
  BY DEF TypeOK
<1>1. CASE AddNewRoute(v, u)
  <2>1. IsFiniteSet(table')
    BY <1>0, <1>1, FS_AddElement DEF AddNewRoute
  <2> QED
    BY <1>0, <1>1, <2>1 DEF AddNewRoute, Rows
<1>2. CASE UpdateById(v, id, u)
  <2> DEFINE S == Selected(id, u)
             T == {[r EXCEPT !.val = v] : r \in S}
             f == [r \in S |-> [r EXCEPT !.val = v]]
  <2>1. S \in SUBSET table
    BY DEF Selected
  <2>2. IsFiniteSet(S)
    BY <1>0, <2>1, FS_Subset
  <2>3. f \in Surjection(S, T)
    BY DEF Surjection
  <2>4. IsFiniteSet(T)
    BY <2>2, <2>3, FS_Surjection
  <2>5. IsFiniteSet(table \ S)
    BY <1>0, FS_Subset
  <2>6. IsFiniteSet((table \ S) \union T)
    BY <2>4, <2>5, FS_Union
  <2>7. T \subseteq Rows
    BY <1>0, <2>1 DEF Rows
  <2> QED
    BY <1>0, <1>2, <2>6, <2>7 DEF UpdateById
<1>3. CASE RemoveById(id, u)
  BY <1>0, <1>3, FS_Subset DEF RemoveById
<1>4. CASE ClearRoutes(u)
  BY <1>0, <1>4, FS_Subset DEF ClearRoutes
<1> QED
  BY <1>1, <1>2, <1>3, <1>4

\* The part of TypeOK about where the threads stand.
StepsOK ==
    /\ pc \in [Threads -> SessionSteps \union RefresherSteps]
    /\ \A s \in Sessions : pc[s] \in SessionSteps
    /\ pc[Refresher] \in RefresherSteps
    /\ \A s \in Sessions : JobFits(s)

\* Steps that do not read the arguments of the request.
FreeSteps == SessionSteps \ {"insert", "present", "max", "alter", "decode"}

\* A thread that moves to a step of its kind leaves StepsOK true.
LEMMA Moved ==
    ASSUME TypeOK, NEW t \in Threads, NEW step, Goto(t, step), job' = job,
           t = Refresher => step \in RefresherSteps,
           t # Refresher => \/ step \in FreeSteps
                            \/ /\ step \in {"insert", "max"}
                               /\ job[t].op \in {"add", "addIfMax"}
    PROVE  StepsOK'
<1>1. step \in SessionSteps \union RefresherSteps
  BY DEF FreeSteps, SessionSteps, CriticalSteps
<1>2. pc' \in [Threads -> SessionSteps \union RefresherSteps]
  BY <1>1 DEF TypeOK, Goto
<1>3. pc'[t] = step /\ \A x \in Threads : x # t => pc'[x] = pc[x]
  BY DEF TypeOK, Goto
<1>4. \A s \in Sessions : pc'[s] \in SessionSteps
  BY <1>3, SessionAssumption DEF TypeOK, Threads, FreeSteps, SessionSteps,
     CriticalSteps
<1>5. pc'[Refresher] \in RefresherSteps
  BY <1>3, SessionAssumption DEF TypeOK, Threads
<1>6. ASSUME NEW s \in Sessions PROVE JobFits(s)'
  BY <1>3, SessionAssumption DEF TypeOK, Threads, FreeSteps, JobFits
<1> QED
  BY <1>2, <1>4, <1>5, <1>6 DEF StepsOK

\* Every step keeps the types.
LEMMA TypeStep == TypeOK /\ [Next]_vars => TypeOK'
<1> SUFFICES ASSUME TypeOK, [Next]_vars PROVE TypeOK'
  OBVIOUS
<1> USE SessionAssumption
<1>1. ASSUME NEW s \in Sessions, NEW j \in Jobs, NEW ids \in SUBSET Nat,
             Await(s, j, ids)
      PROVE  TypeOK'
  BY <1>1 DEF TypeOK, Await, Threads, SessionSteps, RefresherSteps, JobFits,
              dbVars, cacheVars
<1>2. ASSUME NEW s \in Sessions, Die(s) PROVE TypeOK'
  <2>1. NoJob \in Jobs
    BY DEF NoJob, Jobs
  <2> QED
    BY <1>2, <2>1 DEF TypeOK, Die, Threads, SessionSteps, RefresherSteps,
                      JobFits, dbVars, cacheVars
<1>3. ASSUME NEW s \in Sessions, Client(s) PROVE TypeOK'
  <2>1. CASE Connect(s) \/ Disconnect(s)
    BY <2>1 DEF TypeOK, Connect, Disconnect, Goto, Threads, SessionSteps,
                RefresherSteps, JobFits, dbVars, cacheVars
  <2>2. CASE UNCHANGED vars
    BY <2>2 DEF TypeOK, JobFits, vars
  <2> QED
    BY <1>1, <1>2, <1>3, <2>1, <2>2, ClientShape DEF Waits
<1>4. ASSUME NEW t \in Threads, Fetch(t) PROVE TypeOK'
  <2>1. \A l \in Listings(table) : l \in Seq(Rows)
    BY ListingType DEF TypeOK
  <2>2. StepsOK'
    BY <1>4, Moved DEF Fetch, Goto, AfterLoop, FreeSteps, SessionSteps,
          CriticalSteps, RefresherSteps
  <2>3. snap' = snap \/ \E l \in Seq(Rows) : snap' = [snap EXCEPT ![t] = l]
    BY <1>4, <2>1 DEF Fetch
  <2>4. snap' \in [Threads -> Seq(Rows)]
    BY <2>3 DEF TypeOK
  <2>5. faults' \in Nat
    BY <1>4 DEF TypeOK, Fetch, Fault, NoFault
  <2> QED
    BY <1>4, <2>2, <2>4, <2>5 DEF TypeOK, StepsOK, Fetch, dbVars, cacheVars
<1>5. ASSUME NEW t \in Threads, UpdateData(t) PROVE TypeOK'
  <2>1. StepsOK'
    BY <1>5, Moved DEF UpdateData, Goto, AfterLoop, FreeSteps, SessionSteps,
          CriticalSteps, RefresherSteps
  <2>2. snap' = snap \/ \E l \in Seq(Rows) : snap' = [snap EXCEPT ![t] = l]
    BY <1>5, EmptySeq DEF UpdateData
  <2>3. snap' \in [Threads -> Seq(Rows)]
    BY <2>2 DEF TypeOK
  <2> QED
    BY <1>5, <2>1, <2>3 DEF TypeOK, StepsOK, UpdateData, dbVars
<1>6. ASSUME NEW t \in Threads, WriteData(t) PROVE TypeOK'
  <2>1. StepsOK'
    BY <1>6, Moved DEF WriteData, Goto, AfterLoop, FreeSteps, SessionSteps,
          CriticalSteps, RefresherSteps
  <2> QED
    BY <1>6, <2>1 DEF TypeOK, StepsOK, WriteData, dbVars
<1>7. ASSUME NEW s \in Sessions, Lock(s) PROVE TypeOK'
  <2>1. job[s] \in Jobs
    BY DEF TypeOK
  <2>2. FirstStep(job[s].op) \in CriticalSteps
    BY DEF FirstStep, CriticalSteps
  <2>3. JobFits(s)'
    BY <1>7, <2>1 DEF TypeOK, Lock, FirstStep, JobFits, Threads
  <2> QED
    BY <1>7, <2>2, <2>3 DEF TypeOK, Lock, Threads, SessionSteps,
          RefresherSteps, JobFits, dbVars, cacheVars
<1>8. ASSUME NEW s \in Sessions, Unlock(s) PROVE TypeOK'
  <2>1. NoJob \in Jobs
    BY DEF NoJob, Jobs
  <2> QED
    BY <1>8, <2>1 DEF TypeOK, Unlock, Threads, SessionSteps, RefresherSteps,
          JobFits, dbVars, cacheVars
<1>9. ASSUME NEW s \in Sessions, Insert(s) PROVE TypeOK'
  <2>1. job[s].route \in Routes
    BY <1>9 DEF TypeOK, Insert, JobFits, Jobs
  <2>2. UserOf[s] \in Users
    OBVIOUS
  <2>3. table' \in SUBSET Rows /\ IsFiniteSet(table') /\ serial' \in Nat
    BY <1>9, <2>1, <2>2, StatementType DEF Insert, FailedInsert, TypeOK
  <2>4. StepsOK'
    BY <1>9, Moved DEF Insert, FreeSteps, SessionSteps, CriticalSteps, Threads
  <2> QED
    BY <1>9, <2>3, <2>4 DEF TypeOK, StepsOK, Insert, Fault, NoFault, cacheVars
<1>10. ASSUME NEW s \in Sessions, Present(s) \/ Max(s) PROVE TypeOK'
  <2> DEFINE rest == <<dbVars, cacheVars, commandsLock, job, todo, snap, faults>>
  <2>1. \/ Die(s)
        \/ Goto(s, "unlock") /\ UNCHANGED rest
        \/ Goto(s, "max") /\ UNCHANGED rest
        \/ Goto(s, "insert") /\ UNCHANGED rest
    BY <1>10 DEF Present, Max
  <2>2. job[s].op \in {"add", "addIfMax"}
    BY <1>10 DEF TypeOK, JobFits, Present, Max
  <2>3. ASSUME NEW step, step \in {"unlock", "max", "insert"},
               Goto(s, step), UNCHANGED rest
        PROVE  TypeOK'
    <3>1. s \in Threads /\ s # Refresher
      BY DEF Threads
    <3>2. job' = job /\ (step \in FreeSteps \/ step \in {"insert", "max"})
      BY <2>3 DEF FreeSteps, SessionSteps, CriticalSteps
    <3>3. StepsOK'
      BY <2>2, <2>3, <3>1, <3>2, Moved
    <3> QED
      BY <2>3, <3>3 DEF TypeOK, StepsOK, dbVars, cacheVars
  <2> QED
    BY <1>2, <2>1, <2>3
<1>11. ASSUME NEW s \in Sessions, Alter(s) PROVE TypeOK'
  <2>1. job[s].route \in Routes /\ job[s].id \in Nat
    BY <1>11 DEF TypeOK, Alter, JobFits, Jobs
  <2>2. UserOf[s] \in Users
    OBVIOUS
  <2>3. table' \in SUBSET Rows /\ IsFiniteSet(table') /\ serial' \in Nat
    BY <1>11, <2>1, <2>2, StatementType DEF Alter, TypeOK, dbVars
  <2>4. StepsOK'
    BY <1>11, Moved DEF Alter, FreeSteps, SessionSteps, CriticalSteps, Threads
  <2> QED
    BY <1>11, <2>3, <2>4 DEF TypeOK, StepsOK, Alter, Fault, NoFault, cacheVars
<1>12. ASSUME NEW s \in Sessions, DecodeId(s) PROVE TypeOK'
  <2>1. CASE Decode[job[s].text] = BadNumber
    BY <1>2, <1>12, <2>1 DEF DecodeId
  <2>2. CASE Decode[job[s].text] # BadNumber
    <3>1. job[s].text \in IdTexts
      BY <1>12 DEF TypeOK, DecodeId, JobFits, Jobs
    <3>2. Decode[job[s].text] \in Nat
      BY <2>2, <3>1, TextAssumption
    <3>3. StepsOK'
      BY <1>12, <2>2, Moved DEF DecodeId, FreeSteps, SessionSteps,
            CriticalSteps, Threads
    <3>4. todo' \in [Threads -> SUBSET Nat]
      <4>1. {Decode[job[s].text]} \in SUBSET Nat
        BY <3>2
      <4>2. todo' = [todo EXCEPT ![s] = {Decode[job[s].text]}]
        BY <1>12, <2>2 DEF DecodeId
      <4> QED
        BY <4>1, <4>2 DEF TypeOK
    <3> QED
      BY <1>12, <2>2, <3>3, <3>4 DEF TypeOK, StepsOK, DecodeId, dbVars,
            cacheVars
  <2> QED
    BY <2>1, <2>2
<1>13. ASSUME NEW s \in Sessions, Loop(s) PROVE TypeOK'
  <2>1. todo[s] \in SUBSET Nat /\ todo'[s] \in SUBSET Nat
    BY <1>13 DEF TypeOK, Loop, Threads
  <2>2. UserOf[s] \in Users
    OBVIOUS
  <2>3. table' \in SUBSET Rows /\ IsFiniteSet(table') /\ serial' \in Nat
    <3>1. \A id : RemoveById(id, UserOf[s]) =>
             table' \subseteq table /\ serial' = serial
      BY DEF RemoveById
    <3>2. table' \subseteq table /\ serial' = serial
      BY <1>13, <3>1 DEF Loop, dbVars
    <3> QED
      BY <3>2, FS_Subset DEF TypeOK
  <2>4. todo' \in [Threads -> SUBSET Nat]
    <3>1. \E left \in SUBSET Nat :
             todo' = todo \/ todo' = [todo EXCEPT ![s] = left]
      <4>1. CASE todo' = todo
        BY <4>1
      <4>2. CASE todo' # todo
        <5>1. PICK id \in todo[s] : todo' = [todo EXCEPT ![s] = @ \ {id}]
          BY <1>13, <4>2 DEF Loop
        <5>2. todo[s] \ {id} \in SUBSET Nat
          BY <2>1
        <5> QED
          BY <5>1, <5>2
      <4> QED
        BY <4>1, <4>2
    <3> QED
      BY <3>1 DEF TypeOK
  <2>5. pc' \in [Threads -> SessionSteps \union RefresherSteps]
        /\ pc'[s] \in {"unlock", "fetch", "loop"}
        /\ \A t \in Threads \ {s} : pc'[t] = pc[t]
    BY <1>13 DEF TypeOK, Loop, Goto, AfterLoop, Threads, SessionSteps,
          CriticalSteps, RefresherSteps
  <2>6. faults' \in Nat /\ UNCHANGED <<cacheVars, commandsLock, job, snap>>
    BY <1>13 DEF TypeOK, Loop, Fault, NoFault
  <2> QED
    BY <2>3, <2>4, <2>5, <2>6 DEF TypeOK, Threads, SessionSteps,
          CriticalSteps, JobFits, cacheVars
<1>14. ASSUME NEW s \in Sessions, Wipe(s) PROVE TypeOK'
  <2>1. UserOf[s] \in Users
    OBVIOUS
  <2>2. table' \in SUBSET Rows /\ IsFiniteSet(table') /\ serial' \in Nat
    <3>1. table' \subseteq table /\ serial' = serial
      BY <1>14 DEF Wipe, ClearRoutes, dbVars
    <3> QED
      BY <3>1, FS_Subset DEF TypeOK
  <2>3. StepsOK'
    BY <1>14, Moved DEF Wipe, FreeSteps, SessionSteps, CriticalSteps, Threads
  <2> QED
    BY <1>14, <2>2, <2>3 DEF TypeOK, StepsOK, Wipe, Fault, NoFault, cacheVars
<1>15. CASE Restart
  <2>1. \A l \in Listings(table) : l \in Seq(Rows)
    BY ListingType DEF TypeOK
  <2>2. NoJob \in Jobs
    BY DEF NoJob, Jobs
  <2> QED
    BY <1>15, <2>1, <2>2 DEF TypeOK, Restart, Fault, Threads, SessionSteps,
          RefresherSteps, JobFits, dbVars
<1>16. CASE UNCHANGED vars
  BY <1>16 DEF TypeOK, JobFits, vars
<1>17. ASSUME NEW s \in Sessions, Execute(s) PROVE TypeOK'
  BY <1>4, <1>5, <1>6, <1>7, <1>8, <1>9, <1>10, <1>11, <1>12, <1>13, <1>14,
     <1>17 DEF Execute, Threads
<1>18. CASE Refresh
  BY <1>4, <1>5, <1>6, <1>18 DEF Refresh, Threads
<1> QED
  BY <1>3, <1>15, <1>16, <1>17, <1>18 DEF Next

\* The initial state has the types.
LEMMA TypeInit == Init => TypeOK
<1>1. NoJob \in Jobs
  BY DEF NoJob, Jobs
<1> QED
  BY <1>1, SessionAssumption, FS_EmptySet DEF Init, TypeOK, Threads,
     SessionSteps, RefresherSteps, JobFits

\* The variables always have their types, whatever the threads and the
\* database do: requests are well formed when their arguments are used, and
\* the table is a finite set of rows.
THEOREM TypeCorrect == Spec => []TypeOK
BY TypeInit, TypeStep, PTL DEF Spec

-----------------------------------------------------------------------------
(* The locks *)

\* Nobody holds a lock at the start.
LEMMA SerializedInit == Init => Serialized
BY SessionAssumption DEF Init, Serialized, CriticalSteps, Threads

\* Every step keeps the two locks with the threads that are in their regions.
LEMMA SerializedStep == TypeOK /\ Serialized /\ [Next]_vars => Serialized'
<1> SUFFICES ASSUME TypeOK, Serialized, [Next]_vars PROVE Serialized'
  OBVIOUS
<1> USE SessionAssumption
<1>1. ASSUME NEW s \in Sessions, pc[s] = "idle", Waits(s) PROVE Serialized'
  BY <1>1 DEF TypeOK, Serialized, Waits, Await, Threads, CriticalSteps,
          cacheVars
<1>2. ASSUME NEW s \in Sessions, pc[s] # "write", Die(s) PROVE Serialized'
  BY <1>2 DEF TypeOK, Serialized, Die, Threads, CriticalSteps, cacheVars
<1>3. ASSUME NEW s \in Sessions, Client(s) PROVE Serialized'
  <2>1. CASE Connect(s) \/ Disconnect(s)
    BY <2>1 DEF TypeOK, Serialized, Connect, Disconnect, Goto, Threads,
            CriticalSteps, cacheVars
  <2>2. CASE UNCHANGED vars
    BY <2>2 DEF Serialized, vars
  <2> QED
    BY <1>1, <1>2, <1>3, <2>1, <2>2, ClientShape
<1>4. ASSUME NEW t \in Threads, Fetch(t) PROVE Serialized'
  BY <1>4 DEF TypeOK, Serialized, Fetch, AfterLoop, Threads, CriticalSteps,
          cacheVars
<1>5. ASSUME NEW t \in Threads, UpdateData(t) PROVE Serialized'
  BY <1>5 DEF TypeOK, Serialized, UpdateData, AfterLoop, Threads,
          CriticalSteps
<1>6. ASSUME NEW t \in Threads, WriteData(t) PROVE Serialized'
  BY <1>6 DEF TypeOK, Serialized, WriteData, AfterLoop, Threads,
          CriticalSteps
<1>7. ASSUME NEW s \in Sessions, Lock(s) PROVE Serialized'
  <2>1. FirstStep(job[s].op) \in CriticalSteps \ {"write"}
    BY DEF FirstStep, CriticalSteps
  <2> QED
    BY <1>7, <2>1 DEF TypeOK, Serialized, Lock, Threads, CriticalSteps,
          cacheVars
<1>8. ASSUME NEW s \in Sessions, Unlock(s) PROVE Serialized'
  BY <1>8 DEF TypeOK, Serialized, Unlock, Threads, CriticalSteps, cacheVars
<1>9. ASSUME NEW s \in Sessions, Insert(s) \/ Alter(s) \/ Loop(s) \/ Wipe(s)
      PROVE  Serialized'
  BY <1>9 DEF TypeOK, Serialized, Insert, Alter, Loop, Wipe, Goto, AfterLoop,
          Threads, CriticalSteps, cacheVars
<1>10. ASSUME NEW s \in Sessions, Present(s) \/ Max(s) \/ DecodeId(s)
       PROVE  Serialized'
  <2>1. CASE Die(s)
    BY <1>2, <1>10, <2>1 DEF Present, Max, DecodeId
  <2>2. CASE ~ Die(s)
    BY <1>10, <2>2 DEF TypeOK, Serialized, Present, Max, DecodeId, Goto,
          Threads, CriticalSteps, cacheVars
  <2> QED
    BY <2>1, <2>2
<1>11. CASE Restart
  BY <1>11 DEF Serialized, Restart, Threads, CriticalSteps
<1>12. CASE UNCHANGED vars
  BY <1>12 DEF Serialized, vars
<1>13. ASSUME NEW s \in Sessions, Execute(s) PROVE Serialized'
  BY <1>4, <1>5, <1>6, <1>7, <1>8, <1>9, <1>10, <1>13 DEF Execute, Threads
<1>14. CASE Refresh
  BY <1>4, <1>5, <1>6, <1>14 DEF Refresh, Threads
<1> QED
  BY <1>3, <1>11, <1>12, <1>13, <1>14 DEF Next

\* Commands.lock and RouteCollection.lock protect what they are meant to:
\* two commands are never between lock and unlock at once, and an exception
\* leaves the lock Leaked, never in the hands of an idle session.
THEOREM LocksSerialize == Spec => []Serialized
BY TypeInit, TypeStep, SerializedInit, SerializedStep, PTL DEF Spec

-----------------------------------------------------------------------------
(* What a step may do to the table *)

Statement(s) == Insert(s) \/ Alter(s) \/ Loop(s) \/ Wipe(s)

\* Only the four statement steps touch the database.
LEMMA OnlyStatements ==
    ASSUME TypeOK, [Next]_vars
    PROVE  UNCHANGED dbVars \/ \E s \in Sessions : Statement(s)
<1>1. ASSUME NEW s \in Sessions, Client(s) PROVE UNCHANGED dbVars
  BY <1>1, ClientShape DEF Waits, Await, Die, Connect, Disconnect, vars,
     dbVars
<1>2. ASSUME NEW s \in Sessions, Execute(s)
      PROVE  UNCHANGED dbVars \/ Statement(s)
  BY <1>2 DEF Execute, Statement, Lock, Present, Max, DecodeId, Unlock, Fetch,
     UpdateData, WriteData, Die
<1>3. CASE Refresh
  BY <1>3 DEF Refresh, Fetch, UpdateData, WriteData
<1>4. CASE Restart
  BY <1>4 DEF Restart
<1>5. CASE UNCHANGED vars
  BY <1>5 DEF vars, dbVars
<1> QED
  BY <1>1, <1>2, <1>3, <1>4, <1>5 DEF Next

\* What a statement of session s does: it draws an id for one new row, or
\* burns one, or changes or deletes rows of its own user.
LEMMA StatementEffect ==
    ASSUME TypeOK, NEW s \in Sessions, Statement(s)
    PROVE  /\ UNCHANGED <<data, snap>>
           /\ \/ /\ serial' = serial + 1
                 /\ \/ UNCHANGED table
                    \/ \E v \in Routes :
                          table' = table \union {[id |-> serial + 1,
                                        val |-> v, owner |-> UserOf[s]]}
              \/ /\ UNCHANGED serial
                 /\ \/ UNCHANGED table
                    \/ \E S \in SUBSET table :
                          /\ \A r \in S : r.owner = UserOf[s]
                          /\ table' = table \ S
                    \/ \E v \in Routes, id \in Nat :
                          UpdateById(v, id, UserOf[s])
<1>1. CASE Insert(s)
  <2>1. job[s].route \in Routes
    BY <1>1 DEF TypeOK, Insert, JobFits, Jobs
  <2> QED
    BY <1>1, <2>1 DEF Insert, AddNewRoute, FailedInsert, cacheVars
<1>2. CASE Alter(s)
  <2>1. job[s].route \in Routes /\ job[s].id \in Nat
    BY <1>2 DEF TypeOK, Alter, JobFits, Jobs
  <2>2. UpdateById(job[s].route, job[s].id, UserOf[s]) \/ UNCHANGED dbVars
    BY <1>2 DEF Alter
  <2>3. UNCHANGED <<data, snap>>
    BY <1>2 DEF Alter, cacheVars
  <2>4. CASE UNCHANGED dbVars
    BY <2>3, <2>4 DEF dbVars
  <2>5. CASE UpdateById(job[s].route, job[s].id, UserOf[s])
    <3>1. UNCHANGED serial
      BY <2>5 DEF UpdateById
    <3> QED
      BY <2>1, <2>3, <2>5, <3>1
  <2> QED
    BY <2>2, <2>4, <2>5
<1>3. CASE Loop(s)
  <2>1. UNCHANGED <<data, snap>>
    BY <1>3 DEF Loop, cacheVars
  <2>2. UNCHANGED dbVars \/ \E id \in todo[s] : RemoveById(id, UserOf[s])
    BY <1>3 DEF Loop, dbVars
  <2>3. ASSUME NEW id, RemoveById(id, UserOf[s])
        PROVE  /\ UNCHANGED serial
               /\ \E S \in SUBSET table :
                     /\ \A r \in S : r.owner = UserOf[s]
                     /\ table' = table \ S
    BY <2>3 DEF RemoveById, Selected
  <2> QED
    BY <2>1, <2>2, <2>3 DEF dbVars
<1>4. CASE Wipe(s)
  <2>1. UNCHANGED <<data, snap>>
    BY <1>4 DEF Wipe, cacheVars
  <2>2. UNCHANGED dbVars \/ ClearRoutes(UserOf[s])
    BY <1>4 DEF Wipe
  <2>3. CASE ClearRoutes(UserOf[s])
    <3> DEFINE S == {r \in table : r.owner = UserOf[s]}
    <3>1. table' = table \ S /\ S \in SUBSET table /\ UNCHANGED serial
      BY <2>3 DEF ClearRoutes
    <3> QED
      BY <2>1, <3>1
  <2> QED
    BY <2>1, <2>2, <2>3 DEF dbVars
<1> QED
  BY <1>1, <1>2, <1>3, <1>4 DEF Statement

-----------------------------------------------------------------------------
(* Commands copy current lists *)

\* No list is under way at the start.
LEMMA SnapshotInit == Init => CommandSnapshotCurrent
BY SessionAssumption DEF Init, CommandSnapshotCurrent, Threads

\* A list that a command is about to copy comes from the step before, or was
\* fetched in this one from the same table.
LEMMA SnapshotOrigin ==
    ASSUME TypeOK, [Next]_vars, NEW x \in Sessions,
           pc'[x] \in {"update", "write"}
    PROVE  \/ pc[x] \in {"update", "write"} /\ snap'[x] = snap[x]
           \/ snap'[x] \in Listings(table) /\ UNCHANGED table
<1> USE SessionAssumption
<1>1. ASSUME NEW s \in Sessions, Client(s)
      PROVE  pc'[x] = pc[x] /\ snap'[x] = snap[x]
  BY <1>1, ClientShape DEF TypeOK, Waits, Await, Die, Connect, Disconnect,
     Goto, vars, Threads
<1>2. ASSUME NEW t \in Threads, Fetch(t)
      PROVE  \/ pc'[x] = pc[x] /\ snap'[x] = snap[x]
             \/ snap'[x] \in Listings(table) /\ UNCHANGED table
  BY <1>2 DEF TypeOK, Fetch, AfterLoop, Threads, dbVars
<1>3. ASSUME NEW t \in Threads, UpdateData(t) \/ WriteData(t)
      PROVE  pc[x] \in {"update", "write"} /\ snap'[x] = snap[x]
  BY <1>3 DEF TypeOK, UpdateData, WriteData, AfterLoop, Threads
<1>4. ASSUME NEW s \in Sessions,
             \/ Statement(s) \/ Lock(s) \/ Unlock(s)
             \/ Present(s) \/ Max(s) \/ DecodeId(s)
      PROVE  pc'[x] = pc[x] /\ snap'[x] = snap[x]
  <2>1. UNCHANGED snap
    BY <1>4 DEF Statement, Insert, Alter, Loop, Wipe, Lock, Unlock, Present,
       Max, DecodeId, Die
  <2>2. \E step \in SessionSteps \ {"update", "write"} : Goto(s, step)
    <3>1. FirstStep(job[s].op) \in SessionSteps \ {"update", "write"}
      BY DEF FirstStep, SessionSteps, CriticalSteps
    <3>2. AfterLoop(s, todo'[s]) \in SessionSteps \ {"update", "write"}
      BY DEF AfterLoop, SessionSteps, CriticalSteps
    <3> QED
      BY <1>4, <3>1, <3>2 DEF Statement, Insert, Alter, Loop, Wipe, Lock,
         Unlock, Present, Max, DecodeId, Die, Goto, SessionSteps,
         CriticalSteps
  <2>3. pc'[x] = pc[x]
    BY <2>2 DEF TypeOK, Goto, Threads
  <2> QED
    BY <2>1, <2>3
<1>5. CASE Restart
  BY <1>5 DEF Restart, Threads
<1>6. CASE UNCHANGED vars
  BY <1>6 DEF vars
<1>7. ASSUME NEW s \in Sessions, Execute(s)
      PROVE  \/ pc[x] \in {"update", "write"} /\ snap'[x] = snap[x]
             \/ snap'[x] \in Listings(table) /\ UNCHANGED table
  BY <1>2, <1>3, <1>4, <1>7 DEF Execute, Statement, Threads
<1>8. CASE Refresh
  BY <1>2, <1>3, <1>8 DEF Refresh, Threads
<1> QED
  BY <1>1, <1>5, <1>6, <1>7, <1>8 DEF Next

\* With Commands.lock held by the session that copies, no other session can
\* run a statement in between.
LEMMA SnapshotStep ==
    TypeOK /\ Serialized /\ CommandSnapshotCurrent /\ [Next]_vars
        => CommandSnapshotCurrent'
<1> SUFFICES ASSUME TypeOK, Serialized, CommandSnapshotCurrent, [Next]_vars,
                    NEW x \in Sessions, pc'[x] \in {"update", "write"}
             PROVE  snap'[x] \in Listings(table')
  BY DEF CommandSnapshotCurrent
<1>1. CASE snap'[x] \in Listings(table) /\ UNCHANGED table
  BY <1>1
<1>2. CASE pc[x] \in {"update", "write"} /\ snap'[x] = snap[x]
  <2>1. snap[x] \in Listings(table)
    BY <1>2 DEF CommandSnapshotCurrent
  <2>2. commandsLock = x
    BY <1>2 DEF Serialized, CriticalSteps
  <2>3. ASSUME NEW s \in Sessions, Statement(s) PROVE FALSE
    <3>1. pc[s] \in {"insert", "alter", "loop", "wipe"}
      BY <2>3 DEF Statement, Insert, Alter, Loop, Wipe
    <3>2. commandsLock = s
      BY <3>1 DEF Serialized, CriticalSteps
    <3> QED
      BY <1>2, <2>2, <3>1, <3>2
  <2>4. UNCHANGED table
    BY <2>3, OnlyStatements DEF dbVars
  <2> QED
    BY <1>2, <2>1, <2>4
<1> QED
  BY <1>1, <1>2, SnapshotOrigin

\* The list that a command puts into the collection is the table of that very
\* moment, for any number of sessions: only the refresher, which does not
\* take Commands.lock, can put back a list that is out of date.
THEOREM CommandsCopyCurrentTable == Spec => []CommandSnapshotCurrent
BY TypeInit, TypeStep, SerializedInit, SerializedStep, SnapshotInit,
   SnapshotStep, PTL DEF Spec

-----------------------------------------------------------------------------
(* Ids and owners *)

\* Nothing is known at the start.
LEMMA KnownInit == Init => IdsIssuedOnce /\ OwnerOfIdFixed
<1> SUFFICES ASSUME Init PROVE Known = {}
  BY DEF IdsIssuedOnce, OwnerOfIdFixed, Init
<1>1. table = {} /\ data = <<>> /\ \A t \in Threads : snap[t] = <<>>
  BY DEF Init
<1>2. Range(<<>>) = {}
  BY DEF Range
<1> QED
  BY <1>1, <1>2 DEF Known

\* The collection and the lists on their way hold what they held, what
\* another list held, or what the table holds now.
LEMMA ListOrigin ==
    ASSUME TypeOK, [Next]_vars
    PROVE  /\ \/ data' = data
              \/ \E t \in Threads : data' = snap[t]
              \/ data' \in Listings(table)
           /\ \A t \in Threads : \/ snap'[t] = snap[t]
                                 \/ snap'[t] = <<>>
                                 \/ snap'[t] \in Listings(table)
<1>1. ASSUME NEW s \in Sessions, Client(s) PROVE UNCHANGED <<data, snap>>
  BY <1>1, ClientShape DEF Waits, Await, Die, Connect, Disconnect, vars,
     cacheVars
<1>2. ASSUME NEW t \in Threads, Fetch(t) \/ UpdateData(t)
      PROVE  /\ UNCHANGED data
             /\ \A x \in Threads : \/ snap'[x] = snap[x]
                                   \/ snap'[x] = <<>>
                                   \/ snap'[x] \in Listings(table)
  BY <1>2 DEF TypeOK, Fetch, UpdateData, cacheVars
<1>3. ASSUME NEW t \in Threads, WriteData(t)
      PROVE  /\ data' = snap[t]
             /\ \A x \in Threads : snap'[x] = snap[x] \/ snap'[x] = <<>>
  BY <1>3 DEF TypeOK, WriteData
<1>4. ASSUME NEW s \in Sessions,
             \/ Statement(s) \/ Lock(s) \/ Unlock(s)
             \/ Present(s) \/ Max(s) \/ DecodeId(s)
      PROVE  UNCHANGED <<data, snap>>
  BY <1>4 DEF Statement, Insert, Alter, Loop, Wipe, Lock, Unlock, Present,
     Max, DecodeId, Die, cacheVars
<1>5. CASE Restart
  BY <1>5 DEF Restart
<1>6. CASE UNCHANGED vars
  BY <1>6 DEF vars
<1>7. CASE \E s \in Sessions : Execute(s)
  BY <1>2, <1>3, <1>4, <1>7 DEF Execute, Statement, Threads
<1>8. CASE Refresh
  BY <1>2, <1>3, <1>8 DEF Refresh, Threads
<1> QED
  BY <1>1, <1>5, <1>6, <1>7, <1>8 DEF Next

WasKnown(r) == \E q \in Known : q.id = r.id /\ q.owner = r.owner

\* A row known after a step was known before with the same id and owner, or
\* it is the one row the step inserted, with an id just drawn.
LEMMA KnownStep ==
    ASSUME TypeOK, [Next]_vars
    PROVE  /\ serial' \in {serial, serial + 1}
           /\ \/ \A r \in Known' : WasKnown(r)
              \/ /\ serial' = serial + 1
                 /\ \E u \in Users : \A r \in Known' :
                       WasKnown(r) \/ (r.id = serial + 1 /\ r.owner = u)
<1>1. ASSUME NEW r \in Known PROVE WasKnown(r)
  BY DEF WasKnown
<1>2. ASSUME NEW l \in Listings(table), NEW r \in Range(l) PROVE WasKnown(r)
  <2>1. PICK q \in table : r = Load(q)
    BY ListingType DEF TypeOK
  <2>2. q \in Known /\ q \in Rows
    BY DEF Known, TypeOK
  <2> QED
    BY <2>1, <2>2, LoadKeeps DEF WasKnown
<1>3. Range(<<>>) = {}
  BY DEF Range
<1>4. ASSUME NEW r \in Range(data') PROVE WasKnown(r)
  <2>1. CASE data' = data
    BY <1>1, <1>4, <2>1 DEF Known
  <2>2. ASSUME NEW t \in Threads, data' = snap[t] PROVE WasKnown(r)
    BY <1>1, <1>4, <2>2 DEF Known
  <2>3. CASE data' \in Listings(table)
    BY <1>2, <1>4, <2>3
  <2> QED
    BY <2>1, <2>2, <2>3, ListOrigin
<1>5. ASSUME NEW t \in Threads, NEW r \in Range(snap'[t]) PROVE WasKnown(r)
  <2>1. CASE snap'[t] = snap[t]
    BY <1>1, <1>5, <2>1 DEF Known
  <2>2. CASE snap'[t] = <<>>
    BY <1>3, <1>5, <2>2
  <2>3. CASE snap'[t] \in Listings(table)
    BY <1>2, <1>5, <2>3
  <2> QED
    BY <2>1, <2>2, <2>3, ListOrigin
<1>6. \A r \in Known' : r \in table' \/ WasKnown(r)
  BY <1>4, <1>5 DEF Known
<1>7. CASE UNCHANGED dbVars
  <2>1. \A r \in table' : WasKnown(r)
    BY <1>1, <1>7 DEF dbVars, Known
  <2> QED
    BY <1>6, <1>7, <2>1 DEF dbVars
<1>8. ASSUME NEW s \in Sessions, Statement(s)
      PROVE  /\ serial' \in {serial, serial + 1}
             /\ \/ \A r \in table' : WasKnown(r)
                \/ /\ serial' = serial + 1
                   /\ \A r \in table' : WasKnown(r) \/
                         (r.id = serial + 1 /\ r.owner = UserOf[s])
  <2>1. \A r \in table : WasKnown(r)
    BY <1>1 DEF Known
  <2>2. ASSUME NEW v \in Routes, NEW id \in Nat, NEW r \in table',
               UpdateById(v, id, UserOf[s])
        PROVE  WasKnown(r)
    <3>1. r \in table \/ \E q \in table : r = [q EXCEPT !.val = v]
      BY <2>2 DEF UpdateById, Selected
    <3>2. ASSUME NEW q \in table, r = [q EXCEPT !.val = v]
          PROVE  r.id = q.id /\ r.owner = q.owner
      BY <3>2 DEF TypeOK, Rows
    <3> QED
      BY <2>1, <3>1, <3>2 DEF WasKnown
  <2>3. ASSUME NEW v \in Routes, serial' = serial + 1,
               table' = table \union {[id |-> serial + 1, val |-> v,
                                       owner |-> UserOf[s]]}
        PROVE  \A r \in table' : WasKnown(r) \/
                         (r.id = serial + 1 /\ r.owner = UserOf[s])
    BY <2>1, <2>3
  <2> QED
    BY <1>8, <2>1, <2>2, <2>3, StatementEffect
<1> QED
  BY <1>6, <1>7, <1>8, OnlyStatements, SessionAssumption

\* At most one row of the table has a given id, after any step.
LEMMA TableIdsStep ==
    ASSUME TypeOK, IdsIssuedOnce, [Next]_vars
    PROVE  \A r, q \in table' : r.id = q.id => r = q
<1>0. /\ \A r \in table : r \in Rows /\ r.id \in 1 .. serial
      /\ \A r, q \in table : r.id = q.id => r = q
      /\ serial \in Nat
  BY DEF TypeOK, IdsIssuedOnce, Known
<1>1. CASE UNCHANGED dbVars
  BY <1>0, <1>1 DEF dbVars
<1>2. ASSUME NEW s \in Sessions, Statement(s)
      PROVE  \A r, q \in table' : r.id = q.id => r = q
  <2>1. ASSUME NEW v \in Routes,
               table' = table \union {[id |-> serial + 1, val |-> v,
                                       owner |-> UserOf[s]]}
        PROVE  \A r, q \in table' : r.id = q.id => r = q
    BY <1>0, <2>1
  <2>2. ASSUME NEW v \in Routes, NEW id \in Nat, UpdateById(v, id, UserOf[s]),
               NEW r \in table', NEW q \in table', r.id = q.id
        PROVE  r = q
    <3> DEFINE S == Selected(id, UserOf[s])
    <3>1. \A x \in table' : \/ x \in table \ S
                            \/ \E y \in S : x = [y EXCEPT !.val = v]
      BY <2>2 DEF UpdateById
    <3>2. \A y \in S : y \in table /\ [y EXCEPT !.val = v].id = y.id
      BY <1>0 DEF Selected, Rows
    <3>3. CASE r \in table \ S /\ q \in table \ S
      BY <1>0, <2>2, <3>3
    <3>4. ASSUME NEW x \in table \ S, NEW y \in S,
                 x.id = [y EXCEPT !.val = v].id
          PROVE  FALSE
      BY <1>0, <3>2, <3>4
    <3>5. ASSUME NEW x \in S, NEW y \in S,
                 r = [x EXCEPT !.val = v], q = [y EXCEPT !.val = v]
          PROVE  r = q
      <4>1. x.id = y.id
        BY <2>2, <3>2, <3>5
      <4>2. x = y
        BY <1>0, <3>2, <4>1
      <4> QED
        BY <3>5, <4>2
    <3> QED
      BY <2>2, <3>1, <3>3, <3>4, <3>5
  <2> QED
    BY <1>0, <1>2, <2>1, <2>2, StatementEffect
<1> QED
  BY <1>1, <1>2, OnlyStatements

\* Ids stay issued once, and every row keeps the owner of its id.
LEMMA IdsStep ==
    TypeOK /\ IdsIssuedOnce /\ OwnerOfIdFixed /\ [Next]_vars
        => IdsIssuedOnce' /\ OwnerOfIdFixed'
<1> SUFFICES ASSUME TypeOK, IdsIssuedOnce, OwnerOfIdFixed, [Next]_vars
             PROVE  IdsIssuedOnce' /\ OwnerOfIdFixed'
  OBVIOUS
<1>1. serial \in Nat /\ \A r \in Known : r.id \in 1 .. serial
  BY DEF TypeOK, IdsIssuedOnce
<1>2. serial' \in {serial, serial + 1}
  BY KnownStep
<1>3. \A r \in Known' : r.id \in 1 .. serial'
  BY <1>1, <1>2, KnownStep DEF WasKnown
<1>4. OwnerOfIdFixed'
  <2> SUFFICES ASSUME NEW r \in Known', NEW q \in Known', r.id = q.id
               PROVE  r.owner = q.owner
    BY DEF OwnerOfIdFixed
  <2>1. CASE WasKnown(r) /\ WasKnown(q)
    BY <2>1 DEF WasKnown, OwnerOfIdFixed
  <2>2. ASSUME WasKnown(r) PROVE r.id # serial + 1
    BY <1>1, <2>2 DEF WasKnown
  <2>3. ASSUME WasKnown(q) PROVE q.id # serial + 1
    BY <1>1, <2>3 DEF WasKnown
  <2> QED
    BY <2>1, <2>2, <2>3, KnownStep
<1> QED
  BY <1>3, <1>4, TableIdsStep DEF IdsIssuedOnce

\* An id is drawn once and names a row of one owner for ever, in the table
\* and in every list that was ever read from it.
THEOREM IdsAreStable == Spec => [](IdsIssuedOnce /\ OwnerOfIdFixed)
BY TypeInit, TypeStep, KnownInit, IdsStep, PTL DEF Spec

\* The author Database.addNewElement stored with an id is the owner of every
\* version of that route, in the table and in every copy of it.
THEOREM OwnersFixed == Spec => []OwnerOfIdFixed
BY IdsAreStable, PTL

-----------------------------------------------------------------------------
(* Who may change a row, and the abstract specification *)

\* A step that changes or deletes a row is a statement of the session that
\* holds Commands.lock, and the row belongs to its user.
LEMMA OwnRowsStep ==
    ASSUME TypeOK, Serialized, [Next]_vars, NEW r \in table \ table'
    PROVE  \E s \in Sessions : commandsLock = s /\ UserOf[s] = r.owner
<1>1. PICK s \in Sessions : Statement(s)
  BY OnlyStatements DEF dbVars
<1>2. commandsLock = s
  BY <1>1 DEF Statement, Insert, Alter, Loop, Wipe, Serialized, CriticalSteps
<1>3. r.owner = UserOf[s]
  <2>1. ASSUME NEW v \in Routes, NEW id \in Nat, UpdateById(v, id, UserOf[s])
        PROVE  r.owner = UserOf[s]
    BY <2>1 DEF UpdateById, Selected
  <2> QED
    BY <1>1, <2>1, StatementEffect
<1> QED
  BY <1>2, <1>3

\* Only the owner's own commands change or delete a route, one at a time.
THEOREM OwnersOnly == Spec => OnlyOwnRowsChange
<1>1. TypeOK /\ Serialized /\ [Next]_vars =>
        [\A r \in table \ table' :
            \E s \in Sessions : commandsLock = s /\ UserOf[s] = r.owner]_vars
  BY OwnRowsStep
<1> QED
  BY <1>1, TypeInit, TypeStep, SerializedInit, SerializedStep, PTL
  DEF Spec, OnlyOwnRowsChange

\* A statement is a step of the abstract table, or changes nothing.
LEMMA StatementRefines ==
    ASSUME TypeOK, IdsIssuedOnce, NEW s \in Sessions, Statement(s)
    PROVE  [Abstract!Next]_(Abstract!vars)
<1> DEFINE u == UserOf[s]
<1>0. u \in Users
  BY SessionAssumption
<1>1. ASSUME NEW v \in Routes, serial' = serial + 1,
             table' = table \union {[id |-> serial + 1, val |-> v,
                                     owner |-> u]}
      PROVE  Abstract!Next
  BY <1>0, <1>1 DEF Abstract!Next, Abstract!Insert
<1>2. ASSUME serial' = serial + 1, UNCHANGED table PROVE Abstract!Next
  BY <1>2 DEF Abstract!Next, Abstract!Burn
<1>3. ASSUME UNCHANGED serial, NEW S \in SUBSET table,
             \A r \in S : r.owner = u, table' = table \ S
      PROVE  Abstract!Next
  BY <1>0, <1>3 DEF Abstract!Next, Abstract!Remove
<1>4. ASSUME NEW v \in Routes, NEW id \in Nat, UpdateById(v, id, u)
      PROVE  [Abstract!Next]_(Abstract!vars)
  <2>1. CASE Selected(id, u) = {}
    BY <1>4, <2>1 DEF UpdateById, Abstract!vars
  <2>2. ASSUME NEW r \in Selected(id, u) PROVE Abstract!Next
    <3>1. r \in table /\ r.owner = u
      BY DEF Selected
    <3>2. Selected(id, u) = {r}
      BY DEF Selected, IdsIssuedOnce
    <3>3. table' = (table \ {r}) \union {[r EXCEPT !.val = v]}
      BY <1>4, <3>2 DEF UpdateById
    <3> QED
      BY <1>0, <1>4, <3>1, <3>3 DEF UpdateById, Abstract!Next,
         Abstract!Replace
  <2> QED
    BY <2>1, <2>2
<1> QED
  BY <1>1, <1>2, <1>3, <1>4, StatementEffect DEF Abstract!vars

\* The server with all its threads, locks and faults implements the abstract
\* table: each change is atomic, made for one user and on that user's rows.
THEOREM ServerRefinesTable == Spec => ImplementsRouteTable
<1>1. Init => Abstract!Init
  BY DEF Init, Abstract!Init
<1>2. TypeOK /\ IdsIssuedOnce /\ [Next]_vars => [Abstract!Next]_(Abstract!vars)
  BY StatementRefines, OnlyStatements DEF dbVars, Abstract!vars
<1> QED
  BY <1>1, <1>2, TypeInit, TypeStep, KnownInit, IdsStep, PTL
  DEF Spec, ImplementsRouteTable, Abstract!Spec

=============================================================================
