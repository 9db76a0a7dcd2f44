---------------------------- MODULE RouteServer -----------------------------
(***************************************************************************)
(* The shared state of the multithreaded route server of ProgLab8 and the  *)
(* threads that work on it.                                                *)
(*                                                                         *)
(*   table, serial   the PostgreSQL table "routes" and its id sequence;    *)
(*                   DatabaseWorker runs each statement in autocommit mode *)
(*   data            RouteCollection.data, the in-memory copy that every   *)
(*                   query is answered from                                *)
(*   dataLock        RouteCollection.lock; held while data is rewritten    *)
(*   commandsLock    Commands.lock, taken by every command that changes    *)
(*                   the table                                             *)
(*                                                                         *)
(* Threads: one per session, executing Commands.* for the session's user,  *)
(* and the refresher that RouteCollection starts, which copies the table   *)
(* into data every five seconds without taking Commands.lock.              *)
(***************************************************************************)
EXTENDS Integers, Sequences, FiniteSets, Functions

CONSTANTS Sessions,     \* client connections, one Session thread each
          Users,        \* account names
          UserOf,       \* the account each session is logged in with
          Routes,       \* contents of a route: all fields but id and owner
          KeyOf,        \* the place of a content in the order of compareTo
          DistOf,       \* its distance, the leading component of that order
          ReadBack,     \* the content DatabaseWorker reads after storing it
          IdTexts,      \* arguments that remove_by_id may carry
          Decode,       \* the number Integer.decode gives them, or BadNumber
          BadNumber,    \* Integer.decode throws NumberFormatException
          Ops,          \* bound: the commands clients send, by handler name
          Refresher,    \* the thread started by the RouteCollection
          NoThread,     \* a lock nobody holds
          Leaked,       \* a lock whose holder died without releasing it
          MaxId,        \* bound on the ids the sequence hands out
          MaxFaults     \* bound on database errors and server restarts

ASSUME SessionAssumption ==
    /\ UserOf \in [Sessions -> Users]
    /\ Refresher \notin Sessions
    /\ NoThread \notin Sessions \union {Refresher, Leaked}
    /\ Leaked \notin Sessions \union {Refresher}

ASSUME ContentAssumption ==
    /\ KeyOf \in [Routes -> Nat]
    /\ DistOf \in [Routes -> Nat]
    /\ ReadBack \in [Routes -> Routes]
    /\ \A v, w \in Routes : DistOf[v] > DistOf[w] => KeyOf[v] > KeyOf[w]

ASSUME TextAssumption ==
    /\ Decode \in [IdTexts -> Nat \union {BadNumber}]
    /\ BadNumber \notin Nat

ASSUME BoundAssumption ==
    /\ MaxId \in Nat /\ MaxFaults \in Nat
    /\ Ops \subseteq {"add", "addIfMax", "update", "removeById", "clear",
                     "removeGreater", "removeLower", "removeAnyByDistance"}

VARIABLES table, serial, data, dataLock, commandsLock,
          pc,           \* where each thread stands
          job,          \* the request each session is executing
          todo,         \* ids a session still has to delete
          snap,         \* the list getAllRoutes returned to a thread
          faults        \* database errors and restarts so far

dbVars    == <<table, serial>>
cacheVars == <<data, dataLock>>
vars == <<table, serial, data, dataLock, commandsLock, pc, job, todo, snap,
          faults>>

Threads == Sessions \union {Refresher}

Rows == [id : Nat, val : Routes, owner : Users]

\* A request whose handler takes Commands.lock, with its arguments.
Jobs ==
    [op : {"none", "clear"}]
    \union [op : {"add", "addIfMax", "removeGreater", "removeLower"},
            route : Routes]
    \union [op : {"update"}, route : Routes, id : Nat]
    \union [op : {"removeById"}, text : IdTexts]
    \union [op : {"removeAnyByDistance"}, distance : Range(DistOf)]

NoJob == [op |-> "none"]

\* Steps a session takes with Commands.lock in its hands.
CriticalSteps == {"insert", "present", "max", "alter", "decode", "loop",
                  "wipe", "fetch", "update", "write", "unlock"}
SessionSteps == CriticalSteps \union {"idle", "lock", "closed"}
RefresherSteps == {"sleep", "update", "write"}

-----------------------------------------------------------------------------
(* DatabaseWorker *)

\* The row getRoutes builds: from_z and to_z go through getLong.
Load(r) == [r EXCEPT !.val = ReadBack[r.val]]

\* The lists SELECT * without ORDER BY may return.
Listings(t) ==
    LET rows == {Load(r) : r \in t}
    IN  {l \in [1 .. Cardinality(t) -> rows] : Range(l) = rows}

\* MUTANT: the id is counted in the collection, as if there were no sequence.
AddNewRoute_CountsCollection(v, u) ==
    /\ serial' = serial + 1
    /\ table' = table \union {[id |-> Len(data) + 1, val |-> v, owner |-> u]}

AddNewRoute(v, u) ==
    /\ serial' = serial + 1
    /\ table' = table \union {[id |-> serial + 1, val |-> v, owner |-> u]}

\* MUTANT: the WHERE clause forgets the owner.
Selected_AnyOwner(id, u) == {r \in table : r.id = id}

\* The rows the WHERE clause of updateById and removeById selects.
Selected(id, u) == {r \in table : r.id = id /\ r.owner = u}

UpdateById(v, id, u) ==
    /\ table' = (table \ Selected(id, u))
                \union {[r EXCEPT !.val = v] : r \in Selected(id, u)}
    /\ UNCHANGED serial

RemoveById(id, u) ==
    /\ table' = table \ Selected(id, u)
    /\ UNCHANGED serial

\* MUTANT: clear empties the table, as its help text promises.
ClearRoutes_Everything(u) == table' = {} /\ UNCHANGED serial

ClearRoutes(u) ==
    /\ table' = {r \in table : r.owner # u}
    /\ UNCHANGED serial

\* A statement fails with an SQLException. A failed INSERT may have drawn
\* an id: sequences are not rolled back.
Fault == faults < MaxFaults /\ faults' = faults + 1
NoFault == UNCHANGED faults
FailedInsert ==
    /\ serial' \in {serial, serial + 1}
    /\ UNCHANGED table

-----------------------------------------------------------------------------
(* RouteCollection *)

\* updateData leaves data alone when the new list is elementwise equal to it
\* under compareTo, which looks at neither the id nor the owner of a row.
Same(l, m) ==
    /\ Len(l) = Len(m)
    /\ \A i \in 1 .. Len(l) : KeyOf[l[i].val] = KeyOf[m[i].val]

\* getData copies the list without the lock. While another thread is between
\* data.clear() and the end of data.addAll(), the copy may be the old list,
\* the empty list, as many of the new elements as the old size says, or it
\* fails: with nulls in it, or with an index out of bounds.
Reads ==
    {[ok |-> TRUE, list |-> data]}
    \union
    UNION {{[ok |-> TRUE, list |-> <<>>], [ok |-> FALSE, list |-> <<>>]}
           \union {[ok |-> TRUE, list |-> SubSeq(snap[t], 1, n)] :
                      n \in {Len(data)} \intersect (0 .. Len(snap[t]))} :
               t \in {x \in Threads : pc[x] = "write"}}

\* MUTANT: the refresher ends like a command.
AfterLoop_AlwaysCommand(t, left) == IF left = {} THEN "unlock" ELSE "loop"

\* Where a thread goes once the collection is up to date: the loop of
\* removeGreater and removeLower continues, other commands are finished.
AfterLoop(t, left) ==
    IF t = Refresher THEN "sleep" ELSE IF left = {} THEN "unlock" ELSE "loop"

\* MUTANT: the refresher does not survive an SQLException.
Fetch_FaultEnds(t) ==
    /\ pc[t] = IF t = Refresher THEN "sleep" ELSE "fetch"
    /\ \/ /\ \E l \in Listings(table) : snap' = [snap EXCEPT ![t] = l]
          /\ pc' = [pc EXCEPT ![t] = "update"]
          /\ NoFault
       \/ /\ Fault
          /\ pc' = [pc EXCEPT ![t] = IF t = Refresher THEN "ended"
                                     ELSE AfterLoop(t, todo[t])]
          /\ UNCHANGED snap
    /\ UNCHANGED <<dbVars, cacheVars, commandsLock, job, todo>>

\* getAllRoutes, by a command after its statement or by the refresher.
Fetch(t) ==
    /\ pc[t] = IF t = Refresher THEN "sleep" ELSE "fetch"
    /\ \/ /\ \E l \in Listings(table) : snap' = [snap EXCEPT ![t] = l]
          /\ pc' = [pc EXCEPT ![t] = "update"]
          /\ NoFault
       \/ /\ Fault
          /\ pc' = [pc EXCEPT ![t] = AfterLoop(t, todo[t])]
          /\ UNCHANGED snap
    /\ UNCHANGED <<dbVars, cacheVars, commandsLock, job, todo>>

\* updateData: take the lock and compare; an equal list changes nothing.
UpdateData(t) ==
    /\ pc[t] = "update"
    /\ dataLock = NoThread
    /\ IF Same(data, snap[t])
       THEN /\ pc' = [pc EXCEPT ![t] = AfterLoop(t, todo[t])]
            /\ snap' = [snap EXCEPT ![t] = <<>>]
            /\ UNCHANGED dataLock
       ELSE /\ pc' = [pc EXCEPT ![t] = "write"]
            /\ dataLock' = t
            /\ UNCHANGED snap
    /\ UNCHANGED <<dbVars, data, commandsLock, job, todo, faults>>

\* updateData: clear, addAll, unlock.
WriteData(t) ==
    /\ pc[t] = "write"
    /\ data' = snap[t]
    /\ dataLock' = NoThread
    /\ pc' = [pc EXCEPT ![t] = AfterLoop(t, todo[t])]
    /\ snap' = [snap EXCEPT ![t] = <<>>]
    /\ UNCHANGED <<dbVars, commandsLock, job, todo, faults>>

-----------------------------------------------------------------------------
(* Commands: up to the acquisition of the lock *)

\* The filters of removeGreater, removeLower and removeAnyByDistance over
\* the list getData returned, before the lock is taken.
Lower(list, v) == {r.id : r \in {x \in Range(list) : KeyOf[v] > KeyOf[x.val]}}
Greater(list, v) == {r.id : r \in {x \in Range(list) : KeyOf[v] < KeyOf[x.val]}}
AtDistance(list, d) ==
    {r.id : r \in {x \in Range(list) : DistOf[x.val] = d}}

\* A session that waits for a request gets one and its handler reaches
\* lock.lock(), with the ids it will delete already chosen.
Await(s, j, ids) ==
    /\ pc' = [pc EXCEPT ![s] = "lock"]
    /\ job' = [job EXCEPT ![s] = j]
    /\ todo' = [todo EXCEPT ![s] = ids]
    /\ UNCHANGED <<dbVars, cacheVars, commandsLock, snap, faults>>

\* MUTANT: the lock is released whoever holds it.
Die_UnlocksAnyway(s) ==
    /\ pc' = [pc EXCEPT ![s] = "closed"]
    /\ job' = [job EXCEPT ![s] = NoJob]
    /\ todo' = [todo EXCEPT ![s] = {}]
    /\ commandsLock' = NoThread
    /\ UNCHANGED <<dbVars, cacheVars, snap, faults>>

\* The handler throws: Session.run sees an ExecutionException, closes the
\* socket and ends. The lock, if the handler had it, stays locked.
Die(s) ==
    /\ pc' = [pc EXCEPT ![s] = "closed"]
    /\ job' = [job EXCEPT ![s] = NoJob]
    /\ todo' = [todo EXCEPT ![s] = {}]
    /\ commandsLock' = IF commandsLock = s THEN Leaked ELSE commandsLock
    /\ UNCHANGED <<dbVars, cacheVars, snap, faults>>

\* Bound: as many requests as there are ids left for them.
RequestAdd(s) ==
    /\ pc[s] = "idle"
    /\ serial + Cardinality({x \in Sessions :
                               job[x].op \in {"add", "addIfMax"}}) < MaxId
    /\ \E v \in Routes, op \in {"add", "addIfMax"} \intersect Ops :
          Await(s, [op |-> op, route |-> v], {})

\* The client asks CHECK_ID first and sends UPDATE only after TRUE.
RequestUpdate(s) ==
    /\ pc[s] = "idle" /\ "update" \in Ops
    /\ \E m \in Reads :
          \/ /\ m.ok
             /\ \E r \in Range(m.list), v \in Routes :
                   /\ r.owner = UserOf[s]
                   /\ Await(s, [op |-> "update", route |-> v, id |-> r.id], {})
          \/ ~ m.ok /\ Die(s)

RequestRemoveById(s) ==
    /\ pc[s] = "idle" /\ "removeById" \in Ops
    /\ \E x \in IdTexts : Await(s, [op |-> "removeById", text |-> x], {})

RequestClear(s) ==
    /\ pc[s] = "idle" /\ "clear" \in Ops
    /\ Await(s, [op |-> "clear"], {})

RequestRemoveGreater(s) ==
    /\ pc[s] = "idle" /\ "removeGreater" \in Ops
    /\ \E m \in Reads, v \in Routes :
          \/ m.ok /\ Await(s, [op |-> "removeGreater", route |-> v],
                           Lower(m.list, v))
          \/ ~ m.ok /\ Die(s)

RequestRemoveLower(s) ==
    /\ pc[s] = "idle" /\ "removeLower" \in Ops
    /\ \E m \in Reads, v \in Routes :
          \/ m.ok /\ Await(s, [op |-> "removeLower", route |-> v],
                           Greater(m.list, v))
          \/ ~ m.ok /\ Die(s)

RequestRemoveAny(s) ==
    /\ pc[s] = "idle" /\ "removeAnyByDistance" \in Ops
    /\ \E m \in Reads, d \in Range(DistOf) :
          \/ /\ m.ok
             /\ \E ids \in IF AtDistance(m.list, d) = {} THEN {{}}
                           ELSE {{i} : i \in AtDistance(m.list, d)} :
                   Await(s, [op |-> "removeAnyByDistance", distance |-> d],
                         ids)
          \/ ~ m.ok /\ Die(s)

\* info, show, the filters, checkId and getData only read the collection.
Query(s) ==
    /\ pc[s] = "idle"
    /\ \E m \in Reads :
          \/ m.ok /\ UNCHANGED vars
          \/ ~ m.ok /\ Die(s)

-----------------------------------------------------------------------------
(* Commands: with the lock *)

FirstStep(op) ==
    CASE op = "add" -> "insert"
      [] op = "addIfMax" -> "present"
      [] op = "update" -> "alter"
      [] op = "removeById" -> "decode"
      [] op = "clear" -> "wipe"
      [] OTHER -> "loop"

\* MUTANT: tryLock() whose result nobody looks at.
Lock_IgnoresHolder(s) ==
    /\ pc[s] = "lock"
    /\ commandsLock' = s
    /\ pc' = [pc EXCEPT ![s] = FirstStep(job[s].op)]
    /\ UNCHANGED <<dbVars, cacheVars, job, todo, snap, faults>>

Lock(s) ==
    /\ pc[s] = "lock"
    /\ commandsLock = NoThread
    /\ commandsLock' = s
    /\ pc' = [pc EXCEPT ![s] = FirstStep(job[s].op)]
    /\ UNCHANGED <<dbVars, cacheVars, job, todo, snap, faults>>

Unlock(s) ==
    /\ pc[s] = "unlock"
    /\ commandsLock' = NoThread
    /\ pc' = [pc EXCEPT ![s] = "idle"]
    /\ job' = [job EXCEPT ![s] = NoJob]
    /\ UNCHANGED <<dbVars, cacheVars, todo, snap, faults>>

Goto(s, step) == pc' = [pc EXCEPT ![s] = step]

\* MUTANT: the path of addUnsuccessful returns without lock.unlock().
Insert_FailureKeepsLock(s) ==
    /\ pc[s] = "insert"
    /\ \/ /\ AddNewRoute(job[s].route, UserOf[s])
          /\ Goto(s, "fetch") /\ NoFault
       \/ FailedInsert /\ Goto(s, "idle") /\ Fault
    /\ UNCHANGED <<cacheVars, commandsLock, job, todo, snap>>

\* The end of every statement: TRUE leads to getAllRoutes, FALSE past it.
Insert(s) ==
    /\ pc[s] = "insert"
    /\ \/ /\ AddNewRoute(job[s].route, UserOf[s])
          /\ Goto(s, "fetch") /\ NoFault
       \/ FailedInsert /\ Goto(s, "unlock") /\ Fault
    /\ UNCHANGED <<cacheVars, commandsLock, job, todo, snap>>

\* addIfMax: is there a maximum at all?
Present(s) ==
    /\ pc[s] = "present"
    /\ \E m \in Reads :
          \/ /\ m.ok
             /\ Goto(s, IF m.list = <<>> THEN "unlock" ELSE "max")
             /\ UNCHANGED <<dbVars, cacheVars, commandsLock, job, todo, snap,
                            faults>>
          \/ ~ m.ok /\ Die(s)

\* addIfMax reads the list a second time; max().get() of an empty list throws.
Max(s) ==
    /\ pc[s] = "max"
    /\ \E m \in Reads :
          \/ /\ m.ok /\ m.list # <<>>
             /\ Goto(s, IF \A r \in Range(m.list) :
                              KeyOf[job[s].route] > KeyOf[r.val]
                        THEN "insert" ELSE "unlock")
             /\ UNCHANGED <<dbVars, cacheVars, commandsLock, job, todo, snap,
                            faults>>
          \/ (~ m.ok \/ m.list = <<>>) /\ Die(s)

\* update: a count of zero is FALSE, the same as an exception.
Alter(s) ==
    /\ pc[s] = "alter"
    /\ \/ /\ UpdateById(job[s].route, job[s].id, UserOf[s])
          /\ Goto(s, IF Selected(job[s].id, UserOf[s]) = {} THEN "unlock"
                     ELSE "fetch")
          /\ NoFault
       \/ UNCHANGED dbVars /\ Goto(s, "unlock") /\ Fault
    /\ UNCHANGED <<cacheVars, commandsLock, job, todo, snap>>

\* removeById decodes its argument with the lock in its hands.
DecodeId(s) ==
    /\ pc[s] = "decode"
    /\ IF Decode[job[s].text] = BadNumber
       THEN Die(s)
       ELSE /\ todo' = [todo EXCEPT ![s] = {Decode[job[s].text]}]
            /\ Goto(s, "loop")
            /\ UNCHANGED <<dbVars, cacheVars, commandsLock, job, snap, faults>>

\* removeById, and one turn of the loop of removeGreater and removeLower.
\* A DELETE that removes nothing is still TRUE.
Loop(s) ==
    /\ pc[s] = "loop"
    /\ \/ /\ todo[s] = {}
          /\ Goto(s, "unlock")
          /\ UNCHANGED <<dbVars, todo, faults>>
       \/ \E id \in todo[s] :
            /\ todo' = [todo EXCEPT ![s] = @ \ {id}]
            /\ \/ RemoveById(id, UserOf[s]) /\ Goto(s, "fetch") /\ NoFault
               \/ /\ UNCHANGED dbVars
                  /\ Goto(s, AfterLoop(s, todo'[s])) /\ Fault
    /\ UNCHANGED <<cacheVars, commandsLock, job, snap>>

Wipe(s) ==
    /\ pc[s] = "wipe"
    /\ \/ ClearRoutes(UserOf[s]) /\ Goto(s, "fetch") /\ NoFault
       \/ UNCHANGED dbVars /\ Goto(s, "unlock") /\ Fault
    /\ UNCHANGED <<cacheVars, commandsLock, job, todo, snap>>

-----------------------------------------------------------------------------
(* Sessions and the server process *)

\* A client logs in on a new connection; Server starts a Session for it.
Connect(s) ==
    /\ pc[s] = "closed"
    /\ Goto(s, "idle")
    /\ UNCHANGED <<dbVars, cacheVars, commandsLock, job, todo, snap, faults>>

\* The client goes away: GetRequest fails and Session.run ends.
Disconnect(s) ==
    /\ pc[s] = "idle"
    /\ Goto(s, "closed")
    /\ UNCHANGED <<dbVars, cacheVars, commandsLock, job, todo, snap, faults>>

\* The process dies and Server.main runs again: only the database is left,
\* and main fills the new collection before it accepts a client.
Restart ==
    /\ Fault
    /\ data' \in Listings(table)
    /\ dataLock' = NoThread
    /\ commandsLock' = NoThread
    /\ pc' = [t \in Threads |-> IF t = Refresher THEN "sleep" ELSE "closed"]
    /\ job' = [s \in Sessions |-> NoJob]
    /\ todo' = [t \in Threads |-> {}]
    /\ snap' = [t \in Threads |-> <<>>]
    /\ UNCHANGED dbVars

Init ==
    /\ table = {}
    /\ serial = 0
    /\ data = <<>>
    /\ dataLock = NoThread
    /\ commandsLock = NoThread
    /\ pc = [t \in Threads |-> IF t = Refresher THEN "sleep" ELSE "closed"]
    /\ job = [s \in Sessions |-> NoJob]
    /\ todo = [t \in Threads |-> {}]
    /\ snap = [t \in Threads |-> <<>>]
    /\ faults = 0

\* What the client decides: nothing forces these to happen.
Client(s) ==
    \/ Connect(s) \/ Disconnect(s) \/ Query(s)
    \/ RequestAdd(s) \/ RequestUpdate(s) \/ RequestRemoveById(s)
    \/ RequestClear(s) \/ RequestRemoveGreater(s) \/ RequestRemoveLower(s)
    \/ RequestRemoveAny(s)

\* What the session's threads do to execute a request.
Execute(s) ==
    \/ Lock(s) \/ Insert(s) \/ Present(s) \/ Max(s) \/ Alter(s)
    \/ DecodeId(s) \/ Loop(s) \/ Wipe(s) \/ Unlock(s)
    \/ Fetch(s) \/ UpdateData(s) \/ WriteData(s)

Refresh == Fetch(Refresher) \/ UpdateData(Refresher) \/ WriteData(Refresher)

Next ==
    \/ \E s \in Sessions : Client(s) \/ Execute(s)
    \/ Refresh
    \/ Restart

Spec == Init /\ [][Next]_vars

\* Threads that can run do run: the JVM schedules every runnable thread, and
\* sleep(5000) ends. The locks are unfair, so no thread is promised
\* Commands.lock. RouteCollection.lock has one rival who never gives up, the
\* refresher; but it sleeps for five seconds each time it has released the
\* lock and woken up the session that waits, which then finds the lock free.
FairSpec ==
    /\ Spec
    /\ \A s \in Sessions : WF_vars(Execute(s)) /\ SF_vars(UpdateData(s))
    /\ WF_vars(Refresh)

-----------------------------------------------------------------------------
(* Properties *)

\* A step that reads the arguments of its request reads those it has.
JobFits(s) ==
    /\ pc[s] \in {"insert", "present", "max"} =>
          job[s].op \in {"add", "addIfMax"}
    /\ pc[s] = "alter" => job[s].op = "update"
    /\ pc[s] = "decode" => job[s].op = "removeById"

TypeOK ==
    /\ table \in SUBSET Rows /\ IsFiniteSet(table)
    /\ serial \in Nat
    /\ data \in Seq(Rows)
    /\ dataLock \in Threads \union {NoThread}
    /\ commandsLock \in Sessions \union {NoThread, Leaked}
    /\ pc \in [Threads -> SessionSteps \union RefresherSteps]
    /\ \A s \in Sessions : pc[s] \in SessionSteps
    /\ pc[Refresher] \in RefresherSteps
    /\ job \in [Sessions -> Jobs]
    /\ \A s \in Sessions : JobFits(s)
    /\ todo \in [Threads -> SUBSET Nat]
    /\ snap \in [Threads -> Seq(Rows)]
    /\ faults \in Nat

\* Commands.lock really serialises the commands: whoever runs a statement or
\* refreshes the collection for a command is the holder, the holder is always
\* in such a step (a lock lost to an exception is Leaked, never a ghost), and
\* likewise a rewrite of the collection belongs to the holder of its own lock.
Serialized ==
    /\ \A s \in Sessions : pc[s] \in CriticalSteps <=> commandsLock = s
    /\ \A t \in Threads : pc[t] = "write" <=> dataLock = t

\* The list a command copies into the collection is the table as it is at
\* that moment: no statement of another session ran since getAllRoutes. Only
\* the refresher can bring an outdated list.
CommandSnapshotCurrent ==
    \A s \in Sessions :
        pc[s] \in {"update", "write"} => snap[s] \in Listings(table)

\* Rows of the table, of the collection, and of lists on their way there.
Known == table \union Range(data) \union UNION {Range(snap[t]) : t \in Threads}

\* An id names one route of one owner for ever: rows with the same id have
\* the same owner, however old the list they are in. This is what lets
\* checkId, which may look at an old list, answer for the table.
OwnerOfIdFixed == \A r, q \in Known : r.id = q.id => r.owner = q.owner

\* Ids come from the sequence, even those of rows deleted long ago that some
\* list still has, and the table has at most one row for each: an id in an
\* old list can select the row it was taken from or nothing.
IdsIssuedOnce ==
    /\ \A r \in Known : r.id \in 1 .. serial
    /\ \A r, q \in table : r.id = q.id => r = q

\* A row changes or disappears only by a statement of the session that holds
\* Commands.lock and is logged in as the row's owner, whatever list the ids
\* to delete were picked from.
OnlyOwnRowsChange ==
    [][\A r \in table \ table' :
          \E s \in Sessions : commandsLock = s /\ UserOf[s] = r.owner]_vars

\* The table as the abstract specification sees it.
Abstract == INSTANCE RouteTable WITH Users <- Users, Routes <- Routes,
                                     table <- table, serial <- serial
ImplementsRouteTable == Abstract!Spec

\* updateData would leave the collection alone for some order of the rows.
Fresh == \E l \in Listings(table) : Same(data, l)

\* Once the table stops changing, the collection ends up compare-equal to it
\* for good, however late the refresher's lists arrive, even if a command has
\* lost Commands.lock or getAllRoutes failed after a statement.
CollectionConverges ==
    (<>[][UNCHANGED table]_vars) => <>[]Fresh

\* Commands make progress: when one waits for Commands.lock, some command
\* completes, unless an exception has lost the lock.
CommandsProgress ==
    (\E s \in Sessions : pc[s] = "lock") ~>
        \/ \E s \in Sessions : pc[s] = "unlock"
        \/ commandsLock = Leaked
        \/ \A s \in Sessions : pc[s] # "lock"

-----------------------------------------------------------------------------
(* What the help text says of the commands and the code does not do *)

\* Help: "remove_by_id id: remove an element from the collection by its id".
\* Every request the client's check lets through should be carried out.
RemoveByIdCompletes ==
    \A s \in Sessions : pc[s] = "decode" ~> pc[s] = "unlock"

=============================================================================
