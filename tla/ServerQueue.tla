---------------------------- MODULE ServerQueue ----------------------------
(***************************************************************************)
(* The connection queues of HAProxy (src/soa/lab3/haproxy/source): what    *)
(* src/queue.c, and the parts of src/backend.c and src/stream.c that call  *)
(* it, do when the servers of a backend have a "maxconn" and requests have *)
(* to wait.                                                                *)
(*                                                                         *)
(* Every stream is handled by process_stream() on a thread of its own, and *)
(* one more thread changes the state of the servers. The counters served   *)
(* and length are atomic variables outside of any lock, the trees are      *)
(* protected by the lock of their queue, and a pendconn taken out of the   *)
(* proxy's tree by its del_lock. A step of a thread here is what lies      *)
(* between two accesses to something another thread may change at that     *)
(* moment; a critical section that touches nothing else is one step. Tests *)
(* that read several counters without changing any are one step as well:   *)
(* BackendFull, Candidates, MustQueue, MayDequeue, and served in Grab.     *)
(*                                                                         *)
(* The order of a tree depends on priorities any http-request rule may     *)
(* set, so any element may be the first one. maxconn is static             *)
(* (minconn = maxconn), there is no maxqueue, no cookie and no             *)
(* "option redispatch", and the servers are neither tracked nor backups.   *)
(***************************************************************************)
EXTENDS Integers, FiniteSets

CONSTANTS
    Streams,        \* the requests, each with its stream
    Servers,        \* the servers of the backend
    Px,             \* the proxy's queue
    None,           \* NULL
    Admin,          \* the thread that changes the state of servers
    MaxConn,        \* maxconn of every server
    MaxPollEvents,  \* global.tune.maxpollevents
    MaxEvents       \* bound: requests that arrive and changes of a server

Queues == Servers \cup {Px}

ASSUME ConstantsOK ==
    /\ IsFiniteSet(Streams) /\ Servers # {}
    /\ Px \notin Servers /\ None \notin Queues \cup Streams
    /\ Admin \notin Streams
    /\ MaxConn \in Nat \ {0} /\ MaxPollEvents \in Nat \ {0} /\ MaxEvents \in Nat

VARIABLES
    usable,       \* srv_currently_usable(), per server
    served,       \* srv->served
    pxServed,     \* px->served
    length,       \* queue->length
    tree,         \* queue->head: the streams whose pendconn is linked
    lock,         \* the lock of a server's queue: who holds it
    delLock,      \* the streams whose pendconn has its del_lock held
    dequeuing,    \* srv->dequeuing
    pc,           \* where each thread is
    target,       \* strm->target
    assigned,     \* SF_ASSIGNED
    srvConn,      \* strm->srv_conn: the slot the stream holds
    currSess,     \* SF_CURR_SESS
    leaving,      \* the stream has timed out in the queue, or was aborted
    woken,        \* TASK_WOKEN_RES
    pend,         \* strm->pend_pos: the queue of its pendconn, or None
    pendTarget,   \* p->target
    pendAssigned, \* p->strm_flags & SF_ASSIGNED
    work,         \* the local variables of process_srv_queue()
    admin,        \* the server being changed, and the entries moved so far
    changes,      \* how often a server entered or left maintenance
    missed        \* history: one of the four known wake-ups was missed

counters == <<served, pxServed, length, dequeuing>>
queueing == <<tree, lock, delLock>>
entries  == <<pend, pendTarget, pendAssigned>>
flags    == <<target, assigned, srvConn, currSess, leaving>>
serverState == <<usable, admin, changes>>
vars == <<usable, served, pxServed, length, tree, lock, delLock, dequeuing, pc,
          target, assigned, srvConn, currSess, leaving, woken, pend, pendTarget,
          pendAssigned, work, admin, changes, missed>>

NoWork == [pxOk |-> FALSE, done |-> 0, stop |-> FALSE, pick |-> None,
           from |-> None, back |-> "idle"]

-----------------------------------------------------------------------------

(* A stream's steps, grouped by the function that takes them.              *)
StreamSteps ==
    { "idle", "assign", "lookup", "check", "take", "taken", "add", "insert",
      "tryagain", "unqueue", "wait", "dequeued", "unlink",
      "unlinked", "connect", "connected", "release", "released", "maydequeue",
      "loop", "xchg", "lock", "inner", "next", "give", "dec", "inc", "leave",
      "tally", "close", "drop", "dropped", "done" }

AdminSteps == { "idle", "redistribute", "counted", "redistpx", "countedpx",
                "grab", "grabbed" }

(* beconn: the streams of this backend that were not released yet.         *)
Beconn == Cardinality({t \in Streams :
                       pc[t] \notin {"idle", "done"} /\ work[t].back # "drop"})

(* srv->cur_sess: SF_CURR_SESS and the counter change together.            *)
CurSess(s) == Cardinality({t \in Streams : currSess[t] /\ target[t] = s})

(* served is an int, srv_dynamic_maxconn() unsigned: where the two are     *)
(* compared directly a negative served counts as full.                     *)
Full(s) == served[s] < 0 \/ served[s] >= MaxConn

Goto(t, step) == pc' = [pc EXCEPT ![t] = step]

(* The lock of queue q can be taken. The lock of the proxy's queue is only *)
(* held within a step.                                                     *)
Unlocked(q) == q # Px => lock[q] = None

Init ==
    /\ usable \in [Servers -> BOOLEAN]
    /\ served = [s \in Servers |-> 0] /\ pxServed = 0
    /\ length = [q \in Queues |-> 0]
    /\ tree = [q \in Queues |-> {}]
    /\ lock = [s \in Servers |-> None] /\ delLock = {}
    /\ dequeuing = [s \in Servers |-> FALSE]
    /\ pc = [t \in Streams \cup {Admin} |-> "idle"]
    /\ target = [t \in Streams |-> None]
    /\ assigned = [t \in Streams |-> FALSE]
    /\ srvConn = [t \in Streams |-> None]
    /\ currSess = [t \in Streams |-> FALSE]
    /\ leaving = [t \in Streams |-> FALSE]
    /\ woken = [t \in Streams |-> FALSE]
    /\ pend = [t \in Streams |-> None]
    /\ pendTarget = [t \in Streams |-> None]
    /\ pendAssigned = [t \in Streams |-> FALSE]
    /\ work = [t \in Streams |-> NoWork]
    /\ admin = [srv |-> None, xferred |-> 0] /\ changes = 0
    /\ missed = FALSE

-----------------------------------------------------------------------------
(* assign_server() and assign_server_and_queue()                           *)

(* Before the load balancer is asked: no server left, or a queue at the    *)
(* backend that shows that all servers are full.                           *)
BackendFull == length[Px] # 0 /\ pxServed # 0 /\ length[Px] # Beconn

Balance(t) ==
    /\ target' = [target EXCEPT ![t] = None]
    /\ Goto(t, IF \A s \in Servers : ~usable[s] THEN "close"
               ELSE IF BackendFull THEN "add" ELSE "lookup")
    /\ UNCHANGED assigned

EventsLeft == Cardinality({t \in Streams : pc[t] # "idle"}) + changes < MaxEvents

(* Persistence (a cookie, use-server) may have chosen a server already.    *)
NewStream(t) ==
    /\ pc[t] = "idle" /\ EventsLeft
    /\ \/ Balance(t)
       \/ \E s \in Servers :
          /\ usable[s]
          /\ assigned' = [assigned EXCEPT ![t] = TRUE]
          /\ target' = [target EXCEPT ![t] = s]
          /\ Goto(t, "check")
    /\ UNCHANGED <<counters, queueing, entries, serverState, srvConn, currSess,
                   leaving, woken, work, missed>>

AssignServer(t) ==
    /\ pc[t] = "assign"
    /\ Balance(t)
    /\ UNCHANGED <<counters, queueing, entries, serverState, srvConn, currSess,
                   leaving, woken, work, missed>>

(* fwrr_get_next_server(), under the lock of the load balancer: any server *)
(* of the tree that is not saturated.                                      *)
Candidates == {s \in Servers : usable[s] /\ length[s] = 0 /\ ~Full(s)}

LookUpServer(t) ==
    /\ pc[t] = "lookup"
    /\ \/ /\ Candidates = {}
          /\ Goto(t, "add")
          /\ UNCHANGED <<target, assigned>>
       \/ \E s \in Candidates :
          /\ target' = [target EXCEPT ![t] = s]
          /\ assigned' = [assigned EXCEPT ![t] = TRUE]
          /\ Goto(t, "check")
    /\ UNCHANGED <<counters, queueing, entries, serverState, srvConn, currSess,
                   leaving, woken, work, missed>>

(* The server's own queue is used when it has waiters or no slot.          *)
MustQueue(s) == length[s] # 0 \/ Full(s)

CheckRoom(t) ==
    /\ pc[t] = "check"
    /\ Goto(t, IF srvConn[t] = target[t] THEN "connect"
               ELSE IF MustQueue(target[t]) THEN "add" ELSE "take")
    /\ UNCHANGED <<counters, queueing, entries, serverState, flags, woken, work,
                   missed>>

(* sess_change_server(s, srv): two counters, then the stream's own field.  *)
TakeSlot(t) ==
    /\ pc[t] = "take"
    /\ served' = [served EXCEPT ![target[t]] = @ + 1]
    /\ Goto(t, "taken")
    /\ UNCHANGED <<pxServed, length, dequeuing, queueing, entries, serverState,
                   flags, woken, work, missed>>

SlotTaken(t) ==
    /\ pc[t] = "taken"
    /\ pxServed' = pxServed + 1
    /\ srvConn' = [srvConn EXCEPT ![t] = target[t]]
    /\ Goto(t, "connect")
    /\ UNCHANGED <<served, length, dequeuing, queueing, entries, serverState,
                   target, assigned, currSess, leaving, woken, work, missed>>

-----------------------------------------------------------------------------
(* pendconn_add() and pendconn_must_try_again()                            *)

(* The length is incremented before the entry is linked.                   *)
PendconnAdd(t) ==
    /\ pc[t] = "add"
    /\ LET q == IF assigned[t] THEN target[t] ELSE Px IN
       /\ pend' = [pend EXCEPT ![t] = q]
       /\ length' = [length EXCEPT ![q] = @ + 1]
    /\ pendTarget' = [pendTarget EXCEPT ![t] = None]
    /\ pendAssigned' = [pendAssigned EXCEPT ![t] = assigned[t]]
    /\ Goto(t, "insert")
    /\ UNCHANGED <<served, pxServed, dequeuing, queueing, serverState, flags,
                   woken, work, missed>>

\* MUTANT: the check after queueing at a server is left out.
PendconnInsert_NoSecondLook(t) ==
    /\ pc[t] = "insert"
    /\ Unlocked(pend[t])
    /\ tree' = [tree EXCEPT ![pend[t]] = @ \cup {t}]
    /\ Goto(t, IF pend[t] = Px THEN "tryagain" ELSE "wait")
    /\ work' = [work EXCEPT ![t] = [NoWork EXCEPT !.back = "wait"]]
    /\ UNCHANGED <<counters, lock, delLock, entries, serverState, flags, woken,
                   missed>>

(* SC_ST_QUE. On a server's queue may_dequeue_tasks() is asked once more,  *)
(* since the server may have released its last connection meanwhile.       *)
PendconnInsert(t) ==
    /\ pc[t] = "insert"
    /\ Unlocked(pend[t])
    /\ tree' = [tree EXCEPT ![pend[t]] = @ \cup {t}]
    /\ Goto(t, IF pend[t] = Px THEN "tryagain" ELSE "maydequeue")
    /\ work' = [work EXCEPT ![t] = [NoWork EXCEPT !.back = "wait"]]
    /\ UNCHANGED <<counters, lock, delLock, entries, serverState, flags, woken,
                   missed>>

(* px->served is not zero, but no stream has a slot to give back: process_ *)
(* srv_queue() adds what it has handed out at its very end.                *)
ServedLags == pxServed # 0 /\ \A u \in Streams : srvConn[u] = None

MustTryAgain(t) ==
    /\ pc[t] = "tryagain"
    /\ Goto(t, IF t \notin tree[Px] \/ pxServed # 0 THEN "wait" ELSE "unqueue")
    /\ missed' = (missed \/ (t \in tree[Px] /\ ServedLags))
    /\ UNCHANGED <<counters, queueing, entries, serverState, flags, woken, work>>

(* The entry is given back to its pool.                                    *)
FreeEntry(t) ==
    /\ pend' = [pend EXCEPT ![t] = None]
    /\ pendTarget' = [pendTarget EXCEPT ![t] = None]
    /\ pendAssigned' = [pendAssigned EXCEPT ![t] = FALSE]

(* Under both locks: still linked, so nobody else knows the entry.         *)
Unqueue(t) ==
    /\ pc[t] = "unqueue"
    /\ t \notin delLock
    /\ IF t \in tree[Px]
       THEN /\ tree' = [tree EXCEPT ![Px] = @ \ {t}]
            /\ length' = [length EXCEPT ![Px] = @ - 1]
            /\ FreeEntry(t)
            /\ Goto(t, "assign")
       ELSE /\ Goto(t, "wait")
            /\ UNCHANGED <<tree, length, entries>>
    /\ UNCHANGED <<served, pxServed, dequeuing, lock, delLock, serverState, flags,
                   woken, work, missed>>

-----------------------------------------------------------------------------
(* back_try_conn_req(): in the queue, then with a server                   *)

(* pendconn_dequeue(): look, under the lock of the queue. A stream that is *)
(* still linked goes on waiting, or gives up.                              *)
LookAtEntry(t, leave) ==
    /\ pc[t] = "wait"
    /\ Unlocked(pend[t])
    /\ woken' = [woken EXCEPT ![t] = FALSE]
    /\ leaving' = [leaving EXCEPT ![t] = leave]
    /\ Goto(t, IF t \notin tree[pend[t]] THEN "dequeued"
               ELSE IF leave THEN "unlink" ELSE "wait")
    /\ UNCHANGED <<counters, queueing, entries, serverState, target, assigned,
                   srvConn, currSess, work, missed>>

WakeUp(t) == woken[t] /\ LookAtEntry(t, leaving[t])

(* "timeout queue" has passed, or the client has gone.                     *)
GiveUp(t) == LookAtEntry(t, TRUE)

\* MUTANT: the entry is not serialised on del_lock.
Dequeued_NoDelLock(t) ==
    /\ pc[t] = "dequeued"
    /\ LET given == pendTarget[t] # None IN
       /\ assigned' = [assigned EXCEPT ![t] = pendAssigned[t] \/ given]
       /\ target' = [target EXCEPT ![t] = IF given THEN pendTarget[t] ELSE @]
       /\ Goto(t, IF pendAssigned[t] \/ given THEN "connect" ELSE "assign")
    /\ FreeEntry(t)
    /\ UNCHANGED <<counters, queueing, serverState, srvConn, currSess, leaving,
                   woken, work, missed>>

\* MUTANT: the flags are copied from the entry, its server is not.
Dequeued_KeepsTarget(t) ==
    /\ pc[t] = "dequeued"
    /\ t \notin delLock
    /\ assigned' = [assigned EXCEPT ![t] = pendAssigned[t]]
    /\ Goto(t, IF pendAssigned[t] THEN "connect" ELSE "assign")
    /\ FreeEntry(t)
    /\ UNCHANGED <<counters, queueing, serverState, target, srvConn, currSess,
                   leaving, woken, work, missed>>

(* pendconn_dequeue(): wait for del_lock, then the entry is the stream's.  *)
Dequeued(t) ==
    /\ pc[t] = "dequeued"
    /\ t \notin delLock
    /\ LET given == pendTarget[t] # None IN
       /\ assigned' = [assigned EXCEPT ![t] = pendAssigned[t] \/ given]
       /\ target' = [target EXCEPT ![t] = IF given THEN pendTarget[t] ELSE @]
       /\ Goto(t, IF pendAssigned[t] \/ given THEN "connect" ELSE "assign")
    /\ FreeEntry(t)
    /\ UNCHANGED <<counters, queueing, serverState, srvConn, currSess, leaving,
                   woken, work, missed>>

\* MUTANT: the counter follows even if the entry was unlinked already.
PendconnUnlink_AlwaysCounts(t) ==
    /\ pc[t] = "unlink"
    /\ Unlocked(pend[t]) /\ t \notin delLock
    /\ tree' = [tree EXCEPT ![pend[t]] = @ \ {t}]
    /\ Goto(t, "unlinked")
    /\ missed' = (missed \/ t \notin tree[pend[t]])
    /\ UNCHANGED <<counters, lock, delLock, entries, serverState, flags, woken,
                   work>>

(* pendconn_unlink() of a stream that gives up; if somebody else was       *)
(* faster there is nothing to unlink, and the stream closes all the same,  *)
(* with whatever it was given.                                             *)
PendconnUnlink(t) ==
    /\ pc[t] = "unlink"
    /\ Unlocked(pend[t]) /\ t \notin delLock
    /\ tree' = [tree EXCEPT ![pend[t]] = @ \ {t}]
    /\ Goto(t, IF t \in tree[pend[t]] THEN "unlinked" ELSE "close")
    /\ missed' = (missed \/ t \notin tree[pend[t]])
    /\ UNCHANGED <<counters, lock, delLock, entries, serverState, flags, woken,
                   work>>

Unlinked(t) ==
    /\ pc[t] = "unlinked"
    /\ length' = [length EXCEPT ![pend[t]] = @ - 1]
    /\ Goto(t, "close")
    /\ UNCHANGED <<served, pxServed, dequeuing, queueing, entries, serverState,
                   flags, woken, work, missed>>

(* SC_ST_ASS: the client may be gone, the connection may fail for good, or *)
(* it is made.                                                             *)
Connect(t) ==
    /\ pc[t] = "connect"
    /\ \/ /\ currSess' = [currSess EXCEPT ![t] = TRUE]
          /\ Goto(t, "connected")
       \/ UNCHANGED currSess /\ Goto(t, "release")
       \/ UNCHANGED currSess /\ Goto(t, "close")
    /\ UNCHANGED <<counters, queueing, entries, serverState, target, assigned,
                   srvConn, leaving, woken, work, missed>>

(* SC_ST_DIS, and SC_ST_CER without retries left.                          *)
Disconnect(t) ==
    /\ pc[t] = "connected"
    /\ currSess' = [currSess EXCEPT ![t] = FALSE]
    /\ Goto(t, "release")
    /\ UNCHANGED <<counters, queueing, entries, serverState, target, assigned,
                   srvConn, leaving, woken, work, missed>>

(* sess_change_server(s, NULL), then the slot is offered to the queues.    *)
Offer(t, back) ==
    /\ Goto(t, "maydequeue")
    /\ work' = [work EXCEPT ![t] = [NoWork EXCEPT !.back = back]]

ReleaseSlot(t) ==
    /\ pc[t] = "release"
    /\ IF srvConn[t] = None
       THEN Offer(t, "close") /\ UNCHANGED served
       ELSE /\ served' = [served EXCEPT ![srvConn[t]] = @ - 1]
            /\ Goto(t, "released") /\ UNCHANGED work
    /\ UNCHANGED <<pxServed, length, dequeuing, queueing, entries, serverState,
                   flags, woken, missed>>

SlotReleased(t) ==
    /\ pc[t] = "released"
    /\ pxServed' = pxServed - 1
    /\ srvConn' = [srvConn EXCEPT ![t] = None]
    /\ Offer(t, "close")
    /\ UNCHANGED <<served, length, dequeuing, queueing, entries, serverState,
                   target, assigned, currSess, leaving, woken, missed>>

-----------------------------------------------------------------------------
(* may_dequeue_tasks() and process_srv_queue(), for the stream's target    *)

MayDequeue(t) ==
    /\ pc[t] = "maydequeue"
    /\ LET s == target[t] IN
       IF /\ length[s] # 0 \/ (length[Px] # 0 /\ usable[s])
          /\ CurSess(s) < MaxConn
       THEN Goto(t, "loop") /\ work' = [work EXCEPT ![t].pxOk = usable[s]]
       ELSE Goto(t, work[t].back) /\ UNCHANGED work
    /\ UNCHANGED <<counters, queueing, entries, serverState, flags, woken, missed>>

EndLoop(t) == Goto(t, IF work[t].done # 0 THEN "tally" ELSE work[t].back)

(* Here maxconn is an int: a negative served is below it.                  *)
Loop(t) ==
    /\ pc[t] = "loop"
    /\ LET s == target[t] IN
       IF /\ ~work[t].stop
          /\ work[t].done < MaxPollEvents \/ served[s] = 0
          /\ served[s] < MaxConn
       THEN Goto(t, "xchg") ELSE EndLoop(t)
    /\ UNCHANGED <<counters, queueing, entries, serverState, flags, woken, work,
                   missed>>

(* The thread in charge of s has found nothing and will not look again, or *)
(* has seen s in maintenance and does not look at the proxy's queue, where *)
(* t would.                                                                *)
InCharge(h, s) ==
    /\ target[h] = s
    /\ pc[h] \in {"lock", "inner", "next", "give", "dec", "inc", "leave"}

LeftToNobody(t) ==
    \E h \in Streams :
        /\ InCharge(h, target[t])
        /\ \/ pc[h] = "leave" /\ work[h].stop
           \/ work[t].pxOk /\ ~work[h].pxOk

(* A thread that finds somebody else dequeuing leaves the work to it.      *)
Xchg(t) ==
    /\ pc[t] = "xchg"
    /\ dequeuing' = [dequeuing EXCEPT ![target[t]] = TRUE]
    /\ IF dequeuing[target[t]] THEN EndLoop(t) ELSE Goto(t, "lock")
    /\ missed' = (missed \/ (dequeuing[target[t]] /\ LeftToNobody(t)))
    /\ UNCHANGED <<served, pxServed, length, queueing, entries, serverState, flags,
                   woken, work>>

LockQueue(t) ==
    /\ pc[t] = "lock"
    /\ Unlocked(target[t])
    /\ lock' = [lock EXCEPT ![target[t]] = t]
    /\ Goto(t, "inner")
    /\ UNCHANGED <<counters, tree, delLock, entries, serverState, flags, woken,
                   work, missed>>

Inner(t) ==
    /\ pc[t] = "inner"
    /\ Goto(t, IF served[target[t]] < MaxConn THEN "next" ELSE "leave")
    /\ UNCHANGED <<counters, queueing, entries, serverState, flags, woken, work,
                   missed>>

(* pendconn_process_next_strm(): the entry p of the server's queue gets    *)
(* the server and the slot before its stream can see it unlinked.          *)
TakeOwn(t, p) ==
    LET s == target[t] IN
    /\ tree' = [tree EXCEPT ![s] = @ \ {p}]
    /\ pendTarget' = [pendTarget EXCEPT ![p] = s]
    /\ pendAssigned' = [pendAssigned EXCEPT ![p] = TRUE]
    /\ srvConn' = [srvConn EXCEPT ![p] = s]
    /\ woken' = [woken EXCEPT ![p] = TRUE]
    /\ work' = [work EXCEPT ![t].from = s]
    /\ Goto(t, "dec")
    /\ UNCHANGED delLock

(* The entry p of the proxy's queue is unlinked first; its del_lock keeps  *)
(* the stream from freeing it.                                             *)
TakePx(t, p) ==
    /\ p \notin delLock
    /\ tree' = [tree EXCEPT ![Px] = @ \ {p}]
    /\ delLock' = delLock \cup {p}
    /\ work' = [work EXCEPT ![t].from = Px, ![t].pick = p]
    /\ Goto(t, "give")
    /\ UNCHANGED <<pendTarget, pendAssigned, srvConn, woken>>

ProcessNext(t) ==
    /\ pc[t] = "next"
    /\ LET s   == target[t]
           own == IF length[s] # 0 THEN tree[s] ELSE {}
           px  == IF work[t].pxOk /\ length[Px] # 0 THEN tree[Px] ELSE {}
       IN \/ \E p \in own : TakeOwn(t, p)
          \/ \E p \in px : TakePx(t, p)
          \/ /\ own \cup px = {}
             /\ work' = [work EXCEPT ![t].stop = TRUE]
             /\ Goto(t, "leave")
             /\ UNCHANGED <<tree, delLock, pendTarget, pendAssigned, srvConn, woken>>
    /\ UNCHANGED <<counters, lock, pend, serverState, target, assigned, currSess,
                   leaving, missed>>

Give(t) ==
    /\ pc[t] = "give"
    /\ LET p == work[t].pick IN
       /\ pendTarget' = [pendTarget EXCEPT ![p] = target[t]]
       /\ pendAssigned' = [pendAssigned EXCEPT ![p] = TRUE]
       /\ srvConn' = [srvConn EXCEPT ![p] = target[t]]
       /\ woken' = [woken EXCEPT ![p] = TRUE]
       /\ delLock' = delLock \ {p}
    /\ Goto(t, "dec")
    /\ UNCHANGED <<counters, tree, lock, pend, serverState, target, assigned,
                   currSess, leaving, work, missed>>

\* MUTANT: the server's counter, whichever queue the entry was in.
DecLength_OfServer(t) ==
    /\ pc[t] = "dec"
    /\ length' = [length EXCEPT ![target[t]] = @ - 1]
    /\ Goto(t, "inc")
    /\ UNCHANGED <<served, pxServed, dequeuing, queueing, entries, serverState,
                   flags, woken, work, missed>>

(* The counters follow when the stream may already be running.             *)
DecLength(t) ==
    /\ pc[t] = "dec"
    /\ length' = [length EXCEPT ![work[t].from] = @ - 1]
    /\ Goto(t, "inc")
    /\ UNCHANGED <<served, pxServed, dequeuing, queueing, entries, serverState,
                   flags, woken, work, missed>>

\* MUTANT: the slot that was handed out is not counted.
IncServed_Forgotten(t) ==
    /\ pc[t] = "inc"
    /\ work' = [work EXCEPT ![t].done = @ + 1, ![t].pick = None, ![t].from = None]
    /\ Goto(t, IF work[t].done + 1 >= MaxPollEvents THEN "leave" ELSE "inner")
    /\ UNCHANGED <<served, pxServed, length, dequeuing, queueing, entries,
                   serverState, flags, woken, missed>>

IncServed(t) ==
    /\ pc[t] = "inc"
    /\ served' = [served EXCEPT ![target[t]] = @ + 1]
    /\ work' = [work EXCEPT ![t].done = @ + 1, ![t].pick = None, ![t].from = None]
    /\ Goto(t, IF work[t].done + 1 >= MaxPollEvents THEN "leave" ELSE "inner")
    /\ UNCHANGED <<pxServed, length, dequeuing, queueing, entries, serverState,
                   flags, woken, missed>>

LeaveQueue(t) ==
    /\ pc[t] = "leave"
    /\ dequeuing' = [dequeuing EXCEPT ![target[t]] = FALSE]
    /\ lock' = [lock EXCEPT ![target[t]] = None]
    /\ Goto(t, "loop")
    /\ UNCHANGED <<served, pxServed, length, tree, delLock, entries, serverState,
                   flags, woken, work, missed>>

Tally(t) ==
    /\ pc[t] = "tally"
    /\ pxServed' = pxServed + work[t].done
    /\ work' = [work EXCEPT ![t] = [NoWork EXCEPT !.back = work[t].back]]
    /\ Goto(t, work[t].back)
    /\ UNCHANGED <<served, length, dequeuing, queueing, entries, serverState, flags,
                   woken, missed>>

-----------------------------------------------------------------------------
(* The end of process_stream() and stream_free()                           *)

(* beconn, then pendconn_free(). The queues are looked at before a slot    *)
(* the stream still has is given back.                                     *)
Close(t) ==
    /\ pc[t] = "close"
    /\ pend[t] # None => Unlocked(pend[t]) /\ t \notin delLock
    /\ tree' = [q \in Queues |-> IF q = pend[t] THEN tree[q] \ {t} ELSE tree[q]]
    /\ length' = [q \in Queues |-> IF q = pend[t] /\ t \in tree[q]
                                   THEN length[q] - 1 ELSE length[q]]
    /\ FreeEntry(t)
    /\ currSess' = [currSess EXCEPT ![t] = FALSE]
    /\ work' = [work EXCEPT ![t] = [NoWork EXCEPT !.back = "drop"]]
    /\ Goto(t, IF target[t] # None THEN "maydequeue" ELSE "drop")
    /\ UNCHANGED <<served, pxServed, dequeuing, lock, delLock, serverState, target,
                   assigned, srvConn, leaving, woken, missed>>

(* The memory of the stream is given back.                                 *)
FreeStream(t) ==
    /\ target' = [target EXCEPT ![t] = None]
    /\ assigned' = [assigned EXCEPT ![t] = FALSE]
    /\ srvConn' = [srvConn EXCEPT ![t] = None]
    /\ leaving' = [leaving EXCEPT ![t] = FALSE]
    /\ woken' = [woken EXCEPT ![t] = FALSE]
    /\ work' = [work EXCEPT ![t] = NoWork]
    /\ Goto(t, "done")

Drop(t) ==
    /\ pc[t] = "drop"
    /\ \/ srvConn[t] = None /\ FreeStream(t) /\ UNCHANGED served
       \/ /\ srvConn[t] # None
          /\ served' = [served EXCEPT ![srvConn[t]] = @ - 1]
          /\ Goto(t, "dropped")
          /\ UNCHANGED <<target, assigned, srvConn, leaving, woken, work>>
    /\ UNCHANGED <<pxServed, length, dequeuing, queueing, entries, serverState,
                   currSess, missed>>

Dropped(t) ==
    /\ pc[t] = "dropped"
    /\ pxServed' = pxServed - 1
    /\ missed' = TRUE
    /\ FreeStream(t)
    /\ UNCHANGED <<served, length, dequeuing, queueing, entries, serverState,
                   currSess>>

-----------------------------------------------------------------------------
(* _srv_update_status_adm(): a server enters and leaves maintenance        *)

SetMaint(s) ==
    /\ pc[Admin] = "idle" /\ usable[s] /\ EventsLeft
    /\ usable' = [usable EXCEPT ![s] = FALSE]
    /\ changes' = changes + 1
    /\ admin' = [srv |-> s, xferred |-> 0]
    /\ Goto(Admin, "redistribute")
    /\ UNCHANGED <<counters, queueing, entries, flags, woken, work, missed>>

(* The entries W of queue q leave it and their streams are woken up.       *)
TakeOut(q, W) ==
    /\ tree' = [tree EXCEPT ![q] = @ \ W]
    /\ woken' = [t \in Streams |-> woken[t] \/ t \in W]
    /\ admin' = [admin EXCEPT !.xferred = Cardinality(W)]

(* The length of queue q follows.                                          *)
CountOut(q) ==
    /\ length' = [length EXCEPT ![q] = @ - admin.xferred]
    /\ admin' = [admin EXCEPT !.xferred = 0]

(* pendconn_redistribute(): its own queue goes back to the dispatcher, ... *)
Redistribute ==
    /\ pc[Admin] = "redistribute"
    /\ Unlocked(admin.srv)
    /\ TakeOut(admin.srv, tree[admin.srv])
    /\ pendAssigned' = [t \in Streams |-> pendAssigned[t] /\ t \notin tree[admin.srv]]
    /\ Goto(Admin, "counted")
    /\ UNCHANGED <<counters, lock, delLock, pend, pendTarget, flags, usable, changes,
                   work, missed>>

Counted ==
    /\ pc[Admin] = "counted"
    /\ CountOut(admin.srv)
    /\ Goto(Admin, IF \E s \in Servers : usable[s] THEN "idle" ELSE "redistpx")
    /\ UNCHANGED <<served, pxServed, dequeuing, queueing, entries, flags, usable,
                   changes, woken, work, missed>>

(* ... and the proxy's queue too when no server is left.                   *)
RedistributePx ==
    /\ pc[Admin] = "redistpx"
    /\ TakeOut(Px, tree[Px])
    /\ Goto(Admin, "countedpx")
    /\ UNCHANGED <<counters, lock, delLock, entries, flags, usable, changes, work,
                   missed>>

(* pendconn_grab_from_px(): a server coming up takes what it has room for. *)
(* The entries get a target, and no slot is counted for them.              *)
SetReady(s) ==
    /\ pc[Admin] = "idle" /\ ~usable[s] /\ EventsLeft
    /\ usable' = [usable EXCEPT ![s] = TRUE]
    /\ changes' = changes + 1
    /\ admin' = [srv |-> s, xferred |-> 0]
    /\ Goto(Admin, "grab")
    /\ UNCHANGED <<counters, queueing, entries, flags, woken, work, missed>>

Grab ==
    /\ pc[Admin] = "grab"
    /\ \E W \in SUBSET tree[Px] :
       /\ Cardinality(W) <= MaxConn - served[admin.srv] \/ W = {}
       /\ W = tree[Px] \/ Cardinality(W) >= MaxConn - served[admin.srv]
       /\ TakeOut(Px, W)
       /\ pendTarget' = [t \in Streams |-> IF t \in W THEN admin.srv
                                                      ELSE pendTarget[t]]
    /\ Goto(Admin, "countedpx")
    /\ UNCHANGED <<counters, lock, delLock, pend, pendAssigned, flags, usable, changes,
                   work, missed>>

CountedPx ==
    /\ pc[Admin] = "countedpx"
    /\ CountOut(Px)
    /\ Goto(Admin, "idle")
    /\ UNCHANGED <<served, pxServed, dequeuing, queueing, entries, flags, usable,
                   changes, woken, work, missed>>

-----------------------------------------------------------------------------

(* The steps a thread takes once it runs.                                  *)
Step(t) ==
    \/ AssignServer(t) \/ LookUpServer(t) \/ CheckRoom(t) \/ TakeSlot(t)
    \/ SlotTaken(t) \/ PendconnAdd(t) \/ PendconnInsert(t) \/ MustTryAgain(t)
    \/ Unqueue(t) \/ WakeUp(t) \/ Dequeued(t) \/ PendconnUnlink(t)
    \/ Unlinked(t) \/ Connect(t) \/ Disconnect(t) \/ ReleaseSlot(t)
    \/ SlotReleased(t) \/ MayDequeue(t) \/ Loop(t) \/ Xchg(t) \/ LockQueue(t)
    \/ Inner(t) \/ ProcessNext(t) \/ Give(t) \/ DecLength(t) \/ IncServed(t)
    \/ LeaveQueue(t) \/ Tally(t) \/ Close(t) \/ Drop(t) \/ Dropped(t)

AdminStep == Redistribute \/ Counted \/ RedistributePx \/ Grab \/ CountedPx

Next ==
    \/ \E t \in Streams : NewStream(t) \/ GiveUp(t) \/ Step(t)
    \/ \E s \in Servers : SetMaint(s) \/ SetReady(s)
    \/ AdminStep

Spec == Init /\ [][Next]_vars

-----------------------------------------------------------------------------
(* Properties                                                              *)

TypeOK ==
    /\ usable \in [Servers -> BOOLEAN] /\ dequeuing \in [Servers -> BOOLEAN]
    /\ served \in [Servers -> Int] /\ pxServed \in Int
    /\ length \in [Queues -> Nat]
    /\ tree \in [Queues -> SUBSET Streams]
    /\ lock \in [Servers -> Streams \cup {None}] /\ delLock \subseteq Streams
    /\ \A t \in Streams : pc[t] \in StreamSteps
    /\ pc[Admin] \in AdminSteps
    /\ target \in [Streams -> Servers \cup {None}]
    /\ srvConn \in [Streams -> Servers \cup {None}]
    /\ pend \in [Streams -> Queues \cup {None}]
    /\ pendTarget \in [Streams -> Servers \cup {None}]
    /\ assigned \in [Streams -> BOOLEAN] /\ currSess \in [Streams -> BOOLEAN]
    /\ leaving \in [Streams -> BOOLEAN] /\ woken \in [Streams -> BOOLEAN]
    /\ pendAssigned \in [Streams -> BOOLEAN] /\ missed \in BOOLEAN

CountOf(P(_)) == Cardinality({t \in Streams : P(t)})

(* The unlocked counter of a queue is the number of linked entries plus    *)
(* those on their way in or out: nobody counts an entry twice or forgets   *)
(* one, so "queue.length" is zero only when nobody waits (queue.c,         *)
(* pendconn_add(), pendconn_unlink(), the three functions that dequeue).   *)
LengthLedger ==
    \A q \in Queues :
        length[q] = Cardinality(tree[q])
          + CountOf(LAMBDA t : pc[t] \in {"insert", "unlinked"} /\ pend[t] = q)
          + CountOf(LAMBDA t : pc[t] \in {"give", "dec"} /\ work[t].from = q)
          + (IF (pc[Admin] = "counted" /\ q = admin.srv)
                \/ (pc[Admin] = "countedpx" /\ q = Px)
             THEN admin.xferred ELSE 0)

(* srv->served is the number of streams that hold a slot of the server,    *)
(* but for the steps between the change of srv_conn and of the counter: a  *)
(* slot is never lost and never given back twice (stream.c,                *)
(* sess_change_server(), and queue.c, process_srv_queue()).                *)
SlotLedger ==
    \A s \in Servers :
        served[s] = CountOf(LAMBDA t : srvConn[t] = s)
          + CountOf(LAMBDA t : pc[t] = "taken" /\ target[t] = s)
          - CountOf(LAMBDA t : pc[t] \in {"released", "dropped"} /\ srvConn[t] = s)
          - CountOf(LAMBDA t : pc[t] \in {"dec", "inc"} /\ target[t] = s)

(* The thread that has taken an entry from the proxy's queue and let its   *)
(* lock go still finds the entry, and the stream behind it, when it writes *)
(* to them: del_lock keeps pendconn_dequeue() and pendconn_free() away.    *)
PendconnAlive ==
    \A t \in Streams : pc[t] = "give" => pend[work[t].pick] = Px

(* A slot is held on the server the stream talks to: what the queue handed *)
(* out and what the stream has copied from its entry agree (stream.c,      *)
(* stream_free(): "it should normally be only the same").                  *)
SlotOfTarget ==
    \A t \in Streams :
        pc[t] \in {"connect", "connected", "release", "released"}
          /\ srvConn[t] # None
        => srvConn[t] = target[t]

(* No thread has anything left to do but to wait for a wake-up.            *)
Quiescent ==
    /\ pc[Admin] = "idle"
    /\ \A t \in Streams : pc[t] \in {"idle", "done"} \/ (pc[t] = "wait" /\ ~woken[t])

(* When everything has come to rest nobody is left in a server's queue,    *)
(* and in the proxy's only while some server is in maintenance, unless one *)
(* of four wake-ups was missed (variable missed): the checks after         *)
(* pendconn_add(), the dequeuing flag, the last look at served and the     *)
(* redistribution cover every other order of events.                       *)
NoneStranded ==
    Quiescent /\ ~missed =>
        /\ \A s \in Servers : tree[s] = {}
        /\ tree[Px] # {} => \E s \in Servers : ~usable[s]

(* queue.c on pendconn_process_next_strm(): "no request will be left       *)
(* unserved", and on process_srv_queue(): "at least one of them will check *)
(* the conditions again before quitting".                                  *)
NoneLeftUnserved ==
    Quiescent /\ (\A s \in Servers : usable[s]) /\ changes = 0 =>
        \A q \in Queues : tree[q] = {}

=============================================================================
