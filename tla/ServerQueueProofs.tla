-------------------------- MODULE ServerQueueProofs --------------------------
(***************************************************************************)
(* Theorems about ServerQueue, for any number of streams, servers, slots   *)
(* and events. The ledgers and the lifetime of an entry rest on one fact:  *)
(* whoever writes to an entry that is not its own has found it linked, or  *)
(* holds its del_lock, and such an entry is still in the hands of a stream *)
(* that waits.                                                             *)
(***************************************************************************)
EXTENDS ServerQueue, FiniteSetTheorems, TLAPS

-----------------------------------------------------------------------------
(* The inductive invariant *)

\* The groups of variables are only names.
USE DEF counters, queueing, entries, flags, serverState

\* The steps of may_dequeue_tasks() and process_srv_queue().
WorkSteps == {"maydequeue", "loop", "xchg", "lock", "inner", "next", "give",
              "dec", "inc", "leave", "tally"}

\* The stream's entry was linked once and is not freed yet.
Queued(t) ==
    \/ pc[t] \in {"tryagain", "unqueue", "wait", "dequeued", "unlink"}
    \/ pc[t] \in WorkSteps /\ work[t].back = "wait"

WorkRecords == [pxOk : BOOLEAN, done : Nat, stop : BOOLEAN,
                pick : Streams \cup {None}, from : Queues \cup {None},
                back : {"idle", "wait", "close", "drop"}]

\* TypeOK but for the sign of length, which only the ledger knows, and with
\* the types of the variables that are local to a thread.
StepTyped ==
    /\ pc \in [Streams \cup {Admin} -> StreamSteps \cup AdminSteps]
    /\ \A t \in Streams : pc[t] \in StreamSteps
    /\ pc[Admin] \in AdminSteps

DataTyped ==
    /\ usable \in [Servers -> BOOLEAN] /\ dequeuing \in [Servers -> BOOLEAN]
    /\ served \in [Servers -> Int] /\ pxServed \in Int
    /\ length \in [Queues -> Int]
    /\ tree \in [Queues -> SUBSET Streams]
    /\ lock \in [Servers -> Streams \cup {None}] /\ delLock \in SUBSET Streams
    /\ target \in [Streams -> Servers \cup {None}]
    /\ srvConn \in [Streams -> Servers \cup {None}]
    /\ pend \in [Streams -> Queues \cup {None}]
    /\ pendTarget \in [Streams -> Servers \cup {None}]
    /\ assigned \in [Streams -> BOOLEAN] /\ currSess \in [Streams -> BOOLEAN]
    /\ leaving \in [Streams -> BOOLEAN] /\ woken \in [Streams -> BOOLEAN]
    /\ pendAssigned \in [Streams -> BOOLEAN] /\ missed \in BOOLEAN
    /\ work \in [Streams -> WorkRecords]
    /\ admin \in [srv : Servers \cup {None}, xferred : Nat]
    /\ changes \in Nat

Typed == StepTyped /\ DataTyped

\* A stream that waits, or is about to, waits where its flags say.
QueueOfFlags(t) ==
    /\ assigned[t] => target[t] \in Servers
    /\ pend[t] = IF assigned[t] THEN target[t] ELSE Px

\* What a thread knows about its own stream at each step.
OwnStream(t) ==
    /\ pc[t] \in {"idle", "assign", "lookup", "done"} =>
          srvConn[t] = None /\ ~assigned[t]
    /\ pc[t] = "add" =>
          srvConn[t] = None /\ (assigned[t] => target[t] \in Servers)
    /\ pc[t] \in {"check", "take", "taken"} =>
          srvConn[t] = None /\ assigned[t] /\ target[t] \in Servers
    /\ pc[t] = "insert" =>
          /\ srvConn[t] = None /\ QueueOfFlags(t)
          /\ pendTarget[t] = None /\ pendAssigned[t] = assigned[t]
    /\ Queued(t) =>
          /\ QueueOfFlags(t)
          /\ srvConn[t] # None => srvConn[t] = pendTarget[t]
          /\ pendAssigned[t] => assigned[t] \/ pendTarget[t] # None
    /\ pc[t] = "unlinked" => pend[t] \in Queues
    /\ pc[t] \in {"connect", "connected", "release", "released"} =>
          /\ target[t] \in Servers
          /\ srvConn[t] # None => srvConn[t] = target[t]
    /\ pc[t] \in {"released", "dropped"} => srvConn[t] # None
    /\ pc[t] \in WorkSteps =>
          work[t].back \in {"wait", "close", "drop"} /\ target[t] \in Servers

\* A linked entry belongs to a stream that waits there and has no slot yet.
Linked ==
    \A q \in Queues : \A t \in tree[q] :
        Queued(t) /\ pc[t] # "dequeued" /\ pend[t] = q /\ srvConn[t] = None

\* So does an entry that a thread has taken from the proxy's queue, and its
\* del_lock is held for that one thread.
Picked ==
    \A u \in Streams : pc[u] = "give" =>
        /\ work[u].pick \in delLock /\ work[u].pick \notin tree[Px]
        /\ Queued(work[u].pick) /\ pend[work[u].pick] = Px
        /\ srvConn[work[u].pick] = None
        /\ \A v \in Streams :
              pc[v] = "give" /\ work[v].pick = work[u].pick => v = u

\* The thread that changes servers knows which one.
AdminOK == pc[Admin] # "idle" => admin.srv \in Servers

Inv ==
    /\ Typed
    /\ \A t \in Streams : OwnStream(t)
    /\ Linked
    /\ Picked
    /\ AdminOK

\* The local variables as process_srv_queue() starts with them.
LEMMA FreshWork ==
    ASSUME NEW b \in {"idle", "wait", "close", "drop"}
    PROVE  [NoWork EXCEPT !.back = b] \in WorkRecords /\ NoWork \in WorkRecords
BY DEF NoWork, WorkRecords

\* Updates of single fields.
LEMMA WorkUpdates ==
    ASSUME NEW w \in WorkRecords, NEW b \in BOOLEAN, NEW n \in Nat,
           NEW p \in Streams \cup {None}, NEW q \in Queues \cup {None}
    PROVE  /\ [w EXCEPT !.pxOk = b] \in WorkRecords
           /\ [w EXCEPT !.stop = b] \in WorkRecords
           /\ [w EXCEPT !.from = q] \in WorkRecords
           /\ [w EXCEPT !.from = q, !.pick = p] \in WorkRecords
           /\ [w EXCEPT !.done = n, !.pick = p, !.from = q] \in WorkRecords
<1>1. [w EXCEPT !.pxOk = b] \in WorkRecords
  BY DEF WorkRecords
<1>2. [w EXCEPT !.stop = b] \in WorkRecords
  BY DEF WorkRecords
<1>3. [w EXCEPT !.from = q] \in WorkRecords
  BY DEF WorkRecords
<1>4. [w EXCEPT !.from = q, !.pick = p] \in WorkRecords
  BY DEF WorkRecords
<1>5. [w EXCEPT !.done = n, !.pick = p, !.from = q] \in WorkRecords
  BY DEF WorkRecords
<1> QED
  BY <1>1, <1>2, <1>3, <1>4, <1>5

\* A queue has finitely many entries.
LEMMA EntriesFinite ==
    ASSUME NEW W \in SUBSET Streams
    PROVE  IsFiniteSet(W) /\ Cardinality(W) \in Nat
BY ConstantsOK, FS_Subset, FS_CardinalityType

-----------------------------------------------------------------------------
(* Steps of a stream's own thread *)

\* Nothing of another stream changes.
OthersKept(t) ==
    /\ \A u \in Streams \ {t} :
          /\ work'[u] = work[u]
          /\ target'[u] = target[u] /\ assigned'[u] = assigned[u]
          /\ srvConn'[u] = srvConn[u] /\ pend'[u] = pend[u]
          /\ pendTarget'[u] = pendTarget[u] /\ pendAssigned'[u] = pendAssigned[u]
          /\ \A q \in Queues : u \in tree'[q] <=> u \in tree[q]
    /\ UNCHANGED <<delLock, admin>>

\* What others may know of the stream's entry stays true.
EntryKept(t) ==
    /\ \A q \in Queues : t \in tree'[q] =>
          Queued(t)' /\ pc'[t] # "dequeued" /\ pend'[t] = q /\ srvConn'[t] = None
    /\ t \in delLock /\ Queued(t) /\ pend[t] = Px /\ srvConn[t] = None =>
          Queued(t)' /\ pend'[t] = Px /\ srvConn'[t] = None
    /\ Queued(t) => \A q \in Queues : t \in tree'[q] => t \in tree[q]

\* Such a step keeps the invariant if it keeps it for its own stream.
LEMMA OwnStep ==
    ASSUME Inv, NEW t \in Streams, NEW to \in StreamSteps \ {"give"},
           pc' = [pc EXCEPT ![t] = to], DataTyped', OthersKept(t), EntryKept(t),
           OwnStream(t)'
    PROVE  Inv'
<1>1. /\ pc'[t] # "give" /\ pc'[Admin] = pc[Admin]
      /\ \A u \in Streams \ {t} : pc'[u] = pc[u]
  BY ConstantsOK DEF Inv, Typed, StepTyped, DataTyped, StepTyped
<1>2. Typed'
  BY <1>1 DEF Inv, Typed, StepTyped, DataTyped, StepTyped
<1>3. \A u \in Streams \ {t} : Queued(u)' <=> Queued(u)
  BY <1>1 DEF OthersKept, Queued
<1>4. \A u \in Streams : OwnStream(u)'
  BY <1>3, <1>1 DEF Inv, OwnStream, OthersKept, QueueOfFlags
<1>5. Linked'
  <2> SUFFICES ASSUME NEW q \in Queues, NEW u \in tree'[q]
               PROVE  /\ Queued(u)' /\ pc'[u] # "dequeued"
                      /\ pend'[u] = q /\ srvConn'[u] = None
    BY DEF Linked
  <2>1. u \in Streams
    BY <1>2 DEF Typed, DataTyped
  <2> QED
    BY <1>3, <1>1, <2>1 DEF Inv, Linked, OthersKept, EntryKept
<1>6. Picked'
  <2> SUFFICES ASSUME NEW u \in Streams, pc'[u] = "give"
               PROVE  (/\ work[u].pick \in delLock /\ work[u].pick \notin tree[Px]
                       /\ Queued(work[u].pick) /\ pend[work[u].pick] = Px
                       /\ srvConn[work[u].pick] = None
                       /\ \A v \in Streams :
                             pc[v] = "give" /\ work[v].pick = work[u].pick => v = u)'
    BY DEF Picked
  <2>1. u # t /\ pc[u] = "give" /\ work'[u] = work[u] /\ delLock' = delLock
    BY <1>1 DEF OthersKept
  <2>2. PICK p \in Streams : p = work[u].pick
    BY <2>1 DEF Inv, Picked, Typed, DataTyped
  <2>3. /\ p \in delLock /\ p \notin tree[Px]
        /\ Queued(p) /\ pend[p] = Px /\ srvConn[p] = None
    BY <2>1, <2>2 DEF Inv, Picked
  <2>4. /\ p \notin tree'[Px]
        /\ Queued(p)' /\ pend'[p] = Px /\ srvConn'[p] = None
    BY <2>3, <1>3 DEF OthersKept, EntryKept, Queues
  <2>5. ASSUME NEW v \in Streams, pc'[v] = "give", work'[v].pick = work'[u].pick
        PROVE  v = u
    BY <1>1, <2>1, <2>5 DEF Inv, Picked, OthersKept
  <2>6. Queued(work[u].pick)'
    BY <2>1, <2>2, <2>4 DEF Queued
  <2> QED
    BY <2>1, <2>2, <2>3, <2>4, <2>5, <2>6
<1> QED
  BY <1>4, <1>5, <1>6, <1>1, <1>2 DEF Inv, AdminOK, OthersKept

\* A new stream has no slot and no entry.
LEMMA NewStreamKeeps ==
    ASSUME Inv, NEW t \in Streams, NewStream(t)
    PROVE  Inv'
<1>1. PICK to \in {"close", "add", "lookup", "check"} :
        pc' = [pc EXCEPT ![t] = to]
  BY DEF NewStream, Balance, Goto
<1>2. DataTyped'
  <2>1. CASE Balance(t)
    BY <2>1 DEF Inv, Typed, DataTyped, Balance, NewStream
  <2>2. ASSUME NEW s \in Servers, assigned' = [assigned EXCEPT ![t] = TRUE],
               target' = [target EXCEPT ![t] = s]
        PROVE  DataTyped'
    BY <2>2 DEF Inv, Typed, DataTyped, NewStream
  <2> QED
    BY <2>1, <2>2 DEF NewStream
<1>3. OthersKept(t)
  BY <1>1, ConstantsOK
  DEF Inv, Typed, DataTyped, OthersKept, NewStream, Balance, Goto
<1>4. OwnStream(t)'
  BY <1>1, ConstantsOK
  DEF Inv, Typed, StepTyped, DataTyped, OwnStream, Queued, QueueOfFlags,
      Linked, WorkSteps, Queues, NewStream, Balance, Goto
<1>5. EntryKept(t)
  BY <1>1, ConstantsOK
  DEF EntryKept, Inv, Typed, StepTyped, DataTyped, OwnStream, Queued,
      QueueOfFlags, Linked, WorkSteps, Queues, NewStream, Balance, Goto
<1> QED
  BY <1>1, <1>2, <1>3, <1>4, <1>5, OwnStep DEF StreamSteps

\* A stream that asks the load balancer again has neither.
LEMMA AssignServerKeeps ==
    ASSUME Inv, NEW t \in Streams, AssignServer(t)
    PROVE  Inv'
<1>1. PICK to \in {"close", "add", "lookup"} :
        pc' = [pc EXCEPT ![t] = to]
  BY DEF AssignServer, Balance, Goto
<1>2. DataTyped'
  BY ConstantsOK
  DEF Inv, Typed, DataTyped, OwnStream, Queues, AssignServer, Balance, Goto
<1>3. OthersKept(t)
  BY <1>1, ConstantsOK
  DEF Inv, Typed, DataTyped, OthersKept, AssignServer, Balance, Goto
<1>4. OwnStream(t)'
  BY <1>1, ConstantsOK
  DEF Inv, Typed, StepTyped, DataTyped, OwnStream, Queued, QueueOfFlags,
      Linked, WorkSteps, Queues, AssignServer, Balance, Goto
<1>5. EntryKept(t)
  BY <1>1, ConstantsOK
  DEF EntryKept, Inv, Typed, StepTyped, DataTyped, OwnStream, Queued,
      QueueOfFlags, Linked, WorkSteps, Queues, AssignServer, Balance, Goto
<1> QED
  BY <1>1, <1>2, <1>3, <1>4, <1>5, OwnStep DEF StreamSteps

\* The load balancer finds a server or none.
LEMMA LookUpServerKeeps ==
    ASSUME Inv, NEW t \in Streams, LookUpServer(t)
    PROVE  Inv'
<1>1. PICK to \in {"add", "check"} :
        pc' = [pc EXCEPT ![t] = to]
  BY DEF LookUpServer, Goto
<1>2. DataTyped'
  <2>1. CASE UNCHANGED <<target, assigned>>
    BY <2>1 DEF Inv, Typed, DataTyped, LookUpServer
  <2>2. ASSUME NEW s \in Servers, assigned' = [assigned EXCEPT ![t] = TRUE],
               target' = [target EXCEPT ![t] = s]
        PROVE  DataTyped'
    BY <2>2 DEF Inv, Typed, DataTyped, LookUpServer
  <2> QED
    BY <2>1, <2>2 DEF LookUpServer, Candidates
<1>3. OthersKept(t)
  BY <1>1, ConstantsOK DEF Inv, Typed, DataTyped, OthersKept, LookUpServer, Goto
<1>4. OwnStream(t)'
  <2>1. CASE pc' = [pc EXCEPT ![t] = "add"] /\ UNCHANGED <<target, assigned>>
    BY <2>1
    DEF Inv, Typed, StepTyped, DataTyped, OwnStream, Queued, WorkSteps,
        LookUpServer
  <2>2. ASSUME NEW s \in Servers, pc' = [pc EXCEPT ![t] = "check"],
               assigned' = [assigned EXCEPT ![t] = TRUE],
               target' = [target EXCEPT ![t] = s]
        PROVE  OwnStream(t)'
    BY <2>2
    DEF Inv, Typed, StepTyped, DataTyped, OwnStream, Queued, WorkSteps,
        LookUpServer
  <2> QED
    BY <2>1, <2>2 DEF LookUpServer, Candidates, Goto
<1>5. EntryKept(t)
  BY <1>1, ConstantsOK
  DEF EntryKept, Inv, Typed, StepTyped, DataTyped, OwnStream, Queued,
      QueueOfFlags, Linked, WorkSteps, Queues, LookUpServer, Goto
<1> QED
  BY <1>1, <1>2, <1>3, <1>4, <1>5, OwnStep DEF StreamSteps

\* A stream without a slot goes to a queue or takes one.
LEMMA CheckRoomKeeps ==
    ASSUME Inv, NEW t \in Streams, CheckRoom(t)
    PROVE  Inv'
<1>1. PICK to \in {"connect", "add", "take"} :
        pc' = [pc EXCEPT ![t] = to]
  BY DEF CheckRoom, Goto
<1>2. DataTyped'
  BY ConstantsOK DEF Inv, Typed, DataTyped, OwnStream, Queues, CheckRoom, Goto
<1>3. OthersKept(t)
  BY <1>1, ConstantsOK DEF Inv, Typed, DataTyped, OthersKept, CheckRoom, Goto
<1>4. OwnStream(t)'
  BY <1>1, ConstantsOK
  DEF Inv, Typed, StepTyped, DataTyped, OwnStream, Queued, QueueOfFlags,
      Linked, WorkSteps, Queues, CheckRoom, Goto
<1>5. EntryKept(t)
  BY <1>1, ConstantsOK
  DEF EntryKept, Inv, Typed, StepTyped, DataTyped, OwnStream, Queued,
      QueueOfFlags, Linked, WorkSteps, Queues, CheckRoom, Goto
<1> QED
  BY <1>1, <1>2, <1>3, <1>4, <1>5, OwnStep DEF StreamSteps

\* The slot is counted before the stream has it.
LEMMA TakeSlotKeeps ==
    ASSUME Inv, NEW t \in Streams, TakeSlot(t)
    PROVE  Inv'
<1>1. PICK to \in {"taken"} :
        pc' = [pc EXCEPT ![t] = to]
  BY DEF TakeSlot, Goto
<1>2. DataTyped'
  BY ConstantsOK DEF Inv, Typed, DataTyped, OwnStream, Queues, TakeSlot, Goto
<1>3. OthersKept(t)
  BY <1>1, ConstantsOK DEF Inv, Typed, DataTyped, OthersKept, TakeSlot, Goto
<1>4. OwnStream(t)'
  BY <1>1, ConstantsOK
  DEF Inv, Typed, StepTyped, DataTyped, OwnStream, Queued, QueueOfFlags,
      Linked, WorkSteps, Queues, TakeSlot, Goto
<1>5. EntryKept(t)
  BY <1>1, ConstantsOK
  DEF EntryKept, Inv, Typed, StepTyped, DataTyped, OwnStream, Queued,
      QueueOfFlags, Linked, WorkSteps, Queues, TakeSlot, Goto
<1> QED
  BY <1>1, <1>2, <1>3, <1>4, <1>5, OwnStep DEF StreamSteps

\* The slot is one of the target.
LEMMA SlotTakenKeeps ==
    ASSUME Inv, NEW t \in Streams, SlotTaken(t)
    PROVE  Inv'
<1>1. PICK to \in {"connect"} :
        pc' = [pc EXCEPT ![t] = to]
  BY DEF SlotTaken, Goto
<1>2. DataTyped'
  BY ConstantsOK DEF Inv, Typed, DataTyped, OwnStream, Queues, SlotTaken, Goto
<1>3. OthersKept(t)
  BY <1>1, ConstantsOK DEF Inv, Typed, DataTyped, OthersKept, SlotTaken, Goto
<1>4. OwnStream(t)'
  BY <1>1, ConstantsOK
  DEF Inv, Typed, StepTyped, DataTyped, OwnStream, Queued, QueueOfFlags,
      Linked, WorkSteps, Queues, SlotTaken, Goto
<1>5. EntryKept(t)
  BY <1>1, ConstantsOK
  DEF EntryKept, Inv, Typed, StepTyped, DataTyped, OwnStream, Queued,
      QueueOfFlags, Linked, WorkSteps, Queues, SlotTaken, Goto
<1> QED
  BY <1>1, <1>2, <1>3, <1>4, <1>5, OwnStep DEF StreamSteps

\* The entry's queue follows from the stream's flags.
LEMMA PendconnAddKeeps ==
    ASSUME Inv, NEW t \in Streams, PendconnAdd(t)
    PROVE  Inv'
<1>1. PICK to \in {"insert"} :
        pc' = [pc EXCEPT ![t] = to]
  BY DEF PendconnAdd, Goto
<1>2. DataTyped'
  BY ConstantsOK DEF Inv, Typed, DataTyped, OwnStream, Queues, PendconnAdd, Goto
<1>3. OthersKept(t)
  BY <1>1, ConstantsOK DEF Inv, Typed, DataTyped, OthersKept, PendconnAdd, Goto
<1>4. OwnStream(t)'
  BY <1>1, ConstantsOK
  DEF Inv, Typed, StepTyped, DataTyped, OwnStream, Queued, QueueOfFlags,
      Linked, WorkSteps, Queues, PendconnAdd, Goto
<1>5. EntryKept(t)
  BY <1>1, ConstantsOK
  DEF EntryKept, Inv, Typed, StepTyped, DataTyped, OwnStream, Queued,
      QueueOfFlags, Linked, WorkSteps, Queues, PendconnAdd, Goto
<1> QED
  BY <1>1, <1>2, <1>3, <1>4, <1>5, OwnStep DEF StreamSteps

\* The entry is linked while its stream has no slot.
LEMMA PendconnInsertKeeps ==
    ASSUME Inv, NEW t \in Streams, PendconnInsert(t)
    PROVE  Inv'
<1>1. PICK to \in {"tryagain", "maydequeue"} :
        pc' = [pc EXCEPT ![t] = to]
  BY DEF PendconnInsert, Goto, NoWork
<1>2. work' \in [Streams -> WorkRecords]
  BY FreshWork DEF Inv, Typed, DataTyped, PendconnInsert
<1>3. DataTyped'
  BY <1>2, ConstantsOK
  DEF Inv, Typed, DataTyped, OwnStream, Queues, PendconnInsert, Goto, NoWork
<1>4. OthersKept(t)
  BY <1>1, ConstantsOK
  DEF Inv, Typed, DataTyped, OthersKept, PendconnInsert, Goto, NoWork
<1>5. OwnStream(t)'
  BY <1>1, ConstantsOK
  DEF Inv, Typed, StepTyped, DataTyped, OwnStream, Queued, QueueOfFlags,
      Linked, WorkSteps, Queues, PendconnInsert, Goto, NoWork
<1>6. EntryKept(t)
  BY <1>1, ConstantsOK
  DEF EntryKept, Inv, Typed, StepTyped, DataTyped, OwnStream, Queued,
      QueueOfFlags, Linked, WorkSteps, Queues, PendconnInsert, Goto, NoWork
<1> QED
  BY <1>1, <1>3, <1>4, <1>5, <1>6, OwnStep DEF StreamSteps

\* The entry stays as it is.
LEMMA MustTryAgainKeeps ==
    ASSUME Inv, NEW t \in Streams, MustTryAgain(t)
    PROVE  Inv'
<1>1. PICK to \in {"wait", "unqueue"} :
        pc' = [pc EXCEPT ![t] = to]
  BY DEF MustTryAgain, Goto
<1>2. DataTyped'
  BY ConstantsOK
  DEF Inv, Typed, DataTyped, OwnStream, Queues, MustTryAgain, Goto
<1>3. OthersKept(t)
  BY <1>1, ConstantsOK DEF Inv, Typed, DataTyped, OthersKept, MustTryAgain, Goto
<1>4. OwnStream(t)'
  BY <1>1, ConstantsOK
  DEF Inv, Typed, StepTyped, DataTyped, OwnStream, Queued, QueueOfFlags,
      Linked, WorkSteps, Queues, MustTryAgain, Goto
<1>5. EntryKept(t)
  BY <1>1, ConstantsOK
  DEF EntryKept, Inv, Typed, StepTyped, DataTyped, OwnStream, Queued,
      QueueOfFlags, Linked, WorkSteps, Queues, MustTryAgain, Goto
<1> QED
  BY <1>1, <1>2, <1>3, <1>4, <1>5, OwnStep DEF StreamSteps

\* The entry is freed while nobody holds its del_lock.
LEMMA UnqueueKeeps ==
    ASSUME Inv, NEW t \in Streams, Unqueue(t)
    PROVE  Inv'
<1>1. PICK to \in {"assign", "wait"} :
        pc' = [pc EXCEPT ![t] = to]
  BY DEF Unqueue, FreeEntry, Goto
<1>2. DataTyped'
  <2>1. CASE t \in tree[Px]
    <3>1. /\ tree' \in [Queues -> SUBSET Streams] /\ length' \in [Queues -> Int]
          /\ UNCHANGED <<served, pxServed, dequeuing, lock, delLock, serverState,
                         flags, woken, work, missed>>
      BY <2>1 DEF Inv, Typed, DataTyped, Unqueue, Queues
    <3>2. /\ pend' \in [Streams -> Queues \cup {None}]
          /\ pendTarget' \in [Streams -> Servers \cup {None}]
          /\ pendAssigned' \in [Streams -> BOOLEAN]
      BY <2>1 DEF Inv, Typed, DataTyped, Unqueue, FreeEntry
    <3> QED
      BY <3>1, <3>2 DEF Inv, Typed, DataTyped
  <2>2. CASE t \notin tree[Px]
    BY <2>2, ConstantsOK DEF Inv, Typed, DataTyped, Unqueue
  <2> QED
    BY <2>1, <2>2
<1>3. OthersKept(t)
  BY <1>1, ConstantsOK
  DEF Inv, Typed, DataTyped, OthersKept, Unqueue, FreeEntry, Goto
<1>4. OwnStream(t)'
  BY <1>1, ConstantsOK
  DEF Inv, Typed, StepTyped, DataTyped, OwnStream, Queued, QueueOfFlags,
      Linked, WorkSteps, Queues, Unqueue, FreeEntry, Goto
<1>5. EntryKept(t)
  BY <1>1, ConstantsOK
  DEF EntryKept, Inv, Typed, StepTyped, DataTyped, OwnStream, Queued,
      QueueOfFlags, Linked, WorkSteps, Queues, Unqueue, FreeEntry, Goto
<1> QED
  BY <1>1, <1>2, <1>3, <1>4, <1>5, OwnStep DEF StreamSteps

\* A stream that finds itself unlinked goes on to dequeue.
LEMMA WakeUpKeeps ==
    ASSUME Inv, NEW t \in Streams, WakeUp(t)
    PROVE  Inv'
<1>1. PICK to \in {"dequeued", "unlink", "wait"} :
        pc' = [pc EXCEPT ![t] = to]
  BY DEF WakeUp, LookAtEntry, Goto
<1>2. DataTyped'
  BY ConstantsOK
  DEF Inv, Typed, DataTyped, OwnStream, Queues, WakeUp, LookAtEntry, Goto
<1>3. OthersKept(t)
  BY <1>1, ConstantsOK
  DEF Inv, Typed, DataTyped, OthersKept, WakeUp, LookAtEntry, Goto
<1>4. OwnStream(t)'
  BY <1>1, ConstantsOK
  DEF Inv, Typed, StepTyped, DataTyped, OwnStream, Queued, QueueOfFlags,
      Linked, WorkSteps, Queues, WakeUp, LookAtEntry, Goto
<1>5. EntryKept(t)
  BY <1>1, ConstantsOK
  DEF EntryKept, Inv, Typed, StepTyped, DataTyped, OwnStream, Queued,
      QueueOfFlags, Linked, WorkSteps, Queues, WakeUp, LookAtEntry, Goto
<1> QED
  BY <1>1, <1>2, <1>3, <1>4, <1>5, OwnStep DEF StreamSteps

\* So does one whose time is over; a linked one unlinks itself.
LEMMA GiveUpKeeps ==
    ASSUME Inv, NEW t \in Streams, GiveUp(t)
    PROVE  Inv'
<1>1. PICK to \in {"dequeued", "unlink", "wait"} :
        pc' = [pc EXCEPT ![t] = to]
  BY DEF GiveUp, LookAtEntry, Goto
<1>2. DataTyped'
  BY ConstantsOK
  DEF Inv, Typed, DataTyped, OwnStream, Queues, GiveUp, LookAtEntry, Goto
<1>3. OthersKept(t)
  BY <1>1, ConstantsOK
  DEF Inv, Typed, DataTyped, OthersKept, GiveUp, LookAtEntry, Goto
<1>4. OwnStream(t)'
  BY <1>1, ConstantsOK
  DEF Inv, Typed, StepTyped, DataTyped, OwnStream, Queued, QueueOfFlags,
      Linked, WorkSteps, Queues, GiveUp, LookAtEntry, Goto
<1>5. EntryKept(t)
  BY <1>1, ConstantsOK
  DEF EntryKept, Inv, Typed, StepTyped, DataTyped, OwnStream, Queued,
      QueueOfFlags, Linked, WorkSteps, Queues, GiveUp, LookAtEntry, Goto
<1> QED
  BY <1>1, <1>2, <1>3, <1>4, <1>5, OwnStep DEF StreamSteps

\* What the entry was given is copied while nobody holds its del_lock.
LEMMA DequeuedKeeps ==
    ASSUME Inv, NEW t \in Streams, Dequeued(t)
    PROVE  Inv'
<1>1. PICK to \in {"connect", "assign"} :
        pc' = [pc EXCEPT ![t] = to]
  BY DEF Dequeued, FreeEntry, Goto
<1>2. DataTyped'
  BY ConstantsOK
  DEF Inv, Typed, DataTyped, OwnStream, Queues, Dequeued, FreeEntry, Goto
<1>3. OthersKept(t)
  BY <1>1, ConstantsOK
  DEF Inv, Typed, DataTyped, OthersKept, Dequeued, FreeEntry, Goto
<1>4. OwnStream(t)'
  BY <1>1, ConstantsOK
  DEF Inv, Typed, StepTyped, DataTyped, OwnStream, Queued, QueueOfFlags,
      Linked, WorkSteps, Queues, Dequeued, FreeEntry, Goto
<1>5. EntryKept(t)
  <2>1. \A q \in Queues : t \notin tree'[q]
    BY DEF Dequeued, Inv, Linked
  <2>2. t \notin delLock
    BY DEF Dequeued
  <2> QED
    BY <2>1, <2>2 DEF EntryKept
<1> QED
  BY <1>1, <1>2, <1>3, <1>4, <1>5, OwnStep DEF StreamSteps

\* The entry is unlinked while nobody holds its del_lock.
LEMMA PendconnUnlinkKeeps ==
    ASSUME Inv, NEW t \in Streams, PendconnUnlink(t)
    PROVE  Inv'
<1>1. PICK to \in {"unlinked", "close"} :
        pc' = [pc EXCEPT ![t] = to]
  BY DEF PendconnUnlink, Goto
<1>2. DataTyped'
  BY ConstantsOK
  DEF Inv, Typed, DataTyped, OwnStream, Queues, PendconnUnlink, Goto
<1>3. OthersKept(t)
  BY <1>1, ConstantsOK
  DEF Inv, Typed, DataTyped, OthersKept, PendconnUnlink, Goto
<1>4. OwnStream(t)'
  BY <1>1, ConstantsOK
  DEF Inv, Typed, StepTyped, DataTyped, OwnStream, Queued, QueueOfFlags,
      Linked, WorkSteps, Queues, PendconnUnlink, Goto
<1>5. EntryKept(t)
  BY <1>1, ConstantsOK
  DEF EntryKept, Inv, Typed, StepTyped, DataTyped, OwnStream, Queued,
      QueueOfFlags, Linked, WorkSteps, Queues, PendconnUnlink, Goto
<1> QED
  BY <1>1, <1>2, <1>3, <1>4, <1>5, OwnStep DEF StreamSteps

\* Only the length of the queue follows.
LEMMA UnlinkedKeeps ==
    ASSUME Inv, NEW t \in Streams, Unlinked(t)
    PROVE  Inv'
<1>1. PICK to \in {"close"} :
        pc' = [pc EXCEPT ![t] = to]
  BY DEF Unlinked, Goto
<1>2. DataTyped'
  BY ConstantsOK DEF Inv, Typed, DataTyped, OwnStream, Queues, Unlinked, Goto
<1>3. OthersKept(t)
  BY <1>1, ConstantsOK DEF Inv, Typed, DataTyped, OthersKept, Unlinked, Goto
<1>4. OwnStream(t)'
  BY <1>1, ConstantsOK
  DEF Inv, Typed, StepTyped, DataTyped, OwnStream, Queued, QueueOfFlags,
      Linked, WorkSteps, Queues, Unlinked, Goto
<1>5. EntryKept(t)
  BY <1>1, ConstantsOK
  DEF EntryKept, Inv, Typed, StepTyped, DataTyped, OwnStream, Queued,
      QueueOfFlags, Linked, WorkSteps, Queues, Unlinked, Goto
<1> QED
  BY <1>1, <1>2, <1>3, <1>4, <1>5, OwnStep DEF StreamSteps

\* The connection is made or not, the slot stays.
LEMMA ConnectKeeps ==
    ASSUME Inv, NEW t \in Streams, Connect(t)
    PROVE  Inv'
<1>1. PICK to \in {"connected", "release", "close"} :
        pc' = [pc EXCEPT ![t] = to]
  BY DEF Connect, Goto
<1>2. DataTyped'
  BY ConstantsOK DEF Inv, Typed, DataTyped, OwnStream, Queues, Connect, Goto
<1>3. OthersKept(t)
  BY <1>1, ConstantsOK DEF Inv, Typed, DataTyped, OthersKept, Connect, Goto
<1>4. OwnStream(t)'
  BY <1>1, ConstantsOK
  DEF Inv, Typed, StepTyped, DataTyped, OwnStream, Queued, QueueOfFlags,
      Linked, WorkSteps, Queues, Connect, Goto
<1>5. EntryKept(t)
  BY <1>1, ConstantsOK
  DEF EntryKept, Inv, Typed, StepTyped, DataTyped, OwnStream, Queued,
      QueueOfFlags, Linked, WorkSteps, Queues, Connect, Goto
<1> QED
  BY <1>1, <1>2, <1>3, <1>4, <1>5, OwnStep DEF StreamSteps

\* The slot stays until it is released.
LEMMA DisconnectKeeps ==
    ASSUME Inv, NEW t \in Streams, Disconnect(t)
    PROVE  Inv'
<1>1. PICK to \in {"release"} :
        pc' = [pc EXCEPT ![t] = to]
  BY DEF Disconnect, Goto
<1>2. DataTyped'
  BY ConstantsOK DEF Inv, Typed, DataTyped, OwnStream, Queues, Disconnect, Goto
<1>3. OthersKept(t)
  BY <1>1, ConstantsOK DEF Inv, Typed, DataTyped, OthersKept, Disconnect, Goto
<1>4. OwnStream(t)'
  BY <1>1, ConstantsOK
  DEF Inv, Typed, StepTyped, DataTyped, OwnStream, Queued, QueueOfFlags,
      Linked, WorkSteps, Queues, Disconnect, Goto
<1>5. EntryKept(t)
  BY <1>1, ConstantsOK
  DEF EntryKept, Inv, Typed, StepTyped, DataTyped, OwnStream, Queued,
      QueueOfFlags, Linked, WorkSteps, Queues, Disconnect, Goto
<1> QED
  BY <1>1, <1>2, <1>3, <1>4, <1>5, OwnStep DEF StreamSteps

\* A slot that is there is counted out first.
LEMMA ReleaseSlotKeeps ==
    ASSUME Inv, NEW t \in Streams, ReleaseSlot(t)
    PROVE  Inv'
<1>1. PICK to \in {"maydequeue", "released"} :
        pc' = [pc EXCEPT ![t] = to]
  BY DEF ReleaseSlot, Offer, Goto, NoWork
<1>2. work' \in [Streams -> WorkRecords]
  <2>1. CASE srvConn[t] = None
    BY <2>1, FreshWork DEF Inv, Typed, DataTyped, ReleaseSlot, Offer
  <2>2. CASE srvConn[t] # None
    BY <2>2 DEF Inv, Typed, DataTyped, ReleaseSlot
  <2> QED
    BY <2>1, <2>2
<1>3. DataTyped'
  BY <1>2, ConstantsOK
  DEF Inv, Typed, DataTyped, OwnStream, Queues, ReleaseSlot, Offer, Goto,
      NoWork
<1>4. OthersKept(t)
  BY <1>1, ConstantsOK
  DEF Inv, Typed, DataTyped, OthersKept, ReleaseSlot, Offer, Goto, NoWork
<1>5. OwnStream(t)'
  BY <1>1, ConstantsOK
  DEF Inv, Typed, StepTyped, DataTyped, OwnStream, Queued, QueueOfFlags,
      Linked, WorkSteps, Queues, ReleaseSlot, Offer, Goto, NoWork
<1>6. EntryKept(t)
  BY <1>1, ConstantsOK
  DEF EntryKept, Inv, Typed, StepTyped, DataTyped, OwnStream, Queued,
      QueueOfFlags, Linked, WorkSteps, Queues, ReleaseSlot, Offer, Goto, NoWork
<1> QED
  BY <1>1, <1>3, <1>4, <1>5, <1>6, OwnStep DEF StreamSteps

\* Then the stream forgets it.
LEMMA SlotReleasedKeeps ==
    ASSUME Inv, NEW t \in Streams, SlotReleased(t)
    PROVE  Inv'
<1>1. PICK to \in {"maydequeue"} :
        pc' = [pc EXCEPT ![t] = to]
  BY DEF SlotReleased, Offer, Goto, NoWork
<1>2. work' \in [Streams -> WorkRecords]
  BY FreshWork DEF Inv, Typed, DataTyped, SlotReleased, Offer
<1>3. DataTyped'
  BY <1>2, ConstantsOK
  DEF Inv, Typed, DataTyped, OwnStream, Queues, SlotReleased, Offer, Goto,
      NoWork
<1>4. OthersKept(t)
  BY <1>1, ConstantsOK
  DEF Inv, Typed, DataTyped, OthersKept, SlotReleased, Offer, Goto, NoWork
<1>5. OwnStream(t)'
  BY <1>1, ConstantsOK
  DEF Inv, Typed, StepTyped, DataTyped, OwnStream, Queued, QueueOfFlags,
      Linked, WorkSteps, Queues, SlotReleased, Offer, Goto, NoWork
<1>6. EntryKept(t)
  BY <1>1, ConstantsOK
  DEF EntryKept, Inv, Typed, StepTyped, DataTyped, OwnStream, Queued,
      QueueOfFlags, Linked, WorkSteps, Queues, SlotReleased, Offer, Goto,
      NoWork
<1> QED
  BY <1>1, <1>3, <1>4, <1>5, <1>6, OwnStep DEF StreamSteps

\* Only the thread's own variables change, here and in the loop.
LEMMA MayDequeueKeeps ==
    ASSUME Inv, NEW t \in Streams, MayDequeue(t)
    PROVE  Inv'
<1>1. PICK to \in {"loop", "wait", "close", "drop"} :
        pc' = [pc EXCEPT ![t] = to]
  BY DEF MayDequeue, Goto, Inv, OwnStream, WorkSteps
<1>2. work' \in [Streams -> WorkRecords]
  <2>1. CASE UNCHANGED work
    BY <2>1 DEF Inv, Typed, DataTyped
  <2>2. CASE work' = [work EXCEPT ![t].pxOk = usable[target[t]]]
    <3>1. usable[target[t]] \in BOOLEAN
      BY DEF MayDequeue, Inv, Typed, DataTyped, OwnStream, WorkSteps
    <3>2. [work[t] EXCEPT !.pxOk = usable[target[t]]] \in WorkRecords
      BY <3>1, WorkUpdates DEF Inv, Typed, DataTyped
    <3> QED
      BY <2>2, <3>2 DEF Inv, Typed, DataTyped
  <2> QED
    BY <2>1, <2>2 DEF MayDequeue
<1>3. DataTyped'
  BY <1>2, ConstantsOK
  DEF Inv, Typed, DataTyped, OwnStream, Queues, MayDequeue, Goto
<1>4. OthersKept(t)
  BY <1>1, ConstantsOK DEF Inv, Typed, DataTyped, OthersKept, MayDequeue, Goto
<1>5. OwnStream(t)'
  <2>1. CASE UNCHANGED work /\ pc' = [pc EXCEPT ![t] = work[t].back]
    BY <2>1, ConstantsOK
    DEF Inv, Typed, StepTyped, DataTyped, WorkRecords, OwnStream, Queued,
        QueueOfFlags, WorkSteps, Queues, MayDequeue
  <2>2. CASE /\ work' = [work EXCEPT ![t].pxOk = usable[target[t]]]
             /\ pc' = [pc EXCEPT ![t] = "loop"]
    BY <2>2, ConstantsOK
    DEF Inv, Typed, StepTyped, DataTyped, WorkRecords, OwnStream, Queued,
        QueueOfFlags, WorkSteps, Queues, MayDequeue
  <2> QED
    BY <2>1, <2>2 DEF MayDequeue, Goto
<1>6. EntryKept(t)
  <2>1. CASE UNCHANGED work /\ pc' = [pc EXCEPT ![t] = work[t].back]
    BY <2>1, ConstantsOK
    DEF EntryKept, Inv, Typed, StepTyped, DataTyped, WorkRecords, OwnStream,
        Queued, Linked, WorkSteps, Queues, MayDequeue
  <2>2. CASE /\ work' = [work EXCEPT ![t].pxOk = usable[target[t]]]
             /\ pc' = [pc EXCEPT ![t] = "loop"]
    BY <2>2, ConstantsOK
    DEF EntryKept, Inv, Typed, StepTyped, DataTyped, WorkRecords, OwnStream,
        Queued, Linked, WorkSteps, Queues, MayDequeue
  <2> QED
    BY <2>1, <2>2 DEF MayDequeue, Goto
<1> QED
  BY <1>1, <1>3, <1>4, <1>5, <1>6, OwnStep DEF StreamSteps

\* The loop goes on, or ends where it was called from.
LEMMA LoopKeeps ==
    ASSUME Inv, NEW t \in Streams, Loop(t)
    PROVE  Inv'
<1>1. PICK to \in {"xchg", "tally", "wait", "close", "drop"} :
        pc' = [pc EXCEPT ![t] = to]
  BY DEF Loop, EndLoop, Goto, Inv, OwnStream, WorkSteps
<1>2. DataTyped'
  BY ConstantsOK
  DEF Inv, Typed, DataTyped, OwnStream, Queues, Loop, EndLoop, Goto
<1>3. OthersKept(t)
  BY <1>1, ConstantsOK
  DEF Inv, Typed, DataTyped, OthersKept, Loop, EndLoop, Goto
<1>4. OwnStream(t)'
  BY <1>1, ConstantsOK
  DEF Inv, Typed, StepTyped, DataTyped, OwnStream, Queued, QueueOfFlags,
      Linked, WorkSteps, Queues, Loop, EndLoop, Goto
<1>5. EntryKept(t)
  BY <1>1, ConstantsOK
  DEF EntryKept, Inv, Typed, StepTyped, DataTyped, OwnStream, Queued,
      QueueOfFlags, Linked, WorkSteps, Queues, Loop, EndLoop, Goto
<1> QED
  BY <1>1, <1>2, <1>3, <1>4, <1>5, OwnStep DEF StreamSteps

\* The dequeuing flag is no part of the invariant.
LEMMA XchgKeeps ==
    ASSUME Inv, NEW t \in Streams, Xchg(t)
    PROVE  Inv'
<1>1. PICK to \in {"lock", "tally", "wait", "close", "drop"} :
        pc' = [pc EXCEPT ![t] = to]
  BY DEF Xchg, EndLoop, Goto, Inv, OwnStream, WorkSteps
<1>2. DataTyped'
  BY ConstantsOK
  DEF Inv, Typed, DataTyped, OwnStream, Queues, Xchg, EndLoop, Goto
<1>3. OthersKept(t)
  BY <1>1, ConstantsOK
  DEF Inv, Typed, DataTyped, OthersKept, Xchg, EndLoop, Goto
<1>4. OwnStream(t)'
  BY <1>1, ConstantsOK
  DEF Inv, Typed, StepTyped, DataTyped, OwnStream, Queued, QueueOfFlags,
      Linked, WorkSteps, Queues, Xchg, EndLoop, Goto
<1>5. EntryKept(t)
  <2>1. work' = work /\ UNCHANGED <<tree, delLock, pend, srvConn>>
    BY DEF Xchg
  <2>2. Queued(t) => Queued(t)' /\ pc'[t] # "dequeued"
    BY <1>4, <1>1, <2>1
    DEF Xchg, EndLoop, Goto, Inv, Typed, StepTyped, DataTyped, Queued,
        WorkSteps
  <2> QED
    BY <2>1, <2>2 DEF EntryKept, Inv, Linked
<1> QED
  BY <1>1, <1>2, <1>3, <1>4, <1>5, OwnStep DEF StreamSteps

\* Neither is the lock of the queue.
LEMMA LockQueueKeeps ==
    ASSUME Inv, NEW t \in Streams, LockQueue(t)
    PROVE  Inv'
<1>1. PICK to \in {"inner"} :
        pc' = [pc EXCEPT ![t] = to]
  BY DEF LockQueue, Goto
<1>2. DataTyped'
  BY ConstantsOK DEF Inv, Typed, DataTyped, OwnStream, Queues, LockQueue, Goto
<1>3. OthersKept(t)
  BY <1>1, ConstantsOK DEF Inv, Typed, DataTyped, OthersKept, LockQueue, Goto
<1>4. OwnStream(t)'
  BY <1>1, ConstantsOK
  DEF Inv, Typed, StepTyped, DataTyped, OwnStream, Queued, QueueOfFlags,
      Linked, WorkSteps, Queues, LockQueue, Goto
<1>5. EntryKept(t)
  BY <1>1, ConstantsOK
  DEF EntryKept, Inv, Typed, StepTyped, DataTyped, OwnStream, Queued,
      QueueOfFlags, Linked, WorkSteps, Queues, LockQueue, Goto
<1> QED
  BY <1>1, <1>2, <1>3, <1>4, <1>5, OwnStep DEF StreamSteps

\* One more slot, or the end of the inner loop.
LEMMA InnerKeeps ==
    ASSUME Inv, NEW t \in Streams, Inner(t)
    PROVE  Inv'
<1>1. PICK to \in {"next", "leave"} :
        pc' = [pc EXCEPT ![t] = to]
  BY DEF Inner, Goto
<1>2. DataTyped'
  BY ConstantsOK DEF Inv, Typed, DataTyped, OwnStream, Queues, Inner, Goto
<1>3. OthersKept(t)
  BY <1>1, ConstantsOK DEF Inv, Typed, DataTyped, OthersKept, Inner, Goto
<1>4. OwnStream(t)'
  BY <1>1, ConstantsOK
  DEF Inv, Typed, StepTyped, DataTyped, OwnStream, Queued, QueueOfFlags,
      Linked, WorkSteps, Queues, Inner, Goto
<1>5. EntryKept(t)
  BY <1>1, ConstantsOK
  DEF EntryKept, Inv, Typed, StepTyped, DataTyped, OwnStream, Queued,
      QueueOfFlags, Linked, WorkSteps, Queues, Inner, Goto
<1> QED
  BY <1>1, <1>2, <1>3, <1>4, <1>5, OwnStep DEF StreamSteps

\* The length follows the tree.
LEMMA DecLengthKeeps ==
    ASSUME Inv, NEW t \in Streams, DecLength(t)
    PROVE  Inv'
<1>1. PICK to \in {"inc"} :
        pc' = [pc EXCEPT ![t] = to]
  BY DEF DecLength, Goto
<1>2. DataTyped'
  <2>1. length' \in [Queues -> Int]
    <3>1. CASE work[t].from \in Queues
      BY <3>1 DEF Inv, Typed, DataTyped, DecLength
    <3>2. CASE work[t].from \notin Queues
      BY <3>2 DEF Inv, Typed, DataTyped, DecLength
    <3> QED
      BY <3>1, <3>2
  <2> QED
    BY <2>1 DEF Inv, Typed, DataTyped, DecLength
<1>3. OthersKept(t)
  BY <1>1, ConstantsOK DEF Inv, Typed, DataTyped, OthersKept, DecLength, Goto
<1>4. OwnStream(t)'
  BY <1>1, ConstantsOK
  DEF Inv, Typed, StepTyped, DataTyped, OwnStream, Queued, QueueOfFlags,
      Linked, WorkSteps, Queues, DecLength, Goto
<1>5. EntryKept(t)
  BY <1>1, ConstantsOK
  DEF EntryKept, Inv, Typed, StepTyped, DataTyped, OwnStream, Queued,
      QueueOfFlags, Linked, WorkSteps, Queues, DecLength, Goto
<1> QED
  BY <1>1, <1>2, <1>3, <1>4, <1>5, OwnStep DEF StreamSteps

\* The counter follows the slot.
LEMMA IncServedKeeps ==
    ASSUME Inv, NEW t \in Streams, IncServed(t)
    PROVE  Inv'
<1>1. PICK to \in {"inner", "leave"} :
        pc' = [pc EXCEPT ![t] = to]
  BY DEF IncServed, Goto
<1>2. work' \in [Streams -> WorkRecords]
  <2>1. work[t] \in WorkRecords
    BY DEF Inv, Typed, DataTyped
  <2>2. [work[t] EXCEPT !.done = @ + 1, !.pick = None, !.from = None] \in WorkRecords
    <3>1. work[t].done + 1 \in Nat
      BY <2>1 DEF WorkRecords
    <3> QED
      BY <2>1, <3>1, WorkUpdates
  <2>3. work' = [work EXCEPT ![t] = [work[t] EXCEPT !.done = @ + 1, !.pick = None,
                                                    !.from = None]]
    BY DEF IncServed, Inv, Typed, DataTyped
  <2> QED
    BY <2>2, <2>3 DEF Inv, Typed, DataTyped
<1>3. DataTyped'
  <2>1. served' \in [Servers -> Int]
    BY DEF Inv, Typed, DataTyped, IncServed, OwnStream, WorkSteps
  <2> QED
    BY <1>2, <2>1 DEF Inv, Typed, DataTyped, IncServed
<1>4. OthersKept(t)
  BY <1>1, ConstantsOK DEF Inv, Typed, DataTyped, OthersKept, IncServed, Goto
<1>5. OwnStream(t)'
  BY <1>1, ConstantsOK
  DEF Inv, Typed, StepTyped, DataTyped, OwnStream, Queued, QueueOfFlags,
      Linked, WorkSteps, Queues, IncServed, Goto
<1>6. EntryKept(t)
  <2>1. work'[t].back = work[t].back
    BY DEF IncServed, Inv, Typed, StepTyped, DataTyped, WorkRecords
  <2> QED
    BY <1>1, <2>1
    DEF IncServed, EntryKept, Inv, Typed, StepTyped, DataTyped, Queued, Linked,
        WorkSteps
<1> QED
  BY <1>1, <1>3, <1>4, <1>5, <1>6, OwnStep DEF StreamSteps

\* The lock is let go.
LEMMA LeaveQueueKeeps ==
    ASSUME Inv, NEW t \in Streams, LeaveQueue(t)
    PROVE  Inv'
<1>1. PICK to \in {"loop"} :
        pc' = [pc EXCEPT ![t] = to]
  BY DEF LeaveQueue, Goto
<1>2. DataTyped'
  BY ConstantsOK DEF Inv, Typed, DataTyped, OwnStream, Queues, LeaveQueue, Goto
<1>3. OthersKept(t)
  BY <1>1, ConstantsOK DEF Inv, Typed, DataTyped, OthersKept, LeaveQueue, Goto
<1>4. OwnStream(t)'
  BY <1>1, ConstantsOK
  DEF Inv, Typed, StepTyped, DataTyped, OwnStream, Queued, QueueOfFlags,
      Linked, WorkSteps, Queues, LeaveQueue, Goto
<1>5. EntryKept(t)
  BY <1>1, ConstantsOK
  DEF EntryKept, Inv, Typed, StepTyped, DataTyped, OwnStream, Queued,
      QueueOfFlags, Linked, WorkSteps, Queues, LeaveQueue, Goto
<1> QED
  BY <1>1, <1>2, <1>3, <1>4, <1>5, OwnStep DEF StreamSteps

\* The proxy's counter follows.
LEMMA TallyKeeps ==
    ASSUME Inv, NEW t \in Streams, Tally(t)
    PROVE  Inv'
<1>1. PICK to \in {"wait", "close", "drop"} :
        pc' = [pc EXCEPT ![t] = to]
  BY DEF Tally, Goto, NoWork, Inv, OwnStream, WorkSteps
<1>2. work' \in [Streams -> WorkRecords]
  <2>1. work[t].back \in {"idle", "wait", "close", "drop"}
    BY DEF Inv, Typed, DataTyped, WorkRecords
  <2> QED
    BY <2>1, FreshWork DEF Inv, Typed, DataTyped, Tally
<1>3. DataTyped'
  <2>1. work[t].done \in Nat
    BY DEF Inv, Typed, DataTyped, WorkRecords
  <2> QED
    BY <1>2, <2>1 DEF Inv, Typed, DataTyped, Tally
<1>4. OthersKept(t)
  BY <1>1, ConstantsOK
  DEF Inv, Typed, DataTyped, OthersKept, Tally, Goto, NoWork
<1>5. OwnStream(t)'
  BY <1>1, ConstantsOK
  DEF Inv, Typed, StepTyped, DataTyped, OwnStream, Queued, QueueOfFlags,
      Linked, WorkSteps, Queues, Tally, Goto, NoWork
<1>6. EntryKept(t)
  BY <1>1, ConstantsOK
  DEF EntryKept, Inv, Typed, StepTyped, DataTyped, OwnStream, Queued,
      QueueOfFlags, Linked, WorkSteps, Queues, Tally, Goto, NoWork
<1> QED
  BY <1>1, <1>3, <1>4, <1>5, <1>6, OwnStep DEF StreamSteps

\* An entry that is left over is freed while nobody holds its del_lock.
LEMMA CloseKeeps ==
    ASSUME Inv, NEW t \in Streams, Close(t)
    PROVE  Inv'
<1>1. PICK to \in {"maydequeue", "drop"} :
        pc' = [pc EXCEPT ![t] = to]
  BY DEF Close, FreeEntry, Goto, NoWork
<1>2. work' \in [Streams -> WorkRecords]
  BY FreshWork DEF Inv, Typed, DataTyped, Close
<1>3. DataTyped'
  BY <1>2, ConstantsOK
  DEF Inv, Typed, DataTyped, OwnStream, Queues, Close, FreeEntry, Goto, NoWork
<1>4. OthersKept(t)
  BY <1>1, ConstantsOK
  DEF Inv, Typed, DataTyped, OthersKept, Close, FreeEntry, Goto, NoWork
<1>5. OwnStream(t)'
  BY <1>1, ConstantsOK
  DEF Inv, Typed, StepTyped, DataTyped, OwnStream, Queued, QueueOfFlags,
      Linked, WorkSteps, Queues, Close, FreeEntry, Goto, NoWork
<1>6. EntryKept(t)
  BY <1>1, ConstantsOK
  DEF EntryKept, Inv, Typed, StepTyped, DataTyped, OwnStream, Queued,
      QueueOfFlags, Linked, WorkSteps, Queues, Close, FreeEntry, Goto, NoWork
<1> QED
  BY <1>1, <1>3, <1>4, <1>5, <1>6, OwnStep DEF StreamSteps

\* A slot that is left over is counted out first.
LEMMA DropKeeps ==
    ASSUME Inv, NEW t \in Streams, Drop(t)
    PROVE  Inv'
<1>1. PICK to \in {"done", "dropped"} :
        pc' = [pc EXCEPT ![t] = to]
  BY DEF Drop, FreeStream, Goto, NoWork
<1>2. work' \in [Streams -> WorkRecords]
  <2>1. CASE FreeStream(t)
    BY <2>1, FreshWork DEF Inv, Typed, DataTyped, FreeStream
  <2>2. CASE UNCHANGED work
    BY <2>2 DEF Inv, Typed, DataTyped
  <2> QED
    BY <2>1, <2>2 DEF Drop
<1>3. DataTyped'
  <2>1. CASE FreeStream(t) /\ UNCHANGED served
    BY <1>2, <2>1 DEF Inv, Typed, DataTyped, Drop, FreeStream
  <2>2. CASE /\ srvConn[t] # None
             /\ served' = [served EXCEPT ![srvConn[t]] = @ - 1]
             /\ UNCHANGED <<target, assigned, srvConn, leaving, woken, work>>
    <3>1. served' \in [Servers -> Int]
      BY <2>2 DEF Inv, Typed, DataTyped
    <3> QED
      BY <1>2, <2>2, <3>1 DEF Inv, Typed, DataTyped, Drop
  <2> QED
    BY <2>1, <2>2 DEF Drop
<1>4. OthersKept(t)
  BY <1>1, ConstantsOK
  DEF Inv, Typed, DataTyped, OthersKept, Drop, FreeStream, Goto, NoWork
<1>5. OwnStream(t)'
  BY <1>1, ConstantsOK
  DEF Inv, Typed, StepTyped, DataTyped, OwnStream, Queued, QueueOfFlags,
      Linked, WorkSteps, Queues, Drop, FreeStream, Goto, NoWork
<1>6. EntryKept(t)
  BY <1>1, ConstantsOK
  DEF EntryKept, Inv, Typed, StepTyped, DataTyped, OwnStream, Queued,
      QueueOfFlags, Linked, WorkSteps, Queues, Drop, FreeStream, Goto, NoWork
<1> QED
  BY <1>1, <1>3, <1>4, <1>5, <1>6, OwnStep DEF StreamSteps

\* Then the stream is freed.
LEMMA DroppedKeeps ==
    ASSUME Inv, NEW t \in Streams, Dropped(t)
    PROVE  Inv'
<1>1. PICK to \in {"done"} :
        pc' = [pc EXCEPT ![t] = to]
  BY DEF Dropped, FreeStream, Goto, NoWork
<1>2. work' \in [Streams -> WorkRecords]
  BY FreshWork DEF Inv, Typed, DataTyped, Dropped, FreeStream
<1>3. DataTyped'
  BY <1>2, ConstantsOK
  DEF Inv, Typed, DataTyped, OwnStream, Queues, Dropped, FreeStream, Goto,
      NoWork
<1>4. OthersKept(t)
  BY <1>1, ConstantsOK
  DEF Inv, Typed, DataTyped, OthersKept, Dropped, FreeStream, Goto, NoWork
<1>5. OwnStream(t)'
  BY <1>1, ConstantsOK
  DEF Inv, Typed, StepTyped, DataTyped, OwnStream, Queued, QueueOfFlags,
      Linked, WorkSteps, Queues, Dropped, FreeStream, Goto, NoWork
<1>6. EntryKept(t)
  BY <1>1, ConstantsOK
  DEF EntryKept, Inv, Typed, StepTyped, DataTyped, OwnStream, Queued,
      QueueOfFlags, Linked, WorkSteps, Queues, Dropped, FreeStream, Goto,
      NoWork
<1> QED
  BY <1>1, <1>3, <1>4, <1>5, <1>6, OwnStep DEF StreamSteps

-----------------------------------------------------------------------------
(* Steps that write to another stream's entry *)

\* What pendconn_process_next_strm() leaves alone.
ProcessFrame ==
    UNCHANGED <<counters, lock, pend, serverState, target, assigned, currSess,
                leaving, missed>>

\* An entry of the server's own queue is linked, so its stream still waits,
\* without a slot.
LEMMA TakeOwnKeeps ==
    ASSUME Inv, NEW t \in Streams, pc[t] = "next", NEW p \in tree[target[t]],
           TakeOwn(t, p), ProcessFrame
    PROVE  Inv'
<1>1. target[t] \in Servers /\ target[t] \in Queues /\ target[t] # Px
  BY ConstantsOK DEF Inv, OwnStream, WorkSteps, Queues
<1>2. /\ p \in Streams /\ Queued(p) /\ pc[p] # "dequeued"
      /\ pend[p] = target[t] /\ srvConn[p] = None
  BY <1>1 DEF Inv, Typed, StepTyped, DataTyped, Linked
<1>3. pc' = [pc EXCEPT ![t] = "dec"]
  BY DEF TakeOwn, Goto
<1>4. /\ pc' \in [Streams \cup {Admin} -> StreamSteps \cup AdminSteps]
      /\ (\A u \in Streams : pc'[u] \in StreamSteps) /\ pc'[Admin] \in AdminSteps
      /\ pc'[Admin] = pc[Admin]
  BY <1>3, ConstantsOK DEF Inv, Typed, StepTyped, DataTyped, StreamSteps
<1>5. /\ work' = [work EXCEPT ![t] = [work[t] EXCEPT !.from = target[t]]]
      /\ work' \in [Streams -> WorkRecords]
  <2>1. [work[t] EXCEPT !.from = target[t]] \in WorkRecords
    BY <1>1, WorkUpdates DEF Inv, Typed, StepTyped, DataTyped
  <2>2. work' = [work EXCEPT ![t] = [work[t] EXCEPT !.from = target[t]]]
    BY DEF TakeOwn, Inv, Typed, StepTyped, DataTyped
  <2> QED
    BY <2>1, <2>2 DEF Inv, Typed, StepTyped, DataTyped
<1>6. Typed'
  BY <1>1, <1>2, <1>4, <1>5
  DEF Inv, Typed, StepTyped, DataTyped, TakeOwn, ProcessFrame
<1>7. \A u \in Streams : work'[u].back = work[u].back /\ work'[u].pick = work[u].pick
  BY <1>5 DEF Inv, Typed, StepTyped, DataTyped, WorkRecords
<1>8. \A u \in Streams : Queued(u)' <=> Queued(u)
  BY <1>3, <1>7 DEF Queued, WorkSteps, Inv, Typed, StepTyped, DataTyped
<1>9. ASSUME NEW u \in Streams PROVE OwnStream(u)'
  <2>1. CASE u = p
    <3>1. /\ Queued(p)' /\ QueueOfFlags(p)'
          /\ srvConn'[p] = pendTarget'[p] /\ pendTarget'[p] \in Servers
      BY <1>1, <1>2, <1>8
      DEF Inv, Typed, StepTyped, DataTyped, OwnStream, QueueOfFlags, TakeOwn,
          ProcessFrame
    <3>2. pc'[p] \in WorkSteps =>
             work'[p].back \in {"wait", "close", "drop"} /\ target'[p] \in Servers
      BY <1>2, <1>3, <1>7
      DEF Inv, Typed, StepTyped, DataTyped, OwnStream, WorkSteps, ProcessFrame
    <3> QED
      BY <2>1, <3>1, <3>2, ConstantsOK DEF OwnStream, Queued, WorkSteps, Queues
  <2>2. CASE u # p
    BY <2>2, <1>1, <1>2, <1>3, <1>7, <1>8
    DEF Inv, Typed, StepTyped, DataTyped, OwnStream, QueueOfFlags, TakeOwn, ProcessFrame, WorkSteps
  <2> QED
    BY <2>1, <2>2
<1>10. Linked'
  <2> SUFFICES ASSUME NEW q \in Queues, NEW u \in tree'[q]
               PROVE  /\ Queued(u)' /\ pc'[u] # "dequeued"
                      /\ pend'[u] = q /\ srvConn'[u] = None
    BY DEF Linked
  <2>1. u \in tree[q] /\ u # p /\ u \in Streams
    BY <1>1, <1>2 DEF Inv, Typed, StepTyped, DataTyped, Linked, TakeOwn
  <2> QED
    BY <2>1, <1>2, <1>3, <1>8
    DEF Inv, Typed, StepTyped, DataTyped, Linked, TakeOwn, ProcessFrame
<1>11. Picked'
  <2> SUFFICES ASSUME NEW u \in Streams, pc'[u] = "give"
               PROVE  (/\ work[u].pick \in delLock /\ work[u].pick \notin tree[Px]
                       /\ Queued(work[u].pick) /\ pend[work[u].pick] = Px
                       /\ srvConn[work[u].pick] = None
                       /\ \A v \in Streams :
                             pc[v] = "give" /\ work[v].pick = work[u].pick => v = u)'
    BY DEF Picked
  <2>1. u # t /\ pc[u] = "give" /\ work'[u] = work[u]
    BY <1>3, <1>5 DEF Inv, Typed, StepTyped, DataTyped
  <2>2. PICK r \in Streams : r = work[u].pick
    BY <2>1 DEF Inv, Picked, Typed, StepTyped, DataTyped
  <2>3. /\ r \in delLock /\ r \notin tree[Px]
        /\ Queued(r) /\ pend[r] = Px /\ srvConn[r] = None
    BY <2>1, <2>2 DEF Inv, Picked
  <2>4. r # p
    BY <2>3, <1>1, <1>2
  <2>5. /\ r \in delLock' /\ r \notin tree'[Px]
        /\ Queued(r)' /\ pend'[r] = Px /\ srvConn'[r] = None
    BY <2>3, <2>4, <1>1, <1>2, <1>8
    DEF TakeOwn, ProcessFrame, Inv, Typed, StepTyped, DataTyped, Queues
  <2>6. ASSUME NEW v \in Streams, pc'[v] = "give", work'[v].pick = work'[u].pick
        PROVE  v = u
    BY <2>1, <2>6, <1>3, <1>7 DEF Inv, Picked, Typed, StepTyped, DataTyped
  <2>7. Queued(work[u].pick)'
    BY <2>1, <2>2, <2>5 DEF Queued
  <2> QED
    BY <2>1, <2>2, <2>5, <2>6, <2>7
<1> QED
  BY <1>4, <1>6, <1>9, <1>10, <1>11
  DEF Inv, AdminOK, ProcessFrame

\* An entry of the proxy's queue is unlinked under its own del_lock, which no
\* other thread holds.
LEMMA TakePxKeeps ==
    ASSUME Inv, NEW t \in Streams, pc[t] = "next", NEW p \in tree[Px],
           TakePx(t, p), ProcessFrame
    PROVE  Inv'
<1>1. p \in Streams /\ Queued(p) /\ pend[p] = Px /\ srvConn[p] = None /\ p \notin delLock
  BY DEF Inv, Typed, StepTyped, DataTyped, Linked, Queues, TakePx
<1>2. pc' = [pc EXCEPT ![t] = "give"]
  BY DEF TakePx, Goto
<1>3. /\ pc' \in [Streams \cup {Admin} -> StreamSteps \cup AdminSteps]
      /\ (\A u \in Streams : pc'[u] \in StreamSteps) /\ pc'[Admin] \in AdminSteps
      /\ pc'[Admin] = pc[Admin]
  BY <1>2, ConstantsOK DEF Inv, Typed, StepTyped, DataTyped, StreamSteps
<1>4. /\ work' = [work EXCEPT ![t] = [work[t] EXCEPT !.from = Px, !.pick = p]]
      /\ work' \in [Streams -> WorkRecords]
  <2>1. [work[t] EXCEPT !.from = Px, !.pick = p] \in WorkRecords
    BY <1>1, WorkUpdates DEF Inv, Typed, StepTyped, DataTyped, Queues
  <2>2. work' = [work EXCEPT ![t] = [work[t] EXCEPT !.from = Px, !.pick = p]]
    BY DEF TakePx, Inv, Typed, StepTyped, DataTyped
  <2> QED
    BY <2>1, <2>2 DEF Inv, Typed, StepTyped, DataTyped
<1>5. Typed'
  BY <1>1, <1>3, <1>4 DEF Inv, Typed, StepTyped, DataTyped, TakePx, ProcessFrame
<1>6. /\ \A u \in Streams : work'[u].back = work[u].back
      /\ \A u \in Streams \ {t} : work'[u].pick = work[u].pick
      /\ work'[t].pick = p
  BY <1>4 DEF Inv, Typed, StepTyped, DataTyped, WorkRecords
<1>7. \A u \in Streams : Queued(u)' <=> Queued(u)
  BY <1>2, <1>6 DEF Queued, WorkSteps, Inv, Typed, StepTyped, DataTyped
<1>8. ASSUME NEW u \in Streams PROVE OwnStream(u)'
  BY <1>2, <1>6, <1>7
  DEF Inv, Typed, StepTyped, DataTyped, OwnStream, QueueOfFlags, TakePx, ProcessFrame, WorkSteps
<1>9. Linked'
  <2> SUFFICES ASSUME NEW q \in Queues, NEW u \in tree'[q]
               PROVE  /\ Queued(u)' /\ pc'[u] # "dequeued"
                      /\ pend'[u] = q /\ srvConn'[u] = None
    BY DEF Linked
  <2>1. u \in tree[q] /\ u \in Streams
    BY DEF Inv, Typed, StepTyped, DataTyped, TakePx
  <2> QED
    BY <2>1, <1>2, <1>7
    DEF Inv, Typed, StepTyped, DataTyped, Linked, TakePx, ProcessFrame
<1>10. Picked'
  <2> SUFFICES ASSUME NEW u \in Streams, pc'[u] = "give"
               PROVE  (/\ work[u].pick \in delLock /\ work[u].pick \notin tree[Px]
                       /\ Queued(work[u].pick) /\ pend[work[u].pick] = Px
                       /\ srvConn[work[u].pick] = None
                       /\ \A v \in Streams :
                             pc[v] = "give" /\ work[v].pick = work[u].pick => v = u)'
    BY DEF Picked
  <2>1. PICK r \in Streams : r = work'[u].pick
    BY <1>1, <1>2, <1>6 DEF Inv, Picked, Typed, StepTyped, DataTyped
  <2>2. u # t => pc[u] = "give" /\ r = work[u].pick /\ r # p
    BY <2>1, <1>1, <1>2, <1>6 DEF Inv, Picked, Typed, StepTyped, DataTyped
  <2>3. Queued(r) /\ pend[r] = Px /\ srvConn[r] = None
    BY <2>1, <2>2, <1>1, <1>6 DEF Inv, Picked
  <2>4. r \in delLock' /\ r \notin tree'[Px]
    <3>1. CASE u = t
      BY <2>1, <3>1, <1>1, <1>6
      DEF TakePx, Inv, Typed, StepTyped, DataTyped, Queues
    <3>2. CASE u # t
      BY <2>2, <3>2 DEF TakePx, Inv, Typed, StepTyped, DataTyped, Picked, Queues
    <3> QED
      BY <3>1, <3>2
  <2>5. Queued(r)' /\ pend'[r] = Px /\ srvConn'[r] = None
    BY <2>3, <1>7 DEF TakePx, ProcessFrame
  <2>6. ASSUME NEW v \in Streams, pc'[v] = "give", work'[v].pick = work'[u].pick
        PROVE  v = u
    <3>1. v # t => pc[v] = "give" /\ work[v].pick # p /\ work'[v].pick = work[v].pick
      BY <2>6, <1>1, <1>2, <1>6 DEF Inv, Picked, Typed, StepTyped, DataTyped
    <3> QED
      BY <2>1, <2>2, <2>6, <3>1, <1>6 DEF Inv, Picked
  <2>7. Queued(work[u].pick)'
    BY <2>1, <2>5 DEF Queued
  <2> QED
    BY <2>1, <2>4, <2>6, <2>7, <2>5
<1> QED
  BY <1>3, <1>5, <1>8, <1>9, <1>10
  DEF Inv, AdminOK, ProcessFrame

\* Nothing was found.
LEMMA FoundNothingKeeps ==
    ASSUME Inv, NEW t \in Streams, pc[t] = "next", ProcessFrame,
           work' = [work EXCEPT ![t].stop = TRUE], pc' = [pc EXCEPT ![t] = "leave"],
           UNCHANGED <<tree, delLock, pendTarget, pendAssigned, srvConn, woken>>
    PROVE  Inv'
<1>1. work' \in [Streams -> WorkRecords]
  <2>1. [work[t] EXCEPT !.stop = TRUE] \in WorkRecords
    BY WorkUpdates DEF Inv, Typed, StepTyped, DataTyped
  <2> QED
    BY <2>1 DEF Inv, Typed, StepTyped, DataTyped
<1>2. DataTyped'
  BY <1>1 DEF Inv, Typed, StepTyped, DataTyped, ProcessFrame
<1>3. OthersKept(t)
  BY ConstantsOK DEF Inv, Typed, StepTyped, DataTyped, OthersKept, ProcessFrame
<1>4. work'[t].back = work[t].back
  BY DEF Inv, Typed, StepTyped, DataTyped, WorkRecords
<1>5. OwnStream(t)'
  BY <1>4
  DEF Inv, Typed, StepTyped, DataTyped, OwnStream, Queued, QueueOfFlags,
      WorkSteps, ProcessFrame
<1>6. EntryKept(t)
  BY <1>4
  DEF Inv, Typed, StepTyped, DataTyped, EntryKept, Queued, Linked, WorkSteps,
      ProcessFrame
<1> QED
  BY <1>2, <1>3, <1>5, <1>6, OwnStep DEF StreamSteps

\* pendconn_process_next_strm() takes one of either queue, or none.
LEMMA ProcessNextKeeps ==
    ASSUME Inv, NEW t \in Streams, ProcessNext(t)
    PROVE  Inv'
<1>1. pc[t] = "next" /\ ProcessFrame
  BY DEF ProcessNext, ProcessFrame
<1>2. ASSUME NEW p \in tree[target[t]], TakeOwn(t, p) PROVE Inv'
  BY <1>1, <1>2, TakeOwnKeeps
<1>3. ASSUME NEW p \in tree[Px], TakePx(t, p) PROVE Inv'
  BY <1>1, <1>3, TakePxKeeps
<1>4. ASSUME work' = [work EXCEPT ![t].stop = TRUE], Goto(t, "leave"),
             UNCHANGED <<tree, delLock, pendTarget, pendAssigned, srvConn, woken>>
      PROVE  Inv'
  BY <1>1, <1>4, FoundNothingKeeps DEF Goto
<1> QED
  BY <1>2, <1>3, <1>4 DEF ProcessNext

\* The entry is the one this thread holds the del_lock of.
LEMMA GiveKeeps ==
    ASSUME Inv, NEW t \in Streams, Give(t)
    PROVE  Inv'
<1>1. PICK p \in Streams : p = work[t].pick
  BY DEF Give, Inv, Picked, Typed, StepTyped, DataTyped
<1>2. /\ p \in delLock /\ Queued(p) /\ pend[p] = Px /\ srvConn[p] = None
      /\ \A v \in Streams : pc[v] = "give" /\ work[v].pick = p => v = t
  BY <1>1 DEF Give, Inv, Picked
<1>3. /\ pendTarget' = [pendTarget EXCEPT ![p] = target[t]]
      /\ pendAssigned' = [pendAssigned EXCEPT ![p] = TRUE]
      /\ srvConn' = [srvConn EXCEPT ![p] = target[t]]
      /\ woken' = [woken EXCEPT ![p] = TRUE]
      /\ delLock' = delLock \ {p}
      /\ pc' = [pc EXCEPT ![t] = "dec"]
      /\ UNCHANGED <<counters, tree, lock, pend, serverState, target, assigned,
                     currSess, leaving, work, missed>>
  BY <1>1 DEF Give, Goto
<1>4. /\ pc' \in [Streams \cup {Admin} -> StreamSteps \cup AdminSteps]
      /\ (\A u \in Streams : pc'[u] \in StreamSteps) /\ pc'[Admin] \in AdminSteps
      /\ pc'[Admin] = pc[Admin]
  BY <1>3, ConstantsOK DEF Inv, Typed, StepTyped, DataTyped, StreamSteps
<1>5. Typed' /\ target[t] \in Servers
  <2>1. target[t] \in Servers
    BY DEF Inv, Give, OwnStream, WorkSteps
  <2>2. StepTyped'
    BY <1>4 DEF StepTyped
  <2>3. DataTyped'
    BY <1>3, <2>1 DEF Inv, Typed, DataTyped
  <2> QED
    BY <2>1, <2>2, <2>3 DEF Typed, StepTyped, DataTyped
<1>6. \A u \in Streams : Queued(u)' <=> Queued(u)
  BY <1>3 DEF Queued, WorkSteps, Inv, Typed, StepTyped, DataTyped, Give
<1>7. ASSUME NEW u \in Streams PROVE OwnStream(u)'
  <2>1. pc'[u] \in WorkSteps =>
           work'[u].back \in {"wait", "close", "drop"} /\ target'[u] \in Servers
    BY <1>3 DEF Inv, Typed, StepTyped, DataTyped, OwnStream, WorkSteps, Give
  <2>2. CASE u = p
    <3>1. /\ Queued(p)' /\ QueueOfFlags(p)'
          /\ srvConn'[p] = pendTarget'[p] /\ pendTarget'[p] \in Servers
      BY <1>2, <1>3, <1>5, <1>6
      DEF Inv, Typed, StepTyped, DataTyped, OwnStream, QueueOfFlags
    <3> QED
      BY <2>1, <2>2, <3>1, ConstantsOK DEF OwnStream, Queued, WorkSteps, Queues
  <2>3. CASE u # p
    <3>1. /\ pendTarget'[u] = pendTarget[u] /\ pendAssigned'[u] = pendAssigned[u]
          /\ srvConn'[u] = srvConn[u] /\ target'[u] = target[u] /\ pend'[u] = pend[u]
          /\ assigned'[u] = assigned[u]
          /\ pc'[u] = pc[u] \/ pc'[u] = "dec"
      BY <2>3, <1>3 DEF Inv, Typed, StepTyped, DataTyped
    <3>2. OwnStream(u) /\ (Queued(u)' <=> Queued(u))
      BY <1>6 DEF Inv
    <3> QED
      BY <2>1, <3>1, <3>2 DEF OwnStream, QueueOfFlags, WorkSteps
  <2> QED
    BY <2>2, <2>3
<1>8. Linked'
  <2> SUFFICES ASSUME NEW q \in Queues, NEW u \in tree'[q]
               PROVE  /\ Queued(u)' /\ pc'[u] # "dequeued"
                      /\ pend'[u] = q /\ srvConn'[u] = None
    BY DEF Linked
  <2>1. u \in tree[q] /\ u \in Streams
    BY <1>3 DEF Inv, Typed, StepTyped, DataTyped
  <2>2. u # p
    BY <2>1, <1>1, <1>2 DEF Give, Inv, Linked, Picked
  <2> QED
    BY <2>1, <2>2, <1>3, <1>6 DEF Inv, Typed, StepTyped, DataTyped, Linked
<1>9. Picked'
  <2> SUFFICES ASSUME NEW u \in Streams, pc'[u] = "give"
               PROVE  (/\ work[u].pick \in delLock /\ work[u].pick \notin tree[Px]
                       /\ Queued(work[u].pick) /\ pend[work[u].pick] = Px
                       /\ srvConn[work[u].pick] = None
                       /\ \A v \in Streams :
                             pc[v] = "give" /\ work[v].pick = work[u].pick => v = u)'
    BY DEF Picked
  <2>1. u # t /\ pc[u] = "give" /\ work' = work
    BY <1>3 DEF Inv, Typed, StepTyped, DataTyped
  <2>2. PICK r \in Streams : r = work[u].pick
    BY <2>1 DEF Inv, Picked, Typed, StepTyped, DataTyped
  <2>3. /\ r \in delLock /\ r \notin tree[Px] /\ r # p
        /\ Queued(r) /\ pend[r] = Px /\ srvConn[r] = None
    BY <2>1, <2>2, <1>2 DEF Inv, Picked
  <2>4. /\ r \in delLock' /\ r \notin tree'[Px]
        /\ Queued(r)' /\ pend'[r] = Px /\ srvConn'[r] = None
    BY <2>3, <1>3, <1>6 DEF Inv, Typed, StepTyped, DataTyped
  <2>5. ASSUME NEW v \in Streams, pc'[v] = "give", work'[v].pick = work'[u].pick
        PROVE  v = u
    BY <2>1, <2>5, <1>3 DEF Inv, Picked, Typed, StepTyped, DataTyped
  <2>6. Queued(work[u].pick)'
    BY <2>1, <2>2, <2>4 DEF Queued
  <2> QED
    BY <2>1, <2>2, <2>4, <2>5, <2>6
<1> QED
  BY <1>3, <1>4, <1>5, <1>7, <1>8, <1>9 DEF Inv, AdminOK

-----------------------------------------------------------------------------
(* Steps of the thread that changes servers *)

\* Streams keep everything but what may change of an entry that was linked:
\* its target and its flags.
StreamsKept ==
    /\ \A u \in Streams : pc'[u] = pc[u] /\ pend'[u] = pend[u]
    /\ UNCHANGED <<work, target, assigned, srvConn, delLock>>
    /\ \A q \in Queues : tree'[q] \subseteq tree[q]

\* Such a step keeps the invariant; only entries that were linked change.
LEMMA AdminStepKeeps ==
    ASSUME Inv, Typed', StreamsKept, AdminOK',
           \A u \in Streams :
              /\ pendAssigned'[u] => pendAssigned[u]
              /\ pendAssigned'[u] # pendAssigned[u] => Queued(u)
              /\ \/ pendTarget'[u] = pendTarget[u]
                 \/ srvConn[u] = None /\ Queued(u)
              /\ pendTarget'[u] = None => pendTarget[u] = None
    PROVE  Inv'
<1>1. \A u \in Streams : Queued(u)' <=> Queued(u)
  BY DEF StreamsKept, Queued
<1>2. ASSUME NEW u \in Streams PROVE OwnStream(u)'
  <2>1. /\ pc'[u] = pc[u] /\ pend'[u] = pend[u] /\ work'[u] = work[u]
        /\ target'[u] = target[u] /\ assigned'[u] = assigned[u]
        /\ srvConn'[u] = srvConn[u] /\ OwnStream(u)
    BY DEF StreamsKept, Inv
  <2>2. CASE Queued(u)
    BY <2>1, <2>2, <1>1 DEF OwnStream, QueueOfFlags, Queued, WorkSteps
  <2>3. CASE ~ Queued(u)
    <3>1. pendAssigned'[u] = pendAssigned[u] /\ pendTarget'[u] = pendTarget[u]
      BY <2>3
    <3> QED
      BY <2>1, <2>3, <3>1, <1>1 DEF OwnStream, QueueOfFlags
  <2> QED
    BY <2>2, <2>3
<1>3. Linked'
  BY <1>1 DEF Inv, Typed, StepTyped, DataTyped, Linked, StreamsKept
<1>4. Picked'
  <2> SUFFICES ASSUME NEW u \in Streams, pc'[u] = "give"
               PROVE  (/\ work[u].pick \in delLock /\ work[u].pick \notin tree[Px]
                       /\ Queued(work[u].pick) /\ pend[work[u].pick] = Px
                       /\ srvConn[work[u].pick] = None
                       /\ \A v \in Streams :
                             pc[v] = "give" /\ work[v].pick = work[u].pick => v = u)'
    BY DEF Picked
  <2>1. pc[u] = "give" /\ work' = work
    BY DEF StreamsKept
  <2>2. PICK r \in Streams : r = work[u].pick
    BY <2>1 DEF Inv, Picked, Typed, StepTyped, DataTyped
  <2>3. Queued(r)' /\ pend'[r] = Px
    BY <2>1, <2>2, <1>1 DEF Inv, Picked, StreamsKept
  <2>4. Queued(work[u].pick)'
    BY <2>1, <2>2, <2>3 DEF Queued
  <2> QED
    BY <2>1, <2>2, <2>3, <2>4 DEF Inv, Picked, StreamsKept, Queues
<1> QED
  BY <1>2, <1>3, <1>4 DEF Inv

\* The server is known from here on.
LEMMA SetMaintKeeps ==
    ASSUME Inv, NEW s \in Servers, SetMaint(s)
    PROVE  Inv'
<1>1. PICK to \in {"redistribute"} : pc' = [pc EXCEPT ![Admin] = to]
  BY DEF SetMaint, Goto
<1>2. /\ pc' \in [Streams \cup {Admin} -> StreamSteps \cup AdminSteps]
      /\ (\A u \in Streams : pc'[u] \in StreamSteps) /\ pc'[Admin] \in AdminSteps
  BY <1>1, ConstantsOK DEF Inv, Typed, StepTyped, DataTyped, AdminSteps
<1>3. Typed'
  BY <1>2, ConstantsOK
  DEF Inv, Typed, StepTyped, DataTyped, AdminOK, Queues, SetMaint
<1>4. StreamsKept
  BY <1>1, ConstantsOK
  DEF Inv, Typed, StepTyped, DataTyped, StreamsKept, SetMaint
<1>5. AdminOK'
  BY <1>1, ConstantsOK DEF Inv, Typed, StepTyped, DataTyped, AdminOK, SetMaint
<1> QED
  BY <1>3, <1>4, <1>5, AdminStepKeeps, ConstantsOK
  DEF Inv, Typed, StepTyped, DataTyped, Linked, AdminOK, Queues, SetMaint

\* Here too.
LEMMA SetReadyKeeps ==
    ASSUME Inv, NEW s \in Servers, SetReady(s)
    PROVE  Inv'
<1>1. PICK to \in {"grab"} : pc' = [pc EXCEPT ![Admin] = to]
  BY DEF SetReady, Goto
<1>2. /\ pc' \in [Streams \cup {Admin} -> StreamSteps \cup AdminSteps]
      /\ (\A u \in Streams : pc'[u] \in StreamSteps) /\ pc'[Admin] \in AdminSteps
  BY <1>1, ConstantsOK DEF Inv, Typed, StepTyped, DataTyped, AdminSteps
<1>3. Typed'
  BY <1>2, ConstantsOK
  DEF Inv, Typed, StepTyped, DataTyped, AdminOK, Queues, SetReady
<1>4. StreamsKept
  BY <1>1, ConstantsOK
  DEF Inv, Typed, StepTyped, DataTyped, StreamsKept, SetReady
<1>5. AdminOK'
  BY <1>1, ConstantsOK DEF Inv, Typed, StepTyped, DataTyped, AdminOK, SetReady
<1> QED
  BY <1>3, <1>4, <1>5, AdminStepKeeps, ConstantsOK
  DEF Inv, Typed, StepTyped, DataTyped, Linked, AdminOK, Queues, SetReady

\* The entries of the server lose their queue and their flag.
LEMMA RedistributeKeeps ==
    ASSUME Inv, Redistribute
    PROVE  Inv'
<1>1. PICK to \in {"counted"} : pc' = [pc EXCEPT ![Admin] = to]
  BY DEF Redistribute, Goto
<1>2. /\ pc' \in [Streams \cup {Admin} -> StreamSteps \cup AdminSteps]
      /\ (\A u \in Streams : pc'[u] \in StreamSteps) /\ pc'[Admin] \in AdminSteps
  BY <1>1, ConstantsOK DEF Inv, Typed, StepTyped, DataTyped, AdminSteps
<1>3. Typed'
  <2>1. admin.srv \in Queues
    BY DEF Redistribute, Inv, AdminOK, Queues
  <2>2. Cardinality(tree[admin.srv]) \in Nat
    BY <2>1, EntriesFinite DEF Inv, Typed, StepTyped, DataTyped
  <2>3. admin' \in [srv : Servers \cup {None}, xferred : Nat]
    BY <2>2 DEF Inv, Typed, StepTyped, DataTyped, Redistribute, TakeOut
  <2>4. tree' \in [Queues -> SUBSET Streams] /\ woken' \in [Streams -> BOOLEAN]
    BY <2>1 DEF Inv, Typed, StepTyped, DataTyped, Redistribute, TakeOut
  <2> QED
    BY <1>2, <2>3, <2>4 DEF Inv, Typed, StepTyped, DataTyped, Redistribute
<1>4. StreamsKept
  BY <1>1, ConstantsOK
  DEF Inv, Typed, StepTyped, DataTyped, StreamsKept, Redistribute, TakeOut
<1>5. AdminOK'
  BY <1>1, ConstantsOK
  DEF Inv, Typed, StepTyped, DataTyped, AdminOK, Redistribute, TakeOut
<1> QED
  BY <1>3, <1>4, <1>5, AdminStepKeeps, ConstantsOK
  DEF Inv, Typed, StepTyped, DataTyped, Linked, AdminOK, Queues, Redistribute,
      TakeOut

\* The length of the server's queue follows.
LEMMA CountedKeeps ==
    ASSUME Inv, Counted
    PROVE  Inv'
<1>1. PICK to \in {"idle", "redistpx"} : pc' = [pc EXCEPT ![Admin] = to]
  BY DEF Counted, Goto
<1>2. /\ pc' \in [Streams \cup {Admin} -> StreamSteps \cup AdminSteps]
      /\ (\A u \in Streams : pc'[u] \in StreamSteps) /\ pc'[Admin] \in AdminSteps
  BY <1>1, ConstantsOK DEF Inv, Typed, StepTyped, DataTyped, AdminSteps
<1>3. Typed'
  BY <1>2, ConstantsOK
  DEF Inv, Typed, StepTyped, DataTyped, AdminOK, Queues, Counted, CountOut
<1>4. StreamsKept
  BY <1>1, ConstantsOK
  DEF Inv, Typed, StepTyped, DataTyped, StreamsKept, Counted, CountOut
<1>5. AdminOK'
  BY <1>1, ConstantsOK
  DEF Inv, Typed, StepTyped, DataTyped, AdminOK, Counted, CountOut
<1> QED
  BY <1>3, <1>4, <1>5, AdminStepKeeps, ConstantsOK
  DEF Inv, Typed, StepTyped, DataTyped, Linked, AdminOK, Queues, Counted,
      CountOut

\* The entries of the proxy leave their queue.
LEMMA RedistributePxKeeps ==
    ASSUME Inv, RedistributePx
    PROVE  Inv'
<1>1. PICK to \in {"countedpx"} : pc' = [pc EXCEPT ![Admin] = to]
  BY DEF RedistributePx, Goto
<1>2. /\ pc' \in [Streams \cup {Admin} -> StreamSteps \cup AdminSteps]
      /\ (\A u \in Streams : pc'[u] \in StreamSteps) /\ pc'[Admin] \in AdminSteps
  BY <1>1, ConstantsOK DEF Inv, Typed, StepTyped, DataTyped, AdminSteps
<1>3. Typed'
  <2>1. Px \in Queues
    BY DEF RedistributePx, Inv, AdminOK, Queues
  <2>2. Cardinality(tree[Px]) \in Nat
    BY <2>1, EntriesFinite DEF Inv, Typed, StepTyped, DataTyped
  <2>3. admin' \in [srv : Servers \cup {None}, xferred : Nat]
    BY <2>2 DEF Inv, Typed, StepTyped, DataTyped, RedistributePx, TakeOut
  <2>4. tree' \in [Queues -> SUBSET Streams] /\ woken' \in [Streams -> BOOLEAN]
    BY <2>1 DEF Inv, Typed, StepTyped, DataTyped, RedistributePx, TakeOut
  <2> QED
    BY <1>2, <2>3, <2>4 DEF Inv, Typed, StepTyped, DataTyped, RedistributePx
<1>4. StreamsKept
  BY <1>1, ConstantsOK
  DEF Inv, Typed, StepTyped, DataTyped, StreamsKept, RedistributePx, TakeOut
<1>5. AdminOK'
  BY <1>1, ConstantsOK
  DEF Inv, Typed, StepTyped, DataTyped, AdminOK, RedistributePx, TakeOut
<1> QED
  BY <1>3, <1>4, <1>5, AdminStepKeeps, ConstantsOK
  DEF Inv, Typed, StepTyped, DataTyped, Linked, AdminOK, Queues,
      RedistributePx, TakeOut

\* The entries that are grabbed get a target and no slot.
LEMMA GrabKeeps ==
    ASSUME Inv, Grab
    PROVE  Inv'
<1>1. PICK to \in {"countedpx"} : pc' = [pc EXCEPT ![Admin] = to]
  BY DEF Grab, Goto
<1>2. /\ pc' \in [Streams \cup {Admin} -> StreamSteps \cup AdminSteps]
      /\ (\A u \in Streams : pc'[u] \in StreamSteps) /\ pc'[Admin] \in AdminSteps
  BY <1>1, ConstantsOK DEF Inv, Typed, StepTyped, DataTyped, AdminSteps
<1>3. Typed'
  <2>1. PICK W \in SUBSET tree[Px] :
          /\ TakeOut(Px, W)
          /\ pendTarget' = [t \in Streams |-> IF t \in W THEN admin.srv
                                                         ELSE pendTarget[t]]
    BY DEF Grab
  <2>2. Cardinality(W) \in Nat
    BY EntriesFinite DEF Inv, Typed, StepTyped, DataTyped, Queues
  <2>3. admin' \in [srv : Servers \cup {None}, xferred : Nat]
    BY <2>1, <2>2 DEF Inv, Typed, StepTyped, DataTyped, TakeOut
  <2>4. tree' \in [Queues -> SUBSET Streams] /\ woken' \in [Streams -> BOOLEAN]
    BY <2>1 DEF Inv, Typed, StepTyped, DataTyped, TakeOut
  <2>5. pendTarget' \in [Streams -> Servers \cup {None}]
    BY <2>1 DEF Inv, Typed, StepTyped, DataTyped, AdminOK, Grab
  <2> QED
    BY <1>2, <2>3, <2>4, <2>5 DEF Inv, Typed, StepTyped, DataTyped, Grab
<1>4. StreamsKept
  BY <1>1, ConstantsOK
  DEF Inv, Typed, StepTyped, DataTyped, StreamsKept, Grab, TakeOut
<1>5. AdminOK'
  BY <1>1, ConstantsOK
  DEF Inv, Typed, StepTyped, DataTyped, AdminOK, Grab, TakeOut
<1> QED
  BY <1>3, <1>4, <1>5, AdminStepKeeps, ConstantsOK
  DEF Inv, Typed, StepTyped, DataTyped, Linked, AdminOK, Queues, Grab, TakeOut

\* The length of the proxy's queue follows.
LEMMA CountedPxKeeps ==
    ASSUME Inv, CountedPx
    PROVE  Inv'
<1>1. PICK to \in {"idle"} : pc' = [pc EXCEPT ![Admin] = to]
  BY DEF CountedPx, Goto
<1>2. /\ pc' \in [Streams \cup {Admin} -> StreamSteps \cup AdminSteps]
      /\ (\A u \in Streams : pc'[u] \in StreamSteps) /\ pc'[Admin] \in AdminSteps
  BY <1>1, ConstantsOK DEF Inv, Typed, StepTyped, DataTyped, AdminSteps
<1>3. Typed'
  BY <1>2, ConstantsOK
  DEF Inv, Typed, StepTyped, DataTyped, AdminOK, Queues, CountedPx, CountOut
<1>4. StreamsKept
  BY <1>1, ConstantsOK
  DEF Inv, Typed, StepTyped, DataTyped, StreamsKept, CountedPx, CountOut
<1>5. AdminOK'
  BY <1>1, ConstantsOK
  DEF Inv, Typed, StepTyped, DataTyped, AdminOK, CountedPx, CountOut
<1> QED
  BY <1>3, <1>4, <1>5, AdminStepKeeps, ConstantsOK
  DEF Inv, Typed, StepTyped, DataTyped, Linked, AdminOK, Queues, CountedPx,
      CountOut

-----------------------------------------------------------------------------
(* The invariant *)

\* Nobody waits and nobody has a slot.
LEMMA InvInit == Init => Inv
<1> SUFFICES ASSUME Init PROVE Inv
  OBVIOUS
<1>1. NoWork \in WorkRecords
  BY FreshWork
<1>2. Typed
  <2>1. /\ dequeuing \in [Servers -> BOOLEAN] /\ served \in [Servers -> Int]
        /\ pxServed \in Int /\ length \in [Queues -> Int]
        /\ tree \in [Queues -> SUBSET Streams]
        /\ lock \in [Servers -> Streams \cup {None}] /\ delLock \in SUBSET Streams
    BY DEF Init
  <2>2. /\ pc \in [Streams \cup {Admin} -> StreamSteps \cup AdminSteps]
        /\ (\A t \in Streams : pc[t] \in StreamSteps) /\ pc[Admin] \in AdminSteps
    BY DEF Init, StreamSteps, AdminSteps
  <2>3. /\ target \in [Streams -> Servers \cup {None}]
        /\ srvConn \in [Streams -> Servers \cup {None}]
        /\ pend \in [Streams -> Queues \cup {None}]
        /\ pendTarget \in [Streams -> Servers \cup {None}]
    BY DEF Init
  <2>4. /\ assigned \in [Streams -> BOOLEAN] /\ currSess \in [Streams -> BOOLEAN]
        /\ leaving \in [Streams -> BOOLEAN] /\ woken \in [Streams -> BOOLEAN]
        /\ pendAssigned \in [Streams -> BOOLEAN] /\ missed \in BOOLEAN
    BY DEF Init
  <2>5. /\ work \in [Streams -> WorkRecords]
        /\ admin \in [srv : Servers \cup {None}, xferred : Nat]
        /\ changes \in Nat /\ usable \in [Servers -> BOOLEAN]
    BY <1>1 DEF Init
  <2> QED
    BY <2>1, <2>2, <2>3, <2>4, <2>5 DEF Typed, StepTyped, DataTyped
<1>3. \A t \in Streams : OwnStream(t) /\ pc[t] = "idle"
  BY DEF Init, OwnStream, Queued, WorkSteps
<1> QED
  BY <1>2, <1>3 DEF Inv, Init, Linked, Picked, AdminOK

\* A stuttering step changes nothing.
LEMMA StutterKeeps == Inv /\ UNCHANGED vars => Inv'
BY DEF Inv, Typed, StepTyped, DataTyped, OwnStream, Queued, QueueOfFlags, Linked,
    Picked, AdminOK, vars

\* Every step of every thread keeps the invariant.
LEMMA InvStep == Inv /\ [Next]_vars => Inv'
<1> SUFFICES ASSUME Inv, Next PROVE Inv'
  BY StutterKeeps
<1>1. ASSUME NEW t \in Streams, NewStream(t) \/ GiveUp(t) PROVE Inv'
  BY <1>1, NewStreamKeeps, GiveUpKeeps
<1>2. ASSUME NEW t \in Streams, Step(t) PROVE Inv'
  BY <1>2, AssignServerKeeps, LookUpServerKeeps, CheckRoomKeeps, TakeSlotKeeps,
     SlotTakenKeeps, PendconnAddKeeps, PendconnInsertKeeps, MustTryAgainKeeps,
     UnqueueKeeps, WakeUpKeeps, DequeuedKeeps, PendconnUnlinkKeeps, UnlinkedKeeps,
     ConnectKeeps, DisconnectKeeps, ReleaseSlotKeeps, SlotReleasedKeeps,
     MayDequeueKeeps, LoopKeeps, XchgKeeps, LockQueueKeeps, InnerKeeps,
     ProcessNextKeeps, GiveKeeps, DecLengthKeeps, IncServedKeeps, LeaveQueueKeeps,
     TallyKeeps, CloseKeeps, DropKeeps, DroppedKeeps
  DEF Step
<1>3. ASSUME NEW s \in Servers, SetMaint(s) \/ SetReady(s) PROVE Inv'
  BY <1>3, SetMaintKeeps, SetReadyKeeps
<1>4. ASSUME AdminStep PROVE Inv'
  BY <1>4, RedistributeKeeps, CountedKeeps, RedistributePxKeeps, GrabKeeps,
     CountedPxKeeps
  DEF AdminStep
<1> QED
  BY <1>1, <1>2, <1>3, <1>4 DEF Next

\* A thread that has taken an entry out of the proxy's queue finds it alive:
\* del_lock keeps pendconn_dequeue() and pendconn_free() away until it is done.
THEOREM EntriesOutliveTheirUse == Spec => []PendconnAlive
<1>1. Inv => PendconnAlive
  BY DEF Inv, Picked, PendconnAlive
<1> QED
  BY <1>1, InvInit, InvStep, PTL DEF Spec

\* The slot a stream holds is one of the server it talks to, whichever thread
\* handed it out and whatever the redistribution did in between.
THEOREM SlotsAgree == Spec => []SlotOfTarget
<1>1. Inv => SlotOfTarget
  BY DEF Inv, OwnStream, SlotOfTarget
<1> QED
  BY <1>1, InvInit, InvStep, PTL DEF Spec

-----------------------------------------------------------------------------
(* The ledgers *)

\* The terms of LengthLedger: entries on their way into queue q or out of it
\* by their own thread, out of it by a thread that dequeues, and by the one
\* that changes servers.
Incoming(q) == {t \in Streams : pc[t] \in {"insert", "unlinked"} /\ pend[t] = q}
Outgoing(q) == {t \in Streams : pc[t] \in {"give", "dec"} /\ work[t].from = q}
Moved(q) == IF (pc[Admin] = "counted" /\ q = admin.srv)
               \/ (pc[Admin] = "countedpx" /\ q = Px)
            THEN admin.xferred ELSE 0

\* The ledger in these terms,
LEMMA LengthTerms ==
    LengthLedger <=>
      \A q \in Queues : length[q] = Cardinality(tree[q]) + Cardinality(Incoming(q))
                                      + Cardinality(Outgoing(q)) + Moved(q)
BY DEF LengthLedger, CountOf, Incoming, Outgoing, Moved

\* and after a step.
LEMMA LengthTermsNext ==
    LengthLedger' <=>
      \A q \in Queues :
          length'[q] = Cardinality(tree'[q]) + Cardinality(Incoming(q)')
                         + Cardinality(Outgoing(q)') + Moved(q)'
BY DEF LengthLedger, CountOf, Incoming, Outgoing, Moved

\* One more, one less.
LEMMA CountSteps ==
    ASSUME NEW S \in SUBSET Streams, NEW t \in Streams
    PROVE  /\ Cardinality(S) \in Nat
           /\ t \notin S => Cardinality(S \cup {t}) = Cardinality(S) + 1
           /\ t \in S => Cardinality(S \ {t}) = Cardinality(S) - 1
BY EntriesFinite, FS_AddElement, FS_RemoveElement, FS_CardinalityType

\* A step that concerns no entry of queue q, but for the others of its terms.
IncomingKept(q) == Incoming(q)' = Incoming(q)
OutgoingKept(q) == Outgoing(q)' = Outgoing(q)
MovedKept(q) == Moved(q)' = Moved(q)

\* The terms change only with the steps, entries and queues they speak of.
LEMMA IncomingSame ==
    ASSUME NEW q, \A u \in Streams :
             /\ pc'[u] \in {"insert", "unlinked"} <=> pc[u] \in {"insert", "unlinked"}
             /\ pc[u] \in {"insert", "unlinked"} => pend'[u] = pend[u]
    PROVE  IncomingKept(q)
BY DEF Incoming, IncomingKept

\* Likewise.
LEMMA OutgoingSame ==
    ASSUME NEW q, \A u \in Streams :
             /\ pc'[u] \in {"give", "dec"} <=> pc[u] \in {"give", "dec"}
             /\ pc[u] \in {"give", "dec"} => work'[u].from = work[u].from
    PROVE  OutgoingKept(q)
BY DEF Outgoing, OutgoingKept

\* Only the queue q0 is concerned.
LEMMA LengthOneQueue ==
    ASSUME LengthLedger, NEW q0,
           \A q \in Queues \ {q0} :
              /\ length'[q] = length[q] /\ tree'[q] = tree[q]
              /\ IncomingKept(q) /\ OutgoingKept(q) /\ MovedKept(q),
           q0 \in Queues =>
              length'[q0] = Cardinality(tree'[q0]) + Cardinality(Incoming(q0)')
                              + Cardinality(Outgoing(q0)') + Moved(q0)'
    PROVE  LengthLedger'
<1>1. ASSUME NEW q \in Queues
      PROVE  length'[q] = Cardinality(tree'[q]) + Cardinality(Incoming(q)')
                            + Cardinality(Outgoing(q)') + Moved(q)'
  <2>1. CASE q = q0
    BY <2>1
  <2>2. CASE q # q0
    BY <2>2, LengthTerms DEF IncomingKept, OutgoingKept, MovedKept
  <2> QED
    BY <2>1, <2>2
<1> QED
  BY <1>1, LengthTermsNext

\* No queue is.
LengthQuiet ==
    \A q \in Queues :
        /\ length'[q] = length[q] /\ tree'[q] = tree[q]
        /\ IncomingKept(q) /\ OutgoingKept(q) /\ MovedKept(q)

\* The ledger survives such a step.
LEMMA LengthQuietKeeps == LengthLedger /\ LengthQuiet => LengthLedger'
BY LengthTerms, LengthTermsNext
DEF LengthQuiet, IncomingKept, OutgoingKept, MovedKept

\* The terms are numbers.
LEMMA TermsTyped ==
    ASSUME Typed, NEW q \in Queues
    PROVE  /\ tree[q] \in SUBSET Streams /\ Incoming(q) \in SUBSET Streams
           /\ Outgoing(q) \in SUBSET Streams
           /\ Cardinality(tree[q]) \in Nat /\ Cardinality(Incoming(q)) \in Nat
           /\ Cardinality(Outgoing(q)) \in Nat /\ Moved(q) \in Nat
<1>1. /\ tree[q] \in SUBSET Streams /\ Incoming(q) \in SUBSET Streams
      /\ Outgoing(q) \in SUBSET Streams /\ Moved(q) \in Nat
  BY DEF Typed, StepTyped, DataTyped, Incoming, Outgoing, Moved
<1> QED
  BY <1>1, EntriesFinite

\* A step of thread t between steps that no term of the ledger speaks of.
LEMMA QuietSteps ==
    ASSUME Inv, NEW t \in Streams, NEW to,
           pc' = [pc EXCEPT ![t] = to], UNCHANGED admin,
           pc[t] \in {"insert", "unlinked"} <=> to \in {"insert", "unlinked"},
           pc[t] \in {"give", "dec"} <=> to \in {"give", "dec"},
           pc[t] \in {"insert", "unlinked"} => UNCHANGED pend,
           pc[t] \in {"give", "dec"} => UNCHANGED work,
           \A u \in Streams \ {t} : pend'[u] = pend[u] /\ work'[u] = work[u],
           \A q \in Queues : length'[q] = length[q] /\ tree'[q] = tree[q]
    PROVE  LengthQuiet
<1> SUFFICES ASSUME NEW q \in Queues
             PROVE  IncomingKept(q) /\ OutgoingKept(q) /\ MovedKept(q)
  BY DEF LengthQuiet
<1>1. /\ pc'[t] = to /\ \A u \in Streams \ {t} : pc'[u] = pc[u]
      /\ pc'[Admin] = pc[Admin]
  BY ConstantsOK DEF Inv, Typed, StepTyped, DataTyped
<1>2. IncomingKept(q)
  BY <1>1, IncomingSame
<1>3. OutgoingKept(q)
  BY <1>1, OutgoingSame
<1> QED
  BY <1>1, <1>2, <1>3 DEF MovedKept, Moved

\* The steps of a stream that leave the lengths alone.
LEMMA QuietLengths ==
    ASSUME Inv, NEW t \in Streams,
           \/ NewStream(t) \/ AssignServer(t) \/ LookUpServer(t) \/ CheckRoom(t)
           \/ TakeSlot(t) \/ SlotTaken(t) \/ MustTryAgain(t) \/ WakeUp(t)
           \/ GiveUp(t) \/ Dequeued(t) \/ Connect(t) \/ Disconnect(t)
           \/ ReleaseSlot(t) \/ SlotReleased(t) \/ MayDequeue(t) \/ Loop(t)
           \/ Xchg(t) \/ LockQueue(t) \/ Inner(t) \/ Give(t)
           \/ IncServed(t) \/ LeaveQueue(t) \/ Tally(t) \/ Close(t)
           \/ Drop(t) \/ Dropped(t)
    PROVE  LengthQuiet
<1>1. CASE NewStream(t)
  <2>1. PICK to \in {"close", "add", "lookup", "check"} : pc' = [pc EXCEPT ![t] = to]
    BY <1>1 DEF NewStream, Balance, Goto
  <2> QED
    BY <1>1, <2>1, QuietSteps
    DEF NewStream, Balance, Inv, Typed, StepTyped, DataTyped
<1>2. CASE AssignServer(t)
  <2>1. PICK to \in {"close", "add", "lookup"} : pc' = [pc EXCEPT ![t] = to]
    BY <1>2 DEF AssignServer, Balance, Goto
  <2> QED
    BY <1>2, <2>1, QuietSteps
    DEF AssignServer, Balance, Inv, Typed, StepTyped, DataTyped
<1>3. CASE LookUpServer(t)
  <2>1. PICK to \in {"add", "check"} : pc' = [pc EXCEPT ![t] = to]
    BY <1>3 DEF LookUpServer, Goto
  <2> QED
    BY <1>3, <2>1, QuietSteps DEF LookUpServer, Inv, Typed, StepTyped, DataTyped
<1>4. CASE CheckRoom(t)
  <2>1. PICK to \in {"connect", "add", "take"} : pc' = [pc EXCEPT ![t] = to]
    BY <1>4 DEF CheckRoom, Goto
  <2> QED
    BY <1>4, <2>1, QuietSteps DEF CheckRoom, Inv, Typed, StepTyped, DataTyped
<1>5. CASE TakeSlot(t)
  <2>1. PICK to \in {"taken"} : pc' = [pc EXCEPT ![t] = to]
    BY <1>5 DEF TakeSlot, Goto
  <2> QED
    BY <1>5, <2>1, QuietSteps DEF TakeSlot, Inv, Typed, StepTyped, DataTyped
<1>6. CASE SlotTaken(t)
  <2>1. PICK to \in {"connect"} : pc' = [pc EXCEPT ![t] = to]
    BY <1>6 DEF SlotTaken, Goto
  <2> QED
    BY <1>6, <2>1, QuietSteps DEF SlotTaken, Inv, Typed, StepTyped, DataTyped
<1>7. CASE MustTryAgain(t)
  <2>1. PICK to \in {"wait", "unqueue"} : pc' = [pc EXCEPT ![t] = to]
    BY <1>7 DEF MustTryAgain, Goto
  <2> QED
    BY <1>7, <2>1, QuietSteps DEF MustTryAgain, Inv, Typed, StepTyped, DataTyped
<1>8. CASE WakeUp(t)
  <2>1. PICK to \in {"dequeued", "unlink", "wait"} : pc' = [pc EXCEPT ![t] = to]
    BY <1>8 DEF WakeUp, LookAtEntry, Goto
  <2> QED
    BY <1>8, <2>1, QuietSteps
    DEF WakeUp, LookAtEntry, Inv, Typed, StepTyped, DataTyped
<1>9. CASE GiveUp(t)
  <2>1. PICK to \in {"dequeued", "unlink", "wait"} : pc' = [pc EXCEPT ![t] = to]
    BY <1>9 DEF GiveUp, LookAtEntry, Goto
  <2> QED
    BY <1>9, <2>1, QuietSteps
    DEF GiveUp, LookAtEntry, Inv, Typed, StepTyped, DataTyped
<1>10. CASE Dequeued(t)
  <2>1. PICK to \in {"connect", "assign"} : pc' = [pc EXCEPT ![t] = to]
    BY <1>10 DEF Dequeued, FreeEntry, Goto
  <2> QED
    BY <1>10, <2>1, QuietSteps
    DEF Dequeued, FreeEntry, Inv, Typed, StepTyped, DataTyped
<1>11. CASE Connect(t)
  <2>1. PICK to \in {"connected", "release", "close"} : pc' = [pc EXCEPT ![t] = to]
    BY <1>11 DEF Connect, Goto
  <2> QED
    BY <1>11, <2>1, QuietSteps DEF Connect, Inv, Typed, StepTyped, DataTyped
<1>12. CASE Disconnect(t)
  <2>1. PICK to \in {"release"} : pc' = [pc EXCEPT ![t] = to]
    BY <1>12 DEF Disconnect, Goto
  <2> QED
    BY <1>12, <2>1, QuietSteps DEF Disconnect, Inv, Typed, StepTyped, DataTyped
<1>13. CASE ReleaseSlot(t)
  <2>1. PICK to \in {"maydequeue", "released"} : pc' = [pc EXCEPT ![t] = to]
    BY <1>13 DEF ReleaseSlot, Offer, Goto, NoWork
  <2> QED
    BY <1>13, <2>1, QuietSteps
    DEF ReleaseSlot, Offer, Inv, Typed, StepTyped, DataTyped
<1>14. CASE SlotReleased(t)
  <2>1. PICK to \in {"maydequeue"} : pc' = [pc EXCEPT ![t] = to]
    BY <1>14 DEF SlotReleased, Offer, Goto, NoWork
  <2> QED
    BY <1>14, <2>1, QuietSteps
    DEF SlotReleased, Offer, Inv, Typed, StepTyped, DataTyped
<1>15. CASE MayDequeue(t)
  <2>1. PICK to \in {"loop", "wait", "close", "drop"} : pc' = [pc EXCEPT ![t] = to]
    BY <1>15 DEF MayDequeue, Goto, Inv, OwnStream, WorkSteps
  <2> QED
    BY <1>15, <2>1, QuietSteps DEF MayDequeue, Inv, Typed, StepTyped, DataTyped
<1>16. CASE Loop(t)
  <2>1. PICK to \in {"xchg", "tally", "wait", "close", "drop"} : pc' = [pc EXCEPT ![t] = to]
    BY <1>16 DEF Loop, EndLoop, Goto, Inv, OwnStream, WorkSteps
  <2> QED
    BY <1>16, <2>1, QuietSteps
    DEF Loop, EndLoop, Inv, Typed, StepTyped, DataTyped
<1>17. CASE Xchg(t)
  <2>1. PICK to \in {"lock", "tally", "wait", "close", "drop"} : pc' = [pc EXCEPT ![t] = to]
    BY <1>17 DEF Xchg, EndLoop, Goto, Inv, OwnStream, WorkSteps
  <2> QED
    BY <1>17, <2>1, QuietSteps
    DEF Xchg, EndLoop, Inv, Typed, StepTyped, DataTyped
<1>18. CASE LockQueue(t)
  <2>1. PICK to \in {"inner"} : pc' = [pc EXCEPT ![t] = to]
    BY <1>18 DEF LockQueue, Goto
  <2> QED
    BY <1>18, <2>1, QuietSteps DEF LockQueue, Inv, Typed, StepTyped, DataTyped
<1>19. CASE Inner(t)
  <2>1. PICK to \in {"next", "leave"} : pc' = [pc EXCEPT ![t] = to]
    BY <1>19 DEF Inner, Goto
  <2> QED
    BY <1>19, <2>1, QuietSteps DEF Inner, Inv, Typed, StepTyped, DataTyped
<1>20. CASE Give(t)
  <2>1. PICK to \in {"dec"} : pc' = [pc EXCEPT ![t] = to]
    BY <1>20 DEF Give, Goto
  <2> QED
    BY <1>20, <2>1, QuietSteps DEF Give, Inv, Typed, StepTyped, DataTyped
<1>21. CASE IncServed(t)
  <2>1. PICK to \in {"inner", "leave"} : pc' = [pc EXCEPT ![t] = to]
    BY <1>21 DEF IncServed, Goto
  <2> QED
    BY <1>21, <2>1, QuietSteps DEF IncServed, Inv, Typed, StepTyped, DataTyped
<1>22. CASE LeaveQueue(t)
  <2>1. PICK to \in {"loop"} : pc' = [pc EXCEPT ![t] = to]
    BY <1>22 DEF LeaveQueue, Goto
  <2> QED
    BY <1>22, <2>1, QuietSteps DEF LeaveQueue, Inv, Typed, StepTyped, DataTyped
<1>23. CASE Tally(t)
  <2>1. PICK to \in {"wait", "close", "drop"} : pc' = [pc EXCEPT ![t] = to]
    BY <1>23 DEF Tally, Goto, NoWork, Inv, OwnStream, WorkSteps
  <2> QED
    BY <1>23, <2>1, QuietSteps DEF Tally, Inv, Typed, StepTyped, DataTyped
<1>24. CASE Close(t)
  <2>1. PICK to \in {"maydequeue", "drop"} : pc' = [pc EXCEPT ![t] = to]
    BY <1>24 DEF Close, FreeEntry, Goto, NoWork
  <2>2. \A q \in Queues : t \notin tree[q]
    BY <1>24
    DEF Close, Inv, Typed, StepTyped, DataTyped, Linked, Queued, WorkSteps
  <2>3. \A q \in Queues : length'[q] = length[q] /\ tree'[q] = tree[q]
    BY <1>24, <2>2 DEF Close
  <2> QED
    BY <1>24, <2>1, <2>3, QuietSteps
    DEF Close, FreeEntry, Inv, Typed, StepTyped, DataTyped
<1>25. CASE Drop(t)
  <2>1. PICK to \in {"done", "dropped"} : pc' = [pc EXCEPT ![t] = to]
    BY <1>25 DEF Drop, FreeStream, Goto, NoWork
  <2> QED
    BY <1>25, <2>1, QuietSteps
    DEF Drop, FreeStream, Inv, Typed, StepTyped, DataTyped
<1>26. CASE Dropped(t)
  <2>1. PICK to \in {"done"} : pc' = [pc EXCEPT ![t] = to]
    BY <1>26 DEF Dropped, FreeStream, Goto, NoWork
  <2> QED
    BY <1>26, <2>1, QuietSteps
    DEF Dropped, FreeStream, Inv, Typed, StepTyped, DataTyped
<1> QED
  BY <1>1, <1>2, <1>3, <1>4, <1>5, <1>6, <1>7, <1>8, <1>9, <1>10, <1>11, <1>12,
     <1>13, <1>14, <1>15, <1>16, <1>17, <1>18, <1>19, <1>20, <1>21, <1>22,
     <1>23, <1>24, <1>25, <1>26

\* Whether a thread is in a term of queue q.
EnRoute(step, queue, q) == step \in {"insert", "unlinked"} /\ queue = q
InHand(step, from, q) == step \in {"give", "dec"} /\ from = q

\* How a step of thread t changes the terms.
LEMMA IncomingChange ==
    ASSUME Inv, NEW t \in Streams, NEW to, pc' = [pc EXCEPT ![t] = to], NEW q,
           \A u \in Streams \ {t} : pend'[u] = pend[u]
    PROVE  /\ ~EnRoute(pc[t], pend[t], q) => t \notin Incoming(q)
           /\ EnRoute(pc[t], pend[t], q) => t \in Incoming(q)
           /\ EnRoute(to, pend'[t], q) => Incoming(q)' = Incoming(q) \cup {t}
           /\ ~EnRoute(to, pend'[t], q) => Incoming(q)' = Incoming(q) \ {t}
           /\ (EnRoute(to, pend'[t], q) <=> EnRoute(pc[t], pend[t], q)) => IncomingKept(q)
<1>1. pc'[t] = to /\ \A u \in Streams \ {t} : pc'[u] = pc[u]
  BY DEF Inv, Typed, StepTyped, DataTyped
<1>2. \A u \in Streams \ {t} : u \in Incoming(q)' <=> u \in Incoming(q)
  BY <1>1 DEF Incoming
<1>3. /\ t \in Incoming(q)' <=> EnRoute(to, pend'[t], q)
      /\ t \in Incoming(q) <=> EnRoute(pc[t], pend[t], q)
  BY <1>1 DEF Incoming, EnRoute
<1>4. Incoming(q)' \in SUBSET Streams /\ Incoming(q) \in SUBSET Streams
  BY DEF Incoming
<1> QED
  BY <1>2, <1>3, <1>4 DEF IncomingKept

\* The same for the entries a thread has in its hands.
LEMMA OutgoingChange ==
    ASSUME Inv, NEW t \in Streams, NEW to, pc' = [pc EXCEPT ![t] = to], NEW q,
           \A u \in Streams \ {t} : work'[u] = work[u]
    PROVE  /\ ~InHand(pc[t], work[t].from, q) => t \notin Outgoing(q)
           /\ InHand(pc[t], work[t].from, q) => t \in Outgoing(q)
           /\ InHand(to, work'[t].from, q) => Outgoing(q)' = Outgoing(q) \cup {t}
           /\ ~InHand(to, work'[t].from, q) => Outgoing(q)' = Outgoing(q) \ {t}
           /\ (InHand(to, work'[t].from, q) <=> InHand(pc[t], work[t].from, q)) =>
                 OutgoingKept(q)
<1>1. pc'[t] = to /\ \A u \in Streams \ {t} : pc'[u] = pc[u]
  BY DEF Inv, Typed, StepTyped, DataTyped
<1>2. \A u \in Streams \ {t} : u \in Outgoing(q)' <=> u \in Outgoing(q)
  BY <1>1 DEF Outgoing
<1>3. /\ t \in Outgoing(q)' <=> InHand(to, work'[t].from, q)
      /\ t \in Outgoing(q) <=> InHand(pc[t], work[t].from, q)
  BY <1>1 DEF Outgoing, InHand
<1>4. Outgoing(q)' \in SUBSET Streams /\ Outgoing(q) \in SUBSET Streams
  BY DEF Outgoing
<1> QED
  BY <1>2, <1>3, <1>4 DEF OutgoingKept

\* A step of a stream is none of the thread that changes servers.
LEMMA MovedUnchanged ==
    ASSUME Inv, NEW t \in Streams, NEW to, pc' = [pc EXCEPT ![t] = to],
           UNCHANGED admin, NEW q
    PROVE  MovedKept(q)
BY ConstantsOK DEF Inv, Typed, StepTyped, DataTyped, MovedKept, Moved

\* pendconn_add() counts the entry before it is linked.
LEMMA PendconnAddCounts ==
    ASSUME Inv, LengthLedger, NEW t \in Streams, PendconnAdd(t)
    PROVE  LengthLedger'
<1>1. pc[t] = "add" /\ pc' = [pc EXCEPT ![t] = "insert"] /\ UNCHANGED <<tree, work, admin>>
  BY DEF PendconnAdd, Goto
<1>2. PICK q0 \in Queues : /\ pend' = [pend EXCEPT ![t] = q0]
                           /\ length' = [length EXCEPT ![q0] = @ + 1]
  BY DEF PendconnAdd, Inv, OwnStream, Queues
<1>3. pend'[t] = q0 /\ \A u \in Streams \ {t} : pend'[u] = pend[u]
  BY <1>2 DEF Inv, Typed, StepTyped, DataTyped
<1>4. ASSUME NEW q \in Queues
      PROVE  /\ MovedKept(q)
             /\ OutgoingKept(q)
             /\ t \notin Incoming(q) /\ (q = q0 => Incoming(q)' = Incoming(q) \cup {t})
                /\ (q # q0 => IncomingKept(q))
  <2>1. MovedKept(q)
    BY <1>1, <1>2, MovedUnchanged
  <2>2. OutgoingKept(q)
    BY <1>1, OutgoingChange DEF InHand
  <2>3. t \notin Incoming(q) /\ (q = q0 => Incoming(q)' = Incoming(q) \cup {t})
                /\ (q # q0 => IncomingKept(q))
    BY <1>1, <1>3, IncomingChange DEF EnRoute
  <2> QED
    BY <2>1, <2>2, <2>3
<1>5. \A q \in Queues \ {q0} : length'[q] = length[q] /\ IncomingKept(q)
  BY <1>2, <1>4 DEF Inv, Typed, StepTyped, DataTyped, IncomingKept
<1>6. /\ Cardinality(Incoming(q0)') = Cardinality(Incoming(q0)) + 1
      /\ length'[q0] = length[q0] + 1
  BY <1>2, <1>4, CountSteps, TermsTyped DEF Inv, Typed, StepTyped, DataTyped
<1>7. length'[q0] = Cardinality(tree'[q0]) + Cardinality(Incoming(q0)')
                       + Cardinality(Outgoing(q0)') + Moved(q0)'
  BY <1>1, <1>4, <1>6, LengthTerms, TermsTyped DEF Inv, OutgoingKept, MovedKept
<1> QED
  BY <1>1, <1>4, <1>5, <1>7, LengthOneQueue

\* Linking it changes its term, not the sum.
LEMMA PendconnInsertCounts ==
    ASSUME Inv, LengthLedger, NEW t \in Streams, PendconnInsert(t)
    PROVE  LengthLedger'
<1>1. PICK to \in {"tryagain", "maydequeue"} : pc' = [pc EXCEPT ![t] = to]
  BY DEF PendconnInsert, Goto
<1>2. /\ pc[t] = "insert" /\ UNCHANGED <<length, pend, admin>>
      /\ tree' = [tree EXCEPT ![pend[t]] = @ \cup {t}]
      /\ \A u \in Streams \ {t} : work'[u] = work[u]
  BY DEF PendconnInsert, Inv, Typed, StepTyped, DataTyped
<1>3. PICK q0 \in Queues : q0 = pend[t]
  BY <1>2 DEF Inv, OwnStream, QueueOfFlags, Queues
<1>4. ASSUME NEW q \in Queues
      PROVE  /\ MovedKept(q)
             /\ OutgoingKept(q)
             /\ (q = q0 => t \in Incoming(q) /\ Incoming(q)' = Incoming(q) \ {t})
                /\ (q # q0 => IncomingKept(q))
  <2>1. MovedKept(q)
    BY <1>1, <1>2, <1>3, MovedUnchanged
  <2>2. OutgoingKept(q)
    BY <1>1, <1>2, <1>3, OutgoingChange
    DEF InHand, Inv, Typed, StepTyped, DataTyped
  <2>3. (q = q0 => t \in Incoming(q) /\ Incoming(q)' = Incoming(q) \ {t})
                /\ (q # q0 => IncomingKept(q))
    BY <1>1, <1>2, <1>3, IncomingChange
    DEF EnRoute, Inv, Typed, StepTyped, DataTyped
  <2> QED
    BY <2>1, <2>2, <2>3
<1>5. \A q \in Queues \ {q0} : tree'[q] = tree[q] /\ IncomingKept(q)
  BY <1>2, <1>3, <1>4 DEF Inv, Typed, StepTyped, DataTyped, IncomingKept
<1>6. t \notin tree[q0] /\ tree'[q0] = tree[q0] \cup {t}
  BY <1>2, <1>3 DEF Inv, Typed, StepTyped, DataTyped, Linked, Queued, WorkSteps
<1>7. /\ Cardinality(Incoming(q0)') = Cardinality(Incoming(q0)) - 1
      /\ Cardinality(tree'[q0]) = Cardinality(tree[q0]) + 1
  BY <1>4, <1>6, CountSteps, TermsTyped DEF Inv
<1>8. length'[q0] = Cardinality(tree'[q0]) + Cardinality(Incoming(q0)')
                       + Cardinality(Outgoing(q0)') + Moved(q0)'
  BY <1>2, <1>4, <1>7, LengthTerms, TermsTyped DEF Inv, OutgoingKept, MovedKept
<1> QED
  BY <1>2, <1>4, <1>5, <1>8, LengthOneQueue

\* pendconn_must_try_again(): unlinked and counted under the lock.
LEMMA UnqueueCounts ==
    ASSUME Inv, LengthLedger, NEW t \in Streams, Unqueue(t)
    PROVE  LengthLedger'
<1>1. PICK to \in {"assign", "wait"} : pc' = [pc EXCEPT ![t] = to]
  BY DEF Unqueue, Goto
<1>2. /\ pc[t] = "unqueue" /\ UNCHANGED <<work, admin>>
      /\ \A u \in Streams \ {t} : pend'[u] = pend[u]
  BY DEF Unqueue, FreeEntry, Inv, Typed, StepTyped, DataTyped
<1>3. ASSUME NEW q \in Queues
      PROVE  /\ MovedKept(q)
             /\ OutgoingKept(q)
             /\ IncomingKept(q)
  <2>1. MovedKept(q)
    BY <1>1, <1>2, MovedUnchanged
  <2>2. OutgoingKept(q)
    BY <1>1, <1>2, OutgoingChange DEF InHand, Inv, Typed, StepTyped, DataTyped
  <2>3. IncomingKept(q)
    BY <1>1, <1>2, IncomingChange DEF EnRoute, Inv, Typed, StepTyped, DataTyped
  <2> QED
    BY <2>1, <2>2, <2>3
<1>4. CASE t \notin tree[Px]
  <2>1. LengthQuiet
    BY <1>3, <1>4 DEF LengthQuiet, Unqueue
  <2> QED
    BY <2>1, LengthQuietKeeps
<1>5. CASE t \in tree[Px]
  <2>1. /\ \A q \in Queues \ {Px} : tree'[q] = tree[q] /\ length'[q] = length[q]
        /\ tree'[Px] = tree[Px] \ {t} /\ length'[Px] = length[Px] - 1
        /\ Px \in Queues
    BY <1>5 DEF Unqueue, Inv, Typed, StepTyped, DataTyped, Queues
  <2>2. Cardinality(tree'[Px]) = Cardinality(tree[Px]) - 1
    BY <1>5, <2>1, CountSteps, TermsTyped DEF Inv
  <2>3. length'[Px] = Cardinality(tree'[Px]) + Cardinality(Incoming(Px)')
                         + Cardinality(Outgoing(Px)') + Moved(Px)'
    BY <1>3, <2>1, <2>2, LengthTerms, TermsTyped
    DEF Inv, IncomingKept, OutgoingKept, MovedKept
  <2> QED
    BY <1>3, <2>1, <2>3, LengthOneQueue
<1> QED
  BY <1>4, <1>5

\* pendconn_unlink() by a stream that gives up: nothing is counted if somebody
\* else has unlinked the entry.
LEMMA PendconnUnlinkCounts ==
    ASSUME Inv, LengthLedger, NEW t \in Streams, PendconnUnlink(t)
    PROVE  LengthLedger'
<1>1. /\ pc[t] = "unlink" /\ UNCHANGED <<length, pend, work, admin>>
      /\ tree' = [tree EXCEPT ![pend[t]] = @ \ {t}]
      /\ pc' = [pc EXCEPT ![t] = IF t \in tree[pend[t]] THEN "unlinked" ELSE "close"]
  BY DEF PendconnUnlink, Goto
<1>2. PICK q0 \in Queues : q0 = pend[t]
  BY <1>1 DEF Inv, OwnStream, QueueOfFlags, Queued, Queues
<1>3. \A q \in Queues \ {q0} : tree'[q] = tree[q]
  BY <1>1, <1>2 DEF Inv, Typed, StepTyped, DataTyped
<1>4. tree'[q0] = tree[q0] \ {t}
  BY <1>1, <1>2 DEF Inv, Typed, StepTyped, DataTyped
<1>5. CASE t \in tree[q0]
  <2>1. pc' = [pc EXCEPT ![t] = "unlinked"]
    BY <1>1, <1>2, <1>5
  <2>2. ASSUME NEW q \in Queues
        PROVE  /\ MovedKept(q)
               /\ OutgoingKept(q)
               /\ t \notin Incoming(q) /\ (q = q0 => Incoming(q)' = Incoming(q) \cup {t})
                  /\ (q # q0 => IncomingKept(q))
    <3>1. MovedKept(q)
      BY <1>1, <2>1, MovedUnchanged
    <3>2. OutgoingKept(q)
      BY <1>1, <2>1, OutgoingChange DEF InHand
    <3>3. t \notin Incoming(q) /\ (q = q0 => Incoming(q)' = Incoming(q) \cup {t})
                  /\ (q # q0 => IncomingKept(q))
      BY <1>1, <1>2, <2>1, IncomingChange DEF EnRoute
    <3> QED
      BY <3>1, <3>2, <3>3
<2>3. \A q \in Queues \ {q0} : IncomingKept(q)
    BY <2>2 DEF IncomingKept
  <2>4. /\ Cardinality(Incoming(q0)') = Cardinality(Incoming(q0)) + 1
        /\ Cardinality(tree'[q0]) = Cardinality(tree[q0]) - 1
    BY <1>4, <1>5, <2>2, CountSteps, TermsTyped DEF Inv
  <2>5. length'[q0] = Cardinality(tree'[q0]) + Cardinality(Incoming(q0)')
                         + Cardinality(Outgoing(q0)') + Moved(q0)'
    BY <1>1, <2>2, <2>4, LengthTerms, TermsTyped
    DEF Inv, OutgoingKept, MovedKept
  <2> QED
    BY <1>1, <1>3, <2>2, <2>3, <2>5, LengthOneQueue
<1>6. CASE t \notin tree[q0]
  <2>1. pc' = [pc EXCEPT ![t] = "close"] /\ tree'[q0] = tree[q0]
    BY <1>1, <1>2, <1>4, <1>6
  <2>2. LengthQuiet
    BY <1>1, <1>3, <2>1, QuietSteps
  <2> QED
    BY <2>2, LengthQuietKeeps
<1> QED
  BY <1>5, <1>6

\* The length follows what the stream has unlinked itself.
LEMMA UnlinkedCounts ==
    ASSUME Inv, LengthLedger, NEW t \in Streams, Unlinked(t)
    PROVE  LengthLedger'
<1>1. /\ pc[t] = "unlinked" /\ pc' = [pc EXCEPT ![t] = "close"]
      /\ UNCHANGED <<tree, pend, work, admin>>
      /\ length' = [length EXCEPT ![pend[t]] = @ - 1]
  BY DEF Unlinked, Goto
<1>2. PICK q0 \in Queues : q0 = pend[t]
  BY <1>1 DEF Inv, OwnStream
<1>3. ASSUME NEW q \in Queues
      PROVE  /\ MovedKept(q)
             /\ OutgoingKept(q)
             /\ (q = q0 => t \in Incoming(q) /\ Incoming(q)' = Incoming(q) \ {t})
                /\ (q # q0 => IncomingKept(q))
  <2>1. MovedKept(q)
    BY <1>1, <1>2, MovedUnchanged
  <2>2. OutgoingKept(q)
    BY <1>1, OutgoingChange DEF InHand
  <2>3. (q = q0 => t \in Incoming(q) /\ Incoming(q)' = Incoming(q) \ {t})
                /\ (q # q0 => IncomingKept(q))
    BY <1>1, <1>2, IncomingChange DEF EnRoute, Inv, Typed, StepTyped, DataTyped
  <2> QED
    BY <2>1, <2>2, <2>3
<1>4. \A q \in Queues \ {q0} : length'[q] = length[q] /\ IncomingKept(q)
  BY <1>1, <1>2, <1>3 DEF Inv, Typed, StepTyped, DataTyped, IncomingKept
<1>5. /\ Cardinality(Incoming(q0)') = Cardinality(Incoming(q0)) - 1
      /\ length'[q0] = length[q0] - 1
  BY <1>1, <1>2, <1>3, CountSteps, TermsTyped
  DEF Inv, Typed, StepTyped, DataTyped
<1>6. length'[q0] = Cardinality(tree'[q0]) + Cardinality(Incoming(q0)')
                       + Cardinality(Outgoing(q0)') + Moved(q0)'
  BY <1>1, <1>3, <1>5, LengthTerms, TermsTyped DEF Inv, OutgoingKept, MovedKept
<1> QED
  BY <1>1, <1>3, <1>4, <1>6, LengthOneQueue

\* An entry p of queue q0 leaves the tree now and the length later.
LEMMA DequeueCounts ==
    ASSUME Inv, LengthLedger, NEW t \in Streams, pc[t] = "next", ProcessFrame,
           NEW q0 \in Queues, NEW p \in tree[q0], NEW to \in {"give", "dec"},
           pc' = [pc EXCEPT ![t] = to], tree' = [tree EXCEPT ![q0] = @ \ {p}],
           \A u \in Streams \ {t} : work'[u] = work[u], work'[t].from = q0
    PROVE  LengthLedger'
<1>1. UNCHANGED <<length, pend, admin>>
  BY DEF ProcessFrame
<1>2. ASSUME NEW q \in Queues
      PROVE  /\ MovedKept(q)
             /\ t \notin Outgoing(q) /\ (q = q0 => Outgoing(q)' = Outgoing(q) \cup {t})
                /\ (q # q0 => OutgoingKept(q))
             /\ IncomingKept(q)
  <2>1. MovedKept(q)
    BY <1>1, MovedUnchanged
  <2>2. t \notin Outgoing(q) /\ (q = q0 => Outgoing(q)' = Outgoing(q) \cup {t})
                /\ (q # q0 => OutgoingKept(q))
    BY <1>1, OutgoingChange DEF InHand, Inv, Typed, StepTyped, DataTyped
  <2>3. IncomingKept(q)
    BY <1>1, IncomingChange DEF EnRoute, Inv, Typed, StepTyped, DataTyped
  <2> QED
    BY <2>1, <2>2, <2>3
<1>3. /\ \A q \in Queues \ {q0} : tree'[q] = tree[q] /\ OutgoingKept(q)
      /\ tree'[q0] = tree[q0] \ {p} /\ p \in Streams
  BY <1>2 DEF Inv, Typed, StepTyped, DataTyped, OutgoingKept
<1>4. /\ Cardinality(Outgoing(q0)') = Cardinality(Outgoing(q0)) + 1
      /\ Cardinality(tree'[q0]) = Cardinality(tree[q0]) - 1
  BY <1>2, <1>3, CountSteps, TermsTyped DEF Inv
<1>5. length'[q0] = Cardinality(tree'[q0]) + Cardinality(Incoming(q0)')
                       + Cardinality(Outgoing(q0)') + Moved(q0)'
  BY <1>1, <1>2, <1>4, LengthTerms, TermsTyped DEF Inv, IncomingKept, MovedKept
<1> QED
  BY <1>1, <1>2, <1>3, <1>5, LengthOneQueue

\* pendconn_process_next_strm() counts later.
LEMMA ProcessNextCounts ==
    ASSUME Inv, LengthLedger, NEW t \in Streams, ProcessNext(t)
    PROVE  LengthLedger'
<1>1. pc[t] = "next" /\ ProcessFrame
  BY DEF ProcessNext, ProcessFrame
<1>2. ASSUME NEW p \in tree[target[t]], TakeOwn(t, p) PROVE LengthLedger'
  <2>1. target[t] \in Queues
    BY <1>1 DEF Inv, OwnStream, WorkSteps, Queues
  <2>2. /\ \A u \in Streams \ {t} : work'[u] = work[u]
        /\ work'[t].from = target[t]
    BY <1>2 DEF TakeOwn, Inv, Typed, StepTyped, DataTyped, WorkRecords
  <2> QED
    BY <1>1, <1>2, <2>1, <2>2, DequeueCounts DEF TakeOwn, Goto
<1>3. ASSUME NEW p \in tree[Px], TakePx(t, p) PROVE LengthLedger'
  <2>1. Px \in Queues
    BY DEF Queues
  <2>2. /\ \A u \in Streams \ {t} : work'[u] = work[u]
        /\ work'[t].from = Px
    BY <1>3 DEF TakePx, Inv, Typed, StepTyped, DataTyped, WorkRecords
  <2> QED
    BY <1>1, <1>3, <2>1, <2>2, DequeueCounts DEF TakePx, Goto
<1>4. ASSUME work' = [work EXCEPT ![t].stop = TRUE], Goto(t, "leave"), UNCHANGED tree
      PROVE  LengthLedger'
  <2>1. LengthQuiet
    BY <1>1, <1>4, QuietSteps
    DEF Goto, ProcessFrame, Inv, Typed, StepTyped, DataTyped
  <2> QED
    BY <2>1, LengthQuietKeeps
<1> QED
  BY <1>2, <1>3, <1>4 DEF ProcessNext

\* The length follows what was dequeued, in the queue it was in.
LEMMA DecLengthCounts ==
    ASSUME Inv, LengthLedger, NEW t \in Streams, DecLength(t)
    PROVE  LengthLedger'
<1>1. /\ pc[t] = "dec" /\ pc' = [pc EXCEPT ![t] = "inc"]
      /\ UNCHANGED <<tree, pend, work, admin>>
      /\ length' = [length EXCEPT ![work[t].from] = @ - 1]
  BY DEF DecLength, Goto
<1> DEFINE q0 == work[t].from
<1>2. ASSUME NEW q \in Queues
      PROVE  /\ MovedKept(q)
             /\ (q = q0 => t \in Outgoing(q) /\ Outgoing(q)' = Outgoing(q) \ {t})
                /\ (q # q0 => OutgoingKept(q))
             /\ IncomingKept(q)
  <2>1. MovedKept(q)
    BY <1>1, MovedUnchanged
  <2>2. (q = q0 => t \in Outgoing(q) /\ Outgoing(q)' = Outgoing(q) \ {t})
                /\ (q # q0 => OutgoingKept(q))
    BY <1>1, OutgoingChange DEF InHand, Inv, Typed, StepTyped, DataTyped
  <2>3. IncomingKept(q)
    BY <1>1, IncomingChange DEF EnRoute, Inv, Typed, StepTyped, DataTyped
  <2> QED
    BY <2>1, <2>2, <2>3
<1>3. \A q \in Queues \ {q0} : length'[q] = length[q] /\ OutgoingKept(q)
  BY <1>1, <1>2 DEF Inv, Typed, StepTyped, DataTyped, OutgoingKept
<1>4. ASSUME NEW q \in Queues, q = q0
      PROVE  length'[q] = Cardinality(tree'[q]) + Cardinality(Incoming(q)')
                            + Cardinality(Outgoing(q)') + Moved(q)'
  <2>1. /\ Cardinality(Outgoing(q)') = Cardinality(Outgoing(q)) - 1
        /\ length'[q] = length[q] - 1
    BY <1>1, <1>2, <1>4, CountSteps, TermsTyped
    DEF Inv, Typed, StepTyped, DataTyped
  <2> QED
    BY <1>1, <1>2, <2>1, LengthTerms, TermsTyped
    DEF Inv, IncomingKept, MovedKept
<1>5. ASSUME NEW q \in Queues
      PROVE  length'[q] = Cardinality(tree'[q]) + Cardinality(Incoming(q)')
                            + Cardinality(Outgoing(q)') + Moved(q)'
  <2>1. CASE q = q0
    BY <1>4, <2>1
  <2>2. CASE q # q0
    BY <1>1, <1>2, <1>3, <2>2, LengthTerms
    DEF IncomingKept, OutgoingKept, MovedKept
  <2> QED
    BY <2>1, <2>2
<1> QED
  BY <1>5, LengthTermsNext

\* The steps of the thread that changes servers leave the other terms alone.
LEMMA AdminTerms ==
    ASSUME Inv, NEW to, pc' = [pc EXCEPT ![Admin] = to], UNCHANGED <<pend, work>>,
           NEW q
    PROVE  IncomingKept(q) /\ OutgoingKept(q)
<1>1. \A u \in Streams : pc'[u] = pc[u]
  BY ConstantsOK DEF Inv, Typed, StepTyped, DataTyped
<1> QED
  BY <1>1, IncomingSame, OutgoingSame

\* The entries W leave the tree of q0 now and its length in the next step.
LEMMA TakeOutCounts ==
    ASSUME Inv, LengthLedger, NEW q0 \in Queues, NEW W \in SUBSET tree[q0],
           TakeOut(q0, W), UNCHANGED length,
           \A q \in Queues : /\ IncomingKept(q) /\ OutgoingKept(q) /\ Moved(q) = 0
                             /\ Moved(q)' = IF q = q0 THEN Cardinality(W) ELSE 0
    PROVE  LengthLedger'
<1>1. /\ \A q \in Queues \ {q0} : tree'[q] = tree[q] /\ MovedKept(q)
      /\ tree'[q0] = tree[q0] \ W
  BY DEF TakeOut, Inv, Typed, StepTyped, DataTyped, MovedKept
<1>2. /\ Cardinality(tree'[q0]) = Cardinality(tree[q0]) - Cardinality(W)
      /\ Cardinality(W) \in Nat
  <2>1. IsFiniteSet(tree[q0]) /\ W \in SUBSET Streams
    BY EntriesFinite DEF Inv, Typed, StepTyped, DataTyped
  <2>2. tree[q0] \cap W = W
    OBVIOUS
  <2> QED
    BY <1>1, <2>1, <2>2, FS_Difference, EntriesFinite
<1>3. length'[q0] = Cardinality(tree'[q0]) + Cardinality(Incoming(q0)')
                       + Cardinality(Outgoing(q0)') + Moved(q0)'
  BY <1>2, LengthTerms, TermsTyped DEF Inv, IncomingKept, OutgoingKept
<1> QED
  BY <1>1, <1>3, LengthOneQueue

\* The length of q0 follows.
LEMMA CountOutCounts ==
    ASSUME Inv, LengthLedger, NEW q0 \in Queues, CountOut(q0), UNCHANGED tree,
           \A q \in Queues : /\ IncomingKept(q) /\ OutgoingKept(q) /\ Moved(q)' = 0
                             /\ Moved(q) = IF q = q0 THEN admin.xferred ELSE 0
    PROVE  LengthLedger'
<1>1. /\ \A q \in Queues \ {q0} : length'[q] = length[q] /\ MovedKept(q)
      /\ length'[q0] = length[q0] - admin.xferred
  BY DEF CountOut, Inv, Typed, StepTyped, DataTyped, MovedKept
<1>2. length'[q0] = Cardinality(tree'[q0]) + Cardinality(Incoming(q0)')
                       + Cardinality(Outgoing(q0)') + Moved(q0)'
  BY <1>1, LengthTerms, TermsTyped DEF Inv, IncomingKept, OutgoingKept
<1> QED
  BY <1>1, <1>2, LengthOneQueue

\* A server enters or leaves maintenance.
LEMMA SetServerCounts ==
    ASSUME Inv, LengthLedger, NEW s \in Servers, SetMaint(s) \/ SetReady(s)
    PROVE  LengthLedger'
<1>1. PICK to \in {"redistribute", "grab"} : pc' = [pc EXCEPT ![Admin] = to]
  BY DEF SetMaint, SetReady, Goto
<1>2. pc[Admin] = "idle" /\ UNCHANGED <<length, tree, pend, work>>
  BY DEF SetMaint, SetReady
<1>3. \A q \in Queues : MovedKept(q)
  BY <1>1, <1>2 DEF Inv, Typed, StepTyped, DataTyped, MovedKept, Moved
<1>4. LengthQuiet
  BY <1>1, <1>2, <1>3, AdminTerms DEF LengthQuiet
<1> QED
  BY <1>4, LengthQuietKeeps

\* pendconn_redistribute() and pendconn_grab_from_px(): first the entries,
LEMMA RedistributeCounts ==
    ASSUME Inv, LengthLedger, Redistribute
    PROVE  LengthLedger'
<1>1. /\ pc[Admin] = "redistribute" /\ pc' = [pc EXCEPT ![Admin] = "counted"]
      /\ TakeOut(admin.srv, tree[admin.srv]) /\ UNCHANGED <<length, pend, work>>
  BY DEF Redistribute, Goto
<1>2. admin.srv \in Servers /\ admin.srv \in Queues /\ admin.srv # Px
  BY <1>1, ConstantsOK DEF Inv, AdminOK, Queues
<1>3. pc'[Admin] = "counted" /\ admin'.srv = admin.srv
        /\ admin'.xferred = Cardinality(tree[admin.srv])
  BY <1>1 DEF TakeOut, Inv, Typed, StepTyped, DataTyped
<1>4. \A q \in Queues : /\ Moved(q) = 0
                        /\ Moved(q)' = IF q = admin.srv THEN Cardinality(tree[admin.srv])
                                                        ELSE 0
  BY <1>1, <1>3 DEF Moved
<1>5. \A q \in Queues : IncomingKept(q) /\ OutgoingKept(q)
  BY <1>1, AdminTerms
<1> QED
  BY <1>1, <1>2, <1>4, <1>5, TakeOutCounts

\* The same for the queue of the proxy.
LEMMA RedistributePxCounts ==
    ASSUME Inv, LengthLedger, RedistributePx \/ Grab
    PROVE  LengthLedger'
<1>1. PICK W \in SUBSET tree[Px] : TakeOut(Px, W)
  BY DEF RedistributePx, Grab
<1>2. /\ pc[Admin] \in {"redistpx", "grab"} /\ pc' = [pc EXCEPT ![Admin] = "countedpx"]
      /\ UNCHANGED <<length, pend, work>>
  BY DEF RedistributePx, Grab, Goto
<1>3. pc'[Admin] = "countedpx" /\ admin'.xferred = Cardinality(W) /\ Px \in Queues
  BY <1>1, <1>2 DEF TakeOut, Inv, Typed, StepTyped, DataTyped, Queues
<1>4. \A q \in Queues : /\ Moved(q) = 0
                        /\ Moved(q)' = IF q = Px THEN Cardinality(W) ELSE 0
  BY <1>2, <1>3 DEF Moved
<1>5. \A q \in Queues : IncomingKept(q) /\ OutgoingKept(q)
  BY <1>2, AdminTerms
<1> QED
  BY <1>1, <1>2, <1>3, <1>4, <1>5, TakeOutCounts

\* then the length.
LEMMA CountedCounts ==
    ASSUME Inv, LengthLedger, Counted \/ CountedPx
    PROVE  LengthLedger'
<1>1. PICK to \in {"idle", "redistpx"} : pc' = [pc EXCEPT ![Admin] = to]
  BY DEF Counted, CountedPx, Goto
<1>2. UNCHANGED <<tree, pend, work>> /\ pc'[Admin] = to
  BY <1>1 DEF Counted, CountedPx, Inv, Typed, StepTyped, DataTyped
<1>3. \A q \in Queues : IncomingKept(q) /\ OutgoingKept(q) /\ Moved(q)' = 0
  BY <1>1, <1>2, AdminTerms DEF Moved
<1>4. CASE Counted
  <2>1. pc[Admin] = "counted" /\ CountOut(admin.srv) /\ admin.srv \in Queues
    BY <1>4 DEF Counted, Inv, AdminOK, Queues
  <2>2. \A q \in Queues : Moved(q) = IF q = admin.srv THEN admin.xferred ELSE 0
    BY <2>1 DEF Moved
  <2> QED
    BY <1>2, <1>3, <2>1, <2>2, CountOutCounts
<1>5. CASE CountedPx
  <2>1. pc[Admin] = "countedpx" /\ CountOut(Px) /\ Px \in Queues
    BY <1>5 DEF CountedPx, Queues
  <2>2. \A q \in Queues : Moved(q) = IF q = Px THEN admin.xferred ELSE 0
    BY <2>1 DEF Moved
  <2> QED
    BY <1>2, <1>3, <2>1, <2>2, CountOutCounts
<1> QED
  BY <1>4, <1>5

\* All queues are empty.
LEMMA LengthInit == Init => LengthLedger
<1> SUFFICES ASSUME Init, NEW q \in Queues
             PROVE  length[q] = Cardinality(tree[q]) + Cardinality(Incoming(q))
                                  + Cardinality(Outgoing(q)) + Moved(q)
  BY LengthTerms
<1>1. Incoming(q) = {} /\ Outgoing(q) = {} /\ tree[q] = {} /\ Moved(q) = 0
        /\ length[q] = 0
  BY DEF Init, Incoming, Outgoing, Moved
<1> QED
  BY <1>1, FS_EmptySet

\* Every step of every thread keeps the lengths.
LEMMA LengthStep == Inv /\ LengthLedger /\ [Next]_vars => LengthLedger'
<1> SUFFICES ASSUME Inv, LengthLedger, [Next]_vars PROVE LengthLedger'
  OBVIOUS
<1>1. CASE UNCHANGED vars
  <2>1. LengthQuiet
    BY <1>1
    DEF vars, LengthQuiet, IncomingKept, OutgoingKept, MovedKept, Incoming,
        Outgoing, Moved
  <2> QED
    BY <2>1, LengthQuietKeeps
<1>2. ASSUME NEW t \in Streams, NewStream(t) \/ GiveUp(t) \/ Step(t)
      PROVE  LengthLedger'
  BY <1>2, QuietLengths, LengthQuietKeeps, PendconnAddCounts,
     PendconnInsertCounts,
     UnqueueCounts, PendconnUnlinkCounts, UnlinkedCounts, ProcessNextCounts,
     DecLengthCounts
  DEF Step
<1>3. ASSUME NEW s \in Servers, SetMaint(s) \/ SetReady(s) PROVE LengthLedger'
  BY <1>3, SetServerCounts
<1>4. ASSUME AdminStep PROVE LengthLedger'
  BY <1>4, RedistributeCounts, RedistributePxCounts, CountedCounts DEF AdminStep
<1> QED
  BY <1>1, <1>2, <1>3, <1>4 DEF Next

\* The unlocked counter of a queue is the number of its entries but for those
\* whose thread is between the tree and the counter; no order of adds,
\* dequeues, timeouts and redistributions makes it drift.
THEOREM LengthsExact == Spec => []LengthLedger
BY InvInit, InvStep, LengthInit, LengthStep, PTL DEF Spec

\* A queue's length is never negative, and every variable keeps its type.
THEOREM TypeCorrect == Spec => []TypeOK
<1>1. Inv /\ LengthLedger => TypeOK
  <2> SUFFICES ASSUME Inv, LengthLedger PROVE TypeOK
    OBVIOUS
  <2>1. \A q \in Queues : length[q] \in Nat
    BY LengthTerms, TermsTyped DEF Inv
  <2> QED
    BY <2>1 DEF Inv, Typed, StepTyped, DataTyped, TypeOK
<1> QED
  BY <1>1, InvInit, InvStep, LengthInit, LengthStep, PTL DEF Spec

\* The terms of SlotLedger: the streams with a slot of server s, those that
\* have counted it and not noted it yet, those that have given it back and
\* not forgotten it yet, and the threads that hand one out and count it later.
Holders(s) == {t \in Streams : srvConn[t] = s}
Takers(s) == {t \in Streams : pc[t] = "taken" /\ target[t] = s}
Returners(s) == {t \in Streams : pc[t] \in {"released", "dropped"} /\ srvConn[t] = s}
Handing(s) == {t \in Streams : pc[t] \in {"dec", "inc"} /\ target[t] = s}

\* The ledger in these terms,
LEMMA SlotTerms ==
    SlotLedger <=>
      \A s \in Servers : served[s] = Cardinality(Holders(s)) + Cardinality(Takers(s))
                           - Cardinality(Returners(s)) - Cardinality(Handing(s))
BY DEF SlotLedger, CountOf, Holders, Takers, Returners, Handing

\* and after a step.
LEMMA SlotTermsNext ==
    SlotLedger' <=>
      \A s \in Servers :
          served'[s] = Cardinality(Holders(s)') + Cardinality(Takers(s)')
                         - Cardinality(Returners(s)') - Cardinality(Handing(s)')
BY DEF SlotLedger, CountOf, Holders, Takers, Returners, Handing

One(b) == IF b THEN 1 ELSE 0

\* Two sets that differ in one stream at most.
LEMMA CountChange ==
    ASSUME NEW S \in SUBSET Streams, NEW R \in SUBSET Streams, NEW t \in Streams,
           \A u \in Streams \ {t} : u \in R <=> u \in S
    PROVE  /\ Cardinality(S) \in Nat /\ Cardinality(R) \in Nat
           /\ Cardinality(R) = Cardinality(S) + One(t \in R) - One(t \in S)
<1>1. Cardinality(S) \in Nat /\ Cardinality(R) \in Nat
  BY EntriesFinite
<1>2. CASE t \in R /\ t \notin S
  <2>1. R = S \cup {t}
    BY <1>2
  <2> QED
    BY <1>1, <1>2, <2>1, CountSteps DEF One
<1>3. CASE t \notin R /\ t \in S
  <2>1. R = S \ {t}
    BY <1>3
  <2> QED
    BY <1>1, <1>3, <2>1, CountSteps DEF One
<1>4. CASE t \in R <=> t \in S
  <2>1. R = S
    BY <1>4
  <2> QED
    BY <1>1, <2>1 DEF One
<1> QED
  BY <1>2, <1>3, <1>4

\* What one stream contributes to the slots of server s.
Share(s, step, conn, targ) ==
    One(conn = s) + One(step = "taken" /\ targ = s)
      - One(step \in {"released", "dropped"} /\ conn = s)
      - One(step \in {"dec", "inc"} /\ targ = s)

\* A step of a stream that changes served by what its own share changes.
LEMMA OwnShare ==
    ASSUME Inv, SlotLedger, NEW t \in Streams, NEW to, pc' = [pc EXCEPT ![t] = to],
           \A u \in Streams \ {t} : srvConn'[u] = srvConn[u] /\ target'[u] = target[u],
           \A s \in Servers :
              served'[s] = served[s] + Share(s, to, srvConn'[t], target'[t])
                             - Share(s, pc[t], srvConn[t], target[t])
    PROVE  SlotLedger'
<1> SUFFICES ASSUME NEW s \in Servers
             PROVE  served'[s] = Cardinality(Holders(s)') + Cardinality(Takers(s)')
                         - Cardinality(Returners(s)') - Cardinality(Handing(s)')
  BY SlotTermsNext
<1>1. pc'[t] = to /\ \A u \in Streams \ {t} : pc'[u] = pc[u]
  BY DEF Inv, Typed, StepTyped, DataTyped
<1>2. /\ Cardinality(Holders(s)) \in Nat /\ Cardinality(Holders(s)') \in Nat
      /\ Cardinality(Holders(s)') = Cardinality(Holders(s))
                                      + One(srvConn'[t] = s) - One(srvConn[t] = s)
  <2>1. /\ Holders(s) \in SUBSET Streams /\ Holders(s)' \in SUBSET Streams
        /\ \A u \in Streams \ {t} : u \in Holders(s)' <=> u \in Holders(s)
        /\ t \in Holders(s)' <=> srvConn'[t] = s
        /\ t \in Holders(s) <=> srvConn[t] = s
    BY <1>1 DEF Holders
  <2> QED
    BY <2>1, CountChange DEF One
<1>3. /\ Cardinality(Takers(s)) \in Nat /\ Cardinality(Takers(s)') \in Nat
      /\ Cardinality(Takers(s)') = Cardinality(Takers(s))
            + One(to = "taken" /\ target'[t] = s) - One(pc[t] = "taken" /\ target[t] = s)
  <2>1. /\ Takers(s) \in SUBSET Streams /\ Takers(s)' \in SUBSET Streams
        /\ \A u \in Streams \ {t} : u \in Takers(s)' <=> u \in Takers(s)
        /\ t \in Takers(s)' <=> to = "taken" /\ target'[t] = s
        /\ t \in Takers(s) <=> pc[t] = "taken" /\ target[t] = s
    BY <1>1 DEF Takers
  <2> QED
    BY <2>1, CountChange DEF One
<1>4. /\ Cardinality(Returners(s)) \in Nat /\ Cardinality(Returners(s)') \in Nat
      /\ Cardinality(Returners(s)') = Cardinality(Returners(s))
            + One(to \in {"released", "dropped"} /\ srvConn'[t] = s)
            - One(pc[t] \in {"released", "dropped"} /\ srvConn[t] = s)
  <2>1. /\ Returners(s) \in SUBSET Streams /\ Returners(s)' \in SUBSET Streams
        /\ \A u \in Streams \ {t} : u \in Returners(s)' <=> u \in Returners(s)
        /\ t \in Returners(s)' <=> to \in {"released", "dropped"} /\ srvConn'[t] = s
        /\ t \in Returners(s) <=> pc[t] \in {"released", "dropped"} /\ srvConn[t] = s
    BY <1>1 DEF Returners
  <2> QED
    BY <2>1, CountChange DEF One
<1>5. /\ Cardinality(Handing(s)) \in Nat /\ Cardinality(Handing(s)') \in Nat
      /\ Cardinality(Handing(s)') = Cardinality(Handing(s))
            + One(to \in {"dec", "inc"} /\ target'[t] = s)
            - One(pc[t] \in {"dec", "inc"} /\ target[t] = s)
  <2>1. /\ Handing(s) \in SUBSET Streams /\ Handing(s)' \in SUBSET Streams
        /\ \A u \in Streams \ {t} : u \in Handing(s)' <=> u \in Handing(s)
        /\ t \in Handing(s)' <=> to \in {"dec", "inc"} /\ target'[t] = s
        /\ t \in Handing(s) <=> pc[t] \in {"dec", "inc"} /\ target[t] = s
    BY <1>1 DEF Handing
  <2> QED
    BY <2>1, CountChange DEF One
<1>6. served[s] = Cardinality(Holders(s)) + Cardinality(Takers(s))
                    - Cardinality(Returners(s)) - Cardinality(Handing(s))
  BY SlotTerms
<1>7. served'[s] = served[s] + Share(s, to, srvConn'[t], target'[t])
                     - Share(s, pc[t], srvConn[t], target[t])
  OBVIOUS
<1> QED
  BY <1>2, <1>3, <1>4, <1>5, <1>6, <1>7 DEF Share, One

\* A thread hands a slot of its target to a stream that waits: the stream has
\* it at once, the counter follows.
LEMMA HandOver ==
    ASSUME Inv, SlotLedger, NEW t \in Streams, NEW p \in Streams,
           pc[t] \in {"next", "give"}, pc' = [pc EXCEPT ![t] = "dec"],
           Queued(p), srvConn[p] = None, target[t] \in Servers,
           srvConn' = [srvConn EXCEPT ![p] = target[t]], UNCHANGED <<served, target>>
    PROVE  SlotLedger'
<1> SUFFICES ASSUME NEW s \in Servers
             PROVE  served'[s] = Cardinality(Holders(s)') + Cardinality(Takers(s)')
                         - Cardinality(Returners(s)') - Cardinality(Handing(s)')
  BY SlotTermsNext
<1>1. /\ pc'[t] = "dec" /\ \A u \in Streams \ {t} : pc'[u] = pc[u]
      /\ srvConn'[p] = target[t] /\ \A u \in Streams \ {p} : srvConn'[u] = srvConn[u]
      /\ None # s
  BY ConstantsOK DEF Inv, Typed, StepTyped, DataTyped, Queues
<1>2. Takers(s)' = Takers(s)
  BY <1>1 DEF Takers
<1>3. Returners(s)' = Returners(s)
  BY <1>1 DEF Returners, Queued, WorkSteps
<1>4. /\ Cardinality(Holders(s)) \in Nat /\ Cardinality(Holders(s)') \in Nat
      /\ Cardinality(Holders(s)') = Cardinality(Holders(s)) + One(target[t] = s)
  <2>1. /\ Holders(s) \in SUBSET Streams /\ Holders(s)' \in SUBSET Streams
        /\ \A u \in Streams \ {p} : u \in Holders(s)' <=> u \in Holders(s)
        /\ p \in Holders(s)' <=> target[t] = s
        /\ p \notin Holders(s)
    BY <1>1 DEF Holders
  <2> QED
    BY <2>1, CountChange DEF One
<1>5. /\ Cardinality(Handing(s)) \in Nat /\ Cardinality(Handing(s)') \in Nat
      /\ Cardinality(Handing(s)') = Cardinality(Handing(s)) + One(target[t] = s)
  <2>1. /\ Handing(s) \in SUBSET Streams /\ Handing(s)' \in SUBSET Streams
        /\ \A u \in Streams \ {t} : u \in Handing(s)' <=> u \in Handing(s)
        /\ t \in Handing(s)' <=> target[t] = s
        /\ t \notin Handing(s)
    BY <1>1 DEF Handing
  <2> QED
    BY <2>1, CountChange DEF One
<1>6. served[s] = Cardinality(Holders(s)) + Cardinality(Takers(s))
                    - Cardinality(Returners(s)) - Cardinality(Handing(s))
  BY SlotTerms
<1>7. Cardinality(Takers(s)) \in Nat /\ Cardinality(Returners(s)) \in Nat
  <2>1. Takers(s) \in SUBSET Streams /\ Returners(s) \in SUBSET Streams
    BY DEF Takers, Returners
  <2> QED
    BY <2>1, EntriesFinite
<1> QED
  BY <1>2, <1>3, <1>4, <1>5, <1>6, <1>7 DEF One

\* A thread moves between steps in which its share is its slot.
LEMMA SameShare ==
    ASSUME Inv, SlotLedger, NEW t \in Streams, NEW to, pc' = [pc EXCEPT ![t] = to],
           pc[t] \notin {"taken", "released", "dropped", "dec", "inc"},
           to \notin {"taken", "released", "dropped", "dec", "inc"},
           \A u \in Streams : srvConn'[u] = srvConn[u],
           \A u \in Streams \ {t} : target'[u] = target[u],
           \A s \in Servers : served'[s] = served[s]
    PROVE  SlotLedger'
<1>1. \A s \in Servers :
        /\ Share(s, to, srvConn'[t], target'[t]) \in Int
        /\ Share(s, to, srvConn'[t], target'[t]) = Share(s, pc[t], srvConn[t], target[t])
        /\ served[s] \in Int
  BY DEF Share, One, Inv, Typed, StepTyped, DataTyped
<1>2. \A s \in Servers :
        served'[s] = served[s] + Share(s, to, srvConn'[t], target'[t])
                       - Share(s, pc[t], srvConn[t], target[t])
  BY <1>1
<1> QED
  BY <1>2, OwnShare

\* The steps that leave the slots alone.
LEMMA QuietSlots ==
    ASSUME Inv, SlotLedger, NEW t \in Streams,
           \/ NewStream(t) \/ AssignServer(t) \/ LookUpServer(t) \/ CheckRoom(t)
           \/ PendconnAdd(t) \/ PendconnInsert(t) \/ MustTryAgain(t) \/ Unqueue(t)
           \/ WakeUp(t) \/ GiveUp(t) \/ Dequeued(t) \/ PendconnUnlink(t)
           \/ Unlinked(t) \/ Connect(t) \/ Disconnect(t) \/ MayDequeue(t)
           \/ Loop(t) \/ Xchg(t) \/ LockQueue(t) \/ Inner(t)
           \/ LeaveQueue(t) \/ Tally(t) \/ Close(t)
    PROVE  SlotLedger'
<1>1. CASE NewStream(t)
  <2>1. PICK to \in {"close", "add", "lookup", "check"} : pc' = [pc EXCEPT ![t] = to]
    BY <1>1 DEF NewStream, Balance, Goto
  <2> QED
    BY <1>1, <2>1, SameShare
    DEF NewStream, Balance, Inv, Typed, StepTyped, DataTyped
<1>2. CASE AssignServer(t)
  <2>1. PICK to \in {"close", "add", "lookup"} : pc' = [pc EXCEPT ![t] = to]
    BY <1>2 DEF AssignServer, Balance, Goto
  <2> QED
    BY <1>2, <2>1, SameShare
    DEF AssignServer, Balance, Inv, Typed, StepTyped, DataTyped
<1>3. CASE LookUpServer(t)
  <2>1. PICK to \in {"add", "check"} : pc' = [pc EXCEPT ![t] = to]
    BY <1>3 DEF LookUpServer, Goto
  <2> QED
    BY <1>3, <2>1, SameShare DEF LookUpServer, Inv, Typed, StepTyped, DataTyped
<1>4. CASE CheckRoom(t)
  <2>1. PICK to \in {"connect", "add", "take"} : pc' = [pc EXCEPT ![t] = to]
    BY <1>4 DEF CheckRoom, Goto
  <2> QED
    BY <1>4, <2>1, SameShare DEF CheckRoom, Inv, Typed, StepTyped, DataTyped
<1>5. CASE PendconnAdd(t)
  <2>1. PICK to \in {"insert"} : pc' = [pc EXCEPT ![t] = to]
    BY <1>5 DEF PendconnAdd, Goto
  <2> QED
    BY <1>5, <2>1, SameShare DEF PendconnAdd, Inv, Typed, StepTyped, DataTyped
<1>6. CASE PendconnInsert(t)
  <2>1. PICK to \in {"tryagain", "maydequeue"} : pc' = [pc EXCEPT ![t] = to]
    BY <1>6 DEF PendconnInsert, Goto, NoWork
  <2> QED
    BY <1>6, <2>1, SameShare
    DEF PendconnInsert, Inv, Typed, StepTyped, DataTyped
<1>7. CASE MustTryAgain(t)
  <2>1. PICK to \in {"wait", "unqueue"} : pc' = [pc EXCEPT ![t] = to]
    BY <1>7 DEF MustTryAgain, Goto
  <2> QED
    BY <1>7, <2>1, SameShare DEF MustTryAgain, Inv, Typed, StepTyped, DataTyped
<1>8. CASE Unqueue(t)
  <2>1. PICK to \in {"assign", "wait"} : pc' = [pc EXCEPT ![t] = to]
    BY <1>8 DEF Unqueue, FreeEntry, Goto
  <2> QED
    BY <1>8, <2>1, SameShare
    DEF Unqueue, FreeEntry, Inv, Typed, StepTyped, DataTyped
<1>9. CASE WakeUp(t)
  <2>1. PICK to \in {"dequeued", "unlink", "wait"} : pc' = [pc EXCEPT ![t] = to]
    BY <1>9 DEF WakeUp, LookAtEntry, Goto
  <2> QED
    BY <1>9, <2>1, SameShare
    DEF WakeUp, LookAtEntry, Inv, Typed, StepTyped, DataTyped
<1>10. CASE GiveUp(t)
  <2>1. PICK to \in {"dequeued", "unlink", "wait"} : pc' = [pc EXCEPT ![t] = to]
    BY <1>10 DEF GiveUp, LookAtEntry, Goto
  <2> QED
    BY <1>10, <2>1, SameShare
    DEF GiveUp, LookAtEntry, Inv, Typed, StepTyped, DataTyped
<1>11. CASE Dequeued(t)
  <2>1. PICK to \in {"connect", "assign"} : pc' = [pc EXCEPT ![t] = to]
    BY <1>11 DEF Dequeued, FreeEntry, Goto
  <2> QED
    BY <1>11, <2>1, SameShare
    DEF Dequeued, FreeEntry, Inv, Typed, StepTyped, DataTyped
<1>12. CASE PendconnUnlink(t)
  <2>1. PICK to \in {"unlinked", "close"} : pc' = [pc EXCEPT ![t] = to]
    BY <1>12 DEF PendconnUnlink, Goto
  <2> QED
    BY <1>12, <2>1, SameShare
    DEF PendconnUnlink, Inv, Typed, StepTyped, DataTyped
<1>13. CASE Unlinked(t)
  <2>1. PICK to \in {"close"} : pc' = [pc EXCEPT ![t] = to]
    BY <1>13 DEF Unlinked, Goto
  <2> QED
    BY <1>13, <2>1, SameShare DEF Unlinked, Inv, Typed, StepTyped, DataTyped
<1>14. CASE Connect(t)
  <2>1. PICK to \in {"connected", "release", "close"} : pc' = [pc EXCEPT ![t] = to]
    BY <1>14 DEF Connect, Goto
  <2> QED
    BY <1>14, <2>1, SameShare DEF Connect, Inv, Typed, StepTyped, DataTyped
<1>15. CASE Disconnect(t)
  <2>1. PICK to \in {"release"} : pc' = [pc EXCEPT ![t] = to]
    BY <1>15 DEF Disconnect, Goto
  <2> QED
    BY <1>15, <2>1, SameShare DEF Disconnect, Inv, Typed, StepTyped, DataTyped
<1>16. CASE MayDequeue(t)
  <2>1. PICK to \in {"loop", "wait", "close", "drop"} : pc' = [pc EXCEPT ![t] = to]
    BY <1>16 DEF MayDequeue, Goto, Inv, OwnStream, WorkSteps
  <2> QED
    BY <1>16, <2>1, SameShare DEF MayDequeue, Inv, Typed, StepTyped, DataTyped
<1>17. CASE Loop(t)
  <2>1. PICK to \in {"xchg", "tally", "wait", "close", "drop"} : pc' = [pc EXCEPT ![t] = to]
    BY <1>17 DEF Loop, EndLoop, Goto, Inv, OwnStream, WorkSteps
  <2> QED
    BY <1>17, <2>1, SameShare
    DEF Loop, EndLoop, Inv, Typed, StepTyped, DataTyped
<1>18. CASE Xchg(t)
  <2>1. PICK to \in {"lock", "tally", "wait", "close", "drop"} : pc' = [pc EXCEPT ![t] = to]
    BY <1>18 DEF Xchg, EndLoop, Goto, Inv, OwnStream, WorkSteps
  <2> QED
    BY <1>18, <2>1, SameShare
    DEF Xchg, EndLoop, Inv, Typed, StepTyped, DataTyped
<1>19. CASE LockQueue(t)
  <2>1. PICK to \in {"inner"} : pc' = [pc EXCEPT ![t] = to]
    BY <1>19 DEF LockQueue, Goto
  <2> QED
    BY <1>19, <2>1, SameShare DEF LockQueue, Inv, Typed, StepTyped, DataTyped
<1>20. CASE Inner(t)
  <2>1. PICK to \in {"next", "leave"} : pc' = [pc EXCEPT ![t] = to]
    BY <1>20 DEF Inner, Goto
  <2> QED
    BY <1>20, <2>1, SameShare DEF Inner, Inv, Typed, StepTyped, DataTyped
<1>21. CASE LeaveQueue(t)
  <2>1. PICK to \in {"loop"} : pc' = [pc EXCEPT ![t] = to]
    BY <1>21 DEF LeaveQueue, Goto
  <2> QED
    BY <1>21, <2>1, SameShare DEF LeaveQueue, Inv, Typed, StepTyped, DataTyped
<1>22. CASE Tally(t)
  <2>1. PICK to \in {"wait", "close", "drop"} : pc' = [pc EXCEPT ![t] = to]
    BY <1>22 DEF Tally, Goto, NoWork, Inv, OwnStream, WorkSteps
  <2> QED
    BY <1>22, <2>1, SameShare DEF Tally, Inv, Typed, StepTyped, DataTyped
<1>23. CASE Close(t)
  <2>1. PICK to \in {"maydequeue", "drop"} : pc' = [pc EXCEPT ![t] = to]
    BY <1>23 DEF Close, FreeEntry, Goto, NoWork
  <2> QED
    BY <1>23, <2>1, SameShare
    DEF Close, FreeEntry, Inv, Typed, StepTyped, DataTyped
<1> QED
  BY <1>1, <1>2, <1>3, <1>4, <1>5, <1>6, <1>7, <1>8, <1>9, <1>10, <1>11, <1>12,
     <1>13, <1>14, <1>15, <1>16, <1>17, <1>18, <1>19, <1>20, <1>21, <1>22,
     <1>23

\* sess_change_server(): the counter, then the stream's field.
LEMMA TakeSlotSlots ==
    ASSUME Inv, SlotLedger, NEW t \in Streams, TakeSlot(t)
    PROVE  SlotLedger'
<1>1. /\ pc[t] = "take" /\ pc' = [pc EXCEPT ![t] = "taken"]
        /\ served' = [served EXCEPT ![target[t]] = @ + 1] /\ UNCHANGED <<srvConn, target>>
  BY DEF TakeSlot, Goto
<1>2. /\ \A u \in Streams \ {t} : srvConn'[u] = srvConn[u] /\ target'[u] = target[u]
      /\ \A s \in Servers : served[s] \in Int /\ s # None
  BY <1>1, ConstantsOK DEF Inv, Typed, StepTyped, DataTyped, Queues
<1>3. ASSUME NEW s \in Servers
      PROVE  served'[s] = served[s] + Share(s, "taken", srvConn'[t], target'[t])
                            - Share(s, pc[t], srvConn[t], target[t])
  BY <1>1, <1>2 DEF Share, One, Inv, Typed, StepTyped, DataTyped, OwnStream
<1> QED
  BY <1>1, <1>2, <1>3, OwnShare

\* The field follows.
LEMMA SlotTakenSlots ==
    ASSUME Inv, SlotLedger, NEW t \in Streams, SlotTaken(t)
    PROVE  SlotLedger'
<1>1. /\ pc[t] = "taken" /\ pc' = [pc EXCEPT ![t] = "connect"]
        /\ srvConn' = [srvConn EXCEPT ![t] = target[t]] /\ UNCHANGED <<served, target>>
  BY DEF SlotTaken, Goto
<1>2. /\ \A u \in Streams \ {t} : srvConn'[u] = srvConn[u] /\ target'[u] = target[u]
      /\ \A s \in Servers : served[s] \in Int /\ s # None
  BY <1>1, ConstantsOK DEF Inv, Typed, StepTyped, DataTyped, Queues
<1>3. ASSUME NEW s \in Servers
      PROVE  served'[s] = served[s] + Share(s, "connect", srvConn'[t], target'[t])
                            - Share(s, pc[t], srvConn[t], target[t])
  BY <1>1, <1>2 DEF Share, One, Inv, Typed, StepTyped, DataTyped, OwnStream
<1> QED
  BY <1>1, <1>2, <1>3, OwnShare

\* The field follows the counter when the slot is given back,
LEMMA SlotReleasedSlots ==
    ASSUME Inv, SlotLedger, NEW t \in Streams, SlotReleased(t)
    PROVE  SlotLedger'
<1>1. /\ pc[t] = "released" /\ pc' = [pc EXCEPT ![t] = "maydequeue"]
        /\ srvConn' = [srvConn EXCEPT ![t] = None] /\ UNCHANGED <<served, target>>
  BY DEF SlotReleased, Offer, Goto, NoWork
<1>2. /\ \A u \in Streams \ {t} : srvConn'[u] = srvConn[u] /\ target'[u] = target[u]
      /\ \A s \in Servers : served[s] \in Int /\ s # None
  BY <1>1, ConstantsOK DEF Inv, Typed, StepTyped, DataTyped, Queues
<1>3. ASSUME NEW s \in Servers
      PROVE  served'[s] = served[s] + Share(s, "maydequeue", srvConn'[t], target'[t])
                            - Share(s, pc[t], srvConn[t], target[t])
  BY <1>1, <1>2 DEF Share, One, Inv, Typed, StepTyped, DataTyped, OwnStream
<1> QED
  BY <1>1, <1>2, <1>3, OwnShare

\* and when the stream is freed.
LEMMA DroppedSlots ==
    ASSUME Inv, SlotLedger, NEW t \in Streams, Dropped(t)
    PROVE  SlotLedger'
<1>1. /\ pc[t] = "dropped" /\ pc' = [pc EXCEPT ![t] = "done"]
        /\ srvConn' = [srvConn EXCEPT ![t] = None] /\ UNCHANGED served
        /\ target' = [target EXCEPT ![t] = None]
  BY DEF Dropped, FreeStream, Goto, NoWork
<1>2. /\ \A u \in Streams \ {t} : srvConn'[u] = srvConn[u] /\ target'[u] = target[u]
      /\ \A s \in Servers : served[s] \in Int /\ s # None
  BY <1>1, ConstantsOK DEF Inv, Typed, StepTyped, DataTyped, Queues
<1>3. ASSUME NEW s \in Servers
      PROVE  served'[s] = served[s] + Share(s, "done", srvConn'[t], target'[t])
                            - Share(s, pc[t], srvConn[t], target[t])
  BY <1>1, <1>2 DEF Share, One, Inv, Typed, StepTyped, DataTyped, OwnStream
<1> QED
  BY <1>1, <1>2, <1>3, OwnShare

\* The length is no slot.
LEMMA DecLengthSlots ==
    ASSUME Inv, SlotLedger, NEW t \in Streams, DecLength(t)
    PROVE  SlotLedger'
<1>1. /\ pc[t] = "dec" /\ pc' = [pc EXCEPT ![t] = "inc"]
        /\ UNCHANGED <<served, srvConn, target>>
  BY DEF DecLength, Goto
<1>2. /\ \A u \in Streams \ {t} : srvConn'[u] = srvConn[u] /\ target'[u] = target[u]
      /\ \A s \in Servers : served[s] \in Int /\ s # None
  BY <1>1, ConstantsOK DEF Inv, Typed, StepTyped, DataTyped, Queues
<1>3. ASSUME NEW s \in Servers
      PROVE  served'[s] = served[s] + Share(s, "inc", srvConn'[t], target'[t])
                            - Share(s, pc[t], srvConn[t], target[t])
  BY <1>1, <1>2 DEF Share, One, Inv, Typed, StepTyped, DataTyped, OwnStream
<1> QED
  BY <1>1, <1>2, <1>3, OwnShare

\* A slot that is given back is counted out first.
LEMMA ReleaseSlotSlots ==
    ASSUME Inv, SlotLedger, NEW t \in Streams, ReleaseSlot(t)
    PROVE  SlotLedger'
<1>1. pc[t] = "release" /\ UNCHANGED <<srvConn, target>>
  BY DEF ReleaseSlot
<1>2. CASE srvConn[t] = None
  <2>1. pc' = [pc EXCEPT ![t] = "maydequeue"] /\ UNCHANGED served
    BY <1>2 DEF ReleaseSlot, Offer, Goto
  <2> QED
    BY <1>1, <2>1, SameShare
<1>3. CASE srvConn[t] # None
  <2>1. /\ pc' = [pc EXCEPT ![t] = "released"]
        /\ served' = [served EXCEPT ![srvConn[t]] = @ - 1]
    BY <1>3 DEF ReleaseSlot, Goto
  <2>2. ASSUME NEW s \in Servers
        PROVE  served'[s] = served[s] + Share(s, "released", srvConn'[t], target'[t])
                              - Share(s, pc[t], srvConn[t], target[t])
    BY <1>1, <1>3, <2>1 DEF Share, One, Inv, Typed, StepTyped, DataTyped
  <2> QED
    BY <1>1, <2>1, <2>2, OwnShare
<1> QED
  BY <1>2, <1>3

\* stream_free().
LEMMA DropSlots ==
    ASSUME Inv, SlotLedger, NEW t \in Streams, Drop(t)
    PROVE  SlotLedger'
<1>1. CASE srvConn[t] = None /\ FreeStream(t) /\ UNCHANGED served
  <2>1. pc' = [pc EXCEPT ![t] = "done"]
    BY <1>1 DEF FreeStream, Goto
  <2> QED
    BY <1>1, <2>1, SameShare
    DEF Drop, FreeStream, Inv, Typed, StepTyped, DataTyped
<1>2. CASE /\ srvConn[t] # None /\ Goto(t, "dropped")
           /\ served' = [served EXCEPT ![srvConn[t]] = @ - 1]
           /\ UNCHANGED <<target, srvConn>>
  <2>1. pc[t] = "drop" /\ pc' = [pc EXCEPT ![t] = "dropped"]
    BY <1>2 DEF Drop, Goto
  <2>2. ASSUME NEW s \in Servers
        PROVE  served'[s] = served[s] + Share(s, "dropped", srvConn'[t], target'[t])
                              - Share(s, pc[t], srvConn[t], target[t])
    BY <1>2, <2>1 DEF Share, One, Inv, Typed, StepTyped, DataTyped
  <2> QED
    BY <1>2, <2>1, <2>2, OwnShare
<1> QED
  BY <1>1, <1>2 DEF Drop

\* process_srv_queue() counts the slot it has handed out.
LEMMA IncServedSlots ==
    ASSUME Inv, SlotLedger, NEW t \in Streams, IncServed(t)
    PROVE  SlotLedger'
<1>1. PICK to \in {"inner", "leave"} : pc' = [pc EXCEPT ![t] = to]
  BY DEF IncServed, Goto
<1>2. /\ pc[t] = "inc" /\ UNCHANGED <<srvConn, target>>
      /\ served' = [served EXCEPT ![target[t]] = @ + 1]
  BY DEF IncServed
<1>3. ASSUME NEW s \in Servers
      PROVE  served'[s] = served[s] + Share(s, to, srvConn'[t], target'[t])
                            - Share(s, pc[t], srvConn[t], target[t])
  BY <1>1, <1>2 DEF Share, One, Inv, Typed, StepTyped, DataTyped
<1> QED
  BY <1>1, <1>2, <1>3, OwnShare

\* pendconn_process_next_strm() hands out a slot.
LEMMA ProcessNextSlots ==
    ASSUME Inv, SlotLedger, NEW t \in Streams, ProcessNext(t)
    PROVE  SlotLedger'
<1>1. /\ pc[t] = "next" /\ UNCHANGED <<served, target>> /\ target[t] \in Servers
  BY DEF ProcessNext, Inv, OwnStream, WorkSteps
<1>2. ASSUME NEW p \in tree[target[t]], TakeOwn(t, p) PROVE SlotLedger'
  <2>1. p \in Streams /\ Queued(p) /\ srvConn[p] = None
    BY <1>1 DEF Inv, Typed, StepTyped, DataTyped, Linked, Queues
  <2> QED
    BY <1>1, <1>2, <2>1, HandOver DEF TakeOwn, Goto
<1>3. ASSUME NEW to \in {"give", "leave"}, pc' = [pc EXCEPT ![t] = to], UNCHANGED srvConn
      PROVE  SlotLedger'
  BY <1>1, <1>3, SameShare
<1> QED
  BY <1>2, <1>3 DEF ProcessNext, TakePx, Goto

\* So does the thread that has let go of the proxy's queue.
LEMMA GiveSlots ==
    ASSUME Inv, SlotLedger, NEW t \in Streams, Give(t)
    PROVE  SlotLedger'
<1>1. PICK p \in Streams : p = work[t].pick
  BY DEF Give, Inv, Picked, Typed, StepTyped, DataTyped
<1>2. /\ Queued(p) /\ srvConn[p] = None /\ target[t] \in Servers
      /\ pc[t] = "give" /\ pc' = [pc EXCEPT ![t] = "dec"]
      /\ srvConn' = [srvConn EXCEPT ![p] = target[t]] /\ UNCHANGED <<served, target>>
  BY <1>1 DEF Give, Goto, Inv, Picked, OwnStream, WorkSteps
<1> QED
  BY <1>2, HandOver

\* The thread that changes servers touches no slot.
LEMMA AdminSlots ==
    ASSUME Inv, SlotLedger, UNCHANGED <<served, srvConn, target>>,
           \A u \in Streams : pc'[u] = pc[u]
    PROVE  SlotLedger'
<1>1. \A s \in Servers : /\ Holders(s)' = Holders(s) /\ Takers(s)' = Takers(s)
                         /\ Returners(s)' = Returners(s) /\ Handing(s)' = Handing(s)
  BY DEF Holders, Takers, Returners, Handing
<1> QED
  BY <1>1, SlotTerms, SlotTermsNext

\* Nobody has a slot.
LEMMA SlotInit == Init => SlotLedger
<1> SUFFICES ASSUME Init, NEW s \in Servers
             PROVE  served[s] = Cardinality(Holders(s)) + Cardinality(Takers(s))
                         - Cardinality(Returners(s)) - Cardinality(Handing(s))
  BY SlotTerms
<1>1. /\ Holders(s) = {} /\ Takers(s) = {} /\ Returners(s) = {} /\ Handing(s) = {}
      /\ served[s] = 0
  BY ConstantsOK DEF Init, Holders, Takers, Returners, Handing, Queues
<1> QED
  BY <1>1, FS_EmptySet

\* Every step of every thread keeps the slots.
LEMMA SlotStep == Inv /\ SlotLedger /\ [Next]_vars => SlotLedger'
<1> SUFFICES ASSUME Inv, SlotLedger, [Next]_vars PROVE SlotLedger'
  OBVIOUS
<1>1. CASE UNCHANGED vars
  BY <1>1, AdminSlots DEF vars
<1>2. ASSUME NEW t \in Streams, NewStream(t) \/ GiveUp(t) \/ Step(t)
      PROVE  SlotLedger'
  BY <1>2, QuietSlots, TakeSlotSlots, SlotTakenSlots, ReleaseSlotSlots,
     SlotReleasedSlots, ProcessNextSlots, GiveSlots, DecLengthSlots, IncServedSlots,
     DropSlots, DroppedSlots
  DEF Step
<1>3. ASSUME AdminStep \/ \E s \in Servers : SetMaint(s) \/ SetReady(s)
      PROVE  SlotLedger'
  <2>1. UNCHANGED <<served, srvConn, target>> /\ \E to : pc' = [pc EXCEPT ![Admin] = to]
    BY <1>3
    DEF AdminStep, SetMaint, SetReady, Redistribute, Counted, RedistributePx,
        Grab, CountedPx, Goto
  <2>2. \A u \in Streams : pc'[u] = pc[u]
    BY <2>1, ConstantsOK DEF Inv, Typed, StepTyped, DataTyped
  <2> QED
    BY <2>1, <2>2, AdminSlots
<1> QED
  BY <1>1, <1>2, <1>3 DEF Next

\* srv->served is the number of streams that have a slot of the server, but
\* for those between their field and the counter: no slot is lost or given
\* back twice, whoever takes it, hands it out or drops it.
THEOREM SlotsExact == Spec => []SlotLedger
BY InvInit, InvStep, SlotInit, SlotStep, PTL DEF Spec

=============================================================================
