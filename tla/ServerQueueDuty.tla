-------------------------- MODULE ServerQueueDuty --------------------------
(***************************************************************************)
(* Nobody is stranded in the queues of ServerQueue, for any number of      *)
(* streams, servers, slots and events, unless one of the four known        *)
(* wake-ups was missed.                                                    *)
(*                                                                         *)
(* The property speaks of the states in which all threads have come to     *)
(* rest. The invariant behind it names, at any time and for every queue    *)
(* that is not empty, a stream that is on duty: it has a slot, or was      *)
(* given a server, and will offer the slot to the queues when it leaves,   *)
(* or it is in process_srv_queue() and will look once more. A step may     *)
(* pass the duty on, and then the exact counters say to whom: a thread     *)
(* that finds the server busy knows that somebody has a slot, one that     *)
(* finds dequeuing set knows that somebody is in charge.                   *)
(***************************************************************************)
EXTENDS ServerQueueProofs

\* The groups of variables are only names.
USE DEF counters, queueing, entries, flags, serverState

-----------------------------------------------------------------------------
(* Who is on duty *)

\* A step of thread t leaves the other threads and their flags alone.
OthersStay(t) ==
    /\ UNCHANGED usable /\ pc'[Admin] = pc[Admin]
    /\ \A u \in Streams \ {t} :
          pc'[u] = pc[u] /\ woken'[u] = woken[u] /\ currSess'[u] = currSess[u]

\* A thread stops only after a look that found nothing; an entry has no server
\* until it is unlinked, and one in the hands of a thread still has none.
Tidy(t) ==
    /\ currSess[t] => pc[t] = "connected"
    /\ pc[t] \in {"maydequeue", "xchg", "lock", "inner", "next", "give", "dec",
                  "inc"} => ~work[t].stop
    /\ pc[t] = "maydequeue" => work[t].done = 0
    /\ \A q \in Queues : t \in tree[q] => pendTarget[t] = None
    /\ pc[t] = "give" => pendTarget[work[t].pick] = None

\* dequeuing is set while one thread, and only one, is in charge.
Charged ==
    \A s \in Servers :
        /\ dequeuing[s] => \E h \in Streams : InCharge(h, s)
        /\ \A h \in Streams : InCharge(h, s) => dequeuing[s]
        /\ \A h, k \in Streams : InCharge(h, s) /\ InCharge(k, s) => h = k

\* The entry of t was unlinked by another thread, and t has not seen it yet.
Handed(t) == Queued(t) /\ pc[t] # "dequeued" /\ t \notin tree[pend[t]]

\* Its stream is woken up, at once or by the thread that has the entry.
Informed ==
    \A t \in Streams :
        Handed(t) => woken[t] \/ \E h \in Streams : pc[h] = "give" /\ work[h].pick = t

\* Thread u will look at the queues again before it leaves process_srv_queue(),
\* at the proxy's too if px.
Looks(u, px) ==
    /\ px => work[u].pxOk
    /\ \/ pc[u] \in {"xchg", "lock", "inner", "next", "give", "dec", "inc"}
       \/ pc[u] = "leave" /\ ~work[u].stop
       \/ /\ pc[u] = "loop" /\ ~work[u].stop
          /\ work[u].done < MaxPollEvents \/ served[target[u]] >= 0

\* Stream u has a slot of s, or was given s without one, and will come to
\* process_srv_queue() for it.
Entitled(u, s) ==
    \/ srvConn[u] = s
    \/ Queued(u) /\ pend[u] = Px /\ u \notin tree[Px] /\ pendTarget[u] = s

\* It talks to s, and will come there too, or is there and looks again.
Duty(u, s, px) ==
    \/ Entitled(u, s)
    \/ /\ target[u] = s
       /\ \/ pc[u] \in {"taken", "connect", "connected", "release", "released",
                        "close", "maydequeue"}
          \/ Looks(u, px)

\* The queue of s, or the proxy's, has to be looked at.
Waits(s, px) ==
    IF px THEN tree[Px] # {} /\ \A r \in Servers : usable[r] ELSE tree[s] # {}

\* Somebody waits in the proxy's queue who will not try again himself.
WaitsAtPx ==
    /\ \A r \in Servers : usable[r]
    /\ pc[Admin] # "grab"
    /\ \E x \in tree[Px] : pc[x] \notin {"tryagain", "unqueue"}

\* As long as no wake-up was missed, somebody is on duty for whoever waits.
OnDuty ==
    ~missed =>
        /\ \A s \in Servers : tree[s] # {} => \E u \in Streams : Duty(u, s, FALSE)
        /\ WaitsAtPx => \E s \in Servers, u \in Streams : Duty(u, s, TRUE)

\* The steps of a thread that touch nothing of another stream.
OwnAction(t) ==
    \/ NewStream(t) \/ AssignServer(t) \/ LookUpServer(t) \/ CheckRoom(t)
    \/ TakeSlot(t) \/ SlotTaken(t) \/ PendconnAdd(t) \/ PendconnInsert(t)
    \/ MustTryAgain(t) \/ Unqueue(t) \/ WakeUp(t) \/ GiveUp(t) \/ Dequeued(t)
    \/ PendconnUnlink(t) \/ Unlinked(t) \/ Connect(t) \/ Disconnect(t)
    \/ ReleaseSlot(t) \/ SlotReleased(t) \/ MayDequeue(t) \/ Loop(t)
    \/ Xchg(t) \/ LockQueue(t) \/ Inner(t) \/ DecLength(t) \/ IncServed(t)
    \/ LeaveQueue(t) \/ Tally(t) \/ Close(t) \/ Drop(t) \/ Dropped(t)

\* Each of them leaves the others as they are.
LEMMA OwnFrame ==
    ASSUME Inv, NEW t \in Streams, OwnAction(t)
    PROVE  OthersKept(t) /\ OthersStay(t)
<1>1. CASE NewStream(t)
  <2>1. OthersKept(t)
    BY <1>1, ConstantsOK
    DEF NewStream, Balance, Goto, OthersKept, Inv, Typed, DataTyped
  <2>2. OthersStay(t)
    BY <1>1, ConstantsOK
    DEF NewStream, Balance, Goto, OthersStay, Inv, Typed, StepTyped, DataTyped
  <2> QED
    BY <2>1, <2>2
<1>2. CASE AssignServer(t)
  <2>1. OthersKept(t)
    BY <1>2, ConstantsOK
    DEF AssignServer, Balance, Goto, OthersKept, Inv, Typed, DataTyped
  <2>2. OthersStay(t)
    BY <1>2, ConstantsOK
    DEF AssignServer, Balance, Goto, OthersStay, Inv, Typed, StepTyped,
        DataTyped
  <2> QED
    BY <2>1, <2>2
<1>3. CASE LookUpServer(t)
  <2>1. OthersKept(t)
    BY <1>3, ConstantsOK
    DEF LookUpServer, Goto, OthersKept, Inv, Typed, DataTyped
  <2>2. OthersStay(t)
    BY <1>3, ConstantsOK
    DEF LookUpServer, Goto, OthersStay, Inv, Typed, StepTyped, DataTyped
  <2> QED
    BY <2>1, <2>2
<1>4. CASE CheckRoom(t)
  <2>1. OthersKept(t)
    BY <1>4, ConstantsOK
    DEF CheckRoom, Goto, OthersKept, Inv, Typed, DataTyped
  <2>2. OthersStay(t)
    BY <1>4, ConstantsOK
    DEF CheckRoom, Goto, OthersStay, Inv, Typed, StepTyped, DataTyped
  <2> QED
    BY <2>1, <2>2
<1>5. CASE TakeSlot(t)
  <2>1. OthersKept(t)
    BY <1>5, ConstantsOK
    DEF TakeSlot, Goto, OthersKept, Inv, Typed, DataTyped
  <2>2. OthersStay(t)
    BY <1>5, ConstantsOK
    DEF TakeSlot, Goto, OthersStay, Inv, Typed, StepTyped, DataTyped
  <2> QED
    BY <2>1, <2>2
<1>6. CASE SlotTaken(t)
  <2>1. OthersKept(t)
    BY <1>6, ConstantsOK
    DEF SlotTaken, Goto, OthersKept, Inv, Typed, DataTyped
  <2>2. OthersStay(t)
    BY <1>6, ConstantsOK
    DEF SlotTaken, Goto, OthersStay, Inv, Typed, StepTyped, DataTyped
  <2> QED
    BY <2>1, <2>2
<1>7. CASE PendconnAdd(t)
  <2>1. OthersKept(t)
    BY <1>7, ConstantsOK
    DEF PendconnAdd, Goto, OthersKept, Inv, Typed, DataTyped
  <2>2. OthersStay(t)
    BY <1>7, ConstantsOK
    DEF PendconnAdd, Goto, OthersStay, Inv, Typed, StepTyped, DataTyped
  <2> QED
    BY <2>1, <2>2
<1>8. CASE PendconnInsert(t)
  <2>1. OthersKept(t)
    BY <1>8, ConstantsOK
    DEF PendconnInsert, Goto, OthersKept, Inv, Typed, DataTyped
  <2>2. OthersStay(t)
    BY <1>8, ConstantsOK
    DEF PendconnInsert, Goto, OthersStay, Inv, Typed, StepTyped, DataTyped
  <2> QED
    BY <2>1, <2>2
<1>9. CASE MustTryAgain(t)
  <2>1. OthersKept(t)
    BY <1>9, ConstantsOK
    DEF MustTryAgain, Goto, OthersKept, Inv, Typed, DataTyped
  <2>2. OthersStay(t)
    BY <1>9, ConstantsOK
    DEF MustTryAgain, Goto, OthersStay, Inv, Typed, StepTyped, DataTyped
  <2> QED
    BY <2>1, <2>2
<1>10. CASE Unqueue(t)
  <2>1. OthersKept(t)
    BY <1>10, ConstantsOK
    DEF Unqueue, FreeEntry, Goto, OthersKept, Inv, Typed, DataTyped
  <2>2. OthersStay(t)
    BY <1>10, ConstantsOK
    DEF Unqueue, FreeEntry, Goto, OthersStay, Inv, Typed, StepTyped, DataTyped
  <2> QED
    BY <2>1, <2>2
<1>11. CASE WakeUp(t)
  <2>1. OthersKept(t)
    BY <1>11, ConstantsOK
    DEF WakeUp, LookAtEntry, Goto, OthersKept, Inv, Typed, DataTyped
  <2>2. OthersStay(t)
    BY <1>11, ConstantsOK
    DEF WakeUp, LookAtEntry, Goto, OthersStay, Inv, Typed, StepTyped, DataTyped
  <2> QED
    BY <2>1, <2>2
<1>12. CASE GiveUp(t)
  <2>1. OthersKept(t)
    BY <1>12, ConstantsOK
    DEF GiveUp, LookAtEntry, Goto, OthersKept, Inv, Typed, DataTyped
  <2>2. OthersStay(t)
    BY <1>12, ConstantsOK
    DEF GiveUp, LookAtEntry, Goto, OthersStay, Inv, Typed, StepTyped, DataTyped
  <2> QED
    BY <2>1, <2>2
<1>13. CASE Dequeued(t)
  <2>1. OthersKept(t)
    BY <1>13, ConstantsOK
    DEF Dequeued, FreeEntry, Goto, OthersKept, Inv, Typed, DataTyped
  <2>2. OthersStay(t)
    BY <1>13, ConstantsOK
    DEF Dequeued, FreeEntry, Goto, OthersStay, Inv, Typed, StepTyped, DataTyped
  <2> QED
    BY <2>1, <2>2
<1>14. CASE PendconnUnlink(t)
  <2>1. OthersKept(t)
    BY <1>14, ConstantsOK
    DEF PendconnUnlink, Goto, OthersKept, Inv, Typed, DataTyped
  <2>2. OthersStay(t)
    BY <1>14, ConstantsOK
    DEF PendconnUnlink, Goto, OthersStay, Inv, Typed, StepTyped, DataTyped
  <2> QED
    BY <2>1, <2>2
<1>15. CASE Unlinked(t)
  <2>1. OthersKept(t)
    BY <1>15, ConstantsOK
    DEF Unlinked, Goto, OthersKept, Inv, Typed, DataTyped
  <2>2. OthersStay(t)
    BY <1>15, ConstantsOK
    DEF Unlinked, Goto, OthersStay, Inv, Typed, StepTyped, DataTyped
  <2> QED
    BY <2>1, <2>2
<1>16. CASE Connect(t)
  <2>1. OthersKept(t)
    BY <1>16, ConstantsOK
    DEF Connect, Goto, OthersKept, Inv, Typed, DataTyped
  <2>2. OthersStay(t)
    BY <1>16, ConstantsOK
    DEF Connect, Goto, OthersStay, Inv, Typed, StepTyped, DataTyped
  <2> QED
    BY <2>1, <2>2
<1>17. CASE Disconnect(t)
  <2>1. OthersKept(t)
    BY <1>17, ConstantsOK
    DEF Disconnect, Goto, OthersKept, Inv, Typed, DataTyped
  <2>2. OthersStay(t)
    BY <1>17, ConstantsOK
    DEF Disconnect, Goto, OthersStay, Inv, Typed, StepTyped, DataTyped
  <2> QED
    BY <2>1, <2>2
<1>18. CASE ReleaseSlot(t)
  <2>1. OthersKept(t)
    BY <1>18, ConstantsOK
    DEF ReleaseSlot, Offer, Goto, OthersKept, Inv, Typed, DataTyped
  <2>2. OthersStay(t)
    BY <1>18, ConstantsOK
    DEF ReleaseSlot, Offer, Goto, OthersStay, Inv, Typed, StepTyped, DataTyped
  <2> QED
    BY <2>1, <2>2
<1>19. CASE SlotReleased(t)
  <2>1. OthersKept(t)
    BY <1>19, ConstantsOK
    DEF SlotReleased, Offer, Goto, OthersKept, Inv, Typed, DataTyped
  <2>2. OthersStay(t)
    BY <1>19, ConstantsOK
    DEF SlotReleased, Offer, Goto, OthersStay, Inv, Typed, StepTyped, DataTyped
  <2> QED
    BY <2>1, <2>2
<1>20. CASE MayDequeue(t)
  <2>1. OthersKept(t)
    BY <1>20, ConstantsOK
    DEF MayDequeue, Goto, OthersKept, Inv, Typed, DataTyped
  <2>2. OthersStay(t)
    BY <1>20, ConstantsOK
    DEF MayDequeue, Goto, OthersStay, Inv, Typed, StepTyped, DataTyped
  <2> QED
    BY <2>1, <2>2
<1>21. CASE Loop(t)
  <2>1. OthersKept(t)
    BY <1>21, ConstantsOK
    DEF Loop, EndLoop, Goto, OthersKept, Inv, Typed, DataTyped
  <2>2. OthersStay(t)
    BY <1>21, ConstantsOK
    DEF Loop, EndLoop, Goto, OthersStay, Inv, Typed, StepTyped, DataTyped
  <2> QED
    BY <2>1, <2>2
<1>22. CASE Xchg(t)
  <2>1. OthersKept(t)
    BY <1>22, ConstantsOK
    DEF Xchg, EndLoop, Goto, OthersKept, Inv, Typed, DataTyped
  <2>2. OthersStay(t)
    BY <1>22, ConstantsOK
    DEF Xchg, EndLoop, Goto, OthersStay, Inv, Typed, StepTyped, DataTyped
  <2> QED
    BY <2>1, <2>2
<1>23. CASE LockQueue(t)
  <2>1. OthersKept(t)
    BY <1>23, ConstantsOK
    DEF LockQueue, Goto, OthersKept, Inv, Typed, DataTyped
  <2>2. OthersStay(t)
    BY <1>23, ConstantsOK
    DEF LockQueue, Goto, OthersStay, Inv, Typed, StepTyped, DataTyped
  <2> QED
    BY <2>1, <2>2
<1>24. CASE Inner(t)
  <2>1. OthersKept(t)
    BY <1>24, ConstantsOK
    DEF Inner, Goto, OthersKept, Inv, Typed, DataTyped
  <2>2. OthersStay(t)
    BY <1>24, ConstantsOK
    DEF Inner, Goto, OthersStay, Inv, Typed, StepTyped, DataTyped
  <2> QED
    BY <2>1, <2>2
<1>25. CASE DecLength(t)
  <2>1. OthersKept(t)
    BY <1>25, ConstantsOK
    DEF DecLength, Goto, OthersKept, Inv, Typed, DataTyped
  <2>2. OthersStay(t)
    BY <1>25, ConstantsOK
    DEF DecLength, Goto, OthersStay, Inv, Typed, StepTyped, DataTyped
  <2> QED
    BY <2>1, <2>2
<1>26. CASE IncServed(t)
  <2>1. OthersKept(t)
    BY <1>26, ConstantsOK
    DEF IncServed, Goto, OthersKept, Inv, Typed, DataTyped
  <2>2. OthersStay(t)
    BY <1>26, ConstantsOK
    DEF IncServed, Goto, OthersStay, Inv, Typed, StepTyped, DataTyped
  <2> QED
    BY <2>1, <2>2
<1>27. CASE LeaveQueue(t)
  <2>1. OthersKept(t)
    BY <1>27, ConstantsOK
    DEF LeaveQueue, Goto, OthersKept, Inv, Typed, DataTyped
  <2>2. OthersStay(t)
    BY <1>27, ConstantsOK
    DEF LeaveQueue, Goto, OthersStay, Inv, Typed, StepTyped, DataTyped
  <2> QED
    BY <2>1, <2>2
<1>28. CASE Tally(t)
  <2>1. OthersKept(t)
    BY <1>28, ConstantsOK
    DEF Tally, Goto, OthersKept, Inv, Typed, DataTyped
  <2>2. OthersStay(t)
    BY <1>28, ConstantsOK
    DEF Tally, Goto, OthersStay, Inv, Typed, StepTyped, DataTyped
  <2> QED
    BY <2>1, <2>2
<1>29. CASE Close(t)
  <2>1. OthersKept(t)
    BY <1>29, ConstantsOK
    DEF Close, FreeEntry, Goto, OthersKept, Inv, Typed, DataTyped
  <2>2. OthersStay(t)
    BY <1>29, ConstantsOK
    DEF Close, FreeEntry, Goto, OthersStay, Inv, Typed, StepTyped, DataTyped
  <2> QED
    BY <2>1, <2>2
<1>30. CASE Drop(t)
  <2>1. OthersKept(t)
    BY <1>30, ConstantsOK
    DEF Drop, FreeStream, Goto, OthersKept, Inv, Typed, DataTyped
  <2>2. OthersStay(t)
    BY <1>30, ConstantsOK
    DEF Drop, FreeStream, Goto, OthersStay, Inv, Typed, StepTyped, DataTyped
  <2> QED
    BY <2>1, <2>2
<1>31. CASE Dropped(t)
  <2>1. OthersKept(t)
    BY <1>31, ConstantsOK
    DEF Dropped, FreeStream, Goto, OthersKept, Inv, Typed, DataTyped
  <2>2. OthersStay(t)
    BY <1>31, ConstantsOK
    DEF Dropped, FreeStream, Goto, OthersStay, Inv, Typed, StepTyped, DataTyped
  <2> QED
    BY <2>1, <2>2
<1> QED
  BY <1>1, <1>2, <1>3, <1>4, <1>5, <1>6, <1>7, <1>8, <1>9, <1>10, <1>11, <1>12,
     <1>13, <1>14, <1>15, <1>16, <1>17, <1>18, <1>19, <1>20, <1>21, <1>22,
     <1>23, <1>24, <1>25, <1>26, <1>27, <1>28, <1>29, <1>30, <1>31 DEF OwnAction

\* What a thread does to its own stream.
LEMMA TidySelf ==
    ASSUME Inv, NEW t \in Streams, Tidy(t), OwnAction(t)
    PROVE  Tidy(t)' /\ pc'[t] # "give" /\ pendTarget'[t] \in {pendTarget[t], None}
<1>1. CASE NewStream(t)
  BY <1>1, ConstantsOK
  DEF NewStream, Balance, Goto, NoWork, Tidy, Inv, Typed, StepTyped, DataTyped,
      OwnStream, WorkSteps
<1>2. CASE AssignServer(t)
  BY <1>2, ConstantsOK
  DEF AssignServer, Balance, Goto, NoWork, Tidy, Inv, Typed, StepTyped,
      DataTyped, OwnStream, WorkSteps
<1>3. CASE LookUpServer(t)
  BY <1>3, ConstantsOK
  DEF LookUpServer, Goto, NoWork, Tidy, Inv, Typed, StepTyped, DataTyped,
      OwnStream, WorkSteps
<1>4. CASE CheckRoom(t)
  BY <1>4, ConstantsOK
  DEF CheckRoom, Goto, NoWork, Tidy, Inv, Typed, StepTyped, DataTyped,
      OwnStream, WorkSteps
<1>5. CASE TakeSlot(t)
  BY <1>5, ConstantsOK
  DEF TakeSlot, Goto, NoWork, Tidy, Inv, Typed, StepTyped, DataTyped, OwnStream,
      WorkSteps
<1>6. CASE SlotTaken(t)
  BY <1>6, ConstantsOK
  DEF SlotTaken, Goto, NoWork, Tidy, Inv, Typed, StepTyped, DataTyped,
      OwnStream, WorkSteps
<1>7. CASE PendconnAdd(t)
  BY <1>7, ConstantsOK
  DEF PendconnAdd, Goto, NoWork, Tidy, Inv, Typed, StepTyped, DataTyped,
      OwnStream, WorkSteps
<1>8. CASE PendconnInsert(t)
  BY <1>8, ConstantsOK
  DEF PendconnInsert, Goto, NoWork, Tidy, Inv, Typed, StepTyped, DataTyped,
      OwnStream, WorkSteps
<1>9. CASE MustTryAgain(t)
  BY <1>9, ConstantsOK
  DEF MustTryAgain, Goto, NoWork, Tidy, Inv, Typed, StepTyped, DataTyped,
      OwnStream, WorkSteps
<1>10. CASE Unqueue(t)
  BY <1>10, ConstantsOK
  DEF Unqueue, FreeEntry, Goto, NoWork, Tidy, Inv, Typed, StepTyped, DataTyped,
      OwnStream, WorkSteps
<1>11. CASE WakeUp(t)
  BY <1>11, ConstantsOK
  DEF WakeUp, LookAtEntry, Goto, NoWork, Tidy, Inv, Typed, StepTyped, DataTyped,
      OwnStream, WorkSteps
<1>12. CASE GiveUp(t)
  BY <1>12, ConstantsOK
  DEF GiveUp, LookAtEntry, Goto, NoWork, Tidy, Inv, Typed, StepTyped, DataTyped,
      OwnStream, WorkSteps
<1>13. CASE Dequeued(t)
  BY <1>13, ConstantsOK
  DEF Dequeued, FreeEntry, Goto, NoWork, Tidy, Inv, Typed, StepTyped, DataTyped,
      OwnStream, WorkSteps
<1>14. CASE PendconnUnlink(t)
  BY <1>14, ConstantsOK
  DEF PendconnUnlink, Goto, NoWork, Tidy, Inv, Typed, StepTyped, DataTyped,
      OwnStream, WorkSteps
<1>15. CASE Unlinked(t)
  BY <1>15, ConstantsOK
  DEF Unlinked, Goto, NoWork, Tidy, Inv, Typed, StepTyped, DataTyped, OwnStream,
      WorkSteps
<1>16. CASE Connect(t)
  BY <1>16, ConstantsOK
  DEF Connect, Goto, NoWork, Tidy, Inv, Typed, StepTyped, DataTyped, OwnStream,
      WorkSteps
<1>17. CASE Disconnect(t)
  BY <1>17, ConstantsOK
  DEF Disconnect, Goto, NoWork, Tidy, Inv, Typed, StepTyped, DataTyped,
      OwnStream, WorkSteps
<1>18. CASE ReleaseSlot(t)
  BY <1>18, ConstantsOK
  DEF ReleaseSlot, Offer, Goto, NoWork, Tidy, Inv, Typed, StepTyped, DataTyped,
      OwnStream, WorkSteps
<1>19. CASE SlotReleased(t)
  BY <1>19, ConstantsOK
  DEF SlotReleased, Offer, Goto, NoWork, Tidy, Inv, Typed, StepTyped, DataTyped,
      OwnStream, WorkSteps
<1>20. CASE MayDequeue(t)
  BY <1>20, ConstantsOK
  DEF MayDequeue, Goto, NoWork, Tidy, Inv, Typed, StepTyped, DataTyped,
      OwnStream, WorkSteps
<1>21. CASE Loop(t)
  BY <1>21, ConstantsOK
  DEF Loop, EndLoop, Goto, NoWork, Tidy, Inv, Typed, StepTyped, DataTyped,
      OwnStream, WorkSteps
<1>22. CASE Xchg(t)
  BY <1>22, ConstantsOK
  DEF Xchg, EndLoop, Goto, NoWork, Tidy, Inv, Typed, StepTyped, DataTyped,
      OwnStream, WorkSteps
<1>23. CASE LockQueue(t)
  BY <1>23, ConstantsOK
  DEF LockQueue, Goto, NoWork, Tidy, Inv, Typed, StepTyped, DataTyped,
      OwnStream, WorkSteps
<1>24. CASE Inner(t)
  BY <1>24, ConstantsOK
  DEF Inner, Goto, NoWork, Tidy, Inv, Typed, StepTyped, DataTyped, OwnStream,
      WorkSteps
<1>25. CASE DecLength(t)
  BY <1>25, ConstantsOK
  DEF DecLength, Goto, NoWork, Tidy, Inv, Typed, StepTyped, DataTyped,
      OwnStream, WorkSteps
<1>26. CASE IncServed(t)
  BY <1>26, ConstantsOK
  DEF IncServed, Goto, NoWork, Tidy, Inv, Typed, StepTyped, DataTyped,
      OwnStream, WorkSteps
<1>27. CASE LeaveQueue(t)
  BY <1>27, ConstantsOK
  DEF LeaveQueue, Goto, NoWork, Tidy, Inv, Typed, StepTyped, DataTyped,
      OwnStream, WorkSteps
<1>28. CASE Tally(t)
  BY <1>28, ConstantsOK
  DEF Tally, Goto, NoWork, Tidy, Inv, Typed, StepTyped, DataTyped, OwnStream,
      WorkSteps
<1>29. CASE Close(t)
  BY <1>29, ConstantsOK
  DEF Close, FreeEntry, Goto, NoWork, Tidy, Inv, Typed, StepTyped, DataTyped,
      OwnStream, WorkSteps
<1>30. CASE Drop(t)
  BY <1>30, ConstantsOK
  DEF Drop, FreeStream, Goto, NoWork, Tidy, Inv, Typed, StepTyped, DataTyped,
      OwnStream, WorkSteps
<1>31. CASE Dropped(t)
  BY <1>31, ConstantsOK
  DEF Dropped, FreeStream, Goto, NoWork, Tidy, Inv, Typed, StepTyped, DataTyped,
      OwnStream, WorkSteps
<1> QED
  BY <1>1, <1>2, <1>3, <1>4, <1>5, <1>6, <1>7, <1>8, <1>9, <1>10, <1>11, <1>12,
     <1>13, <1>14, <1>15, <1>16, <1>17, <1>18, <1>19, <1>20, <1>21, <1>22,
     <1>23, <1>24, <1>25, <1>26, <1>27, <1>28, <1>29, <1>30, <1>31 DEF OwnAction

\* Only two steps change who is in charge.
LEMMA ChargeSelf ==
    ASSUME Inv, NEW t \in Streams, OwnAction(t), ~Xchg(t), ~LeaveQueue(t)
    PROVE  UNCHANGED dequeuing /\ \A s \in Servers : InCharge(t, s)' <=> InCharge(t, s)
<1>1. CASE NewStream(t)
  BY <1>1, ConstantsOK
  DEF NewStream, Balance, Goto, InCharge, Inv, Typed, StepTyped, DataTyped,
      OwnStream, WorkSteps
<1>2. CASE AssignServer(t)
  BY <1>2, ConstantsOK
  DEF AssignServer, Balance, Goto, InCharge, Inv, Typed, StepTyped, DataTyped,
      OwnStream, WorkSteps
<1>3. CASE LookUpServer(t)
  BY <1>3, ConstantsOK
  DEF LookUpServer, Goto, InCharge, Inv, Typed, StepTyped, DataTyped, OwnStream,
      WorkSteps
<1>4. CASE CheckRoom(t)
  BY <1>4, ConstantsOK
  DEF CheckRoom, Goto, InCharge, Inv, Typed, StepTyped, DataTyped, OwnStream,
      WorkSteps
<1>5. CASE TakeSlot(t)
  BY <1>5, ConstantsOK
  DEF TakeSlot, Goto, InCharge, Inv, Typed, StepTyped, DataTyped, OwnStream,
      WorkSteps
<1>6. CASE SlotTaken(t)
  BY <1>6, ConstantsOK
  DEF SlotTaken, Goto, InCharge, Inv, Typed, StepTyped, DataTyped, OwnStream,
      WorkSteps
<1>7. CASE PendconnAdd(t)
  BY <1>7, ConstantsOK
  DEF PendconnAdd, Goto, InCharge, Inv, Typed, StepTyped, DataTyped, OwnStream,
      WorkSteps
<1>8. CASE PendconnInsert(t)
  BY <1>8, ConstantsOK
  DEF PendconnInsert, Goto, InCharge, Inv, Typed, StepTyped, DataTyped,
      OwnStream, WorkSteps
<1>9. CASE MustTryAgain(t)
  BY <1>9, ConstantsOK
  DEF MustTryAgain, Goto, InCharge, Inv, Typed, StepTyped, DataTyped, OwnStream,
      WorkSteps
<1>10. CASE Unqueue(t)
  BY <1>10, ConstantsOK
  DEF Unqueue, FreeEntry, Goto, InCharge, Inv, Typed, StepTyped, DataTyped,
      OwnStream, WorkSteps
<1>11. CASE WakeUp(t)
  BY <1>11, ConstantsOK
  DEF WakeUp, LookAtEntry, Goto, InCharge, Inv, Typed, StepTyped, DataTyped,
      OwnStream, WorkSteps
<1>12. CASE GiveUp(t)
  BY <1>12, ConstantsOK
  DEF GiveUp, LookAtEntry, Goto, InCharge, Inv, Typed, StepTyped, DataTyped,
      OwnStream, WorkSteps
<1>13. CASE Dequeued(t)
  BY <1>13, ConstantsOK
  DEF Dequeued, FreeEntry, Goto, InCharge, Inv, Typed, StepTyped, DataTyped,
      OwnStream, WorkSteps
<1>14. CASE PendconnUnlink(t)
  BY <1>14, ConstantsOK
  DEF PendconnUnlink, Goto, InCharge, Inv, Typed, StepTyped, DataTyped,
      OwnStream, WorkSteps
<1>15. CASE Unlinked(t)
  BY <1>15, ConstantsOK
  DEF Unlinked, Goto, InCharge, Inv, Typed, StepTyped, DataTyped, OwnStream,
      WorkSteps
<1>16. CASE Connect(t)
  BY <1>16, ConstantsOK
  DEF Connect, Goto, InCharge, Inv, Typed, StepTyped, DataTyped, OwnStream,
      WorkSteps
<1>17. CASE Disconnect(t)
  BY <1>17, ConstantsOK
  DEF Disconnect, Goto, InCharge, Inv, Typed, StepTyped, DataTyped, OwnStream,
      WorkSteps
<1>18. CASE ReleaseSlot(t)
  BY <1>18, ConstantsOK
  DEF ReleaseSlot, Offer, Goto, InCharge, Inv, Typed, StepTyped, DataTyped,
      OwnStream, WorkSteps
<1>19. CASE SlotReleased(t)
  BY <1>19, ConstantsOK
  DEF SlotReleased, Offer, Goto, InCharge, Inv, Typed, StepTyped, DataTyped,
      OwnStream, WorkSteps
<1>20. CASE MayDequeue(t)
  BY <1>20, ConstantsOK
  DEF MayDequeue, Goto, InCharge, Inv, Typed, StepTyped, DataTyped, OwnStream,
      WorkSteps
<1>21. CASE Loop(t)
  BY <1>21, ConstantsOK
  DEF Loop, EndLoop, Goto, InCharge, Inv, Typed, StepTyped, DataTyped,
      OwnStream, WorkSteps
<1>22. CASE LockQueue(t)
  BY <1>22, ConstantsOK
  DEF LockQueue, Goto, InCharge, Inv, Typed, StepTyped, DataTyped, OwnStream,
      WorkSteps
<1>23. CASE Inner(t)
  BY <1>23, ConstantsOK
  DEF Inner, Goto, InCharge, Inv, Typed, StepTyped, DataTyped, OwnStream,
      WorkSteps
<1>24. CASE DecLength(t)
  BY <1>24, ConstantsOK
  DEF DecLength, Goto, InCharge, Inv, Typed, StepTyped, DataTyped, OwnStream,
      WorkSteps
<1>25. CASE IncServed(t)
  BY <1>25, ConstantsOK
  DEF IncServed, Goto, InCharge, Inv, Typed, StepTyped, DataTyped, OwnStream,
      WorkSteps
<1>26. CASE Tally(t)
  BY <1>26, ConstantsOK
  DEF Tally, Goto, InCharge, Inv, Typed, StepTyped, DataTyped, OwnStream,
      WorkSteps
<1>27. CASE Close(t)
  BY <1>27, ConstantsOK
  DEF Close, FreeEntry, Goto, InCharge, Inv, Typed, StepTyped, DataTyped,
      OwnStream, WorkSteps
<1>28. CASE Drop(t)
  BY <1>28, ConstantsOK
  DEF Drop, FreeStream, Goto, InCharge, Inv, Typed, StepTyped, DataTyped,
      OwnStream, WorkSteps
<1>29. CASE Dropped(t)
  BY <1>29, ConstantsOK
  DEF Dropped, FreeStream, Goto, InCharge, Inv, Typed, StepTyped, DataTyped,
      OwnStream, WorkSteps
<1> QED
  BY <1>1, <1>2, <1>3, <1>4, <1>5, <1>6, <1>7, <1>8, <1>9, <1>10, <1>11, <1>12,
     <1>13, <1>14, <1>15, <1>16, <1>17, <1>18, <1>19, <1>20, <1>21, <1>22,
     <1>23, <1>24, <1>25, <1>26, <1>27, <1>28, <1>29 DEF OwnAction

\* No stream forgets a wake-up before it has looked at its entry.
LEMMA HandedSelf ==
    ASSUME Inv, NEW t \in Streams, OwnAction(t)
    PROVE  Handed(t)' => Handed(t) /\ (woken[t] => woken'[t])
<1>1. CASE NewStream(t)
  BY <1>1, ConstantsOK
  DEF NewStream, Balance, Goto, NoWork, Handed, Queued, WorkSteps, Inv, Typed,
      StepTyped, DataTyped, OwnStream
<1>2. CASE AssignServer(t)
  BY <1>2, ConstantsOK
  DEF AssignServer, Balance, Goto, NoWork, Handed, Queued, WorkSteps, Inv,
      Typed, StepTyped, DataTyped, OwnStream
<1>3. CASE LookUpServer(t)
  BY <1>3, ConstantsOK
  DEF LookUpServer, Goto, NoWork, Handed, Queued, WorkSteps, Inv, Typed,
      StepTyped, DataTyped, OwnStream
<1>4. CASE CheckRoom(t)
  BY <1>4, ConstantsOK
  DEF CheckRoom, Goto, NoWork, Handed, Queued, WorkSteps, Inv, Typed, StepTyped,
      DataTyped, OwnStream
<1>5. CASE TakeSlot(t)
  BY <1>5, ConstantsOK
  DEF TakeSlot, Goto, NoWork, Handed, Queued, WorkSteps, Inv, Typed, StepTyped,
      DataTyped, OwnStream
<1>6. CASE SlotTaken(t)
  BY <1>6, ConstantsOK
  DEF SlotTaken, Goto, NoWork, Handed, Queued, WorkSteps, Inv, Typed, StepTyped,
      DataTyped, OwnStream
<1>7. CASE PendconnAdd(t)
  BY <1>7, ConstantsOK
  DEF PendconnAdd, Goto, NoWork, Handed, Queued, WorkSteps, Inv, Typed,
      StepTyped, DataTyped, OwnStream
<1>8. CASE PendconnInsert(t)
  <2>1. pend[t] \in Queues /\ pend'[t] = pend[t] /\ t \in tree'[pend[t]]
    BY <1>8, ConstantsOK
    DEF PendconnInsert, Inv, Typed, DataTyped, OwnStream, QueueOfFlags, Queues
  <2> QED
    BY <2>1 DEF Handed
<1>9. CASE MustTryAgain(t)
  BY <1>9, ConstantsOK
  DEF MustTryAgain, Goto, NoWork, Handed, Queued, WorkSteps, Inv, Typed,
      StepTyped, DataTyped, OwnStream
<1>10. CASE Unqueue(t)
  BY <1>10, ConstantsOK
  DEF Unqueue, FreeEntry, Goto, NoWork, Handed, Queued, WorkSteps, Inv, Typed,
      StepTyped, DataTyped, OwnStream
<1>11. CASE WakeUp(t)
  BY <1>11, ConstantsOK
  DEF WakeUp, LookAtEntry, Goto, NoWork, Handed, Queued, WorkSteps, Inv, Typed,
      StepTyped, DataTyped, OwnStream
<1>12. CASE GiveUp(t)
  BY <1>12, ConstantsOK
  DEF GiveUp, LookAtEntry, Goto, NoWork, Handed, Queued, WorkSteps, Inv, Typed,
      StepTyped, DataTyped, OwnStream
<1>13. CASE Dequeued(t)
  BY <1>13, ConstantsOK
  DEF Dequeued, FreeEntry, Goto, NoWork, Handed, Queued, WorkSteps, Inv, Typed,
      StepTyped, DataTyped, OwnStream
<1>14. CASE PendconnUnlink(t)
  BY <1>14, ConstantsOK
  DEF PendconnUnlink, Goto, NoWork, Handed, Queued, WorkSteps, Inv, Typed,
      StepTyped, DataTyped, OwnStream
<1>15. CASE Unlinked(t)
  BY <1>15, ConstantsOK
  DEF Unlinked, Goto, NoWork, Handed, Queued, WorkSteps, Inv, Typed, StepTyped,
      DataTyped, OwnStream
<1>16. CASE Connect(t)
  BY <1>16, ConstantsOK
  DEF Connect, Goto, NoWork, Handed, Queued, WorkSteps, Inv, Typed, StepTyped,
      DataTyped, OwnStream
<1>17. CASE Disconnect(t)
  BY <1>17, ConstantsOK
  DEF Disconnect, Goto, NoWork, Handed, Queued, WorkSteps, Inv, Typed,
      StepTyped, DataTyped, OwnStream
<1>18. CASE ReleaseSlot(t)
  BY <1>18, ConstantsOK
  DEF ReleaseSlot, Offer, Goto, NoWork, Handed, Queued, WorkSteps, Inv, Typed,
      StepTyped, DataTyped, OwnStream
<1>19. CASE SlotReleased(t)
  BY <1>19, ConstantsOK
  DEF SlotReleased, Offer, Goto, NoWork, Handed, Queued, WorkSteps, Inv, Typed,
      StepTyped, DataTyped, OwnStream
<1>20. CASE MayDequeue(t)
  <2>1. work'[t].back = work[t].back /\ pc'[t] \in {"loop", work[t].back}
    BY <1>20, ConstantsOK
    DEF MayDequeue, Goto, Inv, Typed, StepTyped, DataTyped, WorkRecords
  <2>2. pc[t] = "maydequeue" /\ work[t].back \in {"wait", "close", "drop"}
    BY <1>20 DEF MayDequeue, Inv, OwnStream, WorkSteps
  <2>3. Queued(t)' => Queued(t)
    BY <2>1, <2>2 DEF Queued, WorkSteps
  <2> QED
    BY <1>20, <2>2, <2>3 DEF MayDequeue, Handed
<1>21. CASE Loop(t)
  BY <1>21, ConstantsOK
  DEF Loop, EndLoop, Goto, NoWork, Handed, Queued, WorkSteps, Inv, Typed,
      StepTyped, DataTyped, OwnStream
<1>22. CASE Xchg(t)
  BY <1>22, ConstantsOK
  DEF Xchg, EndLoop, Goto, NoWork, Handed, Queued, WorkSteps, Inv, Typed,
      StepTyped, DataTyped, OwnStream
<1>23. CASE LockQueue(t)
  BY <1>23, ConstantsOK
  DEF LockQueue, Goto, NoWork, Handed, Queued, WorkSteps, Inv, Typed, StepTyped,
      DataTyped, OwnStream
<1>24. CASE Inner(t)
  BY <1>24, ConstantsOK
  DEF Inner, Goto, NoWork, Handed, Queued, WorkSteps, Inv, Typed, StepTyped,
      DataTyped, OwnStream
<1>25. CASE DecLength(t)
  BY <1>25, ConstantsOK
  DEF DecLength, Goto, NoWork, Handed, Queued, WorkSteps, Inv, Typed, StepTyped,
      DataTyped, OwnStream
<1>26. CASE IncServed(t)
  BY <1>26, ConstantsOK
  DEF IncServed, Goto, NoWork, Handed, Queued, WorkSteps, Inv, Typed, StepTyped,
      DataTyped, OwnStream
<1>27. CASE LeaveQueue(t)
  BY <1>27, ConstantsOK
  DEF LeaveQueue, Goto, NoWork, Handed, Queued, WorkSteps, Inv, Typed,
      StepTyped, DataTyped, OwnStream
<1>28. CASE Tally(t)
  BY <1>28, ConstantsOK
  DEF Tally, Goto, NoWork, Handed, Queued, WorkSteps, Inv, Typed, StepTyped,
      DataTyped, OwnStream
<1>29. CASE Close(t)
  BY <1>29, ConstantsOK
  DEF Close, FreeEntry, Goto, NoWork, Handed, Queued, WorkSteps, Inv, Typed,
      StepTyped, DataTyped, OwnStream
<1>30. CASE Drop(t)
  BY <1>30, ConstantsOK
  DEF Drop, FreeStream, Goto, NoWork, Handed, Queued, WorkSteps, Inv, Typed,
      StepTyped, DataTyped, OwnStream
<1>31. CASE Dropped(t)
  BY <1>31, ConstantsOK
  DEF Dropped, FreeStream, Goto, NoWork, Handed, Queued, WorkSteps, Inv, Typed,
      StepTyped, DataTyped, OwnStream
<1> QED
  BY <1>1, <1>2, <1>3, <1>4, <1>5, <1>6, <1>7, <1>8, <1>9, <1>10, <1>11, <1>12,
     <1>13, <1>14, <1>15, <1>16, <1>17, <1>18, <1>19, <1>20, <1>21, <1>22,
     <1>23, <1>24, <1>25, <1>26, <1>27, <1>28, <1>29, <1>30, <1>31 DEF OwnAction

\* So the step keeps everybody tidy.
LEMMA TidyOwn ==
    ASSUME Inv, \A u \in Streams : Tidy(u), NEW t \in Streams, OwnAction(t)
    PROVE  \A u \in Streams : Tidy(u)'
<1>1. OthersKept(t) /\ OthersStay(t)
  BY OwnFrame
<1>2. Tidy(t)' /\ pendTarget'[t] \in {pendTarget[t], None}
  BY TidySelf
<1> SUFFICES ASSUME NEW u \in Streams \ {t} PROVE Tidy(u)'
  BY <1>2
<1>3. /\ pc'[u] = pc[u] /\ work'[u] = work[u] /\ currSess'[u] = currSess[u]
      /\ pendTarget'[u] = pendTarget[u]
      /\ \A q \in Queues : u \in tree'[q] <=> u \in tree[q]
  BY <1>1 DEF OthersKept, OthersStay
<1>4. pc[u] = "give" => pendTarget'[work[u].pick] = None
  <2> SUFFICES ASSUME pc[u] = "give" PROVE pendTarget'[work[u].pick] = None
    OBVIOUS
  <2>1. work[u].pick \in Streams /\ pendTarget[work[u].pick] = None
    BY DEF Tidy, Inv, Picked, Typed, DataTyped
  <2> QED
    BY <1>1, <1>2, <2>1 DEF OthersKept
<1> QED
  BY <1>3, <1>4 DEF Tidy

\* The exchange on dequeuing, and its release, move the charge.
LEMMA ChargedOwn ==
    ASSUME Inv, Charged, NEW t \in Streams, OwnAction(t)
    PROVE  Charged'
<1>1. \A u \in Streams \ {t}, s \in Servers : InCharge(u, s)' <=> InCharge(u, s)
  BY OwnFrame DEF OthersKept, OthersStay, InCharge
<1>2. CASE Xchg(t)
  <2>1. /\ pc[t] = "xchg" /\ target[t] \in Servers
        /\ \A s \in Servers : ~ InCharge(t, s)
    BY <1>2 DEF Xchg, Inv, OwnStream, WorkSteps, InCharge
  <2>2. /\ \A s \in Servers \ {target[t]} : dequeuing'[s] = dequeuing[s]
        /\ dequeuing'[target[t]]
    BY <1>2, <2>1 DEF Xchg, Inv, Typed, DataTyped
  <2>3. CASE dequeuing[target[t]]
    <3>1. pc'[t] \in {"tally", "wait", "close", "drop"}
      BY <1>2, <2>3 DEF Xchg, EndLoop, Goto, Inv, OwnStream, WorkSteps, Typed, StepTyped
    <3>2. \A s \in Servers : ~ InCharge(t, s)'
      BY <3>1 DEF InCharge
    <3> QED
      BY <1>1, <2>1, <2>2, <2>3, <3>2 DEF Charged
  <2>4. CASE ~ dequeuing[target[t]]
    <3>1. \A s \in Servers : InCharge(t, s)' <=> s = target[t]
      BY <1>2, <2>4 DEF Xchg, Goto, InCharge, Inv, Typed, StepTyped
    <3> QED
      BY <1>1, <2>1, <2>2, <2>4, <3>1 DEF Charged
  <2> QED
    BY <2>3, <2>4
<1>3. CASE LeaveQueue(t)
  <2>1. /\ target[t] \in Servers
        /\ \A s \in Servers : InCharge(t, s) <=> s = target[t]
        /\ \A s \in Servers : ~ InCharge(t, s)'
    BY <1>3 DEF LeaveQueue, Goto, Inv, OwnStream, WorkSteps, InCharge, Typed, StepTyped
  <2>2. /\ \A s \in Servers \ {target[t]} : dequeuing'[s] = dequeuing[s]
        /\ ~ dequeuing'[target[t]]
    BY <1>3, <2>1 DEF LeaveQueue, Inv, Typed, DataTyped
  <2> QED
    BY <1>1, <2>1, <2>2 DEF Charged
<1>4. CASE ~ Xchg(t) /\ ~ LeaveQueue(t)
  <2>1. UNCHANGED dequeuing /\ \A s \in Servers : InCharge(t, s)' <=> InCharge(t, s)
    BY <1>4, ChargeSelf
  <2> QED
    BY <1>1, <2>1 DEF Charged
<1> QED
  BY <1>2, <1>3, <1>4

\* A stream wakes up for its own entry only.
LEMMA InformedOwn ==
    ASSUME Inv, Informed, NEW t \in Streams, OwnAction(t)
    PROVE  Informed'
<1>1. OthersKept(t) /\ OthersStay(t)
  BY OwnFrame
<1>2. \A h \in Streams : pc[h] = "give" => pc'[h] = "give" /\ work'[h] = work[h]
  <2>1. pc[t] # "give"
    BY DEF OwnAction, NewStream, AssignServer, LookUpServer, CheckRoom, TakeSlot,
        SlotTaken, PendconnAdd, PendconnInsert, MustTryAgain, Unqueue, WakeUp, GiveUp,
        LookAtEntry, Dequeued, PendconnUnlink, Unlinked, Connect, Disconnect,
        ReleaseSlot, SlotReleased, MayDequeue, Loop, Xchg, LockQueue, Inner,
        DecLength, IncServed, LeaveQueue, Tally, Close, Drop, Dropped
  <2> QED
    BY <1>1, <2>1 DEF OthersKept, OthersStay
<1>3. ASSUME NEW u \in Streams, Handed(u)'
      PROVE  Handed(u) /\ (woken[u] => woken'[u])
  <2>1. CASE u = t
    BY <1>3, <2>1, HandedSelf
  <2>2. CASE u # t
    <3>1. /\ pc'[u] = pc[u] /\ work'[u] = work[u] /\ pend'[u] = pend[u]
          /\ woken'[u] = woken[u]
          /\ \A q \in Queues : u \in tree'[q] <=> u \in tree[q]
      BY <1>1, <2>2 DEF OthersKept, OthersStay
    <3>2. Queued(u) /\ pc[u] # "dequeued"
      BY <1>3, <3>1 DEF Handed, Queued
    <3>3. pend[u] \in Queues
      BY <3>2, ConstantsOK DEF Inv, OwnStream, QueueOfFlags, Queues
    <3> QED
      BY <1>3, <3>1, <3>2, <3>3 DEF Handed
  <2> QED
    BY <2>1, <2>2
<1> QED
  BY <1>2, <1>3 DEF Informed

\* What the steps that write to another entry leave alone.
HandFrame(t) ==
    /\ \A u \in Streams \ {t} : pc'[u] = pc[u] /\ work'[u] = work[u]
    /\ pc'[Admin] = pc[Admin]
    /\ UNCHANGED <<usable, served, dequeuing, target, pend, currSess, missed>>
    /\ work'[t].back = work[t].back /\ work'[t].pxOk = work[t].pxOk
    /\ \A u \in Streams : Queued(u)' <=> Queued(u)
    /\ \A u \in Streams, s \in Servers : InCharge(u, s)' <=> InCharge(u, s)

\* The three ways out of pendconn_process_next_strm(): an entry of the server,
TookOwn(t, p) ==
    /\ p \in tree[target[t]] /\ p \in Streams /\ pend[p] = target[t]
    /\ srvConn[p] = None
    /\ pc'[t] = "dec" /\ work'[t].stop = work[t].stop
    /\ tree' = [tree EXCEPT ![target[t]] = @ \ {p}]
    /\ pendTarget' = [pendTarget EXCEPT ![p] = target[t]]
    /\ srvConn' = [srvConn EXCEPT ![p] = target[t]]
    /\ woken' = [woken EXCEPT ![p] = TRUE]

\* one of the proxy,
TookPx(t, p) ==
    /\ p \in tree[Px] /\ p \in Streams /\ pend[p] = Px
    /\ pc'[t] = "give" /\ work'[t].stop = work[t].stop /\ work'[t].pick = p
    /\ tree' = [tree EXCEPT ![Px] = @ \ {p}]
    /\ UNCHANGED <<pendTarget, srvConn, woken>>

\* or none.
TookNone(t) ==
    /\ length[target[t]] = 0 \/ tree[target[t]] = {}
    /\ work[t].pxOk => length[Px] = 0 \/ tree[Px] = {}
    /\ pc'[t] = "leave"
    /\ UNCHANGED <<tree, pendTarget, srvConn, woken>>

\* One of the three happens, and nothing else changes.
LEMMA ProcessNextOutcome ==
    ASSUME Inv, NEW t \in Streams, ProcessNext(t)
    PROVE  /\ pc[t] = "next" /\ target[t] \in Servers /\ HandFrame(t)
           /\ (\E p \in Streams : TookOwn(t, p) \/ TookPx(t, p)) \/ TookNone(t)
<1>1. pc[t] = "next" /\ target[t] \in Servers
  BY DEF ProcessNext, Inv, OwnStream, WorkSteps
<1>2. /\ UNCHANGED <<usable, served, dequeuing, target, pend, currSess, missed>>
      /\ \E to \in {"dec", "give", "leave"} : pc' = [pc EXCEPT ![t] = to]
  BY DEF ProcessNext, TakeOwn, TakePx, Goto
<1>3. /\ pc'[t] \in {"dec", "give", "leave"} /\ pc'[Admin] = pc[Admin]
      /\ \A u \in Streams \ {t} : pc'[u] = pc[u]
  BY <1>2, ConstantsOK DEF Inv, Typed, StepTyped
<1>4. \/ work' = [work EXCEPT ![t].from = target[t]]
      \/ \E p \in Streams : work' = [work EXCEPT ![t].from = Px, ![t].pick = p]
      \/ work' = [work EXCEPT ![t].stop = TRUE]
  BY DEF ProcessNext, TakeOwn, TakePx, Inv, Typed, DataTyped, Queues
<1>5. /\ \A u \in Streams \ {t} : work'[u] = work[u]
      /\ work'[t].back = work[t].back /\ work'[t].pxOk = work[t].pxOk
  BY <1>4 DEF Inv, Typed, DataTyped, WorkRecords
<1>6. \A u \in Streams : Queued(u)' <=> Queued(u)
  BY <1>1, <1>3, <1>5 DEF Queued, WorkSteps
<1>7. \A u \in Streams, s \in Servers : InCharge(u, s)' <=> InCharge(u, s)
  BY <1>1, <1>2, <1>3 DEF InCharge
<1>8. ASSUME NEW p \in tree[target[t]], TakeOwn(t, p) PROVE TookOwn(t, p)
  <2>1. p \in Streams /\ pend[p] = target[t] /\ srvConn[p] = None
    BY <1>1 DEF Inv, Typed, DataTyped, Linked, Queues
  <2>2. pc'[t] = "dec" /\ work'[t].stop = work[t].stop
    BY <1>8 DEF TakeOwn, Goto, Inv, Typed, StepTyped, DataTyped, WorkRecords
  <2> QED
    BY <1>8, <2>1, <2>2 DEF TakeOwn, TookOwn
<1>9. ASSUME NEW p \in tree[Px], TakePx(t, p) PROVE TookPx(t, p)
  <2>1. p \in Streams /\ pend[p] = Px
    BY DEF Inv, Typed, DataTyped, Linked, Queues
  <2>2. pc'[t] = "give" /\ work'[t].stop = work[t].stop /\ work'[t].pick = p
    BY <1>9 DEF TakePx, Goto, Inv, Typed, StepTyped, DataTyped, WorkRecords
  <2> QED
    BY <1>9, <2>1, <2>2 DEF TakePx, TookPx
<1>10. \/ \E p \in tree[target[t]] : TakeOwn(t, p)
       \/ \E p \in tree[Px] : TakePx(t, p)
       \/ TookNone(t)
  <2>1. ASSUME Goto(t, "leave") PROVE pc'[t] = "leave"
    BY <2>1 DEF Goto, Inv, Typed, StepTyped
  <2> QED
    BY <2>1 DEF ProcessNext, TookNone
<1> QED
  BY <1>1, <1>2, <1>3, <1>5, <1>6, <1>7, <1>8, <1>9, <1>10
  DEF HandFrame, TookOwn, TookPx

\* The entry that is given away.
Gave(t, p) ==
    /\ pc[t] = "give" /\ p = work[t].pick /\ p \notin tree[Px] /\ pend[p] = Px
    /\ srvConn[p] = None /\ pendTarget[p] = None
    /\ \A v \in Streams : pc[v] = "give" /\ work[v].pick = p => v = t
    /\ pc'[t] = "dec" /\ UNCHANGED <<tree, work>>
    /\ pendTarget' = [pendTarget EXCEPT ![p] = target[t]]
    /\ srvConn' = [srvConn EXCEPT ![p] = target[t]]
    /\ woken' = [woken EXCEPT ![p] = TRUE]

\* The entry that was picked still waits, without a server.
LEMMA GiveOutcome ==
    ASSUME Inv, NEW t \in Streams, Tidy(t), Give(t)
    PROVE  HandFrame(t) /\ target[t] \in Servers /\ \E p \in Streams : Gave(t, p)
<1>1. PICK p \in Streams : p = work[t].pick
  BY DEF Give, Inv, Picked, Typed, StepTyped, DataTyped
<1>2. /\ pc[t] = "give" /\ p \notin tree[Px] /\ pend[p] = Px
      /\ srvConn[p] = None /\ pendTarget[p] = None /\ target[t] \in Servers
      /\ \A v \in Streams : pc[v] = "give" /\ work[v].pick = p => v = t
  BY <1>1 DEF Give, Inv, Picked, OwnStream, WorkSteps, Tidy
<1>3. /\ pendTarget' = [pendTarget EXCEPT ![p] = target[t]]
      /\ srvConn' = [srvConn EXCEPT ![p] = target[t]]
      /\ woken' = [woken EXCEPT ![p] = TRUE]
      /\ pc' = [pc EXCEPT ![t] = "dec"]
      /\ UNCHANGED <<tree, usable, served, dequeuing, target, pend, currSess, missed,
                     work>>
  BY <1>1 DEF Give, Goto
<1>4. /\ pc'[t] = "dec" /\ pc'[Admin] = pc[Admin]
      /\ \A u \in Streams \ {t} : pc'[u] = pc[u]
  BY <1>3, ConstantsOK DEF Inv, Typed, StepTyped
<1>5. \A u \in Streams : Queued(u)' <=> Queued(u)
  BY <1>2, <1>3, <1>4 DEF Queued, WorkSteps
<1>6. \A u \in Streams, s \in Servers : InCharge(u, s)' <=> InCharge(u, s)
  BY <1>2, <1>3, <1>4 DEF InCharge
<1>7. Gave(t, p)
  BY <1>1, <1>2, <1>3, <1>4 DEF Gave
<1> QED
  BY <1>2, <1>3, <1>4, <1>5, <1>6, <1>7 DEF HandFrame

\* Handing out does not change who is in charge.
LEMMA ChargedHand ==
    ASSUME Charged, NEW t \in Streams, HandFrame(t)
    PROVE  Charged'
BY DEF Charged, HandFrame

\* What a thread hands out was nobody's before.
LEMMA TidyProcessNext ==
    ASSUME Inv, \A u \in Streams : Tidy(u), NEW t \in Streams, ProcessNext(t)
    PROVE  \A u \in Streams : Tidy(u)'
<1>1. pc[t] = "next" /\ target[t] \in Servers /\ HandFrame(t)
  BY ProcessNextOutcome
<1> SUFFICES ASSUME NEW u \in Streams PROVE Tidy(u)'
  OBVIOUS
<1>2. CASE TookNone(t)
  <2>1. CASE u = t
    BY <1>1, <1>2, <2>1 DEF Tidy, HandFrame, TookNone
  <2>2. CASE u # t
    BY <1>1, <1>2, <2>2 DEF Tidy, HandFrame, TookNone
  <2> QED
    BY <2>1, <2>2
<1>3. ASSUME NEW p \in Streams, TookPx(t, p) PROVE Tidy(u)'
  <2>1. \A q \in Queues : tree'[q] \subseteq tree[q]
    BY <1>3 DEF TookPx, Inv, Typed, DataTyped
  <2>2. pendTarget[p] = None
    BY <1>3 DEF Tidy, TookPx, Queues
  <2>3. CASE u = t
    BY <1>1, <1>3, <2>1, <2>2, <2>3 DEF Tidy, HandFrame, TookPx
  <2>4. CASE u # t
    BY <1>1, <1>3, <2>1, <2>4 DEF Tidy, HandFrame, TookPx
  <2> QED
    BY <2>3, <2>4
<1>4. ASSUME NEW p \in Streams, TookOwn(t, p) PROVE Tidy(u)'
  <2>1. \A q \in Queues : tree'[q] \subseteq tree[q] /\ p \notin tree'[q]
    BY <1>1, <1>4 DEF TookOwn, Inv, Typed, DataTyped, Linked, Queues
  <2>2. \A v \in Streams \ {p} : pendTarget'[v] = pendTarget[v]
    BY <1>4 DEF TookOwn, Inv, Typed, DataTyped
  <2>3. \A q \in Queues : u \in tree'[q] => pendTarget'[u] = None
    BY <2>1, <2>2 DEF Tidy
  <2>4. CASE u = t
    BY <1>1, <1>4, <2>3, <2>4 DEF Tidy, HandFrame, TookOwn
  <2>5. CASE u # t
    <3>1. pc'[u] = "give" => work[u].pick \in Streams \ {p} /\ work'[u] = work[u]
      BY <1>1, <1>4, <2>5, ConstantsOK
      DEF HandFrame, TookOwn, Inv, Picked, Typed, DataTyped
    <3>2. pc'[u] = "give" => pendTarget'[work'[u].pick] = None
      BY <1>1, <2>2, <2>5, <3>1 DEF Tidy, HandFrame
    <3> QED
      BY <1>1, <2>3, <2>5, <3>2 DEF Tidy, HandFrame
  <2> QED
    BY <2>4, <2>5
<1> QED
  BY <1>2, <1>3, <1>4, ProcessNextOutcome

\* The entry that gets its server is in no queue and in no other hands.
LEMMA TidyGive ==
    ASSUME Inv, \A u \in Streams : Tidy(u), NEW t \in Streams, Give(t)
    PROVE  \A u \in Streams : Tidy(u)'
<1>1. PICK p \in Streams : Gave(t, p)
  BY GiveOutcome
<1>2. HandFrame(t)
  BY GiveOutcome
<1> SUFFICES ASSUME NEW u \in Streams PROVE Tidy(u)'
  OBVIOUS
<1>3. \A q \in Queues : p \notin tree[q]
  BY <1>1 DEF Gave, Inv, Linked
<1>4. \A v \in Streams \ {p} : pendTarget'[v] = pendTarget[v]
  BY <1>1 DEF Gave, Inv, Typed, DataTyped
<1>5. \A q \in Queues : u \in tree'[q] => pendTarget'[u] = None
  BY <1>1, <1>3, <1>4 DEF Tidy, Gave
<1>6. CASE u = t
  BY <1>1, <1>2, <1>5, <1>6 DEF Tidy, HandFrame, Gave
<1>7. CASE u # t
  <2>1. pc'[u] = "give" => pc[u] = "give" /\ work[u].pick \in Streams \ {p}
    BY <1>1, <1>2, <1>7 DEF HandFrame, Gave, Inv, Picked, Typed, DataTyped
  <2>2. pc'[u] = "give" => pendTarget'[work'[u].pick] = None
    BY <1>1, <1>4, <2>1 DEF Tidy, Gave
  <2> QED
    BY <1>1, <1>2, <1>5, <1>7, <2>2 DEF Tidy, HandFrame, Gave
<1> QED
  BY <1>6, <1>7

\* Whoever loses his place in a queue is woken up.
LEMMA InformedProcessNext ==
    ASSUME Inv, Informed, NEW t \in Streams, ProcessNext(t)
    PROVE  Informed'
<1>1. pc[t] = "next" /\ target[t] \in Servers /\ HandFrame(t)
  BY ProcessNextOutcome
<1>2. \A h \in Streams : pc[h] = "give" => pc'[h] = "give" /\ work'[h] = work[h]
  BY <1>1 DEF HandFrame
<1> SUFFICES ASSUME NEW u \in Streams, Handed(u)'
             PROVE  woken'[u] \/ \E h \in Streams : pc'[h] = "give" /\ work'[h].pick = u
  BY DEF Informed
<1>3. Queued(u) /\ pend'[u] = pend[u] /\ pend[u] \in Queues /\ u \notin tree'[pend[u]]
  BY <1>1, ConstantsOK DEF Handed, HandFrame, Inv, OwnStream, QueueOfFlags, Queues
<1>4. pc[u] # "dequeued"
  BY <1>1 DEF Handed, HandFrame
<1>5. ASSUME u \notin tree[pend[u]], woken[u] => woken'[u]
      PROVE  woken'[u] \/ \E h \in Streams : pc'[h] = "give" /\ work'[h].pick = u
  BY <1>2, <1>3, <1>4, <1>5 DEF Handed, Informed
<1>6. CASE TookNone(t)
  BY <1>3, <1>5, <1>6 DEF TookNone
<1>7. ASSUME NEW p \in Streams, TookPx(t, p)
      PROVE  woken'[u] \/ \E h \in Streams : pc'[h] = "give" /\ work'[h].pick = u
  <2>1. u # p => u \notin tree[pend[u]]
    BY <1>3, <1>7 DEF TookPx, Inv, Typed, DataTyped
  <2> QED
    BY <1>5, <1>7, <2>1 DEF TookPx
<1>8. ASSUME NEW p \in Streams, TookOwn(t, p)
      PROVE  woken'[u] \/ \E h \in Streams : pc'[h] = "give" /\ work'[h].pick = u
  <2>1. u # p => u \notin tree[pend[u]] /\ woken'[u] = woken[u]
    BY <1>1, <1>3, <1>8 DEF TookOwn, Inv, Typed, DataTyped
  <2>2. woken'[p]
    BY <1>8 DEF TookOwn, Inv, Typed, DataTyped
  <2> QED
    BY <1>5, <2>1, <2>2
<1> QED
  BY <1>6, <1>7, <1>8, ProcessNextOutcome

\* The thread that has the entry wakes its stream up.
LEMMA InformedGive ==
    ASSUME Inv, Informed, NEW t \in Streams, Tidy(t), Give(t)
    PROVE  Informed'
<1>1. PICK p \in Streams : Gave(t, p)
  BY GiveOutcome
<1>2. HandFrame(t)
  BY GiveOutcome
<1> SUFFICES ASSUME NEW u \in Streams, Handed(u)'
             PROVE  woken'[u] \/ \E h \in Streams : pc'[h] = "give" /\ work'[h].pick = u
  BY DEF Informed
<1>3. woken'[p] /\ (u # p => woken'[u] = woken[u])
  BY <1>1 DEF Gave, Inv, Typed, DataTyped
<1>4. Queued(u) /\ pc[u] # "dequeued" /\ u \notin tree[pend[u]]
  BY <1>1, <1>2 DEF Handed, HandFrame, Gave
<1>5. ASSUME u # p, NEW h \in Streams, pc[h] = "give", work[h].pick = u
      PROVE  pc'[h] = "give" /\ work'[h].pick = u
  BY <1>1, <1>2, <1>5 DEF HandFrame, Gave
<1> QED
  BY <1>3, <1>4, <1>5 DEF Handed, Informed

\* What the thread that changes servers leaves of the streams.
AdminFrame ==
    /\ \A u \in Streams : pc'[u] = pc[u]
    /\ UNCHANGED <<work, target, srvConn, pend, currSess, served, dequeuing, missed>>
    /\ \A q \in Queues : tree'[q] \subseteq tree[q]
    /\ \A u \in Streams, q \in Queues : u \in tree[q] /\ u \notin tree'[q] => woken'[u]
    /\ \A u \in Streams : woken[u] => woken'[u]
    /\ \A u \in Streams :
          pendTarget'[u] = pendTarget[u] \/ (u \in tree[Px] /\ u \notin tree'[Px])

\* A queue loses the entries W and their streams are woken up.
LEMMA TakeOutFrame ==
    ASSUME Inv, NEW q \in Queues, NEW W \in SUBSET tree[q], TakeOut(q, W)
    PROVE  /\ \A r \in Queues : tree'[r] \subseteq tree[r]
           /\ \A u \in Streams, r \in Queues :
                 u \in tree[r] /\ u \notin tree'[r] => woken'[u]
           /\ \A u \in Streams : woken[u] => woken'[u]
           /\ tree'[q] = tree[q] \ W
BY DEF TakeOut, Inv, Typed, DataTyped

\* All steps of that thread are of this kind.
LEMMA AdminActs ==
    ASSUME Inv, AdminStep \/ \E s \in Servers : SetMaint(s) \/ SetReady(s)
    PROVE  AdminFrame
<1>1. /\ \E to : pc' = [pc EXCEPT ![Admin] = to]
      /\ UNCHANGED <<work, target, srvConn, pend, currSess, served, dequeuing, missed>>
  BY DEF AdminStep, SetMaint, SetReady, Redistribute, Counted, RedistributePx, Grab,
      CountedPx, Goto
<1>2. \A u \in Streams : pc'[u] = pc[u]
  BY <1>1, ConstantsOK DEF Inv, Typed, StepTyped
<1>3. CASE UNCHANGED <<tree, woken, pendTarget>>
  BY <1>1, <1>2, <1>3 DEF AdminFrame
<1>4. CASE Redistribute
  <2>1. admin.srv \in Queues
    BY <1>4 DEF Redistribute, Inv, AdminOK, Queues
  <2> QED
    BY <1>1, <1>2, <1>4, <2>1, TakeOutFrame DEF Redistribute, AdminFrame
<1>5. CASE RedistributePx
  <2>1. Px \in Queues
    BY DEF Queues
  <2> QED
    BY <1>1, <1>2, <1>5, <2>1, TakeOutFrame DEF RedistributePx, AdminFrame
<1>6. CASE Grab
  <2>1. PICK W \in SUBSET tree[Px] :
          /\ TakeOut(Px, W)
          /\ pendTarget' = [t \in Streams |-> IF t \in W THEN admin.srv
                                                         ELSE pendTarget[t]]
    BY <1>6 DEF Grab
  <2>2. Px \in Queues
    BY DEF Queues
  <2>3. \A u \in Streams :
          pendTarget'[u] = pendTarget[u] \/ (u \in tree[Px] /\ u \notin tree'[Px])
    BY <2>1, <2>2, TakeOutFrame
  <2> QED
    BY <1>1, <1>2, <2>1, <2>2, <2>3, TakeOutFrame DEF AdminFrame
<1> QED
  BY <1>3, <1>4, <1>5, <1>6 DEF AdminStep, Counted, CountedPx, SetMaint, SetReady

\* It gives a server to entries that it unlinks.
LEMMA TidyAdmin ==
    ASSUME Inv, \A u \in Streams : Tidy(u), AdminFrame
    PROVE  \A u \in Streams : Tidy(u)'
<1> SUFFICES ASSUME NEW u \in Streams PROVE Tidy(u)'
  OBVIOUS
<1>1. \A v \in Streams : v \notin tree[Px] => pendTarget'[v] = pendTarget[v]
  BY DEF AdminFrame
<1>2. \A q \in Queues : u \in tree'[q] => pendTarget'[u] = None
  <2> SUFFICES ASSUME NEW q \in Queues, u \in tree'[q] PROVE pendTarget'[u] = None
    OBVIOUS
  <2>1. u \in tree[q] /\ pend[u] = q
    BY DEF AdminFrame, Inv, Linked
  <2>2. u \in tree[Px] => u \in tree'[Px]
    BY <2>1 DEF Inv, Linked, Queues
  <2> QED
    BY <2>1, <2>2 DEF AdminFrame, Tidy
<1>3. pc'[u] = "give" => pendTarget'[work'[u].pick] = None
  BY <1>1 DEF AdminFrame, Tidy, Inv, Picked, Typed, DataTyped
<1> QED
  BY <1>2, <1>3 DEF Tidy, AdminFrame

\* It does not touch dequeuing.
LEMMA ChargedAdmin ==
    ASSUME Charged, AdminFrame
    PROVE  Charged'
<1>1. \A u \in Streams, s \in Servers : InCharge(u, s)' <=> InCharge(u, s)
  BY DEF AdminFrame, InCharge
<1> QED
  BY <1>1 DEF Charged, AdminFrame

\* It wakes up everybody that it unlinks.
LEMMA InformedAdmin ==
    ASSUME Inv, Informed, AdminFrame
    PROVE  Informed'
<1> SUFFICES ASSUME NEW u \in Streams, Handed(u)'
             PROVE  woken'[u] \/ \E h \in Streams : pc'[h] = "give" /\ work'[h].pick = u
  BY DEF Informed
<1>1. Queued(u) /\ pc[u] # "dequeued" /\ pend'[u] = pend[u] /\ u \notin tree'[pend[u]]
  BY DEF AdminFrame, Handed, Queued
<1>2. pend[u] \in Queues
  BY <1>1, ConstantsOK DEF Inv, OwnStream, QueueOfFlags, Queues
<1>3. CASE u \in tree[pend[u]]
  BY <1>1, <1>2, <1>3 DEF AdminFrame
<1>4. CASE u \notin tree[pend[u]]
  <2>1. woken[u] \/ \E h \in Streams : pc[h] = "give" /\ work[h].pick = u
    BY <1>1, <1>4 DEF Handed, Informed
  <2> QED
    BY <2>1 DEF AdminFrame
<1> QED
  BY <1>3, <1>4

\* The three facts that do not depend on who is on duty.
Calm == (\A u \in Streams : Tidy(u)) /\ Charged /\ Informed

\* At the start nobody works and nobody waits.
LEMMA CalmInit == Init => Calm
<1> SUFFICES ASSUME Init PROVE Calm
  OBVIOUS
<1>1. \A u \in Streams : pc[u] = "idle" /\ ~ currSess[u] /\ pendTarget[u] = None
  BY DEF Init
<1>2. \A u \in Streams : Tidy(u)
  BY <1>1 DEF Tidy
<1>3. Charged
  BY <1>1 DEF Charged, InCharge, Init
<1>4. Informed
  BY <1>1 DEF Informed, Handed, Queued, WorkSteps
<1> QED
  BY <1>2, <1>3, <1>4 DEF Calm

\* The steps of a stream's thread.
LEMMA StreamActs ==
    ASSUME NEW t \in Streams, NewStream(t) \/ GiveUp(t) \/ Step(t)
    PROVE  OwnAction(t) \/ ProcessNext(t) \/ Give(t)
BY DEF Step, OwnAction

\* Every step of every thread keeps the three.
LEMMA CalmStep == Inv /\ Calm /\ [Next]_vars => Calm'
<1> SUFFICES ASSUME Inv, Calm, [Next]_vars PROVE Calm'
  OBVIOUS
<1> USE DEF Calm
<1>1. ASSUME NEW t \in Streams, OwnAction(t) PROVE Calm'
  BY <1>1, TidyOwn, ChargedOwn, InformedOwn
<1>2. ASSUME NEW t \in Streams, ProcessNext(t) PROVE Calm'
  BY <1>2, TidyProcessNext, ChargedHand, InformedProcessNext, ProcessNextOutcome
<1>3. ASSUME NEW t \in Streams, Give(t) PROVE Calm'
  BY <1>3, TidyGive, ChargedHand, InformedGive, GiveOutcome
<1>4. CASE AdminFrame
  BY <1>4, TidyAdmin, ChargedAdmin, InformedAdmin
<1>5. CASE UNCHANGED vars
  <2>1. AdminFrame
    BY <1>5 DEF vars, AdminFrame
  <2> QED
    BY <1>4, <2>1
<1> QED
  BY <1>1, <1>2, <1>3, <1>4, <1>5, AdminActs, StreamActs DEF Next

\* Whoever has a slot, or was given a server, does not forget it.
LEMMA DutySelf ==
    ASSUME Inv, NEW t \in Streams, Tidy(t), OwnAction(t), ~missed',
           ~MayDequeue(t), ~Loop(t), ~Xchg(t), ~LeaveQueue(t),
           NEW s \in Servers, NEW px \in BOOLEAN, Duty(t, s, px)
    PROVE  Duty(t, s, px)'
<1>1. CASE NewStream(t)
  BY <1>1, ConstantsOK
  DEF NewStream, Balance, Goto, NoWork, Duty, Entitled, Looks, Tidy, Queued,
      WorkSteps, Inv, Typed, StepTyped, DataTyped, OwnStream, WorkRecords,
      Linked, Queues
<1>2. CASE AssignServer(t)
  BY <1>2, ConstantsOK
  DEF AssignServer, Balance, Goto, NoWork, Duty, Entitled, Looks, Tidy, Queued,
      WorkSteps, Inv, Typed, StepTyped, DataTyped, OwnStream, WorkRecords,
      Linked, Queues
<1>3. CASE LookUpServer(t)
  BY <1>3, ConstantsOK
  DEF LookUpServer, Goto, NoWork, Duty, Entitled, Looks, Tidy, Queued,
      WorkSteps, Inv, Typed, StepTyped, DataTyped, OwnStream, WorkRecords,
      Linked, Queues
<1>4. CASE CheckRoom(t)
  BY <1>4, ConstantsOK
  DEF CheckRoom, Goto, NoWork, Duty, Entitled, Looks, Tidy, Queued, WorkSteps,
      Inv, Typed, StepTyped, DataTyped, OwnStream, WorkRecords, Linked, Queues
<1>5. CASE TakeSlot(t)
  BY <1>5, ConstantsOK
  DEF TakeSlot, Goto, NoWork, Duty, Entitled, Looks, Tidy, Queued, WorkSteps,
      Inv, Typed, StepTyped, DataTyped, OwnStream, WorkRecords, Linked, Queues
<1>6. CASE SlotTaken(t)
  BY <1>6, ConstantsOK
  DEF SlotTaken, Goto, NoWork, Duty, Entitled, Looks, Tidy, Queued, WorkSteps,
      Inv, Typed, StepTyped, DataTyped, OwnStream, WorkRecords, Linked, Queues
<1>7. CASE PendconnAdd(t)
  BY <1>7, ConstantsOK
  DEF PendconnAdd, Goto, NoWork, Duty, Entitled, Looks, Tidy, Queued, WorkSteps,
      Inv, Typed, StepTyped, DataTyped, OwnStream, WorkRecords, Linked, Queues
<1>8. CASE PendconnInsert(t)
  BY <1>8, ConstantsOK
  DEF PendconnInsert, Goto, NoWork, Duty, Entitled, Looks, Tidy, Queued,
      WorkSteps, Inv, Typed, StepTyped, DataTyped, OwnStream, WorkRecords,
      Linked, Queues
<1>9. CASE MustTryAgain(t)
  BY <1>9, ConstantsOK
  DEF MustTryAgain, Goto, NoWork, Duty, Entitled, Looks, Tidy, Queued,
      WorkSteps, Inv, Typed, StepTyped, DataTyped, OwnStream, WorkRecords,
      Linked, Queues
<1>10. CASE Unqueue(t)
  BY <1>10, ConstantsOK
  DEF Unqueue, FreeEntry, Goto, NoWork, Duty, Entitled, Looks, Tidy, Queued,
      WorkSteps, Inv, Typed, StepTyped, DataTyped, OwnStream, WorkRecords,
      Linked, Queues
<1>11. CASE WakeUp(t)
  BY <1>11, ConstantsOK
  DEF WakeUp, LookAtEntry, Goto, NoWork, Duty, Entitled, Looks, Tidy, Queued,
      WorkSteps, Inv, Typed, StepTyped, DataTyped, OwnStream, WorkRecords,
      Linked, Queues
<1>12. CASE GiveUp(t)
  BY <1>12, ConstantsOK
  DEF GiveUp, LookAtEntry, Goto, NoWork, Duty, Entitled, Looks, Tidy, Queued,
      WorkSteps, Inv, Typed, StepTyped, DataTyped, OwnStream, WorkRecords,
      Linked, Queues
<1>13. CASE Dequeued(t)
  BY <1>13, ConstantsOK
  DEF Dequeued, FreeEntry, Goto, NoWork, Duty, Entitled, Looks, Tidy, Queued,
      WorkSteps, Inv, Typed, StepTyped, DataTyped, OwnStream, WorkRecords,
      Linked, Queues
<1>14. CASE PendconnUnlink(t)
  BY <1>14, ConstantsOK
  DEF PendconnUnlink, Goto, NoWork, Duty, Entitled, Looks, Tidy, Queued,
      WorkSteps, Inv, Typed, StepTyped, DataTyped, OwnStream, WorkRecords,
      Linked, Queues
<1>15. CASE Unlinked(t)
  BY <1>15, ConstantsOK
  DEF Unlinked, Goto, NoWork, Duty, Entitled, Looks, Tidy, Queued, WorkSteps,
      Inv, Typed, StepTyped, DataTyped, OwnStream, WorkRecords, Linked, Queues
<1>16. CASE Connect(t)
  BY <1>16, ConstantsOK
  DEF Connect, Goto, NoWork, Duty, Entitled, Looks, Tidy, Queued, WorkSteps,
      Inv, Typed, StepTyped, DataTyped, OwnStream, WorkRecords, Linked, Queues
<1>17. CASE Disconnect(t)
  BY <1>17, ConstantsOK
  DEF Disconnect, Goto, NoWork, Duty, Entitled, Looks, Tidy, Queued, WorkSteps,
      Inv, Typed, StepTyped, DataTyped, OwnStream, WorkRecords, Linked, Queues
<1>18. CASE ReleaseSlot(t)
  BY <1>18, ConstantsOK
  DEF ReleaseSlot, Offer, Goto, NoWork, Duty, Entitled, Looks, Tidy, Queued,
      WorkSteps, Inv, Typed, StepTyped, DataTyped, OwnStream, WorkRecords,
      Linked, Queues
<1>19. CASE SlotReleased(t)
  BY <1>19, ConstantsOK
  DEF SlotReleased, Offer, Goto, NoWork, Duty, Entitled, Looks, Tidy, Queued,
      WorkSteps, Inv, Typed, StepTyped, DataTyped, OwnStream, WorkRecords,
      Linked, Queues
<1>20. CASE LockQueue(t)
  BY <1>20, ConstantsOK
  DEF LockQueue, Goto, NoWork, Duty, Entitled, Looks, Tidy, Queued, WorkSteps,
      Inv, Typed, StepTyped, DataTyped, OwnStream, WorkRecords, Linked, Queues
<1>21. CASE Inner(t)
  BY <1>21, ConstantsOK
  DEF Inner, Goto, NoWork, Duty, Entitled, Looks, Tidy, Queued, WorkSteps, Inv,
      Typed, StepTyped, DataTyped, OwnStream, WorkRecords, Linked, Queues
<1>22. CASE DecLength(t)
  BY <1>22, ConstantsOK
  DEF DecLength, Goto, NoWork, Duty, Entitled, Looks, Tidy, Queued, WorkSteps,
      Inv, Typed, StepTyped, DataTyped, OwnStream, WorkRecords, Linked, Queues
<1>23. CASE IncServed(t)
  BY <1>23, ConstantsOK
  DEF IncServed, Goto, NoWork, Duty, Entitled, Looks, Tidy, Queued, WorkSteps,
      Inv, Typed, StepTyped, DataTyped, OwnStream, WorkRecords, Linked, Queues
<1>24. CASE Tally(t)
  BY <1>24, ConstantsOK
  DEF Tally, Goto, NoWork, Duty, Entitled, Looks, Tidy, Queued, WorkSteps, Inv,
      Typed, StepTyped, DataTyped, OwnStream, WorkRecords, Linked, Queues
<1>25. CASE Close(t)
  BY <1>25, ConstantsOK
  DEF Close, FreeEntry, Goto, NoWork, Duty, Entitled, Looks, Tidy, Queued,
      WorkSteps, Inv, Typed, StepTyped, DataTyped, OwnStream, WorkRecords,
      Linked, Queues
<1>26. CASE Drop(t)
  BY <1>26, ConstantsOK
  DEF Drop, FreeStream, Goto, NoWork, Duty, Entitled, Looks, Tidy, Queued,
      WorkSteps, Inv, Typed, StepTyped, DataTyped, OwnStream, WorkRecords,
      Linked, Queues
<1>27. CASE Dropped(t)
  BY <1>27, ConstantsOK
  DEF Dropped, FreeStream, Goto, NoWork, Duty, Entitled, Looks, Tidy, Queued,
      WorkSteps, Inv, Typed, StepTyped, DataTyped, OwnStream, WorkRecords,
      Linked, Queues
<1> QED
  BY <1>1, <1>2, <1>3, <1>4, <1>5, <1>6, <1>7, <1>8, <1>9, <1>10, <1>11, <1>12,
     <1>13, <1>14, <1>15, <1>16, <1>17, <1>18, <1>19, <1>20, <1>21, <1>22,
     <1>23, <1>24, <1>25, <1>26, <1>27 DEF OwnAction

\* Two steps give a slot back.
LEMMA ServedSelf ==
    ASSUME Inv, NEW t \in Streams, OwnAction(t), ~ReleaseSlot(t), ~Drop(t),
           NEW s \in Servers
    PROVE  served'[s] >= served[s]
<1>1. CASE NewStream(t)
  BY <1>1, ConstantsOK
  DEF NewStream, Balance, Inv, Typed, StepTyped, DataTyped, OwnStream, WorkSteps
<1>2. CASE AssignServer(t)
  BY <1>2, ConstantsOK
  DEF AssignServer, Balance, Inv, Typed, StepTyped, DataTyped, OwnStream,
      WorkSteps
<1>3. CASE LookUpServer(t)
  BY <1>3, ConstantsOK
  DEF LookUpServer, Inv, Typed, StepTyped, DataTyped, OwnStream, WorkSteps
<1>4. CASE CheckRoom(t)
  BY <1>4, ConstantsOK
  DEF CheckRoom, Inv, Typed, StepTyped, DataTyped, OwnStream, WorkSteps
<1>5. CASE TakeSlot(t)
  BY <1>5, ConstantsOK
  DEF TakeSlot, Inv, Typed, StepTyped, DataTyped, OwnStream, WorkSteps
<1>6. CASE SlotTaken(t)
  BY <1>6, ConstantsOK
  DEF SlotTaken, Inv, Typed, StepTyped, DataTyped, OwnStream, WorkSteps
<1>7. CASE PendconnAdd(t)
  BY <1>7, ConstantsOK
  DEF PendconnAdd, Inv, Typed, StepTyped, DataTyped, OwnStream, WorkSteps
<1>8. CASE PendconnInsert(t)
  BY <1>8, ConstantsOK
  DEF PendconnInsert, Inv, Typed, StepTyped, DataTyped, OwnStream, WorkSteps
<1>9. CASE MustTryAgain(t)
  BY <1>9, ConstantsOK
  DEF MustTryAgain, Inv, Typed, StepTyped, DataTyped, OwnStream, WorkSteps
<1>10. CASE Unqueue(t)
  BY <1>10, ConstantsOK
  DEF Unqueue, FreeEntry, Inv, Typed, StepTyped, DataTyped, OwnStream, WorkSteps
<1>11. CASE WakeUp(t)
  BY <1>11, ConstantsOK
  DEF WakeUp, LookAtEntry, Inv, Typed, StepTyped, DataTyped, OwnStream,
      WorkSteps
<1>12. CASE GiveUp(t)
  BY <1>12, ConstantsOK
  DEF GiveUp, LookAtEntry, Inv, Typed, StepTyped, DataTyped, OwnStream,
      WorkSteps
<1>13. CASE Dequeued(t)
  BY <1>13, ConstantsOK
  DEF Dequeued, FreeEntry, Inv, Typed, StepTyped, DataTyped, OwnStream,
      WorkSteps
<1>14. CASE PendconnUnlink(t)
  BY <1>14, ConstantsOK
  DEF PendconnUnlink, Inv, Typed, StepTyped, DataTyped, OwnStream, WorkSteps
<1>15. CASE Unlinked(t)
  BY <1>15, ConstantsOK
  DEF Unlinked, Inv, Typed, StepTyped, DataTyped, OwnStream, WorkSteps
<1>16. CASE Connect(t)
  BY <1>16, ConstantsOK
  DEF Connect, Inv, Typed, StepTyped, DataTyped, OwnStream, WorkSteps
<1>17. CASE Disconnect(t)
  BY <1>17, ConstantsOK
  DEF Disconnect, Inv, Typed, StepTyped, DataTyped, OwnStream, WorkSteps
<1>18. CASE SlotReleased(t)
  BY <1>18, ConstantsOK
  DEF SlotReleased, Offer, Inv, Typed, StepTyped, DataTyped, OwnStream,
      WorkSteps
<1>19. CASE MayDequeue(t)
  BY <1>19, ConstantsOK
  DEF MayDequeue, Inv, Typed, StepTyped, DataTyped, OwnStream, WorkSteps
<1>20. CASE Loop(t)
  BY <1>20, ConstantsOK
  DEF Loop, EndLoop, Inv, Typed, StepTyped, DataTyped, OwnStream, WorkSteps
<1>21. CASE Xchg(t)
  BY <1>21, ConstantsOK
  DEF Xchg, EndLoop, Inv, Typed, StepTyped, DataTyped, OwnStream, WorkSteps
<1>22. CASE LockQueue(t)
  BY <1>22, ConstantsOK
  DEF LockQueue, Inv, Typed, StepTyped, DataTyped, OwnStream, WorkSteps
<1>23. CASE Inner(t)
  BY <1>23, ConstantsOK
  DEF Inner, Inv, Typed, StepTyped, DataTyped, OwnStream, WorkSteps
<1>24. CASE DecLength(t)
  BY <1>24, ConstantsOK
  DEF DecLength, Inv, Typed, StepTyped, DataTyped, OwnStream, WorkSteps
<1>25. CASE IncServed(t)
  BY <1>25, ConstantsOK
  DEF IncServed, Inv, Typed, StepTyped, DataTyped, OwnStream, WorkSteps
<1>26. CASE LeaveQueue(t)
  BY <1>26, ConstantsOK
  DEF LeaveQueue, Inv, Typed, StepTyped, DataTyped, OwnStream, WorkSteps
<1>27. CASE Tally(t)
  BY <1>27, ConstantsOK
  DEF Tally, Inv, Typed, StepTyped, DataTyped, OwnStream, WorkSteps
<1>28. CASE Close(t)
  BY <1>28, ConstantsOK
  DEF Close, FreeEntry, Inv, Typed, StepTyped, DataTyped, OwnStream, WorkSteps
<1>29. CASE Dropped(t)
  BY <1>29, ConstantsOK
  DEF Dropped, FreeStream, Inv, Typed, StepTyped, DataTyped, OwnStream,
      WorkSteps
<1> QED
  BY <1>1, <1>2, <1>3, <1>4, <1>5, <1>6, <1>7, <1>8, <1>9, <1>10, <1>11, <1>12,
     <1>13, <1>14, <1>15, <1>16, <1>17, <1>18, <1>19, <1>20, <1>21, <1>22,
     <1>23, <1>24, <1>25, <1>26, <1>27, <1>28, <1>29 DEF OwnAction

\* One step links an entry.
LEMMA TreeSelf ==
    ASSUME Inv, NEW t \in Streams, OwnAction(t), ~PendconnInsert(t), NEW q \in Queues
    PROVE  tree'[q] \subseteq tree[q]
<1>1. CASE NewStream(t)
  BY <1>1, ConstantsOK
  DEF NewStream, Balance, Inv, Typed, StepTyped, DataTyped, OwnStream, WorkSteps
<1>2. CASE AssignServer(t)
  BY <1>2, ConstantsOK
  DEF AssignServer, Balance, Inv, Typed, StepTyped, DataTyped, OwnStream,
      WorkSteps
<1>3. CASE LookUpServer(t)
  BY <1>3, ConstantsOK
  DEF LookUpServer, Inv, Typed, StepTyped, DataTyped, OwnStream, WorkSteps
<1>4. CASE CheckRoom(t)
  BY <1>4, ConstantsOK
  DEF CheckRoom, Inv, Typed, StepTyped, DataTyped, OwnStream, WorkSteps
<1>5. CASE TakeSlot(t)
  BY <1>5, ConstantsOK
  DEF TakeSlot, Inv, Typed, StepTyped, DataTyped, OwnStream, WorkSteps
<1>6. CASE SlotTaken(t)
  BY <1>6, ConstantsOK
  DEF SlotTaken, Inv, Typed, StepTyped, DataTyped, OwnStream, WorkSteps
<1>7. CASE PendconnAdd(t)
  BY <1>7, ConstantsOK
  DEF PendconnAdd, Inv, Typed, StepTyped, DataTyped, OwnStream, WorkSteps
<1>8. CASE MustTryAgain(t)
  BY <1>8, ConstantsOK
  DEF MustTryAgain, Inv, Typed, StepTyped, DataTyped, OwnStream, WorkSteps
<1>9. CASE Unqueue(t)
  BY <1>9, ConstantsOK
  DEF Unqueue, FreeEntry, Inv, Typed, StepTyped, DataTyped, OwnStream, WorkSteps
<1>10. CASE WakeUp(t)
  BY <1>10, ConstantsOK
  DEF WakeUp, LookAtEntry, Inv, Typed, StepTyped, DataTyped, OwnStream,
      WorkSteps
<1>11. CASE GiveUp(t)
  BY <1>11, ConstantsOK
  DEF GiveUp, LookAtEntry, Inv, Typed, StepTyped, DataTyped, OwnStream,
      WorkSteps
<1>12. CASE Dequeued(t)
  BY <1>12, ConstantsOK
  DEF Dequeued, FreeEntry, Inv, Typed, StepTyped, DataTyped, OwnStream,
      WorkSteps
<1>13. CASE PendconnUnlink(t)
  BY <1>13, ConstantsOK
  DEF PendconnUnlink, Inv, Typed, StepTyped, DataTyped, OwnStream, WorkSteps
<1>14. CASE Unlinked(t)
  BY <1>14, ConstantsOK
  DEF Unlinked, Inv, Typed, StepTyped, DataTyped, OwnStream, WorkSteps
<1>15. CASE Connect(t)
  BY <1>15, ConstantsOK
  DEF Connect, Inv, Typed, StepTyped, DataTyped, OwnStream, WorkSteps
<1>16. CASE Disconnect(t)
  BY <1>16, ConstantsOK
  DEF Disconnect, Inv, Typed, StepTyped, DataTyped, OwnStream, WorkSteps
<1>17. CASE ReleaseSlot(t)
  BY <1>17, ConstantsOK
  DEF ReleaseSlot, Offer, Inv, Typed, StepTyped, DataTyped, OwnStream, WorkSteps
<1>18. CASE SlotReleased(t)
  BY <1>18, ConstantsOK
  DEF SlotReleased, Offer, Inv, Typed, StepTyped, DataTyped, OwnStream,
      WorkSteps
<1>19. CASE MayDequeue(t)
  BY <1>19, ConstantsOK
  DEF MayDequeue, Inv, Typed, StepTyped, DataTyped, OwnStream, WorkSteps
<1>20. CASE Loop(t)
  BY <1>20, ConstantsOK
  DEF Loop, EndLoop, Inv, Typed, StepTyped, DataTyped, OwnStream, WorkSteps
<1>21. CASE Xchg(t)
  BY <1>21, ConstantsOK
  DEF Xchg, EndLoop, Inv, Typed, StepTyped, DataTyped, OwnStream, WorkSteps
<1>22. CASE LockQueue(t)
  BY <1>22, ConstantsOK
  DEF LockQueue, Inv, Typed, StepTyped, DataTyped, OwnStream, WorkSteps
<1>23. CASE Inner(t)
  BY <1>23, ConstantsOK
  DEF Inner, Inv, Typed, StepTyped, DataTyped, OwnStream, WorkSteps
<1>24. CASE DecLength(t)
  BY <1>24, ConstantsOK
  DEF DecLength, Inv, Typed, StepTyped, DataTyped, OwnStream, WorkSteps
<1>25. CASE IncServed(t)
  BY <1>25, ConstantsOK
  DEF IncServed, Inv, Typed, StepTyped, DataTyped, OwnStream, WorkSteps
<1>26. CASE LeaveQueue(t)
  BY <1>26, ConstantsOK
  DEF LeaveQueue, Inv, Typed, StepTyped, DataTyped, OwnStream, WorkSteps
<1>27. CASE Tally(t)
  BY <1>27, ConstantsOK
  DEF Tally, Inv, Typed, StepTyped, DataTyped, OwnStream, WorkSteps
<1>28. CASE Close(t)
  BY <1>28, ConstantsOK
  DEF Close, FreeEntry, Inv, Typed, StepTyped, DataTyped, OwnStream, WorkSteps
<1>29. CASE Drop(t)
  BY <1>29, ConstantsOK
  DEF Drop, FreeStream, Inv, Typed, StepTyped, DataTyped, OwnStream, WorkSteps
<1>30. CASE Dropped(t)
  BY <1>30, ConstantsOK
  DEF Dropped, FreeStream, Inv, Typed, StepTyped, DataTyped, OwnStream,
      WorkSteps
<1> QED
  BY <1>1, <1>2, <1>3, <1>4, <1>5, <1>6, <1>7, <1>8, <1>9, <1>10, <1>11, <1>12,
     <1>13, <1>14, <1>15, <1>16, <1>17, <1>18, <1>19, <1>20, <1>21, <1>22,
     <1>23, <1>24, <1>25, <1>26, <1>27, <1>28, <1>29, <1>30 DEF OwnAction

\* Stream v has a slot of s or is about to.
Holds(v, s) == srvConn[v] = s \/ (target[v] = s /\ pc[v] \in {"taken", "connected"})

\* The counters tell the truth about the streams behind them.
LEMMA SlotsHeld ==
    ASSUME Inv, SlotLedger, NEW s \in Servers, served[s] > 0
    PROVE  \E v \in Streams : Holds(v, s)
<1>1. /\ Cardinality(Holders(s)) \in Nat /\ Cardinality(Takers(s)) \in Nat
      /\ Cardinality(Returners(s)) \in Nat /\ Cardinality(Handing(s)) \in Nat
  BY EntriesFinite DEF Holders, Takers, Returners, Handing
<1>2. Cardinality(Holders(s)) + Cardinality(Takers(s)) > 0
  BY <1>1, SlotTerms DEF Inv, Typed, DataTyped
<1>3. Holders(s) # {} \/ Takers(s) # {}
  <2>1. Cardinality({}) = 0
    BY FS_EmptySet
  <2> QED
    BY <1>2, <2>1
<1> QED
  BY <1>3 DEF Holders, Takers, Holds

\* A negative served is owed by a thread that has not counted yet.
LEMMA SlotsOwed ==
    ASSUME Inv, SlotLedger, NEW s \in Servers, served[s] < 0
    PROVE  \E v \in Streams : srvConn[v] = s \/ (pc[v] \in {"dec", "inc"} /\ target[v] = s)
<1>1. /\ Cardinality(Holders(s)) \in Nat /\ Cardinality(Takers(s)) \in Nat
      /\ Cardinality(Returners(s)) \in Nat /\ Cardinality(Handing(s)) \in Nat
  BY EntriesFinite DEF Holders, Takers, Returners, Handing
<1>2. Cardinality(Returners(s)) + Cardinality(Handing(s)) > 0
  BY <1>1, SlotTerms DEF Inv, Typed, DataTyped
<1>3. Returners(s) # {} \/ Handing(s) # {}
  <2>1. Cardinality({}) = 0
    BY FS_EmptySet
  <2> QED
    BY <1>2, <2>1
<1> QED
  BY <1>3 DEF Returners, Handing

\* A queue that has entries does not look empty.
LEMMA EntriesCounted ==
    ASSUME Inv, LengthLedger, NEW q \in Queues, tree[q] # {}
    PROVE  length[q] # 0
<1>1. IsFiniteSet(tree[q]) /\ Cardinality(tree[q]) \in Nat
  BY EntriesFinite DEF Inv, Typed, DataTyped
<1>2. Cardinality(tree[q]) # 0
  BY <1>1, FS_EmptySet
<1>3. /\ Cardinality(Incoming(q)) \in Nat /\ Cardinality(Outgoing(q)) \in Nat
      /\ Moved(q) \in Nat
  BY EntriesFinite DEF Incoming, Outgoing, Moved, Inv, Typed, DataTyped
<1> QED
  BY <1>1, <1>2, <1>3, LengthTerms

\* A server that is busy has somebody connected.
LEMMA SessionsHeld ==
    ASSUME Inv, \A u \in Streams : Tidy(u), NEW s \in Servers, ~(CurSess(s) < MaxConn)
    PROVE  \E v \in Streams : Holds(v, s)
<1> DEFINE C == {t \in Streams : currSess[t] /\ target[t] = s}
<1>1. Cardinality(C) \in Nat
  BY EntriesFinite
<1>2. C # {}
  <2> SUFFICES ASSUME C = {} PROVE FALSE
    OBVIOUS
  <2>1. CurSess(s) = 0
    BY FS_EmptySet DEF CurSess
  <2> QED
    BY <2>1, ConstantsOK
<1>3. PICK v \in Streams : currSess[v] /\ target[v] = s
  BY <1>2
<1> QED
  BY <1>3 DEF Tidy, Holds

\* Duties of others, and slots, do not depend on the step of t.
LEMMA OthersDuty ==
    ASSUME Inv, NEW t \in Streams, OthersKept(t), OthersStay(t),
           NEW u \in Streams \ {t}, NEW s \in Servers, NEW px \in BOOLEAN,
           Duty(u, s, px), Inv', served'[s] >= served[s]
    PROVE  Duty(u, s, px)'
<1>1. /\ pc'[u] = pc[u] /\ work'[u] = work[u] /\ target'[u] = target[u]
      /\ srvConn'[u] = srvConn[u] /\ pend'[u] = pend[u]
      /\ pendTarget'[u] = pendTarget[u] /\ (u \in tree'[Px] <=> u \in tree[Px])
  BY DEF OthersKept, OthersStay, Queues
<1>2. CASE Entitled(u, s)
  BY <1>1, <1>2 DEF Entitled, Duty, Queued
<1>3. CASE target[u] = s /\ Looks(u, px)
  BY <1>1, <1>3 DEF Looks, Duty, Inv, Typed, DataTyped
<1>4. CASE target[u] = s /\ ~Looks(u, px) /\ ~Entitled(u, s)
  BY <1>1, <1>4 DEF Duty
<1> QED
  BY <1>2, <1>3, <1>4 DEF Duty

\* A slot does not depend on the step of another thread.
LEMMA HoldsKept ==
    ASSUME NEW t \in Streams, OthersKept(t), OthersStay(t), NEW v \in Streams,
           NEW s \in Servers, Holds(v, s), srvConn'[t] = srvConn[t],
           pc[t] \notin {"taken", "connected"}, NEW px \in BOOLEAN
    PROVE  Duty(v, s, px)'
<1>1. v # t => /\ pc'[v] = pc[v] /\ target'[v] = target[v] /\ srvConn'[v] = srvConn[v]
  BY DEF OthersKept, OthersStay
<1> QED
  BY <1>1 DEF Holds, Duty, Entitled

\* A stream in process_srv_queue() keeps what it is entitled to.
LEMMA EntitledWorker ==
    ASSUME Inv, NEW t \in Streams, NEW s \in Servers, Entitled(t, s),
           MayDequeue(t) \/ Loop(t) \/ Xchg(t) \/ LeaveQueue(t)
    PROVE  Entitled(t, s)'
<1>1. /\ UNCHANGED <<srvConn, pend, tree, pendTarget>> /\ pc[t] \in WorkSteps
  BY DEF MayDequeue, Loop, Xchg, LeaveQueue, WorkSteps
<1>2. work'[t].back = work[t].back
  BY DEF MayDequeue, Loop, Xchg, LeaveQueue, Inv, Typed, DataTyped, WorkRecords
<1>3. pc'[t] \in {"loop", "xchg", "lock", "tally", work[t].back}
  BY DEF MayDequeue, Loop, Xchg, LeaveQueue, EndLoop, Goto, Inv, Typed, StepTyped
<1>4. Queued(t) => Queued(t)'
  BY <1>1, <1>2, <1>3 DEF Queued, WorkSteps
<1> QED
  BY <1>1, <1>4 DEF Entitled

\* Whoever has come to process_srv_queue() for s goes on looking, or somebody
\* else has a slot, or is in charge.
LEMMA MayDequeueDuty ==
    ASSUME Inv, Calm, LengthLedger, NEW t \in Streams, MayDequeue(t),
           NEW s \in Servers, NEW px \in BOOLEAN, Duty(t, s, px), Waits(s, px)
    PROVE  \E v \in Streams : Duty(v, s, px)'
<1>1. OthersKept(t) /\ OthersStay(t)
  BY OwnFrame DEF OwnAction
<1>2. CASE Entitled(t, s)
  BY <1>2, EntitledWorker DEF Duty
<1>3. CASE ~Entitled(t, s)
  <2>1. pc[t] = "maydequeue" /\ target[t] = s /\ UNCHANGED <<srvConn, target>>
    BY <1>3 DEF MayDequeue, Duty
  <2>2. CASE ~(CurSess(s) < MaxConn)
    <3>1. PICK v \in Streams : Holds(v, s)
      BY <2>2, SessionsHeld DEF Calm
    <3>2. Duty(v, s, px)'
      BY <1>1, <2>1, <3>1, HoldsKept
    <3> QED
      BY <3>2
  <2>3. CASE CurSess(s) < MaxConn
    <3>1. length[s] # 0 \/ (length[Px] # 0 /\ usable[s])
      BY EntriesCounted DEF Waits, Queues
    <3>2. pc'[t] = "loop" /\ work' = [work EXCEPT ![t].pxOk = usable[s]]
      BY <2>1, <2>3, <3>1 DEF MayDequeue, Goto, Inv, Typed, StepTyped
    <3>3. /\ work'[t].pxOk = usable[s] /\ work'[t].stop = work[t].stop
          /\ work'[t].done = work[t].done
      BY <3>2 DEF Inv, Typed, DataTyped, WorkRecords
    <3>4. ~work[t].stop /\ work[t].done = 0
      BY <2>1 DEF Calm, Tidy
    <3>5. px => work'[t].pxOk
      BY <3>3 DEF Waits
    <3>6. Looks(t, px)'
      BY <3>2, <3>3, <3>4, <3>5, ConstantsOK DEF Looks
    <3> QED
      BY <2>1, <3>6 DEF Duty
  <2> QED
    BY <2>2, <2>3
<1> QED
  BY <1>2, <1>3

\* The loop ends early only when a slot is in use.
LEMMA LoopDuty ==
    ASSUME Inv, Calm, SlotLedger, NEW t \in Streams, Loop(t),
           NEW s \in Servers, NEW px \in BOOLEAN, Duty(t, s, px)
    PROVE  \E v \in Streams : Duty(v, s, px)'
<1>1. OthersKept(t) /\ OthersStay(t)
  BY OwnFrame DEF OwnAction
<1>2. CASE Entitled(t, s)
  BY <1>2, EntitledWorker DEF Duty
<1>3. CASE ~Entitled(t, s)
  <2>1. /\ pc[t] = "loop" /\ target[t] = s /\ UNCHANGED <<srvConn, target, work>>
        /\ Looks(t, px)
    BY <1>3 DEF Loop, Duty
  <2>2. CASE served[s] > 0
    <3>1. PICK v \in Streams : Holds(v, s)
      BY <2>2, SlotsHeld
    <3>2. Duty(v, s, px)'
      BY <1>1, <2>1, <3>1, HoldsKept
    <3> QED
      BY <3>2
  <2>3. CASE ~(served[s] > 0)
    <3>1. /\ ~work[t].stop /\ served[s] < MaxConn
          /\ work[t].done < MaxPollEvents \/ served[s] = 0
      BY <2>1, <2>3, ConstantsOK DEF Looks, Inv, Typed, DataTyped
    <3>2. pc'[t] = "xchg"
      BY <2>1, <3>1 DEF Loop, Goto, Inv, Typed, StepTyped
    <3>3. Looks(t, px)'
      BY <2>1, <3>2 DEF Looks
    <3> QED
      BY <2>1, <3>3 DEF Duty
  <2> QED
    BY <2>2, <2>3
<1> QED
  BY <1>2, <1>3

\* A thread that finds dequeuing set leaves the work to one that looks.
LEMMA XchgDuty ==
    ASSUME Inv, Calm, NEW t \in Streams, Xchg(t), ~missed',
           NEW s \in Servers, NEW px \in BOOLEAN, Duty(t, s, px)
    PROVE  \E v \in Streams : Duty(v, s, px)'
<1>1. OthersKept(t) /\ OthersStay(t)
  BY OwnFrame DEF OwnAction
<1>2. CASE Entitled(t, s)
  BY <1>2, EntitledWorker DEF Duty
<1>3. CASE ~Entitled(t, s)
  <2>1. /\ pc[t] = "xchg" /\ target[t] = s /\ UNCHANGED <<srvConn, target, work>>
        /\ px => work[t].pxOk
    BY <1>3 DEF Xchg, Duty, Looks
  <2>2. CASE dequeuing[s]
    <3>1. PICK h \in Streams : InCharge(h, s)
      BY <2>2 DEF Calm, Charged
    <3>2. ~LeftToNobody(t)
      BY <2>1, <2>2 DEF Xchg
    <3>3. ~(pc[h] = "leave" /\ work[h].stop) /\ (work[t].pxOk => work[h].pxOk)
      BY <2>1, <3>1, <3>2 DEF LeftToNobody
    <3>4. Looks(h, px) /\ target[h] = s /\ h # t
      BY <2>1, <3>1, <3>3 DEF Looks, InCharge
    <3>5. pc'[h] = pc[h] /\ target'[h] = target[h] /\ work'[h] = work[h]
      BY <1>1, <3>4 DEF OthersKept, OthersStay
    <3>6. Looks(h, px)'
      BY <3>1, <3>4, <3>5 DEF Looks, InCharge
    <3> QED
      BY <3>4, <3>5, <3>6 DEF Duty
  <2>3. CASE ~dequeuing[s]
    <3>1. pc'[t] = "lock"
      BY <2>1, <2>3 DEF Xchg, Goto, Inv, Typed, StepTyped
    <3>2. Looks(t, px)'
      BY <2>1, <3>1 DEF Looks
    <3> QED
      BY <2>1, <3>2 DEF Duty
  <2> QED
    BY <2>2, <2>3
<1> QED
  BY <1>2, <1>3

\* After its round a thread looks again, or a slot is about to come back.
LEMMA LeaveQueueDuty ==
    ASSUME Inv, Calm, SlotLedger, NEW t \in Streams, LeaveQueue(t),
           NEW s \in Servers, NEW px \in BOOLEAN, Duty(t, s, px)
    PROVE  \E v \in Streams : Duty(v, s, px)'
<1>1. OthersKept(t) /\ OthersStay(t)
  BY OwnFrame DEF OwnAction
<1>2. CASE Entitled(t, s)
  BY <1>2, EntitledWorker DEF Duty
<1>3. CASE ~Entitled(t, s)
  <2>1. /\ pc[t] = "leave" /\ target[t] = s /\ UNCHANGED <<srvConn, target, work, served>>
        /\ pc'[t] = "loop" /\ Looks(t, px)
    BY <1>3 DEF LeaveQueue, Duty, Goto, Inv, Typed, StepTyped
  <2>2. CASE served[s] < 0
    <3>1. PICK v \in Streams : srvConn[v] = s \/ (pc[v] \in {"dec", "inc"} /\ target[v] = s)
      BY <2>2, SlotsOwed
    <3>2. srvConn[v] = s
      <4>1. InCharge(t, s)
        BY <2>1 DEF InCharge
      <4>2. pc[v] \in {"dec", "inc"} /\ target[v] = s => InCharge(v, s) /\ v # t
        BY <2>1 DEF InCharge
      <4> QED
        BY <3>1, <4>1, <4>2 DEF Calm, Charged
    <3> QED
      BY <2>1, <3>2 DEF Duty, Entitled
  <2>3. CASE ~(served[s] < 0)
    <3>1. Looks(t, px)'
      BY <2>1, <2>3 DEF Looks, Inv, Typed, DataTyped
    <3> QED
      BY <2>1, <3>1 DEF Duty
  <2> QED
    BY <2>2, <2>3
<1> QED
  BY <1>2, <1>3

\* A slot that is given back is offered by the same thread.
LEMMA GivesBack ==
    ASSUME Inv, NEW t \in Streams, ReleaseSlot(t) \/ Drop(t), NEW s \in Servers
    PROVE  served'[s] >= served[s] \/ srvConn'[t] = s
BY DEF ReleaseSlot, Drop, FreeStream, Inv, Typed, DataTyped

\* A duty does not get lost, whatever thread t does.
LEMMA DutyOwn ==
    ASSUME Inv, Inv', Calm, SlotLedger, LengthLedger, NEW t \in Streams, OwnAction(t),
           ~missed', NEW s \in Servers, NEW px \in BOOLEAN, NEW u \in Streams,
           Duty(u, s, px), Waits(s, px)
    PROVE  \E v \in Streams : Duty(v, s, px)'
<1>1. CASE u = t
  <2>1. CASE MayDequeue(t)
    BY <1>1, <2>1, MayDequeueDuty
  <2>2. CASE Loop(t)
    BY <1>1, <2>2, LoopDuty
  <2>3. CASE Xchg(t)
    BY <1>1, <2>3, XchgDuty
  <2>4. CASE LeaveQueue(t)
    BY <1>1, <2>4, LeaveQueueDuty
  <2>5. CASE ~MayDequeue(t) /\ ~Loop(t) /\ ~Xchg(t) /\ ~LeaveQueue(t)
    <3>1. Duty(t, s, px)'
      BY <1>1, <2>5, DutySelf DEF Calm
    <3> QED
      BY <3>1
  <2> QED
    BY <2>1, <2>2, <2>3, <2>4, <2>5
<1>2. CASE u # t
  <2>1. CASE served'[s] >= served[s]
    <3>1. Duty(u, s, px)'
      BY <1>2, <2>1, OwnFrame, OthersDuty
    <3> QED
      BY <3>1
  <2>2. CASE ~(served'[s] >= served[s])
    <3>1. ReleaseSlot(t) \/ Drop(t)
      BY <2>2, ServedSelf
    <3>2. srvConn'[t] = s
      BY <2>2, <3>1, GivesBack
    <3>3. Duty(t, s, px)'
      BY <3>2 DEF Duty, Entitled
    <3> QED
      BY <3>3
  <2> QED
    BY <2>1, <2>2
<1> QED
  BY <1>1, <1>2

\* A thread that found nothing had nothing to find.
LEMMA DutyProcessNext ==
    ASSUME Inv, Calm, LengthLedger, NEW t \in Streams, ProcessNext(t),
           NEW s \in Servers, NEW px \in BOOLEAN, NEW u \in Streams,
           Duty(u, s, px), Waits(s, px)
    PROVE  Duty(u, s, px)'
<1>1. pc[t] = "next" /\ target[t] \in Servers /\ HandFrame(t)
  BY ProcessNextOutcome
<1>2. Entitled(u, s) => Entitled(u, s)'
  <2>1. CASE TookNone(t)
    BY <1>1, <2>1 DEF TookNone, HandFrame, Entitled
  <2>2. ASSUME NEW p \in Streams, TookPx(t, p) PROVE Entitled(u, s) => Entitled(u, s)'
    <3>1. u \in tree'[Px] => u \in tree[Px]
      BY <2>2 DEF TookPx, Inv, Typed, DataTyped
    <3> QED
      BY <1>1, <2>2, <3>1 DEF TookPx, HandFrame, Entitled
  <2>3. ASSUME NEW p \in Streams, TookOwn(t, p) PROVE Entitled(u, s) => Entitled(u, s)'
    <3>1. tree'[Px] = tree[Px] /\ pend[p] # Px /\ srvConn[p] = None
      BY <1>1, <2>3, ConstantsOK DEF TookOwn, Inv, Typed, DataTyped, Queues
    <3>2. u # p => srvConn'[u] = srvConn[u] /\ pendTarget'[u] = pendTarget[u]
      BY <2>3 DEF TookOwn, Inv, Typed, DataTyped
    <3>3. None \notin Servers
      BY ConstantsOK DEF Queues
    <3> QED
      BY <1>1, <3>1, <3>2, <3>3 DEF HandFrame, Entitled
  <2> QED
    BY <2>1, <2>2, <2>3, ProcessNextOutcome
<1>3. CASE u # t
  <2>1. pc'[u] = pc[u] /\ work'[u] = work[u] /\ target'[u] = target[u] /\ served' = served
    BY <1>1, <1>3 DEF HandFrame
  <2> QED
    BY <1>2, <2>1 DEF Duty, Looks
<1>4. CASE u = t /\ ~Entitled(t, s)
  <2>1. target[t] = s /\ (px => work[t].pxOk)
    BY <1>1, <1>4 DEF Duty, Looks
  <2>2. ~TookNone(t)
    <3>1. length[s] # 0 \/ px
      BY EntriesCounted DEF Waits, Queues
    <3>2. px => length[Px] # 0 /\ tree[Px] # {}
      BY EntriesCounted DEF Waits, Queues
    <3>3. ~px => length[s] # 0 /\ tree[s] # {}
      BY <3>1 DEF Waits
    <3> QED
      BY <2>1, <3>2, <3>3 DEF TookNone
  <2>3. pc'[t] \in {"dec", "give"} /\ work'[t].pxOk = work[t].pxOk /\ target'[t] = s
    BY <1>1, <2>1, <2>2, ProcessNextOutcome DEF TookOwn, TookPx, HandFrame
  <2>4. Looks(t, px)'
    BY <2>1, <2>3 DEF Looks
  <2> QED
    BY <1>4, <2>3, <2>4 DEF Duty
<1>5. CASE u = t /\ Entitled(t, s)
  BY <1>2, <1>5 DEF Duty
<1> QED
  BY <1>3, <1>4, <1>5

\* The entry that gets its server had none to lose.
LEMMA DutyGive ==
    ASSUME Inv, Calm, NEW t \in Streams, Give(t),
           NEW s \in Servers, NEW px \in BOOLEAN, NEW u \in Streams, Duty(u, s, px)
    PROVE  Duty(u, s, px)'
<1>1. PICK p \in Streams : Gave(t, p)
  BY GiveOutcome DEF Calm
<1>2. HandFrame(t)
  BY GiveOutcome DEF Calm
<1>3. Entitled(u, s) => Entitled(u, s)'
  <2>1. u # p => srvConn'[u] = srvConn[u] /\ pendTarget'[u] = pendTarget[u]
    BY <1>1 DEF Gave, Inv, Typed, DataTyped
  <2>2. ~Entitled(p, s)
    BY <1>1, ConstantsOK DEF Gave, Entitled, Queues
  <2> QED
    BY <1>1, <1>2, <2>1, <2>2 DEF Gave, HandFrame, Entitled
<1>4. CASE u # t
  BY <1>1, <1>2, <1>3, <1>4 DEF Duty, Looks, Gave, HandFrame
<1>5. CASE u = t
  BY <1>1, <1>2, <1>3, <1>5 DEF Duty, Looks, Gave, HandFrame
<1> QED
  BY <1>4, <1>5

\* A change of a server takes no duty away.
LEMMA DutyAdmin ==
    ASSUME AdminFrame, NEW s \in Servers, NEW px \in BOOLEAN, NEW u \in Streams,
           Duty(u, s, px)
    PROVE  Duty(u, s, px)'
<1>1. Queued(u)' <=> Queued(u)
  BY DEF AdminFrame, Queued
<1>2. Entitled(u, s) => Entitled(u, s)'
  BY <1>1 DEF AdminFrame, Entitled, Queues
<1> QED
  BY <1>2 DEF Duty, Looks, AdminFrame

\* Nothing makes good for a missed wake-up.
LEMMA MissedStays ==
    ASSUME Inv, [Next]_vars, missed
    PROVE  missed'
<1>1. ASSUME NEW t \in Streams, OwnAction(t) PROVE missed'
  <2>1. CASE \/ NewStream(t) \/ AssignServer(t) \/ LookUpServer(t) \/ CheckRoom(t)
             \/ TakeSlot(t) \/ SlotTaken(t) \/ PendconnAdd(t) \/ PendconnInsert(t)
    BY <2>1
    DEF NewStream, AssignServer, LookUpServer, CheckRoom, TakeSlot, SlotTaken,
        PendconnAdd, PendconnInsert
  <2>2. CASE \/ MustTryAgain(t) \/ Unqueue(t) \/ WakeUp(t) \/ GiveUp(t) \/ Dequeued(t)
             \/ PendconnUnlink(t) \/ Unlinked(t) \/ Connect(t) \/ Disconnect(t)
    BY <2>2
    DEF MustTryAgain, Unqueue, WakeUp, GiveUp, LookAtEntry, Dequeued, PendconnUnlink,
        Unlinked, Connect, Disconnect
  <2>3. CASE \/ ReleaseSlot(t) \/ SlotReleased(t) \/ MayDequeue(t) \/ Loop(t) \/ Xchg(t)
             \/ LockQueue(t) \/ Inner(t)
    BY <2>3 DEF ReleaseSlot, SlotReleased, MayDequeue, Loop, Xchg, LockQueue, Inner
  <2>4. CASE \/ DecLength(t) \/ IncServed(t) \/ LeaveQueue(t) \/ Tally(t) \/ Close(t)
             \/ Drop(t) \/ Dropped(t)
    BY <2>4 DEF DecLength, IncServed, LeaveQueue, Tally, Close, Drop, Dropped
  <2> QED
    BY <1>1, <2>1, <2>2, <2>3, <2>4 DEF OwnAction
<1>2. ASSUME NEW t \in Streams, ProcessNext(t) \/ Give(t) PROVE missed'
  BY <1>2 DEF ProcessNext, Give
<1>3. CASE AdminFrame \/ UNCHANGED vars
  BY <1>3 DEF AdminFrame, vars
<1> QED
  BY <1>1, <1>2, <1>3, AdminActs, StreamActs DEF Next

\* A stream that has just been linked looks itself,
LEMMA InsertDuty ==
    ASSUME Inv, NEW t \in Streams, PendconnInsert(t), NEW s \in Servers,
           tree[s] = {}, tree'[s] # {}
    PROVE  Duty(t, s, FALSE)'
<1>1. pend[t] = s
  BY DEF PendconnInsert, Inv, Typed, DataTyped, Queues
<1>2. s # Px /\ target[t] = s
  BY <1>1, ConstantsOK DEF PendconnInsert, Inv, OwnStream, QueueOfFlags, Queues
<1>3. pc'[t] = "maydequeue" /\ target'[t] = s
  BY <1>1, <1>2 DEF PendconnInsert, Goto, Inv, Typed, StepTyped
<1> QED
  BY <1>3 DEF Duty

\* or relies on px->served, and somebody has a slot.
LEMMA TryAgainDuty ==
    ASSUME Inv, NEW t \in Streams, MustTryAgain(t), ~missed', t \in tree[Px],
           pc'[t] # "unqueue"
    PROVE  \E s \in Servers, u \in Streams : Duty(u, s, TRUE)'
<1>1. pxServed # 0
  BY DEF MustTryAgain, Goto, Inv, Typed, StepTyped
<1>2. PICK u \in Streams : srvConn[u] # None
  BY <1>1 DEF MustTryAgain, ServedLags
<1>3. srvConn[u] \in Servers /\ srvConn'[u] = srvConn[u]
  BY <1>2 DEF MustTryAgain, Inv, Typed, DataTyped
<1>4. Duty(u, srvConn[u], TRUE)'
  BY <1>3 DEF Duty, Entitled
<1> QED
  BY <1>3, <1>4

\* A server that comes up takes somebody, or has no slot free.
LEMMA GrabDuty ==
    ASSUME Inv, SlotLedger, Grab, tree'[Px] # {}
    PROVE  \E s \in Servers, u \in Streams : Duty(u, s, TRUE)'
<1>1. PICK W \in SUBSET tree[Px] :
        /\ W = tree[Px] \/ Cardinality(W) >= MaxConn - served[admin.srv]
        /\ TakeOut(Px, W)
        /\ pendTarget' = [t \in Streams |-> IF t \in W THEN admin.srv
                                                       ELSE pendTarget[t]]
  BY DEF Grab
<1>2. PICK r \in Servers : r = admin.srv /\ Px \in Queues
  BY DEF Grab, Inv, AdminOK, Queues
<1>3. tree'[Px] = tree[Px] \ W
  BY <1>1, <1>2, TakeOutFrame
<1>4. AdminFrame
  BY AdminActs DEF AdminStep
<1>5. CASE W # {}
  <2>1. PICK w \in W : TRUE
    BY <1>5
  <2>2. w \in Streams /\ Queued(w) /\ pend[w] = Px
    BY <1>2, <2>1 DEF Inv, Typed, DataTyped, Linked
  <2>3. Queued(w)' /\ pend'[w] = Px /\ w \notin tree'[Px] /\ pendTarget'[w] = r
    BY <1>1, <1>2, <1>3, <1>4, <2>1, <2>2 DEF AdminFrame, Queued
  <2>4. Duty(w, r, TRUE)'
    BY <2>3 DEF Duty, Entitled
  <2> QED
    BY <1>2, <2>2, <2>4
<1>6. CASE W = {}
  <2>1. Cardinality(W) = 0 /\ W # tree[Px]
    BY <1>3, <1>6, FS_EmptySet
  <2>2. served[r] > 0
    BY <1>1, <1>2, <2>1, ConstantsOK DEF Inv, Typed, DataTyped
  <2>3. PICK v \in Streams : Holds(v, r)
    BY <1>2, <2>2, SlotsHeld
  <2>4. Duty(v, r, TRUE)'
    BY <1>4, <2>3 DEF Holds, Duty, Entitled, AdminFrame
  <2> QED
    BY <1>2, <2>4
<1> QED
  BY <1>5, <1>6

\* A thread that is not linking its entry adds nobody to a queue.
LEMMA QueuesShrink ==
    ASSUME Inv, Calm, NEW t \in Streams, OwnAction(t) \/ ProcessNext(t) \/ Give(t),
           ~PendconnInsert(t), NEW q \in Queues
    PROVE  tree'[q] \subseteq tree[q]
<1>1. CASE OwnAction(t)
  BY <1>1, TreeSelf
<1>2. CASE ProcessNext(t)
  BY <1>2 DEF ProcessNext, TakeOwn, TakePx, Inv, Typed, DataTyped
<1>3. CASE Give(t)
  BY <1>3 DEF Give
<1> QED
  BY <1>1, <1>2, <1>3

\* Who waits in the proxy's queue after a step did so before, or has just been
\* reassured by pendconn_must_try_again().
LEMMA AddedToPx ==
    ASSUME Inv, Calm, NEW t \in Streams, OwnAction(t) \/ ProcessNext(t) \/ Give(t),
           NEW x \in tree'[Px], pc'[x] \notin {"tryagain", "unqueue"}
    PROVE  /\ x \in tree[Px]
           /\ pc[x] \notin {"tryagain", "unqueue"} \/ (x = t /\ MustTryAgain(t))
<1>1. Px \in Queues
  BY DEF Queues
<1>2. CASE PendconnInsert(t)
  <2>1. x # t
    BY <1>1, <1>2
    DEF PendconnInsert, Goto, Inv, Typed, StepTyped, DataTyped, Linked, OwnStream, Queued,
        WorkSteps
  <2>2. x \in tree[Px] /\ x \in Streams
    BY <1>1, <1>2, <2>1 DEF PendconnInsert, Inv, Typed, DataTyped
  <2>3. pc'[x] = pc[x]
    BY <1>2, <2>1, <2>2, OwnFrame DEF OwnAction, OthersStay
  <2> QED
    BY <2>2, <2>3
<1>3. CASE ~PendconnInsert(t)
  <2>1. x \in tree[Px] /\ x \in Streams
    BY <1>1, <1>3, QueuesShrink DEF Inv, Typed, DataTyped
  <2>2. CASE x # t
    <3>1. pc'[x] = pc[x]
      BY <2>1, <2>2, OwnFrame, ProcessNextOutcome, GiveOutcome
      DEF Calm, OthersStay, HandFrame
    <3> QED
      BY <2>1, <3>1
  <2>3. CASE x = t /\ pc[t] \in {"tryagain", "unqueue"}
    <3>1. MustTryAgain(t) \/ Unqueue(t)
      BY <2>3
      DEF OwnAction, NewStream, AssignServer, LookUpServer, CheckRoom, TakeSlot,
          SlotTaken, PendconnAdd, PendconnInsert, WakeUp, GiveUp, LookAtEntry, Dequeued,
          PendconnUnlink, Unlinked, Connect, Disconnect, ReleaseSlot, SlotReleased,
          MayDequeue, Loop, Xchg, LockQueue, Inner, ProcessNext, Give, DecLength,
          IncServed, LeaveQueue, Tally, Close, Drop, Dropped
    <3>2. ~Unqueue(t)
      BY <1>1, <2>1, <2>3 DEF Unqueue, Inv, Typed, DataTyped
    <3> QED
      BY <2>1, <2>3, <3>1, <3>2
  <2> QED
    BY <2>1, <2>2, <2>3
<1> QED
  BY <1>2, <1>3

\* A duty does not get lost in any step of a stream's thread.
LEMMA DutyStream ==
    ASSUME Inv, Inv', Calm, SlotLedger, LengthLedger, NEW t \in Streams,
           OwnAction(t) \/ ProcessNext(t) \/ Give(t),
           ~missed', NEW s \in Servers, NEW px \in BOOLEAN, NEW u \in Streams,
           Duty(u, s, px), Waits(s, px)
    PROVE  \E v \in Streams : Duty(v, s, px)'
<1>1. CASE OwnAction(t)
  BY <1>1, DutyOwn
<1>2. CASE ProcessNext(t)
  <2>1. Duty(u, s, px)'
    BY <1>2, DutyProcessNext
  <2> QED
    BY <2>1
<1>3. CASE Give(t)
  <2>1. Duty(u, s, px)'
    BY <1>3, DutyGive
  <2> QED
    BY <2>1
<1> QED
  BY <1>1, <1>2, <1>3

\* Every step keeps somebody on duty.
LEMMA OnDutyStream ==
    ASSUME Inv, Inv', Calm, SlotLedger, LengthLedger, OnDuty, ~missed, ~missed',
           NEW t \in Streams, OwnAction(t) \/ ProcessNext(t) \/ Give(t)
    PROVE  OnDuty'
<1>1. ASSUME NEW s \in Servers, tree'[s] # {}
      PROVE  \E v \in Streams : Duty(v, s, FALSE)'
  <2>1. CASE tree[s] # {}
    <3>1. PICK u \in Streams : Duty(u, s, FALSE)
      BY <2>1 DEF OnDuty
    <3>2. Waits(s, FALSE)
      BY <2>1 DEF Waits
    <3> QED
      BY <3>1, <3>2, DutyStream
  <2>2. CASE tree[s] = {}
    <3>1. PendconnInsert(t)
      BY <1>1, <2>2, QueuesShrink DEF Queues
    <3>2. Duty(t, s, FALSE)'
      BY <1>1, <2>2, <3>1, InsertDuty
    <3> QED
      BY <3>2
  <2> QED
    BY <2>1, <2>2
<1>2. ASSUME WaitsAtPx'
      PROVE  \E s \in Servers, v \in Streams : Duty(v, s, TRUE)'
  <2>1. usable' = usable /\ pc'[Admin] = pc[Admin]
    BY OwnFrame, ProcessNextOutcome, GiveOutcome DEF Calm, OthersStay, HandFrame
  <2>2. PICK x \in tree'[Px] : pc'[x] \notin {"tryagain", "unqueue"}
    BY <1>2 DEF WaitsAtPx
  <2>3. x \in tree[Px]
    BY <2>2, AddedToPx
  <2>4. CASE pc[x] \notin {"tryagain", "unqueue"}
    <3>1. WaitsAtPx
      BY <1>2, <2>1, <2>3, <2>4 DEF WaitsAtPx
    <3>2. PICK s \in Servers, u \in Streams : Duty(u, s, TRUE)
      BY <3>1 DEF OnDuty
    <3>3. Waits(s, TRUE)
      BY <2>3, <3>1 DEF Waits, WaitsAtPx
    <3> QED
      BY <3>2, <3>3, DutyStream
  <2>5. CASE x = t /\ MustTryAgain(t)
    BY <2>2, <2>3, <2>5, TryAgainDuty
  <2> QED
    BY <2>2, <2>4, <2>5, AddedToPx
<1> QED
  BY <1>1, <1>2 DEF OnDuty

\* A change of a server leaves nobody alone.
LEMMA OnDutyAdmin ==
    ASSUME Inv, SlotLedger, OnDuty, ~missed, AdminFrame,
           \/ UNCHANGED <<usable, pc>>
           \/ AdminStep \/ \E s \in Servers : SetMaint(s) \/ SetReady(s)
    PROVE  OnDuty'
<1>1. ASSUME NEW s \in Servers, tree'[s] # {}
      PROVE  \E v \in Streams : Duty(v, s, FALSE)'
  <2>1. PICK u \in Streams : Duty(u, s, FALSE)
    BY <1>1 DEF OnDuty, AdminFrame, Queues
  <2>2. Duty(u, s, FALSE)'
    BY <2>1, DutyAdmin
  <2> QED
    BY <2>2
<1>2. ASSUME WaitsAtPx'
      PROVE  \E s \in Servers, v \in Streams : Duty(v, s, TRUE)'
  <2>1. CASE WaitsAtPx
    <3>1. PICK s \in Servers, u \in Streams : Duty(u, s, TRUE)
      BY <2>1 DEF OnDuty
    <3>2. Duty(u, s, TRUE)'
      BY <3>1, DutyAdmin
    <3> QED
      BY <3>2
  <2>2. CASE Grab
    BY <1>2, <2>2, GrabDuty DEF WaitsAtPx
  <2>3. CASE ~WaitsAtPx /\ ~Grab
    <3>1. PICK x \in tree'[Px] : pc'[x] \notin {"tryagain", "unqueue"}
      BY <1>2 DEF WaitsAtPx
    <3>2. x \in tree[Px] /\ pc[x] \notin {"tryagain", "unqueue"}
      BY <3>1 DEF AdminFrame, Queues, Inv, Typed, DataTyped
    <3>3. pc[Admin] = "grab" \/ \E r \in Servers : ~usable[r]
      BY <2>3, <3>2 DEF WaitsAtPx
    <3>4. pc'[Admin] # "grab" /\ \A r \in Servers : usable'[r]
      BY <1>2 DEF WaitsAtPx
    <3>5. ASSUME NEW s \in Servers, SetReady(s) PROVE pc'[Admin] = "grab"
      BY <3>5 DEF SetReady, Goto, Inv, Typed, StepTyped
    <3>6. ASSUME NEW s \in Servers, SetMaint(s) PROVE ~usable'[s]
      BY <3>6 DEF SetMaint, Inv, Typed, DataTyped
    <3>7. CASE AdminStep
      BY <2>3, <3>3, <3>4, <3>7
      DEF AdminStep, Redistribute, Counted, RedistributePx, CountedPx
    <3>8. CASE UNCHANGED <<usable, pc>>
      BY <3>3, <3>4, <3>8
    <3> QED
      BY <3>4, <3>5, <3>6, <3>7, <3>8
  <2> QED
    BY <2>1, <2>2, <2>3
<1> QED
  BY <1>1, <1>2 DEF OnDuty

\* The queues are empty at the start.
LEMMA OnDutyInit == Init => OnDuty
<1> SUFFICES ASSUME Init PROVE OnDuty
  OBVIOUS
<1>1. \A q \in Queues : tree[q] = {}
  BY DEF Init
<1> QED
  BY <1>1 DEF OnDuty, WaitsAtPx, Queues

\* The invariant behind NoneStranded is kept by every step.
LEMMA OnDutyStep ==
    Inv /\ Calm /\ SlotLedger /\ LengthLedger /\ OnDuty /\ [Next]_vars => OnDuty'
<1> SUFFICES ASSUME Inv, Calm, SlotLedger, LengthLedger, OnDuty, [Next]_vars
             PROVE  OnDuty'
  OBVIOUS
<1>1. Inv'
  BY InvStep
<1>2. CASE missed'
  BY <1>2 DEF OnDuty
<1>3. CASE ~missed'
  <2>1. ~missed
    BY <1>3, MissedStays
  <2>2. ASSUME NEW t \in Streams, NewStream(t) \/ GiveUp(t) \/ Step(t) PROVE OnDuty'
    BY <1>1, <1>3, <2>1, <2>2, StreamActs, OnDutyStream
  <2>3. CASE AdminStep \/ \E s \in Servers : SetMaint(s) \/ SetReady(s)
    BY <2>1, <2>3, AdminActs, OnDutyAdmin
  <2>4. CASE UNCHANGED vars
    <3>1. AdminFrame
      BY <2>4 DEF vars, AdminFrame
    <3> QED
      BY <2>1, <2>4, <3>1, OnDutyAdmin DEF vars
  <2> QED
    BY <2>2, <2>3, <2>4 DEF Next
<1> QED
  BY <1>2, <1>3

\* When everything has come to rest nobody is on duty.
LEMMA RestOffDuty ==
    ASSUME Inv, Calm, Quiescent, NEW u \in Streams, NEW s \in Servers,
           NEW px \in BOOLEAN
    PROVE  ~Duty(u, s, px)
<1>1. pc[u] \in {"idle", "done", "wait"}
  BY DEF Quiescent
<1>2. CASE pc[u] = "wait"
  <2>1. ~woken[u] /\ ~ \E h \in Streams : pc[h] = "give" /\ work[h].pick = u
    BY <1>2 DEF Quiescent
  <2>2. u \in tree[pend[u]]
    BY <1>2, <2>1 DEF Calm, Informed, Handed, Queued
  <2>3. pend[u] \in Queues
    BY <1>2, ConstantsOK DEF Inv, OwnStream, Queued, QueueOfFlags, Queues
  <2>4. srvConn[u] = None
    BY <2>2, <2>3 DEF Inv, Linked
  <2> QED
    BY <1>2, <2>2, <2>4, ConstantsOK DEF Duty, Entitled, Looks, Queues
<1>3. CASE pc[u] \in {"idle", "done"}
  BY <1>3, ConstantsOK
  DEF Inv, OwnStream, Duty, Entitled, Looks, Queued, WorkSteps, Queues
<1> QED
  BY <1>1, <1>2, <1>3

\* So nobody waits then.
LEMMA NobodyStranded == Inv /\ Calm /\ OnDuty => NoneStranded
<1> SUFFICES ASSUME Inv, Calm, OnDuty, Quiescent, ~missed
             PROVE  /\ \A s \in Servers : tree[s] = {}
                    /\ tree[Px] # {} => \E s \in Servers : ~usable[s]
  BY DEF NoneStranded
<1>1. \A s \in Servers : tree[s] = {}
  BY RestOffDuty DEF OnDuty
<1>2. ASSUME tree[Px] # {}, \A s \in Servers : usable[s] PROVE FALSE
  <2>1. PICK x \in tree[Px] : TRUE
    BY <1>2
  <2>2. x \in Streams
    BY <2>1 DEF Inv, Typed, DataTyped, Queues
  <2>3. pc[x] \notin {"tryagain", "unqueue"} /\ pc[Admin] # "grab"
    BY <2>2 DEF Quiescent
  <2>4. WaitsAtPx
    BY <1>2, <2>1, <2>3 DEF WaitsAtPx
  <2> QED
    BY <2>4, RestOffDuty DEF OnDuty
<1> QED
  BY <1>1, <1>2

\* When all threads have come to rest nobody is left in the queue of a server,
\* and in the proxy's only while a server is in maintenance, unless one of the
\* four known wake-ups was missed: for any number of requests, servers and
\* slots, the second look of pendconn_add(), the dequeuing flag, the last round
\* of process_srv_queue() and the redistribution leave no other gap.
THEOREM NobodyLeftBehind == Spec => []NoneStranded
BY InvInit, InvStep, LengthInit, LengthStep, SlotInit, SlotStep, CalmInit, CalmStep,
   OnDutyInit, OnDutyStep, NobodyStranded, PTL
DEF Spec

=============================================================================
