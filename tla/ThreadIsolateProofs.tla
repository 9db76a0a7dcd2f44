------------------------ MODULE ThreadIsolateProofs ------------------------
(***************************************************************************)
(* Proofs that isolation is exclusive, for any number of threads and       *)
(* groups and any callers of the two functions.                            *)
(***************************************************************************)
EXTENDS ThreadIsolate, TLAPS, FiniteSetTheorems

(* The steps at which a thread's bit in threads_harmless is set. Only the  *)
(* thread itself changes the bit, so the two agree.                        *)
HarmlessSteps == Looping \cup {"poll", "clear", "spin", "request", "wonfull", "won"}

BitsExact ==
    \A u \in Threads :
        /\ u \in harmless => pc[u] \in HarmlessSteps
        /\ u \in idle =>
             \/ pc[u] \in {"polling", "poll", "clear", "check", "till", "spin", "idleend"}
             \/ full[u] /\ pc[u] \in Looping \cup {"harmless", "request", "wonfull"}
        /\ u \notin enabled => pc[u] = "exited"

(* A thread past the loop owns isolated_thread; its owner is in the loop   *)
(* or past it.                                                             *)
Owner ==
    \A t \in Threads :
        /\ pc[t] \in {"wonfull", "won", "isolated"} => isolated = t
        /\ isolated = t => pc[t] \in (Looping \ {"cas"}) \cup {"wonfull", "won", "isolated"}

Counted == IsFiniteSet(Threads) /\ RequestsCounted

(* What the owner of isolated_thread knows of another thread: it does not  *)
(* run, and with thread_isolate_full() it is not in a task either.         *)
Still(t, u) == pc[u] \notin Running /\ (full[t] => OutOfTasks(u))

(* How far the owner's second scan has come. A thread that was seen still  *)
(* remains so: it can run again neither by leaving the poller, since       *)
(* rdv_requests counts the owner, nor by winning isolated_thread.          *)
Seen ==
    \A t, u \in Threads :
        isolated = t /\ u # t =>
            /\ pc[t] \in Looping /\ GroupOf[u] < tgrp[t] => Still(t, u)
            /\ pc[t] \in {"loadharmless", "loadidle"} /\ GroupOf[u] = tgrp[t]
                 /\ u \notin te[t] => Still(t, u)
            /\ pc[t] = "loadidle" /\ u \in th[t] => pc[u] \notin Running
            /\ pc[t] \in {"look", "wonfull", "won", "isolated"} => Still(t, u)

InRange ==
    \A t \in Threads :
        pc[t] \in {"scan", "loadharmless", "loadidle"} => tgrp[t] \in 1 .. NbTgroups

IInv == TypeOK /\ InRange /\ BitsExact /\ Owner /\ Counted /\ Seen

-----------------------------------------------------------------------------
(* rdv_requests                                                            *)

(* A thread that asks for isolation keeps rdv_requests above zero.         *)
LEMMA RdvPositive ==
    ASSUME TypeOK, Counted, NEW t \in Threads, pc[t] \in Requesting
    PROVE  rdv # 0
<1> DEFINE R == {u \in Threads : pc[u] \in Requesting}
<1>1. IsFiniteSet(R) /\ t \in R
    BY FS_Subset DEF Counted
<1>2. Cardinality(R) # 0
    BY <1>1, FS_EmptySet
<1>3. QED
    BY <1>2 DEF Counted, RequestsCounted

(* The counter follows the threads that enter and leave a request.         *)
LEMMA CountedStep ==
    ASSUME ConstantsOK, TypeOK, Counted, NEW t \in Threads, Step(t)
    PROVE  Counted'
<1> DEFINE R == {u \in Threads : pc[u] \in Requesting}
<1>1. IsFiniteSet(R) /\ rdv = Cardinality(R)
    BY FS_Subset DEF Counted, RequestsCounted
<1>2. CASE Request(t)
    <2>1. t \notin R /\ R' = R \cup {t} /\ rdv' = rdv + 1
        BY <1>2 DEF Request, Rescan, Goto, TypeOK, Requesting, Looping
    <2>2. Cardinality(R') = Cardinality(R) + 1
        BY <1>1, <2>1, FS_AddElement
    <2>3. QED
        BY <1>1, <2>1, <2>2 DEF Counted, RequestsCounted
<1>3. CASE EndRequest(t)
    <2>1. t \in R /\ R' = R \ {t} /\ rdv' = rdv - 1
        BY <1>3 DEF EndRequest, Goto, TypeOK, Requesting, Looping
    <2>2. Cardinality(R') = Cardinality(R) - 1
        <3> HIDE DEF R
        <3>1. Cardinality(R \ {t}) = Cardinality(R) - 1
            BY <1>1, <2>1, FS_RemoveElement, Zenon
        <3>2. QED
            BY <2>1, <3>1, Zenon
    <2>3. QED
        BY <1>1, <2>1, <2>2 DEF Counted, RequestsCounted
<1>4. CASE ~ Request(t) /\ ~ EndRequest(t)
    <2>1. R' = R /\ rdv' = rdv
      <3> USE <1>4 DEF Goto, TypeOK, Requesting, Looping
      <3>1. CASE HarmlessEnd(t)
        BY <3>1 DEF HarmlessEnd
      <3>2. CASE CheckRequests(t)
        BY <3>2 DEF CheckRequests
      <3>3. CASE HarmlessAgain(t)
        BY <3>3 DEF HarmlessAgain
      <3>4. CASE LeaveTillEnd(t)
        BY <3>4 DEF LeaveTillEnd
      <3>5. CASE IdleEnd(t)
        BY <3>5 DEF IdleEnd
      <3>6. CASE IdleNow(t)
        BY <3>6 DEF IdleNow
      <3>7. CASE HarmlessNow(t)
        BY <3>7 DEF HarmlessNow
      <3>8. CASE Exit(t)
        BY <3>8 DEF Exit
      <3>9. CASE Isolate(t)
        BY <3>9 DEF Isolate
      <3>10. CASE IsolateFull(t)
        BY <3>10 DEF IsolateFull
      <3>11. CASE FullHarmless(t)
        BY <3>11 DEF FullHarmless
      <3>12. CASE LoadEnabled(t)
        BY <3>12 DEF LoadEnabled
      <3>13. CASE LoadHarmless(t)
        BY <3>13 DEF LoadHarmless, Compare
      <3>14. CASE LoadIdle(t)
        BY <3>14 DEF LoadIdle, Compare
      <3>15. CASE LookIsolated(t)
        BY <3>15 DEF LookIsolated, Rescan
      <3>16. CASE CasIsolated(t)
        BY <3>16 DEF CasIsolated, Rescan
      <3>17. CASE DropIdle(t)
        BY <3>17 DEF DropIdle
      <3>18. CASE DropHarmless(t)
        BY <3>18 DEF DropHarmless
      <3>19. CASE Release(t)
        BY <3>19 DEF Release
      <3>20. QED
        BY <1>4, <3>1, <3>2, <3>3, <3>4, <3>5, <3>6, <3>7, <3>8, <3>9, <3>10,
           <3>11, <3>12, <3>13, <3>14, <3>15, <3>16, <3>17, <3>18, <3>19 DEF Step, Waiting
    <2>2. QED
        BY <2>1 DEF Counted, RequestsCounted
<1>5. QED
    BY <1>2, <1>3, <1>4

-----------------------------------------------------------------------------
(* Types, bits and the owner of isolated_thread                            *)

(* The types, with the range of the loop over the groups.                  *)
LEMMA TypeStep ==
    ASSUME ConstantsOK, TypeOK, InRange, Counted, NEW t \in Threads, Step(t)
    PROVE  TypeOK' /\ InRange'
<1> USE ConstantsOK DEF TypeOK, InRange, Goto, masks, locals, Steps, Running,
                        Requesting, Looping, Hesitating
<1>1. CASE HarmlessEnd(t)
    BY <1>1 DEF HarmlessEnd
<1>2. CASE CheckRequests(t)
    BY <1>2 DEF CheckRequests
<1>3. CASE HarmlessAgain(t)
    BY <1>3 DEF HarmlessAgain
<1>4. CASE LeaveTillEnd(t)
    BY <1>4 DEF LeaveTillEnd
<1>5. CASE IdleEnd(t)
    BY <1>5 DEF IdleEnd
<1>6. CASE IdleNow(t)
    BY <1>6 DEF IdleNow
<1>7. CASE HarmlessNow(t)
    BY <1>7 DEF HarmlessNow
<1>8. CASE Exit(t)
    BY <1>8 DEF Exit
<1>9. CASE Isolate(t)
    BY <1>9 DEF Isolate
<1>10. CASE IsolateFull(t)
    BY <1>10 DEF IsolateFull
<1>11. CASE FullHarmless(t)
    BY <1>11 DEF FullHarmless
<1>12. CASE Request(t)
    BY <1>12 DEF Request, Rescan
<1>13. CASE LoadEnabled(t)
    BY <1>13 DEF LoadEnabled, InGroup
<1>14. CASE LoadHarmless(t)
    BY <1>14 DEF LoadHarmless, Compare, InGroup
<1>15. CASE LoadIdle(t)
    BY <1>15 DEF LoadIdle, Compare
<1>16. CASE LookIsolated(t)
    BY <1>16 DEF LookIsolated, Rescan
<1>17. CASE CasIsolated(t)
    BY <1>17 DEF CasIsolated, Rescan
<1>18. CASE DropIdle(t)
    BY <1>18 DEF DropIdle
<1>19. CASE DropHarmless(t)
    BY <1>19 DEF DropHarmless
<1>20. CASE Release(t)
    BY <1>20 DEF Release
<1>21. CASE EndRequest(t)
    BY <1>21, RdvPositive DEF EndRequest
<1>22. QED
    BY <1>1, <1>2, <1>3, <1>4, <1>5, <1>6, <1>7, <1>8, <1>9, <1>10, <1>11, <1>12, 
       <1>13, <1>14, <1>15, <1>16, <1>17, <1>18, <1>19, <1>20, <1>21 DEF Step, Waiting

(* A thread alone sets and clears its bits.                                *)
LEMMA BitsStep ==
    ASSUME TypeOK, BitsExact, NEW t \in Threads, Step(t)
    PROVE  BitsExact'
<1> USE DEF TypeOK, BitsExact, HarmlessSteps, Goto, masks, locals, Running, Looping
<1>1. CASE HarmlessEnd(t)
    BY <1>1 DEF HarmlessEnd
<1>2. CASE CheckRequests(t)
    BY <1>2 DEF CheckRequests
<1>3. CASE HarmlessAgain(t)
    BY <1>3 DEF HarmlessAgain
<1>4. CASE LeaveTillEnd(t)
    BY <1>4 DEF LeaveTillEnd
<1>5. CASE IdleEnd(t)
    BY <1>5 DEF IdleEnd
<1>6. CASE IdleNow(t)
    BY <1>6 DEF IdleNow
<1>7. CASE HarmlessNow(t)
    BY <1>7 DEF HarmlessNow
<1>8. CASE Exit(t)
    BY <1>8 DEF Exit
<1>9. CASE Isolate(t)
    BY <1>9 DEF Isolate
<1>10. CASE IsolateFull(t)
    BY <1>10 DEF IsolateFull
<1>11. CASE FullHarmless(t)
    BY <1>11 DEF FullHarmless
<1>12. CASE Request(t)
    BY <1>12 DEF Request, Rescan
<1>13. CASE LoadEnabled(t)
    BY <1>13 DEF LoadEnabled, InGroup
<1>14. CASE LoadHarmless(t)
    BY <1>14 DEF LoadHarmless, Compare, InGroup
<1>15. CASE LoadIdle(t)
    BY <1>15 DEF LoadIdle, Compare
<1>16. CASE LookIsolated(t)
    BY <1>16 DEF LookIsolated, Rescan
<1>17. CASE CasIsolated(t)
    BY <1>17 DEF CasIsolated, Rescan
<1>18. CASE DropIdle(t)
    BY <1>18 DEF DropIdle
<1>19. CASE DropHarmless(t)
    BY <1>19 DEF DropHarmless
<1>20. CASE Release(t)
    BY <1>20 DEF Release
<1>21. CASE EndRequest(t)
    BY <1>21 DEF EndRequest
<1>22. QED
    BY <1>1, <1>2, <1>3, <1>4, <1>5, <1>6, <1>7, <1>8, <1>9, <1>10, <1>11, <1>12, 
       <1>13, <1>14, <1>15, <1>16, <1>17, <1>18, <1>19, <1>20, <1>21 DEF Step, Waiting

(* isolated_thread is taken only when it is free, and only by a thread in   *)
(* the loop.                                                               *)
LEMMA OwnerStep ==
    ASSUME ConstantsOK, TypeOK, Owner, NEW t \in Threads, Step(t)
    PROVE  Owner'
<1> USE ConstantsOK DEF TypeOK, Owner, Goto, masks, locals, Looping
<1>1. CASE HarmlessEnd(t)
    BY <1>1 DEF HarmlessEnd
<1>2. CASE CheckRequests(t)
    BY <1>2 DEF CheckRequests
<1>3. CASE HarmlessAgain(t)
    BY <1>3 DEF HarmlessAgain
<1>4. CASE LeaveTillEnd(t)
    BY <1>4 DEF LeaveTillEnd
<1>5. CASE IdleEnd(t)
    BY <1>5 DEF IdleEnd
<1>6. CASE IdleNow(t)
    BY <1>6 DEF IdleNow
<1>7. CASE HarmlessNow(t)
    BY <1>7 DEF HarmlessNow
<1>8. CASE Exit(t)
    BY <1>8 DEF Exit
<1>9. CASE Isolate(t)
    BY <1>9 DEF Isolate
<1>10. CASE IsolateFull(t)
    BY <1>10 DEF IsolateFull
<1>11. CASE FullHarmless(t)
    BY <1>11 DEF FullHarmless
<1>12. CASE Request(t)
    BY <1>12 DEF Request, Rescan
<1>13. CASE LoadEnabled(t)
    BY <1>13 DEF LoadEnabled, InGroup
<1>14. CASE LoadHarmless(t)
    BY <1>14 DEF LoadHarmless, Compare, InGroup
<1>15. CASE LoadIdle(t)
    BY <1>15 DEF LoadIdle, Compare
<1>16. CASE LookIsolated(t)
    BY <1>16 DEF LookIsolated, Rescan
<1>17. CASE CasIsolated(t)
    BY <1>17 DEF CasIsolated, Rescan
<1>18. CASE DropIdle(t)
    BY <1>18 DEF DropIdle
<1>19. CASE DropHarmless(t)
    BY <1>19 DEF DropHarmless
<1>20. CASE Release(t)
    BY <1>20 DEF Release
<1>21. CASE EndRequest(t)
    BY <1>21 DEF EndRequest
<1>22. QED
    BY <1>1, <1>2, <1>3, <1>4, <1>5, <1>6, <1>7, <1>8, <1>9, <1>10, <1>11, <1>12, 
       <1>13, <1>14, <1>15, <1>16, <1>17, <1>18, <1>19, <1>20, <1>21 DEF Step, Waiting

-----------------------------------------------------------------------------
(* The second scan                                                         *)

(* While t owns isolated_thread, a thread u that is still remains so,      *)
(* whatever u or another thread v does.                                    *)
LEMMA StillKept ==
    ASSUME ConstantsOK, TypeOK, Owner, Counted,
           NEW t \in Threads, NEW u \in Threads, NEW v \in Threads, Step(v),
           isolated = t, u # t, Still(t, u), full'[t] = full[t]
    PROVE  Still(t, u)'
<1>1. rdv # 0
    <2>1. pc[t] \in Requesting
        BY DEF Owner, Requesting, Looping
    <2>2. QED
        BY <2>1, RdvPositive
<1>2. pc[u] \notin {"wonfull", "won", "isolated"}
    BY DEF Owner
<1> USE <1>1, <1>2, ConstantsOK DEF TypeOK, Still, OutOfTasks, Goto, masks, locals,
                                    Running, Looping
<1>3. CASE HarmlessEnd(v)
    BY <1>3 DEF HarmlessEnd
<1>4. CASE CheckRequests(v)
    BY <1>4 DEF CheckRequests
<1>5. CASE HarmlessAgain(v)
    BY <1>5 DEF HarmlessAgain
<1>6. CASE LeaveTillEnd(v)
    BY <1>6 DEF LeaveTillEnd
<1>7. CASE IdleEnd(v)
    BY <1>7 DEF IdleEnd
<1>8. CASE IdleNow(v)
    BY <1>8 DEF IdleNow
<1>9. CASE HarmlessNow(v)
    BY <1>9 DEF HarmlessNow
<1>10. CASE Exit(v)
    BY <1>10 DEF Exit
<1>11. CASE Isolate(v)
    BY <1>11 DEF Isolate
<1>12. CASE IsolateFull(v)
    BY <1>12 DEF IsolateFull
<1>13. CASE FullHarmless(v)
    BY <1>13 DEF FullHarmless
<1>14. CASE Request(v)
    BY <1>14 DEF Request, Rescan
<1>15. CASE LoadEnabled(v)
    BY <1>15 DEF LoadEnabled, InGroup
<1>16. CASE LoadHarmless(v)
    BY <1>16 DEF LoadHarmless, Compare, InGroup
<1>17. CASE LoadIdle(v)
    BY <1>17 DEF LoadIdle, Compare
<1>18. CASE LookIsolated(v)
    BY <1>18 DEF LookIsolated, Rescan
<1>19. CASE CasIsolated(v)
    BY <1>19 DEF CasIsolated, Rescan
<1>20. CASE DropIdle(v)
    BY <1>20 DEF DropIdle
<1>21. CASE DropHarmless(v)
    BY <1>21 DEF DropHarmless
<1>22. CASE Release(v)
    BY <1>22 DEF Release
<1>23. CASE EndRequest(v)
    BY <1>23 DEF EndRequest
<1>24. QED
    BY <1>3, <1>4, <1>5, <1>6, <1>7, <1>8, <1>9, <1>10, <1>11, <1>12, <1>13, <1>14, 
       <1>15, <1>16, <1>17, <1>18, <1>19, <1>20, <1>21, <1>22, <1>23 DEF Step, Waiting

(* So is the running check while t loads the masks.                        *)
LEMMA QuietKept ==
    ASSUME ConstantsOK, TypeOK, Owner, Counted,
           NEW t \in Threads, NEW u \in Threads, NEW v \in Threads, Step(v),
           isolated = t, u # t, pc[u] \notin Running
    PROVE  pc'[u] \notin Running
<1>1. rdv # 0
    <2>1. pc[t] \in Requesting
        BY DEF Owner, Requesting, Looping
    <2>2. QED
        BY <2>1, RdvPositive
<1>2. pc[u] \notin {"wonfull", "won", "isolated"}
    BY DEF Owner
<1> USE <1>1, <1>2, ConstantsOK DEF TypeOK, Goto, Running, Looping
<1>3. CASE HarmlessEnd(v)
    BY <1>3 DEF HarmlessEnd
<1>4. CASE CheckRequests(v)
    BY <1>4 DEF CheckRequests
<1>5. CASE HarmlessAgain(v)
    BY <1>5 DEF HarmlessAgain
<1>6. CASE LeaveTillEnd(v)
    BY <1>6 DEF LeaveTillEnd
<1>7. CASE IdleEnd(v)
    BY <1>7 DEF IdleEnd
<1>8. CASE IdleNow(v)
    BY <1>8 DEF IdleNow
<1>9. CASE HarmlessNow(v)
    BY <1>9 DEF HarmlessNow
<1>10. CASE Exit(v)
    BY <1>10 DEF Exit
<1>11. CASE Isolate(v)
    BY <1>11 DEF Isolate
<1>12. CASE IsolateFull(v)
    BY <1>12 DEF IsolateFull
<1>13. CASE FullHarmless(v)
    BY <1>13 DEF FullHarmless
<1>14. CASE Request(v)
    BY <1>14 DEF Request, Rescan
<1>15. CASE LoadEnabled(v)
    BY <1>15 DEF LoadEnabled, InGroup
<1>16. CASE LoadHarmless(v)
    BY <1>16 DEF LoadHarmless, Compare, InGroup
<1>17. CASE LoadIdle(v)
    BY <1>17 DEF LoadIdle, Compare
<1>18. CASE LookIsolated(v)
    BY <1>18 DEF LookIsolated, Rescan
<1>19. CASE CasIsolated(v)
    BY <1>19 DEF CasIsolated, Rescan
<1>20. CASE DropIdle(v)
    BY <1>20 DEF DropIdle
<1>21. CASE DropHarmless(v)
    BY <1>21 DEF DropHarmless
<1>22. CASE Release(v)
    BY <1>22 DEF Release
<1>23. CASE EndRequest(v)
    BY <1>23 DEF EndRequest
<1>24. QED
    BY <1>3, <1>4, <1>5, <1>6, <1>7, <1>8, <1>9, <1>10, <1>11, <1>12, <1>13, <1>14, 
       <1>15, <1>16, <1>17, <1>18, <1>19, <1>20, <1>21, <1>22, <1>23 DEF Step, Waiting

(* A thread whose step leaves isolated_thread with t was t itself, or has  *)
(* not touched what t knows.                                               *)
LEMMA OthersKeepLocals ==
    ASSUME TypeOK, NEW t \in Threads, NEW v \in Threads, Step(v), v # t
    PROVE  /\ pc'[t] = pc[t] /\ full'[t] = full[t] /\ tgrp'[t] = tgrp[t]
           /\ te'[t] = te[t] /\ th'[t] = th[t]
<1> USE DEF TypeOK, Goto, locals
<1>1. CASE HarmlessEnd(v)
    BY <1>1 DEF HarmlessEnd
<1>2. CASE CheckRequests(v)
    BY <1>2 DEF CheckRequests
<1>3. CASE HarmlessAgain(v)
    BY <1>3 DEF HarmlessAgain
<1>4. CASE LeaveTillEnd(v)
    BY <1>4 DEF LeaveTillEnd
<1>5. CASE IdleEnd(v)
    BY <1>5 DEF IdleEnd
<1>6. CASE IdleNow(v)
    BY <1>6 DEF IdleNow
<1>7. CASE HarmlessNow(v)
    BY <1>7 DEF HarmlessNow
<1>8. CASE Exit(v)
    BY <1>8 DEF Exit
<1>9. CASE Isolate(v)
    BY <1>9 DEF Isolate
<1>10. CASE IsolateFull(v)
    BY <1>10 DEF IsolateFull
<1>11. CASE FullHarmless(v)
    BY <1>11 DEF FullHarmless
<1>12. CASE Request(v)
    BY <1>12 DEF Request, Rescan
<1>13. CASE LoadEnabled(v)
    BY <1>13 DEF LoadEnabled, InGroup
<1>14. CASE LoadHarmless(v)
    BY <1>14 DEF LoadHarmless, Compare, InGroup
<1>15. CASE LoadIdle(v)
    BY <1>15 DEF LoadIdle, Compare
<1>16. CASE LookIsolated(v)
    BY <1>16 DEF LookIsolated, Rescan
<1>17. CASE CasIsolated(v)
    BY <1>17 DEF CasIsolated, Rescan
<1>18. CASE DropIdle(v)
    BY <1>18 DEF DropIdle
<1>19. CASE DropHarmless(v)
    BY <1>19 DEF DropHarmless
<1>20. CASE Release(v)
    BY <1>20 DEF Release
<1>21. CASE EndRequest(v)
    BY <1>21 DEF EndRequest
<1>22. QED
    BY <1>1, <1>2, <1>3, <1>4, <1>5, <1>6, <1>7, <1>8, <1>9, <1>10, <1>11, <1>12, 
       <1>13, <1>14, <1>15, <1>16, <1>17, <1>18, <1>19, <1>20, <1>21 DEF Step, Waiting

(* isolated_thread goes to a thread only by its own compare-and-swap, which *)
(* starts the second scan.                                                 *)
LEMMA NewOwner ==
    ASSUME ConstantsOK, TypeOK, NEW t \in Threads, NEW v \in Threads, Step(v),
           isolated' = t, isolated # t
    PROVE  pc'[t] = "scan" /\ tgrp'[t] = 1
<1> USE ConstantsOK DEF TypeOK, Goto, masks, locals
<1>1. CASE HarmlessEnd(v)
    BY <1>1 DEF HarmlessEnd
<1>2. CASE CheckRequests(v)
    BY <1>2 DEF CheckRequests
<1>3. CASE HarmlessAgain(v)
    BY <1>3 DEF HarmlessAgain
<1>4. CASE LeaveTillEnd(v)
    BY <1>4 DEF LeaveTillEnd
<1>5. CASE IdleEnd(v)
    BY <1>5 DEF IdleEnd
<1>6. CASE IdleNow(v)
    BY <1>6 DEF IdleNow
<1>7. CASE HarmlessNow(v)
    BY <1>7 DEF HarmlessNow
<1>8. CASE Exit(v)
    BY <1>8 DEF Exit
<1>9. CASE Isolate(v)
    BY <1>9 DEF Isolate
<1>10. CASE IsolateFull(v)
    BY <1>10 DEF IsolateFull
<1>11. CASE FullHarmless(v)
    BY <1>11 DEF FullHarmless
<1>12. CASE Request(v)
    BY <1>12 DEF Request, Rescan
<1>13. CASE LoadEnabled(v)
    BY <1>13 DEF LoadEnabled, InGroup
<1>14. CASE LoadHarmless(v)
    BY <1>14 DEF LoadHarmless, Compare, InGroup
<1>15. CASE LoadIdle(v)
    BY <1>15 DEF LoadIdle, Compare
<1>16. CASE LookIsolated(v)
    BY <1>16 DEF LookIsolated, Rescan
<1>17. CASE CasIsolated(v)
    BY <1>17 DEF CasIsolated, Rescan
<1>18. CASE DropIdle(v)
    BY <1>18 DEF DropIdle
<1>19. CASE DropHarmless(v)
    BY <1>19 DEF DropHarmless
<1>20. CASE Release(v)
    BY <1>20 DEF Release
<1>21. CASE EndRequest(v)
    BY <1>21 DEF EndRequest
<1>22. QED
    BY <1>1, <1>2, <1>3, <1>4, <1>5, <1>6, <1>7, <1>8, <1>9, <1>10, <1>11, <1>12, 
       <1>13, <1>14, <1>15, <1>16, <1>17, <1>18, <1>19, <1>20, <1>21 DEF Step, Waiting

(* A step of the owner keeps what it has seen and adds what it has loaded. *)
LEMMA OwnStep ==
    ASSUME ConstantsOK, IInv, NEW t \in Threads, NEW u \in Threads, Step(t),
           isolated = t, isolated' = t, u # t
    PROVE  /\ full'[t] = full[t]
           /\ pc'[t] \in Looping /\ GroupOf[u] < tgrp'[t] => Still(t, u)
           /\ pc'[t] \in {"loadharmless", "loadidle"} /\ GroupOf[u] = tgrp'[t]
                /\ u \notin te'[t] => Still(t, u)
           /\ pc'[t] = "loadidle" /\ u \in th'[t] => pc[u] \notin Running
           /\ pc'[t] \in {"look", "wonfull", "won", "isolated"} => Still(t, u)
<1> USE ConstantsOK DEF IInv
<1>1. TypeOK /\ InRange /\ GroupOf[u] \in 1 .. NbTgroups /\ tgrp[t] \in 0 .. NbTgroups + 1
    BY DEF TypeOK, ConstantsOK
<1>2. pc[t] \in (Looping \ {"cas"}) \cup {"wonfull", "won", "isolated"}
    BY DEF Owner
<1>3. /\ pc[t] \in Looping /\ GroupOf[u] < tgrp[t] => Still(t, u)
      /\ pc[t] \in {"loadharmless", "loadidle"} /\ GroupOf[u] = tgrp[t]
           /\ u \notin te[t] => Still(t, u)
      /\ pc[t] = "loadidle" /\ u \in th[t] => pc[u] \notin Running
      /\ pc[t] \in {"look", "wonfull", "won", "isolated"} => Still(t, u)
    BY DEF Seen
<1>4. CASE LoadEnabled(t)
    <2>1. u \notin enabled => Still(t, u)
        BY DEF BitsExact, Still, OutOfTasks, Running
    <2>2. QED
        BY <1>1, <1>3, <1>4, <2>1 DEF LoadEnabled, InGroup, Goto, TypeOK, Looping
<1>5. CASE LoadHarmless(t)
    <2>1. u \in harmless => pc[u] \notin Running
        BY DEF BitsExact, HarmlessSteps, Looping, Running
    <2>2. CASE full[t]
        BY <1>1, <1>3, <1>5, <2>1, <2>2
        DEF LoadHarmless, InGroup, Goto, TypeOK, Looping
    <2>3. CASE ~ full[t]
        <3>1. CASE te[t] \subseteq harmless
            <4>1. GroupOf[u] <= tgrp[t] => Still(t, u)
                BY <1>1, <1>3, <1>5, <2>1, <2>3, <3>1 DEF LoadHarmless, Still, Looping
            <4>2. QED
                BY <1>1, <1>5, <2>3, <3>1, <4>1
                DEF LoadHarmless, Compare, Goto, TypeOK, InRange, Looping
        <3>2. CASE ~ (te[t] \subseteq harmless)
            BY <1>1, <1>3, <1>5, <2>3, <3>2
            DEF LoadHarmless, Compare, Goto, TypeOK, Looping
        <3>3. QED
            BY <3>1, <3>2
    <2>4. QED
        BY <2>2, <2>3
<1>6. CASE LoadIdle(t)
    <2>1. u \in idle /\ pc[u] \notin Running => Still(t, u)
        BY DEF BitsExact, Still, OutOfTasks, Running
    <2>2. CASE te[t] \subseteq th[t] \cap idle
        <3>1. GroupOf[u] <= tgrp[t] => Still(t, u)
            BY <1>1, <1>3, <1>6, <2>1, <2>2 DEF LoadIdle, Looping
        <3>2. QED
            BY <1>1, <1>6, <2>2, <3>1
            DEF LoadIdle, Compare, Goto, TypeOK, InRange, Looping
    <2>3. CASE ~ (te[t] \subseteq th[t] \cap idle)
        BY <1>1, <1>3, <1>6, <2>3 DEF LoadIdle, Compare, Goto, TypeOK, Looping
    <2>4. QED
        BY <2>2, <2>3
<1>7. CASE LookIsolated(t)
    BY <1>1, <1>3, <1>7 DEF LookIsolated, Rescan, Goto, TypeOK, Looping
<1>8. CASE DropIdle(t) \/ DropHarmless(t)
    BY <1>1, <1>3, <1>8 DEF DropIdle, DropHarmless, Goto, TypeOK, Looping, locals
<1>9. ~ Release(t)
    BY DEF Release
<1>10. QED
    BY <1>2, <1>4, <1>5, <1>6, <1>7, <1>8, <1>9
    DEF Step, Waiting, Looping, HarmlessEnd, CheckRequests, HarmlessAgain,
        LeaveTillEnd, IdleEnd, IdleNow, HarmlessNow, Exit, Isolate, IsolateFull,
        FullHarmless, Request, CasIsolated, EndRequest

LEMMA SeenStep ==
    ASSUME ConstantsOK, IInv, NEW v \in Threads, Step(v)
    PROVE  Seen'
<1> SUFFICES ASSUME NEW t \in Threads, NEW u \in Threads, isolated' = t, u # t
             PROVE  /\ pc'[t] \in Looping /\ GroupOf[u] < tgrp'[t] => Still(t, u)'
                    /\ pc'[t] \in {"loadharmless", "loadidle"} /\ GroupOf[u] = tgrp'[t]
                         /\ u \notin te'[t] => Still(t, u)'
                    /\ pc'[t] = "loadidle" /\ u \in th'[t] => pc'[u] \notin Running
                    /\ pc'[t] \in {"look", "wonfull", "won", "isolated"} => Still(t, u)'
    BY DEF Seen
<1> USE DEF IInv
<1>1. CASE isolated # t
    BY <1>1, NewOwner DEF Looping, TypeOK, ConstantsOK
<1>2. CASE isolated = t /\ v # t
    <2>1. Still(t, u) => Still(t, u)'
        BY <1>2, StillKept, OthersKeepLocals
    <2>2. pc[u] \notin Running => pc'[u] \notin Running
        BY <1>2, QuietKept
    <2>3. QED
        BY <1>2, <2>1, <2>2, OthersKeepLocals DEF Seen
<1>3. CASE isolated = t /\ v = t
    <2>1. Still(t, u) => Still(t, u)'
        BY <1>3, StillKept, OwnStep
    <2>2. pc[u] \notin Running => pc'[u] \notin Running
        BY <1>3, QuietKept
    <2>3. QED
        BY <1>3, <2>1, <2>2, OwnStep
<1>4. QED
    BY <1>1, <1>2, <1>3

-----------------------------------------------------------------------------
(* The theorems                                                            *)

LEMMA InitIInv == ASSUME ConstantsOK, Init PROVE IInv
<1> USE ConstantsOK DEF Init
<1>1. TypeOK /\ InRange /\ BitsExact /\ Owner /\ Seen
    BY DEF TypeOK, InRange, BitsExact, HarmlessSteps, Owner, Seen, Steps, Running,
           Requesting, Looping, Hesitating
<1>2. {t \in Threads : pc[t] \in Requesting} = {}
    BY DEF Requesting, Looping
<1>3. Counted
    BY <1>2, FS_EmptySet DEF Counted, RequestsCounted
<1>4. QED
    BY <1>1, <1>3 DEF IInv

LEMMA NextIInv == ASSUME ConstantsOK, IInv, [Next]_vars PROVE IInv'
<1>1. CASE Next
    <2>1. PICK t \in Threads : Step(t)
        BY <1>1 DEF Next
    <2>2. QED
        BY <2>1, TypeStep, BitsStep, OwnerStep, CountedStep, SeenStep DEF IInv
<1>2. CASE UNCHANGED vars
    BY <1>2 DEF vars, IInv, TypeOK, InRange, BitsExact, Owner, Counted,
                RequestsCounted, Seen, Still, OutOfTasks
<1>3. QED
    BY <1>1, <1>2

(* The inductive invariant: types, bits, owner, counter and what the owner *)
(* of isolated_thread has seen.                                            *)
THEOREM Inductive == Spec => []IInv
<1>1. Init => IInv
    BY ConstantsOK, InitIInv
<1>2. IInv /\ [Next]_vars => IInv'
    BY ConstantsOK, NextIInv
<1>3. QED
    BY <1>1, <1>2, PTL DEF Spec

(* thread.c, thread_isolate(): a thread it has returned to runs alone.     *)
THEOREM IsolationHolds == Spec => []Isolation
<1>1. IInv => Isolation
    BY DEF IInv, Owner, Seen, Still, Isolation
<1>2. QED
    BY <1>1, Inductive, PTL

(* thread.c, thread_isolate_full(): and no other thread is in a task.      *)
THEOREM FullIsolationHolds == Spec => []FullIsolation
<1>1. IInv => FullIsolation
    BY DEF IInv, Owner, Seen, Still, FullIsolation
<1>2. QED
    BY <1>1, Inductive, PTL

(* thread.c: rdv_requests counts the requests, and the types are kept.     *)
THEOREM TypeCorrect == Spec => [](TypeOK /\ RequestsCounted)
<1>1. IInv => TypeOK /\ RequestsCounted
    BY DEF IInv, Counted
<1>2. QED
    BY <1>1, Inductive, PTL
=============================================================================
