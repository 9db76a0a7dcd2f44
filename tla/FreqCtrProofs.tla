--------------------------- MODULE FreqCtrProofs ---------------------------
(***************************************************************************)
(* The frequency counters, for any number of threads, any period, any      *)
(* width of the ticks and any uptime: the rotation of the periods is       *)
(* exclusive and loses no event, a reading is a state the counter was in,  *)
(* the counters hold no event that is older than their periods, and the    *)
(* total that is computed from a reading lies between nothing and          *)
(* everything that was read.                                               *)
(***************************************************************************)
EXTENDS FreqCtr, TLAPS

UpdaterSteps == {"idle", "add", "slow", "loadnow", "cas"} \cup Rotating

ReaderSteps == {"idle", "tick", "curr", "past", "again", "curragain",
                "pastagain", "result", "got"}

(* What the threads have, as far as a rotation depends on it: a thread     *)
(* that is about to take the lock has seen it free.                        *)
Types ==
    /\ tick \in Int /\ curr \in Int /\ prev \in Int
    /\ added \in Int /\ dropped \in Int
    /\ local \in [Updaters -> [tick : Int, now : Int, ctr : Int]]
    /\ pc \in [Updaters \cup Readers -> UpdaterSteps \cup ReaderSteps]
    /\ \A t \in Updaters : pc[t] \in UpdaterSteps
    /\ \A t \in Updaters : pc[t] = "cas" => ~Locked(local[t].tick)

IInv == Types /\ OneRotator /\ Conservation

LEMMA InitIInv == Init => IInv
<1> SUFFICES ASSUME Init PROVE IInv
  OBVIOUS
<1>1. Types
  BY DEF Init, Types, UpdaterSteps, NoLocals, Locked
<1>2. OneRotator
  BY DEF Init, OneRotator, Rotating, Locked
<1>3. Conservation
  BY DEF Init, Conservation
<1> QED BY <1>1, <1>2, <1>3 DEF IInv

(* Dates are integers, and an even tick has no lock bit.                   *)
LEMMA Dates ==
    /\ Wrap \in Int /\ Period \in Int
    /\ \A x \in Int : x % Wrap \in Int
    /\ \A x \in Int : Even(x) \in Int /\ ~Locked(Even(x))
    /\ \A x \in Int : ~Locked(x) => Locked(x + 1)
<1>1. Wrap \in Nat /\ Wrap > 0 /\ Period \in Nat
  BY ConstantsOK
<1>2. \A x \in Int : x % Wrap \in Int
  BY <1>1
<1>3. \A x \in Int : Even(x) \in Int /\ ~Locked(Even(x))
  BY DEF Even, Locked
<1>4. \A x \in Int : ~Locked(x) => Locked(x + 1)
  BY DEF Locked
<1> QED BY <1>1, <1>2, <1>3, <1>4

(* A reader changes nothing an updater depends on.                         *)
LEMMA ReaderKeeps ==
    ASSUME IInv, NEW r \in Readers, NEW from, NEW to \in ReaderSteps,
           ReaderStep(r, from, to)
    PROVE  IInv'
<1>1. /\ UNCHANGED <<tick, curr, prev, local, added, dropped>>
      /\ pc' = [pc EXCEPT ![r] = to]
      /\ \A t \in Updaters : pc'[t] = pc[t]
  BY ConstantsOK DEF ReaderStep, Goto, ctr, history, IInv, Types
<1>2. Types'
  BY <1>1 DEF IInv, Types
<1>3. OneRotator'
  BY <1>1 DEF IInv, OneRotator
<1>4. Conservation'
  BY <1>1 DEF IInv, Conservation
<1> QED BY <1>2, <1>3, <1>4 DEF IInv

(* Nor does a step of an updater that neither begins, performs nor ends a  *)
(* rotation, and counts nothing.                                           *)
LEMMA LookKeeps ==
    ASSUME IInv, NEW t \in Updaters,
           NEW to \in {"idle", "add", "slow", "loadnow", "cas"},
           pc[t] \notin Rotating,
           pc' = [pc EXCEPT ![t] = to],
           UNCHANGED <<tick, curr, prev, added, dropped>>,
           local' \in [Updaters -> [tick : Int, now : Int, ctr : Int]],
           \A u \in Updaters \ {t} : local'[u] = local[u],
           to = "cas" => ~Locked(local'[t].tick)
    PROVE  IInv'
<1>1. /\ pc'[t] = to
      /\ \A u \in Updaters \ {t} : pc'[u] = pc[u]
  BY DEF IInv, Types
<1>2. to \in UpdaterSteps /\ to \notin Rotating
  BY DEF UpdaterSteps, Rotating
<1>3. Types'
  BY <1>1, <1>2 DEF IInv, Types
<1>4. OneRotator'
  BY <1>1, <1>2 DEF IInv, OneRotator
<1>5. Conservation'
  BY <1>1, <1>2 DEF IInv, Conservation, Rotating
<1> QED BY <1>3, <1>4, <1>5 DEF IInv

LEMMA UpdateKeeps ==
    ASSUME IInv, NEW t \in Updaters, Update(t)
    PROVE  IInv'
<1>1. PICK to \in {"add", "slow"} : pc' = [pc EXCEPT ![t] = to]
  BY DEF Update, Goto
<1>2. /\ pc[t] \notin Rotating
      /\ UNCHANGED <<tick, curr, prev, added, dropped, local>>
  BY DEF Update, ctr, history, Rotating
<1>3. local' \in [Updaters -> [tick : Int, now : Int, ctr : Int]]
  BY <1>2 DEF IInv, Types
<1> QED BY <1>1, <1>2, <1>3, LookKeeps

LEMMA LoadTickKeeps ==
    ASSUME IInv, NEW t \in Updaters, LoadTick(t)
    PROVE  IInv'
<1>1. /\ pc[t] \notin Rotating
      /\ pc' = [pc EXCEPT ![t] = "loadnow"]
      /\ UNCHANGED <<tick, curr, prev, added, dropped>>
  BY DEF LoadTick, Goto, ctr, history, Rotating
<1>2. /\ local' \in [Updaters -> [tick : Int, now : Int, ctr : Int]]
      /\ \A u \in Updaters \ {t} : local'[u] = local[u]
  BY DEF LoadTick, IInv, Types
<1> QED BY <1>1, <1>2, LookKeeps

LEMMA LoadNowKeeps ==
    ASSUME IInv, NEW t \in Updaters, LoadNow(t), Now \in Int
    PROVE  IInv'
<1>1. /\ pc[t] \notin Rotating
      /\ UNCHANGED <<tick, curr, prev, added, dropped>>
  BY DEF LoadNow, ctr, history, Rotating
<1>2. CASE /\ local' = [local EXCEPT ![t] = NoLocals]
           /\ pc' = [pc EXCEPT ![t] = "add"]
  <2>1. /\ local' \in [Updaters -> [tick : Int, now : Int, ctr : Int]]
        /\ \A u \in Updaters \ {t} : local'[u] = local[u]
    BY <1>2 DEF IInv, Types, NoLocals
  <2> QED BY <1>1, <1>2, <2>1, LookKeeps
<1>3. CASE /\ local' = [local EXCEPT ![t].now = Now]
           /\ pc' = [pc EXCEPT ![t] = IF Locked(local[t].tick) THEN "slow" ELSE "cas"]
  <2>1. /\ local' \in [Updaters -> [tick : Int, now : Int, ctr : Int]]
        /\ \A u \in Updaters \ {t} : local'[u] = local[u]
        /\ local'[t].tick = local[t].tick
    BY <1>3 DEF IInv, Types
  <2>2. CASE Locked(local[t].tick)
    <3>1. pc' = [pc EXCEPT ![t] = "slow"]
      BY <1>3, <2>2
    <3> QED BY <1>1, <2>1, <3>1, LookKeeps
  <2>3. CASE ~Locked(local[t].tick)
    <3>1. pc' = [pc EXCEPT ![t] = "cas"]
      BY <1>3, <2>3
    <3> QED BY <1>1, <2>1, <2>3, <3>1, LookKeeps
  <2> QED BY <2>2, <2>3
<1> QED BY <1>2, <1>3 DEF LoadNow, Goto

(* An event is added to the current period, rotation or not.               *)
LEMMA AddKeeps ==
    ASSUME IInv, NEW t \in Updaters, Add(t)
    PROVE  IInv'
<1>1. /\ pc[t] = "add"
      /\ pc' = [pc EXCEPT ![t] = "idle"]
      /\ curr' = curr + 1 /\ added' = added + 1
      /\ UNCHANGED <<tick, prev, dropped, local>>
  BY DEF Add, Goto
<1>2. /\ pc'[t] = "idle"
      /\ \A u \in Updaters \ {t} : pc'[u] = pc[u]
  BY <1>1 DEF IInv, Types
<1>3. Types'
  BY <1>1, <1>2 DEF IInv, Types, UpdaterSteps
<1>4. OneRotator'
  BY <1>1, <1>2 DEF IInv, OneRotator, Rotating
<1>5. Conservation'
  BY <1>1, <1>2 DEF IInv, Types, Conservation
<1> QED BY <1>3, <1>4, <1>5 DEF IInv

(* The lock is taken by a compare-and-swap from an even tick.              *)
LEMMA CasKeeps ==
    ASSUME IInv, NEW t \in Updaters, Cas(t)
    PROVE  IInv'
<1>1. /\ pc[t] = "cas"
      /\ UNCHANGED <<curr, prev, added, dropped>>
  BY DEF Cas, history
<1>2. CASE /\ tick = local[t].tick
           /\ tick' = tick + 1
           /\ pc' = [pc EXCEPT ![t] = "xchg"]
           /\ UNCHANGED local
  <2>1. /\ pc'[t] = "xchg"
        /\ \A u \in Updaters \ {t} : pc'[u] = pc[u]
    BY <1>2 DEF IInv, Types
  <2>2. ~Locked(tick) /\ Locked(tick')
    BY <1>1, <1>2, Dates DEF IInv, Types
  <2>3. \A u \in Updaters : pc[u] \notin Rotating
    BY <2>2 DEF IInv, OneRotator
  <2>4. Types'
    BY <1>1, <1>2, <2>1 DEF IInv, Types, UpdaterSteps, Rotating
  <2>5. OneRotator'
    BY <2>1, <2>2, <2>3 DEF OneRotator, Rotating
  <2>6. Conservation'
    BY <1>1, <2>1, <2>3 DEF IInv, Conservation, Rotating
  <2> QED BY <2>4, <2>5, <2>6 DEF IInv
<1>3. CASE /\ local' = [local EXCEPT ![t] = NoLocals]
           /\ pc' = [pc EXCEPT ![t] = "slow"]
           /\ UNCHANGED tick
  <2>1. /\ local' \in [Updaters -> [tick : Int, now : Int, ctr : Int]]
        /\ \A u \in Updaters \ {t} : local'[u] = local[u]
    BY <1>3 DEF IInv, Types, NoLocals
  <2>2. pc[t] \notin Rotating
    BY <1>1 DEF Rotating
  <2> QED BY <1>1, <1>3, <2>1, <2>2, LookKeeps
<1> QED BY <1>2, <1>3 DEF Cas, Goto

(* The thread that rotates is the only one, and stays it.                  *)
LEMMA RotatorMoves ==
    ASSUME IInv, NEW t \in Updaters, pc[t] \in Rotating,
           NEW to \in Rotating,
           pc' = [pc EXCEPT ![t] = to], UNCHANGED tick
    PROVE  /\ OneRotator'
           /\ pc'[t] = to
           /\ \A u \in Updaters \ {t} : pc'[u] = pc[u] /\ pc[u] \notin Rotating
<1>1. /\ pc'[t] = to
      /\ \A u \in Updaters \ {t} : pc'[u] = pc[u] /\ pc[u] \notin Rotating
  BY DEF IInv, Types, OneRotator
<1>2. Locked(tick)
  BY DEF IInv, OneRotator
<1> QED BY <1>1, <1>2 DEF OneRotator

LEMMA XchgKeeps ==
    ASSUME IInv, NEW t \in Updaters, Xchg(t)
    PROVE  IInv'
<1>1. /\ pc[t] = "xchg"
      /\ local' = [local EXCEPT ![t].ctr = curr]
      /\ curr' = 1 /\ added' = added + 1
      /\ pc' = [pc EXCEPT ![t] = "store"]
      /\ UNCHANGED <<tick, prev, dropped>>
  BY DEF Xchg, Goto
<1>2. pc[t] \in Rotating /\ "store" \in Rotating
  BY <1>1 DEF Rotating
<1>3. /\ OneRotator'
      /\ pc'[t] = "store"
      /\ \A u \in Updaters \ {t} : pc'[u] = pc[u] /\ pc[u] \notin Rotating
  BY <1>1, <1>2, RotatorMoves
<1>4. /\ local' \in [Updaters -> [tick : Int, now : Int, ctr : Int]]
      /\ local'[t].ctr = curr
      /\ \A u \in Updaters \ {t} : local'[u] = local[u]
  BY <1>1 DEF IInv, Types
<1>5. Types'
  BY <1>1, <1>2, <1>3, <1>4 DEF IInv, Types, UpdaterSteps
<1>6. added = curr + prev + dropped
  BY <1>1, <1>3 DEF IInv, Conservation, Rotating
<1>7. Conservation'
  BY <1>1, <1>3, <1>4, <1>6 DEF IInv, Types, Conservation, Rotating
<1> QED BY <1>3, <1>5, <1>7 DEF IInv

LEMMA StoreKeeps ==
    ASSUME IInv, NEW t \in Updaters, Store(t)
    PROVE  IInv'
<1>1. PICK to \in {"zero", "unlock"} :
        /\ pc[t] = "store"
        /\ prev' = local[t].ctr
        /\ dropped' = dropped + prev
        /\ local' = [local EXCEPT ![t].ctr = 0]
        /\ pc' = [pc EXCEPT ![t] = to]
        /\ UNCHANGED <<tick, curr, added>>
  BY DEF Store, Goto
<1>2. pc[t] \in Rotating /\ to \in Rotating /\ to # "store"
  BY <1>1 DEF Rotating
<1>3. /\ OneRotator'
      /\ pc'[t] = to
      /\ \A u \in Updaters \ {t} : pc'[u] = pc[u] /\ pc[u] \notin Rotating
  BY <1>1, <1>2, RotatorMoves
<1>4. /\ local' \in [Updaters -> [tick : Int, now : Int, ctr : Int]]
      /\ \A u \in Updaters \ {t} : local'[u] = local[u]
      /\ local[t].ctr \in Int
  BY <1>1 DEF IInv, Types
<1>5. Types'
  BY <1>1, <1>2, <1>3, <1>4 DEF IInv, Types, UpdaterSteps, Rotating
<1>6. added = curr + local[t].ctr + prev + dropped
  BY <1>1 DEF IInv, Conservation
<1>7. added' = curr' + prev' + dropped'
  BY <1>1, <1>4, <1>6 DEF IInv, Types
<1>8. \A u \in Updaters : pc'[u] # "store"
  BY <1>2, <1>3 DEF Rotating
<1>9. Conservation'
  BY <1>7, <1>8 DEF Conservation
<1> QED BY <1>3, <1>5, <1>9 DEF IInv

LEMMA ZeroKeeps ==
    ASSUME IInv, NEW t \in Updaters, Zero(t)
    PROVE  IInv'
<1>1. /\ pc[t] = "zero"
      /\ prev' = 0 /\ dropped' = dropped + prev
      /\ pc' = [pc EXCEPT ![t] = "unlock"]
      /\ UNCHANGED <<tick, curr, local, added>>
  BY DEF Zero, Goto
<1>2. pc[t] \in Rotating /\ "unlock" \in Rotating
  BY <1>1 DEF Rotating
<1>3. /\ OneRotator'
      /\ pc'[t] = "unlock"
      /\ \A u \in Updaters \ {t} : pc'[u] = pc[u] /\ pc[u] \notin Rotating
  BY <1>1, <1>2, RotatorMoves
<1>4. Types'
  BY <1>1, <1>2, <1>3 DEF IInv, Types, UpdaterSteps
<1>5. added = curr + prev + dropped
  BY <1>1, <1>3 DEF IInv, Conservation, Rotating
<1>6. \A u \in Updaters : pc'[u] # "store"
  BY <1>3 DEF Rotating
<1>7. added' = curr' + prev' + dropped'
  BY <1>1, <1>5 DEF IInv, Types
<1>8. Conservation'
  BY <1>6, <1>7 DEF Conservation
<1> QED BY <1>3, <1>4, <1>8 DEF IInv

(* The store of an even tick ends the rotation.                            *)
LEMMA UnlockKeeps ==
    ASSUME IInv, NEW t \in Updaters, Unlock(t)
    PROVE  IInv'
<1>1. /\ pc[t] = "unlock"
      /\ local' = [local EXCEPT ![t] = NoLocals]
      /\ pc' = [pc EXCEPT ![t] = "idle"]
      /\ UNCHANGED <<curr, prev, added, dropped>>
  BY DEF Unlock, Goto, history
<1>2. pc[t] \in Rotating
  BY <1>1 DEF Rotating
<1>3. /\ pc'[t] = "idle"
      /\ \A u \in Updaters \ {t} : pc'[u] = pc[u] /\ pc[u] \notin Rotating
  BY <1>1, <1>2 DEF IInv, Types, OneRotator
<1>4. local[t].now \in Int /\ local[t].tick \in Int
  BY DEF IInv, Types
<1>5. PICK x \in Int : tick' = Even(x)
  <2>1. CASE Missed(t)
    BY <1>4, <2>1 DEF Unlock
  <2>2. CASE ~Missed(t)
    <3>1. (local[t].tick + Period) % Wrap \in Int
      BY <1>4, Dates
    <3> QED BY <2>2, <3>1 DEF Unlock
  <2> QED BY <2>1, <2>2
<1>6. tick' \in Int /\ ~Locked(tick')
  BY <1>5, Dates
<1>7. Types'
  BY <1>1, <1>3, <1>6 DEF IInv, Types, UpdaterSteps, NoLocals
<1>8. OneRotator'
  BY <1>3, <1>6 DEF OneRotator, Rotating
<1>9. Conservation'
  BY <1>1, <1>3 DEF IInv, Conservation, Rotating
<1> QED BY <1>7, <1>8, <1>9 DEF IInv

LEMMA StutterKeeps ==
    ASSUME IInv, UNCHANGED <<ctr, pc, local, added, dropped>>
    PROVE  IInv'
<1>1. Types'
  BY DEF IInv, Types, ctr
<1>2. OneRotator'
  BY DEF IInv, OneRotator, ctr
<1>3. Conservation'
  BY DEF IInv, Conservation, ctr
<1> QED BY <1>1, <1>2, <1>3 DEF IInv

LEMMA ReadingKeeps ==
    ASSUME IInv, NEW r \in Readers,
           \/ StartRead(r) \/ ReadTick(r) \/ ReadCurr(r) \/ ReadPast(r)
           \/ TickAgain(r) \/ CurrAgain(r) \/ PastAgain(r) \/ Result(r) \/ EndRead(r)
    PROVE  IInv'
<1>1. \E from, to \in ReaderSteps : ReaderStep(r, from, to)
  <2>1. CASE StartRead(r)
    BY <2>1 DEF StartRead, ReaderSteps
  <2>2. CASE ReadTick(r)
    BY <2>2 DEF ReadTick, ReaderSteps
  <2>3. CASE ReadCurr(r)
    BY <2>3 DEF ReadCurr, ReaderSteps
  <2>4. CASE ReadPast(r)
    BY <2>4 DEF ReadPast, ReaderSteps
  <2>5. CASE TickAgain(r)
    BY <2>5 DEF TickAgain, ReaderSteps
  <2>6. CASE CurrAgain(r)
    BY <2>6 DEF CurrAgain, ReaderSteps
  <2>7. CASE PastAgain(r)
    BY <2>7 DEF PastAgain, ReaderSteps
  <2>8. CASE Result(r)
    BY <2>8 DEF Result, ReaderSteps
  <2>9. CASE EndRead(r)
    BY <2>9 DEF EndRead, ReaderSteps
  <2> QED BY <2>1, <2>2, <2>3, <2>4, <2>5, <2>6, <2>7, <2>8, <2>9
<1> QED BY <1>1, ReaderKeeps

LEMMA NextIInv ==
    ASSUME IInv, [Next]_vars, clock \in Int
    PROVE  IInv'
<1>1. Now \in Int
  <2>1. Start \in Int
    BY ConstantsOK
  <2> QED BY <2>1, Dates DEF Now
<1>2. CASE Tick
  BY <1>2, StutterKeeps DEF Tick
<1>3. ASSUME NEW t \in Updaters,
             \/ Update(t) \/ Add(t) \/ LoadTick(t) \/ LoadNow(t) \/ Cas(t)
             \/ Xchg(t) \/ Store(t) \/ Zero(t) \/ Unlock(t)
      PROVE  IInv'
  BY <1>1, <1>3, UpdateKeeps, AddKeeps, LoadTickKeeps, LoadNowKeeps, CasKeeps,
     XchgKeeps, StoreKeeps, ZeroKeeps, UnlockKeeps
<1>4. ASSUME NEW r \in Readers,
             \/ StartRead(r) \/ ReadTick(r) \/ ReadCurr(r) \/ ReadPast(r)
             \/ TickAgain(r) \/ CurrAgain(r) \/ PastAgain(r) \/ Result(r)
             \/ EndRead(r)
      PROVE  IInv'
  BY <1>4, ReadingKeeps
<1>5. CASE UNCHANGED vars
  BY <1>5, StutterKeeps DEF vars, ctr
<1> QED BY <1>2, <1>3, <1>4, <1>5 DEF Next

(* The real time is a number.                                              *)
LEMMA ClockInt == Spec => [](clock \in Int)
<1>1. Init => clock \in Int
  BY DEF Init
<1>2. clock \in Int /\ [Next]_vars => (clock \in Int)'
  <2> SUFFICES ASSUME clock \in Int, [Next]_vars PROVE clock' \in Int
    OBVIOUS
  <2>1. clock' = clock \/ clock' = clock + 1 \/ clock' = clock + 2
    BY DEF Next, vars, Tick, Update, Add, LoadTick, LoadNow, Cas, Xchg, Store,
           Zero, Unlock, StartRead, ReadTick, ReadCurr, ReadPast, TickAgain,
           CurrAgain, PastAgain, Result, EndRead, ReaderStep
  <2> QED BY <2>1
<1> QED BY <1>1, <1>2, PTL DEF Spec

(* What a rotation depends on, at all times.                               *)
THEOREM Inductive == Spec => []IInv
<1>1. Spec => [](clock \in Int)
  BY ClockInt
<1>2. IInv /\ clock \in Int /\ [Next]_vars => IInv'
  BY NextIInv
<1> QED BY <1>1, <1>2, InitIInv, PTL DEF Spec

(* At most one thread rotates the periods, and the lock bit of curr_tick   *)
(* is set exactly while it does.                                           *)
THEOREM RotationExclusive == Spec => []OneRotator
<1>1. IInv => OneRotator
  BY DEF IInv
<1> QED BY <1>1, Inductive, PTL

(* Every event that was counted is in curr_ctr, in prev_ctr, on its way    *)
(* between them, or has left with its period: the rotation loses none,     *)
(* whatever is added meanwhile.                                            *)
THEOREM NoEventLost == Spec => []Conservation
<1>1. IInv => Conservation
  BY DEF IInv
<1> QED BY <1>1, Inductive, PTL

-----------------------------------------------------------------------------
(* The readers                                                             *)

(* The period that r has found has not been rotated out.                   *)
Same(r) == tick = read[r].tick /\ ~Locked(tick)

(* The counter was c since r began, with the prev_ctr it has now.          *)
Saw(r, c) ==
    \E e \in seen[r] : e.tick = read[r].tick /\ e.curr = c /\ e.past = prev

(* The counter was c, and p if r reads it, in the period r works with.     *)
Found(r, c, p) ==
    \E e \in seen[r] :
        /\ e.tick = read[r].tick /\ e.curr = c
        /\ read[r].whole => e.past = p

(* What a reading has is real if it is found to be of one period, and the  *)
(* first load of a value is what makes it so: the second only says that    *)
(* there was no rotation between them.                                     *)
ReadingReal(r) ==
    /\ pc[r] \in {"past", "again", "pastagain"} /\ Same(r) => Saw(r, read[r].curr)
    /\ pc[r] = "again" /\ Same(r) /\ read[r].whole => read[r].past = prev
    /\ pc[r] = "curragain" => Found(r, read[r].oldCurr, read[r].oldPast)
    /\ pc[r] = "pastagain" => Found(r, read[r].curr, read[r].oldPast)
    /\ pc[r] \in {"result", "got"} => Found(r, read[r].curr, read[r].past)

ReadingOK(r) ==
    /\ pc[r] # "idle" /\ ~Locked(tick) => Snapshot \in seen[r]
    /\ r \notin reused => ReadingReal(r)

ReadRecords == [tick : Int, curr : Int, past : Int, oldCurr : Int,
                oldPast : Int, whole : BOOLEAN, total : Int, since : Int]

RInv ==
    /\ read \in [Readers -> ReadRecords]
    /\ seen = [r \in Readers |-> seen[r]]
    /\ \A r \in Readers : ReadingOK(r)

LEMMA InitRInv == Init => RInv
BY DEF Init, RInv, ReadRecords, NoRead, ReadingOK, ReadingReal

(* A step that leaves the readings alone keeps what they have found, if    *)
(* their period is over after it or was not touched by it.                 *)
LEMMA ReadingsKept ==
    ASSUME RInv, UNCHANGED read, NEW seen1, seen' = [r \in Readers |-> seen1[r]],
           reused \subseteq reused',
           \A r \in Readers :
             /\ pc'[r] = pc[r] /\ seen[r] \subseteq seen1[r]
             /\ pc[r] # "idle" /\ Same(r)' /\ r \notin reused'
                  => Same(r) /\ prev' = prev
             /\ pc[r] # "idle" /\ ~Locked(tick') => Snapshot' \in seen1[r]
    PROVE  RInv'
<1>1. \A r \in Readers : seen'[r] = seen1[r]
  OBVIOUS
<1>2. ASSUME NEW r \in Readers, r \notin reused' PROVE ReadingReal(r)'
  <2>1. /\ pc'[r] = pc[r] /\ read'[r] = read[r] /\ seen[r] \subseteq seen'[r]
        /\ pc[r] # "idle" /\ Same(r)' => Same(r) /\ prev' = prev
    BY <1>1, <1>2
  <2>2. \A c, p : Found(r, c, p) => Found(r, c, p)'
    BY <2>1 DEF Found
  <2>3. \A c : pc[r] # "idle" /\ Same(r)' /\ Saw(r, c) => Saw(r, c)'
    BY <2>1 DEF Saw
  <2>4. ReadingReal(r)
    BY <1>2 DEF RInv, ReadingOK
  <2>5. pc[r] \in {"past", "again", "pastagain", "curragain", "result", "got"}
          => pc[r] # "idle"
    OBVIOUS
  <2>6. (pc[r] \in {"past", "again", "pastagain"} /\ Same(r)
          => Saw(r, read[r].curr))'
    BY <2>1, <2>3, <2>4, <2>5 DEF ReadingReal, Saw
  <2>7. (pc[r] = "again" /\ Same(r) /\ read[r].whole => read[r].past = prev)'
    BY <2>1, <2>4, <2>5 DEF ReadingReal
  <2>8. (/\ pc[r] = "curragain" => Found(r, read[r].oldCurr, read[r].oldPast)
         /\ pc[r] = "pastagain" => Found(r, read[r].curr, read[r].oldPast)
         /\ pc[r] \in {"result", "got"} => Found(r, read[r].curr, read[r].past))'
    BY <2>1, <2>4 DEF ReadingReal, Found
  <2> QED BY <2>6, <2>7, <2>8 DEF ReadingReal
<1>3. \A r \in Readers : ReadingOK(r)'
  BY <1>1, <1>2 DEF ReadingOK
<1>4. seen' = [r \in Readers |-> seen'[r]]
  BY <1>1
<1> QED BY <1>3, <1>4 DEF RInv

(* The steps of the updaters and of the clock that do not touch the        *)
(* counter.                                                                *)
LEMMA UntouchedKeeps ==
    ASSUME RInv, UNCHANGED <<ctr, read, oldest, witness>>,
           \A r \in Readers : pc'[r] = pc[r]
    PROVE  RInv'
<1>1. seen' = [r \in Readers |-> seen[r]] /\ reused' = reused
  BY DEF RInv, witness
<1>2. ASSUME NEW r \in Readers
      PROVE  /\ Same(r)' => Same(r) /\ prev' = prev
             /\ pc[r] # "idle" /\ ~Locked(tick') => Snapshot' \in seen[r]
  BY DEF RInv, ReadingOK, Same, Snapshot, ctr
<1> QED BY <1>1, <1>2, ReadingsKept

(* A step of a rotation, which no reading can take for a quiet moment.     *)
LEMMA LockedKeeps ==
    ASSUME RInv, UNCHANGED <<read, witness>>, Locked(tick'),
           \A r \in Readers : pc'[r] = pc[r]
    PROVE  RInv'
<1>1. seen' = [r \in Readers |-> seen[r]] /\ reused' = reused
  BY DEF RInv, witness
<1>2. \A r \in Readers : ~ Same(r)'
  BY DEF Same
<1> QED BY <1>1, <1>2, ReadingsKept

(* A step that all readings witness.                                       *)
LEMMA WitnessedKeeps ==
    ASSUME RInv, UNCHANGED read, Witness,
           \A r \in Readers : pc'[r] = pc[r],
           \A r \in Readers :
              pc[r] # "idle" /\ Same(r)' /\ r \notin reused'
                => Same(r) /\ prev' = prev
    PROVE  RInv'
<1> DEFINE seen1 == [r \in Readers |->
             IF pc[r] = "idle" \/ Locked(tick') THEN seen[r]
             ELSE seen[r] \cup {Snapshot'}]
<1>1. seen' = [r \in Readers |-> seen1[r]] /\ reused \subseteq reused'
  BY DEF Witness
<1>2. ASSUME NEW r \in Readers
      PROVE  /\ seen[r] \subseteq seen1[r]
             /\ pc[r] # "idle" /\ ~Locked(tick') => Snapshot' \in seen1[r]
  OBVIOUS
<1> HIDE DEF seen1
<1> QED BY <1>1, <1>2, ReadingsKept

(* The steps of an updater.                                                *)
LEMMA UpdaterKeepsReadings ==
    ASSUME IInv, RInv, NEW t \in Updaters,
           \/ Update(t) \/ Add(t) \/ LoadTick(t) \/ LoadNow(t) \/ Cas(t)
           \/ Xchg(t) \/ Store(t) \/ Zero(t) \/ Unlock(t)
    PROVE  RInv'
<1>1. UNCHANGED read /\ \A r \in Readers : pc'[r] = pc[r]
  <2>1. UNCHANGED read /\ \E to : pc' = [pc EXCEPT ![t] = to]
    BY DEF Update, Add, LoadTick, LoadNow, Cas, Xchg, Store, Zero, Unlock, Goto
  <2> QED BY <2>1, ConstantsOK DEF IInv, Types
<1>2. CASE Update(t) \/ LoadTick(t) \/ LoadNow(t)
  <2>1. UNCHANGED <<ctr, read, oldest, witness>>
    BY <1>1, <1>2 DEF Update, LoadTick, LoadNow, history
  <2> QED BY <1>1, <2>1, UntouchedKeeps
<1>3. CASE Add(t)
  <2>1. Witness /\ tick' = tick /\ prev' = prev
    BY <1>3 DEF Add
  <2> QED BY <1>1, <2>1, WitnessedKeeps DEF Same
<1>4. CASE Cas(t)
  <2>1. CASE tick' = tick
    <3>1. UNCHANGED <<ctr, read, oldest, witness>>
      BY <1>1, <1>4, <2>1 DEF Cas, ctr, history
    <3> QED BY <1>1, <3>1, UntouchedKeeps
  <2>2. CASE tick = local[t].tick /\ tick' = tick + 1
    <3>1. ~Locked(local[t].tick) /\ local[t].tick \in Int
      BY <1>4 DEF Cas, IInv, Types
    <3>2. Locked(tick')
      BY <2>2, <3>1, Dates
    <3>3. UNCHANGED witness
      BY <1>4 DEF Cas
    <3> QED BY <1>1, <3>2, <3>3, LockedKeeps
  <2> QED BY <1>4, <2>1, <2>2 DEF Cas
<1>5. CASE Xchg(t) \/ Store(t) \/ Zero(t)
  <2>1. pc[t] \in Rotating /\ tick' = tick /\ UNCHANGED witness
    BY <1>5 DEF Xchg, Store, Zero, Rotating
  <2>2. Locked(tick')
    BY <2>1 DEF IInv, OneRotator
  <2> QED BY <1>1, <2>1, <2>2, LockedKeeps
<1>6. CASE Unlock(t)
  <2>1. pc[t] \in Rotating /\ Witness
    BY <1>6 DEF Unlock, Rotating
  <2>2. Locked(tick)
    BY <2>1 DEF IInv, OneRotator
  <2>3. ASSUME NEW r \in Readers, pc[r] # "idle", Same(r)' PROVE r \in reused'
    BY <1>1, <2>1, <2>2, <2>3 DEF Same, Witness
  <2> QED BY <1>1, <2>1, <2>3, WitnessedKeeps
<1> QED BY <1>2, <1>3, <1>4, <1>5, <1>6

(* A step of a reader: the counter and the other readings stay.            *)
LEMMA OwnReading ==
    ASSUME IInv, RInv, NEW r \in Readers, NEW from, NEW to \in ReaderSteps,
           ReaderStep(r, from, to), NEW rec \in ReadRecords, NEW s,
           read' = [read EXCEPT ![r] = rec], seen' = [seen EXCEPT ![r] = s],
           reused' = reused \/ reused' = reused \ {r},
           ReadingOK(r)'
    PROVE  RInv'
<1>1. /\ UNCHANGED <<tick, curr, prev, oldest>>
      /\ \A u \in Readers \ {r} :
            /\ pc'[u] = pc[u] /\ read'[u] = read[u] /\ seen'[u] = seen[u]
            /\ u \in reused' <=> u \in reused
  BY DEF ReaderStep, Goto, ctr, history, IInv, Types, RInv
<1>2. ASSUME NEW u \in Readers \ {r} PROVE ReadingOK(u)'
  <2>1. ReadingOK(u)
    BY DEF RInv
  <2>2. Snapshot' = Snapshot
    BY <1>1 DEF Snapshot
  <2>3. ReadingReal(u) => ReadingReal(u)'
    BY <1>1 DEF ReadingReal, Same, Saw, Found
  <2> QED BY <1>1, <2>1, <2>2, <2>3 DEF ReadingOK
<1>3. read' \in [Readers -> ReadRecords]
  BY DEF RInv
<1>4. seen' = [u \in Readers |-> seen'[u]]
  BY DEF RInv
<1> QED BY <1>2, <1>3, <1>4 DEF RInv

(* What a reader has after a step of its own.                              *)
LEMMA OwnValues ==
    ASSUME IInv, RInv, NEW r \in Readers, NEW from, NEW to,
           ReaderStep(r, from, to)
    PROVE  /\ pc[r] = from /\ pc'[r] = to /\ read[r] \in ReadRecords
           /\ tick \in Int /\ curr \in Int /\ prev \in Int /\ Snapshot' = Snapshot
           /\ ReadingOK(r)
BY DEF ReaderStep, Goto, ctr, history, IInv, Types, RInv, Snapshot

(* A reading starts over, with a tick it has just loaded.                  *)
LEMMA LookKeepsReadings ==
    ASSUME IInv, RInv, NEW r \in Readers, NEW from, NEW to \in {"curr", "tick"},
           ReaderStep(r, from, to), Look(r), NEW rec \in ReadRecords,
           read' = [read EXCEPT ![r] = rec]
    PROVE  RInv'
<1>1. pc'[r] = to /\ Snapshot' = Snapshot /\ UNCHANGED <<tick, curr, prev>>
  BY OwnValues DEF ReaderStep, ctr
<1>2. PICK s : /\ seen' = [seen EXCEPT ![r] = s]
               /\ ~Locked(tick) => Snapshot \in s
  BY DEF Look
<1>3. seen'[r] = s /\ reused' = reused \ {r}
  BY <1>2 DEF RInv, Look
<1>4. ReadingReal(r)'
  BY <1>1 DEF ReadingReal
<1>5. ReadingOK(r)'
  BY <1>1, <1>2, <1>3, <1>4 DEF ReadingOK
<1>6. to \in ReaderSteps
  BY DEF ReaderSteps
<1> QED BY <1>2, <1>3, <1>5, <1>6, OwnReading

(* A reading goes on: nothing is forgotten.                                *)
LEMMA GoOnKeepsReadings ==
    ASSUME IInv, RInv, NEW r \in Readers, NEW from \in ReaderSteps \ {"idle"},
           NEW to \in ReaderSteps, ReaderStep(r, from, to), UNCHANGED witness,
           NEW rec \in ReadRecords, read' = [read EXCEPT ![r] = rec],
           rec.tick = read[r].tick, rec.whole = read[r].whole,
           r \notin reused =>
             /\ to \in {"past", "again", "pastagain"} /\ Same(r)
                  => Saw(r, rec.curr)
             /\ to = "again" /\ Same(r) /\ rec.whole => rec.past = prev
             /\ to = "curragain" => Found(r, rec.oldCurr, rec.oldPast)
             /\ to = "pastagain" => Found(r, rec.curr, rec.oldPast)
             /\ to \in {"result", "got"} => Found(r, rec.curr, rec.past)
    PROVE  RInv'
<1>1. /\ pc[r] = from /\ pc'[r] = to /\ Snapshot' = Snapshot /\ ReadingOK(r)
      /\ UNCHANGED <<tick, curr, prev, seen, reused>>
  BY OwnValues DEF ReaderStep, ctr, witness
<1>2. read'[r] = rec /\ seen' = [seen EXCEPT ![r] = seen[r]]
  BY <1>1 DEF RInv
<1>3. ~Locked(tick) => Snapshot \in seen[r]
  BY <1>1 DEF ReadingOK
<1>4. r \notin reused => ReadingReal(r)'
  BY <1>1, <1>2 DEF ReadingReal, Same, Saw, Found
<1>5. ReadingOK(r)'
  BY <1>1, <1>3, <1>4 DEF ReadingOK
<1> QED BY <1>1, <1>2, <1>5, OwnReading

(* While the period lasts, what the counter is now was seen.               *)
LEMMA SawNow ==
    ASSUME RInv, NEW r \in Readers, pc[r] # "idle", Same(r)
    PROVE  Saw(r, curr)
<1>1. Snapshot \in seen[r]
  BY DEF RInv, ReadingOK, Same
<1> QED BY <1>1 DEF Same, Saw, Snapshot

(* The first loads of a reading.                                           *)
LEMMA FirstLoadsKeep ==
    ASSUME IInv, RInv, clock \in Int, NEW r \in Readers,
           \/ StartRead(r) \/ ReadTick(r) \/ ReadCurr(r) \/ ReadPast(r)
    PROVE  RInv'
<1>1. /\ tick \in Int /\ curr \in Int /\ prev \in Int
      /\ read[r] \in ReadRecords /\ ReadingOK(r)
  BY DEF IInv, Types, RInv
<1>2. CASE StartRead(r)
  <2>1. PICK whole \in BOOLEAN :
          read' = [read EXCEPT ![r].tick = tick, ![r].whole = whole,
                               ![r].total = 0, ![r].since = clock]
    BY <1>2 DEF StartRead
  <2> DEFINE rec == [read[r] EXCEPT !.tick = tick, !.whole = whole, !.total = 0,
                              !.since = clock]
  <2>2. rec \in ReadRecords
    <3>1. 0 \in Int
      OBVIOUS
    <3> QED BY <1>1, <3>1, Zenon DEF ReadRecords
  <2>3. read' = [read EXCEPT ![r] = rec]
    BY <2>1 DEF RInv
  <2> HIDE DEF rec
  <2> QED BY <1>2, <2>2, <2>3, LookKeepsReadings DEF StartRead
<1>3. CASE ReadTick(r)
  <2> DEFINE rec == [read[r] EXCEPT !.tick = tick]
  <2>1. read' = [read EXCEPT ![r] = rec] /\ rec \in ReadRecords
    BY <1>1, <1>3 DEF ReadTick, RInv, ReadRecords
  <2> HIDE DEF rec
  <2> QED BY <1>3, <2>1, LookKeepsReadings DEF ReadTick
<1>4. CASE ReadCurr(r)
  <2> DEFINE rec == [read[r] EXCEPT !.curr = curr]
  <2> DEFINE to == IF read[r].whole THEN "past" ELSE "again"
  <2>1. read' = [read EXCEPT ![r] = rec] /\ rec \in ReadRecords
    BY <1>1, <1>4 DEF ReadCurr, RInv, ReadRecords
  <2>2. rec.tick = read[r].tick /\ rec.whole = read[r].whole /\ rec.curr = curr
    BY <1>1 DEF ReadRecords
  <2>3. ReaderStep(r, "curr", to) /\ UNCHANGED witness /\ pc[r] = "curr"
    BY <1>4 DEF ReadCurr, ReaderStep
  <2>4. Same(r) => Saw(r, curr)
    BY <2>3, SawNow
  <2>5. to \in {"past", "again"} /\ (to = "again" => ~ read[r].whole)
    OBVIOUS
  <2>6. to \in ReaderSteps /\ "curr" \in ReaderSteps \ {"idle"}
    BY <2>5 DEF ReaderSteps
  <2> HIDE DEF rec, to
  <2> QED BY <2>1, <2>2, <2>3, <2>4, <2>5, <2>6, GoOnKeepsReadings
<1>5. CASE ReadPast(r)
  <2> DEFINE rec == [read[r] EXCEPT !.past = prev]
  <2>1. read' = [read EXCEPT ![r] = rec] /\ rec \in ReadRecords
    BY <1>1, <1>5 DEF ReadPast, RInv, ReadRecords
  <2>2. /\ rec.tick = read[r].tick /\ rec.whole = read[r].whole
        /\ rec.curr = read[r].curr /\ rec.past = prev
    BY <1>1 DEF ReadRecords
  <2>3. ReaderStep(r, "past", "again") /\ UNCHANGED witness /\ pc[r] = "past"
    BY <1>5 DEF ReadPast, ReaderStep
  <2>4. r \notin reused /\ Same(r) => Saw(r, read[r].curr)
    BY <1>1, <2>3 DEF ReadingOK, ReadingReal
  <2>5. "again" \in ReaderSteps /\ "past" \in ReaderSteps \ {"idle"}
    BY DEF ReaderSteps
  <2> HIDE DEF rec
  <2> QED BY <2>1, <2>2, <2>3, <2>4, <2>5, GoOnKeepsReadings
<1> QED BY <1>2, <1>3, <1>4, <1>5

(* The second load of the tick: if it is the same, what was loaded between *)
(* the two was there together.                                             *)
LEMMA TickAgainKeeps ==
    ASSUME IInv, RInv, NEW r \in Readers, TickAgain(r)
    PROVE  RInv'
<1>1. /\ tick \in Int /\ curr \in Int /\ prev \in Int
      /\ read[r] \in ReadRecords /\ ReadingOK(r) /\ pc[r] = "again"
  BY DEF IInv, Types, RInv, TickAgain, ReaderStep
<1>2. {"tick", "curr", "curragain"} \subseteq ReaderSteps
      /\ "again" \in ReaderSteps \ {"idle"}
  BY DEF ReaderSteps
<1>3. CASE Locked(read[r].tick)
  <2>1. /\ ReaderStep(r, "again", "tick") /\ UNCHANGED witness
        /\ read' = [read EXCEPT ![r] = read[r]]
    BY <1>3 DEF TickAgain, RInv
  <2> QED BY <1>1, <1>2, <2>1, GoOnKeepsReadings
<1>4. CASE ~ Locked(read[r].tick)
  <2> DEFINE rec == [read[r] EXCEPT !.oldCurr = read[r].curr,
                                    !.oldPast = read[r].past, !.tick = tick]
  <2>1. read' = [read EXCEPT ![r] = rec] /\ rec \in ReadRecords
    BY <1>1, <1>4 DEF TickAgain, RInv, ReadRecords
  <2>2. /\ rec.tick = tick /\ rec.whole = read[r].whole
        /\ rec.oldCurr = read[r].curr /\ rec.oldPast = read[r].past
    BY <1>1 DEF ReadRecords
  <2> HIDE DEF rec
  <2>3. CASE tick # read[r].tick
    <3>1. PICK to \in {"tick", "curr"} : ReaderStep(r, "again", to) /\ Look(r)
      BY <1>4, <2>3 DEF TickAgain
    <3> QED BY <2>1, <3>1, LookKeepsReadings
  <2>4. CASE tick = read[r].tick
    <3>1. ReaderStep(r, "again", "curragain") /\ UNCHANGED witness /\ Same(r)
      BY <1>4, <2>4 DEF TickAgain, Same
    <3>2. r \notin reused => /\ Saw(r, read[r].curr)
                             /\ read[r].whole => read[r].past = prev
      BY <1>1, <3>1 DEF ReadingOK, ReadingReal
    <3>3. r \notin reused => Found(r, rec.oldCurr, rec.oldPast)
      BY <2>2, <3>2 DEF Saw, Found
    <3> QED BY <1>2, <2>1, <2>2, <2>4, <3>1, <3>3, GoOnKeepsReadings
  <2> QED BY <2>3, <2>4
<1> QED BY <1>3, <1>4

(* The second load of curr_ctr.                                            *)
LEMMA CurrAgainKeeps ==
    ASSUME IInv, RInv, NEW r \in Readers, CurrAgain(r)
    PROVE  RInv'
<1> DEFINE rec == [read[r] EXCEPT !.curr = curr]
<1>1. /\ curr \in Int /\ read[r] \in ReadRecords
      /\ ReadingOK(r) /\ pc[r] = "curragain" /\ UNCHANGED witness
  BY DEF IInv, Types, RInv, CurrAgain, ReaderStep
<1>2. read' = [read EXCEPT ![r] = rec] /\ rec \in ReadRecords
  BY <1>1 DEF CurrAgain, RInv, ReadRecords
<1>3. /\ rec.tick = read[r].tick /\ rec.whole = read[r].whole
      /\ rec.curr = curr /\ rec.oldPast = read[r].oldPast
      /\ rec.past = read[r].past
  BY <1>1 DEF ReadRecords
<1> HIDE DEF rec
<1>4. Same(r) => Saw(r, curr)
  BY <1>1, SawNow
<1>5. r \notin reused => Found(r, read[r].oldCurr, read[r].oldPast)
  BY <1>1 DEF ReadingOK, ReadingReal
<1>6. /\ {"past", "again", "pastagain", "got"} \subseteq ReaderSteps
      /\ "curragain" \in ReaderSteps \ {"idle"}
  BY DEF ReaderSteps
<1>7. CASE curr # read[r].oldCurr /\ read[r].whole
  <2>1. ReaderStep(r, "curragain", "past")
    BY <1>7 DEF CurrAgain
  <2> QED BY <1>1, <1>2, <1>3, <1>4, <1>6, <2>1, GoOnKeepsReadings
<1>8. CASE curr # read[r].oldCurr /\ ~ read[r].whole
  <2>1. ReaderStep(r, "curragain", "again")
    BY <1>8 DEF CurrAgain
  <2> QED BY <1>1, <1>2, <1>3, <1>4, <1>6, <1>8, <2>1, GoOnKeepsReadings
<1>9. CASE curr = read[r].oldCurr /\ read[r].whole
  <2>1. ReaderStep(r, "curragain", "pastagain")
    BY <1>9 DEF CurrAgain
  <2>2. r \notin reused => Found(r, rec.curr, rec.oldPast)
    BY <1>3, <1>5, <1>9
  <2> QED BY <1>1, <1>2, <1>3, <1>4, <1>6, <2>1, <2>2, GoOnKeepsReadings
<1>10. CASE curr = read[r].oldCurr /\ ~ read[r].whole
  <2>1. ReaderStep(r, "curragain", "got")
    BY <1>10 DEF CurrAgain
  <2>2. r \notin reused => Found(r, rec.curr, rec.past)
    BY <1>3, <1>5, <1>10 DEF Found
  <2> QED BY <1>1, <1>2, <1>3, <1>6, <2>1, <2>2, GoOnKeepsReadings
<1> QED BY <1>7, <1>8, <1>9, <1>10

(* The second load of prev_ctr.                                            *)
LEMMA PastAgainKeeps ==
    ASSUME IInv, RInv, NEW r \in Readers, PastAgain(r)
    PROVE  RInv'
<1> DEFINE rec == [read[r] EXCEPT !.past = prev]
<1>1. /\ prev \in Int /\ read[r] \in ReadRecords
      /\ ReadingOK(r) /\ pc[r] = "pastagain" /\ UNCHANGED witness
  BY DEF IInv, Types, RInv, PastAgain, ReaderStep
<1>2. read' = [read EXCEPT ![r] = rec] /\ rec \in ReadRecords
  BY <1>1 DEF PastAgain, RInv, ReadRecords
<1>3. /\ rec.tick = read[r].tick /\ rec.whole = read[r].whole
      /\ rec.curr = read[r].curr /\ rec.past = prev
  BY <1>1 DEF ReadRecords
<1> HIDE DEF rec
<1>4. r \notin reused => /\ Same(r) => Saw(r, read[r].curr)
                         /\ Found(r, read[r].curr, read[r].oldPast)
  BY <1>1 DEF ReadingOK, ReadingReal
<1>5. /\ {"again", "result"} \subseteq ReaderSteps
      /\ "pastagain" \in ReaderSteps \ {"idle"}
  BY DEF ReaderSteps
<1>6. CASE prev # read[r].oldPast
  <2>1. ReaderStep(r, "pastagain", "again")
    BY <1>6 DEF PastAgain
  <2> QED BY <1>1, <1>2, <1>3, <1>4, <1>5, <2>1, GoOnKeepsReadings
<1>7. CASE prev = read[r].oldPast
  <2>1. ReaderStep(r, "pastagain", "result")
    BY <1>7 DEF PastAgain
  <2> QED BY <1>1, <1>2, <1>3, <1>4, <1>5, <1>7, <2>1, GoOnKeepsReadings
<1> QED BY <1>6, <1>7

(* The result, and the end of a reading.                                   *)
LEMMA ResultKeeps ==
    ASSUME IInv, RInv, clock \in Int, NEW r \in Readers, Result(r)
    PROVE  RInv'
<1>1. /\ read[r] \in ReadRecords
      /\ ReadingOK(r) /\ pc[r] = "result" /\ UNCHANGED witness
  BY DEF RInv, Result, ReaderStep
<1>2. Remain(r) \in Int
  <2>1. read[r].tick \in Int /\ Start \in Int
    BY <1>1, ConstantsOK DEF ReadRecords
  <2>2. \A x \in Int : Signed(x) \in Int
    BY Dates DEF Signed
  <2>3. (read[r].tick + Period) % Wrap \in Int /\ Now \in Int
    BY <2>1, Dates DEF Now
  <2> QED BY <2>2, <2>3, Dates DEF Remain, Sub
<1>3. PICK total \in Int : read' = [read EXCEPT ![r].total = total]
  <2> DEFINE late   == Remain(r) < 0
             remain == IF late THEN Remain(r) + Period ELSE Remain(r)
             past   == IF ~late THEN read[r].past
                       ELSE IF remain >= 0 THEN read[r].curr ELSE 0
             now    == IF late THEN 0 ELSE read[r].curr
             total  == IF now = 0 /\ past <= 1 THEN past * Period
                       ELSE past * remain + now * Period
  <2>1. read[r].past \in Int /\ read[r].curr \in Int
    BY <1>1 DEF ReadRecords
  <2>2. remain \in Int /\ past \in Int /\ now \in Int
    BY <1>2, <2>1, Dates
  <2>3. read' = [read EXCEPT ![r].total = total]
    BY DEF Result
  <2> HIDE DEF remain, past, now
  <2>4. total \in Int
    BY <2>2, Dates
  <2> QED BY <2>3, <2>4
<1> DEFINE rec == [read[r] EXCEPT !.total = total]
<1>4. read' = [read EXCEPT ![r] = rec] /\ rec \in ReadRecords
  BY <1>1, <1>3 DEF RInv, ReadRecords
<1>5. /\ rec.tick = read[r].tick /\ rec.whole = read[r].whole
      /\ rec.curr = read[r].curr /\ rec.past = read[r].past
  BY <1>1 DEF ReadRecords
<1> HIDE DEF rec
<1>6. r \notin reused => Found(r, read[r].curr, read[r].past)
  BY <1>1 DEF ReadingOK, ReadingReal
<1>7. "got" \in ReaderSteps /\ "result" \in ReaderSteps \ {"idle"}
  BY DEF ReaderSteps
<1>8. ReaderStep(r, "result", "got")
  BY DEF Result
<1> QED BY <1>1, <1>4, <1>5, <1>6, <1>7, <1>8, GoOnKeepsReadings

LEMMA EndReadKeeps ==
    ASSUME IInv, RInv, NEW r \in Readers, EndRead(r)
    PROVE  RInv'
<1>1. ReaderStep(r, "got", "idle") /\ "idle" \in ReaderSteps
  BY DEF EndRead, ReaderSteps
<1>2. pc'[r] = "idle"
  BY <1>1, OwnValues
<1>3. ReadingOK(r)'
  BY <1>2 DEF ReadingOK, ReadingReal
<1>4. NoRead \in ReadRecords
  BY DEF NoRead, ReadRecords
<1> QED BY <1>1, <1>3, <1>4, OwnReading DEF EndRead

LEMMA NextRInv ==
    ASSUME IInv, RInv, [Next]_vars, clock \in Int
    PROVE  RInv'
<1>1. CASE UNCHANGED vars
  BY <1>1, UntouchedKeeps DEF vars, ctr, witness
<1>2. CASE Tick
  BY <1>2, UntouchedKeeps DEF Tick
<1>3. ASSUME NEW t \in Updaters,
             \/ Update(t) \/ Add(t) \/ LoadTick(t) \/ LoadNow(t) \/ Cas(t)
             \/ Xchg(t) \/ Store(t) \/ Zero(t) \/ Unlock(t)
      PROVE  RInv'
  BY <1>3, UpdaterKeepsReadings
<1>4. ASSUME NEW r \in Readers,
             \/ StartRead(r) \/ ReadTick(r) \/ ReadCurr(r) \/ ReadPast(r)
             \/ TickAgain(r) \/ CurrAgain(r) \/ PastAgain(r) \/ Result(r)
             \/ EndRead(r)
      PROVE  RInv'
  BY <1>4, FirstLoadsKeep, TickAgainKeeps, CurrAgainKeeps, PastAgainKeeps,
     ResultKeeps, EndReadKeeps
<1> QED BY <1>1, <1>2, <1>3, <1>4 DEF Next

(* A reading that was accepted is what the counter was at one moment of    *)
(* the reading, however it interleaves with updates and rotations; unless  *)
(* a period has begun meanwhile at the very tick it works with.            *)
THEOREM ReadingsReal == Spec => []SnapshotReal
<1>1. Spec => [](clock \in Int)
  BY ClockInt
<1>2. IInv /\ RInv /\ clock \in Int /\ [Next]_vars => RInv'
  BY NextRInv
<1>3. RInv => SnapshotReal
  BY DEF RInv, ReadingOK, ReadingReal, Found, SnapshotReal, Matches
<1> QED BY <1>1, <1>2, <1>3, Inductive, InitRInv, PTL DEF Spec

-----------------------------------------------------------------------------
(* Dates *)

(* The distance Sub(Now, x) is the age of x until the clock comes back to  *)
(* it, which the history variable turned records for the dates in use. The *)
(* inductive invariant relates the ages of the events to those distances.  *)

Ticks == 0 .. Wrap - 1

(* If there is an event of this date, it is not older than that.           *)
Within(date, age) == date # None => clock - date <= age

Dated(date) == date = None \/ (date \in Nat /\ date <= clock)

DateTypes ==
    /\ clock \in Nat /\ tick \in Ticks
    /\ curr >= 0 /\ prev >= 0
    /\ oldest = [curr |-> oldest.curr, prev |-> oldest.prev]
    /\ Dated(oldest.curr) /\ Dated(oldest.prev)
    /\ \A t \in Updaters :
         local[t].tick \in Ticks /\ local[t].now \in Ticks /\ local[t].ctr >= 0

(* Between rotations: the window.                                          *)
FreeOK ==
    ~Locked(tick) /\ ~turned =>
        /\ Within(oldest.curr, Sub(Now, tick))
        /\ Within(oldest.prev, Sub(Now, tick) + Period)

(* What an updater has loaded, and what a rotation has done to the dates:  *)
(* the events it moves to prev_ctr are not older than the period it ends,  *)
(* unless they will be dropped, and those of curr_ctr came after its date. *)
Aged(t) ==
    /\ Deciding(t) => /\ Sub(Now, local[t].now) < Wrap - 2 * Period
                      /\ Sub(local[t].now, local[t].tick) >= Period
    /\ pc[t] = "xchg" /\ ~Missed(t) =>
         Within(oldest.curr, Sub(Now, local[t].tick))
    /\ pc[t] \in {"store", "zero", "unlock"} =>
         Within(oldest.curr, Sub(Now, local[t].now))
    /\ pc[t] \in {"store", "unlock"} /\ ~Missed(t) =>
         Within(oldest.prev, Sub(Now, local[t].tick))
    /\ pc[t] = "unlock" /\ Missed(t) => oldest.prev = None
    /\ pc[t] = "zero" => Missed(t)

UpdaterOK(t) == ~turned => Aged(t)

DInv == DateTypes /\ FreeOK /\ \A t \in Updaters : UpdaterOK(t)

-----------------------------------------------------------------------------
(* Arithmetic: dates are at most one turn apart, so that every remainder   *)
(* is a case distinction.                                                  *)

LEMMA Remainder ==
    ASSUME NEW W \in Nat, W > 0, NEW r \in 0 .. W - 1
    PROVE  /\ r % W = r /\ (r + W) % W = r /\ (r - W) % W = r
           /\ \A q \in Int : (W * q + r) % W = r
<1>1. \A q \in Int : (W * q + r) % W = r
  OBVIOUS
<1>2. (W * 0 + r) % W = r /\ (W * 1 + r) % W = r /\ (W * (0 - 1) + r) % W = r
  BY <1>1
<1>3. W * 0 + r = r /\ W * 1 + r = r + W /\ W * (0 - 1) + r = r - W
  OBVIOUS
<1> QED BY <1>1, <1>2, <1>3

LEMMA Constants ==
    /\ Wrap \in Nat /\ Wrap > 0 /\ Wrap % 2 = 0 /\ Start \in Ticks
    /\ Period \in Nat /\ 2 <= Period /\ 3 * Period <= Wrap
    /\ None \notin Nat
BY ConstantsOK DEF Ticks

(* a - b as unsigned int.                                                  *)
LEMMA SubIs ==
    ASSUME NEW a \in Ticks, NEW b \in Ticks
    PROVE  /\ Sub(a, b) = IF a >= b THEN a - b ELSE a - b + Wrap
           /\ Sub(a, b) \in Ticks
<1>1. Wrap \in Nat /\ Wrap > 0 /\ a \in Int /\ b \in Int
  BY Constants DEF Ticks
<1>2. CASE a >= b
  <2>1. a - b \in 0 .. Wrap - 1
    BY <1>1, <1>2 DEF Ticks
  <2>2. (a - b) % Wrap = a - b
    BY <1>1, <2>1, Remainder
  <2> QED BY <1>2, <2>1, <2>2 DEF Sub, Ticks
<1>3. CASE ~ (a >= b)
  <2>1. a - b + Wrap \in 0 .. Wrap - 1 /\ a - b + Wrap - Wrap = a - b
    BY <1>1, <1>3 DEF Ticks
  <2>2. (a - b + Wrap - Wrap) % Wrap = a - b + Wrap
    BY <1>1, <2>1, Remainder
  <2> QED BY <1>3, <2>1, <2>2 DEF Sub, Ticks
<1> QED BY <1>2, <1>3

(* The end of the period that starts at x.                                 *)
LEMMA EndIs ==
    ASSUME NEW x \in Ticks
    PROVE  /\ (x + Period) % Wrap = IF x + Period < Wrap THEN x + Period
                                    ELSE x + Period - Wrap
           /\ (x + Period) % Wrap \in Ticks
<1>1. /\ Wrap \in Nat /\ Wrap > 0 /\ x \in Int /\ Period \in Nat
      /\ Period <= Wrap
  BY Constants DEF Ticks
<1>2. CASE x + Period < Wrap
  <2>1. x + Period \in 0 .. Wrap - 1
    BY <1>1, <1>2 DEF Ticks
  <2> QED BY <1>1, <1>2, <2>1, Remainder DEF Ticks
<1>3. CASE ~ (x + Period < Wrap)
  <2>1. /\ x + Period - Wrap \in 0 .. Wrap - 1
        /\ x + Period - Wrap + Wrap = x + Period
    BY <1>1, <1>3 DEF Ticks
  <2>2. (x + Period - Wrap + Wrap) % Wrap = x + Period - Wrap
    BY <1>1, <2>1, Remainder
  <2> QED BY <1>3, <2>1, <2>2 DEF Ticks
<1> QED BY <1>2, <1>3

(* The date, however often it has wrapped.                                 *)
LEMMA NowIs ==
    ASSUME clock \in Nat
    PROVE  /\ Now \in Ticks
           /\ \A x \in Ticks : Sub(Now, x) \in Nat /\ Sub(Now, x) < Wrap
<1>1. Now \in Ticks
  BY Constants DEF Now, Ticks
<1>2. \A x \in Ticks : Sub(Now, x) \in Ticks
  BY <1>1, SubIs
<1> QED BY <1>1, <1>2, Constants DEF Ticks

LEMMA NowNext ==
    ASSUME clock \in Nat, Tick
    PROVE  /\ clock' \in Nat /\ clock' > clock
           /\ clock' - clock = (IF Now = Wrap - 1 THEN 2 ELSE 1)
           /\ Now' = (IF Now = Wrap - 1 THEN 1 ELSE Now + 1)
           /\ Now' \in Ticks
<1> DEFINE d == IF Now = Wrap - 1 THEN 2 ELSE 1
           q == (Start + clock) \div Wrap
<1>1. Now \in Ticks /\ Wrap \in Nat /\ Wrap > 2 /\ Start \in Nat /\ d \in 1 .. 2
  BY NowIs, Constants DEF Ticks
<1>2. clock' = clock + d
  BY DEF Tick
<1>3. Start + clock = Wrap * q + Now /\ q \in Int
  BY <1>1 DEF Now
<1> HIDE DEF q
<1>4. CASE Now = Wrap - 1
  <2>1. Start + clock' = Wrap * (q + 1) + 1
    BY <1>1, <1>2, <1>3, <1>4
  <2>2. 1 \in 0 .. Wrap - 1 /\ q + 1 \in Int
    BY <1>1, <1>3
  <2>3. \A k \in Int : (Wrap * k + 1) % Wrap = 1
    <3>1. ASSUME NEW r \in 0 .. Wrap - 1, r = 1
          PROVE  \A k \in Int : (Wrap * k + r) % Wrap = r
      BY <1>1, Remainder
    <3> QED BY <2>2, <3>1
  <2>4. Now' = 1
    BY <2>1, <2>2, <2>3 DEF Now
  <2> QED BY <1>1, <1>2, <1>4, <2>2, <2>4 DEF Ticks
<1>5. CASE Now # Wrap - 1
  <2>1. Now + 1 \in 0 .. Wrap - 1 /\ Now \in Int
    BY <1>1, <1>5 DEF Ticks
  <2>2. Start + clock' = Wrap * q + (Now + 1)
    BY <1>1, <1>2, <1>3, <1>5, <2>1
  <2>3. (Wrap * q + (Now + 1)) % Wrap = Now + 1
    <3>1. ASSUME NEW r \in 0 .. Wrap - 1
          PROVE  \A k \in Int : (Wrap * k + r) % Wrap = r
      BY <1>1, Remainder
    <3> QED BY <1>3, <2>1, <3>1, Zenon
  <2>4. Now' = Now + 1
    BY <2>2, <2>3 DEF Now
  <2> QED BY <1>1, <1>2, <1>5, <2>1, <2>4 DEF Ticks
<1> QED BY <1>4, <1>5

(* The tick without its lowest bit; the lock fits into it.                 *)
LEMMA EvenIs ==
    ASSUME NEW x \in Ticks
    PROVE  /\ Even(x) \in Ticks /\ (Even(x) = x \/ Even(x) = x - 1)
           /\ ~Locked(x) => x + 1 \in Ticks
BY Constants DEF Ticks, Even, Locked

(* The distance of a date grows with the time, until it wraps.             *)
LEMMA AgeGrows ==
    ASSUME clock \in Nat, Tick, NEW x \in Ticks,
           Sub(Now', x) >= Sub(Now, x) \/ Sub(Now, x) + 2 < Wrap
    PROVE  Sub(Now', x) = Sub(Now, x) + (clock' - clock)
<1>1. /\ clock' - clock = (IF Now = Wrap - 1 THEN 2 ELSE 1)
      /\ Now' = (IF Now = Wrap - 1 THEN 1 ELSE Now + 1)
      /\ Now' \in Ticks
  BY NowNext
<1>2. Now \in Ticks /\ Now' \in Ticks
  BY <1>1, NowIs
<1>3. Sub(Now, x) = IF Now >= x THEN Now - x ELSE Now - x + Wrap
  BY <1>2, SubIs
<1>4. Sub(Now', x) = IF Now' >= x THEN Now' - x ELSE Now' - x + Wrap
  BY <1>2, SubIs
<1>5. Now \in Int /\ Now' \in Int /\ x \in Int /\ Wrap \in Int /\ Wrap > 5
      /\ 0 <= x /\ x < Wrap /\ 0 <= Now /\ Now < Wrap
  BY <1>2, Constants DEF Ticks
<1>6. CASE Now = Wrap - 1
  <2>1. clock' - clock = 2 /\ Now' = 1
    BY <1>1, <1>6
  <2>2. Sub(Now', x) = Sub(Now, x) + 2
    BY <1>3, <1>4, <1>5, <1>6, <2>1
  <2> QED BY <2>1, <2>2
<1>7. CASE Now # Wrap - 1
  <2>1. clock' - clock = 1 /\ Now' = Now + 1
    BY <1>1, <1>7
  <2>2. Sub(Now', x) = Sub(Now, x) + 1
    BY <1>3, <1>4, <1>5, <1>7, <2>1
  <2> QED BY <2>1, <2>2
<1> QED BY <1>6, <1>7

(* Distances add up below a full turn.                                     *)
LEMMA AgesAdd ==
    ASSUME NEW a \in Ticks, NEW b \in Ticks, NEW c \in Ticks,
           Sub(a, b) + Sub(b, c) < Wrap
    PROVE  Sub(a, c) = Sub(a, b) + Sub(b, c)
<1>1. /\ Sub(a, b) = IF a >= b THEN a - b ELSE a - b + Wrap
      /\ Sub(b, c) = IF b >= c THEN b - c ELSE b - c + Wrap
      /\ Sub(a, c) = IF a >= c THEN a - c ELSE a - c + Wrap
  BY SubIs
<1>2. /\ a \in Int /\ b \in Int /\ c \in Int /\ Wrap \in Int
      /\ 0 <= a /\ a < Wrap /\ 0 <= b /\ b < Wrap /\ 0 <= c /\ c < Wrap
  BY Constants DEF Ticks
<1> QED BY <1>1, <1>2

(* A thread that is not late ends the period within the next one.          *)
LEMMA NotMissed ==
    ASSUME NEW x \in Ticks, NEW n \in Ticks, Sub(n, x) >= Period
    PROVE  Sub(n, (x + Period) % Wrap) = Sub(n, x) - Period
<1> DEFINE y == (x + Period) % Wrap
<1>1. /\ y = IF x + Period < Wrap THEN x + Period ELSE x + Period - Wrap
      /\ y \in Ticks
  BY EndIs
<1> HIDE DEF y
<1>2. /\ Sub(n, x) = IF n >= x THEN n - x ELSE n - x + Wrap
      /\ Sub(n, y) = IF n >= y THEN n - y ELSE n - y + Wrap
  BY <1>1, SubIs
<1>3. /\ n \in Int /\ x \in Int /\ Wrap \in Int /\ Period \in Int
      /\ 0 <= x /\ x < Wrap /\ 0 <= n /\ n < Wrap /\ 0 < Period
      /\ Period < Wrap
  BY Constants DEF Ticks
<1>4. Sub(n, y) = Sub(n, x) - Period
  BY <1>1, <1>2, <1>3
<1> QED BY <1>4 DEF y

(* Dropping the lowest bit of a date makes it at most one older.           *)
LEMMA EvenAge ==
    ASSUME NEW n \in Ticks, NEW y \in Ticks, Sub(n, y) < Wrap - 1
    PROVE  /\ Even(y) \in Ticks
           /\ Sub(n, Even(y)) = Sub(n, y) \/ Sub(n, Even(y)) = Sub(n, y) + 1
<1>1. Even(y) \in Ticks /\ (Even(y) = y \/ Even(y) = y - 1)
  BY EvenIs
<1>2. /\ Sub(n, y) = IF n >= y THEN n - y ELSE n - y + Wrap
      /\ Sub(n, Even(y)) = IF n >= Even(y) THEN n - Even(y)
                           ELSE n - Even(y) + Wrap
  BY <1>1, SubIs
<1>3. /\ n \in Int /\ y \in Int /\ Wrap \in Int /\ Even(y) \in Int
      /\ 0 <= y /\ y < Wrap /\ 0 <= n /\ n < Wrap /\ 0 <= Even(y)
  BY <1>1, Constants DEF Ticks
<1> QED BY <1>1, <1>2, <1>3

(* How far back the period lies that a thread in time is about to end, at  *)
(* the date w.                                                             *)
LEMMA EndedPeriod ==
    ASSUME NEW w \in Ticks, NEW n \in Ticks, NEW x \in Ticks,
           Sub(w, n) < Wrap - 2 * Period, Sub(n, x) >= Period,
           ~ (Sub(n, (x + Period) % Wrap) >= Period)
    PROVE  LET end == (x + Period) % Wrap IN
           /\ end \in Ticks
           /\ Sub(w, x) = Sub(w, n) + Sub(n, x)
           /\ Sub(w, end) = Sub(w, x) - Period
           /\ Sub(w, end) >= Sub(w, n)
           /\ Sub(w, end) < Wrap - 1
<1> DEFINE end == (x + Period) % Wrap
<1>1. end \in Ticks
  BY EndIs
<1>2. Sub(n, end) = Sub(n, x) - Period /\ ~ (Sub(n, end) >= Period)
  BY NotMissed
<1> HIDE DEF end
<1>3. /\ Sub(n, end) \in Nat /\ Sub(n, x) \in Nat /\ Sub(w, n) \in Nat
      /\ Period \in Nat /\ Wrap \in Nat
  <2>1. Sub(n, end) \in Ticks /\ Sub(n, x) \in Ticks /\ Sub(w, n) \in Ticks
    BY <1>1, SubIs
  <2> QED BY <2>1, Constants DEF Ticks
<1>4. Sub(w, x) = Sub(w, n) + Sub(n, x)
  <2>1. Sub(w, n) + Sub(n, x) < Wrap
    BY <1>2, <1>3
  <2> QED BY <2>1, AgesAdd
<1>5. Sub(w, end) = Sub(w, n) + Sub(n, end)
  <2>1. Sub(w, n) + Sub(n, end) < Wrap
    BY <1>2, <1>3
  <2> QED BY <1>1, <2>1, AgesAdd
<1>6. /\ Sub(w, end) = Sub(w, x) - Period
      /\ Sub(w, end) >= Sub(w, n)
      /\ Sub(w, end) < Wrap - 1
  BY <1>2, <1>3, <1>4, <1>5, Constants
<1> QED BY <1>1, <1>4, <1>6 DEF end

-----------------------------------------------------------------------------
(* The steps                                                               *)

LEMMA InitDInv == Init => DInv
<1> SUFFICES ASSUME Init PROVE DInv
  OBVIOUS
<1>1. DateTypes
  BY Constants DEF Init, DateTypes, Ticks, Dated, NoLocals
<1>2. FreeOK
  BY DEF Init, FreeOK, Within
<1>3. \A t \in Updaters : UpdaterOK(t)
  BY DEF Init, UpdaterOK, Aged, Deciding
<1> QED BY <1>1, <1>2, <1>3 DEF DInv

(* Time passes: every date that is not passed gets older by as much.       *)
LEMMA WithinGrows ==
    ASSUME clock \in Nat, Tick, NEW date, Dated(date), NEW x \in Ticks,
           Sub(Now', x) >= Sub(Now, x) \/ Sub(Now, x) + 2 < Wrap
    PROVE  /\ Within(date, Sub(Now, x)) =>
                 (date # None => clock' - date <= Sub(Now', x))
           /\ Within(date, Sub(Now, x) + Period) =>
                 (date # None => clock' - date <= Sub(Now', x) + Period)
<1>1. Sub(Now', x) = Sub(Now, x) + (clock' - clock)
  BY AgeGrows
<1>2. clock \in Int /\ clock' \in Int /\ Sub(Now, x) \in Int /\ Period \in Int
  BY NowNext, NowIs, Constants
<1>3. date # None => date \in Int
  BY DEF Dated
<1> QED BY <1>1, <1>2, <1>3 DEF Within

(* What a tick without a full turn leaves.                                 *)
LEMMA NoFullTurn ==
    ASSUME Tick, ~turned'
    PROVE  ~turned /\ ~FullTurn
BY Zenon DEF Tick

LEMMA TickDates == ASSUME DInv, Tick PROVE DInv'
<1>1. /\ clock \in Nat /\ clock' \in Nat /\ clock' > clock
      /\ UNCHANGED <<tick, curr, prev, pc, local, oldest>>
  BY NowNext DEF Tick, ctr, DInv, DateTypes
<1>2. /\ tick \in Ticks /\ Dated(oldest.curr) /\ Dated(oldest.prev)
      /\ Now \in Ticks /\ Now' \in Ticks
      /\ \A x \in Ticks : Sub(Now, x) \in Nat /\ Sub(Now', x) \in Nat
  <2>1. Now' \in Ticks
    BY <1>1, NowNext
  <2>2. \A x \in Ticks : Sub(Now', x) \in Ticks
    BY <2>1, SubIs
  <2> QED BY <1>1, <2>1, <2>2, NowIs, Constants DEF DInv, DateTypes, Ticks
<1>3. DateTypes'
  BY <1>1 DEF DInv, DateTypes, Dated
<1>4. FreeOK'
  <2> SUFFICES ASSUME ~Locked(tick), ~turned'
               PROVE  (/\ Within(oldest.curr, Sub(Now, tick))
                       /\ Within(oldest.prev, Sub(Now, tick) + Period))'
    BY <1>1 DEF FreeOK
  <2>1. ~turned /\ ~FullTurn
    BY NoFullTurn
  <2>2. /\ Within(oldest.curr, Sub(Now, tick))
        /\ Within(oldest.prev, Sub(Now, tick) + Period)
    BY <2>1 DEF DInv, FreeOK
  <2>3. CASE Empty(oldest)
    BY <1>1, <2>3 DEF Empty, Within
  <2>4. CASE ~Empty(oldest)
    <3>1. ~Passed(tick)
      BY <2>1, <2>4 DEF FullTurn
    <3>2. Sub(Now', tick) >= Sub(Now, tick)
      BY <1>2, <3>1 DEF Passed
    <3>3. /\ oldest.curr # None => clock' - oldest.curr <= Sub(Now', tick)
          /\ oldest.prev # None => clock' - oldest.prev <= Sub(Now', tick) + Period
      BY <1>1, <1>2, <2>2, <3>2, WithinGrows
    <3> QED BY <1>1, <3>3 DEF Within
  <2> QED BY <2>3, <2>4
<1>5. ASSUME NEW t \in Updaters, ~turned' PROVE Aged(t)'
  <2> DEFINE x == local[t].tick
             n == local[t].now
  <2>1. ~turned /\ ~FullTurn
    BY <1>5, NoFullTurn
  <2>2. x \in Ticks /\ n \in Ticks /\ Aged(t)
    BY <2>1 DEF DInv, DateTypes, UpdaterOK
  <2>3. /\ Missed(t)' = Missed(t) /\ pc'[t] = pc[t] /\ local'[t] = local[t]
        /\ oldest' = oldest
    BY <1>1 DEF Missed
  <2>4. CASE Deciding(t)
    <3>1. Sub(Now, n) < Wrap - 2 * Period /\ Sub(n, x) >= Period
      BY <2>2, <2>4 DEF Aged
    <3>2. Sub(Now', n) < Wrap - 2 * Period
      BY <1>2, <2>1, <2>2, <2>4, Constants DEF FullTurn
    <3>3. Sub(Now, n) + 2 < Wrap
      BY <1>2, <2>2, <3>1, Constants
    <3>4. Sub(Now', n) >= Sub(Now, n)
      <4>1. Sub(Now', n) = Sub(Now, n) + (clock' - clock)
        BY <1>1, <2>2, <3>3, AgeGrows
      <4> QED BY <1>1, <1>2, <2>2, <4>1
    <3>5. ~Missed(t) => Sub(Now', x) >= Sub(Now, x)
      <4> SUFFICES ASSUME ~Missed(t) PROVE Sub(Now', x) >= Sub(Now, x)
        OBVIOUS
      <4>1. ~ (Sub(n, (x + Period) % Wrap) >= Period)
        BY DEF Missed
      <4> HIDE DEF n, x
      <4>2. /\ Sub(Now, x) = Sub(Now, n) + Sub(n, x)
            /\ Sub(Now', x) = Sub(Now', n) + Sub(n, x)
        BY <1>2, <2>2, <3>1, <3>2, <4>1, EndedPeriod
      <4>3. Sub(n, x) \in Int
        BY <2>2, SubIs, Constants DEF Ticks
      <4> QED BY <1>2, <2>2, <3>4, <4>2, <4>3
    <3>6. ASSUME NEW date, Dated(date)
          PROVE  /\ Within(date, Sub(Now, n)) =>
                      (date # None => clock' - date <= Sub(Now', n))
                 /\ ~Missed(t) /\ Within(date, Sub(Now, x)) =>
                      (date # None => clock' - date <= Sub(Now', x))
      BY <1>1, <2>2, <3>4, <3>5, <3>6, WithinGrows
    <3>7. /\ pc[t] = "xchg" /\ ~Missed(t) =>
               (oldest.curr # None => clock' - oldest.curr <= Sub(Now', x))
          /\ pc[t] \in {"store", "zero", "unlock"} =>
               (oldest.curr # None => clock' - oldest.curr <= Sub(Now', n))
          /\ pc[t] \in {"store", "unlock"} /\ ~Missed(t) =>
               (oldest.prev # None => clock' - oldest.prev <= Sub(Now', x))
          /\ pc[t] = "unlock" /\ Missed(t) => oldest.prev = None
          /\ pc[t] = "zero" => Missed(t)
      BY <1>2, <2>2, <3>6 DEF Aged
    <3> QED BY <1>1, <2>3, <3>1, <3>2, <3>7 DEF Aged, Within
  <2>5. CASE ~Deciding(t)
    BY <2>3, <2>5 DEF Aged, Deciding
  <2> QED BY <2>4, <2>5
<1> QED BY <1>3, <1>4, <1>5 DEF DInv, UpdaterOK

(* A thread that does not rotate does not depend on the counter.           *)
LEMMA OtherDates ==
    ASSUME DInv, UNCHANGED <<clock, turned>>, NEW u \in Updaters,
           pc'[u] = pc[u], local'[u] = local[u],
           UNCHANGED oldest \/ pc[u] \notin Rotating
    PROVE  UpdaterOK(u)'
<1>1. Now' = Now /\ Missed(u)' = Missed(u) /\ UpdaterOK(u)
  BY DEF Now, Missed, DInv
<1>2. CASE UNCHANGED oldest
  BY <1>1, <1>2 DEF UpdaterOK, Aged, Deciding, Within
<1>3. CASE pc[u] \notin Rotating
  BY <1>1, <1>3 DEF UpdaterOK, Aged, Deciding, Rotating
<1> QED BY <1>2, <1>3

(* A step of an updater that leaves the counter alone.                     *)
LEMMA LookDates ==
    ASSUME DInv, IInv, NEW t \in Updaters, NEW to,
           pc' = [pc EXCEPT ![t] = to],
           UNCHANGED <<clock, tick, curr, prev, oldest, turned>>,
           \A u \in Updaters \ {t} : local'[u] = local[u],
           local'[t].tick \in Ticks, local'[t].now \in Ticks, local'[t].ctr >= 0,
           UpdaterOK(t)'
    PROVE  DInv'
<1>1. /\ pc'[t] = to
      /\ \A u \in Updaters \ {t} : pc'[u] = pc[u] /\ local'[u] = local[u]
  BY DEF IInv, Types
<1>2. DateTypes'
  BY <1>1 DEF DInv, DateTypes, Dated
<1>3. Now' = Now
  BY DEF Now
<1>4. FreeOK'
  BY <1>1, <1>3 DEF DInv, FreeOK, Within
<1>5. \A u \in Updaters \ {t} : UpdaterOK(u)'
  BY <1>1, OtherDates
<1> QED BY <1>2, <1>4, <1>5 DEF DInv

LEMMA UpdateDates == ASSUME DInv, IInv, NEW t \in Updaters, Update(t) PROVE DInv'
<1>1. PICK to \in {"add", "slow"} : pc' = [pc EXCEPT ![t] = to]
  BY DEF Update, Goto
<1>2. UNCHANGED <<clock, tick, curr, prev, oldest, turned, local>>
  BY DEF Update, ctr, history
<1>3. pc'[t] \in {"add", "slow"}
  BY <1>1 DEF IInv, Types
<1>4. UpdaterOK(t)'
  BY <1>3 DEF UpdaterOK, Aged, Deciding
<1>5. local'[t].tick \in Ticks /\ local'[t].now \in Ticks /\ local'[t].ctr >= 0
  BY <1>2 DEF DInv, DateTypes
<1> QED BY <1>1, <1>2, <1>4, <1>5, LookDates

LEMMA LoadTickDates == ASSUME DInv, IInv, NEW t \in Updaters, LoadTick(t) PROVE DInv'
<1>1. /\ pc' = [pc EXCEPT ![t] = "loadnow"]
      /\ local' = [local EXCEPT ![t].tick = tick]
      /\ UNCHANGED <<clock, tick, curr, prev, oldest, turned>>
  BY DEF LoadTick, Goto, ctr, history
<1>2. /\ local'[t].tick = tick /\ local'[t].now = local[t].now
      /\ local'[t].ctr = local[t].ctr
      /\ \A u \in Updaters \ {t} : local'[u] = local[u]
      /\ pc'[t] = "loadnow"
  BY <1>1 DEF IInv, Types
<1>3. UpdaterOK(t)'
  BY <1>2 DEF UpdaterOK, Aged, Deciding
<1>4. local'[t].tick \in Ticks /\ local'[t].now \in Ticks /\ local'[t].ctr >= 0
  BY <1>2 DEF DInv, DateTypes
<1> QED BY <1>1, <1>2, <1>3, <1>4, LookDates

(* Past its period, the thread has the date of this moment.                *)
LEMMA LoadNowDates == ASSUME DInv, IInv, NEW t \in Updaters, LoadNow(t) PROVE DInv'
<1>1. /\ pc[t] = "loadnow"
      /\ UNCHANGED <<clock, tick, curr, prev, oldest, turned>>
  BY DEF LoadNow, ctr, history
<1>2. /\ Now \in Ticks /\ local[t].tick \in Ticks
      /\ local[t].ctr >= 0 /\ Now' = Now /\ 0 \in Ticks
  BY <1>1, NowIs, Constants DEF DInv, DateTypes, Now, Ticks
<1>3. CASE /\ local' = [local EXCEPT ![t] = NoLocals]
           /\ pc' = [pc EXCEPT ![t] = "add"]
  <2>1. /\ local'[t].tick = 0 /\ local'[t].now = 0 /\ local'[t].ctr = 0
        /\ \A u \in Updaters \ {t} : local'[u] = local[u]
        /\ pc'[t] = "add"
    BY <1>3 DEF IInv, Types, NoLocals
  <2>2. UpdaterOK(t)'
    BY <2>1 DEF UpdaterOK, Aged, Deciding
  <2>3. local'[t].tick \in Ticks /\ local'[t].now \in Ticks /\ local'[t].ctr >= 0
    BY <1>2, <2>1
  <2> QED BY <1>1, <1>3, <2>1, <2>2, <2>3, LookDates
<1>4. CASE /\ Sub(Now, local[t].tick) >= Period
           /\ local' = [local EXCEPT ![t].now = Now]
           /\ pc' = [pc EXCEPT ![t] = IF Locked(local[t].tick) THEN "slow" ELSE "cas"]
  <2>1. /\ local'[t].tick = local[t].tick /\ local'[t].now = Now
        /\ local'[t].ctr = local[t].ctr
        /\ \A u \in Updaters \ {t} : local'[u] = local[u]
        /\ pc'[t] \in {"slow", "cas"}
    BY <1>4 DEF IInv, Types
  <2>2. Sub(Now, Now) = 0 /\ 0 < Wrap - 2 * Period
    BY <1>2, SubIs, Constants DEF Ticks
  <2>3. UpdaterOK(t)'
    <3>1. /\ Sub(Now, local[t].now)' < Wrap - 2 * Period
          /\ Sub(local[t].now, local[t].tick)' >= Period
      BY <1>1, <1>2, <1>4, <2>1, <2>2
    <3> QED BY <2>1, <3>1 DEF UpdaterOK, Aged, Deciding
  <2>4. PICK to \in {"slow", "cas"} : pc' = [pc EXCEPT ![t] = to]
    BY <1>4
  <2> QED BY <1>1, <1>2, <2>1, <2>3, <2>4, LookDates
<1> QED BY <1>3, <1>4 DEF LoadNow, Goto

(* The thread that takes the lock ends the period that curr_tick began.    *)
LEMMA CasDates == ASSUME DInv, IInv, NEW t \in Updaters, Cas(t) PROVE DInv'
<1>1. /\ pc[t] = "cas"
      /\ UNCHANGED <<clock, curr, prev, oldest, turned>>
  BY DEF Cas, history
<1>2. CASE /\ tick = local[t].tick
           /\ tick' = tick + 1
           /\ pc' = [pc EXCEPT ![t] = "xchg"]
           /\ UNCHANGED local
  <2>1. ~Locked(tick) /\ Locked(tick') /\ tick' \in Ticks
    <3>1. ~Locked(tick) /\ tick \in Ticks /\ tick \in Int
      BY <1>1, <1>2 DEF IInv, Types, DInv, DateTypes
    <3> QED BY <1>2, <3>1, Dates, EvenIs
  <2>2. /\ pc'[t] = "xchg"
        /\ \A u \in Updaters \ {t} : pc'[u] = pc[u] /\ pc[u] \notin Rotating
    BY <1>2, <2>1 DEF IInv, Types, OneRotator
  <2>3. Now' = Now /\ Missed(t)' = Missed(t)
    BY <1>1, <1>2 DEF Now, Missed
  <2>4. UpdaterOK(t)'
    BY <1>1, <1>2, <2>1, <2>2, <2>3
       DEF DInv, FreeOK, UpdaterOK, Aged, Deciding, Within
  <2>5. \A u \in Updaters \ {t} : UpdaterOK(u)'
    BY <1>1, <1>2, <2>1, <2>2, OtherDates
  <2>6. DateTypes'
    BY <1>1, <1>2, <2>1 DEF DInv, DateTypes, Dated
  <2>7. FreeOK'
    BY <2>1 DEF FreeOK
  <2> QED BY <2>4, <2>5, <2>6, <2>7 DEF DInv
<1>3. CASE /\ local' = [local EXCEPT ![t] = NoLocals]
           /\ pc' = [pc EXCEPT ![t] = "slow"]
           /\ UNCHANGED tick
  <2>1. /\ local'[t].tick = 0 /\ local'[t].now = 0 /\ local'[t].ctr = 0
        /\ \A u \in Updaters \ {t} : local'[u] = local[u]
        /\ pc'[t] = "slow" /\ 0 \in Ticks
    BY <1>3, Constants DEF IInv, Types, NoLocals, Ticks
  <2>2. UpdaterOK(t)'
    BY <2>1 DEF UpdaterOK, Aged, Deciding
  <2>3. local'[t].tick \in Ticks /\ local'[t].now \in Ticks /\ local'[t].ctr >= 0
    BY <2>1
  <2> QED BY <1>1, <1>3, <2>1, <2>2, <2>3, LookDates
<1> QED BY <1>2, <1>3 DEF Cas, Goto

(* The event that is added now is the youngest there is.                   *)
LEMMA AddDates == ASSUME DInv, IInv, NEW t \in Updaters, Add(t) PROVE DInv'
<1>1. /\ pc[t] = "add" /\ pc' = [pc EXCEPT ![t] = "idle"]
      /\ curr' = curr + 1
      /\ oldest' = [oldest EXCEPT !.curr = IF @ = None THEN clock ELSE @]
      /\ UNCHANGED <<clock, tick, prev, local, turned>>
  BY DEF Add, Goto
<1>2. /\ pc'[t] = "idle" /\ curr \in Int
      /\ \A u \in Updaters \ {t} : pc'[u] = pc[u]
  BY <1>1 DEF IInv, Types
<1>3. /\ oldest'.curr = (IF oldest.curr = None THEN clock ELSE oldest.curr)
      /\ oldest'.prev = oldest.prev
      /\ oldest' = [curr |-> oldest'.curr, prev |-> oldest'.prev]
  BY <1>1 DEF DInv, DateTypes
<1>4. /\ clock \in Nat /\ tick \in Ticks /\ Now' = Now /\ curr >= 0
      /\ \A x \in Ticks : Sub(Now, x) \in Nat
  BY <1>1, NowIs DEF DInv, DateTypes, Now
<1>5. DateTypes'
  <2>1. Dated(oldest.curr)' /\ Dated(oldest.prev)'
    BY <1>1, <1>3, <1>4 DEF DInv, DateTypes, Dated
  <2>2. curr' >= 0
    BY <1>1, <1>2, <1>4
  <2> QED BY <1>1, <1>3, <2>1, <2>2 DEF DInv, DateTypes
<1>6. ASSUME NEW x \in Ticks, Within(oldest.curr, Sub(Now, x))
      PROVE  Within(oldest'.curr, Sub(Now, x))
  BY <1>3, <1>4, <1>6 DEF Within
<1>7. FreeOK'
  <2> SUFFICES ASSUME ~Locked(tick), ~turned PROVE FreeOK'
    BY <1>1 DEF FreeOK
  <2>1. Within(oldest'.curr, Sub(Now, tick))
    BY <1>4, <1>6 DEF DInv, FreeOK
  <2> QED BY <1>1, <1>3, <1>4, <2>1 DEF DInv, FreeOK, Within
<1>8. ASSUME NEW u \in Updaters PROVE UpdaterOK(u)'
  <2>1. CASE u = t
    BY <1>2, <2>1 DEF UpdaterOK, Aged, Deciding
  <2>2. CASE u # t
    <3>1. /\ pc'[u] = pc[u] /\ local'[u] = local[u] /\ UpdaterOK(u)
          /\ local[u].tick \in Ticks /\ local[u].now \in Ticks
          /\ Missed(u)' = Missed(u)
      BY <1>1, <1>2, <1>4, <2>2 DEF DInv, DateTypes, Missed
    <3>2. /\ Within(oldest.curr, Sub(Now, local[u].tick)) =>
               Within(oldest'.curr, Sub(Now, local[u].tick))
          /\ Within(oldest.curr, Sub(Now, local[u].now)) =>
               Within(oldest'.curr, Sub(Now, local[u].now))
      BY <1>6, <3>1
    <3> QED BY <1>1, <1>3, <1>4, <3>1, <3>2
            DEF UpdaterOK, Aged, Deciding, Within
  <2> QED BY <2>1, <2>2
<1> QED BY <1>5, <1>7, <1>8 DEF DInv

(* A step within a rotation.                                               *)
LEMMA RotationDates ==
    ASSUME DInv, IInv, NEW t \in Updaters, pc[t] \in Rotating,
           NEW to \in Rotating, pc' = [pc EXCEPT ![t] = to],
           UNCHANGED <<clock, tick, turned>>, curr' >= 0, prev' >= 0,
           oldest' = [curr |-> oldest'.curr, prev |-> oldest'.prev],
           Dated(oldest'.curr), Dated(oldest'.prev),
           \A u \in Updaters \ {t} : local'[u] = local[u],
           local'[t].tick = local[t].tick, local'[t].now = local[t].now,
           local'[t].ctr >= 0, UpdaterOK(t)'
    PROVE  DInv'
<1>1. /\ pc'[t] = to
      /\ \A u \in Updaters \ {t} : pc'[u] = pc[u] /\ pc[u] \notin Rotating
  BY RotatorMoves
<1>2. Locked(tick)
  BY DEF IInv, OneRotator
<1>3. DateTypes'
  BY DEF DInv, DateTypes, Dated
<1>4. FreeOK'
  BY <1>2 DEF FreeOK
<1>5. \A u \in Updaters \ {t} : UpdaterOK(u)'
  BY <1>1, <1>2, OtherDates
<1> QED BY <1>3, <1>4, <1>5 DEF DInv

LEMMA XchgDates == ASSUME DInv, IInv, NEW t \in Updaters, Xchg(t) PROVE DInv'
<1>1. /\ pc[t] = "xchg" /\ pc' = [pc EXCEPT ![t] = "store"]
      /\ local' = [local EXCEPT ![t].ctr = curr] /\ curr' = 1
      /\ oldest' = [curr |-> clock, prev |-> oldest.curr]
      /\ UNCHANGED <<clock, tick, prev, turned>>
  BY DEF Xchg, Goto
<1>2. /\ pc[t] \in Rotating /\ "store" \in Rotating /\ pc'[t] = "store"
      /\ local'[t].tick = local[t].tick /\ local'[t].now = local[t].now
      /\ local'[t].ctr = curr
      /\ \A u \in Updaters \ {t} : local'[u] = local[u]
  BY <1>1 DEF IInv, Types, Rotating
<1>3. /\ clock \in Nat /\ Now' = Now /\ curr >= 0 /\ prev >= 0
      /\ Sub(Now, local[t].now) \in Nat /\ Missed(t)' = Missed(t)
      /\ Dated(oldest.curr) /\ UpdaterOK(t)
  BY <1>1, <1>2, NowIs DEF DInv, DateTypes, Now, Missed
<1>4. /\ oldest'.curr = clock /\ oldest'.prev = oldest.curr
      /\ oldest' = [curr |-> oldest'.curr, prev |-> oldest'.prev]
      /\ Dated(oldest'.curr) /\ Dated(oldest'.prev)
  BY <1>1, <1>3 DEF Dated
<1>5. UpdaterOK(t)'
  BY <1>1, <1>2, <1>3, <1>4 DEF UpdaterOK, Aged, Deciding, Within
<1>6. curr' >= 0 /\ prev' >= 0 /\ local'[t].ctr >= 0
  BY <1>1, <1>2, <1>3
<1> QED BY <1>1, <1>2, <1>4, <1>5, <1>6, RotationDates

LEMMA StoreDates == ASSUME DInv, IInv, NEW t \in Updaters, Store(t) PROVE DInv'
<1>1. /\ pc[t] = "store"
      /\ pc' = [pc EXCEPT ![t] = IF Missed(t) THEN "zero" ELSE "unlock"]
      /\ local' = [local EXCEPT ![t].ctr = 0] /\ prev' = local[t].ctr
      /\ UNCHANGED <<clock, tick, curr, oldest, turned>>
  BY DEF Store, Goto
<1>2. PICK to \in Rotating :
        /\ pc' = [pc EXCEPT ![t] = to] /\ pc'[t] = to
        /\ Missed(t) => to = "zero"
        /\ ~Missed(t) => to = "unlock"
  BY <1>1 DEF IInv, Types, Rotating
<1>3. /\ pc[t] \in Rotating
      /\ local'[t].tick = local[t].tick /\ local'[t].now = local[t].now
      /\ local'[t].ctr = 0
      /\ \A u \in Updaters \ {t} : local'[u] = local[u]
  BY <1>1 DEF IInv, Types, Rotating
<1>4. /\ Now' = Now /\ curr >= 0 /\ local[t].ctr >= 0
      /\ Missed(t)' = Missed(t) /\ UpdaterOK(t)
      /\ oldest = [curr |-> oldest.curr, prev |-> oldest.prev]
      /\ Dated(oldest.curr) /\ Dated(oldest.prev)
  BY <1>1, <1>3 DEF DInv, DateTypes, Now, Missed
<1>5. UpdaterOK(t)'
  BY <1>1, <1>2, <1>3, <1>4 DEF UpdaterOK, Aged, Deciding, Within
<1>6. /\ curr' >= 0 /\ prev' >= 0 /\ local'[t].ctr >= 0
      /\ oldest' = [curr |-> oldest'.curr, prev |-> oldest'.prev]
      /\ Dated(oldest'.curr) /\ Dated(oldest'.prev)
  BY <1>1, <1>3, <1>4
<1> QED BY <1>1, <1>2, <1>3, <1>5, <1>6, RotationDates

LEMMA ZeroDates == ASSUME DInv, IInv, NEW t \in Updaters, Zero(t) PROVE DInv'
<1>1. /\ pc[t] = "zero" /\ pc' = [pc EXCEPT ![t] = "unlock"]
      /\ oldest' = [oldest EXCEPT !.prev = None] /\ prev' = 0
      /\ UNCHANGED <<clock, tick, curr, local, turned>>
  BY DEF Zero, Goto
<1>2. pc[t] \in Rotating /\ "unlock" \in Rotating /\ pc'[t] = "unlock"
  BY <1>1 DEF IInv, Types, Rotating
<1>3. /\ Now' = Now /\ curr >= 0 /\ local[t].ctr >= 0
      /\ Missed(t)' = Missed(t) /\ UpdaterOK(t)
      /\ Dated(oldest.curr)
  BY <1>1 DEF DInv, DateTypes, Now, Missed
<1>4. /\ oldest'.curr = oldest.curr /\ oldest'.prev = None
      /\ oldest' = [curr |-> oldest'.curr, prev |-> oldest'.prev]
      /\ Dated(oldest'.prev)
  BY <1>1 DEF DInv, DateTypes, Dated
<1>5. UpdaterOK(t)'
  BY <1>1, <1>2, <1>3, <1>4 DEF UpdaterOK, Aged, Deciding, Within
<1>6. curr' >= 0 /\ prev' >= 0 /\ local'[t].ctr >= 0
  BY <1>1, <1>3
<1> QED BY <1>1, <1>2, <1>3, <1>4, <1>5, <1>6, RotationDates

(* The window of the new period has room for the events that were moved    *)
(* and for those that came during the rotation.                            *)
LEMMA UnlockDates == ASSUME DInv, IInv, NEW t \in Updaters, Unlock(t) PROVE DInv'
<1> DEFINE x == local[t].tick
           n == local[t].now
           end == (x + Period) % Wrap
<1>1. /\ pc[t] = "unlock" /\ pc' = [pc EXCEPT ![t] = "idle"]
      /\ tick' = Even(IF Missed(t) THEN n ELSE end)
      /\ local' = [local EXCEPT ![t] = NoLocals]
      /\ UNCHANGED <<clock, curr, prev, oldest, turned>>
  BY DEF Unlock, Goto, history
<1>2. /\ pc'[t] = "idle" /\ pc[t] \in Rotating
      /\ local'[t].tick = 0 /\ local'[t].now = 0 /\ local'[t].ctr = 0
      /\ \A u \in Updaters \ {t} :
            pc'[u] = pc[u] /\ local'[u] = local[u] /\ pc[u] \notin Rotating
  BY <1>1 DEF IInv, Types, OneRotator, NoLocals, Rotating
<1>3. /\ Now' = Now /\ Now \in Ticks /\ x \in Ticks /\ n \in Ticks /\ end \in Ticks
      /\ Sub(Now, n) \in Nat /\ Sub(Now, x) \in Nat
      /\ clock \in Nat /\ Period \in Nat /\ Wrap \in Nat /\ 1 < Period
      /\ Dated(oldest.curr) /\ Dated(oldest.prev)
  BY <1>1, EndIs, NowIs, Constants DEF DInv, DateTypes, Now
<1>4. tick' \in Ticks
  BY <1>1, <1>3, EvenIs
<1>5. ASSUME ~turned
      PROVE  /\ Within(oldest.curr, Sub(Now, tick'))
             /\ Within(oldest.prev, Sub(Now, tick') + Period)
  <2>1. /\ Sub(Now, n) < Wrap - 2 * Period /\ Sub(n, x) >= Period
        /\ Within(oldest.curr, Sub(Now, n))
        /\ ~Missed(t) => Within(oldest.prev, Sub(Now, x))
        /\ Missed(t) => oldest.prev = None
    BY <1>1, <1>5 DEF DInv, UpdaterOK, Aged, Deciding
  <2>2. CASE Missed(t)
    <3>1. Sub(Now, n) < Wrap - 1
      BY <1>3, <2>1
    <3>2. Sub(Now, tick') = Sub(Now, n) \/ Sub(Now, tick') = Sub(Now, n) + 1
      BY <1>1, <1>3, <2>2, <3>1, EvenAge
    <3> QED BY <1>3, <2>1, <2>2, <3>2 DEF Within, Dated
  <2>3. CASE ~Missed(t)
    <3>1. ~ (Sub(n, end) >= Period)
      BY <2>3 DEF Missed
    <3>2. /\ Sub(Now, end) = Sub(Now, x) - Period
          /\ Sub(Now, end) >= Sub(Now, n) /\ Sub(Now, end) < Wrap - 1
      <4> HIDE DEF x, n
      <4> QED BY <1>3, <2>1, <3>1, EndedPeriod
    <3> HIDE DEF end
    <3>3. Sub(Now, tick') = Sub(Now, end) \/ Sub(Now, tick') = Sub(Now, end) + 1
      BY <1>1, <1>3, <2>3, <3>2, EvenAge
    <3> QED BY <1>3, <2>1, <2>3, <3>2, <3>3 DEF Within, Dated
  <2> QED BY <2>2, <2>3
<1>6. FreeOK'
  BY <1>1, <1>3, <1>5 DEF FreeOK, Within
<1>7. DateTypes'
  <2>1. 0 \in Ticks
    BY Constants DEF Ticks
  <2> QED BY <1>1, <1>2, <1>4, <2>1 DEF DInv, DateTypes, Dated
<1>8. UpdaterOK(t)'
  BY <1>2 DEF UpdaterOK, Aged, Deciding
<1>9. \A u \in Updaters \ {t} : UpdaterOK(u)'
  BY <1>1, <1>2, OtherDates
<1> QED BY <1>6, <1>7, <1>8, <1>9 DEF DInv

(* The readers, and a step that changes nothing.                           *)
LEMMA QuietDates ==
    ASSUME DInv, UNCHANGED <<clock, tick, curr, prev, local, oldest, turned>>,
           \A t \in Updaters : pc'[t] = pc[t]
    PROVE  DInv'
<1>1. Now' = Now
  BY DEF Now
<1>2. DateTypes'
  BY DEF DInv, DateTypes, Dated
<1>3. FreeOK'
  BY <1>1 DEF DInv, FreeOK, Within
<1>4. \A t \in Updaters : UpdaterOK(t)'
  BY OtherDates
<1> QED BY <1>2, <1>3, <1>4 DEF DInv

LEMMA NextDInv == DInv /\ IInv /\ [Next]_vars => DInv'
<1> SUFFICES ASSUME DInv, IInv, [Next]_vars PROVE DInv'
  OBVIOUS
<1>1. CASE Tick
  BY <1>1, TickDates
<1>2. ASSUME NEW t \in Updaters,
             \/ Update(t) \/ Add(t) \/ LoadTick(t) \/ LoadNow(t) \/ Cas(t)
             \/ Xchg(t) \/ Store(t) \/ Zero(t) \/ Unlock(t)
      PROVE  DInv'
  BY <1>2, UpdateDates, AddDates, LoadTickDates, LoadNowDates, CasDates,
     XchgDates, StoreDates, ZeroDates, UnlockDates
<1>3. ASSUME NEW r \in Readers,
             \/ StartRead(r) \/ ReadTick(r) \/ ReadCurr(r) \/ ReadPast(r)
             \/ TickAgain(r) \/ CurrAgain(r) \/ PastAgain(r) \/ Result(r)
             \/ EndRead(r)
      PROVE  DInv'
  <2>1. \E from, to : ReaderStep(r, from, to)
    BY <1>3 DEF StartRead, ReadTick, ReadCurr, ReadPast, TickAgain, CurrAgain,
                PastAgain, Result, EndRead
  <2>2. /\ UNCHANGED <<clock, tick, curr, prev, local, oldest, turned>>
        /\ \A t \in Updaters : pc'[t] = pc[t]
    BY <2>1, ConstantsOK DEF ReaderStep, Goto, ctr, history, IInv, Types
  <2> QED BY <2>2, QuietDates
<1>4. CASE UNCHANGED vars
  BY <1>4, QuietDates DEF vars
<1> QED BY <1>1, <1>2, <1>3, <1>4 DEF Next

(* How old the events of every date are, at all times.                     *)
THEOREM DatesInductive == Spec => []DInv
BY Inductive, InitDInv, NextDInv, PTL DEF Spec

(* Between rotations curr_ctr holds no event older than its period, and    *)
(* prev_ctr none older than the period before it, over any number of wraps *)
(* of the ticks and however late the thread that rotated them was; unless  *)
(* a date in use was left for a full turn of the ticks.                    *)
THEOREM WindowHolds == Spec => []Window
<1>1. DInv => Window
  BY DEF DInv, FreeOK, Window, Within
<1> QED BY <1>1, DatesInductive, PTL

-----------------------------------------------------------------------------
(* The total of a reading                                                  *)

(* What a reading may have seen: a counter whose events were in its window *)
(* and are, as long as the clock does not come back to its tick.           *)
SeenOK(e) ==
    /\ e.tick \in Ticks
    /\ Dated(e.oldest.curr) /\ Dated(e.oldest.prev)
    /\ ~turned => /\ Within(e.oldest.curr, Sub(Now, e.tick))
                  /\ Within(e.oldest.prev, Sub(Now, e.tick) + Period)

ReaderOK(r) ==
    /\ read[r].tick \in Ticks /\ read[r].curr >= 0 /\ read[r].past >= 0
    /\ \A e \in seen[r] : SeenOK(e)
    /\ pc[r] \in {"pastagain", "result"} => read[r].whole

TotalInv == \A r \in Readers : ReaderOK(r)

LEMMA InitTotal == Init => TotalInv
BY Constants DEF Init, TotalInv, ReaderOK, NoRead, Ticks

(* A part of a whole, weighted by what is left of the period.              *)
LEMMA Weighted ==
    ASSUME NEW a \in Nat, NEW p \in Nat, NEW x \in 0 .. p
    PROVE  a * x \in Nat /\ a * x <= a * p /\ a * p \in Nat /\ p * a = a * p
<1>1. a * x \in Nat /\ a * (p - x) \in Nat /\ a * p \in Nat
  OBVIOUS
<1>2. a * p = a * x + a * (p - x)
  OBVIOUS
<1>3. p * a = a * p
  OBVIOUS
<1> QED BY <1>1, <1>2, <1>3

(* What is left of a period that is not neglected is on the right side of  *)
(* the half turn.                                                          *)
LEMMA RemainIs ==
    ASSUME clock \in Nat, NEW r \in Readers, read[r].tick \in Ticks,
           ~Neglected(r)
    PROVE  /\ Remain(r) = Period - Sub(Now, read[r].tick)
           /\ Sub(Now, read[r].tick) \in Nat
<1> DEFINE x == read[r].tick
           end == (x + Period) % Wrap
           a == Sub(Now, x)
<1>1. /\ Now \in Ticks /\ a \in Nat /\ a < Wrap /\ ~ (2 * (a - Period) > Wrap)
  BY NowIs DEF Neglected
<1>2. /\ end = IF x + Period < Wrap THEN x + Period ELSE x + Period - Wrap
      /\ end \in Ticks
  BY EndIs
<1>3. a = IF Now >= x THEN Now - x ELSE Now - x + Wrap
  BY <1>1, SubIs
<1>4. Remain(r) = Signed(Sub(end, Now))
  BY DEF Remain
<1> HIDE DEF end, a
<1>5. Sub(end, Now) = IF end >= Now THEN end - Now ELSE end - Now + Wrap
  BY <1>1, <1>2, SubIs
<1>6. /\ x \in Int /\ Now \in Int /\ Wrap \in Int /\ Period \in Int /\ end \in Int
      /\ 0 <= x /\ x < Wrap /\ 0 <= Now /\ Now < Wrap
      /\ 2 <= Period /\ 3 * Period <= Wrap
  BY <1>1, <1>2, Constants DEF Ticks
<1> HIDE DEF x
<1>7. Sub(end, Now) = IF a <= Period THEN Period - a ELSE Period - a + Wrap
  BY <1>1, <1>2, <1>3, <1>5, <1>6
<1>8. Signed(Sub(end, Now)) = Period - a
  <2>1. CASE a <= Period
    BY <1>1, <1>6, <1>7, <2>1 DEF Signed
  <2>2. CASE ~(a <= Period)
    <3>1. 2 * Sub(end, Now) >= Wrap /\ Sub(end, Now) - Wrap = Period - a
      BY <1>1, <1>6, <1>7, <2>2
    <3> QED BY <3>1 DEF Signed
  <2> QED BY <2>1, <2>2
<1> QED BY <1>1, <1>4, <1>8 DEF a, x

(* The total lies between nothing and everything, late or in time, and two *)
(* periods later it is nothing.                                            *)
LEMMA ResultTotal ==
    ASSUME IInv, DInv, RInv, TotalInv, NEW r \in Readers, Result(r), ~Neglected(r)
    PROVE  /\ read'[r].total \in 0 .. Period * (read[r].curr + read[r].past)
           /\ read'[r].total # 0 => Sub(Now, read[r].tick) <= 2 * Period
<1> DEFINE late   == Remain(r) < 0
           remain == IF late THEN Remain(r) + Period ELSE Remain(r)
           past   == IF ~late THEN read[r].past
                     ELSE IF remain >= 0 THEN read[r].curr ELSE 0
           now    == IF late THEN 0 ELSE read[r].curr
           total  == IF now = 0 /\ past <= 1 THEN past * Period
                     ELSE past * remain + now * Period
           c == read[r].curr
           p == read[r].past
           a == Sub(Now, read[r].tick)
<1>1. /\ read[r] \in ReadRecords /\ c \in Nat /\ p \in Nat /\ Period \in Nat
      /\ read[r].tick \in Ticks /\ clock \in Nat
  BY Constants DEF RInv, DInv, DateTypes, TotalInv, ReaderOK, ReadRecords
<1>2. read' = [read EXCEPT ![r].total = total]
  BY DEF Result
<1>3. read'[r].total = total
  <2> HIDE DEF total
  <2> QED BY <1>1, <1>2 DEF RInv, ReadRecords
<1>4. Remain(r) = Period - a /\ a \in Nat
  BY <1>1, RemainIs
<1>5. /\ Period * (c + p) = Period * c + Period * p
      /\ Period * c \in Nat /\ Period * p \in Nat
  BY <1>1
<1> HIDE DEF a, c, p
<1>6. total \in 0 .. Period * (c + p) /\ (total # 0 => a <= 2 * Period)
  <2>1. CASE a <= Period
    <3>1. /\ ~late /\ remain = Period - a /\ remain \in 0 .. Period
          /\ past = p /\ now = c /\ a <= 2 * Period
      BY <1>1, <1>4, <2>1 DEF c, p
    <3> HIDE DEF remain, past, now
    <3>2. /\ p * remain \in Nat /\ p * remain <= p * Period
          /\ p * Period = Period * p /\ c * Period = Period * c
      BY <1>1, <3>1, Weighted
    <3>3. total = p * Period \/ total = p * remain + c * Period
      BY <3>1
    <3> HIDE DEF total
    <3> QED BY <1>5, <3>1, <3>2, <3>3
  <2>2. CASE ~(a <= Period)
    <3>1. /\ late /\ now = 0 /\ remain = Period - a + Period
          /\ remain \in Int /\ remain < Period
          /\ past = IF remain >= 0 THEN c ELSE 0
      BY <1>1, <1>4, <2>2 DEF c, p
    <3> HIDE DEF remain, past, now
    <3>2. CASE remain >= 0
      <4>1. past = c /\ remain \in 0 .. Period /\ a <= 2 * Period
        BY <1>1, <1>4, <3>1, <3>2
      <4>2. /\ c * remain \in Nat /\ c * remain <= c * Period
            /\ c * Period = Period * c /\ 0 * Period = 0
        BY <1>1, <4>1, Weighted
      <4>3. total = c * Period \/ total = c * remain + 0 * Period
        BY <3>1, <4>1
      <4> HIDE DEF total
      <4> QED BY <1>5, <4>1, <4>2, <4>3
    <3>3. CASE ~(remain >= 0)
      <4>1. total = 0 * Period /\ 0 * Period = 0
        BY <1>1, <3>1, <3>3
      <4> HIDE DEF total
      <4> QED BY <1>5, <4>1
    <3> QED BY <3>2, <3>3
  <2> QED BY <2>1, <2>2
<1> HIDE DEF total
<1> QED BY <1>3, <1>6 DEF a, c, p

(* What was seen stays what it is, and its events age with its tick.       *)
LEMMA SeenStays ==
    ASSUME DInv, (clock' = clock /\ turned' = turned) \/ Tick,
           NEW r \in Readers, NEW e \in seen[r], SeenOK(e)
    PROVE  SeenOK(e)'
<1>1. CASE clock' = clock /\ turned' = turned
  BY <1>1 DEF SeenOK, Within, Dated, Now
<1>2. CASE Tick
  <2>1. /\ clock \in Nat /\ clock' \in Nat /\ clock' > clock /\ e.tick \in Ticks
        /\ Dated(e.oldest.curr) /\ Dated(e.oldest.prev)
    BY <1>2, NowNext DEF DInv, DateTypes, SeenOK
  <2>2. Dated(e.oldest.curr)' /\ Dated(e.oldest.prev)'
    BY <2>1 DEF Dated
  <2>3. ASSUME ~turned'
        PROVE  (/\ Within(e.oldest.curr, Sub(Now, e.tick))
                /\ Within(e.oldest.prev, Sub(Now, e.tick) + Period))'
    <3>1. ~turned /\ ~FullTurn
      BY <1>2, <2>3, NoFullTurn
    <3>2. /\ Within(e.oldest.curr, Sub(Now, e.tick))
          /\ Within(e.oldest.prev, Sub(Now, e.tick) + Period)
      BY <3>1 DEF SeenOK
    <3>3. CASE Empty(e.oldest)
      BY <3>3 DEF Empty, Within
    <3>4. CASE ~Empty(e.oldest)
      <4>1. ~Passed(e.tick)
        BY <3>1, <3>4 DEF FullTurn
      <4>2. Sub(Now', e.tick) >= Sub(Now, e.tick)
        <5>1. Now' \in Ticks
          BY <1>2, <2>1, NowNext
        <5>2. Sub(Now', e.tick) \in Ticks /\ Sub(Now, e.tick) \in Nat
          BY <2>1, <5>1, SubIs, NowIs
        <5> QED BY <4>1, <5>2, Constants DEF Passed, Ticks
      <4> QED BY <1>2, <2>1, <3>2, <4>2, WithinGrows DEF Within
    <3> QED BY <3>3, <3>4
  <2> QED BY <2>1, <2>2, <2>3 DEF SeenOK
<1> QED BY <1>1, <1>2

(* What the counter is after a step, between rotations.                    *)
LEMMA SnapshotSane ==
    ASSUME DInv', ~Locked(tick') PROVE SeenOK(Snapshot)'
BY DEF DInv, DateTypes, FreeOK, SeenOK, Snapshot

(* A reading sees nothing but the counter itself.                          *)
LEMMA SeenGrows ==
    ASSUME DInv, DInv', TotalInv, NEW r \in Readers,
           (clock' = clock /\ turned' = turned) \/ Tick,
           \A e \in seen'[r] : e \in seen[r] \/ (~Locked(tick') /\ e = Snapshot')
    PROVE  \A e \in seen'[r] : SeenOK(e)'
<1> SUFFICES ASSUME NEW e \in seen'[r] PROVE SeenOK(e)'
  OBVIOUS
<1>1. CASE e \in seen[r]
  BY <1>1, SeenStays DEF TotalInv, ReaderOK
<1>2. CASE ~Locked(tick') /\ e = Snapshot'
  BY <1>2, SnapshotSane DEF SeenOK, Within, Dated, Now
<1> QED BY <1>1, <1>2

(* A step of another thread.                                               *)
LEMMA TotalOthers ==
    ASSUME DInv, DInv', TotalInv, NEW R \in SUBSET Readers,
           (clock' = clock /\ turned' = turned) \/ Tick,
           \A r \in R :
             /\ read'[r] = read[r] /\ pc'[r] = pc[r]
             /\ \A e \in seen'[r] :
                  e \in seen[r] \/ (~Locked(tick') /\ e = Snapshot')
    PROVE  \A r \in R : ReaderOK(r)'
<1> SUFFICES ASSUME NEW r \in R PROVE ReaderOK(r)'
  OBVIOUS
<1>1. \A e \in seen'[r] : SeenOK(e)'
  BY SeenGrows
<1> QED BY <1>1 DEF TotalInv, ReaderOK

(* The steps of the updaters and of the clock.                             *)
LEMMA UpdaterTotal ==
    ASSUME IInv, DInv, DInv', TotalInv,
           \/ Tick
           \/ \E t \in Updaters :
                \/ Update(t) \/ Add(t) \/ LoadTick(t) \/ LoadNow(t) \/ Cas(t)
                \/ Xchg(t) \/ Store(t) \/ Zero(t) \/ Unlock(t)
    PROVE  TotalInv'
<1>1. /\ UNCHANGED read /\ (UNCHANGED seen \/ Witness)
      /\ (clock' = clock /\ turned' = turned) \/ Tick
  BY DEF Tick, Update, Add, LoadTick, LoadNow, Cas, Xchg, Store, Zero, Unlock,
         witness, history
<1>2. \A r \in Readers : pc'[r] = pc[r]
  <2>1. UNCHANGED pc \/ \E t \in Updaters : \E to : pc' = [pc EXCEPT ![t] = to]
    BY DEF Tick, Update, Add, LoadTick, LoadNow, Cas, Xchg, Store, Zero, Unlock,
           Goto
  <2> QED BY <2>1, ConstantsOK DEF IInv, Types
<1>3. ASSUME NEW r \in Readers, NEW e \in seen'[r]
      PROVE  e \in seen[r] \/ (~Locked(tick') /\ e = Snapshot')
  BY <1>1, <1>3 DEF Witness
<1> QED BY <1>1, <1>2, <1>3, TotalOthers DEF TotalInv

(* A step of a reader.                                                     *)
LEMMA ReaderTotal ==
    ASSUME IInv, RInv, DInv, DInv', TotalInv, NEW r \in Readers,
           \/ StartRead(r) \/ ReadTick(r) \/ ReadCurr(r) \/ ReadPast(r)
           \/ TickAgain(r) \/ CurrAgain(r) \/ PastAgain(r) \/ Result(r)
           \/ EndRead(r)
    PROVE  TotalInv'
<1>1. /\ UNCHANGED <<clock, tick, curr, prev, oldest, turned>>
      /\ \E to : pc' = [pc EXCEPT ![r] = to]
      /\ \A u \in Readers \ {r} : read'[u] = read[u] /\ seen'[u] = seen[u]
  <2>1. \E from, to : ReaderStep(r, from, to)
    BY DEF StartRead, ReadTick, ReadCurr, ReadPast, TickAgain, CurrAgain,
           PastAgain, Result, EndRead
  <2>2. \A u \in Readers \ {r} : read'[u] = read[u]
    BY DEF StartRead, ReadTick, ReadCurr, ReadPast, TickAgain, CurrAgain,
           PastAgain, Result, EndRead, RInv
  <2>3. \A u \in Readers \ {r} : seen'[u] = seen[u]
    BY DEF StartRead, ReadTick, ReadCurr, ReadPast, TickAgain, CurrAgain,
           PastAgain, Result, EndRead, Look, RInv, witness
  <2> QED BY <2>1, <2>2, <2>3 DEF ReaderStep, Goto, ctr, history
<1>2. /\ read[r] \in ReadRecords /\ r \in DOMAIN pc
      /\ ReaderOK(r) /\ curr >= 0 /\ prev >= 0 /\ tick \in Ticks
  BY DEF TotalInv, DInv, DateTypes, RInv, IInv, Types
<1>3. \A u \in Readers \ {r} : ReaderOK(u)'
  <2>1. \A u \in Readers \ {r} :
           read'[u] = read[u] /\ pc'[u] = pc[u] /\ seen'[u] = seen[u]
    BY <1>1 DEF RInv, IInv, Types
  <2> QED BY <1>1, <2>1, TotalOthers
<1>4. \A e \in seen'[r] : SeenOK(e)'
  <2>1. Snapshot' = Snapshot /\ tick' = tick
    BY <1>1 DEF Snapshot
  <2>2. \/ seen'[r] = seen[r] \/ seen'[r] = {}
        \/ (~Locked(tick) /\ seen'[r] = {Snapshot})
    BY DEF RInv, StartRead, ReadTick, ReadCurr, ReadPast, TickAgain, CurrAgain,
           PastAgain, Result, EndRead, Look, witness
  <2>3. ASSUME NEW e \in seen'[r]
        PROVE  e \in seen[r] \/ (~Locked(tick') /\ e = Snapshot')
    BY <2>1, <2>2, <2>3
  <2> QED BY <1>1, <2>3, SeenGrows
<1>5. /\ read'[r].tick \in Ticks /\ read'[r].curr >= 0 /\ read'[r].past >= 0
      /\ pc'[r] \in {"pastagain", "result"} => read'[r].whole
  <2>1. CASE StartRead(r)
    <3>1. PICK w \in BOOLEAN :
             read' = [read EXCEPT ![r].tick = tick, ![r].whole = w,
                                  ![r].total = 0, ![r].since = clock]
      BY <2>1 DEF StartRead
    <3>2. /\ read'[r].curr = read[r].curr /\ read'[r].past = read[r].past
          /\ read'[r].tick = tick
      BY <1>2, <3>1 DEF RInv, ReadRecords
    <3>3. pc'[r] = "curr"
      BY <1>2, <2>1 DEF StartRead, ReaderStep, Goto
    <3> QED BY <1>2, <3>2, <3>3 DEF ReaderOK
  <2>2. CASE ReadTick(r) \/ ReadCurr(r) \/ ReadPast(r) \/ TickAgain(r)
    BY <1>2, <2>2 DEF ReadTick, ReadCurr, ReadPast, TickAgain, ReaderStep, Goto,
                      ReaderOK, ReadRecords, RInv, IInv, Types
  <2>3. CASE CurrAgain(r)
    <3>1. /\ read'[r].curr = curr /\ read'[r].past = read[r].past
          /\ read'[r].whole = read[r].whole /\ read'[r].tick = read[r].tick
          /\ pc'[r] \in {"pastagain", "result"} => read[r].whole
      BY <1>2, <2>3 DEF CurrAgain, ReaderStep, Goto, ReadRecords, RInv, IInv,
                        Types
    <3> QED BY <1>2, <3>1 DEF ReaderOK
  <2>4. CASE PastAgain(r)
    BY <1>2, <2>4 DEF PastAgain, ReaderStep, Goto, ReaderOK, ReadRecords, RInv,
                      IInv, Types
  <2>5. CASE Result(r)
    <3>1. pc'[r] = "got"
      BY <1>2, <2>5 DEF Result, ReaderStep, Goto
    <3>2. PICK total : read' = [read EXCEPT ![r].total = total]
      BY <2>5 DEF Result
    <3>3. /\ read'[r].curr = read[r].curr /\ read'[r].past = read[r].past
          /\ read'[r].tick = read[r].tick
      BY <1>2, <3>2 DEF RInv, ReadRecords
    <3> QED BY <1>2, <3>1, <3>3 DEF ReaderOK
  <2>6. CASE EndRead(r)
    BY <1>2, <2>6, Constants DEF EndRead, ReaderStep, Goto, NoRead, RInv, Ticks
  <2> QED BY <2>1, <2>2, <2>3, <2>4, <2>5, <2>6
<1>6. ReaderOK(r)'
  BY <1>4, <1>5 DEF ReaderOK
<1> QED BY <1>3, <1>6 DEF TotalInv

LEMMA NextTotal ==
    IInv /\ RInv /\ DInv /\ TotalInv /\ [Next]_vars => TotalInv'
<1> SUFFICES ASSUME IInv, RInv, DInv, TotalInv, [Next]_vars PROVE TotalInv'
  OBVIOUS
<1>1. DInv'
  BY NextDInv
<1>2. CASE UNCHANGED vars
  BY <1>1, <1>2, TotalOthers DEF vars, TotalInv
<1> QED BY <1>1, <1>2, UpdaterTotal, ReaderTotal DEF Next

(* The total of a reader is computed by its Result step and no other.      *)
LEMMA OnlyResult ==
    ASSUME IInv, Next, NEW r \in Readers, pc[r] = "result", pc'[r] = "got"
    PROVE  Result(r)
<1>1. ASSUME NEW t \in Updaters,
             \/ Update(t) \/ Add(t) \/ LoadTick(t) \/ LoadNow(t) \/ Cas(t)
             \/ Xchg(t) \/ Store(t) \/ Zero(t) \/ Unlock(t)
      PROVE  FALSE
  <2>1. \E to : pc' = [pc EXCEPT ![t] = to]
    BY <1>1 DEF Update, Add, LoadTick, LoadNow, Cas, Xchg, Store, Zero, Unlock,
                Goto
  <2> QED BY <2>1, ConstantsOK DEF IInv, Types
<1>2. ASSUME NEW u \in Readers, NEW from, NEW to, ReaderStep(u, from, to),
             from # "result"
      PROVE  FALSE
  BY <1>2 DEF ReaderStep, Goto, IInv, Types
<1>3. ASSUME NEW u \in Readers, Result(u) PROVE u = r
  BY <1>3 DEF Result, ReaderStep, Goto, IInv, Types
<1>4. ~Tick
  BY DEF Tick
<1>5. ASSUME NEW u \in Readers
      PROVE  /\ ~StartRead(u) /\ ~ReadTick(u) /\ ~ReadCurr(u) /\ ~ReadPast(u)
             /\ ~CurrAgain(u) /\ ~PastAgain(u) /\ ~EndRead(u)
  BY <1>2 DEF StartRead, ReadTick, ReadCurr, ReadPast, CurrAgain, PastAgain,
              EndRead
<1>6. ASSUME NEW u \in Readers PROVE ~TickAgain(u)
  BY <1>2 DEF TickAgain
<1> QED BY <1>1, <1>3, <1>4, <1>5, <1>6 DEF Next

(* A total that is not nothing is made of events of the last two periods.  *)
LEMMA TotalRecent ==
    ASSUME IInv, DInv, RInv, TotalInv, NEW r \in Readers, pc[r] = "result",
           Sub(Now, read[r].tick) <= 2 * Period, r \notin reused, ~turned
    PROVE  \E e \in seen[r] :
              /\ Matches(r, e)
              /\ \A d \in Counting(e, Sub(Now, read[r].tick)) \ {None} :
                    clock - d <= 2 * Period
<1> DEFINE a == Sub(Now, read[r].tick)
<1>1. PICK e \in seen[r] :
        /\ e.tick = read[r].tick /\ e.curr = read[r].curr
        /\ read[r].whole => e.past = read[r].past
  BY DEF RInv, ReadingOK, ReadingReal, Found
<1>2. /\ e.tick \in Ticks /\ Dated(e.oldest.curr) /\ Dated(e.oldest.prev)
      /\ Within(e.oldest.curr, a) /\ Within(e.oldest.prev, a + Period)
  BY <1>1 DEF TotalInv, ReaderOK, SeenOK
<1>3. a \in Nat /\ clock \in Nat /\ Period \in Nat
  BY <1>1, <1>2, NowIs, Constants DEF DInv, DateTypes
<1>4. ASSUME NEW d \in Counting(e, a) \ {None} PROVE clock - d <= 2 * Period
  <2>1. CASE d = e.oldest.curr
    <3>1. d \in Nat /\ clock - d <= a /\ a <= 2 * Period
      BY <1>2, <1>4, <2>1 DEF Within, Dated
    <3> HIDE DEF a
    <3> QED BY <1>3, <3>1
  <2>2. CASE d = e.oldest.prev /\ a <= Period
    <3>1. d \in Nat /\ clock - d <= a + Period
      BY <1>2, <1>4, <2>2 DEF Within, Dated
    <3> HIDE DEF a
    <3> QED BY <1>3, <2>2, <3>1
  <2> QED BY <1>4, <2>1, <2>2 DEF Counting
<1> QED BY <1>1, <1>4 DEF Matches

(* The total that is computed from a reading lies between nothing and      *)
(* everything that was read, and if it is not nothing, it is made of       *)
(* events of the last two periods, for any uptime and any number of wraps  *)
(* of the ticks; except for a counter that nobody has rotated for half a   *)
(* turn of the ticks.                                                      *)
THEOREM TotalsSane == Spec => TotalSane
<1> DEFINE Sane ==
      \A r \in Readers : pc[r] = "result" /\ pc'[r] = "got" /\ ~Neglected(r) =>
         /\ read'[r].total \in 0 .. Period * (read[r].curr + read[r].past)
         /\ read'[r].total # 0 /\ r \notin reused /\ ~turned =>
              \E e \in seen[r] :
                 /\ Matches(r, e)
                 /\ \A d \in Counting(e, Sub(Now, read[r].tick)) \ {None} :
                       clock - d <= 2 * Period
<1>1. Spec => [](clock \in Int)
  BY ClockInt
<1>2. IInv /\ RInv /\ clock \in Int /\ [Next]_vars => RInv'
  BY NextRInv
<1>3. IInv /\ RInv /\ DInv /\ TotalInv /\ [Next]_vars => [Sane]_vars
  <2> SUFFICES ASSUME IInv, RInv, DInv, TotalInv, Next, NEW r \in Readers,
                      pc[r] = "result", pc'[r] = "got", ~Neglected(r)
               PROVE  /\ read'[r].total \in 0 .. Period * (read[r].curr + read[r].past)
                      /\ read'[r].total # 0 /\ r \notin reused /\ ~turned =>
                           \E e \in seen[r] :
                              /\ Matches(r, e)
                              /\ \A d \in Counting(e, Sub(Now, read[r].tick)) \ {None} :
                                    clock - d <= 2 * Period
    OBVIOUS
  <2>1. Result(r)
    BY OnlyResult
  <2> QED BY <2>1, ResultTotal, TotalRecent
<1>4. Spec => [](IInv /\ RInv /\ DInv /\ TotalInv)
  BY <1>1, <1>2, Inductive, DatesInductive, InitRInv, InitTotal, NextTotal, PTL
     DEF Spec
<1>5. Spec => [][Sane]_vars
  <2> HIDE DEF Sane
  <2> QED BY <1>3, <1>4, PTL DEF Spec
<1> QED BY <1>5 DEF TotalSane

=============================================================================
