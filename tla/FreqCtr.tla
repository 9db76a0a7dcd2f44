------------------------------ MODULE FreqCtr ------------------------------
(***************************************************************************)
(* The lock-free frequency counters of HAProxy (src/soa/lab3/haproxy/      *)
(* source, src/freq_ctr.c and include/haproxy/freq_ctr.h): the number of   *)
(* events of the current and of the last period, fed and read by all       *)
(* threads. The lowest bit of curr_tick says that a thread is rotating the *)
(* periods.                                                                *)
(*                                                                         *)
(* Every load, store, exchange and compare-and-swap of the structure is a  *)
(* step of its own. Ticks wrap at Wrap (2^32 in the code); the variable    *)
(* clock is global_now_ms without the wrap, counted from the start. Every  *)
(* update adds one event (inc = 1).                                        *)
(***************************************************************************)
EXTENDS Integers

CONSTANTS
    Updaters,    \* the threads that count events
    Readers,     \* the threads that read the counter
    None,        \* no event
    Period,      \* the period, in ticks
    Wrap,        \* ticks wrap here
    Start,       \* global_now_ms at the start
    MaxLag,      \* how far a thread's now_ms is behind global_now_ms
    MaxPause,    \* bound: how long a rotation may take
    MaxRead,     \* bound: how long a reading may take
    MaxClock,    \* bound: the time that passes
    MaxEvents    \* bound: the events that are counted

ASSUME ConstantsOK ==
    /\ Wrap \in Nat /\ Wrap % 2 = 0 /\ Wrap > 0
    /\ Period \in Nat /\ 2 <= Period /\ 3 * Period <= Wrap
    /\ Start \in 1 .. Wrap - 1
    /\ MaxLag \in Nat /\ MaxPause \in Nat /\ MaxRead \in Nat
    /\ MaxClock \in Nat /\ MaxEvents \in Nat
    /\ None \notin Nat
    /\ Updaters \cap Readers = {}

VARIABLES
    clock,      \* the time that global_now_ms has advanced since the start
    tick,       \* ctr->curr_tick
    curr,       \* ctr->curr_ctr
    prev,       \* ctr->prev_ctr
    pc,         \* where each thread is
    local,      \* the local variables of the updaters
    read,       \* the local variables of the readers
    added,      \* history: events counted so far
    dropped,    \* history: events that fell out of the last period
    oldest,     \* history: the date of the oldest event of curr and of prev
    turned,     \* history: a date in use was left for a full turn of the ticks
    seen,       \* history: what the counter was, between rotations, since
                \* a reader has first loaded the tick it works with
    reused      \* history: the readers in whose reading a period has begun at
                \* the very tick they work with

ctr     == <<tick, curr, prev>>
history == <<added, dropped, oldest, turned>>
witness == <<seen, reused>>
vars    == <<clock, tick, curr, prev, pc, local, read, added, dropped, oldest,
             turned, seen, reused>>

(* global_now_ms                                                           *)
Now == (Start + clock) % Wrap

(* a - b as unsigned int, and x taken as an int.                           *)
Sub(a, b) == (a - b) % Wrap
Signed(x) == IF 2 * x >= Wrap THEN x - Wrap ELSE x

Locked(x) == x % 2 = 1
Even(x)   == x - (x % 2)

Goto(t, step) == pc' = [pc EXCEPT ![t] = step]

NoLocals == [tick |-> 0, now |-> 0, ctr |-> 0]

NoRead == [tick |-> 0, curr |-> 0, past |-> 0, oldCurr |-> 0, oldPast |-> 0,
           whole |-> TRUE, total |-> 0, since |-> 0]

(* A null area.                                                            *)
Init ==
    /\ clock = 0
    /\ tick = 0 /\ curr = 0 /\ prev = 0
    /\ pc = [t \in Updaters \cup Readers |-> "idle"]
    /\ local = [t \in Updaters |-> NoLocals]
    /\ read = [r \in Readers |-> NoRead]
    /\ added = 0 /\ dropped = 0
    /\ oldest = [curr |-> None, prev |-> None] /\ turned = FALSE
    /\ seen = [r \in Readers |-> {}] /\ reused = {}

(* What the counter is, and how old its events are.                        *)
Snapshot == [tick |-> tick, curr |-> curr, past |-> prev, oldest |-> oldest]

(* What the readers under way may have seen after this step.               *)
Witness ==
    /\ seen' = [r \in Readers |->
                IF pc[r] = "idle" \/ Locked(tick') THEN seen[r]
                ELSE seen[r] \cup {Snapshot'}]
    /\ reused' = reused \cup
         {r \in Readers : pc[r] # "idle" /\ tick' # tick /\ tick' = read[r].tick}

(* t has found that the period is over, and is about to rotate it.         *)
Deciding(t) == pc[t] \in {"cas", "xchg", "store", "zero", "unlock"}

(* The date x is mistaken for a later one once the clock has come back to  *)
(* it.                                                                     *)
Passed(x) == Sub(Now', x) < Sub(Now, x)
Empty(o)  == o.curr = None /\ o.prev = None

(* In this step the clock comes back to the date of a counter with events, *)
(* or of one that a reader has seen; or almost to the date at which a      *)
(* thread has begun a rotation.                                            *)
FullTurn ==
    \/ ~Locked(tick) /\ ~Empty(oldest) /\ Passed(tick)
    \/ \E r \in Readers : \E e \in seen[r] : ~Empty(e.oldest) /\ Passed(e.tick)
    \/ \E t \in Updaters :
         Deciding(t) /\ Sub(Now', local[t].now) >= Wrap - 2 * Period

(* Time passes. No date is 0 (TICK_ETERNITY): the clock skips it.          *)
Tick ==
    /\ clock < MaxClock
    /\ \A t \in Updaters : Deciding(t) => Sub(Now, local[t].now) < MaxPause
    /\ \A r \in Readers : pc[r] # "idle" => clock - read[r].since < MaxRead
    /\ clock' = clock + (IF Now = Wrap - 1 THEN 2 ELSE 1)
    /\ turned' = (turned \/ FullTurn)
    /\ UNCHANGED <<ctr, pc, local, read, added, dropped, oldest, witness>>

-----------------------------------------------------------------------------
(* update_freq_ctr_period() and update_freq_ctr_period_slow()              *)

(* now_ms of a thread that is late by lag.                                 *)
OwnNow(lag) == IF Sub(Now, lag) = 0 THEN 1 ELSE Sub(Now, lag)

(* The thread's own date may be behind the global one; it is good enough   *)
(* to see that the period is not over.                                     *)
Update(t) ==
    /\ pc[t] = "idle" /\ added < MaxEvents
    /\ \E lag \in 0 .. MaxLag :
       Goto(t, IF Sub(OwnNow(lag), tick) < Period THEN "add" ELSE "slow")
    /\ UNCHANGED <<clock, ctr, local, read, history, witness>>

Add(t) ==
    /\ pc[t] = "add"
    /\ curr' = curr + 1
    /\ added' = added + 1
    /\ oldest' = [oldest EXCEPT !.curr = IF @ = None THEN clock ELSE @]
    /\ Goto(t, "idle")
    /\ UNCHANGED <<clock, tick, prev, local, read, dropped, turned>>
    /\ Witness

LoadTick(t) ==
    /\ pc[t] = "slow"
    /\ local' = [local EXCEPT ![t].tick = tick]
    /\ Goto(t, "loadnow")
    /\ UNCHANGED <<clock, ctr, read, history, witness>>

\* MUTANT: the lock bit is not looked at.
LoadNow_IgnoresLock(t) ==
    /\ pc[t] = "loadnow"
    /\ \/ /\ Sub(Now, local[t].tick) < Period
          /\ local' = [local EXCEPT ![t] = NoLocals]
          /\ Goto(t, "add")
       \/ /\ Sub(Now, local[t].tick) >= Period
          /\ local' = [local EXCEPT ![t].now = Now]
          /\ Goto(t, "cas")
    /\ UNCHANGED <<clock, ctr, read, history, witness>>

(* Within the period the event is added even if a rotation is in progress; *)
(* past it, the thread tries to be the one that rotates.                   *)
LoadNow(t) ==
    /\ pc[t] = "loadnow"
    /\ \/ /\ Sub(Now, local[t].tick) < Period
          /\ local' = [local EXCEPT ![t] = NoLocals]
          /\ Goto(t, "add")
       \/ /\ Sub(Now, local[t].tick) >= Period
          /\ local' = [local EXCEPT ![t].now = Now]
          /\ Goto(t, IF Locked(local[t].tick) THEN "slow" ELSE "cas")
    /\ UNCHANGED <<clock, ctr, read, history, witness>>

Cas(t) ==
    /\ pc[t] = "cas"
    /\ \/ /\ tick = local[t].tick
          /\ tick' = tick + 1
          /\ Goto(t, "xchg")
          /\ UNCHANGED local
       \/ /\ tick # local[t].tick
          /\ local' = [local EXCEPT ![t] = NoLocals]
          /\ Goto(t, "slow")
          /\ UNCHANGED tick
    /\ UNCHANGED <<clock, curr, prev, read, history, witness>>

\* MUTANT: the new period starts at zero.
Xchg_FromZero(t) ==
    /\ pc[t] = "xchg"
    /\ local' = [local EXCEPT ![t].ctr = curr]
    /\ curr' = 0
    /\ added' = added + 1
    /\ oldest' = [curr |-> clock, prev |-> oldest.curr]
    /\ Goto(t, "store")
    /\ UNCHANGED <<clock, tick, prev, read, dropped, turned, witness>>

(* The event that made the thread rotate is the first of the new period.   *)
Xchg(t) ==
    /\ pc[t] = "xchg"
    /\ local' = [local EXCEPT ![t].ctr = curr]
    /\ curr' = 1
    /\ added' = added + 1
    /\ oldest' = [curr |-> clock, prev |-> oldest.curr]
    /\ Goto(t, "store")
    /\ UNCHANGED <<clock, tick, prev, read, dropped, turned, witness>>

(* Did the counter miss at least two periods?                              *)
Missed(t) == Sub(local[t].now, (local[t].tick + Period) % Wrap) >= Period

Store(t) ==
    /\ pc[t] = "store"
    /\ prev' = local[t].ctr
    /\ dropped' = dropped + prev
    /\ local' = [local EXCEPT ![t].ctr = 0]
    /\ Goto(t, IF Missed(t) THEN "zero" ELSE "unlock")
    /\ UNCHANGED <<clock, tick, curr, read, added, oldest, turned, witness>>

Zero(t) ==
    /\ pc[t] = "zero"
    /\ prev' = 0
    /\ dropped' = dropped + prev
    /\ oldest' = [oldest EXCEPT !.prev = None]
    /\ Goto(t, "unlock")
    /\ UNCHANGED <<clock, tick, curr, local, read, added, turned, witness>>

\* MUTANT: the new period always starts now.
Unlock_Now(t) ==
    /\ pc[t] = "unlock"
    /\ tick' = Even(local[t].now)
    /\ local' = [local EXCEPT ![t] = NoLocals]
    /\ Goto(t, "idle")
    /\ UNCHANGED <<clock, curr, prev, read, history>>
    /\ Witness

(* The new period starts where the last one ended, or now.                 *)
Unlock(t) ==
    /\ pc[t] = "unlock"
    /\ tick' = Even(IF Missed(t) THEN local[t].now
                                 ELSE (local[t].tick + Period) % Wrap)
    /\ local' = [local EXCEPT ![t] = NoLocals]
    /\ Goto(t, "idle")
    /\ UNCHANGED <<clock, curr, prev, read, history>>
    /\ Witness

-----------------------------------------------------------------------------
(* freq_ctr_total(), and freq_ctr_overshoot_period(), which does not read  *)
(* prev_ctr                                                                *)

ReaderStep(r, from, to) ==
    /\ pc[r] = from
    /\ Goto(r, to)
    /\ UNCHANGED <<clock, ctr, local, history>>

(* A new tick is loaded: the history of this reading starts here.          *)
Look(r) ==
    /\ seen' = [seen EXCEPT ![r] = IF Locked(tick) THEN {} ELSE {Snapshot}]
    /\ reused' = reused \ {r}

StartRead(r) ==
    /\ \E whole \in BOOLEAN : read' = [read EXCEPT ![r].tick = tick,
                                                   ![r].whole = whole,
                                                   ![r].total = 0,
                                                   ![r].since = clock]
    /\ Look(r)
    /\ ReaderStep(r, "idle", "curr")

(* redo0 *)
ReadTick(r) ==
    /\ read' = [read EXCEPT ![r].tick = tick]
    /\ ReaderStep(r, "tick", "curr") /\ Look(r)

(* redo1 *)
ReadCurr(r) ==
    /\ read' = [read EXCEPT ![r].curr = curr]
    /\ ReaderStep(r, "curr", IF read[r].whole THEN "past" ELSE "again")
    /\ UNCHANGED witness

(* redo2 *)
ReadPast(r) ==
    /\ read' = [read EXCEPT ![r].past = prev]
    /\ ReaderStep(r, "past", "again") /\ UNCHANGED witness

\* MUTANT: the tick is not loaded a second time.
TickAgain_Once(r) ==
    /\ \/ /\ Locked(read[r].tick)
          /\ ReaderStep(r, "again", "tick")
          /\ UNCHANGED <<read, witness>>
       \/ /\ ~Locked(read[r].tick)
          /\ read' = [read EXCEPT ![r].oldCurr = read[r].curr,
                                  ![r].oldPast = read[r].past]
          /\ ReaderStep(r, "again", "curragain")
          /\ UNCHANGED witness

(* The second time: the lowest bit first, then the tick, ...               *)
TickAgain(r) ==
    /\ \/ /\ Locked(read[r].tick)
          /\ ReaderStep(r, "again", "tick")
          /\ UNCHANGED <<read, witness>>
       \/ /\ ~Locked(read[r].tick)
          /\ read' = [read EXCEPT ![r].oldCurr = read[r].curr,
                                  ![r].oldPast = read[r].past, ![r].tick = tick]
          /\ ReaderStep(r, "again", IF Locked(tick) THEN "tick"
                                    ELSE IF tick # read[r].tick THEN "curr"
                                    ELSE "curragain")
          /\ IF tick # read[r].tick THEN Look(r) ELSE UNCHANGED witness

(* ... then the counters.                                                  *)
CurrAgain(r) ==
    /\ read' = [read EXCEPT ![r].curr = curr]
    /\ ReaderStep(r, "curragain",
                  IF curr # read[r].oldCurr
                  THEN IF read[r].whole THEN "past" ELSE "again"
                  ELSE IF read[r].whole THEN "pastagain" ELSE "got")
    /\ UNCHANGED witness

PastAgain(r) ==
    /\ read' = [read EXCEPT ![r].past = prev]
    /\ ReaderStep(r, "pastagain", IF prev # read[r].oldPast THEN "again" ELSE "result")
    /\ UNCHANGED witness

(* What is left of the current period.                                     *)
Remain(r) == Signed(Sub((read[r].tick + Period) % Wrap, Now))

\* MUTANT: a counter is never too far away.
Result_NeverTooFar(r) ==
    /\ LET late   == Remain(r) < 0
           remain == IF late THEN Remain(r) + Period ELSE Remain(r)
           past   == IF late THEN read[r].curr ELSE read[r].past
           now    == IF late THEN 0 ELSE read[r].curr
       IN read' = [read EXCEPT ![r].total =
                     IF now = 0 /\ past <= 1 THEN past * Period
                                             ELSE past * remain + now * Period]
    /\ ReaderStep(r, "result", "got") /\ UNCHANGED witness

(* freq_ctr_total() with pend = -1, that is with the correction for low    *)
(* rates. A negative total would be a huge unsigned number. (The value of  *)
(* freq_ctr_overshoot_period() is not modelled, only what it is made of.)  *)
Result(r) ==
    /\ LET late   == Remain(r) < 0
           remain == IF late THEN Remain(r) + Period ELSE Remain(r)
           past   == IF ~late THEN read[r].past
                     ELSE IF remain >= 0 THEN read[r].curr ELSE 0
           now    == IF late THEN 0 ELSE read[r].curr
       IN read' = [read EXCEPT ![r].total =
                     IF now = 0 /\ past <= 1 THEN past * Period
                                             ELSE past * remain + now * Period]
    /\ ReaderStep(r, "result", "got") /\ UNCHANGED witness

EndRead(r) ==
    /\ read' = [read EXCEPT ![r] = NoRead]
    /\ seen' = [seen EXCEPT ![r] = {}]
    /\ reused' = reused \ {r}
    /\ ReaderStep(r, "got", "idle")

-----------------------------------------------------------------------------

Next ==
    \/ Tick
    \/ \E t \in Updaters :
         \/ Update(t) \/ Add(t) \/ LoadTick(t) \/ LoadNow(t) \/ Cas(t)
         \/ Xchg(t) \/ Store(t) \/ Zero(t) \/ Unlock(t)
    \/ \E r \in Readers :
         \/ StartRead(r) \/ ReadTick(r) \/ ReadCurr(r) \/ ReadPast(r)
         \/ TickAgain(r) \/ CurrAgain(r) \/ PastAgain(r) \/ Result(r) \/ EndRead(r)

Spec == Init /\ [][Next]_vars
-----------------------------------------------------------------------------
(* Properties                                                              *)

Rotating == {"xchg", "store", "zero", "unlock"}

TypeOK ==
    /\ clock \in Nat
    /\ tick \in Nat /\ tick <= Wrap /\ curr \in Nat /\ prev \in Nat
    /\ added \in Nat /\ dropped \in Nat
    /\ local \in [Updaters -> [tick : 0 .. Wrap, now : 0 .. Wrap - 1, ctr : Nat]]
    /\ \A t \in Updaters :
         pc[t] \in {"idle", "add", "slow", "loadnow", "cas"} \cup Rotating

(* At most one thread rotates, and the lowest bit of curr_tick is set      *)
(* exactly while it does (freq_ctr.c: "We're the only one performing the   *)
(* rotate (locked above)").                                                *)
OneRotator ==
    /\ \A t, u \in Updaters : pc[t] \in Rotating /\ pc[u] \in Rotating => t = u
    /\ Locked(tick) <=> \E t \in Updaters : pc[t] \in Rotating

(* No event is lost or counted twice however updates and rotations         *)
(* interleave: it is in curr_ctr, in prev_ctr, on its way from one to the  *)
(* other, or has left with its period (freq_ctr.c: "without losing any     *)
(* potential concurrent update").                                          *)
Conservation ==
    /\ \A t \in Updaters :
         pc[t] = "store" => added = curr + local[t].ctr + prev + dropped
    /\ (\A t \in Updaters : pc[t] # "store") => added = curr + prev + dropped

(* Between rotations curr_ctr holds no event older than curr_tick and      *)
(* prev_ctr none older than one period before it, whichever thread rotated *)
(* and however late its clock was; unless a date in use was left for a     *)
(* full turn of the ticks, about which no difference can tell.             *)
Window ==
    ~Locked(tick) /\ ~turned =>
        /\ oldest.curr # None => clock - oldest.curr <= Sub(Now, tick)
        /\ oldest.prev # None => clock - oldest.prev <= Sub(Now, tick) + Period

(* e is what r has read.                                                   *)
Matches(r, e) ==
    /\ e.tick = read[r].tick /\ e.curr = read[r].curr
    /\ read[r].whole => e.past = read[r].past

(* A reading that was accepted is what the counter was at one moment of    *)
(* the reading, not a mixture of two periods (freq_ctr.c: "all values      *)
(* match between two loads, they're stable"); unless a period has begun    *)
(* meanwhile at the very tick that it began with.                          *)
SnapshotReal ==
    \A r \in Readers : pc[r] \in {"result", "got"} /\ r \notin reused =>
        \E e \in seen[r] : Matches(r, e)

(* The period that r has read began so long ago that tick + period - now   *)
(* is positive again as an int.                                            *)
Neglected(r) == 2 * (Sub(Now, read[r].tick) - Period) > Wrap

(* The dates of the events of e that count, so long after e.tick.          *)
Counting(e, age) ==
    {e.oldest.curr} \cup (IF age <= Period THEN {e.oldest.prev} ELSE {})

(* The total that freq_ctr_total() computes from a reading is between      *)
(* nothing and everything that was read, and if it is not nothing, then it *)
(* is made of events of the last two periods ("the total number of events  *)
(* over the current + last period"), however long the reading took and     *)
(* whatever was rotated meanwhile; except for the counter that nobody has  *)
(* rotated for half a turn of the ticks, of which the code makes a huge    *)
(* number.                                                                 *)
TotalSane ==
    [][\A r \in Readers : pc[r] = "result" /\ pc'[r] = "got" /\ ~Neglected(r) =>
         /\ read'[r].total \in 0 .. Period * (read[r].curr + read[r].past)
         /\ read'[r].total # 0 /\ r \notin reused /\ ~turned =>
              \E e \in seen[r] :
                 /\ Matches(r, e)
                 /\ \A d \in Counting(e, Sub(Now, read[r].tick)) \ {None} :
                       clock - d <= 2 * Period]_vars

=============================================================================
