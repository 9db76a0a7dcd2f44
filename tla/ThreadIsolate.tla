--------------------------- MODULE ThreadIsolate ---------------------------
(***************************************************************************)
(* The rendez-vous of the threads of HAProxy (src/soa/lab3/haproxy/source: *)
(* src/thread.c, include/haproxy/thread.h): a thread that calls            *)
(* thread_isolate() goes on alone, while all others are harmless, and one  *)
(* that calls thread_isolate_full() while all others are idle as well. It  *)
(* is how the process changes what no lock protects (adding and deleting   *)
(* servers, applying resolved addresses, walking the list of streams).     *)
(*                                                                         *)
(* Every atomic access is a step of its own; memory is sequentially        *)
(* consistent. The masks threads_enabled, threads_harmless and             *)
(* threads_idle of all groups are one set each, of which a step reads the  *)
(* part of one group.                                                      *)
(***************************************************************************)
EXTENDS Naturals, FiniteSets

CONSTANTS
    Threads,      \* the threads of the process
    None,         \* ~0U, not the number of a thread
    NbTgroups,    \* global.nbtgroups
    GroupOf,      \* the group of each thread
    FullCallers,  \* the threads that may call thread_isolate_full()
    MaxRequests   \* bound: calls of the two functions

ASSUME ConstantsOK ==
    /\ IsFiniteSet(Threads) /\ None \notin Threads
    /\ NbTgroups \in Nat \ {0}
    /\ GroupOf \in [Threads -> 1 .. NbTgroups]
    /\ FullCallers \subseteq Threads
    /\ MaxRequests \in Nat

VARIABLES
    enabled,   \* threads_enabled
    harmless,  \* threads_harmless
    idle,      \* threads_idle
    rdv,       \* rdv_requests
    isolated,  \* isolated_thread
    pc,        \* where each thread is
    full,      \* the thread is in thread_isolate_full()
    tgrp,      \* the group it looks at
    te, th,    \* the masks it has loaded
    requests   \* how often a thread asked to be isolated

masks  == <<enabled, harmless, idle>>
locals == <<full, tgrp, te, th>>
vars   == <<enabled, harmless, idle, rdv, isolated, pc, full, tgrp, te, th, requests>>

InGroup(S, g) == {u \in S : GroupOf[u] = g}

Goto(t, step) == pc' = [pc EXCEPT ![t] = step]

(* Threads that were not started yet count as harmless and idle.           *)
Init ==
    /\ enabled = Threads /\ harmless = Threads /\ idle = Threads
    /\ rdv = 0 /\ isolated = None
    /\ pc = [t \in Threads |-> "poll"]
    /\ full = [t \in Threads |-> FALSE]
    /\ tgrp = [t \in Threads |-> 0]
    /\ te = [t \in Threads |-> {}] /\ th = [t \in Threads |-> {}]
    /\ requests = 0

-----------------------------------------------------------------------------
(* fd_leaving_poll(), and the start of run_thread_poll_loop()              *)

(* thread_harmless_end(): stop being harmless, ...                         *)
HarmlessEnd(t) ==
    /\ pc[t] \in {"poll", "clear"}
    /\ harmless' = harmless \ {t}
    /\ Goto(t, "check")
    /\ UNCHANGED <<enabled, idle, rdv, isolated, locals, requests>>

\* MUTANT: the thread runs on whoever asks for isolation.
CheckRequests_Ignored(t) ==
    /\ pc[t] = "check"
    /\ Goto(t, "idleend")
    /\ UNCHANGED <<masks, rdv, isolated, locals, requests>>

(* ... but only for good when nobody relies on it.                         *)
CheckRequests(t) ==
    /\ pc[t] = "check"
    /\ Goto(t, IF rdv = 0 THEN "idleend" ELSE "till")
    /\ UNCHANGED <<masks, rdv, isolated, locals, requests>>

(* thread_harmless_till_end()                                              *)
HarmlessAgain(t) ==
    /\ pc[t] = "till"
    /\ harmless' = harmless \cup {t}
    /\ Goto(t, "spin")
    /\ UNCHANGED <<enabled, idle, rdv, isolated, locals, requests>>

LeaveTillEnd(t) ==
    /\ pc[t] = "spin" /\ rdv = 0
    /\ Goto(t, "clear")
    /\ UNCHANGED <<masks, rdv, isolated, locals, requests>>

(* thread_idle_end()                                                       *)
IdleEnd(t) ==
    /\ pc[t] = "idleend"
    /\ idle' = idle \ {t}
    /\ Goto(t, "run")
    /\ UNCHANGED <<enabled, harmless, rdv, isolated, locals, requests>>

-----------------------------------------------------------------------------
(* What a running thread does                                              *)

(* The poller: thread_idle_now(), thread_harmless_now().                   *)
IdleNow(t) ==
    /\ pc[t] = "run"
    /\ idle' = idle \cup {t}
    /\ Goto(t, "polling")
    /\ UNCHANGED <<enabled, harmless, rdv, isolated, locals, requests>>

HarmlessNow(t) ==
    /\ pc[t] = "polling"
    /\ harmless' = harmless \cup {t}
    /\ Goto(t, "poll")
    /\ UNCHANGED <<enabled, idle, rdv, isolated, locals, requests>>

(* The thread leaves run_poll_loop() for good.                             *)
Exit(t) ==
    /\ pc[t] = "run"
    /\ enabled' = enabled \ {t}
    /\ Goto(t, "exited")
    /\ UNCHANGED <<harmless, idle, rdv, isolated, locals, requests>>

-----------------------------------------------------------------------------
(* thread_isolate() and thread_isolate_full()                              *)

Isolate(t) ==
    /\ pc[t] = "run" /\ requests < MaxRequests
    /\ requests' = requests + 1
    /\ harmless' = harmless \cup {t}
    /\ Goto(t, "request")
    /\ UNCHANGED <<enabled, idle, rdv, isolated, locals>>

IsolateFull(t) ==
    /\ pc[t] = "run" /\ requests < MaxRequests /\ t \in FullCallers
    /\ requests' = requests + 1
    /\ full' = [full EXCEPT ![t] = TRUE]
    /\ idle' = idle \cup {t}
    /\ Goto(t, "harmless")
    /\ UNCHANGED <<enabled, harmless, rdv, isolated, tgrp, te, th>>

FullHarmless(t) ==
    /\ pc[t] = "harmless"
    /\ harmless' = harmless \cup {t}
    /\ Goto(t, "request")
    /\ UNCHANGED <<enabled, idle, rdv, isolated, locals, requests>>

(* The scan of all groups starts again at the first.                       *)
Rescan(t) ==
    /\ tgrp' = [tgrp EXCEPT ![t] = 1]
    /\ Goto(t, "scan")

Request(t) ==
    /\ pc[t] = "request"
    /\ rdv' = rdv + 1
    /\ Rescan(t)
    /\ UNCHANGED <<masks, isolated, full, te, th, requests>>

LoadEnabled(t) ==
    /\ pc[t] = "scan"
    /\ te' = [te EXCEPT ![t] = InGroup(enabled, tgrp[t])]
    /\ Goto(t, "loadharmless")
    /\ UNCHANGED <<masks, rdv, isolated, full, tgrp, th, requests>>

(* Did the threads of the group all have their bits set? Then the next     *)
(* group; else this one again.                                             *)
Compare(t, ok) ==
    /\ te' = [te EXCEPT ![t] = {}]
    /\ th' = [th EXCEPT ![t] = {}]
    /\ tgrp' = [tgrp EXCEPT ![t] = IF ok THEN @ + 1 ELSE @]
    /\ Goto(t, IF ok /\ tgrp[t] = NbTgroups THEN "look" ELSE "scan")

LoadHarmless(t) ==
    /\ pc[t] = "loadharmless"
    /\ IF full[t]
       THEN /\ th' = [th EXCEPT ![t] = InGroup(harmless, tgrp[t])]
            /\ Goto(t, "loadidle")
            /\ UNCHANGED <<tgrp, te>>
       ELSE Compare(t, te[t] \subseteq harmless)
    /\ UNCHANGED <<masks, rdv, isolated, full, requests>>

\* MUTANT: harmless is taken for idle.
LoadIdle_HarmlessOnly(t) ==
    /\ pc[t] = "loadidle"
    /\ Compare(t, te[t] \subseteq th[t])
    /\ UNCHANGED <<masks, rdv, isolated, full, requests>>

LoadIdle(t) ==
    /\ pc[t] = "loadidle"
    /\ Compare(t, te[t] \subseteq th[t] \cap idle)
    /\ UNCHANGED <<masks, rdv, isolated, full, requests>>

(* The thread leaves the loop on the second time around only, when it has  *)
(* taken isolated_thread and then seen everybody harmless once more.       *)
LookIsolated(t) ==
    /\ pc[t] = "look"
    /\ \/ /\ isolated = t
          /\ Goto(t, IF full[t] THEN "wonfull" ELSE "won")
          /\ UNCHANGED tgrp
       \/ /\ isolated = None
          /\ Goto(t, "cas")
          /\ UNCHANGED tgrp
       \/ isolated \notin {t, None} /\ Rescan(t)
    /\ UNCHANGED <<masks, rdv, isolated, full, te, th, requests>>

CasIsolated(t) ==
    /\ pc[t] = "cas"
    /\ isolated' = IF isolated = None THEN t ELSE isolated
    /\ Rescan(t)
    /\ UNCHANGED <<masks, rdv, full, te, th, requests>>

DropIdle(t) ==
    /\ pc[t] = "wonfull"
    /\ idle' = idle \ {t}
    /\ Goto(t, "won")
    /\ UNCHANGED <<enabled, harmless, rdv, isolated, locals, requests>>

DropHarmless(t) ==
    /\ pc[t] = "won"
    /\ harmless' = harmless \ {t}
    /\ tgrp' = [tgrp EXCEPT ![t] = 0]
    /\ Goto(t, "isolated")
    /\ UNCHANGED <<enabled, idle, rdv, isolated, full, te, th, requests>>

\* MUTANT: isolated_thread is not reset.
Release_KeepsIsolated(t) ==
    /\ pc[t] = "isolated"
    /\ full' = [full EXCEPT ![t] = FALSE]
    /\ Goto(t, "release")
    /\ UNCHANGED <<masks, rdv, isolated, tgrp, te, th, requests>>

(* thread_release()                                                        *)
Release(t) ==
    /\ pc[t] = "isolated"
    /\ isolated' = None
    /\ full' = [full EXCEPT ![t] = FALSE]
    /\ Goto(t, "release")
    /\ UNCHANGED <<masks, rdv, tgrp, te, th, requests>>

\* MUTANT: rdv_requests is not decremented.
EndRequest_KeepsCount(t) ==
    /\ pc[t] = "release"
    /\ Goto(t, "run")
    /\ UNCHANGED <<masks, rdv, isolated, locals, requests>>

EndRequest(t) ==
    /\ pc[t] = "release"
    /\ rdv' = rdv - 1
    /\ Goto(t, "run")
    /\ UNCHANGED <<masks, isolated, locals, requests>>

-----------------------------------------------------------------------------

(* Steps of a thread that it does not choose to take.                      *)
Waiting(t) ==
    \/ CheckRequests(t) \/ HarmlessAgain(t) \/ LeaveTillEnd(t) \/ IdleEnd(t)
    \/ HarmlessNow(t) \/ FullHarmless(t) \/ Request(t) \/ LoadEnabled(t)
    \/ LoadHarmless(t) \/ LoadIdle(t) \/ LookIsolated(t) \/ CasIsolated(t)
    \/ DropIdle(t) \/ DropHarmless(t) \/ Release(t) \/ EndRequest(t)

Step(t) ==
    \/ HarmlessEnd(t) \/ IdleNow(t) \/ Exit(t) \/ Isolate(t) \/ IsolateFull(t)
    \/ Waiting(t)

Next == \E t \in Threads : Step(t)

Spec == Init /\ [][Next]_vars

(* Every thread keeps running: the pollers return on a timeout or an       *)
(* event, and no task holds a thread for ever.                             *)
FairSpec == Spec /\ \A t \in Threads : WF_vars(Step(t))

-----------------------------------------------------------------------------
(* Properties                                                              *)

(* Between thread_harmless_end() and the next time the thread declares     *)
(* itself harmless.                                                        *)
Running == {"idleend", "run", "polling", "harmless", "isolated", "release"}

(* In the loop of thread_isolate().                                        *)
Looping == {"scan", "loadharmless", "loadidle", "look", "cas"}

(* Counted in rdv_requests.                                                *)
Requesting == Looping \cup {"wonfull", "won", "isolated", "release"}

(* Not harmless, though not running either.                                *)
Hesitating == {"check", "till"}

Steps == Running \cup Requesting \cup Hesitating
           \cup {"poll", "clear", "spin", "request", "exited"}

TypeOK ==
    /\ enabled \subseteq Threads /\ harmless \subseteq Threads /\ idle \subseteq Threads
    /\ rdv \in Nat /\ requests \in Nat
    /\ isolated \in Threads \cup {None}
    /\ pc \in [Threads -> Steps]
    /\ full \in [Threads -> BOOLEAN]
    /\ tgrp \in [Threads -> 0 .. NbTgroups + 1]
    /\ te \in [Threads -> SUBSET Threads] /\ th \in [Threads -> SUBSET Threads]

(* A thread that thread_isolate() or thread_isolate_full() has returned to *)
(* is alone: no other thread is past thread_harmless_end(), in whatever    *)
(* order threads leave the poller, exit, ask for the same and lose the     *)
(* race for isolated_thread.                                               *)
Isolation ==
    \A t, u \in Threads : pc[t] = "isolated" /\ u # t => pc[u] \notin Running

(* Leaving the poller, or in thread_isolate_full() itself.                 *)
OutOfTasks(u) ==
    \/ pc[u] \in {"poll", "clear", "check", "till", "spin", "exited"}
    \/ full[u] /\ pc[u] \in Looping \cup {"request", "wonfull"}

(* And after thread_isolate_full() no other thread is in the middle of a   *)
(* task, not even waiting in a thread_isolate() of its own, so nobody      *)
(* holds a reference to what is about to be destroyed (server.c,           *)
(* cli_parse_delete_server()).                                             *)
FullIsolation ==
    \A t, u \in Threads :
        pc[t] = "isolated" /\ full[t] /\ u # t => OutOfTasks(u)

(* rdv_requests is the number of threads that ask for or have isolation:   *)
(* it never drops to zero under one of them.                               *)
RequestsCounted == rdv = Cardinality({t \in Threads : pc[t] \in Requesting})

(* When the calls of the two functions end, each of them has returned.     *)
(* (Under a steady stream of calls one thread may lose every race.)        *)
Served == \A t \in Threads : pc[t] = "request" ~> pc[t] = "isolated"

(* And threads stopped on their way out of the poller do get out.          *)
PollerLeft == \A t \in Threads : pc[t] = "check" ~> pc[t] = "run"

(* thread.c on thread_isolate_full(): a concurrent thread_isolate() will   *)
(* "get back to the poller or any other fully idle location, that will     *)
(* ultimately release this one".                                           *)
FullServed ==
    \A t \in Threads : pc[t] = "request" /\ full[t] ~> pc[t] = "isolated"

=============================================================================
