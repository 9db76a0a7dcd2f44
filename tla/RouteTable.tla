----------------------------- MODULE RouteTable -----------------------------
(***************************************************************************)
(* What the route server of ProgLab8 promises about its persistent state,  *)
(* the PostgreSQL table "routes": every change is one atomic operation     *)
(* made on behalf of one user, it touches rows of that user only, and the  *)
(* id of a row is drawn from the sequence "serial" and never used again.   *)
(* Nothing is said of threads, locks, the in-memory collection or faults:  *)
(* module RouteServer shows how the server gets there and implements this. *)
(***************************************************************************)
EXTENDS Integers

CONSTANTS Users,        \* names in userdata.owner
          Routes        \* contents of a route: all fields but id and owner

VARIABLES table,        \* the rows of "routes"
          serial        \* the last id drawn from the sequence

vars == <<table, serial>>

Rows == [id : Nat, val : Routes, owner : Users]

Init == table = {} /\ serial = 0

\* A user adds a route; the sequence gives it the next id.
Insert(u, v) ==
    /\ serial' = serial + 1
    /\ table' = table \union {[id |-> serial', val |-> v, owner |-> u]}

\* An insertion the database rejects may still have drawn an id.
Burn == serial' = serial + 1 /\ UNCHANGED table

\* A user replaces the content of a row of theirs.
Replace(u, r, v) ==
    /\ r.owner = u
    /\ table' = (table \ {r}) \union {[r EXCEPT !.val = v]}
    /\ UNCHANGED serial

\* A user removes some of their rows.
Remove(u, S) ==
    /\ \A r \in S : r.owner = u
    /\ table' = table \ S
    /\ UNCHANGED serial

Next ==
    \/ \E u \in Users, v \in Routes : Insert(u, v)
    \/ Burn
    \/ \E u \in Users, v \in Routes : \E r \in table : Replace(u, r, v)
    \/ \E u \in Users : \E S \in SUBSET table : Remove(u, S)

Spec == Init /\ [][Next]_vars

=============================================================================
