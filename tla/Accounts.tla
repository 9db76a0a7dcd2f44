------------------------------ MODULE Accounts ------------------------------
(***************************************************************************)
(* server.Account of ProgLab8: registration and login, called by every     *)
(* session thread before its first command. All threads share one JDBC     *)
(* Statement, and a Statement has one open ResultSet: executing anything   *)
(* on it closes the ResultSet another thread is still reading. Only the    *)
(* INSERT of addUser is under Account.lock; the SELECT that decides about  *)
(* it is not. The table userdata has no unique constraint.                 *)
(*                                                                         *)
(* The name is pasted into the text of the statements. One that holds a    *)
(* quote makes another text of it than the code means: the database may    *)
(* refuse it, select any rows or change the table in any way.              *)
(***************************************************************************)
EXTENDS Integers, Sequences, FiniteSets, Functions

CONSTANTS Sessions,     \* connections, one thread each
          Names,        \* account names clients try
          Quoting,      \* the names that hold a quote
          Passwords,    \* passwords they try
          Hash,         \* hash256
          NoSession,    \* a lock nobody holds, a ResultSet nobody reads
          Ended,        \* the lock of a thread that is gone
          MaxRows,      \* bound on the rows of userdata
          MaxFaults,    \* bound on failing INSERTs
          MaxAltered    \* bound on other changes of the table

ASSUME AccountsAssumption ==
    /\ NoSession \notin Sessions /\ Ended \notin Sessions \union {NoSession}
    /\ Names # {} /\ Quoting \subseteq Names /\ Passwords # {}
    /\ MaxRows \in Nat /\ MaxFaults \in Nat /\ MaxAltered \in Nat

\* SHA-256, hexadecimal: different passwords have different images.
ASSUME HashAssumption ==
    /\ DOMAIN Hash = Passwords
    /\ \A p, q \in Passwords : Hash[p] = Hash[q] => p = q

VARIABLES userdata,     \* the rows of userdata, in the order of insertion
          reading,      \* whose ResultSet the shared Statement has open
          result,       \* the rows each thread's query selected
          lock, holds,  \* Account.lock: its holder and the hold count
          pc,           \* where each thread stands
          asked,        \* the name and password a thread works on
          answer,       \* what the client was told last
          faults,       \* history: INSERTs that failed
          altered       \* history: statements that changed the table in
                        \* another way than by the row of a registration

vars == <<userdata, reading, result, lock, holds, pc, asked, answer, faults,
          altered>>

Credentials == [name : Names, password : Passwords]
NoCredentials == CHOOSE c \in Credentials : TRUE
Row(c) == [owner |-> c.name, password |-> Hash[c.password]]

UserRows == [owner : Names, password : Range(Hash)]

\* What the table may be after a statement that does not mean what it should.
Tables == UNION {[1 .. n -> UserRows] : n \in 0 .. MaxRows}

Replaced(name) ==
    /\ name \in Quoting /\ altered < MaxAltered
    /\ altered' = altered + 1
    /\ userdata' \in Tables

Kept(name) == UNCHANGED <<userdata, altered>> \/ Replaced(name)

\* SELECT ... FROM userdata WHERE owner='<name>': what it may select. (Of
\* several rows only the first is looked at.)
Select(name) ==
    IF name \in Quoting THEN {{}} \cup {{r} : r \in UserRows}
    ELSE {{r \in Range(userdata) : r.owner = name}}

\* INSERT INTO userdata VALUES('<name>', '<hash>')
Insert(c) ==
    \/ /\ \E r \in IF c.name \in Quoting THEN UserRows ELSE {Row(c)} :
             userdata' = Append(userdata, r)
       /\ UNCHANGED altered
    \/ Replaced(c.name)

\* statement.executeQuery: the ResultSet of whoever had one is closed. A text
\* that is no statement throws, and the client is told FALSE.
ExecuteQuery(s, c, step) ==
    /\ Kept(c.name)
    /\ \/ /\ reading' = s
          /\ \E rows \in Select(c.name) : result' = [result EXCEPT ![s] = rows]
          /\ asked' = [asked EXCEPT ![s] = c]
          /\ pc' = [pc EXCEPT ![s] = step]
          /\ UNCHANGED answer
       \/ /\ c.name \in Quoting
          /\ reading' = NoSession
          /\ answer' = [answer EXCEPT ![s] = FALSE]
          /\ UNCHANGED <<result, pc, asked>>

\* The thread tells its client and goes on: to the command loop, or back to
\* waiting for credentials.
Reply(s, ok) ==
    /\ pc' = [pc EXCEPT ![s] = IF ok THEN "in" ELSE "idle"]
    /\ answer' = [answer EXCEPT ![s] = ok]
    /\ result' = [result EXCEPT ![s] = {}]
    /\ reading' = IF reading = s THEN NoSession ELSE reading
    /\ asked' = IF ok THEN asked ELSE [asked EXCEPT ![s] = NoCredentials]

Request(s, step) ==
    /\ pc[s] = "idle"
    /\ \E c \in Credentials : ExecuteQuery(s, c, step)
    /\ UNCHANGED <<lock, holds, faults>>

\* logIn up to its query.
LogInQuery(s) == Request(s, "compare")

\* newUser up to its query. Bound: room for the row of every registration.
NewUserQuery(s) ==
    /\ Len(userdata) + Cardinality({x \in Sessions :
                          pc[x] \in {"check", "lock", "insert"}}) < MaxRows
    /\ Request(s, "check")

\* MUTANT: the thread reads whatever ResultSet the Statement has open.
LogInCompare_AnyResult(s) ==
    /\ pc[s] = "compare"
    /\ IF reading # NoSession /\ result[reading] # {}
       THEN \E r \in result[reading] :
               Reply(s, r.password = Hash[asked[s].password])
       ELSE Reply(s, FALSE)
    /\ UNCHANGED <<userdata, lock, holds, faults, altered>>

\* logIn reads the first row: TRUE when its hash is the right one. A closed
\* ResultSet and an empty one both throw, and both are answered FALSE.
LogInCompare(s) ==
    /\ pc[s] = "compare"
    /\ IF reading = s /\ result[s] # {}
       THEN \E r \in result[s] :
               Reply(s, r.password = Hash[asked[s].password])
       ELSE Reply(s, FALSE)
    /\ UNCHANGED <<userdata, lock, holds, faults, altered>>

\* newUser: no row means the name is free. A closed ResultSet throws.
NewUserCheck(s) ==
    /\ pc[s] = "check"
    /\ IF reading = s /\ result[s] = {}
       THEN /\ pc' = [pc EXCEPT ![s] = "lock"]
            /\ UNCHANGED <<reading, result, asked, answer>>
       ELSE Reply(s, FALSE)
    /\ UNCHANGED <<userdata, lock, holds, faults, altered>>

\* MUTANT: tryLock() whose result nobody looks at.
AddUserLock_NoWait(s) ==
    /\ pc[s] = "lock"
    /\ lock' = s
    /\ holds' = holds + 1
    /\ pc' = [pc EXCEPT ![s] = "insert"]
    /\ UNCHANGED <<userdata, reading, result, asked, answer, faults, altered>>

\* addUser: lock.lock(), reentrant.
AddUserLock(s) ==
    /\ pc[s] = "lock"
    /\ lock \in {NoSession, s}
    /\ lock' = s
    /\ holds' = holds + 1
    /\ pc' = [pc EXCEPT ![s] = "insert"]
    /\ UNCHANGED <<userdata, reading, result, asked, answer, faults, altered>>

\* A registration that succeeds, with its lock released n times.
Registered(s, n) ==
    /\ Insert(asked[s])
    /\ holds' = holds - n
    /\ lock' = IF holds = n THEN NoSession ELSE lock
    /\ pc' = [pc EXCEPT ![s] = "in"]
    /\ answer' = [answer EXCEPT ![s] = TRUE]
    /\ reading' = NoSession
    /\ result' = [result EXCEPT ![s] = {}]
    /\ UNCHANGED <<asked, faults>>

\* MUTANT: unlock at the end and in a finally block as well.
AddUserInsert_UnlocksTwice(s) == pc[s] = "insert" /\ Registered(s, 2)

\* MUTANT: the INSERT waits until nobody reads from the shared Statement.
AddUserInsert_WaitsForStatement(s) ==
    pc[s] = "insert" /\ reading = NoSession /\ Registered(s, 1)

\* addUser: the INSERT runs on the shared Statement too, then unlock. When it
\* throws, newUser answers FALSE and the lock is not released.
AddUserInsert(s) ==
    /\ pc[s] = "insert"
    /\ \/ /\ Insert(asked[s])
          /\ holds' = holds - 1
          /\ lock' = IF holds = 1 THEN NoSession ELSE lock
          /\ pc' = [pc EXCEPT ![s] = "in"]
          /\ answer' = [answer EXCEPT ![s] = TRUE]
          /\ UNCHANGED <<asked, faults>>
       \/ /\ faults < MaxFaults
          /\ faults' = faults + 1
          /\ pc' = [pc EXCEPT ![s] = "idle"]
          /\ answer' = [answer EXCEPT ![s] = FALSE]
          /\ asked' = [asked EXCEPT ![s] = NoCredentials]
          /\ Kept(asked[s].name)
          /\ UNCHANGED <<holds, lock>>
    /\ reading' = NoSession
    /\ result' = [result EXCEPT ![s] = {}]

\* The client leaves; the next one on this slot has a thread of its own.
Leave(s) ==
    /\ pc[s] \in {"idle", "in"}
    /\ pc' = [pc EXCEPT ![s] = "idle"]
    /\ answer' = [answer EXCEPT ![s] = FALSE]
    /\ asked' = [asked EXCEPT ![s] = NoCredentials]
    /\ lock' = IF lock = s THEN Ended ELSE lock
    /\ UNCHANGED <<userdata, reading, result, holds, faults, altered>>

Init ==
    /\ userdata = <<>>
    /\ reading = NoSession
    /\ result = [s \in Sessions |-> {}]
    /\ lock = NoSession /\ holds = 0
    /\ pc = [s \in Sessions |-> "idle"]
    /\ asked = [s \in Sessions |-> NoCredentials]
    /\ answer = [s \in Sessions |-> FALSE]
    /\ faults = 0 /\ altered = 0

Work(s) ==
    \/ LogInCompare(s) \/ NewUserCheck(s) \/ AddUserLock(s) \/ AddUserInsert(s)

Next == \E s \in Sessions :
    LogInQuery(s) \/ NewUserQuery(s) \/ Work(s) \/ Leave(s)

Spec == Init /\ [][Next]_vars

\* Runnable threads run.
FairSpec == Spec /\ \A s \in Sessions : WF_vars(Work(s))

-----------------------------------------------------------------------------
(* Properties *)

TypeOK ==
    /\ userdata \in Seq(UserRows)
    /\ reading \in Sessions \union {NoSession}
    /\ result \in [Sessions -> SUBSET UserRows]
    /\ lock \in Sessions \union {NoSession, Ended}
    /\ holds \in Nat
    /\ pc \in [Sessions -> {"idle", "compare", "check", "lock", "insert", "in"}]
    /\ asked \in [Sessions -> Credentials]
    /\ answer \in [Sessions -> BOOLEAN]
    /\ faults \in Nat /\ altered \in Nat

\* A session reaches the command loop under a name without a quote only if
\* this name and its password are together in userdata, although the ResultSet
\* it decided by may have been closed, another thread's query may have brought
\* any rows, and the table may have grown while it looked; as long as no
\* statement has changed the table in another way than by an INSERT. (Of a
\* name with a quote nothing can be said: its query selects what it says.)
AdmittedIsRegistered ==
    altered = 0 =>
        \A s \in Sessions : pc[s] = "in" /\ asked[s].name \notin Quoting =>
            Row(asked[s]) \in Range(userdata)

\* Account.lock: a thread inserts only as the holder, so INSERTs never
\* overlap; a lock somebody holds without inserting was lost to an exception.
LockLost == lock # NoSession /\ (lock = Ended \/ pc[lock] # "insert")
InsertsLocked ==
    /\ \A s \in Sessions : pc[s] = "insert" => lock = s
    /\ holds = 0 <=> lock = NoSession
    /\ LockLost => faults > 0

\* A registration that found its name free completes, unless an INSERT failed
\* and took the lock with it.
RegistrationCompletes ==
    \A s \in Sessions : pc[s] = "lock" ~> (pc[s] # "lock" \/ LockLost)

=============================================================================
