--------------------------- MODULE AccountsProofs ---------------------------
(***************************************************************************)
(* Theorems about Accounts, for any number of sessions, names and          *)
(* passwords. AdmittedIsRegistered is inductive only together with what a  *)
(* query's rows have to do with the table and with the name asked for.     *)
(***************************************************************************)
EXTENDS Accounts, TLAPS

\* The rows a thread is looking at are rows of the table, which only grows,
\* with the name the thread asked for; unless this has a quote.
ResultsFromTable ==
    altered = 0 =>
        \A s \in Sessions : asked[s].name \notin Quoting =>
            \A r \in result[s] : r \in Range(userdata) /\ r.owner = asked[s].name

\* A thread that is not deciding looks at nothing.
NothingOpen == \A s \in Sessions : pc[s] \in {"idle", "in"} => result[s] = {}

\* The lock is held more than once only by a thread that failed before.
ReentryAfterFault == holds > 1 => faults > 0

Inv ==
    /\ TypeOK
    /\ ResultsFromTable
    /\ NothingOpen
    /\ AdmittedIsRegistered
    /\ InsertsLocked
    /\ ReentryAfterFault

\* Appending a row keeps the others.
LEMMA RangeAppend ==
    ASSUME NEW S, NEW l \in Seq(S), NEW e \in S
    PROVE  /\ Append(l, e) \in Seq(S)
           /\ Range(Append(l, e)) = Range(l) \union {e}
<1>1. Append(l, e) \in Seq(S) /\ Len(Append(l, e)) = Len(l) + 1
  OBVIOUS
<1>2. \A i \in 1 .. Len(l) : Append(l, e)[i] = l[i]
  OBVIOUS
<1>3. Append(l, e)[Len(l) + 1] = e
  OBVIOUS
<1>4. DOMAIN l = 1 .. Len(l) /\ DOMAIN Append(l, e) = 1 .. (Len(l) + 1)
  BY <1>1
<1>5. Len(l) \in Nat
  OBVIOUS
<1> QED
  BY <1>1, <1>2, <1>3, <1>4, <1>5 DEF Range

\* The row of credentials is a row, and tells the credentials.
LEMMA RowType ==
    ASSUME NEW c \in Credentials
    PROVE  Row(c) \in UserRows
BY HashAssumption DEF Row, UserRows, Credentials, Range

LEMMA NoCredentialsType == NoCredentials \in Credentials
<1>1. PICK n \in Names, p \in Passwords : TRUE
  BY AccountsAssumption
<1>2. [name |-> n, password |-> p] \in Credentials
  BY DEF Credentials
<1> QED
  BY <1>2 DEF NoCredentials

LEMMA TablesType == Tables \subseteq Seq(UserRows)
<1> SUFFICES ASSUME NEW n \in 0 .. MaxRows, NEW t \in [1 .. n -> UserRows]
             PROVE  t \in Seq(UserRows)
  BY DEF Tables
<1>1. n \in Nat
  BY AccountsAssumption
<1> QED
  BY <1>1

\* A statement that should only read: the table stays, or has been altered.
LEMMA KeptTable ==
    ASSUME TypeOK, NEW name, Kept(name)
    PROVE  /\ userdata' \in Seq(UserRows) /\ altered' \in Nat
           /\ altered' = 0 => altered = 0 /\ userdata' = userdata
BY TablesType DEF TypeOK, Kept, Replaced

\* The INSERT: the table grows by a row, which is the right one for a name
\* without a quote, or has been altered.
LEMMA InsertTable ==
    ASSUME TypeOK, NEW c \in Credentials, Insert(c)
    PROVE  /\ userdata' \in Seq(UserRows) /\ altered' \in Nat
           /\ altered' = 0 =>
                 /\ altered = 0 /\ Range(userdata) \subseteq Range(userdata')
                 /\ c.name \notin Quoting => Row(c) \in Range(userdata')
<1>1. CASE Replaced(c.name)
  BY <1>1, TablesType DEF TypeOK, Replaced
<1>2. ASSUME NEW r \in UserRows, c.name \notin Quoting => r = Row(c),
             userdata' = Append(userdata, r), UNCHANGED altered
      PROVE  /\ userdata' \in Seq(UserRows) /\ altered' \in Nat
             /\ altered' = 0 =>
                   /\ altered = 0 /\ Range(userdata) \subseteq Range(userdata')
                   /\ c.name \notin Quoting => Row(c) \in Range(userdata')
  <2>1. userdata \in Seq(UserRows) /\ altered \in Nat
    BY DEF TypeOK
  <2>2. /\ userdata' \in Seq(UserRows)
        /\ Range(userdata') = Range(userdata) \union {r}
    BY <1>2, <2>1, RangeAppend
  <2> QED
    BY <1>2, <2>1, <2>2
<1> QED
  BY <1>1, <1>2, RowType DEF Insert

\* The initial state.
LEMMA InvInit == Init => Inv
<1> SUFFICES ASSUME Init PROVE Inv
  OBVIOUS
<1>1. userdata \in Seq(UserRows)
  BY DEF Init
<1> QED
  BY <1>1, NoCredentialsType, AccountsAssumption
  DEF Init, Inv, TypeOK, ResultsFromTable, NothingOpen, AdmittedIsRegistered,
      InsertsLocked, LockLost, ReentryAfterFault

\* Every step of every thread.
LEMMA InvStep == Inv /\ [Next]_vars => Inv'
<1> SUFFICES ASSUME Inv, [Next]_vars PROVE Inv'
  OBVIOUS
<1> USE AccountsAssumption DEF Inv
<1>1. ASSUME NEW s \in Sessions, NEW step \in {"compare", "check"},
             Request(s, step)
      PROVE  Inv'
  <2>1. PICK c \in Credentials : ExecuteQuery(s, c, step)
    BY <1>1 DEF Request
  <2>2. /\ userdata' \in Seq(UserRows) /\ altered' \in Nat
        /\ altered' = 0 => altered = 0 /\ userdata' = userdata
    BY <2>1, KeptTable DEF ExecuteQuery
  <2>3. pc[s] = "idle" /\ UNCHANGED <<lock, holds, faults>>
    BY <1>1 DEF Request
  <2>4. ASSUME NEW rows \in Select(c.name), reading' = s,
               result' = [result EXCEPT ![s] = rows],
               asked' = [asked EXCEPT ![s] = c],
               pc' = [pc EXCEPT ![s] = step], UNCHANGED answer
        PROVE  Inv'
    <3>1. Range(userdata) \subseteq UserRows
      BY DEF TypeOK, Range
    <3>2. rows \in SUBSET UserRows
      BY <2>4, <3>1 DEF Select
    <3>3. TypeOK'
      BY <2>2, <2>3, <2>4, <3>2 DEF TypeOK
    <3>4. ResultsFromTable'
      <4> SUFFICES ASSUME altered' = 0, NEW u \in Sessions,
                          asked'[u].name \notin Quoting, NEW r \in result'[u]
                   PROVE  r \in Range(userdata') /\ r.owner = asked'[u].name
        BY DEF ResultsFromTable
      <4>1. altered = 0 /\ userdata' = userdata
        BY <2>2
      <4>2. CASE u = s
        <5>1. asked'[u] = c /\ result'[u] = rows
          BY <2>4, <4>2 DEF TypeOK
        <5> QED
          BY <2>4, <4>1, <5>1 DEF Select
      <4>3. CASE u # s
        <5>1. asked'[u] = asked[u] /\ result'[u] = result[u]
          BY <2>4, <4>3 DEF TypeOK
        <5> QED
          BY <4>1, <5>1 DEF ResultsFromTable
      <4> QED
        BY <4>2, <4>3
    <3>5. AdmittedIsRegistered'
      BY <2>2, <2>4 DEF TypeOK, AdmittedIsRegistered
    <3>6. InsertsLocked' /\ ReentryAfterFault' /\ NothingOpen'
      BY <2>3, <2>4 DEF TypeOK, InsertsLocked, LockLost, ReentryAfterFault,
         NothingOpen
    <3> QED
      BY <3>3, <3>4, <3>5, <3>6
  <2>5. CASE /\ reading' = NoSession
             /\ answer' = [answer EXCEPT ![s] = FALSE]
             /\ UNCHANGED <<result, pc, asked>>
    <3>1. TypeOK'
      BY <2>2, <2>3, <2>5 DEF TypeOK
    <3>2. ResultsFromTable' /\ AdmittedIsRegistered'
      BY <2>2, <2>5 DEF ResultsFromTable, AdmittedIsRegistered
    <3>3. InsertsLocked' /\ ReentryAfterFault' /\ NothingOpen'
      BY <2>3, <2>5 DEF InsertsLocked, LockLost, ReentryAfterFault, NothingOpen
    <3> QED
      BY <3>1, <3>2, <3>3
  <2> QED
    BY <2>1, <2>4, <2>5 DEF ExecuteQuery
<1>2. ASSUME NEW s \in Sessions, NEW ok \in BOOLEAN, Reply(s, ok),
             UNCHANGED <<userdata, lock, holds, faults, altered>>,
             ok /\ altered = 0 /\ asked[s].name \notin Quoting =>
                Row(asked[s]) \in Range(userdata),
             pc[s] # "insert"
      PROVE  Inv'
  <2>1. TypeOK'
    BY <1>2, NoCredentialsType DEF TypeOK, Reply
  <2>2. ResultsFromTable'
    BY <1>2 DEF TypeOK, ResultsFromTable, Reply
  <2>3. AdmittedIsRegistered'
    BY <1>2 DEF TypeOK, AdmittedIsRegistered, Reply
  <2>4. InsertsLocked' /\ ReentryAfterFault' /\ NothingOpen'
    BY <1>2 DEF TypeOK, Reply, InsertsLocked, LockLost, ReentryAfterFault,
       NothingOpen
  <2> QED
    BY <2>1, <2>2, <2>3, <2>4
<1>3. ASSUME NEW s \in Sessions, LogInCompare(s) PROVE Inv'
  <2>1. ASSUME NEW r \in result[s], altered = 0, asked[s].name \notin Quoting,
               r.password = Hash[asked[s].password]
        PROVE  Row(asked[s]) \in Range(userdata)
    <3>1. r \in UserRows /\ r.owner = asked[s].name /\ r \in Range(userdata)
      BY <2>1 DEF TypeOK, ResultsFromTable
    <3>2. r = Row(asked[s])
      BY <2>1, <3>1 DEF UserRows, Row
    <3> QED
      BY <3>1, <3>2
  <2>2. CASE Reply(s, FALSE)
    BY <1>2, <1>3, <2>2 DEF LogInCompare
  <2>3. ASSUME NEW r \in result[s],
               Reply(s, r.password = Hash[asked[s].password])
        PROVE  Inv'
    <3> DEFINE ok == r.password = Hash[asked[s].password]
    <3>1. ok \in BOOLEAN
      OBVIOUS
    <3>2. ok /\ altered = 0 /\ asked[s].name \notin Quoting =>
             Row(asked[s]) \in Range(userdata)
      BY <2>1
    <3>3. UNCHANGED <<userdata, lock, holds, faults, altered>>
      BY <1>3 DEF LogInCompare
    <3>4. Reply(s, ok) /\ pc[s] # "insert"
      BY <1>3, <2>3 DEF LogInCompare
    <3> HIDE DEF ok
    <3> QED
      BY <1>2, <3>1, <3>2, <3>3, <3>4
  <2> QED
    BY <1>3, <2>2, <2>3 DEF LogInCompare
<1>4. ASSUME NEW s \in Sessions, NewUserCheck(s) PROVE Inv'
  <2>1. CASE Reply(s, FALSE)
    BY <1>2, <1>4, <2>1 DEF NewUserCheck
  <2>2. CASE ~ Reply(s, FALSE)
    BY <1>4, <2>2 DEF NewUserCheck, TypeOK, ResultsFromTable, NothingOpen,
       AdmittedIsRegistered, InsertsLocked, LockLost, ReentryAfterFault
  <2> QED
    BY <2>1, <2>2
<1>5. ASSUME NEW s \in Sessions, AddUserLock(s) PROVE Inv'
  BY <1>5 DEF AddUserLock, TypeOK, ResultsFromTable, NothingOpen,
     AdmittedIsRegistered, InsertsLocked, LockLost, ReentryAfterFault
<1>6. ASSUME NEW s \in Sessions, AddUserInsert(s) PROVE Inv'
  <2>1. asked[s] \in Credentials
    BY DEF TypeOK
  <2>2. holds \in Nat /\ holds # 0 /\ lock = s
    BY <1>6 DEF TypeOK, InsertsLocked, AddUserInsert
  <2>3. /\ userdata' \in Seq(UserRows) /\ altered' \in Nat
        /\ altered' = 0 => altered = 0 /\ Range(userdata) \subseteq Range(userdata')
    BY <1>6, <2>1, KeptTable, InsertTable DEF AddUserInsert
  <2>4. InsertsLocked' /\ ReentryAfterFault' /\ NothingOpen'
    BY <1>6, <2>2 DEF TypeOK, AddUserInsert, InsertsLocked, LockLost,
       ReentryAfterFault, NothingOpen
  <2>5. TypeOK'
    <3>1. holds' \in Nat /\ faults' \in Nat
      BY <1>6, <2>2 DEF TypeOK, AddUserInsert
    <3>2. lock' \in {lock, NoSession} /\ reading' = NoSession
      BY <1>6 DEF AddUserInsert
    <3>3. \E p \in {"idle", "in"}, b \in BOOLEAN :
             pc' = [pc EXCEPT ![s] = p] /\ answer' = [answer EXCEPT ![s] = b]
      BY <1>6 DEF AddUserInsert
    <3>4. /\ result' = [result EXCEPT ![s] = {}]
          /\ asked' = asked \/ asked' = [asked EXCEPT ![s] = NoCredentials]
      BY <1>6 DEF AddUserInsert
    <3> QED
      BY <2>3, <3>1, <3>2, <3>3, <3>4, NoCredentialsType DEF TypeOK
  <2>6. ResultsFromTable'
    BY <1>6, <2>3 DEF TypeOK, ResultsFromTable, AddUserInsert
  <2>7. pc'[s] = "in" /\ altered' = 0 /\ asked'[s].name \notin Quoting =>
           Row(asked'[s]) \in Range(userdata')
    <3>1. pc'[s] = "in" => Insert(asked[s]) /\ asked' = asked
      BY <1>6 DEF TypeOK, AddUserInsert
    <3> QED
      BY <2>1, <3>1, InsertTable
  <2>8. \A u \in Sessions \ {s} : pc'[u] = pc[u] /\ asked'[u] = asked[u]
    BY <1>6 DEF TypeOK, AddUserInsert
  <2>9. AdmittedIsRegistered'
    BY <2>3, <2>7, <2>8 DEF AdmittedIsRegistered
  <2> QED
    BY <2>4, <2>5, <2>6, <2>9
<1>7. ASSUME NEW s \in Sessions, Leave(s) PROVE Inv'
  <2>1. TypeOK'
    BY <1>7, NoCredentialsType DEF Leave, TypeOK
  <2>2. result[s] = {} /\ UNCHANGED <<userdata, result, altered>>
    BY <1>7 DEF Leave, NothingOpen
  <2>3. ResultsFromTable' /\ AdmittedIsRegistered'
    BY <1>7, <2>2 DEF Leave, TypeOK, ResultsFromTable, AdmittedIsRegistered
  <2>4. InsertsLocked' /\ ReentryAfterFault' /\ NothingOpen'
    BY <1>7, <2>2 DEF Leave, TypeOK, InsertsLocked, LockLost,
       ReentryAfterFault, NothingOpen
  <2> QED
    BY <2>1, <2>3, <2>4
<1>8. CASE UNCHANGED vars
  BY <1>8 DEF vars, TypeOK, ResultsFromTable, NothingOpen,
     AdmittedIsRegistered, InsertsLocked, LockLost, ReentryAfterFault
<1> QED
  BY <1>1, <1>3, <1>4, <1>5, <1>6, <1>7, <1>8
  DEF Next, Work, LogInQuery, NewUserQuery

\* Whatever the interleaving on the shared Statement, and whatever the queries
\* of names with a quote select, a session is admitted under another name only
\* with the password that userdata has for it; as long as INSERTs are all that
\* has changed the table.
THEOREM AdmissionSound == Spec => []AdmittedIsRegistered
<1>1. Inv => AdmittedIsRegistered
  BY DEF Inv
<1> QED
  BY <1>1, InvInit, InvStep, PTL DEF Spec

\* INSERTs never overlap, and the lock is lost only to a failed INSERT.
THEOREM InsertsSerialize == Spec => []InsertsLocked
<1>1. Inv => InsertsLocked
  BY DEF Inv
<1> QED
  BY <1>1, InvInit, InvStep, PTL DEF Spec

\* The rows, the requests and the lock of Account keep their types: a result
\* set holds rows and nothing else, whatever fails.
THEOREM TypeCorrect == Spec => []TypeOK
<1>1. Inv => TypeOK
  BY DEF Inv
<1> QED
  BY <1>1, InvInit, InvStep, PTL DEF Spec
=============================================================================
