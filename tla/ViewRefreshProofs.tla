------------------------- MODULE ViewRefreshProofs --------------------------
(***************************************************************************)
(* The early return of refreshData is right, for every number of rewrites, *)
(* connections and ticks of the clock.                                     *)
(***************************************************************************)
EXTENDS ViewRefresh, TLAPS

\* Stamps are times that have passed, and a client has no stamp the server
\* did not give it, none but 0 to begin with; so a rewrite that takes a new millisecond has a stamp no
\* client has. The implication has to hold while the answer to GET_LAST_UPDATE
\* is on its way, too.
StampInv ==
    /\ TypeOK
    /\ 0 < lastUpdate
    /\ lastSeen =< lastUpdate /\ reply =< lastUpdate /\ lastUpdate =< clock
    /\ cpc \in {"idle", "compare"} /\ wpc = "idle" /\ lastSeen = lastUpdate =>
          view = data \/ collided

LEMMA StampInit == Init => StampInv
<1> SUFFICES ASSUME Init PROVE StampInv
  OBVIOUS
<1>1. collided \in BOOLEAN
  BY Zenon DEF Init
<1>2. /\ clock = 1 /\ data = 0 /\ lastUpdate = 1 /\ wpc = "idle"
      /\ cpc = "idle" /\ reply = 0 /\ lastSeen = 0 /\ view = Nothing
      /\ logins = 1
  BY DEF Init
<1> QED
  BY <1>1, <1>2 DEF StampInv, TypeOK

\* updateData: a rewrite makes the premise false, and its stamp is new.
LEMMA UpdateKeepsStampInv == StampInv /\ UpdateData => StampInv'
<1> SUFFICES ASSUME StampInv, UpdateData PROVE StampInv'
  OBVIOUS
<1> USE DEF StampInv, TypeOK, clientVars, Nothing, Torn
<1>1. CASE ClearData
  BY <1>1 DEF ClearData
<1>2. CASE AddAll
  BY <1>2 DEF AddAll
<1>3. CASE StampData
  <2>1. TypeOK' /\ 0 < lastUpdate' /\ lastSeen' =< lastUpdate' /\ reply' =< lastUpdate'
           /\ lastUpdate' =< clock'
    BY <1>3 DEF StampData
  <2>2. CASE clock = lastUpdate
    BY <1>3, <2>1, <2>2 DEF StampData
  <2>3. CASE clock # lastUpdate
    BY <1>3, <2>1, <2>3 DEF StampData
  <2> QED
    BY <2>2, <2>3
<1> QED
  BY <1>1, <1>2, <1>3 DEF UpdateData

\* refreshData: a list copied in the middle of a rewrite is copied while the
\* premise is false.
LEMMA RefreshKeepsStampInv == StampInv /\ RefreshData => StampInv'
<1> SUFFICES ASSUME StampInv, RefreshData PROVE StampInv'
  OBVIOUS
<1> USE DEF StampInv, TypeOK, serverVars
<1>1. CASE GetLastUpdate
  BY <1>1 DEF GetLastUpdate
<1>2. CASE CompareStamp
  BY <1>2 DEF CompareStamp
<1>3. CASE GetData
  <2>1. Copies \subseteq Nat \union {Nothing, Torn}
    BY DEF Copies
  <2>2. wpc = "idle" => Copies = {data}
    BY DEF Copies
  <2> QED
    BY <1>3, <2>1, <2>2 DEF GetData
<1> QED
  BY <1>1, <1>2, <1>3 DEF RefreshData

LEMMA StampStep == StampInv /\ [Next]_vars => StampInv'
<1> SUFFICES ASSUME StampInv, [Next]_vars PROVE StampInv'
  OBVIOUS
<1>1. CASE Tick
  BY <1>1 DEF Tick, StampInv, TypeOK, serverVars, clientVars
<1>2. CASE UpdateData
  BY <1>2, UpdateKeepsStampInv
<1>3. CASE RefreshData
  BY <1>3, RefreshKeepsStampInv
<1>4. CASE LogInAgain
  BY <1>4 DEF LogInAgain, StampInv, TypeOK, serverVars, Nothing, Torn
<1>5. CASE UNCHANGED vars
  BY <1>5 DEF vars, StampInv, TypeOK
<1> QED
  BY <1>1, <1>2, <1>3, <1>4, <1>5 DEF Next

\* A client that has seen the collection's stamp shows the collection, unless
\* two rewrites fell into one millisecond: updateData and refreshData.
THEOREM EarlyReturnSound == Spec => []StampTellsContent
<1>1. StampInv => StampTellsContent
  BY DEF StampInv, StampTellsContent
<1> QED
  BY StampInit, StampStep, <1>1, PTL DEF Spec

\* The stamps and versions of the client and the server keep their types:
\* lastUpdate, the reply and the client's own stamp are numbers at all times.
THEOREM TypeCorrect == Spec => []TypeOK
<1>1. StampInv => TypeOK
  BY DEF StampInv
<1> QED
  BY StampInit, StampStep, <1>1, PTL DEF Spec
=============================================================================
