---------------------------- MODULE ViewRefresh -----------------------------
(***************************************************************************)
(* How the table in a client's window follows the server's collection.     *)
(* RouteCollection.updateData rewrites its list and then stamps it with    *)
(* the time in milliseconds; BackendInteractions.refreshData asks for the  *)
(* stamp first and for the list only if the stamp is not the one it has    *)
(* seen last. Both of the server's fields are read without a lock.         *)
(* DataReloader queues a refresh every second; every refresh of a client   *)
(* runs on its FX thread, one after the other.                             *)
(*                                                                         *)
(* Contents are numbered in the order updateData writes them. Writers hold *)
(* RouteCollection.lock, so they are one process here.                     *)
(***************************************************************************)
EXTENDS Integers

CONSTANTS MaxTime,      \* bound on the clock
          MaxWrites,    \* bound on the contents written
          MaxLogins,    \* bound on the connections of the client
          TooLarge      \* contents that serialise to more than BUFFER_SIZE

ASSUME ViewAssumption ==
    /\ MaxTime \in Nat /\ MaxWrites \in Nat /\ MaxLogins \in Nat
    /\ TooLarge \subseteq Nat

VARIABLES clock,        \* System.currentTimeMillis of the server
          data,         \* RouteCollection.data
          lastUpdate,   \* RouteCollection.lastUpdate
          wpc,          \* where updateData stands
          cpc,          \* where refreshData stands
          reply,        \* the stamp in the answer to GET_LAST_UPDATE
          lastSeen,     \* BackendInteractions.lastUpdatedOnServer
          view,         \* routePropertyObservableList
          logins,
          collided      \* history: two rewrites had the same millisecond

serverVars == <<data, lastUpdate, wpc, collided>>
clientVars == <<cpc, reply, lastSeen, view, logins>>
vars == <<clock, data, lastUpdate, wpc, cpc, reply, lastSeen, view, logins,
          collided>>

Nothing == -1           \* an empty list
Torn == -2              \* a list read in the middle of a rewrite

Tick ==
    /\ clock < MaxTime
    /\ clock' = clock + 1
    /\ UNCHANGED <<serverVars, clientVars>>

-----------------------------------------------------------------------------
(* updateData, when the lists differ *)

\* data.clear() begins.
ClearData ==
    /\ wpc = "idle" /\ data < MaxWrites
    /\ wpc' = "filling"
    /\ UNCHANGED <<clock, data, lastUpdate, collided, clientVars>>

\* data.addAll(newData) ends.
AddAll ==
    /\ wpc = "filling"
    /\ data' = data + 1
    /\ wpc' = "stamping"
    /\ UNCHANGED <<clock, lastUpdate, collided, clientVars>>

\* MUTANT: the list is rewritten and no stamp follows.
StampData_Missing ==
    /\ wpc = "stamping"
    /\ wpc' = "idle"
    /\ UNCHANGED <<clock, data, lastUpdate, collided, clientVars>>

\* lastUpdate = System.currentTimeMillis(), then unlock.
StampData ==
    /\ wpc = "stamping"
    /\ lastUpdate' = clock
    /\ collided' = (collided \/ clock = lastUpdate)
    /\ wpc' = "idle"
    /\ UNCHANGED <<clock, data, clientVars>>

-----------------------------------------------------------------------------
(* refreshData *)

\* MUTANT: the answer is the time of the question, not of the rewrite.
GetLastUpdate_Now ==
    /\ cpc = "idle"
    /\ reply' = clock
    /\ cpc' = "compare"
    /\ UNCHANGED <<clock, serverVars, lastSeen, view, logins>>

\* GET_LAST_UPDATE: the server reads the field and answers.
GetLastUpdate ==
    /\ cpc = "idle"
    /\ reply' = lastUpdate
    /\ cpc' = "compare"
    /\ UNCHANGED <<clock, serverVars, lastSeen, view, logins>>

\* MUTANT: the stamp is left to be remembered when the list has come.
CompareStamp_RemembersLater ==
    /\ cpc = "compare"
    /\ cpc' = IF lastSeen = reply THEN "idle" ELSE "load"
    /\ UNCHANGED <<clock, serverVars, reply, lastSeen, view, logins>>

\* The stamp is remembered before the list is asked for.
CompareStamp ==
    /\ cpc = "compare"
    /\ lastSeen' = reply
    /\ cpc' = IF lastSeen = reply THEN "idle" ELSE "load"
    /\ UNCHANGED <<clock, serverVars, reply, view, logins>>

\* What an unlocked copy of the list may be.
Copies == IF wpc = "filling" THEN {data, data + 1, Nothing, Torn} ELSE {data}

\* Copies that do not fit into the buffer of Serializer.serialize: a torn one
\* may be as long as the longer of the two lists it comes from.
MayOverflow(c) ==
    \/ c \in TooLarge
    \/ c = Torn /\ {data, data + 1} \intersect TooLarge # {}

\* GET_DATA and setAll. While the list is rewritten, an index error on the
\* server ends the session, and with it the refreshes; a null in the list
\* ends this refresh on the client and leaves the table as it was. No answer
\* follows a list that does not fit: the FX thread waits in getAnswer for
\* ever, and there is no refresh and no logOut any more.
GetData ==
    /\ cpc = "load"
    /\ \/ view' \in Copies \ TooLarge /\ cpc' = "idle"
       \/ wpc = "filling" /\ cpc' \in {"lost", "idle"} /\ UNCHANGED view
       \/ (\E c \in Copies : MayOverflow(c)) /\ cpc' = "stuck" /\ UNCHANGED view
    /\ UNCHANGED <<clock, serverVars, reply, lastSeen, logins>>

\* logOut and a new login: a new BackendInteractions.
LogInAgain ==
    /\ cpc \in {"idle", "lost"} /\ logins < MaxLogins
    /\ logins' = logins + 1
    /\ cpc' = "idle" /\ reply' = 0 /\ lastSeen' = 0 /\ view' = Nothing
    /\ UNCHANGED <<clock, serverVars>>

\* The constructor stamps the empty list; the epoch was long ago.
Init ==
    /\ clock = 1 /\ data = 0 /\ lastUpdate = 1 /\ wpc = "idle"
    /\ cpc = "idle" /\ reply = 0 /\ lastSeen = 0 /\ view = Nothing
    /\ logins = 1 /\ collided = FALSE

UpdateData == ClearData \/ AddAll \/ StampData
RefreshData == GetLastUpdate \/ CompareStamp \/ GetData

Next == Tick \/ UpdateData \/ RefreshData \/ LogInAgain

Spec == Init /\ [][Next]_vars

\* updateData ends once begun, and DataReloader never stops refreshing.
FairSpec ==
    /\ Spec
    /\ WF_vars(AddAll) /\ WF_vars(StampData) /\ WF_vars(RefreshData)

-----------------------------------------------------------------------------
(* Properties *)

TypeOK ==
    /\ clock \in Nat /\ data \in Nat /\ lastUpdate \in Nat
    /\ wpc \in {"idle", "filling", "stamping"}
    /\ cpc \in {"idle", "compare", "load", "lost", "stuck"}
    /\ cpc = "load" => lastSeen = reply
    /\ reply \in Nat /\ lastSeen \in Nat
    /\ view \in Nat \union {Nothing, Torn}
    /\ logins \in Nat /\ collided \in BOOLEAN

\* What refreshData relies on when it returns early: between two refreshes a
\* client that has seen the collection's stamp shows the collection, even if
\* it copied the list in the middle of a rewrite, unless two rewrites fell
\* into one millisecond.
StampTellsContent ==
    cpc = "idle" /\ wpc = "idle" /\ lastSeen = lastUpdate =>
        view = data \/ collided

\* The window ends up with the last content written, past torn copies, lists
\* that were too large for an answer but not asked for, and stamps that were
\* late, unless the session was lost to an error while the list was copied,
\* the client asked for a list whose answer exceeds the buffer of
\* Serializer.serialize and waits for ever, or two rewrites fell into one
\* millisecond.
ViewConverges == <>[](view = data \/ collided \/ cpc \in {"lost", "stuck"})
=============================================================================
