# A verification project for ProgLab8 and the concurrent core of HAProxy

The repository is a collection of university course work. Its own program with
a life of its own is `programming/ProgLab8`: a multithreaded Java server that
keeps routes in PostgreSQL, with an in-memory copy for queries, and a JavaFX
client. Most of its C code is the source of HAProxy 3.1 and OpenSSL, which
`soa/lab3` builds and runs in front of its services. This project models
ProgLab8, and of HAProxy the three pieces that all of its threads share and
whose correctness is a matter of interleavings: the connection queues, the
frequency counters and the thread rendez-vous. TLC checks small instances and
TLAPS proves the central properties.

Paths of ProgLab8 are relative to `src/programming/ProgLab8/src/main/java/`,
those of HAProxy to `src/soa/lab3/haproxy/source/`.

## 1. Inventory

### The parts of ProgLab8

| Part | State | Operations |
|---|---|---|
| `server/DatabaseWorker` | table `routes`, sequence `serial` | `getAllRoutes`, `addNewRoute`, `updateById`, `removeById`, `clear`; each is one statement in autocommit mode; an `SQLException` becomes `false`, except in `getAllRoutes` |
| `server/RouteCollection` | `data` (a `LinkedList`), `lastUpdate`, a lock, a refresher thread | `updateData` (locked), `getData`, `getLastUpdate` (unlocked), a reload every 5 s |
| `general/Commands` | one static `ReentrantLock` | 8 commands that change the table, 7 queries |
| `server/Account` | table `userdata`, one shared JDBC `Statement`, a lock | `logIn`, `newUser`, `addUser` |
| `server/Session`, `GetRequest`, `SendAnswer`, `ResponseToRequest` | socket, three pools | a login loop, then a command loop |
| `server/Server` | the collection | fill the collection, accept, one thread per client |
| `client/Authorizer`, `SendRequest`, `GetAnswer`, `general/Serializer` | a non-blocking channel | one request out, one answer in |
| `client/BackendInteractions`, `DataReloader`, `gui/SceneControl` | last stamp seen, list shown | `refreshData` every second, login, logout |
| `client/CommandWorker`, `workwithroute/*` | - | script lines to requests, checks of values |
| `general/route/*` | - | `compareTo`: distance, then moduli of coordinates and locations, then name |

How they interact. A `Session` thread reads a request, has it executed, and
gives the answer to a pool of five senders. A command that changes something
takes `Commands.lock`, runs a statement, reads the whole table and hands the
list to `updateData`. The refresher does the last two things without
`Commands.lock`. Queries, and the choice of what to delete, use an unlocked
copy of the list. Everything a client does runs on its FX thread.

What is hard: the refresher and a command carry lists of different age to the
collection; the unlocked copy is taken while the list is rewritten; ids are
chosen before the lock is taken; locks are released by straight-line code, so
an exception loses them; all logins share one `Statement`; `getAnswer` assumes
that a read returns one object; stamps have the resolution of the clock.
`PROJECT.json`, "hazards", lists each of these at its line, with the
properties that look at it.

What makes each part correct:

- commands: one at a time; each changes rows of its own user only; ids are
  never used again; the table is always the result of whole statements;
- collection: what a command puts there is current; whatever the refresher
  does, it ends up equal to the table; it shows what the table has;
- accounts: nobody is let in without a matching row (the code achieves it for
  names without a quote); nobody who has one is refused; a name is registered
  once;
- transport: an answer is the answer to the request just sent; waiting ends;
- client: the list shown is the collection's once the stamps agree.

### The parts of HAProxy

| Part | State | Operations |
|---|---|---|
| connection queues: `src/queue.c`, and its callers in `src/backend.c`, `src/stream.c`, `src/server.c` | per server and per backend a tree of waiting requests with a lock and a length outside of it; `served` per server and per backend; a `dequeuing` flag; in each entry a `del_lock` | `pendconn_add`, `pendconn_must_try_again`, `pendconn_dequeue`, `pendconn_unlink`, `process_srv_queue`, `pendconn_redistribute`, `pendconn_grab_from_px`, `sess_change_server` |
| frequency counters: `src/freq_ctr.c` | a tick whose lowest bit is a lock, the counts of this and of the last period | `update_freq_ctr_period`, `freq_ctr_total`, `freq_ctr_overshoot_period` |
| thread rendez-vous: `src/thread.c`, `include/haproxy/thread.h` | masks of enabled, harmless and idle threads, `rdv_requests`, `isolated_thread` | `thread_isolate`, `thread_isolate_full`, `thread_release`, `thread_harmless_end`, the poller |

How they interact. A request that finds its server full is queued by its own
thread; whichever thread ends a connection hands the slot to the next request,
writes to a stream of another thread and wakes it up. Every accepted
connection and request feeds counters that all threads update and read without
a lock. What no lock protects (adding and deleting servers, walking all
streams) is done by a thread that the rendez-vous has isolated.

What is hard: trees are locked and lengths are not; a request is given a slot
at the moment it times out; the thread that gives up relies on another that
may have finished looking; three words are read as if they were one; a thread
seen harmless may just be leaving the poller.

What makes each part correct: a slot and an entry are counted exactly once,
the memory written to is alive, a request that could be served does not wait;
events are neither lost nor counted twice, and what is read was there; an
isolated thread is alone, and everybody who asks to be isolated is.

### The rest of the repository

`PROJECT.json`, "components", has every part and the reason it is left out.
In short: ProgLab5, 6 and 7 are earlier stages of ProgLab8; ProgLab2 to 4 print
a story; `db/kursach` is a CRUD back end with an Angular front end; the web
labs check points against areas; `vmath` and `ai` are floating-point numerics;
`information_security/crypto` has pure ciphers; `dbms`, `csa`, `db/lab*` are
scripts and notes; and 6700 of 7500 files are the sources of HAProxy and
OpenSSL under `src/soa/lab3/haproxy`, a million lines of which three pieces are
modelled.

## 2. The modules

    RouteTable            what the server promises about the table
       ^ refines
    RouteServer           Commands, RouteCollection, DatabaseWorker, restarts
       ^                        ^
    MCRouteServer (TLC)   RouteServerProofs (TLAPS)

    Accounts              Account and the login loop of Session
       ^                        ^
    MCAccounts (TLC)      AccountsProofs (TLAPS)

    Connection            Session, SendAnswer, GetAnswer, Serializer, the socket
       ^
    ConnectionProofs (TLAPS)

    ViewRefresh           lastUpdate, refreshData
       ^
    ViewRefreshProofs (TLAPS)

    ServerQueue           HAProxy: queue.c and its callers
       ^                        ^
    MCServerQueue (TLC)   ServerQueueProofs (TLAPS: entries, counters)
                                ^
                          ServerQueueDuty (TLAPS: nobody is stranded)

    FreqCtr               HAProxy: freq_ctr.c
       ^                        ^
    MCFreqCtr (TLC)       FreqCtrProofs (TLAPS)

    ThreadIsolate         HAProxy: thread.c, the poller
       ^                        ^
    MCThreadIsolate (TLC) ThreadIsolateProofs (TLAPS)

Definitions named `X_Something` under a comment `MUTANT` are plausible mistakes
in X. They are not part of any specification: each is substituted for X once,
to see that a property notices.

### RouteServer

Variables `table`, `serial` are the database; `data`, `dataLock` are
`RouteCollection`; `commandsLock` is `Commands.lock`; `pc`, `job`, `todo` and
`snap` are what the threads have on their stacks: the step, the request, the
ids still to delete and the list `getAllRoutes` returned.

A command is cut where another thread can notice: before `lock.lock()`, before
each statement, between `getAllRoutes` and `updateData`, and between the
beginning and the end of a rewrite.

| Code | Actions |
|---|---|
| `add`, `addIfMax` | `RequestAdd`, `Lock`, (`Present`, `Max`), `Insert`, then the tail |
| `update`, after `CHECK_ID` | `RequestUpdate`, `Lock`, `Alter`, the tail |
| `removeById` | `RequestRemoveById`, `Lock`, `DecodeId`, `Loop`, the tail |
| `clear` | `RequestClear`, `Lock`, `Wipe`, the tail |
| `removeGreater`, `removeLower`, `removeAnyByDistance` | `RequestRemove...` (chooses the ids), `Lock`, `Loop` and the tail for each id |
| the tail: `updateData(getAllRoutes())`, `unlock` | `Fetch`, `UpdateData`, `WriteData`, `Unlock` |
| the refresher | `Fetch`, `UpdateData`, `WriteData` of the thread `Refresher` |
| queries | `Query` |
| an exception in a handler | `Die`; the lock, if held, becomes `Leaked` |
| `Server.main` again after a crash | `Restart` |

Data is abstract. A route is a member of `Routes`; `KeyOf` is its rank under
`compareTo`, so different routes may be equal; `DistOf` is its distance;
`ReadBack` is what comes back from the table (`getLong` cuts `from_z` and
`to_z`). The argument of `remove_by_id` is a text with the number
`Integer.decode` gives it, or `BadNumber`.

Choices worth knowing:

- `SELECT *` has no `ORDER BY`, so any order of the rows may be returned;
- an unlocked copy taken during a rewrite is the old list, the empty list, a
  beginning of the new one, or an exception. It overlaps one rewrite at most;
- the ids of `removeGreater` are deleted in any order;
- `CHECK_ID` and `UPDATE` are two requests. Their gap is the wait in `Lock`,
  since `UPDATE` looks at nothing before it has the lock;
- the WHERE clauses also compare the password. The session is logged in, and
  passwords never change, so this is true and left out;
- the client refuses `exit`; a permanent loss of the database connection is
  not modelled, only statements that fail.

### Accounts

`reading` says whose `ResultSet` is open on the shared `Statement`, `result`
what each thread's query found. `logIn` is `LogInQuery`, `LogInCompare`;
`newUser` is `NewUserQuery`, `NewUserCheck`, `AddUserLock`, `AddUserInsert`.
That executing a `Statement` closes its open `ResultSet`, and that using a
closed one throws, is JDBC's contract. `Account.lock` is reentrant, so it has a
hold count. `hash256` is taken to be injective. Between two attempts a session
may be replaced by another client's (`Leave`); a lock it still held is then
held by nobody who can release it (`Ended`).

The three statements are put together from the raw name. For a name without a
quote they are the statements the code means. For the others (`Quoting`) nothing
is assumed about them: `Select` may return any row, the query or the INSERT may
be refused, and either may leave the table in any state (`Replaced`, counted by
the history variable `altered`). So `AdmittedIsRegistered` speaks of sessions
under names without a quote, whatever the other sessions' queries select, and
only as long as nothing but INSERTs has changed the table; for a name with a
quote the code guarantees nothing. The routes are in the same database, and
`RouteServer` takes it that only `DatabaseWorker` changes them, whose statements
are prepared.

### Connection

One client, one session. An answer travels as `Parts` parts and a read takes
any number of those that have arrived. `getAnswer` keeps reading until it has
one object, returns it and drops what else it had read; bytes that begin in
the middle of an object are a `StreamCorruptedException`. `tag` numbers the
requests modulo `Tags` so that an answer can be compared with its request.
`dropped` is a history variable. The channel of a failed login is forgotten by
the client, so `Connect` replaces the whole connection. Requests arrive whole,
since `ObjectInputStream` blocks for the rest of an object.

### ViewRefresh

Contents of the collection are numbered. `updateData` is `ClearData`, `AddAll`,
`StampData`; `refreshData` is `GetLastUpdate`, `CompareStamp`, `GetData`. The
two unlocked fields are read in any of the states between. Stores are taken to
become visible in program order, as they do on x86. `collided` is a history
variable: two rewrites have had one millisecond.

A copy taken during a rewrite may be the old list, the new one, an empty or a
torn one; it may fail on the server, which ends the session (`lost`), or hold a
null, which ends this refresh on the client and nothing else. A list of
`TooLarge` does not fit into the 32 KiB of `Serializer.serialize`: its answer is
never sent and the FX thread waits for ever (`stuck`), unable to refresh or to
log out. `ViewConverges` excepts both ends by name. A list too large that is
rewritten before the client asks for it does no harm.

### ServerQueue

Each stream runs `process_stream()` on a thread of its own, and one more thread,
`Admin`, changes the state of servers. A step is what lies between two accesses
to something another thread may change at that moment; a critical section that
touches nothing else is one step. Five tests read several counters, or one
several times, and are one step all the same: the tests of the backend and of
the server in `assign_server` and `assign_server_and_queue` (`BackendFull`,
backend.c:684; `MustQueue`, 1038), the walk of `fwrr_get_next_server` over the
servers (`Candidates`, lb_fwrr.c:534-579), `may_dequeue_tasks` (`MayDequeue`,
queue.h:91-92), and `served` in the loop of `pendconn_grab_from_px` (`Grab`,
queue.c:585-586). `served`, `pxServed`, `length` are the atomic
counters, `tree` the linked entries, `lock` the lock of a server's queue (the
proxy's is only held within a step), `delLock` the entries whose `del_lock` is
held. `pend`, `pendTarget` and `pendAssigned` are a stream's pendconn; `target`,
`assigned`, `srvConn` and `currSess` are fields and flags of the stream; `work`
is the stack of `process_srv_queue()`.

| Code | Actions |
|---|---|
| `assign_server`, `assign_server_and_queue` | `NewStream`, `AssignServer`, `LookUpServer`, `CheckRoom` |
| `sess_change_server` | `TakeSlot`, `SlotTaken`; `ReleaseSlot`, `SlotReleased`; `Drop`, `Dropped` |
| `pendconn_add`, `pendconn_must_try_again` | `PendconnAdd`, `PendconnInsert`; `MustTryAgain`, `Unqueue` |
| `back_try_conn_req`, `pendconn_dequeue`, `pendconn_unlink` | `WakeUp`, `GiveUp`, `Dequeued`, `PendconnUnlink`, `Unlinked`, `Connect` |
| `process_srv_queue`, `pendconn_process_next_strm` | `MayDequeue`, `Loop`, `Xchg`, `LockQueue`, `Inner`, `ProcessNext`, `Give`, `DecLength`, `IncServed`, `LeaveQueue`, `Tally` |
| `stream_free` | `Close`, `Drop`, `Dropped` |
| `_srv_update_status_adm`, `pendconn_redistribute`, `pendconn_grab_from_px` | `SetMaint`, `Redistribute`, `Counted`, `RedistributePx`; `SetReady`, `Grab`, `CountedPx` |

Any element of a tree may be its first, since priorities are up to the
configuration. `maxconn` is static, load balancing is round robin; there is no
`maxqueue`, no redispatch and no retry, and servers are neither backups nor
tracked; `pendconn_add` does not run out of memory. (The configuration the lab
generates sets no `maxconn`, so its requests never wait; the queues are
modelled as the code has them.)

`missed` is a history variable. It becomes true when one of four things
happens after which a request may be left behind: a stream is freed, or gives
up, with a slot or a server that was handed to it at that moment; a stream
added to the proxy's queue is reassured by a `px->served` that no slot stands
for; a thread finds `dequeuing` set by one that has taken its last look; or by
one that read `px_ok` while the server was in maintenance and so passes over the
proxy's queue, although the server is up again. The last one takes four requests
and two changes of a server, more than the run has; it came up in the
attempt to prove `NoneStranded`, and TLC confirms it on that schedule.

Two things the code accepts and the model has: `maxconn` can be exceeded, since
the look at `served` and its increment are two steps and a server coming up
takes requests without counting them; and `served` is negative for a moment
when a woken stream is faster than the thread that woke it up.

### FreqCtr

Each atomic access is a step. `clock` is real time and does not wrap; ticks wrap
at `Wrap` and, as in `clock.c`, never have the value 0. An updater's own clock
may be `MaxLag` behind. Every update counts one event. `added`, `dropped`,
`oldest` and `seen` are history variables: how many events were counted and have
left, the oldest event of each count, and every state of the counter since a
reader has loaded the tick it works with. `freq_ctr_overshoot_period()` is the
reader that skips `prev_ctr`; what it computes from its reading is not modelled.

The uptime has no bound other than the one a run needs. What differences of
wrapping dates cannot tell is therefore in the model, and the properties except
it by name:

- `Neglected`: a counter that nobody has rotated for half a turn of the ticks
  (24.8 days and a period). `tick + period - now` is positive again as an int,
  and `freq_ctr_total()` returns a huge number (`TotalSane`). A counter that is
  late by less is found too far away and counts as empty, or its current count
  becomes the last one;
- `turned`: a date in use (the tick of a counter with events, one that a reader
  has seen, the date at which a thread has begun to rotate) was left for a full
  turn of the ticks (`Window`, and the age of the events in `TotalSane`);
- `reused`: during a reading a period has begun at the very tick that the
  reading began with (`SnapshotReal`, and the age in `TotalSane`). It takes a
  full turn, or the tick 0 of a null area: 0 is no date, but a period may begin
  at it, as the even number below 1.

### ThreadIsolate

Each atomic access is a step, and memory is sequentially consistent (the
operations used are full barriers on x86, and ordered by the barriers in the
code elsewhere). The masks of all groups are one set each, of which a step
reads the part of one group. A thread is in the poller (`poll`), on its way out
(`check`, `till`, `spin`, `clear`, `idleend`), running (`run`), asking for
isolation (`request` to `cas`), or isolated. `FullCallers` are the threads that
may call `thread_isolate_full()`.

## 3. The runs

| Run | Bounds | States | What it shows |
|---|---|---|---|
| `server_safety` | 2 sessions, 2 users, 2 routes, 2 ids; add, update, remove_greater, clear | 1.4 M | serialisation, current copies, ids, ownership, refinement |
| `server_faults` | the same, one fault; add, add_if_max, remove_by_id, remove_lower, remove_any_by_distance | 0.9 M | the same under database errors, restarts, lost locks, lossy read-back |
| `server_live` | 3 routes, 2 ids, one fault; add, remove_by_id | 348 k | convergence and progress |
| `accounts` | 2 sessions, 2 names (one with a quote), 2 passwords, 2 rows, one fault, one other change of the table | 628 k | admission, locking, completion |
| `connection` | 2 parts, tags modulo 3 | 0.4 k | order and loss of answers, waiting ends |
| `view_refresh` | 5 ms, 3 rewrites, the second too large, 2 logins | 11 k | stamps and convergence |
| `server_queue` | 3 streams, 2 servers, `maxconn` 1, 3 events | 1.4 M | ledgers of entries and slots, lifetime of entries, nobody stranded |
| `freq_ctr` | 2 updaters, 1 reader, period 3, ticks modulo 10, 10 ticks, 2 events; a rotation takes 1 tick at most (`MaxPause`), a reading 2 (`MaxRead`) | 3.1 M | exclusive rotation, conservation, periods, readings |
| `thread_isolate` | 3 threads in 2 groups, 1 full caller, 3 requests | 27 k | isolation, service, release of the poller |

Why the bounds are enough. Two sessions and the refresher are all the kinds of
actors there are, and each race needs two of them. Two ids give a row to
delete and one to insert after it; two routes give an order, or, in the fault
run, a route that is read back as another. One fault is enough for every error
path, since each can be reached from the initial state. Two parts give every
way to cut two answers apart or to join them; three tags distinguish an answer
from its neighbours. Three rewrites give a rewrite before, during and after a
refresh. Three streams with one slot are the one that holds it, the one that
waits and the one that comes in between; two servers are needed for the proxy's
queue to be fed by one while the other changes state; events are arrivals and
changes of a server's state together. The lists of `server_live` have
routes of different rank, so that convergence is a matter of contents and not
only of lengths, and one that is read back as another. Of three lists the
second is too large, so a client may meet it, miss it, or end with it. Ten
ticks modulo ten, begun three before the wrap, are a full turn: a
counter with events is rotated in time, after one, after two and after more
missed periods, is found too far away, is left alone for half a turn and for a
full one, and a period begins at a tick that a reader still holds. Three threads in two
groups give a winner, a loser and one that leaves the poller, and a scan of
more than one group. For safety the theorems below remove the bounds where
there is one.

The two large runs of `RouteServer` use a symmetry that exchanges the two
clients, session and user together; `server_queue` and `freq_ctr` exchange
streams, servers and updaters. These runs check safety only.

Fairness. `server_live` assumes that a thread that can run does run: the JVM
schedules every runnable thread, and the refresher's sleep ends. Nothing is
assumed of `Commands.lock`, which is unfair: so progress says that some command
completes, not that each does. Of `RouteCollection.lock` strong fairness is
assumed for sessions: the only rival that never gives up is the refresher, and
it sleeps for five seconds after it has released the lock and woken up the
waiting session. (The assumption is needed: the order of a `SELECT` is not
determined, so the refresher may find a reason to rewrite the list each time.) `accounts` and `connection` assume the same of
their threads, and nothing of what users do or of failures. `view_refresh`
assumes that `updateData`, once begun, ends, and that the reload timer goes on.
`thread_isolate` assumes that every thread keeps taking steps: pollers return
on a timeout or a signal and no task holds a thread for ever. Its number of
requests is bounded, and that matters: a thread can lose every race for
`isolated_thread` against a steady stream of requests. `server_queue` has no
fairness; what must not be left undone is stated of the states in which
nobody has anything left to do (`Quiescent`).

`CHECK_DEADLOCK FALSE` stands where the system may stop: in `accounts` every
session may end up waiting for a lock that was lost; in `view_refresh` a client
whose session was lost, or who waits for an answer that is never sent, may be left
alone; in `server_queue` and `freq_ctr` the
events are used up; in `thread_isolate` all threads may have exited.

### Where the code does something else than it says

Three runs expect a violation. Each property states what a help text or a
comment of the repository says; "findings" quotes it.

- `remove_by_id`: `08` passes the client's check, is malformed to
  `Integer.decode`, and the exception loses `Commands.lock` for everybody.
- `queue_left_unserved`: with one server of one slot, a request can be left in
  a queue after all others have ended (the ways are the ones `missed` names);
  it waits until `timeout queue` or the next request.
- `isolate_deadlock`: two threads call `thread_isolate_full()`. One is isolated
  and releases; the other, which has seen it idle before, takes
  `isolated_thread`. If the first now calls `thread_isolate()` before it is back
  in the poller it is harmless but not idle: it waits for `isolated_thread`,
  and the other waits for it to be idle. Both are marked harmless, so the
  watchdog (`src/wdt.c`) leaves them alone.

Others are in the models without a run of their own, since they are plain to
see in the code:

- `removeGreater` and `removeLower` compare the wrong way round
  (`RequestRemoveGreater`, `RequestRemoveLower`);
- `addIfMax` looks up the greatest element in the collection, into which the
  refresher may just have put an old list (`Max`);
- an update that `compareTo` does not see (mirrored coordinates, say) is never
  copied to the collection (`UpdateData`);
- a query of another session closes the `ResultSet` a login is reading, and a
  registered user is refused (`LogInCompare`);
- TRUE and the User object in one read: the second is dropped with the buffer
  (`OnlyKnownLosses` names it);
- two sessions may register one name, because the check and the INSERT are two
  steps and `userdata` has no unique constraint (`NewUserCheck`);
- `getAnswer` does return the `null` of which its comment says that it "will
  not happen", whenever the server goes away (`ReadEnd`);
- an answer of more than 32 KiB is logged as sent and never written
  (`Transmit`).

## 4. What is proved

For every set of sessions, users, routes, streams, servers and threads, and every
bound. In parentheses, the property of a run that the theorem states:

| Theorem | States |
|---|---|
| **RouteServerProofs** | |
| `TypeCorrect` (`TypeOK`) | types, and that a step finds the arguments it reads |
| `LocksSerialize` (`Serialized`) | the holder of each lock is exactly the thread in its critical section |
| `CommandsCopyCurrentTable` (`CommandSnapshotCurrent`) | what a command copies is the table at that moment |
| `IdsAreStable`, `OwnersFixed` (`IdsIssuedOnce`, `OwnerOfIdFixed`) | an id is issued once and keeps its owner, in every list in memory |
| `OwnersOnly` (`OnlyOwnRowsChange`) | a row changes only by a statement of its owner |
| `ServerRefinesTable` (`ImplementsRouteTable`) | `RouteServer` implements `RouteTable` |
| **AccountsProofs** | |
| `TypeCorrect` (`TypeOK`) | types |
| `AdmissionSound` (`AdmittedIsRegistered`) | nobody is let in under a name without a quote unless there is a matching row, or a statement has changed the table in another way than by an INSERT |
| `InsertsSerialize` (`InsertsLocked`) | INSERTs are serialised; the lock is lost only to a failed one |
| **ConnectionProofs** | |
| `TypeCorrect` (`TypeOK`) | types of the streams, pools and buffers |
| `AlternationHolds` (`Alternation`) | at most one request or pooled answer; the client waits for that one |
| `LossesKnown` (`OnlyKnownLosses`) | only the two known kinds of answers are lost |
| `AnswersAreMatched` (`AnswersMatch`) | `getAnswer` returns the answer to the request just sent, however the bytes were cut |
| **ViewRefreshProofs** | |
| `TypeCorrect` (`TypeOK`) | types |
| `EarlyReturnSound` (`StampTellsContent`) | equal stamps mean equal contents, collisions excepted |
| **ServerQueueProofs** | |
| `TypeCorrect` (`TypeOK`) | types; the length of a queue is never negative |
| `EntriesOutliveTheirUse` (`PendconnAlive`) | a thread writes to no entry that its stream has freed |
| `SlotsAgree` (`SlotOfTarget`) | a slot is held on the server the stream talks to |
| `LengthsExact` (`LengthLedger`) | the length of a queue is the number of its entries, but for threads in between |
| `SlotsExact` (`SlotLedger`) | `served` is the number of slots held, but for threads in between |
| **ServerQueueDuty** | |
| `NobodyLeftBehind` (`NoneStranded`) | at rest nobody is left in a queue, the known missed wake-ups excepted |
| **ThreadIsolateProofs** | |
| `TypeCorrect` | types, and that `rdv_requests` counts the requests |
| `IsolationHolds` (`Isolation`) | a thread that is isolated is the only one that runs |
| `FullIsolationHolds` (`FullIsolation`) | and, if it asked for it, no other is in the middle of a task |
| **FreqCtrProofs** | |
| `RotationExclusive` (`OneRotator`) | one thread rotates a counter, and the lock bit says so |
| `NoEventLost` (`Conservation`) | every event is in one of the counts, between them, or has left |
| `ReadingsReal` (`SnapshotReal`) | an accepted reading is one moment of the counter (`reused` excepted) |
| `WindowHolds` (`Window`) | no event is counted that is older than its period (`turned` excepted) |
| `TotalsSane` (`TotalSane`) | a total lies between nothing and everything that was read, and is made of recent events (`Neglected` excepted; for the age, `reused` and `turned` too) |

The assumptions are the named ASSUMEs of the modules; TLC evaluates them in the
runs. The main ones: a session has one user, thread names are distinct, ranks
are natural numbers, a greater distance is a greater rank, `hash256` is
injective.

The arguments. `LocksSerialize` is inductive with types alone: `Lock` needs a
free lock, and every way out of the critical steps either frees it or marks it
`Leaked`. `CommandsCopyCurrentTable` needs it: the table changes only in a
critical step, and the session with the snapshot is in one itself.
`IdsAreStable` is not inductive by its statement about the table: an old list
could bring back an id with another owner. The invariant ranges over `Known`,
the rows of the table, the collection and every list on its way there; a new
row takes the id after `serial`, and every known id is at most `serial`.
`ServerRefinesTable` maps `table` and `serial` to themselves: each statement is
one abstract operation, everything else stutters; uniqueness of ids makes the
UPDATE by id the replacement of one row. In `AccountsProofs` the invariant
follows a result on its way from the query to the decision: the rows that the
query of a name without a quote has selected were in `userdata`, and as long as
`altered` is zero no row has gone. In `ViewRefreshProofs`
stamps are bounded by the clock, so a rewrite in a new millisecond has a stamp
no client has; the implication is strengthened to hold while the answer to
`GET_LAST_UPDATE` is under way. In `ThreadIsolateProofs` the invariant says
whose bits the masks have (each is set and cleared by its own thread only), who
owns `isolated_thread`, that `rdv_requests` is the number of requesting
threads, and what the owner's second scan has established: a thread of a group
already scanned is harmless and stays so, since `rdv_requests` is not zero and
`isolated_thread` is taken. The first scan establishes nothing, which is why
there are two.

`ConnectionProofs`. None of the three properties is inductive: that an answer is
the right one depends on everything that may be in front of it. The invariant
says, for each step the client may stand at (`FlagPhase`, `UserPhase`,
`AwaitPhase`, `Settled`), what may be in the socket, in the buffer of `getAnswer`
and in the pools. A stream is described by its i-th part (`Pieces`) and not as a
concatenation, so that a read of any number of parts shifts an index; `Halves`
says that what was read and what is left are together one answer, or TRUE and
the User after it. The one awkward state is a User whose first parts went with
the buffer of the flag (`Remainder`): what follows can then only be taken for a
corrupted stream, never for another answer.

`ServerQueueProofs`. The invariant says what a thread knows about its own stream
at each step (`OwnStream`), that a linked entry belongs to a stream that waits
there and has no slot yet (`Linked`), and that an entry in the hands of a
thread of the proxy's queue is held by `del_lock` for that one thread
(`Picked`): this is what keeps `pendconn_free()` away. The two ledgers are
proved on top of it. Each action moves one stream from one of the counted sets
to another, or to the counter itself, and one lemma on cardinalities
(`CountChange`) says what that does to the sums; that the redistribution counts
its entries once after all are moved is the term with `admin.xferred`.

`ServerQueueDuty`. `NoneStranded` speaks of the states in which everything has
come to rest; the invariant behind it has to say, at every moment, who will
still look at a queue that is not empty. `Duty(u, s, px)` names them: a stream
that has a slot of `s`, or was given `s` by a server coming up, or is on its way
to release it (`Entitled`, and the steps up to `may_dequeue_tasks()`), and a
thread in `process_srv_queue()` that will look once more (`Looks`), at the
proxy's queue too if `px`. `OnDuty` says that there is one for every queue in
which somebody waits. A duty is passed on in a few steps only, and each needs a
fact of its own: `may_dequeue_tasks()` that returns early has seen a
connected stream, or a length that is exact (`LengthLedger`); a loop that ends
because `served` is not zero leaves it to the holder of that slot
(`SlotLedger`); a thread that finds `dequeuing` leaves it to the one in
charge, of which there is exactly one (`Charged`); a thread that lets
`dequeuing` go while `served` is negative leaves it to whoever is just giving a
slot back; `pendconn_grab_from_px()` that takes nobody has found the server
full. A stream that is at rest is not on duty, because whoever was unlinked has
been woken up, or is about to be by the thread that has the entry (`Informed`).
TLC has checked these invariants with the bounds of `server_queue` as well.

`FreqCtrProofs`. A thread about to take the lock has seen an even tick, so a
successful compare-and-swap finds nobody rotating; the ledger of events then has
one exception, the rotator between its exchange and its store. Of a reading, the
first load of a value is the one that makes it real, and the second one only
shows that there was no rotation between them: while the period is the same,
`prev_ctr` cannot change, and what was loaded of `curr_ctr` was the counter's
value at that moment. This breaks down if the tick comes back to the same value
during the reading, which is what `reused` records.

Dates are compared by differences that wrap. `DInv` says which of them are right:
unless `turned`, no date in use has been passed by the clock a second time, so
the difference to it is its age; a thread that has decided to
rotate did so recently enough for `Missed` to be judged correctly; and the
events that it moves are not older than the period it ends unless it will drop
them. The tick of a null area may be any time ago, but then both counts are zero,
and this case is carried through to the total. That the total is not on the
wrong side of the signed difference is not assumed: the proof of `TotalsSane`
splits on `Remain`. Positive means within the period, or half a turn away, which
is `Neglected`; less than a period late means that `curr_ctr` is the last
period's; anything later is too far away and gives zero.

Only model-checked: all liveness and fairness (`CollectionConverges`,
`CommandsProgress`, `RegistrationCompletes`, `WaitEnds`, `ViewConverges`,
`Served`, `PollerLeft`: out of the prover's reach), and of course the
violations. Every other invariant and action property of the runs is a theorem.

## 5. Plan

1. Done: `RouteServer` with its refinement, `Accounts`, `Connection`,
   `ViewRefresh`, `ServerQueue`, `FreqCtr`, `ThreadIsolate`, and the theorems
   above: all invariants and action properties of the runs.
2. Worth a module later: a composition of `Connection` with `Accounts` (what a
   client knows about its registration when the connection breaks); the
   script interpreter of `CommandWorker`; of HAProxy the file descriptor
   migration of `fd.c`, the task scheduler's run queues and the ring buffers.

## 6. Not modelled

ProgLab8: the GUI, localisation and formatting; the contents of routes beyond
their order; the abandoned connections of failed logins (one connection at a
time is modelled); clocks that go backwards.

HAProxy: everything but the three parts. They are a thousand lines of a million;
the rest is for the most part parsing, protocol state of one connection, TLS and
Lua, or cryptography over long numbers in OpenSSL, which a model of this size
cannot represent faithfully. The lab's script `haproxy.py` is one sequential
loop: an error of Consul ends it, a failed start of HAProxy is not repeated
before the set of services changes again, and a crash of HAProxy goes
unnoticed. The accounts of `web/web4` have the races of `Accounts`.

The other parts of the repository are listed in section 1.
