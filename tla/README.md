# SGS server: specifications, model checking and proofs

This directory holds TLA+ specifications of the SGS game server, the TLC
configurations that check them and the TLAPS proofs of their main theorems.
Everything is translated from the C++ sources under `src/`; paths below are
relative to that directory. `PROJECT.json` maps each definition to its lines.

Contents: 1 the system, 2 the plan, 3 the modules and the code, 4 the runs,
5 bounds, 6 fairness, 7 proofs, 8 where code and documentation disagree,
9 what is not modelled.

## 1. The system

A game is a set of *locations*, each a text kept by a *logic library* (C++ or
Lua) while it is loaded and by one row of a database while it is not. A location
with a number for a name is a *gamestate*, the state of one player. A game server
process runs several *groups*; a group is one thread with its own logic library,
and at any time at most one group should hold a given location.

| Component | State it keeps | Operations | Talks to |
|---|---|---|---|
| Location database queue (`server_game/gserver_local.cpp`, `ggamestatedb_worker_thread.cpp`) | per location: read and write tasks, the ids of the running ones, four cached deadlines, times of the last operations; per group: results not taken, `write_locations_deadline` | AddLocationDBTask, the worker cycle (expire, pick, run, answer), taking results | groups (shared memory under `mtx_locationdb_tasks`), MySQL or DynamoDB |
| MySQL backend (`ggamestatedb_mysql.cpp`) | which locations are known to have a row (`multipart_locations_total_parts`) | load, load ids, write, delete | the `data_*_blob` tables |
| Logic engine (`glogic_engine*.cpp`) | a status record for each loaded location, a trigger for each task under way | messages, triggers, saving, erasing, closing | its group, the queue, the logic library |
| Logic library and upcalls (`glogic_engine_cpp.cpp`, `_lua.cpp`, `_upcalls.cpp`) | the contents of the loaded locations | `on_*` callbacks; upcalls create, flush, delete, release a location or ask for ids | the logic engine |
| Group (`ggroup*.cpp`) | `status`, assigned locations, heartbeat times, messages, players | the thread's loop, the job of every second, closing, urgent release, reanimation | node balancer (tickets), game server main thread |
| Messages between locations (`ggroup_message.cpp`) | outgoing and incoming queues, cache of group addresses | send, look up, expire, move to another group | groups, node balancer |
| Game players (`gplayer*.cpp`) | connection, login state, location | login, transfer to another location, closing | access service, groups |
| Node balancer (`server_stats/gnodebalancermanager*.cpp`) | copy of the groups table; rows that assign locations to groups | heartbeat, assign, release, dead groups | groups, SQL database, other balancers |
| Tickets (`server_common/gticket*.cpp`) | tickets to send, tickets sent and not acknowledged, the next number | send, acknowledge, send again after a reconnection, expire | all services |
| Access service (`server_stats/gaccessmanager*.cpp`) | a multimap of instances: who plays where | register, unregister, the list of a connecting group, sessions | game servers, SQL |
| Global info service (`server_stats/gglobalinfomanager*.cpp`) | instances of players, lists of friends and buddies with their reverses, listeners, changes that wait for them, leaderboard requests | register and unregister instances and listeners, replace lists, send what waits every five seconds | access service, groups, cache, leaderboard service |
| HTTP workers, cache, cenzor, flash policy, leaderboard, slow SQL | queues of requests | request and answer | external services |

What is hard:

* **Concurrency.** Groups and workers share the queue. A worker holds the lock
  while it picks and while it answers, and not while the statement runs.
* **Ordering.** One operation answers many tasks; a newer write stands for the
  older ones; an answer reaches an engine that has changed since it asked.
* **Failure.** Statements are refused, replies are lost after the statement ran,
  a failed SELECT looks like a missing row, a Lua handler throws, a heartbeat is
  not confirmed and the group must let go of everything in time.
* **Messages.** Heartbeats, releases, tickets and answers travel over connections
  that end at one side before the other; what was sent is sent again, or a newer
  message overtakes it over another way.
* **Time.** Each task has a deadline after which it is given up, each group a
  deadline after which it may not write, and failed operations are throttled.

What makes each component correct:

* *Queue:* one operation on a location at a time; every task answered exactly
  once, and at last; cached deadlines equal to those of the queue; priority
  first; an answer that agrees with the row; contents that never go back.
* *Engine:* the library and the status map agree; nothing is waited for in vain;
  what is taken for saved is saved; changes are saved before a location is
  thrown out.
* *Group:* a location is let go only when no write of it is left; a group
  without a heartbeat stops whatever happens; a stopped group takes nothing on.
* *Balancer and lease:* what a group holds and may write is assigned to it;
  no location goes from one group to another without being freed; only groups
  known to be ready are picked.
* *Messages between locations:* none disappears unlogged, none is in two places,
  those for one location keep their order, none waits for an answer nobody owes.
* *Tickets:* the numbers of a client increase over every retransmission.
* *Access service:* every connected player has an instance or soon gets one.
* *Global info:* its instances are those of the access service; what the logic of a
  location was sent about a player's friends, with what waits, is what the service
  knows; no leaderboard request is left behind.

## 2. The plan

The path of a location's content - library, engine, queue, worker, row, and back -
is where the server can lose a player's game, so it came first. Next come the
parts that decide which group holds a location, and the messages between them.

| | Module | Subject | State |
|---|---|---|---|
| 1 | `LocationDB` | the queue with its workers and the MySQL backend | done |
| 2 | `LocationDBProofs` | theorems about it | seven theorems, every safety property |
| 3 | `LocationStore`, `LocationDBRefinement`, `LocationDBRefinementProofs` | what the queue promises to a group, and that it keeps the promise | done, proved |
| 4 | `LogicEngine`, `LogicEngineProofs` | group and engine on top of that promise | done, without the move to a reloaded logic; six theorems, every safety property |
| 5 | `LocationLease` | groups, balancers, heartbeats, assignment, over one database | done, without closing |
| 6 | `LocationLeaseProofs` | theorems about it | five theorems, every property |
| 7 | `Tickets`, `TicketsProofs` | the client's side of reliable tickets; what its operations keep | done, proved |
| 8 | `Registration`, `RegistrationProofs` | the players of a group in the access service, over `Tickets` | done, three theorems, every safety property |
| 9 | `LogicMessages`, `LogicMessagesProofs` | messages between locations, over `Tickets` | done, without system and console messages; five theorems, every property |
| 10 | `GlobalInfo` | online friends and leaderboard requests, with the access service | done |
| 11 | `GlobalInfoProofs` | theorems about it | four theorems, every property |

How they compose:

* `LogicEngine` EXTENDS `LocationStore`: the engine's actions call `NewTask` and the
  queue's steps are the store's, so what is checked of the engine rests on
  `LocationDBRefinement` and not on an assumption.
* `Registration` and `LogicMessages` EXTEND `Tickets`, whose operations are functions
  from a client to a client: each puts a client at one end of its own connections.
* `GlobalInfo` and `Registration` are two views of the access service: there the
  instances come from the groups, here they go on to the global info service.
* `LocationLease` is the environment of `LogicEngine` in detail: the latter's
  `HeartbeatConfirmed`, `ReleaseConfirmed` and `WriteDeadlinePasses` are what
  `ReceiveBeat`, `ReceiveRelease` and `Tick` do there. The two are not in one model.

Every safety invariant and action property of the passing runs is a theorem (section
7). Module to come: `LogicReload`, the move of locations to a reloaded logic.

## 3. The modules and the code

### LocationDB

A task is `SLocationDBTask`. `tasks[l]` holds `tasks_read` and `tasks_write` of the
location, `min_deadline[l]` the four cached deadlines in the order of the passes
of `GetLocationDBTaskToRun`, `running[l]` the two `*_task_running_taskid`. The
content of a write is named after the task that carries it, so a row tells which
task put it there.

| Action | Code |
|---|---|
| `AddLocationDBTask` | `GLogicEngine::AddLocationDBTaskRead`/`Write` down to `GServerGame::AddLocationDBTask` |
| `ClearExpiredDBTasks` | the function of that name, with the dropping of structures unused for ten minutes |
| `GetLocationDBTaskToRun` | the four passes, throttling, the choice of the newest task of the location with the earliest deadline |
| `CheckWriteDeadline` | the head of the write branch of `ProcessLocationDBTask`, and of `WriteLocationToDatabaseMySQL` for inserts |
| `RunDatabaseOperation` | the statement itself, without the lock |
| `ProcessLocationDBTaskResult` | the function of that name: covered tasks, results, deadlines |
| `ProcessLocationDBTaskResults` | the group takes its vector of results |
| `ConfirmHeartbeat` | the write deadline of a group moves |
| `Tick` | the clock that the main thread sets |

A worker goes through `clear`, `pick`, `run`, `query`, `done`. `run` and `query` are
two steps because the write deadline may pass, or be moved, between the check
and the statement. The statement is one step: the row and the parts entry of a
location are touched only by the operation that runs on it, which
`OneOperationPerLocation` shows.

Throttling is the age of the last operation: none, within this second (always
throttled) or earlier (throttled or not: the delay is random). `Selectable` uses of
the delays only that the delay of a priority pass is never longer than that of
the ordinary pass of the same kind.

`attempted` is a history field of tasks and results: it records whether the
operation of the task was ever tried, for `DoneMeansWritten`; no guard reads it.

### LocationStore and LocationDBRefinement

The promise: tasks wait, one operation at a time is performed on a location,
answers say what it did and are kept until taken, a task may be given up unless
an operation that may answer it is under way. There are no workers, passes,
clock or deadlines. The refinement mapping takes the operation of a location
from the worker in `done`, and drops what the store does not know.

### LogicEngine

`status_map` holds `SLocationStatus` of each loaded location: `accessed` and
`written` stand for "`last_access` + the caching period" and "`last_write` + the
write delay are not over", and `Age` ends them. `script` is what the library
holds. `inbox` is the vector of results that `ProcessLocationDBTaskResults` took and
executes one by one, in the order in which they came; `before` is that order, as pairs
of task ids. `left_behind` is a history variable: the locations that were let go while
a write of theirs was not answered. No guard reads it; `ConfirmedIsRow` and
`NoWriteAfterRelease` are stated with it.

A job of the group thread goes through several locations and every callback may
make upcalls, all within one pass of the loop and without another thread
looking at the engine. It is one action, written as a function from an engine (a
record, `Here`) to the set of engines it may leave; `Become` installs one of them.

| Action | Code |
|---|---|
| `IntervalSecond` | `GGroup::IntervalSecond`: save and erase, lost heartbeat, closing (`ReleaseGently`, `Transfer`) or `Reanimate` |
| `WaitForLocationsFlush` | one turn of its loop, and what follows the loop |
| `TakeResults`, `ExecuteTrigger` | `ProcessLocationDBTaskResults`, `ExecuteLocationDBTriggerRead`/`Write` |
| `ReceiveMessage`, `ConnectPlayer`, `DisconnectPlayer`, `LogicCallback` | the `Process*` functions behind the incoming queue, `RegisterLogic`, `PlayerGameDelete`, clock ticks |
| `ReleaseConfirmed`, `HeartbeatConfirmed`, `WriteDeadlinePasses` | the balancer's answers and the write deadline |
| `PrepareToClose`, `Age` | the server is told to close; time passes |
| `Queue` | the steps of `LocationStore` |

The logic is free: a handler may change its location before and after its
upcall, may fail (Lua), may refuse a content, may decline to have a plain
location saved. The getter of a C++ library may throw for the locations of `Throws`:
the engine swallows the exception and writes the content it did not get, an empty
one (`Got`). One thing is taken from the interface: a logic changes a gamestate
only in a handler that reports the change.

`EGS_Releasing_Urgent` and `EGS_Releasing_Urgent_Before_Shutdown` are one state
here; they differ in what the balancer is told.

### LocationLease

`rtm_locations[l]` is the group in the valid row of a location, `rtm_group_heartbeat[g]`
the last heartbeat in the table; `game_groups`, `game_groups_ready` and
`potentially_dead_game_groups` are a balancer's copies. `links[g]` are the connections
of a group, only the last of which is open; each holds what its balancer has not
read. `granted` are the answers "location l is at group g" on their way to the
main thread of a game server, which then passes a player on. `work[b]` is what a
balancer has begun: it is one thread, but other balancers and the groups go on
between its SELECT and its transaction, and between reading the table and freeing
each dead group.

| Action | Code |
|---|---|
| `SendHeartbeat`, `ReleaseAgain` | `GGroup::IntervalSeconds_5`, `IntervalMinute` |
| `ReceiveBeat`, `ReceiveRelease` | the two responses in `GGroup::ProcessInternalMessage` |
| `Expire`, `Stop`, `Reanimate` | the heartbeat branch of `GGroup::IntervalSecond`, before and after the flush; `GGroup::Reanimate`, which may follow within the same second |
| `Unload` | a location written, thrown out and released |
| `Register` | `GGroupManager::RegisterLogic`, `GGroup::AssignLocation` |
| `Reconnect`, `Crash`, `Restart` | a new connection with its first heartbeat; the process ends and starts |
| `ProcessGroupStatusUpdate`, `ReleaseLocation` | the functions of the balancer of that name |
| `AnswerValid`, `PickReadyGroup`, `AssignGroup` | the steps of `GetLocationAddress` |
| `ReloadGroups`, `FreeDeadGroup` | `GetGroupsInfoFromSQL` |

Each statement of a balancer may fail, with or without effect (`Failing`).
`NoDoubleAssignment` needs several groups to mean anything, more than TLC can
take in; it is proved, and so is that no location has two holders.

### Tickets

A client (`GTicketInternalClient`) is a record of the tickets to send, the tickets
sent, and the next number. `order` is a history field, the number a ticket had
first. Deadlines are the caller's choice. `PreProcessMessage` is the heart: the
acknowledgement of a ticket that is not the oldest tells that the older ones were
lost with an earlier connection; each is dropped or sent again under a new number.

### Registration

| Action | Code |
|---|---|
| `ServicesRegister`, `ServicesUnregister` | the functions of `GPlayerGame` |
| `Connect`, `CloseConnection`, `Accept` | `GSocketInternalClient`, and `IGMI_ACCEPT` in `GGroup::ProcessInternalMessage` with the list of players |
| `Flush`, `Acknowledge` | the client's tickets |
| `Read` | `GAccessManager`: connect, `IGMI_PLAYERS`, `RegisterPlayer`, `UnregisterPlayer` |
| `UnregisterLogic`, `Restart` | the service sees a connection end; it starts anew |

A player is one stay, with its own RID. The two ends of a connection see its end
at different times: `open` at the group, `served` at the service.

### LogicMessages

Every group is alone on its server, and the messages are those of one group. A
message goes from `new_outgoing` to `outgoing` (waiting for an address) to a ticket,
over the connection to `transfer` and `incoming` of the other group, and perhaps
by `back` and a reply to the sender again. `handled`, `logged` and `lost` tell what
became of it; no guard reads them.

| Action | Code |
|---|---|
| `AddOutgoing` | `AddOutgoingLogicMessage` |
| `IntervalMSecond` | `ProcessLogicMessagesTransferQueue`, `ProcessIncomingLogicMessages`, `ProcessOutgoingLogicMessages`, with the balancer's part of the answer |
| `AddressResponse`, `LoseAnswer` | `IGMIT_LOCATION_ADDRESS_RESPONSE`; the connection to the balancer ends |
| `Flush`, `Acknowledge`, `DropDueTickets`, `CloseIdle` | tickets, with `DroppedTicketCallback` |
| `Receive`, `SendBack`, `BadAddress` | `ProcessTargetMessageGroupConnection`, group 0's replies, `ProcessTargetMessageGroupConnectionReplies` |
| `ReleaseLocation`, `ForgetAddress`, `CloseConnection` | what goes stale |
| `Stop`, `Reanimate` | `DropAllPendingLogicMessages` at the end of the urgent release; `GGroup::Reanimate` |

A bad-address reply makes the sender forget the address only if it names the group
that returned the message (`target` of a `Reply`). Group 0 replies in the name of that
group; the main thread of a server whose group is stopped names none, so the address
stays, and the message goes to the stopped group again (section 8).

The balancer answers at once, its answers may take their time or be lost, a
release reaches it at once, and the handshake of a connection is part of `Flush`.

### GlobalInfo

`online` is the access service's multimap, seen through `SPlayerInstance`: a user in
a location, so that two stays of a user there are equal. `link` is the connection
between the two services: `named` once `IGMI_CONNECT` is read (from then on the
access service notifies it), `out` and `in` what each has not read. `social` and
`buddies` are sets of pairs with their reverses `*_rev`. A listener is a socket and a
RID; its user has an entry in `known`, and in `informed` when the cache has told its
friends. `pending[u][i]` is the one change of instance i that waits for u:
`UpdateOnlineFriend` replaces an earlier one. `shown[l]` is not a variable of the
service: it is what the messages sent to l add up to.

| Action | Code |
|---|---|
| `RegisterListeners`, `UnregisterListeners` | `RegisterListener`, `UnregisterListener`, `UnregisterAllListeners` |
| `RegisterBuddies`, `UpdateSocialFriends`, `ClearExpiredData`, `WritePendingUpdates` | the functions of that name, with `WriteOnlineFriends` and `EraseFromFriendsLists` |
| `RegisterInstance`, `UnregisterInstance`, `Accept` | the branches of `ProcessInternalMessage` |
| `LeaderboardRequest`, `LeaderboardConnection` | `IGMITIC_LEADERBOARD_*`, `ProcessPendingLeaderboardRequests` and the connection |
| `RegisterPlayer`, `UnregisterPlayer`, `UnregisterAllInstances`, `AccessReads` | the access service, with `NotifyGlobalInfoManagerAboutInstance` |
| `Connect`, `LoseAccess`, `RestartAccess`, `RestartGlobalInfo` | the connection and the two processes |

What groups, cache and leaderboard service send is free: any lists, for any users,
at any time, in any order. `reentered` is a history variable for `InstancesAgree`.

## 4. The runs

`tlc -workers 2 -config X.cfg M`. Passing runs:

| Run | Module | Shows |
|---|---|---|
| `LocationDB_queue` | `MCLocationDB` | types; one operation per location; each trigger has exactly one task or answer; cached deadlines are those of the queue; priority goes first; what a task is told was read, written or deleted is what the row holds at that moment; contents never go back |
| `LocationDB_refinement` | `LocationDBRefinement` | every task is answered and its trigger executed, with two locations competing for two workers; the queue implements `LocationStore`, lost replies included |
| `LogicEngine_saved` | `MCLogicEngine` | a gamestate and a plain location of a C++ logic: types, library and status map agree, no write waited for in vain, confirmed content is the row, no write left behind by a release but in the ways of section 8; the getter of the plain location may throw |
| `LogicEngine_script` | `MCLogicEngine` | a Lua gamestate with all failures: the same agreement, and the urgent release ends |
| `LogicEngine_location` | `MCLogicEngine` | a plain location with all upcalls but release, and all failures, a throwing getter included; a stopped group assigns nothing |
| `LocationLease_safe` | `MCLocationLease` | a group that crashes, restarts, stops, starts again and changes its balancer, two balancers whose statements fail: what the group holds and may write is its own; the list of ready groups agrees with the map |
| `Registration_safe` | `MCRegistration` | two players come and go while connection and service fail: each is registered or about to be, and is at last; ticket numbers increase |
| `LogicMessages_safe` | `MCLogicMessages` | no message disappears, is copied, overtakes another for its location or waits in vain, while locations move and connections end, or a group stops |
| `GlobalInfo_safe` | `MCGlobalInfo` | what the logic was sent about friends is what the service knows; the instances agree with the access service, except for players who came again before their earlier stay was over; leaderboard requests go out |

Runs that end in a counterexample: `LocationDB_override`, `LogicEngine_dirty`,
`LocationLease_held` (section 8).

Each property of a passing run is broken by a mutant, a changed definition kept
beside the original under a comment that begins with "Mutant".

Constants that choose between failures a property is about:

* `LostReply`: a statement may run although its caller is told that it failed.
  `AnswersAgreeWithDatabase`, `NewestContentStays` and `ConfirmedIsRow` are checked
  without it, since after a lost DELETE the server UPDATEs no row and takes that
  for success; the refinement and the other two engine runs have it, and the
  counterexamples do not need it. `NewestContentStays` also leaves out gamestates
  that a library may create (`WrittenInOrder`, section 8).
* `Throws`: the locations whose content a C++ library may fail to give. It is the plain
  location in `LogicEngine_saved` and `LogicEngine_location`, and none in the other two
  runs: a Lua getter that fails is told from a content. `NoWriteAfterRelease` excepts the
  gamestates of `Throws`, so the gamestate of `LogicEngine_saved` is not one of them; with
  `Throws = {l1, l2}` that run gives no violation either (636,243 states). The
  proofs are for any `Throws`.
* `Healthy`: reads succeed and heartbeats are confirmed in time. `ConfirmedIsRow`
  needs it because a failed SELECT is reported as an empty location; writes fail
  in every run.
* `Prompt` of `LocationLease`. `HeldIsAssigned` is true only if nothing overtakes a
  release, and the code has nothing that sees to it. `Prompt` states what has to
  hold: an answer of the balancer is used only while the row still names the
  group, no release of the location is under way and the group is not
  Initializing; nothing unread is left on a connection that was replaced; a
  balancer handles no heartbeat of a group whose locations it or another is
  freeing; a group starts over only when everything it has sent is read and
  answered (`Settled`); a group's seconds and its flush are on time.
  `LocationLease_held` is the same system without them.
* `Prompt` of `Registration`: the service sees the end of a connection before the
  group has a new one. Without it the end of the old connection
  (`UnregisterAllInstances`, by group and not by connection) erases the players
  registered over the new one, and `EveryPlayerIsRegistered` fails.

## 5. Bounds

* `MaxTask`: tasks a group issues in a behaviour, 2 or 3. Two tasks of each of
  two groups on one location already give a running task, one that covers it,
  one that arrives meanwhile and one of another group. In the engine a load and a
  save are two tasks; `LogicEngine_dirty` has three. The constants of `LogicEngine_saved`
  changed to one location, two contents and three tasks, or to one gamestate without
  messages, two contents and four tasks (4.6 million states), give no violation either.
  `LogicEngine_location` leaves release to `LogicEngine_saved`; with it there are 1,063,124
  states and no violation.
* `MaxTime` of `LocationDB`: 2 or 3 instants. A task asked for at 1 expires at 2,
  before, while and after an operation runs; a write deadline of `now + Lease` is
  passed or not. `Patience` is the allowance of a task, `Lease` that of a heartbeat.
* `MaxContent`: the logic gives a location 1 or 2 contents beside the row of an
  earlier run, enough to tell "changed" from "saved" and "changed again".
* A location has players or not, and a handler makes at most one upcall and
  changes the location once before and once after it; a sequence of handlers
  gives the longer combinations.
* `LocationLease`: `Interval` 2 stands for 60 seconds, `Margin` 1 for 5, `Grace` 0 for
  15; the clock starts at 5 and ends at 9 (`MaxTime`), one whole lease: a heartbeat
  can be missed, the group dies, its rows are freed and given out again. The
  assumption asks what the code's numbers satisfy and the proof needs: a late
  heartbeat is less than a lease late (`Grace + 1 < Interval`), and writing ends
  before the rows are freed (`0 < Margin`), else the last heartbeat of a dead group
  revives it after its rows are gone. One
  group, one location, two balancers; at most two messages on a connection
  (`MaxQueue`; with three, 7 million states, `HeldIsAssigned` holds as well), one connection with something unread (`MaxLinks`), two in
  `LocationLease_held`. A reload of the groups table that fails is in the model
  and not in this instance.
* `Registration`: two players, three connections (`MaxConnects`), the last of which
  stays. `OldLoop`, 3 in the code, is 1: a ticket is given up after its second
  transmission, so that the case happens within the bound.
* `LogicMessages`: three messages, for l1, l2 and l1 again; two groups. At most two
  mishaps in a behaviour (a release, a forgotten address, a passed deadline, an
  ended connection, a lost answer, an idle client closed), or one group stopped
  while no more than one message is queued (`MaxPending`). Two mishaps give a stale
  address with a lost connection, and a retransmission with a passed deadline. A stopped
  group answers no ticket with a number above 2 (`MaxNumber`), so a message comes back
  from it, goes there again under the next number and comes back again; with 3, 4 and 5
  (744 thousand states) there is no violation either.
* `GlobalInfo`: a player with two stays and a friend with one location, up to two
  equal instances (`MaxStays`), one socket, two connections to the access service
  (`MaxConnects`), no player comes or goes while two messages about instances are
  unread (`MaxWire`), two times of a list (`MaxUpdated`), one waiting request of a
  user (`MaxRequests`). The proofs have none of these bounds.
* The workers and the balancers are symmetric in the safety runs. The liveness
  runs use no symmetry.
* `ConfirmHeartbeat` is unbounded, and so is the number of group seconds.

When the task ids are used up the model issues no further task; it does not
stop, and all properties go on being checked. `LocationLease`, `Registration` and
`LogicMessages` do stop, at the end of the clock or when all is said; their runs
do not look for deadlock.

## 6. Fairness

`LocationDB!FairSpec`: weak fairness of each worker's step (the thread loops for
ever), of each group taking its results (in every pass of its loop) and of the
clock up to `MaxTime`. Nothing forces a heartbeat to be confirmed, a statement to
succeed or a task to be issued.

`LogicEngine!FairSpec`: weak fairness of the group's loop in
`WaitForLocationsFlush` and of taking and executing results; the write deadline
passes when no heartbeat moves it. During the urgent release the group asks for no new heartbeat, so only
the few confirmations already under way arrive; the last conjunct says that they
end. Nothing is assumed of the database: answers may never come.

`Registration!FairSpec`: weak fairness of the poll loops of both servers - connect,
read what has arrived, send queued tickets, notice that the other end has closed.
That the last of `MaxConnects` connections stays is the bound's doing; without some
connection that stays nobody could promise that a player gets registered.

`LocationLease`, `LogicMessages` and `GlobalInfo` state safety only.

## 7. Proofs

`tlapm M.tla` for each `*Proofs` module. `LocationDBRefinementProofs` EXTENDS
`LocationDBProofs`; `RegistrationProofs` and `LogicMessagesProofs` EXTEND
`TicketsProofs`.

### LocationDB

The theorems hold for any sets of groups, locations and workers, any triggers,
patience, lease and bounds, under `ConstantsAssumption` only (TLC evaluates it in every
LocationDB run), and two of them where a statement that is reported as failed has
not run (`~LostReply`, section 4).

* `TypeCorrect`: `Spec => []TypeOK`. Inductive as it stands, since it ties the
  task held by a worker to the worker's program counter and each queued task to
  its location. One lemma per action; `AddResultsType` for the override of
  answers; `LeastNatural` (the order of the naturals is
  well-founded) gives the earliest deadline of a set, so that the `CHOOSE` of
  `MinDeadline` denotes a task and a cached deadline is a number.
* `OneOperation`: `Spec => []OneOperationPerLocation`. "No two workers on one
  location" is not inductive: `GetLocationDBTaskToRun` looks at the
  `*_task_running_taskid` fields and not at the workers. The invariant says
  that the fields of a location are set exactly while a worker is busy with
  it, to the id and in the kind of its task, and that the task is still in the
  queue. The step that matters is `ClearExpiredDBTasks`: it must neither expire a
  task being run (reads are held back while any read runs, writes up to the id that
  runs) nor drop the structure of a busy location.
* `OneTaskPerTrigger`: `Spec => []EveryTriggerHasOneTask`. It uses the previous
  two. Tasks of one group have different ids because each is below the
  group's next id; expiry and answering move ids from the queue to the
  results, and the override keeps the id of the answer it changes.

* `CachedDeadlines`: `Spec => []DeadlinesMatchQueue`. In the cache 0 means "no task",
  so the invariant adds that no queued task has the deadline 0. Adding a task
  compares one number (`MinDeadlineOfOneMore`), everything else looks at the queue again.
* `PriorityFirst`: `Spec => PriorityGoesFirst`. From the cache: the first pass that finds
  a deadline finds a task (`PickedTask`), and a pass without priority comes to a
  location only if the cache of the pass before is empty or throttled, which the pass
  with priority is never longer.
* `AnswersTrue`: `Spec => AnswersAgreeWithDatabase`, if `~LostReply`. The invariant
  `DatabaseInv` says of each worker that has an outcome to report that the outcome
  agrees with the row, and that the parts entry tells whether there is a row
  (otherwise an UPDATE of no row passes for a success). It survives what other workers
  do because they are at other locations (`OneOperation`).
* `ContentNeverGoesBack`: `Spec => NewestContentStays`, if `~LostReply`. What must not
  happen is that an older write waits when a newer one is in the row. `RowNewest` says
  so, except for the moment between the statement and its answer, which takes the
  older ones out of the queue (`AnsweredSoon`). An insert takes no write with it;
  `InsertLast` says that none is there, because writes go before inserts - the one
  place where a property of the picking order carries a property of the data.

### The store

* `ImplementsStore`: `Spec => KeepsStorePromise`, with or without lost replies, also
  under `NoTaskAssumption` (the value that means "no task" is not an operation). Every
  step of the queue is a step of the store or leaves it alone. `RunDatabaseOperation`
  is the store's "perform" (`PerformStep`, `StatementStep`: each way the statement may
  end is among the outcomes the store allows, and the row changes as the store says);
  `ClearExpiredDBTasks` gives tasks up (`ExpiredMayExpire`: none that an operation under way may
  answer); `ProcessLocationDBTaskResult` answers the operation with all the tasks it
  covers (`CoveredAnswered`, `WaitingWithout`). `AddedAnswers` shows that the vector of
  results with its override is the store's set of answers. The operation of a
  location is a `CHOOSE` among workers; `OneOperation` makes it the only one. That an
  UPDATE finds a row is part of the promise only without lost replies (`RowsAreKnown`).

### LogicEngine

For any locations and contents, finitely many locations, a C++ or a Lua logic with
any upcalls, and with all the failures, under `EngineAssumption` only; the two
theorems about contents under `Calm` and `NoOperationAssumption`, see below.

* `EngineInvAlways`: `Spec => []EngineInv`, from which the others follow. The jobs and
  callbacks are functions from an engine to the engines they may leave, nested
  several deep: the urgent release goes through the locations, tells the logic, which
  makes an upcall, which asks for a write, which is answered on the spot because
  nothing has changed. So the invariant is stated of an engine and not of the
  state: `Good(e, R, skipped)`, where R are the results not executed yet and `skipped`
  the task whose trigger is being executed. Each function has a lemma that it keeps
  `Good`, and an action only has to name the function it applies.
  `Good` adds to the properties that the triggers have one task each, below the next
  id, and that a result is of the kind its trigger expects (`Fits`): the code
  chooses between the two branches of `ProcessLocationDBTaskResults` by the result.
* The jobs go through the locations with a fold. `Goes` is the function the fold
  chooses; `GoesThrough` shows that there is one, by the number of locations, and
  `EachLocationStays` carries a set of engines along it in the same way:
  what no location leads out of, the job does not leave.
* `AnsweredOK` stands for all the steps of the queue that take tasks away: each of them
  is answered, by a result of its own kind, also when the answer of another replaces
  one that was not taken (`DeliverOK`).
* `ScriptMatchesStatusAlways`, `WriteTasksWillBeAnsweredAlways`, `StoppedIsUnassignedAlways`:
  `Spec => []` each of them, from `EngineInv`.
* `LogicEngineTypeCorrect`: `Spec => []TypeOK`, with the bound on the task ids. That
  `write_tasks` holds ids within the bound needs the triggers.

* `ConfirmedIsRowAlways` and `NoWriteAfterReleaseAlways`: `Spec => []ConfirmedIsRow` and
  `Spec => NoWriteAfterRelease`, if `Calm`: reads succeed, heartbeats are confirmed in
  time, no reply is lost, and the library makes no upcalls but flush and release (the
  constants of `LogicEngine_saved`; for any locations, contents and logic otherwise).
  Each condition is one the code needs: section 4 says why for the first ones, and with
  any of the other three upcalls TLC finds a counterexample for a gamestate: an insert or
  a delete does not make it dirty, so it is let go while that waits, and the answer
  to a request for ids may load it (section 8).

  The invariant is `Saved`: `EngineInv` with `SavedInv`. It follows a content from the
  engine to the row and back.
  `OperationsTrue` speaks of the operation under way. `Fresh` says which contents may be
  taken for confirmed: when no write has been answered, the row; when one is being
  written, anything, since its answer will confirm it; when writes have been
  answered and wait to be executed, any, as long as the answer that comes last
  has the content of the row - several may wait, the answers of the last turn and
  those of this one. That is what `before`, the order of the results, is for, and
  `ResultsOrdered` says it is one. `ReadsTrue` says that an old answer of a read finds its
  location loaded, and is then ignored.

  `Safe(e, R, c, hot, skipped)` is the part about the engine, again a property of an
  engine that each function keeps. `c` is what the step may count on (`Steps`): the rows, the
  tasks of the queue, who may be let go. `hot` is the gamestates whose handler is running,
  which are changed before they are dirty. Its central parts are `Awaited` - each write
  under way is awaited by its location or was left behind - and `RecordSafe`: a
  clean gamestate that waits for a write has changed since, unless its getter may throw:
  a flush of it then waits for a write of nothing. These are the
  exceptions in `NoWriteAfterRelease`. `Awaited` gives that property at the step which
  lets a location go (`OnlyLeavers`), and `ConfirmedIsRow` because where nothing is awaited no
  write is answered, so `Fresh` leaves the row alone (`WriterLoaded`).
  `NoOperationAssumption` only tells "no operation" from an operation.

TLC has checked `EngineInv` on the instances of the three passing runs before it was
proved, and `SavedInv` on the instance of `LogicEngine_saved` and on ones with a single
gamestate or plain location and up to four tasks.

### LocationLease

The first three theorems hold for any groups, balancers and locations, with or without
`Prompt`, whatever may fail; the last two for `Prompt`. `LeaseAssumption` is used where
times count.

* `LeaseTypeCorrect`: `Spec => []TypeOK`. Inductive with one addition: the connection
  of a group that is up exists (`TypeInv`), since messages are added to the last one.
* `HeldIsAssignedAlways`: `Spec => []HeldIsAssigned`, and `OneHolder`: no two groups hold
  the same location. The property speaks of a moment; what makes it true is a
  chain of times. The invariant `HeldInv` has five parts for each group: one connection
  at most (`OneLink`); the last confirmed heartbeat is no newer than the one in the
  table, and those under way come in order (`TimesInOrder`); a group in use was
  confirmed less than a lease ago and the table does not call it stopped
  (`LeaseRuns`); what it holds is assigned to it and no release is under way
  (`Holds`); groups being freed are dead (`FreedAreDead`). From the first three a group in
  use is alive for every balancer (`InUseIsAlive`), so nobody frees its rows. Each
  part of `Prompt` is used in exactly the step it is a guard of. TLC has checked
  `HeldInv` on the instance of `LocationLease_safe` before it was proved.
* `ReadyListIsKnown`: `Spec => []ReadyIsKnown`. List and map are changed by
  three actions: a heartbeat changes one group, `PickReadyGroup` drops old ones
  from the list as it marks them stopped, a reload fills both from the same rows.
  The invariant adds only that both have an entry for each balancer.
* `NoStealing`: `Spec => NoDoubleAssignment`. Three actions write `rtm_locations`.
  Two can only free. The third, `AssignGroup`, reads the row again in the
  transaction that writes it, so what another balancer has assigned since stays.

### Tickets

`TicketsProofs` says what each operation of a client does to it, for any data, any stable
sequences and any number of tickets. `ClientOK` is what all keep: types, numbers below
the next one that increase through the tickets sent and then those to send, and
tickets of one stable sequence in the order of their first numbers.

`RollbackTickets` and `Only` (what `SelectSeq` keeps) are folds over sequences, which
the provers cannot unfold. `RollsAlong` and `KeepsAlong` say what a fold is: a chain of
intermediate results, each one step from the one before. `RollbackChain` and
`OnlyChain` find the chain, and `EveryPrefix` (no natural number is the least for which a fact
fails) carries facts along it without an induction theorem. `PreProcessMessageOK` is the
result: whatever number is acknowledged, `ClientOK` holds again, and each ticket
that was waiting still waits, is to be sent again under a new number, is dropped
with a reason, or is the one acknowledged.

### Registration

For any players and bounds, under the assumptions of `Tickets` and `Registration`.

* `RegistrationTypeCorrect` and `NumbersIncreaseAlways`: `Spec => []TypeOK` and
  `Spec => []NumbersIncrease`, from `ClientOK` and the types of the connections.
* `EveryPlayerIsRegisteredAlways`: `Spec => []EveryPlayerIsRegistered`, if the service
  sees the end of a connection before the group's next one (`Prompt`). The step that
  could lose a player is an acknowledgement: it takes tickets away. `LinksPast` says
  that a number on a connection, asked or acknowledged, is used up and no ticket to
  send has it, so what is taken away has been read. `NobodyMissed` adds that under `Prompt` there is
  one connection at most, and follows a player through ticket, connection and instance.

### LogicMessages

For any groups, locations and messages, any number of mishaps.

* `NoMessageVanishesEver`: `Spec => []NoMessageVanishes`. The invariant `MessagesInv`
  counts a message where it would be found if every connection ended now: in a
  queue, a ticket, a reply, or at its end (`Counted`). A request on a connection is
  not counted. Its ticket counts until the acknowledgement is under way
  (`Unconfirmed`), and this is sent in the step in which the other group takes the message.
  `LinkOK` is `LinksPast` again, with the fact that a ticket with the number of a request is
  the request's: the acknowledgement ends the right message.
* `StableSequenceAlways`: `Spec => []StableSequence`, from `ClientOK` of each client.
* `WaitersAreAskedAlways`: `Spec => []WaitersAreAsked`, from the last two parts of the
  invariant, `AllAsked` and `SenderAsked`, with `Fresh`: no message comes into
  a queue as one that has asked. `Sorts` says what a pass over a queue makes of
  it, again as a chain of steps.
* `LogicMessagesTypeCorrect`: `Spec => []TypeOK`.
* `NoMessageIsCopiedAlways`: `Spec => []NoMessageIsCopied`. `MessagesInv` gives the
  message a place; that it is the only one needs more (`CopiesInv`). A message moves
  only if its place is emptied in the same step, so the proof counts nothing: `Holds`
  says of each of the ten kinds of place whether it has the message, `Once` that it is
  there one time, `HeldOnce` that no other place has it; `MessageMoves` shows that a
  step keeps this when at most one place gets the message and then another loses it
  (`Moves`). Each action is shown to be such a step, with lemmas for what it does to a
  sequence (`SortedOnce`, `QueuedOrHere`, `TicketsOnce`, `FirstAcknowledged`). Three
  more parts are needed. `Line`: on a connection nothing has disturbed, the tickets
  that wait, the requests and the acknowledgements are in the same order with the
  same numbers; so an acknowledgement is for the first ticket, and
  `PreProcessMessage` drops none as unconfirmed. `Local`: what a server has of the
  sender came over the connection that is there, so `SendBack` finds the socket.
  `Unsent`: nobody holds what is not sent yet; that is why `LogicMessagesAssumption`
  says that `Messages` names each message once.
  `Undisturbed` may look too strong, but each part is needed: a connection that ends
  makes its tickets go again while their requests may have been read, and a group
  that stops sends back or logs what stays in its queues (section 8). Locations that
  move, stale addresses, lost answers and passed deadlines are all allowed.

TLC has checked `MessagesInv` and `CopiesInv` on the instance of `LogicMessages_safe`
before they were proved.

### GlobalInfo

The theorems hold for any users, locations, sockets, stays and
bounds, under `GlobalInfoAssumption` (each stay and each instance has one user; there are finitely
many instances).

* `ListenersSeeFriendsAlways`: `Spec => []ListenersSeeFriends`. Changes find their
  listeners through the reverse lists, while a full list is made from the lists
  themselves; so the invariant adds that each reverse list is the reverse of its
  list (`ReverseAgrees`), besides types (`Shapes`). `ErasedAgrees` and `AddedAgrees`
  keep that, for `EraseFromFriendsLists` and what is added after it.
  `FullListIsRight` serves every step that sends a full list: it is right for those
  it is sent to, and nothing else has changed for the others. Two lemmas deserve a
  look: `InstanceComes`, where the change that waits and the instance change
  together, and `ListenersCome`, where a new listener gets a full list and the
  others what waits, so that nothing waits for either.
* `RequestsGoOutAlways`: `Spec => []RequestsGoOut`. A request begins to wait only
  while the leaderboard service is away or the friends are unknown, and each event
  that ends one of these looks at all requests it may release.

* `InstancesAgreeAlways`: `Spec => []InstancesAgree`. The invariant follows the handshake:
  from `IGMI_CONNECT` on nobody is shown who is not there, from the end of
  the list on nobody is missed, and before `IGMI_CONNECT` the connection is empty.
  What is on its way is a sequence, and the service's instances when it is read
  depend on the last message about each instance (`After`); `AfterRegisters`,
  `AfterUnregisters`, `AfterAccept` and `AfterHead` say what sending and reading do to that.
  `LeavingAgrees` is where the exception comes from: an instance of which one of two
  equal stays ends is taken away, and is in `reentered`.
* `GlobalInfoTypeCorrect`: `Spec => []TypeOK`, from the invariants of the others.

### What is only model-checked

Liveness, which the prover cannot reach (fairness and ENABLED).

## 8. Where code and documentation disagree

With a counterexample from TLC:

* `LocationDB_override`. Write 2 expires unattempted while write 1 runs. Its
  answer ("expired") waits in the group's vector; write 1 succeeds and
  `AddLocationDBTaskResult` turns the waiting answer into OK. The group takes
  content 2 for written; the row holds content 1.
* `LogicEngine_dirty`. A gamestate changes while a write of it waits. The answer
  of the write clears `dirty` although no other write task waits; the gamestate
  is later thrown out as clean and the change is lost.
* `LocationLease_held`. A balancer's answer "l is at g" is under way; g restarts
  and admits the player while it is Initializing; its own release of "" then
  makes the row invalid, and g gets ready holding a location that may be assigned
  to another group. `RegisterLogic` says that who is let in has a confirmed
  assignment.

Found by TLC while the modules were written, in the models without a run of
their own:

* Two reads of a location are under way. One succeeds and players use the
  location; the other fails and erases it (`glogic_engine_gamestatedb.cpp:206`).
* A location asks for ids and is released before the answer, which then loads the
  location with the list of ids as its content (`:216`).
* A read is answered after the group has stopped. The location is loaded, nothing
  erases it in that state, and `Reanimate`, which wants no loaded location, never
  succeeds (`:216`).
* `DropAllPendingLogicMessages` (`ggroup_message.cpp:747`) sends the incoming messages
  back and logs the outgoing ones, and empties neither queue: one may be handled
  twice, or logged as dropped and delivered. `NoMessageIsCopied` is stated for
  groups that do not stop.
* A lost address answer holds up its location: later messages are marked as
  asked for as long as one waits for it, and no new question is sent (`:514-561`).
* Messages handed to a stopped engine, and bad-address replies over connections
  that have ended, disappear without being logged; `lost` names them.
* A message for a group that has stopped goes there again and again: the reply comes
  from the main thread with a default `GNetTarget` (`ggroup_message.cpp:361-369`), whose
  group is never the cached one (`:416-418`), so the stale address is used for the same
  message and for every later one to the location. It ends when the entry of the cache is
  an hour old (`ggroup_basic.cpp:340`), when another reply or answer names a group, or
  when the message expires, which each return brings nearer by a second
  (`ggroup_message.cpp:365`).
* A ticket dropped for a missed stable sequence or a missing confirmation logs its
  message as dropped although it may have been delivered; one sent again may be
  delivered twice.

* A player who has left may keep an instance in the access service until the
  group's connection ends, in two ways. Who comes while there is no accepted
  connection is in the list of players and in a queued ticket, gets two instances,
  and its unregistration erases one (`ggroup_message.cpp:32`). And when the ticket
  of the registration is lost with a connection, the acknowledgement of the
  unregistration makes the client send it again, after the unregistration
  (`gticket_internal_client.cpp:105`). `gplayer.cpp:31` says that who disconnects is
  removed from the services.
* A player logs in again in the same location: the new stay is registered before the
  old one is closed (`ggroup_manager_registration.cpp:41`). For the global info
  service the two are one instance, and the end of the old stay takes it away
  (`gglobalinfomanager.cpp:168`): friends see the player as offline until its next
  registration. `InstancesAgree` names exactly these players as the ones missed.

Found when a proof did not go through, and confirmed with TLC:

* A group stops and starts over within one second (`ggroup_time.cpp:57-66`, `:163-169`)
  if its heartbeat was confirmed during the flush, in which it still reads the
  balancer's messages (`ggroup_basic.cpp:413-437`). What it sent before it stopped is then
  under way, and as Initializing it takes the answers for those of its new
  beginning (`ggroup_message.cpp:71-105`): it gets ready, takes a location on, and the
  balancer reads the old "stopped" or the old release and frees it.
  `HeldIsAssigned` had been checked with two messages on a connection, where
  this does not fit in; with three TLC finds it. `Settled` excludes it.
* A gamestate that the library creates (`glogic_engine_upcalls.cpp:473`) while a save of it
  waits: the insert has no priority and neither has the save
  (`glogic_engine_gamestatedb.cpp:144`), an insert stands for no write, and so the save
  asked for first may be executed last; the content goes back. `NewestContentStays` is
  stated without such gamestates (`WrittenInOrder`).

Found by TLC with larger bounds than those of the runs, which made `ConfirmedIsRow` and
`NoWriteAfterRelease` say when they hold:

* In `EGS_Transferring` a location that was saved for the close is let go a second later
  (`glogic_engine.cpp:155-173`), and messages still reach it (`ggroup_basic.cpp:501`): the change
  is lost, or a write of it that the logic asks for stays in the queue while the
  location is given back. A second read of the location, asked for before, may then
  load the old row. `ggroup_time.cpp:104` says of this state that no operations on
  locations will be done any more ("Zadne operacje na lokacjach nie beda juz wykonywane").
* A gamestate that `LogicEngine_dirty` marks clean although it has changed may be flushed
  by its logic without becoming dirty again (`glogic_engine_upcalls.cpp:481`); a clean gamestate is
  thrown out without a look at its write tasks (`glogic_engine.cpp:216-248`), and whoever
  loads it next reads the row from before that write. The same happens to a gamestate that
  its logic creates again or deletes, which leaves it clean with a task waiting;
  `LogicEngine_saved` has flush and release only.
* `on_get_gamestate` or `on_get_location` of a C++ library throws: the exception is
  logged, the getter counts as successful, and an empty content is queued for the row
  (`glogic_engine_cpp.cpp:239-250`). When it was a flush of a gamestate that is not dirty,
  the gamestate may also be thrown out before that write is done.

Seen while translating:

* A write refused because of the write deadline is reported as a failed write:
  `ELDBTS_WriteDeadlineReached` reaches no group (`ggamestatedb_worker_thread.cpp:305`).
* A successful insert answers the older inserts of the location too, other groups'
  included, though only one content is in the row (`:461`).
* A successful read answers all reads of the location with its own direction and
  data: a request for ids may get a content and the reverse (`:404`).
* A failed SELECT looks like a location without a row (`ggamestatedb_mysql.cpp:104`);
  the group starts from an empty content and may later write it.
* The address of a dead group is decoded without skipping the group's id, so the
  UPDATE that marks its row as stopped finds no row
  (`gnodebalancermanager_getgroups.cpp:223-228`).
* A group that was READY with a heartbeat of more than 75 seconds at a reload is not
  listed, and its next heartbeats do not list it, since the map has it as READY
  (`gnodebalancermanager.cpp:177`): it gets no location until the next reload.
* On a new connection to the global info service a group sends the buddies of its
  players as it knows them (`ggroup_message.cpp:45`), an empty set included, which
  replaces what another group has registered for the same player.
* The cache is asked for a player's friends once for each registration
  (`gglobalinfomanager.cpp:538`); a question lost with the connection is not asked
  again until the player's next one.

## 9. What is not modelled

* DynamoDB: a second implementation of the same operations on an external service.
* Compression, the splitting of rows and multi-part locations, MySQL reconnection
  as such (its effect, a lost reply, is modelled).
* Old scripting engines of a reloaded logic; HTTP, cache, text and report upcalls.
* The balancer's deprecated groups, its check for an existing blob, and gentle
  closing; the deadline of its reload may be any time.
* In `LocationLease`, two reasons for which a group in `EGS_Ready` counts as busy: its
  scripting engine is not ready (`ggroup_basic.cpp:488`), or it has not bound its sockets
  yet (`gnodebalancermanager.cpp:115`). Such a group gets no new locations and keeps the
  ones it has.
* The queue of a server and the lease in one model: a write that waits in the queue
  while its group stops and is reanimated. Their product is out of TLC's reach.
* System and console messages between groups; players beyond "the location has
  players" and their stay in the access service; logins, bans, sessions and
  the tasks of `TestRegisterPlayer`; the sockets' way between threads.
* HTTP workers: a request is taken out of the queue and run once, and dropped
  without an answer when it waits too long; no state outlives it.
* Of the global info service the times of last connections and the way of a
  leaderboard answer back to its group (by socket id, through a map that may have
  lost it); the cache and the leaderboard service behind it.
* Stats services with little state of their own, network and memory code, console,
  logging, metrics, vendored libraries (most lines of the repository) and assets.
