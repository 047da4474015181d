----------------------------- MODULE LogicEngine -----------------------------
(***************************************************************************)
(* The life of a location in a group: a GGroup with its GLogicEngine       *)
(* (server_game/glogic_engine*.cpp, ggroup_time.cpp, ggroup_basic.cpp) on  *)
(* top of the promise of the location database queue (LocationStore.tla,   *)
(* which LocationDB.tla implements).                                       *)
(*                                                                         *)
(* Messages load a location, the logic library changes it and makes        *)
(* upcalls, periodic jobs save it and let it go, and the answers of the    *)
(* queue execute triggers.  Closing the group flushes what is left.        *)
(*                                                                         *)
(* A job or a callback goes through several locations and may run further  *)
(* callbacks, so it is written as a function from an engine (the record of *)
(* what the group thread owns) to the set of engines it may leave.         *)
(***************************************************************************)
EXTENDS LocationStore, FiniteSetsExt

CONSTANTS
  this,        \* the id of the group, a member of Group
  Lua,         \* is the logic a Lua script?  Otherwise it is a C++ library.
  Upcalls,     \* the upcalls the logic makes
  Throws,      \* the locations whose content the C++ library may fail to give
  Messages,    \* the kinds of message that reach the group
  Healthy,     \* do reads succeed and heartbeats get confirmed in time?
  MaxContent   \* bound: the contents the logic gives to a location

ReadAction == {"logic", "location", "system", "flush", "connect", "disconnect", "ids"}
WriteAction == {"Write_ProcessSystemMessage", "Write_WriteChangedGameState",
                "Write_GroupShutdown", "Write_EraseOldGameState",
                "Write_CreateLocation", "Write_FlushLocation",
                "Write_DeleteLocation"}
Trigger == [taskid : 1..MaxTask, action : ReadAction \cup WriteAction,
            location_ID : Location, creator : Location]

LogicContent == 1..MaxContent
\* What a location may be loaded with; it may be written back unchanged.
LoadedContent == Content \cup {EmptyData, LocationsIds, NoData}
Asked == [group_id : {this}, taskid : 1..MaxTask, location_ID : Location,
          direction : ReadDirections \cup {"Write", "Insert", "Delete"},
          location_data : LoadedContent]

\* accessed and written: last_access + cache_period and last_write +
\* write_delay are not over.
LocationStatus ==
  [dirty : BOOLEAN, error : BOOLEAN, released : BOOLEAN, ready : BOOLEAN,
   write_tasks : SUBSET (1..MaxTask), confirmed : LoadedContent,
   accessed : BOOLEAN, written : BOOLEAN]

\* Releasing_Urgent stands for EGS_Releasing_Urgent_Before_Shutdown, too.
GroupStatus == {"Initializing", "Ready", "Releasing_Gently", "Releasing_Urgent",
                "Transferring", "Stopped"}

ASSUME EngineAssumption ==
  /\ this \in Group
  /\ {Lua, Healthy, LostReply} \subseteq BOOLEAN
  /\ Guest \subseteq Gamestate /\ Gamestate \subseteq Location /\ IsFiniteSet(Location)
  /\ Upcalls \subseteq {"Flush", "Release", "Destroy", "Create", "Ids"}
  /\ Messages \subseteq ReadAction \ {"connect", "disconnect", "ids"}
  \* A Lua script knows nothing of plain locations and of the upcalls.
  /\ Lua => Upcalls = {} /\ Throws = {} /\ Location = Gamestate
  /\ Throws \subseteq Location
  /\ MaxContent \in Nat /\ LogicContent \subseteq Content
  /\ MaxTask \in Nat

\* NoOperation, what a location has when no operation on it is under way, is none.
ASSUME NoOperationAssumption ==
  NoOperation \notin
    [task : [group_id : {this}, taskid : Nat, location_ID : Location,
             direction : ReadDirections \cup {"Write", "Insert", "Delete"},
             location_data : LoadedContent],
     ok : BOOLEAN, location_data : LoadedContent]

VARIABLES
  status_map,          \* the records of the loaded locations
  script,              \* what the logic library holds of them
  locationdb_triggers, \* what to do with the answer of each task
  assigned_locations,  \* the locations the group takes for its own
  seq_locationdb_taskid,
  status,              \* EGroupStatus
  gentle_close_initiated,
  transferring_players,\* transferring_players_deadline is set
  inbox,               \* results taken and not executed yet
  before,              \* of the results not executed: the pairs of ids that came in this order
  closing,             \* IsPreparingToClose()
  deadline_over,       \* now > write_locations_deadline
  players,             \* the locations with connected players
  left_behind          \* history: see LeftBy

engine_vars == <<status_map, script, locationdb_triggers, assigned_locations,
                 seq_locationdb_taskid, status, gentle_close_initiated,
                 transferring_players, left_behind>>
vars == <<store_vars, engine_vars, inbox, before, closing, deadline_over, players>>

-----------------------------------------------------------------------------
(* The engine as a record *)

Here == [status_map |-> status_map, script |-> script,
         triggers |-> locationdb_triggers, assigned |-> assigned_locations,
         seq |-> seq_locationdb_taskid, tasks |-> waiting, status |-> status,
         initiated |-> gentle_close_initiated, transferring |-> transferring_players]

Loaded(e) == DOMAIN e.status_map

\* The locations let go on the way to e while a write of them is not answered;
\* no action reads the history of them.
LeftBy(e) ==
  {l \in Loaded(Here) \ Loaded(e) :
     \E t \in e.triggers : t.location_ID = l /\ t.action \in WriteAction}

\* The group thread leaves the engine e behind; the bound is on the task ids.
Become(e) ==
  /\ e.seq <= MaxTask + 1
  /\ status_map' = e.status_map
  /\ script' = e.script
  /\ locationdb_triggers' = e.triggers
  /\ assigned_locations' = e.assigned
  /\ seq_locationdb_taskid' = e.seq
  /\ waiting' = e.tasks
  /\ status' = e.status
  /\ gentle_close_initiated' = e.initiated
  /\ transferring_players' = e.transferring
  /\ left_behind' = left_behind \cup LeftBy(e)

Without(f, l) == [k \in DOMAIN f \ {l} |-> f[k]]
With(f, l, v) == [k \in DOMAIN f \cup {l} |-> IF k = l THEN v ELSE f[k]]

\* Mutant: the logic library is not told.
EraseStatusOnly(e, l) == [e EXCEPT !.status_map = Without(@, l)]

\* EraseLocation and status_map.erase.
Erase(e, l) == [e EXCEPT !.status_map = Without(@, l), !.script = Without(@, l)]
\* GGroup::ReleaseLocation: the balancer may give the location to a group.
Release(e, l) == [e EXCEPT !.assigned = @ \ {l}]
LetGo(e, l) == Release(Erase(e, l), l)

\* Mutant: a stopped group takes locations, too.
AssignAlways(e, l) == [e EXCEPT !.assigned = @ \cup {l}]

\* GGroup::AssignLocation.
Assign(e, l) ==
  IF e.status = "Stopped" THEN e ELSE [e EXCEPT !.assigned = @ \cup {l}]

CanProcessLogicMessages(e) ==
  e.status \in {"Ready", "Releasing_Gently", "Transferring"}

-----------------------------------------------------------------------------
(* Tasks and triggers *)

NewTask(e, l, direction, data) ==
  [group_id |-> this, taskid |-> e.seq, location_ID |-> l,
   direction |-> direction, location_data |-> data]

\* Mutant: the location that asked is forgotten.
NewTriggerWithoutCreator(e, l, action, creator) ==
  [taskid |-> e.seq, action |-> action, location_ID |-> l, creator |-> NoData]

\* creator: the location whose handler made the upcall.
NewTrigger(e, l, action, creator) ==
  [taskid |-> e.seq, action |-> action, location_ID |-> l, creator |-> creator]
\* The group takes the next task id and remembers trigger t.
Remember(e, t) == [e EXCEPT !.seq = @ + 1, !.triggers = @ \cup {t}]

AddRead(e, l, action) ==
  LET direction == IF action = "ids" THEN "Read_Locations_Ids" ELSE "Read"
  IN [Remember(e, NewTrigger(e, l, action, l)) EXCEPT
        !.tasks = @ \cup {NewTask(e, l, direction, NoData)}]

\* on_flush_location, on_create_location: a logic waits for them to let go.
Notification(e, l) ==
  {e} \cup (IF l \in Loaded(e) /\ "Release" \in Upcalls
            THEN {[e EXCEPT !.status_map[l].released = TRUE]} ELSE {})

\* Mutant: the answered task stays among the write tasks.
ConfirmKeepingTask(s, id, ok, data) ==
  IF ok THEN [s EXCEPT !.dirty = s.write_tasks \ {id} # {}, !.written = TRUE,
                       !.confirmed = data]
        ELSE s

\* Mutant: the content of a failed write is taken for confirmed.
ConfirmFailed(s, id, ok, data) ==
  LET rest == s.write_tasks \ {id}
  IN [s EXCEPT !.write_tasks = rest, !.dirty = IF ok THEN rest # {} ELSE @,
               !.written = @ \/ ok, !.confirmed = data]

\* ExecuteLocationDBTriggerWrite, the status record.
Confirm(s, id, ok, data) ==
  LET rest == s.write_tasks \ {id}
  IN IF ok THEN [s EXCEPT !.write_tasks = rest, !.dirty = rest # {},
                          !.written = TRUE, !.confirmed = data]
           ELSE [s EXCEPT !.write_tasks = rest]

\* ExecuteLocationDBTriggerWrite.
ExecuteTriggerWrite(e, t, ok, data) ==
  LET l == t.location_ID
      loaded == l \in Loaded(e)
      confirmed == [e.status_map EXCEPT ![l] = Confirm(@, t.taskid, ok, data)]
      f == [e EXCEPT !.triggers = @ \ {t},
                     !.status_map = IF loaded THEN confirmed ELSE @]
  IN CASE t.action = "Write_WriteChangedGameState" /\ ~ok /\ loaded ->
            {[f EXCEPT !.status_map[l].error = TRUE]}
       [] t.action = "Write_WriteChangedGameState" /\ ~ok /\ ~loaded ->
            {LetGo(f, l)}
       [] t.action = "Write_CreateLocation" -> Notification(f, t.creator)
       [] t.action = "Write_FlushLocation" -> Notification(f, l)
       [] t.action = "Write_DeleteLocation" /\ loaded ->
            {[f EXCEPT !.status_map[l].released = TRUE]}
       [] t.action = "Write_GroupShutdown" /\ loaded ->
            {[f EXCEPT !.status_map[l].ready = TRUE]}
       [] OTHER -> {f}

\* The queue gets a write task; a loaded location remembers it.
Enqueue(e, l, direction, action, creator, data) ==
  LET waits == [e.status_map EXCEPT ![l].write_tasks = @ \cup {e.seq}]
  IN [Remember(e, NewTrigger(e, l, action, creator)) EXCEPT
        !.tasks = @ \cup {NewTask(e, l, direction, data)},
        !.status_map = IF l \in Loaded(e) THEN waits ELSE @]

\* GetLocationFromScript fails for a gamestate only when the Lua script fails,
\* and for a plain location when the C++ library wants nothing saved.
MayRefuse(l) == IF Lua THEN TRUE ELSE l \notin Gamestate

\* What it gives otherwise: an exception of the C++ library is swallowed, and
\* the content stays empty.
Got(e, l) == {e.script[l]} \cup IF l \in Throws THEN {EmptyData} ELSE {}

\* AddLocationDBTaskWrite with a content of the location: when it is nothing
\* new, the trigger is executed at once.
AddWriteOf(e, l, action, data) ==
  LET t == NewTrigger(e, l, action, l)
      s == e.status_map[l]
  IN IF s.write_tasks = {} /\ data = s.confirmed
     THEN ExecuteTriggerWrite(Remember(e, t), t, TRUE, data)
     ELSE {Enqueue(e, l, "Write", action, l, data)}

\* AddLocationDBTaskWrite for a loaded location, and when there is nothing to
\* write.
AddWrite(e, l, action) ==
  LET t == NewTrigger(e, l, action, l)
      refused == action = "Write_GroupShutdown" /\ l \notin Gamestate
  IN (IF MayRefuse(l) THEN ExecuteTriggerWrite(Remember(e, t), t, refused, NoData)
                      ELSE {})
     \cup UNION {AddWriteOf(e, l, action, data) : data \in Got(e, l)}

-----------------------------------------------------------------------------
(* The logic library *)

\* The upcalls a handler of location l makes: at most one of them.
Upcall(e, l) ==
  LET loaded == l \in Loaded(e)
      when(u) == u \in Upcalls /\ loaded
  IN {e}
     \cup (IF when("Flush") THEN AddWrite(e, l, "Write_FlushLocation") ELSE {})
     \cup (IF when("Release")
           THEN {[e EXCEPT !.status_map[l].released = TRUE]} ELSE {})
     \cup (IF when("Destroy")
           THEN {Enqueue(e, l, "Delete", "Write_DeleteLocation", l, NoData)} ELSE {})
     \cup (IF when("Create")
           THEN {Enqueue(e, k, "Insert", "Write_CreateLocation", l, c) :
                   k \in Location, c \in LogicContent} ELSE {})
     \cup (IF "Ids" \in Upcalls THEN {AddRead(e, l, "ids")} ELSE {})

Changed(e, l) == {e} \cup {[e EXCEPT !.script[l] = c] : c \in LogicContent}

\* A handler may change the location before and after its upcall.
Handler(e, l) == UNION {Changed(f, l) : f \in UNION {Upcall(d, l) : d \in Changed(e, l)}}

\* A callback that cannot report a change: the logic changes no gamestate in it.
Callback(e, l) == IF l \in Gamestate THEN Upcall(e, l) ELSE Handler(e, l)

\* ProcessConnectToLocation: on_connect_player says whether it changed the
\* gamestate.
Connected(e, l) ==
  IF l \in Gamestate
  THEN {[f EXCEPT !.status_map[l].accessed = TRUE] : f \in Upcall(e, l)}
       \cup {[f EXCEPT !.status_map[l].accessed = TRUE, !.status_map[l].dirty = TRUE,
                       !.status_map[l].written = TRUE] : f \in Handler(e, l)}
  ELSE Handler(e, l)

\* ProcessLogicMessage, ProcessSystemMessage and ProcessLocationMessage after
\* the handler: a handler that fails (in Lua) makes the location wait for its
\* release, and every handled message makes it dirty.
Touched(s, failed) ==
  [s EXCEPT !.error = @ \/ failed, !.accessed = TRUE, !.dirty = TRUE,
            !.written = @ \/ ~s.dirty]
MayFail == IF Lua THEN BOOLEAN ELSE {FALSE}
Handled(e, l) ==
  UNION {{[f EXCEPT !.status_map[l] = Touched(@, failed)] : failed \in MayFail} :
           f \in Handler(e, l)}

\* The Process* functions: a message for a location that is not loaded waits
\* for a read.
Process(e, l, kind) ==
  IF ~CanProcessLogicMessages(e) THEN {e}
  ELSE IF l \notin Loaded(e) THEN {AddRead(e, l, kind)}
  ELSE IF e.status_map[l].error THEN {e}
  ELSE CASE kind = "connect" -> Connected(e, l)
         [] kind = "disconnect" -> Callback(e, l)
         [] kind = "flush" -> UNION {AddWrite(f, l, "Write_ProcessSystemMessage") :
                                       f \in Handled(e, l)}
         [] OTHER -> Handled(e, l)

\* ExecuteLocationDBTriggerRead.
NewStatus(data) ==
  [dirty |-> FALSE, error |-> FALSE, released |-> FALSE, ready |-> FALSE,
   write_tasks |-> {}, confirmed |-> data, accessed |-> TRUE, written |-> FALSE]

ExecuteTriggerRead(e, t, ok, data) ==
  LET l == t.location_ID
      f == [e EXCEPT !.triggers = @ \ {t}]
      put == [f EXCEPT !.status_map = With(@, l, NewStatus(data)),
                       !.script = With(@, l, data)]
      continue(g) == CASE t.action = "ids" -> Callback(g, l)
                       [] t.action = "logic" /\ l \notin players -> {g}
                       [] OTHER -> Process(g, l, t.action)
  IN IF ~ok THEN {Erase(f, l)}
     ELSE IF l \in Loaded(e) THEN continue(f)
     ELSE {f} \cup continue(put)    \* the logic may refuse the content

-----------------------------------------------------------------------------
(* The periodic jobs *)

\* WriteChangedGameStatesToDatabase.
WriteChanged(e, l) ==
  LET s == e.status_map[l] IN
  IF l \in Gamestate /\ s.dirty /\ ~s.written /\ s.write_tasks = {}
  THEN AddWrite(e, l, "Write_WriteChangedGameState") ELSE {e}

\* Mutant: a plain location does not wait for its write tasks.
KeptReleasedOnly(e, l) ==
  \/ l \notin Gamestate /\ ~e.status_map[l].released
  \/ l \in players

\* EraseOldLocations keeps a location that players use and a plain location
\* until the logic releases it and its writes end.
Kept(e, l) ==
  \/ l \notin Gamestate /\ ~e.status_map[l].released
  \/ l \notin Gamestate /\ e.status_map[l].write_tasks # {}
  \/ l \in players

\* EraseOldLocations.  A dirty gamestate is written first.
EraseOld(e, l, force) ==
  LET s == e.status_map[l]
      old == IF l \in Gamestate THEN ~s.accessed \/ s.error ELSE s.released
      save_first == /\ l \in Gamestate /\ s.dirty
                    /\ old \/ l \notin players
                    /\ ~s.error \/ s.write_tasks # {}
  IN IF ~force /\ ~old THEN {e}
     ELSE IF save_first
          THEN IF s.write_tasks = {} THEN AddWrite(e, l, "Write_EraseOldGameState")
                                     ELSE {e}
     ELSE IF Kept(e, l) THEN {e} ELSE {LetGo(e, l)}

\* Mutant: the end of the write deadline is not looked at.
MayCloseWhenReady(e, l) ==
  LET s == e.status_map[l] IN s.ready \/ (l \in Gamestate /\ ~s.dirty)

MayClose(e, l) ==
  LET s == e.status_map[l]
  IN s.ready \/ (l \in Gamestate /\ ~s.dirty) \/ deadline_over

\* WriteChangedLocationsToDatabaseGroupShutdown at a location.
ShutdownLocation(e, l) ==
  LET s == e.status_map[l] IN
  IF MayClose(e, l) THEN {LetGo(e, l)}
  ELSE IF s.write_tasks = {} /\ (IF l \in Gamestate THEN s.dirty ELSE s.released)
       THEN AddWrite(e, l, "Write_GroupShutdown") ELSE {e}

\* What a job does at a loaded location.
AtLocation(job, e, l) ==
  CASE job = "write_changed"  -> WriteChanged(e, l)
    [] job = "erase_old"      -> EraseOld(e, l, FALSE)
    [] job = "release_gently" -> EraseOld(e, l, TRUE)
    [] job = "initiate_close" -> Callback(e, l)
    [] job = "shutdown"       -> ShutdownLocation(e, l)

\* What follows e by a job that goes through the loaded locations.
EachLocation(job, e) ==
  FoldSet(LAMBDA l, E : UNION {IF l \in Loaded(f) THEN AtLocation(job, f, l) ELSE {f} : f \in E},
          {e}, Location)

\* on_initiate_gentle_close: the logic may let its locations go.
InitiateGentleClose(e) ==
  IF e.initiated THEN {e} ELSE EachLocation("initiate_close", [e EXCEPT !.initiated = TRUE])

Shutdown(e) == UNION {EachLocation("shutdown", f) : f \in InitiateGentleClose(e)}

\* The parts of GGroup::IntervalSecond.
SaveAndErase(e) ==
  IF e.status \in {"Transferring", "Stopped"} THEN {e}
  ELSE UNION {EachLocation("erase_old", f) : f \in EachLocation("write_changed", e)}

ReleaseGently(e) ==
  LET f == IF e.status \in {"Initializing", "Ready"}
           THEN [e EXCEPT !.status = "Releasing_Gently"] ELSE e
  IN IF f.status # "Releasing_Gently" THEN {f}
     ELSE EachLocation("release_gently", f)

\* waited: the other servers have seen for long enough that the group is busy,
\* or the players had their time to move.
Transfer(e, waited) ==
  LET f == IF e.status = "Releasing_Gently" /\ waited
           THEN [e EXCEPT !.status = "Transferring"] ELSE e
      stop(g) == [g EXCEPT !.status = "Stopped", !.assigned = {}]
      after(g) == [g EXCEPT !.transferring = @ \/ Loaded(g) = {}]
  IN IF f.status # "Transferring" THEN {f}
     ELSE {IF after(g).transferring /\ (players = {} \/ (e.transferring /\ waited))
           THEN stop(after(g)) ELSE after(g) : g \in Shutdown(f)}

\* GGroup::Reanimate: a stopped group that holds nothing may start again.
Reanimated(e) ==
  IF e.status = "Stopped" /\ Loaded(e) = {} /\ e.assigned = {}
  THEN {e, [e EXCEPT !.status = "Initializing"]} ELSE {e}

-----------------------------------------------------------------------------
(* Actions *)

\* GGroup::IntervalSecond.  lost: no heartbeat was confirmed for too long.
IntervalSecond(lost, waited) ==
  /\ inbox = {}
  /\ status # "Releasing_Urgent"
  /\ \E e \in SaveAndErase(Here) :
       \/ /\ lost /\ ~Healthy
          /\ status \notin {"Initializing", "Stopped"}
          /\ Become([e EXCEPT !.status = "Releasing_Urgent"])
          /\ UNCHANGED players
       \/ /\ ~lost
          /\ \E f \in IF closing
                      THEN UNION {Transfer(g, waited) : g \in ReleaseGently(e)}
                      ELSE Reanimated(e) : Become(f)
          /\ players' = IF status = "Stopped" THEN {} ELSE players
  /\ UNCHANGED <<operation, answers, rows, inbox, before, closing, deadline_over>>

\* GGroup::WaitForLocationsFlush, a turn of its loop, and what IntervalSecond
\* does after it: the logic is started anew and the players are dropped.
WaitForLocationsFlush ==
  /\ inbox = {}
  /\ status = "Releasing_Urgent"
  /\ \/ /\ Loaded(Here) # {}
        /\ \E e \in Shutdown(Here) : Become(e)
        /\ UNCHANGED players
     \/ /\ Loaded(Here) = {}
        /\ Become([Here EXCEPT !.script = <<>>, !.status = "Stopped",
                               !.assigned = {}, !.initiated = FALSE])
        /\ players' = {}
  /\ UNCHANGED <<operation, answers, rows, inbox, before, closing, deadline_over>>

\* ProcessLocationDBTaskResults takes all results, then executes a trigger for
\* each.
TakeResults ==
  /\ inbox = {}
  /\ Take(this)
  /\ inbox' = answers[this]
  /\ UNCHANGED <<engine_vars, before, closing, deadline_over, players>>

\* The results are executed in the order in which they came.
ExecuteTrigger ==
  /\ \E r \in inbox :
       /\ \A q \in inbox : <<q.taskid, r.taskid>> \notin before
       /\ inbox' = inbox \ {r}
       /\ before' = {p \in before : r.taskid \notin {p[1], p[2]}}
       /\ \E t \in {u \in locationdb_triggers : u.taskid = r.taskid} :
          \E e \in IF r.direction \in ReadDirections
                   THEN ExecuteTriggerRead(Here, t, r.ok, r.location_data)
                   ELSE ExecuteTriggerWrite(Here, t, r.ok, r.location_data) :
            Become(e)
  /\ UNCHANGED <<operation, answers, rows, closing, deadline_over, players>>

\* A message of a player (logic), of another location or of the console
\* reaches the group that the balancer named for the location.
ReceiveMessage(l, kind) ==
  /\ inbox = {}
  /\ kind = "logic" => l \in players /\ l \in assigned_locations
  /\ \E e \in Process(Assign(Here, l), l, kind) : Become(e)
  /\ UNCHANGED <<operation, answers, rows, inbox, before, closing, deadline_over, players>>

\* RegisterLogic and UnregisterLogic.  The main thread looked at the status of
\* the group before it moved the socket of the player to it.
ConnectPlayer(l) ==
  /\ inbox = {}
  /\ l \notin players
  /\ players' = players \cup {l}
  /\ \E e \in Process(Assign(Here, l), l, "connect") : Become(e)
  /\ UNCHANGED <<operation, answers, rows, inbox, before, closing, deadline_over>>

DisconnectPlayer(l) ==
  /\ inbox = {}
  /\ l \in players
  /\ players' = players \ {l}
  /\ \E e \in IF l \in assigned_locations THEN Process(Here, l, "disconnect")
                                         ELSE {Here} : Become(e)
  /\ UNCHANGED <<operation, answers, rows, inbox, before, closing, deadline_over>>

\* on_clock_tick and the answers of other services.
LogicCallback(l) ==
  /\ inbox = {}
  /\ ~Lua
  /\ l \in Loaded(Here)
  /\ \E e \in Callback(Here, l) : Become(e)
  /\ UNCHANGED <<operation, answers, rows, inbox, before, closing, deadline_over, players>>

\* IGMI_LOCATION_RELEASE_RESPONSE: a group that starts may work.  (The time since
\* its last heartbeat is left to choice.)
ReleaseConfirmed ==
  /\ inbox = {}
  /\ status = "Initializing"
  /\ Become([Here EXCEPT !.status = "Ready"])
  /\ UNCHANGED <<operation, answers, rows, inbox, before, closing, deadline_over, players>>

\* IGMI_GROUP_STATUS_UPDATE_RESPONSE: a confirmed heartbeat moves the write
\* deadline; a group that starts gives back what it took before.
HeartbeatConfirmed ==
  /\ inbox = {}
  /\ status # "Stopped"
  /\ Become(IF status = "Initializing" THEN [Here EXCEPT !.assigned = {}] ELSE Here)
  /\ deadline_over' = FALSE
  /\ UNCHANGED <<operation, answers, rows, inbox, before, closing, players>>

WriteDeadlinePasses ==
  /\ ~Healthy
  /\ deadline_over' = TRUE
  /\ UNCHANGED <<store_vars, engine_vars, inbox, before, closing, players>>

\* The jobs that wait for last_access and last_write to be old enough.
Age(l) ==
  /\ l \in Loaded(Here)
  /\ \E f \in {"accessed", "written"} : status_map' = [status_map EXCEPT ![l][f] = FALSE]
  /\ UNCHANGED <<store_vars, script, locationdb_triggers, assigned_locations,
                 seq_locationdb_taskid, status, gentle_close_initiated,
                 transferring_players, left_behind, inbox, before, closing, deadline_over, players>>

PrepareToClose ==
  /\ closing' = TRUE
  /\ UNCHANGED <<store_vars, engine_vars, inbox, before, deadline_over, players>>

\* The queue at work.
HealthyRead(l) ==
  operation'[l] # operation[l] /\ operation'[l] # NoOperation
    => LET op == operation'[l] IN
       IsReadTask(op.task) =>
         op.ok /\ (op.location_data = EmptyData => rows[l] \in {Missing, EmptyData})
Ids(S) == {r.taskid : r \in S}
Queue ==
  /\ StoreStep
  /\ \/ ~Healthy
     \/ /\ \A l \in Location : HealthyRead(l)
        /\ \A r \in answers'[this] : r.direction \in ReadDirections => r.ok
  /\ before' = before \cup
       (Ids(answers[this] \cup inbox) \X (Ids(answers'[this]) \ Ids(answers[this])))
  /\ UNCHANGED <<engine_vars, inbox, closing, deadline_over, players>>

Init ==
  /\ StoreInit
  /\ status_map = <<>>
  /\ script = <<>>
  /\ locationdb_triggers = {}
  /\ assigned_locations = {}
  /\ seq_locationdb_taskid = 1
  /\ status = "Initializing"
  /\ gentle_close_initiated = FALSE
  /\ transferring_players = FALSE
  /\ left_behind = {}
  /\ inbox = {}
  /\ before = {}
  /\ closing = FALSE
  /\ deadline_over = ~Healthy    \* set by the first heartbeat
  /\ players = {}

GroupStep ==
  \/ \E lost, waited \in BOOLEAN : IntervalSecond(lost, waited)
  \/ WaitForLocationsFlush
  \/ TakeResults
  \/ ExecuteTrigger

Outside ==
  \/ \E l \in Location, kind \in Messages : ReceiveMessage(l, kind)
  \/ \E l \in Location : ConnectPlayer(l) \/ DisconnectPlayer(l) \/ LogicCallback(l) \/ Age(l)
  \/ ReleaseConfirmed
  \/ HeartbeatConfirmed
  \/ WriteDeadlinePasses
  \/ PrepareToClose

Next == GroupStep \/ Outside \/ Queue

Spec == Init /\ [][Next]_vars

-----------------------------------------------------------------------------
(* Properties *)

TypeOK ==
  /\ waiting \subseteq Asked
  /\ locationdb_triggers \subseteq Trigger
  /\ Loaded(Here) \subseteq Location
  /\ status_map \in [Loaded(Here) -> LocationStatus]
  /\ DOMAIN script \subseteq Location
  /\ script \in [DOMAIN script -> LoadedContent]
  /\ assigned_locations \subseteq Location
  /\ seq_locationdb_taskid \in 1..(MaxTask + 1)
  /\ status \in GroupStatus
  /\ {gentle_close_initiated, transferring_players, closing, deadline_over} \subseteq BOOLEAN
  /\ players \subseteq Location

\* The logic library holds exactly the locations of the status map: it is told
\* of every load and of every erasure, whatever goes wrong.
ScriptMatchesStatus == DOMAIN script = DOMAIN status_map

\* A location waits only for write tasks that will be answered to it.
WriteTasksWillBeAnswered ==
  \A l \in Loaded(Here) : \A i \in status_map[l].write_tasks :
    \E t \in locationdb_triggers :
      /\ t.taskid = i /\ t.location_ID = l /\ t.action \in WriteAction
      /\ i \in {u.taskid : u \in waiting} \cup {r.taskid : r \in answers[this] \cup inbox}

\* While every read succeeds and every reply arrives, the content the engine
\* takes for confirmed is the row of the database when no write task of the
\* location is under way: AddLocationDBTaskWrite may skip a write of the same
\* content, and WriteChangedGameStatesToDatabase loses nothing by it.  (Guests
\* are not stored; a location that is ready for the gentle close is not written
\* any more; a write that was left behind may come at any time.)
ConfirmedIsRow ==
  \A l \in Loaded(Here) \ (Guest \cup left_behind) :
    LET s == status_map[l]
    IN s.write_tasks = {} /\ ~s.ready =>
         \/ s.confirmed = rows[l]
         \/ s.confirmed \in {EmptyData, NoData} /\ rows[l] = Missing

\* A location that is let go leaves no write behind: the group that gets it next
\* reads its last content.  The exceptions are a location changed after it was
\* found ready for the gentle close, and a gamestate that is marked clean although
\* it has changed (see ThrownOutIsSaved) or the library failed to give its content
\* for a flush: nobody waits for that write of nothing.
NoWriteAfterRelease ==
  [][\A l \in left_behind' \ left_behind :
       \/ status_map[l].ready
       \/ l \in Gamestate /\ (l \in Throws \/ script[l] # status_map[l].confirmed)]_vars

\* glogic_engine.h:182: a change is always saved, with a delay.  A gamestate
\* that a group at work throws out has its last content in the database or in
\* a write that waits (a gamestate in error is given up).
ThrownOutIsSaved ==
  [][\A l \in Gamestate \cap (Loaded(Here) \ Loaded(Here)') :
       status = "Ready" /\ status' = "Ready" /\ ~status_map[l].error
         => \/ script[l] = rows[l]
            \/ script[l] = EmptyData /\ rows[l] = Missing
            \/ \E t \in waiting' : t.location_ID = l /\ t.location_data = script[l]]_vars

\* ggroup_basic.cpp:233: a stopped group has no location assigned, or it could
\* not be reanimated; players and messages come to it nevertheless.
StoppedIsUnassigned == status = "Stopped" => assigned_locations = {}

-----------------------------------------------------------------------------
(* Liveness *)

\* The group thread keeps running, the write deadline passes at last, and the
\* heartbeats confirmed in WaitForLocationsFlush are the few that were asked
\* for before it: nothing in its loop asks for another.
Fairness ==
  /\ WF_vars(WaitForLocationsFlush)
  /\ WF_vars(TakeResults)
  /\ WF_vars(ExecuteTrigger)
  /\ WF_vars(~deadline_over /\ WriteDeadlinePasses)
  /\ <>[][status = "Releasing_Urgent" /\ deadline_over => deadline_over']_vars
FairSpec == Spec /\ Fairness

\* WaitForLocationsFlush ends, whatever the database and the logic do: a group
\* that lost its heartbeat stops, and the other groups may have its locations.
UrgentReleaseEnds == status = "Releasing_Urgent" ~> status = "Stopped"
=============================================================================
