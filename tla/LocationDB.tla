------------------------------ MODULE LocationDB ------------------------------
(***************************************************************************)
(* The location database queue of the game server process                  *)
(* (server_game/gserver_local.cpp, ggamestatedb_worker_thread.cpp and the  *)
(* MySQL backend ggamestatedb_mysql.cpp).                                  *)
(*                                                                         *)
(* Group threads put read and write tasks in a queue kept per location     *)
(* under mtx_locationdb_tasks.  Worker threads expire tasks, pick one,     *)
(* run it against the database without the lock, and answer with the       *)
(* result every task that the operation covers.  The group thread takes    *)
(* its results and runs the trigger it keeps for each of them.             *)
(***************************************************************************)
EXTENDS Integers, FiniteSets

CONSTANTS
  Group,        \* ids of the groups (threads running game logic)
  Location,     \* location_IDs
  Worker,       \* location database worker threads
  Gamestate,    \* the locations that are gamestates (gamestate_ID > 0)
  Guest,        \* the gamestates with an id >= MIN_GUEST_GAMESTATE_ID
  Owner,        \* the group each location is assigned to
  Trigger,      \* the trigger actions of this instance
  Patience,     \* the values of execution_deadline - now that are used
  Lease,        \* how far a confirmed heartbeat moves write_locations_deadline
  LostReply,    \* may a connection drop after the statement was executed?
  MaxTask,      \* bound: tasks issued by a group
  MaxTime,      \* bound: the clock
  NoTask, Missing, OldRow, EmptyData, LocationsIds, NoData

-----------------------------------------------------------------------------
(* Types *)

ReadTrigger ==
  {"Read_ProcessSystemMessage", "Read_ProcessMessage", "Read_LocationsIdsLike"}
WriteTrigger ==
  {"Write_ProcessSystemMessage", "Write_GroupShutdown", "Write_FlushLocation",
   "Write_WriteChangedGameState", "Write_CreateLocation", "Write_DeleteLocation"}
PriorityTrigger ==
  {"Read_ProcessSystemMessage", "Read_LocationsIdsLike",
   "Write_ProcessSystemMessage", "Write_GroupShutdown", "Write_FlushLocation"}

ReadDirection == {"Read", "Read_Locations_Ids"}
WriteDirection == {"Write", "Insert", "Delete"}
Direction == ReadDirection \cup WriteDirection

Status == {"None", "OK", "ExecutionDeadline", "WriteDeadlineReached",
           "ReadFailed", "WriteFailed"}

Kind == {"read", "write"}
\* The passes of GetLocationDBTaskToRun, the most urgent first:
\* 0 priority write, 1 priority read, 2 read, 3 write.
Pass == 0..3
KindOfPass(p) == IF p \in {1, 2} THEN "read" ELSE "write"

TaskId == 1..MaxTask
\* A written content is named after the task that carries it.
Version == Group \X TaskId
\* OldRow is a row left by an earlier run of the server.
Row == Version \cup {Missing, OldRow}
Data == Version \cup {OldRow, EmptyData, LocationsIds, NoData}
LocationTrigger == [taskid : TaskId, action : ReadTrigger \cup WriteTrigger]

Task == [group_id : Group, taskid : TaskId, location_ID : Location,
         direction : Direction, execution_deadline : Nat,
         has_priority : BOOLEAN, task_executed : BOOLEAN,
         attempted : BOOLEAN]
Result == [taskid : TaskId, location_ID : Location, direction : Direction,
           status : Status, location_data : Data, attempted : BOOLEAN]
Outcome == [status : Status, location_data : Data]
NoOutcome == [status |-> "None", location_data |-> NoData]

\* Age of the last operation of a kind on a location, as the throttling of
\* GetLocationDBTaskToRun can tell it: none yet, within the current second
\* (always throttled), or earlier (throttled or not: the delay is random).
Age == {"never", "now", "before"}

ASSUME ConstantsAssumption ==
  /\ Guest \subseteq Gamestate
  /\ Gamestate \subseteq Location
  /\ Owner \in [Location -> Group]
  /\ Trigger \subseteq ReadTrigger \cup WriteTrigger
  /\ Patience \subseteq Nat \ {0}
  /\ Lease \in Nat \ {0}
  /\ LostReply \in BOOLEAN
  /\ MaxTask \in Nat
  /\ MaxTime \in Nat \ {0}
  /\ NoTask \notin Task
  /\ {Missing, OldRow, EmptyData, LocationsIds, NoData} \cap Version = {}
  /\ Cardinality({Missing, OldRow, EmptyData, LocationsIds, NoData}) = 5

-----------------------------------------------------------------------------
VARIABLES
  now,                       \* CurrentSTime()
  write_locations_deadline,  \* per group; 0: no write allowed
  seq_locationdb_taskid,     \* per group: the next task id
  locationdb_triggers,       \* per group: the answers it waits for
  tasks,                     \* per location: tasks_read and tasks_write
  min_deadline,              \* per location and pass: the cached deadline
  running,                   \* per location: {read,write}_task_running_taskid
  last_operation,            \* per location and kind: Age
  pc, current, outcome,      \* the worker threads
  results,                   \* per group: locationdb_tasks_results
  total_parts,               \* per location: multipart_locations_total_parts
  database                   \* the rows of the data_*_blob tables

queue_vars == <<tasks, min_deadline, running, last_operation>>
worker_vars == <<pc, current, outcome>>
group_vars == <<seq_locationdb_taskid, locationdb_triggers>>
backend_vars == <<total_parts, database>>
vars == <<now, write_locations_deadline, group_vars, queue_vars, worker_vars,
          results, backend_vars>>

-----------------------------------------------------------------------------
(* Helpers *)

IsRead(t) == t.direction \in ReadDirection
KindOf(t) == IF IsRead(t) THEN "read" ELSE "write"
TasksOf(l, kind) == {t \in tasks[l] : KindOf(t) = kind}

\* A task competes in the pass of its kind and, with priority, in the
\* priority pass too.
InPass(t, p) == /\ KindOf(t) = KindOfPass(p)
                /\ p \in {0, 1} => t.has_priority

\* Mutant: -1 stands for no deadline.
MinDeadlineMinusOne(S) ==
  IF S = {} THEN -1
  ELSE (CHOOSE t \in S :
          \A u \in S : t.execution_deadline <= u.execution_deadline).execution_deadline

\* 0 stands for no deadline.
MinDeadline(S) ==
  IF S = {} THEN 0
  ELSE LET t == CHOOSE t \in S :
                  \A u \in S : t.execution_deadline <= u.execution_deadline
       IN  t.execution_deadline
DeadlineOfPass(S, p) == MinDeadline({t \in S : InPass(t, p)})

ContentOf(t) == <<t.group_id, t.taskid>>

DirectionOf(a) ==
  CASE a = "Read_LocationsIdsLike" -> "Read_Locations_Ids"
    [] a = "Write_CreateLocation"  -> "Insert"
    [] a = "Write_DeleteLocation"  -> "Delete"
    [] a \in ReadTrigger \ {"Read_LocationsIdsLike"} -> "Read"
    [] OTHER -> "Write"

-----------------------------------------------------------------------------
(* The group thread *)

\* AddLocationDBTaskRead / AddLocationDBTaskWrite: the group takes the next
\* task id, remembers the trigger and calls GServerGame::AddLocationDBTask.
\* Only WriteChangedGameStatesToDatabase and EraseOldLocations write without
\* priority, and only gamestates; any group may create any location.
AddLocationDBTask(g, l, a, patience) ==
  LET deadline == IF a = "Write_GroupShutdown"
                  THEN write_locations_deadline[g] + 1
                  ELSE now + patience
      task == [group_id |-> g, taskid |-> seq_locationdb_taskid[g],
               location_ID |-> l, direction |-> DirectionOf(a),
               execution_deadline |-> deadline,
               has_priority |-> a \in PriorityTrigger,
               task_executed |-> FALSE, attempted |-> FALSE]
  IN /\ a = "Write_CreateLocation" \/ Owner[l] = g
     /\ a = "Write_WriteChangedGameState" => l \in Gamestate
     /\ seq_locationdb_taskid[g] <= MaxTask
     /\ deadline <= MaxTime
     /\ seq_locationdb_taskid' = [seq_locationdb_taskid EXCEPT ![g] = @ + 1]
     /\ locationdb_triggers' =
          [locationdb_triggers EXCEPT
             ![g] = @ \cup {[taskid |-> task.taskid, action |-> a]}]
     /\ tasks' = [tasks EXCEPT ![l] = @ \cup {task}]
     /\ min_deadline' = [min_deadline EXCEPT ![l] = [p \in Pass |->
          IF InPass(task, p) /\ (@[p] = 0 \/ deadline < @[p])
          THEN deadline ELSE @[p]]]
     /\ UNCHANGED <<now, write_locations_deadline, running, last_operation,
                    worker_vars, results, backend_vars>>

\* GGroup::ProcessLocationDBTaskResults: takes the whole vector and executes
\* the trigger of each result.
ProcessLocationDBTaskResults(g) ==
  /\ results[g] # {}
  /\ results' = [results EXCEPT ![g] = {}]
  /\ locationdb_triggers' = [locationdb_triggers EXCEPT
        ![g] = {e \in @ : \A r \in results[g] : r.taskid # e.taskid}]
  /\ UNCHANGED <<now, write_locations_deadline, seq_locationdb_taskid,
                 queue_vars, worker_vars, backend_vars>>

\* IGMI_GROUP_STATUS_UPDATE_RESPONSE with a timestamp: the group may write
\* until the new deadline.
ConfirmHeartbeat(g) ==
  /\ write_locations_deadline' =
       [write_locations_deadline EXCEPT ![g] = now + Lease]
  /\ UNCHANGED <<now, group_vars, queue_vars, worker_vars, results,
                 backend_vars>>

-----------------------------------------------------------------------------
(* Results *)

\* Mutant: the results not taken yet are overwritten.
AddResultsOverwriting(g, new) == IF new = {} THEN results[g] ELSE new

\* GServerGame::AddLocationDBTaskResult for the results 'new' of group g: an
\* OK result also turns the waiting failures of the same location and
\* direction into OK with its own data.
AddResults(g, new) ==
  LET Overriding(r) ==
        {n \in new : /\ n.status = "OK"
                     /\ n.location_ID = r.location_ID
                     /\ n.direction = r.direction}
      Override(r) ==
        IF r.status # "OK" /\ Overriding(r) # {}
        THEN [r EXCEPT !.status = "OK",
                       !.location_data =
                          (CHOOSE n \in Overriding(r) : TRUE).location_data]
        ELSE r
  IN {Override(r) : r \in results[g]} \cup new

-----------------------------------------------------------------------------
(* The worker threads *)

\* Mutant: a task that was tried once is kept for another try.
ExpiredTasksNeverTried(l) ==
  {t \in tasks[l] :
     /\ t.execution_deadline <= now
     /\ ~t.task_executed
     /\ IF IsRead(t) THEN running[l]["read"] = 0
                     ELSE running[l]["write"] < t.taskid}

\* ClearExpiredDBTasks.
ExpiredTasks(l) ==
  {t \in tasks[l] :
     /\ t.execution_deadline <= now
     /\ IF IsRead(t) THEN running[l]["read"] = 0
                     ELSE running[l]["write"] < t.taskid}

ExpiredResult(t) ==
  [taskid |-> t.taskid, location_ID |-> t.location_ID,
   direction |-> t.direction,
   status |-> IF ~t.task_executed THEN "ExecutionDeadline"
              ELSE IF IsRead(t) THEN "ReadFailed" ELSE "WriteFailed",
   location_data |-> IF IsRead(t) THEN NoData ELSE ContentOf(t),
   attempted |-> t.attempted]

\* An empty structure unused for ten minutes is dropped.
ClearExpiredDBTasks(w) ==
  /\ pc[w] = "clear"
  /\ pc' = [pc EXCEPT ![w] = "pick"]
  /\ tasks' = [l \in Location |-> tasks[l] \ ExpiredTasks(l)]
  /\ min_deadline' = [l \in Location |-> [p \in Pass |->
                        DeadlineOfPass(tasks[l] \ ExpiredTasks(l), p)]]
  /\ results' = [g \in Group |-> AddResults(g,
       {ExpiredResult(t) : t \in {u \in UNION {ExpiredTasks(l) : l \in Location} :
                                    u.group_id = g}})]
  /\ \E dropped \in SUBSET {l \in Location :
                              /\ tasks[l] \ ExpiredTasks(l) = {}
                              /\ \A k \in Kind : last_operation[l][k] # "now"} :
       /\ running' = [l \in Location |->
            IF l \in dropped THEN [k \in Kind |-> 0] ELSE running[l]]
       /\ last_operation' = [l \in Location |->
            IF l \in dropped THEN [k \in Kind |-> "never"]
            ELSE last_operation[l]]
  /\ UNCHANGED <<now, write_locations_deadline, group_vars, current, outcome,
                 backend_vars>>

\* Mutant: only the running operation of the same kind counts.
MayRunBesideOtherKind(l, p) ==
  /\ running[l][KindOfPass(p)] = 0
  /\ min_deadline[l][p] # 0
  /\ last_operation[l][KindOfPass(p)] # "now"

\* GetLocationDBTaskToRun.  A location competes in a pass unless an operation
\* runs on it or the throttling holds it back.
MayRun(l, p) ==
  /\ \A k \in Kind : running[l][k] = 0
  /\ min_deadline[l][p] # 0
  /\ last_operation[l][KindOfPass(p)] # "now"
MustRun(l, p) == MayRun(l, p) /\ last_operation[l][KindOfPass(p)] = "never"

\* Mutant: a pass does not wait for the priority pass of its kind.
SelectableInAnyPass(l, p) ==
  /\ MayRun(l, p)
  /\ \A m \in Location, q \in Pass : q < p => ~MustRun(m, q)
  /\ \A m \in Location : MustRun(m, p) => min_deadline[l][p] <= min_deadline[m][p]

\* The random throttling delay of a kind is never longer in its priority pass
\* than in its ordinary pass.
Selectable(l, p) ==
  /\ MayRun(l, p)
  /\ \A m \in Location, q \in Pass : q < p => ~MustRun(m, q)
  /\ \A q \in Pass : q < p /\ KindOfPass(q) = KindOfPass(p)
                       => min_deadline[l][q] = 0
  /\ \A m \in Location : MustRun(m, p) => min_deadline[l][p] <= min_deadline[m][p]

StartTask(w, l, p) ==
  \E t \in {u \in tasks[l] : InPass(u, p)} :
    /\ \A u \in tasks[l] : InPass(u, p) => u.taskid <= t.taskid
    /\ running' = [running EXCEPT ![l][KindOf(t)] = t.taskid]
    /\ current' = [current EXCEPT ![w] = t]
    /\ pc' = [pc EXCEPT ![w] = "run"]

Sleep(w) ==
  /\ pc' = [pc EXCEPT ![w] = "clear"]
  /\ UNCHANGED <<running, current>>

GetLocationDBTaskToRun(w) ==
  /\ pc[w] = "pick"
  /\ \/ \E l \in Location, p \in Pass : Selectable(l, p) /\ StartTask(w, l, p)
     \/ (\A l \in Location, p \in Pass : ~MustRun(l, p)) /\ Sleep(w)
  /\ UNCHANGED <<now, write_locations_deadline, group_vars, tasks,
                 min_deadline, last_operation, outcome, results, backend_vars>>

-----------------------------------------------------------------------------
(* ProcessLocationDBTask, without the lock *)

EndOperation(w, status, data) ==
  /\ pc' = [pc EXCEPT ![w] = "done"]
  /\ outcome' = [outcome EXCEPT
                   ![w] = [status |-> status, location_data |-> data]]

\* A write is abandoned when its group may not write any more; an insert of a
\* location known to have a row fails at once.
CheckWriteDeadline(w) ==
  LET t == current[w] IN
  /\ pc[w] = "run"
  /\ \/ /\ ~IsRead(t)
        /\ now >= write_locations_deadline[t.group_id]
        /\ EndOperation(w, "WriteDeadlineReached", NoData)
     \/ /\ ~IsRead(t)
        /\ now < write_locations_deadline[t.group_id]
        /\ t.direction = "Insert"
        /\ total_parts[t.location_ID] > 0
        /\ EndOperation(w, "WriteFailed", NoData)
     \/ /\ IsRead(t) \/ now < write_locations_deadline[t.group_id]
        /\ ~(t.direction = "Insert" /\ total_parts[t.location_ID] > 0)
        /\ pc' = [pc EXCEPT ![w] = "query"]
        /\ UNCHANGED outcome
  /\ UNCHANGED <<now, write_locations_deadline, group_vars, queue_vars, current,
                 results, backend_vars>>

\* LoadLocationFromDatabaseMySQL: a failed query is answered like a missing
\* row; only a corrupted content fails.
LoadLocation(w, l) ==
  \/ /\ database[l] # Missing
     /\ total_parts' = [total_parts EXCEPT ![l] = 1]
     /\ EndOperation(w, "OK", database[l])
  \/ /\ database[l] # Missing
     /\ EndOperation(w, "ReadFailed", NoData)
     /\ UNCHANGED total_parts
  \/ /\ EndOperation(w, "OK", EmptyData)
     /\ UNCHANGED total_parts

\* A statement either runs, or is refused, or (LostReply) runs although the
\* caller is told that it failed.
WriteStatement(w, l, row, parts, data) ==
  \/ /\ database' = [database EXCEPT ![l] = row]
     /\ total_parts' = [total_parts EXCEPT ![l] = parts]
     /\ EndOperation(w, "OK", data)
  \/ /\ LostReply
     /\ database' = [database EXCEPT ![l] = row]
     /\ EndOperation(w, "WriteFailed", NoData)
     /\ UNCHANGED total_parts
  \/ /\ EndOperation(w, "WriteFailed", NoData)
     /\ UNCHANGED backend_vars

\* WriteLocationToDatabaseMySQL: UPDATE of a row known to be there (it
\* succeeds and changes nothing when there is none), INSERT otherwise (it
\* fails when there is one).  Guests are never written.
WriteLocation(w, t) ==
  LET l == t.location_ID
      v == ContentOf(t)
  IN \/ /\ l \in Guest
        /\ EndOperation(w, "OK", v)
        /\ UNCHANGED backend_vars
     \/ /\ l \notin Guest
        /\ total_parts[l] > 0
        /\ WriteStatement(w, l, IF database[l] = Missing THEN Missing ELSE v,
                          total_parts[l], v)
     \/ /\ l \notin Guest
        /\ total_parts[l] = 0
        /\ database[l] = Missing
        /\ WriteStatement(w, l, v, 1, v)
     \/ /\ l \notin Guest
        /\ total_parts[l] = 0
        /\ database[l] # Missing
        /\ EndOperation(w, "WriteFailed", NoData)
        /\ UNCHANGED backend_vars

\* DeleteLocationFromDatabaseMySQL.
DeleteLocation(w, t) ==
  LET l == t.location_ID
  IN IF l \in Gamestate
     THEN EndOperation(w, "WriteFailed", NoData) /\ UNCHANGED backend_vars
     ELSE WriteStatement(w, l, Missing, 0, NoData)

\* The operation itself.  It is one step: the row and the total_parts entry
\* of a location are only touched by the operation that runs on it.
RunDatabaseOperation(w) ==
  LET t == current[w] IN
  /\ pc[w] = "query"
  /\ CASE t.direction = "Read" ->
            LoadLocation(w, t.location_ID) /\ UNCHANGED database
       [] t.direction = "Read_Locations_Ids" ->
            EndOperation(w, "OK", LocationsIds) /\ UNCHANGED backend_vars
       [] t.direction = "Delete" -> DeleteLocation(w, t)
       [] OTHER -> WriteLocation(w, t)
  /\ UNCHANGED <<now, write_locations_deadline, group_vars, queue_vars, current,
                 results>>

-----------------------------------------------------------------------------
(* ProcessLocationDBTaskResult *)

\* Mutant: the older writes stay in the queue.
CoveredItself(t) ==
  {u \in tasks[t.location_ID] :
     IF IsRead(t) THEN IsRead(u) ELSE ~IsRead(u) /\ u = t}

\* The tasks of the queue that the operation of task t stands for.
Covered(t) ==
  {u \in tasks[t.location_ID] :
     IF IsRead(t) THEN IsRead(u)
     ELSE /\ ~IsRead(u)
          /\ u.taskid <= t.taskid
          /\ \/ u.direction = t.direction
             \/ u.direction = "Insert" /\ t.direction = "Write"}

\* Mutant: the deadline of the priority pass is left as it was.
RefreshedOrdinaryDeadlines(l, left, kind) ==
  [p \in Pass |-> IF KindOfPass(p) = kind /\ p \notin {0, 1}
                  THEN DeadlineOfPass(left, p) ELSE min_deadline[l][p]]

\* The deadlines of the kind that ran are computed again from what is left.
RefreshedDeadlines(l, left, kind) ==
  [p \in Pass |-> IF KindOfPass(p) = kind THEN DeadlineOfPass(left, p)
                  ELSE min_deadline[l][p]]

\* After a success the covered tasks are answered with the direction and the
\* data of the one that ran; after a failure they stay, marked as executed.
ProcessLocationDBTaskResult(w) ==
  LET t == current[w]
      l == t.location_ID
      ok == outcome[w].status = "OK"
      kind == KindOf(t)
      mark(u) == [u EXCEPT !.task_executed = TRUE,
                           !.attempted =
                             @ \/ outcome[w].status # "WriteDeadlineReached"]
      left == (tasks[l] \ Covered(t)) \cup
              (IF ok THEN {} ELSE {mark(u) : u \in Covered(t)})
      answer(u) == [taskid |-> u.taskid, location_ID |-> l,
                    direction |-> t.direction, status |-> "OK",
                    location_data |-> outcome[w].location_data,
                    attempted |-> TRUE]
  IN /\ pc[w] = "done"
     /\ tasks' = [tasks EXCEPT ![l] = left]
     /\ min_deadline' = [min_deadline EXCEPT ![l] = RefreshedDeadlines(l, left, kind)]
     /\ results' = IF ok
                   THEN [g \in Group |-> AddResults(g,
                          {answer(u) : u \in {v \in Covered(t) : v.group_id = g}})]
                   ELSE results
     /\ running' = [running EXCEPT ![l][kind] = 0]
     /\ last_operation' = [last_operation EXCEPT ![l][kind] = "now"]
     /\ pc' = [pc EXCEPT ![w] = "clear"]
     /\ current' = [current EXCEPT ![w] = NoTask]
     /\ outcome' = [outcome EXCEPT ![w] = NoOutcome]
     /\ UNCHANGED <<now, write_locations_deadline, group_vars, backend_vars>>

-----------------------------------------------------------------------------
\* SetCurrentSTime: the clock moves to the next instant the model tells apart.
Tick ==
  /\ now < MaxTime
  /\ now' = now + 1
  /\ last_operation' = [l \in Location |-> [k \in Kind |->
        IF last_operation[l][k] = "now" THEN "before" ELSE last_operation[l][k]]]
  /\ UNCHANGED <<write_locations_deadline, group_vars, tasks, min_deadline,
                 running, worker_vars, results, backend_vars>>

\* The process starts with an empty queue over a database that may have rows.
Init ==
  /\ now = 1
  /\ write_locations_deadline = [g \in Group |-> 0]
  /\ seq_locationdb_taskid = [g \in Group |-> 1]
  /\ locationdb_triggers = [g \in Group |-> {}]
  /\ tasks = [l \in Location |-> {}]
  /\ min_deadline = [l \in Location |-> [p \in Pass |-> 0]]
  /\ running = [l \in Location |-> [k \in Kind |-> 0]]
  /\ last_operation = [l \in Location |-> [k \in Kind |-> "never"]]
  /\ pc = [w \in Worker |-> "clear"]
  /\ current = [w \in Worker |-> NoTask]
  /\ outcome = [w \in Worker |-> NoOutcome]
  /\ results = [g \in Group |-> {}]
  /\ total_parts = [l \in Location |-> 0]
  /\ database \in [Location -> {Missing, OldRow}]

WorkerStep(w) ==
  \/ ClearExpiredDBTasks(w)
  \/ GetLocationDBTaskToRun(w)
  \/ CheckWriteDeadline(w)
  \/ RunDatabaseOperation(w)
  \/ ProcessLocationDBTaskResult(w)

GroupStep(g) ==
  \/ \E l \in Location, a \in Trigger, patience \in Patience :
       AddLocationDBTask(g, l, a, patience)
  \/ ProcessLocationDBTaskResults(g)
  \/ ConfirmHeartbeat(g)

Next ==
  \/ \E g \in Group : GroupStep(g)
  \/ \E w \in Worker : WorkerStep(w)
  \/ Tick

Spec == Init /\ [][Next]_vars

\* The worker threads loop for ever, every pass of a group's action loop takes
\* its results, and time passes.  Nothing forces a group to issue a task or a
\* heartbeat to be confirmed.
FairSpec ==
  /\ Spec
  /\ \A w \in Worker : WF_vars(WorkerStep(w))
  /\ \A g \in Group : WF_vars(ProcessLocationDBTaskResults(g))
  /\ WF_vars(Tick)

-----------------------------------------------------------------------------
(* Properties *)

Busy(w) == pc[w] \in {"run", "query", "done"}

\* The type of the state: a task is queued at its own location, and a worker
\* holds a task from the moment it picks it until it has answered it.
TypeOK ==
  /\ now \in 1..MaxTime
  /\ write_locations_deadline \in [Group -> Nat]
  /\ seq_locationdb_taskid \in [Group -> 1..(MaxTask + 1)]
  /\ locationdb_triggers \in [Group -> SUBSET LocationTrigger]
  /\ tasks \in [Location -> SUBSET Task]
  /\ \A l \in Location : \A t \in tasks[l] : t.location_ID = l
  /\ min_deadline \in [Location -> [Pass -> Nat]]
  /\ running \in [Location -> [Kind -> 0..MaxTask]]
  /\ last_operation \in [Location -> [Kind -> Age]]
  /\ pc \in [Worker -> {"clear", "pick", "run", "query", "done"}]
  /\ current \in [Worker -> Task \cup {NoTask}]
  /\ \A w \in Worker : current[w] = NoTask <=> ~Busy(w)
  /\ outcome \in [Worker -> Outcome]
  /\ results \in [Group -> SUBSET Result]
  /\ total_parts \in [Location -> {0, 1}]
  /\ database \in [Location -> Row]

Flagged(l) == \E k \in Kind : running[l][k] # 0

\* At most one operation runs on a location at any time, and the two
\* *_task_running_taskid fields say exactly which: whatever is expired,
\* answered or dropped meanwhile, the task being run stays in the queue and
\* the fields stay set (GetLocationDBTaskToRun skips a location by them).
OneOperationPerLocation ==
  /\ \A w \in Worker : Busy(w) =>
       LET l == current[w].location_ID IN
       /\ current[w] \in tasks[l]
       /\ \A k \in Kind : running[l][k] =
            IF k = KindOf(current[w]) THEN current[w].taskid ELSE 0
  /\ \A w1, w2 \in Worker :
       Busy(w1) /\ Busy(w2) /\ current[w1].location_ID = current[w2].location_ID
         => w1 = w2
  /\ \A l \in Location :
       Flagged(l) => \E w \in Worker : Busy(w) /\ current[w].location_ID = l

QueuedIds(g) ==
  UNION {{t.taskid : t \in {u \in tasks[l] : u.group_id = g}} : l \in Location}
ResultIds(g) == {r.taskid : r \in results[g]}
TriggerIds(g) == {e.taskid : e \in locationdb_triggers[g]}

\* Every task a group waits for is either in the queue or answered, never both
\* and never twice, and nothing else is: no trigger waits for ever, none is
\* executed for a task that is still queued.
EveryTriggerHasOneTask ==
  \A g \in Group :
    /\ TriggerIds(g) = QueuedIds(g) \cup ResultIds(g)
    /\ \A i \in TriggerIds(g) : i < seq_locationdb_taskid[g]
    /\ QueuedIds(g) \cap ResultIds(g) = {}
    /\ \A l1, l2 \in Location : \A t1 \in tasks[l1], t2 \in tasks[l2] :
         t1.group_id = g /\ t2.group_id = g /\ t1.taskid = t2.taskid
           => l1 = l2 /\ t1 = t2
    /\ \A r1, r2 \in results[g] : r1.taskid = r2.taskid => r1 = r2

\* The cached deadlines are those of the queue: a location with a waiting task
\* is never overlooked by a pass, and no pass stops at an empty location.
DeadlinesMatchQueue ==
  \A l \in Location, p \in Pass : min_deadline[l][p] = DeadlineOfPass(tasks[l], p)

\* A task without priority is never started while a task of the same kind
\* with priority waits at the same location.
PriorityGoesFirst ==
  [][\A w \in Worker : pc[w] = "pick" /\ pc'[w] = "run" =>
       LET t == current'[w] IN
       t.has_priority \/ \A u \in TasksOf(t.location_ID, KindOf(t)) : ~u.has_priority]_vars

NewAnswers(g) == {r \in results'[g] \ results[g] : r.status = "OK"}

\* What a task is told was read, written or deleted is what the database holds
\* at that moment.  (Guests are not stored; a read that finds no row, or whose
\* query fails, is answered with the empty content.)
AnswersAgreeWithDatabase ==
  [][\A g \in Group : \A r \in NewAnswers(g) :
       LET row == database[r.location_ID] IN
       CASE r.direction = "Read" -> r.location_data \in {row, EmptyData}
         [] r.direction \in {"Write", "Insert"} ->
              r.location_ID \in Guest \/ row = r.location_data
         [] r.direction = "Delete" -> row = Missing
         [] OTHER -> TRUE]_vars

\* The locations whose contents are stored in the order of their tasks.  A
\* gamestate that a library creates while a save of it waits is not one: the
\* save has no priority and an insert does not cover it, so it comes second.
WrittenInOrder == {l \in Location :
                     l \in Gamestate => "Write_CreateLocation" \notin Trigger}

\* The content of a location never goes back to an older one of the same group,
\* although a newer task may be tried, expire or be answered before an older.
NewestContentStays ==
  [][\A l \in WrittenInOrder :
       database[l] \in Version /\ database'[l] \in Version
       /\ database[l][1] = database'[l][1] => database[l][2] <= database'[l][2]]_vars

\* Every task is answered, and its trigger executed.
EveryTaskAnswered ==
  \A g \in Group, i \in TaskId :
    i \in TriggerIds(g) ~> i \notin TriggerIds(g)

\* The ELDBTS_ExecutionDeadline comment: a write that expired without an
\* attempt is not reported as done, unless a newer content was written instead.
DoneMeansWritten ==
  \A g \in Group : \A r \in results[g] :
    r.status = "OK" /\ r.direction = "Write"
      => r.attempted \/ r.location_data \in {<<g, i>> : i \in r.taskid..MaxTask}
=============================================================================
