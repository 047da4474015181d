--------------------------- MODULE LocationDBProofs ---------------------------
(***************************************************************************)
(* Theorems about LocationDB.tla.  First the types, and what makes the     *)
(* answers right: one operation per location and one task or answer per    *)
(* trigger.                                                                *)
(*                                                                         *)
(* Then what the queue does in which order, and what that means for the    *)
(* rows: the cached deadlines are those of the queue, so a task with       *)
(* priority goes first, so the content of a location does not go back;     *)
(* and what a task is told is what the row holds.                          *)
(***************************************************************************)
EXTENDS LocationDB, WellFoundedInduction, TLAPS

\* A nonempty set of natural numbers has a least element.
LEMMA LeastNatural ==
  ASSUME NEW T \in SUBSET Nat, T # {}
  PROVE  \E m \in T : \A n \in T : m <= n
<1> DEFINE R == OpToRel(<, Nat)
<1>1. PICK m \in T : \A n \in T : ~(<<n, m>> \in R)
  BY NatLessThanWellFounded, WFMin, Zenon
<1>2. \A n \in T : ~(n < m)
  BY <1>1 DEF OpToRel
<1> QED
  BY <1>2

LEMMA MinDeadlineNat ==
  ASSUME NEW S \in SUBSET Task
  PROVE  MinDeadline(S) \in Nat
<1>1. CASE S = {}
  BY <1>1 DEF MinDeadline
<1>2. CASE S # {}
  <2> DEFINE D == {t.execution_deadline : t \in S}
  <2>1. D \in SUBSET Nat /\ D # {}
    BY <1>2 DEF Task
  <2> HIDE DEF D
  <2>2. PICK m \in D : \A n \in D : m <= n
    BY <2>1, LeastNatural
  <2>3. \E t \in S : \A u \in S : t.execution_deadline <= u.execution_deadline
    BY <2>2 DEF D
  <2> QED
    BY <1>2, <2>3 DEF MinDeadline, Task
<1> QED
  BY <1>1, <1>2

LEMMA DeadlineOfPassNat ==
  ASSUME NEW S \in SUBSET Task, NEW p \in Pass
  PROVE  DeadlineOfPass(S, p) \in Nat
<1> {t \in S : InPass(t, p)} \in SUBSET Task
  OBVIOUS
<1> QED
  BY MinDeadlineNat DEF DeadlineOfPass

LEMMA ContentOfTask ==
  ASSUME NEW t \in Task
  PROVE  ContentOf(t) \in Version
BY DEF ContentOf, Version, Task

LEMMA AddResultsType ==
  ASSUME NEW g \in Group, results[g] \in SUBSET Result,
         NEW new \in SUBSET Result
  PROVE  AddResults(g, new) \in SUBSET Result
<1> DEFINE Overriding(r) ==
      {n \in new : /\ n.status = "OK"
                   /\ n.location_ID = r.location_ID
                   /\ n.direction = r.direction}
    Override(r) ==
      IF r.status # "OK" /\ Overriding(r) # {}
      THEN [r EXCEPT !.status = "OK",
                     !.location_data =
                        (CHOOSE n \in Overriding(r) : TRUE).location_data]
      ELSE r
<1>1. ASSUME NEW r \in Result PROVE Override(r) \in Result
  <2>1. CASE r.status # "OK" /\ Overriding(r) # {}
    <3> DEFINE n == CHOOSE n \in Overriding(r) : TRUE
    <3>1. n \in Result
      BY <2>1
    <3>2. n.location_data \in Data
      BY <3>1 DEF Result
    <3> HIDE DEF n
    <3>3. [r EXCEPT !.status = "OK", !.location_data = n.location_data] \in Result
      BY <3>2 DEF Result, Status
    <3> QED
      BY <2>1, <3>3 DEF n
  <2>2. CASE ~(r.status # "OK" /\ Overriding(r) # {})
    BY <2>2
  <2> QED
    BY <2>1, <2>2
<1>2. AddResults(g, new) = {Override(r) : r \in results[g]} \cup new
  BY Zenon DEF AddResults
<1> HIDE DEF Override
<1> QED
  BY <1>1, <1>2

LEMMA ExpiredResultType ==
  ASSUME NEW t \in Task
  PROVE  ExpiredResult(t) \in Result
<1>1. (IF ~t.task_executed THEN "ExecutionDeadline"
       ELSE IF IsRead(t) THEN "ReadFailed" ELSE "WriteFailed") \in Status
  BY DEF Status
<1>2. (IF IsRead(t) THEN NoData ELSE ContentOf(t)) \in Data
  BY ContentOfTask DEF Data
<1> QED
  BY <1>1, <1>2 DEF ExpiredResult, Result, Task

-----------------------------------------------------------------------------
(* Type correctness, one lemma per action. *)

LEMMA InitTypeOK == Init => TypeOK
<1> SUFFICES ASSUME Init PROVE TypeOK
  OBVIOUS
<1>1. now \in 1..MaxTime
  BY ConstantsAssumption DEF Init
<1>2. seq_locationdb_taskid \in [Group -> 1..(MaxTask + 1)]
  BY ConstantsAssumption DEF Init
<1>3. running \in [Location -> [Kind -> 0..MaxTask]]
  BY ConstantsAssumption DEF Init
<1>4. outcome \in [Worker -> Outcome]
  BY DEF Init, Outcome, NoOutcome, Status, Data
<1>5. current \in [Worker -> Task \cup {NoTask}]
      /\ \A w \in Worker : current[w] = NoTask <=> ~Busy(w)
  BY DEF Init, Busy
<1>6. last_operation \in [Location -> [Kind -> Age]]
  BY DEF Init, Age
<1> QED
  BY <1>1, <1>2, <1>3, <1>4, <1>5, <1>6 DEF Init, TypeOK, Row

LEMMA AddLocationDBTaskType ==
  ASSUME TypeOK, NEW g \in Group, NEW l \in Location, NEW a \in Trigger,
         NEW patience \in Patience, AddLocationDBTask(g, l, a, patience)
  PROVE  TypeOK'
<1> DEFINE deadline == IF a = "Write_GroupShutdown"
                       THEN write_locations_deadline[g] + 1
                       ELSE now + patience
    task == [group_id |-> g, taskid |-> seq_locationdb_taskid[g],
             location_ID |-> l, direction |-> DirectionOf(a),
             execution_deadline |-> deadline,
             has_priority |-> a \in PriorityTrigger,
             task_executed |-> FALSE, attempted |-> FALSE]
<1>1. deadline \in Nat
  BY ConstantsAssumption DEF TypeOK
<1>2. seq_locationdb_taskid[g] \in TaskId
  BY ConstantsAssumption DEF TypeOK, AddLocationDBTask, TaskId
<1>3. DirectionOf(a) \in Direction
  BY ConstantsAssumption
     DEF DirectionOf, Direction, ReadDirection, WriteDirection
<1>4. (a \in PriorityTrigger) \in BOOLEAN
  BY DEF PriorityTrigger
<1> HIDE DEF deadline
<1>5. task \in Task
  BY <1>1, <1>2, <1>3, <1>4 DEF Task
<1> USE DEF deadline
<1>6. tasks' = [tasks EXCEPT ![l] = @ \cup {task}]
  BY DEF AddLocationDBTask
<1>7. seq_locationdb_taskid' \in [Group -> 1..(MaxTask + 1)]
  BY <1>2, ConstantsAssumption DEF TypeOK, AddLocationDBTask, TaskId
<1>8. locationdb_triggers' \in [Group -> SUBSET LocationTrigger]
  <2>1. [taskid |-> task.taskid, action |-> a] \in LocationTrigger
    BY <1>2, ConstantsAssumption DEF LocationTrigger
  <2>2. locationdb_triggers' = [locationdb_triggers EXCEPT
          ![g] = @ \cup {[taskid |-> task.taskid, action |-> a]}]
    BY DEF AddLocationDBTask
  <2> QED
    BY <2>1, <2>2 DEF TypeOK
<1>9. min_deadline' \in [Location -> [Pass -> Nat]]
  <2>1. min_deadline' = [min_deadline EXCEPT ![l] = [p \in Pass |->
          IF InPass(task, p) /\ (@[p] = 0 \/ deadline < @[p])
          THEN deadline ELSE @[p]]]
    BY DEF AddLocationDBTask
  <2> HIDE DEF deadline, task
  <2>2. [p \in Pass |->
          IF InPass(task, p) /\ (min_deadline[l][p] = 0 \/ deadline < min_deadline[l][p])
          THEN deadline ELSE min_deadline[l][p]] \in [Pass -> Nat]
    BY <1>1 DEF TypeOK
  <2> QED
    BY <2>1, <2>2 DEF TypeOK
<1>10. tasks' \in [Location -> SUBSET Task]
       /\ \A m \in Location : \A t \in tasks'[m] : t.location_ID = m
  <2>1. task.location_ID = l
    OBVIOUS
  <2> HIDE DEF task
  <2> QED
    BY <1>5, <1>6, <2>1 DEF TypeOK
<1>11. UNCHANGED <<now, write_locations_deadline, running, last_operation,
                   worker_vars, results, backend_vars>>
  BY DEF AddLocationDBTask
<1> QED
  BY <1>7, <1>8, <1>9, <1>10, <1>11 DEF TypeOK, Busy, worker_vars, backend_vars

LEMMA GroupActionType ==
  ASSUME TypeOK, NEW g \in Group,
         ProcessLocationDBTaskResults(g) \/ ConfirmHeartbeat(g)
  PROVE  TypeOK'
<1>1. CASE ProcessLocationDBTaskResults(g)
  <2>1. results' \in [Group -> SUBSET Result]
    BY <1>1 DEF ProcessLocationDBTaskResults, TypeOK
  <2>2. locationdb_triggers' \in [Group -> SUBSET LocationTrigger]
    BY <1>1 DEF ProcessLocationDBTaskResults, TypeOK
  <2> QED
    BY <1>1, <2>1, <2>2 DEF ProcessLocationDBTaskResults, TypeOK, Busy,
       queue_vars, worker_vars, backend_vars
<1>2. CASE ConfirmHeartbeat(g)
  <2>1. write_locations_deadline' \in [Group -> Nat]
    BY <1>2, ConstantsAssumption DEF ConfirmHeartbeat, TypeOK
  <2> QED
    BY <1>2, <2>1 DEF ConfirmHeartbeat, TypeOK, Busy, group_vars,
       queue_vars, worker_vars, backend_vars
<1> QED
  BY <1>1, <1>2

LEMMA TickType ==
  ASSUME TypeOK, Tick
  PROVE  TypeOK'
<1>1. now' \in 1..MaxTime
  BY ConstantsAssumption DEF Tick, TypeOK
<1>2. last_operation' \in [Location -> [Kind -> Age]]
  BY DEF Tick, TypeOK, Age
<1> QED
  BY <1>1, <1>2 DEF Tick, TypeOK, Busy, group_vars, worker_vars, backend_vars

LEMMA ClearExpiredDBTasksType ==
  ASSUME TypeOK, NEW w \in Worker, ClearExpiredDBTasks(w)
  PROVE  TypeOK'
<1>1. tasks' = [l \in Location |-> tasks[l] \ ExpiredTasks(l)]
  BY DEF ClearExpiredDBTasks
<1>2. tasks' \in [Location -> SUBSET Task]
      /\ \A l \in Location : \A t \in tasks'[l] : t.location_ID = l
  BY <1>1 DEF TypeOK
<1>3. min_deadline' \in [Location -> [Pass -> Nat]]
  <2>1. min_deadline' = [l \in Location |-> [p \in Pass |->
                          DeadlineOfPass(tasks[l] \ ExpiredTasks(l), p)]]
    BY DEF ClearExpiredDBTasks
  <2>2. ASSUME NEW l \in Location, NEW p \in Pass
        PROVE  DeadlineOfPass(tasks[l] \ ExpiredTasks(l), p) \in Nat
    <3> tasks[l] \ ExpiredTasks(l) \in SUBSET Task
      BY DEF TypeOK
    <3> QED
      BY DeadlineOfPassNat
  <2> QED
    BY <2>1, <2>2
<1>4. results' \in [Group -> SUBSET Result]
  <2> DEFINE New(g) ==
        {ExpiredResult(t) :
           t \in {u \in UNION {ExpiredTasks(l) : l \in Location} : u.group_id = g}}
  <2>1. results' = [g \in Group |-> AddResults(g, New(g))]
    BY DEF ClearExpiredDBTasks
  <2>2. UNION {ExpiredTasks(l) : l \in Location} \in SUBSET Task
    BY DEF ExpiredTasks, TypeOK
  <2>3. ASSUME NEW g \in Group PROVE New(g) \in SUBSET Result
    BY <2>2, ExpiredResultType
  <2>4. ASSUME NEW g \in Group PROVE results[g] \in SUBSET Result
    BY DEF TypeOK
  <2> HIDE DEF New
  <2> QED
    BY <2>1, <2>3, <2>4, AddResultsType
<1>5. running' \in [Location -> [Kind -> 0..MaxTask]]
      /\ last_operation' \in [Location -> [Kind -> Age]]
  <2>1. PICK dropped \in SUBSET Location :
          /\ running' = [l \in Location |->
               IF l \in dropped THEN [k \in Kind |-> 0] ELSE running[l]]
          /\ last_operation' = [l \in Location |->
               IF l \in dropped THEN [k \in Kind |-> "never"] ELSE last_operation[l]]
    BY DEF ClearExpiredDBTasks
  <2>2. [k \in Kind |-> 0] \in [Kind -> 0..MaxTask]
    BY ConstantsAssumption
  <2> QED
    BY <2>1, <2>2 DEF TypeOK, Age
<1>6. /\ pc' \in [Worker -> {"clear", "pick", "run", "query", "done"}]
      /\ \A v \in Worker : current'[v] = NoTask <=> ~Busy(v)'
  BY DEF ClearExpiredDBTasks, TypeOK, Busy
<1> QED
  BY <1>2, <1>3, <1>4, <1>5, <1>6
     DEF ClearExpiredDBTasks, TypeOK, group_vars, backend_vars

LEMMA GetLocationDBTaskToRunType ==
  ASSUME TypeOK, NEW w \in Worker, GetLocationDBTaskToRun(w)
  PROVE  TypeOK'
<1>1. CASE \E l \in Location, p \in Pass : Selectable(l, p) /\ StartTask(w, l, p)
  <2>1. PICK l \in Location, p \in Pass : StartTask(w, l, p)
    BY <1>1
  <2>2. PICK t \in tasks[l] :
          /\ running' = [running EXCEPT ![l][KindOf(t)] = t.taskid]
          /\ current' = [current EXCEPT ![w] = t]
          /\ pc' = [pc EXCEPT ![w] = "run"]
    BY <2>1 DEF StartTask
  <2>3. t \in Task /\ t.taskid \in 0..MaxTask /\ t # NoTask
    BY ConstantsAssumption DEF TypeOK, Task, TaskId
  <2>4. KindOf(t) \in Kind
    BY DEF KindOf, Kind
  <2>5. running' \in [Location -> [Kind -> 0..MaxTask]]
    BY <2>2, <2>3, <2>4 DEF TypeOK
  <2>6. /\ pc' \in [Worker -> {"clear", "pick", "run", "query", "done"}]
        /\ current' \in [Worker -> Task \cup {NoTask}]
        /\ \A v \in Worker : current'[v] = NoTask <=> ~Busy(v)'
    BY <2>2, <2>3 DEF TypeOK, Busy
  <2> QED
    BY <2>5, <2>6 DEF GetLocationDBTaskToRun, TypeOK, group_vars, backend_vars
<1>2. CASE Sleep(w)
  <2>1. /\ pc' \in [Worker -> {"clear", "pick", "run", "query", "done"}]
        /\ \A v \in Worker : current'[v] = NoTask <=> ~Busy(v)'
    BY <1>2 DEF GetLocationDBTaskToRun, Sleep, TypeOK, Busy
  <2> QED
    BY <1>2, <2>1
       DEF GetLocationDBTaskToRun, Sleep, TypeOK, group_vars, backend_vars
<1> QED
  BY <1>1, <1>2 DEF GetLocationDBTaskToRun

\* A busy worker's task is a task, and its location one of the locations.
LEMMA BusyTask ==
  ASSUME TypeOK, NEW w \in Worker, Busy(w)
  PROVE  current[w] \in Task /\ current[w].location_ID \in Location
BY DEF TypeOK, Task

LEMMA EndOperationType ==
  ASSUME TypeOK, NEW w \in Worker, Busy(w), NEW status \in Status,
         NEW data \in Data, EndOperation(w, status, data),
         UNCHANGED current
  PROVE  /\ pc' \in [Worker -> {"clear", "pick", "run", "query", "done"}]
         /\ \A v \in Worker : current'[v] = NoTask <=> ~Busy(v)'
         /\ outcome' \in [Worker -> Outcome]
<1>1. [status |-> status, location_data |-> data] \in Outcome
  BY DEF Outcome
<1> QED
  BY <1>1 DEF EndOperation, TypeOK, Busy

LEMMA CheckWriteDeadlineType ==
  ASSUME TypeOK, NEW w \in Worker, CheckWriteDeadline(w)
  PROVE  TypeOK'
<1>1. Busy(w) /\ UNCHANGED current
  BY DEF CheckWriteDeadline, Busy
<1>2. NoData \in Data /\ {"WriteDeadlineReached", "WriteFailed"} \subseteq Status
  BY DEF Data, Status
<1>3. /\ pc' \in [Worker -> {"clear", "pick", "run", "query", "done"}]
      /\ \A v \in Worker : current'[v] = NoTask <=> ~Busy(v)'
      /\ outcome' \in [Worker -> Outcome]
  <2>1. CASE EndOperation(w, "WriteDeadlineReached", NoData)
    BY <1>1, <1>2, <2>1, EndOperationType
  <2>2. CASE EndOperation(w, "WriteFailed", NoData)
    BY <1>1, <1>2, <2>2, EndOperationType
  <2>3. CASE pc' = [pc EXCEPT ![w] = "query"] /\ UNCHANGED outcome
    BY <1>1, <2>3 DEF TypeOK, Busy
  <2> QED
    BY <2>1, <2>2, <2>3 DEF CheckWriteDeadline
<1> QED
  BY <1>1, <1>3
     DEF CheckWriteDeadline, TypeOK, group_vars, queue_vars, backend_vars

\* What every branch of a database operation leaves behind.
OperationTyped(w) ==
  /\ pc' \in [Worker -> {"clear", "pick", "run", "query", "done"}]
  /\ \A v \in Worker : current'[v] = NoTask <=> ~Busy(v)'
  /\ outcome' \in [Worker -> Outcome]
  /\ total_parts' \in [Location -> {0, 1}]
  /\ database' \in [Location -> Row]

LEMMA WriteStatementType ==
  ASSUME TypeOK, NEW w \in Worker, Busy(w), UNCHANGED current,
         NEW l \in Location, NEW row \in Row, NEW parts \in {0, 1},
         NEW data \in Data, WriteStatement(w, l, row, parts, data)
  PROVE  OperationTyped(w)
<1>1. NoData \in Data /\ {"OK", "WriteFailed"} \subseteq Status
  BY DEF Data, Status
<1>2. EndOperation(w, "OK", data) \/ EndOperation(w, "WriteFailed", NoData)
  BY DEF WriteStatement
<1>3. /\ pc' \in [Worker -> {"clear", "pick", "run", "query", "done"}]
      /\ \A v \in Worker : current'[v] = NoTask <=> ~Busy(v)'
      /\ outcome' \in [Worker -> Outcome]
  BY <1>1, <1>2, EndOperationType
<1>4. total_parts' \in [Location -> {0, 1}] /\ database' \in [Location -> Row]
  BY DEF WriteStatement, TypeOK, backend_vars
<1> QED
  BY <1>3, <1>4 DEF OperationTyped

LEMMA EndWithoutChange ==
  ASSUME TypeOK, NEW w \in Worker, Busy(w), UNCHANGED current,
         NEW status \in Status, NEW data \in Data,
         EndOperation(w, status, data), UNCHANGED backend_vars
  PROVE  OperationTyped(w)
BY EndOperationType DEF OperationTyped, TypeOK, backend_vars

LEMMA WriteLocationType ==
  ASSUME TypeOK, NEW w \in Worker, Busy(w), UNCHANGED current,
         NEW t \in Task, WriteLocation(w, t)
  PROVE  OperationTyped(w)
<1> DEFINE l == t.location_ID
           v == ContentOf(t)
<1>1. /\ l \in Location /\ v \in Version /\ v \in Data /\ v \in Row
      /\ NoData \in Data /\ {"OK", "WriteFailed"} \subseteq Status
      /\ Missing \in Row
  BY ContentOfTask DEF Task, Data, Row, Status
<1>2. CASE EndOperation(w, "OK", v) /\ UNCHANGED backend_vars
  BY <1>1, <1>2, EndWithoutChange
<1>3. CASE EndOperation(w, "WriteFailed", NoData) /\ UNCHANGED backend_vars
  BY <1>1, <1>3, EndWithoutChange
<1>4. CASE WriteStatement(w, l, IF database[l] = Missing THEN Missing ELSE v,
                          total_parts[l], v)
  <2>1. total_parts[l] \in {0, 1}
    BY <1>1 DEF TypeOK
  <2>2. (IF database[l] = Missing THEN Missing ELSE v) \in Row
    BY <1>1
  <2> HIDE DEF l, v
  <2> QED
    BY <1>1, <1>4, <2>1, <2>2, WriteStatementType
<1>5. CASE WriteStatement(w, l, v, 1, v)
  <2> HIDE DEF l, v
  <2> QED
    BY <1>1, <1>5, WriteStatementType
<1> QED
  BY <1>2, <1>3, <1>4, <1>5 DEF WriteLocation

LEMMA RunDatabaseOperationType ==
  ASSUME TypeOK, NEW w \in Worker, RunDatabaseOperation(w)
  PROVE  TypeOK'
<1> DEFINE t == current[w]
           l == t.location_ID
<1>1. Busy(w) /\ UNCHANGED current
  BY DEF RunDatabaseOperation, Busy
<1>2. t \in Task /\ l \in Location
  BY <1>1, BusyTask
<1>3. /\ {NoData, EmptyData, LocationsIds} \subseteq Data
      /\ {"OK", "ReadFailed", "WriteFailed"} \subseteq Status
      /\ Missing \in Row
  BY DEF Data, Status, Row
<1>4. OperationTyped(w)
  <2>1. CASE LoadLocation(w, l) /\ UNCHANGED database
    <3>1. total_parts' \in [Location -> {0, 1}] /\ database' \in [Location -> Row]
      BY <2>1 DEF LoadLocation, TypeOK
    <3>2. database[l] # Missing => database[l] \in Data
      BY <1>2 DEF TypeOK, Row, Data
    <3>3. /\ pc' \in [Worker -> {"clear", "pick", "run", "query", "done"}]
          /\ \A v \in Worker : current'[v] = NoTask <=> ~Busy(v)'
          /\ outcome' \in [Worker -> Outcome]
      BY <1>1, <1>3, <2>1, <3>2, EndOperationType DEF LoadLocation
    <3> QED
      BY <3>1, <3>3 DEF OperationTyped
  <2>2. CASE EndOperation(w, "OK", LocationsIds) /\ UNCHANGED backend_vars
    BY <1>1, <1>3, <2>2, EndWithoutChange
  <2>3. CASE DeleteLocation(w, t)
    <3>1. CASE EndOperation(w, "WriteFailed", NoData) /\ UNCHANGED backend_vars
      BY <1>1, <1>3, <3>1, EndWithoutChange
    <3>2. CASE WriteStatement(w, l, Missing, 0, NoData)
      BY <1>1, <1>2, <1>3, <3>2, WriteStatementType
    <3> QED
      BY <2>3, <3>1, <3>2 DEF DeleteLocation
  <2>4. CASE WriteLocation(w, t)
    BY <1>1, <1>2, <2>4, WriteLocationType
  <2> QED
    BY <2>1, <2>2, <2>3, <2>4 DEF RunDatabaseOperation
<1> QED
  BY <1>1, <1>4 DEF RunDatabaseOperation, OperationTyped, TypeOK, group_vars, queue_vars

LEMMA ProcessLocationDBTaskResultType ==
  ASSUME TypeOK, NEW w \in Worker, ProcessLocationDBTaskResult(w)
  PROVE  TypeOK'
<1> DEFINE t == current[w]
           l == t.location_ID
           ok == outcome[w].status = "OK"
           kind == KindOf(t)
           mark(u) == [u EXCEPT !.task_executed = TRUE,
                                !.attempted =
                                  @ \/ outcome[w].status # "WriteDeadlineReached"]
           left == (tasks[l] \ Covered(t)) \cup
                   (IF ok THEN {} ELSE {mark(u) : u \in Covered(t)})
           answer(u) == [taskid |-> u.taskid, location_ID |-> l,
                         direction |-> t.direction, status |-> "OK",
                         location_data |-> outcome[w].location_data,
                         attempted |-> TRUE]
<1>1. t \in Task /\ l \in Location
  BY BusyTask DEF ProcessLocationDBTaskResult, Busy
<1>2. Covered(t) \in SUBSET Task /\ \A u \in Covered(t) : u.location_ID = l
  BY <1>1 DEF Covered, TypeOK
<1>3. left \in SUBSET Task /\ \A u \in left : u.location_ID = l
  <2>1. ASSUME NEW u \in Covered(t)
        PROVE  mark(u) \in Task /\ mark(u).location_ID = l
    <3>1. (u.attempted \/ outcome[w].status # "WriteDeadlineReached") \in BOOLEAN
      OBVIOUS
    <3> QED
      BY <1>2, <3>1 DEF Task
  <2>2. tasks[l] \in SUBSET Task /\ \A u \in tasks[l] : u.location_ID = l
    BY <1>1 DEF TypeOK
  <2> HIDE DEF mark
  <2> QED
    BY <2>1, <2>2
<1>4. kind \in Kind
  BY DEF KindOf, Kind
<1>5. tasks' = [tasks EXCEPT ![l] = left]
  BY DEF ProcessLocationDBTaskResult
<1>6. tasks' \in [Location -> SUBSET Task]
      /\ \A m \in Location : \A u \in tasks'[m] : u.location_ID = m
  <2> HIDE DEF left, l
  <2> QED
    BY <1>1, <1>3, <1>5 DEF TypeOK
<1>7. min_deadline' \in [Location -> [Pass -> Nat]]
  <2>1. min_deadline' =
          [min_deadline EXCEPT ![l] = RefreshedDeadlines(l, left, kind)]
    BY DEF ProcessLocationDBTaskResult
  <2> HIDE DEF left, kind, l
  <2>2. RefreshedDeadlines(l, left, kind) \in [Pass -> Nat]
    <3>1. min_deadline[l] \in [Pass -> Nat]
      BY <1>1 DEF TypeOK
    <3> QED
      BY <1>3, <3>1, DeadlineOfPassNat DEF RefreshedDeadlines
  <2> QED
    BY <2>1, <2>2 DEF TypeOK
<1>8. results' \in [Group -> SUBSET Result]
  <2>1. CASE ok
    <3> DEFINE New(g) == {answer(u) : u \in {v \in Covered(t) : v.group_id = g}}
    <3>1. results' = [g \in Group |-> AddResults(g, New(g))]
      BY <2>1 DEF ProcessLocationDBTaskResult
    <3>2. outcome[w].location_data \in Data /\ t.direction \in Direction
      BY <1>1 DEF TypeOK, Outcome, Task
    <3>3. ASSUME NEW u \in Covered(t) PROVE answer(u) \in Result
      <4> u.taskid \in TaskId /\ "OK" \in Status
        BY <1>2 DEF Task, Status
      <4> HIDE DEF t, l
      <4> QED
        BY <1>1, <3>2 DEF Result
    <3>4. ASSUME NEW g \in Group PROVE New(g) \in SUBSET Result
      BY <3>3
    <3>5. ASSUME NEW g \in Group PROVE results[g] \in SUBSET Result
      BY DEF TypeOK
    <3> HIDE DEF New
    <3> QED
      BY <3>1, <3>4, <3>5, AddResultsType
  <2>2. CASE ~ok
    BY <2>2 DEF ProcessLocationDBTaskResult, TypeOK
  <2> QED
    BY <2>1, <2>2
<1>9. /\ running' \in [Location -> [Kind -> 0..MaxTask]]
      /\ last_operation' \in [Location -> [Kind -> Age]]
  <2>1. /\ running' = [running EXCEPT ![l][kind] = 0]
        /\ last_operation' = [last_operation EXCEPT ![l][kind] = "now"]
    BY DEF ProcessLocationDBTaskResult
  <2> HIDE DEF kind, l
  <2> QED
    BY <1>1, <1>4, <2>1, ConstantsAssumption DEF TypeOK, Age
<1>10. /\ pc' \in [Worker -> {"clear", "pick", "run", "query", "done"}]
       /\ current' \in [Worker -> Task \cup {NoTask}]
       /\ \A v \in Worker : current'[v] = NoTask <=> ~Busy(v)'
  BY DEF ProcessLocationDBTaskResult, TypeOK, Busy
<1>11. outcome' \in [Worker -> Outcome]
  BY DEF ProcessLocationDBTaskResult, TypeOK, Outcome, NoOutcome, Status, Data
<1> QED
  BY <1>6, <1>7, <1>8, <1>9, <1>10, <1>11
     DEF ProcessLocationDBTaskResult, TypeOK, group_vars, backend_vars

LEMMA NextTypeOK == TypeOK /\ [Next]_vars => TypeOK'
<1> SUFFICES ASSUME TypeOK, [Next]_vars PROVE TypeOK'
  OBVIOUS
<1>1. CASE UNCHANGED vars
  BY <1>1 DEF TypeOK, Busy, vars, group_vars, queue_vars, worker_vars, backend_vars
<1>2. ASSUME NEW g \in Group, GroupStep(g) PROVE TypeOK'
  BY <1>2, AddLocationDBTaskType, GroupActionType DEF GroupStep
<1>3. ASSUME NEW w \in Worker, WorkerStep(w) PROVE TypeOK'
  BY <1>3, ClearExpiredDBTasksType, GetLocationDBTaskToRunType,
     CheckWriteDeadlineType, RunDatabaseOperationType,
     ProcessLocationDBTaskResultType DEF WorkerStep
<1>4. CASE Tick
  BY <1>4, TickType
<1> QED
  BY <1>1, <1>2, <1>3, <1>4 DEF Next

\* The state keeps its type: tasks stay in the queue of their own location, and
\* a worker holds a task exactly while it works on it.
THEOREM TypeCorrect == Spec => []TypeOK
BY InitTypeOK, NextTypeOK, PTL DEF Spec

-----------------------------------------------------------------------------
(* One operation per location.  The property is inductive together with the *)
(* type: a location is picked only when both of its fields are 0, so no      *)
(* busy worker is there; and the expiry skips exactly what the fields name.  *)

LEMMA InitOneOperation == Init => OneOperationPerLocation
BY DEF Init, OneOperationPerLocation, Busy, Flagged

\* A step that touches neither the workers nor the fields, and only adds tasks.
LEMMA OneOperationFrame ==
  ASSUME OneOperationPerLocation, TypeOK, UNCHANGED <<pc, current, running>>,
         \A l \in Location : tasks[l] \subseteq tasks'[l]
  PROVE  OneOperationPerLocation'
<1>1. \A w \in Worker : Busy(w)' <=> Busy(w)
  BY DEF Busy
<1>2. \A w \in Worker : Busy(w) => current[w].location_ID \in Location
  BY BusyTask
<1>3. ASSUME NEW w \in Worker, Busy(w)
      PROVE  LET l == current[w].location_ID IN
             /\ current[w] \in tasks'[l]
             /\ \A k \in Kind : running[l][k] =
                  IF k = KindOf(current[w]) THEN current[w].taskid ELSE 0
  BY <1>2, <1>3 DEF OneOperationPerLocation
<1>4. \A l \in Location : Flagged(l)' <=> Flagged(l)
  BY DEF Flagged
<1> HIDE DEF Busy, Flagged, KindOf
<1> QED
  BY <1>1, <1>3, <1>4 DEF OneOperationPerLocation

\* A change of state of one busy worker that stays busy.
LEMMA OneOperationStillBusy ==
  ASSUME OneOperationPerLocation, TypeOK, NEW w \in Worker, Busy(w),
         NEW s \in {"query", "done"}, pc' = [pc EXCEPT ![w] = s],
         UNCHANGED <<current, running, tasks>>
  PROVE  OneOperationPerLocation'
<1>1. \A v \in Worker : Busy(v)' <=> Busy(v)
  BY DEF Busy, TypeOK
<1>2. \A l \in Location : Flagged(l)' <=> Flagged(l)
  BY DEF Flagged
<1> QED
  BY <1>1, <1>2 DEF OneOperationPerLocation

LEMMA ClearExpiredDBTasksOneOperation ==
  ASSUME OneOperationPerLocation, TypeOK, NEW w \in Worker,
         ClearExpiredDBTasks(w)
  PROVE  OneOperationPerLocation'
<1>1. /\ tasks' = [l \in Location |-> tasks[l] \ ExpiredTasks(l)]
      /\ UNCHANGED current
  BY DEF ClearExpiredDBTasks
<1>2. \A v \in Worker : Busy(v)' <=> Busy(v)
  BY DEF ClearExpiredDBTasks, Busy, TypeOK
<1>3. PICK dropped \in SUBSET {l \in Location :
                                 /\ tasks[l] \ ExpiredTasks(l) = {}
                                 /\ \A k \in Kind : last_operation[l][k] # "now"} :
        running' = [l \in Location |->
          IF l \in dropped THEN [k \in Kind |-> 0] ELSE running[l]]
  BY DEF ClearExpiredDBTasks
<1>4. ASSUME NEW v \in Worker, Busy(v)
      PROVE  LET l == current[v].location_ID IN
             current[v] \in tasks'[l] /\ l \notin dropped /\ l \in Location
  <2> DEFINE t == current[v]
             l == t.location_ID
  <2>1. t \in Task /\ l \in Location /\ t \in tasks[l]
    BY <1>4, BusyTask DEF OneOperationPerLocation
  <2>2. running[l][KindOf(t)] = t.taskid /\ KindOf(t) \in Kind
    BY <1>4 DEF OneOperationPerLocation, KindOf, Kind
  <2>3. t.taskid \in Nat \ {0}
    BY <2>1, ConstantsAssumption DEF Task, TaskId
  <2>4. t \notin ExpiredTasks(l)
    BY <2>2, <2>3 DEF ExpiredTasks, KindOf
  <2>5. t \in tasks[l] \ ExpiredTasks(l)
    BY <2>1, <2>4
  <2> QED
    BY <1>1, <1>3, <2>1, <2>5
<1>5. ASSUME NEW v \in Worker, Busy(v)
      PROVE  running'[current[v].location_ID] = running[current[v].location_ID]
  BY <1>3, <1>4, <1>5
<1>6. \A l \in Location : Flagged(l)' => Flagged(l)
  BY <1>3 DEF Flagged
<1>7. ASSUME NEW v \in Worker, Busy(v)'
      PROVE  LET l == current'[v].location_ID IN
             /\ current'[v] \in tasks'[l]
             /\ \A k \in Kind : running'[l][k] =
                  IF k = KindOf(current'[v]) THEN current'[v].taskid ELSE 0
  <2>1. Busy(v) /\ current'[v] = current[v]
    BY <1>1, <1>2, <1>7
  <2> QED
    BY <1>4, <1>5, <2>1 DEF OneOperationPerLocation
<1>8. ASSUME NEW v1 \in Worker, NEW v2 \in Worker, Busy(v1)', Busy(v2)',
             current'[v1].location_ID = current'[v2].location_ID
      PROVE  v1 = v2
  BY <1>1, <1>2, <1>8 DEF OneOperationPerLocation
<1>9. ASSUME NEW l \in Location, Flagged(l)'
      PROVE  \E v \in Worker : Busy(v)' /\ current'[v].location_ID = l
  BY <1>1, <1>2, <1>6, <1>9 DEF OneOperationPerLocation
<1> QED
  BY <1>7, <1>8, <1>9 DEF OneOperationPerLocation, KindOf, IsRead

LEMMA GetLocationDBTaskToRunOneOperation ==
  ASSUME OneOperationPerLocation, TypeOK, NEW w \in Worker,
         GetLocationDBTaskToRun(w)
  PROVE  OneOperationPerLocation'
<1>1. CASE Sleep(w)
  <2>1. \A v \in Worker : Busy(v)' <=> Busy(v)
    BY <1>1 DEF GetLocationDBTaskToRun, Sleep, Busy, TypeOK
  <2>2. \A l \in Location : Flagged(l)' <=> Flagged(l)
    BY <1>1 DEF Sleep, Flagged
  <2> QED
    BY <1>1, <2>1, <2>2
       DEF GetLocationDBTaskToRun, Sleep, OneOperationPerLocation
<1>2. CASE \E l \in Location, p \in Pass : Selectable(l, p) /\ StartTask(w, l, p)
  <2>1. PICK l \in Location, p \in Pass : Selectable(l, p) /\ StartTask(w, l, p)
    BY <1>2
  <2>2. PICK t \in tasks[l] :
          /\ running' = [running EXCEPT ![l][KindOf(t)] = t.taskid]
          /\ current' = [current EXCEPT ![w] = t]
          /\ pc' = [pc EXCEPT ![w] = "run"]
    BY <2>1 DEF StartTask
  <2>3. /\ t \in Task /\ t.location_ID = l /\ t.taskid \in Nat \ {0}
        /\ KindOf(t) \in Kind
    BY ConstantsAssumption DEF TypeOK, Task, TaskId, KindOf, Kind
  <2>4. \A k \in Kind : running[l][k] = 0
    BY <2>1 DEF Selectable, MayRun
  <2>5. ASSUME NEW v \in Worker, Busy(v)
        PROVE  v # w /\ current[v].location_ID # l
    <3>1. v # w
      BY <2>5 DEF GetLocationDBTaskToRun, Busy
    <3>2. running[current[v].location_ID][KindOf(current[v])] = current[v].taskid
          /\ KindOf(current[v]) \in Kind
      BY <2>5 DEF OneOperationPerLocation, KindOf, Kind
    <3>3. current[v].taskid # 0
      BY <2>5, BusyTask, ConstantsAssumption DEF Task, TaskId
    <3> QED
      BY <2>4, <3>1, <3>2, <3>3
  <2>6. ASSUME NEW v \in Worker
        PROVE  /\ Busy(v)' <=> (Busy(v) \/ v = w)
               /\ current'[v] = IF v = w THEN t ELSE current[v]
    BY <2>2 DEF Busy, TypeOK
  <2>7. /\ \A m \in Location : m # l => running'[m] = running[m]
        /\ \A k \in Kind : running'[l][k] =
             IF k = KindOf(t) THEN t.taskid ELSE 0
    BY <2>2, <2>3, <2>4 DEF TypeOK
  <2>8. UNCHANGED tasks
    BY DEF GetLocationDBTaskToRun
  <2>9. ASSUME NEW v \in Worker, Busy(v)'
        PROVE  LET m == current'[v].location_ID IN
               /\ current'[v] \in tasks'[m]
               /\ \A k \in Kind : running'[m][k] =
                    IF k = KindOf(current'[v]) THEN current'[v].taskid ELSE 0
    <3>1. CASE v = w
      BY <2>3, <2>6, <2>7, <2>8, <3>1
    <3>2. CASE v # w
      <4>1. Busy(v) /\ current'[v] = current[v] /\ current[v].location_ID # l
            /\ current[v].location_ID \in Location
        BY <2>5, <2>6, <2>9, <3>2, BusyTask
      <4> QED
        BY <2>7, <2>8, <4>1 DEF OneOperationPerLocation
    <3> QED
      BY <3>1, <3>2
  <2>10. ASSUME NEW v1 \in Worker, NEW v2 \in Worker, Busy(v1)', Busy(v2)',
                current'[v1].location_ID = current'[v2].location_ID
         PROVE  v1 = v2
    BY <2>3, <2>5, <2>6, <2>10 DEF OneOperationPerLocation
  <2>11. ASSUME NEW m \in Location, Flagged(m)'
         PROVE  \E v \in Worker : Busy(v)' /\ current'[v].location_ID = m
    <3>1. CASE m = l
      BY <2>3, <2>6, <3>1
    <3>2. CASE m # l
      <4>1. Flagged(m)
        BY <2>7, <2>11, <3>2 DEF Flagged
      <4>2. PICK v \in Worker : Busy(v) /\ current[v].location_ID = m
        BY <4>1 DEF OneOperationPerLocation
      <4> QED
        BY <2>5, <2>6, <4>2
    <3> QED
      BY <3>1, <3>2
  <2> QED
    BY <2>9, <2>10, <2>11 DEF OneOperationPerLocation, KindOf, IsRead
<1> QED
  BY <1>1, <1>2 DEF GetLocationDBTaskToRun

LEMMA ProcessLocationDBTaskResultOneOperation ==
  ASSUME OneOperationPerLocation, TypeOK, NEW w \in Worker,
         ProcessLocationDBTaskResult(w)
  PROVE  OneOperationPerLocation'
<1> DEFINE t == current[w]
           l == t.location_ID
<1>1. Busy(w) /\ t \in Task /\ l \in Location /\ KindOf(t) \in Kind
  BY BusyTask DEF ProcessLocationDBTaskResult, Busy, KindOf, Kind
<1>2. /\ running' = [running EXCEPT ![l][KindOf(t)] = 0]
      /\ pc' = [pc EXCEPT ![w] = "clear"]
      /\ current' = [current EXCEPT ![w] = NoTask]
      /\ \A m \in Location : m # l => tasks'[m] = tasks[m]
  BY DEF ProcessLocationDBTaskResult, TypeOK
<1>3. ASSUME NEW v \in Worker, Busy(v)'
      PROVE  /\ v # w /\ Busy(v) /\ current'[v] = current[v]
             /\ current[v].location_ID # l /\ current[v].location_ID \in Location
  <2>1. v # w /\ Busy(v) /\ current'[v] = current[v]
    BY <1>2, <1>3 DEF Busy, TypeOK
  <2>2. current[v].location_ID # l
    BY <1>1, <2>1 DEF OneOperationPerLocation
  <2> QED
    BY <2>1, <2>2, BusyTask
<1>4. /\ \A m \in Location : m # l => running'[m] = running[m]
      /\ \A k \in Kind : running'[l][k] = 0
  <2>1. \A k \in Kind : k # KindOf(t) => running[l][k] = 0
    BY <1>1 DEF OneOperationPerLocation
  <2> QED
    BY <1>1, <1>2, <2>1 DEF TypeOK
<1>5. ASSUME NEW v \in Worker, Busy(v)'
      PROVE  LET m == current'[v].location_ID IN
             /\ current'[v] \in tasks'[m]
             /\ \A k \in Kind : running'[m][k] =
                  IF k = KindOf(current'[v]) THEN current'[v].taskid ELSE 0
  BY <1>2, <1>3, <1>4, <1>5 DEF OneOperationPerLocation
<1>6. ASSUME NEW v1 \in Worker, NEW v2 \in Worker, Busy(v1)', Busy(v2)',
             current'[v1].location_ID = current'[v2].location_ID
      PROVE  v1 = v2
  BY <1>3, <1>6 DEF OneOperationPerLocation
<1>7. ASSUME NEW m \in Location, Flagged(m)'
      PROVE  \E v \in Worker : Busy(v)' /\ current'[v].location_ID = m
  <2>1. m # l /\ Flagged(m)
    BY <1>4, <1>7 DEF Flagged
  <2>2. PICK v \in Worker : Busy(v) /\ current[v].location_ID = m
    BY <2>1 DEF OneOperationPerLocation
  <2>3. v # w
    BY <2>1, <2>2
  <2> QED
    BY <1>2, <2>2, <2>3 DEF Busy, TypeOK
<1> QED
  BY <1>5, <1>6, <1>7 DEF OneOperationPerLocation, KindOf, IsRead

LEMMA NextOneOperation ==
  TypeOK /\ OneOperationPerLocation /\ [Next]_vars => OneOperationPerLocation'
<1> SUFFICES ASSUME TypeOK, OneOperationPerLocation, [Next]_vars
             PROVE  OneOperationPerLocation'
  OBVIOUS
<1>1. CASE UNCHANGED vars
  BY <1>1, OneOperationFrame DEF vars, queue_vars, worker_vars
<1>2. ASSUME NEW g \in Group, GroupStep(g) PROVE OneOperationPerLocation'
  <2>1. ASSUME NEW l \in Location, NEW a \in Trigger, NEW patience \in Patience,
               AddLocationDBTask(g, l, a, patience)
        PROVE  OneOperationPerLocation'
    <3>1. UNCHANGED <<pc, current, running>>
      BY <2>1 DEF AddLocationDBTask, worker_vars
    <3>2. \A m \in Location : tasks[m] \subseteq tasks'[m]
      BY <2>1 DEF AddLocationDBTask, TypeOK
    <3> QED
      BY <3>1, <3>2, OneOperationFrame
  <2>2. CASE ProcessLocationDBTaskResults(g) \/ ConfirmHeartbeat(g)
    BY <2>2, OneOperationFrame
       DEF ProcessLocationDBTaskResults, ConfirmHeartbeat, queue_vars, worker_vars
  <2> QED
    BY <1>2, <2>1, <2>2 DEF GroupStep
<1>3. ASSUME NEW w \in Worker, WorkerStep(w) PROVE OneOperationPerLocation'
  <2>1. CASE CheckWriteDeadline(w)
    <3>1. Busy(w) /\ UNCHANGED <<current, running, tasks>>
      BY <2>1 DEF CheckWriteDeadline, Busy, queue_vars
    <3>2. pc' = [pc EXCEPT ![w] = "done"] \/ pc' = [pc EXCEPT ![w] = "query"]
      BY <2>1 DEF CheckWriteDeadline, EndOperation
    <3> QED
      BY <3>1, <3>2, OneOperationStillBusy
  <2>2. CASE RunDatabaseOperation(w)
    <3>1. Busy(w) /\ UNCHANGED <<current, running, tasks>>
      BY <2>2 DEF RunDatabaseOperation, Busy, queue_vars
    <3>2. pc' = [pc EXCEPT ![w] = "done"]
      BY <2>2 DEF RunDatabaseOperation, LoadLocation, WriteLocation,
         DeleteLocation, WriteStatement, EndOperation
    <3> QED
      BY <3>1, <3>2, OneOperationStillBusy
  <2> QED
    BY <1>3, <2>1, <2>2, ClearExpiredDBTasksOneOperation,
       GetLocationDBTaskToRunOneOperation,
       ProcessLocationDBTaskResultOneOperation DEF WorkerStep
<1>4. CASE Tick
  BY <1>4, OneOperationFrame DEF Tick, worker_vars
<1> QED
  BY <1>1, <1>2, <1>3, <1>4 DEF Next

\* At any time at most one worker operates on a location, the fields of the
\* location say which operation it is, and its task is still in the queue.
THEOREM OneOperation == Spec => []OneOperationPerLocation
<1>1. Init => OneOperationPerLocation
  BY InitOneOperation
<1>2. TypeOK /\ OneOperationPerLocation /\ [Next]_vars => OneOperationPerLocation'
  BY NextOneOperation
<1> QED
  BY <1>1, <1>2, TypeCorrect, PTL DEF Spec

-----------------------------------------------------------------------------
(* Every task a group waits for is in the queue or answered, exactly once.    *)
(* The steps that answer tasks (expiry, a finished operation) only move task  *)
(* ids from the queue to the results of the task's group; the lemma           *)
(* TasksMoved states this once for both.                                      *)


\* The results of a group after AddResults have the ids of those it had and of
\* the new ones, each once.
LEMMA AddResultsIds ==
  ASSUME NEW g \in Group, results[g] \in SUBSET Result,
         NEW new \in SUBSET Result,
         \A r1, r2 \in results[g] : r1.taskid = r2.taskid => r1 = r2,
         \A n1, n2 \in new : n1.taskid = n2.taskid => n1 = n2,
         \A r \in results[g], n \in new : r.taskid # n.taskid
  PROVE  /\ {r.taskid : r \in AddResults(g, new)} =
              {r.taskid : r \in results[g]} \cup {n.taskid : n \in new}
         /\ \A r1, r2 \in AddResults(g, new) : r1.taskid = r2.taskid => r1 = r2
<1> DEFINE Overriding(r) ==
      {n \in new : /\ n.status = "OK"
                   /\ n.location_ID = r.location_ID
                   /\ n.direction = r.direction}
    Override(r) ==
      IF r.status # "OK" /\ Overriding(r) # {}
      THEN [r EXCEPT !.status = "OK",
                     !.location_data =
                        (CHOOSE n \in Overriding(r) : TRUE).location_data]
      ELSE r
<1>1. ASSUME NEW r \in Result PROVE Override(r).taskid = r.taskid
  <2> DEFINE d == (CHOOSE n \in Overriding(r) : TRUE).location_data
  <2> HIDE DEF d
  <2>1. [r EXCEPT !.status = "OK", !.location_data = d].taskid = r.taskid
    BY DEF Result
  <2> QED
    BY <2>1 DEF d
<1>2. AddResults(g, new) = {Override(r) : r \in results[g]} \cup new
  BY Zenon DEF AddResults
<1> HIDE DEF Override
<1> QED
  BY <1>1, <1>2

\* moved[l] leaves the queue of l, and new[g] are the answers of its tasks that
\* belong to g: one for each.
LEMMA TasksMoved ==
  ASSUME TypeOK, EveryTriggerHasOneTask,
         NEW moved, \A l \in Location : moved[l] \subseteq tasks[l],
         NEW new, \A g \in Group : new[g] \subseteq Result,
         \A g \in Group : \A n \in new[g] : \E l \in Location : \E u \in moved[l] :
           u.group_id = g /\ u.taskid = n.taskid,
         \A l \in Location : \A u \in moved[l] : \E n \in new[u.group_id] :
           u.taskid = n.taskid,
         \A g \in Group : \A n1, n2 \in new[g] : n1.taskid = n2.taskid => n1 = n2,
         tasks' = [l \in Location |-> tasks[l] \ moved[l]],
         results' = [g \in Group |-> AddResults(g, new[g])],
         UNCHANGED group_vars
  PROVE  EveryTriggerHasOneTask'
<1> SUFFICES ASSUME NEW g \in Group
             PROVE  /\ TriggerIds(g)' = QueuedIds(g)' \cup ResultIds(g)'
                    /\ \A i \in TriggerIds(g)' : i < seq_locationdb_taskid'[g]
                    /\ QueuedIds(g)' \cap ResultIds(g)' = {}
                    /\ \A l1, l2 \in Location : \A t1 \in tasks'[l1], t2 \in tasks'[l2] :
                         t1.group_id = g /\ t2.group_id = g /\ t1.taskid = t2.taskid
                           => l1 = l2 /\ t1 = t2
                    /\ \A r1, r2 \in results'[g] : r1.taskid = r2.taskid => r1 = r2
  BY DEF EveryTriggerHasOneTask
<1> DEFINE Ids == {n.taskid : n \in new[g]}
<1>1. UNCHANGED <<locationdb_triggers, seq_locationdb_taskid>>
  BY DEF group_vars
<1>2. TriggerIds(g)' = TriggerIds(g)
  BY <1>1 DEF TriggerIds
<1>3. \A l \in Location : tasks'[l] \subseteq tasks[l]
  OBVIOUS
<1>4. QueuedIds(g)' = QueuedIds(g) \ Ids
  <2>1. ASSUME NEW i \in QueuedIds(g)' PROVE i \in QueuedIds(g) /\ i \notin Ids
    <3>1. PICK l \in Location : \E t \in tasks'[l] : t.group_id = g /\ t.taskid = i
      BY DEF QueuedIds
    <3>a. PICK t \in tasks'[l] : t.group_id = g /\ t.taskid = i
      BY <3>1
    <3>2. t \in tasks[l] /\ t \notin moved[l]
      BY <3>a
    <3>3. i \in QueuedIds(g)
      BY <3>1, <3>2 DEF QueuedIds
    <3>4. ASSUME i \in Ids PROVE FALSE
      <4>. PICK m \in Location : \E u \in moved[m] : u.group_id = g /\ u.taskid = i
        BY <3>4
      <4>1. PICK u \in moved[m] : u.group_id = g /\ u.taskid = i
        OBVIOUS
      <4>2. u \in tasks[m]
        BY <4>1
      <4>3. l = m /\ t = u
        BY <3>1, <3>2, <4>1, <4>2 DEF EveryTriggerHasOneTask
      <4> QED
        BY <3>2, <4>1, <4>3
    <3> QED
      BY <3>3, <3>4
  <2>2. ASSUME NEW i \in QueuedIds(g), i \notin Ids PROVE i \in QueuedIds(g)'
    <3>. PICK l \in Location : \E t \in tasks[l] : t.group_id = g /\ t.taskid = i
      BY DEF QueuedIds
    <3>1. PICK t \in tasks[l] : t.group_id = g /\ t.taskid = i
      OBVIOUS
    <3>2. t \notin moved[l]
      BY <2>2, <3>1
    <3> QED
      BY <3>1, <3>2 DEF QueuedIds
  <2> QED
    BY <2>1, <2>2
<1>5. Ids \subseteq QueuedIds(g)
  <2>1. ASSUME NEW n \in new[g] PROVE n.taskid \in QueuedIds(g)
    <3>. PICK l \in Location : \E u \in moved[l] : u.group_id = g /\ u.taskid = n.taskid
      OBVIOUS
    <3>1. PICK u \in moved[l] : u.group_id = g /\ u.taskid = n.taskid
      OBVIOUS
    <3>2. u \in tasks[l]
      BY <3>1
    <3> QED
      BY <3>1, <3>2 DEF QueuedIds
  <2> QED
    BY <2>1
<1>6. \A r \in results[g], n \in new[g] : r.taskid # n.taskid
  <2>1. \A r \in results[g] : r.taskid \in ResultIds(g)
    BY DEF ResultIds
  <2>2. \A n \in new[g] : n.taskid \in Ids
    OBVIOUS
  <2>3. QueuedIds(g) \cap ResultIds(g) = {}
    BY DEF EveryTriggerHasOneTask
  <2> QED
    BY <1>5, <2>1, <2>2, <2>3
<1>7. /\ {r.taskid : r \in AddResults(g, new[g])} = ResultIds(g) \cup Ids
      /\ \A r1, r2 \in AddResults(g, new[g]) : r1.taskid = r2.taskid => r1 = r2
  <2>1. results[g] \in SUBSET Result /\ new[g] \in SUBSET Result
    BY DEF TypeOK
  <2>2. /\ \A r1, r2 \in results[g] : r1.taskid = r2.taskid => r1 = r2
        /\ \A n1, n2 \in new[g] : n1.taskid = n2.taskid => n1 = n2
    BY DEF EveryTriggerHasOneTask
  <2> QED
    BY <1>6, <2>1, <2>2, AddResultsIds DEF ResultIds
<1>8. results'[g] = AddResults(g, new[g])
  OBVIOUS
<1>9. ResultIds(g)' = ResultIds(g) \cup Ids
  BY <1>7, <1>8 DEF ResultIds
<1>10. /\ TriggerIds(g)' = QueuedIds(g)' \cup ResultIds(g)'
       /\ QueuedIds(g)' \cap ResultIds(g)' = {}
  <2> HIDE DEF Ids
  <2>1. TriggerIds(g) = QueuedIds(g) \cup ResultIds(g)
        /\ QueuedIds(g) \cap ResultIds(g) = {}
    BY DEF EveryTriggerHasOneTask
  <2> QED
    BY <1>2, <1>4, <1>5, <1>9, <2>1
<1>11. \A i \in TriggerIds(g)' : i < seq_locationdb_taskid'[g]
  BY <1>1, <1>2 DEF EveryTriggerHasOneTask
<1>12. \A l1, l2 \in Location : \A t1 \in tasks'[l1], t2 \in tasks'[l2] :
         t1.group_id = g /\ t2.group_id = g /\ t1.taskid = t2.taskid
           => l1 = l2 /\ t1 = t2
  BY <1>3 DEF EveryTriggerHasOneTask
<1> QED
  BY <1>7, <1>8, <1>10, <1>11, <1>12

LEMMA InitAnswers == Init => EveryTriggerHasOneTask
BY DEF Init, EveryTriggerHasOneTask, TriggerIds, QueuedIds, ResultIds

\* A step that leaves the queue, the answers and the triggers alone.
LEMMA AnswersFrame ==
  ASSUME EveryTriggerHasOneTask, UNCHANGED <<tasks, results, group_vars>>
  PROVE  EveryTriggerHasOneTask'
<1>1. ASSUME NEW g \in Group
      PROVE  /\ TriggerIds(g)' = TriggerIds(g)
             /\ QueuedIds(g)' = QueuedIds(g)
             /\ ResultIds(g)' = ResultIds(g)
  BY DEF TriggerIds, QueuedIds, ResultIds, group_vars
<1> QED
  BY <1>1 DEF EveryTriggerHasOneTask, group_vars

LEMMA AddLocationDBTaskAnswers ==
  ASSUME TypeOK, EveryTriggerHasOneTask,
         NEW g \in Group, NEW l \in Location, NEW a \in Trigger,
         NEW patience \in Patience, AddLocationDBTask(g, l, a, patience)
  PROVE  EveryTriggerHasOneTask'
<1> DEFINE id == seq_locationdb_taskid[g]
<1>1. PICK task : /\ task.group_id = g /\ task.taskid = id
                  /\ tasks' = [tasks EXCEPT ![l] = @ \cup {task}]
                  /\ locationdb_triggers' = [locationdb_triggers EXCEPT
                       ![g] = @ \cup {[taskid |-> id, action |-> a]}]
  <2> DEFINE task == [group_id |-> g, taskid |-> seq_locationdb_taskid[g],
               location_ID |-> l, direction |-> DirectionOf(a),
               execution_deadline |-> IF a = "Write_GroupShutdown"
                                      THEN write_locations_deadline[g] + 1
                                      ELSE now + patience,
               has_priority |-> a \in PriorityTrigger,
               task_executed |-> FALSE, attempted |-> FALSE]
  <2>1. tasks' = [tasks EXCEPT ![l] = @ \cup {task}]
    BY DEF AddLocationDBTask
  <2>2. locationdb_triggers' = [locationdb_triggers EXCEPT
          ![g] = @ \cup {[taskid |-> id, action |-> a]}]
    BY DEF AddLocationDBTask
  <2>3. task.group_id = g /\ task.taskid = id
    OBVIOUS
  <2> HIDE DEF task
  <2> QED
    BY <2>1, <2>2, <2>3
<1>2. /\ seq_locationdb_taskid' = [seq_locationdb_taskid EXCEPT ![g] = @ + 1]
      /\ UNCHANGED results
  BY DEF AddLocationDBTask
<1>3. id \in Nat /\ \A h \in Group : seq_locationdb_taskid[h] \in Nat
  BY ConstantsAssumption DEF TypeOK
<1>4. ASSUME NEW h \in Group
      PROVE  /\ TriggerIds(h)' = TriggerIds(h) \cup (IF h = g THEN {id} ELSE {})
             /\ QueuedIds(h)' = QueuedIds(h) \cup (IF h = g THEN {id} ELSE {})
             /\ ResultIds(h)' = ResultIds(h)
  <2>1. TriggerIds(h)' = TriggerIds(h) \cup (IF h = g THEN {id} ELSE {})
    <3>1. CASE h = g
      <4>1. locationdb_triggers'[h] =
              locationdb_triggers[h] \cup {[taskid |-> id, action |-> a]}
        BY <1>1, <3>1 DEF TypeOK
      <4>2. [taskid |-> id, action |-> a].taskid = id
        OBVIOUS
      <4> HIDE DEF id
      <4> QED
        BY <3>1, <4>1, <4>2 DEF TriggerIds
    <3>2. CASE h # g
      BY <1>1, <3>2 DEF TypeOK, TriggerIds
    <3> QED
      BY <3>1, <3>2
  <2>2. QueuedIds(h)' = QueuedIds(h) \cup (IF h = g THEN {id} ELSE {})
    <3>1. \A m \in Location : tasks'[m] =
            IF m = l THEN tasks[m] \cup {task} ELSE tasks[m]
      BY <1>1 DEF TypeOK
    <3>2. QueuedIds(h)' \subseteq QueuedIds(h) \cup (IF h = g THEN {id} ELSE {})
      BY <1>1, <3>1 DEF QueuedIds
    <3>3. QueuedIds(h) \cup (IF h = g THEN {id} ELSE {}) \subseteq QueuedIds(h)'
      BY <1>1, <3>1 DEF QueuedIds
    <3> QED
      BY <3>2, <3>3
  <2>3. ResultIds(h)' = ResultIds(h)
    BY <1>2 DEF ResultIds
  <2> QED
    BY <2>1, <2>2, <2>3
<1>5. id \notin TriggerIds(g) /\ id \notin QueuedIds(g) /\ id \notin ResultIds(g)
  BY <1>3 DEF EveryTriggerHasOneTask
<1>6. ASSUME NEW h \in Group
      PROVE  /\ TriggerIds(h)' = QueuedIds(h)' \cup ResultIds(h)'
             /\ QueuedIds(h)' \cap ResultIds(h)' = {}
             /\ \A i \in TriggerIds(h)' : i < seq_locationdb_taskid'[h]
             /\ \A r1, r2 \in results'[h] : r1.taskid = r2.taskid => r1 = r2
  <2>1. /\ TriggerIds(h) = QueuedIds(h) \cup ResultIds(h)
        /\ QueuedIds(h) \cap ResultIds(h) = {}
        /\ \A i \in TriggerIds(h) : i < seq_locationdb_taskid[h]
        /\ \A r1, r2 \in results[h] : r1.taskid = r2.taskid => r1 = r2
    BY DEF EveryTriggerHasOneTask
  <2>2. \A i \in TriggerIds(h) : i \in Nat
    BY DEF TypeOK, TriggerIds, LocationTrigger, TaskId
  <2>3. seq_locationdb_taskid'[h] =
          IF h = g THEN seq_locationdb_taskid[h] + 1 ELSE seq_locationdb_taskid[h]
    BY <1>2 DEF TypeOK
  <2>4. \A i \in TriggerIds(h)' : i < seq_locationdb_taskid'[h]
    BY <1>3, <1>4, <2>1, <2>2, <2>3
  <2> QED
    BY <1>2, <1>4, <1>5, <2>1, <2>4
<1>7. ASSUME NEW h \in Group, NEW l1 \in Location, NEW l2 \in Location,
             NEW t1 \in tasks'[l1], NEW t2 \in tasks'[l2],
             t1.group_id = h, t2.group_id = h, t1.taskid = t2.taskid
      PROVE  l1 = l2 /\ t1 = t2
  <2>1. \A m \in Location : tasks'[m] =
          IF m = l THEN tasks[m] \cup {task} ELSE tasks[m]
    BY <1>1 DEF TypeOK
  <2>2. ASSUME NEW m \in Location, NEW t \in tasks[m], t.group_id = g
        PROVE  t.taskid # id
    <3>1. t.taskid \in QueuedIds(g)
      BY <2>2 DEF QueuedIds
    <3> QED
      BY <1>5, <3>1
  <2>3. CASE t1 \in tasks[l1] /\ t2 \in tasks[l2]
    BY <1>7, <2>3 DEF EveryTriggerHasOneTask
  <2>4. CASE ~(t1 \in tasks[l1] /\ t2 \in tasks[l2])
    BY <1>1, <1>7, <2>1, <2>2, <2>4
  <2> QED
    BY <2>3, <2>4
<1> QED
  BY <1>6, <1>7 DEF EveryTriggerHasOneTask

LEMMA ProcessLocationDBTaskResultsAnswers ==
  ASSUME TypeOK, EveryTriggerHasOneTask, NEW g \in Group,
         ProcessLocationDBTaskResults(g)
  PROVE  EveryTriggerHasOneTask'
<1>1. /\ results' = [results EXCEPT ![g] = {}]
      /\ UNCHANGED <<tasks, seq_locationdb_taskid>>
  BY DEF ProcessLocationDBTaskResults, queue_vars
<1>2. ASSUME NEW h \in Group PROVE QueuedIds(h)' = QueuedIds(h)
  BY <1>1 DEF QueuedIds
<1>3. ASSUME NEW h \in Group, h # g
      PROVE  /\ TriggerIds(h)' = TriggerIds(h)
             /\ results'[h] = results[h]
             /\ ResultIds(h)' = ResultIds(h)
  BY <1>1, <1>3 DEF ProcessLocationDBTaskResults, TriggerIds, ResultIds, TypeOK
<1>4. /\ TriggerIds(g)' = TriggerIds(g) \ ResultIds(g)
      /\ results'[g] = {}
      /\ ResultIds(g)' = {}
  <2>1. locationdb_triggers'[g] =
          {e \in locationdb_triggers[g] : \A r \in results[g] : r.taskid # e.taskid}
    BY DEF ProcessLocationDBTaskResults, TypeOK
  <2>2. results'[g] = {}
    BY <1>1 DEF TypeOK
  <2> QED
    BY <2>1, <2>2 DEF TriggerIds, ResultIds
<1>5. ASSUME NEW h \in Group
      PROVE  /\ TriggerIds(h)' = QueuedIds(h)' \cup ResultIds(h)'
             /\ QueuedIds(h)' \cap ResultIds(h)' = {}
             /\ \A i \in TriggerIds(h)' : i < seq_locationdb_taskid'[h]
             /\ \A r1, r2 \in results'[h] : r1.taskid = r2.taskid => r1 = r2
  BY <1>1, <1>2, <1>3, <1>4 DEF EveryTriggerHasOneTask
<1>6. \A h \in Group : \A l1, l2 \in Location : \A t1 \in tasks'[l1], t2 \in tasks'[l2] :
        t1.group_id = h /\ t2.group_id = h /\ t1.taskid = t2.taskid
          => l1 = l2 /\ t1 = t2
  BY <1>1 DEF EveryTriggerHasOneTask
<1> QED
  BY <1>5, <1>6 DEF EveryTriggerHasOneTask

LEMMA ClearExpiredDBTasksAnswers ==
  ASSUME TypeOK, EveryTriggerHasOneTask, NEW w \in Worker,
         ClearExpiredDBTasks(w)
  PROVE  EveryTriggerHasOneTask'
<1> DEFINE AllExpired == UNION {ExpiredTasks(l) : l \in Location}
           moved == [l \in Location |-> ExpiredTasks(l)]
           new == [g \in Group |->
                     {ExpiredResult(t) : t \in {u \in AllExpired : u.group_id = g}}]
<1>1. \A l \in Location : moved[l] \subseteq tasks[l]
  BY DEF ExpiredTasks
<1>2. AllExpired \subseteq Task
  BY <1>1 DEF TypeOK
<1>3. \A g \in Group : new[g] \subseteq Result
  BY <1>2, ExpiredResultType
<1>4. \A t : ExpiredResult(t).taskid = t.taskid
  BY DEF ExpiredResult
<1>5. \A g \in Group : \A n \in new[g] : \E l \in Location : \E u \in moved[l] :
        u.group_id = g /\ u.taskid = n.taskid
  BY <1>4
<1>6. \A l \in Location : \A u \in moved[l] : \E n \in new[u.group_id] :
        u.taskid = n.taskid
  BY <1>2, <1>4 DEF Task
<1>7. ASSUME NEW g \in Group, NEW n1 \in new[g], NEW n2 \in new[g],
             n1.taskid = n2.taskid
      PROVE  n1 = n2
  <2>1. PICK t1 \in AllExpired : t1.group_id = g /\ n1 = ExpiredResult(t1)
    OBVIOUS
  <2>2. PICK t2 \in AllExpired : t2.group_id = g /\ n2 = ExpiredResult(t2)
    OBVIOUS
  <2>3. PICK l1 \in Location : t1 \in tasks[l1]
    BY <1>1, <2>1
  <2>4. PICK l2 \in Location : t2 \in tasks[l2]
    BY <1>1, <2>2
  <2>5. t1.taskid = t2.taskid
    BY <1>4, <1>7, <2>1, <2>2
  <2>6. t1 = t2
    BY <2>1, <2>2, <2>3, <2>4, <2>5 DEF EveryTriggerHasOneTask
  <2> QED
    BY <2>1, <2>2, <2>6
<1>8. /\ tasks' = [l \in Location |-> tasks[l] \ moved[l]]
      /\ results' = [g \in Group |-> AddResults(g, new[g])]
      /\ UNCHANGED group_vars
  BY DEF ClearExpiredDBTasks
<1> HIDE DEF moved, new
<1> QED
  BY <1>1, <1>3, <1>5, <1>6, <1>7, <1>8, TasksMoved

LEMMA ProcessLocationDBTaskResultAnswers ==
  ASSUME TypeOK, EveryTriggerHasOneTask, NEW w \in Worker,
         ProcessLocationDBTaskResult(w)
  PROVE  EveryTriggerHasOneTask'
<1> DEFINE t == current[w]
           l == t.location_ID
           ok == outcome[w].status = "OK"
           mark(u) == [u EXCEPT !.task_executed = TRUE,
                                !.attempted =
                                  @ \/ outcome[w].status # "WriteDeadlineReached"]
           answer(u) == [taskid |-> u.taskid, location_ID |-> l,
                         direction |-> t.direction, status |-> "OK",
                         location_data |-> outcome[w].location_data,
                         attempted |-> TRUE]
<1>1. t \in Task /\ l \in Location
  BY BusyTask DEF ProcessLocationDBTaskResult, Busy
<1>2. Covered(t) \subseteq tasks[l] /\ Covered(t) \subseteq Task
  BY <1>1 DEF Covered, TypeOK
<1>3. tasks' = [tasks EXCEPT ![l] = (tasks[l] \ Covered(t)) \cup
                  (IF ok THEN {} ELSE {mark(u) : u \in Covered(t)})]
      /\ UNCHANGED group_vars
  BY DEF ProcessLocationDBTaskResult
<1>4. CASE ok
  <2> DEFINE moved == [m \in Location |-> IF m = l THEN Covered(t) ELSE {}]
             new == [g \in Group |->
                       {answer(u) : u \in {v \in Covered(t) : v.group_id = g}}]
  <2>1. \A m \in Location : moved[m] \subseteq tasks[m]
    BY <1>2
  <2>2. ASSUME NEW u \in Covered(t) PROVE answer(u) \in Result
    <3>1. outcome[w].location_data \in Data /\ t.direction \in Direction
      BY <1>1 DEF TypeOK, Outcome, Task
    <3>2. u.taskid \in TaskId /\ "OK" \in Status
      BY <1>2 DEF Task, Status
    <3> HIDE DEF t, l
    <3> QED
      BY <1>1, <3>1, <3>2 DEF Result
  <2>3. \A u : answer(u).taskid = u.taskid
    OBVIOUS
  <2> HIDE DEF answer
  <2>4. \A g \in Group : new[g] \subseteq Result
    BY <2>2
  <2>5. \A g \in Group : \A n \in new[g] : \E m \in Location : \E u \in moved[m] :
          u.group_id = g /\ u.taskid = n.taskid
    BY <1>1, <2>3
  <2>6. \A m \in Location : \A u \in moved[m] : \E n \in new[u.group_id] :
          u.taskid = n.taskid
    <3> SUFFICES ASSUME NEW u \in Covered(t)
                 PROVE  \E n \in new[u.group_id] : u.taskid = n.taskid
      OBVIOUS
    <3>1. u.group_id \in Group
      BY <1>2 DEF Task
    <3>2. answer(u) \in new[u.group_id]
      BY <3>1
    <3> QED
      BY <2>3, <3>2
  <2>7. ASSUME NEW g \in Group, NEW n1 \in new[g], NEW n2 \in new[g],
               n1.taskid = n2.taskid
        PROVE  n1 = n2
    <3>1. PICK u1 \in Covered(t) : u1.group_id = g /\ n1 = answer(u1)
      OBVIOUS
    <3>2. PICK u2 \in Covered(t) : u2.group_id = g /\ n2 = answer(u2)
      OBVIOUS
    <3>3. u1 = u2
      BY <1>1, <1>2, <2>3, <2>7, <3>1, <3>2 DEF EveryTriggerHasOneTask
    <3> QED
      BY <3>1, <3>2, <3>3
  <2>8. tasks' = [m \in Location |-> tasks[m] \ moved[m]]
    BY <1>1, <1>3, <1>4 DEF TypeOK
  <2>9. results' = [g \in Group |-> AddResults(g, new[g])]
    BY <1>4 DEF ProcessLocationDBTaskResult, answer
  <2>10. UNCHANGED group_vars
    BY <1>3
  <2> HIDE DEF moved, new, t, l, ok
  <2> QED
    BY <2>1, <2>4, <2>5, <2>6, <2>7, <2>8, <2>9, <2>10, TasksMoved
<1>5. CASE ~ok
  <2>1. UNCHANGED results
    BY <1>5 DEF ProcessLocationDBTaskResult
  <2>2. ASSUME NEW u \in Covered(t)
        PROVE  mark(u).taskid = u.taskid /\ mark(u).group_id = u.group_id
    BY <1>2 DEF Task
  <2> HIDE DEF mark
  <2>3. \A m \in Location : tasks'[m] =
          IF m = l THEN (tasks[l] \ Covered(t)) \cup {mark(u) : u \in Covered(t)}
          ELSE tasks[m]
    BY <1>1, <1>3, <1>5 DEF TypeOK
  <2>4. ASSUME NEW m \in Location, NEW u \in tasks'[m]
        PROVE  \E v \in tasks[m] :
                 /\ v.group_id = u.group_id /\ v.taskid = u.taskid
                 /\ u = IF m = l /\ v \in Covered(t) THEN mark(v) ELSE v
    <3>1. CASE m # l
      BY <2>3, <3>1
    <3>2. CASE m = l /\ u \in tasks[l] \ Covered(t)
      BY <3>2
    <3>3. CASE m = l /\ u \in {mark(v) : v \in Covered(t)}
      <4>1. PICK v \in Covered(t) : u = mark(v)
        BY <3>3
      <4> QED
        BY <1>2, <2>2, <3>3, <4>1
    <3> QED
      BY <2>3, <3>1, <3>2, <3>3
  <2>5. ASSUME NEW g \in Group
        PROVE  /\ TriggerIds(g)' = TriggerIds(g)
               /\ QueuedIds(g)' = QueuedIds(g)
               /\ ResultIds(g)' = ResultIds(g)
    <3>1. QueuedIds(g)' \subseteq QueuedIds(g)
      BY <2>4 DEF QueuedIds
    <3>2. ASSUME NEW m \in Location, NEW u \in tasks[m], u.group_id = g
          PROVE  u.taskid \in QueuedIds(g)'
      <4>1. CASE m = l /\ u \in Covered(t)
        <5>1. mark(u) \in tasks'[m] /\ mark(u).group_id = g /\ mark(u).taskid = u.taskid
          BY <2>2, <2>3, <3>2, <4>1
        <5> QED
          BY <5>1 DEF QueuedIds
      <4>2. CASE ~(m = l /\ u \in Covered(t))
        <5>1. u \in tasks'[m]
          BY <2>3, <4>2
        <5> QED
          BY <3>2, <5>1 DEF QueuedIds
      <4> QED
        BY <4>1, <4>2
    <3>3. QueuedIds(g) \subseteq QueuedIds(g)'
      BY <3>2 DEF QueuedIds
    <3> QED
      BY <1>3, <2>1, <3>1, <3>3 DEF TriggerIds, ResultIds, group_vars
  <2>6. \A g \in Group : \A l1, l2 \in Location : \A t1 \in tasks'[l1], t2 \in tasks'[l2] :
          t1.group_id = g /\ t2.group_id = g /\ t1.taskid = t2.taskid
            => l1 = l2 /\ t1 = t2
    <3> SUFFICES ASSUME NEW g \in Group, NEW l1 \in Location, NEW l2 \in Location,
                        NEW t1 \in tasks'[l1], NEW t2 \in tasks'[l2],
                        t1.group_id = g, t2.group_id = g, t1.taskid = t2.taskid
                 PROVE  l1 = l2 /\ t1 = t2
      OBVIOUS
    <3>1. PICK v1 \in tasks[l1] :
            /\ v1.group_id = g /\ v1.taskid = t1.taskid
            /\ t1 = IF l1 = l /\ v1 \in Covered(t) THEN mark(v1) ELSE v1
      BY <2>4
    <3>2. PICK v2 \in tasks[l2] :
            /\ v2.group_id = g /\ v2.taskid = t2.taskid
            /\ t2 = IF l2 = l /\ v2 \in Covered(t) THEN mark(v2) ELSE v2
      BY <2>4
    <3>3. l1 = l2 /\ v1 = v2
      BY <3>1, <3>2 DEF EveryTriggerHasOneTask
    <3> QED
      BY <3>1, <3>2, <3>3
  <2> QED
    BY <1>3, <2>1, <2>5, <2>6 DEF EveryTriggerHasOneTask, group_vars
<1> QED
  BY <1>4, <1>5

LEMMA NextAnswers ==
  TypeOK /\ EveryTriggerHasOneTask /\ [Next]_vars => EveryTriggerHasOneTask'
<1> SUFFICES ASSUME TypeOK, EveryTriggerHasOneTask, [Next]_vars
             PROVE  EveryTriggerHasOneTask'
  OBVIOUS
<1>1. CASE UNCHANGED vars
  BY <1>1, AnswersFrame DEF vars, queue_vars
<1>2. ASSUME NEW g \in Group, GroupStep(g) PROVE EveryTriggerHasOneTask'
  <2>1. CASE ConfirmHeartbeat(g)
    BY <2>1, AnswersFrame DEF ConfirmHeartbeat, queue_vars
  <2> QED
    BY <1>2, <2>1, AddLocationDBTaskAnswers, ProcessLocationDBTaskResultsAnswers
       DEF GroupStep
<1>3. ASSUME NEW w \in Worker, WorkerStep(w) PROVE EveryTriggerHasOneTask'
  <2>1. CASE GetLocationDBTaskToRun(w)
    BY <2>1, AnswersFrame DEF GetLocationDBTaskToRun
  <2>2. CASE CheckWriteDeadline(w)
    BY <2>2, AnswersFrame DEF CheckWriteDeadline, queue_vars
  <2>3. CASE RunDatabaseOperation(w)
    BY <2>3, AnswersFrame DEF RunDatabaseOperation, queue_vars
  <2> QED
    BY <1>3, <2>1, <2>2, <2>3, ClearExpiredDBTasksAnswers,
       ProcessLocationDBTaskResultAnswers DEF WorkerStep
<1>4. CASE Tick
  BY <1>4, AnswersFrame DEF Tick
<1> QED
  BY <1>1, <1>2, <1>3, <1>4 DEF Next

\* Every task a group waits for is in the queue or answered, exactly once,
\* whatever the workers, the expiry and the database do.
THEOREM OneTaskPerTrigger == Spec => []EveryTriggerHasOneTask
<1>1. Init => EveryTriggerHasOneTask
  BY InitAnswers
<1>2. TypeOK /\ EveryTriggerHasOneTask /\ [Next]_vars => EveryTriggerHasOneTask'
  BY NextAnswers
<1> QED
  BY <1>1, <1>2, TypeCorrect, PTL DEF Spec

-----------------------------------------------------------------------------
(* The least deadline of a set of tasks. *)

LEMMA MinDeadlineOf ==
  ASSUME NEW S \in SUBSET Task, NEW t \in S,
         \A u \in S : t.execution_deadline <= u.execution_deadline
  PROVE  MinDeadline(S) = t.execution_deadline
<1> DEFINE Least(x) == \A u \in S : x.execution_deadline <= u.execution_deadline
           c == CHOOSE x \in S : Least(x)
<1>1. c \in S /\ Least(c)
  OBVIOUS
<1>2. MinDeadline(S) = c.execution_deadline
  BY DEF MinDeadline
<1>3. c.execution_deadline <= t.execution_deadline
      /\ t.execution_deadline <= c.execution_deadline
  BY <1>1
<1>4. c.execution_deadline \in Nat /\ t.execution_deadline \in Nat
  BY <1>1 DEF Task
<1> HIDE DEF c
<1> QED
  BY <1>2, <1>3, <1>4

LEMMA MinDeadlineIsOne ==
  ASSUME NEW S \in SUBSET Task, S # {}
  PROVE  \E t \in S : /\ MinDeadline(S) = t.execution_deadline
                      /\ \A u \in S : t.execution_deadline <= u.execution_deadline
<1> DEFINE D == {t.execution_deadline : t \in S}
<1>1. D \in SUBSET Nat /\ D # {}
  BY DEF Task
<1> HIDE DEF D
<1>2. PICK m \in D : \A n \in D : m <= n
  BY <1>1, LeastNatural
<1>3. PICK t \in S : \A u \in S : t.execution_deadline <= u.execution_deadline
  BY <1>2 DEF D
<1> QED
  BY <1>3, MinDeadlineOf

\* One more task: its deadline is taken if it is the first or earlier.
LEMMA MinDeadlineOfOneMore ==
  ASSUME NEW S \in SUBSET Task, NEW t \in Task,
         \A u \in S : u.execution_deadline > 0
  PROVE  MinDeadline(S \cup {t}) =
           IF MinDeadline(S) = 0 \/ t.execution_deadline < MinDeadline(S)
           THEN t.execution_deadline ELSE MinDeadline(S)
<1>1. t.execution_deadline \in Nat /\ \A u \in S : u.execution_deadline \in Nat
  BY DEF Task
<1>2. S \cup {t} \in SUBSET Task
  OBVIOUS
<1>3. CASE S = {}
  <2>1. MinDeadline(S) = 0
    BY <1>3 DEF MinDeadline
  <2>2. \A u \in S \cup {t} : t.execution_deadline <= u.execution_deadline
    BY <1>1, <1>3
  <2>3. MinDeadline(S \cup {t}) = t.execution_deadline
    BY <1>2, <2>2, MinDeadlineOf
  <2> QED
    BY <2>1, <2>3
<1>4. CASE S # {}
  <2>1. PICK s \in S : /\ MinDeadline(S) = s.execution_deadline
                       /\ \A u \in S : s.execution_deadline <= u.execution_deadline
    BY <1>4, MinDeadlineIsOne
  <2>2. s.execution_deadline > 0
    OBVIOUS
  <2>3. CASE t.execution_deadline < s.execution_deadline
    <3>1. \A u \in S \cup {t} : t.execution_deadline <= u.execution_deadline
      BY <1>1, <2>1, <2>3
    <3>2. MinDeadline(S \cup {t}) = t.execution_deadline
      BY <1>2, <3>1, MinDeadlineOf
    <3> QED
      BY <2>1, <2>3, <3>2
  <2>4. CASE ~(t.execution_deadline < s.execution_deadline)
    <3>1. \A u \in S \cup {t} : s.execution_deadline <= u.execution_deadline
      BY <1>1, <2>1, <2>4
    <3>2. MinDeadline(S \cup {t}) = s.execution_deadline
      BY <1>2, <3>1, MinDeadlineOf
    <3> QED
      BY <1>1, <2>1, <2>2, <2>4, <3>2
  <2> QED
    BY <2>3, <2>4
<1> QED
  BY <1>3, <1>4

-----------------------------------------------------------------------------
(* The cached deadlines.  0 stands for "no task", so the property is         *)
(* inductive only together with the fact that no deadline is 0.              *)

DeadlinesPositive ==
  \A l \in Location : \A t \in tasks[l] : t.execution_deadline > 0

DeadlinesInv == DeadlinesPositive /\ DeadlinesMatchQueue

LEMMA InitDeadlines == Init => DeadlinesInv
<1> SUFFICES ASSUME Init PROVE DeadlinesInv
  OBVIOUS
<1>1. \A p \in Pass : DeadlineOfPass({}, p) = 0
  BY DEF DeadlineOfPass, MinDeadline
<1> QED
  BY <1>1 DEF Init, DeadlinesInv, DeadlinesPositive, DeadlinesMatchQueue

LEMMA DeadlinesFrame ==
  ASSUME DeadlinesInv, UNCHANGED <<tasks, min_deadline>>
  PROVE  DeadlinesInv'
BY DEF DeadlinesInv, DeadlinesPositive, DeadlinesMatchQueue

LEMMA AddLocationDBTaskDeadlines ==
  ASSUME TypeOK, TypeOK', DeadlinesInv, NEW g \in Group, NEW l \in Location,
         NEW a \in Trigger, NEW patience \in Patience,
         AddLocationDBTask(g, l, a, patience)
  PROVE  DeadlinesInv'
<1> DEFINE deadline == IF a = "Write_GroupShutdown"
                       THEN write_locations_deadline[g] + 1
                       ELSE now + patience
    task == [group_id |-> g, taskid |-> seq_locationdb_taskid[g],
             location_ID |-> l, direction |-> DirectionOf(a),
             execution_deadline |-> deadline,
             has_priority |-> a \in PriorityTrigger,
             task_executed |-> FALSE, attempted |-> FALSE]
<1>1. deadline \in Nat /\ deadline > 0
  BY ConstantsAssumption DEF TypeOK
<1>2. tasks' = [tasks EXCEPT ![l] = @ \cup {task}]
      /\ min_deadline' = [min_deadline EXCEPT ![l] = [p \in Pass |->
           IF InPass(task, p) /\ (@[p] = 0 \/ deadline < @[p])
           THEN deadline ELSE @[p]]]
  BY DEF AddLocationDBTask
<1>3. task.execution_deadline = deadline
  OBVIOUS
<1> HIDE DEF task, deadline
<1>4. tasks \in [Location -> SUBSET Task] /\ min_deadline \in [Location -> [Pass -> Nat]]
  BY DEF TypeOK
<1>5. tasks'[l] = tasks[l] \cup {task} /\ \A m \in Location : m # l => tasks'[m] = tasks[m]
  BY <1>2, <1>4
<1>6. task \in Task
  BY <1>5 DEF TypeOK
<1>7. DeadlinesPositive'
  BY <1>1, <1>3, <1>5 DEF DeadlinesInv, DeadlinesPositive
<1>8. ASSUME NEW m \in Location, NEW p \in Pass
      PROVE  min_deadline'[m][p] = DeadlineOfPass(tasks'[m], p)
  <2>1. min_deadline[m][p] = DeadlineOfPass(tasks[m], p)
    BY DEF DeadlinesInv, DeadlinesMatchQueue
  <2>2. CASE m # l
    BY <1>2, <1>4, <1>5, <2>1, <2>2
  <2>3. CASE m = l
    <3> DEFINE S == {t \in tasks[l] : InPass(t, p)}
    <3>1. min_deadline'[l][p] =
            IF InPass(task, p) /\ (min_deadline[l][p] = 0 \/ deadline < min_deadline[l][p])
            THEN deadline ELSE min_deadline[l][p]
      BY <1>2, <1>4
    <3>2. min_deadline[l][p] = MinDeadline(S)
      BY <2>1, <2>3 DEF DeadlineOfPass
    <3>3. S \in SUBSET Task /\ \A u \in S : u.execution_deadline > 0
      BY <1>4 DEF DeadlinesInv, DeadlinesPositive
    <3>4. CASE InPass(task, p)
      <4>1. {t \in tasks'[l] : InPass(t, p)} = S \cup {task}
        BY <1>5, <3>4
      <4>2. DeadlineOfPass(tasks'[l], p) = MinDeadline(S \cup {task})
        BY <4>1 DEF DeadlineOfPass
      <4> HIDE DEF S
      <4>3. MinDeadline(S \cup {task}) =
              IF MinDeadline(S) = 0 \/ task.execution_deadline < MinDeadline(S)
              THEN task.execution_deadline ELSE MinDeadline(S)
        BY <1>6, <3>3, MinDeadlineOfOneMore
      <4> QED
        BY <1>3, <2>3, <3>1, <3>2, <3>4, <4>2, <4>3
    <3>5. CASE ~InPass(task, p)
      <4>1. {t \in tasks'[l] : InPass(t, p)} = S
        BY <1>5, <3>5
      <4>2. DeadlineOfPass(tasks'[l], p) = MinDeadline(S)
        BY <4>1 DEF DeadlineOfPass
      <4> QED
        BY <2>3, <3>1, <3>2, <3>5, <4>2
    <3> QED
      BY <3>4, <3>5
  <2> QED
    BY <2>2, <2>3
<1> QED
  BY <1>7, <1>8 DEF DeadlinesInv, DeadlinesMatchQueue

LEMMA ClearExpiredDBTasksDeadlines ==
  ASSUME DeadlinesInv, NEW w \in Worker, ClearExpiredDBTasks(w)
  PROVE  DeadlinesInv'
<1>1. /\ tasks' = [l \in Location |-> tasks[l] \ ExpiredTasks(l)]
      /\ min_deadline' = [l \in Location |-> [p \in Pass |->
                            DeadlineOfPass(tasks[l] \ ExpiredTasks(l), p)]]
  BY DEF ClearExpiredDBTasks
<1> QED
  BY <1>1 DEF DeadlinesInv, DeadlinesPositive, DeadlinesMatchQueue

LEMMA ProcessLocationDBTaskResultDeadlines ==
  ASSUME TypeOK, DeadlinesInv, NEW w \in Worker, ProcessLocationDBTaskResult(w)
  PROVE  DeadlinesInv'
<1> DEFINE t == current[w]
           l == t.location_ID
           ok == outcome[w].status = "OK"
           kind == KindOf(t)
           mark(u) == [u EXCEPT !.task_executed = TRUE,
                                !.attempted =
                                  @ \/ outcome[w].status # "WriteDeadlineReached"]
           marked == IF ok THEN {} ELSE {mark(u) : u \in Covered(t)}
           left == (tasks[l] \ Covered(t)) \cup marked
<1>1. t \in Task /\ l \in Location
  BY BusyTask DEF ProcessLocationDBTaskResult, Busy
<1>2. /\ tasks' = [tasks EXCEPT ![l] = left]
      /\ min_deadline' = [min_deadline EXCEPT ![l] = RefreshedDeadlines(l, left, kind)]
  BY DEF ProcessLocationDBTaskResult
<1>3. Covered(t) \subseteq tasks[l] /\ \A u \in Covered(t) : KindOf(u) = kind
  BY DEF Covered, KindOf
<1>4. ASSUME NEW u \in marked
      PROVE  KindOf(u) = kind /\ u.execution_deadline > 0
  <2>1. PICK v \in Covered(t) : u = mark(v)
    OBVIOUS
  <2>2. v \in Task /\ v.execution_deadline > 0
    BY <1>1, <1>3 DEF TypeOK, DeadlinesInv, DeadlinesPositive
  <2>3. u.direction = v.direction /\ u.execution_deadline = v.execution_deadline
    BY <2>1, <2>2 DEF Task
  <2> QED
    BY <1>3, <2>2, <2>3 DEF KindOf, IsRead
<1> HIDE DEF marked, t, kind, ok
<1>5. tasks'[l] = left /\ \A m \in Location : m # l => tasks'[m] = tasks[m]
  BY <1>1, <1>2 DEF TypeOK
<1>6. DeadlinesPositive'
  BY <1>1, <1>4, <1>5 DEF DeadlinesInv, DeadlinesPositive
<1>7. ASSUME NEW m \in Location, NEW p \in Pass
      PROVE  min_deadline'[m][p] = DeadlineOfPass(tasks'[m], p)
  <2>1. min_deadline[m][p] = DeadlineOfPass(tasks[m], p)
    BY DEF DeadlinesInv, DeadlinesMatchQueue
  <2>2. CASE m # l
    BY <1>2, <1>5, <2>1, <2>2 DEF TypeOK
  <2>3. CASE m = l /\ KindOfPass(p) = kind
    BY <1>1, <1>2, <1>5, <2>3 DEF TypeOK, RefreshedDeadlines
  <2>4. CASE m = l /\ KindOfPass(p) # kind
    <3>1. min_deadline'[l][p] = min_deadline[l][p]
      BY <1>1, <1>2, <2>4 DEF TypeOK, RefreshedDeadlines
    <3>2. {u \in left : InPass(u, p)} = {u \in tasks[l] : InPass(u, p)}
      BY <1>3, <1>4, <2>4 DEF InPass
    <3> HIDE DEF left
    <3> QED
      BY <1>5, <2>1, <2>4, <3>1, <3>2 DEF DeadlineOfPass
  <2> QED
    BY <2>2, <2>3, <2>4
<1> QED
  BY <1>6, <1>7 DEF DeadlinesInv, DeadlinesMatchQueue

LEMMA NextDeadlines ==
  TypeOK /\ TypeOK' /\ DeadlinesInv /\ [Next]_vars => DeadlinesInv'
<1> SUFFICES ASSUME TypeOK, TypeOK', DeadlinesInv, [Next]_vars
             PROVE  DeadlinesInv'
  OBVIOUS
<1>1. CASE UNCHANGED vars
  BY <1>1, DeadlinesFrame DEF vars, queue_vars
<1>2. ASSUME NEW g \in Group, GroupStep(g) PROVE DeadlinesInv'
  <2>1. CASE ProcessLocationDBTaskResults(g) \/ ConfirmHeartbeat(g)
    BY <2>1, DeadlinesFrame
       DEF ProcessLocationDBTaskResults, ConfirmHeartbeat, queue_vars
  <2> QED
    BY <1>2, <2>1, AddLocationDBTaskDeadlines DEF GroupStep
<1>3. ASSUME NEW w \in Worker, WorkerStep(w) PROVE DeadlinesInv'
  <2>1. CASE GetLocationDBTaskToRun(w)
    BY <2>1, DeadlinesFrame DEF GetLocationDBTaskToRun
  <2>2. CASE CheckWriteDeadline(w)
    BY <2>2, DeadlinesFrame DEF CheckWriteDeadline, queue_vars
  <2>3. CASE RunDatabaseOperation(w)
    BY <2>3, DeadlinesFrame DEF RunDatabaseOperation, queue_vars
  <2> QED
    BY <1>3, <2>1, <2>2, <2>3, ClearExpiredDBTasksDeadlines,
       ProcessLocationDBTaskResultDeadlines DEF WorkerStep
<1>4. CASE Tick
  BY <1>4, DeadlinesFrame DEF Tick
<1> QED
  BY <1>1, <1>2, <1>3, <1>4 DEF Next

LEMMA DeadlinesInvAlways == Spec => []DeadlinesInv
<1>1. Init => DeadlinesInv
  BY InitDeadlines
<1>2. TypeOK /\ TypeOK' /\ DeadlinesInv /\ [Next]_vars => DeadlinesInv'
  BY NextDeadlines
<1> QED
  BY <1>1, <1>2, TypeCorrect, PTL DEF Spec

\* The four cached deadlines of every location are those of its queue: a pass
\* of GetLocationDBTaskToRun overlooks no waiting task and stops at no empty
\* location.
THEOREM CachedDeadlines == Spec => []DeadlinesMatchQueue
<1>1. DeadlinesInv => DeadlinesMatchQueue
  BY DEF DeadlinesInv
<1> QED
  BY <1>1, DeadlinesInvAlways, PTL

-----------------------------------------------------------------------------
(* Tasks with priority.                                                      *)

LEMMA FourPasses == \A p \in Pass : p \in {0, 1, 2, 3}
BY DEF Pass

\* A pass whose deadline is 0 has no task.
LEMMA NoTaskInPass ==
  ASSUME TypeOK, DeadlinesInv, NEW l \in Location, NEW p \in Pass,
         min_deadline[l][p] = 0
  PROVE  \A t \in tasks[l] : ~InPass(t, p)
<1> DEFINE S == {t \in tasks[l] : InPass(t, p)}
<1>1. MinDeadline(S) = 0
  BY DEF DeadlinesInv, DeadlinesMatchQueue, DeadlineOfPass
<1>2. S \in SUBSET Task /\ \A t \in S : t.execution_deadline > 0
  BY DEF TypeOK, DeadlinesInv, DeadlinesPositive
<1> HIDE DEF S
<1>3. S = {}
  BY <1>1, <1>2, MinDeadlineIsOne
<1> QED
  BY <1>3 DEF S

\* What a worker picks: no task of the kind with priority is left behind at the
\* location by a task without.
LEMMA PickedTask ==
  ASSUME TypeOK, DeadlinesInv, NEW w \in Worker, GetLocationDBTaskToRun(w),
         pc'[w] = "run"
  PROVE  \E l \in Location : \E t \in tasks[l] :
           /\ current' = [current EXCEPT ![w] = t]
           /\ t.has_priority \/ \A u \in TasksOf(l, KindOf(t)) : ~u.has_priority
<1>1. ~Sleep(w)
  BY DEF Sleep, TypeOK
<1>2. PICK l \in Location, p \in Pass : Selectable(l, p) /\ StartTask(w, l, p)
  BY <1>1 DEF GetLocationDBTaskToRun
<1>3. PICK t \in tasks[l] : InPass(t, p) /\ current' = [current EXCEPT ![w] = t]
  BY <1>2 DEF StartTask
<1>4. CASE p \in {0, 1}
  BY <1>3, <1>4 DEF InPass
<1>5. CASE p \in {2, 3}
  <2> DEFINE q == IF p = 2 THEN 1 ELSE 0
  <2>1. q \in Pass /\ q < p /\ KindOfPass(q) = KindOfPass(p) /\ q \in {0, 1}
    BY <1>5 DEF Pass, KindOfPass
  <2> HIDE DEF q
  <2>2. min_deadline[l][q] = 0
    BY <1>2, <2>1 DEF Selectable
  <2>3. \A u \in tasks[l] : ~InPass(u, q)
    BY <2>1, <2>2, NoTaskInPass
  <2>4. \A u \in TasksOf(l, KindOf(t)) : ~u.has_priority
    BY <1>3, <2>1, <2>3 DEF InPass, TasksOf
  <2> QED
    BY <1>3, <2>4
<1> QED
  BY <1>4, <1>5, FourPasses

\* Only the choice of a task takes a worker from "pick" to "run".
LEMMA PickingStep ==
  ASSUME TypeOK, [Next]_vars, NEW w \in Worker, pc[w] = "pick", pc'[w] = "run"
  PROVE  GetLocationDBTaskToRun(w)
<1>1. pc' # pc
  OBVIOUS
<1>2. ~(UNCHANGED vars) /\ ~Tick
  BY <1>1 DEF vars, worker_vars, Tick
<1>3. ASSUME NEW g \in Group, GroupStep(g) PROVE FALSE
  <2>1. ASSUME NEW l \in Location, NEW a \in Trigger, NEW patience \in Patience,
               AddLocationDBTask(g, l, a, patience)
        PROVE  UNCHANGED worker_vars
    BY <2>1 DEF AddLocationDBTask
  <2>2. UNCHANGED worker_vars
    BY <1>3, <2>1, Zenon
       DEF GroupStep, ProcessLocationDBTaskResults, ConfirmHeartbeat
  <2> QED
    BY <1>1, <2>2 DEF worker_vars
<1>4. PICK v \in Worker : WorkerStep(v)
  BY <1>2, <1>3 DEF Next
<1>5. \A u \in Worker : u # v => pc'[u] = pc[u]
  <2>1. \E s \in {"clear", "pick", "run", "query", "done"} : pc' = [pc EXCEPT ![v] = s]
    BY <1>4 DEF WorkerStep, ClearExpiredDBTasks, GetLocationDBTaskToRun, StartTask,
       Sleep, CheckWriteDeadline, RunDatabaseOperation, LoadLocation, WriteLocation,
       DeleteLocation, WriteStatement, EndOperation, ProcessLocationDBTaskResult
  <2> QED
    BY <2>1 DEF TypeOK
<1>6. v = w
  BY <1>5
<1> QED
  BY <1>4, <1>6 DEF WorkerStep, ClearExpiredDBTasks, CheckWriteDeadline,
     RunDatabaseOperation, ProcessLocationDBTaskResult

\* No task without priority is started while one of the same kind with priority
\* waits at its location, whatever the throttling and the other locations do.
THEOREM PriorityFirst == Spec => PriorityGoesFirst
<1> DEFINE Step == \A w \in Worker : pc[w] = "pick" /\ pc'[w] = "run" =>
       LET t == current'[w] IN
       t.has_priority \/ \A u \in TasksOf(t.location_ID, KindOf(t)) : ~u.has_priority
<1>1. TypeOK /\ DeadlinesInv /\ [Next]_vars => Step
  <2> SUFFICES ASSUME TypeOK, DeadlinesInv, [Next]_vars,
                      NEW w \in Worker, pc[w] = "pick", pc'[w] = "run"
               PROVE  LET t == current'[w] IN
                      t.has_priority \/ \A u \in TasksOf(t.location_ID, KindOf(t)) :
                                          ~u.has_priority
    OBVIOUS
  <2>1. GetLocationDBTaskToRun(w)
    BY PickingStep
  <2>2. PICK l \in Location : \E t \in tasks[l] :
           /\ current' = [current EXCEPT ![w] = t]
           /\ t.has_priority \/ \A u \in TasksOf(l, KindOf(t)) : ~u.has_priority
    BY <2>1, PickedTask
  <2>3. PICK t \in tasks[l] :
           /\ current' = [current EXCEPT ![w] = t]
           /\ t.has_priority \/ \A u \in TasksOf(l, KindOf(t)) : ~u.has_priority
    BY <2>2
  <2>4. current'[w] = t /\ t.location_ID = l
    BY <2>3 DEF TypeOK
  <2> QED
    BY <2>3, <2>4
<1>2. Spec => [][Step]_vars
  BY <1>1, TypeCorrect, DeadlinesInvAlways, PTL DEF Spec
<1> QED
  BY <1>2 DEF PriorityGoesFirst

-----------------------------------------------------------------------------
(* What the tasks are told.  Nobody else touches the row and the parts entry *)
(* of a location while an operation runs on it, so what the operation found  *)
(* or left still holds when it is answered.  All of this is about statements *)
(* whose failure means that they did not run (LostReply = FALSE).            *)

\* The data told of an operation and the row.
AgreesWithRow(direction, l, data) ==
  CASE direction = "Read" -> data \in {database[l], EmptyData}
    [] direction \in {"Write", "Insert"} -> l \in Guest \/ database[l] = data
    [] direction = "Delete" -> database[l] = Missing
    [] OTHER -> TRUE

OutcomeAgrees(w) ==
  pc[w] = "done" /\ outcome[w].status = "OK" =>
    AgreesWithRow(current[w].direction, current[w].location_ID,
                  outcome[w].location_data)

\* total_parts tells that there is a row.
PartsTellRow == \A l \in Location : total_parts[l] > 0 => database[l] # Missing

DatabaseInv == PartsTellRow /\ \A w \in Worker : OutcomeAgrees(w)

LEMMA InitDatabase == Init => DatabaseInv
BY DEF Init, DatabaseInv, PartsTellRow, OutcomeAgrees

LEMMA ContentIsNotMissing ==
  ASSUME NEW t \in Task
  PROVE  ContentOf(t) # Missing
BY ContentOfTask, ConstantsAssumption

\* What a write that runs may do.
LEMMA WriteStatementEffect ==
  ASSUME TypeOK, ~LostReply, NEW w \in Worker, NEW l \in Location, NEW row,
         NEW parts, NEW data, WriteStatement(w, l, row, parts, data)
  PROVE  \/ /\ EndOperation(w, "OK", data)
            /\ database' = [database EXCEPT ![l] = row]
            /\ total_parts' = [total_parts EXCEPT ![l] = parts]
         \/ /\ EndOperation(w, "WriteFailed", NoData)
            /\ UNCHANGED <<database, total_parts>>
BY DEF WriteStatement, backend_vars

\* The ways an operation may end, with the row and the parts entry it leaves.
OperationEnds(w, t, l, status, data) ==
  /\ EndOperation(w, status, data)
  /\ \A m \in Location : m # l =>
       database'[m] = database[m] /\ total_parts'[m] = total_parts[m]
  /\ total_parts'[l] > 0 => database'[l] # Missing
  /\ status = "OK" => AgreesWithRow(t.direction, l, data)'
  /\ \/ database'[l] = database[l]
     \/ database'[l] = Missing
     \/ /\ database'[l] = ContentOf(t)
        /\ t.direction \in {"Write", "Insert"}
        /\ status = "OK"

\* An operation that changes no row.
LEMMA EndsUnchanged ==
  ASSUME TypeOK, PartsTellRow, NEW w \in Worker, NEW t \in Task,
         NEW l \in Location, l = t.location_ID,
         NEW status, NEW data, EndOperation(w, status, data),
         UNCHANGED <<database, total_parts>>,
         status = "OK" => AgreesWithRow(t.direction, l, data)
  PROVE  OperationEnds(w, t, l, status, data)
BY DEF OperationEnds, PartsTellRow, AgreesWithRow

LEMMA WriteLocationEffect ==
  ASSUME TypeOK, PartsTellRow, ~LostReply, NEW w \in Worker, NEW t \in Task,
         t.direction \in {"Write", "Insert"}, WriteLocation(w, t)
  PROVE  \E status \in Status, data \in Data :
           OperationEnds(w, t, t.location_ID, status, data)
<1> DEFINE l == t.location_ID
           v == ContentOf(t)
<1>1. /\ l \in Location /\ v \in Version /\ v \in Data /\ v # Missing
      /\ NoData \in Data /\ {"OK", "WriteFailed"} \subseteq Status
  BY ContentOfTask, ContentIsNotMissing DEF Task, Data, Status
<1>2. total_parts[l] \in {0, 1} /\ (total_parts[l] > 0 => database[l] # Missing)
  BY <1>1 DEF TypeOK, PartsTellRow
<1>3. ASSUME EndOperation(w, "WriteFailed", NoData), UNCHANGED <<database, total_parts>>
      PROVE  OperationEnds(w, t, l, "WriteFailed", NoData)
  BY <1>1, <1>3, EndsUnchanged
<1>4. ASSUME NEW parts \in {0, 1}, EndOperation(w, "OK", v),
             database' = [database EXCEPT ![l] = v],
             total_parts' = [total_parts EXCEPT ![l] = parts]
      PROVE  OperationEnds(w, t, l, "OK", v)
  <2>1. database'[l] = v /\ \A m \in Location : m # l =>
          database'[m] = database[m] /\ total_parts'[m] = total_parts[m]
    BY <1>1, <1>4 DEF TypeOK
  <2> HIDE DEF l, v
  <2>2. AgreesWithRow(t.direction, l, v)'
    BY <2>1 DEF AgreesWithRow
  <2> QED
    BY <1>1, <1>4, <2>1, <2>2 DEF OperationEnds, v
<1>5. CASE l \in Guest
  <2>1. EndOperation(w, "OK", v) /\ UNCHANGED <<database, total_parts>>
    BY <1>5 DEF WriteLocation, backend_vars
  <2>2. AgreesWithRow(t.direction, l, v)
    BY <1>5 DEF AgreesWithRow
  <2>3. OperationEnds(w, t, l, "OK", v)
    BY <1>1, <2>1, <2>2, EndsUnchanged
  <2> QED
    BY <1>1, <2>3
<1>6. CASE l \notin Guest /\ total_parts[l] > 0
  <2>1. WriteStatement(w, l, v, total_parts[l], v)
    BY <1>2, <1>6 DEF WriteLocation
  <2> HIDE DEF l, v
  <2>2. \/ /\ EndOperation(w, "OK", v)
           /\ database' = [database EXCEPT ![l] = v]
           /\ total_parts' = [total_parts EXCEPT ![l] = total_parts[l]]
        \/ /\ EndOperation(w, "WriteFailed", NoData)
           /\ UNCHANGED <<database, total_parts>>
    BY <1>1, <2>1, WriteStatementEffect
  <2>3. OperationEnds(w, t, l, "OK", v) \/ OperationEnds(w, t, l, "WriteFailed", NoData)
    BY <1>2, <1>3, <1>4, <2>2
  <2> QED
    BY <1>1, <2>3 DEF l
<1>7. CASE l \notin Guest /\ total_parts[l] = 0
  <2>1. \/ WriteStatement(w, l, v, 1, v)
        \/ EndOperation(w, "WriteFailed", NoData) /\ UNCHANGED backend_vars
    BY <1>7 DEF WriteLocation
  <2> HIDE DEF l, v
  <2>2. \/ /\ EndOperation(w, "OK", v)
           /\ database' = [database EXCEPT ![l] = v]
           /\ total_parts' = [total_parts EXCEPT ![l] = 1]
        \/ /\ EndOperation(w, "WriteFailed", NoData)
           /\ UNCHANGED <<database, total_parts>>
    BY <1>1, <2>1, WriteStatementEffect DEF backend_vars
  <2>3. OperationEnds(w, t, l, "OK", v) \/ OperationEnds(w, t, l, "WriteFailed", NoData)
    BY <1>3, <1>4, <2>2
  <2> QED
    BY <1>1, <2>3 DEF l
<1> QED
  BY <1>2, <1>5, <1>6, <1>7

LEMMA RunDatabaseOperationEffect ==
  ASSUME TypeOK, PartsTellRow, ~LostReply, NEW w \in Worker,
         RunDatabaseOperation(w),
         NEW t \in Task, t = current[w], NEW l \in Location, l = t.location_ID
  PROVE  \E status \in Status, data \in Data : OperationEnds(w, t, l, status, data)
<1>1. t \in Task /\ l \in Location
  OBVIOUS
<1>2. /\ {NoData, EmptyData, LocationsIds} \subseteq Data
      /\ {"OK", "ReadFailed", "WriteFailed"} \subseteq Status
  BY DEF Data, Status
<1>3. CASE t.direction = "Read"
  <2>1. LoadLocation(w, l) /\ UNCHANGED database
    BY <1>3 DEF RunDatabaseOperation
  <2>2. CASE /\ database[l] # Missing
             /\ total_parts' = [total_parts EXCEPT ![l] = 1]
             /\ EndOperation(w, "OK", database[l])
    <3>1. PICK data \in Data : data = database[l]
      BY <1>1, <2>2 DEF TypeOK, Row, Data
    <3>2. \A m \in Location : m # l => total_parts'[m] = total_parts[m]
      BY <1>1, <2>2 DEF TypeOK
    <3>3. AgreesWithRow(t.direction, l, data)'
      BY <1>3, <2>1, <3>1 DEF AgreesWithRow
    <3>4. OperationEnds(w, t, l, "OK", data)
      BY <2>1, <2>2, <3>1, <3>2, <3>3 DEF OperationEnds
    <3> QED
      BY <1>2, <3>1, <3>4
  <2>3. CASE EndOperation(w, "ReadFailed", NoData) /\ UNCHANGED total_parts
    <3>1. OperationEnds(w, t, l, "ReadFailed", NoData)
      BY <1>1, <2>1, <2>3, EndsUnchanged
    <3> QED
      BY <1>2, <3>1
  <2>4. CASE EndOperation(w, "OK", EmptyData) /\ UNCHANGED total_parts
    <3>1. AgreesWithRow(t.direction, l, EmptyData)
      BY <1>3 DEF AgreesWithRow
    <3>2. OperationEnds(w, t, l, "OK", EmptyData)
      BY <1>1, <2>1, <2>4, <3>1, EndsUnchanged
    <3> QED
      BY <1>2, <3>2
  <2> QED
    BY <2>1, <2>2, <2>3, <2>4 DEF LoadLocation
<1>4. CASE t.direction = "Read_Locations_Ids"
  <2>1. EndOperation(w, "OK", LocationsIds) /\ UNCHANGED <<database, total_parts>>
    BY <1>4 DEF RunDatabaseOperation, backend_vars
  <2>2. AgreesWithRow(t.direction, l, LocationsIds)
    BY <1>4 DEF AgreesWithRow
  <2>3. OperationEnds(w, t, l, "OK", LocationsIds)
    BY <1>1, <2>1, <2>2, EndsUnchanged
  <2> QED
    BY <1>2, <2>3
<1>5. CASE t.direction = "Delete"
  <2>1. DeleteLocation(w, t)
    BY <1>5 DEF RunDatabaseOperation
  <2>2. \/ WriteStatement(w, l, Missing, 0, NoData)
        \/ EndOperation(w, "WriteFailed", NoData) /\ UNCHANGED <<database, total_parts>>
    BY <2>1 DEF DeleteLocation, backend_vars
  <2>3. \/ /\ EndOperation(w, "OK", NoData)
           /\ database' = [database EXCEPT ![l] = Missing]
           /\ total_parts' = [total_parts EXCEPT ![l] = 0]
        \/ EndOperation(w, "WriteFailed", NoData) /\ UNCHANGED <<database, total_parts>>
    BY <1>1, <2>2, WriteStatementEffect
  <2>4. CASE /\ EndOperation(w, "OK", NoData)
             /\ database' = [database EXCEPT ![l] = Missing]
             /\ total_parts' = [total_parts EXCEPT ![l] = 0]
    <3>1. /\ database'[l] = Missing /\ total_parts'[l] = 0
          /\ \A m \in Location : m # l =>
               database'[m] = database[m] /\ total_parts'[m] = total_parts[m]
      BY <1>1, <2>4 DEF TypeOK
    <3>2. AgreesWithRow(t.direction, l, NoData)'
      BY <1>5, <3>1 DEF AgreesWithRow
    <3>3. OperationEnds(w, t, l, "OK", NoData)
      BY <2>4, <3>1, <3>2 DEF OperationEnds
    <3> QED
      BY <1>2, <3>3
  <2>5. CASE EndOperation(w, "WriteFailed", NoData) /\ UNCHANGED <<database, total_parts>>
    <3>1. OperationEnds(w, t, l, "WriteFailed", NoData)
      BY <1>1, <2>5, EndsUnchanged
    <3> QED
      BY <1>2, <3>1
  <2> QED
    BY <2>3, <2>4, <2>5
<1>6. CASE t.direction \in {"Write", "Insert"}
  <2>1. WriteLocation(w, t)
    BY <1>6 DEF RunDatabaseOperation
  <2> QED
    BY <1>1, <1>6, <2>1, WriteLocationEffect
<1> QED
  BY <1>1, <1>3, <1>4, <1>5, <1>6 DEF Task, Direction, ReadDirection, WriteDirection

\* A step that ends no operation successfully and leaves the rows alone.
LEMMA DatabaseFrame ==
  ASSUME DatabaseInv, UNCHANGED <<database, total_parts>>,
         \A w \in Worker : pc'[w] = "done" /\ outcome'[w].status = "OK" =>
           pc[w] = "done" /\ outcome'[w] = outcome[w] /\ current'[w] = current[w]
  PROVE  DatabaseInv'
BY DEF DatabaseInv, PartsTellRow, OutcomeAgrees, AgreesWithRow

LEMMA RunDatabaseOperationDatabase ==
  ASSUME TypeOK, OneOperationPerLocation, DatabaseInv, ~LostReply,
         NEW w \in Worker, RunDatabaseOperation(w)
  PROVE  DatabaseInv'
<1>1. Busy(w) /\ UNCHANGED current
  BY DEF RunDatabaseOperation, Busy
<1>2. PICK t \in Task : t = current[w]
  BY <1>1, BusyTask
<1>3. PICK l \in Location : l = t.location_ID
  BY <1>1, <1>2, BusyTask
<1>4. PICK status \in Status, data \in Data : OperationEnds(w, t, l, status, data)
  BY <1>2, <1>3, RunDatabaseOperationEffect DEF DatabaseInv
<1>5. /\ pc' = [pc EXCEPT ![w] = "done"]
      /\ outcome' = [outcome EXCEPT ![w] = [status |-> status, location_data |-> data]]
  BY <1>4 DEF OperationEnds, EndOperation
<1>6. PartsTellRow'
  BY <1>4 DEF OperationEnds, DatabaseInv, PartsTellRow
<1>7. ASSUME NEW v \in Worker, pc'[v] = "done", outcome'[v].status = "OK"
      PROVE  AgreesWithRow(current[v].direction, current[v].location_ID,
                           outcome[v].location_data)'
  <2>1. CASE v = w
    <3>1. outcome'[w] = [status |-> status, location_data |-> data]
      BY <1>5 DEF TypeOK
    <3>2. AgreesWithRow(t.direction, l, data)'
      BY <1>4, <1>7, <2>1, <3>1 DEF OperationEnds
    <3> QED
      BY <1>1, <1>2, <1>3, <2>1, <3>1, <3>2 DEF AgreesWithRow
  <2>2. CASE v # w
    <3>1. pc[v] = "done" /\ outcome'[v] = outcome[v]
      BY <1>5, <1>7, <2>2 DEF TypeOK
    <3>2. Busy(v)
      BY <3>1 DEF Busy
    <3>3. current[v].location_ID \in Location /\ current[v].location_ID # l
      BY <1>1, <1>2, <1>3, <2>2, <3>2, BusyTask DEF OneOperationPerLocation
    <3>4. database'[current[v].location_ID] = database[current[v].location_ID]
      BY <1>4, <3>3 DEF OperationEnds
    <3>5. AgreesWithRow(current[v].direction, current[v].location_ID,
                        outcome[v].location_data)
      BY <1>7, <3>1 DEF DatabaseInv, OutcomeAgrees
    <3> QED
      BY <1>1, <3>1, <3>4, <3>5 DEF AgreesWithRow
  <2> QED
    BY <2>1, <2>2
<1> QED
  BY <1>1, <1>6, <1>7 DEF DatabaseInv, OutcomeAgrees, AgreesWithRow

LEMMA NextDatabase ==
  ASSUME ~LostReply
  PROVE  TypeOK /\ OneOperationPerLocation /\ DatabaseInv /\ [Next]_vars => DatabaseInv'
<1> SUFFICES ASSUME TypeOK, OneOperationPerLocation, DatabaseInv, [Next]_vars
             PROVE  DatabaseInv'
  OBVIOUS
<1>1. CASE UNCHANGED <<worker_vars, backend_vars>>
  BY <1>1, DatabaseFrame DEF worker_vars, backend_vars
<1>2. CASE UNCHANGED vars
  BY <1>1, <1>2 DEF vars
<1>3. ASSUME NEW g \in Group, GroupStep(g) PROVE DatabaseInv'
  <2>1. ASSUME NEW l \in Location, NEW a \in Trigger, NEW patience \in Patience,
               AddLocationDBTask(g, l, a, patience)
        PROVE  UNCHANGED <<worker_vars, backend_vars>>
    BY <2>1 DEF AddLocationDBTask
  <2>2. UNCHANGED <<worker_vars, backend_vars>>
    BY <1>3, <2>1, Zenon
       DEF GroupStep, ProcessLocationDBTaskResults, ConfirmHeartbeat
  <2> QED
    BY <1>1, <2>2
<1>4. ASSUME NEW w \in Worker, WorkerStep(w) PROVE DatabaseInv'
  <2>1. CASE ClearExpiredDBTasks(w)
    BY <2>1, DatabaseFrame DEF ClearExpiredDBTasks, backend_vars, TypeOK
  <2>2. CASE GetLocationDBTaskToRun(w)
    <3>1. UNCHANGED <<database, total_parts, outcome>>
      BY <2>2 DEF GetLocationDBTaskToRun, backend_vars
    <3>2. (\E t : current' = [current EXCEPT ![w] = t] /\ pc' = [pc EXCEPT ![w] = "run"])
          \/ (UNCHANGED current /\ pc' = [pc EXCEPT ![w] = "clear"])
      BY <2>2 DEF GetLocationDBTaskToRun, StartTask, Sleep
    <3>3. \A v \in Worker : pc'[v] = "done" =>
            pc[v] = "done" /\ current'[v] = current[v]
      BY <3>2 DEF TypeOK
    <3> QED
      BY <3>1, <3>3, DatabaseFrame
  <2>3. CASE CheckWriteDeadline(w)
    <3>1. UNCHANGED <<database, total_parts, current>>
      BY <2>3 DEF CheckWriteDeadline, backend_vars
    <3>2. \/ EndOperation(w, "WriteDeadlineReached", NoData)
          \/ EndOperation(w, "WriteFailed", NoData)
          \/ pc' = [pc EXCEPT ![w] = "query"] /\ UNCHANGED outcome
      BY <2>3 DEF CheckWriteDeadline
    <3>3. \A v \in Worker : pc'[v] = "done" /\ outcome'[v].status = "OK" =>
            pc[v] = "done" /\ outcome'[v] = outcome[v]
      BY <3>2 DEF EndOperation, TypeOK
    <3> QED
      BY <3>1, <3>3, DatabaseFrame
  <2>4. CASE ProcessLocationDBTaskResult(w)
    <3>1. /\ UNCHANGED <<database, total_parts>>
          /\ pc' = [pc EXCEPT ![w] = "clear"]
          /\ current' = [current EXCEPT ![w] = NoTask]
          /\ outcome' = [outcome EXCEPT ![w] = NoOutcome]
      BY <2>4 DEF ProcessLocationDBTaskResult, backend_vars
    <3> QED
      BY <3>1, DatabaseFrame DEF TypeOK
  <2> QED
    BY <1>4, <2>1, <2>2, <2>3, <2>4, RunDatabaseOperationDatabase DEF WorkerStep
<1>5. CASE Tick
  BY <1>1, <1>5 DEF Tick
<1> QED
  BY <1>2, <1>3, <1>4, <1>5 DEF Next

LEMMA DatabaseInvAlways ==
  ASSUME ~LostReply
  PROVE  Spec => []DatabaseInv
<1>1. Init => DatabaseInv
  BY InitDatabase
<1>2. TypeOK /\ OneOperationPerLocation /\ DatabaseInv /\ [Next]_vars => DatabaseInv'
  BY NextDatabase
<1> QED
  BY <1>1, <1>2, TypeCorrect, OneOperation, PTL DEF Spec

\* Where an answer that says OK and was not there comes from.
LEMMA NewAnswerFrom ==
  ASSUME NEW g \in Group, results[g] \in SUBSET Result, NEW new \in SUBSET Result,
         NEW r \in AddResults(g, new), r \notin results[g], r.status = "OK"
  PROVE  \E n \in new : /\ n.status = "OK"
                        /\ r.location_ID = n.location_ID
                        /\ r.direction = n.direction
                        /\ r.location_data = n.location_data
<1> DEFINE Overriding(x) ==
      {n \in new : /\ n.status = "OK"
                   /\ n.location_ID = x.location_ID
                   /\ n.direction = x.direction}
    Override(x) ==
      IF x.status # "OK" /\ Overriding(x) # {}
      THEN [x EXCEPT !.status = "OK",
                     !.location_data =
                        (CHOOSE n \in Overriding(x) : TRUE).location_data]
      ELSE x
<1>1. AddResults(g, new) = {Override(x) : x \in results[g]} \cup new
  BY Zenon DEF AddResults
<1>2. CASE r \in new
  BY <1>2
<1>3. CASE r \notin new
  <2>1. PICK x \in results[g] : r = Override(x)
    BY <1>1, <1>3
  <2>2. x.status # "OK" /\ Overriding(x) # {}
    BY <2>1
  <2>3. PICK n \in Overriding(x) : n = CHOOSE m \in Overriding(x) : TRUE
    BY <2>2
  <2>4. r = [x EXCEPT !.status = "OK", !.location_data = n.location_data]
    BY <2>1, <2>2, <2>3
  <2>5. r.location_ID = x.location_ID /\ r.direction = x.direction
        /\ r.location_data = n.location_data
    BY <2>4 DEF Result
  <2> QED
    BY <2>3, <2>5
<1> QED
  BY <1>2, <1>3

\* One step of AnswersAgreeWithDatabase.
AnswersAgree ==
  \A g \in Group : \A r \in NewAnswers(g) :
    LET row == database[r.location_ID] IN
    CASE r.direction = "Read" -> r.location_data \in {row, EmptyData}
      [] r.direction \in {"Write", "Insert"} ->
           r.location_ID \in Guest \/ row = r.location_data
      [] r.direction = "Delete" -> row = Missing
      [] OTHER -> TRUE

LEMMA ExpiryAnswersNothingOK ==
  ASSUME TypeOK, NEW w \in Worker, ClearExpiredDBTasks(w), NEW g \in Group
  PROVE  NewAnswers(g) = {}
<1> DEFINE new == {ExpiredResult(t) :
              t \in {u \in UNION {ExpiredTasks(l) : l \in Location} : u.group_id = g}}
<1>1. results'[g] = AddResults(g, new)
  BY DEF ClearExpiredDBTasks
<1>2. UNION {ExpiredTasks(l) : l \in Location} \in SUBSET Task
  BY DEF ExpiredTasks, TypeOK
<1>3. new \in SUBSET Result
  BY <1>2, ExpiredResultType
<1>4. \A n \in new : n.status # "OK"
  BY DEF ExpiredResult
<1>5. results[g] \in SUBSET Result
  BY DEF TypeOK
<1> HIDE DEF new
<1> QED
  BY <1>1, <1>3, <1>4, <1>5, NewAnswerFrom DEF NewAnswers

LEMMA FinishedAnswersAgree ==
  ASSUME TypeOK, DatabaseInv, NEW w \in Worker, ProcessLocationDBTaskResult(w),
         NEW g \in Group, NEW r \in NewAnswers(g)
  PROVE  AgreesWithRow(r.direction, r.location_ID, r.location_data)
<1> DEFINE t == current[w]
           l == t.location_ID
           answer(u) == [taskid |-> u.taskid, location_ID |-> l,
                         direction |-> t.direction, status |-> "OK",
                         location_data |-> outcome[w].location_data,
                         attempted |-> TRUE]
           new == {answer(u) : u \in {v \in Covered(t) : v.group_id = g}}
<1>1. t \in Task /\ l \in Location
  BY BusyTask DEF ProcessLocationDBTaskResult, Busy
<1>2. outcome[w].status = "OK" /\ pc[w] = "done" /\ results'[g] = AddResults(g, new)
  BY DEF ProcessLocationDBTaskResult, NewAnswers
<1>3. AgreesWithRow(t.direction, l, outcome[w].location_data)
  BY <1>2 DEF DatabaseInv, OutcomeAgrees
<1>4. Covered(t) \in SUBSET Task
  BY <1>1 DEF Covered, TypeOK
<1>5. outcome[w].location_data \in Data /\ t.direction \in Direction
  BY <1>1 DEF TypeOK, Outcome, Task
<1>6. \A n \in new : /\ n.location_ID = l /\ n.direction = t.direction
                     /\ n.location_data = outcome[w].location_data
  OBVIOUS
<1>7. ASSUME NEW u \in Covered(t) PROVE answer(u) \in Result
  <2> u.taskid \in TaskId /\ "OK" \in Status
    BY <1>4 DEF Task, Status
  <2> HIDE DEF t, l
  <2> QED
    BY <1>1, <1>5 DEF Result
<1>8. new \in SUBSET Result
  BY <1>7
<1>9. results[g] \in SUBSET Result
  BY DEF TypeOK
<1> HIDE DEF new, t, l
<1>10. \E n \in new : /\ r.location_ID = n.location_ID /\ r.direction = n.direction
                      /\ r.location_data = n.location_data
  BY <1>2, <1>8, <1>9, NewAnswerFrom DEF NewAnswers
<1> QED
  BY <1>3, <1>6, <1>10

LEMMA NextAnswersAgree ==
  ASSUME TypeOK, DatabaseInv, [Next]_vars, NEW g \in Group, NEW r \in NewAnswers(g)
  PROVE  AgreesWithRow(r.direction, r.location_ID, r.location_data)
<1>1. results'[g] # results[g] /\ results'[g] # {}
  BY DEF NewAnswers
<1>2. ~UNCHANGED vars /\ ~Tick
  BY <1>1 DEF vars, Tick
<1>3. ASSUME NEW h \in Group, GroupStep(h) PROVE FALSE
  <2>1. ASSUME NEW l \in Location, NEW a \in Trigger, NEW patience \in Patience,
               AddLocationDBTask(h, l, a, patience)
        PROVE  UNCHANGED results
    BY <2>1 DEF AddLocationDBTask
  <2>2. UNCHANGED results \/ results' = [results EXCEPT ![h] = {}]
    BY <1>3, <2>1, Zenon
       DEF GroupStep, ProcessLocationDBTaskResults, ConfirmHeartbeat
  <2> QED
    BY <1>1, <2>2 DEF TypeOK
<1>4. PICK w \in Worker : WorkerStep(w)
  BY <1>2, <1>3 DEF Next
<1>5. ~(GetLocationDBTaskToRun(w) \/ CheckWriteDeadline(w) \/ RunDatabaseOperation(w))
  BY <1>1 DEF GetLocationDBTaskToRun, CheckWriteDeadline, RunDatabaseOperation
<1>6. ~ClearExpiredDBTasks(w)
  BY ExpiryAnswersNothingOK
<1>7. ProcessLocationDBTaskResult(w)
  BY <1>4, <1>5, <1>6 DEF WorkerStep
<1> QED
  BY <1>7, FinishedAnswersAgree

\* What a group is told that was read, written or deleted is what the row holds
\* at the moment it is told, in particular for the tasks that the operation
\* answered without being theirs.
THEOREM AnswersTrue ==
  ASSUME ~LostReply
  PROVE  Spec => AnswersAgreeWithDatabase
<1>1. TypeOK /\ DatabaseInv /\ [Next]_vars => AnswersAgree
  BY NextAnswersAgree DEF AnswersAgree, AgreesWithRow
<1>2. Spec => [][AnswersAgree]_vars
  BY <1>1, TypeCorrect, DatabaseInvAlways, PTL DEF Spec
<1> QED
  BY <1>2 DEF AnswersAgreeWithDatabase, AnswersAgree

-----------------------------------------------------------------------------
(* The content of a location does not go back.  After a write of task i of a *)
(* group no older task of that group that would change the row is left: it   *)
(* is answered with it (RowNewest), except that an insert answers no write.  *)
(* But no write of the location can be older than an insert that was picked  *)
(* (InsertLast): writes have priority, except the saves of gamestates, and   *)
(* PriorityGoesFirst.                                                        *)

ChangesRow(u) == u.direction \in {"Write", "Insert"}

\* Where tasks come from.
TasksHaveSource ==
  \A l \in Location : \A u \in tasks[l] :
    /\ u.direction = "Write" /\ ~u.has_priority => l \in Gamestate
    /\ u.direction = "Insert" => "Write_CreateLocation" \in Trigger /\ ~u.has_priority

\* A location where an insert is under way has no older write of that group.
InsertLast ==
  \A w \in Worker :
    Busy(w) /\ current[w].direction = "Insert"
    /\ current[w].location_ID \in WrittenInOrder =>
      \A u \in tasks[current[w].location_ID] :
        u.group_id = current[w].group_id /\ u.direction = "Write"
          => current[w].taskid < u.taskid

\* The content of a row is that of a task that was issued.
RowIssued ==
  \A l \in Location :
    database[l] \in Version => database[l][2] < seq_locationdb_taskid[database[l][1]]

\* A worker has an operation to report that answers task u.
AnsweredSoon(l, u) ==
  \E w \in Worker : /\ pc[w] = "done" /\ outcome[w].status = "OK"
                    /\ current[w].location_ID = l
                    /\ u \in Covered(current[w])

RowNewest ==
  \A l \in WrittenInOrder : database[l] \in Version =>
    \A u \in tasks[l] :
      u.group_id = database[l][1] /\ ChangesRow(u)
        => database[l][2] <= u.taskid \/ AnsweredSoon(l, u)

OrderInv == TasksHaveSource /\ InsertLast /\ RowIssued /\ RowNewest

LEMMA InitOrder == Init => OrderInv
<1> SUFFICES ASSUME Init PROVE OrderInv
  OBVIOUS
<1>1. \A l \in Location : database[l] \notin Version
  BY ConstantsAssumption DEF Init
<1> QED
  BY <1>1 DEF Init, OrderInv, TasksHaveSource, InsertLast, RowIssued, RowNewest,
     Busy, WrittenInOrder

LEMMA VersionParts ==
  ASSUME NEW v \in Version
  PROVE  v[1] \in Group /\ v[2] \in Nat
BY ConstantsAssumption DEF Version, TaskId

\* A step that leaves the rows and the operations that ended alone, and adds no
\* task.
LEMMA RowFrame ==
  ASSUME TypeOK, OrderInv, UNCHANGED <<database, seq_locationdb_taskid>>,
         \A w \in Worker : pc[w] = "done" /\ outcome[w].status = "OK" =>
           pc'[w] = "done" /\ outcome'[w] = outcome[w] /\ current'[w] = current[w],
         \A l \in Location : tasks'[l] \subseteq tasks[l]
  PROVE  TasksHaveSource' /\ RowIssued' /\ RowNewest'
<1>1. TasksHaveSource' /\ RowIssued'
  BY DEF OrderInv, TasksHaveSource, RowIssued
<1>2. ASSUME NEW l \in Location, NEW u \in tasks'[l], AnsweredSoon(l, u)
      PROVE  AnsweredSoon(l, u)'
  <2>1. PICK w \in Worker : /\ pc[w] = "done" /\ outcome[w].status = "OK"
                            /\ current[w].location_ID = l
                            /\ u \in Covered(current[w])
    BY <1>2 DEF AnsweredSoon
  <2>2. pc'[w] = "done" /\ outcome'[w] = outcome[w] /\ current'[w] = current[w]
    BY <2>1
  <2>3. u \in Covered(current[w])'
    BY <1>2, <2>1, <2>2 DEF Covered
  <2> QED
    BY <2>1, <2>2, <2>3 DEF AnsweredSoon
<1>3. RowNewest'
  <2> SUFFICES ASSUME NEW l \in WrittenInOrder, database'[l] \in Version,
                      NEW u \in tasks'[l], u.group_id = database'[l][1], ChangesRow(u),
                      ~(database'[l][2] <= u.taskid)
               PROVE  AnsweredSoon(l, u)'
    BY DEF RowNewest, WrittenInOrder, ChangesRow
  <2>1. l \in Location /\ u \in tasks[l]
    BY DEF WrittenInOrder
  <2>2. AnsweredSoon(l, u)
    BY <2>1 DEF OrderInv, RowNewest
  <2> QED
    BY <1>2, <2>1, <2>2
<1> QED
  BY <1>1, <1>3

\* If moreover no worker begins an operation.
LEMMA OrderFrame ==
  ASSUME TypeOK, OrderInv, UNCHANGED <<database, seq_locationdb_taskid>>,
         \A w \in Worker : Busy(w)' => Busy(w) /\ current'[w] = current[w],
         \A w \in Worker : pc[w] = "done" /\ outcome[w].status = "OK" =>
           pc'[w] = "done" /\ outcome'[w] = outcome[w] /\ current'[w] = current[w],
         \A l \in Location : tasks'[l] \subseteq tasks[l]
  PROVE  OrderInv'
<1>1. InsertLast'
  <2> SUFFICES ASSUME NEW w \in Worker, Busy(w)', current'[w].direction = "Insert",
                      current'[w].location_ID \in WrittenInOrder,
                      NEW u \in tasks'[current'[w].location_ID],
                      u.group_id = current'[w].group_id, u.direction = "Write"
               PROVE  current'[w].taskid < u.taskid
    BY DEF InsertLast, WrittenInOrder
  <2>1. Busy(w) /\ current'[w] = current[w] /\ current[w].location_ID \in Location
    BY BusyTask
  <2>2. u \in tasks[current[w].location_ID]
    BY <2>1
  <2> QED
    BY <2>1, <2>2 DEF OrderInv, InsertLast
<1> QED
  BY <1>1, RowFrame DEF OrderInv

LEMMA GetLocationDBTaskToRunOrder ==
  ASSUME TypeOK, DeadlinesInv, OrderInv, NEW w \in Worker, GetLocationDBTaskToRun(w)
  PROVE  OrderInv'
<1>1. UNCHANGED <<database, seq_locationdb_taskid, tasks, outcome>>
  BY DEF GetLocationDBTaskToRun, backend_vars, group_vars
<1>2. pc[w] = "pick"
  BY DEF GetLocationDBTaskToRun
<1>3. CASE Sleep(w)
  <2>1. pc' = [pc EXCEPT ![w] = "clear"] /\ UNCHANGED current
    BY <1>3 DEF Sleep
  <2>2. \A v \in Worker : /\ Busy(v)' => Busy(v)
                          /\ pc[v] = "done" => pc'[v] = "done"
    BY <1>2, <2>1 DEF TypeOK, Busy
  <2> QED
    BY <1>1, <2>1, <2>2, OrderFrame
<1>4. CASE \E l \in Location, p \in Pass : Selectable(l, p) /\ StartTask(w, l, p)
  <2>1. PICK l \in Location, p \in Pass : Selectable(l, p) /\ StartTask(w, l, p)
    BY <1>4
  <2>2. PICK t \in tasks[l] : /\ InPass(t, p) /\ current' = [current EXCEPT ![w] = t]
                              /\ pc' = [pc EXCEPT ![w] = "run"]
    BY <2>1 DEF StartTask
  <2>3. t \in Task /\ t.location_ID = l
    BY DEF TypeOK
  <2>4. /\ \A v \in Worker : v # w => pc'[v] = pc[v] /\ current'[v] = current[v]
        /\ current'[w] = t
    BY <2>2 DEF TypeOK
  <2>5. ASSUME t.direction = "Insert", l \in WrittenInOrder,
               NEW u \in tasks[l], u.direction = "Write"
        PROVE  FALSE
    <3>1. ~t.has_priority /\ "Write_CreateLocation" \in Trigger
      BY <2>5 DEF OrderInv, TasksHaveSource
    <3>2. u.has_priority
      BY <2>5, <3>1 DEF OrderInv, TasksHaveSource, WrittenInOrder
    <3>3. KindOf(t) = "write" /\ KindOf(u) = "write"
      BY <2>5 DEF KindOf, IsRead, ReadDirection
    <3>4. p = 3
      BY <2>2, <3>1, <3>3, FourPasses DEF InPass, KindOfPass
    <3>5. 0 \in Pass /\ KindOfPass(0) = "write" /\ KindOfPass(3) = "write"
      BY DEF Pass, KindOfPass
    <3>6. min_deadline[l][0] = 0
      BY <2>1, <3>4, <3>5 DEF Selectable
    <3>7. ~InPass(u, 0)
      BY <3>5, <3>6, NoTaskInPass
    <3> QED
      BY <3>2, <3>3, <3>5, <3>7 DEF InPass
  <2>6. InsertLast'
    <3> SUFFICES ASSUME NEW v \in Worker, Busy(v)', current'[v].direction = "Insert",
                        current'[v].location_ID \in WrittenInOrder,
                        NEW u \in tasks'[current'[v].location_ID],
                        u.group_id = current'[v].group_id, u.direction = "Write"
                 PROVE  current'[v].taskid < u.taskid
      BY DEF InsertLast, WrittenInOrder
    <3>1. CASE v = w
      BY <1>1, <2>3, <2>4, <2>5, <3>1
    <3>2. CASE v # w
      <4>1. Busy(v) /\ current'[v] = current[v]
        BY <2>4, <3>2 DEF Busy
      <4> QED
        BY <1>1, <4>1 DEF OrderInv, InsertLast
    <3> QED
      BY <3>1, <3>2
  <2>7. \A v \in Worker : pc[v] = "done" => pc'[v] = "done" /\ current'[v] = current[v]
    BY <1>2, <2>4
  <2> QED
    BY <1>1, <2>6, <2>7, RowFrame DEF OrderInv
<1> QED
  BY <1>3, <1>4 DEF GetLocationDBTaskToRun

\* A new task is newer than all there are.
LEMMA AddLocationDBTaskOrder ==
  ASSUME TypeOK, TypeOK', EveryTriggerHasOneTask, OneOperationPerLocation, OrderInv,
         NEW g \in Group, NEW l \in Location,
         NEW a \in Trigger, NEW patience \in Patience,
         AddLocationDBTask(g, l, a, patience)
  PROVE  OrderInv'
<1> DEFINE id == seq_locationdb_taskid[g]
    deadline == IF a = "Write_GroupShutdown"
                THEN write_locations_deadline[g] + 1
                ELSE now + patience
    task == [group_id |-> g, taskid |-> id,
             location_ID |-> l, direction |-> DirectionOf(a),
             execution_deadline |-> deadline,
             has_priority |-> a \in PriorityTrigger,
             task_executed |-> FALSE, attempted |-> FALSE]
<1>1. /\ tasks' = [tasks EXCEPT ![l] = @ \cup {task}]
      /\ seq_locationdb_taskid' = [seq_locationdb_taskid EXCEPT ![g] = @ + 1]
      /\ a = "Write_WriteChangedGameState" => l \in Gamestate
      /\ UNCHANGED <<pc, current, outcome, database>>
  BY DEF AddLocationDBTask, worker_vars, backend_vars
<1>2. /\ task.group_id = g /\ task.taskid = id /\ task.direction = DirectionOf(a)
      /\ task.has_priority = (a \in PriorityTrigger)
  OBVIOUS
<1>3. /\ task.direction = "Write" /\ ~task.has_priority => l \in Gamestate
      /\ task.direction = "Insert" =>
           "Write_CreateLocation" \in Trigger /\ ~task.has_priority
  BY <1>1, <1>2, ConstantsAssumption
     DEF DirectionOf, PriorityTrigger, ReadTrigger, WriteTrigger
<1> HIDE DEF task, deadline
<1>4. \A m \in Location : tasks'[m] = IF m = l THEN tasks[l] \cup {task} ELSE tasks[m]
  BY <1>1 DEF TypeOK
<1>5. id \in Nat /\ \A h \in Group : /\ seq_locationdb_taskid[h] \in Nat
                                     /\ seq_locationdb_taskid'[h] =
                                          IF h = g THEN id + 1 ELSE seq_locationdb_taskid[h]
  BY <1>1, ConstantsAssumption DEF TypeOK
<1> HIDE DEF id
<1>6. TasksHaveSource'
  BY <1>3, <1>4 DEF OrderInv, TasksHaveSource
<1>7. InsertLast'
  <2> SUFFICES ASSUME NEW w \in Worker, Busy(w), current[w].direction = "Insert",
                      current[w].location_ID \in WrittenInOrder,
                      NEW u \in tasks'[current[w].location_ID],
                      u.group_id = current[w].group_id, u.direction = "Write"
               PROVE  current[w].taskid < u.taskid
    BY <1>1 DEF InsertLast, WrittenInOrder, Busy
  <2> DEFINE m == current[w].location_ID
  <2>1. m \in Location /\ current[w] \in tasks[m]
    BY BusyTask DEF OneOperationPerLocation
  <2>2. CASE u \in tasks[m]
    BY <2>2 DEF OrderInv, InsertLast
  <2>3. CASE u \notin tasks[m]
    <3>1. u = task
      BY <1>4, <2>1, <2>3
    <3>2. current[w].taskid \in QueuedIds(g)
      BY <1>2, <2>1, <3>1 DEF QueuedIds
    <3>3. current[w].taskid < seq_locationdb_taskid[g]
      BY <3>2 DEF EveryTriggerHasOneTask
    <3> QED
      BY <1>2, <3>1, <3>3 DEF id
  <2> QED
    BY <2>2, <2>3
<1>8. RowIssued'
  <2> SUFFICES ASSUME NEW m \in Location, database[m] \in Version
               PROVE  database[m][2] < seq_locationdb_taskid'[database[m][1]]
    BY <1>1 DEF RowIssued
  <2>1. database[m][1] \in Group /\ database[m][2] \in Nat
    BY VersionParts
  <2>2. database[m][2] < seq_locationdb_taskid[database[m][1]]
    BY DEF OrderInv, RowIssued
  <2> QED
    BY <1>5, <2>1, <2>2 DEF id
<1>9. RowNewest'
  <2> SUFFICES ASSUME NEW m \in WrittenInOrder, database[m] \in Version,
                      NEW u \in tasks'[m], u.group_id = database[m][1], ChangesRow(u),
                      ~(database[m][2] <= u.taskid)
               PROVE  AnsweredSoon(m, u)'
    BY <1>1 DEF RowNewest, WrittenInOrder, ChangesRow
  <2>1. m \in Location
    BY DEF WrittenInOrder
  <2>2. database[m][1] \in Group /\ database[m][2] \in Nat
    BY VersionParts
  <2>3. u \in tasks[m]
    <3> SUFFICES ASSUME u = task PROVE FALSE
      BY <1>4, <2>1
    <3>1. database[m][2] < seq_locationdb_taskid[g]
      BY <1>2, <2>1 DEF OrderInv, RowIssued
    <3> QED
      BY <1>2, <1>5, <2>2, <3>1 DEF id
  <2>4. AnsweredSoon(m, u)
    BY <2>3 DEF OrderInv, RowNewest
  <2>5. PICK w \in Worker : /\ pc[w] = "done" /\ outcome[w].status = "OK"
                            /\ current[w].location_ID = m
                            /\ u \in Covered(current[w])
    BY <2>4 DEF AnsweredSoon
  <2>6. u \in Covered(current[w])'
    BY <1>1, <2>5 DEF Covered
  <2> QED
    BY <1>1, <2>5, <2>6 DEF AnsweredSoon
<1> QED
  BY <1>6, <1>7, <1>8, <1>9 DEF OrderInv

LEMMA RunDatabaseOperationOrder ==
  ASSUME TypeOK, OneOperationPerLocation, EveryTriggerHasOneTask, DatabaseInv,
         OrderInv, ~LostReply, NEW w \in Worker, RunDatabaseOperation(w)
  PROVE  OrderInv'
<1>1. /\ Busy(w) /\ pc[w] = "query"
      /\ UNCHANGED <<current, tasks, seq_locationdb_taskid>>
  BY DEF RunDatabaseOperation, Busy, group_vars, queue_vars
<1>2. PICK t \in Task : t = current[w]
  BY <1>1, BusyTask
<1>3. PICK l \in Location : l = t.location_ID
  BY <1>1, <1>2, BusyTask
<1>4. PICK status \in Status, data \in Data : OperationEnds(w, t, l, status, data)
  BY <1>2, <1>3, RunDatabaseOperationEffect DEF DatabaseInv
<1>5. /\ pc' = [pc EXCEPT ![w] = "done"]
      /\ outcome' = [outcome EXCEPT ![w] = [status |-> status, location_data |-> data]]
      /\ \A m \in Location : m # l => database'[m] = database[m]
      /\ \/ database'[l] = database[l]
         \/ database'[l] = Missing
         \/ /\ database'[l] = ContentOf(t)
            /\ t.direction \in {"Write", "Insert"}
            /\ status = "OK"
  BY <1>4 DEF OperationEnds, EndOperation
<1>6. t \in tasks[l]
  BY <1>1, <1>2, <1>3 DEF OneOperationPerLocation
<1>7. \A v \in Worker : /\ Busy(v)' <=> Busy(v)
                        /\ v # w => pc'[v] = pc[v] /\ outcome'[v] = outcome[v]
  BY <1>1, <1>5 DEF Busy, TypeOK
<1>8. TasksHaveSource'
  BY <1>1 DEF OrderInv, TasksHaveSource
<1>9. InsertLast'
  BY <1>1, <1>7 DEF OrderInv, InsertLast, WrittenInOrder
<1>10. ASSUME NEW m \in Location, database'[m] \in Version
       PROVE  \/ database'[m] = database[m]
              \/ m = l /\ database'[m] = ContentOf(t) /\ ChangesRow(t) /\ status = "OK"
  <2>1. database'[m] # Missing
    BY <1>10, ConstantsAssumption
  <2> QED
    BY <1>5, <2>1 DEF ChangesRow
<1>11. ContentOf(t)[1] = t.group_id /\ ContentOf(t)[2] = t.taskid
       /\ t.group_id \in Group /\ t.taskid \in Nat
  BY ConstantsAssumption DEF ContentOf, Task, TaskId
<1>12. RowIssued'
  <2> SUFFICES ASSUME NEW m \in Location, database'[m] \in Version
               PROVE  database'[m][2] < seq_locationdb_taskid[database'[m][1]]
    BY <1>1 DEF RowIssued
  <2>1. CASE database'[m] = database[m]
    BY <2>1 DEF OrderInv, RowIssued
  <2>2. CASE database'[m] = ContentOf(t)
    <3>1. t.taskid \in QueuedIds(t.group_id)
      BY <1>6, <1>11 DEF QueuedIds
    <3>2. t.taskid < seq_locationdb_taskid[t.group_id]
      BY <1>11, <3>1 DEF EveryTriggerHasOneTask
    <3> QED
      BY <1>11, <2>2, <3>2
  <2> QED
    BY <1>10, <2>1, <2>2
<1>13. RowNewest'
  <2> SUFFICES ASSUME NEW m \in WrittenInOrder, database'[m] \in Version,
                      NEW u \in tasks[m], u.group_id = database'[m][1], ChangesRow(u),
                      ~(database'[m][2] <= u.taskid)
               PROVE  AnsweredSoon(m, u)'
    BY <1>1 DEF RowNewest, WrittenInOrder, ChangesRow
  <2>1. m \in Location /\ u \in Task /\ u.taskid \in Nat
    BY ConstantsAssumption DEF WrittenInOrder, TypeOK, Task, TaskId
  <2>2. CASE database'[m] = database[m]
    <3>1. AnsweredSoon(m, u)
      BY <2>2 DEF OrderInv, RowNewest
    <3>2. PICK v \in Worker : /\ pc[v] = "done" /\ outcome[v].status = "OK"
                              /\ current[v].location_ID = m
                              /\ u \in Covered(current[v])
      BY <3>1 DEF AnsweredSoon
    <3>3. v # w
      BY <1>1, <3>2
    <3>4. u \in Covered(current[v])'
      BY <1>1, <3>2 DEF Covered
    <3> QED
      BY <1>1, <1>7, <3>2, <3>3, <3>4 DEF AnsweredSoon
  <2>3. CASE m = l /\ database'[m] = ContentOf(t) /\ ChangesRow(t) /\ status = "OK"
    <3>1. u.group_id = t.group_id /\ u.taskid < t.taskid
      BY <1>11, <2>1, <2>3
    <3>2. ~IsRead(t) /\ ~IsRead(u)
      BY <2>3 DEF ChangesRow, IsRead, ReadDirection
    <3>3. ~(t.direction = "Insert" /\ u.direction = "Write")
      <4>1. SUFFICES ASSUME t.direction = "Insert", u.direction = "Write" PROVE FALSE
        OBVIOUS
      <4>2. t.taskid < u.taskid
        BY <1>1, <1>2, <1>3, <2>3, <3>1, <4>1 DEF OrderInv, InsertLast
      <4> QED
        BY <1>11, <2>1, <3>1, <4>2
    <3>4. u.direction = t.direction \/ (u.direction = "Insert" /\ t.direction = "Write")
      BY <2>3, <3>3 DEF ChangesRow
    <3>5. u.taskid <= t.taskid
      BY <1>11, <2>1, <3>1
    <3>6. u \in Covered(t)
      BY <1>3, <2>3, <3>2, <3>4, <3>5 DEF Covered
    <3>7. u \in Covered(current[w])'
      BY <1>1, <1>2, <3>6 DEF Covered
    <3>8. pc'[w] = "done" /\ outcome'[w].status = "OK"
      BY <1>5, <2>3 DEF TypeOK
    <3> QED
      BY <1>1, <1>2, <1>3, <2>3, <3>7, <3>8 DEF AnsweredSoon
  <2> QED
    BY <1>10, <2>1, <2>2, <2>3
<1> QED
  BY <1>8, <1>9, <1>12, <1>13 DEF OrderInv

LEMMA ProcessLocationDBTaskResultOrder ==
  ASSUME TypeOK, OneOperationPerLocation, OrderInv, NEW w \in Worker,
         ProcessLocationDBTaskResult(w)
  PROVE  OrderInv'
<1> DEFINE t == current[w]
           l == t.location_ID
           ok == outcome[w].status = "OK"
           mark(u) == [u EXCEPT !.task_executed = TRUE,
                                !.attempted =
                                  @ \/ outcome[w].status # "WriteDeadlineReached"]
           marked == IF ok THEN {} ELSE {mark(u) : u \in Covered(t)}
<1>1. Busy(w) /\ pc[w] = "done" /\ t \in Task /\ l \in Location
  BY BusyTask DEF ProcessLocationDBTaskResult, Busy
<1>2. /\ tasks' = [tasks EXCEPT ![l] = (tasks[l] \ Covered(t)) \cup marked]
      /\ pc' = [pc EXCEPT ![w] = "clear"]
      /\ current' = [current EXCEPT ![w] = NoTask]
      /\ outcome' = [outcome EXCEPT ![w] = NoOutcome]
      /\ UNCHANGED <<database, seq_locationdb_taskid>>
  BY DEF ProcessLocationDBTaskResult, backend_vars, group_vars
<1>3. Covered(t) \subseteq tasks[l] /\ Covered(t) \subseteq Task
  BY <1>1 DEF Covered, TypeOK
<1>4. ASSUME NEW u \in marked
      PROVE  ~ok /\ \E v \in tasks[l] : /\ u.group_id = v.group_id
                                        /\ u.taskid = v.taskid
                                        /\ u.direction = v.direction
                                        /\ u.has_priority = v.has_priority
  <2>1. ~ok
    OBVIOUS
  <2>2. PICK v \in Covered(t) : u = mark(v)
    BY <2>1
  <2>3. /\ u.group_id = v.group_id /\ u.taskid = v.taskid
        /\ u.direction = v.direction /\ u.has_priority = v.has_priority
    BY <1>3, <2>2 DEF Task
  <2> QED
    BY <1>3, <2>1, <2>3
<1> HIDE DEF marked
<1>5. ASSUME NEW v \in Worker, Busy(v)'
      PROVE  v # w /\ Busy(v) /\ current'[v] = current[v] /\ current[v].location_ID # l
             /\ current[v].location_ID \in Location
  <2>1. v # w /\ Busy(v) /\ current'[v] = current[v]
    BY <1>2, <1>5 DEF Busy, TypeOK
  <2> QED
    BY <1>1, <2>1, BusyTask DEF OneOperationPerLocation
<1>6. \A m \in Location : m # l => tasks'[m] = tasks[m]
  BY <1>2 DEF TypeOK
<1>7. tasks'[l] = (tasks[l] \ Covered(t)) \cup marked
  BY <1>1, <1>2 DEF TypeOK
<1>8. TasksHaveSource'
  BY <1>4, <1>6, <1>7 DEF OrderInv, TasksHaveSource
<1>9. InsertLast'
  BY <1>5, <1>6 DEF OrderInv, InsertLast, WrittenInOrder
<1>10. RowIssued'
  BY <1>2 DEF OrderInv, RowIssued
<1>11. RowNewest'
  <2> SUFFICES ASSUME NEW m \in WrittenInOrder, database[m] \in Version,
                      NEW u \in tasks'[m], u.group_id = database[m][1], ChangesRow(u),
                      ~(database[m][2] <= u.taskid)
               PROVE  AnsweredSoon(m, u)'
    BY <1>2 DEF RowNewest, WrittenInOrder, ChangesRow
  <2>1. m \in Location
    BY DEF WrittenInOrder
  <2>2. PICK v \in tasks[m] : /\ u.group_id = v.group_id /\ u.taskid = v.taskid
                              /\ u.direction = v.direction
                              /\ u = v \/ (m = l /\ ~ok)
                              /\ m = l /\ ok => u \notin Covered(t)
    BY <1>4, <1>6, <1>7, <2>1
  <2>3. AnsweredSoon(m, v)
    BY <2>2 DEF OrderInv, RowNewest, ChangesRow
  <2>4. PICK x \in Worker : /\ pc[x] = "done" /\ outcome[x].status = "OK"
                            /\ current[x].location_ID = m
                            /\ v \in Covered(current[x])
    BY <2>3 DEF AnsweredSoon
  <2>5. m # l
    <3>1. SUFFICES ASSUME m = l PROVE FALSE
      OBVIOUS
    <3>2. Busy(x)
      BY <2>4 DEF Busy
    <3>3. x = w
      BY <1>1, <2>4, <3>1, <3>2 DEF OneOperationPerLocation
    <3> QED
      BY <2>2, <2>4, <3>1, <3>3
  <2>6. x # w /\ u = v
    BY <2>2, <2>4, <2>5
  <2>7. pc'[x] = pc[x] /\ outcome'[x] = outcome[x] /\ current'[x] = current[x]
    BY <1>2, <2>6 DEF TypeOK
  <2>8. u \in Covered(current[x])'
    BY <1>6, <2>1, <2>4, <2>5, <2>6, <2>7 DEF Covered
  <2> QED
    BY <2>4, <2>7, <2>8 DEF AnsweredSoon
<1> QED
  BY <1>8, <1>9, <1>10, <1>11 DEF OrderInv

LEMMA NextOrder ==
  ASSUME ~LostReply
  PROVE  TypeOK /\ TypeOK' /\ OneOperationPerLocation /\ EveryTriggerHasOneTask
         /\ DeadlinesInv /\ DatabaseInv /\ OrderInv /\ [Next]_vars => OrderInv'
<1> SUFFICES ASSUME TypeOK, TypeOK', OneOperationPerLocation, EveryTriggerHasOneTask,
                    DeadlinesInv, DatabaseInv, OrderInv, [Next]_vars
             PROVE  OrderInv'
  OBVIOUS
<1>1. CASE UNCHANGED <<worker_vars, tasks, database, seq_locationdb_taskid>>
  BY <1>1, OrderFrame DEF worker_vars, Busy
<1>2. CASE UNCHANGED vars
  BY <1>1, <1>2 DEF vars, queue_vars, backend_vars, group_vars
<1>3. ASSUME NEW g \in Group, GroupStep(g) PROVE OrderInv'
  <2>1. CASE ProcessLocationDBTaskResults(g) \/ ConfirmHeartbeat(g)
    BY <1>1, <2>1 DEF ProcessLocationDBTaskResults, ConfirmHeartbeat, queue_vars,
       backend_vars, group_vars
  <2> QED
    BY <1>3, <2>1, AddLocationDBTaskOrder DEF GroupStep
<1>4. ASSUME NEW w \in Worker, WorkerStep(w) PROVE OrderInv'
  <2>1. CASE ClearExpiredDBTasks(w)
    <3>1. /\ tasks' = [l \in Location |-> tasks[l] \ ExpiredTasks(l)]
          /\ UNCHANGED <<database, seq_locationdb_taskid, current, outcome>>
      BY <2>1 DEF ClearExpiredDBTasks, backend_vars, group_vars
    <3>2. \A v \in Worker : (Busy(v)' <=> Busy(v)) /\ (pc[v] = "done" => pc'[v] = "done")
      BY <2>1 DEF ClearExpiredDBTasks, Busy, TypeOK
    <3> QED
      BY <3>1, <3>2, OrderFrame
  <2>2. CASE CheckWriteDeadline(w)
    <3>1. /\ pc[w] = "run"
          /\ UNCHANGED <<tasks, database, seq_locationdb_taskid, current>>
      BY <2>2 DEF CheckWriteDeadline, backend_vars, group_vars, queue_vars
    <3>2. \/ EndOperation(w, "WriteDeadlineReached", NoData)
          \/ EndOperation(w, "WriteFailed", NoData)
          \/ pc' = [pc EXCEPT ![w] = "query"] /\ UNCHANGED outcome
      BY <2>2 DEF CheckWriteDeadline
    <3>3. \A v \in Worker : /\ Busy(v)' <=> Busy(v)
                            /\ v # w => pc'[v] = pc[v] /\ outcome'[v] = outcome[v]
      BY <3>1, <3>2 DEF EndOperation, Busy, TypeOK
    <3> QED
      BY <3>1, <3>3, OrderFrame
  <2> QED
    BY <1>4, <2>1, <2>2, GetLocationDBTaskToRunOrder, RunDatabaseOperationOrder,
       ProcessLocationDBTaskResultOrder DEF WorkerStep
<1>5. CASE Tick
  BY <1>1, <1>5 DEF Tick, backend_vars, group_vars
<1> QED
  BY <1>2, <1>3, <1>4, <1>5 DEF Next

LEMMA OrderInvAlways ==
  ASSUME ~LostReply
  PROVE  Spec => []OrderInv
<1>1. Init => OrderInv
  BY InitOrder
<1>2. TypeOK /\ TypeOK' /\ OneOperationPerLocation /\ EveryTriggerHasOneTask
      /\ DeadlinesInv /\ DatabaseInv /\ OrderInv /\ [Next]_vars => OrderInv'
  BY NextOrder
<1> QED
  BY <1>1, <1>2, TypeCorrect, OneOperation, OneTaskPerTrigger, DeadlinesInvAlways,
     DatabaseInvAlways, PTL DEF Spec

\* One step of NewestContentStays.
ContentStays ==
  \A l \in WrittenInOrder :
    database[l] \in Version /\ database'[l] \in Version
    /\ database[l][1] = database'[l][1] => database[l][2] <= database'[l][2]

LEMMA NextContentStays ==
  ASSUME ~LostReply
  PROVE  TypeOK /\ OneOperationPerLocation /\ DatabaseInv /\ OrderInv /\ [Next]_vars
           => ContentStays
<1> SUFFICES ASSUME TypeOK, OneOperationPerLocation, DatabaseInv, OrderInv, [Next]_vars
             PROVE  ContentStays
  OBVIOUS
<1>1. CASE UNCHANGED database
  BY <1>1, VersionParts DEF ContentStays
<1>2. ASSUME NEW w \in Worker, RunDatabaseOperation(w) PROVE ContentStays
  <2>1. /\ Busy(w) /\ pc[w] = "query"
    BY <1>2 DEF RunDatabaseOperation, Busy
  <2>2. PICK t \in Task : t = current[w]
    BY <2>1, BusyTask
  <2>3. PICK l \in Location : l = t.location_ID
    BY <2>1, <2>2, BusyTask
  <2>4. PICK status \in Status, data \in Data : OperationEnds(w, t, l, status, data)
    BY <1>2, <2>2, <2>3, RunDatabaseOperationEffect DEF DatabaseInv
  <2>5. /\ \A m \in Location : m # l => database'[m] = database[m]
        /\ \/ database'[l] = database[l]
           \/ database'[l] = Missing
           \/ database'[l] = ContentOf(t) /\ ChangesRow(t)
    BY <2>4 DEF OperationEnds, ChangesRow
  <2> SUFFICES ASSUME NEW m \in WrittenInOrder, database[m] \in Version,
                      database'[m] \in Version, database[m][1] = database'[m][1]
               PROVE  database[m][2] <= database'[m][2]
    BY DEF ContentStays
  <2>6. m \in Location /\ Missing \notin Version
    BY ConstantsAssumption DEF WrittenInOrder
  <2>7. CASE database'[m] = database[m]
    BY <2>7, VersionParts
  <2>8. CASE m = l /\ database'[m] = ContentOf(t) /\ ChangesRow(t)
    <3>1. t \in tasks[l]
      BY <2>1, <2>2, <2>3 DEF OneOperationPerLocation
    <3>2. ContentOf(t)[1] = t.group_id /\ ContentOf(t)[2] = t.taskid
      BY DEF ContentOf
    <3>3. CASE database[m][2] <= t.taskid
      BY <2>8, <3>2, <3>3
    <3>4. CASE ~(database[m][2] <= t.taskid)
      <4>1. AnsweredSoon(l, t)
        BY <2>8, <3>1, <3>2, <3>4 DEF OrderInv, RowNewest
      <4>2. PICK v \in Worker : pc[v] = "done" /\ current[v].location_ID = l
        BY <4>1 DEF AnsweredSoon
      <4>3. Busy(v)
        BY <4>2 DEF Busy
      <4>4. v = w
        BY <2>1, <2>2, <2>3, <4>2, <4>3 DEF OneOperationPerLocation
      <4> QED
        BY <2>1, <4>2, <4>4
    <3> QED
      BY <3>3, <3>4
  <2> QED
    BY <2>5, <2>6, <2>7, <2>8
<1>3. ASSUME NEW w \in Worker, WorkerStep(w), ~RunDatabaseOperation(w)
      PROVE  UNCHANGED database
  BY <1>3 DEF WorkerStep, ClearExpiredDBTasks, GetLocationDBTaskToRun,
     CheckWriteDeadline, ProcessLocationDBTaskResult, backend_vars
<1>4. ASSUME NEW g \in Group, GroupStep(g) PROVE UNCHANGED database
  <2>1. ASSUME NEW l \in Location, NEW a \in Trigger, NEW patience \in Patience,
               AddLocationDBTask(g, l, a, patience)
        PROVE  UNCHANGED backend_vars
    BY <2>1 DEF AddLocationDBTask
  <2>2. UNCHANGED backend_vars
    BY <1>4, <2>1, Zenon
       DEF GroupStep, ProcessLocationDBTaskResults, ConfirmHeartbeat
  <2> QED
    BY <2>2 DEF backend_vars
<1>5. UNCHANGED vars \/ Tick => UNCHANGED database
  BY DEF vars, Tick, backend_vars
<1> QED
  BY <1>1, <1>2, <1>3, <1>4, <1>5 DEF Next

\* The content of a location never goes back to an older one of the same group:
\* not by a task that waits longer, is tried again or has no priority.
THEOREM ContentNeverGoesBack ==
  ASSUME ~LostReply
  PROVE  Spec => NewestContentStays
<1>1. TypeOK /\ OneOperationPerLocation /\ DatabaseInv /\ OrderInv /\ [Next]_vars
        => ContentStays
  BY NextContentStays
<1>2. Spec => [][ContentStays]_vars
  BY <1>1, TypeCorrect, OneOperation, DatabaseInvAlways, OrderInvAlways, PTL DEF Spec
<1> QED
  BY <1>2 DEF NewestContentStays, ContentStays
=============================================================================
