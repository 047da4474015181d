---------------------- MODULE LocationDBRefinementProofs ----------------------
(***************************************************************************)
(* LocationDB implements LocationStore, for every value of the constants   *)
(* and whether or not replies are lost: every step of the queue, its       *)
(* workers, the clock and the groups is a step of the store under the      *)
(* mapping of LocationDBRefinement, or leaves the store alone.             *)
(***************************************************************************)
EXTENDS LocationDBRefinement, LocationDBProofs, FiniteSetTheorems

(* What the mapping makes of tasks and of workers.                           *)

LEMMA OneMore ==
  ASSUME NEW S, IsFiniteSet(S), NEW x
  PROVE  /\ IsFiniteSet(S \cup {x})
         /\ Cardinality(S) \in Nat
         /\ Cardinality(S \cup {x}) <= Cardinality(S) + 1
<1>1. Cardinality(S) \in Nat
  BY FS_CardinalityType
<1> QED
  BY <1>1, FS_AddElement

LEMMA EmptyDataIsNotMissing == EmptyData # Missing
<1> SUFFICES ASSUME EmptyData = Missing PROVE FALSE
  OBVIOUS
<1> DEFINE A == {EmptyData}
           B == A \cup {OldRow}
           C == B \cup {LocationsIds}
           D == C \cup {NoData}
<1>1. D = {Missing, OldRow, EmptyData, LocationsIds, NoData}
  OBVIOUS
<1>2. IsFiniteSet(A) /\ Cardinality(A) = 1
  BY FS_Singleton
<1> HIDE DEF A
<1>3. /\ IsFiniteSet(B) /\ Cardinality(A) \in Nat
      /\ Cardinality(B) <= Cardinality(A) + 1
  BY <1>2, OneMore, Zenon
<1> HIDE DEF B
<1>4. /\ IsFiniteSet(C) /\ Cardinality(B) \in Nat
      /\ Cardinality(C) <= Cardinality(B) + 1
  BY <1>3, OneMore, Zenon
<1> HIDE DEF C
<1>5. /\ IsFiniteSet(D) /\ Cardinality(C) \in Nat
      /\ Cardinality(D) <= Cardinality(C) + 1
  BY <1>4, OneMore, Zenon
<1> HIDE DEF D
<1>6. Cardinality(D) = 5
  BY <1>1, ConstantsAssumption
<1> QED
  BY <1>2, <1>3, <1>4, <1>5, <1>6

LEMMA StoreTaskType ==
  ASSUME NEW t \in Task
  PROVE  /\ StoreTaskOf(t) \in Store!Task
         /\ StoreTaskOf(t).group_id = t.group_id
         /\ StoreTaskOf(t).taskid = t.taskid
         /\ StoreTaskOf(t).location_ID = t.location_ID
         /\ StoreTaskOf(t).direction = t.direction
         /\ StoreTaskOf(t).location_data = CarriedBy(t)
         /\ Store!IsReadTask(StoreTaskOf(t)) <=> IsRead(t)
<1>1. CarriedBy(t) \in (Version \cup {OldRow}) \cup {NoData}
  BY ContentOfTask DEF CarriedBy
<1>2. t.direction \in Store!ReadDirections \cup {"Write", "Insert", "Delete"}
  BY DEF Task, Direction, ReadDirection, WriteDirection, Store!ReadDirections
<1> QED
  BY <1>1, <1>2 DEF StoreTaskOf, Task, TaskId, Store!Task, Store!IsReadTask,
     IsRead, ReadDirection, Store!ReadDirections

\* Group and number name a task.
LEMMA SameStoreTask ==
  ASSUME TypeOK, EveryTriggerHasOneTask, NEW m1 \in Location, NEW m2 \in Location,
         NEW t1 \in tasks[m1], NEW t2 \in tasks[m2],
         StoreTaskOf(t1) = StoreTaskOf(t2)
  PROVE  m1 = m2 /\ t1 = t2
<1>1. t1 \in Task /\ t2 \in Task
  BY DEF TypeOK
<1>2. t1.group_id = t2.group_id /\ t1.taskid = t2.taskid /\ t1.group_id \in Group
  BY <1>1, StoreTaskType DEF Task
<1> QED
  BY <1>2 DEF EveryTriggerHasOneTask

\* The operation a worker has to report.
OperationOf(w) ==
  [task |-> StoreTaskOf(current[w]), ok |-> outcome[w].status = "OK",
   location_data |-> outcome[w].location_data]

DoneOn(w, l) == pc[w] = "done" /\ current[w].location_ID = l

LEMMA OperationOfType ==
  ASSUME TypeOK, NEW w \in Worker, pc[w] = "done"
  PROVE  OperationOf(w) # NoTask
<1>1. current[w] \in Task
  BY BusyTask DEF Busy
<1>2. StoreTaskOf(current[w]) \in Store!Task
  BY <1>1, StoreTaskType
<1>3. outcome[w].location_data \in Data
  BY DEF TypeOK, Outcome
<1>4. OperationOf(w) \in [task : Store!Task, ok : BOOLEAN, location_data : Data]
  BY <1>2, <1>3 DEF OperationOf
<1> QED
  BY <1>4, NoTaskAssumption

LEMMA OperationOnIs ==
  ASSUME TypeOK, OneOperationPerLocation, NEW l \in Location
  PROVE  /\ \A w \in Worker : DoneOn(w, l) => OperationOn(l) = OperationOf(w)
         /\ (\A w \in Worker : ~DoneOn(w, l)) => OperationOn(l) = NoTask
<1> DEFINE W == {w \in Worker : pc[w] = "done" /\ current[w].location_ID = l}
<1>1. ASSUME NEW w \in Worker, DoneOn(w, l)
      PROVE  OperationOn(l) = OperationOf(w)
  <2>1. W = {w}
    BY <1>1 DEF OneOperationPerLocation, Busy, DoneOn
  <2>2. OperationOn(l) = LET v == CHOOSE v \in {w} : TRUE IN
          [task |-> StoreTaskOf(current[v]), ok |-> outcome[v].status = "OK",
           location_data |-> outcome[v].location_data]
    BY <2>1, Zenon DEF OperationOn
  <2>3. (CHOOSE v \in {w} : TRUE) = w
    OBVIOUS
  <2> QED
    BY <2>2, <2>3 DEF OperationOf
<1>2. ASSUME \A w \in Worker : ~DoneOn(w, l)
      PROVE  OperationOn(l) = NoTask
  <2>1. W = {}
    BY <1>2 DEF DoneOn
  <2> QED
    BY <2>1, Zenon DEF OperationOn
<1> QED
  BY <1>1, <1>2

\* The operation reported on a location is what it was.
LEMMA OperationOnSame ==
  ASSUME NEW l,
         \A w \in Worker : DoneOn(w, l)' <=> DoneOn(w, l),
         \A w \in Worker : DoneOn(w, l) => /\ current'[w] = current[w]
                                           /\ outcome'[w] = outcome[w]
  PROVE  OperationOn(l)' = OperationOn(l)
<1> DEFINE W == {w \in Worker : pc[w] = "done" /\ current[w].location_ID = l}
<1>1. W' = W
  BY DEF DoneOn
<1>2. CASE W = {}
  BY <1>1, <1>2, Zenon DEF OperationOn
<1>3. CASE W # {}
  <2> DEFINE c == CHOOSE w \in W : TRUE
  <2>1. c \in W /\ c' = c
    BY <1>1, <1>3
  <2>2. OperationOn(l) = [task |-> StoreTaskOf(current[c]), ok |-> outcome[c].status = "OK",
                          location_data |-> outcome[c].location_data]
    BY <1>3, Zenon DEF OperationOn
  <2>3. OperationOn(l)' = [task |-> StoreTaskOf(current'[c]), ok |-> outcome'[c].status = "OK",
                          location_data |-> outcome'[c].location_data]
    BY <1>1, <1>3, <2>1, Zenon DEF OperationOn
  <2>4. current'[c] = current[c] /\ outcome'[c] = outcome[c]
    BY <2>1 DEF DoneOn
  <2> QED
    BY <2>2, <2>3, <2>4
<1> QED
  BY <1>2, <1>3

LEMMA OperationsFrame ==
  ASSUME \A w \in Worker : /\ pc'[w] = "done" <=> pc[w] = "done"
                           /\ pc[w] = "done" => /\ current'[w] = current[w]
                                                /\ outcome'[w] = outcome[w]
  PROVE  UNCHANGED StoreOperation
<1> SUFFICES ASSUME NEW l \in Location PROVE OperationOn(l)' = OperationOn(l)
  BY DEF StoreOperation
<1> QED
  BY OperationOnSame DEF DoneOn

LEMMA StoreFrame ==
  ASSUME UNCHANGED <<tasks, results, database>>,
         \A w \in Worker : /\ pc'[w] = "done" <=> pc[w] = "done"
                           /\ pc[w] = "done" => /\ current'[w] = current[w]
                                                /\ outcome'[w] = outcome[w]
  PROVE  UNCHANGED Store!store_vars
BY OperationsFrame DEF Store!store_vars, StoreWaiting, StoreAnswers

-----------------------------------------------------------------------------
LEMMA InitStore == Init => Store!StoreInit
<1> SUFFICES ASSUME Init PROVE Store!StoreInit
  OBVIOUS
<1>1. StoreWaiting = {}
  BY DEF Init, StoreWaiting
<1>2. StoreAnswers = [g \in Group |-> {}]
  BY DEF Init, StoreAnswers
<1>3. ASSUME NEW l \in Location PROVE OperationOn(l) = NoTask
  <2>1. {w \in Worker : pc[w] = "done" /\ current[w].location_ID = l} = {}
    BY DEF Init
  <2> QED
    BY <2>1, Zenon DEF OperationOn
<1>4. StoreOperation = [l \in Location |-> NoTask]
  BY <1>3 DEF StoreOperation
<1>5. database \in [Location -> (Version \cup {OldRow}) \cup {Missing}]
  BY DEF Init
<1> QED
  BY <1>1, <1>2, <1>4, <1>5 DEF Store!StoreInit

-----------------------------------------------------------------------------
(* The operations: each end of an operation is one of the store's Outcomes.  *)

LeavesRow(l, row) == database' = [database EXCEPT ![l] = row]

\* A worker that ends its operation performs the task.
LEMMA PerformStep ==
  ASSUME TypeOK, OneOperationPerLocation, NEW w \in Worker,
         NEW t \in Task, t = current[w], NEW l \in Location, l = t.location_ID,
         Busy(w), pc[w] # "done",
         NEW status, NEW data, EndOperation(w, status, data),
         UNCHANGED <<tasks, results, current>>,
         NEW end \in Store!Outcomes(StoreTaskOf(t)),
         end.ok = TRUE <=> status = "OK", end.ok \in BOOLEAN, end.location_data = data,
         LeavesRow(l, end.row)
  PROVE  Store!StoreNext
<1> DEFINE s == StoreTaskOf(t)
<1>1. s \in StoreWaiting /\ s.location_ID = l
  BY StoreTaskType DEF OneOperationPerLocation, StoreWaiting
<1>2. UNCHANGED <<StoreWaiting, StoreAnswers>>
  BY DEF StoreWaiting, StoreAnswers
<1>3. /\ \A v \in Worker : v # w => pc'[v] = pc[v] /\ outcome'[v] = outcome[v]
      /\ pc'[w] = "done" /\ outcome'[w] = [status |-> status, location_data |-> data]
  BY DEF EndOperation, TypeOK
<1>4. \A v \in Worker : ~DoneOn(v, l)
  BY DEF DoneOn, Busy, OneOperationPerLocation
<1>5. StoreOperation[l] = NoTask
  BY <1>4, OperationOnIs DEF StoreOperation
<1>6. OperationOn(l)' = [task |-> s, ok |-> status = "OK", location_data |-> data]
  <2> DEFINE W == {v \in Worker : pc[v] = "done" /\ current[v].location_ID = l}
  <2>1. W' = {w}
    BY <1>3, <1>4 DEF DoneOn
  <2>2. OperationOn(l)' = LET v == CHOOSE v \in {w} : TRUE IN
          [task |-> StoreTaskOf(current'[v]), ok |-> outcome'[v].status = "OK",
           location_data |-> outcome'[v].location_data]
    BY <2>1, Zenon DEF OperationOn
  <2>3. (CHOOSE v \in {w} : TRUE) = w
    OBVIOUS
  <2> QED
    BY <1>3, <2>2, <2>3
<1>7. ASSUME NEW m \in Location, m # l PROVE OperationOn(m)' = OperationOn(m)
  <2>1. \A v \in Worker : DoneOn(v, m)' <=> DoneOn(v, m)
    BY <1>3, <1>7 DEF DoneOn
  <2>2. \A v \in Worker : DoneOn(v, m) => current'[v] = current[v] /\ outcome'[v] = outcome[v]
    BY <1>3 DEF DoneOn
  <2> QED
    BY <2>1, <2>2, OperationOnSame
<1>8. StoreOperation' = [StoreOperation EXCEPT ![l] =
        [task |-> s, ok |-> status = "OK", location_data |-> data]]
  BY <1>6, <1>7 DEF StoreOperation
<1>9. end \in Store!Outcomes(s)
  OBVIOUS
<1> HIDE DEF s
<1>10. Store!Perform(s)
  <2>1. StoreOperation' = [StoreOperation EXCEPT ![s.location_ID] =
          [task |-> s, ok |-> end.ok, location_data |-> end.location_data]]
    BY <1>1, <1>8, <1>9
  <2>2. database' = [database EXCEPT ![s.location_ID] = end.row]
    BY <1>1 DEF LeavesRow
  <2> QED
    BY <1>1, <1>2, <1>5, <1>9, <2>1, <2>2 DEF Store!Perform
<1> QED
  BY <1>1, <1>10, Zenon DEF Store!StoreNext, Store!StoreStep

\* A worker that ends its operation and leaves the row as it is.
LEMMA PerformWithoutChange ==
  ASSUME TypeOK, OneOperationPerLocation, NEW w \in Worker,
         NEW t \in Task, t = current[w], NEW l \in Location, l = t.location_ID,
         Busy(w), pc[w] # "done",
         NEW status, NEW data, EndOperation(w, status, data),
         UNCHANGED <<tasks, results, current, database>>,
         NEW end \in Store!Outcomes(StoreTaskOf(t)),
         end.ok = TRUE <=> status = "OK", end.ok \in BOOLEAN, end.location_data = data,
         end.row = database[l]
  PROVE  Store!StoreNext
<1>1. LeavesRow(l, end.row)
  BY DEF TypeOK, LeavesRow
<1>2. UNCHANGED <<tasks, results, current>>
  OBVIOUS
<1> QED
  BY <1>1, <1>2, PerformStep

\* Any operation may fail.
LEMMA OutcomeFailed ==
  ASSUME NEW t \in Task, NEW l, l = t.location_ID
  PROVE  [ok |-> FALSE, location_data |-> NoData, row |-> database[l]]
           \in Store!Outcomes(StoreTaskOf(t))
<1>1. StoreTaskOf(t).location_ID = l
  BY StoreTaskType
<1> QED
  BY <1>1, Zenon DEF Store!Outcomes

LEMMA FailingStep ==
  ASSUME TypeOK, OneOperationPerLocation, NEW w \in Worker,
         NEW t \in Task, t = current[w], NEW l \in Location, l = t.location_ID,
         Busy(w), pc[w] # "done",
         NEW status, status # "OK", EndOperation(w, status, NoData),
         UNCHANGED <<tasks, results, current, database>>
  PROVE  Store!StoreNext
<1>1. PICK end \in Store!Outcomes(StoreTaskOf(t)) :
        end = [ok |-> FALSE, location_data |-> NoData, row |-> database[l]]
  BY OutcomeFailed
<1>2. (end.ok = TRUE <=> status = "OK") /\ end.ok \in BOOLEAN /\ end.location_data = NoData /\ end.row = database[l]
  BY <1>1
<1> QED
  BY <1>2, PerformWithoutChange

LEMMA CheckWriteDeadlineStore ==
  ASSUME TypeOK, OneOperationPerLocation, NEW w \in Worker, CheckWriteDeadline(w)
  PROVE  Store!StoreNext \/ UNCHANGED Store!store_vars
<1>1. /\ Busy(w) /\ pc[w] = "run"
      /\ UNCHANGED <<tasks, results, current, database>>
  BY DEF CheckWriteDeadline, Busy, queue_vars, backend_vars
<1>2. PICK t \in Task : t = current[w]
  BY <1>1, BusyTask
<1>3. PICK l \in Location : l = t.location_ID
  BY <1>1, <1>2, BusyTask
<1>4. CASE EndOperation(w, "WriteDeadlineReached", NoData)
  BY <1>1, <1>2, <1>3, <1>4, FailingStep
<1>5. CASE EndOperation(w, "WriteFailed", NoData)
  BY <1>1, <1>2, <1>3, <1>5, FailingStep
<1>6. CASE pc' = [pc EXCEPT ![w] = "query"] /\ UNCHANGED outcome
  <2>1. \A v \in Worker : pc'[v] = "done" <=> pc[v] = "done"
    BY <1>1, <1>6 DEF TypeOK
  <2> QED
    BY <1>1, <1>6, <2>1, StoreFrame
<1> QED
  BY <1>4, <1>5, <1>6 DEF CheckWriteDeadline

\* An end of an operation.
EndOf(ok, data, row) == [ok |-> ok, location_data |-> data, row |-> row]

LEMMA ReadOutcomes ==
  ASSUME NEW t \in Task, t.direction = "Read", NEW l, l = t.location_ID,
         NEW d \in {EmptyData, database[l]} \ {Missing}
  PROVE  EndOf(TRUE, d, database[l]) \in Store!Outcomes(StoreTaskOf(t))
<1>1. StoreTaskOf(t).direction = "Read" /\ StoreTaskOf(t).location_ID = l
  BY StoreTaskType
<1> QED
  BY <1>1 DEF Store!Outcomes, EndOf

LEMMA IdsOutcomes ==
  ASSUME NEW t \in Task, t.direction = "Read_Locations_Ids", NEW l, l = t.location_ID
  PROVE  EndOf(TRUE, LocationsIds, database[l]) \in Store!Outcomes(StoreTaskOf(t))
<1>1. StoreTaskOf(t).direction = "Read_Locations_Ids" /\ StoreTaskOf(t).location_ID = l
  BY StoreTaskType
<1> QED
  BY <1>1 DEF Store!Outcomes, EndOf

LEMMA DeleteOutcomes ==
  ASSUME NEW t \in Task, t.direction = "Delete", NEW l, l = t.location_ID,
         l \notin Gamestate
  PROVE  /\ EndOf(TRUE, NoData, Missing) \in Store!Outcomes(StoreTaskOf(t))
         /\ LostReply => EndOf(FALSE, NoData, Missing) \in Store!Outcomes(StoreTaskOf(t))
<1>1. StoreTaskOf(t).direction = "Delete" /\ StoreTaskOf(t).location_ID = l
  BY StoreTaskType
<1> QED
  BY <1>1 DEF Store!Outcomes, EndOf

LEMMA WriteOutcomes ==
  ASSUME NEW t \in Task, t.direction \in {"Write", "Insert"}, NEW l, l = t.location_ID,
         NEW v, v = ContentOf(t)
  PROVE  /\ l \in Guest =>
              EndOf(TRUE, v, database[l]) \in Store!Outcomes(StoreTaskOf(t))
         /\ l \notin Guest =>
              /\ EndOf(TRUE, v, v) \in Store!Outcomes(StoreTaskOf(t))
              /\ LostReply => EndOf(FALSE, NoData, v) \in Store!Outcomes(StoreTaskOf(t))
              /\ LostReply /\ database[l] = Missing =>
                   EndOf(TRUE, v, Missing) \in Store!Outcomes(StoreTaskOf(t))
<1>1. /\ StoreTaskOf(t).direction \in {"Write", "Insert"}
      /\ StoreTaskOf(t).location_ID = l
      /\ StoreTaskOf(t).location_data = v
  BY StoreTaskType DEF CarriedBy, IsRead, ReadDirection
<1> QED
  BY <1>1 DEF Store!Outcomes, EndOf

\* A statement that may run, or be refused, or run and be reported as failed.
LEMMA StatementStep ==
  ASSUME TypeOK, OneOperationPerLocation, NEW w \in Worker,
         NEW t \in Task, t = current[w], NEW l \in Location, l = t.location_ID,
         Busy(w), pc[w] # "done",
         UNCHANGED <<tasks, results, current>>,
         NEW row, NEW parts, NEW data, WriteStatement(w, l, row, parts, data),
         EndOf(TRUE, data, row) \in Store!Outcomes(StoreTaskOf(t)),
         LostReply => EndOf(FALSE, NoData, row) \in Store!Outcomes(StoreTaskOf(t))
  PROVE  Store!StoreNext
<1>1. CASE EndOperation(w, "OK", data) /\ LeavesRow(l, row)
  <2>1. PICK end \in Store!Outcomes(StoreTaskOf(t)) : end = EndOf(TRUE, data, row)
    OBVIOUS
  <2>2. end.ok = TRUE /\ end.ok \in BOOLEAN /\ end.location_data = data /\ LeavesRow(l, end.row)
    BY <1>1, <2>1 DEF EndOf
  <2>3. UNCHANGED <<tasks, results, current>>
    OBVIOUS
  <2> QED
    BY <1>1, <2>2, <2>3, PerformStep
<1>2. CASE LostReply /\ EndOperation(w, "WriteFailed", NoData) /\ LeavesRow(l, row)
  <2>1. PICK end \in Store!Outcomes(StoreTaskOf(t)) : end = EndOf(FALSE, NoData, row)
    BY <1>2
  <2>2. end.ok # TRUE /\ end.ok \in BOOLEAN /\ end.location_data = NoData
        /\ LeavesRow(l, end.row)
    BY <1>2, <2>1 DEF EndOf
  <2>3. UNCHANGED <<tasks, results, current>>
    OBVIOUS
  <2> QED
    BY <1>2, <2>2, <2>3, PerformStep
<1>3. CASE EndOperation(w, "WriteFailed", NoData) /\ UNCHANGED database
  <2>1. UNCHANGED <<tasks, results, current, database>>
    BY <1>3
  <2> QED
    BY <1>3, <2>1, FailingStep
<1> QED
  BY <1>1, <1>2, <1>3 DEF WriteStatement, backend_vars, LeavesRow

\* An operation that succeeds and leaves the row as it is.
LEMMA SucceedsWithoutChange ==
  ASSUME TypeOK, OneOperationPerLocation, NEW w \in Worker,
         NEW t \in Task, t = current[w], NEW l \in Location, l = t.location_ID,
         Busy(w), pc[w] # "done",
         UNCHANGED <<tasks, results, current, database>>,
         NEW data, EndOperation(w, "OK", data),
         EndOf(TRUE, data, database[l]) \in Store!Outcomes(StoreTaskOf(t))
  PROVE  Store!StoreNext
<1>1. PICK end \in Store!Outcomes(StoreTaskOf(t)) : end = EndOf(TRUE, data, database[l])
  OBVIOUS
<1>2. end.ok = TRUE /\ end.ok \in BOOLEAN /\ end.location_data = data /\ end.row = database[l]
  BY <1>1 DEF EndOf
<1> QED
  BY <1>2, PerformWithoutChange

\* total_parts tells that there is a row, as long as a failure says the truth.
RowsAreKnown == LostReply \/ PartsTellRow

LEMMA WriteLocationStore ==
  ASSUME TypeOK, OneOperationPerLocation, RowsAreKnown, NEW w \in Worker,
         NEW t \in Task, t = current[w], NEW l \in Location, l = t.location_ID,
         Busy(w), pc[w] # "done",
         UNCHANGED <<tasks, results, current>>,
         t.direction \in {"Write", "Insert"}, WriteLocation(w, t)
  PROVE  Store!StoreNext
<1>1. PICK v \in Version : v = ContentOf(t)
  BY ContentOfTask
<1>2. total_parts[l] \in {0, 1}
  BY DEF TypeOK
<1>3. CASE l \in Guest
  <2>1. EndOperation(w, "OK", v) /\ UNCHANGED <<tasks, results, current, database>>
    BY <1>1, <1>3 DEF WriteLocation, backend_vars
  <2>2. EndOf(TRUE, v, database[l]) \in Store!Outcomes(StoreTaskOf(t))
    BY <1>1, <1>3, WriteOutcomes
  <2> QED
    BY <2>1, <2>2, SucceedsWithoutChange
<1>4. CASE l \notin Guest
  <2>1. /\ EndOf(TRUE, v, v) \in Store!Outcomes(StoreTaskOf(t))
        /\ LostReply => EndOf(FALSE, NoData, v) \in Store!Outcomes(StoreTaskOf(t))
        /\ LostReply /\ database[l] = Missing =>
             EndOf(TRUE, v, Missing) \in Store!Outcomes(StoreTaskOf(t))
    BY <1>1, <1>4, WriteOutcomes
  <2>2. UNCHANGED <<tasks, results, current>>
    OBVIOUS
  <2>3. CASE total_parts[l] > 0 /\ database[l] # Missing
    <3>1. PICK parts \in {0, 1} : parts = total_parts[l]
      BY <1>2
    <3>2. WriteStatement(w, l, v, parts, v)
      BY <1>1, <1>4, <2>3, <3>1 DEF WriteLocation
    <3> QED
      BY <2>1, <2>2, <3>2, StatementStep
  <2>4. CASE total_parts[l] > 0 /\ database[l] = Missing
    <3>1. LostReply
      BY <2>4 DEF RowsAreKnown, PartsTellRow
    <3>2. UNCHANGED database
      BY <1>4, <2>4 DEF WriteLocation, WriteStatement, backend_vars, TypeOK
    <3>3. EndOperation(w, "OK", v) \/ EndOperation(w, "WriteFailed", NoData)
      BY <1>1, <1>4, <2>4 DEF WriteLocation, WriteStatement
    <3>4. UNCHANGED <<tasks, results, current, database>>
      BY <3>2
    <3>5. EndOf(TRUE, v, database[l]) \in Store!Outcomes(StoreTaskOf(t))
      BY <2>1, <2>4, <3>1
    <3> QED
      BY <3>3, <3>4, <3>5, SucceedsWithoutChange, FailingStep
  <2>5. CASE total_parts[l] = 0 /\ database[l] = Missing
    <3>1. WriteStatement(w, l, v, 1, v)
      BY <1>1, <1>4, <2>5 DEF WriteLocation
    <3> QED
      BY <2>1, <2>2, <3>1, StatementStep
  <2>6. CASE total_parts[l] = 0 /\ database[l] # Missing
    <3>1. /\ EndOperation(w, "WriteFailed", NoData)
          /\ UNCHANGED <<tasks, results, current, database>>
      BY <1>4, <2>6 DEF WriteLocation, backend_vars
    <3> QED
      BY <3>1, FailingStep
  <2> QED
    BY <1>2, <2>3, <2>4, <2>5, <2>6
<1> QED
  BY <1>3, <1>4

LEMMA RunDatabaseOperationStore ==
  ASSUME TypeOK, OneOperationPerLocation, RowsAreKnown, NEW w \in Worker,
         RunDatabaseOperation(w)
  PROVE  Store!StoreNext
<1>1. Busy(w) /\ pc[w] # "done" /\ UNCHANGED <<tasks, results, current>>
  BY DEF RunDatabaseOperation, Busy, queue_vars
<1>2. PICK t \in Task : t = current[w]
  BY <1>1, BusyTask
<1>3. PICK l \in Location : l = t.location_ID
  BY <1>1, <1>2, BusyTask
<1>4. UNCHANGED <<tasks, results, current>>
  BY <1>1
<1>5. CASE t.direction = "Read"
  <2>1. LoadLocation(w, l) /\ UNCHANGED database
    BY <1>2, <1>3, <1>5 DEF RunDatabaseOperation
  <2>2. UNCHANGED <<tasks, results, current, database>>
    BY <1>1, <2>1
  <2>3. CASE database[l] # Missing /\ EndOperation(w, "OK", database[l])
    <3>1. PICK row \in Row : row = database[l]
      BY DEF TypeOK
    <3>2. EndOperation(w, "OK", row)
      BY <2>3, <3>1
    <3>3. EndOf(TRUE, row, database[l]) \in Store!Outcomes(StoreTaskOf(t))
      BY <1>3, <1>5, <2>3, <3>1, ReadOutcomes
    <3> QED
      BY <1>1, <1>2, <1>3, <2>2, <3>2, <3>3, SucceedsWithoutChange
  <2>4. CASE EndOperation(w, "ReadFailed", NoData)
    BY <1>1, <1>2, <1>3, <2>2, <2>4, FailingStep
  <2>5. CASE EndOperation(w, "OK", EmptyData)
    <3>1. EndOf(TRUE, EmptyData, database[l]) \in Store!Outcomes(StoreTaskOf(t))
      BY <1>3, <1>5, EmptyDataIsNotMissing, ReadOutcomes
    <3> QED
      BY <1>1, <1>2, <1>3, <2>2, <2>5, <3>1, SucceedsWithoutChange
  <2> QED
    BY <2>1, <2>3, <2>4, <2>5 DEF LoadLocation
<1>6. CASE t.direction = "Read_Locations_Ids"
  <2>1. EndOperation(w, "OK", LocationsIds) /\ UNCHANGED database
    BY <1>2, <1>6 DEF RunDatabaseOperation, backend_vars
  <2>2. UNCHANGED <<tasks, results, current, database>>
    BY <1>1, <2>1
  <2>3. EndOf(TRUE, LocationsIds, database[l]) \in Store!Outcomes(StoreTaskOf(t))
    BY <1>3, <1>6, IdsOutcomes
  <2> QED
    BY <1>1, <1>2, <1>3, <2>1, <2>2, <2>3, SucceedsWithoutChange
<1>7. CASE t.direction = "Delete"
  <2>1. DeleteLocation(w, t)
    BY <1>2, <1>7 DEF RunDatabaseOperation
  <2>2. CASE l \in Gamestate
    <3>1. EndOperation(w, "WriteFailed", NoData) /\ UNCHANGED database
      BY <1>3, <2>1, <2>2 DEF DeleteLocation, backend_vars
    <3>2. UNCHANGED <<tasks, results, current, database>>
      BY <1>1, <3>1
    <3> QED
      BY <1>1, <1>2, <1>3, <3>1, <3>2, FailingStep
  <2>3. CASE l \notin Gamestate
    <3>1. WriteStatement(w, l, Missing, 0, NoData)
      BY <1>3, <2>1, <2>3 DEF DeleteLocation
    <3>2. /\ EndOf(TRUE, NoData, Missing) \in Store!Outcomes(StoreTaskOf(t))
          /\ LostReply => EndOf(FALSE, NoData, Missing) \in Store!Outcomes(StoreTaskOf(t))
      BY <1>3, <1>7, <2>3, DeleteOutcomes
    <3> QED
      BY <1>1, <1>2, <1>3, <1>4, <3>1, <3>2, StatementStep
  <2> QED
    BY <2>2, <2>3
<1>8. CASE t.direction \in {"Write", "Insert"}
  <2>1. WriteLocation(w, t)
    BY <1>2, <1>8 DEF RunDatabaseOperation
  <2> QED
    BY <1>1, <1>2, <1>3, <1>4, <1>8, <2>1, WriteLocationStore
<1> QED
  BY <1>5, <1>6, <1>7, <1>8 DEF Task, Direction, ReadDirection, WriteDirection

-----------------------------------------------------------------------------
(* The groups: a new task is asked, answers are taken.                       *)

LEMMA AddLocationDBTaskStore ==
  ASSUME TypeOK, NEW g \in Group, NEW l \in Location, NEW a \in Trigger,
         NEW patience \in Patience, AddLocationDBTask(g, l, a, patience)
  PROVE  Store!StoreNext
<1>1. PICK task : tasks' = [tasks EXCEPT ![l] = @ \cup {task}]
  BY DEF AddLocationDBTask
<1>2. UNCHANGED <<results, database>> /\ UNCHANGED <<pc, current, outcome>>
  BY Zenon DEF AddLocationDBTask, worker_vars, backend_vars
<1>3. \A m \in Location : tasks'[m] = IF m = l THEN tasks[l] \cup {task} ELSE tasks[m]
  BY <1>1 DEF TypeOK
<1>4. task \in Task
  <2>1. tasks' \in [Location -> SUBSET Task]
    BY AddLocationDBTaskType DEF TypeOK
  <2> QED
    BY <1>3, <2>1
<1>5. StoreWaiting' = StoreWaiting \cup {StoreTaskOf(task)}
  BY <1>3 DEF StoreWaiting
<1>6. UNCHANGED <<StoreOperation, StoreAnswers, database>>
  BY <1>2, OperationsFrame DEF StoreAnswers
<1>7. Store!Ask(StoreTaskOf(task))
  BY <1>5, <1>6 DEF Store!Ask
<1>8. StoreTaskOf(task) \in Store!Task
  BY <1>4, StoreTaskType
<1> QED
  BY <1>7, <1>8, Zenon DEF Store!StoreNext

LEMMA ProcessLocationDBTaskResultsStore ==
  ASSUME TypeOK, NEW g \in Group, ProcessLocationDBTaskResults(g)
  PROVE  Store!StoreNext
<1>1. /\ results[g] # {} /\ results' = [results EXCEPT ![g] = {}]
      /\ UNCHANGED <<tasks, database, pc, current, outcome>>
  BY DEF ProcessLocationDBTaskResults, queue_vars, worker_vars, backend_vars
<1>2. StoreAnswers[g] # {}
  BY <1>1 DEF StoreAnswers
<1>3. StoreAnswers' = [StoreAnswers EXCEPT ![g] = {}]
  BY <1>1 DEF StoreAnswers, TypeOK
<1>4. UNCHANGED <<StoreWaiting, StoreOperation, database>>
  BY <1>1, OperationsFrame DEF StoreWaiting
<1>5. Store!Take(g)
  BY <1>2, <1>3, <1>4 DEF Store!Take
<1> QED
  BY <1>5, Zenon DEF Store!StoreNext

-----------------------------------------------------------------------------
(* Answers: what AddResults makes of the results is what Deliver makes of    *)
(* the answers.  When several new results could override a failure they all  *)
(* carry the same data, so it does not matter which one is taken.            *)

LEMMA AnswerParts ==
  ASSUME NEW r
  PROVE  /\ AnswerOf(r).taskid = r.taskid
         /\ AnswerOf(r).location_ID = r.location_ID
         /\ AnswerOf(r).direction = r.direction
         /\ AnswerOf(r).location_data = r.location_data
         /\ (AnswerOf(r).ok <=> r.status = "OK")
BY DEF AnswerOf

StoreAnswer == [taskid : TaskId, location_ID : Location, direction : Direction,
                ok : BOOLEAN, location_data : Data]

LEMMA AnswerType ==
  ASSUME NEW r \in Result
  PROVE  AnswerOf(r) \in StoreAnswer
BY DEF AnswerOf, StoreAnswer, Result

LEMMA AnswerExcept ==
  ASSUME NEW a \in StoreAnswer, NEW ok, NEW data
  PROVE  [a EXCEPT !.ok = ok, !.location_data = data] =
           [taskid |-> a.taskid, location_ID |-> a.location_ID,
            direction |-> a.direction, ok |-> ok, location_data |-> data]
<1> DEFINE One == [taskid : {a.taskid}, location_ID : {a.location_ID},
                   direction : {a.direction}, ok : {ok}, location_data : {data}]
<1>1. [a EXCEPT !.ok = ok, !.location_data = data] \in One
  BY DEF StoreAnswer
<1>2. [taskid |-> a.taskid, location_ID |-> a.location_ID,
       direction |-> a.direction, ok |-> ok, location_data |-> data] \in One
  OBVIOUS
<1> QED
  BY <1>1, <1>2

LEMMA OverriddenAnswer ==
  ASSUME NEW r \in Result, NEW data, NEW data2, data = data2
  PROVE  AnswerOf([r EXCEPT !.status = "OK", !.location_data = data]) =
           [AnswerOf(r) EXCEPT !.ok = TRUE, !.location_data = data2]
<1> DEFINE q == [r EXCEPT !.status = "OK", !.location_data = data]
           a == [taskid |-> r.taskid, location_ID |-> r.location_ID,
                 direction |-> r.direction, ok |-> TRUE, location_data |-> data]
<1>1. /\ q.taskid = r.taskid /\ q.location_ID = r.location_ID
      /\ q.direction = r.direction /\ q.status = "OK" /\ q.location_data = data
  BY DEF Result
<1>2. AnswerOf(q) = a
  <2> HIDE DEF q
  <2> QED
    BY <1>1 DEF AnswerOf
<1>3. [AnswerOf(r) EXCEPT !.ok = TRUE, !.location_data = data2] = a
  <2>1. PICK b \in StoreAnswer : b = AnswerOf(r)
    BY AnswerType
  <2>2. [b EXCEPT !.ok = TRUE, !.location_data = data2] =
          [taskid |-> b.taskid, location_ID |-> b.location_ID,
           direction |-> b.direction, ok |-> TRUE, location_data |-> data2]
    BY AnswerExcept, Zenon
  <2>3. b.taskid = r.taskid /\ b.location_ID = r.location_ID /\ b.direction = r.direction
    BY <2>1, AnswerParts
  <2> QED
    BY <2>1, <2>2, <2>3, Zenon
<1> QED
  BY <1>2, <1>3

LEMMA AddedAnswers ==
  ASSUME NEW g \in Group, results[g] \in SUBSET Result, NEW new \in SUBSET Result,
         \A n1, n2 \in new :
           n1.status = "OK" /\ n2.status = "OK" /\ n1.location_ID = n2.location_ID
           /\ n1.direction = n2.direction => n1.location_data = n2.location_data
  PROVE  {AnswerOf(r) : r \in AddResults(g, new)} =
           Store!Deliver(g, {AnswerOf(n) : n \in new})
<1> DEFINE
    Overriding(r) == {n \in new : /\ n.status = "OK"
                                  /\ n.location_ID = r.location_ID
                                  /\ n.direction = r.direction}
    Override(r) ==
      IF r.status # "OK" /\ Overriding(r) # {}
      THEN [r EXCEPT !.status = "OK",
                     !.location_data =
                        (CHOOSE n \in Overriding(r) : TRUE).location_data]
      ELSE r
    told == {AnswerOf(n) : n \in new}
    Better(r) == {n \in told : /\ n.ok /\ n.location_ID = r.location_ID
                               /\ n.direction = r.direction}
    Kept(r) == IF ~r.ok /\ Better(r) # {}
               THEN [r EXCEPT !.ok = TRUE,
                              !.location_data =
                                 (CHOOSE n \in Better(r) : TRUE).location_data]
               ELSE r
<1>1. AddResults(g, new) = {Override(r) : r \in results[g]} \cup new
  BY Zenon DEF AddResults
<1>2. Store!Deliver(g, told) = {Kept(r) : r \in StoreAnswers[g]} \cup told
  BY Zenon DEF Store!Deliver
<1>3. StoreAnswers[g] = {AnswerOf(r) : r \in results[g]}
  BY DEF StoreAnswers
<1>4. ASSUME NEW r \in results[g] PROVE AnswerOf(Override(r)) = Kept(AnswerOf(r))
  <2>1. Better(AnswerOf(r)) = {AnswerOf(n) : n \in Overriding(r)}
    <3>1. ASSUME NEW n \in new
          PROVE  (/\ AnswerOf(n).ok
                  /\ AnswerOf(n).location_ID = AnswerOf(r).location_ID
                  /\ AnswerOf(n).direction = AnswerOf(r).direction)
                 <=> n \in Overriding(r)
      BY AnswerParts
    <3> HIDE DEF Overriding
    <3>2. \A n \in Overriding(r) : n \in new
      BY DEF Overriding
    <3> QED
      BY <3>1, <3>2, Zenon
  <2>2. AnswerOf(r).ok <=> r.status = "OK"
    BY AnswerParts
  <2> HIDE DEF Better, Overriding
  <2>3. CASE r.status # "OK" /\ Overriding(r) # {}
    <3>1. PICK c \in Overriding(r) : c = CHOOSE n \in Overriding(r) : TRUE
      BY <2>3
    <3>2. Better(AnswerOf(r)) # {}
      BY <2>1, <2>3
    <3>3. PICK b \in Better(AnswerOf(r)) : b = CHOOSE n \in Better(AnswerOf(r)) : TRUE
      BY <3>2
    <3>4. PICK m \in Overriding(r) : b = AnswerOf(m)
      BY <2>1
    <3>5. c.location_data = m.location_data /\ b.location_data = m.location_data
      BY <3>4, AnswerParts DEF Overriding
    <3>6. Override(r) = [r EXCEPT !.status = "OK", !.location_data = c.location_data]
      BY <2>3, <3>1, Zenon
    <3>7. Kept(AnswerOf(r)) =
            [AnswerOf(r) EXCEPT !.ok = TRUE, !.location_data = b.location_data]
      BY <2>2, <2>3, <3>2, <3>3, Zenon
    <3>8. r \in Result
      OBVIOUS
    <3>9. AnswerOf([r EXCEPT !.status = "OK", !.location_data = c.location_data]) =
            [AnswerOf(r) EXCEPT !.ok = TRUE, !.location_data = b.location_data]
      <4>1. PICK x : x = c.location_data
        OBVIOUS
      <4>2. PICK y : y = b.location_data
        OBVIOUS
      <4>3. x = y
        BY <3>5, <4>1, <4>2, Zenon
      <4>4. AnswerOf([r EXCEPT !.status = "OK", !.location_data = x]) =
              [AnswerOf(r) EXCEPT !.ok = TRUE, !.location_data = y]
        BY <3>8, <4>3, OverriddenAnswer, Zenon
      <4> QED
        BY <4>1, <4>2, <4>4, Zenon
    <3> HIDE DEF Override, Kept
    <3> QED
      BY <3>6, <3>7, <3>9, Zenon
  <2>4. CASE ~(r.status # "OK" /\ Overriding(r) # {})
    <3>1. Override(r) = r
      BY <2>4, Zenon
    <3>2. ~(~AnswerOf(r).ok /\ Better(AnswerOf(r)) # {})
      <4>1. CASE r.status = "OK"
        BY <2>2, <4>1
      <4>2. CASE Overriding(r) = {}
        BY <2>1, <4>2
      <4> QED
        BY <2>4, <4>1, <4>2
    <3>3. Kept(AnswerOf(r)) = AnswerOf(r)
      BY <3>2, Zenon
    <3> HIDE DEF Override, Kept
    <3> QED
      BY <3>1, <3>3
  <2> QED
    BY <2>3, <2>4
<1> HIDE DEF Override, Kept, Overriding, Better
<1>5. {AnswerOf(r) : r \in {Override(x) : x \in results[g]} \cup new} =
        {AnswerOf(Override(x)) : x \in results[g]} \cup told
  BY Zenon
<1>6. {Kept(r) : r \in {AnswerOf(x) : x \in results[g]}} =
        {Kept(AnswerOf(x)) : x \in results[g]}
  BY Zenon
<1>7. {Kept(AnswerOf(x)) : x \in results[g]} = {AnswerOf(Override(x)) : x \in results[g]}
  BY <1>4
<1> QED
  BY <1>1, <1>2, <1>3, <1>5, <1>6, <1>7

LEMMA DeliverNothing ==
  ASSUME NEW g \in Group
  PROVE  Store!Deliver(g, {}) = StoreAnswers[g]
<1> DEFINE Better(r) == {n \in {} : /\ n.ok /\ n.location_ID = r.location_ID
                                    /\ n.direction = r.direction}
           Kept(r) == IF ~r.ok /\ Better(r) # {}
                      THEN [r EXCEPT !.ok = TRUE,
                                     !.location_data =
                                        (CHOOSE n \in Better(r) : TRUE).location_data]
                      ELSE r
<1>1. Store!Deliver(g, {}) = {Kept(r) : r \in StoreAnswers[g]} \cup {}
  BY Zenon DEF Store!Deliver
<1>2. \A r : Better(r) = {}
  OBVIOUS
<1> HIDE DEF Better
<1>3. \A r : Kept(r) = r
  BY <1>2, Zenon
<1> HIDE DEF Kept
<1> QED
  BY <1>1, <1>3

\* The tasks that leave the queue leave the waiting ones.
LEMMA WaitingWithout ==
  ASSUME TypeOK, EveryTriggerHasOneTask,
         NEW moved, \A l \in Location : moved[l] \subseteq tasks[l],
         \A l \in Location : tasks'[l] = tasks[l] \ moved[l]
  PROVE  StoreWaiting' =
           StoreWaiting \ {StoreTaskOf(t) : t \in UNION {moved[l] : l \in Location}}
<1> DEFINE S == {StoreTaskOf(t) : t \in UNION {moved[l] : l \in Location}}
<1>1. ASSUME NEW s \in StoreWaiting' PROVE s \in StoreWaiting \ S
  <2>0. PICK l \in Location : \E t \in tasks'[l] : s = StoreTaskOf(t)
    BY DEF StoreWaiting
  <2>1. PICK t \in tasks'[l] : s = StoreTaskOf(t)
    BY <2>0
  <2>2. t \in tasks[l] /\ t \notin moved[l]
    BY <2>1
  <2>3. s \in StoreWaiting
    BY <2>1, <2>2 DEF StoreWaiting
  <2>4. ASSUME NEW m \in Location, NEW u \in moved[m] PROVE s # StoreTaskOf(u)
    <3>1. u \in tasks[m]
      OBVIOUS
    <3> QED
      BY <2>1, <2>2, <3>1, SameStoreTask
  <2> QED
    BY <2>3, <2>4
<1>2. ASSUME NEW s \in StoreWaiting, s \notin S PROVE s \in StoreWaiting'
  <2>0. PICK l \in Location : \E t \in tasks[l] : s = StoreTaskOf(t)
    BY DEF StoreWaiting
  <2>1. PICK t \in tasks[l] : s = StoreTaskOf(t)
    BY <2>0
  <2>2. t \in tasks'[l]
    BY <1>2, <2>1
  <2> QED
    BY <2>1, <2>2 DEF StoreWaiting
<1> QED
  BY <1>1, <1>2

\* The read of a location under way keeps its reads, the write under way keeps
\* itself and every newer write.
LEMMA ExpiredMayExpire ==
  ASSUME TypeOK, OneOperationPerLocation, NEW l \in Location, NEW t \in ExpiredTasks(l)
  PROVE  Store!MayExpire(StoreTaskOf(t))
<1>1. t \in Task /\ t.location_ID = l
  BY DEF ExpiredTasks, TypeOK
<1>2. /\ StoreTaskOf(t).location_ID = l /\ StoreTaskOf(t).taskid = t.taskid
      /\ Store!IsReadTask(StoreTaskOf(t)) <=> IsRead(t)
  BY <1>1, StoreTaskType
<1>3. StoreOperation[l] = OperationOn(l)
  BY DEF StoreOperation
<1>4. CASE \A w \in Worker : ~DoneOn(w, l)
  <2>1. StoreOperation[l] = NoTask
    BY <1>3, <1>4, OperationOnIs
  <2> QED
    BY <1>2, <2>1 DEF Store!MayExpire
<1>5. ASSUME NEW w \in Worker, DoneOn(w, l) PROVE Store!MayExpire(StoreTaskOf(t))
  <2>1. Busy(w) /\ current[w].location_ID = l
    BY <1>5 DEF DoneOn, Busy
  <2>2. PICK c \in Task : c = current[w]
    BY <2>1, BusyTask
  <2>3. StoreOperation[l] = OperationOf(w)
    BY <1>3, <1>5, OperationOnIs
  <2>4. StoreOperation[l].task = StoreTaskOf(c)
    BY <2>2, <2>3 DEF OperationOf
  <2>5. /\ StoreTaskOf(c).taskid = c.taskid
        /\ Store!IsReadTask(StoreTaskOf(c)) <=> IsRead(c)
    BY StoreTaskType
  <2>6. \A k \in Kind : running[l][k] = IF k = KindOf(c) THEN c.taskid ELSE 0
    BY <2>1, <2>2 DEF OneOperationPerLocation
  <2>7. c.taskid # 0
    BY ConstantsAssumption DEF Task, TaskId
  <2>8. IsRead(c) # IsRead(t) \/ (~IsRead(t) /\ c.taskid < t.taskid)
    BY <2>6, <2>7 DEF ExpiredTasks, KindOf, Kind
  <2>9. \/ Store!IsReadTask(StoreTaskOf(t)) # Store!IsReadTask(StoreTaskOf(c))
        \/ /\ ~Store!IsReadTask(StoreTaskOf(t))
           /\ StoreTaskOf(c).taskid < StoreTaskOf(t).taskid
    BY <1>2, <2>5, <2>8 DEF Store!IsReadTask, IsRead
  <2> QED
    BY <1>2, <2>4, <2>9, Zenon DEF Store!MayExpire
<1> QED
  BY <1>4, <1>5

LEMMA ExpiredAnswer ==
  ASSUME NEW t \in Task, NEW s, s = StoreTaskOf(t)
  PROVE  AnswerOf(ExpiredResult(t)) = Store!Answer(s, s.direction, FALSE, s.location_data)
<1>1. /\ ExpiredResult(t).taskid = t.taskid
      /\ ExpiredResult(t).location_ID = t.location_ID
      /\ ExpiredResult(t).direction = t.direction
      /\ ExpiredResult(t).status # "OK"
      /\ ExpiredResult(t).location_data = CarriedBy(t)
  BY DEF ExpiredResult, CarriedBy
<1>2. /\ s.taskid = t.taskid /\ s.location_ID = t.location_ID
      /\ s.direction = t.direction /\ s.location_data = CarriedBy(t)
  BY StoreTaskType
<1> QED
  BY <1>1, <1>2 DEF AnswerOf, Store!Answer

LEMMA ClearExpiredDBTasksStore ==
  ASSUME TypeOK, OneOperationPerLocation, EveryTriggerHasOneTask,
         NEW w \in Worker, ClearExpiredDBTasks(w)
  PROVE  Store!StoreNext \/ UNCHANGED Store!store_vars
<1> DEFINE All == UNION {ExpiredTasks(l) : l \in Location}
           moved == [l \in Location |-> ExpiredTasks(l)]
           S == {StoreTaskOf(t) : t \in All}
           New(g) == {ExpiredResult(t) : t \in {u \in All : u.group_id = g}}
           Told(g) == {Store!Answer(s, s.direction, FALSE, s.location_data) :
                         s \in {u \in S : u.group_id = g}}
<1>1. /\ pc[w] = "clear" /\ pc' = [pc EXCEPT ![w] = "pick"]
      /\ tasks' = [l \in Location |-> tasks[l] \ ExpiredTasks(l)]
      /\ results' = [g \in Group |-> AddResults(g, New(g))]
      /\ UNCHANGED <<current, outcome, database>>
  BY DEF ClearExpiredDBTasks, backend_vars
<1>2. UNCHANGED <<StoreOperation, database>>
  <2>1. \A v \in Worker : pc'[v] = "done" <=> pc[v] = "done"
    BY <1>1 DEF TypeOK
  <2> QED
    BY <1>1, <2>1, OperationsFrame
<1>3. \A t \in All : \E l \in Location : t \in ExpiredTasks(l) /\ t \in tasks[l] /\ t \in Task
  BY DEF ExpiredTasks, TypeOK
<1>4. StoreWaiting' = StoreWaiting \ S
  <2>1. \A l \in Location : moved[l] \subseteq tasks[l]
    BY DEF ExpiredTasks
  <2>2. \A l \in Location : tasks'[l] = tasks[l] \ moved[l]
    BY <1>1
  <2>3. {moved[l] : l \in Location} = {ExpiredTasks(l) : l \in Location}
    OBVIOUS
  <2> HIDE DEF moved
  <2>4. StoreWaiting' =
          StoreWaiting \ {StoreTaskOf(t) : t \in UNION {moved[l] : l \in Location}}
    BY <2>1, <2>2, WaitingWithout
  <2> QED
    BY <2>3, <2>4
<1>5. ASSUME NEW g \in Group PROVE StoreAnswers'[g] = Store!Deliver(g, Told(g))
  <2>1. \A t \in All : ExpiredResult(t) \in Result /\ ExpiredResult(t).status # "OK"
    BY <1>3, ExpiredResultType DEF ExpiredResult
  <2>2. New(g) \in SUBSET Result /\ \A n \in New(g) : n.status # "OK"
    BY <2>1
  <2>3. {AnswerOf(n) : n \in New(g)} = Told(g)
    <3>1. \A t \in All : AnswerOf(ExpiredResult(t)) =
            Store!Answer(StoreTaskOf(t), StoreTaskOf(t).direction, FALSE,
                         StoreTaskOf(t).location_data)
      BY <1>3, ExpiredAnswer
    <3>2. \A t \in All : StoreTaskOf(t).group_id = t.group_id
      BY <1>3, StoreTaskType
    <3> HIDE DEF All
    <3> QED
      BY <3>1, <3>2
  <2>4. results[g] \in SUBSET Result
    BY DEF TypeOK
  <2>5. StoreAnswers'[g] = {AnswerOf(r) : r \in AddResults(g, New(g))}
    BY <1>1 DEF StoreAnswers
  <2> HIDE DEF New
  <2>6. {AnswerOf(r) : r \in AddResults(g, New(g))} =
          Store!Deliver(g, {AnswerOf(n) : n \in New(g)})
    BY <2>2, <2>4, AddedAnswers
  <2> QED
    BY <2>3, <2>5, <2>6
<1>6. StoreAnswers' = [g \in Group |-> Store!Deliver(g, Told(g))]
  <2> HIDE DEF Told
  <2> QED
    BY <1>5 DEF StoreAnswers
<1>7. S \in SUBSET StoreWaiting
  BY <1>3 DEF StoreWaiting
<1>8. \A s \in S : Store!MayExpire(s)
  BY ExpiredMayExpire
<1>9. CASE S = {}
  <2>1. \A g \in Group : Told(g) = {}
    BY <1>9
  <2> HIDE DEF Told
  <2>2. StoreAnswers' = [g \in Group |-> StoreAnswers[g]]
    BY <1>6, <2>1, DeliverNothing
  <2>3. UNCHANGED StoreAnswers
    BY <2>2 DEF StoreAnswers
  <2> QED
    BY <1>2, <1>4, <1>9, <2>3 DEF Store!store_vars
<1>10. CASE S # {}
  <2> HIDE DEF S
  <2>1. Store!Expire(S)
    BY <1>2, <1>4, <1>6, <1>8, Zenon DEF Store!Expire
  <2>2. S \in (SUBSET StoreWaiting) \ {{}}
    BY <1>7, <1>10
  <2> QED
    BY <2>1, <2>2, Zenon DEF Store!StoreNext, Store!StoreStep
<1> QED
  BY <1>9, <1>10

-----------------------------------------------------------------------------
(* The end of an operation.                                                  *)

\* The tasks the queue answers are those the store answers.
LEMMA CoveredAnswered ==
  ASSUME TypeOK, NEW t \in Task, NEW l \in Location, l = t.location_ID
  PROVE  Store!AnsweredBy(StoreTaskOf(t)) = {StoreTaskOf(u) : u \in Covered(t)}
<1> DEFINE s == StoreTaskOf(t)
<1>1. /\ s.location_ID = l /\ s.taskid = t.taskid /\ s.direction = t.direction
      /\ Store!IsReadTask(s) <=> IsRead(t)
  BY StoreTaskType
<1>2. \A m \in Location : \A u \in tasks[m] : u \in Task /\ u.location_ID = m
  BY DEF TypeOK
<1>3. ASSUME NEW m \in Location, NEW u \in tasks[m]
      PROVE  (/\ StoreTaskOf(u).location_ID = s.location_ID
              /\ IF Store!IsReadTask(s) THEN Store!IsReadTask(StoreTaskOf(u))
                 ELSE /\ ~Store!IsReadTask(StoreTaskOf(u))
                      /\ StoreTaskOf(u).taskid <= s.taskid
                      /\ \/ StoreTaskOf(u).direction = s.direction
                         \/ StoreTaskOf(u).direction = "Insert" /\ s.direction = "Write")
             <=> u \in Covered(t)
  <2>1. u \in Task /\ u.location_ID = m
    BY <1>2
  <2>2. /\ StoreTaskOf(u).location_ID = m /\ StoreTaskOf(u).taskid = u.taskid
        /\ StoreTaskOf(u).direction = u.direction
        /\ Store!IsReadTask(StoreTaskOf(u)) <=> IsRead(u)
    BY <2>1, StoreTaskType
  <2>3. u \in Covered(t) <=>
          /\ m = l
          /\ IF IsRead(t) THEN IsRead(u)
             ELSE /\ ~IsRead(u)
                  /\ u.taskid <= t.taskid
                  /\ \/ u.direction = t.direction
                     \/ u.direction = "Insert" /\ t.direction = "Write"
    BY <1>2, <2>1 DEF Covered
  <2> HIDE DEF s
  <2> QED
    BY <1>1, <2>2, <2>3
<1>4. \A u \in Covered(t) : u \in tasks[l]
  BY DEF Covered
<1>5. StoreWaiting = UNION {{StoreTaskOf(u) : u \in tasks[m]} : m \in Location}
  BY DEF StoreWaiting
<1> HIDE DEF s
<1>6. ASSUME NEW x \in Store!AnsweredBy(s) PROVE x \in {StoreTaskOf(u) : u \in Covered(t)}
  <2>1. PICK m \in Location : \E u \in tasks[m] : x = StoreTaskOf(u)
    BY <1>5 DEF Store!AnsweredBy
  <2>2. PICK u \in tasks[m] : x = StoreTaskOf(u)
    BY <2>1
  <2>3. u \in Covered(t)
    BY <1>3, <2>2, Zenon DEF Store!AnsweredBy
  <2> QED
    BY <2>2, <2>3
<1>7. ASSUME NEW u \in Covered(t) PROVE StoreTaskOf(u) \in Store!AnsweredBy(s)
  <2>1. u \in tasks[l] /\ StoreTaskOf(u) \in StoreWaiting
    BY <1>4, <1>5
  <2> QED
    BY <1>3, <2>1, Zenon DEF Store!AnsweredBy
<1> QED
  BY <1>6, <1>7 DEF s

\* The answers a group gets when an operation succeeds.
LEMMA FinishedAnswer ==
  ASSUME NEW t \in Task, NEW u \in Task, NEW data, NEW s, s = StoreTaskOf(t),
         u.location_ID = t.location_ID
  PROVE  AnswerOf([taskid |-> u.taskid, location_ID |-> t.location_ID,
                   direction |-> t.direction, status |-> "OK",
                   location_data |-> data, attempted |-> TRUE])
           = Store!Answer(StoreTaskOf(u), s.direction, TRUE, data)
<1>1. s.direction = t.direction
  BY StoreTaskType
<1>2. StoreTaskOf(u).taskid = u.taskid /\ StoreTaskOf(u).location_ID = t.location_ID
  BY StoreTaskType
<1> QED
  BY <1>1, <1>2 DEF AnswerOf, Store!Answer

FinishedOn(l) == StoreOperation' = [StoreOperation EXCEPT ![l] = NoTask]

\* The answers when an operation for the store's task t ended with data.
AnswersAfter(t, data, covered) ==
  [g \in Group |-> Store!Deliver(g,
     {Store!Answer(u, t.direction, TRUE, data) :
        u \in {v \in covered : v.group_id = g}})]

LEMMA FinishStep ==
  ASSUME NEW l \in Location, StoreOperation[l] # NoTask, FinishedOn(l),
         NEW t, t = StoreOperation[l].task,
         NEW data, data = StoreOperation[l].location_data,
         NEW covered,
         covered = IF StoreOperation[l].ok THEN Store!AnsweredBy(t) ELSE {},
         StoreWaiting' = StoreWaiting \ covered,
         StoreAnswers' = AnswersAfter(t, data, covered),
         UNCHANGED database
  PROVE  Store!StoreNext
<1>1. Store!Finish(l)
  BY Zenon DEF Store!Finish, FinishedOn, AnswersAfter
<1> QED
  BY <1>1, Zenon DEF Store!StoreNext, Store!StoreStep

\* The worker has no operation any more, the others keep theirs.
LEMMA OperationFinished ==
  ASSUME TypeOK, OneOperationPerLocation, NEW w \in Worker,
         NEW l \in Location, DoneOn(w, l),
         pc' = [pc EXCEPT ![w] = "clear"],
         current' = [current EXCEPT ![w] = NoTask],
         outcome' = [outcome EXCEPT ![w] = NoOutcome]
  PROVE  FinishedOn(l)
<1>1. /\ pc'[w] = "clear"
      /\ \A v \in Worker : v # w => /\ pc'[v] = pc[v] /\ current'[v] = current[v]
                                    /\ outcome'[v] = outcome[v]
  BY DEF TypeOK
<1>2. \A v \in Worker : DoneOn(v, l) => v = w
  BY DEF DoneOn, Busy, OneOperationPerLocation
<1>3. OperationOn(l)' = NoTask
  <2>1. {v \in Worker : pc'[v] = "done" /\ current'[v].location_ID = l} = {}
    BY <1>1, <1>2 DEF DoneOn
  <2> QED
    BY <2>1, Zenon DEF OperationOn
<1>4. ASSUME NEW m \in Location, m # l PROVE OperationOn(m)' = OperationOn(m)
  <2>1. ASSUME NEW v \in Worker
        PROVE  (DoneOn(v, m)' <=> DoneOn(v, m)) /\
               (DoneOn(v, m) => current'[v] = current[v] /\ outcome'[v] = outcome[v])
    BY <1>1, <1>4 DEF DoneOn
  <2> QED
    BY <2>1, OperationOnSame
<1> QED
  BY <1>3, <1>4 DEF StoreOperation, FinishedOn

LEMMA ProcessLocationDBTaskResultStore ==
  ASSUME TypeOK, OneOperationPerLocation, EveryTriggerHasOneTask,
         NEW w \in Worker, ProcessLocationDBTaskResult(w)
  PROVE  Store!StoreNext
<1>1. pc[w] = "done" /\ Busy(w)
  BY DEF ProcessLocationDBTaskResult, Busy
<1>2. PICK t \in Task : t = current[w]
  BY <1>1, BusyTask
<1>3. PICK l \in Location : l = t.location_ID
  BY <1>1, <1>2, BusyTask
<1>4. PICK o \in Outcome : o = outcome[w]
  BY DEF TypeOK
<1>5. PICK s \in Store!Task : s = StoreTaskOf(t) /\ s.direction = t.direction
  BY StoreTaskType
<1> DEFINE
    mark(u) == [u EXCEPT !.task_executed = TRUE,
                         !.attempted = @ \/ o.status # "WriteDeadlineReached"]
    answer(u) == [taskid |-> u.taskid, location_ID |-> t.location_ID,
                  direction |-> t.direction, status |-> "OK",
                  location_data |-> o.location_data, attempted |-> TRUE]
    New(g) == {answer(u) : u \in {v \in Covered(t) : v.group_id = g}}
<1>6. /\ tasks' = [tasks EXCEPT ![l] = (tasks[l] \ Covered(t)) \cup
                     (IF o.status = "OK" THEN {} ELSE {mark(u) : u \in Covered(t)})]
      /\ results' = IF o.status = "OK" THEN [g \in Group |-> AddResults(g, New(g))]
                    ELSE results
      /\ pc' = [pc EXCEPT ![w] = "clear"]
      /\ current' = [current EXCEPT ![w] = NoTask]
      /\ outcome' = [outcome EXCEPT ![w] = NoOutcome]
      /\ UNCHANGED database
  BY <1>2, <1>3, <1>4 DEF ProcessLocationDBTaskResult, backend_vars
<1>7. DoneOn(w, l)
  BY <1>1, <1>2, <1>3 DEF DoneOn
<1>8. FinishedOn(l)
  BY <1>6, <1>7, OperationFinished
<1>9. /\ StoreOperation[l] # NoTask
      /\ s = StoreOperation[l].task
      /\ o.location_data = StoreOperation[l].location_data
      /\ StoreOperation[l].ok <=> o.status = "OK"
  <2>1. StoreOperation[l] = OperationOf(w)
    BY <1>7, OperationOnIs DEF StoreOperation
  <2>2. OperationOf(w) # NoTask
    BY <1>1, OperationOfType
  <2>3. StoreOperation[l] = [task |-> s, ok |-> o.status = "OK",
                             location_data |-> o.location_data]
    BY <1>2, <1>4, <1>5, <2>1, Zenon DEF OperationOf
  <2>4. StoreOperation[l].ok = (o.status = "OK")
    BY <2>3
  <2>5. StoreOperation[l].task = s /\ StoreOperation[l].location_data = o.location_data
    BY <2>3
  <2> QED
    BY <2>1, <2>2, <2>4, <2>5
<1>10. Covered(t) \subseteq tasks[l] /\ \A u \in Covered(t) : u \in Task /\ u.location_ID = l
  BY <1>3 DEF Covered, TypeOK
<1>11. Store!AnsweredBy(s) = {StoreTaskOf(u) : u \in Covered(t)}
  BY <1>3, <1>5, CoveredAnswered
<1>12. CASE o.status = "OK"
  <2> DEFINE moved == [m \in Location |-> IF m = l THEN Covered(t) ELSE {}]
             covered == {StoreTaskOf(u) : u \in Covered(t)}
             Told(g) == {Store!Answer(x, s.direction, TRUE, o.location_data) :
                           x \in {v \in covered : v.group_id = g}}
  <2>1. StoreWaiting' = StoreWaiting \ covered
    <3>1. \A m \in Location : moved[m] \subseteq tasks[m]
      BY <1>10
    <3>2. \A m \in Location : tasks'[m] = tasks[m] \ moved[m]
      BY <1>6, <1>12 DEF TypeOK
    <3>3. UNION {moved[m] : m \in Location} = Covered(t)
      OBVIOUS
    <3> HIDE DEF moved
    <3>4. StoreWaiting' =
            StoreWaiting \ {StoreTaskOf(u) : u \in UNION {moved[m] : m \in Location}}
      BY <3>1, <3>2, WaitingWithout
    <3> QED
      BY <3>3, <3>4
  <2>2. ASSUME NEW g \in Group PROVE StoreAnswers'[g] = Store!Deliver(g, Told(g))
    <3>1. \A u \in Covered(t) : answer(u) \in Result
      <4>1. o.location_data \in Data /\ t.direction \in Direction /\ "OK" \in Status
        BY DEF Outcome, Task, Status
      <4> QED
        BY <1>3, <1>10, <4>1 DEF Result, Task
    <3>2. \A u : answer(u).location_data = o.location_data
      OBVIOUS
    <3>3. ASSUME NEW u \in Covered(t)
          PROVE  AnswerOf(answer(u)) =
                   Store!Answer(StoreTaskOf(u), s.direction, TRUE, o.location_data)
      BY <1>3, <1>5, <1>10, FinishedAnswer
    <3>4. \A u \in Covered(t) : StoreTaskOf(u).group_id = u.group_id
      BY <1>10, StoreTaskType
    <3> HIDE DEF answer
    <3>5. {AnswerOf(n) : n \in New(g)} = Told(g)
      BY <3>3, <3>4
    <3>6. New(g) \in SUBSET Result /\ \A n \in New(g) : n.location_data = o.location_data
      BY <3>1, <3>2
    <3>7. results[g] \in SUBSET Result
      BY DEF TypeOK
    <3>8. StoreAnswers'[g] = {AnswerOf(r) : r \in AddResults(g, New(g))}
      BY <1>6, <1>12 DEF StoreAnswers, answer
    <3> HIDE DEF New
    <3>9. {AnswerOf(r) : r \in AddResults(g, New(g))} =
            Store!Deliver(g, {AnswerOf(n) : n \in New(g)})
      BY <3>6, <3>7, AddedAnswers
    <3> QED
      BY <3>5, <3>8, <3>9
  <2> HIDE DEF covered
  <2>3. StoreAnswers' = AnswersAfter(s, o.location_data, covered)
    <3>1. AnswersAfter(s, o.location_data, covered) =
            [g \in Group |-> Store!Deliver(g, Told(g))]
      BY DEF AnswersAfter
    <3> HIDE DEF Told
    <3> QED
      BY <2>2, <3>1 DEF StoreAnswers
  <2>4. covered = IF StoreOperation[l].ok THEN Store!AnsweredBy(s) ELSE {}
    BY <1>9, <1>11, <1>12 DEF covered
  <2>5. UNCHANGED database
    BY <1>6
  <2>6. PICK data : data = o.location_data
    OBVIOUS
  <2> QED
    BY <1>8, <1>9, <2>1, <2>3, <2>4, <2>5, <2>6, FinishStep
<1>13. CASE o.status # "OK"
  <2>1. \A u \in Covered(t) : StoreTaskOf(mark(u)) = StoreTaskOf(u)
    <3>1. ASSUME NEW u \in Task
          PROVE  /\ mark(u).group_id = u.group_id /\ mark(u).taskid = u.taskid
                 /\ mark(u).location_ID = u.location_ID /\ mark(u).direction = u.direction
      BY DEF Task
    <3> HIDE DEF mark
    <3> QED
      BY <1>10, <3>1 DEF StoreTaskOf, CarriedBy, IsRead, ContentOf
  <2> HIDE DEF mark
  <2>2. \A m \in Location : tasks'[m] =
          IF m = l THEN (tasks[l] \ Covered(t)) \cup {mark(u) : u \in Covered(t)}
          ELSE tasks[m]
    BY <1>6, <1>13 DEF TypeOK
  <2>3. \A m \in Location :
          {StoreTaskOf(u) : u \in tasks'[m]} = {StoreTaskOf(u) : u \in tasks[m]}
    <3> SUFFICES ASSUME NEW m \in Location
                 PROVE  {StoreTaskOf(u) : u \in tasks'[m]} =
                          {StoreTaskOf(u) : u \in tasks[m]}
      OBVIOUS
    <3>1. CASE m # l
      BY <2>2, <3>1
    <3>2. CASE m = l
      <4>1. ASSUME NEW u \in tasks'[l]
            PROVE  \E v \in tasks[l] : StoreTaskOf(u) = StoreTaskOf(v)
        <5>1. CASE u \in tasks[l]
          BY <5>1
        <5>2. CASE \E v \in Covered(t) : u = mark(v)
          BY <1>10, <2>1, <5>2, Zenon
        <5> QED
          BY <2>2, <5>1, <5>2
      <4>2. ASSUME NEW v \in tasks[l]
            PROVE  \E u \in tasks'[l] : StoreTaskOf(u) = StoreTaskOf(v)
        <5>1. CASE v \in Covered(t)
          <6>1. mark(v) \in tasks'[l]
            BY <2>2, <5>1
          <6> QED
            BY <2>1, <5>1, <6>1
        <5>2. CASE v \notin Covered(t)
          BY <2>2, <5>2
        <5> QED
          BY <5>1, <5>2
      <4> QED
        BY <3>2, <4>1, <4>2
    <3> QED
      BY <3>1, <3>2
  <2>4. StoreWaiting' = StoreWaiting \ {}
    <3>1. StoreWaiting = UNION {{StoreTaskOf(u) : u \in tasks[m]} : m \in Location}
      BY DEF StoreWaiting
    <3>2. StoreWaiting' = UNION {{StoreTaskOf(u) : u \in tasks'[m]} : m \in Location}
      BY DEF StoreWaiting
    <3> QED
      BY <2>3, <3>1, <3>2
  <2>5. UNCHANGED StoreAnswers /\ UNCHANGED database
    BY <1>6, <1>13 DEF StoreAnswers
  <2>6. \A g \in Group :
          {Store!Answer(x, s.direction, TRUE, o.location_data) :
             x \in {v \in {} : v.group_id = g}} = {}
    OBVIOUS
  <2>7. StoreAnswers' = AnswersAfter(s, o.location_data, {})
    <3>1. AnswersAfter(s, o.location_data, {}) = [g \in Group |-> StoreAnswers[g]]
      BY <2>6, DeliverNothing DEF AnswersAfter
    <3> QED
      BY <2>5, <3>1 DEF StoreAnswers
  <2>8. {} = IF StoreOperation[l].ok THEN Store!AnsweredBy(s) ELSE {}
    BY <1>9, <1>13
  <2>9. UNCHANGED database
    BY <2>5
  <2> QED
    BY <1>8, <1>9, <2>4, <2>7, <2>8, <2>9, FinishStep
<1> QED
  BY <1>12, <1>13

-----------------------------------------------------------------------------
LEMMA GetLocationDBTaskToRunStore ==
  ASSUME TypeOK, NEW w \in Worker, GetLocationDBTaskToRun(w)
  PROVE  UNCHANGED Store!store_vars
<1>1. /\ pc[w] = "pick" /\ UNCHANGED <<tasks, results, database, outcome>>
  BY DEF GetLocationDBTaskToRun, backend_vars
<1>2. \/ Sleep(w)
      \/ \E l \in Location, p \in Pass : StartTask(w, l, p)
  BY Zenon DEF GetLocationDBTaskToRun
<1>3. ASSUME NEW v \in Worker
      PROVE  /\ pc'[v] = "done" <=> pc[v] = "done"
             /\ pc[v] = "done" => current'[v] = current[v] /\ outcome'[v] = outcome[v]
  <2>1. CASE Sleep(w)
    BY <1>1, <2>1 DEF Sleep, TypeOK
  <2>2. CASE \E l \in Location, p \in Pass : StartTask(w, l, p)
    <3>1. \E t : current' = [current EXCEPT ![w] = t] /\ pc' = [pc EXCEPT ![w] = "run"]
      BY <2>2, Zenon DEF StartTask
    <3> QED
      BY <1>1, <3>1 DEF TypeOK
  <2> QED
    BY <1>2, <2>1, <2>2
<1> QED
  BY <1>1, <1>3, StoreFrame

LEMMA NextStore ==
  TypeOK /\ OneOperationPerLocation /\ EveryTriggerHasOneTask /\ RowsAreKnown
    /\ [Next]_vars => [Store!StoreNext]_Store!store_vars
<1> SUFFICES ASSUME TypeOK, OneOperationPerLocation, EveryTriggerHasOneTask,
                    RowsAreKnown, [Next]_vars
             PROVE  Store!StoreNext \/ UNCHANGED Store!store_vars
  OBVIOUS
<1>1. CASE UNCHANGED <<tasks, results, database, worker_vars>>
  BY <1>1, StoreFrame DEF worker_vars
<1>2. CASE UNCHANGED vars
  BY <1>1, <1>2 DEF vars, queue_vars, backend_vars
<1>3. ASSUME NEW g \in Group, GroupStep(g)
      PROVE  Store!StoreNext \/ UNCHANGED Store!store_vars
  <2>1. CASE ConfirmHeartbeat(g)
    BY <1>1, <2>1 DEF ConfirmHeartbeat, queue_vars, backend_vars
  <2> QED
    BY <1>3, <2>1, AddLocationDBTaskStore, ProcessLocationDBTaskResultsStore
       DEF GroupStep
<1>4. ASSUME NEW w \in Worker, WorkerStep(w)
      PROVE  Store!StoreNext \/ UNCHANGED Store!store_vars
  BY <1>4, ClearExpiredDBTasksStore, GetLocationDBTaskToRunStore,
     CheckWriteDeadlineStore, RunDatabaseOperationStore,
     ProcessLocationDBTaskResultStore DEF WorkerStep
<1>5. CASE Tick
  BY <1>1, <1>5 DEF Tick, backend_vars
<1> QED
  BY <1>2, <1>3, <1>4, <1>5 DEF Next

LEMMA RowsAreKnownAlways == Spec => []RowsAreKnown
<1>1. CASE LostReply
  <2>1. RowsAreKnown
    BY <1>1 DEF RowsAreKnown
  <2> QED
    BY <2>1, PTL
<1>2. CASE ~LostReply
  <2>1. Spec => []DatabaseInv
    BY <1>2, DatabaseInvAlways
  <2>2. DatabaseInv => RowsAreKnown
    BY DEF DatabaseInv, RowsAreKnown
  <2> QED
    BY <2>1, <2>2, PTL
<1> QED
  BY <1>1, <1>2

\* The queue with its workers, passes, throttling, deadlines and lost replies
\* implements the store: one operation at a time on a location, no task given
\* up while an operation may answer it, and every answer one of the ways the
\* operation that was performed may end.
THEOREM ImplementsStore == Spec => KeepsStorePromise
<1>1. Init => Store!StoreInit
  BY InitStore
<1>2. TypeOK /\ OneOperationPerLocation /\ EveryTriggerHasOneTask /\ RowsAreKnown
        /\ [Next]_vars => [Store!StoreNext]_Store!store_vars
  BY NextStore
<1> QED
  BY <1>1, <1>2, TypeCorrect, OneOperation, OneTaskPerTrigger, RowsAreKnownAlways, PTL
     DEF Spec, KeepsStorePromise, Store!StoreSpec
=============================================================================
