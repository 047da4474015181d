------------------------- MODULE LocationDBRefinement -------------------------
(***************************************************************************)
(* LocationDB.tla implements LocationStore.tla: the queue with its worker  *)
(* threads, passes, throttling and deadlines keeps the promise the groups  *)
(* rely on.                                                                *)
(***************************************************************************)
EXTENDS MCLocationDB

CarriedBy(t) == IF IsRead(t) THEN NoData ELSE ContentOf(t)

StoreTaskOf(t) ==
  [group_id |-> t.group_id, taskid |-> t.taskid, location_ID |-> t.location_ID,
   direction |-> t.direction, location_data |-> CarriedBy(t)]

AnswerOf(r) ==
  [taskid |-> r.taskid, location_ID |-> r.location_ID, direction |-> r.direction,
   ok |-> r.status = "OK", location_data |-> r.location_data]

\* The operation of a location is the one of the worker that has performed it
\* and has not come back to the queue.
OperationOn(l) ==
  LET W == {w \in Worker : pc[w] = "done" /\ current[w].location_ID = l}
  IN IF W = {} THEN NoTask
     ELSE LET w == CHOOSE w \in W : TRUE
          IN [task |-> StoreTaskOf(current[w]),
              ok |-> outcome[w].status = "OK",
              location_data |-> outcome[w].location_data]

StoreWaiting == {StoreTaskOf(t) : t \in UNION {tasks[l] : l \in Location}}
StoreOperation == [l \in Location |-> OperationOn(l)]
StoreAnswers == [g \in Group |-> {AnswerOf(r) : r \in results[g]}]

Store == INSTANCE LocationStore WITH
  Content     <- Version \cup {OldRow},
  NoOperation <- NoTask,
  waiting     <- StoreWaiting,
  operation   <- StoreOperation,
  answers     <- StoreAnswers,
  rows        <- database

\* NoTask also stands for "no operation".
ASSUME NoTaskAssumption ==
  NoTask \notin [task : Store!Task, ok : BOOLEAN, location_data : Data]

\* What the groups may rely on: one operation at a time, answers that say what
\* the database did, nothing answered before it is performed.
KeepsStorePromise == Store!StoreSpec
=============================================================================
