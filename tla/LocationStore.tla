---------------------------- MODULE LocationStore ----------------------------
(***************************************************************************)
(* What the location database queue promises to the groups that use it.    *)
(* Compared with LocationDB.tla there are no worker threads, no passes, no *)
(* throttling, no cached deadlines and no clock: a task waits until it     *)
(* expires or until an operation that covers it succeeds, one operation at *)
(* a time is performed on a location, and every answer is kept until the   *)
(* group takes it.                                                         *)
(***************************************************************************)
EXTENDS Integers, FiniteSets

CONSTANTS
  Group,         \* ids of the groups
  Location,      \* location_IDs
  Gamestate,     \* the locations that are gamestates: they are never deleted
  Guest,         \* the gamestates that are not stored
  Content,       \* what a row can hold
  LostReply,     \* may a statement run although it is reported as failed?
  MaxTask,       \* bound: tasks issued by a group
  NoOperation, Missing, EmptyData, LocationsIds, NoData

ReadDirections == {"Read", "Read_Locations_Ids"}
IsReadTask(t) == t.direction \in ReadDirections

Task == [group_id : Group, taskid : 1..MaxTask, location_ID : Location,
         direction : ReadDirections \cup {"Write", "Insert", "Delete"},
         location_data : Content \cup {NoData}]

VARIABLES
  waiting,       \* the tasks of the queue
  operation,     \* per location: the operation performed and not yet answered
  answers,       \* per group: the answers it has not taken
  rows           \* per location: the row of the database

store_vars == <<waiting, operation, answers, rows>>

-----------------------------------------------------------------------------
\* A group puts task t in the queue.
Ask(t) ==
  /\ waiting' = waiting \cup {t}
  /\ UNCHANGED <<operation, answers, rows>>

\* The ways an operation for task t may end: what the caller is told and the
\* row it leaves.  A read whose query fails looks like a read without a row.
Outcomes(t) ==
  LET l == t.location_ID
      ends(ok, data, row) == [ok |-> ok, location_data |-> data, row |-> row]
      failed == ends(FALSE, NoData, rows[l])
      statement(row, data) ==
        {ends(TRUE, data, row)} \cup
        (IF LostReply THEN {ends(FALSE, NoData, row)} ELSE {})
  IN {failed} \cup
     CASE t.direction = "Read" ->
            {ends(TRUE, d, rows[l]) : d \in {EmptyData, rows[l]} \ {Missing}}
       [] t.direction = "Read_Locations_Ids" ->
            {ends(TRUE, LocationsIds, rows[l])}
       [] t.direction = "Delete" ->
            IF l \in Gamestate THEN {} ELSE statement(Missing, NoData)
       [] OTHER ->
            IF l \in Guest THEN {ends(TRUE, t.location_data, rows[l])}
            ELSE statement(t.location_data, t.location_data) \cup
                 \* After a lost reply of a delete, an update of no row.
                 (IF LostReply /\ rows[l] = Missing
                  THEN {ends(TRUE, t.location_data, Missing)} ELSE {})

\* An operation runs on the database.
Perform(t) ==
  /\ operation[t.location_ID] = NoOperation
  /\ \E end \in Outcomes(t) :
       /\ operation' = [operation EXCEPT ![t.location_ID] =
            [task |-> t, ok |-> end.ok, location_data |-> end.location_data]]
       /\ rows' = [rows EXCEPT ![t.location_ID] = end.row]
  /\ UNCHANGED <<waiting, answers>>

\* The waiting tasks that a successful operation for task t answers.
AnsweredBy(t) ==
  {u \in waiting :
     /\ u.location_ID = t.location_ID
     /\ IF IsReadTask(t) THEN IsReadTask(u)
        ELSE /\ ~IsReadTask(u)
             /\ u.taskid <= t.taskid
             /\ \/ u.direction = t.direction
                \/ u.direction = "Insert" /\ t.direction = "Write"}

Answer(t, direction, ok, data) ==
  [taskid |-> t.taskid, location_ID |-> t.location_ID,
   direction |-> direction, ok |-> ok, location_data |-> data]

\* Answers that arrive: a success also replaces the failures of the same
\* location and direction that the group has not taken yet.
Deliver(g, new) ==
  LET better(r) == {n \in new : /\ n.ok /\ n.location_ID = r.location_ID
                                /\ n.direction = r.direction}
      kept(r) == IF ~r.ok /\ better(r) # {}
                 THEN [r EXCEPT !.ok = TRUE,
                                !.location_data =
                                   (CHOOSE n \in better(r) : TRUE).location_data]
                 ELSE r
  IN {kept(r) : r \in answers[g]} \cup new

\* A performed operation is answered.  After a failure its tasks go on waiting.
Finish(l) ==
  LET op == operation[l]
      covered == IF op.ok THEN AnsweredBy(op.task) ELSE {}
  IN /\ op # NoOperation
     /\ operation' = [operation EXCEPT ![l] = NoOperation]
     /\ waiting' = waiting \ covered
     /\ answers' = [g \in Group |-> Deliver(g,
          {Answer(u, op.task.direction, TRUE, op.location_data) :
             u \in {v \in covered : v.group_id = g}})]
     /\ UNCHANGED rows

\* A task may be given up unless an operation that may answer it is performed.
MayExpire(t) ==
  LET op == operation[t.location_ID] IN
  op # NoOperation => \/ IsReadTask(t) # IsReadTask(op.task)
                      \/ ~IsReadTask(t) /\ op.task.taskid < t.taskid

Expire(S) ==
  /\ \A t \in S : MayExpire(t)
  /\ waiting' = waiting \ S
  /\ answers' = [g \in Group |-> Deliver(g,
       {Answer(t, t.direction, FALSE, t.location_data) :
          t \in {u \in S : u.group_id = g}})]
  /\ UNCHANGED <<operation, rows>>

\* Group g takes its answers.
Take(g) ==
  /\ answers[g] # {}
  /\ answers' = [answers EXCEPT ![g] = {}]
  /\ UNCHANGED <<waiting, operation, rows>>

-----------------------------------------------------------------------------
StoreInit ==
  /\ waiting = {}
  /\ operation = [l \in Location |-> NoOperation]
  /\ answers = [g \in Group |-> {}]
  /\ rows \in [Location -> Content \cup {Missing}]

\* What the worker threads do on their own.
StoreStep ==
  \/ \E t \in waiting : Perform(t)
  \/ \E l \in Location : Finish(l)
  \/ \E S \in (SUBSET waiting) \ {{}} : Expire(S)

StoreNext ==
  \/ StoreStep
  \/ \E t \in Task : Ask(t)
  \/ \E g \in Group : Take(g)

StoreSpec == StoreInit /\ [][StoreNext]_store_vars
=============================================================================
