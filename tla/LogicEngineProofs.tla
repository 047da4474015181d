-------------------------- MODULE LogicEngineProofs --------------------------
(***************************************************************************)
(* Theorems about LogicEngine.tla: the state of the engine is well typed,  *)
(* the library holds the locations of the status map, what a location      *)
(* waits for is answered to it, and a stopped group has no location.  The  *)
(* second half is about contents: what is taken for saved is saved, and    *)
(* who is let go leaves no write behind.                                   *)
(*                                                                         *)
(* The jobs and callbacks are functions from an engine to the engines it   *)
(* may leave.  Each keeps Good, a property of an engine and of the results *)
(* it has not executed; and, in a calm environment, Safe, which says of    *)
(* the contents what the step may count on.                                *)
(***************************************************************************)
EXTENDS LogicEngine, FiniteSetTheorems, TLAPS

Id == Nat \ {0}
Direction == ReadDirections \cup {"Write", "Insert", "Delete"}
TaskOf == [group_id : {this}, taskid : Id, location_ID : Location, direction : Direction,
           location_data : LoadedContent]
TriggerOf == [taskid : Id, action : ReadAction \cup WriteAction, location_ID : Location,
              creator : Location]
Result == [taskid : Id, location_ID : Location, direction : Direction, ok : BOOLEAN,
           location_data : LoadedContent]
StatusOf ==
  [dirty : BOOLEAN, error : BOOLEAN, released : BOOLEAN, ready : BOOLEAN,
   write_tasks : SUBSET Id, confirmed : LoadedContent, accessed : BOOLEAN, written : BOOLEAN]
PartialTo(S) == UNION {[D -> S] : D \in SUBSET Location}
Engine ==
  [status_map : PartialTo(StatusOf), script : PartialTo(LoadedContent),
   triggers : SUBSET TriggerOf, assigned : SUBSET Location, seq : Id, tasks : SUBSET TaskOf,
   status : GroupStatus, initiated : BOOLEAN, transferring : BOOLEAN]

\* The triggers of x, a task or a result, are for its direction.
Fits(x, triggers) ==
  \A t \in triggers : t.taskid = x.taskid => (t.action \in ReadAction <=> IsReadTask(x))

\* Write task i of location l has its trigger; a task or a result in R answers it.
Triggers(e, l, i) ==
  \E t \in e.triggers : t.taskid = i /\ t.location_ID = l /\ t.action \in WriteAction
Answers(e, R, i) == \E x \in e.tasks \cup R : x.taskid = i

\* The engine e with the results R that it has not executed; triggers of the
\* tasks in skipped are about to be executed.
Good(e, R, skipped) ==
  /\ e \in Engine /\ R \subseteq Result
  /\ DOMAIN e.script = DOMAIN e.status_map
  /\ \A t \in e.triggers : t.taskid < e.seq
  /\ \A t, u \in e.triggers : t.taskid = u.taskid => t = u
  /\ \A x \in e.tasks \cup R : x.taskid < e.seq /\ Fits(x, e.triggers)
  /\ \A l \in DOMAIN e.status_map : \A i \in e.status_map[l].write_tasks :
       Triggers(e, l, i) /\ (i \in skipped \/ Answers(e, R, i))
  /\ e.status = "Stopped" => e.assigned = {}

Pending == answers[this] \cup inbox
Performed == [task : TaskOf, ok : BOOLEAN, location_data : LoadedContent]

\* What is around the engine is well typed.
Around ==
  /\ operation \in [Location -> Performed \cup {NoOperation}]
  /\ answers \in [Group -> SUBSET Result] /\ inbox \subseteq Result
  /\ rows \in [Location -> LoadedContent \cup {Missing}]
  /\ {closing, deadline_over} \subseteq BOOLEAN /\ players \subseteq Location

EngineInv == Good(Here, Pending, {}) /\ Around
-----------------------------------------------------------------------------
(* What keeps an engine good *)

LEMMA PartialIs ==
  ASSUME NEW S, NEW f
  PROVE  f \in PartialTo(S) <=> DOMAIN f \subseteq Location /\ f \in [DOMAIN f -> S]
BY DEF PartialTo

LEMMA EngineIs ==
  ASSUME NEW e \in Engine
  PROVE  /\ DOMAIN e.status_map \subseteq Location
         /\ e.status_map \in [DOMAIN e.status_map -> StatusOf]
         /\ DOMAIN e.script \subseteq Location
         /\ e.script \in [DOMAIN e.script -> LoadedContent]
         /\ e.triggers \subseteq TriggerOf /\ e.assigned \subseteq Location /\ e.seq \in Id
         /\ e.tasks \subseteq TaskOf /\ e.status \in GroupStatus
         /\ e.initiated \in BOOLEAN /\ e.transferring \in BOOLEAN
BY PartialIs DEF Engine

\* An engine whose locations wait for nothing new.
LEMMA FewerWaits ==
  ASSUME NEW e, NEW R, NEW skipped, Good(e, R, skipped),
         NEW f \in Engine, DOMAIN f.script = DOMAIN f.status_map,
         f.triggers = e.triggers, f.tasks = e.tasks, f.seq = e.seq,
         \A l \in DOMAIN f.status_map : \A i \in f.status_map[l].write_tasks :
            l \in DOMAIN e.status_map /\ i \in e.status_map[l].write_tasks,
         f.status = "Stopped" => f.assigned = {}
  PROVE  Good(f, R, skipped)
BY DEF Good, Triggers, Answers

LEMMA StatusChanged ==
  ASSUME NEW e, NEW R, NEW skipped, Good(e, R, skipped), NEW l, NEW v,
         l \in DOMAIN e.status_map =>
           v \in StatusOf /\ v.write_tasks \subseteq e.status_map[l].write_tasks
  PROVE  Good([e EXCEPT !.status_map = [@ EXCEPT ![l] = v]], R, skipped)
<1> DEFINE m == [e.status_map EXCEPT ![l] = v]
           f == [e EXCEPT !.status_map = m]
<1>1. e \in Engine /\ DOMAIN e.script = DOMAIN e.status_map
  BY DEF Good
<1>2. m \in PartialTo(StatusOf) /\ DOMAIN m = DOMAIN e.status_map
  <2>1. DOMAIN e.status_map \subseteq Location /\ e.status_map \in [DOMAIN e.status_map -> StatusOf]
    BY <1>1, EngineIs
  <2>2. DOMAIN m = DOMAIN e.status_map /\ m \in [DOMAIN m -> StatusOf]
    BY <2>1
  <2> HIDE DEF m
  <2> QED
    BY <2>1, <2>2, PartialIs
<1>3. \A k \in DOMAIN m : \A i \in m[k].write_tasks : i \in e.status_map[k].write_tasks
  OBVIOUS
<1> HIDE DEF m
<1>4. f \in Engine
  BY <1>1, <1>2 DEF Engine
<1>5. /\ f.script = e.script /\ f.status_map = m /\ f.triggers = e.triggers
      /\ f.tasks = e.tasks /\ f.seq = e.seq /\ f.status = e.status /\ f.assigned = e.assigned
  BY <1>1 DEF Engine
<1> HIDE DEF f
<1>6. Good(f, R, skipped)
  <2>1. e.status = "Stopped" => e.assigned = {}
    BY DEF Good
  <2> QED
    BY <1>1, <1>2, <1>3, <1>4, <1>5, <2>1, FewerWaits
<1> QED
  BY <1>6 DEF f, m

LEMMA ScriptChanged ==
  ASSUME NEW e, NEW R, NEW skipped, Good(e, R, skipped), NEW l, NEW c \in LoadedContent
  PROVE  Good([e EXCEPT !.script = [@ EXCEPT ![l] = c]], R, skipped)
<1> DEFINE m == [e.script EXCEPT ![l] = c]
           f == [e EXCEPT !.script = m]
<1>1. e \in Engine /\ DOMAIN e.script = DOMAIN e.status_map
  BY DEF Good
<1>2. m \in PartialTo(LoadedContent) /\ DOMAIN m = DOMAIN e.script
  <2>1. DOMAIN e.script \subseteq Location /\ e.script \in [DOMAIN e.script -> LoadedContent]
    BY <1>1, EngineIs
  <2>2. DOMAIN m = DOMAIN e.script /\ m \in [DOMAIN m -> LoadedContent]
    BY <2>1
  <2> HIDE DEF m
  <2> QED
    BY <2>1, <2>2, PartialIs
<1> HIDE DEF m
<1>4. f \in Engine
  BY <1>1, <1>2 DEF Engine
<1>5. /\ f.script = m /\ f.status_map = e.status_map /\ f.triggers = e.triggers
      /\ f.tasks = e.tasks /\ f.seq = e.seq /\ f.status = e.status /\ f.assigned = e.assigned
  BY <1>1 DEF Engine
<1> HIDE DEF f
<1>6. Good(f, R, skipped)
  <2>1. e.status = "Stopped" => e.assigned = {}
    BY DEF Good
  <2> QED
    BY <1>1, <1>2, <1>4, <1>5, <2>1, FewerWaits
<1> QED
  BY <1>6 DEF f, m

LEMMA AssignedChanged ==
  ASSUME NEW e, NEW R, NEW skipped, Good(e, R, skipped), NEW A \in SUBSET Location,
         e.status = "Stopped" => A = {}
  PROVE  Good([e EXCEPT !.assigned = A], R, skipped)
<1> DEFINE f == [e EXCEPT !.assigned = A]
<1>1. e \in Engine /\ DOMAIN e.script = DOMAIN e.status_map
  BY DEF Good
<1>2. f \in Engine
  BY <1>1 DEF Engine
<1>3. /\ f.script = e.script /\ f.status_map = e.status_map /\ f.triggers = e.triggers
      /\ f.tasks = e.tasks /\ f.seq = e.seq /\ f.status = e.status /\ f.assigned = A
  BY <1>1 DEF Engine
<1> HIDE DEF f
<1>4. Good(f, R, skipped)
  BY <1>1, <1>2, <1>3, FewerWaits
<1> QED
  BY <1>4 DEF f

LEMMA EraseOK ==
  ASSUME NEW e, NEW R, NEW skipped, Good(e, R, skipped), NEW l
  PROVE  Good(Erase(e, l), R, skipped)
<1> DEFINE m == Without(e.status_map, l)
           s == Without(e.script, l)
           f == [e EXCEPT !.status_map = m, !.script = s]
<1>1. e \in Engine /\ DOMAIN e.script = DOMAIN e.status_map
  BY DEF Good
<1>2. /\ DOMAIN m = DOMAIN e.status_map \ {l} /\ DOMAIN s = DOMAIN e.script \ {l}
      /\ \A k \in DOMAIN m : m[k] = e.status_map[k]
  BY DEF Without
<1>3. m \in PartialTo(StatusOf) /\ s \in PartialTo(LoadedContent)
  <2>1. /\ m \in [DOMAIN e.status_map \ {l} -> StatusOf] /\ s \in [DOMAIN e.script \ {l} -> LoadedContent]
        /\ DOMAIN e.status_map \subseteq Location /\ DOMAIN e.script \subseteq Location
    BY <1>1, EngineIs DEF Without
  <2> HIDE DEF m, s
  <2> QED
    BY <1>2, <2>1, PartialIs
<1> HIDE DEF m, s
<1>4. f \in Engine
  BY <1>1, <1>3 DEF Engine
<1>5. /\ f.script = s /\ f.status_map = m /\ f.triggers = e.triggers
      /\ f.tasks = e.tasks /\ f.seq = e.seq /\ f.status = e.status /\ f.assigned = e.assigned
  BY <1>1 DEF Engine
<1> HIDE DEF f
<1>6. Good(f, R, skipped)
  <2>1. e.status = "Stopped" => e.assigned = {}
    BY DEF Good
  <2> QED
    BY <1>1, <1>2, <1>4, <1>5, <2>1, FewerWaits
<1> QED
  BY <1>6 DEF f, m, s, Erase

LEMMA LetGoOK ==
  ASSUME NEW e, NEW R, NEW skipped, Good(e, R, skipped), NEW l
  PROVE  Good(LetGo(e, l), R, skipped)
<1> DEFINE f == Erase(e, l)
<1>1. Good(f, R, skipped)
  BY EraseOK
<1> HIDE DEF f
<1>2. f.assigned \ {l} \in SUBSET Location /\ (f.status = "Stopped" => f.assigned \ {l} = {})
  BY <1>1, EngineIs DEF Good
<1>3. Good([f EXCEPT !.assigned = f.assigned \ {l}], R, skipped)
  BY <1>1, <1>2, AssignedChanged
<1> QED
  BY <1>3 DEF f, LetGo, Release

LEMMA AssignOK ==
  ASSUME NEW e, NEW R, Good(e, R, {}), NEW l \in Location
  PROVE  Good(Assign(e, l), R, {})
<1>1. CASE e.status = "Stopped"
  BY <1>1 DEF Assign
<1>2. CASE e.status # "Stopped"
  <2>1. e.assigned \cup {l} \in SUBSET Location
    BY EngineIs DEF Good
  <2>2. Good([e EXCEPT !.assigned = e.assigned \cup {l}], R, {})
    BY <1>2, <2>1, AssignedChanged
  <2> QED
    BY <1>2, <2>2 DEF Assign
<1> QED
  BY <1>1, <1>2


-----------------------------------------------------------------------------
(* Triggers and tasks *)

LEMMA ActionsDiffer == ReadAction \cap WriteAction = {}
BY DEF ReadAction, WriteAction

\* The trigger of a write is executed: its location waits for it no longer.
LEMMA ConfirmOK ==
  ASSUME NEW e, NEW R, NEW t \in e.triggers, Good(e, R, {t.taskid}),
         NEW ok \in BOOLEAN, NEW data \in LoadedContent
  PROVE  LET l == t.location_ID
             c == Confirm(e.status_map[l], t.taskid, ok, data)
             m == IF l \in Loaded(e) THEN [e.status_map EXCEPT ![l] = c] ELSE e.status_map
         IN Good([e EXCEPT !.triggers = e.triggers \ {t}, !.status_map = m], R, {})
<1> DEFINE l == t.location_ID
           c == Confirm(e.status_map[l], t.taskid, ok, data)
           m == IF l \in Loaded(e) THEN [e.status_map EXCEPT ![l] = c] ELSE e.status_map
           f == [e EXCEPT !.triggers = e.triggers \ {t}, !.status_map = m]
<1>1. /\ e \in Engine /\ DOMAIN e.script = DOMAIN e.status_map
      /\ \A u \in e.triggers : u.taskid = t.taskid => u = t
  BY DEF Good
<1>2. l \in DOMAIN e.status_map =>
        c \in StatusOf /\ c.write_tasks = e.status_map[l].write_tasks \ {t.taskid}
  <2>1. l \in DOMAIN e.status_map => e.status_map[l] \in StatusOf
    BY <1>1, EngineIs
  <2> QED
    BY <2>1 DEF Confirm, StatusOf
<1> HIDE DEF c
<1>3. /\ DOMAIN m = DOMAIN e.status_map
      /\ \A k \in DOMAIN m : k # l => m[k] = e.status_map[k]
      /\ l \in DOMAIN m => m[l] = c
  BY DEF Loaded
<1>4. m \in PartialTo(StatusOf)
  <2>1. DOMAIN e.status_map \subseteq Location /\ e.status_map \in [DOMAIN e.status_map -> StatusOf]
    BY <1>1, EngineIs
  <2>2. m \in [DOMAIN m -> StatusOf]
    BY <1>2, <1>3, <2>1
  <2> HIDE DEF m
  <2> QED
    BY <1>3, <2>1, <2>2, PartialIs
<1> HIDE DEF m
<1>5. f \in Engine
  BY <1>1, <1>4 DEF Engine
<1>6. /\ f.script = e.script /\ f.status_map = m /\ f.triggers = e.triggers \ {t}
      /\ f.tasks = e.tasks /\ f.seq = e.seq /\ f.status = e.status /\ f.assigned = e.assigned
  BY <1>1 DEF Engine
<1> HIDE DEF f
<1>7. ASSUME NEW k \in DOMAIN m, NEW i \in m[k].write_tasks
      PROVE  Triggers(f, k, i) /\ Answers(f, R, i)
  <2>1. k \in DOMAIN e.status_map /\ i \in e.status_map[k].write_tasks
    BY <1>2, <1>3
  <2>2. Triggers(e, k, i) /\ (i = t.taskid \/ Answers(e, R, i))
    BY <2>1 DEF Good
  <2>3. i # t.taskid
    <3>1. k = l => i # t.taskid
      BY <1>2, <1>3
    <3>2. i = t.taskid => k = l
      BY <1>1, <2>2 DEF Triggers
    <3> QED
      BY <3>1, <3>2
  <2> QED
    BY <1>6, <2>2, <2>3 DEF Triggers, Answers
<1>8. Good(f, R, {})
  BY <1>1, <1>3, <1>5, <1>6, <1>7 DEF Good, Fits
<1> QED
  BY <1>8 DEF f, m, c

LEMMA NotificationOK ==
  ASSUME NEW e, NEW R, Good(e, R, {}), NEW l
  PROVE  \A f \in Notification(e, l) : Good(f, R, {})
<1> DEFINE v == [e.status_map[l] EXCEPT !.released = TRUE]
<1>1. l \in DOMAIN e.status_map => v \in StatusOf /\ v.write_tasks = e.status_map[l].write_tasks
  <2>1. l \in DOMAIN e.status_map => e.status_map[l] \in StatusOf
    BY EngineIs DEF Good
  <2> QED
    BY <2>1 DEF StatusOf
<1>2. Good([e EXCEPT !.status_map = [@ EXCEPT ![l] = v]], R, {})
  BY <1>1, StatusChanged
<1> QED
  BY <1>2 DEF Notification

LEMMA FlagsOK ==
  ASSUME NEW e, NEW R, Good(e, R, {}), NEW l
  PROVE  /\ Good([e EXCEPT !.status_map[l].error = TRUE], R, {})
         /\ Good([e EXCEPT !.status_map[l].released = TRUE], R, {})
         /\ Good([e EXCEPT !.status_map[l].ready = TRUE], R, {})
         /\ Good([e EXCEPT !.status_map[l].accessed = TRUE], R, {})
         /\ Good([e EXCEPT !.status_map[l].accessed = TRUE, !.status_map[l].dirty = TRUE,
                           !.status_map[l].written = TRUE], R, {})
         /\ \A failed \in BOOLEAN : Good([e EXCEPT !.status_map[l] = Touched(@, failed)], R, {})
<1> DEFINE s == e.status_map[l]
           To(v) == [e EXCEPT !.status_map = [@ EXCEPT ![l] = v]]
<1>1. l \in DOMAIN e.status_map => s \in StatusOf
  BY EngineIs DEF Good
<1>2. ASSUME NEW v, l \in DOMAIN e.status_map => v \in StatusOf /\ v.write_tasks = s.write_tasks
      PROVE  Good(To(v), R, {})
  BY <1>2, StatusChanged
<1>3. Good(To([s EXCEPT !.error = TRUE]), R, {})
  BY <1>1, <1>2 DEF StatusOf
<1>4. Good(To([s EXCEPT !.released = TRUE]), R, {})
  BY <1>1, <1>2 DEF StatusOf
<1>5. Good(To([s EXCEPT !.ready = TRUE]), R, {})
  BY <1>1, <1>2 DEF StatusOf
<1>6. Good(To([s EXCEPT !.accessed = TRUE]), R, {})
  BY <1>1, <1>2 DEF StatusOf
<1>7. Good(To([s EXCEPT !.accessed = TRUE, !.dirty = TRUE, !.written = TRUE]), R, {})
  BY <1>1, <1>2 DEF StatusOf
<1>8. ASSUME NEW failed \in BOOLEAN
      PROVE  Good(To(Touched(s, failed)), R, {})
  BY <1>1, <1>2 DEF StatusOf, Touched
<1>9. [e EXCEPT !.status_map[l].accessed = TRUE, !.status_map[l].dirty = TRUE,
                !.status_map[l].written = TRUE]
        = To([s EXCEPT !.accessed = TRUE, !.dirty = TRUE, !.written = TRUE])
  <2>1. e \in Engine
    BY DEF Good
  <2> QED
    BY <2>1 DEF Engine
<1> QED
  BY <1>3, <1>4, <1>5, <1>6, <1>7, <1>8, <1>9

LEMMA ExecuteTriggerWriteOK ==
  ASSUME NEW e, NEW R, NEW t \in e.triggers, Good(e, R, {t.taskid}),
         NEW ok \in BOOLEAN, NEW data \in LoadedContent
  PROVE  \A f \in ExecuteTriggerWrite(e, t, ok, data) : Good(f, R, {})
<1> DEFINE l == t.location_ID
           loaded == l \in Loaded(e)
           confirmed == [e.status_map EXCEPT ![l] = Confirm(@, t.taskid, ok, data)]
           f == [e EXCEPT !.triggers = @ \ {t},
                          !.status_map = IF loaded THEN confirmed ELSE @]
<1>1. Good(f, R, {})
  <2> DEFINE c == Confirm(e.status_map[l], t.taskid, ok, data)
             m == IF loaded THEN [e.status_map EXCEPT ![l] = c] ELSE e.status_map
  <2>1. Good([e EXCEPT !.triggers = e.triggers \ {t}, !.status_map = m], R, {})
    BY ConfirmOK
  <2> QED
    BY <2>1
<1>2. \A g \in ExecuteTriggerWrite(e, t, ok, data) :
        \/ g = [f EXCEPT !.status_map[l].error = TRUE]
        \/ g = LetGo(f, l)
        \/ g \in Notification(f, t.creator)
        \/ g \in Notification(f, l)
        \/ g = [f EXCEPT !.status_map[l].released = TRUE]
        \/ g = [f EXCEPT !.status_map[l].ready = TRUE]
        \/ g = f
  <2> HIDE DEF f
  <2> QED
    BY DEF ExecuteTriggerWrite, f
<1> HIDE DEF f
<1>3. /\ Good([f EXCEPT !.status_map[l].error = TRUE], R, {})
      /\ Good([f EXCEPT !.status_map[l].released = TRUE], R, {})
      /\ Good([f EXCEPT !.status_map[l].ready = TRUE], R, {})
  BY <1>1, FlagsOK
<1>4. Good(LetGo(f, l), R, {})
  BY <1>1, LetGoOK
<1>5. \A g \in Notification(f, t.creator) \cup Notification(f, l) : Good(g, R, {})
  BY <1>1, NotificationOK
<1> QED
  BY <1>1, <1>2, <1>3, <1>4, <1>5, Zenon

LEMMA NewTriggerIs ==
  ASSUME NEW e \in Engine, NEW l \in Location, NEW creator \in Location,
         NEW action \in ReadAction \cup WriteAction
  PROVE  /\ NewTrigger(e, l, action, creator) \in TriggerOf
         /\ NewTrigger(e, l, action, creator).taskid = e.seq
         /\ NewTrigger(e, l, action, creator).location_ID = l
         /\ NewTrigger(e, l, action, creator).action = action
         /\ NewTrigger(e, l, action, creator).creator = creator
  <1>1. e.seq \in Id
    BY EngineIs
  <1> QED
    BY <1>1 DEF NewTrigger, TriggerOf

\* The engine remembers a trigger whose task it does not give to the queue.
LEMMA RememberOK ==
  ASSUME NEW e, NEW R, Good(e, R, {}), NEW t \in TriggerOf, t.taskid = e.seq
  PROVE  Good(Remember(e, t), R, {t.taskid}) /\ t \in Remember(e, t).triggers
<1> DEFINE f == Remember(e, t)
<1>1. e \in Engine /\ e.seq \in Nat
  BY EngineIs DEF Good, Id
<1>2. f \in Engine
  <2>1. e.triggers \cup {t} \in SUBSET TriggerOf /\ e.seq + 1 \in Id
    BY <1>1, EngineIs DEF Id
  <2> QED
    BY <1>1, <2>1 DEF Engine, Remember
<1>3. /\ f.script = e.script /\ f.status_map = e.status_map /\ f.triggers = e.triggers \cup {t}
      /\ f.tasks = e.tasks /\ f.seq = e.seq + 1 /\ f.status = e.status /\ f.assigned = e.assigned
  BY <1>1 DEF Engine, Remember
<1> HIDE DEF f
<1>4. \A u \in f.triggers : u.taskid < f.seq
  <2>1. \A u \in e.triggers : u.taskid \in Nat /\ u.taskid < e.seq
    BY <1>1, EngineIs DEF Good, TriggerOf, Id
  <2> QED
    BY <1>1, <1>3, <2>1
<1>5. \A u, v \in f.triggers : u.taskid = v.taskid => u = v
  BY <1>1, <1>3 DEF Good
<1>6. ASSUME NEW x \in f.tasks \cup R
      PROVE  x.taskid < f.seq /\ Fits(x, f.triggers)
  <2>1. x.taskid < e.seq /\ Fits(x, e.triggers)
    BY <1>3 DEF Good
  <2>2. x.taskid \in Nat
    BY <1>1, <1>3, EngineIs DEF Good, TaskOf, Result, Id
  <2>3. x.taskid < f.seq
    BY <1>1, <1>3, <2>1, <2>2
  <2> QED
    BY <1>1, <1>3, <2>1, <2>3 DEF Fits
<1>7. \A l \in DOMAIN f.status_map : \A i \in f.status_map[l].write_tasks :
         Triggers(f, l, i) /\ Answers(f, R, i)
  BY <1>3 DEF Good, Triggers, Answers
<1>8. Good(f, R, {t.taskid})
  BY <1>2, <1>3, <1>4, <1>5, <1>6, <1>7 DEF Good
<1> QED
  BY <1>3, <1>8 DEF f

\* The queue gets task k for the location of the new trigger t.
LEMMA AskOK ==
  ASSUME NEW e, NEW R, Good(e, R, {}), NEW t \in TriggerOf, t.taskid = e.seq,
         NEW k \in TaskOf, k.taskid = e.seq, t.action \in ReadAction <=> IsReadTask(k),
         NEW m \in PartialTo(StatusOf), DOMAIN m = DOMAIN e.status_map,
         \A l \in DOMAIN m : \A i \in m[l].write_tasks :
            \/ i \in e.status_map[l].write_tasks
            \/ i = e.seq /\ l = t.location_ID /\ t.action \in WriteAction
  PROVE  Good([Remember(e, t) EXCEPT !.tasks = e.tasks \cup {k}, !.status_map = m], R, {})
<1> DEFINE r == Remember(e, t)
           f == [r EXCEPT !.tasks = e.tasks \cup {k}, !.status_map = m]
<1>1. Good(r, R, {t.taskid}) /\ t \in r.triggers /\ r \in Engine /\ e \in Engine
  <2>1. Good(r, R, {t.taskid}) /\ t \in r.triggers
    BY RememberOK
  <2> QED
    BY <2>1 DEF Good
<1>2. /\ r.script = e.script /\ r.status_map = e.status_map /\ r.triggers = e.triggers \cup {t}
      /\ r.tasks = e.tasks /\ r.status = e.status /\ r.assigned = e.assigned /\ r.seq = e.seq + 1
  BY <1>1 DEF Engine, Remember
<1> HIDE DEF r
<1>3. f \in Engine
  <2>1. e.tasks \cup {k} \in SUBSET TaskOf
    BY <1>1, EngineIs
  <2> QED
    BY <1>1, <2>1 DEF Engine
<1>4. /\ f.script = r.script /\ f.status_map = m /\ f.triggers = r.triggers
      /\ f.tasks = r.tasks \cup {k} /\ f.seq = r.seq /\ f.status = r.status
      /\ f.assigned = r.assigned
  BY <1>1, <1>2 DEF Engine
<1> HIDE DEF f
<1>5. ASSUME NEW x \in f.tasks \cup R
      PROVE  x.taskid < f.seq /\ Fits(x, f.triggers)
  <2>1. CASE x \in r.tasks \cup R
    BY <1>1, <1>4, <2>1 DEF Good
  <2>2. CASE x = k
    <3>1. k.taskid < r.seq
      BY <1>1 DEF Good
    <3>2. Fits(k, r.triggers)
      BY <1>1 DEF Good, Fits
    <3> QED
      BY <1>4, <2>2, <3>1, <3>2
  <2> QED
    BY <1>4, <2>1, <2>2
<1>6. ASSUME NEW l \in DOMAIN f.status_map, NEW i \in f.status_map[l].write_tasks
      PROVE  Triggers(f, l, i) /\ Answers(f, R, i)
  <2>1. CASE i \in e.status_map[l].write_tasks
    <3>1. Triggers(e, l, i) /\ Answers(e, R, i)
      BY <1>4, <2>1 DEF Good
    <3> QED
      BY <1>2, <1>4, <3>1 DEF Triggers, Answers
  <2>2. CASE i = e.seq /\ l = t.location_ID /\ t.action \in WriteAction
    BY <1>1, <1>4, <2>2 DEF Triggers, Answers
  <2> QED
    BY <1>4, <2>1, <2>2
<1>7. Good(f, R, {})
  <2>1. /\ R \subseteq Result /\ DOMAIN f.script = DOMAIN f.status_map
        /\ \A u \in f.triggers : u.taskid < f.seq
        /\ \A u, v \in f.triggers : u.taskid = v.taskid => u = v
        /\ f.status = "Stopped" => f.assigned = {}
    BY <1>1, <1>2, <1>4 DEF Good
  <2> QED
    BY <1>3, <1>5, <1>6, <2>1 DEF Good
<1> QED
  BY <1>7 DEF f, r

LEMMA AddReadOK ==
  ASSUME NEW e, NEW R, Good(e, R, {}), NEW l \in Location, NEW action \in ReadAction
  PROVE  Good(AddRead(e, l, action), R, {})
<1> DEFINE t == NewTrigger(e, l, action, l)
           direction == IF action = "ids" THEN "Read_Locations_Ids" ELSE "Read"
           k == NewTask(e, l, direction, NoData)
<1>1. e \in Engine /\ e.seq \in Id
  BY EngineIs DEF Good
<1>2. t \in TriggerOf /\ t.taskid = e.seq /\ t.action = action
  BY <1>1, NewTriggerIs
<1>3. k \in TaskOf /\ k.taskid = e.seq /\ IsReadTask(k)
  BY <1>1 DEF NewTask, TaskOf, Direction, ReadDirections, LoadedContent, IsReadTask
<1> DEFINE r == Remember(e, t)
<1>4. /\ e.status_map \in PartialTo(StatusOf)
      /\ AddRead(e, l, action) = [r EXCEPT !.tasks = r.tasks \cup {k}]
  BY <1>1 DEF AddRead, Engine
<1> HIDE DEF t, k
<1>5. Good([r EXCEPT !.tasks = e.tasks \cup {k}, !.status_map = e.status_map], R, {})
  <2>1. t.action \in ReadAction <=> IsReadTask(k)
    BY <1>2, <1>3
  <2>2. Good([Remember(e, t) EXCEPT !.tasks = e.tasks \cup {k}, !.status_map = e.status_map], R, {})
    BY <1>2, <1>3, <1>4, <2>1, AskOK
  <2> QED
    BY <2>2
<1>6. [r EXCEPT !.tasks = r.tasks \cup {k}]
        = [r EXCEPT !.tasks = e.tasks \cup {k}, !.status_map = e.status_map]
  <2>1. r \in Engine /\ r.tasks = e.tasks /\ r.status_map = e.status_map
    <3>1. r \in Engine
      BY <1>2, RememberOK DEF Good
    <3> QED
      BY <1>1, <3>1 DEF Engine, Remember
  <2> HIDE DEF r
  <2> QED
    BY <2>1 DEF Engine
<1> QED
  BY <1>4, <1>5, <1>6

LEMMA EnqueueOK ==
  ASSUME NEW e, NEW R, Good(e, R, {}), NEW l \in Location, NEW creator \in Location,
         NEW direction \in {"Write", "Insert", "Delete"}, NEW action \in WriteAction,
         NEW data \in LoadedContent
  PROVE  Good(Enqueue(e, l, direction, action, creator, data), R, {})
<1> DEFINE t == NewTrigger(e, l, action, creator)
           k == NewTask(e, l, direction, data)
           v == [e.status_map[l] EXCEPT !.write_tasks = @ \cup {e.seq}]
           m == IF l \in Loaded(e) THEN [e.status_map EXCEPT ![l] = v] ELSE e.status_map
           r == Remember(e, t)
<1>1. e \in Engine /\ e.seq \in Id
  BY EngineIs DEF Good
<1>2. /\ t \in TriggerOf /\ t.taskid = e.seq /\ t.action = action /\ t.location_ID = l
  BY <1>1, NewTriggerIs
<1>3. k \in TaskOf /\ k.taskid = e.seq /\ ~IsReadTask(k)
  BY <1>1 DEF NewTask, TaskOf, Direction, ReadDirections, IsReadTask
<1>4. l \in DOMAIN e.status_map =>
        v \in StatusOf /\ v.write_tasks = e.status_map[l].write_tasks \cup {e.seq}
  <2>1. l \in DOMAIN e.status_map => e.status_map[l] \in StatusOf
    BY <1>1, EngineIs
  <2> QED
    BY <1>1, <2>1 DEF StatusOf
<1>5. /\ r.tasks = e.tasks /\ r.status_map = e.status_map /\ DOMAIN r = DOMAIN e
      /\ Loaded(e) = DOMAIN e.status_map
  BY <1>1 DEF Engine, Remember, Loaded
<1>6. Enqueue(e, l, direction, action, creator, data)
        = [r EXCEPT !.tasks = e.tasks \cup {k}, !.status_map = m]
  <2> HIDE DEF t, k
  <2>1. Enqueue(e, l, direction, action, creator, data)
          = [r EXCEPT !.tasks = r.tasks \cup {k},
                      !.status_map = IF l \in Loaded(e) THEN [e.status_map EXCEPT ![l] = v]
                                                        ELSE r.status_map]
    BY DEF Enqueue, t, k
  <2> HIDE DEF r, v
  <2> QED
    BY <1>5, <2>1
<1> HIDE DEF v
<1>7. /\ DOMAIN m = DOMAIN e.status_map
      /\ \A h \in DOMAIN m : h # l => m[h] = e.status_map[h]
      /\ l \in DOMAIN m => m[l] = v
  BY <1>5
<1> HIDE DEF m
<1>8. m \in PartialTo(StatusOf)
  <2>1. DOMAIN e.status_map \subseteq Location /\ e.status_map \in [DOMAIN e.status_map -> StatusOf]
    BY <1>1, EngineIs
  <2>2. m \in [DOMAIN m -> StatusOf]
    <3>1. \A h \in DOMAIN m : m[h] \in StatusOf
      BY <1>4, <1>7, <2>1
    <3>2. m = [h \in DOMAIN m |-> m[h]]
      BY <1>5, <2>1 DEF m
    <3> QED
      BY <3>1, <3>2
  <2> QED
    BY <1>7, <2>1, <2>2, PartialIs
<1>9. \A h \in DOMAIN m : \A i \in m[h].write_tasks :
        \/ i \in e.status_map[h].write_tasks
        \/ i = e.seq /\ h = t.location_ID /\ t.action \in WriteAction
  BY <1>2, <1>4, <1>7
<1>10. t.action \in ReadAction <=> IsReadTask(k)
  BY <1>2, <1>3, ActionsDiffer
<1> HIDE DEF t, k, r
<1>11. Good([Remember(e, t) EXCEPT !.tasks = e.tasks \cup {k}, !.status_map = m], R, {})
  BY <1>2, <1>3, <1>7, <1>8, <1>9, <1>10, AskOK
<1> QED
  BY <1>6, <1>11 DEF r

\* A trigger whose task nobody needs is executed at once.
LEMMA ExecutedAtOnce ==
  ASSUME NEW e, NEW R, Good(e, R, {}), NEW l \in Location, NEW action \in WriteAction,
         NEW ok \in BOOLEAN, NEW data \in LoadedContent
  PROVE  LET t == NewTrigger(e, l, action, l)
         IN \A f \in ExecuteTriggerWrite(Remember(e, t), t, ok, data) : Good(f, R, {})
<1> DEFINE t == NewTrigger(e, l, action, l)
<1>1. t \in TriggerOf /\ t.taskid = e.seq
  BY NewTriggerIs DEF Good
<1> HIDE DEF t
<1>2. Good(Remember(e, t), R, {t.taskid}) /\ t \in Remember(e, t).triggers
  BY <1>1, RememberOK
<1>3. \A f \in ExecuteTriggerWrite(Remember(e, t), t, ok, data) : Good(f, R, {})
  BY <1>2, ExecuteTriggerWriteOK
<1> QED
  BY <1>3 DEF t

\* What becomes of a location that is to be written: its trigger is executed at
\* once, or the queue gets a task for the content.
LEMMA AddWriteIs ==
  ASSUME NEW e, NEW l, NEW action, NEW f \in AddWrite(e, l, action)
  PROVE  LET s == e.status_map[l]
             r == Remember(e, NewTrigger(e, l, action, l))
             at_once(ok, data) == f \in ExecuteTriggerWrite(r, NewTrigger(e, l, action, l), ok, data)
         IN \/ at_once(action = "Write_GroupShutdown" /\ l \notin Gamestate, NoData)
            \/ \E data \in Got(e, l) : data = s.confirmed /\ at_once(TRUE, data)
            \/ \E data \in Got(e, l) :
                 /\ ~(s.write_tasks = {} /\ data = s.confirmed)
                 /\ f = Enqueue(e, l, "Write", action, l, data)
<1>1. \/ f \in ExecuteTriggerWrite(Remember(e, NewTrigger(e, l, action, l)), NewTrigger(e, l, action, l),
                                   action = "Write_GroupShutdown" /\ l \notin Gamestate, NoData)
      \/ \E data \in Got(e, l) : f \in AddWriteOf(e, l, action, data)
  BY Zenon DEF AddWrite
<1>2. ASSUME NEW data \in Got(e, l), f \in AddWriteOf(e, l, action, data)
      PROVE  \/ /\ data = e.status_map[l].confirmed
                /\ f \in ExecuteTriggerWrite(Remember(e, NewTrigger(e, l, action, l)),
                                             NewTrigger(e, l, action, l), TRUE, data)
             \/ /\ ~(e.status_map[l].write_tasks = {} /\ data = e.status_map[l].confirmed)
                /\ f = Enqueue(e, l, "Write", action, l, data)
  BY <1>2, Zenon DEF AddWriteOf
<1> QED
  BY <1>1, <1>2, Zenon

\* The library gives a content, the location's own or none.
LEMMA GotIs ==
  ASSUME NEW e \in Engine, NEW l \in Loaded(e), e.script[l] \in LoadedContent, NEW data \in Got(e, l)
  PROVE  data \in LoadedContent /\ (data = e.script[l] \/ l \in Throws)
BY DEF Got, LoadedContent

LEMMA AddWriteOK ==
  ASSUME NEW e, NEW R, Good(e, R, {}), NEW l \in Loaded(e), NEW action \in WriteAction
  PROVE  \A f \in AddWrite(e, l, action) : Good(f, R, {})
<1> DEFINE t == NewTrigger(e, l, action, l)
           refused == action = "Write_GroupShutdown" /\ l \notin Gamestate
<1>1. l \in Location /\ e.script[l] \in LoadedContent /\ e \in Engine
  BY EngineIs DEF Good, Loaded
<1>7. \A data \in Got(e, l) : data \in LoadedContent
  BY <1>1, GotIs
<1>2. NoData \in LoadedContent /\ "Write" \in {"Write", "Insert", "Delete"}
  BY DEF LoadedContent
<1>3. \A f \in ExecuteTriggerWrite(Remember(e, t), t, refused, NoData) : Good(f, R, {})
  <2>1. refused \in BOOLEAN
    OBVIOUS
  <2> HIDE DEF refused
  <2> QED
    BY <1>1, <1>2, <2>1, ExecutedAtOnce
<1>4. \A data \in Got(e, l) :
        \A f \in ExecuteTriggerWrite(Remember(e, t), t, TRUE, data) : Good(f, R, {})
  BY <1>1, <1>7, ExecutedAtOnce
<1>5. \A data \in Got(e, l) : Good(Enqueue(e, l, "Write", action, l, data), R, {})
  BY <1>1, <1>2, <1>7, EnqueueOK
<1>6. ASSUME NEW f \in AddWrite(e, l, action)
      PROVE  \/ f \in ExecuteTriggerWrite(Remember(e, t), t, refused, NoData)
             \/ \E data \in Got(e, l) :
                  \/ f \in ExecuteTriggerWrite(Remember(e, t), t, TRUE, data)
                  \/ f = Enqueue(e, l, "Write", action, l, data)
  BY <1>6, AddWriteIs, Zenon
<1> QED
  BY <1>3, <1>4, <1>5, <1>6, Zenon

-----------------------------------------------------------------------------
(* The logic library *)

LEMMA ChangedOK ==
  ASSUME NEW e, NEW R, Good(e, R, {}), NEW l
  PROVE  \A f \in Changed(e, l) : Good(f, R, {})
<1>1. LogicContent \subseteq LoadedContent
  BY EngineAssumption DEF LoadedContent
<1>2. \A c \in LogicContent : Good([e EXCEPT !.script = [@ EXCEPT ![l] = c]], R, {})
  BY <1>1, ScriptChanged
<1> QED
  BY <1>2 DEF Changed

LEMMA UpcallIs ==
  ASSUME NEW e, NEW l
  PROVE  \A f \in Upcall(e, l) :
            \/ f = e
            \/ l \in Loaded(e) /\ f \in AddWrite(e, l, "Write_FlushLocation")
            \/ f = [e EXCEPT !.status_map[l].released = TRUE]
            \/ f = Enqueue(e, l, "Delete", "Write_DeleteLocation", l, NoData)
            \/ \E k \in Location, c \in LogicContent :
                  f = Enqueue(e, k, "Insert", "Write_CreateLocation", l, c)
            \/ f = AddRead(e, l, "ids")
BY DEF Upcall

LEMMA UpcallOK ==
  ASSUME NEW e, NEW R, Good(e, R, {}), NEW l \in Location
  PROVE  \A f \in Upcall(e, l) : Good(f, R, {})
<1>1. l \in Loaded(e) => \A f \in AddWrite(e, l, "Write_FlushLocation") : Good(f, R, {})
  <2>1. "Write_FlushLocation" \in WriteAction
    BY DEF WriteAction
  <2> QED
    BY <2>1, AddWriteOK
<1>2. Good([e EXCEPT !.status_map[l].released = TRUE], R, {})
  BY FlagsOK
<1>3. Good(Enqueue(e, l, "Delete", "Write_DeleteLocation", l, NoData), R, {})
  <2>1. "Write_DeleteLocation" \in WriteAction /\ NoData \in LoadedContent
    BY DEF WriteAction, LoadedContent
  <2> QED
    BY <2>1, EnqueueOK
<1>4. \A k \in Location, c \in LogicContent :
         Good(Enqueue(e, k, "Insert", "Write_CreateLocation", l, c), R, {})
  <2>1. "Write_CreateLocation" \in WriteAction /\ LogicContent \subseteq LoadedContent
    BY EngineAssumption DEF WriteAction, LoadedContent
  <2> QED
    BY <2>1, EnqueueOK
<1>5. Good(AddRead(e, l, "ids"), R, {})
  <2>1. "ids" \in ReadAction
    BY DEF ReadAction
  <2> QED
    BY <2>1, AddReadOK
<1> SUFFICES ASSUME NEW f \in Upcall(e, l)
             PROVE  Good(f, R, {})
  OBVIOUS
<1>6. \/ f = e
      \/ l \in Loaded(e) /\ f \in AddWrite(e, l, "Write_FlushLocation")
      \/ f = [e EXCEPT !.status_map[l].released = TRUE]
      \/ f = Enqueue(e, l, "Delete", "Write_DeleteLocation", l, NoData)
      \/ \E k \in Location, c \in LogicContent :
            f = Enqueue(e, k, "Insert", "Write_CreateLocation", l, c)
      \/ f = AddRead(e, l, "ids")
  BY UpcallIs
<1> QED
  BY <1>1, <1>2, <1>3, <1>4, <1>5, <1>6, Zenon

LEMMA HandlerOK ==
  ASSUME NEW e, NEW R, Good(e, R, {}), NEW l \in Location
  PROVE  \A f \in Handler(e, l) : Good(f, R, {})
BY ChangedOK, UpcallOK DEF Handler

LEMMA CallbackOK ==
  ASSUME NEW e, NEW R, Good(e, R, {}), NEW l \in Location
  PROVE  \A f \in Callback(e, l) : Good(f, R, {})
BY HandlerOK, UpcallOK DEF Callback

LEMMA ConnectedOK ==
  ASSUME NEW e, NEW R, Good(e, R, {}), NEW l \in Location
  PROVE  \A f \in Connected(e, l) : Good(f, R, {})
<1>1. \A f \in Upcall(e, l) : Good([f EXCEPT !.status_map[l].accessed = TRUE], R, {})
  BY UpcallOK, FlagsOK
<1>2. \A f \in Handler(e, l) :
        Good([f EXCEPT !.status_map[l].accessed = TRUE, !.status_map[l].dirty = TRUE,
                       !.status_map[l].written = TRUE], R, {})
  BY HandlerOK, FlagsOK
<1>3. \A f \in Handler(e, l) : Good(f, R, {})
  BY HandlerOK
<1> QED
  BY <1>1, <1>2, <1>3, Zenon DEF Connected

\* A flush asked for in a handler lets no location go, nor does anything else
\* that a handler may do.
LEMMA FlushStays ==
  ASSUME NEW e \in Engine, NEW l \in Loaded(e),
         NEW action \in WriteAction, action # "Write_WriteChangedGameState"
  PROVE  \A f \in AddWrite(e, l, action) : Loaded(f) = Loaded(e)
<1> DEFINE t == NewTrigger(e, l, action, l)
           r == Remember(e, t)
           refused == action = "Write_GroupShutdown" /\ l \notin Gamestate
<1>1. l \in Location
  BY EngineIs DEF Loaded
<1>2. t \in TriggerOf /\ t.action = action
  BY <1>1, NewTriggerIs
<1>3. /\ r.status_map = e.status_map
      /\ DOMAIN r = {"status_map", "script", "triggers", "assigned", "seq", "tasks", "status",
                     "initiated", "transferring"}
      /\ r = [x \in DOMAIN r |-> r[x]]
  BY DEF Engine, Remember
<1>4. ASSUME NEW f \in AddWrite(e, l, action)
      PROVE  \/ f \in ExecuteTriggerWrite(Remember(e, t), t, refused, NoData)
             \/ \E data \in Got(e, l) :
                  \/ f \in ExecuteTriggerWrite(Remember(e, t), t, TRUE, data)
                  \/ f = Enqueue(e, l, "Write", action, l, data)
  BY <1>4, AddWriteIs, Zenon
<1> HIDE DEF t, r, refused
<1>5. ASSUME NEW ok, NEW data, NEW g \in ExecuteTriggerWrite(r, t, ok, data)
      PROVE  Loaded(g) = Loaded(e)
  <2> DEFINE k == t.location_ID
             confirmed == [r.status_map EXCEPT ![k] = Confirm(@, t.taskid, ok, data)]
             f == [r EXCEPT !.triggers = @ \ {t},
                            !.status_map = IF k \in Loaded(r) THEN confirmed ELSE @]
  <2>1. Loaded(f) = Loaded(e) /\ DOMAIN f = DOMAIN r
    BY <1>3 DEF Loaded
  <2>2. \/ g = [f EXCEPT !.status_map[k].error = TRUE]
        \/ g \in Notification(f, t.creator)
        \/ g \in Notification(f, k)
        \/ g = [f EXCEPT !.status_map[k].released = TRUE]
        \/ g = [f EXCEPT !.status_map[k].ready = TRUE]
        \/ g = f
    <3> HIDE DEF f
    <3> QED
      BY <1>2, <1>5, <2>1, <1>3 DEF ExecuteTriggerWrite, f
  <2> HIDE DEF f
  <2>3. \A h : Loaded([f EXCEPT !.status_map[h].error = TRUE]) = Loaded(f)
               /\ Loaded([f EXCEPT !.status_map[h].released = TRUE]) = Loaded(f)
               /\ Loaded([f EXCEPT !.status_map[h].ready = TRUE]) = Loaded(f)
    BY <1>3, <2>1 DEF Loaded
  <2> QED
    BY <2>1, <2>2, <2>3 DEF Notification
<1>6. \A data : Loaded(Enqueue(e, l, "Write", action, l, data)) = Loaded(e)
  BY DEF Enqueue, Remember, Loaded, Engine
<1>7. \A f \in AddWrite(e, l, action) :
        \/ \E data : f = Enqueue(e, l, "Write", action, l, data)
        \/ \E ok, data : f \in ExecuteTriggerWrite(r, t, ok, data)
  BY <1>4 DEF r
<1> QED
  BY <1>5, <1>6, <1>7

LEMMA HandlerStays ==
  ASSUME NEW e, NEW R, Good(e, R, {}), NEW l \in Location
  PROVE  \A f \in Handler(e, l) : Loaded(f) = Loaded(e)
<1>1. ASSUME NEW d, Good(d, R, {}), NEW f \in Changed(d, l)
      PROVE  Loaded(f) = Loaded(d) /\ Good(f, R, {})
  <2>1. d \in Engine
    BY <1>1 DEF Good
  <2>2. Loaded(f) = Loaded(d)
    BY <2>1 DEF Changed, Loaded, Engine
  <2> QED
    BY <1>1, <2>2, ChangedOK
<1>2. ASSUME NEW d, Good(d, R, {}), NEW f \in Upcall(d, l)
      PROVE  Loaded(f) = Loaded(d) /\ Good(f, R, {})
  <2>1. d \in Engine /\ "Write_FlushLocation" \in WriteAction \ {"Write_WriteChangedGameState"}
    BY <1>2 DEF Good, WriteAction
  <2>2. l \in Loaded(d) => \A g \in AddWrite(d, l, "Write_FlushLocation") : Loaded(g) = Loaded(d)
    BY <2>1, FlushStays
  <2>3. /\ Loaded(Enqueue(d, l, "Delete", "Write_DeleteLocation", l, NoData)) = Loaded(d)
        /\ \A k, c : Loaded(Enqueue(d, k, "Insert", "Write_CreateLocation", l, c)) = Loaded(d)
    BY <2>1 DEF Enqueue, Remember, Loaded, Engine
  <2>4. /\ Loaded([d EXCEPT !.status_map[l].released = TRUE]) = Loaded(d)
        /\ Loaded(AddRead(d, l, "ids")) = Loaded(d)
    BY <2>1 DEF AddRead, Remember, Loaded, Engine
  <2>5. Loaded(f) = Loaded(d)
    <3>1. \/ f = d
          \/ l \in Loaded(d) /\ f \in AddWrite(d, l, "Write_FlushLocation")
          \/ f = [d EXCEPT !.status_map[l].released = TRUE]
          \/ f = Enqueue(d, l, "Delete", "Write_DeleteLocation", l, NoData)
          \/ \E k \in Location, c \in LogicContent :
                f = Enqueue(d, k, "Insert", "Write_CreateLocation", l, c)
          \/ f = AddRead(d, l, "ids")
      BY <1>2, UpcallIs
    <3>2. CASE \E k \in Location, c \in LogicContent :
                  f = Enqueue(d, k, "Insert", "Write_CreateLocation", l, c)
      BY <2>3, <3>2
    <3>3. CASE f = Enqueue(d, l, "Delete", "Write_DeleteLocation", l, NoData)
      BY <2>3, <3>3
    <3>4. CASE f = AddRead(d, l, "ids") \/ f = [d EXCEPT !.status_map[l].released = TRUE]
      BY <2>4, <3>4
    <3> QED
      BY <3>1, <3>2, <3>3, <3>4, <2>2
  <2> QED
    BY <1>2, <2>5, UpcallOK
<1> QED
  BY <1>1, <1>2 DEF Handler

LEMMA HandledOK ==
  ASSUME NEW e, NEW R, Good(e, R, {}), NEW l \in Location
  PROVE  \A f \in Handled(e, l) : Good(f, R, {}) /\ Loaded(f) = Loaded(e)
<1>1. ASSUME NEW d \in Handler(e, l), NEW failed \in BOOLEAN
      PROVE  LET f == [d EXCEPT !.status_map[l] = Touched(@, failed)]
             IN Good(f, R, {}) /\ Loaded(f) = Loaded(e)
  <2>1. Good(d, R, {}) /\ Loaded(d) = Loaded(e)
    BY HandlerOK, HandlerStays
  <2>2. Good([d EXCEPT !.status_map[l] = Touched(@, failed)], R, {})
    BY <2>1, FlagsOK
  <2>3. d \in Engine
    BY <2>1 DEF Good
  <2> QED
    BY <2>1, <2>2, <2>3 DEF Loaded, Engine
<1> SUFFICES ASSUME NEW f \in Handled(e, l)
             PROVE  Good(f, R, {}) /\ Loaded(f) = Loaded(e)
  OBVIOUS
<1>2. MayFail \subseteq BOOLEAN
  BY DEF MayFail
<1>3. PICK d \in Handler(e, l), failed \in MayFail :
        f = [d EXCEPT !.status_map[l] = Touched(@, failed)]
  BY DEF Handled
<1> QED
  BY <1>1, <1>2, <1>3

LEMMA ProcessOK ==
  ASSUME NEW e, NEW R, Good(e, R, {}), NEW l \in Location, NEW kind \in ReadAction
  PROVE  \A f \in Process(e, l, kind) : Good(f, R, {})
<1>1. Good(AddRead(e, l, kind), R, {})
  BY AddReadOK
<1>2. \A f \in Connected(e, l) \cup Callback(e, l) \cup Handled(e, l) : Good(f, R, {})
  BY ConnectedOK, CallbackOK, HandledOK
<1>3. \A f \in Handled(e, l) :
        l \in Loaded(e) => \A g \in AddWrite(f, l, "Write_ProcessSystemMessage") : Good(g, R, {})
  <2>1. "Write_ProcessSystemMessage" \in WriteAction
    BY DEF WriteAction
  <2> QED
    BY <2>1, HandledOK, AddWriteOK
<1>4. ASSUME NEW f \in Process(e, l, kind)
      PROVE  \/ f = e
             \/ f = AddRead(e, l, kind)
             \/ f \in Connected(e, l) \cup Callback(e, l) \cup Handled(e, l)
             \/ l \in Loaded(e)
                  /\ f \in UNION {AddWrite(d, l, "Write_ProcessSystemMessage") : d \in Handled(e, l)}
  BY <1>4 DEF Process
<1> QED
  BY <1>1, <1>2, <1>3, <1>4

\* The answer of a read is executed.
LEMMA ReadTriggerGone ==
  ASSUME NEW e, NEW R, NEW t \in e.triggers, Good(e, R, {t.taskid}), t.action \in ReadAction
  PROVE  Good([e EXCEPT !.triggers = @ \ {t}], R, {})
<1> DEFINE f == [e EXCEPT !.triggers = e.triggers \ {t}]
<1>1. /\ e \in Engine /\ \A u \in e.triggers : u.taskid = t.taskid => u = t
  BY DEF Good
<1>2. f \in Engine
  BY <1>1 DEF Engine
<1>3. /\ f.script = e.script /\ f.status_map = e.status_map /\ f.triggers = e.triggers \ {t}
      /\ f.tasks = e.tasks /\ f.seq = e.seq /\ f.status = e.status /\ f.assigned = e.assigned
  BY <1>1 DEF Engine
<1> HIDE DEF f
<1>4. ASSUME NEW l \in DOMAIN f.status_map, NEW i \in f.status_map[l].write_tasks
      PROVE  Triggers(f, l, i) /\ Answers(f, R, i)
  <2>1. Triggers(e, l, i) /\ (i = t.taskid \/ Answers(e, R, i))
    BY <1>3 DEF Good
  <2>2. i # t.taskid
    BY <1>1, <2>1, ActionsDiffer DEF Triggers
  <2> QED
    BY <1>3, <2>1, <2>2 DEF Triggers, Answers
<1>5. Good(f, R, {})
  BY <1>2, <1>3, <1>4 DEF Good, Fits
<1> QED
  BY <1>5 DEF f

LEMMA PutOK ==
  ASSUME NEW e, NEW R, Good(e, R, {}), NEW l \in Location, NEW data \in LoadedContent
  PROVE  Good([e EXCEPT !.status_map = With(@, l, NewStatus(data)),
                        !.script = With(@, l, data)], R, {})
<1> DEFINE v == NewStatus(data)
           m == With(e.status_map, l, v)
           s == With(e.script, l, data)
           f == [e EXCEPT !.status_map = m, !.script = s]
<1>1. e \in Engine /\ DOMAIN e.script = DOMAIN e.status_map /\ (e.status = "Stopped" => e.assigned = {})
  BY DEF Good
<1>2. v \in StatusOf /\ v.write_tasks = {}
  BY DEF NewStatus, StatusOf
<1> HIDE DEF v
<1>3. /\ DOMAIN m = DOMAIN e.status_map \cup {l} /\ DOMAIN s = DOMAIN e.script \cup {l}
      /\ m[l] = v /\ \A k \in DOMAIN m : k # l => m[k] = e.status_map[k]
  BY DEF With
<1>4. m \in PartialTo(StatusOf) /\ s \in PartialTo(LoadedContent)
  <2>1. /\ DOMAIN e.status_map \subseteq Location /\ e.status_map \in [DOMAIN e.status_map -> StatusOf]
        /\ DOMAIN e.script \subseteq Location /\ e.script \in [DOMAIN e.script -> LoadedContent]
    BY <1>1, EngineIs
  <2>2. m \in [DOMAIN m -> StatusOf] /\ s \in [DOMAIN s -> LoadedContent]
    BY <1>2, <2>1 DEF With
  <2> HIDE DEF m, s
  <2> QED
    BY <1>3, <2>1, <2>2, PartialIs
<1> HIDE DEF m, s
<1>5. f \in Engine
  BY <1>1, <1>4 DEF Engine
<1>6. /\ f.script = s /\ f.status_map = m /\ f.triggers = e.triggers
      /\ f.tasks = e.tasks /\ f.seq = e.seq /\ f.status = e.status /\ f.assigned = e.assigned
  BY <1>1 DEF Engine
<1> HIDE DEF f
<1>7. Good(f, R, {})
  BY <1>1, <1>2, <1>3, <1>5, <1>6, FewerWaits
<1> QED
  BY <1>7 DEF f, m, s, v

LEMMA ExecuteTriggerReadOK ==
  ASSUME NEW e, NEW R, NEW t \in e.triggers, Good(e, R, {t.taskid}), t.action \in ReadAction,
         NEW ok, NEW data \in LoadedContent
  PROVE  \A g \in ExecuteTriggerRead(e, t, ok, data) : Good(g, R, {})
<1> DEFINE l == t.location_ID
           f == [e EXCEPT !.triggers = @ \ {t}]
           put == [f EXCEPT !.status_map = With(@, l, NewStatus(data)), !.script = With(@, l, data)]
<1>1. Good(f, R, {})
  BY ReadTriggerGone
<1>2. l \in Location
  BY EngineIs DEF Good, TriggerOf
<1> HIDE DEF f
<1>3. Good(put, R, {})
  BY <1>1, <1>2, PutOK
<1>4. Good(Erase(f, l), R, {})
  BY <1>1, EraseOK
<1> HIDE DEF put, l
<1>5. \A h \in {f, put} : \A g \in Callback(h, l) \cup Process(h, l, t.action) : Good(g, R, {})
  BY <1>1, <1>2, <1>3, CallbackOK, ProcessOK
<1> SUFFICES ASSUME NEW g \in ExecuteTriggerRead(e, t, ok, data)
             PROVE  Good(g, R, {})
  OBVIOUS
<1>6. \/ g \in {f, put, Erase(f, l)}
      \/ \E h \in {f, put} : g \in Callback(h, l) \cup Process(h, l, t.action)
  BY Zenon DEF ExecuteTriggerRead, f, put, l
<1> QED
  BY <1>1, <1>3, <1>4, <1>5, <1>6

-----------------------------------------------------------------------------
(* The periodic jobs at one location *)

Job == {"write_changed", "erase_old", "release_gently", "initiate_close", "shutdown"}

LEMMA EraseOldOK ==
  ASSUME NEW e, NEW R, Good(e, R, {}), NEW l \in Loaded(e), NEW force
  PROVE  \A f \in EraseOld(e, l, force) : Good(f, R, {})
<1>1. "Write_EraseOldGameState" \in WriteAction
  BY DEF WriteAction
<1>2. \A f \in AddWrite(e, l, "Write_EraseOldGameState") : Good(f, R, {})
  BY <1>1, AddWriteOK
<1>3. Good(LetGo(e, l), R, {})
  BY LetGoOK
<1>4. \A f \in EraseOld(e, l, force) :
        f = e \/ f \in AddWrite(e, l, "Write_EraseOldGameState") \/ f = LetGo(e, l)
  BY DEF EraseOld
<1> QED
  BY <1>2, <1>3, <1>4

LEMMA AtLocationOK ==
  ASSUME NEW e, NEW R, Good(e, R, {}), NEW l \in Loaded(e), NEW job \in Job
  PROVE  \A f \in AtLocation(job, e, l) : Good(f, R, {})
<1>1. /\ {"Write_WriteChangedGameState", "Write_GroupShutdown"} \subseteq WriteAction
      /\ l \in Location
  BY EngineIs DEF WriteAction, Good, Loaded
<1>2. \A f \in AddWrite(e, l, "Write_WriteChangedGameState") : Good(f, R, {})
  BY <1>1, AddWriteOK
<1>3. \A f \in AddWrite(e, l, "Write_GroupShutdown") : Good(f, R, {})
  BY <1>1, AddWriteOK
<1>4. Good(LetGo(e, l), R, {})
  BY LetGoOK
<1>5. \A f \in WriteChanged(e, l) : Good(f, R, {})
  BY <1>2 DEF WriteChanged
<1>6. \A f \in ShutdownLocation(e, l) : Good(f, R, {})
  BY <1>3, <1>4 DEF ShutdownLocation
<1>7. CASE job = "write_changed"
  BY <1>5, <1>7 DEF AtLocation
<1>8. CASE job = "erase_old"
  <2>1. AtLocation(job, e, l) = EraseOld(e, l, FALSE)
    BY <1>8 DEF AtLocation
  <2> QED
    BY <2>1, EraseOldOK
<1>9. CASE job = "release_gently"
  <2>1. AtLocation(job, e, l) = EraseOld(e, l, TRUE)
    BY <1>9 DEF AtLocation
  <2> QED
    BY <2>1, EraseOldOK
<1>10. CASE job = "initiate_close"
  <2>1. AtLocation(job, e, l) = Callback(e, l)
    BY <1>10 DEF AtLocation
  <2> QED
    BY <1>1, <2>1, CallbackOK
<1>11. CASE job = "shutdown"
  BY <1>6, <1>11 DEF AtLocation
<1> QED
  BY <1>7, <1>8, <1>9, <1>10, <1>11 DEF Job

-----------------------------------------------------------------------------
(* A job that goes through the locations *)

\* Induction over the natural numbers.
LEMMA LeastNatural ==
  ASSUME NEW T \in SUBSET Nat, T # {}
  PROVE  \E m \in T : \A n \in T : m <= n
<1> DEFINE R == OpToRel(<, Nat)
<1>1. PICK m \in T : \A n \in T : ~(<<n, m>> \in R)
  BY NatLessThanWellFounded, WFMin, Zenon
<1>2. \A n \in T : ~(n < m)
  BY <1>1 DEF OpToRel
<1> QED
  BY <1>2

LEMMA EveryNatural ==
  ASSUME NEW T, 0 \in T, \A n \in Nat : n \in T => n + 1 \in T
  PROVE  Nat \subseteq T
<1> DEFINE None == Nat \ T
<1> SUFFICES ASSUME None # {} PROVE FALSE
  OBVIOUS
<1>1. None \in SUBSET Nat
  OBVIOUS
<1>2. PICK m \in None : \A k \in None : m <= k
  <2> HIDE DEF None
  <2> QED
    BY <1>1, LeastNatural
<1>3. m - 1 \in Nat /\ (m - 1) + 1 = m
  BY <1>2
<1> QED
  BY <1>2, <1>3

\* The fold of EachLocation: it[S] holds the engines that the job may leave
\* when it has been through the locations of S.
Chosen(S) == CHOOSE x \in S : TRUE
After(job, l, E) == UNION {IF l \in Loaded(f) THEN AtLocation(job, f, l) ELSE {f} : f \in E}
UpTo(n) == {S \in SUBSET Location : Cardinality(S) <= n}
Goes(it, Sets, job, e) ==
  it = [S \in Sets |-> IF S = {} THEN {e} ELSE After(job, Chosen(S), it[S \ {Chosen(S)}])]

LEMMA EachIs ==
  ASSUME NEW job, NEW e
  PROVE  EachLocation(job, e) = (CHOOSE it : Goes(it, SUBSET Location, job, e))[Location]
BY Zenon DEF EachLocation, FoldSet, MapThenFoldSet, Goes, After, Chosen

LEMMA OneLess ==
  ASSUME NEW n \in Nat, NEW S \in UpTo(n + 1), S # {}
  PROVE  S \ {Chosen(S)} \in UpTo(n) /\ Chosen(S) \in S
<1>1. Chosen(S) \in S
  BY DEF Chosen
<1>2. IsFiniteSet(S)
  BY EngineAssumption, FS_Subset DEF UpTo
<1>3. Cardinality(S \ {Chosen(S)}) = Cardinality(S) - 1 /\ Cardinality(S) \in Nat
  BY <1>1, <1>2, FS_RemoveElement, FS_CardinalityType
<1> QED
  BY <1>1, <1>3 DEF UpTo

LEMMA SmallSets ==
  /\ UpTo(0) = {{}}
  /\ \A n \in Nat : UpTo(n) \subseteq UpTo(n + 1)
  /\ Cardinality(Location) \in Nat /\ UpTo(Cardinality(Location)) = SUBSET Location
<1>1. \A S \in SUBSET Location : IsFiniteSet(S) /\ Cardinality(S) \in Nat
                                 /\ Cardinality(S) <= Cardinality(Location)
  BY EngineAssumption, FS_Subset, FS_CardinalityType
<1>2. \A S \in SUBSET Location : Cardinality(S) <= 0 <=> S = {}
  BY <1>1, FS_EmptySet
<1>3. Cardinality(Location) \in Nat
  BY <1>1
<1> QED
  BY <1>1, <1>2, <1>3 DEF UpTo

LEMMA GoesFurther ==
  ASSUME NEW job, NEW e, NEW n \in Nat, NEW h, Goes(h, UpTo(n), job, e)
  PROVE  \E it : Goes(it, UpTo(n + 1), job, e)
<1> DEFINE Left(S) == IF S = {} THEN {e} ELSE After(job, Chosen(S), h[S \ {Chosen(S)}])
           it == [S \in UpTo(n + 1) |-> Left(S)]
<1>1. ASSUME NEW S \in UpTo(n)
      PROVE  it[S] = h[S]
  <2>1. S \in UpTo(n + 1)
    BY SmallSets
  <2>2. h[S] = Left(S)
    BY DEF Goes
  <2> HIDE DEF Left
  <2> QED
    BY <2>1, <2>2
<1>2. ASSUME NEW S \in UpTo(n + 1), S # {}
      PROVE  it[S \ {Chosen(S)}] = h[S \ {Chosen(S)}]
  <2> HIDE DEF it
  <2> QED
    BY <1>1, <1>2, OneLess
<1>3. it = [S \in UpTo(n + 1) |->
              IF S = {} THEN {e} ELSE After(job, Chosen(S), it[S \ {Chosen(S)}])]
  BY <1>2, Zenon
<1> QED
  BY <1>3 DEF Goes

LEMMA GoesThrough ==
  ASSUME NEW job, NEW e
  PROVE  \E it : Goes(it, SUBSET Location, job, e)
<1> DEFINE T == {n \in Nat : \E it : Goes(it, UpTo(n), job, e)}
<1>1. 0 \in T
  <2>1. Goes([S \in {{}} |-> {e}], UpTo(0), job, e)
    BY SmallSets DEF Goes
  <2> QED
    BY <2>1
<1>2. \A n \in Nat : n \in T => n + 1 \in T
  BY GoesFurther
<1> HIDE DEF T
<1>3. Cardinality(Location) \in T
  BY <1>1, <1>2, EveryNatural, SmallSets
<1> DEFINE n == Cardinality(Location)
<1>4. UpTo(n) = SUBSET Location
  BY SmallSets
<1>5. PICK it : Goes(it, UpTo(n), job, e)
  BY <1>3 DEF T
<1> HIDE DEF n
<1> QED
  BY <1>4, <1>5

\* A job stays among the engines that it leaves at no location.
LEMMA EachLocationStays ==
  ASSUME NEW G, NEW e \in G, NEW job,
         \A f \in G : \A l \in Loaded(f) : AtLocation(job, f, l) \subseteq G
  PROVE  EachLocation(job, e) \subseteq G
<1> DEFINE it == CHOOSE h : Goes(h, SUBSET Location, job, e)
           T == {n \in Nat : \A S \in UpTo(n) : it[S] \subseteq G}
<1>1. Goes(it, SUBSET Location, job, e)
  BY GoesThrough
<1> HIDE DEF it
<1>2. \A S \in SUBSET Location :
        it[S] = IF S = {} THEN {e} ELSE After(job, Chosen(S), it[S \ {Chosen(S)}])
  BY <1>1 DEF Goes
<1>3. 0 \in T
  BY <1>2, SmallSets
<1>4. ASSUME NEW n \in Nat, n \in T
      PROVE  n + 1 \in T
  <2> SUFFICES ASSUME NEW S \in UpTo(n + 1), NEW f \in it[S]
               PROVE  f \in G
    OBVIOUS
  <2>1. CASE S = {}
    BY <1>2, <2>1
  <2>2. CASE S # {}
    <3>1. f \in After(job, Chosen(S), it[S \ {Chosen(S)}])
      BY <1>2, <2>2 DEF UpTo
    <3>2. it[S \ {Chosen(S)}] \subseteq G
      BY <1>4, <2>2, OneLess
    <3>3. PICK g \in it[S \ {Chosen(S)}] :
            f \in IF Chosen(S) \in Loaded(g) THEN AtLocation(job, g, Chosen(S)) ELSE {g}
      BY <3>1 DEF After
    <3> QED
      BY <3>2, <3>3
  <2> QED
    BY <2>1, <2>2
<1>5. Cardinality(Location) \in T
  <2> HIDE DEF T
  <2> QED
    BY <1>3, <1>4, EveryNatural, SmallSets
<1>6. it[Location] \subseteq G
  BY <1>5, SmallSets
<1> QED
  BY <1>6, EachIs DEF it

LEMMA EachLocationOK ==
  ASSUME NEW e, NEW R, Good(e, R, {}), NEW job \in Job
  PROVE  \A f \in EachLocation(job, e) : Good(f, R, {})
<1> DEFINE G == {f \in Engine : Good(f, R, {})}
<1>1. e \in G
  BY DEF Good
<1>2. \A f \in G : \A l \in Loaded(f) : AtLocation(job, f, l) \subseteq G
  <2> SUFFICES ASSUME NEW f, Good(f, R, {}), NEW l \in Loaded(f),
                      NEW g \in AtLocation(job, f, l)
               PROVE  Good(g, R, {})
    BY DEF Good
  <2> QED
    BY AtLocationOK
<1>3. EachLocation(job, e) \subseteq G
  <2> HIDE DEF G
  <2> QED
    BY <1>1, <1>2, EachLocationStays
<1> QED
  BY <1>3

-----------------------------------------------------------------------------
(* The group: its status, its closing, and its turns *)

LEMMA StatusSet ==
  ASSUME NEW e, NEW R, Good(e, R, {}), NEW s \in GroupStatus \ {"Stopped"}
  PROVE  Good([e EXCEPT !.status = s], R, {})
<1> DEFINE f == [e EXCEPT !.status = s]
<1>1. e \in Engine /\ DOMAIN e.script = DOMAIN e.status_map
  BY DEF Good
<1>2. f \in Engine
  BY <1>1 DEF Engine
<1>3. /\ f.script = e.script /\ f.status_map = e.status_map /\ f.triggers = e.triggers
      /\ f.tasks = e.tasks /\ f.seq = e.seq /\ f.status = s
  BY <1>1 DEF Engine
<1> HIDE DEF f
<1>4. Good(f, R, {})
  BY <1>1, <1>2, <1>3, FewerWaits
<1> QED
  BY <1>4 DEF f

LEMMA StopOK ==
  ASSUME NEW e, NEW R, Good(e, R, {})
  PROVE  Good([e EXCEPT !.status = "Stopped", !.assigned = {}], R, {})
<1> DEFINE f == [e EXCEPT !.status = "Stopped", !.assigned = {}]
<1>1. e \in Engine /\ DOMAIN e.script = DOMAIN e.status_map
  BY DEF Good
<1>2. f \in Engine
  BY <1>1 DEF Engine, GroupStatus
<1>3. /\ f.script = e.script /\ f.status_map = e.status_map /\ f.triggers = e.triggers
      /\ f.tasks = e.tasks /\ f.seq = e.seq /\ f.assigned = {}
  BY <1>1 DEF Engine
<1> HIDE DEF f
<1>4. Good(f, R, {})
  BY <1>1, <1>2, <1>3, FewerWaits
<1> QED
  BY <1>4 DEF f

LEMMA ClosingOK ==
  ASSUME NEW e, NEW R, Good(e, R, {}), NEW b \in BOOLEAN
  PROVE  Good([e EXCEPT !.initiated = b], R, {}) /\ Good([e EXCEPT !.transferring = b], R, {})
<1> DEFINE f == [e EXCEPT !.initiated = b]
           g == [e EXCEPT !.transferring = b]
<1>1. /\ e \in Engine /\ DOMAIN e.script = DOMAIN e.status_map
      /\ e.status = "Stopped" => e.assigned = {}
  BY DEF Good
<1>2. f \in Engine /\ g \in Engine
  BY <1>1 DEF Engine
<1>3. \A h \in {f, g} :
        /\ h.script = e.script /\ h.status_map = e.status_map /\ h.triggers = e.triggers
        /\ h.tasks = e.tasks /\ h.seq = e.seq /\ h.assigned = e.assigned /\ h.status = e.status
  BY <1>1 DEF Engine
<1> HIDE DEF f, g
<1>4. \A h \in {f, g} : Good(h, R, {})
  BY <1>1, <1>2, <1>3, FewerWaits
<1> QED
  BY <1>4 DEF f, g

LEMMA ShutdownOK ==
  ASSUME NEW e, NEW R, Good(e, R, {})
  PROVE  \A f \in Shutdown(e) : Good(f, R, {})
<1>1. Good([e EXCEPT !.initiated = TRUE], R, {})
  BY ClosingOK
<1>2. {"initiate_close", "shutdown"} \subseteq Job
  BY DEF Job
<1>3. \A f \in InitiateGentleClose(e) : Good(f, R, {})
  BY <1>1, <1>2, EachLocationOK DEF InitiateGentleClose
<1> QED
  BY <1>2, <1>3, EachLocationOK DEF Shutdown

LEMMA SaveAndEraseOK ==
  ASSUME NEW e, NEW R, Good(e, R, {})
  PROVE  \A f \in SaveAndErase(e) : Good(f, R, {})
<1>1. {"write_changed", "erase_old"} \subseteq Job
  BY DEF Job
<1>2. \A f \in EachLocation("write_changed", e) : Good(f, R, {})
  BY <1>1, EachLocationOK
<1> QED
  BY <1>1, <1>2, EachLocationOK DEF SaveAndErase

LEMMA ReleaseGentlyOK ==
  ASSUME NEW e, NEW R, Good(e, R, {})
  PROVE  \A f \in ReleaseGently(e) : Good(f, R, {})
<1> DEFINE d == IF e.status \in {"Initializing", "Ready"}
                THEN [e EXCEPT !.status = "Releasing_Gently"] ELSE e
<1>1. Good(d, R, {})
  <2>1. Good([e EXCEPT !.status = "Releasing_Gently"], R, {})
    BY StatusSet DEF GroupStatus
  <2> QED
    BY <2>1
<1>2. \A f \in ReleaseGently(e) : f = d \/ f \in EachLocation("release_gently", d)
  BY DEF ReleaseGently
<1> HIDE DEF d
<1>3. \A f \in EachLocation("release_gently", d) : Good(f, R, {})
  <2>1. "release_gently" \in Job
    BY DEF Job
  <2> QED
    BY <1>1, <2>1, EachLocationOK
<1> QED
  BY <1>1, <1>2, <1>3

LEMMA TransferOK ==
  ASSUME NEW e, NEW R, Good(e, R, {}), NEW waited
  PROVE  \A f \in Transfer(e, waited) : Good(f, R, {})
<1> DEFINE d == IF e.status = "Releasing_Gently" /\ waited
                THEN [e EXCEPT !.status = "Transferring"] ELSE e
           after(g) == [g EXCEPT !.transferring = @ \/ Loaded(g) = {}]
           stop(g) == [g EXCEPT !.status = "Stopped", !.assigned = {}]
<1>1. Good(d, R, {})
  <2>1. Good([e EXCEPT !.status = "Transferring"], R, {})
    BY StatusSet DEF GroupStatus
  <2> QED
    BY <2>1
<1>2. \A f \in Transfer(e, waited) :
        f = d \/ \E g \in Shutdown(d) : f = after(g) \/ f = stop(after(g))
  <2> HIDE DEF d, after, stop
  <2> QED
    BY DEF Transfer, d, after, stop
<1> HIDE DEF d
<1>3. ASSUME NEW g \in Shutdown(d)
      PROVE  Good(after(g), R, {}) /\ Good(stop(after(g)), R, {})
  <2>1. Good(g, R, {})
    BY <1>1, ShutdownOK
  <2>2. g.transferring \in BOOLEAN
    BY <2>1, EngineIs DEF Good
  <2> DEFINE b == g.transferring \/ Loaded(g) = {}
  <2>3. b \in BOOLEAN
    OBVIOUS
  <2>4. Good(after(g), R, {})
    <3> HIDE DEF b
    <3>1. Good([g EXCEPT !.transferring = b], R, {})
      BY <2>1, <2>3, ClosingOK
    <3> QED
      BY <3>1 DEF b
  <2> HIDE DEF after
  <2> QED
    BY <2>4, StopOK
<1> HIDE DEF after, stop
<1> QED
  BY <1>1, <1>2, <1>3

LEMMA ReanimatedOK ==
  ASSUME NEW e, NEW R, Good(e, R, {})
  PROVE  \A f \in Reanimated(e) : Good(f, R, {})
<1>1. Good([e EXCEPT !.status = "Initializing"], R, {})
  BY StatusSet DEF GroupStatus
<1> QED
  BY <1>1 DEF Reanimated

-----------------------------------------------------------------------------
(* The actions of the group *)

LEMMA HereIs ==
  /\ Here.status_map = status_map /\ Here.script = script
  /\ Here.triggers = locationdb_triggers /\ Here.assigned = assigned_locations
  /\ Here.seq = seq_locationdb_taskid /\ Here.tasks = waiting /\ Here.status = status
  /\ Here.initiated = gentle_close_initiated /\ Here.transferring = transferring_players
BY DEF Here

LEMMA Becomes ==
  ASSUME NEW e \in Engine, Become(e)
  PROVE  Here' = e
BY DEF Become, Here, Engine

\* The group thread works; what surrounds the engine stays.
LEMMA GroupWorks ==
  ASSUME EngineInv, NEW e, Good(e, Pending, {}), Become(e), players' \subseteq Location,
         UNCHANGED <<operation, answers, rows, inbox, closing, deadline_over>>
  PROVE  EngineInv'
<1>1. Here' = e
  BY Becomes DEF Good
<1>2. Pending' = Pending
  BY DEF Pending
<1>3. Around'
  BY DEF EngineInv, Around
<1> QED
  BY <1>1, <1>2, <1>3 DEF EngineInv

LEMMA PlayersKept ==
  ASSUME EngineInv, NEW S \in {players, {}}, players' = S
  PROVE  players' \subseteq Location
BY DEF EngineInv, Around

LEMMA IntervalSecondOK ==
  ASSUME EngineInv, NEW lost, NEW waited, IntervalSecond(lost, waited)
  PROVE  EngineInv'
<1>1. PICK e \in SaveAndErase(Here) :
        \/ /\ Become([e EXCEPT !.status = "Releasing_Urgent"])
           /\ UNCHANGED players
        \/ /\ \E f \in IF closing
                       THEN UNION {Transfer(g, waited) : g \in ReleaseGently(e)}
                       ELSE Reanimated(e) : Become(f)
           /\ players' = IF status = "Stopped" THEN {} ELSE players
  BY DEF IntervalSecond
<1>2. Good(e, Pending, {})
  BY SaveAndEraseOK DEF EngineInv
<1>3. Good([e EXCEPT !.status = "Releasing_Urgent"], Pending, {})
  BY <1>2, StatusSet DEF GroupStatus
<1>4. \A f \in Reanimated(e) \cup UNION {Transfer(g, waited) : g \in ReleaseGently(e)} :
        Good(f, Pending, {})
  BY <1>2, ReanimatedOK, ReleaseGentlyOK, TransferOK
<1>5. players' \subseteq Location
  BY <1>1, PlayersKept
<1>6. UNCHANGED <<operation, answers, rows, inbox, closing, deadline_over>>
  BY DEF IntervalSecond
<1>7. CASE Become([e EXCEPT !.status = "Releasing_Urgent"])
  BY <1>3, <1>5, <1>6, <1>7, GroupWorks
<1>8. ASSUME NEW f \in Reanimated(e) \cup UNION {Transfer(g, waited) : g \in ReleaseGently(e)},
             Become(f)
      PROVE  EngineInv'
  BY <1>4, <1>5, <1>6, <1>8, GroupWorks
<1> QED
  BY <1>1, <1>7, <1>8

LEMMA WaitForLocationsFlushOK ==
  ASSUME EngineInv, WaitForLocationsFlush
  PROVE  EngineInv'
<1> DEFINE f == [Here EXCEPT !.script = <<>>, !.status = "Stopped",
                             !.assigned = {}, !.initiated = FALSE]
<1>1. UNCHANGED <<operation, answers, rows, inbox, closing, deadline_over>>
  BY DEF WaitForLocationsFlush
<1>2. Good(Here, Pending, {})
  BY DEF EngineInv
<1>3. CASE \E e \in Shutdown(Here) : Become(e) /\ UNCHANGED players
  <2>1. PICK e \in Shutdown(Here) : Become(e) /\ UNCHANGED players
    BY <1>3
  <2>2. Good(e, Pending, {})
    BY <1>2, ShutdownOK
  <2> QED
    BY <1>1, <2>1, <2>2, PlayersKept, GroupWorks
<1>4. CASE Loaded(Here) = {} /\ Become(f) /\ players' = {}
  <2>1. Here \in Engine
    BY <1>2 DEF Good
  <2>2. <<>> \in PartialTo(LoadedContent) /\ DOMAIN <<>> = {}
    <3>1. DOMAIN <<>> = {} /\ <<>> \in [{} -> LoadedContent]
      OBVIOUS
    <3> QED
      BY <3>1, PartialIs
  <2>3. f \in Engine
    BY <2>1, <2>2 DEF Engine, GroupStatus
  <2>4. /\ f.script = <<>> /\ f.status_map = Here.status_map /\ f.triggers = Here.triggers
        /\ f.tasks = Here.tasks /\ f.seq = Here.seq /\ f.assigned = {}
    BY <2>1 DEF Engine
  <2> HIDE DEF f
  <2>5. Good(f, Pending, {})
    BY <1>2, <1>4, <2>2, <2>3, <2>4, FewerWaits DEF Loaded
  <2> QED
    BY <1>1, <1>4, <2>5, PlayersKept, GroupWorks
<1> QED
  BY <1>3, <1>4 DEF WaitForLocationsFlush

LEMMA TakeResultsOK ==
  ASSUME EngineInv, TakeResults
  PROVE  EngineInv'
<1>1. Here' = Here
  BY DEF TakeResults, Take, Here, engine_vars
<1>2. /\ answers \in [Group -> SUBSET Result] /\ this \in Group
      /\ answers' = [answers EXCEPT ![this] = {}] /\ inbox' = answers[this] /\ inbox = {}
  BY EngineAssumption DEF EngineInv, Around, TakeResults, Take
<1>3. Pending' = Pending
  BY <1>2 DEF Pending
<1>4. Around'
  <2>1. answers' \in [Group -> SUBSET Result] /\ inbox' \subseteq Result
    BY <1>2
  <2> QED
    BY <2>1 DEF EngineInv, Around, TakeResults, Take
<1> QED
  BY <1>1, <1>3, <1>4 DEF EngineInv

LEMMA ExecuteTriggerOK ==
  ASSUME EngineInv, ExecuteTrigger
  PROVE  EngineInv'
<1> DEFINE Left(t, r) == IF r.direction \in ReadDirections
                         THEN ExecuteTriggerRead(Here, t, r.ok, r.location_data)
                         ELSE ExecuteTriggerWrite(Here, t, r.ok, r.location_data)
<1>1. PICK r \in inbox :
        /\ inbox' = inbox \ {r}
        /\ \E t \in {u \in locationdb_triggers : u.taskid = r.taskid} :
             \E e \in Left(t, r) : Become(e)
  BY DEF ExecuteTrigger
<1>2. PICK t \in {u \in locationdb_triggers : u.taskid = r.taskid} : \E e \in Left(t, r) : Become(e)
  BY <1>1
<1>3. PICK e \in Left(t, r) : Become(e)
  BY <1>2
<1>4. UNCHANGED <<operation, answers, rows, closing, deadline_over, players>>
  BY DEF ExecuteTrigger
<1>5. /\ Good(Here, Pending, {}) /\ r \in Result /\ r \in Pending
      /\ t \in Here.triggers /\ t.taskid = r.taskid /\ t.action \in ReadAction \cup WriteAction
  <2>1. Good(Here, Pending, {}) /\ r \in Result /\ r \in Pending
    BY DEF EngineInv, Around, Pending
  <2>2. t \in Here.triggers /\ t.taskid = r.taskid
    BY HereIs
  <2> QED
    BY <2>1, <2>2, EngineIs DEF Good, TriggerOf
<1>6. Pending' \subseteq Pending /\ Pending \subseteq Pending' \cup {r}
  BY <1>1, <1>4 DEF Pending
<1>7. Good(Here, Pending', {t.taskid})
  BY <1>5, <1>6 DEF Good, Answers
<1>8. t.action \in ReadAction <=> r.direction \in ReadDirections
  BY <1>5 DEF Good, Fits, IsReadTask
<1>9. r.ok \in BOOLEAN /\ r.location_data \in LoadedContent
  BY <1>5 DEF Result
<1>10. Good(e, Pending', {})
  <2>1. CASE r.direction \in ReadDirections
    BY <1>3, <1>5, <1>7, <1>8, <1>9, <2>1, ExecuteTriggerReadOK
  <2>2. CASE r.direction \notin ReadDirections
    BY <1>3, <1>5, <1>7, <1>8, <1>9, <2>2, ExecuteTriggerWriteOK
  <2> QED
    BY <2>1, <2>2
<1>11. Here' = e
  BY <1>3, <1>10, Becomes DEF Good
<1>12. Around'
  BY <1>1, <1>4 DEF EngineInv, Around
<1> QED
  BY <1>10, <1>11, <1>12 DEF EngineInv

-----------------------------------------------------------------------------
(* What reaches the group from outside *)

LEMMA AssignedProcessOK ==
  ASSUME EngineInv, NEW l \in Location, NEW kind \in ReadAction
  PROVE  \A e \in Process(Assign(Here, l), l, kind) : Good(e, Pending, {})
BY AssignOK, ProcessOK DEF EngineInv

LEMMA ReceiveMessageOK ==
  ASSUME EngineInv, NEW l \in Location, NEW kind \in Messages, ReceiveMessage(l, kind)
  PROVE  EngineInv'
<1>1. PICK e \in Process(Assign(Here, l), l, kind) : Become(e)
  BY DEF ReceiveMessage
<1>2. kind \in ReadAction
  BY EngineAssumption
<1>3. Good(e, Pending, {})
  BY <1>2, AssignedProcessOK
<1>4. UNCHANGED <<operation, answers, rows, inbox, closing, deadline_over, players>>
  BY DEF ReceiveMessage
<1> QED
  BY <1>1, <1>3, <1>4, PlayersKept, GroupWorks

LEMMA ConnectPlayerOK ==
  ASSUME EngineInv, NEW l \in Location, ConnectPlayer(l)
  PROVE  EngineInv'
<1>1. PICK e \in Process(Assign(Here, l), l, "connect") : Become(e)
  BY DEF ConnectPlayer
<1>2. "connect" \in ReadAction
  BY DEF ReadAction
<1>3. Good(e, Pending, {})
  BY <1>2, AssignedProcessOK
<1>4. UNCHANGED <<operation, answers, rows, inbox, closing, deadline_over>>
  BY DEF ConnectPlayer
<1>5. players' \subseteq Location
  BY DEF ConnectPlayer, EngineInv, Around
<1> QED
  BY <1>1, <1>3, <1>4, <1>5, GroupWorks

LEMMA DisconnectPlayerOK ==
  ASSUME EngineInv, NEW l \in Location, DisconnectPlayer(l)
  PROVE  EngineInv'
<1>1. PICK e \in Process(Here, l, "disconnect") \cup {Here} : Become(e)
  BY DEF DisconnectPlayer
<1>2. "disconnect" \in ReadAction
  BY DEF ReadAction
<1>3. Good(e, Pending, {})
  BY <1>2, ProcessOK DEF EngineInv
<1>4. UNCHANGED <<operation, answers, rows, inbox, closing, deadline_over>>
  BY DEF DisconnectPlayer
<1>5. players' \subseteq Location
  BY DEF DisconnectPlayer, EngineInv, Around
<1> QED
  BY <1>1, <1>3, <1>4, <1>5, GroupWorks

LEMMA LogicCallbackOK ==
  ASSUME EngineInv, NEW l \in Location, LogicCallback(l)
  PROVE  EngineInv'
<1>1. PICK e \in Callback(Here, l) : Become(e)
  BY DEF LogicCallback
<1>2. Good(e, Pending, {})
  BY CallbackOK DEF EngineInv
<1>3. UNCHANGED <<operation, answers, rows, inbox, closing, deadline_over, players>>
  BY DEF LogicCallback
<1> QED
  BY <1>1, <1>2, <1>3, PlayersKept, GroupWorks

LEMMA AgeOK ==
  ASSUME EngineInv, NEW l \in Location, Age(l)
  PROVE  EngineInv'
<1>1. PICK x \in {"accessed", "written"} : status_map' = [status_map EXCEPT ![l][x] = FALSE]
  BY DEF Age
<1> DEFINE v == [status_map[l] EXCEPT ![x] = FALSE]
           m == [status_map EXCEPT ![l] = v]
<1>2. Good(Here, Pending, {}) /\ l \in DOMAIN status_map
  BY DEF EngineInv, Age, Loaded, Here
<1>3. v \in StatusOf /\ v.write_tasks = status_map[l].write_tasks
  <2>1. status_map[l] \in StatusOf
    BY <1>2, HereIs, EngineIs DEF Good
  <2> QED
    BY <2>1 DEF StatusOf
<1>4. status_map' = m
  BY <1>1
<1> HIDE DEF v
<1>5. Good([Here EXCEPT !.status_map = [@ EXCEPT ![l] = v]], Pending, {})
  BY <1>2, <1>3, HereIs, StatusChanged
<1> HIDE DEF m
<1>6. Here' = [Here EXCEPT !.status_map = m]
  <2>1. UNCHANGED <<script, locationdb_triggers, assigned_locations, seq_locationdb_taskid,
                    waiting, status, gentle_close_initiated, transferring_players>>
    BY DEF Age, store_vars
  <2> QED
    BY <1>4, <2>1 DEF Here
<1>7. Pending' = Pending /\ Around'
  BY DEF EngineInv, Around, Pending, Age, store_vars
<1> QED
  BY <1>5, <1>6, <1>7, HereIs DEF EngineInv, m

LEMMA ReleaseConfirmedOK ==
  ASSUME EngineInv, ReleaseConfirmed
  PROVE  EngineInv'
<1>1. Good([Here EXCEPT !.status = "Ready"], Pending, {})
  BY StatusSet DEF EngineInv, GroupStatus
<1>2. /\ Become([Here EXCEPT !.status = "Ready"])
      /\ UNCHANGED <<operation, answers, rows, inbox, closing, deadline_over, players>>
  BY DEF ReleaseConfirmed
<1> QED
  BY <1>1, <1>2, PlayersKept, GroupWorks

LEMMA HeartbeatConfirmedOK ==
  ASSUME EngineInv, HeartbeatConfirmed
  PROVE  EngineInv'
<1>1. PICK e \in {Here, [Here EXCEPT !.assigned = {}]} : Become(e)
  BY DEF HeartbeatConfirmed
<1>2. Good([Here EXCEPT !.assigned = {}], Pending, {})
  BY AssignedChanged DEF EngineInv
<1>3. Good(e, Pending, {})
  BY <1>1, <1>2 DEF EngineInv
<1>4. Here' = e
  BY <1>1, <1>3, Becomes DEF Good
<1>5. Pending' = Pending /\ Around'
  BY DEF EngineInv, Around, Pending, HeartbeatConfirmed
<1> QED
  BY <1>3, <1>4, <1>5 DEF EngineInv

LEMMA OutsideOK ==
  ASSUME EngineInv, Outside
  PROVE  EngineInv'
<1>1. CASE \E l \in Location, kind \in Messages : ReceiveMessage(l, kind)
  BY <1>1, ReceiveMessageOK
<1>2. CASE \E l \in Location :
             ConnectPlayer(l) \/ DisconnectPlayer(l) \/ LogicCallback(l) \/ Age(l)
  BY <1>2, ConnectPlayerOK, DisconnectPlayerOK, LogicCallbackOK, AgeOK
<1>3. CASE ReleaseConfirmed
  BY <1>3, ReleaseConfirmedOK
<1>4. CASE HeartbeatConfirmed
  BY <1>4, HeartbeatConfirmedOK
<1>5. CASE WriteDeadlinePasses \/ PrepareToClose
  <2>1. Here' = Here /\ Pending' = Pending /\ Around'
    BY <1>5 DEF WriteDeadlinePasses, PrepareToClose, EngineInv, Around, Pending, Here,
                store_vars, engine_vars
  <2> QED
    BY <2>1 DEF EngineInv
<1> QED
  BY <1>1, <1>2, <1>3, <1>4, <1>5 DEF Outside

-----------------------------------------------------------------------------
(* The queue at work *)

LEMMA OutcomesTyped ==
  ASSUME EngineInv, NEW t \in TaskOf, NEW end \in Outcomes(t)
  PROVE  /\ end.ok \in BOOLEAN /\ end.location_data \in LoadedContent
         /\ end.row \in LoadedContent \cup {Missing}
<1> DEFINE row == rows[t.location_ID]
           data == t.location_data
           ends(ok, d, r) == [ok |-> ok, location_data |-> d, row |-> r]
<1>1. /\ data \in LoadedContent /\ row \in LoadedContent \cup {Missing}
      /\ {NoData, EmptyData, LocationsIds} \subseteq LoadedContent
  BY DEF EngineInv, Around, TaskOf, LoadedContent
<1>2. \/ end = ends(FALSE, NoData, row)
      \/ \E d \in {EmptyData, row} \ {Missing} : end = ends(TRUE, d, row)
      \/ end = ends(TRUE, LocationsIds, row)
      \/ end = ends(TRUE, NoData, Missing) \/ end = ends(FALSE, NoData, Missing)
      \/ end = ends(TRUE, data, row) \/ end = ends(TRUE, data, data)
      \/ end = ends(FALSE, NoData, data) \/ end = ends(TRUE, data, Missing)
  BY DEF Outcomes
<1> HIDE DEF ends, row, data
<1>3. \E ok \in BOOLEAN, d \in LoadedContent, r \in LoadedContent \cup {Missing} :
        end = ends(ok, d, r)
  BY <1>1, <1>2
<1> QED
  BY <1>3 DEF ends

LEMMA PerformOK ==
  ASSUME EngineInv, NEW t \in waiting, Perform(t),
         UNCHANGED <<engine_vars, inbox, closing, deadline_over, players>>
  PROVE  EngineInv'
<1>1. t \in TaskOf
  BY HereIs, EngineIs DEF EngineInv, Good
<1>2. PICK end \in Outcomes(t) :
        /\ operation' = [operation EXCEPT ![t.location_ID] =
             [task |-> t, ok |-> end.ok, location_data |-> end.location_data]]
        /\ rows' = [rows EXCEPT ![t.location_ID] = end.row]
  BY DEF Perform
<1>3. /\ end.ok \in BOOLEAN /\ end.location_data \in LoadedContent
      /\ end.row \in LoadedContent \cup {Missing}
  BY <1>1, OutcomesTyped
<1>4. /\ operation' \in [Location -> Performed \cup {NoOperation}]
      /\ rows' \in [Location -> LoadedContent \cup {Missing}]
  <2> DEFINE op == [task |-> t, ok |-> end.ok, location_data |-> end.location_data]
  <2>1. op \in Performed
    BY <1>1, <1>3 DEF Performed
  <2>2. operation' = [operation EXCEPT ![t.location_ID] = op]
    BY <1>2
  <2> HIDE DEF op
  <2> QED
    BY <1>2, <1>3, <2>1, <2>2 DEF EngineInv, Around
<1>5. Here' = Here /\ Pending' = Pending
  BY DEF Perform, Here, Pending, engine_vars
<1>6. Around'
  BY <1>4 DEF Perform, EngineInv, Around
<1> QED
  BY <1>5, <1>6 DEF EngineInv

\* Deliver keeps what the group has not taken, and adds what is new.
LEMMA DeliverOK ==
  ASSUME NEW g \in Group, answers[g] \subseteq Result, NEW new \in SUBSET Result
  PROVE  /\ Deliver(g, new) \subseteq Result
         /\ \A x \in answers[g] \cup new : \E y \in Deliver(g, new) : y.taskid = x.taskid
         /\ \A y \in Deliver(g, new) : \E x \in answers[g] \cup new :
              y.taskid = x.taskid /\ y.direction = x.direction
<1> DEFINE better(r) == {n \in new : /\ n.ok /\ n.location_ID = r.location_ID
                                     /\ n.direction = r.direction}
           data(r) == (CHOOSE n \in better(r) : TRUE).location_data
           kept(r) == IF ~r.ok /\ better(r) # {}
                      THEN [r EXCEPT !.ok = TRUE, !.location_data = data(r)] ELSE r
<1>1. Deliver(g, new) = {kept(r) : r \in answers[g]} \cup new
  BY Zenon DEF Deliver
<1>2. ASSUME NEW r \in answers[g]
      PROVE  kept(r) \in Result /\ kept(r).taskid = r.taskid /\ kept(r).direction = r.direction
  <2>1. better(r) # {} => data(r) \in LoadedContent
    <3>1. better(r) # {} => (CHOOSE n \in better(r) : TRUE) \in better(r)
      OBVIOUS
    <3>2. \A n \in better(r) : n.location_data \in LoadedContent
      BY DEF Result
    <3> HIDE DEF better
    <3> QED
      BY <3>1, <3>2
  <2> HIDE DEF data, better
  <2> QED
    BY <2>1 DEF Result
<1> HIDE DEF kept
<1> QED
  BY <1>1, <1>2

LEMMA TasksLeft ==
  ASSUME NEW left, waiting' = left, UNCHANGED engine_vars
  PROVE  /\ Here' = [Here EXCEPT !.tasks = left] /\ Here'.tasks = left
         /\ Here'.status_map = Here.status_map /\ Here'.script = Here.script
         /\ Here'.triggers = Here.triggers /\ Here'.assigned = Here.assigned
         /\ Here'.seq = Here.seq /\ Here'.status = Here.status
<1>1. UNCHANGED <<status_map, script, locationdb_triggers, assigned_locations,
                  seq_locationdb_taskid, status, gentle_close_initiated, transferring_players>>
  BY DEF engine_vars
<1>2. Here' = [Here EXCEPT !.tasks = left]
  BY <1>1 DEF Here
<1>3. Here'.tasks = left
  BY DEF Here
<1> QED
  BY <1>1, <1>2, <1>3 DEF Here

\* The tasks in gone leave the queue and are answered.
LEMMA AnsweredOK ==
  ASSUME EngineInv, NEW gone \in SUBSET waiting, NEW new \in [Group -> SUBSET Result],
         \A x \in gone : \E y \in new[this] : y.taskid = x.taskid,
         \A y \in new[this] : \E x \in gone :
           y.taskid = x.taskid /\ (IsReadTask(y) <=> IsReadTask(x)),
         waiting' = waiting \ gone, answers' = [g \in Group |-> Deliver(g, new[g])],
         UNCHANGED <<engine_vars, rows, inbox, closing, deadline_over, players>>,
         operation' \in [Location -> Performed \cup {NoOperation}]
  PROVE  EngineInv'
<1>1. /\ this \in Group /\ answers \in [Group -> SUBSET Result] /\ inbox \subseteq Result
      /\ Good(Here, Pending, {}) /\ answers'[this] = Deliver(this, new[this])
  BY EngineAssumption DEF EngineInv, Around
<1>2. answers' \in [Group -> SUBSET Result]
  <2>1. \A g \in Group : Deliver(g, new[g]) \subseteq Result
    BY <1>1, DeliverOK
  <2> QED
    BY <2>1
<1>3. Around'
  BY <1>2 DEF EngineInv, Around
<1>4. /\ Here' = [Here EXCEPT !.tasks = waiting \ gone] /\ Here'.tasks = Here.tasks \ gone
      /\ Here'.status_map = Here.status_map /\ Here'.script = Here.script
      /\ Here'.triggers = Here.triggers /\ Here'.assigned = Here.assigned
      /\ Here'.seq = Here.seq /\ Here'.status = Here.status
  <2> DEFINE left == waiting \ gone
  <2>1. waiting' = left
    OBVIOUS
  <2> HIDE DEF left
  <2> QED
    BY <2>1, TasksLeft, HereIs DEF left
<1>5. /\ \A x \in Pending \cup new[this] : \E y \in Pending' : y.taskid = x.taskid
      /\ \A y \in Pending' : \E x \in Pending \cup new[this] :
           y.taskid = x.taskid /\ (IsReadTask(y) <=> IsReadTask(x))
      /\ Pending' \subseteq Result
  <2>1. /\ \A x \in answers[this] \cup new[this] : \E y \in answers'[this] : y.taskid = x.taskid
        /\ \A y \in answers'[this] : \E x \in answers[this] \cup new[this] :
             y.taskid = x.taskid /\ y.direction = x.direction
    <3>1. answers[this] \subseteq Result /\ new[this] \in SUBSET Result
      BY <1>1
    <3> QED
      BY <1>1, <3>1, DeliverOK
  <2>2. Pending' = answers'[this] \cup inbox
    BY DEF Pending
  <2> QED
    BY <1>1, <1>2, <2>1, <2>2 DEF Pending, IsReadTask
<1>6. /\ \A x \in Here.tasks \cup Pending : \E y \in Here'.tasks \cup Pending' : y.taskid = x.taskid
      /\ \A y \in Here'.tasks \cup Pending' : \E x \in Here.tasks \cup Pending :
           y.taskid = x.taskid /\ (IsReadTask(y) <=> IsReadTask(x))
  BY <1>4, <1>5, HereIs
<1>7. Here' \in Engine
  <2>1. Here \in Engine /\ waiting \ gone \subseteq TaskOf
    BY <1>1, HereIs, EngineIs DEF Good
  <2> QED
    BY <1>4, <2>1 DEF Engine
<1>8. Good(Here', Pending', {})
  BY <1>1, <1>4, <1>5, <1>6, <1>7 DEF Good, Fits, Triggers, Answers
<1> QED
  BY <1>3, <1>8 DEF EngineInv

LEMMA FinishOK ==
  ASSUME EngineInv, NEW l \in Location, Finish(l),
         UNCHANGED <<engine_vars, inbox, closing, deadline_over, players>>
  PROVE  EngineInv'
<1> DEFINE op == operation[l]
           covered == IF op.ok THEN AnsweredBy(op.task) ELSE {}
           answer(u) == Answer(u, op.task.direction, TRUE, op.location_data)
           new == [g \in Group |-> {answer(u) : u \in {v \in covered : v.group_id = g}}]
<1>1. /\ op # NoOperation /\ operation' = [operation EXCEPT ![l] = NoOperation]
      /\ waiting' = waiting \ covered /\ rows' = rows
  BY DEF Finish
<1>2. answers' = [g \in Group |-> Deliver(g, new[g])]
  <2>1. \A g \in Group : new[g] = {answer(u) : u \in {v \in covered : v.group_id = g}}
    OBVIOUS
  <2>2. answers' = [g \in Group |->
                      Deliver(g, {answer(u) : u \in {v \in covered : v.group_id = g}})]
    BY Zenon DEF Finish
  <2> HIDE DEF new, answer, covered
  <2> QED
    BY <2>1, <2>2
<1>3. op \in Performed /\ waiting \subseteq TaskOf /\ this \in Group
  BY <1>1, HereIs, EngineIs, EngineAssumption DEF EngineInv, Good, Around
<1>4. op.task \in TaskOf /\ op.location_data \in LoadedContent
  BY <1>3 DEF Performed
<1>5. /\ covered \in SUBSET waiting
      /\ \A u \in covered : IsReadTask(u) <=> IsReadTask(op.task)
  BY DEF AnsweredBy
<1> HIDE DEF covered, op
<1>6. ASSUME NEW u \in covered
      PROVE  /\ answer(u) \in Result /\ answer(u).taskid = u.taskid
             /\ IsReadTask(answer(u)) <=> IsReadTask(u)
  <2>1. u \in TaskOf /\ op.task.direction \in Direction
    BY <1>3, <1>4, <1>5 DEF TaskOf
  <2>2. answer(u) \in Result
    BY <1>4, <2>1 DEF Answer, Result, TaskOf
  <2>3. answer(u).taskid = u.taskid /\ answer(u).direction = op.task.direction
    BY DEF Answer
  <2> QED
    BY <1>5, <2>2, <2>3 DEF IsReadTask
<1> HIDE DEF answer
<1>7. new \in [Group -> SUBSET Result] /\ new[this] = {answer(u) : u \in covered}
  <2>1. \A u \in covered : u.group_id = this
    BY <1>3, <1>5 DEF TaskOf
  <2>2. {v \in covered : v.group_id = this} = covered
    BY <2>1
  <2> QED
    BY <1>3, <1>6, <2>2
<1>8. operation' \in [Location -> Performed \cup {NoOperation}]
  BY <1>1 DEF EngineInv, Around
<1> HIDE DEF new
<1>9. /\ \A x \in covered : \E y \in new[this] : y.taskid = x.taskid
      /\ \A y \in new[this] : \E x \in covered :
           y.taskid = x.taskid /\ (IsReadTask(y) <=> IsReadTask(x))
  BY <1>6, <1>7
<1> QED
  BY <1>1, <1>2, <1>5, <1>7, <1>8, <1>9, AnsweredOK

LEMMA ExpireOK ==
  ASSUME EngineInv, NEW S \in SUBSET waiting, Expire(S),
         UNCHANGED <<engine_vars, inbox, closing, deadline_over, players>>
  PROVE  EngineInv'
<1> DEFINE answer(u) == Answer(u, u.direction, FALSE, u.location_data)
           new == [g \in Group |-> {answer(t) : t \in {u \in S : u.group_id = g}}]
<1>1. waiting' = waiting \ S /\ UNCHANGED <<operation, rows>>
  BY DEF Expire
<1>2. answers' = [g \in Group |-> Deliver(g, new[g])]
  <2>1. \A g \in Group : new[g] = {answer(t) : t \in {u \in S : u.group_id = g}}
    OBVIOUS
  <2>2. answers' = [g \in Group |-> Deliver(g, {answer(t) : t \in {u \in S : u.group_id = g}})]
    BY Zenon DEF Expire
  <2> HIDE DEF new, answer
  <2> QED
    BY <2>1, <2>2
<1>3. S \subseteq TaskOf /\ this \in Group
  BY HereIs, EngineIs, EngineAssumption DEF EngineInv, Good
<1>4. ASSUME NEW u \in S
      PROVE  /\ answer(u) \in Result /\ answer(u).taskid = u.taskid
             /\ IsReadTask(answer(u)) <=> IsReadTask(u)
  BY <1>3 DEF Answer, Result, TaskOf, IsReadTask
<1> HIDE DEF answer
<1>5. new \in [Group -> SUBSET Result] /\ new[this] = {answer(u) : u \in S}
  <2>1. \A u \in S : u.group_id = this
    BY <1>3 DEF TaskOf
  <2>2. {u \in S : u.group_id = this} = S
    BY <2>1
  <2> QED
    BY <1>3, <1>4, <2>2
<1> HIDE DEF new
<1>6. operation' \in [Location -> Performed \cup {NoOperation}]
  BY <1>1 DEF EngineInv, Around
<1>7. /\ \A x \in S : \E y \in new[this] : y.taskid = x.taskid
      /\ \A y \in new[this] : \E x \in S :
           y.taskid = x.taskid /\ (IsReadTask(y) <=> IsReadTask(x))
  BY <1>4, <1>5
<1> QED
  BY <1>1, <1>2, <1>5, <1>6, <1>7, AnsweredOK

LEMMA QueueOK ==
  ASSUME EngineInv, Queue
  PROVE  EngineInv'
<1>1. StoreStep /\ UNCHANGED <<engine_vars, inbox, closing, deadline_over, players>>
  BY DEF Queue
<1>2. CASE \E t \in waiting : Perform(t)
  BY <1>1, <1>2, PerformOK
<1>3. CASE \E l \in Location : Finish(l)
  BY <1>1, <1>3, FinishOK
<1>4. CASE \E S \in (SUBSET waiting) \ {{}} : Expire(S)
  BY <1>1, <1>4, ExpireOK
<1> QED
  BY <1>1, <1>2, <1>3, <1>4 DEF StoreStep

-----------------------------------------------------------------------------
(* The theorems *)

LEMMA InitOK ==
  ASSUME Init
  PROVE  EngineInv
<1>1. <<>> \in [{} -> StatusOf] /\ <<>> \in [{} -> LoadedContent] /\ DOMAIN <<>> = {}
  OBVIOUS
<1>2. <<>> \in PartialTo(StatusOf) /\ <<>> \in PartialTo(LoadedContent)
  BY <1>1, PartialIs
<1>3. Here \in Engine
  <2>1. Here = [status_map |-> <<>>, script |-> <<>>, triggers |-> {}, assigned |-> {}, seq |-> 1,
                tasks |-> {}, status |-> "Initializing", initiated |-> FALSE,
                transferring |-> FALSE]
    BY DEF Init, StoreInit, Here
  <2>2. 1 \in Id /\ "Initializing" \in GroupStatus
    BY DEF Id, GroupStatus
  <2> QED
    BY <1>2, <2>1, <2>2 DEF Engine
<1>4. Pending = {}
  BY EngineAssumption DEF Init, StoreInit, Pending
<1>5. Good(Here, Pending, {})
  <2>1. /\ Here.status_map = <<>> /\ Here.script = <<>> /\ Here.triggers = {}
        /\ Here.tasks = {} /\ Here.assigned = {}
    BY HereIs DEF Init, StoreInit
  <2> QED
    BY <1>1, <1>3, <1>4, <2>1 DEF Good
<1>6. Around
  BY EngineAssumption DEF Init, StoreInit, Around, LoadedContent
<1> QED
  BY <1>5, <1>6 DEF EngineInv

LEMMA NextOK ==
  ASSUME EngineInv, [Next]_vars
  PROVE  EngineInv'
<1>1. CASE GroupStep
  BY <1>1, IntervalSecondOK, WaitForLocationsFlushOK, TakeResultsOK, ExecuteTriggerOK
     DEF GroupStep
<1>2. CASE Outside
  BY <1>2, OutsideOK
<1>3. CASE Queue
  BY <1>3, QueueOK
<1>4. CASE UNCHANGED vars
  <2>1. Here' = Here /\ Pending' = Pending /\ Around'
    BY <1>4 DEF EngineInv, Around, Pending, Here, vars, store_vars, engine_vars
  <2> QED
    BY <2>1 DEF EngineInv
<1> QED
  BY <1>1, <1>2, <1>3, <1>4 DEF Next

\* EngineInv always holds: what the jobs, callbacks and triggers of the engine
\* leave behind is well typed, the triggers have one task each, and every
\* write task that a location waits for is in the queue or answered.
THEOREM EngineInvAlways == Spec => []EngineInv
BY InitOK, NextOK, PTL DEF Spec

\* The logic library holds exactly the locations of the status map
\* (GLogicEngine, status_map and the library's own map).
THEOREM ScriptMatchesStatusAlways == Spec => []ScriptMatchesStatus
<1>1. EngineInv => ScriptMatchesStatus
  BY HereIs DEF EngineInv, Good, ScriptMatchesStatus
<1> QED
  BY <1>1, EngineInvAlways, PTL

\* A location waits only for write tasks that the queue, or a result that is
\* not executed yet, answers to its own trigger (write_tasks).
THEOREM WriteTasksWillBeAnsweredAlways == Spec => []WriteTasksWillBeAnswered
<1>1. ASSUME EngineInv
      PROVE  WriteTasksWillBeAnswered
  <2> SUFFICES ASSUME NEW l \in Loaded(Here), NEW i \in status_map[l].write_tasks
               PROVE  \E t \in locationdb_triggers :
                        /\ t.taskid = i /\ t.location_ID = l /\ t.action \in WriteAction
                        /\ i \in {u.taskid : u \in waiting}
                                 \cup {r.taskid : r \in answers[this] \cup inbox}
    BY DEF WriteTasksWillBeAnswered
  <2>1. Triggers(Here, l, i) /\ Answers(Here, Pending, i)
    BY <1>1, HereIs DEF EngineInv, Good, Loaded
  <2> QED
    BY <2>1, HereIs DEF Triggers, Answers, Pending
<1> QED
  BY <1>1, EngineInvAlways, PTL

\* A stopped group has no location assigned (AssignLocation, and every way to
\* EGS_Stopped).
THEOREM StoppedIsUnassignedAlways == Spec => []StoppedIsUnassigned
<1>1. EngineInv => StoppedIsUnassigned
  BY HereIs DEF EngineInv, Good, StoppedIsUnassigned
<1> QED
  BY <1>1, EngineInvAlways, PTL

\* The bound of the model on the task ids.
Bounded == seq_locationdb_taskid <= MaxTask + 1

LEMMA BoundedNext ==
  ASSUME Bounded, [Next]_vars
  PROVE  Bounded'
<1>1. ASSUME NEW e, Become(e)
      PROVE  Bounded'
  BY <1>1 DEF Become, Bounded
<1>2. CASE GroupStep
  <2>1. ASSUME NEW lost, NEW waited, IntervalSecond(lost, waited)
        PROVE  Bounded'
    BY <1>1, <2>1 DEF IntervalSecond
  <2>2. CASE WaitForLocationsFlush
    BY <1>1, <2>2 DEF WaitForLocationsFlush
  <2>3. CASE TakeResults
    BY <2>3 DEF TakeResults, engine_vars, Bounded
  <2>4. CASE ExecuteTrigger
    BY <1>1, <2>4 DEF ExecuteTrigger
  <2> QED
    BY <1>2, <2>1, <2>2, <2>3, <2>4 DEF GroupStep
<1>3. CASE Outside
  <2>1. ASSUME NEW l \in Location, NEW kind, ReceiveMessage(l, kind)
        PROVE  Bounded'
    BY <1>1, <2>1 DEF ReceiveMessage
  <2>2. ASSUME NEW l \in Location, ConnectPlayer(l) \/ DisconnectPlayer(l) \/ LogicCallback(l)
        PROVE  Bounded'
    BY <1>1, <2>2 DEF ConnectPlayer, DisconnectPlayer, LogicCallback
  <2>3. ASSUME NEW l \in Location, Age(l)
        PROVE  Bounded'
    BY <2>3 DEF Age, Bounded
  <2>4. CASE ReleaseConfirmed \/ HeartbeatConfirmed
    BY <1>1, <2>4 DEF ReleaseConfirmed, HeartbeatConfirmed
  <2>5. CASE WriteDeadlinePasses \/ PrepareToClose
    BY <2>5 DEF WriteDeadlinePasses, PrepareToClose, engine_vars, Bounded
  <2> QED
    BY <1>3, <2>1, <2>2, <2>3, <2>4, <2>5 DEF Outside
<1>4. CASE Queue
  BY <1>4 DEF Queue, engine_vars, Bounded
<1>5. CASE UNCHANGED vars
  BY <1>5 DEF vars, engine_vars, Bounded
<1> QED
  BY <1>2, <1>3, <1>4, <1>5 DEF Next

LEMMA TypeFollows ==
  ASSUME EngineInv, Bounded
  PROVE  TypeOK
<1>1. /\ Good(Here, Pending, {}) /\ Here \in Engine
      /\ {closing, deadline_over} \subseteq BOOLEAN /\ players \subseteq Location
  BY DEF EngineInv, Good, Around
<1>2. /\ waiting \subseteq TaskOf /\ locationdb_triggers \subseteq TriggerOf
      /\ DOMAIN status_map \subseteq Location /\ status_map \in [DOMAIN status_map -> StatusOf]
      /\ DOMAIN script \subseteq Location /\ script \in [DOMAIN script -> LoadedContent]
      /\ assigned_locations \subseteq Location /\ seq_locationdb_taskid \in Id
      /\ status \in GroupStatus
      /\ gentle_close_initiated \in BOOLEAN /\ transferring_players \in BOOLEAN
  BY <1>1, HereIs, EngineIs
<1>3. \A i \in Id : i < seq_locationdb_taskid => i \in 1..MaxTask
  BY <1>2, EngineAssumption DEF Id, Bounded
<1>4. seq_locationdb_taskid \in 1..(MaxTask + 1)
  BY <1>2, EngineAssumption DEF Id, Bounded
<1>5. /\ \A t \in waiting : t.taskid < seq_locationdb_taskid
      /\ \A t \in locationdb_triggers : t.taskid < seq_locationdb_taskid
  BY <1>1, HereIs DEF Good
<1>6. waiting \subseteq Asked
  BY <1>2, <1>3, <1>5 DEF TaskOf, Asked, Direction
<1>7. locationdb_triggers \subseteq Trigger
  BY <1>2, <1>3, <1>5 DEF TriggerOf, Trigger
<1>8. ASSUME NEW l \in DOMAIN status_map
      PROVE  status_map[l] \in LocationStatus
  <2>1. ASSUME NEW i \in status_map[l].write_tasks
        PROVE  i \in 1..MaxTask
    <3>1. PICK t \in locationdb_triggers : t.taskid = i
      BY <1>1, HereIs DEF Good, Triggers
    <3> QED
      BY <1>7, <3>1 DEF Trigger
  <2>2. status_map[l] \in StatusOf
    BY <1>2
  <2> QED
    BY <2>1, <2>2 DEF StatusOf, LocationStatus
<1>9. Loaded(Here) = DOMAIN status_map
  BY HereIs DEF Loaded
<1>10. status_map \in [Loaded(Here) -> LocationStatus]
  BY <1>2, <1>8, <1>9
<1> QED
  BY <1>1, <1>2, <1>4, <1>6, <1>7, <1>9, <1>10 DEF TypeOK

\* The variables of the engine have their types, whatever the database and
\* the logic do.
THEOREM LogicEngineTypeCorrect == Spec => []TypeOK
<1>1. Init => Bounded
  BY EngineAssumption DEF Init, Bounded
<1>2. Spec => []Bounded
  BY <1>1, BoundedNext, PTL DEF Spec
<1> QED
  BY <1>2, EngineInvAlways, TypeFollows, PTL

-----------------------------------------------------------------------------
(* What is saved: ConfirmedIsRow and NoWriteAfterRelease *)

IsWrite(t) == t.action \in WriteAction

\* The task or result x has its trigger.
HasTrigger(e, x) ==
  \E t \in e.triggers : t.taskid = x.taskid /\ t.location_ID = x.location_ID
Unique(S) == \A x, y \in S : x.taskid = y.taskid => x = y
Apart(S, R) == \A x \in S, y \in R : x.taskid # y.taskid
Known(e, R) ==
  /\ Unique(e.tasks) /\ Apart(e.tasks, R)
  /\ \A x \in e.tasks \cup R : HasTrigger(e, x)
  /\ \A x \in e.tasks : x.direction \in {"Read", "Write"}
  /\ \A t \in e.triggers : t.action # "ids"

\* What a step may count on, the record c: the locations left behind before it
\* (past), the contents that may be taken for confirmed (fresh), the locations
\* that may be let go while a write of them waits (leaving), and whether a
\* location may be found ready in the step itself (late).
\* A write is left behind, may be, or is one that its location waits for.
Awaited(e, c, t) ==
  LET l == t.location_ID
  IN \/ l \in c.past \/ l \in c.leaving \ Loaded(e)
     \/ l \in Loaded(e) /\ t.taskid \in e.status_map[l].write_tasks
\* What a location confirmed is fresh until it is ready; one that is ready or has
\* changed may be let go; a clean gamestate that waits for a write has changed, or
\* the library may have failed to give its content.
RecordSafe(e, c, hot, l) ==
  LET s == e.status_map[l]
      changed == l \in Gamestate /\ (l \in Throws \/ e.script[l] # s.confirmed)
  IN /\ s.ready \/ s.confirmed \in c.fresh[l]
     /\ s.ready => l \in c.leaving \/ (c.late /\ s.write_tasks = {})
     /\ changed => l \in c.leaving
     /\ l \in Gamestate \ hot /\ ~s.dirty /\ s.write_tasks # {} => changed

\* hot: the gamestates whose handler runs; skipped: see Good.
Safe(e, R, c, hot, skipped) ==
  /\ Known(e, R) /\ c.asked \subseteq e.tasks
  /\ \A t \in e.triggers : IsWrite(t) /\ t.taskid \notin skipped => Awaited(e, c, t)
  /\ \A l \in Loaded(e) : RecordSafe(e, c, hot, l)

\* data stands for the row: an empty location has no row.
Like(data, row) == data = row \/ (data \in {EmptyData, NoData} /\ row = Missing)
\* The row of l is written and the answer is not delivered yet.
BeingWritten(l) ==
  operation[l] # NoOperation /\ ~IsReadTask(operation[l].task) /\ operation[l].ok
Written(R, l) == {r \in R : r.location_ID = l /\ ~IsReadTask(r) /\ r.ok}
\* When the results that wait have been executed, the row of l is confirmed.
Fresh(l, data) ==
  \/ BeingWritten(l)
  \/ /\ Written(Pending, l) = {} => Like(data, rows[l])
     /\ \A q \in Written(Pending, l) :
          \/ Like(q.location_data, rows[l])
          \/ \E p \in Written(Pending, l) :
               <<q.taskid, p.taskid>> \in before /\ Like(p.location_data, rows[l])
FreshContents ==
  [l \in Location |-> IF l \in Guest \cup left_behind THEN LoadedContent
                      ELSE {data \in LoadedContent : Fresh(l, data)}]

\* A read under way has found the row, a write that succeeds is in it.
OperationsTrue ==
  \A l \in Location :
    LET op == operation[l] IN
    op # NoOperation =>
      /\ op.task \in waiting /\ op.task.location_ID = l
      /\ op.ok /\ l \notin Guest => Like(op.location_data, rows[l])
      /\ IsReadTask(op.task) => op.ok
\* One result for each task; what was taken came before what waits for its turn.
ResultsOrdered ==
  /\ Unique(answers[this]) /\ Unique(inbox) /\ Apart(answers[this], inbox)
  /\ before \subseteq Ids(Pending) \X Ids(Pending)
  /\ \A p \in before : p[1] # p[2] /\ ~(p[1] \in Ids(answers[this]) /\ p[2] \in Ids(inbox))
\* The answer of a read may be old only while its location is loaded, or will be
\* when the answers are taken.
ReadsTrue ==
  \A r \in Pending : IsReadTask(r) /\ r.location_ID \notin Guest \cup left_behind =>
    \/ Like(r.location_data, rows[r.location_ID])
    \/ r \in inbox /\ r.location_ID \in Loaded(Here)
    \/ r \in answers[this] /\ \E x \in waiting \cup answers[this] :
         x.location_ID = r.location_ID /\ ~IsReadTask(x)
Steps(leaving, late) ==
  [past |-> left_behind, fresh |-> FreshContents, leaving |-> leaving, late |-> late,
   asked |-> waiting]
\* The engine is safe; the answers of reads, the operations under way and the
\* order of the results are true to the rows.
SavedInv ==
  /\ Safe(Here, Pending, Steps(Loaded(Here), FALSE), {}, {})
  /\ \A r \in Pending : IsReadTask(r) => r.ok
  /\ OperationsTrue /\ ResultsOrdered /\ ReadsTrue
  /\ ~deadline_over

\* Sound engines are good and safe.
Sound(e, R, c, hot, skipped) == Good(e, R, skipped) /\ Safe(e, R, c, hot, skipped)

\* Nothing is asked or answered, and no location waits for more or for less;
\* one that is let go waits for nothing, or may leave a write behind.
LEMMA RecordsSafe ==
  ASSUME NEW e, NEW f, NEW R, NEW c, NEW hot, NEW cold, NEW skipped,
         Safe(e, R, c, hot, skipped),
         f.triggers = e.triggers, f.tasks = e.tasks, Loaded(f) \subseteq Loaded(e),
         \A l \in Loaded(e) \ Loaded(f) :
           l \in c.leaving \/ e.status_map[l].write_tasks = {},
         \A l \in Loaded(f) : /\ f.status_map[l].write_tasks = e.status_map[l].write_tasks
                              /\ RecordSafe(f, c, cold, l)
  PROVE  Safe(f, R, c, cold, skipped)
<1>1. Known(f, R)
  BY DEF Safe, Known, HasTrigger
<1>2. ASSUME NEW t \in f.triggers, IsWrite(t), t.taskid \notin skipped
      PROVE  Awaited(f, c, t)
  <2>1. Awaited(e, c, t)
    BY <1>2 DEF Safe
  <2> QED
    BY <2>1 DEF Awaited
<1> QED
  BY <1>1, <1>2 DEF Safe

\* Only other fields of the engine change.
LEMMA OthersSafe ==
  ASSUME NEW e, NEW f, NEW R, NEW c, NEW hot, NEW skipped, Safe(e, R, c, hot, skipped),
         f.triggers = e.triggers, f.tasks = e.tasks, f.status_map = e.status_map,
         f.script = e.script
  PROVE  Safe(f, R, c, hot, skipped)
<1>1. Loaded(f) = Loaded(e)
  BY DEF Loaded
<1>2. \A l \in Loaded(f) : RecordSafe(f, c, hot, l)
  BY <1>1 DEF Safe, RecordSafe
<1> QED
  BY <1>1, <1>2, RecordsSafe

\* More handlers may be running, more may be fresh, and locations may be found
\* ready late.
LEMMA SafeStill ==
  ASSUME NEW e, NEW R, NEW c, NEW d, NEW hot, NEW cold, NEW skipped, NEW more,
         Safe(e, R, c, hot, skipped), hot \subseteq cold, skipped \subseteq more,
         d.past = c.past, d.leaving = c.leaving, c.late => d.late, d.asked = c.asked,
         \A l \in Loaded(e) : c.fresh[l] \subseteq d.fresh[l]
  PROVE  Safe(e, R, d, cold, more)
<1>1. \A l \in Loaded(e) : RecordSafe(e, d, cold, l)
  BY DEF Safe, RecordSafe
<1>2. \A t \in e.triggers : IsWrite(t) /\ t.taskid \notin more => Awaited(e, d, t)
  BY DEF Safe, Awaited
<1> QED
  BY <1>1, <1>2 DEF Safe

\* The flags of a record change; a location that is dirty is safe whatever its
\* handler did.
LEMMA StatusSafe ==
  ASSUME NEW e, NEW R, NEW c, NEW hot, NEW cold, NEW skipped, NEW other,
         Good(e, R, other), Safe(e, R, c, hot, skipped), NEW l, NEW v,
         l \in Loaded(e) =>
           LET s == e.status_map[l] IN
           /\ v.write_tasks = s.write_tasks /\ v.confirmed = s.confirmed
           /\ s.ready => v.ready
           /\ v.ready => s.ready \/ l \in c.leaving \/ (c.late /\ v.write_tasks = {})
           /\ s.dirty => v.dirty,
         \A k \in hot : k \in cold \/ (k = l /\ v.dirty)
  PROVE  Safe([e EXCEPT !.status_map = [@ EXCEPT ![l] = v]], R, c, cold, skipped)
<1> DEFINE f == [e EXCEPT !.status_map = [@ EXCEPT ![l] = v]]
<1>1. e \in Engine
  BY DEF Good
<1>2. /\ f.triggers = e.triggers /\ f.tasks = e.tasks /\ f.script = e.script
      /\ f.status_map = [e.status_map EXCEPT ![l] = v]
  BY <1>1 DEF Engine
<1> HIDE DEF f
<1>3. /\ Loaded(f) = Loaded(e)
      /\ \A k \in Loaded(e) : f.status_map[k] = IF k = l THEN v ELSE e.status_map[k]
  BY <1>2 DEF Loaded
<1>4. ASSUME NEW k \in Loaded(e)
      PROVE  /\ f.status_map[k].write_tasks = e.status_map[k].write_tasks
             /\ RecordSafe(f, c, cold, k)
  <2>1. RecordSafe(e, c, hot, k)
    BY DEF Safe
  <2>2. CASE k # l
    BY <1>2, <1>3, <2>1, <2>2 DEF RecordSafe
  <2>3. CASE k = l
    <3>1. f.status_map[k] = v
      BY <1>3, <2>3
    <3> QED
      BY <1>2, <2>1, <2>3, <3>1 DEF RecordSafe
  <2> QED
    BY <2>2, <2>3
<1>5. Safe(f, R, c, cold, skipped)
  BY <1>2, <1>3, <1>4, RecordsSafe
<1> QED
  BY <1>5 DEF f

LEMMA ScriptSafe ==
  ASSUME NEW e, NEW R, NEW c, NEW hot, NEW skipped, Sound(e, R, c, hot, skipped), NEW l, NEW d,
         l \in Gamestate => l \in c.leaving /\ l \in hot
  PROVE  Safe([e EXCEPT !.script = [@ EXCEPT ![l] = d]], R, c, hot, skipped)
<1> DEFINE f == [e EXCEPT !.script = [@ EXCEPT ![l] = d]]
<1>1. e \in Engine /\ DOMAIN e.script = Loaded(e)
  BY DEF Sound, Good, Loaded
<1>2. /\ f.triggers = e.triggers /\ f.tasks = e.tasks /\ f.status_map = e.status_map
      /\ f.script = [e.script EXCEPT ![l] = d]
  BY <1>1 DEF Engine
<1> HIDE DEF f
<1>3. ASSUME NEW k \in Loaded(e)
      PROVE  RecordSafe(f, c, hot, k)
  <2>1. RecordSafe(e, c, hot, k)
    BY DEF Sound, Safe
  <2>2. CASE k # l
    <3>1. f.script[k] = e.script[k]
      BY <1>1, <1>2, <2>2
    <3> QED
      BY <1>2, <2>1, <3>1 DEF RecordSafe
  <2>3. CASE k = l
    BY <1>2, <2>1, <2>3 DEF RecordSafe
  <2> QED
    BY <2>2, <2>3
<1>4. Safe(f, R, c, hot, skipped)
  <2>1. Loaded(f) = Loaded(e)
    BY <1>2 DEF Loaded
  <2> QED
    BY <1>2, <1>3, <2>1, RecordsSafe DEF Sound
<1> QED
  BY <1>4 DEF f

\* A location is let go that waits for no write, or may leave one behind.
LEMMA LetGoSafe ==
  ASSUME NEW e, NEW R, NEW c, NEW hot, NEW skipped, Sound(e, R, c, hot, skipped), NEW l,
         l \in Loaded(e) => l \in c.leaving \/ e.status_map[l].write_tasks = {}
  PROVE  Sound(LetGo(e, l), R, c, hot, skipped)
<1> DEFINE f == LetGo(e, l)
<1>1. e \in Engine /\ DOMAIN e.script = Loaded(e)
  BY DEF Sound, Good, Loaded
<1>2. /\ f.triggers = e.triggers /\ f.tasks = e.tasks
      /\ f.status_map = Without(e.status_map, l) /\ f.script = Without(e.script, l)
  BY <1>1 DEF Engine, LetGo, Release, Erase
<1> HIDE DEF f
<1>3. /\ Loaded(f) = Loaded(e) \ {l}
      /\ \A k \in Loaded(f) : f.status_map[k] = e.status_map[k] /\ f.script[k] = e.script[k]
  BY <1>1, <1>2 DEF Loaded, Without
<1>4. \A k \in Loaded(f) : RecordSafe(f, c, hot, k)
  BY <1>3 DEF Sound, Safe, RecordSafe
<1>5. Safe(f, R, c, hot, skipped)
  BY <1>2, <1>3, <1>4, RecordsSafe DEF Sound
<1>6. Good(f, R, skipped)
  BY LetGoOK DEF Sound, f
<1> QED
  BY <1>5, <1>6 DEF Sound, f

-----------------------------------------------------------------------------
(* Triggers and tasks keep an engine safe *)

\* Error, release and access touch nothing that matters here.
LEMMA FlagsSafe ==
  ASSUME NEW e, NEW R, NEW c, NEW hot, Good(e, R, {}), Safe(e, R, c, hot, {}), NEW l
  PROVE  /\ Sound([e EXCEPT !.status_map[l].error = TRUE], R, c, hot, {})
         /\ Sound([e EXCEPT !.status_map[l].released = TRUE], R, c, hot, {})
         /\ Sound([e EXCEPT !.status_map[l].accessed = TRUE], R, c, hot, {})
<1> DEFINE s == e.status_map[l]
           To(v) == [e EXCEPT !.status_map = [@ EXCEPT ![l] = v]]
<1>1. l \in Loaded(e) => s \in StatusOf
  BY EngineIs DEF Good, Loaded
<1>2. ASSUME NEW v, l \in Loaded(e) =>
               /\ v.write_tasks = s.write_tasks /\ v.confirmed = s.confirmed
               /\ v.ready = s.ready /\ v.dirty = s.dirty
      PROVE  Safe(To(v), R, c, hot, {})
  BY <1>2, StatusSafe
<1>3. Safe(To([s EXCEPT !.error = TRUE]), R, c, hot, {})
  BY <1>1, <1>2 DEF StatusOf
<1>4. Safe(To([s EXCEPT !.released = TRUE]), R, c, hot, {})
  BY <1>1, <1>2 DEF StatusOf
<1>5. Safe(To([s EXCEPT !.accessed = TRUE]), R, c, hot, {})
  BY <1>1, <1>2 DEF StatusOf
<1>6. /\ Good([e EXCEPT !.status_map[l].error = TRUE], R, {})
      /\ Good([e EXCEPT !.status_map[l].released = TRUE], R, {})
      /\ Good([e EXCEPT !.status_map[l].accessed = TRUE], R, {})
  BY FlagsOK
<1> QED
  BY <1>3, <1>4, <1>5, <1>6 DEF Sound

\* f is e when its trigger t is executed and the record of its location becomes
\* another.
Executed(e, f, t) ==
  /\ f.triggers = e.triggers \ {t} /\ f.tasks = e.tasks /\ f.script = e.script
  /\ Loaded(f) = Loaded(e)
  /\ \A k \in Loaded(e) : k # t.location_ID => f.status_map[k] = e.status_map[k]
  /\ t.location_ID \in Loaded(e) =>
       f.status_map[t.location_ID].write_tasks
         = e.status_map[t.location_ID].write_tasks \ {t.taskid}

\* Other contents of location l may be taken for confirmed.
Renewed(b, c, l) ==
  /\ c.past = b.past /\ c.leaving = b.leaving /\ (c.late <=> b.late) /\ c.asked = b.asked
  /\ \A k \in Location : k # l => b.fresh[k] \subseteq c.fresh[k]

LEMMA ConfirmedSafe ==
  ASSUME NEW e, NEW f, NEW R, NEW b, NEW c, NEW hot, NEW t \in e.triggers,
         Sound(e, R, b, hot, {t.taskid}), \A x \in e.tasks \cup R : x.taskid # t.taskid,
         Executed(e, f, t), Renewed(b, c, t.location_ID), t.location_ID \in Loaded(e) => RecordSafe(f, c, hot, t.location_ID)
  PROVE  Safe(f, R, c, hot, {})
<1>1. /\ Safe(e, R, b, hot, {t.taskid}) /\ Loaded(e) \subseteq Location
      /\ \A u, v \in e.triggers : u.taskid = v.taskid => u = v
  BY EngineIs DEF Sound, Good, Loaded
<1>2. Known(f, R)
  <2>1. \A x \in e.tasks \cup R : HasTrigger(f, x)
    BY <1>1 DEF Safe, Known, HasTrigger, Executed
  <2> QED
    BY <1>1, <2>1 DEF Safe, Known, Executed
<1>3. ASSUME NEW u \in f.triggers, IsWrite(u)
      PROVE  Awaited(f, c, u)
  <2>1. u \in e.triggers /\ u.taskid # t.taskid
    BY <1>1 DEF Executed
  <2>2. Awaited(e, b, u)
    BY <1>1, <1>3, <2>1 DEF Safe
  <2>3. u.location_ID = t.location_ID \/ u.location_ID # t.location_ID
    OBVIOUS
  <2> QED
    BY <2>1, <2>2, <2>3 DEF Awaited, Executed, Renewed
<1>4. ASSUME NEW k \in Loaded(f)
      PROVE  RecordSafe(f, c, hot, k)
  <2>1. CASE k # t.location_ID
    <3>1. RecordSafe(e, b, hot, k) /\ k \in Location
      BY <1>1 DEF Safe, Executed
    <3>2. f.status_map[k] = e.status_map[k] /\ f.script = e.script
      BY <2>1, <3>1 DEF Executed
    <3> QED
      BY <2>1, <3>1, <3>2 DEF RecordSafe, Renewed
  <2>2. CASE k = t.location_ID
    BY <2>2 DEF Executed
  <2> QED
    BY <2>1, <2>2
<1> QED
  BY <1>1, <1>2, <1>3, <1>4 DEF Safe, Executed, Renewed

\* A write task of location l is answered; v is its record s without the task.
Settled(s, v, b, c, l) ==
  /\ s.ready => v.ready
  /\ v.ready => s.ready \/ l \in c.leaving \/ (c.late /\ v.write_tasks = {})
  /\ \E i : v.write_tasks = s.write_tasks \ {i}
  /\ \/ v.confirmed = s.confirmed /\ (s.dirty => v.dirty) /\ b.fresh[l] \subseteq c.fresh[l]
     \/ /\ v.dirty \/ v.write_tasks = {}
        /\ v.ready \/ v.confirmed \in c.fresh[l]
        /\ l \in Gamestate => v.confirmed = s.confirmed \/ l \in c.leaving

LEMMA RecordConfirmed ==
  ASSUME NEW e, NEW f, NEW b, NEW c, NEW hot, NEW l, RecordSafe(e, b, hot, l), f.script = e.script,
         Renewed(b, c, l), Settled(e.status_map[l], f.status_map[l], b, c, l)
  PROVE  RecordSafe(f, c, hot, l)
<1> DEFINE s == e.status_map[l]
           v == f.status_map[l]
<1>2. /\ s.ready \/ s.confirmed \in b.fresh[l]
      /\ s.ready => l \in c.leaving \/ (c.late /\ s.write_tasks = {})
      /\ l \in Gamestate /\ (l \in Throws \/ f.script[l] # s.confirmed) => l \in c.leaving
      /\ l \in Gamestate \ hot /\ ~s.dirty /\ s.write_tasks # {} =>
           l \in Gamestate /\ (l \in Throws \/ f.script[l] # s.confirmed)
  BY DEF RecordSafe, Renewed
<1>8. Settled(s, v, b, c, l)
  OBVIOUS
<1> HIDE DEF s, v
<1>3. v.ready \/ v.confirmed \in c.fresh[l]
  BY <1>2, <1>8 DEF Settled
<1>4. v.ready => l \in c.leaving \/ (c.late /\ v.write_tasks = {})
  BY <1>2, <1>8 DEF Settled
<1>5. l \in Gamestate /\ (l \in Throws \/ f.script[l] # v.confirmed) => l \in c.leaving
  BY <1>2, <1>8 DEF Settled
<1>6. l \in Gamestate \ hot /\ ~v.dirty /\ v.write_tasks # {} =>
        l \in Gamestate /\ (l \in Throws \/ f.script[l] # v.confirmed)
  BY <1>2, <1>8 DEF Settled
<1> QED
  BY <1>3, <1>4, <1>5, <1>6 DEF RecordSafe, s, v

\* A write trigger is executed: what it confirms is fresh, or its location is
\* found ready.
MayConfirm(e, b, c, t, ok, data) ==
  LET l == t.location_ID
      s == e.status_map[l]
  IN l \in Loaded(e) =>
       /\ ok => data \in c.fresh[l] \/ s.ready \/ t.action = "Write_GroupShutdown"
       /\ ~ok => b.fresh[l] \subseteq c.fresh[l]
       /\ t.action = "Write_GroupShutdown" =>
            l \in c.leaving \/ (c.late /\ s.write_tasks \ {t.taskid} = {})
       /\ ok /\ l \in Gamestate => data = s.confirmed \/ l \in c.leaving

LEMMA ExecuteTriggerWriteSafe ==
  ASSUME NEW e, NEW R, NEW b, NEW c, NEW hot, NEW t \in e.triggers,
         Sound(e, R, b, hot, {t.taskid}), \A x \in e.tasks \cup R : x.taskid # t.taskid,
         NEW ok \in BOOLEAN, NEW data \in LoadedContent,
         Renewed(b, c, t.location_ID), MayConfirm(e, b, c, t, ok, data)
  PROVE  \A g \in ExecuteTriggerWrite(e, t, ok, data) : Sound(g, R, c, hot, {})
<1> DEFINE l == t.location_ID
           loaded == l \in Loaded(e)
           s == e.status_map[l]
           w == Confirm(s, t.taskid, ok, data)
           confirmed == [e.status_map EXCEPT ![l] = Confirm(@, t.taskid, ok, data)]
           f == [e EXCEPT !.triggers = @ \ {t},
                          !.status_map = IF loaded THEN confirmed ELSE @]
           ready == [f EXCEPT !.status_map[l].ready = TRUE]
<1>1. /\ e \in Engine /\ Good(e, R, {t.taskid}) /\ Safe(e, R, b, hot, {t.taskid})
      /\ loaded => s \in StatusOf
  BY EngineIs DEF Sound, Good, Loaded
<1>2. Good(f, R, {})
  <2> DEFINE m == IF loaded THEN [e.status_map EXCEPT ![l] = w] ELSE e.status_map
  <2>1. Good([e EXCEPT !.triggers = e.triggers \ {t}, !.status_map = m], R, {})
    BY <1>1, ConfirmOK
  <2> QED
    BY <2>1
<1>3. /\ f.triggers = e.triggers \ {t} /\ f.tasks = e.tasks /\ f.script = e.script
      /\ Loaded(f) = Loaded(e)
      /\ \A k \in Loaded(e) : k # l => f.status_map[k] = e.status_map[k]
      /\ loaded => f.status_map[l] = w
  BY <1>1 DEF Engine, Loaded
<1>4. loaded => /\ RecordSafe(e, b, hot, l) /\ (w.ready <=> s.ready)
                /\ w.write_tasks = s.write_tasks \ {t.taskid}
  BY <1>1 DEF Safe, Confirm, StatusOf
<1>10. loaded => \/ w.confirmed = s.confirmed /\ (s.dirty => w.dirty) /\ b.fresh[l] \subseteq c.fresh[l]
                 \/ /\ w.dirty \/ w.write_tasks = {}
                    /\ \/ t.action = "Write_GroupShutdown"
                       \/ w.ready \/ w.confirmed \in c.fresh[l]
                    /\ l \in Gamestate => w.confirmed = s.confirmed \/ l \in c.leaving
  <2>1. CASE ok
    <3>1. loaded => /\ w.confirmed = data /\ (w.dirty <=> w.write_tasks # {})
      BY <1>1, <2>1 DEF Confirm, StatusOf
    <3> HIDE DEF w
    <3> QED
      BY <1>4, <2>1, <3>1 DEF MayConfirm
  <2>2. CASE ~ok
    BY <1>1, <2>2 DEF Confirm, StatusOf, MayConfirm
  <2> QED
    BY <2>1, <2>2
<1>5. \A g \in ExecuteTriggerWrite(e, t, ok, data) :
        IF t.action = "Write_GroupShutdown" /\ loaded THEN g = ready
        ELSE \/ g = [f EXCEPT !.status_map[l].error = TRUE]
             \/ ~loaded /\ g = LetGo(f, l)
             \/ g \in Notification(f, t.creator) \cup Notification(f, l)
             \/ g = [f EXCEPT !.status_map[l].released = TRUE]
             \/ g = f
  <2> HIDE DEF f, loaded
  <2> QED
    BY DEF ExecuteTriggerWrite, f, loaded
<1> HIDE DEF s, w, f, confirmed
<1>11. e.status_map[l] = s /\ (t.action = "Write_GroupShutdown" /\ loaded =>
           l \in c.leaving \/ (c.late /\ s.write_tasks \ {t.taskid} = {}))
  BY DEF s, MayConfirm
<1>6. CASE t.action = "Write_GroupShutdown" /\ loaded
  <2> DEFINE v == [w EXCEPT !.ready = TRUE]
  <2>1. w \in StatusOf
    BY <1>1, <1>2, <1>3, <1>6, EngineIs DEF Good, Loaded
  <2>2. /\ v.write_tasks = w.write_tasks /\ v.confirmed = w.confirmed /\ v.dirty = w.dirty
        /\ v.ready
    BY <2>1 DEF StatusOf
  <2>3. /\ ready.triggers = f.triggers /\ ready.tasks = f.tasks /\ ready.script = f.script
        /\ ready.status_map = [f.status_map EXCEPT ![l] = [@ EXCEPT !.ready = TRUE]]
    BY <1>2 DEF Good, Engine
  <2> HIDE DEF ready
  <2>4. /\ Loaded(ready) = Loaded(e) /\ ready.status_map[l] = v
        /\ \A k \in Loaded(e) : k # l => ready.status_map[k] = e.status_map[k]
    BY <1>3, <1>6, <2>3 DEF Loaded
  <2> HIDE DEF v
  <2>5. RecordSafe(ready, c, hot, l) /\ v.write_tasks = s.write_tasks \ {t.taskid}
    <3>1. ready.script = e.script
      BY <1>3, <2>3
    <3>2. /\ v.write_tasks = s.write_tasks \ {t.taskid}
          /\ v.ready => s.ready \/ l \in c.leaving \/ (c.late /\ v.write_tasks = {})
      BY <1>4, <1>6, <1>11, <2>2
    <3>3. \/ v.confirmed = s.confirmed /\ (s.dirty => v.dirty) /\ b.fresh[l] \subseteq c.fresh[l]
          \/ /\ v.dirty \/ v.write_tasks = {}
             /\ v.ready \/ v.confirmed \in c.fresh[l]
             /\ l \in Gamestate => v.confirmed = s.confirmed \/ l \in c.leaving
      BY <1>6, <1>10, <2>2
    <3>4. Settled(s, v, b, c, l)
      BY <1>4, <1>6, <2>2, <3>2, <3>3 DEF Settled
    <3> QED
      BY <1>4, <1>6, <1>11, <2>4, <3>1, <3>2, <3>4, RecordConfirmed
  <2>6. Safe(ready, R, c, hot, {})
    <3>1. Executed(e, ready, t)
      BY <1>3, <1>11, <2>3, <2>4, <2>5 DEF Executed
    <3> QED
      BY <2>5, <3>1, ConfirmedSafe
  <2>7. Good(ready, R, {})
    BY <1>2, FlagsOK DEF ready
  <2> QED
    BY <1>5, <1>6, <2>6, <2>7 DEF Sound
<1>7. CASE ~(t.action = "Write_GroupShutdown" /\ loaded)
  <2>1. loaded => RecordSafe(f, c, hot, l) /\ w.write_tasks = s.write_tasks \ {t.taskid}
    <3> SUFFICES ASSUME loaded
                 PROVE  RecordSafe(f, c, hot, l) /\ w.write_tasks = s.write_tasks \ {t.taskid}
      OBVIOUS
    <3>1. /\ w.write_tasks = s.write_tasks \ {t.taskid} /\ (s.ready => w.ready)
          /\ w.ready => s.ready \/ l \in c.leaving \/ (c.late /\ w.write_tasks = {})
      BY <1>4
    <3>2. \/ w.confirmed = s.confirmed /\ (s.dirty => w.dirty) /\ b.fresh[l] \subseteq c.fresh[l]
          \/ /\ w.dirty \/ w.write_tasks = {}
             /\ w.ready \/ w.confirmed \in c.fresh[l]
             /\ l \in Gamestate => w.confirmed = s.confirmed \/ l \in c.leaving
      BY <1>7, <1>10
    <3>3. f.status_map[l] = w /\ RecordSafe(e, b, hot, l) /\ f.script = e.script
      BY <1>3, <1>4
    <3>4. Settled(s, w, b, c, l)
      BY <3>1, <3>2 DEF Settled
    <3>5. RecordSafe(f, c, hot, l)
      BY <1>11, <3>3, <3>4, RecordConfirmed
    <3> QED
      BY <3>1, <3>5
  <2>2. Safe(f, R, c, hot, {})
    <3>1. Executed(e, f, t)
      BY <1>3, <1>11, <2>1 DEF Executed
    <3> QED
      BY <2>1, <3>1, ConfirmedSafe
  <2>3. ASSUME NEW k
        PROVE  /\ Sound([f EXCEPT !.status_map[k].error = TRUE], R, c, hot, {})
               /\ Sound([f EXCEPT !.status_map[k].released = TRUE], R, c, hot, {})
    BY <1>2, <2>2, FlagsSafe
  <2>4. ~loaded => Sound(LetGo(f, l), R, c, hot, {})
    BY <1>2, <1>3, <2>2, LetGoSafe DEF Sound
  <2>5. Sound(f, R, c, hot, {})
    BY <1>2, <2>2 DEF Sound
  <2>6. \A k : \A g \in Notification(f, k) : Sound(g, R, c, hot, {})
    BY <2>3, <2>5 DEF Notification
  <2> HIDE DEF loaded
  <2> QED
    BY <1>5, <1>7, <2>3, <2>4, <2>5, <2>6
<1> HIDE DEF loaded
<1> QED
  BY <1>6, <1>7

\* The engine remembers a trigger that it executes at once.
LEMMA RememberSafe ==
  ASSUME NEW e, NEW R, NEW c, NEW hot, Sound(e, R, c, hot, {}),
         NEW t \in TriggerOf, t.taskid = e.seq, t.action # "ids"
  PROVE  /\ Sound(Remember(e, t), R, c, hot, {t.taskid})
         /\ \A x \in e.tasks \cup R : x.taskid # t.taskid
         /\ Remember(e, t).tasks = e.tasks /\ Remember(e, t).status_map = e.status_map
         /\ Remember(e, t).script = e.script /\ Remember(e, t).triggers = e.triggers \cup {t}
<1> DEFINE f == Remember(e, t)
<1>1. e \in Engine /\ Good(e, R, {}) /\ Safe(e, R, c, hot, {})
  BY DEF Sound, Good
<1>2. /\ f.tasks = e.tasks /\ f.status_map = e.status_map /\ f.script = e.script
      /\ f.triggers = e.triggers \cup {t}
  BY <1>1 DEF Engine, Remember
<1>3. Good(f, R, {t.taskid})
  BY <1>1, RememberOK
<1> HIDE DEF f
<1>4. \A x \in e.tasks \cup R : x.taskid # t.taskid
  <2>1. \A x \in e.tasks \cup R : x.taskid \in Nat /\ x.taskid < e.seq
    BY <1>1, EngineIs DEF Good, TaskOf, Result, Id
  <2> QED
    BY <1>1, <2>1, EngineIs DEF Id
<1>5. Known(f, R)
  BY <1>1, <1>2 DEF Safe, Known, HasTrigger
<1>6. ASSUME NEW u \in f.triggers, IsWrite(u), u.taskid \notin {t.taskid}
      PROVE  Awaited(f, c, u)
  <2>1. Awaited(e, c, u)
    BY <1>1, <1>2, <1>6 DEF Safe
  <2> QED
    BY <1>2, <2>1 DEF Awaited, Loaded
<1>7. \A l \in Loaded(f) : RecordSafe(f, c, hot, l)
  BY <1>1, <1>2 DEF Safe, RecordSafe, Loaded
<1>8. Safe(f, R, c, hot, {t.taskid})
  BY <1>1, <1>2, <1>5, <1>6, <1>7 DEF Safe
<1> QED
  BY <1>2, <1>3, <1>4, <1>8 DEF Sound, f

\* The queue gets task k of the new trigger t.
Asks(e, f, t, k) ==
  /\ f.triggers = e.triggers \cup {t} /\ f.tasks = e.tasks \cup {k} /\ f.script = e.script
  /\ Loaded(f) = Loaded(e)
  /\ \A l \in Loaded(e) : e.status_map[l].write_tasks \subseteq f.status_map[l].write_tasks
  /\ t.taskid = e.seq /\ k.taskid = e.seq /\ k.location_ID = t.location_ID
  /\ t.action # "ids" /\ k.direction \in {"Read", "Write"}

LEMMA AskSafe ==
  ASSUME NEW e, NEW f, NEW R, NEW c, NEW hot, Sound(e, R, c, hot, {}),
         NEW t, NEW k, Asks(e, f, t, k),
         IsWrite(t) => /\ t.location_ID \in Loaded(e)
                       /\ t.taskid \in f.status_map[t.location_ID].write_tasks,
         \A l \in Loaded(e) : RecordSafe(f, c, hot, l)
  PROVE  Safe(f, R, c, hot, {})
<1>1. e \in Engine /\ Good(e, R, {}) /\ Safe(e, R, c, hot, {})
  BY DEF Sound, Good
<1>2. \A x \in e.tasks \cup R : x.taskid # e.seq
  <2>1. \A x \in e.tasks \cup R : x.taskid \in Nat /\ x.taskid < e.seq
    BY <1>1, EngineIs DEF Good, TaskOf, Result, Id
  <2> QED
    BY <1>1, <2>1, EngineIs DEF Id
<1>3. Unique(f.tasks) /\ Apart(f.tasks, R)
  BY <1>1, <1>2 DEF Safe, Known, Unique, Apart, Asks
<1>4. \A x \in f.tasks \cup R : HasTrigger(f, x)
  BY <1>1 DEF Safe, Known, HasTrigger, Asks
<1>5. ASSUME NEW u \in f.triggers, IsWrite(u)
      PROVE  Awaited(f, c, u)
  <2>1. CASE u = t
    BY <1>5, <2>1 DEF Awaited, Asks
  <2>2. CASE u \in e.triggers
    <3>1. Awaited(e, c, u)
      BY <1>1, <1>5, <2>2 DEF Safe
    <3> QED
      BY <3>1 DEF Awaited, Asks
  <2> QED
    BY <2>1, <2>2 DEF Asks
<1>6. \A l \in Loaded(f) : RecordSafe(f, c, hot, l)
  BY DEF Asks
<1>7. Known(f, R) /\ c.asked \subseteq f.tasks
  BY <1>1, <1>3, <1>4 DEF Safe, Known, Asks
<1> QED
  BY <1>5, <1>6, <1>7 DEF Safe

LEMMA AddReadSafe ==
  ASSUME NEW e, NEW R, NEW c, NEW hot, Sound(e, R, c, hot, {}), NEW l \in Location,
         NEW action \in ReadAction \ {"ids"}
  PROVE  Sound(AddRead(e, l, action), R, c, hot, {}) /\ Loaded(AddRead(e, l, action)) = Loaded(e)
<1> DEFINE t == NewTrigger(e, l, action, l)
           k == NewTask(e, l, "Read", NoData)
           f == AddRead(e, l, action)
<1>1. e \in Engine /\ Good(e, R, {}) /\ Safe(e, R, c, hot, {})
  BY DEF Sound, Good
<1>2. /\ f.triggers = e.triggers \cup {t} /\ f.tasks = e.tasks \cup {k}
      /\ f.status_map = e.status_map /\ f.script = e.script
  <2> HIDE DEF t, k
  <2>1. f = [Remember(e, t) EXCEPT !.tasks = @ \cup {k}]
    BY DEF AddRead, t, k
  <2> HIDE DEF f
  <2> QED
    BY <1>1, <2>1 DEF Remember, Engine
<1>3. /\ t.taskid = e.seq /\ t.location_ID = l /\ t.action = action
      /\ k.taskid = e.seq /\ k.location_ID = l /\ k.direction = "Read"
  BY DEF NewTrigger, NewTask
<1>4. Good(f, R, {})
  BY <1>1, AddReadOK
<1> HIDE DEF f, t, k
<1>5. Loaded(f) = Loaded(e)
  BY <1>2 DEF Loaded
<1>6. Asks(e, f, t, k)
  BY <1>2, <1>3, <1>5 DEF Asks
<1>7. ~IsWrite(t)
  BY <1>3, ActionsDiffer DEF IsWrite
<1>8. \A h \in Loaded(e) : RecordSafe(f, c, hot, h)
  BY <1>1, <1>2 DEF Safe, RecordSafe
<1>9. Safe(f, R, c, hot, {})
  BY <1>6, <1>7, <1>8, AskSafe
<1> QED
  BY <1>4, <1>5, <1>9 DEF Sound, f

LEMMA EnqueueSafe ==
  ASSUME NEW e, NEW R, NEW c, NEW hot, Sound(e, R, c, hot, {}), NEW l \in Loaded(e),
         NEW action \in WriteAction, e.status_map[l].ready => l \in c.leaving,
         NEW data \in LoadedContent,
         l \in Gamestate => \/ e.status_map[l].write_tasks # {} \/ l \in Throws
                            \/ e.script[l] # e.status_map[l].confirmed
  PROVE  LET f == Enqueue(e, l, "Write", action, l, data)
         IN Sound(f, R, c, hot, {}) /\ Loaded(f) = Loaded(e)
<1> DEFINE t == NewTrigger(e, l, action, l)
           k == NewTask(e, l, "Write", data)
           f == Enqueue(e, l, "Write", action, l, data)
           s == e.status_map[l]
           v == [s EXCEPT !.write_tasks = @ \cup {e.seq}]
<1>1. /\ e \in Engine /\ Good(e, R, {}) /\ Safe(e, R, c, hot, {})
      /\ l \in Location /\ s \in StatusOf
  BY EngineIs DEF Sound, Good, Loaded
<1>2. /\ f.triggers = e.triggers \cup {t} /\ f.tasks = e.tasks \cup {k}
      /\ f.status_map = [e.status_map EXCEPT ![l] = v] /\ f.script = e.script
  <2> HIDE DEF t, k
  <2>1. f = [Remember(e, t) EXCEPT
               !.tasks = @ \cup {k},
               !.status_map = IF l \in Loaded(e)
                              THEN [e.status_map EXCEPT ![l].write_tasks = @ \cup {e.seq}] ELSE @]
    BY DEF Enqueue, t, k
  <2> HIDE DEF f
  <2> QED
    BY <1>1, <2>1 DEF Remember, Engine
<1>3. /\ t.taskid = e.seq /\ t.location_ID = l
      /\ k.taskid = e.seq /\ k.location_ID = l /\ t.action # "ids" /\ k.direction = "Write"
  BY DEF NewTrigger, NewTask, WriteAction
<1>4. Good(f, R, {})
  BY <1>1, EnqueueOK
<1>5. /\ v.write_tasks = s.write_tasks \cup {e.seq} /\ v.confirmed = s.confirmed
      /\ (v.ready <=> s.ready) /\ (v.dirty <=> s.dirty)
  BY <1>1 DEF StatusOf
<1> HIDE DEF f, t, k, v
<1>6. /\ Loaded(f) = Loaded(e) /\ f.status_map[l] = v
      /\ \A h \in Loaded(e) : h # l => f.status_map[h] = e.status_map[h]
  BY <1>2 DEF Loaded
<1>7. Asks(e, f, t, k)
  BY <1>2, <1>3, <1>5, <1>6 DEF Asks
<1>8. t.taskid \in f.status_map[t.location_ID].write_tasks
  BY <1>3, <1>5, <1>6
<1>9. ASSUME NEW h \in Loaded(e)
      PROVE  RecordSafe(f, c, hot, h)
  <2>1. RecordSafe(e, c, hot, h)
    BY <1>1 DEF Safe
  <2>2. CASE h # l
    BY <1>2, <1>6, <2>1, <2>2 DEF RecordSafe
  <2>3. CASE h = l
    <3>1. s.ready => l \in c.leaving
      OBVIOUS
    <3>2. l \in Gamestate \ hot /\ ~s.dirty => l \in Throws \/ e.script[l] # s.confirmed
      BY <2>1, <2>3 DEF RecordSafe
    <3>3. f.status_map[h] = v
      BY <1>6, <2>3
    <3> QED
      BY <1>2, <1>5, <2>1, <2>3, <3>1, <3>2, <3>3 DEF RecordSafe
  <2> QED
    BY <2>2, <2>3
<1>10. Safe(f, R, c, hot, {})
  BY <1>3, <1>7, <1>8, <1>9, AskSafe
<1> QED
  BY <1>4, <1>6, <1>10 DEF Sound, f

\* A trigger whose task nobody needs is executed at once.
LEMMA AtOnceSafe ==
  ASSUME NEW e, NEW R, NEW c, NEW hot, Sound(e, R, c, hot, {}), NEW l \in Loaded(e),
         NEW action \in WriteAction, NEW ok \in BOOLEAN, NEW data \in LoadedContent,
         LET s == e.status_map[l] IN
         /\ ok => data \in c.fresh[l] \/ s.ready \/ action = "Write_GroupShutdown"
         /\ action = "Write_GroupShutdown" =>
              l \in c.leaving \/ (c.late /\ s.write_tasks = {})
         /\ ok /\ l \in Gamestate => data = s.confirmed
  PROVE  LET t == NewTrigger(e, l, action, l)
         IN \A f \in ExecuteTriggerWrite(Remember(e, t), t, ok, data) : Sound(f, R, c, hot, {})
<1> DEFINE t == NewTrigger(e, l, action, l)
           r == Remember(e, t)
<1>1. e \in Engine /\ l \in Location
  BY EngineIs DEF Sound, Good, Loaded
<1>2. t \in TriggerOf /\ t.taskid = e.seq /\ t.action = action /\ t.location_ID = l
      /\ action # "ids"
  BY <1>1, NewTriggerIs DEF WriteAction
<1> HIDE DEF t
<1>3. /\ Sound(r, R, c, hot, {t.taskid})
      /\ \A x \in r.tasks \cup R : x.taskid # t.taskid
      /\ r.status_map = e.status_map /\ t \in r.triggers
  <2>1. /\ Sound(Remember(e, t), R, c, hot, {t.taskid})
        /\ \A x \in e.tasks \cup R : x.taskid # t.taskid
        /\ Remember(e, t).tasks = e.tasks /\ Remember(e, t).status_map = e.status_map
        /\ Remember(e, t).triggers = e.triggers \cup {t}
    BY <1>2, RememberSafe
  <2> QED
    BY <2>1
<1> HIDE DEF r
<1>4. Renewed(c, c, t.location_ID)
  BY DEF Renewed
<1>5. MayConfirm(r, c, c, t, ok, data)
  BY <1>2, <1>3 DEF MayConfirm
<1>6. \A f \in ExecuteTriggerWrite(r, t, ok, data) : Sound(f, R, c, hot, {})
  BY <1>3, <1>4, <1>5, ExecuteTriggerWriteSafe
<1> QED
  BY <1>6 DEF t, r

\* Location l may be written with the given action.
MayWrite(e, c, l, action) ==
  /\ e.status_map[l].ready => l \in c.leaving
  /\ action = "Write_GroupShutdown" =>
       l \in c.leaving \/ (c.late /\ e.status_map[l].write_tasks = {})

LEMMA AddWriteSafe ==
  ASSUME NEW e, NEW R, NEW c, NEW hot, Sound(e, R, c, hot, {}), NEW l \in Loaded(e),
         NEW action \in WriteAction, MayWrite(e, c, l, action)
  PROVE  \A f \in AddWrite(e, l, action) : Sound(f, R, c, hot, {})
<1> DEFINE t == NewTrigger(e, l, action, l)
           s == e.status_map[l]
           refused == action = "Write_GroupShutdown" /\ l \notin Gamestate
<1>1. /\ e \in Engine /\ RecordSafe(e, c, hot, l) /\ e.script[l] \in LoadedContent
      /\ NoData \in LoadedContent
  BY EngineIs DEF Sound, Good, Safe, Loaded, LoadedContent
<1>6. \A data \in Got(e, l) : data \in LoadedContent /\ (data = e.script[l] \/ l \in Throws)
  BY <1>1, GotIs
<1>2. \A f \in ExecuteTriggerWrite(Remember(e, t), t, refused, NoData) : Sound(f, R, c, hot, {})
  <2>1. refused \in BOOLEAN
    OBVIOUS
  <2>2. /\ refused => action = "Write_GroupShutdown"
        /\ action = "Write_GroupShutdown" =>
             l \in c.leaving \/ (c.late /\ e.status_map[l].write_tasks = {})
        /\ ~(refused /\ l \in Gamestate)
    BY DEF MayWrite
  <2> HIDE DEF refused
  <2> QED
    BY <1>1, <2>1, <2>2, AtOnceSafe
<1>3. ASSUME NEW data \in Got(e, l), data = s.confirmed
      PROVE  \A f \in ExecuteTriggerWrite(Remember(e, t), t, TRUE, data) : Sound(f, R, c, hot, {})
  <2>1. /\ data \in c.fresh[l] \/ e.status_map[l].ready
        /\ action = "Write_GroupShutdown" =>
             l \in c.leaving \/ (c.late /\ e.status_map[l].write_tasks = {})
        /\ data = e.status_map[l].confirmed
    BY <1>1, <1>3 DEF MayWrite, RecordSafe
  <2> QED
    BY <1>6, <2>1, AtOnceSafe
<1>4. ASSUME NEW data \in Got(e, l), ~(s.write_tasks = {} /\ data = s.confirmed)
      PROVE  Sound(Enqueue(e, l, "Write", action, l, data), R, c, hot, {})
  <2>1. e.status_map[l].ready => l \in c.leaving
    BY DEF MayWrite
  <2>2. l \in Gamestate => \/ e.status_map[l].write_tasks # {} \/ l \in Throws
                           \/ e.script[l] # e.status_map[l].confirmed
    BY <1>4, <1>6
  <2> QED
    BY <1>6, <2>1, <2>2, EnqueueSafe
<1>5. ASSUME NEW f \in AddWrite(e, l, action)
      PROVE  \/ f \in ExecuteTriggerWrite(Remember(e, t), t, refused, NoData)
             \/ \E data \in Got(e, l) :
                  \/ data = s.confirmed /\ f \in ExecuteTriggerWrite(Remember(e, t), t, TRUE, data)
                  \/ /\ ~(s.write_tasks = {} /\ data = s.confirmed)
                     /\ f = Enqueue(e, l, "Write", action, l, data)
  BY <1>5, AddWriteIs, Zenon
<1> QED
  BY <1>2, <1>3, <1>4, <1>5, Zenon

-----------------------------------------------------------------------------
(* The logic library keeps an engine safe *)

LEMMA ChangedSafe ==
  ASSUME NEW e, NEW R, NEW c, NEW hot, Sound(e, R, c, hot, {}), NEW l,
         l \in Gamestate => l \in c.leaving /\ l \in hot
  PROVE  \A f \in Changed(e, l) : Sound(f, R, c, hot, {})
<1>1. \A x \in LogicContent : Safe([e EXCEPT !.script = [@ EXCEPT ![l] = x]], R, c, hot, {})
  BY ScriptSafe
<1>2. \A f \in Changed(e, l) : Good(f, R, {})
  BY ChangedOK DEF Sound
<1>3. \A f \in Changed(e, l) : Safe(f, R, c, hot, {})
  BY <1>1 DEF Changed, Sound
<1> QED
  BY <1>2, <1>3 DEF Sound

\* The logic makes no upcalls but on_flush_location and on_release_location.
Modest == Upcalls \subseteq {"Flush", "Release"}

LEMMA UpcallSafe ==
  ASSUME Modest, NEW e, NEW R, NEW c, NEW hot, Sound(e, R, c, hot, {}), ~c.late,
         NEW l \in Location
  PROVE  \A f \in Upcall(e, l) : Sound(f, R, c, hot, {})
<1>1. ASSUME l \in Loaded(e)
      PROVE  \A f \in AddWrite(e, l, "Write_FlushLocation") : Sound(f, R, c, hot, {})
  <2>1. "Write_FlushLocation" \in WriteAction
    BY DEF WriteAction
  <2>2. MayWrite(e, c, l, "Write_FlushLocation")
    BY <1>1 DEF Sound, Safe, RecordSafe, MayWrite
  <2> QED
    BY <1>1, <2>1, <2>2, AddWriteSafe
<1>2. Sound([e EXCEPT !.status_map[l].released = TRUE], R, c, hot, {})
  BY FlagsSafe DEF Sound
<1>3. "Destroy" \notin Upcalls /\ "Create" \notin Upcalls /\ "Ids" \notin Upcalls
  BY DEF Modest
<1>4. \A f \in Upcall(e, l) :
        \/ f = e
        \/ l \in Loaded(e) /\ f \in AddWrite(e, l, "Write_FlushLocation")
        \/ f = [e EXCEPT !.status_map[l].released = TRUE]
  BY <1>3 DEF Upcall
<1> QED
  BY <1>1, <1>2, <1>4

LEMMA HandlerSafe ==
  ASSUME Modest, NEW e, NEW R, NEW c, NEW hot, Sound(e, R, c, hot, {}), ~c.late,
         NEW l \in Location, l \in Gamestate => l \in c.leaving /\ l \in hot
  PROVE  \A f \in Handler(e, l) : Sound(f, R, c, hot, {})
<1>1. \A f : Sound(f, R, c, hot, {}) =>
        /\ \A g \in Changed(f, l) : Sound(g, R, c, hot, {})
        /\ \A g \in Upcall(f, l) : Sound(g, R, c, hot, {})
  BY ChangedSafe, UpcallSafe
<1> QED
  BY <1>1, Zenon DEF Handler

LEMMA CallbackSafe ==
  ASSUME Modest, NEW e, NEW R, NEW c, NEW hot, Sound(e, R, c, hot, {}), ~c.late,
         NEW l \in Location
  PROVE  \A f \in Callback(e, l) : Sound(f, R, c, hot, {})
BY HandlerSafe, UpcallSafe DEF Callback

\* What a handler of a gamestate leaves is dirty when it may have changed.
LEMMA DirtySafe ==
  ASSUME NEW e, NEW R, NEW c, NEW l, Sound(e, R, c, {l}, {}), NEW v,
         l \in Loaded(e) =>
           LET s == e.status_map[l] IN
           /\ v.write_tasks = s.write_tasks /\ v.confirmed = s.confirmed
           /\ (v.ready <=> s.ready),
         v.dirty
  PROVE  Safe([e EXCEPT !.status_map = [@ EXCEPT ![l] = v]], R, c, {}, {})
BY StatusSafe DEF Sound

\* An engine that keeps its locations.
Keeps(e, f, R, c) == Sound(f, R, c, {}, {}) /\ Loaded(f) = Loaded(e)

LEMMA UpcallHandles ==
  ASSUME NEW e, NEW l
  PROVE  Upcall(e, l) \subseteq Handler(e, l)
<1>1. \A f : f \in Changed(f, l)
  BY DEF Changed
<1> QED
  BY <1>1 DEF Handler

LEMMA CallbackKeeps ==
  ASSUME Modest, NEW e, NEW R, NEW c, Sound(e, R, c, {}, {}), ~c.late, NEW l \in Location
  PROVE  \A f \in Callback(e, l) : Keeps(e, f, R, c)
<1>1. \A f \in Callback(e, l) : f \in Handler(e, l)
  BY UpcallHandles DEF Callback
<1>2. \A f \in Handler(e, l) : Loaded(f) = Loaded(e)
  BY HandlerStays DEF Sound
<1> QED
  BY <1>1, <1>2, CallbackSafe DEF Keeps

LEMMA HandlerRuns ==
  ASSUME Modest, NEW e, NEW R, NEW c, Sound(e, R, c, {}, {}), ~c.late, NEW l \in Location,
         l \in Gamestate => l \in c.leaving
  PROVE  \A f \in Handler(e, l) :
           /\ Sound(f, R, c, {l}, {}) /\ Loaded(f) = Loaded(e)
           /\ l \notin Gamestate => Sound(f, R, c, {}, {})
<1>1. Sound(e, R, c, {l}, {})
  BY SafeStill DEF Sound
<1>2. \A f \in Handler(e, l) : Sound(f, R, c, {l}, {})
  BY <1>1, HandlerSafe
<1>3. \A f \in Handler(e, l) : Loaded(f) = Loaded(e)
  BY HandlerStays DEF Sound
<1>4. l \notin Gamestate => \A f \in Handler(e, l) : Sound(f, R, c, {}, {})
  BY HandlerSafe
<1> QED
  BY <1>2, <1>3, <1>4

LEMMA HandledKeeps ==
  ASSUME Modest, NEW e, NEW R, NEW c, Sound(e, R, c, {}, {}), ~c.late, NEW l \in Location,
         l \in Gamestate => l \in c.leaving
  PROVE  \A f \in Handled(e, l) : Keeps(e, f, R, c)
<1>1. ASSUME NEW d \in Handler(e, l), NEW failed \in BOOLEAN
      PROVE  Safe([d EXCEPT !.status_map[l] = Touched(@, failed)], R, c, {}, {})
  <2> DEFINE v == Touched(d.status_map[l], failed)
  <2>1. Sound(d, R, c, {l}, {})
    BY HandlerRuns
  <2>2. l \in Loaded(d) => d.status_map[l] \in StatusOf
    BY <2>1, EngineIs DEF Sound, Good, Loaded
  <2>3. l \in Loaded(d) =>
          LET s == d.status_map[l] IN
          /\ v.write_tasks = s.write_tasks /\ v.confirmed = s.confirmed
          /\ (v.ready <=> s.ready)
    BY <2>2 DEF Touched, StatusOf
  <2>4. v.dirty \/ l \notin Loaded(d)
    BY <2>2 DEF Touched, StatusOf
  <2>5. CASE l \in Loaded(d)
    <3> HIDE DEF v
    <3>1. Safe([d EXCEPT !.status_map = [@ EXCEPT ![l] = v]], R, c, {}, {})
      BY <2>1, <2>3, <2>4, <2>5, DirtySafe
    <3> QED
      BY <3>1 DEF v
  <2>6. CASE l \notin Loaded(d)
    <3>1. d \in Engine
      BY <2>1 DEF Sound, Good
    <3>2. [d EXCEPT !.status_map[l] = Touched(@, failed)] = d
      <4>1. [d.status_map EXCEPT ![l] = v] = d.status_map
        <5>1. d.status_map \in [Loaded(d) -> StatusOf]
          BY <3>1, EngineIs DEF Loaded
        <5> HIDE DEF v
        <5> QED
          BY <2>6, <5>1
      <4>2. [d EXCEPT !.status_map = d.status_map] = d
        BY <3>1 DEF Engine
      <4> QED
        BY <4>1, <4>2
    <3>3. \A k \in Loaded(d) : RecordSafe(d, c, {}, k)
      BY <2>1, <2>6 DEF Sound, Safe, RecordSafe
    <3>4. Safe(d, R, c, {}, {})
      BY <2>1, <3>3 DEF Sound, Safe
    <3> QED
      BY <3>2, <3>4
  <2> QED
    BY <2>5, <2>6
<1>2. MayFail \subseteq BOOLEAN
  BY DEF MayFail
<1>3. \A f \in Handled(e, l) : Good(f, R, {}) /\ Loaded(f) = Loaded(e)
  BY HandledOK DEF Sound
<1>4. \A f \in Handled(e, l) : Safe(f, R, c, {}, {})
  BY <1>1, <1>2 DEF Handled
<1> QED
  BY <1>3, <1>4 DEF Keeps, Sound

LEMMA ConnectedKeeps ==
  ASSUME Modest, NEW e, NEW R, NEW c, Sound(e, R, c, {}, {}), ~c.late, NEW l \in Loaded(e),
         l \in Gamestate => l \in c.leaving
  PROVE  \A f \in Connected(e, l) : Keeps(e, f, R, c)
<1>0. l \in Location
  BY EngineIs DEF Sound, Good, Loaded
<1>1. ASSUME NEW f \in Upcall(e, l)
      PROVE  Keeps(e, [f EXCEPT !.status_map[l].accessed = TRUE], R, c)
  <2>1. Sound(f, R, c, {}, {})
    BY <1>0, UpcallSafe
  <2>2. Loaded(f) = Loaded(e) /\ f \in Engine
    BY <1>0, <2>1, UpcallHandles, HandlerStays DEF Sound, Good
  <2>3. Sound([f EXCEPT !.status_map[l].accessed = TRUE], R, c, {}, {})
    BY <2>1, FlagsSafe DEF Sound
  <2> QED
    BY <2>2, <2>3 DEF Keeps, Loaded, Engine
<1>2. ASSUME NEW f \in Handler(e, l)
      PROVE  Keeps(e, [f EXCEPT !.status_map[l].accessed = TRUE, !.status_map[l].dirty = TRUE,
                                !.status_map[l].written = TRUE], R, c)
  <2> DEFINE v == [f.status_map[l] EXCEPT !.accessed = TRUE, !.dirty = TRUE, !.written = TRUE]
             g == [f EXCEPT !.status_map[l].accessed = TRUE, !.status_map[l].dirty = TRUE,
                            !.status_map[l].written = TRUE]
  <2>1. Sound(f, R, c, {l}, {}) /\ Loaded(f) = Loaded(e)
    BY <1>0, HandlerRuns
  <2>2. f.status_map[l] \in StatusOf /\ f \in Engine
    BY <2>1, EngineIs DEF Sound, Good, Loaded
  <2>3. LET s == f.status_map[l] IN
        /\ v.write_tasks = s.write_tasks /\ v.confirmed = s.confirmed
        /\ (v.ready <=> s.ready) /\ v.dirty
    BY <2>2 DEF StatusOf
  <2>4. g = [f EXCEPT !.status_map = [@ EXCEPT ![l] = v]]
    BY <2>2 DEF Engine
  <2>5. Good(g, R, {})
    BY <2>1, FlagsOK DEF Sound
  <2>6. Loaded(g) = Loaded(e)
    BY <2>1, <2>2 DEF Loaded, Engine
  <2> HIDE DEF v, g
  <2>7. Safe(g, R, c, {}, {})
    BY <2>1, <2>3, <2>4, DirtySafe
  <2>8. Keeps(e, g, R, c)
    BY <2>5, <2>6, <2>7 DEF Keeps, Sound
  <2> QED
    BY <2>8 DEF g
<1>3. l \notin Gamestate => \A f \in Handler(e, l) : Keeps(e, f, R, c)
  BY <1>0, HandlerRuns DEF Keeps
<1> QED
  BY <1>1, <1>2, <1>3, Zenon DEF Connected

LEMMA ProcessKeeps ==
  ASSUME Modest, NEW e, NEW R, NEW c, Sound(e, R, c, {}, {}), ~c.late, NEW l \in Location,
         NEW kind \in ReadAction \ {"ids"}, l \in Loaded(e) => l \in c.leaving
  PROVE  \A f \in Process(e, l, kind) : Keeps(e, f, R, c)
<1>1. Keeps(e, AddRead(e, l, kind), R, c)
  BY AddReadSafe DEF Keeps
<1>2. Keeps(e, e, R, c)
  BY DEF Keeps
<1>3. l \in Loaded(e) =>
        \A f \in Connected(e, l) \cup Callback(e, l) \cup Handled(e, l) : Keeps(e, f, R, c)
  BY ConnectedKeeps, CallbackKeeps, HandledKeeps
<1>4. ASSUME l \in Loaded(e), NEW f \in Handled(e, l),
             NEW g \in AddWrite(f, l, "Write_ProcessSystemMessage")
      PROVE  Keeps(e, g, R, c)
  <2>1. Sound(f, R, c, {}, {}) /\ Loaded(f) = Loaded(e)
    BY <1>4, HandledKeeps DEF Keeps
  <2>2. "Write_ProcessSystemMessage" \in WriteAction \ {"Write_WriteChangedGameState"}
    BY DEF WriteAction
  <2>3. MayWrite(f, c, l, "Write_ProcessSystemMessage")
    BY <1>4 DEF MayWrite
  <2>4. Sound(g, R, c, {}, {})
    BY <1>4, <2>1, <2>2, <2>3, AddWriteSafe
  <2>5. Loaded(g) = Loaded(f)
    BY <1>4, <2>1, <2>2, FlushStays DEF Sound, Good
  <2> QED
    BY <2>1, <2>4, <2>5 DEF Keeps
<1>5. ASSUME NEW f \in Process(e, l, kind)
      PROVE  \/ f = e
             \/ f = AddRead(e, l, kind)
             \/ l \in Loaded(e) /\ f \in Connected(e, l) \cup Callback(e, l) \cup Handled(e, l)
             \/ l \in Loaded(e)
                  /\ f \in UNION {AddWrite(d, l, "Write_ProcessSystemMessage") : d \in Handled(e, l)}
  BY <1>5 DEF Process
<1> QED
  BY <1>1, <1>2, <1>3, <1>4, <1>5

\* The answer of a read is executed.
LEMMA ReadExecuted ==
  ASSUME NEW e, NEW R, NEW c, NEW t \in e.triggers, Sound(e, R, c, {}, {t.taskid}),
         \A x \in e.tasks \cup R : x.taskid # t.taskid, t.action \in ReadAction
  PROVE  LET f == [e EXCEPT !.triggers = @ \ {t}]
         IN /\ Sound(f, R, c, {}, {})
            /\ f.status_map = e.status_map /\ f.script = e.script
<1> DEFINE f == [e EXCEPT !.triggers = @ \ {t}]
<1>1. /\ e \in Engine /\ Good(e, R, {t.taskid}) /\ Safe(e, R, c, {}, {t.taskid})
      /\ \A u, v \in e.triggers : u.taskid = v.taskid => u = v
  BY DEF Sound, Good
<1>2. /\ f.triggers = e.triggers \ {t} /\ f.tasks = e.tasks /\ f.status_map = e.status_map
      /\ f.script = e.script
  BY <1>1 DEF Engine
<1>3. Good(f, R, {})
  BY <1>1, ReadTriggerGone
<1> HIDE DEF f
<1>4. Known(f, R)
  <2>1. \A x \in e.tasks \cup R : HasTrigger(f, x)
    BY <1>1, <1>2 DEF Safe, Known, HasTrigger
  <2> QED
    BY <1>1, <1>2, <2>1 DEF Safe, Known
<1>5. ASSUME NEW u \in f.triggers, IsWrite(u)
      PROVE  Awaited(f, c, u)
  <2>1. u.taskid # t.taskid /\ u \in e.triggers
    BY <1>1, <1>2
  <2>2. Awaited(e, c, u)
    BY <1>1, <1>5, <2>1 DEF Safe
  <2> QED
    BY <1>2, <2>2 DEF Awaited, Loaded
<1>6. \A l \in Loaded(f) : RecordSafe(f, c, {}, l)
  BY <1>1, <1>2 DEF Safe, RecordSafe, Loaded
<1> QED
  BY <1>2, <1>3, <1>4, <1>5, <1>6 DEF Sound, Safe, f

\* What may be let go is what is loaded.
Leaving(c, S) == [past |-> c.past, fresh |-> c.fresh, leaving |-> S, late |-> c.late,
                  asked |-> c.asked]

\* f is e with location l loaded from the content data.
Puts(e, f, l, data) ==
  f = [e EXCEPT !.status_map = With(@, l, NewStatus(data)), !.script = With(@, l, data)]

LEMMA PutSafe ==
  ASSUME NEW e, NEW R, NEW c, Sound(e, R, c, {}, {}), NEW l \in Location, l \notin Loaded(e),
         NEW data \in LoadedContent, data \in c.fresh[l], c.leaving = Loaded(e),
         NEW f, Puts(e, f, l, data)
  PROVE  Sound(f, R, Leaving(c, Loaded(f)), {}, {}) /\ Loaded(f) = Loaded(e) \cup {l}
<1> DEFINE v == NewStatus(data)
           d == Leaving(c, Loaded(f))
<1>1. e \in Engine /\ Good(e, R, {}) /\ Safe(e, R, c, {}, {}) /\ DOMAIN e.script = Loaded(e)
  BY DEF Sound, Good, Loaded
<1>2. /\ f.triggers = e.triggers /\ f.tasks = e.tasks
      /\ f.status_map = With(e.status_map, l, v) /\ f.script = With(e.script, l, data)
  BY <1>1 DEF Engine, Puts
<1>3. Good(f, R, {})
  BY <1>1, PutOK DEF Puts
<1>4. v.write_tasks = {} /\ v.confirmed = data /\ ~v.ready
  BY DEF NewStatus
<1> HIDE DEF v
<1>5. /\ Loaded(f) = Loaded(e) \cup {l} /\ f.status_map[l] = v /\ f.script[l] = data
      /\ \A k \in Loaded(e) : f.status_map[k] = e.status_map[k] /\ f.script[k] = e.script[k]
  BY <1>1, <1>2 DEF Loaded, With
<1>6. d.past = c.past /\ d.fresh = c.fresh /\ d.leaving = Loaded(f) /\ d.asked = c.asked
  BY DEF Leaving
<1> HIDE DEF d
<1>7. Known(f, R)
  BY <1>1, <1>2 DEF Safe, Known, HasTrigger
<1>8. ASSUME NEW u \in f.triggers, IsWrite(u)
      PROVE  Awaited(f, d, u)
  <2>1. Awaited(e, c, u)
    BY <1>1, <1>2, <1>8 DEF Safe
  <2>2. u.location_ID \in c.past \/ (u.location_ID \in Loaded(e)
          /\ u.taskid \in e.status_map[u.location_ID].write_tasks)
    BY <2>1 DEF Awaited
  <2> QED
    BY <1>5, <1>6, <2>2 DEF Awaited
<1>9. ASSUME NEW k \in Loaded(f)
      PROVE  RecordSafe(f, d, {}, k)
  <2>1. CASE k = l
    BY <1>4, <1>5, <1>6, <2>1 DEF RecordSafe
  <2>2. CASE k # l
    <3>1. RecordSafe(e, c, {}, k) /\ k \in Loaded(e)
      BY <1>1, <1>5, <2>2 DEF Safe
    <3> QED
      BY <1>5, <1>6, <3>1 DEF RecordSafe
  <2> QED
    BY <2>1, <2>2
<1>10. Sound(f, R, d, {}, {})
  BY <1>1, <1>2, <1>3, <1>6, <1>7, <1>8, <1>9 DEF Sound, Safe
<1> QED
  BY <1>5, <1>10 DEF d

LEMMA ExecuteTriggerReadSafe ==
  ASSUME Modest, NEW e, NEW R, NEW c, NEW t \in e.triggers, Sound(e, R, c, {}, {t.taskid}),
         \A x \in e.tasks \cup R : x.taskid # t.taskid, t.action \in ReadAction,
         NEW data \in LoadedContent, ~c.late, c.leaving = Loaded(e),
         t.location_ID \notin Loaded(e) => data \in c.fresh[t.location_ID]
  PROVE  \A g \in ExecuteTriggerRead(e, t, TRUE, data) :
           Sound(g, R, Leaving(c, Loaded(g)), {}, {}) /\ Loaded(e) \subseteq Loaded(g)
<1> DEFINE l == t.location_ID
           f == [e EXCEPT !.triggers = @ \ {t}]
           put == [f EXCEPT !.status_map = With(@, l, NewStatus(data)), !.script = With(@, l, data)]
<1>1. l \in Location /\ t.action \in ReadAction \ {"ids"}
  BY EngineIs DEF Sound, Good, TriggerOf, Safe, Known
<1>2. Sound(f, R, c, {}, {}) /\ Loaded(f) = Loaded(e)
  BY ReadExecuted DEF Loaded
<1> HIDE DEF f
<1>3. Sound(f, R, Leaving(c, Loaded(f)), {}, {}) /\ ~Leaving(c, Loaded(f)).late
      /\ Leaving(c, Loaded(f)).leaving = Loaded(f)
  <2>1. Safe(f, R, Leaving(c, Loaded(f)), {}, {})
    <3> DEFINE d == Leaving(c, Loaded(f))
    <3>1. d.past = c.past /\ d.fresh = c.fresh /\ d.leaving = c.leaving /\ ~c.late
           /\ d.asked = c.asked
      BY <1>2 DEF Leaving
    <3> HIDE DEF d
    <3>2. Safe(f, R, d, {}, {})
      BY <1>2, <3>1, SafeStill DEF Sound
    <3> QED
      BY <3>2 DEF d
  <2> QED
    BY <1>2, <2>1 DEF Sound, Leaving
<1>4. l \notin Loaded(e) =>
        /\ Sound(put, R, Leaving(c, Loaded(put)), {}, {}) /\ Loaded(put) = Loaded(e) \cup {l}
        /\ ~Leaving(c, Loaded(put)).late /\ Leaving(c, Loaded(put)).leaving = Loaded(put)
  <2> SUFFICES ASSUME l \notin Loaded(e)
               PROVE  /\ Sound(put, R, Leaving(c, Loaded(put)), {}, {})
                      /\ Loaded(put) = Loaded(e) \cup {l}
    BY DEF Leaving
  <2> HIDE DEF l
  <2>1. data \in c.fresh[l]
    BY DEF l
  <2> QED
    <3>1. l \notin Loaded(f) /\ c.leaving = Loaded(f) /\ Sound(f, R, c, {}, {})
      BY <1>2
    <3>2. Puts(f, put, l, data)
      BY DEF Puts
    <3> HIDE DEF put
    <3>3. /\ Sound(put, R, Leaving(c, Loaded(put)), {}, {})
          /\ Loaded(put) = Loaded(f) \cup {l}
      BY <1>1, <2>1, <3>1, <3>2, PutSafe
    <3> QED
      BY <1>2, <3>3, Zenon
<1> HIDE DEF put, l
<1>5. ASSUME NEW h, Sound(h, R, Leaving(c, Loaded(h)), {}, {}), ~Leaving(c, Loaded(h)).late,
             Leaving(c, Loaded(h)).leaving = Loaded(h)
      PROVE  \A g \in Callback(h, l) \cup Process(h, l, t.action) :
               Sound(g, R, Leaving(c, Loaded(g)), {}, {}) /\ Loaded(g) = Loaded(h)
  <2> DEFINE d == Leaving(c, Loaded(h))
  <2>1. Sound(h, R, d, {}, {}) /\ ~d.late /\ (l \in Loaded(h) => l \in d.leaving)
    BY <1>5
  <2> HIDE DEF d
  <2>2. \A g \in Callback(h, l) \cup Process(h, l, t.action) : Keeps(h, g, R, d)
    BY <1>1, <2>1, CallbackKeeps, ProcessKeeps
  <2> QED
    BY <2>2 DEF Keeps, d
<1> SUFFICES ASSUME NEW g \in ExecuteTriggerRead(e, t, TRUE, data)
             PROVE  Sound(g, R, Leaving(c, Loaded(g)), {}, {}) /\ Loaded(e) \subseteq Loaded(g)
  OBVIOUS
<1>6. \/ g = f \/ g \in Callback(f, l) \cup Process(f, l, t.action)
      \/ l \notin Loaded(e) /\ g = put
      \/ l \notin Loaded(e) /\ g \in Callback(put, l) \cup Process(put, l, t.action)
  BY Zenon DEF ExecuteTriggerRead, f, put, l
<1> QED
  BY <1>2, <1>3, <1>4, <1>5, <1>6

-----------------------------------------------------------------------------
(* The jobs keep an engine safe *)

\* A gamestate that is clean waits for no write, or may be let go.
LEMMA CleanMayGo ==
  ASSUME NEW e, NEW R, NEW c, Sound(e, R, c, {}, {}), NEW l \in Loaded(e) \cap Gamestate,
         ~e.status_map[l].dirty
  PROVE  l \in c.leaving \/ e.status_map[l].write_tasks = {}
BY DEF Sound, Safe, RecordSafe

LEMMA WriteChangedSafe ==
  ASSUME NEW e, NEW R, NEW c, Sound(e, R, c, {}, {}), ~c.late, NEW l \in Loaded(e)
  PROVE  \A f \in WriteChanged(e, l) : Sound(f, R, c, {}, {})
<1>1. "Write_WriteChangedGameState" \in WriteAction
  BY DEF WriteAction
<1>2. MayWrite(e, c, l, "Write_WriteChangedGameState")
  BY DEF Sound, Safe, RecordSafe, MayWrite
<1>3. \A f \in AddWrite(e, l, "Write_WriteChangedGameState") : Sound(f, R, c, {}, {})
  BY <1>1, <1>2, AddWriteSafe
<1> QED
  BY <1>3 DEF WriteChanged

LEMMA EraseOldSafe ==
  ASSUME NEW e, NEW R, NEW c, Sound(e, R, c, {}, {}), ~c.late, NEW l \in Loaded(e),
         NEW force \in BOOLEAN
  PROVE  \A f \in EraseOld(e, l, force) : Sound(f, R, c, {}, {})
<1> DEFINE s == e.status_map[l]
<1>1. "Write_EraseOldGameState" \in WriteAction
  BY DEF WriteAction
<1>2. MayWrite(e, c, l, "Write_EraseOldGameState")
  BY DEF Sound, Safe, RecordSafe, MayWrite
<1>3. \A f \in AddWrite(e, l, "Write_EraseOldGameState") : Sound(f, R, c, {}, {})
  BY <1>1, <1>2, AddWriteSafe
<1>4. ASSUME NEW f \in EraseOld(e, l, force)
      PROVE  \/ f = e \/ f \in AddWrite(e, l, "Write_EraseOldGameState")
             \/ f = LetGo(e, l) /\ (s.write_tasks = {} \/ (l \in Gamestate /\ ~s.dirty))
  <2>1. CASE l \in Gamestate
    BY <1>4, <2>1 DEF EraseOld, Kept
  <2>2. CASE l \notin Gamestate
    BY <1>4, <2>2 DEF EraseOld, Kept
  <2> QED
    BY <2>1, <2>2
<1>5. (s.write_tasks = {} \/ (l \in Gamestate /\ ~s.dirty)) => Sound(LetGo(e, l), R, c, {}, {})
  <2> SUFFICES ASSUME s.write_tasks = {} \/ (l \in Gamestate /\ ~s.dirty)
               PROVE  Sound(LetGo(e, l), R, c, {}, {})
    OBVIOUS
  <2>1. l \in c.leaving \/ e.status_map[l].write_tasks = {}
    BY CleanMayGo
  <2> QED
    BY <2>1, LetGoSafe
<1> QED
  BY <1>3, <1>4, <1>5

LEMMA ShutdownLocationSafe ==
  ASSUME NEW e, NEW R, NEW c, Sound(e, R, c, {}, {}), c.late, ~deadline_over, NEW l \in Loaded(e)
  PROVE  \A f \in ShutdownLocation(e, l) : Sound(f, R, c, {}, {})
<1> DEFINE s == e.status_map[l]
<1>1. "Write_GroupShutdown" \in WriteAction
  BY DEF WriteAction
<1>2. ~s.ready /\ s.write_tasks = {} =>
        \A f \in AddWrite(e, l, "Write_GroupShutdown") : Sound(f, R, c, {}, {})
  <2> SUFFICES ASSUME ~s.ready /\ s.write_tasks = {}
               PROVE  \A f \in AddWrite(e, l, "Write_GroupShutdown") : Sound(f, R, c, {}, {})
    OBVIOUS
  <2>1. MayWrite(e, c, l, "Write_GroupShutdown")
    BY DEF MayWrite
  <2> QED
    BY <1>1, <2>1, AddWriteSafe
<1>3. s.ready \/ (l \in Gamestate /\ ~s.dirty) => Sound(LetGo(e, l), R, c, {}, {})
  <2> SUFFICES ASSUME s.ready \/ (l \in Gamestate /\ ~s.dirty)
               PROVE  Sound(LetGo(e, l), R, c, {}, {})
    OBVIOUS
  <2>1. s.ready => l \in c.leaving \/ e.status_map[l].write_tasks = {}
    BY DEF Sound, Safe, RecordSafe
  <2>2. l \in c.leaving \/ e.status_map[l].write_tasks = {}
    BY <2>1, CleanMayGo
  <2> QED
    BY <2>2, LetGoSafe
<1>4. ASSUME NEW f \in ShutdownLocation(e, l)
      PROVE  \/ f = e
             \/ ~s.ready /\ s.write_tasks = {} /\ f \in AddWrite(e, l, "Write_GroupShutdown")
             \/ f = LetGo(e, l) /\ (s.ready \/ (l \in Gamestate /\ ~s.dirty))
  BY <1>4 DEF ShutdownLocation, MayClose
<1> QED
  BY <1>2, <1>3, <1>4

LEMMA AtLocationSafe ==
  ASSUME Modest, ~deadline_over, NEW e, NEW R, NEW c, Sound(e, R, c, {}, {}),
         NEW l \in Loaded(e), NEW job \in Job, c.late <=> job = "shutdown"
  PROVE  \A f \in AtLocation(job, e, l) : Sound(f, R, c, {}, {})
<1>1. l \in Location
  BY EngineIs DEF Sound, Good, Loaded
<1>2. CASE job = "write_changed"
  <2>1. AtLocation(job, e, l) = WriteChanged(e, l)
    BY <1>2 DEF AtLocation
  <2> QED
    BY <1>2, <2>1, WriteChangedSafe
<1>3. CASE job = "erase_old"
  <2>1. AtLocation(job, e, l) = EraseOld(e, l, FALSE)
    BY <1>3 DEF AtLocation
  <2> QED
    BY <1>3, <2>1, EraseOldSafe
<1>4. CASE job = "release_gently"
  <2>1. AtLocation(job, e, l) = EraseOld(e, l, TRUE)
    BY <1>4 DEF AtLocation
  <2> QED
    BY <1>4, <2>1, EraseOldSafe
<1>5. CASE job = "initiate_close"
  <2>1. AtLocation(job, e, l) = Callback(e, l)
    BY <1>5 DEF AtLocation
  <2> QED
    BY <1>1, <1>5, <2>1, CallbackSafe
<1>6. CASE job = "shutdown"
  <2>1. AtLocation(job, e, l) = ShutdownLocation(e, l)
    BY <1>6 DEF AtLocation
  <2> QED
    BY <1>6, <2>1, ShutdownLocationSafe
<1> QED
  BY <1>2, <1>3, <1>4, <1>5, <1>6 DEF Job

LEMMA EachLocationSafe ==
  ASSUME Modest, ~deadline_over, NEW e, NEW R, NEW c, Sound(e, R, c, {}, {}),
         NEW job \in Job, c.late <=> job = "shutdown"
  PROVE  \A f \in EachLocation(job, e) : Sound(f, R, c, {}, {})
<1> DEFINE G == {f \in Engine : Sound(f, R, c, {}, {})}
<1>1. e \in G
  BY DEF Sound, Good
<1>2. \A f \in G : \A l \in Loaded(f) : AtLocation(job, f, l) \subseteq G
  <2> SUFFICES ASSUME NEW f, Sound(f, R, c, {}, {}), NEW l \in Loaded(f),
                      NEW g \in AtLocation(job, f, l)
               PROVE  Sound(g, R, c, {}, {})
    BY DEF Sound, Good
  <2> QED
    BY AtLocationSafe
<1>3. EachLocation(job, e) \subseteq G
  <2> HIDE DEF G
  <2> QED
    BY <1>1, <1>2, EachLocationStays
<1> QED
  BY <1>3

\* Locations may be found ready in this step.
Late(c) == [past |-> c.past, fresh |-> c.fresh, leaving |-> c.leaving, late |-> TRUE,
            asked |-> c.asked]

LEMMA LateSafe ==
  ASSUME NEW e, NEW R, NEW c, Sound(e, R, c, {}, {})
  PROVE  Sound(e, R, Late(c), {}, {})
<1> DEFINE d == Late(c)
<1>1. d.past = c.past /\ d.fresh = c.fresh /\ d.leaving = c.leaving /\ d.late
      /\ d.asked = c.asked
  BY DEF Late
<1> HIDE DEF d
<1>2. Safe(e, R, d, {}, {})
  BY <1>1, SafeStill DEF Sound
<1> QED
  BY <1>2 DEF Sound, d

\* The status and the closing of the group change, nothing else.
Settles(e, f) ==
  /\ f.triggers = e.triggers /\ f.tasks = e.tasks /\ f.status_map = e.status_map
  /\ f.script = e.script

LEMMA SettlesSafe ==
  ASSUME NEW e, NEW f, NEW R, NEW c, Sound(e, R, c, {}, {}), Settles(e, f), Good(f, R, {})
  PROVE  Sound(f, R, c, {}, {})
BY OthersSafe DEF Settles, Sound

LEMMA Settling ==
  ASSUME NEW e \in Engine
  PROVE  /\ \A s : Settles(e, [e EXCEPT !.status = s])
         /\ \A b : Settles(e, [e EXCEPT !.initiated = b]) /\ Settles(e, [e EXCEPT !.transferring = b])
         /\ \A A : Settles(e, [e EXCEPT !.assigned = A])
         /\ \A s, A : Settles(e, [e EXCEPT !.status = s, !.assigned = A])
BY DEF Engine, Settles

LEMMA InitiateSafe ==
  ASSUME Modest, ~deadline_over, NEW e, NEW R, NEW c, Sound(e, R, c, {}, {}), ~c.late
  PROVE  \A f \in InitiateGentleClose(e) : Sound(f, R, c, {}, {})
<1> DEFINE d == [e EXCEPT !.initiated = TRUE]
<1>1. e \in Engine /\ Good(e, R, {})
  BY DEF Sound, Good
<1>2. Settles(e, d) /\ Good(d, R, {})
  BY <1>1, Settling, ClosingOK
<1> HIDE DEF d
<1>3. Sound(d, R, c, {}, {})
  BY <1>2, SettlesSafe
<1>4. \A f \in EachLocation("initiate_close", d) : Sound(f, R, c, {}, {})
  <2>1. "initiate_close" \in Job /\ ~("initiate_close" = "shutdown")
    BY DEF Job
  <2> QED
    BY <1>3, <2>1, EachLocationSafe
<1> QED
  BY <1>4 DEF InitiateGentleClose, d

LEMMA ShutdownSafe ==
  ASSUME Modest, ~deadline_over, NEW e, NEW R, NEW c, Sound(e, R, c, {}, {}), ~c.late
  PROVE  \A f \in Shutdown(e) : Sound(f, R, Late(c), {}, {})
<1>1. ASSUME NEW f \in InitiateGentleClose(e)
      PROVE  \A g \in EachLocation("shutdown", f) : Sound(g, R, Late(c), {}, {})
  <2> DEFINE d == Late(c)
  <2>1. Sound(f, R, d, {}, {})
    BY InitiateSafe, LateSafe
  <2>2. d.late /\ "shutdown" \in Job
    BY DEF Late, Job
  <2> HIDE DEF d
  <2>3. \A g \in EachLocation("shutdown", f) : Sound(g, R, d, {}, {})
    BY <2>1, <2>2, EachLocationSafe
  <2> QED
    BY <2>3 DEF d
<1> QED
  BY <1>1 DEF Shutdown

LEMMA SaveAndEraseSafe ==
  ASSUME Modest, ~deadline_over, NEW e, NEW R, NEW c, Sound(e, R, c, {}, {}), ~c.late
  PROVE  \A f \in SaveAndErase(e) : Sound(f, R, c, {}, {})
<1>1. /\ {"write_changed", "erase_old"} \subseteq Job
      /\ "write_changed" # "shutdown" /\ "erase_old" # "shutdown"
  BY DEF Job
<1>2. \A f \in EachLocation("write_changed", e) : Sound(f, R, c, {}, {})
  BY <1>1, EachLocationSafe
<1>3. \A f \in EachLocation("write_changed", e) :
        \A g \in EachLocation("erase_old", f) : Sound(g, R, c, {}, {})
  BY <1>1, <1>2, EachLocationSafe
<1> QED
  BY <1>3 DEF SaveAndErase

LEMMA ReleaseGentlySafe ==
  ASSUME Modest, ~deadline_over, NEW e, NEW R, NEW c, Sound(e, R, c, {}, {}), ~c.late
  PROVE  \A f \in ReleaseGently(e) : Sound(f, R, c, {}, {})
<1> DEFINE d == IF e.status \in {"Initializing", "Ready"}
                THEN [e EXCEPT !.status = "Releasing_Gently"] ELSE e
<1>1. e \in Engine /\ Good(e, R, {})
  BY DEF Sound, Good
<1>2. Sound(d, R, c, {}, {})
  <2> DEFINE f == [e EXCEPT !.status = "Releasing_Gently"]
  <2>1. Settles(e, f) /\ Good(f, R, {})
    BY <1>1, Settling, StatusSet DEF GroupStatus
  <2> HIDE DEF f
  <2>2. Sound(f, R, c, {}, {})
    BY <2>1, SettlesSafe
  <2> QED
    BY <2>2 DEF f
<1>3. \A f \in ReleaseGently(e) : f = d \/ f \in EachLocation("release_gently", d)
  BY DEF ReleaseGently
<1> HIDE DEF d
<1>4. \A f \in EachLocation("release_gently", d) : Sound(f, R, c, {}, {})
  <2>1. "release_gently" \in Job /\ ~("release_gently" = "shutdown")
    BY DEF Job
  <2> QED
    BY <1>2, <2>1, EachLocationSafe
<1> QED
  BY <1>2, <1>3, <1>4

LEMMA TransferSafe ==
  ASSUME Modest, ~deadline_over, NEW e, NEW R, NEW c, Sound(e, R, c, {}, {}), ~c.late, NEW waited
  PROVE  \A f \in Transfer(e, waited) : Sound(f, R, Late(c), {}, {})
<1> DEFINE d == IF e.status = "Releasing_Gently" /\ waited
                THEN [e EXCEPT !.status = "Transferring"] ELSE e
           after(g) == [g EXCEPT !.transferring = @ \/ Loaded(g) = {}]
           stop(g) == [g EXCEPT !.status = "Stopped", !.assigned = {}]
<1>1. e \in Engine /\ Good(e, R, {})
  BY DEF Sound, Good
<1>2. Sound(d, R, c, {}, {})
  <2> DEFINE f == [e EXCEPT !.status = "Transferring"]
  <2>1. Settles(e, f) /\ Good(f, R, {})
    BY <1>1, Settling, StatusSet DEF GroupStatus
  <2> HIDE DEF f
  <2>2. Sound(f, R, c, {}, {})
    BY <2>1, SettlesSafe
  <2> QED
    BY <2>2 DEF f
<1>3. \A f \in Transfer(e, waited) :
        f = d \/ \E g \in Shutdown(d) : f = after(g) \/ f = stop(after(g))
  <2> HIDE DEF d, after, stop
  <2> QED
    BY DEF Transfer, d, after, stop
<1> HIDE DEF d
<1>4. ASSUME NEW g \in Shutdown(d)
      PROVE  Settles(g, after(g)) /\ Settles(g, stop(after(g)))
  <2>1. g \in Engine
    BY <1>2, ShutdownOK DEF Sound, Good
  <2> QED
    BY <2>1 DEF Settles, Engine
<1>5. \A f \in Transfer(e, waited) : Good(f, R, {})
  BY <1>1, TransferOK
<1>6. \A g \in Shutdown(d) : Sound(g, R, Late(c), {}, {})
  BY <1>2, ShutdownSafe
<1>7. Sound(d, R, Late(c), {}, {})
  BY <1>2, LateSafe
<1> HIDE DEF after, stop
<1>8. ASSUME NEW f \in Transfer(e, waited), NEW g \in Shutdown(d), f = after(g) \/ f = stop(after(g))
      PROVE  Sound(f, R, Late(c), {}, {})
  <2>1. Settles(g, f) /\ Good(f, R, {}) /\ Sound(g, R, Late(c), {}, {})
    BY <1>4, <1>5, <1>6, <1>8
  <2> QED
    BY <2>1, SettlesSafe
<1> QED
  BY <1>3, <1>7, <1>8

LEMMA ReanimatedSafe ==
  ASSUME NEW e, NEW R, NEW c, Sound(e, R, c, {}, {})
  PROVE  \A f \in Reanimated(e) : Sound(f, R, c, {}, {})
<1>1. \A f \in Reanimated(e) : Good(f, R, {})
  BY ReanimatedOK DEF Sound
<1>2. \A f \in Reanimated(e) : Settles(e, f)
  <2>1. Settles(e, e) /\ Settles(e, [e EXCEPT !.status = "Initializing"])
    BY Settling DEF Sound, Good, Settles
  <2> QED
    BY <2>1 DEF Reanimated
<1> QED
  BY <1>1, <1>2, SettlesSafe

-----------------------------------------------------------------------------
(* The steps of the group keep what is saved *)

\* The conditions of the theorems about contents: reads succeed, heartbeats are
\* confirmed in time, no reply is lost, and the library neither creates nor
\* destroys a location nor asks for ids.
Calm == Modest /\ Healthy /\ ~LostReply

StepsNow == Steps(Loaded(Here), FALSE)
SafeHere == Safe(Here, Pending, StepsNow, {}, {})
\* The invariant of what the engine takes for saved, with EngineInv.
Saved == EngineInv /\ SavedInv

LEMMA StepsAre ==
  ASSUME NEW S, NEW b
  PROVE  /\ Steps(S, b).past = left_behind /\ Steps(S, b).fresh = FreshContents
         /\ Steps(S, b).leaving = S /\ (Steps(S, b).late <=> b) /\ Steps(S, b).asked = waiting
BY DEF Steps

LEMMA SoundHere ==
  ASSUME Saved
  PROVE  Sound(Here, Pending, StepsNow, {}, {})
BY DEF Saved, SavedInv, EngineInv, Sound, StepsNow

\* Location l is found ready, or is a gamestate with a content that is not
\* confirmed or that the library may fail to give.
MayLeave(l) ==
  \/ status_map[l].ready
  \/ l \in Gamestate /\ (l \in Throws \/ script[l] # status_map[l].confirmed)
Leavers == {l \in Loaded(Here) : MayLeave(l)}

\* A job may leave behind a write of such a location, and of no other.
LEMMA JobStarts ==
  ASSUME Saved
  PROVE  Sound(Here, Pending, Steps(Leavers, FALSE), {}, {})
<1> DEFINE c == StepsNow
           d == Steps(Leavers, FALSE)
<1>1. /\ d.past = c.past /\ d.fresh = c.fresh /\ c.leaving = Loaded(Here) /\ d.leaving = Leavers
      /\ ~c.late /\ d.asked = c.asked
  BY StepsAre DEF StepsNow
<1>2. Sound(Here, Pending, c, {}, {})
  BY SoundHere
<1> HIDE DEF c, d
<1>3. ASSUME NEW t \in Here.triggers, IsWrite(t)
      PROVE  Awaited(Here, d, t)
  BY <1>1, <1>2, <1>3 DEF Sound, Safe, Awaited
<1>4. ASSUME NEW l \in Loaded(Here)
      PROVE  RecordSafe(Here, d, {}, l)
  <2>1. RecordSafe(Here, c, {}, l)
    BY <1>2 DEF Sound, Safe
  <2>2. MayLeave(l) => l \in d.leaving
    BY <1>1 DEF Leavers
  <2> QED
    BY <1>1, <2>1, <2>2, HereIs DEF RecordSafe, MayLeave
<1>5. Safe(Here, Pending, d, {}, {})
  BY <1>1, <1>2, <1>3, <1>4 DEF Sound, Safe
<1> QED
  BY <1>2, <1>5 DEF Sound, d

\* The group leaves engine e behind, whose contents are fresh after the step.
LEMMA StepEnds ==
  ASSUME Saved, NEW e, NEW c, Sound(e, Pending', c, {}, {}), Become(e),
         c.past = left_behind, c.leaving \subseteq Loaded(Here) \cup Loaded(e),
         c.asked = waiting,
         \A l \in Location : c.fresh[l] \subseteq (FreshContents')[l]
  PROVE  SafeHere' /\ waiting \subseteq waiting' /\ left_behind \subseteq left_behind'
<1> DEFINE d == StepsNow'
<1>1. Here' = e /\ left_behind' = left_behind \cup LeftBy(e) /\ waiting' = e.tasks
  BY Becomes DEF Sound, Good, Become
<1>2. /\ d.past = left_behind' /\ d.fresh = FreshContents' /\ d.leaving = Loaded(e)
      /\ ~d.late /\ d.asked = waiting'
  BY <1>1, StepsAre DEF StepsNow, Steps
<1> HIDE DEF d
<1>3. Loaded(e) \subseteq Location
  BY EngineIs DEF Sound, Good, Loaded
<1>4. ASSUME NEW t \in e.triggers, IsWrite(t)
      PROVE  Awaited(e, d, t)
  <2>1. Awaited(e, c, t)
    BY <1>4 DEF Sound, Safe
  <2>2. t.location_ID \in c.leaving \ Loaded(e) => t.location_ID \in LeftBy(e)
    BY <1>4 DEF LeftBy, IsWrite
  <2> QED
    BY <1>1, <1>2, <2>1, <2>2 DEF Awaited
<1>5. ASSUME NEW l \in Loaded(e)
      PROVE  RecordSafe(e, d, {}, l)
  <2>1. RecordSafe(e, c, {}, l)
    BY DEF Sound, Safe
  <2> QED
    BY <1>2, <1>3, <2>1 DEF RecordSafe
<1>6. Safe(e, Pending', d, {}, {})
  BY <1>1, <1>2, <1>4, <1>5 DEF Sound, Safe
<1>7. waiting \subseteq waiting'
  BY <1>1 DEF Sound, Safe
<1> QED
  BY <1>1, <1>6, <1>7 DEF SafeHere, d

\* Only locations that may be left are left behind.
LEMMA OnlyLeavers ==
  ASSUME NEW e, NEW R, NEW c, Sound(e, R, c, {}, {}), Become(e), c.past = left_behind,
         c.leaving \subseteq Leavers \cup Loaded(e)
  PROVE  \A l \in left_behind' \ left_behind : MayLeave(l)
<1> SUFFICES ASSUME NEW l \in LeftBy(e), l \notin left_behind
             PROVE  MayLeave(l)
  BY DEF Become
<1>1. PICK t \in e.triggers : t.location_ID = l /\ IsWrite(t)
  BY DEF LeftBy, IsWrite
<1>2. Awaited(e, c, t)
  BY <1>1 DEF Sound, Safe
<1> QED
  BY <1>1, <1>2 DEF Awaited, LeftBy, Leavers

\* An environment that stays, but for what is left behind.
LEMMA FreshStays ==
  ASSUME left_behind \subseteq left_behind',
         UNCHANGED <<operation, answers, rows, inbox, before>>
  PROVE  /\ Pending' = Pending
         /\ \A l \in Location : FreshContents[l] \subseteq (FreshContents')[l]
<1>1. Pending' = Pending
  BY DEF Pending
<1>2. ASSUME NEW l \in Location, NEW data, Fresh(l, data)
      PROVE  Fresh(l, data)'
  BY <1>1, <1>2 DEF Fresh, BeingWritten
<1> QED
  BY <1>1, <1>2 DEF FreshContents

\* What is around the engine stays true when only the engine works.
LEMMA AroundStays ==
  ASSUME Saved, waiting \subseteq waiting', left_behind \subseteq left_behind',
         UNCHANGED <<operation, answers, rows, inbox, before>>, inbox = {}
  PROVE  /\ OperationsTrue' /\ ResultsOrdered' /\ ReadsTrue'
         /\ \A r \in Pending' : IsReadTask(r) => r.ok
<1>1. Pending' = Pending
  BY DEF Pending
<1>2. OperationsTrue'
  BY DEF Saved, SavedInv, OperationsTrue
<1>3. ResultsOrdered'
  BY <1>1 DEF Saved, SavedInv, ResultsOrdered
<1>4. ReadsTrue'
  BY <1>1 DEF Saved, SavedInv, ReadsTrue
<1> QED
  BY <1>1, <1>2, <1>3, <1>4 DEF Saved, SavedInv

LEMMA SavesWorking ==
  ASSUME Saved, NEW e, NEW c, Sound(e, Pending, c, {}, {}), Become(e), c.past = left_behind,
         c.leaving \subseteq Loaded(Here) \cup Loaded(e), c.asked = waiting,
         c.fresh = FreshContents, inbox = {}, ~deadline_over',
         UNCHANGED <<operation, answers, rows, inbox, before>>
  PROVE  SavedInv'
<1>1. left_behind \subseteq left_behind'
  BY DEF Become
<1>2. /\ Pending' = Pending
      /\ \A l \in Location : FreshContents[l] \subseteq (FreshContents')[l]
  BY <1>1, FreshStays
<1>3. Sound(e, Pending', c, {}, {})
  BY <1>2
<1>4. SafeHere' /\ waiting \subseteq waiting'
  BY <1>2, <1>3, StepEnds
<1>5. /\ OperationsTrue' /\ ResultsOrdered' /\ ReadsTrue'
      /\ \A r \in Pending' : IsReadTask(r) => r.ok
  BY <1>1, <1>4, AroundStays
<1> QED
  BY <1>4, <1>5 DEF SavedInv, SafeHere, StepsNow

\* A step that keeps its locations leaves nothing behind.
LEMMA KeepsSaved ==
  ASSUME Saved, NEW e, Keeps(Here, e, Pending, StepsNow), Become(e), inbox = {}, ~deadline_over',
         UNCHANGED <<operation, answers, rows, inbox, before>>
  PROVE  SavedInv' /\ left_behind' = left_behind
<1> DEFINE c == StepsNow
<1>1. /\ c.past = left_behind /\ c.leaving = Loaded(Here) /\ c.asked = waiting
      /\ c.fresh = FreshContents
  BY StepsAre DEF StepsNow
<1>2. Sound(e, Pending, c, {}, {}) /\ Loaded(e) = Loaded(Here)
  BY DEF Keeps
<1> HIDE DEF c
<1>3. SavedInv'
  BY <1>1, <1>2, SavesWorking
<1>4. left_behind' = left_behind
  BY <1>2 DEF Become, LeftBy
<1> QED
  BY <1>3, <1>4

\* A job leaves behind only what may be left.
LEMMA JobSaves ==
  ASSUME Saved, NEW e, NEW c \in {Steps(Leavers, FALSE), Late(Steps(Leavers, FALSE))},
         Sound(e, Pending, c, {}, {}), Become(e), inbox = {}, ~deadline_over',
         UNCHANGED <<operation, answers, rows, inbox, before>>
  PROVE  SavedInv' /\ \A l \in left_behind' \ left_behind : MayLeave(l)
<1>1. /\ c.past = left_behind /\ c.leaving = Leavers /\ c.asked = waiting
      /\ c.fresh = FreshContents
  <2> DEFINE d == Steps(Leavers, FALSE)
  <2>1. /\ d.past = left_behind /\ d.leaving = Leavers /\ d.asked = waiting
        /\ d.fresh = FreshContents
    BY StepsAre
  <2>2. c = d \/ c = Late(d)
    OBVIOUS
  <2> HIDE DEF d
  <2> QED
    BY <2>1, <2>2 DEF Late
<1>2. Leavers \subseteq Loaded(Here) /\ c.leaving \subseteq Loaded(Here) \cup Loaded(e)
  BY <1>1 DEF Leavers
<1>3. SavedInv'
  BY <1>1, <1>2, SavesWorking
<1>4. \A l \in left_behind' \ left_behind : MayLeave(l)
  BY <1>1, OnlyLeavers
<1> QED
  BY <1>3, <1>4

LEMMA IntervalSecondSaved ==
  ASSUME Calm, Saved, NEW lost, NEW waited, IntervalSecond(lost, waited)
  PROVE  SavedInv' /\ \A l \in left_behind' \ left_behind : MayLeave(l)
<1> DEFINE c == Steps(Leavers, FALSE)
<1>1. PICK e \in SaveAndErase(Here) :
        \E f \in IF closing THEN UNION {Transfer(g, waited) : g \in ReleaseGently(e)}
                            ELSE Reanimated(e) : Become(f)
  BY DEF IntervalSecond, Calm
<1>2. /\ inbox = {} /\ ~deadline_over /\ ~deadline_over'
      /\ UNCHANGED <<operation, answers, rows, inbox, before>>
  BY DEF IntervalSecond, Saved, SavedInv
<1>3. Sound(Here, Pending, c, {}, {}) /\ ~c.late
  BY JobStarts, StepsAre
<1> HIDE DEF c
<1>4. Sound(e, Pending, c, {}, {})
  BY <1>2, <1>3, SaveAndEraseSafe DEF Calm
<1>5. \A f \in Reanimated(e) : Sound(f, Pending, c, {}, {})
  BY <1>4, ReanimatedSafe
<1>6. \A g \in ReleaseGently(e) : \A f \in Transfer(g, waited) : Sound(f, Pending, Late(c), {}, {})
  <2>1. \A g \in ReleaseGently(e) : Sound(g, Pending, c, {}, {})
    BY <1>2, <1>3, <1>4, ReleaseGentlySafe DEF Calm
  <2> QED
    BY <1>2, <1>3, <2>1, TransferSafe DEF Calm
<1>7. PICK f : Become(f) /\ (Sound(f, Pending, c, {}, {}) \/ Sound(f, Pending, Late(c), {}, {}))
  BY <1>1, <1>5, <1>6
<1> QED
  BY <1>2, <1>7, JobSaves DEF c

LEMMA WaitForLocationsFlushSaved ==
  ASSUME Calm, Saved, WaitForLocationsFlush
  PROVE  SavedInv' /\ \A l \in left_behind' \ left_behind : MayLeave(l)
<1> DEFINE c == Steps(Leavers, FALSE)
           f == [Here EXCEPT !.script = <<>>, !.status = "Stopped",
                             !.assigned = {}, !.initiated = FALSE]
<1>1. /\ inbox = {} /\ ~deadline_over /\ ~deadline_over'
      /\ UNCHANGED <<operation, answers, rows, inbox, before>>
  BY DEF WaitForLocationsFlush, Saved, SavedInv
<1>2. Sound(Here, Pending, c, {}, {}) /\ ~c.late
  BY JobStarts, StepsAre
<1>3. c \in {Steps(Leavers, FALSE), Late(Steps(Leavers, FALSE))}
      /\ Late(c) \in {Steps(Leavers, FALSE), Late(Steps(Leavers, FALSE))}
  OBVIOUS
<1>4. CASE \E e \in Shutdown(Here) : Become(e)
  <2>1. PICK e \in Shutdown(Here) : Become(e)
    BY <1>4
  <2> HIDE DEF c
  <2>2. Sound(e, Pending, Late(c), {}, {})
    BY <1>1, <1>2, <2>1, ShutdownSafe DEF Calm
  <2> QED
    BY <1>1, <1>3, <2>1, <2>2, JobSaves
<1>5. CASE Loaded(Here) = {} /\ Become(f)
  <2>1. Here \in Engine
    BY DEF Saved, EngineInv, Good
  <2>2. /\ f.status_map = Here.status_map /\ f.triggers = Here.triggers /\ f.tasks = Here.tasks
        /\ f.script = <<>> /\ f.assigned = {} /\ f.seq = Here.seq
    BY <2>1 DEF Engine
  <2>3. f \in Engine
    <3>1. <<>> \in PartialTo(LoadedContent)
      <4>1. DOMAIN <<>> = {} /\ <<>> \in [{} -> LoadedContent]
        OBVIOUS
      <4> QED
        BY <4>1, PartialIs
    <3> QED
      BY <2>1, <3>1 DEF Engine, GroupStatus
  <2> HIDE DEF c, f
  <2>4. Good(f, Pending, {})
    <3>1. Good(Here, Pending, {}) /\ DOMAIN <<>> = {}
      BY DEF Saved, EngineInv
    <3> QED
      BY <1>5, <2>2, <2>3, <3>1, FewerWaits DEF Loaded
  <2>5. Loaded(f) = {} /\ Loaded(Here) = {}
    BY <1>5, <2>2 DEF Loaded
  <2>6. Safe(f, Pending, c, {}, {})
    <3>1. \A l \in Loaded(f) : RecordSafe(f, c, {}, l)
      BY <2>5
    <3> QED
      BY <1>2, <2>2, <2>5, <3>1, RecordsSafe DEF Sound
  <2>7. Sound(f, Pending, c, {}, {})
    BY <2>4, <2>6 DEF Sound
  <2> QED
    BY <1>1, <1>3, <1>5, <2>7, JobSaves
<1> QED
  BY <1>4, <1>5 DEF WaitForLocationsFlush, f

LEMMA StepsNowAre ==
  /\ StepsNow.past = left_behind /\ StepsNow.fresh = FreshContents
  /\ StepsNow.leaving = Loaded(Here) /\ ~StepsNow.late /\ StepsNow.asked = waiting
BY StepsAre DEF StepsNow

LEMMA ProcessSaved ==
  ASSUME Calm, Saved, NEW l \in Location, NEW kind \in ReadAction \ {"ids"}
  PROVE  /\ \A e \in Process(Assign(Here, l), l, kind) : Keeps(Here, e, Pending, StepsNow)
         /\ \A e \in Process(Here, l, kind) : Keeps(Here, e, Pending, StepsNow)
<1> DEFINE c == StepsNow
           d == Assign(Here, l)
<1>1. Sound(Here, Pending, c, {}, {}) /\ c.leaving = Loaded(Here) /\ ~c.late
  BY SoundHere, StepsNowAre
<1> HIDE DEF c
<1>2. Settles(Here, d) /\ Good(d, Pending, {})
  <2>1. Here \in Engine /\ Good(Here, Pending, {})
    BY <1>1 DEF Sound, Good
  <2> QED
    BY <2>1, AssignOK, Settling DEF Assign, Settles
<1> HIDE DEF d
<1>3. Sound(d, Pending, c, {}, {}) /\ Loaded(d) = Loaded(Here)
  BY <1>1, <1>2, SettlesSafe DEF Settles, Loaded
<1>4. \A e \in Process(d, l, kind) : Keeps(Here, e, Pending, c)
  <2>1. \A e \in Process(d, l, kind) : Keeps(d, e, Pending, c)
    BY <1>1, <1>3, ProcessKeeps DEF Calm
  <2> QED
    BY <1>3, <2>1 DEF Keeps
<1>5. \A e \in Process(Here, l, kind) : Keeps(Here, e, Pending, c)
  BY <1>1, ProcessKeeps DEF Calm
<1> QED
  BY <1>4, <1>5 DEF c, d

LEMMA ReceiveMessageSaved ==
  ASSUME Calm, Saved, NEW l \in Location, NEW kind \in Messages, ReceiveMessage(l, kind)
  PROVE  SavedInv' /\ left_behind' = left_behind
<1>1. PICK e \in Process(Assign(Here, l), l, kind) : Become(e)
  BY DEF ReceiveMessage
<1>2. Keeps(Here, e, Pending, StepsNow)
  <2>1. kind \in ReadAction \ {"ids"}
    BY EngineAssumption
  <2> QED
    BY <1>1, <2>1, ProcessSaved
<1>3. /\ inbox = {} /\ ~deadline_over'
      /\ UNCHANGED <<operation, answers, rows, inbox, before>>
  BY DEF ReceiveMessage, Saved, SavedInv
<1> QED
  BY <1>1, <1>2, <1>3, KeepsSaved

LEMMA PlayersSaved ==
  ASSUME Calm, Saved, NEW l \in Location, ConnectPlayer(l) \/ DisconnectPlayer(l)
  PROVE  SavedInv' /\ left_behind' = left_behind
<1>1. PICK e : /\ Become(e)
               /\ \/ e = Here
                  \/ e \in Process(Assign(Here, l), l, "connect")
                  \/ e \in Process(Here, l, "disconnect")
  BY DEF ConnectPlayer, DisconnectPlayer
<1>2. Keeps(Here, e, Pending, StepsNow)
  <2>1. "connect" \in ReadAction \ {"ids"} /\ "disconnect" \in ReadAction \ {"ids"}
    BY DEF ReadAction
  <2>2. Keeps(Here, Here, Pending, StepsNow)
    BY SoundHere DEF Keeps
  <2> QED
    BY <1>1, <2>1, <2>2, ProcessSaved
<1>3. /\ inbox = {} /\ ~deadline_over'
      /\ UNCHANGED <<operation, answers, rows, inbox, before>>
  BY DEF ConnectPlayer, DisconnectPlayer, Saved, SavedInv
<1> QED
  BY <1>1, <1>2, <1>3, KeepsSaved

LEMMA LogicCallbackSaved ==
  ASSUME Calm, Saved, NEW l \in Location, LogicCallback(l)
  PROVE  SavedInv' /\ left_behind' = left_behind
<1>1. PICK e \in Callback(Here, l) : Become(e)
  BY DEF LogicCallback
<1>2. Keeps(Here, e, Pending, StepsNow)
  <2>1. Sound(Here, Pending, StepsNow, {}, {}) /\ ~StepsNow.late
    BY SoundHere, StepsNowAre
  <2> QED
    BY <1>1, <2>1, CallbackKeeps DEF Calm
<1>3. /\ inbox = {} /\ ~deadline_over'
      /\ UNCHANGED <<operation, answers, rows, inbox, before>>
  BY DEF LogicCallback, Saved, SavedInv
<1> QED
  BY <1>1, <1>2, <1>3, KeepsSaved

\* The balancer and the heartbeat change the status of the group and its
\* assigned locations.
LEMMA ConfirmationsSaved ==
  ASSUME Calm, Saved, ReleaseConfirmed \/ HeartbeatConfirmed
  PROVE  SavedInv' /\ left_behind' = left_behind
<1> DEFINE ready == [Here EXCEPT !.status = "Ready"]
           emptied == [Here EXCEPT !.assigned = {}]
<1>1. PICK e \in {Here, ready, emptied} : Become(e)
  BY DEF ReleaseConfirmed, HeartbeatConfirmed
<1>2. Sound(Here, Pending, StepsNow, {}, {})
  BY SoundHere
<1>3. Here \in Engine /\ Good(Here, Pending, {})
  BY <1>2 DEF Sound, Good
<1>4. Settles(Here, e) /\ Good(e, Pending, {})
  <2>1. Good(ready, Pending, {}) /\ Good(emptied, Pending, {})
    BY <1>3, StatusSet, AssignedChanged DEF GroupStatus
  <2>2. Settles(Here, Here) /\ Settles(Here, ready) /\ Settles(Here, emptied)
    BY <1>3, Settling DEF Settles
  <2> QED
    BY <1>3, <2>1, <2>2
<1> HIDE DEF ready, emptied
<1>5. Keeps(Here, e, Pending, StepsNow)
  BY <1>2, <1>4, SettlesSafe DEF Settles, Keeps, Loaded
<1>6. /\ inbox = {} /\ ~deadline_over'
      /\ UNCHANGED <<operation, answers, rows, inbox, before>>
  BY DEF ReleaseConfirmed, HeartbeatConfirmed, Saved, SavedInv
<1> QED
  BY <1>1, <1>5, <1>6, KeepsSaved

\* Only the ages of a location change, or nothing that matters here.
LEMMA AgeSaved ==
  ASSUME Saved, NEW l \in Location, Age(l)
  PROVE  SavedInv' /\ left_behind' = left_behind
<1>1. PICK x \in {"accessed", "written"} : status_map' = [status_map EXCEPT ![l][x] = FALSE]
  BY DEF Age
<1>2. /\ UNCHANGED <<store_vars, script, locationdb_triggers, left_behind, inbox, before, deadline_over>>
      /\ UNCHANGED <<operation, answers, rows, waiting>>
  BY DEF Age, store_vars
<1>3. Sound(Here, Pending, StepsNow, {}, {}) /\ EngineInv
  BY SoundHere DEF Saved
<1>4. /\ Here'.triggers = Here.triggers /\ Here'.tasks = Here.tasks /\ Here'.script = Here.script
      /\ Here'.status_map = [Here.status_map EXCEPT ![l][x] = FALSE]
  BY <1>1, <1>2, HereIs DEF Here
<1>5. Loaded(Here') = Loaded(Here) /\ Pending' = Pending /\ FreshContents' = FreshContents
  BY <1>2, <1>4 DEF Loaded, Pending, FreshContents, Fresh, BeingWritten
<1>6. StepsNow' = StepsNow
  BY <1>2, <1>5 DEF StepsNow, Steps
<1>7. ASSUME NEW k \in Loaded(Here)
      PROVE  /\ Here'.status_map[k].write_tasks = Here.status_map[k].write_tasks
             /\ RecordSafe(Here', StepsNow, {}, k)
  <2>1. RecordSafe(Here, StepsNow, {}, k) /\ Here.status_map[k] \in StatusOf
    BY <1>3, EngineIs DEF Sound, Safe, Good, Loaded
  <2>2. LET s == Here.status_map[k]
            v == Here'.status_map[k]
        IN /\ v.write_tasks = s.write_tasks /\ v.confirmed = s.confirmed
           /\ (v.ready <=> s.ready) /\ (v.dirty <=> s.dirty)
    <3>1. Here'.status_map[k] = IF k = l THEN [Here.status_map[k] EXCEPT ![x] = FALSE]
                                         ELSE Here.status_map[k]
      BY <1>4 DEF Loaded
    <3>2. [Here.status_map[k] EXCEPT !["accessed"] = FALSE] \in StatusOf
          /\ [Here.status_map[k] EXCEPT !["written"] = FALSE] \in StatusOf
      BY <2>1 DEF StatusOf
    <3>3. CASE k # l
      BY <3>1, <3>3
    <3>4. CASE x = "accessed" /\ k = l
      BY <2>1, <3>1, <3>4 DEF StatusOf
    <3>5. CASE x = "written" /\ k = l
      BY <2>1, <3>1, <3>5 DEF StatusOf
    <3> QED
      BY <1>1, <3>3, <3>4, <3>5
  <2> QED
    BY <1>4, <2>1, <2>2 DEF RecordSafe
<1>8. Safe(Here', Pending', StepsNow', {}, {})
  <2>1. Safe(Here', Pending, StepsNow, {}, {})
    BY <1>3, <1>4, <1>5, <1>7, RecordsSafe DEF Sound
  <2> QED
    BY <1>5, <1>6, <2>1
<1>9. OperationsTrue' /\ ResultsOrdered'
  BY <1>2, <1>5 DEF Saved, SavedInv, OperationsTrue, ResultsOrdered
<1>10. ReadsTrue'
  BY <1>2, <1>5 DEF Saved, SavedInv, ReadsTrue
<1> QED
  BY <1>2, <1>5, <1>8, <1>9, <1>10 DEF Saved, SavedInv, StepsNow

LEMMA NothingSaved ==
  ASSUME Saved, UNCHANGED <<store_vars, engine_vars, inbox, before>>, ~deadline_over'
  PROVE  SavedInv' /\ left_behind' = left_behind
<1>1. /\ UNCHANGED <<operation, answers, rows, waiting, left_behind, inbox, before>>
      /\ Here' = Here /\ Pending' = Pending
  BY DEF store_vars, engine_vars, Here, Pending
<1>2. FreshContents' = FreshContents
  BY <1>1 DEF FreshContents, Fresh, BeingWritten
<1>3. StepsNow' = StepsNow
  BY <1>1, <1>2 DEF StepsNow, Steps
<1>4. OperationsTrue' /\ ResultsOrdered' /\ ReadsTrue'
  BY <1>1 DEF Saved, SavedInv, OperationsTrue, ResultsOrdered, ReadsTrue
<1> QED
  BY <1>1, <1>3, <1>4 DEF Saved, SavedInv, StepsNow

LEMMA OutsideSaved ==
  ASSUME Calm, Saved, Outside
  PROVE  SavedInv' /\ left_behind' = left_behind
<1>1. CASE \E l \in Location, kind \in Messages : ReceiveMessage(l, kind)
  BY <1>1, ReceiveMessageSaved
<1>2. CASE \E l \in Location :
             ConnectPlayer(l) \/ DisconnectPlayer(l) \/ LogicCallback(l) \/ Age(l)
  BY <1>2, PlayersSaved, LogicCallbackSaved, AgeSaved
<1>3. CASE ReleaseConfirmed \/ HeartbeatConfirmed
  BY <1>3, ConfirmationsSaved
<1>4. CASE WriteDeadlinePasses \/ PrepareToClose
  <2>1. /\ UNCHANGED <<store_vars, engine_vars, inbox, before>>
        /\ ~deadline_over'
    BY <1>4 DEF WriteDeadlinePasses, PrepareToClose, Calm, Saved, SavedInv
  <2> QED
    BY <2>1, NothingSaved
<1> QED
  BY <1>1, <1>2, <1>3, <1>4 DEF Outside

\* A write that waits or is answered is one that its location waits for, or
\* was left behind.
LEMMA WriterLoaded ==
  ASSUME Saved, NEW x \in waiting \cup Pending, ~IsReadTask(x), x.location_ID \notin left_behind
  PROVE  x.location_ID \in Loaded(Here) /\ x.taskid \in status_map[x.location_ID].write_tasks
<1>1. Sound(Here, Pending, StepsNow, {}, {}) /\ Here.tasks = waiting
  BY SoundHere, HereIs
<1>2. PICK t \in Here.triggers : t.taskid = x.taskid /\ t.location_ID = x.location_ID
  BY <1>1 DEF Sound, Safe, Known, HasTrigger
<1>3. IsWrite(t)
  <2>1. t \in TriggerOf /\ Fits(x, Here.triggers)
    BY <1>1, <1>2, EngineIs DEF Sound, Good
  <2> QED
    BY <1>2, <2>1 DEF Fits, TriggerOf, IsWrite
<1>4. Awaited(Here, StepsNow, t)
  BY <1>1, <1>2, <1>3 DEF Sound, Safe
<1> QED
  BY <1>2, <1>4, StepsNowAre, HereIs DEF Awaited

LEMMA TakeResultsSaved ==
  ASSUME Saved, TakeResults
  PROVE  SavedInv' /\ left_behind' = left_behind
<1>1. /\ UNCHANGED <<waiting, operation, rows, engine_vars, before, deadline_over>>
      /\ answers' = [answers EXCEPT ![this] = {}] /\ inbox' = answers[this] /\ inbox = {}
  BY DEF TakeResults, Take
<1>2. answers'[this] = {}
  BY <1>1, EngineAssumption DEF Saved, EngineInv, Around
<1>3. Pending' = Pending /\ Here' = Here /\ left_behind' = left_behind
  BY <1>1, <1>2 DEF Pending, Here, engine_vars
<1>4. FreshContents' = FreshContents
  BY <1>1, <1>3 DEF FreshContents, Fresh, BeingWritten
<1>5. StepsNow' = StepsNow
  BY <1>1, <1>3, <1>4 DEF StepsNow, Steps
<1>6. OperationsTrue'
  BY <1>1 DEF Saved, SavedInv, OperationsTrue
<1>7. ResultsOrdered'
  <2>1. Unique(inbox') /\ Unique(answers'[this]) /\ Apart(answers'[this], inbox')
    BY <1>1, <1>2 DEF Saved, SavedInv, ResultsOrdered, Unique, Apart
  <2>2. Ids(answers'[this]) = {}
    BY <1>2 DEF Ids
  <2> QED
    BY <1>1, <1>3, <2>1, <2>2 DEF Saved, SavedInv, ResultsOrdered
<1>8. ReadsTrue'
  <2> SUFFICES ASSUME NEW r \in Pending, IsReadTask(r), r.location_ID \notin Guest \cup left_behind
               PROVE  \/ Like(r.location_data, rows[r.location_ID])
                      \/ r \in inbox' /\ r.location_ID \in Loaded(Here)
    BY <1>1, <1>3 DEF ReadsTrue
  <2>1. r \in inbox'
    BY <1>1 DEF Pending
  <2>2. CASE \E x \in waiting \cup answers[this] : x.location_ID = r.location_ID /\ ~IsReadTask(x)
    BY <2>1, <2>2, WriterLoaded DEF Pending
  <2> QED
    BY <1>1, <2>1, <2>2 DEF Saved, SavedInv, ReadsTrue
<1> QED
  BY <1>1, <1>3, <1>5, <1>6, <1>7, <1>8 DEF Saved, SavedInv, StepsNow

-----------------------------------------------------------------------------
(* A result is executed *)

\* Result r is the next that the group executes.
Executes(r) ==
  /\ r \in inbox /\ \A q \in inbox : <<q.taskid, r.taskid>> \notin before
  /\ inbox' = inbox \ {r} /\ before' = {p \in before : r.taskid \notin {p[1], p[2]}}
  /\ UNCHANGED <<operation, answers, rows, deadline_over>>
  /\ left_behind \subseteq left_behind'

LEMMA PendingLeft ==
  ASSUME Saved, NEW r, Executes(r)
  PROVE  /\ Pending' = Pending \ {r} /\ r \in Pending /\ r \notin answers[this]
         /\ \A q \in Pending' : q.taskid # r.taskid
         /\ \A q \in Pending : <<q.taskid, r.taskid>> \notin before
         /\ \A x \in Here.tasks \cup Pending' : x.taskid # r.taskid
<1>1. r \in Pending /\ r \notin answers[this] /\ Pending' = Pending \ {r}
  BY DEF Executes, Pending, Saved, SavedInv, ResultsOrdered, Apart
<1>2. \A q \in Pending' : q.taskid # r.taskid
  BY <1>1 DEF Executes, Pending, Saved, SavedInv, ResultsOrdered, Apart, Unique
<1>3. \A q \in answers[this] : <<q.taskid, r.taskid>> \notin before
  <2> SUFFICES ASSUME NEW q \in answers[this], <<q.taskid, r.taskid>> \in before
               PROVE  FALSE
    OBVIOUS
  <2>1. q.taskid \in Ids(answers[this]) /\ r.taskid \in Ids(inbox)
    BY DEF Ids, Executes
  <2> QED
    BY <2>1 DEF Saved, SavedInv, ResultsOrdered
<1>4. \A x \in Here.tasks : x.taskid # r.taskid
  BY <1>1 DEF Saved, SavedInv, Safe, Known, Apart
<1> QED
  BY <1>1, <1>2, <1>3, <1>4 DEF Executes, Pending

\* What was fresh stays fresh, but for the location whose write is executed.
LEMMA FreshLeft ==
  ASSUME Saved, NEW r, Executes(r), NEW l \in Location,
         l # r.location_ID \/ IsReadTask(r) \/ ~r.ok
  PROVE  FreshContents[l] \subseteq (FreshContents')[l]
<1>1. Written(Pending', l) = Written(Pending, l)
  BY PendingLeft DEF Written
<1>2. \A q \in Written(Pending, l) : q.taskid # r.taskid
  BY <1>1, PendingLeft DEF Written
<1>3. ASSUME NEW q \in Written(Pending, l), NEW p \in Written(Pending, l),
             <<q.taskid, p.taskid>> \in before
      PROVE  <<q.taskid, p.taskid>> \in before'
  BY <1>2, <1>3 DEF Executes
<1>4. ASSUME NEW data, Fresh(l, data)
      PROVE  Fresh(l, data)'
  <2>1. CASE BeingWritten(l)
    BY <2>1 DEF BeingWritten, Fresh, Executes
  <2>2. CASE ~BeingWritten(l)
    BY <1>1, <1>3, <1>4, <2>2 DEF Fresh, Executes
  <2> QED
    BY <2>1, <2>2
<1> QED
  BY <1>4 DEF FreshContents, Executes

\* A write that succeeded is executed: its content is fresh when the location
\* has a fresh content already.
LEMMA FreshConfirmed ==
  ASSUME Saved, NEW r, Executes(r), ~IsReadTask(r), r.ok, NEW l \in Location, l = r.location_ID,
         r.location_data \in LoadedContent, NEW data \in FreshContents[l]
  PROVE  r.location_data \in (FreshContents')[l]
<1>1. CASE l \in Guest \cup left_behind
  BY <1>1 DEF FreshContents, Executes
<1>2. CASE Fresh(l, data) /\ ~BeingWritten(l)
  <2> DEFINE W == Written(Pending, l)
  <2>1. r \in W /\ Written(Pending', l) = W \ {r}
    BY PendingLeft DEF Written
  <2>2. /\ \A q \in W : <<q.taskid, r.taskid>> \notin before
        /\ \A q \in W \ {r} : q.taskid # r.taskid
        /\ <<r.taskid, r.taskid>> \notin before
    BY PendingLeft DEF Written
  <2>3. \A q \in W : \/ Like(q.location_data, rows[l])
                     \/ \E p \in W : <<q.taskid, p.taskid>> \in before /\ Like(p.location_data, rows[l])
    BY <1>2 DEF Fresh
  <2> HIDE DEF W
  <2>4. W \ {r} = {} => Like(r.location_data, rows[l])
    BY <2>1, <2>2, <2>3
  <2>5. ASSUME NEW q \in W \ {r}
        PROVE  \/ Like(q.location_data, rows[l])
               \/ \E p \in W \ {r} : <<q.taskid, p.taskid>> \in before' /\ Like(p.location_data, rows[l])
    <3>1. CASE \E p \in W : <<q.taskid, p.taskid>> \in before /\ Like(p.location_data, rows[l])
      <4>1. PICK p \in W : <<q.taskid, p.taskid>> \in before /\ Like(p.location_data, rows[l])
        BY <3>1
      <4>2. p # r
        BY <2>2, <4>1
      <4>3. <<q.taskid, p.taskid>> \in before'
        BY <2>2, <4>1, <4>2 DEF Executes
      <4> QED
        BY <4>1, <4>2, <4>3
    <3> QED
      BY <2>3, <3>1
  <2>6. Fresh(l, r.location_data)'
    BY <2>1, <2>4, <2>5 DEF Fresh, Executes
  <2> QED
    BY <2>6 DEF FreshContents, Executes
<1>3. CASE BeingWritten(l)
  <2>1. Fresh(l, r.location_data)'
    BY <1>3 DEF Fresh, BeingWritten, Executes
  <2> QED
    BY <2>1 DEF FreshContents, Executes
<1> QED
  BY <1>1, <1>2, <1>3 DEF FreshContents

\* What a step may count on while a result is executed: what is fresh after it.
StepsOn == [past |-> left_behind, fresh |-> FreshContents', leaving |-> Loaded(Here),
            late |-> FALSE, asked |-> waiting]

LEMMA StepsOnAre ==
  /\ StepsOn.past = left_behind /\ StepsOn.fresh = FreshContents'
  /\ StepsOn.leaving = Loaded(Here) /\ ~StepsOn.late /\ StepsOn.asked = waiting
BY DEF StepsOn

\* The trigger of the result is skipped.
LEMMA ExecutionStarts ==
  ASSUME Saved, NEW r, Executes(r), NEW t \in Here.triggers, t.taskid = r.taskid
  PROVE  /\ Sound(Here, Pending', StepsNow, {}, {t.taskid})
         /\ t.location_ID = r.location_ID /\ t.location_ID \in Location
         /\ t.action \in ReadAction \cup WriteAction
         /\ t.action \in ReadAction <=> IsReadTask(r)
         /\ r.ok \in BOOLEAN /\ r.location_data \in LoadedContent
<1>1. Sound(Here, Pending, StepsNow, {}, {}) /\ r \in Pending /\ Pending' = Pending \ {r}
  BY SoundHere, PendingLeft
<1>2. Good(Here, Pending', {t.taskid})
  BY <1>1 DEF Sound, Good, Answers
<1>3. Safe(Here, Pending', StepsNow, {}, {t.taskid})
  BY <1>1 DEF Sound, Safe, Known, Apart
<1>4. t \in TriggerOf /\ r \in Result /\ Fits(r, Here.triggers)
      /\ \A u, v \in Here.triggers : u.taskid = v.taskid => u = v
  BY <1>1, EngineIs DEF Sound, Good
<1>5. t.location_ID = r.location_ID
  BY <1>1, <1>4 DEF Sound, Safe, Known, HasTrigger
<1> QED
  BY <1>2, <1>3, <1>4, <1>5 DEF Sound, TriggerOf, Result, Fits

LEMMA WriteExecutedSafe ==
  ASSUME Saved, NEW r, Executes(r), ~IsReadTask(r), NEW t \in Here.triggers, t.taskid = r.taskid
  PROVE  \A e \in ExecuteTriggerWrite(Here, t, r.ok, r.location_data) :
           Sound(e, Pending', StepsOn, {}, {})
<1> DEFINE b == StepsNow
           c == StepsOn
           l == t.location_ID
           R == Pending'
<1>1. /\ Sound(Here, R, b, {}, {t.taskid}) /\ l = r.location_ID /\ l \in Location
      /\ r.ok \in BOOLEAN /\ r.location_data \in LoadedContent
      /\ \A x \in Here.tasks \cup R : x.taskid # t.taskid
  BY ExecutionStarts, PendingLeft
<1>2. Renewed(b, c, l)
  <2>1. \A k \in Location : k # l => b.fresh[k] \subseteq c.fresh[k]
    BY <1>1, FreshLeft, StepsNowAre, StepsOnAre
  <2> QED
    BY <2>1, StepsNowAre, StepsOnAre DEF Renewed
<1>3. MayConfirm(Here, b, c, t, r.ok, r.location_data)
  <2>1. l \in Loaded(Here) => Here.status_map[l].ready \/ Here.status_map[l].confirmed \in FreshContents[l]
    BY <1>1, StepsNowAre DEF Sound, Safe, RecordSafe
  <2>2. l \in Loaded(Here) /\ r.ok => r.location_data \in (FreshContents')[l] \/ Here.status_map[l].ready
    BY <1>1, <2>1, FreshConfirmed
  <2>3. ~r.ok => FreshContents[l] \subseteq (FreshContents')[l]
    BY <1>1, FreshLeft
  <2> HIDE DEF l
  <2> QED
    BY <2>2, <2>3, StepsNowAre, StepsOnAre DEF MayConfirm, l
<1> HIDE DEF b, c, R
<1>4. \A e \in ExecuteTriggerWrite(Here, t, r.ok, r.location_data) : Sound(e, R, c, {}, {})
  BY <1>1, <1>2, <1>3, ExecuteTriggerWriteSafe
<1> QED
  BY <1>4 DEF c, R

LEMMA ReadExecutedSafe ==
  ASSUME Calm, Saved, NEW r, Executes(r), IsReadTask(r), NEW t \in Here.triggers,
         t.taskid = r.taskid
  PROVE  \A e \in ExecuteTriggerRead(Here, t, r.ok, r.location_data) :
           Sound(e, Pending', Leaving(StepsOn, Loaded(e)), {}, {}) /\ Loaded(Here) \subseteq Loaded(e)
<1> DEFINE b == StepsNow
           c == StepsOn
           l == t.location_ID
           R == Pending'
           data == r.location_data
<1>1. /\ Sound(Here, R, b, {}, {t.taskid}) /\ l = r.location_ID /\ l \in Location
      /\ data \in LoadedContent /\ t.action \in ReadAction
      /\ \A x \in Here.tasks \cup R : x.taskid # t.taskid
  BY ExecutionStarts, PendingLeft
<1>2. r.ok = TRUE
  <2>1. r \in Pending /\ r.ok \in BOOLEAN
    BY ExecutionStarts, PendingLeft
  <2> QED
    BY <2>1 DEF Saved, SavedInv
<1>3. Sound(Here, R, c, {}, {t.taskid})
  <2>1. \A k \in Loaded(Here) : b.fresh[k] \subseteq c.fresh[k]
    <3>1. Loaded(Here) \subseteq Location
      BY <1>1, EngineIs DEF Sound, Good, Loaded
    <3> QED
      BY <3>1, FreshLeft, StepsNowAre, StepsOnAre
  <2>2. c.past = b.past /\ c.leaving = b.leaving /\ (b.late => c.late) /\ c.asked = b.asked
    BY StepsNowAre, StepsOnAre
  <2> HIDE DEF b, c, R
  <2>3. Safe(Here, R, c, {}, {t.taskid})
    BY <1>1, <2>1, <2>2, SafeStill DEF Sound
  <2> QED
    BY <1>1, <2>3 DEF Sound
<1>4. l \notin Loaded(Here) => data \in c.fresh[l]
  <2> SUFFICES ASSUME l \notin Loaded(Here)
               PROVE  data \in (FreshContents')[l]
    BY StepsOnAre
  <2>1. CASE l \in Guest \cup left_behind
    BY <1>1, <2>1 DEF FreshContents, Executes
  <2>2. CASE l \notin Guest \cup left_behind
    <3>1. Like(data, rows[l])
      <4>1. r \in Pending /\ r \notin answers[this]
        BY PendingLeft
      <4> QED
        BY <1>1, <2>2, <4>1 DEF Saved, SavedInv, ReadsTrue
    <3>2. Written(Pending, l) = {}
      <4>1. \A q \in Pending : q.location_ID = l /\ ~IsReadTask(q) => FALSE
        BY <2>2, WriterLoaded
      <4> QED
        BY <4>1 DEF Written
    <3>3. Written(Pending', l) = {}
      BY <3>2, PendingLeft DEF Written
    <3>4. Fresh(l, data)'
      BY <3>1, <3>3 DEF Fresh, Executes
    <3> QED
      BY <1>1, <3>4 DEF FreshContents
  <2> QED
    BY <2>1, <2>2
<1>5. ~c.late /\ c.leaving = Loaded(Here)
  BY StepsOnAre
<1>6. l \notin Loaded(Here) => data \in c.fresh[t.location_ID]
  BY <1>4
<1> HIDE DEF b, c, R, l, data
<1>7. \A e \in ExecuteTriggerRead(Here, t, TRUE, data) :
        Sound(e, R, Leaving(c, Loaded(e)), {}, {}) /\ Loaded(Here) \subseteq Loaded(e)
  BY <1>1, <1>3, <1>5, <1>6, ExecuteTriggerReadSafe DEF Calm, l
<1> QED
  BY <1>2, <1>7 DEF c, R, data

\* The answer of a write lets no location go that is loaded.
LEMMA WriteStays ==
  ASSUME NEW e \in Engine, NEW t, NEW ok, NEW data
  PROVE  \A f \in ExecuteTriggerWrite(e, t, ok, data) : Loaded(f) = Loaded(e)
<1> SUFFICES ASSUME NEW g \in ExecuteTriggerWrite(e, t, ok, data)
             PROVE  Loaded(g) = Loaded(e)
  OBVIOUS
<1> DEFINE l == t.location_ID
           loaded == l \in Loaded(e)
           confirmed == [e.status_map EXCEPT ![l] = Confirm(@, t.taskid, ok, data)]
           f == [e EXCEPT !.triggers = @ \ {t},
                          !.status_map = IF loaded THEN confirmed ELSE @]
<1>1. /\ Loaded(f) = Loaded(e) /\ f = [x \in DOMAIN f |-> f[x]]
      /\ DOMAIN f = {"status_map", "script", "triggers", "assigned", "seq", "tasks", "status",
                     "initiated", "transferring"}
  BY DEF Loaded, Engine
<1>2. \/ g = [f EXCEPT !.status_map[l].error = TRUE]
      \/ ~loaded /\ g = LetGo(f, l)
      \/ g \in Notification(f, t.creator) \cup Notification(f, l)
      \/ g = [f EXCEPT !.status_map[l].released = TRUE]
      \/ g = [f EXCEPT !.status_map[l].ready = TRUE]
      \/ g = f
  <2> HIDE DEF f, loaded
  <2> QED
    BY DEF ExecuteTriggerWrite, f, loaded
<1> HIDE DEF f
<1>3. \A h : Loaded([f EXCEPT !.status_map[h].error = TRUE]) = Loaded(f)
             /\ Loaded([f EXCEPT !.status_map[h].released = TRUE]) = Loaded(f)
             /\ Loaded([f EXCEPT !.status_map[h].ready = TRUE]) = Loaded(f)
  BY <1>1 DEF Loaded
<1>4. l \notin Loaded(f) => Loaded(LetGo(f, l)) = Loaded(f)
  BY <1>1 DEF Loaded, LetGo, Release, Erase, Without
<1> QED
  BY <1>1, <1>2, <1>3, <1>4 DEF Notification

\* What is around the engine stays true when a result is executed.
LEMMA AroundLeft ==
  ASSUME Saved, NEW r, Executes(r), waiting \subseteq waiting', Loaded(Here) \subseteq Loaded(Here')
  PROVE  /\ OperationsTrue' /\ ResultsOrdered' /\ ReadsTrue'
         /\ \A q \in Pending' : IsReadTask(q) => q.ok
<1>1. /\ Pending' = Pending \ {r} /\ inbox' = inbox \ {r}
      /\ before' = {p \in before : r.taskid \notin {p[1], p[2]}}
      /\ UNCHANGED <<operation, answers, rows>> /\ left_behind \subseteq left_behind'
  BY PendingLeft DEF Executes
<1>2. OperationsTrue'
  BY <1>1 DEF Saved, SavedInv, OperationsTrue
<1>3. ResultsOrdered'
  <2>1. Unique(answers'[this]) /\ Unique(inbox') /\ Apart(answers'[this], inbox')
    BY <1>1 DEF Saved, SavedInv, ResultsOrdered, Unique, Apart
  <2>2. before' \subseteq Ids(Pending') \X Ids(Pending')
    <3>1. \A i \in Ids(Pending) : i # r.taskid => i \in Ids(Pending')
      BY <1>1 DEF Ids
    <3> QED
      BY <1>1, <3>1 DEF Saved, SavedInv, ResultsOrdered
  <2>3. Ids(inbox') \subseteq Ids(inbox) /\ Ids(answers'[this]) = Ids(answers[this])
    BY <1>1 DEF Ids
  <2> QED
    BY <1>1, <2>1, <2>2, <2>3 DEF Saved, SavedInv, ResultsOrdered
<1>4. ReadsTrue'
  <2> SUFFICES ASSUME NEW q \in Pending', IsReadTask(q),
                      q.location_ID \notin Guest \cup left_behind'
               PROVE  \/ Like(q.location_data, rows'[q.location_ID])
                      \/ q \in inbox' /\ q.location_ID \in Loaded(Here')
                      \/ q \in answers'[this] /\ \E x \in waiting' \cup answers'[this] :
                           x.location_ID = q.location_ID /\ ~IsReadTask(x)
    BY DEF ReadsTrue
  <2>1. q \in Pending /\ q # r /\ q.location_ID \notin Guest \cup left_behind
    BY <1>1
  <2>2. \/ Like(q.location_data, rows[q.location_ID])
        \/ q \in inbox /\ q.location_ID \in Loaded(Here)
        \/ q \in answers[this] /\ \E x \in waiting \cup answers[this] :
             x.location_ID = q.location_ID /\ ~IsReadTask(x)
    BY <2>1 DEF Saved, SavedInv, ReadsTrue
  <2> QED
    BY <1>1, <2>1, <2>2
<1>5. \A q \in Pending' : IsReadTask(q) => q.ok
  BY <1>1 DEF Saved, SavedInv
<1> QED
  BY <1>2, <1>3, <1>4, <1>5

LEMMA ExecuteTriggerSaved ==
  ASSUME Calm, Saved, ExecuteTrigger
  PROVE  SavedInv' /\ left_behind' = left_behind
<1>1. PICK r \in inbox :
        /\ \A q \in inbox : <<q.taskid, r.taskid>> \notin before
        /\ inbox' = inbox \ {r}
        /\ before' = {p \in before : r.taskid \notin {p[1], p[2]}}
        /\ \E t \in {u \in locationdb_triggers : u.taskid = r.taskid} :
             \E e \in IF r.direction \in ReadDirections
                      THEN ExecuteTriggerRead(Here, t, r.ok, r.location_data)
                      ELSE ExecuteTriggerWrite(Here, t, r.ok, r.location_data) : Become(e)
  BY DEF ExecuteTrigger
<1>2. PICK t \in Here.triggers :
        /\ t.taskid = r.taskid
        /\ \E e \in IF IsReadTask(r)
                    THEN ExecuteTriggerRead(Here, t, r.ok, r.location_data)
                    ELSE ExecuteTriggerWrite(Here, t, r.ok, r.location_data) : Become(e)
  BY <1>1, HereIs DEF IsReadTask
<1>3. PICK e \in IF IsReadTask(r)
                 THEN ExecuteTriggerRead(Here, t, r.ok, r.location_data)
                 ELSE ExecuteTriggerWrite(Here, t, r.ok, r.location_data) : Become(e)
  BY <1>2
<1>4. Executes(r) /\ UNCHANGED <<operation, answers, rows, deadline_over>>
  BY <1>1, <1>3 DEF ExecuteTrigger, Executes, Become
<1>5. PICK c : /\ Sound(e, Pending', c, {}, {}) /\ c.past = left_behind
               /\ c.leaving \in {Loaded(Here), Loaded(e)} /\ c.fresh = FreshContents'
               /\ c.asked = waiting
               /\ IsReadTask(r) => c.leaving = Loaded(e) /\ Loaded(Here) \subseteq Loaded(e)
  <2>1. CASE ~IsReadTask(r)
    BY <1>2, <1>3, <1>4, <2>1, WriteExecutedSafe, StepsOnAre
  <2>2. CASE IsReadTask(r)
    <3>1. Sound(e, Pending', Leaving(StepsOn, Loaded(e)), {}, {}) /\ Loaded(Here) \subseteq Loaded(e)
      BY <1>2, <1>3, <1>4, <2>2, ReadExecutedSafe
    <3>2. /\ Leaving(StepsOn, Loaded(e)).past = left_behind
          /\ Leaving(StepsOn, Loaded(e)).leaving = Loaded(e)
          /\ Leaving(StepsOn, Loaded(e)).fresh = FreshContents'
          /\ Leaving(StepsOn, Loaded(e)).asked = waiting
      BY StepsOnAre DEF Leaving
    <3> QED
      BY <2>2, <3>1, <3>2
  <2> QED
    BY <2>1, <2>2
<1>6. SafeHere' /\ waiting \subseteq waiting' /\ left_behind \subseteq left_behind'
  BY <1>3, <1>5, StepEnds
<1>7. Here' = e /\ Loaded(Here) \subseteq Loaded(e)
  <2>1. ~IsReadTask(r) => Loaded(e) = Loaded(Here)
    <3>1. Here \in Engine
      BY DEF Saved, EngineInv, Good
    <3> QED
      BY <1>3, <3>1, WriteStays
  <2> QED
    BY <1>3, <1>5, <2>1, Becomes DEF Sound, Good
<1>8. left_behind' = left_behind
  BY <1>3, <1>7 DEF Become, LeftBy
<1>9. /\ OperationsTrue' /\ ResultsOrdered' /\ ReadsTrue'
      /\ \A q \in Pending' : IsReadTask(q) => q.ok
  BY <1>4, <1>6, <1>7, AroundLeft
<1> QED
  BY <1>4, <1>6, <1>8, <1>9 DEF Saved, SavedInv, SafeHere, StepsNow

-----------------------------------------------------------------------------
(* The queue keeps what is saved *)

LEMMA OperationIs == NoOperation \notin Performed
<1>1. \A x \in TaskOf : x \in [group_id : {this}, taskid : Nat, location_ID : Location,
         direction : ReadDirections \cup {"Write", "Insert", "Delete"},
         location_data : LoadedContent]
  BY DEF TaskOf, Id, Direction
<1> QED
  BY <1>1, NoOperationAssumption DEF Performed

\* What a healthy step of the queue does beside the operations, answers and rows.
Works ==
  /\ \A l \in Location : HealthyRead(l)
  /\ \A r \in answers'[this] : r.direction \in ReadDirections => r.ok
  /\ before' = before \cup
       (Ids(Pending) \X (Ids(answers'[this]) \ Ids(answers[this])))
  /\ UNCHANGED <<engine_vars, inbox, deadline_over>>

\* The engine but for its tasks stays.
LEMMA WorkingKeeps ==
  ASSUME Works
  PROVE  /\ Here'.status_map = Here.status_map /\ Here'.script = Here.script
         /\ Here'.triggers = Here.triggers /\ Loaded(Here') = Loaded(Here)
         /\ Here'.tasks = waiting' /\ left_behind' = left_behind
BY DEF Works, Here, Loaded, engine_vars

\* What the queue's step must keep fresh; the tasks and the results stay known.
LEMMA QueueSafe ==
  ASSUME Saved, Works, Known(Here', Pending'),
         \A l \in Location : FreshContents[l] \subseteq (FreshContents')[l]
  PROVE  SafeHere'
<1> DEFINE c == StepsNow
           d == StepsNow'
<1>1. /\ Here'.status_map = Here.status_map /\ Here'.script = Here.script
      /\ Here'.triggers = Here.triggers /\ Loaded(Here') = Loaded(Here)
      /\ Here'.tasks = waiting' /\ left_behind' = left_behind
  BY WorkingKeeps
<1>2. /\ d.past = left_behind /\ d.fresh = FreshContents' /\ d.leaving = Loaded(Here)
      /\ ~d.late /\ d.asked = waiting'
  BY <1>1 DEF StepsNow, Steps
<1>3. /\ c.past = left_behind /\ c.fresh = FreshContents /\ c.leaving = Loaded(Here) /\ ~c.late
  BY StepsNowAre
<1>4. Sound(Here, Pending, c, {}, {}) /\ Loaded(Here) \subseteq Location
  BY SoundHere, EngineIs DEF Sound, Good, Loaded
<1> HIDE DEF c, d
<1>5. ASSUME NEW t \in Here'.triggers, IsWrite(t)
      PROVE  Awaited(Here', d, t)
  <2>1. Awaited(Here, c, t)
    BY <1>1, <1>4, <1>5 DEF Sound, Safe
  <2> QED
    BY <1>1, <1>2, <1>3, <2>1 DEF Awaited
<1>6. ASSUME NEW l \in Loaded(Here')
      PROVE  RecordSafe(Here', d, {}, l)
  <2>1. RecordSafe(Here, c, {}, l) /\ l \in Location
    BY <1>1, <1>4 DEF Sound, Safe
  <2> QED
    BY <1>1, <1>2, <1>3, <2>1 DEF RecordSafe
<1>7. Safe(Here', Pending', d, {}, {})
  BY <1>1, <1>2, <1>5, <1>6 DEF Safe
<1> QED
  BY <1>7 DEF SafeHere, d

LEMMA PerformSaved ==
  ASSUME Calm, Saved, Works, NEW t \in waiting, Perform(t)
  PROVE  SavedInv'
<1> DEFINE l == t.location_ID
<1>1. PICK end \in Outcomes(t) :
        /\ operation' = [operation EXCEPT ![l] =
             [task |-> t, ok |-> end.ok, location_data |-> end.location_data]]
        /\ rows' = [rows EXCEPT ![l] = end.row]
  BY DEF Perform
<1> DEFINE op == [task |-> t, ok |-> end.ok, location_data |-> end.location_data]
<1>2. /\ operation[l] = NoOperation /\ UNCHANGED <<waiting, answers, inbox>>
  BY DEF Perform, Works
<1>3. t \in TaskOf /\ l \in Location /\ l \in DOMAIN operation /\ l \in DOMAIN rows
  <2>1. t \in TaskOf
    BY HereIs, EngineIs DEF Saved, EngineInv, Good
  <2> QED
    BY <2>1 DEF TaskOf, Saved, EngineInv, Around
<1>4. op # NoOperation /\ op.ok = end.ok /\ op.task = t /\ op.location_data = end.location_data
  <2>1. op \in Performed
    BY <1>3, OutcomesTyped DEF Saved, Performed
  <2> QED
    BY <2>1, OperationIs
<1> HIDE DEF op
<1>5. /\ operation'[l] = op /\ rows'[l] = end.row
      /\ \A k \in Location : k # l => operation'[k] = operation[k] /\ rows'[k] = rows[k]
  BY <1>1, <1>3 DEF op
<1>6. t.direction \in {"Read", "Write"}
  <2>1. t \in Here.tasks
    BY HereIs
  <2> QED
    BY <2>1 DEF Saved, SavedInv, Safe, Known
<1>7. IsReadTask(t) => /\ end.ok /\ rows'[l] = rows[l]
                       /\ Like(end.location_data, rows[l])
  <2> SUFFICES ASSUME IsReadTask(t)
               PROVE  /\ end.ok /\ rows'[l] = rows[l]
                      /\ Like(end.location_data, rows[l])
    OBVIOUS
  <2>1. t.direction = "Read"
    BY <1>6 DEF IsReadTask, ReadDirections
  <2>2. end.ok /\ (end.location_data = EmptyData => rows[l] \in {Missing, EmptyData})
    BY <1>2, <1>3, <1>4, <1>5 DEF Works, HealthyRead
  <2>3. \E d \in {EmptyData, rows[l]} \ {Missing} :
          end = [ok |-> TRUE, location_data |-> d, row |-> rows[l]]
    BY <2>1, <2>2 DEF Outcomes
  <2> QED
    BY <1>5, <2>2, <2>3 DEF Like
<1>8. ~IsReadTask(t) /\ l \notin Guest => IF end.ok THEN end.location_data = rows'[l]
                                                   ELSE rows'[l] = rows[l]
  <2> SUFFICES ASSUME t.direction = "Write", l \notin Guest
               PROVE  IF end.ok THEN end.location_data = rows'[l] ELSE rows'[l] = rows[l]
    BY <1>6 DEF IsReadTask, ReadDirections
  <2>1. \/ end = [ok |-> FALSE, location_data |-> NoData, row |-> rows[l]]
        \/ end = [ok |-> TRUE, location_data |-> t.location_data, row |-> t.location_data]
    BY DEF Outcomes, Calm
  <2> QED
    BY <1>5, <2>1
<1> HIDE DEF l
<1>9. Pending' = Pending /\ Here' = Here /\ before' = before /\ left_behind' = left_behind
  BY <1>2 DEF Works, Pending, Here, engine_vars, Ids
<1>10. ASSUME NEW k \in Location
       PROVE  FreshContents[k] \subseteq (FreshContents')[k]
  <2>1. CASE k \in Guest \cup left_behind
    BY <1>9, <2>1 DEF FreshContents
  <2>2. CASE k = l /\ ~IsReadTask(t) /\ end.ok
    <3>1. BeingWritten(k)'
      BY <1>4, <1>5, <2>2 DEF BeingWritten
    <3> QED
      BY <3>1, <1>9 DEF FreshContents, Fresh
  <2>3. CASE k \notin Guest \cup left_behind /\ ~(k = l /\ ~IsReadTask(t) /\ end.ok)
    <3>1. rows'[k] = rows[k]
      BY <1>5, <1>7, <1>8, <2>3
    <3>2. BeingWritten(k) => BeingWritten(k)'
      BY <1>2, <1>5 DEF BeingWritten
    <3>3. \A data : Fresh(k, data) => Fresh(k, data)'
      BY <1>9, <3>1, <3>2 DEF Fresh
    <3> QED
      BY <1>9, <3>3 DEF FreshContents
  <2> QED
    BY <2>1, <2>2, <2>3
<1>11. SafeHere'
  <2>1. Known(Here', Pending')
    BY <1>9 DEF Saved, SavedInv, Safe
  <2> QED
    BY <1>10, <2>1, QueueSafe
<1>12. OperationsTrue'
  <2> SUFFICES ASSUME NEW k \in Location, operation'[k] # NoOperation
               PROVE  /\ operation'[k].task \in waiting' /\ operation'[k].task.location_ID = k
                      /\ operation'[k].ok /\ k \notin Guest =>
                           Like(operation'[k].location_data, rows'[k])
                      /\ IsReadTask(operation'[k].task) => operation'[k].ok
    BY DEF OperationsTrue
  <2>1. CASE k # l
    BY <1>2, <1>5, <2>1 DEF Saved, SavedInv, OperationsTrue
  <2>2. CASE k = l
    <3>1. end.ok /\ l \notin Guest => Like(end.location_data, rows'[l])
      BY <1>7, <1>8 DEF Like
    <3> QED
      BY <1>2, <1>4, <1>5, <1>7, <2>2, <3>1 DEF l
  <2> QED
    BY <2>1, <2>2
<1>13. ResultsOrdered'
  BY <1>2, <1>9 DEF Saved, SavedInv, ResultsOrdered
<1>14. ReadsTrue'
  <2> SUFFICES ASSUME NEW r \in Pending, IsReadTask(r),
                      r.location_ID \notin Guest \cup left_behind
               PROVE  \/ Like(r.location_data, rows'[r.location_ID])
                      \/ r \in inbox /\ r.location_ID \in Loaded(Here)
                      \/ r \in answers[this] /\ \E x \in waiting \cup answers[this] :
                           x.location_ID = r.location_ID /\ ~IsReadTask(x)
    BY <1>2, <1>9 DEF ReadsTrue
  <2>1. \/ Like(r.location_data, rows[r.location_ID])
        \/ r \in inbox /\ r.location_ID \in Loaded(Here)
        \/ r \in answers[this] /\ \E x \in waiting \cup answers[this] :
             x.location_ID = r.location_ID /\ ~IsReadTask(x)
    BY DEF Saved, SavedInv, ReadsTrue
  <2>2. r.location_ID \in Location
    BY DEF Saved, EngineInv, Good, Result
  <2>3. CASE r.location_ID # l \/ IsReadTask(t)
    BY <1>5, <1>7, <2>1, <2>2, <2>3
  <2>4. CASE r.location_ID = l /\ ~IsReadTask(t)
    <3>1. l \in Loaded(Here)
      BY <2>4, WriterLoaded DEF l
    <3> QED
      BY <2>4, <3>1 DEF Pending, l
  <2> QED
    BY <2>3, <2>4
<1>15. ~deadline_over' /\ \A r \in Pending' : IsReadTask(r) => r.ok
  BY <1>9 DEF Saved, SavedInv, Works
<1> QED
  BY <1>11, <1>12, <1>13, <1>14, <1>15 DEF SavedInv, SafeHere, StepsNow

\* x and y are tasks or results of the same task.
Same(x, y) ==
  y.taskid = x.taskid /\ y.location_ID = x.location_ID /\ (IsReadTask(y) <=> IsReadTask(x))
\* The new result n makes the failed result x a success, y.
Mends(n, x, y) ==
  /\ ~x.ok /\ n.ok /\ n.location_ID = x.location_ID /\ n.direction = x.direction
  /\ y.ok /\ y.location_data = n.location_data

LEMMA DeliverIs ==
  ASSUME NEW g \in Group, answers[g] \subseteq Result, NEW new \in SUBSET Result,
         Unique(answers[g]), Unique(new), Apart(answers[g], new)
  PROVE  /\ new \subseteq Deliver(g, new) /\ Unique(Deliver(g, new))
         /\ \A x \in answers[g] : \E y \in Deliver(g, new) : Same(x, y)
         /\ \A y \in Deliver(g, new) : \/ y \in new
                                       \/ y \in answers[g]
                                       \/ \E x \in answers[g], n \in new : Same(x, y) /\ Mends(n, x, y)
         /\ \A y \in answers[g] : y.ok => y \in Deliver(g, new)
<1> DEFINE better(r) == {n \in new : /\ n.ok /\ n.location_ID = r.location_ID
                                     /\ n.direction = r.direction}
           data(r) == (CHOOSE n \in better(r) : TRUE).location_data
           kept(r) == IF ~r.ok /\ better(r) # {}
                      THEN [r EXCEPT !.ok = TRUE, !.location_data = data(r)] ELSE r
<1>1. Deliver(g, new) = {kept(r) : r \in answers[g]} \cup new
  BY Zenon DEF Deliver
<1>2. ASSUME NEW r \in answers[g]
      PROVE  /\ Same(r, kept(r)) /\ (r.ok => kept(r) = r)
             /\ kept(r) = r \/ \E n \in new : Mends(n, r, kept(r))
  <2>1. CASE kept(r) = r
    BY <2>1 DEF Same
  <2>2. CASE ~r.ok /\ better(r) # {}
    <3> DEFINE n == CHOOSE m \in better(r) : TRUE
    <3>1. n \in better(r)
      BY <2>2
    <3>2. n \in new /\ n.ok /\ n.location_ID = r.location_ID /\ n.direction = r.direction
      BY <3>1
    <3>3. kept(r) = [r EXCEPT !.ok = TRUE, !.location_data = n.location_data]
      BY <2>2
    <3> HIDE DEF n, kept, better
    <3>4. /\ kept(r).ok /\ kept(r).location_data = n.location_data /\ kept(r).taskid = r.taskid
          /\ kept(r).location_ID = r.location_ID /\ kept(r).direction = r.direction
      BY <3>3 DEF Result
    <3> QED
      BY <2>2, <3>2, <3>4 DEF Same, Mends, IsReadTask
  <2> QED
    BY <2>1, <2>2
<1> HIDE DEF kept
<1>3. Unique(Deliver(g, new))
  <2>1. \A r \in answers[g] : kept(r).taskid = r.taskid
    BY <1>2 DEF Same
  <2> QED
    BY <1>1, <2>1 DEF Unique, Apart
<1> QED
  BY <1>1, <1>2, <1>3

\* The queue answers the tasks in gone to the group with the results new.
Delivers(gone, new) ==
  /\ gone \subseteq waiting /\ waiting' = waiting \ gone
  /\ answers'[this] = Deliver(this, new) /\ new \subseteq Result /\ Unique(new)
  /\ \A x \in gone : \E y \in new : Same(x, y)
  /\ \A y \in new : \E x \in gone : Same(x, y)

LEMMA DeliveredIs ==
  ASSUME Saved, NEW gone, NEW new, Delivers(gone, new)
  PROVE  /\ new \subseteq answers'[this] /\ Unique(answers'[this])
         /\ Apart(waiting, Pending)
         /\ \A x \in answers[this] \cup gone : \E y \in answers'[this] : Same(x, y)
         /\ \A y \in answers'[this] : \/ y \in new
                                      \/ y \in answers[this]
                                      \/ \E x \in answers[this], n \in new : Same(x, y) /\ Mends(n, x, y)
         /\ \A y \in answers'[this] : \E x \in answers[this] \cup gone : Same(x, y)
         /\ \A y \in answers[this] : y.ok => y \in answers'[this]
<1>1. /\ this \in Group /\ answers[this] \subseteq Result /\ new \in SUBSET Result
      /\ Unique(answers[this])
  BY EngineAssumption DEF Saved, SavedInv, EngineInv, Around, ResultsOrdered, Delivers
<1>2. Apart(waiting, Pending)
  BY HereIs DEF Saved, SavedInv, Safe, Known
<1>3. Unique(new) /\ Apart(answers[this], new)
  BY <1>2 DEF Delivers, Apart, Pending, Same
<1>4. answers'[this] = Deliver(this, new)
  BY DEF Delivers
<1>5. /\ new \subseteq answers'[this] /\ Unique(answers'[this])
      /\ \A x \in answers[this] : \E y \in answers'[this] : Same(x, y)
      /\ \A y \in answers'[this] : \/ y \in new
                                   \/ y \in answers[this]
                                   \/ \E x \in answers[this], n \in new : Same(x, y) /\ Mends(n, x, y)
      /\ \A y \in answers[this] : y.ok => y \in answers'[this]
  BY <1>1, <1>3, <1>4, DeliverIs
<1>6. \A x \in gone : \E y \in answers'[this] : Same(x, y)
  BY <1>5 DEF Delivers
<1>7. \A y \in answers'[this] : \E x \in answers[this] \cup gone : Same(x, y)
  <2>1. \A y : Same(y, y)
    BY DEF Same
  <2> QED
    BY <1>5, <2>1 DEF Delivers
<1> QED
  BY <1>2, <1>5, <1>6, <1>7

\* Tasks and results stay known and ordered.
LEMMA DeliveredKnown ==
  ASSUME Saved, Works, NEW gone, NEW new, Delivers(gone, new)
  PROVE  Known(Here', Pending') /\ ResultsOrdered'
<1>1. /\ Unique(answers'[this]) /\ Apart(waiting, Pending)
      /\ \A x \in answers[this] \cup gone : \E y \in answers'[this] : Same(x, y)
      /\ \A y \in answers'[this] : \E x \in answers[this] \cup gone : Same(x, y)
  BY DeliveredIs
<1>2. /\ gone \subseteq waiting /\ waiting' = waiting \ gone /\ inbox' = inbox
      /\ Here'.tasks = waiting' /\ Here.tasks = waiting /\ Here'.triggers = Here.triggers
      /\ Pending' = answers'[this] \cup inbox
  BY WorkingKeeps, HereIs DEF Delivers, Works, Pending
<1>3. Known(Here, Pending) /\ ResultsOrdered
  BY DEF Saved, SavedInv, Safe
<1>4. \A x, y : Same(x, y) => x.taskid = y.taskid /\ x.location_ID = y.location_ID
  BY DEF Same
<1>5. Known(Here', Pending')
  <2>1. Unique(Here'.tasks)
    BY <1>2, <1>3 DEF Known, Unique
  <2>2. Apart(Here'.tasks, Pending')
    <3>1. \A x \in waiting, y \in gone : x.taskid = y.taskid => x = y
      BY <1>2, <1>3 DEF Known, Unique
    <3> QED
      BY <1>1, <1>2, <1>4, <3>1 DEF Apart, Pending
  <2>3. \A x \in Here'.tasks \cup Pending' : HasTrigger(Here', x)
    <3>1. \A x \in waiting \cup Pending : HasTrigger(Here', x)
      BY <1>2, <1>3 DEF Known, HasTrigger
    <3>2. \A y \in answers'[this] : HasTrigger(Here', y)
      BY <1>1, <1>2, <1>4, <3>1 DEF HasTrigger, Pending
    <3> QED
      BY <1>2, <3>1, <3>2 DEF Pending
  <2> QED
    BY <1>2, <1>3, <2>1, <2>2, <2>3 DEF Known
<1>6. Apart(answers'[this], inbox)
  BY <1>1, <1>2, <1>3, <1>4 DEF ResultsOrdered, Apart, Pending
<1>7. Ids(Pending) \subseteq Ids(Pending')
  BY <1>1, <1>2, <1>4 DEF Ids, Pending
<1>8. ASSUME NEW i \in Ids(answers'[this]) \ Ids(answers[this])
      PROVE  i \notin Ids(Pending) /\ i \in Ids(Pending')
  <2>1. PICK y \in answers'[this] : y.taskid = i
    BY DEF Ids
  <2>2. PICK x \in answers[this] \cup gone : Same(x, y)
    BY <1>1, <2>1
  <2>3. x \in gone
    BY <1>4, <2>1, <2>2 DEF Ids
  <2> QED
    BY <1>1, <1>2, <1>4, <2>1, <2>2, <2>3 DEF Ids, Apart
<1>9. Ids(inbox) \subseteq Ids(Pending)
  BY DEF Ids, Pending
<1>10. ASSUME NEW p \in before'
       PROVE  /\ p \in Ids(Pending') \X Ids(Pending') /\ p[1] # p[2]
              /\ ~(p[1] \in Ids(answers'[this]) /\ p[2] \in Ids(inbox))
  <2>1. CASE p \in before
    <3>1. /\ p \in Ids(Pending) \X Ids(Pending) /\ p[1] # p[2]
          /\ ~(p[1] \in Ids(answers[this]) /\ p[2] \in Ids(inbox))
      BY <1>3, <2>1 DEF ResultsOrdered
    <3> QED
      BY <1>7, <1>8, <3>1
  <2>2. CASE p \in Ids(Pending) \X (Ids(answers'[this]) \ Ids(answers[this]))
    BY <1>7, <1>8, <1>9, <2>2
  <2> QED
    BY <2>1, <2>2 DEF Works
<1>11. ResultsOrdered'
  <2>1. before' \subseteq Ids(Pending') \X Ids(Pending')
    BY <1>10
  <2> QED
    BY <1>1, <1>2, <1>3, <1>6, <1>10, <2>1 DEF ResultsOrdered, Unique
<1> QED
  BY <1>5, <1>11

\* The writes of location l that succeeded stay, unless new ones come.
LEMMA WrittenStays ==
  ASSUME Saved, Works, NEW gone, NEW new, Delivers(gone, new), NEW l
  PROVE  /\ Written(Pending, l) \subseteq Written(Pending', l)
         /\ (\A n \in new : n.ok => IsReadTask(n) \/ n.location_ID # l)
              => Written(Pending', l) = Written(Pending, l)
<1>1. Pending' = answers'[this] \cup inbox
  BY DEF Pending, Works
<1>2. Written(Pending, l) \subseteq Written(Pending', l)
  BY <1>1, DeliveredIs DEF Written, Pending
<1>3. ASSUME \A n \in new : n.ok => IsReadTask(n) \/ n.location_ID # l,
             NEW y \in Written(Pending', l)
      PROVE  y \in Written(Pending, l)
  <2>1. \/ y \in Pending
        \/ y \in new
        \/ \E x \in answers[this], n \in new : Same(x, y) /\ Mends(n, x, y)
    BY <1>1, DeliveredIs DEF Pending, Written
  <2>2. y.location_ID = l /\ ~IsReadTask(y) /\ y.ok
    BY DEF Written
  <2> QED
    BY <1>3, <2>1, <2>2 DEF Written, Same, Mends, IsReadTask
<1> QED
  BY <1>2, <1>3

\* Where no new write succeeds, what was fresh stays fresh.
LEMMA FreshDelivered ==
  ASSUME Saved, Works, NEW gone, NEW new, Delivers(gone, new), NEW l \in Location,
         \A n \in new : n.ok => IsReadTask(n) \/ n.location_ID # l,
         rows' = rows, BeingWritten(l) => operation'[l] = operation[l]
  PROVE  FreshContents[l] \subseteq (FreshContents')[l]
<1>1. Written(Pending', l) = Written(Pending, l) /\ left_behind' = left_behind
      /\ before \subseteq before'
  BY WrittenStays, WorkingKeeps DEF Works
<1>2. BeingWritten(l) => BeingWritten(l)'
  BY DEF BeingWritten
<1>3. \A data : Fresh(l, data) => Fresh(l, data)'
  BY <1>1, <1>2 DEF Fresh
<1> QED
  BY <1>1, <1>3 DEF FreshContents

\* The reads that are answered stay true.
LEMMA ReadsDelivered ==
  ASSUME Saved, Works, NEW gone, NEW new, Delivers(gone, new), rows' = rows,
         \A n \in new : IsReadTask(n) /\ n.location_ID \notin Guest => Like(n.location_data, rows[n.location_ID])
  PROVE  ReadsTrue' /\ \A r \in Pending' : IsReadTask(r) => r.ok
<1>1. /\ Pending' = answers'[this] \cup inbox /\ inbox' = inbox
      /\ left_behind' = left_behind /\ Loaded(Here') = Loaded(Here)
  BY WorkingKeeps DEF Pending, Works
<1>2. /\ new \subseteq answers'[this]
      /\ \A x \in answers[this] \cup gone : \E y \in answers'[this] : Same(x, y)
      /\ \A y \in answers'[this] : \/ y \in new
                                   \/ y \in answers[this]
                                   \/ \E x \in answers[this], n \in new : Same(x, y) /\ Mends(n, x, y)
  BY DeliveredIs
<1>3. \A r \in Pending : IsReadTask(r) => r.ok
  BY DEF Saved, SavedInv
<1>4. \A r \in Pending' : IsReadTask(r) => r.ok
  BY <1>1, <1>3 DEF Works, IsReadTask, Pending
<1>5. ASSUME NEW r \in Pending', IsReadTask(r), r.location_ID \notin Guest \cup left_behind
      PROVE  \/ Like(r.location_data, rows[r.location_ID])
             \/ r \in inbox /\ r.location_ID \in Loaded(Here)
             \/ r \in answers'[this] /\ \E x \in waiting' \cup answers'[this] :
                  x.location_ID = r.location_ID /\ ~IsReadTask(x)
  <2>1. CASE r \in new
    BY <1>5, <2>1
  <2>2. CASE r \in Pending
    <3>1. \/ Like(r.location_data, rows[r.location_ID])
          \/ r \in inbox /\ r.location_ID \in Loaded(Here)
          \/ r \in answers[this] /\ \E x \in waiting \cup answers[this] :
               x.location_ID = r.location_ID /\ ~IsReadTask(x)
      BY <1>5, <2>2 DEF Saved, SavedInv, ReadsTrue
    <3>2. ASSUME r \in answers[this], NEW x \in waiting \cup answers[this],
                 x.location_ID = r.location_ID, ~IsReadTask(x)
          PROVE  r \in answers'[this] /\ \E y \in waiting' \cup answers'[this] :
                   y.location_ID = r.location_ID /\ ~IsReadTask(y)
      <4>1. r \in answers'[this]
        <5>1. r.ok
          BY <1>3, <1>5, <2>2
        <5> QED
          BY <3>2, <5>1, DeliveredIs
      <4>2. CASE x \in waiting'
        BY <3>2, <4>1, <4>2
      <4>3. CASE x \in answers[this] \cup gone
        <5>1. PICK y \in answers'[this] : Same(x, y)
          BY <1>2, <4>3
        <5>2. y.location_ID = r.location_ID /\ ~IsReadTask(y)
          BY <3>2, <5>1 DEF Same
        <5> QED
          BY <4>1, <5>2
      <4> QED
        BY <3>2, <4>2, <4>3 DEF Delivers
    <3> QED
      BY <3>1, <3>2
  <2>3. CASE \E x \in answers[this], n \in new : Same(x, r) /\ Mends(n, x, r)
    <3>1. PICK x \in answers[this], n \in new : Same(x, r) /\ Mends(n, x, r)
      BY <2>3
    <3>2. IsReadTask(x) /\ ~x.ok /\ x \in Pending
      BY <1>5, <3>1 DEF Same, Mends, Pending
    <3> QED
      BY <1>3, <3>2
  <2> QED
    BY <1>1, <1>2, <2>1, <2>2, <2>3 DEF Pending
<1>6. ReadsTrue'
  BY <1>1, <1>5 DEF ReadsTrue
<1> QED
  BY <1>4, <1>6

\* A step of the queue that answers tasks.
LEMMA DeliverySaved ==
  ASSUME Saved, Works, NEW gone, NEW new, Delivers(gone, new), rows' = rows,
         \A n \in new : IsReadTask(n) /\ n.location_ID \notin Guest => Like(n.location_data, rows[n.location_ID]),
         \A l \in Location : FreshContents[l] \subseteq (FreshContents')[l],
         OperationsTrue'
  PROVE  SavedInv'
<1>1. Known(Here', Pending') /\ ResultsOrdered'
  BY DeliveredKnown
<1>2. SafeHere'
  BY <1>1, QueueSafe
<1>3. ReadsTrue' /\ \A r \in Pending' : IsReadTask(r) => r.ok
  BY ReadsDelivered
<1>4. ~deadline_over'
  BY DEF Works, Saved, SavedInv
<1> QED
  BY <1>1, <1>2, <1>3, <1>4 DEF SavedInv, SafeHere, StepsNow

LEMMA ExpireSaved ==
  ASSUME Calm, Saved, Works, NEW S \in SUBSET waiting, Expire(S)
  PROVE  SavedInv'
<1> DEFINE answer(u) == Answer(u, u.direction, FALSE, u.location_data)
           new == {answer(u) : u \in S}
<1>1. waiting' = waiting \ S /\ UNCHANGED <<operation, rows>>
  BY DEF Expire
<1>2. S \subseteq TaskOf /\ this \in Group /\ \A u \in S : u.group_id = this
  BY HereIs, EngineIs, EngineAssumption DEF Saved, EngineInv, Good, TaskOf
<1>3. ASSUME NEW u \in S
      PROVE  answer(u) \in Result /\ ~answer(u).ok /\ Same(u, answer(u))
             /\ answer(u).direction = u.direction
  BY <1>2, <1>3 DEF Answer, Result, TaskOf, IsReadTask, Same
<1>4. answers'[this] = Deliver(this, new)
  <2>1. {u \in S : u.group_id = this} = S
    BY <1>2
  <2>2. answers' = [g \in Group |-> Deliver(g, {answer(t) : t \in {u \in S : u.group_id = g}})]
    BY Zenon DEF Expire
  <2> HIDE DEF answer
  <2> QED
    BY <1>2, <2>1, <2>2
<1> HIDE DEF answer
<1>5. Delivers(S, new)
  <2>1. Unique(new)
    <3>1. \A u, v \in waiting : u.taskid = v.taskid => u = v
      BY HereIs DEF Saved, SavedInv, Safe, Known, Unique
    <3> QED
      BY <1>3, <3>1 DEF Unique, Same
  <2> QED
    BY <1>1, <1>3, <1>4, <2>1 DEF Delivers
<1>6. \A n \in new : ~n.ok
  BY <1>3
<1> HIDE DEF new
<1>7. \A n \in new : ~IsReadTask(n)
  <2>1. \A n \in new : n \in answers'[this]
    BY <1>5, DeliveredIs
  <2> QED
    BY <1>6, <2>1 DEF Works, IsReadTask
<1>8. \A l \in Location : FreshContents[l] \subseteq (FreshContents')[l]
  BY <1>1, <1>5, <1>6, FreshDelivered
<1>9. OperationsTrue'
  <2> SUFFICES ASSUME NEW k \in Location, operation[k] # NoOperation
               PROVE  /\ operation[k].task \in waiting' /\ operation[k].task.location_ID = k
                      /\ operation[k].ok /\ k \notin Guest => Like(operation[k].location_data, rows[k])
                      /\ IsReadTask(operation[k].task) => operation[k].ok
    BY <1>1 DEF OperationsTrue
  <2>1. /\ operation[k].task \in waiting /\ operation[k].task.location_ID = k
        /\ operation[k].ok /\ k \notin Guest => Like(operation[k].location_data, rows[k])
        /\ IsReadTask(operation[k].task) => operation[k].ok
    BY DEF Saved, SavedInv, OperationsTrue
  <2>2. operation[k].task \notin S
    <3> SUFFICES ASSUME operation[k].task \in S
                 PROVE  FALSE
      OBVIOUS
    <3>1. MayExpire(operation[k].task)
      BY DEF Expire
    <3>2. operation[k].task.taskid \in Nat
      BY <1>2 DEF TaskOf, Id
    <3> QED
      BY <2>1, <3>1, <3>2 DEF MayExpire
  <2> QED
    BY <1>1, <2>1, <2>2
<1> QED
  BY <1>1, <1>5, <1>7, <1>8, <1>9, DeliverySaved

LEMMA FinishSaved ==
  ASSUME Calm, Saved, Works, NEW l \in Location, Finish(l)
  PROVE  SavedInv'
<1> DEFINE op == operation[l]
           covered == IF op.ok THEN AnsweredBy(op.task) ELSE {}
           answer(u) == Answer(u, op.task.direction, TRUE, op.location_data)
           new == {answer(u) : u \in covered}
<1>1. /\ op # NoOperation /\ operation' = [operation EXCEPT ![l] = NoOperation]
      /\ waiting' = waiting \ covered /\ rows' = rows
  BY DEF Finish
<1>2. /\ op \in Performed /\ waiting \subseteq TaskOf /\ this \in Group /\ l \in DOMAIN operation
      /\ \A u \in waiting : u.group_id = this
  BY <1>1, HereIs, EngineIs, EngineAssumption DEF Saved, EngineInv, Good, Around, TaskOf
<1>3. op.task \in TaskOf /\ op.location_data \in LoadedContent /\ op.ok \in BOOLEAN
  BY <1>2 DEF Performed
<1>4. /\ op.task \in waiting /\ op.task.location_ID = l
      /\ op.ok /\ l \notin Guest => Like(op.location_data, rows[l])
      /\ IsReadTask(op.task) => op.ok
  BY <1>1 DEF Saved, SavedInv, OperationsTrue
<1>5. /\ covered \subseteq waiting /\ (covered # {} => op.ok)
      /\ \A u \in covered : (IsReadTask(u) <=> IsReadTask(op.task)) /\ u.location_ID = l
      /\ op.ok => op.task \in covered
  BY <1>3, <1>4 DEF AnsweredBy, TaskOf, Id
<1>6. answers'[this] = Deliver(this, new)
  <2>1. {u \in covered : u.group_id = this} = covered
    BY <1>2, <1>5
  <2>2. answers' = [g \in Group |-> Deliver(g, {answer(u) : u \in {v \in covered : v.group_id = g}})]
    BY Zenon DEF Finish
  <2> HIDE DEF answer, covered
  <2> QED
    BY <1>2, <2>1, <2>2
<1> HIDE DEF covered, op
<1>7. ASSUME NEW u \in covered
      PROVE  /\ answer(u) \in Result /\ answer(u).ok /\ Same(u, answer(u))
             /\ answer(u).direction = op.task.direction /\ answer(u).location_ID = l
             /\ answer(u).location_data = op.location_data
  <2>1. u \in TaskOf /\ op.task.direction \in Direction
    BY <1>2, <1>3, <1>5 DEF TaskOf
  <2>2. answer(u) \in Result
    BY <1>3, <2>1 DEF Answer, Result, TaskOf
  <2>3. /\ answer(u).taskid = u.taskid /\ answer(u).location_ID = u.location_ID
        /\ answer(u).direction = op.task.direction /\ answer(u).ok
        /\ answer(u).location_data = op.location_data
    BY DEF Answer
  <2> QED
    BY <1>5, <2>2, <2>3 DEF Same, IsReadTask
<1> HIDE DEF answer
<1>8. Delivers(covered, new)
  <2>1. Unique(new)
    <3>1. \A u, v \in waiting : u.taskid = v.taskid => u = v
      BY HereIs DEF Saved, SavedInv, Safe, Known, Unique
    <3> QED
      BY <1>5, <1>7, <3>1 DEF Unique, Same
  <2> QED
    BY <1>1, <1>5, <1>6, <1>7, <2>1 DEF Delivers
<1>9. \A n \in new : /\ op.ok /\ n.ok /\ n.location_ID = l /\ n.location_data = op.location_data
                     /\ IsReadTask(n) <=> IsReadTask(op.task)
  BY <1>5, <1>7 DEF IsReadTask
<1>10. op.ok => \E n \in new : n.taskid = op.task.taskid
  BY <1>5, <1>7 DEF Same
<1> HIDE DEF new
<1>11. /\ operation'[l] = NoOperation
       /\ \A k \in Location : k # l => operation'[k] = operation[k]
  BY <1>1, <1>2
<1>12. ASSUME NEW k \in Location
       PROVE  FreshContents[k] \subseteq (FreshContents')[k]
  <2>1. CASE k # l \/ ~op.ok \/ IsReadTask(op.task)
    <3>1. \A n \in new : n.ok => IsReadTask(n) \/ n.location_ID # k
      BY <1>9, <2>1
    <3>2. BeingWritten(k) => operation'[k] = operation[k]
      BY <1>11, <2>1 DEF BeingWritten, op
    <3> QED
      BY <1>1, <1>8, <3>1, <3>2, FreshDelivered
  <2>2. CASE k \in Guest \cup left_behind
    BY <2>2, WorkingKeeps DEF FreshContents
  <2>3. CASE k = l /\ op.ok /\ ~IsReadTask(op.task) /\ k \notin Guest \cup left_behind
    <3>1. PICK p \in new : p.taskid = op.task.taskid
      BY <1>10, <2>3
    <3>2. p \in answers'[this] /\ Like(op.location_data, rows[l]) /\ Apart(waiting, Pending)
      BY <1>4, <1>8, <2>3, DeliveredIs
    <3>3. p \in Written(Pending', l)
      BY <1>9, <2>3, <3>2 DEF Written, Pending
    <3>4. p.taskid \in Ids(answers'[this]) \ Ids(answers[this])
      BY <1>4, <3>1, <3>2 DEF Ids, Apart, Pending
    <3>5. ASSUME NEW q \in Written(Pending', l)
          PROVE  \/ Like(q.location_data, rows[l])
                 \/ <<q.taskid, p.taskid>> \in before'
      <4>1. q \in answers'[this] \cup inbox
        BY DEF Written, Pending, Works
      <4>2. \/ q \in Pending \/ q \in new
            \/ \E x \in answers[this], n \in new : Same(x, q) /\ Mends(n, x, q)
        BY <1>8, <4>1, DeliveredIs DEF Pending
      <4>3. CASE q \in Pending
        <5>1. q.taskid \in Ids(Pending)
          BY <4>3 DEF Ids
        <5> QED
          BY <3>4, <5>1 DEF Works
      <4>4. CASE q \in new
        BY <1>9, <3>2, <4>4
      <4>5. CASE \E x \in answers[this], n \in new : Same(x, q) /\ Mends(n, x, q)
        BY <1>9, <3>2, <4>5 DEF Mends
      <4> QED
        BY <4>2, <4>3, <4>4, <4>5
    <3>6. Like(p.location_data, rows'[l])
      BY <1>1, <1>9, <3>2
    <3>7. \A data : Fresh(l, data)'
      BY <1>1, <3>3, <3>5, <3>6 DEF Fresh
    <3> QED
      BY <2>3, <3>7 DEF FreshContents
  <2> QED
    BY <1>3, <2>1, <2>2, <2>3
<1>13. OperationsTrue'
  <2> SUFFICES ASSUME NEW k \in Location, operation'[k] # NoOperation
               PROVE  /\ operation'[k].task \in waiting' /\ operation'[k].task.location_ID = k
                      /\ operation'[k].ok /\ k \notin Guest =>
                           Like(operation'[k].location_data, rows'[k])
                      /\ IsReadTask(operation'[k].task) => operation'[k].ok
    BY DEF OperationsTrue
  <2>1. k # l /\ operation'[k] = operation[k]
    BY <1>11
  <2>2. /\ operation[k].task \in waiting /\ operation[k].task.location_ID = k
        /\ operation[k].ok /\ k \notin Guest => Like(operation[k].location_data, rows[k])
        /\ IsReadTask(operation[k].task) => operation[k].ok
    BY <2>1 DEF Saved, SavedInv, OperationsTrue
  <2>3. operation[k].task \notin covered
    BY <1>5, <2>1, <2>2
  <2> QED
    BY <1>1, <2>1, <2>2, <2>3
<1>14. \A n \in new : IsReadTask(n) /\ n.location_ID \notin Guest =>
                        Like(n.location_data, rows[n.location_ID])
  BY <1>4, <1>9
<1> QED
  BY <1>1, <1>8, <1>12, <1>13, <1>14, DeliverySaved

LEMMA QueueSaved ==
  ASSUME Calm, Saved, Queue
  PROVE  SavedInv' /\ left_behind' = left_behind
<1>1. Works
  <2>1. Ids(Pending) = Ids(answers[this] \cup inbox)
    BY DEF Pending
  <2> QED
    BY <2>1 DEF Queue, Works, Calm
<1>2. left_behind' = left_behind
  BY <1>1, WorkingKeeps
<1>3. StoreStep
  BY DEF Queue
<1>4. CASE \E t \in waiting : Perform(t)
  BY <1>1, <1>2, <1>4, PerformSaved
<1>5. CASE \E l \in Location : Finish(l)
  BY <1>1, <1>2, <1>5, FinishSaved
<1>6. CASE \E S \in (SUBSET waiting) \ {{}} : Expire(S)
  BY <1>1, <1>2, <1>6, ExpireSaved
<1> QED
  BY <1>3, <1>4, <1>5, <1>6 DEF StoreStep

LEMMA InitSaved ==
  ASSUME Calm, Init
  PROVE  SavedInv
<1>1. /\ Here.triggers = {} /\ Here.tasks = {} /\ waiting = {} /\ answers[this] = {} /\ inbox = {}
      /\ before = {} /\ Loaded(Here) = {} /\ Pending = {} /\ ~deadline_over
      /\ \A l \in Location : operation[l] = NoOperation
  BY HereIs, EngineAssumption DEF Init, StoreInit, Loaded, Pending, Calm
<1>2. SafeHere
  BY <1>1, StepsNowAre DEF SafeHere, Safe, Known, Unique, Apart
<1>3. OperationsTrue
  BY <1>1 DEF OperationsTrue
<1>4. ResultsOrdered /\ ReadsTrue
  BY <1>1 DEF ResultsOrdered, ReadsTrue, Unique, Apart
<1> QED
  BY <1>1, <1>2, <1>3, <1>4 DEF SavedInv, SafeHere, StepsNow

LEMMA SavedNext ==
  ASSUME Calm, Saved, [Next]_vars
  PROVE  Saved' /\ \A l \in left_behind' \ left_behind : MayLeave(l)
<1>1. EngineInv'
  BY NextOK DEF Saved
<1>2. SavedInv' /\ \A l \in left_behind' \ left_behind : MayLeave(l)
  <2>1. CASE GroupStep
    BY <2>1, IntervalSecondSaved, WaitForLocationsFlushSaved, TakeResultsSaved, ExecuteTriggerSaved
       DEF GroupStep
  <2>2. CASE Outside
    BY <2>2, OutsideSaved
  <2>3. CASE Queue
    BY <2>3, QueueSaved
  <2>4. CASE UNCHANGED vars
    <3>1. UNCHANGED <<store_vars, engine_vars, inbox, before>> /\ ~deadline_over'
      BY <2>4 DEF vars, Saved, SavedInv
    <3> QED
      BY <3>1, NothingSaved
  <2> QED
    BY <2>1, <2>2, <2>3, <2>4 DEF Next
<1> QED
  BY <1>1, <1>2 DEF Saved

\* While reads succeed and replies arrive, and the logic makes no upcalls but
\* flush and release, what the engine takes for saved is in the database, or in
\* an answer or an operation that comes before anything else of its location.
THEOREM SavedAlways ==
  ASSUME Calm
  PROVE  Spec => []Saved
<1>1. Init => Saved
  BY InitOK, InitSaved DEF Saved
<1>2. Saved /\ [Next]_vars => Saved'
  BY SavedNext
<1> QED
  BY <1>1, <1>2, PTL DEF Spec

\* Under the same conditions, what a location takes for confirmed is its row
\* when it waits for no write: AddLocationDBTaskWrite may skip a write of it.
THEOREM ConfirmedIsRowAlways ==
  ASSUME Calm
  PROVE  Spec => []ConfirmedIsRow
<1>1. Saved => ConfirmedIsRow
  <2> SUFFICES ASSUME Saved, NEW l \in Loaded(Here) \ (Guest \cup left_behind),
                      status_map[l].write_tasks = {}, ~status_map[l].ready
               PROVE  \/ status_map[l].confirmed = rows[l]
                      \/ status_map[l].confirmed \in {EmptyData, NoData} /\ rows[l] = Missing
    BY DEF ConfirmedIsRow
  <2>1. Sound(Here, Pending, StepsNow, {}, {})
    BY SoundHere
  <2>2. l \in Location
    BY <2>1, EngineIs DEF Sound, Good, Loaded
  <2>3. Fresh(l, status_map[l].confirmed)
    <3>1. RecordSafe(Here, StepsNow, {}, l)
      BY <2>1 DEF Sound, Safe
    <3>2. status_map[l].confirmed \in FreshContents[l]
      BY <3>1, StepsNowAre, HereIs DEF RecordSafe
    <3> QED
      BY <2>2, <3>2 DEF FreshContents
  <2>4. \A x \in waiting \cup Pending : x.location_ID = l => IsReadTask(x)
    BY WriterLoaded
  <2>5. ~BeingWritten(l)
    BY <2>2, <2>4 DEF BeingWritten, Saved, SavedInv, OperationsTrue
  <2>6. Written(Pending, l) = {}
    BY <2>4 DEF Written
  <2> QED
    BY <2>3, <2>5, <2>6 DEF Fresh, Like
<1> QED
  BY <1>1, SavedAlways, PTL

\* Under the same conditions, only a location that was found ready for the gentle
\* close, or a gamestate that is marked clean though it has changed or the library
\* may have failed to give its content for a flush, leaves a write behind when
\* EraseOldLocations or WriteChangedLocationsToDatabaseGroupShutdown lets it go.
THEOREM NoWriteAfterReleaseAlways ==
  ASSUME Calm
  PROVE  Spec => NoWriteAfterRelease
<1>1. Saved /\ [Next]_vars =>
        [\A l \in left_behind' \ left_behind :
           \/ status_map[l].ready
           \/ l \in Gamestate /\ (l \in Throws \/ script[l] # status_map[l].confirmed)]_vars
  BY SavedNext DEF MayLeave
<1> QED
  BY <1>1, SavedAlways, PTL DEF Spec, NoWriteAfterRelease

=============================================================================
