---------------------------- MODULE LocationLease ----------------------------
(***************************************************************************)
(* Which group may use a location.  Groups (server_game/ggroup*.cpp) send  *)
(* heartbeats to node balancers (server_stats/gnodebalancermanager*.cpp),  *)
(* several of which share one database: rtm_locations holds the group of a *)
(* location, rtm_group_heartbeat the last heartbeat of a group.  A group   *)
(* whose heartbeat is too old loses its locations; it must have stopped    *)
(* writing them by then.                                                   *)
(*                                                                         *)
(* A group talks to one balancer at a time over a connection that keeps    *)
(* the order.  The main thread of a game server asks any balancer where a  *)
(* location is and passes the player on to the group that was named.       *)
(* All the clocks are one clock.                                           *)
(***************************************************************************)
EXTENDS Integers, Sequences, SequencesExt

CONSTANTS
  Group, Balancer, Location,
  NoGroup,    \* no valid row
  All,        \* the location "" of a release: every one of the group
  Interval,   \* GROUP_HEARTBEAT_, NODEBALANCER_GETGROUPS_INTERVAL_SECONDS
  Grace,      \* the 15 seconds a heartbeat may be on its way
  Margin,     \* the 5 seconds writing ends before the locations are freed
  QueryTime,  \* what a statement of the group takes at most
  Prompt,     \* does nothing overtake a release? (see Overtaken, Settled)
  Failing,    \* the statements of the balancers that may fail
  MaxTime, MaxQueue, MaxLinks \* bounds: clock, messages on a connection,
                              \* connections of a group

Statement == {"heartbeat", "release", "assign", "reload", "free"}

ASSUME LeaseAssumption ==
  /\ {Interval, Grace, Margin, QueryTime, MaxTime, MaxQueue, MaxLinks} \subseteq Nat
  /\ Grace + 1 < Interval /\ 0 < Margin /\ QueryTime <= Margin
  /\ NoGroup \notin Group /\ All \notin Location
  /\ Prompt \in BOOLEAN /\ Failing \subseteq Statement

Lifetime == 2 * Interval
EffectiveGroupStatus == {"ready", "busy", "stopped"}
Heartbeat == [status : EffectiveGroupStatus, last_beat : Nat]
Never == [status |-> "stopped", last_beat |-> 0]   \* no heartbeat is known

GroupMessage == [kind : {"beat"}, status : EffectiveGroupStatus, timestamp : Nat]
  \cup [kind : {"release"}, location : Location \cup {All}]
Response == [kind : {"beat"}, timestamp : Nat]
  \cup [kind : {"release"}, location : Location \cup {All}, result : BOOLEAN]

Idle == [step |-> "idle"]
Work == {Idle} \cup [step : {"assign"}, location : Location, group : Group]
  \cup [step : {"free"}, dead : SUBSET Group]

VARIABLES
  clock,
  rtm_locations,             \* the group of the valid row of a location
  rtm_group_heartbeat,
  game_groups,               \* what a balancer remembers of the heartbeats
  game_groups_ready,
  potentially_dead_game_groups,
  work,                      \* what a balancer is in the middle of
  status,                    \* of a group; "down" when its server is
  last_confirmed_heartbeat,
  write_locations_deadline,
  assigned_locations,
  links,                     \* the connections of a group, the last one open
  responses,                 \* on the open connection
  granted                    \* answers "location l is at group g" on their way

database == <<rtm_locations, rtm_group_heartbeat>>
balancer == <<game_groups, game_groups_ready, potentially_dead_game_groups, work>>
group == <<status, last_confirmed_heartbeat, write_locations_deadline, assigned_locations>>
network == <<links, responses, granted>>
vars == <<clock, database, balancer, group, network>>

TypeOK ==
  /\ clock \in Nat
  /\ rtm_locations \in [Location -> Group \cup {NoGroup}]
  /\ rtm_group_heartbeat \in [Group -> Heartbeat]
  /\ game_groups \in [Balancer -> [Group -> Heartbeat]]
  /\ game_groups_ready \in [Balancer -> SUBSET Group]
  /\ potentially_dead_game_groups \in [Balancer -> SUBSET Group]
  /\ work \in [Balancer -> Work]
  /\ status \in [Group -> {"Initializing", "Ready", "Releasing_Urgent", "Stopped", "down"}]
  /\ last_confirmed_heartbeat \in [Group -> Nat]
  /\ write_locations_deadline \in [Group -> Int]
  /\ assigned_locations \in [Group -> SUBSET Location]
  /\ links \in [Group -> Seq([to : Balancer, messages : Seq(GroupMessage)])]
  /\ responses \in [Group -> Seq(Response)]
  /\ granted \subseteq Location \X Group
  /\ \A g \in Group : status[g] = "down" => assigned_locations[g] = {} /\ responses[g] = <<>>

-----------------------------------------------------------------------------
(* Groups *)

\* A group that is ready also sends "busy" while its scripting engine is not
\* ready, and is taken for busy until its sockets are bound: both are left out.
GetEffectiveStatus(s) ==
  CASE s = "Ready" -> "ready" [] s = "Stopped" -> "stopped" [] OTHER -> "busy"

\* UpdateGroupHeartBeat and ReleaseLocation, as messages.
BeatOf(s) == [kind |-> "beat", status |-> GetEffectiveStatus(s), timestamp |-> clock]
ReleaseOf(l) == [kind |-> "release", location |-> l]

Open(g) == Len(links[g])
Sent(g) == links[g][Open(g)].messages
Send(g, messages) ==
  /\ Len(Sent(g)) + Len(messages) + Len(responses'[g]) <= MaxQueue
  /\ links' = [links EXCEPT ![g][Open(g)].messages = @ \o messages]

\* Heartbeats go out every minute, and every 5 seconds when one is overdue;
\* here at most one in a unit of time, beside those of a new status.
SendHeartbeat(g) ==
  /\ status[g] # "down"
  /\ last_confirmed_heartbeat[g] < clock
  /\ \A m \in ToSet(Sent(g)) \cup ToSet(responses[g]) :
       m.kind = "beat" => m.timestamp < clock
  /\ UNCHANGED <<clock, database, balancer, group, responses, granted>>
  /\ Send(g, <<BeatOf(status[g])>>)

\* Every 5 seconds in Initializing.
ReleaseAgain(g) ==
  /\ status[g] = "Initializing"
  /\ assigned_locations' = [assigned_locations EXCEPT ![g] = {}]
  /\ UNCHANGED <<clock, database, balancer, status, last_confirmed_heartbeat,
                 write_locations_deadline, responses, granted>>
  /\ Send(g, <<ReleaseOf(All)>>)

\* Mutant: writing goes on until the locations are freed, and beyond.
DeadlineWithoutMargin(timestamp) == timestamp + Lifetime + Margin

WriteDeadline(timestamp) == timestamp + Lifetime - Margin

ReceiveBeat(g) ==
  LET r == Head(responses[g]) IN
  /\ responses[g] # <<>> /\ r.kind = "beat"
  /\ responses' = [responses EXCEPT ![g] = Tail(@)]
  /\ IF r.timestamp = 0
     THEN UNCHANGED <<last_confirmed_heartbeat, write_locations_deadline,
                      assigned_locations, links>>
     ELSE /\ last_confirmed_heartbeat' = [last_confirmed_heartbeat EXCEPT ![g] = r.timestamp]
          /\ write_locations_deadline' = [write_locations_deadline EXCEPT ![g] =
               IF status[g] = "Stopped" THEN @ ELSE WriteDeadline(r.timestamp)]
          /\ IF status[g] = "Initializing"
             THEN /\ assigned_locations' = [assigned_locations EXCEPT ![g] = {}]
                  /\ Send(g, <<ReleaseOf(All)>>)
             ELSE UNCHANGED <<assigned_locations, links>>
  /\ UNCHANGED <<clock, database, balancer, status, granted>>

\* All that an earlier life of the group held is free: it gets ready.
BecomesReady(g, r) ==
  /\ r.result /\ r.location = All /\ status[g] = "Initializing"
  /\ last_confirmed_heartbeat[g] + Interval >= clock

ReceiveRelease(g) ==
  LET r == Head(responses[g]) IN
  /\ responses[g] # <<>> /\ r.kind = "release"
  /\ responses' = [responses EXCEPT ![g] = Tail(@)]
  /\ IF BecomesReady(g, r)
     THEN status' = [status EXCEPT ![g] = "Ready"] /\ Send(g, <<BeatOf("Ready")>>)
     ELSE UNCHANGED <<status, links>>
  /\ UNCHANGED <<clock, database, balancer, last_confirmed_heartbeat,
                 write_locations_deadline, assigned_locations, granted>>

\* No heartbeat was confirmed for too long: the group takes itself for dead.
Expire(g) ==
  /\ status[g] = "Ready"
  /\ last_confirmed_heartbeat[g] + Interval + Grace < clock
  /\ status' = [status EXCEPT ![g] = "Releasing_Urgent"]
  /\ UNCHANGED <<clock, database, balancer, last_confirmed_heartbeat,
                 write_locations_deadline, assigned_locations, responses, granted>>
  /\ Send(g, <<BeatOf("Releasing_Urgent")>>)

\* A location was written and thrown out (EraseOldLocations, the flush).
Unload(g, l) ==
  /\ status[g] \in {"Initializing", "Ready", "Releasing_Urgent"}
  /\ l \in assigned_locations[g]
  /\ assigned_locations' = [assigned_locations EXCEPT ![g] = @ \ {l}]
  /\ UNCHANGED <<clock, database, balancer, status, last_confirmed_heartbeat,
                 write_locations_deadline, responses, granted>>
  /\ Send(g, <<ReleaseOf(l)>>)

\* WaitForLocationsFlush has ended.
Stop(g) ==
  /\ status[g] = "Releasing_Urgent"
  /\ status' = [status EXCEPT ![g] = "Stopped"]
  /\ assigned_locations' = [assigned_locations EXCEPT ![g] = {}]
  /\ UNCHANGED <<clock, database, balancer, last_confirmed_heartbeat,
                 write_locations_deadline, responses, granted>>
  /\ Send(g, <<BeatOf("Stopped"), ReleaseOf(All)>>)

\* Everything the group has sent on its connection was answered.
Settled(g) == Sent(g) = <<>> /\ responses[g] = <<>>

Reanimate(g) ==
  /\ status[g] = "Stopped"
  /\ Prompt => Settled(g)
  /\ last_confirmed_heartbeat[g] + Grace >= clock
  /\ assigned_locations[g] = {}
  /\ status' = [status EXCEPT ![g] = "Initializing"]
  /\ last_confirmed_heartbeat' = [last_confirmed_heartbeat EXCEPT ![g] = 0]
  /\ UNCHANGED <<clock, database, balancer, write_locations_deadline,
                 assigned_locations, responses, granted>>
  /\ Send(g, <<BeatOf("Initializing")>>)

\* Is a release of the location, or a notice that the group stopped, still on
\* its way to a balancer?
Releasing(g, l) ==
  \E i \in 1..Open(g) : \E m \in ToSet(links[g][i].messages) :
    IF m.kind = "beat" THEN m.status = "stopped" ELSE m.location \in {l, All}

\* The answer "location l is at group g" is older than a release of l by g.
Overtaken(g, l) ==
  rtm_locations[l] # g \/ Releasing(g, l) \/ status[g] = "Initializing"

\* A player with the answer arrives, or a message for the location
\* (GGroupManager::RegisterLogic).  Others with the same answer may follow.
Register(g, l) ==
  /\ <<l, g>> \in granted
  /\ Prompt => ~Overtaken(g, l)
  /\ status[g] \notin {"Stopped", "down"}
  /\ assigned_locations' = [assigned_locations EXCEPT ![g] = @ \cup {l}]
  /\ granted' \in {granted, granted \ {<<l, g>>}}
  /\ UNCHANGED <<clock, database, balancer, status, last_confirmed_heartbeat,
                 write_locations_deadline, links, responses>>

\* A new connection starts with a heartbeat.  What the balancer has not read
\* from the old one is lost or, from a balancer that hangs, still to come.
Connect(g, b, s) ==
  \E old \in IF Prompt \/ links[g] = <<>> THEN {<<>>}
            ELSE {Front(links[g])} \cup (IF Sent(g) = <<>> THEN {} ELSE {links[g]}) :
    /\ Len(old) < MaxLinks
    /\ links' = [links EXCEPT ![g] =
         Append(old, [to |-> b, messages |-> <<BeatOf(s)>>])]

Reconnect(g, b) ==
  /\ status[g] # "down"
  /\ Connect(g, b, status[g])
  /\ responses' = [responses EXCEPT ![g] = <<>>]
  /\ UNCHANGED <<clock, database, balancer, group, granted>>

\* The server crashes, the balancer sees the connection end.
Crash(g) ==
  /\ status[g] # "down"
  /\ status' = [status EXCEPT ![g] = "down"]
  /\ assigned_locations' = [assigned_locations EXCEPT ![g] = {}]
  /\ responses' = [responses EXCEPT ![g] = <<>>]
  /\ granted' = {a \in granted : a[2] # g}
  /\ UNCHANGED <<clock, database, balancer, last_confirmed_heartbeat,
                 write_locations_deadline, links>>

Restart(g, b) ==
  /\ status[g] = "down"
  /\ status' = [status EXCEPT ![g] = "Initializing"]
  /\ last_confirmed_heartbeat' = [last_confirmed_heartbeat EXCEPT ![g] = 0]
  /\ write_locations_deadline' = [write_locations_deadline EXCEPT ![g] = 0]
  /\ Connect(g, b, "Initializing")
  /\ UNCHANGED <<clock, database, balancer, assigned_locations, responses, granted>>

-----------------------------------------------------------------------------
(* Balancers: one thread each *)

\* What the i-th connection of g holds for its balancer, and the rest of it.
\* A connection that was replaced goes when it has been read to its end.
Received(g, i) == Head(links[g][i].messages)
Take(g, i) ==
  LET rest == Tail(links[g][i].messages) IN
  links' = [links EXCEPT ![g] = IF i < Open(g) /\ rest = <<>> THEN RemoveAt(@, i)
                                ELSE [@ EXCEPT ![i].messages = rest]]
Reads(g, b, i, kind) ==
  /\ i \in 1..Open(g) /\ links[g][i].to = b /\ work[b] = Idle
  /\ links[g][i].messages # <<>> /\ Received(g, i).kind = kind

\* Mutant: a server that is down gets answers, too.
AnswerAnyhow(g, i, r) ==
  responses' = IF i = Open(g) THEN [responses EXCEPT ![g] = Append(@, r)] ELSE responses

Answer(g, i, r) ==
  responses' = IF i = Open(g) /\ status[g] # "down"
               THEN [responses EXCEPT ![g] = Append(@, r)] ELSE responses

\* A statement that fails may have been executed: its reply was lost.
Executed(failed, before, after) == IF failed THEN {before, after} ELSE {after}

\* Mutant: the group stays among the ready ones.
WithoutNone(b, groups) == game_groups_ready

Without(b, groups) == [game_groups_ready EXCEPT ![b] = @ \ groups]

\* The group's lease is not renewed while its locations are being freed.
BeingFreed(g) == \E b \in Balancer : work[b].step = "free" /\ g \in work[b].dead

ProcessGroupStatusUpdate(g, b, i, failed) ==
  LET m == Received(g, i)
      now == [status |-> m.status, last_beat |-> clock] IN
  /\ Reads(g, b, i, "beat") /\ (failed => "heartbeat" \in Failing)
  /\ Prompt => ~BeingFreed(g)
  /\ Take(g, i)
  /\ rtm_group_heartbeat' \in
       Executed(failed, rtm_group_heartbeat, [rtm_group_heartbeat EXCEPT ![g] = now])
  /\ Answer(g, i, [kind |-> "beat", timestamp |-> IF failed THEN 0 ELSE m.timestamp])
  /\ game_groups' = [game_groups EXCEPT ![b][g] = now]
  /\ game_groups_ready' =
       IF m.status # "ready" THEN Without(b, {g})
       ELSE IF game_groups[b][g].status = "ready" THEN game_groups_ready
       ELSE [game_groups_ready EXCEPT ![b] = @ \cup {g}]
  /\ UNCHANGED <<clock, rtm_locations, potentially_dead_game_groups, work, group, granted>>

\* The rows of g among the locations ls get invalid.
Free(g, ls) ==
  [l \in Location |-> IF l \in ls /\ rtm_locations[l] = g THEN NoGroup ELSE rtm_locations[l]]

ReleaseLocation(g, b, i, failed) ==
  LET m == Received(g, i) IN
  /\ Reads(g, b, i, "release") /\ (failed => "release" \in Failing)
  /\ Take(g, i)
  /\ rtm_locations' \in Executed(failed, rtm_locations,
       Free(g, IF m.location = All THEN Location ELSE {m.location}))
  /\ Answer(g, i, [kind |-> "release", location |-> m.location, result |-> ~failed])
  /\ UNCHANGED <<clock, rtm_group_heartbeat, balancer, group, granted>>

\* GetLocationAddress, 1.: a valid row is the answer.
AnswerValid(b, l) ==
  LET g == rtm_locations[l] IN
  /\ work[b] = Idle /\ g # NoGroup
  /\ granted' = granted \cup {<<l, g>>}
  /\ potentially_dead_game_groups' = [potentially_dead_game_groups EXCEPT ![b] =
       IF game_groups[b][g].status = "stopped" THEN @ \cup {g} ELSE @]
  /\ UNCHANGED <<clock, database, game_groups, game_groups_ready, work, group,
                 links, responses>>

\* 3. PickReadyGroup: groups with an old heartbeat are dropped on the way.
PickReadyGroup(b, l) ==
  LET old == {g \in game_groups_ready[b] : game_groups[b][g].last_beat + Lifetime < clock} IN
  /\ work[b] = Idle /\ rtm_locations[l] = NoGroup
  /\ \E dropped \in SUBSET old :
       /\ game_groups' = [game_groups EXCEPT ![b] =
            [g \in Group |-> IF g \in dropped THEN [@[g] EXCEPT !.status = "stopped"] ELSE @[g]]]
       /\ game_groups_ready' = Without(b, dropped)
       /\ \/ \E g \in game_groups_ready[b] \ old :
               work' = [work EXCEPT ![b] = [step |-> "assign", location |-> l, group |-> g]]
          \/ dropped = game_groups_ready[b] /\ dropped # {} /\ UNCHANGED work
  /\ UNCHANGED <<clock, database, potentially_dead_game_groups, group, network>>

\* 4. SELECT ... FOR UPDATE: another balancer may have been faster.
TakesRow(l) == rtm_locations[l] = NoGroup

\* 4. and 5., one transaction.  A failed one answers no.
AssignGroup(b, failed) ==
  LET l == work[b].location
      g == IF TakesRow(l) THEN work[b].group ELSE rtm_locations[l] IN
  /\ work[b].step = "assign" /\ (failed => "assign" \in Failing)
  /\ work' = [work EXCEPT ![b] = Idle]
  /\ rtm_locations' \in Executed(failed, rtm_locations, [rtm_locations EXCEPT ![l] = g])
  /\ granted' = IF failed THEN granted ELSE granted \cup {<<l, g>>}
  /\ UNCHANGED <<clock, rtm_group_heartbeat, game_groups, game_groups_ready,
                 potentially_dead_game_groups, group, links, responses>>

Alive(beat) == beat.last_beat + Lifetime > clock /\ beat.status # "stopped"

\* GetGroupsInfoFromSQL reads the heartbeats; its deadline may be at any time.
ReloadGroups(b, failed) ==
  LET expired == {g \in Group : game_groups[b][g] # Never
                                /\ game_groups[b][g].last_beat + Lifetime < clock}
      alive == {g \in Group : Alive(rtm_group_heartbeat[g])}
      dead == (potentially_dead_game_groups[b] \cup expired) \ alive IN
  /\ work[b] = Idle /\ (failed => "reload" \in Failing)
  /\ IF failed
     THEN /\ potentially_dead_game_groups' =
               [potentially_dead_game_groups EXCEPT ![b] = @ \cup expired]
          /\ game_groups' = [game_groups EXCEPT ![b] = [g \in Group |-> Never]]
          /\ game_groups_ready' = [game_groups_ready EXCEPT ![b] = {}]
          /\ UNCHANGED work
     ELSE /\ potentially_dead_game_groups' = [potentially_dead_game_groups EXCEPT ![b] = {}]
          /\ game_groups' = [game_groups EXCEPT ![b] =
               [g \in Group |-> IF g \in alive THEN rtm_group_heartbeat[g] ELSE Never]]
          /\ game_groups_ready' = [game_groups_ready EXCEPT ![b] =
               {g \in alive : /\ rtm_group_heartbeat[g].status = "ready"
                              /\ rtm_group_heartbeat[g].last_beat + Interval + Grace > clock}]
          /\ work' = [work EXCEPT ![b] = IF dead = {} THEN Idle ELSE [step |-> "free", dead |-> dead]]
  /\ UNCHANGED <<clock, database, group, network>>

\* The locations of the dead groups, one statement each.
FreeDeadGroup(b, g, failed) ==
  LET rest == work[b].dead \ {g} IN
  /\ work[b].step = "free" /\ g \in work[b].dead /\ (failed => "free" \in Failing)
  /\ rtm_locations' \in Executed(failed, rtm_locations, Free(g, Location))
  /\ work' = [work EXCEPT ![b] = IF rest = {} THEN Idle ELSE [@ EXCEPT !.dead = rest]]
  /\ UNCHANGED <<clock, rtm_group_heartbeat, game_groups, game_groups_ready,
                 potentially_dead_game_groups, group, network>>

-----------------------------------------------------------------------------
(* The system *)

\* Servers start over a database that an earlier life of them left behind.
Init ==
  /\ clock = Lifetime + 1
  /\ rtm_locations \in [Location -> Group \cup {NoGroup}]
  /\ rtm_group_heartbeat = [g \in Group |-> Never]
  /\ game_groups = [b \in Balancer |-> [g \in Group |-> Never]]
  /\ game_groups_ready = [b \in Balancer |-> {}]
  /\ potentially_dead_game_groups = [b \in Balancer |-> {}]
  /\ work = [b \in Balancer |-> Idle]
  /\ status = [g \in Group |-> "down"]
  /\ last_confirmed_heartbeat = [g \in Group |-> 0]
  /\ write_locations_deadline = [g \in Group |-> 0]
  /\ assigned_locations = [g \in Group |-> {}]
  /\ links = [g \in Group |-> <<>>]
  /\ responses = [g \in Group |-> <<>>]
  /\ granted = {}

\* IntervalSecond runs every second, and the flush of the locations throws out
\* what is left when the deadline has passed: both before the clock goes on.
Overdue(g) ==
  \/ status[g] = "Ready" /\ last_confirmed_heartbeat[g] + Interval + Grace < clock
  \/ status[g] = "Releasing_Urgent" /\ write_locations_deadline[g] <= clock

Tick ==
  /\ clock < MaxTime /\ clock' = clock + 1
  /\ Prompt => \A g \in Group : ~Overdue(g)
  /\ UNCHANGED <<database, balancer, group, network>>

GroupStep(g) ==
  \/ SendHeartbeat(g) \/ ReleaseAgain(g) \/ ReceiveBeat(g) \/ ReceiveRelease(g)
  \/ Expire(g) \/ Stop(g) \/ Reanimate(g) \/ Crash(g)
  \/ \E l \in Location : Unload(g, l) \/ Register(g, l)
  \/ \E b \in Balancer : Reconnect(g, b) \/ Restart(g, b)

BalancerStep(b) ==
  \/ \E failed \in BOOLEAN :
       \/ AssignGroup(b, failed)
       \/ ReloadGroups(b, failed)
       \/ \E g \in Group : FreeDeadGroup(b, g, failed)
       \/ \E g \in Group, i \in 1..MaxLinks :
            ProcessGroupStatusUpdate(g, b, i, failed) \/ ReleaseLocation(g, b, i, failed)
  \/ \E l \in Location : AnswerValid(b, l) \/ PickReadyGroup(b, l)

Next == Tick \/ (\E g \in Group : GroupStep(g)) \/ (\E b \in Balancer : BalancerStep(b))

Spec == Init /\ [][Next]_vars

-----------------------------------------------------------------------------
(* Properties *)

\* Statements of g, ones it began before the deadline included, may change
\* its locations in the database.
MayWrite(g) ==
  /\ status[g] \in {"Initializing", "Ready", "Releasing_Urgent"}
  /\ clock < write_locations_deadline[g] + QueryTime

\* A location that a group takes for its own and may still write has a valid
\* row that names this group: the balancers free it no sooner
\* (GetGroupsInfoFromSQL) than the group ceases to write (CheckWriteDeadline
\* of the workers, write_locations_deadline).
HeldIsAssigned ==
  \A g \in Group : MayWrite(g) => \A l \in assigned_locations[g] : rtm_locations[l] = g

\* The groups a balancer picks from are groups it knows to be ready: the list
\* and the map, changed in different places, do not drift apart
\* (ProcessGroupStatusUpdate, PickReadyGroup, GetGroupsInfoFromSQL).
ReadyIsKnown ==
  \A b \in Balancer : \A g \in game_groups_ready[b] : game_groups[b][g].status = "ready"

\* A valid row gets invalid before it names another group, whichever balancers
\* assign the location at the same time (GetLocationAddress).
NoDoubleAssignment ==
  [][\A l \in Location :
       rtm_locations[l] # NoGroup => rtm_locations'[l] \in {rtm_locations[l], NoGroup}]_vars
=============================================================================
