-------------------------- MODULE LocationLeaseProofs --------------------------
EXTENDS LocationLease, TLAPS

-----------------------------------------------------------------------------
(* No location goes from one group to another without being freed.  Only   *)
(* three actions write rtm_locations; every other leaves it as it is.      *)

Freed(l) == rtm_locations'[l] \in {rtm_locations[l], NoGroup}

RowsFunction == rtm_locations = [l \in Location |-> rtm_locations[l]]

LEMMA ExecutedEither ==
  ASSUME NEW failed, NEW before, NEW after, NEW x \in Executed(failed, before, after)
  PROVE  x = before \/ x = after
BY DEF Executed

\* Statements that free rows change them to NoGroup only.
LEMMA FreeFrees ==
  ASSUME NEW g, NEW ls, NEW failed, NEW l \in Location,
         rtm_locations' \in Executed(failed, rtm_locations, Free(g, ls))
  PROVE  Freed(l)
<1>1. CASE rtm_locations' = rtm_locations
  BY <1>1 DEF Freed
<1>2. CASE rtm_locations' = Free(g, ls)
  BY <1>2 DEF Freed, Free
<1> QED
  BY <1>1, <1>2, ExecutedEither

\* The transaction reads the row again before it writes (TakesRow): a row that
\* is valid by then keeps its group.
LEMMA AssignGroupKeeps ==
  ASSUME RowsFunction, NEW b, NEW failed, AssignGroup(b, failed),
         NEW l \in Location, rtm_locations[l] # NoGroup
  PROVE  Freed(l)
<1> DEFINE k == work[b].location
           g == IF TakesRow(k) THEN work[b].group ELSE rtm_locations[k]
<1>1. rtm_locations' = rtm_locations \/ rtm_locations' = [rtm_locations EXCEPT ![k] = g]
  BY ExecutedEither DEF AssignGroup
<1>2. CASE rtm_locations' = rtm_locations
  BY <1>2 DEF Freed
<1>3. CASE rtm_locations' = [rtm_locations EXCEPT ![k] = g] /\ l # k
  BY <1>3 DEF Freed, RowsFunction
<1>4. CASE rtm_locations' = [rtm_locations EXCEPT ![k] = g] /\ l = k
  BY <1>4 DEF Freed, RowsFunction, TakesRow
<1> QED
  BY <1>1, <1>2, <1>3, <1>4

LEMMA OtherStepsKeepRows ==
  ASSUME [Next]_vars,
         ~ \E b \in Balancer, failed \in BOOLEAN :
             \/ AssignGroup(b, failed)
             \/ \E g \in Group : FreeDeadGroup(b, g, failed)
             \/ \E g \in Group, i \in 1..MaxLinks : ReleaseLocation(g, b, i, failed)
  PROVE  rtm_locations' = rtm_locations
<1>1. CASE Tick
  BY <1>1 DEF Tick, database
<1>2. ASSUME NEW g \in Group, GroupStep(g)
      PROVE  rtm_locations' = rtm_locations
  BY <1>2, Zenon DEF GroupStep, SendHeartbeat, ReleaseAgain, ReceiveBeat, ReceiveRelease, Expire,
     Stop, Reanimate, Crash, Unload, Register, Reconnect, Restart, database
<1>3. ASSUME NEW b \in Balancer, BalancerStep(b)
      PROVE  rtm_locations' = rtm_locations
  BY <1>3, Zenon DEF BalancerStep, ReloadGroups, ProcessGroupStatusUpdate, AnswerValid,
     PickReadyGroup, database
<1>4. CASE UNCHANGED vars
  BY <1>4 DEF vars, database
<1> QED
  BY <1>1, <1>2, <1>3, <1>4 DEF Next

LEMMA RowsKeepDomain ==
  ASSUME RowsFunction, [Next]_vars
  PROVE  RowsFunction'
<1>1. ASSUME NEW b, NEW failed, AssignGroup(b, failed)
      PROVE  RowsFunction'
  BY <1>1, ExecutedEither DEF AssignGroup, RowsFunction
<1>2. ASSUME NEW g, NEW ls, NEW failed,
             rtm_locations' \in Executed(failed, rtm_locations, Free(g, ls))
      PROVE  RowsFunction'
  BY <1>2, ExecutedEither DEF Free, RowsFunction
<1>3. ASSUME NEW b, NEW failed, NEW g, FreeDeadGroup(b, g, failed)
      PROVE  RowsFunction'
  BY <1>2, <1>3 DEF FreeDeadGroup
<1>4. ASSUME NEW b, NEW failed, NEW g, NEW i, ReleaseLocation(g, b, i, failed)
      PROVE  RowsFunction'
  BY <1>2, <1>4, Zenon DEF ReleaseLocation
<1>5. CASE rtm_locations' = rtm_locations
  BY <1>5 DEF RowsFunction
<1> QED
  BY <1>1, <1>3, <1>4, <1>5, OtherStepsKeepRows

\* For any number of groups, balancers and locations, with or without failed
\* statements and overtaken answers: a row that names a group is freed before
\* it names another one (GNodeBalancerManager::GetLocationAddress,
\* ReleaseLocation, GetGroupsInfoFromSQL).
THEOREM NoStealing == Spec => NoDoubleAssignment
<1>1. Init => RowsFunction
  BY DEF Init, RowsFunction
<1>2. RowsFunction /\ [Next]_vars => RowsFunction'
  BY RowsKeepDomain
<1>3. RowsFunction /\ [Next]_vars =>
        [\A l \in Location :
           rtm_locations[l] # NoGroup => rtm_locations'[l] \in {rtm_locations[l], NoGroup}]_vars
  <2> SUFFICES ASSUME RowsFunction, [Next]_vars,
                      NEW l \in Location, rtm_locations[l] # NoGroup
               PROVE  Freed(l)
    BY DEF Freed
  <2>1. ASSUME NEW b, NEW failed, AssignGroup(b, failed)
        PROVE  Freed(l)
    BY <2>1, AssignGroupKeeps
  <2>2. ASSUME NEW b, NEW failed, NEW g, FreeDeadGroup(b, g, failed)
        PROVE  Freed(l)
    BY <2>2, FreeFrees DEF FreeDeadGroup
  <2>3. ASSUME NEW b, NEW failed, NEW g, NEW i, ReleaseLocation(g, b, i, failed)
        PROVE  Freed(l)
    <3> DEFINE m == Received(g, i)
    <3>1. rtm_locations' \in Executed(failed, rtm_locations,
            Free(g, IF m.location = All THEN Location ELSE {m.location}))
      BY <2>3, Zenon DEF ReleaseLocation
    <3> QED
      BY <3>1, FreeFrees
  <2>4. CASE rtm_locations' = rtm_locations
    BY <2>4 DEF Freed
  <2> QED
    BY <2>1, <2>2, <2>3, <2>4, OtherStepsKeepRows
<1> QED
  BY <1>1, <1>2, <1>3, PTL DEF Spec, NoDoubleAssignment

-----------------------------------------------------------------------------
(* The list of ready groups and the map of the groups.                     *)

Maps ==
  /\ game_groups = [b \in Balancer |-> [g \in Group |-> game_groups[b][g]]]
  /\ game_groups_ready \in [Balancer -> SUBSET Group]

\* A heartbeat that is not "ready" takes the group off the list; one that is
\* "ready" makes it so in the map, too.
LEMMA HeartbeatKeepsReady ==
  ASSUME Maps, ReadyIsKnown, NEW b \in Balancer, NEW g \in Group, NEW i, NEW failed,
         ProcessGroupStatusUpdate(g, b, i, failed)
  PROVE  (Maps /\ ReadyIsKnown)'
<1> DEFINE s == Received(g, i).status
           now == [status |-> s, last_beat |-> clock]
<1>1. game_groups' = [game_groups EXCEPT ![b][g] = now]
  BY DEF ProcessGroupStatusUpdate
<1>2. game_groups_ready' = IF s # "ready" THEN Without(b, {g})
        ELSE IF game_groups[b][g].status = "ready" THEN game_groups_ready
        ELSE [game_groups_ready EXCEPT ![b] = @ \cup {g}]
  BY DEF ProcessGroupStatusUpdate
<1>3. Maps'
  <2>1. game_groups' = [c \in Balancer |-> [h \in Group |-> game_groups'[c][h]]]
    BY <1>1 DEF Maps
  <2>2. game_groups_ready' \in [Balancer -> SUBSET Group]
    BY <1>2 DEF Maps, Without
  <2> QED
    BY <2>1, <2>2 DEF Maps
<1>4. ASSUME NEW c \in Balancer, NEW h \in game_groups_ready'[c]
      PROVE  game_groups'[c][h].status = "ready"
  <2>1. CASE c = b /\ h = g
    <3>1. s = "ready"
      BY <1>2, <1>4, <2>1 DEF Maps, Without
    <3>2. game_groups'[c][h] = now
      BY <1>1, <2>1 DEF Maps
    <3> QED
      BY <3>1, <3>2
  <2>2. CASE ~(c = b /\ h = g)
    <3>1. h \in game_groups_ready[c] /\ h \in Group
      BY <1>2, <1>4, <2>2 DEF Maps, Without
    <3>2. game_groups'[c][h] = game_groups[c][h]
      BY <1>1, <2>2, <3>1 DEF Maps
    <3> QED
      BY <3>1, <3>2 DEF ReadyIsKnown
  <2> QED
    BY <2>1, <2>2
<1> QED
  BY <1>3, <1>4 DEF ReadyIsKnown

\* A group with an old heartbeat leaves the list when the map calls it stopped.
LEMMA PickKeepsReady ==
  ASSUME Maps, ReadyIsKnown, NEW b \in Balancer, NEW l \in Location, PickReadyGroup(b, l)
  PROVE  (Maps /\ ReadyIsKnown)'
<1>1. PICK dropped :
        /\ game_groups' = [game_groups EXCEPT ![b] =
             [g \in Group |-> IF g \in dropped THEN [@[g] EXCEPT !.status = "stopped"] ELSE @[g]]]
        /\ game_groups_ready' = Without(b, dropped)
  BY DEF PickReadyGroup
<1>2. Maps'
  BY <1>1 DEF Maps, Without
<1>3. ASSUME NEW c \in Balancer, NEW h \in game_groups_ready'[c]
      PROVE  h \in game_groups_ready[c] /\ game_groups'[c][h] = game_groups[c][h]
  BY <1>1, <1>3 DEF Maps, Without
<1> QED
  BY <1>2, <1>3 DEF ReadyIsKnown

\* A reload fills list and map from the same rows, or empties the list.
LEMMA ReloadKeepsReady ==
  ASSUME Maps, ReadyIsKnown, NEW b \in Balancer, NEW failed, ReloadGroups(b, failed)
  PROVE  (Maps /\ ReadyIsKnown)'
<1>1. PICK beats, ready :
        /\ beats = [g \in Group |-> beats[g]]
        /\ game_groups' = [game_groups EXCEPT ![b] = beats]
        /\ game_groups_ready' = [game_groups_ready EXCEPT ![b] = ready]
        /\ ready \in SUBSET Group
        /\ \A g \in ready : beats[g].status = "ready"
  <2>1. CASE failed
    <3> DEFINE unknown == [g \in Group |-> Never]
               nobody == {}
    <3>1. /\ game_groups' = [game_groups EXCEPT ![b] = unknown]
          /\ game_groups_ready' = [game_groups_ready EXCEPT ![b] = nobody]
      BY <2>1 DEF ReloadGroups
    <3>2. nobody \in SUBSET Group /\ \A g \in nobody : unknown[g].status = "ready"
      OBVIOUS
    <3>3. unknown = [g \in Group |-> unknown[g]]
      OBVIOUS
    <3> HIDE DEF unknown, nobody
    <3> QED
      BY <3>1, <3>2, <3>3
  <2>2. CASE ~failed
    <3> DEFINE alive == {g \in Group : Alive(rtm_group_heartbeat[g])}
               read == [g \in Group |-> IF g \in alive THEN rtm_group_heartbeat[g] ELSE Never]
               listed == {g \in alive : /\ rtm_group_heartbeat[g].status = "ready"
                                        /\ rtm_group_heartbeat[g].last_beat + Interval + Grace > clock}
    <3>1. /\ game_groups' = [game_groups EXCEPT ![b] = read]
          /\ game_groups_ready' = [game_groups_ready EXCEPT ![b] = listed]
      BY <2>2 DEF ReloadGroups
    <3>2. listed \in SUBSET Group /\ \A g \in listed : read[g].status = "ready"
      OBVIOUS
    <3>3. read = [g \in Group |-> read[g]]
      OBVIOUS
    <3> HIDE DEF read, listed
    <3> QED
      BY <3>1, <3>2, <3>3
  <2> QED
    BY <2>1, <2>2
<1>2. Maps'
  BY <1>1 DEF Maps
<1>3. ASSUME NEW c \in Balancer, NEW h \in game_groups_ready'[c]
      PROVE  game_groups'[c][h].status = "ready"
  <2>1. CASE c = b
    BY <1>1, <1>3, <2>1 DEF Maps
  <2>2. CASE c # b
    BY <1>1, <1>3, <2>2 DEF Maps, ReadyIsKnown
  <2> QED
    BY <2>1, <2>2
<1> QED
  BY <1>2, <1>3 DEF ReadyIsKnown

LEMMA OtherStepsKeepMaps ==
  ASSUME [Next]_vars,
         ~ \E b \in Balancer :
             \/ \E l \in Location : PickReadyGroup(b, l)
             \/ \E failed \in BOOLEAN :
                  \/ ReloadGroups(b, failed)
                  \/ \E g \in Group, i \in 1..MaxLinks : ProcessGroupStatusUpdate(g, b, i, failed)
  PROVE  UNCHANGED <<game_groups, game_groups_ready>>
<1>1. CASE Tick
  BY <1>1 DEF Tick, balancer
<1>2. ASSUME NEW g \in Group, GroupStep(g)
      PROVE  UNCHANGED <<game_groups, game_groups_ready>>
  BY <1>2, Zenon DEF GroupStep, SendHeartbeat, ReleaseAgain, ReceiveBeat, ReceiveRelease, Expire,
     Stop, Reanimate, Crash, Unload, Register, Reconnect, Restart, balancer
<1>3. ASSUME NEW b \in Balancer, BalancerStep(b)
      PROVE  UNCHANGED <<game_groups, game_groups_ready>>
  BY <1>3, Zenon DEF BalancerStep, AssignGroup, FreeDeadGroup, ReleaseLocation, AnswerValid, balancer
<1>4. CASE UNCHANGED vars
  BY <1>4 DEF vars, balancer
<1> QED
  BY <1>1, <1>2, <1>3, <1>4 DEF Next

\* For any number of groups and balancers: a balancer picks only from groups
\* whose record it has as ready, through heartbeats, failed statements,
\* reloads and the dropping of old groups (PickReadyGroup,
\* ProcessGroupStatusUpdate, GetGroupsInfoFromSQL).
THEOREM ReadyListIsKnown == Spec => []ReadyIsKnown
<1>1. Init => Maps /\ ReadyIsKnown
  BY DEF Init, Maps, ReadyIsKnown
<1>2. Maps /\ ReadyIsKnown /\ [Next]_vars => (Maps /\ ReadyIsKnown)'
  <2> SUFFICES ASSUME Maps, ReadyIsKnown, [Next]_vars
               PROVE  (Maps /\ ReadyIsKnown)'
    OBVIOUS
  <2>1. CASE UNCHANGED <<game_groups, game_groups_ready>>
    BY <2>1 DEF Maps, ReadyIsKnown
  <2> QED
    BY <2>1, HeartbeatKeepsReady, PickKeepsReady, ReloadKeepsReady, OtherStepsKeepMaps
<1> QED
  BY <1>1, <1>2, PTL DEF Spec

-----------------------------------------------------------------------------
(* Types.                                                                  *)

Link == [to : Balancer, messages : Seq(GroupMessage)]
GroupTypes ==
  /\ status \in [Group -> {"Initializing", "Ready", "Releasing_Urgent", "Stopped", "down"}]
  /\ last_confirmed_heartbeat \in [Group -> Nat]
  /\ write_locations_deadline \in [Group -> Int]
  /\ assigned_locations \in [Group -> SUBSET Location]
  /\ links \in [Group -> Seq(Link)]
  /\ responses \in [Group -> Seq(Response)]
  /\ granted \subseteq Location \X Group
  /\ \A g \in Group : status[g] = "down" => assigned_locations[g] = {} /\ responses[g] = <<>>
  /\ \A g \in Group : status[g] # "down" => links[g] # <<>>

BalancerTypes ==
  /\ clock \in Nat
  /\ rtm_locations \in [Location -> Group \cup {NoGroup}]
  /\ rtm_group_heartbeat \in [Group -> Heartbeat]
  /\ game_groups \in [Balancer -> [Group -> Heartbeat]]
  /\ game_groups_ready \in [Balancer -> SUBSET Group]
  /\ potentially_dead_game_groups \in [Balancer -> SUBSET Group]
  /\ work \in [Balancer -> Work]

TypeInv == BalancerTypes /\ GroupTypes

LinksKept == \A h \in Group : links[h] # <<>> => links'[h] # <<>>

LEMMA BeatType ==
  ASSUME NEW s, clock \in Nat
  PROVE  BeatOf(s) \in GroupMessage
<1>1. GetEffectiveStatus(s) \in EffectiveGroupStatus
  BY DEF GetEffectiveStatus, EffectiveGroupStatus
<1> QED
  BY <1>1 DEF BeatOf, GroupMessage

LEMMA ReleaseType ==
  ASSUME NEW l \in Location \cup {All}
  PROVE  ReleaseOf(l) \in GroupMessage
BY DEF ReleaseOf, GroupMessage

LEMMA SendType ==
  ASSUME TypeInv, NEW g \in Group, NEW ms \in Seq(GroupMessage), Send(g, ms), status[g] # "down"
  PROVE  links' \in [Group -> Seq(Link)] /\ LinksKept
<1> DEFINE k == Open(g)
           sent == Sent(g) \o ms
           new == [links[g] EXCEPT ![k].messages = sent]
<1>1. links \in [Group -> Seq(Link)] /\ k \in 1..Len(links[g])
  <2>1. links \in [Group -> Seq(Link)] /\ links[g] # <<>>
    BY DEF TypeInv, BalancerTypes, GroupTypes, Link
  <2> QED
    BY <2>1 DEF Open
<1>2. links' = [links EXCEPT ![g] = new]
  BY <1>1 DEF Send, Sent
<1>3. links[g][k] \in Link
  BY <1>1
<1>4. sent \in Seq(GroupMessage)
  BY <1>3 DEF Sent, Link
<1>5. [links[g][k] EXCEPT !.messages = sent] \in Link
  BY <1>3, <1>4 DEF Link
<1> DEFINE link == [links[g][k] EXCEPT !.messages = sent]
<1>6. new = [links[g] EXCEPT ![k] = link]
  OBVIOUS
<1> HIDE DEF k, sent, link
<1>7. new \in Seq(Link) /\ Len(new) = Len(links[g])
  BY <1>1, <1>5, <1>6 DEF link
<1> HIDE DEF new
<1> QED
  BY <1>1, <1>2, <1>7 DEF LinksKept

LEMMA SendBeatType ==
  ASSUME TypeInv, NEW g \in Group, NEW s, Send(g, <<BeatOf(s)>>), status[g] # "down"
  PROVE  links' \in [Group -> Seq(Link)] /\ LinksKept
<1>1. <<BeatOf(s)>> \in Seq(GroupMessage)
  BY BeatType DEF TypeInv, BalancerTypes
<1> QED
  BY <1>1, SendType

LEMMA SendReleaseType ==
  ASSUME TypeInv, NEW g \in Group, NEW l \in Location \cup {All}, Send(g, <<ReleaseOf(l)>>),
         status[g] # "down"
  PROVE  links' \in [Group -> Seq(Link)] /\ LinksKept
<1>1. <<ReleaseOf(l)>> \in Seq(GroupMessage)
  BY ReleaseType
<1> QED
  BY <1>1, SendType

LEMMA ConnectType ==
  ASSUME TypeInv, NEW g \in Group, NEW b \in Balancer, NEW s, Connect(g, b, s)
  PROVE  links' \in [Group -> Seq(Link)] /\ LinksKept /\ links'[g] # <<>>
<1> DEFINE new == [to |-> b, messages |-> <<BeatOf(s)>>]
<1>1. links \in [Group -> Seq(Link)]
  BY DEF TypeInv, BalancerTypes, GroupTypes, Link
<1>2. PICK old : /\ old \in {<<>>, Front(links[g]), links[g]}
                 /\ old # <<>> => links[g] # <<>>
                 /\ links' = [links EXCEPT ![g] = Append(old, new)]
  BY DEF Connect
<1>3. old \in Seq(Link)
  <2>1. links[g] \in Seq(Link) /\ <<>> \in Seq(Link)
    BY <1>1
  <2>2. links[g] # <<>> => Front(links[g]) \in Seq(Link)
    BY <2>1 DEF Front
  <2> QED
    BY <1>2, <2>1, <2>2
<1>4. new \in Link
  BY BeatType DEF Link, TypeInv, BalancerTypes, GroupTypes
<1> HIDE DEF new
<1> QED
  BY <1>1, <1>2, <1>3, <1>4 DEF LinksKept

LEMMA TakeType ==
  ASSUME TypeInv, NEW g \in Group, NEW b, NEW i, NEW kind, Reads(g, b, i, kind), Take(g, i)
  PROVE  links' \in [Group -> Seq(Link)] /\ LinksKept /\ Received(g, i) \in GroupMessage
<1> DEFINE rest == Tail(links[g][i].messages)
           link == [links[g][i] EXCEPT !.messages = rest]
           shorter == [links[g] EXCEPT ![i].messages = rest]
<1>1. links \in [Group -> Seq(Link)] /\ i \in 1..Len(links[g])
  BY DEF TypeInv, BalancerTypes, GroupTypes, Link, Reads, Open
<1>2. links[g][i] \in Link /\ links[g][i].messages # <<>>
  BY <1>1 DEF Reads
<1>3. rest \in Seq(GroupMessage) /\ Received(g, i) \in GroupMessage
  BY <1>2 DEF Link, Received
<1>4. link \in Link
  BY <1>2, <1>3 DEF Link
<1>5. shorter = [links[g] EXCEPT ![i] = link]
  OBVIOUS
<1>6. links' = [links EXCEPT ![g] = IF i < Open(g) /\ rest = <<>> THEN RemoveAt(links[g], i)
                                    ELSE shorter]
  BY <1>1 DEF Take
<1> HIDE DEF rest, link
<1>7. shorter \in Seq(Link) /\ Len(shorter) = Len(links[g])
  BY <1>1, <1>4, <1>5
<1> HIDE DEF shorter
<1>8. ASSUME i < Open(g)
      PROVE  RemoveAt(links[g], i) \in Seq(Link) /\ RemoveAt(links[g], i) # <<>>
  <2> DEFINE before == SubSeq(links[g], 1, i - 1)
             after == SubSeq(links[g], i + 1, Len(links[g]))
  <2>1. links[g] \in Seq(Link) /\ i \in Nat /\ 1 <= i /\ i < Len(links[g]) /\ Len(links[g]) \in Nat
    BY <1>1, <1>8 DEF Open
  <2>2. before \in Seq(Link)
    BY <2>1
  <2>3. after \in Seq(Link) /\ Len(after) = Len(links[g]) - i
    BY <2>1
  <2> HIDE DEF before, after
  <2>4. before \o after \in Seq(Link) /\ Len(before \o after) > 0
    BY <2>1, <2>2, <2>3
  <2>5. RemoveAt(links[g], i) = before \o after
    BY DEF RemoveAt, before, after
  <2> QED
    BY <2>4, <2>5
<1> QED
  BY <1>1, <1>3, <1>6, <1>7, <1>8 DEF LinksKept, Open

LEMMA AnswerType ==
  ASSUME TypeInv, NEW g \in Group, NEW i, NEW r \in Response, Answer(g, i, r)
  PROVE  /\ responses' \in [Group -> Seq(Response)]
         /\ \A h \in Group : status[h] = "down" => responses'[h] = <<>>
BY DEF TypeInv, BalancerTypes, GroupTypes, Answer

LEMMA ResponseType ==
  ASSUME TypeInv, NEW g \in Group, responses[g] # <<>>
  PROVE  Head(responses[g]) \in Response /\ Tail(responses[g]) \in Seq(Response) /\ status[g] # "down"
BY DEF TypeInv, BalancerTypes, GroupTypes

LEMMA GroupStepType ==
  ASSUME TypeInv, NEW g \in Group, GroupStep(g)
  PROVE  TypeInv'
<1> USE DEF TypeInv
<1>0. clock \in Nat
  BY DEF BalancerTypes
<1>1. BalancerTypes'
  <2>1. UNCHANGED <<clock, rtm_locations, rtm_group_heartbeat, game_groups, game_groups_ready,
                    potentially_dead_game_groups, work>>
    BY Zenon DEF GroupStep, SendHeartbeat, ReleaseAgain, ReceiveBeat, ReceiveRelease, Expire,
       Stop, Reanimate, Crash, Unload, Register, Reconnect, Restart, database, balancer
  <2> QED
    BY <2>1 DEF BalancerTypes
<1>2. CASE SendHeartbeat(g)
  <2>1. links' \in [Group -> Seq(Link)] /\ LinksKept
    BY <1>2, SendBeatType DEF SendHeartbeat
  <2>2. GroupTypes'
    BY <1>2, <2>1 DEF SendHeartbeat, group, GroupTypes, LinksKept
  <2> QED
    BY <1>1, <2>2 DEF TypeInv
<1>3. CASE ReleaseAgain(g)
  <2>1. links' \in [Group -> Seq(Link)] /\ LinksKept
    BY <1>3, SendReleaseType DEF ReleaseAgain
  <2>2. GroupTypes'
    BY <1>3, <2>1 DEF ReleaseAgain, GroupTypes, LinksKept
  <2> QED
    BY <1>1, <2>2 DEF TypeInv
<1>4. CASE ReceiveBeat(g)
  <2>1. links' \in [Group -> Seq(Link)] /\ LinksKept
    BY <1>4, SendReleaseType, ResponseType DEF ReceiveBeat, GroupTypes, LinksKept
  <2> DEFINE r == Head(responses[g])
  <2>2. r \in Response /\ r.kind = "beat" /\ Tail(responses[g]) \in Seq(Response) /\ status[g] # "down"
    BY <1>4, ResponseType DEF ReceiveBeat
  <2>3. r.timestamp \in Nat /\ WriteDeadline(r.timestamp) \in Int
    BY <2>2, LeaseAssumption DEF Response, WriteDeadline, Lifetime
  <2>4. /\ last_confirmed_heartbeat' \in [Group -> Nat]
        /\ write_locations_deadline' \in [Group -> Int]
        /\ assigned_locations' \in [Group -> SUBSET Location]
        /\ \A h \in Group : assigned_locations[h] = {} => assigned_locations'[h] = {}
    BY <1>4, <2>3 DEF ReceiveBeat, GroupTypes
  <2>5. responses' = [responses EXCEPT ![g] = Tail(@)] /\ UNCHANGED <<status, granted>>
    BY <1>4 DEF ReceiveBeat
  <2>6. GroupTypes'
    BY <2>1, <2>2, <2>4, <2>5 DEF GroupTypes, LinksKept
  <2> QED
    BY <1>1, <2>6 DEF TypeInv
<1>5. CASE ReceiveRelease(g)
  <2>1. links' \in [Group -> Seq(Link)] /\ LinksKept
    BY <1>5, SendBeatType, ResponseType DEF ReceiveRelease, GroupTypes, LinksKept
  <2>2. Tail(responses[g]) \in Seq(Response) /\ status[g] # "down"
    BY <1>5, ResponseType DEF ReceiveRelease
  <2>3. status' \in {status, [status EXCEPT ![g] = "Ready"]}
    BY <1>5 DEF ReceiveRelease
  <2>4. GroupTypes'
    BY <1>5, <2>1, <2>2, <2>3 DEF ReceiveRelease, GroupTypes, LinksKept
  <2> QED
    BY <1>1, <2>4 DEF TypeInv
<1>6. CASE Expire(g)
  <2>1. links' \in [Group -> Seq(Link)] /\ LinksKept
    BY <1>6, SendBeatType DEF Expire
  <2>2. GroupTypes'
    BY <1>6, <2>1 DEF Expire, GroupTypes, LinksKept
  <2> QED
    BY <1>1, <2>2 DEF TypeInv
<1>7. ASSUME NEW l \in Location, Unload(g, l)
      PROVE  TypeInv'
  <2>1. links' \in [Group -> Seq(Link)] /\ LinksKept
    BY <1>7, SendReleaseType DEF Unload
  <2>2. GroupTypes'
    BY <1>7, <2>1 DEF Unload, GroupTypes, LinksKept
  <2> QED
    BY <1>1, <2>2 DEF TypeInv
<1>8. CASE Stop(g)
  <2>1. <<BeatOf("Stopped"), ReleaseOf(All)>> \in Seq(GroupMessage)
    BY <1>0, BeatType, ReleaseType
  <2>2. links' \in [Group -> Seq(Link)] /\ LinksKept
    BY <1>8, <2>1, SendType DEF Stop
  <2>3. GroupTypes'
    BY <1>8, <2>2 DEF Stop, GroupTypes, LinksKept
  <2> QED
    BY <1>1, <2>3 DEF TypeInv
<1>9. CASE Reanimate(g)
  <2>1. links' \in [Group -> Seq(Link)] /\ LinksKept
    BY <1>9, SendBeatType DEF Reanimate
  <2>2. GroupTypes'
    BY <1>9, <2>1 DEF Reanimate, GroupTypes, LinksKept
  <2> QED
    BY <1>1, <2>2 DEF TypeInv
<1>10. ASSUME NEW l \in Location, Register(g, l)
       PROVE  TypeInv'
  <2>1. GroupTypes'
    BY <1>10 DEF Register, GroupTypes
  <2> QED
    BY <1>1, <2>1 DEF TypeInv
<1>11. ASSUME NEW b \in Balancer, Reconnect(g, b)
       PROVE  TypeInv'
  <2>1. links' \in [Group -> Seq(Link)] /\ LinksKept /\ links'[g] # <<>>
    <3>1. Connect(g, b, status[g])
      BY <1>11 DEF Reconnect
    <3> QED
      BY <3>1, ConnectType
  <2>2. \A h \in Group : status'[h] # "down" => links'[h] # <<>>
    BY <1>11, <2>1 DEF Reconnect, group, GroupTypes, LinksKept
  <2>3. responses' \in [Group -> Seq(Response)] /\ \A h \in Group : responses[h] = <<>> => responses'[h] = <<>>
    BY <1>11 DEF Reconnect, GroupTypes
  <2>4. GroupTypes'
    BY <1>11, <2>1, <2>2, <2>3 DEF Reconnect, group, GroupTypes
  <2> QED
    BY <1>1, <2>4 DEF TypeInv
<1>12. CASE Crash(g)
  <2>1. GroupTypes'
    BY <1>12 DEF Crash, GroupTypes
  <2> QED
    BY <1>1, <2>1 DEF TypeInv
<1>13. ASSUME NEW b \in Balancer, Restart(g, b)
       PROVE  TypeInv'
  <2>1. links' \in [Group -> Seq(Link)] /\ LinksKept /\ links'[g] # <<>>
    <3>1. Connect(g, b, "Initializing")
      BY <1>13 DEF Restart
    <3> QED
      BY <3>1, ConnectType
  <2>2. \A h \in Group : status'[h] # "down" => links'[h] # <<>>
    BY <1>13, <2>1 DEF Restart, GroupTypes, LinksKept
  <2>3. /\ status' = [status EXCEPT ![g] = "Initializing"]
        /\ last_confirmed_heartbeat' = [last_confirmed_heartbeat EXCEPT ![g] = 0]
        /\ write_locations_deadline' = [write_locations_deadline EXCEPT ![g] = 0]
        /\ UNCHANGED <<assigned_locations, responses, granted>>
    BY <1>13 DEF Restart
  <2>4. /\ status' \in [Group -> {"Initializing", "Ready", "Releasing_Urgent", "Stopped", "down"}]
        /\ \A h \in Group : status'[h] = "down" => status[h] = "down"
    BY <2>3 DEF GroupTypes
  <2>5. GroupTypes'
    BY <2>1, <2>2, <2>3, <2>4 DEF GroupTypes
  <2> QED
    BY <1>1, <2>5 DEF TypeInv
<1> QED
  BY <1>2, <1>3, <1>4, <1>5, <1>6, <1>7, <1>8, <1>9, <1>10, <1>11, <1>12, <1>13 DEF GroupStep

LEMMA ProcessGroupStatusUpdateType ==
  ASSUME TypeInv, NEW g \in Group, NEW b \in Balancer, NEW i, NEW failed,
         ProcessGroupStatusUpdate(g, b, i, failed)
  PROVE  TypeInv'
<1> DEFINE m == Received(g, i)
           now == [status |-> m.status, last_beat |-> clock]
           r == [kind |-> "beat", timestamp |-> IF failed THEN 0 ELSE m.timestamp]
<1>1. Reads(g, b, i, "beat") /\ Take(g, i) /\ Answer(g, i, r)
  BY Zenon DEF ProcessGroupStatusUpdate
<1>2. links' \in [Group -> Seq(Link)] /\ LinksKept /\ m \in GroupMessage
  BY <1>1, TakeType
<1>3. m.kind = "beat"
  BY <1>1 DEF Reads
<1>4. m.status \in EffectiveGroupStatus /\ m.timestamp \in Nat
  BY <1>2, <1>3 DEF GroupMessage
<1>5. now \in Heartbeat /\ r \in Response
  BY <1>4 DEF Heartbeat, Response, TypeInv, BalancerTypes
<1>6. /\ responses' \in [Group -> Seq(Response)]
      /\ \A h \in Group : status[h] = "down" => responses'[h] = <<>>
  BY <1>1, <1>5, AnswerType
<1>7. GroupTypes'
  BY <1>2, <1>6 DEF ProcessGroupStatusUpdate, group, TypeInv, GroupTypes, LinksKept
<1>8. /\ rtm_group_heartbeat' \in Executed(failed, rtm_group_heartbeat, [rtm_group_heartbeat EXCEPT ![g] = now])
      /\ game_groups' = [game_groups EXCEPT ![b][g] = now]
      /\ game_groups_ready' \in {Without(b, {g}), game_groups_ready,
                                 [game_groups_ready EXCEPT ![b] = @ \cup {g}]}
      /\ UNCHANGED <<clock, rtm_locations, potentially_dead_game_groups, work>>
  BY DEF ProcessGroupStatusUpdate
<1> HIDE DEF now, r, m
<1>9. rtm_group_heartbeat' \in [Group -> Heartbeat]
  BY <1>5, <1>8 DEF Executed, TypeInv, BalancerTypes
<1>10. game_groups' \in [Balancer -> [Group -> Heartbeat]]
  BY <1>5, <1>8 DEF TypeInv, BalancerTypes
<1>11. game_groups_ready' \in [Balancer -> SUBSET Group]
  BY <1>8 DEF Without, TypeInv, BalancerTypes
<1>12. BalancerTypes'
  BY <1>8, <1>9, <1>10, <1>11 DEF TypeInv, BalancerTypes
<1> QED
  BY <1>7, <1>12 DEF TypeInv

LEMMA FreeType ==
  ASSUME TypeInv, NEW g, NEW ls, NEW failed, rtm_locations' \in Executed(failed, rtm_locations, Free(g, ls))
  PROVE  rtm_locations' \in [Location -> Group \cup {NoGroup}]
BY DEF Executed, Free, TypeInv, BalancerTypes

LEMMA ReleaseLocationType ==
  ASSUME TypeInv, NEW g \in Group, NEW b \in Balancer, NEW i, NEW failed \in BOOLEAN,
         ReleaseLocation(g, b, i, failed)
  PROVE  TypeInv'
<1> DEFINE m == Received(g, i)
           r == [kind |-> "release", location |-> m.location, result |-> ~failed]
           ls == IF m.location = All THEN Location ELSE {m.location}
<1>1. Reads(g, b, i, "release") /\ Take(g, i) /\ Answer(g, i, r)
  BY Zenon DEF ReleaseLocation
<1>2. links' \in [Group -> Seq(Link)] /\ LinksKept /\ m \in GroupMessage
  BY <1>1, TakeType
<1>3. m.kind = "release"
  BY <1>1 DEF Reads
<1>4. m.location \in Location \cup {All}
  BY <1>2, <1>3 DEF GroupMessage
<1>5. r \in Response
  BY <1>4 DEF Response
<1>6. /\ responses' \in [Group -> Seq(Response)]
      /\ \A h \in Group : status[h] = "down" => responses'[h] = <<>>
  BY <1>1, <1>5, AnswerType
<1>7. GroupTypes'
  BY <1>2, <1>6 DEF ReleaseLocation, group, TypeInv, GroupTypes, LinksKept
<1>8. rtm_locations' \in Executed(failed, rtm_locations, Free(g, ls))
  BY Zenon DEF ReleaseLocation
<1>9. rtm_locations' \in [Location -> Group \cup {NoGroup}]
  BY <1>8, FreeType
<1>10. BalancerTypes'
  BY <1>9 DEF ReleaseLocation, balancer, TypeInv, BalancerTypes
<1> QED
  BY <1>7, <1>10 DEF TypeInv

LEMMA BalancerStepType ==
  ASSUME TypeInv, NEW b \in Balancer, BalancerStep(b)
  PROVE  TypeInv'
<1> USE DEF TypeInv
<1>1. ASSUME NEW l \in Location, AnswerValid(b, l)
      PROVE  TypeInv'
  <2>1. rtm_locations[l] \in Group
    BY <1>1 DEF AnswerValid, BalancerTypes
  <2>2. GroupTypes'
    BY <1>1, <2>1 DEF AnswerValid, GroupTypes, group
  <2>3. BalancerTypes'
    BY <1>1, <2>1 DEF AnswerValid, BalancerTypes, database
  <2> QED
    BY <2>2, <2>3
<1>2. ASSUME NEW l \in Location, PickReadyGroup(b, l)
      PROVE  TypeInv'
  <2>1. GroupTypes'
    BY <1>2 DEF PickReadyGroup, GroupTypes, group, network
  <2> DEFINE stop(d) == [g \in Group |-> IF g \in d THEN [game_groups[b][g] EXCEPT !.status = "stopped"]
                                         ELSE game_groups[b][g]]
  <2>2. PICK d :
          /\ game_groups' = [game_groups EXCEPT ![b] = stop(d)]
          /\ game_groups_ready' = Without(b, d)
          /\ \/ \E g \in game_groups_ready[b] :
                  work' = [work EXCEPT ![b] = [step |-> "assign", location |-> l, group |-> g]]
             \/ work' = work
    BY <1>2 DEF PickReadyGroup
  <2>3. stop(d) \in [Group -> Heartbeat]
    <3>1. \A beat \in Heartbeat : [beat EXCEPT !.status = "stopped"] \in Heartbeat
      BY DEF Heartbeat, EffectiveGroupStatus
    <3> QED
      BY <3>1 DEF BalancerTypes
  <2> HIDE DEF stop
  <2>4. game_groups' \in [Balancer -> [Group -> Heartbeat]]
    BY <2>2, <2>3 DEF BalancerTypes
  <2>5. game_groups_ready' \in [Balancer -> SUBSET Group]
    BY <2>2 DEF BalancerTypes, Without
  <2>6. work' \in [Balancer -> Work]
    <3>1. \A g \in game_groups_ready[b] : [step |-> "assign", location |-> l, group |-> g] \in Work
      BY DEF BalancerTypes, Work
    <3> QED
      BY <2>2, <3>1 DEF BalancerTypes
  <2>7. BalancerTypes'
    BY <1>2, <2>4, <2>5, <2>6 DEF PickReadyGroup, BalancerTypes, database
  <2> QED
    BY <2>1, <2>7
<1>3. ASSUME NEW failed \in BOOLEAN, AssignGroup(b, failed)
      PROVE  TypeInv'
  <2> DEFINE l == work[b].location
             g == IF TakesRow(l) THEN work[b].group ELSE rtm_locations[l]
  <2>1. l \in Location /\ work[b].group \in Group
    BY <1>3 DEF AssignGroup, BalancerTypes, Work, Idle
  <2>2. g \in Group
    BY <2>1 DEF BalancerTypes, TakesRow
  <2>3. /\ rtm_locations' \in Executed(failed, rtm_locations, [rtm_locations EXCEPT ![l] = g])
        /\ granted' \in {granted, granted \cup {<<l, g>>}}
        /\ work' = [work EXCEPT ![b] = Idle]
    BY <1>3 DEF AssignGroup
  <2> HIDE DEF l, g
  <2>4. GroupTypes'
    BY <1>3, <2>1, <2>2, <2>3 DEF AssignGroup, GroupTypes, group
  <2>5. rtm_locations' \in [Location -> Group \cup {NoGroup}]
    BY <2>2, <2>3 DEF Executed, BalancerTypes
  <2>6. BalancerTypes'
    BY <1>3, <2>3, <2>5 DEF AssignGroup, BalancerTypes, Work
  <2> QED
    BY <2>4, <2>6
<1>4. ASSUME NEW failed \in BOOLEAN, ReloadGroups(b, failed)
      PROVE  TypeInv'
  <2>1. GroupTypes'
    BY <1>4 DEF ReloadGroups, GroupTypes, group, network
  <2>2. PICK beats \in [Group -> Heartbeat], ready \in SUBSET Group, gone \in SUBSET Group :
          /\ game_groups' = [game_groups EXCEPT ![b] = beats]
          /\ game_groups_ready' = [game_groups_ready EXCEPT ![b] = ready]
          /\ potentially_dead_game_groups' = [potentially_dead_game_groups EXCEPT ![b] = gone]
    <3> Never \in Heartbeat
      BY DEF Never, Heartbeat, EffectiveGroupStatus
    <3> DEFINE expired == {g \in Group : game_groups[b][g] # Never
                                         /\ game_groups[b][g].last_beat + Lifetime < clock}
               alive == {g \in Group : Alive(rtm_group_heartbeat[g])}
               unknown == [g \in Group |-> Never]
               read == [g \in Group |-> IF g \in alive THEN rtm_group_heartbeat[g] ELSE Never]
               listed == {g \in alive : /\ rtm_group_heartbeat[g].status = "ready"
                                        /\ rtm_group_heartbeat[g].last_beat + Interval + Grace > clock}
               suspect == potentially_dead_game_groups[b] \cup expired
    <3>1. unknown \in [Group -> Heartbeat] /\ read \in [Group -> Heartbeat]
      BY DEF BalancerTypes
    <3>2. listed \in SUBSET Group /\ {} \in SUBSET Group
      OBVIOUS
    <3>3. suspect \in SUBSET Group
      BY DEF BalancerTypes
    <3>4. CASE failed
      <4>1. /\ game_groups' = [game_groups EXCEPT ![b] = unknown]
            /\ game_groups_ready' = [game_groups_ready EXCEPT ![b] = {}]
            /\ potentially_dead_game_groups' = [potentially_dead_game_groups EXCEPT ![b] = suspect]
        BY <1>4, <3>4 DEF ReloadGroups
      <4> HIDE DEF unknown, suspect
      <4> QED
        BY <3>1, <3>2, <3>3, <4>1
    <3>5. CASE ~failed
      <4>1. /\ game_groups' = [game_groups EXCEPT ![b] = read]
            /\ game_groups_ready' = [game_groups_ready EXCEPT ![b] = listed]
            /\ potentially_dead_game_groups' = [potentially_dead_game_groups EXCEPT ![b] = {}]
        BY <1>4, <3>5 DEF ReloadGroups
      <4> HIDE DEF read, listed
      <4> QED
        BY <3>1, <3>2, <4>1
    <3> QED
      BY <3>4, <3>5
  <2>3. work' \in [Balancer -> Work]
    <3> DEFINE lost == (potentially_dead_game_groups[b]
                       \cup {g \in Group : game_groups[b][g] # Never
                                           /\ game_groups[b][g].last_beat + Lifetime < clock})
                      \ {g \in Group : Alive(rtm_group_heartbeat[g])}
    <3>1. work' = work
          \/ work' = [work EXCEPT ![b] = IF lost = {} THEN Idle ELSE [step |-> "free", dead |-> lost]]
      BY <1>4 DEF ReloadGroups
    <3>2. lost \in SUBSET Group
      BY DEF BalancerTypes
    <3> HIDE DEF lost
    <3>3. [step |-> "free", dead |-> lost] \in Work /\ Idle \in Work
      BY <3>2 DEF Work
    <3> QED
      BY <3>1, <3>3 DEF BalancerTypes
  <2>4. BalancerTypes'
    BY <1>4, <2>2, <2>3 DEF ReloadGroups, BalancerTypes, database
  <2> QED
    BY <2>1, <2>4
<1>5. ASSUME NEW failed \in BOOLEAN, NEW g \in Group, FreeDeadGroup(b, g, failed)
      PROVE  TypeInv'
  <2> DEFINE rest == work[b].dead \ {g}
  <2>1. GroupTypes'
    BY <1>5 DEF FreeDeadGroup, GroupTypes, group, network
  <2>2. rtm_locations' \in [Location -> Group \cup {NoGroup}]
    BY <1>5, FreeType DEF FreeDeadGroup
  <2>3. work[b] \in [step : {"free"}, dead : SUBSET Group]
    BY <1>5 DEF FreeDeadGroup, BalancerTypes, Work, Idle
  <2>4. [work[b] EXCEPT !.dead = rest] \in Work /\ Idle \in Work
    BY <2>3 DEF Work
  <2>5. work' = [work EXCEPT ![b] = IF rest = {} THEN Idle ELSE [work[b] EXCEPT !.dead = rest]]
    BY <1>5 DEF FreeDeadGroup, BalancerTypes
  <2> HIDE DEF rest
  <2>6. BalancerTypes'
    BY <1>5, <2>2, <2>4, <2>5 DEF FreeDeadGroup, BalancerTypes
  <2> QED
    BY <2>1, <2>6
<1> QED
  BY <1>1, <1>2, <1>3, <1>4, <1>5, ProcessGroupStatusUpdateType, ReleaseLocationType DEF BalancerStep

LEMMA TypesKeep == Spec => []TypeInv
<1>1. Init => TypeInv
  <2> SUFFICES ASSUME Init
               PROVE  TypeInv
    OBVIOUS
  <2> Never \in Heartbeat /\ Idle \in Work
    BY DEF Never, Heartbeat, EffectiveGroupStatus, Work
  <2>1. clock \in Nat
    BY LeaseAssumption DEF Init, Lifetime
  <2> QED
    BY <2>1 DEF Init, TypeInv, BalancerTypes, GroupTypes
<1>2. TypeInv /\ [Next]_vars => TypeInv'
  <2> SUFFICES ASSUME TypeInv, [Next]_vars
               PROVE  TypeInv'
    OBVIOUS
  <2>1. CASE Tick
    BY <2>1 DEF Tick, database, balancer, group, network, TypeInv, BalancerTypes, GroupTypes
  <2>2. CASE UNCHANGED vars
    BY <2>2 DEF vars, database, balancer, group, network, TypeInv, BalancerTypes, GroupTypes
  <2> QED
    BY <2>1, <2>2, GroupStepType, BalancerStepType DEF Next
<1>3. TypeInv => TypeOK
  BY DEF TypeInv, BalancerTypes, GroupTypes, TypeOK, Link
<1> QED
  BY <1>1, <1>2, <1>3, PTL DEF Spec

\* For any groups, balancers, locations and bounds, with or without Prompt and
\* whatever may fail: every variable keeps its type, a connection carries only
\* messages of groups, and a server that is down holds nothing and is told
\* nothing (ProcessGroupStatusUpdate and ReleaseLocation answer the open
\* connection of a running group only).
THEOREM LeaseTypeCorrect == Spec => []TypeOK
<1>1. TypeInv => TypeOK
  BY DEF TypeInv, BalancerTypes, GroupTypes, TypeOK, Link
<1> QED
  BY <1>1, TypesKeep, PTL

-----------------------------------------------------------------------------
(* What a group holds is assigned to it, as long as nothing overtakes a      *)
(* release (Prompt).  The argument follows the times of the heartbeats: those *)
(* a group was confirmed are no newer than the one in the table, so a group   *)
(* that is in use stops before the balancers may take it for dead.           *)


InUse == {"Ready", "Releasing_Urgent"}

\* What the balancer has still to read, with one connection at most.
Unread(g) == IF links[g] = <<>> THEN <<>> ELSE links[g][1].messages

OneLink(g) ==
  /\ Len(links[g]) <= 1
  /\ status[g] # "down" => Len(links[g]) = 1

\* A heartbeat with its time; one that failed is answered with 0.
IsTimed(m) == m.kind = "beat" /\ m.timestamp # 0
NotLater(m, n) == IsTimed(m) /\ IsTimed(n) => m.timestamp <= n.timestamp
Ordered(s) == \A i, j \in 1..Len(s) : i < j => NotLater(s[i], s[j])

\* Heartbeats are confirmed in the order of their times, and none before one
\* that is as new is in the table: confirmed is the last confirmed time,
\* answered and unread are under way, beat is the time in the table.
TimesAgree(confirmed, answered, unread, beat, now) ==
  /\ confirmed <= now /\ confirmed <= beat
  /\ Ordered(answered) /\ Ordered(unread)
  /\ \A i \in 1..Len(answered), j \in 1..Len(unread) : NotLater(answered[i], unread[j])
  /\ \A i \in 1..Len(answered) : IsTimed(answered[i]) =>
       /\ confirmed <= answered[i].timestamp
       /\ answered[i].timestamp <= beat /\ answered[i].timestamp <= now
  /\ \A i \in 1..Len(unread) : IsTimed(unread[i]) =>
       confirmed <= unread[i].timestamp /\ unread[i].timestamp <= now

AnyTimed(s) == \E i \in 1..Len(s) : IsTimed(s[i])
AnyStopped(s) == \E i \in 1..Len(s) : s[i].kind = "beat" /\ s[i].status = "stopped"
AnyRelease(s, l) == \E i \in 1..Len(s) : s[i].kind = "release" /\ s[i].location \in {l, All}

TimesInOrder(g) ==
  TimesAgree(last_confirmed_heartbeat[g], responses[g], Unread(g),
             rtm_group_heartbeat[g].last_beat, clock)

\* A group in use was confirmed within the lease, and the table says so; a
\* group that starts has nothing under way from before it stopped.
LeaseRuns(g) ==
  /\ status[g] \in InUse =>
       /\ last_confirmed_heartbeat[g] # 0
       /\ clock < last_confirmed_heartbeat[g] + Lifetime
       /\ rtm_group_heartbeat[g].status # "stopped"
  /\ status[g] = "Initializing" /\ (last_confirmed_heartbeat[g] # 0 \/ AnyTimed(responses[g])) =>
       rtm_group_heartbeat[g].status # "stopped"
  /\ status[g] \in InUse \cup {"Initializing"} =>
       /\ ~AnyStopped(Unread(g))
       /\ last_confirmed_heartbeat[g] # 0 =>
            write_locations_deadline[g] = WriteDeadline(last_confirmed_heartbeat[g])

\* What is held is assigned, and no release of it is on its way.
Holds(g) ==
  /\ assigned_locations[g] # {} => status[g] \in InUse
  /\ \A l \in assigned_locations[g] : rtm_locations[l] = g /\ ~AnyRelease(Unread(g), l)

FreedAreDead(g) == BeingFreed(g) => ~Alive(rtm_group_heartbeat[g])

GroupInv(g) == OneLink(g) /\ TimesInOrder(g) /\ LeaseRuns(g) /\ Holds(g) /\ FreedAreDead(g)
HeldInv == Lifetime < clock /\ \A g \in Group : GroupInv(g)

-----------------------------------------------------------------------------
(* The times.                                                              *)

LEMMA TimesSend ==
  ASSUME NEW c \in Nat, NEW a \in Seq(Response), NEW u \in Seq(GroupMessage), NEW b \in Nat,
         NEW n \in Nat, TimesAgree(c, a, u, b, n),
         NEW ms \in Seq(GroupMessage), \A i \in 1..Len(ms) : IsTimed(ms[i]) => ms[i].timestamp = n
  PROVE  TimesAgree(c, a, u \o ms, b, n)
<1> DEFINE v == u \o ms
<1>1. \A i \in 1..Len(v) : \/ i \in 1..Len(u) /\ v[i] = u[i]
                           \/ i - Len(u) \in 1..Len(ms) /\ v[i] = ms[i - Len(u)]
  OBVIOUS
<1> HIDE DEF v
<1>2. \A i \in 1..Len(v) : i \notin 1..Len(u) /\ IsTimed(v[i]) => v[i].timestamp = n
  BY <1>1
<1>3. ASSUME NEW i \in 1..Len(v), IsTimed(v[i])
      PROVE  c <= v[i].timestamp /\ v[i].timestamp <= n
  <2>1. CASE i \in 1..Len(u)
    BY <1>1, <1>3, <2>1 DEF TimesAgree
  <2>2. CASE i \notin 1..Len(u)
    BY <1>2, <1>3, <2>2 DEF TimesAgree
  <2> QED
    BY <2>1, <2>2
<1>4. \A i \in 1..Len(v) : i \in 1..Len(u) => v[i] = u[i]
  BY <1>1
<1>5. Len(u) \in Nat /\ Len(v) \in Nat
  BY DEF v
<1>6. Ordered(v)
  <2> SUFFICES ASSUME NEW i \in 1..Len(v), NEW j \in 1..Len(v), i < j, IsTimed(v[i]), IsTimed(v[j])
               PROVE  v[i].timestamp <= v[j].timestamp
    BY DEF Ordered, NotLater
  <2>1. CASE j \in 1..Len(u)
    BY <1>4, <1>5, <2>1 DEF TimesAgree, Ordered, NotLater
  <2>2. CASE j \notin 1..Len(u)
    BY <1>2, <1>3, <2>2
  <2> QED
    BY <2>1, <2>2
<1>7. \A i \in 1..Len(a), j \in 1..Len(v) : NotLater(a[i], v[j])
  <2> SUFFICES ASSUME NEW i \in 1..Len(a), NEW j \in 1..Len(v), IsTimed(a[i]), IsTimed(v[j])
               PROVE  a[i].timestamp <= v[j].timestamp
    BY DEF NotLater
  <2>1. CASE j \in 1..Len(u)
    BY <1>4, <2>1 DEF TimesAgree, NotLater
  <2>2. CASE j \notin 1..Len(u)
    BY <1>2, <2>2 DEF TimesAgree
  <2> QED
    BY <2>1, <2>2
<1>8. TimesAgree(c, a, v, b, n)
  BY <1>3, <1>6, <1>7 DEF TimesAgree
<1> QED
  BY <1>8 DEF v

LEMMA TimesReceive ==
  ASSUME NEW c \in Nat, NEW a \in Seq(Response), NEW u \in Seq(GroupMessage), NEW b \in Nat,
         NEW n \in Nat, TimesAgree(c, a, u, b, n), a # <<>>
  PROVE  /\ TimesAgree(c, Tail(a), u, b, n)
         /\ IsTimed(Head(a)) => TimesAgree(Head(a).timestamp, Tail(a), u, b, n)
                                /\ c <= Head(a).timestamp
<1> DEFINE t == Tail(a)
           h == Head(a)
<1>1. /\ Len(a) \in Nat /\ Len(t) = Len(a) - 1 /\ 1 \in 1..Len(a)
      /\ h = a[1]
      /\ \A i \in 1..Len(t) : i + 1 \in 1..Len(a) /\ t[i] = a[i + 1]
  OBVIOUS
<1> HIDE DEF t, h
<1>2. TimesAgree(c, t, u, b, n)
  <2>1. Ordered(t)
    BY <1>1 DEF TimesAgree, Ordered
  <2>2. \A i \in 1..Len(t), j \in 1..Len(u) : NotLater(t[i], u[j])
    BY <1>1 DEF TimesAgree
  <2>3. \A i \in 1..Len(t) : IsTimed(t[i]) =>
          c <= t[i].timestamp /\ t[i].timestamp <= b /\ t[i].timestamp <= n
    BY <1>1 DEF TimesAgree
  <2> QED
    BY <2>1, <2>2, <2>3 DEF TimesAgree
<1>3. ASSUME IsTimed(h)
      PROVE  TimesAgree(h.timestamp, t, u, b, n) /\ c <= h.timestamp
  <2>1. \A i \in 1..Len(t) : IsTimed(t[i]) => h.timestamp <= t[i].timestamp
    BY <1>1, <1>3 DEF TimesAgree, Ordered, NotLater
  <2>2. \A j \in 1..Len(u) : IsTimed(u[j]) => h.timestamp <= u[j].timestamp
    BY <1>1, <1>3 DEF TimesAgree, NotLater
  <2>3. h.timestamp <= n /\ h.timestamp <= b /\ c <= h.timestamp
    BY <1>1, <1>3 DEF TimesAgree
  <2> QED
    BY <1>2, <2>1, <2>2, <2>3 DEF TimesAgree
<1> QED
  BY <1>2, <1>3 DEF t, h

LEMMA TimesForget ==
  ASSUME NEW c \in Nat, NEW a \in Seq(Response), NEW u \in Seq(GroupMessage), NEW b \in Nat,
         NEW n \in Nat, TimesAgree(c, a, u, b, n)
  PROVE  TimesAgree(0, a, u, b, n)
<1>1. \A i \in 1..Len(a) : IsTimed(a[i]) => 0 <= a[i].timestamp
  BY DEF IsTimed, Response
<1>2. \A i \in 1..Len(u) : IsTimed(u[i]) => 0 <= u[i].timestamp
  BY DEF IsTimed, GroupMessage
<1> QED
  BY <1>1, <1>2 DEF TimesAgree

LEMMA TimesConnect ==
  ASSUME NEW c \in Nat, NEW b \in Nat, NEW n \in Nat, c <= n, c <= b,
         NEW m, m.timestamp = n
  PROVE  TimesAgree(c, <<>>, <<m>>, b, n)
BY DEF TimesAgree, Ordered, NotLater

LEMMA TimesTick ==
  ASSUME NEW c \in Nat, NEW a \in Seq(Response), NEW u \in Seq(GroupMessage), NEW b \in Nat,
         NEW n \in Nat, TimesAgree(c, a, u, b, n)
  PROVE  TimesAgree(c, a, u, b, n + 1)
<1>1. \A i \in 1..Len(a) : IsTimed(a[i]) => a[i].timestamp \in Nat
  BY DEF IsTimed, Response
<1>2. \A i \in 1..Len(u) : IsTimed(u[i]) => u[i].timestamp \in Nat
  BY DEF IsTimed, GroupMessage
<1> QED
  BY <1>1, <1>2 DEF TimesAgree

\* The balancer takes a heartbeat or a release and answers it, or cannot: the
\* table has the old time or the present one.
LEMMA TimesAnswer ==
  ASSUME NEW c \in Nat, NEW a \in Seq(Response), NEW u \in Seq(GroupMessage), NEW b \in Nat,
         NEW n \in Nat, TimesAgree(c, a, u, b, n), u # <<>>, NEW beat \in {b, n},
         NEW r \in Response,
         IsTimed(r) => IsTimed(Head(u)) /\ r.timestamp = Head(u).timestamp /\ beat = n
  PROVE  /\ TimesAgree(c, a, Tail(u), beat, n)
         /\ TimesAgree(c, Append(a, r), Tail(u), beat, n)
<1> DEFINE t == Tail(u)
           h == Head(u)
           s == Append(a, r)
<1>1. /\ Len(u) \in Nat /\ Len(t) = Len(u) - 1 /\ 1 \in 1..Len(u)
      /\ h = u[1]
      /\ \A i \in 1..Len(t) : i + 1 \in 1..Len(u) /\ t[i] = u[i + 1]
  OBVIOUS
<1>2. /\ Len(a) \in Nat /\ Len(s) = Len(a) + 1
      /\ \A i \in 1..Len(a) : s[i] = a[i]
      /\ s[Len(a) + 1] = r
  OBVIOUS
<1>3. \A i \in 1..Len(a) : IsTimed(a[i]) => a[i].timestamp \in Nat
  BY DEF IsTimed, Response
<1> HIDE DEF t, h, s
<1>4. c <= n /\ c <= beat
  BY DEF TimesAgree
<1>5. Ordered(t)
  <2> SUFFICES ASSUME NEW i \in 1..Len(t), NEW j \in 1..Len(t), i < j
               PROVE  NotLater(t[i], t[j])
    BY DEF Ordered
  <2>1. i + 1 \in 1..Len(u) /\ j + 1 \in 1..Len(u) /\ i + 1 < j + 1
    BY <1>1
  <2>2. NotLater(u[i + 1], u[j + 1])
    BY <2>1 DEF TimesAgree, Ordered
  <2> QED
    BY <1>1, <2>2
<1>6. \A i \in 1..Len(t) : IsTimed(t[i]) => c <= t[i].timestamp /\ t[i].timestamp <= n
  BY <1>1 DEF TimesAgree
<1>7. TimesAgree(c, a, t, beat, n)
  BY <1>1, <1>3, <1>4, <1>5, <1>6 DEF TimesAgree
<1>8. IsTimed(r) =>
        /\ \A i \in 1..Len(a) : NotLater(a[i], r)
        /\ \A i \in 1..Len(t) : NotLater(r, t[i])
        /\ c <= r.timestamp /\ r.timestamp <= beat /\ r.timestamp <= n
  <2> SUFFICES ASSUME IsTimed(r)
               PROVE  /\ \A i \in 1..Len(a) : NotLater(a[i], r)
                      /\ \A i \in 1..Len(t) : NotLater(r, t[i])
                      /\ c <= r.timestamp /\ r.timestamp <= beat /\ r.timestamp <= n
    OBVIOUS
  <2>1. IsTimed(h) /\ r.timestamp = h.timestamp /\ beat = n
    BY DEF h
  <2>2. \A i \in 1..Len(a) : NotLater(a[i], r)
    BY <1>1, <2>1 DEF TimesAgree, NotLater
  <2>3. \A i \in 1..Len(t) : NotLater(r, t[i])
    BY <1>1, <2>1 DEF TimesAgree, Ordered, NotLater
  <2>4. c <= r.timestamp /\ r.timestamp <= n
    BY <1>1, <2>1 DEF TimesAgree
  <2> QED
    BY <2>1, <2>2, <2>3, <2>4
<1>9. ASSUME NEW i \in 1..Len(s)
      PROVE  (i \in 1..Len(a) /\ s[i] = a[i]) \/ (i = Len(a) + 1 /\ s[i] = r)
  BY <1>2
<1>10. Ordered(s)
  <2> SUFFICES ASSUME NEW i \in 1..Len(s), NEW j \in 1..Len(s), i < j
               PROVE  NotLater(s[i], s[j])
    BY DEF Ordered
  <2>1. i \in 1..Len(a) /\ s[i] = a[i]
    BY <1>2, <1>9
  <2>2. CASE j \in 1..Len(a) /\ s[j] = a[j]
    BY <1>7, <2>1, <2>2 DEF TimesAgree, Ordered
  <2>3. CASE s[j] = r
    BY <1>8, <2>1, <2>3 DEF NotLater
  <2> QED
    BY <1>9, <2>2, <2>3
<1>11. \A i \in 1..Len(s), j \in 1..Len(t) : NotLater(s[i], t[j])
  <2> SUFFICES ASSUME NEW i \in 1..Len(s), NEW j \in 1..Len(t)
               PROVE  NotLater(s[i], t[j])
    OBVIOUS
  <2>1. CASE i \in 1..Len(a) /\ s[i] = a[i]
    BY <1>7, <2>1 DEF TimesAgree
  <2>2. CASE s[i] = r
    BY <1>8, <2>2 DEF NotLater
  <2> QED
    BY <1>9, <2>1, <2>2
<1>12. \A i \in 1..Len(s) : IsTimed(s[i]) =>
         c <= s[i].timestamp /\ s[i].timestamp <= beat /\ s[i].timestamp <= n
  BY <1>7, <1>8, <1>9 DEF TimesAgree
<1>13. TimesAgree(c, s, t, beat, n)
  BY <1>4, <1>5, <1>6, <1>10, <1>11, <1>12 DEF TimesAgree
<1> QED
  BY <1>7, <1>13 DEF t, s

-----------------------------------------------------------------------------
(* The messages on the connection.                                         *)

LEMMA TailParts ==
  ASSUME NEW S, NEW s \in Seq(S), s # <<>>, NEW l
  PROVE  /\ AnyTimed(Tail(s)) \/ IsTimed(Head(s)) => AnyTimed(s)
         /\ AnyStopped(Tail(s)) => AnyStopped(s)
         /\ AnyRelease(Tail(s), l) => AnyRelease(s, l)
         /\ Head(s).kind = "beat" /\ ~AnyStopped(s) => Head(s).status # "stopped"
         /\ Head(s).kind = "release" /\ ~AnyRelease(s, l) => Head(s).location \notin {l, All}
<1>1. /\ Len(s) \in Nat /\ Len(Tail(s)) = Len(s) - 1 /\ 1 \in 1..Len(s)
      /\ Head(s) = s[1]
      /\ \A i \in 1..Len(Tail(s)) : i + 1 \in 1..Len(s) /\ Tail(s)[i] = s[i + 1]
  OBVIOUS
<1> QED
  BY <1>1 DEF AnyTimed, AnyStopped, AnyRelease

LEMMA ConcatParts ==
  ASSUME NEW S, NEW s \in Seq(S), NEW t \in Seq(S), NEW l
  PROVE  /\ AnyStopped(s \o t) => AnyStopped(s) \/ AnyStopped(t)
         /\ AnyRelease(s \o t, l) => AnyRelease(s, l) \/ AnyRelease(t, l)
<1>1. \A i \in 1..Len(s \o t) : \/ i \in 1..Len(s) /\ (s \o t)[i] = s[i]
                                \/ i - Len(s) \in 1..Len(t) /\ (s \o t)[i] = t[i - Len(s)]
  OBVIOUS
<1> QED
  BY <1>1 DEF AnyStopped, AnyRelease

LEMMA AppendParts ==
  ASSUME NEW S, NEW s \in Seq(S), NEW m \in S, AnyTimed(Append(s, m))
  PROVE  AnyTimed(s) \/ IsTimed(m)
<1>1. \A i \in 1..Len(Append(s, m)) : \/ i \in 1..Len(s) /\ Append(s, m)[i] = s[i]
                                      \/ Append(s, m)[i] = m
  OBVIOUS
<1> QED
  BY <1>1 DEF AnyTimed

LEMMA NonEmpty ==
  ASSUME NEW S, NEW s \in Seq(S), s # <<>>
  PROVE  Len(s) \in Nat /\ 1 <= Len(s) /\ s[1] \in S /\ (Len(s) = 1 => s = <<s[1]>>)
OBVIOUS

LEMMA AtMostOne ==
  ASSUME NEW S, NEW s \in Seq(S), s # <<>>, Len(s) <= 1
  PROVE  Len(s) = 1
<1> DEFINE n == Len(s)
<1>1. n \in Nat /\ 1 <= n
  BY NonEmpty
<1>2. n <= 1
  OBVIOUS
<1> HIDE DEF n
<1>3. n = 1
  BY <1>1, <1>2
<1> QED
  BY <1>3 DEF n

LEMMA LinkFacts ==
  ASSUME TypeInv, NEW g \in Group, OneLink(g)
  PROVE  /\ links[g] \in Seq(Link) /\ Unread(g) \in Seq(GroupMessage)
         /\ responses[g] \in Seq(Response)
         /\ links[g] # <<>> => /\ Open(g) = 1 /\ Sent(g) = Unread(g)
                               /\ links[g] = <<links[g][1]>> /\ links[g][1] \in Link
         /\ status[g] # "down" => links[g] # <<>>
<1>1. links[g] \in Seq(Link) /\ responses[g] \in Seq(Response)
  BY DEF TypeInv, GroupTypes
<1>2. CASE links[g] = <<>>
  BY <1>1, <1>2 DEF Unread, OneLink
<1>3. CASE links[g] # <<>>
  <2>1. Len(links[g]) = 1
    <3>1. Len(links[g]) <= 1
      BY Zenon DEF OneLink
    <3> QED
      BY <1>1, <1>3, <3>1, AtMostOne, Zenon
  <2>2. links[g][1] \in Link /\ links[g] = <<links[g][1]>>
    BY <1>1, <2>1
  <2>3. links[g][1].messages \in Seq(GroupMessage)
    BY <2>2 DEF Link
  <2> QED
    BY <1>1, <1>3, <2>1, <2>2, <2>3 DEF Unread, Open, Sent
<1> QED
  BY <1>2, <1>3

OthersKeepLinks(g) == \A h \in Group \ {g} : links'[h] = links[h]

LEMMA SendUnread ==
  ASSUME TypeInv, NEW g \in Group, OneLink(g), status[g] # "down",
         NEW ms \in Seq(GroupMessage), Send(g, ms)
  PROVE  /\ Len(links'[g]) = 1 /\ Unread(g)' = Unread(g) \o ms /\ OthersKeepLinks(g)
<1> DEFINE sent == Unread(g) \o ms
           link == [links[g][1] EXCEPT !.messages = sent]
<1>1. links[g] # <<>> /\ Open(g) = 1 /\ Sent(g) = Unread(g) /\ links[g] = <<links[g][1]>>
  BY LinkFacts
<1>2. links[g][1] \in Link /\ links \in [Group -> Seq(Link)]
  BY LinkFacts DEF TypeInv, GroupTypes
<1>3. links' = [links EXCEPT ![g] = [links[g] EXCEPT ![1] = link]]
  BY <1>1, <1>2 DEF Send, Sent
<1>4. link.messages = sent
  BY <1>2 DEF Link
<1> HIDE DEF sent, link
<1>5. links'[g] = <<link>> /\ OthersKeepLinks(g)
  BY <1>1, <1>2, <1>3 DEF OthersKeepLinks
<1> QED
  BY <1>4, <1>5 DEF Unread, sent

LEMMA SendBeatUnread ==
  ASSUME TypeInv, NEW g \in Group, OneLink(g), TimesInOrder(g), status[g] # "down",
         NEW s, Send(g, <<BeatOf(s)>>)
  PROVE  /\ Len(links'[g]) = 1 /\ OthersKeepLinks(g)
         /\ TimesAgree(last_confirmed_heartbeat[g], responses[g], Unread(g)',
                       rtm_group_heartbeat[g].last_beat, clock)
         /\ AnyStopped(Unread(g)') => AnyStopped(Unread(g)) \/ s = "Stopped"
         /\ \A l : AnyRelease(Unread(g)', l) => AnyRelease(Unread(g), l)
<1> DEFINE m == BeatOf(s)
           u == Unread(g)
<1>1. m \in GroupMessage /\ m.timestamp = clock /\ m.kind = "beat"
  BY BeatType DEF TypeInv, BalancerTypes, BeatOf
<1>2. m.status = "stopped" => s = "Stopped"
  BY DEF BeatOf, GetEffectiveStatus
<1> HIDE DEF m
<1>3. <<m>> \in Seq(GroupMessage) /\ Len(<<m>>) = 1 /\ <<m>>[1] = m
  BY <1>1
<1>4. u \in Seq(GroupMessage) /\ responses[g] \in Seq(Response)
  BY LinkFacts
<1>5. Len(links'[g]) = 1 /\ OthersKeepLinks(g) /\ Unread(g)' = u \o <<m>>
  BY <1>3, SendUnread DEF m
<1> HIDE DEF u
<1>6. TimesAgree(last_confirmed_heartbeat[g], responses[g], u \o <<m>>,
                 rtm_group_heartbeat[g].last_beat, clock)
  <2>1. \A i \in 1..Len(<<m>>) : IsTimed(<<m>>[i]) => <<m>>[i].timestamp = clock
    BY <1>1, <1>3
  <2>2. last_confirmed_heartbeat[g] \in Nat /\ rtm_group_heartbeat[g].last_beat \in Nat /\ clock \in Nat
    BY DEF TypeInv, BalancerTypes, GroupTypes, Heartbeat
  <2> QED
    BY <1>3, <1>4, <2>1, <2>2, TimesSend DEF TimesInOrder, u
<1>7. AnyStopped(<<m>>) => s = "Stopped"
  BY <1>2, <1>3 DEF AnyStopped
<1>8. \A l : ~AnyRelease(<<m>>, l)
  BY <1>1, <1>3 DEF AnyRelease
<1> QED
  BY <1>3, <1>4, <1>5, <1>6, <1>7, <1>8, ConcatParts DEF u

LEMMA SendReleaseUnread ==
  ASSUME TypeInv, NEW g \in Group, OneLink(g), TimesInOrder(g), status[g] # "down",
         NEW k \in Location \cup {All}, Send(g, <<ReleaseOf(k)>>)
  PROVE  /\ Len(links'[g]) = 1 /\ OthersKeepLinks(g)
         /\ Unread(g)' = Unread(g) \o <<ReleaseOf(k)>>
         /\ TimesAgree(last_confirmed_heartbeat[g], responses[g], Unread(g)',
                       rtm_group_heartbeat[g].last_beat, clock)
         /\ AnyStopped(Unread(g)') => AnyStopped(Unread(g))
         /\ \A l : AnyRelease(Unread(g)', l) => AnyRelease(Unread(g), l) \/ k \in {l, All}
<1> DEFINE m == ReleaseOf(k)
           u == Unread(g)
<1>1. m \in GroupMessage /\ m.location = k /\ m.kind = "release"
  BY ReleaseType DEF ReleaseOf
<1> HIDE DEF m
<1>2. <<m>> \in Seq(GroupMessage) /\ Len(<<m>>) = 1 /\ <<m>>[1] = m
  BY <1>1
<1>3. u \in Seq(GroupMessage) /\ responses[g] \in Seq(Response)
  BY LinkFacts
<1>4. Len(links'[g]) = 1 /\ OthersKeepLinks(g) /\ Unread(g)' = u \o <<m>>
  BY <1>2, SendUnread DEF m
<1> HIDE DEF u
<1>5. TimesAgree(last_confirmed_heartbeat[g], responses[g], u \o <<m>>,
                 rtm_group_heartbeat[g].last_beat, clock)
  <2>1. \A i \in 1..Len(<<m>>) : IsTimed(<<m>>[i]) => <<m>>[i].timestamp = clock
    BY <1>1, <1>2 DEF IsTimed
  <2>2. last_confirmed_heartbeat[g] \in Nat /\ rtm_group_heartbeat[g].last_beat \in Nat /\ clock \in Nat
    BY DEF TypeInv, BalancerTypes, GroupTypes, Heartbeat
  <2> QED
    BY <1>2, <1>3, <2>1, <2>2, TimesSend DEF TimesInOrder, u
<1>6. ~AnyStopped(<<m>>)
  BY <1>1, <1>2 DEF AnyStopped
<1>7. \A l : AnyRelease(<<m>>, l) => k \in {l, All}
  BY <1>1, <1>2 DEF AnyRelease
<1> QED
  BY <1>2, <1>3, <1>4, <1>5, <1>6, <1>7, ConcatParts DEF u, m

\* A new connection has a heartbeat of its own and nothing else.
LEMMA ConnectUnread ==
  ASSUME TypeInv, Prompt, NEW g \in Group, NEW b \in Balancer, NEW s, Connect(g, b, s)
  PROVE  /\ Len(links'[g]) = 1 /\ Unread(g)' = <<BeatOf(s)>> /\ OthersKeepLinks(g)
         /\ AnyStopped(Unread(g)') => s = "Stopped"
         /\ \A l : ~AnyRelease(Unread(g)', l)
         /\ \A c \in Nat : c <= clock /\ c <= rtm_group_heartbeat[g].last_beat =>
              TimesAgree(c, <<>>, Unread(g)', rtm_group_heartbeat[g].last_beat, clock)
<1> DEFINE m == BeatOf(s)
           link == [to |-> b, messages |-> <<m>>]
<1>1. links' = [links EXCEPT ![g] = Append(<<>>, link)]
  BY DEF Connect
<1>2. links \in [Group -> Seq(Link)]
  BY DEF TypeInv, GroupTypes
<1>3. link.messages = <<m>>
  OBVIOUS
<1>4. m.timestamp = clock /\ m.kind = "beat" /\ (m.status = "stopped" => s = "Stopped")
  BY DEF BeatOf, GetEffectiveStatus
<1> HIDE DEF m, link
<1>5. links'[g] = <<link>> /\ OthersKeepLinks(g)
  BY <1>1, <1>2 DEF OthersKeepLinks
<1>6. Len(links'[g]) = 1 /\ Unread(g)' = <<m>>
  BY <1>3, <1>5 DEF Unread
<1>7. (AnyStopped(<<m>>) => s = "Stopped") /\ \A l : ~AnyRelease(<<m>>, l)
  BY <1>4 DEF AnyStopped, AnyRelease
<1>8. \A c \in Nat : c <= clock /\ c <= rtm_group_heartbeat[g].last_beat =>
        TimesAgree(c, <<>>, <<m>>, rtm_group_heartbeat[g].last_beat, clock)
  <2>1. rtm_group_heartbeat[g].last_beat \in Nat /\ clock \in Nat
    BY DEF TypeInv, BalancerTypes, Heartbeat
  <2> QED
    BY <1>4, <2>1, TimesConnect
<1> QED
  BY <1>5, <1>6, <1>7, <1>8 DEF m

\* A balancer reads the one connection there is.
LEMMA TakeUnread ==
  ASSUME TypeInv, NEW g \in Group, OneLink(g), NEW b \in Balancer, NEW i, NEW kind,
         Reads(g, b, i, kind), Take(g, i)
  PROVE  /\ i = 1 /\ i = Open(g) /\ links[g] # <<>> /\ Unread(g) # <<>>
         /\ Received(g, i) = Head(Unread(g)) /\ Received(g, i).kind = kind
         /\ Len(links'[g]) = 1 /\ Unread(g)' = Tail(Unread(g)) /\ OthersKeepLinks(g)
<1>1. links[g] \in Seq(Link) /\ i \in 1..Len(links[g])
  BY DEF Reads, Open, TypeInv, GroupTypes
<1>2. links[g] # <<>>
  BY <1>1
<1>3. /\ Open(g) = 1 /\ Sent(g) = Unread(g)
      /\ links[g] = <<links[g][1]>> /\ links[g][1] \in Link
  BY <1>2, LinkFacts
<1>4. i = 1
  BY <1>1, <1>3 DEF Open
<1>5. Unread(g) # <<>> /\ Received(g, i) = Head(Unread(g)) /\ Received(g, i).kind = kind
  BY <1>2, <1>4 DEF Reads, Received, Unread
<1> DEFINE rest == Tail(links[g][1].messages)
           link == [links[g][1] EXCEPT !.messages = rest]
<1>6. links' = [links EXCEPT ![g] = [links[g] EXCEPT ![1] = link]]
  BY <1>3, <1>4 DEF Take, TypeInv, GroupTypes
<1>7. link.messages = rest
  BY <1>3 DEF Link
<1> HIDE DEF rest, link
<1>8. links'[g] = <<link>> /\ OthersKeepLinks(g)
  BY <1>3, <1>6 DEF OthersKeepLinks, TypeInv, GroupTypes
<1>9. Unread(g)' = rest /\ rest = Tail(Unread(g))
  BY <1>2, <1>7, <1>8 DEF Unread, rest
<1> QED
  BY <1>2, <1>3, <1>4, <1>5, <1>8, <1>9

-----------------------------------------------------------------------------
(* Steps of other groups leave a group alone.                              *)

Untouched(h) ==
  /\ links'[h] = links[h] /\ responses'[h] = responses[h] /\ status'[h] = status[h]
  /\ last_confirmed_heartbeat'[h] = last_confirmed_heartbeat[h]
  /\ write_locations_deadline'[h] = write_locations_deadline[h]
  /\ assigned_locations'[h] = assigned_locations[h]
  /\ rtm_group_heartbeat'[h] = rtm_group_heartbeat[h]
  /\ clock' = clock

RowsKept(h) == \A l \in assigned_locations[h] : rtm_locations[l] = h => rtm_locations'[l] = h

LEMMA UntouchedKeeps ==
  ASSUME NEW h \in Group, GroupInv(h), Untouched(h), RowsKept(h),
         BeingFreed(h)' => BeingFreed(h) \/ ~Alive(rtm_group_heartbeat[h])
  PROVE  GroupInv(h)'
<1>1. OneLink(h)'
  BY DEF GroupInv, OneLink, Untouched
<1>2. Unread(h)' = Unread(h)
  BY DEF Untouched, Unread
<1>3. TimesInOrder(h)'
  BY <1>2 DEF GroupInv, TimesInOrder, Untouched
<1>4. LeaseRuns(h)'
  BY <1>2 DEF GroupInv, LeaseRuns, Untouched
<1>5. Holds(h)'
  BY <1>2 DEF GroupInv, Holds, Untouched, RowsKept
<1>6. FreedAreDead(h)'
  BY DEF GroupInv, FreedAreDead, Untouched, Alive
<1> QED
  BY <1>1, <1>3, <1>4, <1>5, <1>6 DEF GroupInv

\* What no step of a group changes.
TablesKept == UNCHANGED <<clock, rtm_locations, rtm_group_heartbeat, work>>

LEMMA GroupStepKeepsTables ==
  ASSUME NEW g, GroupStep(g)
  PROVE  TablesKept
BY Zenon DEF GroupStep, SendHeartbeat, ReleaseAgain, ReceiveBeat, ReceiveRelease, Expire, Stop,
   Reanimate, Crash, Unload, Register, Reconnect, Restart, database, balancer, TablesKept

\* A step of g leaves the parts that are about g to be shown.
LEMMA GroupKeeps ==
  ASSUME TypeInv, NEW g \in Group, HeldInv, TablesKept,
         \A h \in Group \ {g} : Untouched(h),
         OneLink(g)', TimesInOrder(g)', LeaseRuns(g)', Holds(g)'
  PROVE  HeldInv'
<1>1. \A h \in Group : BeingFreed(h)' = BeingFreed(h)
  BY DEF BeingFreed, TablesKept
<1>2. FreedAreDead(g)'
  BY <1>1 DEF HeldInv, GroupInv, FreedAreDead, TablesKept, Alive
<1>3. GroupInv(g)'
  BY <1>2 DEF GroupInv
<1>4. ASSUME NEW h \in Group, h # g
      PROVE  GroupInv(h)'
  <2>1. GroupInv(h) /\ Untouched(h) /\ RowsKept(h)
    BY <1>4 DEF HeldInv, TablesKept, RowsKept
  <2> QED
    BY <1>1, <2>1, UntouchedKeeps
<1>5. Lifetime < clock'
  BY DEF HeldInv, TablesKept
<1> QED
  BY <1>3, <1>4, <1>5 DEF HeldInv

-----------------------------------------------------------------------------
(* Steps of a group.                                                       *)

LEMMA HeldParts ==
  ASSUME TypeInv, HeldInv, NEW g \in Group
  PROVE  /\ OneLink(g) /\ TimesInOrder(g) /\ LeaseRuns(g) /\ Holds(g) /\ FreedAreDead(g)
         /\ Unread(g) \in Seq(GroupMessage) /\ responses[g] \in Seq(Response)
         /\ clock \in Nat /\ last_confirmed_heartbeat[g] \in Nat
         /\ rtm_group_heartbeat[g].last_beat \in Nat
         /\ status[g] \in {"Initializing", "Ready", "Releasing_Urgent", "Stopped", "down"}
         /\ (status[g] = "down" => assigned_locations[g] = {} /\ responses[g] = <<>>)
<1>1. OneLink(g) /\ TimesInOrder(g) /\ LeaseRuns(g) /\ Holds(g) /\ FreedAreDead(g)
  BY DEF HeldInv, GroupInv
<1> QED
  BY <1>1, LinkFacts DEF TypeInv, BalancerTypes, GroupTypes, Heartbeat

LEMMA SendHeartbeatKeeps ==
  ASSUME TypeInv, HeldInv, NEW g \in Group, SendHeartbeat(g), TablesKept
  PROVE  HeldInv'
<1>1. /\ status[g] # "down" /\ Send(g, <<BeatOf(status[g])>>)
      /\ UNCHANGED <<status, last_confirmed_heartbeat, write_locations_deadline,
                     assigned_locations, responses>>
  BY DEF SendHeartbeat, group
<1>2. /\ Len(links'[g]) = 1 /\ OthersKeepLinks(g)
      /\ TimesAgree(last_confirmed_heartbeat[g], responses[g], Unread(g)',
                    rtm_group_heartbeat[g].last_beat, clock)
      /\ AnyStopped(Unread(g)') => AnyStopped(Unread(g)) \/ status[g] = "Stopped"
      /\ \A l : AnyRelease(Unread(g)', l) => AnyRelease(Unread(g), l)
  BY <1>1, HeldParts, SendBeatUnread
<1>3. OneLink(g)' /\ TimesInOrder(g)'
  BY <1>1, <1>2 DEF OneLink, TimesInOrder, TablesKept
<1>4. LeaseRuns(g)'
  BY <1>1, <1>2, HeldParts DEF LeaseRuns, TablesKept, InUse
<1>5. Holds(g)'
  BY <1>1, <1>2, HeldParts DEF Holds, TablesKept
<1>6. \A h \in Group \ {g} : Untouched(h)
  BY <1>1, <1>2 DEF Untouched, OthersKeepLinks, TablesKept
<1> QED
  BY <1>3, <1>4, <1>5, <1>6, GroupKeeps

LEMMA ReleaseAgainKeeps ==
  ASSUME TypeInv, HeldInv, NEW g \in Group, ReleaseAgain(g), TablesKept
  PROVE  HeldInv'
<1>1. /\ status[g] = "Initializing" /\ Send(g, <<ReleaseOf(All)>>)
      /\ assigned_locations' = [assigned_locations EXCEPT ![g] = {}]
      /\ UNCHANGED <<status, last_confirmed_heartbeat, write_locations_deadline, responses>>
  BY DEF ReleaseAgain
<1>2. /\ Len(links'[g]) = 1 /\ OthersKeepLinks(g)
      /\ TimesAgree(last_confirmed_heartbeat[g], responses[g], Unread(g)',
                    rtm_group_heartbeat[g].last_beat, clock)
      /\ AnyStopped(Unread(g)') => AnyStopped(Unread(g))
  BY <1>1, HeldParts, SendReleaseUnread
<1>3. OneLink(g)' /\ TimesInOrder(g)'
  BY <1>1, <1>2 DEF OneLink, TimesInOrder, TablesKept
<1>4. LeaseRuns(g)'
  BY <1>1, <1>2, HeldParts DEF LeaseRuns, TablesKept, InUse
<1>5. Holds(g)'
  BY <1>1 DEF Holds, TypeInv, GroupTypes
<1>6. \A h \in Group \ {g} : Untouched(h)
  BY <1>1, <1>2 DEF Untouched, OthersKeepLinks, TablesKept, TypeInv, GroupTypes
<1> QED
  BY <1>3, <1>4, <1>5, <1>6, GroupKeeps

LEMMA ReceiveBeatKeeps ==
  ASSUME TypeInv, HeldInv, NEW g \in Group, ReceiveBeat(g), TablesKept
  PROVE  HeldInv'
<1> DEFINE r == Head(responses[g])
           c == last_confirmed_heartbeat'[g]
           a == Tail(responses[g])
           beat == rtm_group_heartbeat[g].last_beat
<1>1. /\ responses[g] # <<>> /\ r.kind = "beat" /\ status[g] # "down" /\ status' = status
      /\ responses' = [responses EXCEPT ![g] = a]
  BY HeldParts DEF ReceiveBeat
<1>2. CASE r.timestamp = 0
  <2>1. UNCHANGED <<last_confirmed_heartbeat, write_locations_deadline, assigned_locations, links>>
    BY <1>2 DEF ReceiveBeat
  <2>2. Unread(g)' = Unread(g)
    BY <2>1 DEF Unread
  <2>3. responses'[g] = a /\ responses[g] \in Seq(Response)
    BY <1>1 DEF TypeInv, GroupTypes
  <2>4. TimesAgree(last_confirmed_heartbeat[g], a, Unread(g), beat, clock)
    BY <1>1, HeldParts, TimesReceive DEF TimesInOrder
  <2>5. OneLink(g)' /\ TimesInOrder(g)'
    BY <1>1, <2>1, <2>2, <2>3, <2>4, HeldParts DEF OneLink, TimesInOrder, TablesKept
  <2>6. AnyTimed(a) => AnyTimed(responses[g])
    BY <1>1, <2>3, TailParts
  <2>7. LeaseRuns(g)'
    BY <1>1, <2>1, <2>2, <2>3, <2>6, HeldParts DEF LeaseRuns, TablesKept, InUse
  <2>8. Holds(g)'
    BY <1>1, <2>1, <2>2, HeldParts DEF Holds, TablesKept
  <2>9. \A h \in Group \ {g} : Untouched(h)
    BY <1>1, <2>1 DEF Untouched, TablesKept, TypeInv, GroupTypes
  <2> QED
    BY <2>5, <2>7, <2>8, <2>9, GroupKeeps
<1>3. CASE r.timestamp # 0
  <2> DEFINE t == r.timestamp
  <2>1. /\ last_confirmed_heartbeat' = [last_confirmed_heartbeat EXCEPT ![g] = t]
        /\ write_locations_deadline' = [write_locations_deadline EXCEPT ![g] =
             IF status[g] = "Stopped" THEN @ ELSE WriteDeadline(t)]
        /\ IF status[g] = "Initializing"
           THEN /\ assigned_locations' = [assigned_locations EXCEPT ![g] = {}]
                /\ Send(g, <<ReleaseOf(All)>>)
           ELSE UNCHANGED <<assigned_locations, links>>
    BY <1>3 DEF ReceiveBeat
  <2>2. responses'[g] = a /\ responses[g] \in Seq(Response) /\ r \in Response /\ a \in Seq(Response)
    BY <1>1, ResponseType DEF TypeInv, GroupTypes
  <2>3. IsTimed(r) /\ t \in Nat
    BY <1>1, <1>3, <2>2 DEF IsTimed, Response
  <2>4. /\ TimesAgree(t, a, Unread(g), beat, clock)
        /\ last_confirmed_heartbeat[g] <= t
    BY <1>1, <2>3, HeldParts, TimesReceive DEF TimesInOrder
  <2>5. AnyTimed(responses[g])
    BY <1>1, <2>2, <2>3, TailParts
  <2>6. /\ last_confirmed_heartbeat'[g] = t
        /\ status[g] # "Stopped" => write_locations_deadline'[g] = WriteDeadline(t)
    BY <2>1 DEF TypeInv, GroupTypes
  <2>7. \A h \in Group \ {g} : OthersKeepLinks(g) => Untouched(h)
    BY <1>1, <2>1 DEF Untouched, OthersKeepLinks, TablesKept, TypeInv, GroupTypes
  <2>8. (AnyStopped(Unread(g)') => AnyStopped(Unread(g))) => LeaseRuns(g)'
    <3> SUFFICES ASSUME AnyStopped(Unread(g)') => AnyStopped(Unread(g))
                 PROVE  LeaseRuns(g)'
      OBVIOUS
    <3>1. status[g] \in InUse => clock < t + Lifetime
      <4>1. Lifetime \in Nat
        BY LeaseAssumption DEF Lifetime
      <4> QED
        BY <2>3, <2>4, <4>1, HeldParts DEF LeaseRuns
    <3> HIDE DEF t
    <3> QED
      BY <1>1, <1>3, <2>5, <2>6, <3>1, HeldParts DEF LeaseRuns, TablesKept, InUse, t
  <2>9. CASE status[g] = "Initializing"
    <3>1. Send(g, <<ReleaseOf(All)>>) /\ assigned_locations' = [assigned_locations EXCEPT ![g] = {}]
      BY <2>1, <2>9
    <3>2. /\ Len(links'[g]) = 1 /\ OthersKeepLinks(g)
          /\ Unread(g)' = Unread(g) \o <<ReleaseOf(All)>>
          /\ AnyStopped(Unread(g)') => AnyStopped(Unread(g))
      BY <1>1, <3>1, HeldParts, SendReleaseUnread
    <3>3. TimesAgree(t, a, Unread(g)', beat, clock)
      <4> DEFINE ms == <<ReleaseOf(All)>>
      <4>1. ms \in Seq(GroupMessage) /\ Len(ms) = 1 /\ ms[1].kind = "release"
        BY ReleaseType DEF ReleaseOf
      <4>2. \A i \in 1..Len(ms) : IsTimed(ms[i]) => ms[i].timestamp = clock
        BY <4>1 DEF IsTimed
      <4> HIDE DEF ms, t, a
      <4>3. TimesAgree(t, a, Unread(g) \o ms, beat, clock)
        BY <2>2, <2>3, <2>4, <4>1, <4>2, HeldParts, TimesSend DEF t, a
      <4> QED
        BY <3>2, <4>3 DEF ms
    <3>4. OneLink(g)' /\ TimesInOrder(g)'
      BY <2>2, <2>6, <3>2, <3>3 DEF OneLink, TimesInOrder, TablesKept
    <3>5. Holds(g)'
      BY <3>1 DEF Holds, TypeInv, GroupTypes
    <3> QED
      BY <2>7, <2>8, <3>2, <3>4, <3>5, GroupKeeps
  <2>10. CASE status[g] # "Initializing"
    <3>1. UNCHANGED <<assigned_locations, links>>
      BY <2>1, <2>10
    <3>2. Unread(g)' = Unread(g) /\ OthersKeepLinks(g)
      BY <3>1 DEF Unread, OthersKeepLinks
    <3>3. OneLink(g)' /\ TimesInOrder(g)'
      BY <1>1, <2>2, <2>4, <2>6, <3>1, <3>2, HeldParts DEF OneLink, TimesInOrder, TablesKept
    <3>4. Holds(g)'
      BY <1>1, <3>1, <3>2, HeldParts DEF Holds, TablesKept
    <3> QED
      BY <2>7, <2>8, <3>2, <3>3, <3>4, GroupKeeps
  <2> QED
    BY <2>9, <2>10
<1> QED
  BY <1>2, <1>3

\* A group gets ready on a heartbeat that was confirmed: the times are positive.
LEMMA ReceiveReleaseKeeps ==
  ASSUME TypeInv, HeldInv, NEW g \in Group, ReceiveRelease(g), TablesKept
  PROVE  HeldInv'
<1> DEFINE r == Head(responses[g])
           a == Tail(responses[g])
           beat == rtm_group_heartbeat[g].last_beat
<1>1. /\ responses[g] # <<>> /\ r.kind = "release" /\ status[g] # "down"
      /\ responses' = [responses EXCEPT ![g] = a]
      /\ UNCHANGED <<last_confirmed_heartbeat, write_locations_deadline, assigned_locations>>
      /\ IF BecomesReady(g, r)
         THEN status' = [status EXCEPT ![g] = "Ready"] /\ Send(g, <<BeatOf("Ready")>>)
         ELSE UNCHANGED <<status, links>>
  BY HeldParts DEF ReceiveRelease
<1>2. responses'[g] = a /\ responses[g] \in Seq(Response) /\ a \in Seq(Response)
  BY <1>1, ResponseType DEF TypeInv, GroupTypes
<1>3. TimesAgree(last_confirmed_heartbeat[g], a, Unread(g), beat, clock)
  BY <1>1, HeldParts, TimesReceive DEF TimesInOrder
<1>4. AnyTimed(a) => AnyTimed(responses[g])
  BY <1>1, <1>2, TailParts
<1>5. CASE BecomesReady(g, r)
  <2>1. /\ status' = [status EXCEPT ![g] = "Ready"] /\ Send(g, <<BeatOf("Ready")>>)
        /\ status[g] = "Initializing" /\ last_confirmed_heartbeat[g] + Interval >= clock
    BY <1>1, <1>5 DEF BecomesReady
  <2>2. /\ Len(links'[g]) = 1 /\ OthersKeepLinks(g)
        /\ AnyStopped(Unread(g)') => AnyStopped(Unread(g))
        /\ Unread(g)' = Unread(g) \o <<BeatOf("Ready")>>
    <3>1. <<BeatOf("Ready")>> \in Seq(GroupMessage)
      BY BeatType, HeldParts
    <3> HIDE DEF a, beat
    <3>2. OneLink(g) /\ TimesInOrder(g) /\ status[g] # "down" /\ Send(g, <<BeatOf("Ready")>>)
      BY <1>1, <2>1, HeldParts
    <3>3. AnyStopped(Unread(g)') => AnyStopped(Unread(g))
      BY <3>2, SendBeatUnread
    <3> QED
      BY <3>1, <3>2, <3>3, SendUnread
  <2>3. TimesAgree(last_confirmed_heartbeat[g], a, Unread(g)', beat, clock)
    <3> DEFINE ms == <<BeatOf("Ready")>>
    <3>1. ms \in Seq(GroupMessage) /\ \A i \in 1..Len(ms) : ms[i].timestamp = clock
      BY BeatType, HeldParts DEF BeatOf
    <3> HIDE DEF ms
    <3>2. TimesAgree(last_confirmed_heartbeat[g], a, Unread(g) \o ms, beat, clock)
      BY <1>2, <1>3, <3>1, HeldParts, TimesSend
    <3> QED
      BY <2>2, <3>2 DEF ms
  <2>4. status'[g] = "Ready"
    BY <2>1 DEF TypeInv, GroupTypes
  <2>5. last_confirmed_heartbeat[g] # 0 /\ clock < last_confirmed_heartbeat[g] + Lifetime
    <3>1. Interval \in Nat /\ 0 < Interval
      BY LeaseAssumption
    <3>2. Lifetime < clock
      BY DEF HeldInv
    <3> QED
      BY <2>1, <3>1, <3>2, HeldParts DEF Lifetime
  <2>6. OneLink(g)' /\ TimesInOrder(g)'
    BY <1>1, <1>2, <2>2, <2>3 DEF OneLink, TimesInOrder, TablesKept
  <2>7. LeaseRuns(g)'
    BY <1>1, <2>1, <2>2, <2>4, <2>5, HeldParts DEF LeaseRuns, TablesKept, InUse
  <2>8. Holds(g)'
    <3>1. assigned_locations[g] = {}
      BY <2>1, HeldParts DEF Holds, InUse
    <3> QED
      BY <1>1, <3>1 DEF Holds
  <2>9. \A h \in Group \ {g} : Untouched(h)
    BY <1>1, <2>1, <2>2 DEF Untouched, OthersKeepLinks, TablesKept, TypeInv, GroupTypes
  <2> QED
    BY <2>6, <2>7, <2>8, <2>9, GroupKeeps
<1>6. CASE ~BecomesReady(g, r)
  <2>1. UNCHANGED <<status, links>>
    BY <1>1, <1>6
  <2>2. Unread(g)' = Unread(g)
    BY <2>1 DEF Unread
  <2>3. OneLink(g)' /\ TimesInOrder(g)'
    BY <1>1, <1>2, <1>3, <2>1, <2>2, HeldParts DEF OneLink, TimesInOrder, TablesKept
  <2>4. LeaseRuns(g)'
    BY <1>1, <1>2, <1>4, <2>1, <2>2, HeldParts DEF LeaseRuns, TablesKept, InUse
  <2>5. Holds(g)'
    BY <1>1, <2>1, <2>2, HeldParts DEF Holds, TablesKept
  <2>6. \A h \in Group \ {g} : Untouched(h)
    BY <1>1, <2>1 DEF Untouched, TablesKept, TypeInv, GroupTypes
  <2> QED
    BY <2>3, <2>4, <2>5, <2>6, GroupKeeps
<1> QED
  BY <1>5, <1>6

LEMMA ExpireKeeps ==
  ASSUME TypeInv, HeldInv, NEW g \in Group, Expire(g), TablesKept
  PROVE  HeldInv'
<1>1. /\ status[g] = "Ready" /\ Send(g, <<BeatOf("Releasing_Urgent")>>)
      /\ status' = [status EXCEPT ![g] = "Releasing_Urgent"]
      /\ UNCHANGED <<last_confirmed_heartbeat, write_locations_deadline,
                     assigned_locations, responses>>
  BY DEF Expire
<1>2. /\ Len(links'[g]) = 1 /\ OthersKeepLinks(g)
      /\ TimesAgree(last_confirmed_heartbeat[g], responses[g], Unread(g)',
                    rtm_group_heartbeat[g].last_beat, clock)
      /\ AnyStopped(Unread(g)') => AnyStopped(Unread(g))
      /\ \A l : AnyRelease(Unread(g)', l) => AnyRelease(Unread(g), l)
  BY <1>1, HeldParts, SendBeatUnread
<1>3. status'[g] = "Releasing_Urgent"
  BY <1>1 DEF TypeInv, GroupTypes
<1>4. OneLink(g)' /\ TimesInOrder(g)'
  BY <1>1, <1>2 DEF OneLink, TimesInOrder, TablesKept
<1>5. LeaseRuns(g)'
  BY <1>1, <1>2, <1>3, HeldParts DEF LeaseRuns, TablesKept, InUse
<1>6. Holds(g)'
  BY <1>1, <1>2, <1>3, HeldParts DEF Holds, TablesKept, InUse
<1>7. \A h \in Group \ {g} : Untouched(h)
  BY <1>1, <1>2 DEF Untouched, OthersKeepLinks, TablesKept, TypeInv, GroupTypes
<1> QED
  BY <1>4, <1>5, <1>6, <1>7, GroupKeeps

\* The release of one location says nothing of the others.
LEMMA UnloadKeeps ==
  ASSUME TypeInv, HeldInv, NEW g \in Group, NEW k \in Location, Unload(g, k), TablesKept
  PROVE  HeldInv'
<1>1. /\ status[g] # "down" /\ Send(g, <<ReleaseOf(k)>>)
      /\ assigned_locations' = [assigned_locations EXCEPT ![g] = @ \ {k}]
      /\ UNCHANGED <<status, last_confirmed_heartbeat, write_locations_deadline, responses>>
  BY DEF Unload
<1>2. /\ Len(links'[g]) = 1 /\ OthersKeepLinks(g)
      /\ TimesAgree(last_confirmed_heartbeat[g], responses[g], Unread(g)',
                    rtm_group_heartbeat[g].last_beat, clock)
      /\ AnyStopped(Unread(g)') => AnyStopped(Unread(g))
      /\ \A l : AnyRelease(Unread(g)', l) => AnyRelease(Unread(g), l) \/ k \in {l, All}
  BY <1>1, HeldParts, SendReleaseUnread
<1>3. OneLink(g)' /\ TimesInOrder(g)'
  BY <1>1, <1>2 DEF OneLink, TimesInOrder, TablesKept
<1>4. LeaseRuns(g)'
  BY <1>1, <1>2, HeldParts DEF LeaseRuns, TablesKept, InUse
<1>5. Holds(g)'
  <2>1. assigned_locations'[g] = assigned_locations[g] \ {k} /\ k # All
    BY <1>1, LeaseAssumption DEF TypeInv, GroupTypes
  <2> QED
    BY <1>1, <1>2, <2>1, HeldParts DEF Holds, TablesKept
<1>6. \A h \in Group \ {g} : Untouched(h)
  BY <1>1, <1>2 DEF Untouched, OthersKeepLinks, TablesKept, TypeInv, GroupTypes
<1> QED
  BY <1>3, <1>4, <1>5, <1>6, GroupKeeps

LEMMA StopKeeps ==
  ASSUME TypeInv, HeldInv, NEW g \in Group, Stop(g), TablesKept
  PROVE  HeldInv'
<1> DEFINE ms == <<BeatOf("Stopped"), ReleaseOf(All)>>
<1>1. /\ status[g] # "down" /\ Send(g, ms)
      /\ status' = [status EXCEPT ![g] = "Stopped"]
      /\ assigned_locations' = [assigned_locations EXCEPT ![g] = {}]
      /\ UNCHANGED <<last_confirmed_heartbeat, write_locations_deadline, responses>>
  BY DEF Stop
<1>2. ms \in Seq(GroupMessage) /\ \A i \in 1..Len(ms) : IsTimed(ms[i]) => ms[i].timestamp = clock
  <2>1. BeatOf("Stopped") \in GroupMessage /\ ReleaseOf(All) \in GroupMessage
    BY BeatType, ReleaseType, HeldParts
  <2>2. Len(ms) = 2 /\ ms[1].timestamp = clock /\ ms[2].kind = "release"
    BY DEF BeatOf, ReleaseOf
  <2> QED
    BY <2>1, <2>2 DEF IsTimed
<1> HIDE DEF ms
<1>3. Len(links'[g]) = 1 /\ Unread(g)' = Unread(g) \o ms /\ OthersKeepLinks(g)
  BY <1>1, <1>2, HeldParts, SendUnread
<1>4. TimesAgree(last_confirmed_heartbeat[g], responses[g], Unread(g) \o ms,
                 rtm_group_heartbeat[g].last_beat, clock)
  BY <1>2, HeldParts, TimesSend DEF TimesInOrder
<1>5. OneLink(g)' /\ TimesInOrder(g)'
  BY <1>1, <1>3, <1>4 DEF OneLink, TimesInOrder, TablesKept
<1>6. status'[g] = "Stopped" /\ assigned_locations'[g] = {}
  BY <1>1 DEF TypeInv, GroupTypes
<1>7. LeaseRuns(g)' /\ Holds(g)'
  BY <1>6 DEF LeaseRuns, Holds, InUse
<1>8. \A h \in Group \ {g} : Untouched(h)
  BY <1>1, <1>3 DEF Untouched, OthersKeepLinks, TablesKept, TypeInv, GroupTypes
<1> QED
  BY <1>5, <1>7, <1>8, GroupKeeps

\* The group starts over with an empty connection: nothing tells it that its
\* first heartbeat was confirmed but the answer to that one.
LEMMA ReanimateKeeps ==
  ASSUME TypeInv, HeldInv, Prompt, NEW g \in Group, Reanimate(g), TablesKept
  PROVE  HeldInv'
<1>1. /\ status[g] = "Stopped" /\ Settled(g) /\ assigned_locations[g] = {}
      /\ status' = [status EXCEPT ![g] = "Initializing"]
      /\ last_confirmed_heartbeat' = [last_confirmed_heartbeat EXCEPT ![g] = 0]
      /\ Send(g, <<BeatOf("Initializing")>>)
      /\ UNCHANGED <<write_locations_deadline, assigned_locations, responses>>
  BY DEF Reanimate
<1>2. Unread(g) = <<>> /\ responses[g] = <<>>
  BY <1>1, HeldParts, LinkFacts DEF Settled
<1>3. /\ Len(links'[g]) = 1 /\ OthersKeepLinks(g)
      /\ TimesAgree(last_confirmed_heartbeat[g], responses[g], Unread(g)',
                    rtm_group_heartbeat[g].last_beat, clock)
      /\ AnyStopped(Unread(g)') => AnyStopped(Unread(g))
      /\ Unread(g)' = Unread(g) \o <<BeatOf("Initializing")>>
  <2>1. <<BeatOf("Initializing")>> \in Seq(GroupMessage)
    BY BeatType, HeldParts
  <2> QED
    BY <1>1, <2>1, HeldParts, SendBeatUnread, SendUnread
<1>4. Unread(g)' \in Seq(GroupMessage)
  BY <1>3, BeatType, HeldParts
<1>5. TimesAgree(0, responses[g], Unread(g)', rtm_group_heartbeat[g].last_beat, clock)
  BY <1>3, <1>4, HeldParts, TimesForget
<1>6. last_confirmed_heartbeat'[g] = 0 /\ status'[g] = "Initializing"
  BY <1>1 DEF TypeInv, GroupTypes
<1>7. OneLink(g)' /\ TimesInOrder(g)'
  BY <1>1, <1>3, <1>5, <1>6 DEF OneLink, TimesInOrder, TablesKept
<1>8. ~AnyTimed(responses[g]) /\ ~AnyStopped(Unread(g))
  BY <1>2 DEF AnyTimed, AnyStopped
<1>9. LeaseRuns(g)'
  BY <1>1, <1>3, <1>6, <1>8 DEF LeaseRuns, InUse
<1>10. Holds(g)'
  BY <1>1 DEF Holds
<1>11. \A h \in Group \ {g} : Untouched(h)
  BY <1>1, <1>3 DEF Untouched, OthersKeepLinks, TablesKept, TypeInv, GroupTypes
<1> QED
  BY <1>7, <1>9, <1>10, <1>11, GroupKeeps

\* The answer that named this group is not overtaken: the row is the group's
\* and no release of the location is on its way.
LEMMA RegisterKeeps ==
  ASSUME TypeInv, HeldInv, Prompt, NEW g \in Group, NEW k \in Location, Register(g, k), TablesKept
  PROVE  HeldInv'
<1>1. /\ rtm_locations[k] = g /\ ~Releasing(g, k)
      /\ status[g] \notin {"Initializing", "Stopped", "down"}
      /\ assigned_locations' = [assigned_locations EXCEPT ![g] = @ \cup {k}]
      /\ UNCHANGED <<status, last_confirmed_heartbeat, write_locations_deadline, links, responses>>
  BY DEF Register, Overtaken
<1>2. status[g] \in InUse /\ status[g] # "down"
  BY <1>1, HeldParts DEF InUse
<1>3. Unread(g)' = Unread(g) /\ OthersKeepLinks(g)
  BY <1>1 DEF Unread, OthersKeepLinks
<1>4. ~AnyRelease(Unread(g), k)
  <2>1. /\ links[g] # <<>> /\ Open(g) = 1 /\ Sent(g) = Unread(g)
        /\ Unread(g) \in Seq(GroupMessage)
    BY <1>2, HeldParts, LinkFacts
  <2>2. links[g][1].messages = Unread(g)
    BY <2>1 DEF Unread
  <2>3. \A m \in ToSet(Unread(g)) : m.kind = "beat" \/ m.location \notin {k, All}
    BY <1>1, <2>1, <2>2 DEF Releasing
  <2>4. \A i \in 1..Len(Unread(g)) : Unread(g)[i] \in ToSet(Unread(g))
    BY <2>1 DEF ToSet
  <2> QED
    BY <2>3, <2>4 DEF AnyRelease
<1>5. OneLink(g)' /\ TimesInOrder(g)'
  BY <1>1, <1>3, HeldParts DEF OneLink, TimesInOrder, TablesKept
<1>6. LeaseRuns(g)'
  BY <1>1, <1>3, HeldParts DEF LeaseRuns, TablesKept, InUse
<1>7. Holds(g)'
  <2>1. assigned_locations'[g] = assigned_locations[g] \cup {k}
    BY <1>1 DEF TypeInv, GroupTypes
  <2> QED
    BY <1>1, <1>2, <1>3, <1>4, <2>1, HeldParts DEF Holds, TablesKept
<1>8. \A h \in Group \ {g} : Untouched(h)
  BY <1>1 DEF Untouched, TablesKept, TypeInv, GroupTypes
<1> QED
  BY <1>5, <1>6, <1>7, <1>8, GroupKeeps

LEMMA ReconnectKeeps ==
  ASSUME TypeInv, HeldInv, Prompt, NEW g \in Group, NEW b \in Balancer, Reconnect(g, b), TablesKept
  PROVE  HeldInv'
<1>1. /\ status[g] # "down" /\ Connect(g, b, status[g])
      /\ responses' = [responses EXCEPT ![g] = <<>>]
      /\ UNCHANGED <<status, last_confirmed_heartbeat, write_locations_deadline, assigned_locations>>
  BY DEF Reconnect, group
<1>2. /\ Len(links'[g]) = 1 /\ OthersKeepLinks(g)
      /\ AnyStopped(Unread(g)') => status[g] = "Stopped"
      /\ \A l : ~AnyRelease(Unread(g)', l)
      /\ \A c \in Nat : c <= clock /\ c <= rtm_group_heartbeat[g].last_beat =>
           TimesAgree(c, <<>>, Unread(g)', rtm_group_heartbeat[g].last_beat, clock)
  BY <1>1, ConnectUnread
<1>3. responses'[g] = <<>>
  BY <1>1 DEF TypeInv, GroupTypes
<1>4. TimesInOrder(g)'
  <2>1. /\ last_confirmed_heartbeat[g] <= clock
        /\ last_confirmed_heartbeat[g] <= rtm_group_heartbeat[g].last_beat
    BY HeldParts DEF TimesInOrder, TimesAgree
  <2> QED
    BY <1>1, <1>2, <1>3, <2>1, HeldParts DEF TimesInOrder, TablesKept
<1>5. OneLink(g)'
  BY <1>2 DEF OneLink
<1>6. ~AnyTimed(<<>>)
  BY DEF AnyTimed
<1>7. LeaseRuns(g)'
  BY <1>1, <1>2, <1>3, <1>6, HeldParts DEF LeaseRuns, TablesKept, InUse
<1>8. Holds(g)'
  BY <1>1, <1>2, HeldParts DEF Holds, TablesKept
<1>9. \A h \in Group \ {g} : Untouched(h)
  BY <1>1, <1>2 DEF Untouched, OthersKeepLinks, TablesKept, TypeInv, GroupTypes
<1> QED
  BY <1>4, <1>5, <1>7, <1>8, <1>9, GroupKeeps

LEMMA CrashKeeps ==
  ASSUME TypeInv, HeldInv, NEW g \in Group, Crash(g), TablesKept
  PROVE  HeldInv'
<1>1. /\ status' = [status EXCEPT ![g] = "down"]
      /\ assigned_locations' = [assigned_locations EXCEPT ![g] = {}]
      /\ responses' = [responses EXCEPT ![g] = <<>>]
      /\ UNCHANGED <<last_confirmed_heartbeat, write_locations_deadline, links>>
  BY DEF Crash
<1>2. status'[g] = "down" /\ assigned_locations'[g] = {} /\ responses'[g] = <<>>
  BY <1>1 DEF TypeInv, GroupTypes
<1>3. Unread(g)' = Unread(g)
  BY <1>1 DEF Unread
<1>4. OneLink(g)'
  BY <1>1, <1>2, HeldParts DEF OneLink
<1>5. TimesInOrder(g)'
  <2>1. TimesAgree(last_confirmed_heartbeat[g], <<>>, Unread(g), rtm_group_heartbeat[g].last_beat, clock)
    BY HeldParts DEF TimesInOrder, TimesAgree, Ordered
  <2> QED
    BY <1>1, <1>2, <1>3, <2>1 DEF TimesInOrder, TablesKept
<1>6. LeaseRuns(g)' /\ Holds(g)'
  BY <1>2 DEF LeaseRuns, Holds, InUse
<1>7. \A h \in Group \ {g} : Untouched(h)
  BY <1>1 DEF Untouched, TablesKept, TypeInv, GroupTypes
<1> QED
  BY <1>4, <1>5, <1>6, <1>7, GroupKeeps

LEMMA RestartKeeps ==
  ASSUME TypeInv, HeldInv, Prompt, NEW g \in Group, NEW b \in Balancer, Restart(g, b), TablesKept
  PROVE  HeldInv'
<1>1. /\ status[g] = "down" /\ Connect(g, b, "Initializing")
      /\ status' = [status EXCEPT ![g] = "Initializing"]
      /\ last_confirmed_heartbeat' = [last_confirmed_heartbeat EXCEPT ![g] = 0]
      /\ write_locations_deadline' = [write_locations_deadline EXCEPT ![g] = 0]
      /\ UNCHANGED <<assigned_locations, responses>>
  BY DEF Restart
<1>2. /\ Len(links'[g]) = 1 /\ OthersKeepLinks(g) /\ ~AnyStopped(Unread(g)')
      /\ \A c \in Nat : c <= clock /\ c <= rtm_group_heartbeat[g].last_beat =>
           TimesAgree(c, <<>>, Unread(g)', rtm_group_heartbeat[g].last_beat, clock)
  BY <1>1, ConnectUnread
<1>3. /\ responses'[g] = <<>> /\ assigned_locations'[g] = {}
      /\ status'[g] = "Initializing" /\ last_confirmed_heartbeat'[g] = 0
  BY <1>1 DEF TypeInv, GroupTypes
<1>4. TimesInOrder(g)'
  BY <1>1, <1>2, <1>3, HeldParts DEF TimesInOrder, TablesKept
<1>5. OneLink(g)'
  BY <1>2 DEF OneLink
<1>6. ~AnyTimed(<<>>)
  BY DEF AnyTimed
<1>7. LeaseRuns(g)' /\ Holds(g)'
  BY <1>2, <1>3, <1>6 DEF LeaseRuns, Holds, InUse
<1>8. \A h \in Group \ {g} : Untouched(h)
  BY <1>1, <1>2 DEF Untouched, OthersKeepLinks, TablesKept, TypeInv, GroupTypes
<1> QED
  BY <1>4, <1>5, <1>7, <1>8, GroupKeeps

LEMMA GroupStepKeeps ==
  ASSUME TypeInv, HeldInv, Prompt, NEW g \in Group, GroupStep(g)
  PROVE  HeldInv'
<1>1. TablesKept
  BY GroupStepKeepsTables
<1> QED
  BY <1>1, SendHeartbeatKeeps, ReleaseAgainKeeps, ReceiveBeatKeeps, ReceiveReleaseKeeps,
     ExpireKeeps, UnloadKeeps, StopKeeps, ReanimateKeeps, RegisterKeeps, ReconnectKeeps,
     CrashKeeps, RestartKeeps DEF GroupStep

-----------------------------------------------------------------------------
(* Steps of a balancer.                                                    *)

\* A group in use has a heartbeat in the table that keeps its rows from being
\* freed: what is confirmed is no newer than what the table has.
LEMMA InUseIsAlive ==
  ASSUME TypeInv, HeldInv, NEW g \in Group, status[g] \in InUse
  PROVE  Alive(rtm_group_heartbeat[g]) /\ ~BeingFreed(g)
<1>1. /\ last_confirmed_heartbeat[g] <= rtm_group_heartbeat[g].last_beat
      /\ clock < last_confirmed_heartbeat[g] + Lifetime
      /\ rtm_group_heartbeat[g].status # "stopped"
  BY HeldParts DEF TimesInOrder, TimesAgree, LeaseRuns
<1>2. Lifetime \in Nat
  BY LeaseAssumption DEF Lifetime
<1>3. rtm_group_heartbeat[g].last_beat + Lifetime > clock
  BY <1>1, <1>2, HeldParts
<1>4. Alive(rtm_group_heartbeat[g])
  BY <1>1, <1>3 DEF Alive
<1> QED
  BY <1>4, HeldParts DEF FreedAreDead

GroupsKept ==
  UNCHANGED <<clock, rtm_group_heartbeat, status, last_confirmed_heartbeat,
              write_locations_deadline, assigned_locations, links, responses>>

LEMMA GroupsKeptKeeps ==
  ASSUME HeldInv, GroupsKept, \A h \in Group : RowsKept(h),
         \A h \in Group : BeingFreed(h)' => BeingFreed(h) \/ ~Alive(rtm_group_heartbeat[h])
  PROVE  HeldInv'
<1>1. ASSUME NEW h \in Group
      PROVE  GroupInv(h)'
  <2>1. GroupInv(h) /\ Untouched(h)
    BY DEF HeldInv, GroupsKept, Untouched
  <2> QED
    BY <2>1, UntouchedKeeps
<1>2. Lifetime < clock'
  BY DEF HeldInv, GroupsKept
<1> QED
  BY <1>1, <1>2 DEF HeldInv

\* The groups that are being freed once a balancer goes on to w.
LEMMA WorkFrees ==
  ASSUME TypeInv, NEW b \in Balancer, NEW w, work' = [work EXCEPT ![b] = w],
         NEW g \in Group, BeingFreed(g)'
  PROVE  BeingFreed(g) \/ (w.step = "free" /\ g \in w.dead)
<1>1. PICK c \in Balancer : work'[c].step = "free" /\ g \in work'[c].dead
  BY DEF BeingFreed
<1>2. CASE c = b
  BY <1>1, <1>2 DEF TypeInv, BalancerTypes
<1>3. CASE c # b
  BY <1>1, <1>3 DEF BeingFreed, TypeInv, BalancerTypes
<1> QED
  BY <1>2, <1>3

LEMMA AnswerValidKeeps ==
  ASSUME TypeInv, HeldInv, NEW b \in Balancer, NEW l \in Location, AnswerValid(b, l)
  PROVE  HeldInv'
<1>1. GroupsKept /\ UNCHANGED <<rtm_locations, work>>
  BY DEF AnswerValid, GroupsKept, database, group
<1>2. \A h \in Group : RowsKept(h) /\ (BeingFreed(h)' => BeingFreed(h))
  BY <1>1 DEF RowsKept, BeingFreed
<1> QED
  BY <1>1, <1>2, GroupsKeptKeeps

LEMMA PickReadyGroupKeeps ==
  ASSUME TypeInv, HeldInv, NEW b \in Balancer, NEW l \in Location, PickReadyGroup(b, l)
  PROVE  HeldInv'
<1>1. GroupsKept /\ UNCHANGED rtm_locations
  BY DEF PickReadyGroup, GroupsKept, database, group, network
<1>2. \/ work' = work
      \/ \E g \in Group : work' = [work EXCEPT ![b] = [step |-> "assign", location |-> l, group |-> g]]
  BY DEF PickReadyGroup, TypeInv, BalancerTypes
<1>3. \A h \in Group : BeingFreed(h)' => BeingFreed(h)
  <2>1. CASE work' = work
    BY <2>1 DEF BeingFreed
  <2>2. ASSUME NEW g \in Group,
               work' = [work EXCEPT ![b] = [step |-> "assign", location |-> l, group |-> g]]
        PROVE  \A h \in Group : BeingFreed(h)' => BeingFreed(h)
    <3> DEFINE w == [step |-> "assign", location |-> l, group |-> g]
    <3>1. w.step # "free" /\ work' = [work EXCEPT ![b] = w]
      BY <2>2
    <3> HIDE DEF w
    <3> QED
      BY <3>1, WorkFrees
  <2> QED
    BY <1>2, <2>1, <2>2
<1>4. \A h \in Group : RowsKept(h)
  BY <1>1 DEF RowsKept
<1> QED
  BY <1>1, <1>3, <1>4, GroupsKeptKeeps

\* Only rows without a group are taken.
LEMMA AssignGroupKeepsHeld ==
  ASSUME TypeInv, HeldInv, NEW b \in Balancer, NEW failed \in BOOLEAN, AssignGroup(b, failed)
  PROVE  HeldInv'
<1> DEFINE k == work[b].location
           g == IF TakesRow(k) THEN work[b].group ELSE rtm_locations[k]
<1>1. GroupsKept /\ work' = [work EXCEPT ![b] = Idle]
  BY DEF AssignGroup, GroupsKept, group
<1>2. rtm_locations' = rtm_locations \/ rtm_locations' = [rtm_locations EXCEPT ![k] = g]
  BY ExecutedEither DEF AssignGroup
<1>3. ASSUME NEW h \in Group, NEW l \in assigned_locations[h], rtm_locations[l] = h
      PROVE  rtm_locations'[l] = h
  <2>1. l \in Location /\ h # NoGroup
    BY LeaseAssumption DEF TypeInv, GroupTypes
  <2>2. CASE rtm_locations' = rtm_locations
    BY <1>3, <2>2
  <2>3. CASE rtm_locations' = [rtm_locations EXCEPT ![k] = g] /\ l # k
    BY <1>3, <2>1, <2>3 DEF TypeInv, BalancerTypes
  <2>4. CASE rtm_locations' = [rtm_locations EXCEPT ![k] = g] /\ l = k
    BY <1>3, <2>1, <2>4 DEF TypeInv, BalancerTypes, TakesRow
  <2> QED
    BY <1>2, <2>2, <2>3, <2>4
<1>4. Idle.step # "free"
  BY DEF Idle
<1>5. \A h \in Group : BeingFreed(h)' => BeingFreed(h)
  BY <1>1, <1>4, WorkFrees
<1> QED
  BY <1>1, <1>3, <1>5, GroupsKeptKeeps DEF RowsKept

\* A reload takes only groups for dead that are so in the table.
LEMMA ReloadGroupsKeeps ==
  ASSUME TypeInv, HeldInv, NEW b \in Balancer, NEW failed \in BOOLEAN, ReloadGroups(b, failed)
  PROVE  HeldInv'
<1> DEFINE dead == (potentially_dead_game_groups[b]
                     \cup {g \in Group : game_groups[b][g] # Never
                                         /\ game_groups[b][g].last_beat + Lifetime < clock})
                   \ {g \in Group : Alive(rtm_group_heartbeat[g])}
           w == IF dead = {} THEN Idle ELSE [step |-> "free", dead |-> dead]
           D == {g \in Group : ~Alive(rtm_group_heartbeat[g])}
<1>1. GroupsKept /\ UNCHANGED rtm_locations
  BY DEF ReloadGroups, GroupsKept, database, group, network
<1>2. work' = work \/ work' = [work EXCEPT ![b] = w]
  BY DEF ReloadGroups
<1>3. \A g \in Group : w.step = "free" /\ g \in w.dead => g \in D
  BY DEF Idle
<1> HIDE DEF w
<1>4. ASSUME work' = [work EXCEPT ![b] = w]
      PROVE  \A h \in Group : BeingFreed(h)' => BeingFreed(h) \/ h \in D
  BY <1>3, <1>4, WorkFrees
<1>5. work' = work => \A h \in Group : BeingFreed(h)' => BeingFreed(h)
  BY DEF BeingFreed
<1>6. \A h \in Group : BeingFreed(h)' => BeingFreed(h) \/ ~Alive(rtm_group_heartbeat[h])
  BY <1>2, <1>4, <1>5
<1>7. \A h \in Group : RowsKept(h)
  BY <1>1 DEF RowsKept
<1> QED
  BY <1>1, <1>6, <1>7, GroupsKeptKeeps

\* Rows are freed of the group named only.
LEMMA FreeKeepsOthers ==
  ASSUME TypeInv, NEW g \in Group, NEW ls, NEW failed,
         rtm_locations' \in Executed(failed, rtm_locations, Free(g, ls)),
         NEW h \in Group, NEW l \in Location, rtm_locations[l] = h, h # g \/ l \notin ls
  PROVE  rtm_locations'[l] = h
<1>1. CASE rtm_locations' = rtm_locations
  BY <1>1
<1>2. CASE rtm_locations' = Free(g, ls)
  BY <1>2 DEF Free
<1> QED
  BY <1>1, <1>2, ExecutedEither

\* A group whose rows are freed is dead, so it is not in use and holds nothing.
LEMMA FreeDeadGroupKeeps ==
  ASSUME TypeInv, HeldInv, NEW b \in Balancer, NEW g \in Group, NEW failed \in BOOLEAN,
         FreeDeadGroup(b, g, failed)
  PROVE  HeldInv'
<1> DEFINE rest == work[b].dead \ {g}
           w == IF rest = {} THEN Idle ELSE [work[b] EXCEPT !.dead = rest]
<1>1. /\ GroupsKept /\ work[b].step = "free" /\ g \in work[b].dead
      /\ rtm_locations' \in Executed(failed, rtm_locations, Free(g, Location))
      /\ work' = [work EXCEPT ![b] = w]
  BY DEF FreeDeadGroup, GroupsKept, group, network, TypeInv, BalancerTypes
<1>2. work[b] \in [step : {"free"}, dead : SUBSET Group]
  BY <1>1 DEF TypeInv, BalancerTypes, Work, Idle
<1>3. \A h \in Group : w.step = "free" /\ h \in w.dead => h \in work[b].dead
  BY <1>2 DEF Idle
<1> HIDE DEF w
<1>4. ASSUME NEW h \in Group, BeingFreed(h)'
      PROVE  BeingFreed(h)
  <2>1. BeingFreed(h) \/ (w.step = "free" /\ h \in w.dead)
    BY <1>1, <1>4, WorkFrees
  <2> QED
    BY <1>1, <1>3, <2>1 DEF BeingFreed
<1>5. BeingFreed(g)
  BY <1>1 DEF BeingFreed
<1>6. assigned_locations[g] = {}
  BY <1>5, InUseIsAlive, HeldParts DEF Holds
<1>7. \A h \in Group : RowsKept(h)
  <2> SUFFICES ASSUME NEW h \in Group, NEW l \in assigned_locations[h], rtm_locations[l] = h
               PROVE  rtm_locations'[l] = h
    BY DEF RowsKept
  <2>1. l \in Location /\ h # g
    BY <1>6 DEF TypeInv, GroupTypes
  <2> QED
    BY <1>1, <2>1, FreeKeepsOthers
<1> QED
  BY <1>1, <1>4, <1>7, GroupsKeptKeeps

\* What a read of g's connection leaves to be shown.
LEMMA ReadKeeps ==
  ASSUME TypeInv, NEW g \in Group, HeldInv, clock' = clock, work' = work,
         \A h \in Group \ {g} : Untouched(h) /\ RowsKept(h),
         OneLink(g)', TimesInOrder(g)', LeaseRuns(g)', Holds(g)', FreedAreDead(g)'
  PROVE  HeldInv'
<1>1. \A h \in Group : BeingFreed(h)' = BeingFreed(h)
  BY DEF BeingFreed
<1>2. GroupInv(g)'
  BY DEF GroupInv
<1>3. ASSUME NEW h \in Group, h # g
      PROVE  GroupInv(h)'
  <2>1. GroupInv(h) /\ Untouched(h) /\ RowsKept(h)
    BY <1>3 DEF HeldInv
  <2> QED
    BY <1>1, <2>1, UntouchedKeeps
<1>4. Lifetime < clock'
  BY DEF HeldInv
<1> QED
  BY <1>2, <1>3, <1>4 DEF HeldInv

LEMMA AnswerOthers ==
  ASSUME TypeInv, NEW g \in Group, NEW i, NEW r \in Response, Answer(g, i, r)
  PROVE  /\ responses'[g] \in {responses[g], Append(responses[g], r)}
         /\ \A h \in Group \ {g} : responses'[h] = responses[h]
BY DEF Answer, TypeInv, GroupTypes

\* The lease of a group is renewed with the status it has told: one that is in
\* use, or starts, has told no balancer since that it stopped.
LEMMA ProcessGroupStatusUpdateKeeps ==
  ASSUME TypeInv, HeldInv, Prompt, NEW g \in Group, NEW b \in Balancer, NEW i,
         NEW failed \in BOOLEAN, ProcessGroupStatusUpdate(g, b, i, failed)
  PROVE  HeldInv'
<1> DEFINE m == Received(g, i)
           u == Unread(g)
           a == responses[g]
           now == [status |-> m.status, last_beat |-> clock]
           r == [kind |-> "beat", timestamp |-> IF failed THEN 0 ELSE m.timestamp]
           beat == rtm_group_heartbeat'[g].last_beat
<1>1. Reads(g, b, i, "beat") /\ Take(g, i) /\ Answer(g, i, r) /\ ~BeingFreed(g)
  BY DEF ProcessGroupStatusUpdate
<1>2. /\ UNCHANGED <<clock, rtm_locations, work, status, last_confirmed_heartbeat,
                     write_locations_deadline, assigned_locations>>
      /\ rtm_group_heartbeat' \in
           Executed(failed, rtm_group_heartbeat, [rtm_group_heartbeat EXCEPT ![g] = now])
  BY DEF ProcessGroupStatusUpdate, group
<1>3. /\ u # <<>> /\ m = Head(u) /\ m.kind = "beat"
      /\ Len(links'[g]) = 1 /\ Unread(g)' = Tail(u) /\ OthersKeepLinks(g)
  BY <1>1, HeldParts, TakeUnread
<1>4. m \in GroupMessage
  BY <1>1, TakeType
<1>5. m.timestamp \in Nat /\ m.status \in EffectiveGroupStatus
  BY <1>3, <1>4 DEF GroupMessage
<1>6. r \in Response /\ r.kind = "beat" /\ r.timestamp = (IF failed THEN 0 ELSE m.timestamp)
  BY <1>5 DEF Response
<1>7. now.status = m.status /\ now.last_beat = clock
  OBVIOUS
<1> HIDE DEF m, now, r, u
<1>8. /\ rtm_group_heartbeat'[g] \in {rtm_group_heartbeat[g], now}
      /\ ~failed => rtm_group_heartbeat'[g] = now
      /\ \A h \in Group \ {g} : rtm_group_heartbeat'[h] = rtm_group_heartbeat[h]
  BY <1>2 DEF Executed, TypeInv, BalancerTypes
<1>9. responses'[g] \in {a, Append(a, r)} /\ \A h \in Group \ {g} : responses'[h] = responses[h]
  BY <1>1, <1>6, AnswerOthers
<1>10. /\ TimesAgree(last_confirmed_heartbeat[g], a, Tail(u), beat, clock)
       /\ TimesAgree(last_confirmed_heartbeat[g], Append(a, r), Tail(u), beat, clock)
  <2>1. beat \in {rtm_group_heartbeat[g].last_beat, clock}
    BY <1>7, <1>8
  <2>2. IsTimed(r) => IsTimed(Head(u)) /\ r.timestamp = Head(u).timestamp /\ beat = clock
    BY <1>3, <1>6, <1>7, <1>8 DEF IsTimed
  <2>3. TimesAgree(last_confirmed_heartbeat[g], a, u, rtm_group_heartbeat[g].last_beat, clock)
    BY HeldParts DEF TimesInOrder, u
  <2>4. u \in Seq(GroupMessage) /\ a \in Seq(Response)
    BY HeldParts DEF u
  <2> HIDE DEF beat, a
  <2> QED
    BY <1>3, <1>6, <2>1, <2>2, <2>3, <2>4, HeldParts, TimesAnswer
<1>11. OneLink(g)' /\ TimesInOrder(g)'
  <2>1. OneLink(g)'
    BY <1>3 DEF OneLink
  <2>2. TimesAgree(last_confirmed_heartbeat[g], responses'[g], Tail(u), beat, clock)
    BY <1>9, <1>10
  <2>3. TimesAgree(last_confirmed_heartbeat'[g], responses'[g], Unread(g)', beat, clock')
    BY <1>2, <1>3, <2>2
  <2> QED
    BY <1>2, <2>1, <2>3 DEF TimesInOrder
<1>12. u \in Seq(GroupMessage) /\ a \in Seq(Response)
  BY HeldParts DEF u
<1>13. LeaseRuns(g)'
  <2>1. status[g] \in InUse \cup {"Initializing"} => ~AnyStopped(Tail(u)) /\ m.status # "stopped"
    BY <1>3, <1>12, HeldParts, TailParts DEF LeaseRuns, u
  <2>2. AnyTimed(responses'[g]) => AnyTimed(a) \/ ~failed
    <3>1. failed => ~IsTimed(r)
      BY <1>6 DEF IsTimed
    <3> QED
      BY <1>6, <1>9, <1>12, <3>1, AppendParts
  <2>3. /\ m.status # "stopped" /\ rtm_group_heartbeat[g].status # "stopped" =>
             rtm_group_heartbeat'[g].status # "stopped"
        /\ m.status # "stopped" /\ ~failed => rtm_group_heartbeat'[g].status # "stopped"
    BY <1>7, <1>8
  <2> QED
    BY <1>2, <1>3, <2>1, <2>2, <2>3, HeldParts DEF LeaseRuns, InUse
<1>14. Holds(g)'
  <2>1. \A l : AnyRelease(Tail(u), l) => AnyRelease(u, l)
    BY <1>3, <1>12, TailParts
  <2> QED
    BY <1>2, <1>3, <2>1, HeldParts DEF Holds, u
<1>15. FreedAreDead(g)'
  BY <1>1, <1>2 DEF FreedAreDead, BeingFreed
<1>16. \A h \in Group \ {g} : Untouched(h) /\ RowsKept(h)
  BY <1>2, <1>3, <1>8, <1>9 DEF Untouched, RowsKept, OthersKeepLinks
<1> QED
  BY <1>2, <1>11, <1>13, <1>14, <1>15, <1>16, ReadKeeps

\* A release that is still unread is of a location the group does not hold.
LEMMA ReleaseLocationKeeps ==
  ASSUME TypeInv, HeldInv, NEW g \in Group, NEW b \in Balancer, NEW i,
         NEW failed \in BOOLEAN, ReleaseLocation(g, b, i, failed)
  PROVE  HeldInv'
<1> DEFINE m == Received(g, i)
           u == Unread(g)
           a == responses[g]
           r == [kind |-> "release", location |-> m.location, result |-> ~failed]
           ls == IF m.location = All THEN Location ELSE {m.location}
           beat == rtm_group_heartbeat[g].last_beat
<1>1. /\ Reads(g, b, i, "release") /\ Take(g, i) /\ Answer(g, i, r)
      /\ rtm_locations' \in Executed(failed, rtm_locations, Free(g, ls))
  BY Zenon DEF ReleaseLocation
<1>2. UNCHANGED <<clock, rtm_group_heartbeat, work, status, last_confirmed_heartbeat,
                  write_locations_deadline, assigned_locations>>
  BY DEF ReleaseLocation, group, balancer
<1>3. /\ u # <<>> /\ m = Head(u) /\ m.kind = "release"
      /\ Len(links'[g]) = 1 /\ Unread(g)' = Tail(u) /\ OthersKeepLinks(g)
  BY <1>1, HeldParts, TakeUnread
<1>4. m \in GroupMessage
  BY <1>1, TakeType
<1>5. m.location \in Location \cup {All}
  BY <1>3, <1>4 DEF GroupMessage
<1>6. r \in Response /\ ~IsTimed(r)
  BY <1>5 DEF Response, IsTimed
<1>7. \A l : l \in ls => m.location \in {l, All}
  OBVIOUS
<1> HIDE DEF m, r, u, ls
<1>8. responses'[g] \in {a, Append(a, r)} /\ \A h \in Group \ {g} : responses'[h] = responses[h]
  BY <1>1, <1>6, AnswerOthers
<1>9. u \in Seq(GroupMessage) /\ a \in Seq(Response)
  BY HeldParts DEF u
<1>10. /\ TimesAgree(last_confirmed_heartbeat[g], a, Tail(u), beat, clock)
       /\ TimesAgree(last_confirmed_heartbeat[g], Append(a, r), Tail(u), beat, clock)
  <2>1. TimesAgree(last_confirmed_heartbeat[g], a, u, beat, clock)
    BY HeldParts DEF TimesInOrder, u
  <2> HIDE DEF a
  <2> QED
    BY <1>3, <1>6, <1>9, <2>1, HeldParts, TimesAnswer
<1>11. OneLink(g)' /\ TimesInOrder(g)'
  <2>1. OneLink(g)'
    BY <1>3 DEF OneLink
  <2>2. TimesAgree(last_confirmed_heartbeat[g], responses'[g], Tail(u), beat, clock)
    BY <1>8, <1>10
  <2>3. TimesAgree(last_confirmed_heartbeat'[g], responses'[g], Unread(g)', beat, clock')
    BY <1>2, <1>3, <2>2
  <2> QED
    BY <1>2, <2>1, <2>3 DEF TimesInOrder
<1>12. LeaseRuns(g)'
  <2>1. AnyStopped(Tail(u)) => AnyStopped(u)
    BY <1>3, <1>9, TailParts
  <2>2. AnyTimed(responses'[g]) => AnyTimed(a)
    BY <1>6, <1>8, <1>9, AppendParts
  <2> QED
    BY <1>2, <1>3, <2>1, <2>2, HeldParts DEF LeaseRuns, u
<1>13. Holds(g)'
  <2> SUFFICES ASSUME NEW l \in assigned_locations[g]
               PROVE  rtm_locations'[l] = g /\ ~AnyRelease(Tail(u), l)
    BY <1>2, <1>3, HeldParts DEF Holds
  <2>1. rtm_locations[l] = g /\ ~AnyRelease(u, l) /\ l \in Location
    BY HeldParts DEF Holds, u, TypeInv, GroupTypes
  <2>2. ~AnyRelease(Tail(u), l) /\ l \notin ls
    BY <1>3, <1>7, <1>9, <2>1, TailParts
  <2> QED
    BY <1>1, <2>1, <2>2, FreeKeepsOthers
<1>14. FreedAreDead(g)'
  BY <1>2, HeldParts DEF FreedAreDead, BeingFreed, Alive
<1>15. \A h \in Group \ {g} : Untouched(h)
  BY <1>2, <1>3, <1>8 DEF Untouched, OthersKeepLinks
<1>16. ASSUME NEW h \in Group \ {g}
       PROVE  RowsKept(h)
  <2> SUFFICES ASSUME NEW l \in assigned_locations[h], rtm_locations[l] = h
               PROVE  rtm_locations'[l] = h
    BY DEF RowsKept
  <2>1. l \in Location
    BY DEF TypeInv, GroupTypes
  <2> QED
    BY <1>1, <2>1, FreeKeepsOthers
<1> QED
  BY <1>2, <1>11, <1>12, <1>13, <1>14, <1>15, <1>16, ReadKeeps

LEMMA BalancerStepKeeps ==
  ASSUME TypeInv, HeldInv, Prompt, NEW b \in Balancer, BalancerStep(b)
  PROVE  HeldInv'
BY AnswerValidKeeps, PickReadyGroupKeeps, AssignGroupKeepsHeld, ReloadGroupsKeeps,
   FreeDeadGroupKeeps, ProcessGroupStatusUpdateKeeps, ReleaseLocationKeeps DEF BalancerStep

-----------------------------------------------------------------------------
(* The clock, and the theorem.                                             *)

\* Nobody is late: a group that was not confirmed in time has begun to release
\* its locations, and has released them when its deadline comes.
LEMMA TickKeeps ==
  ASSUME TypeInv, HeldInv, Prompt, Tick
  PROVE  HeldInv'
<1>1. /\ clock' = clock + 1
      /\ UNCHANGED <<rtm_locations, rtm_group_heartbeat, work, status, last_confirmed_heartbeat,
                     write_locations_deadline, assigned_locations, links, responses>>
      /\ \A g \in Group : ~Overdue(g)
  BY DEF Tick, database, balancer, group, network
<1>2. clock \in Nat /\ {Interval, Grace, Margin} \subseteq Nat /\ Grace + 1 < Interval /\ 0 < Margin
  BY LeaseAssumption DEF TypeInv, BalancerTypes
<1>3. ASSUME NEW g \in Group
      PROVE  GroupInv(g)'
  <2>1. Unread(g)' = Unread(g)
    BY <1>1 DEF Unread
  <2>2. OneLink(g)'
    BY <1>1, HeldParts DEF OneLink
  <2>3. TimesInOrder(g)'
    <3>1. TimesAgree(last_confirmed_heartbeat[g], responses[g], Unread(g),
                     rtm_group_heartbeat[g].last_beat, clock + 1)
      BY HeldParts, TimesTick DEF TimesInOrder
    <3> QED
      BY <1>1, <2>1, <3>1 DEF TimesInOrder
  <2>4. status[g] \in InUse => clock + 1 < last_confirmed_heartbeat[g] + Lifetime
    <3>1. last_confirmed_heartbeat[g] \in Nat
      BY HeldParts
    <3>2. CASE status[g] = "Ready"
      BY <1>1, <1>2, <3>1, <3>2 DEF Overdue, Lifetime, TypeInv, GroupTypes
    <3>3. CASE status[g] = "Releasing_Urgent"
      <4>1. /\ ~(write_locations_deadline[g] <= clock)
            /\ write_locations_deadline[g] = WriteDeadline(last_confirmed_heartbeat[g])
        BY <1>1, <3>3, HeldParts DEF Overdue, LeaseRuns, InUse
      <4> QED
        BY <1>2, <3>1, <4>1 DEF WriteDeadline, Lifetime
    <3> QED
      BY <3>2, <3>3 DEF InUse
  <2>5. LeaseRuns(g)'
    BY <1>1, <2>1, <2>4, HeldParts DEF LeaseRuns
  <2>6. Holds(g)'
    BY <1>1, <2>1, HeldParts DEF Holds
  <2>7. FreedAreDead(g)'
    <3>1. BeingFreed(g)' = BeingFreed(g)
      BY <1>1 DEF BeingFreed
    <3>2. rtm_group_heartbeat[g].last_beat + Lifetime > clock + 1 =>
            rtm_group_heartbeat[g].last_beat + Lifetime > clock
      BY <1>2, HeldParts DEF Lifetime
    <3> QED
      BY <1>1, <3>1, <3>2, HeldParts DEF FreedAreDead, Alive
  <2> QED
    BY <2>2, <2>3, <2>5, <2>6, <2>7 DEF GroupInv
<1>4. Lifetime < clock'
  BY <1>1, <1>2 DEF HeldInv, Lifetime
<1> QED
  BY <1>3, <1>4 DEF HeldInv

LEMMA HeldInvStarts ==
  ASSUME Init
  PROVE  HeldInv
<1>1. Lifetime < clock
  BY LeaseAssumption DEF Init, Lifetime
<1>2. ASSUME NEW g \in Group
      PROVE  GroupInv(g)
  <2>1. /\ links[g] = <<>> /\ responses[g] = <<>> /\ status[g] = "down"
        /\ last_confirmed_heartbeat[g] = 0 /\ assigned_locations[g] = {}
        /\ rtm_group_heartbeat[g].last_beat = 0 /\ clock = Lifetime + 1
    BY DEF Init, Never
  <2>2. Unread(g) = <<>>
    BY <2>1 DEF Unread
  <2>3. OneLink(g)
    BY <2>1 DEF OneLink
  <2>4. TimesInOrder(g)
    BY <2>1, <2>2, LeaseAssumption DEF TimesInOrder, TimesAgree, Ordered, Lifetime
  <2>5. LeaseRuns(g) /\ Holds(g)
    BY <2>1, <2>2 DEF LeaseRuns, Holds, InUse
  <2>6. FreedAreDead(g)
    BY DEF FreedAreDead, BeingFreed, Init, Idle
  <2> QED
    BY <2>3, <2>4, <2>5, <2>6 DEF GroupInv
<1> QED
  BY <1>1, <1>2 DEF HeldInv

LEMMA HeldInvAlways ==
  ASSUME Prompt
  PROVE  Spec => []HeldInv
<1>1. Init => HeldInv
  BY HeldInvStarts
<1>2. TypeInv /\ HeldInv /\ [Next]_vars => HeldInv'
  <2> SUFFICES ASSUME TypeInv, HeldInv, [Next]_vars
               PROVE  HeldInv'
    OBVIOUS
  <2>1. CASE UNCHANGED vars
    <3>1. GroupsKept /\ UNCHANGED <<rtm_locations, work>>
      BY <2>1 DEF vars, database, balancer, group, network, GroupsKept
    <3>2. \A h \in Group : RowsKept(h) /\ (BeingFreed(h)' => BeingFreed(h))
      BY <3>1 DEF RowsKept, BeingFreed
    <3> QED
      BY <3>1, <3>2, GroupsKeptKeeps
  <2> QED
    BY <2>1, TickKeeps, GroupStepKeeps, BalancerStepKeeps DEF Next
<1> QED
  BY <1>1, <1>2, TypesKeep, PTL DEF Spec

\* For any groups, balancers, locations, times and bounds, whichever statements
\* fail and however often a group crashes, starts again or reconnects: while
\* nothing overtakes a release (Prompt), a location that a group holds and may
\* write has a valid row that names the group (CheckWriteDeadline,
\* ReceiveHeartBeatConfirmation, GetGroupsInfoFromSQL, ReleaseLocation).
THEOREM HeldIsAssignedAlways ==
  ASSUME Prompt
  PROVE  Spec => []HeldIsAssigned
<1>1. HeldInv => HeldIsAssigned
  BY DEF HeldInv, GroupInv, Holds, HeldIsAssigned
<1> QED
  BY <1>1, HeldInvAlways, PTL

\* So no two groups ever hold the same location, neither of them by mistake:
\* the row of the location has room for one name (rtm_locations).
THEOREM OneHolder ==
  ASSUME Prompt
  PROVE  Spec => [](\A g, h \in Group : g # h => assigned_locations[g] \cap assigned_locations[h] = {})
<1>1. HeldInv => \A g, h \in Group : g # h => assigned_locations[g] \cap assigned_locations[h] = {}
  BY DEF HeldInv, GroupInv, Holds
<1> QED
  BY <1>1, HeldInvAlways, PTL
=============================================================================
