------------------------------ MODULE GlobalInfo ------------------------------
(***************************************************************************)
(* Which friends of a player are online (server_stats/gglobalinfomanager*, *)
(* with the access service that tells it who came and who left).           *)
(*                                                                         *)
(* Two copies are kept up to date by messages: the globalinfo service has  *)
(* the instances of the access service, and the logic of a location has,   *)
(* for each of its players, the instances of the player's friends.  Each   *)
(* begins with a full list, when a connection or a listener comes, and     *)
(* goes on with what changes; changes for listeners wait up to 5 seconds.  *)
(*                                                                         *)
(* Groups, the cache and the leaderboard service are inputs: what they     *)
(* send, and when, is free.                                                *)
(***************************************************************************)
EXTENDS Naturals, Sequences, FiniteSets, SequencesExt

CONSTANTS
  User,
  Instance,    \* SPlayerInstance: a user in a location, whichever stay it is
  UserIn,      \* the user of an instance
  Socket,      \* connections of groups to globalinfo; the next may reuse one
  RID,         \* the stays of players in the groups
  UserOf,      \* the user of a stay
  MaxStays,    \* bound: equal instances in the access service
  MaxWire,     \* bound: messages to globalinfo when a player comes or leaves
  MaxConnects, \* bound: connections to the access service
  MaxUpdated,  \* bound: times of the cache's lists of friends
  MaxRequests  \* bound: requests of a user that wait for the leaderboard

ASSUME GlobalInfoAssumption ==
  /\ UserIn \in [Instance -> User] /\ UserOf \in [RID -> User]
  /\ IsFiniteSet(Instance)
  /\ {MaxStays, MaxConnects, MaxUpdated, MaxRequests} \subseteq Nat

VARIABLES
  \* the access service
  online,      \* instances there, a multimap: how many equal ones
  link,        \* the connection of globalinfo to it
  connects,    \* how many there were
  reentered,   \* history: instances that were there twice, and still are there
  \* globalinfo
  instances,
  social,      \* social_friends_map: pairs of a player and a friend
  social_rev,  \* social_friends_map_rev
  updated,     \* social_friends_map_timestamp, 0 for none
  buddies,
  buddies_rev,
  known,       \* the users with an SPlayerListener
  attached,    \* their listeners: a socket and the RID of a stay
  informed,    \* have_social_friends_data
  pending,     \* pending_online_social_friends_and_buddies
  requests,    \* pending_leaderboard_requests: how many
  leaderboard, \* the connection to the leaderboard service
  \* the groups
  shown        \* what the messages sent to a listener make of its friends

access == <<online, link, connects, reentered>>
lists == <<social, social_rev, updated, buddies, buddies_rev>>
listening == <<known, attached, informed, pending, shown>>
boards == <<requests, leaderboard>>
vars == <<access, instances, lists, listening, boards>>

Listener == Socket \X RID
UserAt(l) == UserOf[l[2]]
Kind == {"register", "unregister"}
Note(kind, i) == [kind |-> kind, instance |-> i]
AcceptMessage == [kind |-> "accept"]
Message == {AcceptMessage} \cup [kind : Kind, instance : Instance]
NoLink == [up |-> FALSE, named |-> FALSE, out |-> <<>>, in |-> <<>>]
NonePending == [i \in Instance |-> "none"]

TypeOK ==
  /\ online \in [Instance -> 0..MaxStays]
  /\ link.up \in BOOLEAN /\ link.named \in BOOLEAN
  /\ link.out \in Seq({"connect", "register_server"})
  /\ link.in \in Seq(Message)
  /\ connects \in 0..MaxConnects /\ reentered \subseteq Instance
  /\ instances \subseteq Instance
  /\ {social, social_rev, buddies, buddies_rev} \subseteq SUBSET (User \X User)
  /\ updated \in [User -> 0..MaxUpdated]
  /\ known \subseteq User /\ informed \subseteq known
  /\ attached \subseteq {l \in Listener : UserAt(l) \in known}
  /\ pending \in [User -> [Instance -> Kind \cup {"none"}]]
  /\ requests \in [User -> 0..MaxRequests]
  /\ leaderboard \in {"down", "established", "accepted"}
  /\ shown \in [Listener -> SUBSET Instance]

-----------------------------------------------------------------------------
(* What listeners are sent *)

\* FillOnlineOfflineFriends, of both lists.
FriendsOnline(u, is, so, bu) == {i \in is : <<u, UserIn[i]>> \in so \cup bu}

\* IGMIT_ONLINE_FRIEND, IGMIT_ONLINE_FRIEND_REMOVE.
Updated(seen, changes) ==
  {i \in Instance : changes[i] = "register" \/ (i \in seen /\ changes[i] # "unregister")}

\* WriteOnlineFriends to all listeners of the users in U.
WriteOnlineFriends(U) ==
  /\ shown' = [l \in Listener |->
       IF l \in attached /\ UserAt(l) \in U
       THEN FriendsOnline(UserAt(l), instances', social', buddies') ELSE shown[l]]
  /\ pending' = [u \in User |-> IF u \in U THEN NonePending ELSE pending[u]]

\* UpdateOnlineFriend, of both reverse lists.
UpdateOnlineFriend(i, kind) ==
  pending' = [u \in User |->
    IF u \in known /\ <<UserIn[i], u>> \in social_rev \cup buddies_rev
    THEN [pending[u] EXCEPT ![i] = kind] ELSE pending[u]]

\* WritePendingUpdates, of every second: the users in U were written to more
\* than TIME_PENDING_UPDATE_FREQUENCY ago.
WritePendingUpdates ==
  \E U \in SUBSET known :
    /\ \E u \in U : pending[u] # NonePending
    /\ shown' = [l \in Listener |->
         IF l \in attached /\ UserAt(l) \in U THEN Updated(shown[l], pending[UserAt(l)])
         ELSE shown[l]]
    /\ pending' = [u \in User |-> IF u \in U THEN NonePending ELSE pending[u]]
    /\ UNCHANGED <<access, instances, lists, known, attached, informed, boards>>

-----------------------------------------------------------------------------
(* Listeners come and go *)

\* IGMI_PLAYERS and IGMITIC_REGISTER, for the stays R of a group: a full list
\* for the newcomers, what waits for those who were there (RegisterListener).
RegisterListeners(s, R) ==
  LET new == {s} \X R
      U == {UserOf[r] : r \in R}
      u(l) == UserAt(l) IN
  /\ known' = known \cup U
  /\ attached' = attached \cup new
  /\ shown' = [l \in Listener |->
       CASE u(l) \in U \cap informed /\ l \in new ->
              FriendsOnline(u(l), instances, social, buddies)
         [] u(l) \in U \cap informed /\ l \in attached \ new ->
              Updated(shown[l], pending[u(l)])
         [] OTHER -> shown[l]]
  /\ pending' = [v \in User |-> IF v \in U \cap informed THEN NonePending ELSE pending[v]]
  /\ UNCHANGED <<access, instances, lists, informed, boards>>

\* UnregisterListener, and UnregisterAllListeners when a connection ends.
UnregisterListeners(L) ==
  /\ attached' = attached \ L
  /\ shown' = [l \in Listener |-> IF l \in L THEN {} ELSE shown[l]]
  /\ UNCHANGED <<access, instances, lists, known, informed, pending, boards>>

PairsOf(U, pairs) == {p \in pairs : p[1] \in U}
Reversed(pairs) == {<<p[2], p[1]>> : p \in pairs}

\* Mutant: the reverse list keeps who had the users in U as friends.
ForgottenFriends(U, pairs, rev) == rev \ PairsOf(U, rev)

\* The reverse list after EraseFromFriendsLists of the users in U.
ErasedFromReverse(U, pairs, rev) == rev \ Reversed(PairsOf(U, pairs))

\* Mutant: the time begins with the last listener, and is not looked at again.
UnattendedOnce == known

Unattended == known \ {UserAt(l) : l \in attached}

\* ClearExpiredData, of every minute: the users in U had no listener for the
\* time a session lasts.
ClearExpiredData ==
  \E U \in SUBSET Unattended :
    /\ U # {}
    /\ social' = social \ PairsOf(U, social)
    /\ social_rev' = ErasedFromReverse(U, social, social_rev)
    /\ buddies' = buddies \ PairsOf(U, buddies)
    /\ buddies_rev' = ErasedFromReverse(U, buddies, buddies_rev)
    /\ updated' = [u \in User |-> IF u \in U THEN 0 ELSE updated[u]]
    /\ known' = known \ U /\ informed' = informed \ U
    /\ pending' = [u \in User |-> IF u \in U THEN NonePending ELSE pending[u]]
    /\ requests' = [u \in User |-> IF u \in U THEN 0 ELSE requests[u]]
    /\ UNCHANGED <<access, instances, attached, shown, leaderboard>>

-----------------------------------------------------------------------------
(* Lists of friends *)

\* IGMI_BUDDIES_REGISTER for one user, IGMI_PLAYERS_BUDDIES for all of a group.
RegisterBuddies(B) ==
  LET U == DOMAIN B
      added == UNION {{u} \X (B[u] \ {u}) : u \in U} IN
  /\ buddies' = (buddies \ PairsOf(U, buddies)) \cup added
  /\ buddies_rev' = ErasedFromReverse(U, buddies, buddies_rev) \cup Reversed(added)
  /\ UNCHANGED <<access, instances, social, social_rev, updated, known, attached, informed, boards>>
  /\ WriteOnlineFriends(U \cap informed)

\* Mutant: the requests are looked at before the list of friends is there.
ProcessedEarlier(U, inf) ==
  [u \in User |-> IF u \in U \cap informed /\ leaderboard # "down" THEN 0 ELSE requests[u]]

\* ProcessPendingLeaderboardRequests, when the users in inf have their friends.
Processed(U, inf) ==
  [u \in User |-> IF u \in U \cap inf /\ leaderboard # "down" THEN 0 ELSE requests[u]]

\* IGMIT_RESOURCES_EXTENDED: the list the cache made at a time, if it is newer
\* or the first (UpdateSocialFriends); then the requests.
UpdateSocialFriends(u, time, friends) ==
  LET newer == updated[u] < time
      taken == u \in known /\ (newer \/ u \notin informed) IN
  /\ IF taken /\ newer
     THEN /\ social' = (social \ PairsOf({u}, social)) \cup ({u} \X friends)
          /\ social_rev' = ErasedFromReverse({u}, social, social_rev) \cup (friends \X {u})
          /\ updated' = [updated EXCEPT ![u] = time]
     ELSE UNCHANGED <<social, social_rev, updated>>
  /\ informed' = IF taken THEN informed \cup {u} ELSE informed
  /\ UNCHANGED <<access, instances, buddies, buddies_rev, known, attached, leaderboard>>
  /\ WriteOnlineFriends(IF taken THEN {u} ELSE {})
  /\ requests' = Processed({u}, informed')

-----------------------------------------------------------------------------
(* The leaderboard service *)

\* A request that cannot be passed on waits, of a player without listener it
\* is dropped: IGMITIC_LEADERBOARD_GET and its like (about a player's friends,
\* unless the ranking is global), _GET_BATCH_INFO, _SET.
LeaderboardRequest(u, about_friends) ==
  /\ u \in known /\ requests[u] < MaxRequests
  /\ leaderboard = "down" \/ (about_friends /\ u \notin informed)
  /\ requests' = [requests EXCEPT ![u] = @ + 1]
  /\ UNCHANGED <<access, instances, lists, listening, leaderboard>>

\* It is connected when the first bytes come; IGMI_ACCEPT is read after that.
LeaderboardConnection ==
  /\ \/ leaderboard = "down" /\ leaderboard' = "established" /\ UNCHANGED requests
     \/ leaderboard = "established" /\ leaderboard' = "accepted"
          /\ requests' = Processed(known, informed)
     \/ leaderboard # "down" /\ leaderboard' = "down" /\ UNCHANGED requests
  /\ UNCHANGED <<access, instances, lists, listening>>

-----------------------------------------------------------------------------
(* The access service *)

\* Notes of one kind, about count[i] players of each instance i, in the order
\* of a map that is not modelled: in any.
Notes(kind, count) ==
  {ms \in SeqOf({Note(kind, i) : i \in Instance}, Cardinality(Instance) * MaxStays) :
     \A i \in Instance : Cardinality({k \in DOMAIN ms : ms[k] = Note(kind, i)}) = count[i]}

\* Mutant: only a connection that has registered itself is notified.
NotifiedAfterDump(ms) ==
  IF link.named /\ link.out = <<>> THEN [link EXCEPT !.in = @ \o ms] ELSE link

\* NotifyGlobalInfoManagerAboutInstance: a connection that has sent IGMI_CONNECT.
Notified(ms) == IF link.named THEN [link EXCEPT !.in = @ \o ms] ELSE link

Reentered(now) == {i \in Instance : now[i] > 1 \/ (i \in reentered /\ now[i] = 1)}

\* RegisterPlayer, and UnregisterPlayer of a player who has an instance.
RegisterPlayer(i) ==
  /\ online[i] < MaxStays /\ Len(link.in) < MaxWire
  /\ online' = [online EXCEPT ![i] = @ + 1]
  /\ reentered' = Reentered(online')
  /\ link' = Notified(<<Note("register", i)>>)
  /\ UNCHANGED <<connects, instances, lists, listening, boards>>
UnregisterPlayer(i) ==
  /\ online[i] > 0 /\ Len(link.in) < MaxWire
  /\ online' = [online EXCEPT ![i] = @ - 1]
  /\ reentered' = Reentered(online')
  /\ link' = Notified(<<Note("unregister", i)>>)
  /\ UNCHANGED <<connects, instances, lists, listening, boards>>

\* UnregisterAllInstances, of a group that has left n[i] of each instance.
UnregisterAllInstances(n) ==
  /\ n # online /\ \A i \in Instance : n[i] <= online[i]
  /\ Len(link.in) < MaxWire
  /\ online' = n
  /\ reentered' = Reentered(n)
  /\ \E ms \in Notes("unregister", [i \in Instance |-> online[i] - n[i]]) : link' = Notified(ms)
  /\ UNCHANGED <<connects, instances, lists, listening, boards>>

\* The access service reads IGMI_CONNECT, or IGMI_REGISTER_SERVER and sends
\* what it has.
AccessReads ==
  /\ link.out # <<>>
  /\ \E ms \in IF Head(link.out) = "connect" THEN {<<AcceptMessage>>} ELSE Notes("register", online) :
       link' = [link EXCEPT !.out = Tail(@), !.named = TRUE, !.in = @ \o ms]
  /\ UNCHANGED <<online, connects, reentered, instances, lists, listening, boards>>

-----------------------------------------------------------------------------
(* Globalinfo hears from the access service *)

Connect ==
  /\ ~link.up /\ connects < MaxConnects
  /\ connects' = connects + 1
  /\ link' = [NoLink EXCEPT !.up = TRUE, !.out = <<"connect">>]
  /\ UNCHANGED <<online, reentered, instances, lists, listening, boards>>

Dequeued == [link EXCEPT !.in = Tail(@)]

\* IGMI_ACCEPT: ClearAllInstances, and IGMI_REGISTER_SERVER.
Accept ==
  /\ link.in # <<>> /\ Head(link.in) = AcceptMessage
  /\ link' = [Dequeued EXCEPT !.out = Append(@, "register_server")]
  /\ instances' = {}
  /\ UNCHANGED <<online, connects, reentered, lists, known, attached, informed, boards>>
  /\ WriteOnlineFriends(known)

\* IGMI_REGISTER_INSTANCE, of one that is not there yet.
RegisterInstance(i) ==
  /\ link.in # <<>> /\ Head(link.in) = Note("register", i)
  /\ link' = Dequeued
  /\ IF i \notin instances
     THEN instances' = instances \cup {i} /\ UpdateOnlineFriend(i, "register")
     ELSE UNCHANGED <<instances, pending>>
  /\ UNCHANGED <<online, connects, reentered, lists, known, attached, informed, shown, boards>>

\* IGMI_UNREGISTER_INSTANCE, of one that is there.
UnregisterInstance(i) ==
  /\ link.in # <<>> /\ Head(link.in) = Note("unregister", i)
  /\ link' = Dequeued
  /\ IF i \in instances
     THEN instances' = instances \ {i} /\ UpdateOnlineFriend(i, "unregister")
     ELSE UNCHANGED <<instances, pending>>
  /\ UNCHANGED <<online, connects, reentered, lists, known, attached, informed, shown, boards>>

\* The connection ends, with what is on its way.
LoseAccess ==
  /\ link.up /\ connects < MaxConnects
  /\ link' = NoLink
  /\ UNCHANGED <<online, connects, reentered, instances, lists, listening, boards>>

RestartAccess ==
  /\ connects < MaxConnects
  /\ link' = NoLink
  /\ online' = [i \in Instance |-> 0] /\ reentered' = {}
  /\ UNCHANGED <<connects, instances, lists, listening, boards>>

Init ==
  /\ online = [i \in Instance |-> 0] /\ reentered = {}
  /\ link = NoLink /\ connects = 0
  /\ instances = {}
  /\ social = {} /\ social_rev = {} /\ updated = [u \in User |-> 0]
  /\ buddies = {} /\ buddies_rev = {}
  /\ known = {} /\ attached = {} /\ informed = {}
  /\ pending = [u \in User |-> NonePending] /\ shown = [l \in Listener |-> {}]
  /\ requests = [u \in User |-> 0] /\ leaderboard = "down"

RestartGlobalInfo ==
  /\ connects < MaxConnects
  /\ link' = NoLink
  /\ instances' = {}
  /\ social' = {} /\ social_rev' = {} /\ updated' = [u \in User |-> 0]
  /\ buddies' = {} /\ buddies_rev' = {}
  /\ known' = {} /\ attached' = {} /\ informed' = {}
  /\ pending' = [u \in User |-> NonePending] /\ shown' = [l \in Listener |-> {}]
  /\ requests' = [u \in User |-> 0] /\ leaderboard' = "down"
  /\ UNCHANGED <<online, connects, reentered>>

Next ==
  \/ \E i \in Instance : RegisterPlayer(i) \/ UnregisterPlayer(i)
                          \/ RegisterInstance(i) \/ UnregisterInstance(i)
  \/ \E n \in [Instance -> 0..MaxStays] : UnregisterAllInstances(n)
  \/ AccessReads \/ Connect \/ Accept \/ LoseAccess
  \/ RestartAccess \/ RestartGlobalInfo
  \/ \E s \in Socket, R \in SUBSET RID : RegisterListeners(s, R)
  \/ \E l \in attached : UnregisterListeners({l})
  \/ \E s \in Socket : UnregisterListeners({s} \X RID)
  \/ \E U \in SUBSET User : \E B \in [U -> SUBSET User] : RegisterBuddies(B)
  \/ \E u \in User, time \in 1..MaxUpdated, friends \in SUBSET User :
       UpdateSocialFriends(u, time, friends)
  \/ ClearExpiredData \/ WritePendingUpdates
  \/ \E u \in User, about_friends \in BOOLEAN : LeaderboardRequest(u, about_friends)
  \/ LeaderboardConnection

Spec == Init /\ [][Next]_vars

-----------------------------------------------------------------------------
(* Properties *)

\* What the logic of a location was sent about a player's friends, with the
\* changes that wait for the player, is what globalinfo knows: whoever comes
\* or goes, with whatever lists, in whichever order
\* (pending_online_social_friends_and_buddies, gglobalinfomanager.h:127).
ListenersSeeFriends ==
  \A l \in attached : UserAt(l) \in informed =>
    Updated(shown[l], pending[UserAt(l)])
      = FriendsOnline(UserAt(l), instances, social, buddies)

\* What takes an instance out of globalinfo's: ClearAllInstances, or its end.
Ends(m, i) == m \in {AcceptMessage, Note("unregister", i)}

\* Globalinfo's instances when it has read what is on its way: those there, and
\* those that come, unless something after that ends them.
AfterWire ==
  {i \in Instance :
     \/ i \in instances /\ \A k \in DOMAIN link.in : ~Ends(link.in[k], i)
     \/ \E k \in DOMAIN link.in :
          /\ link.in[k] = Note("register", i)
          /\ \A m \in DOMAIN link.in : m > k => ~Ends(link.in[m], i)}

Settled == link.named /\ link.out = <<>> /\ \A k \in DOMAIN link.in : link.in[k] # AcceptMessage

\* Once the access service has sent what it has (IGMI_REGISTER_SERVER),
\* globalinfo has no instance that is not there, and misses none but of players
\* who came again before their earlier stay was over: the two instances are
\* equal, the second is not new, and the end of the first takes it away.
InstancesAgree ==
  Settled => /\ AfterWire \subseteq {i \in Instance : online[i] > 0}
             /\ {i \in Instance : online[i] > 0} \subseteq AfterWire \cup reentered

\* No request waits for a leaderboard service that is there, once the player's
\* friends are known (ProcessPendingLeaderboardRequests is called at each event
\* after which some may go).
RequestsGoOut == leaderboard = "accepted" => \A u \in informed : requests[u] = 0
=============================================================================
