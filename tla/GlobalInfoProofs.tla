--------------------------- MODULE GlobalInfoProofs ---------------------------
(***************************************************************************)
(* Theorems about GlobalInfo: what listeners were sent is what globalinfo  *)
(* knows, its instances are those of the access service, and no            *)
(* leaderboard request is left behind.                                     *)
(***************************************************************************)
EXTENDS GlobalInfo, FiniteSetTheorems, TLAPS

-----------------------------------------------------------------------------
(* The invariant *)

\* The parts of TypeOK that the proofs need: nothing about the messages.
Shapes ==
  /\ instances \subseteq Instance
  /\ social \subseteq User \X User /\ buddies \subseteq User \X User
  /\ known \subseteq User /\ informed \subseteq known
  /\ attached \subseteq Listener /\ \A l \in attached : UserAt(l) \in known
  /\ pending \in [User -> [Instance -> Kind \cup {"none"}]]
  /\ shown \in [Listener -> SUBSET Instance]

\* UpdateOnlineFriend goes by the reverse lists, what is compared by the lists.
ReverseAgrees == social_rev = Reversed(social) /\ buddies_rev = Reversed(buddies)

IInv == Shapes /\ ReverseAgrees /\ ListenersSeeFriends

view == <<instances, lists, listening>>

-----------------------------------------------------------------------------
(* Lists and updates *)

LEMMA ListenerUser ==
  ASSUME NEW l \in Listener
  PROVE  UserAt(l) \in User
BY GlobalInfoAssumption DEF Listener, UserAt

LEMMA InReverse ==
  ASSUME NEW pairs \in SUBSET (User \X User), NEW v, NEW w
  PROVE  <<v, w>> \in Reversed(pairs) <=> <<w, v>> \in pairs
<1>1. ASSUME <<v, w>> \in Reversed(pairs) PROVE <<w, v>> \in pairs
  <2>1. PICK p \in pairs : <<v, w>> = <<p[2], p[1]>>
    BY <1>1 DEF Reversed
  <2>2. p = <<p[1], p[2]>>
    OBVIOUS
  <2> QED
    BY <2>1, <2>2
<1>2. ASSUME <<w, v>> \in pairs PROVE <<v, w>> \in Reversed(pairs)
  <2>1. <<v, w>> = <<(<<w, v>>)[2], (<<w, v>>)[1]>>
    OBVIOUS
  <2> QED
    BY <1>2, <2>1 DEF Reversed
<1> QED
  BY <1>1, <1>2

\* EraseFromFriendsLists keeps a list and its reverse in step.
LEMMA ErasedAgrees ==
  ASSUME NEW pairs \in SUBSET (User \X User), NEW U
  PROVE  ErasedFromReverse(U, pairs, Reversed(pairs)) = Reversed(pairs \ PairsOf(U, pairs))
<1> DEFINE kept == pairs \ PairsOf(U, pairs)
           gone == PairsOf(U, pairs)
<1>1. kept \in SUBSET (User \X User) /\ gone \in SUBSET (User \X User)
  BY DEF PairsOf
<1>2. ASSUME NEW v, NEW w
      PROVE  <<v, w>> \in Reversed(pairs) \ Reversed(gone) <=> <<v, w>> \in Reversed(kept)
  BY <1>1, InReverse
<1>3. Reversed(pairs) \subseteq User \X User /\ Reversed(kept) \subseteq User \X User
  BY <1>1 DEF Reversed
<1> HIDE DEF kept, gone
<1>4. Reversed(pairs) \ Reversed(gone) = Reversed(kept)
  <2>1. ASSUME NEW x \in User \X User
        PROVE  x \in Reversed(pairs) \ Reversed(gone) <=> x \in Reversed(kept)
    <3>1. x = <<x[1], x[2]>>
      OBVIOUS
    <3> QED
      BY <1>2, <3>1
  <2> QED
    BY <2>1, <1>3
<1> QED
  BY <1>4 DEF ErasedFromReverse, kept, gone

\* And so does adding to both.
LEMMA AddedAgrees ==
  ASSUME NEW pairs, NEW added
  PROVE  Reversed(pairs \cup added) = Reversed(pairs) \cup Reversed(added)
BY DEF Reversed

LEMMA NothingPending ==
  ASSUME NEW seen \in SUBSET Instance
  PROVE  Updated(seen, NonePending) = seen
BY DEF Updated, NonePending

\* Sending what waits changes nothing for the listener but when it knows.
LEMMA UpdatedIsShape ==
  ASSUME NEW seen, NEW changes
  PROVE  Updated(seen, changes) \in SUBSET Instance
BY DEF Updated

LEMMA FriendsShape ==
  ASSUME NEW v, NEW is \in SUBSET Instance, NEW so, NEW bu
  PROVE  FriendsOnline(v, is, so, bu) \in SUBSET Instance
BY DEF FriendsOnline

\* Steps that globalinfo's listeners take no part in.
LEMMA SameView ==
  ASSUME IInv, UNCHANGED view
  PROVE  IInv'
BY DEF IInv, Shapes, ReverseAgrees, ListenersSeeFriends, view, lists, listening

\* A full list to all listeners of the users in U, whatever changed for them,
\* is right for them; the others see what they saw.
LEMMA FullListIsRight ==
  ASSUME IInv, NEW U, WriteOnlineFriends(U), attached' = attached,
         instances' \in SUBSET Instance,
         \A v \in informed' \ U : v \in informed,
         \A l \in attached : UserAt(l) \in informed' \ U =>
           FriendsOnline(UserAt(l), instances', social', buddies')
             = FriendsOnline(UserAt(l), instances, social, buddies)
  PROVE  /\ ListenersSeeFriends'
         /\ pending' \in [User -> [Instance -> Kind \cup {"none"}]]
         /\ shown' \in [Listener -> SUBSET Instance]
<1>1. pending' \in [User -> [Instance -> Kind \cup {"none"}]]
  BY DEF WriteOnlineFriends, NonePending, IInv, Shapes
<1>2. shown' \in [Listener -> SUBSET Instance]
  BY FriendsShape DEF WriteOnlineFriends, IInv, Shapes
<1>3. ASSUME NEW l \in attached, UserAt(l) \in informed'
      PROVE  Updated(shown'[l], pending'[UserAt(l)])
               = FriendsOnline(UserAt(l), instances', social', buddies')
  <2>1. l \in Listener /\ UserAt(l) \in User
    BY ListenerUser DEF IInv, Shapes
  <2>2. CASE UserAt(l) \in U
    <3>1. /\ shown'[l] = FriendsOnline(UserAt(l), instances', social', buddies')
          /\ pending'[UserAt(l)] = NonePending
      BY <2>1, <2>2 DEF WriteOnlineFriends
    <3> QED
      BY <3>1, FriendsShape, NothingPending
  <2>3. CASE UserAt(l) \notin U
    <3>1. shown'[l] = shown[l] /\ pending'[UserAt(l)] = pending[UserAt(l)]
      BY <2>1, <2>3 DEF WriteOnlineFriends
    <3>2. Updated(shown[l], pending[UserAt(l)])
            = FriendsOnline(UserAt(l), instances, social, buddies)
      BY <1>3, <2>3 DEF IInv, ListenersSeeFriends
    <3> QED
      BY <1>3, <2>3, <3>1, <3>2
  <2> QED
    BY <2>2, <2>3
<1> QED
  BY <1>1, <1>2, <1>3 DEF ListenersSeeFriends, UserAt

-----------------------------------------------------------------------------
(* The steps *)

LEMMA InstanceComes ==
  ASSUME IInv, NEW i \in Instance, RegisterInstance(i) \/ UnregisterInstance(i)
  PROVE  IInv'
<1> DEFINE kind == IF i \notin instances THEN "register" ELSE "unregister"
<1>1. CASE UNCHANGED <<instances, pending>>
  <2>1. UNCHANGED view
    BY <1>1 DEF RegisterInstance, UnregisterInstance, view, listening
  <2> QED
    BY <2>1, SameView
<1>2. CASE UpdateOnlineFriend(i, kind)
           /\ instances' = IF i \notin instances THEN instances \cup {i} ELSE instances \ {i}
  <2>1. UNCHANGED <<lists, known, attached, informed, shown>>
    BY DEF RegisterInstance, UnregisterInstance
  <2>2. Shapes'
    BY <1>2, <2>1 DEF IInv, Shapes, lists, UpdateOnlineFriend, Kind
  <2>3. ReverseAgrees'
    BY <2>1 DEF IInv, ReverseAgrees, lists
  <2>4. ASSUME NEW l \in attached, UserAt(l) \in informed
        PROVE  Updated(shown[l], pending'[UserAt(l)])
                 = FriendsOnline(UserAt(l), instances', social, buddies)
    <3> DEFINE v == UserAt(l)
    <3>1. l \in Listener /\ v \in User /\ v \in known
      BY ListenerUser DEF IInv, Shapes
    <3>2. Updated(shown[l], pending[v]) = FriendsOnline(v, instances, social, buddies)
      BY <2>4 DEF IInv, ListenersSeeFriends
    <3>3. <<UserIn[i], v>> \in social_rev \cup buddies_rev
            <=> <<v, UserIn[i]>> \in social \cup buddies
      BY InReverse DEF IInv, ReverseAgrees, Shapes
    <3>4. pending[v] \in [Instance -> Kind \cup {"none"}]
      BY <3>1 DEF IInv, Shapes
    <3>5. shown[l] \in SUBSET Instance /\ instances \in SUBSET Instance
      BY <3>1 DEF IInv, Shapes
    <3> HIDE DEF v
    <3>6. CASE <<v, UserIn[i]>> \in social \cup buddies
      <4>1. pending'[v] = [pending[v] EXCEPT ![i] = kind]
        BY <1>2, <3>1, <3>3, <3>6 DEF UpdateOnlineFriend
      <4>2. Updated(shown[l], pending'[v])
              = IF i \notin instances THEN Updated(shown[l], pending[v]) \cup {i}
                ELSE Updated(shown[l], pending[v]) \ {i}
        BY <3>4, <3>5, <4>1 DEF Updated
      <4>3. FriendsOnline(v, instances', social, buddies)
              = IF i \notin instances THEN FriendsOnline(v, instances, social, buddies) \cup {i}
                ELSE FriendsOnline(v, instances, social, buddies) \ {i}
        BY <1>2, <3>6 DEF FriendsOnline
      <4> QED
        BY <3>2, <4>2, <4>3 DEF v
    <3>7. CASE <<v, UserIn[i]>> \notin social \cup buddies
      <4>1. pending'[v] = pending[v]
        BY <1>2, <3>1, <3>3, <3>7 DEF UpdateOnlineFriend
      <4>2. FriendsOnline(v, instances', social, buddies)
              = FriendsOnline(v, instances, social, buddies)
        BY <1>2, <3>7 DEF FriendsOnline
      <4> QED
        BY <3>2, <4>1, <4>2 DEF v
    <3> QED
      BY <3>6, <3>7
  <2>5. ListenersSeeFriends'
    BY <2>1, <2>4 DEF ListenersSeeFriends, lists, UserAt
  <2> QED
    BY <2>2, <2>3, <2>5 DEF IInv
<1> QED
  BY <1>1, <1>2 DEF RegisterInstance, UnregisterInstance

LEMMA PendingIsWritten ==
  ASSUME IInv, WritePendingUpdates
  PROVE  IInv'
<1>1. PICK U \in SUBSET known :
        /\ shown' = [l \in Listener |->
             IF l \in attached /\ UserAt(l) \in U THEN Updated(shown[l], pending[UserAt(l)])
             ELSE shown[l]]
        /\ pending' = [v \in User |-> IF v \in U THEN NonePending ELSE pending[v]]
  BY DEF WritePendingUpdates
<1>2. UNCHANGED <<instances, lists, known, attached, informed>>
  BY DEF WritePendingUpdates
<1>3. Shapes'
  BY <1>1, <1>2, UpdatedIsShape DEF IInv, Shapes, lists, NonePending
<1>4. ReverseAgrees'
  BY <1>2 DEF IInv, ReverseAgrees, lists
<1>5. ASSUME NEW l \in attached, UserAt(l) \in informed
      PROVE  Updated(shown'[l], pending'[UserAt(l)]) = Updated(shown[l], pending[UserAt(l)])
  <2>1. l \in Listener /\ UserAt(l) \in User
    BY ListenerUser DEF IInv, Shapes
  <2>2. CASE UserAt(l) \in U
    <3>1. shown'[l] = Updated(shown[l], pending[UserAt(l)]) /\ pending'[UserAt(l)] = NonePending
      BY <1>1, <2>1, <2>2
    <3> QED
      BY <3>1, UpdatedIsShape, NothingPending
  <2>3. CASE UserAt(l) \notin U
    BY <1>1, <2>1, <2>3
  <2> QED
    BY <2>2, <2>3
<1>6. ListenersSeeFriends'
  BY <1>2, <1>5 DEF IInv, ListenersSeeFriends, lists, UserAt
<1> QED
  BY <1>3, <1>4, <1>6 DEF IInv

LEMMA AcceptKeeps ==
  ASSUME IInv, Accept
  PROVE  IInv'
<1>1. UNCHANGED <<lists, known, attached, informed>> /\ instances' = {}
  BY DEF Accept
<1>2. WriteOnlineFriends(known)
  BY DEF Accept
<1>3. \A v \in informed' \ known : v \in informed
  BY <1>1
<1>4. \A l \in attached : UserAt(l) \notin informed' \ known
  BY <1>1 DEF IInv, Shapes
<1>5. /\ ListenersSeeFriends'
      /\ pending' \in [User -> [Instance -> Kind \cup {"none"}]]
      /\ shown' \in [Listener -> SUBSET Instance]
  BY <1>1, <1>2, <1>3, <1>4, FullListIsRight
<1>6. Shapes' /\ ReverseAgrees'
  BY <1>1, <1>5 DEF IInv, Shapes, ReverseAgrees, lists
<1> QED
  BY <1>5, <1>6 DEF IInv

LEMMA ListenersCome ==
  ASSUME IInv, NEW s \in Socket, NEW R \in SUBSET RID, RegisterListeners(s, R)
  PROVE  IInv'
<1> DEFINE new == {s} \X R
           U == {UserOf[r] : r \in R}
<1>1. UNCHANGED <<instances, lists, informed>>
      /\ known' = known \cup U /\ attached' = attached \cup new
  BY DEF RegisterListeners
<1>2. shown' = [l \in Listener |->
        CASE UserAt(l) \in U \cap informed /\ l \in new ->
               FriendsOnline(UserAt(l), instances, social, buddies)
          [] UserAt(l) \in U \cap informed /\ l \in attached \ new ->
               Updated(shown[l], pending[UserAt(l)])
          [] OTHER -> shown[l]]
  BY DEF RegisterListeners
<1>3. pending' = [v \in User |-> IF v \in U \cap informed THEN NonePending ELSE pending[v]]
  BY DEF RegisterListeners
<1>4. U \subseteq User /\ new \subseteq Listener /\ \A l \in new : UserAt(l) \in U
  BY GlobalInfoAssumption DEF Listener, UserAt
<1> HIDE DEF U, new
<1>5. shown' \in [Listener -> SUBSET Instance]
  <2>1. ASSUME NEW l \in Listener PROVE shown'[l] \in SUBSET Instance
    BY <1>2, FriendsShape, UpdatedIsShape DEF IInv, Shapes
  <2> QED
    BY <1>2, <2>1
<1>6. Shapes'
  BY <1>1, <1>3, <1>4, <1>5 DEF IInv, Shapes, lists, NonePending
<1>7. ReverseAgrees'
  BY <1>1 DEF IInv, ReverseAgrees, lists
<1>8. ASSUME NEW l \in attached \cup new, UserAt(l) \in informed
      PROVE  Updated(shown'[l], pending'[UserAt(l)])
               = FriendsOnline(UserAt(l), instances, social, buddies)
  <2>1. l \in Listener /\ UserAt(l) \in User
    BY <1>4, ListenerUser DEF IInv, Shapes
  <2>2. CASE l \in new
    <3>1. /\ shown'[l] = FriendsOnline(UserAt(l), instances, social, buddies)
          /\ pending'[UserAt(l)] = NonePending
      BY <1>2, <1>3, <1>4, <1>8, <2>1, <2>2
    <3> QED
      BY <3>1, FriendsShape, NothingPending DEF IInv, Shapes
  <2>3. CASE l \notin new
    <3>1. Updated(shown[l], pending[UserAt(l)])
            = FriendsOnline(UserAt(l), instances, social, buddies)
      BY <1>8, <2>3 DEF IInv, ListenersSeeFriends
    <3>2. CASE UserAt(l) \in U
      <4>1. /\ shown'[l] = Updated(shown[l], pending[UserAt(l)])
            /\ pending'[UserAt(l)] = NonePending
        BY <1>2, <1>3, <1>8, <2>1, <2>3, <3>2
      <4> QED
        BY <3>1, <4>1, UpdatedIsShape, NothingPending
    <3>3. CASE UserAt(l) \notin U
      <4>1. shown'[l] = shown[l] /\ pending'[UserAt(l)] = pending[UserAt(l)]
        BY <1>2, <1>3, <2>1, <3>3
      <4> QED
        BY <3>1, <4>1
    <3> QED
      BY <3>2, <3>3
  <2> QED
    BY <2>2, <2>3
<1>9. ListenersSeeFriends'
  BY <1>1, <1>8 DEF ListenersSeeFriends, lists, UserAt
<1> QED
  BY <1>6, <1>7, <1>9 DEF IInv

LEMMA ListenersGo ==
  ASSUME IInv, NEW L, UnregisterListeners(L)
  PROVE  IInv'
<1>1. /\ UNCHANGED <<instances, lists, known, informed, pending>>
      /\ attached' = attached \ L
      /\ shown' = [l \in Listener |-> IF l \in L THEN {} ELSE shown[l]]
  BY DEF UnregisterListeners
<1>2. Shapes' /\ ReverseAgrees'
  BY <1>1 DEF IInv, Shapes, ReverseAgrees, lists
<1>3. \A l \in attached \ L : shown'[l] = shown[l]
  BY <1>1 DEF IInv, Shapes
<1>4. ListenersSeeFriends'
  BY <1>1, <1>3 DEF IInv, ListenersSeeFriends, lists, UserAt
<1> QED
  BY <1>2, <1>4 DEF IInv

\* A user without listeners loses its lists: nobody is there to see.
LEMMA ExpiredIsCleared ==
  ASSUME IInv, ClearExpiredData
  PROVE  IInv'
<1>1. PICK U \in SUBSET Unattended :
        /\ social' = social \ PairsOf(U, social)
        /\ social_rev' = ErasedFromReverse(U, social, social_rev)
        /\ buddies' = buddies \ PairsOf(U, buddies)
        /\ buddies_rev' = ErasedFromReverse(U, buddies, buddies_rev)
        /\ known' = known \ U /\ informed' = informed \ U
        /\ pending' = [v \in User |-> IF v \in U THEN NonePending ELSE pending[v]]
  BY DEF ClearExpiredData
<1>2. UNCHANGED <<instances, attached, shown>>
  BY DEF ClearExpiredData
<1>3. \A l \in attached : UserAt(l) \notin U
  BY DEF Unattended
<1>4. Shapes'
  <2>1. pending' \in [User -> [Instance -> Kind \cup {"none"}]]
    BY <1>1 DEF IInv, Shapes, NonePending
  <2>2. \A l \in attached : UserAt(l) \in known \ U
    BY <1>3 DEF IInv, Shapes
  <2> QED
    BY <1>1, <1>2, <2>1, <2>2 DEF IInv, Shapes, UserAt
<1>5. ReverseAgrees'
  BY <1>1, ErasedAgrees DEF IInv, Shapes, ReverseAgrees
<1>6. ASSUME NEW l \in attached, UserAt(l) \in informed'
      PROVE  /\ FriendsOnline(UserAt(l), instances, social', buddies')
                  = FriendsOnline(UserAt(l), instances, social, buddies)
             /\ pending'[UserAt(l)] = pending[UserAt(l)]
             /\ UserAt(l) \in informed
  BY <1>1, <1>3, <1>6, ListenerUser DEF FriendsOnline, PairsOf, IInv, Shapes
<1>7. ListenersSeeFriends'
  BY <1>2, <1>6 DEF IInv, ListenersSeeFriends, UserAt
<1> QED
  BY <1>4, <1>5, <1>7 DEF IInv

LEMMA BuddiesCome ==
  ASSUME IInv, NEW D \in SUBSET User, NEW B \in [D -> SUBSET User], RegisterBuddies(B)
  PROVE  IInv'
<1> DEFINE added == UNION {{v} \X (B[v] \ {v}) : v \in D}
<1>1. /\ buddies' = (buddies \ PairsOf(D, buddies)) \cup added
      /\ buddies_rev' = ErasedFromReverse(D, buddies, buddies_rev) \cup Reversed(added)
      /\ WriteOnlineFriends(D \cap informed)
      /\ UNCHANGED <<instances, social, social_rev, known, attached, informed>>
  BY DEF RegisterBuddies
<1>2. added \subseteq User \X User /\ \A p \in added : p[1] \in D
  OBVIOUS
<1> HIDE DEF added
<1>3. ReverseAgrees'
  <2>1. ErasedFromReverse(D, buddies, buddies_rev) = Reversed(buddies \ PairsOf(D, buddies))
    BY ErasedAgrees DEF IInv, Shapes, ReverseAgrees
  <2>2. buddies_rev' = Reversed(buddies')
    BY <1>1, <2>1, AddedAgrees
  <2> QED
    BY <1>1, <2>2 DEF IInv, ReverseAgrees
<1>4. ASSUME NEW l \in attached, UserAt(l) \in informed' \ (D \cap informed)
      PROVE  FriendsOnline(UserAt(l), instances', social', buddies')
               = FriendsOnline(UserAt(l), instances, social, buddies)
  <2>1. UserAt(l) \notin D
    BY <1>1, <1>4
  <2>2. \A w : <<UserAt(l), w>> \in buddies' <=> <<UserAt(l), w>> \in buddies
    BY <1>1, <1>2, <2>1 DEF PairsOf
  <2> QED
    BY <1>1, <2>2 DEF FriendsOnline
<1>5. /\ ListenersSeeFriends'
      /\ pending' \in [User -> [Instance -> Kind \cup {"none"}]]
      /\ shown' \in [Listener -> SUBSET Instance]
  <2>1. instances' \in SUBSET Instance /\ \A v \in informed' \ (D \cap informed) : v \in informed
    BY <1>1 DEF IInv, Shapes
  <2> QED
    BY <1>1, <1>4, <2>1, FullListIsRight
<1>6. Shapes'
  BY <1>1, <1>2, <1>5 DEF IInv, Shapes, PairsOf
<1> QED
  BY <1>3, <1>5, <1>6 DEF IInv

LEMMA FriendsCome ==
  ASSUME IInv, NEW v \in User, NEW time \in Nat, NEW friends \in SUBSET User,
         UpdateSocialFriends(v, time, friends)
  PROVE  IInv'
<1> DEFINE newer == updated[v] < time
           taken == v \in known /\ (newer \/ v \notin informed)
           U == IF taken THEN {v} ELSE {}
<1>1. /\ IF taken /\ newer
         THEN /\ social' = (social \ PairsOf({v}, social)) \cup ({v} \X friends)
              /\ social_rev' = ErasedFromReverse({v}, social, social_rev) \cup (friends \X {v})
         ELSE UNCHANGED <<social, social_rev>>
      /\ informed' = IF taken THEN informed \cup {v} ELSE informed
      /\ WriteOnlineFriends(U)
      /\ UNCHANGED <<instances, buddies, buddies_rev, known, attached>>
  BY DEF UpdateSocialFriends
<1>2. taken => v \in known
  OBVIOUS
<1> HIDE DEF taken, newer
<1>3. Reversed({v} \X friends) = friends \X {v}
  <2>1. \A p \in Reversed({v} \X friends) : p \in friends \X {v}
    BY DEF Reversed
  <2>2. ASSUME NEW p \in friends \X {v} PROVE p \in Reversed({v} \X friends)
    <3>1. p = <<p[1], v>> /\ <<v, p[1]>> \in {v} \X friends
      OBVIOUS
    <3>2. {v} \X friends \in SUBSET (User \X User)
      OBVIOUS
    <3> QED
      BY <3>1, <3>2, InReverse
  <2> QED
    BY <2>1, <2>2
<1>4. ReverseAgrees'
  <2>1. CASE taken /\ newer
    <3>1. ErasedFromReverse({v}, social, social_rev) = Reversed(social \ PairsOf({v}, social))
      BY ErasedAgrees DEF IInv, Shapes, ReverseAgrees
    <3>2. /\ social' = (social \ PairsOf({v}, social)) \cup ({v} \X friends)
          /\ social_rev' = ErasedFromReverse({v}, social, social_rev) \cup (friends \X {v})
      BY <1>1, <2>1
    <3>3. Reversed(social') = Reversed(social \ PairsOf({v}, social)) \cup (friends \X {v})
      <4> DEFINE kept == social \ PairsOf({v}, social)
                 gained == {v} \X friends
      <4>1. Reversed(kept \cup gained) = Reversed(kept) \cup Reversed(gained)
        BY AddedAgrees
      <4> QED
        BY <1>3, <3>2, <4>1
    <3>4. social_rev' = Reversed(social')
      BY <3>1, <3>2, <3>3
    <3> QED
      BY <1>1, <3>4 DEF IInv, ReverseAgrees
  <2>2. CASE ~(taken /\ newer)
    BY <1>1, <2>2 DEF IInv, ReverseAgrees
  <2> QED
    BY <2>1, <2>2
<1>5. social' \subseteq User \X User
  BY <1>1 DEF IInv, Shapes, PairsOf
<1>6. ASSUME NEW l \in attached, UserAt(l) \in informed' \ U
      PROVE  FriendsOnline(UserAt(l), instances', social', buddies')
               = FriendsOnline(UserAt(l), instances, social, buddies)
  <2>1. \A w : <<UserAt(l), w>> \in social' <=> <<UserAt(l), w>> \in social
    BY <1>1, <1>6 DEF PairsOf
  <2> QED
    BY <1>1, <2>1 DEF FriendsOnline
<1>7. /\ ListenersSeeFriends'
      /\ pending' \in [User -> [Instance -> Kind \cup {"none"}]]
      /\ shown' \in [Listener -> SUBSET Instance]
  <2>1. instances' \in SUBSET Instance /\ \A w \in informed' \ U : w \in informed
    BY <1>1 DEF IInv, Shapes
  <2> QED
    BY <1>1, <1>6, <2>1, FullListIsRight
<1>8. Shapes'
  BY <1>1, <1>2, <1>5, <1>7 DEF IInv, Shapes
<1> QED
  BY <1>4, <1>7, <1>8 DEF IInv

LEMMA InitIsRight ==
  ASSUME instances = {}, social = {}, social_rev = {}, buddies = {}, buddies_rev = {},
         known = {}, attached = {}, informed = {},
         pending = [v \in User |-> NonePending], shown = [l \in Listener |-> {}]
  PROVE  IInv
<1>1. Shapes
  BY DEF Shapes, NonePending
<1>2. ReverseAgrees
  BY DEF ReverseAgrees, Reversed
<1> QED
  BY <1>1, <1>2 DEF IInv, ListenersSeeFriends

LEMMA RestartIsRight ==
  ASSUME RestartGlobalInfo
  PROVE  IInv'
<1>1. Shapes'
  BY DEF RestartGlobalInfo, Shapes, NonePending
<1>2. ReverseAgrees'
  BY DEF RestartGlobalInfo, ReverseAgrees, Reversed
<1>3. ListenersSeeFriends'
  BY DEF RestartGlobalInfo, ListenersSeeFriends
<1> QED
  BY <1>1, <1>2, <1>3 DEF IInv

-----------------------------------------------------------------------------
(* The theorems *)

LEMMA IInvAlways == Spec => []IInv
<1>1. Init => IInv
  BY InitIsRight DEF Init
<1>2. IInv /\ [Next]_vars => IInv'
  <2> SUFFICES ASSUME IInv, [Next]_vars PROVE IInv'
    OBVIOUS
  <2>1. CASE \/ \E i \in Instance : RegisterPlayer(i) \/ UnregisterPlayer(i)
             \/ \E n \in [Instance -> 0..MaxStays] : UnregisterAllInstances(n)
    <3>1. UNCHANGED view
      BY <2>1 DEF RegisterPlayer, UnregisterPlayer, UnregisterAllInstances, view
    <3> QED
      BY <3>1, SameView
  <2>2. CASE AccessReads \/ Connect \/ LoseAccess \/ RestartAccess
    <3>1. UNCHANGED view
      BY <2>2 DEF AccessReads, Connect, LoseAccess, RestartAccess, view
    <3> QED
      BY <3>1, SameView
  <2>3. CASE \/ \E u \in User, about_friends \in BOOLEAN : LeaderboardRequest(u, about_friends)
             \/ LeaderboardConnection
             \/ UNCHANGED vars
    <3>1. UNCHANGED view
      BY <2>3 DEF LeaderboardRequest, LeaderboardConnection, vars, view
    <3> QED
      BY <3>1, SameView
  <2>4. CASE \E i \in Instance : RegisterInstance(i) \/ UnregisterInstance(i)
    BY <2>4, InstanceComes
  <2>5. CASE Accept
    BY <2>5, AcceptKeeps
  <2>6. CASE RestartGlobalInfo
    BY <2>6, RestartIsRight
  <2>7. CASE \E s \in Socket, R \in SUBSET RID : RegisterListeners(s, R)
    BY <2>7, ListenersCome
  <2>8. CASE \/ \E l \in attached : UnregisterListeners({l})
             \/ \E s \in Socket : UnregisterListeners({s} \X RID)
    BY <2>8, ListenersGo
  <2>9. CASE \E U \in SUBSET User : \E B \in [U -> SUBSET User] : RegisterBuddies(B)
    BY <2>9, BuddiesCome
  <2>10. CASE \E u \in User, time \in 1..MaxUpdated, friends \in SUBSET User :
                UpdateSocialFriends(u, time, friends)
    BY <2>10, FriendsCome, GlobalInfoAssumption
  <2>11. CASE ClearExpiredData
    BY <2>11, ExpiredIsCleared
  <2>12. CASE WritePendingUpdates
    BY <2>12, PendingIsWritten
  <2> QED
    BY <2>1, <2>2, <2>3, <2>4, <2>5, <2>6, <2>7, <2>8, <2>9, <2>10, <2>11, <2>12 DEF Next
<1> QED
  BY <1>1, <1>2, PTL DEF Spec

\* What the logic of a location was sent, with what waits, is what globalinfo
\* knows of a player's friends: for every number of users, locations,
\* connections and stays (gglobalinfomanager.cpp:512, gglobalinfomanager_friends.cpp:62).
THEOREM ListenersSeeFriendsAlways == Spec => []ListenersSeeFriends
<1>1. IInv => ListenersSeeFriends
  BY DEF IInv
<1> QED
  BY <1>1, IInvAlways, PTL

\* No request waits for a leaderboard service that is there once the player's
\* friends are known: each event after which some may go looks at all that may
\* (gglobalinfomanager.cpp:666).
THEOREM RequestsGoOutAlways == Spec => []RequestsGoOut
<1> DEFINE Waiting == /\ requests \in [User -> Nat] /\ informed \subseteq known /\ known \subseteq User
                      /\ RequestsGoOut
<1>1. Init => Waiting
  BY DEF Init, RequestsGoOut
<1>2. Waiting /\ [Next]_vars => Waiting'
  <2> SUFFICES ASSUME Waiting, [Next]_vars PROVE Waiting'
    OBVIOUS
  <2>1. CASE UNCHANGED <<requests, leaderboard, informed>> /\ known \subseteq known' /\ known' \subseteq User
    BY <2>1 DEF RequestsGoOut
  <2>2. CASE \E i \in Instance : \/ RegisterPlayer(i) \/ UnregisterPlayer(i)
                                 \/ RegisterInstance(i) \/ UnregisterInstance(i)
    BY <2>1, <2>2 DEF RegisterPlayer, UnregisterPlayer, RegisterInstance, UnregisterInstance,
                      listening, boards
  <2>3. CASE \/ \E n \in [Instance -> 0..MaxStays] : UnregisterAllInstances(n)
             \/ AccessReads \/ Connect \/ Accept \/ LoseAccess \/ RestartAccess
             \/ UNCHANGED vars
    BY <2>1, <2>3 DEF UnregisterAllInstances, AccessReads, Connect, Accept, LoseAccess,
                      RestartAccess, vars, listening, boards
  <2>4. CASE \/ \E l \in attached : UnregisterListeners({l})
             \/ \E s \in Socket : UnregisterListeners({s} \X RID)
             \/ \E U \in SUBSET User : \E B \in [U -> SUBSET User] : RegisterBuddies(B)
             \/ WritePendingUpdates
    BY <2>1, <2>4 DEF UnregisterListeners, RegisterBuddies, WritePendingUpdates, boards
  <2>5. CASE \E s \in Socket, R \in SUBSET RID : RegisterListeners(s, R)
    <3>1. known \subseteq known' /\ known' \subseteq User
      BY <2>5, GlobalInfoAssumption DEF RegisterListeners
    <3>2. UNCHANGED <<requests, leaderboard, informed>>
      BY <2>5 DEF RegisterListeners, boards
    <3> QED
      BY <2>1, <3>1, <3>2
  <2>6. CASE \E u \in User, time \in 1..MaxUpdated, friends \in SUBSET User :
               UpdateSocialFriends(u, time, friends)
    <3>1. PICK u \in User, time \in 1..MaxUpdated, friends \in SUBSET User :
            UpdateSocialFriends(u, time, friends)
      BY <2>6
    <3>2. UNCHANGED <<known, leaderboard>> /\ requests' = Processed({u}, informed')
      BY <3>1 DEF UpdateSocialFriends
    <3>3. informed' \subseteq informed \cup {u} /\ informed' \subseteq known
      BY <3>1 DEF UpdateSocialFriends
    <3> QED
      BY <3>2, <3>3 DEF Processed, RequestsGoOut
  <2>7. CASE \E u \in User, about_friends \in BOOLEAN : LeaderboardRequest(u, about_friends)
    <3>1. PICK u \in User : /\ leaderboard = "down" \/ u \notin informed
                            /\ requests' = [requests EXCEPT ![u] = @ + 1]
                            /\ UNCHANGED <<known, informed, leaderboard>>
      BY <2>7 DEF LeaderboardRequest, listening
    <3> QED
      BY <3>1 DEF RequestsGoOut
  <2>8. CASE LeaderboardConnection
    <3>1. UNCHANGED <<known, informed>>
      BY <2>8 DEF LeaderboardConnection, listening
    <3> QED
      BY <2>8, <3>1 DEF LeaderboardConnection, Processed, RequestsGoOut
  <2>9. CASE ClearExpiredData
    BY <2>9 DEF ClearExpiredData, RequestsGoOut
  <2>10. CASE RestartGlobalInfo
    BY <2>10 DEF RestartGlobalInfo, RequestsGoOut
  <2> QED
    BY <2>2, <2>3, <2>4, <2>5, <2>6, <2>7, <2>8, <2>9, <2>10 DEF Next
<1>3. Waiting => RequestsGoOut
  OBVIOUS
<1> QED
  BY <1>1, <1>2, <1>3, PTL DEF Spec

-----------------------------------------------------------------------------
(* What the access service sends *)

LEMMA NotesAre ==
  ASSUME NEW kind \in Kind, NEW count \in [Instance -> 0..MaxStays], NEW ms \in Notes(kind, count)
  PROVE  /\ ms \in Seq(Message)
         /\ \A k \in DOMAIN ms : \E i \in Instance : count[i] > 0 /\ ms[k] = Note(kind, i)
         /\ \A i \in Instance : count[i] > 0 => \E k \in DOMAIN ms : ms[k] = Note(kind, i)
<1> DEFINE Told == {Note(kind, i) : i \in Instance}
           size == Cardinality(Instance) * MaxStays
           About(i) == {k \in DOMAIN ms : ms[k] = Note(kind, i)}
<1>1. size \in Nat
  BY FS_CardinalityType, GlobalInfoAssumption
<1>2. PICK m \in 0..size : ms \in [1..m -> Told]
  BY DEF Notes, SeqOf
<1>3. m \in Nat /\ DOMAIN ms = 1..m
  BY <1>1, <1>2
<1>4. Told \subseteq Message
  BY DEF Note, Message
<1>5. ms \in Seq(Message)
  <2>1. ms \in [1..m -> Message]
    BY <1>2, <1>4
  <2> QED
    BY <1>3, <2>1
<1>6. \A i \in Instance : Cardinality(About(i)) = count[i] /\ IsFiniteSet(About(i))
  <2>1. IsFiniteSet(1..m)
    BY <1>3, FS_Interval
  <2> QED
    BY <1>3, <2>1, FS_Subset DEF Notes
<1>7. ASSUME NEW k \in DOMAIN ms
      PROVE  \E i \in Instance : count[i] > 0 /\ ms[k] = Note(kind, i)
  <2>1. PICK i \in Instance : ms[k] = Note(kind, i)
    BY <1>2, <1>3
  <2>2. About(i) # {}
    BY <2>1
  <2>3. MaxStays \in Nat /\ count[i] \in 0..MaxStays
    BY GlobalInfoAssumption
  <2>4. count[i] # 0
    BY <2>2, <1>6, FS_EmptySet
  <2> QED
    BY <2>1, <2>3, <2>4
<1>8. ASSUME NEW i \in Instance, count[i] > 0
      PROVE  \E k \in DOMAIN ms : ms[k] = Note(kind, i)
  <2>1. About(i) # {}
    BY <1>6, <1>8, FS_EmptySet
  <2> QED
    BY <2>1
<1> QED
  BY <1>5, <1>7, <1>8

\* Instances once the messages of w are read: AfterWire is this of link.in.
After(is, w) ==
  {i \in Instance :
     \/ i \in is /\ \A k \in DOMAIN w : ~Ends(w[k], i)
     \/ \E k \in DOMAIN w : /\ w[k] = Note("register", i)
                             /\ \A m \in DOMAIN w : m > k => ~Ends(w[m], i)}

LEMMA KindsDiffer ==
  ASSUME NEW i, NEW j
  PROVE  /\ Note("register", i) # Note("unregister", j)
         /\ Note("register", i) # AcceptMessage /\ Note("unregister", i) # AcceptMessage
         /\ \A kind : Note(kind, i) = Note(kind, j) => i = j
<1>1. \A kind : Note(kind, i).instance = i /\ Note(kind, i).kind = kind
  BY DEF Note
<1>2. AcceptMessage.kind = "accept"
  BY DEF AcceptMessage
<1>3. Note("unregister", j).kind = "unregister" /\ \A kind : Note(kind, j).instance = j
  BY DEF Note
<1> QED
  BY <1>1, <1>2, <1>3

LEMMA ConcatIs ==
  ASSUME NEW w \in Seq(Message), NEW ms \in Seq(Message)
  PROVE  /\ Len(w) \in Nat /\ DOMAIN w = 1..Len(w) /\ Len(ms) \in Nat /\ DOMAIN ms = 1..Len(ms)
         /\ DOMAIN (w \o ms) = 1..(Len(w) + Len(ms))
         /\ \A k \in DOMAIN w : (w \o ms)[k] = w[k]
         /\ \A k \in DOMAIN ms : (w \o ms)[Len(w) + k] = ms[k]
OBVIOUS

Come(ms) == {i \in Instance : \E k \in DOMAIN ms : ms[k] = Note("register", i)}

LEMMA AfterRegisters ==
  ASSUME NEW is, NEW w \in Seq(Message), NEW ms \in Seq(Message),
         \A k \in DOMAIN ms : \E i \in Instance : ms[k] = Note("register", i)
  PROVE  After(is, w \o ms) = After(is, w) \cup Come(ms)
<1> DEFINE n == Len(w)
           all == w \o ms
<1>1. /\ n \in Nat /\ DOMAIN w = 1..n /\ Len(ms) \in Nat /\ DOMAIN ms = 1..Len(ms)
      /\ DOMAIN all = 1..(n + Len(ms))
      /\ \A k \in 1..n : all[k] = w[k]
      /\ \A k \in 1..Len(ms) : all[n + k] = ms[k]
  BY ConcatIs
<1> HIDE DEF all, n
<1>2. \A i \in Instance, k \in 1..(n + Len(ms)) : k > n => ~Ends(all[k], i)
  <2> SUFFICES ASSUME NEW i \in Instance, NEW k \in 1..(n + Len(ms)), k > n
               PROVE  ~Ends(all[k], i)
    OBVIOUS
  <2>1. k - n \in 1..Len(ms) /\ n + (k - n) = k
    BY <1>1
  <2>2. all[k] = ms[k - n]
    BY <1>1, <2>1
  <2>3. \E j \in Instance : all[k] = Note("register", j)
    BY <1>1, <2>1, <2>2
  <2> QED
    BY <2>3, KindsDiffer DEF Ends
<1>3. ASSUME NEW i \in After(is, w) PROVE i \in After(is, all)
  <2>1. CASE i \in is /\ \A k \in DOMAIN w : ~Ends(w[k], i)
    <3>1. ASSUME NEW k \in DOMAIN all PROVE ~Ends(all[k], i)
      BY <1>1, <1>2, <2>1, k \in 1..n \/ k > n DEF After
    <3> QED
      BY <2>1, <3>1 DEF After
  <2>2. CASE \E k \in DOMAIN w : /\ w[k] = Note("register", i)
                                 /\ \A m \in DOMAIN w : m > k => ~Ends(w[m], i)
    <3>1. PICK k \in DOMAIN w : w[k] = Note("register", i)
                               /\ \A m \in DOMAIN w : m > k => ~Ends(w[m], i)
      BY <2>2
    <3>2. k \in DOMAIN all /\ all[k] = Note("register", i)
      BY <1>1, <3>1
    <3>3. ASSUME NEW m \in DOMAIN all, m > k PROVE ~Ends(all[m], i)
      BY <1>1, <1>2, <3>1, <3>3, m \in 1..n \/ m > n DEF After
    <3> QED
      BY <3>2, <3>3 DEF After
  <2> QED
    BY <2>1, <2>2 DEF After
<1>4. ASSUME NEW i \in Come(ms) PROVE i \in After(is, all)
  <2>0. i \in Instance
    BY DEF Come
  <2>1. PICK k \in DOMAIN ms : ms[k] = Note("register", i)
    BY DEF Come
  <2>2. n + k \in DOMAIN all /\ all[n + k] = Note("register", i) /\ n + k > n
    BY <1>1, <2>1
  <2>3. ASSUME NEW m \in DOMAIN all, m > n + k PROVE ~Ends(all[m], i)
    BY <1>1, <1>2, <2>0, <2>2, <2>3
  <2> QED
    BY <2>0, <2>2, <2>3 DEF After
<1>5. ASSUME NEW i \in After(is, all), i \notin Come(ms) PROVE i \in After(is, w)
  <2>1. CASE i \in is /\ \A k \in DOMAIN all : ~Ends(all[k], i)
    BY <1>1, <2>1 DEF After
  <2>2. CASE \E k \in DOMAIN all : /\ all[k] = Note("register", i)
                                   /\ \A m \in DOMAIN all : m > k => ~Ends(all[m], i)
    <3>1. PICK k \in DOMAIN all : all[k] = Note("register", i)
                                 /\ \A m \in DOMAIN all : m > k => ~Ends(all[m], i)
      BY <2>2
    <3>2. k \in 1..n
      <4> SUFFICES ASSUME k > n PROVE FALSE
        BY <1>1
      <4>1. k - n \in 1..Len(ms) /\ n + (k - n) = k
        BY <1>1
      <4> QED
        BY <1>1, <1>5, <3>1, <4>1 DEF After, Come
    <3> QED
      BY <1>1, <3>1, <3>2 DEF After
  <2> QED
    BY <2>1, <2>2 DEF After
<1> QED
  BY <1>3, <1>4, <1>5, Come(ms) \subseteq Instance DEF all, After, Come

NotEnded(is, ms) == {i \in is : \A k \in DOMAIN ms : ms[k] # Note("unregister", i)}

LEMMA AfterUnregisters ==
  ASSUME NEW is, NEW w \in Seq(Message), NEW ms \in Seq(Message),
         \A k \in DOMAIN ms : \E i \in Instance : ms[k] = Note("unregister", i)
  PROVE  After(is, w \o ms) = NotEnded(After(is, w), ms)
<1> DEFINE n == Len(w)
           all == w \o ms
           Gone(i) == \E k \in DOMAIN ms : ms[k] = Note("unregister", i)
<1>1. /\ n \in Nat /\ DOMAIN w = 1..n /\ Len(ms) \in Nat /\ DOMAIN ms = 1..Len(ms)
      /\ DOMAIN all = 1..(n + Len(ms))
      /\ \A k \in 1..n : all[k] = w[k]
      /\ \A k \in 1..Len(ms) : all[n + k] = ms[k]
  BY ConcatIs
<1> HIDE DEF all, n
<1>2. \A k \in 1..(n + Len(ms)) : k > n => /\ k - n \in DOMAIN ms /\ all[k] = ms[k - n]
                                           /\ \E i \in Instance : all[k] = Note("unregister", i)
  <2> SUFFICES ASSUME NEW k \in 1..(n + Len(ms)), k > n
               PROVE  /\ k - n \in DOMAIN ms /\ all[k] = ms[k - n]
                      /\ \E i \in Instance : all[k] = Note("unregister", i)
    OBVIOUS
  <2>1. k - n \in 1..Len(ms) /\ n + (k - n) = k
    BY <1>1
  <2> QED
    BY <1>1, <2>1
<1>3. ASSUME NEW i \in Instance, Gone(i) PROVE i \notin After(is, all)
  <2>1. PICK k \in DOMAIN ms : ms[k] = Note("unregister", i)
    BY <1>3
  <2>2. n + k \in DOMAIN all /\ Ends(all[n + k], i)
    BY <1>1, <2>1 DEF Ends
  <2>3. ASSUME NEW m \in DOMAIN all, all[m] = Note("register", i) PROVE n + k > m
    <3>1. ~ (m > n)
      BY <1>1, <1>2, <2>3, KindsDiffer
    <3> QED
      BY <1>1, <3>1
  <2> QED
    BY <2>2, <2>3 DEF After
<1>4. ASSUME NEW i \in Instance, ~Gone(i) PROVE \A k \in DOMAIN all : k > n => ~Ends(all[k], i)
  <2> SUFFICES ASSUME NEW k \in DOMAIN all, k > n PROVE ~Ends(all[k], i)
    OBVIOUS
  <2>1. /\ k - n \in DOMAIN ms /\ all[k] = ms[k - n]
        /\ \E j \in Instance : all[k] = Note("unregister", j)
    BY <1>1, <1>2
  <2>2. all[k] # AcceptMessage
    BY <2>1, KindsDiffer
  <2>3. all[k] # Note("unregister", i)
    BY <2>1, <1>4
  <2> QED
    BY <2>2, <2>3 DEF Ends
<1>5. ASSUME NEW i \in After(is, w), ~Gone(i) PROVE i \in After(is, all)
  <2>0. i \in Instance
    BY DEF After
  <2>1. CASE i \in is /\ \A k \in DOMAIN w : ~Ends(w[k], i)
    <3>1. ASSUME NEW k \in DOMAIN all PROVE ~Ends(all[k], i)
      BY <1>1, <1>4, <1>5, <2>0, <2>1, k \in 1..n \/ k > n
    <3> QED
      BY <2>1, <3>1 DEF After
  <2>2. CASE \E k \in DOMAIN w : /\ w[k] = Note("register", i)
                                 /\ \A m \in DOMAIN w : m > k => ~Ends(w[m], i)
    <3>1. PICK k \in DOMAIN w : w[k] = Note("register", i)
                               /\ \A m \in DOMAIN w : m > k => ~Ends(w[m], i)
      BY <2>2
    <3>2. k \in DOMAIN all /\ all[k] = Note("register", i)
      BY <1>1, <3>1
    <3>3. ASSUME NEW m \in DOMAIN all, m > k PROVE ~Ends(all[m], i)
      BY <1>1, <1>4, <1>5, <2>0, <3>1, <3>3, m \in 1..n \/ m > n
    <3> QED
      BY <3>2, <3>3 DEF After
  <2> QED
    BY <2>1, <2>2 DEF After
<1>6. ASSUME NEW i \in After(is, all) PROVE i \in After(is, w)
  <2>1. CASE i \in is /\ \A k \in DOMAIN all : ~Ends(all[k], i)
    BY <1>1, <2>1 DEF After
  <2>2. CASE \E k \in DOMAIN all : /\ all[k] = Note("register", i)
                                   /\ \A m \in DOMAIN all : m > k => ~Ends(all[m], i)
    <3>1. PICK k \in DOMAIN all : all[k] = Note("register", i)
                                 /\ \A m \in DOMAIN all : m > k => ~Ends(all[m], i)
      BY <2>2
    <3>2. k \in 1..n
      BY <1>1, <1>2, <3>1, KindsDiffer
    <3> QED
      BY <1>1, <3>1, <3>2 DEF After
  <2> QED
    BY <2>1, <2>2 DEF After
<1>7. \A i \in After(is, all) \cup After(is, w) : i \in Instance
  BY DEF After
<1> HIDE DEF Gone
<1>8. After(is, all) = {i \in After(is, w) : ~Gone(i)}
  BY <1>3, <1>5, <1>6, <1>7
<1> QED
  BY <1>8 DEF Gone, all, NotEnded

LEMMA AfterAccept ==
  ASSUME NEW is, NEW w \in Seq(Message)
  PROVE  After(is, w \o <<AcceptMessage>>) = {}
<1> DEFINE n == Len(w) + 1
           all == w \o <<AcceptMessage>>
<1>1. n \in Nat /\ n >= 1 /\ DOMAIN all = 1..n /\ all[n] = AcceptMessage
  OBVIOUS
<1> HIDE DEF all, n
<1>2. n \in DOMAIN all /\ \A i : Ends(all[n], i) /\ all[n] # Note("register", i)
  <2> SUFFICES ASSUME NEW i PROVE Ends(all[n], i) /\ all[n] # Note("register", i)
    BY <1>1
  <2>1. AcceptMessage # Note("register", i)
    BY KindsDiffer
  <2> QED
    BY <1>1, <2>1 DEF Ends
<1>3. \A k \in DOMAIN all : k # n => n > k
  BY <1>1
<1>4. After(is, all) = {}
  BY <1>2, <1>3 DEF After
<1> QED
  BY <1>4 DEF all

Read(is, m) == IF m = AcceptMessage THEN {}
               ELSE IF m.kind = "register" THEN is \cup {m.instance} ELSE is \ {m.instance}

LEMMA AfterHead ==
  ASSUME NEW is \in SUBSET Instance, NEW w \in Seq(Message), w # <<>>
  PROVE  After(is, w) = After(Read(is, Head(w)), Tail(w))
<1> DEFINE h == Head(w)
           t == Tail(w)
           n == Len(t)
<1>1. /\ h = w[1] /\ n \in Nat /\ DOMAIN t = 1..n /\ DOMAIN w = 1..(n + 1)
      /\ \A k \in 1..n : t[k] = w[k + 1]
      /\ h \in Message
  OBVIOUS
<1> HIDE DEF h, t, n
<1>2. \A k \in 1..(n + 1) : k = 1 \/ (k - 1 \in 1..n /\ w[k] = t[k - 1])
  BY <1>1
<1>3. \A i : Ends(h, i) <=> h = AcceptMessage \/ h = Note("unregister", i)
  BY DEF Ends
<1>4. \A i \in Instance : /\ h = Note("register", i) => Read(is, h) = is \cup {i}
                          /\ h = Note("unregister", i) => Read(is, h) = is \ {i}
  <2> SUFFICES ASSUME NEW i \in Instance
               PROVE  /\ h = Note("register", i) => Read(is, h) = is \cup {i}
                      /\ h = Note("unregister", i) => Read(is, h) = is \ {i}
    OBVIOUS
  <2>1. \A kind : Note(kind, i).kind = kind /\ Note(kind, i).instance = i
    BY DEF Note
  <2> QED
    BY <2>1, KindsDiffer DEF Read
<1>5. \/ h = AcceptMessage
      \/ \E i \in Instance : h = Note("register", i) \/ h = Note("unregister", i)
  BY <1>1 DEF Message, Kind, Note
<1>6. \A i \in Instance : i \in Read(is, h) <=> h = Note("register", i) \/ (i \in is /\ ~Ends(h, i))
  <2>1. CASE h = AcceptMessage
    BY <2>1, <1>3, KindsDiffer DEF Read
  <2>2. CASE \E i \in Instance : h = Note("register", i) \/ h = Note("unregister", i)
    <3>1. PICK j \in Instance : h = Note("register", j) \/ h = Note("unregister", j)
      BY <2>2
    <3> SUFFICES ASSUME NEW i \in Instance
                 PROVE  i \in Read(is, h) <=> h = Note("register", i) \/ (i \in is /\ ~Ends(h, i))
      OBVIOUS
    <3>2. /\ h = Note("register", j) => h # AcceptMessage /\ h # Note("unregister", i)
          /\ h = Note("unregister", j) => h # AcceptMessage /\ h # Note("register", i)
          /\ h = Note("register", j) /\ i # j => h # Note("register", i)
          /\ h = Note("unregister", j) /\ i # j => h # Note("unregister", i)
      BY KindsDiffer
    <3>3. CASE h = Note("register", j)
      <4>1. Read(is, h) = is \cup {j}
        BY <1>4, <3>3
      <4>2. ~Ends(h, i)
        BY <3>2, <3>3 DEF Ends
      <4>3. h = Note("register", i) <=> i = j
        BY <3>2, <3>3
      <4> QED
        BY <4>1, <4>2, <4>3, <3>3
    <3>4. CASE h = Note("unregister", j)
      <4>1. Read(is, h) = is \ {j}
        BY <1>4, <3>4
      <4>2. Ends(h, i) <=> i = j
        BY <3>2, <3>4 DEF Ends
      <4>3. h # Note("register", i)
        BY <3>2, <3>4
      <4> QED
        BY <4>1, <4>2, <4>3, <3>4
    <3> QED
      BY <3>1, <3>3, <3>4
  <2> QED
    BY <1>5, <2>1, <2>2
<1>7. ASSUME NEW i \in Instance, i \in After(is, w) PROVE i \in After(Read(is, h), t)
  <2>1. CASE i \in is /\ \A k \in DOMAIN w : ~Ends(w[k], i)
    <3>1. i \in Read(is, h)
      BY <1>1, <1>6, <2>1
    <3>2. \A k \in DOMAIN t : ~Ends(t[k], i)
      BY <1>1, <2>1
    <3> QED
      BY <3>1, <3>2 DEF After
  <2>2. CASE \E k \in DOMAIN w : /\ w[k] = Note("register", i)
                                 /\ \A m \in DOMAIN w : m > k => ~Ends(w[m], i)
    <3>1. PICK k \in DOMAIN w : w[k] = Note("register", i)
                               /\ \A m \in DOMAIN w : m > k => ~Ends(w[m], i)
      BY <2>2
    <3>2. CASE k = 1
      <4>1. i \in Read(is, h)
        BY <1>1, <1>6, <3>1, <3>2
      <4>2. \A m \in DOMAIN t : ~Ends(t[m], i)
        BY <1>1, <3>1, <3>2
      <4> QED
        BY <4>1, <4>2 DEF After
    <3>3. CASE k # 1
      <4>1. k - 1 \in DOMAIN t /\ t[k - 1] = Note("register", i)
        BY <1>1, <1>2, <3>1, <3>3
      <4>2. ASSUME NEW m \in DOMAIN t, m > k - 1 PROVE ~Ends(t[m], i)
        <5>1. m + 1 \in DOMAIN w /\ m + 1 > k /\ t[m] = w[m + 1]
          BY <1>1, <4>2
        <5> QED
          BY <3>1, <5>1
      <4> QED
        BY <4>1, <4>2 DEF After
    <3> QED
      BY <3>2, <3>3
  <2> QED
    BY <1>7, <2>1, <2>2 DEF After
<1>8. ASSUME NEW i \in Instance, i \in After(Read(is, h), t) PROVE i \in After(is, w)
  <2>1. CASE i \in Read(is, h) /\ \A k \in DOMAIN t : ~Ends(t[k], i)
    <3>1. \A m \in DOMAIN w : m > 1 => ~Ends(w[m], i)
      <4> SUFFICES ASSUME NEW m \in DOMAIN w, m > 1 PROVE ~Ends(w[m], i)
        OBVIOUS
      <4>1. m - 1 \in DOMAIN t /\ w[m] = t[m - 1]
        BY <1>1, <1>2
      <4> QED
        BY <4>1, <2>1
    <3>2. CASE h = Note("register", i)
      <4>1. 1 \in DOMAIN w /\ w[1] = Note("register", i)
        BY <1>1, <3>2
      <4> QED
        BY <4>1, <3>1 DEF After
    <3>3. CASE i \in is /\ ~Ends(h, i)
      <4>1. \A m \in DOMAIN w : ~Ends(w[m], i)
        BY <1>1, <1>2, <2>1, <3>3
      <4> QED
        BY <3>3, <4>1 DEF After
    <3> QED
      BY <1>6, <2>1, <3>2, <3>3
  <2>2. CASE \E k \in DOMAIN t : /\ t[k] = Note("register", i)
                                 /\ \A m \in DOMAIN t : m > k => ~Ends(t[m], i)
    <3>1. PICK k \in DOMAIN t : t[k] = Note("register", i)
                               /\ \A m \in DOMAIN t : m > k => ~Ends(t[m], i)
      BY <2>2
    <3>2. k + 1 \in DOMAIN w /\ w[k + 1] = Note("register", i)
      BY <1>1, <3>1
    <3>3. ASSUME NEW m \in DOMAIN w, m > k + 1 PROVE ~Ends(w[m], i)
      <4>1. m - 1 \in 1..n /\ w[m] = t[m - 1] /\ m - 1 > k
        BY <1>1, <1>2, <3>1, <3>3
      <4> QED
        BY <1>1, <3>1, <4>1
    <3> QED
      BY <3>2, <3>3 DEF After
  <2> QED
    BY <1>8, <2>1, <2>2 DEF After
<1>9. After(is, w) = After(Read(is, h), t)
  BY <1>7, <1>8 DEF After
<1> QED
  BY <1>9 DEF h, t

-----------------------------------------------------------------------------
(* Types, and the agreement with the access service *)

Link == [up : BOOLEAN, named : BOOLEAN,
         out : Seq({"connect", "register_server"}), in : Seq(Message)]

AccessShape ==
  /\ online \in [Instance -> 0..MaxStays] /\ link \in Link
  /\ connects \in 0..MaxConnects /\ reentered \subseteq Instance /\ instances \subseteq Instance

CountersShape ==
  /\ updated \in [User -> 0..MaxUpdated] /\ requests \in [User -> 0..MaxRequests]
  /\ leaderboard \in {"down", "established", "accepted"}

Present == {i \in Instance : online[i] > 0}
NoAccept == \A k \in DOMAIN link.in : link.in[k] # AcceptMessage

\* Nobody is shown who is not there as soon as the access service has seen
\* IGMI_CONNECT; nobody is missed as soon as it has sent its list.
Agreement ==
  /\ link.named => After(instances, link.in) \subseteq Present
  /\ link.named /\ link.out = <<>> /\ NoAccept => Present \subseteq After(instances, link.in) \cup reentered
  /\ ~link.named => link.in = <<>> /\ link.out \in {<<>>, <<"connect">>}
  /\ \A i \in Instance : online[i] > 1 => i \in reentered

AgreeInv == AccessShape /\ Agreement

LEMMA Numbers == MaxStays \in Nat /\ MaxConnects \in Nat /\ MaxUpdated \in Nat /\ MaxRequests \in Nat
BY GlobalInfoAssumption

LEMMA NotifiedParts ==
  ASSUME link \in Link, NEW ms \in Seq(Message)
  PROVE  /\ Notified(ms) \in Link
         /\ Notified(ms).named = link.named /\ Notified(ms).out = link.out
         /\ link.named => Notified(ms).in = link.in \o ms
         /\ ~link.named => Notified(ms) = link
<1>1. link.in \in Seq(Message) /\ link.in \o ms \in Seq(Message)
  BY DEF Link
<1> QED
  BY <1>1 DEF Link, Notified

LEMMA NoAcceptConcat ==
  ASSUME NEW w \in Seq(Message), NEW ms \in Seq(Message),
         \A k \in DOMAIN (w \o ms) : (w \o ms)[k] # AcceptMessage
  PROVE  \A k \in DOMAIN w : w[k] # AcceptMessage
<1>1. \A k \in DOMAIN w : k \in DOMAIN (w \o ms) /\ (w \o ms)[k] = w[k]
  BY ConcatIs
<1> QED
  BY <1>1

LEMMA OneNote ==
  ASSUME NEW kind \in Kind, NEW i \in Instance
  PROVE  /\ <<Note(kind, i)>> \in Seq(Message)
         /\ \A k \in DOMAIN <<Note(kind, i)>> : <<Note(kind, i)>>[k] = Note(kind, i)
         /\ 1 \in DOMAIN <<Note(kind, i)>>
<1>1. Note(kind, i) \in Message
  BY DEF Note, Message
<1> QED
  BY <1>1

\* One more of an instance.
LEMMA RegisterAgrees ==
  ASSUME AgreeInv, NEW i \in Instance, RegisterPlayer(i)
  PROVE  AgreeInv'
<1> DEFINE ms == <<Note("register", i)>>
           w == link.in
<1>1. /\ AccessShape /\ Agreement /\ w \in Seq(Message) /\ "register" \in Kind
      /\ online \in [Instance -> Nat] /\ link \in Link
  BY Numbers DEF AgreeInv, AccessShape, Link, Kind
<1>2. ms \in Seq(Message) /\ \A k \in DOMAIN ms : ms[k] = Note("register", i)
  BY <1>1, OneNote
<1>3. /\ link' \in Link /\ link'.named = link.named /\ link'.out = link.out
      /\ link.named => link'.in = w \o ms
      /\ ~link.named => link' = link
  BY <1>1, <1>2, NotifiedParts DEF RegisterPlayer
<1>4. /\ online' = [online EXCEPT ![i] = @ + 1] /\ reentered' = Reentered(online')
      /\ online[i] < MaxStays /\ UNCHANGED <<instances, connects>>
  BY DEF RegisterPlayer
<1>5. AccessShape'
  <2>1. online' \in [Instance -> 0..MaxStays]
    BY <1>1, <1>4, Numbers DEF AccessShape
  <2> QED
    BY <2>1, <1>1, <1>3, <1>4 DEF AccessShape, Reentered
<1>6. Come(ms) = {i}
  BY <1>1, <1>2, OneNote, KindsDiffer DEF Come
<1>7. After(instances, w \o ms) = After(instances, w) \cup {i}
  <2> HIDE DEF ms, w
  <2> QED
    <3>1. /\ w \in Seq(Message) /\ ms \in Seq(Message)
          /\ \A k \in DOMAIN ms : \E j \in Instance : ms[k] = Note("register", j)
      BY <1>1, <1>2
    <3>2. After(instances, w \o ms) = After(instances, w) \cup Come(ms)
      BY <3>1, AfterRegisters
    <3> QED
      BY <1>6, <3>2
<1>8. Present' = Present \cup {i}
  BY <1>1, <1>4 DEF Present
<1>9. \A j \in Instance : j \in reentered /\ online[j] > 0 => j \in reentered'
  BY <1>1, <1>4 DEF Reentered
<1>10. \A j \in Instance : online'[j] > 1 => j \in reentered'
  BY <1>4 DEF Reentered
<1> HIDE DEF ms, w
<1>11. link.named => After(instances, link.in)' \subseteq Present'
  BY <1>1, <1>3, <1>4, <1>7, <1>8 DEF Agreement, w
<1>12. ASSUME link'.named, link'.out = <<>>, NoAccept'
       PROVE  Present' \subseteq After(instances, link.in)' \cup reentered'
  <2>1. NoAccept
    <3>1. link'.in = w \o ms
      BY <1>3, <1>12
    <3>2. \A k \in DOMAIN (w \o ms) : (w \o ms)[k] # AcceptMessage
      BY <3>1, <1>12 DEF NoAccept
    <3>3. \A k \in DOMAIN w : w[k] # AcceptMessage
      BY <3>2, <1>1, <1>2, NoAcceptConcat
    <3> QED
      BY <3>3 DEF NoAccept, w
  <2>2. Present \subseteq After(instances, w) \cup reentered
    BY <1>1, <1>3, <1>12, <2>1 DEF Agreement, w
  <2>3. After(instances, link.in)' = After(instances, w) \cup {i}
    BY <1>3, <1>4, <1>7, <1>12
  <2> QED
    BY <2>2, <2>3, <1>8, <1>9 DEF Present
<1>13. ~link'.named => link'.in = <<>> /\ link'.out \in {<<>>, <<"connect">>}
  BY <1>1, <1>3 DEF Agreement
<1> QED
  BY <1>3, <1>5, <1>10, <1>11, <1>12, <1>13 DEF AgreeInv, Agreement

\* Fewer of some instances: a note about each.
LEMMA LeavingAgrees ==
  ASSUME AgreeInv, NEW n \in [Instance -> 0..MaxStays], \A i \in Instance : n[i] <= online[i],
         NEW ms \in Seq(Message),
         \A k \in DOMAIN ms : \E i \in Instance : ms[k] = Note("unregister", i),
         \A i \in Instance : n[i] < online[i] => \E k \in DOMAIN ms : ms[k] = Note("unregister", i),
         \A i \in Instance : n[i] = online[i] => \A k \in DOMAIN ms : ms[k] # Note("unregister", i),
         online' = n, reentered' = Reentered(n), link' = Notified(ms),
         UNCHANGED <<instances, connects>>
  PROVE  AgreeInv'
<1> DEFINE w == link.in
<1>1. /\ AccessShape /\ Agreement /\ w \in Seq(Message)
      /\ online \in [Instance -> Nat] /\ n \in [Instance -> Nat] /\ link \in Link
  BY Numbers DEF AgreeInv, AccessShape, Link
<1>2. /\ link' \in Link /\ link'.named = link.named /\ link'.out = link.out
      /\ link.named => link'.in = w \o ms
      /\ ~link.named => link' = link
  BY <1>1, NotifiedParts
<1>3. AccessShape'
  BY <1>1, <1>2 DEF AccessShape, Reentered
<1>4. \A i \in Instance : /\ n[i] <= online[i] /\ n[i] \in Nat /\ online[i] \in Nat
                          /\ (n[i] < online[i] \/ n[i] = online[i])
  BY <1>1
<1>5. After(instances, w \o ms) = {i \in After(instances, w) : n[i] = online[i]}
  <2>1. \A i \in Instance : n[i] = online[i] <=> \A k \in DOMAIN ms : ms[k] # Note("unregister", i)
    BY <1>4
  <2>2. After(instances, w) \subseteq Instance
    BY DEF After
  <2> HIDE DEF w
  <2>0. /\ ms \in Seq(Message) /\ w \in Seq(Message)
        /\ \A k \in DOMAIN ms : \E i \in Instance : ms[k] = Note("unregister", i)
    BY <1>1
  <2>3. After(instances, w \o ms) = NotEnded(After(instances, w), ms)
    BY <2>0, AfterUnregisters
  <2> QED
    BY <2>1, <2>2, <2>3 DEF NotEnded
<1>6. Present' = {i \in Instance : n[i] > 0}
  BY DEF Present
<1>7. \A j \in Instance : n[j] > 1 \/ (j \in reentered /\ n[j] = 1) => j \in reentered'
  BY DEF Reentered
<1> HIDE DEF w
<1>8. ASSUME link'.named PROVE After(instances, link.in)' \subseteq Present'
  <2>1. After(instances, w) \subseteq Present
    BY <1>1, <1>2, <1>8 DEF Agreement, w
  <2>2. After(instances, link.in)' = {i \in After(instances, w) : n[i] = online[i]}
    BY <1>2, <1>5, <1>8
  <2> QED
    BY <2>1, <2>2, <1>6 DEF Present
<1>9. ASSUME link'.named, link'.out = <<>>, NoAccept'
      PROVE  Present' \subseteq After(instances, link.in)' \cup reentered'
  <2>1. NoAccept
    <3>1. link'.in = w \o ms
      BY <1>2, <1>9
    <3>2. \A k \in DOMAIN (w \o ms) : (w \o ms)[k] # AcceptMessage
      BY <3>1, <1>9 DEF NoAccept
    <3>3. \A k \in DOMAIN w : w[k] # AcceptMessage
      BY <3>2, <1>1, <1>2, NoAcceptConcat
    <3> QED
      BY <3>3 DEF NoAccept, w
  <2>2. Present \subseteq After(instances, w) \cup reentered /\ \A i \in Instance : online[i] > 1 => i \in reentered
    BY <1>1, <1>2, <1>9, <2>1 DEF Agreement, w
  <2>3. After(instances, link.in)' = {i \in After(instances, w) : n[i] = online[i]}
    BY <1>2, <1>5, <1>9
  <2>4. ASSUME NEW j \in Instance, n[j] > 0, j \notin reentered'
        PROVE  j \in After(instances, w) /\ n[j] = online[j]
    <3>1. n[j] = 1 /\ j \notin reentered
      BY <1>4, <1>7, <2>4
    <3>2. ~ (online[j] > 1)
      BY <2>2, <3>1
    <3>3. n[j] = online[j]
      BY <1>4, <3>1, <3>2
    <3>4. j \in Present
      BY <1>4, <2>4, <3>3 DEF Present
    <3> QED
      BY <2>2, <3>1, <3>3, <3>4
  <2> QED
    BY <2>3, <2>4, <1>6
<1>10. \A j \in Instance : online'[j] > 1 => j \in reentered'
  BY <1>7
<1>11. ~link'.named => link'.in = <<>> /\ link'.out \in {<<>>, <<"connect">>}
  BY <1>1, <1>2 DEF Agreement
<1> QED
  BY <1>3, <1>8, <1>9, <1>10, <1>11 DEF AgreeInv, Agreement

LEMMA UnregisterAgrees ==
  ASSUME AgreeInv, NEW i \in Instance, UnregisterPlayer(i)
  PROVE  AgreeInv'
<1> DEFINE n == [online EXCEPT ![i] = @ - 1]
           ms == <<Note("unregister", i)>>
<1>1. online \in [Instance -> 0..MaxStays] /\ online[i] > 0 /\ MaxStays \in Nat
  BY Numbers DEF AgreeInv, AccessShape, UnregisterPlayer
<1>2. /\ n \in [Instance -> 0..MaxStays] /\ n[i] = online[i] - 1
      /\ \A j \in Instance : j # i => n[j] = online[j]
      /\ \A j \in Instance : n[j] <= online[j]
  BY <1>1
<1>3. "unregister" \in Kind
  BY DEF Kind
<1>4. /\ ms \in Seq(Message) /\ 1 \in DOMAIN ms
      /\ \A k \in DOMAIN ms : ms[k] = Note("unregister", i)
  BY <1>3, OneNote
<1>5. /\ online' = n /\ reentered' = Reentered(n) /\ link' = Notified(ms)
      /\ UNCHANGED <<instances, connects>>
  BY DEF UnregisterPlayer
<1> HIDE DEF n, ms
<1>6. /\ \A k \in DOMAIN ms : \E j \in Instance : ms[k] = Note("unregister", j)
      /\ \A j \in Instance : n[j] < online[j] => \E k \in DOMAIN ms : ms[k] = Note("unregister", j)
      /\ \A j \in Instance : n[j] = online[j] => \A k \in DOMAIN ms : ms[k] # Note("unregister", j)
  <2>1. \A j \in Instance : n[j] < online[j] => j = i
    BY <1>1, <1>2
  <2>2. \A j \in Instance : n[j] = online[j] => j # i
    BY <1>1, <1>2
  <2> QED
    BY <1>4, <2>1, <2>2, KindsDiffer
<1> QED
  BY <1>2, <1>4, <1>5, <1>6, LeavingAgrees

LEMMA UnregisterAllAgrees ==
  ASSUME AgreeInv, NEW n \in [Instance -> 0..MaxStays], UnregisterAllInstances(n)
  PROVE  AgreeInv'
<1> DEFINE count == [i \in Instance |-> online[i] - n[i]]
<1>1. /\ online \in [Instance -> 0..MaxStays] /\ MaxStays \in Nat
      /\ \A i \in Instance : n[i] <= online[i]
  BY Numbers DEF AgreeInv, AccessShape, UnregisterAllInstances
<1>2. count \in [Instance -> 0..MaxStays] /\ \A i \in Instance : count[i] = online[i] - n[i]
  BY <1>1
<1>3. PICK ms \in Notes("unregister", count) : link' = Notified(ms)
  BY DEF UnregisterAllInstances
<1>4. "unregister" \in Kind
  BY DEF Kind
<1> HIDE DEF count
<1>5. /\ ms \in Seq(Message)
      /\ \A k \in DOMAIN ms : \E i \in Instance : count[i] > 0 /\ ms[k] = Note("unregister", i)
      /\ \A i \in Instance : count[i] > 0 => \E k \in DOMAIN ms : ms[k] = Note("unregister", i)
  BY <1>2, <1>3, <1>4, NotesAre
<1>6. \A i \in Instance : /\ n[i] < online[i] <=> count[i] > 0
                          /\ n[i] = online[i] <=> ~ (count[i] > 0)
  BY <1>1, <1>2
<1>7. \A i \in Instance : n[i] = online[i] => \A k \in DOMAIN ms : ms[k] # Note("unregister", i)
  <2> SUFFICES ASSUME NEW i \in Instance, n[i] = online[i], NEW k \in DOMAIN ms
               PROVE  ms[k] # Note("unregister", i)
    OBVIOUS
  <2>1. PICK j \in Instance : count[j] > 0 /\ ms[k] = Note("unregister", j)
    BY <1>5
  <2>2. j # i
    BY <2>1, <1>6
  <2> QED
    BY <2>1, <2>2, KindsDiffer
<1>8. online' = n /\ reentered' = Reentered(n) /\ UNCHANGED <<instances, connects>>
  BY DEF UnregisterAllInstances
<1> QED
  BY <1>1, <1>3, <1>5, <1>6, <1>7, <1>8, LeavingAgrees

\* The list the access service sends: whoever is there comes after all else.
LEMMA AccessReadsAgrees ==
  ASSUME AgreeInv, AccessReads
  PROVE  AgreeInv'
<1> DEFINE w == link.in
<1>1. /\ AccessShape /\ Agreement /\ w \in Seq(Message) /\ link \in Link
      /\ link.out \in Seq({"connect", "register_server"}) /\ link.out # <<>>
  BY DEF AgreeInv, AccessShape, Link, AccessReads
<1>0. Tail(link.out) \in Seq({"connect", "register_server"})
  BY <1>1
<1>2. PICK ms \in IF Head(link.out) = "connect" THEN {<<AcceptMessage>>} ELSE Notes("register", online) :
        link' = [link EXCEPT !.out = Tail(@), !.named = TRUE, !.in = @ \o ms]
  BY DEF AccessReads
<1>3. CASE Head(link.out) = "connect"
  <2>1. ms = <<AcceptMessage>>
    BY <1>2, <1>3
  <2>2. ms \in Seq(Message)
    BY <2>1 DEF Message
  <2>3. After(instances, w \o ms) = {}
    BY <1>1, <2>1, AfterAccept
  <2>4. link' \in Link /\ link'.in = w \o ms
    <3>1. w \o ms \in Seq(Message)
      BY <1>1, <2>2
    <3> QED
      BY <1>0, <1>1, <1>2, <3>1 DEF Link
  <2>5. ~ NoAccept'
    <3>1. Len(w) + 1 \in DOMAIN (w \o ms) /\ (w \o ms)[Len(w) + 1] = AcceptMessage
      BY <1>1, <2>1
    <3> QED
      BY <2>4, <3>1 DEF NoAccept
  <2>6. UNCHANGED <<online, connects, reentered, instances>>
    BY DEF AccessReads
  <2> QED
    BY <1>1, <1>2, <2>3, <2>4, <2>5, <2>6 DEF AgreeInv, AccessShape, Agreement, Present, Link
<1>4. CASE Head(link.out) # "connect"
  <2>1. ms \in Notes("register", online) /\ "register" \in Kind /\ online \in [Instance -> 0..MaxStays]
    BY <1>1, <1>2, <1>4 DEF AccessShape, Kind
  <2>2. /\ ms \in Seq(Message)
        /\ \A k \in DOMAIN ms : \E i \in Instance : online[i] > 0 /\ ms[k] = Note("register", i)
        /\ \A i \in Instance : online[i] > 0 => \E k \in DOMAIN ms : ms[k] = Note("register", i)
    BY <2>1, NotesAre
  <2>3. Come(ms) = Present
    <3>1. ASSUME NEW i \in Come(ms) PROVE i \in Present
      <4>1. PICK k \in DOMAIN ms : ms[k] = Note("register", i)
        BY DEF Come
      <4>2. PICK j \in Instance : online[j] > 0 /\ ms[k] = Note("register", j)
        BY <2>2
      <4> QED
        BY <4>1, <4>2, KindsDiffer DEF Present
    <3> QED
      BY <2>2, <3>1 DEF Present, Come
  <2>4. After(instances, w \o ms) = After(instances, w) \cup Present
    <3> HIDE DEF w
    <3>1. /\ w \in Seq(Message) /\ ms \in Seq(Message)
          /\ \A k \in DOMAIN ms : \E i \in Instance : ms[k] = Note("register", i)
      BY <1>1, <2>2
    <3>2. After(instances, w \o ms)
            = After(instances, w) \cup Come(ms)
      BY <3>1, AfterRegisters
    <3> QED
      BY <2>3, <3>2
  <2>5. link' \in Link /\ link'.in = w \o ms
    <3>1. w \o ms \in Seq(Message)
      BY <1>1, <2>2
    <3> QED
      BY <1>0, <1>1, <1>2, <3>1 DEF Link
  <2>6. UNCHANGED <<online, connects, reentered, instances>>
    BY DEF AccessReads
  <2>7. After(instances, w) \subseteq Present
    <3>1. link.named
      BY <1>1, <1>4 DEF Agreement
    <3> QED
      BY <1>1, <3>1 DEF Agreement
  <2> QED
    BY <1>1, <1>2, <2>4, <2>5, <2>6, <2>7 DEF AgreeInv, AccessShape, Agreement, Present, Link
<1> QED
  BY <1>3, <1>4

\* Globalinfo reads the oldest message.
LEMMA ReadingAgrees ==
  ASSUME AgreeInv, link.in # <<>>, NEW out \in Seq({"connect", "register_server"}),
         link' = [link EXCEPT !.in = Tail(@), !.out = out],
         out = link.out \/ out # <<>>,
         Head(link.in) = AcceptMessage => out # <<>>,
         instances' = Read(instances, Head(link.in)),
         UNCHANGED <<online, connects, reentered>>
  PROVE  AgreeInv'
<1> DEFINE w == link.in
<1>1. /\ AccessShape /\ Agreement /\ w \in Seq(Message) /\ w # <<>> /\ link \in Link
      /\ instances \in SUBSET Instance
  BY DEF AgreeInv, AccessShape, Link
<1>2. /\ Tail(w) \in Seq(Message) /\ Head(w) \in Message
      /\ \A k \in DOMAIN w : k = 1 \/ (k - 1 \in DOMAIN Tail(w) /\ w[k] = Tail(w)[k - 1])
      /\ w[1] = Head(w)
  BY <1>1
<1>3. /\ link' \in Link /\ link'.in = Tail(w) /\ link'.out = out /\ link'.named = link.named
  BY <1>1, <1>2 DEF Link
<1>4. Read(instances, Head(w)) \subseteq Instance
  BY <1>1, <1>2 DEF Read, Message
<1>5. AccessShape'
  BY <1>1, <1>3, <1>4 DEF AccessShape
<1>6. link.named
  BY <1>1 DEF Agreement
<1>7. After(instances, w) = After(instances', Tail(w))
  <2> HIDE DEF w
  <2> QED
    BY <1>1, AfterHead DEF w
<1>8. ASSUME link'.out = <<>>, NoAccept' PROVE link.out = <<>> /\ NoAccept
  <2>1. link.out = <<>> /\ Head(w) # AcceptMessage
    BY <1>3, <1>8
  <2>2. \A k \in DOMAIN Tail(w) : Tail(w)[k] # AcceptMessage
    BY <1>3, <1>8 DEF NoAccept
  <2> QED
    BY <1>2, <2>1, <2>2 DEF NoAccept
<1> HIDE DEF w
<1>9. After(instances, link.in)' = After(instances, w)
  BY <1>3, <1>7
<1> QED
  BY <1>1, <1>3, <1>5, <1>6, <1>8, <1>9 DEF AgreeInv, Agreement, Present, w

LEMMA ReadersRead ==
  ASSUME AgreeInv, Accept \/ \E i \in Instance : RegisterInstance(i) \/ UnregisterInstance(i)
  PROVE  AgreeInv'
<1>1. /\ link \in Link /\ link.in \in Seq(Message)
      /\ link.out \in Seq({"connect", "register_server"})
  BY DEF AgreeInv, AccessShape, Link
<1>2. CASE Accept
  <2>1. /\ link.in # <<>> /\ Head(link.in) = AcceptMessage /\ instances' = {}
        /\ link' = [Dequeued EXCEPT !.out = Append(@, "register_server")]
        /\ UNCHANGED <<online, connects, reentered>>
    BY <1>2 DEF Accept
  <2>2. PICK out : out = Append(link.out, "register_server")
    OBVIOUS
  <2>3. out \in Seq({"connect", "register_server"}) /\ out # <<>>
    BY <1>1, <2>2
  <2>4. link' = [link EXCEPT !.in = Tail(@), !.out = out]
    BY <1>1, <2>1, <2>2 DEF Dequeued, Link
  <2>5. instances' = Read(instances, Head(link.in))
    BY <2>1 DEF Read
  <2> QED
    BY <2>1, <2>3, <2>4, <2>5, ReadingAgrees
<1>3. ASSUME NEW i \in Instance, RegisterInstance(i) \/ UnregisterInstance(i)
      PROVE  AgreeInv'
  <2>1. /\ link.in # <<>> /\ link' = Dequeued /\ UNCHANGED <<online, connects, reentered>>
    BY <1>3 DEF RegisterInstance, UnregisterInstance
  <2>2. PICK out : out = link.out
    OBVIOUS
  <2>3. link' = [link EXCEPT !.in = Tail(@), !.out = out]
    BY <1>1, <2>1, <2>2 DEF Dequeued, Link
  <2>4. \/ Head(link.in) = Note("register", i) /\ instances' = instances \cup {i}
        \/ Head(link.in) = Note("unregister", i) /\ instances' = instances \ {i}
    BY <1>3 DEF RegisterInstance, UnregisterInstance
  <2>5. \A kind : Note(kind, i).kind = kind /\ Note(kind, i).instance = i
    BY DEF Note
  <2>6. Head(link.in) # AcceptMessage /\ instances' = Read(instances, Head(link.in))
    BY <2>4, <2>5, KindsDiffer DEF Read
  <2> QED
    BY <1>1, <2>1, <2>2, <2>3, <2>6, ReadingAgrees
<1> QED
  BY <1>2, <1>3

LEMMA InitAgrees == Init => AgreeInv
<1>1. After({}, <<>>) = {}
  BY DEF After
<1> QED
  BY <1>1, Numbers DEF Init, AgreeInv, AccessShape, Agreement, NoLink, Link, NoAccept, Present

LEMMA LinkLost ==
  ASSUME AgreeInv, link' = NoLink \/ link' = [NoLink EXCEPT !.up = TRUE, !.out = <<"connect">>],
         connects' \in 0..MaxConnects, instances' \subseteq Instance,
         \/ UNCHANGED <<online, reentered>>
         \/ online' = [i \in Instance |-> 0] /\ reentered' = {}
  PROVE  AgreeInv'
<1>1. /\ link' \in Link /\ ~link'.named /\ link'.in = <<>>
      /\ link'.out \in {<<>>, <<"connect">>}
  <2>1. <<"connect">> \in Seq({"connect", "register_server"}) /\ <<>> \in Seq(Message)
    OBVIOUS
  <2>2. CASE link' = NoLink
    BY <2>1, <2>2 DEF NoLink, Link
  <2>3. CASE link' = [NoLink EXCEPT !.up = TRUE, !.out = <<"connect">>]
    <3>1. link' = [up |-> TRUE, named |-> FALSE, out |-> <<"connect">>, in |-> <<>>]
      BY <2>3 DEF NoLink
    <3> QED
      BY <2>1, <3>1 DEF Link
  <2> QED
    BY <2>2, <2>3
<1>2. AccessShape'
  BY <1>1, Numbers DEF AgreeInv, AccessShape
<1>3. \A i \in Instance : online'[i] > 1 => i \in reentered'
  BY DEF AgreeInv, Agreement
<1> QED
  BY <1>1, <1>2, <1>3 DEF AgreeInv, Agreement

LEMMA AgreeFrame ==
  ASSUME AgreeInv, UNCHANGED <<access, instances>>
  PROVE  AgreeInv'
BY DEF access, AgreeInv, AccessShape, Agreement, Present, NoAccept

LEMMA AgreeInvAlways == Spec => []AgreeInv
<1>1. AgreeInv /\ [Next]_vars => AgreeInv'
  <2> SUFFICES ASSUME AgreeInv, [Next]_vars PROVE AgreeInv'
    OBVIOUS
  <2>1. CASE \E i \in Instance : RegisterPlayer(i)
    BY <2>1, RegisterAgrees
  <2>2. CASE \E i \in Instance : UnregisterPlayer(i)
    BY <2>2, UnregisterAgrees
  <2>3. CASE \E n \in [Instance -> 0..MaxStays] : UnregisterAllInstances(n)
    BY <2>3, UnregisterAllAgrees
  <2>4. CASE AccessReads
    BY <2>4, AccessReadsAgrees
  <2>5. CASE Accept \/ \E i \in Instance : RegisterInstance(i) \/ UnregisterInstance(i)
    BY <2>5, ReadersRead
  <2>6. CASE Connect \/ LoseAccess \/ RestartAccess \/ RestartGlobalInfo
    <3>1. /\ connects \in Nat /\ connects < MaxConnects /\ MaxConnects \in Nat /\ instances \subseteq Instance
      BY <2>6, Numbers DEF Connect, LoseAccess, RestartAccess, RestartGlobalInfo, AgreeInv, AccessShape
    <3>2. connects' \in {connects, connects + 1} /\ instances' \subseteq Instance
      BY <2>6, <3>1 DEF Connect, LoseAccess, RestartAccess, RestartGlobalInfo
    <3>3. connects' \in 0..MaxConnects
      BY <3>1, <3>2
    <3>4. link' = NoLink \/ link' = [NoLink EXCEPT !.up = TRUE, !.out = <<"connect">>]
      BY <2>6 DEF Connect, LoseAccess, RestartAccess, RestartGlobalInfo
    <3>5. \/ UNCHANGED <<online, reentered>>
          \/ online' = [i \in Instance |-> 0] /\ reentered' = {}
      BY <2>6 DEF Connect, LoseAccess, RestartAccess, RestartGlobalInfo
    <3> QED
      BY <3>2, <3>3, <3>4, <3>5, LinkLost
  <2>7. CASE \/ \E s \in Socket, R \in SUBSET RID : RegisterListeners(s, R)
             \/ \E l \in attached : UnregisterListeners({l})
             \/ \E s \in Socket : UnregisterListeners({s} \X RID)
             \/ ClearExpiredData \/ WritePendingUpdates
    <3>1. UNCHANGED <<access, instances>>
      BY <2>7 DEF RegisterListeners, UnregisterListeners, ClearExpiredData, WritePendingUpdates
    <3> QED
      BY <3>1, AgreeFrame
  <2>8. CASE \/ \E U \in SUBSET User : \E B \in [U -> SUBSET User] : RegisterBuddies(B)
             \/ \E u \in User, time \in 1..MaxUpdated, friends \in SUBSET User :
                  UpdateSocialFriends(u, time, friends)
             \/ \E u \in User, about_friends \in BOOLEAN : LeaderboardRequest(u, about_friends)
             \/ LeaderboardConnection
             \/ UNCHANGED vars
    <3>1. UNCHANGED <<access, instances>>
      BY <2>8 DEF RegisterBuddies, UpdateSocialFriends, LeaderboardRequest, LeaderboardConnection, vars
    <3> QED
      BY <3>1, AgreeFrame
  <2> QED
    BY <2>1, <2>2, <2>3, <2>4, <2>5, <2>6, <2>7, <2>8 DEF Next
<1> QED
  BY <1>1, InitAgrees, PTL DEF Spec

\* Globalinfo shows nobody who is not in the access service, and misses nobody
\* but those whose second, equal instance hid in the first
\* (gglobalinfomanager.cpp:118-179, gaccessmanager_registration.cpp:62): for
\* every number of instances, stays and connections, and every order of the
\* notes of one list.
THEOREM InstancesAgreeAlways == Spec => []InstancesAgree
<1>1. AgreeInv => InstancesAgree
  <2> SUFFICES ASSUME AgreeInv, Settled
               PROVE  AfterWire \subseteq Present /\ Present \subseteq AfterWire \cup reentered
    BY DEF InstancesAgree, Present
  <2>1. AfterWire = After(instances, link.in)
    BY DEF AfterWire, After
  <2> QED
    BY <2>1 DEF AgreeInv, Agreement, Settled, NoAccept
<1> QED
  BY <1>1, AgreeInvAlways, PTL

LEMMA InitCounters == Init => CountersShape
BY Numbers DEF Init, CountersShape

LEMMA CountersKeep ==
  ASSUME CountersShape, [Next]_vars
  PROVE  CountersShape'
<1>1. CASE UNCHANGED <<updated, boards>>
  BY <1>1 DEF CountersShape, boards
<1>2. CASE \E i \in Instance : \/ RegisterPlayer(i) \/ UnregisterPlayer(i)
                               \/ RegisterInstance(i) \/ UnregisterInstance(i)
  BY <1>1, <1>2 DEF RegisterPlayer, UnregisterPlayer, RegisterInstance, UnregisterInstance, lists
<1>3. CASE \/ \E n \in [Instance -> 0..MaxStays] : UnregisterAllInstances(n)
           \/ AccessReads \/ Connect \/ Accept \/ LoseAccess \/ RestartAccess
           \/ UNCHANGED vars
  BY <1>1, <1>3 DEF UnregisterAllInstances, AccessReads, Connect, Accept, LoseAccess,
                    RestartAccess, vars, lists
<1>4. CASE \/ \E s \in Socket, R \in SUBSET RID : RegisterListeners(s, R)
           \/ \E l \in attached : UnregisterListeners({l})
           \/ \E s \in Socket : UnregisterListeners({s} \X RID)
           \/ \E U \in SUBSET User : \E B \in [U -> SUBSET User] : RegisterBuddies(B)
           \/ WritePendingUpdates
  BY <1>1, <1>4 DEF RegisterListeners, UnregisterListeners, RegisterBuddies, WritePendingUpdates, lists
<1>5. CASE \E u \in User, time \in 1..MaxUpdated, friends \in SUBSET User :
             UpdateSocialFriends(u, time, friends)
  BY <1>5, Numbers DEF UpdateSocialFriends, Processed, CountersShape
<1>6. CASE \E u \in User, about_friends \in BOOLEAN : LeaderboardRequest(u, about_friends)
  <2>1. PICK u \in User : /\ requests[u] < MaxRequests /\ requests' = [requests EXCEPT ![u] = @ + 1]
                          /\ UNCHANGED <<lists, leaderboard>>
    BY <1>6 DEF LeaderboardRequest
  <2> QED
    BY <2>1, Numbers DEF CountersShape, lists
<1>7. CASE LeaderboardConnection
  BY <1>7, Numbers DEF LeaderboardConnection, Processed, CountersShape, lists
<1>8. CASE ClearExpiredData \/ RestartGlobalInfo
  BY <1>8, Numbers DEF ClearExpiredData, RestartGlobalInfo, CountersShape
<1> QED
  BY <1>2, <1>3, <1>4, <1>5, <1>6, <1>7, <1>8 DEF Next

\* Every variable keeps its type, no listener is left of a user who has been
\* forgotten (ClearExpiredData, gglobalinfomanager.cpp:484), and what is on its
\* way is well formed.
THEOREM GlobalInfoTypeCorrect == Spec => []TypeOK
<1>1. CountersShape /\ [Next]_vars => CountersShape'
  BY CountersKeep
<1>2. AgreeInv /\ IInv /\ CountersShape => TypeOK
  <2> SUFFICES ASSUME AgreeInv, IInv, CountersShape PROVE TypeOK
    OBVIOUS
  <2>1. \A pairs \in SUBSET (User \X User) : Reversed(pairs) \subseteq User \X User
    BY DEF Reversed
  <2>2. {social, social_rev, buddies, buddies_rev} \subseteq SUBSET (User \X User)
    BY <2>1 DEF IInv, Shapes, ReverseAgrees
  <2>3. /\ link.up \in BOOLEAN /\ link.named \in BOOLEAN
        /\ link.out \in Seq({"connect", "register_server"}) /\ link.in \in Seq(Message)
    BY DEF AgreeInv, AccessShape, Link
  <2>4. attached \subseteq {l \in Listener : UserAt(l) \in known}
    BY DEF IInv, Shapes
  <2> QED
    BY <2>2, <2>3, <2>4 DEF TypeOK, AgreeInv, AccessShape, IInv, Shapes, CountersShape
<1> QED
  BY <1>1, <1>2, InitCounters, AgreeInvAlways, IInvAlways, PTL DEF Spec
=============================================================================
