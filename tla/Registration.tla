----------------------------- MODULE Registration -----------------------------
(***************************************************************************)
(* Which players of a group the access service takes for connected         *)
(* (server_stats/gaccessmanager_registration.cpp).  A group of a game      *)
(* server tells the service by tickets who came and who left, and sends    *)
(* the whole list after each reconnection (server_game/ggroup_message.cpp).*)
(*                                                                         *)
(* A player is here one stay of a player, with its own RID: who comes back *)
(* is another one.  The messages of a connection arrive in order, up to    *)
(* its end.                                                                *)
(***************************************************************************)
EXTENDS Tickets

CONSTANTS
  Player,
  Prompt,     \* does the service see the end of a connection before the next?
  MaxConnects \* bound: connections of the group; the last one stays

ASSUME RegistrationAssumption == Prompt \in BOOLEAN /\ MaxConnects \in Nat

VARIABLES
  player,    \* a player is "new", "connected" (in index_rid) or "left"
  client,    \* the tickets of the group for the service
  links,     \* the connections that are not over at both ends
  connects,  \* how many there were
  instances  \* of a player, in the service: a multimap

vars == <<player, client, links, connects, instances>>

Register(p) == [kind |-> "register", player |-> p]
Unregister(p) == [kind |-> "unregister", player |-> p]
TicketData == {Register(p) : p \in Player} \cup {Unregister(p) : p \in Player}

Request == [kind : {"connect"}] \cup [kind : {"players"}, players : SUBSET Player]
  \cup [kind : {"ticket"}, number : Nat, data : TicketData]
Reply == [kind : {"accept"}] \cup [kind : {"processed"}, number : Nat]

\* open: the group has it; served: the service has it; named: the service
\* knows whose it is; accepted: the group knows that.
Link == [open : BOOLEAN, served : BOOLEAN, named : BOOLEAN, accepted : BOOLEAN,
         requests : Seq(Request), replies : Seq(Reply)]

TypeOK ==
  /\ player \in [Player -> {"new", "connected", "left"}]
  /\ links \in Seq(Link)
  /\ connects \in 0..MaxConnects
  /\ instances \in [Player -> Nat]
  /\ \A t \in ToSet(client.out) \cup ToSet(client.wait) :
       t.data \in TicketData /\ t.number \in 1..(client.sequence_number - 1)

Connected == {p \in Player : player[p] = "connected"}

-----------------------------------------------------------------------------
(* The group *)

\* GPlayerGame::ServicesRegister.
ServicesRegister(p) ==
  /\ player[p] = "new"
  /\ player' = [player EXCEPT ![p] = "connected"]
  /\ client' = AddTicket(client, Register(p), NoSequence)
  /\ UNCHANGED <<links, connects, instances>>

\* GPlayerGame::ServicesUnregister.
ServicesUnregister(p) ==
  /\ player[p] = "connected"
  /\ player' = [player EXCEPT ![p] = "left"]
  /\ client' = AddTicket(client, Unregister(p), NoSequence)
  /\ UNCHANGED <<links, connects, instances>>

Newest == Len(links)
IsOpen == links # <<>> /\ links[Newest].open

Connect ==
  /\ ~IsOpen /\ connects < MaxConnects
  /\ Prompt => links = <<>>
  /\ connects' = connects + 1
  /\ links' = Append(links,
       [open |-> TRUE, served |-> TRUE, named |-> FALSE, accepted |-> FALSE,
        requests |-> <<[kind |-> "connect"]>>, replies |-> <<>>])
  /\ UNCHANGED <<player, client, instances>>

\* A connection that neither end holds is forgotten.
Held(ls) == Only(ls, {k \in ToSet(ls) : k.open \/ k.served})

\* The group closes its end; what the service has not read may be lost.
CloseConnection ==
  /\ IsOpen /\ connects < MaxConnects
  /\ \E n \in 0..Len(links[Newest].requests) :
       links' = Held([links EXCEPT ![Newest].open = FALSE, ![Newest].replies = <<>>,
                                   ![Newest].requests = SubSeq(@, 1, n)])
  /\ UNCHANGED <<player, client, connects, instances>>

\* Mutant: only who came while there was no connection is in the list.
PlayersToRegister == {t.data.player : t \in ToSet(client.out)}

PlayersOfGroup == Connected

\* IGMI_ACCEPT: the list of the players goes out before any ticket.
Accept ==
  /\ IsOpen /\ links[Newest].replies # <<>> /\ Head(links[Newest].replies).kind = "accept"
  /\ links' = [links EXCEPT ![Newest].replies = Tail(@), ![Newest].accepted = TRUE,
       ![Newest].requests = Append(@, [kind |-> "players", players |-> PlayersOfGroup])]
  /\ UNCHANGED <<player, client, connects, instances>>

\* IGMIT_PROCESSED.
Acknowledge ==
  /\ IsOpen /\ links[Newest].replies # <<>> /\ Head(links[Newest].replies).kind = "processed"
  /\ links' = [links EXCEPT ![Newest].replies = Tail(@)]
  /\ client' = PreProcessMessage(client, Head(links[Newest].replies).number, {}).client
  /\ UNCHANGED <<player, connects, instances>>

Flush(n) ==
  LET flushed == FlushTickets(client, n)
      request(t) == [kind |-> "ticket", number |-> t.number, data |-> t.data] IN
  /\ IsOpen /\ links[Newest].accepted
  /\ client' = flushed.client
  /\ links' = [links EXCEPT ![Newest].requests =
       @ \o [i \in DOMAIN flushed.sent |-> request(flushed.sent[i])]]
  /\ UNCHANGED <<player, connects, instances>>

-----------------------------------------------------------------------------
(* The access service *)

Registered(p) == [instances EXCEPT ![p] = @ + 1]

\* Mutant: no look whether there is an instance.
UnregisteredAnyhow(p) == [instances EXCEPT ![p] = @ - 1]

\* UnregisterPlayer erases one of the instances that are equal.
Unregistered(p) == [instances EXCEPT ![p] = IF @ = 0 THEN 0 ELSE @ - 1]

Read(i) ==
  LET m == Head(links[i].requests)
      read(replies) ==
        links' = [links EXCEPT ![i].requests = Tail(@), ![i].named = TRUE,
                               ![i].replies = IF links[i].open THEN @ \o replies ELSE @]
  IN
  /\ links[i].served /\ links[i].requests # <<>>
  /\ \/ m.kind = "connect" /\ read(<<[kind |-> "accept"]>>) /\ UNCHANGED instances
     \/ /\ m.kind = "players" /\ read(<<>>)
        /\ instances' = [p \in Player |-> instances[p] + (IF p \in m.players THEN 1 ELSE 0)]
     \/ /\ m.kind = "ticket" /\ read(<<[kind |-> "processed", number |-> m.number]>>)
        /\ instances' = IF m.data.kind = "register" THEN Registered(m.data.player)
                        ELSE Unregistered(m.data.player)
  /\ UNCHANGED <<player, client, connects>>

\* UnregisterLogic, when the service sees that a connection has ended, or ends
\* it: every instance of its group goes (UnregisterAllInstances).
UnregisterLogic(i) ==
  /\ links[i].served
  /\ links[i].open => connects < MaxConnects
  /\ links' = Held([links EXCEPT ![i].served = FALSE, ![i].requests = <<>>])
  /\ instances' = IF links[i].named THEN [p \in Player |-> 0] ELSE instances
  /\ UNCHANGED <<player, client, connects>>

\* The service starts anew.
Restart ==
  /\ connects < MaxConnects
  /\ \E i \in DOMAIN links : links[i].served
  /\ links' = Held([i \in DOMAIN links |->
                     [links[i] EXCEPT !.served = FALSE, !.requests = <<>>]])
  /\ instances' = [p \in Player |-> 0]
  /\ UNCHANGED <<player, client, connects>>

-----------------------------------------------------------------------------
Init ==
  /\ player = [p \in Player |-> "new"]
  /\ client = NewClient
  /\ links = <<>>
  /\ connects = 0
  /\ instances = [p \in Player |-> 0]

Next ==
  \/ \E p \in Player : ServicesRegister(p) \/ ServicesUnregister(p)
  \/ Connect \/ CloseConnection \/ Accept \/ Acknowledge \/ Restart
  \/ \E n \in 1..Len(client.out) : Flush(n)
  \/ \E i \in DOMAIN links : Read(i) \/ UnregisterLogic(i)

Spec == Init /\ [][Next]_vars

\* The poll loops of both servers go round: what has arrived is read, queued
\* tickets are sent, and each end sees at last that the other has closed.
FairSpec ==
  /\ Spec
  /\ WF_vars(Connect) /\ WF_vars(Accept) /\ WF_vars(Acknowledge)
  /\ WF_vars(IsOpen /\ ~links[Newest].served /\ links[Newest].replies = <<>> /\ CloseConnection)
  /\ WF_vars(\E n \in 1..Len(client.out) : Flush(n))
  /\ WF_vars(\E i \in DOMAIN links : Read(i))
  /\ WF_vars(\E i \in DOMAIN links : ~links[i].open /\ UnregisterLogic(i))

-----------------------------------------------------------------------------
(* Properties *)

\* Both ends hold the connection and have introduced themselves.
Settled == IsOpen /\ links[Newest].served /\ links[Newest].accepted

\* Will the service register the player, from what is queued or on its way?
OnItsWay(p) ==
  \/ \E t \in ToSet(client.out) : t.data = Register(p)
  \/ \E m \in ToSet(links[Newest].requests) :
       \/ m.kind = "players" /\ p \in m.players
       \/ m.kind = "ticket" /\ m.data = Register(p)

\* While a group and the service are connected, no connected player is missed:
\* each has an instance or will get one (IGMI_PLAYERS, IGMITIC_REGISTER),
\* although a lost connection took the instances and the tickets with it.
EveryPlayerIsRegistered ==
  Settled => \A p \in Connected : instances[p] > 0 \/ OnItsWay(p)

\* Tickets are sent in the order of their numbers, across reconnections and
\* retransmissions: the acknowledgement of one tells which were lost
\* (RollbackTicket, PreProcessMessage).
NumbersIncrease ==
  LET tickets == client.wait \o client.out IN
  \A i, j \in DOMAIN tickets : i < j => tickets[i].number < tickets[j].number

\* A player who comes gets an instance, unless it leaves first, however often
\* the connection and the service fail before they stay.
PlayersGetRegistered ==
  \A p \in Player : player[p] = "connected" ~> (instances[p] > 0 \/ player[p] = "left")
=============================================================================
