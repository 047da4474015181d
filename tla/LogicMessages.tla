----------------------------- MODULE LogicMessages -----------------------------
(***************************************************************************)
(* Messages from one location to another (server_game/ggroup_message.cpp): *)
(* the group that sends one asks the balancer which group has the target,  *)
(* remembers the answer, and passes the message by ticket to that group's  *)
(* server; who does not have the location any more sends the message back. *)
(*                                                                         *)
(* Every group is alone on its server; the main thread of the server reads *)
(* its connections.  The messages are those of one group, Sender.  Times   *)
(* are left out: what has a deadline may be over it.                       *)
(***************************************************************************)
EXTENDS Tickets, FiniteSets

CONSTANTS
  Group, Sender,
  Messages,    \* bound: the messages, in the order the engine sends them
  Location,
  LocationOf,  \* the location a message is for
  NoGroup,
  MaxMishaps,  \* bound: locations released, addresses forgotten, deadlines
               \* passed, connections ended and answers of the balancer lost
               \* with theirs, all together; or one group stopped,
  MaxPending,  \* bound: with so many messages queued
  MaxNumber    \* bound: a stopped group answers no ticket numbered higher

Message == ToSet(Messages)

ASSUME LogicMessagesAssumption ==
  /\ Sender \in Group /\ NoGroup \notin Group
  /\ NoSequence \notin Location
  \* Each message is sent once; the code has no names for them.
  /\ Messages \in Seq(Message)
  /\ \A i, j \in DOMAIN Messages : Messages[i] = Messages[j] => i = j
  /\ LocationOf \in [Message -> Location]
  /\ MaxMishaps \in Nat \ {0} /\ MaxPending \in Nat /\ MaxNumber \in Nat

VARIABLES
  sent,                   \* how many messages
  new_outgoing, outgoing, cache, client, \* of the sender; a client for each server
  transfer, incoming,     \* of each group
  back,                   \* of each server: the transfer queue of its group 0
  links, connects,        \* the sender's connection to each server
  answers, unanswered,    \* of the balancer, on their way to each group; lost
  assigned, owner,        \* locations of a group; group of a location
  stopped, stops,         \* groups that are; how often one did
  mishaps,
  handled,                \* how often a message reached an engine
  logged,                 \* data_dropped_internal_logic_messages
  lost                    \* what nobody has any more, and nobody logged

queues == <<new_outgoing, outgoing, transfer, incoming, back>>
network == <<client, links, connects>>
balancer == <<answers, unanswered, assigned, owner, stopped, stops>>
fates == <<sent, handled, logged, lost>>
vars == <<queues, network, balancer, fates, cache, mishaps>>

Mishap == mishaps < MaxMishaps /\ mishaps' = mishaps + 1
MishapIf(P) == IF P THEN Mishap ELSE UNCHANGED mishaps

\* asked: address_request_sent, with no target_group_address; socket: socketid;
\* target: the group that returned the message, if the reply says so.
Entry == [id : Message, asked : BOOLEAN, socket : Nat]
Returned == [id : Message, socket : Nat, group : Group \cup {NoGroup}]
Reply == [kind : {"processed"}, number : Nat]
  \cup [kind : {"bad_address"}, id : Message, group : Group \cup {NoGroup},
        target : Group \cup {NoGroup}]
Link == [up : BOOLEAN, requests : Seq([id : Message, number : Nat]), replies : Seq(Reply)]

TypeOK ==
  /\ new_outgoing \in Seq(Entry) /\ outgoing \in Seq(Entry)
  /\ cache \in [Location -> Group \cup {NoGroup}]
  /\ transfer \in [Group -> Seq(Entry)] /\ incoming \in [Group -> Seq(Entry)]
  /\ back \in [Group -> Seq(Returned)]
  /\ \A d \in Group : \A t \in ToSet(client[d].out) \cup ToSet(client[d].wait) :
       t.data \in Message /\ t.number \in 1..(client[d].sequence_number - 1)
  /\ links \in [Group -> Link] /\ connects \in [Group -> Nat]
  /\ answers \in [Group -> Seq([location : Location, group : Group \cup {NoGroup}])]
  /\ assigned \in [Group -> SUBSET Location] /\ owner \in [Location -> Group \cup {NoGroup}]
  /\ stopped \subseteq Group
  /\ sent \in 0..Len(Messages)
  /\ handled \in [Message -> Nat] /\ logged \subseteq Message /\ lost \subseteq Message

Waiting(m) == [id |-> m, asked |-> FALSE, socket |-> 0]
Ids(entries) == {entries[i].id : i \in DOMAIN entries}
LocationsOf(entries) == {LocationOf[m] : m \in Ids(entries)}
IdsOf(tickets) == {tickets[i].data : i \in DOMAIN tickets}
For(g, x, otherwise) == IF g = Sender THEN x ELSE otherwise

\* ProcessLocationMessage: the engine of a group that has stopped ignores it.
Handle(g, ms) ==
  IF g \in stopped THEN lost' = lost \cup ms /\ UNCHANGED handled
  ELSE handled' = [m \in Message |-> handled[m] + IF m \in ms THEN 1 ELSE 0] /\ UNCHANGED lost

-----------------------------------------------------------------------------
(* The queues of a group *)

\* SendMessageToLocation, AddOutgoingLogicMessage.
AddOutgoing ==
  /\ sent < Len(Messages)
  /\ sent' = sent + 1
  /\ new_outgoing' = Append(new_outgoing, Waiting(Messages[sent + 1]))
  /\ UNCHANGED <<outgoing, transfer, incoming, back, cache, network, balancer,
                 handled, logged, lost, mishaps>>

\* Mutant: what only asks now counts as well.
AskedOrAsking(entries) == LocationsOf(entries)

\* The locations whose address a message of the queue has asked for.
Asked(entries) == {LocationOf[e.id] : e \in {x \in ToSet(entries) : x.asked}}

\* What becomes of a queue: what the group has itself is handled, what has a
\* known address goes, the others ask for one; then the expired are dropped.
Sorted(entries, g, known, expired) ==
  LET asked == {e \in ToSet(entries) : e.asked}
      here == {e \in ToSet(entries) : LocationOf[e.id] \in assigned[g]} \ asked
      goes == {e \in ToSet(entries) : known[LocationOf[e.id]] # NoGroup} \ (asked \cup here)
      needy == ToSet(entries) \ (asked \cup here \cup goes)
      stays == Only(entries, {e \in asked \cup needy : e.id \notin expired}) IN
  [handled |-> {e.id : e \in here},
   goes    |-> Only(entries, goes),
   asks    |-> {LocationOf[e.id] : e \in needy} \ Asked(entries),
   dropped |-> {e.id : e \in asked \cup needy} \cap expired,
   queue   |-> [i \in DOMAIN stays |-> [stays[i] EXCEPT !.asked = TRUE]]]

Nowhere == [l \in Location |-> NoGroup]

\* TicketToGroup, for messages in turn.
TicketToGroup(entry, clients, g) ==
  [clients EXCEPT ![g] = AddTicket(@, entry.id, LocationOf[entry.id])]
TicketsTo(entries, clients, address) ==
  FoldLeft(LAMBDA c, e : TicketToGroup(e, c, address[LocationOf[e.id]]), clients, entries)

\* GetLocationAddress of the balancer: the group of the location, or a ready
\* one if there is any.
Picks(locations) ==
  IF \E l \in locations : owner[l] = NoGroup THEN (Group \ stopped) \cup {NoGroup}
  ELSE {NoGroup}
Answers(locations, o) ==
  [i \in 1..Cardinality(locations) |->
    LET l == SetToSeq(locations)[i]
    IN [location |-> l, group |-> IF owner[l] = NoGroup THEN o ELSE owner[l]]]

\* The transfer queue, the incoming and then the outgoing messages.  Requests
\* for addresses are answered at once; the answers may take their time.
IntervalMSecond(g) ==
  \E expired \in {{}} \cup {{m} : m \in Ids(incoming[g]) \cup For(g, Ids(outgoing), {})} :
  LET in == Sorted(incoming[g] \o transfer[g], g, Nowhere, expired)
      out == Sorted(For(g, outgoing \o new_outgoing, <<>>), g, cache, expired) IN
  /\ MishapIf(expired # {})
  /\ transfer' = [transfer EXCEPT ![g] = <<>>]
  /\ incoming' = [incoming EXCEPT ![g] = in.queue]
  /\ outgoing' = For(g, out.queue, outgoing)
  /\ new_outgoing' = For(g, <<>>, new_outgoing)
  /\ client' = TicketsTo(out.goes, client, cache)
  /\ \E o \in Picks(in.asks \cup out.asks) :
       /\ answers' = [answers EXCEPT ![g] = @ \o Answers(in.asks, o) \o Answers(out.asks, o)]
       /\ owner' = [l \in Location |-> IF l \in in.asks \cup out.asks /\ owner[l] = NoGroup
                                       THEN o ELSE owner[l]]
  /\ Handle(g, in.handled \cup out.handled)
  /\ logged' = logged \cup in.dropped \cup out.dropped
  /\ UNCHANGED <<sent, back, cache, links, connects, unanswered, assigned, stopped, stops>>

-----------------------------------------------------------------------------
(* The balancer's answers *)

LoseAnswer(g) ==
  /\ answers[g] # <<>> /\ Mishap
  /\ unanswered' = unanswered \cup {<<g, Head(answers[g]).location>>}
  /\ answers' = [answers EXCEPT ![g] = Tail(@)]
  /\ UNCHANGED <<queues, network, fates, cache, assigned, owner, stopped, stops>>

Awaits(e, l) == e.asked /\ LocationOf[e.id] = l

\* Mutant: the expiration time of the message is not cleared.
QueuedStill(entries, l) == entries

Queued(entries, l) == Only(entries, {e \in ToSet(entries) : ~Awaits(e, l)})

\* IGMIT_LOCATION_ADDRESS_RESPONSE.
AddressResponse(g) ==
  LET answer == Head(answers[g])
      l == answer.location
      here(q) == Only(q, {e \in ToSet(q) : Awaits(e, l)})
      out == For(g, here(outgoing), <<>>)
      in == here(incoming[g])
      returned == [i \in DOMAIN in |->
                    [id |-> in[i].id, socket |-> in[i].socket, group |-> answer.group]] IN
  /\ answers[g] # <<>>
  /\ answers' = [answers EXCEPT ![g] = Tail(@)]
  /\ outgoing' = For(g, Queued(outgoing, l), outgoing)
  /\ incoming' = [incoming EXCEPT ![g] = Queued(@, l)]
  /\ cache' = IF g = Sender /\ answer.group # NoGroup
              THEN [cache EXCEPT ![l] = answer.group] ELSE cache
  /\ \/ /\ answer.group = g
        /\ assigned' = IF g \in stopped \/ out \o in = <<>> THEN assigned
                       ELSE [assigned EXCEPT ![g] = @ \cup {l}]
        /\ Handle(g, Ids(out \o in))
        /\ UNCHANGED <<client, back, logged>>
     \/ /\ answer.group = NoGroup
        /\ logged' = logged \cup Ids(out \o in)
        /\ UNCHANGED <<client, back, assigned, handled, lost>>
     \/ /\ answer.group \notin {g, NoGroup}
        /\ client' = TicketsTo(out, client, [k \in Location |-> answer.group])
        /\ back' = [back EXCEPT ![g] = @ \o returned]
        /\ UNCHANGED <<assigned, handled, logged, lost>>
  /\ UNCHANGED <<sent, new_outgoing, transfer, links, connects, unanswered,
                 owner, stopped, stops, mishaps>>

-----------------------------------------------------------------------------
(* The sender's connections *)

IdsIn(replies) == {replies[i].id : i \in {j \in DOMAIN replies : replies[j].kind = "bad_address"}}

\* What the server has not read of the last may be lost, what it wrote is.
CloseConnection(d) ==
  /\ links[d].up /\ Mishap
  /\ \E n \in 0..Len(links[d].requests) :
       links' = [links EXCEPT ![d].up = FALSE, ![d].replies = <<>>,
                              ![d].requests = SubSeq(@, 1, n)]
  /\ lost' = lost \cup IdsIn(links[d].replies)
  /\ UNCHANGED <<queues, client, connects, balancer, sent, handled, logged, cache>>

\* FlushTickets, over a new connection if there is none; what the server could
\* still read of the last is read by then.
Flush(d) ==
  LET flushed == FlushTickets(client[d], Len(client[d].out)) IN
  /\ client[d].out # <<>>
  /\ links[d].up \/ links[d].requests = <<>>
  /\ client' = [client EXCEPT ![d] = flushed.client]
  /\ connects' = IF links[d].up THEN connects ELSE [connects EXCEPT ![d] = @ + 1]
  /\ links' = [links EXCEPT ![d].up = TRUE, ![d].requests = @ \o
       [i \in DOMAIN flushed.sent |->
         [id |-> flushed.sent[i].data, number |-> flushed.sent[i].number]]]
  /\ UNCHANGED <<queues, balancer, fates, cache, mishaps>>

\* Mutant: a message whose ticket is late is forgotten.
AskedAgainNever(drops, late) == {}

\* Of the tickets dropped, those whose message asks for an address again: no
\* connection came about in time, but the message has time left.
AskedAgain(drops, late) ==
  {i \in DOMAIN drops : drops[i].reason = "DeadlineReached" /\ drops[i].ticket.data \notin late}

\* DroppedTicketCallback, for tickets in turn; late: the messages expired.
DroppedTickets(drops, late) ==
  LET ids(S) == {drops[i].ticket.data : i \in S}
      again == Only(drops, {d \in ToSet(drops) : d.ticket.data \in ids(AskedAgain(drops, late))})
  IN
  /\ new_outgoing' = new_outgoing \o [i \in DOMAIN again |-> Waiting(again[i].ticket.data)]
  /\ cache' = [l \in Location |-> IF \E i \in AskedAgain(drops, late) :
                                       LocationOf[drops[i].ticket.data] = l
                                  THEN NoGroup ELSE cache[l]]
  /\ logged' = logged \cup {m \in ids(DOMAIN drops) :
       \E i \in DOMAIN drops : /\ drops[i].ticket.data = m
                               /\ drops[i].reason = "DeadlineReached" => m \in late}

\* The tickets that wait for a connection longer than their deadline.
DropDueTickets(d) ==
  \E due \in (SUBSET IdsOf(client[d].out)) \ {{}} : \E late \in SUBSET due :
  LET done == DropDue(client[d], due) IN
  /\ ~links[d].up /\ Mishap
  /\ client' = [client EXCEPT ![d] = done.client]
  /\ DroppedTickets(done.dropped, late)
  /\ UNCHANGED <<outgoing, transfer, incoming, back, links, connects, balancer,
                 sent, handled, lost>>

\* IGMIT_PROCESSED; due: the tickets over their deadline, of those that were
\* sent before the acknowledged one.
Acknowledge(d) ==
  LET number == Head(links[d].replies).number
      earlier == {t \in ToSet(client[d].wait) : t.number < number} IN
  /\ links[d].replies # <<>> /\ Head(links[d].replies).kind = "processed"
  /\ links' = [links EXCEPT ![d].replies = Tail(@)]
  /\ \E due \in SUBSET {t.data : t \in earlier} : \E late \in SUBSET due :
     LET done == PreProcessMessage(client[d], number, due) IN
     /\ MishapIf(due # {})
     /\ client' = [client EXCEPT ![d] = done.client]
     /\ DroppedTickets(done.dropped, late)
  /\ UNCHANGED <<outgoing, transfer, incoming, back, connects, balancer,
                 sent, handled, lost>>

\* IGMIT_LOGIC_MESSAGE_BAD_ADDRESS.  The address is forgotten only if the reply
\* names the group: that of a stopped one does not, and the message goes there
\* again until the address is an hour old.
BadAddress(d) ==
  LET reply == Head(links[d].replies)
      l == LocationOf[reply.id] IN
  /\ links[d].replies # <<>> /\ reply.kind = "bad_address"
  /\ links' = [links EXCEPT ![d].replies = Tail(@)]
  /\ new_outgoing' = Append(new_outgoing, Waiting(reply.id))
  /\ cache' = IF reply.group # NoGroup \/ (cache[l] = d /\ reply.target = d)
              THEN [cache EXCEPT ![l] = reply.group] ELSE cache
  /\ UNCHANGED <<outgoing, transfer, incoming, back, client, connects, balancer, fates, mishaps>>

\* After 15 minutes with nothing to send a client is closed and destroyed.
CloseIdle(d) ==
  LET closed == CloseClient(client[d]) IN
  /\ client[d] # NewClient /\ client[d].out = <<>> /\ Mishap
  /\ links[d].requests = <<>> /\ links[d].replies = <<>>
  /\ client' = [client EXCEPT ![d] = NewClient]
  /\ links' = [links EXCEPT ![d].up = FALSE]
  /\ DroppedTickets(closed.dropped, {})
  /\ UNCHANGED <<outgoing, transfer, incoming, back, connects, balancer,
                 sent, handled, lost>>

-----------------------------------------------------------------------------
(* The main thread of a server *)

Answered(d, replies) ==
  [links EXCEPT ![d].requests = Tail(@), ![d].replies = IF links[d].up THEN @ \o replies ELSE @]

\* IGMITIC_LOGIC_MESSAGE: the acknowledgement goes out first.
Receive(d) ==
  LET request == Head(links[d].requests)
      processed == [kind |-> "processed", number |-> request.number] IN
  /\ links[d].requests # <<>>
  /\ \/ /\ d \notin stopped
        /\ links' = Answered(d, <<processed>>)
        /\ transfer' = [transfer EXCEPT ![d] =
             Append(@, [id |-> request.id, asked |-> FALSE, socket |-> connects[d]])]
        /\ UNCHANGED lost
     \/ /\ d \in stopped
        /\ request.number <= MaxNumber
        /\ links' = Answered(d, <<processed, [kind |-> "bad_address", id |-> request.id,
                                              group |-> NoGroup, target |-> NoGroup]>>)
        /\ lost' = IF links[d].up THEN lost ELSE lost \cup {request.id}
        /\ UNCHANGED transfer
  /\ UNCHANGED <<new_outgoing, outgoing, incoming, back, client, connects, balancer,
                 sent, handled, logged, cache, mishaps>>

\* Group 0: replies to the sockets that are still there.
SendBack(d) ==
  LET There(e) == links[d].up /\ e.socket = connects[d]
      there == Only(back[d], {e \in ToSet(back[d]) : There(e)}) IN
  /\ back[d] # <<>>
  /\ back' = [back EXCEPT ![d] = <<>>]
  /\ links' = [links EXCEPT ![d].replies = @ \o
       [i \in DOMAIN there |->
         [kind |-> "bad_address", id |-> there[i].id, group |-> there[i].group,
          target |-> d]]]
  /\ lost' = lost \cup {e.id : e \in {x \in ToSet(back[d]) : ~There(x)}}
  /\ UNCHANGED <<new_outgoing, outgoing, transfer, incoming, client, connects, balancer,
                 sent, handled, logged, cache, mishaps>>

-----------------------------------------------------------------------------
(* Locations and groups *)

\* A location is unloaded and its assignment released.
ReleaseLocation(g, l) ==
  /\ l \in assigned[g] /\ Mishap
  /\ assigned' = [assigned EXCEPT ![g] = @ \ {l}]
  /\ owner' = [owner EXCEPT ![l] = IF @ = g THEN NoGroup ELSE @]
  /\ UNCHANGED <<queues, network, fates, cache, answers, unanswered, stopped, stops>>

\* UpdateLocationAddressCache, after an hour.
ForgetAddress(l) ==
  /\ cache[l] # NoGroup /\ Mishap
  /\ cache' = [cache EXCEPT ![l] = NoGroup]
  /\ UNCHANGED <<queues, network, fates, answers, unanswered, assigned, owner, stopped, stops>>

\* The heartbeat of the group is overdue: DropAllPendingLogicMessages sends
\* what came in back and drops what goes out, but empties neither queue.
Stop(g) ==
  LET in == incoming[g] \o transfer[g]
      queued == IF g = Sender THEN UNION {IdsOf(client[d].out) : d \in Group} ELSE {} IN
  /\ g \notin stopped
  /\ mishaps = 0 /\ mishaps' = MaxMishaps
  /\ Len(in \o For(g, new_outgoing \o outgoing, <<>>)) + Cardinality(queued) <= MaxPending
  /\ stops' = stops + 1
  /\ stopped' = stopped \cup {g}
  /\ assigned' = [assigned EXCEPT ![g] = {}]
  /\ owner' = [l \in Location |-> IF owner[l] = g THEN NoGroup ELSE owner[l]]
  /\ transfer' = [transfer EXCEPT ![g] = <<>>]
  /\ incoming' = [incoming EXCEPT ![g] = in]
  /\ back' = [back EXCEPT ![g] = @ \o [i \in DOMAIN in |->
       [id |-> in[i].id, socket |-> in[i].socket, group |-> NoGroup]]]
  /\ client' = IF g = Sender THEN [d \in Group |-> DropTickets(client[d]).client] ELSE client
  /\ logged' = logged \cup queued \cup For(g, Ids(outgoing), {})
  /\ UNCHANGED <<new_outgoing, outgoing, links, connects, answers, unanswered,
                 sent, handled, lost, cache>>

\* CanCloseGently: with nothing queued the group starts again.
Reanimate(g) ==
  /\ g \in stopped /\ assigned[g] = {}
  /\ transfer[g] = <<>> /\ incoming[g] = <<>>
  /\ For(g, new_outgoing \o outgoing, <<>>) = <<>>
  /\ stopped' = stopped \ {g}
  /\ UNCHANGED <<queues, network, fates, cache, answers, unanswered, assigned, owner, stops, mishaps>>

-----------------------------------------------------------------------------
Init ==
  /\ sent = 0
  /\ new_outgoing = <<>> /\ outgoing = <<>> /\ cache = Nowhere
  /\ client = [d \in Group |-> NewClient]
  /\ transfer = [g \in Group |-> <<>>] /\ incoming = [g \in Group |-> <<>>]
  /\ back = [g \in Group |-> <<>>]
  /\ links = [d \in Group |-> [up |-> FALSE, requests |-> <<>>, replies |-> <<>>]]
  /\ connects = [d \in Group |-> 0]
  /\ answers = [g \in Group |-> <<>>] /\ unanswered = {}
  /\ owner = Nowhere /\ assigned = [g \in Group |-> {}]
  /\ stopped = {} /\ stops = 0 /\ mishaps = 0
  /\ handled = [m \in Message |-> 0] /\ logged = {} /\ lost = {}

Next ==
  \/ AddOutgoing
  \/ \E g \in Group : IntervalMSecond(g) \/ LoseAnswer(g) \/ AddressResponse(g)
                      \/ Stop(g) \/ Reanimate(g)
  \/ \E g \in Group, l \in Location : ReleaseLocation(g, l)
  \/ \E l \in Location : ForgetAddress(l)
  \/ \E d \in Group :
       \/ CloseConnection(d) \/ Flush(d) \/ DropDueTickets(d)
       \/ Acknowledge(d) \/ BadAddress(d) \/ CloseIdle(d) \/ Receive(d) \/ SendBack(d)

Spec == Init /\ [][Next]_vars

-----------------------------------------------------------------------------
(* Properties *)

\* The message is queued, or in a ticket, or on its way.
UnderWay(m) ==
  \/ m \in Ids(new_outgoing \o outgoing)
  \/ \E g \in Group :
       \/ m \in Ids(transfer[g] \o incoming[g] \o back[g])
       \/ m \in IdsOf(client[g].out \o client[g].wait)
       \/ m \in Ids(links[g].requests) \cup IdsIn(links[g].replies)

\* No message disappears: until an engine has handled it or it is logged as
\* dropped (LogDroppedLogicMessage) somebody has it, however often it changes
\* queues, threads and servers.  Lost are only those returned over a
\* connection that ended, or handed to a group that has stopped.
NoMessageVanishes ==
  \A i \in 1..sent :
    LET m == Messages[i] IN UnderWay(m) \/ handled[m] > 0 \/ m \in logged \cup lost

\* Where a message is, once for each copy: a ticket that waits is none, its
\* message is on the connection or has arrived.
Copies(m) ==
  LET at(queue, g, entries) ==
        {<<queue, g, i>> : i \in {j \in DOMAIN entries : entries[j].id = m}}
      returning(g) == {i \in DOMAIN links[g].replies :
                         links[g].replies[i].kind = "bad_address" /\ links[g].replies[i].id = m}
      ticket(g) == {i \in DOMAIN client[g].out : client[g].out[i].data = m}
  IN at("new_outgoing", Sender, new_outgoing) \cup at("outgoing", Sender, outgoing)
     \cup {<<"handled", Sender, i>> : i \in 1..handled[m]}
     \cup {<<"logged", Sender, 1>> : x \in logged \cap {m}}
     \cup UNION {at("transfer", g, transfer[g]) \cup at("incoming", g, incoming[g])
                 \cup at("back", g, back[g]) \cup at("requests", g, links[g].requests)
                 \cup {<<"replies", g, i>> : i \in returning(g)}
                 \cup {<<"tickets", g, i>> : i \in ticket(g)} : g \in Group}

Undisturbed ==
  stops = 0 /\ \A d \in Group : connects[d] = IF links[d].up THEN 1 ELSE 0

\* While no connection has ended and no group has stopped a message that was
\* sent is in exactly one place: it is not handled twice, nor handled and
\* logged as dropped, though answers of the balancer come for both queues.
NoMessageIsCopied == Undisturbed => \A i \in 1..sent : Cardinality(Copies(Messages[i])) = 1

\* "Tickety o tym samym 'stable_sequence_identifier' zawsze beda nadawane w
\* kolejnosci ich wyslania" (gnet_helpers.h): the tickets for one location go
\* to a server in the order they were first queued, though some are sent again.
StableSequence ==
  \A d \in Group :
    LET tickets == client[d].wait \o client[d].out IN
    \A i, j \in DOMAIN tickets :
      i < j /\ tickets[i].sequence = tickets[j].sequence => tickets[i].order < tickets[j].order

\* A message that waits for an address is not forgotten: an answer for its
\* location is on its way, unless one was lost.
WaitersAreAsked ==
  \A g \in Group : \A l \in Asked(incoming[g]) \cup For(g, Asked(outgoing), {}) :
    <<g, l>> \in unanswered \/ \E i \in DOMAIN answers[g] : answers[g][i].location = l
=============================================================================
