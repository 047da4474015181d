-------------------------- MODULE RegistrationProofs --------------------------
(***************************************************************************)
(* Proofs about Registration: tickets go out in the order of their         *)
(* numbers, and while a group and the access service are connected no      *)
(* connected player is missed.                                             *)
(*                                                                         *)
(* An acknowledgement erases a queued ticket with its number, if there is  *)
(* one (PreProcessMessage).  There is none: a number that is on a link is  *)
(* below those of all the tickets to send, because what is sent again gets *)
(* a new number.                                                           *)
(***************************************************************************)
EXTENDS Registration, TicketsProofs

\* A player of whom a ticket says that it left has left.
Leaves(data, pl) == data.kind = "unregister" => pl[data.player] = "left"

LinkOK(k, c, pl) ==
  /\ \A m \in ToSet(k.requests) : m.kind = "ticket" => Past(m.number, c) /\ Leaves(m.data, pl)
  /\ \A m \in ToSet(k.replies) : m.kind = "processed" => Past(m.number, c)

Typed ==
  /\ player \in [Player -> {"new", "connected", "left"}]
  /\ links \in Seq(Link)
  /\ connects \in 0..MaxConnects
  /\ instances \in [Player -> Nat]

ClientTold ==
  /\ ClientOK(client, TicketData, {NoSequence})
  /\ \A t \in ToSet(client.out) \cup ToSet(client.wait) : Leaves(t.data, player)

LinksPast == \A k \in ToSet(links) : LinkOK(k, client, player)

RegistrationInv == Typed /\ ClientTold /\ LinksPast

-----------------------------------------------------------------------------
(* Links *)

LEMMA LinkGrows ==
  ASSUME NEW k \in Link, NEW c, NEW d, NEW pl, NEW ql, LinkOK(k, c, pl),
         ClientOK(c, TicketData, {NoSequence}), ClientOK(d, TicketData, {NoSequence}),
         Grows(c, d), \A p \in Player : pl[p] = "left" => ql[p] = "left"
  PROVE  LinkOK(k, d, ql)
<1>1. ToSet(k.requests) \subseteq Request /\ ToSet(k.replies) \subseteq Reply
  <2>1. k.requests \in Seq(Request) /\ k.replies \in Seq(Reply)
    BY DEF Link
  <2> QED
    BY <2>1, ElementsAreTyped
<1>2. \A n \in Nat : Past(n, c) => Past(n, d)
  BY TicketsAreTyped DEF Past, Grows
<1>3. \A m \in ToSet(k.requests) : m.kind = "ticket" => m.number \in Nat /\ m.data \in TicketData
  BY <1>1 DEF Request
<1>4. \A m \in ToSet(k.replies) : m.kind = "processed" => m.number \in Nat
  BY <1>1 DEF Reply
<1>5. \A data \in TicketData : Leaves(data, pl) => Leaves(data, ql)
  BY DEF Leaves, TicketData, Register, Unregister
<1> QED
  BY <1>2, <1>3, <1>4, <1>5 DEF LinkOK

\* One link of a sequence becomes another.
Replaced(ls, i, k) == [ls EXCEPT ![i] = k]

LEMMA OfReplaced ==
  ASSUME NEW ls \in Seq(Link), NEW i \in DOMAIN ls, NEW k \in Link
  PROVE  /\ Replaced(ls, i, k) \in Seq(Link) /\ Len(Replaced(ls, i, k)) = Len(ls)
         /\ Replaced(ls, i, k)[i] = k
         /\ ToSet(Replaced(ls, i, k)) \subseteq ToSet(ls) \cup {k}
         /\ Len(ls) <= 1 => \A x \in ToSet(Replaced(ls, i, k)) : x = k
<1> DEFINE ms == Replaced(ls, i, k)
<1>1. ms \in Seq(Link) /\ Len(ms) = Len(ls) /\ DOMAIN ms = DOMAIN ls
  BY DEF Replaced
<1>2. ms[i] = k /\ \A j \in DOMAIN ls : j # i => ms[j] = ls[j]
  BY DEF Replaced
<1> HIDE DEF ms
<1>3. ToSet(ms) \subseteq ToSet(ls) \cup {k}
  BY <1>1, <1>2 DEF ToSet
<1>4. ASSUME Len(ls) <= 1
      PROVE  \A x \in ToSet(ms) : x = k
  <2>1. \A j \in DOMAIN ls : j = i
    BY <1>4
  <2> QED
    BY <1>1, <1>2, <2>1 DEF ToSet
<1> QED
  BY <1>1, <1>2, <1>3, <1>4 DEF ms

LEMMA OfHeld ==
  ASSUME NEW ls \in Seq(Link)
  PROVE  /\ Held(ls) \in Seq(Link)
         /\ ToSet(Held(ls)) \subseteq ToSet(ls)
         /\ Len(ls) <= 1 => Len(Held(ls)) <= 1
<1> DEFINE S == {k \in ToSet(ls) : k.open \/ k.served}
<1>1. Held(ls) = Only(ls, S)
  BY DEF Held
<1> HIDE DEF S
<1>2. /\ Held(ls) \in Seq(Link) /\ IsSubsequence(Held(ls), ls)
      /\ ToSet(Held(ls)) = ToSet(ls) \cap S
  BY <1>1, OnlyElements
<1> DEFINE part == Held(ls)
<1> HIDE DEF part
<1>3. ASSUME Len(ls) <= 1, Len(part) > 1
      PROVE  FALSE
  <2>1. PICK f : Embeds(f, part, ls)
    BY <1>2 DEF IsSubsequence, part
  <2>2. 1 \in DOMAIN part /\ 2 \in DOMAIN part
    BY <1>2, <1>3 DEF part
  <2>3. f[1] \in DOMAIN ls /\ f[2] \in DOMAIN ls /\ f[1] < f[2]
    BY <2>1, <2>2 DEF Embeds
  <2> QED
    BY <1>3, <2>3
<1>4. Len(part) \in Nat
  BY <1>2 DEF part
<1> QED
  BY <1>2, <1>3, <1>4 DEF part

\* The newest link is one of the links.
LEMMA NewestIsLink ==
  ASSUME NEW ls \in Seq(Link), ls # <<>>
  PROVE  Len(ls) \in DOMAIN ls /\ ls[Len(ls)] \in ToSet(ls) /\ ls[Len(ls)] \in Link
<1>1. Len(ls) \in DOMAIN ls
  BY DEF ToSet
<1> QED
  BY <1>1, ElementsAreTyped

LEMMA LinksGrow ==
  ASSUME NEW ls \in Seq(Link), NEW c, NEW d, NEW pl, NEW ql,
         \A x \in ToSet(ls) : LinkOK(x, c, pl),
         ClientOK(c, TicketData, {NoSequence}), ClientOK(d, TicketData, {NoSequence}),
         Grows(c, d), \A p \in Player : pl[p] = "left" => ql[p] = "left"
  PROVE  \A x \in ToSet(ls) : LinkOK(x, d, ql)
<1> SUFFICES ASSUME NEW x \in ToSet(ls)
             PROVE  LinkOK(x, d, ql)
  OBVIOUS
<1>1. x \in Link
  BY ElementsAreTyped
<1> QED
  BY <1>1, LinkGrows

-----------------------------------------------------------------------------
(* The actions keep RegistrationInv *)

LEMMA Registers ==
  ASSUME RegistrationInv, NEW p \in Player, ServicesRegister(p) \/ ServicesUnregister(p)
  PROVE  /\ RegistrationInv'
         /\ UNCHANGED <<links, instances>>
         /\ ToSet(client.out) \subseteq ToSet(client'.out)
         /\ \A q \in Player :
              player'[q] = "connected" =>
                player[q] = "connected" \/ \E t \in ToSet(client'.out) : t.data = Register(q)
<1>1. PICK data \in TicketData :
        /\ client' = AddTicket(client, data, NoSequence)
        /\ Leaves(data, player')
        /\ \A q \in Player :
             player'[q] = "connected" => player[q] = "connected" \/ data = Register(q)
  BY DEF ServicesRegister, ServicesUnregister, TicketData, Register, Unregister, Leaves,
         RegistrationInv, Typed
<1>2. /\ player' \in [Player -> {"new", "connected", "left"}]
      /\ \A q \in Player : player[q] = "left" => player'[q] = "left"
      /\ UNCHANGED <<links, connects, instances>>
  BY DEF ServicesRegister, ServicesUnregister, RegistrationInv, Typed
<1>3. NoSequence \in {NoSequence} /\ ClientOK(client, TicketData, {NoSequence})
  BY DEF RegistrationInv, ClientTold
<1>4. /\ ClientOK(client', TicketData, {NoSequence})
      /\ client'.wait = client.wait
      /\ client'.sequence_number = client.sequence_number + 1
      /\ ToSet(client'.out)
           = ToSet(client.out) \cup {Ticket(data, NoSequence, client.sequence_number)}
  <2>1. ClientOK(client', TicketData, {NoSequence}) /\ AddedTo(client, client', data, NoSequence)
    BY <1>1, <1>3, AddTicketOK
  <2> QED
    BY <2>1 DEF AddedTo
<1> DEFINE t == Ticket(data, NoSequence, client.sequence_number)
<1>5. t.data = data /\ t.number = client.sequence_number
  BY DEF Ticket
<1> HIDE DEF t
<1>6. Typed'
  BY <1>2 DEF Typed, RegistrationInv
<1>7. ClientTold'
  <2>1. \A u \in ToSet(client.out) \cup ToSet(client.wait) : Leaves(u.data, player')
    <3>1. \A u \in ToSet(client.out) \cup ToSet(client.wait) :
            u.data \in TicketData /\ Leaves(u.data, player)
      BY <1>3, TicketsAreTyped DEF RegistrationInv, ClientTold
    <3> QED
      BY <1>2, <3>1 DEF Leaves, TicketData, Register, Unregister
  <2> QED
    BY <1>1, <1>4, <1>5, <2>1 DEF ClientTold, t
<1>8. LinksPast'
  <2>1. Grows(client, client')
    <3>1. client.sequence_number \in Nat
      BY <1>3, TicketsAreTyped
    <3> QED
      BY <1>4, <1>5, <3>1 DEF Grows, t
  <2>2. links \in Seq(Link) /\ \A k \in ToSet(links) : LinkOK(k, client, player)
    BY DEF RegistrationInv, Typed, LinksPast
  <2>3. \A k \in ToSet(links) : LinkOK(k, client', player')
    BY <1>2, <1>3, <1>4, <2>1, <2>2, LinksGrow
  <2> QED
    BY <1>2, <2>3 DEF LinksPast
<1>9. /\ ToSet(client.out) \subseteq ToSet(client'.out)
      /\ \A q \in Player :
           player'[q] = "connected" =>
             player[q] = "connected" \/ \E u \in ToSet(client'.out) : u.data = Register(q)
  BY <1>1, <1>4, <1>5 DEF t
<1> QED
  BY <1>2, <1>6, <1>7, <1>8, <1>9 DEF RegistrationInv

LEMMA Connects ==
  ASSUME RegistrationInv, Connect
  PROVE  RegistrationInv'
<1> DEFINE k == [open |-> TRUE, served |-> TRUE, named |-> FALSE, accepted |-> FALSE,
                 requests |-> <<[kind |-> "connect"]>>, replies |-> <<>>]
<1>1. links' = Append(links, k) /\ UNCHANGED <<player, client, instances>>
  BY DEF Connect
<1>2. k \in Link
  <2>1. [kind |-> "connect"] \in Request
    BY DEF Request
  <2> QED
    BY <2>1 DEF Link
<1>3. LinkOK(k, client, player)
  BY DEF LinkOK, ToSet
<1>4. connects' \in 0..MaxConnects
  BY RegistrationAssumption DEF Connect, RegistrationInv, Typed
<1> HIDE DEF k
<1>5. links' \in Seq(Link) /\ ToSet(links') = ToSet(links) \cup {k}
  BY <1>1, <1>2, OfAppend DEF RegistrationInv, Typed
<1>6. Typed'
  BY <1>1, <1>4, <1>5 DEF Typed, RegistrationInv
<1>7. ClientTold' /\ LinksPast'
  BY <1>1, <1>3, <1>5 DEF RegistrationInv, ClientTold, LinksPast
<1> QED
  BY <1>6, <1>7 DEF RegistrationInv

\* What CloseConnection makes of the newest link.
Closed(k, n) ==
  [k EXCEPT !.open = FALSE, !.replies = <<>>, !.requests = SubSeq(@, 1, n)]

LEMMA Closes ==
  ASSUME RegistrationInv, CloseConnection
  PROVE  /\ RegistrationInv'
         /\ Len(links) <= 1 => Len(links') <= 1 /\ \A l \in ToSet(links') : ~l.open
<1>1. links \in Seq(Link) /\ links # <<>> /\ Newest = Len(links)
  BY DEF CloseConnection, IsOpen, RegistrationInv, Typed, Newest
<1> DEFINE i == Newest
<1>2. i \in DOMAIN links /\ links[i] \in ToSet(links) /\ links[i] \in Link
  BY <1>1, NewestIsLink
<1>3. PICK n \in 0..Len(links[i].requests) :
        links' = Held(Replaced(links, i, Closed(links[i], n)))
  <2>1. PICK n \in 0..Len(links[i].requests) :
          links' = Held([links EXCEPT ![i].open = FALSE, ![i].replies = <<>>,
                                      ![i].requests = SubSeq(@, 1, n)])
    BY DEF CloseConnection
  <2>2. [links EXCEPT ![i].open = FALSE, ![i].replies = <<>>, ![i].requests = SubSeq(@, 1, n)]
          = Replaced(links, i, Closed(links[i], n))
    BY <1>1, <1>2 DEF Replaced, Closed
  <2> QED
    BY <2>1, <2>2
<1> DEFINE k == Closed(links[i], n)
<1>4. /\ links[i].requests \in Seq(Request)
      /\ k.replies = <<>> /\ k.requests = SubSeq(links[i].requests, 1, n)
  BY <1>2 DEF Link, Closed
<1>5. k.requests \in Seq(Request) /\ ToSet(k.requests) \subseteq ToSet(links[i].requests)
  <2>1. 1 \in Nat \ {0} /\ n \in Nat /\ n <= Len(links[i].requests)
    BY <1>4
  <2> QED
    BY <1>4, <2>1, OfPart, PartElements
<1>6. k \in Link /\ ~k.open
  <2> DEFINE x == links[i]
             r == SubSeq(x.requests, 1, n)
  <2>1. x \in Link /\ r \in Seq(Request) /\ <<>> \in Seq(Reply)
    BY <1>2, <1>4, <1>5
  <2>2. k = [x EXCEPT !.open = FALSE, !.replies = <<>>, !.requests = r]
    BY DEF Closed
  <2> HIDE DEF r, x, k
  <2> QED
    BY <2>1, <2>2 DEF Link
<1> HIDE DEF k
<1>7. LinkOK(k, client, player)
  <2>1. LinkOK(links[i], client, player)
    BY <1>2 DEF RegistrationInv, LinksPast
  <2>2. ToSet(k.replies) = {}
    BY <1>4 DEF ToSet
  <2> QED
    BY <1>5, <2>1, <2>2 DEF LinkOK
<1>8. /\ links' \in Seq(Link) /\ ToSet(links') \subseteq ToSet(links) \cup {k}
      /\ Len(links) <= 1 => Len(links') <= 1 /\ \A l \in ToSet(links') : l = k
  <2> DEFINE ls == Replaced(links, i, k)
  <2>1. /\ ls \in Seq(Link) /\ Len(ls) = Len(links)
        /\ ToSet(ls) \subseteq ToSet(links) \cup {k}
        /\ Len(links) <= 1 => \A x \in ToSet(ls) : x = k
    BY <1>1, <1>2, <1>6, OfReplaced
  <2>2. links' = Held(ls)
    BY <1>3 DEF k
  <2> HIDE DEF ls
  <2> QED
    BY <2>1, <2>2, OfHeld
<1>9. UNCHANGED <<player, client, connects, instances>>
  BY DEF CloseConnection
<1>10. Typed' /\ ClientTold' /\ LinksPast'
  BY <1>7, <1>8, <1>9 DEF RegistrationInv, Typed, ClientTold, LinksPast
<1> QED
  BY <1>6, <1>8, <1>10 DEF RegistrationInv

\* What Accept makes of the newest link.
Introduced(k, players) ==
  [k EXCEPT !.replies = Tail(@), !.accepted = TRUE,
            !.requests = Append(@, [kind |-> "players", players |-> players])]

LEMMA Accepts ==
  ASSUME RegistrationInv, Accept
  PROVE  /\ RegistrationInv'
         /\ \E k \in Link : \E m \in ToSet(k.requests) :
              /\ links' = Replaced(links, Newest, k)
              /\ m.kind = "players" /\ m.players = Connected
<1>1. links \in Seq(Link) /\ links # <<>> /\ Newest = Len(links) /\ links[Newest].replies # <<>>
  BY DEF Accept, IsOpen, RegistrationInv, Typed, Newest
<1> DEFINE i == Newest
           x == links[i]
           m == [kind |-> "players", players |-> Connected]
           k == Introduced(x, Connected)
<1>2. i \in DOMAIN links /\ x \in ToSet(links) /\ x \in Link
  BY <1>1, NewestIsLink
<1>3. links' = Replaced(links, i, k)
  <2>1. links' = [links EXCEPT ![i].replies = Tail(@), ![i].accepted = TRUE,
                               ![i].requests = Append(@, m)]
    BY DEF Accept, PlayersOfGroup
  <2> QED
    BY <1>1, <1>2, <2>1 DEF Replaced, Introduced
<1>4. m \in Request
  BY DEF Request, Connected
<1>5. x.requests \in Seq(Request) /\ x.replies \in Seq(Reply) /\ LinkOK(x, client, player)
  BY <1>2 DEF Link, RegistrationInv, LinksPast
<1> DEFINE q == Append(x.requests, m)
           r == Tail(x.replies)
<1>6. k = [x EXCEPT !.replies = r, !.accepted = TRUE, !.requests = q]
  BY DEF Introduced
<1>7. m.kind = "players" /\ m.players = Connected
  OBVIOUS
<1>8. x.replies # <<>>
  BY <1>1
<1> HIDE DEF m, k, x
<1>9. q \in Seq(Request) /\ ToSet(q) = ToSet(x.requests) \cup {m}
  BY <1>4, <1>5, OfAppend
<1>10. r \in Seq(Reply) /\ ToSet(r) \subseteq ToSet(x.replies)
  BY <1>5, <1>8, OfTail
<1> HIDE DEF q, r
<1>11. k \in Link /\ k.requests = q /\ k.replies = r
  BY <1>2, <1>6, <1>9, <1>10 DEF Link
<1>12. LinkOK(k, client, player)
  BY <1>5, <1>7, <1>9, <1>10, <1>11 DEF LinkOK
<1>13. links' \in Seq(Link) /\ ToSet(links') \subseteq ToSet(links) \cup {k}
  BY <1>1, <1>2, <1>3, <1>11, OfReplaced
<1>14. UNCHANGED <<player, client, connects, instances>>
  BY DEF Accept
<1>15. Typed' /\ ClientTold' /\ LinksPast'
  BY <1>12, <1>13, <1>14 DEF RegistrationInv, Typed, ClientTold, LinksPast
<1>16. m \in ToSet(k.requests)
  BY <1>9, <1>11
<1> QED
  BY <1>3, <1>7, <1>11, <1>15, <1>16 DEF RegistrationInv

LEMMA AcknowledgedClient ==
  ASSUME RegistrationInv, NEW number \in Nat, Past(number, client),
         client' = PreProcessMessage(client, number, {}).client, UNCHANGED player
  PROVE  /\ ClientTold'
         /\ Grows(client, client')
         /\ ToSet(client.out) \subseteq ToSet(client'.out)
<1> DEFINE e == PreProcessMessage(client, number, {})
<1>1. ClientOK(client, TicketData, {NoSequence})
  BY DEF RegistrationInv, ClientTold
<1>2. Acknowledges(client, number, e, TicketData, {NoSequence})
  BY <1>1, PreProcessMessageOK
<1> HIDE DEF e
<1>3. client' = e.client
  BY DEF e
<1>4. ToSet(client.out) \subseteq ToSet(client'.out)
  <2> SUFFICES ASSUME NEW t \in ToSet(client.out)
               PROVE  t \in ToSet(client'.out)
    OBVIOUS
  <2>1. t.number \in Nat /\ number < t.number
    BY <1>1, TicketsAreTyped DEF Past
  <2> QED
    BY <1>2, <1>3, <2>1 DEF Acknowledges
<1>5. Grows(client, client')
  BY <1>2, <1>3 DEF Acknowledges, Grows
<1>6. \A t \in ToSet(client'.out) \cup ToSet(client'.wait) :
        \E u \in ToSet(client.out) \cup ToSet(client.wait) : t.data = u.data
  BY <1>2, <1>3 DEF Acknowledges
<1>7. \A t \in ToSet(client'.out) \cup ToSet(client'.wait) : Leaves(t.data, player')
  BY <1>6 DEF RegistrationInv, ClientTold, Leaves
<1>8. ClientTold'
  BY <1>2, <1>3, <1>7 DEF Acknowledges, ClientTold
<1> QED
  BY <1>4, <1>5, <1>8

\* The link is as open, served and accepted as it was.
Same(x, k) == k.open = x.open /\ k.served = x.served /\ k.accepted = x.accepted

\* What Acknowledge makes of the newest link.
Answered(k) == [k EXCEPT !.replies = Tail(@)]

LEMMA IsAcknowledged ==
  ASSUME RegistrationInv, Acknowledge
  PROVE  /\ RegistrationInv'
         /\ \E k \in Link :
              /\ links' = Replaced(links, Newest, k)
              /\ Same(links[Newest], k) /\ k.requests = links[Newest].requests
         /\ ToSet(client.out) \subseteq ToSet(client'.out)
<1>1. /\ links \in Seq(Link) /\ links # <<>> /\ Newest = Len(links)
      /\ links[Newest].replies # <<>> /\ Head(links[Newest].replies).kind = "processed"
  BY DEF Acknowledge, IsOpen, RegistrationInv, Typed, Newest
<1> DEFINE i == Newest
           x == links[i]
           k == Answered(x)
<1>2. i \in DOMAIN links /\ x \in ToSet(links) /\ x \in Link
  BY <1>1, NewestIsLink
<1>3. links' = Replaced(links, i, k)
  BY <1>1, <1>2 DEF Acknowledge, Replaced, Answered
<1>4. x.requests \in Seq(Request) /\ x.replies \in Seq(Reply) /\ LinkOK(x, client, player)
  BY <1>2 DEF Link, RegistrationInv, LinksPast
<1> DEFINE r == Tail(x.replies)
           number == Head(x.replies).number
<1>5. k = [x EXCEPT !.replies = r] /\ client' = PreProcessMessage(client, number, {}).client
  BY DEF Answered, Acknowledge
<1>6. x.replies # <<>> /\ Head(x.replies).kind = "processed"
  BY <1>1
<1> HIDE DEF k, x
<1>7. /\ r \in Seq(Reply) /\ ToSet(r) \subseteq ToSet(x.replies)
      /\ Head(x.replies) \in ToSet(x.replies) /\ Head(x.replies) \in Reply
  BY <1>4, <1>6, OfTail, ElementsAreTyped
<1>8. number \in Nat /\ Past(number, client)
  BY <1>4, <1>6, <1>7 DEF LinkOK, Reply
<1> HIDE DEF r, number
<1>9. k \in Link /\ k.requests = x.requests /\ k.replies = r /\ Same(x, k)
  BY <1>2, <1>5, <1>7 DEF Link, Same
<1>10. LinkOK(k, client, player)
  BY <1>4, <1>7, <1>9 DEF LinkOK
<1>11. links' \in Seq(Link) /\ ToSet(links') \subseteq ToSet(links) \cup {k}
  BY <1>1, <1>2, <1>3, <1>9, OfReplaced
<1>12. UNCHANGED <<player, connects, instances>>
  BY DEF Acknowledge
<1>13. /\ ClientTold' /\ Grows(client, client')
       /\ ToSet(client.out) \subseteq ToSet(client'.out)
  BY <1>5, <1>8, <1>12, AcknowledgedClient
<1>14. Typed'
  BY <1>11, <1>12 DEF RegistrationInv, Typed
<1>15. LinksPast'
  <2>1. \A l \in ToSet(links') : LinkOK(l, client, player)
    BY <1>10, <1>11 DEF RegistrationInv, LinksPast
  <2>2. /\ ClientOK(client, TicketData, {NoSequence})
        /\ ClientOK(client', TicketData, {NoSequence})
    BY <1>13 DEF RegistrationInv, ClientTold
  <2>3. \A p \in Player : player[p] = "left" => player'[p] = "left"
    BY <1>12
  <2>4. \A l \in ToSet(links') : LinkOK(l, client', player')
    BY <1>11, <1>13, <2>1, <2>2, <2>3, LinksGrow
  <2> QED
    BY <2>4 DEF LinksPast
<1> QED
  BY <1>3, <1>9, <1>13, <1>14, <1>15 DEF RegistrationInv, x

\* The tickets of a flush as they go out, and the newest link with them.
Requests(sent) ==
  [j \in DOMAIN sent |-> [kind |-> "ticket", number |-> sent[j].number, data |-> sent[j].data]]
Flushed(k, sent) == [k EXCEPT !.requests = @ \o Requests(sent)]

LEMMA RequestsAreTyped ==
  ASSUME NEW sent \in Seq(TicketOf(TicketData, {NoSequence}))
  PROVE  /\ Requests(sent) \in Seq(Request)
         /\ \A m \in ToSet(Requests(sent)) :
              \E t \in ToSet(sent) : m.number = t.number /\ m.data = t.data
         /\ \A t \in ToSet(sent) :
              \E m \in ToSet(Requests(sent)) : m.kind = "ticket" /\ m.data = t.data
<1>1. \A t \in TicketOf(TicketData, {NoSequence}) : t.number \in Nat /\ t.data \in TicketData
  BY DEF TicketOf
<1> DEFINE request(t) == [kind |-> "ticket", number |-> t.number, data |-> t.data]
           q == Requests(sent)
<1>2. \A t : /\ request(t).kind = "ticket"
             /\ request(t).number = t.number /\ request(t).data = t.data
             /\ t.number \in Nat /\ t.data \in TicketData => request(t) \in Request
  BY DEF Request
<1>3. q = [j \in DOMAIN sent |-> request(sent[j])]
  BY DEF Requests
<1>4. sent \in Seq(TicketOf(TicketData, {NoSequence}))
  OBVIOUS
<1> HIDE DEF request, q
<1>5. /\ DOMAIN sent = 1..Len(sent)
      /\ \A j \in DOMAIN sent : sent[j] \in TicketOf(TicketData, {NoSequence})
  BY <1>4
<1>6. q \in Seq(Request)
  <2>1. \A j \in 1..Len(sent) : request(sent[j]) \in Request
    BY <1>1, <1>2, <1>5
  <2>2. Len(sent) \in Nat /\ q = [j \in 1..Len(sent) |-> request(sent[j])]
    BY <1>3, <1>4
  <2> QED
    BY <2>1, <2>2
<1>7. \A m \in ToSet(q) : \E t \in ToSet(sent) : m.number = t.number /\ m.data = t.data
  BY <1>2, <1>3 DEF ToSet
<1>8. \A t \in ToSet(sent) : \E m \in ToSet(q) : m.kind = "ticket" /\ m.data = t.data
  BY <1>2, <1>3 DEF ToSet
<1> QED
  BY <1>6, <1>7, <1>8 DEF q

\* What flushing n tickets leaves of the client, and what it sends.
LEMMA FlushedClient ==
  ASSUME NEW c, NEW pl, NEW n \in 1..Len(c.out), ClientOK(c, TicketData, {NoSequence}),
         \A t \in ToSet(c.out) \cup ToSet(c.wait) : Leaves(t.data, pl)
  PROVE  /\ ClientOK(FlushTickets(c, n).client, TicketData, {NoSequence})
         /\ FlushTickets(c, n).sent \in Seq(TicketOf(TicketData, {NoSequence}))
         /\ Grows(c, FlushTickets(c, n).client)
         /\ \A t \in ToSet(FlushTickets(c, n).client.out)
                       \cup ToSet(FlushTickets(c, n).client.wait) : Leaves(t.data, pl)
         /\ \A t \in ToSet(FlushTickets(c, n).sent) :
              Past(t.number, FlushTickets(c, n).client) /\ Leaves(t.data, pl)
         /\ \A t \in ToSet(c.out) : \/ t \in ToSet(FlushTickets(c, n).client.out)
                                    \/ \E u \in ToSet(FlushTickets(c, n).sent) : u.data = t.data
<1> DEFINE d == FlushTickets(c, n).client
           sent == FlushTickets(c, n).sent
<1>1. n \in 0..Len(c.out)
  OBVIOUS
<1>2. /\ ClientOK(d, TicketData, {NoSequence})
      /\ d.sequence_number = c.sequence_number
      /\ sent \in Seq(TicketOf(TicketData, {NoSequence}))
      /\ ToSet(d.out) \subseteq ToSet(c.out)
      /\ \A t \in ToSet(d.wait) : t \in ToSet(c.wait) \/ t \in ToSet(sent)
      /\ AllBefore(ToSet(sent), ToSet(d.out))
      /\ \A t \in ToSet(sent) : \E u \in ToSet(c.out) : t.data = u.data /\ t.number = u.number
      /\ \A t \in ToSet(c.out) : t \in ToSet(d.out) \/ \E u \in ToSet(sent) : u.data = t.data
  <2> DEFINE Q == {NoSequence}
  <2>1. ClientOK(c, TicketData, Q)
    OBVIOUS
  <2> HIDE DEF Q
  <2>2. /\ ClientOK(d, TicketData, Q)
        /\ d.sequence_number = c.sequence_number
        /\ sent \in Seq(TicketOf(TicketData, Q))
    BY <1>1, <2>1, FlushTicketsOK
  <2>3. /\ ToSet(d.out) \subseteq ToSet(c.out)
        /\ \A t \in ToSet(d.wait) : t \in ToSet(c.wait) \/ t \in ToSet(sent)
        /\ AllBefore(ToSet(sent), ToSet(d.out))
    <3>1. ToSet(d.out) \subseteq ToSet(c.out)
      BY <1>1, <2>1, FlushTicketsOK
    <3>2. \A t \in ToSet(d.wait) : t \in ToSet(c.wait) \/ t \in ToSet(sent)
      BY <1>1, <2>1, FlushTicketsOK
    <3>3. AllBefore(ToSet(sent), ToSet(d.out))
      BY <1>1, <2>1, FlushTicketsOK
    <3> QED
      BY <3>1, <3>2, <3>3
  <2>4. \A t \in ToSet(sent) : \E u \in ToSet(c.out) : t.data = u.data /\ t.number = u.number
    <3> SUFFICES ASSUME NEW t \in ToSet(sent)
                 PROVE  \E u \in ToSet(c.out) : t.data = u.data /\ t.number = u.number
      OBVIOUS
    <3> QED
      BY <1>1, <2>1, FlushTicketsOK
  <2>5. \A t \in ToSet(c.out) : t \in ToSet(d.out) \/ \E u \in ToSet(sent) : u.data = t.data
    <3> SUFFICES ASSUME NEW t \in ToSet(c.out), t \notin ToSet(d.out)
                 PROVE  \E u \in ToSet(sent) : u.data = t.data
      OBVIOUS
    <3> QED
      BY <1>1, <2>1, FlushTicketsOK
  <2> QED
    BY <2>2, <2>3, <2>4, <2>5, Zenon DEF Q
<1> HIDE DEF d, sent
<1>3. Grows(c, d)
  <2>1. c.sequence_number \in Nat
    BY TicketsAreTyped
  <2> QED
    BY <1>2, <2>1 DEF Grows
<1>4. \A t \in ToSet(sent) : Past(t.number, d) /\ Leaves(t.data, pl)
  <2> SUFFICES ASSUME NEW t \in ToSet(sent)
               PROVE  Past(t.number, d) /\ Leaves(t.data, pl)
    OBVIOUS
  <2>1. t.number < d.sequence_number
    BY <1>2, TicketsAreTyped
  <2>2. \A u \in ToSet(d.out) : t.number < u.number
    BY <1>2 DEF AllBefore, Before
  <2> QED
    BY <1>2, <2>1, <2>2 DEF Past, Leaves
<1>5. \A t \in ToSet(d.out) \cup ToSet(d.wait) : Leaves(t.data, pl)
  BY <1>2, <1>4
<1> QED
  BY <1>2, <1>3, <1>4, <1>5 DEF d, sent

LEMMA Flushes ==
  ASSUME RegistrationInv, NEW n \in 1..Len(client.out), Flush(n)
  PROVE  /\ RegistrationInv'
         /\ \E k \in Link :
              /\ links' = Replaced(links, Newest, k)
              /\ Same(links[Newest], k)
              /\ ToSet(links[Newest].requests) \subseteq ToSet(k.requests)
              /\ \A t \in ToSet(client.out) :
                   \/ t \in ToSet(client'.out)
                   \/ \E m \in ToSet(k.requests) : m.kind = "ticket" /\ m.data = t.data
<1>1. links \in Seq(Link) /\ links # <<>> /\ Newest = Len(links)
  BY DEF Flush, IsOpen, RegistrationInv, Typed, Newest
<1> DEFINE i == Newest
           x == links[i]
           sent == FlushTickets(client, n).sent
           k == Flushed(x, sent)
<1>2. i \in DOMAIN links /\ x \in ToSet(links) /\ x \in Link
  BY <1>1, NewestIsLink
<1>3. links' = Replaced(links, i, k) /\ client' = FlushTickets(client, n).client
  BY <1>1, <1>2 DEF Flush, Replaced, Flushed, Requests
<1>4. UNCHANGED <<player, connects, instances>>
  BY DEF Flush
<1>5. /\ ClientOK(client', TicketData, {NoSequence})
      /\ sent \in Seq(TicketOf(TicketData, {NoSequence}))
      /\ Grows(client, client')
      /\ \A t \in ToSet(client'.out) \cup ToSet(client'.wait) : Leaves(t.data, player)
      /\ \A t \in ToSet(sent) : Past(t.number, client') /\ Leaves(t.data, player)
      /\ \A t \in ToSet(client.out) :
           t \in ToSet(client'.out) \/ \E u \in ToSet(sent) : u.data = t.data
  <2>1. /\ ClientOK(client, TicketData, {NoSequence})
        /\ \A t \in ToSet(client.out) \cup ToSet(client.wait) : Leaves(t.data, player)
    BY DEF RegistrationInv, ClientTold
  <2> QED
    BY <1>3, <2>1, FlushedClient, ZenonT(60)
<1>6. x.requests \in Seq(Request) /\ x.replies \in Seq(Reply) /\ LinkOK(x, client, player)
  BY <1>2 DEF Link, RegistrationInv, LinksPast
<1> DEFINE more == Requests(sent)
           q == x.requests \o more
<1>7. k = [x EXCEPT !.requests = q]
  BY DEF Flushed
<1>8. /\ more \in Seq(Request)
      /\ \A m \in ToSet(more) : \E t \in ToSet(sent) : m.number = t.number /\ m.data = t.data
      /\ \A t \in ToSet(sent) : \E m \in ToSet(more) : m.kind = "ticket" /\ m.data = t.data
  <2> HIDE DEF sent
  <2> QED
    BY <1>5, RequestsAreTyped
<1> HIDE DEF k, x, sent, more
<1>9. q \in Seq(Request) /\ ToSet(q) = ToSet(x.requests) \cup ToSet(more)
  BY <1>6, <1>8, OfConcatenation
<1> HIDE DEF q
<1>10. k \in Link /\ k.requests = q /\ k.replies = x.replies /\ Same(x, k)
  BY <1>2, <1>7, <1>9 DEF Link, Same
<1>11. \A p \in Player : player[p] = "left" => player'[p] = "left"
  BY <1>4
<1>12. ClientOK(client, TicketData, {NoSequence})
  BY DEF RegistrationInv, ClientTold
<1>13. LinkOK(k, client', player')
  <2>1. LinkOK(x, client', player')
    BY <1>2, <1>5, <1>6, <1>11, <1>12, LinkGrows
  <2>2. \A m \in ToSet(more) : Past(m.number, client') /\ Leaves(m.data, player')
    BY <1>4, <1>5, <1>8 DEF Leaves
  <2> QED
    BY <1>9, <1>10, <2>1, <2>2 DEF LinkOK
<1>14. \A l \in ToSet(links) : LinkOK(l, client', player')
  <2>1. \A l \in ToSet(links) : LinkOK(l, client, player)
    BY DEF RegistrationInv, LinksPast
  <2> QED
    BY <1>1, <1>5, <1>11, <1>12, <2>1, LinksGrow
<1>15. links' \in Seq(Link) /\ ToSet(links') \subseteq ToSet(links) \cup {k}
  BY <1>1, <1>2, <1>3, <1>10, OfReplaced
<1>16. Typed' /\ ClientTold' /\ LinksPast'
  BY <1>4, <1>5, <1>13, <1>14, <1>15 DEF RegistrationInv, Typed, ClientTold, LinksPast
<1>17. \A t \in ToSet(client.out) :
         \/ t \in ToSet(client'.out)
         \/ \E m \in ToSet(k.requests) : m.kind = "ticket" /\ m.data = t.data
  BY <1>5, <1>8, <1>9, <1>10
<1>18. ToSet(x.requests) \subseteq ToSet(k.requests)
  BY <1>9, <1>10
<1> QED
  BY <1>3, <1>10, <1>16, <1>17, <1>18 DEF RegistrationInv, x

\* What Read makes of a link.
ReadBy(k, replies) ==
  [k EXCEPT !.requests = Tail(@), !.named = TRUE,
            !.replies = IF k.open THEN @ \o replies ELSE @]

LEMMA Reads ==
  ASSUME RegistrationInv, NEW i \in DOMAIN links, Read(i)
  PROVE  /\ RegistrationInv'
         /\ \E k \in Link :
              /\ links' = Replaced(links, i, k)
              /\ Same(links[i], k)
              /\ \A p \in Player :
                   player[p] = "connected" =>
                     /\ instances[p] > 0 => instances'[p] > 0
                     /\ \A m \in ToSet(links[i].requests) :
                          \/ instances'[p] > 0 \/ m \in ToSet(k.requests)
                          \/ /\ ~(m.kind = "players" /\ p \in m.players)
                             /\ ~(m.kind = "ticket" /\ m.data = Register(p))
<1>1. links \in Seq(Link)
  BY DEF RegistrationInv, Typed
<1> DEFINE x == links[i]
           m == Head(x.requests)
<1>2. x \in ToSet(links) /\ x \in Link
  BY <1>1, ElementsAreTyped
<1>3. PICK replies :
        /\ links' = Replaced(links, i, ReadBy(x, replies))
        /\ replies \in Seq(Reply)
        /\ \A r \in ToSet(replies) :
             r.kind = "processed" => m.kind = "ticket" /\ r.number = m.number
  <2>1. PICK replies :
          /\ links' = [links EXCEPT ![i].requests = Tail(@), ![i].named = TRUE,
                                    ![i].replies = IF links[i].open THEN @ \o replies ELSE @]
          /\ \/ replies = <<[kind |-> "accept"]>>
             \/ replies = <<>>
             \/ replies = <<[kind |-> "processed", number |-> m.number]>> /\ m.kind = "ticket"
    BY DEF Read
  <2>2. links' = Replaced(links, i, ReadBy(x, replies))
    BY <1>1, <1>2, <2>1 DEF Replaced, ReadBy
  <2>3. x.requests # <<>> /\ x.requests \in Seq(Request)
    BY <1>2 DEF Read, Link
  <2>4. m \in Request
    BY <2>3
  <2>5. m.kind = "ticket" => m.number \in Nat
    BY <2>4 DEF Request
  <2> HIDE DEF m
  <2>6. CASE replies = <<[kind |-> "accept"]>>
    <3>1. [kind |-> "accept"] \in Reply /\ [kind |-> "accept"].kind = "accept"
      BY DEF Reply
    <3>2. replies \in Seq(Reply) /\ \A r \in ToSet(replies) : r = [kind |-> "accept"]
      BY <2>6, <3>1 DEF ToSet
    <3> QED
      BY <2>2, <3>1, <3>2
  <2>7. CASE replies = <<>>
    <3>1. replies \in Seq(Reply) /\ ToSet(replies) = {}
      BY <2>7 DEF ToSet
    <3> QED
      BY <2>2, <3>1
  <2>8. CASE replies = <<[kind |-> "processed", number |-> m.number]>> /\ m.kind = "ticket"
    <3> DEFINE a == [kind |-> "processed", number |-> m.number]
    <3>1. a \in Reply /\ a.number = m.number
      BY <2>5, <2>8 DEF Reply
    <3> HIDE DEF a
    <3>2. replies \in Seq(Reply) /\ \A r \in ToSet(replies) : r = a
      BY <2>8, <3>1 DEF ToSet, a
    <3> QED
      BY <2>2, <2>8, <3>1, <3>2
  <2> QED
    BY <2>1, <2>6, <2>7, <2>8
<1> DEFINE k == ReadBy(x, replies)
<1>4. /\ x.requests \in Seq(Request) /\ x.replies \in Seq(Reply)
      /\ LinkOK(x, client, player) /\ x.requests # <<>> /\ x.open \in BOOLEAN
  BY <1>2 DEF Link, RegistrationInv, LinksPast, Read
<1> DEFINE q == Tail(x.requests)
           r == IF x.open THEN x.replies \o replies ELSE x.replies
<1>5. k = [x EXCEPT !.requests = q, !.named = TRUE, !.replies = r]
  BY DEF ReadBy
<1> HIDE DEF k, x
<1>6. /\ q \in Seq(Request) /\ ToSet(x.requests) = ToSet(q) \cup {m}
      /\ m \in ToSet(x.requests) /\ m \in Request
  BY <1>4, OfTail, ElementsAreTyped
<1>7. r \in Seq(Reply) /\ ToSet(r) \subseteq ToSet(x.replies) \cup ToSet(replies)
  BY <1>3, <1>4, OfConcatenation
<1> HIDE DEF q, r
<1>8. k \in Link /\ k.requests = q /\ k.replies = r /\ Same(x, k)
  BY <1>2, <1>5, <1>6, <1>7 DEF Link, Same
<1>9. LinkOK(k, client, player)
  BY <1>3, <1>4, <1>6, <1>7, <1>8 DEF LinkOK
<1>10. links' \in Seq(Link) /\ ToSet(links') \subseteq ToSet(links) \cup {k}
  BY <1>1, <1>2, <1>3, <1>8, OfReplaced DEF k
<1>11. UNCHANGED <<player, client, connects>>
  BY DEF Read
<1>12. /\ instances' \in [Player -> Nat]
       /\ \A p \in Player :
            player[p] = "connected" =>
              /\ instances'[p] >= instances[p]
              /\ \/ instances'[p] > 0
                 \/ /\ ~(m.kind = "players" /\ p \in m.players)
                    /\ ~(m.kind = "ticket" /\ m.data = Register(p))
  <2>1. instances \in [Player -> Nat]
    BY DEF RegistrationInv, Typed
  <2>2. \/ m.kind = "connect" /\ UNCHANGED instances
        \/ /\ m.kind = "players"
           /\ instances' = [p \in Player |-> instances[p] + (IF p \in m.players THEN 1 ELSE 0)]
        \/ /\ m.kind = "ticket"
           /\ instances' = IF m.data.kind = "register" THEN Registered(m.data.player)
                           ELSE Unregistered(m.data.player)
    BY DEF Read, x
  <2>3. m.kind = "ticket" => Leaves(m.data, player) /\ m.data \in TicketData
    BY <1>4, <1>6 DEF LinkOK, Request
  <2> HIDE DEF m
  <2>4. CASE m.kind = "connect" /\ UNCHANGED instances
    BY <2>1, <2>4
  <2>5. CASE /\ m.kind = "players"
             /\ instances' = [p \in Player |-> instances[p] + (IF p \in m.players THEN 1 ELSE 0)]
    BY <2>1, <2>5
  <2>6. CASE m.kind = "ticket" /\ m.data.kind = "register"
    <3>1. PICK s \in Player : m.data = Register(s)
      BY <2>3, <2>6 DEF TicketData, Register, Unregister
    <3>2. instances' = [instances EXCEPT ![s] = @ + 1]
      BY <2>2, <2>6, <3>1 DEF Registered, Register
    <3>3. \A p \in Player : Register(p) = Register(s) => p = s
      BY DEF Register
    <3> QED
      BY <2>1, <2>6, <3>1, <3>2, <3>3
  <2>7. CASE m.kind = "ticket" /\ m.data.kind # "register"
    <3>1. PICK s \in Player : m.data = Unregister(s)
      BY <2>3, <2>7 DEF TicketData, Register, Unregister
    <3>2. instances' = [instances EXCEPT ![s] = IF @ = 0 THEN 0 ELSE @ - 1]
      BY <2>2, <2>7, <3>1 DEF Unregistered, Unregister
    <3>3. player[s] = "left"
      BY <2>3, <2>7, <3>1 DEF Leaves, Unregister
    <3>4. \A p \in Player : Register(p) # Unregister(s)
      BY DEF Register, Unregister
    <3> QED
      BY <2>1, <2>7, <3>1, <3>2, <3>3, <3>4
  <2> QED
    BY <2>2, <2>4, <2>5, <2>6, <2>7
<1>13. Typed' /\ ClientTold' /\ LinksPast'
  BY <1>9, <1>10, <1>11, <1>12 DEF RegistrationInv, Typed, ClientTold, LinksPast
<1>14. ASSUME NEW p \in Player, player[p] = "connected"
       PROVE  /\ instances[p] > 0 => instances'[p] > 0
              /\ \A w \in ToSet(x.requests) :
                   \/ instances'[p] > 0 \/ w \in ToSet(k.requests)
                   \/ /\ ~(w.kind = "players" /\ p \in w.players)
                      /\ ~(w.kind = "ticket" /\ w.data = Register(p))
  <2>1. instances[p] \in Nat /\ instances'[p] \in Nat /\ instances'[p] >= instances[p]
    BY <1>12, <1>14 DEF RegistrationInv, Typed
  <2>2. \A w \in ToSet(x.requests) : w \in ToSet(k.requests) \/ w = m
    BY <1>6, <1>8
  <2> QED
    BY <1>12, <1>14, <2>1, <2>2
<1>15. links' = Replaced(links, i, k)
  BY <1>3 DEF k
<1> QED
  BY <1>8, <1>13, <1>14, <1>15 DEF RegistrationInv, x

\* A link whose end the service has seen.
Ended(k) == [k EXCEPT !.served = FALSE, !.requests = <<>>]

LEMMA EndedLink ==
  ASSUME NEW k \in Link, NEW c, NEW pl, LinkOK(k, c, pl)
  PROVE  Ended(k) \in Link /\ LinkOK(Ended(k), c, pl) /\ ~Ended(k).served
<1>1. <<>> \in Seq(Request) /\ ToSet(<<>>) = {}
  BY DEF ToSet
<1>2. /\ Ended(k) \in Link /\ ~Ended(k).served
      /\ Ended(k).requests = <<>> /\ Ended(k).replies = k.replies
  BY <1>1 DEF Ended, Link
<1> QED
  BY <1>1, <1>2 DEF LinkOK

LEMMA Unregisters ==
  ASSUME RegistrationInv, NEW i \in DOMAIN links, UnregisterLogic(i)
  PROVE  /\ RegistrationInv'
         /\ Len(links) <= 1 => Len(links') <= 1 /\ \A l \in ToSet(links') : ~l.served
<1>1. links \in Seq(Link)
  BY DEF RegistrationInv, Typed
<1> DEFINE x == links[i]
           k == Ended(x)
           ls == Replaced(links, i, k)
<1>2. x \in ToSet(links) /\ x \in Link
  BY <1>1, ElementsAreTyped
<1>3. links' = Held(ls)
  BY <1>1, <1>2 DEF UnregisterLogic, Replaced, Ended
<1>4. k \in Link /\ LinkOK(k, client, player) /\ ~k.served
  BY <1>2, EndedLink DEF RegistrationInv, LinksPast
<1> HIDE DEF k
<1>5. /\ ls \in Seq(Link) /\ Len(ls) = Len(links)
      /\ ToSet(ls) \subseteq ToSet(links) \cup {k}
      /\ Len(links) <= 1 => \A l \in ToSet(ls) : l = k
  BY <1>1, <1>4, OfReplaced
<1> HIDE DEF ls
<1>6. /\ links' \in Seq(Link) /\ ToSet(links') \subseteq ToSet(ls)
      /\ Len(ls) <= 1 => Len(links') <= 1
  BY <1>3, <1>5, OfHeld
<1>7. UNCHANGED <<player, client, connects>> /\ instances' \in [Player -> Nat]
  BY DEF UnregisterLogic, RegistrationInv, Typed
<1>8. Typed' /\ ClientTold' /\ LinksPast'
  BY <1>4, <1>5, <1>6, <1>7 DEF RegistrationInv, Typed, ClientTold, LinksPast
<1> QED
  BY <1>4, <1>5, <1>6, <1>8 DEF RegistrationInv

LEMMA Restarts ==
  ASSUME RegistrationInv, Restart
  PROVE  /\ RegistrationInv'
         /\ \A k \in ToSet(links') : ~k.served
         /\ Len(links) <= 1 => Len(links') <= 1
<1>1. links \in Seq(Link)
  BY DEF RegistrationInv, Typed
<1> DEFINE ls == [i \in DOMAIN links |-> Ended(links[i])]
<1>2. links' = Held(ls)
  BY DEF Restart, Ended
<1>3. \A i \in DOMAIN links : links[i] \in ToSet(links) /\ links[i] \in Link
  BY <1>1, ElementsAreTyped
<1>4. \A i \in DOMAIN links :
        /\ Ended(links[i]) \in Link /\ ~Ended(links[i]).served
        /\ LinkOK(Ended(links[i]), client, player)
  BY <1>3, EndedLink DEF RegistrationInv, LinksPast
<1>5. ls \in Seq(Link) /\ Len(ls) = Len(links)
  <2>1. Len(links) \in Nat /\ DOMAIN links = 1..Len(links)
    BY <1>1
  <2> QED
    BY <1>4, <2>1
<1>6. \A k \in ToSet(ls) : ~k.served /\ LinkOK(k, client, player)
  BY <1>4 DEF ToSet
<1> HIDE DEF ls
<1>7. /\ links' \in Seq(Link) /\ ToSet(links') \subseteq ToSet(ls)
      /\ Len(ls) <= 1 => Len(links') <= 1
  BY <1>2, <1>5, OfHeld
<1>8. UNCHANGED <<player, client, connects>> /\ instances' \in [Player -> Nat]
  BY DEF Restart, RegistrationInv, Typed
<1>9. Typed' /\ ClientTold' /\ LinksPast'
  BY <1>6, <1>7, <1>8 DEF RegistrationInv, Typed, ClientTold, LinksPast
<1> QED
  BY <1>5, <1>6, <1>7, <1>9 DEF RegistrationInv

-----------------------------------------------------------------------------
(* Types, and the order of the tickets *)

LEMMA RegistrationInvStarts == Init => RegistrationInv
<1> SUFFICES ASSUME Init PROVE RegistrationInv
  OBVIOUS
<1>1. Typed
  BY RegistrationAssumption DEF Init, Typed
<1>2. /\ client = NewClient /\ links = <<>>
      /\ ToSet(NewClient.out) = {} /\ ToSet(NewClient.wait) = {} /\ ToSet(<<>>) = {}
  BY DEF Init, NewClient, ToSet
<1>3. ClientOK(NewClient, TicketData, {NoSequence})
  BY NewClientOK
<1> QED
  BY <1>1, <1>2, <1>3 DEF RegistrationInv, ClientTold, LinksPast

LEMMA RegistrationInvStays == RegistrationInv /\ [Next]_vars => RegistrationInv'
<1> SUFFICES ASSUME RegistrationInv, [Next]_vars
             PROVE  RegistrationInv'
  OBVIOUS
<1>1. ASSUME NEW p \in Player, ServicesRegister(p) \/ ServicesUnregister(p)
      PROVE  RegistrationInv'
  BY <1>1, Registers
<1>2. CASE Connect
  BY <1>2, Connects
<1>3. CASE CloseConnection
  BY <1>3, Closes
<1>4. CASE Accept
  BY <1>4, Accepts
<1>5. CASE Acknowledge
  BY <1>5, IsAcknowledged
<1>6. CASE Restart
  BY <1>6, Restarts
<1>7. ASSUME NEW n \in 1..Len(client.out), Flush(n)
      PROVE  RegistrationInv'
  BY <1>7, Flushes
<1>8. ASSUME NEW i \in DOMAIN links, Read(i)
      PROVE  RegistrationInv'
  BY <1>8, Reads
<1>9. ASSUME NEW i \in DOMAIN links, UnregisterLogic(i)
      PROVE  RegistrationInv'
  BY <1>9, Unregisters
<1>10. CASE UNCHANGED vars
  BY <1>10 DEF RegistrationInv, Typed, ClientTold, LinksPast, vars
<1> QED
  BY <1>1, <1>2, <1>3, <1>4, <1>5, <1>6, <1>7, <1>8, <1>9, <1>10 DEF Next

LEMMA RegistrationInvHolds == Spec => []RegistrationInv
BY RegistrationInvStarts, RegistrationInvStays, PTL DEF Spec

\* Whatever happens to the connections, the variables have their types, and
\* the tickets of the group are about its players and numbered below the next
\* number.
THEOREM RegistrationTypeCorrect == Spec => []TypeOK
<1>1. RegistrationInv => TypeOK
  <2> SUFFICES ASSUME RegistrationInv PROVE TypeOK
    OBVIOUS
  <2>1. ClientOK(client, TicketData, {NoSequence})
    BY DEF RegistrationInv, ClientTold
  <2>2. \A t \in ToSet(client.out) \cup ToSet(client.wait) :
          t.data \in TicketData /\ t.number \in 1..(client.sequence_number - 1)
    BY <2>1, TicketsAreTyped DEF ClientOK, Numbered
  <2> QED
    BY <2>2 DEF RegistrationInv, Typed, TypeOK
<1> QED
  BY <1>1, RegistrationInvHolds, PTL

\* The tickets that wait for their acknowledgement and those to send have
\* increasing numbers, however often connections were lost and tickets sent
\* again (RollbackTicket gives a new number to what did not arrive).
THEOREM NumbersIncreaseAlways == Spec => []NumbersIncrease
<1>1. RegistrationInv => NumbersIncrease
  <2> SUFFICES ASSUME RegistrationInv PROVE NumbersIncrease
    OBVIOUS
  <2>1. ClientOK(client, TicketData, {NoSequence})
    BY DEF RegistrationInv, ClientTold
  <2>2. InOrder(client.wait \o client.out)
    <3> DEFINE X == TicketOf(TicketData, {NoSequence})
    <3>1. client.out \in Seq(X) /\ client.wait \in Seq(X)
      BY <2>1, TicketsAreTyped
    <3> HIDE DEF X
    <3> QED
      BY <2>1, <3>1, InOrderConcatenation DEF ClientOK
  <2> QED
    BY <2>2 DEF NumbersIncrease, InOrder, Before
<1> QED
  BY <1>1, RegistrationInvHolds, PTL

-----------------------------------------------------------------------------
(* No connected player is missed *)

NobodyMissed == Len(links) <= 1 /\ EveryPlayerIsRegistered

\* What is known of a player, with the requests of a link.
KnownBy(p, k, ins, c) ==
  \/ ins[p] > 0
  \/ \E t \in ToSet(c.out) : t.data = Register(p)
  \/ \E m \in ToSet(k.requests) : \/ m.kind = "players" /\ p \in m.players
                                  \/ m.kind = "ticket" /\ m.data = Register(p)

\* One link becomes another.
LEMMA StaysSettled ==
  ASSUME RegistrationInv, RegistrationInv', NobodyMissed, NEW k, k \in Link,
         links # <<>>, links' = Replaced(links, Newest, k),
         UNCHANGED player,
         k.open /\ k.served /\ k.accepted =>
           \A p \in Player : player[p] = "connected" => KnownBy(p, k, instances', client')
  PROVE  NobodyMissed'
<1>1. links \in Seq(Link) /\ Newest = Len(links) /\ Newest \in DOMAIN links
  BY NewestIsLink DEF RegistrationInv, Typed, Newest
<1>2. links' \in Seq(Link) /\ Len(links') = Len(links) /\ links'[Newest] = k
  <2> DEFINE ls == links
             i == Newest
  <2>1. ls \in Seq(Link) /\ i \in DOMAIN ls /\ k \in Link /\ links' = Replaced(ls, i, k)
    BY <1>1
  <2> HIDE DEF ls, i
  <2>2. /\ Replaced(ls, i, k) \in Seq(Link) /\ Len(Replaced(ls, i, k)) = Len(ls)
        /\ Replaced(ls, i, k)[i] = k
    BY <2>1, OfReplaced
  <2> QED
    BY <2>1, <2>2 DEF ls, i
<1>3. Newest' = Newest /\ Len(links') <= 1
  BY <1>2 DEF NobodyMissed, Newest
<1>4. ASSUME Settled', NEW p \in Connected'
      PROVE  instances'[p] > 0 \/ OnItsWay(p)'
  <2>1. p \in Player /\ player[p] = "connected"
    BY <1>4 DEF Connected
  <2>2. k.open /\ k.served /\ k.accepted
    BY <1>2, <1>3, <1>4 DEF Settled, IsOpen
  <2>3. KnownBy(p, k, instances', client')
    BY <2>1, <2>2
  <2>4. links'[Newest'] = k
    BY <1>2, <1>3
  <2> QED
    BY <2>3, <2>4 DEF KnownBy, OnItsWay
<1> QED
  BY <1>3, <1>4 DEF NobodyMissed, EveryPlayerIsRegistered

LEMMA NotSettled ==
  ASSUME RegistrationInv', Len(links') <= 1,
         \A k \in ToSet(links') : ~k.open \/ ~k.served \/ ~k.accepted
  PROVE  NobodyMissed'
<1>1. links' \in Seq(Link)
  BY DEF RegistrationInv, Typed
<1>2. ~Settled'
  <2> SUFFICES ASSUME links' # <<>>
               PROVE  ~Settled'
    BY DEF Settled, IsOpen
  <2>1. links'[Len(links')] \in ToSet(links')
    BY <1>1, NewestIsLink
  <2> QED
    BY <2>1 DEF Settled, IsOpen, Newest
<1> QED
  BY <1>2 DEF NobodyMissed, EveryPlayerIsRegistered

\* What the link's requests and the queued tickets say of a connected player.
LEMMA WhoIsKnown ==
  ASSUME NobodyMissed, Settled, NEW p \in Player, player[p] = "connected"
  PROVE  KnownBy(p, links[Newest], instances, client)
BY DEF KnownBy, NobodyMissed, EveryPlayerIsRegistered, OnItsWay, Connected

LEMMA NobodyMissedStays ==
  ASSUME Prompt, RegistrationInv, NobodyMissed, [Next]_vars
  PROVE  NobodyMissed'
<1>0. RegistrationInv'
  BY RegistrationInvStays
<1>1. links \in Seq(Link) /\ instances \in [Player -> Nat]
  BY DEF RegistrationInv, Typed
<1>2. ASSUME NEW p \in Player, ServicesRegister(p) \/ ServicesUnregister(p)
      PROVE  NobodyMissed'
  <2>1. /\ UNCHANGED <<links, instances>>
        /\ ToSet(client.out) \subseteq ToSet(client'.out)
        /\ \A q \in Player :
             player'[q] = "connected" =>
               player[q] = "connected" \/ \E t \in ToSet(client'.out) : t.data = Register(q)
    BY <1>2, Registers
  <2>2. ASSUME Settled', NEW q \in Connected'
        PROVE  instances'[q] > 0 \/ OnItsWay(q)'
    <3>1. Settled /\ q \in Player /\ player'[q] = "connected" /\ Newest' = Newest
      BY <2>1, <2>2 DEF Settled, IsOpen, Newest, Connected
    <3> QED
      <4>1. CASE player[q] = "connected"
        BY <2>1, <3>1, <4>1, WhoIsKnown DEF KnownBy, OnItsWay
      <4>2. CASE \E t \in ToSet(client'.out) : t.data = Register(q)
        BY <4>2 DEF OnItsWay
      <4> QED
        BY <2>1, <3>1, <4>1, <4>2
  <2> QED
    BY <2>1, <2>2 DEF NobodyMissed, EveryPlayerIsRegistered
<1>3. CASE Connect
  <2> DEFINE k == [open |-> TRUE, served |-> TRUE, named |-> FALSE, accepted |-> FALSE,
                   requests |-> <<[kind |-> "connect"]>>, replies |-> <<>>]
  <2>1. links' = Append(links, k) /\ links = <<>> /\ ~k.accepted
    BY <1>3 DEF Connect
  <2> HIDE DEF k
  <2>2. Len(links') <= 1 /\ \A l \in ToSet(links') : ~l.accepted
    BY <2>1 DEF ToSet
  <2> QED
    BY <1>0, <2>2, NotSettled
<1>4. CASE CloseConnection
  <2>1. Len(links') <= 1 /\ \A l \in ToSet(links') : ~l.open
    BY <1>4, Closes DEF NobodyMissed
  <2> QED
    BY <1>0, <2>1, NotSettled
<1>5. CASE Accept
  <2>0. PICK k \in Link :
          \E m \in ToSet(k.requests) : /\ links' = Replaced(links, Newest, k)
                                       /\ m.kind = "players" /\ m.players = Connected
    BY <1>5, Accepts
  <2>1. PICK m \in ToSet(k.requests) : /\ links' = Replaced(links, Newest, k)
                                       /\ m.kind = "players" /\ m.players = Connected
    BY <2>0
  <2>2. links # <<>> /\ UNCHANGED player
    BY <1>5 DEF Accept, IsOpen
  <2>3. \A p \in Player : player[p] = "connected" => KnownBy(p, k, instances', client')
    BY <2>1 DEF KnownBy, Connected
  <2> QED
    BY <1>0, <2>1, <2>2, <2>3, StaysSettled
<1>6. CASE Acknowledge
  <2>1. PICK k \in Link :
          /\ links' = Replaced(links, Newest, k)
          /\ Same(links[Newest], k) /\ k.requests = links[Newest].requests
    BY <1>6, IsAcknowledged
  <2>2. links # <<>> /\ UNCHANGED <<player, instances>>
    BY <1>6 DEF Acknowledge, IsOpen
  <2>3. ToSet(client.out) \subseteq ToSet(client'.out)
    BY <1>6, IsAcknowledged
  <2>4. ASSUME k.open /\ k.served /\ k.accepted, NEW p \in Player, player[p] = "connected"
        PROVE  KnownBy(p, k, instances', client')
    <3>1. Settled
      BY <2>1, <2>2, <2>4 DEF Settled, IsOpen, Same
    <3>2. KnownBy(p, links[Newest], instances, client)
      BY <2>4, <3>1, WhoIsKnown
    <3> QED
      BY <2>1, <2>2, <2>3, <3>2 DEF KnownBy
  <2> QED
    BY <1>0, <2>1, <2>2, <2>4, StaysSettled
<1>7. CASE Restart
  <2>1. Len(links') <= 1 /\ \A k \in ToSet(links') : ~k.served
    BY <1>7, Restarts DEF NobodyMissed
  <2> QED
    BY <1>0, <2>1, NotSettled
<1>8. ASSUME NEW n \in 1..Len(client.out), Flush(n)
      PROVE  NobodyMissed'
  <2>1. PICK k \in Link :
          /\ links' = Replaced(links, Newest, k)
          /\ Same(links[Newest], k)
          /\ ToSet(links[Newest].requests) \subseteq ToSet(k.requests)
          /\ \A t \in ToSet(client.out) :
               \/ t \in ToSet(client'.out)
               \/ \E m \in ToSet(k.requests) : m.kind = "ticket" /\ m.data = t.data
    BY <1>8, Flushes
  <2>2. links # <<>> /\ UNCHANGED <<player, instances>>
    BY <1>8 DEF Flush, IsOpen
  <2>3. ASSUME k.open /\ k.served /\ k.accepted, NEW p \in Player, player[p] = "connected"
        PROVE  KnownBy(p, k, instances', client')
    <3>1. Settled
      BY <2>1, <2>2, <2>3 DEF Settled, IsOpen, Same
    <3>2. KnownBy(p, links[Newest], instances, client)
      BY <2>3, <3>1, WhoIsKnown
    <3> QED
      BY <2>1, <2>2, <3>2 DEF KnownBy
  <2> QED
    BY <1>0, <2>1, <2>2, <2>3, StaysSettled
<1>9. ASSUME NEW i \in DOMAIN links, Read(i)
      PROVE  NobodyMissed'
  <2>1. PICK k \in Link :
          /\ links' = Replaced(links, i, k)
          /\ Same(links[i], k)
          /\ \A p \in Player :
               player[p] = "connected" =>
                 /\ instances[p] > 0 => instances'[p] > 0
                 /\ \A m \in ToSet(links[i].requests) :
                      \/ instances'[p] > 0 \/ m \in ToSet(k.requests)
                      \/ /\ ~(m.kind = "players" /\ p \in m.players)
                         /\ ~(m.kind = "ticket" /\ m.data = Register(p))
    BY <1>9, Reads
  <2>2. links # <<>> /\ i = Newest /\ UNCHANGED <<player, client>>
    BY <1>1, <1>9 DEF Read, NobodyMissed, Newest
  <2>3. ASSUME k.open /\ k.served /\ k.accepted, NEW p \in Player, player[p] = "connected"
        PROVE  KnownBy(p, k, instances', client')
    <3>1. Settled
      BY <2>1, <2>2, <2>3 DEF Settled, IsOpen, Same
    <3>2. KnownBy(p, links[Newest], instances, client)
      BY <2>3, <3>1, WhoIsKnown
    <3> QED
      BY <2>1, <2>2, <2>3, <3>2 DEF KnownBy
  <2> QED
    BY <1>0, <2>1, <2>2, <2>3, StaysSettled
<1>10. ASSUME NEW i \in DOMAIN links, UnregisterLogic(i)
       PROVE  NobodyMissed'
  <2>1. Len(links') <= 1 /\ \A l \in ToSet(links') : ~l.served
    BY <1>10, Unregisters DEF NobodyMissed
  <2> QED
    BY <1>0, <2>1, NotSettled
<1>11. CASE UNCHANGED vars
  BY <1>11 DEF NobodyMissed, EveryPlayerIsRegistered, Settled, IsOpen, Newest, Connected,
               OnItsWay, vars
<1> QED
  BY <1>2, <1>3, <1>4, <1>5, <1>6, <1>7, <1>8, <1>9, <1>10, <1>11 DEF Next

\* If the service sees the end of a connection before the next one begins,
\* every connected player has an instance or will get one, whenever both ends
\* have introduced themselves.
THEOREM EveryPlayerIsRegisteredAlways ==
  ASSUME Prompt
  PROVE  Spec => []EveryPlayerIsRegistered
<1>1. Init => NobodyMissed
  BY DEF Init, NobodyMissed, EveryPlayerIsRegistered, Settled, IsOpen
<1>2. RegistrationInv /\ NobodyMissed /\ [Next]_vars => NobodyMissed'
  BY NobodyMissedStays
<1>3. NobodyMissed => EveryPlayerIsRegistered
  BY DEF NobodyMissed
<1> QED
  BY <1>1, <1>2, <1>3, RegistrationInvHolds, PTL DEF Spec
=============================================================================
