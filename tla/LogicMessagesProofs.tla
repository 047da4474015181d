-------------------------- MODULE LogicMessagesProofs --------------------------
(***************************************************************************)
(* Proofs about LogicMessages: no message disappears, messages for one     *)
(* location go out in order, and what waits for an address has been asked  *)
(* for; and while nothing disturbs them no message is in two places.       *)
(*                                                                         *)
(* A message that is on a connection is not counted as being there: until  *)
(* the acknowledgement has arrived its ticket waits, and a connection may  *)
(* end.  Once the acknowledgement is on its way the ticket does not count  *)
(* any more; then the server that has read the message has it.             *)
(***************************************************************************)
EXTENDS LogicMessages, TicketsProofs, FiniteSetTheorems

Address == Group \cup {NoGroup}
Answer == [location : Location, group : Group \cup {NoGroup}]

ClientsOK(cs) ==
  /\ cs \in [Group -> ClientOf(Message, Location)]
  /\ \A d \in Group : ClientOK(cs[d], Message, Location)

Typed ==
  /\ new_outgoing \in Seq(Entry) /\ outgoing \in Seq(Entry)
  /\ cache \in [Location -> Address]
  /\ ClientsOK(client)
  /\ transfer \in [Group -> Seq(Entry)] /\ incoming \in [Group -> Seq(Entry)]
  /\ back \in [Group -> Seq(Returned)]
  /\ links \in [Group -> Link] /\ connects \in [Group -> Nat]
  /\ answers \in [Group -> Seq(Answer)]
  /\ assigned \in [Group -> SUBSET Location] /\ owner \in [Location -> Address]
  /\ stopped \subseteq Group
  /\ sent \in 0..Len(Messages)
  /\ handled \in [Message -> Nat] /\ logged \subseteq Message /\ lost \subseteq Message

\* What has just come into a queue has not asked for an address.
Fresh(entries) == \A e \in ToSet(entries) : ~e.asked

\* A request or an acknowledgement has a number that is used up; a ticket with
\* the number of a request is the request's.
LinkOK(k, c) ==
  /\ \A r \in ToSet(k.requests) :
       Past(r.number, c) /\ \A t \in ToSet(c.wait) : t.number = r.number => t.data = r.id
  /\ \A r \in ToSet(k.replies) : r.kind = "processed" => Past(r.number, c)

Has(entries, m) == \E e \in ToSet(entries) : e.id = m
Processed(number, k) == \E r \in ToSet(k.replies) : r.kind = "processed" /\ r.number = number
Returning(m, k) == \E r \in ToSet(k.replies) : r.kind = "bad_address" /\ r.id = m
ToSend(m, c) == \E t \in ToSet(c.out) : t.data = m
Unconfirmed(m, c, k) == \E t \in ToSet(c.wait) : t.data = m /\ ~Processed(t.number, k)

\* Where a message of a group or of its server is; whether it has ended.
At(m, g) ==
  \/ Has(transfer[g], m) \/ Has(incoming[g], m) \/ Has(back[g], m)
  \/ ToSend(m, client[g]) \/ Unconfirmed(m, client[g], links[g]) \/ Returning(m, links[g])
Ended(m) == handled[m] > 0 \/ m \in logged \/ m \in lost
Counted(m) ==
  Has(new_outgoing, m) \/ Has(outgoing, m) \/ (\E g \in Group : At(m, g)) \/ Ended(m)

AnswerFor(l, as) == \E a \in ToSet(as) : a.location = l
Asks(g, l) == <<g, l>> \in unanswered \/ AnswerFor(l, answers[g])
AllAsked ==
  \A g \in Group : \A e \in ToSet(incoming[g]) : e.asked => Asks(g, LocationOf[e.id])
SenderAsked == \A e \in ToSet(outgoing) : e.asked => Asks(Sender, LocationOf[e.id])

MessagesInv ==
  /\ Typed
  /\ Fresh(new_outgoing) /\ \A g \in Group : Fresh(transfer[g])
  /\ \A d \in Group : LinkOK(links[d], client[d])
  /\ \A i \in 1..sent : Counted(Messages[i])
  /\ AllAsked /\ SenderAsked

-----------------------------------------------------------------------------
(* Tickets for the messages of a sequence *)

TicketFor(entry, clients, address) ==
  TicketToGroup(entry, clients, address[LocationOf[entry.id]])

\* The fold of TicketsTo up to n.
TicketsUpto(n, it, entries, clients, address) ==
  it = [s \in SUBSET (1..n) |->
         IF s = {} THEN clients ELSE TicketFor(entries[Max(s)], it[s \ {Max(s)}], address)]

LEMMA TicketsFurther ==
  ASSUME NEW entries, NEW clients, NEW address,
         NEW n \in Nat, NEW h, TicketsUpto(n, h, entries, clients, address)
  PROVE  \E it : TicketsUpto(n + 1, it, entries, clients, address)
<1> DEFINE Ticketed(s) == IF s = {} THEN clients
                          ELSE TicketFor(entries[Max(s)], h[s \ {Max(s)}], address)
           it == [s \in SUBSET (1..(n + 1)) |-> Ticketed(s)]
<1>1. ASSUME NEW s \in SUBSET (1..n)
      PROVE  it[s] = h[s]
  <2>1. s \in SUBSET (1..(n + 1))
    OBVIOUS
  <2>2. h[s] = Ticketed(s)
    BY DEF TicketsUpto
  <2> HIDE DEF Ticketed
  <2> QED
    BY <2>1, <2>2
<1>2. ASSUME NEW s \in SUBSET (1..(n + 1)), s # {}
      PROVE  it[s \ {Max(s)}] = h[s \ {Max(s)}]
  <2> HIDE DEF it
  <2> QED
    BY <1>1, WithoutMax
<1>3. it = [s \in SUBSET (1..(n + 1)) |->
           IF s = {} THEN clients ELSE TicketFor(entries[Max(s)], it[s \ {Max(s)}], address)]
  BY <1>2, Zenon
<1> QED
  BY <1>3 DEF TicketsUpto

LEMMA TicketsToTheEnd ==
  ASSUME NEW entries, NEW clients, NEW address, NEW n \in Nat
  PROVE  \E it : TicketsUpto(n, it, entries, clients, address)
<1> DEFINE T == {k \in Nat : \E it : TicketsUpto(k, it, entries, clients, address)}
<1>1. 0 \in T
  <2>1. TicketsUpto(0, [s \in {{}} |-> clients], entries, clients, address)
    BY SUBSET (1..0) = {{}} DEF TicketsUpto
  <2> QED
    BY <2>1
<1>2. \A k \in Nat : k \in T => k + 1 \in T
  BY TicketsFurther
<1> HIDE DEF T
<1>3. n \in T
  BY <1>1, <1>2, EveryNatural
<1> QED
  BY <1>3 DEF T

\* The messages get their tickets one after the other.
TicketsAlong(c, entries, clients, address) ==
  /\ c[0] = clients
  /\ \A k \in 1..Len(entries) : c[k] = TicketFor(entries[k], c[k - 1], address)
  /\ TicketsTo(entries, clients, address) = c[Len(entries)]

LEMMA TicketsChain ==
  ASSUME NEW S, NEW entries \in Seq(S), NEW clients, NEW address
  PROVE  \E c : TicketsAlong(c, entries, clients, address)
<1> DEFINE n == Len(entries)
           Is(it) == it = [s \in SUBSET DOMAIN entries |->
             IF s = {} THEN clients ELSE TicketFor(entries[Max(s)], it[s \ {Max(s)}], address)]
           it0 == CHOOSE it : Is(it)
           c == [k \in 0..n |-> it0[1..k]]
<1>1. TicketsTo(entries, clients, address) = it0[DOMAIN entries]
  BY Zenon DEF TicketsTo, FoldLeft, MapThenFoldSet, TicketFor
<1>2. DOMAIN entries = 1..n /\ n \in Nat
  OBVIOUS
<1>3. Is(it0)
  <2>1. PICK it : TicketsUpto(n, it, entries, clients, address)
    BY <1>2, TicketsToTheEnd
  <2>2. Is(it)
    BY <1>2, <2>1 DEF TicketsUpto
  <2> HIDE DEF Is
  <2> QED
    BY <2>2
<1>4. \A k \in 0..n : 1..k \in SUBSET DOMAIN entries
  BY <1>2
<1> HIDE DEF it0
<1>5. c[0] = clients
  <2>1. 1..0 = {}
    OBVIOUS
  <2>2. it0[{}] = clients
    BY <1>3
  <2> QED
    BY <2>1, <2>2, <1>2
<1>6. ASSUME NEW k \in 1..n
      PROVE  c[k] = TicketFor(entries[k], c[k - 1], address)
  <2>1. 1..k # {} /\ Max(1..k) = k /\ (1..k) \ {Max(1..k)} = 1..(k - 1)
    BY MaxOfPrefix, PrefixWithoutMax
  <2>2. 1..k \in SUBSET DOMAIN entries
    BY <1>4
  <2>3. it0[1..k] = TicketFor(entries[Max(1..k)], it0[(1..k) \ {Max(1..k)}], address)
    BY <1>3, <2>1, <2>2
  <2>4. c[k] = it0[1..k] /\ c[k - 1] = it0[1..(k - 1)]
    OBVIOUS
  <2> HIDE DEF c, n
  <2> QED
    BY <2>1, <2>3, <2>4
<1>7. c[n] = it0[DOMAIN entries]
  BY <1>2
<1> HIDE DEF c, n
<1>8. TicketsAlong(c, entries, clients, address)
  BY <1>1, <1>2, <1>5, <1>6, <1>7 DEF n, TicketsAlong
<1> QED
  BY <1>8

\* The tickets to send grow at the end; nothing else changes.
Adds(cs, ds) ==
  \A d \in Group : /\ ds[d].wait = cs[d].wait
                   /\ Grows(cs[d], ds[d])
                   /\ ToSet(cs[d].out) \subseteq ToSet(ds[d].out)
InTicket(m, cs) == \E d \in Group : ToSend(m, cs[d])

LEMMA AddsMore ==
  ASSUME NEW cs, NEW ds, NEW es, ClientsOK(cs), ClientsOK(ds), ClientsOK(es),
         Adds(cs, ds), Adds(ds, es)
  PROVE  Adds(cs, es) /\ \A m : InTicket(m, ds) => InTicket(m, es)
<1>1. ASSUME NEW d \in Group
      PROVE  /\ es[d].wait = cs[d].wait
             /\ Grows(cs[d], es[d])
             /\ ToSet(cs[d].out) \subseteq ToSet(es[d].out)
  <2>1. /\ cs[d].sequence_number \in Nat /\ ds[d].sequence_number \in Nat
        /\ es[d].sequence_number \in Nat
        /\ \A t \in ToSet(es[d].out) : t.number \in Nat
    BY TicketsAreTyped DEF ClientsOK
  <2>2. /\ cs[d].sequence_number <= ds[d].sequence_number
        /\ ds[d].sequence_number <= es[d].sequence_number
        /\ \A t \in ToSet(ds[d].out) :
             t \in ToSet(cs[d].out) \/ t.number >= cs[d].sequence_number
        /\ \A t \in ToSet(es[d].out) :
             t \in ToSet(ds[d].out) \/ t.number >= ds[d].sequence_number
    BY DEF Adds, Grows
  <2>3. Grows(cs[d], es[d])
    BY <2>1, <2>2 DEF Grows
  <2> QED
    BY <2>3 DEF Adds
<1>2. ASSUME NEW m, InTicket(m, ds)
      PROVE  InTicket(m, es)
  BY <1>2 DEF InTicket, ToSend, Adds
<1> QED
  BY <1>1, <1>2 DEF Adds

LEMMA AddsNothing ==
  ASSUME NEW cs, ClientsOK(cs)
  PROVE  Adds(cs, cs)
<1>1. \A d \in Group : cs[d].sequence_number \in Nat
  BY TicketsAreTyped DEF ClientsOK
<1> QED
  BY <1>1 DEF Adds, Grows

LEMMA TicketToGroupOK ==
  ASSUME NEW cs, ClientsOK(cs), NEW e \in Entry, NEW g \in Group
  PROVE  /\ ClientsOK(TicketToGroup(e, cs, g))
         /\ Adds(cs, TicketToGroup(e, cs, g))
         /\ InTicket(e.id, TicketToGroup(e, cs, g))
<1> DEFINE l == LocationOf[e.id]
           c == AddTicket(cs[g], e.id, l)
           ds == TicketToGroup(e, cs, g)
           t == Ticket(e.id, l, cs[g].sequence_number)
<1>1. e.id \in Message /\ l \in Location
  BY LogicMessagesAssumption DEF Entry
<1>2. /\ ClientOK(c, Message, Location) /\ c.wait = cs[g].wait
      /\ c.sequence_number = cs[g].sequence_number + 1
      /\ ToSet(c.out) = ToSet(cs[g].out) \cup {t}
  <2> DEFINE b == cs[g]
             m == e.id
  <2>1. ClientOK(b, Message, Location) /\ m \in Message /\ l \in Location
    BY <1>1 DEF ClientsOK
  <2> HIDE DEF b, m, l
  <2>2. /\ ClientOK(AddTicket(b, m, l), Message, Location)
        /\ AddedTo(b, AddTicket(b, m, l), m, l)
    BY <2>1, AddTicketOK
  <2> QED
    BY <2>2 DEF AddedTo, b, m
<1>3. cs \in [Group -> ClientOf(Message, Location)]
  BY DEF ClientsOK
<1>4. ds = [cs EXCEPT ![g] = c]
  BY DEF TicketToGroup
<1>5. c \in ClientOf(Message, Location)
  BY <1>2 DEF ClientOK
<1>6. t.data = e.id /\ t.number = cs[g].sequence_number
  BY DEF Ticket
<1>7. \A d \in Group : cs[d].sequence_number \in Nat
  BY TicketsAreTyped DEF ClientsOK
<1> HIDE DEF c, ds, t, l
<1>8. /\ ds \in [Group -> ClientOf(Message, Location)] /\ ds[g] = c
      /\ \A d \in Group : d # g => ds[d] = cs[d]
  BY <1>3, <1>4, <1>5
<1>9. ClientsOK(ds)
  BY <1>2, <1>8 DEF ClientsOK
<1>10. Grows(cs[g], c)
  BY <1>2, <1>6, <1>7 DEF Grows
<1>11. Adds(cs, ds)
  BY <1>2, <1>7, <1>8, <1>10 DEF Adds, Grows
<1>12. InTicket(e.id, ds)
  BY <1>2, <1>6, <1>8 DEF InTicket, ToSend
<1> QED
  BY <1>9, <1>11, <1>12 DEF ds

LEMMA TicketsToOK ==
  ASSUME NEW cs, ClientsOK(cs), NEW entries \in Seq(Entry), NEW address,
         \A e \in ToSet(entries) : address[LocationOf[e.id]] \in Group
  PROVE  /\ ClientsOK(TicketsTo(entries, cs, address))
         /\ Adds(cs, TicketsTo(entries, cs, address))
         /\ \A e \in ToSet(entries) : InTicket(e.id, TicketsTo(entries, cs, address))
<1> DEFINE N == Len(entries)
<1>1. PICK c : /\ c[0] = cs
               /\ \A k \in 1..N : c[k] = TicketFor(entries[k], c[k - 1], address)
               /\ TicketsTo(entries, cs, address) = c[N]
  <2>1. \E c : TicketsAlong(c, entries, cs, address)
    BY TicketsChain
  <2> QED
    BY <2>1 DEF TicketsAlong
<1>2. N \in Nat /\ DOMAIN entries = 1..N
  OBVIOUS
<1>3. \A k \in 1..N : entries[k] \in Entry /\ entries[k] \in ToSet(entries)
  BY ElementsAreTyped
<1> HIDE DEF N
<1> DEFINE Done(k) == /\ ClientsOK(c[k]) /\ Adds(cs, c[k])
                      /\ \A i \in 1..k : InTicket(entries[i].id, c[k])
           T == {k \in 0..N : Done(k)}
<1>4. 0 \in T
  <2>1. Done(0)
    BY <1>1, AddsNothing
  <2> HIDE DEF Done
  <2> QED
    BY <1>2, <2>1
<1>5. ASSUME NEW k \in 1..N, k - 1 \in T
      PROVE  k \in T
  <2> DEFINE b == c[k - 1]
             e == entries[k]
             g == address[LocationOf[e.id]]
  <2>1. ClientsOK(b) /\ Adds(cs, b) /\ \A i \in 1..(k - 1) : InTicket(entries[i].id, b)
    BY <1>5
  <2>2. e \in Entry /\ g \in Group
    BY <1>3
  <2>3. c[k] = TicketToGroup(e, b, g)
    BY <1>1 DEF TicketFor
  <2> HIDE DEF b, e, g
  <2>4. ClientsOK(c[k]) /\ Adds(b, c[k]) /\ InTicket(e.id, c[k])
    BY <2>1, <2>2, <2>3, TicketToGroupOK
  <2>5. Adds(cs, c[k]) /\ \A m : InTicket(m, b) => InTicket(m, c[k])
    BY <2>1, <2>4, AddsMore
  <2>6. ASSUME NEW i \in 1..k
        PROVE  InTicket(entries[i].id, c[k])
    <3>1. i \in 1..(k - 1) \/ i = k
      BY <1>2
    <3> QED
      BY <2>1, <2>4, <2>5, <3>1 DEF e
  <2>7. Done(k)
    BY <2>4, <2>5, <2>6
  <2>8. k \in 0..N
    BY <1>2
  <2> HIDE DEF Done
  <2> QED
    BY <2>7, <2>8
<1>6. N \in T
  <2> HIDE DEF T
  <2>1. 0..N \subseteq T
    BY <1>2, <1>4, <1>5, EveryPrefix
  <2> QED
    BY <1>2, <2>1
<1>7. Done(N)
  BY <1>6
<1> QED
  BY <1>1, <1>2, <1>7 DEF ToSet

-----------------------------------------------------------------------------
(* What becomes of a queue *)

Sorts(entries, known, r) ==
  /\ r.goes \in Seq(Entry) /\ r.queue \in Seq(Entry)
  /\ \A e \in ToSet(r.goes) : known[LocationOf[e.id]] \in Group
  /\ r.handled \subseteq Message /\ r.dropped \subseteq Message
  /\ r.asks \subseteq Location /\ IsFiniteSet(r.asks)
  /\ \A e \in ToSet(entries) :
       Has(r.goes, e.id) \/ Has(r.queue, e.id) \/ e.id \in r.handled \cup r.dropped
  /\ \A e \in ToSet(r.queue) :
       \/ LocationOf[e.id] \in r.asks
       \/ \E x \in ToSet(entries) : x.asked /\ LocationOf[x.id] = LocationOf[e.id]

LEMMA LocationsAreFinite ==
  ASSUME NEW entries \in Seq(Entry), NEW A,
         \A l \in A : \E e \in ToSet(entries) : l = LocationOf[e.id]
  PROVE  IsFiniteSet(A)
<1> DEFINE n == Len(entries)
           f == [i \in 1..n |-> LocationOf[entries[i].id]]
           B == {f[i] : i \in 1..n}
<1>1. IsFiniteSet(1..n)
  <2>1. n \in Int /\ 1 \in Int
    OBVIOUS
  <2> QED
    BY <2>1, FS_Interval
<1>2. f \in Surjection(1..n, B)
  BY DEF Surjection
<1>3. IsFiniteSet(B)
  BY <1>1, <1>2, FS_Surjection
<1>4. A \subseteq B
  BY DEF ToSet
<1> QED
  BY <1>3, <1>4, FS_Subset

\* Every message of a sequence is marked as asked for.
Marked(stays) == [i \in DOMAIN stays |-> [stays[i] EXCEPT !.asked = TRUE]]

LEMMA OfMarked ==
  ASSUME NEW stays \in Seq(Entry)
  PROVE  /\ Marked(stays) \in Seq(Entry)
         /\ \A e \in ToSet(stays) : Has(Marked(stays), e.id)
         /\ \A e \in ToSet(Marked(stays)) : e.asked /\ Has(stays, e.id)
<1>1. /\ DOMAIN stays = 1..Len(stays) /\ Len(stays) \in Nat
      /\ \A i \in DOMAIN stays : stays[i] \in Entry
  BY ElementsAreTyped
<1>2. \A i \in DOMAIN stays : /\ [stays[i] EXCEPT !.asked = TRUE] \in Entry
                              /\ [stays[i] EXCEPT !.asked = TRUE].id = stays[i].id
                              /\ [stays[i] EXCEPT !.asked = TRUE].asked
  BY <1>1 DEF Entry
<1> DEFINE q == Marked(stays)
<1>3. /\ DOMAIN q = DOMAIN stays
      /\ \A i \in DOMAIN stays : q[i] \in Entry /\ q[i].id = stays[i].id /\ q[i].asked
  BY <1>2 DEF Marked
<1>4. q \in Seq(Entry)
  <2>1. q \in [1..Len(stays) -> Entry]
    BY <1>1, <1>2 DEF Marked
  <2> QED
    BY <1>1, <2>1
<1> HIDE DEF q
<1>5. \A e \in ToSet(stays) : Has(q, e.id)
  BY <1>3 DEF Has, ToSet
<1>6. \A e \in ToSet(q) : e.asked /\ Has(stays, e.id)
  BY <1>3 DEF Has, ToSet
<1> QED
  BY <1>4, <1>5, <1>6 DEF q

LEMMA SortedOK ==
  ASSUME NEW entries \in Seq(Entry), NEW g, NEW known \in [Location -> Address], NEW expired
  PROVE  Sorts(entries, known, Sorted(entries, g, known, expired))
<1> DEFINE asked == {e \in ToSet(entries) : e.asked}
           here == {e \in ToSet(entries) : LocationOf[e.id] \in assigned[g]} \ asked
           goes == {e \in ToSet(entries) : known[LocationOf[e.id]] # NoGroup}
                     \ (asked \cup here)
           needy == ToSet(entries) \ (asked \cup here \cup goes)
           keep == {e \in asked \cup needy : e.id \notin expired}
           stays == Only(entries, keep)
           r == Sorted(entries, g, known, expired)
<1>1. /\ r.handled = {e.id : e \in here}
      /\ r.goes = Only(entries, goes)
      /\ r.asks = {LocationOf[e.id] : e \in needy} \ Asked(entries)
      /\ r.dropped = {e.id : e \in asked \cup needy} \cap expired
      /\ r.queue = Marked(stays)
  BY DEF Sorted, Marked
<1>2. \A e \in ToSet(entries) : /\ e \in Entry /\ e.id \in Message
                                /\ LocationOf[e.id] \in Location
                                /\ known[LocationOf[e.id]] \in Address
  <2>1. \A e \in ToSet(entries) : e \in Entry
    BY ElementsAreTyped
  <2>2. \A e \in Entry : e.id \in Message
    BY DEF Entry
  <2> QED
    BY <2>1, <2>2, LogicMessagesAssumption
<1>3. /\ \A e \in here : e \in ToSet(entries)
      /\ \A e \in goes : e \in ToSet(entries) /\ known[LocationOf[e.id]] # NoGroup
      /\ \A e \in needy : e \in ToSet(entries)
      /\ \A e \in asked : e \in ToSet(entries) /\ e.asked
      /\ \A e \in ToSet(entries) : e \in here \/ e \in goes \/ e \in asked \cup needy
      /\ \A e \in keep : e \in asked \/ e \in needy
      /\ \A e \in asked \cup needy : e \in keep \/ e.id \in expired
  OBVIOUS
<1> HIDE DEF asked, here, goes, needy, keep
<1>4. Only(entries, goes) \in Seq(Entry) /\ ToSet(Only(entries, goes)) = ToSet(entries) \cap goes
  BY OnlyElements
<1>5. stays \in Seq(Entry) /\ ToSet(stays) = ToSet(entries) \cap keep
  BY OnlyElements
<1> HIDE DEF stays, r
<1>6. /\ r.queue \in Seq(Entry)
      /\ \A e \in ToSet(stays) : Has(r.queue, e.id)
      /\ \A e \in ToSet(r.queue) : Has(stays, e.id)
  BY <1>1, <1>5, OfMarked
<1>7. r.goes \in Seq(Entry) /\ \A e \in ToSet(r.goes) : known[LocationOf[e.id]] \in Group
  BY <1>1, <1>2, <1>3, <1>4 DEF Address
<1>8. r.handled \subseteq Message /\ r.dropped \subseteq Message
  BY <1>1, <1>2, <1>3
<1>9. r.asks \subseteq Location /\ IsFiniteSet(r.asks)
  <2>1. \A l \in r.asks : \E e \in ToSet(entries) : l = LocationOf[e.id]
    BY <1>1, <1>3
  <2>2. IsFiniteSet(r.asks)
    BY <2>1, LocationsAreFinite
  <2> QED
    BY <1>2, <2>1, <2>2
<1>10. ASSUME NEW e \in ToSet(entries)
       PROVE  Has(r.goes, e.id) \/ Has(r.queue, e.id) \/ e.id \in r.handled \cup r.dropped
  <2>1. CASE e \in here
    BY <1>1, <2>1
  <2>2. CASE e \in goes
    BY <1>1, <1>4, <2>2 DEF Has
  <2>3. CASE e \in asked \cup needy /\ e \in keep
    <3>1. e \in ToSet(stays)
      BY <1>5, <2>3
    <3> QED
      BY <1>6, <3>1
  <2>4. CASE e \in asked \cup needy /\ e.id \in expired
    BY <1>1, <2>4
  <2> QED
    BY <1>3, <2>1, <2>2, <2>3, <2>4
<1>11. ASSUME NEW e \in ToSet(r.queue)
       PROVE  \/ LocationOf[e.id] \in r.asks
              \/ \E x \in ToSet(entries) : x.asked /\ LocationOf[x.id] = LocationOf[e.id]
  <2>1. PICK x \in ToSet(stays) : x.id = e.id
    BY <1>6 DEF Has
  <2>2. x \in asked \/ x \in needy
    BY <1>3, <1>5, <2>1
  <2>3. CASE x \in asked
    BY <1>3, <2>1, <2>3
  <2>4. CASE x \in needy
    <3>1. LocationOf[x.id] \in r.asks \/ LocationOf[x.id] \in Asked(entries)
      BY <1>1, <2>4
    <3> QED
      BY <2>1, <3>1 DEF Asked
  <2> QED
    BY <2>2, <2>3, <2>4
<1>12. Sorts(entries, known, r)
  BY <1>6, <1>7, <1>8, <1>9, <1>10, <1>11 DEF Sorts
<1> QED
  BY <1>12 DEF r

-----------------------------------------------------------------------------
(* The balancer answers for every location it is asked for *)

LEMMA EveryElementIsNumbered ==
  ASSUME NEW S, IsFiniteSet(S)
  PROVE  /\ Cardinality(S) \in Nat
         /\ SetToSeq(S) \in [1..Cardinality(S) -> S]
         /\ \A x \in S : \E i \in 1..Cardinality(S) : SetToSeq(S)[i] = x
<1> DEFINE n == Cardinality(S)
           Enumerates(f) == f \in [1..n -> S] /\ IsInjective(f)
<1>1. n \in Nat /\ ExistsBijection(1..n, S)
  BY FS_CardinalityType
<1>2. PICK f : f \in Bijection(1..n, S)
  BY <1>1 DEF ExistsBijection
<1>3. Enumerates(f)
  BY <1>2 DEF Bijection, Injection, IsInjective
<1>4. SetToSeq(S) = CHOOSE h : Enumerates(h)
  BY DEF SetToSeq
<1> DEFINE h == SetToSeq(S)
<1>5. Enumerates(h)
  BY <1>3, <1>4
<1>6. h \in Injection(1..n, S)
  BY <1>5 DEF Injection, IsInjective
<1>7. Cardinality(1..n) = n
  BY <1>1, FS_Interval
<1>8. h \in Surjection(1..n, S)
  BY <1>6, <1>7, FS_Injection
<1> QED
  BY <1>1, <1>5, <1>8 DEF Surjection

LEMMA AnswersOK ==
  ASSUME owner \in [Location -> Address], NEW S \in SUBSET Location, IsFiniteSet(S),
         NEW o \in Address
  PROVE  /\ Answers(S, o) \in Seq(Answer)
         /\ \A l \in S : AnswerFor(l, Answers(S, o))
<1> DEFINE n == Cardinality(S)
           q == SetToSeq(S)
           a == Answers(S, o)
           Of(l) == [location |-> l, group |-> IF owner[l] = NoGroup THEN o ELSE owner[l]]
<1>1. n \in Nat /\ q \in [1..n -> S] /\ \A x \in S : \E i \in 1..n : q[i] = x
  BY EveryElementIsNumbered
<1>2. a = [i \in 1..n |-> Of(q[i])]
  BY DEF Answers
<1>3. \A l \in S : Of(l) \in Answer /\ Of(l).location = l
  BY DEF Answer, Address
<1> HIDE DEF n, q, a, Of
<1>4. DOMAIN a = 1..n /\ \A i \in 1..n : a[i] \in Answer /\ a[i].location = q[i]
  BY <1>1, <1>2, <1>3
<1>5. a \in Seq(Answer)
  <2>1. a \in [1..n -> Answer]
    BY <1>2, <1>4
  <2> QED
    BY <1>1, <2>1
<1>6. ASSUME NEW l \in S
      PROVE  \E x \in ToSet(a) : x.location = l
  <2>1. PICK i \in 1..n : q[i] = l
    BY <1>1
  <2> QED
    BY <1>4, <2>1 DEF ToSet
<1> QED
  BY <1>5, <1>6 DEF a, AnswerFor

-----------------------------------------------------------------------------
(* Messages that end *)

LEMMA HandleOK ==
  ASSUME Typed, NEW g, NEW ms \in SUBSET Message, Handle(g, ms)
  PROVE  /\ handled' \in [Message -> Nat] /\ lost' \subseteq Message
         /\ \A m \in Message : handled[m] > 0 => handled'[m] > 0
         /\ lost \subseteq lost'
         /\ \A m \in ms : handled'[m] > 0 \/ m \in lost'
<1>1. handled \in [Message -> Nat] /\ lost \subseteq Message
  BY DEF Typed
<1>2. CASE g \in stopped
  <2>1. lost' = lost \cup ms /\ handled' = handled
    BY <1>2 DEF Handle
  <2> QED
    BY <1>1, <2>1
<1>3. CASE g \notin stopped
  <2>1. /\ handled' = [m \in Message |-> handled[m] + IF m \in ms THEN 1 ELSE 0]
        /\ lost' = lost
    BY <1>3 DEF Handle
  <2>2. \A m \in Message : handled[m] \in Nat
    BY <1>1
  <2>3. \A m \in Message : /\ handled'[m] = handled[m] + IF m \in ms THEN 1 ELSE 0
                           /\ handled'[m] \in Nat
    BY <2>1, <2>2
  <2>4. handled' \in [Message -> Nat]
    BY <2>1, <2>3
  <2> QED
    BY <1>1, <2>1, <2>2, <2>3, <2>4
<1> QED
  BY <1>2, <1>3

\* The messages of tickets that ask for an address again.
Requeues(again) == [i \in DOMAIN again |-> Waiting(again[i].ticket.data)]

LEMMA OfRequeues ==
  ASSUME NEW again \in Seq(DropOf(Message, Location))
  PROVE  /\ Requeues(again) \in Seq(Entry)
         /\ \A d \in ToSet(again) : Has(Requeues(again), d.ticket.data)
         /\ Fresh(Requeues(again))
<1> DEFINE q == Requeues(again)
<1>1. /\ DOMAIN again = 1..Len(again) /\ Len(again) \in Nat
      /\ \A i \in DOMAIN again : again[i] \in DropOf(Message, Location)
  BY ElementsAreTyped
<1>2. \A d \in DropOf(Message, Location) : d.ticket.data \in Message
  BY DEF DropOf, TicketOf
<1>3. \A m \in Message : Waiting(m) \in Entry /\ Waiting(m).id = m /\ ~Waiting(m).asked
  BY DEF Waiting, Entry
<1>4. /\ DOMAIN q = DOMAIN again
      /\ \A i \in DOMAIN again :
           q[i] \in Entry /\ q[i].id = again[i].ticket.data /\ ~q[i].asked
  BY <1>1, <1>2, <1>3 DEF Requeues
<1>5. q \in Seq(Entry)
  <2>1. q \in [1..Len(again) -> Entry]
    BY <1>1, <1>4 DEF Requeues
  <2> QED
    BY <1>1, <2>1
<1> HIDE DEF q
<1>6. \A d \in ToSet(again) : Has(q, d.ticket.data)
  BY <1>4 DEF Has, ToSet
<1>7. Fresh(q)
  BY <1>4 DEF Fresh, ToSet
<1> QED
  BY <1>5, <1>6, <1>7 DEF q

LEMMA DroppedTicketsOK ==
  ASSUME Typed, NEW drops \in Seq(DropOf(Message, Location)), NEW late,
         DroppedTickets(drops, late)
  PROVE  /\ new_outgoing' \in Seq(Entry)
         /\ Fresh(new_outgoing) => Fresh(new_outgoing')
         /\ \A m : Has(new_outgoing, m) => Has(new_outgoing', m)
         /\ cache' \in [Location -> Address]
         /\ logged' \subseteq Message /\ logged \subseteq logged'
         /\ \A m : IsDropped(m, drops) => Has(new_outgoing', m) \/ m \in logged'
<1> DEFINE ids(S) == {drops[i].ticket.data : i \in S}
           repeated == AskedAgain(drops, late)
           Again == {d \in ToSet(drops) : d.ticket.data \in ids(repeated)}
           again == Only(drops, Again)
           more == Requeues(again)
           dropped == {m \in ids(DOMAIN drops) :
             \E i \in DOMAIN drops : /\ drops[i].ticket.data = m
                                     /\ drops[i].reason = "DeadlineReached" => m \in late}
<1>1. /\ new_outgoing' = new_outgoing \o more
      /\ cache' = [l \in Location |->
           IF \E i \in repeated : LocationOf[drops[i].ticket.data] = l THEN NoGroup ELSE cache[l]]
      /\ logged' = logged \cup dropped
  BY DEF DroppedTickets, Requeues
<1>2. \A i \in DOMAIN drops : drops[i] \in ToSet(drops) /\ drops[i].ticket.data \in Message
  <2>1. \A i \in DOMAIN drops : drops[i] \in ToSet(drops) /\ drops[i] \in DropOf(Message, Location)
    BY ElementsAreTyped
  <2> QED
    BY <2>1 DEF DropOf, TicketOf
<1>3. cache' \in [Location -> Address]
  BY <1>1 DEF Typed, Address
<1>4. dropped \subseteq Message
  BY <1>2
<1>5. \A m : IsDropped(m, drops) =>
        m \in dropped \/ \E i \in DOMAIN drops : drops[i].ticket.data = m /\ drops[i] \in Again
  <2> SUFFICES ASSUME NEW i \in DOMAIN drops, drops[i].ticket.data \notin dropped
               PROVE  drops[i] \in Again
    BY DEF IsDropped
  <2>1. i \in repeated
    BY DEF AskedAgain
  <2> QED
    BY <1>2, <2>1
<1> HIDE DEF Again, dropped
<1>6. again \in Seq(DropOf(Message, Location)) /\ ToSet(again) = ToSet(drops) \cap Again
  BY OnlyElements
<1> HIDE DEF again
<1>7. /\ more \in Seq(Entry) /\ Fresh(more)
      /\ \A d \in ToSet(again) : Has(more, d.ticket.data)
  BY <1>6, OfRequeues
<1> HIDE DEF more
<1>8. new_outgoing \in Seq(Entry) /\ logged \subseteq Message
  BY DEF Typed
<1>9. /\ new_outgoing' \in Seq(Entry)
      /\ ToSet(new_outgoing') = ToSet(new_outgoing) \cup ToSet(more)
  BY <1>1, <1>7, <1>8, OfConcatenation
<1>10. \A m : Has(new_outgoing, m) \/ Has(more, m) => Has(new_outgoing', m)
  BY <1>9 DEF Has
<1>11. Fresh(new_outgoing) => Fresh(new_outgoing')
  BY <1>7, <1>9 DEF Fresh
<1>12. ASSUME NEW m, IsDropped(m, drops)
       PROVE  Has(new_outgoing', m) \/ m \in logged'
  <2>1. CASE m \in dropped
    BY <1>1, <2>1
  <2>2. ASSUME NEW i \in DOMAIN drops, drops[i].ticket.data = m, drops[i] \in Again
        PROVE  Has(new_outgoing', m)
    <3>1. drops[i] \in ToSet(again)
      BY <1>2, <1>6, <2>2
    <3> QED
      BY <1>7, <1>10, <2>2, <3>1
  <2> QED
    BY <1>5, <1>12, <2>1, <2>2
<1> QED
  BY <1>1, <1>3, <1>4, <1>8, <1>9, <1>10, <1>11, <1>12

-----------------------------------------------------------------------------
(* What the actions' proofs share *)

Request == [id : Message, number : Nat]

LEMMA LinkIsTyped ==
  ASSUME NEW k \in Link
  PROVE  /\ k.requests \in Seq(Request) /\ k.replies \in Seq(Reply) /\ k.up \in BOOLEAN
         /\ \A r \in ToSet(k.requests) : r \in Request /\ r.id \in Message /\ r.number \in Nat
         /\ \A r \in ToSet(k.replies) :
              /\ r \in Reply
              /\ r.kind = "processed" => r.number \in Nat
              /\ r.kind = "bad_address" => r.id \in Message /\ r.group \in Address
              /\ r.kind \in {"processed", "bad_address"}
<1>1. k.requests \in Seq(Request) /\ k.replies \in Seq(Reply) /\ k.up \in BOOLEAN
  BY DEF Link, Request
<1>2. ToSet(k.requests) \subseteq Request /\ ToSet(k.replies) \subseteq Reply
  BY <1>1, ElementsAreTyped
<1>3. \A r \in Request : r.id \in Message /\ r.number \in Nat
  BY DEF Request
<1>4. \A r \in Reply :
        /\ r.kind = "processed" => r.number \in Nat
        /\ r.kind = "bad_address" => r.id \in Message /\ r.group \in Address
        /\ r.kind \in {"processed", "bad_address"}
  BY DEF Reply, Address
<1> QED
  BY <1>1, <1>2, <1>3, <1>4

LEMMA LinkGrows ==
  ASSUME NEW k \in Link, NEW c, NEW d,
         ClientOK(c, Message, Location), ClientOK(d, Message, Location),
         LinkOK(k, c), Grows(c, d), ToSet(d.wait) \subseteq ToSet(c.wait)
  PROVE  LinkOK(k, d)
<1>1. \A n \in Nat : Past(n, c) => Past(n, d)
  BY TicketsAreTyped DEF Past, Grows
<1> QED
  BY <1>1, LinkIsTyped DEF LinkOK

LEMMA SentStays ==
  ASSUME MessagesInv, UNCHANGED sent, \A m \in Message : Counted(m) => Counted(m)'
  PROVE  \A i \in 1..sent' : Counted(Messages[i])'
<1>1. sent \in 0..Len(Messages) /\ \A i \in 1..sent : Counted(Messages[i])
  BY DEF MessagesInv, Typed
<1>2. \A i \in 1..Len(Messages) : Messages[i] \in Message
  BY LogicMessagesAssumption
<1> QED
  BY <1>1, <1>2

\* The last three parts of the invariant, when no queue gets longer.
LEMMA AsksStay ==
  ASSUME MessagesInv, UNCHANGED <<outgoing, incoming, unanswered, answers>>
  PROVE  AllAsked' /\ SenderAsked'
BY DEF MessagesInv, AllAsked, SenderAsked, Asks

-----------------------------------------------------------------------------
(* The actions keep MessagesInv *)

LEMMA AddOutgoingStep ==
  ASSUME MessagesInv, AddOutgoing
  PROVE  MessagesInv'
<1> DEFINE n == sent + 1
           e == Waiting(Messages[n])
<1>1. /\ sent \in Nat /\ n \in 1..Len(Messages) /\ sent' = n /\ Messages[n] \in Message
      /\ new_outgoing \in Seq(Entry)
  BY LogicMessagesAssumption DEF MessagesInv, Typed, AddOutgoing
<1>2. e \in Entry /\ e.id = Messages[n] /\ ~e.asked
  BY <1>1 DEF Entry, Waiting
<1>3. new_outgoing' = Append(new_outgoing, e)
  BY DEF AddOutgoing
<1> HIDE DEF e, n
<1>4. /\ new_outgoing' \in Seq(Entry)
      /\ ToSet(new_outgoing') = ToSet(new_outgoing) \cup {e}
  BY <1>1, <1>2, <1>3, OfAppend
<1>5. UNCHANGED <<outgoing, transfer, incoming, back, cache, client, links, connects, answers,
                  unanswered, assigned, owner, stopped, handled, logged, lost>>
  BY DEF AddOutgoing, network, balancer
<1>6. Typed'
  BY <1>1, <1>4, <1>5 DEF MessagesInv, Typed
<1>7. Fresh(new_outgoing') /\ \A g \in Group : Fresh(transfer'[g])
  BY <1>2, <1>4, <1>5 DEF MessagesInv, Fresh
<1>8. \A d \in Group : LinkOK(links'[d], client'[d])
  BY <1>5 DEF MessagesInv
<1>9. \A m : Counted(m) => Counted(m)'
  <2>1. \A m : Has(new_outgoing, m) => Has(new_outgoing', m)
    BY <1>4 DEF Has
  <2> QED
    BY <1>5, <2>1 DEF Counted, At, Ended
<1>10. ASSUME NEW i \in 1..sent'
       PROVE  Counted(Messages[i])'
  <2>1. i \in 1..sent \/ i = n
    BY <1>1 DEF n
  <2>2. CASE i \in 1..sent
    BY <1>9, <2>2 DEF MessagesInv
  <2>3. CASE i = n
    <3>1. Has(new_outgoing', Messages[i])
      BY <1>2, <1>4, <2>3 DEF Has
    <3> QED
      BY <3>1 DEF Counted
  <2> QED
    BY <2>1, <2>2, <2>3
<1>11. AllAsked' /\ SenderAsked'
  BY <1>5, AsksStay
<1> QED
  BY <1>6, <1>7, <1>8, <1>10, <1>11 DEF MessagesInv

LEMMA LoseAnswerStep ==
  ASSUME MessagesInv, NEW g \in Group, LoseAnswer(g)
  PROVE  MessagesInv'
<1> DEFINE as == answers[g]
<1>1. /\ as \in Seq(Answer) /\ as # <<>>
      /\ answers' = [answers EXCEPT ![g] = Tail(as)]
      /\ unanswered' = unanswered \cup {<<g, Head(as).location>>}
  BY DEF MessagesInv, Typed, LoseAnswer
<1>2. UNCHANGED <<sent, new_outgoing, outgoing, transfer, incoming, back, cache, client, links,
                  connects, assigned, owner, stopped, handled, logged, lost>>
  BY DEF LoseAnswer, queues, network, fates
<1> HIDE DEF as
<1>3. /\ Tail(as) \in Seq(Answer)
      /\ ToSet(as) = ToSet(Tail(as)) \cup {as[1]} /\ Head(as) = as[1]
  BY <1>1, OfTail
<1>4. /\ answers \in [Group -> Seq(Answer)]
      /\ answers' \in [Group -> Seq(Answer)] /\ answers'[g] = Tail(as)
      /\ \A x \in Group : x # g => answers'[x] = answers[x]
  BY <1>1, <1>3 DEF MessagesInv, Typed
<1>5. Typed'
  BY <1>2, <1>4 DEF MessagesInv, Typed
<1>6. ASSUME NEW x \in Group, NEW l, Asks(x, l)
      PROVE  Asks(x, l)'
  <2>1. CASE <<x, l>> \in unanswered
    BY <1>1, <2>1 DEF Asks
  <2>2. CASE AnswerFor(l, answers[x]) /\ x # g
    BY <1>4, <2>2 DEF Asks
  <2>3. CASE AnswerFor(l, answers[x]) /\ x = g
    <3>1. PICK a \in ToSet(as) : a.location = l
      BY <2>3 DEF AnswerFor, as
    <3>2. CASE a \in ToSet(Tail(as))
      BY <1>4, <2>3, <3>1, <3>2 DEF AnswerFor, Asks
    <3>3. CASE a = Head(as)
      BY <1>1, <2>3, <3>1, <3>3 DEF Asks
    <3> QED
      BY <1>3, <3>1, <3>2, <3>3
  <2> QED
    BY <1>6, <2>1, <2>2, <2>3 DEF Asks
<1>7. AllAsked' /\ SenderAsked'
  BY <1>2, <1>6, LogicMessagesAssumption DEF MessagesInv, AllAsked, SenderAsked
<1>8. \A m \in Message : Counted(m) => Counted(m)'
  BY <1>2 DEF Counted, At, Ended
<1>9. \A i \in 1..sent' : Counted(Messages[i])'
  BY <1>2, <1>8, SentStays
<1> QED
  BY <1>2, <1>5, <1>7, <1>9 DEF MessagesInv

LEMMA LocationsStep ==
  ASSUME MessagesInv,
         \/ \E g \in Group, l \in Location : ReleaseLocation(g, l)
         \/ \E l \in Location : ForgetAddress(l)
         \/ \E g \in Group : Reanimate(g)
  PROVE  MessagesInv'
<1>1. UNCHANGED <<sent, new_outgoing, outgoing, transfer, incoming, back, client, links,
                  connects, answers, unanswered, handled, logged, lost>>
  BY DEF ReleaseLocation, ForgetAddress, Reanimate, queues, network, fates
<1>2. /\ cache' \in [Location -> Address]
      /\ assigned' \in [Group -> SUBSET Location] /\ owner' \in [Location -> Address]
      /\ stopped' \subseteq Group
  <2>1. /\ cache \in [Location -> Address]
        /\ assigned \in [Group -> SUBSET Location] /\ owner \in [Location -> Address]
        /\ stopped \subseteq Group
    BY DEF MessagesInv, Typed
  <2>2. CASE \E g \in Group, l \in Location : ReleaseLocation(g, l)
    BY <2>1, <2>2 DEF ReleaseLocation, fates, Address
  <2>3. CASE \E l \in Location : ForgetAddress(l)
    BY <2>1, <2>3 DEF ForgetAddress, Address
  <2>4. CASE \E g \in Group : Reanimate(g)
    BY <2>1, <2>4 DEF Reanimate
  <2> QED
    BY <2>2, <2>3, <2>4
<1>3. Typed'
  BY <1>1, <1>2 DEF MessagesInv, Typed
<1>4. AllAsked' /\ SenderAsked'
  BY <1>1, AsksStay
<1>5. \A m \in Message : Counted(m) => Counted(m)'
  BY <1>1 DEF Counted, At, Ended
<1>6. \A i \in 1..sent' : Counted(Messages[i])'
  BY <1>1, <1>5, SentStays
<1> QED
  BY <1>1, <1>3, <1>4, <1>6 DEF MessagesInv

-----------------------------------------------------------------------------
(* Connections *)

LinkBecomes(d, k) == links' = [links EXCEPT ![d] = k]
ClientBecomes(d, c) == client' = [client EXCEPT ![d] = c]

LEMMA LinkBecomesOK ==
  ASSUME MessagesInv, NEW d \in Group, NEW k \in Link, LinkBecomes(d, k)
  PROVE  /\ links' \in [Group -> Link] /\ links'[d] = k
         /\ \A x \in Group : x # d => links'[x] = links[x]
BY DEF MessagesInv, Typed, LinkBecomes

LEMMA ClientBecomesOK ==
  ASSUME MessagesInv, NEW d \in Group, NEW c, ClientOK(c, Message, Location), ClientBecomes(d, c)
  PROVE  /\ ClientsOK(client') /\ client'[d] = c
         /\ \A x \in Group : x # d => client'[x] = client[x]
<1>1. c \in ClientOf(Message, Location)
  BY DEF ClientOK
<1>2. client \in [Group -> ClientOf(Message, Location)]
  BY DEF MessagesInv, Typed, ClientsOK
<1>3. /\ client' \in [Group -> ClientOf(Message, Location)] /\ client'[d] = c
      /\ \A x \in Group : x # d => client'[x] = client[x]
  BY <1>1, <1>2 DEF ClientBecomes
<1> QED
  BY <1>3 DEF ClientsOK, MessagesInv, Typed

LEMMA CloseConnectionStep ==
  ASSUME MessagesInv, NEW d \in Group, CloseConnection(d)
  PROVE  MessagesInv'
<1> DEFINE x == links[d]
<1>1. /\ x \in Link /\ LinkOK(x, client[d])
  BY DEF MessagesInv, Typed
<1>2. PICK n \in 0..Len(x.requests) :
        links' = [links EXCEPT ![d].up = FALSE, ![d].replies = <<>>,
                               ![d].requests = SubSeq(@, 1, n)]
  BY DEF CloseConnection
<1> DEFINE r == SubSeq(x.requests, 1, n)
           k == [up |-> FALSE, requests |-> r, replies |-> <<>>]
<1>3. LinkBecomes(d, k)
  <2>1. /\ links \in [Group -> Link]
        /\ links' = [links EXCEPT ![d].up = FALSE, ![d].replies = <<>>,
                                  ![d].requests = SubSeq(@, 1, n)]
    BY <1>2 DEF MessagesInv, Typed
  <2>2. DOMAIN links' = Group /\ \A g \in Group : g # d => links'[g] = links[g]
    BY <2>1
  <2>3. links'[d] = k
    BY <2>1 DEF Link
  <2> HIDE DEF k
  <2>4. \A g \in Group : links'[g] = [links EXCEPT ![d] = k][g]
    BY <2>1, <2>2, <2>3
  <2> QED
    BY <2>1, <2>2, <2>4 DEF LinkBecomes
<1>4. lost' = lost \cup IdsIn(x.replies)
  BY DEF CloseConnection
<1>5. UNCHANGED <<sent, new_outgoing, outgoing, transfer, incoming, back, cache, client,
                  connects, answers, unanswered, assigned, owner, stopped, handled, logged>>
  BY DEF CloseConnection, queues, balancer
<1>6. /\ x.requests \in Seq(Request)
      /\ \A e \in ToSet(x.replies) : e.kind = "bad_address" => e.id \in Message
      /\ \A m : Returning(m, x) => m \in IdsIn(x.replies)
      /\ \A m \in IdsIn(x.replies) : Returning(m, x)
  <2>1. /\ x.requests \in Seq(Request)
        /\ \A e \in ToSet(x.replies) : e.kind = "bad_address" => e.id \in Message
    BY <1>1, LinkIsTyped
  <2>2. \A m : Returning(m, x) => m \in IdsIn(x.replies)
    BY DEF Returning, IdsIn, ToSet
  <2>3. \A m \in IdsIn(x.replies) : Returning(m, x)
    BY DEF Returning, IdsIn, ToSet
  <2> QED
    BY <2>1, <2>2, <2>3
<1> HIDE DEF x
<1>7. r \in Seq(Request) /\ ToSet(r) \subseteq ToSet(x.requests)
  <2>1. 1 \in Nat \ {0} /\ n \in Nat /\ n <= Len(x.requests)
    BY <1>6
  <2> QED
    BY <1>6, <2>1, OfPart, PartElements
<1> HIDE DEF r
<1>8. k \in Link /\ k.requests = r /\ ToSet(k.replies) = {}
  BY <1>7 DEF Link, Request, ToSet
<1> HIDE DEF k
<1>9. /\ links' \in [Group -> Link] /\ links'[d] = k
      /\ \A g \in Group : g # d => links'[g] = links[g]
  BY <1>3, <1>8, LinkBecomesOK
<1>10. lost' \subseteq Message
  <2>1. \A m \in IdsIn(x.replies) : m \in Message
    BY <1>6 DEF Returning
  <2>2. lost \subseteq Message
    BY DEF MessagesInv, Typed
  <2> QED
    BY <1>4, <2>1, <2>2
<1>11. Typed'
  BY <1>5, <1>9, <1>10 DEF MessagesInv, Typed
<1>12. LinkOK(k, client[d])
  BY <1>1, <1>7, <1>8 DEF LinkOK
<1>13. \A g \in Group : LinkOK(links'[g], client'[g])
  BY <1>5, <1>9, <1>12 DEF MessagesInv
<1>14. ASSUME NEW m \in Message, Counted(m)
       PROVE  Counted(m)'
  <2>1. ASSUME NEW g \in Group, At(m, g)
        PROVE  At(m, g)' \/ m \in lost'
    <3>1. CASE g # d
      BY <1>5, <1>9, <2>1, <3>1 DEF At
    <3>2. CASE g = d /\ Returning(m, x)
      BY <1>4, <1>6, <3>2
    <3>3. CASE g = d /\ Unconfirmed(m, client[d], x)
      <4>1. Unconfirmed(m, client[d], k)
        BY <1>8, <3>3 DEF Unconfirmed, Processed
      <4> QED
        BY <1>5, <1>9, <3>3, <4>1 DEF At
    <3> QED
      BY <1>5, <2>1, <3>1, <3>2, <3>3 DEF At, x
  <2> QED
    BY <1>4, <1>5, <1>14, <2>1 DEF Counted, Ended
<1>15. \A i \in 1..sent' : Counted(Messages[i])'
  BY <1>5, <1>14, SentStays
<1>16. AllAsked' /\ SenderAsked'
  BY <1>5, AsksStay
<1> QED
  BY <1>5, <1>11, <1>13, <1>15, <1>16 DEF MessagesInv

\* The requests made of tickets.
Requested(ts) == [i \in DOMAIN ts |-> [id |-> ts[i].data, number |-> ts[i].number]]

LEMMA OfRequested ==
  ASSUME NEW ts \in Seq(TicketOf(Message, Location))
  PROVE  /\ Requested(ts) \in Seq(Request)
         /\ \A r \in ToSet(Requested(ts)) :
              \E t \in ToSet(ts) : r.id = t.data /\ r.number = t.number
<1> DEFINE q == Requested(ts)
<1>1. /\ DOMAIN ts = 1..Len(ts) /\ Len(ts) \in Nat
      /\ \A i \in DOMAIN ts : ts[i] \in TicketOf(Message, Location) /\ ts[i] \in ToSet(ts)
  BY ElementsAreTyped
<1>2. \A t \in TicketOf(Message, Location) : [id |-> t.data, number |-> t.number] \in Request
  BY DEF TicketOf, Request
<1>3. /\ DOMAIN q = DOMAIN ts
      /\ \A i \in DOMAIN ts : q[i] \in Request /\ q[i].id = ts[i].data /\ q[i].number = ts[i].number
  BY <1>1, <1>2 DEF Requested
<1>4. q \in Seq(Request)
  <2>1. q \in [1..Len(ts) -> Request]
    BY <1>1, <1>3 DEF Requested
  <2> QED
    BY <1>1, <2>1
<1> HIDE DEF q
<1>5. \A r \in ToSet(q) : \E t \in ToSet(ts) : r.id = t.data /\ r.number = t.number
  BY <1>1, <1>3 DEF ToSet
<1> QED
  BY <1>4, <1>5 DEF q

LEMMA NumbersDiffer ==
  ASSUME NEW c, ClientOK(c, Message, Location), NEW t \in ToSet(c.wait), NEW u \in ToSet(c.wait),
         t.number = u.number
  PROVE  t = u
<1>1. t.number \in Nat /\ u.number \in Nat /\ c.wait \in Seq(TicketOf(Message, Location))
  BY TicketsAreTyped
<1>2. PICK i \in DOMAIN c.wait, j \in DOMAIN c.wait : t = c.wait[i] /\ u = c.wait[j]
  BY DEF ToSet
<1>3. i \in Nat /\ j \in Nat
  BY <1>1
<1>4. ~(i < j) /\ ~(j < i)
  BY <1>1, <1>2 DEF ClientOK, InOrder, Before
<1> QED
  BY <1>2, <1>3, <1>4

LEMMA FlushLinkOK ==
  ASSUME NEW x \in Link, NEW c, ClientOK(c, Message, Location), LinkOK(x, c),
         NEW n \in 0..Len(c.out), NEW k \in Link,
         k.requests = x.requests \o Requested(FlushTickets(c, n).sent), k.replies = x.replies
  PROVE  /\ LinkOK(k, FlushTickets(c, n).client)
         /\ \A m : ToSend(m, c) => \/ ToSend(m, FlushTickets(c, n).client)
                                   \/ Unconfirmed(m, FlushTickets(c, n).client, k)
         /\ \A m : Unconfirmed(m, c, x) => Unconfirmed(m, FlushTickets(c, n).client, k)
<1> DEFINE d == FlushTickets(c, n).client
           ts == FlushTickets(c, n).sent
<1>1. /\ ClientOK(d, Message, Location)
      /\ d.sequence_number = c.sequence_number
      /\ ts \in Seq(TicketOf(Message, Location))
      /\ ToSet(d.out) \subseteq ToSet(c.out)
      /\ ToSet(ts) \subseteq ToSet(d.wait)
      /\ ToSet(c.wait) \subseteq ToSet(d.wait)
      /\ \A t \in ToSet(d.wait) : t \in ToSet(c.wait) \/ t \in ToSet(ts)
      /\ AllBefore(ToSet(ts), ToSet(d.out))
      /\ \A t \in ToSet(ts) : \E u \in ToSet(c.out) : t.data = u.data /\ t.number = u.number
      /\ \A t \in ToSet(c.out) : \/ t \in ToSet(d.out)
                                 \/ \E u \in ToSet(ts) : u.data = t.data
  <2>1. /\ ClientOK(d, Message, Location)
        /\ d.sequence_number = c.sequence_number
        /\ ts \in Seq(TicketOf(Message, Location))
    BY FlushTicketsOK
  <2>2. ToSet(d.out) \subseteq ToSet(c.out) /\ ToSet(ts) \subseteq ToSet(d.wait)
    BY FlushTicketsOK
  <2>3. ToSet(c.wait) \subseteq ToSet(d.wait)
    BY FlushTicketsOK
  <2>4. \A t \in ToSet(d.wait) : t \in ToSet(c.wait) \/ t \in ToSet(ts)
    BY FlushTicketsOK
  <2>5. AllBefore(ToSet(ts), ToSet(d.out))
    BY FlushTicketsOK
  <2>6. \A t \in ToSet(ts) : \E u \in ToSet(c.out) : t.data = u.data /\ t.number = u.number
    BY FlushTicketsOK
  <2>7. \A t \in ToSet(c.out) : t \in ToSet(d.out) \/ \E u \in ToSet(ts) : u.data = t.data
    BY FlushTicketsOK
  <2> HIDE DEF d, ts
  <2> QED
    BY <2>1, <2>2, <2>3, <2>4, <2>5, <2>6, <2>7
<1> HIDE DEF d, ts
<1>2. /\ Requested(ts) \in Seq(Request)
      /\ \A r \in ToSet(Requested(ts)) :
           \E t \in ToSet(ts) : r.id = t.data /\ r.number = t.number
  BY <1>1, OfRequested
<1>3. /\ x.requests \in Seq(Request)
      /\ \A r \in ToSet(x.requests) : r.number \in Nat
      /\ \A r \in ToSet(x.replies) : r.kind = "processed" => r.number \in Nat
  BY LinkIsTyped
<1>4. ToSet(k.requests) = ToSet(x.requests) \cup ToSet(Requested(ts))
  BY <1>2, <1>3, OfConcatenation DEF ts
<1>5. /\ \A t \in ToSet(c.out) \cup ToSet(c.wait) : t.number \in Nat
      /\ \A t \in ToSet(d.out) \cup ToSet(d.wait) : t.number \in Nat /\ t.number < d.sequence_number
  BY <1>1, TicketsAreTyped
<1>6. \A number \in Nat : Past(number, c) => Past(number, d)
  BY <1>1 DEF Past
<1>7. ASSUME NEW r \in ToSet(x.requests)
      PROVE  /\ Past(r.number, d)
             /\ \A t \in ToSet(d.wait) : t.number = r.number => t.data = r.id
  <2>1. /\ Past(r.number, c) /\ r.number \in Nat
        /\ \A t \in ToSet(c.wait) : t.number = r.number => t.data = r.id
    BY <1>3 DEF LinkOK
  <2>2. \A t \in ToSet(ts) : t.number # r.number
    BY <1>1, <1>5, <2>1 DEF Past
  <2> QED
    BY <1>1, <1>6, <2>1, <2>2
<1>8. ASSUME NEW r \in ToSet(Requested(ts))
      PROVE  /\ Past(r.number, d)
             /\ \A t \in ToSet(d.wait) : t.number = r.number => t.data = r.id
  <2>1. PICK t \in ToSet(ts) : r.id = t.data /\ r.number = t.number
    BY <1>2
  <2>2. t \in ToSet(d.wait)
    BY <1>1
  <2>3. Past(r.number, d)
    BY <1>1, <1>5, <2>1, <2>2 DEF Past, AllBefore, Before
  <2>4. \A u \in ToSet(d.wait) : u.number = r.number => u = t
    BY <1>1, <2>1, <2>2, NumbersDiffer
  <2> QED
    BY <2>1, <2>3, <2>4
<1>9. LinkOK(k, d)
  BY <1>3, <1>4, <1>6, <1>7, <1>8 DEF LinkOK
<1>10. \A number : Processed(number, k) <=> Processed(number, x)
  BY DEF Processed
<1>11. ASSUME NEW m, ToSend(m, c)
       PROVE  ToSend(m, d) \/ Unconfirmed(m, d, k)
  <2>1. PICK t \in ToSet(c.out) : t.data = m
    BY <1>11 DEF ToSend
  <2>2. ASSUME NEW u \in ToSet(ts), u.data = m
        PROVE  Unconfirmed(m, d, k)
    <3>1. PICK v \in ToSet(c.out) : u.number = v.number
      BY <1>1
    <3>2. ~Processed(u.number, x)
      BY <1>3, <1>5, <3>1 DEF Processed, LinkOK, Past
    <3> QED
      BY <1>1, <1>10, <2>2, <3>2 DEF Unconfirmed
  <2> QED
    BY <1>1, <2>1, <2>2 DEF ToSend
<1>12. \A m : Unconfirmed(m, c, x) => Unconfirmed(m, d, k)
  BY <1>1, <1>10 DEF Unconfirmed
<1> QED
  BY <1>9, <1>11, <1>12 DEF d

LEMMA FlushStep ==
  ASSUME MessagesInv, NEW d \in Group, Flush(d)
  PROVE  MessagesInv'
<1> DEFINE x == links[d]
           c == client[d]
           n == Len(c.out)
           e == FlushTickets(c, n).client
           ts == FlushTickets(c, n).sent
           r == x.requests \o Requested(ts)
           k == [up |-> TRUE, requests |-> r, replies |-> x.replies]
<1>1. /\ x \in Link /\ ClientOK(c, Message, Location) /\ LinkOK(x, c)
      /\ links \in [Group -> Link] /\ connects \in [Group -> Nat]
  BY DEF MessagesInv, Typed, ClientsOK
<1>2. ClientBecomes(d, e)
  BY DEF Flush, ClientBecomes
<1>3. LinkBecomes(d, k)
  <2>1. /\ links \in [Group -> Link]
        /\ links' = [links EXCEPT ![d].up = TRUE, ![d].requests = @ \o Requested(ts)]
    BY <1>1 DEF Flush, Requested
  <2>2. DOMAIN links' = Group /\ \A g \in Group : g # d => links'[g] = links[g]
    BY <2>1
  <2>3. links'[d] = k
    BY <2>1 DEF Link
  <2> HIDE DEF k
  <2>4. \A g \in Group : links'[g] = [links EXCEPT ![d] = k][g]
    BY <2>1, <2>2, <2>3
  <2> QED
    BY <2>1, <2>2, <2>4 DEF LinkBecomes
<1>4. UNCHANGED <<sent, new_outgoing, outgoing, transfer, incoming, back, cache, answers,
                  unanswered, assigned, owner, stopped, handled, logged, lost>>
  BY DEF Flush, queues, balancer, fates
<1>5. n \in 0..Len(c.out)
  BY <1>1, TicketsAreTyped
<1>6. ClientOK(e, Message, Location) /\ ts \in Seq(TicketOf(Message, Location))
  BY <1>1, <1>5, FlushTicketsOK
<1>7. k \in Link
  <2>1. Requested(ts) \in Seq(Request) /\ x.requests \in Seq(Request) /\ x.replies \in Seq(Reply)
    BY <1>1, <1>6, OfRequested, LinkIsTyped
  <2>2. r \in Seq(Request)
    BY <2>1, OfConcatenation
  <2> HIDE DEF r, x
  <2> QED
    BY <2>1, <2>2 DEF Link, Request
<1>8. k.requests = r /\ k.replies = x.replies
  OBVIOUS
<1> HIDE DEF k, n
<1>9. /\ LinkOK(k, e)
      /\ \A m : ToSend(m, c) => ToSend(m, e) \/ Unconfirmed(m, e, k)
      /\ \A m : Unconfirmed(m, c, x) => Unconfirmed(m, e, k)
  <2> HIDE DEF x, c
  <2> QED
    BY <1>1, <1>5, <1>7, <1>8, FlushLinkOK
<1> HIDE DEF e
<1>10. /\ links' \in [Group -> Link] /\ links'[d] = k
       /\ \A g \in Group : g # d => links'[g] = links[g]
  BY <1>3, <1>7, LinkBecomesOK
<1>11. /\ ClientsOK(client') /\ client'[d] = e
       /\ \A g \in Group : g # d => client'[g] = client[g]
  <2>1. ClientOK(e, Message, Location)
    BY <1>6
  <2> QED
    BY <1>2, <2>1, ClientBecomesOK
<1>12. connects' \in [Group -> Nat]
  <2>1. connects' = connects \/ connects' = [connects EXCEPT ![d] = connects[d] + 1]
    BY DEF Flush
  <2>2. connects[d] + 1 \in Nat
    BY <1>1
  <2> QED
    BY <1>1, <2>1, <2>2
<1>13. Typed'
  BY <1>4, <1>10, <1>11, <1>12 DEF MessagesInv, Typed
<1>14. \A g \in Group : LinkOK(links'[g], client'[g])
  BY <1>9, <1>10, <1>11 DEF MessagesInv
<1>15. ASSUME NEW m \in Message, Counted(m)
       PROVE  Counted(m)'
  <2>1. ASSUME NEW g \in Group, At(m, g)
        PROVE  At(m, g)'
    <3>1. CASE g # d
      BY <1>4, <1>10, <1>11, <2>1, <3>1 DEF At
    <3>2. CASE g = d
      <4>1. \A y : Returning(y, x) => Returning(y, k)
        BY <1>8 DEF Returning
      <4> QED
        BY <1>4, <1>9, <1>10, <1>11, <2>1, <3>2, <4>1 DEF At
    <3> QED
      BY <3>1, <3>2
  <2> QED
    BY <1>4, <1>15, <2>1 DEF Counted, Ended
<1>16. \A i \in 1..sent' : Counted(Messages[i])'
  BY <1>4, <1>15, SentStays
<1>17. AllAsked' /\ SenderAsked'
  BY <1>4, AsksStay
<1> QED
  BY <1>4, <1>13, <1>14, <1>16, <1>17 DEF MessagesInv

LEMMA BadAddressStep ==
  ASSUME MessagesInv, NEW d \in Group, BadAddress(d)
  PROVE  MessagesInv'
<1> DEFINE x == links[d]
           reply == Head(x.replies)
           r == Tail(x.replies)
           w == Waiting(reply.id)
           k == [up |-> x.up, requests |-> x.requests, replies |-> r]
<1>1. /\ x \in Link /\ LinkOK(x, client[d]) /\ links \in [Group -> Link]
      /\ new_outgoing \in Seq(Entry) /\ cache \in [Location -> Address]
  BY DEF MessagesInv, Typed
<1>2. /\ x.replies # <<>> /\ reply.kind = "bad_address"
      /\ new_outgoing' = Append(new_outgoing, w)
  BY DEF BadAddress
<1>3. LinkBecomes(d, k)
  <2>1. /\ links \in [Group -> Link]
        /\ links' = [links EXCEPT ![d].replies = Tail(@)]
    BY <1>1 DEF BadAddress
  <2>2. DOMAIN links' = Group /\ \A g \in Group : g # d => links'[g] = links[g]
    BY <2>1
  <2>3. links'[d] = k
    BY <2>1 DEF Link
  <2> HIDE DEF k
  <2>4. \A g \in Group : links'[g] = [links EXCEPT ![d] = k][g]
    BY <2>1, <2>2, <2>3
  <2> QED
    BY <2>1, <2>2, <2>4 DEF LinkBecomes
<1>4. UNCHANGED <<sent, outgoing, transfer, incoming, back, client, connects, answers,
                  unanswered, assigned, owner, stopped, handled, logged, lost>>
  BY DEF BadAddress, balancer, fates
<1>5. /\ x.requests \in Seq(Request) /\ x.replies \in Seq(Reply)
      /\ \A e \in ToSet(x.replies) :
           e.kind = "bad_address" => e.id \in Message /\ e.group \in Address
  BY <1>1, LinkIsTyped
<1>6. /\ r \in Seq(Reply) /\ ToSet(x.replies) = ToSet(r) \cup {x.replies[1]}
      /\ reply = x.replies[1] /\ reply \in ToSet(x.replies)
  BY <1>2, <1>5, OfTail
<1>7. k \in Link /\ k.requests = x.requests /\ k.replies = r
  BY <1>1, <1>5, <1>6 DEF Link, Request
<1>8. cache' \in [Location -> Address]
  <2>1. reply.group \in Address /\ LocationOf[reply.id] \in Location
    BY <1>2, <1>5, <1>6, LogicMessagesAssumption
  <2> QED
    BY <1>1, <2>1 DEF BadAddress
<1>9. w \in Entry /\ w.id = reply.id /\ ~w.asked
  BY <1>2, <1>5, <1>6 DEF Waiting, Entry
<1> HIDE DEF k, r, w, reply, x
<1>10. /\ new_outgoing' \in Seq(Entry)
       /\ ToSet(new_outgoing') = ToSet(new_outgoing) \cup {w}
  BY <1>1, <1>2, <1>9, OfAppend
<1>11. /\ links' \in [Group -> Link] /\ links'[d] = k
       /\ \A g \in Group : g # d => links'[g] = links[g]
  BY <1>3, <1>7, LinkBecomesOK
<1>12. Typed'
  BY <1>4, <1>8, <1>10, <1>11 DEF MessagesInv, Typed
<1>13. Fresh(new_outgoing') /\ \A g \in Group : Fresh(transfer'[g])
  BY <1>4, <1>9, <1>10 DEF MessagesInv, Fresh
<1>14. LinkOK(k, client[d])
  BY <1>1, <1>6, <1>7 DEF LinkOK
<1>15. \A g \in Group : LinkOK(links'[g], client'[g])
  BY <1>4, <1>11, <1>14 DEF MessagesInv
<1>16. ASSUME NEW m \in Message, Counted(m)
       PROVE  Counted(m)'
  <2>1. Has(new_outgoing, m) => Has(new_outgoing', m)
    BY <1>10 DEF Has
  <2>2. Returning(m, x) => Returning(m, k) \/ Has(new_outgoing', m)
    BY <1>6, <1>7, <1>9, <1>10 DEF Returning, Has
  <2>3. Unconfirmed(m, client[d], x) => Unconfirmed(m, client[d], k)
    BY <1>6, <1>7 DEF Unconfirmed, Processed
  <2>4. ASSUME NEW g \in Group, At(m, g)
        PROVE  At(m, g)' \/ Has(new_outgoing', m)
    <3>1. CASE g # d
      BY <1>4, <1>11, <2>4, <3>1 DEF At
    <3>2. CASE g = d
      BY <1>4, <1>11, <2>2, <2>3, <2>4, <3>2 DEF At, x
    <3> QED
      BY <3>1, <3>2
  <2> QED
    BY <1>4, <1>16, <2>1, <2>4 DEF Counted, Ended
<1>17. \A i \in 1..sent' : Counted(Messages[i])'
  BY <1>4, <1>16, SentStays
<1>18. AllAsked' /\ SenderAsked'
  BY <1>4, AsksStay
<1> QED
  BY <1>12, <1>13, <1>15, <1>17, <1>18 DEF MessagesInv

\* The replies of group d that send messages back.
Replied(es, d) ==
  [i \in DOMAIN es |->
     [kind |-> "bad_address", id |-> es[i].id, group |-> es[i].group, target |-> d]]

LEMMA OfReplied ==
  ASSUME NEW es \in Seq(Returned), NEW d \in Group
  PROVE  /\ Replied(es, d) \in Seq(Reply)
         /\ \A r \in ToSet(Replied(es, d)) : r.kind = "bad_address"
         /\ \A e \in ToSet(es) : \E r \in ToSet(Replied(es, d)) : r.id = e.id
<1> DEFINE q == Replied(es, d)
<1>1. /\ DOMAIN es = 1..Len(es) /\ Len(es) \in Nat
      /\ \A i \in DOMAIN es : es[i] \in Returned
  BY ElementsAreTyped
<1>2. \A e \in Returned :
        [kind |-> "bad_address", id |-> e.id, group |-> e.group, target |-> d] \in Reply
  BY DEF Returned, Reply
<1>3. /\ DOMAIN q = DOMAIN es
      /\ \A i \in DOMAIN es : q[i] \in Reply /\ q[i].kind = "bad_address" /\ q[i].id = es[i].id
  BY <1>1, <1>2 DEF Replied
<1>4. q \in Seq(Reply)
  <2>1. q \in [1..Len(es) -> Reply]
    BY <1>1, <1>3 DEF Replied
  <2> QED
    BY <1>1, <2>1
<1> HIDE DEF q
<1>5. \A r \in ToSet(q) : r.kind = "bad_address"
  BY <1>3 DEF ToSet
<1>6. \A e \in ToSet(es) : \E r \in ToSet(q) : r.id = e.id
  BY <1>3 DEF ToSet
<1> QED
  BY <1>4, <1>5, <1>6 DEF q

LEMMA SendBackStep ==
  ASSUME MessagesInv, NEW d \in Group, SendBack(d)
  PROVE  MessagesInv'
<1> DEFINE x == links[d]
           b == back[d]
           There(e) == x.up /\ e.socket = connects[d]
           S == {e \in ToSet(b) : There(e)}
           there == Only(b, S)
           gone == {e.id : e \in {y \in ToSet(b) : ~There(y)}}
           r == x.replies \o Replied(there, d)
           k == [up |-> x.up, requests |-> x.requests, replies |-> r]
<1>1. /\ x \in Link /\ LinkOK(x, client[d]) /\ links \in [Group -> Link]
      /\ b \in Seq(Returned) /\ back \in [Group -> Seq(Returned)]
  BY DEF MessagesInv, Typed
<1>2. /\ back' = [back EXCEPT ![d] = <<>>]
      /\ lost' = lost \cup gone
  BY DEF SendBack
<1>3. LinkBecomes(d, k)
  <2>1. /\ links \in [Group -> Link]
        /\ links' = [links EXCEPT ![d].replies = @ \o Replied(there, d)]
    BY <1>1 DEF SendBack, Replied
  <2>2. DOMAIN links' = Group /\ \A g \in Group : g # d => links'[g] = links[g]
    BY <2>1
  <2>3. links'[d] = k
    BY <2>1 DEF Link
  <2> HIDE DEF k
  <2>4. \A g \in Group : links'[g] = [links EXCEPT ![d] = k][g]
    BY <2>1, <2>2, <2>3
  <2> QED
    BY <2>1, <2>2, <2>4 DEF LinkBecomes
<1>4. UNCHANGED <<sent, new_outgoing, outgoing, transfer, incoming, cache, client, connects,
                  answers, unanswered, assigned, owner, stopped, handled, logged>>
  BY DEF SendBack, balancer
<1>5. /\ \A e \in ToSet(b) : e \in S \/ e.id \in gone
      /\ gone \subseteq Message
  <2>1. \A e \in ToSet(b) : e.id \in Message
    <3>1. \A e \in Returned : e.id \in Message
      BY DEF Returned
    <3> QED
      BY <1>1, <3>1, ElementsAreTyped
  <2> QED
    BY <2>1
<1> HIDE DEF S, gone, b
<1>6. there \in Seq(Returned) /\ ToSet(there) = ToSet(b) \cap S
  BY <1>1, OnlyElements
<1> HIDE DEF there
<1>7. /\ Replied(there, d) \in Seq(Reply)
      /\ \A y \in ToSet(Replied(there, d)) : y.kind = "bad_address"
      /\ \A e \in ToSet(there) : \E y \in ToSet(Replied(there, d)) : y.id = e.id
  BY <1>6, OfReplied
<1>8. x.requests \in Seq(Request) /\ x.replies \in Seq(Reply) /\ x.up \in BOOLEAN
  BY <1>1, LinkIsTyped
<1> HIDE DEF x
<1>9. r \in Seq(Reply) /\ ToSet(r) = ToSet(x.replies) \cup ToSet(Replied(there, d))
  BY <1>7, <1>8, OfConcatenation
<1> HIDE DEF r
<1>10. k \in Link /\ k.requests = x.requests /\ k.replies = r
  BY <1>8, <1>9 DEF Link, Request
<1> HIDE DEF k
<1>11. /\ links' \in [Group -> Link] /\ links'[d] = k
       /\ \A g \in Group : g # d => links'[g] = links[g]
  BY <1>3, <1>10, LinkBecomesOK
<1>12. /\ back' \in [Group -> Seq(Returned)] /\ back'[d] = <<>>
       /\ \A g \in Group : g # d => back'[g] = back[g]
  BY <1>1, <1>2
<1>13. Typed'
  BY <1>2, <1>4, <1>5, <1>11, <1>12 DEF MessagesInv, Typed
<1>14. LinkOK(k, client[d])
  BY <1>1, <1>7, <1>9, <1>10 DEF LinkOK
<1>15. \A g \in Group : LinkOK(links'[g], client'[g])
  BY <1>4, <1>11, <1>14 DEF MessagesInv
<1>16. ASSUME NEW m \in Message, Counted(m)
       PROVE  Counted(m)'
  <2>1. Returning(m, x) => Returning(m, k)
    BY <1>9, <1>10 DEF Returning
  <2>2. Unconfirmed(m, client[d], x) => Unconfirmed(m, client[d], k)
    BY <1>7, <1>9, <1>10 DEF Unconfirmed, Processed
  <2>3. Has(b, m) => Returning(m, k) \/ m \in lost'
    <3> SUFFICES ASSUME NEW e \in ToSet(b), e.id = m
                 PROVE  Returning(m, k) \/ m \in lost'
      BY DEF Has
    <3>1. CASE e \in S
      BY <1>6, <1>7, <1>9, <1>10, <3>1 DEF Returning
    <3>2. CASE e.id \in gone
      BY <1>2, <3>2
    <3> QED
      BY <1>5, <3>1, <3>2
  <2>4. ASSUME NEW g \in Group, At(m, g)
        PROVE  At(m, g)' \/ m \in lost'
    <3>1. CASE g # d
      BY <1>4, <1>11, <1>12, <2>4, <3>1 DEF At
    <3>2. CASE g = d
      BY <1>4, <1>11, <2>1, <2>2, <2>3, <2>4, <3>2 DEF At, x, b
    <3> QED
      BY <3>1, <3>2
  <2> QED
    BY <1>2, <1>4, <1>16, <2>4 DEF Counted, Ended
<1>17. \A i \in 1..sent' : Counted(Messages[i])'
  BY <1>4, <1>16, SentStays
<1>18. AllAsked' /\ SenderAsked'
  BY <1>4, AsksStay
<1> QED
  BY <1>4, <1>13, <1>15, <1>17, <1>18 DEF MessagesInv

-----------------------------------------------------------------------------
(* The server reads a request *)

\* The request is read and answered, if the connection is still there.
LEMMA AnsweredOK ==
  ASSUME MessagesInv, NEW d \in Group, links[d].requests # <<>>,
         NEW rs \in Seq(Reply), links' = Answered(d, rs),
         \A r \in ToSet(rs) : r.kind = "processed" => r.number = Head(links[d].requests).number
  PROVE  /\ links' \in [Group -> Link] /\ \A g \in Group : g # d => links'[g] = links[g]
         /\ Head(links[d].requests).id \in Message /\ Head(links[d].requests).number \in Nat
         /\ LinkOK(links'[d], client[d])
         /\ \A m : Returning(m, links[d]) => Returning(m, links'[d])
         /\ \A m : Unconfirmed(m, client[d], links[d]) =>
              \/ Unconfirmed(m, client[d], links'[d])
              \/ m = Head(links[d].requests).id /\ links[d].up
         /\ links[d].up => \A r \in ToSet(rs) : r \in ToSet(links'[d].replies)
<1> DEFINE x == links[d]
           request == Head(x.requests)
           q == Tail(x.requests)
           p == IF x.up THEN x.replies \o rs ELSE x.replies
           k == [up |-> x.up, requests |-> q, replies |-> p]
<1>1. /\ x \in Link /\ LinkOK(x, client[d]) /\ links \in [Group -> Link]
      /\ ClientOK(client[d], Message, Location)
  BY DEF MessagesInv, Typed, ClientsOK
<1>2. LinkBecomes(d, k)
  <2>1. links' = [links EXCEPT ![d].requests = Tail(@),
                               ![d].replies = IF links[d].up THEN @ \o rs ELSE @]
    BY DEF Answered
  <2>2. DOMAIN links' = Group /\ \A g \in Group : g # d => links'[g] = links[g]
    BY <1>1, <2>1
  <2>3. links'[d] = [links[d] EXCEPT !.requests = Tail(@),
                                     !.replies = IF links[d].up THEN @ \o rs ELSE @]
    BY <1>1, <2>1
  <2>4. links'[d] = [x EXCEPT !.requests = q, !.replies = p]
    BY <2>3
  <2> HIDE DEF x, q, p
  <2>5. links'[d] = k
    BY <1>1, <2>4 DEF Link
  <2> HIDE DEF k
  <2>6. \A g \in Group : links'[g] = [links EXCEPT ![d] = k][g]
    BY <1>1, <2>2, <2>5
  <2> QED
    BY <1>1, <2>1, <2>2, <2>6 DEF LinkBecomes
<1>3. /\ x.requests \in Seq(Request) /\ x.requests # <<>>
      /\ x.replies \in Seq(Reply) /\ x.up \in BOOLEAN
      /\ \A r \in ToSet(x.requests) : r.id \in Message /\ r.number \in Nat
  BY <1>1, LinkIsTyped
<1> HIDE DEF x
<1>4. /\ q \in Seq(Request)
      /\ ToSet(x.requests) = ToSet(q) \cup {x.requests[1]} /\ request = x.requests[1]
      /\ request \in ToSet(x.requests)
  BY <1>3, OfTail
<1>5. request.id \in Message /\ request.number \in Nat
  BY <1>3, <1>4
<1>6. /\ p \in Seq(Reply)
      /\ ToSet(x.replies) \subseteq ToSet(p)
      /\ ToSet(p) \subseteq ToSet(x.replies) \cup ToSet(rs)
      /\ x.up => ToSet(rs) \subseteq ToSet(p)
      /\ ~x.up => p = x.replies
  <2>1. x.replies \o rs \in Seq(Reply) /\ ToSet(x.replies \o rs) = ToSet(x.replies) \cup ToSet(rs)
    BY <1>3, OfConcatenation
  <2> QED
    BY <1>3, <2>1
<1> HIDE DEF p, q, request
<1>7. k \in Link /\ k.requests = q /\ k.replies = p
  BY <1>3, <1>4, <1>6 DEF Link, Request
<1> HIDE DEF k
<1>8. /\ links' \in [Group -> Link] /\ links'[d] = k
      /\ \A g \in Group : g # d => links'[g] = links[g]
  BY <1>2, <1>7, LinkBecomesOK
<1>9. \A r \in ToSet(rs) : r.kind = "processed" => r.number = request.number
  BY DEF request, x
<1>10. Past(request.number, client[d])
  BY <1>1, <1>4 DEF LinkOK
<1>11. LinkOK(k, client[d])
  BY <1>1, <1>4, <1>6, <1>7, <1>9, <1>10 DEF LinkOK
<1>12. \A m : Returning(m, x) => Returning(m, k)
  BY <1>6, <1>7 DEF Returning
<1>13. ASSUME NEW m, Unconfirmed(m, client[d], x)
       PROVE  Unconfirmed(m, client[d], k) \/ (m = request.id /\ x.up)
  <2>1. PICK t \in ToSet(client[d].wait) : t.data = m /\ ~Processed(t.number, x)
    BY <1>13 DEF Unconfirmed
  <2>2. CASE ~Processed(t.number, k)
    BY <2>1, <2>2 DEF Unconfirmed
  <2>3. CASE Processed(t.number, k)
    <3>1. PICK r \in ToSet(p) : r.kind = "processed" /\ r.number = t.number
      BY <1>7, <2>3 DEF Processed
    <3>2. r \notin ToSet(x.replies)
      BY <2>1, <3>1 DEF Processed
    <3>3. t.number = request.number /\ x.up
      BY <1>6, <1>9, <3>1, <3>2
    <3>4. t.data = request.id
      BY <1>1, <1>4, <3>3 DEF LinkOK
    <3> QED
      BY <2>1, <3>3, <3>4
  <2> QED
    BY <2>2, <2>3
<1> QED
  BY <1>5, <1>6, <1>7, <1>8, <1>11, <1>12, <1>13 DEF x, request

LEMMA ReceiveStep ==
  ASSUME MessagesInv, NEW d \in Group, Receive(d)
  PROVE  MessagesInv'
<1> DEFINE x == links[d]
           request == Head(x.requests)
           done == [kind |-> "processed", number |-> request.number]
           refused == [kind |-> "bad_address", id |-> request.id, group |-> NoGroup,
                       target |-> NoGroup]
           e == [id |-> request.id, asked |-> FALSE, socket |-> connects[d]]
           rs == IF d \in stopped THEN <<done, refused>> ELSE <<done>>
<1>1. UNCHANGED <<sent, new_outgoing, outgoing, incoming, back, cache, client, connects, answers,
                  unanswered, assigned, owner, stopped, handled, logged>>
  BY DEF Receive, balancer
<1>2. /\ x.requests # <<>> /\ links' = Answered(d, rs)
      /\ d \notin stopped => transfer' = [transfer EXCEPT ![d] = Append(@, e)] /\ lost' = lost
      /\ d \in stopped => /\ transfer' = transfer
                          /\ lost' = IF x.up THEN lost ELSE lost \cup {request.id}
  BY DEF Receive
<1>3. /\ x \in Link /\ transfer \in [Group -> Seq(Entry)] /\ connects \in [Group -> Nat]
      /\ \A g \in Group : Fresh(transfer[g])
  BY DEF MessagesInv, Typed
<1>4. request.id \in Message /\ request.number \in Nat
  <2>1. /\ x.requests \in Seq(Request)
        /\ \A r \in ToSet(x.requests) : r.id \in Message /\ r.number \in Nat
    BY <1>3, LinkIsTyped
  <2> HIDE DEF x
  <2>2. Head(x.requests) = x.requests[1] /\ x.requests[1] \in ToSet(x.requests)
    BY <1>2, <2>1, OfTail
  <2> QED
    BY <2>1, <2>2
<1> HIDE DEF x, request
<1>5. /\ done \in Reply /\ refused \in Reply /\ e \in Entry
      /\ done.kind = "processed" /\ done.number = request.number
      /\ refused.kind = "bad_address" /\ refused.id = request.id
      /\ e.id = request.id /\ ~e.asked
  BY <1>3, <1>4 DEF Reply, Entry
<1> HIDE DEF done, refused, e
<1>6. /\ rs \in Seq(Reply)
      /\ \A r \in ToSet(rs) : r.kind = "processed" => r.number = request.number
      /\ d \in stopped => refused \in ToSet(rs)
  <2>1. /\ <<done>> \in Seq(Reply) /\ DOMAIN <<done>> = {1} /\ <<done>>[1] = done
        /\ <<done, refused>> \in Seq(Reply) /\ DOMAIN <<done, refused>> = {1, 2}
        /\ <<done, refused>>[1] = done /\ <<done, refused>>[2] = refused
    BY <1>5
  <2>2. ToSet(<<done>>) = {done} /\ ToSet(<<done, refused>>) = {done, refused}
    BY <2>1 DEF ToSet
  <2> QED
    BY <1>5, <2>1, <2>2
<1> HIDE DEF rs
<1>7. /\ links' \in [Group -> Link] /\ \A g \in Group : g # d => links'[g] = links[g]
      /\ LinkOK(links'[d], client[d])
      /\ \A m : Returning(m, x) => Returning(m, links'[d])
      /\ \A m : Unconfirmed(m, client[d], x) =>
           Unconfirmed(m, client[d], links'[d]) \/ (m = request.id /\ x.up)
      /\ x.up => \A r \in ToSet(rs) : r \in ToSet(links'[d].replies)
  BY <1>2, <1>6, AnsweredOK DEF x, request
<1>8. /\ transfer' \in [Group -> Seq(Entry)] /\ \A g \in Group : Fresh(transfer'[g])
      /\ \A g \in Group : \A m : Has(transfer[g], m) => Has(transfer'[g], m)
      /\ d \notin stopped => Has(transfer'[d], request.id)
  <2>1. CASE d \in stopped
    BY <1>2, <1>3, <2>1
  <2>2. CASE d \notin stopped
    <3> DEFINE s == transfer[d]
    <3>1. s \in Seq(Entry)
      BY <1>3
    <3>2. transfer' = [transfer EXCEPT ![d] = Append(s, e)]
      BY <1>2, <2>2
    <3>3. Append(s, e) \in Seq(Entry) /\ ToSet(Append(s, e)) = ToSet(s) \cup {e}
      BY <1>5, <3>1, OfAppend
    <3>4. /\ transfer' \in [Group -> Seq(Entry)] /\ transfer'[d] = Append(s, e)
          /\ \A g \in Group : g # d => transfer'[g] = transfer[g]
      BY <1>3, <3>2, <3>3
    <3>5. Fresh(transfer'[d]) /\ Has(transfer'[d], request.id)
      BY <1>3, <1>5, <3>3, <3>4 DEF Fresh, Has
    <3>6. \A m : Has(transfer[d], m) => Has(transfer'[d], m)
      BY <3>3, <3>4 DEF Has
    <3> QED
      BY <1>3, <3>4, <3>5, <3>6
  <2> QED
    BY <2>1, <2>2
<1>9. lost \subseteq lost' /\ lost' \subseteq Message
      /\ (d \in stopped /\ ~x.up => request.id \in lost')
  BY <1>2, <1>4 DEF MessagesInv, Typed
<1>10. Typed'
  BY <1>1, <1>7, <1>8, <1>9 DEF MessagesInv, Typed
<1>11. \A g \in Group : LinkOK(links'[g], client'[g])
  BY <1>1, <1>7 DEF MessagesInv
<1>12. ASSUME NEW m, m = request.id
       PROVE  At(m, d)' \/ m \in lost'
  <2>1. CASE d \notin stopped
    BY <1>8, <1>12, <2>1 DEF At
  <2>2. CASE d \in stopped /\ x.up
    <3>1. Returning(m, links'[d])
      BY <1>5, <1>6, <1>7, <1>12, <2>2 DEF Returning
    <3> QED
      BY <3>1 DEF At
  <2>3. CASE d \in stopped /\ ~x.up
    BY <1>9, <1>12, <2>3
  <2> QED
    BY <2>1, <2>2, <2>3
<1>13. ASSUME NEW m \in Message, Counted(m)
       PROVE  Counted(m)'
  <2>1. ASSUME NEW g \in Group, At(m, g)
        PROVE  At(m, g)' \/ m \in lost'
    <3>1. CASE g # d
      BY <1>1, <1>7, <1>8, <2>1, <3>1 DEF At
    <3>2. CASE g = d /\ m = request.id
      BY <1>12, <3>2
    <3>3. CASE g = d /\ m # request.id
      BY <1>1, <1>7, <1>8, <2>1, <3>3 DEF At, x
    <3> QED
      BY <3>1, <3>2, <3>3
  <2> QED
    BY <1>1, <1>9, <1>13, <2>1 DEF Counted, Ended
<1>14. \A i \in 1..sent' : Counted(Messages[i])'
  BY <1>1, <1>13, SentStays
<1>15. AllAsked' /\ SenderAsked'
  BY <1>1, AsksStay
<1> QED
  BY <1>1, <1>8, <1>10, <1>11, <1>14, <1>15 DEF MessagesInv

-----------------------------------------------------------------------------
(* Tickets are dropped *)

\* What is common to the actions with DroppedTickets: the messages whose
\* tickets are not there any more were dropped.
LEMMA DropsStep ==
  ASSUME MessagesInv, NEW d \in Group,
         NEW e, ClientOK(e, Message, Location), ClientBecomes(d, e),
         NEW k \in Link, LinkOK(k, e), LinkBecomes(d, k),
         NEW drops \in Seq(DropOf(Message, Location)), NEW late, DroppedTickets(drops, late),
         UNCHANGED <<sent, outgoing, transfer, incoming, back, connects, answers, unanswered,
                     assigned, owner, stopped, handled, lost>>,
         \A m : ToSend(m, client[d]) => ToSend(m, e) \/ IsDropped(m, drops),
         \A m : Unconfirmed(m, client[d], links[d]) =>
                  ToSend(m, e) \/ Unconfirmed(m, e, k) \/ IsDropped(m, drops),
         \A m : Returning(m, links[d]) => Returning(m, k)
  PROVE  MessagesInv'
<1>1. /\ links' \in [Group -> Link] /\ links'[d] = k
      /\ \A g \in Group : g # d => links'[g] = links[g]
  BY LinkBecomesOK
<1>2. /\ ClientsOK(client') /\ client'[d] = e
      /\ \A g \in Group : g # d => client'[g] = client[g]
  BY ClientBecomesOK
<1>3. /\ new_outgoing' \in Seq(Entry)
      /\ Fresh(new_outgoing) => Fresh(new_outgoing')
      /\ \A m : Has(new_outgoing, m) => Has(new_outgoing', m)
      /\ cache' \in [Location -> Address]
      /\ logged' \subseteq Message /\ logged \subseteq logged'
      /\ \A m : IsDropped(m, drops) => Has(new_outgoing', m) \/ m \in logged'
  <2>1. Typed
    BY DEF MessagesInv
  <2> QED
    BY <2>1, DroppedTicketsOK
<1>4. Typed'
  BY <1>1, <1>2, <1>3 DEF MessagesInv, Typed
<1>5. Fresh(new_outgoing') /\ \A g \in Group : Fresh(transfer'[g])
  BY <1>3 DEF MessagesInv
<1>6. \A g \in Group : LinkOK(links'[g], client'[g])
  BY <1>1, <1>2 DEF MessagesInv
<1>7. ASSUME NEW m \in Message, Counted(m)
      PROVE  Counted(m)'
  <2>1. ASSUME NEW g \in Group, At(m, g)
        PROVE  At(m, g)' \/ Has(new_outgoing', m) \/ m \in logged'
    <3>1. CASE g # d
      BY <1>1, <1>2, <2>1, <3>1 DEF At
    <3>2. CASE g = d
      BY <1>1, <1>2, <1>3, <2>1, <3>2 DEF At
    <3> QED
      BY <3>1, <3>2
  <2> QED
    BY <1>3, <1>7, <2>1 DEF Counted, Ended
<1>8. \A i \in 1..sent' : Counted(Messages[i])'
  BY <1>7, SentStays
<1>9. AllAsked' /\ SenderAsked'
  BY AsksStay
<1> QED
  BY <1>4, <1>5, <1>6, <1>8, <1>9 DEF MessagesInv

LEMMA DropDueTicketsStep ==
  ASSUME MessagesInv, NEW d \in Group, DropDueTickets(d)
  PROVE  MessagesInv'
<1>1. PICK due, late :
        /\ client' = [client EXCEPT ![d] = DropDue(client[d], due).client]
        /\ DroppedTickets(DropDue(client[d], due).dropped, late)
  BY DEF DropDueTickets
<1> DEFINE c == client[d]
           e == DropDue(c, due).client
           drops == DropDue(c, due).dropped
           k == links[d]
<1>2. ClientBecomes(d, e) /\ DroppedTickets(drops, late)
  BY <1>1 DEF ClientBecomes
<1>3. /\ ClientOK(c, Message, Location) /\ k \in Link /\ LinkOK(k, c) /\ links \in [Group -> Link]
  BY DEF MessagesInv, Typed, ClientsOK
<1>4. UNCHANGED <<sent, outgoing, transfer, incoming, back, links, connects, answers, unanswered,
                  assigned, owner, stopped, handled, lost>>
  BY DEF DropDueTickets, balancer
<1>5. LinkBecomes(d, k)
  BY <1>3, <1>4 DEF LinkBecomes
<1> HIDE DEF c, k
<1>6. /\ ClientOK(e, Message, Location) /\ e.wait = c.wait
      /\ e.sequence_number = c.sequence_number
      /\ ToSet(e.out) \subseteq ToSet(c.out)
      /\ drops \in Seq(DropOf(Message, Location))
  <2>1. ClientOK(c, Message, Location)
    BY <1>3
  <2>2. ClientOK(e, Message, Location) /\ e.wait = c.wait
    BY <2>1, DropDueOK
  <2>3. e.sequence_number = c.sequence_number
    BY <2>1, DropDueOK
  <2>4. ToSet(e.out) \subseteq ToSet(c.out)
    BY <2>1, DropDueOK, Zenon
  <2>5. drops \in Seq(DropOf(Message, Location))
    BY <2>1, DropDueOK
  <2> QED
    BY <2>2, <2>3, <2>4, <2>5
<1>7. \A t \in ToSet(c.out) : t \in ToSet(e.out) \/ IsDropped(t.data, drops)
  BY <1>3, DropDueOK
<1> HIDE DEF e, drops
<1>8. LinkOK(k, e)
  <2>1. c.sequence_number <= c.sequence_number
    BY <1>3, TicketsAreTyped
  <2>2. Grows(c, e) /\ ToSet(e.wait) \subseteq ToSet(c.wait)
    BY <1>6, <2>1 DEF Grows
  <2> QED
    BY <1>3, <1>6, <2>2, LinkGrows
<1>9. \A m : ToSend(m, c) => ToSend(m, e) \/ IsDropped(m, drops)
  BY <1>7 DEF ToSend
<1>10. \A m : Unconfirmed(m, c, k) => Unconfirmed(m, e, k)
  BY <1>6 DEF Unconfirmed
<1> QED
  BY <1>2, <1>3, <1>4, <1>5, <1>6, <1>8, <1>9, <1>10, DropsStep DEF c, k

LEMMA CloseIdleStep ==
  ASSUME MessagesInv, NEW d \in Group, CloseIdle(d)
  PROVE  MessagesInv'
<1> DEFINE c == client[d]
           drops == CloseClient(c).dropped
           x == links[d]
           k == [up |-> FALSE, requests |-> x.requests, replies |-> x.replies]
<1>1. /\ ClientOK(c, Message, Location) /\ x \in Link /\ links \in [Group -> Link]
  BY DEF MessagesInv, Typed, ClientsOK
<1>2. /\ c.out = <<>> /\ x.requests = <<>> /\ x.replies = <<>>
      /\ ClientBecomes(d, NewClient) /\ DroppedTickets(drops, {})
  BY DEF CloseIdle, ClientBecomes
<1>3. UNCHANGED <<sent, outgoing, transfer, incoming, back, connects, answers, unanswered,
                  assigned, owner, stopped, handled, lost>>
  BY DEF CloseIdle, balancer
<1>4. LinkBecomes(d, k)
  <2>1. links' = [links EXCEPT ![d].up = FALSE]
    BY DEF CloseIdle
  <2>2. DOMAIN links' = Group /\ \A g \in Group : g # d => links'[g] = links[g]
    BY <1>1, <2>1
  <2>3. links'[d] = k
    BY <1>1, <2>1 DEF Link
  <2> HIDE DEF k
  <2>4. \A g \in Group : links'[g] = [links EXCEPT ![d] = k][g]
    BY <1>1, <2>2, <2>3
  <2> QED
    BY <1>1, <2>1, <2>2, <2>4 DEF LinkBecomes
<1>5. x.requests \in Seq(Request) /\ x.replies \in Seq(Reply)
  BY <1>1, LinkIsTyped
<1> HIDE DEF c, x, drops
<1>6. k \in Link /\ k.requests = <<>> /\ k.replies = <<>>
  BY <1>2, <1>5 DEF Link, Request
<1> HIDE DEF k
<1>7. ToSet(k.requests) = {} /\ ToSet(k.replies) = {} /\ ToSet(x.replies) = {} /\ ToSet(c.out) = {}
  BY <1>2, <1>6 DEF ToSet
<1>8. LinkOK(k, NewClient)
  BY <1>7 DEF LinkOK
<1>9. ClientOK(NewClient, Message, Location)
  BY NewClientOK
<1>10. drops \in Seq(DropOf(Message, Location)) /\ \A t \in ToSet(c.wait) : IsDropped(t.data, drops)
  BY <1>1, CloseClientDrops DEF drops
<1>11. /\ \A m : ToSend(m, c) => IsDropped(m, drops)
       /\ \A m : Unconfirmed(m, c, x) => IsDropped(m, drops)
       /\ \A m : Returning(m, x) => Returning(m, k)
  BY <1>7, <1>10 DEF ToSend, Unconfirmed, Returning
<1> QED
  BY <1>2, <1>3, <1>4, <1>6, <1>8, <1>9, <1>10, <1>11, DropsStep DEF c, x

LEMMA AcknowledgeStep ==
  ASSUME MessagesInv, NEW d \in Group, Acknowledge(d)
  PROVE  MessagesInv'
<1> DEFINE c == client[d]
           x == links[d]
           reply == Head(x.replies)
           number == reply.number
           p == Tail(x.replies)
           k == [up |-> x.up, requests |-> x.requests, replies |-> p]
<1>1. PICK due, late :
        /\ client' = [client EXCEPT ![d] = PreProcessMessage(c, number, due).client]
        /\ DroppedTickets(PreProcessMessage(c, number, due).dropped, late)
  BY DEF Acknowledge
<1> DEFINE r == PreProcessMessage(c, number, due)
           e == r.client
           drops == r.dropped
<1>2. ClientBecomes(d, e) /\ DroppedTickets(drops, late)
  BY <1>1 DEF ClientBecomes
<1>3. /\ ClientOK(c, Message, Location) /\ x \in Link /\ LinkOK(x, c) /\ links \in [Group -> Link]
  BY DEF MessagesInv, Typed, ClientsOK
<1>4. x.replies # <<>> /\ reply.kind = "processed"
  BY DEF Acknowledge
<1>5. UNCHANGED <<sent, outgoing, transfer, incoming, back, connects, answers, unanswered,
                  assigned, owner, stopped, handled, lost>>
  BY DEF Acknowledge, balancer
<1>6. LinkBecomes(d, k)
  <2>1. links' = [links EXCEPT ![d].replies = Tail(@)]
    BY DEF Acknowledge
  <2>2. DOMAIN links' = Group /\ \A g \in Group : g # d => links'[g] = links[g]
    BY <1>3, <2>1
  <2>3. links'[d] = k
    BY <1>3, <2>1 DEF Link
  <2> HIDE DEF k
  <2>4. \A g \in Group : links'[g] = [links EXCEPT ![d] = k][g]
    BY <1>3, <2>2, <2>3
  <2> QED
    BY <1>3, <2>1, <2>2, <2>4 DEF LinkBecomes
<1>7. /\ x.requests \in Seq(Request) /\ x.replies \in Seq(Reply) /\ x.up \in BOOLEAN
      /\ \A a \in ToSet(x.replies) : a.kind = "processed" => a.number \in Nat
  BY <1>3, LinkIsTyped
<1> HIDE DEF r, c, x, k
<1>8. /\ p \in Seq(Reply) /\ ToSet(x.replies) = ToSet(p) \cup {x.replies[1]}
      /\ reply = x.replies[1] /\ reply \in ToSet(x.replies)
  BY <1>4, <1>7, OfTail
<1> HIDE DEF reply, p
<1>9. k \in Link /\ k.requests = x.requests /\ k.replies = p
  BY <1>7, <1>8 DEF k, Link, Request
<1>10. number \in Nat /\ Past(number, c)
  BY <1>3, <1>4, <1>7, <1>8 DEF LinkOK
<1>11. Processed(number, x)
  BY <1>4, <1>8 DEF Processed
<1> HIDE DEF number
<1>12. Acknowledges(c, number, r, Message, Location)
  BY <1>3, <1>10, PreProcessMessageOK DEF r
<1>13. ClientOK(e, Message, Location) /\ drops \in Seq(DropOf(Message, Location))
  BY <1>12 DEF Acknowledges
<1>14. Grows(c, e) /\ ToSet(e.wait) \subseteq ToSet(c.wait)
  BY <1>12 DEF Acknowledges, Grows
<1>15. /\ \A t \in ToSet(c.out) : t.number \in Nat
       /\ \A t \in ToSet(c.wait) : t.number \in Nat
  BY <1>3, TicketsAreTyped
<1>16. \A t \in ToSet(c.out) : t \in ToSet(e.out)
  BY <1>10, <1>12, <1>15 DEF Acknowledges, Past
<1>17. \A t \in ToSet(c.wait) : \/ t.number = number
                                \/ t \in ToSet(e.wait)
                                \/ IsRolled(t, r, c.sequence_number)
                                \/ IsDropped(t.data, drops)
  BY <1>10, <1>12, <1>15 DEF Acknowledges
<1>18. \A t : IsRolled(t, r, c.sequence_number) => ToSend(t.data, e) \/ IsDropped(t.data, drops)
  BY DEF IsRolled, ToSend
<1> HIDE DEF e, drops
<1>19. LinkOK(k, e)
  <2>1. LinkOK(x, e)
    BY <1>3, <1>13, <1>14, LinkGrows
  <2> QED
    BY <1>8, <1>9, <2>1 DEF LinkOK
<1>20. \A m : ToSend(m, c) => ToSend(m, e)
  BY <1>16 DEF ToSend
<1>21. ASSUME NEW m, Unconfirmed(m, c, x)
       PROVE  ToSend(m, e) \/ Unconfirmed(m, e, k) \/ IsDropped(m, drops)
  <2>1. PICK t \in ToSet(c.wait) : t.data = m /\ ~Processed(t.number, x)
    BY <1>21 DEF Unconfirmed
  <2>2. t.number # number
    BY <1>11, <2>1
  <2>3. ~Processed(t.number, k)
    BY <1>8, <1>9, <2>1 DEF Processed
  <2> QED
    BY <1>17, <1>18, <2>1, <2>2, <2>3 DEF Unconfirmed
<1>22. \A m : Returning(m, x) => Returning(m, k)
  BY <1>4, <1>8, <1>9 DEF Returning
<1> QED
  BY <1>2, <1>3, <1>5, <1>6, <1>9, <1>13, <1>19, <1>20, <1>21, <1>22, DropsStep DEF c, x

-----------------------------------------------------------------------------
(* A group stops *)

\* Messages that go back to where they came from.
Returns(in, to) == [i \in DOMAIN in |-> [id |-> in[i].id, socket |-> in[i].socket, group |-> to]]

LEMMA OfReturns ==
  ASSUME NEW in \in Seq(Entry), NEW to \in Address
  PROVE  /\ Returns(in, to) \in Seq(Returned)
         /\ \A e \in ToSet(in) : Has(Returns(in, to), e.id)
<1> DEFINE q == Returns(in, to)
<1>1. /\ DOMAIN in = 1..Len(in) /\ Len(in) \in Nat
      /\ \A i \in DOMAIN in : in[i] \in Entry
  BY ElementsAreTyped
<1>2. \A e \in Entry : [id |-> e.id, socket |-> e.socket, group |-> to] \in Returned
  BY DEF Entry, Returned, Address
<1>3. DOMAIN q = DOMAIN in /\ \A i \in DOMAIN in : q[i] \in Returned /\ q[i].id = in[i].id
  BY <1>1, <1>2 DEF Returns
<1>4. q \in Seq(Returned)
  <2>1. q \in [1..Len(in) -> Returned]
    BY <1>1, <1>3 DEF Returns
  <2> QED
    BY <1>1, <2>1
<1> HIDE DEF q
<1>5. \A e \in ToSet(in) : Has(q, e.id)
  BY <1>3 DEF Has, ToSet
<1> QED
  BY <1>4, <1>5 DEF q

\* The client of every server drops what it has to send.
WithNothingToSend == [d \in Group |-> DropTickets(client[d]).client]

LEMMA StoppedClients ==
  ASSUME MessagesInv
  PROVE  /\ ClientsOK(WithNothingToSend)
         /\ \A d \in Group : /\ LinkOK(links[d], WithNothingToSend[d])
                             /\ WithNothingToSend[d].wait = client[d].wait
<1>1. ASSUME NEW d \in Group
      PROVE  /\ ClientOK(WithNothingToSend[d], Message, Location)
             /\ LinkOK(links[d], WithNothingToSend[d])
             /\ WithNothingToSend[d].wait = client[d].wait
  <2> DEFINE c == client[d]
             k == links[d]
             e == DropTickets(c).client
  <2>1. ClientOK(c, Message, Location) /\ k \in Link /\ LinkOK(k, c)
    BY DEF MessagesInv, Typed, ClientsOK
  <2>2. WithNothingToSend[d] = e
    BY DEF WithNothingToSend
  <2> HIDE DEF c, k
  <2>3. /\ ClientOK(e, Message, Location) /\ e.wait = c.wait /\ e.out = <<>>
        /\ e.sequence_number = c.sequence_number
    BY <2>1, DropTicketsOK
  <2> HIDE DEF e
  <2>4. ToSet(e.out) = {} /\ c.sequence_number <= c.sequence_number
    BY <2>1, <2>3, TicketsAreTyped DEF ToSet
  <2>5. Grows(c, e) /\ ToSet(e.wait) \subseteq ToSet(c.wait)
    BY <2>3, <2>4 DEF Grows
  <2>6. LinkOK(k, e)
    BY <2>1, <2>3, <2>5, LinkGrows
  <2> QED
    BY <2>2, <2>3, <2>6 DEF c, k
<1>2. \A d \in Group : WithNothingToSend[d] \in ClientOf(Message, Location)
  BY <1>1 DEF ClientOK
<1>3. WithNothingToSend \in [Group -> ClientOf(Message, Location)]
  BY <1>2 DEF WithNothingToSend
<1> QED
  BY <1>1, <1>3 DEF ClientsOK

LEMMA StopStep ==
  ASSUME MessagesInv, NEW g \in Group, Stop(g)
  PROVE  MessagesInv'
<1> DEFINE a == incoming[g]
           b == transfer[g]
           in == a \o b
           z == back[g]
           r == Returns(in, NoGroup)
           queued == IF g = Sender THEN UNION {IdsOf(client[d].out) : d \in Group} ELSE {}
           out == IF g = Sender THEN Ids(outgoing) ELSE {}
<1>1. /\ incoming \in [Group -> Seq(Entry)] /\ transfer \in [Group -> Seq(Entry)]
      /\ back \in [Group -> Seq(Returned)] /\ outgoing \in Seq(Entry)
      /\ a \in Seq(Entry) /\ b \in Seq(Entry) /\ z \in Seq(Returned) /\ Fresh(b)
      /\ \A x \in Group : Fresh(transfer[x])
  BY DEF MessagesInv, Typed
<1>2. /\ transfer' = [transfer EXCEPT ![g] = <<>>]
      /\ incoming' = [incoming EXCEPT ![g] = in]
      /\ back' = [back EXCEPT ![g] = z \o r]
      /\ logged' = logged \cup queued \cup out
  BY DEF Stop, For, Returns
<1>3. client' = IF g = Sender THEN WithNothingToSend ELSE client
  BY DEF Stop, WithNothingToSend
<1>4. UNCHANGED <<sent, new_outgoing, outgoing, links, connects, answers, unanswered,
                  handled, lost, cache>>
  BY DEF Stop
<1>5. /\ stopped' \subseteq Group /\ assigned' \in [Group -> SUBSET Location]
      /\ owner' \in [Location -> Address]
  <2>1. /\ stopped \subseteq Group /\ assigned \in [Group -> SUBSET Location]
        /\ owner \in [Location -> Address]
    BY DEF MessagesInv, Typed
  <2> QED
    BY <2>1 DEF Stop, Address
<1>6. /\ queued \subseteq Message
      /\ g = Sender => \A d \in Group : \A m : ToSend(m, client[d]) => m \in queued
  <2>1. ASSUME NEW d \in Group
        PROVE  IdsOf(client[d].out) \subseteq Message
    <3>1. ClientOK(client[d], Message, Location)
      BY DEF MessagesInv, Typed, ClientsOK
    <3>2. \A t \in ToSet(client[d].out) : t.data \in Message
      BY <3>1, TicketsAreTyped
    <3> QED
      BY <3>2 DEF IdsOf, ToSet
  <2>2. \A d \in Group : \A m : ToSend(m, client[d]) => m \in IdsOf(client[d].out)
    BY DEF ToSend, IdsOf, ToSet
  <2> QED
    BY <2>1, <2>2
<1>7. out \subseteq Message
  <2>1. \A e \in ToSet(outgoing) : e \in Entry
    BY <1>1, ElementsAreTyped
  <2>2. \A e \in ToSet(outgoing) : e.id \in Message
    BY <2>1 DEF Entry
  <2> QED
    BY <2>2 DEF Ids, ToSet
<1> HIDE DEF a, b, z, queued, out
<1>8. in \in Seq(Entry) /\ ToSet(in) = ToSet(a) \cup ToSet(b)
  BY <1>1, OfConcatenation
<1> HIDE DEF in
<1>9. r \in Seq(Returned)
  BY <1>8, OfReturns DEF Address
<1> HIDE DEF r
<1>10. z \o r \in Seq(Returned) /\ ToSet(z \o r) = ToSet(z) \cup ToSet(r)
  BY <1>1, <1>9, OfConcatenation
<1>11. /\ transfer' \in [Group -> Seq(Entry)] /\ incoming' \in [Group -> Seq(Entry)]
       /\ back' \in [Group -> Seq(Returned)]
       /\ transfer'[g] = <<>> /\ incoming'[g] = in /\ back'[g] = z \o r
       /\ \A x \in Group : x # g => /\ transfer'[x] = transfer[x]
                                    /\ incoming'[x] = incoming[x]
                                    /\ back'[x] = back[x]
  <2>1. <<>> \in Seq(Entry)
    OBVIOUS
  <2> QED
    BY <1>1, <1>2, <1>8, <1>10, <2>1
<1>12. /\ ClientsOK(client')
       /\ \A d \in Group : LinkOK(links[d], client'[d]) /\ client'[d].wait = client[d].wait
  BY <1>3, StoppedClients DEF MessagesInv, Typed
<1>13. logged' \subseteq Message /\ logged \subseteq logged'
  BY <1>2, <1>6, <1>7 DEF MessagesInv, Typed
<1>14. Typed'
  BY <1>4, <1>5, <1>11, <1>12, <1>13 DEF MessagesInv, Typed
<1>15. \A x \in Group : Fresh(transfer'[x])
  <2>1. Fresh(<<>>)
    BY DEF Fresh, ToSet
  <2> QED
    BY <1>1, <1>11, <2>1
<1>16. ASSUME NEW m \in Message, Counted(m)
       PROVE  Counted(m)'
  <2>1. ASSUME NEW x \in Group, At(m, x)
        PROVE  At(m, x)' \/ m \in logged'
    <3>1. CASE ToSend(m, client[x])
      BY <1>2, <1>3, <1>6, <3>1 DEF At
    <3>2. CASE Unconfirmed(m, client[x], links[x])
      BY <1>4, <1>12, <3>2 DEF At, Unconfirmed
    <3>3. CASE Returning(m, links[x])
      BY <1>4, <3>3 DEF At
    <3>4. CASE x # g
      BY <1>11, <2>1, <3>1, <3>2, <3>3, <3>4 DEF At
    <3>5. CASE x = g /\ (Has(transfer[x], m) \/ Has(incoming[x], m))
      <4>1. Has(in, m)
        BY <1>8, <3>5 DEF Has, a, b
      <4> QED
        BY <1>11, <3>5, <4>1 DEF At
    <3>6. CASE x = g /\ Has(back[x], m)
      <4>1. Has(z \o r, m)
        BY <1>10, <3>6 DEF Has, z
      <4> QED
        BY <1>11, <3>6, <4>1 DEF At
    <3> QED
      BY <2>1, <3>1, <3>2, <3>3, <3>4, <3>5, <3>6 DEF At
  <2> QED
    BY <1>4, <1>13, <1>16, <2>1 DEF Counted, Ended
<1>17. \A i \in 1..sent' : Counted(Messages[i])'
  BY <1>4, <1>16, SentStays
<1>18. AllAsked'
  <2> SUFFICES ASSUME NEW x \in Group, NEW e \in ToSet(incoming'[x]), e.asked
               PROVE  Asks(x, LocationOf[e.id])'
    BY DEF AllAsked
  <2>1. e \in ToSet(incoming[x])
    BY <1>1, <1>8, <1>11 DEF Fresh, a
  <2>2. Asks(x, LocationOf[e.id])
    BY <2>1 DEF MessagesInv, AllAsked
  <2> QED
    BY <1>4, <2>2 DEF Asks
<1>19. SenderAsked'
  BY <1>4 DEF MessagesInv, SenderAsked, Asks
<1> QED
  BY <1>4, <1>12, <1>14, <1>15, <1>17, <1>18, <1>19 DEF MessagesInv

-----------------------------------------------------------------------------
(* The balancer's answer *)

Here(entries, l) == Only(entries, {e \in ToSet(entries) : Awaits(e, l)})

LEMMA QueuedOK ==
  ASSUME NEW entries \in Seq(Entry), NEW l
  PROVE  /\ Queued(entries, l) \in Seq(Entry) /\ Here(entries, l) \in Seq(Entry)
         /\ ToSet(Queued(entries, l)) \subseteq ToSet(entries)
         /\ \A e \in ToSet(Queued(entries, l)) : ~Awaits(e, l)
         /\ \A m : Has(entries, m) => Has(Queued(entries, l), m) \/ Has(Here(entries, l), m)
<1> DEFINE S == {e \in ToSet(entries) : ~Awaits(e, l)}
           T == {e \in ToSet(entries) : Awaits(e, l)}
           q == Queued(entries, l)
           h == Here(entries, l)
<1>1. q = Only(entries, S) /\ h = Only(entries, T)
  BY DEF Queued, Here
<1>2. /\ \A e \in S : ~Awaits(e, l)
      /\ \A e \in ToSet(entries) : e \in S \/ e \in T
  OBVIOUS
<1> HIDE DEF S, T, q, h
<1>3. q \in Seq(Entry) /\ ToSet(q) = ToSet(entries) \cap S
  BY <1>1, OnlyElements
<1>4. h \in Seq(Entry) /\ ToSet(h) = ToSet(entries) \cap T
  BY <1>1, OnlyElements
<1>5. \A m : Has(entries, m) => Has(q, m) \/ Has(h, m)
  BY <1>2, <1>3, <1>4 DEF Has
<1> QED
  BY <1>2, <1>3, <1>4, <1>5 DEF q, h

LEMMA IdsAreHad ==
  ASSUME NEW entries \in Seq(Entry)
  PROVE  /\ Ids(entries) \subseteq Message
         /\ \A m : Has(entries, m) <=> m \in Ids(entries)
<1>1. \A i \in DOMAIN entries : entries[i] \in Entry
  BY ElementsAreTyped
<1>2. \A e \in Entry : e.id \in Message
  BY DEF Entry
<1> QED
  BY <1>1, <1>2 DEF Ids, Has, ToSet

LEMMA LinksStayOK ==
  ASSUME MessagesInv, NEW cs, ClientsOK(cs), Adds(client, cs)
  PROVE  /\ \A d \in Group : LinkOK(links[d], cs[d])
         /\ \A d \in Group : \A m : ToSend(m, client[d]) => ToSend(m, cs[d])
         /\ \A d \in Group : \A m :
              Unconfirmed(m, client[d], links[d]) => Unconfirmed(m, cs[d], links[d])
<1>1. ASSUME NEW d \in Group
      PROVE  LinkOK(links[d], cs[d])
  <2> DEFINE c == client[d]
             e == cs[d]
             k == links[d]
  <2>1. /\ ClientOK(c, Message, Location) /\ ClientOK(e, Message, Location)
        /\ k \in Link /\ LinkOK(k, c)
    BY DEF MessagesInv, Typed, ClientsOK
  <2>2. Grows(c, e) /\ ToSet(e.wait) \subseteq ToSet(c.wait)
    BY DEF Adds
  <2> HIDE DEF c, e, k
  <2>3. LinkOK(k, e)
    BY <2>1, <2>2, LinkGrows
  <2> QED
    BY <2>3 DEF k, e
<1>2. \A d \in Group : \A m : ToSend(m, client[d]) => ToSend(m, cs[d])
  BY DEF Adds, ToSend
<1>3. \A d \in Group : \A m :
        Unconfirmed(m, client[d], links[d]) => Unconfirmed(m, cs[d], links[d])
  BY DEF Adds, Unconfirmed
<1> QED
  BY <1>1, <1>2, <1>3

\* What becomes of messages that have left the queues of a group.
Arrive(ms, g) ==
  /\ ClientsOK(client') /\ Adds(client, client')
  /\ back' \in [Group -> Seq(Returned)]
  /\ \A x \in Group : \A m : Has(back[x], m) => Has(back'[x], m)
  /\ handled' \in [Message -> Nat] /\ \A m \in Message : handled[m] > 0 => handled'[m] > 0
  /\ logged \subseteq logged' /\ logged' \subseteq Message
  /\ lost \subseteq lost' /\ lost' \subseteq Message
  /\ \A m \in ms : InTicket(m, client') \/ Has(back'[g], m) \/ Ended(m)'

LEMMA AddressResponseArrives ==
  ASSUME MessagesInv, NEW g \in Group, NEW to \in Address,
         NEW out \in Seq(Entry), NEW in \in Seq(Entry),
         \/ /\ Handle(g, Ids(out \o in))
            /\ UNCHANGED <<client, back, logged>>
         \/ /\ logged' = logged \cup Ids(out \o in)
            /\ UNCHANGED <<client, back, handled, lost>>
         \/ /\ to # NoGroup
            /\ client' = TicketsTo(out, client, [k \in Location |-> to])
            /\ back' = [back EXCEPT ![g] = @ \o Returns(in, to)]
            /\ UNCHANGED <<handled, logged, lost>>
  PROVE  Arrive(Ids(out) \cup Ids(in), g)
<1> DEFINE all == out \o in
           ms == Ids(out) \cup Ids(in)
<1>1. all \in Seq(Entry) /\ ToSet(all) = ToSet(out) \cup ToSet(in)
  BY OfConcatenation
<1>2. \A m : Has(all, m) <=> Has(out, m) \/ Has(in, m)
  BY <1>1 DEF Has
<1>3. /\ Ids(all) \subseteq Message
      /\ \A m : Has(all, m) <=> m \in Ids(all)
      /\ \A m : Has(out, m) <=> m \in Ids(out)
      /\ \A m : Has(in, m) <=> m \in Ids(in)
  BY <1>1, IdsAreHad
<1> HIDE DEF all
<1>4. ms = Ids(all)
  BY <1>2, <1>3
<1>5. /\ Typed /\ ClientsOK(client) /\ Adds(client, client)
      /\ back \in [Group -> Seq(Returned)]
      /\ handled \in [Message -> Nat] /\ logged \subseteq Message /\ lost \subseteq Message
  BY AddsNothing DEF MessagesInv, Typed
<1>6. CASE Handle(g, Ids(all)) /\ UNCHANGED <<client, back, logged>>
  <2>1. /\ handled' \in [Message -> Nat] /\ lost' \subseteq Message
        /\ \A m \in Message : handled[m] > 0 => handled'[m] > 0
        /\ lost \subseteq lost'
        /\ \A m \in Ids(all) : handled'[m] > 0 \/ m \in lost'
    BY <1>3, <1>5, <1>6, HandleOK
  <2> QED
    BY <1>4, <1>5, <1>6, <2>1 DEF Arrive, Ended
<1>7. CASE logged' = logged \cup Ids(all) /\ UNCHANGED <<client, back, handled, lost>>
  BY <1>3, <1>4, <1>5, <1>7 DEF Arrive, Ended
<1>8. CASE /\ to # NoGroup
           /\ client' = TicketsTo(out, client, [k \in Location |-> to])
           /\ back' = [back EXCEPT ![g] = @ \o Returns(in, to)]
           /\ UNCHANGED <<handled, logged, lost>>
  <2> DEFINE address == [k \in Location |-> to]
             b == back[g]
             r == Returns(in, to)
  <2>1. \A e \in ToSet(out) : address[LocationOf[e.id]] \in Group
    <3>1. \A e \in ToSet(out) : e \in Entry
      BY ElementsAreTyped
    <3>2. \A e \in ToSet(out) : e.id \in Message
      BY <3>1 DEF Entry
    <3> QED
      BY <1>8, <3>2, LogicMessagesAssumption DEF Address
  <2>2. client' = TicketsTo(out, client, address)
    BY <1>8
  <2> HIDE DEF address
  <2>3. /\ ClientsOK(client') /\ Adds(client, client')
        /\ \A e \in ToSet(out) : InTicket(e.id, client')
    BY <1>5, <2>1, <2>2, TicketsToOK
  <2>4. r \in Seq(Returned) /\ \A e \in ToSet(in) : Has(r, e.id)
    BY OfReturns
  <2>5. b \in Seq(Returned) /\ back' = [back EXCEPT ![g] = b \o r]
    BY <1>5, <1>8
  <2> HIDE DEF b, r
  <2>6. b \o r \in Seq(Returned) /\ ToSet(b \o r) = ToSet(b) \cup ToSet(r)
    BY <2>4, <2>5, OfConcatenation
  <2>7. /\ back' \in [Group -> Seq(Returned)] /\ back'[g] = b \o r
        /\ \A x \in Group : x # g => back'[x] = back[x]
    BY <1>5, <2>5, <2>6
  <2>8. \A m : Has(b, m) \/ Has(r, m) => Has(back'[g], m)
    BY <2>6, <2>7 DEF Has
  <2>9. \A x \in Group : \A m : Has(back[x], m) => Has(back'[x], m)
    BY <2>7, <2>8 DEF b
  <2>10. \A m \in Ids(all) : InTicket(m, client') \/ Has(back'[g], m)
    <3> SUFFICES ASSUME NEW m \in Ids(all)
                 PROVE  InTicket(m, client') \/ Has(back'[g], m)
      OBVIOUS
    <3>1. CASE Has(out, m)
      BY <2>3, <3>1 DEF Has
    <3>2. CASE Has(in, m)
      <4>1. Has(r, m)
        BY <2>4, <3>2 DEF Has
      <4> QED
        BY <2>8, <4>1
    <3> QED
      BY <1>2, <1>3, <3>1, <3>2
  <2> QED
    BY <1>4, <1>5, <1>8, <2>3, <2>7, <2>9, <2>10 DEF Arrive
<1> QED
  BY <1>6, <1>7, <1>8 DEF all

LEMMA AddressResponseStep ==
  ASSUME MessagesInv, NEW g \in Group, AddressResponse(g)
  PROVE  MessagesInv'
<1> DEFINE as == answers[g]
           answer == Head(as)
           l == answer.location
           to == answer.group
           out == IF g = Sender THEN Here(outgoing, l) ELSE <<>>
           in == Here(incoming[g], l)
<1>1. /\ as \in Seq(Answer) /\ as # <<>> /\ answers \in [Group -> Seq(Answer)]
      /\ incoming \in [Group -> Seq(Entry)] /\ incoming[g] \in Seq(Entry)
      /\ outgoing \in Seq(Entry) /\ Sender \in Group
      /\ cache \in [Location -> Address] /\ assigned \in [Group -> SUBSET Location]
  BY LogicMessagesAssumption DEF MessagesInv, Typed, AddressResponse
<1>2. /\ answers' = [answers EXCEPT ![g] = Tail(as)]
      /\ outgoing' = IF g = Sender THEN Queued(outgoing, l) ELSE outgoing
      /\ incoming' = [incoming EXCEPT ![g] = Queued(incoming[g], l)]
      /\ cache' = IF g = Sender /\ to # NoGroup THEN [cache EXCEPT ![l] = to] ELSE cache
  BY DEF AddressResponse, For
<1>3. UNCHANGED <<sent, new_outgoing, transfer, links, connects, unanswered, owner, stopped>>
  BY DEF AddressResponse
<1>4. \/ /\ Handle(g, Ids(out \o in))
         /\ UNCHANGED <<client, back, logged>>
      \/ /\ logged' = logged \cup Ids(out \o in)
         /\ UNCHANGED <<client, back, handled, lost>>
      \/ /\ to # NoGroup
         /\ client' = TicketsTo(out, client, [k \in Location |-> to])
         /\ back' = [back EXCEPT ![g] = @ \o Returns(in, to)]
         /\ UNCHANGED <<handled, logged, lost>>
  BY DEF AddressResponse, For, Here, Returns
<1>5. /\ assigned' = assigned \/ assigned' = [assigned EXCEPT ![g] = @ \cup {l}]
  BY DEF AddressResponse
<1> HIDE DEF as
<1>6. /\ Tail(as) \in Seq(Answer)
      /\ ToSet(as) = ToSet(Tail(as)) \cup {answer} /\ answer \in ToSet(as)
  BY <1>1, OfTail
<1>7. answer \in Answer
  BY <1>1, <1>6, ElementsAreTyped
<1> HIDE DEF answer
<1>8. l \in Location /\ to \in Address
  BY <1>7 DEF Answer, Address
<1> HIDE DEF l, to
<1>9. /\ Queued(outgoing, l) \in Seq(Entry) /\ Here(outgoing, l) \in Seq(Entry)
      /\ ToSet(Queued(outgoing, l)) \subseteq ToSet(outgoing)
      /\ \A e \in ToSet(Queued(outgoing, l)) : ~Awaits(e, l)
      /\ \A m : Has(outgoing, m) => Has(Queued(outgoing, l), m) \/ Has(Here(outgoing, l), m)
  BY <1>1, QueuedOK
<1> DEFINE a == incoming[g]
           q == Queued(a, l)
<1>10. /\ q \in Seq(Entry) /\ Here(a, l) \in Seq(Entry)
       /\ ToSet(q) \subseteq ToSet(a)
       /\ \A e \in ToSet(q) : ~Awaits(e, l)
       /\ \A m : Has(a, m) => Has(q, m) \/ Has(Here(a, l), m)
  BY <1>1, QueuedOK
<1>11. out \in Seq(Entry) /\ in \in Seq(Entry)
  <2>1. <<>> \in Seq(Entry)
    OBVIOUS
  <2> QED
    BY <1>9, <1>10, <2>1
<1>12. Arrive(Ids(out) \cup Ids(in), g)
  <2> HIDE DEF out, in
  <2> QED
    BY <1>4, <1>8, <1>11, AddressResponseArrives
<1>13. /\ \A m : Has(out, m) => m \in Ids(out)
       /\ \A m : Has(in, m) => m \in Ids(in)
  <2> HIDE DEF out, in
  <2> QED
    BY <1>11, IdsAreHad
<1>14. /\ outgoing' \in Seq(Entry)
       /\ ToSet(outgoing') \subseteq ToSet(outgoing)
       /\ g = Sender => \A e \in ToSet(outgoing') : ~Awaits(e, l)
       /\ \A m : Has(outgoing, m) => Has(outgoing', m) \/ Has(out, m)
  BY <1>1, <1>2, <1>9
<1> HIDE DEF q, out
<1>15. /\ incoming' \in [Group -> Seq(Entry)] /\ incoming'[g] = q
       /\ \A x \in Group : x # g => incoming'[x] = incoming[x]
  BY <1>1, <1>2, <1>10 DEF q
<1>16. /\ answers' \in [Group -> Seq(Answer)] /\ answers'[g] = Tail(as)
       /\ \A x \in Group : x # g => answers'[x] = answers[x]
  BY <1>1, <1>2, <1>6
<1>17. cache' \in [Location -> Address] /\ assigned' \in [Group -> SUBSET Location]
  <2>1. cache' \in [Location -> Address]
    BY <1>1, <1>2, <1>8
  <2>2. assigned \in [Group -> SUBSET Location] /\ l \in Location
    BY <1>1, <1>8
  <2>3. [assigned EXCEPT ![g] = @ \cup {l}] \in [Group -> SUBSET Location]
    BY <2>2
  <2>4. assigned' \in [Group -> SUBSET Location]
    BY <1>5, <2>2, <2>3
  <2> QED
    BY <2>1, <2>4
<1>18. Typed'
  BY <1>3, <1>12, <1>14, <1>15, <1>16, <1>17 DEF MessagesInv, Typed, Arrive
<1>19. /\ \A d \in Group : LinkOK(links[d], client'[d])
       /\ \A d \in Group : \A m : ToSend(m, client[d]) => ToSend(m, client'[d])
       /\ \A d \in Group : \A m :
            Unconfirmed(m, client[d], links[d]) => Unconfirmed(m, client'[d], links[d])
  BY <1>12, LinksStayOK DEF Arrive
<1>20. ASSUME NEW m \in Message, m \in Ids(out) \cup Ids(in)
       PROVE  Counted(m)'
  <2>1. InTicket(m, client') \/ Has(back'[g], m) \/ Ended(m)'
    BY <1>12, <1>20 DEF Arrive
  <2> QED
    BY <2>1 DEF Counted, At, InTicket
<1>21. ASSUME NEW m \in Message, Counted(m), m \notin Ids(out) \cup Ids(in)
       PROVE  Counted(m)'
  <2>1. Has(outgoing, m) => Has(outgoing', m)
    BY <1>13, <1>14, <1>21
  <2>2. ASSUME NEW x \in Group, Has(incoming[x], m)
        PROVE  Has(incoming'[x], m)
    BY <1>10, <1>13, <1>15, <1>21, <2>2
  <2>3. ASSUME NEW x \in Group, At(m, x)
        PROVE  At(m, x)'
    BY <1>3, <1>12, <1>19, <2>2, <2>3 DEF At, Arrive
  <2>4. Ended(m) => Ended(m)'
    BY <1>12 DEF Arrive, Ended
  <2> QED
    BY <1>3, <1>21, <2>1, <2>3, <2>4 DEF Counted
<1>22. \A i \in 1..sent' : Counted(Messages[i])'
  BY <1>3, <1>20, <1>21, SentStays
<1>23. ASSUME NEW x \in Group, NEW k, Asks(x, k), x = g => k # l
       PROVE  Asks(x, k)'
  <2>1. CASE <<x, k>> \in unanswered
    BY <1>3, <2>1 DEF Asks
  <2>2. CASE AnswerFor(k, answers[x]) /\ x # g
    BY <1>16, <2>2 DEF Asks
  <2>3. CASE AnswerFor(k, as) /\ x = g
    <3>1. AnswerFor(k, Tail(as))
      BY <1>6, <1>23, <2>3 DEF AnswerFor, l
    <3> QED
      BY <1>16, <2>3, <3>1 DEF Asks
  <2> QED
    BY <1>23, <2>1, <2>2, <2>3 DEF Asks, as
<1>24. AllAsked'
  <2> SUFFICES ASSUME NEW x \in Group, NEW e \in ToSet(incoming'[x]), e.asked
               PROVE  Asks(x, LocationOf[e.id])'
    BY DEF AllAsked
  <2>1. e \in ToSet(incoming[x]) /\ (x = g => ~Awaits(e, l))
    BY <1>10, <1>15
  <2>2. Asks(x, LocationOf[e.id])
    BY <2>1 DEF MessagesInv, AllAsked
  <2>3. x = g => LocationOf[e.id] # l
    BY <2>1 DEF Awaits
  <2> QED
    BY <1>23, <2>2, <2>3
<1>25. SenderAsked'
  <2> SUFFICES ASSUME NEW e \in ToSet(outgoing'), e.asked
               PROVE  Asks(Sender, LocationOf[e.id])'
    BY DEF SenderAsked
  <2>1. e \in ToSet(outgoing) /\ (Sender = g => ~Awaits(e, l))
    BY <1>14
  <2>2. Asks(Sender, LocationOf[e.id])
    BY <2>1 DEF MessagesInv, SenderAsked
  <2>3. Sender = g => LocationOf[e.id] # l
    BY <2>1 DEF Awaits
  <2> QED
    BY <1>1, <1>23, <2>2, <2>3
<1> QED
  BY <1>3, <1>18, <1>19, <1>22, <1>24, <1>25 DEF MessagesInv

-----------------------------------------------------------------------------
(* The queues are gone through *)

LEMMA OfThree ==
  ASSUME NEW X, NEW s \in Seq(X), NEW t \in Seq(X), NEW u \in Seq(X)
  PROVE  /\ s \o t \o u \in Seq(X)
         /\ ToSet(s \o t \o u) = ToSet(s) \cup ToSet(t) \cup ToSet(u)
<1>1. s \o t \in Seq(X) /\ ToSet(s \o t) = ToSet(s) \cup ToSet(t)
  BY OfConcatenation
<1>2. ASSUME NEW z \in Seq(X), ToSet(z) = ToSet(s) \cup ToSet(t)
      PROVE  z \o u \in Seq(X) /\ ToSet(z \o u) = ToSet(s) \cup ToSet(t) \cup ToSet(u)
  BY <1>2, OfConcatenation
<1> QED
  BY <1>1, <1>2

LEMMA IntervalMSecondStep ==
  ASSUME MessagesInv, NEW g \in Group, IntervalMSecond(g)
  PROVE  MessagesInv'
<1> DEFINE as == answers[g]
           coming == incoming[g] \o transfer[g]
           going == IF g = Sender THEN outgoing \o new_outgoing ELSE <<>>
<1>1. PICK expired :
        LET in == Sorted(coming, g, Nowhere, expired)
            out == Sorted(going, g, cache, expired) IN
        /\ transfer' = [transfer EXCEPT ![g] = <<>>]
        /\ incoming' = [incoming EXCEPT ![g] = in.queue]
        /\ outgoing' = IF g = Sender THEN out.queue ELSE outgoing
        /\ new_outgoing' = IF g = Sender THEN <<>> ELSE new_outgoing
        /\ client' = TicketsTo(out.goes, client, cache)
        /\ \E o \in Picks(in.asks \cup out.asks) :
             /\ answers' = [answers EXCEPT ![g] = @ \o Answers(in.asks, o) \o Answers(out.asks, o)]
             /\ owner' = [l \in Location |-> IF l \in in.asks \cup out.asks /\ owner[l] = NoGroup
                                             THEN o ELSE owner[l]]
        /\ Handle(g, in.handled \cup out.handled)
        /\ logged' = logged \cup in.dropped \cup out.dropped
  BY DEF IntervalMSecond, For
<1> DEFINE in == Sorted(coming, g, Nowhere, expired)
           out == Sorted(going, g, cache, expired)
<1>0. PICK o \in Picks(in.asks \cup out.asks) :
        /\ answers' = [answers EXCEPT ![g] = @ \o Answers(in.asks, o) \o Answers(out.asks, o)]
        /\ owner' = [l \in Location |-> IF l \in in.asks \cup out.asks /\ owner[l] = NoGroup
                                        THEN o ELSE owner[l]]
  BY <1>1
<1> DEFINE x == Answers(in.asks, o)
           y == Answers(out.asks, o)
<1>2. /\ transfer' = [transfer EXCEPT ![g] = <<>>]
      /\ incoming' = [incoming EXCEPT ![g] = in.queue]
      /\ outgoing' = IF g = Sender THEN out.queue ELSE outgoing
      /\ new_outgoing' = IF g = Sender THEN <<>> ELSE new_outgoing
  BY <1>1
<1>3. /\ client' = TicketsTo(out.goes, client, cache)
      /\ answers' = [answers EXCEPT ![g] = as \o x \o y]
      /\ logged' = logged \cup in.dropped \cup out.dropped
  BY <1>0, <1>1
<1>4. Handle(g, in.handled \cup out.handled)
  BY <1>1
<1>5. owner' = [l \in Location |-> IF l \in in.asks \cup out.asks /\ owner[l] = NoGroup
                                   THEN o ELSE owner[l]]
  BY <1>0
<1>6. o \in Address
  BY DEF Picks, Address
<1>7. UNCHANGED <<sent, back, cache, links, connects, unanswered, assigned, stopped>>
  BY DEF IntervalMSecond
<1>8. /\ Typed /\ Sender \in Group
      /\ incoming \in [Group -> Seq(Entry)] /\ transfer \in [Group -> Seq(Entry)]
      /\ outgoing \in Seq(Entry) /\ new_outgoing \in Seq(Entry)
      /\ cache \in [Location -> Address] /\ owner \in [Location -> Address]
      /\ answers \in [Group -> Seq(Answer)] /\ as \in Seq(Answer) /\ ClientsOK(client)
      /\ logged \subseteq Message
      /\ Fresh(new_outgoing) /\ \A h \in Group : Fresh(transfer[h])
  BY LogicMessagesAssumption DEF MessagesInv, Typed
<1>9. /\ coming \in Seq(Entry)
      /\ ToSet(coming) = ToSet(incoming[g]) \cup ToSet(transfer[g])
  BY <1>8, OfConcatenation
<1>10. /\ outgoing \o new_outgoing \in Seq(Entry)
       /\ ToSet(outgoing \o new_outgoing) = ToSet(outgoing) \cup ToSet(new_outgoing)
  BY <1>8, OfConcatenation
<1>11. /\ going \in Seq(Entry)
       /\ g = Sender => ToSet(going) = ToSet(outgoing) \cup ToSet(new_outgoing)
  <2>1. <<>> \in Seq(Entry)
    OBVIOUS
  <2> QED
    BY <1>10, <2>1
<1> HIDE DEF coming, going, as
<1>12. Nowhere \in [Location -> Address] /\ \A l \in Location : Nowhere[l] = NoGroup
  BY DEF Nowhere, Address
<1>13. Sorts(coming, Nowhere, in)
  BY <1>9, <1>12, SortedOK
<1>14. Sorts(going, cache, out)
  BY <1>8, <1>11, SortedOK
<1> HIDE DEF in, out
<1>15. \A e \in ToSet(coming) : Has(in.queue, e.id) \/ e.id \in in.handled \cup in.dropped
  <2>1. \A e \in ToSet(in.goes) : e \in Entry
    BY <1>13, ElementsAreTyped DEF Sorts
  <2>2. \A e \in ToSet(in.goes) : LocationOf[e.id] \in Location
    BY <2>1, LogicMessagesAssumption DEF Entry
  <2>3. \A e \in ToSet(in.goes) : FALSE
    BY <1>12, <1>13, <2>2, LogicMessagesAssumption DEF Sorts
  <2>4. \A m : ~Has(in.goes, m)
    BY <2>3 DEF Has
  <2> QED
    BY <1>13, <2>4 DEF Sorts
<1>16. /\ in.queue \in Seq(Entry) /\ out.queue \in Seq(Entry) /\ out.goes \in Seq(Entry)
       /\ in.handled \cup out.handled \subseteq Message
       /\ in.dropped \subseteq Message /\ out.dropped \subseteq Message
       /\ in.asks \subseteq Location /\ IsFiniteSet(in.asks)
       /\ out.asks \subseteq Location /\ IsFiniteSet(out.asks)
       /\ \A e \in ToSet(out.goes) : cache[LocationOf[e.id]] \in Group
  BY <1>13, <1>14 DEF Sorts
<1>17. /\ ClientsOK(client') /\ Adds(client, client')
       /\ \A e \in ToSet(out.goes) : InTicket(e.id, client')
  BY <1>3, <1>8, <1>16, TicketsToOK
<1>18. /\ x \in Seq(Answer) /\ \A l \in in.asks : AnswerFor(l, x)
       /\ y \in Seq(Answer) /\ \A l \in out.asks : AnswerFor(l, y)
  BY <1>6, <1>8, <1>16, AnswersOK
<1> HIDE DEF x, y
<1>19. /\ as \o x \o y \in Seq(Answer)
       /\ ToSet(as \o x \o y) = ToSet(as) \cup ToSet(x) \cup ToSet(y)
  <2>1. as \in Seq(Answer) /\ x \in Seq(Answer) /\ y \in Seq(Answer)
    BY <1>8, <1>18
  <2>2. SUFFICES ASSUME NEW a \in Seq(Answer), NEW b \in Seq(Answer), NEW c \in Seq(Answer),
                        a = as, b = x, c = y
                 PROVE  /\ as \o x \o y \in Seq(Answer)
                        /\ ToSet(as \o x \o y) = ToSet(as) \cup ToSet(x) \cup ToSet(y)
    BY <2>1, Zenon
  <2>3. /\ a \o b \o c \in Seq(Answer)
        /\ ToSet(a \o b \o c) = ToSet(a) \cup ToSet(b) \cup ToSet(c)
    BY OfThree
  <2> QED
    BY <2>2, <2>3
<1>20. /\ answers' \in [Group -> Seq(Answer)] /\ answers'[g] = as \o x \o y
       /\ \A h \in Group : h # g => answers'[h] = answers[h]
  BY <1>3, <1>8, <1>19
<1>21. /\ handled' \in [Message -> Nat] /\ lost' \subseteq Message
       /\ \A m \in Message : handled[m] > 0 => handled'[m] > 0
       /\ lost \subseteq lost'
       /\ \A m \in in.handled \cup out.handled : handled'[m] > 0 \/ m \in lost'
  BY <1>4, <1>8, <1>16, HandleOK
<1>22. /\ transfer' \in [Group -> Seq(Entry)] /\ incoming' \in [Group -> Seq(Entry)]
       /\ transfer'[g] = <<>> /\ incoming'[g] = in.queue
       /\ \A h \in Group : h # g => transfer'[h] = transfer[h] /\ incoming'[h] = incoming[h]
  <2>1. <<>> \in Seq(Entry)
    OBVIOUS
  <2> QED
    BY <1>2, <1>8, <1>16, <2>1
<1>23. owner' \in [Location -> Address]
  BY <1>5, <1>6, <1>8
<1>24. outgoing' \in Seq(Entry) /\ new_outgoing' \in Seq(Entry)
  <2>1. <<>> \in Seq(Entry)
    OBVIOUS
  <2> QED
    BY <1>2, <1>8, <1>16, <2>1
<1>25. logged' \subseteq Message /\ logged \subseteq logged'
  BY <1>3, <1>8, <1>16
<1>26. Typed'
  BY <1>7, <1>8, <1>17, <1>20, <1>21, <1>22, <1>23, <1>24, <1>25 DEF Typed
<1>27. Fresh(new_outgoing') /\ \A h \in Group : Fresh(transfer'[h])
  <2>1. Fresh(<<>>)
    BY DEF Fresh, ToSet
  <2> QED
    BY <1>2, <1>8, <1>22, <2>1
<1>28. /\ \A d \in Group : LinkOK(links[d], client'[d])
       /\ \A d \in Group : \A m : ToSend(m, client[d]) => ToSend(m, client'[d])
       /\ \A d \in Group : \A m :
            Unconfirmed(m, client[d], links[d]) => Unconfirmed(m, client'[d], links[d])
  BY <1>17, LinksStayOK
<1>29. \A m \in Message : Ended(m) => Ended(m)'
  BY <1>21, <1>25 DEF Ended
<1>30. ASSUME NEW m \in Message, Has(coming, m)
       PROVE  Has(incoming'[g], m) \/ Ended(m)'
  <2>1. Has(in.queue, m) \/ m \in in.handled \cup in.dropped
    BY <1>15, <1>30 DEF Has
  <2> QED
    BY <1>3, <1>21, <1>22, <2>1 DEF Ended
<1>31. ASSUME NEW m \in Message, Has(going, m), g = Sender
       PROVE  Has(outgoing', m) \/ InTicket(m, client') \/ Ended(m)'
  <2>1. Has(out.goes, m) \/ Has(out.queue, m) \/ m \in out.handled \cup out.dropped
    BY <1>14, <1>31 DEF Has, Sorts
  <2>2. Has(out.goes, m) => InTicket(m, client')
    BY <1>17 DEF Has
  <2> QED
    BY <1>2, <1>3, <1>21, <1>31, <2>1, <2>2 DEF Ended
<1>32. ASSUME NEW m \in Message, Counted(m)
       PROVE  Counted(m)'
  <2>1. ASSUME NEW h \in Group, At(m, h)
        PROVE  At(m, h)' \/ Ended(m)'
    <3>1. CASE h # g
      BY <1>7, <1>22, <1>28, <2>1, <3>1 DEF At
    <3>2. CASE h = g /\ (Has(incoming[g], m) \/ Has(transfer[g], m))
      <4>1. Has(coming, m)
        BY <1>9, <3>2 DEF Has
      <4> QED
        BY <1>30, <3>2, <4>1 DEF At
    <3>3. CASE h = g /\ ~Has(incoming[g], m) /\ ~Has(transfer[g], m)
      BY <1>7, <1>28, <2>1, <3>3 DEF At
    <3> QED
      BY <3>1, <3>2, <3>3
  <2>2. ASSUME Has(outgoing, m) \/ Has(new_outgoing, m)
        PROVE  Counted(m)'
    <3>1. CASE g = Sender
      <4>1. Has(going, m)
        BY <1>11, <2>2, <3>1 DEF Has
      <4>2. Has(outgoing', m) \/ InTicket(m, client') \/ Ended(m)'
        BY <1>31, <3>1, <4>1
      <4> QED
        BY <4>2 DEF Counted, InTicket, At
    <3>2. CASE g # Sender
      BY <1>2, <2>2, <3>2 DEF Counted
    <3> QED
      BY <3>1, <3>2
  <2> QED
    BY <1>29, <1>32, <2>1, <2>2 DEF Counted
<1>33. \A i \in 1..sent' : Counted(Messages[i])'
  BY <1>7, <1>32, SentStays
<1>34. ASSUME NEW h \in Group, NEW k, Asks(h, k)
       PROVE  Asks(h, k)'
  BY <1>7, <1>19, <1>20, <1>34 DEF Asks, AnswerFor, as
<1>35. /\ \A l \in in.asks : Asks(g, l)'
       /\ \A l \in out.asks : Asks(g, l)'
  BY <1>18, <1>19, <1>20 DEF Asks, AnswerFor
<1>36. AllAsked'
  <2> SUFFICES ASSUME NEW h \in Group, NEW e \in ToSet(incoming'[h]), e.asked
               PROVE  Asks(h, LocationOf[e.id])'
    BY DEF AllAsked
  <2>1. CASE h # g
    BY <1>22, <1>34, <2>1 DEF MessagesInv, AllAsked
  <2>2. CASE h = g /\ LocationOf[e.id] \in in.asks
    BY <1>35, <2>2
  <2>3. CASE h = g /\ LocationOf[e.id] \notin in.asks
    <3>1. PICK f \in ToSet(coming) : f.asked /\ LocationOf[f.id] = LocationOf[e.id]
      BY <1>13, <1>22, <2>3 DEF Sorts
    <3>2. f \in ToSet(incoming[g])
      BY <1>8, <1>9, <3>1 DEF Fresh
    <3>3. Asks(g, LocationOf[f.id])
      BY <3>1, <3>2 DEF MessagesInv, AllAsked
    <3> QED
      BY <1>34, <2>3, <3>1, <3>3
  <2> QED
    BY <2>1, <2>2, <2>3
<1>37. SenderAsked'
  <2> SUFFICES ASSUME NEW e \in ToSet(outgoing'), e.asked
               PROVE  Asks(Sender, LocationOf[e.id])'
    BY DEF SenderAsked
  <2>1. CASE g # Sender
    BY <1>2, <1>8, <1>34, <2>1 DEF MessagesInv, SenderAsked
  <2>2. CASE g = Sender /\ LocationOf[e.id] \in out.asks
    BY <1>35, <2>2
  <2>3. CASE g = Sender /\ LocationOf[e.id] \notin out.asks
    <3>1. PICK f \in ToSet(going) : f.asked /\ LocationOf[f.id] = LocationOf[e.id]
      BY <1>2, <1>14, <2>3 DEF Sorts
    <3>2. f \in ToSet(outgoing)
      BY <1>8, <1>11, <2>3, <3>1 DEF Fresh
    <3>3. Asks(Sender, LocationOf[f.id])
      BY <3>1, <3>2 DEF MessagesInv, SenderAsked
    <3> QED
      BY <1>8, <1>34, <2>3, <3>1, <3>3
  <2> QED
    BY <2>1, <2>2, <2>3
<1> QED
  BY <1>7, <1>26, <1>27, <1>28, <1>33, <1>36, <1>37 DEF MessagesInv

-----------------------------------------------------------------------------
(* The invariant holds *)

LEMMA MessagesInvInit == Init => MessagesInv
<1> SUFFICES ASSUME Init PROVE MessagesInv
  OBVIOUS
<1>1. /\ <<>> \in Seq(Entry) /\ <<>> \in Seq(Returned) /\ <<>> \in Seq(Answer)
      /\ <<>> \in Seq(Request) /\ <<>> \in Seq(Reply)
  OBVIOUS
<1>2. ToSet(<<>>) = {}
  BY DEF ToSet
<1>3. ClientsOK(client)
  <2>1. ClientOK(NewClient, Message, Location)
    BY NewClientOK
  <2>2. NewClient \in ClientOf(Message, Location)
    BY <2>1 DEF ClientOK
  <2> HIDE DEF NewClient
  <2> QED
    BY <2>1, <2>2 DEF Init, ClientsOK
<1>4. links \in [Group -> Link]
  <2>1. [up |-> FALSE, requests |-> <<>>, replies |-> <<>>] \in Link
    BY <1>1 DEF Link, Request
  <2> QED
    BY <2>1 DEF Init
<1>5. sent \in 0..Len(Messages)
  <2>1. Len(Messages) \in Nat
    BY LogicMessagesAssumption
  <2> QED
    BY <2>1 DEF Init
<1>6. Typed
  BY <1>1, <1>3, <1>4, <1>5 DEF Init, Typed, Nowhere, Address
<1>7. Fresh(new_outgoing) /\ \A g \in Group : Fresh(transfer[g])
  BY <1>2 DEF Init, Fresh
<1>8. \A d \in Group : LinkOK(links[d], client[d])
  BY <1>2 DEF Init, LinkOK
<1>9. \A i \in 1..sent : Counted(Messages[i])
  BY DEF Init
<1>10. AllAsked /\ SenderAsked
  BY <1>2 DEF Init, AllAsked, SenderAsked
<1> QED
  BY <1>6, <1>7, <1>8, <1>9, <1>10 DEF MessagesInv

LEMMA MessagesInvStep == MessagesInv /\ [Next]_vars => MessagesInv'
<1> SUFFICES ASSUME MessagesInv, [Next]_vars PROVE MessagesInv'
  OBVIOUS
<1>1. CASE AddOutgoing
  BY <1>1, AddOutgoingStep
<1>2. CASE \E g \in Group : IntervalMSecond(g)
  BY <1>2, IntervalMSecondStep
<1>3. CASE \E g \in Group : LoseAnswer(g)
  BY <1>3, LoseAnswerStep
<1>4. CASE \E g \in Group : AddressResponse(g)
  BY <1>4, AddressResponseStep
<1>5. CASE \E g \in Group : Stop(g)
  BY <1>5, StopStep
<1>6. CASE \/ \E g \in Group, l \in Location : ReleaseLocation(g, l)
           \/ \E l \in Location : ForgetAddress(l)
           \/ \E g \in Group : Reanimate(g)
  BY <1>6, LocationsStep
<1>7. CASE \E d \in Group : CloseConnection(d)
  BY <1>7, CloseConnectionStep
<1>8. CASE \E d \in Group : Flush(d)
  BY <1>8, FlushStep
<1>9. CASE \E d \in Group : DropDueTickets(d)
  BY <1>9, DropDueTicketsStep
<1>10. CASE \E d \in Group : Acknowledge(d)
  BY <1>10, AcknowledgeStep
<1>11. CASE \E d \in Group : BadAddress(d)
  BY <1>11, BadAddressStep
<1>12. CASE \E d \in Group : CloseIdle(d)
  BY <1>12, CloseIdleStep
<1>13. CASE \E d \in Group : Receive(d)
  BY <1>13, ReceiveStep
<1>14. CASE \E d \in Group : SendBack(d)
  BY <1>14, SendBackStep
<1>15. CASE UNCHANGED vars
  BY <1>15 DEF vars, queues, network, balancer, fates, MessagesInv, Typed, Counted, At, Ended,
               AllAsked, SenderAsked, Asks
<1> QED
  BY <1>1, <1>2, <1>3, <1>4, <1>5, <1>6, <1>7, <1>8, <1>9, <1>10, <1>11, <1>12, <1>13, <1>14,
     <1>15 DEF Next

\* Every message sent is counted somewhere, acknowledgements are of numbers
\* that are used up, and what waits for an address has been asked for.
THEOREM MessagesInvHolds == Spec => []MessagesInv
BY MessagesInvInit, MessagesInvStep, PTL DEF Spec

\* Whatever connections, answers and groups do, queues, tickets, links and
\* answers hold what the handlers of ggroup_message.cpp expect in them.
THEOREM LogicMessagesTypeCorrect == Spec => []TypeOK
<1>1. MessagesInv => TypeOK
  <2> SUFFICES ASSUME MessagesInv PROVE TypeOK
    OBVIOUS
  <2>1. ASSUME NEW d \in Group, NEW t \in ToSet(client[d].out) \cup ToSet(client[d].wait)
        PROVE  t.data \in Message /\ t.number \in 1..(client[d].sequence_number - 1)
    <3> DEFINE c == client[d]
    <3>1. ClientOK(c, Message, Location)
      BY DEF MessagesInv, Typed, ClientsOK
    <3>2. t \in ToSet(c.out) \cup ToSet(c.wait)
      OBVIOUS
    <3> HIDE DEF c
    <3>3. t.data \in Message /\ t.number \in 1..(c.sequence_number - 1)
      BY <3>1, <3>2, TicketsAreTyped DEF ClientOK, Numbered
    <3> QED
      BY <3>3 DEF c
  <2>2. Typed
    BY DEF MessagesInv
  <2> QED
    BY <2>1, <2>2 DEF Typed, TypeOK, Address, Answer
<1> QED
  BY <1>1, MessagesInvHolds, PTL

LEMMA HadByEither ==
  ASSUME NEW X, NEW s \in Seq(X), NEW t \in Seq(X), NEW m, Has(s, m) \/ Has(t, m)
  PROVE  Has(s \o t, m)
<1>1. ToSet(s \o t) = ToSet(s) \cup ToSet(t)
  BY OfConcatenation
<1> QED
  BY <1>1 DEF Has

\* What is counted is under way or has ended.
LEMMA CountedIsUnderWay ==
  ASSUME MessagesInv, NEW m \in Message, Counted(m)
  PROVE  UnderWay(m) \/ Ended(m)
<1>1. \A s : Has(s, m) => m \in Ids(s)
  BY DEF Has, Ids, ToSet
<1>2. CASE Has(new_outgoing, m) \/ Has(outgoing, m)
  <2>1. new_outgoing \in Seq(Entry) /\ outgoing \in Seq(Entry)
    BY DEF MessagesInv, Typed
  <2>2. Has(new_outgoing \o outgoing, m)
    BY <1>2, <2>1, HadByEither
  <2> QED
    BY <1>1, <2>2 DEF UnderWay
<1>3. ASSUME NEW g \in Group, At(m, g)
      PROVE  UnderWay(m)
  <2>1. CASE Has(transfer[g], m) \/ Has(incoming[g], m) \/ Has(back[g], m)
    <3> DEFINE X == Entry \cup Returned
               a == transfer[g]
               b == incoming[g]
               c == back[g]
    <3>1. a \in Seq(Entry) /\ b \in Seq(Entry) /\ c \in Seq(Returned)
      BY DEF MessagesInv, Typed
    <3>2. a \in Seq(X) /\ b \in Seq(X) /\ c \in Seq(X)
      BY <3>1
    <3>3. Has(a, m) \/ Has(b, m) \/ Has(c, m)
      BY <2>1
    <3> HIDE DEF X, a, b, c
    <3>4. a \o b \in Seq(X)
      BY <3>2, OfConcatenation
    <3>5. Has(a, m) \/ Has(b, m) => Has(a \o b, m)
      BY <3>2, HadByEither
    <3> DEFINE ab == a \o b
    <3> HIDE DEF ab
    <3>6. Has(ab \o c, m)
      BY <3>2, <3>3, <3>4, <3>5, HadByEither DEF ab
    <3> QED
      BY <1>1, <3>6 DEF UnderWay, ab, a, b, c
  <2>2. CASE ToSend(m, client[g]) \/ Unconfirmed(m, client[g], links[g])
    <3> DEFINE c == client[g]
    <3>1. ClientOK(c, Message, Location)
      BY DEF MessagesInv, Typed, ClientsOK
    <3>2. PICK t \in ToSet(c.out) \cup ToSet(c.wait) : t.data = m
      BY <2>2 DEF ToSend, Unconfirmed
    <3> HIDE DEF c
    <3>3. /\ c.out \in Seq(TicketOf(Message, Location))
          /\ c.wait \in Seq(TicketOf(Message, Location))
      BY <3>1, TicketsAreTyped
    <3>4. t \in ToSet(c.out \o c.wait)
      BY <3>2, <3>3, OfConcatenation
    <3>5. m \in IdsOf(c.out \o c.wait)
      BY <3>2, <3>4 DEF IdsOf, ToSet
    <3> QED
      BY <3>5 DEF UnderWay, c
  <2>3. CASE Returning(m, links[g])
    <3>1. m \in IdsIn(links[g].replies)
      BY <2>3 DEF Returning, IdsIn, ToSet
    <3> QED
      BY <3>1 DEF UnderWay
  <2> QED
    BY <1>3, <2>1, <2>2, <2>3 DEF At
<1> QED
  BY <1>2, <1>3 DEF Counted

\* No message between locations disappears, however its copies, tickets and
\* acknowledgements cross on the connections between two servers, and however
\* often it is sent, queued, returned and dropped.
THEOREM NoMessageVanishesEver == Spec => []NoMessageVanishes
<1>1. MessagesInv => NoMessageVanishes
  <2> SUFFICES ASSUME MessagesInv, NEW i \in 1..sent
               PROVE  LET m == Messages[i]
                      IN UnderWay(m) \/ handled[m] > 0 \/ m \in logged \cup lost
    BY DEF NoMessageVanishes
  <2>1. sent \in 0..Len(Messages) /\ Counted(Messages[i])
    BY DEF MessagesInv, Typed
  <2>2. Messages[i] \in Message
    BY <2>1, LogicMessagesAssumption
  <2> QED
    BY <2>1, <2>2, CountedIsUnderWay DEF Ended
<1> QED
  BY <1>1, MessagesInvHolds, PTL

\* Tickets for one location go out in the order they were queued in, also
\* those that FlushTickets sends again on a new connection.
THEOREM StableSequenceAlways == Spec => []StableSequence
<1>1. MessagesInv => StableSequence
  <2> SUFFICES ASSUME MessagesInv, NEW d \in Group,
                      NEW i \in DOMAIN (client[d].wait \o client[d].out),
                      NEW j \in DOMAIN (client[d].wait \o client[d].out), i < j,
                      (client[d].wait \o client[d].out)[i].sequence
                        = (client[d].wait \o client[d].out)[j].sequence
               PROVE  (client[d].wait \o client[d].out)[i].order
                        < (client[d].wait \o client[d].out)[j].order
    BY DEF StableSequence
  <2> DEFINE X == TicketOf(Message, Location)
             c == client[d]
             s == c.wait \o c.out
  <2>1. ClientOK(c, Message, Location)
    BY DEF MessagesInv, Typed, ClientsOK
  <2>2. c.wait \in Seq(X) /\ c.out \in Seq(X)
    BY <2>1, TicketsAreTyped
  <2> HIDE DEF X
  <2>3. s \in Seq(X) /\ InOrder(s)
    BY <2>1, <2>2, OfConcatenation, InOrderConcatenation DEF ClientOK
  <2>4. i \in DOMAIN s /\ j \in DOMAIN s /\ s[i].sequence = s[j].sequence
    OBVIOUS
  <2> HIDE DEF s
  <2>5. s[i] \in X
    BY <2>3, <2>4, ElementsAreTyped
  <2>6. s[i].sequence # NoSequence
    BY <2>5, LogicMessagesAssumption DEF X, TicketOf
  <2>7. s[i].order < s[j].order
    BY <2>3, <2>4, <2>6 DEF InOrder, Before
  <2> QED
    BY <2>7 DEF s
<1> QED
  BY <1>1, MessagesInvHolds, PTL

\* For every message that waits for an address (address_request_sent) an answer
\* of the balancer is on its way, or was lost with the balancer's connection.
THEOREM WaitersAreAskedAlways == Spec => []WaitersAreAsked
<1>1. MessagesInv => WaitersAreAsked
  <2> SUFFICES ASSUME MessagesInv, NEW g \in Group,
                      NEW l \in Asked(incoming[g]) \cup For(g, Asked(outgoing), {})
               PROVE  \/ <<g, l>> \in unanswered
                      \/ \E i \in DOMAIN answers[g] : answers[g][i].location = l
    BY DEF WaitersAreAsked
  <2> SUFFICES Asks(g, l)
    BY DEF Asks, AnswerFor, ToSet
  <2>1. CASE l \in Asked(incoming[g])
    BY <2>1 DEF Asked, MessagesInv, AllAsked
  <2>2. CASE g = Sender /\ l \in Asked(outgoing)
    BY <2>2 DEF Asked, MessagesInv, SenderAsked
  <2> QED
    BY <2>1, <2>2 DEF For
<1> QED
  BY <1>1, MessagesInvHolds, PTL

-----------------------------------------------------------------------------
(* Where a message is: NoMessageIsCopied *)

\* The sequence has an element of M; it has no two.
In(s, M) == \E i \in DOMAIN s : s[i] \in M
Once(s, M) == \A i, j \in DOMAIN s : s[i] \in M /\ s[j] \in M => i = j

LEMMA InSet ==
  ASSUME NEW s, NEW M
  PROVE  /\ In(s, M) <=> \E x \in ToSet(s) : x \in M
         /\ Once(s, M) => \A x, y \in ToSet(s) : x \in M /\ y \in M => x = y
BY DEF In, Once, ToSet

LEMMA InConcatenation ==
  ASSUME NEW X, NEW s \in Seq(X), NEW t \in Seq(X), NEW M
  PROVE  /\ In(s \o t, M) <=> In(s, M) \/ In(t, M)
         /\ Once(s, M) /\ Once(t, M) /\ ~(In(s, M) /\ In(t, M)) => Once(s \o t, M)
<1> DEFINE c == s \o t
<1>1. /\ c \in Seq(X) /\ Len(c) = Len(s) + Len(t)
      /\ \A i \in 1..Len(s) : c[i] = s[i]
      /\ \A i \in 1..Len(t) : c[Len(s) + i] = t[i]
      /\ \A i \in 1..(Len(s) + Len(t)) :
           i \in 1..Len(s) \/ \E j \in 1..Len(t) : i = Len(s) + j
      /\ ToSet(c) = ToSet(s) \cup ToSet(t)
  BY OfConcatenation
<1>2. DOMAIN s = 1..Len(s) /\ DOMAIN t = 1..Len(t) /\ DOMAIN c = 1..(Len(s) + Len(t))
  BY <1>1
<1> HIDE DEF c
<1>3. In(c, M) <=> In(s, M) \/ In(t, M)
  BY <1>1, InSet
<1>4. ASSUME Once(s, M), Once(t, M), ~(In(s, M) /\ In(t, M))
      PROVE  Once(c, M)
  <2> SUFFICES ASSUME NEW i \in DOMAIN c, NEW j \in DOMAIN c, c[i] \in M, c[j] \in M
               PROVE  i = j
    BY DEF Once
  <2>1. CASE i \in 1..Len(s) /\ j \in 1..Len(s)
    BY <1>1, <1>2, <1>4, <2>1 DEF Once
  <2>2. CASE i \notin 1..Len(s) /\ j \notin 1..Len(s)
    <3>1. PICK k \in 1..Len(t), l \in 1..Len(t) : i = Len(s) + k /\ j = Len(s) + l
      BY <1>1, <1>2, <2>2
    <3>2. k = l
      BY <1>1, <1>2, <1>4, <3>1 DEF Once
    <3> QED
      BY <3>1, <3>2
  <2>3. CASE i \in 1..Len(s) /\ j \notin 1..Len(s)
    <3>1. PICK l \in 1..Len(t) : j = Len(s) + l
      BY <1>1, <1>2, <2>3
    <3> QED
      BY <1>1, <1>2, <1>4, <2>3, <3>1 DEF In
  <2>4. CASE i \notin 1..Len(s) /\ j \in 1..Len(s)
    <3>1. PICK k \in 1..Len(t) : i = Len(s) + k
      BY <1>1, <1>2, <2>4
    <3> QED
      BY <1>1, <1>2, <1>4, <2>4, <3>1 DEF In
  <2> QED
    BY <2>1, <2>2, <2>3, <2>4
<1> QED
  BY <1>3, <1>4 DEF c

LEMMA InAppend ==
  ASSUME NEW X, NEW s \in Seq(X), NEW x \in X, NEW M
  PROVE  /\ In(Append(s, x), M) <=> In(s, M) \/ x \in M
         /\ Once(s, M) /\ ~(In(s, M) /\ x \in M) => Once(Append(s, x), M)
<1> DEFINE c == Append(s, x)
<1>1. /\ c \in Seq(X) /\ Len(c) = Len(s) + 1
      /\ \A i \in 1..Len(s) : c[i] = s[i]
      /\ c[Len(s) + 1] = x
      /\ ToSet(c) = ToSet(s) \cup {x}
  BY OfAppend
<1>2. /\ DOMAIN s = 1..Len(s) /\ DOMAIN c = 1..(Len(s) + 1) /\ Len(s) \in Nat
      /\ \A i \in 1..(Len(s) + 1) : i \in 1..Len(s) \/ i = Len(s) + 1
  BY <1>1
<1> HIDE DEF c
<1>3. In(c, M) <=> In(s, M) \/ x \in M
  BY <1>1, InSet
<1>4. ASSUME Once(s, M), ~(In(s, M) /\ x \in M)
      PROVE  Once(c, M)
  <2> SUFFICES ASSUME NEW i \in DOMAIN c, NEW j \in DOMAIN c, c[i] \in M, c[j] \in M
               PROVE  i = j
    BY DEF Once
  <2> QED
    BY <1>1, <1>2, <1>4 DEF Once, In
<1> QED
  BY <1>3, <1>4 DEF c

LEMMA InPart ==
  ASSUME NEW X, NEW s \in Seq(X), NEW t \in Seq(X), IsSubsequence(s, t), NEW M
  PROVE  (In(s, M) => In(t, M)) /\ (Once(t, M) => Once(s, M))
<1>1. PICK f : Embeds(f, s, t)
  BY DEF IsSubsequence
<1>2. \A i \in DOMAIN s : f[i] \in DOMAIN t /\ s[i] = t[f[i]]
  BY <1>1 DEF Embeds
<1>3. \A i, j \in DOMAIN s : f[i] = f[j] => i = j
  <2>1. \A i, j \in DOMAIN s : i < j \/ j < i \/ i = j
    OBVIOUS
  <2>2. \A i, j \in DOMAIN s : i < j => f[i] < f[j] /\ ~(f[i] = f[j])
    <3>1. \A i, j \in DOMAIN s : i < j => f[i] < f[j]
      BY <1>1 DEF Embeds
    <3>2. \A i \in DOMAIN s : f[i] \in Nat
      BY <1>2
    <3> QED
      BY <3>1, <3>2
  <2> QED
    BY <2>1, <2>2
<1> QED
  BY <1>2, <1>3 DEF In, Once

LEMMA InOnly ==
  ASSUME NEW X, NEW s \in Seq(X), NEW S, NEW M
  PROVE  /\ In(Only(s, S), M) => \E x \in ToSet(s) : x \in S /\ x \in M
         /\ Once(s, M) => Once(Only(s, S), M)
<1>1. /\ Only(s, S) \in Seq(X) /\ ToSet(Only(s, S)) = ToSet(s) \cap S
      /\ IsSubsequence(Only(s, S), s)
  BY OnlyElements
<1> QED
  BY <1>1, InPart, InSet

LEMMA InTail ==
  ASSUME NEW X, NEW s \in Seq(X), s # <<>>, NEW M
  PROVE  /\ In(s, M) <=> In(Tail(s), M) \/ Head(s) \in M
         /\ Once(s, M) => Once(Tail(s), M) /\ ~(In(Tail(s), M) /\ Head(s) \in M)
<1> DEFINE p == Tail(s)
<1>1. /\ p \in Seq(X) /\ IsSubsequence(p, s) /\ ToSet(s) = ToSet(p) \cup {s[1]} /\ Head(s) = s[1]
  BY OfTail
<1>2. /\ 1 \in DOMAIN s /\ DOMAIN p \subseteq Nat
      /\ \A i \in DOMAIN p : i + 1 \in DOMAIN s /\ p[i] = s[i + 1] /\ i + 1 # 1
  OBVIOUS
<1> HIDE DEF p
<1>3. In(s, M) <=> In(p, M) \/ Head(s) \in M
  BY <1>1, InSet
<1>4. Once(s, M) => Once(p, M)
  BY <1>1, InPart
<1>5. Once(s, M) => ~(In(p, M) /\ Head(s) \in M)
  BY <1>1, <1>2 DEF Once, In
<1> QED
  BY <1>3, <1>4, <1>5 DEF p

\* t is made of s, element by element.
LEMMA InImage ==
  ASSUME NEW s, NEW t, NEW M, NEW N, DOMAIN t = DOMAIN s,
         \A i \in DOMAIN s : t[i] \in N => s[i] \in M
  PROVE  (In(t, N) => In(s, M)) /\ (Once(s, M) => Once(t, N))
BY DEF In, Once

LEMMA InNothing ==
  ASSUME NEW M
  PROVE  ~In(<<>>, M) /\ Once(<<>>, M)
BY DEF In, Once

-----------------------------------------------------------------------------
(* The elements that are of a message *)

EntriesOf(m) == {e \in Entry \cup Returned \cup Request : e.id = m}
TicketsOf(m) == {t \in TicketOf(Message, Location) : t.data = m}
RepliesOf(m) == {r \in Reply : r.kind = "bad_address" /\ r.id = m}

\* The message is in a ticket to send at most once, in one client.
TicketHeldOnce(cs, m) ==
  /\ \A d \in Group : Once(cs[d].out, TicketsOf(m))
  /\ \A d, e \in Group : In(cs[d].out, TicketsOf(m)) /\ In(cs[e].out, TicketsOf(m)) => d = e
\* Who has a ticket of the message to send in ds has it in cs.
NoMoreTickets(cs, ds, m) ==
  \A d \in Group : In(ds[d].out, TicketsOf(m)) => In(cs[d].out, TicketsOf(m))

LEMMA OneTicketMore ==
  ASSUME NEW m, NEW cs, ClientsOK(cs), TicketHeldOnce(cs, m), NEW e \in Entry, NEW g \in Group,
         e.id = m => \A d \in Group : ~In(cs[d].out, TicketsOf(m))
  PROVE  /\ TicketHeldOnce(TicketToGroup(e, cs, g), m)
         /\ e.id # m => NoMoreTickets(cs, TicketToGroup(e, cs, g), m)
<1> DEFINE l == LocationOf[e.id]
           n == cs[g].sequence_number
           t == Ticket(e.id, l, n)
           out == cs[g].out
           ds == TicketToGroup(e, cs, g)
           M == TicketsOf(m)
           X == TicketOf(Message, Location)
<1>1. e.id \in Message /\ l \in Location
  BY LogicMessagesAssumption DEF Entry
<1>2. n \in Nat /\ out \in Seq(X)
  BY TicketsAreTyped DEF ClientsOK
<1>3. t \in X /\ (t \in M <=> e.id = m)
  BY <1>1, <1>2 DEF Ticket, TicketOf, TicketsOf
<1>4. cs \in [Group -> ClientOf(Message, Location)]
  BY DEF ClientsOK
<1>5. /\ ds[g].out = Append(out, t)
      /\ \A d \in Group : d # g => ds[d] = cs[d]
  <2>1. ds = [cs EXCEPT ![g] = AddTicket(cs[g], e.id, l)]
    BY DEF TicketToGroup
  <2>2. AddTicket(cs[g], e.id, l).out = Append(out, t)
    BY <1>4 DEF AddTicket, ClientOf
  <2> HIDE DEF t, out, l
  <2> QED
    BY <1>4, <2>1, <2>2
<1> HIDE DEF t, ds, X, M
<1>6. /\ In(ds[g].out, M) <=> In(out, M) \/ t \in M
      /\ Once(out, M) /\ ~(In(out, M) /\ t \in M) => Once(ds[g].out, M)
  BY <1>2, <1>3, <1>5, InAppend
<1>7. CASE e.id = m
  <2>1. \A d \in Group : Once(ds[d].out, M)
    BY <1>5, <1>6, <1>7 DEF TicketHeldOnce, M
  <2>2. \A d \in Group : In(ds[d].out, M) => d = g
    BY <1>5, <1>7 DEF M
  <2> QED
    BY <1>7, <2>1, <2>2 DEF TicketHeldOnce, M, ds
<1>8. CASE e.id # m
  <2>1. \A d \in Group : In(ds[d].out, M) => In(cs[d].out, M)
    BY <1>3, <1>5, <1>6, <1>8
  <2>2. \A d \in Group : Once(ds[d].out, M)
    BY <1>3, <1>5, <1>6, <1>8 DEF TicketHeldOnce, M
  <2> QED
    BY <2>1, <2>2 DEF TicketHeldOnce, NoMoreTickets, M, ds
<1> QED
  BY <1>7, <1>8

LEMMA TicketsOnce ==
  ASSUME NEW m, NEW cs, ClientsOK(cs), TicketHeldOnce(cs, m),
         NEW entries \in Seq(Entry), NEW address,
         \A e \in ToSet(entries) : address[LocationOf[e.id]] \in Group,
         Once(entries, EntriesOf(m)),
         In(entries, EntriesOf(m)) => \A d \in Group : ~In(cs[d].out, TicketsOf(m))
  PROVE  /\ TicketHeldOnce(TicketsTo(entries, cs, address), m)
         /\ ~In(entries, EntriesOf(m)) => NoMoreTickets(cs, TicketsTo(entries, cs, address), m)
<1> DEFINE N == Len(entries)
           Is(k) == entries[k].id = m
<1>1. PICK c : /\ c[0] = cs
               /\ \A k \in 1..N : c[k] = TicketFor(entries[k], c[k - 1], address)
               /\ TicketsTo(entries, cs, address) = c[N]
  <2>1. \E c : TicketsAlong(c, entries, cs, address)
    BY TicketsChain
  <2> QED
    BY <2>1 DEF TicketsAlong
<1>2. N \in Nat /\ DOMAIN entries = 1..N
  OBVIOUS
<1>3. \A k \in 1..N : entries[k] \in Entry /\ entries[k] \in ToSet(entries)
  BY ElementsAreTyped
<1>4. /\ \A i, j \in 1..N : Is(i) /\ Is(j) => i = j
      /\ \A k \in 1..N : Is(k) => \A d \in Group : ~In(cs[d].out, TicketsOf(m))
      /\ (\E k \in 1..N : Is(k)) => In(entries, EntriesOf(m))
  <2>1. \A k \in 1..N : Is(k) => entries[k] \in EntriesOf(m)
    BY <1>3 DEF EntriesOf
  <2> QED
    BY <1>2, <2>1 DEF Once, In
<1> HIDE DEF N, Is
<1> DEFINE Done(k) == /\ ClientsOK(c[k]) /\ TicketHeldOnce(c[k], m)
                      /\ (\E i \in 1..k : Is(i)) \/ NoMoreTickets(cs, c[k], m)
           T == {k \in 0..N : Done(k)}
<1>5. 0 \in T
  <2>1. Done(0)
    BY <1>1 DEF NoMoreTickets
  <2> HIDE DEF Done
  <2> QED
    BY <1>2, <2>1
<1>6. ASSUME NEW k \in 1..N, k - 1 \in T
      PROVE  k \in T
  <2> DEFINE b == c[k - 1]
             e == entries[k]
             g == address[LocationOf[e.id]]
  <2>1. /\ ClientsOK(b) /\ TicketHeldOnce(b, m)
        /\ (\E i \in 1..(k - 1) : Is(i)) \/ NoMoreTickets(cs, b, m)
    BY <1>6
  <2>2. e \in Entry /\ g \in Group
    BY <1>3
  <2>3. c[k] = TicketToGroup(e, b, g)
    BY <1>1, <1>6 DEF TicketFor
  <2>4. e.id = m <=> Is(k)
    BY DEF Is
  <2>5. k \in 0..N /\ k \in 1..k /\ k \in Nat /\ \A i \in 1..(k - 1) : i \in 1..N /\ i # k /\ i \in 1..k
    BY <1>2
  <2>6. Is(k) => \A d \in Group : ~In(b[d].out, TicketsOf(m))
    BY <1>4, <2>1, <2>5 DEF NoMoreTickets
  <2> HIDE DEF b, e, g
  <2>7. /\ ClientsOK(c[k]) /\ TicketHeldOnce(c[k], m)
        /\ ~Is(k) => NoMoreTickets(b, c[k], m)
    BY <2>1, <2>2, <2>3, <2>4, <2>6, TicketToGroupOK, OneTicketMore
  <2>8. Done(k)
    BY <2>1, <2>5, <2>7 DEF NoMoreTickets
  <2> HIDE DEF Done
  <2> QED
    BY <2>5, <2>8
<1>7. N \in T
  <2> HIDE DEF T
  <2>1. 0..N \subseteq T
    BY <1>2, <1>5, <1>6, EveryPrefix
  <2> QED
    BY <1>2, <2>1
<1>8. Done(N)
  BY <1>7
<1> QED
  BY <1>1, <1>4, <1>8

-----------------------------------------------------------------------------
(* Who holds a message *)

\* Queue queue of group g, or what has become of it.
Holds(queue, g, m) ==
  \/ queue = "new_outgoing" /\ g = Sender /\ In(new_outgoing, EntriesOf(m))
  \/ queue = "outgoing" /\ g = Sender /\ In(outgoing, EntriesOf(m))
  \/ queue = "transfer" /\ In(transfer[g], EntriesOf(m))
  \/ queue = "incoming" /\ In(incoming[g], EntriesOf(m))
  \/ queue = "back" /\ In(back[g], EntriesOf(m))
  \/ queue = "requests" /\ In(links[g].requests, EntriesOf(m))
  \/ queue = "replies" /\ In(links[g].replies, RepliesOf(m))
  \/ queue = "tickets" /\ In(client[g].out, TicketsOf(m))
  \/ queue = "handled" /\ g = Sender /\ handled[m] > 0
  \/ queue = "logged" /\ g = Sender /\ m \in logged
Place == {"new_outgoing", "outgoing", "transfer", "incoming", "back", "requests", "replies",
          "tickets", "handled", "logged"}

OnceInEach(m) ==
  /\ Once(new_outgoing, EntriesOf(m)) /\ Once(outgoing, EntriesOf(m)) /\ handled[m] <= 1
  /\ \A g \in Group :
       /\ Once(transfer[g], EntriesOf(m)) /\ Once(incoming[g], EntriesOf(m))
       /\ Once(back[g], EntriesOf(m)) /\ Once(links[g].requests, EntriesOf(m))
       /\ Once(links[g].replies, RepliesOf(m)) /\ Once(client[g].out, TicketsOf(m))
HeldOnce(m) ==
  \A q, r \in Place : \A g, h \in Group : Holds(q, g, m) /\ Holds(r, h, m) => q = r /\ g = h
Held(m) == \E q \in Place : \E g \in Group : Holds(q, g, m)

\* A step gives the message to one who did not hold it, if to anybody, and
\* then takes it from one who did.
New(q, g, m) == Holds(q, g, m)' /\ ~Holds(q, g, m)
Gone(m) == \E q \in Place : \E g \in Group : Holds(q, g, m) /\ ~Holds(q, g, m)'
Moves(m) ==
  /\ \A q, r \in Place : \A g, h \in Group : New(q, g, m) /\ New(r, h, m) => q = r /\ g = h
  /\ (\E q \in Place : \E g \in Group : New(q, g, m)) => Gone(m)

LEMMA MessageMoves ==
  ASSUME NEW m, HeldOnce(m), Moves(m)
  PROVE  HeldOnce(m)' /\ (Held(m)' => Held(m))
<1>1. ASSUME NEW q \in Place, NEW r \in Place, NEW g \in Group, NEW h \in Group,
             Holds(q, g, m)', Holds(r, h, m)'
      PROVE  q = r /\ g = h
  <2>1. CASE Holds(q, g, m) /\ Holds(r, h, m)
    BY <2>1 DEF HeldOnce
  <2>2. CASE ~Holds(q, g, m) /\ ~Holds(r, h, m)
    BY <1>1, <2>2 DEF Moves, New
  <2>3. CASE Holds(q, g, m) /\ ~Holds(r, h, m)
    <3>1. Gone(m)
      BY <1>1, <2>3 DEF Moves, New
    <3> QED
      BY <1>1, <2>3, <3>1 DEF Gone, HeldOnce
  <2>4. CASE ~Holds(q, g, m) /\ Holds(r, h, m)
    <3>1. Gone(m)
      BY <1>1, <2>4 DEF Moves, New
    <3> QED
      BY <1>1, <2>4, <3>1 DEF Gone, HeldOnce
  <2> QED
    BY <2>1, <2>2, <2>3, <2>4
<1>2. Held(m)' => Held(m)
  BY DEF Held, Moves, New, Gone
<1> QED
  BY <1>1, <1>2 DEF HeldOnce

\* The message goes from p of g to q of h, or stays where it is.
LEMMA MessagePasses ==
  ASSUME NEW m, NEW p \in Place, NEW g \in Group, NEW q \in Place, NEW h \in Group,
         \A r \in Place : \A k \in Group :
           Holds(r, k, m)' => Holds(r, k, m) \/ (r = q /\ k = h),
         Holds(q, h, m)' => Holds(q, h, m) \/ (Holds(p, g, m) /\ ~Holds(p, g, m)')
  PROVE  Moves(m)
BY DEF Moves, New, Gone

\* Nobody gets the message.
LEMMA MessageStays ==
  ASSUME NEW m, \A r \in Place : \A k \in Group : Holds(r, k, m)' => Holds(r, k, m)
  PROVE  Moves(m)
BY DEF Moves, New

-----------------------------------------------------------------------------
(* The invariant of what nothing has disturbed *)

\* The tickets of client c that wait are those whose requests, or then whose
\* acknowledgements, are on connection k, in their order.
Line(k, c) ==
  /\ \A i, j \in DOMAIN k.replies :
       i < j /\ k.replies[i].kind = "processed" /\ k.replies[j].kind = "processed"
         => k.replies[i].number < k.replies[j].number
  /\ \A i, j \in DOMAIN k.requests : i < j => k.requests[i].number < k.requests[j].number
  /\ \A r \in ToSet(k.replies), q \in ToSet(k.requests) :
       r.kind = "processed" => r.number < q.number
  /\ \A r \in ToSet(k.replies) :
       r.kind = "processed" => \E t \in ToSet(c.wait) : t.number = r.number
  /\ \A q \in ToSet(k.requests) : \E t \in ToSet(c.wait) : t.number = q.number
  /\ \A t \in ToSet(c.wait) :
       Processed(t.number, k) \/ \E q \in ToSet(k.requests) : q.number = t.number

\* What a server has of the sender came over the connection that is there.
Local(d) ==
  /\ ~links[d].up => links[d].requests = <<>> /\ client[d].wait = <<>>
  /\ \A e \in ToSet(transfer[d]) \cup ToSet(incoming[d]) \cup ToSet(back[d]) :
       links[d].up /\ e.socket = connects[d]

Unsent == \A i \in DOMAIN Messages : i > sent => ~Held(Messages[i])

Orderly ==
  /\ stopped = {} /\ lost = {}
  /\ \A d \in Group : Line(links[d], client[d]) /\ Local(d)
  /\ \A m \in Message : OnceInEach(m) /\ HeldOnce(m)
  /\ Unsent

Connected == \A d \in Group : links[d].up => connects[d] # 0

CopiesInv ==
  /\ stops \in Nat /\ Connected
  /\ Undisturbed => Orderly

LEMMA OrderlyStays ==
  ASSUME Orderly, UNCHANGED <<sent, stopped, lost>>,
         \A d \in Group : (Line(links[d], client[d]) /\ Local(d))',
         \A m \in Message : OnceInEach(m)' /\ Moves(m)
  PROVE  Orderly'
<1>1. \A m \in Message : HeldOnce(m)' /\ (Held(m)' => Held(m))
  BY MessageMoves DEF Orderly
<1>2. \A i \in DOMAIN Messages : Messages[i] \in Message
  BY LogicMessagesAssumption, ElementsAreTyped
<1>3. Unsent'
  BY <1>1, <1>2 DEF Orderly, Unsent
<1> QED
  BY <1>1, <1>3 DEF Orderly

LEMMA LineStays ==
  ASSUME NEW k, NEW c, Line(k, c), NEW d, d.wait = c.wait
  PROVE  Line(k, d)
BY DEF Line

\* The message is in no queue of a connection that is not there.
LEMMA LocalStays ==
  ASSUME NEW d \in Group, Local(d), links'[d] = links[d], connects'[d] = connects[d],
         client'[d].wait = client[d].wait,
         ToSet(transfer'[d]) \subseteq ToSet(transfer[d]),
         \A e \in ToSet(incoming'[d]) : \E x \in ToSet(incoming[d]) \cup ToSet(transfer[d]) :
           x.socket = e.socket,
         \A e \in ToSet(back'[d]) : \E x \in ToSet(incoming[d]) \cup ToSet(back[d]) :
           x.socket = e.socket
  PROVE  Local(d)'
BY DEF Local

\* Nothing that a message can be in has changed.
LEMMA QueuesStayOrderly ==
  ASSUME Orderly, UNCHANGED <<queues, sent, client, links, connects, stopped, handled, logged, lost>>
  PROVE  Orderly'
BY DEF Orderly, queues, Line, Local, OnceInEach, HeldOnce, Holds, Unsent, Held, Processed

-----------------------------------------------------------------------------
(* What disturbs *)

LEMMA UndisturbedBefore ==
  ASSUME MessagesInv, stops \in Nat, Connected, [Next]_vars
  PROVE  /\ stops' \in Nat /\ Connected'
         /\ Undisturbed' => /\ Undisturbed
                            /\ \A g \in Group : ~Stop(g) /\ ~CloseConnection(g)
                            /\ \A d \in Group : CloseIdle(d) => ~links[d].up
<1>1. /\ links \in [Group -> Link] /\ connects \in [Group -> Nat]
      /\ \A d \in Group : links[d] \in Link /\ connects[d] \in Nat /\ links[d].up \in BOOLEAN
  BY LinkIsTyped DEF MessagesInv, Typed
<1> DEFINE Same(x) == links'[x].up = links[x].up /\ connects'[x] = connects[x]
           Calls == \A g \in Group : ~Stop(g) /\ ~CloseConnection(g) /\ ~CloseIdle(g)
<1>2. ASSUME stops' = stops, \A x \in Group : Same(x), Calls
      PROVE  /\ stops' \in Nat /\ Connected'
             /\ Undisturbed' => Undisturbed
  <2>1. \A x \in Group : links'[x].up = links[x].up /\ connects'[x] = connects[x]
    BY <1>2
  <2>2. Connected'
    BY <2>1 DEF Connected
  <2>3. Undisturbed' => Undisturbed
    BY <1>2, <2>1 DEF Undisturbed
  <2> QED
    BY <1>2, <2>2, <2>3
<1>3. ASSUME NEW g \in Group, Stop(g)
      PROVE  stops' \in Nat /\ Connected' /\ ~Undisturbed'
  <2>1. stops' = stops + 1 /\ links' = links /\ connects' = connects
    BY <1>3 DEF Stop
  <2>2. stops' \in Nat /\ stops' # 0
    BY <2>1
  <2> QED
    BY <2>1, <2>2 DEF Connected, Undisturbed
<1>4. ASSUME NEW d \in Group, CloseConnection(d)
      PROVE  stops' \in Nat /\ Connected' /\ ~Undisturbed'
  <2>1. /\ links[d].up /\ stops' = stops /\ connects' = connects
        /\ \A x \in Group : x # d => links'[x] = links[x]
    BY <1>1, <1>4 DEF CloseConnection, balancer
  <2>2. ~links'[d].up
    BY <1>1, <1>4 DEF CloseConnection, Link
  <2> QED
    BY <1>1, <2>1, <2>2 DEF Connected, Undisturbed
<1>5. ASSUME NEW d \in Group, CloseIdle(d)
      PROVE  /\ stops' \in Nat /\ Connected'
             /\ Undisturbed' => Undisturbed /\ ~links[d].up
  <2>1. /\ stops' = stops /\ connects' = connects
        /\ \A x \in Group : x # d => links'[x] = links[x]
    BY <1>1, <1>5 DEF CloseIdle, balancer
  <2>2. ~links'[d].up
    BY <1>1, <1>5 DEF CloseIdle, Link
  <2> QED
    BY <1>1, <2>1, <2>2 DEF Connected, Undisturbed
<1>6. ASSUME NEW d \in Group, Flush(d)
      PROVE  /\ stops' \in Nat /\ Connected'
             /\ Undisturbed' => Undisturbed
  <2>1. /\ stops' = stops
        /\ connects' = IF links[d].up THEN connects ELSE [connects EXCEPT ![d] = @ + 1]
        /\ \A x \in Group : x # d => links'[x] = links[x]
    BY <1>1, <1>6 DEF Flush, balancer
  <2>2. links'[d].up
    BY <1>1, <1>6 DEF Flush, Link
  <2>3. CASE links[d].up
    BY <1>1, <2>1, <2>2, <2>3 DEF Connected, Undisturbed
  <2>4. CASE ~links[d].up
    BY <1>1, <2>1, <2>2, <2>4 DEF Connected, Undisturbed
  <2> QED
    BY <2>3, <2>4
<1>7. ASSUME NEW d \in Group, Acknowledge(d) \/ BadAddress(d) \/ Receive(d) \/ SendBack(d)
      PROVE  stops' = stops /\ \A x \in Group : Same(x)
  <2>1. stops' = stops /\ connects' = connects /\ \A x \in Group : x # d => links'[x] = links[x]
    BY <1>1, <1>7 DEF Acknowledge, BadAddress, Receive, SendBack, Answered, balancer
  <2>2. links'[d].up = links[d].up
    <3>1. CASE Acknowledge(d)
      BY <1>1, <3>1 DEF Acknowledge, Link
    <3>2. CASE BadAddress(d)
      BY <1>1, <3>2 DEF BadAddress, Link
    <3>3. CASE Receive(d)
      <4>1. PICK replies : links' = Answered(d, replies)
        BY <3>3 DEF Receive
      <4> QED
        BY <1>1, <4>1 DEF Answered, Link
    <3>4. CASE SendBack(d)
      BY <1>1, <3>4 DEF SendBack, Link
    <3> QED
      BY <1>7, <3>1, <3>2, <3>3, <3>4
  <2> QED
    BY <2>1, <2>2
<1>8. ASSUME NEW g \in Group, IntervalMSecond(g) \/ LoseAnswer(g) \/ AddressResponse(g) \/ Reanimate(g)
      PROVE  stops' = stops /\ \A x \in Group : Same(x)
  BY <1>8 DEF IntervalMSecond, LoseAnswer, AddressResponse, Reanimate, network
<1>9. ASSUME \/ AddOutgoing \/ UNCHANGED vars
             \/ \E g \in Group, l \in Location : ReleaseLocation(g, l)
             \/ \E l \in Location : ForgetAddress(l)
             \/ \E d \in Group : DropDueTickets(d)
      PROVE  stops' = stops /\ \A x \in Group : Same(x)
  BY <1>9 DEF AddOutgoing, ReleaseLocation, ForgetAddress, DropDueTickets, network, balancer, vars
<1> HIDE DEF Same
<1>10. CASE Calls
  <2>1. /\ stops' \in Nat /\ Connected'
        /\ Undisturbed' => Undisturbed
    BY <1>2, <1>6, <1>7, <1>8, <1>9, <1>10 DEF Next
  <2> QED
    BY <1>10, <2>1
<1>11. CASE ~Calls
  BY <1>3, <1>4, <1>5, <1>11
<1> QED
  BY <1>10, <1>11

-----------------------------------------------------------------------------
(* The actions keep messages in one place *)

LEMMA AddOutgoingOrderly ==
  ASSUME MessagesInv, Orderly, AddOutgoing
  PROVE  Orderly'
<1> DEFINE n == sent + 1
           e == Waiting(Messages[n])
<1>1. /\ sent \in Nat /\ n \in DOMAIN Messages /\ sent' = n /\ Messages[n] \in Message
      /\ new_outgoing \in Seq(Entry)
  BY LogicMessagesAssumption, ElementsAreTyped DEF MessagesInv, Typed, AddOutgoing
<1>2. e \in Entry /\ e.id = Messages[n]
  BY <1>1 DEF Entry, Waiting
<1>3. new_outgoing' = Append(new_outgoing, e)
  BY DEF AddOutgoing
<1>4. ~Held(Messages[n])
  BY <1>1 DEF Orderly, Unsent
<1>5. UNCHANGED <<outgoing, transfer, incoming, back, client, links, connects, stopped,
                  handled, logged, lost>>
  BY DEF AddOutgoing, network, balancer
<1> HIDE DEF e
<1>6. ASSUME NEW m \in Message
      PROVE  /\ In(new_outgoing', EntriesOf(m)) => In(new_outgoing, EntriesOf(m)) \/ m = Messages[n]
             /\ Once(new_outgoing, EntriesOf(m)) /\ ~(In(new_outgoing, EntriesOf(m)) /\ m = Messages[n])
                  => Once(new_outgoing', EntriesOf(m))
  <2>1. e \in EntriesOf(m) => m = Messages[n]
    BY <1>2 DEF EntriesOf
  <2> QED
    BY <1>1, <1>2, <1>3, <2>1, InAppend
<1>7. In(new_outgoing, EntriesOf(Messages[n])) => Held(Messages[n])
  BY LogicMessagesAssumption DEF Held, Holds, Place
<1>8. ASSUME NEW m \in Message, NEW q \in Place, NEW g \in Group
      PROVE  Holds(q, g, m)' => Holds(q, g, m) \/ (q = "new_outgoing" /\ g = Sender /\ m = Messages[n])
  BY <1>5, <1>6 DEF Holds
<1>9. ASSUME NEW m \in Message
      PROVE  OnceInEach(m)' /\ HeldOnce(m)'
  <2>1. OnceInEach(m)'
    BY <1>4, <1>5, <1>6, <1>7 DEF Orderly, OnceInEach
  <2>2. CASE m # Messages[n]
    <3>1. Moves(m)
      BY <1>8, <2>2, MessageStays
    <3> QED
      BY <2>1, <3>1, MessageMoves DEF Orderly
  <2>3. CASE m = Messages[n]
    BY <1>4, <1>8, <2>1, <2>3 DEF HeldOnce, Held
  <2> QED
    BY <2>2, <2>3
<1>10. Unsent'
  <2> SUFFICES ASSUME NEW i \in DOMAIN Messages, i > n
               PROVE  ~Held(Messages[i])'
    BY <1>1 DEF Unsent
  <2>1. Messages[i] \in Message /\ i \in Nat
    BY LogicMessagesAssumption, ElementsAreTyped
  <2>2. Messages[i] # Messages[n] /\ i > sent
    BY <1>1, <2>1, LogicMessagesAssumption
  <2>3. ~Held(Messages[i])
    BY <2>2 DEF Orderly, Unsent
  <2> QED
    BY <1>8, <2>1, <2>2, <2>3 DEF Held
<1>11. \A d \in Group : (Line(links[d], client[d]) /\ Local(d))'
  BY <1>5 DEF Orderly, Local
<1> QED
  BY <1>5, <1>9, <1>10, <1>11 DEF Orderly

LEMMA LocationsOrderly ==
  ASSUME Orderly,
         \/ \E g \in Group : LoseAnswer(g) \/ Reanimate(g)
         \/ \E g \in Group, l \in Location : ReleaseLocation(g, l)
         \/ \E l \in Location : ForgetAddress(l)
         \/ UNCHANGED vars
  PROVE  Orderly'
<1>1. UNCHANGED <<queues, sent, client, links, connects, handled, logged, lost>>
  BY DEF LoseAnswer, Reanimate, ReleaseLocation, ForgetAddress, vars, network, fates
<1>2. stopped' = stopped
  BY DEF Orderly, LoseAnswer, Reanimate, ReleaseLocation, ForgetAddress, vars, balancer
<1> QED
  BY <1>1, <1>2, QueuesStayOrderly

LEMMA QueuesAreTyped ==
  ASSUME MessagesInv, NEW d \in Group
  PROVE  /\ links \in [Group -> Link] /\ links[d] \in Link /\ links[d].up \in BOOLEAN
         /\ links[d].requests \in Seq(Request) /\ links[d].replies \in Seq(Reply)
         /\ client \in [Group -> ClientOf(Message, Location)]
         /\ ClientOK(client[d], Message, Location)
         /\ client[d].out \in Seq(TicketOf(Message, Location))
         /\ client[d].wait \in Seq(TicketOf(Message, Location))
         /\ new_outgoing \in Seq(Entry) /\ outgoing \in Seq(Entry)
         /\ transfer \in [Group -> Seq(Entry)] /\ transfer[d] \in Seq(Entry)
         /\ incoming \in [Group -> Seq(Entry)] /\ incoming[d] \in Seq(Entry)
         /\ back \in [Group -> Seq(Returned)] /\ back[d] \in Seq(Returned)
<1>1. /\ links \in [Group -> Link] /\ ClientsOK(client)
      /\ new_outgoing \in Seq(Entry) /\ outgoing \in Seq(Entry)
      /\ transfer \in [Group -> Seq(Entry)] /\ incoming \in [Group -> Seq(Entry)]
      /\ back \in [Group -> Seq(Returned)]
  BY DEF MessagesInv, Typed
<1>2. links[d] \in Link /\ ClientOK(client[d], Message, Location)
  BY <1>1 DEF ClientsOK
<1> QED
  BY <1>1, <1>2, LinkIsTyped, TicketsAreTyped DEF ClientsOK

LEMMA AfterTail ==
  ASSUME NEW X, NEW s \in Seq(X), s # <<>>
  PROVE  /\ \A i \in DOMAIN Tail(s) :
              i \in Nat /\ 1 < i + 1 /\ i + 1 \in DOMAIN s /\ Tail(s)[i] = s[i + 1]
         /\ 1 \in DOMAIN s
OBVIOUS

LEMMA LineWithoutReply ==
  ASSUME NEW k \in Link, NEW c, Line(k, c), k.replies # <<>>, Head(k.replies).kind = "bad_address",
         NEW j, j.requests = k.requests, j.replies = Tail(k.replies)
  PROVE  Line(j, c)
<1>1. k.replies \in Seq(Reply)
  BY LinkIsTyped
<1>2. /\ ToSet(k.replies) = ToSet(j.replies) \cup {k.replies[1]} /\ Head(k.replies) = k.replies[1]
  BY <1>1, OfTail
<1>3. \A a, b \in DOMAIN j.replies :
        a < b /\ j.replies[a].kind = "processed" /\ j.replies[b].kind = "processed"
          => j.replies[a].number < j.replies[b].number
  <2>1. \A i \in DOMAIN j.replies : /\ i \in Nat /\ i + 1 \in DOMAIN k.replies
                                    /\ j.replies[i] = k.replies[i + 1]
    BY <1>1, AfterTail
  <2> SUFFICES ASSUME NEW a \in DOMAIN j.replies, NEW b \in DOMAIN j.replies, a < b,
                      j.replies[a].kind = "processed", j.replies[b].kind = "processed"
               PROVE  j.replies[a].number < j.replies[b].number
    OBVIOUS
  <2>2. a + 1 < b + 1
    BY <2>1
  <2> QED
    BY <2>1, <2>2 DEF Line
<1>4. \A n : Processed(n, k) => Processed(n, j)
  BY <1>2 DEF Processed
<1> QED
  BY <1>2, <1>3, <1>4 DEF Line

LEMMA BadAddressOrderly ==
  ASSUME MessagesInv, Orderly, NEW d \in Group, BadAddress(d)
  PROVE  Orderly'
<1> DEFINE x == links[d]
           reply == Head(x.replies)
           w == Waiting(reply.id)
           n == reply.id
<1>1. /\ x \in Link /\ x.replies \in Seq(Reply) /\ links \in [Group -> Link]
      /\ new_outgoing \in Seq(Entry)
  BY QueuesAreTyped
<1>2. /\ x.replies # <<>> /\ reply.kind = "bad_address"
      /\ new_outgoing' = Append(new_outgoing, w)
      /\ links' = [links EXCEPT ![d].replies = Tail(@)]
  BY DEF BadAddress
<1>3. /\ links'[d].up = x.up /\ links'[d].requests = x.requests /\ links'[d].replies = Tail(x.replies)
      /\ \A g \in Group : g # d => links'[g] = links[g]
  BY <1>1, <1>2 DEF Link
<1>4. UNCHANGED <<sent, outgoing, transfer, incoming, back, client, connects, stopped,
                  handled, logged, lost>>
  BY DEF BadAddress, balancer, fates
<1>5. reply \in Reply /\ n \in Message
  <2>1. reply \in ToSet(x.replies)
    BY <1>1, <1>2, OfTail
  <2> QED
    BY <1>1, <1>2, <2>1, LinkIsTyped
<1>6. w \in Entry /\ w.id = n
  BY <1>5 DEF Waiting, Entry
<1> HIDE DEF w, reply, n
<1>7. ASSUME NEW m \in Message
      PROVE  /\ In(new_outgoing', EntriesOf(m)) => In(new_outgoing, EntriesOf(m)) \/ m = n
             /\ Once(new_outgoing, EntriesOf(m)) /\ ~(In(new_outgoing, EntriesOf(m)) /\ m = n)
                  => Once(new_outgoing', EntriesOf(m))
  <2>1. w \in EntriesOf(m) => m = n
    BY <1>6 DEF EntriesOf
  <2> QED
    BY <1>1, <1>2, <1>6, <2>1, InAppend
<1>8. ASSUME NEW m \in Message
      PROVE  /\ In(links'[d].replies, RepliesOf(m)) => In(x.replies, RepliesOf(m))
             /\ m = n => In(x.replies, RepliesOf(m))
             /\ Once(x.replies, RepliesOf(m)) => Once(links'[d].replies, RepliesOf(m))
             /\ Once(x.replies, RepliesOf(m)) /\ m = n => ~In(links'[d].replies, RepliesOf(m))
  <2>1. /\ In(x.replies, RepliesOf(m)) <=> In(Tail(x.replies), RepliesOf(m)) \/ reply \in RepliesOf(m)
        /\ Once(x.replies, RepliesOf(m)) =>
             Once(Tail(x.replies), RepliesOf(m)) /\ ~(In(Tail(x.replies), RepliesOf(m)) /\ reply \in RepliesOf(m))
    BY <1>1, <1>2, InTail DEF reply
  <2>2. m = n => reply \in RepliesOf(m)
    BY <1>2, <1>5 DEF RepliesOf, n
  <2> QED
    BY <1>3, <2>1, <2>2
<1>9. ASSUME NEW m \in Message
      PROVE  OnceInEach(m)' /\ Moves(m)
  <2>1. OnceInEach(m) /\ HeldOnce(m)
    BY DEF Orderly
  <2>2. m = n => ~In(new_outgoing, EntriesOf(m))
    <3>1. In(x.replies, RepliesOf(m)) => Holds("replies", d, m)
      BY DEF Holds
    <3>2. In(new_outgoing, EntriesOf(m)) => Holds("new_outgoing", Sender, m)
      BY DEF Holds
    <3> QED
      BY <1>8, <2>1, <3>1, <3>2, LogicMessagesAssumption DEF HeldOnce, Place
  <2>3. OnceInEach(m)'
    BY <1>3, <1>4, <1>7, <1>8, <2>1, <2>2 DEF OnceInEach
  <2>4. \A r \in Place : \A k \in Group :
          Holds(r, k, m)' => Holds(r, k, m) \/ (r = "new_outgoing" /\ k = Sender)
    BY <1>3, <1>4, <1>7, <1>8 DEF Holds
  <2>5. Holds("new_outgoing", Sender, m)' =>
          \/ Holds("new_outgoing", Sender, m)
          \/ Holds("replies", d, m) /\ ~Holds("replies", d, m)'
    BY <1>7, <1>8, <2>1 DEF Holds, OnceInEach
  <2>6. Moves(m)
    BY <2>4, <2>5, MessagePasses, LogicMessagesAssumption DEF Place
  <2> QED
    BY <2>3, <2>6
<1>10. ASSUME NEW g \in Group
       PROVE  (Line(links[g], client[g]) /\ Local(g))'
  <2>1. Line(links[g], client[g]) /\ Local(g)
    BY DEF Orderly
  <2>2. Line(links'[g], client'[g])
    <3>1. CASE g # d
      BY <1>3, <1>4, <2>1, <3>1
    <3>2. CASE g = d
      BY <1>1, <1>2, <1>3, <1>4, <2>1, <3>2, LineWithoutReply DEF reply
    <3> QED
      BY <3>1, <3>2
  <2>3. Local(g)'
    BY <1>3, <1>4, <2>1 DEF Local
  <2> QED
    BY <2>2, <2>3
<1> QED
  BY <1>4, <1>9, <1>10, OrderlyStays

LEMMA LineWithMoreReplies ==
  ASSUME NEW k \in Link, NEW c, Line(k, c), NEW rs \in Seq(Reply),
         \A r \in ToSet(rs) : r.kind = "bad_address",
         NEW j, j.requests = k.requests, j.replies = k.replies \o rs
  PROVE  Line(j, c)
<1> DEFINE s == k.replies
           t == j.replies
<1>1. s \in Seq(Reply)
  BY LinkIsTyped
<1>2. /\ \A i \in 1..Len(s) : t[i] = s[i]
      /\ \A i \in 1..Len(rs) : t[Len(s) + i] = rs[i]
      /\ \A i \in 1..(Len(s) + Len(rs)) :
           i \in 1..Len(s) \/ \E l \in 1..Len(rs) : i = Len(s) + l
      /\ ToSet(t) = ToSet(s) \cup ToSet(rs)
      /\ DOMAIN t = 1..(Len(s) + Len(rs)) /\ DOMAIN s = 1..Len(s)
  <2>1. t = s \o rs
    OBVIOUS
  <2> HIDE DEF s, t
  <2>2. /\ t \in Seq(Reply) /\ Len(t) = Len(s) + Len(rs)
        /\ \A i \in 1..Len(s) : t[i] = s[i]
        /\ \A i \in 1..Len(rs) : t[Len(s) + i] = rs[i]
    BY <1>1, <2>1, OfConcatenation, SMTT(30)
  <2>3. /\ \A i \in 1..(Len(s) + Len(rs)) :
             i \in 1..Len(s) \/ \E l \in 1..Len(rs) : i = Len(s) + l
        /\ ToSet(t) = ToSet(s) \cup ToSet(rs)
    BY <1>1, <2>1, OfConcatenation, SMTT(30)
  <2>4. DOMAIN t = 1..Len(t) /\ DOMAIN s = 1..Len(s)
    BY <1>1, <2>2
  <2> QED
    BY <2>2, <2>3, <2>4
<1>3. \A i \in 1..Len(rs) : rs[i] \in ToSet(rs)
  BY DEF ToSet
<1>4. \A i \in DOMAIN t : t[i].kind = "processed" => i \in DOMAIN s /\ t[i] = s[i]
  <2> SUFFICES ASSUME NEW i \in DOMAIN t, t[i].kind = "processed"
               PROVE  i \in 1..Len(s)
    BY <1>2
  <2>1. CASE i \notin 1..Len(s)
    <3>1. PICK l \in 1..Len(rs) : i = Len(s) + l
      BY <1>2, <2>1
    <3>2. t[i] = rs[l] /\ rs[l].kind = "bad_address"
      BY <1>2, <1>3, <3>1
    <3> QED
      BY <3>2
  <2> QED
    BY <2>1
<1> HIDE DEF s, t
<1>5. \A n : Processed(n, k) => Processed(n, j)
  BY <1>2 DEF Processed, s, t
<1>6. \A r \in ToSet(t) : r.kind = "processed" => r \in ToSet(s)
  BY <1>2
<1>7. \A a, b \in DOMAIN t : a < b /\ t[a].kind = "processed" /\ t[b].kind = "processed"
                               => t[a].number < t[b].number
  BY <1>4 DEF Line, s
<1> QED
  BY <1>5, <1>6, <1>7 DEF Line, s, t

LEMMA SendBackOrderly ==
  ASSUME MessagesInv, Orderly, NEW d \in Group, SendBack(d)
  PROVE  Orderly'
<1> DEFINE x == links[d]
           b == back[d]
           There(e) == x.up /\ e.socket = connects[d]
           S == {e \in ToSet(b) : There(e)}
           there == Only(b, S)
           gone == {e.id : e \in {y \in ToSet(b) : ~There(y)}}
           rs == Replied(there, d)
<1>1. /\ x \in Link /\ x.replies \in Seq(Reply) /\ links \in [Group -> Link]
      /\ b \in Seq(Returned) /\ back \in [Group -> Seq(Returned)]
  BY QueuesAreTyped
<1>2. /\ back' = [back EXCEPT ![d] = <<>>]
      /\ lost' = lost \cup gone
      /\ links' = [links EXCEPT ![d].replies = @ \o rs]
  BY DEF SendBack, Replied
<1>3. gone = {}
  BY DEF Orderly, Local
<1>4. UNCHANGED <<sent, new_outgoing, outgoing, transfer, incoming, client, connects, stopped,
                  handled, logged, lost>>
  BY <1>2, <1>3 DEF SendBack, balancer
<1> HIDE DEF S, gone, rs
<1>5. /\ links'[d].up = x.up /\ links'[d].requests = x.requests /\ links'[d].replies = x.replies \o rs
      /\ \A g \in Group : g # d => links'[g] = links[g]
  BY <1>1, <1>2 DEF Link
<1>6. back'[d] = <<>> /\ \A g \in Group : g # d => back'[g] = back[g]
  BY <1>1, <1>2
<1>7. there \in Seq(Returned)
  BY <1>1, OnlyElements
<1>8. rs \in Seq(Reply) /\ \A r \in ToSet(rs) : r.kind = "bad_address"
  BY <1>7, OfReplied DEF rs
<1>9. ASSUME NEW m \in Message
      PROVE  /\ In(rs, RepliesOf(m)) => In(b, EntriesOf(m))
             /\ Once(b, EntriesOf(m)) => Once(rs, RepliesOf(m))
  <2>1. /\ DOMAIN rs = DOMAIN there
        /\ \A i \in DOMAIN there : rs[i].id = there[i].id /\ there[i] \in Returned
    BY <1>7, ElementsAreTyped DEF rs, Replied
  <2>2. \A i \in DOMAIN there : rs[i] \in RepliesOf(m) => there[i] \in EntriesOf(m)
    BY <2>1 DEF RepliesOf, EntriesOf
  <2> HIDE DEF there
  <2>3. /\ In(rs, RepliesOf(m)) => In(there, EntriesOf(m))
        /\ Once(there, EntriesOf(m)) => Once(rs, RepliesOf(m))
    BY <2>1, <2>2, InImage
  <2>4. /\ In(there, EntriesOf(m)) => In(b, EntriesOf(m))
        /\ Once(b, EntriesOf(m)) => Once(there, EntriesOf(m))
    BY <1>1, InOnly, InSet DEF there
  <2> QED
    BY <2>3, <2>4
<1> HIDE DEF there
<1>10. ASSUME NEW m \in Message
       PROVE  /\ In(links'[d].replies, RepliesOf(m)) => In(x.replies, RepliesOf(m)) \/ In(b, EntriesOf(m))
              /\ Once(x.replies, RepliesOf(m)) /\ Once(b, EntriesOf(m))
                 /\ ~(In(x.replies, RepliesOf(m)) /\ In(b, EntriesOf(m)))
                   => Once(links'[d].replies, RepliesOf(m))
  <2>1. /\ In(x.replies \o rs, RepliesOf(m)) <=> In(x.replies, RepliesOf(m)) \/ In(rs, RepliesOf(m))
        /\ Once(x.replies, RepliesOf(m)) /\ Once(rs, RepliesOf(m))
           /\ ~(In(x.replies, RepliesOf(m)) /\ In(rs, RepliesOf(m)))
             => Once(x.replies \o rs, RepliesOf(m))
    BY <1>1, <1>8, InConcatenation
  <2> QED
    BY <1>5, <1>9, <2>1
<1>11. ASSUME NEW m \in Message
       PROVE  OnceInEach(m)' /\ Moves(m)
  <2>1. OnceInEach(m) /\ HeldOnce(m)
    BY DEF Orderly
  <2>2. ~(In(x.replies, RepliesOf(m)) /\ In(b, EntriesOf(m)))
    <3>1. In(x.replies, RepliesOf(m)) => Holds("replies", d, m)
      BY DEF Holds
    <3>2. In(b, EntriesOf(m)) => Holds("back", d, m)
      BY DEF Holds
    <3> QED
      BY <2>1, <3>1, <3>2 DEF HeldOnce, Place
  <2>3. ~In(back'[d], EntriesOf(m)) /\ Once(back'[d], EntriesOf(m))
    BY <1>6, InNothing
  <2>4. OnceInEach(m)'
    BY <1>4, <1>5, <1>6, <1>10, <2>1, <2>2, <2>3 DEF OnceInEach
  <2>5. \A r \in Place : \A k \in Group :
          Holds(r, k, m)' => Holds(r, k, m) \/ (r = "replies" /\ k = d)
    BY <1>4, <1>5, <1>6, <2>3 DEF Holds
  <2>6. Holds("replies", d, m)' =>
          Holds("replies", d, m) \/ (Holds("back", d, m) /\ ~Holds("back", d, m)')
    BY <1>10, <2>3 DEF Holds
  <2>7. Moves(m)
    BY <2>5, <2>6, MessagePasses DEF Place
  <2> QED
    BY <2>4, <2>7
<1>12. ASSUME NEW g \in Group
       PROVE  (Line(links[g], client[g]) /\ Local(g))'
  <2>1. Line(links[g], client[g]) /\ Local(g)
    BY DEF Orderly
  <2>2. Line(links'[g], client'[g])
    <3>1. CASE g # d
      BY <1>4, <1>5, <2>1, <3>1
    <3>2. CASE g = d
      BY <1>1, <1>4, <1>5, <1>8, <2>1, <3>2, LineWithMoreReplies
    <3> QED
      BY <3>1, <3>2
  <2>3. ToSet(back'[g]) \subseteq ToSet(back[g])
    <3>1. ToSet(back'[d]) = {}
      BY <1>6 DEF ToSet
    <3> QED
      BY <1>6, <3>1
  <2>4. Local(g)'
    BY <1>4, <1>5, <2>1, <2>3 DEF Local
  <2> QED
    BY <2>2, <2>4
<1> QED
  BY <1>4, <1>11, <1>12, OrderlyStays

-----------------------------------------------------------------------------
(* The server reads a request *)

\* The first request is answered: the acknowledgement comes after the others.
LEMMA LineAnswered ==
  ASSUME NEW k \in Link, NEW c, Line(k, c), k.requests # <<>>,
         NEW r \in Reply, r.kind = "processed", r.number = Head(k.requests).number,
         NEW j, j.requests = Tail(k.requests), j.replies = Append(k.replies, r)
  PROVE  Line(j, c)
<1> DEFINE s == k.replies
           t == j.replies
           p == k.requests
           q == j.requests
<1>1. s \in Seq(Reply) /\ p \in Seq(Request)
  BY LinkIsTyped
<1>2. /\ \A i \in 1..Len(s) : t[i] = s[i]
      /\ t[Len(s) + 1] = r
      /\ ToSet(t) = ToSet(s) \cup {r}
      /\ DOMAIN t = 1..(Len(s) + 1) /\ DOMAIN s = 1..Len(s) /\ Len(s) \in Nat
  BY <1>1, OfAppend
<1>3. /\ ToSet(p) = ToSet(q) \cup {p[1]} /\ Head(p) = p[1] /\ p[1] \in ToSet(p)
      /\ \A i \in DOMAIN q : i \in Nat /\ 1 < i + 1 /\ i + 1 \in DOMAIN p /\ q[i] = p[i + 1]
      /\ 1 \in DOMAIN p
  BY <1>1, OfTail, AfterTail
<1>4. \A i \in DOMAIN s : s[i] \in ToSet(s)
  BY DEF ToSet
<1> HIDE DEF s, t, p, q
<1>5. \A a, b \in DOMAIN t : a < b /\ t[a].kind = "processed" /\ t[b].kind = "processed"
                               => t[a].number < t[b].number
  <2> SUFFICES ASSUME NEW a \in DOMAIN t, NEW b \in DOMAIN t, a < b,
                      t[a].kind = "processed", t[b].kind = "processed"
               PROVE  t[a].number < t[b].number
    OBVIOUS
  <2>1. a \in DOMAIN s /\ t[a] = s[a] /\ s[a] \in ToSet(s)
    BY <1>2, <1>4
  <2>2. CASE b \in DOMAIN s
    BY <1>2, <2>1, <2>2 DEF Line, s
  <2>3. CASE b = Len(s) + 1
    <3>1. t[b] = r
      BY <1>2, <2>3
    <3> QED
      BY <1>3, <2>1, <3>1 DEF Line, s, p
  <2> QED
    BY <1>2, <2>2, <2>3
<1>6. \A a, b \in DOMAIN q : a < b => q[a].number < q[b].number
  <2> SUFFICES ASSUME NEW a \in DOMAIN q, NEW b \in DOMAIN q, a < b
               PROVE  q[a].number < q[b].number
    OBVIOUS
  <2>1. a + 1 < b + 1
    BY <1>3
  <2> QED
    BY <1>3, <2>1 DEF Line, p
<1>7. \A u \in ToSet(t), v \in ToSet(q) : u.kind = "processed" => u.number < v.number
  <2> SUFFICES ASSUME NEW u \in ToSet(t), NEW v \in ToSet(q), u.kind = "processed"
               PROVE  u.number < v.number
    OBVIOUS
  <2>1. CASE u \in ToSet(s)
    BY <1>3, <2>1 DEF Line, s, p
  <2>2. CASE u = r
    <3>1. PICK i \in DOMAIN q : v = q[i]
      BY DEF ToSet
    <3>2. 1 < i + 1 /\ v = p[i + 1]
      BY <1>3, <3>1
    <3> QED
      BY <1>3, <2>2, <3>2 DEF Line, p
  <2> QED
    BY <1>2, <2>1, <2>2
<1>8. \A n : Processed(n, k) => Processed(n, j)
  BY <1>2 DEF Processed, s, t
<1>9. Processed(p[1].number, j)
  BY <1>2, <1>3 DEF Processed, t, p
<1>10. \A e \in ToSet(c.wait) : Processed(e.number, j) \/ \E u \in ToSet(q) : u.number = e.number
  <2> SUFFICES ASSUME NEW e \in ToSet(c.wait)
               PROVE  Processed(e.number, j) \/ \E u \in ToSet(q) : u.number = e.number
    OBVIOUS
  <2>1. Processed(e.number, k) \/ \E u \in ToSet(p) : u.number = e.number
    BY DEF Line, p
  <2> QED
    BY <1>3, <1>8, <1>9, <2>1
<1>11. /\ \A u \in ToSet(t) : u.kind = "processed" => \E e \in ToSet(c.wait) : e.number = u.number
       /\ \A u \in ToSet(q) : \E e \in ToSet(c.wait) : e.number = u.number
  BY <1>2, <1>3 DEF Line, s, p
<1> QED
  BY <1>5, <1>6, <1>7, <1>10, <1>11 DEF Line, t, q

LEMMA ReceiveOrderly ==
  ASSUME MessagesInv, Orderly, NEW d \in Group, Receive(d)
  PROVE  Orderly'
<1> DEFINE x == links[d]
           request == Head(x.requests)
           n == request.id
           done == [kind |-> "processed", number |-> request.number]
           e == [id |-> n, asked |-> FALSE, socket |-> connects[d]]
           s == transfer[d]
<1>1. /\ x \in Link /\ x.replies \in Seq(Reply) /\ x.requests \in Seq(Request)
      /\ links \in [Group -> Link] /\ s \in Seq(Entry) /\ transfer \in [Group -> Seq(Entry)]
      /\ connects \in [Group -> Nat]
  BY QueuesAreTyped DEF MessagesInv, Typed
<1>2. d \notin stopped /\ x.requests # <<>> /\ x.up
  BY DEF Receive, Orderly, Local
<1>3. /\ links' = Answered(d, <<done>>)
      /\ transfer' = [transfer EXCEPT ![d] = Append(s, e)]
  BY <1>2 DEF Receive
<1>4. UNCHANGED <<sent, new_outgoing, outgoing, incoming, back, client, connects, stopped,
                  handled, logged, lost>>
  BY <1>2 DEF Receive, balancer
<1>5. request \in Request /\ n \in Message /\ request.number \in Nat
  <2>1. request \in ToSet(x.requests)
    BY <1>1, <1>2, OfTail
  <2> QED
    BY <1>1, <2>1, LinkIsTyped
<1> HIDE DEF request
<1>6. /\ done \in Reply /\ done.kind = "processed" /\ done.number = request.number
      /\ e \in Entry /\ e.id = n /\ e.socket = connects[d]
  BY <1>1, <1>5 DEF Reply, Entry
<1> HIDE DEF done, e, s
<1>7. transfer'[d] = Append(s, e) /\ \A g \in Group : g # d => transfer'[g] = transfer[g]
  BY <1>1, <1>3
<1>8. /\ links'[d].up = x.up /\ links'[d].requests = Tail(x.requests)
      /\ links'[d].replies = x.replies \o <<done>>
      /\ \A g \in Group : g # d => links'[g] = links[g]
  BY <1>1, <1>2, <1>3 DEF Answered, Link
<1>9. links'[d].replies = Append(x.replies, done)
  BY <1>1, <1>6, <1>8
<1>10. ASSUME NEW m \in Message
       PROVE  /\ In(s, EntriesOf(m)) => Holds("transfer", d, m)
              /\ In(transfer'[d], EntriesOf(m)) => In(s, EntriesOf(m)) \/ m = n
              /\ Once(s, EntriesOf(m)) /\ ~(In(s, EntriesOf(m)) /\ m = n)
                   => Once(transfer'[d], EntriesOf(m))
  <2>1. e \in EntriesOf(m) => m = n
    BY <1>6 DEF EntriesOf
  <2>2. In(s, EntriesOf(m)) => Holds("transfer", d, m)
    BY DEF Holds, s
  <2> QED
    BY <1>1, <1>6, <1>7, <2>1, <2>2, InAppend
<1>11. ASSUME NEW m \in Message
       PROVE  /\ In(links'[d].requests, EntriesOf(m)) => In(x.requests, EntriesOf(m))
              /\ m = n => In(x.requests, EntriesOf(m))
              /\ Once(x.requests, EntriesOf(m)) => Once(links'[d].requests, EntriesOf(m))
              /\ Once(x.requests, EntriesOf(m)) /\ m = n => ~In(links'[d].requests, EntriesOf(m))
  <2>1. /\ In(x.requests, EntriesOf(m)) <=> In(Tail(x.requests), EntriesOf(m)) \/ request \in EntriesOf(m)
        /\ Once(x.requests, EntriesOf(m)) =>
             Once(Tail(x.requests), EntriesOf(m)) /\ ~(In(Tail(x.requests), EntriesOf(m)) /\ request \in EntriesOf(m))
    BY <1>1, <1>2, InTail DEF request
  <2>2. m = n => request \in EntriesOf(m)
    BY <1>5 DEF EntriesOf
  <2> QED
    BY <1>8, <2>1, <2>2
<1>12. ASSUME NEW m \in Message
       PROVE  /\ In(links'[d].replies, RepliesOf(m)) => In(x.replies, RepliesOf(m))
              /\ Once(x.replies, RepliesOf(m)) => Once(links'[d].replies, RepliesOf(m))
  <2>1. done \notin RepliesOf(m)
    BY <1>6 DEF RepliesOf
  <2> QED
    BY <1>1, <1>6, <1>9, <2>1, InAppend
<1>13. ASSUME NEW m \in Message
       PROVE  OnceInEach(m)' /\ Moves(m)
  <2>1. OnceInEach(m) /\ HeldOnce(m)
    BY DEF Orderly
  <2>2. m = n => ~In(s, EntriesOf(m))
    <3>1. In(x.requests, EntriesOf(m)) => Holds("requests", d, m)
      BY DEF Holds
    <3> QED
      BY <1>10, <1>11, <2>1, <3>1 DEF HeldOnce, Place
  <2>3. Once(s, EntriesOf(m)) /\ Once(x.requests, EntriesOf(m)) /\ Once(x.replies, RepliesOf(m))
    BY <2>1 DEF OnceInEach, s
  <2>4. OnceInEach(m)'
    <3>1. \A g \in Group : g # d =>
            /\ Once(transfer'[g], EntriesOf(m)) /\ Once(links'[g].requests, EntriesOf(m))
            /\ Once(links'[g].replies, RepliesOf(m))
      BY <1>7, <1>8, <2>1 DEF OnceInEach
    <3>2. /\ Once(transfer'[d], EntriesOf(m)) /\ Once(links'[d].requests, EntriesOf(m))
          /\ Once(links'[d].replies, RepliesOf(m))
      BY <1>10, <1>11, <1>12, <2>2, <2>3
    <3> QED
      BY <1>4, <2>1, <3>1, <3>2 DEF OnceInEach
  <2>5. \A r \in Place : \A k \in Group :
          Holds(r, k, m)' => Holds(r, k, m) \/ (r = "transfer" /\ k = d)
    <3> SUFFICES ASSUME NEW r \in Place, NEW k \in Group, Holds(r, k, m)'
                 PROVE  Holds(r, k, m) \/ (r = "transfer" /\ k = d)
      OBVIOUS
    <3>1. CASE r = "transfer"
      BY <1>7, <3>1 DEF Holds
    <3>2. CASE r = "requests"
      BY <1>8, <1>11, <3>2 DEF Holds
    <3>3. CASE r = "replies"
      BY <1>8, <1>12, <3>3 DEF Holds
    <3>4. CASE r \notin {"transfer", "requests", "replies"}
      BY <1>4, <3>4 DEF Holds
    <3> QED
      BY <3>1, <3>2, <3>3, <3>4
  <2>6. Holds("transfer", d, m)' =>
          Holds("transfer", d, m) \/ (Holds("requests", d, m) /\ ~Holds("requests", d, m)')
    BY <1>10, <1>11, <2>3 DEF Holds
  <2>7. Moves(m)
    BY <2>5, <2>6, MessagePasses DEF Place
  <2> QED
    BY <2>4, <2>7
<1>14. ASSUME NEW g \in Group
       PROVE  (Line(links[g], client[g]) /\ Local(g))'
  <2>1. Line(links[g], client[g]) /\ Local(g)
    BY DEF Orderly
  <2>2. Line(links'[g], client'[g])
    <3>1. CASE g # d
      BY <1>4, <1>8, <2>1, <3>1
    <3>2. CASE g = d
      <4>1. Line(links'[d], client[d])
        <5>1. Line(x, client[d])
          BY <2>1, <3>2
        <5>2. done.number = Head(x.requests).number
          BY <1>6 DEF request
        <5> HIDE DEF x
        <5> QED
          BY <1>1, <1>2, <1>6, <1>8, <1>9, <5>1, <5>2, LineAnswered
      <4> QED
        BY <1>4, <3>2, <4>1
    <3> QED
      BY <3>1, <3>2
  <2>3. Local(g)'
    <3>1. CASE g # d
      BY <1>4, <1>7, <1>8, <2>1, <3>1 DEF Local
    <3>2. CASE g = d
      <4>1. ToSet(transfer'[d]) = ToSet(s) \cup {e}
        BY <1>1, <1>6, <1>7, OfAppend
      <4> QED
        BY <1>2, <1>4, <1>6, <1>8, <2>1, <3>2, <4>1 DEF Local, s
    <3> QED
      BY <3>1, <3>2
  <2> QED
    BY <2>2, <2>3
<1> QED
  BY <1>4, <1>13, <1>14, OrderlyStays

-----------------------------------------------------------------------------
(* Tickets go out, are acknowledged or dropped *)

LEMMA AllFlushed ==
  ASSUME NEW c, ClientOK(c, Message, Location)
  PROVE  LET f == FlushTickets(c, Len(c.out)) IN
         /\ f.client.out = <<>> /\ f.client.wait = c.wait \o f.sent
         /\ DOMAIN f.sent = DOMAIN c.out
         /\ \A i \in DOMAIN c.out : f.sent[i].data = c.out[i].data /\ f.sent[i].number = c.out[i].number
<1> DEFINE n == Len(c.out)
           ts == [i \in 1..n |-> [c.out[i] EXCEPT !.loop = @ + 1]]
           f == FlushTickets(c, n)
<1>1. c \in ClientOf(Message, Location) /\ c.out \in Seq(TicketOf(Message, Location))
  BY DEF ClientOK, ClientOf
<1>2. /\ f.client = [c EXCEPT !.out = SubSeq(c.out, n + 1, n), !.wait = c.wait \o ts]
      /\ f.sent = ts
  BY DEF FlushTickets
<1>3. SubSeq(c.out, n + 1, n) = <<>>
  BY <1>1
<1>4. \A i \in 1..n : c.out[i] \in TicketOf(Message, Location)
  BY <1>1
<1>5. \A i \in 1..n : ts[i].data = c.out[i].data /\ ts[i].number = c.out[i].number
  BY <1>4 DEF TicketOf
<1>6. DOMAIN ts = 1..n /\ DOMAIN c.out = 1..n
  BY <1>1
<1> HIDE DEF ts, n
<1>7. f.client.out = <<>> /\ f.client.wait = c.wait \o ts
  BY <1>1, <1>2, <1>3 DEF ClientOf
<1> QED
  BY <1>2, <1>5, <1>6, <1>7 DEF n

LEMMA LineFlushed ==
  ASSUME NEW k \in Link, NEW c, ClientOK(c, Message, Location), Line(k, c),
         NEW ts \in Seq(TicketOf(Message, Location)), DOMAIN ts = DOMAIN c.out,
         \A i \in DOMAIN c.out : ts[i].number = c.out[i].number,
         NEW j, j.requests = k.requests \o Requested(ts), j.replies = k.replies,
         NEW d, d.wait = c.wait \o ts
  PROVE  Line(j, d)
<1> DEFINE s == k.requests
           r == Requested(ts)
           q == j.requests
<1>1. s \in Seq(Request) /\ c.wait \in Seq(TicketOf(Message, Location))
      /\ c.out \in Seq(TicketOf(Message, Location))
  BY LinkIsTyped, TicketsAreTyped
<1>2. r \in Seq(Request)
  BY OfRequested
<1>3. /\ DOMAIN r = DOMAIN ts /\ DOMAIN r = 1..Len(r) /\ \A i \in DOMAIN r : i \in Nat
      /\ \A i \in DOMAIN r : r[i].number = c.out[i].number
  <2>1. DOMAIN r = DOMAIN ts /\ \A i \in DOMAIN r : r[i].number = ts[i].number
    BY DEF Requested
  <2> HIDE DEF r
  <2> QED
    BY <1>2, <2>1
<1>4. \A t \in ToSet(c.wait) : \A i \in DOMAIN r : t.number < r[i].number
  <2>1. \A i \in DOMAIN c.out : c.out[i] \in ToSet(c.out)
    BY DEF ToSet
  <2> HIDE DEF r
  <2> QED
    BY <1>3, <2>1 DEF ClientOK, AllBefore, Before
<1>5. \A a, b \in DOMAIN r : a < b => r[a].number < r[b].number
  <2> HIDE DEF r
  <2> QED
    BY <1>3 DEF ClientOK, InOrder, Before
<1>6. \A u \in ToSet(r) : \E i \in DOMAIN r : u = r[i]
  BY DEF ToSet
<1> HIDE DEF r
<1>7. /\ \A i \in 1..Len(s) : q[i] = s[i]
      /\ \A i \in 1..Len(r) : q[Len(s) + i] = r[i]
      /\ \A i \in 1..(Len(s) + Len(r)) :
           i \in 1..Len(s) \/ \E l \in 1..Len(r) : i = Len(s) + l
      /\ ToSet(q) = ToSet(s) \cup ToSet(r)
      /\ DOMAIN q = 1..(Len(s) + Len(r)) /\ DOMAIN s = 1..Len(s) /\ Len(s) \in Nat
  <2>1. q \in Seq(Request) /\ Len(q) = Len(s) + Len(r)
    BY <1>1, <1>2, OfConcatenation DEF r
  <2> QED
    BY <1>1, <1>2, <2>1, OfConcatenation DEF r
<1>8. ToSet(d.wait) = ToSet(c.wait) \cup ToSet(ts)
  BY <1>1, OfConcatenation
<1>9. \A i \in DOMAIN s : s[i] \in ToSet(s)
  BY DEF ToSet
<1> HIDE DEF s, q
<1>10. \A u \in ToSet(s) : \A i \in DOMAIN r : u.number < r[i].number
  BY <1>4 DEF Line, s
<1>11. \A a, b \in DOMAIN q : a < b => q[a].number < q[b].number
  <2> SUFFICES ASSUME NEW a \in DOMAIN q, NEW b \in DOMAIN q, a < b
               PROVE  q[a].number < q[b].number
    OBVIOUS
  <2>1. CASE a \in DOMAIN s /\ b \in DOMAIN s
    BY <1>7, <2>1 DEF Line, s
  <2>2. CASE a \in DOMAIN s /\ b \notin DOMAIN s
    <3>1. PICK l \in 1..Len(r) : b = Len(s) + l
      BY <1>7, <2>2
    <3>2. q[a] = s[a] /\ q[b] = r[l] /\ s[a] \in ToSet(s)
      BY <1>7, <1>9, <2>2, <3>1
    <3> QED
      BY <1>3, <1>10, <3>2
  <2>3. CASE a \notin DOMAIN s
    <3>1. a > Len(s) /\ b \notin DOMAIN s /\ a \in Nat /\ b \in Nat
      <4> DEFINE n == Len(s)
                 o == Len(r)
      <4>1. /\ n \in Nat /\ o \in Nat /\ DOMAIN s = 1..n
            /\ a \in 1..(n + o) /\ b \in 1..(n + o)
        BY <1>2, <1>7
      <4>2. a \notin 1..n
        BY <2>3, <4>1
      <4> HIDE DEF n, o
      <4>3. a > n /\ b \notin 1..n /\ a \in Nat /\ b \in Nat
        BY <4>1, <4>2
      <4> QED
        BY <4>1, <4>3 DEF n
    <3>2. PICK l \in 1..Len(r) : b = Len(s) + l
      BY <1>7, <3>1
    <3>3. PICK i \in 1..Len(r) : a = Len(s) + i
      BY <1>7, <2>3
    <3>4. i < l
      BY <1>7, <3>2, <3>3
    <3>5. i \in DOMAIN r /\ l \in DOMAIN r
      BY <1>3
    <3>6. q[a] = r[i] /\ q[b] = r[l]
      BY <1>7, <3>2, <3>3
    <3> QED
      BY <1>5, <3>4, <3>5, <3>6
  <2> QED
    BY <2>1, <2>2, <2>3
<1>12. \A u \in ToSet(k.replies), v \in ToSet(q) : u.kind = "processed" => u.number < v.number
  <2> SUFFICES ASSUME NEW u \in ToSet(k.replies), NEW v \in ToSet(q), u.kind = "processed"
               PROVE  u.number < v.number
    OBVIOUS
  <2>1. CASE v \in ToSet(s)
    BY <2>1 DEF Line, s
  <2>2. CASE v \in ToSet(r)
    BY <1>4, <1>6, <2>2 DEF Line
  <2> QED
    BY <1>7, <2>1, <2>2
<1>13. \A v \in ToSet(q) : \E t \in ToSet(d.wait) : t.number = v.number
  <2> SUFFICES ASSUME NEW v \in ToSet(q)
               PROVE  \E t \in ToSet(d.wait) : t.number = v.number
    OBVIOUS
  <2>1. CASE v \in ToSet(s)
    BY <1>8, <2>1 DEF Line, s
  <2>2. CASE v \in ToSet(r)
    <3>1. PICK i \in DOMAIN r : v = r[i]
      BY <1>6, <2>2
    <3>2. ts[i] \in ToSet(ts)
      BY <1>3 DEF ToSet
    <3> QED
      BY <1>3, <1>8, <3>1, <3>2
  <2> QED
    BY <1>7, <2>1, <2>2
<1>14. \A t \in ToSet(d.wait) : Processed(t.number, j) \/ \E v \in ToSet(q) : v.number = t.number
  <2> SUFFICES ASSUME NEW t \in ToSet(d.wait)
               PROVE  Processed(t.number, j) \/ \E v \in ToSet(q) : v.number = t.number
    OBVIOUS
  <2>1. CASE t \in ToSet(c.wait)
    <3>1. Processed(t.number, k) => Processed(t.number, j)
      BY DEF Processed
    <3> QED
      BY <1>7, <2>1, <3>1 DEF Line, s
  <2>2. CASE t \in ToSet(ts)
    <3>1. PICK i \in DOMAIN ts : t = ts[i]
      BY <2>2 DEF ToSet
    <3>2. r[i] \in ToSet(r)
      BY <1>3 DEF ToSet
    <3> QED
      BY <1>3, <1>7, <3>1, <3>2
  <2> QED
    BY <1>8, <2>1, <2>2
<1> QED
  BY <1>8, <1>11, <1>12, <1>13, <1>14 DEF Line, q

LEMMA FlushOrderly ==
  ASSUME MessagesInv, Orderly, NEW d \in Group, Flush(d)
  PROVE  Orderly'
<1> DEFINE x == links[d]
           c == client[d]
           f == FlushTickets(c, Len(c.out))
           ts == f.sent
           rs == Requested(ts)
<1>1. /\ x \in Link /\ x.requests \in Seq(Request) /\ links \in [Group -> Link]
      /\ client \in [Group -> ClientOf(Message, Location)]
      /\ ClientOK(c, Message, Location) /\ c.out \in Seq(TicketOf(Message, Location))
      /\ connects \in [Group -> Nat]
  BY QueuesAreTyped DEF MessagesInv, Typed
<1>2. /\ client' = [client EXCEPT ![d] = f.client]
      /\ links' = [links EXCEPT ![d].up = TRUE, ![d].requests = @ \o rs]
      /\ connects' = IF x.up THEN connects ELSE [connects EXCEPT ![d] = @ + 1]
  BY DEF Flush, Requested
<1>3. UNCHANGED <<sent, new_outgoing, outgoing, transfer, incoming, back, stopped,
                  handled, logged, lost>>
  BY DEF Flush, queues, balancer, fates
<1>4. ts \in Seq(TicketOf(Message, Location))
  <2>1. Len(c.out) \in 0..Len(c.out)
    BY <1>1
  <2> QED
    BY <1>1, <2>1, FlushTicketsOK
<1>5. /\ f.client.out = <<>> /\ f.client.wait = c.wait \o ts
      /\ DOMAIN ts = DOMAIN c.out
      /\ \A i \in DOMAIN c.out : ts[i].data = c.out[i].data /\ ts[i].number = c.out[i].number
  <2> HIDE DEF c
  <2> QED
    BY <1>1, AllFlushed
<1> HIDE DEF f, rs
<1>6. /\ client'[d].out = <<>> /\ client'[d].wait = c.wait \o ts
      /\ \A g \in Group : g # d => client'[g] = client[g]
  BY <1>1, <1>2, <1>5
<1>7. /\ links'[d].up /\ links'[d].requests = x.requests \o rs /\ links'[d].replies = x.replies
      /\ \A g \in Group : g # d => links'[g] = links[g]
  BY <1>1, <1>2 DEF Link
<1>8. rs \in Seq(Request)
  BY <1>4, OfRequested DEF rs
<1>9. ASSUME NEW m \in Message
      PROVE  /\ In(rs, EntriesOf(m)) => In(c.out, TicketsOf(m))
             /\ Once(c.out, TicketsOf(m)) => Once(rs, EntriesOf(m))
  <2>1. /\ DOMAIN rs = DOMAIN c.out
        /\ \A i \in DOMAIN c.out : rs[i].id = c.out[i].data /\ c.out[i] \in TicketOf(Message, Location)
    BY <1>1, <1>5 DEF rs, Requested
  <2>2. \A i \in DOMAIN c.out : rs[i] \in EntriesOf(m) => c.out[i] \in TicketsOf(m)
    BY <2>1 DEF TicketsOf, EntriesOf
  <2> HIDE DEF c
  <2> QED
    BY <2>1, <2>2, InImage
<1>10. ASSUME NEW m \in Message
       PROVE  /\ In(links'[d].requests, EntriesOf(m)) => In(x.requests, EntriesOf(m)) \/ In(c.out, TicketsOf(m))
              /\ Once(x.requests, EntriesOf(m)) /\ Once(c.out, TicketsOf(m))
                 /\ ~(In(x.requests, EntriesOf(m)) /\ In(c.out, TicketsOf(m)))
                   => Once(links'[d].requests, EntriesOf(m))
  <2>1. /\ In(x.requests \o rs, EntriesOf(m)) <=> In(x.requests, EntriesOf(m)) \/ In(rs, EntriesOf(m))
        /\ Once(x.requests, EntriesOf(m)) /\ Once(rs, EntriesOf(m))
           /\ ~(In(x.requests, EntriesOf(m)) /\ In(rs, EntriesOf(m)))
             => Once(x.requests \o rs, EntriesOf(m))
    BY <1>1, <1>8, InConcatenation
  <2> QED
    BY <1>7, <1>9, <2>1
<1>11. ASSUME NEW m \in Message
       PROVE  OnceInEach(m)' /\ Moves(m)
  <2>1. OnceInEach(m) /\ HeldOnce(m)
    BY DEF Orderly
  <2>2. ~(In(x.requests, EntriesOf(m)) /\ In(c.out, TicketsOf(m)))
    <3>1. In(x.requests, EntriesOf(m)) => Holds("requests", d, m)
      BY DEF Holds
    <3>2. In(c.out, TicketsOf(m)) => Holds("tickets", d, m)
      BY DEF Holds
    <3> QED
      BY <2>1, <3>1, <3>2 DEF HeldOnce, Place
  <2>3. ~In(client'[d].out, TicketsOf(m)) /\ Once(client'[d].out, TicketsOf(m))
    BY <1>6, InNothing
  <2>4. OnceInEach(m)'
    <3>1. \A g \in Group : g # d =>
            /\ Once(client'[g].out, TicketsOf(m)) /\ Once(links'[g].requests, EntriesOf(m))
            /\ Once(links'[g].replies, RepliesOf(m))
      BY <1>6, <1>7, <2>1 DEF OnceInEach
    <3>2. Once(links'[d].requests, EntriesOf(m)) /\ Once(links'[d].replies, RepliesOf(m))
      BY <1>7, <1>10, <2>1, <2>2 DEF OnceInEach
    <3> QED
      BY <1>3, <2>1, <2>3, <3>1, <3>2 DEF OnceInEach
  <2>5. \A r \in Place : \A k \in Group :
          Holds(r, k, m)' => Holds(r, k, m) \/ (r = "requests" /\ k = d)
    BY <1>3, <1>6, <1>7, <2>3 DEF Holds
  <2>6. Holds("requests", d, m)' =>
          Holds("requests", d, m) \/ (Holds("tickets", d, m) /\ ~Holds("tickets", d, m)')
    BY <1>10, <2>3 DEF Holds
  <2>7. Moves(m)
    BY <2>5, <2>6, MessagePasses DEF Place
  <2> QED
    BY <2>4, <2>7
<1>12. ASSUME NEW g \in Group
       PROVE  (Line(links[g], client[g]) /\ Local(g))'
  <2>1. Line(links[g], client[g]) /\ Local(g)
    BY DEF Orderly
  <2>2. Line(links'[g], client'[g])
    <3>1. CASE g # d
      BY <1>6, <1>7, <2>1, <3>1
    <3>2. CASE g = d
      <4>1. Line(x, c)
        BY <2>1, <3>2
      <4>2. Line(links'[d], client'[d])
        <5> HIDE DEF x, c, ts
        <5> QED
          BY <1>1, <1>4, <1>5, <1>6, <1>7, <4>1, LineFlushed DEF rs
      <4> QED
        BY <3>2, <4>2
    <3> QED
      BY <3>1, <3>2
  <2>3. Local(g)'
    <3>1. CASE g # d
      <4>1. connects'[g] = connects[g]
        BY <1>1, <1>2, <3>1
      <4> QED
        BY <1>3, <1>6, <1>7, <2>1, <3>1, <4>1 DEF Local
    <3>2. CASE g = d
      BY <1>2, <1>3, <1>7, <2>1, <3>2 DEF Local
    <3> QED
      BY <3>1, <3>2
  <2> QED
    BY <2>2, <2>3
<1> QED
  BY <1>3, <1>11, <1>12, OrderlyStays

LEMMA DroppedOnce ==
  ASSUME Typed, NEW drops \in Seq(DropOf(Message, Location)), NEW late,
         DroppedTickets(drops, late), NEW m \in Message,
         \A i, j \in DOMAIN drops :
           drops[i].ticket.data = m /\ drops[j].ticket.data = m => i = j
  PROVE  /\ In(new_outgoing', EntriesOf(m)) => In(new_outgoing, EntriesOf(m)) \/ IsDropped(m, drops)
         /\ Once(new_outgoing, EntriesOf(m)) /\ ~(In(new_outgoing, EntriesOf(m)) /\ IsDropped(m, drops))
              => Once(new_outgoing', EntriesOf(m))
         /\ m \in logged' => m \in logged \/ IsDropped(m, drops)
         /\ ~(/\ In(new_outgoing', EntriesOf(m)) /\ ~In(new_outgoing, EntriesOf(m))
              /\ m \in logged' /\ m \notin logged)
<1> DEFINE ids(S) == {drops[i].ticket.data : i \in S}
           repeated == AskedAgain(drops, late)
           Again == {d \in ToSet(drops) : d.ticket.data \in ids(repeated)}
           again == Only(drops, Again)
           more == Requeues(again)
           Of == {d \in DropOf(Message, Location) : d.ticket.data = m}
           dropped == {x \in ids(DOMAIN drops) :
             \E i \in DOMAIN drops : /\ drops[i].ticket.data = x
                                     /\ drops[i].reason = "DeadlineReached" => x \in late}
<1>1. /\ new_outgoing' = new_outgoing \o more
      /\ logged' = logged \cup dropped
  BY DEF DroppedTickets, Requeues
<1>2. \A i \in DOMAIN drops : drops[i] \in ToSet(drops) /\ drops[i] \in DropOf(Message, Location)
  BY ElementsAreTyped
<1>3. m \in dropped => IsDropped(m, drops)
  BY DEF IsDropped
<1>4. m \in ids(repeated) => IsDropped(m, drops) /\ m \notin dropped
  BY DEF IsDropped, AskedAgain
<1>5. \A d \in Again : d.ticket.data \in ids(repeated)
  OBVIOUS
<1> HIDE DEF ids, repeated, Again, dropped
<1>6. again \in Seq(DropOf(Message, Location)) /\ ToSet(again) = ToSet(drops) \cap Again
  BY OnlyElements
<1>7. /\ In(again, Of) => m \in ids(repeated)
      /\ Once(again, Of)
  <2>1. Once(drops, Of)
    BY DEF Once
  <2>2. Once(again, Of)
    BY <2>1, InOnly
  <2>3. In(again, Of) => m \in ids(repeated)
    <3> HIDE DEF again
    <3> QED
      BY <1>5, <1>6, InSet
  <2> QED
    BY <2>2, <2>3
<1> HIDE DEF again
<1>8. more \in Seq(Entry)
  BY <1>6, OfRequeues
<1>9. In(more, EntriesOf(m)) => m \in ids(repeated)
  <2>1. /\ DOMAIN more = DOMAIN again
        /\ \A i \in DOMAIN again : more[i].id = again[i].ticket.data /\ again[i] \in DropOf(Message, Location)
    BY <1>6, ElementsAreTyped DEF Requeues, Waiting
  <2>2. \A i \in DOMAIN again : more[i] \in EntriesOf(m) => again[i] \in Of
    BY <2>1 DEF EntriesOf
  <2> HIDE DEF more, Of
  <2>3. In(more, EntriesOf(m)) => In(again, Of)
    BY <2>1, <2>2, InImage
  <2> QED
    BY <1>7, <2>3
<1>10. Once(more, EntriesOf(m))
  <2>1. /\ DOMAIN more = DOMAIN again
        /\ \A i \in DOMAIN again : more[i].id = again[i].ticket.data /\ again[i] \in DropOf(Message, Location)
    BY <1>6, ElementsAreTyped DEF Requeues, Waiting
  <2>2. \A i \in DOMAIN again : more[i] \in EntriesOf(m) => again[i] \in Of
    BY <2>1 DEF EntriesOf
  <2> HIDE DEF more, Of
  <2> QED
    BY <1>7, <2>1, <2>2, InImage
<1>11. new_outgoing \in Seq(Entry)
  BY DEF Typed
<1> HIDE DEF more, Of
<1>12. /\ In(new_outgoing', EntriesOf(m)) => In(new_outgoing, EntriesOf(m)) \/ In(more, EntriesOf(m))
       /\ Once(new_outgoing, EntriesOf(m)) /\ ~(In(new_outgoing, EntriesOf(m)) /\ In(more, EntriesOf(m)))
            => Once(new_outgoing', EntriesOf(m))
  BY <1>1, <1>8, <1>10, <1>11, InConcatenation
<1> QED
  BY <1>1, <1>3, <1>4, <1>9, <1>12

\* What drops tickets that are to be sent and leaves the connection alone.
LEMMA DropsOrderly ==
  ASSUME MessagesInv, Orderly, NEW d \in Group,
         NEW drops \in Seq(DropOf(Message, Location)), NEW late, DroppedTickets(drops, late),
         UNCHANGED <<sent, outgoing, transfer, incoming, back, connects, stopped, handled, lost>>,
         \A g \in Group : g # d => client'[g] = client[g] /\ links'[g] = links[g],
         (Line(links[d], client[d]) /\ Local(d))', links'[d].requests = links[d].requests,
         \A m \in Message :
           /\ In(links'[d].replies, RepliesOf(m)) => In(links[d].replies, RepliesOf(m))
           /\ Once(links[d].replies, RepliesOf(m)) => Once(links'[d].replies, RepliesOf(m))
           /\ In(client'[d].out, TicketsOf(m)) => In(client[d].out, TicketsOf(m))
           /\ Once(client[d].out, TicketsOf(m)) => Once(client'[d].out, TicketsOf(m))
           /\ IsDropped(m, drops) => /\ In(client[d].out, TicketsOf(m))
                                     /\ ~In(client'[d].out, TicketsOf(m))
           /\ Once(client[d].out, TicketsOf(m)) =>
                \A i, j \in DOMAIN drops :
                  drops[i].ticket.data = m /\ drops[j].ticket.data = m => i = j
  PROVE  Orderly'
<1>1. ASSUME NEW m \in Message
      PROVE  OnceInEach(m)' /\ Moves(m)
  <2>1. OnceInEach(m) /\ HeldOnce(m)
    BY DEF Orderly
  <2>2. Once(client[d].out, TicketsOf(m)) /\ Once(new_outgoing, EntriesOf(m))
    BY <2>1 DEF OnceInEach
  <2>3. /\ In(new_outgoing', EntriesOf(m)) => In(new_outgoing, EntriesOf(m)) \/ IsDropped(m, drops)
        /\ Once(new_outgoing, EntriesOf(m)) /\ ~(In(new_outgoing, EntriesOf(m)) /\ IsDropped(m, drops))
             => Once(new_outgoing', EntriesOf(m))
        /\ m \in logged' => m \in logged \/ IsDropped(m, drops)
        /\ ~(/\ In(new_outgoing', EntriesOf(m)) /\ ~In(new_outgoing, EntriesOf(m))
             /\ m \in logged' /\ m \notin logged)
    <3>1. \A i, j \in DOMAIN drops : drops[i].ticket.data = m /\ drops[j].ticket.data = m => i = j
      BY <2>2
    <3>2. Typed
      BY DEF MessagesInv
    <3> QED
      BY <3>1, <3>2, DroppedOnce
  <2>4. ~(In(new_outgoing, EntriesOf(m)) /\ IsDropped(m, drops))
    <3>1. In(new_outgoing, EntriesOf(m)) => Holds("new_outgoing", Sender, m)
      BY DEF Holds
    <3>2. In(client[d].out, TicketsOf(m)) => Holds("tickets", d, m)
      BY DEF Holds
    <3> QED
      BY <2>1, <3>1, <3>2, LogicMessagesAssumption DEF HeldOnce, Place
  <2>5. OnceInEach(m)'
    <3>1. \A g \in Group : g # d =>
            /\ Once(client'[g].out, TicketsOf(m)) /\ Once(links'[g].requests, EntriesOf(m))
            /\ Once(links'[g].replies, RepliesOf(m))
      BY <2>1 DEF OnceInEach
    <3>2. /\ Once(client'[d].out, TicketsOf(m)) /\ Once(links'[d].requests, EntriesOf(m))
          /\ Once(links'[d].replies, RepliesOf(m))
      BY <2>1 DEF OnceInEach
    <3> QED
      BY <2>1, <2>2, <2>3, <2>4, <3>1, <3>2 DEF OnceInEach
  <2>6. \A r \in Place : \A k \in Group :
          New(r, k, m) => k = Sender /\ (r = "new_outgoing" \/ r = "logged")
    BY DEF Holds, New
  <2>7. /\ New("new_outgoing", Sender, m) =>
             In(new_outgoing', EntriesOf(m)) /\ ~In(new_outgoing, EntriesOf(m))
        /\ New("logged", Sender, m) => m \in logged' /\ m \notin logged
    BY DEF Holds, New
  <2>8. IsDropped(m, drops) => Gone(m)
    <3>1. IsDropped(m, drops) => Holds("tickets", d, m) /\ ~Holds("tickets", d, m)'
      BY DEF Holds
    <3> QED
      BY <3>1 DEF Gone, Place
  <2>9. Moves(m)
    BY <2>3, <2>6, <2>7, <2>8 DEF Moves
  <2> QED
    BY <2>5, <2>9
<1>2. ASSUME NEW g \in Group
      PROVE  (Line(links[g], client[g]) /\ Local(g))'
  <2>1. Line(links[g], client[g]) /\ Local(g)
    BY DEF Orderly
  <2>2. CASE g = d
    BY <2>2
  <2>3. CASE g # d
    BY <2>1, <2>3 DEF Local
  <2> QED
    BY <2>2, <2>3
<1> QED
  BY <1>1, <1>2, OrderlyStays

LEMMA DropDueOnce ==
  ASSUME NEW c, ClientOK(c, Message, Location), NEW due, NEW m \in Message
  PROVE  LET r == DropDue(c, due) IN
         /\ In(r.client.out, TicketsOf(m)) => In(c.out, TicketsOf(m)) /\ m \notin due
         /\ Once(c.out, TicketsOf(m)) => Once(r.client.out, TicketsOf(m))
         /\ IsDropped(m, r.dropped) => In(c.out, TicketsOf(m)) /\ m \in due
         /\ Once(c.out, TicketsOf(m)) =>
              \A i, j \in DOMAIN r.dropped :
                r.dropped[i].ticket.data = m /\ r.dropped[j].ticket.data = m => i = j
<1> DEFINE K == {t \in ToSet(c.out) : t.data \notin due}
           L == {t \in ToSet(c.out) : t.data \in due}
           late == Only(c.out, L)
           drops == DropDue(c, due).dropped
           X == TicketOf(Message, Location)
<1>1. c \in ClientOf(Message, Location) /\ c.out \in Seq(X)
  BY TicketsAreTyped DEF ClientOK
<1>2. DropDue(c, due).client.out = Only(c.out, K) /\ drops = Drops(late, "DeadlineReached")
  BY <1>1 DEF DropDue, Drops, ClientOf
<1>3. (\A t \in K : t.data \notin due) /\ (\A t \in L : t.data \in due)
  OBVIOUS
<1> HIDE DEF K, L, drops, X
<1>4. late \in Seq(X) /\ ToSet(late) = ToSet(c.out) \cap L
  BY <1>1, OnlyElements
<1>5. /\ In(Only(c.out, K), TicketsOf(m)) => In(c.out, TicketsOf(m)) /\ m \notin due
      /\ Once(c.out, TicketsOf(m)) => Once(Only(c.out, K), TicketsOf(m))
  <2>1. \A t \in TicketsOf(m) : t.data = m
    BY DEF TicketsOf
  <2>2. /\ In(Only(c.out, K), TicketsOf(m)) => \E x \in ToSet(c.out) : x \in K /\ x \in TicketsOf(m)
        /\ Once(c.out, TicketsOf(m)) => Once(Only(c.out, K), TicketsOf(m))
    BY <1>1, InOnly
  <2> QED
    BY <1>3, <2>1, <2>2, InSet
<1>6. Once(c.out, TicketsOf(m)) => Once(late, TicketsOf(m))
  BY <1>1, InOnly
<1> HIDE DEF late
<1>7. /\ DOMAIN drops = DOMAIN late /\ \A i \in DOMAIN late : drops[i].ticket = late[i]
      /\ \A i \in DOMAIN late : late[i] \in ToSet(c.out) /\ late[i].data \in due /\ late[i] \in X
  BY <1>2, <1>3, <1>4, ElementsAreTyped DEF Drops, Drop
<1>8. \A i \in DOMAIN late : late[i].data = m => late[i] \in TicketsOf(m)
  BY <1>7 DEF TicketsOf, X
<1>9. IsDropped(m, drops) => In(c.out, TicketsOf(m)) /\ m \in due
  BY <1>7, <1>8, InSet DEF IsDropped
<1>10. Once(late, TicketsOf(m)) => \A i, j \in DOMAIN drops :
         drops[i].ticket.data = m /\ drops[j].ticket.data = m => i = j
  BY <1>7, <1>8 DEF Once
<1> QED
  BY <1>2, <1>5, <1>6, <1>9, <1>10 DEF drops

LEMMA DropDueTicketsOrderly ==
  ASSUME MessagesInv, Orderly, NEW d \in Group, DropDueTickets(d)
  PROVE  Orderly'
<1> DEFINE c == client[d]
<1>1. PICK due, late :
        /\ client' = [client EXCEPT ![d] = DropDue(c, due).client]
        /\ DroppedTickets(DropDue(c, due).dropped, late)
  BY DEF DropDueTickets
<1> DEFINE r == DropDue(c, due)
<1>2. UNCHANGED <<sent, outgoing, transfer, incoming, back, links, connects, stopped, handled, lost>>
  BY DEF DropDueTickets, balancer
<1>3. /\ client \in [Group -> ClientOf(Message, Location)] /\ ClientOK(c, Message, Location)
  BY QueuesAreTyped
<1>4. r.dropped \in Seq(DropOf(Message, Location)) /\ r.client.wait = c.wait
  <2> HIDE DEF c
  <2> QED
    BY <1>3, DropDueOK
<1>5. client'[d] = r.client /\ \A g \in Group : g # d => client'[g] = client[g]
  BY <1>1, <1>3
<1>6. ASSUME NEW m \in Message
      PROVE  /\ In(r.client.out, TicketsOf(m)) => In(c.out, TicketsOf(m)) /\ m \notin due
             /\ Once(c.out, TicketsOf(m)) => Once(r.client.out, TicketsOf(m))
             /\ IsDropped(m, r.dropped) => In(c.out, TicketsOf(m)) /\ m \in due
             /\ Once(c.out, TicketsOf(m)) =>
                  \A i, j \in DOMAIN r.dropped :
                    r.dropped[i].ticket.data = m /\ r.dropped[j].ticket.data = m => i = j
  <2> HIDE DEF c
  <2> QED
    BY <1>3, DropDueOnce
<1> HIDE DEF r
<1>7. (Line(links[d], client[d]) /\ Local(d))'
  <2>1. Line(links[d], client[d]) /\ Local(d)
    BY DEF Orderly
  <2>2. Line(links'[d], client'[d])
    BY <1>2, <1>4, <1>5, <2>1, LineStays
  <2> QED
    BY <1>2, <1>4, <1>5, <2>1, <2>2 DEF Local
<1> QED
  BY <1>1, <1>2, <1>4, <1>5, <1>6, <1>7, DropsOrderly DEF r

LEMMA CloseIdleOrderly ==
  ASSUME MessagesInv, Orderly, NEW d \in Group, CloseIdle(d), ~links[d].up
  PROVE  Orderly'
<1> DEFINE c == client[d]
           drops == CloseClient(c).dropped
<1>1. /\ client' = [client EXCEPT ![d] = NewClient] /\ c.out = <<>>
      /\ links' = [links EXCEPT ![d].up = FALSE]
      /\ links[d].requests = <<>>
      /\ DroppedTickets(drops, {})
      /\ UNCHANGED <<sent, outgoing, transfer, incoming, back, connects, stopped, handled, lost>>
  BY DEF CloseIdle, balancer
<1>2. /\ client \in [Group -> ClientOf(Message, Location)] /\ ClientOK(c, Message, Location)
      /\ links \in [Group -> Link]
  BY QueuesAreTyped
<1>3. Line(links[d], c) /\ Local(d) /\ c.wait = <<>>
  BY DEF Orderly, Local
<1>4. drops = <<>>
  BY <1>3 DEF CloseClient
<1>5. drops \in Seq(DropOf(Message, Location)) /\ DOMAIN drops = {}
  BY <1>4
<1>6. /\ client'[d] = NewClient /\ NewClient.out = <<>> /\ NewClient.wait = <<>>
      /\ \A g \in Group : g # d => client'[g] = client[g]
  BY <1>1, <1>2 DEF NewClient
<1>7. links' = links
  <2>1. links'[d].up = links[d].up /\ links'[d] = [links[d] EXCEPT !.up = FALSE]
    BY <1>1, <1>2 DEF Link
  <2>2. links'[d] = links[d]
    BY <1>2, <2>1 DEF Link
  <2> QED
    BY <1>1, <1>2, <2>2
<1>8. (Line(links[d], client[d]) /\ Local(d))'
  <2>1. Line(links'[d], client'[d])
    BY <1>3, <1>6, <1>7, LineStays
  <2> QED
    BY <1>1, <1>3, <1>6, <1>7, <2>1 DEF Local
<1>9. \A m : ~IsDropped(m, drops)
  BY <1>5 DEF IsDropped
<1> HIDE DEF c, drops
<1> QED
  BY <1>1, <1>5, <1>6, <1>7, <1>8, <1>9, DropsOrderly DEF c

\* The acknowledgement of the oldest ticket.
LEMMA FirstAcknowledged ==
  ASSUME NEW c, ClientOK(c, Message, Location), c.wait # <<>>, NEW due
  PROVE  LET r == PreProcessMessage(c, c.wait[1].number, due) IN
         /\ r.dropped = <<>> /\ r.client.out = c.out /\ r.client.wait = Tail(c.wait)
<1> DEFINE number == c.wait[1].number
           k == Numbers(c.wait, number)
           I == {i \in 1..Len(c.wait) : c.wait[i].number = number}
           rest == RemoveAt(c.wait, k)
           old == Only(rest, {t \in ToSet(rest) : t.loop > OldLoop})
           waiting == Only(rest, {t \in ToSet(rest) : t.loop <= OldLoop})
           earlier == Only(waiting, {t \in ToSet(waiting) : t.number < number})
           base == [client |-> [c EXCEPT !.wait = waiting],
                    dropped |-> Drops(old, "TooManyRetries")]
           rolled == RollbackTickets(earlier, c.wait[k], due, base)
           e == PreProcessMessage(c, number, due)
<1>1. e = CASE k = 0 ->
                 [client  |-> [c EXCEPT !.out = Only(@, {t \in ToSet(@) : t.number # number})],
                  dropped |-> <<>>]
            [] k = 1 -> [client |-> [c EXCEPT !.wait = Tail(@)], dropped |-> <<>>]
            [] OTHER ->
                 [rolled EXCEPT !.client.wait = Only(@, {t \in ToSet(@) : t.number >= number})]
  BY DEF PreProcessMessage, Numbers, Drops
<1>2. /\ c \in ClientOf(Message, Location) /\ c.wait \in Seq(TicketOf(Message, Location))
      /\ \A t \in ToSet(c.wait) : t.number \in Nat
  BY TicketsAreTyped DEF ClientOK
<1>3. k = 1
  <2>1. k = IF I # {} THEN Min(I) ELSE 0
    BY DEF Numbers, SelectInSeq
  <2>2. I \in SUBSET Nat /\ 1 \in I
    BY <1>2
  <2>3. I = {1}
    <3>1. \A i \in I : i \in DOMAIN c.wait /\ i \in Nat /\ ~(1 < i)
      <4>1. \A i \in DOMAIN c.wait : c.wait[i] \in ToSet(c.wait) /\ c.wait[i].number \in Nat
        BY <1>2 DEF ToSet
      <4>2. DOMAIN c.wait = 1..Len(c.wait) /\ 1 \in DOMAIN c.wait
        BY <1>2
      <4> QED
        BY <4>1, <4>2 DEF ClientOK, InOrder, Before
    <3>2. \A i \in I : i = 1
      BY <3>1
    <3> HIDE DEF I
    <3> QED
      BY <2>2, <3>2
  <2> HIDE DEF I, k
  <2>4. Min(I) = 1
    BY <2>3 DEF Min
  <2> QED
    BY <2>1, <2>3, <2>4
<1>4. e.client = [c EXCEPT !.wait = Tail(@)] /\ e.dropped = <<>>
  <2> HIDE DEF k, rolled, e
  <2>1. e = [client |-> [c EXCEPT !.wait = Tail(@)], dropped |-> <<>>]
    BY <1>1, <1>3
  <2> QED
    BY <2>1
<1> HIDE DEF e
<1>5. e.client.out = c.out /\ e.client.wait = Tail(c.wait)
  BY <1>2, <1>4 DEF ClientOf
<1> QED
  BY <1>4, <1>5 DEF e

\* While nothing is disturbed the oldest ticket is acknowledged.
LEMMA FirstInLine ==
  ASSUME NEW k \in Link, NEW c, ClientOK(c, Message, Location), Line(k, c),
         k.replies # <<>>, Head(k.replies).kind = "processed"
  PROVE  c.wait # <<>> /\ c.wait[1].number = Head(k.replies).number
<1> DEFINE s == k.replies
           w == c.wait
           n == Head(s).number
<1>1. /\ s \in Seq(Reply) /\ w \in Seq(TicketOf(Message, Location))
      /\ \A t \in ToSet(w) : t.number \in Nat
  BY LinkIsTyped, TicketsAreTyped
<1>2. /\ Head(s) = s[1] /\ s[1] \in ToSet(s) /\ 1 \in DOMAIN s
      /\ \A i \in DOMAIN s : i \in Nat /\ i >= 1
  BY <1>1, OfTail
<1>3. PICK t \in ToSet(w) : t.number = n
  BY <1>2 DEF Line
<1>4. PICK i \in DOMAIN w : t = w[i]
  BY <1>3 DEF ToSet
<1>5. w # <<>> /\ 1 \in DOMAIN w /\ i \in Nat /\ i >= 1 /\ w[1] \in ToSet(w)
  BY <1>1, <1>4 DEF ToSet
<1>6. n \in Nat /\ w[1].number \in Nat
  BY <1>1, <1>3, <1>5
<1>7. w[1].number <= n
  <2>1. CASE i = 1
    BY <1>3, <1>4, <1>6, <2>1
  <2>2. CASE 1 < i
    BY <1>3, <1>4, <1>5, <1>6, <2>2 DEF ClientOK, InOrder, Before
  <2> QED
    BY <1>5, <2>1, <2>2
<1>8. n <= w[1].number
  <2>1. CASE \E q \in ToSet(k.requests) : q.number = w[1].number
    BY <1>2, <1>6, <2>1 DEF Line
  <2>2. ASSUME NEW r \in ToSet(s), r.kind = "processed", r.number = w[1].number
        PROVE  n <= w[1].number
    <3>1. PICK j \in DOMAIN s : r = s[j]
      BY DEF ToSet
    <3>2. CASE j = 1
      BY <1>2, <1>6, <2>2, <3>1, <3>2
    <3>3. CASE 1 < j
      BY <1>2, <1>6, <2>2, <3>1, <3>3 DEF Line
    <3> QED
      BY <1>2, <3>2, <3>3
  <2> QED
    BY <1>5, <2>1, <2>2 DEF Line, Processed
<1> QED
  BY <1>5, <1>6, <1>7, <1>8

LEMMA LineAcknowledged ==
  ASSUME NEW k \in Link, NEW c, ClientOK(c, Message, Location), Line(k, c),
         k.replies # <<>>, Head(k.replies).kind = "processed",
         NEW j, j.requests = k.requests, j.replies = Tail(k.replies),
         NEW d, d.wait = Tail(c.wait)
  PROVE  Line(j, d)
<1> DEFINE s == k.replies
           t == j.replies
           w == c.wait
           v == d.wait
           n == Head(s).number
<1>1. /\ s \in Seq(Reply) /\ w \in Seq(TicketOf(Message, Location))
      /\ \A x \in ToSet(w) : x.number \in Nat
  BY LinkIsTyped, TicketsAreTyped
<1>2. w # <<>> /\ w[1].number = n
  BY FirstInLine
<1>3. /\ ToSet(s) = ToSet(t) \cup {s[1]} /\ Head(s) = s[1] /\ s[1] \in ToSet(s) /\ 1 \in DOMAIN s
      /\ \A i \in DOMAIN t : i \in Nat /\ 1 < i + 1 /\ i + 1 \in DOMAIN s /\ t[i] = s[i + 1]
  BY <1>1, OfTail, AfterTail
<1>4. /\ ToSet(w) = ToSet(v) \cup {w[1]} /\ w[1] \in ToSet(w) /\ 1 \in DOMAIN w
      /\ \A i \in DOMAIN v : i \in Nat /\ 1 < i + 1 /\ i + 1 \in DOMAIN w /\ v[i] = w[i + 1]
  BY <1>1, <1>2, OfTail, AfterTail
<1>5. n \in Nat
  BY <1>1, <1>2, <1>4
<1> HIDE DEF s, t, w, v
<1>6. \A x \in ToSet(v) : x.number # n
  <2> SUFFICES ASSUME NEW x \in ToSet(v)
               PROVE  x.number # n
    OBVIOUS
  <2>1. PICK i \in DOMAIN v : x = v[i]
    BY DEF ToSet
  <2>2. Before(w[1], w[i + 1])
    BY <1>4, <2>1 DEF ClientOK, InOrder, w
  <2>3. x.number \in Nat
    BY <1>1, <1>4
  <2> QED
    BY <1>2, <1>4, <1>5, <2>1, <2>2, <2>3 DEF Before
<1>7. \A a, b \in DOMAIN t : a < b /\ t[a].kind = "processed" /\ t[b].kind = "processed"
                               => t[a].number < t[b].number
  <2> SUFFICES ASSUME NEW a \in DOMAIN t, NEW b \in DOMAIN t, a < b,
                      t[a].kind = "processed", t[b].kind = "processed"
               PROVE  t[a].number < t[b].number
    OBVIOUS
  <2>1. a + 1 < b + 1
    BY <1>3
  <2> QED
    BY <1>3, <2>1 DEF Line, s
<1>8. \A r \in ToSet(t) : r.kind = "processed" => \E x \in ToSet(v) : x.number = r.number
  <2> SUFFICES ASSUME NEW r \in ToSet(t), r.kind = "processed"
               PROVE  \E x \in ToSet(v) : x.number = r.number
    OBVIOUS
  <2>1. PICK i \in DOMAIN t : r = t[i]
    BY DEF ToSet
  <2>2. n < r.number
    BY <1>3, <2>1 DEF Line, s
  <2>3. PICK x \in ToSet(w) : x.number = r.number
    BY <1>3 DEF Line, s, w
  <2> QED
    BY <1>1, <1>2, <1>4, <1>5, <2>2, <2>3
<1>9. \A q \in ToSet(k.requests) : \E x \in ToSet(v) : x.number = q.number
  <2> SUFFICES ASSUME NEW q \in ToSet(k.requests)
               PROVE  \E x \in ToSet(v) : x.number = q.number
    OBVIOUS
  <2>1. n < q.number
    BY <1>3 DEF Line, s
  <2>2. PICK x \in ToSet(w) : x.number = q.number
    BY DEF Line, w
  <2> QED
    BY <1>1, <1>2, <1>4, <1>5, <2>1, <2>2
<1>10. \A x \in ToSet(v) : Processed(x.number, j) \/ \E q \in ToSet(k.requests) : q.number = x.number
  <2> SUFFICES ASSUME NEW x \in ToSet(v)
               PROVE  Processed(x.number, j) \/ \E q \in ToSet(k.requests) : q.number = x.number
    OBVIOUS
  <2>1. Processed(x.number, k) => Processed(x.number, j)
    BY <1>3, <1>6 DEF Processed, s, t
  <2> QED
    BY <1>4, <2>1 DEF Line, w
<1> QED
  BY <1>3, <1>7, <1>8, <1>9, <1>10 DEF Line, s, t, v

LEMMA AcknowledgeOrderly ==
  ASSUME MessagesInv, Orderly, NEW d \in Group, Acknowledge(d)
  PROVE  Orderly'
<1> DEFINE c == client[d]
           x == links[d]
           reply == Head(x.replies)
           number == reply.number
<1>1. PICK due, late :
        /\ client' = [client EXCEPT ![d] = PreProcessMessage(c, number, due).client]
        /\ DroppedTickets(PreProcessMessage(c, number, due).dropped, late)
  BY DEF Acknowledge
<1> DEFINE r == PreProcessMessage(c, number, due)
<1>2. /\ x.replies # <<>> /\ reply.kind = "processed"
      /\ links' = [links EXCEPT ![d].replies = Tail(@)]
      /\ UNCHANGED <<sent, outgoing, transfer, incoming, back, connects, stopped, handled, lost>>
  BY DEF Acknowledge, balancer
<1>3. /\ client \in [Group -> ClientOf(Message, Location)] /\ ClientOK(c, Message, Location)
      /\ links \in [Group -> Link] /\ x \in Link /\ x.replies \in Seq(Reply)
  BY QueuesAreTyped
<1>4. Line(x, c) /\ Local(d)
  BY DEF Orderly
<1>5. c.wait # <<>> /\ c.wait[1].number = number
  <2> HIDE DEF c, x
  <2> QED
    BY <1>2, <1>3, <1>4, FirstInLine
<1>6. r.dropped = <<>> /\ r.client.out = c.out /\ r.client.wait = Tail(c.wait)
  <2>1. LET a == PreProcessMessage(c, c.wait[1].number, due) IN
        a.dropped = <<>> /\ a.client.out = c.out /\ a.client.wait = Tail(c.wait)
    <3> HIDE DEF c
    <3> QED
      BY <1>3, <1>5, FirstAcknowledged
  <2> QED
    BY <1>5, <2>1
<1>7. DroppedTickets(<<>>, late)
  BY <1>1, <1>6
<1> HIDE DEF r
<1>8. /\ client'[d].out = c.out /\ client'[d].wait = Tail(c.wait)
      /\ \A g \in Group : g # d => client'[g] = client[g]
  BY <1>1, <1>3, <1>6 DEF r
<1>9. /\ links'[d].up = x.up /\ links'[d].requests = x.requests /\ links'[d].replies = Tail(x.replies)
      /\ \A g \in Group : g # d => links'[g] = links[g]
  BY <1>2, <1>3 DEF Link
<1>10. Line(links'[d], client'[d])
  <2> DEFINE j == links'[d]
             e == client'[d]
  <2>1. /\ x \in Link /\ ClientOK(c, Message, Location) /\ Line(x, c)
        /\ x.replies # <<>> /\ Head(x.replies).kind = "processed"
        /\ j.requests = x.requests /\ j.replies = Tail(x.replies) /\ e.wait = Tail(c.wait)
    BY <1>2, <1>3, <1>4, <1>8, <1>9
  <2> HIDE DEF c, x, j, e
  <2>2. Line(j, e)
    BY <2>1, LineAcknowledged
  <2> QED
    BY <2>2 DEF j, e
<1>11. x.up
  BY <1>4, <1>5 DEF Local
<1>12. Local(d)'
  BY <1>2, <1>4, <1>9, <1>11 DEF Local
<1>13. \A m \in Message :
         /\ In(links'[d].replies, RepliesOf(m)) => In(x.replies, RepliesOf(m))
         /\ Once(x.replies, RepliesOf(m)) => Once(links'[d].replies, RepliesOf(m))
  <2> HIDE DEF x
  <2> QED
    BY <1>2, <1>3, <1>9, InTail
<1>14. /\ <<>> \in Seq(DropOf(Message, Location)) /\ \A m : ~IsDropped(m, <<>>)
       /\ DOMAIN <<>> = {}
  BY DEF IsDropped
<1> HIDE DEF c, x
<1> QED
  BY <1>2, <1>7, <1>8, <1>9, <1>10, <1>12, <1>13, <1>14, DropsOrderly DEF c, x

-----------------------------------------------------------------------------
(* An address arrives *)

LEMMA TicketsAreHeldOnce ==
  ASSUME NEW m, OnceInEach(m), HeldOnce(m)
  PROVE  TicketHeldOnce(client, m)
<1>1. \A d \in Group : In(client[d].out, TicketsOf(m)) => Holds("tickets", d, m)
  BY DEF Holds
<1> QED
  BY <1>1 DEF TicketHeldOnce, OnceInEach, HeldOnce, Place

LEMMA HandledOnce ==
  ASSUME MessagesInv, stopped = {}, NEW g, NEW ms, Handle(g, ms), NEW m \in Message
  PROVE  /\ lost' = lost /\ handled[m] \in Nat
         /\ m \in ms => handled'[m] = handled[m] + 1
         /\ m \notin ms => handled'[m] = handled[m]
<1>1. handled \in [Message -> Nat]
  BY DEF MessagesInv, Typed
<1> QED
  BY <1>1 DEF Handle

LEMMA InIds ==
  ASSUME NEW entries \in Seq(Entry), NEW m
  PROVE  In(entries, EntriesOf(m)) <=> m \in Ids(entries)
<1>1. \A i \in DOMAIN entries : entries[i] \in EntriesOf(m) <=> entries[i].id = m
  BY ElementsAreTyped DEF EntriesOf
<1> QED
  BY <1>1 DEF In, Ids

LEMMA QueuedOrHere ==
  ASSUME NEW entries \in Seq(Entry), NEW l, NEW m
  PROVE  LET M == EntriesOf(m)
             q == Queued(entries, l)
             h == Here(entries, l) IN
         /\ In(q, M) \/ In(h, M) => In(entries, M)
         /\ Once(entries, M) => Once(q, M) /\ Once(h, M) /\ ~(In(q, M) /\ In(h, M))
<1> DEFINE S == {e \in ToSet(entries) : ~Awaits(e, l)}
           T == {e \in ToSet(entries) : Awaits(e, l)}
           M == EntriesOf(m)
<1>1. S \cap T = {}
  OBVIOUS
<1>2. Queued(entries, l) = Only(entries, S) /\ Here(entries, l) = Only(entries, T)
  BY DEF Queued, Here
<1> HIDE DEF S, T, M
<1>3. /\ In(Only(entries, S), M) => \E x \in ToSet(entries) : x \in S /\ x \in M
      /\ In(Only(entries, T), M) => \E x \in ToSet(entries) : x \in T /\ x \in M
      /\ Once(entries, M) => Once(Only(entries, S), M) /\ Once(Only(entries, T), M)
  BY InOnly
<1>4. In(Only(entries, S), M) \/ In(Only(entries, T), M) => In(entries, M)
  BY <1>3, InSet
<1>5. Once(entries, M) => ~(In(Only(entries, S), M) /\ In(Only(entries, T), M))
  BY <1>1, <1>3, InSet
<1> QED
  BY <1>2, <1>3, <1>4, <1>5 DEF M

\* What the message becomes that leaves the queues: out are those of the
\* group's own queue, in those that have come in.
Lands(out, in, m) ==
  LET A == In(out, EntriesOf(m))
      B == In(in, EntriesOf(m)) IN
  /\ OnceInEach(m)'
  /\ \A r \in Place : \A k \in Group :
       New(r, k, m) => \/ A /\ r = "tickets"
                       \/ B /\ r = "back"
                       \/ (A \/ B) /\ r \in {"handled", "logged"}
  /\ \A q, r \in Place : \A h, k \in Group : New(q, h, m) /\ New(r, k, m) => q = r /\ h = k

LEMMA AddressResponseLands ==
  ASSUME MessagesInv, Orderly, NEW g \in Group, NEW to \in Address,
         NEW out \in Seq(Entry), NEW in \in Seq(Entry), NEW m \in Message,
         OnceInEach(m), HeldOnce(m),
         Once(out, EntriesOf(m)), Once(in, EntriesOf(m)),
         ~(In(out, EntriesOf(m)) /\ In(in, EntriesOf(m))),
         In(out, EntriesOf(m)) => Holds("outgoing", Sender, m),
         In(in, EntriesOf(m)) => Holds("incoming", g, m),
         \/ /\ Handle(g, Ids(out \o in))
            /\ UNCHANGED <<client, back, logged>>
         \/ /\ logged' = logged \cup Ids(out \o in)
            /\ UNCHANGED <<client, back, handled, lost>>
         \/ /\ to # NoGroup
            /\ client' = TicketsTo(out, client, [k \in Location |-> to])
            /\ back' = [back EXCEPT ![g] = @ \o Returns(in, to)]
            /\ UNCHANGED <<handled, logged, lost>>,
         UNCHANGED <<new_outgoing, transfer, links>>,
         Once(outgoing', EntriesOf(m)), \A x \in Group : Once(incoming'[x], EntriesOf(m)),
         In(outgoing', EntriesOf(m)) => In(outgoing, EntriesOf(m)),
         \A x \in Group : In(incoming'[x], EntriesOf(m)) => In(incoming[x], EntriesOf(m))
  PROVE  Lands(out, in, m) /\ lost' = lost
<1> DEFINE M == EntriesOf(m)
           all == out \o in
<1>1. m \in Ids(all) => In(out, M) \/ In(in, M)
  <2>1. all \in Seq(Entry)
    BY OfConcatenation
  <2>2. In(all, M) <=> m \in Ids(all)
    BY <2>1, InIds
  <2> QED
    BY <2>2, InConcatenation
<1>2. In(out, M) \/ In(in, M) =>
        /\ ~(handled[m] > 0) /\ m \notin logged
        /\ \A d \in Group : ~In(client[d].out, TicketsOf(m))
        /\ \A x \in Group : ~In(back[x], M)
  <2>1. /\ handled[m] > 0 => Holds("handled", Sender, m)
        /\ m \in logged => Holds("logged", Sender, m)
        /\ \A d \in Group : In(client[d].out, TicketsOf(m)) => Holds("tickets", d, m)
        /\ \A x \in Group : In(back[x], M) => Holds("back", x, m)
    BY DEF Holds
  <2> QED
    BY <2>1, LogicMessagesAssumption DEF HeldOnce, Place
<1> HIDE DEF all
<1>3. CASE Handle(g, Ids(all)) /\ UNCHANGED <<client, back, logged>>
  <2>1. /\ lost' = lost /\ handled[m] \in Nat
        /\ m \in Ids(all) => handled'[m] = handled[m] + 1
        /\ m \notin Ids(all) => handled'[m] = handled[m]
    BY <1>3, HandledOnce DEF Orderly
  <2>2. handled'[m] <= 1
    BY <1>1, <1>2, <2>1 DEF OnceInEach
  <2>3. OnceInEach(m)'
    BY <1>3, <2>2 DEF OnceInEach
  <2>4. \A r \in Place : \A k \in Group : New(r, k, m) => r = "handled" /\ k = Sender /\ m \in Ids(all)
    BY <1>3, <2>1 DEF New, Holds
  <2> QED
    BY <1>1, <2>1, <2>3, <2>4 DEF Lands, M
<1>4. CASE logged' = logged \cup Ids(all) /\ UNCHANGED <<client, back, handled, lost>>
  <2>1. OnceInEach(m)'
    BY <1>4 DEF OnceInEach
  <2>2. \A r \in Place : \A k \in Group : New(r, k, m) => r = "logged" /\ k = Sender /\ m \in Ids(all)
    BY <1>4 DEF New, Holds
  <2> QED
    BY <1>1, <1>4, <2>1, <2>2 DEF Lands, M
<1>5. CASE /\ to # NoGroup
           /\ client' = TicketsTo(out, client, [k \in Location |-> to])
           /\ back' = [back EXCEPT ![g] = @ \o Returns(in, to)]
           /\ UNCHANGED <<handled, logged, lost>>
  <2> DEFINE back1 == Returns(in, to)
  <2>1. TicketHeldOnce(client', m) /\ (~In(out, M) => NoMoreTickets(client, client', m))
    <3> DEFINE a == [k \in Location |-> to]
    <3>1. \A e \in ToSet(out) : a[LocationOf[e.id]] \in Group
      <4>1. \A e \in ToSet(out) : LocationOf[e.id] \in Location
        <5>1. ToSet(out) \subseteq Entry
          BY ElementsAreTyped
        <5>2. \A e \in Entry : e.id \in Message
          BY DEF Entry
        <5> QED
          BY <5>1, <5>2, LogicMessagesAssumption
      <4> QED
        BY <1>5, <4>1 DEF Address
    <3>2. TicketHeldOnce(client, m) /\ ClientsOK(client)
      BY TicketsAreHeldOnce DEF MessagesInv, Typed
    <3>3. client' = TicketsTo(out, client, a)
      BY <1>5
    <3> HIDE DEF a
    <3> QED
      BY <1>2, <3>1, <3>2, <3>3, TicketsOnce DEF M
  <2>2. back[g] \in Seq(Returned) /\ back \in [Group -> Seq(Returned)]
    BY QueuesAreTyped
  <2>3. back1 \in Seq(Returned)
    BY OfReturns
  <2>4. (In(back1, M) => In(in, M)) /\ Once(back1, M)
    <3>1. /\ DOMAIN back1 = DOMAIN in
          /\ \A i \in DOMAIN in : back1[i].id = in[i].id /\ in[i] \in Entry
      BY ElementsAreTyped DEF Returns
    <3>2. \A i \in DOMAIN in : back1[i] \in M => in[i] \in M
      BY <3>1 DEF EntriesOf
    <3> HIDE DEF back1, M
    <3>3. (In(back1, M) => In(in, M)) /\ (Once(in, M) => Once(back1, M))
      BY <3>1, <3>2, InImage
    <3> QED
      BY <3>3 DEF M
  <2>5. back'[g] = back[g] \o back1 /\ \A x \in Group : x # g => back'[x] = back[x]
    BY <1>5, <2>2
  <2> HIDE DEF back1
  <2>6. /\ In(back'[g], M) => In(back[g], M) \/ In(in, M)
        /\ Once(back[g], M) => Once(back'[g], M)
    <3>1. /\ In(back[g] \o back1, M) <=> In(back[g], M) \/ In(back1, M)
          /\ Once(back[g], M) /\ Once(back1, M) /\ ~(In(back[g], M) /\ In(back1, M))
               => Once(back[g] \o back1, M)
      BY <2>2, <2>3, InConcatenation
    <3> QED
      BY <1>2, <2>4, <2>5, <3>1
  <2>7. \A x \in Group : Once(back'[x], M)
    BY <2>5, <2>6 DEF OnceInEach
  <2>8. OnceInEach(m)'
    BY <1>5, <2>1, <2>7 DEF OnceInEach, TicketHeldOnce, M
  <2>9. \A r \in Place : \A k \in Group :
          New(r, k, m) => \/ r = "tickets" /\ In(out, M) /\ In(client'[k].out, TicketsOf(m))
                          \/ r = "back" /\ k = g /\ In(in, M)
    <3>1. \A k \in Group : ~In(out, M) => (In(client'[k].out, TicketsOf(m)) => In(client[k].out, TicketsOf(m)))
      BY <2>1 DEF NoMoreTickets
    <3>2. \A k \in Group : In(back'[k], M) => In(back[k], M) \/ (k = g /\ In(in, M))
      BY <2>5, <2>6
    <3> QED
      BY <1>5, <3>1, <3>2 DEF New, Holds, M
  <2> QED
    BY <1>5, <2>1, <2>8, <2>9 DEF Lands, M, TicketHeldOnce
<1> QED
  BY <1>3, <1>4, <1>5 DEF all

LEMMA AddressResponseOrderly ==
  ASSUME MessagesInv, MessagesInv', Orderly, NEW g \in Group, AddressResponse(g)
  PROVE  Orderly'
<1> DEFINE answer == Head(answers[g])
           l == answer.location
           to == answer.group
           out == For(g, Here(outgoing, l), <<>>)
           in == Here(incoming[g], l)
<1>1. /\ outgoing \in Seq(Entry) /\ incoming \in [Group -> Seq(Entry)] /\ incoming[g] \in Seq(Entry)
  BY QueuesAreTyped
<1>2. /\ outgoing' = For(g, Queued(outgoing, l), outgoing)
      /\ incoming' = [incoming EXCEPT ![g] = Queued(@, l)]
      /\ UNCHANGED <<sent, new_outgoing, transfer, links, connects, stopped>>
      /\ \/ /\ Handle(g, Ids(out \o in))
            /\ UNCHANGED <<client, back, logged>>
         \/ /\ logged' = logged \cup Ids(out \o in)
            /\ UNCHANGED <<client, back, handled, lost>>
         \/ /\ to # NoGroup
            /\ client' = TicketsTo(out, client, [k \in Location |-> to])
            /\ back' = [back EXCEPT ![g] = @ \o Returns(in, to)]
            /\ UNCHANGED <<handled, logged, lost>>
  BY DEF AddressResponse, Here, Returns
<1>3. to \in Address
  <2>1. answers[g] \in Seq(Answer) /\ answers[g] # <<>>
    BY DEF MessagesInv, Typed, AddressResponse
  <2>2. answer \in Answer
    BY <2>1
  <2> QED
    BY <2>2 DEF Answer, Address
<1>4. out \in Seq(Entry) /\ in \in Seq(Entry)
  <2>1. Here(outgoing, l) \in Seq(Entry) /\ Here(incoming[g], l) \in Seq(Entry)
    BY <1>1, QueuedOK
  <2> QED
    BY <2>1 DEF For
<1>5. incoming'[g] = Queued(incoming[g], l) /\ \A x \in Group : x # g => incoming'[x] = incoming[x]
  BY <1>1, <1>2
<1>6. ASSUME NEW m \in Message
      PROVE  /\ In(outgoing', EntriesOf(m)) \/ In(out, EntriesOf(m)) => In(outgoing, EntriesOf(m))
             /\ Once(outgoing, EntriesOf(m)) => /\ Once(outgoing', EntriesOf(m)) /\ Once(out, EntriesOf(m))
                                                /\ ~(In(outgoing', EntriesOf(m)) /\ In(out, EntriesOf(m)))
  <2>1. /\ In(Queued(outgoing, l), EntriesOf(m)) \/ In(Here(outgoing, l), EntriesOf(m)) =>
             In(outgoing, EntriesOf(m))
        /\ Once(outgoing, EntriesOf(m)) =>
             /\ Once(Queued(outgoing, l), EntriesOf(m)) /\ Once(Here(outgoing, l), EntriesOf(m))
             /\ ~(In(Queued(outgoing, l), EntriesOf(m)) /\ In(Here(outgoing, l), EntriesOf(m)))
    BY <1>1, QueuedOrHere
  <2> QED
    BY <1>2, <2>1, InNothing DEF For
<1>7. ASSUME NEW m \in Message
      PROVE  /\ In(incoming'[g], EntriesOf(m)) \/ In(in, EntriesOf(m)) => In(incoming[g], EntriesOf(m))
             /\ Once(incoming[g], EntriesOf(m)) => /\ Once(incoming'[g], EntriesOf(m)) /\ Once(in, EntriesOf(m))
                                                   /\ ~(In(incoming'[g], EntriesOf(m)) /\ In(in, EntriesOf(m)))
  BY <1>1, <1>5, QueuedOrHere
<1>8. ToSet(in) \subseteq ToSet(incoming[g]) /\ ToSet(incoming'[g]) \subseteq ToSet(incoming[g])
  <2> DEFINE S == {e \in ToSet(incoming[g]) : Awaits(e, l)}
  <2>1. in = Only(incoming[g], S)
    BY DEF Here
  <2> HIDE DEF S
  <2>2. ToSet(in) = ToSet(incoming[g]) \cap S
    BY <1>1, <2>1, OnlyElements
  <2>3. ToSet(incoming'[g]) \subseteq ToSet(incoming[g])
    BY <1>1, <1>5, QueuedOK
  <2> QED
    BY <2>2, <2>3
<1>9. \A e \in ToSet(back'[g]) : \E x \in ToSet(incoming[g]) \cup ToSet(back[g]) : x.socket = e.socket
  <2>1. /\ back[g] \in Seq(Returned) /\ back \in [Group -> Seq(Returned)]
    BY QueuesAreTyped
  <2>2. Returns(in, to) \in Seq(Returned)
    <3> HIDE DEF in, to
    <3> QED
      BY <1>3, <1>4, OfReturns
  <2>3. \A e \in ToSet(Returns(in, to)) : \E x \in ToSet(in) : x.socket = e.socket
    <3> HIDE DEF in, to
    <3> QED
      BY DEF Returns, ToSet
  <2>4. back' = back \/ back' = [back EXCEPT ![g] = @ \o Returns(in, to)]
    BY <1>2
  <2>5. back'[g] = back[g] \/ back'[g] = back[g] \o Returns(in, to)
    BY <2>1, <2>4
  <2> HIDE DEF in, to
  <2>6. ToSet(back'[g]) \subseteq ToSet(back[g]) \cup ToSet(Returns(in, to))
    <3>1. ToSet(back[g] \o Returns(in, to)) = ToSet(back[g]) \cup ToSet(Returns(in, to))
      BY <2>1, <2>2, OfConcatenation
    <3> QED
      BY <2>5, <3>1
  <2> QED
    BY <1>8, <2>3, <2>6
<1>10. \A x \in Group : x # g => back'[x] = back[x]
  BY <1>2, QueuesAreTyped
<1>11. \A d \in Group : client'[d].wait = client[d].wait
  <2>1. ClientsOK(client)
    BY DEF MessagesInv, Typed
  <2>2. ASSUME to # NoGroup
        PROVE  Adds(client, TicketsTo(out, client, [k \in Location |-> to]))
    <3> DEFINE a == [k \in Location |-> to]
    <3>1. \A e \in ToSet(out) : LocationOf[e.id] \in Location
      <4>1. ToSet(out) \subseteq Entry
        BY <1>4, ElementsAreTyped
      <4>2. \A e \in Entry : e.id \in Message
        BY DEF Entry
      <4> QED
        BY <4>1, <4>2, LogicMessagesAssumption
    <3>2. \A e \in ToSet(out) : a[LocationOf[e.id]] \in Group
      BY <1>3, <2>2, <3>1 DEF Address
    <3> HIDE DEF out, a
    <3>3. Adds(client, TicketsTo(out, client, a))
      BY <1>4, <2>1, <3>2, TicketsToOK
    <3> QED
      BY <3>3 DEF a
  <2> QED
    BY <1>2, <2>2 DEF Adds
<1> HIDE DEF out, in, to, l, answer
<1>12. ASSUME NEW m \in Message
       PROVE  OnceInEach(m)' /\ Moves(m) /\ lost' = lost
  <2> DEFINE A == In(out, EntriesOf(m))
             B == In(in, EntriesOf(m))
  <2>1. OnceInEach(m) /\ HeldOnce(m)
    BY DEF Orderly
  <2>2. Once(outgoing, EntriesOf(m)) /\ \A x \in Group : Once(incoming[x], EntriesOf(m))
    BY <2>1 DEF OnceInEach
  <2>3. A => g = Sender /\ Holds("outgoing", Sender, m) /\ ~Holds("outgoing", Sender, m)'
    BY <1>6, <2>2, InNothing DEF Holds, out, For
  <2>4. B => Holds("incoming", g, m) /\ ~Holds("incoming", g, m)'
    BY <1>7, <2>2 DEF Holds
  <2>5. ~(A /\ B)
    BY <2>1, <2>3, <2>4, LogicMessagesAssumption DEF HeldOnce, Place
  <2>6. \A x \in Group : /\ In(incoming'[x], EntriesOf(m)) => In(incoming[x], EntriesOf(m))
                         /\ Once(incoming'[x], EntriesOf(m))
    BY <1>5, <1>7, <2>2
  <2>7. Lands(out, in, m) /\ lost' = lost
    BY <1>2, <1>3, <1>4, <1>6, <1>7, <2>1, <2>2, <2>3, <2>4, <2>5, <2>6, AddressResponseLands
  <2>8. A \/ B => Gone(m)
    BY <2>3, <2>4, LogicMessagesAssumption DEF Gone, Place
  <2> QED
    BY <2>7, <2>8 DEF Lands, Moves
<1>13. lost' = lost
  <2>1. CASE Message = {}
    BY <2>1 DEF MessagesInv, Typed
  <2> QED
    BY <1>12, <2>1
<1>14. ASSUME NEW d \in Group
       PROVE  (Line(links[d], client[d]) /\ Local(d))'
  <2>1. Line(links[d], client[d]) /\ Local(d)
    BY DEF Orderly
  <2>2. Line(links'[d], client'[d])
    BY <1>2, <1>11, <2>1, LineStays
  <2>3. /\ \A e \in ToSet(incoming'[d]) : \E x \in ToSet(incoming[d]) \cup ToSet(transfer[d]) : x.socket = e.socket
        /\ \A e \in ToSet(back'[d]) : \E x \in ToSet(incoming[d]) \cup ToSet(back[d]) : x.socket = e.socket
    BY <1>5, <1>8, <1>9, <1>10
  <2> QED
    BY <1>2, <1>11, <2>1, <2>2, <2>3, LocalStays
<1> QED
  BY <1>2, <1>12, <1>13, <1>14, OrderlyStays

-----------------------------------------------------------------------------
(* The queues are gone through, once *)

\* An entry stays, goes, is handled or is dropped.
SortsOnce(entries, r, m) ==
  LET M == EntriesOf(m) IN
  /\ In(r.queue, M) \/ In(r.goes, M) \/ m \in r.handled \/ m \in r.dropped => In(entries, M)
  /\ Once(entries, M) =>
       /\ Once(r.queue, M) /\ Once(r.goes, M)
       /\ ~(In(r.queue, M) /\ In(r.goes, M)) /\ ~(m \in r.handled /\ m \in r.dropped)
       /\ ~((In(r.queue, M) \/ In(r.goes, M)) /\ (m \in r.handled \/ m \in r.dropped))

LEMMA SortedOnce ==
  ASSUME NEW entries \in Seq(Entry), NEW g, NEW known, NEW expired
  PROVE  LET r == Sorted(entries, g, known, expired) IN
         /\ \A m : SortsOnce(entries, r, m)
         /\ \A e \in ToSet(r.queue) : \E x \in ToSet(entries) : x.socket = e.socket
<1> DEFINE asked == {e \in ToSet(entries) : e.asked}
           here == {e \in ToSet(entries) : LocationOf[e.id] \in assigned[g]} \ asked
           goes == {e \in ToSet(entries) : known[LocationOf[e.id]] # NoGroup}
                     \ (asked \cup here)
           needy == ToSet(entries) \ (asked \cup here \cup goes)
           keep == {e \in asked \cup needy : e.id \notin expired}
           late == {e \in asked \cup needy : e.id \in expired}
           stays == Only(entries, keep)
           r == Sorted(entries, g, known, expired)
<1>1. /\ r.handled = {e.id : e \in here}
      /\ r.goes = Only(entries, goes)
      /\ r.dropped = {e.id : e \in asked \cup needy} \cap expired
      /\ r.queue = Marked(stays)
  BY DEF Sorted, Marked
<1>2. r.dropped = {e.id : e \in late}
  BY <1>1
<1>3. /\ here \subseteq ToSet(entries) /\ late \subseteq ToSet(entries)
      /\ here \cap goes = {} /\ here \cap keep = {} /\ here \cap late = {}
      /\ goes \cap keep = {} /\ goes \cap late = {} /\ keep \cap late = {}
  OBVIOUS
<1>4. \A e \in ToSet(entries) : e \in Entry
  BY ElementsAreTyped
<1> HIDE DEF asked, here, goes, needy, keep, late, r
<1>5. stays \in Seq(Entry) /\ ToSet(stays) = ToSet(entries) \cap keep
  BY OnlyElements
<1>6. /\ DOMAIN r.queue = DOMAIN stays
      /\ \A i \in DOMAIN stays : r.queue[i].id = stays[i].id /\ r.queue[i].socket = stays[i].socket
  <2>1. \A i \in DOMAIN stays : stays[i] \in Entry
    BY <1>5, ElementsAreTyped
  <2>2. \A i \in DOMAIN stays : /\ [stays[i] EXCEPT !.asked = TRUE].id = stays[i].id
                                /\ [stays[i] EXCEPT !.asked = TRUE].socket = stays[i].socket
    BY <2>1 DEF Entry
  <2> HIDE DEF stays
  <2> QED
    BY <1>1, <2>2 DEF Marked
<1> HIDE DEF stays
<1>7. \A e \in ToSet(r.queue) : \E x \in ToSet(entries) : x.socket = e.socket
  <2> SUFFICES ASSUME NEW e \in ToSet(r.queue)
               PROVE  \E x \in ToSet(entries) : x.socket = e.socket
    OBVIOUS
  <2>1. PICK i \in DOMAIN r.queue : e = r.queue[i]
    BY DEF ToSet
  <2>2. stays[i] \in ToSet(stays)
    BY <1>6 DEF ToSet
  <2> QED
    BY <1>5, <1>6, <2>1, <2>2
<1>8. ASSUME NEW m
      PROVE  SortsOnce(entries, r, m)
  <2> DEFINE M == EntriesOf(m)
             Of(S) == \E x \in ToSet(entries) : x \in S /\ x \in M
  <2>1. /\ In(r.queue, M) => Of(keep)
        /\ Once(entries, M) => Once(r.queue, M)
    <3>1. \A i \in DOMAIN stays : r.queue[i] \in M => stays[i] \in M
      <4>1. \A i \in DOMAIN stays : stays[i] \in Entry
        BY <1>5, ElementsAreTyped
      <4> QED
        BY <1>6, <4>1 DEF EntriesOf
    <3> HIDE DEF M
    <3>2. (In(r.queue, M) => In(stays, M)) /\ (Once(stays, M) => Once(r.queue, M))
      BY <1>6, <3>1, InImage
    <3>3. /\ In(stays, M) => \E x \in ToSet(entries) : x \in keep /\ x \in M
          /\ Once(entries, M) => Once(stays, M)
      BY InOnly DEF stays
    <3> QED
      BY <3>2, <3>3
  <2>2. /\ In(r.goes, M) => Of(goes)
        /\ Once(entries, M) => Once(r.goes, M)
    <3> HIDE DEF M
    <3> QED
      BY <1>1, InOnly
  <2>3. m \in r.handled => Of(here)
    BY <1>1, <1>3, <1>4 DEF EntriesOf
  <2>4. m \in r.dropped => Of(late)
    BY <1>2, <1>3, <1>4 DEF EntriesOf
  <2> HIDE DEF M
  <2>5. Of(keep) \/ Of(goes) \/ Of(here) \/ Of(late) => In(entries, M)
    BY InSet
  <2>6. ASSUME Once(entries, M), NEW S, NEW T, S \cap T = {}
        PROVE  ~(Of(S) /\ Of(T))
    BY <2>6, InSet
  <2>7. Once(entries, M) => /\ ~(Of(keep) /\ Of(goes)) /\ ~(Of(here) /\ Of(late))
                            /\ ~(Of(keep) /\ Of(here)) /\ ~(Of(keep) /\ Of(late))
                            /\ ~(Of(goes) /\ Of(here)) /\ ~(Of(goes) /\ Of(late))
    BY <1>3, <2>6
  <2> HIDE DEF Of
  <2> QED
    BY <2>1, <2>2, <2>3, <2>4, <2>5, <2>7 DEF SortsOnce, M
<1> QED
  BY <1>7, <1>8 DEF r

\* What becomes of message m: of incoming and transfer (in), of the group's
\* own queues (out).
LEMMA IntervalMSecondMoves ==
  ASSUME MessagesInv, stopped = {}, NEW g \in Group, NEW m \in Message,
         OnceInEach(m), HeldOnce(m), NEW in, NEW out,
         NEW coming \in Seq(Entry), NEW going \in Seq(Entry),
         In(coming, EntriesOf(m)) <=> Holds("incoming", g, m) \/ Holds("transfer", g, m),
         In(going, EntriesOf(m)) <=>
           g = Sender /\ (Holds("outgoing", g, m) \/ Holds("new_outgoing", g, m)),
         Once(coming, EntriesOf(m)), Once(going, EntriesOf(m)),
         SortsOnce(coming, in, m), SortsOnce(going, out, m),
         transfer'[g] = <<>>, incoming'[g] = in.queue,
         \A h \in Group : h # g => transfer'[h] = transfer[h] /\ incoming'[h] = incoming[h],
         outgoing' = IF g = Sender THEN out.queue ELSE outgoing,
         new_outgoing' = IF g = Sender THEN <<>> ELSE new_outgoing,
         out.goes \in Seq(Entry), \A e \in ToSet(out.goes) : cache[LocationOf[e.id]] \in Group,
         client' = TicketsTo(out.goes, client, cache),
         Handle(g, in.handled \cup out.handled),
         logged' = logged \cup in.dropped \cup out.dropped,
         UNCHANGED <<back, links>>
  PROVE  OnceInEach(m)' /\ Moves(m) /\ lost' = lost
<1> DEFINE M == EntriesOf(m)
           C == In(coming, M)
           D == In(going, M)
           stay == In(in.queue, M)
           remain == In(out.queue, M)
           leave == In(out.goes, M)
           reach == m \in in.handled \cup out.handled
           drop == m \in in.dropped \cup out.dropped
<1>1. C \/ D => /\ ~Holds("handled", Sender, m) /\ ~Holds("logged", Sender, m)
                /\ \A d \in Group : ~Holds("tickets", d, m)
  BY LogicMessagesAssumption DEF HeldOnce, Place
<1>2. ~(C /\ D)
  BY DEF HeldOnce, Place
<1>3. /\ stay => C
      /\ remain \/ leave => D
      /\ reach \/ drop => C \/ D
      /\ ~(stay /\ reach) /\ ~(stay /\ drop) /\ ~(stay /\ leave) /\ ~(stay /\ remain)
      /\ ~(remain /\ reach) /\ ~(remain /\ drop) /\ ~(remain /\ leave)
      /\ ~(leave /\ reach) /\ ~(leave /\ drop) /\ ~(reach /\ drop)
      /\ Once(in.queue, M) /\ Once(out.queue, M) /\ Once(out.goes, M)
  BY <1>2 DEF SortsOnce
<1>4. /\ lost' = lost /\ handled[m] \in Nat
      /\ reach => handled'[m] = handled[m] + 1
      /\ ~reach => handled'[m] = handled[m]
  BY HandledOnce
<1>5. /\ TicketHeldOnce(client', m)
      /\ \A k \in Group : In(client'[k].out, TicketsOf(m)) =>
           leave \/ In(client[k].out, TicketsOf(m))
  <2>1. TicketHeldOnce(client, m) /\ ClientsOK(client)
    BY TicketsAreHeldOnce DEF MessagesInv, Typed
  <2>2. leave => \A d \in Group : ~In(client[d].out, TicketsOf(m))
    BY <1>1, <1>3 DEF Holds
  <2>3. /\ TicketHeldOnce(TicketsTo(out.goes, client, cache), m)
        /\ ~leave => NoMoreTickets(client, TicketsTo(out.goes, client, cache), m)
    BY <1>3, <2>1, <2>2, TicketsOnce
  <2> QED
    BY <2>3 DEF NoMoreTickets
<1>6. /\ ~Holds("transfer", g, m)'
      /\ g = Sender => ~Holds("new_outgoing", g, m)'
      /\ Holds("incoming", g, m)' <=> stay
      /\ g = Sender => (Holds("outgoing", g, m)' <=> remain)
  BY InNothing DEF Holds
<1>7. OnceInEach(m)'
  <2>1. handled'[m] <= 1
    BY <1>1, <1>3, <1>4 DEF OnceInEach, Holds
  <2>2. /\ Once(new_outgoing', M) /\ Once(outgoing', M)
        /\ \A h \in Group : Once(transfer'[h], M) /\ Once(incoming'[h], M)
    BY <1>3, InNothing DEF OnceInEach
  <2> QED
    BY <1>5, <2>1, <2>2 DEF OnceInEach, TicketHeldOnce
<1>8. /\ C /\ ~stay => Gone(m)
      /\ D /\ ~remain => Gone(m)
      /\ Holds("transfer", g, m) => Gone(m)
      /\ g = Sender /\ Holds("new_outgoing", g, m) => Gone(m)
  BY <1>6 DEF Gone, Place
<1>9. ASSUME NEW r \in Place, NEW k \in Group, New(r, k, m)
      PROVE  \/ r = "incoming" /\ k = g /\ stay /\ Holds("transfer", g, m)
             \/ r = "outgoing" /\ k = g /\ g = Sender /\ remain /\ Holds("new_outgoing", g, m)
             \/ r = "handled" /\ k = Sender /\ reach
             \/ r = "logged" /\ k = Sender /\ drop
             \/ r = "tickets" /\ leave /\ In(client'[k].out, TicketsOf(m))
  <2>1. CASE r = "incoming"
    <3>1. k = g /\ stay /\ ~Holds("incoming", g, m)
      BY <1>6, <1>9, <2>1 DEF New, Holds
    <3> QED
      BY <1>3, <2>1, <3>1
  <2>2. CASE r = "outgoing"
    <3>1. k = g /\ g = Sender /\ remain /\ ~Holds("outgoing", g, m)
      BY <1>6, <1>9, <2>2 DEF New, Holds
    <3> QED
      BY <1>3, <2>2, <3>1
  <2>3. CASE r = "handled"
    BY <1>4, <1>9, <2>3 DEF New, Holds
  <2>4. CASE r = "logged"
    BY <1>9, <2>4 DEF New, Holds
  <2>5. CASE r = "tickets"
    BY <1>5, <1>9, <2>5 DEF New, Holds
  <2>6. CASE r \in {"new_outgoing", "transfer", "back", "requests", "replies"}
    <3>1. /\ In(new_outgoing', M) => In(new_outgoing, M)
          /\ \A h \in Group : In(transfer'[h], M) => In(transfer[h], M)
      BY InNothing
    <3> QED
      BY <1>9, <2>6, <3>1 DEF New, Holds
  <2> QED
    BY <2>1, <2>2, <2>3, <2>4, <2>5, <2>6 DEF Place
<1> HIDE DEF C, D, stay, remain, leave, reach, drop, M
<1>10. Moves(m)
  <2>1. ASSUME NEW q \in Place, NEW r \in Place, NEW h \in Group, NEW k \in Group,
               New(q, h, m), New(r, k, m)
        PROVE  q = r /\ h = k
    BY <1>3, <1>5, <1>9, <2>1 DEF TicketHeldOnce
  <2>2. ASSUME NEW r \in Place, NEW k \in Group, New(r, k, m)
        PROVE  Gone(m)
    BY <1>3, <1>8, <1>9, <2>2
  <2> QED
    BY <2>1, <2>2 DEF Moves
<1> QED
  BY <1>4, <1>7, <1>10

LEMMA IntervalMSecondOrderly ==
  ASSUME MessagesInv, Orderly, NEW g \in Group, IntervalMSecond(g)
  PROVE  Orderly'
<1> DEFINE coming == incoming[g] \o transfer[g]
           going == IF g = Sender THEN outgoing \o new_outgoing ELSE <<>>
<1>1. PICK expired :
        LET in == Sorted(coming, g, Nowhere, expired)
            out == Sorted(going, g, cache, expired) IN
        /\ transfer' = [transfer EXCEPT ![g] = <<>>]
        /\ incoming' = [incoming EXCEPT ![g] = in.queue]
        /\ outgoing' = IF g = Sender THEN out.queue ELSE outgoing
        /\ new_outgoing' = IF g = Sender THEN <<>> ELSE new_outgoing
        /\ client' = TicketsTo(out.goes, client, cache)
        /\ Handle(g, in.handled \cup out.handled)
        /\ logged' = logged \cup in.dropped \cup out.dropped
  BY DEF IntervalMSecond, For
<1> DEFINE in == Sorted(coming, g, Nowhere, expired)
           out == Sorted(going, g, cache, expired)
<1>2. /\ transfer' = [transfer EXCEPT ![g] = <<>>]
      /\ incoming' = [incoming EXCEPT ![g] = in.queue]
      /\ outgoing' = IF g = Sender THEN out.queue ELSE outgoing
      /\ new_outgoing' = IF g = Sender THEN <<>> ELSE new_outgoing
      /\ client' = TicketsTo(out.goes, client, cache)
      /\ Handle(g, in.handled \cup out.handled)
      /\ logged' = logged \cup in.dropped \cup out.dropped
  BY <1>1
<1>3. UNCHANGED <<sent, back, links, connects, stopped>>
  BY DEF IntervalMSecond
<1>4. /\ incoming \in [Group -> Seq(Entry)] /\ transfer \in [Group -> Seq(Entry)]
      /\ incoming[g] \in Seq(Entry) /\ transfer[g] \in Seq(Entry)
      /\ outgoing \in Seq(Entry) /\ new_outgoing \in Seq(Entry) /\ ClientsOK(client)
      /\ cache \in [Location -> Address]
  BY DEF MessagesInv, Typed
<1>5. /\ coming \in Seq(Entry)
      /\ ToSet(coming) = ToSet(incoming[g]) \cup ToSet(transfer[g])
      /\ going \in Seq(Entry)
  <2>1. <<>> \in Seq(Entry)
    OBVIOUS
  <2> QED
    BY <1>4, <2>1, OfConcatenation
<1>6. ASSUME NEW m \in Message
      PROVE  /\ OnceInEach(m) /\ HeldOnce(m)
             /\ In(coming, EntriesOf(m)) <=> Holds("incoming", g, m) \/ Holds("transfer", g, m)
             /\ In(going, EntriesOf(m)) <=>
                  g = Sender /\ (Holds("outgoing", g, m) \/ Holds("new_outgoing", g, m))
             /\ Once(coming, EntriesOf(m)) /\ Once(going, EntriesOf(m))
  <2> DEFINE M == EntriesOf(m)
  <2>1. OnceInEach(m) /\ HeldOnce(m)
    BY DEF Orderly
  <2>2. /\ Holds("incoming", g, m) <=> In(incoming[g], M)
        /\ Holds("transfer", g, m) <=> In(transfer[g], M)
        /\ g = Sender => (Holds("outgoing", g, m) <=> In(outgoing, M))
        /\ g = Sender => (Holds("new_outgoing", g, m) <=> In(new_outgoing, M))
    BY DEF Holds
  <2>3. /\ Once(incoming[g], M) /\ Once(transfer[g], M)
        /\ Once(outgoing, M) /\ Once(new_outgoing, M)
    BY <2>1 DEF OnceInEach
  <2>4. /\ ~(Holds("incoming", g, m) /\ Holds("transfer", g, m))
        /\ ~(Holds("outgoing", g, m) /\ Holds("new_outgoing", g, m))
    BY <2>1 DEF HeldOnce, Place
  <2> HIDE DEF M
  <2>5. /\ In(coming, M) <=> In(incoming[g], M) \/ In(transfer[g], M)
        /\ Once(coming, M)
    BY <1>4, <2>2, <2>3, <2>4, InConcatenation
  <2>6. /\ In(going, M) <=> g = Sender /\ (In(outgoing, M) \/ In(new_outgoing, M))
        /\ Once(going, M)
    <3>1. CASE g = Sender
      <4>1. /\ In(outgoing \o new_outgoing, M) <=> In(outgoing, M) \/ In(new_outgoing, M)
            /\ Once(outgoing, M) /\ Once(new_outgoing, M)
                 /\ ~(In(outgoing, M) /\ In(new_outgoing, M)) => Once(outgoing \o new_outgoing, M)
        BY <1>4, InConcatenation
      <4> QED
        BY <2>2, <2>3, <2>4, <3>1, <4>1
    <3>2. CASE g # Sender
      BY <3>2, InNothing
    <3> QED
      BY <3>1, <3>2
  <2> QED
    BY <2>1, <2>2, <2>5, <2>6 DEF M
<1> HIDE DEF coming, going
<1>7. Sorts(going, cache, out)
  BY <1>4, <1>5, SortedOK
<1>8. /\ \A m : SortsOnce(coming, in, m)
      /\ \A e \in ToSet(in.queue) : \E x \in ToSet(coming) : x.socket = e.socket
  BY <1>5, SortedOnce
<1>9. \A m : SortsOnce(going, out, m)
  BY <1>5, SortedOnce
<1> HIDE DEF in, out
<1>10. /\ transfer'[g] = <<>> /\ incoming'[g] = in.queue
       /\ \A h \in Group : h # g => transfer'[h] = transfer[h] /\ incoming'[h] = incoming[h]
  BY <1>2, <1>4
<1>11. out.goes \in Seq(Entry) /\ \A e \in ToSet(out.goes) : cache[LocationOf[e.id]] \in Group
  BY <1>7 DEF Sorts
<1>12. Adds(client, client')
  BY <1>2, <1>4, <1>11, TicketsToOK
<1>13. ASSUME NEW m \in Message
       PROVE  OnceInEach(m)' /\ Moves(m) /\ lost' = lost
  <2>1. stopped = {}
    BY DEF Orderly
  <2>2. /\ OnceInEach(m) /\ HeldOnce(m)
        /\ In(coming, EntriesOf(m)) <=> Holds("incoming", g, m) \/ Holds("transfer", g, m)
        /\ In(going, EntriesOf(m)) <=>
             g = Sender /\ (Holds("outgoing", g, m) \/ Holds("new_outgoing", g, m))
        /\ Once(coming, EntriesOf(m)) /\ Once(going, EntriesOf(m))
    BY <1>6
  <2>3. SortsOnce(coming, in, m) /\ SortsOnce(going, out, m)
    BY <1>8, <1>9
  <2> QED
    BY <1>2, <1>3, <1>5, <1>10, <1>11, <2>1, <2>2, <2>3, IntervalMSecondMoves
<1>14. lost' = lost
  <2>1. CASE Message = {}
    <3>1. lost = {} /\ lost' = {}
      BY <1>2, <2>1 DEF Handle, MessagesInv, Typed, Orderly
    <3> QED
      BY <3>1
  <2> QED
    BY <1>13, <2>1
<1>15. ASSUME NEW d \in Group
       PROVE  (Line(links[d], client[d]) /\ Local(d))'
  <2>1. Line(links[d], client[d]) /\ Local(d)
    BY DEF Orderly
  <2>2. client'[d].wait = client[d].wait
    BY <1>12 DEF Adds
  <2>3. Line(links'[d], client'[d])
    BY <1>3, <2>1, <2>2, LineStays
  <2>4. ToSet(transfer'[d]) \subseteq ToSet(transfer[d])
    <3>1. ToSet(<<>>) = {}
      BY DEF ToSet
    <3> QED
      BY <1>10, <3>1
  <2>5. \A e \in ToSet(incoming'[d]) : \E x \in ToSet(incoming[d]) \cup ToSet(transfer[d]) :
          x.socket = e.socket
    BY <1>5, <1>8, <1>10
  <2>6. \A e \in ToSet(back'[d]) : \E x \in ToSet(incoming[d]) \cup ToSet(back[d]) :
          x.socket = e.socket
    BY <1>3
  <2> QED
    BY <1>3, <2>1, <2>2, <2>3, <2>4, <2>5, <2>6, LocalStays
<1> QED
  BY <1>3, <1>13, <1>14, <1>15, OrderlyStays

-----------------------------------------------------------------------------
(* A message has one copy *)

LEMMA CopiesInvInit == Init => CopiesInv
<1> SUFFICES ASSUME Init PROVE CopiesInv
  OBVIOUS
<1>1. \A M : ~In(<<>>, M) /\ Once(<<>>, M)
  BY InNothing
<1>2. ToSet(<<>>) = {} /\ DOMAIN <<>> = {}
  BY DEF ToSet
<1>3. ASSUME NEW d \in Group
      PROVE  /\ ~links[d].up /\ links[d].requests = <<>> /\ links[d].replies = <<>>
             /\ client[d].out = <<>> /\ client[d].wait = <<>>
             /\ transfer[d] = <<>> /\ incoming[d] = <<>> /\ back[d] = <<>>
  BY DEF Init, NewClient
<1>4. \A d \in Group : Line(links[d], client[d]) /\ Local(d)
  BY <1>2, <1>3 DEF Line, Local
<1>5. ASSUME NEW m \in Message
      PROVE  OnceInEach(m) /\ ~Held(m)
  <2>1. /\ new_outgoing = <<>> /\ outgoing = <<>> /\ handled[m] = 0 /\ logged = {}
    BY DEF Init
  <2>2. OnceInEach(m)
    BY <1>1, <1>3, <2>1 DEF OnceInEach
  <2>3. \A q \in Place : \A g \in Group : ~Holds(q, g, m)
    BY <1>1, <1>3, <2>1 DEF Holds
  <2> QED
    BY <2>2, <2>3 DEF Held
<1>6. \A i \in DOMAIN Messages : Messages[i] \in Message
  BY LogicMessagesAssumption, ElementsAreTyped
<1>7. Orderly
  BY <1>4, <1>5, <1>6 DEF Init, Orderly, Unsent, Held, HeldOnce
<1> QED
  BY <1>3, <1>7 DEF Init, CopiesInv, Connected

LEMMA CopiesInvStep == MessagesInv /\ MessagesInv' /\ CopiesInv /\ [Next]_vars => CopiesInv'
<1> SUFFICES ASSUME MessagesInv, MessagesInv', CopiesInv, [Next]_vars
             PROVE  CopiesInv'
  OBVIOUS
<1>1. /\ stops' \in Nat /\ Connected'
      /\ Undisturbed' => /\ Undisturbed
                         /\ \A g \in Group : ~Stop(g) /\ ~CloseConnection(g)
                         /\ \A d \in Group : CloseIdle(d) => ~links[d].up
  BY UndisturbedBefore DEF CopiesInv
<1> SUFFICES ASSUME Undisturbed' PROVE Orderly'
  BY <1>1 DEF CopiesInv
<1>2. /\ Orderly
      /\ \A g \in Group : ~Stop(g) /\ ~CloseConnection(g)
      /\ \A d \in Group : CloseIdle(d) => ~links[d].up
  BY <1>1 DEF CopiesInv
<1>3. CASE AddOutgoing
  BY <1>2, <1>3, AddOutgoingOrderly
<1>4. CASE \E g \in Group : IntervalMSecond(g)
  BY <1>2, <1>4, IntervalMSecondOrderly
<1>5. CASE \E g \in Group : AddressResponse(g)
  BY <1>2, <1>5, AddressResponseOrderly
<1>6. CASE \/ \E g \in Group : LoseAnswer(g) \/ Reanimate(g)
           \/ \E g \in Group, l \in Location : ReleaseLocation(g, l)
           \/ \E l \in Location : ForgetAddress(l)
           \/ UNCHANGED vars
  BY <1>2, <1>6, LocationsOrderly
<1>7. CASE \E d \in Group : Flush(d)
  BY <1>2, <1>7, FlushOrderly
<1>8. CASE \E d \in Group : DropDueTickets(d)
  BY <1>2, <1>8, DropDueTicketsOrderly
<1>9. CASE \E d \in Group : Acknowledge(d)
  BY <1>2, <1>9, AcknowledgeOrderly
<1>10. CASE \E d \in Group : BadAddress(d)
  BY <1>2, <1>10, BadAddressOrderly
<1>11. CASE \E d \in Group : CloseIdle(d)
  BY <1>2, <1>11, CloseIdleOrderly
<1>12. CASE \E d \in Group : Receive(d)
  BY <1>2, <1>12, ReceiveOrderly
<1>13. CASE \E d \in Group : SendBack(d)
  BY <1>2, <1>13, SendBackOrderly
<1> QED
  BY <1>2, <1>3, <1>4, <1>5, <1>6, <1>7, <1>8, <1>9, <1>10, <1>11, <1>12, <1>13 DEF Next

\* What the handlers keep while nothing disturbs them: a message has one place,
\* and requests and acknowledgements are in the order of the tickets that wait.
THEOREM CopiesInvHolds == Spec => []CopiesInv
BY CopiesInvInit, CopiesInvStep, MessagesInvHolds, PTL DEF Spec

\* A message that is counted is held by somebody when nothing has been lost: a
\* ticket that waits has its request on the connection.
LEMMA CountedIsHeld ==
  ASSUME MessagesInv, Orderly, NEW m \in Message, Counted(m)
  PROVE  Held(m)
<1>1. /\ \A s \in Seq(Entry) : Has(s, m) => In(s, EntriesOf(m))
      /\ \A s \in Seq(Returned) : Has(s, m) => In(s, EntriesOf(m))
  <2>1. ASSUME NEW X \in {Entry, Returned}, NEW s \in Seq(X), Has(s, m)
        PROVE  In(s, EntriesOf(m))
    <3>1. PICK e \in ToSet(s) : e.id = m
      BY <2>1 DEF Has
    <3>2. ToSet(s) \subseteq X
      BY ElementsAreTyped
    <3>3. e \in EntriesOf(m)
      BY <3>1, <3>2 DEF EntriesOf
    <3> QED
      BY <3>3, InSet
  <2> QED
    BY <2>1
<1>2. CASE Has(new_outgoing, m) \/ Has(outgoing, m)
  <2>1. new_outgoing \in Seq(Entry) /\ outgoing \in Seq(Entry)
    BY DEF MessagesInv, Typed
  <2>2. Holds("new_outgoing", Sender, m) \/ Holds("outgoing", Sender, m)
    BY <1>1, <1>2, <2>1 DEF Holds
  <2> QED
    BY <2>2, LogicMessagesAssumption DEF Held, Place
<1>3. ASSUME NEW g \in Group, At(m, g)
      PROVE  Held(m)
  <2>1. CASE Has(transfer[g], m) \/ Has(incoming[g], m) \/ Has(back[g], m)
    <3>1. transfer[g] \in Seq(Entry) /\ incoming[g] \in Seq(Entry) /\ back[g] \in Seq(Returned)
      BY QueuesAreTyped
    <3>2. Holds("transfer", g, m) \/ Holds("incoming", g, m) \/ Holds("back", g, m)
      BY <1>1, <2>1, <3>1 DEF Holds
    <3> QED
      BY <3>2 DEF Held, Place
  <2>2. CASE ToSend(m, client[g])
    <3>1. PICK t \in ToSet(client[g].out) : t.data = m
      BY <2>2 DEF ToSend
    <3>2. t \in TicketOf(Message, Location)
      BY QueuesAreTyped, ElementsAreTyped
    <3>3. t \in TicketsOf(m)
      BY <3>1, <3>2 DEF TicketsOf
    <3>4. Holds("tickets", g, m)
      BY <3>1, <3>3, InSet DEF Holds
    <3> QED
      BY <3>4 DEF Held, Place
  <2>3. CASE Unconfirmed(m, client[g], links[g])
    <3>1. PICK t \in ToSet(client[g].wait) : t.data = m /\ ~Processed(t.number, links[g])
      BY <2>3 DEF Unconfirmed
    <3>2. Line(links[g], client[g]) /\ LinkOK(links[g], client[g])
      BY DEF Orderly, MessagesInv
    <3>3. PICK q \in ToSet(links[g].requests) : q.number = t.number
      BY <3>1, <3>2 DEF Line
    <3>4. q.id = m
      BY <3>1, <3>2, <3>3 DEF LinkOK
    <3>5. q \in Request
      BY <3>3, QueuesAreTyped, ElementsAreTyped
    <3>6. q \in EntriesOf(m)
      BY <3>4, <3>5 DEF EntriesOf
    <3>7. Holds("requests", g, m)
      BY <3>3, <3>6, InSet DEF Holds
    <3> QED
      BY <3>7 DEF Held, Place
  <2>4. CASE Returning(m, links[g])
    <3>1. PICK r \in ToSet(links[g].replies) : r.kind = "bad_address" /\ r.id = m
      BY <2>4 DEF Returning
    <3>2. r \in Reply
      BY <3>1, QueuesAreTyped, ElementsAreTyped
    <3>3. r \in RepliesOf(m)
      BY <3>1, <3>2 DEF RepliesOf
    <3>4. Holds("replies", g, m)
      BY <3>1, <3>3, InSet DEF Holds
    <3> QED
      BY <3>4 DEF Held, Place
  <2> QED
    BY <1>3, <2>1, <2>2, <2>3, <2>4 DEF At
<1>4. CASE Ended(m)
  <2>1. Holds("handled", Sender, m) \/ Holds("logged", Sender, m)
    BY <1>4 DEF Ended, Orderly, Holds
  <2> QED
    BY <2>1, LogicMessagesAssumption DEF Held, Place
<1> QED
  BY <1>2, <1>3, <1>4 DEF Counted

\* <<q, g, i>> is a copy of the message.
Spot(q, g, i, m) ==
  \/ q = "new_outgoing" /\ g = Sender /\ i \in DOMAIN new_outgoing /\ new_outgoing[i].id = m
  \/ q = "outgoing" /\ g = Sender /\ i \in DOMAIN outgoing /\ outgoing[i].id = m
  \/ q = "transfer" /\ i \in DOMAIN transfer[g] /\ transfer[g][i].id = m
  \/ q = "incoming" /\ i \in DOMAIN incoming[g] /\ incoming[g][i].id = m
  \/ q = "back" /\ i \in DOMAIN back[g] /\ back[g][i].id = m
  \/ q = "requests" /\ i \in DOMAIN links[g].requests /\ links[g].requests[i].id = m
  \/ /\ q = "replies" /\ i \in DOMAIN links[g].replies
     /\ links[g].replies[i].kind = "bad_address" /\ links[g].replies[i].id = m
  \/ q = "tickets" /\ i \in DOMAIN client[g].out /\ client[g].out[i].data = m
  \/ q = "handled" /\ g = Sender /\ i \in 1..handled[m]
  \/ q = "logged" /\ g = Sender /\ i = 1 /\ m \in logged

LEMMA CopiesAreSpots ==
  ASSUME NEW m
  PROVE  /\ \A q, i : \A g \in Group : Spot(q, g, i, m) => <<q, g, i>> \in Copies(m)
         /\ \A x \in Copies(m) : \E q, i : \E g \in Group : x = <<q, g, i>> /\ Spot(q, g, i, m)
<1> DEFINE at(queue, g, entries) ==
             {<<queue, g, i>> : i \in {j \in DOMAIN entries : entries[j].id = m}}
           returning(g) == {i \in DOMAIN links[g].replies :
                              links[g].replies[i].kind = "bad_address" /\ links[g].replies[i].id = m}
           ticket(g) == {i \in DOMAIN client[g].out : client[g].out[i].data = m}
           all == {<<"handled", Sender, i>> : i \in 1..handled[m]}
           drop == {<<"logged", Sender, 1>> : x \in logged \cap {m}}
           of(g) == at("transfer", g, transfer[g]) \cup at("incoming", g, incoming[g])
                    \cup at("back", g, back[g]) \cup at("requests", g, links[g].requests)
                    \cup {<<"replies", g, i>> : i \in returning(g)}
                    \cup {<<"tickets", g, i>> : i \in ticket(g)}
<1>1. /\ \A x \in Copies(m) : \/ x \in at("new_outgoing", Sender, new_outgoing)
                              \/ x \in at("outgoing", Sender, outgoing)
                              \/ x \in all \/ x \in drop
                              \/ \E g \in Group : x \in of(g)
      /\ at("new_outgoing", Sender, new_outgoing) \subseteq Copies(m)
      /\ at("outgoing", Sender, outgoing) \subseteq Copies(m)
      /\ all \subseteq Copies(m) /\ drop \subseteq Copies(m)
      /\ \A g \in Group : of(g) \subseteq Copies(m)
  <2>1. Copies(m) = at("new_outgoing", Sender, new_outgoing) \cup at("outgoing", Sender, outgoing)
                    \cup all \cup drop \cup UNION {of(g) : g \in Group}
    BY DEF Copies
  <2> HIDE DEF at, all, drop, of
  <2> QED
    BY <2>1
<1>2. \A queue, g, entries : /\ \A i \in DOMAIN entries : entries[i].id = m => <<queue, g, i>> \in at(queue, g, entries)
                             /\ \A x \in at(queue, g, entries) :
                                  \E i \in DOMAIN entries : x = <<queue, g, i>> /\ entries[i].id = m
  OBVIOUS
<1>3. /\ \A i \in 1..handled[m] : <<"handled", Sender, i>> \in all
      /\ m \in logged => <<"logged", Sender, 1>> \in drop
      /\ \A x \in all : \E i \in 1..handled[m] : x = <<"handled", Sender, i>>
      /\ \A x \in drop : x = <<"logged", Sender, 1>> /\ m \in logged
  OBVIOUS
<1>4. ASSUME NEW g
      PROVE  /\ at("transfer", g, transfer[g]) \subseteq of(g)
             /\ at("incoming", g, incoming[g]) \subseteq of(g)
             /\ at("back", g, back[g]) \subseteq of(g)
             /\ at("requests", g, links[g].requests) \subseteq of(g)
             /\ \A i \in returning(g) : <<"replies", g, i>> \in of(g)
             /\ \A i \in ticket(g) : <<"tickets", g, i>> \in of(g)
             /\ \A x \in of(g) : \/ x \in at("transfer", g, transfer[g])
                                 \/ x \in at("incoming", g, incoming[g])
                                 \/ x \in at("back", g, back[g])
                                 \/ x \in at("requests", g, links[g].requests)
                                 \/ \E i \in returning(g) : x = <<"replies", g, i>>
                                 \/ \E i \in ticket(g) : x = <<"tickets", g, i>>
  <2> HIDE DEF at, returning, ticket
  <2> QED
    BY Zenon
<1> HIDE DEF at, all, drop, of
<1>5. ASSUME NEW q, NEW i, NEW g \in Group, Spot(q, g, i, m)
      PROVE  <<q, g, i>> \in Copies(m)
  <2> DEFINE x == <<q, g, i>>
  <2>1. CASE q \in {"new_outgoing", "outgoing"}
    <3>1. x \in at("new_outgoing", Sender, new_outgoing) \/ x \in at("outgoing", Sender, outgoing)
      BY <1>2, <1>5, <2>1 DEF Spot
    <3> QED
      BY <1>1, <3>1
  <2>2. CASE q \in {"handled", "logged"}
    <3>1. x \in all \/ x \in drop
      BY <1>3, <1>5, <2>2 DEF Spot
    <3> QED
      BY <1>1, <3>1
  <2>3. CASE q \in {"transfer", "incoming", "back", "requests"}
    <3>1. \/ x \in at("transfer", g, transfer[g]) \/ x \in at("incoming", g, incoming[g])
          \/ x \in at("back", g, back[g]) \/ x \in at("requests", g, links[g].requests)
      BY <1>2, <1>5, <2>3 DEF Spot
    <3> QED
      BY <1>1, <1>4, <3>1
  <2>4. CASE q \in {"replies", "tickets"}
    <3>1. \/ q = "replies" /\ i \in returning(g)
          \/ q = "tickets" /\ i \in ticket(g)
      BY <1>5, <2>4 DEF Spot
    <3> QED
      BY <1>1, <1>4, <3>1
  <2>5. q \in {"new_outgoing", "outgoing", "handled", "logged", "transfer", "incoming", "back",
              "requests", "replies", "tickets"}
    BY <1>5 DEF Spot
  <2> QED
    BY <2>1, <2>2, <2>3, <2>4, <2>5
<1>6. /\ \A i \in DOMAIN new_outgoing : new_outgoing[i].id = m => Spot("new_outgoing", Sender, i, m)
      /\ \A i \in DOMAIN outgoing : outgoing[i].id = m => Spot("outgoing", Sender, i, m)
      /\ \A i \in 1..handled[m] : Spot("handled", Sender, i, m)
      /\ m \in logged => Spot("logged", Sender, 1, m)
  BY Zenon DEF Spot
<1>7. ASSUME NEW g
      PROVE  /\ \A i \in DOMAIN transfer[g] : transfer[g][i].id = m => Spot("transfer", g, i, m)
             /\ \A i \in DOMAIN incoming[g] : incoming[g][i].id = m => Spot("incoming", g, i, m)
             /\ \A i \in DOMAIN back[g] : back[g][i].id = m => Spot("back", g, i, m)
             /\ \A i \in DOMAIN links[g].requests :
                  links[g].requests[i].id = m => Spot("requests", g, i, m)
             /\ \A i \in returning(g) : Spot("replies", g, i, m)
             /\ \A i \in ticket(g) : Spot("tickets", g, i, m)
  BY Zenon DEF Spot
<1> DEFINE Is(x) == \E q, i : \E g \in Group : x = <<q, g, i>> /\ Spot(q, g, i, m)
<1>8. \A q, i : \A g \in Group : Spot(q, g, i, m) => Is(<<q, g, i>>)
  OBVIOUS
<1>9. ASSUME NEW x \in Copies(m)
      PROVE  Is(x)
  <2> HIDE DEF Is, returning, ticket
  <2>1. CASE x \in at("new_outgoing", Sender, new_outgoing) \/ x \in at("outgoing", Sender, outgoing)
    BY <1>2, <1>6, <1>8, <2>1, LogicMessagesAssumption
  <2>2. CASE x \in all \/ x \in drop
    BY <1>3, <1>6, <1>8, <2>2, LogicMessagesAssumption
  <2>3. CASE \E g \in Group : x \in of(g)
    <3>1. PICK g \in Group : x \in of(g)
      BY <2>3
    <3> QED
      BY <1>2, <1>4, <1>7, <1>8, <3>1
  <2> QED
    BY <1>1, <2>1, <2>2, <2>3
<1> QED
  BY <1>5, <1>9

LEMMA SpotsAreHeld ==
  ASSUME MessagesInv, NEW m \in Message, NEW g \in Group
  PROVE  /\ \A q, i : Spot(q, g, i, m) => q \in Place /\ Holds(q, g, m)
         /\ \A q \in Place : Holds(q, g, m) => \E i : Spot(q, g, i, m)
         /\ OnceInEach(m) => \A q, i, j : Spot(q, g, i, m) /\ Spot(q, g, j, m) => i = j
<1> DEFINE M == EntriesOf(m)
           R == RepliesOf(m)
           T == TicketsOf(m)
<1>1. ASSUME NEW X \in {Entry, Returned, Request}, NEW s \in Seq(X)
      PROVE  \A i \in DOMAIN s : s[i] \in M <=> s[i].id = m
  <2>1. \A i \in DOMAIN s : s[i] \in X
    BY ElementsAreTyped
  <2> QED
    BY <2>1 DEF EntriesOf
<1>2. /\ \A i \in DOMAIN new_outgoing : new_outgoing[i] \in M <=> new_outgoing[i].id = m
      /\ \A i \in DOMAIN outgoing : outgoing[i] \in M <=> outgoing[i].id = m
      /\ \A i \in DOMAIN transfer[g] : transfer[g][i] \in M <=> transfer[g][i].id = m
      /\ \A i \in DOMAIN incoming[g] : incoming[g][i] \in M <=> incoming[g][i].id = m
      /\ \A i \in DOMAIN back[g] : back[g][i] \in M <=> back[g][i].id = m
      /\ \A i \in DOMAIN links[g].requests :
           links[g].requests[i] \in M <=> links[g].requests[i].id = m
  <2> HIDE DEF M
  <2> QED
    BY <1>1, QueuesAreTyped
<1>3. \A i \in DOMAIN links[g].replies : links[g].replies[i] \in R
        <=> links[g].replies[i].kind = "bad_address" /\ links[g].replies[i].id = m
  <2>1. \A i \in DOMAIN links[g].replies : links[g].replies[i] \in Reply
    BY QueuesAreTyped, ElementsAreTyped
  <2> QED
    BY <2>1 DEF RepliesOf
<1>4. \A i \in DOMAIN client[g].out : client[g].out[i] \in T <=> client[g].out[i].data = m
  <2>1. \A i \in DOMAIN client[g].out : client[g].out[i] \in TicketOf(Message, Location)
    BY QueuesAreTyped, ElementsAreTyped
  <2> QED
    BY <2>1 DEF TicketsOf
<1>5. handled[m] \in Nat
  BY DEF MessagesInv, Typed
<1> HIDE DEF M, R, T
<1>6. ASSUME NEW q, NEW i, Spot(q, g, i, m)
      PROVE  q \in Place /\ Holds(q, g, m)
  BY <1>2, <1>3, <1>4, <1>5, <1>6 DEF Spot, Place, Holds, In, M, R, T
<1>7. ASSUME NEW q \in Place, Holds(q, g, m)
      PROVE  \E i : Spot(q, g, i, m)
  BY <1>2, <1>3, <1>4, <1>5, <1>7 DEF Spot, Place, Holds, In, M, R, T
<1>8. ASSUME OnceInEach(m), NEW q, NEW i, NEW j, Spot(q, g, i, m), Spot(q, g, j, m)
      PROVE  i = j
  BY <1>2, <1>3, <1>4, <1>5, <1>8 DEF Spot, OnceInEach, Once, M, R, T
<1> QED
  BY <1>6, <1>7, <1>8

\* While no connection between two servers has ended and no group has stopped,
\* each message sent is in exactly one queue, ticket, request or reply, or was
\* handled once, or was dropped, whatever the balancer answers and when.
THEOREM NoMessageIsCopiedAlways == Spec => []NoMessageIsCopied
<1>1. MessagesInv /\ CopiesInv => NoMessageIsCopied
  <2> SUFFICES ASSUME MessagesInv, CopiesInv, Undisturbed, NEW i \in 1..sent
               PROVE  Cardinality(Copies(Messages[i])) = 1
    BY DEF NoMessageIsCopied
  <2> DEFINE m == Messages[i]
  <2>1. sent \in 0..Len(Messages) /\ Counted(m) /\ Orderly
    BY DEF MessagesInv, Typed, CopiesInv
  <2>2. m \in Message
    BY <2>1, LogicMessagesAssumption
  <2> HIDE DEF m
  <2>3. Held(m) /\ HeldOnce(m) /\ OnceInEach(m)
    BY <2>1, <2>2, CountedIsHeld DEF Orderly
  <2>4. PICK q \in Place, g \in Group : Holds(q, g, m)
    BY <2>3 DEF Held
  <2>5. PICK k : Spot(q, g, k, m)
    BY <2>2, <2>4, SpotsAreHeld
  <2>6. <<q, g, k>> \in Copies(m)
    BY <2>5, CopiesAreSpots
  <2>7. ASSUME NEW x \in Copies(m)
        PROVE  x = <<q, g, k>>
    <3>1. PICK r, j : \E h \in Group : x = <<r, h, j>> /\ Spot(r, h, j, m)
      BY CopiesAreSpots
    <3>2. PICK h \in Group : x = <<r, h, j>> /\ Spot(r, h, j, m)
      BY <3>1
    <3>3. r \in Place /\ Holds(r, h, m)
      BY <2>2, <3>2, SpotsAreHeld
    <3>4. r = q /\ h = g
      BY <2>3, <2>4, <3>3 DEF HeldOnce
    <3>5. j = k
      BY <2>2, <2>3, <2>5, <3>2, <3>4, SpotsAreHeld
    <3> QED
      BY <3>2, <3>4, <3>5
  <2>8. Copies(m) = {<<q, g, k>>}
    BY <2>6, <2>7
  <2> QED
    BY <2>8, FS_Singleton DEF m
<1> QED
  BY <1>1, MessagesInvHolds, CopiesInvHolds, PTL
=============================================================================
