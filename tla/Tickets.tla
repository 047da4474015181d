------------------------------- MODULE Tickets -------------------------------
(***************************************************************************)
(* Tickets: messages between services that are sent again when they were   *)
(* not acknowledged (server_common/gticket_internal_client.cpp).           *)
(*                                                                         *)
(* A client, the GTicketInternalClient of one connection, is a record: the *)
(* tickets to send, the tickets sent and not acknowledged, and the next    *)
(* number.  Its operations are functions from a client to a record with    *)
(* the client afterwards, what went out and what was dropped, for the      *)
(* caller's dropped_ticket_callback.                                       *)
(*                                                                         *)
(* Deadlines are left to the caller: due are the data of the tickets whose *)
(* deadline is over.                                                       *)
(***************************************************************************)
EXTENDS Naturals, Sequences, SequencesExt

CONSTANTS
  NoSequence, \* an empty stable_sequence_identifier
  OldLoop     \* a ticket sent more often than this is not sent again (3)

ASSUME TicketsAssumption == OldLoop \in Nat

\* order, not in the code, is the number the ticket had first.
Ticket(data, sequence, number) ==
  [data |-> data, sequence |-> sequence, number |-> number, order |-> number, loop |-> 0]

\* Mutant: 0 is the number of what is not a ticket.
NewClientFromZero == [out |-> <<>>, wait |-> <<>>, sequence_number |-> 0]

NewClient == [out |-> <<>>, wait |-> <<>>, sequence_number |-> 1]

\* The elements of a sequence that are in S, in their order.
Only(seq, S) ==
  FoldLeft(LAMBDA kept, x : IF x \in S THEN Append(kept, x) ELSE kept, <<>>, seq)

SequencesOf(tickets) == {tickets[i].sequence : i \in DOMAIN tickets}

Drop(ticket, reason) == [ticket |-> ticket, reason |-> reason]

\* GTicketInternalClient::Ticket.
AddTicket(client, data, sequence) ==
  [client EXCEPT !.out = Append(@, Ticket(data, sequence, client.sequence_number)),
                 !.sequence_number = @ + 1]

\* FlushTickets over a connection whose buffer has room for n tickets.
FlushTickets(client, n) ==
  LET sent == [i \in 1..n |-> [client.out[i] EXCEPT !.loop = @ + 1]] IN
  [client |-> [client EXCEPT !.out = SubSeq(@, n + 1, Len(@)), !.wait = @ \o sent],
   sent   |-> sent]

\* The end of FlushTickets: tickets that are due are not sent any more.
DropDue(client, due) ==
  [client  |-> [client EXCEPT !.out = Only(@, {t \in ToSet(@) : t.data \notin due})],
   dropped |-> LET late == Only(client.out, {t \in ToSet(client.out) : t.data \in due})
               IN [i \in DOMAIN late |-> Drop(late[i], "DeadlineReached")]]

\* Mutant: only the ticket that was acknowledged supersedes earlier ones.
SupersededByAck(ticket, acknowledged, client) == ticket.sequence = acknowledged.sequence

\* A later ticket of the sequence was acknowledged, will be sent or was sent.
Superseded(ticket, acknowledged, client) ==
  /\ ticket.sequence # NoSequence
  /\ \/ ticket.sequence = acknowledged.sequence
     \/ ticket.sequence \in SequencesOf(client.out)
     \/ \E i \in DOMAIN client.wait :
          /\ client.wait[i].number > ticket.number
          /\ client.wait[i].sequence = ticket.sequence

\* Mutant: a ticket keeps its number.
NotRenumbered(ticket, number) == ticket

Renumbered(ticket, number) == [ticket EXCEPT !.number = number]

\* RollbackTicket: a ticket sent before the acknowledged one did not arrive.
RollbackTicket(ticket, acknowledged, due, result) ==
  LET client == result.client IN
  CASE ticket.data \in due ->
         [result EXCEPT !.dropped = Append(@, Drop(ticket, "DeadlineReached"))]
    [] ticket.data \notin due /\ Superseded(ticket, acknowledged, client) ->
         [result EXCEPT !.dropped = Append(@, Drop(ticket, "StableSequenceMiss"))]
    [] OTHER ->
         [result EXCEPT !.client.out = Append(@, Renumbered(ticket, client.sequence_number)),
                        !.client.sequence_number = @ + 1]

RollbackTickets(tickets, acknowledged, due, result) ==
  FoldLeft(LAMBDA r, t : RollbackTicket(t, acknowledged, due, r), result, tickets)

\* PreProcessMessage: the acknowledgement of a number.  If it is not for the
\* oldest ticket, those before it were lost with an earlier connection.
PreProcessMessage(client, number, due) ==
  LET i == SelectInSeq(client.wait, LAMBDA t : t.number = number)
      rest == RemoveAt(client.wait, i)
      old == Only(rest, {t \in ToSet(rest) : t.loop > OldLoop})
      waiting == Only(rest, {t \in ToSet(rest) : t.loop <= OldLoop})
      dropped == [k \in DOMAIN old |-> Drop(old[k], "TooManyRetries")]
      lost == Only(waiting, {t \in ToSet(waiting) : t.number < number})
      rolled == RollbackTickets(lost, client.wait[i], due,
                  [client |-> [client EXCEPT !.wait = waiting], dropped |-> dropped])
  IN CASE i = 0 ->
            [client  |-> [client EXCEPT !.out = Only(@, {t \in ToSet(@) : t.number # number})],
             dropped |-> <<>>]
       [] i = 1 -> [client |-> [client EXCEPT !.wait = Tail(@)], dropped |-> <<>>]
       [] OTHER ->
            [rolled EXCEPT !.client.wait = Only(@, {t \in ToSet(@) : t.number >= number})]

\* DropTickets, and Close for the tickets that wait.
DropTickets(client) ==
  [client  |-> [client EXCEPT !.out = <<>>],
   dropped |-> [i \in DOMAIN client.out |-> Drop(client.out[i], "ForcedDrop")]]
CloseClient(client) ==
  [client  |-> [client EXCEPT !.wait = <<>>],
   dropped |-> [i \in DOMAIN client.wait |-> Drop(client.wait[i], "NoProcessedConfirmation")]]
=============================================================================
