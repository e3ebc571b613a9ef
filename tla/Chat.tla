-------------------------------- MODULE Chat --------------------------------
(***************************************************************************)
(* RideGateway and ChatService beside the rides they are about: sockets    *)
(* that connect and send messages, each of which is checked against the    *)
(* ride row, stored and then emitted to the ride's room.  (Who is in the   *)
(* room is socket.io's business: anybody may join.)                        *)
(* Between these awaits the handlers and workers of module Rides run on.   *)
(* What a message says decides nothing; rows are numbered as inserted.     *)
(* emitToUser, emitToRide and deleteOldMessages have no caller.            *)
(***************************************************************************)
EXTENDS Rides, Paging

CONSTANTS
  Sockets,
  MaxMessages, \* bound on rows of ride_messages
  Retention    \* how far back getMessages looks

ASSUME ChatAssumption == MaxMessages \in Nat /\ Retention \in Nat

VARIABLES
  socket,   \* connectedUsers
  message,  \* table ride_messages
  sending,  \* what each executing send:message does next
  heard     \* how often each message was emitted to its room

chatVars == <<socket, message, sending, heard>>
allVars == <<vars, chatVars>>

Messages == 1..MaxMessages
Message == [ride : Rides \cup {NoRide}, sender : MaybeUser, createdAt : 0..MaxTime]
Sending == [step : {"idle", "insert", "emit"}, ride : Rides \cup {NoRide},
            who : MaybeUser, id : 0..MaxMessages]

NoMessage == [ride |-> NoRide, sender |-> NoUser, createdAt |-> 0]
Silent == [step |-> "idle", ride |-> NoRide, who |-> NoUser, id |-> 0]

ChatInit ==
  /\ Init
  /\ socket = [s \in Sockets |-> NoUser]
  /\ message = [m \in Messages |-> NoMessage]
  /\ sending = [s \in Sockets |-> Silent]
  /\ heard = [m \in Messages |-> 0]

Stored(m) == message[m].ride # NoRide

-----------------------------------------------------------------------------
\* handleConnection with a valid token; any other client is disconnected.
Connect(s, u) ==
  /\ socket[s] = NoUser /\ sending[s] = Silent
  /\ socket' = [socket EXCEPT ![s] = u]
  /\ UNCHANGED <<vars, message, sending, heard>>

\* A send:message in flight goes on without its socket.
Disconnect(s) ==
  /\ socket[s] # NoUser
  /\ socket' = [socket EXCEPT ![s] = NoUser]
  /\ UNCHANGED <<vars, message, sending, heard>>

Takes(row, u) == \E side \in Side : row.on[side] = u

ChatOpenSlip(row) == row.status \in {"SEARCHING", "MATCHED", "IN_PROGRESS"}
ChatOpen(row) == row.status \in {"MATCHED", "IN_PROGRESS"}

MaySend(row, u) == Takes(row, u) /\ ChatOpen(row)

\* sendMessage up to its read of the ride.
SendMessage(s, r) ==
  /\ sending[s] = Silent
  /\ socket[s] # NoUser
  /\ MaySend(ride[r], socket[s])
  /\ sending' = [sending EXCEPT ![s] =
       [step |-> "insert", ride |-> r, who |-> socket[s], id |-> 0]]
  /\ UNCHANGED <<vars, socket, message, heard>>

\* On whatever has become of the ride.
CreateMessage(s, m) ==
  /\ sending[s].step = "insert"
  /\ ~Stored(m) /\ \A n \in 1..(m - 1) : Stored(n)
  /\ message' = [message EXCEPT ![m] =
       [ride |-> sending[s].ride, sender |-> sending[s].who, createdAt |-> now]]
  /\ sending' = [sending EXCEPT ![s] = [@ EXCEPT !.step = "emit", !.id = m]]
  /\ UNCHANGED <<vars, socket, heard>>

SentSlip(s) == sending
Sent(s) == [sending EXCEPT ![s] = Silent]

Emit(s) ==
  /\ sending[s].step = "emit"
  /\ heard' = [heard EXCEPT ![sending[s].id] = @ + 1]
  /\ sending' = Sent(s)
  /\ UNCHANGED <<vars, socket, message>>

\* A database call throws: the sender is told, the room hears nothing.
SendFails(s) ==
  /\ sending[s] # Silent
  /\ sending' = [sending EXCEPT ![s] = Silent]
  /\ UNCHANGED <<vars, socket, message, heard>>

\* The server that holds the sockets dies, with the handlers on rides in it.
ServerDies ==
  /\ Crash
  /\ socket' = [s \in Sockets |-> NoUser]
  /\ sending' = [s \in Sockets |-> Silent]
  /\ UNCHANGED <<message, heard>>

ChatStep ==
  \/ \E s \in Sockets :
       \/ \E u \in Users : Connect(s, u)
       \/ \E r \in Rides : SendMessage(s, r)
       \/ \E m \in Messages : CreateMessage(s, m)
       \/ Disconnect(s) \/ Emit(s) \/ SendFails(s)

ChatNext == (Next /\ UNCHANGED chatVars) \/ ChatStep \/ ServerDies

ChatSpec == ChatInit /\ [][ChatNext]_allVars

-----------------------------------------------------------------------------
(* What a party of the ride reads.                                         *)

Recent(r) ==
  {m \in Messages : message[m].ride = r /\ message[m].createdAt + Retention >= now}

History(r) == Listed(Recent(r), >)

\* getMessages: the newest page first, each page in the order of sending.
PageOfMessagesSlip(r, page, limit) == PageRows(History(r), page, limit)
PageOfMessages(r, page, limit) == Reverse(PageRows(History(r), page, limit))

-----------------------------------------------------------------------------
(* What holds however messages, handlers, workers and failures interleave. *)

\* Values stay in their types: a room hears a message once or not at all, and
\* only one that is stored.
ChatTypeOK ==
  /\ socket \in [Sockets -> MaybeUser]
  /\ message \in [Messages -> Message]
  /\ sending \in [Sockets -> Sending]
  /\ heard \in [Messages -> 0..1]
  /\ \A m \in Messages : heard[m] = 1 => Stored(m)

\* Whoever has written in a ride's chat is its creator or asked for it and was
\* answered, and the ride has had both its sides since: nobody writes before
\* the match, whatever becomes of the ride between the check and the INSERT.
PartiesTalk ==
  \A m \in Messages : Stored(m) =>
    LET r == message[m].ride
        u == message[m].sender
    IN  /\ u = ride[r].creator \/ request[r][u] \in {"ACCEPTED", "DECLINED"}
        /\ \A side \in Side : ride[r].on[side] # NoUser

\* The pages from the last to the first are the conversation of the last week,
\* every message of it, in the order it was stored.
PagesTellTheStory ==
  \A r \in Rides, limit \in 0..2 :
    LET pages == TotalPages(Cardinality(Recent(r)), limit)
        story == FlattenSeq([p \in 1..pages |-> PageOfMessages(r, pages + 1 - p, limit)])
    IN  /\ ToSet(story) = Recent(r)
        /\ \A i, j \in 1..Len(story) : i < j => story[i] < story[j]
=============================================================================
