----------------------------- MODULE ChatProofs -----------------------------
(***************************************************************************)
(* Proofs about module Chat, for any number of sockets, messages, rides    *)
(* and handlers: the chat leaves rides alone, so what RidesProofs shows of *)
(* them is there to rely on.  And the pages lists are cut into.            *)
(***************************************************************************)
EXTENDS Chat, RidesProofs, Counting

\* What a check of the ride row finds, and no later write to either table takes
\* back, although the status it looked at may be gone by the INSERT.
Party(r, u) ==
  /\ r \in Rides /\ u \in Users
  /\ Exists(ride[r]) /\ Paired(ride[r])
  /\ u = ride[r].creator \/ request[r][u] \in Answered

\* A handler that is about to insert has found a party; one that is about to emit
\* has a stored message of its own that nobody has heard.
SendingOK ==
  /\ \A s \in Sockets :
       /\ sending[s].step = "insert" => Party(sending[s].ride, sending[s].who)
       /\ sending[s].step = "emit" =>
            /\ sending[s].id \in Messages
            /\ Stored(sending[s].id) /\ heard[sending[s].id] = 0
  /\ \A s, t \in Sockets :
       s # t /\ sending[s].step = "emit" /\ sending[t].step = "emit"
         => sending[s].id # sending[t].id

ChatInductive ==
  /\ ChatTypeOK
  /\ SendingOK
  /\ \A m \in Messages : Stored(m) => Party(message[m].ride, message[m].sender)

-----------------------------------------------------------------------------
(* Beside the chat, rides are what they are without it.                    *)

THEOREM ChatLeavesRidesAlone == ChatSpec => Spec
<1>1. ChatInit => Init
  BY DEF ChatInit
<1>2. [ChatNext]_allVars => [Next]_vars
  <2>1. ChatStep => UNCHANGED vars
    BY DEF ChatStep, Connect, Disconnect, SendMessage, CreateMessage, Emit, SendFails
  <2>2. ServerDies => Next
    BY DEF ServerDies, Next
  <2>3. UNCHANGED allVars => UNCHANGED vars
    BY DEF allVars
  <2> QED
    BY <2>1, <2>2, <2>3 DEF ChatNext
<1> QED
  BY <1>1, <1>2, PTL DEF ChatSpec, Spec

LEMMA PartyStays ==
  ASSUME StateGrows, NEW r, NEW u, Party(r, u)
  PROVE  Party(r, u)'
BY DEF Party, StateGrows, Grows

\* Whoever passes the check is a party.
LEMMA SendersAreParties ==
  ASSUME Inductive, NEW r \in Rides, NEW u \in Users, MaySend(ride[r], u)
  PROVE  Party(r, u)
<1>1. RowOK(ride[r]) /\ RequestOK(r, u) /\ ride[r] \in Row
  BY DEF Inductive, TypeOK
<1>2. Exists(ride[r]) /\ Paired(ride[r])
  BY <1>1 DEF MaySend, ChatOpen, RowOK, Travelling, Exists
<1>3. PICK side \in Side : ride[r].on[side] = u
  BY DEF MaySend, Takes
<1>4. side = CreatorSide(ride[r].type) \/ side = OpenSide(ride[r].type)
  BY DEF Side, CreatorSide, OpenSide
<1>5. u = ride[r].creator \/ request[r][u] \in Answered
  BY <1>1, <1>2, <1>3, <1>4 DEF RowOK, RequestOK
<1> QED
  BY <1>2, <1>5 DEF Party

-----------------------------------------------------------------------------
(* The steps of the chat.                                                  *)

LEMMA ChatInits == ChatInit => ChatInductive
<1> SUFFICES ASSUME ChatInit
             PROVE  ChatInductive
  OBVIOUS
<1>1. NoMessage \in Message /\ Silent \in Sending /\ 0 \in 0..1
  BY ChatAssumption, RidesAssumption DEF NoMessage, Message, Silent, Sending, MaybeUser
<1>2. \A m \in Messages : ~Stored(m)
  BY DEF ChatInit, Stored, NoMessage
<1>3. ChatTypeOK
  BY <1>1 DEF ChatInit, ChatTypeOK, MaybeUser
<1>4. SendingOK
  BY DEF ChatInit, SendingOK, Silent
<1> QED
  BY <1>2, <1>3, <1>4 DEF ChatInductive

\* A step of a ride's handlers or workers, and the death of the server.
LEMMA RidesMove ==
  ASSUME ChatInductive, StateGrows, UNCHANGED <<message, heard>>,
         \/ UNCHANGED <<socket, sending>>
         \/ /\ socket' = [s \in Sockets |-> NoUser]
            /\ sending' = [s \in Sockets |-> Silent]
  PROVE  ChatInductive'
<1>1. Silent \in Sending /\ Silent.step = "idle"
  BY ChatAssumption DEF Silent, Sending, MaybeUser
<1>2. \A m \in Messages : Stored(m)' <=> Stored(m)
  BY DEF Stored
<1>3. ChatTypeOK'
  BY <1>1, <1>2 DEF ChatInductive, ChatTypeOK, MaybeUser
<1>4. ASSUME NEW m \in Messages, Stored(m)
      PROVE  Party(message[m].ride, message[m].sender)'
  <2>1. PICK r, u : r = message[m].ride /\ u = message[m].sender
    OBVIOUS
  <2>2. Party(r, u)
    BY <1>4, <2>1 DEF ChatInductive
  <2>3. Party(r, u)'
    BY <2>2, PartyStays
  <2> QED
    BY <2>1, <2>3
<1>5. ASSUME NEW s \in Sockets, sending'[s].step = "insert"
      PROVE  Party(sending[s].ride, sending[s].who)'
  <2>1. sending' = sending
    BY <1>1, <1>5
  <2>2. PICK r, u : r = sending[s].ride /\ u = sending[s].who
    OBVIOUS
  <2>3. Party(r, u)
    BY <1>5, <2>1, <2>2 DEF ChatInductive, SendingOK
  <2>4. Party(r, u)'
    BY <2>3, PartyStays
  <2> QED
    BY <2>1, <2>2, <2>4
<1>6. SendingOK'
  <2>1. CASE sending' = sending
    BY <1>5, <2>1 DEF ChatInductive, SendingOK, Stored
  <2>2. CASE sending' = [s \in Sockets |-> Silent]
    BY <1>1, <2>2 DEF SendingOK
  <2> QED
    BY <2>1, <2>2
<1> QED
  BY <1>2, <1>3, <1>4, <1>6 DEF ChatInductive

\* A step of the chat leaves both tables of the rides alone.
LEMMA ChatMoves ==
  ASSUME Inductive, ChatInductive, ChatStep
  PROVE  ChatInductive'
<1> USE DEF ChatInductive
<1>1. UNCHANGED <<ride, request>>
  BY DEF ChatStep, Connect, Disconnect, SendMessage, CreateMessage, Emit, SendFails, vars
<1>2. \A r, u : Party(r, u)' <=> Party(r, u)
  BY <1>1 DEF Party
<1>3. /\ socket \in [Sockets -> MaybeUser]
      /\ message \in [Messages -> Message]
      /\ sending \in [Sockets -> Sending]
      /\ heard \in [Messages -> 0..1]
      /\ \A m \in Messages : heard[m] = 1 => Stored(m)
  BY DEF ChatTypeOK
<1>4. Silent \in Sending /\ Silent.step = "idle"
  BY ChatAssumption DEF Silent, Sending, MaybeUser
\* Nothing is stored or heard, and one socket at most is about to do less.
<1>5. ASSUME UNCHANGED <<message, heard>>, socket' \in [Sockets -> MaybeUser],
             NEW s \in Sockets,
             \/ sending' = sending
             \/ sending' = [sending EXCEPT ![s] = Silent]
             \/ \E r \in Rides, u \in Users :
                  /\ Party(r, u)
                  /\ sending' = [sending EXCEPT ![s] =
                       [step |-> "insert", ride |-> r, who |-> u, id |-> 0]]
      PROVE  ChatInductive'
  <2>1. \A m \in Messages : Stored(m)' <=> Stored(m)
    BY <1>5 DEF Stored
  <2>2. /\ sending' \in [Sockets -> Sending]
        /\ \A t \in Sockets : sending'[t].step = "emit" => sending'[t] = sending[t]
        /\ \A t \in Sockets : sending'[t].step = "insert" =>
             Party(sending'[t].ride, sending'[t].who)
    <3>1. CASE sending' = sending
      BY <1>3, <3>1 DEF SendingOK
    <3>2. CASE sending' = [sending EXCEPT ![s] = Silent]
      BY <1>3, <1>4, <3>2 DEF SendingOK
    <3>3. ASSUME NEW r \in Rides, NEW u \in Users, Party(r, u),
                 sending' = [sending EXCEPT ![s] =
                       [step |-> "insert", ride |-> r, who |-> u, id |-> 0]]
          PROVE  /\ sending' \in [Sockets -> Sending]
                 /\ \A t \in Sockets : sending'[t].step = "emit" => sending'[t] = sending[t]
                 /\ \A t \in Sockets : sending'[t].step = "insert" =>
                      Party(sending'[t].ride, sending'[t].who)
      <4>1. [step |-> "insert", ride |-> r, who |-> u, id |-> 0] \in Sending
        BY ChatAssumption DEF Sending, MaybeUser
      <4> QED
        BY <1>3, <3>3, <4>1 DEF SendingOK
    <3> QED
      BY <1>5, <3>1, <3>2, <3>3
  <2>3. ChatTypeOK'
    BY <1>3, <1>5, <2>1, <2>2 DEF ChatTypeOK
  <2>4. SendingOK'
    BY <1>2, <1>5, <2>1, <2>2 DEF SendingOK
  <2> QED
    BY <1>2, <1>5, <2>1, <2>3, <2>4
<1>6. ASSUME NEW s \in Sockets, NEW u \in Users, Connect(s, u)
      PROVE  ChatInductive'
  <2>1. socket' \in [Sockets -> MaybeUser]
    BY <1>3, <1>6 DEF Connect, MaybeUser
  <2> QED
    BY <1>5, <1>6, <2>1 DEF Connect
<1>7. ASSUME NEW s \in Sockets, Disconnect(s)
      PROVE  ChatInductive'
  <2>1. socket' \in [Sockets -> MaybeUser]
    BY <1>3, <1>7 DEF Disconnect, MaybeUser
  <2> QED
    BY <1>5, <1>7, <2>1 DEF Disconnect
<1>8. ASSUME NEW s \in Sockets, NEW r \in Rides, SendMessage(s, r)
      PROVE  ChatInductive'
  <2>1. PICK u \in Users : u = socket[s]
    BY <1>3, <1>8 DEF SendMessage, MaybeUser
  <2>2. Party(r, u)
    BY <1>8, <2>1, SendersAreParties DEF SendMessage
  <2> QED
    BY <1>3, <1>5, <1>8, <2>1, <2>2 DEF SendMessage
<1>9. ASSUME NEW s \in Sockets, SendFails(s)
      PROVE  ChatInductive'
  BY <1>3, <1>5, <1>9 DEF SendFails
<1>10. ASSUME NEW s \in Sockets, NEW m \in Messages, CreateMessage(s, m)
       PROVE  ChatInductive'
  <2>1. PICK r, u : r = sending[s].ride /\ u = sending[s].who
    OBVIOUS
  <2>2. Party(r, u) /\ r \in Rides /\ u \in Users /\ ~Stored(m)
    BY <1>10, <2>1 DEF CreateMessage, SendingOK, Party
  <2>3. message' = [message EXCEPT ![m] = [ride |-> r, sender |-> u, createdAt |-> now]]
    BY <1>10, <2>1 DEF CreateMessage
  <2>4. /\ message' \in [Messages -> Message]
        /\ Stored(m)' /\ \A n \in Messages : n # m => (Stored(n)' <=> Stored(n))
    <3>1. now \in 0..MaxTime
      BY DEF Inductive, TypeOK
    <3>2. [ride |-> r, sender |-> u, createdAt |-> now] \in Message
      BY <2>2, <3>1 DEF Message, MaybeUser
    <3> QED
      BY <1>3, <2>2, <2>3, <3>2, RidesAssumption DEF Stored
  <2>5. /\ sending' \in [Sockets -> Sending]
        /\ sending'[s].step = "emit" /\ sending'[s].id = m
        /\ \A t \in Sockets : t # s => sending'[t] = sending[t]
    <3>1. sending' = [sending EXCEPT ![s] = [@ EXCEPT !.step = "emit", !.id = m]]
      BY <1>10 DEF CreateMessage
    <3>2. m \in 0..MaxMessages
      BY ChatAssumption DEF Messages
    <3>3. \A x \in Sending : [x EXCEPT !.step = "emit", !.id = m] \in Sending
      BY <3>2 DEF Sending
    <3>4. \A x \in Sending : /\ [x EXCEPT !.step = "emit", !.id = m].step = "emit"
                             /\ [x EXCEPT !.step = "emit", !.id = m].id = m
      BY DEF Sending
    <3> QED
      BY <1>3, <3>1, <3>3, <3>4
  <2>6. UNCHANGED <<socket, heard>>
    BY <1>10 DEF CreateMessage
  <2>7. heard[m] = 0
    BY <1>3, <2>2
  <2>8. ChatTypeOK'
    BY <1>3, <2>4, <2>5, <2>6 DEF ChatTypeOK
  <2>9. SendingOK'
    <3>1. ASSUME NEW t \in Sockets, sending'[t].step = "insert"
          PROVE  Party(sending[t].ride, sending[t].who)'
      BY <1>2, <2>5, <3>1 DEF SendingOK
    <3>2. ASSUME NEW t \in Sockets, sending'[t].step = "emit"
          PROVE  /\ sending'[t].id \in Messages
                 /\ Stored(sending[t].id)' /\ heard'[sending'[t].id] = 0
                 /\ t # s => sending'[t].id # m
      <4>1. CASE t = s
        BY <2>4, <2>5, <2>6, <2>7, <4>1 DEF Stored
      <4>2. CASE t # s
        <5>1. /\ sending'[t] = sending[t] /\ sending[t].id \in Messages
              /\ Stored(sending[t].id) /\ heard[sending[t].id] = 0
          BY <2>5, <3>2, <4>2 DEF SendingOK
        <5> QED
          BY <2>2, <2>4, <2>6, <4>2, <5>1 DEF Stored
      <4> QED
        BY <4>1, <4>2
    <3>3. ASSUME NEW t \in Sockets, NEW q \in Sockets, t # q,
                 sending'[t].step = "emit", sending'[q].step = "emit"
          PROVE  sending'[t].id # sending'[q].id
      BY <2>5, <3>2, <3>3 DEF SendingOK
    <3> QED
      BY <3>1, <3>2, <3>3 DEF SendingOK
  <2>10. ASSUME NEW n \in Messages, Stored(n)'
         PROVE  Party(message[n].ride, message[n].sender)'
    BY <1>2, <1>3, <2>2, <2>3, <2>4, <2>10
  <2> QED
    BY <2>8, <2>9, <2>10
<1>11. ASSUME NEW s \in Sockets, Emit(s)
       PROVE  ChatInductive'
  <2>1. PICK m \in Messages : m = sending[s].id /\ Stored(m) /\ heard[m] = 0
    BY <1>11 DEF Emit, SendingOK
  <2>2. heard' = [heard EXCEPT ![m] = 1]
    BY <1>11, <2>1 DEF Emit
  <2>3. sending' = [sending EXCEPT ![s] = Silent] /\ UNCHANGED <<socket, message>>
    BY <1>11 DEF Emit, Sent
  <2>4. \A n \in Messages : Stored(n)' <=> Stored(n)
    BY <2>3 DEF Stored
  <2>5. /\ sending' \in [Sockets -> Sending] /\ sending'[s].step = "idle"
        /\ \A t \in Sockets : t # s => sending'[t] = sending[t]
    BY <1>3, <1>4, <2>3
  <2>6. ChatTypeOK'
    BY <1>3, <2>1, <2>2, <2>3, <2>4, <2>5 DEF ChatTypeOK
  <2>7. ASSUME NEW t \in Sockets, sending'[t].step = "emit"
        PROVE  /\ sending'[t] = sending[t] /\ sending[t].id \in Messages
               /\ Stored(sending[t].id) /\ heard'[sending[t].id] = 0
    BY <1>3, <1>11, <2>1, <2>2, <2>5, <2>7 DEF SendingOK, Emit
  <2>8. \A t \in Sockets : sending'[t].step = "insert" =>
          sending'[t] = sending[t]
    BY <2>5
  <2>9. SendingOK'
    BY <1>2, <2>4, <2>7, <2>8 DEF SendingOK
  <2> QED
    BY <1>2, <2>3, <2>4, <2>6, <2>9
<1> QED
  BY <1>6, <1>7, <1>8, <1>9, <1>10, <1>11 DEF ChatStep

\* In every reachable state messages and senders are what they were checked to be.
THEOREM ChatInvariant == ChatSpec => [](Inductive /\ ChatInductive)
<1>1. ChatInit => Inductive /\ ChatInductive
  BY InductiveInit, ChatInits DEF ChatInit
<1>2. ASSUME Inductive, ChatInductive, [ChatNext]_allVars
      PROVE  Inductive' /\ ChatInductive'
  <2>1. CASE ChatStep
    <3>1. UNCHANGED vars
      BY <2>1 DEF ChatStep, Connect, Disconnect, SendMessage, CreateMessage, Emit, SendFails
    <3> QED
      BY <1>2, <2>1, <3>1, InductiveStep, ChatMoves
  <2>2. CASE (Next /\ UNCHANGED chatVars) \/ UNCHANGED allVars
    <3>1. [Next]_vars /\ UNCHANGED <<socket, sending, message, heard>>
      BY <2>2 DEF allVars, chatVars
    <3> QED
      BY <1>2, <3>1, InductiveStep, RidesMove
  <2>3. CASE ServerDies
    <3>1. Next
      BY <2>3 DEF ServerDies, Next
    <3> QED
      BY <1>2, <2>3, <3>1, InductiveStep, RidesMove DEF ServerDies
  <2> QED
    BY <1>2, <2>1, <2>2, <2>3 DEF ChatNext
<1> QED
  BY <1>1, <1>2, PTL DEF ChatSpec

\* Values stay in their types: a room hears a stored message once or not at all.
THEOREM MessagesAreHeardOnce == ChatSpec => []ChatTypeOK
<1>1. ChatInductive => ChatTypeOK
  BY DEF ChatInductive
<1> QED
  BY <1>1, ChatInvariant, PTL

\* Whoever has written in a ride's chat is its creator or asked for it and was
\* answered, and both its sides are taken.
THEOREM OnlyPartiesTalk == ChatSpec => []PartiesTalk
<1>1. Inductive /\ ChatInductive => PartiesTalk
  <2> SUFFICES ASSUME Inductive, ChatInductive, NEW m \in Messages, Stored(m),
                      NEW r, r = message[m].ride, NEW u, u = message[m].sender
               PROVE  /\ u = ride[r].creator \/ request[r][u] \in {"ACCEPTED", "DECLINED"}
                      /\ \A side \in Side : ride[r].on[side] # NoUser
    BY DEF PartiesTalk
  <2>1. Party(r, u) /\ RowOK(ride[r])
    BY DEF ChatInductive, Party, Inductive
  <2>2. \A side \in Side : side = CreatorSide(ride[r].type) \/ side = OpenSide(ride[r].type)
    BY DEF Side, CreatorSide, OpenSide
  <2>3. \A side \in Side : ride[r].on[side] # NoUser
    BY <2>1, <2>2, NoUserAssumption DEF RowOK, Party, Paired
  <2> QED
    BY <2>1, <2>3 DEF Party, Answered
<1> QED
  BY <1>1, ChatInvariant, PTL

-----------------------------------------------------------------------------
(* Pages, of the chat and of every other list.                             *)

\* Whatever page size a client asks for, the pages cut the list of any length
\* into parts that cover it and do not overlap.
THEOREM PagesMakeUpTheList ==
  \A total \in Nat, limit \in Int : PagesPartition(total, limit)
<1> SUFFICES ASSUME NEW total \in Nat, NEW limit \in Int, NEW i \in 1..total
             PROVE  \E p \in 1..TotalPages(total, limit) :
                      /\ OnPage(i, p, limit)
                      /\ \A q \in 1..TotalPages(total, limit) :
                           OnPage(i, q, limit) => q = p
    BY DEF PagesPartition
<1> DEFINE L == LimitOf(limit)
           p == ((i - 1) \div L) + 1
           t == TotalPages(total, limit)
<1>1. L \in Nat \ {0}
    BY DEF LimitOf
<1>2. /\ (i - 1) \div L \in Nat
      /\ L * ((i - 1) \div L) <= i - 1
      /\ i - 1 < L * ((i - 1) \div L) + L
    <2>1. i - 1 \in Nat
        OBVIOUS
    <2> QED
        BY <1>1, <2>1, Division
<1>3. /\ t \in Nat
      /\ L * t <= total + L - 1
      /\ total + L - 1 < L * t + L
    <2>1. total + L - 1 \in Nat /\ t = (total + L - 1) \div L
        BY <1>1 DEF TotalPages
    <2> HIDE DEF L, t
    <2> QED
        BY <1>1, <2>1, Division
<1> HIDE DEF L, t
<1>4. \A q \in 1..t : Skip(q, limit) = (q - 1) * L
    BY <1>3 DEF Skip, PageOf, L
<1>5. p \in 1..t
    <2>1. p \in Nat /\ p >= 1
        BY <1>2
    <2>2. ASSUME t < p PROVE FALSE
        <3>1. t * L <= (p - 1) * L
            BY <1>1, <1>3, <2>1, <2>2, NextMultiple
        <3>2. total <= i - 1
            BY <1>1, <1>2, <1>3, <3>1
        <3> QED
            BY <3>2
    <2> QED
        BY <1>3, <2>1, <2>2
<1>6. OnPage(i, p, limit)
    BY <1>1, <1>2, <1>4, <1>5 DEF OnPage, L
<1>7. ASSUME NEW q \in 1..t, OnPage(i, q, limit)
      PROVE  q = p
    <2>1. (q - 1) * L < i /\ i <= (q - 1) * L + L
        BY <1>4, <1>7 DEF OnPage, L
    <2>2. (p - 1) * L < i /\ i <= (p - 1) * L + L
        BY <1>4, <1>5, <1>6 DEF OnPage, L
    <2>3. p \in Int /\ q \in Int
        BY <1>3, <1>5
    <2>4. ASSUME q < p PROVE FALSE
        <3>1. q * L <= (p - 1) * L
            BY <1>1, <2>3, <2>4, NextMultiple
        <3> HIDE DEF p
        <3> QED
            BY <1>1, <2>1, <2>2, <2>3, <3>1
    <2>5. ASSUME p < q PROVE FALSE
        <3>1. p * L <= (q - 1) * L
            BY <1>1, <2>3, <2>5, NextMultiple
        <3> HIDE DEF p
        <3> QED
            BY <1>1, <2>1, <2>2, <2>3, <3>1
    <2> HIDE DEF p
    <2> QED
        BY <2>3, <2>4, <2>5
<1> QED
    BY <1>5, <1>6, <1>7 DEF t

-----------------------------------------------------------------------------
(* The conversation.                                                       *)

\* The ORDER BY of the chat is one: it lists the messages of the last week,
\* each once, the last one first.
LEMMA HistoryListed ==
  ASSUME NEW r \in Rides
  PROVE  /\ History(r) \in SetToSeqs(Recent(r))
         /\ \A i, j \in 1..Len(History(r)) : i < j => History(r)[i] > History(r)[j]
         /\ IsFiniteSet(Recent(r)) /\ Recent(r) \subseteq Int
<1>0. PICK S : S = Recent(r)
  OBVIOUS
<1>1. IsFiniteSet(S) /\ S \subseteq Int
  <2>1. S \in SUBSET (1..MaxMessages) /\ 1 \in Int /\ MaxMessages \in Int
    BY <1>0, ChatAssumption DEF Recent, Messages
  <2>2. IsFiniteSet(1..MaxMessages)
    BY <2>1, FS_Interval
  <2>3. IsFiniteSet(S)
    BY <2>1, <2>2, FS_Subset, Zenon
  <2>4. S \subseteq Int
    BY <2>1
  <2> QED
    BY <2>3, <2>4
<1>2. PICK R : R = {pair \in S \X S : pair[1] > pair[2]}
  OBVIOUS
<1>3. \A m, n \in S : <<m, n>> \in R <=> m > n
  BY <1>2
<1>4. Orders(R, S)
  <2>1. \A m, n \in S : m # n => m > n \/ n > m
    BY <1>1
  <2>2. \A l, m, n \in S : l > m /\ m > n => l > n
    BY <1>1
  <2> QED
    BY <1>3, <2>1, <2>2, Zenon DEF Orders
<1>5. \A n \in S : <<n, n>> \notin R
  BY <1>1, <1>3
<1>6. PICK list \in SetToSeqs(S) :
        \A i, j \in 1..Len(list) : i < j => <<list[i], list[j]>> \in R
  BY <1>1, <1>4, <1>5, OrderedListExists
<1>7. ASSUME NEW i \in 1..Len(list), NEW j \in 1..Len(list), i < j
      PROVE  list[i] > list[j]
  <2>1. list \in Seq(S)
    BY <1>1, ListsOfSet
  <2> QED
    BY <1>3, <1>6, <1>7, <2>1, ElementOfSeq
<1>8. History(r) = CHOOSE l \in SetToSeqs(S) :
                     \A i, j \in 1..Len(l) : i < j => l[i] > l[j]
  BY <1>0, Zenon DEF History, Listed
<1> QED
  BY <1>0, <1>1, <1>6, <1>7, <1>8, Zenon

\* Whatever page size a client asks for, whoever reads the pages from the last
\* to the first reads every message of the last week once, in order.
LEMMA StoryOfAnyPageSize ==
  ASSUME NEW r \in Rides, NEW limit \in Int, NEW pages, NEW story,
         pages = TotalPages(Cardinality(Recent(r)), limit),
         story = FlattenSeq([p \in 1..pages |-> PageOfMessages(r, pages + 1 - p, limit)])
  PROVE  /\ ToSet(story) = Recent(r)
         /\ \A i, j \in 1..Len(story) : i < j => story[i] < story[j]
<1>1. PICK S, list, n : S = Recent(r) /\ list = History(r) /\ n = Len(History(r))
  OBVIOUS
<1>2. /\ list \in SetToSeqs(S) /\ IsFiniteSet(S) /\ S \subseteq Int
      /\ \A i, j \in 1..n : i < j => list[i] > list[j]
  BY <1>1, HistoryListed
<1>3. /\ list \in Seq(S) /\ n \in Nat /\ n = Cardinality(S)
      /\ \A x \in S : \E i \in 1..n : list[i] = x
      /\ \A i \in 1..n : list[i] \in S
  BY <1>1, <1>2, ListsOfSet, ElementOfSeq
<1>4. story = Reverse(list)
  <2>1. pages = TotalPages(Len(list), limit)
    BY <1>1, <1>3
  <2>2. FlattenSeq([p \in 1..pages |-> Reverse(PageRows(list, pages + 1 - p, limit))])
          = Reverse(list)
    BY <1>3, <2>1, PagesFlattenBackwards
  <2> QED
    BY <1>1, <2>2 DEF PageOfMessages
<1>5. /\ story \in Seq(S) /\ Len(story) = n
      /\ \A i \in 1..n : story[i] = list[n - i + 1]
  <2>1. /\ Reverse(list) \in Seq(S) /\ Len(Reverse(list)) = Len(list)
        /\ \A i \in 1..Len(list) : Reverse(list)[i] = list[Len(list) - i + 1]
    BY <1>3, Reversed
  <2>2. Len(list) = n
    BY <1>1
  <2> QED
    BY <1>4, <2>1, <2>2, Zenon
<1>6. \A i \in 1..n : n - i + 1 \in 1..n /\ n - (n - i + 1) + 1 = i
  BY <1>3
<1>7. ASSUME NEW i \in 1..n, NEW j \in 1..n, i < j
      PROVE  story[i] < story[j]
  <2>1. n - j + 1 < n - i + 1
    BY <1>3, <1>7
  <2>2. list[n - j + 1] > list[n - i + 1]
    BY <1>2, <1>6, <2>1
  <2>3. list[n - j + 1] \in Int /\ list[n - i + 1] \in Int
    BY <1>2, <1>3, <1>6
  <2> QED
    BY <1>5, <2>2, <2>3
<1>8. ToSet(story) = S
  <2>1. DOMAIN story = 1..n
    BY <1>5, LenProperties
  <2>2. ASSUME NEW x \in S
        PROVE  \E i \in 1..n : story[i] = x
    <3>1. PICK i \in 1..n : list[i] = x
      BY <1>3
    <3>2. PICK j \in 1..n : j = n - i + 1 /\ n - j + 1 = i
      BY <1>6
    <3>3. story[j] = list[i]
      BY <1>5, <3>2
    <3> QED
      BY <3>1, <3>3
  <2>3. \A i \in 1..n : story[i] \in S
    BY <1>3, <1>5, <1>6
  <2> QED
    BY <2>1, <2>2, <2>3 DEF ToSet
<1> QED
  BY <1>1, <1>5, <1>7, <1>8

\* However the messages of a ride came in, its pages tell the whole story.
THEOREM StoriesAreTold == ChatSpec => []PagesTellTheStory
<1>1. PagesTellTheStory
  <2>1. \A limit \in 0..2 : limit \in Int
    OBVIOUS
  <2> QED
    BY <2>1, StoryOfAnyPageSize, Zenon DEF PagesTellTheStory
<1> QED
  BY <1>1, PTL
=============================================================================
