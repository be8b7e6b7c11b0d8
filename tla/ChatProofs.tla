------------------------------ MODULE ChatProofs ------------------------------
(***************************************************************************)
(* Proofs about Chat for any number of users, requests and messages: who   *)
(* is a member, what becomes of messages, and what a page shows.           *)
(***************************************************************************)
EXTENDS Chat, FiniteSetTheorems, SequenceTheorems, TLAPS

Creating == [pc : {"creating"}, user : Peers]
Sending == [pc : {"committing", "answering"}, user : Users, message : Ids]
Editing == [pc : {"editing"}, message : Ids, read : Messages]
Reacting == [pc : {"reacting"}, user : Users, message : Ids, found : BOOLEAN]
Errands == {Idle} \cup Creating \cup Sending \cup Editing \cup Reacting

RoomTypes ==
  /\ worker \in [Workers -> Errands]
  /\ msg \in [Ids -> {Absent} \cup Messages] /\ ids \in Nat

\* What a request does is by its place.
LEMMA ErrandOf ==
  ASSUME RoomTypes, NEW w \in Workers
  PROVE  /\ At(w, "committing") \/ At(w, "answering") =>
              /\ worker[w] \in Sending /\ worker[w].user \in Users
              /\ worker[w].message \in Ids
         /\ At(w, "editing") =>
              /\ worker[w].message \in Ids /\ worker[w].read \in Messages
  BY DEF RoomTypes, Errands, At, Idle, Creating, Sending, Editing, Reacting

\* A message that is there is one.
LEMMA HereIs ==
  ASSUME RoomTypes
  PROVE  /\ \A m \in Committed : m \in Ids /\ msg[m] \in Messages
         /\ \A m \in Ids : m \in Committed <=> Here(m)
         /\ \A n \in Messages : n # Absent
  BY AbsentAssumption DEF RoomTypes, Here, Committed, AbsentAssumption

\* The request that moved, and no other one.
Turns(w, n) == worker' = [worker EXCEPT ![w] = n]

LEMMA OneTurns ==
  ASSUME RoomTypes, NEW w \in Workers, NEW n \in Errands, Turns(w, n)
  PROVE  /\ worker' \in [Workers -> Errands] /\ worker'[w] = n
         /\ \A v \in Workers : v # w => worker'[v] = worker[v]
  BY DEF RoomTypes, Turns

\* Requests that send nothing and change no message: they start, or they end.
Plain(w) ==
  \/ CreatePrivateRoom(w) \/ AnswerMessage(w) \/ WriteReaction(w)
  \/ \E u \in Users : StartPrivateChat(w, u)
  \/ \E u \in Users, m \in Ids : ToggleReaction(w, u, m)

LEMMA PlainMoves ==
  ASSUME RoomTypes, NEW w \in Workers, Plain(w)
  PROVE  /\ UNCHANGED <<msg, ids, edits, inOrder>>
         /\ \/ ~At(w, "idle") /\ Turns(w, Idle) /\ serial' = serial
            \/ /\ serial' = (serial /\ \A v \in Workers : At(v, "idle"))
               /\ \E n \in {Idle} \cup Creating \cup Reacting : Turns(w, n)
<1>1. CASE CreatePrivateRoom(w) \/ AnswerMessage(w) \/ WriteReaction(w)
  BY <1>1 DEF CreatePrivateRoom, AnswerMessage, WriteReaction, Over, Turns,
     At, Idle, log, history
<1>2. ASSUME NEW u \in Users, StartPrivateChat(w, u)
      PROVE  /\ UNCHANGED <<msg, ids, edits, inOrder>>
             /\ serial' = (serial /\ \A v \in Workers : At(v, "idle"))
             /\ \E n \in {Idle} \cup Creating \cup Reacting : Turns(w, n)
  <2>1. [pc |-> "creating", user |-> u] \in Creating
    BY <1>2 DEF StartPrivateChat, Creating
  <2> QED BY <1>2, <2>1 DEF StartPrivateChat, Starts, Turns, log
<1>3. ASSUME NEW u \in Users, NEW m \in Ids, ToggleReaction(w, u, m)
      PROVE  /\ UNCHANGED <<msg, ids, edits, inOrder>>
             /\ serial' = (serial /\ \A v \in Workers : At(v, "idle"))
             /\ \E n \in {Idle} \cup Creating \cup Reacting : Turns(w, n)
  <2>1. [pc |-> "reacting", user |-> u, message |-> m, found |-> <<"reaction", m, u>> \in marks]
          \in Reacting
    BY DEF Reacting
  <2> QED BY <1>3, <2>1 DEF ToggleReaction, Starts, Turns, log
<1> QED BY <1>1, <1>2, <1>3 DEF Plain

\* A message is sent, then committed.
LEMMA SendMoves ==
  ASSUME RoomTypes, NEW w \in Workers
  PROVE  /\ \A u \in Users : CreateMessage(w, u) =>
              /\ room /\ u \in members /\ ids + 1 \in Ids /\ ids' = ids + 1
              /\ UNCHANGED <<room, members, msg, edits, inOrder>>
              /\ serial' = (serial /\ \A v \in Workers : At(v, "idle"))
              /\ [pc |-> "committing", user |-> u, message |-> ids + 1] \in Sending
              /\ Turns(w, [pc |-> "committing", user |-> u, message |-> ids + 1])
         /\ CommitMessage(w) =>
              /\ At(w, "committing") /\ worker[w].message \in Ids
              /\ worker[w].user \in Users
              /\ UNCHANGED <<room, members, ids, edits, serial>>
              /\ [by |-> worker[w].user, status |-> "SENT", dead |-> FALSE, text |-> 0]
                   \in Messages
              /\ msg' = [msg EXCEPT ![worker[w].message] =
                           [by |-> worker[w].user, status |-> "SENT", dead |-> FALSE, text |-> 0]]
              /\ [worker[w] EXCEPT !.pc = "answering"] \in Sending
              /\ Turns(w, [worker[w] EXCEPT !.pc = "answering"])
              /\ inOrder' = (inOrder /\ \A n \in Committed : n < worker[w].message)
<1>1. ASSUME NEW u \in Users, CreateMessage(w, u)
      PROVE  [pc |-> "committing", user |-> u, message |-> ids + 1] \in Sending
  BY <1>1 DEF CreateMessage, Sending
<1>2. ASSUME CommitMessage(w)
      PROVE  /\ worker[w] \in Sending /\ worker[w].user \in Users
             /\ worker[w].message \in Ids
             /\ [worker[w] EXCEPT !.pc = "answering"] \in Sending
             /\ [by |-> worker[w].user, status |-> "SENT", dead |-> FALSE, text |-> 0]
                   \in Messages
  <2>1. worker[w] \in Sending /\ worker[w].user \in Users /\ worker[w].message \in Ids
    BY <1>2, ErrandOf DEF CommitMessage
  <2> QED BY <2>1 DEF Sending, Messages
<1> QED BY <1>1, <1>2 DEF CreateMessage, CommitMessage, Starts, Goes, Turns,
      chatRoom

\* What becomes of a message that is edited or deleted.
Edited(a) == [a EXCEPT !.text = @ + 1, !.status = "EDITED"]
Deleted(a) == [a EXCEPT !.status = "DELETED", !.dead = TRUE]

LEMMA BecomesIs ==
  ASSUME NEW a \in Messages
  PROVE  /\ Edited(a) \in Messages /\ Deleted(a) \in Messages
         /\ Edited(a).by = a.by /\ Edited(a).dead = a.dead /\ Edited(a).text = a.text + 1
         /\ Deleted(a).by = a.by /\ Deleted(a).dead = TRUE /\ Deleted(a).text = a.text
         /\ Deleted(a).status = "DELETED"
<1>1. Edited(a) \in Messages
  <2>1. \A t \in Nat : [a EXCEPT !.text = t, !.status = "EDITED"] \in Messages
    BY DEF Messages
  <2>2. a.text + 1 \in Nat
    BY DEF Messages
  <2> QED BY <2>1, <2>2 DEF Edited
<1>2. Deleted(a) \in Messages
  <2>1. \A b \in BOOLEAN : [a EXCEPT !.status = "DELETED", !.dead = b] \in Messages
    BY DEF Messages
  <2> QED BY <2>1 DEF Deleted
<1>3. Edited(a).by = a.by /\ Edited(a).dead = a.dead
  BY DEF Edited, Messages
<1>4. Edited(a).text = a.text + 1
  BY DEF Edited, Messages
<1>5. Deleted(a).by = a.by /\ Deleted(a).text = a.text
  BY DEF Deleted, Messages
<1>6. Deleted(a).dead = TRUE /\ Deleted(a).status = "DELETED"
  BY DEF Deleted, Messages
<1> QED BY <1>1, <1>2, <1>3, <1>4, <1>5, <1>6

\* A message is edited or deleted.
LEMMA EditMoves ==
  ASSUME RoomTypes
  PROVE  /\ \A w \in Workers, u \in Users, m \in Ids : UpdateMessage(w, u, m) =>
              /\ Here(m) /\ msg[m] \in Messages /\ msg[m].status # "DELETED"
              /\ UNCHANGED <<room, members, msg, ids, edits, inOrder>>
              /\ serial' = (serial /\ \A v \in Workers : At(v, "idle"))
              /\ [pc |-> "editing", message |-> m, read |-> msg[m]] \in Editing
              /\ Turns(w, [pc |-> "editing", message |-> m, read |-> msg[m]])
         /\ \A w \in Workers : UpdateMessageContent(w) =>
              /\ At(w, "editing") /\ worker[w].message \in Ids
              /\ edits' = edits \cup {<<worker[w].message, worker[w].read.text>>}
              /\ msg' = [msg EXCEPT ![worker[w].message] = Edited(msg[worker[w].message])]
              /\ Turns(w, Idle) /\ UNCHANGED <<room, members, ids, serial, inOrder>>
         /\ \A m \in Ids : DeleteMessage(m) =>
              /\ Here(m)
              /\ msg' = [msg EXCEPT ![m] = Deleted(msg[m])]
              /\ serial' = (serial /\ \A v \in Workers : At(v, "idle"))
              /\ UNCHANGED <<room, members, ids, edits, worker, inOrder>>
<1>1. ASSUME NEW w \in Workers, NEW u \in Users, NEW m \in Ids, UpdateMessage(w, u, m)
      PROVE  /\ Here(m) /\ msg[m] \in Messages /\ msg[m].status # "DELETED"
             /\ UNCHANGED <<room, members, msg, ids, edits, inOrder>>
             /\ serial' = (serial /\ \A v \in Workers : At(v, "idle"))
             /\ [pc |-> "editing", message |-> m, read |-> msg[m]] \in Editing
             /\ Turns(w, [pc |-> "editing", message |-> m, read |-> msg[m]])
  <2>1. Here(m) /\ msg[m] \in Messages
    BY <1>1, HereIs DEF UpdateMessage
  <2> QED BY <1>1, <2>1 DEF UpdateMessage, Editing, Starts, Turns, chatRoom, log
<1>2. ASSUME NEW w \in Workers, UpdateMessageContent(w)
      PROVE  /\ At(w, "editing") /\ worker[w].message \in Ids
             /\ edits' = edits \cup {<<worker[w].message, worker[w].read.text>>}
             /\ msg' = [msg EXCEPT ![worker[w].message] = Edited(msg[worker[w].message])]
             /\ Turns(w, Idle) /\ UNCHANGED <<room, members, ids, serial, inOrder>>
  <2>1. At(w, "editing") /\ worker[w].message \in Ids
    BY <1>2, ErrandOf DEF UpdateMessageContent
  <2> QED BY <1>2, <2>1 DEF UpdateMessageContent, Over, Turns, chatRoom,
        history, Edited
<1>3. ASSUME NEW m \in Ids, DeleteMessage(m)
      PROVE  /\ Here(m)
             /\ msg' = [msg EXCEPT ![m] = Deleted(msg[m])]
             /\ serial' = (serial /\ \A v \in Workers : At(v, "idle"))
             /\ UNCHANGED <<room, members, ids, edits, worker, inOrder>>
  BY <1>3 DEF DeleteMessage, chatRoom, Deleted
<1> QED BY <1>1, <1>2, <1>3

\* No request moves, and no message changes.
Calm == UNCHANGED <<msg, ids, edits, worker, serial, inOrder>>

\* Each kind of step.
LEMMA RoomKinds ==
  ASSUME RoomTypes, [Next]_vars
  PROVE  \/ \E w \in Workers : Plain(w) \/ CommitMessage(w) \/ UpdateMessageContent(w)
         \/ \E w \in Workers, u \in Users : CreateMessage(w, u)
         \/ \E w \in Workers, u \in Users, m \in Ids : UpdateMessage(w, u, m)
         \/ \E m \in Ids : DeleteMessage(m)
         \/ Calm
<1>1. ASSUME NEW w \in Workers, Step(w) \/ \E u \in Users : Request(w, u)
      PROVE  \/ Plain(w) \/ CommitMessage(w) \/ UpdateMessageContent(w)
             \/ \E u \in Users : CreateMessage(w, u)
             \/ \E u \in Users, m \in Ids : UpdateMessage(w, u, m)
  BY <1>1 DEF Step, Request, Plain
<1>2. ASSUME NEW u \in Users, JoinRoomByLink(u) \/ Browse(u) \/ MarkSeen(u)
      PROVE  Calm
  BY <1>2 DEF JoinRoomByLink, Browse, LoadLatest, LoadOlder, SendPoll,
     AnswerPoll, MarkSeen, log, history, Calm
<1>3. CASE UNCHANGED vars
  BY <1>3 DEF vars, log, history, Calm
<1> QED BY <1>1, <1>2, <1>3 DEF Next

\* What is edited, or answered with, is there.
HereInv ==
  \A w \in Workers : At(w, "editing") \/ At(w, "answering") =>
    Here(worker[w].message)

LEMMA RoomTypesStep ==
  ASSUME RoomTypes, HereInv, [Next]_vars
  PROVE  RoomTypes'
<1> USE AbsentAssumption DEF AbsentAssumption
<1>1. ASSUME NEW w \in Workers, NEW n \in Errands, Turns(w, n), UNCHANGED <<msg, ids>>
      PROVE  RoomTypes'
  BY <1>1, OneTurns DEF RoomTypes
<1>2. ASSUME NEW w \in Workers, Plain(w) PROVE RoomTypes'
  <2>1. UNCHANGED <<msg, ids>> /\ \E n \in Errands : Turns(w, n)
    BY <1>2, PlainMoves DEF Errands
  <2> QED BY <1>1, <2>1
<1>3. ASSUME NEW w \in Workers, NEW u \in Users, CreateMessage(w, u) PROVE RoomTypes'
  <2>1. /\ msg' = msg /\ ids' = ids + 1
        /\ \E n \in Errands : Turns(w, n)
    BY <1>3, SendMoves DEF Errands
  <2>2. worker' \in [Workers -> Errands]
    BY <2>1, OneTurns
  <2> QED BY <2>1, <2>2 DEF RoomTypes
<1>4. ASSUME NEW w \in Workers, CommitMessage(w) PROVE RoomTypes'
  <2>1. \E n \in Errands : Turns(w, n)
    BY <1>4, SendMoves DEF Errands
  <2>2. worker' \in [Workers -> Errands]
    BY <2>1, OneTurns
  <2>3. ids' = ids /\ \E m \in Ids, n \in Messages : msg' = [msg EXCEPT ![m] = n]
    BY <1>4, SendMoves
  <2> QED BY <2>2, <2>3 DEF RoomTypes
<1>5. ASSUME NEW w \in Workers, NEW u \in Users, NEW m \in Ids, UpdateMessage(w, u, m)
      PROVE  RoomTypes'
  <2>1. UNCHANGED <<msg, ids>> /\ \E n \in Errands : Turns(w, n)
    BY <1>5, EditMoves DEF Errands
  <2> QED BY <1>1, <2>1
<1>6. ASSUME NEW w \in Workers, UpdateMessageContent(w) PROVE RoomTypes'
  <2>1. /\ ids' = ids /\ Turns(w, Idle) /\ worker[w].message \in Ids
        /\ Here(worker[w].message)
        /\ msg' = [msg EXCEPT ![worker[w].message] = Edited(msg[worker[w].message])]
    BY <1>6, EditMoves DEF HereInv
  <2>2. Edited(msg[worker[w].message]) \in Messages
    BY <2>1, HereIs, BecomesIs
  <2>3. worker' \in [Workers -> Errands]
    BY <2>1, OneTurns DEF Errands
  <2> QED BY <2>1, <2>2, <2>3 DEF RoomTypes
<1>7. ASSUME NEW m \in Ids, DeleteMessage(m) PROVE RoomTypes'
  <2>1. /\ UNCHANGED <<ids, worker>> /\ Here(m)
        /\ msg' = [msg EXCEPT ![m] = Deleted(msg[m])]
    BY <1>7, EditMoves
  <2>2. Deleted(msg[m]) \in Messages
    BY <2>1, HereIs, BecomesIs
  <2> QED BY <2>1, <2>2 DEF RoomTypes
<1>8. CASE Calm
  BY <1>8 DEF Calm, RoomTypes
<1> QED BY <1>2, <1>3, <1>4, <1>5, <1>6, <1>7, <1>8, RoomKinds

\* What each step does to the messages: one is committed, edited or deleted, or none.
LEMMA MessageMoves ==
  ASSUME RoomTypes, HereInv, [Next]_vars
  PROVE  \/ UNCHANGED <<msg, edits>>
         \/ \E w \in Workers : CommitMessage(w)
         \/ \E w \in Workers :
              LET m == worker[w].message
              IN  /\ UpdateMessageContent(w)
                  /\ m \in Committed /\ msg' = [msg EXCEPT ![m] = Edited(msg[m])]
         \/ \E m \in Committed :
              DeleteMessage(m) /\ msg' = [msg EXCEPT ![m] = Deleted(msg[m])]
<1>1. ASSUME NEW w \in Workers, Plain(w) PROVE UNCHANGED <<msg, edits>>
  BY <1>1, PlainMoves
<1>2. ASSUME NEW w \in Workers, UpdateMessageContent(w)
      PROVE  LET m == worker[w].message
             IN  m \in Committed /\ msg' = [msg EXCEPT ![m] = Edited(msg[m])]
  BY <1>2, EditMoves, HereIs DEF HereInv
<1>3. ASSUME NEW m \in Ids, DeleteMessage(m)
      PROVE  m \in Committed /\ msg' = [msg EXCEPT ![m] = Deleted(msg[m])]
  BY <1>3, EditMoves, HereIs
<1>4. ASSUME NEW w \in Workers, NEW u \in Users, CreateMessage(w, u)
      PROVE  UNCHANGED <<msg, edits>>
  BY <1>4, SendMoves
<1>5. ASSUME NEW w \in Workers, NEW u \in Users, NEW m \in Ids, UpdateMessage(w, u, m)
      PROVE  UNCHANGED <<msg, edits>>
  BY <1>5, EditMoves
<1> QED BY <1>1, <1>2, <1>3, <1>4, <1>5, RoomKinds DEF Calm

\* Messages stay, their senders too; a new one is the request's.
LEMMA MessagesStay ==
  ASSUME RoomTypes, HereInv, [Next]_vars
  PROVE  /\ Committed \subseteq Committed'
         /\ \A m \in Committed' :
              \/ m \in Committed /\ msg'[m].by = msg[m].by
              \/ \E w \in Workers : /\ CommitMessage(w) /\ worker[w].message = m
                                    /\ msg'[m].by = worker[w].user
<1>1. CASE UNCHANGED <<msg, edits>>
  BY <1>1 DEF Committed, Here
<1>2. ASSUME NEW m \in Committed, NEW n \in Messages, n.by = msg[m].by,
             msg' = [msg EXCEPT ![m] = n]
      PROVE  /\ Committed \subseteq Committed'
             /\ \A k \in Committed' : k \in Committed /\ msg'[k].by = msg[k].by
  BY <1>2, HereIs DEF Committed, Here, RoomTypes
<1>3. ASSUME NEW w \in Workers, CommitMessage(w)
      PROVE  /\ Committed \subseteq Committed'
             /\ \A k \in Committed' :
                  \/ k \in Committed /\ msg'[k].by = msg[k].by
                  \/ worker[w].message = k /\ msg'[k].by = worker[w].user
  <2>1. PICK n \in Messages : /\ n.by = worker[w].user
                              /\ msg' = [msg EXCEPT ![worker[w].message] = n]
    BY <1>3, SendMoves
  <2> QED BY <2>1, HereIs DEF Committed, Here, RoomTypes
<1>4. ASSUME NEW m \in Committed
      PROVE  /\ Edited(msg[m]) \in Messages /\ Edited(msg[m]).by = msg[m].by
             /\ Deleted(msg[m]) \in Messages /\ Deleted(msg[m]).by = msg[m].by
  BY HereIs, BecomesIs
<1> QED BY <1>1, <1>2, <1>3, <1>4, MessageMoves

LEMMA HereStep ==
  ASSUME RoomTypes, HereInv, [Next]_vars
  PROVE  HereInv'
<1>1. \A m \in Ids : Here(m) => Here(m)'
  BY HereIs, MessagesStay DEF Committed
<1>2. \A w \in Workers : At(w, "editing") \/ At(w, "answering") =>
        worker[w].message \in Ids
  BY ErrandOf
<1>3. ASSUME NEW w \in Workers, NEW n \in Errands, Turns(w, n),
             n.pc \in {"editing", "answering"} => n.message \in Ids /\ Here(n.message)'
      PROVE  HereInv'
  <2>1. \A v \in Workers : worker'[v] = IF v = w THEN n ELSE worker[v]
    BY <1>3, OneTurns
  <2> QED BY <1>1, <1>2, <1>3, <2>1 DEF HereInv, At
<1>4. ASSUME NEW w \in Workers, Plain(w) PROVE HereInv'
  <2>1. \E n \in {Idle} \cup Creating \cup Reacting : Turns(w, n)
    BY <1>4, PlainMoves
  <2>2. \A n \in {Idle} \cup Creating \cup Reacting :
          n \in Errands /\ n.pc \notin {"editing", "answering"}
    BY DEF Errands, Creating, Reacting, Idle
  <2> QED BY <1>3, <2>1, <2>2
<1>5. ASSUME NEW w \in Workers, NEW u \in Users, CreateMessage(w, u) PROVE HereInv'
  <2>1. PICK n \in Sending : n.pc = "committing" /\ Turns(w, n)
    BY <1>5, SendMoves
  <2> QED BY <1>3, <2>1 DEF Errands
<1>6. ASSUME NEW w \in Workers, CommitMessage(w) PROVE HereInv'
  <2>1. PICK m \in Ids : m = worker[w].message
    BY <1>6, SendMoves
  <2>2. PICK n \in Sending : n.message = m /\ Turns(w, n)
    BY <1>6, <2>1, SendMoves, ErrandOf DEF Sending
  <2>3. PICK k \in Messages : msg' = [msg EXCEPT ![m] = k]
    BY <1>6, <2>1, SendMoves
  <2>4. Here(m)'
    BY <2>3, HereIs DEF Here, RoomTypes
  <2> QED BY <1>3, <2>2, <2>4 DEF Errands
<1>7. ASSUME NEW w \in Workers, NEW u \in Users, NEW m \in Ids, UpdateMessage(w, u, m)
      PROVE  HereInv'
  <2>1. PICK n \in Editing : n.message = m /\ Turns(w, n) /\ Here(m)
    BY <1>7, EditMoves
  <2> QED BY <1>1, <1>3, <2>1 DEF Errands
<1>8. ASSUME NEW w \in Workers, UpdateMessageContent(w) PROVE HereInv'
  <2>1. Turns(w, Idle) /\ Idle \in Errands /\ Idle.pc = "idle"
    BY <1>8, EditMoves DEF Errands, Idle
  <2> QED BY <1>3, <2>1
<1>9. CASE worker' = worker
  BY <1>1, <1>2, <1>9 DEF HereInv, At
<1> QED BY <1>4, <1>5, <1>6, <1>7, <1>8, <1>9, RoomKinds, EditMoves DEF Calm

\* A room that is there stays, with its members.
LEMMA RoomStays ==
  ASSUME [Next]_vars
  PROVE  /\ room => room' /\ members \subseteq members'
         /\ ~room /\ room' => members' = Peers
<1>1. ASSUME NEW w \in Workers, CreatePrivateRoom(w)
      PROVE  room' = TRUE /\ members' = IF room THEN members ELSE Peers
  BY <1>1 DEF CreatePrivateRoom
<1>2. ASSUME NEW w \in Workers, NEW u \in Users, StartPrivateChat(w, u)
      PROVE  room' = room /\ members \subseteq members'
  BY <1>2 DEF StartPrivateChat
<1>3. ASSUME NEW u \in Users, JoinRoomByLink(u)
      PROVE  room' = room /\ members \subseteq members'
  BY <1>3 DEF JoinRoomByLink
<1>4. ASSUME NEW w \in Workers,
             \/ CommitMessage(w) \/ AnswerMessage(w) \/ UpdateMessageContent(w)
             \/ WriteReaction(w)
             \/ \E u \in Users : \/ CreateMessage(w, u)
                                 \/ \E m \in Ids : \/ UpdateMessage(w, u, m)
                                                   \/ ToggleReaction(w, u, m)
      PROVE  UNCHANGED <<room, members>>
  BY <1>4 DEF CommitMessage, AnswerMessage, UpdateMessageContent,
     WriteReaction, CreateMessage, UpdateMessage, ToggleReaction, chatRoom
<1>5. ASSUME \/ \E u \in Users : Browse(u) \/ MarkSeen(u)
             \/ \E m \in Ids : DeleteMessage(m)
             \/ UNCHANGED vars
      PROVE  UNCHANGED <<room, members>>
  BY <1>5 DEF Browse, LoadLatest, LoadOlder, SendPoll, AnswerPoll,
     MarkSeen, DeleteMessage, chatRoom, vars
<1> DEFINE Grows == room' = room /\ members \subseteq members'
<1>6. ASSUME NEW w \in Workers, Step(w) \/ \E u \in Users : Request(w, u)
      PROVE  CreatePrivateRoom(w) \/ Grows
  BY <1>2, <1>4, <1>6 DEF Step, Request
<1>7. \/ \E w \in Workers : CreatePrivateRoom(w)
      \/ Grows
  BY <1>3, <1>5, <1>6 DEF Next
<1>8. ASSUME NEW w \in Workers, CreatePrivateRoom(w)
      PROVE  /\ room => room' /\ members \subseteq members'
             /\ ~room /\ room' => members' = Peers
  <2>1. CASE room
    BY <1>1, <1>8, <2>1
  <2>2. CASE ~room
    BY <1>1, <1>8, <2>2
  <2> QED BY <2>1, <2>2
<1>9. CASE Grows
  BY <1>9
<1> QED BY <1>7, <1>8, <1>9

\* Who is committing was, or has just taken the next id.
LEMMA CommittingAre ==
  ASSUME RoomTypes, [Next]_vars
  PROVE  \/ /\ \A w \in Workers :
                 At(w, "committing")' => At(w, "committing") /\ worker'[w] = worker[w]
            /\ ids' = ids
         \/ \E w \in Workers :
              /\ \A v \in Workers : v # w => worker'[v] = worker[v]
              /\ room /\ worker'[w].user \in members /\ worker'[w].message = ids + 1
              /\ ids' = ids + 1 /\ msg' = msg
<1>1. ASSUME NEW w \in Workers, NEW n \in Errands, Turns(w, n), n.pc # "committing"
      PROVE  \A v \in Workers :
               At(v, "committing")' => At(v, "committing") /\ worker'[v] = worker[v]
  <2>1. \A v \in Workers : worker'[v] = IF v = w THEN n ELSE worker[v]
    BY <1>1, OneTurns
  <2> QED BY <1>1, <2>1 DEF At
<1>2. \A n \in {Idle} \cup Creating \cup Reacting \cup Editing :
        n \in Errands /\ n.pc # "committing"
  BY DEF Errands, Creating, Reacting, Editing, Idle
<1>3. ASSUME NEW w \in Workers, Plain(w) \/ UpdateMessageContent(w)
      PROVE  ids' = ids /\ \E n \in {Idle} \cup Creating \cup Reacting \cup Editing : Turns(w, n)
  BY <1>3, PlainMoves, EditMoves
<1>4. ASSUME NEW w \in Workers, CommitMessage(w)
      PROVE  ids' = ids /\ \E n \in Errands : n.pc # "committing" /\ Turns(w, n)
  <2>1. PICK n \in Sending : n.pc = "answering" /\ Turns(w, n)
    BY <1>4, SendMoves, ErrandOf DEF Sending
  <2> QED BY <1>4, <2>1, SendMoves DEF Errands
<1>5. ASSUME NEW w \in Workers, NEW u \in Users, CreateMessage(w, u)
      PROVE  /\ \A v \in Workers : v # w => worker'[v] = worker[v]
             /\ room /\ worker'[w].user \in members /\ worker'[w].message = ids + 1
             /\ ids' = ids + 1 /\ msg' = msg
  <2>1. PICK n \in Sending : n.user = u /\ n.message = ids + 1 /\ Turns(w, n)
    BY <1>5, SendMoves
  <2>2. n \in Errands
    BY DEF Errands
  <2> QED BY <1>5, <2>1, <2>2, OneTurns, SendMoves
<1>6. ASSUME NEW w \in Workers, NEW u \in Users, NEW m \in Ids, UpdateMessage(w, u, m)
      PROVE  ids' = ids /\ \E n \in {Idle} \cup Creating \cup Reacting \cup Editing : Turns(w, n)
  BY <1>6, EditMoves
<1>7. CASE UNCHANGED <<worker, ids>>
  BY <1>7 DEF At
<1> QED BY <1>1, <1>2, <1>3, <1>4, <1>5, <1>6, <1>7, RoomKinds, EditMoves DEF Calm

\* Nobody writes in a room that is not there, and whoever writes is a member.
PInv ==
  /\ ~room => Committed = {} /\ \A w \in Workers : ~At(w, "committing")
  /\ \A w \in Workers : At(w, "committing") => worker[w].user \in members
  /\ PeersAreMembers

LEMMA PeersStep ==
  ASSUME RoomTypes, HereInv, PInv, [Next]_vars
  PROVE  PInv'
<1>1. \A w \in Workers : At(w, "committing")' => room /\ worker'[w].user \in members
  <2>1. CASE /\ \A w \in Workers :
                  At(w, "committing")' => At(w, "committing") /\ worker'[w] = worker[w]
    BY <2>1 DEF PInv
  <2>2. ASSUME NEW w \in Workers, \A v \in Workers : v # w => worker'[v] = worker[v],
               room, worker'[w].user \in members
        PROVE  \A v \in Workers : At(v, "committing")' => room /\ worker'[v].user \in members
    BY <2>2 DEF PInv, At
  <2> QED BY <2>1, <2>2, CommittingAre
<1>2. \A m \in Committed' : room /\ msg'[m].by \in members
  <2>1. \A w \in Workers : CommitMessage(w) => At(w, "committing")
    BY SendMoves
  <2> QED BY <2>1, MessagesStay DEF PInv, PeersAreMembers
<1>3. CASE room
  BY <1>1, <1>2, <1>3, RoomStays DEF PInv, PeersAreMembers
<1>4. CASE ~room
  BY <1>1, <1>2, <1>4, RoomStays DEF PInv, PeersAreMembers
<1> QED BY <1>3, <1>4

\* An id is one request's until its message is there.
UInv ==
  /\ \A m \in Committed : m <= ids
  /\ \A w \in Workers : At(w, "committing") =>
       worker[w].message <= ids /\ worker[w].message \notin Committed
  /\ \A v, w \in Workers :
       At(v, "committing") /\ At(w, "committing") /\ worker[v].message = worker[w].message
         => v = w

LEMMA IdsStep ==
  ASSUME RoomTypes, HereInv, UInv, [Next]_vars
  PROVE  UInv'
<1>1. ids \in Nat /\ ids' \in Nat /\ ids <= ids'
  BY CommittingAre DEF RoomTypes
<1>2. \A w \in Workers : At(w, "committing") => worker[w].message \in Ids
  BY ErrandOf
<1>3. Ids \subseteq Int
  BY DEF Ids
<1>4. \A w \in Workers : CommitMessage(w) => At(w, "committing") /\ ~At(w, "committing")'
  <2> SUFFICES ASSUME NEW w \in Workers, CommitMessage(w)
               PROVE  At(w, "committing") /\ ~At(w, "committing")'
    OBVIOUS
  <2>1. PICK n \in Sending : n.pc = "answering" /\ Turns(w, n)
    BY SendMoves, ErrandOf DEF Sending
  <2>2. n \in Errands
    BY DEF Errands
  <2> QED BY <2>1, <2>2, OneTurns, SendMoves DEF At
<1>5. \A m \in Committed' : m <= ids'
  BY <1>1, <1>2, <1>3, <1>4, MessagesStay DEF UInv, Committed
<1>6. CASE /\ \A w \in Workers :
                At(w, "committing")' => At(w, "committing") /\ worker'[w] = worker[w]
  <2>1. ASSUME NEW w \in Workers, At(w, "committing")'
        PROVE  worker'[w].message <= ids' /\ worker'[w].message \notin Committed'
    <3>1. /\ At(w, "committing") /\ worker'[w] = worker[w]
          /\ worker[w].message <= ids /\ worker[w].message \notin Committed
      BY <1>6, <2>1 DEF UInv
    <3>2. worker[w].message <= ids'
      <4>1. worker[w].message \in Int
        BY <1>2, <1>3, <3>1
      <4> QED BY <1>1, <3>1, <4>1
    <3>3. worker[w].message \notin Committed'
      BY <1>4, <2>1, <3>1, MessagesStay DEF UInv
    <3> QED BY <3>1, <3>2, <3>3
  <2>2. \A v, w \in Workers :
          /\ At(v, "committing")' /\ At(w, "committing")'
          /\ worker'[v].message = worker'[w].message
          => v = w
    BY <1>6 DEF UInv
  <2> QED BY <1>5, <2>1, <2>2 DEF UInv
<1>7. ASSUME NEW w \in Workers, \A v \in Workers : v # w => worker'[v] = worker[v],
             worker'[w].message = ids + 1, ids' = ids + 1, msg' = msg
      PROVE  UInv'
  <2>1. Committed' = Committed
    BY <1>7 DEF Committed, Here
  <2>2. \A v \in Workers : v # w /\ At(v, "committing")' =>
          /\ At(v, "committing") /\ worker'[v].message = worker[v].message
          /\ worker'[v].message \in Int /\ worker'[v].message <= ids
    BY <1>2, <1>3, <1>7 DEF UInv, At
  <2>3. ids + 1 \notin Committed
    BY <1>1 DEF UInv
  <2>4. \A v \in Workers : At(v, "committing")' =>
          worker'[v].message <= ids' /\ worker'[v].message \notin Committed'
    BY <1>1, <1>7, <2>1, <2>2, <2>3 DEF UInv
  <2>5. ASSUME NEW v \in Workers, NEW x \in Workers, At(v, "committing")',
               At(x, "committing")', worker'[v].message = worker'[x].message
        PROVE  v = x
    BY <1>1, <1>7, <2>2, <2>5 DEF UInv
  <2> QED BY <1>5, <2>4, <2>5 DEF UInv
<1> QED BY <1>6, <1>7, CommittingAre

\* No step takes a tombstone away.
LEMMA DeadStay ==
  ASSUME RoomTypes, HereInv, UInv, [Next]_vars
  PROVE  \A m \in Committed : msg[m].dead => msg'[m].dead
<1> SUFFICES ASSUME NEW m \in Committed, msg[m].dead PROVE msg'[m].dead
  OBVIOUS
<1>1. m \in Ids /\ \A k \in Committed : msg[k] \in Messages
  BY HereIs
<1>2. ASSUME NEW w \in Workers, CommitMessage(w) PROVE msg'[m].dead
  <2>1. worker[w].message # m
    BY <1>2, SendMoves DEF UInv
  <2>2. PICK n \in Messages : msg' = [msg EXCEPT ![worker[w].message] = n]
    BY <1>2, SendMoves
  <2> QED BY <1>1, <2>1, <2>2 DEF RoomTypes
<1>3. ASSUME NEW k \in Committed, NEW n, msg' = [msg EXCEPT ![k] = n],
             n = Edited(msg[k]) \/ n = Deleted(msg[k])
      PROVE  msg'[m].dead
  <2>1. msg[k].dead => n.dead
    BY <1>1, <1>3, BecomesIs
  <2> QED BY <1>1, <1>3, <2>1 DEF RoomTypes
<1> QED BY <1>2, <1>3, MessageMoves

\* A request at work goes on or ends; one that starts has all others idle, or requests have
\* overlapped by now.  Only UpdateMessage starts an edit.
LEMMA SerialMoves ==
  ASSUME RoomTypes, [Next]_vars
  PROVE  \/ \E w \in Workers, n \in Errands :
              /\ Turns(w, n) /\ ~At(w, "idle") /\ serial' = serial /\ n.pc # "editing"
         \/ \E w \in Workers, n \in Errands :
              /\ Turns(w, n) /\ serial' = (serial /\ \A v \in Workers : At(v, "idle"))
              /\ msg' = msg
              /\ n.pc = "editing" => n.read = msg[n.message] /\ n.read.status # "DELETED"
         \/ worker' = worker /\ (serial' => serial)
<1>1. \A n \in {Idle} \cup Creating \cup Reacting : n \in Errands /\ n.pc # "editing"
  BY DEF Errands, Creating, Reacting, Idle
<1>2. ASSUME NEW w \in Workers, Plain(w)
      PROVE  \/ \E n \in Errands :
                  Turns(w, n) /\ ~At(w, "idle") /\ serial' = serial /\ n.pc # "editing"
             \/ \E n \in Errands :
                  /\ Turns(w, n) /\ serial' = (serial /\ \A v \in Workers : At(v, "idle"))
                  /\ msg' = msg /\ n.pc # "editing"
  BY <1>1, <1>2, PlainMoves
<1>3. ASSUME NEW w \in Workers, CommitMessage(w)
      PROVE  \E n \in Errands :
               Turns(w, n) /\ ~At(w, "idle") /\ serial' = serial /\ n.pc # "editing"
  <2>1. PICK n \in Sending : n.pc = "answering" /\ Turns(w, n)
    BY <1>3, SendMoves, ErrandOf DEF Sending
  <2> QED BY <1>3, <2>1, SendMoves DEF Errands, At
<1>4. ASSUME NEW w \in Workers, UpdateMessageContent(w)
      PROVE  \E n \in Errands :
               Turns(w, n) /\ ~At(w, "idle") /\ serial' = serial /\ n.pc # "editing"
  BY <1>1, <1>4, EditMoves DEF At
<1>5. ASSUME NEW w \in Workers, NEW u \in Users, CreateMessage(w, u)
      PROVE  \E n \in Errands :
               /\ Turns(w, n) /\ serial' = (serial /\ \A v \in Workers : At(v, "idle"))
               /\ msg' = msg /\ n.pc # "editing"
  <2>1. PICK n \in Sending : n.pc = "committing" /\ Turns(w, n)
    BY <1>5, SendMoves
  <2> QED BY <1>5, <2>1, SendMoves DEF Errands
<1>6. ASSUME NEW w \in Workers, NEW u \in Users, NEW m \in Ids, UpdateMessage(w, u, m)
      PROVE  \E n \in Errands :
               /\ Turns(w, n) /\ serial' = (serial /\ \A v \in Workers : At(v, "idle"))
               /\ msg' = msg /\ n.read = msg[n.message] /\ n.read.status # "DELETED"
  <2>1. PICK n \in Editing : n.message = m /\ n.read = msg[m] /\ Turns(w, n)
    BY <1>6, EditMoves
  <2>2. /\ serial' = (serial /\ \A v \in Workers : At(v, "idle"))
        /\ msg' = msg /\ msg[m].status # "DELETED"
    BY <1>6, EditMoves
  <2>3. n \in Errands
    BY DEF Errands
  <2> QED BY <2>1, <2>2, <2>3
<1>7. ASSUME NEW m \in Ids, DeleteMessage(m) PROVE worker' = worker /\ (serial' => serial)
  BY <1>7, EditMoves
<1>8. CASE Calm
  BY <1>8 DEF Calm
<1> QED BY <1>2, <1>3, <1>4, <1>5, <1>6, <1>7, <1>8, RoomKinds

\* One request at a time.
Alone == \A v, w \in Workers : ~At(v, "idle") /\ ~At(w, "idle") => v = w

\* The earlier texts of a message.
Texts(E, m) == {e[2] : e \in {f \in E : f[1] = m}}

EInv ==
  /\ \A e \in edits : e[1] \in Committed
  /\ serial =>
       /\ Alone
       /\ \A w \in Workers : At(w, "editing") =>
            worker[w].read = msg[worker[w].message] /\ worker[w].read.status # "DELETED"
       /\ EditsKeptSerially

LEMMA AloneStep ==
  ASSUME RoomTypes, EInv, [Next]_vars, serial'
  PROVE  serial /\ Alone'
<1>1. ASSUME NEW w \in Workers, NEW n \in Errands, Turns(w, n), ~At(w, "idle"),
             serial' = serial
      PROVE  serial /\ Alone'
  <2>1. serial /\ \A v \in Workers : v # w => worker'[v] = worker[v] /\ At(v, "idle")
    BY <1>1, OneTurns DEF EInv, Alone
  <2> QED BY <2>1 DEF Alone, At
<1>2. ASSUME NEW w \in Workers, NEW n \in Errands, Turns(w, n),
             serial' = (serial /\ \A v \in Workers : At(v, "idle"))
      PROVE  serial /\ Alone'
  <2>1. serial /\ \A v \in Workers : v # w => worker'[v] = worker[v] /\ At(v, "idle")
    BY <1>2, OneTurns
  <2> QED BY <2>1 DEF Alone, At
<1>3. CASE worker' = worker /\ (serial' => serial)
  BY <1>3 DEF EInv, Alone, At
<1> QED BY <1>1, <1>2, <1>3, SerialMoves

\* What is being edited is as it was read.
LEMMA ReadStep ==
  ASSUME RoomTypes, HereInv, EInv, [Next]_vars, serial'
  PROVE  \A w \in Workers : At(w, "editing")' =>
           worker'[w].read = msg'[worker'[w].message] /\ worker'[w].read.status # "DELETED"
<1> SUFFICES ASSUME NEW w \in Workers, At(w, "editing")'
             PROVE  worker'[w].read = msg'[worker'[w].message] /\ worker'[w].read.status # "DELETED"
  OBVIOUS
<1>1. serial /\ Alone
  BY AloneStep DEF EInv
<1>2. CASE At(w, "editing") /\ worker'[w] = worker[w]
  <2>1. PICK m \in Committed :
          m = worker[w].message /\ worker[w].read = msg[m] /\ worker[w].read.status # "DELETED"
    BY <1>1, <1>2, HereIs, ErrandOf DEF EInv, HereInv
  <2>2. ~At(w, "idle") /\ ~At(w, "committing")
    BY <1>2 DEF At
  <2>3. msg' = msg
    <3>1. ASSUME NEW v \in Workers, CommitMessage(v) PROVE FALSE
      <4>1. At(v, "committing") /\ ~At(v, "idle")
        BY <3>1, SendMoves DEF At
      <4> QED BY <1>1, <2>2, <4>1 DEF Alone
    <3>2. ASSUME NEW v \in Workers, UpdateMessageContent(v) PROVE FALSE
      <4>1. ~At(v, "idle") /\ Turns(v, Idle) /\ Idle \in Errands
        BY <3>2, EditMoves DEF At, Errands
      <4>2. worker'[w] = Idle
        BY <1>1, <2>2, <4>1, OneTurns DEF Alone
      <4> QED BY <4>2 DEF At, Idle
    <3>3. ASSUME NEW k \in Ids, DeleteMessage(k) PROVE FALSE
      BY <2>2, <3>3, EditMoves
    <3> QED BY <3>1, <3>2, <3>3, MessageMoves, HereIs
  <2> QED BY <1>2, <2>1, <2>3
<1>3. ASSUME NEW v \in Workers, NEW n \in Errands, Turns(v, n),
             n.pc # "editing" \/ /\ msg' = msg /\ n.read = msg[n.message]
                                 /\ n.read.status # "DELETED"
      PROVE  \/ At(w, "editing") /\ worker'[w] = worker[w]
             \/ worker'[w].read = msg'[worker'[w].message] /\ worker'[w].read.status # "DELETED"
  <2>1. worker'[w] = IF w = v THEN n ELSE worker[w]
    BY <1>3, OneTurns
  <2> QED BY <1>3, <2>1 DEF At
<1>4. CASE worker' = worker
  BY <1>2, <1>4 DEF At
<1> QED BY <1>2, <1>3, <1>4, SerialMoves

LEMMA KeptStep ==
  ASSUME RoomTypes, HereInv, UInv, EInv, [Next]_vars, serial'
  PROVE  EditsKeptSerially'
<1>1. /\ serial
      /\ \A m \in Committed : /\ msg[m].dead => msg[m].status = "DELETED"
                              /\ Texts(edits, m) = 0 .. msg[m].text - 1
  BY AloneStep DEF EInv, EditsKeptSerially, Texts
<1>2. SUFFICES ASSUME NEW m \in Committed'
               PROVE  /\ msg'[m].dead => msg'[m].status = "DELETED"
                      /\ Texts(edits', m) = 0 .. msg'[m].text - 1
  BY DEF EditsKeptSerially, Texts
<1>3. m \in Ids /\ \A k \in Committed : k \in Ids /\ msg[k] \in Messages
  BY HereIs DEF Committed
<1>4. CASE UNCHANGED <<msg, edits>>
  <2>1. m \in Committed
    BY <1>4 DEF Committed, Here
  <2> QED BY <1>1, <1>4, <2>1
<1>5. ASSUME NEW w \in Workers, CommitMessage(w)
      PROVE  /\ msg'[m].dead => msg'[m].status = "DELETED"
             /\ Texts(edits', m) = 0 .. msg'[m].text - 1
  <2>1. PICK n \in Messages : /\ n.dead = FALSE /\ n.text = 0 /\ edits' = edits
                              /\ msg' = [msg EXCEPT ![worker[w].message] = n]
    BY <1>5, SendMoves
  <2>2. worker[w].message \in Ids /\ worker[w].message \notin Committed
    BY <1>5, SendMoves DEF UInv
  <2>3. CASE m = worker[w].message
    <3>1. Texts(edits, m) = {}
      BY <2>2, <2>3 DEF Texts, EInv
    <3>2. msg'[m] = n
      BY <2>1, <2>2, <2>3 DEF RoomTypes
    <3>3. 0 .. n.text - 1 = {}
      BY <2>1
    <3> QED BY <2>1, <3>1, <3>2, <3>3
  <2>4. CASE m # worker[w].message
    <3>1. msg'[m] = msg[m]
      BY <1>3, <2>1, <2>4 DEF RoomTypes
    <3>2. m \in Committed
      BY <1>3, <3>1 DEF Committed, Here
    <3> QED BY <1>1, <2>1, <3>1, <3>2
  <2> QED BY <2>3, <2>4
<1>6. ASSUME NEW w \in Workers, NEW k \in Committed, k = worker[w].message,
             UpdateMessageContent(w), msg' = [msg EXCEPT ![k] = Edited(msg[k])]
      PROVE  /\ msg'[m].dead => msg'[m].status = "DELETED"
             /\ Texts(edits', m) = 0 .. msg'[m].text - 1
  <2>1. /\ At(w, "editing") /\ edits' = edits \cup {<<k, worker[w].read.text>>}
        /\ worker[w].read = msg[k] /\ msg[k].status # "DELETED"
    BY <1>1, <1>6, EditMoves DEF EInv
  <2>2. /\ Edited(msg[k]).dead = msg[k].dead /\ Edited(msg[k]).text = msg[k].text + 1
        /\ msg[k].text \in Nat
    BY <1>3, BecomesIs DEF Messages
  <2>3. CASE m = k
    <3>1. msg'[m] = Edited(msg[k])
      BY <1>3, <1>6, <2>3 DEF RoomTypes
    <3>2. ~msg[k].dead
      BY <1>1, <2>1
    <3>3. Texts(edits', m) = Texts(edits, k) \cup {msg[k].text}
      <4>1. PICK t : t = msg[k].text
        OBVIOUS
      <4>2. edits' = edits \cup {<<k, t>>} /\ <<k, t>>[1] = k /\ <<k, t>>[2] = t
        BY <2>1, <4>1
      <4>3. \A x : x \in Texts(edits', k) <=> x \in Texts(edits, k) \/ x = t
        BY <4>2 DEF Texts
      <4> QED BY <2>3, <4>1, <4>3
    <3>4. Texts(edits', m) = 0 .. (msg[k].text + 1) - 1
      BY <1>1, <2>2, <3>3
    <3> QED BY <2>2, <3>1, <3>2, <3>4
  <2>4. CASE m # k
    <3>1. msg'[m] = msg[m] /\ Texts(edits', m) = Texts(edits, m)
      BY <1>3, <1>6, <2>1, <2>4 DEF RoomTypes, Texts
    <3>2. m \in Committed
      BY <1>3, <3>1 DEF Committed, Here
    <3> QED BY <1>1, <3>1, <3>2
  <2> QED BY <2>3, <2>4
<1>7. ASSUME NEW k \in Committed, DeleteMessage(k),
             msg' = [msg EXCEPT ![k] = Deleted(msg[k])]
      PROVE  /\ msg'[m].dead => msg'[m].status = "DELETED"
             /\ Texts(edits', m) = 0 .. msg'[m].text - 1
  <2>1. /\ Deleted(msg[k]).status = "DELETED" /\ Deleted(msg[k]).text = msg[k].text
        /\ edits' = edits
    BY <1>3, <1>7, BecomesIs, EditMoves
  <2>2. msg'[m] = IF m = k THEN Deleted(msg[k]) ELSE msg[m]
    BY <1>3, <1>7 DEF RoomTypes
  <2>3. m \in Committed
    BY <1>3, <2>2 DEF Committed, Here
  <2> QED BY <1>1, <2>1, <2>2, <2>3
<1> QED BY <1>4, <1>5, <1>6, <1>7, MessageMoves

LEMMA EditsStep ==
  ASSUME RoomTypes, HereInv, UInv, EInv, [Next]_vars
  PROVE  EInv'
<1>1. \A e \in edits' : e[1] \in Committed'
  <2>1. ASSUME NEW w \in Workers, UpdateMessageContent(w), worker[w].message \in Committed
        PROVE  \A e \in edits' : e \in edits \/ e[1] \in Committed
    BY <2>1, EditMoves
  <2>2. ASSUME NEW w \in Workers, CommitMessage(w) PROVE edits' = edits
    BY <2>2, SendMoves
  <2>3. ASSUME NEW m \in Committed, DeleteMessage(m) PROVE edits' = edits
    BY <2>3, EditMoves, HereIs
  <2>4. \A e \in edits' : e \in edits \/ e[1] \in Committed
    BY <2>1, <2>2, <2>3, MessageMoves
  <2> QED BY <2>4, MessagesStay DEF EInv
<1>2. ASSUME serial' PROVE Alone' /\ EditsKeptSerially'
  BY <1>2, AloneStep, KeptStep
<1> QED BY <1>1, <1>2, ReadStep DEF EInv

-----------------------------------------------------------------------------
(***************************************************************************)
(* The pages of the chat.                                                  *)
(***************************************************************************)
\* A message's place among those of S, from 0, and its place from the end.
Below(S, m) == {n \in S : n < m}
Above(S, m) == {n \in S : n > m}
Place(S, m) == Cardinality(Below(S, m))

LEMMA BelowIs ==
  ASSUME NEW S, IsFiniteSet(S), NEW m
  PROVE  IsFiniteSet(Below(S, m)) /\ Place(S, m) \in Nat
<1>1. Below(S, m) \in SUBSET S
  BY DEF Below
<1>2. IsFiniteSet(Below(S, m))
  BY <1>1, FS_Subset
<1> QED BY <1>2, FS_CardinalityType DEF Place

LEMMA PlaceGrows ==
  ASSUME NEW S, S \subseteq Int, IsFiniteSet(S), NEW m \in S, NEW k \in S, m < k
  PROVE  Place(S, m) < Place(S, k)
<1>1. Below(S, m) \cup {m} \in SUBSET Below(S, k) /\ m \notin Below(S, m)
  <2>1. m \in Int /\ k \in Int /\ \A n \in Below(S, m) : n \in S /\ n \in Int /\ n < m
    BY DEF Below
  <2>2. \A n \in Below(S, m) : n \in S /\ n < k
    BY <2>1
  <2>3. \A n \in Below(S, m) : n \in Below(S, k)
    BY <2>2 DEF Below
  <2>4. m \in Below(S, k)
    BY DEF Below
  <2>5. m \notin Below(S, m)
    BY <2>1 DEF Below
  <2> QED BY <2>3, <2>4, <2>5
<1>2. Cardinality(Below(S, m) \cup {m}) = Place(S, m) + 1
  BY <1>1, BelowIs, FS_AddElement DEF Place
<1>3. Cardinality(Below(S, m) \cup {m}) <= Place(S, k)
  <2>1. IsFiniteSet(Below(S, k))
    BY BelowIs
  <2> QED BY <1>1, <2>1, FS_Subset DEF Place
<1> QED BY <1>2, <1>3, BelowIs

LEMMA PlaceIn ==
  ASSUME NEW S, S \subseteq Int, IsFiniteSet(S), NEW m \in S
  PROVE  Place(S, m) \in 0 .. Cardinality(S) - 1
<1>1. /\ IsFiniteSet(S \ {m}) /\ Cardinality(S \ {m}) = Cardinality(S) - 1
      /\ Cardinality(S) \in Nat
  BY FS_RemoveElement, FS_CardinalityType
<1>2. Below(S, m) \in SUBSET (S \ {m})
  BY DEF Below
<1>3. Place(S, m) <= Cardinality(S \ {m})
  BY <1>1, <1>2, FS_Subset DEF Place
<1> QED BY <1>1, <1>3, BelowIs

\* No place is left out.
LEMMA EveryPlace ==
  ASSUME NEW S, S \subseteq Int, IsFiniteSet(S), NEW i \in 0 .. Cardinality(S) - 1
  PROVE  \E m \in S : Place(S, m) = i
<1> SUFFICES ASSUME \A m \in S : Place(S, m) # i PROVE FALSE
  OBVIOUS
<1>1. PICK c \in Nat : c = Cardinality(S)
  BY FS_CardinalityType
<1>2. IsFiniteSet(0 .. c - 1) /\ Cardinality(0 .. c - 1) = c
  <2>1. c - 1 \in Int /\ 0 <= c - 1 /\ c - 1 - 0 + 1 = c
    BY <1>1
  <2> QED BY <2>1, FS_Interval
<1> DEFINE T == (0 .. c - 1) \ {i}  f == [m \in S |-> Place(S, m)]
<1>3. IsFiniteSet(T) /\ Cardinality(T) = c - 1
  BY <1>1, <1>2, FS_RemoveElement
<1>4. f \in [S -> T]
  BY <1>1, PlaceIn
<1>5. \A x \in S : f[x] = Place(S, x)
  OBVIOUS
<1> HIDE DEF T, f
<1>6. Cardinality(T) < Cardinality(S)
  BY <1>1, <1>3
<1>7. PICK x \in S, y \in S : x # y /\ f[x] = f[y]
  BY <1>3, <1>4, <1>6, FS_PigeonHole
<1>8. Place(S, x) = Place(S, y) /\ Place(S, x) \in Nat
  BY <1>5, <1>7, BelowIs
<1>9. x < y \/ y < x
  BY <1>7
<1>10. CASE x < y
  <2>1. Place(S, x) < Place(S, y)
    BY <1>10, PlaceGrows
  <2> QED BY <1>8, <2>1
<1>11. CASE y < x
  <2>1. Place(S, y) < Place(S, x)
    BY <1>11, PlaceGrows
  <2> QED BY <1>8, <2>1
<1> QED BY <1>9, <1>10, <1>11

\* Sorted lists what is in the set, from its least to its greatest.
LEMMA SortedIs ==
  ASSUME NEW S, S \subseteq Int, IsFiniteSet(S)
  PROVE  /\ Sorted(S) \in Seq(S) /\ ToSet(Sorted(S)) = S
         /\ S = {} => Sorted(S) = <<>>
         /\ S # {} => /\ Sorted(S) # <<>>
                      /\ \A m \in S : /\ Sorted(S)[1] <= m
                                      /\ m <= Sorted(S)[Len(Sorted(S))]
<1>1. PICK c \in Nat : c = Cardinality(S)
  BY FS_CardinalityType
<1>2. PICK s : s = Sorted(S)
  OBVIOUS
<1>3. DOMAIN s = 1 .. c
  BY <1>1, <1>2 DEF Sorted
<1>4. \A i \in 1 .. c : s[i] \in S /\ Place(S, s[i]) = i - 1
  <2> SUFFICES ASSUME NEW i \in 1 .. c PROVE s[i] \in S /\ Place(S, s[i]) = i - 1
    OBVIOUS
  <2>1. i - 1 \in 0 .. Cardinality(S) - 1 /\ i \in 1 .. Cardinality(S)
    BY <1>1
  <2>2. \E m \in S : Cardinality({n \in S : n < m}) = i - 1
    BY <2>1, EveryPlace DEF Place, Below
  <2>3. Sorted(S)[i] \in S /\ Cardinality({n \in S : n < Sorted(S)[i]}) = i - 1
    BY <2>1, <2>2 DEF Sorted
  <2> QED BY <1>2, <2>3 DEF Place, Below
<1>5. s \in [1 .. c -> S]
  BY <1>2, <1>3, <1>4 DEF Sorted
<1>6. s \in Seq(S) /\ Len(s) = c /\ DOMAIN s = 1 .. c
  BY <1>5
<1>7. \A m \in S : Place(S, m) + 1 \in 1 .. c /\ s[Place(S, m) + 1] = m
  <2> SUFFICES ASSUME NEW m \in S PROVE Place(S, m) + 1 \in 1 .. c /\ s[Place(S, m) + 1] = m
    OBVIOUS
  <2>1. Place(S, m) \in 0 .. c - 1
    BY <1>1, PlaceIn
  <2>2. PICK i \in 1 .. c : i = Place(S, m) + 1
    BY <1>1, <2>1
  <2>3. s[i] \in S /\ Place(S, s[i]) = Place(S, m)
    BY <1>4, <2>1, <2>2
  <2>4. PICK n \in S : n = s[i]
    BY <2>3
  <2>5. ~(n < m) /\ ~(m < n)
    <3>1. n < m => Place(S, n) < Place(S, m)
      BY PlaceGrows
    <3>2. m < n => Place(S, m) < Place(S, n)
      BY PlaceGrows
    <3> QED BY <2>1, <2>3, <2>4, <3>1, <3>2
  <2> QED BY <2>2, <2>4, <2>5
<1>8. ToSet(s) = S
  <2>1. \A m \in S : m \in ToSet(s)
    BY <1>6, <1>7 DEF ToSet
  <2>2. \A m \in ToSet(s) : m \in S
    BY <1>4, <1>6 DEF ToSet
  <2> QED BY <2>1, <2>2
<1>9. CASE S = {}
  <2>1. c = 0
    BY <1>1, <1>9, FS_EmptySet
  <2>2. s = <<>>
    BY <1>6, <2>1
  <2> QED BY <1>2, <1>6, <1>8, <1>9, <2>2
<1>10. CASE S # {}
  <2>1. c # 0
    BY <1>1, <1>10, FS_EmptySet
  <2>2. 1 \in 1 .. c /\ c \in 1 .. c
    BY <1>1, <2>1
  <2>3. s[1] \in S /\ Place(S, s[1]) = 0 /\ s[c] \in S /\ Place(S, s[c]) = c - 1
    BY <1>4, <2>2
  <2> DEFINE a == s[1]  b == s[c]
  <2> HIDE DEF a, b
  <2>6. a \in S /\ Place(S, a) = 0 /\ b \in S /\ Place(S, b) = c - 1
    BY <2>3 DEF a, b
  <2>4. ASSUME NEW m \in S PROVE a <= m /\ m <= b
    <3>1. Place(S, m) \in 0 .. c - 1
      BY <1>1, PlaceIn
    <3>2. m < a => Place(S, m) < Place(S, a)
      BY <2>6, PlaceGrows
    <3>3. b < m => Place(S, b) < Place(S, m)
      BY <2>6, PlaceGrows
    <3>4. ~(m < a) /\ ~(b < m)
      BY <2>6, <3>1, <3>2, <3>3
    <3> QED BY <2>6, <3>4
  <2>5. s # <<>>
    BY <1>6, <2>1
  <2> QED BY <1>2, <1>6, <1>8, <1>10, <2>4, <2>5 DEF a, b
<1> QED BY <1>9, <1>10

\* One list after another.
LEMMA JoinIs ==
  ASSUME NEW S, NEW s \in Seq(S), NEW t \in Seq(S)
  PROVE  /\ s \o t \in Seq(S) /\ ToSet(s \o t) = ToSet(s) \cup ToSet(t)
         /\ s = <<>> => s \o t = t
         /\ t = <<>> => s \o t = s
         /\ s # <<>> => s \o t # <<>> /\ (s \o t)[1] = s[1]
         /\ t # <<>> => s \o t # <<>> /\ (s \o t)[Len(s \o t)] = t[Len(t)]
<1>1. PICK u : u = s \o t
  OBVIOUS
<1>2. PICK a \in Nat, b \in Nat : a = Len(s) /\ b = Len(t)
  BY LenProperties
<1>3. /\ u \in Seq(S) /\ Len(u) = a + b
      /\ \A i \in 1 .. a + b : u[i] = IF i <= a THEN s[i] ELSE t[i - a]
      /\ DOMAIN s = 1 .. a /\ DOMAIN t = 1 .. b /\ DOMAIN u = 1 .. a + b
  BY <1>1, <1>2, ConcatProperties, LenProperties
<1>4. \A i \in 1 .. a : i \in 1 .. a + b /\ u[i] = s[i]
  BY <1>2, <1>3
<1>5. \A i \in 1 .. b : i + a \in 1 .. a + b /\ u[i + a] = t[i]
  <2> SUFFICES ASSUME NEW i \in 1 .. b PROVE i + a \in 1 .. a + b /\ u[i + a] = t[i]
    OBVIOUS
  <2>1. i + a \in 1 .. a + b /\ ~(i + a <= a) /\ (i + a) - a = i
    BY <1>2
  <2> QED BY <1>3, <2>1
<1>6. ASSUME NEW i \in 1 .. a + b
      PROVE  \/ i \in 1 .. a /\ u[i] = s[i]
             \/ i - a \in 1 .. b /\ u[i] = t[i - a]
  <2>1. CASE i <= a
    BY <1>2, <1>3, <2>1
  <2>2. CASE ~(i <= a)
    BY <1>2, <1>3, <2>2
  <2> QED BY <2>1, <2>2
<1>7. ToSet(u) = ToSet(s) \cup ToSet(t)
  <2>1. \A x \in ToSet(s) : x \in ToSet(u)
    BY <1>3, <1>4 DEF ToSet
  <2>2. \A x \in ToSet(t) : x \in ToSet(u)
    BY <1>3, <1>5 DEF ToSet
  <2>3. \A x \in ToSet(u) : x \in ToSet(s) \/ x \in ToSet(t)
    <3> SUFFICES ASSUME NEW i \in 1 .. a + b
                 PROVE  u[i] \in ToSet(s) \/ u[i] \in ToSet(t)
      BY <1>3 DEF ToSet
    <3> QED BY <1>3, <1>6 DEF ToSet
  <2> QED BY <2>1, <2>2, <2>3
<1>8. (s # <<>> => a # 0) /\ (t # <<>> => b # 0)
  BY <1>2, EmptySeq
<1>9. ASSUME s # <<>> PROVE u # <<>> /\ u[1] = s[1]
  <2>1. 1 \in 1 .. a /\ Len(u) # 0
    BY <1>2, <1>3, <1>8, <1>9
  <2> QED BY <1>4, <2>1
<1>10. ASSUME t # <<>> PROVE u # <<>> /\ u[Len(u)] = t[Len(t)]
  <2>1. b \in 1 .. b /\ Len(u) # 0 /\ Len(u) = b + a
    BY <1>2, <1>3, <1>8, <1>10
  <2>2. u[b + a] = t[b]
    BY <1>5, <2>1
  <2> QED BY <1>2, <2>1, <2>2
<1>11. (s = <<>> => s \o t = t) /\ (t = <<>> => s \o t = s)
  BY ConcatEmptySeq
<1> QED BY <1>1, <1>3, <1>7, <1>9, <1>10, <1>11

\* A page of messages is a set of numbers; who is before one of the page is on it too.
LEMMA PageOf ==
  ASSUME NEW S \in SUBSET Ids
  PROVE  /\ S \subseteq Int /\ IsFiniteSet(S)
         /\ FirstPage(S) \subseteq S /\ LastPage(S) \subseteq S
         /\ \A m \in FirstPage(S), n \in S : n < m => n \in FirstPage(S)
         /\ \A m \in LastPage(S), n \in S : m < n => n \in LastPage(S)
<1>1. S \subseteq Int /\ IsFiniteSet(S)
  <2>1. IsFiniteSet(1 .. MaxMessages) /\ 1 .. MaxMessages \subseteq Int
    BY FS_Interval, BoundsAssumption DEF BoundsAssumption
  <2> QED BY <2>1, FS_Subset DEF Ids
<1>2. Page \in Int
  BY BoundsAssumption DEF BoundsAssumption
<1>3. ASSUME NEW A \in SUBSET S, NEW B \in SUBSET A, Cardinality(A) < Page
      PROVE  Cardinality(B) < Page
  <2>1. IsFiniteSet(A) /\ IsFiniteSet(B)
    BY <1>1, <1>3, FS_Subset
  <2>2. Cardinality(A) \in Nat /\ Cardinality(B) \in Nat /\ Cardinality(B) <= Cardinality(A)
    BY <2>1, FS_Subset, FS_CardinalityType
  <2> QED BY <1>2, <1>3, <2>2
<1>4. ASSUME NEW m \in FirstPage(S), NEW n \in S, n < m PROVE n \in FirstPage(S)
  <2>1. m \in S /\ Cardinality(Below(S, m)) < Page
    BY DEF FirstPage, Below
  <2>2. Below(S, m) \in SUBSET S /\ Below(S, n) \in SUBSET Below(S, m)
    <3>1. m \in Int /\ n \in Int /\ \A k \in S : k \in Int
      BY <1>1, <2>1
    <3>2. Below(S, m) \in SUBSET S
      BY DEF Below
    <3>3. \A k \in Below(S, n) : k \in S /\ k < n
      BY DEF Below
    <3>4. ASSUME NEW k \in Below(S, n) PROVE k \in S /\ k < m
      <4>1. k \in S /\ k < n /\ k \in Int
        BY <3>1, <3>3
      <4>2. n < m
        BY <1>4
      <4> QED BY <3>1, <4>1, <4>2
    <3>5. \A k \in Below(S, n) : k \in Below(S, m)
      BY <3>4 DEF Below
    <3> QED BY <3>2, <3>5
  <2>3. Cardinality(Below(S, n)) < Page
    BY <1>3, <2>1, <2>2
  <2> QED BY <2>3 DEF FirstPage, Below
<1>5. ASSUME NEW m \in LastPage(S), NEW n \in S, m < n PROVE n \in LastPage(S)
  <2>1. m \in S /\ Cardinality(Above(S, m)) < Page
    BY DEF LastPage, Above
  <2>2. Above(S, m) \in SUBSET S /\ Above(S, n) \in SUBSET Above(S, m)
    <3>1. m \in Int /\ n \in Int /\ \A k \in S : k \in Int
      BY <1>1, <2>1
    <3>2. Above(S, m) \in SUBSET S
      BY DEF Above
    <3>3. \A k \in Above(S, n) : k \in S /\ k > n
      BY DEF Above
    <3>4. ASSUME NEW k \in Above(S, n) PROVE k \in S /\ k > m
      <4>1. k \in S /\ k > n /\ k \in Int
        BY <3>1, <3>3
      <4>2. n > m
        BY <1>5
      <4> QED BY <3>1, <4>1, <4>2
    <3>5. \A k \in Above(S, n) : k \in Above(S, m)
      BY <3>4 DEF Above
    <3> QED BY <3>2, <3>5
  <2>3. Cardinality(Above(S, n)) < Page
    BY <1>3, <2>1, <2>2
  <2> QED BY <2>3 DEF LastPage, Above
<1> QED BY <1>1, <1>4, <1>5 DEF FirstPage, LastPage

\* A page begins with its least message and ends with its greatest, and leaves out none of C
\* between them.
Bounded(s) == \A m \in ToSet(s) : s[1] <= m /\ m <= s[Len(s)]
Whole(s, C) == \A m \in C : s # <<>> /\ s[1] < m /\ m < s[Len(s)] => m \in ToSet(s)

\* What the page of somebody who only reads is like.
Faithful(s, C) == s \in Seq(Ids) /\ ToSet(s) \subseteq C /\ Bounded(s) /\ Whole(s, C)

\* The last message of a page.
Ends(s, m) == s # <<>> /\ m = s[Len(s)]

\* The ends of a page are on it.
LEMMA EndsShown ==
  ASSUME NEW s \in Seq(Ids), s # <<>>
  PROVE  /\ s[1] \in ToSet(s) /\ s[Len(s)] \in ToSet(s)
         /\ s[1] \in Ids /\ s[Len(s)] \in Ids
         /\ Head(s) = s[1]
<1>1. PICK n \in Nat \ {0} : n = Len(s)
  BY EmptySeq
<1>2. 1 \in 1 .. n /\ n \in 1 .. n
  BY <1>1
<1>3. DOMAIN s = 1 .. n /\ s \in [1 .. n -> Ids]
  BY <1>1, LenProperties
<1>4. s[1] \in ToSet(s) /\ s[n] \in ToSet(s)
  BY <1>2, <1>3 DEF ToSet
<1>5. s[1] \in Ids /\ s[n] \in Ids
  BY <1>2, <1>3
<1>6. Head(s) = s[1]
  BY HeadTailProperties
<1> QED BY <1>1, <1>4, <1>5, <1>6

\* The newest page, when the chat is opened.
LEMMA LatestIs ==
  ASSUME NEW C \in SUBSET Ids,
         NEW s, s = Sorted(LastPage(C))
  PROVE  Faithful(s, C)
<1> DEFINE T == LastPage(C)
<1> HIDE DEF T
<1>1. T \in SUBSET C /\ T \in SUBSET Ids
  BY PageOf DEF T
<1>2. T \subseteq Int /\ IsFiniteSet(T)
  BY <1>1, PageOf
<1>3. s = Sorted(T)
  BY DEF T
<1>4. /\ s \in Seq(T) /\ ToSet(s) = T
      /\ T = {} => s = <<>>
      /\ T # {} => \A m \in T : s[1] <= m /\ m <= s[Len(s)]
  <2>1. /\ Sorted(T) \in Seq(T) /\ ToSet(Sorted(T)) = T
        /\ T = {} => Sorted(T) = <<>>
        /\ T # {} => \A m \in T : /\ Sorted(T)[1] <= m
                                /\ m <= Sorted(T)[Len(Sorted(T))]
    BY <1>2, SortedIs
  <2> QED BY <1>3, <2>1
<1>5. s \in Seq(Ids)
  BY <1>1, <1>4, SeqMonotonic
<1>6. Bounded(s)
  BY <1>4 DEF Bounded
<1>7. ASSUME NEW m \in C, s # <<>>, s[1] < m PROVE m \in T
  <2>1. s[1] \in T
    BY <1>4, <1>5, <1>7, EndsShown
  <2> QED BY <1>7, <2>1, PageOf DEF T
<1> QED BY <1>1, <1>4, <1>5, <1>6, <1>7 DEF Whole, Faithful

\* What a poll brings is appended.
LEMMA PollIs ==
  ASSUME NEW C \in SUBSET Ids, NEW s \in Seq(Ids), s # <<>>,
         ToSet(s) \subseteq C, Bounded(s), Whole(s, C),
         NEW D, D = {m \in C : m > s[Len(s)]}, NEW T, T = FirstPage(D) \ ToSet(s),
         NEW r, r = s \o Sorted(T)
  PROVE  Faithful(r, C)
<1>1. PICK l \in Ids, h \in Ids : l = s[Len(s)] /\ h = s[1]
  BY EndsShown
<1>2. l \in ToSet(s) /\ h \in ToSet(s)
  BY <1>1, EndsShown
<1>3. D \in SUBSET Ids /\ \A m \in D : m \in C /\ m > l
  BY <1>1
<1>4. \A m \in C : m \in Int /\ (m > l => m \in D)
  BY <1>1, PageOf
<1>5. T = FirstPage(D) \ ToSet(s)
  OBVIOUS
<1>6. \A m \in ToSet(s) : m \in Int /\ h <= m /\ m <= l
  BY <1>1, PageOf DEF Bounded
<1>7. l \in Int /\ h \in Int
  BY <1>2, <1>6
<1>8. FirstPage(D) \subseteq D
  BY <1>3, PageOf
<1>9. T = FirstPage(D)
  <2>1. \A m \in D : m \notin ToSet(s)
    BY <1>3, <1>4, <1>6, <1>7
  <2> QED BY <1>5, <1>8, <2>1
<1>10. T \in SUBSET Ids /\ T \subseteq Int /\ IsFiniteSet(T)
  BY <1>3, <1>8, <1>9, PageOf
<1> DEFINE t == Sorted(T)
<1>11. /\ t \in Seq(T) /\ ToSet(t) = T
       /\ T = {} => t = <<>>
       /\ T # {} => t # <<>> /\ \A m \in T : m <= t[Len(t)]
  BY <1>10, SortedIs
<1>12. t \in Seq(Ids)
  BY <1>10, <1>11, SeqMonotonic
<1> HIDE DEF t
<1>13. r = s \o t
  BY DEF t
<1>14. /\ r \in Seq(Ids) /\ ToSet(r) = ToSet(s) \cup T /\ r # <<>> /\ r[1] = h
       /\ t = <<>> => r = s
       /\ t # <<>> => r[Len(r)] = t[Len(t)]
  <2>1. /\ s \o t \in Seq(Ids) /\ ToSet(s \o t) = ToSet(s) \cup ToSet(t)
        /\ t = <<>> => s \o t = s
        /\ s # <<>> => s \o t # <<>> /\ (s \o t)[1] = s[1]
        /\ t # <<>> => s \o t # <<>> /\ (s \o t)[Len(s \o t)] = t[Len(t)]
    BY <1>12, JoinIs
  <2>2. ToSet(t) = T
    BY <1>11
  <2> QED BY ONLY s # <<>>, <1>1, <1>13, <2>1, <2>2
<1>15. CASE T = {}
  <2>1. r = s
    BY <1>11, <1>14, <1>15
  <2> QED BY <1>14, <2>1 DEF Faithful
<1>16. CASE T # {}
  <2>1. PICK z : z = r[Len(r)]
    OBVIOUS
  <2>2. z \in T /\ \A m \in T : m <= z
    <3>1. t # <<>> /\ z = t[Len(t)]
      BY <1>11, <1>14, <1>16, <2>1
    <3>2. t[Len(t)] \in ToSet(t)
      BY <1>12, <3>1, EndsShown
    <3> QED BY <1>11, <1>16, <3>1, <3>2
  <2>3. \A m \in T : m \in Int /\ l < m
    BY <1>3, <1>4, <1>8, <1>9
  <2>4. Bounded(r)
    <3>1. ASSUME NEW m \in ToSet(r) PROVE h <= m /\ m <= z
      <4>1. z \in Int /\ l < z
        BY <2>2, <2>3
      <4>2. CASE m \in ToSet(s)
        <5>1. m \in Int /\ h <= m /\ m <= l
          BY <1>6, <4>2
        <5> QED BY <1>7, <4>1, <5>1
      <4>3. CASE m \in T
        <5>1. m \in Int /\ l < m /\ m <= z
          BY <2>2, <2>3, <4>3
        <5>2. h <= l
          BY <1>2, <1>6
        <5> QED BY <1>7, <5>1, <5>2
      <4> QED BY <1>14, <3>1, <4>2, <4>3
    <3> QED BY <1>14, <2>1, <3>1 DEF Bounded
  <2>5. ASSUME NEW m \in C, h < m, m < z PROVE m \in ToSet(r)
    <3>1. CASE m < l
      BY <1>1, <1>14, <2>5, <3>1 DEF Whole
    <3>2. CASE m = l
      BY <1>2, <1>14, <3>2
    <3>3. CASE m > l
      <4>1. m \in D /\ z \in FirstPage(D)
        BY <1>4, <1>9, <2>2, <3>3
      <4>2. m \in FirstPage(D)
        BY <1>3, <2>5, <4>1, PageOf
      <4> QED BY <1>9, <1>14, <4>2
    <3>4. m \in Int
      BY <1>4
    <3> QED BY <1>7, <3>1, <3>2, <3>3, <3>4
  <2>6. Whole(r, C)
    BY <1>14, <2>1, <2>5 DEF Whole
  <2>7. ToSet(r) \subseteq C
    BY <1>3, <1>8, <1>9, <1>14
  <2> QED BY <1>14, <2>4, <2>6, <2>7 DEF Faithful
<1> QED BY <1>15, <1>16

\* Older messages are put in front.
LEMMA OlderIs ==
  ASSUME NEW C \in SUBSET Ids, NEW s \in Seq(Ids), s # <<>>,
         ToSet(s) \subseteq C, Bounded(s), Whole(s, C),
         NEW h, h = s[1], NEW D, D = {m \in C : m < h}, NEW T, T = LastPage(D) \ ToSet(s),
         NEW r, r = Sorted(T) \o s
  PROVE  Faithful(r, C) /\ Ends(r, s[Len(s)])
<1>1. PICK l \in Ids : l = s[Len(s)] /\ h = s[1] /\ h \in Ids
  BY EndsShown
<1>2. l \in ToSet(s) /\ h \in ToSet(s)
  BY <1>1, EndsShown
<1>3. D \in SUBSET Ids /\ \A m \in D : m \in C /\ m < h
  BY <1>1
<1>4. \A m \in C : m \in Int /\ (m < h => m \in D)
  BY <1>1, PageOf
<1>5. T = LastPage(D) \ ToSet(s)
  OBVIOUS
<1>6. \A m \in ToSet(s) : m \in Int /\ h <= m /\ m <= l
  <2>1. \A m \in ToSet(s) : m \in Int
    BY PageOf
  <2>2. \A m \in ToSet(s) : s[1] <= m /\ m <= s[Len(s)]
    BY DEF Bounded
  <2> QED BY <1>1, <2>1, <2>2
<1>7. l \in Int /\ h \in Int
  BY <1>2, <1>6
<1>8. LastPage(D) \subseteq D
  BY <1>3, PageOf
<1>9. T = LastPage(D)
  <2>1. \A m \in D : m \notin ToSet(s)
    BY <1>3, <1>4, <1>6, <1>7
  <2> QED BY <1>5, <1>8, <2>1
<1>10. T \in SUBSET Ids /\ T \subseteq Int /\ IsFiniteSet(T)
  BY <1>3, <1>8, <1>9, PageOf
<1> DEFINE t == Sorted(T)
<1>11. /\ t \in Seq(T) /\ ToSet(t) = T
       /\ T = {} => t = <<>>
       /\ T # {} => t # <<>> /\ \A m \in T : t[1] <= m
  BY <1>10, SortedIs
<1>12. t \in Seq(Ids)
  BY <1>10, <1>11, SeqMonotonic
<1> HIDE DEF t
<1>13. r = t \o s
  BY DEF t
<1>14. /\ r \in Seq(Ids) /\ ToSet(r) = T \cup ToSet(s) /\ r # <<>>
       /\ r[Len(r)] = l
       /\ t = <<>> => r = s
       /\ t # <<>> => r[1] = t[1]
  <2>1. /\ t \o s \in Seq(Ids) /\ ToSet(t \o s) = ToSet(t) \cup ToSet(s)
        /\ t = <<>> => t \o s = s
        /\ t # <<>> => t \o s # <<>> /\ (t \o s)[1] = t[1]
        /\ s # <<>> => t \o s # <<>> /\ (t \o s)[Len(t \o s)] = s[Len(s)]
    BY <1>12, JoinIs
  <2>2. ToSet(t) = T
    BY <1>11
  <2> QED BY ONLY s # <<>>, <1>1, <1>13, <2>1, <2>2
<1>15. CASE T = {}
  <2>1. r = s
    BY <1>11, <1>14, <1>15
  <2> QED BY <1>1, <1>14, <2>1 DEF Faithful, Ends
<1>16. CASE T # {}
  <2>1. PICK z : z = r[1]
    OBVIOUS
  <2>2. z \in T /\ \A m \in T : z <= m
    <3>1. t # <<>> /\ z = t[1]
      BY <1>11, <1>14, <1>16, <2>1
    <3>2. t[1] \in ToSet(t)
      BY <1>12, <3>1, EndsShown
    <3> QED BY <1>11, <1>16, <3>1, <3>2
  <2>3. \A m \in T : m \in Int /\ m < h
    BY <1>3, <1>4, <1>8, <1>9
  <2>4. Bounded(r)
    <3>1. h <= l
      BY <1>2, <1>6
    <3>2. ASSUME NEW m \in ToSet(r) PROVE z <= m /\ m <= l
      <4>1. z \in Int /\ z < h
        BY <2>2, <2>3
      <4>2. CASE m \in ToSet(s)
        <5>1. m \in Int /\ h <= m /\ m <= l
          BY <1>6, <4>2
        <5> QED BY <1>7, <4>1, <5>1
      <4>3. CASE m \in T
        <5>1. m \in Int /\ m < h /\ z <= m
          BY <2>2, <2>3, <4>3
        <5> QED BY <1>7, <3>1, <5>1
      <4> QED BY <1>14, <3>2, <4>2, <4>3
    <3> QED BY <1>14, <2>1, <3>2 DEF Bounded
  <2>5. ASSUME NEW m \in C, z < m, m < l PROVE m \in ToSet(r)
    <3>1. CASE h < m
      BY <1>1, <1>14, <2>5, <3>1 DEF Whole
    <3>2. CASE m = h
      BY <1>2, <1>14, <3>2
    <3>3. CASE m < h
      <4>1. m \in D /\ z \in LastPage(D)
        BY <1>4, <1>9, <2>2, <3>3
      <4>2. m \in LastPage(D)
        BY <1>3, <2>5, <4>1, PageOf
      <4> QED BY <1>9, <1>14, <4>2
    <3>4. m \in Int
      BY <1>4
    <3> QED BY <1>7, <3>1, <3>2, <3>3, <3>4
  <2>6. Whole(r, C)
    BY <1>14, <2>1, <2>5 DEF Whole
  <2>7. ToSet(r) \subseteq C
    BY <1>3, <1>8, <1>9, <1>14
  <2> QED BY <1>1, <1>14, <2>4, <2>6, <2>7 DEF Faithful, Ends
<1> QED BY <1>15, <1>16

Reader(u) ==
  /\ Faithful(page[u], Committed)
  /\ u \notin open => page[u] = <<>>
  /\ poll[u] # Absent => Ends(page[u], poll[u])

RInv ==
  /\ page = [u \in Users |-> page[u]] /\ poll = [u \in Users |-> poll[u]]
  /\ inOrder => \A u \in Users \ spoke : Reader(u)

\* What changes a page.
LEMMA PageKinds ==
  ASSUME [Next]_vars
  PROVE  \/ UNCHANGED <<page, poll, open, spoke>>
         \/ \E w \in Workers : \E s :
              /\ page' = [page EXCEPT ![worker[w].user] = s]
              /\ spoke' = spoke \cup {worker[w].user}
              /\ UNCHANGED <<poll, open, msg, inOrder>>
         \/ \E u \in Users : Browse(u)
<1>1. ASSUME NEW w \in Workers, AnswerMessage(w)
      PROVE  \E s : /\ page' = [page EXCEPT ![worker[w].user] = s]
                    /\ spoke' = spoke \cup {worker[w].user}
                    /\ UNCHANGED <<poll, open, msg, inOrder>>
  BY <1>1 DEF AnswerMessage, log
<1>2. ASSUME NEW w \in Workers,
             \/ CreatePrivateRoom(w) \/ CommitMessage(w) \/ UpdateMessageContent(w)
             \/ WriteReaction(w)
      PROVE  UNCHANGED <<page, poll, open, spoke>>
  BY <1>2 DEF CreatePrivateRoom, CommitMessage, UpdateMessageContent,
     WriteReaction, browser, history
<1>3. ASSUME NEW w \in Workers, NEW u \in Users, Request(w, u)
      PROVE  UNCHANGED <<page, poll, open, spoke>>
  BY <1>3 DEF Request, StartPrivateChat, CreateMessage, UpdateMessage,
     ToggleReaction, browser
<1>4. ASSUME \/ \E u \in Users : JoinRoomByLink(u) \/ MarkSeen(u)
             \/ \E m \in Ids : DeleteMessage(m)
             \/ UNCHANGED vars
      PROVE  UNCHANGED <<page, poll, open, spoke>>
  BY <1>4 DEF JoinRoomByLink, MarkSeen, DeleteMessage, browser, history,
     vars
<1> QED BY <1>1, <1>2, <1>3, <1>4 DEF Next, Step

\* As long as messages come in order, a new one is after all others.
LEMMA ComesLast ==
  ASSUME RoomTypes, HereInv, [Next]_vars, inOrder'
  PROVE  /\ inOrder
         /\ \A m \in Committed' : m \in Committed \/ \A n \in Committed : n < m
         /\ Committed \subseteq Committed'
<1>1. inOrder
  <2>1. ASSUME NEW w \in Workers, Plain(w) PROVE inOrder' = inOrder
    BY <2>1, PlainMoves
  <2>2. ASSUME NEW w \in Workers, CommitMessage(w) PROVE inOrder' => inOrder
    BY <2>2, SendMoves
  <2>3. ASSUME NEW w \in Workers, NEW u \in Users, CreateMessage(w, u)
        PROVE  inOrder' = inOrder
    BY <2>3, SendMoves
  <2> QED BY <2>1, <2>2, <2>3, RoomKinds, EditMoves DEF Calm
<1>2. ASSUME NEW w \in Workers, CommitMessage(w)
      PROVE  \A n \in Committed : n < worker[w].message
  BY <1>2, SendMoves
<1> QED BY <1>1, <1>2, MessagesStay

\* A page stays faithful when a message comes last.
LEMMA StaysFaithful ==
  ASSUME NEW s, NEW C \in SUBSET Ids, NEW D \in SUBSET Ids, C \subseteq D,
         \A m \in D : m \in C \/ \A n \in C : n < m,
         Faithful(s, C)
  PROVE  Faithful(s, D)
<1>1. ASSUME NEW m \in D, s # <<>>, s[1] < m, m < s[Len(s)] PROVE m \in ToSet(s)
  <2>1. s[Len(s)] \in C /\ s[Len(s)] \in Ids
    BY <1>1, EndsShown DEF Faithful
  <2>2. s[Len(s)] \in Int /\ m \in Int
    BY <2>1 DEF Ids
  <2>3. m \in C
    BY <1>1, <2>1, <2>2
  <2> QED BY <1>1, <2>3 DEF Faithful, Whole
<1> QED BY <1>1 DEF Faithful, Whole

LEMMA ReaderStep ==
  ASSUME RoomTypes, HereInv, RInv, [Next]_vars
  PROVE  RInv'
<1>1. Committed \in SUBSET Ids /\ Committed' \in SUBSET Ids
  BY DEF Committed, Ids
<1>2. CASE UNCHANGED <<page, poll, open, spoke>>
  <2>1. ASSUME inOrder', NEW u \in Users \ spoke PROVE Reader(u)'
    <3>1. Reader(u)
      BY <2>1, ComesLast DEF RInv
    <3>2. Faithful(page[u], Committed')
      BY <1>1, <2>1, <3>1, ComesLast, StaysFaithful DEF Reader
    <3> QED BY <1>2, <3>1, <3>2 DEF Reader
  <2> QED BY <1>2, <2>1 DEF RInv
<1>3. ASSUME NEW w \in Workers, NEW s, page' = [page EXCEPT ![worker[w].user] = s],
             spoke' = spoke \cup {worker[w].user}, UNCHANGED <<poll, open, msg, inOrder>>
      PROVE  RInv'
  <2>1. Committed' = Committed
    BY <1>3 DEF Committed, Here
  <2>2. ASSUME inOrder', NEW u \in Users \ spoke' PROVE Reader(u)'
    <3>1. u \in Users \ spoke /\ page'[u] = page[u] /\ poll'[u] = poll[u] /\ Reader(u)
      BY <1>3, <2>2 DEF RInv
    <3> QED BY <1>3, <2>1, <3>1 DEF Reader
  <2>3. page' = [u \in Users |-> page'[u]] /\ poll' = [u \in Users |-> poll'[u]]
    BY <1>3 DEF RInv
  <2> QED BY <2>2, <2>3 DEF RInv
<1>4. ASSUME NEW u \in Users, NEW s, NEW p,
             page' = [page EXCEPT ![u] = s], poll' = [poll EXCEPT ![u] = p],
             open \subseteq open', open' \subseteq open \cup {u},
             UNCHANGED <<spoke, msg, inOrder>>,
             u \notin spoke /\ inOrder /\ Reader(u) =>
               /\ Faithful(s, Committed) /\ u \in open'
               /\ p # Absent => Ends(s, p)
      PROVE  RInv'
  <2>1. Committed' = Committed
    BY <1>4 DEF Committed, Here
  <2>2. page' = [v \in Users |-> page'[v]] /\ poll' = [v \in Users |-> poll'[v]]
    BY <1>4 DEF RInv
  <2>3. page'[u] = s /\ poll'[u] = p
    BY <1>4 DEF RInv
  <2>4. \A v \in Users : v # u => page'[v] = page[v] /\ poll'[v] = poll[v]
    BY <1>4 DEF RInv
  <2>5. ASSUME inOrder', NEW v \in Users \ spoke' PROVE Reader(v)'
    <3>1. inOrder /\ v \in Users \ spoke /\ Reader(v)
      BY <1>4, <2>5 DEF RInv
    <3>2. CASE v = u
      BY <1>4, <2>1, <2>3, <3>1, <3>2 DEF Reader
    <3>3. CASE v # u
      BY <1>4, <2>1, <2>4, <3>1, <3>3 DEF Reader
    <3> QED BY <3>2, <3>3
  <2> QED BY <2>2, <2>5 DEF RInv
<1>5. ASSUME NEW u \in Users, LoadLatest(u) PROVE RInv'
  <2>1. PICK s : s = Sorted(LastPage(Committed))
    OBVIOUS
  <2>2. page' = [page EXCEPT ![u] = s] /\ UNCHANGED <<poll, spoke, msg, inOrder>>
        /\ u \notin open /\ open' = open \cup {u}
    BY <1>5, <2>1 DEF LoadLatest, log, history
  <2>3. Faithful(s, Committed)
    BY <1>1, <2>1, LatestIs
  <2>4. PICK p : p = poll[u]
    OBVIOUS
  <2>5. poll' = [poll EXCEPT ![u] = p]
    BY <2>2, <2>4 DEF RInv
  <2>6. Reader(u) => p = Absent
    BY <2>2, <2>4 DEF Reader, Ends
  <2> QED BY <1>4, <2>2, <2>3, <2>5, <2>6
<1>6. ASSUME NEW u \in Users, LoadOlder(u) PROVE RInv'
  <2>1. PICK s : s = page[u]
    OBVIOUS
  <2>0. PICK h : h = Head(s)
    OBVIOUS
  <2> DEFINE D == {m \in Committed : m < h}
  <2>2. PICK T : T = LastPage(D) \ ToSet(s)
    OBVIOUS
  <2>3. PICK r : r = Sorted(T) \o s
    OBVIOUS
  <2>4. page' = [page EXCEPT ![u] = r] /\ UNCHANGED <<poll, open, spoke, msg, inOrder>> /\ s # <<>>
    BY <1>6, <2>0, <2>1, <2>2, <2>3 DEF LoadOlder, log, history, Shown, RInv
  <2>5. PICK p : p = poll[u]
    OBVIOUS
  <2>6. poll' = [poll EXCEPT ![u] = p]
    BY <2>4, <2>5 DEF RInv
  <2>7. ASSUME Reader(u)
        PROVE  /\ Faithful(r, Committed) /\ u \in open
               /\ p # Absent => Ends(r, p)
    <3>1. s \in Seq(Ids) /\ s # <<>> /\ Faithful(s, Committed) /\ u \in open
      BY <2>1, <2>4, <2>7 DEF Reader, Faithful
    <3>2. h = s[1]
      BY <2>0, <2>4, <3>1, EndsShown
    <3>3. Faithful(r, Committed) /\ Ends(r, s[Len(s)])
      <4>1. PICK C \in SUBSET Ids : C = Committed
        BY <1>1
      <4>2. PICK E : E = D
        OBVIOUS
      <4>3. E = {m \in C : m < h} /\ T = LastPage(E) \ ToSet(s)
        BY <2>2, <4>1, <4>2
      <4>4. ToSet(s) \subseteq C /\ Bounded(s) /\ Whole(s, C)
        BY <3>1, <4>1 DEF Faithful
      <4>5. Faithful(r, C) /\ Ends(r, s[Len(s)])
        BY ONLY C \in SUBSET Ids, <2>3, <3>1, <3>2, <4>3, <4>4, OlderIs
      <4> QED BY <4>1, <4>5
    <3>4. p # Absent => p = s[Len(s)]
      BY <2>1, <2>5, <2>7 DEF Reader, Ends
    <3> QED BY <3>1, <3>3, <3>4 DEF Ends
  <2> QED BY <1>4, <2>4, <2>6, <2>7
<1>7. ASSUME NEW u \in Users, SendPoll(u) PROVE RInv'
  <2>1. PICK s : s = page[u]
    OBVIOUS
  <2>2. PICK p : p = s[Len(s)]
    OBVIOUS
  <2>3. /\ poll' = [poll EXCEPT ![u] = p] /\ UNCHANGED <<page, open, spoke, msg, inOrder>>
        /\ s # <<>> /\ u \in open
    BY <1>7, <2>1, <2>2 DEF SendPoll, log, history, Last
  <2>4. page' = [page EXCEPT ![u] = s]
    BY <2>1, <2>3 DEF RInv
  <2>5. Reader(u) => Faithful(s, Committed)
    BY <2>1 DEF Reader
  <2> QED BY <1>4, <2>2, <2>3, <2>4, <2>5 DEF Ends
<1>8. ASSUME NEW u \in Users, AnswerPoll(u) PROVE RInv'
  <2>1. PICK s : s = page[u]
    OBVIOUS
  <2> DEFINE D == {m \in Committed : m > poll[u]}
  <2>2. PICK T : T = FirstPage(D) \ ToSet(s)
    OBVIOUS
  <2>3. PICK r : r = s \o Sorted(T)
    OBVIOUS
  <2>4. /\ page' = [page EXCEPT ![u] = r] /\ poll' = [poll EXCEPT ![u] = Absent]
        /\ UNCHANGED <<open, spoke, msg, inOrder>> /\ poll[u] # Absent
    BY <1>8, <2>1, <2>2, <2>3 DEF AnswerPoll, Appended, After, Shown,
       log, history
  <2>5. ASSUME Reader(u) PROVE Faithful(r, Committed) /\ u \in open
    <3>1. /\ s \in Seq(Ids) /\ Faithful(s, Committed) /\ u \in open
          /\ s # <<>> /\ poll[u] = s[Len(s)]
      BY <2>1, <2>4, <2>5 DEF Reader, Faithful, Ends
    <3>2. Faithful(r, Committed)
      <4>1. PICK C \in SUBSET Ids : C = Committed
        BY <1>1
      <4>2. PICK E : E = D
        OBVIOUS
      <4>3. E = {m \in C : m > s[Len(s)]} /\ T = FirstPage(E) \ ToSet(s)
        BY <2>2, <3>1, <4>1, <4>2
      <4>4. ToSet(s) \subseteq C /\ Bounded(s) /\ Whole(s, C)
        BY <3>1, <4>1 DEF Faithful
      <4>5. Faithful(r, C)
        BY ONLY C \in SUBSET Ids, <2>3, <3>1, <4>3, <4>4, PollIs
      <4> QED BY <4>1, <4>5
    <3> QED BY <3>1, <3>2
  <2> QED BY <1>4, <2>4, <2>5
<1> QED BY <1>2, <1>3, <1>5, <1>6, <1>7, <1>8, PageKinds DEF Browse

\* Whoever only reads misses nothing.
LEMMA NothingMissed ==
  ASSUME RInv
  PROVE  ReaderMissesNothing
<1> SUFFICES ASSUME inOrder, NEW u \in Users \ spoke, NEW m \in Passed(u)
             PROVE  m \in Shown(u)
  BY DEF ReaderMissesNothing
<1>1. PICK s : s = page[u]
  OBVIOUS
<1>2. m \in Committed /\ s # <<>> /\ Head(s) < m /\ m < s[Len(s)]
  BY <1>1 DEF Passed, Last
<1>3. s \in Seq(Ids) /\ Whole(s, Committed)
  BY <1>1 DEF RInv, Reader, Faithful
<1>4. Head(s) = s[1]
  BY <1>2, <1>3, EndsShown
<1> QED BY <1>1, <1>2, <1>3, <1>4 DEF Whole, Shown

-----------------------------------------------------------------------------
\* The inductive invariant of the chat.
RoomInv == RoomTypes /\ HereInv /\ PInv /\ UInv /\ EInv /\ RInv

LEMMA RoomInit ==
  ASSUME Init
  PROVE  RoomInv
<1>1. Committed = {}
  BY DEF Init, Committed, Here
<1>2. RoomTypes
  BY DEF Init, RoomTypes, Errands
<1>3. \A w \in Workers : At(w, "idle")
  BY DEF Init, At, Idle
<1>4. \A w \in Workers, pc \in {"creating", "committing", "answering", "editing", "reacting"} :
        ~At(w, pc)
  BY <1>3 DEF At
<1>5. HereInv
  BY <1>4 DEF HereInv
<1>6. PInv
  BY <1>1, <1>4 DEF PInv, PeersAreMembers, Init
<1>7. UInv
  BY <1>1, <1>4 DEF UInv
<1>8. EInv
  BY <1>1, <1>3, <1>4 DEF EInv, Alone, EditsKeptSerially, Init
<1>9. RInv
  <2>1. ASSUME NEW u \in Users PROVE Reader(u)
    <3>1. page[u] = <<>> /\ poll[u] = Absent
      BY DEF Init
    <3>2. ToSet(<<>>) = {}
      BY DEF ToSet
    <3>3. Faithful(<<>>, Committed)
      BY <1>1, <3>2 DEF Faithful, Bounded, Whole
    <3> QED BY <3>1, <3>3 DEF Reader
  <2>2. page = [u \in Users |-> page[u]] /\ poll = [u \in Users |-> poll[u]]
    BY DEF Init
  <2> QED BY <2>1, <2>2 DEF RInv
<1> QED BY <1>2, <1>5, <1>6, <1>7, <1>8, <1>9 DEF RoomInv

LEMMA RoomInvariant ==
  Spec => []RoomInv
<1>1. Init => RoomInv
  BY RoomInit
<1>2. RoomInv /\ [Next]_vars => RoomInv'
  BY RoomTypesStep, HereStep, PeersStep, IdsStep, EditsStep, ReaderStep DEF RoomInv
<1> QED BY <1>1, <1>2, PTL DEF Spec

\* Chat.PeersAreMembers: however both peers start the chat, a room that is there has both for
\* members, and whoever wrote in it is one.
THEOREM PeersStayMembers ==
  Spec => []PeersAreMembers
<1>1. RoomInv => PeersAreMembers
  BY DEF RoomInv, PInv
<1> QED BY <1>1, RoomInvariant, PTL

\* Chat.TombstoneStays: no step takes the tombstone of a deleted message away.
THEOREM TombstonesStay ==
  Spec => TombstoneStays
<1>1. RoomInv /\ [Next]_vars
        => [\A m \in Committed : msg[m].dead => msg'[m].dead]_vars
  BY DeadStay DEF RoomInv
<1> QED BY <1>1, RoomInvariant, PTL DEF Spec, TombstoneStays

\* Chat.EditsKeptSerially: as long as requests do not overlap, a deleted message says so, and
\* each earlier text of an edited message is in the history.
THEOREM EditsAreKept ==
  Spec => []EditsKeptSerially
<1>1. RoomInv => EditsKeptSerially
  BY DEF RoomInv, EInv, EditsKeptSerially
<1> QED BY <1>1, RoomInvariant, PTL

\* Chat.ReaderMissesNothing: as long as messages become visible in the order of their ids, a
\* user who only reads has every message between the first and the last one shown.
THEOREM ReadersMissNothing ==
  Spec => []ReaderMissesNothing
<1>1. RoomInv => ReaderMissesNothing
  BY NothingMissed DEF RoomInv
<1> QED BY <1>1, RoomInvariant, PTL

=============================================================================
