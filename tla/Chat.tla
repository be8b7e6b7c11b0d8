--------------------------------- MODULE Chat ---------------------------------
(***************************************************************************)
(* One private chat room: internal/chat (handler, service, repository) and *)
(* the page that shows it, apps/web/app/pages/message/chat/[link].vue.     *)
(*                                                                         *)
(* Nothing is pushed.  A page loads the latest messages, then asks every   *)
(* few seconds for those after the last one it shows; a message its user   *)
(* sends is appended when the request that sent it is answered.  An id is  *)
(* taken when a message is inserted, and the message is there for others   *)
(* when its transaction commits.                                           *)
(***************************************************************************)
EXTENDS Integers, FiniteSets, Sequences, SequencesExt

CONSTANTS
  Workers,   (* requests served at the same time                            *)
  Users,
  Peers,     (* the two the room is for                                     *)
  Absent,    (* there is no such message                                    *)
  Page,      (* messages a request returns at most                          *)
  MaxMessages, (* bound: ids given out                                      *)
  MaxCalls   (* bound: requests other than sending                          *)

\* Rows of table chat_message: the text is the number of its edits.
Messages == [by : Users, status : {"SENT", "EDITED", "DELETED"}, dead : BOOLEAN, text : Nat]

ASSUME PeersAssumption == Peers \subseteq Users
ASSUME AbsentAssumption == Absent \notin Nat \cup Messages
ASSUME BoundsAssumption == Page \in Nat \ {0} /\ MaxMessages \in Nat /\ MaxCalls \in Nat

VARIABLES
  room,     (* table chat_room has the room                                 *)
  members,  (* table chat_member                                            *)
  msg,      (* table chat_message, by id                                    *)
  ids,      (* the id sequence: 1 .. ids are given out                      *)
  edits,    (* table chat_message_edit_history: <<message, text>>           *)
  marks,    (* tables chat_message_seen and chat_message_reaction           *)
  open,     (* browser: users whose page is open                            *)
  page,     (* browser: the messages shown, by id                           *)
  older,    (* browser: users whose page may ask for older messages         *)
  poll,     (* browser: the id a poll under way asks after                  *)
  worker,
  spoke,    (* history: users that sent something since the page is open    *)
  inOrder,  (* history: messages were committed in the order of their ids   *)
  serial,   (* history: no two requests have overlapped                     *)
  calls

chatRoom == <<room, members>>
log == <<msg, ids, edits, marks>>
browser == <<open, page, older, poll>>
history == <<spoke, inOrder, serial>>
vars == <<chatRoom, log, browser, worker, history, calls>>

Ids == 1 .. MaxMessages
Here(m) == msg[m] # Absent
Committed == {m \in Ids : Here(m)}
Shown(u) == ToSet(page[u])
Idle == [pc |-> "idle"]
At(w, pc) == worker[w].pc = pc
Goes(w, pc) == worker' = [worker EXCEPT ![w].pc = pc]
Over(w) == worker' = [worker EXCEPT ![w] = Idle]

-----------------------------------------------------------------------------
Init ==
  /\ room = FALSE /\ members = {}
  /\ msg = [m \in Ids |-> Absent] /\ ids = 0
  /\ edits = {} /\ marks = {}
  /\ open = {} /\ older = {}
  /\ page = [u \in Users |-> <<>>]
  /\ poll = [u \in Users |-> Absent]
  /\ worker = [w \in Workers |-> Idle]
  /\ spoke = {} /\ inOrder = TRUE /\ serial = TRUE
  /\ calls = 0

Starts(w, task) ==
  /\ At(w, "idle")
  /\ worker' = [worker EXCEPT ![w] = task]
  /\ serial' = (serial /\ \A v \in Workers : At(v, "idle"))

Called == calls < MaxCalls /\ calls' = calls + 1

(***************************************************************************)
(* The room.                                                               *)
(***************************************************************************)
\* FindOrCreatePrivateRoom: a room that is there gets both members again.
StartPrivateChat(w, u) ==
  /\ u \in Peers /\ Called
  /\ Starts(w, IF room THEN Idle ELSE [pc |-> "creating", user |-> u])
  /\ members' = IF room THEN members \cup Peers ELSE members
  /\ UNCHANGED <<room, log, browser, spoke, inOrder>>

\* Mutant: the members are added after the room's transaction, by whoever created it.
CreateBareRoom(w) ==
  /\ At(w, "creating")
  /\ room' = TRUE
  /\ members' = IF room THEN members \cup Peers ELSE members
  /\ Over(w)
  /\ UNCHANGED <<log, browser, history, calls>>

\* Room and members in one transaction; if the link is taken by now, the room of whoever
\* was faster is the answer.
CreatePrivateRoom(w) ==
  /\ At(w, "creating")
  /\ room' = TRUE
  /\ members' = IF room THEN members ELSE Peers
  /\ Over(w)
  /\ UNCHANGED <<log, browser, history, calls>>

\* A room is joined by its link, whatever its type.
JoinRoomByLink(u) ==
  /\ room /\ Called
  /\ members' = members \cup {u}
  /\ UNCHANGED <<room, log, browser, worker, history>>

(***************************************************************************)
(* Sending: the answer goes to the page of the sender.                     *)
(***************************************************************************)
\* resolveRoomForMember, then the insert takes an id.
CreateMessage(w, u) ==
  /\ room /\ u \in members /\ u \in open
  /\ ids + 1 \in Ids /\ ids' = ids + 1
  /\ Starts(w, [pc |-> "committing", user |-> u, message |-> ids + 1])
  /\ UNCHANGED <<chatRoom, msg, edits, marks, browser, spoke, inOrder, calls>>

\* The transaction also sets the room's last_message_time.
CommitMessage(w) ==
  LET m == worker[w].message
  IN  /\ At(w, "committing")
      /\ msg' = [msg EXCEPT ![m] = [by |-> worker[w].user, status |-> "SENT",
                                    dead |-> FALSE, text |-> 0]]
      /\ inOrder' = (inOrder /\ \A n \in Committed : n < m)
      /\ Goes(w, "answering")
      /\ UNCHANGED <<chatRoom, ids, edits, marks, browser, spoke, serial, calls>>

\* Oldest first (SetToSortSeq, in a form that proofs can use).
Sorted(S) ==
  [i \in 1 .. Cardinality(S) |-> CHOOSE m \in S : Cardinality({n \in S : n < m}) = i - 1]

\* Messages that are not shown yet are appended.
Appended(u, incoming) == page[u] \o Sorted(incoming \ Shown(u))

\* postMessage in the page: its own message, unless a poll was faster.
AnswerMessage(w) ==
  LET u == worker[w].user
  IN  /\ At(w, "answering")
      /\ page' = [page EXCEPT ![u] = Appended(u, {worker[w].message})]
      /\ spoke' = spoke \cup {u}
      /\ Over(w)
      /\ UNCHANGED <<chatRoom, log, open, older, poll, inOrder, serial, calls>>

(***************************************************************************)
(* Reading: ListMessages and the page's requests.                          *)
(***************************************************************************)
\* At most Page messages of S: the newest (ORDER BY id DESC, then reversed), or the oldest.
LastPage(S) == {m \in S : Cardinality({n \in S : n > m}) < Page}
FirstPage(S) == {m \in S : Cardinality({n \in S : n < m}) < Page}

\* loadLatest, when the page is opened.
LoadLatest(u) ==
  /\ room /\ u \in members /\ u \notin open
  /\ open' = open \cup {u}
  /\ page' = [page EXCEPT ![u] = Sorted(LastPage(Committed))]
  /\ older' = IF Cardinality(Committed) >= Page THEN older \cup {u} ELSE older
  /\ UNCHANGED <<chatRoom, log, poll, worker, history, calls>>

\* loadOlder
LoadOlder(u) ==
  LET found == LastPage({m \in Committed : m < Head(page[u])})
  IN  /\ u \in older /\ page[u] # <<>>
      /\ page' = [page EXCEPT ![u] = Sorted(found \ Shown(u)) \o @]
      /\ older' = IF Cardinality(found) >= Page THEN older ELSE older \ {u}
      /\ UNCHANGED <<chatRoom, log, open, poll, worker, history, calls>>

\* pollNew sends the last id it shows; an empty page does not ask.
SendPoll(u) ==
  /\ u \in open /\ page[u] # <<>> /\ poll[u] = Absent
  /\ poll' = [poll EXCEPT ![u] = Last(page[u])]
  /\ UNCHANGED <<chatRoom, log, open, page, older, worker, history, calls>>

\* Mutant: the newest page after the id, not the oldest.
NewestAfter(id) == LastPage({m \in Committed : m > id})

After(id) == FirstPage({m \in Committed : m > id})

AnswerPoll(u) ==
  /\ poll[u] # Absent
  /\ page' = [page EXCEPT ![u] = Appended(u, After(poll[u]))]
  /\ poll' = [poll EXCEPT ![u] = Absent]
  /\ UNCHANGED <<chatRoom, log, open, older, worker, history, calls>>

(***************************************************************************)
(* What happens to a message later.                                        *)
(***************************************************************************)
\* Mutant: a deleted message may be edited.
UpdateDeletedMessage(w, u, m) ==
  /\ Here(m) /\ msg[m].by = u /\ Called
  /\ Starts(w, [pc |-> "editing", message |-> m, read |-> msg[m]])
  /\ UNCHANGED <<chatRoom, log, browser, spoke, inOrder>>

\* UpdateMessage reads the message: only its sender's, and not one that is deleted.
UpdateMessage(w, u, m) ==
  /\ Here(m) /\ msg[m].by = u /\ msg[m].status # "DELETED" /\ Called
  /\ Starts(w, [pc |-> "editing", message |-> m, read |-> msg[m]])
  /\ UNCHANGED <<chatRoom, log, browser, spoke, inOrder>>

\* Mutant: the whole row is saved as it was read.
SaveMessage(w) ==
  LET m == worker[w].message  old == worker[w].read
  IN  /\ At(w, "editing")
      /\ edits' = edits \cup {<<m, old.text>>}
      /\ msg' = [msg EXCEPT ![m] = [old EXCEPT !.text = msg[m].text + 1, !.status = "EDITED"]]
      /\ Over(w)
      /\ UNCHANGED <<chatRoom, ids, marks, browser, history, calls>>

\* The text that was read goes to the history; text and status are set.
UpdateMessageContent(w) ==
  LET m == worker[w].message
  IN  /\ At(w, "editing")
      /\ edits' = edits \cup {<<m, worker[w].read.text>>}
      /\ msg' = [msg EXCEPT ![m].text = @ + 1, ![m].status = "EDITED"]
      /\ Over(w)
      /\ UNCHANGED <<chatRoom, ids, marks, browser, history, calls>>

\* By its sender or a moderator, and as often as they like; one statement.
DeleteMessage(m) ==
  /\ Here(m) /\ Called
  /\ msg' = [msg EXCEPT ![m].status = "DELETED", ![m].dead = TRUE]
  /\ serial' = (serial /\ \A v \in Workers : At(v, "idle"))
  /\ UNCHANGED <<chatRoom, ids, edits, marks, browser, worker, spoke, inOrder>>

\* By a member; found or not is read first, and a second insert of one reaction fails.
ToggleReaction(w, u, m) ==
  /\ Here(m) /\ u \in members /\ Called
  /\ Starts(w, [pc |-> "reacting", user |-> u, message |-> m,
                found |-> <<"reaction", m, u>> \in marks])
  /\ UNCHANGED <<chatRoom, log, browser, spoke, inOrder>>

WriteReaction(w) ==
  LET mark == <<"reaction", worker[w].message, worker[w].user>>
  IN  /\ At(w, "reacting")
      /\ marks' = IF worker[w].found THEN marks \ {mark} ELSE marks \cup {mark}
      /\ Over(w)
      /\ UNCHANGED <<chatRoom, msg, ids, edits, browser, history, calls>>

\* Those of the ids sent that are messages of the room are marked, once.
MarkSeen(u) ==
  /\ u \in members /\ Shown(u) # {} /\ Called
  /\ marks' = marks \cup {<<"seen", m, u>> : m \in Shown(u) \cap Committed}
  /\ UNCHANGED <<chatRoom, msg, ids, edits, browser, worker, history>>

-----------------------------------------------------------------------------
Step(w) ==
  \/ CreatePrivateRoom(w) \/ CommitMessage(w) \/ AnswerMessage(w)
  \/ UpdateMessageContent(w) \/ WriteReaction(w)

Request(w, u) ==
  \/ StartPrivateChat(w, u) \/ CreateMessage(w, u)
  \/ \E m \in Ids : UpdateMessage(w, u, m) \/ ToggleReaction(w, u, m)

Browse(u) ==
  \/ LoadLatest(u) \/ LoadOlder(u) \/ SendPoll(u) \/ AnswerPoll(u)

Next ==
  \/ \E w \in Workers : Step(w) \/ \E u \in Users : Request(w, u)
  \/ \E u \in Users : JoinRoomByLink(u) \/ Browse(u) \/ MarkSeen(u)
  \/ \E m \in Ids : DeleteMessage(m)

Spec == Init /\ [][Next]_vars

-----------------------------------------------------------------------------
(***************************************************************************)
(* Properties.                                                             *)
(***************************************************************************)
\* However both peers start the chat, a room that is there has both of them for members,
\* and whoever wrote in it is a member.
PeersAreMembers ==
  /\ room => Peers \subseteq members
  /\ \A m \in Committed : msg[m].by \in members

\* What a page will not be given any more: older than its last message, and not older
\* than its first.
Passed(u) == {m \in Committed : page[u] # <<>> /\ Head(page[u]) < m /\ m < Last(page[u])}

\* Whoever only reads has seen everything up to the last message shown, as long as
\* messages become visible in the order of their ids.
ReaderMissesNothing ==
  inOrder => \A u \in Users \ spoke : Passed(u) \subseteq Shown(u)

\* The tombstone of a deleted message stays, also when an edit that read the message
\* before its deletion gives it a text and a status again.
TombstoneStays == [][\A m \in Committed : msg[m].dead => msg'[m].dead]_vars

\* Requests one at a time: a deleted message says so, and of an edited message each
\* earlier text is in the history.
EditsKeptSerially ==
  serial => \A m \in Committed :
    /\ msg[m].dead => msg[m].status = "DELETED"
    /\ {e[2] : e \in {f \in edits : f[1] = m}} = 0 .. msg[m].text - 1
=============================================================================
