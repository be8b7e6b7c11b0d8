----------------------------- MODULE PatchComment -----------------------------
(***************************************************************************)
(* The comments of one patch, and patch.comment_count, which is kept by    *)
(* increments: internal/patch/service/service.go and                       *)
(* internal/patch/repository/repository.go; the moderation callbacks are   *)
(* those of internal/app/app.go.                                           *)
(*                                                                         *)
(* A comment belongs to the patch's own discussion or to that of its one   *)
(* resource, and may answer a comment of the same discussion that is no    *)
(* answer itself.  While comments are to be verified, a new one is hidden  *)
(* (status 1) until a moderator approves it; moderation uses the same      *)
(* status to hide one.  Each statement of a handler is a step.             *)
(***************************************************************************)
EXTENDS Integers, FiniteSets

CONSTANTS
  Workers,      (* requests served at the same time                         *)
  Users,
  Moderators,
  Owner,        (* of the patch: gets a point for a comment of another user *)
  Absent,       (* there is no such row, no such parent                     *)
  MaxComments,  (* bound: ids given out                                     *)
  MaxCalls      (* bound: requests                                          *)

Ids == 1 .. MaxComments
Areas == {"patch", "resource"}
CommentRow == [author : Users, area : Areas, parent : Ids \cup {Absent}, shown : BOOLEAN]

ASSUME UsersAssumption  == Owner \in Users /\ Moderators \subseteq Users
ASSUME AbsentAssumption == Absent \notin Nat \cup CommentRow
ASSUME BoundsAssumption == MaxComments \in Nat /\ MaxCalls \in Nat

VARIABLES
  row,       (* table patch_comment: [author, area, parent, shown]          *)
  used,      (* the id sequence: ids 1 .. used are given out                *)
  resource,  (* the resource has its row                                    *)
  purged,    (* users an administrator has deleted                          *)
  count,     (* patch.comment_count                                         *)
  worker,
  awards,    (* history: comments whose point was sent                      *)
  cleared,   (* history: comments published unverified, or approved         *)
  missed,    (* history: comments gone when their approval was written      *)
  drift,     (* history: what hiding and cascades leave in the count        *)
  serial,    (* history: no two requests have overlapped                    *)
  calls

vars == <<row, used, resource, purged, count, worker, awards, cleared, missed, drift, serial,
          calls>>
requests == <<serial, calls>>
history == <<awards, cleared, missed, drift>>

Idle == [pc |-> "idle"]
Here(c) == row[c] # Absent
Shown == {c \in Ids : Here(c) /\ row[c].shown}
Replies(c) == {r \in Ids : Here(r) /\ row[r].parent = c}

At(w, pc) == worker[w].pc = pc
Goes(w, pc) == worker' = [worker EXCEPT ![w].pc = pc]
Over(w) == worker' = [worker EXCEPT ![w] = Idle]

\* The foreign keys of a row: its author, its parent and, in its discussion, its resource.
KeysHold(u, parent, area) ==
  /\ u \notin purged
  /\ parent # Absent => Here(parent)
  /\ area = "resource" => resource

-----------------------------------------------------------------------------
Init ==
  /\ row = [c \in Ids |-> Absent]
  /\ used = 0
  /\ resource = TRUE /\ purged = {}
  /\ count = 0
  /\ worker = [w \in Workers |-> Idle]
  /\ awards = {} /\ cleared = {} /\ missed = {}
  /\ drift = 0
  /\ serial = TRUE
  /\ calls = 0

Request(pc, u, area, parent, c) ==
  [pc |-> pc, user |-> u, area |-> area, parent |-> parent, comment |-> c,
   copy |-> Absent, n |-> 0]

\* A request arrives; the sessions of a purged user are gone.
Call(w, r) ==
  /\ At(w, "idle") /\ calls < MaxCalls
  /\ r.user \notin purged
  /\ worker' = [worker EXCEPT ![w] = r]
  /\ calls' = calls + 1
  /\ serial' = (serial /\ \A v \in Workers : At(v, "idle"))
  /\ UNCHANGED <<row, used, resource, purged, count, history>>

\* The handlers.  A comment named by a request may be gone by then.
CreateCommentRequest(w) ==
  \E u \in Users, p \in 1 .. used \cup {Absent} :
    Call(w, Request("parenting", u, "patch", p, Absent))

CreateResourceCommentRequest(w) ==
  \E u \in Users, p \in 1 .. used \cup {Absent} :
    Call(w, Request("parenting", u, "resource", p, Absent))

UpdateCommentRequest(w) ==
  \E u \in Users, c \in 1 .. used : Call(w, Request("editing", u, Absent, Absent, c))

DeleteCommentRequest(w) ==
  \E u \in Users, c \in 1 .. used : Call(w, Request("checking", u, Absent, Absent, c))

ApproveCommentRequest(w) ==
  \E u \in Moderators, c \in 1 .. used : Call(w, Request("reviewing", u, Absent, Absent, c))

\* A decision of the trust service.
HideCallback(w) ==
  \E u \in Moderators, c \in 1 .. used : Call(w, Request("hiding", u, Absent, Absent, c))

DeleteResourceRequest(w) ==
  \E u \in Moderators : Call(w, Request("dropping", u, Absent, Absent, Absent))

\* Users without any patch of their own.
PurgeUserRequest(w) ==
  \E u \in Users \ {Owner} : Call(w, Request("purging", u, Absent, Absent, Absent))

Asks(w) ==
  \/ CreateCommentRequest(w) \/ CreateResourceCommentRequest(w)
  \/ UpdateCommentRequest(w) \/ DeleteCommentRequest(w)
  \/ ApproveCommentRequest(w) \/ HideCallback(w)
  \/ DeleteResourceRequest(w) \/ PurgeUserRequest(w)

(***************************************************************************)
(* CreateComment, CreateResourceComment, createComment.                    *)
(***************************************************************************)
\* Mutant: any comment of the discussion may be answered.
AnswerableAny(p, area) == Here(p) /\ row[p].area = area

\* checkCommentParent
Answerable(p, area) == Here(p) /\ row[p].parent = Absent /\ row[p].area = area

CheckParent(w) ==
  LET p == worker[w].parent  area == worker[w].area
  IN  /\ At(w, "parenting")
      /\ IF (area = "resource" => resource) /\ (p # Absent => Answerable(p, area))
           THEN Goes(w, "inserting") ELSE Over(w)
      /\ UNCHANGED <<row, used, resource, purged, count, history, requests>>

\* The sequence gives an id away also when a foreign key then refuses the row.
InsertFails(w) ==
  /\ At(w, "inserting")
  /\ ~KeysHold(worker[w].user, worker[w].parent, worker[w].area)
  /\ used < MaxComments /\ used' = used + 1
  /\ Over(w)
  /\ UNCHANGED <<row, resource, purged, count, history, requests>>

\* Mutant: the side effects of a comment that has yet to be verified.
InsertCounted(w) ==
  LET c == used + 1
  IN  /\ At(w, "inserting")
      /\ KeysHold(worker[w].user, worker[w].parent, worker[w].area)
      /\ c \in Ids /\ used' = c
      /\ \E pending \in BOOLEAN :
           /\ row' = [row EXCEPT ![c] = [author |-> worker[w].user, area |-> worker[w].area,
                                         parent |-> worker[w].parent, shown |-> ~pending]]
           /\ cleared' = IF pending THEN cleared ELSE cleared \cup {c}
           /\ worker' = [worker EXCEPT ![w].pc = "counting", ![w].comment = c]
      /\ UNCHANGED <<resource, purged, count, awards, missed, drift, requests>>

InsertComment(w) ==
  LET c == used + 1
  IN  /\ At(w, "inserting")
      /\ KeysHold(worker[w].user, worker[w].parent, worker[w].area)
      /\ c \in Ids /\ used' = c
      /\ \E pending \in BOOLEAN :   \* IsCommentVerifyEnabled
           /\ row' = [row EXCEPT ![c] = [author |-> worker[w].user, area |-> worker[w].area,
                                         parent |-> worker[w].parent, shown |-> ~pending]]
           /\ cleared' = IF pending THEN cleared ELSE cleared \cup {c}
           /\ worker' = [worker EXCEPT ![w] =
                IF pending THEN Idle ELSE [@ EXCEPT !.pc = "counting", !.comment = c]]
      /\ UNCHANGED <<resource, purged, count, awards, missed, drift, requests>>

(***************************************************************************)
(* applyCommentSideEffects                                                 *)
(***************************************************************************)
CountComment(w) ==
  /\ At(w, "counting")
  /\ count' = count + 1
  /\ Goes(w, "paying")
  /\ UNCHANGED <<row, used, resource, purged, history, requests>>

\* The point is for the owner, from whoever else wrote the comment.
PayOwner(w) ==
  /\ At(w, "paying")
  /\ awards' = IF worker[w].user = Owner THEN awards ELSE awards \cup {worker[w].comment}
  /\ Over(w)
  /\ UNCHANGED <<row, used, resource, purged, count, cleared, missed, drift, requests>>

(***************************************************************************)
(* ApproveComment: the author it read is the one the effects are for.      *)
(***************************************************************************)
ReadForApproval(w) ==
  LET c == worker[w].comment
  IN  /\ At(w, "reviewing")
      /\ worker' = [worker EXCEPT ![w] =
           IF Here(c) /\ ~row[c].shown
             THEN [@ EXCEPT !.pc = "approving", !.user = row[c].author] ELSE Idle]
      /\ UNCHANGED <<row, used, resource, purged, count, history, requests>>

\* UpdateCommentStatus(id, 0): no error if the row is gone or approved already, and either
\* way the effects of a publication follow.
Approve(w) ==
  LET c == worker[w].comment
  IN  /\ At(w, "approving")
      /\ row' = IF Here(c) THEN [row EXCEPT ![c].shown = TRUE] ELSE row
      /\ cleared' = IF Here(c) THEN cleared \cup {c} ELSE cleared
      /\ missed' = IF Here(c) THEN missed ELSE missed \cup {c}
      /\ Goes(w, "counting")
      /\ UNCHANGED <<used, resource, purged, count, awards, drift, requests>>

(***************************************************************************)
(* UpdateComment                                                           *)
(***************************************************************************)
\* Only the author may edit; the whole row is kept.
ReadForEdit(w) ==
  LET c == worker[w].comment
  IN  /\ At(w, "editing")
      /\ worker' = [worker EXCEPT ![w] =
           IF Here(c) /\ row[c].author = worker[w].user
             THEN [@ EXCEPT !.pc = "saving", !.copy = row[c]] ELSE Idle]
      /\ UNCHANGED <<row, used, resource, purged, count, history, requests>>

\* Mutant: the row written is shown.
SaveShown(w) ==
  LET c == worker[w].comment  copy == worker[w].copy
  IN  /\ At(w, "saving")
      /\ row' = IF Here(c) \/ KeysHold(copy.author, copy.parent, copy.area)
                  THEN [row EXCEPT ![c] = [copy EXCEPT !.shown = TRUE]] ELSE row
      /\ Over(w)
      /\ UNCHANGED <<used, resource, purged, count, history, requests>>

\* gorm's Save writes every column back, and inserts the row again if it is gone.
Save(w) ==
  LET c == worker[w].comment  copy == worker[w].copy
  IN  /\ At(w, "saving")
      /\ row' = IF Here(c) \/ KeysHold(copy.author, copy.parent, copy.area)
                  THEN [row EXCEPT ![c] = copy] ELSE row
      /\ Over(w)
      /\ UNCHANGED <<used, resource, purged, count, history, requests>>

(***************************************************************************)
(* DeleteComment                                                           *)
(***************************************************************************)
ReadForDelete(w) ==
  LET c == worker[w].comment
  IN  /\ At(w, "checking")
      /\ IF Here(c) /\ (row[c].author = worker[w].user \/ worker[w].user \in Moderators)
           THEN Goes(w, "sizing") ELSE Over(w)
      /\ UNCHANGED <<row, used, resource, purged, count, history, requests>>

\* Mutant: replies that wait for approval are counted, too.
SizeOfAll(c) == {d \in Ids : Here(d) /\ (d = c \/ row[d].parent = c)}

\* CountCommentAndReplies
SizeOf(c) == {d \in Shown : d = c \/ row[d].parent = c}

CountDoomed(w) ==
  /\ At(w, "sizing")
  /\ worker' = [worker EXCEPT ![w].pc = "deleting",
                              ![w].n = Cardinality(SizeOf(worker[w].comment))]
  /\ UNCHANGED <<row, used, resource, purged, count, history, requests>>

\* ON DELETE CASCADE; the answers of answers cannot exist.
Remove(gone) ==
  [c \in Ids |-> IF c \in gone \/ (Here(c) /\ row[c].parent \in gone) THEN Absent ELSE row[c]]

DeleteComment(w) ==
  /\ At(w, "deleting")
  /\ row' = Remove({worker[w].comment})
  /\ Goes(w, "discounting")
  /\ UNCHANGED <<used, resource, purged, count, history, requests>>

\* UpdateCount: GREATEST(comment_count - n, 0).
DiscountComment(w) ==
  /\ At(w, "discounting")
  /\ count' = IF count > worker[w].n THEN count - worker[w].n ELSE 0
  /\ Over(w)
  /\ UNCHANGED <<row, used, resource, purged, history, requests>>

(***************************************************************************)
(* Moderation hides a comment; the resource is deleted with its comments.  *)
(***************************************************************************)
Hide(w) ==
  LET c == worker[w].comment
  IN  /\ At(w, "hiding")
      /\ row' = IF Here(c) THEN [row EXCEPT ![c].shown = FALSE] ELSE row
      /\ drift' = drift + Cardinality(Shown \cap {c})
      /\ Over(w)
      /\ UNCHANGED <<used, resource, purged, count, awards, cleared, missed, requests>>

\* The count is left alone.
DropResource(w) ==
  LET gone == {c \in Ids : Here(c) /\ row[c].area = "resource"}
  IN  /\ At(w, "dropping")
      /\ resource' = FALSE
      /\ row' = Remove(gone)
      /\ drift' = drift + Cardinality(Shown \cap gone)
      /\ Over(w)
      /\ UNCHANGED <<used, purged, count, awards, cleared, missed, requests>>

(***************************************************************************)
(* PurgeUser of the administration deletes a user, whom the foreign keys   *)
(* follow: the resource, if it is the user's, the comments, and what       *)
(* answers them.  A patch on which there was any trace of the user is      *)
(* counted anew, hidden comments included.  The owner of the patch is      *)
(* refused.                                                                *)
(***************************************************************************)
PurgeUser(w) ==
  LET u == worker[w].user
      own == {c \in Ids : Here(c) /\ row[c].author = u}
  IN  /\ At(w, "purging")
      /\ purged' = purged \cup {u}
      /\ \E his, traces \in BOOLEAN :
           LET left == Remove(own \cup {c \in Ids : his /\ Here(c) /\ row[c].area = "resource"})
               rest == {c \in Ids : left[c] # Absent}
           IN  /\ his => resource
               /\ his \/ own # {} => traces
               /\ row' = left /\ resource' = (resource /\ ~his)
               /\ count' = IF traces THEN Cardinality(rest) ELSE count
               /\ drift' = IF traces THEN Cardinality(rest \ Shown) ELSE drift
      /\ Over(w)
      /\ UNCHANGED <<used, awards, cleared, missed, requests>>

-----------------------------------------------------------------------------
Step(w) ==
  \/ CheckParent(w) \/ InsertFails(w) \/ InsertComment(w)
  \/ CountComment(w) \/ PayOwner(w)
  \/ ReadForApproval(w) \/ Approve(w)
  \/ ReadForEdit(w) \/ Save(w)
  \/ ReadForDelete(w) \/ CountDoomed(w) \/ DeleteComment(w) \/ DiscountComment(w)
  \/ Hide(w) \/ DropResource(w) \/ PurgeUser(w)

Next == \E w \in Workers : Asks(w) \/ Step(w)

Spec == Init /\ [][Next]_vars

-----------------------------------------------------------------------------
(***************************************************************************)
(* Properties.                                                             *)
(***************************************************************************)
Busy ==
  [pc : {"parenting", "inserting", "counting", "paying", "reviewing", "approving", "editing",
         "saving", "checking", "sizing", "deleting", "discounting", "hiding", "dropping",
         "purging"},
   user : Users, area : Areas \cup {Absent}, parent : Ids \cup {Absent},
   comment : Ids \cup {Absent}, copy : CommentRow \cup {Absent}, n : 0 .. MaxComments]

\* Every variable has its type; ids not given out have no row.
TypeOK ==
  /\ used \in 0 .. MaxComments
  /\ row \in [Ids -> CommentRow \cup {Absent}]
  /\ \A c \in Ids : Here(c) => c <= used
  /\ resource \in BOOLEAN
  /\ count \in Nat /\ drift \in Nat
  /\ serial \in BOOLEAN /\ calls \in 0 .. MaxCalls
  /\ worker \in [Workers -> Busy \cup {Idle}]
  /\ awards \subseteq Ids /\ cleared \subseteq Ids /\ missed \subseteq Ids
  /\ purged \subseteq Users

\* An answer's parent is there, is no answer itself and is of the same discussion,
\* although the check and the insert are apart and an edit may bring a deleted row
\* back: deleting and counting go one level deep and rely on it.
ThreadsAreFlat ==
  \A c \in Ids :
    Here(c) /\ row[c].parent # Absent =>
      LET p == row[c].parent
      IN  Here(p) /\ row[p].parent = Absent /\ row[p].area = row[c].area

\* A comment that was to be verified is not shown before it is approved, whatever
\* copy of it is written back.
NeverShownUnapproved == Shown \subseteq cleared

\* A point is sent only for a comment that has been published, whatever other handlers do to
\* it meanwhile -- except that ApproveComment sends one, too, if the comment was deleted
\* between its reading and its update.
PaidIsCleared == awards \subseteq cleared \cup missed

\* One request at a time: the count is the number of comments shown plus what hiding
\* a shown comment, deleting the resource under it, or counting hidden ones after a
\* purge is known to leave behind; approving, deleting and cascades of hidden answers
\* keep it.
Quiet == \A w \in Workers : At(w, "idle")
CountedSerially == Quiet /\ serial => count = Cardinality(Shown) + drift
=============================================================================
