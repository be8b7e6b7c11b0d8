-------------------------- MODULE PatchCommentProofs --------------------------
(***************************************************************************)
(* Proofs about PatchComment for any number of handlers, users, comments   *)
(* and requests.  An edit may write a comment back that was deleted under  *)
(* it, so the invariant speaks of what each comment was born as: rows, and *)
(* copies of them, are those of one assignment of areas and parents, in    *)
(* which no parent is an answer.                                           *)
(***************************************************************************)
EXTENDS PatchComment, FiniteSetTheorems, TLAPS

\* A request knows its discussion, its comment, its copy of a row.
Asked ==
  \A w \in Workers :
    /\ worker[w].pc \in {"parenting", "inserting"} => worker[w].area \in Areas
    /\ worker[w].pc \in {"counting", "paying", "reviewing", "approving", "editing", "saving",
                         "checking", "sizing", "deleting", "discounting", "hiding"} =>
         worker[w].comment \in Ids
    /\ At(w, "saving") => worker[w].copy \in CommentRow

\* Who counts or pays for a comment does so after it was published, or found gone.
CountersCleared ==
  \A w \in Workers :
    worker[w].pc \in {"counting", "paying"} => worker[w].comment \in cleared \cup missed

Births == [Ids -> [area : Areas, parent : Ids \cup {Absent}]]

\* A parent may be answered in its discussion: it was given out and is no answer.
TopLevel(b, p, area) == p <= used /\ b[p].parent = Absent /\ b[p].area = area

\* b tells what every row and every copy of a row was born as.
Fits(b) ==
  /\ \A c \in Ids : b[c].parent # Absent => TopLevel(b, b[c].parent, b[c].area)
  /\ \A c \in Ids : Here(c) => row[c].area = b[c].area /\ row[c].parent = b[c].parent
  /\ \A w \in Workers :
       At(w, "inserting") /\ worker[w].parent # Absent =>
         TopLevel(b, worker[w].parent, worker[w].area)
  /\ \A w \in Workers :
       At(w, "saving") =>
         LET c == worker[w].comment
         IN  /\ worker[w].copy.area = b[c].area /\ worker[w].copy.parent = b[c].parent
             /\ worker[w].copy.shown => c \in cleared
             /\ c <= used

Born == \E b \in Births : Fits(b)

\* The foreign key of the parent.
ParentsHere ==
  \A c \in Ids : Here(c) /\ row[c].parent # Absent => Here(row[c].parent)

IInv ==
  /\ TypeOK
  /\ Asked
  /\ Born
  /\ ParentsHere
  /\ CountersCleared
  /\ NeverShownUnapproved
  /\ PaidIsCleared

-----------------------------------------------------------------------------
(***************************************************************************)
(* Lemmas.                                                                 *)
(***************************************************************************)
\* There are finitely many comments, no more than the bound.
LEMMA IdsFinite ==
  ASSUME NEW S \in SUBSET Ids
  PROVE  IsFiniteSet(S) /\ Cardinality(S) \in 0 .. MaxComments
<1>1. IsFiniteSet(Ids) /\ Cardinality(Ids) = MaxComments
  BY FS_Interval, BoundsAssumption DEF Ids
<1>2. IsFiniteSet(S) /\ Cardinality(S) <= Cardinality(Ids)
  BY <1>1, FS_Subset
<1>3. Cardinality(S) \in Nat
  BY <1>2, FS_CardinalityType
<1> QED BY <1>1, <1>2, <1>3

\* Absent is no id.
LEMMA NoIdIsAbsent == Absent \notin Ids
<1>1. Ids \subseteq Nat
  BY BoundsAssumption DEF Ids
<1> QED BY <1>1, AbsentAssumption

\* A handler at work has the record of a request.
LEMMA BusyType ==
  ASSUME TypeOK, NEW w \in Workers, ~At(w, "idle")
  PROVE  worker[w] \in Busy
  BY DEF TypeOK, At, Idle

\* One handler moves on, and the others stay.
LEMMA WorkerMoves ==
  ASSUME TypeOK, Asked, CountersCleared, NEW w \in Workers,
         NEW n \in Busy \cup {Idle}, worker' = [worker EXCEPT ![w] = n],
         cleared \subseteq cleared', missed \subseteq missed',
         n.pc \in {"parenting", "inserting"} => n.area \in Areas,
         n.pc \in {"counting", "paying", "reviewing", "approving", "editing", "saving",
                   "checking", "sizing", "deleting", "discounting", "hiding"} =>
           n.comment \in Ids,
         n.pc = "saving" => n.copy \in CommentRow,
         n.pc \in {"counting", "paying"} => n.comment \in cleared' \cup missed'
  PROVE  /\ worker' \in [Workers -> Busy \cup {Idle}]
         /\ worker'[w] = n /\ \A v \in Workers : v # w => worker'[v] = worker[v]
         /\ Asked' /\ CountersCleared'
<1>1. /\ worker' \in [Workers -> Busy \cup {Idle}]
      /\ worker'[w] = n /\ \A v \in Workers : v # w => worker'[v] = worker[v]
  BY DEF TypeOK
<1>2. Asked'
  BY <1>1 DEF Asked, At
<1>3. CountersCleared'
  BY <1>1 DEF CountersCleared
<1> QED BY <1>1, <1>2, <1>3

\* A handler that stops.
LEMMA Stops ==
  ASSUME TypeOK, Asked, CountersCleared, NEW w \in Workers, Over(w),
         cleared \subseteq cleared', missed \subseteq missed'
  PROVE  /\ worker' \in [Workers -> Busy \cup {Idle}]
         /\ worker'[w] = Idle /\ \A v \in Workers : v # w => worker'[v] = worker[v]
         /\ Asked' /\ CountersCleared'
  BY WorkerMoves DEF Over, Idle

\* A handler that goes on with the same request.
LEMMA GoesOn ==
  ASSUME TypeOK, Asked, CountersCleared, NEW w \in Workers, ~At(w, "idle"),
         NEW pc \in {"inserting", "counting", "paying", "sizing", "deleting", "discounting"},
         Goes(w, pc), cleared \subseteq cleared', missed \subseteq missed',
         pc = "inserting" => worker[w].area \in Areas,
         pc # "inserting" => worker[w].comment \in Ids,
         pc \in {"counting", "paying"} => worker[w].comment \in cleared' \cup missed'
  PROVE  /\ worker' \in [Workers -> Busy \cup {Idle}]
         /\ worker'[w].pc = pc /\ worker'[w].area = worker[w].area
         /\ worker'[w].parent = worker[w].parent /\ worker'[w].comment = worker[w].comment
         /\ \A v \in Workers : v # w => worker'[v] = worker[v]
         /\ Asked' /\ CountersCleared'
<1> DEFINE n == [worker[w] EXCEPT !.pc = pc]
<1>1. worker[w] \in Busy
  BY BusyType
<1>2. n \in Busy /\ n.pc = pc /\ n.area = worker[w].area /\ n.parent = worker[w].parent
      /\ n.comment = worker[w].comment
  BY <1>1 DEF Busy
<1>3. worker' = [worker EXCEPT ![w] = n]
  BY DEF Goes
<1> HIDE DEF n
<1> QED BY <1>2, <1>3, WorkerMoves

\* What was born stays as it was when one handler goes on to something else than
\* inserting or saving, and rows at most disappear or change their status.
LEMMA StaysBorn ==
  ASSUME TypeOK, Asked, Born, NEW w \in Workers,
         worker'[w].pc \notin {"inserting", "saving"},
         \A v \in Workers : v # w => worker'[v] = worker[v],
         used' \in Nat, used <= used', cleared \subseteq cleared',
         \A c \in Ids : row'[c] = Absent \/ (/\ Here(c) /\ row'[c].area = row[c].area
                                             /\ row'[c].parent = row[c].parent)
  PROVE  Born'
<1>1. PICK b \in Births : Fits(b)
  BY DEF Born
<1>2. \A c \in Ids :
        b[c].parent # Absent =>
          b[c].parent <= used' /\ b[b[c].parent].parent = Absent
            /\ b[b[c].parent].area = b[c].area
  BY <1>1 DEF Fits, TopLevel, Births, TypeOK, Ids
<1>3. \A c \in Ids : Here(c)' => row'[c].area = b[c].area /\ row'[c].parent = b[c].parent
  BY <1>1 DEF Fits, Here
<1>4. ASSUME NEW v \in Workers, At(v, "inserting")', worker'[v].parent # Absent
      PROVE  TopLevel(b, worker[v].parent, worker[v].area)'
  <2>1. v # w /\ worker'[v] = worker[v]
    BY <1>4 DEF At
  <2>2. At(v, "inserting") /\ worker[v].parent \in Ids
    BY <1>4, <2>1, BusyType DEF At, Busy
  <2>3. TopLevel(b, worker[v].parent, worker[v].area)
    BY <1>1, <1>4, <2>1, <2>2 DEF Fits
  <2> QED BY <2>1, <2>2, <2>3 DEF TopLevel, TypeOK, Ids
<1>5. ASSUME NEW v \in Workers, At(v, "saving")'
      PROVE  LET c == worker'[v].comment
             IN  /\ worker'[v].copy.area = b[c].area /\ worker'[v].copy.parent = b[c].parent
                 /\ worker'[v].copy.shown => c \in cleared'
                 /\ c <= used'
  <2>1. v # w /\ worker'[v] = worker[v] /\ At(v, "saving")
    BY <1>5 DEF At
  <2>2. worker[v].comment \in Ids
    BY <2>1 DEF Asked, At
  <2> QED BY <1>1, <2>1, <2>2 DEF Fits, TypeOK, Ids
<1>6. Fits(b)'
  BY <1>2, <1>3, <1>4, <1>5 DEF Fits, TopLevel
<1> QED BY <1>1, <1>6 DEF Born

\* Threads are one level deep because they were born so.
LEMMA BornFlat ==
  ASSUME TypeOK, Born, ParentsHere
  PROVE  ThreadsAreFlat
<1>1. PICK b \in Births : Fits(b)
  BY DEF Born
<1> QED BY <1>1 DEF ThreadsAreFlat, ParentsHere, Fits, TopLevel, TypeOK, CommentRow, Here

\* A cascade removes answers with what they answer and nothing else.
LEMMA RemoveKeeps ==
  ASSUME IInv, NEW gone \in SUBSET Ids
  PROVE  /\ Remove(gone) \in [Ids -> CommentRow \cup {Absent}]
         /\ \A c \in Ids : Remove(gone)[c] \in {row[c], Absent}
         /\ \A c \in Ids : Remove(gone)[c] # Absent /\ row[c].parent # Absent =>
              Remove(gone)[row[c].parent] # Absent
<1>1. ThreadsAreFlat /\ TypeOK
  BY BornFlat DEF IInv
<1>2. Absent \notin gone
  BY NoIdIsAbsent
<1>3. ASSUME NEW c \in Ids, Remove(gone)[c] # Absent, row[c].parent # Absent
      PROVE  Remove(gone)[row[c].parent] # Absent
  <2>1. Here(c) /\ row[c].parent \notin gone
    BY <1>3 DEF Remove, Here
  <2>2. row[c].parent \in Ids
    BY <1>1, <1>3, <2>1 DEF TypeOK, CommentRow, Here
  <2>3. Here(row[c].parent) /\ row[row[c].parent].parent = Absent
    BY <1>1, <1>3, <2>1 DEF ThreadsAreFlat
  <2> QED BY <1>2, <2>1, <2>2, <2>3 DEF Remove, Here
<1>4. /\ Remove(gone) \in [Ids -> CommentRow \cup {Absent}]
      /\ \A c \in Ids : Remove(gone)[c] \in {row[c], Absent}
  BY <1>1 DEF Remove, TypeOK
<1> QED BY <1>3, <1>4

\* A step that leaves the rows alone.
LEMMA SameRows ==
  ASSUME IInv, NEW w \in Workers,
         UNCHANGED <<row, resource, purged, drift, cleared, missed>>,
         used' \in 0 .. MaxComments, used <= used', count' \in Nat,
         awards' \subseteq cleared \cup missed, serial' \in BOOLEAN, calls' \in 0 .. MaxCalls,
         worker' \in [Workers -> Busy \cup {Idle}],
         \A v \in Workers : v # w => worker'[v] = worker[v],
         worker'[w].pc \notin {"inserting", "saving"}, Asked', CountersCleared'
  PROVE  IInv'
<1>1. Born'
  BY StaysBorn DEF IInv, TypeOK, Here
<1>2. TypeOK'
  BY DEF IInv, TypeOK, Here, Ids
<1> QED
  BY <1>1, <1>2 DEF IInv, ParentsHere, Here, NeverShownUnapproved, Shown, PaidIsCleared

\* A step that removes rows or changes who is shown.
LEMMA FewerRows ==
  ASSUME IInv, NEW w \in Workers, UNCHANGED <<used, awards, serial, calls>>,
         row' \in [Ids -> CommentRow \cup {Absent}],
         \A c \in Ids : row'[c] = Absent \/ (/\ Here(c) /\ row'[c].area = row[c].area
                                             /\ row'[c].parent = row[c].parent
                                             /\ row'[c].shown => row[c].shown \/ c \in cleared'),
         \A c \in Ids : row'[c] # Absent /\ row[c].parent # Absent =>
                          row'[row[c].parent] # Absent,
         resource' \in BOOLEAN, purged' \subseteq Users, count' \in Nat, drift' \in Nat,
         cleared \subseteq cleared', cleared' \subseteq Ids,
         missed \subseteq missed', missed' \subseteq Ids,
         worker' \in [Workers -> Busy \cup {Idle}],
         \A v \in Workers : v # w => worker'[v] = worker[v],
         worker'[w].pc \notin {"inserting", "saving"}, Asked', CountersCleared'
  PROVE  IInv'
<1>1. Born'
  BY StaysBorn DEF IInv, TypeOK
<1>2. TypeOK'
  BY DEF IInv, TypeOK, Here
<1>3. ParentsHere'
  BY DEF ParentsHere, Here
<1>4. NeverShownUnapproved'
  BY DEF IInv, NeverShownUnapproved, Shown, Here
<1>5. PaidIsCleared'
  BY DEF IInv, PaidIsCleared
<1> QED BY <1>1, <1>2, <1>3, <1>4, <1>5 DEF IInv

-----------------------------------------------------------------------------
(***************************************************************************)
(* The invariant holds initially and every step keeps it.                  *)
(***************************************************************************)
\* There is no comment and no request.
LEMMA InitInvariant == Init => IInv
<1> SUFFICES ASSUME Init PROVE IInv
  OBVIOUS
<1>1. TypeOK
  BY BoundsAssumption DEF Init, TypeOK, Here
<1>2. Asked /\ CountersCleared
  BY DEF Init, Asked, CountersCleared, Idle, At
<1>3. Born
  <2> DEFINE b == [c \in Ids |-> [area |-> "patch", parent |-> Absent]]
  <2>1. b \in Births /\ \A c \in Ids : b[c].parent = Absent
    BY DEF Births, Areas
  <2> HIDE DEF b
  <2>2. Fits(b)
    BY <2>1 DEF Init, Fits, Here, Idle, At
  <2> QED BY <2>1, <2>2 DEF Born
<1>4. ParentsHere /\ NeverShownUnapproved /\ PaidIsCleared
  BY DEF Init, ParentsHere, NeverShownUnapproved, PaidIsCleared, Shown, Here
<1> QED BY <1>1, <1>2, <1>3, <1>4 DEF IInv

\* What a handler may be asked.
Askable(pc, u, area, p, c) ==
  \/ pc = "parenting" /\ u \in Users /\ area \in Areas /\ p \in 1 .. used \cup {Absent} /\ c = Absent
  \/ pc \in {"editing", "checking"} /\ u \in Users /\ area = Absent /\ p = Absent /\ c \in 1 .. used
  \/ pc \in {"reviewing", "hiding"} /\ u \in Users /\ area = Absent /\ p = Absent /\ c \in 1 .. used
  \/ pc \in {"dropping", "purging"} /\ u \in Users /\ area = Absent /\ p = Absent /\ c = Absent

\* Every request is one of those.
LEMMA AsksCall ==
  ASSUME NEW w \in Workers, Asks(w)
  PROVE  \E pc, u, area, p, c : Askable(pc, u, area, p, c) /\ Call(w, Request(pc, u, area, p, c))
<1> USE UsersAssumption
<1>1. CASE CreateCommentRequest(w)
  BY <1>1 DEF CreateCommentRequest, Askable, Areas
<1>2. CASE CreateResourceCommentRequest(w)
  BY <1>2 DEF CreateResourceCommentRequest, Askable, Areas
<1>3. CASE UpdateCommentRequest(w)
  BY <1>3 DEF UpdateCommentRequest, Askable
<1>4. CASE DeleteCommentRequest(w)
  BY <1>4 DEF DeleteCommentRequest, Askable
<1>5. CASE ApproveCommentRequest(w)
  BY <1>5 DEF ApproveCommentRequest, Askable
<1>6. CASE HideCallback(w)
  BY <1>6 DEF HideCallback, Askable
<1>7. CASE DeleteResourceRequest(w)
  BY <1>7 DEF DeleteResourceRequest, Askable
<1>8. CASE PurgeUserRequest(w)
  BY <1>8 DEF PurgeUserRequest, Askable
<1> QED BY <1>1, <1>2, <1>3, <1>4, <1>5, <1>6, <1>7, <1>8 DEF Asks

\* A request arrives.
LEMMA CallStep ==
  ASSUME IInv, NEW w \in Workers, Asks(w)
  PROVE  IInv'
<1>0. PICK pc, u, area, p, c :
        Askable(pc, u, area, p, c) /\ Call(w, Request(pc, u, area, p, c))
  BY AsksCall
<1>1. PICK r : r = Request(pc, u, area, p, c)
  OBVIOUS
<1>2. /\ r \in Busy
      /\ r.pc \in {"parenting", "editing", "checking", "reviewing", "hiding", "dropping",
                   "purging"}
      /\ r.pc = "parenting" => r.area \in Areas
      /\ r.pc \in {"editing", "checking", "reviewing", "hiding"} => r.comment \in Ids
  <2>1. 1 .. used \subseteq Ids
    BY BoundsAssumption DEF IInv, TypeOK, Ids
  <2> QED
    BY <1>0, <1>1, <2>1, UsersAssumption, BoundsAssumption DEF Request, Busy, Askable
<1>3. /\ worker' \in [Workers -> Busy \cup {Idle}]
      /\ worker'[w] = r /\ \A v \in Workers : v # w => worker'[v] = worker[v]
      /\ Asked' /\ CountersCleared'
  BY <1>0, <1>1, <1>2, WorkerMoves DEF IInv, Call, history
<1>4. calls' \in 0 .. MaxCalls /\ serial' \in BOOLEAN
  BY <1>0, BoundsAssumption DEF IInv, TypeOK, Call
<1> QED
  BY <1>0, <1>2, <1>3, <1>4, SameRows DEF IInv, TypeOK, PaidIsCleared, Call, history

\* The parent that was looked at is one that may be answered, and stays so.
LEMMA CheckParentStep ==
  ASSUME IInv, NEW w \in Workers, CheckParent(w)
  PROVE  IInv'
<1> DEFINE p == worker[w].parent  area == worker[w].area
<1>1. UNCHANGED <<row, used, resource, purged, count, awards, cleared, missed, drift, serial, calls>>
  BY DEF CheckParent, history, requests
<1>2. CASE Over(w)
  <2>1. /\ worker' \in [Workers -> Busy \cup {Idle}] /\ worker'[w] = Idle
        /\ \A v \in Workers : v # w => worker'[v] = worker[v]
        /\ Asked' /\ CountersCleared'
    BY <1>1, <1>2, Stops DEF IInv
  <2> QED BY <1>1, <2>1, SameRows DEF IInv, TypeOK, PaidIsCleared, Idle
<1>3. CASE ~Over(w)
  <2>1. Goes(w, "inserting") /\ (p # Absent => Answerable(p, area))
    BY <1>3 DEF CheckParent
  <2>2. worker[w] \in Busy /\ area \in Areas
    BY BusyType DEF IInv, CheckParent, At, Asked
  <2>3. /\ worker' \in [Workers -> Busy \cup {Idle}]
        /\ worker'[w].area = area /\ worker'[w].parent = p /\ worker'[w].pc = "inserting"
        /\ \A v \in Workers : v # w => worker'[v] = worker[v]
        /\ Asked' /\ CountersCleared'
    BY <1>1, <2>1, <2>2, GoesOn DEF IInv, CheckParent, At
  <2>4. PICK b \in Births : Fits(b)
    BY DEF IInv, Born
  <2>5. p # Absent => TopLevel(b, p, area)
    BY <2>1, <2>2, <2>4 DEF Answerable, Fits, TopLevel, IInv, TypeOK, Busy
  <2>6. Fits(b)'
    BY <1>1, <2>3, <2>4, <2>5 DEF Fits, TopLevel, At, Here
  <2> QED
    BY <1>1, <2>3, <2>6 DEF IInv, TypeOK, Born, ParentsHere, NeverShownUnapproved, Shown,
       PaidIsCleared, Here
<1> QED BY <1>2, <1>3

\* A new row is born as it was checked, and its parent is there (KeysHold).
LEMMA InsertStep ==
  ASSUME IInv, NEW w \in Workers, InsertComment(w)
  PROVE  IInv'
<1> DEFINE c == used + 1  p == worker[w].parent  area == worker[w].area
<1>1. /\ worker[w] \in Busy /\ area \in Areas /\ c \in Ids /\ used' = c
      /\ p # Absent => p \in Ids /\ Here(p)
      /\ UNCHANGED <<resource, purged, count, awards, missed, drift, serial, calls>>
  BY BusyType DEF IInv, InsertComment, KeysHold, At, Asked, requests, Busy
<1>2. PICK pending \in BOOLEAN :
        /\ row' = [row EXCEPT ![c] = [author |-> worker[w].user, area |-> area,
                                      parent |-> p, shown |-> ~pending]]
        /\ cleared' = IF pending THEN cleared ELSE cleared \cup {c}
        /\ worker' = [worker EXCEPT ![w] =
             IF pending THEN Idle ELSE [@ EXCEPT !.pc = "counting", !.comment = c]]
  BY DEF InsertComment
<1>3. /\ \A d \in Ids : d # c => row'[d] = row[d]
      /\ row'[c] \in CommentRow /\ row'[c].area = area /\ row'[c].parent = p
      /\ row'[c].shown = ~pending
      /\ row' \in [Ids -> CommentRow \cup {Absent}]
  BY <1>1, <1>2 DEF IInv, TypeOK, CommentRow, Busy
<1>4. row'[c] # Absent
  BY <1>3, AbsentAssumption
<1>5. /\ worker' \in [Workers -> Busy \cup {Idle}]
      /\ worker'[w].pc \in {"idle", "counting"}
      /\ \A v \in Workers : v # w => worker'[v] = worker[v]
      /\ Asked' /\ CountersCleared'
  <2>1. CASE pending
    BY <1>1, <1>2, <2>1, Stops DEF IInv, Over, Idle
  <2>2. CASE ~pending
    <3> DEFINE n == [worker[w] EXCEPT !.pc = "counting", !.comment = c]
    <3>1. n \in Busy /\ n.pc = "counting" /\ n.comment = c
      BY <1>1 DEF Busy
    <3>2. worker' = [worker EXCEPT ![w] = n] /\ c \in cleared' /\ cleared \subseteq cleared'
      BY <1>2, <2>2
    <3> HIDE DEF n
    <3> QED BY <1>1, <3>1, <3>2, WorkerMoves DEF IInv
  <2> QED BY <2>1, <2>2
<1>6. Born'
  <2>1. PICK b \in Births : Fits(b)
    BY DEF IInv, Born
  <2>2. PICK a \in Births : /\ a[c].area = area /\ a[c].parent = p
                            /\ \A d \in Ids : d # c => a[d] = b[d]
    <3> DEFINE born == [b EXCEPT ![c] = [area |-> area, parent |-> p]]
    <3>1. /\ born \in Births /\ born[c].area = area /\ born[c].parent = p
          /\ \A d \in Ids : d # c => born[d] = b[d]
      BY <1>1, <2>1 DEF Births
    <3> QED BY <3>1
  <2>3. used \in Nat /\ c > used
    BY DEF IInv, TypeOK
  <2>4. p # Absent => p \in Ids /\ p <= used /\ p # c /\ b[p].parent = Absent
                        /\ b[p].area = area
    BY <1>1, <2>1, <2>3 DEF Fits, TopLevel, InsertComment, At, Ids
  <2>5. \A d \in Ids : a[d].parent # Absent =>
          a[d].parent <= used' /\ a[a[d].parent].parent = Absent /\ a[a[d].parent].area = a[d].area
    <3> TAKE d \in Ids
    <3>1. CASE d = c
      BY <1>1, <2>2, <2>3, <2>4, <3>1 DEF Ids
    <3>2. CASE d # c
      BY <1>1, <2>1, <2>2, <2>3, <3>2 DEF Fits, TopLevel, Births, Ids
    <3> QED BY <3>1, <3>2
  <2>6. \A d \in Ids : row'[d] # Absent => row'[d].area = a[d].area /\ row'[d].parent = a[d].parent
    BY <1>3, <2>1, <2>2 DEF Fits, Here
  <2>7. ASSUME NEW v \in Workers, At(v, "inserting")', worker'[v].parent # Absent
        PROVE  worker'[v].parent <= used' /\ a[worker'[v].parent].parent = Absent
                 /\ a[worker'[v].parent].area = worker'[v].area
    <3>1. v # w /\ worker'[v] = worker[v] /\ At(v, "inserting")
      BY <1>5, <2>7 DEF At
    <3>2. worker[v].parent \in Ids /\ TopLevel(b, worker[v].parent, worker[v].area)
      BY <2>1, <2>7, <3>1, BusyType DEF At, Busy, IInv, Fits
    <3> QED BY <1>1, <2>2, <2>3, <3>1, <3>2 DEF TopLevel, Ids
  <2>8. ASSUME NEW v \in Workers, At(v, "saving")'
        PROVE  LET d == worker'[v].comment
               IN  /\ worker'[v].copy.area = a[d].area /\ worker'[v].copy.parent = a[d].parent
                   /\ worker'[v].copy.shown => d \in cleared'
                   /\ d <= used'
    <3>1. v # w /\ worker'[v] = worker[v] /\ At(v, "saving")
      BY <1>5, <2>8 DEF At
    <3>2. worker[v].comment \in Ids
      BY <3>1 DEF IInv, Asked, At
    <3> QED BY <1>1, <1>2, <2>1, <2>2, <2>3, <3>1, <3>2 DEF Fits, Ids
  <2>9. Fits(a)'
    BY <2>5, <2>6, <2>7, <2>8 DEF Fits, TopLevel, Here
  <2> QED BY <2>2, <2>9 DEF Born
<1>7. ParentsHere'
  BY <1>1, <1>3, <1>4 DEF IInv, ParentsHere, Here, TypeOK, CommentRow
<1>8. NeverShownUnapproved'
  BY <1>1, <1>2, <1>3 DEF IInv, NeverShownUnapproved, Shown, Here
<1>9. TypeOK'
  BY <1>1, <1>2, <1>3, <1>5 DEF IInv, TypeOK, Here, Ids
<1>10. PaidIsCleared'
  BY <1>1, <1>2 DEF IInv, PaidIsCleared
<1> QED BY <1>5, <1>6, <1>7, <1>8, <1>9, <1>10 DEF IInv

\* A refused row has used up an id.
LEMMA InsertFailsStep ==
  ASSUME IInv, NEW w \in Workers, InsertFails(w)
  PROVE  IInv'
<1>1. /\ worker' \in [Workers -> Busy \cup {Idle}] /\ worker'[w] = Idle
      /\ \A v \in Workers : v # w => worker'[v] = worker[v]
      /\ Asked' /\ CountersCleared'
  BY Stops DEF IInv, InsertFails, history
<1> QED
  BY <1>1, SameRows, BoundsAssumption
  DEF IInv, TypeOK, PaidIsCleared, Idle, InsertFails, history, requests

\* Counting and paying for a comment that was published.
LEMMA SideEffectsStep ==
  ASSUME IInv, NEW w \in Workers, CountComment(w) \/ PayOwner(w)
  PROVE  IInv'
<1>1. worker[w].comment \in Ids \cap (cleared \cup missed)
  BY DEF IInv, Asked, CountersCleared, CountComment, PayOwner, At
<1>2. CASE CountComment(w)
  <2>1. /\ worker' \in [Workers -> Busy \cup {Idle}] /\ worker'[w].pc = "paying"
        /\ \A v \in Workers : v # w => worker'[v] = worker[v]
        /\ Asked' /\ CountersCleared'
    BY <1>1, <1>2, GoesOn DEF IInv, CountComment, At, history
  <2> QED
    BY <1>2, <2>1, SameRows DEF IInv, TypeOK, PaidIsCleared, CountComment, history, requests
<1>3. CASE PayOwner(w)
  <2>1. /\ worker' \in [Workers -> Busy \cup {Idle}] /\ worker'[w] = Idle
        /\ \A v \in Workers : v # w => worker'[v] = worker[v]
        /\ Asked' /\ CountersCleared'
    BY <1>3, Stops DEF IInv, PayOwner
  <2> QED
    BY <1>1, <1>3, <2>1, SameRows DEF IInv, TypeOK, PaidIsCleared, Idle, PayOwner, requests
<1> QED BY <1>2, <1>3

\* Approving reads the author and then publishes, if the row is still there.
LEMMA ReadForApprovalStep ==
  ASSUME IInv, NEW w \in Workers, ReadForApproval(w)
  PROVE  IInv'
<1> DEFINE c == worker[w].comment
<1>1. worker[w] \in Busy /\ c \in Ids /\ c \in DOMAIN row
  BY BusyType DEF IInv, ReadForApproval, At, Asked, TypeOK
<1>2. PICK n \in Busy \cup {Idle} :
        /\ worker' = [worker EXCEPT ![w] = n]
        /\ n.pc \in {"idle", "approving"} /\ (n.pc = "approving" => n.comment = c)
  <2>1. CASE Here(c) /\ ~row[c].shown
    <3> DEFINE n == [worker[w] EXCEPT !.pc = "approving", !.user = row[c].author]
    <3>1. row[c].author \in Users
      BY <1>1, <2>1 DEF IInv, TypeOK, CommentRow, Here
    <3>2. n \in Busy /\ n.pc = "approving" /\ n.comment = c
      BY <1>1, <3>1 DEF Busy
    <3>3. worker' = [worker EXCEPT ![w] = n]
      BY <2>1 DEF ReadForApproval
    <3> QED BY <3>2, <3>3
  <2>2. CASE ~(Here(c) /\ ~row[c].shown)
    <3>1. worker' = [worker EXCEPT ![w] = Idle]
      BY <2>2 DEF ReadForApproval
    <3>2. Idle.pc = "idle"
      BY DEF Idle
    <3> QED BY <3>1, <3>2
  <2> QED BY <2>1, <2>2
<1>3. /\ worker' \in [Workers -> Busy \cup {Idle}] /\ worker'[w] = n
      /\ \A v \in Workers : v # w => worker'[v] = worker[v]
      /\ Asked' /\ CountersCleared'
  BY <1>1, <1>2, WorkerMoves DEF IInv, ReadForApproval, history
<1> QED
  BY <1>2, <1>3, SameRows DEF IInv, TypeOK, PaidIsCleared, ReadForApproval, history, requests

LEMMA ApproveStep ==
  ASSUME IInv, NEW w \in Workers, Approve(w)
  PROVE  IInv'
<1> DEFINE c == worker[w].comment
<1>1. /\ c \in Ids /\ cleared \subseteq cleared' /\ missed \subseteq missed'
      /\ c \in cleared' \cup missed'
      /\ Here(c) => c \in cleared'
  BY DEF IInv, Approve, At, Asked
<1>2. /\ worker' \in [Workers -> Busy \cup {Idle}] /\ worker'[w].pc = "counting"
      /\ \A v \in Workers : v # w => worker'[v] = worker[v]
      /\ Asked' /\ CountersCleared'
  BY <1>1, GoesOn DEF IInv, Approve, At
<1>3. /\ row' \in [Ids -> CommentRow \cup {Absent}]
      /\ \A d \in Ids : row'[d] = row[d] \/ (/\ d = c /\ Here(c) /\ row'[c] \in CommentRow
                                             /\ row'[c].area = row[c].area
                                             /\ row'[c].parent = row[c].parent)
  <2>1. CASE Here(c)
    <3> DEFINE r == [row[c] EXCEPT !.shown = TRUE]
    <3>1. /\ r \in CommentRow /\ r.area = row[c].area /\ r.parent = row[c].parent
          /\ r.shown = TRUE
      BY <1>1, <2>1 DEF IInv, TypeOK, Here, CommentRow
    <3>2. row' = [row EXCEPT ![c] = r]
      BY <2>1 DEF Approve
    <3> HIDE DEF r
    <3> QED BY <1>1, <2>1, <3>1, <3>2 DEF IInv, TypeOK
  <2>2. CASE ~Here(c)
    BY <2>2 DEF Approve, IInv, TypeOK
  <2> QED BY <2>1, <2>2
<1>4. \A d \in Ids : row'[d] # Absent => Here(d)
  BY <1>3 DEF Here
<1>5. \A d \in Ids : row'[d] = Absent \/ (/\ Here(d) /\ row'[d].area = row[d].area
                                          /\ row'[d].parent = row[d].parent
                                          /\ row'[d].shown => row[d].shown \/ d \in cleared')
  <2> SUFFICES ASSUME NEW d \in Ids, row'[d] # Absent
               PROVE  /\ Here(d) /\ row'[d].area = row[d].area
                      /\ row'[d].parent = row[d].parent
                      /\ row'[d].shown => row[d].shown \/ d \in cleared'
    OBVIOUS
  <2>1. CASE row'[d] = row[d]
    BY <1>4, <2>1
  <2>2. CASE d = c /\ Here(c)
    <3>1. Here(d) /\ d \in cleared'
      BY <1>1, <2>2 DEF Here
    <3>2. row'[d].area = row[d].area /\ row'[d].parent = row[d].parent
      BY <1>3, <2>2
    <3> QED BY <3>1, <3>2
  <2> QED BY <1>3, <2>1, <2>2
<1>6. \A d \in Ids : Here(d) => row'[d] # Absent
  BY <1>3, AbsentAssumption DEF Here
<1>7. \A d \in Ids : row'[d] # Absent /\ row[d].parent # Absent => row'[row[d].parent] # Absent
  BY <1>4, <1>6 DEF IInv, ParentsHere, TypeOK, CommentRow, Here
<1>8. /\ UNCHANGED <<used, resource, purged, count, awards, drift, serial, calls>>
      /\ resource \in BOOLEAN /\ count \in Nat /\ drift \in Nat /\ purged \subseteq Users
      /\ cleared' \subseteq Ids /\ missed' \subseteq Ids
  BY <1>1 DEF IInv, TypeOK, Approve, requests
<1> QED BY <1>1, <1>2, <1>3, <1>5, <1>7, <1>8, FewerRows

\* Moderation hides what is shown.
LEMMA HideStep ==
  ASSUME IInv, NEW w \in Workers, Hide(w)
  PROVE  IInv'
<1> DEFINE c == worker[w].comment
<1>1. c \in Ids /\ UNCHANGED <<cleared, missed>>
  BY DEF IInv, Hide, At, Asked
<1>2. /\ worker' \in [Workers -> Busy \cup {Idle}] /\ worker'[w] = Idle
      /\ \A v \in Workers : v # w => worker'[v] = worker[v]
      /\ Asked' /\ CountersCleared'
  BY <1>1, Stops DEF IInv, Hide
<1>3. /\ row' \in [Ids -> CommentRow \cup {Absent}]
      /\ \A d \in Ids : row'[d] = row[d] \/ (/\ d = c /\ Here(c) /\ row'[c] \in CommentRow
                                             /\ row'[c].area = row[c].area
                                             /\ row'[c].parent = row[c].parent
                                             /\ ~row'[c].shown)
  <2>1. CASE Here(c)
    <3> DEFINE r == [row[c] EXCEPT !.shown = FALSE]
    <3>1. /\ r \in CommentRow /\ r.area = row[c].area /\ r.parent = row[c].parent
          /\ r.shown = FALSE
      BY <1>1, <2>1 DEF IInv, TypeOK, Here, CommentRow
    <3>2. row' = [row EXCEPT ![c] = r]
      BY <2>1 DEF Hide
    <3> HIDE DEF r
    <3> QED BY <1>1, <2>1, <3>1, <3>2 DEF IInv, TypeOK
  <2>2. CASE ~Here(c)
    BY <2>2 DEF Hide, IInv, TypeOK
  <2> QED BY <2>1, <2>2
<1>4. \A d \in Ids : row'[d] = Absent \/ (/\ Here(d) /\ row'[d].area = row[d].area
                                          /\ row'[d].parent = row[d].parent
                                          /\ row'[d].shown => row[d].shown \/ d \in cleared')
  BY <1>3 DEF Here
<1>5. \A d \in Ids : Here(d) => row'[d] # Absent
  BY <1>3, AbsentAssumption DEF Here
<1>6. \A d \in Ids : row'[d] # Absent /\ row[d].parent # Absent => row'[row[d].parent] # Absent
  BY <1>4, <1>5 DEF IInv, ParentsHere, TypeOK, CommentRow, Here
<1>7. drift' \in Nat
  <2>1. Cardinality(Shown \cap {c}) \in Nat
    BY IdsFinite DEF Shown
  <2> QED BY <2>1 DEF Hide, IInv, TypeOK
<1>8. /\ UNCHANGED <<used, resource, purged, count, awards, cleared, missed, serial, calls>>
      /\ resource \in BOOLEAN /\ count \in Nat /\ purged \subseteq Users
      /\ cleared \subseteq Ids /\ missed \subseteq Ids
  BY DEF IInv, TypeOK, Hide, requests
<1>9. worker'[w].pc \notin {"inserting", "saving"}
  BY <1>2 DEF Idle
<1> QED BY <1>2, <1>3, <1>4, <1>6, <1>7, <1>8, <1>9, FewerRows

\* An edit starts with the author's copy of the row.
LEMMA ReadForEditStep ==
  ASSUME IInv, NEW w \in Workers, ReadForEdit(w)
  PROVE  IInv'
<1> DEFINE c == worker[w].comment
<1>1. /\ worker[w] \in Busy /\ c \in Ids
      /\ UNCHANGED <<row, used, resource, purged, count, awards, cleared, missed, drift, serial, calls>>
  BY BusyType DEF IInv, ReadForEdit, At, Asked, history, requests
<1>2. CASE ~(Here(c) /\ row[c].author = worker[w].user)
  <2>1. Over(w)
    BY <1>2 DEF ReadForEdit, Over
  <2>2. /\ worker' \in [Workers -> Busy \cup {Idle}] /\ worker'[w] = Idle
        /\ \A v \in Workers : v # w => worker'[v] = worker[v]
        /\ Asked' /\ CountersCleared'
    BY <1>1, <2>1, Stops DEF IInv
  <2> QED BY <1>1, <2>2, SameRows DEF IInv, TypeOK, PaidIsCleared, Idle
<1>3. CASE Here(c) /\ row[c].author = worker[w].user
  <2> DEFINE n == [worker[w] EXCEPT !.pc = "saving", !.copy = row[c]]
  <2>1. row[c] \in CommentRow
    BY <1>1, <1>3 DEF IInv, TypeOK, Here
  <2>2. n \in Busy /\ n.pc = "saving" /\ n.comment = c /\ n.copy = row[c]
    BY <1>1, <2>1 DEF Busy
  <2>3. worker' = [worker EXCEPT ![w] = n]
    BY <1>3 DEF ReadForEdit
  <2> HIDE DEF n
  <2>4. /\ worker' \in [Workers -> Busy \cup {Idle}] /\ worker'[w] = n
        /\ \A v \in Workers : v # w => worker'[v] = worker[v]
        /\ Asked' /\ CountersCleared'
    BY <1>1, <2>1, <2>2, <2>3, WorkerMoves DEF IInv
  <2>5. PICK b \in Births : Fits(b)
    BY DEF IInv, Born
  <2>6. /\ row[c].area = b[c].area /\ row[c].parent = b[c].parent
        /\ row[c].shown => c \in cleared
        /\ c <= used
    BY <1>1, <1>3, <2>5 DEF Fits, IInv, NeverShownUnapproved, Shown, TypeOK
  <2>7. Fits(b)'
    BY <1>1, <2>2, <2>4, <2>5, <2>6 DEF Fits, TopLevel, At, Here
  <2> QED
    BY <1>1, <2>4, <2>7 DEF IInv, TypeOK, Born, ParentsHere, NeverShownUnapproved, Shown,
       PaidIsCleared, Here
<1> QED BY <1>2, <1>3

\* Writing the copy back restores at most what the comment was born as, under a parent
\* that is there.
LEMMA SaveStep ==
  ASSUME IInv, NEW w \in Workers, Save(w)
  PROVE  IInv'
<1> DEFINE c == worker[w].comment  copy == worker[w].copy
<1>1. /\ c \in Ids /\ copy \in CommentRow
      /\ UNCHANGED <<used, resource, purged, count, awards, cleared, missed, drift, serial, calls>>
  BY DEF IInv, Save, At, Asked, history, requests
<1>2. /\ worker' \in [Workers -> Busy \cup {Idle}] /\ worker'[w] = Idle
      /\ \A v \in Workers : v # w => worker'[v] = worker[v]
      /\ Asked' /\ CountersCleared'
  BY <1>1, Stops DEF IInv, Save
<1>3. \/ row' = row
      \/ /\ row' = [row EXCEPT ![c] = copy]
         /\ Here(c) \/ KeysHold(copy.author, copy.parent, copy.area)
  BY DEF Save
<1>4. CASE row' = row
  BY <1>1, <1>2, <1>4, SameRows DEF IInv, TypeOK, PaidIsCleared, Idle
<1>5. CASE /\ row' = [row EXCEPT ![c] = copy]
           /\ Here(c) \/ KeysHold(copy.author, copy.parent, copy.area)
  <2>1. PICK b \in Births : Fits(b)
    BY DEF IInv, Born
  <2>2. /\ copy.area = b[c].area /\ copy.parent = b[c].parent
        /\ copy.shown => c \in cleared
        /\ c <= used
    BY <2>1 DEF Fits, Save
  <2>3. /\ row'[c] = copy /\ \A d \in Ids : d # c => row'[d] = row[d]
        /\ row' \in [Ids -> CommentRow \cup {Absent}]
        /\ row'[c] # Absent
    BY <1>1, <1>5, AbsentAssumption DEF IInv, TypeOK
  <2>4. Fits(b)'
    BY <1>1, <1>2, <2>1, <2>2, <2>3 DEF Fits, TopLevel, At, Here, Idle
  <2>5. copy.parent # Absent => copy.parent \in Ids /\ Here(copy.parent)
    BY <1>1, <1>5, <2>1, <2>2 DEF CommentRow, KeysHold, IInv, ParentsHere, Fits, Here
  <2>6. ParentsHere'
    BY <1>1, <2>3, <2>5 DEF IInv, TypeOK, CommentRow, ParentsHere, Here
  <2>7. NeverShownUnapproved'
    BY <1>1, <2>2, <2>3 DEF IInv, NeverShownUnapproved, Shown, Here
  <2>8. TypeOK'
    BY <1>1, <1>2, <2>2, <2>3 DEF IInv, TypeOK, Here
  <2> QED
    BY <1>1, <1>2, <2>4, <2>6, <2>7, <2>8 DEF IInv, Born, PaidIsCleared
<1> QED BY <1>3, <1>4, <1>5

\* Deleting: the check, the size, the cascade, the count.
LEMMA ReadForDeleteStep ==
  ASSUME IInv, NEW w \in Workers, ReadForDelete(w)
  PROVE  IInv'
<1>1. Goes(w, "sizing") \/ Over(w)
  BY DEF ReadForDelete
<1>2. worker[w].comment \in Ids
  BY DEF IInv, ReadForDelete, At, Asked
<1>3. /\ worker' \in [Workers -> Busy \cup {Idle}] /\ worker'[w].pc \in {"idle", "sizing"}
      /\ \A v \in Workers : v # w => worker'[v] = worker[v]
      /\ Asked' /\ CountersCleared'
  BY <1>1, <1>2, GoesOn, Stops DEF IInv, ReadForDelete, At, Idle, history
<1> QED
  BY <1>3, SameRows DEF IInv, TypeOK, PaidIsCleared, ReadForDelete, history, requests

LEMMA CountDoomedStep ==
  ASSUME IInv, NEW w \in Workers, CountDoomed(w)
  PROVE  IInv'
<1> DEFINE k == Cardinality(SizeOf(worker[w].comment))
           n == [worker[w] EXCEPT !.pc = "deleting", !.n = k]
<1>1. worker[w] \in Busy /\ worker[w].comment \in Ids
  BY BusyType DEF IInv, CountDoomed, At, Asked
<1>2. k \in 0 .. MaxComments
  BY IdsFinite DEF SizeOf, Shown
<1>3. n \in Busy /\ n.pc = "deleting" /\ n.comment = worker[w].comment
  BY <1>1, <1>2 DEF Busy
<1>4. worker' = [worker EXCEPT ![w] = n]
  BY DEF CountDoomed
<1> HIDE DEF n
<1>5. /\ worker' \in [Workers -> Busy \cup {Idle}] /\ worker'[w] = n
      /\ \A v \in Workers : v # w => worker'[v] = worker[v]
      /\ Asked' /\ CountersCleared'
  BY <1>1, <1>3, <1>4, WorkerMoves DEF IInv, CountDoomed, history
<1> QED
  BY <1>3, <1>5, SameRows DEF IInv, TypeOK, PaidIsCleared, CountDoomed, history, requests

LEMMA DeleteCommentStep ==
  ASSUME IInv, NEW w \in Workers, DeleteComment(w)
  PROVE  IInv'
<1>1. worker[w].comment \in Ids /\ row' = Remove({worker[w].comment})
      /\ UNCHANGED <<used, resource, purged, count, awards, cleared, missed, drift, serial, calls>>
  BY DEF IInv, DeleteComment, At, Asked, history, requests
<1>2. /\ worker' \in [Workers -> Busy \cup {Idle}] /\ worker'[w].pc = "discounting"
      /\ \A v \in Workers : v # w => worker'[v] = worker[v]
      /\ Asked' /\ CountersCleared'
  BY <1>1, GoesOn DEF IInv, DeleteComment, At
<1>3. /\ row' \in [Ids -> CommentRow \cup {Absent}]
      /\ \A c \in Ids : row'[c] \in {row[c], Absent}
      /\ \A c \in Ids : row'[c] # Absent /\ row[c].parent # Absent =>
                         row'[row[c].parent] # Absent
  BY <1>1, RemoveKeeps
<1> QED BY <1>1, <1>2, <1>3, FewerRows DEF IInv, TypeOK, Here

LEMMA DiscountStep ==
  ASSUME IInv, NEW w \in Workers, DiscountComment(w)
  PROVE  IInv'
<1>1. worker[w] \in Busy
  BY BusyType DEF IInv, DiscountComment, At
<1>2. count' \in Nat
  BY <1>1, BoundsAssumption DEF IInv, TypeOK, DiscountComment, Busy
<1>3. /\ worker' \in [Workers -> Busy \cup {Idle}] /\ worker'[w] = Idle
      /\ \A v \in Workers : v # w => worker'[v] = worker[v]
      /\ Asked' /\ CountersCleared'
  BY Stops DEF IInv, DiscountComment, history
<1> QED
  BY <1>2, <1>3, SameRows DEF IInv, TypeOK, PaidIsCleared, Idle, DiscountComment, history,
     requests

\* The resource goes with its discussion.
LEMMA DropResourceStep ==
  ASSUME IInv, NEW w \in Workers, DropResource(w)
  PROVE  IInv'
<1> DEFINE gone == {c \in Ids : Here(c) /\ row[c].area = "resource"}
<1>1. row' = Remove(gone) /\ resource' = FALSE /\ gone \in SUBSET Ids
      /\ UNCHANGED <<used, purged, count, awards, cleared, missed, serial, calls>>
  BY DEF DropResource, requests
<1>2. drift' \in Nat
  <2>1. Cardinality(Shown \cap gone) \in Nat
    BY IdsFinite DEF Shown
  <2> QED BY <2>1 DEF DropResource, IInv, TypeOK
<1>3. /\ worker' \in [Workers -> Busy \cup {Idle}] /\ worker'[w] = Idle
      /\ \A v \in Workers : v # w => worker'[v] = worker[v]
      /\ Asked' /\ CountersCleared'
  BY <1>1, Stops DEF IInv, DropResource
<1>4. /\ row' \in [Ids -> CommentRow \cup {Absent}]
      /\ \A c \in Ids : row'[c] \in {row[c], Absent}
      /\ \A c \in Ids : row'[c] # Absent /\ row[c].parent # Absent =>
                         row'[row[c].parent] # Absent
  BY <1>1, RemoveKeeps
<1>5. /\ count' \in Nat /\ purged' \subseteq Users /\ cleared' \subseteq Ids /\ missed' \subseteq Ids
  BY <1>1 DEF IInv, TypeOK
<1>6. resource' \in BOOLEAN /\ worker'[w].pc \notin {"inserting", "saving"}
  <2>1. resource' = FALSE
    BY DEF DropResource
  <2>2. resource' \in BOOLEAN
    BY <2>1
  <2>3. worker'[w].pc = "idle"
    BY <1>3 DEF Idle
  <2> QED BY <2>2, <2>3
<1> HIDE DEF gone
<1> QED BY <1>1, <1>2, <1>3, <1>4, <1>5, <1>6, FewerRows DEF Here

\* A purged user's comments go, with what answers them, and perhaps the resource.
LEMMA PurgeStep ==
  ASSUME IInv, NEW w \in Workers, PurgeUser(w)
  PROVE  IInv'
<1> DEFINE u == worker[w].user
           own == {c \in Ids : Here(c) /\ row[c].author = u}
<1>1. worker[w] \in Busy
  BY BusyType DEF IInv, PurgeUser, At
<1>2. PICK his \in BOOLEAN, traces \in BOOLEAN :
        LET left == Remove(own \cup {c \in Ids : his /\ Here(c) /\ row[c].area = "resource"})
            rest == {c \in Ids : left[c] # Absent}
        IN  /\ row' = left /\ resource' = (resource /\ ~his)
            /\ count' = IF traces THEN Cardinality(rest) ELSE count
            /\ drift' = IF traces THEN Cardinality(rest \ Shown) ELSE drift
  BY DEF PurgeUser
<1> DEFINE gone == own \cup {c \in Ids : his /\ Here(c) /\ row[c].area = "resource"}
           rest == {c \in Ids : Remove(gone)[c] # Absent}
<1>3. gone \in SUBSET Ids /\ row' = Remove(gone)
  BY <1>2
<1>4. Cardinality(rest) \in Nat /\ Cardinality(rest \ Shown) \in Nat
  <2>1. rest \in SUBSET Ids
    OBVIOUS
  <2> HIDE DEF rest
  <2>2. rest \ Shown \in SUBSET Ids
    BY <2>1
  <2> QED BY <2>1, <2>2, IdsFinite
<1>5. /\ resource' \in BOOLEAN /\ count' \in Nat /\ drift' \in Nat /\ purged' \subseteq Users
      /\ UNCHANGED <<used, awards, cleared, missed, serial, calls>>
  <2>1. resource' \in BOOLEAN
    BY <1>2
  <2>2. count' = Cardinality(rest) \/ count' = count
    BY <1>2
  <2>3. drift' = Cardinality(rest \ Shown) \/ drift' = drift
    BY <1>2
  <2>4. purged' \subseteq Users
    BY <1>1 DEF PurgeUser, IInv, TypeOK, Busy
  <2>5. UNCHANGED <<used, awards, cleared, missed, serial, calls>>
    BY DEF PurgeUser, requests
  <2> HIDE DEF rest
  <2> QED BY <1>4, <2>1, <2>2, <2>3, <2>4, <2>5 DEF IInv, TypeOK
<1>6. /\ worker' \in [Workers -> Busy \cup {Idle}] /\ worker'[w] = Idle
      /\ \A v \in Workers : v # w => worker'[v] = worker[v]
      /\ Asked' /\ CountersCleared'
  BY <1>5, Stops DEF IInv, PurgeUser
<1>7. /\ row' \in [Ids -> CommentRow \cup {Absent}]
      /\ \A c \in Ids : row'[c] \in {row[c], Absent}
      /\ \A c \in Ids : row'[c] # Absent /\ row[c].parent # Absent =>
                         row'[row[c].parent] # Absent
  BY <1>3, RemoveKeeps
<1> QED BY <1>5, <1>6, <1>7, FewerRows DEF IInv, TypeOK, Here, Idle

\* Every step keeps the invariant.
LEMMA NextInvariant == IInv /\ [Next]_vars => IInv'
<1> SUFFICES ASSUME IInv, [Next]_vars PROVE IInv'
  OBVIOUS
<1>1. CASE UNCHANGED vars
  <2>1. TypeOK'
    BY <1>1 DEF vars, IInv, TypeOK, Here
  <2>2. Asked' /\ CountersCleared' /\ ParentsHere'
    BY <1>1 DEF vars, IInv, Asked, CountersCleared, ParentsHere, At, Here
  <2>3. PICK b \in Births : Fits(b)
    BY DEF IInv, Born
  <2>4. Fits(b)'
    BY <1>1, <2>3 DEF vars, Fits, TopLevel, At, Here
  <2>5. NeverShownUnapproved' /\ PaidIsCleared'
    BY <1>1 DEF vars, IInv, NeverShownUnapproved, Shown, PaidIsCleared, Here
  <2> QED BY <2>1, <2>2, <2>4, <2>5 DEF IInv, Born
<1>2. CASE Next
  BY <1>2, CallStep, CheckParentStep, InsertStep, InsertFailsStep, SideEffectsStep,
     ReadForApprovalStep, ApproveStep, HideStep, ReadForEditStep, SaveStep,
     ReadForDeleteStep, CountDoomedStep, DeleteCommentStep, DiscountStep, DropResourceStep,
     PurgeStep DEF Next, Step
<1> QED BY <1>1, <1>2

-----------------------------------------------------------------------------
(***************************************************************************)
(* The count of one request at a time.  What the count is off by is what   *)
(* the one request at work has still to add or to take away.               *)
(***************************************************************************)
Settled == count = Cardinality(Shown) + drift

\* What the handler at work knows of its comment, and what it owes the count.
InHand(w) ==
  LET c == worker[w].comment  n == worker[w].n
  IN  /\ At(w, "counting") => count + 1 = Cardinality(Shown) + drift
      /\ At(w, "discounting") => count = Cardinality(Shown) + drift + n
      /\ worker[w].pc \notin {"counting", "discounting"} => Settled
      /\ At(w, "approving") => Here(c) /\ ~row[c].shown
      /\ At(w, "saving") => row[c] = worker[w].copy
      /\ At(w, "deleting") => n = Cardinality(SizeOf(c))

Alone == \A v, w \in Workers : v # w => At(v, "idle") \/ At(w, "idle")

Tally ==
  serial => /\ Alone
            /\ Quiet => Settled
            /\ \A w \in Workers : ~At(w, "idle") => InHand(w)

\* A set of comments is in two parts.
LEMMA Parts ==
  ASSUME NEW S \in SUBSET Ids, NEW T
  PROVE  /\ Cardinality(S) \in Nat /\ Cardinality(S \ T) \in Nat /\ Cardinality(S \cap T) \in Nat
         /\ Cardinality(S) = Cardinality(S \ T) + Cardinality(S \cap T)
<1>1. /\ IsFiniteSet(S) /\ Cardinality(S) \in Nat
      /\ Cardinality(S \ T) \in Nat /\ Cardinality(S \cap T) \in Nat
  BY IdsFinite
<1>2. Cardinality(S \ T) = Cardinality(S) - Cardinality(S \cap T)
  BY <1>1, FS_Difference
<1> QED BY <1>1, <1>2

\* One comment more is shown.
LEMMA OneMoreShown ==
  ASSUME NEW S \in SUBSET Ids, NEW c \in Ids, c \notin S
  PROVE  Cardinality(S) \in Nat /\ Cardinality(S \cup {c}) = Cardinality(S) + 1
<1>1. IsFiniteSet(S) /\ Cardinality(S) \in Nat
  BY IdsFinite
<1> QED BY <1>1, FS_AddElement

\* The step of the one request at work.
LEMMA OneStep ==
  ASSUME TypeOK, Tally, NEW w \in Workers, ~At(w, "idle"), serial' = serial,
         \A v \in Workers : v # w => worker'[v] = worker[v],
         serial /\ InHand(w) =>
           IF worker'[w].pc = "idle" THEN Settled' ELSE InHand(w)'
  PROVE  Tally'
<1> SUFFICES ASSUME serial PROVE Alone' /\ (Quiet' => Settled')
                                 /\ \A v \in Workers : ~At(v, "idle")' => InHand(v)'
  BY DEF Tally
<1>1. \A v \in Workers : v # w => At(v, "idle")'
  BY DEF Tally, Alone, At
<1>2. IF worker'[w].pc = "idle" THEN Settled' ELSE InHand(w)'
  BY DEF Tally
<1>3. Alone'
  BY <1>1 DEF Alone
<1>4. Quiet' => Settled'
  BY <1>2 DEF Quiet, At
<1>5. ASSUME NEW v \in Workers, ~At(v, "idle")' PROVE InHand(v)'
  <2>1. v = w
    BY <1>1, <1>5
  <2>2. InHand(w)'
    BY <1>2, <1>5, <2>1 DEF At
  <2> QED BY <2>1, <2>2
<1> QED BY <1>3, <1>4, <1>5

\* What a handler keeps of its request when it goes on, and that the others stay.
LEMMA Onward ==
  ASSUME TypeOK, NEW w \in Workers, ~At(w, "idle"), NEW pc, Goes(w, pc)
  PROVE  /\ worker'[w].pc = pc /\ worker'[w].comment = worker[w].comment
         /\ worker'[w].n = worker[w].n /\ worker'[w].copy = worker[w].copy
         /\ \A v \in Workers : v # w => worker'[v] = worker[v]
<1>1. worker[w] \in Busy
  BY BusyType
<1> QED BY <1>1 DEF Goes, TypeOK, Busy

LEMMA Ends ==
  ASSUME TypeOK, NEW w \in Workers, Over(w)
  PROVE  worker'[w].pc = "idle" /\ \A v \in Workers : v # w => worker'[v] = worker[v]
  BY DEF Over, TypeOK, Idle

\* A step that leaves the count and the rows alone, between states that owe nothing.
LEMMA SameCount ==
  ASSUME TypeOK, Tally, NEW w \in Workers, UNCHANGED <<row, count, drift, serial>>,
         worker[w].pc \notin {"idle", "counting", "discounting"},
         \A v \in Workers : v # w => worker'[v] = worker[v],
         worker'[w].pc \notin {"counting", "discounting", "approving", "saving", "deleting"}
  PROVE  Tally'
<1>1. Shown' = Shown
  BY DEF Shown, Here
<1>2. InHand(w) => Settled' /\ InHand(w)'
  BY <1>1 DEF InHand, Settled, At
<1> QED BY <1>2, OneStep DEF At

\* The comments a cascade leaves shown.
LEMMA LeftShown ==
  ASSUME TypeOK, NEW gone \in SUBSET Ids, row' = Remove(gone)
  PROVE  Shown' = {c \in Shown : c \notin gone /\ row[c].parent \notin gone}
  BY DEF Remove, Shown, Here

\* Nothing is owed while nothing is asked; a request owes nothing when it arrives.
LEMMA TallyCall ==
  ASSUME IInv, Tally, NEW w \in Workers, Asks(w)
  PROVE  Tally'
<1>1. PICK pc, u, area, p, c :
        Askable(pc, u, area, p, c) /\ Call(w, Request(pc, u, area, p, c))
  BY AsksCall
<1>2. pc \in {"parenting", "editing", "checking", "reviewing", "hiding", "dropping", "purging"}
  BY <1>1 DEF Askable
<1>3. /\ worker'[w].pc = pc /\ \A v \in Workers : v # w => worker'[v] = worker[v]
      /\ UNCHANGED <<row, count, drift>>
      /\ serial' = (serial /\ \A v \in Workers : At(v, "idle"))
  BY <1>1 DEF IInv, TypeOK, Call, Request, history
<1> SUFFICES ASSUME serial' PROVE Alone' /\ (Quiet' => Settled')
                                  /\ \A v \in Workers : ~At(v, "idle")' => InHand(v)'
  BY DEF Tally
<1>4. Shown' = Shown
  BY <1>3 DEF Shown, Here
<1>5. Settled'
  BY <1>3, <1>4 DEF Tally, Quiet, Settled
<1>6. \A v \in Workers : v # w => At(v, "idle")'
  BY <1>3 DEF At
<1>7. InHand(w)'
  BY <1>2, <1>3, <1>5 DEF InHand, At
<1>8. Alone'
  BY <1>6 DEF Alone
<1> QED BY <1>5, <1>6, <1>7, <1>8

\* The steps that only read, and the refused ones.
LEMMA TallyReads ==
  ASSUME IInv, Tally, NEW w \in Workers,
         CheckParent(w) \/ InsertFails(w) \/ ReadForDelete(w)
  PROVE  Tally'
<1>1. /\ UNCHANGED <<row, count, drift, serial>>
      /\ worker[w].pc \notin {"idle", "counting", "discounting"} /\ ~At(w, "idle")
  BY DEF CheckParent, InsertFails, ReadForDelete, At, history, requests
<1>2. Goes(w, "inserting") \/ Goes(w, "sizing") \/ Over(w)
  BY DEF CheckParent, InsertFails, ReadForDelete
<1>3. /\ worker'[w].pc \in {"idle", "inserting", "sizing"}
      /\ \A v \in Workers : v # w => worker'[v] = worker[v]
  BY <1>1, <1>2, Onward, Ends DEF IInv
<1> QED BY <1>1, <1>3, SameCount DEF IInv

\* The comment that is inserted shown has yet to be counted.
LEMMA TallyInsert ==
  ASSUME IInv, Tally, NEW w \in Workers, InsertComment(w)
  PROVE  Tally'
<1> DEFINE c == used + 1
<1>1. /\ worker[w] \in Busy /\ c \in Ids /\ ~At(w, "idle") /\ At(w, "inserting")
      /\ UNCHANGED <<count, drift, serial>>
  BY BusyType DEF IInv, InsertComment, At, requests
<1>2. PICK pending \in BOOLEAN :
        /\ row' = [row EXCEPT ![c] = [author |-> worker[w].user, area |-> worker[w].area,
                                      parent |-> worker[w].parent, shown |-> ~pending]]
        /\ worker' = [worker EXCEPT ![w] =
             IF pending THEN Idle ELSE [@ EXCEPT !.pc = "counting", !.comment = c]]
  BY DEF InsertComment
<1>3. ~Here(c) /\ c \notin Shown
  BY <1>1 DEF IInv, TypeOK, Shown
<1>4. /\ \A d \in Ids : d # c => row'[d] = row[d]
      /\ row'[c] \in CommentRow /\ row'[c].shown = ~pending
  BY <1>1, <1>2 DEF IInv, TypeOK, CommentRow, Busy, Asked, At
<1>5. row'[c] # Absent
  BY <1>4, AbsentAssumption
<1>6. Shown' = IF pending THEN Shown ELSE Shown \cup {c}
  BY <1>1, <1>3, <1>4, <1>5 DEF Shown, Here
<1>7. \A v \in Workers : v # w => worker'[v] = worker[v]
  BY <1>2 DEF IInv, TypeOK
<1>8. InHand(w) => Settled
  BY <1>1 DEF InHand, At
<1>9. CASE pending
  <2>1. worker'[w].pc = "idle"
    BY <1>2, <1>9 DEF IInv, TypeOK, Idle
  <2>2. Settled => Settled'
    BY <1>1, <1>6, <1>9 DEF Settled
  <2> QED BY <1>1, <1>7, <1>8, <2>1, <2>2, OneStep DEF IInv
<1>10. CASE ~pending
  <2>1. worker'[w].pc = "counting"
    BY <1>1, <1>2, <1>10 DEF IInv, TypeOK, Busy
  <2>2. Cardinality(Shown) \in Nat /\ Cardinality(Shown') = Cardinality(Shown) + 1
    BY <1>1, <1>3, <1>6, <1>10, OneMoreShown DEF Shown
  <2>3. Settled => count' + 1 = Cardinality(Shown') + drift'
    BY <1>1, <2>2 DEF Settled, IInv, TypeOK
  <2>4. Settled => InHand(w)'
    BY <2>1, <2>3 DEF InHand, At
  <2> QED BY <1>1, <1>7, <1>8, <2>1, <2>4, OneStep DEF IInv
<1> QED BY <1>9, <1>10

\* The published comment is counted; then nothing is owed.
LEMMA TallyCounts ==
  ASSUME IInv, Tally, NEW w \in Workers, CountComment(w) \/ PayOwner(w)
  PROVE  Tally'
<1>1. CASE CountComment(w)
  <2>1. /\ UNCHANGED <<row, drift, serial>> /\ count' = count + 1 /\ At(w, "counting")
        /\ ~At(w, "idle")
    BY <1>1 DEF CountComment, history, requests, At
  <2>2. worker'[w].pc = "paying" /\ \A v \in Workers : v # w => worker'[v] = worker[v]
    BY <1>1, <2>1, Onward DEF CountComment, IInv
  <2>3. Shown' = Shown
    BY <2>1 DEF Shown, Here
  <2>4. InHand(w) => InHand(w)'
    BY <2>1, <2>2, <2>3 DEF InHand, Settled, At
  <2> QED BY <2>1, <2>2, <2>4, OneStep DEF IInv
<1>2. CASE PayOwner(w)
  <2>1. UNCHANGED <<row, count, drift, serial>> /\ At(w, "paying")
    BY <1>2 DEF PayOwner, requests
  <2>2. worker'[w].pc = "idle" /\ \A v \in Workers : v # w => worker'[v] = worker[v]
    BY <1>2, Ends DEF PayOwner, IInv
  <2> QED BY <2>1, <2>2, SameCount DEF IInv, At
<1> QED BY <1>1, <1>2

\* Approving: the comment is hidden and here; then it is shown and has yet to be counted.
LEMMA TallyApproves ==
  ASSUME IInv, Tally, NEW w \in Workers, ReadForApproval(w) \/ Approve(w)
  PROVE  Tally'
<1> DEFINE c == worker[w].comment
<1>1. worker[w] \in Busy /\ c \in Ids /\ ~At(w, "idle")
  BY BusyType DEF IInv, ReadForApproval, Approve, At, Asked
<1>2. CASE ReadForApproval(w)
  <2>1. UNCHANGED <<row, count, drift, serial>> /\ At(w, "reviewing")
    BY <1>2 DEF ReadForApproval, history, requests
  <2>2. \A v \in Workers : v # w => worker'[v] = worker[v]
    BY <1>2 DEF ReadForApproval, IInv, TypeOK
  <2>3. CASE Here(c) /\ ~row[c].shown
    <3>1. worker'[w].pc = "approving" /\ worker'[w].comment = c
      BY <1>1, <1>2, <2>3 DEF ReadForApproval, IInv, TypeOK, Busy
    <3>2. Shown' = Shown
      BY <2>1 DEF Shown, Here
    <3>3. InHand(w) => InHand(w)'
      BY <2>1, <2>3, <3>1, <3>2 DEF InHand, Settled, At, Here
    <3> QED BY <1>1, <2>1, <2>2, <3>1, <3>3, OneStep DEF IInv
  <2>4. CASE ~(Here(c) /\ ~row[c].shown)
    <3>1. Over(w)
      BY <1>2, <2>4 DEF ReadForApproval, Over
    <3>2. worker'[w].pc = "idle"
      BY <3>1, Ends DEF IInv
    <3> QED BY <2>1, <2>2, <3>2, SameCount DEF IInv, At
  <2> QED BY <2>3, <2>4
<1>3. CASE Approve(w)
  <2>1. UNCHANGED <<count, drift, serial>> /\ At(w, "approving")
    BY <1>3 DEF Approve, requests
  <2>2. worker'[w].pc = "counting" /\ \A v \in Workers : v # w => worker'[v] = worker[v]
    BY <1>1, <1>3, Onward DEF Approve, IInv
  <2>3. ASSUME InHand(w) PROVE InHand(w)'
    <3>1. Here(c) /\ ~row[c].shown /\ c \notin Shown /\ row[c] \in CommentRow
      BY <1>1, <2>1, <2>3 DEF InHand, Shown, Here, IInv, TypeOK
    <3>2. row' = [row EXCEPT ![c] = [row[c] EXCEPT !.shown = TRUE]]
      BY <1>3, <3>1 DEF Approve
    <3>3. [row[c] EXCEPT !.shown = TRUE] \in CommentRow /\ [row[c] EXCEPT !.shown = TRUE].shown
      BY <3>1 DEF CommentRow
    <3>4. /\ row'[c] # Absent /\ row'[c].shown
          /\ \A d \in Ids : d # c => row'[d] = row[d]
      BY <1>1, <3>2, <3>3, AbsentAssumption DEF IInv, TypeOK
    <3>5. Shown' = Shown \cup {c}
      BY <1>1, <3>4 DEF Shown, Here
    <3>6. Cardinality(Shown) \in Nat /\ Cardinality(Shown') = Cardinality(Shown) + 1
      BY <1>1, <3>1, <3>5, OneMoreShown DEF Shown
    <3>7. Settled
      BY <2>1, <2>3 DEF InHand, At
    <3>8. count' + 1 = Cardinality(Shown') + drift'
      BY <2>1, <3>6, <3>7 DEF Settled, IInv, TypeOK
    <3> QED BY <2>2, <3>8 DEF InHand, At
  <2> QED BY <1>1, <2>1, <2>2, <2>3, OneStep DEF IInv
<1> QED BY <1>2, <1>3

\* Editing alone, the copy is the row, and writing it back changes nothing.
LEMMA TallyEdits ==
  ASSUME IInv, Tally, NEW w \in Workers, ReadForEdit(w) \/ Save(w)
  PROVE  Tally'
<1> DEFINE c == worker[w].comment
<1>1. worker[w] \in Busy /\ c \in Ids /\ ~At(w, "idle")
  BY BusyType DEF IInv, ReadForEdit, Save, At, Asked
<1>2. CASE ReadForEdit(w)
  <2>1. UNCHANGED <<row, count, drift, serial>> /\ At(w, "editing")
    BY <1>2 DEF ReadForEdit, history, requests
  <2>2. \A v \in Workers : v # w => worker'[v] = worker[v]
    BY <1>2 DEF ReadForEdit, IInv, TypeOK
  <2>3. CASE Here(c) /\ row[c].author = worker[w].user
    <3>1. /\ worker'[w].pc = "saving" /\ worker'[w].comment = c
          /\ worker'[w].copy = row[c]
      BY <1>1, <1>2, <2>3 DEF ReadForEdit, IInv, TypeOK, Busy
    <3>2. Shown' = Shown
      BY <2>1 DEF Shown, Here
    <3>3. InHand(w) => InHand(w)'
      BY <2>1, <3>1, <3>2 DEF InHand, Settled, At
    <3> QED BY <1>1, <2>1, <2>2, <3>1, <3>3, OneStep DEF IInv
  <2>4. CASE ~(Here(c) /\ row[c].author = worker[w].user)
    <3>1. Over(w)
      BY <1>2, <2>4 DEF ReadForEdit, Over
    <3>2. worker'[w].pc = "idle"
      BY <3>1, Ends DEF IInv
    <3> QED BY <2>1, <2>2, <3>2, SameCount DEF IInv, At
  <2> QED BY <2>3, <2>4
<1>3. CASE Save(w)
  <2>1. UNCHANGED <<count, drift, serial>> /\ At(w, "saving")
    BY <1>3 DEF Save, history, requests
  <2>2. worker'[w].pc = "idle" /\ \A v \in Workers : v # w => worker'[v] = worker[v]
    BY <1>3, Ends DEF Save, IInv
  <2>3. ASSUME InHand(w) PROVE Settled'
    <3>1. row[c] = worker[w].copy /\ Settled
      BY <2>1, <2>3 DEF InHand, At
    <3>2. \A d \in Ids : row'[d] = row[d]
      BY <1>1, <1>3, <3>1 DEF Save, IInv, TypeOK
    <3>3. Shown' = Shown
      BY <3>2 DEF Shown, Here
    <3> QED BY <2>1, <3>1, <3>3 DEF Settled
  <2> QED BY <1>1, <2>1, <2>2, <2>3, OneStep DEF IInv
<1> QED BY <1>2, <1>3

\* Deleting: what is sized is what the cascade takes from those shown, and what is
\* then taken off.
LEMMA TallyDeletes ==
  ASSUME IInv, Tally, NEW w \in Workers,
         CountDoomed(w) \/ DeleteComment(w) \/ DiscountComment(w)
  PROVE  Tally'
<1> DEFINE c == worker[w].comment
<1>1. worker[w] \in Busy /\ c \in Ids /\ ~At(w, "idle")
  BY BusyType DEF IInv, CountDoomed, DeleteComment, DiscountComment, At, Asked
<1>2. CASE CountDoomed(w)
  <2>1. UNCHANGED <<row, count, drift, serial>> /\ At(w, "sizing")
    BY <1>2 DEF CountDoomed, history, requests
  <2>2. /\ worker'[w].pc = "deleting" /\ worker'[w].comment = c
        /\ worker'[w].n = Cardinality(SizeOf(c))
        /\ \A v \in Workers : v # w => worker'[v] = worker[v]
    BY <1>1, <1>2 DEF CountDoomed, IInv, TypeOK, Busy
  <2>3. Shown' = Shown /\ \A d : SizeOf(d)' = SizeOf(d)
    BY <2>1 DEF Shown, SizeOf, Here
  <2>4. InHand(w) => InHand(w)'
    BY <2>1, <2>2, <2>3 DEF InHand, Settled, At
  <2> QED BY <1>1, <2>1, <2>2, <2>4, OneStep DEF IInv
<1>3. CASE DeleteComment(w)
  <2>1. UNCHANGED <<count, drift, serial>> /\ At(w, "deleting") /\ row' = Remove({c})
    BY <1>3 DEF DeleteComment, history, requests
  <2>2. /\ worker'[w].pc = "discounting" /\ worker'[w].n = worker[w].n
        /\ \A v \in Workers : v # w => worker'[v] = worker[v]
    BY <1>1, <1>3, Onward DEF DeleteComment, IInv
  <2>3. ASSUME InHand(w) PROVE InHand(w)'
    <3>1. Shown' = Shown \ SizeOf(c) /\ Shown \cap SizeOf(c) = SizeOf(c)
      BY <1>1, <2>1, LeftShown DEF SizeOf, IInv
    <3>2. /\ Cardinality(Shown) = Cardinality(Shown') + Cardinality(SizeOf(c))
          /\ Cardinality(Shown') \in Nat /\ Cardinality(SizeOf(c)) \in Nat
      BY <3>1, Parts DEF Shown
    <3>3. Settled /\ worker[w].n = Cardinality(SizeOf(c))
      BY <2>1, <2>3 DEF InHand, At
    <3>4. count' = Cardinality(Shown') + drift' + worker'[w].n
      BY <2>1, <2>2, <3>2, <3>3 DEF Settled, IInv, TypeOK
    <3> QED BY <2>2, <3>4 DEF InHand, At
  <2> QED BY <1>1, <2>1, <2>2, <2>3, OneStep DEF IInv
<1>4. CASE DiscountComment(w)
  <2>1. /\ UNCHANGED <<row, drift, serial>> /\ At(w, "discounting")
        /\ count' = IF count > worker[w].n THEN count - worker[w].n ELSE 0
    BY <1>4 DEF DiscountComment, history, requests
  <2>2. worker'[w].pc = "idle" /\ \A v \in Workers : v # w => worker'[v] = worker[v]
    BY <1>4, Ends DEF DiscountComment, IInv
  <2>3. Shown' = Shown /\ Cardinality(Shown) \in Nat
    <3>1. Shown \in SUBSET Ids
      BY DEF Shown
    <3> QED BY <2>1, <3>1, IdsFinite DEF Shown, Here
  <2>4. worker[w].n \in Nat /\ count \in Nat /\ drift \in Nat
    BY <1>1, BoundsAssumption DEF Busy, IInv, TypeOK
  <2>5. InHand(w) => Settled'
    BY <2>1, <2>3, <2>4 DEF InHand, Settled, At
  <2> QED BY <1>1, <2>1, <2>2, <2>5, OneStep DEF IInv
<1> QED BY <1>2, <1>3, <1>4

\* Hiding and dropping leave in the count what they take from those shown.
LEMMA TallyHides ==
  ASSUME IInv, Tally, NEW w \in Workers, Hide(w) \/ DropResource(w)
  PROVE  Tally'
<1> DEFINE c == worker[w].comment
           gone == {d \in Ids : Here(d) /\ row[d].area = "resource"}
<1>1. /\ ~At(w, "idle") /\ worker[w].pc \notin {"counting", "discounting"}
      /\ UNCHANGED <<count, serial>>
      /\ worker'[w].pc = "idle" /\ \A v \in Workers : v # w => worker'[v] = worker[v]
  BY Ends DEF Hide, DropResource, At, requests, IInv
<1>2. PICK lost \in SUBSET Ids :
        Shown' = Shown \ lost /\ drift' = drift + Cardinality(Shown \cap lost)
  <2>1. CASE Hide(w)
    <3>1. c \in Ids
      BY <2>1 DEF IInv, Hide, At, Asked
    <3>2. Shown' = Shown \ {c}
      <4>1. CASE Here(c)
        <5>1. row[c] \in CommentRow
          BY <3>1, <4>1 DEF IInv, TypeOK, Here
        <5>2. row' = [row EXCEPT ![c] = [row[c] EXCEPT !.shown = FALSE]]
          BY <2>1, <4>1 DEF Hide
        <5>3. [row[c] EXCEPT !.shown = FALSE].shown = FALSE
          BY <5>1 DEF CommentRow
        <5>4. row'[c].shown = FALSE /\ \A d \in Ids : d # c => row'[d] = row[d]
          BY <3>1, <5>2, <5>3 DEF IInv, TypeOK
        <5> QED BY <5>4 DEF Shown, Here
      <4>2. CASE ~Here(c)
        BY <2>1, <4>2 DEF Hide, Shown, Here
      <4> QED BY <4>1, <4>2
    <3>3. drift' = drift + Cardinality(Shown \cap {c})
      BY <2>1 DEF Hide
    <3> QED BY <3>1, <3>2, <3>3
  <2>2. CASE DropResource(w)
    <3>1. row' = Remove(gone) /\ drift' = drift + Cardinality(Shown \cap gone)
      BY <2>2 DEF DropResource
    <3>2. ThreadsAreFlat
      BY BornFlat DEF IInv
    <3>3. \A d \in Shown : row[d].parent \in gone => d \in gone
      <4> SUFFICES ASSUME NEW d \in Shown, row[d].parent \in gone PROVE d \in gone
        OBVIOUS
      <4>1. d \in Ids /\ Here(d) /\ row[d].parent \in Ids
        BY DEF Shown
      <4>2. row[d].parent # Absent
        BY <4>1, NoIdIsAbsent
      <4>3. row[row[d].parent].area = row[d].area
        BY <3>2, <4>1, <4>2 DEF ThreadsAreFlat
      <4> QED BY <4>1, <4>3
    <3>4. Shown' = Shown \ gone
      BY <3>1, <3>3, LeftShown DEF IInv
    <3> QED BY <3>1, <3>4
  <2> QED BY <2>1, <2>2
<1>3. /\ Cardinality(Shown) = Cardinality(Shown') + Cardinality(Shown \cap lost)
      /\ Cardinality(Shown') \in Nat /\ Cardinality(Shown \cap lost) \in Nat
  <2>1. Shown \in SUBSET Ids
    BY DEF Shown
  <2> QED BY <1>2, <2>1, Parts
<1>4. Settled => Settled'
  BY <1>1, <1>2, <1>3 DEF Settled, IInv, TypeOK
<1>5. InHand(w) => Settled
  BY <1>1 DEF InHand
<1> QED BY <1>1, <1>4, <1>5, OneStep DEF IInv

\* A purge that left a trace counts anew; one that left none removes no comment.
LEMMA TallyPurge ==
  ASSUME IInv, Tally, NEW w \in Workers, PurgeUser(w)
  PROVE  Tally'
<1> DEFINE u == worker[w].user
           own == {c \in Ids : Here(c) /\ row[c].author = u}
<1>1. /\ ~At(w, "idle") /\ worker[w].pc \notin {"counting", "discounting"}
      /\ UNCHANGED serial
      /\ worker'[w].pc = "idle" /\ \A v \in Workers : v # w => worker'[v] = worker[v]
  BY Ends DEF PurgeUser, At, requests, IInv
<1>2. PICK his \in BOOLEAN, traces \in BOOLEAN :
        LET left == Remove(own \cup {c \in Ids : his /\ Here(c) /\ row[c].area = "resource"})
            rest == {c \in Ids : left[c] # Absent}
        IN  /\ his \/ own # {} => traces
            /\ row' = left
            /\ count' = IF traces THEN Cardinality(rest) ELSE count
            /\ drift' = IF traces THEN Cardinality(rest \ Shown) ELSE drift
  BY DEF PurgeUser
<1> DEFINE gone == own \cup {c \in Ids : his /\ Here(c) /\ row[c].area = "resource"}
           rest == {c \in Ids : Remove(gone)[c] # Absent}
<1>3. gone \in SUBSET Ids /\ row' = Remove(gone)
  BY <1>2
<1>4. CASE traces
  <2>1. count' = Cardinality(rest) /\ drift' = Cardinality(rest \ Shown)
    BY <1>2, <1>4
  <2>2. Shown' = rest \cap Shown
    BY <1>3 DEF Shown, Here, Remove
  <2>3. rest \in SUBSET Ids
    OBVIOUS
  <2> HIDE DEF rest
  <2>4. /\ Cardinality(rest) = Cardinality(rest \ Shown) + Cardinality(rest \cap Shown)
        /\ Cardinality(rest \ Shown) \in Nat /\ Cardinality(rest \cap Shown) \in Nat
    BY <2>3, Parts
  <2>5. Settled'
    BY <2>1, <2>2, <2>4 DEF Settled
  <2> QED BY <1>1, <2>5, OneStep DEF IInv
<1>5. CASE ~traces
  <2>1. count' = count /\ drift' = drift /\ gone = {}
    BY <1>2, <1>5
  <2>2. \A d \in Ids : row'[d] = row[d]
    BY <1>3, <2>1 DEF Remove
  <2>3. Shown' = Shown
    BY <2>2 DEF Shown, Here
  <2>4. InHand(w) => Settled
    BY <1>1 DEF InHand
  <2>5. Settled => Settled'
    BY <2>1, <2>3 DEF Settled
  <2> QED BY <1>1, <2>4, <2>5, OneStep DEF IInv
<1> QED BY <1>4, <1>5

\* Every step keeps the count accounted for.
LEMMA TallyStep == IInv /\ Tally /\ [Next]_vars => Tally'
<1> SUFFICES ASSUME IInv, Tally, [Next]_vars PROVE Tally'
  OBVIOUS
<1>1. CASE UNCHANGED vars
  BY <1>1 DEF vars, Tally, Alone, Quiet, Settled, InHand, At, Here, Shown, SizeOf
<1>2. CASE Next
  BY <1>2, TallyCall, TallyReads, TallyInsert, TallyCounts, TallyApproves, TallyEdits,
     TallyDeletes, TallyHides, TallyPurge DEF Next, Step
<1> QED BY <1>1, <1>2

-----------------------------------------------------------------------------
(***************************************************************************)
(* Theorems.                                                               *)
(***************************************************************************)
\* The inductive invariant holds in every reachable state.
THEOREM Invariant == Spec => []IInv
  BY InitInvariant, NextInvariant, PTL DEF Spec

\* Every variable keeps its type: comment_count never gets negative, and no row has an id
\* that was not given out.
THEOREM TypeCorrect == Spec => []TypeOK
<1>1. IInv => TypeOK
  BY DEF IInv
<1> QED BY <1>1, Invariant, PTL

\* However answers, deletions, cascades and late edits interleave, every answer answers a
\* comment that is there, is no answer, and is of the same discussion: what
\* checkCommentParent found still holds when the row is inserted or written back.
THEOREM AnswersStayFlat == Spec => []ThreadsAreFlat
<1>1. IInv => ThreadsAreFlat
  BY BornFlat DEF IInv
<1> QED BY <1>1, Invariant, PTL

\* A comment to be verified is not shown before a moderator has approved it, whichever
\* copy of it UpdateComment writes back.
THEOREM ShownIsApproved == Spec => []NeverShownUnapproved
<1>1. IInv => NeverShownUnapproved
  BY DEF IInv
<1> QED BY <1>1, Invariant, PTL

\* applyCommentSideEffects pays for a comment that is created shown or approved, and for one
\* whose row was deleted under its approval, which updates nothing and pays all the same;
\* it never pays for a comment that nobody has approved.
THEOREM PaidIsPublished == Spec => []PaidIsCleared
<1>1. IInv => PaidIsCleared
  BY DEF IInv
<1> QED BY <1>1, Invariant, PTL

\* While requests do not overlap, comment_count is the comments shown and what hiding,
\* dropping a resource and recounting are known to leave: the increments of six handlers
\* and the cascades of the database add up.
THEOREM CountAddsUp == Spec => []CountedSerially
<1>1. Init => Tally
  <2> SUFFICES ASSUME Init PROVE Tally
    OBVIOUS
  <2>1. Alone /\ \A w \in Workers : At(w, "idle")
    BY DEF Init, Alone, At, Idle
  <2>2. Shown = {} /\ count = 0 /\ drift = 0
    BY DEF Init, Shown, Here
  <2>3. Settled
    BY <2>2, FS_EmptySet DEF Settled
  <2> QED BY <2>1, <2>3 DEF Tally
<1>2. IInv /\ Tally /\ [Next]_vars => Tally'
  BY TallyStep
<1>3. Tally => CountedSerially
  BY DEF Tally, CountedSerially, Settled
<1> QED BY <1>1, <1>2, <1>3, Invariant, PTL DEF Spec
=============================================================================
