-------------------------- MODULE PatchResourceProofs --------------------------
(***************************************************************************)
(* Proofs about PatchResource, and the uploads below it, for any number of *)
(* requests, files and rows: a file is charged once, the quota is exceeded *)
(* by no more than the requests that checked it together, the uploader's   *)
(* points are those of the resources never deleted, and requests that come *)
(* one at a time leave the count, the aggregates and the store right.      *)
(***************************************************************************)
EXTENDS PatchResource, FiniteSetTheorems, TLAPS

\* A request about a resource, and what its place in the handler says of it.
ResourceTask ==
  [pc : {"inserting", "saving", "removing", "dropping", "counting", "reading", "writing"},
   art : {None}, op : {"create", "update", "delete"}, row : Rows \cup {None},
   old : Files \cup {None}, new : Files, changed : BOOLEAN, copy : SUBSET Rows]

WellFormed(t) ==
  /\ t.pc = "inserting" => t.op = "create"
  /\ t.pc # "inserting" => t.row \in Rows
  /\ t.pc = "saving" => t.op = "update"
  /\ t.pc = "removing" => t.op = "delete"
  /\ t.pc = "dropping" => t.op # "create" /\ t.old \in Artifacts
  /\ t.pc = "counting" => t.op # "update"

Resourceful == {t \in ResourceTask : WellFormed(t)}

Types ==
  /\ worker \in [Workers -> {Idle} \cup UploadTask \cup Resourceful]
  /\ row \in [Rows -> Files \cup {None}] /\ ids \in Nat
  /\ ready \subseteq Artifacts
  /\ used \in Nat /\ images \in Nat
  /\ mark \in [Artifacts -> Nat \cup {None}] /\ charged \in [Artifacts -> Nat]
  /\ points \in Int /\ kept \subseteq Rows
  /\ days \in Nat /\ faults \in Nat

-----------------------------------------------------------------------------
(***************************************************************************)
(* Handlers.                                                               *)
(***************************************************************************)
\* One handler moves, the others stay.
LEMMA OneMoves ==
  ASSUME Types, NEW w \in Workers, NEW n \in {Idle} \cup UploadTask \cup Resourceful,
         worker' = [worker EXCEPT ![w] = n]
  PROVE  /\ worker' \in [Workers -> {Idle} \cup UploadTask \cup Resourceful]
         /\ worker'[w] = n /\ \A v \in Workers : v # w => worker'[v] = worker[v]
  BY DEF Types

\* A handler is known by its place.
LEMMA PlaceOf ==
  ASSUME Types, NEW w \in Workers
  PROVE  /\ At(w, "idle") => worker[w] = Idle
         /\ (\/ At(w, "marking") \/ At(w, "checking") \/ At(w, "discarding")
             \/ At(w, "deducting") \/ At(w, "unmarking")) =>
              worker[w] \in UploadTask /\ worker[w].art \in Artifacts
         /\ At(w, "imaging") => worker[w] \in UploadTask
         /\ (\/ At(w, "inserting") \/ At(w, "saving") \/ At(w, "removing") \/ At(w, "dropping")
             \/ At(w, "counting") \/ At(w, "reading") \/ At(w, "writing")) =>
              worker[w] \in Resourceful
  BY DEF Types, At, Idle, UploadTask, Resourceful, ResourceTask

\* An upload's handler goes on to another place of the same upload.
LEMMA UploadGoes ==
  ASSUME Types, NEW w \in Workers, worker[w] \in UploadTask, worker[w].art \in Artifacts,
         NEW pc \in {"checking", "discarding", "deducting", "unmarking"}, Goes(w, pc)
  PROVE  \E n \in UploadTask : /\ worker' = [worker EXCEPT ![w] = n]
                               /\ n.pc = pc /\ n.art = worker[w].art
<1>1. PICK n : n = [worker[w] EXCEPT !.pc = pc]
  OBVIOUS
<1>2. n \in UploadTask /\ n.pc = pc /\ n.art = worker[w].art
  BY <1>1, DaysAssumption DEF UploadTask
<1>3. worker' = [worker EXCEPT ![w] = n]
  BY <1>1 DEF Goes
<1> QED BY <1>2, <1>3

\* A resource's handler goes on with the same request.
LEMMA ResourceGoes ==
  ASSUME Types, NEW w \in Workers, worker[w] \in Resourceful, worker[w].row \in Rows,
         NEW pc \in {"removing", "dropping", "counting", "reading", "writing"}, Goes(w, pc),
         pc = "removing" => worker[w].op = "delete",
         pc = "dropping" => worker[w].op # "create" /\ worker[w].old \in Artifacts,
         pc = "counting" => worker[w].op # "update"
  PROVE  \E n \in Resourceful : /\ worker' = [worker EXCEPT ![w] = n]
                                /\ n.pc = pc /\ n.op = worker[w].op /\ n.row = worker[w].row
<1>1. PICK n : n = [worker[w] EXCEPT !.pc = pc]
  OBVIOUS
<1>2. /\ n \in ResourceTask /\ n.pc = pc /\ n.op = worker[w].op /\ n.row = worker[w].row
      /\ n.old = worker[w].old
  BY <1>1 DEF Resourceful, ResourceTask
<1>3. n \in Resourceful
  BY <1>2 DEF Resourceful, WellFormed
<1>4. worker' = [worker EXCEPT ![w] = n]
  BY <1>1 DEF Goes
<1> QED BY <1>2, <1>3, <1>4

\* The tasks of new requests.
LEMMA TaskType ==
  ASSUME NEW pc \in {"inserting", "saving", "removing"}, NEW op \in {"create", "update", "delete"},
         NEW r \in Rows \cup {None}, NEW old \in Files \cup {None}, NEW new \in Files,
         NEW changed \in BOOLEAN,
         pc = "inserting" => op = "create",
         pc # "inserting" => r \in Rows,
         pc = "saving" => op = "update",
         pc = "removing" => op = "delete"
  PROVE  LET n == [Task(pc, op, r, old, new) EXCEPT !.changed = changed]
         IN  n \in Resourceful /\ n.pc = pc /\ n.op = op /\ n.row = r
<1>1. PICK n : n = [Task(pc, op, r, old, new) EXCEPT !.changed = changed]
  OBVIOUS
<1>2. n = [pc |-> pc, art |-> None, op |-> op, row |-> r, old |-> old, new |-> new,
           changed |-> changed, copy |-> {}]
  BY <1>1 DEF Task
<1>3. n \in ResourceTask /\ n.pc = pc /\ n.op = op /\ n.row = r
  BY <1>2 DEF ResourceTask
<1>4. n \in Resourceful
  BY <1>3 DEF Resourceful, WellFormed
<1> QED BY <1>1, <1>3, <1>4

-----------------------------------------------------------------------------
(***************************************************************************)
(* What the steps about resources do: one handler moves to n, the quota is *)
(* left alone.                                                             *)
(***************************************************************************)
Moves(w, n) == worker' = [worker EXCEPT ![w] = n]
Apart == UNCHANGED <<used, images, mark, charged, days, ready>>

\* The requests.
LEMMA RequestMoves ==
  ASSUME Types, NEW w \in Workers, CreateRequest(w) \/ UpdateRequest(w) \/ DeleteRequest(w)
  PROVE  \E n \in Resourceful :
           /\ Moves(w, n) /\ worker[w] = Idle
           /\ n.pc \in {"inserting", "saving", "removing"}
           /\ n.pc # "inserting" => n.row \in Live
           /\ Apart /\ UNCHANGED <<row, ids, points, seen, kept, faults>>
<1>1. worker[w] = Idle
  BY PlaceOf DEF CreateRequest, UpdateRequest, DeleteRequest, Starts
<1>2. Apart /\ UNCHANGED <<row, ids, points, seen, kept, faults>>
  BY DEF Apart, CreateRequest, UpdateRequest, DeleteRequest, Starts, store, quota, resourceVars,
     tables, account, history
<1>3. CASE CreateRequest(w)
  <2>1. PICK f \in Unpublished \cup {Link} :
               worker' = [worker EXCEPT ![w] = Task("inserting", "create", None, None, f)]
    BY <1>3 DEF CreateRequest, Starts
  <2>2. f \in Files
    BY DEF Unpublished, Files, Types
  <2>3. PICK changed \in BOOLEAN : changed = FALSE
    OBVIOUS
  <2>4. PICK n : n = [Task("inserting", "create", None, None, f) EXCEPT !.changed = changed]
    OBVIOUS
  <2>5. n \in Resourceful /\ n.pc = "inserting"
    BY <2>2, <2>4, TaskType
  <2>6. n = Task("inserting", "create", None, None, f)
    BY <2>3, <2>4 DEF Task
  <2> QED BY <1>1, <1>2, <2>1, <2>5, <2>6 DEF Moves
<1>4. CASE UpdateRequest(w)
  <2>1. PICK r \in Live, changed \in BOOLEAN : \E f \in Unpublished \cup {Link, row[r]} :
          worker' = [worker EXCEPT ![w] =
                       [Task("saving", "update", r, row[r], f) EXCEPT !.changed = changed]]
    BY <1>4 DEF UpdateRequest, Starts
  <2>2. r \in Rows /\ row[r] \in Files
    BY DEF Live, Here, Types
  <2>3. PICK f \in Unpublished \cup {Link, row[r]} :
          worker' = [worker EXCEPT ![w] =
                       [Task("saving", "update", r, row[r], f) EXCEPT !.changed = changed]]
    BY <2>1
  <2>4. f \in Files
    BY <2>2 DEF Unpublished, Files, Types
  <2>5. PICK n : n = [Task("saving", "update", r, row[r], f) EXCEPT !.changed = changed]
    OBVIOUS
  <2>6. n \in Resourceful /\ n.pc = "saving" /\ n.row = r
    BY <2>2, <2>4, <2>5, TaskType
  <2> QED BY <1>1, <1>2, <2>3, <2>5, <2>6 DEF Moves
<1>5. CASE DeleteRequest(w)
  <2>1. PICK r \in Live :
          worker' = [worker EXCEPT ![w] = Task("removing", "delete", r, row[r], row[r])]
    BY <1>5 DEF DeleteRequest, Starts
  <2>2. r \in Rows /\ row[r] \in Files
    BY DEF Live, Here, Types
  <2>3. PICK changed \in BOOLEAN : changed = FALSE
    OBVIOUS
  <2>4. PICK n : n = [Task("removing", "delete", r, row[r], row[r]) EXCEPT !.changed = changed]
    OBVIOUS
  <2>5. n \in Resourceful /\ n.pc = "removing" /\ n.row = r
    BY <2>2, <2>4, TaskType
  <2>6. n = Task("removing", "delete", r, row[r], row[r])
    BY <2>3, <2>4 DEF Task
  <2> QED BY <1>1, <1>2, <2>1, <2>5, <2>6 DEF Moves
<1> QED BY <1>3, <1>4, <1>5

\* A row is inserted under a new id, or refused.
LEMMA InsertMoves ==
  ASSUME Types, NEW w \in Workers, Insert(w)
  PROVE  /\ ids + 1 \in Rows /\ ids' = ids + 1
         /\ worker[w] \in Resourceful /\ worker[w].pc = "inserting"
         /\ Apart /\ UNCHANGED <<points, seen, faults>>
         /\ \/ Moves(w, Idle) /\ UNCHANGED <<row, kept>>
            \/ /\ kept' = kept \cup {ids + 1}
               /\ \E f \in Files : row' = [row EXCEPT ![ids + 1] = f]
               /\ \E n \in Resourceful : /\ Moves(w, n) /\ n.pc = "counting"
                                         /\ n.op = "create" /\ n.row = ids + 1
<1>1. /\ worker[w] \in Resourceful /\ worker[w].pc = "inserting"
      /\ worker[w].op = "create" /\ worker[w].new \in Files
  BY PlaceOf DEF Insert, At, Resourceful, ResourceTask, WellFormed
<1>2. /\ ids + 1 \in Rows /\ ids' = ids + 1 /\ Apart /\ UNCHANGED <<points, seen, faults>>
  BY DEF Insert, Apart, account, store, quota, bounds
<1>3. CASE Taken(worker[w].new, None)
  BY <1>1, <1>2, <1>3 DEF Insert, Moves, Over, history
<1>4. CASE ~Taken(worker[w].new, None)
  <2>1. PICK n : n = [worker[w] EXCEPT !.pc = "counting", !.row = ids + 1]
    OBVIOUS
  <2>2. n \in ResourceTask /\ n.pc = "counting" /\ n.op = "create" /\ n.row = ids + 1
    BY <1>1, <1>2, <2>1 DEF Resourceful, ResourceTask
  <2>3. n \in Resourceful
    BY <1>2, <2>2 DEF Resourceful, WellFormed
  <2>4. /\ kept' = kept \cup {ids + 1} /\ row' = [row EXCEPT ![ids + 1] = worker[w].new]
        /\ Moves(w, n)
    BY <1>4, <2>1 DEF Insert, Moves
  <2> QED BY <1>1, <1>2, <2>2, <2>3, <2>4
<1> QED BY <1>3, <1>4

\* Counting, reading and dropping a file go on with the same request.
LEMMA OnwardMoves ==
  ASSUME Types, NEW w \in Workers, UpdateCount(w) \/ ReadResources(w) \/ DropArtifact(w)
  PROVE  /\ worker[w] \in Resourceful /\ worker[w].pc \in {"dropping", "counting", "reading"}
         /\ Apart /\ UNCHANGED <<row, ids, points, seen, kept>> /\ faults' \in {faults, faults + 1}
         /\ \E n \in Resourceful : /\ Moves(w, n) /\ n.pc \in {"counting", "reading", "writing"}
                                   /\ n.op = worker[w].op /\ n.row = worker[w].row
<1>1. /\ worker[w] \in Resourceful /\ worker[w].pc \in {"dropping", "counting", "reading"}
      /\ worker[w].row \in Rows /\ WellFormed(worker[w]) /\ worker[w] \in ResourceTask
  BY PlaceOf DEF UpdateCount, ReadResources, DropArtifact, At, Resourceful, WellFormed
<1>2. /\ Apart /\ UNCHANGED <<row, ids, points, seen, kept>> /\ faults' \in {faults, faults + 1}
  BY DEF UpdateCount, ReadResources, DropArtifact, Apart, account, history, store, quota, bounds,
     resourceVars, tables, Faulty
<1>3. CASE UpdateCount(w)
  <2>1. Goes(w, "reading")
    BY <1>3 DEF UpdateCount
  <2>2. \E n \in Resourceful : /\ worker' = [worker EXCEPT ![w] = n] /\ n.pc = "reading"
                               /\ n.op = worker[w].op /\ n.row = worker[w].row
    BY <1>1, <2>1, ResourceGoes
  <2> QED BY <1>1, <1>2, <2>2 DEF Moves
<1>4. CASE ReadResources(w)
  <2>1. PICK n : n = [worker[w] EXCEPT !.pc = "writing", !.copy = Live]
    OBVIOUS
  <2>2. n \in ResourceTask /\ n.pc = "writing" /\ n.op = worker[w].op /\ n.row = worker[w].row
    BY <1>1, <2>1 DEF ResourceTask, Live
  <2>3. n \in Resourceful
    BY <1>1, <2>2 DEF Resourceful, WellFormed
  <2>4. Moves(w, n)
    BY <1>4, <2>1 DEF ReadResources, Moves
  <2> QED BY <1>1, <1>2, <2>2, <2>3, <2>4
<1>5. CASE DropArtifact(w)
  <2>1. PICK pc \in {"counting", "reading"} :
          Goes(w, pc) /\ (pc = "counting" => worker[w].op = "delete")
    BY <1>5 DEF DropArtifact
  <2>2. \E n \in Resourceful : /\ worker' = [worker EXCEPT ![w] = n] /\ n.pc = pc
                               /\ n.op = worker[w].op /\ n.row = worker[w].row
    BY <1>1, <2>1, ResourceGoes
  <2> QED BY <1>1, <1>2, <2>2 DEF Moves
<1> QED BY <1>3, <1>4, <1>5

\* The aggregates are written, and the account is asked for the points.
LEMMA WriteMoves ==
  ASSUME Types, NEW w \in Workers, WriteAggregates(w)
  PROVE  /\ worker[w] \in Resourceful /\ worker[w].pc = "writing" /\ Moves(w, Idle)
         /\ Apart /\ UNCHANGED <<row, ids, kept, faults>>
         /\ \/ worker[w].op = "create" /\ Adjust(<<"resource_publish", worker[w].row>>, 3)
            \/ worker[w].op = "delete" /\ Adjust(<<"resource_delete", worker[w].row>>, -3)
            \/ worker[w].op = "update" /\ UNCHANGED <<points, seen>>
<1>1. worker[w] \in Resourceful /\ worker[w].pc = "writing"
      /\ worker[w].op \in {"create", "update", "delete"}
  BY PlaceOf DEF WriteAggregates, At, Resourceful, ResourceTask
<1>2. Moves(w, Idle) /\ Apart /\ UNCHANGED <<row, ids, kept, faults>>
  BY DEF WriteAggregates, Moves, Over, Apart, history, store, quota, bounds
<1>3. \/ worker[w].op = "create" /\ Adjust(<<"resource_publish", worker[w].row>>, 3)
      \/ worker[w].op = "delete" /\ Adjust(<<"resource_delete", worker[w].row>>, -3)
      \/ worker[w].op = "update" /\ UNCHANGED <<points, seen>>
  BY <1>1 DEF WriteAggregates, account
<1> QED BY <1>1, <1>2, <1>3

\* An edit writes a row that is there, or back, or is refused.
LEMMA SaveMoves ==
  ASSUME Types, NEW w \in Workers, SaveResource(w)
  PROVE  /\ worker[w] \in Resourceful /\ worker[w].pc = "saving" /\ worker[w].row \in Rows
         /\ Apart /\ UNCHANGED <<ids, points, seen, kept, faults>>
         /\ \/ Moves(w, Idle) /\ UNCHANGED row
            \/ /\ \E f \in Files : row' = [row EXCEPT ![worker[w].row] = f]
               /\ \E n \in Resourceful : /\ Moves(w, n) /\ n.pc \in {"dropping", "reading"}
                                         /\ n.op = "update"
<1>1. /\ worker[w] \in Resourceful /\ worker[w].pc = "saving" /\ worker[w].row \in Rows
      /\ worker[w].op = "update" /\ worker[w].new \in Files
  BY PlaceOf DEF SaveResource, At, Resourceful, ResourceTask, WellFormed
<1>2. Apart /\ UNCHANGED <<ids, points, seen, kept, faults>>
  BY DEF SaveResource, Apart, account, store, quota, bounds
<1>3. \/ Over(w) /\ UNCHANGED row
      \/ /\ row' = [row EXCEPT ![worker[w].row] = worker[w].new]
         /\ Goes(w, IF Orphaned(worker[w].old, worker[w].new) THEN "dropping" ELSE "reading")
  BY DEF SaveResource
<1>4. CASE Over(w) /\ UNCHANGED row
  BY <1>1, <1>2, <1>4 DEF Over, Moves
<1>5. CASE /\ row' = [row EXCEPT ![worker[w].row] = worker[w].new]
           /\ Goes(w, IF Orphaned(worker[w].old, worker[w].new) THEN "dropping" ELSE "reading")
  <2>1. PICK pc \in {"dropping", "reading"} :
          Goes(w, pc) /\ (pc = "dropping" => worker[w].old \in Artifacts)
    BY <1>5 DEF Orphaned
  <2>2. \E n \in Resourceful : /\ worker' = [worker EXCEPT ![w] = n] /\ n.pc = pc
                               /\ n.op = worker[w].op /\ n.row = worker[w].row
    BY <1>1, <2>1, ResourceGoes
  <2> QED BY <1>1, <1>2, <1>5, <2>2 DEF Moves
<1> QED BY <1>3, <1>4, <1>5

\* A deletion takes the row away, also one that is gone.
LEMMA RemoveMoves ==
  ASSUME Types, NEW w \in Workers, RemoveResource(w)
  PROVE  /\ worker[w] \in Resourceful /\ worker[w].pc = "removing" /\ worker[w].row \in Rows
         /\ Apart /\ UNCHANGED <<ids, points, seen, faults>>
         /\ row' = [row EXCEPT ![worker[w].row] = None] /\ kept' = kept \ {worker[w].row}
         /\ \E n \in Resourceful : /\ Moves(w, n) /\ n.pc \in {"dropping", "counting"}
                                   /\ n.op = "delete" /\ n.row = worker[w].row
<1>1. /\ worker[w] \in Resourceful /\ worker[w].pc = "removing" /\ worker[w].row \in Rows
      /\ worker[w].op = "delete"
  BY PlaceOf DEF RemoveResource, At, Resourceful, WellFormed
<1>2. /\ Apart /\ UNCHANGED <<ids, points, seen, faults>>
      /\ row' = [row EXCEPT ![worker[w].row] = None] /\ kept' = kept \ {worker[w].row}
  BY DEF RemoveResource, Apart, account, store, quota, bounds
<1>3. PICK pc \in {"dropping", "counting"} :
        Goes(w, pc) /\ (pc = "dropping" => worker[w].old \in Artifacts)
  BY DEF RemoveResource
<1>4. \E n \in Resourceful : /\ worker' = [worker EXCEPT ![w] = n] /\ n.pc = pc
                             /\ n.op = worker[w].op /\ n.row = worker[w].row
  BY <1>1, <1>3, ResourceGoes
<1> QED BY <1>1, <1>2, <1>4 DEF Moves

-----------------------------------------------------------------------------
(***************************************************************************)
(* What the steps of an upload do.                                         *)
(***************************************************************************)
\* A completion begins.
LEMMA CompleteMoves ==
  ASSUME Types, NEW w \in Workers, NEW a \in Artifacts, CompleteUpload(w, a)
  PROVE  /\ worker[w] = Idle /\ UNCHANGED <<ready, used, images, mark, charged, days, faults>>
         /\ \E n \in UploadTask : Moves(w, n) /\ n.pc = "marking"
<1>1. PICK n : n = [pc |-> "marking", art |-> a]
  OBVIOUS
<1>2. n \in UploadTask /\ n.pc = "marking"
  BY <1>1 DEF UploadTask
<1>3. Moves(w, n) /\ UNCHANGED <<ready, used, images, mark, charged, days, faults>>
  BY <1>1 DEF CompleteUpload, Starts, Moves, quota
<1>4. worker[w] = Idle
  BY PlaceOf DEF CompleteUpload, Starts
<1> QED BY <1>2, <1>3, <1>4

\* The first completion sets the key.
LEMMA MarkMoves ==
  ASSUME Types, NEW w \in Workers, MarkCompleteOnce(w)
  PROVE  /\ worker[w] \in UploadTask /\ worker[w].pc = "marking" /\ worker[w].art \in Artifacts
         /\ UNCHANGED <<used, images, charged, days, faults>>
         /\ \/ /\ mark[worker[w].art] = None /\ mark' = [mark EXCEPT ![worker[w].art] = days]
               /\ ready' = ready
               /\ \E n \in UploadTask : /\ Moves(w, n) /\ n.pc = "checking"
                                        /\ n.art = worker[w].art
            \/ Moves(w, Idle) /\ mark' = mark /\ ready' = ready \cup {worker[w].art}
<1>1. worker[w] \in UploadTask /\ worker[w].pc = "marking" /\ worker[w].art \in Artifacts
  BY PlaceOf DEF MarkCompleteOnce, At
<1>2. UNCHANGED <<used, images, charged, days, faults>>
  BY DEF MarkCompleteOnce, bounds
<1>3. CASE mark[worker[w].art] = None
  <2>1. /\ mark' = [mark EXCEPT ![worker[w].art] = days] /\ Goes(w, "checking")
        /\ ready' = ready
    BY <1>3 DEF MarkCompleteOnce
  <2>2. \E n \in UploadTask : /\ worker' = [worker EXCEPT ![w] = n] /\ n.pc = "checking"
                              /\ n.art = worker[w].art
    BY <1>1, <2>1, UploadGoes
  <2> QED BY <1>1, <1>2, <1>3, <2>1, <2>2 DEF Moves
<1>4. CASE mark[worker[w].art] # None
  BY <1>1, <1>2, <1>4 DEF MarkCompleteOnce, Moves, Over
<1> QED BY <1>3, <1>4

\* Who holds the key checks, discards or gives up; only a file that fits is charged.
LEMMA HolderMoves ==
  ASSUME Types, NEW w \in Workers, CheckLimit(w) \/ DiscardOverLimit(w) \/ DeductFails(w)
  PROVE  /\ worker[w] \in UploadTask /\ worker[w].art \in Artifacts
         /\ worker[w].pc \in {"checking", "discarding", "deducting"}
         /\ UNCHANGED <<ready, used, images, mark, charged, days>> /\ faults' \in {faults, faults + 1}
         /\ \E n \in UploadTask :
              /\ Moves(w, n) /\ n.art = worker[w].art
              /\ n.pc \in {"deducting", "discarding", "unmarking"}
              /\ n.pc = "deducting" => ~OverLimit(n.art)
<1>1. /\ worker[w] \in UploadTask /\ worker[w].art \in Artifacts
      /\ worker[w].pc \in {"checking", "discarding", "deducting"}
  BY PlaceOf DEF CheckLimit, DiscardOverLimit, DeductFails, At
<1>2. /\ UNCHANGED <<ready, used, images, mark, charged, days>> /\ faults' \in {faults, faults + 1}
  BY DEF CheckLimit, DiscardOverLimit, DeductFails, quota, bounds, store, Faulty
<1>3. PICK pc \in {"deducting", "discarding", "unmarking"} :
        Goes(w, pc) /\ (pc = "deducting" => ~OverLimit(worker[w].art))
  BY DEF CheckLimit, DiscardOverLimit, DeductFails
<1>4. \E n \in UploadTask : /\ worker' = [worker EXCEPT ![w] = n] /\ n.pc = pc
                            /\ n.art = worker[w].art
  BY <1>1, <1>3, UploadGoes
<1> QED BY <1>1, <1>2, <1>3, <1>4 DEF Moves

\* The size is charged.
LEMMA DeductMoves ==
  ASSUME Types, NEW w \in Workers, DeductQuota(w)
  PROVE  /\ worker[w] \in UploadTask /\ worker[w].pc = "deducting"
         /\ worker[w].art \in Artifacts /\ Moves(w, Idle)
         /\ used' = used + Size[worker[w].art]
         /\ charged' = [charged EXCEPT ![worker[w].art] = @ + 1]
         /\ ready' \subseteq Artifacts /\ UNCHANGED <<images, mark, days>>
         /\ faults' \in {faults, faults + 1}
<1>1. /\ worker[w] \in UploadTask /\ worker[w].pc = "deducting" /\ worker[w].art \in Artifacts
  BY PlaceOf DEF DeductQuota, At
<1> QED BY <1>1 DEF DeductQuota, Moves, Over, Faulty, Types

\* The key is taken back.
LEMMA UnmarkMoves ==
  ASSUME Types, NEW w \in Workers, UnmarkComplete(w)
  PROVE  /\ worker[w] \in UploadTask /\ worker[w].pc = "unmarking"
         /\ worker[w].art \in Artifacts /\ Moves(w, Idle)
         /\ mark' = [mark EXCEPT ![worker[w].art] = None]
         /\ UNCHANGED <<ready, used, images, charged, days, faults>>
<1>1. /\ worker[w] \in UploadTask /\ worker[w].pc = "unmarking" /\ worker[w].art \in Artifacts
  BY PlaceOf DEF UnmarkComplete, At
<1> QED BY <1>1 DEF UnmarkComplete, Moves, Over, store, bounds

\* Images.
LEMMA ImageMoves ==
  ASSUME Types, NEW w \in Workers, CheckDailyImageQuota(w) \/ UploadImageService(w)
  PROVE  /\ UNCHANGED <<ready, used, mark, charged, days, faults>>
         /\ \/ /\ worker[w] = Idle /\ images < ImageLimit /\ images' = images
               /\ \E n \in UploadTask : Moves(w, n) /\ n.pc = "imaging"
            \/ /\ worker[w] \in UploadTask /\ worker[w].pc = "imaging" /\ Moves(w, Idle)
               /\ images' \in {images, images + 1}
<1>1. UNCHANGED <<ready, used, mark, charged, days, faults>>
  BY DEF CheckDailyImageQuota, UploadImageService, Starts, store, quota, bounds
<1>2. CASE CheckDailyImageQuota(w)
  <2>1. PICK n : n = [pc |-> "imaging", art |-> None]
    OBVIOUS
  <2>2. n \in UploadTask /\ n.pc = "imaging"
    BY <2>1 DEF UploadTask
  <2>3. Moves(w, n) /\ images < ImageLimit /\ images' = images /\ worker[w] = Idle
    BY <1>2, <2>1, PlaceOf DEF CheckDailyImageQuota, Starts, Moves, quota
  <2> QED BY <1>1, <2>2, <2>3
<1>3. CASE UploadImageService(w)
  BY <1>1, <1>3, PlaceOf DEF UploadImageService, Moves, Over, At
<1> QED BY <1>2, <1>3

\* A handler dies.
LEMMA CrashMoves ==
  ASSUME Types, NEW w \in Workers, Crash(w)
  PROVE  /\ Moves(w, Idle) /\ UNCHANGED <<ready, used, images, mark, charged, days>>
         /\ faults' = faults + 1
  BY DEF Crash, Moves, Over, Faulty, store, quota

-----------------------------------------------------------------------------
(***************************************************************************)
(* Types.                                                                  *)
(***************************************************************************)
LEMMA TypesStep ==
  ASSUME Types, [Next]_vars
  PROVE  Types'
<1> USE DEF Apart
<1>1. ASSUME NEW w \in Workers, CreateRequest(w) \/ UpdateRequest(w) \/ DeleteRequest(w)
      PROVE  Types'
  BY <1>1, RequestMoves, OneMoves DEF Types, Moves
<1>2. ASSUME NEW w \in Workers, Insert(w)
      PROVE  Types'
  <2>1. ids' \in Nat /\ UNCHANGED <<used, images, mark, charged, days, ready, points, seen, faults>>
    BY <1>2, InsertMoves DEF Types
  <2>2. kept' \subseteq Rows /\ row' \in [Rows -> Files \cup {None}]
    BY <1>2, InsertMoves DEF Types
  <2>3. worker' \in [Workers -> {Idle} \cup UploadTask \cup Resourceful]
    BY <1>2, InsertMoves, OneMoves DEF Moves
  <2> QED BY <2>1, <2>2, <2>3 DEF Types
<1>3. ASSUME NEW w \in Workers, UpdateCount(w) \/ ReadResources(w) \/ DropArtifact(w)
      PROVE  Types'
  BY <1>3, OnwardMoves, OneMoves DEF Types, Moves
<1>4. ASSUME NEW w \in Workers, WriteAggregates(w)
      PROVE  Types'
  <2>1. points' \in Int
    <3>1. points \in Int /\ points + 3 \in Int /\ points + (-3) \in Int
      BY DEF Types
    <3>2. \/ \E key : Adjust(key, 3) \/ Adjust(key, -3)
          \/ points' = points
      BY <1>4, WriteMoves
    <3> QED BY <3>1, <3>2 DEF Adjust
  <2>2. Moves(w, Idle) /\ Apart /\ UNCHANGED <<row, ids, kept, faults>>
    BY <1>4, WriteMoves
  <2>3. worker' \in [Workers -> {Idle} \cup UploadTask \cup Resourceful]
    BY <2>2, OneMoves DEF Moves
  <2> QED BY <2>1, <2>2, <2>3 DEF Types
<1>5. ASSUME NEW w \in Workers, SaveResource(w)
      PROVE  Types'
  <2>1. row' \in [Rows -> Files \cup {None}]
    BY <1>5, SaveMoves DEF Types
  <2> QED BY <1>5, <2>1, SaveMoves, OneMoves DEF Types, Moves
<1>6. ASSUME NEW w \in Workers, RemoveResource(w)
      PROVE  Types'
  BY <1>6, RemoveMoves, OneMoves DEF Types, Moves
<1>7. ASSUME NEW w \in Workers, UploadStep(w) \/ Crash(w), UNCHANGED resourceVars
      PROVE  Types'
  <2>1. UNCHANGED <<row, ids, points, kept>>
    BY <1>7 DEF resourceVars, tables, account, history
  <2>2. ASSUME NEW a \in Artifacts, CompleteUpload(w, a) PROVE Types'
    BY <2>1, <2>2, CompleteMoves, OneMoves DEF Types, Moves
  <2>3. CASE MarkCompleteOnce(w)
    BY <2>1, <2>3, MarkMoves, OneMoves DEF Types, Moves
  <2>4. CASE CheckLimit(w) \/ DiscardOverLimit(w) \/ DeductFails(w)
    BY <2>1, <2>4, HolderMoves, OneMoves DEF Types, Moves
  <2>5. CASE DeductQuota(w)
    <3>1. used' \in Nat /\ charged' \in [Artifacts -> Nat]
      BY <2>5, DeductMoves, SizeAssumption DEF Types
    <3> QED BY <2>1, <2>5, <3>1, DeductMoves, OneMoves DEF Types, Moves
  <2>6. CASE UnmarkComplete(w)
    BY <2>1, <2>6, UnmarkMoves, OneMoves DEF Types, Moves
  <2>7. CASE CheckDailyImageQuota(w) \/ UploadImageService(w)
    BY <2>1, <2>7, ImageMoves, OneMoves DEF Types, Moves
  <2>8. CASE Crash(w)
    BY <2>1, <2>8, CrashMoves, OneMoves DEF Types, Moves
  <2> QED BY <1>7, <2>2, <2>3, <2>4, <2>5, <2>6, <2>7, <2>8 DEF UploadStep
<1>8. ASSUME NEW a \in Artifacts, AbortUpload(a) \/ (InitUpload(a) /\ UNCHANGED resourceVars)
      PROVE  Types'
  BY <1>8 DEF Types, AbortUpload, Abort, InitUpload, resourceVars, tables, account, history,
              quota, bounds
<1>9. ASSUME NEW a \in Artifacts, MarkLapses(a), UNCHANGED resourceVars
      PROVE  Types'
  BY <1>9 DEF Types, MarkLapses, resourceVars, tables, account, history, store, bounds
<1>10. CASE DailyReset /\ UNCHANGED resourceVars
  BY <1>10 DEF Types, DailyReset, resourceVars, tables, account, history, store
<1>11. CASE UNCHANGED vars
  BY <1>11 DEF Types, vars, uploadVars, store, quota, bounds, resourceVars, tables, account, history
<1> QED BY <1>1, <1>2, <1>3, <1>4, <1>5, <1>6, <1>7, <1>8, <1>9, <1>10, <1>11 DEF Next, Step

-----------------------------------------------------------------------------
(***************************************************************************)
(* A file is charged once.                                                 *)
(***************************************************************************)
\* The handler that has set the key of a.
Holds(t, a) == t.pc \in {"checking", "discarding", "deducting", "unmarking"} /\ t.art = a

\* One handler at a time holds a key that is set, and it has not charged yet.
CInv ==
  /\ \A a \in Artifacts : \A v, w \in Workers :
       Holds(worker[v], a) /\ Holds(worker[w], a) => v = w
  /\ \A a \in Artifacts : \A w \in Workers :
       Holds(worker[w], a) => mark[a] # None /\ charged[a] = 0
  /\ \A a \in Artifacts : charged[a] <= 1 /\ (mark[a] = None => charged[a] = 0)

\* A step in which nobody takes hold of a key.
LEMMA HoldersStay ==
  ASSUME Types, CInv, UNCHANGED <<mark, charged>>, NEW w \in Workers,
         NEW n \in {Idle} \cup UploadTask \cup Resourceful, Moves(w, n),
         \A a \in Artifacts : Holds(n, a) => Holds(worker[w], a)
  PROVE  CInv'
<1>1. worker'[w] = n /\ \A v \in Workers : v # w => worker'[v] = worker[v]
  BY OneMoves DEF Moves
<1>2. \A a \in Artifacts : \A v \in Workers : Holds(worker[v], a)' => Holds(worker[v], a)
  BY <1>1 DEF Holds
<1> QED BY <1>2 DEF CInv

\* Neither a new request nor one about a resource holds a key.
LEMMA OthersHold ==
  ASSUME NEW t, t = Idle \/ t \in Resourceful \/ t.pc \in {"marking", "imaging"}, NEW a
  PROVE  ~Holds(t, a)
  BY DEF Holds, Idle, Resourceful, ResourceTask

\* Steps about resources hold no keys.
LEMMA ApartCharges ==
  ASSUME Types, CInv, NEW w \in Workers, Apart, NEW n \in {Idle} \cup Resourceful, Moves(w, n)
  PROVE  CInv'
<1>1. \A a \in Artifacts : ~Holds(n, a)
  BY OthersHold
<1> QED BY <1>1, HoldersStay DEF Apart

LEMMA StaysApart ==
  ASSUME Types, NEW w \in Workers,
         \/ CreateRequest(w) \/ UpdateRequest(w) \/ DeleteRequest(w)
         \/ Insert(w) \/ UpdateCount(w) \/ ReadResources(w) \/ WriteAggregates(w)
         \/ SaveResource(w) \/ RemoveResource(w) \/ DropArtifact(w)
  PROVE  \E n \in {Idle} \cup Resourceful : Moves(w, n) /\ Apart
<1>1. CASE CreateRequest(w) \/ UpdateRequest(w) \/ DeleteRequest(w)
  BY <1>1, RequestMoves
<1>2. CASE Insert(w)
  BY <1>2, InsertMoves
<1>3. CASE UpdateCount(w) \/ ReadResources(w) \/ DropArtifact(w)
  BY <1>3, OnwardMoves
<1>4. CASE WriteAggregates(w)
  BY <1>4, WriteMoves
<1>5. CASE SaveResource(w)
  BY <1>5, SaveMoves
<1>6. CASE RemoveResource(w)
  BY <1>6, RemoveMoves
<1> QED BY <1>1, <1>2, <1>3, <1>4, <1>5, <1>6

\* The first completion takes hold of the key, which nobody else does.
LEMMA MarkCharges ==
  ASSUME Types, CInv, NEW w \in Workers, MarkCompleteOnce(w)
  PROVE  CInv'
<1>1. PICK a \in Artifacts : a = worker[w].art
  BY MarkMoves
<1>2. worker[w].pc = "marking" /\ charged' = charged /\ days \in Nat
  BY MarkMoves DEF Types
<1>3. CASE mark' = mark /\ Moves(w, Idle)
  BY <1>2, <1>3, OthersHold, HoldersStay
<1>4. CASE /\ mark[a] = None /\ mark' = [mark EXCEPT ![a] = days]
           /\ \E n \in UploadTask : Moves(w, n) /\ n.pc = "checking" /\ n.art = a
  <2>1. PICK n \in UploadTask : Moves(w, n) /\ n.pc = "checking" /\ n.art = a
    BY <1>4
  <2>2. worker'[w] = n /\ \A v \in Workers : v # w => worker'[v] = worker[v]
    BY <2>1, OneMoves DEF Moves
  <2>3. mark'[a] # None /\ \A b \in Artifacts : b # a => mark'[b] = mark[b]
    BY <1>2, <1>4, DaysAssumption DEF Types
  <2>4. charged[a] = 0 /\ \A v \in Workers : ~Holds(worker[v], a)
    BY <1>4 DEF CInv
  <2>5. \A b \in Artifacts : \A v \in Workers :
          Holds(worker[v], b)' => Holds(worker[v], b) \/ (v = w /\ b = a)
    BY <2>1, <2>2 DEF Holds
  <2> QED BY <1>2, <2>3, <2>4, <2>5 DEF CInv
<1> QED BY <1>1, <1>3, <1>4, MarkMoves

\* The holder charges, and holds the key no more.
LEMMA DeductCharges ==
  ASSUME Types, CInv, NEW w \in Workers, DeductQuota(w)
  PROVE  CInv'
<1>1. PICK a \in Artifacts : a = worker[w].art
  BY DeductMoves
<1>2. /\ Holds(worker[w], a) /\ mark' = mark /\ Moves(w, Idle)
      /\ charged' = [charged EXCEPT ![a] = charged[a] + 1]
  BY <1>1, DeductMoves DEF Holds
<1>3. worker'[w] = Idle /\ \A v \in Workers : v # w => worker'[v] = worker[v]
  BY <1>2, OneMoves DEF Moves
<1>4. mark[a] # None /\ charged[a] = 0 /\ \A v \in Workers : Holds(worker[v], a) => v = w
  BY <1>2 DEF CInv
<1>5. charged'[a] = 1 /\ \A b \in Artifacts : b # a => charged'[b] = charged[b]
  BY <1>2, <1>4 DEF Types
<1>6. ~Holds(worker'[w], a) /\ \A b \in Artifacts : ~Holds(worker'[w], b)
  BY <1>3, OthersHold
<1>7. \A b \in Artifacts : \A v \in Workers :
        Holds(worker[v], b)' => Holds(worker[v], b) /\ v # w /\ b # a
  BY <1>3, <1>4, <1>6 DEF Holds
<1> QED BY <1>2, <1>4, <1>5, <1>7 DEF CInv

\* The holder takes the key back.
LEMMA UnmarkCharges ==
  ASSUME Types, CInv, NEW w \in Workers, UnmarkComplete(w)
  PROVE  CInv'
<1>1. PICK a \in Artifacts : a = worker[w].art
  BY UnmarkMoves
<1>2. /\ Holds(worker[w], a) /\ charged' = charged /\ Moves(w, Idle)
      /\ mark' = [mark EXCEPT ![a] = None]
  BY <1>1, UnmarkMoves DEF Holds
<1>3. worker'[w] = Idle /\ \A v \in Workers : v # w => worker'[v] = worker[v]
  BY <1>2, OneMoves DEF Moves
<1>4. charged[a] = 0 /\ \A v \in Workers : Holds(worker[v], a) => v = w
  BY <1>2 DEF CInv
<1>5. mark'[a] = None /\ \A b \in Artifacts : b # a => mark'[b] = mark[b]
  BY <1>2 DEF Types
<1>6. \A b \in Artifacts : ~Holds(worker'[w], b)
  BY <1>3, OthersHold
<1>7. \A b \in Artifacts : \A v \in Workers :
        Holds(worker[v], b)' => Holds(worker[v], b) /\ v # w /\ b # a
  BY <1>3, <1>4, <1>6 DEF Holds
<1> QED BY <1>2, <1>4, <1>5, <1>7 DEF CInv

LEMMA ChargesStep ==
  ASSUME Types, CInv, [Next]_vars
  PROVE  CInv'
<1>1. ASSUME NEW w \in Workers,
             \/ CreateRequest(w) \/ UpdateRequest(w) \/ DeleteRequest(w)
             \/ Insert(w) \/ UpdateCount(w) \/ ReadResources(w) \/ WriteAggregates(w)
             \/ SaveResource(w) \/ RemoveResource(w) \/ DropArtifact(w)
      PROVE  CInv'
  BY <1>1, StaysApart, ApartCharges
<1>2. ASSUME NEW w \in Workers, UploadStep(w) \/ Crash(w)
      PROVE  CInv'
  <2>1. ASSUME NEW a \in Artifacts, CompleteUpload(w, a) PROVE CInv'
    <3>1. PICK n \in UploadTask : Moves(w, n) /\ n.pc = "marking"
      BY <2>1, CompleteMoves
    <3>2. UNCHANGED <<mark, charged>> /\ \A b \in Artifacts : ~Holds(n, b)
      BY <2>1, <3>1, CompleteMoves, OthersHold
    <3> QED BY <3>1, <3>2, HoldersStay
  <2>2. CASE CheckLimit(w) \/ DiscardOverLimit(w) \/ DeductFails(w)
    <3>1. PICK n \in UploadTask : /\ Moves(w, n) /\ n.art = worker[w].art
                                  /\ n.pc \in {"deducting", "discarding", "unmarking"}
      BY <2>2, HolderMoves
    <3>2. UNCHANGED <<mark, charged>> /\ \A b \in Artifacts : Holds(n, b) => Holds(worker[w], b)
      BY <2>2, <3>1, HolderMoves DEF Holds
    <3> QED BY <3>1, <3>2, HoldersStay
  <2>3. CASE CheckDailyImageQuota(w) \/ UploadImageService(w)
    <3>1. PICK n \in {Idle} \cup UploadTask : Moves(w, n) /\ (n = Idle \/ n.pc = "imaging")
      BY <2>3, ImageMoves
    <3>2. UNCHANGED <<mark, charged>> /\ \A b \in Artifacts : ~Holds(n, b)
      BY <2>3, <3>1, ImageMoves, OthersHold
    <3> QED BY <3>1, <3>2, HoldersStay
  <2>4. CASE Crash(w)
    BY <2>4, CrashMoves, OthersHold, HoldersStay
  <2> QED BY <1>2, <2>1, <2>2, <2>3, <2>4, MarkCharges, DeductCharges, UnmarkCharges
          DEF UploadStep
<1>3. ASSUME NEW a \in Artifacts, MarkLapses(a)
      PROVE  CInv'
  <2>1. /\ worker' = worker /\ mark' = [mark EXCEPT ![a] = None]
        /\ charged' = [charged EXCEPT ![a] = 0]
    BY <1>3 DEF MarkLapses
  <2>2. \A w \in Workers : ~Holds(worker[w], a)
    BY <1>3 DEF MarkLapses, Holds, At
  <2>3. /\ mark'[a] = None /\ charged'[a] = 0
        /\ \A b \in Artifacts : b # a => mark'[b] = mark[b] /\ charged'[b] = charged[b]
    BY <2>1 DEF Types
  <2> QED BY <2>1, <2>2, <2>3 DEF CInv
<1>4. CASE UNCHANGED <<worker, mark, charged>>
  BY <1>4 DEF CInv
<1> QED BY <1>1, <1>2, <1>3, <1>4 DEF Next, Step, AbortUpload, Abort, InitUpload, DailyReset,
        quota, vars, uploadVars

-----------------------------------------------------------------------------
(***************************************************************************)
(* The quota: whoever is about to charge a file has found that it fits.    *)
(* The last of them to check has seen the others' files uncharged, so all  *)
(* but one of them count as large as a file may be.                        *)
(***************************************************************************)
Deducting == {w \in Workers : At(w, "deducting")}
Imaging == {w \in Workers : At(w, "imaging")}
Cap == Limit + (Cardinality(Workers) - 1) * MaxFile

Within(u, D, W) ==
  \/ u + Cardinality(D) * MaxFile <= Cap
  \/ \E w \in D : u + Size[W[w].art] + (Cardinality(D) - 1) * MaxFile <= Cap

QInv ==
  /\ Limit # Unlimited => Within(used, Deducting, worker)
  /\ images + Cardinality(Imaging) <= ImageLimit + Cardinality(Workers) - 1

\* Times the largest file.
LEMMA Times ==
  ASSUME NEW n \in Int, NEW m \in Int, n <= m
  PROVE  /\ n * MaxFile \in Int /\ n * MaxFile <= m * MaxFile
         /\ (n + 1) * MaxFile = n * MaxFile + MaxFile
         /\ (n - 1) * MaxFile = n * MaxFile - MaxFile
         /\ 0 <= n => 0 <= n * MaxFile
  BY SizeAssumption

\* Counting handlers.
LEMMA Handlers ==
  ASSUME NEW D \in SUBSET Workers, NEW E \in SUBSET D
  PROVE  /\ IsFiniteSet(D) /\ Cardinality(D) \in Nat /\ Cardinality(E) \in Nat
         /\ Cardinality(E) <= Cardinality(D) /\ Cardinality(D) <= Cardinality(Workers)
         /\ Cardinality(Workers) \in Nat
         /\ \A w \in D : w \notin E => Cardinality(E) <= Cardinality(D) - 1
<1>1. IsFiniteSet(D) /\ IsFiniteSet(E) /\ Cardinality(E) <= Cardinality(D)
      /\ Cardinality(D) <= Cardinality(Workers)
  BY WorkersAssumption, FS_Subset
<1>2. Cardinality(D) \in Nat /\ Cardinality(E) \in Nat /\ Cardinality(Workers) \in Nat
  BY <1>1, WorkersAssumption, FS_CardinalityType
<1>3. ASSUME NEW w \in D, w \notin E PROVE Cardinality(E) <= Cardinality(D) - 1
  <2>1. IsFiniteSet(D \ {w}) /\ Cardinality(D \ {w}) = Cardinality(D) - 1
    BY <1>1, FS_RemoveElement
  <2>2. E \subseteq D \ {w}
    BY <1>3
  <2> QED BY <2>1, <2>2, FS_Subset
<1> QED BY <1>1, <1>2, <1>3

\* Fewer handlers that are to charge no more stay within.
LEMMA FewerWithin ==
  ASSUME NEW D \in SUBSET Workers, NEW E \in SUBSET D, NEW u \in Int, NEW v \in Int, v <= u,
         NEW W, NEW X, \A w \in E : X[w].art = W[w].art,
         \A w \in D : Size[W[w].art] \in 1 .. MaxFile, Limit \in Nat,
         Within(u, D, W)
  PROVE  Within(v, E, X)
<1>1. PICK d \in Nat, e \in Nat, N \in Nat :
        d = Cardinality(D) /\ e = Cardinality(E) /\ N = Cardinality(Workers) /\ e <= d
  BY Handlers
<1>2. Cap \in Int /\ MaxFile \in Nat
  BY <1>1, SizeAssumption, Times DEF Cap
<1>3. /\ d * MaxFile \in Int /\ e * MaxFile \in Int /\ e * MaxFile <= d * MaxFile
      /\ (d - 1) * MaxFile = d * MaxFile - MaxFile
      /\ (e - 1) * MaxFile = e * MaxFile - MaxFile
  <2>1. d \in Int /\ e \in Int /\ e <= d /\ d <= d
    BY <1>1
  <2>2. d * MaxFile \in Int /\ (d - 1) * MaxFile = d * MaxFile - MaxFile
    BY <2>1, Times
  <2>3. e * MaxFile \in Int /\ e * MaxFile <= d * MaxFile
        /\ (e - 1) * MaxFile = e * MaxFile - MaxFile
    BY <2>1, Times
  <2> QED BY <2>2, <2>3
<1>4. CASE u + d * MaxFile <= Cap
  BY <1>1, <1>2, <1>3, <1>4 DEF Within
<1>5. CASE \E w \in D : u + Size[W[w].art] + (d - 1) * MaxFile <= Cap
  <2>1. PICK w \in D : u + Size[W[w].art] + (d - 1) * MaxFile <= Cap
    BY <1>5
  <2>2. Size[W[w].art] \in Nat
    BY SizeAssumption
  <2>3. CASE w \in E
    <3>1. v + Size[X[w].art] + (e - 1) * MaxFile <= Cap
      BY <1>2, <1>3, <2>1, <2>2, <2>3
    <3> QED BY <1>1, <2>3, <3>1 DEF Within
  <2>4. CASE w \notin E
    <3>1. e <= d - 1
      BY <1>1, <2>4, Handlers
    <3>2. e * MaxFile <= (d - 1) * MaxFile
      BY <1>1, <3>1, Times
    <3>3. v + e * MaxFile <= Cap
      BY <1>2, <1>3, <2>1, <2>2, <3>2
    <3> QED BY <1>1, <3>3 DEF Within
  <2> QED BY <2>3, <2>4
<1> QED BY <1>1, <1>4, <1>5 DEF Within

\* Whoever charges is charged for.
LEMMA SizeType ==
  ASSUME Types
  PROVE  \A w \in Deducting : worker[w].art \in Artifacts /\ Size[worker[w].art] \in 1 .. MaxFile
  BY PlaceOf, SizeAssumption DEF Deducting

\* A step after which fewer handlers are to charge, and no more is used.
LEMMA QuotaStays ==
  ASSUME Types, Types', QInv, used' <= used, images' <= images,
         Deducting' \subseteq Deducting, Imaging' \subseteq Imaging,
         \A w \in Deducting' : worker'[w].art = worker[w].art
  PROVE  QInv'
<1>1. Limit # Unlimited => Within(used', Deducting', worker')
  <2>1. PICK D \in SUBSET Workers : D = Deducting
    BY DEF Deducting
  <2>2. PICK E \in SUBSET D : E = Deducting'
    BY <2>1
  <2>3. \A w \in D : Size[worker[w].art] \in 1 .. MaxFile
    BY <2>1, SizeType
  <2>4. used \in Int /\ used' \in Int
    BY DEF Types
  <2>5. ASSUME Limit # Unlimited PROVE Within(used', E, worker')
    <3>1. Within(used, D, worker) /\ Limit \in Nat
      BY <2>1, <2>5, LimitAssumption DEF QInv
    <3> QED BY <2>2, <2>3, <2>4, <3>1, FewerWithin
  <2> QED BY <2>2, <2>5
<1>2. images' + Cardinality(Imaging') <= ImageLimit + Cardinality(Workers) - 1
  <2>1. PICK D \in SUBSET Workers : D = Imaging
    BY DEF Imaging
  <2>2. PICK E \in SUBSET D : E = Imaging'
    BY <2>1
  <2>3. /\ Cardinality(D) \in Nat /\ Cardinality(E) \in Nat /\ Cardinality(E) <= Cardinality(D)
        /\ Cardinality(Workers) \in Nat
    BY Handlers
  <2>4. images + Cardinality(D) <= ImageLimit + Cardinality(Workers) - 1
    BY <2>1 DEF QInv
  <2>5. images' + Cardinality(E) <= ImageLimit + Cardinality(Workers) - 1
    BY <2>3, <2>4, UnlimitedAssumption DEF Types
  <2> QED BY <2>2, <2>5
<1>3. Within(used, Deducting, worker)' = Within(used', Deducting', worker')
  BY DEF Within, Cap
<1> QED BY <1>1, <1>2, <1>3 DEF QInv

\* The same, for a handler that moves on to n.
LEMMA QuotaMoves ==
  ASSUME Types, Types', QInv, used' = used, images' = images, NEW w \in Workers,
         NEW n \in {Idle} \cup UploadTask \cup Resourceful, Moves(w, n),
         n.pc \notin {"deducting", "imaging"}
  PROVE  QInv'
<1>1. worker'[w] = n /\ \A v \in Workers : v # w => worker'[v] = worker[v]
  BY OneMoves DEF Moves
<1>2. /\ Deducting' \subseteq Deducting /\ Imaging' \subseteq Imaging
      /\ \A v \in Deducting' : worker'[v].art = worker[v].art
  BY <1>1 DEF Deducting, Imaging, At
<1>3. used' <= used /\ images' <= images
  BY DEF Types
<1> QED BY <1>2, <1>3, QuotaStays

\* A file that fits is to be charged.
LEMMA CheckQuota ==
  ASSUME Types, Types', QInv, NEW w \in Workers,
         CheckLimit(w) \/ DiscardOverLimit(w) \/ DeductFails(w)
  PROVE  QInv'
<1>1. PICK n \in UploadTask :
        /\ Moves(w, n) /\ n.art = worker[w].art
        /\ n.pc \in {"deducting", "discarding", "unmarking"}
        /\ n.pc = "deducting" => ~OverLimit(n.art)
  BY HolderMoves
<1>2. used' = used /\ images' = images /\ worker[w].art \in Artifacts
  BY HolderMoves
<1>3. CASE n.pc # "deducting"
  BY <1>1, <1>2, <1>3, QuotaMoves
<1>4. CASE n.pc = "deducting"
  <2>1. worker'[w] = n /\ \A v \in Workers : v # w => worker'[v] = worker[v]
    BY <1>1, OneMoves DEF Moves
  <2>2. Imaging' \subseteq Imaging /\ w \in Deducting'
    BY <1>4, <2>1 DEF Imaging, Deducting, At
  <2>3. ASSUME Limit # Unlimited
        PROVE  Within(used', Deducting', worker')
    <3>1. PICK D \in SUBSET Workers : D = Deducting'
      BY DEF Deducting
    <3>2. PICK d \in Nat, N \in Nat : d = Cardinality(D) /\ N = Cardinality(Workers) /\ d <= N
      BY Handlers
    <3>3. used + Size[n.art] <= Limit /\ Size[n.art] \in Nat /\ used \in Nat /\ Limit \in Nat
      BY <1>1, <1>2, <1>4, <2>3, LimitAssumption, SizeAssumption DEF OverLimit, Types
    <3>4. (d - 1) * MaxFile <= (N - 1) * MaxFile /\ (d - 1) * MaxFile \in Int
          /\ (N - 1) * MaxFile \in Int
      <4>1. d - 1 \in Int /\ N - 1 \in Int /\ d - 1 <= N - 1 /\ N - 1 <= N - 1
        BY <3>2
      <4>2. (d - 1) * MaxFile <= (N - 1) * MaxFile /\ (d - 1) * MaxFile \in Int
        BY <4>1, Times
      <4>3. (N - 1) * MaxFile \in Int
        BY <4>1, Times
      <4> QED BY <4>2, <4>3
    <3>5. used' + Size[worker'[w].art] + (d - 1) * MaxFile <= Cap
      BY <1>2, <2>1, <3>2, <3>3, <3>4 DEF Cap
    <3> QED BY <2>2, <3>1, <3>2, <3>5 DEF Within
  <2>4. Within(used, Deducting, worker)' = Within(used', Deducting', worker')
    BY DEF Within, Cap
  <2>5. images' + Cardinality(Imaging') <= ImageLimit + Cardinality(Workers) - 1
    <3>1. PICK D \in SUBSET Workers : D = Imaging
      BY DEF Imaging
    <3>2. PICK E \in SUBSET D : E = Imaging'
      BY <2>2, <3>1
    <3>3. /\ Cardinality(D) \in Nat /\ Cardinality(E) \in Nat /\ Cardinality(E) <= Cardinality(D)
          /\ Cardinality(Workers) \in Nat
      BY Handlers
    <3>4. images + Cardinality(D) <= ImageLimit + Cardinality(Workers) - 1 /\ images \in Nat
      BY <3>1 DEF QInv, Types
    <3>5. images + Cardinality(E) <= ImageLimit + Cardinality(Workers) - 1
      BY <3>3, <3>4, UnlimitedAssumption
    <3> QED BY <1>2, <3>2, <3>5
  <2> QED BY <2>3, <2>4, <2>5 DEF QInv
<1> QED BY <1>3, <1>4

\* What is charged was about to be.
LEMMA DeductQuotaStep ==
  ASSUME Types, Types', QInv, NEW w \in Workers, DeductQuota(w)
  PROVE  QInv'
<1>1. /\ At(w, "deducting") /\ Moves(w, Idle) /\ images' = images
      /\ used' = used + Size[worker[w].art]
  BY DeductMoves DEF At
<1>2. worker'[w] = Idle /\ \A v \in Workers : v # w => worker'[v] = worker[v]
  BY <1>1, OneMoves DEF Moves
<1>3. Imaging' \subseteq Imaging
  BY <1>2 DEF Imaging, At, Idle
<1>4. PICK D \in SUBSET Workers : D = Deducting
  BY DEF Deducting
<1>5. PICK E \in SUBSET D : E = D \ {w}
  OBVIOUS
<1>6. Deducting' = E /\ w \in D
  BY <1>1, <1>2, <1>4, <1>5 DEF Deducting, At, Idle
<1>7. PICK d \in Nat, e \in Nat : d = Cardinality(D) /\ e = Cardinality(E) /\ e = d - 1
  <2>1. IsFiniteSet(D)
    BY Handlers
  <2>2. Cardinality(D) \in Nat /\ Cardinality(E) \in Nat /\ Cardinality(E) = Cardinality(D) - 1
    BY <1>5, <1>6, <2>1, FS_RemoveElement, Handlers
  <2> QED BY <2>2
<1>8. /\ d * MaxFile \in Int /\ (d - 1) * MaxFile = d * MaxFile - MaxFile
      /\ (e - 1) * MaxFile = (d - 1) * MaxFile - MaxFile /\ e * MaxFile = (d - 1) * MaxFile
  <2>1. d \in Int /\ e \in Int /\ d <= d /\ e <= e
    OBVIOUS
  <2>2. d * MaxFile \in Int /\ (d - 1) * MaxFile = d * MaxFile - MaxFile
    BY <2>1, Times
  <2>3. (e - 1) * MaxFile = e * MaxFile - MaxFile
    BY <2>1, Times
  <2> QED BY <1>7, <2>2, <2>3
<1>9. \A v \in D : worker[v].art \in Artifacts /\ Size[worker[v].art] \in 1 .. MaxFile
  BY <1>4, SizeType
<1>10. PICK s \in Nat : s = Size[worker[w].art] /\ s <= MaxFile
  BY <1>6, <1>9, SizeAssumption
<1>11. ASSUME Limit # Unlimited
       PROVE  Within(used', E, worker')
  <2>1. Within(used, D, worker) /\ Limit \in Nat /\ MaxFile \in Nat /\ used \in Nat
    BY <1>4, <1>11, LimitAssumption, SizeAssumption DEF QInv, Types
  <2>2. Cap \in Int
    <3>1. Cardinality(Workers) - 1 \in Int
      BY Handlers
    <3>2. (Cardinality(Workers) - 1) * MaxFile \in Int
      BY <3>1, Times
    <3> QED BY <2>1, <3>2 DEF Cap
  <2>3. CASE used + d * MaxFile <= Cap
    <3>1. used' + e * MaxFile <= Cap
      BY <1>1, <1>8, <1>10, <2>1, <2>2, <2>3
    <3> QED BY <1>7, <3>1 DEF Within
  <2>4. CASE \E v \in D : used + Size[worker[v].art] + (d - 1) * MaxFile <= Cap
    <3>1. PICK v \in D : used + Size[worker[v].art] + (d - 1) * MaxFile <= Cap
      BY <2>4
    <3>2. CASE v = w
      <4>1. used' + e * MaxFile <= Cap
        BY <1>1, <1>8, <3>1, <3>2
      <4> QED BY <1>7, <4>1 DEF Within
    <3>3. CASE v # w
      <4>1. v \in E /\ worker'[v] = worker[v] /\ Size[worker[v].art] \in Nat
        BY <1>2, <1>5, <1>9, <3>3, SizeAssumption
      <4>2. used' + Size[worker'[v].art] + (e - 1) * MaxFile <= Cap
        BY <1>1, <1>8, <1>10, <2>1, <2>2, <3>1, <4>1
      <4> QED BY <1>7, <4>1, <4>2 DEF Within
    <3> QED BY <3>2, <3>3
  <2> QED BY <1>7, <2>1, <2>3, <2>4 DEF Within
<1>12. images' + Cardinality(Imaging') <= ImageLimit + Cardinality(Workers) - 1
  <2>1. PICK I \in SUBSET Workers : I = Imaging
    BY DEF Imaging
  <2>2. PICK J \in SUBSET I : J = Imaging'
    BY <1>3, <2>1
  <2>3. /\ Cardinality(I) \in Nat /\ Cardinality(J) \in Nat /\ Cardinality(J) <= Cardinality(I)
        /\ Cardinality(Workers) \in Nat
    BY Handlers
  <2>4. images + Cardinality(I) <= ImageLimit + Cardinality(Workers) - 1 /\ images \in Nat
    BY <2>1 DEF QInv, Types
  <2>5. images + Cardinality(J) <= ImageLimit + Cardinality(Workers) - 1
    BY <2>3, <2>4, UnlimitedAssumption
  <2> QED BY <1>1, <2>2, <2>5
<1>13. Within(used, Deducting, worker)' = Within(used', Deducting', worker')
  BY DEF Within, Cap
<1> QED BY <1>6, <1>11, <1>12, <1>13 DEF QInv

\* An image is counted by a request that found the counter below its limit.
LEMMA ImageQuota ==
  ASSUME Types, Types', QInv, NEW w \in Workers,
         CheckDailyImageQuota(w) \/ UploadImageService(w)
  PROVE  QInv'
<1>1. /\ used' = used
      /\ \/ /\ worker[w] = Idle /\ images < ImageLimit /\ images' = images
            /\ \E n \in UploadTask : Moves(w, n) /\ n.pc = "imaging"
         \/ /\ worker[w].pc = "imaging" /\ Moves(w, Idle) /\ images' \in {images, images + 1}
  BY ImageMoves
<1>2. PICK n \in {Idle} \cup UploadTask : Moves(w, n) /\ (n = Idle \/ n.pc = "imaging")
  BY <1>1
<1>3. worker'[w] = n /\ \A v \in Workers : v # w => worker'[v] = worker[v]
  BY <1>2, OneMoves DEF Moves
<1>4. ~At(w, "deducting") /\ ~At(w, "deducting")' /\ n.pc # "deducting"
  BY <1>1, <1>2, <1>3 DEF At, Idle
<1>5. Deducting' = Deducting /\ \A v \in Deducting : worker'[v] = worker[v]
  BY <1>3, <1>4 DEF Deducting, At
<1>6. Limit # Unlimited => Within(used', Deducting', worker')
  BY <1>1, <1>5 DEF QInv, Within
<1>7. images' + Cardinality(Imaging') <= ImageLimit + Cardinality(Workers) - 1
  <2>1. PICK J \in SUBSET Workers : J = Imaging'
    BY DEF Imaging
  <2>2. PICK I \in SUBSET Workers : I = Imaging
    BY DEF Imaging
  <2>3. images + Cardinality(I) <= ImageLimit + Cardinality(Workers) - 1 /\ images \in Nat
    BY <2>2 DEF QInv, Types
  <2>4. /\ Cardinality(I) \in Nat /\ Cardinality(J) \in Nat
        /\ Cardinality(J) <= Cardinality(Workers) /\ Cardinality(Workers) \in Nat
    BY Handlers
  <2>5. CASE images < ImageLimit /\ images' = images
    BY <2>1, <2>3, <2>4, <2>5, UnlimitedAssumption
  <2>6. CASE worker[w].pc = "imaging" /\ Moves(w, Idle) /\ images' \in {images, images + 1}
    <3>1. worker'[w] = Idle
      BY <2>6, OneMoves DEF Moves
    <3>2. w \in I /\ w \notin J /\ J \subseteq I
      BY <1>3, <2>1, <2>2, <2>6, <3>1 DEF Imaging, At, Idle
    <3>3. Cardinality(J) <= Cardinality(I) - 1
      BY <3>2, Handlers
    <3> QED BY <2>1, <2>3, <2>4, <2>6, <3>3, UnlimitedAssumption
  <2> QED BY <1>1, <2>5, <2>6
<1>8. Within(used, Deducting, worker)' = Within(used', Deducting', worker')
  BY DEF Within, Cap
<1> QED BY <1>6, <1>7, <1>8 DEF QInv

LEMMA QuotaStep ==
  ASSUME Types, Types', QInv, [Next]_vars
  PROVE  QInv'
<1>1. ASSUME NEW w \in Workers, CreateRequest(w) \/ UpdateRequest(w) \/ DeleteRequest(w)
             \/ Insert(w) \/ UpdateCount(w) \/ ReadResources(w) \/ WriteAggregates(w)
             \/ SaveResource(w) \/ RemoveResource(w) \/ DropArtifact(w)
      PROVE  QInv'
  <2>1. PICK n \in {Idle} \cup Resourceful : Moves(w, n) /\ Apart
    BY <1>1, StaysApart
  <2>2. n.pc \notin {"deducting", "imaging"} /\ used' = used /\ images' = images
    BY <2>1 DEF Idle, Resourceful, ResourceTask, Apart
  <2> QED BY <2>1, <2>2, QuotaMoves
<1>2. ASSUME NEW w \in Workers, UploadStep(w) \/ Crash(w)
      PROVE  QInv'
  <2>1. ASSUME NEW a \in Artifacts, CompleteUpload(w, a) PROVE QInv'
    BY <2>1, CompleteMoves, QuotaMoves
  <2>2. CASE MarkCompleteOnce(w)
    <3>1. PICK n \in {Idle} \cup UploadTask : Moves(w, n) /\ (n = Idle \/ n.pc = "checking")
      BY <2>2, MarkMoves
    <3>2. n.pc \notin {"deducting", "imaging"} /\ used' = used /\ images' = images
      BY <2>2, <3>1, MarkMoves DEF Idle
    <3> QED BY <3>1, <3>2, QuotaMoves
  <2>3. CASE UnmarkComplete(w) \/ Crash(w)
    <3>1. Moves(w, Idle) /\ used' = used /\ images' = images
      BY <2>3, UnmarkMoves, CrashMoves
    <3>2. Idle.pc \notin {"deducting", "imaging"}
      BY DEF Idle
    <3> QED BY <3>1, <3>2, QuotaMoves
  <2> QED BY <1>2, <2>1, <2>2, <2>3, CheckQuota, DeductQuotaStep, ImageQuota DEF UploadStep
<1>3. CASE worker' = worker /\ used' <= used /\ images' <= images
  BY <1>3, QuotaStays DEF Deducting, Imaging, At
<1>4. ASSUME NEW a \in Artifacts, AbortUpload(a) \/ InitUpload(a) \/ MarkLapses(a)
      PROVE  QInv'
  <2>1. worker' = worker /\ used' = used /\ images' = images
    BY <1>4 DEF AbortUpload, Abort, InitUpload, MarkLapses, quota
  <2> QED BY <1>3, <2>1 DEF Types
<1>5. CASE DailyReset \/ UNCHANGED vars
  <2>1. /\ worker' = worker
        /\ \/ used' = used /\ images' = images
           \/ used' = 0 /\ images' = 0
    BY <1>5 DEF DailyReset, vars, uploadVars, quota
  <2>2. used' <= used /\ images' <= images
    BY <2>1 DEF Types
  <2> QED BY <1>3, <2>1, <2>2
<1> QED BY <1>1, <1>2, <1>4, <1>5 DEF Next, Step

\* Within the cap, whoever is still to charge.
LEMMA WithinCap ==
  ASSUME Types, QInv
  PROVE  OvershootBounded
<1>1. PICK D \in SUBSET Workers, I \in SUBSET Workers : D = Deducting /\ I = Imaging
  BY DEF Deducting, Imaging
<1>2. /\ Cardinality(D) \in Nat /\ Cardinality(I) \in Nat /\ Cardinality(Workers) \in Nat
  BY Handlers
<1>3. images <= ImageLimit + Cardinality(Workers) - 1
  <2>1. images + Cardinality(I) <= ImageLimit + Cardinality(Workers) - 1 /\ images \in Nat
    BY <1>1 DEF QInv, Types
  <2> QED BY <1>2, <2>1, UnlimitedAssumption
<1>4. ASSUME Limit # Unlimited
      PROVE  used <= Limit + (Cardinality(Workers) - 1) * MaxFile
  <2>1. Within(used, D, worker) /\ Limit \in Nat /\ used \in Nat
    BY <1>1, <1>4, LimitAssumption DEF QInv, Types
  <2>2. Cap \in Int
    <3>1. Cardinality(Workers) - 1 \in Int
      BY <1>2
    <3>2. (Cardinality(Workers) - 1) * MaxFile \in Int
      BY <3>1, Times
    <3> QED BY <2>1, <3>2 DEF Cap
  <2>3. CASE used + Cardinality(D) * MaxFile <= Cap
    <3>1. Cardinality(D) * MaxFile \in Int /\ 0 <= Cardinality(D) * MaxFile
      <4>1. Cardinality(D) \in Int /\ 0 <= Cardinality(D) /\ Cardinality(D) <= Cardinality(D)
        BY <1>2
      <4> QED BY <4>1, Times
    <3> QED BY <2>1, <2>2, <2>3, <3>1 DEF Cap
  <2>4. CASE \E w \in D : used + Size[worker[w].art] + (Cardinality(D) - 1) * MaxFile <= Cap
    <3>1. PICK w \in D : used + Size[worker[w].art] + (Cardinality(D) - 1) * MaxFile <= Cap
      BY <2>4
    <3>2. Size[worker[w].art] \in Nat
      BY <1>1, SizeType, SizeAssumption
    <3>3. 1 <= Cardinality(D)
      <4>1. PICK E \in SUBSET D : E = {}
        OBVIOUS
      <4>2. Cardinality(E) \in Nat /\ Cardinality(E) <= Cardinality(D) - 1
        BY <4>1, Handlers
      <4> QED BY <1>2, <4>2
    <3>4. (Cardinality(D) - 1) * MaxFile \in Int /\ 0 <= (Cardinality(D) - 1) * MaxFile
      <4>1. /\ Cardinality(D) - 1 \in Int /\ 0 <= Cardinality(D) - 1
            /\ Cardinality(D) - 1 <= Cardinality(D) - 1
        BY <1>2, <3>3
      <4> QED BY <4>1, Times
    <3> QED BY <2>1, <2>2, <3>1, <3>2, <3>4 DEF Cap
  <2> QED BY <2>1, <2>3, <2>4 DEF Within
<1> QED BY <1>3, <1>4 DEF OvershootBounded

-----------------------------------------------------------------------------
(***************************************************************************)
(* The uploader's points: three for each key of a publication, less three  *)
(* for each key of a deletion.  As long as nothing fails, a resource that  *)
(* was born is published under its key or will be by the handler that made *)
(* it, and one that is not kept is deleted under its key or will be.       *)
(***************************************************************************)
After == {"dropping", "counting", "reading", "writing"}
OwesFor(t, op, r) == t.pc \in After /\ t.op = op /\ t.row = r
Owes(op, r) == \E w \in Workers : OwesFor(worker[w], op, r)

PublishKey(r) == <<"resource_publish", r>>
DeleteKey(r) == <<"resource_delete", r>>
Published == {r \in Rows : PublishKey(r) \in seen}
Deleted == {r \in Rows : DeleteKey(r) \in seen}

Born(r) == r \in Published \/ Owes("create", r)
Gone(r) == r \in Deleted \/ Owes("delete", r)

\* Handlers that hold a row they read.
Reads(t, r) == t.pc \in {"saving", "removing"} /\ t.row = r

Balance == points = 3 * (Cardinality(Published) - Cardinality(Deleted))

Flawless ==
  \A r \in Rows :
    /\ Born(r) => r <= ids
    /\ Here(r) => Born(r)
    /\ \A w \in Workers : Reads(worker[w], r) => Born(r)
    /\ r \in kept => Born(r) /\ ~Gone(r)
    /\ Born(r) => r \in kept \/ Gone(r)
    /\ Gone(r) => Born(r)

PInv == Balance /\ (faults = 0 => Flawless)

\* Who owes what, when one handler moves to n.
LEMMA OwesMoves ==
  ASSUME Types, NEW w \in Workers, NEW n \in {Idle} \cup UploadTask \cup Resourceful, Moves(w, n)
  PROVE  /\ \A op, r : Owes(op, r)' <=> \/ OwesFor(n, op, r)
                                        \/ \E v \in Workers \ {w} : OwesFor(worker[v], op, r)
         /\ \A op, r : Owes(op, r) <=> \/ OwesFor(worker[w], op, r)
                                       \/ \E v \in Workers \ {w} : OwesFor(worker[v], op, r)
         /\ \A r : \A v \in Workers : Reads(worker[v], r)' => Reads(worker[v], r) \/ Reads(n, r)
<1>1. worker'[w] = n /\ \A v \in Workers : v # w => worker'[v] = worker[v]
  BY OneMoves DEF Moves
<1> QED BY <1>1 DEF Owes, OwesFor, Reads

\* Nobody owes but about a resource.
LEMMA NothingOwed ==
  ASSUME NEW t, t \in {Idle} \cup UploadTask \/ t.pc \in {"inserting", "saving", "removing"}
  PROVE  \A op, r : ~OwesFor(t, op, r)
  BY DEF OwesFor, After, Idle, UploadTask

LEMMA NothingRead ==
  ASSUME NEW t, t \in {Idle} \cup UploadTask \/ t.pc \in After \cup {"inserting"}
  PROVE  \A r : ~Reads(t, r)
  BY DEF Reads, After, Idle, UploadTask

\* A step that changes none of this.
LEMMA PointsStay ==
  ASSUME Types, PInv, UNCHANGED <<points, seen, kept>>, faults' = 0 => faults = 0,
         ids <= ids', ids' \in Nat,
         faults = 0 => \A r \in Rows : /\ Owes("create", r)' <=> Owes("create", r)
                                       /\ Owes("delete", r)' <=> Owes("delete", r)
                                       /\ Here(r)' => Here(r) \/ Born(r)
                                       /\ \A w \in Workers : Reads(worker[w], r)' => Born(r)
  PROVE  PInv'
<1>1. Published' = Published /\ Deleted' = Deleted
  BY DEF Published, Deleted
<1>2. Balance'
  BY <1>1 DEF PInv, Balance
<1>3. ASSUME faults' = 0 PROVE Flawless'
  <2>1. \A r \in Rows : (Born(r)' <=> Born(r)) /\ (Gone(r)' <=> Gone(r))
    BY <1>1, <1>3 DEF Born, Gone
  <2>2. \A r \in Rows : r \in Nat
    BY DEF Rows
  <2> QED BY <1>3, <2>1, <2>2 DEF PInv, Flawless, Types
<1> QED BY <1>2, <1>3 DEF PInv

\* Uploads, requests, and what goes on with a request.
LEMMA QuietPoints ==
  ASSUME Types, PInv, NEW w \in Workers,
         NEW n \in {Idle} \cup UploadTask \cup Resourceful, Moves(w, n),
         UNCHANGED <<points, seen, kept>>, faults' = 0 => faults = 0,
         ids <= ids', ids' \in Nat,
         \A r \in Rows : \A op \in {"create", "delete"} :
           OwesFor(n, op, r) <=> OwesFor(worker[w], op, r),
         \A r \in Rows : Reads(n, r) => Here(r),
         faults = 0 => \A r \in Rows : Here(r)' => Here(r) \/ Born(r)
  PROVE  PInv'
<1>1. \A r \in Rows : \A op \in {"create", "delete"} : Owes(op, r)' <=> Owes(op, r)
  BY OwesMoves
<1>2. \A r \in Rows : \A v \in Workers : Reads(worker[v], r)' => Reads(worker[v], r) \/ Here(r)
  BY OwesMoves
<1>3. faults = 0 => \A r \in Rows : \A v \in Workers : Reads(worker[v], r)' => Born(r)
  BY <1>2 DEF PInv, Flawless
<1> QED BY <1>1, <1>3, PointsStay

\* Requests hold rows that are there; who goes on owes what it owed.
LEMMA RequestPoints ==
  ASSUME Types, PInv, NEW w \in Workers, CreateRequest(w) \/ UpdateRequest(w) \/ DeleteRequest(w)
  PROVE  PInv'
<1>1. PICK n \in Resourceful :
        /\ Moves(w, n) /\ worker[w] = Idle /\ n.pc \in {"inserting", "saving", "removing"}
        /\ n.pc # "inserting" => n.row \in Live
        /\ UNCHANGED <<row, ids, points, seen, kept, faults>>
  BY RequestMoves
<1>2. \A r \in Rows : \A op \in {"create", "delete"} :
        OwesFor(n, op, r) <=> OwesFor(worker[w], op, r)
  BY <1>1, NothingOwed
<1>3. \A r \in Rows : Reads(n, r) => Here(r)
  BY <1>1 DEF Reads, Live
<1>4. \A r \in Rows : Here(r)' => Here(r)
  BY <1>1 DEF Here
<1> QED BY <1>1, <1>2, <1>3, <1>4, QuietPoints DEF Types

LEMMA OnwardPoints ==
  ASSUME Types, PInv, NEW w \in Workers, UpdateCount(w) \/ ReadResources(w) \/ DropArtifact(w)
  PROVE  PInv'
<1>1. PICK n \in Resourceful :
        /\ Moves(w, n) /\ n.pc \in {"counting", "reading", "writing"}
        /\ n.op = worker[w].op /\ n.row = worker[w].row
        /\ worker[w].pc \in {"dropping", "counting", "reading"}
        /\ UNCHANGED <<row, ids, points, seen, kept>> /\ faults' \in {faults, faults + 1}
  BY OnwardMoves
<1>2. \A r \in Rows : \A op \in {"create", "delete"} :
        OwesFor(n, op, r) <=> OwesFor(worker[w], op, r)
  BY <1>1 DEF OwesFor, After
<1>3. \A r \in Rows : ~Reads(n, r)
  BY <1>1, NothingRead DEF After
<1>4. \A r \in Rows : Here(r)' => Here(r)
  BY <1>1 DEF Here
<1>5. faults' = 0 => faults = 0
  BY <1>1 DEF Types
<1> QED BY <1>1, <1>2, <1>3, <1>4, <1>5, QuietPoints DEF Types

\* An upload's handler has nothing to do with points, and one that dies is a fault.
LEMMA UploadPoints ==
  ASSUME Types, PInv, NEW w \in Workers, UploadStep(w) \/ Crash(w), UNCHANGED resourceVars
  PROVE  PInv'
<1>1. UNCHANGED <<row, ids, points, seen, kept>>
  BY DEF resourceVars, tables, account, history
<1>2. \A r \in Rows : Here(r)' => Here(r)
  BY <1>1 DEF Here
<1>3. CASE Crash(w)
  <2>1. faults' # 0
    BY <1>3, CrashMoves DEF Types
  <2>2. Balance'
    BY <1>1 DEF PInv, Balance, Published, Deleted
  <2> QED BY <2>1, <2>2 DEF PInv
<1>4. CASE UploadStep(w)
  <2>1. PICK n \in {Idle} \cup UploadTask :
          Moves(w, n) /\ worker[w] \in {Idle} \cup UploadTask /\ faults' \in {faults, faults + 1}
    BY <1>4, CompleteMoves, MarkMoves, HolderMoves, DeductMoves, UnmarkMoves, ImageMoves
       DEF UploadStep
  <2>2. \A r \in Rows : \A op \in {"create", "delete"} :
          OwesFor(n, op, r) <=> OwesFor(worker[w], op, r)
    BY <2>1, NothingOwed
  <2>3. \A r \in Rows : ~Reads(n, r)
    BY <2>1, NothingRead
  <2>4. faults' = 0 => faults = 0
    BY <2>1 DEF Types
  <2> QED BY <1>1, <1>2, <2>1, <2>2, <2>3, <2>4, QuietPoints DEF Types
<1> QED BY <1>3, <1>4

\* An edit may bring a row back, but one that was born.
LEMMA SavePoints ==
  ASSUME Types, PInv, NEW w \in Workers, SaveResource(w)
  PROVE  PInv'
<1>1. /\ worker[w].pc = "saving" /\ worker[w].row \in Rows
      /\ UNCHANGED <<ids, points, seen, kept, faults>>
  BY SaveMoves
<1>2. PICK n \in {Idle} \cup Resourceful :
        /\ Moves(w, n) /\ (n = Idle \/ (n.pc \in {"dropping", "reading"} /\ n.op = "update"))
  BY SaveMoves
<1>3. row' = row \/ \E f \in Files : row' = [row EXCEPT ![worker[w].row] = f]
  BY SaveMoves
<1>4. \A r \in Rows : \A op \in {"create", "delete"} :
        OwesFor(n, op, r) <=> OwesFor(worker[w], op, r)
  BY <1>1, <1>2, NothingOwed DEF OwesFor
<1>5. \A r \in Rows : ~Reads(n, r)
  BY <1>2, NothingRead DEF After
<1>6. \A r \in Rows : Here(r)' => Here(r) \/ r = worker[w].row
  BY <1>1, <1>3 DEF Here, Types
<1>7. faults = 0 => Born(worker[w].row)
  BY <1>1 DEF PInv, Flawless, Reads
<1>8. faults = 0 => \A r \in Rows : Here(r)' => Here(r) \/ Born(r)
  BY <1>6, <1>7
<1> QED BY <1>1, <1>2, <1>4, <1>5, <1>8, QuietPoints DEF Types

\* A row inserted under a new id is born, kept and not gone.
LEMMA InsertPoints ==
  ASSUME Types, PInv, NEW w \in Workers, Insert(w)
  PROVE  PInv'
<1>1. /\ ids + 1 \in Rows /\ ids' = ids + 1 /\ worker[w].pc = "inserting"
      /\ UNCHANGED <<points, seen, faults>>
  BY InsertMoves
<1>2. CASE Moves(w, Idle) /\ UNCHANGED <<row, kept>>
  <2>1. \A r \in Rows : \A op \in {"create", "delete"} :
          OwesFor(Idle, op, r) <=> OwesFor(worker[w], op, r)
    BY <1>1, NothingOwed
  <2>2. \A r \in Rows : ~Reads(Idle, r)
    BY NothingRead
  <2>3. \A r \in Rows : Here(r)' => Here(r)
    BY <1>2 DEF Here
  <2>4. ids <= ids' /\ ids' \in Nat
    BY <1>1 DEF Types
  <2> QED BY <1>1, <1>2, <2>1, <2>2, <2>3, <2>4, QuietPoints
<1>3. CASE /\ kept' = kept \cup {ids + 1}
           /\ \E f \in Files : row' = [row EXCEPT ![ids + 1] = f]
           /\ \E n \in Resourceful : /\ Moves(w, n) /\ n.pc = "counting"
                                     /\ n.op = "create" /\ n.row = ids + 1
  <2>1. PICK n \in Resourceful : /\ Moves(w, n) /\ n.pc = "counting"
                                 /\ n.op = "create" /\ n.row = ids + 1
    BY <1>3
  <2>2. PICK x \in Rows : x = ids + 1
    BY <1>1
  <2>3. \A r : ~OwesFor(worker[w], "create", r) /\ ~OwesFor(worker[w], "delete", r)
    BY <1>1, NothingOwed
  <2>4. \A r \in Rows : /\ OwesFor(n, "create", r) <=> r = x
                        /\ ~OwesFor(n, "delete", r) /\ ~Reads(n, r)
    BY <2>1, <2>2 DEF OwesFor, After, Reads
  <2>5. Published' = Published /\ Deleted' = Deleted
    BY <1>1 DEF Published, Deleted
  <2>6. \A r \in Rows : (Born(r)' <=> Born(r) \/ r = x) /\ (Gone(r)' <=> Gone(r))
    BY <2>1, <2>3, <2>4, <2>5, OwesMoves DEF Born, Gone
  <2>7. \A r \in Rows : \A v \in Workers : Reads(worker[v], r)' => Reads(worker[v], r)
    BY <2>1, <2>4, OwesMoves
  <2>8. \A r \in Rows : r # x => (Here(r)' <=> Here(r))
    BY <1>3, <2>2 DEF Here, Types
  <2>9. ASSUME faults = 0 PROVE Flawless'
    <3>1. Flawless
      BY <2>9 DEF PInv
    <3>2. ~Born(x) /\ ~Gone(x) /\ ids \in Nat /\ \A r \in Rows : r \in Nat
      BY <2>2, <3>1 DEF Flawless, Types, Rows
    <3> QED BY <1>1, <1>3, <2>2, <2>6, <2>7, <2>8, <3>1, <3>2 DEF Flawless
  <2> QED BY <1>1, <2>5, <2>9 DEF PInv, Balance
<1> QED BY <1>2, <1>3, InsertMoves

\* A row that is removed was born, and is gone from now on.
LEMMA RemovePoints ==
  ASSUME Types, PInv, NEW w \in Workers, RemoveResource(w)
  PROVE  PInv'
<1>1. PICK x \in Rows : x = worker[w].row
  BY RemoveMoves
<1>2. /\ worker[w].pc = "removing" /\ row' = [row EXCEPT ![x] = None] /\ kept' = kept \ {x}
      /\ UNCHANGED <<ids, points, seen, faults>>
  BY <1>1, RemoveMoves
<1>3. PICK n \in Resourceful : /\ Moves(w, n) /\ n.pc \in {"dropping", "counting"}
                               /\ n.op = "delete" /\ n.row = x
  BY <1>1, RemoveMoves
<1>4. \A r : ~OwesFor(worker[w], "create", r) /\ ~OwesFor(worker[w], "delete", r)
  BY <1>2, NothingOwed
<1>5. \A r \in Rows : /\ OwesFor(n, "delete", r) <=> r = x
                      /\ ~OwesFor(n, "create", r) /\ ~Reads(n, r)
  BY <1>3 DEF OwesFor, After, Reads
<1>6. Published' = Published /\ Deleted' = Deleted
  BY <1>2 DEF Published, Deleted
<1>7. \A r \in Rows : (Born(r)' <=> Born(r)) /\ (Gone(r)' <=> Gone(r) \/ r = x)
  BY <1>3, <1>4, <1>5, <1>6, OwesMoves DEF Born, Gone
<1>8. \A r \in Rows : \A v \in Workers : Reads(worker[v], r)' => Reads(worker[v], r)
  BY <1>3, <1>5, OwesMoves
<1>9. \A r \in Rows : Here(r)' => Here(r)
  BY <1>2 DEF Here, Types
<1>10. ASSUME faults = 0 PROVE Flawless'
  <2>1. Flawless /\ Born(x)
    BY <1>1, <1>2, <1>10 DEF PInv, Flawless, Reads
  <2> QED BY <1>2, <1>7, <1>8, <1>9, <2>1 DEF Flawless
<1> QED BY <1>2, <1>6, <1>10 DEF PInv, Balance

\* Sets of rows are finite.
LEMMA RowSets ==
  ASSUME NEW S \in SUBSET Rows
  PROVE  IsFiniteSet(S) /\ Cardinality(S) \in Nat
<1>1. IsFiniteSet(1..MaxRows)
  BY RowsAssumption, FS_Interval
<1>2. S \subseteq 1..MaxRows
  BY DEF Rows
<1>3. IsFiniteSet(S)
  BY <1>1, <1>2, FS_Subset
<1> QED BY <1>3, FS_CardinalityType

\* A key that is new moves the points by three.
LEMMA Adjusted ==
  ASSUME Types, PInv, NEW x \in Rows,
         \/ Adjust(PublishKey(x), 3) \/ Adjust(DeleteKey(x), -3) \/ UNCHANGED <<points, seen>>
  PROVE  Balance'
<1>1. PICK P \in SUBSET Rows, D \in SUBSET Rows : P = Published /\ D = Deleted
  BY DEF Published, Deleted
<1>2. PICK c \in Nat, d \in Nat : c = Cardinality(P) /\ d = Cardinality(D)
  BY RowSets
<1>3. points = 3 * (c - d) /\ points \in Int
  BY <1>1, <1>2 DEF PInv, Balance, Types
<1>4. IsFiniteSet(P) /\ IsFiniteSet(D)
  BY RowSets
<1>5. CASE Adjust(PublishKey(x), 3)
  <2>1. seen' = seen \cup {PublishKey(x)}
    BY <1>5 DEF Adjust
  <2>2. PICK Q : Q = P \cup {x}
    OBVIOUS
  <2>3. Published' = Q /\ Deleted' = D
    BY <1>1, <2>1, <2>2 DEF Published, Deleted, PublishKey, DeleteKey
  <2>4. CASE PublishKey(x) \in seen
    <3>1. Q = P /\ points' = points
      BY <1>1, <1>5, <2>2, <2>4 DEF Published, Adjust
    <3> QED BY <1>2, <1>3, <2>3, <3>1 DEF Balance
  <2>5. CASE PublishKey(x) \notin seen
    <3>1. x \notin P /\ points' = points + 3
      BY <1>1, <1>5, <2>5 DEF Published, Adjust
    <3>2. Cardinality(Q) = c + 1
      BY <1>2, <1>4, <2>2, <3>1, FS_AddElement
    <3>3. points' = 3 * ((c + 1) - d)
      BY <1>3, <3>1
    <3> QED BY <1>2, <2>3, <3>2, <3>3 DEF Balance
  <2> QED BY <2>4, <2>5
<1>6. CASE Adjust(DeleteKey(x), -3)
  <2>1. seen' = seen \cup {DeleteKey(x)}
    BY <1>6 DEF Adjust
  <2>2. PICK Q : Q = D \cup {x}
    OBVIOUS
  <2>3. Published' = P /\ Deleted' = Q
    BY <1>1, <2>1, <2>2 DEF Published, Deleted, PublishKey, DeleteKey
  <2>4. CASE DeleteKey(x) \in seen
    <3>1. Q = D /\ points' = points
      BY <1>1, <1>6, <2>2, <2>4 DEF Deleted, Adjust
    <3> QED BY <1>2, <1>3, <2>3, <3>1 DEF Balance
  <2>5. CASE DeleteKey(x) \notin seen
    <3>1. x \notin D /\ points' = points + (-3)
      BY <1>1, <1>6, <2>5 DEF Deleted, Adjust
    <3>2. Cardinality(Q) = d + 1
      BY <1>2, <1>4, <2>2, <3>1, FS_AddElement
    <3>3. points' = 3 * (c - (d + 1))
      BY <1>3, <3>1
    <3> QED BY <1>2, <2>3, <3>2, <3>3 DEF Balance
  <2> QED BY <2>4, <2>5
<1>7. CASE UNCHANGED <<points, seen>>
  BY <1>7 DEF PInv, Balance, Published, Deleted
<1> QED BY <1>5, <1>6, <1>7

\* What was owed under a key is settled by it.
LEMMA WritePoints ==
  ASSUME Types, PInv, NEW w \in Workers, WriteAggregates(w)
  PROVE  PInv'
<1>1. /\ worker[w] \in Resourceful /\ worker[w].pc = "writing" /\ Moves(w, Idle)
      /\ UNCHANGED <<row, ids, kept, faults>>
  BY WriteMoves
<1>2. PICK x \in Rows : x = worker[w].row
  BY <1>1 DEF Resourceful, WellFormed
<1>3. \/ worker[w].op = "create" /\ Adjust(PublishKey(x), 3)
      \/ worker[w].op = "delete" /\ Adjust(DeleteKey(x), -3)
      \/ worker[w].op = "update" /\ UNCHANGED <<points, seen>>
  BY <1>2, WriteMoves DEF PublishKey, DeleteKey
<1>4. \A r \in Rows : \A op : OwesFor(worker[w], op, r) <=> op = worker[w].op /\ r = x
  BY <1>1, <1>2 DEF OwesFor, After
<1>5. \A r : \A op : ~OwesFor(Idle, op, r)
  BY NothingOwed
<1>6. \A r \in Rows : ~Reads(Idle, r)
  BY NothingRead
<1>7. /\ \A r \in Rows : r \in Published' <=> r \in Published \/ (r = x /\ worker[w].op = "create")
      /\ \A r \in Rows : r \in Deleted' <=> r \in Deleted \/ (r = x /\ worker[w].op = "delete")
  BY <1>3 DEF Adjust, Published, Deleted, PublishKey, DeleteKey
<1>8. \A r \in Rows : \A op :
        Owes(op, r) <=> Owes(op, r)' \/ (op = worker[w].op /\ r = x)
  BY <1>1, <1>4, <1>5, OwesMoves
<1>9. \A r \in Rows : (Born(r)' <=> Born(r)) /\ (Gone(r)' <=> Gone(r))
  BY <1>7, <1>8 DEF Born, Gone
<1>10. \A r \in Rows : \A v \in Workers : Reads(worker[v], r)' => Reads(worker[v], r)
  BY <1>1, <1>6, OwesMoves
<1>11. \A r \in Rows : Here(r)' <=> Here(r)
  BY <1>1 DEF Here
<1>12. Balance'
  BY <1>3, Adjusted
<1>13. ASSUME faults = 0 PROVE Flawless'
  BY <1>1, <1>9, <1>10, <1>11, <1>13 DEF PInv, Flawless
<1> QED BY <1>1, <1>12, <1>13 DEF PInv

LEMMA PointsStep ==
  ASSUME Types, PInv, [Next]_vars
  PROVE  PInv'
<1>1. CASE UNCHANGED <<worker, row, ids, points, seen, kept, faults>>
  <2>1. ids <= ids' /\ ids' \in Nat
    BY <1>1 DEF Types
  <2> QED BY <1>1, <2>1, PointsStay DEF PInv, Flawless, Owes, Here
<1>2. ASSUME NEW a \in Artifacts,
             AbortUpload(a) \/ ((InitUpload(a) \/ MarkLapses(a)) /\ UNCHANGED resourceVars)
      PROVE  UNCHANGED <<worker, row, ids, points, seen, kept, faults>>
  BY <1>2 DEF AbortUpload, Abort, InitUpload, MarkLapses, resourceVars, tables, account, history,
              bounds
<1>3. CASE (DailyReset /\ UNCHANGED resourceVars) \/ UNCHANGED vars
  <2>1. UNCHANGED <<worker, row, ids, points, seen, kept, faults>>
    BY <1>3 DEF DailyReset, resourceVars, tables, account, history, vars, uploadVars, bounds
  <2> QED BY <1>1, <2>1
<1> QED BY <1>1, <1>2, <1>3, RequestPoints, InsertPoints, OnwardPoints, WritePoints, SavePoints,
        RemovePoints, UploadPoints DEF Next, Step

\* With nothing failing and nothing under way, who was born is kept or deleted.
LEMMA PointsSettle ==
  ASSUME Types, PInv
  PROVE  PointsFollowResources
<1> SUFFICES ASSUME Quiet, faults = 0 PROVE points = 3 * Cardinality(kept)
  BY DEF PointsFollowResources
<1>1. \A r \in Rows : \A op : ~Owes(op, r)
  BY DEF Quiet, At, Owes, OwesFor, After
<1>2. PICK P \in SUBSET Rows, D \in SUBSET Rows : P = Published /\ D = Deleted
  BY DEF Published, Deleted
<1>3. kept = P \ D /\ D \subseteq P
  BY <1>1, <1>2 DEF PInv, Flawless, Born, Gone, Types
<1>4. PICK S \in SUBSET Rows : S = P \ D
  OBVIOUS
<1>5. Cardinality(P) = Cardinality(S) + Cardinality(D)
  <2>1. IsFiniteSet(S) /\ IsFiniteSet(D) /\ IsFiniteSet(P)
    BY RowSets
  <2>2. S \cap D = {} /\ S \cup D = P
    BY <1>3, <1>4
  <2>3. Cardinality(S \cup D) = Cardinality(S) + Cardinality(D) - Cardinality(S \cap D)
    BY <2>1, FS_Union
  <2>4. Cardinality(S \cap D) = 0
    BY <2>2, FS_EmptySet
  <2>5. Cardinality(S) \in Nat /\ Cardinality(D) \in Nat
    BY RowSets
  <2>6. Cardinality(S \cup D) = Cardinality(P)
    BY <2>2
  <2>7. Cardinality(P) = Cardinality(S) + Cardinality(D) - 0
    BY <2>3, <2>4, <2>6
  <2> QED BY <2>5, <2>7
<1>6. points = 3 * (Cardinality(P) - Cardinality(D))
  BY <1>2 DEF PInv, Balance
<1>7. Cardinality(S) \in Nat /\ Cardinality(D) \in Nat
  BY RowSets
<1> QED BY <1>3, <1>4, <1>5, <1>6, <1>7

-----------------------------------------------------------------------------
(***************************************************************************)
(* One request at a time and nothing failing: the books.  What the count,  *)
(* the aggregates and the store are off by is what the one request at work *)
(* has still to do.                                                        *)
(***************************************************************************)
Stored == {a \in attached : art[a] = "stored"}

\* What is uploaded, published and stored, and which row has it.
Sound ==
  /\ art \in [Artifacts -> {"none", "open", "stored", "deleted"}] /\ count \in Nat
  /\ attached \subseteq ready
  /\ \A a \in attached : art[a] \in {"stored", "deleted"}
  /\ \A a \in ready \ attached : art[a] = "stored"
  /\ \A r \in Live : r <= ids /\ (row[r] \in Artifacts => row[r] \in attached)
  /\ \A q, r \in Live : row[q] = row[r] /\ row[r] \in Artifacts => q = r

\* A file without a resource is the one the request is about to drop.
FilesOwed(t) ==
  IF t.pc = "dropping" THEN /\ t.old \in Stored /\ t.old \notin Served
                            /\ Stored \ {t.old} = Served \cap Artifacts
                       ELSE Stored = Served \cap Artifacts

CountOwed(t) ==
  /\ t.pc = "counting" /\ t.op = "create" => count + 1 = Cardinality(Live)
  /\ t.pc \in {"dropping", "counting"} /\ t.op = "delete" => count = Cardinality(Live) + 1
  /\ t.pc = "dropping" /\ t.op # "delete" => count = Cardinality(Live)
  /\ t.pc \notin {"dropping", "counting"} => count = Cardinality(Live)

\* What the request was told still holds.
Current(t) ==
  /\ t.pc \in {"marking", "checking", "deducting", "discarding"} =>
       art[t.art] = "stored" /\ t.art \notin ready
  /\ t.pc \in {"inserting", "saving"} =>
       t.new \in (ready \ attached) \cup {Link} \/ (t.pc = "saving" /\ t.new = t.old)
  /\ t.pc \in {"saving", "removing"} => t.row \in Live /\ row[t.row] = t.old
  /\ t.pc = "writing" => t.copy = Live
  /\ t.pc \notin {"dropping", "counting", "reading", "writing"} => agg = Live

OnTrack(t) == FilesOwed(t) /\ CountOwed(t) /\ Current(t)

Balanced == Stored = Served \cap Artifacts /\ count = Cardinality(Live) /\ agg = Live

Alone == \A v, w \in Workers : v # w => At(v, "idle") \/ At(w, "idle")

Books ==
  serial /\ faults = 0 =>
    /\ Sound /\ Alone
    /\ Quiet => Balanced
    /\ \A w \in Workers : ~At(w, "idle") => OnTrack(worker[w])

\* The step of the one request at work.
LEMMA OneWorks ==
  ASSUME Types, Books, NEW w \in Workers, ~At(w, "idle"), serial' = serial,
         faults' = 0 => faults = 0,
         \A v \in Workers : v # w => worker'[v] = worker[v],
         Sound /\ OnTrack(worker[w]) =>
           Sound' /\ IF worker'[w].pc = "idle" THEN Balanced' ELSE OnTrack(worker[w])'
  PROVE  Books'
<1> SUFFICES ASSUME serial, faults = 0
             PROVE  /\ Sound' /\ Alone' /\ (Quiet' => Balanced')
                    /\ \A v \in Workers : ~At(v, "idle")' => OnTrack(worker[v])'
  BY DEF Books
<1>1. Sound' /\ IF worker'[w].pc = "idle" THEN Balanced' ELSE OnTrack(worker[w])'
  BY DEF Books
<1>2. \A v \in Workers : v # w => At(v, "idle")'
  BY DEF Books, Alone, At
<1>3. Alone'
  BY <1>2 DEF Alone
<1>4. Quiet' => Balanced'
  BY <1>1 DEF Quiet, At
<1>5. ASSUME NEW v \in Workers, ~At(v, "idle")' PROVE OnTrack(worker[v])'
  <2>1. v = w
    BY <1>2, <1>5
  <2>2. OnTrack(worker[w])'
    BY <1>1, <1>5, <2>1 DEF At
  <2> QED BY <2>1, <2>2
<1> QED BY <1>1, <1>3, <1>4, <1>5

\* A request arrives.
LEMMA OneStarts ==
  ASSUME Types, Books, NEW w \in Workers, NEW t, Starts(w, t), t.pc # "idle",
         Sound /\ Balanced => Sound' /\ OnTrack(worker[w])'
  PROVE  Books'
<1>1. /\ serial' = (serial /\ Quiet) /\ faults' = faults
      /\ \A v \in Workers : v # w => worker'[v] = worker[v]
  BY DEF Starts, Quiet, Types
<1> SUFFICES ASSUME serial', faults = 0
             PROVE  /\ Sound' /\ Alone' /\ (Quiet' => Balanced')
                    /\ \A v \in Workers : ~At(v, "idle")' => OnTrack(worker[v])'
  BY <1>1 DEF Books
<1>2. Sound' /\ OnTrack(worker[w])'
  BY <1>1 DEF Books
<1>3. \A v \in Workers : v # w => At(v, "idle")'
  BY <1>1 DEF Quiet, At
<1>4. worker'[w].pc # "idle"
  BY DEF Starts, Types
<1>5. ~Quiet'
  BY <1>4 DEF Quiet, At
<1>6. Alone'
  BY <1>3 DEF Alone
<1> QED BY <1>2, <1>3, <1>5, <1>6

\* A step that leaves the files, the rows and the count alone.
LEMMA SameBooks ==
  ASSUME UNCHANGED <<art, count, attached, ready, row, ids>>
  PROVE  /\ Stored' = Stored /\ Live' = Live /\ Served' = Served /\ (Sound => Sound')
<1>1. Stored' = Stored /\ Live' = Live /\ Served' = Served
  BY DEF Stored, Live, Served, Here
<1> QED BY <1>1 DEF Sound

\* A handler that goes on, or stops.
LEMMA SameTask ==
  ASSUME Types, NEW w \in Workers, worker[w] \in Resourceful, NEW pc, Goes(w, pc)
  PROVE  /\ worker'[w].pc = pc /\ worker'[w].op = worker[w].op /\ worker'[w].row = worker[w].row
         /\ worker'[w].old = worker[w].old /\ worker'[w].new = worker[w].new
         /\ worker'[w].copy = worker[w].copy
         /\ \A v \in Workers : v # w => worker'[v] = worker[v]
<1>1. worker[w] \in ResourceTask
  BY DEF Resourceful
<1> QED BY <1>1 DEF Goes, Types, ResourceTask

LEMMA Stops ==
  ASSUME Types, NEW w \in Workers, Over(w)
  PROVE  worker'[w].pc = "idle" /\ \A v \in Workers : v # w => worker'[v] = worker[v]
  BY DEF Over, Types, Idle

\* What has a row is a file.
LEMMA FilesOf ==
  ASSUME Types
  PROVE  /\ Link \notin Artifacts /\ None \notin Files
         /\ \A r \in Live : r \in Rows /\ row[r] \in Files
         /\ Cardinality(Live) \in Nat
<1>1. Link \notin Artifacts /\ None \notin Files
  BY FilesAssumption, DaysAssumption DEF Files
<1>2. \A r \in Live : r \in Rows /\ row[r] \in Files
  BY DEF Live, Here, Types
<1>3. Live \in SUBSET Rows
  BY DEF Live
<1> QED BY <1>1, <1>2, <1>3, RowSets

\* The requests: what they are told is so.
LEMMA RequestBooks ==
  ASSUME Types, Books, NEW w \in Workers, CreateRequest(w) \/ UpdateRequest(w) \/ DeleteRequest(w)
  PROVE  Books'
<1>1. UNCHANGED <<art, count, attached, ready, row, ids, agg>>
  BY DEF CreateRequest, UpdateRequest, DeleteRequest, store, resourceVars, tables, history
<1>2. /\ Stored' = Stored /\ Live' = Live /\ Served' = Served /\ (Sound => Sound')
  BY <1>1, SameBooks
<1>3. CASE CreateRequest(w)
  <2>1. PICK f \in Unpublished \cup {Link} : Starts(w, Task("inserting", "create", None, None, f))
    BY <1>3 DEF CreateRequest
  <2>2. /\ worker'[w].pc = "inserting" /\ worker'[w].new = f
        /\ Task("inserting", "create", None, None, f).pc # "idle"
    BY <2>1 DEF Starts, Task, Types
  <2>3. Balanced => OnTrack(worker[w])'
    BY <1>1, <1>2, <2>1, <2>2 DEF Balanced, OnTrack, FilesOwed, CountOwed, Current, Unpublished
  <2> QED BY <1>2, <2>1, <2>2, <2>3, OneStarts
<1>4. CASE UpdateRequest(w)
  <2>1. PICK r \in Live, changed \in BOOLEAN : \E f \in Unpublished \cup {Link, row[r]} :
          Starts(w, [Task("saving", "update", r, row[r], f) EXCEPT !.changed = changed])
    BY <1>4 DEF UpdateRequest
  <2>2. PICK f \in Unpublished \cup {Link, row[r]} :
          Starts(w, [Task("saving", "update", r, row[r], f) EXCEPT !.changed = changed])
    BY <2>1
  <2>3. PICK t : t = [Task("saving", "update", r, row[r], f) EXCEPT !.changed = changed]
    OBVIOUS
  <2>4. t.pc = "saving" /\ t.new = f /\ t.row = r /\ t.old = row[r]
    BY <2>3 DEF Task
  <2>5. worker'[w] = t
    BY <2>2, <2>3 DEF Starts, Types
  <2>6. Balanced => OnTrack(worker[w])'
    BY <1>1, <1>2, <2>4, <2>5 DEF Balanced, OnTrack, FilesOwed, CountOwed, Current, Unpublished
  <2> QED BY <1>2, <2>2, <2>3, <2>4, <2>6, OneStarts
<1>5. CASE DeleteRequest(w)
  <2>1. PICK r \in Live : Starts(w, Task("removing", "delete", r, row[r], row[r]))
    BY <1>5 DEF DeleteRequest
  <2>2. /\ worker'[w].pc = "removing" /\ worker'[w].row = r /\ worker'[w].old = row[r]
        /\ Task("removing", "delete", r, row[r], row[r]).pc # "idle"
    BY <2>1 DEF Starts, Task, Types
  <2>3. Balanced => OnTrack(worker[w])'
    BY <1>1, <1>2, <2>1, <2>2 DEF Balanced, OnTrack, FilesOwed, CountOwed, Current
  <2> QED BY <1>2, <2>1, <2>2, <2>3, OneStarts
<1> QED BY <1>3, <1>4, <1>5

\* A row is inserted, which has yet to be counted.
LEMMA InsertBooks ==
  ASSUME Types, Books, NEW w \in Workers, Insert(w)
  PROVE  Books'
<1> DEFINE x == ids + 1  f == worker[w].new
<1>1. /\ x \in Rows /\ ids' = x /\ ids \in Nat /\ ~At(w, "idle") /\ At(w, "inserting")
      /\ worker[w] \in Resourceful /\ worker[w].op = "create" /\ f \in Files
      /\ UNCHANGED <<count, agg, art, ready, serial, faults>>
  BY PlaceOf DEF Insert, At, Resourceful, ResourceTask, WellFormed, Types, store, bounds
<1>2. CASE Taken(f, None)
  <2>1. Over(w) /\ UNCHANGED <<row, attached>>
    BY <1>2 DEF Insert, history
  <2>2. worker'[w].pc = "idle" /\ \A v \in Workers : v # w => worker'[v] = worker[v]
    BY <2>1, Stops
  <2>3. Stored' = Stored /\ Live' = Live /\ Served' = Served
    BY <1>1, <2>1 DEF Stored, Live, Served, Here
  <2>4. \A r \in Live : r \in Nat
    BY DEF Live, Rows
  <2>5. Sound => Sound'
    BY <1>1, <2>1, <2>3, <2>4 DEF Sound
  <2>6. OnTrack(worker[w]) => Balanced'
    BY <1>1, <2>3 DEF OnTrack, FilesOwed, CountOwed, Current, Balanced, At
  <2> QED BY <1>1, <2>2, <2>5, <2>6, OneWorks
<1>3. CASE ~Taken(f, None)
  <2>1. /\ row' = [row EXCEPT ![x] = f] /\ attached' = attached \cup ({f} \cap Artifacts)
        /\ worker' = [worker EXCEPT ![w].pc = "counting", ![w].row = x]
    BY <1>3 DEF Insert
  <2>2. /\ worker'[w].pc = "counting" /\ worker'[w].op = "create"
        /\ \A v \in Workers : v # w => worker'[v] = worker[v]
    BY <1>1, <2>1 DEF Types, Resourceful, ResourceTask
  <2>3. row'[x] = f /\ f # None /\ \A r \in Rows : r # x => row'[r] = row[r]
    BY <1>1, <2>1, FilesOf DEF Types
  <2>4. Live' = Live \cup {x}
    BY <1>1, <2>3 DEF Live, Here
  <2>5. ASSUME Sound, OnTrack(worker[w]) PROVE Sound' /\ OnTrack(worker[w])'
    <3>1. x \notin Live /\ \A r \in Live : r \in Nat /\ row'[r] = row[r] /\ r <= x
      BY <1>1, <2>3, <2>5 DEF Sound, Live, Rows
    <3>2. /\ f \in (ready \ attached) \cup {Link} /\ agg = Live
          /\ Stored = Served \cap Artifacts /\ count = Cardinality(Live)
      BY <1>1, <2>5 DEF OnTrack, FilesOwed, CountOwed, Current, At
    <3>3. f \in Artifacts => f \in ready \ attached /\ art[f] = "stored"
      BY <2>5, <3>2, FilesOf DEF Sound
    <3>4. \A r \in Live : row[r] # f \/ f = Link
      BY <2>5, <3>2, <3>3, FilesOf DEF Sound, Types
    <3>5. Served' = Served \cup {f}
      BY <2>3, <2>4, <3>1 DEF Served
    <3>6. Stored' = Stored \cup ({f} \cap Artifacts)
      BY <1>1, <2>1, <3>3 DEF Stored
    <3>7. Stored' = Served' \cap Artifacts
      BY <3>2, <3>5, <3>6
    <3>8. Cardinality(Live') = Cardinality(Live) + 1
      <4>1. IsFiniteSet(Live)
        <5>1. Live \in SUBSET Rows
          BY DEF Live
        <5> QED BY <5>1, RowSets
      <4> QED BY <2>4, <3>1, <4>1, FS_AddElement
    <3>9. attached' \subseteq ready' /\ ready' \ attached' \subseteq ready \ attached
      BY <1>1, <2>1, <2>5, <3>3 DEF Sound
    <3>10. \A r \in Live' : r <= ids' /\ (row'[r] \in Artifacts => row'[r] \in attached')
      BY <1>1, <2>1, <2>3, <2>4, <2>5, <3>1 DEF Sound
    <3>11. \A q, r \in Live' : row'[q] = row'[r] /\ row'[r] \in Artifacts => q = r
      BY <2>3, <2>4, <2>5, <3>1, <3>4, FilesOf DEF Sound
    <3>12. \A a \in attached' : art'[a] \in {"stored", "deleted"}
      BY <1>1, <2>1, <2>5, <3>3 DEF Sound
    <3>13. \A a \in ready' \ attached' : art'[a] = "stored"
      BY <1>1, <2>5, <3>9 DEF Sound
    <3>14. Sound'
      BY <1>1, <2>5, <3>9, <3>10, <3>11, <3>12, <3>13 DEF Sound
    <3>15. OnTrack(worker[w])'
      BY <1>1, <2>2, <3>2, <3>7, <3>8 DEF OnTrack, FilesOwed, CountOwed, Current
    <3> QED BY <3>14, <3>15
  <2> QED BY <1>1, <2>2, <2>5, OneWorks
<1> QED BY <1>2, <1>3

\* Counting, reading and writing settle what is owed.
LEMMA CountBooks ==
  ASSUME Types, Books, NEW w \in Workers,
         UpdateCount(w) \/ ReadResources(w) \/ WriteAggregates(w)
  PROVE  Books'
<1>1. /\ worker[w] \in Resourceful /\ ~At(w, "idle")
      /\ UNCHANGED <<row, ids, art, attached, ready, serial, faults>>
  BY PlaceOf DEF UpdateCount, ReadResources, WriteAggregates, At, history, resourceVars, tables,
     store, bounds
<1>2. Stored' = Stored /\ Live' = Live /\ Served' = Served
  BY <1>1 DEF Stored, Live, Served, Here
<1>3. Cardinality(Live) \in Nat
  BY FilesOf
<1>4. CASE UpdateCount(w)
  <2>1. /\ At(w, "counting") /\ worker[w].op \in {"create", "delete"}
        /\ count' = UpdatedCount(IF worker[w].op = "create" THEN 1 ELSE -1)
        /\ agg' = agg /\ Goes(w, "reading")
    BY <1>1, <1>4 DEF UpdateCount, At, Resourceful, ResourceTask, WellFormed
  <2>2. /\ worker'[w].pc = "reading" /\ \A v \in Workers : v # w => worker'[v] = worker[v]
    BY <1>1, <2>1, SameTask
  <2>3. ASSUME Sound, OnTrack(worker[w]) PROVE count' \in Nat /\ count' = Cardinality(Live)
    <3>1. /\ worker[w].op = "create" => count + 1 = Cardinality(Live)
          /\ worker[w].op = "delete" => count = Cardinality(Live) + 1
          /\ count \in Nat
      BY <2>1, <2>3 DEF Sound, OnTrack, CountOwed, At
    <3> QED BY <1>3, <2>1, <3>1 DEF UpdatedCount
  <2>4. Sound /\ OnTrack(worker[w]) => Sound'
    BY <1>1, <1>2, <2>3 DEF Sound
  <2>5. Sound /\ OnTrack(worker[w]) => OnTrack(worker[w])'
    BY <1>2, <2>1, <2>2, <2>3 DEF OnTrack, FilesOwed, CountOwed, Current, At
  <2> QED BY <1>1, <2>2, <2>4, <2>5, OneWorks
<1>5. CASE ReadResources(w)
  <2>1. /\ At(w, "reading") /\ UNCHANGED <<count, agg>>
        /\ worker' = [worker EXCEPT ![w].pc = "writing", ![w].copy = Live]
    BY <1>5 DEF ReadResources, resourceVars, tables
  <2>2. /\ worker'[w].pc = "writing" /\ worker'[w].copy = Live
        /\ \A v \in Workers : v # w => worker'[v] = worker[v]
    BY <1>1, <2>1 DEF Types, Resourceful, ResourceTask
  <2>3. Sound => Sound'
    BY <1>1, <2>1, SameBooks
  <2>4. OnTrack(worker[w]) => OnTrack(worker[w])'
    BY <1>2, <2>1, <2>2 DEF OnTrack, FilesOwed, CountOwed, Current, At
  <2> QED BY <1>1, <2>2, <2>3, <2>4, OneWorks
<1>6. CASE WriteAggregates(w)
  <2>1. At(w, "writing") /\ agg' = worker[w].copy /\ count' = count /\ Over(w)
    BY <1>6 DEF WriteAggregates
  <2>2. worker'[w].pc = "idle" /\ \A v \in Workers : v # w => worker'[v] = worker[v]
    BY <2>1, Stops
  <2>3. Sound => Sound'
    BY <1>1, <2>1, SameBooks
  <2>4. OnTrack(worker[w]) => Balanced'
    BY <1>2, <2>1 DEF OnTrack, FilesOwed, CountOwed, Current, Balanced, At
  <2> QED BY <1>1, <2>2, <2>3, <2>4, OneWorks
<1> QED BY <1>4, <1>5, <1>6

\* An edit has the row it read: the new file is served, the old one is to be dropped.
LEMMA SaveBooks ==
  ASSUME Types, Books, NEW w \in Workers, SaveResource(w)
  PROVE  Books'
<1> DEFINE x == worker[w].row  f == worker[w].new  old == worker[w].old
<1>1. /\ At(w, "saving") /\ ~At(w, "idle") /\ worker[w] \in Resourceful /\ x \in Rows
      /\ f \in Files /\ worker[w].op = "update"
      /\ UNCHANGED <<ids, count, agg, art, ready, serial, faults>>
  BY PlaceOf DEF SaveResource, At, Resourceful, ResourceTask, WellFormed, store, bounds
<1>2. CASE Over(w) /\ UNCHANGED <<row, attached>>
  <2>1. worker'[w].pc = "idle" /\ \A v \in Workers : v # w => worker'[v] = worker[v]
    BY <1>2, Stops
  <2>2. Stored' = Stored /\ Live' = Live /\ Served' = Served /\ (Sound => Sound')
    BY <1>1, <1>2, SameBooks
  <2>3. OnTrack(worker[w]) => Balanced'
    BY <1>1, <2>2 DEF OnTrack, FilesOwed, CountOwed, Current, Balanced, At
  <2> QED BY <1>1, <2>1, <2>2, <2>3, OneWorks
<1>3. CASE /\ row' = [row EXCEPT ![x] = f] /\ attached' = attached \cup ({f} \cap Artifacts)
           /\ Goes(w, IF Orphaned(old, f) THEN "dropping" ELSE "reading")
  <2>1. PICK pc \in {"dropping", "reading"} :
          Goes(w, pc) /\ (pc = "dropping" <=> Orphaned(old, f))
    BY <1>3
  <2>2. /\ worker'[w].pc = pc /\ worker'[w].op = "update" /\ worker'[w].old = old
        /\ \A v \in Workers : v # w => worker'[v] = worker[v]
    BY <1>1, <2>1, SameTask
  <2>3. row'[x] = f /\ f # None /\ \A r \in Rows : r # x => row'[r] = row[r]
    BY <1>1, <1>3, FilesOf DEF Types
  <2>4. ASSUME Sound, OnTrack(worker[w]) PROVE Sound' /\ OnTrack(worker[w])'
    <3>1. /\ x \in Live /\ row[x] = old /\ old \in Files /\ agg = Live
          /\ f \in (ready \ attached) \cup {Link} \/ f = old
          /\ Stored = Served \cap Artifacts /\ count = Cardinality(Live)
      BY <1>1, <2>4, FilesOf DEF OnTrack, FilesOwed, CountOwed, Current, At
    <3>2. Live' = Live
      BY <2>3, <3>1 DEF Live, Here
    <3>3. f \in Artifacts /\ f # old => f \in ready \ attached /\ art[f] = "stored"
      BY <2>4, <3>1, FilesOf DEF Sound
    <3>4. old \in Artifacts => old \in attached /\ old \in Stored
      BY <2>4, <3>1 DEF Sound, Served
    <3>5. \A r \in Live : r # x => (row[r] # f \/ f = Link) /\ (row[r] # old \/ old = Link)
      <4>1. \A r \in Live : r # x => row[r] # old \/ old = Link
        BY <1>1, <2>4, <3>1 DEF Sound, Files
      <4>2. \A r \in Live : row[r] \in Artifacts => row[r] \in attached
        BY <2>4 DEF Sound
      <4> QED BY <1>1, <3>1, <3>3, <4>1, <4>2 DEF Files
    <3>6. \A a \in Artifacts : a \in Served' <=> a = f \/ (a \in Served /\ a # old)
      BY <2>3, <3>1, <3>2, <3>5, FilesOf DEF Served
    <3>7. \A a : a \in Stored' <=> a \in Stored \/ (a = f /\ f \in Artifacts)
      BY <1>1, <1>3, <3>3, <3>4 DEF Stored
    <3>8. attached' \subseteq ready' /\ ready' \ attached' \subseteq ready \ attached
      BY <1>1, <1>3, <2>4, <3>3, <3>4 DEF Sound
    <3>9. \A r \in Live' : r <= ids' /\ (row'[r] \in Artifacts => row'[r] \in attached')
      BY <1>1, <1>3, <2>3, <2>4, <3>2, FilesOf DEF Sound
    <3>10. \A q, r \in Live' : row'[q] = row'[r] /\ row'[r] \in Artifacts => q = r
      <4> SUFFICES ASSUME NEW q \in Live, NEW r \in Live, row'[q] = row'[r],
                          row'[r] \in Artifacts
                   PROVE  q = r
        BY <3>2
      <4>1. CASE q = x \/ r = x
        BY <2>3, <3>5, <4>1, FilesOf
      <4>2. CASE q # x /\ r # x
        BY <2>3, <2>4, <4>2, FilesOf DEF Sound
      <4> QED BY <4>1, <4>2
    <3>11. \A a \in attached' : art'[a] \in {"stored", "deleted"}
      BY <1>1, <1>3, <2>4, <3>3, <3>4 DEF Sound
    <3>12. Sound'
      BY <1>1, <2>4, <3>8, <3>9, <3>10, <3>11 DEF Sound
    <3>13. FilesOwed(worker[w])'
      <4>1. Stored' \subseteq Artifacts
        BY <1>1, <1>3, <3>12 DEF Stored, Sound, Types
      <4>2. CASE pc = "dropping"
        <5>1. old \in Artifacts /\ f # old
          BY <2>1, <4>2 DEF Orphaned
        <5>2. old \in Stored' /\ old \notin Served'
          BY <3>4, <3>6, <3>7, <5>1
        <5>3. Stored' \ {old} = Served' \cap Artifacts
          BY <3>1, <3>6, <3>7, <4>1, <5>1
        <5> QED BY <2>2, <4>2, <5>2, <5>3 DEF FilesOwed
      <4>3. CASE pc = "reading"
        <5>1. old \notin Artifacts \/ f = old
          BY <2>1, <4>3 DEF Orphaned
        <5>2. Stored' = Served' \cap Artifacts
          BY <3>1, <3>4, <3>6, <3>7, <4>1, <5>1
        <5> QED BY <2>2, <4>3, <5>2 DEF FilesOwed
      <4> QED BY <4>2, <4>3
    <3>14. CountOwed(worker[w])' /\ Current(worker[w])'
      BY <1>1, <2>2, <3>1, <3>2 DEF CountOwed, Current
    <3> QED BY <3>12, <3>13, <3>14 DEF OnTrack
  <2> QED BY <1>1, <2>2, <2>4, OneWorks
<1> QED BY <1>2, <1>3 DEF SaveResource

\* A row is removed; its file is to be dropped, and the count to be lowered.
LEMMA RemoveBooks ==
  ASSUME Types, Books, NEW w \in Workers, RemoveResource(w)
  PROVE  Books'
<1> DEFINE x == worker[w].row  old == worker[w].old
<1>1. /\ At(w, "removing") /\ ~At(w, "idle") /\ worker[w] \in Resourceful /\ x \in Rows
      /\ worker[w].op = "delete" /\ row' = [row EXCEPT ![x] = None]
      /\ UNCHANGED <<ids, count, agg, attached, art, ready, serial, faults>>
  BY PlaceOf DEF RemoveResource, At, Resourceful, ResourceTask, WellFormed, store, bounds
<1>2. PICK pc \in {"dropping", "counting"} :
        Goes(w, pc) /\ (pc = "dropping" <=> old \in Artifacts)
  BY DEF RemoveResource
<1>3. /\ worker'[w].pc = pc /\ worker'[w].op = "delete" /\ worker'[w].old = old
      /\ \A v \in Workers : v # w => worker'[v] = worker[v]
  BY <1>1, <1>2, SameTask
<1>4. row'[x] = None /\ \A r \in Rows : r # x => row'[r] = row[r]
  BY <1>1 DEF Types
<1>5. Live' = Live \ {x} /\ \A r \in Live' : row'[r] = row[r]
  BY <1>4 DEF Live, Here
<1>6. ASSUME Sound, OnTrack(worker[w]) PROVE Sound' /\ OnTrack(worker[w])'
  <2>1. /\ x \in Live /\ row[x] = old /\ old \in Files
        /\ Stored = Served \cap Artifacts /\ count = Cardinality(Live)
    BY <1>1, <1>6, FilesOf DEF OnTrack, FilesOwed, CountOwed, Current, At
  <2>2. Sound'
    BY <1>1, <1>5, <1>6 DEF Sound
  <2>3. Stored' = Stored
    BY <1>1 DEF Stored
  <2>4. \A a \in Artifacts : a \in Served' <=> a \in Served /\ a # old
    BY <1>5, <1>6, <2>1 DEF Served, Sound
  <2>5. old \in Artifacts => old \in Stored
    BY <2>1 DEF Served
  <2>6. Stored \subseteq Artifacts
    BY <2>1
  <2>7. FilesOwed(worker[w])'
    <3>1. CASE pc = "dropping"
      <4>1. old \in Stored' /\ old \notin Served' /\ Stored' \ {old} = Served' \cap Artifacts
        BY <1>2, <2>1, <2>3, <2>4, <2>5, <2>6, <3>1
      <4> QED BY <1>3, <3>1, <4>1 DEF FilesOwed
    <3>2. CASE pc = "counting"
      <4>1. Stored' = Served' \cap Artifacts
        BY <1>2, <2>1, <2>3, <2>4, <2>6, <3>2
      <4> QED BY <1>3, <3>2, <4>1 DEF FilesOwed
    <3> QED BY <3>1, <3>2
  <2>8. Cardinality(Live) = Cardinality(Live') + 1
    <3>1. IsFiniteSet(Live) /\ Cardinality(Live) \in Nat
      <4>1. Live \in SUBSET Rows
        BY DEF Live
      <4> QED BY <4>1, RowSets
    <3>2. Cardinality(Live') = Cardinality(Live) - 1
      BY <1>5, <2>1, <3>1, FS_RemoveElement
    <3> QED BY <3>1, <3>2
  <2>9. CountOwed(worker[w])' /\ Current(worker[w])'
    BY <1>1, <1>3, <2>1, <2>8 DEF CountOwed, Current
  <2> QED BY <2>2, <2>7, <2>9 DEF OnTrack
<1> QED BY <1>1, <1>3, <1>6, OneWorks

\* The file without a resource is dropped.
LEMMA DropBooks ==
  ASSUME Types, Books, NEW w \in Workers, DropArtifact(w)
  PROVE  Books'
<1> DEFINE a == worker[w].old
<1>1. /\ At(w, "dropping") /\ ~At(w, "idle") /\ worker[w] \in Resourceful /\ a \in Artifacts
      /\ worker[w].op # "create"
      /\ UNCHANGED <<row, ids, count, agg, attached, ready, serial>>
  BY PlaceOf DEF DropArtifact, At, Resourceful, WellFormed, resourceVars, tables, history
<1>2. PICK pc \in {"counting", "reading"} : Goes(w, pc) /\ (pc = "counting" <=> worker[w].op = "delete")
  BY DEF DropArtifact
<1>3. /\ worker'[w].pc = pc /\ worker'[w].op = worker[w].op
      /\ \A v \in Workers : v # w => worker'[v] = worker[v]
  BY <1>1, <1>2, SameTask
<1>4. Live' = Live /\ Served' = Served
  BY <1>1 DEF Live, Served, Here
<1>5. CASE Faulty
  <2>1. faults' # 0
    BY <1>5 DEF Faulty, Types
  <2> QED BY <2>1 DEF Books
<1>6. CASE art' = [art EXCEPT ![a] = "deleted"] /\ UNCHANGED faults
  <2>1. ASSUME Sound, OnTrack(worker[w]) PROVE Sound' /\ OnTrack(worker[w])'
    <3>1. a \in Stored /\ a \notin Served /\ Stored \ {a} = Served \cap Artifacts
      BY <1>1, <2>1 DEF OnTrack, FilesOwed, At
    <3>2. a \in attached /\ art'[a] = "deleted" /\ \A b \in Artifacts : b # a => art'[b] = art[b]
      BY <1>1, <1>6, <2>1, <3>1 DEF Stored, Sound
    <3>3. attached \subseteq Artifacts
      BY <2>1 DEF Sound, Types
    <3>4. Stored' = Stored \ {a}
      BY <1>1, <3>2, <3>3 DEF Stored
    <3>5. Sound'
      BY <1>1, <1>4, <1>6, <2>1, <3>2 DEF Sound, Types
    <3>6. OnTrack(worker[w])'
      BY <1>1, <1>2, <1>3, <1>4, <2>1, <3>1, <3>4 DEF OnTrack, FilesOwed, CountOwed, Current, At
    <3> QED BY <3>5, <3>6
  <2> QED BY <1>1, <1>2, <1>3, <1>6, <2>1, OneWorks
<1> QED BY <1>5, <1>6 DEF DropArtifact

\* A step of the uploads keeps what was published, and what is published is stored.
LEMMA FilesKept ==
  ASSUME Types, Sound, UNCHANGED <<row, ids, count, agg, attached>>,
         art' \in [Artifacts -> {"none", "open", "stored", "deleted"}],
         \A a \in attached : a \in ready' /\ art'[a] = art[a],
         \A a \in ready' \ attached : art'[a] = "stored"
  PROVE  /\ Sound' /\ Stored' = Stored /\ Live' = Live /\ Served' = Served
         /\ Balanced => Balanced'
<1>1. Live' = Live /\ Served' = Served
  BY DEF Live, Served, Here
<1>2. Stored' = Stored
  BY DEF Stored
<1>3. Sound'
  BY <1>1 DEF Sound
<1> QED BY <1>1, <1>2, <1>3 DEF Balanced

\* A completion: the file is in the store and not yet handed to the form.
LEMMA CompleteBooks ==
  ASSUME Types, Books, NEW w \in Workers, NEW a \in Artifacts, CompleteUpload(w, a),
         UNCHANGED resourceVars
  PROVE  Books'
<1>1. /\ UNCHANGED <<row, ids, count, agg, attached, ready>>
      /\ a \notin ready /\ art' = [art EXCEPT ![a] = "stored"]
      /\ Starts(w, [pc |-> "marking", art |-> a])
  BY DEF CompleteUpload, resourceVars, tables, history
<1>2. worker'[w] = [pc |-> "marking", art |-> a]
  BY <1>1 DEF Starts, Types
<1>3. ASSUME Sound, Balanced PROVE Sound' /\ OnTrack(worker[w])'
  <2>1. art' \in [Artifacts -> {"none", "open", "stored", "deleted"}] /\ art'[a] = "stored"
    BY <1>1, <1>3 DEF Sound
  <2>2. \A b \in attached : b \in ready' /\ art'[b] = art[b]
    BY <1>1, <1>3 DEF Sound, Types
  <2>3. \A b \in ready' \ attached : art'[b] = "stored"
    BY <1>1, <1>3 DEF Sound, Types
  <2>4. Sound' /\ Balanced'
    BY <1>1, <1>3, <2>1, <2>2, <2>3, FilesKept
  <2>5. worker'[w].pc = "marking" /\ worker'[w].art = a
    BY <1>2
  <2> QED BY <1>1, <2>1, <2>4, <2>5 DEF OnTrack, FilesOwed, CountOwed, Current, Balanced
<1> QED BY <1>1, <1>3, OneStarts

\* An image.
LEMMA ImageBooks ==
  ASSUME Types, Books, NEW w \in Workers, CheckDailyImageQuota(w) \/ UploadImageService(w),
         UNCHANGED resourceVars
  PROVE  Books'
<1>1. UNCHANGED <<row, ids, count, agg, attached, ready, art>>
  BY DEF CheckDailyImageQuota, UploadImageService, store, resourceVars, tables, history
<1>2. /\ Stored' = Stored /\ Live' = Live /\ Served' = Served /\ (Sound => Sound')
  BY <1>1, SameBooks
<1>3. CASE CheckDailyImageQuota(w)
  <2>1. Starts(w, [pc |-> "imaging", art |-> None])
    BY <1>3 DEF CheckDailyImageQuota
  <2>2. worker'[w].pc = "imaging"
    BY <2>1 DEF Starts, Types
  <2>3. Balanced => OnTrack(worker[w])'
    BY <1>1, <1>2, <2>2 DEF Balanced, OnTrack, FilesOwed, CountOwed, Current
  <2> QED BY <1>2, <2>1, <2>3, OneStarts
<1>4. CASE UploadImageService(w)
  <2>1. At(w, "imaging") /\ ~At(w, "idle") /\ Over(w) /\ UNCHANGED <<serial, faults>>
    BY <1>4 DEF UploadImageService, At, bounds
  <2>2. worker'[w].pc = "idle" /\ \A v \in Workers : v # w => worker'[v] = worker[v]
    BY <2>1, Stops
  <2>3. OnTrack(worker[w]) => Balanced'
    BY <1>1, <1>2, <2>1 DEF OnTrack, FilesOwed, CountOwed, Current, Balanced, At
  <2> QED BY <1>2, <2>1, <2>2, <2>3, OneWorks
<1> QED BY <1>3, <1>4

\* A completion goes on: it checks, or takes the key back.
LEMMA HolderBooks ==
  ASSUME Types, Books, NEW w \in Workers,
         MarkCompleteOnce(w) \/ CheckLimit(w) \/ DiscardOverLimit(w) \/ DeductQuota(w)
           \/ UnmarkComplete(w),
         UNCHANGED resourceVars, faults' = faults
  PROVE  Books'
<1> DEFINE a == worker[w].art
<1>1. /\ UNCHANGED <<row, ids, count, agg, attached, serial>>
      /\ worker[w] \in UploadTask /\ a \in Artifacts /\ ~At(w, "idle")
      /\ \/ At(w, "marking") \/ At(w, "checking") \/ At(w, "discarding") \/ At(w, "deducting")
         \/ At(w, "unmarking")
  BY PlaceOf DEF MarkCompleteOnce, CheckLimit, DiscardOverLimit, DeductQuota, UnmarkComplete,
     At, bounds, resourceVars, tables, history
<1>2. ASSUME OnTrack(worker[w])
      PROVE  Balanced /\ (~At(w, "unmarking") => art[a] = "stored" /\ a \notin ready)
  BY <1>1, <1>2 DEF OnTrack, FilesOwed, CountOwed, Current, Balanced, At
<1>3. ASSUME Over(w), UNCHANGED art,
             ready' = ready \/ (ready' = ready \cup {a} /\ ~At(w, "unmarking"))
      PROVE  Books'
  <2>1. worker'[w].pc = "idle" /\ \A v \in Workers : v # w => worker'[v] = worker[v]
    BY <1>3, Stops
  <2>2. ASSUME Sound, OnTrack(worker[w]) PROVE Sound' /\ Balanced'
    <3>1. art' \in [Artifacts -> {"none", "open", "stored", "deleted"}]
      BY <1>3, <2>2 DEF Sound
    <3>2. \A b \in attached : b \in ready' /\ art'[b] = art[b]
      BY <1>3, <2>2 DEF Sound
    <3>3. \A b \in ready' \ attached : art'[b] = "stored"
      BY <1>2, <1>3, <2>2 DEF Sound
    <3> QED BY <1>1, <1>2, <2>2, <3>1, <3>2, <3>3, FilesKept
  <2> QED BY <1>1, <2>1, <2>2, OneWorks
<1>4. ASSUME NEW pc \in {"checking", "discarding", "deducting", "unmarking"}, Goes(w, pc),
             UNCHANGED ready, ~At(w, "unmarking"),
             \/ UNCHANGED art
             \/ art' = [art EXCEPT ![a] = "deleted"] /\ pc = "unmarking"
      PROVE  Books'
  <2>1. /\ worker'[w].pc = pc /\ worker'[w].art = a
        /\ \A v \in Workers : v # w => worker'[v] = worker[v]
    BY <1>1, <1>4, UploadGoes, OneMoves
  <2>2. ASSUME Sound, OnTrack(worker[w]) PROVE Sound' /\ OnTrack(worker[w])'
    <3>1. art' \in [Artifacts -> {"none", "open", "stored", "deleted"}]
      BY <1>4, <2>2 DEF Sound
    <3>2. \A b \in attached : b \in ready' /\ art'[b] = art[b]
      BY <1>2, <1>4, <2>2 DEF Sound, Types
    <3>3. \A b \in ready' \ attached : art'[b] = "stored"
      BY <1>2, <1>4, <2>2 DEF Sound, Types
    <3>4. Sound' /\ Balanced'
      BY <1>1, <1>2, <2>2, <3>1, <3>2, <3>3, FilesKept
    <3>5. pc # "unmarking" => art'[a] = "stored" /\ a \notin ready'
      BY <1>2, <1>4, <2>2
    <3> QED BY <2>1, <3>4, <3>5 DEF OnTrack, FilesOwed, CountOwed, Current, Balanced
  <2> QED BY <1>1, <1>4, <2>1, <2>2, OneWorks
<1>5. CASE MarkCompleteOnce(w) \/ UnmarkComplete(w)
  <2>1. CASE Over(w)
    <3>1. /\ UNCHANGED art
          /\ ready' = ready \/ (ready' = ready \cup {a} /\ ~At(w, "unmarking"))
      BY <1>5, <2>1 DEF MarkCompleteOnce, UnmarkComplete, store, At
    <3> QED BY <1>3, <2>1, <3>1
  <2>2. CASE Goes(w, "checking") /\ MarkCompleteOnce(w) /\ UNCHANGED ready
    <3>1. UNCHANGED art /\ ~At(w, "unmarking")
      BY <2>2 DEF MarkCompleteOnce, At
    <3> QED BY <1>4, <2>2, <3>1
  <2> QED BY <1>5, <2>1, <2>2 DEF MarkCompleteOnce, UnmarkComplete
<1>6. CASE CheckLimit(w)
  <2>1. PICK pc \in {"discarding", "deducting"} : Goes(w, pc)
    BY <1>6 DEF CheckLimit
  <2>2. UNCHANGED <<art, ready>> /\ ~At(w, "unmarking")
    BY <1>6 DEF CheckLimit, store, At
  <2> QED BY <1>4, <2>1, <2>2
<1>7. CASE DiscardOverLimit(w)
  <2>1. /\ Goes(w, "unmarking") /\ UNCHANGED ready /\ art' = [art EXCEPT ![a] = "deleted"]
        /\ ~At(w, "unmarking")
    BY <1>7 DEF DiscardOverLimit, At
  <2> QED BY <1>4, <2>1
<1>8. CASE DeductQuota(w)
  <2>1. /\ Over(w) /\ UNCHANGED art /\ ~At(w, "unmarking")
        /\ ready' = ready \/ ready' = ready \cup {a}
    BY <1>8 DEF DeductQuota, At
  <2> QED BY <1>3, <2>1
<1> QED BY <1>5, <1>6, <1>7, <1>8

\* A failure ends what is claimed of the books.
LEMMA UploadBooks ==
  ASSUME Types, Books, NEW w \in Workers, UploadStep(w) \/ Crash(w), UNCHANGED resourceVars
  PROVE  Books'
<1>1. CASE faults' # 0
  BY <1>1 DEF Books
<1>2. CASE faults' = 0
  <2>1. ~Crash(w) /\ ~DeductFails(w)
    BY <1>2 DEF Crash, DeductFails, Faulty, Types
  <2>2. CASE \E a \in Artifacts : CompleteUpload(w, a)
    BY <2>2, CompleteBooks
  <2>3. CASE CheckDailyImageQuota(w) \/ UploadImageService(w)
    BY <2>3, ImageBooks
  <2>4. CASE MarkCompleteOnce(w) \/ CheckLimit(w) \/ DiscardOverLimit(w) \/ DeductQuota(w)
               \/ UnmarkComplete(w)
    <3>1. faults' = faults
      <4>1. faults \in Nat
        BY DEF Types
      <4>2. faults' = faults \/ faults' = faults + 1
        BY <2>4 DEF MarkCompleteOnce, CheckLimit, DiscardOverLimit, DeductQuota, UnmarkComplete,
           bounds, Faulty
      <4> QED BY <1>2, <4>1, <4>2
    <3> QED BY <2>4, <3>1, HolderBooks
  <2> QED BY <2>1, <2>2, <2>3, <2>4 DEF UploadStep
<1> QED BY <1>1, <1>2

\* An upload that is given up was not published.
LEMMA AbortBooks ==
  ASSUME Types, Books, NEW a \in Artifacts, AbortUpload(a)
  PROVE  Books'
<1>1. /\ UNCHANGED <<row, ids, count, agg, attached, worker, faults>>
      /\ a \notin attached /\ art' = [art EXCEPT ![a] = "deleted"] /\ ready' = ready \ {a}
      /\ serial' = (serial /\ Quiet)
  BY DEF AbortUpload, Abort, resourceVars, tables, history, Quiet
<1> SUFFICES ASSUME serial, Quiet, faults = 0
             PROVE  Sound' /\ Alone' /\ Balanced' /\ Quiet'
  BY <1>1 DEF Books, Quiet
<1>2. Sound /\ Alone /\ Balanced
  BY DEF Books
<1>3. /\ art' \in [Artifacts -> {"none", "open", "stored", "deleted"}]
      /\ \A b \in attached : b \in ready' /\ art'[b] = art[b]
      /\ \A b \in ready' \ attached : art'[b] = "stored"
  BY <1>1, <1>2 DEF Sound, Types
<1>4. Sound' /\ Balanced'
  BY <1>1, <1>2, <1>3, FilesKept
<1>5. Alone' /\ Quiet'
  BY <1>1, <1>2 DEF Alone, Quiet, At
<1> QED BY <1>4, <1>5

\* An upload that is announced is nobody's file.
LEMMA AnnounceBooks ==
  ASSUME Types, Books, NEW a \in Artifacts, InitUpload(a), UNCHANGED resourceVars
  PROVE  Books'
<1>1. /\ UNCHANGED <<row, ids, count, agg, attached, ready, worker, serial, faults>>
      /\ art[a] = "none" /\ art' = [art EXCEPT ![a] = "open"]
  BY DEF InitUpload, resourceVars, tables, history, bounds
<1> SUFFICES ASSUME serial, faults = 0
             PROVE  /\ Sound' /\ Alone' /\ (Quiet' => Balanced')
                    /\ \A w \in Workers : ~At(w, "idle")' => OnTrack(worker[w])'
  BY <1>1 DEF Books
<1>2. Sound /\ Alone /\ (Quiet => Balanced)
  BY DEF Books
<1>3. /\ art' \in [Artifacts -> {"none", "open", "stored", "deleted"}]
      /\ \A b \in attached : b \in ready' /\ art'[b] = art[b]
      /\ \A b \in ready' \ attached : art'[b] = "stored"
  BY <1>1, <1>2 DEF Sound, Types
<1>4. /\ Sound' /\ Stored' = Stored /\ Live' = Live /\ Served' = Served
      /\ Balanced => Balanced'
  BY <1>1, <1>2, <1>3, FilesKept
<1>5. Alone' /\ (Quiet' => Quiet)
  BY <1>1, <1>2 DEF Alone, Quiet, At
<1>6. ASSUME NEW w \in Workers, ~At(w, "idle")' PROVE OnTrack(worker[w])'
  <2>1. OnTrack(worker[w])
    BY <1>1, <1>6 DEF Books, At
  <2>2. worker[w].pc \in {"marking", "checking", "deducting", "discarding"} =>
          worker[w].art \in Artifacts
    BY PlaceOf DEF At
  <2>3. \A b \in Artifacts : art[b] = "stored" => art'[b] = "stored"
    BY <1>1, <1>2 DEF Sound
  <2> QED BY <1>1, <1>4, <2>1, <2>2, <2>3 DEF OnTrack, FilesOwed, CountOwed, Current
<1> QED BY <1>2, <1>4, <1>5, <1>6

LEMMA BooksStep ==
  ASSUME Types, Books, [Next]_vars
  PROVE  Books'
<1>1. CASE UNCHANGED <<row, ids, count, agg, attached, ready, art, worker, serial, faults>>
  <2>1. /\ Stored' = Stored /\ Live' = Live /\ Served' = Served /\ (Sound => Sound')
    BY <1>1, SameBooks
  <2>2. (Alone => Alone') /\ (Quiet' => Quiet) /\ (Balanced => Balanced')
    BY <1>1, <2>1 DEF Alone, Quiet, Balanced, At
  <2>3. \A w \in Workers : /\ ~At(w, "idle")' => ~At(w, "idle")
                           /\ OnTrack(worker[w]) => OnTrack(worker[w])'
    BY <1>1, <2>1 DEF At, OnTrack, FilesOwed, CountOwed, Current
  <2> QED BY <1>1, <2>1, <2>2, <2>3 DEF Books
<1>2. ASSUME NEW a \in Artifacts, MarkLapses(a), UNCHANGED resourceVars
      PROVE  Books'
  BY <1>1, <1>2 DEF MarkLapses, store, bounds, resourceVars, tables, history
<1>3. CASE DailyReset /\ UNCHANGED resourceVars
  BY <1>1, <1>3 DEF DailyReset, store, resourceVars, tables, history
<1>4. CASE UNCHANGED vars
  BY <1>1, <1>4 DEF vars, uploadVars, store, bounds, resourceVars, tables, history
<1>5. ASSUME NEW a \in Artifacts, AbortUpload(a) \/ (InitUpload(a) /\ UNCHANGED resourceVars)
      PROVE  Books'
  BY <1>5, AbortBooks, AnnounceBooks
<1>6. ASSUME NEW w \in Workers, Step(w)
      PROVE  Books'
  BY <1>6, RequestBooks, InsertBooks, CountBooks, SaveBooks, RemoveBooks, DropBooks, UploadBooks
     DEF Step
<1> QED BY <1>2, <1>3, <1>4, <1>5, <1>6 DEF Next

LEMMA InitBooks ==
  Init => Books
<1> SUFFICES ASSUME Init PROVE Books
  OBVIOUS
<1>1. Live = {} /\ Cardinality({}) = 0
  BY FS_EmptySet DEF Init, Live, Here
<1>2. Served = {} /\ Stored = {}
  BY <1>1 DEF Init, Served, Stored
<1>3. Sound
  BY <1>1 DEF Init, UploadInit, Sound
<1>4. Balanced
  BY <1>1, <1>2 DEF Init, Balanced
<1>5. \A w \in Workers : At(w, "idle")
  BY DEF Init, UploadInit, At, Idle
<1> QED BY <1>3, <1>4, <1>5 DEF Books, Alone

-----------------------------------------------------------------------------
(***************************************************************************)
(* The theorems.                                                           *)
(***************************************************************************)
IInv == Types /\ CInv /\ QInv /\ PInv

LEMMA InitInvariant ==
  Init => IInv
<1> SUFFICES ASSUME Init PROVE IInv
  OBVIOUS
<1>1. Types
  BY DEF Init, UploadInit, Types
<1>2. CInv
  BY DEF Init, UploadInit, CInv, Holds, Idle
<1>3. QInv
  <2>1. Deducting = {} /\ Imaging = {} /\ Cardinality({}) = 0
    BY FS_EmptySet DEF Init, UploadInit, Deducting, Imaging, At, Idle
  <2>2. PICK N \in Nat : N = Cardinality(Workers) /\ 0 <= N - 1
    <3>1. PICK w \in Workers : TRUE
      BY WorkersAssumption
    <3>2. PICK D \in SUBSET Workers : D = {w}
      BY <3>1
    <3>3. /\ Cardinality(D) <= Cardinality(Workers) /\ Cardinality(Workers) \in Nat
          /\ Cardinality(D) \in Nat
      BY Handlers
    <3>4. Cardinality(D) = 1
      BY <3>2, FS_Singleton
    <3> QED BY <3>3, <3>4
  <2>3. Limit # Unlimited => Within(0, {}, worker)
    <3>1. ASSUME Limit \in Nat PROVE 0 + 0 * MaxFile <= Cap
      <4>1. N - 1 \in Int /\ 0 <= N - 1 /\ N - 1 <= N - 1
        BY <2>2
      <4>2. (N - 1) * MaxFile \in Int /\ 0 <= (N - 1) * MaxFile
        BY <4>1, Times
      <4>3. 0 * MaxFile = 0
        BY SizeAssumption
      <4> QED BY <2>2, <3>1, <4>2, <4>3 DEF Cap
    <3> QED BY <2>1, <3>1, LimitAssumption DEF Within
  <2>4. used = 0 /\ images = 0
    BY DEF Init, UploadInit
  <2>5. images + Cardinality(Imaging) <= ImageLimit + Cardinality(Workers) - 1
    BY <2>1, <2>2, <2>4, UnlimitedAssumption
  <2> QED BY <2>1, <2>3, <2>4, <2>5 DEF QInv
<1>4. PInv
  <2>1. Published = {} /\ Deleted = {} /\ Cardinality({}) = 0 /\ points = 0
    BY FS_EmptySet DEF Init, Published, Deleted
  <2>2. Balance
    BY <2>1 DEF Balance
  <2>3. \A r \in Rows : \A op : ~Owes(op, r)
    BY DEF Init, UploadInit, Owes, OwesFor, After, Idle
  <2>4. Flawless
    BY <2>1, <2>3 DEF Init, UploadInit, Flawless, Born, Gone, Here, Reads, Idle
  <2> QED BY <2>2, <2>4 DEF PInv
<1> QED BY <1>1, <1>2, <1>3, <1>4 DEF IInv

\* The strengthening of the three properties is an invariant.
THEOREM Invariant == Spec => []IInv
<1>1. IInv /\ [Next]_vars => IInv'
  BY TypesStep, ChargesStep, QuotaStep, PointsStep DEF IInv
<1> QED BY <1>1, InitInvariant, PTL DEF Spec

\* Repeated and overlapping completions, failures and crashes charge a file at most once in
\* the life of its key.
THEOREM ChargesOnce == Spec => []ChargedOnce
<1>1. IInv => ChargedOnce
  BY DEF IInv, CInv, ChargedOnce
<1> QED BY <1>1, Invariant, PTL

\* The quota is exceeded by no more than what all requests but one add.
THEOREM QuotaHolds == Spec => []OvershootBounded
<1>1. IInv => OvershootBounded
  BY WithinCap DEF IInv
<1> QED BY <1>1, Invariant, PTL

\* With nothing failing the uploader ends up with three points for each resource that was
\* never deleted.
THEOREM PointsAreRight == Spec => []PointsFollowResources
<1>1. IInv => PointsFollowResources
  BY PointsSettle DEF IInv
<1> QED BY <1>1, Invariant, PTL

\* The books are kept.
THEOREM BooksKept == Spec => []Books
<1>1. IInv => Types
  BY DEF IInv
<1>2. Types /\ Books /\ [Next]_vars => Books'
  BY BooksStep
<1> QED BY <1>1, <1>2, InitBooks, Invariant, PTL DEF Spec

\* One request at a time and nothing failing: the stored files that were published are those
\* of the resources.
THEOREM FilesAreServed == Spec => []FilesServedSerially
<1>1. Books => FilesServedSerially
  BY DEF Books, Balanced, Stored, FilesServedSerially
<1> QED BY <1>1, BooksKept, PTL

\* One request at a time and nothing failing: the count and the aggregates are right.
THEOREM CountsAddUp == Spec => []CountedSerially
<1>1. Books => CountedSerially
  BY DEF Books, Balanced, CountedSerially
<1> QED BY <1>1, BooksKept, PTL

=============================================================================
