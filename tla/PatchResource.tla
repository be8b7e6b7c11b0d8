----------------------------- MODULE PatchResource -----------------------------
(***************************************************************************)
(* The resources of one patch, each with a link or with an uploaded file:  *)
(* CreateResource, UpdateResource and DeleteResource of                    *)
(* internal/patch/service/service.go with their statements in              *)
(* internal/patch/repository/repository.go, on top of the uploads they     *)
(* publish.  The patch counts its resources by increments, keeps           *)
(* aggregates of their attributes that are rebuilt from what was read, and *)
(* the uploader is paid for a resource and pays back for its deletion.     *)
(***************************************************************************)
EXTENDS UploadQuota

CONSTANTS
  Link,      (* a resource that is a link has this for its file             *)
  MaxRows    (* bound: ids given out                                        *)

ASSUME FilesAssumption == Link \notin Artifacts \cup {None}
ASSUME RowsAssumption == MaxRows \in Nat

VARIABLES
  row,      (* table patch_resource: the file of each                       *)
  ids,      (* the id sequence: 1 .. ids are given out                      *)
  count,    (* patch.resource_count                                         *)
  agg,      (* the resources whose attributes patch.type etc. are made of   *)
  points,   (* what the uploader has got for resources                      *)
  seen,     (* account service: the idempotency keys it has seen            *)
  attached, (* history: uploads that were some resource's file              *)
  kept      (* history: resources that were never deleted                   *)

tables == <<row, ids, count, agg>>
account == <<points, seen>>
history == <<attached, kept>>
resourceVars == <<tables, account, history>>
vars == <<uploadVars, resourceVars>>

Rows == 1 .. MaxRows
Here(r) == row[r] # None
Live == {r \in Rows : Here(r)}
Files == Artifacts \cup {Link}

\* The unique index on artifact_uuid, for a row other than r.
Taken(f, r) == f \in Artifacts /\ \E q \in Rows \ {r} : row[q] = f

-----------------------------------------------------------------------------
Init ==
  /\ UploadInit
  /\ row = [r \in Rows |-> None]
  /\ ids = 0 /\ count = 0 /\ agg = {}
  /\ points = 0 /\ seen = {}
  /\ attached = {} /\ kept = {}

Task(pc, op, r, old, new) ==
  [pc |-> pc, art |-> None, op |-> op, row |-> r, old |-> old, new |-> new,
   changed |-> FALSE, copy |-> {}]

(***************************************************************************)
(* Requests: what the pages send.                                          *)
(***************************************************************************)
\* A file is published once its upload was answered as complete; twice at the same time, if
\* the button is pressed twice.
Unpublished == ready \ attached

CreateRequest(w) ==
  /\ \E f \in Unpublished \cup {Link} : Starts(w, Task("inserting", "create", None, None, f))
  /\ UNCHANGED <<store, quota, resourceVars>>

\* The resource is read.  The form sends its file back or another that was uploaded.
UpdateRequest(w) ==
  /\ \E r \in Live, changed \in BOOLEAN : \E f \in Unpublished \cup {Link, row[r]} :
       Starts(w, [Task("saving", "update", r, row[r], f) EXCEPT !.changed = changed])
  /\ UNCHANGED <<store, quota, resourceVars>>

\* By its owner or a moderator; the resource is read.
DeleteRequest(w) ==
  /\ \E r \in Live : Starts(w, Task("removing", "delete", r, row[r], row[r]))
  /\ UNCHANGED <<store, quota, resourceVars>>

\* A page that gives up an upload has not sent it.
AbortUpload(a) ==
  /\ a \notin attached
  /\ \A w \in Workers : worker[w].pc \in {"inserting", "saving"} => worker[w].new # a
  /\ Abort(a)
  /\ UNCHANGED resourceVars

(***************************************************************************)
(* The statements.                                                         *)
(***************************************************************************)
\* CreateResource: the row, or the error of the unique index.
Insert(w) ==
  LET r == ids + 1  f == worker[w].new
  IN  /\ At(w, "inserting")
      /\ r \in Rows /\ ids' = r
      /\ IF Taken(f, None)
           THEN Over(w) /\ UNCHANGED <<row, history>>
           ELSE /\ row' = [row EXCEPT ![r] = f]
                /\ kept' = kept \cup {r}
                /\ attached' = attached \cup ({f} \cap Artifacts)
                /\ worker' = [worker EXCEPT ![w].pc = "counting", ![w].row = r]
      /\ UNCHANGED <<count, agg, account, store, quota, bounds>>

\* Mutant: a decrement that never counts below one.
UpdatedCountLow(delta) == IF count + delta < 1 THEN 1 ELSE count + delta

\* UpdateCount: resource_count + 1, or GREATEST(resource_count - 1, 0).
UpdatedCount(delta) == IF count + delta < 0 THEN 0 ELSE count + delta

UpdateCount(w) ==
  /\ At(w, "counting")
  /\ count' = UpdatedCount(IF worker[w].op = "create" THEN 1 ELSE -1)
  /\ Goes(w, "reading")
  /\ UNCHANGED <<row, ids, agg, account, history, store, quota, bounds>>

\* RecalculatePatchAggregates: the resources are read, the aggregates written.
ReadResources(w) ==
  /\ At(w, "reading")
  /\ worker' = [worker EXCEPT ![w].pc = "writing", ![w].copy = Live]
  /\ UNCHANGED <<resourceVars, store, quota, bounds>>

\* Mutant: the account service is given no idempotency key.
AdjustAlways(key, delta) == points' = points + delta /\ seen' = seen \cup {key}

\* Adjust: what was applied under a key is not applied again.
Adjust(key, delta) ==
  /\ points' = IF key \in seen THEN points ELSE points + delta
  /\ seen' = seen \cup {key}

\* The aggregates are written; then the uploader is paid, or pays back, in the background.
WriteAggregates(w) ==
  LET r == worker[w].row
  IN  /\ At(w, "writing")
      /\ agg' = worker[w].copy
      /\ CASE worker[w].op = "create" -> Adjust(<<"resource_publish", r>>, 3)
           [] worker[w].op = "delete" -> Adjust(<<"resource_delete", r>>, -3)
           [] worker[w].op = "update" -> UNCHANGED account
      /\ Over(w)
      /\ UNCHANGED <<row, ids, count, history, store, quota, bounds>>

\* Mutant: the old file goes whatever the form sent.
OrphanedAlways(old, new) == old \in Artifacts

\* The file an edit leaves without a resource.
Orphaned(old, new) == old \in Artifacts /\ new # old

\* UpdateResource's transaction: file history and revision, then gorm's Save of the whole
\* row.  If the resource is gone, their foreign keys refuse an edit that changes anything,
\* and one that changes nothing inserts the row again.
SaveResource(w) ==
  LET t == worker[w]
      saved == ~Taken(t.new, t.row) /\ (Here(t.row) \/ (t.new = t.old /\ ~t.changed))
  IN  /\ At(w, "saving")
      /\ IF saved
           THEN /\ row' = [row EXCEPT ![t.row] = t.new]
                /\ attached' = attached \cup ({t.new} \cap Artifacts)
                /\ Goes(w, IF Orphaned(t.old, t.new) THEN "dropping" ELSE "reading")
           ELSE Over(w) /\ UNCHANGED <<row, attached>>
      /\ UNCHANGED <<ids, count, agg, kept, account, store, quota, bounds>>

\* DELETE of the row, also of one that is gone by now.
RemoveResource(w) ==
  LET t == worker[w]
  IN  /\ At(w, "removing")
      /\ row' = [row EXCEPT ![t.row] = None]
      /\ kept' = kept \ {t.row}
      /\ Goes(w, IF t.old \in Artifacts THEN "dropping" ELSE "counting")
      /\ UNCHANGED <<ids, count, agg, attached, account, store, quota, bounds>>

\* The store is asked to delete the file; an error is only logged.
DropArtifact(w) ==
  LET a == worker[w].old
  IN  /\ At(w, "dropping")
      /\ \/ art' = [art EXCEPT ![a] = "deleted"] /\ UNCHANGED faults
         \/ Faulty /\ UNCHANGED art
      /\ Goes(w, IF worker[w].op = "delete" THEN "counting" ELSE "reading")
      /\ UNCHANGED <<resourceVars, ready, quota, serial, days, requests>>

-----------------------------------------------------------------------------
Step(w) ==
  \/ CreateRequest(w) \/ UpdateRequest(w) \/ DeleteRequest(w)
  \/ Insert(w) \/ UpdateCount(w) \/ ReadResources(w) \/ WriteAggregates(w)
  \/ SaveResource(w) \/ RemoveResource(w) \/ DropArtifact(w)
  \/ (UploadStep(w) \/ Crash(w)) /\ UNCHANGED resourceVars

Next ==
  \/ \E w \in Workers : Step(w)
  \/ \E a \in Artifacts : AbortUpload(a)
  \/ \E a \in Artifacts : (InitUpload(a) \/ MarkLapses(a)) /\ UNCHANGED resourceVars
  \/ DailyReset /\ UNCHANGED resourceVars

Spec == Init /\ [][Next]_vars

-----------------------------------------------------------------------------
(***************************************************************************)
(* Properties.                                                             *)
(***************************************************************************)
Quiet == \A w \in Workers : At(w, "idle")
Served == {row[r] : r \in Live}

\* One request at a time and nothing failing: the files that were ever published and are
\* still stored are exactly those of the resources; neither has a resource lost its file
\* nor has a replaced or deleted one been left in the store.
FilesServedSerially ==
  Quiet /\ serial /\ faults = 0 =>
    {a \in attached : art[a] = "stored"} = Served \cap Artifacts

\* One request at a time and nothing failing: the count is the number of resources and the
\* aggregates are made of them.
CountedSerially ==
  Quiet /\ serial /\ faults = 0 => count = Cardinality(Live) /\ agg = Live

\* However requests overlap, also deletions of one resource: with nothing failing the
\* uploader ends up with three points for each resource that was never deleted.
PointsFollowResources ==
  Quiet /\ faults = 0 => points = 3 * Cardinality(kept)
=============================================================================
