------------------------------ MODULE UploadQuota ------------------------------
(***************************************************************************)
(* Uploads of one user and what they cost: internal/common/upload, the     *)
(* tiers of internal/constants/upload.go, the client of the artifact store *)
(* (pkg/artifactclient) and the nightly reset of                           *)
(* internal/infrastructure/cron/cron.go.                                   *)
(*                                                                         *)
(* A file is announced (init), sent to the store, and completed.  Its size *)
(* is charged to user.daily_upload_size at the first completion, for which *)
(* a redis key is set that lapses after a day; a completion that fails     *)
(* takes the key back.  The browser completes again when it got no answer, *)
(* also while the first request still runs.                                *)
(***************************************************************************)
EXTENDS Integers, FiniteSets

CONSTANTS
  Workers,     (* requests served at the same time                          *)
  Artifacts,   (* uploads, by the uuid the store gives them                 *)
  Size,        (* of each                                                   *)
  MaxFile,     (* the tier's largest file                                   *)
  Limit,       (* the tier's daily limit                                    *)
  Unlimited,   (* the limit of an administrator                             *)
  ImageLimit,  (* images a day                                              *)
  None,        (* there is no such key, file or row                         *)
  MaxDays,     (* bound: midnights                                          *)
  MaxRequests, (* bound: requests                                           *)
  MaxFaults    (* bound: crashes, failed statements, lost answers           *)

ASSUME SizeAssumption == MaxFile \in Nat /\ Size \in [Artifacts -> 1 .. MaxFile]
ASSUME LimitAssumption == Limit \in Nat \/ Limit = Unlimited
ASSUME UnlimitedAssumption == Unlimited \notin Nat /\ ImageLimit \in Nat
ASSUME DaysAssumption == MaxDays \in Nat /\ None \notin Nat \cup Artifacts
ASSUME BoundsAssumption == MaxRequests \in Nat /\ MaxFaults \in Nat
ASSUME WorkersAssumption == IsFiniteSet(Workers) /\ Workers # {}

VARIABLES
  art,      (* artifact store: "none", "open", "stored" or "deleted"        *)
  used,     (* user.daily_upload_size                                       *)
  images,   (* user.daily_image_count                                       *)
  mark,     (* redis upload:complete:<uuid>: the day it was set             *)
  ready,    (* the browser: uploads answered as complete                    *)
  worker,
  charged,  (* history: times charged since the key last lapsed             *)
  serial,   (* history: no two requests have overlapped                     *)
  days, requests, faults

store == <<art, ready>>
quota == <<used, images, mark, charged>>
bounds == <<serial, days, requests, faults>>
uploadVars == <<store, quota, worker, bounds>>

Idle == [pc |-> "idle"]
At(w, pc) == worker[w].pc = pc
Goes(w, pc) == worker' = [worker EXCEPT ![w].pc = pc]
Over(w) == worker' = [worker EXCEPT ![w] = Idle]
Faulty == faults < MaxFaults /\ faults' = faults + 1

\* A request reaches a handler that is free.
Starts(w, task) ==
  /\ At(w, "idle") /\ requests < MaxRequests
  /\ worker' = [worker EXCEPT ![w] = task]
  /\ requests' = requests + 1
  /\ serial' = (serial /\ \A v \in Workers : At(v, "idle"))
  /\ UNCHANGED <<days, faults>>

-----------------------------------------------------------------------------
UploadInit ==
  /\ art = [a \in Artifacts |-> "none"]
  /\ used = 0 /\ images = 0
  /\ mark = [a \in Artifacts |-> None]
  /\ ready = {}
  /\ worker = [w \in Workers |-> Idle]
  /\ charged = [a \in Artifacts |-> 0]
  /\ serial = TRUE
  /\ days = 0 /\ requests = 0 /\ faults = 0

(***************************************************************************)
(* Announcing and giving up.                                               *)
(***************************************************************************)
\* validatePreUpload; the completion checks again.
Fits(a) == Size[a] <= MaxFile /\ (Limit # Unlimited => used + Size[a] <= Limit)

\* Read and call are one step: nothing below relies on what was read.
InitUpload(a) ==
  /\ art[a] = "none" /\ Fits(a)
  /\ art' = [art EXCEPT ![a] = "open"]
  /\ UNCHANGED <<ready, quota, worker, bounds>>

\* The browser gives up an upload, also one that is just being completed: the answer to
\* the completion then still hands it to the form.
Abort(a) ==
  /\ art[a] \in {"open", "stored"}
  /\ art' = [art EXCEPT ![a] = "deleted"]
  /\ ready' = ready \ {a}
  /\ serial' = (serial /\ \A w \in Workers : At(w, "idle"))
  /\ UNCHANGED <<quota, worker, days, requests, faults>>

(***************************************************************************)
(* Complete and deductQuotaOnce.                                           *)
(***************************************************************************)
\* The store completes an upload as often as it is asked to, unless it is deleted.
CompleteUpload(w, a) ==
  /\ art[a] \in {"open", "stored"} /\ a \notin ready
  /\ art' = [art EXCEPT ![a] = "stored"]
  /\ Starts(w, [pc |-> "marking", art |-> a])
  /\ UNCHANGED <<ready, quota>>

\* SET ... NX: whoever comes second is answered at once, charged or not.
MarkCompleteOnce(w) ==
  LET a == worker[w].art
  IN  /\ At(w, "marking")
      /\ IF mark[a] = None
           THEN /\ mark' = [mark EXCEPT ![a] = days]
                /\ Goes(w, "checking")
                /\ UNCHANGED ready
           ELSE /\ ready' = ready \cup {a}
                /\ Over(w)
                /\ UNCHANGED mark
      /\ UNCHANGED <<art, used, images, charged, bounds>>

\* Mutant: the file at hand is left out of the sum.
OverLimitBefore(a) == Limit # Unlimited /\ used > Limit

OverLimit(a) == Limit # Unlimited /\ used + Size[a] > Limit

CheckLimit(w) ==
  /\ At(w, "checking")
  /\ Goes(w, IF OverLimit(worker[w].art) THEN "discarding" ELSE "deducting")
  /\ UNCHANGED <<store, quota, bounds>>

DiscardOverLimit(w) ==
  LET a == worker[w].art
  IN  /\ At(w, "discarding")
      /\ art' = [art EXCEPT ![a] = "deleted"]
      /\ Goes(w, "unmarking")
      /\ UNCHANGED <<ready, quota, bounds>>

\* Mutant: the deferred call takes the key back although the size was charged.
DeductAndUnmark(w) ==
  LET a == worker[w].art
  IN  /\ At(w, "deducting")
      /\ used' = used + Size[a]
      /\ charged' = [charged EXCEPT ![a] = @ + 1]
      /\ mark' = [mark EXCEPT ![a] = None]
      /\ \/ ready' = ready \cup {a} /\ UNCHANGED faults
         \/ Faulty /\ UNCHANGED ready
      /\ Over(w)
      /\ UNCHANGED <<art, images, serial, days, requests>>

\* daily_upload_size + size, one UPDATE; the answer may get lost.
DeductQuota(w) ==
  LET a == worker[w].art
  IN  /\ At(w, "deducting")
      /\ used' = used + Size[a]
      /\ charged' = [charged EXCEPT ![a] = @ + 1]
      /\ \/ ready' = ready \cup {a} /\ UNCHANGED faults
         \/ Faulty /\ UNCHANGED ready
      /\ Over(w)
      /\ UNCHANGED <<art, images, mark, serial, days, requests>>

\* The statement that checks or charges fails; its deferred call takes the key back.
DeductFails(w) ==
  /\ At(w, "checking") \/ At(w, "deducting")
  /\ Goes(w, "unmarking") /\ Faulty
  /\ UNCHANGED <<store, quota, serial, days, requests>>

UnmarkComplete(w) ==
  /\ At(w, "unmarking")
  /\ mark' = [mark EXCEPT ![worker[w].art] = None]
  /\ Over(w)
  /\ UNCHANGED <<store, used, images, charged, bounds>>

\* The key's TTL is a day, far more than a request takes.
MarkLapses(a) ==
  /\ mark[a] # None /\ mark[a] < days
  /\ \A w \in Workers : ~At(w, "idle") => worker[w].art # a
  /\ mark' = [mark EXCEPT ![a] = None]
  /\ charged' = [charged EXCEPT ![a] = 0]
  /\ UNCHANGED <<store, used, images, worker, bounds>>

(***************************************************************************)
(* Images: one field per user, checked before the image service is called  *)
(* and incremented after.                                                  *)
(***************************************************************************)
CheckDailyImageQuota(w) ==
  /\ images < ImageLimit
  /\ Starts(w, [pc |-> "imaging", art |-> None])
  /\ UNCHANGED <<store, quota>>

\* An image the service refuses is not counted.
UploadImageService(w) ==
  /\ At(w, "imaging")
  /\ images' \in {images, images + 1}
  /\ Over(w)
  /\ UNCHANGED <<store, used, mark, charged, bounds>>

(***************************************************************************)
(* Midnight, and the process dying.                                        *)
(***************************************************************************)
DailyReset ==
  /\ days < MaxDays /\ days' = days + 1
  /\ used' = 0 /\ images' = 0
  /\ UNCHANGED <<store, mark, charged, worker, serial, requests, faults>>

Crash(w) ==
  /\ ~At(w, "idle")
  /\ Over(w) /\ Faulty
  /\ UNCHANGED <<store, quota, serial, days, requests>>

-----------------------------------------------------------------------------
UploadStep(w) ==
  \/ MarkCompleteOnce(w) \/ CheckLimit(w) \/ DiscardOverLimit(w) \/ DeductQuota(w)
  \/ DeductFails(w) \/ UnmarkComplete(w)
  \/ CheckDailyImageQuota(w) \/ UploadImageService(w)
  \/ \E a \in Artifacts : CompleteUpload(w, a)

UploadNext ==
  \/ \E w \in Workers : UploadStep(w) \/ Crash(w)
  \/ \E a \in Artifacts : InitUpload(a) \/ Abort(a) \/ MarkLapses(a)
  \/ DailyReset

UploadSpec == UploadInit /\ [][UploadNext]_uploadVars

-----------------------------------------------------------------------------
(***************************************************************************)
(* Properties.                                                             *)
(***************************************************************************)
UploadTask ==
  [pc : {"marking", "checking", "discarding", "deducting", "unmarking"}, art : Artifacts]
    \cup [pc : {"imaging"}, art : {None}]

\* Every variable has its type.
UploadTypeOK ==
  /\ art \in [Artifacts -> {"none", "open", "stored", "deleted"}]
  /\ ready \subseteq Artifacts
  /\ used \in Nat /\ images \in Nat
  /\ mark \in [Artifacts -> Nat \cup {None}]
  /\ charged \in [Artifacts -> Nat]
  /\ serial \in BOOLEAN /\ days \in Nat /\ requests \in Nat /\ faults \in Nat

\* Overlapping and repeated completions, failures, crashes and lost answers charge a file
\* at most once in the life of its redis key.
ChargedOnce == \A a \in Artifacts : charged[a] <= 1

\* Requests that check the quota together exceed it by what all but one of them add.
OvershootBounded ==
  /\ Limit # Unlimited => used <= Limit + (Cardinality(Workers) - 1) * MaxFile
  /\ images <= ImageLimit + Cardinality(Workers) - 1
=============================================================================
