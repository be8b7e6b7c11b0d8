------------------------------ MODULE MirrorSync ------------------------------
(***************************************************************************)
(* internal/infrastructure/cron/catalog_mirror_sync.go: every ten minutes  *)
(* a run drains the catalog's feed of changed works from a stored cursor   *)
(* and writes each work's display verdict into patch.content_limit.  The   *)
(* run's deadline, also ten minutes, stops its calls of the catalog but    *)
(* not its statements.  The verdicts come through the read cache of        *)
(* pkg/catalogv2/cache.go, which keeps them for a minute; the feed does    *)
(* not.                                                                    *)
(*                                                                         *)
(* The ids of works and of patches are numbers of the same kind and        *)
(* overlap: a work stands for its id in the catalog, and its anchor, a     *)
(* claim or a reference, names the patch that is about it.                 *)
(***************************************************************************)
EXTENDS Integers, FiniteSets

CONSTANTS
  Works,
  Patches,     (* ids of patches, of those that have a row and those to come*)
  Listed,      (* those that have a row from the start                      *)
  Anchor,      (* of each work: the patch it is of, or NoAnchor              *)
  NoAnchor,
  Runs,        (* runs of the job at the same time                          *)
  Unset,       (* content_limit of a row no run has reached                 *)
  PageSize, MaxPages, (* mirrorSyncPageSize, mirrorSyncMaxPages             *)
  MaxKept,     (* bound: answers in the read cache                          *)
  MaxChanges,  (* bound: changes in the catalog, rows created               *)
  MaxFaults    (* bound: failures, deadlines passed                         *)

ASSUME PagesAssumption == PageSize \in Nat \ {0} /\ MaxPages \in Nat \ {0}
ASSUME ListedAssumption == IsFiniteSet(Works) /\ Listed \subseteq Patches
ASSUME AnchorAssumption ==
  /\ NoAnchor \notin Patches
  /\ Anchor \in [Works -> Patches \cup {NoAnchor}]
  /\ \A v, w \in Works : Anchor[v] = Anchor[w] => v = w \/ Anchor[v] = NoAnchor
ASSUME UnsetAssumption == Unset \notin {"sfw", "nsfw", "gone"}

VARIABLES
  verdict,    (* catalog: "sfw", "nsfw" or "gone"                           *)
  stamp,      (* catalog: updated_at of each work                           *)
  now,        (* catalog: the latest of them                                *)
  limit,      (* patch.content_limit, of the patches that have a row        *)
  cursor,     (* cron_state.last_cursor: a stamp                            *)
  answers,    (* the read cache: for sets of works, their verdicts          *)
  run,        (* the runs                                                   *)
  outdated,   (* history: works whose last verdict, from the cache, was old *)
  overlapped, (* history: a run began before the last one was over          *)
  changes, faults

catalogVars == <<verdict, stamp, now>>
answerVars == <<answers, outdated>>
mirrorVars == <<catalogVars, limit, cursor, answerVars, run, overlapped, changes, faults>>

Axis == {"sfw", "nsfw"}
Resting == [pc |-> "idle", late |-> FALSE]
Faulty == faults < MaxFaults /\ faults' = faults + 1
RunAt(r, pc) == run[r].pc = pc
InTime(r) == ~run[r].late
Ended(r) == run' = [run EXCEPT ![r] = Resting]

\* The works were entered one after the other, and no run has been yet.
MirrorInit ==
  /\ verdict \in [Works -> Axis]
  /\ stamp = CHOOSE s \in [Works -> 1 .. Cardinality(Works)] :
                \A v, w \in Works : v # w => s[v] # s[w]
  /\ now = Cardinality(Works) /\ changes = 0
  /\ limit = [w \in Listed |-> Unset]
  /\ cursor = 0
  /\ answers = <<>> /\ outdated = {}
  /\ run = [r \in Runs |-> Resting]
  /\ overlapped = FALSE
  /\ faults = 0

-----------------------------------------------------------------------------
\* A change of the verdict, or of something else, puts the work at the end of the feed.
ChangeWork(w) ==
  /\ changes < MaxChanges /\ changes' = changes + 1
  /\ \E v \in Axis \cup {"gone"} : verdict' = [verdict EXCEPT ![w] = v]
  /\ now' = now + 1 /\ stamp' = [stamp EXCEPT ![w] = now + 1]
  /\ UNCHANGED <<limit, cursor, answerVars, run, overlapped, faults>>

\* A patch gets its row, without a content_limit.
CreateRow(p) ==
  /\ p \notin DOMAIN limit /\ changes < MaxChanges /\ changes' = changes + 1
  /\ limit' = [o \in DOMAIN limit \cup {p} |-> IF o = p THEN Unset ELSE limit[o]]
  /\ UNCHANGED <<catalogVars, cursor, answerVars, run, overlapped, faults>>

-----------------------------------------------------------------------------
\* A cached answer's minute is over.
AnswerExpires(ids) ==
  /\ answers' = [k \in DOMAIN answers \ {ids} |-> answers[k]]
  /\ UNCHANGED <<catalogVars, limit, cursor, outdated, run, overlapped, changes, faults>>

\* At the next tick the answers of the last ten minutes may be there, older ones are not.
Aged == [k \in {j \in DOMAIN answers : ~answers[j].aged} |->
           [body |-> answers[k].body, aged |-> TRUE]]

-----------------------------------------------------------------------------
\* Ten minutes after the last one, which is over or past its deadline.
Tick(r) ==
  /\ RunAt(r, "idle")
  /\ \A o \in Runs : RunAt(o, "idle") \/ ~InTime(o)
  /\ run' = [run EXCEPT ![r] = [pc |-> "asking", at |-> cursor, pages |-> 0, late |-> FALSE]]
  /\ overlapped' = (overlapped \/ \E o \in Runs : ~RunAt(o, "idle"))
  /\ answers' = Aged
  /\ UNCHANGED <<catalogVars, limit, cursor, outdated, faults, changes>>

DeadlinePasses(r) ==
  /\ ~RunAt(r, "idle") /\ InTime(r)
  /\ run' = [run EXCEPT ![r].late = TRUE]
  /\ Faulty
  /\ UNCHANGED <<catalogVars, limit, cursor, answerVars, overlapped, changes>>

\* The oldest PageSize works of the feed after a cursor.
Page(at) ==
  {w \in Works : stamp[w] > at
     /\ Cardinality({v \in Works : at < stamp[v] /\ stamp[v] < stamp[w]}) < PageSize}

Latest(S) == {stamp[w] : w \in {u \in S : \A v \in S : stamp[v] <= stamp[u]}}

\* A page is followed by a cursor if it is full; whether the very last one is, is the
\* catalog's affair.
NextCursors(at) ==
  LET page == Page(at)
      more == \E w \in Works \ page : stamp[w] > at
  IN  IF Cardinality(page) < PageSize THEN {0}
      ELSE Latest(page) \cup IF more THEN {} ELSE {0}

Changes(r) ==
  /\ RunAt(r, "asking") /\ InTime(r)
  /\ LET page == Page(run[r].at)
         ids == {w \in page : verdict[w] # "gone"}
     IN  \E next \in NextCursors(run[r].at) :
           run' = [run EXCEPT ![r] = [pc |-> IF ids = {} THEN "moving" ELSE "hydrating",
                                      at |-> run[r].at, pages |-> run[r].pages + 1,
                                      late |-> FALSE, next |-> next, ids |-> ids]]
  /\ UNCHANGED <<catalogVars, limit, cursor, answerVars, overlapped, faults, changes>>

\* What the catalog says of them by now; of works that are gone it says nothing.
VerdictsOf(ids) == [w \in {v \in ids : verdict[v] # "gone"} |-> verdict[w]]

\* mirrorGID: the patch that a work is of, never the one that happens to have its id.
MirrorGID(w) == Anchor[w]

\* An answer is taken out of the cache if it is there; if not, it may be put there.  Works
\* without an anchor are passed over.
DisplayVerdicts(r) ==
  /\ RunAt(r, "hydrating") /\ InTime(r)
  /\ LET ids == run[r].ids
         body == IF ids \in DOMAIN answers THEN answers[ids].body ELSE VerdictsOf(ids)
         found == {w \in DOMAIN body : MirrorGID(w) # NoAnchor}
         of(l) == {MirrorGID(w) : w \in {v \in found : body[v] = l}}
     IN  /\ run' = [run EXCEPT ![r] = [pc |-> IF found = {} THEN "moving" ELSE "writing",
                                      at |-> run[r].at, pages |-> run[r].pages,
                                      late |-> FALSE, next |-> run[r].next,
                                      sets |-> {<<l, of(l)>> : l \in {a \in Axis : of(a) # {}}}]]
         /\ outdated' = (outdated \ ids) \cup
              {w \in ids : verdict[w] # "gone" /\ ~(w \in DOMAIN body /\ body[w] = verdict[w])}
         /\ \/ UNCHANGED answers
            \/ /\ ids \notin DOMAIN answers /\ Cardinality(DOMAIN answers) < MaxKept
               /\ answers' = [k \in DOMAIN answers \cup {ids} |->
                             IF k = ids THEN [body |-> body, aged |-> FALSE] ELSE answers[k]]
  /\ UNCHANGED <<catalogVars, limit, cursor, overlapped, faults, changes>>

\* Mutant: rows that have no verdict yet are left alone.
WriteKnownVerdicts(r) ==
  /\ RunAt(r, "writing")
  /\ \E set \in run[r].sets :
       LET left == run[r].sets \ {set}
       IN  /\ limit' = [p \in DOMAIN limit |->
                          IF p \in set[2] /\ limit[p] # Unset THEN set[1] ELSE limit[p]]
           /\ run' = [run EXCEPT ![r].sets = left,
                                 ![r].pc = IF left = {} THEN "moving" ELSE "writing"]
  /\ UNCHANGED <<catalogVars, cursor, answerVars, overlapped, faults, changes>>

\* One UPDATE for each verdict, in no order.
WriteVerdicts(r) ==
  /\ RunAt(r, "writing")
  /\ \E set \in run[r].sets :
       LET left == run[r].sets \ {set}
       IN  /\ limit' = [p \in DOMAIN limit |-> IF p \in set[2] THEN set[1] ELSE limit[p]]
           /\ run' = [run EXCEPT ![r].sets = left,
                                 ![r].pc = IF left = {} THEN "moving" ELSE "writing"]
  /\ UNCHANGED <<catalogVars, cursor, answerVars, overlapped, faults, changes>>

\* The next page, unless this one was short or the run has had its share.
NextPage(r, next) ==
  IF run[r].pages < MaxPages
    THEN run' = [run EXCEPT ![r] = [pc |-> "asking", at |-> next, pages |-> run[r].pages,
                                    late |-> run[r].late]]
    ELSE Ended(r)

\* Mutant: the cursor is written as soon as the page has been read.
MoveCursorFirst(r) ==
  /\ run[r].pc \in {"hydrating", "writing", "moving"}
  /\ cursor' = IF run[r].next = 0 THEN cursor ELSE run[r].next
  /\ CASE RunAt(r, "moving") /\ run[r].next = 0 -> Ended(r)
       [] RunAt(r, "moving") /\ run[r].next # 0 -> NextPage(r, run[r].next)
       [] OTHER -> cursor' # cursor /\ UNCHANGED run
  /\ UNCHANGED <<catalogVars, limit, answerVars, overlapped, faults, changes>>

\* writeMirrorCursor, whatever the cursor is by now.
MoveCursor(r) ==
  /\ RunAt(r, "moving")
  /\ IF run[r].next = 0
       THEN Ended(r) /\ UNCHANGED cursor
       ELSE cursor' = run[r].next /\ NextPage(r, run[r].next)
  /\ UNCHANGED <<catalogVars, limit, answerVars, overlapped, faults, changes>>

\* A call is made after the deadline.
GivesUp(r) ==
  /\ RunAt(r, "asking") \/ RunAt(r, "hydrating")
  /\ ~InTime(r)
  /\ Ended(r)
  /\ UNCHANGED <<catalogVars, limit, cursor, answerVars, overlapped, faults, changes>>

\* A call or a statement fails, or the process dies.
RunFails(r) ==
  /\ ~RunAt(r, "idle")
  /\ Ended(r) /\ Faulty
  /\ UNCHANGED <<catalogVars, limit, cursor, answerVars, overlapped, changes>>

-----------------------------------------------------------------------------
RunStep(r) ==
  Changes(r) \/ DisplayVerdicts(r) \/ WriteVerdicts(r) \/ MoveCursor(r) \/ GivesUp(r)

MirrorNext ==
  \/ \E p \in Patches : CreateRow(p)
  \/ \E ids \in DOMAIN answers : AnswerExpires(ids)
  \/ \E r \in Runs : Tick(r) \/ RunStep(r) \/ DeadlinePasses(r) \/ RunFails(r)

\* The schedule fires for ever.
SomeTick == \E r \in Runs : Tick(r)
=============================================================================
