---------------------------- MODULE PatchRegistry ----------------------------
(***************************************************************************)
(* The local row of a galgame ("patch") and the users credited on it:      *)
(* internal/patch/service/service.go and repository/repository.go.         *)
(*                                                                         *)
(* A row comes to be in three ways: a user registers the game              *)
(* (createPatchRow), a user claims it (RegisterClaimedGalgame), or the     *)
(* first comment or resource materialises a stub owned by whoever acted    *)
(* (ensureLocalPatch), which a later registration adopts (adoptStub).  The *)
(* row's id is the galgame's id, so a game that was deleted and registered *)
(* again has the same id.  A registration is worth +3 moemoepoint, sent to *)
(* the OAuth ledger by a goroutine that may be lost.  The administration   *)
(* purges users with what they own, in internal/admin, and counts again    *)
(* what they contributed to.                                               *)
(*                                                                         *)
(* Handlers run concurrently; each database statement, or transaction, is  *)
(* one step, and a handler may die between two of them.                    *)
(***************************************************************************)
EXTENDS Integers, FiniteSets

CONSTANTS
  Workers,    (* requests served at the same time                           *)
  Users,
  Admins,     (* users who may delete any row                               *)
  Games,
  NoPatch,    (* there is no row                                            *)
  MaxCalls,   (* bound: requests                                            *)
  MaxDeaths   (* bound: requests that die half way                          *)

PatchRow == [owner : Users, stub : BOOLEAN, published : BOOLEAN, count : Nat]

ASSUME UsersAssumption  == Users # {} /\ Admins \subseteq Users
ASSUME NoPatchAssumption == NoPatch \notin PatchRow
ASSUME GamesAssumption  == Games # {} /\ IsFiniteSet(Workers)
ASSUME BoundsAssumption == MaxCalls \in Nat /\ MaxDeaths \in Nat

VARIABLES
  patch,        (* table patch: [owner, stub, published, count], or NoPatch *)
  contributors, (* user_patch_contribute_relation, per game                 *)
  pending,      (* comments that wait for review: [user, game]              *)
  worker,       (* each request's handler                                   *)
  issued,       (* history: the awards sent, [key, game, era, user]         *)
  sending,      (* the awards whose goroutine still runs                    *)
  ledger,       (* OAuth: the awards applied, [key, game, user]             *)
  purged,       (* users whose row is gone                                  *)
  era,          (* history: how many rows each game has had before          *)
  drift,        (* history: what each row's count has too much or, if       *)
                (* negative, too little                                     *)
  calls, deaths

vars == <<patch, contributors, pending, worker, issued, sending, ledger, purged, era,
          drift, calls, deaths>>
awardVars == <<issued, sending, ledger>>

Ops == {"create", "claim", "comment", "resource", "delete", "approve"}
Row(u, stub, n) == [owner |-> u, stub |-> stub, published |-> FALSE, count |-> n]
Idle == [pc |-> "idle"]

Here(g) == patch[g] # NoPatch
Goes(w, pc) == worker' = [worker EXCEPT ![w].pc = pc]
Over(w) == worker' = [worker EXCEPT ![w] = Idle]
At(w, pc) == worker[w].pc = pc

\* The handlers that have inserted a relation of the row and not counted it yet.
Counting(g) == {w \in Workers : /\ At(w, "counting")
                                /\ worker[w].game = g /\ worker[w].era = era[g]}

\* go s.mp.Award(...): a goroutine of its own, once the row is committed.
Send(key, g, u) ==
  LET a == [key |-> key, game |-> g, era |-> era[g], user |-> u]
  IN  issued' = issued \cup {a} /\ sending' = sending \cup {a}

-----------------------------------------------------------------------------
Init ==
  /\ patch = [g \in Games |-> NoPatch]
  /\ contributors = [g \in Games |-> {}]
  /\ pending = {}
  /\ worker = [w \in Workers |-> Idle]
  /\ issued = {} /\ sending = {} /\ ledger = {}
  /\ era = [g \in Games |-> 0]
  /\ purged = {}
  /\ drift = [g \in Games |-> 0]
  /\ calls = 0 /\ deaths = 0

\* A request arrives and is handed to the patch service.
Call(w, op, u, g) ==
  /\ At(w, "idle") /\ calls < MaxCalls
  /\ worker' = [worker EXCEPT ![w] =
       [pc |-> IF op = "approve" THEN "approving" ELSE "reading",
        op |-> op, user |-> u, game |-> g, era |-> era[g]]]
  /\ calls' = calls + 1
  /\ UNCHANGED <<patch, contributors, pending, awardVars, purged, era, drift, deaths>>

\* The handlers, each for any user and game.
CreatePatchRequest(w)    == \E u \in Users, g \in Games : Call(w, "create", u, g)
ClaimGalgameRequest(w)   == \E u \in Users, g \in Games : Call(w, "claim", u, g)
CreateCommentRequest(w)  == \E u \in Users, g \in Games : Call(w, "comment", u, g)
CreateResourceRequest(w) == \E u \in Users, g \in Games : Call(w, "resource", u, g)
DeletePatchRequest(w)    == \E u \in Users, g \in Games : Call(w, "delete", u, g)

\* A moderator approves a comment that waits; the credit is its author's.
ApproveCommentRequest(w) == \E c \in pending : Call(w, "approve", c.user, c.game)

Request(w) ==
  \/ CreatePatchRequest(w) \/ ClaimGalgameRequest(w)
  \/ CreateCommentRequest(w) \/ CreateResourceRequest(w) \/ ApproveCommentRequest(w)
  \/ DeletePatchRequest(w)

(***************************************************************************)
(* Registration: createPatchRow, adoptStub, RegisterClaimedGalgame.        *)
(***************************************************************************)
\* What a handler does next is decided by the row it reads.
NextStep(op, u, row) ==
  CASE op = "create" ->
         IF row = NoPatch THEN "inserting" ELSE IF row.stub THEN "adopting" ELSE "done"
    [] op = "claim" -> IF row = NoPatch THEN "inserting" ELSE "done"
    [] op \in {"comment", "resource"} -> IF row = NoPatch THEN "joining" ELSE "writing"
    [] op = "delete" ->
         IF row # NoPatch /\ (row.owner = u \/ u \in Admins) THEN "deleting" ELSE "done"

ReadPatch(w) ==
  /\ At(w, "reading")
  /\ LET next == NextStep(worker[w].op, worker[w].user, patch[worker[w].game])
     IN  IF next = "done" THEN Over(w) ELSE Goes(w, next)
  /\ UNCHANGED <<patch, contributors, pending, awardVars, purged, era, drift, calls, deaths>>

\* The award's key: moyu:patch_create:<id> or moyu:claim:<id>.
AwardKey(op) == IF op = "claim" THEN "claim" ELSE "patch_create"

\* One transaction: the row, its first contributor and the count.
InsertPatch(w) ==
  LET u == worker[w].user  g == worker[w].game
  IN  /\ At(w, "inserting")
      /\ ~Here(g) /\ u \notin purged
      /\ patch' = [patch EXCEPT ![g] = Row(u, FALSE, 1)]
      /\ contributors' = [contributors EXCEPT ![g] = {u}]
      /\ Send(AwardKey(worker[w].op), g, u)
      /\ Over(w)
      /\ UNCHANGED <<pending, ledger, purged, era, drift, calls, deaths>>

\* The primary key refuses a second row, a foreign key that of nobody: the request fails.
InsertConflicts(w) ==
  /\ At(w, "inserting")
  /\ Here(worker[w].game) \/ worker[w].user \in purged
  /\ Over(w)
  /\ UNCHANGED <<patch, contributors, pending, awardVars, purged, era, drift, calls, deaths>>

\* Mutant: UPDATE ... without the is_stub condition.
AdoptableRow(g) == Here(g)

\* UPDATE ... WHERE is_stub: whoever clears the flag owns the row.
Adoptable(g) == Here(g) /\ patch[g].stub

AdoptStub(w) ==
  LET u == worker[w].user  g == worker[w].game
  IN  /\ At(w, "adopting")
      /\ Adoptable(g) /\ u \notin purged
      /\ patch' = [patch EXCEPT ![g].owner = u, ![g].stub = FALSE,
                     ![g].count = IF u \in contributors[g] THEN @ ELSE @ + 1]
      /\ contributors' = [contributors EXCEPT ![g] = @ \cup {u}]
      /\ Send("patch_create", g, u)
      /\ Over(w)
      /\ UNCHANGED <<pending, ledger, purged, era, drift, calls, deaths>>

AdoptNothing(w) ==
  /\ At(w, "adopting")
  /\ ~Adoptable(worker[w].game) \/ worker[w].user \in purged
  /\ Over(w)
  /\ UNCHANGED <<patch, contributors, pending, awardVars, purged, era, drift, calls, deaths>>

(***************************************************************************)
(* Interaction: a comment or a resource.                                   *)
(***************************************************************************)
\* ensureLocalPatch writes the user's row first, should it be gone.
CreateUser(w) ==
  /\ At(w, "joining")
  /\ purged' = purged \ {worker[w].user}
  /\ Goes(w, "stubbing")
  /\ UNCHANGED <<patch, contributors, pending, awardVars, era, drift, calls, deaths>>

\* Mutant: ON CONFLICT DO UPDATE.
MaterialiseUpsert(w) ==
  LET u == worker[w].user  g == worker[w].game
  IN  /\ At(w, "stubbing")
      /\ patch' = IF Here(g) THEN [patch EXCEPT ![g].owner = u]
                            ELSE [patch EXCEPT ![g] = Row(u, TRUE, 0)]
      /\ Goes(w, "writing")
      /\ UNCHANGED <<contributors, pending, awardVars, purged, era, drift, calls, deaths>>

\* Then INSERT ... ON CONFLICT DO NOTHING.
Materialise(w) ==
  LET u == worker[w].user  g == worker[w].game
  IN  /\ At(w, "stubbing")
      /\ IF Here(g) \/ u \notin purged
           THEN /\ patch' = IF Here(g) THEN patch ELSE [patch EXCEPT ![g] = Row(u, TRUE, 0)]
                /\ Goes(w, "writing")
           ELSE Over(w) /\ UNCHANGED patch
      /\ UNCHANGED <<contributors, pending, awardVars, purged, era, drift, calls, deaths>>

\* The comment or the resource itself; its foreign keys need the patch and the user.
WriteFails(w) ==
  /\ At(w, "writing")
  /\ ~Here(worker[w].game) \/ worker[w].user \in purged
  /\ Over(w)
  /\ UNCHANGED <<patch, contributors, pending, awardVars, purged, era, drift, calls, deaths>>

WriteComment(w) ==
  /\ At(w, "writing") /\ worker[w].op = "comment"
  /\ Here(worker[w].game) /\ worker[w].user \notin purged
  /\ \/ Goes(w, "crediting") /\ UNCHANGED pending
     \/ /\ pending' = pending \cup {[user |-> worker[w].user, game |-> worker[w].game]}
        /\ Over(w)
  /\ UNCHANGED <<patch, contributors, awardVars, purged, era, drift, calls, deaths>>

WriteResource(w) ==
  /\ At(w, "writing") /\ worker[w].op = "resource"
  /\ Here(worker[w].game) /\ worker[w].user \notin purged
  /\ Goes(w, "indexing")
  /\ UNCHANGED <<patch, contributors, pending, awardVars, purged, era, drift, calls, deaths>>

MarkIndexed(w) ==
  LET g == worker[w].game
  IN  /\ At(w, "indexing")
      /\ patch' = IF Here(g)
                    THEN [patch EXCEPT ![g].published = TRUE, ![g].stub = FALSE]
                    ELSE patch
      /\ Goes(w, "crediting")
      /\ UNCHANGED <<contributors, pending, awardVars, purged, era, drift, calls, deaths>>

\* UpdateCommentStatus(id, 0); another admin may have approved it meanwhile.
ApproveComment(w) ==
  /\ At(w, "approving")
  /\ pending' = pending \ {[user |-> worker[w].user, game |-> worker[w].game]}
  /\ Goes(w, "crediting")
  /\ UNCHANGED <<patch, contributors, awardVars, purged, era, drift, calls, deaths>>

(***************************************************************************)
(* EnsureContributor: the relation, then, if it is new, the count.         *)
(***************************************************************************)
\* Mutant: RowsAffected is not looked at.
AddContributorAgain(w) ==
  LET u == worker[w].user  g == worker[w].game
  IN  /\ At(w, "crediting")
      /\ Here(g) /\ u \notin purged
      /\ contributors' = [contributors EXCEPT ![g] = @ \cup {u}]
      /\ worker' = [worker EXCEPT ![w].pc = "counting", ![w].era = era[g]]
      /\ UNCHANGED <<patch, pending, awardVars, purged, era, drift, calls, deaths>>

AddContributor(w) ==
  LET u == worker[w].user  g == worker[w].game
  IN  /\ At(w, "crediting")
      /\ Here(g) /\ u \notin purged /\ u \notin contributors[g]
      /\ contributors' = [contributors EXCEPT ![g] = @ \cup {u}]
      /\ worker' = [worker EXCEPT ![w].pc = "counting", ![w].era = era[g]]
      /\ UNCHANGED <<patch, pending, awardVars, purged, era, drift, calls, deaths>>

\* The relation exists already, or a foreign key of it has no row.
NothingToAdd(w) ==
  LET u == worker[w].user  g == worker[w].game
  IN  /\ At(w, "crediting")
      /\ Here(g) /\ u \notin purged => u \in contributors[g]
      /\ Over(w)
      /\ UNCHANGED <<patch, contributors, pending, awardVars, purged, era, drift, calls, deaths>>

CountContributor(w) ==
  LET g == worker[w].game
  IN  /\ At(w, "counting")
      /\ patch' = IF Here(g) THEN [patch EXCEPT ![g].count = @ + 1] ELSE patch
      /\ drift' = IF Here(g) /\ worker[w].era # era[g] THEN [drift EXCEPT ![g] = @ + 1]
                                                       ELSE drift
      /\ Over(w)
      /\ UNCHANGED <<contributors, pending, awardVars, purged, era, calls, deaths>>

(***************************************************************************)
(* DeletePatch: relations and comments go with the row (ON DELETE CASCADE).*)
(***************************************************************************)
DeletePatch(w) ==
  LET g == worker[w].game
  IN  /\ At(w, "deleting")
      /\ patch' = [patch EXCEPT ![g] = NoPatch]
      /\ contributors' = [contributors EXCEPT ![g] = {}]
      /\ pending' = {c \in pending : c.game # g}
      /\ era' = IF Here(g) THEN [era EXCEPT ![g] = @ + 1] ELSE era
      /\ drift' = [drift EXCEPT ![g] = 0]
      /\ Over(w)
      /\ UNCHANGED <<awardVars, purged, calls, deaths>>

(***************************************************************************)
(* PurgeUser of the administration, one transaction: the rows the user     *)
(* owns go, his relations and comments, with their answers, follow his own *)
(* row, and each patch he left a trace on (comment, resource, relation) is *)
(* counted again.  With the rows of his own kept it is refused if there    *)
(* are any.                                                                *)
(***************************************************************************)
PurgeUser(u) ==
  LET owned == {g \in Games : Here(g) /\ patch[g].owner = u}
      kept  == [g \in Games |-> IF g \in owned THEN {} ELSE contributors[g] \ {u}]
      known == {g \in Games : u \in contributors[g] \/ [user |-> u, game |-> g] \in pending}
  IN  /\ u \notin purged /\ purged' = purged \cup {u}
      /\ calls < MaxCalls /\ calls' = calls + 1
      /\ contributors' = kept
      /\ pending' \in SUBSET {c \in pending : c.user # u /\ c.game \notin owned}
      /\ era' = [g \in Games |-> IF g \in owned THEN era[g] + 1 ELSE era[g]]
      /\ \E traces \in SUBSET {g \in Games : Here(g)} :
           /\ known \subseteq traces
           /\ patch' = [g \in Games |->
                IF g \in owned THEN NoPatch
                ELSE IF g \in traces THEN [patch[g] EXCEPT !.count = Cardinality(kept[g])]
                ELSE patch[g]]
           /\ drift' = [g \in Games |->
                IF g \in owned THEN 0
                ELSE IF g \in traces THEN Cardinality(Counting(g)) ELSE drift[g]]
      /\ UNCHANGED <<worker, awardVars, deaths>>

\* He logs in again, or the claim-event job writes to him.
ComesBack(u) ==
  /\ u \in purged /\ purged' = purged \ {u}
  /\ UNCHANGED <<patch, contributors, pending, worker, awardVars, era, drift, calls, deaths>>

(***************************************************************************)
(* The rest of the world.                                                  *)
(***************************************************************************)
\* The claim-event job unpublishes a banned game (module ClaimSync).
Unpublish(g) ==
  /\ Here(g) /\ patch[g].published
  /\ patch' = [patch EXCEPT ![g].published = FALSE]
  /\ UNCHANGED <<contributors, pending, worker, awardVars, purged, era, drift, calls, deaths>>

\* The ledger applies a key once; the same key for another user is an error.
Delivered(a) ==
  IF \E b \in ledger : b.key = a.key /\ b.game = a.game
    THEN ledger
    ELSE ledger \cup {[key |-> a.key, game |-> a.game, user |-> a.user]}

Deliver(a) ==
  /\ ledger' = Delivered(a)
  /\ sending' = sending \ {a}
  /\ UNCHANGED <<patch, contributors, pending, worker, issued, purged, era, drift, calls, deaths>>

\* Award gives up on any error.
LoseAward(a) ==
  /\ sending' = sending \ {a}
  /\ UNCHANGED <<patch, contributors, pending, worker, issued, ledger, purged, era, drift,
                 calls, deaths>>

\* A statement fails, or the process dies, before the handler's next step.
Die(w) ==
  /\ ~At(w, "idle") /\ deaths < MaxDeaths
  /\ deaths' = deaths + 1
  /\ drift' = [g \in Games |-> IF w \in Counting(g) /\ Here(g) THEN drift[g] - 1 ELSE drift[g]]
  /\ Over(w)
  /\ UNCHANGED <<patch, contributors, pending, awardVars, purged, era, calls>>

-----------------------------------------------------------------------------
Step(w) ==
  \/ ReadPatch(w)
  \/ InsertPatch(w) \/ InsertConflicts(w)
  \/ AdoptStub(w) \/ AdoptNothing(w)
  \/ CreateUser(w) \/ Materialise(w)
  \/ WriteFails(w) \/ WriteComment(w) \/ WriteResource(w)
  \/ MarkIndexed(w) \/ ApproveComment(w)
  \/ AddContributor(w) \/ NothingToAdd(w) \/ CountContributor(w)
  \/ DeletePatch(w)
  \/ Die(w)

Next ==
  \/ \E w \in Workers : Request(w) \/ Step(w)
  \/ \E u \in Users : PurgeUser(u) \/ ComesBack(u)
  \/ \E g \in Games : Unpublish(g)
  \/ \E a \in sending : Deliver(a) \/ LoseAward(a)

Spec == Init /\ [][Next]_vars

-----------------------------------------------------------------------------
(***************************************************************************)
(* Properties.                                                             *)
(***************************************************************************)
Busy == [pc : {"reading", "inserting", "adopting", "joining", "stubbing", "writing", "indexing",
               "approving", "crediting", "counting", "deleting"},
         op : Ops, user : Users, game : Games, era : Nat]
Award == [key : {"patch_create", "claim"}, game : Games, era : Nat, user : Users]

\* Every variable has its type.
TypeOK ==
  /\ patch \in [Games -> PatchRow \cup {NoPatch}]
  /\ contributors \in [Games -> SUBSET Users]
  /\ pending \subseteq [user : Users, game : Games]
  /\ worker \in [Workers -> Busy \cup {Idle}]
  /\ issued \subseteq Award /\ sending \subseteq issued
  /\ ledger \subseteq [key : {"patch_create", "claim"}, game : Games, user : Users]
  /\ era \in [Games -> Nat]
  /\ purged \subseteq Users
  /\ drift \in [Games -> Int]
  /\ calls \in 0 .. MaxCalls /\ deaths \in 0 .. MaxDeaths

\* However creations, claims and adoptions of one game race, one of them wins:
\* a row is registered, and its registrar rewarded, once in its life; and the
\* ledger pays each kind of registration of a game once in all its lives.
RegisteredOnce ==
  /\ \A a, b \in issued : a.game = b.game /\ a.era = b.era => a = b
  /\ \A a, b \in ledger : a.game = b.game /\ a.key = b.key => a = b

\* The user rewarded for registering a row is its owner and a contributor for
\* as long as the row lives: nobody adopts a registered row.
RegistrarOwns ==
  \A a \in issued :
    a.era = era[a.game] =>
      /\ Here(a.game)
      /\ patch[a.game].owner = a.user
      /\ ~patch[a.game].stub
      /\ a.user \in contributors[a.game]

\* contribute_count is the number of contributors, but for the handlers that have inserted
\* a relation and not counted it yet, and for what is known to leave it wrong for good: one
\* that died there is missing, one that counts on a later row of the game is too much, and
\* so is each that was there when a purge counted again.
ContributorsCounted ==
  \A g \in Games :
    Here(g) =>
      patch[g].count + Cardinality(Counting(g)) = Cardinality(contributors[g]) + drift[g]

\* A row changes hands only by the adoption of a stub, and never becomes a
\* stub again.
OwnerChangesByAdoption ==
  [][\A g \in Games :
       Here(g) /\ Here(g)' =>
         /\ patch[g].owner # patch'[g].owner => patch[g].stub /\ ~patch'[g].stub
         /\ patch'[g].stub => patch[g].stub]_vars
=============================================================================
