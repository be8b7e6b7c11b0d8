---------------------------- MODULE CatalogProofs ----------------------------
(***************************************************************************)
(* Proofs about the rows this site keeps of the catalog's works.           *)
(*                                                                         *)
(* PatchRegistry, for any number of handlers, users and games: types, who  *)
(* registers and owns a row, and how contributors are counted.             *)
(*                                                                         *)
(* DisplayReads, for any number of works, runs, readers and minutes: what  *)
(* the mirror's cursor is past is written, what a reader is shown was his to*)
(* see lately, and a settled page is complete.                             *)
(***************************************************************************)
EXTENDS PatchRegistry, DisplayReads, FiniteSetTheorems, FunctionTheorems, TLAPS

\* An approval starts behind the reading of the row.
TInv == TypeOK /\ \A w \in Workers : At(w, "reading") => worker[w].op # "approve"

\* Awards and counters belong to the present or an earlier life of the row.
ErasPast ==
  /\ \A a \in issued : a.era <= era[a.game]
  /\ \A w \in Workers : At(w, "counting") => worker[w].era <= era[worker[w].game]

\* A game without a row has no contributors, nobody counts for it, and nothing is off.
NothingLeft ==
  \A g \in Games : ~Here(g) => contributors[g] = {} /\ Counting(g) = {} /\ drift[g] = 0

Finite == \A g \in Games : IsFiniteSet(contributors[g])

IInv ==
  /\ TInv
  /\ RegisteredOnce
  /\ RegistrarOwns
  /\ ErasPast
  /\ NothingLeft
  /\ Finite
  /\ ContributorsCounted

-----------------------------------------------------------------------------
(***************************************************************************)
(* Types.                                                                  *)
(***************************************************************************)
\* A handler at work has the record of a request.
LEMMA BusyType ==
  ASSUME TypeOK, NEW w \in Workers, ~At(w, "idle")
  PROVE  worker[w] \in Busy
  BY DEF TypeOK, At, Idle

\* A handler that is over, or goes on with the same request.
LEMMA WorkerMoves ==
  ASSUME TInv, NEW w \in Workers,
         \/ Over(w)
         \/ /\ ~At(w, "idle")
            /\ \E pc \in {"inserting", "adopting", "joining", "stubbing", "writing", "indexing",
                          "crediting", "deleting"} : Goes(w, pc)
  PROVE  /\ worker' \in [Workers -> Busy \cup {Idle}]
         /\ worker'[w].pc \notin {"reading", "counting"}
         /\ \A v \in Workers : v # w => worker'[v] = worker[v]
         /\ \A v \in Workers : At(v, "reading")' => worker'[v].op # "approve"
<1>1. CASE Over(w)
  BY <1>1 DEF Over, TInv, TypeOK, Idle, At
<1>2. CASE ~Over(w)
  <2>1. PICK pc \in {"inserting", "adopting", "joining", "stubbing", "writing", "indexing",
                     "crediting", "deleting"} : Goes(w, pc)
    BY <1>2
  <2> DEFINE n == [worker[w] EXCEPT !.pc = pc]
  <2>2. n \in Busy /\ n.pc = pc
    BY <1>2, BusyType DEF TInv, Busy
  <2>3. worker' = [worker EXCEPT ![w] = n]
    BY <2>1 DEF Goes
  <2> HIDE DEF n
  <2> QED BY <2>2, <2>3 DEF TInv, TypeOK, At
<1> QED BY <1>1, <1>2

\* A row with one of its fields written is a row, and the others stay.
LEMMA RowWritten ==
  ASSUME NEW r \in PatchRow, NEW u \in Users, NEW n \in Nat
  PROVE  /\ [r EXCEPT !.published = TRUE, !.stub = FALSE] \in PatchRow
         /\ [r EXCEPT !.published = FALSE] \in PatchRow
         /\ [r EXCEPT !.count = n] \in PatchRow
         /\ [r EXCEPT !.owner = u, !.stub = FALSE, !.count = n] \in PatchRow
  BY DEF PatchRow

\* The rows of other games are left alone by every write.
LEMMA Rewritten ==
  ASSUME TypeOK, NEW g \in Games, NEW r \in PatchRow \cup {NoPatch},
         patch' = [patch EXCEPT ![g] = r]
  PROVE  /\ patch' \in [Games -> PatchRow \cup {NoPatch}]
         /\ patch'[g] = r /\ \A h \in Games : h # g => patch'[h] = patch[h]
  BY DEF TypeOK

\* A row that is there is a row.
LEMMA HereRow ==
  ASSUME TypeOK, NEW g \in Games, Here(g)
  PROVE  patch[g] \in PatchRow
  BY DEF TypeOK, Here

\* What is sent is an award of the row's present life.
LEMMA SendType ==
  ASSUME TypeOK, NEW key \in {"patch_create", "claim"}, NEW g \in Games, NEW u \in Users,
         Send(key, g, u)
  PROVE  issued' \subseteq Award /\ sending' \subseteq issued'
  BY DEF TypeOK, Send, Award

-----------------------------------------------------------------------------
(***************************************************************************)
(* Steps that neither register nor count.                                  *)
(***************************************************************************)
\* Whoever counts goes on counting while somebody else, who does not, moves.
LEMMA CountersStay ==
  ASSUME NEW w \in Workers, ~At(w, "counting"), worker'[w].pc # "counting",
         \A v \in Workers : v # w => worker'[v] = worker[v], era' = era
  PROVE  /\ \A g \in Games : Counting(g)' = Counting(g)
         /\ ErasPast /\ issued' = issued => ErasPast'
<1>1. \A v \in Workers : At(v, "counting")' <=> At(v, "counting")
  BY DEF At
<1>2. \A v \in Workers : At(v, "counting") => worker'[v] = worker[v]
  OBVIOUS
<1>3. ASSUME NEW g \in Games PROVE Counting(g)' = Counting(g)
  BY <1>1, <1>2 DEF Counting
<1>4. ErasPast /\ issued' = issued => ErasPast'
  BY <1>1, <1>2 DEF ErasPast
<1> QED BY <1>3, <1>4

\* A row that is there keeps its owner, its count and, if it was none, is no stub.
RowsStay ==
  \A g \in Games :
    /\ Here(g)' <=> Here(g)
    /\ Here(g) => /\ patch'[g].owner = patch[g].owner
                  /\ patch'[g].count = patch[g].count
                  /\ patch'[g].stub => patch[g].stub

\* A bystander neither registers nor credits nor counts.
LEMMA Bystander ==
  ASSUME IInv, TInv', RowsStay, UNCHANGED <<contributors, issued, era, drift>>,
         RegisteredOnce', ErasPast', \A g \in Games : Counting(g)' = Counting(g)
  PROVE  IInv'
<1>1. RegistrarOwns'
  BY DEF IInv, RegistrarOwns, RowsStay, TInv, TypeOK, Award
<1>2. NothingLeft' /\ Finite'
  BY DEF IInv, NothingLeft, Finite, RowsStay
<1>3. ContributorsCounted'
  BY DEF IInv, ContributorsCounted, RowsStay
<1> QED BY <1>1, <1>2, <1>3 DEF IInv

\* The same, for a handler's step.
LEMMA QuietStep ==
  ASSUME IInv, NEW w \in Workers, ~At(w, "counting"),
         \/ Over(w)
         \/ /\ ~At(w, "idle")
            /\ \E pc \in {"inserting", "adopting", "joining", "stubbing", "writing", "indexing",
                          "crediting", "deleting"} : Goes(w, pc),
         patch' \in [Games -> PatchRow \cup {NoPatch}], RowsStay,
         pending' \subseteq [user : Users, game : Games], purged' \subseteq Users,
         UNCHANGED <<contributors, awardVars, era, drift, calls, deaths>>
  PROVE  IInv'
<1>1. UNCHANGED <<issued, sending, ledger>>
  BY DEF awardVars
<1>2. TInv'
  BY <1>1, WorkerMoves DEF IInv, TInv, TypeOK
<1>3. ErasPast' /\ \A g \in Games : Counting(g)' = Counting(g)
  BY <1>1, WorkerMoves, CountersStay DEF IInv
<1>4. RegisteredOnce'
  BY <1>1 DEF IInv, RegisteredOnce
<1> QED BY <1>1, <1>2, <1>3, <1>4, Bystander

\* Rows that nobody wrote have stayed.
LEMMA SamePatch ==
  ASSUME patch' = patch
  PROVE  RowsStay
  BY DEF RowsStay, Here

\* Handlers that read, fail, write a comment or a resource, or find nothing to do.
LEMMA IdleStep ==
  ASSUME IInv, NEW w \in Workers,
         \/ ReadPatch(w) \/ InsertConflicts(w) \/ AdoptNothing(w) \/ CreateUser(w) \/ WriteFails(w)
         \/ WriteComment(w) \/ WriteResource(w) \/ ApproveComment(w) \/ NothingToAdd(w)
  PROVE  IInv'
<1>1. patch' = patch /\ RowsStay /\ patch' \in [Games -> PatchRow \cup {NoPatch}]
  BY SamePatch DEF IInv, TInv, TypeOK, ReadPatch, InsertConflicts, AdoptNothing, CreateUser, WriteFails,
     WriteComment, WriteResource, ApproveComment, NothingToAdd
<1>2. ~At(w, "idle") /\ ~At(w, "counting")
  BY DEF ReadPatch, InsertConflicts, AdoptNothing, CreateUser, WriteFails, WriteComment, WriteResource,
     ApproveComment, NothingToAdd, At
<1>3. worker[w] \in Busy
  BY <1>2, BusyType DEF IInv, TInv
<1>4. /\ pending' \subseteq [user : Users, game : Games] /\ purged' \subseteq Users
      /\ UNCHANGED <<contributors, awardVars, era, drift, calls, deaths>>
  BY <1>3 DEF IInv, TInv, TypeOK, Busy, ReadPatch, InsertConflicts, AdoptNothing, CreateUser, WriteFails,
     WriteComment, WriteResource, ApproveComment, NothingToAdd
<1>5. \/ Over(w)
      \/ \E pc \in {"inserting", "adopting", "joining", "stubbing", "writing", "indexing",
                    "crediting", "deleting"} : Goes(w, pc)
  <2>1. CASE ReadPatch(w)
    <3> DEFINE next == NextStep(worker[w].op, worker[w].user, patch[worker[w].game])
    <3>1. worker[w].op \in Ops /\ worker[w].op # "approve"
      BY <1>3, <2>1 DEF Busy, IInv, TInv, ReadPatch
    <3>2. next \in {"inserting", "adopting", "joining", "writing", "deleting", "done"}
      BY <3>1 DEF NextStep, Ops
    <3>3. IF next = "done" THEN Over(w) ELSE Goes(w, next)
      BY <2>1 DEF ReadPatch
    <3> HIDE DEF next
    <3> QED BY <3>2, <3>3
  <2>2. CASE ~ReadPatch(w)
    BY <2>2 DEF InsertConflicts, AdoptNothing, CreateUser, WriteFails, WriteComment, WriteResource,
       ApproveComment, NothingToAdd
  <2> QED BY <2>1, <2>2
<1> QED BY <1>1, <1>2, <1>4, <1>5, QuietStep

\* The first resource publishes the row, and it is no stub any more.
LEMMA MarkIndexedStep ==
  ASSUME IInv, NEW w \in Workers, MarkIndexed(w)
  PROVE  IInv'
<1> DEFINE g == worker[w].game
<1>1. ~At(w, "idle") /\ ~At(w, "counting") /\ g \in Games
  BY BusyType DEF MarkIndexed, At, IInv, TInv, Busy
<1>2. patch' \in [Games -> PatchRow \cup {NoPatch}] /\ RowsStay
  <2>1. CASE ~Here(g)
    BY <2>1, SamePatch DEF MarkIndexed, IInv, TInv, TypeOK
  <2>2. CASE Here(g)
    <3> DEFINE r == [patch[g] EXCEPT !.published = TRUE, !.stub = FALSE]
    <3>1. patch[g] \in PatchRow
      BY <1>1, <2>2, HereRow DEF IInv, TInv
    <3>2. r \in PatchRow /\ r.owner = patch[g].owner /\ r.count = patch[g].count /\ ~r.stub
      BY <3>1 DEF PatchRow
    <3>3. patch' = [patch EXCEPT ![g] = r]
      BY <2>2 DEF MarkIndexed
    <3> HIDE DEF r
    <3>4. /\ patch' \in [Games -> PatchRow \cup {NoPatch}]
          /\ patch'[g] = r /\ \A h \in Games : h # g => patch'[h] = patch[h]
      BY <1>1, <3>2, <3>3, Rewritten DEF IInv, TInv
    <3> QED BY <2>2, <3>2, <3>4, NoPatchAssumption DEF RowsStay, Here
  <2> QED BY <2>1, <2>2
<1> QED BY <1>1, <1>2, QuietStep DEF MarkIndexed, IInv, TInv, TypeOK

\* Every handler hands a request of the types to the service.
LEMMA RequestCalls ==
  ASSUME TypeOK, NEW w \in Workers, Request(w)
  PROVE  \E op \in Ops, u \in Users, g \in Games : Call(w, op, u, g)
<1>1. \A op \in {"create", "claim", "comment", "resource", "delete", "approve"} : op \in Ops
  BY DEF Ops
<1>2. CASE ApproveCommentRequest(w)
  <2>1. PICK c \in pending : Call(w, "approve", c.user, c.game)
    BY <1>2 DEF ApproveCommentRequest
  <2>2. c.user \in Users /\ c.game \in Games
    BY <2>1 DEF TypeOK
  <2> QED BY <1>1, <2>1, <2>2
<1> QED
  BY <1>1, <1>2 DEF Request, CreatePatchRequest, ClaimGalgameRequest, CreateCommentRequest,
                    CreateResourceRequest, DeletePatchRequest

\* A request arrives.
LEMMA CallStep ==
  ASSUME IInv, NEW w \in Workers, NEW op \in Ops, NEW u \in Users, NEW g \in Games,
         Call(w, op, u, g)
  PROVE  IInv'
<1> DEFINE n == [pc |-> IF op = "approve" THEN "approving" ELSE "reading",
                 op |-> op, user |-> u, game |-> g, era |-> era[g]]
<1>1. /\ n \in Busy /\ n.pc \in {"approving", "reading"} /\ n.op = op
      /\ n.pc = "reading" => op # "approve"
  BY DEF IInv, TInv, TypeOK, Busy
<1>2. /\ worker' = [worker EXCEPT ![w] = n] /\ calls' \in 0 .. MaxCalls
      /\ UNCHANGED <<patch, contributors, pending, issued, sending, ledger, purged, era, drift,
                     deaths>>
  BY BoundsAssumption DEF Call, awardVars, IInv, TInv, TypeOK
<1> HIDE DEF n
<1>3. /\ worker' \in [Workers -> Busy \cup {Idle}] /\ worker'[w] = n
      /\ \A v \in Workers : v # w => worker'[v] = worker[v]
  BY <1>1, <1>2 DEF IInv, TInv, TypeOK
<1>4. TInv'
  BY <1>1, <1>2, <1>3 DEF IInv, TInv, TypeOK, At
<1>5. ErasPast' /\ \A h \in Games : Counting(h)' = Counting(h)
  BY <1>1, <1>2, <1>3, CountersStay DEF IInv, Call, At
<1>6. RegisteredOnce' /\ RowsStay
  BY <1>2, SamePatch DEF IInv, RegisteredOnce
<1> QED BY <1>2, <1>4, <1>5, <1>6, Bystander

\* A purged user's row is written again.
LEMMA ComesBackStep ==
  ASSUME IInv, NEW u \in Users, ComesBack(u)
  PROVE  IInv'
<1>1. UNCHANGED <<patch, contributors, pending, worker, issued, sending, ledger, era, drift,
                  calls, deaths>> /\ purged' \subseteq purged
  BY DEF ComesBack, awardVars
<1>2. TInv' /\ RegisteredOnce' /\ ErasPast' /\ \A h \in Games : Counting(h)' = Counting(h)
  BY <1>1 DEF IInv, TInv, TypeOK, RegisteredOnce, ErasPast, Counting, At
<1> QED BY <1>1, <1>2, SamePatch, Bystander

\* The rest of the world: a ban, an award that arrives, one that is lost.
LEMMA WorldStep ==
  ASSUME IInv, \/ \E g \in Games : Unpublish(g)
               \/ \E a \in sending : Deliver(a) \/ LoseAward(a)
  PROVE  IInv'
<1>1. /\ worker' = worker /\ era' = era /\ issued' = issued
      /\ UNCHANGED <<contributors, pending, purged, drift, calls, deaths>>
  BY DEF Unpublish, Deliver, LoseAward, awardVars
<1>2. ErasPast' /\ \A h \in Games : Counting(h)' = Counting(h)
  BY <1>1 DEF IInv, ErasPast, Counting, At
<1>3. CASE \E g \in Games : Unpublish(g)
  <2>1. PICK g \in Games : Unpublish(g)
    BY <1>3
  <2> DEFINE r == [patch[g] EXCEPT !.published = FALSE]
  <2>2. patch[g] \in PatchRow
    BY <2>1, HereRow DEF Unpublish, IInv, TInv
  <2>3. r \in PatchRow /\ r.owner = patch[g].owner /\ r.count = patch[g].count
        /\ r.stub = patch[g].stub
    BY <2>2 DEF PatchRow
  <2>4. patch' = [patch EXCEPT ![g] = r]
    BY <2>1 DEF Unpublish
  <2> HIDE DEF r
  <2>5. /\ patch' \in [Games -> PatchRow \cup {NoPatch}]
        /\ patch'[g] = r /\ \A h \in Games : h # g => patch'[h] = patch[h]
    BY <2>3, <2>4, Rewritten DEF IInv, TInv
  <2>6. RowsStay
    BY <2>1, <2>3, <2>5, NoPatchAssumption DEF RowsStay, Here, Unpublish
  <2>7. TInv' /\ RegisteredOnce'
    BY <1>1, <2>1, <2>5 DEF IInv, TInv, TypeOK, RegisteredOnce, Unpublish, awardVars, At
  <2> QED BY <1>1, <1>2, <2>6, <2>7, Bystander
<1>4. CASE \E a \in sending : Deliver(a) \/ LoseAward(a)
  <2>1. PICK a \in sending : Deliver(a) \/ LoseAward(a)
    BY <1>4
  <2>2. patch' = patch /\ RowsStay
    BY <2>1, SamePatch DEF Deliver, LoseAward
  <2>3. a \in Award /\ a \in issued
    BY DEF IInv, TInv, TypeOK
  <2>4. ledger' = ledger \/ (/\ ~\E b \in ledger : b.key = a.key /\ b.game = a.game
                            /\ ledger' = ledger \cup
                                 {[key |-> a.key, game |-> a.game, user |-> a.user]})
    BY <2>1 DEF Deliver, LoseAward, Delivered
  <2>5. RegisteredOnce'
    <3>1. \A b, c \in issued' : b.game = c.game /\ b.era = c.era => b = c
      BY <1>1 DEF IInv, RegisteredOnce
    <3>2. \A b, c \in ledger' : b.game = c.game /\ b.key = c.key => b = c
      BY <2>4 DEF IInv, RegisteredOnce
    <3> QED BY <3>1, <3>2 DEF RegisteredOnce
  <2>6. ledger' \subseteq [key : {"patch_create", "claim"}, game : Games, user : Users]
    BY <2>3, <2>4 DEF IInv, TInv, TypeOK, Award
  <2>7. TInv'
    BY <1>1, <2>1, <2>2, <2>6 DEF IInv, TInv, TypeOK, Deliver, LoseAward, At
  <2> QED BY <1>1, <1>2, <2>2, <2>5, <2>7, Bystander
<1> QED BY <1>3, <1>4

-----------------------------------------------------------------------------
(***************************************************************************)
(* Registration.                                                           *)
(***************************************************************************)
\* A game that is not registered in this life gets its one award of this life.
LEMMA OneMoreAward ==
  ASSUME IInv, NEW key, NEW g \in Games, NEW u, Send(key, g, u), ledger' = ledger,
         \A a \in issued : a.game = g => a.era # era[g]
  PROVE  RegisteredOnce'
<1> DEFINE n == [key |-> key, game |-> g, era |-> era[g], user |-> u]
<1>1. issued' = issued \cup {n} /\ n.game = g /\ n.era = era[g]
  BY DEF Send
<1> HIDE DEF n
<1>2. \A a, b \in issued' : a.game = b.game /\ a.era = b.era => a = b
  BY <1>1 DEF IInv, RegisteredOnce
<1>3. \A a, b \in ledger' : a.game = b.game /\ a.key = b.key => a = b
  BY DEF IInv, RegisteredOnce
<1> QED BY <1>2, <1>3 DEF RegisteredOnce

\* A row was registered for u in this life, if u owns it, it is no stub, and u is
\* credited.
LEMMA RegistrarIs ==
  ASSUME IInv, NEW key, NEW g \in Games, NEW u \in Users, Send(key, g, u), era' = era,
         Here(g)', patch'[g].owner = u, ~patch'[g].stub, u \in contributors'[g],
         \A h \in Games : h # g => patch'[h] = patch[h] /\ contributors'[h] = contributors[h],
         \A a \in issued : a.game = g => a.era # era[g]
  PROVE  RegistrarOwns'
<1> DEFINE n == [key |-> key, game |-> g, era |-> era[g], user |-> u]
<1>1. issued' = issued \cup {n} /\ n.game = g /\ n.user = u
  BY DEF Send
<1> HIDE DEF n
<1>2. SUFFICES ASSUME NEW a \in issued', a.era = era[a.game]
               PROVE  /\ Here(a.game)' /\ patch'[a.game].owner = a.user
                      /\ ~patch'[a.game].stub /\ a.user \in contributors'[a.game]
  BY DEF RegistrarOwns
<1>3. CASE a = n
  BY <1>1, <1>3
<1>4. CASE a # n
  <2>1. a \in issued /\ a.game \in Games /\ a.game # g
    BY <1>1, <1>2, <1>4 DEF IInv, TInv, TypeOK, Award
  <2> QED BY <1>2, <2>1 DEF IInv, RegistrarOwns, Here
<1> QED BY <1>3, <1>4

\* Whoever registers a game that nobody has registered in this life: the row is
\* theirs, they are credited, and the count is right.
LEMMA Registers ==
  ASSUME IInv, NEW w \in Workers, NEW key \in {"patch_create", "claim"},
         NEW g \in Games, NEW u \in Users, NEW r \in PatchRow, NEW S \in SUBSET Users,
         r.owner = u, ~r.stub, u \in S, IsFiniteSet(S),
         r.count + Cardinality(Counting(g)) = Cardinality(S) + drift[g],
         \A a \in issued : a.game = g => a.era # era[g],
         patch' = [patch EXCEPT ![g] = r], contributors' = [contributors EXCEPT ![g] = S],
         Send(key, g, u), Over(w), ~At(w, "counting"),
         UNCHANGED <<pending, ledger, purged, era, drift, calls, deaths>>
  PROVE  IInv'
<1>1. /\ patch' \in [Games -> PatchRow \cup {NoPatch}]
      /\ patch'[g] = r /\ \A h \in Games : h # g => patch'[h] = patch[h]
  BY Rewritten DEF IInv, TInv
<1>2. /\ contributors' \in [Games -> SUBSET Users] /\ contributors'[g] = S
      /\ \A h \in Games : h # g => contributors'[h] = contributors[h]
  BY DEF IInv, TInv, TypeOK
<1>3. Here(g)' /\ \A h \in Games : h # g => (Here(h)' <=> Here(h))
  BY <1>1, NoPatchAssumption DEF Here
<1>4. /\ worker' \in [Workers -> Busy \cup {Idle}]
      /\ worker'[w].pc \notin {"reading", "counting"}
      /\ \A v \in Workers : v # w => worker'[v] = worker[v]
      /\ \A v \in Workers : At(v, "reading")' => worker'[v].op # "approve"
  BY WorkerMoves DEF IInv
<1>5. issued' \subseteq Award /\ sending' \subseteq issued'
  BY SendType DEF IInv, TInv
<1>6. TInv'
  BY <1>1, <1>2, <1>4, <1>5 DEF IInv, TInv, TypeOK
<1>7. \A h \in Games : Counting(h)' = Counting(h)
  BY <1>4, CountersStay
<1>8. RegisteredOnce'
  BY OneMoreAward
<1>9. RegistrarOwns'
  BY <1>1, <1>2, <1>3, RegistrarIs
<1>10. ErasPast'
  <2> DEFINE n == [key |-> key, game |-> g, era |-> era[g], user |-> u]
  <2>1. issued' = issued \cup {n} /\ n.game = g /\ n.era = era[g] /\ era[g] \in Nat
    BY DEF Send, IInv, TInv, TypeOK
  <2> HIDE DEF n
  <2>2. \A a \in issued' : a.era <= era'[a.game]
    BY <2>1 DEF IInv, ErasPast
  <2>3. \A v \in Workers : At(v, "counting")' => At(v, "counting") /\ worker'[v] = worker[v]
    BY <1>4 DEF At
  <2> QED BY <2>2, <2>3 DEF IInv, ErasPast
<1>11. NothingLeft' /\ Finite'
  BY <1>2, <1>3, <1>7 DEF IInv, NothingLeft, Finite
<1>12. ContributorsCounted'
  BY <1>1, <1>2, <1>3, <1>7 DEF IInv, ContributorsCounted
<1> QED BY <1>6, <1>8, <1>9, <1>10, <1>11, <1>12 DEF IInv

\* One transaction registers a game that has no row.
LEMMA InsertStep ==
  ASSUME IInv, NEW w \in Workers, InsertPatch(w)
  PROVE  IInv'
<1>1. worker[w] \in Busy
  BY BusyType DEF IInv, TInv, InsertPatch, At
<1>2. PICK u \in Users, g \in Games, key \in {"patch_create", "claim"} :
        u = worker[w].user /\ g = worker[w].game /\ key = AwardKey(worker[w].op)
  BY <1>1 DEF Busy, AwardKey
<1>3. PICK r : r = Row(u, FALSE, 1)
  OBVIOUS
<1>4. r \in PatchRow /\ r.owner = u /\ ~r.stub /\ r.count = 1
  BY <1>3 DEF Row, PatchRow
<1>5. /\ patch' = [patch EXCEPT ![g] = r] /\ contributors' = [contributors EXCEPT ![g] = {u}]
      /\ Send(key, g, u) /\ Over(w) /\ ~At(w, "counting") /\ ~Here(g)
      /\ UNCHANGED <<pending, ledger, purged, era, drift, calls, deaths>>
  BY <1>2, <1>3 DEF InsertPatch, At
<1>6. \A a \in issued : a.game = g => a.era # era[g]
  BY <1>5 DEF IInv, RegistrarOwns
<1>7. /\ IsFiniteSet({u}) /\ Cardinality({u}) = 1
      /\ Cardinality(Counting(g)) = 0 /\ drift[g] = 0
  BY <1>5, FS_Singleton, FS_EmptySet DEF IInv, NothingLeft
<1>8. PICK S \in SUBSET Users : S = {u}
  OBVIOUS
<1>9. r.count + Cardinality(Counting(g)) = Cardinality(S) + drift[g] /\ u \in S /\ IsFiniteSet(S)
  BY <1>4, <1>7, <1>8
<1>10. contributors' = [contributors EXCEPT ![g] = S]
  BY <1>5, <1>8
<1> QED BY <1>4, <1>5, <1>6, <1>9, <1>10, Registers

\* A stub is adopted; whoever was credited on it before is counted already.
LEMMA AdoptStubStep ==
  ASSUME IInv, NEW w \in Workers, AdoptStub(w)
  PROVE  IInv'
<1>1. worker[w] \in Busy
  BY BusyType DEF IInv, TInv, AdoptStub, At
<1>2. PICK u \in Users, g \in Games : u = worker[w].user /\ g = worker[w].game
  BY <1>1 DEF Busy
<1>3. /\ Here(g) /\ patch[g].stub /\ patch[g] \in PatchRow
      /\ contributors[g] \in SUBSET Users
  BY <1>2, HereRow DEF AdoptStub, Adoptable, IInv, TInv, TypeOK
<1>4. PICK m : m = IF u \in contributors[g] THEN patch[g].count ELSE patch[g].count + 1
  OBVIOUS
<1>5. PICK r : r = [patch[g] EXCEPT !.owner = u, !.stub = FALSE, !.count = m]
  OBVIOUS
<1>6. m \in Nat
  BY <1>3, <1>4 DEF PatchRow
<1>7. r \in PatchRow /\ r.owner = u /\ ~r.stub /\ r.count = m
  BY <1>3, <1>5, <1>6 DEF PatchRow
<1>8. PICK S : S = contributors[g] \cup {u}
  OBVIOUS
<1>9. /\ patch' = [patch EXCEPT ![g] = r] /\ contributors' = [contributors EXCEPT ![g] = S]
      /\ Send("patch_create", g, u) /\ Over(w) /\ ~At(w, "counting")
      /\ UNCHANGED <<pending, ledger, purged, era, drift, calls, deaths>>
  BY <1>2, <1>4, <1>5, <1>8 DEF AdoptStub, At
<1>10. \A a \in issued : a.game = g => a.era # era[g]
  BY <1>3 DEF IInv, RegistrarOwns
<1>11. /\ S \in SUBSET Users /\ u \in S /\ IsFiniteSet(S)
       /\ Cardinality(S) = IF u \in contributors[g] THEN Cardinality(contributors[g])
                                                    ELSE Cardinality(contributors[g]) + 1
  BY <1>3, <1>8, FS_AddElement DEF IInv, Finite
<1>12. Cardinality(Counting(g)) \in Nat /\ Cardinality(contributors[g]) \in Nat
  BY GamesAssumption, FS_Subset, FS_CardinalityType DEF Counting, IInv, Finite
<1>13. r.count + Cardinality(Counting(g)) = Cardinality(S) + drift[g]
  <2>1. patch[g].count \in Nat /\ drift[g] \in Int
    BY <1>3 DEF PatchRow, IInv, TInv, TypeOK
  <2>2. patch[g].count + Cardinality(Counting(g)) = Cardinality(contributors[g]) + drift[g]
    BY <1>3 DEF IInv, ContributorsCounted
  <2> QED BY <1>4, <1>7, <1>11, <1>12, <2>1, <2>2
<1> QED BY <1>7, <1>9, <1>10, <1>11, <1>13, Registers

-----------------------------------------------------------------------------
(***************************************************************************)
(* Stubs, credit, deletion and death.                                      *)
(***************************************************************************)
\* A handler that is over counts no more; the others go on.
LEMMA OverCounts ==
  ASSUME TInv, NEW w \in Workers, Over(w)
  PROVE  /\ \A v \in Workers : v # w => worker'[v] = worker[v]
         /\ \A v \in Workers : At(v, "counting")' => v # w /\ At(v, "counting")
         /\ era' = era => \A g \in Games : Counting(g)' = Counting(g) \ {w}
<1>1. /\ worker'[w].pc \notin {"reading", "counting"}
      /\ \A v \in Workers : v # w => worker'[v] = worker[v]
  BY WorkerMoves
<1>2. \A v \in Workers : At(v, "counting")' => v # w /\ At(v, "counting")
  BY <1>1 DEF At
<1>3. ASSUME era' = era, NEW g \in Games
      PROVE  Counting(g)' = Counting(g) \ {w}
  BY <1>1, <1>2, <1>3 DEF Counting, At
<1> QED BY <1>1, <1>2, <1>3

\* Materialising leaves a row alone; where there is none nobody is credited yet.
LEMMA MaterialiseStep ==
  ASSUME IInv, NEW w \in Workers, Materialise(w)
  PROVE  IInv'
<1>1. worker[w] \in Busy /\ ~At(w, "counting") /\ ~At(w, "idle")
  BY BusyType DEF IInv, TInv, Materialise, At
<1>2. PICK u \in Users, g \in Games : u = worker[w].user /\ g = worker[w].game
  BY <1>1 DEF Busy
<1>3. UNCHANGED <<contributors, pending, awardVars, purged, era, drift, calls, deaths>>
  BY DEF Materialise
<1>4. CASE Here(g) \/ u \in purged
  <2>1. patch' = patch /\ (Over(w) \/ Goes(w, "writing"))
    BY <1>2, <1>4 DEF Materialise
  <2> QED BY <1>1, <1>3, <2>1, SamePatch, QuietStep DEF IInv, TInv, TypeOK
<1>5. CASE ~Here(g) /\ u \notin purged
  <2>0. Goes(w, "writing")
    BY <1>2, <1>5 DEF Materialise
  <2>1. PICK r : r = Row(u, TRUE, 0)
    OBVIOUS
  <2>2. r \in PatchRow /\ r.count = 0
    BY <2>1 DEF Row, PatchRow
  <2>3. patch' = [patch EXCEPT ![g] = r]
    BY <1>2, <1>5, <2>1 DEF Materialise
  <2>4. /\ patch' \in [Games -> PatchRow \cup {NoPatch}]
        /\ patch'[g] = r /\ \A h \in Games : h # g => patch'[h] = patch[h]
    BY <2>2, <2>3, Rewritten DEF IInv, TInv
  <2>5. /\ worker' \in [Workers -> Busy \cup {Idle}]
        /\ worker'[w].pc \notin {"reading", "counting"}
        /\ \A v \in Workers : v # w => worker'[v] = worker[v]
        /\ \A v \in Workers : At(v, "reading")' => worker'[v].op # "approve"
    BY <1>1, <2>0, WorkerMoves DEF IInv
  <2>6. issued' = issued /\ sending' = sending /\ ledger' = ledger
    BY <1>3 DEF awardVars
  <2>7. TInv'
    BY <1>3, <2>4, <2>5, <2>6 DEF IInv, TInv, TypeOK
  <2>8. ErasPast' /\ \A h \in Games : Counting(h)' = Counting(h)
    BY <1>1, <1>3, <2>5, <2>6, CountersStay DEF IInv
  <2>9. RegisteredOnce'
    BY <2>6 DEF IInv, RegisteredOnce
  <2>10. RegistrarOwns'
    <3>1. \A a \in issued : a.era = era[a.game] => a.game \in Games /\ a.game # g
      BY <1>5 DEF IInv, RegistrarOwns, TInv, TypeOK, Award
    <3> QED BY <1>3, <2>4, <2>6, <3>1 DEF IInv, RegistrarOwns, Here
  <2>11. NothingLeft' /\ Finite'
    BY <1>3, <1>5, <2>4, <2>8 DEF IInv, NothingLeft, Finite, Here
  <2>12. ContributorsCounted'
    <3>1. Counting(g) = {} /\ contributors[g] = {} /\ drift[g] = 0
      BY <1>5 DEF IInv, NothingLeft
    <3>2. r.count + Cardinality(Counting(g)) = Cardinality(contributors[g]) + drift[g]
      BY <2>2, <3>1, FS_EmptySet
    <3> QED BY <1>3, <2>4, <2>8, <3>2 DEF IInv, ContributorsCounted, Here
  <2> QED BY <2>7, <2>8, <2>9, <2>10, <2>11, <2>12 DEF IInv
<1> QED BY <1>4, <1>5

\* A new contributor is to be counted by the handler that added the relation.
LEMMA AddContributorStep ==
  ASSUME IInv, NEW w \in Workers, AddContributor(w)
  PROVE  IInv'
<1>1. worker[w] \in Busy /\ ~At(w, "counting")
  BY BusyType DEF IInv, TInv, AddContributor, At
<1>2. PICK u \in Users, g \in Games : u = worker[w].user /\ g = worker[w].game
  BY <1>1 DEF Busy
<1>3. PICK n : n = [worker[w] EXCEPT !.pc = "counting", !.era = era[g]]
  OBVIOUS
<1>4. era[g] \in Nat /\ contributors[g] \in SUBSET Users /\ IsFiniteSet(contributors[g])
  BY DEF IInv, TInv, TypeOK, Finite
<1>5. n \in Busy /\ n.pc = "counting" /\ n.game = g /\ n.era = era[g]
  BY <1>1, <1>2, <1>3, <1>4 DEF Busy
<1>6. PICK S : S = contributors[g] \cup {u}
  OBVIOUS
<1>7. /\ worker' = [worker EXCEPT ![w] = n] /\ contributors' = [contributors EXCEPT ![g] = S]
      /\ Here(g) /\ u \notin contributors[g]
      /\ UNCHANGED <<patch, pending, issued, sending, ledger, purged, era, drift, calls, deaths>>
  BY <1>2, <1>3, <1>6 DEF AddContributor, awardVars
<1>8. /\ S \in SUBSET Users /\ IsFiniteSet(S)
      /\ Cardinality(S) = Cardinality(contributors[g]) + 1 /\ contributors[g] \subseteq S
  BY <1>4, <1>6, <1>7, FS_AddElement
<1>9. /\ contributors' \in [Games -> SUBSET Users] /\ contributors'[g] = S
      /\ \A h \in Games : h # g => contributors'[h] = contributors[h]
  BY <1>7, <1>8 DEF IInv, TInv, TypeOK
<1>10. /\ worker' \in [Workers -> Busy \cup {Idle}] /\ worker'[w] = n
       /\ \A v \in Workers : v # w => worker'[v] = worker[v]
  BY <1>5, <1>7 DEF IInv, TInv, TypeOK
<1>11. TInv'
  BY <1>5, <1>7, <1>9, <1>10 DEF IInv, TInv, TypeOK, At
<1>12. ErasPast'
  BY <1>4, <1>5, <1>7, <1>10 DEF IInv, ErasPast, At
<1>13. RegisteredOnce' /\ RegistrarOwns'
  <2>1. \A a \in issued : a.game \in Games
    BY DEF IInv, TInv, TypeOK, Award
  <2> QED BY <1>7, <1>8, <1>9, <2>1 DEF IInv, RegisteredOnce, RegistrarOwns, Here
<1>14. ASSUME NEW h \in Games, h # g PROVE Counting(h)' = Counting(h)
  BY <1>1, <1>2, <1>5, <1>7, <1>10, <1>14 DEF Counting, At
<1>15. Counting(g)' = Counting(g) \cup {w} /\ w \notin Counting(g)
  BY <1>1, <1>5, <1>7, <1>10 DEF Counting, At
<1>16. NothingLeft' /\ Finite'
  BY <1>7, <1>8, <1>9, <1>14 DEF IInv, NothingLeft, Finite, Here
<1>17. ContributorsCounted'
  <2>1. IsFiniteSet(Counting(g))
    BY GamesAssumption, FS_Subset DEF Counting
  <2>2. PICK C : C = Counting(g)
    OBVIOUS
  <2>3. PICK D : D = C \cup {w}
    OBVIOUS
  <2>4. Cardinality(D) = Cardinality(C) + 1 /\ Cardinality(C) \in Nat
    BY <1>15, <2>1, <2>2, <2>3, FS_AddElement, FS_CardinalityType
  <2>5. patch[g].count + Cardinality(C) = Cardinality(contributors[g]) + drift[g]
    BY <1>7, <2>2 DEF IInv, ContributorsCounted
  <2>6. patch[g].count \in Nat /\ Cardinality(contributors[g]) \in Nat /\ drift[g] \in Int
    BY <1>4, <1>7, HereRow, FS_CardinalityType DEF IInv, TInv, TypeOK, PatchRow
  <2>7. patch[g].count + Cardinality(D) = Cardinality(S) + drift[g]
    BY <1>8, <2>4, <2>5, <2>6
  <2>8. Counting(g)' = D
    BY <1>15, <2>2, <2>3
  <2>9. ASSUME NEW h \in Games, Here(h)'
        PROVE  patch'[h].count + Cardinality(Counting(h)')
                 = Cardinality(contributors'[h]) + drift'[h]
    <3>1. CASE h = g
      BY <1>7, <1>9, <2>7, <2>8, <2>9, <3>1
    <3>2. CASE h # g
      BY <1>7, <1>9, <1>14, <2>9, <3>2 DEF IInv, ContributorsCounted, Here
    <3> QED BY <3>1, <3>2
  <2> QED BY <2>9 DEF ContributorsCounted
<1> QED BY <1>11, <1>12, <1>13, <1>16, <1>17 DEF IInv

\* The count goes up for a relation of this life, and is off for one of another.
LEMMA CountContributorStep ==
  ASSUME IInv, NEW w \in Workers, CountContributor(w)
  PROVE  IInv'
<1>1. worker[w] \in Busy /\ At(w, "counting")
  BY BusyType DEF IInv, TInv, CountContributor, At
<1>2. PICK g \in Games : g = worker[w].game
  BY <1>1 DEF Busy
<1>3. /\ Over(w) /\ drift' \in [Games -> Int]
      /\ \A h \in Games : h # g => drift'[h] = drift[h]
      /\ UNCHANGED <<contributors, pending, issued, sending, ledger, purged, era, calls, deaths>>
  BY <1>2 DEF CountContributor, awardVars, IInv, TInv, TypeOK
<1>4. /\ \A v \in Workers : v # w => worker'[v] = worker[v]
      /\ \A v \in Workers : At(v, "counting")' => v # w /\ At(v, "counting")
      /\ \A h \in Games : Counting(h)' = Counting(h) \ {w}
  BY <1>3, OverCounts DEF IInv
<1>5. /\ worker' \in [Workers -> Busy \cup {Idle}]
      /\ \A v \in Workers : At(v, "reading")' => worker'[v].op # "approve"
  BY <1>3, WorkerMoves DEF IInv
<1>6. ErasPast' /\ RegisteredOnce'
  BY <1>3, <1>4 DEF IInv, ErasPast, RegisteredOnce
<1>7. ASSUME NEW h \in Games, h # g PROVE Counting(h)' = Counting(h)
  BY <1>2, <1>4, <1>7 DEF Counting
<1>8. CASE ~Here(g)
  <2>1. patch' = patch
    BY <1>2, <1>8 DEF CountContributor
  <2>2. Counting(g)' = Counting(g)
    BY <1>4, <1>8 DEF IInv, NothingLeft
  <2>3. drift' = drift
    BY <1>2, <1>8 DEF CountContributor
  <2>4. TInv'
    BY <1>3, <1>5, <2>1 DEF IInv, TInv, TypeOK
  <2> QED BY <1>3, <1>6, <1>7, <2>1, <2>2, <2>3, <2>4, SamePatch, Bystander
<1>9. CASE Here(g)
  <2>1. patch[g] \in PatchRow
    BY <1>9, HereRow DEF IInv, TInv
  <2>2. PICK r : r = [patch[g] EXCEPT !.count = patch[g].count + 1]
    OBVIOUS
  <2>3. /\ r \in PatchRow /\ r.owner = patch[g].owner /\ r.stub = patch[g].stub
        /\ r.count = patch[g].count + 1 /\ patch[g].count \in Nat
    BY <2>1, <2>2 DEF PatchRow
  <2>4. patch' = [patch EXCEPT ![g] = r]
    BY <1>2, <1>9, <2>2 DEF CountContributor
  <2>5. /\ patch' \in [Games -> PatchRow \cup {NoPatch}]
        /\ patch'[g] = r /\ \A h \in Games : h # g => patch'[h] = patch[h]
    BY <2>3, <2>4, Rewritten DEF IInv, TInv
  <2>6. TInv'
    BY <1>3, <1>5, <2>5 DEF IInv, TInv, TypeOK
  <2>7. \A h \in Games : Here(h)' <=> Here(h)
    BY <1>9, <2>3, <2>5, NoPatchAssumption DEF Here
  <2>8. RegistrarOwns'
    <3>1. \A a \in issued : a.game \in Games
      BY DEF IInv, TInv, TypeOK, Award
    <3> QED BY <1>3, <2>3, <2>5, <2>7, <3>1 DEF IInv, RegistrarOwns
  <2>9. NothingLeft' /\ Finite'
    BY <1>3, <1>4, <1>9, <2>7 DEF IInv, NothingLeft, Finite
  <2>10. ASSUME NEW h \in Games, Here(h)'
         PROVE  patch'[h].count + Cardinality(Counting(h)')
                  = Cardinality(contributors'[h]) + drift'[h]
    <3>1. CASE h = g
      <4>1. PICK C : C = Counting(g)
        OBVIOUS
      <4>2. PICK D : D = C \ {w}
        OBVIOUS
      <4>3. /\ IsFiniteSet(C) /\ Cardinality(C) \in Nat /\ drift[g] \in Int
            /\ Cardinality(contributors[g]) \in Nat
        BY <4>1, GamesAssumption, FS_Subset, FS_CardinalityType DEF Counting, IInv, Finite, TInv,
           TypeOK
      <4>4. patch[g].count + Cardinality(C) = Cardinality(contributors[g]) + drift[g]
        BY <1>9, <4>1 DEF IInv, ContributorsCounted
      <4>5. ASSUME worker[w].era = era[g]
            PROVE  r.count + Cardinality(D) = Cardinality(contributors[g]) + drift'[g]
        <5>1. w \in C /\ drift' = drift
          BY <1>1, <1>2, <1>9, <4>1, <4>5 DEF Counting, CountContributor
        <5>2. Cardinality(D) = Cardinality(C) - 1
          BY <4>2, <4>3, <5>1, FS_RemoveElement
        <5> QED BY <2>3, <4>3, <4>4, <5>1, <5>2
      <4>6. ASSUME worker[w].era # era[g]
            PROVE  r.count + Cardinality(D) = Cardinality(contributors[g]) + drift'[g]
        <5>1. drift'[g] = drift[g] + 1
          BY <1>2, <1>9, <4>6 DEF CountContributor, IInv, TInv, TypeOK
        <5>2. D = C
          BY <4>1, <4>2, <4>6 DEF Counting
        <5> QED BY <2>3, <4>3, <4>4, <5>1, <5>2
      <4>7. r.count + Cardinality(D) = Cardinality(contributors[g]) + drift'[g]
        BY <4>5, <4>6
      <4>8. Counting(g)' = D
        BY <1>4, <4>1, <4>2
      <4> QED BY <1>3, <2>5, <3>1, <4>7, <4>8
    <3>2. CASE h # g
      BY <1>3, <1>7, <2>5, <2>7, <2>10, <3>2 DEF IInv, ContributorsCounted
    <3> QED BY <3>1, <3>2
  <2>11. ContributorsCounted'
    BY <2>10 DEF ContributorsCounted
  <2> QED BY <1>6, <2>6, <2>8, <2>9, <2>11 DEF IInv
<1> QED BY <1>8, <1>9

\* With the row go its contributors, its registrar and whoever still counts.
LEMMA DeletePatchStep ==
  ASSUME IInv, NEW w \in Workers, DeletePatch(w)
  PROVE  IInv'
<1>1. worker[w] \in Busy /\ ~At(w, "counting") /\ ~At(w, "idle")
  BY BusyType DEF IInv, TInv, DeletePatch, At
<1>2. PICK g \in Games : g = worker[w].game
  BY <1>1 DEF Busy
<1>3. /\ patch' = [patch EXCEPT ![g] = NoPatch] /\ Over(w)
      /\ contributors' = [contributors EXCEPT ![g] = {}]
      /\ pending' \subseteq pending /\ drift' = [drift EXCEPT ![g] = 0]
      /\ UNCHANGED <<issued, sending, ledger, purged, calls, deaths>>
      /\ era' = IF Here(g) THEN [era EXCEPT ![g] = @ + 1] ELSE era
  BY <1>2 DEF DeletePatch, awardVars
<1>4. /\ patch' \in [Games -> PatchRow \cup {NoPatch}] /\ patch'[g] = NoPatch
      /\ \A h \in Games : h # g => patch'[h] = patch[h]
      /\ contributors' \in [Games -> SUBSET Users] /\ contributors'[g] = {}
      /\ \A h \in Games : h # g => contributors'[h] = contributors[h]
      /\ drift' \in [Games -> Int] /\ drift'[g] = 0
      /\ \A h \in Games : h # g => drift'[h] = drift[h]
  BY <1>3 DEF IInv, TInv, TypeOK
<1>5. /\ worker' \in [Workers -> Busy \cup {Idle}]
      /\ \A v \in Workers : At(v, "reading")' => worker'[v].op # "approve"
      /\ \A v \in Workers : v # w => worker'[v] = worker[v]
      /\ \A v \in Workers : At(v, "counting")' => v # w /\ At(v, "counting")
  BY <1>3, WorkerMoves, OverCounts DEF IInv
<1>6. /\ era' \in [Games -> Nat] /\ \A h \in Games : h # g => era'[h] = era[h]
      /\ era'[g] = IF Here(g) THEN era[g] + 1 ELSE era[g]
      /\ era[g] \in Nat
  BY <1>3 DEF IInv, TInv, TypeOK
<1>7. TInv'
  BY <1>3, <1>4, <1>5, <1>6 DEF IInv, TInv, TypeOK
<1>8. RegisteredOnce'
  BY <1>3 DEF IInv, RegisteredOnce
<1>9. \A a \in issued : a.game \in Games /\ a.era \in Nat
  BY DEF IInv, TInv, TypeOK, Award
<1>10. RegistrarOwns'
  <2>1. \A a \in issued : a.game = g => a.era # era'[g]
    BY <1>6, <1>9 DEF IInv, ErasPast, RegistrarOwns
  <2> QED BY <1>3, <1>4, <1>6, <1>9, <2>1 DEF IInv, RegistrarOwns, Here
<1>11. \A v \in Workers : At(v, "counting") => worker[v].game \in Games /\ worker[v].era \in Nat
  BY BusyType DEF IInv, TInv, At, Busy
<1>12. ErasPast'
  <2>1. \A h \in Games : era[h] \in Nat /\ era[h] <= era'[h]
    BY <1>6 DEF IInv, TInv, TypeOK
  <2>2. \A a \in issued' : a.era <= era'[a.game]
    BY <1>3, <1>6, <1>9, <2>1 DEF IInv, ErasPast
  <2>3. ASSUME NEW v \in Workers, At(v, "counting")'
        PROVE  worker'[v].era <= era'[worker'[v].game]
    <3>1. worker'[v] = worker[v] /\ At(v, "counting")
      BY <1>5, <2>3
    <3>2. worker[v].era <= era[worker[v].game]
      BY <3>1 DEF IInv, ErasPast
    <3> QED BY <1>6, <1>11, <2>1, <3>1, <3>2
  <2> QED BY <2>2, <2>3 DEF ErasPast
<1>13. ASSUME NEW h \in Games, h # g PROVE Counting(h)' = Counting(h)
  BY <1>1, <1>5, <1>6, <1>13 DEF Counting, At
<1>14. Counting(g)' = {}
  <2>1. ASSUME NEW v \in Workers, At(v, "counting")', worker'[v].game = g
        PROVE  worker'[v].era # era'[g]
    <3>1. worker'[v] = worker[v] /\ At(v, "counting")
      BY <1>5, <2>1
    <3>2. worker[v].era <= era[g]
      BY <2>1, <3>1 DEF IInv, ErasPast
    <3>3. ~Here(g) => worker[v].era # era[g]
      BY <2>1, <3>1 DEF IInv, NothingLeft, Counting
    <3> QED BY <1>6, <1>11, <3>1, <3>2, <3>3
  <2> QED BY <2>1 DEF Counting
<1>15. NothingLeft' /\ Finite'
  BY <1>4, <1>13, <1>14, FS_EmptySet DEF IInv, NothingLeft, Finite, Here
<1>16. ContributorsCounted'
  BY <1>3, <1>4, <1>13 DEF IInv, ContributorsCounted, Here
<1> QED BY <1>7, <1>8, <1>10, <1>12, <1>15, <1>16 DEF IInv

\* With a user go the rows that were his, as if deleted; the others he leaves count right,
\* but for whoever still counts there.
LEMMA PurgeStep ==
  ASSUME IInv, NEW u \in Users, PurgeUser(u)
  PROVE  IInv'
<1> DEFINE owned == {g \in Games : Here(g) /\ patch[g].owner = u}
           kept  == [g \in Games |-> IF g \in owned THEN {} ELSE contributors[g] \ {u}]
<1>1. PICK traces \in SUBSET {g \in Games : Here(g)} :
        /\ \A g \in Games : u \in contributors[g] => g \in traces
        /\ patch' = [g \in Games |->
             IF g \in owned THEN NoPatch
             ELSE IF g \in traces THEN [patch[g] EXCEPT !.count = Cardinality(kept[g])]
             ELSE patch[g]]
        /\ drift' = [g \in Games |->
             IF g \in owned THEN 0
             ELSE IF g \in traces THEN Cardinality(Counting(g)) ELSE drift[g]]
  BY DEF PurgeUser
<1>2. /\ contributors' = kept /\ pending' \subseteq pending /\ purged' \subseteq Users
      /\ era' = [g \in Games |-> IF g \in owned THEN era[g] + 1 ELSE era[g]]
      /\ calls' \in 0 .. MaxCalls
      /\ UNCHANGED <<worker, issued, sending, ledger, deaths>>
  BY BoundsAssumption DEF PurgeUser, awardVars, IInv, TInv, TypeOK
<1>3. ASSUME NEW g \in Games
      PROVE  /\ IsFiniteSet(Counting(g)) /\ Cardinality(Counting(g)) \in Nat
             /\ kept[g] \in SUBSET Users /\ IsFiniteSet(kept[g])
             /\ Cardinality(kept[g]) \in Nat
  <2>1. contributors[g] \in SUBSET Users /\ IsFiniteSet(contributors[g])
    BY DEF IInv, TInv, TypeOK, Finite
  <2>2. kept[g] \subseteq contributors[g]
    OBVIOUS
  <2>3. Counting(g) \subseteq Workers
    BY DEF Counting
  <2> QED BY <2>1, <2>2, <2>3, GamesAssumption, FS_Subset, FS_CardinalityType
<1>4. ASSUME NEW g \in Games, g \in owned
      PROVE  patch'[g] = NoPatch /\ contributors'[g] = {} /\ drift'[g] = 0
             /\ era'[g] = era[g] + 1
  BY <1>1, <1>2, <1>4
<1>5. ASSUME NEW g \in Games, g \in traces, g \notin owned
      PROVE  /\ patch'[g] \in PatchRow /\ patch'[g].count = Cardinality(kept[g])
             /\ patch'[g].owner = patch[g].owner /\ patch'[g].stub = patch[g].stub
             /\ contributors'[g] = contributors[g] \ {u} /\ era'[g] = era[g]
             /\ drift'[g] = Cardinality(Counting(g)) /\ Here(g)
  <2>1. PICK n \in Nat : n = Cardinality(kept[g])
    BY <1>3
  <2>2. Here(g) /\ patch[g] \in PatchRow
    BY <1>1, <1>5, HereRow DEF IInv, TInv
  <2>3. patch'[g] = [patch[g] EXCEPT !.count = n] /\ drift'[g] = Cardinality(Counting(g))
    BY <1>1, <1>5, <2>1
  <2>4. contributors'[g] = contributors[g] \ {u} /\ era'[g] = era[g]
    BY <1>2, <1>5
  <2> QED BY <2>1, <2>2, <2>3, <2>4 DEF PatchRow
<1>6. ASSUME NEW g \in Games, g \notin traces, g \notin owned
      PROVE  /\ patch'[g] = patch[g] /\ contributors'[g] = contributors[g]
             /\ era'[g] = era[g] /\ drift'[g] = drift[g]
  <2>1. u \notin contributors[g]
    BY <1>1, <1>6
  <2> QED BY <1>1, <1>2, <1>6, <2>1
<1> HIDE DEF owned
<1>7. ASSUME NEW g \in Games
      PROVE  /\ patch'[g] \in PatchRow \cup {NoPatch} /\ drift'[g] \in Int
             /\ era'[g] \in Nat /\ era[g] \in Nat /\ era[g] <= era'[g]
             /\ contributors'[g] \in SUBSET Users /\ IsFiniteSet(contributors'[g])
             /\ Here(g)' <=> (Here(g) /\ g \notin owned)
  <2>1. /\ patch[g] \in PatchRow \cup {NoPatch} /\ drift[g] \in Int /\ era[g] \in Nat
        /\ contributors[g] \in SUBSET Users /\ contributors'[g] = kept[g]
    BY <1>2 DEF IInv, TInv, TypeOK
  <2> HIDE DEF kept
  <2> QED BY <1>3, <1>4, <1>5, <1>6, <2>1, NoPatchAssumption DEF Here
<1> HIDE DEF kept
<1>8. TInv'
  <2>1. /\ patch' \in [Games -> PatchRow \cup {NoPatch}] /\ drift' \in [Games -> Int]
        /\ era' \in [Games -> Nat] /\ contributors' \in [Games -> SUBSET Users]
    <3>1. /\ patch' = [g \in Games |-> patch'[g]] /\ drift' = [g \in Games |-> drift'[g]]
          /\ era' = [g \in Games |-> era'[g]]
          /\ contributors' = [g \in Games |-> contributors'[g]]
      BY <1>1, <1>2 DEF kept
    <3> QED BY <1>7, <3>1
  <2> QED BY <1>2, <2>1 DEF IInv, TInv, TypeOK, At
<1>9. ASSUME NEW g \in Games PROVE Counting(g)' = IF g \in owned THEN {} ELSE Counting(g)
  <2>1. CASE g \in owned
    <3>1. ASSUME NEW v \in Workers, At(v, "counting"), worker[v].game = g
          PROVE  worker[v].era # era[g] + 1
      <4>1. worker[v].era \in Nat
        BY <3>1, BusyType DEF IInv, TInv, At, Busy
      <4> QED BY <1>7, <3>1, <4>1 DEF IInv, ErasPast
    <3> QED BY <1>2, <1>4, <2>1, <3>1 DEF Counting, At
  <2>2. CASE g \notin owned
    BY <1>2, <1>5, <1>6, <2>2 DEF Counting, At
  <2> QED BY <2>1, <2>2
<1>10. RegisteredOnce'
  BY <1>2 DEF IInv, RegisteredOnce
<1>11. \A a \in issued : a.game \in Games /\ a.era \in Nat /\ a.era <= era[a.game]
  BY DEF IInv, TInv, TypeOK, Award, ErasPast
<1>12. RegistrarOwns'
  <2>1. SUFFICES ASSUME NEW a \in issued, a.era = era'[a.game]
                 PROVE  /\ Here(a.game)' /\ patch'[a.game].owner = a.user
                        /\ ~patch'[a.game].stub /\ a.user \in contributors'[a.game]
    BY <1>2 DEF RegistrarOwns
  <2>2. PICK g \in Games : g = a.game
    BY <1>11
  <2>3. g \notin owned
    BY <1>4, <1>7, <1>11, <2>1, <2>2
  <2>4. era'[g] = era[g]
    BY <1>5, <1>6, <2>3
  <2>5. /\ Here(g) /\ patch[g].owner = a.user /\ ~patch[g].stub
        /\ a.user \in contributors[g]
    BY <2>1, <2>2, <2>4 DEF IInv, RegistrarOwns
  <2>6. a.user # u
    BY <2>3, <2>5 DEF owned
  <2>7. CASE g \in traces
    BY <1>5, <1>7, <2>2, <2>3, <2>5, <2>6, <2>7
  <2>8. CASE g \notin traces
    BY <1>6, <1>7, <2>2, <2>3, <2>5, <2>8
  <2> QED BY <2>7, <2>8
<1>13. ErasPast'
  <2>1. ASSUME NEW v \in Workers, At(v, "counting")
        PROVE  worker[v].era <= era'[worker[v].game]
    <3>1. worker[v].era \in Nat /\ worker[v].game \in Games
      BY <2>1, BusyType DEF IInv, TInv, At, Busy
    <3> QED BY <1>7, <2>1, <3>1 DEF IInv, ErasPast
  <2> QED BY <1>2, <1>7, <1>11, <2>1 DEF ErasPast, At
<1>14. ASSUME NEW g \in Games, ~Here(g)'
       PROVE  contributors'[g] = {} /\ Counting(g)' = {} /\ drift'[g] = 0
  <2>1. CASE g \in owned
    BY <1>4, <1>9, <2>1
  <2>2. CASE g \notin owned
    <3>1. ~Here(g) /\ g \notin traces
      BY <1>1, <1>7, <1>14, <2>2
    <3>2. contributors[g] = {} /\ Counting(g) = {} /\ drift[g] = 0
      BY <3>1 DEF IInv, NothingLeft
    <3> QED BY <1>6, <1>9, <2>2, <3>1, <3>2
  <2> QED BY <2>1, <2>2
<1>15. ASSUME NEW g \in Games, Here(g)'
       PROVE  patch'[g].count + Cardinality(Counting(g)')
                = Cardinality(contributors'[g]) + drift'[g]
  <2>1. Here(g) /\ g \notin owned /\ Counting(g)' = Counting(g)
    BY <1>7, <1>9, <1>15
  <2>2. CASE g \in traces
    <3>1. contributors'[g] = kept[g]
      BY <1>2
    <3> QED BY <1>3, <1>5, <2>1, <2>2, <3>1
  <2>3. CASE g \notin traces
    BY <1>6, <2>1, <2>3 DEF IInv, ContributorsCounted
  <2> QED BY <2>2, <2>3
<1>16. NothingLeft' /\ Finite' /\ ContributorsCounted'
  BY <1>7, <1>14, <1>15 DEF NothingLeft, Finite, ContributorsCounted
<1> QED BY <1>8, <1>10, <1>12, <1>13, <1>16 DEF IInv

\* A handler that dies while it owes an increment leaves the count off.
LEMMA DieStep ==
  ASSUME IInv, NEW w \in Workers, Die(w)
  PROVE  IInv'
<1>1. worker[w] \in Busy
  BY BusyType DEF IInv, TInv, Die
<1>2. /\ Over(w) /\ drift' \in [Games -> Int]
      /\ \A h \in Games : w \notin Counting(h) => drift'[h] = drift[h]
      /\ \A h \in Games : w \in Counting(h) /\ Here(h) => drift'[h] = drift[h] - 1
      /\ UNCHANGED <<patch, contributors, pending, issued, sending, ledger, purged, era, calls>>
      /\ deaths' \in 0 .. MaxDeaths
  BY <1>1, BoundsAssumption DEF Die, awardVars, IInv, TInv, TypeOK, Busy
<1>3. /\ \A v \in Workers : v # w => worker'[v] = worker[v]
      /\ \A v \in Workers : At(v, "counting")' => v # w /\ At(v, "counting")
      /\ \A h \in Games : Counting(h)' = Counting(h) \ {w}
  BY <1>2, OverCounts DEF IInv
<1>4. /\ worker' \in [Workers -> Busy \cup {Idle}]
      /\ \A v \in Workers : At(v, "reading")' => worker'[v].op # "approve"
  BY <1>2, WorkerMoves DEF IInv
<1>5. TInv'
  BY <1>2, <1>4 DEF IInv, TInv, TypeOK
<1>6. ErasPast' /\ RegisteredOnce' /\ RegistrarOwns'
  BY <1>2, <1>3 DEF IInv, ErasPast, RegisteredOnce, RegistrarOwns, Here
<1>7. NothingLeft' /\ Finite'
  BY <1>2, <1>3, FS_EmptySet DEF IInv, NothingLeft, Finite, Here
<1>8. ASSUME NEW h \in Games, Here(h)
      PROVE  patch[h].count + Cardinality(Counting(h)')
               = Cardinality(contributors[h]) + drift'[h]
  <2>1. PICK C : C = Counting(h)
    OBVIOUS
  <2>2. PICK D : D = C \ {w}
    OBVIOUS
  <2>3. /\ IsFiniteSet(C) /\ Cardinality(C) \in Nat /\ Cardinality(contributors[h]) \in Nat
        /\ drift[h] \in Int /\ patch[h].count \in Nat
    BY <1>8, <2>1, HereRow, GamesAssumption, FS_Subset, FS_CardinalityType
       DEF Counting, IInv, Finite, TInv, TypeOK, PatchRow
  <2>4. patch[h].count + Cardinality(C) = Cardinality(contributors[h]) + drift[h]
    BY <1>8, <2>1 DEF IInv, ContributorsCounted
  <2>5. w \in C => Cardinality(D) = Cardinality(C) - 1 /\ drift'[h] = drift[h] - 1
    BY <1>2, <1>8, <2>1, <2>2, <2>3, FS_RemoveElement
  <2>6. w \notin C => D = C /\ drift'[h] = drift[h]
    BY <1>2, <2>1, <2>2
  <2>7. Counting(h)' = D
    BY <1>3, <2>1, <2>2
  <2> QED BY <2>3, <2>4, <2>5, <2>6, <2>7
<1>9. ContributorsCounted'
  BY <1>2, <1>8 DEF ContributorsCounted, Here
<1> QED BY <1>5, <1>6, <1>7, <1>9 DEF IInv

-----------------------------------------------------------------------------
(***************************************************************************)
(* The theorems.                                                           *)
(***************************************************************************)
LEMMA NextInvariant ==
  IInv /\ [Next]_vars => IInv'
<1> SUFFICES ASSUME IInv, [Next]_vars PROVE IInv'
  OBVIOUS
<1>1. ASSUME NEW w \in Workers, Request(w)
      PROVE  IInv'
  <2>1. PICK op \in Ops, u \in Users, g \in Games : Call(w, op, u, g)
    BY <1>1, RequestCalls DEF IInv, TInv
  <2> QED BY <2>1, CallStep
<1>2. ASSUME NEW w \in Workers, Step(w) PROVE IInv'
  BY <1>2, IdleStep, InsertStep, AdoptStubStep, MaterialiseStep, MarkIndexedStep,
     AddContributorStep, CountContributorStep, DeletePatchStep, DieStep DEF Step
<1>3. CASE UNCHANGED vars
  <2>1. UNCHANGED <<patch, contributors, pending, worker, issued, sending, ledger, purged, era,
                    drift, calls, deaths>>
    BY <1>3 DEF vars
  <2> QED BY <2>1 DEF IInv, TInv, TypeOK, RegisteredOnce, RegistrarOwns, ErasPast, NothingLeft,
                      Finite, ContributorsCounted, Counting, Here, At
<1> QED BY <1>1, <1>2, <1>3, PurgeStep, ComesBackStep, WorldStep DEF Next

LEMMA InitInvariant ==
  Init => IInv
<1> SUFFICES ASSUME Init PROVE IInv
  OBVIOUS
<1>1. TInv
  BY BoundsAssumption DEF Init, TInv, TypeOK, At, Idle
<1>2. RegisteredOnce /\ RegistrarOwns /\ ErasPast
  BY DEF Init, RegisteredOnce, RegistrarOwns, ErasPast, At, Idle
<1>3. NothingLeft /\ Finite
  BY FS_EmptySet DEF Init, NothingLeft, Finite, Counting, At, Idle
<1>4. ContributorsCounted
  BY DEF Init, ContributorsCounted, Here
<1> QED BY <1>1, <1>2, <1>3, <1>4 DEF IInv

\* The strengthening of the registry's invariants is one.
THEOREM Invariant == Spec => []IInv
<1> QED BY InitInvariant, NextInvariant, PTL DEF Spec

\* Every variable keeps its type.
THEOREM TypeCorrect == Spec => []TypeOK
<1>1. IInv => TypeOK
  BY DEF IInv, TInv
<1> QED BY <1>1, Invariant, PTL

\* A row is registered and its registrar rewarded once in its life, and the
\* ledger pays each kind of registration of a game once.
THEOREM RegistersOnce == Spec => []RegisteredOnce
<1>1. IInv => RegisteredOnce
  BY DEF IInv
<1> QED BY <1>1, Invariant, PTL

\* Whoever was rewarded for a row owns it and is credited on it as long as it lives.
THEOREM RegistrarStays == Spec => []RegistrarOwns
<1>1. IInv => RegistrarOwns
  BY DEF IInv
<1> QED BY <1>1, Invariant, PTL

\* contribute_count is the number of contributors, but for increments still owed and for
\* what deaths, rows that replace others and the counting of purges leave, to the unit.
THEOREM CountIsRight == Spec => []ContributorsCounted
<1>1. IInv => ContributorsCounted
  BY DEF IInv
<1> QED BY <1>1, Invariant, PTL

\* What OwnerChangesByAdoption says of one step.
Adopted ==
  \A g \in Games :
    Here(g) /\ Here(g)' =>
      /\ patch[g].owner # patch'[g].owner => patch[g].stub /\ ~patch'[g].stub
      /\ patch'[g].stub => patch[g].stub

\* A step that writes one row r over the row of g.
LEMMA OneRowWritten ==
  ASSUME TypeOK, NEW g \in Games, NEW r, patch' = [patch EXCEPT ![g] = r],
         Here(g) /\ r # NoPatch =>
           /\ patch[g].owner # r.owner => patch[g].stub /\ ~r.stub
           /\ r.stub => patch[g].stub
  PROVE  Adopted
<1>1. patch'[g] = r /\ \A h \in Games : h # g => patch'[h] = patch[h]
  BY DEF TypeOK
<1> QED BY <1>1 DEF Adopted, Here

\* Each step that writes a row gives it away only by an adoption.
LEMMA StepAdopts ==
  ASSUME TypeOK, [Next]_vars
  PROVE  Adopted
<1>1. CASE patch' = patch
  BY <1>1 DEF Adopted, Here
<1>2. ASSUME NEW w \in Workers, Step(w), patch' # patch
      PROVE  Adopted
  <2>1. ~At(w, "idle")
    BY <1>2 DEF Step, ReadPatch, InsertPatch, InsertConflicts, AdoptStub, AdoptNothing,
       CreateUser, Materialise, WriteFails, WriteComment, WriteResource, MarkIndexed,
       ApproveComment, AddContributor, NothingToAdd, CountContributor, DeletePatch, Die, At
  <2>2. PICK g \in Games : g = worker[w].game
    BY <2>1, BusyType DEF Busy
  <2>3. Here(g) => patch[g] \in PatchRow
    BY HereRow
  <2>4. CASE InsertPatch(w)
    BY <2>2, <2>4, OneRowWritten DEF InsertPatch
  <2>5. CASE AdoptStub(w)
    <3>1. PICK m : m = IF worker[w].user \in contributors[g] THEN patch[g].count
                                                             ELSE patch[g].count + 1
      OBVIOUS
    <3>2. PICK r : r = [patch[g] EXCEPT !.owner = worker[w].user, !.stub = FALSE, !.count = m]
      OBVIOUS
    <3>3. Here(g) /\ patch[g].stub /\ ~r.stub
      BY <2>2, <2>3, <2>5, <3>2 DEF AdoptStub, Adoptable, PatchRow
    <3>4. patch' = [patch EXCEPT ![g] = r]
      BY <2>2, <2>5, <3>1, <3>2 DEF AdoptStub
    <3> QED BY <3>3, <3>4, OneRowWritten
  <2>6. CASE Materialise(w)
    BY <1>2, <2>2, <2>6, OneRowWritten DEF Materialise
  <2>7. CASE MarkIndexed(w)
    <3>1. PICK r : r = [patch[g] EXCEPT !.published = TRUE, !.stub = FALSE]
      OBVIOUS
    <3>2. Here(g) /\ patch' = [patch EXCEPT ![g] = r]
      BY <1>2, <2>2, <2>7, <3>1 DEF MarkIndexed
    <3>3. r.owner = patch[g].owner /\ ~r.stub
      BY <2>3, <3>1, <3>2 DEF PatchRow
    <3> QED BY <3>2, <3>3, OneRowWritten
  <2>8. CASE CountContributor(w)
    <3>1. PICK r : r = [patch[g] EXCEPT !.count = patch[g].count + 1]
      OBVIOUS
    <3>2. Here(g) /\ patch' = [patch EXCEPT ![g] = r]
      BY <1>2, <2>2, <2>8, <3>1 DEF CountContributor
    <3>3. r.owner = patch[g].owner /\ r.stub = patch[g].stub
      BY <2>3, <3>1, <3>2 DEF PatchRow
    <3> QED BY <3>2, <3>3, OneRowWritten
  <2>9. CASE DeletePatch(w)
    BY <2>2, <2>9, OneRowWritten DEF DeletePatch
  <2> QED BY <1>2, <2>4, <2>5, <2>6, <2>7, <2>8, <2>9 DEF Step, ReadPatch, InsertConflicts,
          AdoptNothing, CreateUser, WriteFails, WriteComment, WriteResource, ApproveComment,
          AddContributor, NothingToAdd, Die
<1>3. ASSUME NEW g \in Games, Unpublish(g)
      PROVE  Adopted
  <2>1. patch[g] \in PatchRow
    BY <1>3, HereRow DEF Unpublish
  <2>2. PICK r : r = [patch[g] EXCEPT !.published = FALSE]
    OBVIOUS
  <2>3. r.owner = patch[g].owner /\ r.stub = patch[g].stub
    BY <2>1, <2>2 DEF PatchRow
  <2> QED BY <1>3, <2>2, <2>3, OneRowWritten DEF Unpublish
<1>5. ASSUME NEW u \in Users, PurgeUser(u)
      PROVE  Adopted
  <2> DEFINE owned == {g \in Games : Here(g) /\ patch[g].owner = u}
             kept  == [g \in Games |-> IF g \in owned THEN {} ELSE contributors[g] \ {u}]
  <2>1. PICK traces :
          patch' = [g \in Games |->
            IF g \in owned THEN NoPatch
            ELSE IF g \in traces THEN [patch[g] EXCEPT !.count = Cardinality(kept[g])]
            ELSE patch[g]]
    BY <1>5 DEF PurgeUser
  <2> HIDE DEF owned, kept
  <2>2. SUFFICES ASSUME NEW g \in Games, Here(g), Here(g)'
                 PROVE  patch'[g].owner = patch[g].owner /\ patch'[g].stub = patch[g].stub
    BY DEF Adopted
  <2>3. patch[g] \in PatchRow /\ g \notin owned
    BY <2>1, <2>2, HereRow DEF Here
  <2> QED BY <2>1, <2>3 DEF PatchRow
<1>4. ASSUME NEW w \in Workers, Request(w)
      PROVE  UNCHANGED patch
  BY <1>4 DEF Request, CreatePatchRequest, ClaimGalgameRequest, CreateCommentRequest,
              CreateResourceRequest, DeletePatchRequest, ApproveCommentRequest, Call
<1> QED BY <1>1, <1>2, <1>3, <1>4, <1>5 DEF Next, ComesBack, Deliver, LoseAward, vars

\* A row changes hands only by the adoption of a stub, and is never made one again.
THEOREM ChangesHandsByAdoption == Spec => OwnerChangesByAdoption
<1>1. TypeOK /\ [Next]_vars =>
        [\A g \in Games :
           Here(g) /\ Here(g)' =>
             /\ patch[g].owner # patch'[g].owner => patch[g].stub /\ ~patch'[g].stub
             /\ patch'[g].stub => patch[g].stub]_vars
  BY StepAdopts DEF Adopted
<1> QED BY <1>1, TypeCorrect, PTL DEF Spec, OwnerChangesByAdoption

-----------------------------------------------------------------------------
(***************************************************************************)
(* The mirror's invariant.                                                 *)
(***************************************************************************)
Anchors == {Anchor[w] : w \in Works} \ {NoAnchor}

Asking == [pc : {"asking"}, at : Nat, pages : Nat, late : BOOLEAN]
Paged == [pc : {"hydrating", "moving"}, at : Nat, pages : Nat, late : BOOLEAN,
          next : Nat, ids : SUBSET Works]
Judged == [pc : {"writing", "moving"}, at : Nat, pages : Nat, late : BOOLEAN,
           next : Nat, sets : SUBSET (Axis \X SUBSET Anchors)]
RunStates == {Resting} \cup Asking \cup Paged \cup Judged

MirrorTypes ==
  /\ verdict \in [Works -> Verdicts]
  /\ stamp \in [Works -> Nat] /\ now \in Nat /\ cursor \in Nat
  /\ DOMAIN limit \subseteq Patches
  /\ run \in [Runs -> RunStates]
  /\ overlapped \in BOOLEAN

\* A cached answer is about the works it was asked for.
AnswersFit ==
  \A k \in DOMAIN answers :
    /\ DOMAIN answers[k].body \subseteq k
    /\ \A w \in DOMAIN answers[k].body : answers[k].body[w] \in Axis

\* Patches of no work have no verdict.
BareUnset == \A p \in DOMAIN limit : AnchoredTo(p) = {} => limit[p] = Unset

\* The mirror owes nothing to a work that is gone, or that a cached answer was wrong about.
Excused(w) == verdict[w] = "gone" \/ w \in outdated

\* A work whose row says nothing that the catalog does not say.
Fine(w) == Excused(w) \/ (Anchor[w] \in DOMAIN limit => limit[Anchor[w]] \in {Unset, verdict[w]})

\* The works that a page of the feed is about.
Within(w, at, next) == at < stamp[w] /\ stamp[w] <= next

\* A page that has been read names every work on it that is not gone by now.
PageRead(x) ==
  /\ \A w \in x.ids : x.at < stamp[w]
  /\ \A w \in Works : Within(w, x.at, x.next) => verdict[w] = "gone" \/ w \in x.ids

\* Its verdicts are the present ones, and each is written or about to be.
PageJudged(x) ==
  /\ \A s \in x.sets : \A w \in Works : Anchor[w] \in s[2] =>
       x.at < stamp[w] /\ (stamp[w] <= x.next => Excused(w) \/ s[1] = verdict[w])
  /\ \A w \in Works : Within(w, x.at, x.next) =>
       Fine(w) \/ \E s \in x.sets : s[1] = verdict[w] /\ Anchor[w] \in s[2]

PageDone(x) == \A w \in Works : Within(w, x.at, x.next) => Fine(w)

RunInv(x) ==
  /\ x.pc # "idle" => x.at = cursor
  /\ x.pc \in {"hydrating", "writing", "moving"} => x.next <= now
  /\ x.pc = "hydrating" => PageRead(x)
  /\ x.pc = "writing" => PageJudged(x)
  /\ x.pc = "moving" => PageDone(x)

OneRun == \A r, o \in Runs : r # o => RunAt(r, "idle") \/ RunAt(o, "idle")
Past == cursor <= now /\ \A w \in Works : stamp[w] <= cursor => Fine(w)

MirrorInv ==
  /\ MirrorTypes
  /\ AnswersFit
  /\ BareUnset
  /\ \A w \in Works : stamp[w] <= now
  /\ ~overlapped => OneRun /\ Past /\ \A r \in Runs : RunInv(run[r])

-----------------------------------------------------------------------------
(***************************************************************************)
(* The mirror starts.                                                      *)
(***************************************************************************)
\* The works can be numbered one after the other.
LEMMA Numbered ==
  /\ Cardinality(Works) \in Nat
  /\ \E s \in [Works -> 1 .. Cardinality(Works)] :
       \A v, w \in Works : v # w => s[v] # s[w]
<1>1. Cardinality(Works) \in Nat /\ ExistsBijection(1 .. Cardinality(Works), Works)
  BY FS_CardinalityType, ListedAssumption
<1>2. ExistsBijection(Works, 1 .. Cardinality(Works))
  BY <1>1, Fun_ExistsBijSymmetric
<1>3. PICK s \in Bijection(Works, 1 .. Cardinality(Works)) : TRUE
  BY <1>2 DEF ExistsBijection
<1>4. s \in [Works -> 1 .. Cardinality(Works)]
  BY <1>3 DEF Bijection, Injection
<1>5. \A v, w \in Works : v # w => s[v] # s[w]
  BY <1>3, <1>4 DEF Bijection, Injection, IsInjective
<1> QED BY <1>1, <1>4, <1>5

LEMMA MirrorStarts ==
  ASSUME MirrorInit
  PROVE  MirrorInv
<1>1. stamp \in [Works -> 1 .. Cardinality(Works)] /\ Cardinality(Works) \in Nat
  BY Numbered DEF MirrorInit
<1>2. now = Cardinality(Works) /\ cursor = 0 /\ overlapped = FALSE
  BY DEF MirrorInit
<1>3. run = [r \in Runs |-> Resting] /\ \A r \in Runs : run[r] = Resting
  BY DEF MirrorInit
<1>4. DOMAIN limit \subseteq Patches /\ AnswersFit /\ BareUnset
  BY ListedAssumption DEF MirrorInit, AnswersFit, BareUnset
<1>5. verdict \in [Works -> Verdicts]
  BY DEF MirrorInit, Verdicts
<1>6. MirrorTypes
  <2>1. stamp \in [Works -> Nat]
    BY <1>1
  <2>2. run \in [Runs -> RunStates]
    BY <1>3 DEF RunStates
  <2> QED BY <1>1, <1>2, <1>4, <1>5, <2>1, <2>2 DEF MirrorTypes
<1>7. OneRun /\ \A r \in Runs : RunInv(run[r])
  BY <1>3 DEF OneRun, RunAt, RunInv, Resting
<1>8. Past
  BY <1>1, <1>2 DEF Past
<1> QED BY <1>1, <1>2, <1>4, <1>6, <1>7, <1>8 DEF MirrorInv

-----------------------------------------------------------------------------
(***************************************************************************)
(* The mirror's steps.                                                     *)
(***************************************************************************)
\* One run moves; the others rest, unless runs have overlapped.
LEMMA OneMoves ==
  ASSUME MirrorInv, NEW r \in Runs, ~RunAt(r, "idle"),
         UNCHANGED <<catalogVars, overlapped>>,
         run' \in [Runs -> RunStates], \A o \in Runs : o # r => run'[o] = run[o],
         DOMAIN limit' \subseteq Patches, cursor' \in Nat, AnswersFit', BareUnset',
         ~overlapped => Past' /\ RunInv(run[r])'
  PROVE  MirrorInv'
<1>1. MirrorTypes'
  BY DEF MirrorInv, MirrorTypes, catalogVars
<1>2. \A w \in Works : stamp'[w] <= now'
  BY DEF MirrorInv, catalogVars
<1>3. ASSUME ~overlapped'
      PROVE  OneRun' /\ Past' /\ \A o \in Runs : RunInv(run[o])'
  <2>1. ~overlapped
    BY <1>3
  <2>2. \A o \in Runs : o # r => run[o].pc = "idle" /\ run'[o] = run[o]
    BY <2>1 DEF MirrorInv, OneRun, RunAt
  <2>3. OneRun'
    BY <2>2 DEF OneRun, RunAt
  <2>4. \A o \in Runs : o # r => RunInv(run[o])'
    BY <2>2 DEF RunInv
  <2> QED BY <2>1, <2>3, <2>4
<1> QED BY <1>1, <1>2, <1>3 DEF MirrorInv

\* Cached answers and rows without a work stay as they are.
LEMMA FitStays ==
  ASSUME MirrorInv, UNCHANGED answers
  PROVE  AnswersFit'
  BY DEF MirrorInv, AnswersFit

LEMMA BareStays ==
  ASSUME MirrorInv, UNCHANGED limit
  PROVE  BareUnset'
  BY DEF MirrorInv, BareUnset, AnchoredTo

\* What holds of a run that is on its way.
LEMMA RunIs ==
  ASSUME MirrorInv, NEW r \in Runs
  PROVE  /\ run[r] \in RunStates
         /\ run[r].pc \in {"idle", "asking", "hydrating", "writing", "moving"}
         /\ ~overlapped => Past /\ RunInv(run[r])
  BY DEF MirrorInv, MirrorTypes, RunStates, Resting, Asking, Paged, Judged

\* A run that ends leaves nothing behind.
LEMMA EndKeeps ==
  ASSUME MirrorInv, NEW r \in Runs, ~RunAt(r, "idle"), Ended(r),
         UNCHANGED <<catalogVars, limit, cursor, answerVars, overlapped>>
  PROVE  MirrorInv'
<1>1. run' \in [Runs -> RunStates] /\ run'[r] = Resting
      /\ \A o \in Runs : o # r => run'[o] = run[o]
  BY DEF Ended, MirrorInv, MirrorTypes, RunStates
<1>2. RunInv(run[r])'
  BY <1>1 DEF RunInv, Resting
<1>3. ~overlapped => Past'
  BY DEF MirrorInv, Past, Fine, Excused, catalogVars, answerVars
<1> QED BY <1>1, <1>2, <1>3, OneMoves, FitStays, BareStays DEF MirrorInv, MirrorTypes, answerVars

LEMMA ChangeKeeps ==
  ASSUME MirrorInv, NEW w \in Works, ChangeWork(w)
  PROVE  MirrorInv'
<1> USE DEF MirrorInv, MirrorTypes
<1>0. UNCHANGED <<limit, answers, outdated>>
  BY DEF ChangeWork, answerVars
<1>1. MirrorTypes' /\ AnswersFit' /\ BareUnset'
  BY <1>0, FitStays, BareStays DEF ChangeWork, Verdicts
<1>2. \A v \in Works : stamp'[v] <= now'
  BY DEF ChangeWork
<1>3. stamp'[w] = now + 1 /\ \A v \in Works : v # w => stamp'[v] = stamp[v] /\ verdict'[v] = verdict[v]
  BY DEF ChangeWork
<1>4. \A v \in Works : v # w => (Fine(v) => Fine(v)') /\ (Excused(v) => Excused(v)')
  BY <1>0, <1>3 DEF Fine, Excused
<1>5. ASSUME ~overlapped'
      PROVE  OneRun' /\ Past' /\ \A r \in Runs : RunInv(run[r])'
  <2>1. ~overlapped /\ run' = run /\ cursor' = cursor /\ now' = now + 1
    BY <1>5 DEF ChangeWork
  <2>2. OneRun'
    BY <2>1 DEF OneRun, RunAt
  <2>3. Past'
    BY <2>1, <1>3, <1>4 DEF Past
  <2>4. ASSUME NEW r \in Runs
        PROVE  RunInv(run[r])'
    <3>1. PICK x : x = run[r]
      OBVIOUS
    <3>2. run'[r] = x /\ x \in RunStates /\ RunInv(x)
      BY <2>1, <3>1
    <3>3. (x.pc # "idle" => x.at = cursor')
          /\ (x.pc \in {"hydrating", "writing", "moving"} => x.next \in Nat /\ x.next <= now)
      BY <2>1, <3>2 DEF RunInv, RunStates, Resting, Asking, Paged, Judged
    <3>4. x.pc \in {"hydrating", "writing", "moving"} =>
            x.at \in Nat /\ x.at < stamp'[w]
            /\ \A v \in Works : Within(v, x.at, x.next)' => v # w /\ Within(v, x.at, x.next)
      BY <1>3, <3>3, <2>1 DEF Within, Past
    <3>5. x.pc = "hydrating" => PageRead(x)'
      <4> SUFFICES ASSUME x.pc = "hydrating" PROVE PageRead(x)'
        OBVIOUS
      <4>1. PageRead(x) /\ x.ids \subseteq Works
        BY <3>2 DEF RunInv, RunStates, Resting, Asking, Paged, Judged
      <4> QED BY <4>1, <3>4, <1>3 DEF PageRead
    <3>6. x.pc = "writing" => PageJudged(x)'
      <4> SUFFICES ASSUME x.pc = "writing" PROVE PageJudged(x)'
        OBVIOUS
      <4>1. PageJudged(x)
        BY <3>2 DEF RunInv
      <4>2. \A s \in x.sets : \A v \in Works : Anchor[v] \in s[2] =>
              x.at < stamp'[v] /\ (stamp'[v] <= x.next => Excused(v)' \/ s[1] = verdict'[v])
        BY <4>1, <3>3, <3>4, <1>3, <1>4 DEF PageJudged
      <4>3. \A v \in Works : Within(v, x.at, x.next)' =>
              Fine(v)' \/ \E s \in x.sets : s[1] = verdict'[v] /\ Anchor[v] \in s[2]
        BY <4>1, <3>4, <1>3, <1>4 DEF PageJudged
      <4> QED BY <4>2, <4>3 DEF PageJudged
    <3>7. x.pc = "moving" => PageDone(x)'
      BY <3>2, <3>4, <1>4 DEF RunInv, PageDone
    <3>8. x.pc \in {"hydrating", "writing", "moving"} => x.next <= now'
      BY <3>3, <2>1
    <3>9. RunInv(x)'
      BY <3>3, <3>5, <3>6, <3>7, <3>8 DEF RunInv
    <3> QED BY <3>2, <3>9
  <2> QED BY <2>2, <2>3, <2>4
<1> QED BY <1>1, <1>2, <1>5

LEMMA RowKeeps ==
  ASSUME MirrorInv, NEW p \in Patches, CreateRow(p)
  PROVE  MirrorInv'
<1>1. /\ DOMAIN limit' = DOMAIN limit \cup {p}
      /\ \A o \in DOMAIN limit' : limit'[o] = IF o = p THEN Unset ELSE limit[o]
      /\ UNCHANGED <<verdict, stamp, now, cursor, answers, outdated, run, overlapped>>
  BY DEF CreateRow, catalogVars, answerVars
<1>2. MirrorTypes' /\ AnswersFit' /\ BareUnset'
  BY <1>1, FitStays DEF MirrorInv, MirrorTypes, BareUnset, AnchoredTo
<1>3. \A v \in Works : (Fine(v) => Fine(v)') /\ (Excused(v) <=> Excused(v)')
  BY <1>1 DEF Fine, Excused
<1>4. ASSUME NEW x, RunInv(x) PROVE RunInv(x)'
  BY <1>1, <1>3, <1>4 DEF RunInv, PageRead, PageJudged, PageDone, Within
<1>5. ~overlapped' => OneRun' /\ Past' /\ \A r \in Runs : RunInv(run[r])'
  BY <1>1, <1>3, <1>4 DEF MirrorInv, OneRun, RunAt, Past
<1> QED BY <1>1, <1>2, <1>5 DEF MirrorInv

LEMMA ExpiryKeeps ==
  ASSUME MirrorInv, NEW ids, AnswerExpires(ids)
  PROVE  MirrorInv'
<1>1. UNCHANGED <<verdict, stamp, now, limit, cursor, outdated, run, overlapped>>
  BY DEF AnswerExpires, catalogVars
<1>2. MirrorTypes' /\ AnswersFit' /\ BareUnset'
  BY <1>1, BareStays DEF MirrorInv, MirrorTypes, AnswersFit, AnswerExpires
<1>3. \A v \in Works : (Fine(v) <=> Fine(v)') /\ (Excused(v) <=> Excused(v)')
  BY <1>1 DEF Fine, Excused
<1>4. ASSUME NEW x, RunInv(x) PROVE RunInv(x)'
  BY <1>1, <1>3, <1>4 DEF RunInv, PageRead, PageJudged, PageDone, Within
<1>5. ~overlapped' => OneRun' /\ Past' /\ \A r \in Runs : RunInv(run[r])'
  BY <1>1, <1>3, <1>4 DEF MirrorInv, OneRun, RunAt, Past
<1> QED BY <1>1, <1>2, <1>5 DEF MirrorInv

LEMMA TickKeeps ==
  ASSUME MirrorInv, NEW r \in Runs, Tick(r)
  PROVE  MirrorInv'
<1>1. run' \in [Runs -> RunStates]
      /\ run'[r] = [pc |-> "asking", at |-> cursor, pages |-> 0, late |-> FALSE]
      /\ \A o \in Runs : o # r => run'[o] = run[o]
  BY DEF Tick, MirrorInv, MirrorTypes, RunStates, Asking
<1>2. MirrorTypes' /\ AnswersFit' /\ BareUnset'
  <2>1. MirrorTypes' /\ BareUnset'
    BY <1>1, BareStays DEF Tick, MirrorInv, MirrorTypes, catalogVars
  <2>2. AnswersFit'
    <3>1. answers' = [k \in {j \in DOMAIN answers : ~answers[j].aged} |->
                       [body |-> answers[k].body, aged |-> TRUE]]
      BY DEF Tick, Aged
    <3> QED BY <3>1 DEF MirrorInv, AnswersFit
  <2> QED BY <2>1, <2>2
<1>3. ASSUME ~overlapped'
      PROVE  OneRun' /\ Past' /\ \A o \in Runs : RunInv(run[o])'
  <2>1. ~overlapped /\ \A o \in Runs : run[o].pc = "idle"
    BY <1>3 DEF Tick, RunAt
  <2>2. OneRun'
    BY <1>1, <2>1 DEF OneRun, RunAt
  <2>3. Past'
    BY <2>1 DEF MirrorInv, Past, Fine, Excused, Tick, catalogVars
  <2>4. \A o \in Runs : RunInv(run[o])'
    BY <1>1, <2>1 DEF RunInv, Tick, catalogVars
  <2> QED BY <2>2, <2>3, <2>4
<1> QED BY <1>2, <1>3 DEF MirrorInv, Tick, catalogVars

LEMMA DeadlineKeeps ==
  ASSUME MirrorInv, NEW r \in Runs, DeadlinePasses(r)
  PROVE  MirrorInv'
<1>1. PICK x \in RunStates : x = run[r]
  BY RunIs
<1>2. PICK y : y = [x EXCEPT !.late = TRUE]
  OBVIOUS
<1>3. run' \in [Runs -> RunStates] /\ run'[r] = y
      /\ \A o \in Runs : o # r => run'[o] = run[o]
  <2>1. x.pc # "idle"
    BY <1>1 DEF DeadlinePasses, RunAt
  <2>2. x \in Asking => y \in Asking
    BY <1>2 DEF Asking
  <2>3. x \in Paged => y \in Paged
    BY <1>2 DEF Paged
  <2>4. x \in Judged => y \in Judged
    BY <1>2 DEF Judged
  <2>5. y \in RunStates
    BY <2>1, <2>2, <2>3, <2>4 DEF RunStates, Resting
  <2> QED BY <1>1, <1>2, <2>5 DEF DeadlinePasses, MirrorInv, MirrorTypes
<1>4. y.pc = x.pc /\ (x.pc # "idle" => y.at = x.at)
      /\ (x.pc \in {"hydrating", "writing", "moving"} => y.next = x.next)
      /\ (x.pc = "hydrating" => y.ids = x.ids) /\ (x.pc = "writing" => y.sets = x.sets)
  BY <1>1, <1>2 DEF RunStates, Resting, Asking, Paged, Judged
<1>5. ~overlapped => RunInv(x)
  BY <1>1, RunIs
<1>6. ~overlapped => RunInv(y)'
  BY <1>4, <1>5
     DEF RunInv, PageRead, PageJudged, PageDone, Within, Fine, Excused, DeadlinePasses,
         catalogVars, answerVars
<1>7. ~overlapped => Past'
  BY RunIs DEF Past, Fine, Excused, DeadlinePasses, catalogVars, answerVars
<1> QED BY <1>3, <1>6, <1>7, OneMoves, FitStays, BareStays
       DEF DeadlinePasses, MirrorInv, MirrorTypes, catalogVars, answerVars

\* The cursor a page is followed by is its last stamp, if there is one, and every work
\* from the old cursor to the new one is on the page.
LEMMA PageIsWhole ==
  ASSUME MirrorInv, NEW at \in Nat, NEW next \in NextCursors(at), NEW w \in Works,
         Within(w, at, next)
  PROVE  w \in Page(at)
<1> DEFINE Before(v) == {u \in Works : at < stamp[u] /\ stamp[u] < stamp[v]}
<1>1. next # 0
  BY DEF Within, MirrorInv, MirrorTypes
<1>2. PICK v \in Page(at) : next = stamp[v]
  BY <1>1 DEF NextCursors, Latest
<1>3. v \in Works /\ Cardinality(Before(v)) < PageSize
  BY <1>2 DEF Page
<1>4. Before(w) \in SUBSET Before(v)
  BY <1>2, <1>3 DEF Within, MirrorInv, MirrorTypes
<1>5. IsFiniteSet(Before(v))
  BY ListedAssumption, FS_Subset
<1>6. /\ Cardinality(Before(w)) <= Cardinality(Before(v))
      /\ Cardinality(Before(w)) \in Nat /\ Cardinality(Before(v)) \in Nat
  BY <1>4, <1>5, FS_Subset, FS_CardinalityType
<1>7. Cardinality(Before(w)) < PageSize
  BY <1>3, <1>6, PagesAssumption
<1> QED BY <1>7 DEF Page, Within

LEMMA NextIsPast ==
  ASSUME MirrorInv, NEW at \in Nat, NEW next \in NextCursors(at)
  PROVE  next \in Nat /\ next <= now
<1>1. CASE next = 0
  BY <1>1 DEF MirrorInv, MirrorTypes
<1>2. CASE \E v \in Page(at) : next = stamp[v]
  BY <1>2 DEF Page, MirrorInv, MirrorTypes
<1> QED BY <1>1, <1>2 DEF NextCursors, Latest

LEMMA ChangesKeeps ==
  ASSUME MirrorInv, NEW r \in Runs, Changes(r)
  PROVE  MirrorInv'
<1>1. PICK x \in RunStates : x = run[r]
  BY RunIs
<1>2. x.pc = "asking" /\ x \in Asking
  BY <1>1 DEF Changes, RunAt, RunStates, Resting, Paged, Judged
<1> DEFINE ids == {w \in Page(x.at) : verdict[w] # "gone"}
<1>3. PICK next \in NextCursors(x.at) :
        run' = [run EXCEPT ![r] = [pc |-> IF ids = {} THEN "moving" ELSE "hydrating",
                                   at |-> x.at, pages |-> x.pages + 1,
                                   late |-> FALSE, next |-> next, ids |-> ids]]
  BY <1>1 DEF Changes
<1>4. PICK y : y = [pc |-> IF ids = {} THEN "moving" ELSE "hydrating",
                    at |-> x.at, pages |-> x.pages + 1,
                    late |-> FALSE, next |-> next, ids |-> ids]
  OBVIOUS
<1>5. x.at \in Nat /\ x.pages \in Nat
  BY <1>2 DEF Asking
<1>6. next \in Nat /\ next <= now
  BY <1>5, NextIsPast
<1>7. ids \subseteq Works
  BY DEF Page
<1>8. y \in Paged
  BY <1>4, <1>5, <1>6, <1>7 DEF Paged
<1>9. run' \in [Runs -> RunStates] /\ run'[r] = y
      /\ \A o \in Runs : o # r => run'[o] = run[o]
  <2>1. y \in RunStates
    BY <1>8 DEF RunStates
  <2> QED BY <1>3, <1>4, <2>1 DEF MirrorInv, MirrorTypes
<1>10. UNCHANGED <<catalogVars, overlapped, limit, cursor, answers, outdated>>
  BY DEF Changes, answerVars
<1>11. \A w \in Works : Within(w, y.at, y.next) => w \in Page(x.at)
  BY <1>4, <1>5, PageIsWhole
<1>12. PageRead(y) /\ (ids = {} => PageDone(y))
  BY <1>4, <1>11 DEF PageRead, PageDone, Fine, Excused, Page
<1>13. ~overlapped => Past' /\ RunInv(y)'
  <2> SUFFICES ASSUME ~overlapped PROVE Past' /\ RunInv(y)'
    OBVIOUS
  <2>1. x.at = cursor
    BY <1>1, <1>2, RunIs DEF RunInv
  <2>2. PageRead(y)' /\ (ids = {} => PageDone(y)')
    BY <1>10, <1>12 DEF PageRead, PageDone, Within, Fine, Excused, catalogVars
  <2>3. Past'
    BY <1>10, RunIs DEF Past, Fine, Excused, catalogVars
  <2>4. y.pc \in {"hydrating", "moving"} /\ (y.pc = "moving" => ids = {})
        /\ y.at = x.at /\ y.next = next
    BY <1>4
  <2>5. RunInv(y)'
    BY <2>1, <2>2, <2>4, <1>6, <1>10 DEF RunInv, catalogVars
  <2> QED BY <2>3, <2>5
<1> QED BY <1>9, <1>10, <1>13, OneMoves, FitStays, BareStays
       DEF MirrorInv, MirrorTypes, catalogVars, RunAt, Changes

LEMMA VerdictsKeeps ==
  ASSUME MirrorInv, NEW r \in Runs, DisplayVerdicts(r)
  PROVE  MirrorInv'
<1>1. PICK x \in RunStates : x = run[r]
  BY RunIs
<1>2. x.pc = "hydrating" /\ x \in Paged
  BY <1>1 DEF DisplayVerdicts, RunAt, RunStates, Resting, Asking, Judged
<1>3. PICK body : body = IF x.ids \in DOMAIN answers THEN answers[x.ids].body ELSE VerdictsOf(x.ids)
  OBVIOUS
<1> DEFINE found == {w \in DOMAIN body : MirrorGID(w) # NoAnchor}
           of(l) == {MirrorGID(w) : w \in {v \in found : body[v] = l}}
           sets == {<<l, of(l)>> : l \in {a \in Axis : of(a) # {}}}
           wrong == {w \in x.ids : verdict[w] # "gone"
                                   /\ ~(w \in DOMAIN body /\ body[w] = verdict[w])}
<1>4. PICK y : y = [pc |-> IF found = {} THEN "moving" ELSE "writing",
                    at |-> x.at, pages |-> x.pages, late |-> FALSE, next |-> x.next,
                    sets |-> sets]
  OBVIOUS
<1>5. /\ run' = [run EXCEPT ![r] = y]
      /\ outdated' = (outdated \ x.ids) \cup wrong
      /\ UNCHANGED <<catalogVars, overlapped, limit, cursor>>
      /\ \/ UNCHANGED answers
         \/ answers' = [k \in DOMAIN answers \cup {x.ids} |->
                         IF k = x.ids THEN [body |-> body, aged |-> FALSE] ELSE answers[k]]
  BY <1>1, <1>3, <1>4 DEF DisplayVerdicts
<1>6. x.at \in Nat /\ x.pages \in Nat /\ x.next \in Nat /\ x.ids \subseteq Works
  BY <1>2 DEF Paged
<1>7. DOMAIN body \subseteq x.ids /\ \A w \in DOMAIN body : body[w] \in Axis
  <2>1. CASE x.ids \in DOMAIN answers
    BY <1>3, <2>1 DEF MirrorInv, AnswersFit
  <2>2. CASE x.ids \notin DOMAIN answers
    BY <1>3, <1>6, <2>2 DEF VerdictsOf, MirrorInv, MirrorTypes, Verdicts
  <2> QED BY <2>1, <2>2
<1>8. AnswersFit'
  BY <1>5, <1>7 DEF MirrorInv, AnswersFit
<1>9. sets \subseteq Axis \X SUBSET Anchors
  BY <1>6, <1>7 DEF Anchors, MirrorGID
<1>10. y \in Judged
  BY <1>4, <1>6, <1>9 DEF Judged
<1>11. run' \in [Runs -> RunStates] /\ run'[r] = y
       /\ \A o \in Runs : o # r => run'[o] = run[o]
  <2>1. y \in RunStates
    BY <1>10 DEF RunStates
  <2> QED BY <1>5, <2>1 DEF MirrorInv, MirrorTypes
<1>12. ~overlapped => Past' /\ RunInv(y)'
  <2> SUFFICES ASSUME ~overlapped PROVE Past' /\ RunInv(y)'
    OBVIOUS
  <2>1. RunInv(x) /\ PageRead(x) /\ x.at = cursor /\ x.next <= now /\ Past
    BY <1>1, <1>2, RunIs DEF RunInv
  <2>2. y.pc = (IF found = {} THEN "moving" ELSE "writing")
        /\ y.at = x.at /\ y.next = x.next /\ y.sets = sets
    BY <1>4
  <2>3. \A w \in x.ids : Excused(w)' \/ (w \in DOMAIN body /\ body[w] = verdict[w])
    BY <1>5, <1>6 DEF Excused, catalogVars
  <2>4. \A s \in sets : \A w \in Works : Anchor[w] \in s[2] =>
          w \in DOMAIN body /\ body[w] = s[1]
    BY <1>6, <1>7, AnchorAssumption DEF MirrorGID
  <2>5. \A w \in DOMAIN body : Anchor[w] # NoAnchor =>
          \E s \in sets : s[1] = body[w] /\ Anchor[w] \in s[2]
    <3> SUFFICES ASSUME NEW w \in DOMAIN body, Anchor[w] # NoAnchor
                 PROVE  \E s \in sets : s[1] = body[w] /\ Anchor[w] \in s[2]
      OBVIOUS
    <3>1. body[w] \in Axis /\ Anchor[w] \in of(body[w])
      BY <1>7 DEF MirrorGID
    <3>2. <<body[w], of(body[w])>> \in sets
      BY <3>1
    <3> QED BY <3>1, <3>2
  <2>6. \A w \in Works : Anchor[w] = NoAnchor => Fine(w)'
    BY <1>5, AnchorAssumption DEF Fine, MirrorInv, MirrorTypes
  <2>7. \A w \in Works : Within(w, x.at, x.next)' => Within(w, x.at, x.next)
    BY <1>5 DEF Within, catalogVars
  <2>8. \A w \in Works : Within(w, x.at, x.next) => w \in x.ids \/ Excused(w)'
    BY <2>1, <1>5 DEF PageRead, Excused, catalogVars
  <2>9. \A w \in Works : Within(w, x.at, x.next) =>
          Fine(w)' \/ \E s \in sets : s[1] = verdict[w] /\ Anchor[w] \in s[2]
    <3> SUFFICES ASSUME NEW w \in Works, Within(w, x.at, x.next), ~Fine(w)'
                 PROVE  \E s \in sets : s[1] = verdict[w] /\ Anchor[w] \in s[2]
      OBVIOUS
    <3>1. ~Excused(w)' /\ Anchor[w] # NoAnchor
      BY <2>6 DEF Fine
    <3>2. w \in DOMAIN body /\ body[w] = verdict[w]
      BY <2>3, <2>8, <3>1
    <3> QED BY <2>5, <3>1, <3>2
  <2>10. PageJudged(y)'
    <3>1. \A s \in sets : \A w \in Works : Anchor[w] \in s[2] =>
            x.at < stamp[w] /\ (Excused(w)' \/ s[1] = verdict[w])
      BY <2>1, <2>3, <2>4, <1>7 DEF PageRead
    <3> QED BY <3>1, <2>2, <2>7, <2>9, <1>5 DEF PageJudged, catalogVars
  <2>11. found = {} => PageDone(y)'
    <3> SUFFICES ASSUME found = {} PROVE PageDone(y)'
      OBVIOUS
    <3>1. sets = {}
      OBVIOUS
    <3> QED BY <3>1, <2>2, <2>7, <2>9 DEF PageDone
  <2>12. Past'
    <3> SUFFICES ASSUME NEW w \in Works, stamp[w] <= cursor PROVE Fine(w)'
      BY <2>1, <1>5 DEF Past, catalogVars
    <3>1. w \notin x.ids
      BY <2>1, <1>6 DEF PageRead, MirrorInv, MirrorTypes
    <3>2. Fine(w) /\ (w \in outdated <=> w \in outdated')
      BY <2>1, <3>1, <1>5 DEF Past
    <3> QED BY <3>2, <1>5 DEF Fine, Excused, catalogVars
  <2>13. RunInv(y)'
    BY <2>1, <2>2, <2>10, <2>11, <1>5 DEF RunInv, catalogVars
  <2> QED BY <2>12, <2>13
<1> QED BY <1>5, <1>8, <1>11, <1>12, OneMoves, BareStays
       DEF MirrorInv, MirrorTypes, catalogVars, RunAt, DisplayVerdicts

LEMMA WriteKeeps ==
  ASSUME MirrorInv, NEW r \in Runs, WriteVerdicts(r)
  PROVE  MirrorInv'
<1>1. PICK x \in RunStates : x = run[r]
  BY RunIs
<1>2. x.pc = "writing" /\ x \in Judged
  BY <1>1 DEF WriteVerdicts, RunAt, RunStates, Resting, Asking, Paged
<1>3. PICK set \in x.sets :
        /\ limit' = [p \in DOMAIN limit |-> IF p \in set[2] THEN set[1] ELSE limit[p]]
        /\ run' = [run EXCEPT ![r].sets = x.sets \ {set},
                              ![r].pc = IF x.sets \ {set} = {} THEN "moving" ELSE "writing"]
  BY <1>1 DEF WriteVerdicts
<1> DEFINE left == x.sets \ {set}
<1>4. PICK y : y = [x EXCEPT !.sets = left, !.pc = IF left = {} THEN "moving" ELSE "writing"]
  OBVIOUS
<1>5. x.at \in Nat /\ x.pages \in Nat /\ x.late \in BOOLEAN /\ x.next \in Nat
      /\ x.sets \subseteq Axis \X SUBSET Anchors
  BY <1>2 DEF Judged
<1>6. y \in Judged
  <2>1. left \in SUBSET (Axis \X SUBSET Anchors)
    BY <1>5
  <2>2. (IF left = {} THEN "moving" ELSE "writing") \in {"writing", "moving"}
    OBVIOUS
  <2> QED BY <1>2, <1>4, <2>1, <2>2 DEF Judged
<1>7. run' \in [Runs -> RunStates] /\ run'[r] = y
      /\ \A o \in Runs : o # r => run'[o] = run[o]
  <2>1. y \in RunStates
    BY <1>6 DEF RunStates
  <2>2. run \in [Runs -> RunStates]
    BY DEF MirrorInv, MirrorTypes
  <2>3. run' = [run EXCEPT ![r] = y]
    BY <1>1, <1>3, <1>4, <2>2
  <2> QED BY <2>1, <2>2, <2>3
<1>8. UNCHANGED <<catalogVars, overlapped, cursor, answers, outdated>>
  BY DEF WriteVerdicts, answerVars
<1>9. DOMAIN limit' = DOMAIN limit
      /\ \A p \in DOMAIN limit : limit'[p] = IF p \in set[2] THEN set[1] ELSE limit[p]
  BY <1>3
<1>10. BareUnset'
  <2>1. set[2] \subseteq Anchors
    BY <1>5
  <2>2. \A p \in set[2] : AnchoredTo(p) # {}
    BY <2>1 DEF Anchors, AnchoredTo
  <2> QED BY <2>2, <1>9 DEF MirrorInv, BareUnset, AnchoredTo
<1>11. \A w \in Works : Excused(w) <=> Excused(w)'
  BY <1>8 DEF Excused, catalogVars
<1>12. ~overlapped => Past' /\ RunInv(y)'
  <2> SUFFICES ASSUME ~overlapped PROVE Past' /\ RunInv(y)'
    OBVIOUS
  <2>1. PageJudged(x) /\ x.at = cursor /\ x.next <= now /\ Past
    BY <1>1, <1>2, RunIs DEF RunInv
  <2>2. y.pc = (IF left = {} THEN "moving" ELSE "writing")
        /\ y.at = x.at /\ y.next = x.next /\ y.sets = left
    BY <1>2, <1>4 DEF Judged
  <2>3. \A w \in Works : Anchor[w] \in set[2] =>
          x.at < stamp[w] /\ (stamp[w] <= x.next => Excused(w) \/ set[1] = verdict[w])
    BY <2>1 DEF PageJudged
  <2>4. \A w \in Works : Fine(w) /\ stamp[w] <= x.next => Fine(w)'
    BY <2>3, <1>8, <1>9, <1>11 DEF Fine, catalogVars
  <2>5. \A w \in Works : Fine(w) /\ stamp[w] <= cursor => Fine(w)'
    <3> SUFFICES ASSUME NEW w \in Works, Fine(w), stamp[w] <= cursor PROVE Fine(w)'
      OBVIOUS
    <3>1. Anchor[w] \notin set[2]
      BY <2>1, <2>3 DEF MirrorInv, MirrorTypes
    <3> QED BY <3>1, <1>8, <1>9, <1>11 DEF Fine, catalogVars
  <2>6. \A w \in Works : Anchor[w] \in set[2] /\ stamp[w] <= x.next => Fine(w)'
    BY <2>3, <1>8, <1>9, <1>11 DEF Fine, catalogVars
  <2>7. Past'
    BY <2>1, <2>5, <1>8 DEF Past, catalogVars
  <2>8. \A w \in Works : Within(w, y.at, y.next) =>
          Fine(w)' \/ \E s \in left : s[1] = verdict[w] /\ Anchor[w] \in s[2]
    <3> SUFFICES ASSUME NEW w \in Works, Within(w, x.at, x.next)
                 PROVE  Fine(w)' \/ \E s \in left : s[1] = verdict[w] /\ Anchor[w] \in s[2]
      BY <2>2
    <3>1. stamp[w] <= x.next
      BY DEF Within
    <3>2. CASE Fine(w)
      BY <3>1, <3>2, <2>4
    <3>3. CASE \E s \in x.sets : s[1] = verdict[w] /\ Anchor[w] \in s[2]
      BY <3>1, <3>3, <2>6
    <3> QED BY <3>2, <3>3, <2>1 DEF PageJudged
  <2>9. PageJudged(y)'
    <3>1. \A s \in left : \A w \in Works : Anchor[w] \in s[2] =>
            x.at < stamp[w] /\ (stamp[w] <= x.next => Excused(w)' \/ s[1] = verdict[w])
      BY <2>1, <1>11 DEF PageJudged
    <3> QED BY <3>1, <2>8, <2>2, <1>8 DEF PageJudged, Within, catalogVars
  <2>10. left = {} => PageDone(y)'
    BY <2>8, <1>8 DEF PageDone, Within, catalogVars
  <2>11. RunInv(y)'
    BY <2>1, <2>2, <2>9, <2>10, <1>8 DEF RunInv, catalogVars
  <2> QED BY <2>7, <2>11
<1> QED BY <1>7, <1>8, <1>9, <1>10, <1>12, OneMoves, FitStays
       DEF MirrorInv, MirrorTypes, catalogVars, RunAt, WriteVerdicts

LEMMA MoveKeeps ==
  ASSUME MirrorInv, NEW r \in Runs, MoveCursor(r)
  PROVE  MirrorInv'
<1>1. PICK x \in RunStates : x = run[r]
  BY RunIs
<1>2. x.pc = "moving" /\ x \in Paged \cup Judged
  BY <1>1 DEF MoveCursor, RunAt, RunStates, Resting, Asking
<1>3. x.next \in Nat /\ x.at \in Nat /\ x.pages \in Nat /\ x.late \in BOOLEAN
  BY <1>2 DEF Paged, Judged
<1>4. UNCHANGED <<catalogVars, limit, answerVars, overlapped>>
  BY DEF MoveCursor
<1>5. CASE x.next = 0
  BY <1>1, <1>4, <1>5, EndKeeps DEF MoveCursor, RunAt
<1>6. CASE x.next # 0
  <2>1. cursor' = x.next /\ NextPage(r, x.next)
    BY <1>1, <1>6 DEF MoveCursor
  <2>2. PICK y : y = IF x.pages < MaxPages
                       THEN [pc |-> "asking", at |-> x.next, pages |-> x.pages, late |-> x.late]
                       ELSE Resting
    OBVIOUS
  <2>3. run' = [run EXCEPT ![r] = y]
    BY <1>1, <2>1, <2>2 DEF NextPage, Ended
  <2>4. y \in RunStates /\ (y = Resting \/ (y \in Asking /\ y.at = x.next))
    BY <2>2, <1>3 DEF RunStates, Asking
  <2>5. run' \in [Runs -> RunStates] /\ run'[r] = y
        /\ \A o \in Runs : o # r => run'[o] = run[o]
    BY <2>3, <2>4 DEF MirrorInv, MirrorTypes
  <2>6. ~overlapped => x.next <= now /\ x.at = cursor /\ PageDone(x) /\ Past
    BY <1>1, <1>2, RunIs DEF RunInv
  <2>7. RunInv(y)'
    BY <2>1, <2>4 DEF RunInv, Resting, Asking
  <2>8. ~overlapped => Past'
    <3>1. \A w \in Works : Fine(w) => Fine(w)'
      BY <1>4 DEF Fine, Excused, catalogVars, answerVars
    <3> QED BY <2>1, <2>6, <3>1, <1>3, <1>4
           DEF Past, PageDone, Within, catalogVars, MirrorInv, MirrorTypes
  <2> QED BY <2>1, <2>5, <2>7, <2>8, <1>3, <1>4, OneMoves, FitStays, BareStays
         DEF MirrorInv, MirrorTypes, RunAt, MoveCursor, catalogVars, answerVars
<1> QED BY <1>5, <1>6

LEMMA MirrorKeeps ==
  ASSUME MirrorInv, MirrorNext
  PROVE  MirrorInv'
<1>1. ASSUME NEW r \in Runs, GivesUp(r) PROVE MirrorInv'
  BY <1>1, EndKeeps DEF GivesUp, RunAt
<1>2. ASSUME NEW r \in Runs, RunFails(r) PROVE MirrorInv'
  BY <1>2, EndKeeps DEF RunFails
<1> QED BY <1>1, <1>2, RowKeeps, ExpiryKeeps, TickKeeps, DeadlineKeeps, ChangesKeeps, VerdictsKeeps,
           WriteKeeps, MoveKeeps DEF MirrorNext, RunStep

\* Nothing of the mirror moves.
LEMMA MirrorRests ==
  ASSUME MirrorInv, UNCHANGED mirrorVars
  PROVE  MirrorInv'
<1>1. MirrorTypes' /\ AnswersFit' /\ BareUnset'
  BY FitStays, BareStays DEF MirrorInv, MirrorTypes, mirrorVars, catalogVars, answerVars
<1>2. \A w : (Fine(w) <=> Fine(w)') /\ (Excused(w) <=> Excused(w)')
  BY DEF Fine, Excused, mirrorVars, catalogVars, answerVars
<1>3. ASSUME NEW x, RunInv(x) PROVE RunInv(x)'
  BY <1>2, <1>3 DEF RunInv, PageRead, PageJudged, PageDone, Within, mirrorVars, catalogVars
<1>4. ~overlapped' => OneRun' /\ Past' /\ \A r \in Runs : RunInv(run[r])'
  BY <1>2, <1>3 DEF MirrorInv, OneRun, RunAt, Past, mirrorVars, catalogVars
<1> QED BY <1>1, <1>4 DEF MirrorInv, mirrorVars, catalogVars

-----------------------------------------------------------------------------
(***************************************************************************)
(* The readers' invariant.                                                 *)
(***************************************************************************)
\* The catalog has said v of w within the last n minutes.
Said(w, v, n) == v \in Verdicts /\ (v = verdict[w] \/ since[w][v] <= n)

\* An answer about ids, asked for with a limit, that is at most n minutes old: it names
\* works that the catalog then let through, and it names all of those.
Sound(body, ids, gate, n) ==
  /\ DOMAIN body \subseteq ids
  /\ \A w \in DOMAIN body : Fits(body[w], gate) /\ Said(w, body[w], n)
  /\ \A w \in ids \ DOMAIN body : \E v \in Verdicts : ~Fits(v, gate) /\ Said(w, v, n)

\* What a read is for: works, those that ids of patches stand for where there are rows to
\* be found, a limit of the reader's, or none, and the rows it was narrowed by.
Asked(ask) ==
  /\ ask = Ask(ask.rows, ask.ids, ask.joined, ask.gate, ask.limit, ask.filter)
  /\ ask.ids \subseteq Works /\ ask.gate \in {ask.limit, "all"}
  /\ ask.joined \/ \E p : ask.rows = {p} /\ ask.ids = Resolve(p)
  /\ ask.filter # NoFilter =>
       /\ ask.joined /\ ask.gate = ask.limit
       /\ ask.rows = {p \in DOMAIN ask.filter :
                       ask.limit = "all" \/ ask.filter[p] \in {Unset, ask.limit}}
       /\ \A p \in ask.rows : Resolve(p) \subseteq ask.ids

CacheInv ==
  \A k \in DOMAIN cache :
    /\ cache[k].age \in 0 .. TTL
    /\ k[1] \subseteq Works
    /\ Sound(cache[k].body, k[1], k[2], cache[k].age + 1)

Minutes(x) == IF x.held THEN 1 ELSE 0

ReaderOk(x) ==
  /\ x.pc \in {"calling", "holding"} => Asked(x.ask)
  /\ x.pc = "holding" =>
       /\ x = [pc |-> "holding", ask |-> x.ask, held |-> x.held, body |-> x.body]
       /\ x.held \in BOOLEAN
       /\ Sound(x.body, x.ask.ids, x.ask.gate, Minutes(x))

ReadInv ==
  /\ since \in [Works -> [Verdicts -> Nat]]
  /\ reader = [q \in Readers |-> reader[q]]
  /\ CacheInv
  /\ \A q \in Readers : ReaderOk(reader[q])

DisplayInv == MirrorInv /\ ReadInv

-----------------------------------------------------------------------------
(***************************************************************************)
(* The readers' steps.                                                     *)
(***************************************************************************)
\* An answer grows old no faster than what it says.
LEMMA SoundLasts ==
  ASSUME NEW body, NEW ids \in SUBSET Works, NEW gate, NEW n, NEW m,
         Sound(body, ids, gate, n),
         \A w \in Works : \A v : Said(w, v, n) => Said(w, v, m)'
  PROVE  Sound(body, ids, gate, m)'
  BY DEF Sound

\* Nothing that sounds are made of moves.
LEMMA SoundStays ==
  ASSUME NEW body, NEW ids, NEW gate, NEW n, Sound(body, ids, gate, n),
         UNCHANGED <<verdict, since>>
  PROVE  Sound(body, ids, gate, n)'
  BY DEF Sound, Said

\* Only the catalog changes verdicts.
LEMMA MirrorLeaves == MirrorNext => UNCHANGED verdict
  BY DEF MirrorNext, CreateRow, AnswerExpires, Tick, RunStep, Changes, DisplayVerdicts, WriteVerdicts,
         MoveCursor, GivesUp, DeadlinePasses, RunFails, catalogVars

\* The readers and the cache rest, and nothing that was said is forgotten.
LEMMA ReadersRest ==
  ASSUME ReadInv, UNCHANGED <<cache, reader>>, since' \in [Works -> [Verdicts -> Nat]],
         \A w \in Works : \A v : \A n \in Nat : Said(w, v, n) => Said(w, v, n)'
  PROVE  ReadInv'
<1>1. CacheInv'
  <2> SUFFICES ASSUME NEW k \in DOMAIN cache
               PROVE  /\ cache[k].age \in 0 .. TTL
                      /\ k[1] \subseteq Works
                      /\ Sound(cache[k].body, k[1], k[2], cache[k].age + 1)'
    BY DEF CacheInv
  <2>1. /\ cache[k].age \in 0 .. TTL
        /\ k[1] \subseteq Works
        /\ Sound(cache[k].body, k[1], k[2], cache[k].age + 1)
    BY DEF ReadInv, CacheInv
  <2>2. PICK body, n : body = cache[k].body /\ n = cache[k].age + 1
    OBVIOUS
  <2>3. n \in Nat /\ Sound(body, k[1], k[2], n)
    BY <2>1, <2>2, TTLAssumption
  <2>4. Sound(body, k[1], k[2], n)'
    BY <2>1, <2>3, SoundLasts
  <2>5. cache'[k].body = body /\ cache'[k].age + 1 = n
    BY <2>2
  <2> QED BY <2>1, <2>4, <2>5
<1>2. ASSUME NEW q \in Readers PROVE ReaderOk(reader[q])'
  <2>1. PICK x : x = reader[q]
    OBVIOUS
  <2>2. ReaderOk(x) /\ reader'[q] = x
    BY <2>1 DEF ReadInv
  <2>3. x.pc = "holding" => Sound(x.body, x.ask.ids, x.ask.gate, Minutes(x))'
    <3> SUFFICES ASSUME x.pc = "holding"
                 PROVE  Sound(x.body, x.ask.ids, x.ask.gate, Minutes(x))'
      OBVIOUS
    <3>1. Sound(x.body, x.ask.ids, x.ask.gate, Minutes(x)) /\ x.ask.ids \subseteq Works
      BY <2>2 DEF ReaderOk, Asked
    <3>2. PICK n : n = Minutes(x)
      OBVIOUS
    <3>3. n \in Nat /\ Minutes(x)' = n
      BY <3>2 DEF Minutes
    <3> QED BY <3>1, <3>2, <3>3, SoundLasts
  <2>4. ReaderOk(x)'
    BY <2>2, <2>3 DEF ReaderOk, Asked
  <2> QED BY <2>2, <2>4
<1>3. reader' = [q \in Readers |-> reader'[q]]
  BY DEF ReadInv
<1> QED BY <1>1, <1>2, <1>3 DEF ReadInv

LEMMA ChangeKeepsReads ==
  ASSUME DisplayInv, NEW w \in Works, ChangeWork(w),
         since' = [since EXCEPT ![w][verdict[w]] = 0], UNCHANGED <<cache, reader>>
  PROVE  ReadInv'
<1>1. since \in [Works -> [Verdicts -> Nat]] /\ verdict \in [Works -> Verdicts]
  BY DEF DisplayInv, ReadInv, MirrorInv, MirrorTypes
<1>2. since' \in [Works -> [Verdicts -> Nat]]
  BY <1>1
<1>3. \A u \in Works : u # w => since'[u] = since[u] /\ verdict'[u] = verdict[u]
  BY <1>1 DEF ChangeWork
<1>4. since'[w][verdict[w]] = 0
      /\ \A v \in Verdicts : v # verdict[w] => since'[w][v] = since[w][v]
  BY <1>1
<1>5. \A u \in Works : \A v : \A n \in Nat : Said(u, v, n) => Said(u, v, n)'
  <2> SUFFICES ASSUME NEW u \in Works, NEW v, NEW n \in Nat, Said(u, v, n)
               PROVE  Said(u, v, n)'
    OBVIOUS
  <2>1. CASE u # w
    BY <2>1, <1>3 DEF Said
  <2>2. CASE u = w
    BY <2>2, <1>4 DEF Said
  <2> QED BY <2>1, <2>2
<1> QED BY <1>2, <1>5, ReadersRest DEF DisplayInv

LEMMA RestKeepsReads ==
  ASSUME ReadInv, UNCHANGED <<verdict, readVars>>
  PROVE  ReadInv'
<1>1. since' = since /\ verdict' = verdict /\ UNCHANGED <<cache, reader>>
  BY DEF readVars
<1>2. \A w \in Works : \A v : \A n \in Nat : Said(w, v, n) => Said(w, v, n)'
  BY <1>1 DEF Said
<1> QED BY <1>1, <1>2, ReadersRest DEF ReadInv

\* A minute makes everything a minute older.
LEMMA MinuteKeeps ==
  ASSUME DisplayInv, Minute
  PROVE  ReadInv'
<1>1. since \in [Works -> [Verdicts -> Nat]] /\ verdict \in [Works -> Verdicts]
      /\ verdict' = verdict /\ TTL \in Nat
  BY TTLAssumption DEF DisplayInv, ReadInv, MirrorInv, MirrorTypes, Minute, mirrorVars, catalogVars
<1>2. \A w \in Works : \A v \in Verdicts :
        since'[w][v] = IF v = verdict[w] THEN 0
                       ELSE IF since[w][v] < Old THEN since[w][v] + 1 ELSE Old
  BY DEF Minute
<1>3. since' \in [Works -> [Verdicts -> Nat]]
  BY <1>1 DEF Minute, Old
<1>4. \A n \in 0 .. TTL + 1 : \A w \in Works : \A v : Said(w, v, n) => Said(w, v, n + 1)'
  BY <1>1, <1>2 DEF Said, Old
<1>5. CacheInv'
  <2>1. DOMAIN cache' = {j \in DOMAIN cache : cache[j].age < TTL}
        /\ \A k \in DOMAIN cache' :
             cache'[k] = [body |-> cache[k].body, age |-> cache[k].age + 1]
    BY DEF Minute
  <2> SUFFICES ASSUME NEW k \in DOMAIN cache'
               PROVE  /\ cache'[k].age \in 0 .. TTL
                      /\ k[1] \subseteq Works
                      /\ Sound(cache[k].body, k[1], k[2], cache[k].age + 1)'
    BY DEF CacheInv
  <2>2. PICK body, n : body = cache[k].body /\ n = cache[k].age
    OBVIOUS
  <2>3. n \in 0 .. TTL /\ n < TTL /\ k[1] \subseteq Works /\ Sound(body, k[1], k[2], n + 1)
    BY <2>1, <2>2 DEF DisplayInv, ReadInv, CacheInv
  <2>4. cache'[k].body = body /\ cache'[k].age = n + 1
    <3>1. cache'[k] = [body |-> cache[k].body, age |-> cache[k].age + 1]
      BY <2>1
    <3> QED BY <3>1, <2>2
  <2>5. Sound(body, k[1], k[2], n + 2)'
    <3>1. \A w \in Works : \A v : Said(w, v, n + 1) => Said(w, v, n + 2)'
      <4>1. n + 1 \in 0 .. TTL + 1 /\ (n + 1) + 1 = n + 2
        BY <2>3, <1>1
      <4> QED BY <4>1, <1>4
    <3> QED BY <3>1, <2>3, SoundLasts
  <2>6. n + 1 \in 0 .. TTL /\ (n + 1) + 1 = n + 2
    BY <2>3, <1>1
  <2> QED BY <2>3, <2>4, <2>5, <2>6
<1>6. ASSUME NEW q \in Readers PROVE ReaderOk(reader[q])'
  <2>1. PICK x : x = reader[q]
    OBVIOUS
  <2>2. ReaderOk(x)
    BY <2>1 DEF DisplayInv, ReadInv
  <2>3. x.pc \in {"idle", "calling", "holding"} /\ (x.pc = "holding" => ~x.held)
    BY <2>1 DEF Minute, DisplayAt
  <2>4. reader'[q] = IF x.pc = "holding" THEN [x EXCEPT !.held = TRUE] ELSE x
    BY <2>1 DEF Minute, DisplayAt
  <2>5. CASE x.pc # "holding"
    BY <2>2, <2>4, <2>5 DEF ReaderOk, Asked
  <2>6. CASE x.pc = "holding"
    <3>1. PICK y : y = [pc |-> "holding", ask |-> x.ask, held |-> TRUE, body |-> x.body]
      OBVIOUS
    <3>2. reader'[q] = y
      BY <2>2, <2>4, <2>6, <3>1 DEF ReaderOk
    <3>3. Sound(x.body, x.ask.ids, x.ask.gate, 0) /\ x.ask.ids \subseteq Works
      BY <2>2, <2>3, <2>6 DEF ReaderOk, Minutes, Asked
    <3>4. \A w \in Works : \A v : Said(w, v, 0) => Said(w, v, 1)'
      <4>1. 0 \in 0 .. TTL + 1 /\ 0 + 1 = 1
        BY <1>1
      <4> QED BY <4>1, <1>4
    <3>5. Sound(x.body, x.ask.ids, x.ask.gate, 1)'
      BY <3>3, <3>4, SoundLasts
    <3>6. y.held /\ y.body = x.body /\ y.ask = x.ask /\ y.pc = "holding"
      BY <3>1
    <3>7. Asked(y.ask)'
      BY <2>2, <2>6, <3>6 DEF ReaderOk, Asked
    <3>8. Sound(y.body, y.ask.ids, y.ask.gate, Minutes(y))'
      BY <3>5, <3>6 DEF Minutes
    <3>9. ReaderOk(y)'
      BY <3>1, <3>6, <3>7, <3>8 DEF ReaderOk
    <3> QED BY <3>2, <3>9
  <2> QED BY <2>5, <2>6
<1>7. reader' = [q \in Readers |-> reader'[q]]
  BY DEF Minute
<1> QED BY <1>3, <1>5, <1>6, <1>7 DEF ReadInv

\* What is asked is as it may be.
LEMMA RowsAsked ==
  ASSUME NEW rows, NEW l
  PROVE  Asked(OfRows(rows, l, NoFilter))
  BY DEF Asked, OfRows, Ask, Resolve

LEMMA ListAsked ==
  ASSUME NEW l
  PROVE  Asked(OfRows(Scoped(l), l, limit))
  BY DEF Asked, OfRows, Ask, Resolve, Scoped

LEMMA OneAsked ==
  ASSUME NEW p, NEW l
  PROVE  Asked(OfOne(p, l, l)) /\ Asked(OfOne(p, "all", l))
  BY DEF Asked, OfOne, Ask, Resolve

LEMMA WorksAsked ==
  ASSUME NEW ids \in SUBSET Works, NEW l
  PROVE  Asked(OfWorks(ids, l, l)) /\ Asked(OfWorks(ids, "all", l))
  BY DEF Asked, OfWorks, Ask

\* Every read is one of Reads.
LEMMA ReadsAre ==
  ASSUME NEW q \in Readers, Read(q),
         ~(Answer(q) \/ CacheSet(q) \/ CallFails(q) \/ Leave(q))
  PROVE  \E ask : Asked(ask) /\ Reads(q, ask)
<1>1. ASSUME NEW l, NEW found, SomeOf(q, found, l)
      PROVE  \E ask : Asked(ask) /\ Reads(q, ask)
  BY <1>1, RowsAsked DEF SomeOf
<1>2. ASSUME NEW l, SomeWorks(q, l)
      PROVE  \E ask : Asked(ask) /\ Reads(q, ask)
  BY <1>2, WorksAsked DEF SomeWorks
<1>3. PICK l \in Limits :
        ReadRows(q, l) \/ GetGalgameCalendar(q, l)
        \/ \E p \in Patches \cup Works : ReadOne(q, p, l)
  BY DEF Read
<1>4. CASE ReadRows(q, l)
  <2>1. CASE GetGalgameList(q, l)
    BY <2>1, ListAsked DEF GetGalgameList
  <2>2. CASE ~GetGalgameList(q, l)
    <3>1. SomeOf(q, Scoped(l), l) \/ SomeOf(q, DOMAIN limit, l) \/ SomeWorks(q, l)
      BY <1>4, <2>2 DEF ReadRows, GetHome, GetPatchRanking, SearchResources, GetUserPatches,
           GetUserFavorites, GetUserContributions, GetGlobalComments, GetGlobalResources,
           GetUserResources, GetUserComments, GetRandomPatchID, Recommend, CatalogLibrary,
           EntityWorks, TaxonomyMembers
    <3> QED BY <3>1, <1>1, <1>2
  <2> QED BY <2>1, <2>2
<1>5. CASE GetGalgameCalendar(q, l)
  BY <1>5, WorksAsked DEF GetGalgameCalendar
<1>6. ASSUME NEW p, ReadOne(q, p, l)
      PROVE  \/ Reads(q, OfOne(p, l, l)) \/ Reads(q, OfOne(p, "all", l))
             \/ Reads(q, OfRows({p}, l, NoFilter))
  BY <1>6 DEF ReadOne, GatePatch, GetPatch, GetPatchDetail, GetResourceDetail,
       GalgameOnlyCard, GalgameOnlyDetail, GetComments, GetResources, GetContributors,
       GetResourceComments, GetCommentMarkdown, LocateComment, GetResourceDownloadInfo
<1>7. ASSUME NEW p, ReadOne(q, p, l)
      PROVE  \E ask : Asked(ask) /\ Reads(q, ask)
  BY <1>6, <1>7, OneAsked, RowsAsked
<1> QED BY <1>3, <1>4, <1>5, <1>7

\* One reader moves; the cache and what was said do not.
LEMMA OneReader ==
  ASSUME ReadInv, NEW q \in Readers, NEW x, reader' = [reader EXCEPT ![q] = x],
         UNCHANGED <<verdict, since>>, CacheInv', ReaderOk(x)'
  PROVE  ReadInv'
<1>1. reader'[q] = x /\ \A o \in Readers : o # q => reader'[o] = reader[o]
  BY DEF ReadInv
<1>2. ASSUME NEW y, ReaderOk(y) PROVE ReaderOk(y)'
  BY <1>2, SoundStays DEF ReaderOk, Asked, Minutes
<1>3. \A o \in Readers : ReaderOk(reader[o])'
  BY <1>1, <1>2 DEF ReadInv
<1>4. reader' = [o \in Readers |-> reader'[o]]
  BY DEF ReadInv
<1> QED BY <1>3, <1>4 DEF ReadInv

LEMMA CacheStays ==
  ASSUME CacheInv, UNCHANGED <<cache, verdict, since>>
  PROVE  CacheInv'
<1> SUFFICES ASSUME NEW k \in DOMAIN cache
             PROVE  Sound(cache[k].body, k[1], k[2], cache[k].age + 1)'
  BY DEF CacheInv
<1>1. PICK body, n : body = cache[k].body /\ n = cache[k].age + 1
  OBVIOUS
<1>2. Sound(body, k[1], k[2], n)
  BY <1>1 DEF CacheInv
<1>3. Sound(body, k[1], k[2], n)'
  BY <1>2, SoundStays
<1> QED BY <1>1, <1>3

\* What is shown of an answer is what the limit lets through.
ShownOf(x, body, ask) ==
  x = Shown(ask, body) /\ Asked(ask) /\ Sound(body, ask.ids, ask.gate, TTL + 1)

LEMMA ReadsKeep ==
  ASSUME DisplayInv, NEW q \in Readers, NEW ask, Asked(ask), Reads(q, ask)
  PROVE  /\ ReadInv'
         /\ reader'[q].pc = "shown" => \E body : ShownOf(reader'[q], body, ask)
<1>1. UNCHANGED <<verdict, since, cache>>
  BY DEF Reads, mirrorVars, catalogVars
<1>2. CacheInv'
  BY <1>1, CacheStays DEF DisplayInv, ReadInv
<1>3. PICK key : key = <<ask.ids, ask.gate>> /\ key = ReadKey(ask.ids, ask.gate)
  BY DEF ReadKey
<1>4. ASSUME NEW body, Sound(body, ask.ids, ask.gate, TTL + 1),
             reader' = [reader EXCEPT ![q] = Shown(ask, body)]
      PROVE  ReadInv' /\ ShownOf(reader'[q], body, ask)
  <2>1. PICK x : x = Shown(ask, body)
    OBVIOUS
  <2>2. x.pc = "shown"
    BY <2>1 DEF Shown
  <2>3. ReaderOk(x)'
    BY <2>2 DEF ReaderOk
  <2>4. reader' = [reader EXCEPT ![q] = x] /\ reader'[q] = x
    BY <1>4, <2>1 DEF DisplayInv, ReadInv
  <2> QED BY <1>1, <1>2, <1>4, <2>1, <2>3, <2>4, OneReader DEF DisplayInv, ShownOf
<1>5. CASE ask.ids = {}
  <2>1. PICK body : body = <<>>
    OBVIOUS
  <2>2. Sound(body, ask.ids, ask.gate, TTL + 1)
    BY <1>5, <2>1 DEF Sound
  <2>3. reader' = [reader EXCEPT ![q] = Shown(ask, body)]
    BY <1>5, <2>1 DEF Reads
  <2> QED BY <1>4, <2>2, <2>3
<1>6. CASE ask.ids # {} /\ key \in DOMAIN cache
  <2>1. PICK body, n : body = cache[key].body /\ n = cache[key].age
    OBVIOUS
  <2>2. n \in 0 .. TTL /\ Sound(body, ask.ids, ask.gate, n + 1)
    BY <1>3, <1>6, <2>1 DEF DisplayInv, ReadInv, CacheInv
  <2>3. Sound(body, ask.ids, ask.gate, TTL + 1)
    BY <2>2, TTLAssumption DEF Sound, Said, Asked, DisplayInv, ReadInv
  <2>4. reader' = [reader EXCEPT ![q] = Shown(ask, body)]
    BY <1>3, <1>6, <2>1 DEF Reads
  <2> QED BY <1>4, <2>3, <2>4
<1>7. CASE ask.ids # {} /\ key \notin DOMAIN cache
  <2>1. PICK x : x = [pc |-> "calling", ask |-> ask]
    OBVIOUS
  <2>2. reader' = [reader EXCEPT ![q] = x]
    BY <1>3, <1>7, <2>1 DEF Reads
  <2>3. x.pc = "calling" /\ x.ask = ask
    BY <2>1
  <2>4. ReaderOk(x)'
    BY <2>3 DEF ReaderOk, Asked
  <2>5. reader'[q] = x
    BY <2>2 DEF DisplayInv, ReadInv
  <2> QED BY <1>1, <1>2, <2>2, <2>3, <2>4, <2>5, OneReader DEF DisplayInv
<1> QED BY <1>5, <1>6, <1>7

LEMMA AnswerKeeps ==
  ASSUME DisplayInv, NEW q \in Readers, Answer(q)
  PROVE  ReadInv' /\ reader'[q].pc = "holding"
<1>1. UNCHANGED <<verdict, since, cache>>
  BY DEF Answer, mirrorVars, catalogVars
<1>2. CacheInv'
  BY <1>1, CacheStays DEF DisplayInv, ReadInv
<1>3. PICK r : r = reader[q]
  OBVIOUS
<1>4. r.pc = "calling" /\ Asked(r.ask)
  BY <1>3 DEF Answer, DisplayAt, DisplayInv, ReadInv, ReaderOk
<1> DEFINE found == {w \in r.ask.ids : Fits(verdict[w], r.ask.gate)}
<1>5. PICK body : body = [w \in found |-> verdict[w]]
  OBVIOUS
<1>6. PICK x : x = [pc |-> "holding", ask |-> r.ask, held |-> FALSE, body |-> body]
  OBVIOUS
<1>7. reader' = [reader EXCEPT ![q] = x]
  BY <1>3, <1>5, <1>6 DEF Answer
<1>8. reader'[q] = x /\ x.pc = "holding"
  BY <1>6, <1>7 DEF DisplayInv, ReadInv
<1>9. Sound(body, r.ask.ids, r.ask.gate, 0)
  <2>1. \A w \in r.ask.ids : verdict[w] \in Verdicts
    BY <1>4 DEF Asked, DisplayInv, MirrorInv, MirrorTypes
  <2>2. DOMAIN body = found /\ \A w \in found : body[w] = verdict[w]
    BY <1>5
  <2> QED BY <2>1, <2>2 DEF Sound, Said
<1>10. Sound(body, r.ask.ids, r.ask.gate, 0)'
  BY <1>1, <1>9, SoundStays
<1>11. x.held = FALSE /\ x.body = body /\ x.ask = r.ask
  BY <1>6
<1>12. Asked(x.ask)'
  BY <1>4, <1>11 DEF Asked
<1>13. Sound(x.body, x.ask.ids, x.ask.gate, Minutes(x))'
  BY <1>10, <1>11 DEF Minutes
<1>14. ReaderOk(x)'
  BY <1>6, <1>11, <1>12, <1>13 DEF ReaderOk
<1> QED BY <1>1, <1>2, <1>7, <1>8, <1>14, OneReader DEF DisplayInv

LEMMA CacheSetKeeps ==
  ASSUME DisplayInv, NEW q \in Readers, CacheSet(q)
  PROVE  /\ ReadInv'
         /\ \E body, ask : ShownOf(reader'[q], body, ask)
<1>1. UNCHANGED <<verdict, since>>
  BY DEF CacheSet, mirrorVars, catalogVars
<1>2. PICK r : r = reader[q]
  OBVIOUS
<1>3. r.pc = "holding" /\ ReaderOk(r)
  BY <1>2 DEF CacheSet, DisplayAt, DisplayInv, ReadInv
<1>4. Asked(r.ask) /\ Sound(r.body, r.ask.ids, r.ask.gate, Minutes(r))
      /\ Minutes(r) \in 0 .. 1
  BY <1>3 DEF ReaderOk, Minutes
<1>5. Sound(r.body, r.ask.ids, r.ask.gate, 1)
  BY <1>4 DEF Sound, Said, Asked, DisplayInv, ReadInv
<1>6. Sound(r.body, r.ask.ids, r.ask.gate, TTL + 1)
  BY <1>4, <1>5, TTLAssumption DEF Sound, Said, Asked, DisplayInv, ReadInv
<1>7. PICK key : key = <<r.ask.ids, r.ask.gate>> /\ key = ReadKey(r.ask.ids, r.ask.gate)
  BY DEF ReadKey
<1>8. DOMAIN cache' = DOMAIN cache \cup {key}
      /\ cache'[key] = [body |-> r.body, age |-> 0]
      /\ \A k \in DOMAIN cache : k # key => cache'[k] = cache[k]
  BY <1>2, <1>7 DEF CacheSet
<1>9. CacheInv'
  <2> SUFFICES ASSUME NEW k \in DOMAIN cache'
               PROVE  /\ cache'[k].age \in 0 .. TTL
                      /\ k[1] \subseteq Works
                      /\ Sound(cache[k].body, k[1], k[2], cache[k].age + 1)'
    BY DEF CacheInv
  <2>1. CASE k = key
    <3>1. Sound(r.body, r.ask.ids, r.ask.gate, 1)'
      BY <1>1, <1>5, SoundStays
    <3>2. cache'[k].body = r.body /\ cache'[k].age = 0 /\ cache'[k].age + 1 = 1
      BY <1>8, <2>1
    <3> QED BY <1>4, <1>7, <2>1, <3>1, <3>2, TTLAssumption DEF Asked
  <2>2. CASE k # key
    <3>1. PICK body, n : body = cache[k].body /\ n = cache[k].age + 1
      OBVIOUS
    <3>2. k \in DOMAIN cache /\ cache'[k] = cache[k]
      BY <1>8, <2>2
    <3>3. cache[k].age \in 0 .. TTL /\ k[1] \subseteq Works /\ Sound(body, k[1], k[2], n)
      BY <3>1, <3>2 DEF DisplayInv, ReadInv, CacheInv
    <3>4. Sound(body, k[1], k[2], n)'
      BY <1>1, <3>3, SoundStays
    <3> QED BY <3>1, <3>2, <3>3, <3>4
  <2> QED BY <2>1, <2>2
<1>10. PICK x : x = Shown(r.ask, r.body)
  OBVIOUS
<1>11. reader' = [reader EXCEPT ![q] = x]
  BY <1>2, <1>10 DEF CacheSet
<1>12. reader'[q] = x
  BY <1>11 DEF DisplayInv, ReadInv
<1>13. ReaderOk(x)'
  <2>1. x.pc = "shown"
    BY <1>10 DEF Shown
  <2> QED BY <2>1 DEF ReaderOk
<1>14. ShownOf(reader'[q], r.body, r.ask)
  BY <1>4, <1>6, <1>10, <1>12 DEF ShownOf
<1> QED BY <1>1, <1>9, <1>11, <1>13, <1>14, OneReader DEF DisplayInv

\* Of no answer nothing is shown.
Blank(x) == x.works = {} /\ x.rows = {} /\ x.filter = NoFilter

LEMMA ReadOver ==
  ASSUME DisplayInv, NEW q \in Readers, CallFails(q) \/ Leave(q)
  PROVE  ReadInv' /\ (reader'[q].pc = "shown" => Blank(reader'[q]))
<1>1. UNCHANGED <<verdict, since, cache>>
  BY DEF CallFails, Leave, mirrorVars, catalogVars
<1>2. CacheInv'
  BY <1>1, CacheStays DEF DisplayInv, ReadInv
<1>3. ASSUME NEW x, reader' = [reader EXCEPT ![q] = x], x.pc \in {"shown", "idle"},
             x.pc = "shown" => Blank(x)
      PROVE  ReadInv' /\ (reader'[q].pc = "shown" => Blank(reader'[q]))
  <2>1. reader'[q] = x
    BY <1>3 DEF DisplayInv, ReadInv
  <2>2. ReaderOk(x)'
    BY <1>3 DEF ReaderOk
  <2> QED BY <1>1, <1>2, <1>3, <2>1, <2>2, OneReader DEF DisplayInv
<1>4. CASE CallFails(q)
  <2>1. PICK ask : ask = [reader[q].ask EXCEPT !.filter = NoFilter]
    OBVIOUS
  <2>2. PICK x : x = Shown(ask, <<>>)
    OBVIOUS
  <2>3. reader' = [reader EXCEPT ![q] = x]
    BY <1>4, <2>1, <2>2 DEF CallFails
  <2>4. Asked(reader[q].ask)
    BY <1>4 DEF CallFails, DisplayAt, DisplayInv, ReadInv, ReaderOk
  <2>5. ask.filter = NoFilter
    BY <2>1, <2>4 DEF Asked, Ask
  <2>6. Allowed(<<>>, ask.gate, ask.limit) = {}
    BY DEF Allowed
  <2>7. Joined(ask, {}) = {}
    BY DEF Joined
  <2>8. x.pc = "shown" /\ Blank(x)
    BY <2>2, <2>5, <2>6, <2>7 DEF Shown, Blank
  <2> QED BY <1>3, <2>3, <2>8
<1>5. CASE Leave(q)
  BY <1>3, <1>5 DEF Leave, Away
<1> QED BY <1>4, <1>5

-----------------------------------------------------------------------------
(***************************************************************************)
(* All steps.                                                              *)
(***************************************************************************)
LEMMA Starts == DisplayInit => DisplayInv
<1> SUFFICES ASSUME DisplayInit PROVE DisplayInv
  OBVIOUS
<1>1. MirrorInv
  BY MirrorStarts DEF DisplayInit
<1>2. since \in [Works -> [Verdicts -> Nat]]
  BY TTLAssumption DEF DisplayInit, Old
<1>3. CacheInv
  BY DEF DisplayInit, CacheInv
<1>4. reader = [q \in Readers |-> reader[q]] /\ \A q \in Readers : ReaderOk(reader[q])
  BY DEF DisplayInit, Away, ReaderOk
<1> QED BY <1>1, <1>2, <1>3, <1>4 DEF DisplayInv, ReadInv

\* A read step: what it keeps, and what it shows if it shows something.
LEMMA ReadStep ==
  ASSUME DisplayInv, NEW q \in Readers, Read(q)
  PROVE  /\ ReadInv'
         /\ reader'[q].pc = "shown" /\ reader[q].pc # "shown" =>
              Blank(reader'[q]) \/ \E body, ask : ShownOf(reader'[q], body, ask)
<1>1. CASE Answer(q)
  BY <1>1, AnswerKeeps
<1>2. CASE CacheSet(q)
  BY <1>2, CacheSetKeeps
<1>3. CASE CallFails(q) \/ Leave(q)
  BY <1>3, ReadOver
<1>4. CASE ~(Answer(q) \/ CacheSet(q) \/ CallFails(q) \/ Leave(q))
  <2>1. PICK ask : Asked(ask) /\ Reads(q, ask)
    BY <1>4, ReadsAre
  <2> QED BY <2>1, ReadsKeep
<1> QED BY <1>1, <1>2, <1>3, <1>4

\* A read leaves everything but the cache and its reader alone.
LEMMA ReadLeaves ==
  ASSUME NEW q \in Readers, Read(q)
  PROVE  /\ UNCHANGED <<mirrorVars, since>>
         /\ \E x : reader' = [reader EXCEPT ![q] = x]
<1>1. CASE Answer(q) \/ CacheSet(q) \/ CallFails(q) \/ Leave(q)
  BY <1>1 DEF Answer, CacheSet, CallFails, Leave
<1>2. CASE ~(Answer(q) \/ CacheSet(q) \/ CallFails(q) \/ Leave(q))
  <2>1. PICK ask : Reads(q, ask)
    BY <1>2, ReadsAre
  <2>2. UNCHANGED <<mirrorVars, since>>
    BY <2>1 DEF Reads
  <2>3. \E x : reader' = [reader EXCEPT ![q] = x]
    BY <2>1 DEF Reads
  <2> QED BY <2>2, <2>3
<1> QED BY <1>1, <1>2

LEMMA Keeps == DisplayInv /\ [DisplayNext]_displayVars => DisplayInv'
<1> SUFFICES ASSUME DisplayInv, [DisplayNext]_displayVars PROVE DisplayInv'
  OBVIOUS
<1>1. ASSUME NEW w \in Works, ChangeWork(w), since' = [since EXCEPT ![w][verdict[w]] = 0],
             UNCHANGED <<cache, reader, reads, minutes>>
      PROVE  DisplayInv'
  BY <1>1, ChangeKeeps, ChangeKeepsReads DEF DisplayInv
<1>2. CASE MirrorNext /\ UNCHANGED readVars
  BY <1>2, MirrorKeeps, MirrorLeaves, RestKeepsReads DEF DisplayInv
<1>3. ASSUME NEW q \in Readers, Read(q) PROVE DisplayInv'
  BY <1>3, ReadStep, ReadLeaves, MirrorRests DEF DisplayInv
<1>4. CASE Minute
  BY <1>4, MinuteKeeps, MirrorRests DEF DisplayInv, Minute
<1>5. CASE UNCHANGED displayVars
  BY <1>5, MirrorRests, RestKeepsReads DEF DisplayInv, displayVars, mirrorVars, catalogVars
<1> QED BY <1>1, <1>2, <1>3, <1>4, <1>5 DEF DisplayNext

LEMMA DisplayInvariant == DisplaySpec => []DisplayInv
<1> QED BY Starts, Keeps, PTL DEF DisplaySpec

\* Only a read of that reader shows something.
LEMMA ShownBy ==
  ASSUME DisplayInv, [DisplayNext]_displayVars, NEW q \in Readers,
         reader'[q].pc = "shown", reader[q].pc # "shown"
  PROVE  Read(q)
<1>1. reader = [o \in Readers |-> reader[o]]
  BY DEF DisplayInv, ReadInv
<1>2. ASSUME NEW o \in Readers, Read(o), o # q PROVE FALSE
  BY <1>1, <1>2, ReadLeaves
<1>3. CASE Minute
  <2>1. PICK x : x = reader[q]
    OBVIOUS
  <2>2. x.pc = "idle" \/ x.pc = "calling" \/ x.pc = "holding"
    BY <1>3, <2>1 DEF Minute, DisplayAt
  <2>3. reader'[q] = IF x.pc = "holding" THEN [x EXCEPT !.held = TRUE] ELSE x
    BY <1>3, <2>1 DEF Minute, DisplayAt
  <2>4. CASE x.pc = "holding"
    <3>1. x = [pc |-> "holding", ask |-> x.ask, held |-> x.held, body |-> x.body]
      BY <2>1, <2>4 DEF DisplayInv, ReadInv, ReaderOk
    <3>2. reader'[q].pc = "holding"
      BY <2>3, <2>4, <3>1
    <3> QED BY <3>2
  <2> QED BY <2>1, <2>2, <2>3, <2>4
<1>4. UNCHANGED reader => FALSE
  OBVIOUS
<1> QED BY <1>2, <1>3, <1>4 DEF DisplayNext, displayVars, readVars

-----------------------------------------------------------------------------
(***************************************************************************)
(* The theorems.                                                           *)
(***************************************************************************)
\* As long as no runs overlap, the patch of every work that the mirror's cursor is past says
\* of it what the catalog says, or nothing yet, whatever fails and however large the pages
\* are, unless a cached answer told the mirror otherwise.  No patch has the verdict of a
\* work that merely has its id.
THEOREM CursorIsCovered == DisplaySpec => []CursorCovers
<1>1. DisplayInv => CursorCovers
  BY DEF DisplayInv, MirrorInv, MirrorTypes, BareUnset, CursorCovers, Past, Fine, Excused
<1> QED BY <1>1, DisplayInvariant, PTL

\* No read, of any of the surfaces, shows a work that the catalog has kept from the
\* reader's limit for longer than an answer may be cached and on its way, or, unless it
\* takes the answer of another work for it, a patch of such a work.
THEOREM NothingLeaks == DisplaySpec => NeverLeaks
<1> DEFINE Shows(q) ==
      reader'[q].pc = "shown" /\ reader[q].pc # "shown" =>
        /\ \A w \in reader'[q].works : LatelyFits(w, reader[q].limit)'
        /\ \A p \in reader'[q].rows :
             Confused(p) \/ \E w \in Resolve(p) : LatelyFits(w, reader[q].limit)'
<1>1. DisplayInv /\ [DisplayNext]_displayVars => [\A q \in Readers : Shows(q)]_displayVars
  <2> SUFFICES ASSUME DisplayInv, [DisplayNext]_displayVars, NEW q \in Readers,
                      reader'[q].pc = "shown", reader[q].pc # "shown", ~Blank(reader'[q])
               PROVE  Shows(q)
    BY DEF Blank
  <2>1. Read(q)
    BY ShownBy
  <2>2. UNCHANGED <<verdict, since>>
    BY <2>1, ReadLeaves DEF mirrorVars, catalogVars
  <2>3. PICK body, ask : ShownOf(reader'[q], body, ask)
    BY <2>1, ReadStep
  <2>4. PICK works : works = Allowed(body, ask.gate, ask.limit)
    OBVIOUS
  <2>5. reader'[q].limit = ask.limit /\ reader'[q].works = works
        /\ reader'[q].rows = Joined(ask, works)
    BY <2>3, <2>4 DEF ShownOf, Shown
  <2>6. ASSUME NEW w \in works
        PROVE  LatelyFits(w, ask.limit)' /\ w \in ask.ids /\ w \in Works /\ w \notin Hidden
    <3>1. w \in DOMAIN body /\ w \notin Hidden /\ (ask.gate # "all" \/ Fits(body[w], ask.limit))
      BY <2>4, <2>6 DEF Allowed
    <3>2. w \in ask.ids /\ w \in Works /\ ask.gate \in {ask.limit, "all"}
          /\ Fits(body[w], ask.gate) /\ Said(w, body[w], TTL + 1)
      BY <2>3, <3>1 DEF ShownOf, Sound, Asked
    <3>3. Fits(body[w], ask.limit)
      BY <3>1, <3>2
    <3>4. body[w] \in Verdicts /\ Lately(w, body[w])'
      BY <2>2, <3>2 DEF Said, Lately
    <3> QED BY <3>1, <3>2, <3>3, <3>4 DEF LatelyFits, Fits
  <2>7. ASSUME NEW p \in Joined(ask, works), ~Confused(p)
        PROVE  \E w \in Resolve(p) : w \in works
    <3>1. CASE ask.joined
      <4>1. PICK w \in works : PublicGID(w) = p
        BY <2>7, <3>1 DEF Joined
      <4>2. w \in Works /\ w \notin Hidden
        BY <2>6
      <4>3. CASE w \in Claimed
        BY <4>1, <4>2, <4>3 DEF PublicGID, Resolve
      <4>4. CASE w \notin Claimed
        <5>1. w = p /\ \A v \in AnchoredTo(p) : v = p
          BY <2>7, <4>1, <4>2, <4>4 DEF PublicGID, Confused
        <5> QED BY <4>1, <4>2, <5>1 DEF Resolve, AnchoredTo
      <4> QED BY <4>3, <4>4
    <3>2. CASE ~ask.joined
      <4>1. PICK o : ask.rows = {o} /\ ask.ids = Resolve(o)
        BY <2>3, <3>2 DEF ShownOf, Asked
      <4>2. p = o /\ works # {}
        BY <2>7, <3>2, <4>1 DEF Joined
      <4> QED BY <2>6, <4>1, <4>2
    <3> QED BY <3>1, <3>2
  <2>8. \A w \in reader'[q].works : LatelyFits(w, reader[q].limit)'
    BY <2>5, <2>6 DEF LatelyFits, Fits
  <2>9. \A p \in reader'[q].rows :
          Confused(p) \/ \E w \in Resolve(p) : LatelyFits(w, reader[q].limit)'
    BY <2>5, <2>7, <2>8
  <2> QED BY <2>8, <2>9
<1> QED BY <1>1, DisplayInvariant, PTL DEF DisplaySpec, NeverLeaks

\* The patch of a work that is answered under its id, once mirror and catalog agree on it and
\* neither has moved lately, is counted by a list exactly if it is shown by it, and exactly if
\* the work fits the limit, whatever the other patches are.
THEOREM PagesComplete == DisplaySpec => PageComplete
<1> DEFINE Whole(r, w) ==
             /\ Plain(w) /\ Steady(w) /\ Mirrored(w) /\ Anchor[w] \in DOMAIN limit
             /\ Anchor[w] \in DOMAIN r.filter /\ r.filter[Anchor[w]] = limit[Anchor[w]]
             => /\ Anchor[w] \in r.counted <=> Fits(verdict[w], r.limit)
                /\ Anchor[w] \in r.rows <=> Fits(verdict[w], r.limit)
           Complete(q) ==
             LET r == reader'[q]
             IN  r.pc = "shown" /\ reader[q].pc # "shown" /\ r.filter # NoFilter =>
                   \A w \in Works : Whole(r, w)
<1>1. DisplayInv /\ [DisplayNext]_displayVars => [\A q \in Readers : Complete(q)]_displayVars
  <2> SUFFICES ASSUME DisplayInv, [DisplayNext]_displayVars, NEW q \in Readers,
                      NEW r, r = reader'[q], r.pc = "shown", reader[q].pc # "shown",
                      r.filter # NoFilter,
                      NEW w \in Works, Plain(w), Steady(w), Mirrored(w),
                      NEW p, p = Anchor[w], p \in DOMAIN limit,
                      p \in DOMAIN r.filter, r.filter[p] = limit[p]
               PROVE  /\ p \in r.counted <=> Fits(verdict[w], r.limit)
                      /\ p \in r.rows <=> Fits(verdict[w], r.limit)
    OBVIOUS
  <2>1. Read(q)
    BY ShownBy
  <2>2. PICK body, ask : ShownOf(r, body, ask)
    BY <2>1, ReadStep DEF Blank
  <2>3. PICK works : works = Allowed(body, ask.gate, ask.limit)
    OBVIOUS
  <2>4. r.limit = ask.limit /\ r.filter = ask.filter /\ r.rows = Joined(ask, works)
        /\ r.counted = ask.rows
    BY <2>2, <2>3 DEF ShownOf, Shown
  <2>5. ask.joined /\ ask.gate = ask.limit /\ Resolve(p) \subseteq Works
        /\ ask.rows = {o \in DOMAIN ask.filter :
                         ask.limit = "all" \/ ask.filter[o] \in {Unset, ask.limit}}
        /\ \A o \in ask.rows : Resolve(o) \subseteq ask.ids
    BY <2>2, <2>4 DEF ShownOf, Asked, Resolve
  <2>6. limit[p] = verdict[w] /\ verdict[w] \in Axis
    BY DEF Mirrored, Steady, DisplayInv, MirrorInv, MirrorTypes, Verdicts
  <2>7. p \in ask.rows <=> Fits(verdict[w], ask.limit)
    BY <2>4, <2>5, <2>6, UnsetAssumption DEF Fits, Axis
  <2>8. \A v : Said(w, v, TTL + 1) => v = verdict[w]
    BY DEF Said, Steady, Lately
  <2>9. ASSUME p \in ask.rows
        PROVE  w \in works /\ PublicGID(w) = p
    <3>1. w \in ask.ids
      BY <2>5, <2>9 DEF Resolve
    <3>2. w \in DOMAIN body
      BY <2>2, <2>5, <2>7, <2>8, <2>9, <3>1 DEF ShownOf, Sound
    <3>3. Fits(body[w], ask.limit)
      BY <2>2, <2>5, <3>2 DEF ShownOf, Sound
    <3> QED BY <2>3, <3>2, <3>3 DEF Allowed, Plain
  <2>10. p \in Joined(ask, works) <=> p \in ask.rows
    BY <2>5, <2>9 DEF Joined
  <2> QED BY <2>4, <2>7, <2>10
<1> QED BY <1>1, DisplayInvariant, PTL DEF DisplaySpec, PageComplete

=============================================================================
