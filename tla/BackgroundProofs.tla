--------------------------- MODULE BackgroundProofs ---------------------------
(***************************************************************************)
(* Proofs about the work done in the background, beside the requests.      *)
(*                                                                         *)
(* ClaimSync, for any number of runs, claims, users and events and any page*)
(* size: the inductive invariant adds to the properties what is true of a  *)
(* run between two steps: everything behind its own position has been      *)
(* applied, and an approval it has paid but not committed is still unmarked*)
(* and is nobody else's.                                                   *)
(*                                                                         *)
(* StoreLink, for any number of pages, products, queue places and restarts:*)
(* a product is marked exactly while one party answers for it.             *)
(***************************************************************************)
EXTENDS ClaimSync, StoreLink, FiniteSetTheorems, TLAPS

Active(r)  == run[r].pc \in {"fetching", "applying", "awarded"}
Seeding(r) == run[r].pc \in {"seeking", "seeding"}

\* Every event of the followed feed up to n that concerns us is marked.
AppliedUpTo(n) ==
  \A e \in 1 .. Len(feed) : seed < e /\ e <= n /\ Applies(feed[e]) => e \in processed

\* Where each active run stands.
RunsBehind ==
  \A r \in Runs :
    /\ Active(r) => /\ cursor # Unseeded
                    /\ seed <= run[r].at /\ run[r].at <= Len(feed)
                    /\ AppliedUpTo(run[r].at)
    /\ run[r].pc \in {"applying", "awarded"} =>
         run[r].at < run[r].upto /\ run[r].upto <= Len(feed)
    /\ run[r].pc = "seeding" => run[r].at <= Len(feed)

\* A run that has paid an approval holds its marker alone.
PaidNotMarked ==
  /\ \A r \in Runs : run[r].pc = "awarded" =>
       /\ Applies(feed[Next1(r)])
       /\ EffectOf(feed[Next1(r)]) = "approved"
       /\ Next1(r) \notin processed
       /\ Truth(Next1(r)) # NoUser
       /\ [key |-> Next1(r), user |-> Truth(Next1(r))] \in ledger
  /\ \A q, r \in Runs :
       q # r /\ run[q].pc = "awarded" /\ run[r].pc = "awarded" => Next1(q) # Next1(r)

\* Nothing has happened while the watermark is being seeded.
SeedingFirst ==
  /\ cursor = Unseeded <=> seed = Unseeded
  /\ seed <= cursor
  /\ cursor = Unseeded => processed = {} /\ ledger = {}
  /\ \A q \in Runs : Seeding(q) =>
       processed = {} /\ ledger = {} /\ \A r \in Runs : ~Active(r)

\* The marked events concern us and leave no gap behind them.
MarkedInOrder ==
  \A e \in processed : seed < e /\ Applies(feed[e]) /\ AppliedUpTo(e)

\* AppliedExactlyOnce, also for the events still to come.
ToldOnce ==
  \A e \in Events :
    told[e] =
      IF /\ e \in processed
         /\ EffectOf(feed[e]) # "rememberSubmitter"
         /\ Truth(e) # NoUser
        THEN <<Truth(e)>>
        ELSE <<>>

IInv ==
  /\ TypeOK
  /\ RunsBehind
  /\ PaidNotMarked
  /\ SeedingFirst
  /\ MarkedInOrder
  /\ NothingSkipped
  /\ PaidToSubmitterOnce
  /\ ToldOnce
  /\ MarkedIsPaid

-----------------------------------------------------------------------------
(***************************************************************************)
(* Lemmas about the submitter lookup.                                      *)
(***************************************************************************)
\* The lookup answers a user, or that nobody is on record.
LEMMA SubmitterType ==
  ASSUME TypeOK, NEW work, NEW rows \in SUBSET (1 .. Len(feed))
  PROVE  SubmitterOf(work, rows) \in Users \cup {NoUser}
<1> DEFINE P == {e \in rows : feed[e].work = work /\ feed[e].to = "pending"}
           L == {feed[e].actor : e \in {d \in P : \A c \in P : c <= d}}
<1>1. ASSUME NEW e \in rows PROVE feed[e].actor \in Users
  <2>1. e \in 1 .. Len(feed) /\ feed \in Seq(Event)
    BY DEF TypeOK
  <2>2. feed[e] \in Event
    BY <2>1
  <2> QED BY <2>2 DEF Event
<1>2. L \subseteq Users
  <2>1. ASSUME NEW u \in L PROVE u \in Users
    <3>1. PICK e \in rows : u = feed[e].actor
      BY <2>1
    <3> QED BY <3>1, <1>1
  <2> QED BY <2>1
<1>3. SubmitterOf(work, rows) = Scan(L)
  BY DEF SubmitterOf
<1> HIDE DEF L
<1> QED BY <1>2, <1>3 DEF Scan

\* At the event a run is about to mark, the rows of the table are exactly the
\* history the feed shows, so the lookup in the table finds the true submitter.
LEMMA LookupIsTruth ==
  ASSUME IInv, NEW r \in Runs, NEW e \in 1 .. Len(feed),
         Active(r), e = Next1(r), Applies(feed[e]), e \notin processed
  PROVE  SubmitterOf(feed[e].work, processed \cup {e}) = Truth(e)
<1> DEFINE H == {d \in 1 .. Len(feed) : seed < d /\ d <= e /\ Applies(feed[d])}
<1>1. /\ seed \in Int /\ e \in Int /\ run[r].at \in Int
      /\ seed <= run[r].at /\ AppliedUpTo(run[r].at) /\ e = run[r].at + 1
  BY DEF IInv, TypeOK, RunState, RunsBehind, Next1
<1>2. H \subseteq processed \cup {e}
  BY <1>1 DEF AppliedUpTo
<1>3. processed \cup {e} \subseteq H
  <2>1. ASSUME NEW d \in processed PROVE d \in H
    <3>1. d \in 1 .. Len(feed) /\ seed < d /\ Applies(feed[d]) /\ AppliedUpTo(d)
      BY DEF IInv, TypeOK, MarkedInOrder
    <3>2. d <= e
      BY <3>1, <1>1 DEF AppliedUpTo
    <3> QED BY <3>1, <3>2
  <2> QED BY <2>1, <1>1
<1>4. processed \cup {e} = H
  BY <1>2, <1>3
<1> QED BY <1>4 DEF Truth

\* What the feed says of an event does not change as the feed grows.
LEMMA TruthStable ==
  ASSUME TypeOK, NEW ev \in Event, feed' = Append(feed, ev), seed' = seed,
         NEW e \in 1 .. Len(feed)
  PROVE  feed'[e] = feed[e] /\ e \in 1 .. Len(feed') /\ Truth(e)' = Truth(e)
<1>1. /\ Len(feed) \in Nat /\ Len(feed') = Len(feed) + 1
      /\ \A d \in 1 .. Len(feed) : feed'[d] = feed[d]
  BY DEF TypeOK
<1> DEFINE H == {d \in 1 .. Len(feed) : seed < d /\ d <= e /\ Applies(feed[d])}
           P == {d \in H : feed[d].work = feed[e].work /\ feed[d].to = "pending"}
           L == {feed[d].actor : d \in {c \in P : \A b \in P : b <= c}}
<1>2. H' = H
  BY <1>1 DEF Applies
<1>3. P' = P
  BY <1>1, <1>2
<1>4. L' = L
  BY <1>1, <1>3
<1>5. Truth(e) = Scan(L)
  BY DEF Truth, SubmitterOf
<1>6. Truth(e)' = Scan(L')
  BY DEF Truth, SubmitterOf, Scan
<1>7. feed'[e] = feed[e] /\ e \in 1 .. Len(feed')
  BY <1>1
<1> HIDE DEF L
<1>8. Truth(e)' = Truth(e)
  BY <1>4, <1>5, <1>6
<1> QED BY <1>7, <1>8

\* The truth about an event depends on the feed and the seed only.
LEMMA TruthFrame ==
  ASSUME feed' = feed, seed' = seed
  PROVE  /\ \A e : Truth(e)' = Truth(e)
         /\ \A e : Applies(feed[e])' <=> Applies(feed[e])
  BY DEF Truth, SubmitterOf, Applies, Scan

\* A step that only moves runs keeps what is said of the tables.
LEMMA TablesFrame ==
  ASSUME IInv, UNCHANGED <<feed, seed, cursor, processed, told, ledger>>
  PROVE  /\ MarkedInOrder' /\ NothingSkipped'
         /\ PaidToSubmitterOnce' /\ ToldOnce' /\ MarkedIsPaid'
         /\ \A n : AppliedUpTo(n)' <=> AppliedUpTo(n)
<1>1. \A e : Truth(e)' = Truth(e)
  BY TruthFrame
<1>2. \A n : AppliedUpTo(n)' <=> AppliedUpTo(n)
  BY DEF AppliedUpTo
<1>3. MarkedInOrder'
  BY <1>2 DEF IInv, MarkedInOrder
<1>4. NothingSkipped'
  BY DEF IInv, NothingSkipped
<1>5. PaidToSubmitterOnce'
  BY <1>1 DEF IInv, PaidToSubmitterOnce
<1>6. ToldOnce'
  BY <1>1 DEF IInv, ToldOnce
<1>7. MarkedIsPaid'
  BY <1>1 DEF IInv, MarkedIsPaid
<1> QED BY <1>2, <1>3, <1>4, <1>5, <1>6, <1>7 DEF IInv

LEMMA InitInvariant == Init => IInv
<1> SUFFICES ASSUME Init PROVE IInv
  OBVIOUS
<1>1. TypeOK
  <2>1. feed \in Seq(Event) /\ Len(feed) = 0
    BY DEF Init
  <2>2. told \in [Events -> Seq(Users)]
    BY DEF Init
  <2>3. run \in [Runs -> RunState]
    BY DEF Init, Idle, RunState
  <2> QED BY <2>1, <2>2, <2>3, BoundsAssumption DEF Init, TypeOK, Unseeded
<1>3. RunsBehind /\ PaidNotMarked /\ SeedingFirst
  BY DEF Init, Idle, RunsBehind, PaidNotMarked, SeedingFirst, Active, Seeding, Unseeded
<1>4. MarkedInOrder /\ NothingSkipped /\ PaidToSubmitterOnce /\ ToldOnce /\ MarkedIsPaid
  BY DEF Init, MarkedInOrder, NothingSkipped, PaidToSubmitterOnce, ToldOnce, MarkedIsPaid
<1> QED BY <1>1, <1>3, <1>4 DEF IInv

\* A step that moves one run and touches no table keeps the invariant when the
\* run's new position is behind nothing unapplied.
LEMMA RunStep ==
  ASSUME IInv, NEW r \in Runs, NEW s \in RunState,
         run' = [run EXCEPT ![r] = s],
         UNCHANGED <<feed, claim, cursor, seed, processed, told, published, ledger>>,
         fails' \in 0 .. MaxFails,
         s.pc # "awarded",
         s.pc \in {"fetching", "applying"} =>
           /\ cursor # Unseeded
           /\ seed <= s.at /\ s.at <= Len(feed) /\ AppliedUpTo(s.at)
           /\ Active(r) \/ \A q \in Runs : ~Seeding(q),
         s.pc = "applying" => s.at < s.upto /\ s.upto <= Len(feed),
         s.pc = "seeding" => s.at <= Len(feed),
         s.pc \in {"seeking", "seeding"} => Seeding(r) \/ cursor = Unseeded
  PROVE  IInv'
<1>1. TypeOK'
  BY DEF IInv, TypeOK
<1>2. /\ MarkedInOrder' /\ NothingSkipped'
      /\ PaidToSubmitterOnce' /\ ToldOnce' /\ MarkedIsPaid'
      /\ \A n : AppliedUpTo(n)' <=> AppliedUpTo(n)
  BY TablesFrame
<1>3. \A q \in Runs : run'[q] = IF q = r THEN s ELSE run[q]
  BY DEF IInv, TypeOK
<1>4. RunsBehind'
  <2> SUFFICES ASSUME NEW q \in Runs
               PROVE  /\ Active(q)' => /\ cursor # Unseeded
                                       /\ seed <= run'[q].at /\ run'[q].at <= Len(feed)
                                       /\ AppliedUpTo(run'[q].at)
                      /\ run'[q].pc \in {"applying", "awarded"} =>
                           run'[q].at < run'[q].upto /\ run'[q].upto <= Len(feed)
                      /\ run'[q].pc = "seeding" => run'[q].at <= Len(feed)
    BY DEF RunsBehind, AppliedUpTo
  <2>1. CASE q = r
    BY <2>1, <1>3 DEF Active
  <2>2. CASE q # r
    BY <2>2, <1>3 DEF Active, IInv, RunsBehind
  <2> QED BY <2>1, <2>2
<1>5. PaidNotMarked'
  <2>1. \A e : Truth(e)' = Truth(e)
    BY TruthFrame
  <2>2. \A q \in Runs : run'[q].pc = "awarded" =>
           q # r /\ run[q].pc = "awarded" /\ Next1(q)' = Next1(q)
    BY <1>3 DEF Next1
  <2> QED BY <2>1, <2>2 DEF IInv, PaidNotMarked
<1>6. SeedingFirst'
  <2>1. ASSUME NEW q \in Runs, Seeding(q)'
        PROVE  processed = {} /\ ledger = {} /\ \A p \in Runs : ~Active(p)'
    <3>1. Seeding(q) \/ cursor = Unseeded
      BY <2>1, <1>3 DEF Seeding
    <3>2. processed = {} /\ ledger = {}
      BY <3>1 DEF IInv, SeedingFirst
    <3>3. \A p \in Runs : ~Active(p)
      BY <3>1 DEF IInv, SeedingFirst, RunsBehind
    <3>4. ~Active(r)'
      <4>1. CASE Active(r)'
        <5>1. s.pc \in {"fetching", "applying"} /\ q # r
          BY <4>1, <2>1, <1>3 DEF Active, Seeding
        <5>2. Seeding(q)
          BY <5>1, <2>1, <1>3 DEF Seeding
        <5> QED BY <5>1, <5>2, <3>3
      <4> QED BY <4>1
    <3> QED BY <3>2, <3>3, <3>4, <1>3 DEF Active
  <2> QED BY <2>1 DEF IInv, SeedingFirst
<1> QED BY <1>1, <1>2, <1>4, <1>5, <1>6 DEF IInv

\* What every commit keeps: the event is marked if it concerns us, nobody
\* else holds its marker, and the watermark moves to it.
LEMMA CommitStep ==
  ASSUME IInv, NEW r \in Runs, NEW e \in 1 .. Len(feed),
         e = Next1(r), run[r].pc \in {"applying", "awarded"}, CommitAt(r, e),
         processed' = processed \/ processed' = processed \cup {e},
         Applies(feed[e]) <=> e \in processed',
         \A q \in Runs \ {r} : run[q].pc = "awarded" /\ Applies(feed[e]) => Next1(q) # e,
         ledger' = ledger
  PROVE  /\ cursor' \in -1 .. Len(feed) /\ run' \in [Runs -> RunState]
         /\ processed' \subseteq 1 .. Len(feed)
         /\ RunsBehind' /\ PaidNotMarked' /\ SeedingFirst' /\ MarkedInOrder'
         /\ NothingSkipped'
<1>1. /\ feed' = feed /\ seed' = seed /\ cursor' = e
      /\ e = run[r].at + 1 /\ run[r].at \in Nat /\ seed \in -1 .. Len(feed) /\ Len(feed) \in Nat
      /\ cursor # Unseeded /\ seed <= run[r].at /\ AppliedUpTo(run[r].at)
      /\ run[r].upto <= Len(feed)
  BY DEF IInv, TypeOK, RunState, RunsBehind, Active, CommitAt, Next1, catalogVars
<1>2. PICK s \in RunState :
        /\ run' = [run EXCEPT ![r] = s]
        /\ s.pc \in {"applying", "fetching", "idle"}
        /\ s.pc # "idle" => s.at = e
        /\ s.pc = "applying" => s.upto = run[r].upto /\ e < s.upto
  <2>1. run[r] \in RunState
    BY DEF IInv, TypeOK
  <2> DEFINE s == After(run[r], e)
  <2>2. s \in RunState
    <3>1. e \in Nat /\ run[r].page \in Nat /\ run[r].page + 1 \in Nat
      BY <1>1, <2>1 DEF RunState
    <3>2. [run[r] EXCEPT !.pc = "applying", !.at = e] \in RunState
      BY <3>1, <2>1 DEF RunState
    <3>3. [run[r] EXCEPT !.pc = "fetching", !.at = e, !.page = @ + 1] \in RunState
      BY <3>1, <2>1 DEF RunState
    <3>4. Idle \in RunState
      BY DEF Idle, RunState
    <3> QED BY <3>2, <3>3, <3>4 DEF After
  <2>4. run' = [run EXCEPT ![r] = s]
    BY DEF CommitAt
  <2>3. /\ s.pc \in {"applying", "fetching", "idle"}
        /\ s.pc # "idle" => s.at = e
        /\ s.pc = "applying" => s.upto = run[r].upto /\ e < s.upto
    BY <2>1 DEF RunState, Idle, After
  <2> QED BY <2>2, <2>3, <2>4
<1>3. \A q \in Runs : run'[q] = IF q = r THEN s ELSE run[q]
  BY <1>2 DEF IInv, TypeOK
<1>4. \A n \in Int : AppliedUpTo(n) => AppliedUpTo(n)'
  BY <1>1 DEF AppliedUpTo, Applies
<1>5. AppliedUpTo(e)'
  <2> SUFFICES ASSUME NEW d \in 1 .. Len(feed), seed < d, d <= e, Applies(feed[d])
               PROVE  d \in processed'
    BY <1>1 DEF AppliedUpTo, Applies
  <2>1. CASE d = e
    BY <2>1
  <2>2. CASE d # e
    BY <2>2, <1>1 DEF AppliedUpTo
  <2> QED BY <2>1, <2>2
<1>6. cursor' \in -1 .. Len(feed) /\ run' \in [Runs -> RunState]
      /\ processed' \subseteq 1 .. Len(feed)
  <2>1. run' \in [Runs -> RunState]
    BY <1>2 DEF IInv, TypeOK
  <2>2. processed' \subseteq 1 .. Len(feed)
    BY DEF IInv, TypeOK
  <2> QED BY <1>1, <2>1, <2>2
<1>7. RunsBehind'
  <2> SUFFICES ASSUME NEW q \in Runs
               PROVE  /\ Active(q)' => /\ cursor' # Unseeded
                                       /\ seed <= run'[q].at /\ run'[q].at <= Len(feed)
                                       /\ AppliedUpTo(run[q].at)'
                      /\ run'[q].pc \in {"applying", "awarded"} =>
                           run'[q].at < run'[q].upto /\ run'[q].upto <= Len(feed)
                      /\ run'[q].pc = "seeding" => run'[q].at <= Len(feed)
    BY <1>1 DEF RunsBehind
  <2>1. CASE q = r
    <3>1. s.pc # "idle" => AppliedUpTo(run[q].at)'
      BY <2>1, <1>1, <1>2, <1>3, <1>5 DEF AppliedUpTo
    <3> QED BY <3>1, <2>1, <1>1, <1>2, <1>3 DEF Active, Unseeded
  <2>2. CASE q # r
    <3>1. run'[q] = run[q] /\ run[q].at \in Int
      <4>1. run'[q] = run[q]
        BY <2>2, <1>3
      <4>2. run[q] \in RunState
        BY DEF IInv, TypeOK
      <4>3. run[q].at \in Int
        BY <4>2 DEF RunState
      <4> QED BY <4>1, <4>3
    <3>2. Active(q) => AppliedUpTo(run[q].at)'
      <4>1. Active(q) => AppliedUpTo(run[q].at)
        BY DEF IInv, RunsBehind
      <4> QED BY <4>1, <3>1, <1>1 DEF AppliedUpTo, Applies
    <3> QED BY <3>1, <3>2, <1>1 DEF Active, IInv, RunsBehind, Unseeded
  <2> QED BY <2>1, <2>2
<1>8. PaidNotMarked'
  <2>1. \A x : Truth(x)' = Truth(x)
    BY <1>1, TruthFrame
  <2>2. \A q \in Runs : run'[q].pc = "awarded" =>
           q # r /\ run[q].pc = "awarded" /\ Next1(q)' = Next1(q)
    BY <1>2, <1>3 DEF Next1
  <2>3. \A q \in Runs : run'[q].pc = "awarded" => Next1(q) \notin processed'
    BY <2>2 DEF IInv, PaidNotMarked
  <2> QED BY <1>1, <2>1, <2>2, <2>3 DEF IInv, PaidNotMarked, Applies
<1>9. SeedingFirst'
  <2>1. \A q \in Runs : ~Seeding(q)'
    <3>1. \A q \in Runs : ~Seeding(q)
      BY DEF IInv, SeedingFirst, Active
    <3> QED BY <3>1, <1>2, <1>3 DEF Seeding
  <2>2. /\ cursor' = Unseeded <=> seed' = Unseeded
        /\ seed' <= cursor'
        /\ cursor' # Unseeded
    BY <1>1 DEF IInv, SeedingFirst, Unseeded
  <2> QED BY <2>1, <2>2 DEF SeedingFirst
<1>10. MarkedInOrder'
  <2> SUFFICES ASSUME NEW d \in processed'
               PROVE  seed < d /\ Applies(feed[d]) /\ AppliedUpTo(d)'
    BY <1>1 DEF MarkedInOrder, Applies
  <2>1. CASE d = e
    BY <2>1, <1>1, <1>5
  <2>2. CASE d # e
    <3>1. d \in processed
      BY <2>2
    <3>2. d \in Int
      <4>1. processed \subseteq 1 .. Len(feed)
        BY DEF IInv, TypeOK
      <4> QED BY <3>1, <4>1
    <3>4. seed < d /\ Applies(feed[d]) /\ AppliedUpTo(d)
      BY <3>1 DEF IInv, MarkedInOrder
    <3>3. AppliedUpTo(d)'
      BY <3>2, <3>4, <1>4
    <3> QED BY <3>3, <3>4
  <2> QED BY <2>1, <2>2
<1>11. NothingSkipped'
  BY <1>1, <1>5 DEF NothingSkipped, AppliedUpTo
<1> QED BY <1>6, <1>7, <1>8, <1>9, <1>10, <1>11

\* The effect of the event itself: ASSUME that the tables hold exactly what
\* they should for the marked events after the step.
LEMMA EffectStep ==
  ASSUME IInv, NEW r \in Runs, NEW e \in 1 .. Len(feed),
         e = Next1(r), run[r].pc \in {"applying", "awarded"}, CommitAt(r, e),
         Applies(feed[e]), e \notin processed, processed' = processed \cup {e},
         ledger' = ledger,
         EffectOf(feed[e]) = "approved" /\ Truth(e) # NoUser =>
           [key |-> e, user |-> Truth(e)] \in ledger,
         told' = IF EffectOf(feed[e]) = "rememberSubmitter" \/ Truth(e) = NoUser
                   THEN told ELSE [told EXCEPT ![e] = Append(@, Truth(e))],
         Truth(e) \in Users \cup {NoUser}
  PROVE  told' \in [Events -> Seq(Users)] /\ ToldOnce' /\ PaidToSubmitterOnce' /\ MarkedIsPaid'
<1>1. /\ feed' = feed /\ seed' = seed
      /\ \A x : Truth(x)' = Truth(x)
      /\ \A x : Applies(feed[x])' <=> Applies(feed[x])
  BY TruthFrame DEF CommitAt, catalogVars
<1>2. told \in [Events -> Seq(Users)] /\ e \in Events
  <2>1. Len(feed) \in Nat /\ Len(feed) <= MaxEvents
    BY DEF IInv, TypeOK
  <2> QED BY <2>1, BoundsAssumption DEF IInv, TypeOK, Events
<1>3. told[e] = <<>>
  BY <1>2 DEF IInv, ToldOnce
<1>4. told' \in [Events -> Seq(Users)]
  BY <1>2
<1>5. ToldOnce'
  <2> SUFFICES ASSUME NEW x \in Events
               PROVE  told'[x] = IF /\ x \in processed'
                                    /\ EffectOf(feed[x]) # "rememberSubmitter"
                                    /\ Truth(x) # NoUser
                                   THEN <<Truth(x)>>
                                   ELSE <<>>
    BY <1>1 DEF ToldOnce
  <2>1. CASE x = e
    <3>1. Truth(e) # NoUser => Append(<<>>, Truth(e)) = <<Truth(e)>>
      OBVIOUS
    <3> QED BY <2>1, <3>1, <1>2, <1>3
  <2>2. CASE x # e
    <3>1. told'[x] = told[x] /\ (x \in processed' <=> x \in processed)
      BY <2>2, <1>2
    <3> QED BY <3>1 DEF IInv, ToldOnce
  <2> QED BY <2>1, <2>2
<1>6. PaidToSubmitterOnce'
  BY <1>1 DEF IInv, PaidToSubmitterOnce
<1>7. MarkedIsPaid'
  BY <1>1 DEF IInv, MarkedIsPaid
<1> QED BY <1>4, <1>5, <1>6, <1>7

LEMMA NextInvariant == IInv /\ [Next]_vars => IInv'
<1> SUFFICES ASSUME IInv, [Next]_vars PROVE IInv'
  OBVIOUS
<1> USE DEF catalogVars, localVars
<1>1. ASSUME NEW c \in Claims, NEW to \in ClaimState, NEW actor \in Users,
             CatalogMoves(c, to, actor)
      PROVE  IInv'
  <2>1. PICK ev \in Event : feed' = Append(feed, ev)
    BY <1>1, ClaimsAssumption DEF CatalogMoves, Event, IInv, TypeOK
  <2>2. /\ Len(feed') = Len(feed) + 1 /\ Len(feed) \in Nat
        /\ UNCHANGED <<cursor, seed, processed, told, ledger, run>>
    BY <1>1, <2>1 DEF CatalogMoves, IInv, TypeOK
  <2>3. \A x \in 1 .. Len(feed) :
          /\ x \in 1 .. Len(feed') /\ feed'[x] = feed[x] /\ Truth(x)' = Truth(x)
          /\ Applies(feed[x])' <=> Applies(feed[x])
    BY <2>1, <2>2, TruthStable DEF IInv, Applies
  <2>4. TypeOK'
    <3>1. feed' \in Seq(Event) /\ Len(feed') <= MaxEvents
      BY <1>1, <2>1, <2>2, BoundsAssumption DEF CatalogMoves, IInv, TypeOK
    <3> QED BY <3>1, <2>2, <1>1 DEF CatalogMoves, IInv, TypeOK
  <2>5. \A n \in Int : n <= Len(feed) => (AppliedUpTo(n)' <=> AppliedUpTo(n))
    BY <2>1, <2>2, <2>3 DEF AppliedUpTo
  <2>6. RunsBehind'
    <3> SUFFICES ASSUME NEW r \in Runs
                 PROVE  /\ Active(r) => /\ cursor # Unseeded
                                        /\ seed <= run[r].at /\ run[r].at <= Len(feed')
                                        /\ AppliedUpTo(run[r].at)'
                        /\ run[r].pc \in {"applying", "awarded"} =>
                             run[r].at < run[r].upto /\ run[r].upto <= Len(feed')
                        /\ run[r].pc = "seeding" => run[r].at <= Len(feed')
      BY <2>2 DEF RunsBehind, Active
    <3>1. run[r].at \in Nat /\ run[r].upto \in Nat
      BY DEF IInv, TypeOK, RunState
    <3>2. Active(r) => AppliedUpTo(run[r].at)'
      <4>1. Active(r) => run[r].at <= Len(feed) /\ AppliedUpTo(run[r].at)
        BY DEF IInv, RunsBehind
      <4> QED BY <4>1, <3>1, <2>2, <2>3 DEF AppliedUpTo
    <3> QED BY <3>1, <3>2, <2>2 DEF IInv, RunsBehind
  <2>7. PaidNotMarked'
    <3>1. \A r \in Runs : run[r].pc = "awarded" =>
            Next1(r) \in 1 .. Len(feed) /\ Next1(r)' = Next1(r)
      BY <2>2 DEF IInv, TypeOK, RunState, RunsBehind, Next1
    <3> QED BY <3>1, <2>2, <2>3 DEF IInv, PaidNotMarked
  <2>8. SeedingFirst'
    BY <2>2 DEF IInv, SeedingFirst, Seeding, Active
  <2>9. processed \subseteq 1 .. Len(feed)
    BY DEF IInv, TypeOK
  <2>10. MarkedInOrder'
    BY <2>2, <2>3, <2>5, <2>9 DEF IInv, MarkedInOrder
  <2>11. NothingSkipped'
    <3>1. cursor <= Len(feed)
      BY <2>2 DEF IInv, TypeOK
    <3> QED BY <3>1, <2>2, <2>3 DEF IInv, TypeOK, NothingSkipped
  <2>12. PaidToSubmitterOnce'
    BY <2>2, <2>3 DEF IInv, PaidToSubmitterOnce
  <2>13. ToldOnce'
    BY <2>2, <2>3, <2>9 DEF IInv, ToldOnce
  <2>14. MarkedIsPaid'
    BY <2>2, <2>3, <2>9 DEF IInv, MarkedIsPaid
  <2> QED BY <2>4, <2>6, <2>7, <2>8, <2>10, <2>11, <2>12, <2>13, <2>14 DEF IInv
<1>2. ASSUME NEW w \in Works, MarkIndexed(w) PROVE IInv'
  <2>1. UNCHANGED <<feed, claim, seed, cursor, processed, told, ledger, run, fails>>
    BY <1>2 DEF MarkIndexed
  <2>2. TypeOK'
    BY <1>2, <2>1 DEF MarkIndexed, IInv, TypeOK
  <2>3. \A e : Truth(e)' = Truth(e)
    BY <2>1, TruthFrame
  <2>4. RunsBehind' /\ SeedingFirst'
    BY <2>1 DEF IInv, RunsBehind, SeedingFirst, Active, Seeding, AppliedUpTo
  <2>5. PaidNotMarked'
    BY <2>1, <2>3 DEF IInv, PaidNotMarked, Next1
  <2> QED BY <2>1, <2>2, <2>4, <2>5, TablesFrame DEF IInv
<1>3. ASSUME NEW r \in Runs, ReadCursor(r) PROVE IInv'
  <2> DEFINE s == IF cursor = Unseeded
                    THEN [Idle EXCEPT !.pc = "seeking"]
                    ELSE [Idle EXCEPT !.pc = "fetching", !.at = cursor, !.page = 1]
  <2>1. cursor \in -1 .. Len(feed) /\ Len(feed) \in Nat
    BY DEF IInv, TypeOK
  <2>2. s \in RunState
    <3>1. CASE cursor = Unseeded
      BY <3>1 DEF Idle, RunState
    <3>2. CASE cursor # Unseeded
      <4>1. cursor \in Nat
        BY <2>1, <3>2 DEF Unseeded
      <4> QED BY <3>2, <4>1 DEF Idle, RunState
    <3> QED BY <3>1, <3>2
  <2>3. /\ s.pc \in {"seeking", "fetching"}
        /\ s.pc = "seeking" => cursor = Unseeded
        /\ s.pc = "fetching" => cursor # Unseeded /\ s.at = cursor
    BY DEF Idle
  <2>4. AppliedUpTo(cursor) /\ seed <= cursor /\ cursor <= Len(feed)
    BY <2>1 DEF IInv, NothingSkipped, AppliedUpTo, SeedingFirst
  <2>5. s.pc = "fetching" => \A q \in Runs : ~Seeding(q)
    BY <1>3, <2>3 DEF ReadCursor, Seeding
  <2>6. /\ run' = [run EXCEPT ![r] = s]
        /\ fails' \in 0 .. MaxFails
        /\ UNCHANGED <<feed, claim, cursor, seed, processed, told, published, ledger>>
    BY <1>3 DEF ReadCursor, IInv, TypeOK
  <2> HIDE DEF s
  <2> QED BY <2>2, <2>3, <2>4, <2>5, <2>6, RunStep
<1>4. ASSUME NEW r \in Runs, ReadHead(r) PROVE IInv'
  <2> DEFINE s == [run[r] EXCEPT !.pc = "seeding", !.at = Len(feed)]
  <2>1. Len(feed) \in Nat /\ run[r] \in RunState
    BY DEF IInv, TypeOK
  <2>2. s \in RunState /\ s.pc = "seeding" /\ s.at = Len(feed)
    BY <2>1 DEF RunState
  <2>3. run' = [run EXCEPT ![r] = s] /\ Seeding(r)
    BY <1>4 DEF ReadHead, Seeding
  <2>4. /\ fails' \in 0 .. MaxFails
        /\ UNCHANGED <<feed, claim, cursor, seed, processed, told, published, ledger>>
    BY <1>4 DEF ReadHead, IInv, TypeOK
  <2>5. /\ s.pc # "awarded" /\ s.pc \notin {"fetching", "applying"}
        /\ s.pc = "seeding" => s.at <= Len(feed)
        /\ s.pc \in {"seeking", "seeding"} => Seeding(r)
    BY <2>1, <2>2, <2>3
  <2> HIDE DEF s
  <2> QED BY <2>2, <2>3, <2>4, <2>5, RunStep
<1>5. ASSUME NEW r \in Runs, SeedCursor(r) PROVE IInv'
  <2>1. /\ processed = {} /\ ledger = {} /\ \A q \in Runs : ~Active(q)
        /\ run[r].at \in Nat /\ run[r].at <= Len(feed) /\ Len(feed) \in Nat
    BY <1>5 DEF SeedCursor, Seeding, IInv, TypeOK, RunState, SeedingFirst, RunsBehind
  <2>2. UNCHANGED <<feed, claim, processed, told, published, ledger, fails>>
        /\ cursor' = run[r].at /\ seed' = run[r].at
    BY <1>5 DEF SeedCursor
  <2>3. run' \in [Runs -> RunState] /\ \A q \in Runs : run'[q] = IF q = r THEN Idle ELSE run[q]
    BY <1>5 DEF SeedCursor, IInv, TypeOK, Idle, RunState
  <2>4. TypeOK'
    BY <2>1, <2>2, <2>3 DEF IInv, TypeOK
  <2>5. RunsBehind'
    BY <2>1, <2>2, <2>3 DEF IInv, RunsBehind, Active, Idle
  <2>6. PaidNotMarked'
    BY <2>1, <2>3 DEF PaidNotMarked, Active, Idle
  <2>7. SeedingFirst'
    BY <2>1, <2>2, <2>3 DEF SeedingFirst, Active, Seeding, Idle, Unseeded
  <2>8. MarkedInOrder' /\ PaidToSubmitterOnce' /\ MarkedIsPaid'
    BY <2>1, <2>2 DEF MarkedInOrder, PaidToSubmitterOnce, MarkedIsPaid
  <2>9. NothingSkipped'
    BY <2>1, <2>2 DEF NothingSkipped
  <2>10. ToldOnce'
    BY <2>1, <2>2 DEF IInv, ToldOnce
  <2> QED BY <2>2, <2>4, <2>5, <2>6, <2>7, <2>8, <2>9, <2>10 DEF IInv
<1>6. ASSUME NEW r \in Runs, FetchPage(r) PROVE IInv'
  <2> DEFINE behind == Len(feed) - run[r].at
             upto   == run[r].at + (IF behind < Batch THEN behind ELSE Batch)
             more == behind >= Batch
             s == IF behind <= 0 THEN Idle
                  ELSE [run[r] EXCEPT !.pc = "applying", !.upto = upto, !.more = more]
  <2>1. /\ Len(feed) \in Nat /\ run[r] \in RunState /\ run[r].at \in Nat
        /\ run[r].pc = "fetching" /\ Active(r)
    BY <1>6 DEF FetchPage, Active, IInv, TypeOK, RunState
  <2>2. /\ cursor # Unseeded /\ seed <= run[r].at /\ run[r].at <= Len(feed)
        /\ AppliedUpTo(run[r].at)
    BY <2>1 DEF IInv, RunsBehind
  <2>3. behind > 0 => upto \in Nat /\ run[r].at < upto /\ upto <= Len(feed)
    BY <2>1, BoundsAssumption
  <2>7. more \in BOOLEAN
    OBVIOUS
  <2> HIDE DEF upto, more
  <2>4. s \in RunState
    <3>1. Idle \in RunState
      BY DEF Idle, RunState
    <3>2. behind > 0 =>
            [run[r] EXCEPT !.pc = "applying", !.upto = upto, !.more = more] \in RunState
      BY <2>1, <2>3, <2>7 DEF RunState
    <3>3. behind \in Int
      BY <2>1
    <3> QED BY <3>1, <3>2, <3>3
  <2>5. /\ s.pc \in {"idle", "applying"}
        /\ s.pc = "applying" => s.at = run[r].at /\ s.upto = upto /\ behind > 0
    BY <2>1 DEF RunState, Idle
  <2>6. /\ run' = [run EXCEPT ![r] = s]
        /\ fails' \in 0 .. MaxFails
        /\ UNCHANGED <<feed, claim, cursor, seed, processed, told, published, ledger>>
    BY <1>6 DEF FetchPage, IInv, TypeOK, upto, more
  <2> HIDE DEF s
  <2> QED BY <2>1, <2>2, <2>3, <2>4, <2>5, <2>6, RunStep
<1>7. ASSUME NEW r \in Runs, Fail(r) PROVE IInv'
  <2>1. Idle \in RunState /\ Idle.pc = "idle"
    BY DEF Idle, RunState
  <2>2. fails' \in 0 .. MaxFails
    BY <1>7, BoundsAssumption DEF Fail, IInv, TypeOK
  <2> QED BY <1>7, <2>1, <2>2, RunStep DEF Fail
<1>8. ASSUME NEW r \in Runs, NEW e \in 1 .. Len(feed), SkipEvent(r, e) PROVE IInv'
  <2>1. /\ e = Next1(r) /\ run[r].pc \in {"applying", "awarded"} /\ CommitAt(r, e)
        /\ Applies(feed[e]) <=> e \in processed
        /\ UNCHANGED <<feed, claim, seed, fails, processed, told, published, ledger>>
    BY <1>8 DEF SkipEvent, AtEvent, CommitAt, IInv, MarkedInOrder
  <2>2. \A q \in Runs \ {r} : run[q].pc = "awarded" /\ Applies(feed[e]) => Next1(q) # e
    BY <1>8 DEF SkipEvent, AtEvent, InTransaction
  <2>3. /\ cursor' \in -1 .. Len(feed) /\ run' \in [Runs -> RunState]
        /\ processed' \subseteq 1 .. Len(feed)
        /\ RunsBehind' /\ PaidNotMarked' /\ SeedingFirst' /\ MarkedInOrder'
        /\ NothingSkipped'
    BY <2>1, <2>2, CommitStep
  <2>4. TypeOK'
    BY <2>1, <2>3 DEF IInv, TypeOK
  <2>5. \A x : Truth(x)' = Truth(x)
    BY <2>1, TruthFrame
  <2>6. PaidToSubmitterOnce' /\ ToldOnce' /\ MarkedIsPaid'
    BY <2>1, <2>5 DEF IInv, PaidToSubmitterOnce, ToldOnce, MarkedIsPaid
  <2> QED BY <2>3, <2>4, <2>6 DEF IInv
<1>9. ASSUME NEW r \in Runs, NEW e \in 1 .. Len(feed),
             RecordEvent(r, e) \/ NotifyEvent(r, e)
      PROVE  IInv'
  <2>1. /\ e = Next1(r) /\ run[r].pc \in {"applying", "awarded"} /\ Active(r) /\ CommitAt(r, e)
        /\ Applies(feed[e]) /\ e \notin processed /\ processed' = processed \cup {e}
        /\ UNCHANGED <<feed, claim, seed, fails, ledger>>
    BY <1>9 DEF RecordEvent, NotifyEvent, AtEvent, CommitAt, Active
  <2>2. \A q \in Runs \ {r} : run[q].pc = "awarded" /\ Applies(feed[e]) => Next1(q) # e
    BY <1>9 DEF RecordEvent, NotifyEvent, AtEvent, InTransaction
  <2>3. /\ cursor' \in -1 .. Len(feed) /\ run' \in [Runs -> RunState]
        /\ processed' \subseteq 1 .. Len(feed)
        /\ RunsBehind' /\ PaidNotMarked' /\ SeedingFirst' /\ MarkedInOrder'
        /\ NothingSkipped'
    BY <2>1, <2>2, CommitStep
  <2>4. SubmitterOf(feed[e].work, processed \cup {e}) = Truth(e)
    BY <2>1, LookupIsTruth
  <2>5. Truth(e) \in Users \cup {NoUser}
    <3>1. processed \cup {e} \in SUBSET (1 .. Len(feed)) /\ TypeOK
      BY DEF IInv, TypeOK
    <3> QED BY <3>1, <2>4, SubmitterType
  <2>6. /\ told' = IF EffectOf(feed[e]) = "rememberSubmitter" \/ Truth(e) = NoUser
                     THEN told ELSE [told EXCEPT ![e] = Append(@, Truth(e))]
        /\ EffectOf(feed[e]) = "approved" => Truth(e) = NoUser
    BY <1>9, <2>4 DEF RecordEvent, NotifyEvent
  <2>7. told' \in [Events -> Seq(Users)] /\ ToldOnce' /\ PaidToSubmitterOnce' /\ MarkedIsPaid'
    BY <2>1, <2>5, <2>6, EffectStep
  <2>8. published' \in [Works -> BOOLEAN]
    BY <1>9 DEF RecordEvent, NotifyEvent, IInv, TypeOK
  <2>9. TypeOK'
    BY <2>1, <2>3, <2>7, <2>8 DEF IInv, TypeOK
  <2> QED BY <2>1, <2>3, <2>7, <2>9 DEF IInv
<1>10. ASSUME NEW r \in Runs, NEW e \in 1 .. Len(feed), AwardSubmitter(r, e) PROVE IInv'
  <2> DEFINE award == [key |-> e, user |-> Truth(e)]
  <2>1. /\ e = Next1(r) /\ run[r].pc = "applying" /\ Active(r)
        /\ Applies(feed[e]) /\ e \notin processed /\ EffectOf(feed[e]) = "approved"
        /\ UNCHANGED <<feed, claim, cursor, seed, processed, told, published, fails>>
    BY <1>10 DEF AwardSubmitter, AtEvent, Active
  <2>2. SubmitterOf(feed[e].work, processed \cup {e}) = Truth(e)
    BY <2>1, LookupIsTruth
  <2>3. Truth(e) \in Users
    <3>1. processed \cup {e} \in SUBSET (1 .. Len(feed)) /\ TypeOK
      BY DEF IInv, TypeOK
    <3> QED BY <1>10, <3>1, <2>2, SubmitterType DEF AwardSubmitter
  <2>4. e \in Events
    BY BoundsAssumption DEF IInv, TypeOK, Events
  <2>5. ledger' = ledger \/ ledger' = ledger \cup {award}
    BY <1>10, <2>2 DEF AwardSubmitter, Adjusted, AwardKey
  <2>6. award \in ledger' /\ (ledger' # ledger => \A a \in ledger : a.key # e)
    <3>1. CASE \E a \in ledger : a.key = e
      <4>1. PICK a \in ledger : a.key = e
        BY <3>1
      <4>2. a = award
        BY <4>1 DEF IInv, TypeOK, PaidToSubmitterOnce
      <4> QED BY <1>10, <3>1, <4>1, <4>2, <2>5 DEF AwardSubmitter, Adjusted, AwardKey
    <3>2. CASE ~ \E a \in ledger : a.key = e
      BY <1>10, <3>2, <2>2 DEF AwardSubmitter, Adjusted, AwardKey
    <3> QED BY <3>1, <3>2
  <2>9. PICK s \in RunState :
          /\ run' = [run EXCEPT ![r] = s]
          /\ s.pc = "awarded" /\ s.at = run[r].at /\ s.upto = run[r].upto
    <3> DEFINE s == [run[r] EXCEPT !.pc = "awarded"]
    <3>1. run[r] \in RunState /\ run \in [Runs -> RunState]
      BY DEF IInv, TypeOK
    <3>2. s \in RunState /\ s.pc = "awarded" /\ s.at = run[r].at /\ s.upto = run[r].upto
      BY <3>1 DEF RunState
    <3>3. run' = [run EXCEPT ![r].pc = "awarded"]
      BY <1>10, <2>2 DEF AwardSubmitter
    <3>4. run' = [run EXCEPT ![r] = s]
      BY <3>1, <3>3
    <3> QED BY <3>2, <3>4
  <2>10. \A q \in Runs : run'[q] = IF q = r THEN s ELSE run[q]
    BY <2>9 DEF IInv, TypeOK
  <2>11. TypeOK'
    <3>1. ledger' \subseteq [key : Events, user : Users]
      BY <2>3, <2>4, <2>5 DEF IInv, TypeOK
    <3>2. run' \in [Runs -> RunState]
      BY <2>9 DEF IInv, TypeOK
    <3> QED BY <2>1, <3>1, <3>2 DEF IInv, TypeOK
  <2>12. \A x : Truth(x)' = Truth(x)
    BY <2>1, TruthFrame
  <2>13. RunsBehind'
    <3> SUFFICES ASSUME NEW q \in Runs
                 PROVE  /\ Active(q)' => /\ cursor # Unseeded
                                         /\ seed <= run'[q].at /\ run'[q].at <= Len(feed)
                                         /\ AppliedUpTo(run'[q].at)
                        /\ run'[q].pc \in {"applying", "awarded"} =>
                             run'[q].at < run'[q].upto /\ run'[q].upto <= Len(feed)
                        /\ run'[q].pc = "seeding" => run'[q].at <= Len(feed)
      BY <2>1 DEF RunsBehind, AppliedUpTo
    <3>1. CASE q = r
      BY <3>1, <2>1, <2>9, <2>10 DEF IInv, RunsBehind, Active
    <3>2. CASE q # r
      BY <3>2, <2>10 DEF IInv, RunsBehind, Active
    <3> QED BY <3>1, <3>2
  <2>14. PaidNotMarked'
    <3>1. \A q \in Runs : Next1(q)' = Next1(q)
      BY <2>9, <2>10 DEF Next1
    <3>2. \A q \in Runs : run'[q].pc = "awarded" => q = r \/ run[q].pc = "awarded"
      BY <2>10
    <3>3. \A q \in Runs \ {r} : run[q].pc = "awarded" => Next1(q) # e
      BY <1>10, <2>1 DEF AwardSubmitter, AtEvent, InTransaction
    <3>4. Truth(e) # NoUser
      BY <2>3, UsersAssumption
    <3>5. ledger \subseteq ledger'
      BY <2>5
    <3>6. ASSUME NEW q \in Runs, run'[q].pc = "awarded"
          PROVE  /\ Applies(feed[Next1(q)])
                 /\ EffectOf(feed[Next1(q)]) = "approved"
                 /\ Next1(q) \notin processed
                 /\ Truth(Next1(q)) # NoUser
                 /\ [key |-> Next1(q), user |-> Truth(Next1(q))] \in ledger'
      <4>1. CASE q = r
        BY <4>1, <2>1, <2>6, <3>4
      <4>2. CASE q # r
        BY <4>2, <3>2, <3>5, <3>6 DEF IInv, PaidNotMarked
      <4> QED BY <4>1, <4>2
    <3>7. \A p, q \in Runs :
            p # q /\ run'[p].pc = "awarded" /\ run'[q].pc = "awarded" => Next1(p) # Next1(q)
      BY <2>1, <3>2, <3>3 DEF IInv, PaidNotMarked
    <3> QED BY <2>1, <2>12, <3>1, <3>6, <3>7 DEF PaidNotMarked, Applies
  <2>15. SeedingFirst'
    <3>1. cursor # Unseeded
      BY <2>1 DEF IInv, RunsBehind
    <3>2. \A q \in Runs : ~Seeding(q)
      BY <2>1 DEF IInv, SeedingFirst
    <3> QED BY <3>1, <3>2, <2>1, <2>9, <2>10 DEF IInv, SeedingFirst, Seeding
  <2>16. MarkedInOrder' /\ NothingSkipped'
    BY <2>1 DEF IInv, MarkedInOrder, NothingSkipped, AppliedUpTo, Applies
  <2>17. ToldOnce' /\ MarkedIsPaid'
    BY <2>1, <2>5, <2>12 DEF IInv, ToldOnce, MarkedIsPaid
  <2>18. PaidToSubmitterOnce'
    BY <2>1, <2>5, <2>6, <2>12 DEF IInv, PaidToSubmitterOnce, Applies
  <2> QED BY <2>11, <2>13, <2>14, <2>15, <2>16, <2>17, <2>18 DEF IInv
<1>11. ASSUME NEW r \in Runs, NEW e \in 1 .. Len(feed), CommitAward(r, e) PROVE IInv'
  <2>1. /\ e = Next1(r) /\ run[r].pc = "awarded" /\ Active(r) /\ CommitAt(r, e)
        /\ processed' = processed \cup {e}
        /\ UNCHANGED <<feed, claim, seed, fails, ledger, published>>
    BY <1>11 DEF CommitAward, CommitAt, Active
  <2>2. /\ Applies(feed[e]) /\ e \notin processed /\ EffectOf(feed[e]) = "approved"
        /\ Truth(e) # NoUser /\ [key |-> e, user |-> Truth(e)] \in ledger
        /\ \A q \in Runs \ {r} : run[q].pc = "awarded" => Next1(q) # e
    BY <2>1 DEF IInv, PaidNotMarked
  <2>3. /\ cursor' \in -1 .. Len(feed) /\ run' \in [Runs -> RunState]
        /\ processed' \subseteq 1 .. Len(feed)
        /\ RunsBehind' /\ PaidNotMarked' /\ SeedingFirst' /\ MarkedInOrder'
        /\ NothingSkipped'
    BY <2>1, <2>2, CommitStep
  <2>4. SubmitterOf(feed[e].work, processed \cup {e}) = Truth(e)
    BY <2>1, <2>2, LookupIsTruth
  <2>5. Truth(e) \in Users \cup {NoUser}
    <3>1. processed \cup {e} \in SUBSET (1 .. Len(feed)) /\ TypeOK
      BY DEF IInv, TypeOK
    <3> QED BY <3>1, <2>4, SubmitterType
  <2>6. told' = [told EXCEPT ![e] = Append(@, Truth(e))]
    BY <1>11, <2>4 DEF CommitAward
  <2>7. told' \in [Events -> Seq(Users)] /\ ToldOnce' /\ PaidToSubmitterOnce' /\ MarkedIsPaid'
    BY <2>1, <2>2, <2>5, <2>6, EffectStep
  <2>9. TypeOK'
    BY <2>1, <2>3, <2>7 DEF IInv, TypeOK
  <2> QED BY <2>1, <2>3, <2>7, <2>9 DEF IInv
<1>12. CASE UNCHANGED vars
  <2>1. UNCHANGED <<feed, claim, seed, cursor, processed, told, published, ledger, run, fails>>
    BY <1>12 DEF vars
  <2>2. \A e : Truth(e)' = Truth(e)
    BY <2>1, TruthFrame
  <2>3. TypeOK' /\ RunsBehind' /\ SeedingFirst'
    BY <2>1 DEF IInv, TypeOK, RunsBehind, SeedingFirst, Active, Seeding, AppliedUpTo
  <2>4. PaidNotMarked'
    BY <2>1, <2>2 DEF IInv, PaidNotMarked, Next1
  <2> QED BY <2>1, <2>3, <2>4, TablesFrame DEF IInv
<1> QED
  BY <1>1, <1>2, <1>3, <1>4, <1>5, <1>6, <1>7, <1>8, <1>9, <1>10, <1>11, <1>12
  DEF Next, Step

\* Every reachable state satisfies the inductive invariant.
THEOREM Invariant == Spec => []IInv
<1>1. Init => IInv
  BY InitInvariant
<1>2. IInv /\ [Next]_vars => IInv'
  BY NextInvariant
<1> QED BY <1>1, <1>2, PTL DEF Spec

\* The variables keep their types.
THEOREM TypeCorrect == Spec => []TypeOK
<1>1. IInv => TypeOK
  BY DEF IInv
<1> QED BY <1>1, Invariant, PTL

\* The watermark never passes an event with an effect here that was not applied.
THEOREM WatermarkSafe == Spec => []NothingSkipped
<1>1. IInv => NothingSkipped
  BY DEF IInv
<1> QED BY <1>1, Invariant, PTL

\* Nothing that was in the feed before it was followed takes effect.
THEOREM NoHistory == Spec => []NoBackfill
<1>1. IInv => NoBackfill
  BY DEF IInv, NoBackfill, MarkedInOrder, SeedingFirst
<1> QED BY <1>1, Invariant, PTL

\* An approval is paid at most once, and to the submitter.
THEOREM AwardsCorrect == Spec => [](PaidToSubmitterOnce /\ MarkedIsPaid)
<1>1. IInv => PaidToSubmitterOnce /\ MarkedIsPaid
  BY DEF IInv
<1> QED BY <1>1, Invariant, PTL

\* Marked events have had their effect exactly once, the others not at all.
THEOREM ExactlyOnce == Spec => []AppliedExactlyOnce
<1>1. IInv => AppliedExactlyOnce
  BY BoundsAssumption DEF IInv, TypeOK, ToldOnce, AppliedExactlyOnce, Events
<1> QED BY <1>1, Invariant, PTL

-----------------------------------------------------------------------------
(***************************************************************************)
(* ClaimSync implements ClaimEffects.                                      *)
(***************************************************************************)
\* Among the events that concern us, the submissions are those to "pending".
LEMMA SubmissionIsPending ==
  ASSUME NEW ev \in Event, Applies(ev)
  PROVE  IsSubmission(ev) <=> ev.to = "pending"
  BY DEF Applies, IsSubmission, EffectOf, Event, ClaimState

\* The two modules agree on whom an event is owed to.
LEMMA SubmitterIsTruth ==
  ASSUME TypeOK, NEW e \in 1 .. Len(feed)
  PROVE  Promise!Submitter(e) = Truth(e)
<1> DEFINE H == {d \in 1 .. Len(feed) : seed < d /\ d <= e /\ Applies(feed[d])}
           P == {d \in H : feed[d].work = feed[e].work /\ feed[d].to = "pending"}
           Q == {d \in H : feed[d].work = feed[e].work /\ IsSubmission(feed[d])}
           L == {feed[d].actor : d \in {c \in P : \A b \in P : b <= c}}
           M == {feed[d].actor : d \in {c \in Q : \A b \in Q : b <= c}}
<1>1. \A d \in 1 .. Len(feed) : feed[d] \in Event
  BY DEF TypeOK
<1>2. P = Q
  BY <1>1, SubmissionIsPending
<1>3. L = M
  BY <1>2
<1>4. Truth(e) = Scan(L)
  BY DEF Truth, SubmitterOf
<1>5. Promise!Submitter(e) = Scan(M)
  BY DEF Promise!Submitter, Promise!History, Scan
<1> HIDE DEF L, M
<1> QED BY <1>3, <1>4, <1>5

\* The next event of a run that is not marked is the next one due.
LEMMA NextIsDue ==
  ASSUME IInv, NEW r \in Runs, NEW e \in 1 .. Len(feed), Active(r), e = Next1(r),
         Applies(feed[e]), e \notin processed
  PROVE  Promise!Due(e) /\ seed # -1
<1>1. /\ cursor # Unseeded /\ seed <= run[r].at /\ AppliedUpTo(run[r].at)
      /\ e = run[r].at + 1 /\ run[r].at \in Nat /\ seed \in Int
  BY DEF IInv, TypeOK, RunState, RunsBehind, Next1
<1>2. seed # -1
  BY <1>1 DEF IInv, SeedingFirst, Unseeded
<1>3. e \in Promise!History(e)
  BY <1>1 DEF Promise!History
<1>4. Promise!History(e) \ {e} \subseteq processed
  BY <1>1 DEF Promise!History, AppliedUpTo
<1> QED BY <1>2, <1>3, <1>4 DEF Promise!Due

\* Every step is a step of the promise or leaves what it speaks of alone.
LEMMA StepKeepsPromise ==
  ASSUME IInv, [Next]_vars
  PROVE  [Promise!Next]_(Promise!vars)
<1> USE DEF catalogVars, localVars
<1> DEFINE Quiet == UNCHANGED <<feed, seed, processed, ledger, told>>
<1>0. Quiet => UNCHANGED Promise!vars
  BY DEF Promise!vars
<1>1. ASSUME NEW c \in Claims, NEW to \in ClaimState, NEW actor \in Users,
             CatalogMoves(c, to, actor)
      PROVE  Promise!Next
  <2>1. PICK ev \in Event : feed' = Append(feed, ev)
    BY <1>1, ClaimsAssumption DEF CatalogMoves, Event, IInv, TypeOK
  <2>2. Len(feed') = Len(feed) + 1
    BY <2>1 DEF IInv, TypeOK
  <2>3. Promise!Happens
    BY <1>1, <2>1, <2>2 DEF CatalogMoves, Promise!Happens
  <2> QED BY <2>3 DEF Promise!Next
<1>2. ASSUME NEW r \in Runs, SeedCursor(r) PROVE Promise!Next
  <2>1. processed = {} /\ ledger = {} /\ run[r].at \in 0 .. Len(feed)
    BY <1>2 DEF SeedCursor, Seeding, IInv, TypeOK, RunState, SeedingFirst, RunsBehind
  <2>2. Promise!Follow(run[r].at)
    BY <1>2, <2>1 DEF SeedCursor, Promise!Follow
  <2> QED BY <2>1, <2>2 DEF Promise!Next
<1>3. ASSUME NEW r \in Runs, NEW e \in 1 .. Len(feed),
             RecordEvent(r, e) \/ NotifyEvent(r, e) \/ CommitAward(r, e)
      PROVE  Promise!Next
  <2>1. /\ e = Next1(r) /\ Active(r)
        /\ Applies(feed[e]) /\ e \notin processed /\ processed' = processed \cup {e}
        /\ UNCHANGED <<feed, seed, ledger>>
    BY <1>3 DEF RecordEvent, NotifyEvent, CommitAward, AtEvent, CommitAt, Active, IInv,
                PaidNotMarked
  <2>2. Promise!Due(e) /\ seed # -1
    BY <2>1, NextIsDue
  <2>3. Promise!Submitter(e) = Truth(e) /\ SubmitterOf(feed[e].work, processed \cup {e}) = Truth(e)
    BY <2>1, SubmitterIsTruth, LookupIsTruth DEF IInv
  <2>4. Promise!Owed(e) => Promise!Award(e) \in ledger
    <3>1. Promise!Owed(e) <=> EffectOf(feed[e]) = "approved" /\ Truth(e) # NoUser
      BY <2>3 DEF Promise!Owed, IsApproval
    <3>2. Promise!Award(e) = [key |-> e, user |-> Truth(e)]
      BY <2>3 DEF Promise!Award
    <3>3. CASE CommitAward(r, e)
      BY <3>2, <3>3 DEF CommitAward, IInv, PaidNotMarked
    <3>4. CASE RecordEvent(r, e) \/ NotifyEvent(r, e)
      BY <2>3, <3>1, <3>4 DEF RecordEvent, NotifyEvent
    <3> QED BY <1>3, <3>3, <3>4
  <2>5. told' = [told EXCEPT ![e] =
                   IF IsSubmission(feed[e]) \/ Promise!Submitter(e) = NoUser THEN @
                   ELSE Append(@, Promise!Submitter(e))]
    <3>1. told = [told EXCEPT ![e] = told[e]]
      BY DEF IInv, TypeOK
    <3>2. CASE RecordEvent(r, e)
      BY <2>3, <3>1, <3>2 DEF RecordEvent, IsSubmission
    <3>3. CASE NotifyEvent(r, e)
      BY <2>3, <3>3 DEF NotifyEvent, IsSubmission
    <3>4. CASE CommitAward(r, e)
      <4>1. EffectOf(feed[e]) = "approved" /\ Truth(e) # NoUser
        BY <3>4, <2>1 DEF CommitAward, IInv, PaidNotMarked
      <4> QED BY <2>3, <3>4, <4>1 DEF CommitAward, IsSubmission
    <3> QED BY <1>3, <3>2, <3>3, <3>4
  <2>6. Promise!TakeEffect(e)
    BY <2>1, <2>2, <2>4, <2>5 DEF Promise!TakeEffect
  <2> QED BY <2>6 DEF Promise!Next
<1>4. ASSUME NEW r \in Runs, NEW e \in 1 .. Len(feed), AwardSubmitter(r, e)
      PROVE  Promise!Next \/ Quiet
  <2>1. /\ e = Next1(r) /\ Active(r)
        /\ Applies(feed[e]) /\ e \notin processed /\ EffectOf(feed[e]) = "approved"
        /\ UNCHANGED <<feed, seed, processed, told>>
    BY <1>4 DEF AwardSubmitter, AtEvent, Active
  <2>2. Promise!Due(e) /\ seed # -1
    BY <2>1, NextIsDue
  <2>3. Promise!Submitter(e) = Truth(e) /\ SubmitterOf(feed[e].work, processed \cup {e}) = Truth(e)
    BY <2>1, SubmitterIsTruth, LookupIsTruth DEF IInv
  <2>4. Truth(e) # NoUser
    BY <1>4, <2>3 DEF AwardSubmitter
  <2>5. ledger' = ledger \/ ledger' = ledger \cup {[key |-> e, user |-> Truth(e)]}
    BY <1>4, <2>3 DEF AwardSubmitter, Adjusted, AwardKey
  <2>6. Promise!Owed(e) /\ Promise!Award(e) = [key |-> e, user |-> Truth(e)]
    BY <2>1, <2>3, <2>4 DEF Promise!Owed, Promise!Award, IsApproval
  <2>7. CASE ledger' = ledger
    BY <2>1, <2>7
  <2>8. CASE ledger' = ledger \cup {[key |-> e, user |-> Truth(e)]}
    BY <2>1, <2>2, <2>6, <2>8 DEF Promise!Pay, Promise!Next
  <2> QED BY <2>5, <2>7, <2>8
<1>5. ASSUME NEW w \in Works, MarkIndexed(w) PROVE Quiet
  BY <1>5 DEF MarkIndexed
<1>6. ASSUME NEW r \in Runs,
             ReadCursor(r) \/ ReadHead(r) \/ FetchPage(r) \/ Fail(r)
      PROVE  Quiet
  BY <1>6 DEF ReadCursor, ReadHead, FetchPage, Fail
<1>7. ASSUME NEW r \in Runs, NEW e \in 1 .. Len(feed), SkipEvent(r, e) PROVE Quiet
  BY <1>7 DEF SkipEvent, CommitAt
<1>8. UNCHANGED vars => Quiet
  BY DEF vars
<1> QED
  BY <1>0, <1>1, <1>2, <1>3, <1>4, <1>5, <1>6, <1>7, <1>8 DEF Next, Step

\* The job, with its overlapping runs, failures and replays, implements the
\* promise of one pass over the feed.
THEOREM Implements == Spec => KeepsPromise
<1>1. Init => Promise!Init
  BY DEF Init, Promise!Init, Unseeded, Events
<1>2. IInv /\ [Next]_vars => [Promise!Next]_(Promise!vars)
  BY StepKeepsPromise
<1> QED BY <1>1, <1>2, Invariant, PTL DEF Spec, KeepsPromise, Promise!Spec

-----------------------------------------------------------------------------
(***************************************************************************)
(* StoreLink: who answers for a product.                                   *)
(***************************************************************************)
\* The minter's state: without a product at hand, and with one.
Bare == {Waiting, Starting} \cup [pc : {"learning"}, on : BOOLEAN]
Laden ==
  [pc : {"calling", "releasing"}, of : Products]
    \cup [pc : {"storing", "remembering", "learning", "releasing"}, of : Products, on : BOOLEAN]

Reading == [pc : {"marking", "sending", "releasing"}, of : Products]

LinkTypes ==
  /\ reader \in [Readers -> Reading \cup {Rendered}]
  /\ minter \in Bare \cup Laden
  /\ queue \in Seq(Products)
  /\ queued \subseteq Products
  /\ running \in BOOLEAN

\* Nobody answers for p; or a page, a place of the queue or the minter does, alone.
NoOne(p) == Holding(p) = {} /\ InQueue(p) = {} /\ Minting(p) = {}
ByPage(p) == (\E q \in Readers : Holding(p) = {q}) /\ InQueue(p) = {} /\ Minting(p) = {}
ByQueue(p) == Holding(p) = {} /\ (\E i \in Nat : InQueue(p) = {i}) /\ Minting(p) = {}
ByMinter(p) == Holding(p) = {} /\ InQueue(p) = {} /\ Minting(p) = {minter}

Held(p) == IF p \in queued THEN ByPage(p) \/ ByQueue(p) \/ ByMinter(p) ELSE NoOne(p)

LinkInv == LinkTypes /\ \A p \in Products : Held(p)

-----------------------------------------------------------------------------
(***************************************************************************)
(* What the three parties hold.                                            *)
(***************************************************************************)
\* A minter without a product mints none, one with a product just that.
LEMMA MintingIs ==
  /\ minter \in Bare => \A p \in Products : Minting(p) = {}
  /\ minter \in Laden =>
       /\ minter.of \in Products
       /\ \A p \in Products : Minting(p) = IF p = minter.of THEN {minter} ELSE {}
<1>1. minter \in Bare => "of" \notin DOMAIN minter
  BY DEF Bare, Waiting, Starting
<1>2. minter \in Laden => "of" \in DOMAIN minter /\ minter.of \in Products
  BY DEF Laden
<1> QED BY <1>1, <1>2 DEF Minting

\* The same of the next state.
LEMMA MintingWillBe ==
  /\ minter' \in Bare => \A p \in Products : Minting(p)' = {}
  /\ minter' \in Laden =>
       /\ minter'.of \in Products
       /\ \A p \in Products : Minting(p)' = IF p = minter'.of THEN {minter'} ELSE {}
<1>1. minter' \in Bare => "of" \notin DOMAIN minter'
  BY DEF Bare, Waiting, Starting
<1>2. minter' \in Laden => "of" \in DOMAIN minter' /\ minter'.of \in Products
  BY DEF Laden
<1> QED BY <1>1, <1>2 DEF Minting

\* A step of the minter that takes no product up and lets none go.
LEMMA MinterGoesOn ==
  ASSUME LinkInv, UNCHANGED <<reader, queue, queued>>, running' \in BOOLEAN,
         \/ minter \in Bare /\ minter' \in Bare
         \/ minter \in Laden /\ minter' \in Laden /\ minter'.of = minter.of
  PROVE  LinkInv'
<1>1. LinkTypes'
  BY DEF LinkInv, LinkTypes
<1>2. \A p \in Products : Holding(p)' = Holding(p) /\ InQueue(p)' = InQueue(p)
  BY DEF Holding, InQueue, At
<1>3. \A p \in Products : /\ Minting(p) = {} => Minting(p)' = {}
                          /\ Minting(p) = {minter} => Minting(p)' = {minter'}
  BY MintingIs, MintingWillBe
<1>4. ASSUME NEW p \in Products PROVE Held(p)'
  BY <1>2, <1>3 DEF LinkInv, Held, ByPage, ByQueue, ByMinter, NoOne
<1> QED BY <1>1, <1>4 DEF LinkInv

\* What is held stays held, if nobody moves.
LEMMA NobodyMoves ==
  ASSUME LinkInv, UNCHANGED <<reader, queue, queued, minter>>, running' \in BOOLEAN
  PROVE  LinkInv'
  BY MinterGoesOn DEF LinkInv, LinkTypes

-----------------------------------------------------------------------------
(***************************************************************************)
(* The pages.                                                              *)
(***************************************************************************)
\* One page moves: the others hold what they held.
LEMMA PageMoves ==
  ASSUME LinkTypes, NEW q \in Readers, NEW r \in Reading \cup {Rendered},
         reader' = [reader EXCEPT ![q] = r]
  PROVE  /\ reader' \in [Readers -> Reading \cup {Rendered}]
         /\ \A p \in Products :
              Holding(p)' = IF r.pc \in {"sending", "releasing"} /\ r.of = p
                              THEN Holding(p) \cup {q} ELSE Holding(p) \ {q}
<1>1. /\ reader' \in [Readers -> Reading \cup {Rendered}] /\ reader'[q] = r
      /\ \A v \in Readers : v # q => reader'[v] = reader[v]
  BY DEF LinkTypes
<1> QED BY <1>1 DEF Holding, At

\* A page that answers for a product does so alone.
LEMMA PageAlone ==
  ASSUME LinkInv, NEW q \in Readers, At(q, "sending") \/ At(q, "releasing")
  PROVE  /\ reader[q].of \in queued /\ reader[q].of \in Products
         /\ Holding(reader[q].of) = {q}
         /\ InQueue(reader[q].of) = {} /\ Minting(reader[q].of) = {}
         /\ \A p \in Products : p # reader[q].of => q \notin Holding(p)
<1>1. PICK p : p = reader[q].of
  OBVIOUS
<1>2. p \in Products /\ q \in Holding(p)
  BY <1>1 DEF LinkInv, LinkTypes, Reading, Rendered, At, Holding
<1>3. Held(p)
  BY <1>2 DEF LinkInv
<1>4. p \in queued /\ ByPage(p)
  BY <1>2, <1>3 DEF Held, ByQueue, ByMinter, NoOne
<1>5. Holding(p) = {q}
  BY <1>2, <1>4 DEF ByPage
<1>6. \A x \in Products : x # reader[q].of => q \notin Holding(x)
  BY DEF Holding
<1> QED BY <1>1, <1>2, <1>4, <1>5, <1>6 DEF ByPage

LEMMA ResolveStep ==
  ASSUME LinkInv, NEW q \in Readers, NEW p \in Products, Resolve(q, p)
  PROVE  LinkInv'
<1>1. PICK r : r = [pc |-> "marking", of |-> p]
  OBVIOUS
<1>2. r \in Reading /\ r.pc = "marking"
  BY <1>1 DEF Reading
<1>3. /\ reader' = [reader EXCEPT ![q] = r] /\ At(q, "idle")
      /\ UNCHANGED <<queue, queued, minter, running>>
  BY <1>1 DEF Resolve, memory, pendVars, shopVars
<1>4. \A x \in Products : q \notin Holding(x)
  BY <1>3 DEF Holding, At
<1>5. /\ reader' \in [Readers -> Reading \cup {Rendered}]
      /\ \A x \in Products : Holding(x)' = Holding(x)
  <2>1. /\ reader' \in [Readers -> Reading \cup {Rendered}]
        /\ \A x \in Products : Holding(x)' = Holding(x) \ {q}
    BY <1>2, <1>3, PageMoves DEF LinkInv
  <2> QED BY <1>4, <2>1
<1>6. \A x \in Products : InQueue(x)' = InQueue(x) /\ Minting(x)' = Minting(x)
  BY <1>3 DEF InQueue, Minting
<1>7. ASSUME NEW x \in Products PROVE Held(x)'
  BY <1>3, <1>5, <1>6 DEF LinkInv, Held, ByPage, ByQueue, ByMinter, NoOne
<1> QED BY <1>3, <1>5, <1>7 DEF LinkInv, LinkTypes

\* The mark is set by the page that found none; it answers for the product now.
LEMMA MarkQueuedStep ==
  ASSUME LinkInv, NEW q \in Readers, MarkQueued(q)
  PROVE  LinkInv'
<1>1. PICK p \in Products : p = reader[q].of
  BY DEF LinkInv, LinkTypes, Reading, Rendered, MarkQueued, At
<1>2. UNCHANGED <<queue, minter, running>> /\ At(q, "marking") /\ reader[q] \in Reading
  BY DEF MarkQueued, shopVars, LinkInv, LinkTypes, At, Rendered
<1>3. \A x \in Products : q \notin Holding(x)
  BY <1>2 DEF Holding, At
<1>4. \A x \in Products : InQueue(x)' = InQueue(x) /\ Minting(x)' = Minting(x)
  BY <1>2 DEF InQueue, Minting
<1>5. CASE reader' = [reader EXCEPT ![q] = Rendered] /\ queued' = queued
  <2>1. /\ reader' \in [Readers -> Reading \cup {Rendered}]
        /\ \A x \in Products : Holding(x)' = Holding(x)
    <3>1. /\ reader' \in [Readers -> Reading \cup {Rendered}]
          /\ \A x \in Products : Holding(x)' = Holding(x) \ {q}
      BY <1>5, PageMoves DEF LinkInv, Rendered
    <3> QED BY <1>3, <3>1
  <2>2. ASSUME NEW x \in Products PROVE Held(x)'
    BY <1>2, <1>4, <1>5, <2>1 DEF LinkInv, Held, ByPage, ByQueue, ByMinter, NoOne
  <2> QED BY <1>2, <1>5, <2>1, <2>2 DEF LinkInv, LinkTypes
<1>6. CASE p \notin queued /\ queued' = queued \cup {p}
           /\ reader' = [reader EXCEPT ![q].pc = "sending"]
  <2>1. PICK r : r = [reader[q] EXCEPT !.pc = "sending"]
    OBVIOUS
  <2>2. r \in Reading /\ r.pc = "sending" /\ r.of = p
    BY <1>1, <1>2, <2>1 DEF Reading
  <2>3. reader' = [reader EXCEPT ![q] = r]
    BY <1>6, <2>1
  <2>4. /\ reader' \in [Readers -> Reading \cup {Rendered}]
        /\ \A x \in Products :
             Holding(x)' = IF x = p THEN Holding(x) \cup {q} ELSE Holding(x)
    <3>1. /\ reader' \in [Readers -> Reading \cup {Rendered}]
          /\ \A x \in Products :
               Holding(x)' = IF p = x THEN Holding(x) \cup {q} ELSE Holding(x) \ {q}
      BY <2>2, <2>3, PageMoves DEF LinkInv
    <3> QED BY <1>3, <3>1
  <2>5. ASSUME NEW x \in Products PROVE Held(x)'
    <3>1. CASE x = p
      <4>1. NoOne(p)
        BY <1>6 DEF LinkInv, Held
      <4> QED BY <1>4, <1>6, <2>4, <3>1, <4>1 DEF Held, ByPage, NoOne
    <3>2. CASE x # p
      BY <1>2, <1>4, <1>6, <2>4, <3>2 DEF LinkInv, Held, ByPage, ByQueue, ByMinter, NoOne
    <3> QED BY <3>1, <3>2
  <2> QED BY <1>2, <1>6, <2>4, <2>5 DEF LinkInv, LinkTypes
<1> QED BY <1>1, <1>5, <1>6 DEF MarkQueued

\* A page hands its product to the queue, or takes the mark back itself.
LEMMA SendStep ==
  ASSUME LinkInv, NEW q \in Readers, Send(q)
  PROVE  LinkInv'
<1>1. PICK p : p = reader[q].of
  OBVIOUS
<1>2. At(q, "sending") /\ UNCHANGED <<queued, minter, running>>
  BY DEF Send, pendVars, shopVars
<1>3. /\ p \in Products /\ p \in queued
      /\ Holding(p) = {q} /\ InQueue(p) = {} /\ Minting(p) = {}
      /\ \A x \in Products : x # p => q \notin Holding(x)
  BY <1>1, <1>2, PageAlone
<1>4. \A x \in Products : Minting(x)' = Minting(x)
  BY <1>2 DEF Minting
<1>5. CASE Len(queue) < QueueSize
  <2>1. queue' = Append(queue, p) /\ reader' = [reader EXCEPT ![q] = Rendered]
    BY <1>1, <1>5 DEF Send
  <2>2. /\ reader' \in [Readers -> Reading \cup {Rendered}]
        /\ \A x \in Products : Holding(x)' = Holding(x) \ {q}
    BY <2>1, PageMoves DEF LinkInv, Rendered
  <2>3. /\ queue' \in Seq(Products) /\ Len(queue') = Len(queue) + 1 /\ Len(queue) \in Nat
        /\ \A i \in 1 .. Len(queue) : queue'[i] = queue[i]
        /\ queue'[Len(queue) + 1] = p
    BY <1>3, <2>1 DEF LinkInv, LinkTypes
  <2>4. InQueue(p)' = {Len(queue) + 1} /\ \A x \in Products : x # p => InQueue(x)' = InQueue(x)
    BY <1>3, <2>3 DEF InQueue, LinkInv, LinkTypes
  <2>5. ASSUME NEW x \in Products PROVE Held(x)'
    <3>1. CASE x = p
      <4>1. Holding(p)' = {} /\ Minting(p)' = {} /\ p \in queued'
        BY <1>2, <1>3, <1>4, <2>2
      <4>2. Len(queue) + 1 \in Nat
        BY <2>3
      <4> QED BY <2>4, <3>1, <4>1, <4>2 DEF Held, ByQueue
    <3>2. CASE x # p
      BY <1>2, <1>3, <1>4, <2>2, <2>4, <3>2 DEF LinkInv, Held, ByPage, ByQueue, ByMinter, NoOne
    <3> QED BY <3>1, <3>2
  <2> QED BY <1>2, <2>2, <2>3, <2>5 DEF LinkInv, LinkTypes
<1>6. CASE ~(Len(queue) < QueueSize)
  <2>1. queue' = queue /\ reader' = [reader EXCEPT ![q].pc = "releasing"]
    BY <1>6 DEF Send
  <2>2. PICK r : r = [reader[q] EXCEPT !.pc = "releasing"]
    OBVIOUS
  <2>3. r \in Reading /\ r.pc = "releasing" /\ r.of = p
    BY <1>1, <1>2, <2>2 DEF Reading, LinkInv, LinkTypes, At, Rendered
  <2>4. /\ reader' \in [Readers -> Reading \cup {Rendered}]
        /\ \A x \in Products : Holding(x)' = Holding(x)
    <3>1. reader' = [reader EXCEPT ![q] = r]
      BY <2>1, <2>2
    <3>2. /\ reader' \in [Readers -> Reading \cup {Rendered}]
          /\ \A x \in Products :
               Holding(x)' = IF p = x THEN Holding(x) \cup {q} ELSE Holding(x) \ {q}
      BY <2>3, <3>1, PageMoves DEF LinkInv
    <3> QED BY <1>3, <3>2
  <2>5. \A x \in Products : InQueue(x)' = InQueue(x)
    BY <2>1 DEF InQueue
  <2>6. ASSUME NEW x \in Products PROVE Held(x)'
    BY <1>2, <1>4, <2>4, <2>5 DEF LinkInv, Held, ByPage, ByQueue, ByMinter, NoOne
  <2> QED BY <1>2, <2>1, <2>4, <2>6 DEF LinkInv, LinkTypes
<1> QED BY <1>5, <1>6

LEMMA ReleaseStep ==
  ASSUME LinkInv, NEW q \in Readers, Release(q)
  PROVE  LinkInv'
<1>1. PICK p : p = reader[q].of
  OBVIOUS
<1>2. /\ At(q, "releasing") /\ UNCHANGED <<queue, minter, running>>
      /\ queued' = queued \ {p} /\ reader' = [reader EXCEPT ![q] = Rendered]
  BY <1>1 DEF Release, shopVars
<1>3. /\ p \in Products /\ Holding(p) = {q} /\ InQueue(p) = {} /\ Minting(p) = {}
      /\ \A x \in Products : x # p => q \notin Holding(x)
  BY <1>1, <1>2, PageAlone
<1>4. /\ reader' \in [Readers -> Reading \cup {Rendered}]
      /\ \A x \in Products : Holding(x)' = Holding(x) \ {q}
  BY <1>2, PageMoves DEF LinkInv, Rendered
<1>5. \A x \in Products : InQueue(x)' = InQueue(x) /\ Minting(x)' = Minting(x)
  BY <1>2 DEF InQueue, Minting
<1>6. ASSUME NEW x \in Products PROVE Held(x)'
  <2>1. CASE x = p
    BY <1>2, <1>3, <1>4, <1>5, <2>1 DEF Held, NoOne
  <2>2. CASE x # p
    BY <1>2, <1>3, <1>4, <1>5, <2>2 DEF LinkInv, Held, ByPage, ByQueue, ByMinter, NoOne
  <2> QED BY <2>1, <2>2
<1> QED BY <1>2, <1>4, <1>6 DEF LinkInv, LinkTypes

-----------------------------------------------------------------------------
(***************************************************************************)
(* The minter.                                                             *)
(***************************************************************************)
\* Probing, asking the shop, storing and remembering: no product changes hands.
LEMMA MinterStep ==
  ASSUME LinkInv, \/ TickCampaign \/ RefreshCampaign \/ RefreshFails \/ PurchaseLinks \/ MarkBad
               \/ Halt \/ CallFails \/ StoreLink \/ StoreFails \/ Remember
  PROVE  LinkInv'
<1>1. UNCHANGED <<reader, queue, queued>> /\ running' \in BOOLEAN
  BY DEF LinkInv, LinkTypes, TickCampaign, RefreshCampaign, RefreshFails, PurchaseLinks, MarkBad, Halt,
     CallFails, StoreLink, StoreFails, Remember, shopVars, memory, pendVars
<1>2. CASE TickCampaign \/ RefreshCampaign \/ RefreshFails
  <2>1. minter' \in Bare
    BY <1>2 DEF TickCampaign, RefreshCampaign, RefreshFails, Bare, LinkInv, LinkTypes
  <2>2. minter \in Bare
    BY <1>2 DEF TickCampaign, RefreshCampaign, RefreshFails, MinterAt, Laden, LinkInv, LinkTypes
  <2> QED BY <1>1, <2>1, <2>2, MinterGoesOn
<1>3. CASE MarkBad \/ Halt \/ CallFails \/ StoreLink \/ StoreFails \/ Remember
  <2>1. PICK pc \in {"remembering", "learning", "releasing"} :
          /\ minter' = [minter EXCEPT !.pc = pc]
          /\ \/ MinterAt("calling") /\ pc = "releasing"
             \/ MinterAt("storing") \/ MinterAt("remembering")
    BY <1>3 DEF MarkBad, Halt, CallFails, StoreLink, StoreFails, Remember, MinterAt
  <2>2. minter \in Laden /\ minter' \in Laden /\ minter'.of = minter.of
    BY <2>1 DEF LinkInv, LinkTypes, Bare, Laden, Waiting, Starting, MinterAt
  <2> QED BY <1>1, <2>2, MinterGoesOn
<1>4. CASE PurchaseLinks
  <2>1. minter \in Laden /\ minter' \in Laden /\ minter'.of = minter.of
    BY <1>4 DEF PurchaseLinks, MinterAt, LinkInv, LinkTypes, Bare, Laden, Waiting, Starting
  <2> QED BY <1>1, <2>1, MinterGoesOn
<1> QED BY <1>2, <1>3, <1>4

\* The answer is learned; a product at hand stays at hand.
LEMMA SetCampaignStep ==
  ASSUME LinkInv, SetCampaign
  PROVE  LinkInv'
<1>1. UNCHANGED <<reader, queue, queued>> /\ running' \in BOOLEAN /\ minter.pc = "learning"
  BY DEF LinkInv, LinkTypes, SetCampaign, shopVars, pendVars, MinterAt
<1>2. CASE minter \in Bare
  <2>1. "of" \notin DOMAIN minter
    BY <1>2 DEF Bare, Waiting, Starting
  <2>2. minter' = Waiting
    BY <2>1 DEF SetCampaign
  <2>3. minter' \in Bare
    BY <2>2 DEF Bare
  <2> QED BY <1>1, <1>2, <2>3, MinterGoesOn
<1>3. CASE minter \in Laden
  <2>1. "of" \in DOMAIN minter /\ minter.of \in Products
    BY <1>3 DEF Laden
  <2>2. minter' = [pc |-> "releasing", of |-> minter.of]
    BY <2>1 DEF SetCampaign
  <2>3. minter' \in Laden /\ minter'.of = minter.of
    BY <2>1, <2>2 DEF Laden
  <2> QED BY <1>1, <1>3, <2>3, MinterGoesOn
<1> QED BY <1>2, <1>3 DEF LinkInv, LinkTypes

\* The first product of the queue is the minter's now.
LEMMA TakeProductStep ==
  ASSUME LinkInv, TakeProduct
  PROVE  LinkInv'
<1>1. /\ minter \in Bare /\ queue # <<>> /\ queue' = Tail(queue)
      /\ UNCHANGED <<reader, queued, running>>
  BY DEF LinkInv, LinkTypes, TakeProduct, MinterAt, Laden, shopVars, pendVars
<1>2. PICK p \in Products : p = Head(queue)
  BY <1>1 DEF LinkInv, LinkTypes
<1>3. /\ minter' = [pc |-> IF halted THEN "releasing" ELSE "calling", of |-> p]
  BY <1>2 DEF TakeProduct
<1>4. minter' \in Laden /\ minter'.of = p
  BY <1>3 DEF Laden
<1>5. /\ queue' \in Seq(Products) /\ Len(queue) \in Nat \ {0} /\ Len(queue') = Len(queue) - 1
      /\ \A i \in 1 .. Len(queue') : queue'[i] = queue[i + 1]
      /\ queue[1] = p
  BY <1>1, <1>2 DEF LinkInv, LinkTypes
<1>6. \A x \in Products : /\ Holding(x)' = Holding(x) /\ Minting(x) = {}
                          /\ Minting(x)' = IF x = p THEN {minter'} ELSE {}
  BY <1>1, <1>4, MintingIs, MintingWillBe DEF Holding, At
<1>7. \A x \in Products : \A i \in Nat :
        i \in InQueue(x)' => i + 1 \in InQueue(x) /\ i # 0
  BY <1>5 DEF InQueue, LinkInv, LinkTypes
<1>8. \A x \in Products : InQueue(x)' \subseteq Nat
  BY <1>5 DEF InQueue
<1>9. ASSUME NEW x \in Products PROVE Held(x)'
  <2>1. CASE x = p
    <3>1. 1 \in InQueue(p)
      BY <1>5 DEF InQueue, LinkInv, LinkTypes
    <3>2. p \in queued /\ Holding(p) = {} /\ InQueue(p) = {1}
      BY <3>1 DEF LinkInv, Held, NoOne, ByPage, ByQueue, ByMinter
    <3>3. InQueue(p)' = {}
      <4>1. ASSUME NEW i \in InQueue(p)' PROVE FALSE
        <5>1. i \in Nat /\ i # 0 /\ i + 1 = 1
          BY <1>7, <1>8, <3>2, <4>1
        <5> QED BY <5>1
      <4> QED BY <4>1
    <3> QED BY <1>1, <1>6, <2>1, <3>2, <3>3 DEF Held, ByMinter
  <2>2. CASE x # p
    <3>1. CASE InQueue(x) = {}
      <4>1. InQueue(x)' = {}
        BY <1>7, <1>8, <3>1
      <4> QED BY <1>1, <1>6, <2>2, <3>1, <4>1 DEF LinkInv, Held, NoOne, ByPage, ByQueue, ByMinter
    <3>2. CASE InQueue(x) # {}
      <4>1. x \in queued /\ Holding(x) = {}
        BY <3>2 DEF LinkInv, Held, NoOne, ByPage, ByQueue, ByMinter
      <4>2. PICK j \in Nat : InQueue(x) = {j}
        BY <3>2 DEF LinkInv, Held, NoOne, ByPage, ByQueue, ByMinter
      <4>3. j \in 1 .. Len(queue) /\ queue[j] = x /\ j # 1
        BY <1>5, <2>2, <4>2 DEF InQueue, LinkInv, LinkTypes
      <4>4. j - 1 \in 1 .. Len(queue') /\ queue'[j - 1] = x
        BY <1>5, <4>3
      <4>5. j - 1 \in InQueue(x)'
        BY <1>5, <4>4 DEF InQueue
      <4>6. \A i \in InQueue(x)' : i = j - 1
        BY <1>7, <1>8, <4>2
      <4>7. InQueue(x)' = {j - 1} /\ j - 1 \in Nat
        BY <4>3, <4>5, <4>6
      <4> QED BY <1>1, <1>6, <2>2, <4>1, <4>7 DEF Held, ByQueue
    <3> QED BY <3>1, <3>2
  <2> QED BY <2>1, <2>2
<1> QED BY <1>1, <1>4, <1>5, <1>9 DEF LinkInv, LinkTypes

\* The mark goes with the minter's answer.
LEMMA EndMintStep ==
  ASSUME LinkInv, EndMint
  PROVE  LinkInv'
<1>1. /\ minter \in Laden /\ minter' = Waiting /\ queued' = queued \ {minter.of}
      /\ UNCHANGED <<reader, queue, running>>
  BY DEF LinkInv, LinkTypes, EndMint, MinterAt, Bare, Waiting, Starting, shopVars
<1>2. minter' \in Bare
  BY <1>1 DEF Bare
<1>3. \A x \in Products : Holding(x)' = Holding(x) /\ InQueue(x)' = InQueue(x) /\ Minting(x)' = {}
  BY <1>1, <1>2, MintingWillBe DEF Holding, At, InQueue
<1>4. \A x \in Products : Minting(x) = IF x = minter.of THEN {minter} ELSE {}
  BY <1>1, MintingIs
<1>5. ASSUME NEW x \in Products PROVE Held(x)'
  <2>1. CASE x = minter.of
    BY <1>1, <1>3, <1>4, <2>1 DEF LinkInv, Held, NoOne, ByPage, ByQueue, ByMinter
  <2>2. CASE x # minter.of
    BY <1>1, <1>3, <1>4, <2>2 DEF LinkInv, Held, NoOne, ByPage, ByQueue, ByMinter
  <2> QED BY <2>1, <2>2
<1> QED BY <1>1, <1>2, <1>5 DEF LinkInv, LinkTypes

\* After a restart nothing is marked, queued or at hand.
LEMMA RestartStep ==
  ASSUME LinkInv, Restart
  PROVE  LinkInv'
<1>1. /\ queue' = <<>> /\ queued' = {} /\ reader' = Rest /\ minter' = Starting
      /\ running' = running
  BY DEF Restart, shopVars
<1>2. minter' \in Bare
  BY <1>1 DEF Bare
<1>3. LinkTypes'
  BY <1>1, <1>2 DEF LinkInv, LinkTypes, Rest
<1>4. \A x \in Products : Holding(x)' = {} /\ InQueue(x)' = {} /\ Minting(x)' = {}
  BY <1>1, <1>2, MintingWillBe DEF Holding, At, InQueue, Rest, Rendered
<1> QED BY <1>1, <1>3, <1>4 DEF LinkInv, Held, NoOne

-----------------------------------------------------------------------------
(***************************************************************************)
(* The theorems.                                                           *)
(***************************************************************************)
LEMMA LinkInitInvariant ==
  LinkInit => LinkInv
<1> SUFFICES ASSUME LinkInit PROVE LinkInv
  OBVIOUS
<1>1. minter \in Bare
  BY DEF LinkInit, Bare
<1>2. LinkTypes
  BY <1>1 DEF LinkInit, LinkTypes, Rest
<1>3. \A x \in Products : Holding(x) = {} /\ InQueue(x) = {} /\ Minting(x) = {}
  BY <1>1, MintingIs DEF LinkInit, Holding, At, InQueue, Rest, Rendered
<1> QED BY <1>2, <1>3 DEF LinkInit, LinkInv, Held, NoOne

LEMMA LinkNextInvariant ==
  LinkInv /\ [LinkNext]_linkVars => LinkInv'
<1> SUFFICES ASSUME LinkInv, [LinkNext]_linkVars PROVE LinkInv'
  OBVIOUS
<1>1. ASSUME NEW q \in Readers, ReaderStep(q) \/ \E p \in Products : Resolve(q, p)
      PROVE  LinkInv'
  BY <1>1, ResolveStep, MarkQueuedStep, SendStep, ReleaseStep DEF ReaderStep
<1>2. CASE Mint \/ TickCampaign \/ RefreshFails \/ CallFails \/ StoreFails
  BY <1>2, MinterStep, SetCampaignStep, TakeProductStep, EndMintStep DEF Mint
<1>3. CASE CampaignTurns
  <2>1. UNCHANGED <<reader, queue, queued, minter>> /\ running' \in BOOLEAN
    BY <1>3 DEF CampaignTurns, memory, pendVars
  <2> QED BY <2>1, NobodyMoves
<1>4. CASE UNCHANGED linkVars
  <2>1. UNCHANGED <<reader, queue, queued, minter>> /\ running' \in BOOLEAN
    BY <1>4 DEF linkVars, memory, pendVars, shopVars, LinkInv, LinkTypes
  <2> QED BY <2>1, NobodyMoves
<1> QED BY <1>1, <1>2, <1>3, <1>4, RestartStep DEF LinkNext

\* The strengthening of HeldOnce is an invariant.
THEOREM LinkInvariant == LinkSpec => []LinkInv
<1> QED BY LinkInitInvariant, LinkNextInvariant, PTL DEF LinkSpec

\* Exactly one party is one element in all.
LEMMA HeldIsOnce ==
  LinkInv => HeldOnce
<1> SUFFICES ASSUME LinkInv, NEW p \in Products
             PROVE  Cardinality(Holding(p)) + Cardinality(InQueue(p)) + Cardinality(Minting(p))
                      = IF p \in queued THEN 1 ELSE 0
  BY DEF HeldOnce
<1>1. Cardinality({}) = 0 /\ \A x : Cardinality({x}) = 1
  BY FS_EmptySet, FS_Singleton
<1>2. CASE p \notin queued
  <2>1. Holding(p) = {} /\ InQueue(p) = {} /\ Minting(p) = {}
    BY <1>2 DEF LinkInv, Held, NoOne
  <2> QED BY <1>1, <1>2, <2>1
<1>3. CASE p \in queued /\ ByPage(p)
  <2>1. PICK q \in Readers : Holding(p) = {q} /\ InQueue(p) = {} /\ Minting(p) = {}
    BY <1>3 DEF ByPage
  <2>2. Cardinality(Holding(p)) = 1 /\ Cardinality(InQueue(p)) = 0 /\ Cardinality(Minting(p)) = 0
    BY <1>1, <2>1
  <2> QED BY <1>3, <2>2
<1>4. CASE p \in queued /\ ByQueue(p)
  <2>1. PICK i \in Nat : Holding(p) = {} /\ InQueue(p) = {i} /\ Minting(p) = {}
    BY <1>4 DEF ByQueue
  <2>2. Cardinality(Holding(p)) = 0 /\ Cardinality(InQueue(p)) = 1 /\ Cardinality(Minting(p)) = 0
    BY <1>1, <2>1
  <2> QED BY <1>4, <2>2
<1>5. CASE p \in queued /\ ByMinter(p)
  <2>1. Holding(p) = {} /\ InQueue(p) = {} /\ Minting(p) = {minter}
    BY <1>5 DEF ByMinter
  <2>2. Cardinality(Holding(p)) = 0 /\ Cardinality(InQueue(p)) = 0 /\ Cardinality(Minting(p)) = 1
    BY <1>1, <2>1
  <2> QED BY <1>5, <2>2
<1> QED BY <1>2, <1>3, <1>4, <1>5 DEF LinkInv, Held

\* However many pages miss a link at once and however small the queue, a product is
\* marked exactly while one party answers for it.
THEOREM MarkedIsHeld == LinkSpec => []HeldOnce
<1> QED BY LinkInvariant, HeldIsOnce, PTL

=============================================================================
