------------------------------ MODULE ClaimSync ------------------------------
(***************************************************************************)
(* The cron job that turns the catalog's claim-event feed into local       *)
(* effects: internal/infrastructure/cron/claim_event_sync.go.              *)
(*                                                                         *)
(* The catalog (external) appends events to a feed; the event ids are the  *)
(* positions of the feed.  Every ten minutes a run reads the watermark     *)
(* (cron_state.last_id), fetches pages of events behind it and commits one *)
(* transaction per event: the marker in claim_event_processed, the local   *)
(* effect and the new watermark.  An approval pays +3 moemoepoint to the   *)
(* SUBMITTER through a remote call made while the transaction is open.     *)
(* The balance it answers goes into user.moemoepoint with the rest; that   *)
(* column has other writers and is modelled with them, in module Awarder,  *)
(* where PayClaim is such an award.                                        *)
(*                                                                         *)
(* Runs is the set of runs that may overlap (two instances of the server,  *)
(* or a run that outlives its tick: the scheduler does not skip a tick     *)
(* while the previous one is still running).  A run fails at any point:    *)
(* its open transaction rolls back, what it did remotely stays.            *)
(***************************************************************************)
EXTENDS Integers, Sequences

CONSTANTS
  Runs,       (* runs of the job that may be active at the same time        *)
  Claims,     (* the catalog's claims: [site, work, anchored] records       *)
  Works,      (* catalog works; a work's local patch has the same identity  *)
  Users,      (* users of the OAuth service, the reviewer included          *)
  Reviewer,   (* the user who moves claims out of "pending" and "live"      *)
  NoUser,     (* no submitter is on record                                  *)
  Moves,      (* the <<from, to>> transitions the catalog makes             *)
  Batch,      (* claimSyncBatch                                             *)
  MaxPages,   (* claimSyncMaxPages                                          *)
  MaxEvents,  (* bound: length of the feed                                  *)
  MaxFails    (* bound: how many times a run fails                          *)

OwnSite == "kungal"
Unborn  == "unborn"          \* from_state is null: the claim did not exist
Unseeded == -1               \* no row in cron_state

ClaimState == {"draft", "pending", "live", "declined", "hidden", "none",
               "quarantined"}   \* the last stands for a state added later
Event == [site : {OwnSite, "other"}, work : Works, anchored : BOOLEAN,
          from : ClaimState \cup {Unborn}, to : ClaimState, actor : Users]

ASSUME ClaimsAssumption ==
  Claims \subseteq [site : {OwnSite, "other"}, work : Works, anchored : BOOLEAN]
ASSUME UsersAssumption == Reviewer \in Users /\ NoUser \notin Users
ASSUME MovesAssumption == Moves \subseteq ((ClaimState \cup {Unborn}) \X ClaimState)
ASSUME BoundsAssumption ==
  Batch \in Nat \ {0} /\ MaxPages \in Nat \ {0} /\ MaxEvents \in Nat /\ MaxFails \in Nat

VARIABLES
  feed,         (* catalog: the events, in id order                         *)
  claim,        (* catalog: the state of each claim                         *)
  cursor,       (* cron_state.last_id, or Unseeded                          *)
  seed,         (* the head the watermark was last seeded with (history)    *)
  processed,    (* claim_event_processed: ids that have a row               *)
  told,         (* user_message: for each event, the recipients notified    *)
  published,    (* patch.published of each work's patch                     *)
  ledger,       (* OAuth: the entries under this job's keys, [key, user]    *)
  run,          (* each run's local state                                   *)
  fails         (* how many runs have failed                                *)

catalogVars == <<feed, claim>>
localVars   == <<cursor, seed, processed, told, published>>
vars == <<feed, claim, cursor, seed, processed, told, published, ledger, run, fails>>

Events == 1 .. MaxEvents
Idle == [pc |-> "idle", at |-> 0, upto |-> 0, more |-> FALSE, page |-> 0]

(***************************************************************************)
(* The effect table and the submitter lookup.                              *)
(***************************************************************************)
EffectOf(ev) ==
  CASE ~ev.anchored -> "none"
    [] ev.anchored /\ ev.to = "live" ->
         (CASE ev.from = "pending" -> "approved"
            [] ev.from = "hidden"  -> "unbanned"
            [] OTHER -> "none")
    [] ev.anchored /\ ev.to = "declined" -> "declined"
    [] ev.anchored /\ ev.to = "hidden"   -> "banned"
    [] ev.anchored /\ ev.to = "pending"  -> "rememberSubmitter"
    [] ev.anchored /\ ev.to \in {"draft", "none"} -> "none"
    [] OTHER -> "unknownState"

\* The events applyClaimEvent goes on with: ours, with a known local effect.
Applies(ev) == ev.site = OwnSite /\ EffectOf(ev) \notin {"none", "unknownState"}

\* A scan of at most one row into a variable.
Scan(S) == IF S = {} THEN NoUser ELSE CHOOSE u \in S : TRUE

\* SELECT actor_uid ... WHERE work_id = ? AND to_state = 'pending'
\* ORDER BY event_id DESC LIMIT 1, over the rows in `rows`.
SubmitterOf(work, rows) ==
  LET pending == {e \in rows : feed[e].work = work /\ feed[e].to = "pending"}
  IN  Scan({feed[e].actor : e \in {d \in pending : \A c \in pending : c <= d}})

\* moyu:claim_approved:<event id>
AwardKey(e) == e

\* The ledger applies a key once, and answers either way.
Adjusted(key, user) ==
  IF \E a \in ledger : a.key = key THEN ledger
                                   ELSE ledger \cup {[key |-> key, user |-> user]}

-----------------------------------------------------------------------------
Init ==
  /\ feed = <<>>
  /\ claim = [c \in Claims |-> Unborn]
  /\ cursor = Unseeded
  /\ seed = Unseeded
  /\ processed = {}
  /\ told = [e \in Events |-> <<>>]
  /\ published \in [Works -> BOOLEAN]
  /\ ledger = {}
  /\ run = [r \in Runs |-> Idle]
  /\ fails = 0

(***************************************************************************)
(* The environment: the catalog, and CreateResource publishing the patch.  *)
(***************************************************************************)
\* A user moves a claim to draft or pending; the reviewer decides the rest.
CatalogMoves(c, to, actor) ==
  /\ Len(feed) < MaxEvents
  /\ <<claim[c], to>> \in Moves
  /\ (actor = Reviewer) <=> (to \notin {"draft", "pending"})
  /\ feed' = Append(feed, [site |-> c.site, work |-> c.work, anchored |-> c.anchored,
                           from |-> claim[c], to |-> to, actor |-> actor])
  /\ claim' = [claim EXCEPT ![c] = to]
  /\ UNCHANGED <<localVars, ledger, run, fails>>

\* MarkIndexed, on the first resource accepted for the work.
MarkIndexed(w) ==
  /\ ~published[w]
  /\ published' = [published EXCEPT ![w] = TRUE]
  /\ UNCHANGED <<catalogVars, cursor, seed, processed, told, ledger, run, fails>>

(***************************************************************************)
(* A run up to its first page.                                             *)
(***************************************************************************)
\* A run that finds the watermark missing is over before the next tick
\* starts another one (its context ends after two of the ten minutes).
ReadCursor(r) ==
  /\ run[r].pc = "idle"
  /\ cursor = Unseeded \/ \A q \in Runs : run[q].pc \notin {"seeking", "seeding"}
  /\ run' = [run EXCEPT ![r] =
       IF cursor = Unseeded
         THEN [Idle EXCEPT !.pc = "seeking"]
         ELSE [Idle EXCEPT !.pc = "fetching", !.at = cursor, !.page = 1]]
  /\ UNCHANGED <<catalogVars, localVars, ledger, fails>>

ReadHead(r) ==
  /\ run[r].pc = "seeking"
  /\ run' = [run EXCEPT ![r].pc = "seeding", ![r].at = Len(feed)]
  /\ UNCHANGED <<catalogVars, localVars, ledger, fails>>

SeedCursor(r) ==
  /\ run[r].pc = "seeding"
  /\ cursor' = run[r].at
  /\ seed' = run[r].at
  /\ run' = [run EXCEPT ![r] = Idle]
  /\ UNCHANGED <<catalogVars, processed, told, published, ledger, fails>>

FetchPage(r) ==
  /\ run[r].pc = "fetching"
  /\ LET behind == Len(feed) - run[r].at
         upto   == run[r].at + (IF behind < Batch THEN behind ELSE Batch)
     IN  run' = [run EXCEPT ![r] =
           IF behind <= 0
             THEN Idle
             ELSE [@ EXCEPT !.pc = "applying", !.upto = upto, !.more = behind >= Batch]]
  /\ UNCHANGED <<catalogVars, localVars, ledger, fails>>

(***************************************************************************)
(* One event, one transaction.                                             *)
(***************************************************************************)
Next1(r) == run[r].at + 1                 \* the event the run is at
InTransaction(q, e) == run[q].pc = "awarded" /\ Next1(q) = e

\* An insert of a marker another open transaction holds waits for its end.
AtEvent(r, e) ==
  /\ run[r].pc = "applying"
  /\ e = Next1(r)
  /\ Applies(feed[e]) => \A q \in Runs \ {r} : ~InTransaction(q, e)

\* A run that has committed event e goes on to the next event of its page, to
\* the next page, or is over.
After(s, e) ==
  IF e < s.upto THEN [s EXCEPT !.pc = "applying", !.at = e]
  ELSE IF s.more /\ s.page < MaxPages
         THEN [s EXCEPT !.pc = "fetching", !.at = e, !.page = @ + 1]
         ELSE Idle

\* Mutant: the watermark of the whole page.
CommitAtPage(r, e) ==
  /\ cursor' = run[r].upto
  /\ run' = [run EXCEPT ![r] = After(@, e)]
  /\ UNCHANGED <<catalogVars, seed, fails>>

\* The commit writes the watermark.
CommitAt(r, e) ==
  /\ cursor' = e
  /\ run' = [run EXCEPT ![r] = After(@, e)]
  /\ UNCHANGED <<catalogVars, seed, fails>>

\* Mutant: an event that was applied before is an error, which ends the run.
SkipOrFail(r, e) ==
  /\ AtEvent(r, e)
  /\ \/ ~Applies(feed[e]) /\ CommitAt(r, e)
     \/ /\ Applies(feed[e]) /\ e \in processed
        /\ run' = [run EXCEPT ![r] = Idle]
        /\ UNCHANGED <<catalogVars, cursor, seed, fails>>
  /\ UNCHANGED <<processed, told, published, ledger>>

\* No effect here, another tenant, an unknown state, or applied before.
SkipEvent(r, e) ==
  /\ AtEvent(r, e)
  /\ ~Applies(feed[e]) \/ e \in processed
  /\ CommitAt(r, e)
  /\ UNCHANGED <<processed, told, published, ledger>>

\* Mutant: no marker for a submission, which has no effect of its own.
RecordNothing(r, e) ==
  /\ AtEvent(r, e)
  /\ Applies(feed[e]) /\ e \notin processed
  /\ \/ EffectOf(feed[e]) = "rememberSubmitter"
     \/ SubmitterOf(feed[e].work, processed \cup {e}) = NoUser
  /\ processed' = IF EffectOf(feed[e]) = "rememberSubmitter" THEN processed
                                                            ELSE processed \cup {e}
  /\ CommitAt(r, e)
  /\ UNCHANGED <<told, published, ledger>>

\* The marker alone: a submission, or an event nobody can be told about.
RecordEvent(r, e) ==
  /\ AtEvent(r, e)
  /\ Applies(feed[e]) /\ e \notin processed
  /\ \/ EffectOf(feed[e]) = "rememberSubmitter"
     \/ SubmitterOf(feed[e].work, processed \cup {e}) = NoUser
  /\ processed' = processed \cup {e}
  /\ CommitAt(r, e)
  /\ UNCHANGED <<told, published, ledger>>

NotifyEvent(r, e) ==
  LET submitter == SubmitterOf(feed[e].work, processed \cup {e})
  IN  /\ AtEvent(r, e)
      /\ Applies(feed[e]) /\ e \notin processed
      /\ EffectOf(feed[e]) \in {"declined", "banned", "unbanned"}
      /\ submitter # NoUser
      /\ processed' = processed \cup {e}
      /\ told' = [told EXCEPT ![e] = Append(@, submitter)]
      /\ published' = IF EffectOf(feed[e]) = "banned"
                        THEN [published EXCEPT ![feed[e].work] = FALSE]
                        ELSE published
      /\ CommitAt(r, e)
      /\ UNCHANGED ledger

\* Mutant: the event's actor is paid.
AwardActor(r, e) ==
  /\ AtEvent(r, e)
  /\ Applies(feed[e]) /\ e \notin processed
  /\ EffectOf(feed[e]) = "approved"
  /\ SubmitterOf(feed[e].work, processed \cup {e}) # NoUser
  /\ ledger' = Adjusted(AwardKey(e), feed[e].actor)
  /\ run' = [run EXCEPT ![r].pc = "awarded"]
  /\ UNCHANGED <<catalogVars, localVars, fails>>

\* An approval, first half: the marker is inserted, not committed, and the
\* remote ledger is called.
AwardSubmitter(r, e) ==
  LET submitter == SubmitterOf(feed[e].work, processed \cup {e})
  IN  /\ AtEvent(r, e)
      /\ Applies(feed[e]) /\ e \notin processed
      /\ EffectOf(feed[e]) = "approved"
      /\ submitter # NoUser
      /\ ledger' = Adjusted(AwardKey(e), submitter)
      /\ run' = [run EXCEPT ![r].pc = "awarded"]
      /\ UNCHANGED <<catalogVars, localVars, fails>>

\* Second half: the notification, marker and watermark (and the local balance).
CommitAward(r, e) ==
  LET submitter == SubmitterOf(feed[e].work, processed \cup {e})
  IN  /\ run[r].pc = "awarded"
      /\ e = Next1(r)
      /\ processed' = processed \cup {e}
      /\ told' = [told EXCEPT ![e] = Append(@, submitter)]
      /\ CommitAt(r, e)
      /\ UNCHANGED <<published, ledger>>

\* An error of the feed, the ledger or the database, a timeout or a crash.
Fail(r) ==
  /\ fails < MaxFails
  /\ run[r].pc # "idle"
  /\ run' = [run EXCEPT ![r] = Idle]
  /\ fails' = fails + 1
  /\ UNCHANGED <<catalogVars, localVars, ledger>>

-----------------------------------------------------------------------------
Step(r) ==
  \/ ReadCursor(r)
  \/ ReadHead(r)
  \/ SeedCursor(r)
  \/ FetchPage(r)
  \/ \E e \in 1 .. Len(feed) :
       \/ SkipEvent(r, e)
       \/ RecordEvent(r, e)
       \/ NotifyEvent(r, e)
       \/ AwardSubmitter(r, e)
       \/ CommitAward(r, e)

Next ==
  \/ \E c \in Claims, to \in ClaimState, actor \in Users : CatalogMoves(c, to, actor)
  \/ \E w \in Works : MarkIndexed(w)
  \/ \E r \in Runs : Step(r) \/ Fail(r)

\* The scheduler starts a run at every tick and a started run makes progress.
Fairness == \A r \in Runs : WF_vars(Step(r))

Spec == Init /\ [][Next]_vars
FairSpec == Spec /\ Fairness

-----------------------------------------------------------------------------
(***************************************************************************)
(* Properties.                                                             *)
(***************************************************************************)
RunState ==
  [pc : {"idle", "seeking", "seeding", "fetching", "applying", "awarded"},
   at : Nat, upto : Nat, more : BOOLEAN, page : Nat]

\* Every variable has its type; the events of the table are in the feed.
TypeOK ==
  /\ feed \in Seq(Event) /\ Len(feed) <= MaxEvents
  /\ claim \in [Claims -> ClaimState \cup {Unborn}]
  /\ cursor \in -1 .. Len(feed)
  /\ seed \in -1 .. Len(feed)
  /\ processed \subseteq 1 .. Len(feed)
  /\ told \in [Events -> Seq(Users)]
  /\ published \in [Works -> BOOLEAN]
  /\ ledger \subseteq [key : Events, user : Users]
  /\ run \in [Runs -> RunState]
  /\ fails \in 0 .. MaxFails

\* What the feed says of an event, whatever the database remembers: the last
\* actor who put the work up for review here, since the feed is followed.
Truth(e) ==
  SubmitterOf(feed[e].work,
              {d \in 1 .. Len(feed) : seed < d /\ d <= e /\ Applies(feed[d])})

\* The watermark never passes an event that has an effect here and was not
\* applied, however runs overlap and fail, and although an overlapping run
\* moves the watermark backwards.
NothingSkipped ==
  \A e \in 1 .. Len(feed) :
    seed < e /\ e <= cursor /\ Applies(feed[e]) => e \in processed

\* Seeding takes the head of the feed: no effect is applied for an event that
\* was in the feed before the watermark was seeded.
NoBackfill == \A e \in processed : cursor # Unseeded /\ seed < e

\* The ledger holds at most one award for an approval, and it is paid to the
\* submitter of the work, never to the reviewer who is the event's actor, to
\* an older submitter or for another tenant's event.
PaidToSubmitterOnce ==
  /\ \A a \in ledger :
       /\ a.key \in 1 .. Len(feed)
       /\ Applies(feed[a.key])
       /\ EffectOf(feed[a.key]) = "approved"
       /\ a.user = Truth(a.key)
  /\ \A a, b \in ledger : a.key = b.key => a = b

\* An event that is marked has had its whole effect exactly once; an event
\* that is not marked has had no local effect.
AppliedExactlyOnce ==
  \A e \in 1 .. Len(feed) :
    told[e] =
      IF /\ e \in processed
         /\ EffectOf(feed[e]) # "rememberSubmitter"
         /\ Truth(e) # NoUser
        THEN <<Truth(e)>>
        ELSE <<>>

\* A marked approval is in the ledger: the marker never gets ahead of the pay.
MarkedIsPaid ==
  \A e \in processed :
    EffectOf(feed[e]) = "approved" /\ Truth(e) # NoUser =>
      [key |-> e, user |-> Truth(e)] \in ledger

\* Every event appended behind the seed that has an effect here is applied in
\* the end, although runs overlap and a bounded number of them fail.
EveryEventApplied ==
  \A e \in Events :
    (/\ cursor # Unseeded /\ seed < e /\ e <= Len(feed) /\ Applies(feed[e]))
      ~> (e \in processed \/ e <= seed)

(***************************************************************************)
(* The promise of the job: see ClaimEffects.                               *)
(***************************************************************************)
IsSubmission(ev) == EffectOf(ev) = "rememberSubmitter"
IsApproval(ev)   == EffectOf(ev) = "approved"

Promise == INSTANCE ClaimEffects WITH
  done <- processed, Concerns <- Applies, Submits <- IsSubmission, Approves <- IsApproval

\* Whatever the interleaving of runs, crashes and replays, what users and
\* their balances see is one pass over the feed: effects in feed order, each
\* once, each approval paid to the last submitter before it is announced.
KeepsPromise == Promise!Spec
=============================================================================
