-------------------------------- MODULE Awarder --------------------------------
(***************************************************************************)
(* Balances of points.  The account service keeps the ledger, for several  *)
(* sites; user.moemoepoint is this site's mirror of it.  Each of its three *)
(* writers asks the service and writes the balance it is answered:         *)
(*  - pkg/moemoepoint: an award, made by a goroutine nobody waits for,     *)
(*    adjusts the balance under an idempotency key;                        *)
(*  - the claim-event job (module ClaimSync) does so for an approval, in a *)
(*    transaction: if that rolls back, the job asks again under the key;   *)
(*  - cmd/sync-moemoepoint reads the balances of all users.                *)
(* What other sites and the administration do to a balance, this site is   *)
(* not told.                                                               *)
(***************************************************************************)
EXTENDS Integers, FiniteSets

CONSTANTS
  Users,
  Slots,       (* writers of the mirror that are under way                  *)
  MaxFaults    (* bound: crashes, failed calls, lost answers                *)

ASSUME SlotsAssumption == Slots \subseteq Nat
ASSUME FaultsAssumption == MaxFaults \in Nat

VARIABLES
  ledger,     (* account service: the balances                              *)
  entries,    (* account service: what was applied, by key                  *)
  moemoepoint,(* user.moemoepoint, the mirror                               *)
  award,      (* the writers                                                *)
  since,      (* history: what others did to each balance since this site   *)
              (* last changed or read it                                    *)
  disorder,   (* history: two writers for one user overlapped, or a key     *)
              (* came a second time                                         *)
  faults

awardVars == <<ledger, entries, moemoepoint, award, since, disorder, faults>>

Free == [pc |-> "free"]   \* a slot without an award
Faulty == faults < MaxFaults /\ faults' = faults + 1
InFlight == {i \in Slots : award[i] # Free}
Settled == InFlight = {}
Keys == {e.key : e \in entries}
Ends(i) == award' = [award EXCEPT ![i] = Free]

AwardInit ==
  /\ ledger = [u \in Users |-> 0] /\ moemoepoint = [u \in Users |-> 0]
  /\ entries = {} /\ since = [u \in Users |-> 0]
  /\ award = [i \in Slots |-> Free]
  /\ disorder = FALSE
  /\ faults = 0

-----------------------------------------------------------------------------
Sends(pc, user, delta, key) ==
  LET i == CHOOSE j \in Slots \ InFlight : TRUE
  IN  /\ award' = [award EXCEPT ![i] = [pc |-> pc, user |-> user, delta |-> delta, key |-> key,
                                        balance |-> 0]]
      /\ disorder' = (disorder \/ \E j \in InFlight : award[j].user = user)

\* go mp.Award(...), which ends at once if there is nothing to award.
Award(user, delta, key) ==
  IF delta = 0 THEN UNCHANGED <<award, disorder>> ELSE Sends("asking", user, delta, key)

\* Approval e of a claim.  A run asks again only after one that failed.
PayClaim(user, e) ==
  LET key == <<"approved", e>>
  IN  /\ \A i \in InFlight : award[i].key # key
      /\ \A x \in entries : x.key = key => x.user = user /\ faults > 0
      /\ Award(user, 3, key)
      /\ UNCHANGED <<ledger, entries, moemoepoint, since, faults>>

SyncBalance(user) ==
  /\ Sends("reading", user, 0, <<"balance">>)
  /\ UNCHANGED <<ledger, entries, moemoepoint, since, faults>>

\* An entry of another site, a gift, a grant or a deduction: a balance may be negative.
AdjustedElsewhere(user, delta, key) ==
  LET balance == ledger[user] + delta
  IN  /\ ledger' = [ledger EXCEPT ![user] = balance]
      /\ entries' = entries \cup {[key |-> key, user |-> user, delta |-> delta,
                                   balance |-> balance]}
      /\ since' = [since EXCEPT ![user] = @ + delta]
      /\ UNCHANGED <<moemoepoint, award, disorder, faults>>

\* The ledger applies a key once, and refuses another request under the same key.
AdjustFirst(i) ==
  LET a == award[i]
      balance == ledger[a.user] + a.delta
  IN  /\ a.key \notin Keys
      /\ ledger' = [ledger EXCEPT ![a.user] = balance]
      /\ entries' = entries \cup {[key |-> a.key, user |-> a.user, delta |-> a.delta,
                                   balance |-> balance]}
      /\ since' = [since EXCEPT ![a.user] = 0]
      /\ \/ /\ award' = [award EXCEPT ![i].pc = "answered", ![i].balance = balance]
            /\ UNCHANGED faults
         \/ Ends(i) /\ Faulty
      /\ UNCHANGED disorder

\* Whoever sends it again is answered with the original result, says the service's
\* document: the balance there was then, or, as its log holds no balances, is now.
AdjustAgain(i) ==
  LET a == award[i]
  IN  /\ \E e \in entries :
           /\ e.key = a.key
           /\ IF e.user = a.user /\ e.delta = a.delta
                THEN \E b \in {e.balance, ledger[a.user]} :
                       award' = [award EXCEPT ![i].pc = "answered", ![i].balance = b]
                ELSE Ends(i)
      /\ disorder' = TRUE
      /\ UNCHANGED <<ledger, entries, since, faults>>

Adjust(i) ==
  /\ i \in InFlight /\ award[i].pc = "asking"
  /\ AdjustFirst(i) \/ AdjustAgain(i)
  /\ UNCHANGED moemoepoint

Balance(i) ==
  LET u == award[i].user
  IN  /\ i \in InFlight /\ award[i].pc = "reading"
      /\ award' = [award EXCEPT ![i].pc = "answered", ![i].balance = ledger[u]]
      /\ since' = [since EXCEPT ![u] = 0]
      /\ UNCHANGED <<ledger, entries, moemoepoint, disorder, faults>>

\* Mutant: the answer is added to the mirror, as if it were the change.
AddToMirror(i) ==
  LET a == award[i]
  IN  /\ i \in InFlight /\ a.pc = "answered"
      /\ moemoepoint' = [moemoepoint EXCEPT ![a.user] = @ + a.balance]
      /\ Ends(i)
      /\ UNCHANGED <<ledger, entries, since, disorder, faults>>

WriteMirror(i) ==
  LET a == award[i]
  IN  /\ i \in InFlight /\ a.pc = "answered"
      /\ moemoepoint' = [moemoepoint EXCEPT ![a.user] = a.balance]
      /\ Ends(i)
      /\ UNCHANGED <<ledger, entries, since, disorder, faults>>

\* The call or the statement fails, the process dies, or the job's transaction rolls back.
AwardFails(i) ==
  /\ i \in InFlight /\ Ends(i) /\ Faulty
  /\ UNCHANGED <<ledger, entries, moemoepoint, since, disorder>>

AwardStep == \E i \in Slots : Adjust(i) \/ Balance(i) \/ WriteMirror(i) \/ AwardFails(i)

-----------------------------------------------------------------------------
(***************************************************************************)
(* Properties.                                                             *)
(***************************************************************************)
\* The mirror never shows a balance that the account has not had.  Once all its writers are
\* through it is behind the ledger by what others have done since this site last changed or
\* read the balance, and by no more, unless answers crossed, a key was used twice or a call
\* failed.
MirrorFollowsLedger ==
  /\ \A u \in Users :
       moemoepoint[u] \in {0} \cup {e.balance : e \in {f \in entries : f.user = u}}
  /\ Settled /\ faults = 0 /\ ~disorder =>
       \A u \in Users : ledger[u] = moemoepoint[u] + since[u]
=============================================================================
