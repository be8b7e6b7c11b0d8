----------------------------- MODULE ClaimEffects -----------------------------
(***************************************************************************)
(* What the claim-event job promises, without runs, pages, watermarks,     *)
(* transactions or failures: following the catalog's feed from some head   *)
(* on, the events that concern this site take effect one at a time and in  *)
(* feed order; an approval is first paid, once, to the last user who put   *)
(* the work up for review, and then announced to that user, once.          *)
(*                                                                         *)
(* ClaimSync refines this module.                                          *)
(***************************************************************************)
EXTENDS Integers, Sequences

CONSTANTS Event,      (* the events a feed may hold                         *)
          Users,
          NoUser,
          MaxEvents,  (* bound: length of the feed                          *)
          Concerns(_),  (* the event has an effect on this site             *)
          Submits(_),   (* the event puts a work up for review              *)
          Approves(_)   (* the event accepts the work                       *)

VARIABLES
  feed,     (* the catalog's events                                         *)
  seed,     (* the head the feed is followed from, -1 before that           *)
  done,     (* the events that have taken effect                            *)
  ledger,   (* awards paid, [key, user]                                     *)
  told      (* for each event, who was notified of it                       *)

vars == <<feed, seed, done, ledger, told>>

\* The events up to e that concern us, e included.
History(e) == {d \in 1 .. Len(feed) : seed < d /\ d <= e /\ Concerns(feed[d])}

\* The last user among them who put the work of e up for review.
Submitter(e) ==
  LET pending == {d \in History(e) : feed[d].work = feed[e].work /\ Submits(feed[d])}
      last    == {feed[d].actor : d \in {c \in pending : \A b \in pending : b <= c}}
  IN  IF last = {} THEN NoUser ELSE CHOOSE u \in last : TRUE

\* e is the next event to take effect.
Due(e) == e \in History(e) \ done /\ History(e) \ {e} \subseteq done

Owed(e) == Approves(feed[e]) /\ Submitter(e) # NoUser
Award(e) == [key |-> e, user |-> Submitter(e)]

Init ==
  /\ feed = <<>>
  /\ seed = -1
  /\ done = {}
  /\ ledger = {}
  /\ told = [e \in 1 .. MaxEvents |-> <<>>]

\* The catalog appends an event of its choice.
Happens ==
  /\ Len(feed') = Len(feed) + 1
  /\ \E ev \in Event : feed' = Append(feed, ev)
  /\ UNCHANGED <<seed, done, ledger, told>>

\* Following starts at a head of the feed, before anything took effect.
Follow(head) ==
  /\ done = {} /\ ledger = {}
  /\ seed' = head
  /\ UNCHANGED <<feed, done, ledger, told>>

Pay(e) ==
  /\ seed # -1 /\ Due(e) /\ Owed(e)
  /\ ledger' = ledger \cup {Award(e)}
  /\ UNCHANGED <<feed, seed, done, told>>

TakeEffect(e) ==
  /\ seed # -1 /\ Due(e)
  /\ Owed(e) => Award(e) \in ledger
  /\ done' = done \cup {e}
  /\ told' = [told EXCEPT ![e] =
                IF Submits(feed[e]) \/ Submitter(e) = NoUser THEN @
                ELSE Append(@, Submitter(e))]
  /\ UNCHANGED <<feed, seed, ledger>>

Next ==
  \/ Happens
  \/ \E head \in 0 .. Len(feed) : Follow(head)
  \/ \E e \in 1 .. Len(feed) : Pay(e) \/ TakeEffect(e)

Spec == Init /\ [][Next]_vars
=============================================================================
