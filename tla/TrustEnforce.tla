----------------------------- MODULE TrustEnforce -----------------------------
(***************************************************************************)
(* Moderation from outside: internal/trust/enforce, the registry of        *)
(* internal/app/app.go, and what users do to the same rows meanwhile       *)
(* (internal/patch/service/service.go).                                    *)
(*                                                                         *)
(* The trust service decides dispositions on subjects and calls back until *)
(* it gets an answer, so one disposition may be applied by two handlers at *)
(* the same time, or again after a crash.  trust_disposition_applied       *)
(* remembers what was applied; it is read before and written after.        *)
(***************************************************************************)
EXTENDS Integers, FiniteSets

CONSTANTS
  Workers,     (* callbacks and requests served at the same time            *)
  Resources,
  Comments,
  Gone,        (* the status of a row that is not there                     *)
  NoDisp,      (* a disposition that was not taken                          *)
  MaxDisps,    (* bound: dispositions                                       *)
  MaxRequests, (* bound: requests of users                                  *)
  MaxFaults    (* bound: crashes, failed statements, lost answers           *)

ASSUME SubjectsAssumption == Resources \cap Comments = {} /\ Gone \notin 0 .. 2
ASSUME BoundsAssumption ==
  MaxDisps \in Nat /\ MaxRequests \in Nat /\ MaxFaults \in Nat

VARIABLES
  status,    (* of each row: 0 enabled, 1 disabled, 2 hidden by moderation, *)
             (* or Gone; of a comment: 0 shown, 1 hidden, or Gone           *)
  disp,      (* trust: the dispositions, [subject, action]                  *)
  acked,     (* trust: those answered with success                          *)
  applied,   (* table trust_disposition_applied                             *)
  worker,
  enforced,  (* history: dispositions whose effect was carried out          *)
  requests, faults

vars == <<status, disp, acked, applied, worker, enforced, requests, faults>>

Subjects == Resources \cup Comments
Disps == 1 .. MaxDisps
Actions == {"none", "hide", "remove", "warn"}
Idle == [pc |-> "idle"]
Here(s) == status[s] # Gone
At(w, pc) == worker[w].pc = pc
Goes(w, pc) == worker' = [worker EXCEPT ![w].pc = pc]
Over(w) == worker' = [worker EXCEPT ![w] = Idle]
Sets(s, v) == status' = [status EXCEPT ![s] = v]

-----------------------------------------------------------------------------
Init ==
  /\ status = [s \in Subjects |-> 0]
  /\ disp = [d \in Disps |-> NoDisp]
  /\ acked = {} /\ applied = {} /\ enforced = {}
  /\ worker = [w \in Workers |-> Idle]
  /\ requests = 0 /\ faults = 0

(***************************************************************************)
(* The trust service.                                                      *)
(***************************************************************************)
\* A moderator decides; a later decision may take an earlier one back ("none").
Decide(d, s, action) ==
  /\ disp[d] = NoDisp /\ \A e \in 1 .. d - 1 : disp[e] # NoDisp
  /\ disp' = [disp EXCEPT ![d] = [subject |-> s, action |-> action]]
  /\ UNCHANGED <<status, acked, applied, worker, enforced, requests, faults>>

\* Delivered until answered, also while an earlier delivery is still being served.
Deliver(w, d) ==
  /\ At(w, "idle")
  /\ disp[d] # NoDisp /\ d \notin acked
  /\ worker' = [worker EXCEPT ![w] = [pc |-> "deduping", disp |-> d]]
  /\ UNCHANGED <<status, disp, acked, applied, enforced, requests, faults>>

\* The answer, success or not, ends the handler; it may get lost.
Answers(w, ok) ==
  /\ Over(w)
  /\ \/ /\ acked' = IF ok THEN acked \cup {worker[w].disp} ELSE acked
        /\ UNCHANGED faults
     \/ /\ ok /\ faults < MaxFaults /\ faults' = faults + 1
        /\ UNCHANGED acked

(***************************************************************************)
(* enforce.Service.Apply and dispatch                                      *)
(***************************************************************************)
\* Mutant: recorded where it was looked up, before it is dispatched.
ExistsOrInsert(w) ==
  LET known == worker[w].disp \in applied
  IN  /\ At(w, "deduping")
      /\ applied' = applied \cup {worker[w].disp}
      /\ IF known THEN Answers(w, TRUE)
         ELSE Goes(w, "dispatching") /\ UNCHANGED <<acked, faults>>
      /\ UNCHANGED <<status, disp, enforced, requests>>

Exists(w) ==
  LET known == worker[w].disp \in applied
  IN  /\ At(w, "deduping")
      /\ IF known THEN Answers(w, TRUE)
         ELSE Goes(w, "dispatching") /\ UNCHANGED <<acked, faults>>
      /\ UNCHANGED <<status, disp, applied, enforced, requests>>

\* Mutant: Hide reports an error if no row was updated.
RefusedIfGone(d) == ~Here(d.subject) /\ d.action \in {"hide", "remove"}

\* Remove begins with reading the row; hide and restore are updates that may match none.
Refused(d) == ~Here(d.subject) /\ d.action = "remove"

\* The status a row ends up with.  A comment has no Restore; nobody is warned, as the
\* service is built without a WarnFunc.
Outcome(d) ==
  LET now == status[d.subject]
  IN  CASE now = Gone -> now
        [] now # Gone /\ d.action = "remove" -> Gone
        [] now # Gone /\ d.action = "hide" -> IF d.subject \in Comments THEN 1 ELSE 2
        [] now # Gone /\ d.action = "none" ->
             IF d.subject \in Resources /\ now = 2 THEN 0 ELSE now
        [] now # Gone /\ d.action = "warn" -> now

\* DeleteComment and DeleteResource, which Remove calls, are taken as one step with the
\* read they begin with; what they count is in PatchComment.
Dispatch(w) ==
  LET d == worker[w].disp
  IN  /\ At(w, "dispatching")
      /\ IF Refused(disp[d])
           THEN Answers(w, FALSE) /\ UNCHANGED <<status, enforced>>
           ELSE /\ Sets(disp[d].subject, Outcome(disp[d]))
                /\ enforced' = enforced \cup {d}
                /\ Goes(w, "recording")
                /\ UNCHANGED <<acked, faults>>
      /\ UNCHANGED <<disp, applied, requests>>

\* INSERT ... ON CONFLICT DO NOTHING
Record(w) ==
  /\ At(w, "recording")
  /\ applied' = applied \cup {worker[w].disp}
  /\ Answers(w, TRUE)
  /\ UNCHANGED <<status, disp, enforced, requests>>

\* A statement fails, or the process dies.
Fail(w) ==
  /\ ~At(w, "idle") /\ faults < MaxFaults
  /\ faults' = faults + 1
  /\ Over(w)
  /\ UNCHANGED <<status, disp, acked, applied, enforced, requests>>

(***************************************************************************)
(* Users: ToggleResourceDisable, UpdateResource, deletions, approvals.     *)
(***************************************************************************)
\* The handler reads the row; one that is gone, hidden (toggle) or shown (approve) ends it.
Request(w, s, op) ==
  /\ At(w, "idle") /\ requests < MaxRequests
  /\ requests' = requests + 1
  /\ Here(s)
  /\ op \in {"toggling", "saving"} => s \in Resources
  /\ op = "approving" => s \in Comments /\ status[s] = 1
  /\ op = "toggling" => status[s] # 2
  /\ worker' = [worker EXCEPT ![w] = [pc |-> op, subject |-> s, read |-> status[s]]]
  /\ UNCHANGED <<status, disp, acked, applied, enforced, faults>>

\* Mutant: the new status is computed from the one read.
ToggleRead(w) ==
  LET s == worker[w].subject
  IN  /\ At(w, "toggling")
      /\ Sets(s, IF Here(s) THEN 1 - worker[w].read ELSE status[s])
      /\ Over(w)
      /\ UNCHANGED <<disp, acked, applied, enforced, requests, faults>>

\* CASE WHEN status = 0 THEN 1 WHEN status = 1 THEN 0 ELSE status END
Toggle(w) ==
  LET s == worker[w].subject
  IN  /\ At(w, "toggling")
      /\ Sets(s, IF status[s] \in {0, 1} THEN 1 - status[s] ELSE status[s])
      /\ Over(w)
      /\ UNCHANGED <<disp, acked, applied, enforced, requests, faults>>

\* gorm's Save writes the status that was read.  If the row is gone, an edit that
\* changed something fails on its revision's foreign key; another inserts it again.
SaveEdit(w) ==
  LET s == worker[w].subject
  IN  /\ At(w, "saving")
      /\ \E changed \in BOOLEAN :
           Sets(s, IF Here(s) \/ ~changed THEN worker[w].read ELSE status[s])
      /\ Over(w)
      /\ UNCHANGED <<disp, acked, applied, enforced, requests, faults>>

DeleteRow(w) ==
  /\ At(w, "deleting")
  /\ Sets(worker[w].subject, Gone)
  /\ Over(w)
  /\ UNCHANGED <<disp, acked, applied, enforced, requests, faults>>

ApproveComment(w) ==
  LET s == worker[w].subject
  IN  /\ At(w, "approving")
      /\ Sets(s, IF Here(s) THEN 0 ELSE status[s])
      /\ Over(w)
      /\ UNCHANGED <<disp, acked, applied, enforced, requests, faults>>

-----------------------------------------------------------------------------
Step(w) ==
  \/ Exists(w) \/ Dispatch(w) \/ Record(w)
  \/ Toggle(w) \/ SaveEdit(w) \/ DeleteRow(w) \/ ApproveComment(w)

Next ==
  \/ \E d \in Disps, s \in Subjects, action \in Actions : Decide(d, s, action)
  \/ \E w \in Workers : \/ \E d \in Disps : Deliver(w, d)
                        \/ Step(w)
                        \/ Fail(w)
                        \/ \E s \in Subjects, op \in {"toggling", "saving", "deleting", "approving"} :
                             Request(w, s, op)

Spec == Init /\ [][Next]_vars

\* Handlers go on; every unanswered disposition is delivered again and again, and not
\* kept out for ever by the others.
Fairness ==
  /\ \A w \in Workers : WF_vars(Step(w))
  /\ \A d \in Disps : SF_vars(\E w \in Workers : Deliver(w, d))

FairSpec == Spec /\ Fairness

-----------------------------------------------------------------------------
(***************************************************************************)
(* Properties.                                                             *)
(***************************************************************************)
Busy ==
  [pc : {"deduping", "dispatching", "recording"}, disp : Disps] \cup
  [pc : {"toggling", "saving", "deleting", "approving"}, subject : Subjects, read : 0 .. 2]

\* Every variable has its type: a comment is never hidden the way a resource is, and
\* a disposition is answered with success only once it is recorded.
TypeOK ==
  /\ status \in [Subjects -> 0 .. 2 \cup {Gone}]
  /\ \A s \in Comments : status[s] # 2
  /\ disp \in [Disps -> [subject : Subjects, action : Actions] \cup {NoDisp}]
  /\ acked \subseteq applied /\ applied \subseteq Disps /\ enforced \subseteq Disps
  /\ worker \in [Workers -> Busy \cup {Idle}]
  /\ requests \in 0 .. MaxRequests /\ faults \in 0 .. MaxFaults

\* What the dedup table remembers was carried out: a crash between the two repeats a
\* disposition and never skips it.
RecordedIsEnforced == applied \subseteq enforced

\* A resource hidden by moderation is lifted by a restoring disposition, or by an edit
\* that read the row before it was hidden, never by the owner's switch.
SwitchNeverLifts ==
  [][\A s \in Resources :
       status[s] = 2 /\ status'[s] \in {0, 1} =>
         \E w \in Workers :
           \/ At(w, "dispatching") /\ disp[worker[w].disp].action = "none"
                /\ disp[worker[w].disp].subject = s /\ worker'[w] # worker[w]
           \/ At(w, "saving") /\ worker[w].subject = s /\ worker'[w] = Idle]_vars

\* A decision to hide or restore is carried out and answered in the end, whatever
\* happens to the row meanwhile.
HidingSettles ==
  \A d \in Disps :
    (disp[d] # NoDisp /\ disp[d].action \in {"hide", "none"}) ~> d \in acked
=============================================================================
