-------------------------- MODULE TrustEnforceProofs --------------------------
(***************************************************************************)
(* Proofs about TrustEnforce for any number of handlers, rows,             *)
(* dispositions and faults.                                                *)
(***************************************************************************)
EXTENDS TrustEnforce, TLAPS

\* The switch and the edit are asked for resources, the approval for comments.
RightSubjects ==
  \A w \in Workers :
    /\ At(w, "toggling") \/ At(w, "saving") => worker[w].subject \in Resources
    /\ At(w, "approving") => worker[w].subject \in Comments

\* Only what was decided is delivered.
Decided ==
  \A w \in Workers :
    At(w, "deduping") \/ At(w, "dispatching") \/ At(w, "recording") =>
      disp[worker[w].disp] \in [subject : Subjects, action : Actions]

\* Between the dispatch and the record a disposition is enforced and not yet recorded.
RecordersEnforced ==
  \A w \in Workers : At(w, "recording") => worker[w].disp \in enforced

IInv ==
  /\ TypeOK
  /\ RightSubjects /\ Decided /\ RecordersEnforced
  /\ RecordedIsEnforced

-----------------------------------------------------------------------------
\* A handler at work has the record of its kind of request.
LEMMA BusyType ==
  ASSUME TypeOK, NEW w \in Workers, ~At(w, "idle")
  PROVE  worker[w] \in Busy
  BY DEF TypeOK, At, Idle

\* A handler of a callback knows its disposition, and the others their row.
LEMMA BusyFields ==
  ASSUME TypeOK, NEW w \in Workers
  PROVE  /\ At(w, "deduping") \/ At(w, "dispatching") \/ At(w, "recording") =>
              worker[w].disp \in Disps
         /\ At(w, "toggling") \/ At(w, "saving") \/ At(w, "deleting")
              \/ At(w, "approving") =>
              worker[w].subject \in Subjects /\ worker[w].read \in 0 .. 2
  BY BusyType DEF At, Busy

\* Whatever the handler ends with, its slot is free, and an answer is only counted
\* for the disposition it is about.
LEMMA AnswersType ==
  ASSUME TypeOK, NEW w \in Workers, NEW ok \in BOOLEAN, Answers(w, ok)
  PROVE  /\ worker' = [worker EXCEPT ![w] = Idle]
         /\ acked' = acked \/ (ok /\ acked' = acked \cup {worker[w].disp})
         /\ faults' \in 0 .. MaxFaults
  BY BoundsAssumption DEF TypeOK, Answers, Over

\* A freed handler keeps what the invariant says of the handlers.
LEMMA OverKeeps ==
  ASSUME TypeOK, RightSubjects, Decided, RecordersEnforced, NEW w \in Workers,
         worker' = [worker EXCEPT ![w] = Idle], enforced \subseteq enforced',
         disp' = disp
  PROVE  /\ worker' \in [Workers -> Busy \cup {Idle}]
         /\ RightSubjects' /\ Decided' /\ RecordersEnforced'
  BY DEF TypeOK, RightSubjects, Decided, RecordersEnforced, At, Idle

\* So does a handler that goes on with the callback it serves.
LEMMA GoesOnKeeps ==
  ASSUME TypeOK, RightSubjects, Decided, RecordersEnforced, NEW w \in Workers,
         At(w, "deduping") \/ At(w, "dispatching"),
         NEW pc \in {"dispatching", "recording"}, Goes(w, pc), disp' = disp,
         enforced \subseteq enforced',
         pc = "recording" => worker[w].disp \in enforced'
  PROVE  /\ worker' \in [Workers -> Busy \cup {Idle}]
         /\ RightSubjects' /\ Decided' /\ RecordersEnforced'
<1> DEFINE n == [worker[w] EXCEPT !.pc = pc]
<1>1. worker[w] \in [pc : {"deduping", "dispatching", "recording"}, disp : Disps]
  BY BusyType DEF At, Busy
<1>2. n \in Busy /\ n.pc = pc /\ n.disp = worker[w].disp
  BY <1>1 DEF Busy
<1>3. worker' = [worker EXCEPT ![w] = n]
  BY DEF Goes
<1>4. disp[worker[w].disp] \in [subject : Subjects, action : Actions]
  BY DEF Decided, At
<1> HIDE DEF n
<1>5. worker' \in [Workers -> Busy \cup {Idle}] /\ worker'[w] = n
      /\ \A v \in Workers : v # w => worker'[v] = worker[v]
  BY <1>2, <1>3 DEF TypeOK
<1>6. RightSubjects'
  BY <1>2, <1>5 DEF RightSubjects, At
<1>7. Decided'
  BY <1>2, <1>4, <1>5 DEF Decided, At
<1>8. RecordersEnforced'
  BY <1>2, <1>5 DEF RecordersEnforced, At
<1> QED BY <1>5, <1>6, <1>7, <1>8

\* The status a disposition leaves is one of its row.
LEMMA OutcomeType ==
  ASSUME TypeOK, NEW d \in [subject : Subjects, action : Actions]
  PROVE  /\ Outcome(d) \in 0 .. 2 \cup {Gone}
         /\ d.subject \in Comments => Outcome(d) # 2
         /\ status[d.subject] = 2 /\ Outcome(d) \in {0, 1} => d.action = "none"
  BY SubjectsAssumption DEF TypeOK, Outcome, Actions, Subjects

\* Writing a status of its kind into a row keeps the type.
LEMMA SetsType ==
  ASSUME TypeOK, NEW s \in Subjects, NEW v \in 0 .. 2 \cup {Gone}, Sets(s, v),
         s \in Comments => v # 2
  PROVE  /\ status' \in [Subjects -> 0 .. 2 \cup {Gone}]
         /\ \A c \in Comments : status'[c] # 2
         /\ status'[s] = v /\ \A r \in Subjects : r # s => status'[r] = status[r]
  BY DEF TypeOK, Sets, Subjects

-----------------------------------------------------------------------------
(***************************************************************************)
(* The invariant holds initially and every step keeps it.                  *)
(***************************************************************************)
\* Nothing is decided, nobody is at work.
LEMMA InitInvariant == Init => IInv
<1> SUFFICES ASSUME Init PROVE IInv
  OBVIOUS
<1>1. TypeOK
  BY SubjectsAssumption, BoundsAssumption DEF Init, TypeOK, Subjects
<1>2. RightSubjects /\ Decided /\ RecordersEnforced /\ RecordedIsEnforced
  BY DEF Init, RightSubjects, Decided, RecordersEnforced, RecordedIsEnforced, At, Idle
<1> QED BY <1>1, <1>2 DEF IInv

\* A decision and the start of a delivery.
LEMMA TrustStep ==
  ASSUME IInv, \/ \E d \in Disps, s \in Subjects, a \in Actions : Decide(d, s, a)
               \/ \E w \in Workers, d \in Disps : Deliver(w, d)
  PROVE  IInv'
<1>1. CASE \E d \in Disps, s \in Subjects, a \in Actions : Decide(d, s, a)
  <2>1. disp' \in [Disps -> [subject : Subjects, action : Actions] \cup {NoDisp}]
    BY <1>1 DEF IInv, TypeOK, Decide
  <2>2. Decided'
    BY <1>1, BusyFields DEF IInv, TypeOK, Decide, Decided, At
  <2> QED
    BY <1>1, <2>1, <2>2 DEF IInv, TypeOK, Decide, RightSubjects, RecordersEnforced,
       RecordedIsEnforced, At
<1>2. CASE \E w \in Workers, d \in Disps : Deliver(w, d)
  <2>1. PICK w \in Workers, d \in Disps : Deliver(w, d)
    BY <1>2
  <2>2. worker' \in [Workers -> Busy \cup {Idle}]
    BY <2>1 DEF IInv, TypeOK, Deliver, Busy
  <2>3. Decided'
    BY <2>1 DEF IInv, TypeOK, Deliver, Decided, At
  <2>4. RightSubjects' /\ RecordersEnforced'
    BY <2>1 DEF IInv, TypeOK, Deliver, RightSubjects, RecordersEnforced, At
  <2> QED
    BY <2>1, <2>2, <2>3, <2>4 DEF IInv, TypeOK, Deliver, RecordedIsEnforced
<1> QED BY <1>1, <1>2

\* Looking the disposition up: a known one is answered, another goes on.
LEMMA ExistsStep ==
  ASSUME IInv, NEW w \in Workers, Exists(w)
  PROVE  IInv'
<1>1. worker[w].disp \in Disps /\ worker[w] \in Busy /\ TypeOK
  BY BusyType, BusyFields DEF IInv, Exists, At
<1>2. CASE worker[w].disp \in applied
  <2>1. Answers(w, TRUE)
    BY <1>2 DEF Exists
  <2>2. acked' \subseteq applied /\ faults' \in 0 .. MaxFaults
    BY <1>1, <1>2, <2>1, AnswersType DEF TypeOK
  <2>3. worker' \in [Workers -> Busy \cup {Idle}] /\ RightSubjects' /\ Decided'
          /\ RecordersEnforced'
    BY <1>1, <2>1, AnswersType, OverKeeps DEF IInv, Exists
  <2> QED BY <2>2, <2>3 DEF IInv, TypeOK, Exists, RecordedIsEnforced
<1>3. CASE worker[w].disp \notin applied
  <2>1. /\ worker' \in [Workers -> Busy \cup {Idle}]
        /\ RightSubjects' /\ Decided' /\ RecordersEnforced'
    BY <1>3, GoesOnKeeps DEF IInv, Exists
  <2> QED BY <1>3, <2>1 DEF IInv, TypeOK, Exists, RecordedIsEnforced
<1> QED BY <1>2, <1>3

\* Carrying it out: the row gets the outcome, and the handler records it next.
LEMMA DispatchStep ==
  ASSUME IInv, NEW w \in Workers, Dispatch(w)
  PROVE  IInv'
<1> DEFINE d == disp[worker[w].disp]
<1>1. worker[w].disp \in Disps /\ worker[w] \in Busy /\ TypeOK
  BY BusyType, BusyFields DEF IInv, Dispatch, At
<1>2. CASE Refused(d)
  <2>1. Answers(w, FALSE) /\ UNCHANGED <<status, enforced>>
    BY <1>2 DEF Dispatch
  <2>2. worker' \in [Workers -> Busy \cup {Idle}] /\ RightSubjects' /\ Decided'
          /\ RecordersEnforced'
    BY <1>1, <2>1, AnswersType, OverKeeps DEF IInv, Dispatch
  <2>3. acked' = acked /\ faults' \in 0 .. MaxFaults
    BY <1>1, <2>1, AnswersType
  <2> QED BY <2>1, <2>2, <2>3 DEF IInv, TypeOK, Dispatch, RecordedIsEnforced
<1>3. CASE ~Refused(d)
  <2>1. d \in [subject : Subjects, action : Actions]
    BY DEF IInv, Decided, Dispatch, At
  <2>2. /\ status' \in [Subjects -> 0 .. 2 \cup {Gone}]
        /\ \A c \in Comments : status'[c] # 2
    BY <1>1, <1>3, <2>1, OutcomeType, SetsType DEF Dispatch
  <2>3. /\ worker' \in [Workers -> Busy \cup {Idle}]
        /\ RightSubjects' /\ Decided' /\ RecordersEnforced'
    BY <1>1, <1>3, GoesOnKeeps DEF IInv, Dispatch
  <2> QED
    BY <1>1, <1>3, <2>2, <2>3 DEF IInv, TypeOK, Dispatch, RecordedIsEnforced
<1> QED BY <1>2, <1>3

\* Recording it: the dispatch was before.
LEMMA RecordStep ==
  ASSUME IInv, NEW w \in Workers, Record(w)
  PROVE  IInv'
<1>1. worker[w].disp \in Disps \cap enforced /\ TypeOK
  BY BusyFields DEF IInv, Record, RecordersEnforced
<1>2. Answers(w, TRUE)
  BY DEF Record
<1>3. worker' \in [Workers -> Busy \cup {Idle}] /\ RightSubjects' /\ Decided'
        /\ RecordersEnforced'
  BY <1>1, <1>2, AnswersType, OverKeeps DEF IInv, Record
<1>4. acked' \subseteq acked \cup {worker[w].disp} /\ faults' \in 0 .. MaxFaults
  BY <1>1, <1>2, AnswersType
<1> QED BY <1>1, <1>3, <1>4 DEF IInv, TypeOK, Record, RecordedIsEnforced

\* A handler dies.
LEMMA FailStep ==
  ASSUME IInv, NEW w \in Workers, Fail(w)
  PROVE  IInv'
<1>1. worker' \in [Workers -> Busy \cup {Idle}] /\ RightSubjects' /\ Decided'
        /\ RecordersEnforced'
  BY OverKeeps DEF IInv, Fail, Over
<1> QED BY <1>1, BoundsAssumption DEF IInv, TypeOK, Fail, RecordedIsEnforced

\* A user's request arrives and reads its row.
LEMMA RequestStep ==
  ASSUME IInv, NEW w \in Workers, NEW s \in Subjects,
         NEW op \in {"toggling", "saving", "deleting", "approving"}, Request(w, s, op)
  PROVE  IInv'
<1> DEFINE n == [pc |-> op, subject |-> s, read |-> status[s]]
<1>1. status[s] \in 0 .. 2
  BY DEF IInv, TypeOK, Request, Here
<1>2. worker' = [worker EXCEPT ![w] = n] /\ n \in Busy
  BY <1>1 DEF Request, Busy
<1>3. RightSubjects'
  BY DEF IInv, TypeOK, Request, RightSubjects, At, Subjects
<1>4. Decided' /\ RecordersEnforced'
  BY <1>2 DEF IInv, TypeOK, Request, Decided, RecordersEnforced, At
<1> QED
  BY <1>2, <1>3, <1>4, BoundsAssumption DEF IInv, TypeOK, Request, RecordedIsEnforced

\* A user's request ends with at most a new status in one row.
LEMMA UserStep ==
  ASSUME IInv, NEW w \in Workers,
         Toggle(w) \/ SaveEdit(w) \/ DeleteRow(w) \/ ApproveComment(w)
  PROVE  IInv'
<1> DEFINE s == worker[w].subject
<1>1. s \in Subjects /\ worker[w].read \in 0 .. 2 /\ status[s] \in 0 .. 2 \cup {Gone}
  BY BusyFields DEF IInv, TypeOK, Toggle, SaveEdit, DeleteRow, ApproveComment
<1>2. s \in Comments => status[s] # 2
  BY DEF IInv, TypeOK
<1>3. PICK v \in 0 .. 2 \cup {Gone} : Sets(s, v) /\ (s \in Comments => v # 2)
  <2>1. CASE Toggle(w)
    BY <1>1, <1>2, <2>1 DEF Toggle
  <2>2. CASE SaveEdit(w)
    BY <1>1, <2>2, SubjectsAssumption DEF SaveEdit, IInv, RightSubjects
  <2>3. CASE DeleteRow(w)
    BY <2>3, SubjectsAssumption DEF DeleteRow
  <2>4. CASE ApproveComment(w)
    BY <1>1, <1>2, <2>4 DEF ApproveComment
  <2> QED BY <2>1, <2>2, <2>3, <2>4
<1>4. /\ status' \in [Subjects -> 0 .. 2 \cup {Gone}]
      /\ \A c \in Comments : status'[c] # 2
  BY <1>1, <1>3, SetsType DEF IInv
<1>5. /\ worker' = [worker EXCEPT ![w] = Idle]
      /\ UNCHANGED <<disp, acked, applied, enforced, requests, faults>>
  BY DEF Toggle, SaveEdit, DeleteRow, ApproveComment, Over
<1>6. worker' \in [Workers -> Busy \cup {Idle}] /\ RightSubjects' /\ Decided'
        /\ RecordersEnforced'
  BY <1>5, OverKeeps DEF IInv
<1> QED BY <1>4, <1>5, <1>6 DEF IInv, TypeOK, RecordedIsEnforced

\* Every step keeps the invariant.
LEMMA NextInvariant == IInv /\ [Next]_vars => IInv'
<1> SUFFICES ASSUME IInv, [Next]_vars PROVE IInv'
  OBVIOUS
<1>1. CASE UNCHANGED vars
  BY <1>1 DEF vars, IInv, TypeOK, RightSubjects, Decided, RecordersEnforced,
     RecordedIsEnforced, At, Here
<1>2. CASE Next
  BY <1>2, TrustStep, ExistsStep, DispatchStep, RecordStep, FailStep, RequestStep,
     UserStep DEF Next, Step
<1> QED BY <1>1, <1>2

\* The inductive invariant holds in every reachable state.
THEOREM Invariant == Spec => []IInv
  BY InitInvariant, NextInvariant, PTL DEF Spec

\* Every variable keeps its type, and a disposition answered with success is one the
\* dedup table remembers (Apply in enforce.go).
THEOREM TypeCorrect == Spec => []TypeOK
<1>1. IInv => TypeOK
  BY DEF IInv
<1> QED BY <1>1, Invariant, PTL

\* However deliveries overlap, are repeated or die, trust_disposition_applied holds only
\* dispositions whose dispatch was carried out.
THEOREM RecordsAreTrue == Spec => []RecordedIsEnforced
<1>1. IInv => RecordedIsEnforced
  BY DEF IInv
<1> QED BY <1>1, Invariant, PTL

-----------------------------------------------------------------------------
(***************************************************************************)
(* Who may lift what moderation has hidden.                                *)
(***************************************************************************)
\* The handler that lifts it, as SwitchNeverLifts names it.
Lifts(w, s) ==
  \/ At(w, "dispatching") /\ disp[worker[w].disp].action = "none"
       /\ disp[worker[w].disp].subject = s /\ worker'[w] # worker[w]
  \/ At(w, "saving") /\ worker[w].subject = s /\ worker'[w] = Idle

\* A hidden resource becomes visible only by such a handler.
LEMMA LiftStep ==
  ASSUME IInv, Next, NEW s \in Resources, status[s] = 2, status'[s] \in {0, 1}
  PROVE  \E w \in Workers : Lifts(w, s)
<1>1. status'[s] # status[s] /\ s \in Subjects /\ s \notin Comments
  BY SubjectsAssumption DEF Subjects
<1>2. PICK w \in Workers :
        Dispatch(w) \/ Toggle(w) \/ SaveEdit(w) \/ DeleteRow(w) \/ ApproveComment(w)
  BY <1>1 DEF Next, Step, Decide, Deliver, Request, Exists, Record, Fail
<1>3. CASE Dispatch(w)
  <2> DEFINE d == disp[worker[w].disp]
  <2>1. /\ d \in [subject : Subjects, action : Actions]
        /\ ~Refused(d) /\ Sets(d.subject, Outcome(d))
    BY <1>1, <1>3 DEF IInv, Decided, Dispatch
  <2>2. d.subject = s /\ status'[s] = Outcome(d)
    BY <1>1, <2>1, OutcomeType, SetsType DEF IInv
  <2>3. d.action = "none"
    BY <2>1, <2>2, OutcomeType DEF IInv
  <2>4. worker'[w].pc = "recording"
    BY <1>3, <2>1, BusyType DEF IInv, TypeOK, Dispatch, Goes, At, Busy
  <2> QED BY <1>3, <2>2, <2>3, <2>4 DEF Lifts, Dispatch, At
<1>4. CASE SaveEdit(w)
  <2>1. worker[w].subject = s
    BY <1>1, <1>4 DEF SaveEdit, Sets, IInv, TypeOK
  <2> QED BY <1>4, <2>1 DEF Lifts, SaveEdit, Over, IInv, TypeOK
<1>5. ~Toggle(w)
  BY <1>1 DEF Toggle, Sets, IInv, TypeOK
<1>6. ~DeleteRow(w)
  BY <1>1, SubjectsAssumption DEF DeleteRow, Sets, IInv, TypeOK
<1>7. ~ApproveComment(w)
  BY <1>1 DEF ApproveComment, Sets, IInv, TypeOK, RightSubjects
<1> QED BY <1>2, <1>3, <1>4, <1>5, <1>6, <1>7

\* ToggleResourceDisable computes the status inside its UPDATE: a resource that moderation
\* has hidden is lifted by a restoring disposition or an edit that read it before, never
\* by the owner's switch.
THEOREM SwitchKeepsHidden == Spec => SwitchNeverLifts
<1>1. IInv /\ [Next]_vars =>
        [\A s \in Resources :
           status[s] = 2 /\ status'[s] \in {0, 1} =>
             \E w \in Workers : Lifts(w, s)]_vars
  BY LiftStep DEF vars
<1>2. IInv /\ [Next]_vars =>
        [\A s \in Resources :
           status[s] = 2 /\ status'[s] \in {0, 1} =>
             \E w \in Workers :
               \/ At(w, "dispatching") /\ disp[worker[w].disp].action = "none"
                    /\ disp[worker[w].disp].subject = s /\ worker'[w] # worker[w]
               \/ At(w, "saving") /\ worker[w].subject = s /\ worker'[w] = Idle]_vars
  BY <1>1 DEF Lifts
<1> QED BY <1>2, Invariant, PTL DEF Spec, SwitchNeverLifts
=============================================================================
