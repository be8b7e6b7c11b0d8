--------------------------- MODULE SessionAuthProofs ---------------------------
(***************************************************************************)
(* Proofs about SessionAuth for any number of requests, sessions and token *)
(* pairs.  The invariant says who holds the lock, and where the newest     *)
(* token pair is: in OAuth, in the hands of the one renewal that has the   *)
(* lock, in Redis, or lost.                                                *)
(***************************************************************************)
EXTENDS SessionAuth, TLAPS

\* A request that has yet to arrive has no goroutine.
TwinsStart ==
  \A a \in Actors : IsRequest(a) /\ At(a, "new") => At(Twin(a), "new")

\* Whoever is past the lock holds it.
HoldersLock == \A a \in Actors : actor[a].pc \in Holding => lock[SessionOf(a)] = a

\* What is renewed is no longer fresh, so it is never the last pair of the bound.
RenewsOld ==
  /\ \A s \in Sessions : age[s][MaxTokens] = 0
  /\ \A a \in Actors :
       actor[a].pc \in {"locking", "exchanging"} =>
         actor[a].token \in Pairs /\ age[SessionOf(a)][actor[a].token] >= 1

\* OAuth accepts its newest token, or none; Redis is never ahead of OAuth.
NewestAccepted ==
  \A s \in Sessions : current[s] \in {0, newest[s]} /\ stored[s] <= newest[s]

\* An actor carries the pair it arrived with or a later one; past the exchange it
\* carries OAuth's newest, which is later.
CarriesNewest ==
  \A a \in Actors :
    /\ ~At(a, "new") => actor[a].expired <= actor[a].token
    /\ At(a, "storing") => actor[a].token = newest[SessionOf(a)]
    /\ At(a, "storing") => actor[a].expired < actor[a].token
    /\ ~At(a, "new") /\ actor[a].ok => actor[a].expired < actor[a].token

IInv ==
  /\ TypeOK
  /\ TwinsStart
  /\ HoldersLock
  /\ RenewsOld
  /\ NewestAccepted
  /\ CarriesNewest
  /\ StoredIsCurrent
  /\ ServedRenewed

-----------------------------------------------------------------------------
(***************************************************************************)
(* Lemmas.                                                                 *)
(***************************************************************************)
\* An actor that has started has a session and a token.
LEMMA StartedType ==
  ASSUME TypeOK, NEW a \in Actors, ~At(a, "new")
  PROVE  actor[a] \in ActorState
  BY DEF TypeOK, At, New

\* Whoever is past the lock has a session.
LEMMA HolderSession ==
  ASSUME TypeOK, NEW a \in Actors, actor[a].pc \in Holding
  PROVE  ~At(a, "new") /\ SessionOf(a) \in Sessions
<1>1. ~At(a, "new")
  BY DEF At, Holding
<1> QED BY <1>1, StartedType DEF ActorState, SessionOf

\* No step of an actor that has started lets the goroutine of a new one start.
LEMMA TwinsStay ==
  ASSUME TwinsStart, NEW a \in Actors, ~At(a, "new"), actor'[a].pc # "new",
         \A b \in Actors : b # a => actor'[b] = actor[b]
  PROVE  TwinsStart'
<1>1. \A b \in Actors : Twin(b) \in Actors
  BY DEF Twin, Actors
<1> QED BY <1>1 DEF TwinsStart, At

\* What is left of an actor that ends.
LEMMA Ended ==
  ASSUME NEW r \in ActorState, NEW n,
         NEW answer \in {"none", "served", "expired", "kicked", "retry"},
         n = [r EXCEPT !.pc = "over", !.answer = answer]
  PROVE  /\ n \in ActorState /\ n.pc = "over" /\ n.answer = answer
         /\ n.session = r.session /\ n.token = r.token /\ n.expired = r.expired
         /\ n.ok = r.ok
  BY DEF ActorState, Holding

\* Two actors past the lock of one session are the same.
LEMMA OneHolder ==
  ASSUME HoldersLock
  PROVE  OneRefreshAtATime
  BY DEF HoldersLock, OneRefreshAtATime

\* Every session starts with its first pair, and nobody has arrived.
LEMMA InitInvariant == Init => IInv
<1> SUFFICES ASSUME Init PROVE IInv
  OBVIOUS
<1>1. TypeOK
  BY BoundsAssumption DEF Init, TypeOK, New, ActorState, Pairs, At
<1>2. TwinsStart /\ HoldersLock /\ NewestAccepted /\ CarriesNewest
  BY DEF Init, TwinsStart, HoldersLock, NewestAccepted, CarriesNewest, New, At, Holding,
     Twin, Actors
<1>3. RenewsOld
  BY BoundsAssumption DEF Init, RenewsOld, New, Pairs
<1>4. StoredIsCurrent /\ ServedRenewed
  BY DEF Init, StoredIsCurrent, ServedRenewed, New, At
<1> QED BY <1>1, <1>2, <1>3, <1>4 DEF IInv


\* An actor that moves on without news from OAuth keeps its session and what it
\* found expired; the session may be gone, and what it was storing may be lost.
LEMMA ActorMoves ==
  ASSUME IInv, NEW a \in Actors, ~At(a, "new"), NEW n \in ActorState,
         actor' = [actor EXCEPT ![a] = n],
         IsRequest(a) \/ (n.answer = "none" /\ n.pc \notin {"waiting", "checking"}),
         n.session = SessionOf(a), n.expired = actor[a].expired,
         n.token >= actor[a].token,
         n.pc \notin {"locking", "storing"},
         n.pc = "exchanging" => At(a, "locking") /\ n.token = actor[a].token,
         n.ok \/ (n.pc = "over" /\ n.answer = "served") => n.expired < n.token,
         UNCHANGED oauthVars,
         \A s \in Sessions : stored'[s] \in {0, stored[s]},
         lost \subseteq lost',
         At(a, "storing") => SessionOf(a) \in lost'
  PROVE  /\ actor' \in [Actors -> ActorState \cup {New}]
         /\ \A b \in Actors : ~IsRequest(b) /\ ~At(b, "new")' =>
              actor'[b].answer = "none" /\ actor'[b].pc \notin {"waiting", "checking"}
         /\ actor'[a] = n
         /\ \A b \in Actors : b # a => actor'[b] = actor[b]
         /\ TwinsStart' /\ RenewsOld' /\ NewestAccepted'
         /\ CarriesNewest' /\ StoredIsCurrent' /\ ServedRenewed'
<1>1. /\ actor' \in [Actors -> ActorState \cup {New}]
      /\ actor'[a] = n
      /\ \A b \in Actors : b # a => actor'[b] = actor[b]
  BY DEF IInv, TypeOK
<1>2. n.pc # "new" /\ n.token \in Int /\ n.expired \in Int
  BY DEF ActorState, Holding
<1>3. actor[a] \in ActorState /\ SessionOf(a) \in Sessions
      /\ actor[a].token \in Int /\ actor[a].expired \in Int
  BY StartedType DEF IInv, ActorState, SessionOf
<1>4. UNCHANGED <<current, newest, age>>
  BY DEF oauthVars
<1>5. TwinsStart'
  BY <1>1, <1>2, TwinsStay DEF IInv
<1>6. \A b \in Actors : ~IsRequest(b) /\ ~At(b, "new")' =>
        actor'[b].answer = "none" /\ actor'[b].pc \notin {"waiting", "checking"}
  BY <1>1 DEF IInv, TypeOK, At
<1>7. RenewsOld'
  BY <1>1, <1>3, <1>4 DEF IInv, RenewsOld, SessionOf, At
<1>8. NewestAccepted'
  <2>1. \A s \in Sessions : stored[s] \in 0 .. MaxTokens /\ newest[s] \in Pairs
    BY DEF IInv, TypeOK
  <2> QED BY <2>1, <1>4 DEF IInv, NewestAccepted, Pairs
<1>9. CarriesNewest'
  <2>1. actor[a].expired <= actor[a].token
    BY DEF IInv, CarriesNewest
  <2> QED BY <2>1, <1>1, <1>2, <1>3, <1>4 DEF IInv, CarriesNewest, SessionOf, At
<1>10. StoredIsCurrent'
  BY <1>1, <1>2, <1>3, <1>4 DEF IInv, StoredIsCurrent, SessionOf, At
<1>11. ServedRenewed'
  BY <1>1, <1>2 DEF IInv, ServedRenewed, At
<1> QED BY <1>1, <1>5, <1>6, <1>7, <1>8, <1>9, <1>10, <1>11

\* The same, while the locks stay as they are and the actor takes none.
LEMMA ActorMovesOn ==
  ASSUME IInv, NEW a \in Actors, ~At(a, "new"), NEW n \in ActorState,
         actor' = [actor EXCEPT ![a] = n],
         IsRequest(a) \/ (n.answer = "none" /\ n.pc \notin {"waiting", "checking"}),
         n.session = SessionOf(a), n.expired = actor[a].expired,
         n.token >= actor[a].token,
         n.pc \notin {"locking", "exchanging", "storing"},
         n.pc \in Holding => actor[a].pc \in Holding,
         n.ok \/ (n.pc = "over" /\ n.answer = "served") => n.expired < n.token,
         UNCHANGED <<lock, oauthVars, logout>>,
         stored' \in [Sessions -> 0 .. MaxTokens],
         \A s \in Sessions : stored'[s] \in {0, stored[s]},
         lost \subseteq lost', lost' \subseteq Sessions,
         At(a, "storing") => SessionOf(a) \in lost',
         faults' \in 0 .. MaxFaults
  PROVE  IInv'
<1>1. /\ actor' \in [Actors -> ActorState \cup {New}]
      /\ \A b \in Actors : ~IsRequest(b) /\ ~At(b, "new")' =>
           actor'[b].answer = "none" /\ actor'[b].pc \notin {"waiting", "checking"}
      /\ actor'[a] = n
      /\ \A b \in Actors : b # a => actor'[b] = actor[b]
      /\ TwinsStart' /\ RenewsOld' /\ NewestAccepted'
      /\ CarriesNewest' /\ StoredIsCurrent' /\ ServedRenewed'
  <2>1. n.pc = "exchanging" => At(a, "locking") /\ n.token = actor[a].token
    OBVIOUS
  <2> QED BY <2>1, ActorMoves
<1>2. TypeOK'
  BY <1>1 DEF IInv, TypeOK, oauthVars
<1>3. HoldersLock'
  BY <1>1 DEF IInv, HoldersLock, SessionOf
<1> QED BY <1>1, <1>2, <1>3 DEF IInv

-----------------------------------------------------------------------------
(***************************************************************************)
(* Every step keeps the invariant.                                         *)
(***************************************************************************)
\* The lock was free, so nobody held it: whoever takes it is alone.
LEMMA TakeLockInvariant ==
  ASSUME IInv, NEW a \in Actors, TakeLock(a)
  PROVE  IInv'
<1> DEFINE n == [actor[a] EXCEPT !.pc = "exchanging"]
<1>1. /\ ~At(a, "new") /\ At(a, "locking") /\ actor[a] \in ActorState
      /\ SessionOf(a) \in Sessions /\ lock[SessionOf(a)] = NoOne
  BY StartedType DEF IInv, TakeLock, At, ActorState, SessionOf
<1>2. /\ n \in ActorState /\ n.pc = "exchanging" /\ n.session = SessionOf(a)
      /\ n.token = actor[a].token /\ n.expired = actor[a].expired /\ n.ok = actor[a].ok
      /\ n.answer = actor[a].answer
      /\ n.token >= actor[a].token
  BY <1>1 DEF ActorState, Holding, SessionOf
<1>3. actor' = [actor EXCEPT ![a] = n]
  BY DEF TakeLock, Goes
<1>4. n.answer = "none" \/ IsRequest(a)
  BY <1>1, <1>2 DEF IInv, TypeOK
<1>5. n.ok => n.expired < n.token
  BY <1>1, <1>2 DEF IInv, CarriesNewest
<1> HIDE DEF n
<1>6. UNCHANGED <<stored, oauthVars, logout, lost, faults>>
  BY DEF TakeLock
<1>7. /\ actor' \in [Actors -> ActorState \cup {New}]
      /\ \A b \in Actors : ~IsRequest(b) /\ ~At(b, "new")' =>
           actor'[b].answer = "none" /\ actor'[b].pc \notin {"waiting", "checking"}
      /\ actor'[a] = n
      /\ \A b \in Actors : b # a => actor'[b] = actor[b]
      /\ TwinsStart' /\ RenewsOld' /\ NewestAccepted'
      /\ CarriesNewest' /\ StoredIsCurrent' /\ ServedRenewed'
  BY <1>1, <1>2, <1>3, <1>4, <1>5, <1>6, ActorMoves DEF At
<1>8. /\ lock' \in [Sessions -> Actors \cup {NoOne}]
      /\ lock'[SessionOf(a)] = a
      /\ \A s \in Sessions : s # SessionOf(a) => lock'[s] = lock[s]
  BY <1>1 DEF IInv, TypeOK, TakeLock
<1>9. TypeOK'
  BY <1>6, <1>7, <1>8 DEF IInv, TypeOK, oauthVars
<1>10. HoldersLock'
  <2>1. \A b \in Actors : b # NoOne
    BY ActorsAssumption DEF Actors
  <2>2. \A b \in Actors : actor[b].pc \in Holding => SessionOf(b) \in Sessions
    BY HolderSession DEF IInv
  <2> QED BY <2>1, <2>2, <1>1, <1>2, <1>7, <1>8 DEF IInv, HoldersLock, SessionOf
<1> QED BY <1>7, <1>9, <1>10 DEF IInv

\* The loser of the lock waits if it is a request, and is done if it is a goroutine.
LEMMA LockContendedInvariant ==
  ASSUME IInv, NEW a \in Actors, LockContended(a)
  PROVE  IInv'
<1> DEFINE n == IF IsRequest(a) THEN [actor[a] EXCEPT !.pc = "waiting"]
                ELSE [actor[a] EXCEPT !.pc = "over", !.answer = "none"]
<1>1. /\ ~At(a, "new") /\ actor[a] \in ActorState /\ At(a, "locking")
  BY StartedType DEF IInv, LockContended, At
<1>2. /\ n \in ActorState /\ n.session = SessionOf(a) /\ n.expired = actor[a].expired
      /\ n.token = actor[a].token /\ n.ok = actor[a].ok /\ n.token >= actor[a].token
      /\ IsRequest(a) => n.pc = "waiting"
      /\ ~IsRequest(a) => n.pc = "over" /\ n.answer = "none"
  <2>1. CASE IsRequest(a)
    <3>1. n = [actor[a] EXCEPT !.pc = "waiting"]
      BY <2>1
    <3> HIDE DEF n
    <3> QED BY <1>1, <2>1, <3>1 DEF ActorState, Holding, SessionOf
  <2>2. CASE ~IsRequest(a)
    <3>1. n = [actor[a] EXCEPT !.pc = "over", !.answer = "none"]
      BY <2>2
    <3> HIDE DEF n
    <3>2. /\ n \in ActorState /\ n.pc = "over" /\ n.answer = "none"
          /\ n.session = actor[a].session /\ n.token = actor[a].token
          /\ n.expired = actor[a].expired /\ n.ok = actor[a].ok
      BY <1>1, <3>1, Ended
    <3> QED BY <1>1, <2>2, <3>2 DEF ActorState, SessionOf
  <2> QED BY <2>1, <2>2
<1>3. actor' = [actor EXCEPT ![a] = n]
  BY DEF LockContended, Goes, Ends
<1>4. n.ok => n.expired < n.token
  BY <1>1, <1>2 DEF IInv, CarriesNewest
<1> HIDE DEF n
<1>5. UNCHANGED <<stored, lock, oauthVars, logout, lost, faults>>
  BY DEF LockContended
<1>6. /\ stored' \in [Sessions -> 0 .. MaxTokens]
      /\ \A s \in Sessions : stored'[s] \in {0, stored[s]}
      /\ lost \subseteq lost' /\ lost' \subseteq Sessions /\ faults' \in 0 .. MaxFaults
  BY <1>5 DEF IInv, TypeOK
<1> QED BY <1>1, <1>2, <1>3, <1>4, <1>5, <1>6, ActorMovesOn DEF At, Holding

\* A refused holder keeps the lock, and goes on to destroy the session.
LEMMA RefreshRefusedInvariant ==
  ASSUME IInv, NEW a \in Actors, RefreshRefused(a)
  PROVE  IInv'
<1> DEFINE n == [actor[a] EXCEPT !.pc = "destroying"]
<1>1. /\ ~At(a, "new") /\ actor[a] \in ActorState /\ At(a, "exchanging")
  BY StartedType DEF IInv, RefreshRefused, At
<1>2. /\ n \in ActorState /\ n.pc = "destroying" /\ n.session = SessionOf(a)
      /\ n.token = actor[a].token /\ n.expired = actor[a].expired /\ n.ok = actor[a].ok
      /\ n.answer = actor[a].answer /\ n.token >= actor[a].token
  BY <1>1 DEF ActorState, Holding, SessionOf
<1>3. actor' = [actor EXCEPT ![a] = n]
  BY DEF RefreshRefused, Goes
<1>4. (n.ok => n.expired < n.token) /\ (IsRequest(a) \/ n.answer = "none")
  BY <1>1, <1>2 DEF IInv, CarriesNewest, TypeOK
<1> HIDE DEF n
<1>5. UNCHANGED <<stored, lock, oauthVars, logout, lost, faults>>
  BY DEF RefreshRefused
<1>6. /\ stored' \in [Sessions -> 0 .. MaxTokens]
      /\ \A s \in Sessions : stored'[s] \in {0, stored[s]}
      /\ lost \subseteq lost' /\ lost' \subseteq Sessions /\ faults' \in 0 .. MaxFaults
  BY <1>5 DEF IInv, TypeOK
<1> QED BY <1>1, <1>2, <1>3, <1>4, <1>5, <1>6, ActorMovesOn DEF At, Holding

\* A session destroyed is gone, not behind.
LEMMA DestroyInvariant ==
  ASSUME IInv, NEW a \in Actors, Destroy(a)
  PROVE  IInv'
<1> DEFINE n == [actor[a] EXCEPT !.pc = "unlocking"]
<1>1. /\ ~At(a, "new") /\ actor[a] \in ActorState /\ At(a, "destroying")
  BY StartedType DEF IInv, Destroy, At
<1>2. /\ n \in ActorState /\ n.pc = "unlocking" /\ n.session = SessionOf(a)
      /\ n.token = actor[a].token /\ n.expired = actor[a].expired /\ n.ok = actor[a].ok
      /\ n.answer = actor[a].answer /\ n.token >= actor[a].token
  BY <1>1 DEF ActorState, Holding, SessionOf
<1>3. actor' = [actor EXCEPT ![a] = n]
  BY DEF Destroy, Goes
<1>4. (n.ok => n.expired < n.token) /\ (IsRequest(a) \/ n.answer = "none")
  BY <1>1, <1>2 DEF IInv, CarriesNewest, TypeOK
<1> HIDE DEF n
<1>5. UNCHANGED <<lock, oauthVars, logout, lost, faults>>
  BY DEF Destroy
<1>6. /\ stored' \in [Sessions -> 0 .. MaxTokens]
      /\ \A s \in Sessions : stored'[s] \in {0, stored[s]}
      /\ lost \subseteq lost' /\ lost' \subseteq Sessions /\ faults' \in 0 .. MaxFaults
  <2>1. stored' = [stored EXCEPT ![SessionOf(a)] = 0]
    BY DEF Destroy
  <2>2. stored \in [Sessions -> 0 .. MaxTokens] /\ 0 \in 0 .. MaxTokens
    BY BoundsAssumption DEF IInv, TypeOK
  <2> QED BY <2>1, <2>2, <1>5 DEF IInv, TypeOK
<1> QED BY <1>1, <1>2, <1>3, <1>4, <1>5, <1>6, ActorMovesOn DEF At, Holding

\* What dies with a new pair in hand loses it.
LEMMA DieInvariant ==
  ASSUME IInv, NEW a \in Actors, Die(a)
  PROVE  IInv'
<1> DEFINE n == [actor[a] EXCEPT !.pc = "dead"]
<1>1. /\ ~At(a, "new") /\ actor[a] \in ActorState /\ SessionOf(a) \in Sessions
  BY StartedType DEF IInv, Die, At, ActorState, SessionOf
<1>2. /\ n \in ActorState /\ n.pc = "dead" /\ n.session = SessionOf(a)
      /\ n.token = actor[a].token /\ n.expired = actor[a].expired /\ n.ok = actor[a].ok
      /\ n.answer = actor[a].answer /\ n.token >= actor[a].token
  BY <1>1 DEF ActorState, Holding, SessionOf
<1>3. actor' = [actor EXCEPT ![a] = n]
  BY DEF Die, Goes
<1>4. (n.ok => n.expired < n.token) /\ (IsRequest(a) \/ n.answer = "none")
  BY <1>1, <1>2 DEF IInv, CarriesNewest, TypeOK
<1> HIDE DEF n
<1>5. UNCHANGED <<stored, lock, oauthVars, logout>>
  BY DEF Die
<1>6. /\ stored' \in [Sessions -> 0 .. MaxTokens]
      /\ \A s \in Sessions : stored'[s] \in {0, stored[s]}
      /\ lost \subseteq lost' /\ lost' \subseteq Sessions /\ faults' \in 0 .. MaxFaults
      /\ At(a, "storing") => SessionOf(a) \in lost'
  BY <1>1, <1>5, BoundsAssumption DEF IInv, TypeOK, Die
<1> QED BY <1>1, <1>2, <1>3, <1>4, <1>5, <1>6, ActorMovesOn DEF At, Holding

\* Giving up the wait, or the last look at the session, changes nothing but the actor.
LEMMA WaitTimesOutInvariant ==
  ASSUME IInv, NEW a \in Actors, At(a, "waiting"), Goes(a, "checking"),
         UNCHANGED <<stored, lock, oauthVars, logout, lost, faults>>
  PROVE  IInv'
<1> DEFINE n == [actor[a] EXCEPT !.pc = "checking"]
<1>1. /\ ~At(a, "new") /\ actor[a] \in ActorState
  BY StartedType DEF IInv, At
<1>2. /\ n \in ActorState /\ n.pc = "checking" /\ n.session = SessionOf(a)
      /\ n.token = actor[a].token /\ n.expired = actor[a].expired /\ n.ok = actor[a].ok
      /\ n.answer = actor[a].answer /\ n.token >= actor[a].token
  BY <1>1 DEF ActorState, Holding, SessionOf
<1>3. actor' = [actor EXCEPT ![a] = n]
  BY DEF Goes
<1>4. (n.ok => n.expired < n.token) /\ IsRequest(a)
  BY <1>1, <1>2 DEF IInv, CarriesNewest, TypeOK, At
<1> HIDE DEF n
<1>5. /\ stored' \in [Sessions -> 0 .. MaxTokens]
      /\ \A s \in Sessions : stored'[s] \in {0, stored[s]}
      /\ lost \subseteq lost' /\ lost' \subseteq Sessions /\ faults' \in 0 .. MaxFaults
  BY DEF IInv, TypeOK
<1> QED BY <1>1, <1>2, <1>3, <1>4, <1>5, ActorMovesOn DEF At, Holding

\* The answer to a request that got no fresh token.
LEMMA CheckInvariant ==
  ASSUME IInv, NEW a \in Actors, Check(a)
  PROVE  IInv'
<1> DEFINE answer == IF IsRequest(a)
                       THEN IF stored[SessionOf(a)] = 0 THEN "kicked" ELSE "retry"
                       ELSE "none"
           n == [actor[a] EXCEPT !.pc = "over", !.answer = answer]
<1>1. /\ ~At(a, "new") /\ actor[a] \in ActorState /\ At(a, "checking") /\ IsRequest(a)
  BY StartedType DEF IInv, TypeOK, Check, At
<1>2. answer \in {"kicked", "retry"}
  BY <1>1
<1>3. actor' = [actor EXCEPT ![a] = n]
  BY DEF Check, Ends
<1> HIDE DEF answer
<1>4. /\ n \in ActorState /\ n.pc = "over" /\ n.answer = answer
      /\ n.session = actor[a].session /\ n.token = actor[a].token
      /\ n.expired = actor[a].expired /\ n.ok = actor[a].ok
  <2>1. n = [actor[a] EXCEPT !.pc = "over", !.answer = answer]
    OBVIOUS
  <2>2. answer \in {"none", "served", "expired", "kicked", "retry"}
    BY <1>2
  <2> HIDE DEF n
  <2> QED BY <1>1, <2>1, <2>2 DEF ActorState, Holding
<1> HIDE DEF n
<1>5. n.session = SessionOf(a) /\ n.token >= actor[a].token /\ (n.ok => n.expired < n.token)
  BY <1>1, <1>4 DEF IInv, CarriesNewest, ActorState, SessionOf
<1>6. UNCHANGED <<stored, lock, oauthVars, logout, lost, faults>>
  BY DEF Check
<1>7. /\ stored' \in [Sessions -> 0 .. MaxTokens]
      /\ \A s \in Sessions : stored'[s] \in {0, stored[s]}
      /\ lost \subseteq lost' /\ lost' \subseteq Sessions /\ faults' \in 0 .. MaxFaults
  BY <1>6 DEF IInv, TypeOK
<1> QED BY <1>1, <1>2, <1>3, <1>4, <1>5, <1>6, <1>7, ActorMovesOn DEF At, Holding

\* The winner of the lock stores what it waits for: a later pair than it carries.
LEMMA PollInvariant ==
  ASSUME IInv, NEW a \in Actors, Poll(a)
  PROVE  IInv'
<1> DEFINE k == stored[SessionOf(a)]
           n == [actor[a] EXCEPT !.pc = "over", !.token = k, !.answer = "served"]
<1>1. /\ ~At(a, "new") /\ actor[a] \in ActorState /\ At(a, "waiting") /\ IsRequest(a)
      /\ SessionOf(a) \in Sessions
  BY StartedType DEF IInv, TypeOK, Poll, At, ActorState, SessionOf
<1>2. UNCHANGED <<stored, lock, oauthVars, logout, lost, faults>>
  BY DEF Poll
<1>3. CASE Goes(a, "checking")
  BY <1>1, <1>2, <1>3, WaitTimesOutInvariant
<1>4. CASE /\ k > actor[a].token
           /\ actor' = [actor EXCEPT ![a].pc = "over", ![a].token = k,
                                     ![a].answer = "served"]
  <2>1. actor' = [actor EXCEPT ![a] = n]
    BY <1>4
  <2>2. k \in 0 .. MaxTokens
    BY <1>1 DEF IInv, TypeOK
  <2> HIDE DEF k
  <2>3. /\ n \in ActorState /\ n.pc = "over" /\ n.answer = "served"
        /\ n.session = actor[a].session /\ n.token = k
        /\ n.expired = actor[a].expired /\ n.ok = actor[a].ok
    BY <1>1, <2>2 DEF ActorState, Holding
  <2> HIDE DEF n
  <2>4. n.session = SessionOf(a) /\ n.token >= actor[a].token /\ n.expired < n.token
    BY <1>1, <1>4, <2>2, <2>3 DEF IInv, CarriesNewest, ActorState, SessionOf
  <2>5. /\ stored' \in [Sessions -> 0 .. MaxTokens]
        /\ \A s \in Sessions : stored'[s] \in {0, stored[s]}
        /\ lost \subseteq lost' /\ lost' \subseteq Sessions /\ faults' \in 0 .. MaxFaults
    BY <1>2 DEF IInv, TypeOK
  <2> QED BY <1>1, <1>2, <2>1, <2>3, <2>4, <2>5, ActorMovesOn DEF At, Holding
<1> QED BY <1>3, <1>4 DEF Poll

\* OAuth's next pair is newer than all others; the renewal that holds the lock
\* carries it, and only what was no longer fresh is renewed.
LEMMA RefreshAcceptedInvariant ==
  ASSUME IInv, NEW a \in Actors, RefreshAccepted(a)
  PROVE  IInv'
<1> DEFINE s == SessionOf(a)
           k == newest[s] + 1
           n == [actor[a] EXCEPT !.pc = "storing", !.token = k]
<1>1. /\ ~At(a, "new") /\ actor[a] \in ActorState /\ At(a, "exchanging")
      /\ s \in Sessions
  BY StartedType DEF IInv, TypeOK, RefreshAccepted, At, ActorState, SessionOf
<1>2. actor[a].token = newest[s] /\ newest[s] < MaxTokens /\ newest[s] \in Pairs /\ k \in Pairs
  <2>1. actor[a].token = current[s] /\ actor[a].token \in Pairs /\ age[s][actor[a].token] >= 1
    BY <1>1 DEF RefreshAccepted, Accepted, IInv, RenewsOld, At
  <2>2. actor[a].token = newest[s] /\ age[s][MaxTokens] = 0
    BY <1>1, <2>1 DEF IInv, NewestAccepted, RenewsOld, Pairs
  <2> QED BY <2>1, <2>2, BoundsAssumption DEF Pairs
<1>3. actor' = [actor EXCEPT ![a] = n]
  BY DEF RefreshAccepted
<1>4. /\ newest' = [newest EXCEPT ![s] = k]
      /\ current' = [current EXCEPT ![s] = k]
      /\ UNCHANGED <<stored, lock, age, logout, lost, faults>>
  BY DEF RefreshAccepted
<1>5. k > newest[s]
  BY <1>2 DEF Pairs
<1> HIDE DEF k
<1>6. /\ n \in ActorState /\ n.pc = "storing" /\ n.session = actor[a].session
      /\ n.token = k /\ n.expired = actor[a].expired /\ n.ok = actor[a].ok
      /\ n.answer = actor[a].answer
  <2>1. k \in 0 .. MaxTokens
    BY <1>2, BoundsAssumption DEF Pairs
  <2>2. n = [actor[a] EXCEPT !.pc = "storing", !.token = k]
    OBVIOUS
  <2> HIDE DEF n
  <2> QED BY <1>1, <2>1, <2>2 DEF ActorState, Holding
<1> HIDE DEF n
<1>7. /\ actor' \in [Actors -> ActorState \cup {New}]
      /\ actor'[a] = n
      /\ \A b \in Actors : b # a => actor'[b] = actor[b]
  BY <1>3, <1>6 DEF IInv, TypeOK
<1>8. /\ newest' \in [Sessions -> Pairs] /\ current' \in [Sessions -> 0 .. MaxTokens]
      /\ newest'[s] = k /\ current'[s] = k
      /\ \A t \in Sessions : t # s => newest'[t] = newest[t] /\ current'[t] = current[t]
  BY <1>1, <1>2, <1>4 DEF IInv, TypeOK, Pairs
<1>9. TypeOK'
  <2>1. \A b \in Actors : ~IsRequest(b) /\ ~At(b, "new")' =>
          actor'[b].answer = "none" /\ actor'[b].pc \notin {"waiting", "checking"}
    BY <1>1, <1>6, <1>7 DEF IInv, TypeOK, At
  <2> QED BY <1>4, <1>7, <1>8, <2>1 DEF IInv, TypeOK
<1>10. TwinsStart' /\ HoldersLock' /\ RenewsOld'
  <2>1. TwinsStart'
    BY <1>1, <1>6, <1>7, TwinsStay DEF IInv
  <2>2. HoldersLock'
    BY <1>1, <1>4, <1>6, <1>7 DEF IInv, HoldersLock, At, SessionOf, Holding
  <2>3. RenewsOld'
    <3>1. ASSUME NEW b \in Actors, actor'[b].pc \in {"locking", "exchanging"}
          PROVE  actor'[b].token \in Pairs /\ age'[SessionOf(b)'][actor'[b].token] >= 1
      <4>1. b # a /\ actor'[b] = actor[b] /\ age' = age
        BY <1>4, <1>6, <1>7, <3>1
      <4> QED BY <3>1, <4>1 DEF IInv, RenewsOld, SessionOf
    <3> QED BY <3>1, <1>4 DEF IInv, RenewsOld
  <2> QED BY <2>1, <2>2, <2>3
<1>11. NewestAccepted'
  <2>1. \A t \in Sessions : stored[t] \in 0 .. MaxTokens /\ newest[t] \in Pairs
    BY DEF IInv, TypeOK
  <2> QED BY <2>1, <1>2, <1>4, <1>5, <1>8 DEF IInv, NewestAccepted, Pairs
<1>12. \A b \in Actors : b # a /\ At(b, "storing") => SessionOf(b) # s
  BY <1>1, OneHolder DEF IInv, OneRefreshAtATime, At, Holding
<1>13. CarriesNewest'
  <2>1. actor[a].expired <= actor[a].token /\ actor[a].expired \in Int /\ k \in Int
    BY <1>1, <1>2 DEF IInv, CarriesNewest, ActorState, Pairs
  <2>2. \A b \in Actors : actor[b].pc \in Holding => SessionOf(b) \in Sessions
    BY HolderSession DEF IInv
  <2>3. n.expired < n.token
    BY <2>1, <1>2, <1>5, <1>6 DEF Pairs
  <2>4. \A b \in Actors : b # a /\ At(b, "storing") => newest'[SessionOf(b)] = newest[SessionOf(b)]
    BY <1>8, <1>12, <2>2 DEF At, Holding
  <2>5. n.expired <= n.token
    BY <2>1, <2>3, <1>6
  <2>6. SessionOf(a)' = s /\ \A b \in Actors : b # a => SessionOf(b)' = SessionOf(b)
    BY <1>6, <1>7 DEF SessionOf
  <2> HIDE DEF s
  <2>7. ASSUME NEW b \in Actors
        PROVE  /\ ~At(b, "new")' => actor'[b].expired <= actor'[b].token
               /\ At(b, "storing")' => actor'[b].token = newest'[SessionOf(b)']
               /\ At(b, "storing")' => actor'[b].expired < actor'[b].token
               /\ ~At(b, "new")' /\ actor'[b].ok => actor'[b].expired < actor'[b].token
    <3>1. CASE b = a
      BY <3>1, <1>6, <1>7, <1>8, <2>3, <2>5, <2>6
    <3>2. CASE b # a
      BY <3>2, <1>7, <2>4, <2>6 DEF IInv, CarriesNewest, At
    <3> QED BY <3>1, <3>2
  <2> QED BY <2>7 DEF CarriesNewest
<1>14. StoredIsCurrent'
  <2>1. At(a, "storing")' /\ SessionOf(a)' = s
    BY <1>6, <1>7 DEF At, SessionOf
  <2>2. \A b \in Actors : b # a => (At(b, "storing")' <=> At(b, "storing")) /\ SessionOf(b)' = SessionOf(b)
    BY <1>7 DEF At, SessionOf
  <2>3. ~At(a, "storing")
    BY <1>1 DEF At
  <2> HIDE DEF s
  <2> QED BY <2>1, <2>2, <2>3, <1>4, <1>8 DEF IInv, StoredIsCurrent
<1>15. ServedRenewed'
  BY <1>6, <1>7 DEF IInv, ServedRenewed, At
<1> QED BY <1>9, <1>10, <1>11, <1>13, <1>14, <1>15 DEF IInv

\* The pair stored is OAuth's newest: it is accepted, or nothing is.
LEMMA StoreInvariant ==
  ASSUME IInv, NEW a \in Actors, Store(a)
  PROVE  IInv'
<1> DEFINE s == SessionOf(a)
           n == [actor[a] EXCEPT !.pc = "unlocking", !.ok = TRUE]
<1>1. /\ ~At(a, "new") /\ actor[a] \in ActorState /\ At(a, "storing")
      /\ s \in Sessions
  BY StartedType DEF IInv, TypeOK, Store, At, ActorState, SessionOf
<1>2. actor[a].token = newest[s] /\ newest[s] \in Pairs
  BY <1>1 DEF IInv, CarriesNewest, TypeOK
<1>3. actor' = [actor EXCEPT ![a] = n]
  BY DEF Store
<1>4. /\ stored' = [stored EXCEPT ![s] = newest[s]]
      /\ UNCHANGED <<lock, current, newest, age, logout, lost, faults>>
  BY <1>2 DEF Store, oauthVars
<1>5. /\ n \in ActorState /\ n.pc = "unlocking" /\ n.session = actor[a].session
      /\ n.token = actor[a].token /\ n.expired = actor[a].expired /\ n.ok = TRUE
      /\ n.answer = actor[a].answer
  BY <1>1 DEF ActorState, Holding
<1> HIDE DEF n
<1>6. /\ actor' \in [Actors -> ActorState \cup {New}]
      /\ actor'[a] = n
      /\ \A b \in Actors : b # a => actor'[b] = actor[b]
  BY <1>3, <1>5 DEF IInv, TypeOK
<1>7. /\ stored' \in [Sessions -> 0 .. MaxTokens]
      /\ stored'[s] = newest[s]
      /\ \A t \in Sessions : t # s => stored'[t] = stored[t]
  BY <1>1, <1>2, <1>4 DEF IInv, TypeOK, Pairs
<1>8. TypeOK'
  <2>1. \A b \in Actors : ~IsRequest(b) /\ ~At(b, "new")' =>
          actor'[b].answer = "none" /\ actor'[b].pc \notin {"waiting", "checking"}
    BY <1>1, <1>5, <1>6 DEF IInv, TypeOK, At
  <2> QED BY <1>4, <1>6, <1>7, <2>1 DEF IInv, TypeOK
<1>9. TwinsStart'
  BY <1>1, <1>5, <1>6, TwinsStay DEF IInv
<1>10. HoldersLock'
  BY <1>1, <1>4, <1>5, <1>6 DEF IInv, HoldersLock, At, SessionOf, Holding
<1>11. RenewsOld'
  <2>1. ASSUME NEW b \in Actors, actor'[b].pc \in {"locking", "exchanging"}
        PROVE  actor'[b].token \in Pairs /\ age'[SessionOf(b)'][actor'[b].token] >= 1
    <3>1. b # a /\ actor'[b] = actor[b] /\ age' = age
      BY <1>4, <1>5, <1>6, <2>1
    <3> QED BY <2>1, <3>1 DEF IInv, RenewsOld, SessionOf
  <2> QED BY <2>1, <1>4 DEF IInv, RenewsOld
<1>12. NewestAccepted'
  BY <1>2, <1>4, <1>7 DEF IInv, NewestAccepted, Pairs
<1>13. CarriesNewest'
  <2>1. actor[a].expired < actor[a].token /\ actor[a].expired <= actor[a].token
    BY <1>1 DEF IInv, CarriesNewest, At
  <2> QED BY <2>1, <1>4, <1>5, <1>6 DEF IInv, CarriesNewest, SessionOf, At
<1>14. StoredIsCurrent'
  <2>1. ASSUME NEW t \in Sessions, stored'[t] # 0, current'[t] # 0, t \notin lost',
               ~\E b \in Actors : At(b, "storing")' /\ SessionOf(b)' = t
        PROVE  stored'[t] = current'[t]
    <3>1. CASE t = s
      BY <3>1, <2>1, <1>4, <1>7 DEF IInv, NewestAccepted
    <3>2. CASE t # s
      <4>1. ~\E b \in Actors : At(b, "storing") /\ SessionOf(b) = t
        BY <2>1, <3>2, <1>6 DEF At, SessionOf
      <4> QED BY <2>1, <3>2, <4>1, <1>4, <1>7 DEF IInv, StoredIsCurrent
    <3> QED BY <3>1, <3>2
  <2> QED BY <2>1 DEF StoredIsCurrent
<1>15. ServedRenewed'
  BY <1>5, <1>6 DEF IInv, ServedRenewed, At
<1> QED BY <1>8, <1>9, <1>10, <1>11, <1>12, <1>13, <1>14, <1>15 DEF IInv

\* An answer that gets lost rotates nothing, or loses the pair it brings.
LEMMA RefreshUnansweredInvariant ==
  ASSUME IInv, NEW a \in Actors, RefreshUnanswered(a)
  PROVE  IInv'
<1> DEFINE s == SessionOf(a)
           n == [actor[a] EXCEPT !.pc = "unlocking"]
<1>1. /\ ~At(a, "new") /\ actor[a] \in ActorState /\ At(a, "exchanging")
      /\ s \in Sessions
  BY StartedType DEF IInv, TypeOK, RefreshUnanswered, At, ActorState, SessionOf
<1>2. /\ n \in ActorState /\ n.pc = "unlocking" /\ n.session = s
      /\ n.token = actor[a].token /\ n.expired = actor[a].expired /\ n.ok = actor[a].ok
      /\ n.answer = actor[a].answer /\ n.token >= actor[a].token
  BY <1>1 DEF ActorState, Holding, SessionOf
<1>3. actor' = [actor EXCEPT ![a] = n]
  BY DEF RefreshUnanswered, Goes
<1>4. (n.ok => n.expired < n.token) /\ (IsRequest(a) \/ n.answer = "none")
  BY <1>1, <1>2 DEF IInv, CarriesNewest, TypeOK
<1> HIDE DEF n
<1>5. UNCHANGED <<stored, lock, age, logout>> /\ faults' \in 0 .. MaxFaults
  BY BoundsAssumption DEF RefreshUnanswered, IInv, TypeOK
<1>6. CASE UNCHANGED <<current, newest, lost>>
  <2>1. /\ stored' \in [Sessions -> 0 .. MaxTokens]
        /\ \A t \in Sessions : stored'[t] \in {0, stored[t]}
        /\ lost \subseteq lost' /\ lost' \subseteq Sessions
    BY <1>5, <1>6 DEF IInv, TypeOK
  <2>2. UNCHANGED oauthVars
    BY <1>5, <1>6 DEF oauthVars
  <2> HIDE DEF s
  <2> QED BY <1>1, <1>2, <1>3, <1>4, <1>5, <2>1, <2>2, ActorMovesOn DEF At, Holding, s
<1>7. CASE /\ Accepted(a)
           /\ newest' = [newest EXCEPT ![s] = @ + 1]
           /\ current' = [current EXCEPT ![s] = newest[s] + 1]
           /\ lost' = lost \cup {s}
  <2> DEFINE k == newest[s] + 1
  <2>1. newest[s] < MaxTokens /\ newest[s] \in Pairs /\ k \in Pairs /\ k > newest[s]
    <3>1. actor[a].token = current[s] /\ actor[a].token \in Pairs /\ age[s][actor[a].token] >= 1
      BY <1>1, <1>7 DEF Accepted, IInv, RenewsOld, At
    <3>2. actor[a].token = newest[s] /\ age[s][MaxTokens] = 0
      BY <1>1, <3>1 DEF IInv, NewestAccepted, RenewsOld, Pairs
    <3> QED BY <3>1, <3>2, BoundsAssumption DEF Pairs
  <2>2. newest' = [newest EXCEPT ![s] = k] /\ current' = [current EXCEPT ![s] = k]
    BY <1>7
  <2> HIDE DEF k
  <2>3. /\ newest' \in [Sessions -> Pairs] /\ current' \in [Sessions -> 0 .. MaxTokens]
        /\ newest'[s] = k /\ current'[s] = k
        /\ \A t \in Sessions : t # s => newest'[t] = newest[t] /\ current'[t] = current[t]
    BY <1>1, <2>1, <2>2 DEF IInv, TypeOK, Pairs
  <2>4. /\ actor' \in [Actors -> ActorState \cup {New}]
        /\ actor'[a] = n
        /\ \A b \in Actors : b # a => actor'[b] = actor[b]
    BY <1>2, <1>3 DEF IInv, TypeOK
  <2>5. TypeOK'
    <3>1. \A b \in Actors : ~IsRequest(b) /\ ~At(b, "new")' =>
            actor'[b].answer = "none" /\ actor'[b].pc \notin {"waiting", "checking"}
      BY <1>1, <1>2, <2>4 DEF IInv, TypeOK, At
    <3>2. lost' \subseteq Sessions
      BY <1>1, <1>7 DEF IInv, TypeOK
    <3> QED BY <1>5, <2>3, <2>4, <3>1, <3>2 DEF IInv, TypeOK
  <2>6. TwinsStart'
    BY <1>1, <1>2, <2>4, TwinsStay DEF IInv
  <2>7. HoldersLock'
    BY <1>1, <1>2, <1>5, <2>4 DEF IInv, HoldersLock, At, SessionOf, Holding
  <2>8. RenewsOld'
    <3>1. ASSUME NEW b \in Actors, actor'[b].pc \in {"locking", "exchanging"}
          PROVE  actor'[b].token \in Pairs /\ age'[SessionOf(b)'][actor'[b].token] >= 1
      <4>1. b # a /\ actor'[b] = actor[b] /\ age' = age
        BY <1>2, <1>5, <2>4, <3>1
      <4> QED BY <3>1, <4>1 DEF IInv, RenewsOld, SessionOf
    <3> QED BY <3>1, <1>5 DEF IInv, RenewsOld
  <2>9. NewestAccepted'
    <3>1. \A t \in Sessions : stored[t] \in 0 .. MaxTokens /\ newest[t] \in Pairs
      BY DEF IInv, TypeOK
    <3> QED BY <3>1, <1>5, <2>1, <2>3 DEF IInv, NewestAccepted, Pairs
  <2>10. \A b \in Actors : b # a /\ At(b, "storing") => SessionOf(b) # s /\ SessionOf(b) \in Sessions
    BY <1>1, OneHolder, HolderSession DEF IInv, OneRefreshAtATime, At, Holding
  <2>11. CarriesNewest'
    <3>1. actor[a].expired <= actor[a].token
      BY <1>1 DEF IInv, CarriesNewest
    <3>2. ASSUME NEW b \in Actors
          PROVE  /\ ~At(b, "new")' => actor'[b].expired <= actor'[b].token
                 /\ At(b, "storing")' => actor'[b].token = newest'[SessionOf(b)']
                 /\ At(b, "storing")' => actor'[b].expired < actor'[b].token
                 /\ ~At(b, "new")' /\ actor'[b].ok => actor'[b].expired < actor'[b].token
      <4>1. CASE b = a
        BY <4>1, <1>2, <1>4, <2>4, <3>1 DEF At
      <4>2. CASE b # a
        <5>1. actor'[b] = actor[b] /\ SessionOf(b)' = SessionOf(b)
          BY <4>2, <2>4 DEF SessionOf
        <5>2. At(b, "storing") => newest'[SessionOf(b)] = newest[SessionOf(b)]
          BY <4>2, <2>3, <2>10
        <5> QED BY <5>1, <5>2 DEF IInv, CarriesNewest, At
      <4> QED BY <4>1, <4>2
    <3> QED BY <3>2 DEF CarriesNewest
  <2>12. StoredIsCurrent'
    <3>1. ASSUME NEW t \in Sessions, stored'[t] # 0, current'[t] # 0, t \notin lost',
                 ~\E b \in Actors : At(b, "storing")' /\ SessionOf(b)' = t
          PROVE  stored'[t] = current'[t]
      <4>1. t # s /\ t \notin lost
        BY <3>1, <1>7
      <4>2. ~\E b \in Actors : At(b, "storing") /\ SessionOf(b) = t
        BY <3>1, <1>1, <2>4 DEF At, SessionOf
      <4> QED BY <3>1, <4>1, <4>2, <1>5, <2>3 DEF IInv, StoredIsCurrent
    <3> QED BY <3>1 DEF StoredIsCurrent
  <2>13. ServedRenewed'
    BY <1>2, <2>4 DEF IInv, ServedRenewed, At
  <2> QED BY <2>5, <2>6, <2>7, <2>8, <2>9, <2>11, <2>12, <2>13 DEF IInv
<1> QED BY <1>6, <1>7 DEF RefreshUnanswered

\* The lock deleted is the actor's own: nobody else on its session holds one.
LEMMA UnlockInvariant ==
  ASSUME IInv, NEW a \in Actors, Unlock(a)
  PROVE  IInv'
<1> DEFINE n == IF actor[a].ok
                  THEN [actor[a] EXCEPT !.pc = "over",
                                        !.answer = IF IsRequest(a) THEN "served" ELSE "none"]
                ELSE IF IsRequest(a) THEN [actor[a] EXCEPT !.pc = "checking"]
                ELSE [actor[a] EXCEPT !.pc = "over", !.answer = "none"]
<1>1. /\ ~At(a, "new") /\ actor[a] \in ActorState /\ At(a, "unlocking")
      /\ SessionOf(a) \in Sessions
  BY StartedType DEF IInv, Unlock, At, ActorState, SessionOf
<1>2. actor' = [actor EXCEPT ![a] = n]
  BY DEF Unlock, Ends, Goes
<1>3. /\ n \in ActorState /\ n.session = actor[a].session /\ n.token = actor[a].token
      /\ n.expired = actor[a].expired /\ n.ok = actor[a].ok
      /\ n.pc \in {"over", "checking"}
      /\ ~n.ok => n.pc = "checking" \/ n.answer = "none"
      /\ ~IsRequest(a) => n.pc = "over" /\ n.answer = "none"
  <2>1. CASE actor[a].ok
    <3> DEFINE answer == IF IsRequest(a) THEN "served" ELSE "none"
    <3>1. n = [actor[a] EXCEPT !.pc = "over", !.answer = answer]
      BY <2>1
    <3>2. answer \in {"served", "none"} /\ (~IsRequest(a) => answer = "none")
      OBVIOUS
    <3> HIDE DEF n, answer
    <3>3. n \in ActorState
      BY <1>1, <3>1, <3>2 DEF ActorState, Holding
    <3>4. /\ n.session = actor[a].session /\ n.token = actor[a].token
          /\ n.expired = actor[a].expired /\ n.ok = actor[a].ok
          /\ n.pc = "over" /\ n.answer = answer
      BY <1>1, <3>1 DEF ActorState
    <3> QED BY <2>1, <3>2, <3>3, <3>4
  <2>2. CASE ~actor[a].ok /\ IsRequest(a)
    <3>1. n = [actor[a] EXCEPT !.pc = "checking"]
      BY <2>2
    <3> HIDE DEF n
    <3> QED BY <1>1, <2>2, <3>1 DEF ActorState, Holding
  <2>3. CASE ~actor[a].ok /\ ~IsRequest(a)
    <3>1. n = [actor[a] EXCEPT !.pc = "over", !.answer = "none"]
      BY <2>3
    <3> HIDE DEF n
    <3>2. /\ n \in ActorState /\ n.pc = "over" /\ n.answer = "none"
          /\ n.session = actor[a].session /\ n.token = actor[a].token
          /\ n.expired = actor[a].expired /\ n.ok = actor[a].ok
      BY <1>1, <3>1, Ended
    <3> QED BY <2>3, <3>2
  <2> QED BY <2>1, <2>2, <2>3
<1> HIDE DEF n
<1>4. /\ n.session = SessionOf(a) /\ n.token >= actor[a].token
      /\ n.ok => n.expired < n.token
      /\ n.pc = "over" /\ n.answer = "served" => n.expired < n.token
  BY <1>1, <1>3 DEF IInv, CarriesNewest, ActorState, SessionOf
<1>5. UNCHANGED <<stored, oauthVars, logout, lost, faults>>
  BY DEF Unlock
<1>6. /\ actor' \in [Actors -> ActorState \cup {New}]
      /\ \A b \in Actors : ~IsRequest(b) /\ ~At(b, "new")' =>
           actor'[b].answer = "none" /\ actor'[b].pc \notin {"waiting", "checking"}
      /\ actor'[a] = n
      /\ \A b \in Actors : b # a => actor'[b] = actor[b]
      /\ TwinsStart' /\ RenewsOld' /\ NewestAccepted'
      /\ CarriesNewest' /\ StoredIsCurrent' /\ ServedRenewed'
  <2>1. \A s \in Sessions : stored'[s] \in {0, stored[s]}
    BY <1>5
  <2>2. n.ok \/ (n.pc = "over" /\ n.answer = "served") => n.expired < n.token
    BY <1>4
  <2>3. n.pc \notin {"locking", "storing", "exchanging", "waiting"} /\ ~At(a, "storing")
    BY <1>1, <1>3 DEF At
  <2>4. IsRequest(a) \/ (n.answer = "none" /\ n.pc \notin {"waiting", "checking"})
    BY <1>3
  <2> QED BY <1>1, <1>2, <1>3, <1>4, <1>5, <2>1, <2>2, <2>3, <2>4, ActorMoves
<1>7. /\ lock' \in [Sessions -> Actors \cup {NoOne}]
      /\ \A s \in Sessions : s # SessionOf(a) => lock'[s] = lock[s]
  BY <1>1 DEF IInv, TypeOK, Unlock
<1>8. TypeOK'
  BY <1>5, <1>6, <1>7 DEF IInv, TypeOK, oauthVars
<1>9. HoldersLock'
  <2>1. ASSUME NEW b \in Actors, actor'[b].pc \in Holding
        PROVE  lock'[SessionOf(b)'] = b
    <3>1. b # a /\ actor'[b] = actor[b] /\ SessionOf(b)' = SessionOf(b)
      BY <1>3, <1>6, <2>1 DEF Holding, SessionOf
    <3>2. SessionOf(b) \in Sessions /\ SessionOf(b) # SessionOf(a)
      BY <1>1, <2>1, <3>1, HolderSession, OneHolder DEF IInv, OneRefreshAtATime, At, Holding
    <3> QED BY <2>1, <3>1, <3>2, <1>7 DEF IInv, HoldersLock
  <2> QED BY <2>1 DEF HoldersLock
<1> QED BY <1>6, <1>8, <1>9 DEF IInv

\* A step of the world around the actors: nobody moves, and whatever is gone from
\* Redis or from OAuth is gone, not behind.
LEMMA ActorsStand ==
  ASSUME IInv, TypeOK', UNCHANGED <<actor, newest, lost>>,
         \A s \in Sessions : stored'[s] \in {0, stored[s]},
         \A s \in Sessions : current'[s] \in {0, current[s]},
         HoldersLock', RenewsOld'
  PROVE  IInv'
<1>1. TwinsStart' /\ CarriesNewest' /\ ServedRenewed'
  BY DEF IInv, TwinsStart, CarriesNewest, ServedRenewed, At, SessionOf
<1>2. NewestAccepted'
  <2>1. \A s \in Sessions : stored[s] \in 0 .. MaxTokens /\ newest[s] \in Pairs
    BY DEF IInv, TypeOK
  <2> QED BY <2>1 DEF IInv, NewestAccepted, Pairs
<1>3. StoredIsCurrent'
  BY DEF IInv, StoredIsCurrent, At, SessionOf
<1> QED BY <1>1, <1>2, <1>3 DEF IInv

\* Logout, purge and a grant that ends take away, and put nothing older in place.
LEMMA LogoutInvariant ==
  ASSUME IInv, NEW s \in Sessions, LogoutStep(s) \/ GrantEnds(s)
  PROVE  IInv'
<1>1. UNCHANGED <<lock, newest, age, actor, lost, faults>>
  BY DEF LogoutStep, LogoutReads, LogoutDeletes, LogoutRevokes, Purge, GrantEnds, oauthVars
<1>2. /\ stored' \in [Sessions -> 0 .. MaxTokens]
      /\ \A t \in Sessions : stored'[t] \in {0, stored[t]}
  <2>1. stored' = stored \/ stored' = [stored EXCEPT ![s] = 0]
    BY DEF LogoutStep, LogoutReads, LogoutDeletes, LogoutRevokes, Purge, GrantEnds
  <2>2. stored \in [Sessions -> 0 .. MaxTokens] /\ 0 \in 0 .. MaxTokens
    BY BoundsAssumption DEF IInv, TypeOK
  <2> QED BY <2>1, <2>2
<1>3. /\ current' \in [Sessions -> 0 .. MaxTokens]
      /\ \A t \in Sessions : current'[t] \in {0, current[t]}
  <2>1. current' = current \/ current' = [current EXCEPT ![s] = 0]
    BY DEF IInv, TypeOK, LogoutStep, LogoutReads, LogoutDeletes, LogoutRevokes, Purge, GrantEnds,
       oauthVars
  <2>2. current \in [Sessions -> 0 .. MaxTokens] /\ 0 \in 0 .. MaxTokens
    BY BoundsAssumption DEF IInv, TypeOK
  <2> QED BY <2>1, <2>2
<1>4. logout' \in [Sessions -> [pc : {"no", "deleting", "revoking"},
                                token : 0 .. MaxTokens, purged : BOOLEAN]]
  <2>1. stored[s] \in 0 .. MaxTokens /\ 0 \in 0 .. MaxTokens
    BY BoundsAssumption DEF IInv, TypeOK
  <2>2. CASE LogoutReads(s)
    BY <2>1, <2>2 DEF IInv, TypeOK, LogoutReads
  <2>3. CASE LogoutDeletes(s)
    BY <2>3 DEF IInv, TypeOK, LogoutDeletes
  <2>4. CASE LogoutRevokes(s)
    BY <2>1, <2>4 DEF IInv, TypeOK, LogoutRevokes
  <2>5. CASE Purge(s)
    BY <2>5 DEF IInv, TypeOK, Purge
  <2>6. CASE GrantEnds(s)
    BY <2>6 DEF IInv, TypeOK, GrantEnds
  <2> QED BY <2>2, <2>3, <2>4, <2>5, <2>6 DEF LogoutStep
<1>5. TypeOK'
  BY <1>1, <1>2, <1>3, <1>4 DEF IInv, TypeOK, At
<1>6. HoldersLock' /\ RenewsOld'
  BY <1>1 DEF IInv, HoldersLock, RenewsOld, SessionOf
<1> QED BY <1>1, <1>2, <1>3, <1>5, <1>6, ActorsStand

\* Time makes nobody younger, and never reaches the last pair of the bound.
LEMMA TickInvariant ==
  ASSUME IInv, NEW s \in Sessions, NEW n \in Pairs, Tick(s, n)
  PROVE  IInv'
<1>1. UNCHANGED <<stored, lock, current, newest, actor, logout, lost, faults>>
  BY DEF Tick
<1>2. age \in [Sessions -> [Pairs -> 0 .. 2]] /\ age[s][n] < 2 /\ n # MaxTokens
  BY DEF IInv, TypeOK, Tick, Pairs
<1>3. /\ age' \in [Sessions -> [Pairs -> 0 .. 2]]
      /\ \A t \in Sessions, k \in Pairs : age'[t][k] >= age[t][k]
      /\ \A t \in Sessions : age'[t][MaxTokens] = age[t][MaxTokens]
  <2>1. age' = [age EXCEPT ![s] = [age[s] EXCEPT ![n] = age[s][n] + 1]]
    BY DEF Tick
  <2>2. age[s][n] + 1 \in 0 .. 2 /\ age[s] \in [Pairs -> 0 .. 2]
    BY <1>2
  <2> QED BY <1>2, <2>1, <2>2
<1>4. TypeOK'
  BY <1>1, <1>3 DEF IInv, TypeOK, At
<1>5. HoldersLock'
  BY <1>1 DEF IInv, HoldersLock, SessionOf
<1>6. RenewsOld'
  <2>1. ASSUME NEW a \in Actors, actor[a].pc \in {"locking", "exchanging"}
        PROVE  actor[a].token \in Pairs /\ age'[SessionOf(a)][actor[a].token] >= 1
    <3>1. actor[a].token \in Pairs /\ age[SessionOf(a)][actor[a].token] >= 1
      BY <2>1 DEF IInv, RenewsOld
    <3>2. SessionOf(a) \in Sessions
      BY <2>1, StartedType DEF IInv, At, ActorState, SessionOf
    <3>3. /\ age[SessionOf(a)][actor[a].token] \in 0 .. 2
          /\ age'[SessionOf(a)][actor[a].token] \in 0 .. 2
      BY <1>2, <1>3, <3>1, <3>2
    <3> QED BY <1>3, <3>1, <3>2, <3>3
  <2> QED BY <2>1, <1>1, <1>3 DEF IInv, RenewsOld, SessionOf
<1> QED BY <1>1, <1>4, <1>5, <1>6, ActorsStand

\* A lock that expires was left by somebody dead.
LEMMA LockExpiresInvariant ==
  ASSUME IInv, NEW s \in Sessions, LockExpires(s)
  PROVE  IInv'
<1>1. UNCHANGED <<stored, current, newest, age, actor, logout, lost, faults>>
  BY DEF LockExpires, oauthVars
<1>2. /\ lock' \in [Sessions -> Actors \cup {NoOne}]
      /\ \A t \in Sessions : t # s => lock'[t] = lock[t]
  BY DEF LockExpires, IInv, TypeOK
<1>3. TypeOK'
  BY <1>1, <1>2 DEF IInv, TypeOK, At
<1>4. HoldersLock'
  <2>1. ASSUME NEW a \in Actors, actor[a].pc \in Holding
        PROVE  lock'[SessionOf(a)] = a
    <3>1. SessionOf(a) \in Sessions /\ lock[SessionOf(a)] = a
      BY <2>1, HolderSession DEF IInv, HoldersLock
    <3>2. SessionOf(a) # s
      BY <2>1, <3>1 DEF LockExpires, At, Holding
    <3> QED BY <1>2, <3>1, <3>2
  <2> QED BY <2>1, <1>1 DEF HoldersLock, SessionOf
<1>5. RenewsOld'
  BY <1>1 DEF IInv, RenewsOld, SessionOf
<1> QED BY <1>1, <1>3, <1>4, <1>5, ActorsStand

\* A request, and the goroutine it may start, begin with the pair in Redis; they
\* hold no lock, and set out to renew it only if it is no longer fresh.
LEMMA Arrivals ==
  ASSUME IInv, NEW a \in Actors, IsRequest(a), At(a, "new"),
         NEW r \in ActorState, NEW t \in ActorState \cup {New},
         actor' \in [Actors -> ActorState \cup {New}],
         actor'[a] = r, actor'[Twin(a)] = t,
         \A b \in Actors : b # a /\ b # Twin(a) => actor'[b] = actor[b],
         UNCHANGED <<stored, lock, oauthVars, logout, lost, faults>>,
         r.pc \in {"over", "locking"}, t # New => t.pc = "locking" /\ t.answer = "none",
         \A q \in {r, t} : q # New =>
           /\ q.expired <= q.token /\ ~q.ok
           /\ q.pc = "locking" => q.token \in Pairs /\ age[q.session][q.token] >= 1
           /\ q.answer = "served" => q.expired < q.token
  PROVE  IInv'
<1>1. /\ Twin(a) \in Actors /\ Twin(a) # a /\ ~IsRequest(Twin(a))
      /\ \A b \in Actors : Twin(b) \in Actors /\ Twin(b) # a
      /\ \A b \in Actors : IsRequest(b) /\ Twin(b) = Twin(a) => b = a
  BY DEF Actors, Twin, IsRequest
<1>2. /\ At(Twin(a), "new")
      /\ UNCHANGED <<stored, lock, current, newest, age, logout, lost, faults>>
  BY DEF IInv, TwinsStart, oauthVars
<1>3. New.pc = "new" /\ r.pc # "new" /\ r # New
  BY DEF New, ActorState
<1>4. \A b \in Actors : b = a \/ b = Twin(a) \/ actor'[b] = actor[b]
  OBVIOUS
<1>5. TypeOK'
  <2>1. ASSUME NEW b \in Actors, ~IsRequest(b), ~At(b, "new")'
        PROVE  actor'[b].answer = "none" /\ actor'[b].pc \notin {"waiting", "checking"}
    <3>1. CASE b = Twin(a)
      BY <2>1, <3>1, <1>3 DEF At
    <3>2. CASE b # Twin(a)
      BY <2>1, <3>2 DEF IInv, TypeOK, At
    <3> QED BY <3>1, <3>2
  <2> QED BY <2>1, <1>2 DEF IInv, TypeOK
<1>6. TwinsStart'
  <2>1. ASSUME NEW b \in Actors, IsRequest(b), At(b, "new")'
        PROVE  At(Twin(b), "new")'
    <3>1. b # a /\ Twin(b) # Twin(a) /\ Twin(b) # a /\ b # Twin(a)
      BY <1>1, <1>3, <2>1 DEF At
    <3>2. actor'[Twin(b)] = actor[Twin(b)] /\ actor'[b] = actor[b]
      BY <1>1, <3>1
    <3> QED BY <2>1, <3>2 DEF IInv, TwinsStart, At
  <2> QED BY <2>1 DEF TwinsStart
<1>7. \A b \in Actors : actor'[b].pc \in Holding =>
        actor'[b] = actor[b] /\ SessionOf(b)' = SessionOf(b)
  BY <1>3, <1>4 DEF Holding, SessionOf
<1>8. HoldersLock'
  BY <1>2, <1>7 DEF IInv, HoldersLock
<1>9. RenewsOld'
  <2>1. ASSUME NEW b \in Actors, actor'[b].pc \in {"locking", "exchanging"}
        PROVE  actor'[b].token \in Pairs /\ age'[SessionOf(b)'][actor'[b].token] >= 1
    <3>1. CASE actor'[b] = actor[b]
      BY <2>1, <3>1, <1>2 DEF IInv, RenewsOld, SessionOf
    <3>2. CASE b = a
      BY <2>1, <3>2, <1>2, <1>3 DEF SessionOf
    <3>3. CASE b = Twin(a)
      BY <2>1, <3>3, <1>2, <1>3 DEF SessionOf
    <3> QED BY <1>4, <3>1, <3>2, <3>3
  <2> QED BY <2>1, <1>2 DEF IInv, RenewsOld
<1>10. NewestAccepted'
  BY <1>2 DEF IInv, NewestAccepted
<1>11. CarriesNewest'
  <2>1. ASSUME NEW b \in Actors
        PROVE  /\ ~At(b, "new")' => actor'[b].expired <= actor'[b].token
               /\ At(b, "storing")' => actor'[b].token = newest'[SessionOf(b)']
               /\ At(b, "storing")' => actor'[b].expired < actor'[b].token
               /\ ~At(b, "new")' /\ actor'[b].ok => actor'[b].expired < actor'[b].token
    <3>1. CASE actor'[b] = actor[b]
      BY <3>1, <1>2 DEF IInv, CarriesNewest, SessionOf, At
    <3>2. CASE b = a
      BY <3>2, <1>3 DEF At
    <3>3. CASE b = Twin(a)
      BY <3>3, <1>3 DEF At
    <3> QED BY <1>4, <3>1, <3>2, <3>3
  <2> QED BY <2>1 DEF CarriesNewest
<1>12. StoredIsCurrent'
  <2>1. \A b \in Actors : At(b, "storing") => At(b, "storing")' /\ SessionOf(b)' = SessionOf(b)
    BY <1>2, <1>4 DEF At, SessionOf
  <2> QED BY <2>1, <1>2 DEF IInv, StoredIsCurrent
<1>13. ServedRenewed'
  <2>1. ASSUME NEW b \in Actors, At(b, "over")', actor'[b].answer = "served"
        PROVE  actor'[b].token > actor'[b].expired
    <3>1. CASE actor'[b] = actor[b]
      BY <2>1, <3>1 DEF IInv, ServedRenewed, At
    <3>2. CASE b = a
      BY <2>1, <3>2, <1>3 DEF ActorState
    <3>3. CASE b = Twin(a)
      BY <2>1, <3>3, <1>3 DEF At
    <3> QED BY <1>4, <3>1, <3>2, <3>3
  <2> QED BY <2>1 DEF ServedRenewed
<1> QED BY <1>5, <1>6, <1>8, <1>9, <1>10, <1>11, <1>12, <1>13 DEF IInv

\* The four ways to arrive: no session, a fresh token, one near its expiry, an
\* expired one.
LEMMA ArriveInvariant ==
  ASSUME IInv, NEW a \in Actors, NEW s \in Sessions, Arrive(a, s)
  PROVE  IInv'
<1> DEFINE n == stored[s]
<1>1. /\ n \in 0 .. MaxTokens /\ age[s] \in [Pairs -> 0 .. 2]
      /\ n # 0 => n \in Pairs /\ age[s][n] \in {0, 1, 2}
  <2>1. n \in 0 .. MaxTokens /\ age[s] \in [Pairs -> 0 .. 2]
    BY DEF IInv, TypeOK
  <2>2. n # 0 => n \in Pairs
    BY <2>1, BoundsAssumption DEF Pairs
  <2> QED BY <2>1, <2>2
<1>2. /\ IsRequest(a) /\ At(a, "new") /\ Twin(a) \in Actors /\ Twin(a) # a
      /\ UNCHANGED <<stored, lock, oauthVars, logout, lost, faults>>
  BY DEF Arrive, Actors, Twin, IsRequest
<1>3. actor \in [Actors -> ActorState \cup {New}] /\ actor[Twin(a)] = New
  <2>1. actor \in [Actors -> ActorState \cup {New}] /\ At(Twin(a), "new")
    BY <1>2 DEF IInv, TypeOK, TwinsStart
  <2> QED BY <1>2, <2>1 DEF At, ActorState, Holding
<1>4. \A pc \in {"over", "locking"}, e \in {0, n}, answer \in {"expired", "served", "none"} :
        LET q == Started(s, pc, n, e, answer)
        IN  /\ q \in ActorState
            /\ q.pc = pc /\ q.session = s /\ q.token = n /\ q.expired = e /\ ~q.ok
            /\ q.answer = answer
  BY <1>1, BoundsAssumption DEF Started, ActorState
<1>5. CASE n = 0
  <2> DEFINE r == Started(s, "over", n, 0, "expired")
  <2>1. actor' = [actor EXCEPT ![a] = r]
    BY <1>5 DEF Arrive
  <2>2. r \in ActorState /\ r.pc = "over" /\ r.expired = 0 /\ r.token = 0 /\ ~r.ok /\ r.answer = "expired"
    BY <1>4, <1>5
  <2> HIDE DEF r
  <2>3. /\ actor' \in [Actors -> ActorState \cup {New}] /\ actor'[a] = r
        /\ actor'[Twin(a)] = New /\ \A b \in Actors : b # a => actor'[b] = actor[b]
    BY <1>2, <1>3, <2>1, <2>2
  <2> QED BY <1>2, <2>2, <2>3, Arrivals
<1>6. CASE n # 0 /\ age[s][n] = 0
  <2> DEFINE r == Started(s, "over", n, 0, "served")
  <2>1. actor' = [actor EXCEPT ![a] = r]
    BY <1>6 DEF Arrive
  <2>2. r \in ActorState /\ r.pc = "over" /\ r.expired = 0 /\ r.token = n /\ ~r.ok
    BY <1>4
  <2>3. 0 < n
    BY <1>1, <1>6
  <2> HIDE DEF r, n
  <2>4. /\ actor' \in [Actors -> ActorState \cup {New}] /\ actor'[a] = r
        /\ actor'[Twin(a)] = New /\ \A b \in Actors : b # a => actor'[b] = actor[b]
    BY <1>2, <1>3, <2>1, <2>2
  <2>5. r.expired <= r.token /\ r.expired < r.token
    BY <1>1, <2>2, <2>3
  <2> QED BY <1>2, <2>2, <2>4, <2>5, Arrivals
<1>7. CASE n # 0 /\ age[s][n] = 1
  <2> DEFINE r == Started(s, "over", n, 0, "served")
             t == Started(s, "locking", n, 0, "none")
  <2>1. actor' = [actor EXCEPT ![a] = r, ![Twin(a)] = t]
    BY <1>7 DEF Arrive
  <2>2. r \in ActorState /\ r.pc = "over" /\ r.expired = 0 /\ r.token = n /\ ~r.ok
    BY <1>4
  <2>3. /\ t \in ActorState /\ t.pc = "locking" /\ t.expired = 0 /\ t.token = n /\ ~t.ok
        /\ t.session = s /\ t.answer = "none"
    BY <1>4
  <2>4. 0 < n /\ n \in Pairs /\ age[s][n] >= 1
    BY <1>1, <1>7
  <2> HIDE DEF r, t, n
  <2>5. /\ actor' \in [Actors -> ActorState \cup {New}] /\ actor'[a] = r
        /\ actor'[Twin(a)] = t
        /\ \A b \in Actors : b # a /\ b # Twin(a) => actor'[b] = actor[b]
    BY <1>2, <1>3, <2>1, <2>2, <2>3
  <2>6. r.expired <= r.token /\ r.expired < r.token /\ t.expired <= t.token
    BY <1>1, <2>2, <2>3, <2>4
  <2> QED BY <1>2, <2>2, <2>3, <2>4, <2>5, <2>6, Arrivals
<1>8. CASE n # 0 /\ age[s][n] = 2
  <2> DEFINE r == Started(s, "locking", n, n, "none")
  <2>1. actor' = [actor EXCEPT ![a] = r]
    BY <1>8 DEF Arrive
  <2>2. /\ r \in ActorState /\ r.pc = "locking" /\ r.expired = n /\ r.token = n /\ ~r.ok
        /\ r.session = s /\ r.answer = "none"
    BY <1>4
  <2>3. n \in Pairs /\ age[s][n] >= 1
    BY <1>1, <1>8
  <2> HIDE DEF r, n
  <2>4. /\ actor' \in [Actors -> ActorState \cup {New}] /\ actor'[a] = r
        /\ actor'[Twin(a)] = New /\ \A b \in Actors : b # a => actor'[b] = actor[b]
    BY <1>2, <1>3, <2>1, <2>2
  <2>5. r.expired <= r.token
    BY <1>1, <2>2
  <2> QED BY <1>2, <2>2, <2>3, <2>4, <2>5, Arrivals
<1> QED BY <1>1, <1>5, <1>6, <1>7, <1>8

\* The invariant is inductive.
LEMMA StepInvariant == IInv /\ [Next]_vars => IInv'
<1> SUFFICES ASSUME IInv, [Next]_vars PROVE IInv'
  OBVIOUS
<1>1. ASSUME NEW a \in Actors, NEW s \in Sessions, Arrive(a, s) PROVE IInv'
  BY <1>1, ArriveInvariant
<1>2. ASSUME NEW a \in Actors, Step(a) PROVE IInv'
  <2>1. CASE TakeLock(a) \/ LockContended(a)
    BY <2>1, TakeLockInvariant, LockContendedInvariant
  <2>2. CASE RefreshAccepted(a) \/ RefreshRefused(a) \/ RefreshUnanswered(a)
    BY <2>2, RefreshAcceptedInvariant, RefreshRefusedInvariant, RefreshUnansweredInvariant
  <2>3. CASE Store(a) \/ Destroy(a) \/ Unlock(a)
    BY <2>3, StoreInvariant, DestroyInvariant, UnlockInvariant
  <2>4. CASE Poll(a) \/ Check(a)
    BY <2>4, PollInvariant, CheckInvariant
  <2>5. CASE WaitTimesOut(a)
    BY <2>5, WaitTimesOutInvariant DEF WaitTimesOut
  <2> QED BY <1>2, <2>1, <2>2, <2>3, <2>4, <2>5 DEF Step
<1>3. ASSUME NEW a \in Actors, Die(a) PROVE IInv'
  BY <1>3, DieInvariant
<1>4. ASSUME NEW s \in Sessions, LogoutStep(s) \/ GrantEnds(s) PROVE IInv'
  BY <1>4, LogoutInvariant
<1>5. ASSUME NEW s \in Sessions, LockExpires(s) PROVE IInv'
  BY <1>5, LockExpiresInvariant
<1>6. ASSUME NEW s \in Sessions, NEW n \in Pairs, Tick(s, n) PROVE IInv'
  BY <1>6, TickInvariant
<1>7. CASE UNCHANGED vars
  BY <1>7 DEF IInv, TypeOK, TwinsStart, HoldersLock, RenewsOld, NewestAccepted, CarriesNewest,
     StoredIsCurrent, ServedRenewed, vars, oauthVars, At, SessionOf
<1> QED BY <1>1, <1>2, <1>3, <1>4, <1>5, <1>6, <1>7 DEF Next

\* Only Store puts a pair into Redis, and what it puts is OAuth's newest.
LEMMA StepForward ==
  ASSUME IInv, [Next]_vars, NEW s \in Sessions, stored[s] # 0, stored'[s] # 0
  PROVE  stored[s] <= stored'[s]
<1>1. stored \in [Sessions -> 0 .. MaxTokens] /\ stored[s] \in Int
  BY DEF IInv, TypeOK
<1>2. CASE \E a \in Actors : Store(a)
  <2>1. PICK a \in Actors : Store(a)
    BY <1>2
  <2>2. actor[a].token = newest[SessionOf(a)]
    BY <2>1 DEF Store, IInv, CarriesNewest
  <2>3. CASE SessionOf(a) = s
    <3>1. stored'[s] = newest[s]
      BY <1>1, <2>1, <2>2, <2>3 DEF Store
    <3> QED BY <3>1 DEF IInv, NewestAccepted
  <2>4. CASE SessionOf(a) # s
    BY <1>1, <2>1, <2>4 DEF Store
  <2> QED BY <2>3, <2>4
<1>3. CASE ~\E a \in Actors : Store(a)
  <2>1. stored' = stored \/ \E t : stored' = [stored EXCEPT ![t] = 0]
    BY <1>3 DEF Next, Step, Arrive, TakeLock, LockContended, RefreshAccepted, RefreshRefused,
       RefreshUnanswered, Destroy, Unlock, Poll, WaitTimesOut, Check, Die, LogoutStep,
       LogoutReads, LogoutDeletes, LogoutRevokes, Purge, GrantEnds, LockExpires, Tick, vars
  <2> QED BY <1>1, <2>1
<1> QED BY <1>2, <1>3

-----------------------------------------------------------------------------
(***************************************************************************)
(* Theorems.                                                               *)
(***************************************************************************)
\* The invariant holds in every behaviour of the middleware.
THEOREM Invariant == Spec => []IInv
<1>1. Init => IInv
  BY InitInvariant
<1>2. IInv /\ [Next]_vars => IInv'
  BY StepInvariant
<1> QED BY <1>1, <1>2, PTL DEF Spec

\* Every variable keeps its type, and a goroutine neither waits nor answers.
THEOREM TypeCorrect == Spec => []TypeOK
<1>1. IInv => TypeOK
  BY DEF IInv
<1> QED BY <1>1, Invariant, PTL

\* refreshOAuthToken runs once at a time for a session, although whoever leaves it
\* deletes the lock without looking whose it is.
THEOREM RefreshesOnce == Spec => []OneRefreshAtATime
<1>1. IInv => OneRefreshAtATime
  BY OneHolder DEF IInv
<1> QED BY <1>1, Invariant, PTL

\* The session in Redis holds the token OAuth accepts, unless a new one is on its
\* way or got lost.
THEOREM KeepsCurrent == Spec => []StoredIsCurrent
<1>1. IInv => StoredIsCurrent
  BY DEF IInv
<1> QED BY <1>1, Invariant, PTL

\* No request is served with the access token it found expired, or an older one.
THEOREM ServesRenewed == Spec => []ServedRenewed
<1>1. IInv => ServedRenewed
  BY DEF IInv
<1> QED BY <1>1, Invariant, PTL

\* No step puts an older token pair into a session.
THEOREM GoesForward == Spec => NeverGoesBack
<1>1. IInv /\ [Next]_vars =>
        [\A s \in Sessions : stored[s] # 0 /\ stored'[s] # 0 => stored[s] <= stored'[s]]_vars
  BY StepForward
<1> QED BY <1>1, Invariant, PTL DEF Spec, NeverGoesBack
=============================================================================
