------------------------------ MODULE SessionAuth ------------------------------
(***************************************************************************)
(* The session middleware: internal/middleware/auth.go, with Logout of     *)
(* internal/auth/handler.                                                  *)
(*                                                                         *)
(* A session in Redis holds an OAuth access token, its expiry and the      *)
(* refresh token to renew it with.  OAuth rotates the refresh token: each  *)
(* renewal returns the next one and kills the last.  Tokens are numbered,  *)
(* n + 1 being what n is exchanged for; a session holds one number.        *)
(*                                                                         *)
(* The requests of one page arrive together.  A request that finds its     *)
(* access token expired renews it under the lock lock:refresh:<session>,   *)
(* or waits for whoever holds the lock; one that finds it close to expiry  *)
(* is served and leaves the renewal to a goroutine (its "bg" twin).        *)
(***************************************************************************)
EXTENDS Integers, FiniteSets

CONSTANTS
  Requests,
  Sessions,
  NoOne,        (* the lock is free                                         *)
  MaxTokens,    (* bound: token pairs a session goes through                *)
  MaxFaults     (* bound: unreachable OAuth, dead processes                 *)

ASSUME ActorsAssumption == Requests # {} /\ NoOne \notin Requests \X {"fg", "bg"}
ASSUME BoundsAssumption == MaxTokens \in Nat \ {0} /\ MaxFaults \in Nat

VARIABLES
  stored,   (* moyu:session:<s>: the token pair it holds, 0 if there is none *)
  lock,     (* lock:refresh:<s>: its holder                                 *)
  current,  (* OAuth: the refresh token it accepts, 0 once revoked          *)
  newest,   (* OAuth: the last pair it handed out                           *)
  age,      (* of an access token: 0, then 1 (near expiry), then 2 (expired)*)
  actor,    (* each request, and its background goroutine                   *)
  logout,   (* each session's logout, and whether its user was purged       *)
  lost,     (* history: sessions for which a new pair got lost on the way   *)
  faults

vars == <<stored, lock, current, newest, age, actor, logout, lost, faults>>
oauthVars == <<current, newest, age>>

Actors == Requests \X {"fg", "bg"}
Pairs == 1 .. MaxTokens
New == [pc |-> "new"]
IsRequest(a) == a[2] = "fg"
Twin(a) == <<a[1], "bg">>

At(a, pc) == actor[a].pc = pc
Goes(a, pc) == actor' = [actor EXCEPT ![a].pc = pc]
SessionOf(a) == actor[a].session

\* A request ends with an answer; a goroutine just ends.
Ends(a, answer) ==
  actor' = [actor EXCEPT ![a].pc = "over", ![a].answer = IF IsRequest(a) THEN answer ELSE "none"]

-----------------------------------------------------------------------------
Init ==
  /\ stored = [s \in Sessions |-> 1]
  /\ lock = [s \in Sessions |-> NoOne]
  /\ current = [s \in Sessions |-> 1]
  /\ newest = [s \in Sessions |-> 1]
  /\ age = [s \in Sessions |-> [n \in Pairs |-> 0]]
  /\ actor = [a \in Actors |-> New]
  /\ logout = [s \in Sessions |-> [pc |-> "no", token |-> 0, purged |-> FALSE]]
  /\ lost = {}
  /\ faults = 0

\* expired: the pair whose access token it found expired, 0 if it was usable.
Started(s, pc, n, expired, answer) ==
  [pc |-> pc, session |-> s, token |-> n, expired |-> expired, ok |-> FALSE, answer |-> answer]

\* The request reads its session and looks at the expiry.
Arrive(a, s) ==
  LET n == stored[s]
  IN  /\ IsRequest(a) /\ At(a, "new")
      /\ actor' =
           IF n = 0
             THEN [actor EXCEPT ![a] = Started(s, "over", n, 0, "expired")]
             ELSE CASE age[s][n] = 0 ->
                         [actor EXCEPT ![a] = Started(s, "over", n, 0, "served")]
                    [] age[s][n] = 1 ->
                         [actor EXCEPT ![a] = Started(s, "over", n, 0, "served"),
                                       ![Twin(a)] = Started(s, "locking", n, 0, "none")]
                    [] age[s][n] = 2 ->
                         [actor EXCEPT ![a] = Started(s, "locking", n, n, "none")]
      /\ UNCHANGED <<stored, lock, oauthVars, logout, lost, faults>>

(***************************************************************************)
(* refreshOAuthToken                                                       *)
(***************************************************************************)
\* A mutant of TakeLock: SET without NX.
TakeLockAnyway(a) ==
  /\ At(a, "locking")
  /\ lock' = [lock EXCEPT ![SessionOf(a)] = a]
  /\ Goes(a, "exchanging")
  /\ UNCHANGED <<stored, oauthVars, logout, lost, faults>>

TakeLock(a) ==
  /\ At(a, "locking")
  /\ lock[SessionOf(a)] = NoOne
  /\ lock' = [lock EXCEPT ![SessionOf(a)] = a]
  /\ Goes(a, "exchanging")
  /\ UNCHANGED <<stored, oauthVars, logout, lost, faults>>

LockContended(a) ==
  /\ At(a, "locking")
  /\ lock[SessionOf(a)] # NoOne
  /\ IF IsRequest(a) THEN Goes(a, "waiting") ELSE Ends(a, "none")
  /\ UNCHANGED <<stored, lock, oauthVars, logout, lost, faults>>

\* OAuth accepts the refresh token it handed out last, and rotates it.
Accepted(a) == actor[a].token = current[SessionOf(a)]

RefreshAccepted(a) ==
  LET s == SessionOf(a)
  IN  /\ At(a, "exchanging")
      /\ Accepted(a)
      /\ newest' = [newest EXCEPT ![s] = @ + 1]
      /\ current' = [current EXCEPT ![s] = newest[s] + 1]
      /\ actor' = [actor EXCEPT ![a].pc = "storing", ![a].token = newest[s] + 1]
      /\ UNCHANGED <<stored, lock, age, logout, lost, faults>>

RefreshRefused(a) ==
  /\ At(a, "exchanging")
  /\ ~Accepted(a)
  /\ Goes(a, "destroying")
  /\ UNCHANGED <<stored, lock, oauthVars, logout, lost, faults>>

\* No usable answer; OAuth may have rotated the token all the same.
RefreshUnanswered(a) ==
  LET s == SessionOf(a)
  IN  /\ At(a, "exchanging")
      /\ faults < MaxFaults
      /\ faults' = faults + 1
      /\ \/ UNCHANGED <<current, newest, lost>>
         \/ /\ Accepted(a)
            /\ newest' = [newest EXCEPT ![s] = @ + 1]
            /\ current' = [current EXCEPT ![s] = newest[s] + 1]
            /\ lost' = lost \cup {s}
      /\ Goes(a, "unlocking")
      /\ UNCHANGED <<stored, lock, age, logout>>

\* A mutant of Store: the access token is renewed, the refresh token is not.
StoreOld(a) ==
  /\ At(a, "storing")
  /\ actor' = [actor EXCEPT ![a].pc = "unlocking", ![a].ok = TRUE]
  /\ UNCHANGED <<stored, lock, oauthVars, logout, lost, faults>>

\* SET moyu:session:<s>, whether or not the key still exists.
Store(a) ==
  /\ At(a, "storing")
  /\ stored' = [stored EXCEPT ![SessionOf(a)] = actor[a].token]
  /\ actor' = [actor EXCEPT ![a].pc = "unlocking", ![a].ok = TRUE]
  /\ UNCHANGED <<lock, oauthVars, logout, lost, faults>>

Destroy(a) ==
  /\ At(a, "destroying")
  /\ stored' = [stored EXCEPT ![SessionOf(a)] = 0]
  /\ Goes(a, "unlocking")
  /\ UNCHANGED <<lock, oauthVars, logout, lost, faults>>

\* The deferred DEL of the lock key, whoever holds it.
Unlock(a) ==
  /\ At(a, "unlocking")
  /\ lock' = [lock EXCEPT ![SessionOf(a)] = NoOne]
  /\ IF actor[a].ok THEN Ends(a, "served")
     ELSE IF IsRequest(a) THEN Goes(a, "checking") ELSE Ends(a, "none")
  /\ UNCHANGED <<stored, oauthVars, logout, lost, faults>>

(***************************************************************************)
(* waitForRefreshedSession, and the answer when there is no fresh token.   *)
(***************************************************************************)
\* A mutant of Poll: the same expiry counts as renewed.
PollSame(a) ==
  LET n == stored[SessionOf(a)]
  IN  /\ At(a, "waiting")
      /\ \/ n = 0 /\ Goes(a, "checking")
         \/ n >= actor[a].token /\
            actor' = [actor EXCEPT ![a].pc = "over", ![a].token = n, ![a].answer = "served"]
      /\ UNCHANGED <<stored, lock, oauthVars, logout, lost, faults>>

\* A poll that finds the session gone, or renewed.
Poll(a) ==
  LET n == stored[SessionOf(a)]
  IN  /\ At(a, "waiting")
      /\ \/ n = 0 /\ Goes(a, "checking")
         \/ n > actor[a].token /\
            actor' = [actor EXCEPT ![a].pc = "over", ![a].token = n, ![a].answer = "served"]
      /\ UNCHANGED <<stored, lock, oauthVars, logout, lost, faults>>

\* A mutant of WaitTimesOut: the wait is over only while somebody refreshes.
WaitWhileLocked(a) ==
  /\ At(a, "waiting") /\ lock[SessionOf(a)] # NoOne
  /\ Goes(a, "checking")
  /\ UNCHANGED <<stored, lock, oauthVars, logout, lost, faults>>

\* Three seconds are over.
WaitTimesOut(a) ==
  /\ At(a, "waiting")
  /\ Goes(a, "checking")
  /\ UNCHANGED <<stored, lock, oauthVars, logout, lost, faults>>

\* The cookie is cleared only if the session is gone.
Check(a) ==
  /\ At(a, "checking")
  /\ Ends(a, IF stored[SessionOf(a)] = 0 THEN "kicked" ELSE "retry")
  /\ UNCHANGED <<stored, lock, oauthVars, logout, lost, faults>>

(***************************************************************************)
(* Logout, and what happens around the middleware.                         *)
(***************************************************************************)
\* The handler reads the refresh token it will revoke ...
LogoutReads(s) ==
  /\ logout[s].pc = "no" /\ stored[s] # 0
  /\ logout' = [logout EXCEPT ![s].pc = "deleting", ![s].token = stored[s]]
  /\ UNCHANGED <<stored, lock, oauthVars, actor, lost, faults>>

\* ... deletes the session ...
LogoutDeletes(s) ==
  /\ logout[s].pc = "deleting"
  /\ stored' = [stored EXCEPT ![s] = 0]
  /\ logout' = [logout EXCEPT ![s].pc = "revoking"]
  /\ UNCHANGED <<lock, oauthVars, actor, lost, faults>>

\* ... and a goroutine revokes the token, without effect once it is rotated.
LogoutRevokes(s) ==
  /\ logout[s].pc \in {"deleting", "revoking"} /\ logout[s].token # 0
  /\ current' = [current EXCEPT ![s] = IF @ = logout[s].token THEN 0 ELSE @]
  /\ logout' = [logout EXCEPT ![s].token = 0]
  /\ UNCHANGED <<stored, lock, newest, age, actor, lost, faults>>

\* An administrator purges the user: RevokeUserSessions finds and deletes the key.
Purge(s) ==
  /\ stored[s] # 0 /\ ~logout[s].purged
  /\ stored' = [stored EXCEPT ![s] = 0]
  /\ logout' = [logout EXCEPT ![s].purged = TRUE]
  /\ UNCHANGED <<lock, oauthVars, actor, lost, faults>>

\* OAuth ends the grant: a ban, or a logout elsewhere.
GrantEnds(s) ==
  /\ current[s] # 0
  /\ current' = [current EXCEPT ![s] = 0]
  /\ UNCHANGED <<stored, lock, newest, age, actor, logout, lost, faults>>

\* Time passes; an earlier pair is never younger than a later one.  The last pair
\* of the bound stays fresh, so that every renewal asked for is within it.
Tick(s, n) ==
  /\ n <= newest[s] /\ n < MaxTokens /\ age[s][n] < 2
  /\ \A m \in 1 .. n - 1 : age[s][m] > age[s][n] \/ age[s][m] = 2
  /\ age' = [age EXCEPT ![s][n] = @ + 1]
  /\ UNCHANGED <<stored, lock, current, newest, actor, logout, lost, faults>>

\* The process dies; a lock it holds stays until it expires.
Die(a) ==
  /\ actor[a].pc \notin {"new", "over", "dead"} /\ faults < MaxFaults
  /\ faults' = faults + 1
  /\ lost' = IF At(a, "storing") THEN lost \cup {SessionOf(a)} ELSE lost
  /\ Goes(a, "dead")
  /\ UNCHANGED <<stored, lock, oauthVars, logout>>

\* The lock lives 30 seconds, longer than a holder that is alive keeps it (the
\* exchange is given up after 10).
LockExpires(s) ==
  /\ lock[s] # NoOne /\ At(lock[s], "dead")
  /\ lock' = [lock EXCEPT ![s] = NoOne]
  /\ UNCHANGED <<stored, oauthVars, actor, logout, lost, faults>>

-----------------------------------------------------------------------------
Step(a) ==
  \/ TakeLock(a) \/ LockContended(a)
  \/ RefreshAccepted(a) \/ RefreshRefused(a) \/ RefreshUnanswered(a)
  \/ Store(a) \/ Destroy(a) \/ Unlock(a)
  \/ Poll(a) \/ WaitTimesOut(a) \/ Check(a)

LogoutStep(s) == LogoutReads(s) \/ LogoutDeletes(s) \/ LogoutRevokes(s) \/ Purge(s)

Next ==
  \/ \E a \in Actors : (\E s \in Sessions : Arrive(a, s)) \/ Step(a) \/ Die(a)
  \/ \E s \in Sessions : \/ LogoutStep(s) \/ GrantEnds(s) \/ LockExpires(s)
                         \/ \E n \in Pairs : Tick(s, n)

\* A handler that runs goes on, a wait ends, an abandoned lock expires.
Fairness ==
  /\ \A a \in Actors : WF_vars(Step(a))
  /\ \A s \in Sessions : WF_vars(LockExpires(s))

Spec == Init /\ [][Next]_vars
FairSpec == Spec /\ Fairness

-----------------------------------------------------------------------------
(***************************************************************************)
(* Properties.                                                             *)
(***************************************************************************)
Holding == {"exchanging", "storing", "destroying", "unlocking"}
ActorState ==
  [pc : Holding \cup {"locking", "waiting", "checking", "over", "dead"},
   session : Sessions, token : 0 .. MaxTokens, expired : 0 .. MaxTokens, ok : BOOLEAN,
   answer : {"none", "served", "expired", "kicked", "retry"}]

\* Every variable has its type; a goroutine neither waits nor answers.
TypeOK ==
  /\ stored \in [Sessions -> 0 .. MaxTokens]
  /\ lock \in [Sessions -> Actors \cup {NoOne}]
  /\ current \in [Sessions -> 0 .. MaxTokens]
  /\ newest \in [Sessions -> Pairs]
  /\ age \in [Sessions -> [Pairs -> 0 .. 2]]
  /\ actor \in [Actors -> ActorState \cup {New}]
  /\ \A a \in Actors : ~IsRequest(a) /\ ~At(a, "new") =>
       actor[a].answer = "none" /\ actor[a].pc \notin {"waiting", "checking"}
  /\ logout \in [Sessions -> [pc : {"no", "deleting", "revoking"}, token : 0 .. MaxTokens,
                              purged : BOOLEAN]]
  /\ lost \subseteq Sessions
  /\ faults \in 0 .. MaxFaults

\* "Only one refresh of a session at a time": the unconditional DEL of the lock
\* never frees somebody else's.
OneRefreshAtATime ==
  \A a, b \in Actors :
    actor[a].pc \in Holding /\ actor[b].pc \in Holding /\ SessionOf(a) = SessionOf(b)
      => a = b

\* The session holds the one refresh token OAuth still accepts, unless a new
\* pair is on its way to Redis or got lost before it reached it.
StoredIsCurrent ==
  \A s \in Sessions :
    /\ stored[s] # 0 /\ current[s] # 0 /\ s \notin lost
    /\ ~\E a \in Actors : At(a, "storing") /\ SessionOf(a) = s
    => stored[s] = current[s]

\* A request that found its access token expired is never served with that
\* token, nor with an older one: only with one handed out after it arrived.
ServedRenewed ==
  \A a \in Actors :
    At(a, "over") /\ actor[a].answer = "served" => actor[a].token > actor[a].expired

\* A session in Redis never goes back to an older token pair.
NeverGoesBack ==
  [][\A s \in Sessions : stored[s] # 0 /\ stored'[s] # 0 => stored[s] <= stored'[s]]_vars

\* Every request is answered, also when it waits for a holder that died.
EveryRequestAnswered ==
  \A a \in Actors :
    (IsRequest(a) /\ actor[a].pc # "new") ~> actor[a].pc \in {"over", "dead"}

\* docs/proj/session-lifetime.md: a failed renewal clears the cookie only if "the
\* session is really dead" - logged out, purged, its grant ended or its pair lost.
OnlyDeadSessionsAreCleared ==
  \A a \in Actors :
    At(a, "over") /\ actor[a].answer = "kicked" =>
      LET s == SessionOf(a)
      IN  logout[s].pc # "no" \/ logout[s].purged \/ current[s] = 0 \/ s \in lost
=============================================================================
