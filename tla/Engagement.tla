------------------------------ MODULE Engagement ------------------------------
(***************************************************************************)
(* What users do to one another's work, and the counters and points that   *)
(* follow: likes (ToggleResourceLike, ToggleCommentLike in                 *)
(* internal/patch/service/service.go), favourites, which are memberships   *)
(* in the folders a user keeps in the catalog (internal/patch/service/     *)
(* folders.go), follows and the daily check-in (internal/user); and what   *)
(* the purge of a user (internal/admin) does to all that.                  *)
(*                                                                         *)
(* One author, who may be among those who act, owns everything that is     *)
(* liked or favourited; one patch, of one work, has its row.               *)
(***************************************************************************)
EXTENDS Awarder, FiniteSetsExt

CONSTANTS
  Workers,     (* requests served at the same time                          *)
  Author, Fans,
  Contents,    (* resources and comments                                    *)
  Folders,     (* of each user, in the catalog                              *)
  Default,     (* the one the heart button fills                            *)
  Points,      (* what a check-in may bring                                 *)
  Approvals,   (* claim events that approve a work                          *)
  Adjustments, (* what others may do to a balance                           *)
  MaxDays,     (* bound: midnights                                          *)
  MaxRequests  (* bound: requests, and what else happens to folders and     *)
               (* balances                                                  *)

ASSUME UsersAssumption == Fans \subseteq Users /\ Author \in Users
ASSUME AdjustmentsAssumption == Adjustments \subseteq Int
ASSUME FoldersAssumption == Default \in Folders
ASSUME PointsAssumption == Points \subseteq Nat
ASSUME RoomAssumption == Slots = 1 .. MaxRequests
ASSUME BoundsAssumption == MaxDays \in Nat /\ MaxRequests \in Nat

VARIABLES
  like,       (* the like relation: id of the row of each user, or 0        *)
  likeIds,    (* its id sequence                                            *)
  likeCount,  (* like_count of each content                                 *)
  follows,    (* user_follow_relation: <<follower, following>>              *)
  following,  (* user.following_count                                       *)
  followers,  (* user.follower_count                                        *)
  purged,     (* users whose row, with its counters, is gone                *)
  checkedIn,  (* users whose daily_check_in is 1                            *)
  holding,    (* catalog: each user's folders that hold the work            *)
  favorites,  (* patch.favorite_count                                       *)
  worker,
  earned,     (* history: what check-ins were told they brought             *)
  late,       (* history: a check-in stretched over midnight                *)
  serial,     (* history: no two requests have overlapped                   *)
  elsewhere,  (* history: folders were changed, but not here                *)
  days, requests

likes == <<like, likeIds, likeCount>>
followings == <<follows, following, followers, purged>>
checkins == <<checkedIn, earned, late, days>>
favourites == <<holding, favorites, elsewhere>>
vars == <<awardVars, likes, followings, checkins, favourites, worker, serial, requests>>

Idle == [pc |-> "idle"]
At(w, pc) == worker[w].pc = pc
Goes(w, pc) == worker' = [worker EXCEPT ![w].pc = pc]
Over(w) == worker' = [worker EXCEPT ![w] = Idle]
Less(n) == IF n = 0 THEN 0 ELSE n - 1   \* GREATEST(n - 1, 0)

Starts(w, task) ==
  /\ At(w, "idle") /\ requests < MaxRequests
  /\ worker' = [worker EXCEPT ![w] = task]
  /\ requests' = requests + 1
  /\ serial' = (serial /\ \A v \in Workers : At(v, "idle"))

Init ==
  /\ AwardInit
  /\ like = [c \in Contents |-> [u \in Fans |-> 0]]
  /\ likeIds = 0 /\ likeCount = [c \in Contents |-> 0]
  /\ follows = {}
  /\ following = [u \in Users |-> 0] /\ followers = [u \in Users |-> 0]
  /\ checkedIn = {} /\ earned = [u \in Fans |-> 0] /\ late = FALSE /\ days = 0
  /\ holding = [u \in Fans |-> {}] /\ favorites = 0 /\ elsewhere = FALSE
  /\ purged = {}
  /\ worker = [w \in Workers |-> Idle]
  /\ serial = TRUE /\ requests = 0

-----------------------------------------------------------------------------
(***************************************************************************)
(* Likes of a resource; those of a comment are written alike.              *)
(***************************************************************************)
\* The content and the user's relation are read.
ToggleLike(w, u, c) ==
  /\ Starts(w, [pc |-> IF like[c][u] = 0 THEN "liking" ELSE "unliking",
                user |-> u, content |-> c, rel |-> like[c][u]])
  /\ UNCHANGED <<awardVars, likes, followings, checkins, favourites>>

\* A second relation is refused by the unique index, that of nobody by the foreign key;
\* either goes unnoticed.
CreateLike(w) ==
  LET t == worker[w]  id == likeIds + 1
  IN  /\ At(w, "liking")
      /\ likeIds' = id
      /\ IF like[t.content][t.user] = 0 /\ t.user \notin purged
           THEN /\ like' = [like EXCEPT ![t.content][t.user] = id]
                /\ worker' = [worker EXCEPT ![w].pc = "liked", ![w].rel = id]
           ELSE Goes(w, "liked") /\ UNCHANGED like
      /\ UNCHANGED <<awardVars, likeCount, followings, checkins, favourites, serial, requests>>

\* By id, whether it is still there or not.
DeleteLike(w) ==
  LET t == worker[w]
  IN  /\ At(w, "unliking")
      /\ like' = [like EXCEPT ![t.content][t.user] = IF @ = t.rel THEN 0 ELSE @]
      /\ Goes(w, "unliked")
      /\ UNCHANGED <<awardVars, likeIds, likeCount, followings, checkins, favourites,
                     serial, requests>>

\* Nobody is paid for liking what is his.
AwardLike(user, delta, key) == Award(Author, IF user = Author THEN 0 ELSE delta, key)

\* Mutant: an unlike does not lower the count.
CountLikesOnly(w) ==
  LET t == worker[w]
  IN  /\ At(w, "liked") \/ At(w, "unliked")
      /\ IF At(w, "liked")
           THEN /\ likeCount' = [likeCount EXCEPT ![t.content] = @ + 1]
                /\ AwardLike(t.user, 1, <<"like", t.content, t.rel>>)
           ELSE UNCHANGED likeCount /\ AwardLike(t.user, -1, <<"unlike", t.content, t.rel>>)
      /\ Over(w)
      /\ UNCHANGED <<ledger, entries, moemoepoint, since, faults, like, likeIds, followings,
                     checkins, favourites, serial, requests>>

\* like_count, and the award for the relation's id, which is 0 if the insert was refused.
CountLike(w) ==
  LET t == worker[w]
  IN  /\ At(w, "liked") \/ At(w, "unliked")
      /\ IF At(w, "liked")
           THEN /\ likeCount' = [likeCount EXCEPT ![t.content] = @ + 1]
                /\ AwardLike(t.user, 1, <<"like", t.content, t.rel>>)
           ELSE /\ likeCount' = [likeCount EXCEPT ![t.content] = Less(@)]
                /\ AwardLike(t.user, -1, <<"unlike", t.content, t.rel>>)
      /\ Over(w)
      /\ UNCHANGED <<ledger, entries, moemoepoint, since, faults, like, likeIds, followings,
                     checkins, favourites, serial, requests>>

(***************************************************************************)
(* Follows: the relation and both counters in one transaction.             *)
(***************************************************************************)
\* FindFollow
Follow(w, u, v) ==
  /\ u # v /\ <<u, v>> \notin follows
  /\ Starts(w, [pc |-> "following", user |-> u, other |-> v])
  /\ UNCHANGED <<awardVars, likes, followings, checkins, favourites>>

\* CreateFollowAndIncrement rolls back if the relation is there by now, or one of the two
\* is not.
CreateFollow(w) ==
  LET u == worker[w].user  v == worker[w].other
  IN  /\ At(w, "following")
      /\ IF <<u, v>> \in follows \/ u \in purged \/ v \in purged
           THEN UNCHANGED followings
           ELSE /\ follows' = follows \cup {<<u, v>>}
                /\ following' = [following EXCEPT ![u] = @ + 1]
                /\ followers' = [followers EXCEPT ![v] = @ + 1]
                /\ UNCHANGED purged
      /\ Over(w)
      /\ UNCHANGED <<awardVars, likes, checkins, favourites, serial, requests>>

\* Mutant: the counters are lowered although no relation was deleted.
UnfollowAnyway(w, u, v) ==
  /\ Starts(w, Idle)
  /\ follows' = follows \ {<<u, v>>}
  /\ following' = [following EXCEPT ![u] = Less(@)]
  /\ followers' = [followers EXCEPT ![v] = Less(@)]
  /\ UNCHANGED <<awardVars, likes, purged, checkins, favourites>>

\* DeleteFollowAndDecrement: nothing if no row was deleted.
Unfollow(w, u, v) ==
  /\ Starts(w, Idle)
  /\ IF <<u, v>> \in follows
       THEN /\ follows' = follows \ {<<u, v>>}
            /\ following' = [following EXCEPT ![u] = Less(@)]
            /\ followers' = [followers EXCEPT ![v] = Less(@)]
            /\ UNCHANGED purged
       ELSE UNCHANGED followings
  /\ UNCHANGED <<awardVars, likes, checkins, favourites>>

(***************************************************************************)
(* The check-in.                                                           *)
(***************************************************************************)
\* UPDATE ... WHERE daily_check_in = 0; whoever changed no row is refused.
CheckIn(w, u) ==
  /\ u \notin checkedIn
  /\ checkedIn' = checkedIn \cup {u}
  /\ Starts(w, [pc |-> "dating", user |-> u])
  /\ UNCHANGED <<awardVars, likes, followings, earned, late, days, favourites>>

\* Mutant: the award's key is the same on every day.
PayCheckInOnce(w) ==
  LET u == worker[w].user
  IN  /\ At(w, "dating")
      /\ \E p \in Points : /\ Award(u, p, <<"checkin", u>>)
                           /\ earned' = [earned EXCEPT ![u] = @ + p]
      /\ Over(w)
      /\ UNCHANGED <<ledger, entries, moemoepoint, since, faults, likes, followings, checkedIn,
                     late, days, favourites, serial, requests>>

\* The points and the date of the award's key.
PayCheckIn(w) ==
  LET u == worker[w].user
  IN  /\ At(w, "dating")
      /\ \E p \in Points : /\ Award(u, p, <<"checkin", u, days>>)
                           /\ earned' = [earned EXCEPT ![u] = @ + p]
      /\ Over(w)
      /\ UNCHANGED <<ledger, entries, moemoepoint, since, faults, likes, followings, checkedIn,
                     late, days, favourites, serial, requests>>

DailyReset ==
  /\ days < MaxDays /\ days' = days + 1
  /\ checkedIn' = {}
  /\ late' = (late \/ \E w \in Workers : At(w, "dating"))
  /\ UNCHANGED <<awardVars, likes, followings, earned, favourites, worker, serial, requests>>

(***************************************************************************)
(* Favourites.                                                             *)
(***************************************************************************)
FolderTask(u, put, drop, delta) ==
  [pc |-> "filing", user |-> u, put |-> put, drop |-> drop, delta |-> delta]

\* The heart button: out of all folders, or into the default one.
ToggleFavorite(w, u) ==
  /\ Starts(w, IF holding[u] # {} THEN FolderTask(u, {}, holding[u], -1)
                                  ELSE FolderTask(u, {Default}, {}, 1))
  /\ UNCHANGED <<awardVars, likes, followings, checkins, favourites>>

\* The picker: exactly these folders.  What the work's membership changes is decided here.
SetPatchFolders(w, u, want) ==
  LET current == holding[u]
      delta == CASE current = {} /\ want # {} -> 1
                 [] current # {} /\ want = {} -> -1
                 [] OTHER -> 0
  IN  /\ Starts(w, FolderTask(u, want \ current, current \ want, delta))
      /\ UNCHANGED <<awardVars, likes, followings, checkins, favourites>>

\* One folder after the other, first those to put it in.
PutFolderItem(w) ==
  LET t == worker[w]
  IN  /\ At(w, "filing")
      /\ \E f \in t.put :
           /\ holding' = [holding EXCEPT ![t.user] = @ \cup {f}]
           /\ worker' = [worker EXCEPT ![w].put = @ \ {f}]
      /\ UNCHANGED <<awardVars, likes, followings, checkins, favorites, elsewhere,
                     serial, requests>>

DeleteFolderItem(w) ==
  LET t == worker[w]
  IN  /\ At(w, "filing") /\ t.put = {}
      /\ \E f \in t.drop :
           /\ holding' = [holding EXCEPT ![t.user] = @ \ {f}]
           /\ worker' = [worker EXCEPT ![w].drop = @ \ {f}]
      /\ UNCHANGED <<awardVars, likes, followings, checkins, favorites, elsewhere,
                     serial, requests>>

\* settleFavoriteSideEffects: favorite_count, then the award, under a key that is the same
\* for every user and every time, also for the author's own favourite.
SettleFavorite(w) ==
  LET t == worker[w]  delta == t.delta
  IN  /\ At(w, "filing") /\ t.put = {} /\ t.drop = {}
      /\ favorites' = CASE delta = 1 -> favorites + 1
                        [] delta = -1 -> Less(favorites)
                        [] delta = 0 -> favorites
      /\ Award(Author, delta, <<"favorite", delta>>)
      /\ Over(w)
      /\ UNCHANGED <<ledger, entries, moemoepoint, since, faults, likes, followings, checkins,
                     holding, elsewhere, serial, requests>>

\* A folder is filled or emptied on another site, or deleted as a whole.
ChangeElsewhere(u) ==
  /\ requests < MaxRequests /\ requests' = requests + 1
  /\ elsewhere' = TRUE
  /\ \E f \in Folders :
       holding' = [holding EXCEPT ![u] = IF f \in @ THEN @ \ {f} ELSE @ \cup {f}]
  /\ UNCHANGED <<awardVars, likes, followings, checkins, favorites, worker, serial>>

\* The other writers of the mirror, and what happens to the balances.
Accounts(u) ==
  /\ requests < MaxRequests /\ requests' = requests + 1
  /\ \/ \E e \in Approvals : PayClaim(u, e)
     \/ SyncBalance(u)
     \/ \E d \in Adjustments : AdjustedElsewhere(u, d, <<"elsewhere", requests>>)
  /\ UNCHANGED <<likes, followings, checkins, favourites, worker, serial>>

\* PurgeUser, of somebody whose works are not in the module: the relations go with the user,
\* and what they were counted in is counted again.  favorite_count is so from a relation that
\* is no longer written, for the patches the user left anything else with.
PurgeUser(u) ==
  LET left == {f \in follows : u \notin {f[1], f[2]}}
      peers == {v \in Users : <<u, v>> \in follows \/ <<v, u>> \in follows} \cup {u}
  IN  /\ u \notin purged
      /\ requests < MaxRequests /\ requests' = requests + 1
      /\ purged' = purged \cup {u}
      /\ follows' = left
      /\ following' = [v \in Users |-> IF v \in peers THEN Cardinality({f \in left : f[1] = v})
                                                       ELSE following[v]]
      /\ followers' = [v \in Users |-> IF v \in peers THEN Cardinality({f \in left : f[2] = v})
                                                       ELSE followers[v]]
      /\ like' = [c \in Contents |-> [like[c] EXCEPT ![u] = 0]]
      /\ likeCount' = [c \in Contents |->
                        IF like[c][u] = 0 THEN likeCount[c]
                          ELSE Cardinality({v \in Fans \ {u} : like[c][v] # 0})]
      /\ favorites' \in {favorites, 0}
      /\ UNCHANGED <<awardVars, likeIds, checkins, holding, elsewhere, worker, serial>>

\* A call or a statement fails, or the process dies.
Stops(w) ==
  /\ ~At(w, "idle")
  /\ Over(w) /\ Faulty
  /\ UNCHANGED <<ledger, entries, moemoepoint, award, since, disorder, likes, followings,
                 checkins, favourites, serial, requests>>

-----------------------------------------------------------------------------
Request(w, u) ==
  \/ \E c \in Contents : ToggleLike(w, u, c)
  \/ \E v \in Users : Follow(w, u, v) \/ Unfollow(w, u, v)
  \/ CheckIn(w, u)
  \/ ToggleFavorite(w, u)
  \/ \E want \in SUBSET Folders : SetPatchFolders(w, u, want)

Step(w) ==
  \/ CreateLike(w) \/ DeleteLike(w) \/ CountLike(w)
  \/ CreateFollow(w)
  \/ PayCheckIn(w)
  \/ PutFolderItem(w) \/ DeleteFolderItem(w) \/ SettleFavorite(w)
  \/ Stops(w)

Next ==
  \/ \E w \in Workers : Step(w) \/ \E u \in Fans \ purged : Request(w, u)
  \/ \E u \in Fans : ChangeElsewhere(u)
  \/ \E u \in Fans \ {Author} : PurgeUser(u)
  \/ \E u \in Users : Accounts(u)
  \/ DailyReset
  \/ /\ AwardStep
     /\ UNCHANGED <<likes, followings, checkins, favourites, worker, serial, requests>>

Spec == Init /\ [][Next]_vars

-----------------------------------------------------------------------------
(***************************************************************************)
(* Properties.                                                             *)
(***************************************************************************)
Quiet == Settled /\ \A w \in Workers : At(w, "idle")
Paid(kind) == {e \in entries : e.key[1] = kind}
Sum(S) == MapThenSumSet(LAMBDA e : e.delta, S)

\* However follows and unfollows of the same pair overlap, also with the purge of one of
\* them, the counters are those of the relation.
FollowCountsExact ==
  \A u \in Users :
    /\ following[u] = Cardinality({f \in follows : f[1] = u})
    /\ followers[u] = Cardinality({f \in follows : f[2] = u})

\* One request at a time, nothing failing, nobody purged: like_count is the number of
\* likes, the author has a point for each of them that is not his own, and favorite_count
\* is the number of users whose folders hold the work, unless they changed them elsewhere.
CountedSerially ==
  Quiet /\ serial /\ faults = 0 /\ purged = {} =>
    /\ \A c \in Contents : likeCount[c] = Cardinality({u \in Fans : like[c][u] # 0})
    /\ Sum(Paid("like") \cup Paid("unlike")) =
         Cardinality({cu \in Contents \X (Fans \ {Author}) : like[cu[1]][cu[2]] # 0})
    /\ ~elsewhere => favorites = Cardinality({u \in Fans : holding[u] # {}})

\* A user is paid what the check-ins were told they brought, and never more; but for a
\* check-in whose date is taken after midnight, the next one of that day is refused its
\* award.
CheckInsPaid ==
  \A u \in Fans :
    LET paid == Sum({e \in Paid("checkin") : e.user = u})
    IN  /\ paid <= earned[u]
        /\ Quiet /\ faults = 0 /\ ~late => paid = earned[u]
=============================================================================
