--------------------------- MODULE EngagementProofs ---------------------------
(***************************************************************************)
(* Proofs about Engagement and the awards it makes, for any number of      *)
(* users, contents, folders and requests.                                  *)
(***************************************************************************)
EXTENDS Engagement, Sequences, FiniteSetTheorems, TLAPS

\* What the author is paid for, users for checking in, and others for other things: no key
\* of one kind is one of another.
AwardKeys ==
  ({"like", "unlike"} \X Contents \X Nat) \cup ({"checkin"} \X Fans \X Nat)
    \cup ({"favorite"} \X {-1, 1}) \cup ({"approved"} \X Approvals)
    \cup ({"elsewhere"} \X Nat) \cup {<<"balance">>}

Awards ==
  [pc : {"asking", "reading", "answered"}, user : Users, delta : Int, key : AwardKeys, balance : Int]
Entries == [key : AwardKeys, user : Users, delta : Int, balance : Int]

Tasks ==
  [pc : {"liking", "unliking", "liked", "unliked"}, user : Fans, content : Contents, rel : Nat]
    \cup [pc : {"following"}, user : Fans, other : Users]
    \cup [pc : {"dating"}, user : Fans]
    \cup [pc : {"filing"}, user : Fans, put : SUBSET Folders, drop : SUBSET Folders,
          delta : {-1, 0, 1}]

Types ==
  /\ worker \in [Workers -> {Idle} \cup Tasks]
  /\ like \in [Contents -> [Fans -> Nat]] /\ likeIds \in Nat
  /\ holding \in [Fans -> SUBSET Folders]
  /\ days \in Nat /\ requests \in Nat /\ faults \in Nat
  /\ award \in [Slots -> {Free} \cup Awards] /\ entries \subseteq Entries
  /\ ledger \in [Users -> Int] /\ moemoepoint \in [Users -> Int] /\ since \in [Users -> Int]

-----------------------------------------------------------------------------
(***************************************************************************)
(* Requests.                                                               *)
(***************************************************************************)
Moves(w, n) == worker' = [worker EXCEPT ![w] = n]

\* What follows of an award that is made: none for nothing.
Makes(user, delta, key) == delta # 0 /\ Award(user, delta, key)

\* A request is by its place.
LEMMA PlaceOf ==
  ASSUME Types, NEW w \in Workers
  PROVE  /\ At(w, "idle") => worker[w] = Idle
         /\ ~At(w, "idle") => worker[w] \in Tasks
         /\ At(w, "following") => worker[w].user \in Users /\ worker[w].other \in Users
         /\ At(w, "dating") => worker[w].user \in Fans
         /\ At(w, "filing") => /\ worker[w].user \in Fans /\ worker[w].delta \in {-1, 0, 1}
                               /\ worker[w].put \subseteq Folders /\ worker[w].drop \subseteq Folders
         /\ At(w, "liking") \/ At(w, "unliking") \/ At(w, "liked") \/ At(w, "unliked") =>
              worker[w].user \in Fans /\ worker[w].content \in Contents /\ worker[w].rel \in Nat
  BY UsersAssumption DEF Types, Tasks, At, Idle

\* Whoever asks was idle.
LEMMA RequestMoves ==
  ASSUME Types, NEW w \in Workers, NEW u \in Fans, Request(w, u)
  PROVE  /\ At(w, "idle") /\ requests < MaxRequests /\ requests' = requests + 1
         /\ UNCHANGED <<awardVars, likes, earned, late, days, favourites>>
         /\ \E n \in {Idle} \cup Tasks : Moves(w, n)
<1>1. /\ At(w, "idle") /\ requests < MaxRequests /\ requests' = requests + 1
      /\ UNCHANGED <<awardVars, likes, earned, late, days, favourites>>
  BY DEF Request, ToggleLike, Follow, Unfollow, CheckIn, ToggleFavorite, SetPatchFolders, Starts,
     checkins
<1>2. ASSUME NEW c \in Contents, ToggleLike(w, u, c) PROVE \E n \in {Idle} \cup Tasks : Moves(w, n)
  <2>1. PICK pc \in {"liking", "unliking"} :
          worker' = [worker EXCEPT ![w] = [pc |-> pc, user |-> u, content |-> c,
                                           rel |-> like[c][u]]]
    BY <1>2 DEF ToggleLike, Starts
  <2>2. [pc |-> pc, user |-> u, content |-> c, rel |-> like[c][u]] \in Tasks
    BY DEF Tasks, Types
  <2> QED BY <2>1, <2>2 DEF Moves
<1>3. ASSUME NEW v \in Users, Follow(w, u, v) \/ Unfollow(w, u, v)
      PROVE  \E n \in {Idle} \cup Tasks : Moves(w, n)
  <2>1. [pc |-> "following", user |-> u, other |-> v] \in Tasks
    BY DEF Tasks
  <2> QED BY <1>3, <2>1 DEF Follow, Unfollow, Starts, Moves
<1>4. CASE CheckIn(w, u)
  <2>1. [pc |-> "dating", user |-> u] \in Tasks
    BY DEF Tasks
  <2> QED BY <1>4, <2>1 DEF CheckIn, Starts, Moves
<1>5. ASSUME NEW put \in SUBSET Folders, NEW drop \in SUBSET Folders, NEW delta \in {-1, 0, 1},
             Starts(w, FolderTask(u, put, drop, delta))
      PROVE  \E n \in {Idle} \cup Tasks : Moves(w, n)
  <2>1. FolderTask(u, put, drop, delta) \in Tasks
    BY DEF Tasks, FolderTask
  <2> QED BY <1>5, <2>1 DEF Starts, Moves
<1>6. CASE ToggleFavorite(w, u)
  <2>1. \/ Starts(w, FolderTask(u, {}, holding[u], -1))
        \/ Starts(w, FolderTask(u, {Default}, {}, 1))
    BY <1>6 DEF ToggleFavorite
  <2>2. holding[u] \in SUBSET Folders /\ {Default} \in SUBSET Folders /\ {} \in SUBSET Folders
    BY FoldersAssumption DEF Types
  <2>3. \E n \in {Idle} \cup Tasks : Moves(w, n)
    BY <1>5, <2>1, <2>2
  <2> QED BY <1>1, <2>3
<1>7. ASSUME NEW want \in SUBSET Folders, SetPatchFolders(w, u, want)
      PROVE  \E n \in {Idle} \cup Tasks : Moves(w, n)
  <2>1. PICK delta \in {-1, 0, 1} :
          Starts(w, FolderTask(u, want \ holding[u], holding[u] \ want, delta))
    BY <1>7 DEF SetPatchFolders
  <2>2. want \ holding[u] \in SUBSET Folders /\ holding[u] \ want \in SUBSET Folders
    BY DEF Types
  <2> QED BY <1>5, <2>1, <2>2
<1> QED BY <1>1, <1>2, <1>3, <1>4, <1>6, <1>7 DEF Request

\* Likes and folders are written without an award.
LEMMA WriteMoves ==
  ASSUME Types, NEW w \in Workers,
         CreateLike(w) \/ DeleteLike(w) \/ PutFolderItem(w) \/ DeleteFolderItem(w)
  PROVE  /\ ~At(w, "idle")
         /\ UNCHANGED <<awardVars, followings, checkins, favorites, requests>>
         /\ like' \in [Contents -> [Fans -> Nat]] /\ likeIds' \in Nat
         /\ holding' \in [Fans -> SUBSET Folders]
         /\ \E n \in Tasks : Moves(w, n)
<1>1. ~At(w, "idle") /\ UNCHANGED <<awardVars, followings, checkins, favorites, requests>>
  BY DEF CreateLike, DeleteLike, PutFolderItem, DeleteFolderItem, At, favourites
<1>2. CASE CreateLike(w)
  <2>1. /\ At(w, "liking") /\ worker[w] \in Tasks /\ worker[w].user \in Fans
        /\ worker[w].content \in Contents /\ worker[w].rel \in Nat
    BY <1>2, PlaceOf DEF CreateLike, At
  <2>2. likeIds' = likeIds + 1 /\ likeIds' \in Nat /\ holding' = holding
    BY <1>2 DEF CreateLike, Types, favourites
  <2>3. PICK n, m : /\ n = [worker[w] EXCEPT !.pc = "liked"]
                    /\ m = [worker[w] EXCEPT !.pc = "liked", !.rel = likeIds + 1]
    OBVIOUS
  <2>4. n \in Tasks /\ m \in Tasks
    BY <2>1, <2>2, <2>3 DEF Tasks, At
  <2>5. \E k \in Tasks : Moves(w, k)
    <3>1. Moves(w, n) \/ Moves(w, m)
      BY <1>2, <2>3 DEF CreateLike, Moves, Goes
    <3> QED BY <2>4, <3>1
  <2>6. like' \in [Contents -> [Fans -> Nat]]
    <3>1. CASE like' = like
      BY <3>1 DEF Types
    <3>2. CASE like' = [like EXCEPT ![worker[w].content][worker[w].user] = likeIds + 1]
      <4>1. likeIds + 1 \in Nat
        BY DEF Types
      <4> QED BY <2>1, <3>2, <4>1 DEF Types
    <3> QED BY <1>2, <3>1, <3>2 DEF CreateLike
  <2> QED BY <1>1, <2>2, <2>5, <2>6 DEF Types
<1>3. CASE DeleteLike(w)
  <2>1. /\ At(w, "unliking") /\ worker[w] \in Tasks /\ worker[w].user \in Fans
        /\ worker[w].content \in Contents /\ worker[w].rel \in Nat
    BY <1>3, PlaceOf DEF DeleteLike, At
  <2>2. /\ Goes(w, "unliked") /\ likeIds' = likeIds /\ holding' = holding
        /\ like' = [like EXCEPT ![worker[w].content][worker[w].user] =
                      IF @ = worker[w].rel THEN 0 ELSE @]
    BY <1>3 DEF DeleteLike, favourites
  <2>3. PICK n : n = [worker[w] EXCEPT !.pc = "unliked"]
    OBVIOUS
  <2>4. n \in Tasks
    BY <2>1, <2>3 DEF Tasks, At
  <2>5. like' \in [Contents -> [Fans -> Nat]]
    BY <2>1, <2>2 DEF Types
  <2> QED BY <1>1, <2>2, <2>3, <2>4, <2>5 DEF Moves, Goes, Types
<1>4. CASE PutFolderItem(w) \/ DeleteFolderItem(w)
  <2>1. /\ At(w, "filing") /\ worker[w] \in Tasks /\ worker[w].user \in Fans
        /\ worker[w].put \subseteq Folders /\ worker[w].drop \subseteq Folders
    BY <1>4, PlaceOf DEF PutFolderItem, DeleteFolderItem, At
  <2>2. PICK f \in Folders :
          \/ /\ holding' = [holding EXCEPT ![worker[w].user] = @ \cup {f}]
             /\ worker' = [worker EXCEPT ![w].put = @ \ {f}]
          \/ /\ holding' = [holding EXCEPT ![worker[w].user] = @ \ {f}]
             /\ worker' = [worker EXCEPT ![w].drop = @ \ {f}]
    BY <1>4, <2>1 DEF PutFolderItem, DeleteFolderItem
  <2>3. holding' \in [Fans -> SUBSET Folders]
    BY <2>1, <2>2 DEF Types
  <2>4. like' = like /\ likeIds' = likeIds
    BY <1>4 DEF PutFolderItem, DeleteFolderItem, likes
  <2>5. PICK n, m : /\ n = [worker[w] EXCEPT !.put = @ \ {f}]
                    /\ m = [worker[w] EXCEPT !.drop = @ \ {f}]
    OBVIOUS
  <2>6. n \in Tasks /\ m \in Tasks
    BY <2>1, <2>5 DEF Tasks, At
  <2>7. \E k \in Tasks : Moves(w, k)
    BY <2>2, <2>5, <2>6 DEF Moves
  <2> QED BY <1>1, <2>3, <2>4, <2>7 DEF Types
<1> QED BY <1>2, <1>3, <1>4

\* An award is made by whoever is done.
LEMMA PayMoves ==
  ASSUME Types, NEW w \in Workers, CountLike(w) \/ PayCheckIn(w) \/ SettleFavorite(w)
  PROVE  /\ ~At(w, "idle") /\ Moves(w, Idle)
         /\ UNCHANGED <<ledger, entries, moemoepoint, since, faults, like, likeIds, holding,
                        followings, days, requests>>
         /\ \/ UNCHANGED <<award, disorder>>
            \/ \E user \in Users, delta \in Int, key \in AwardKeys : Makes(user, delta, key)
<1>1. /\ ~At(w, "idle") /\ Moves(w, Idle)
      /\ UNCHANGED <<ledger, entries, moemoepoint, since, faults, like, likeIds, holding,
                     followings, days, requests>>
  BY DEF CountLike, PayCheckIn, SettleFavorite, At, Over, Moves, likes, checkins, favourites
<1>2. Author \in Users /\ Fans \subseteq Users
  BY UsersAssumption
<1>3. ASSUME NEW user \in Users, NEW delta \in Int, NEW key, delta # 0 => key \in AwardKeys,
             Award(user, delta, key)
      PROVE  \/ UNCHANGED <<award, disorder>>
             \/ \E x \in Users, d \in Int, k \in AwardKeys : Makes(x, d, k)
  BY <1>3 DEF Award, Makes
<1>4. CASE CountLike(w)
  <2>1. /\ worker[w].content \in Contents /\ worker[w].rel \in Nat
    BY <1>4, PlaceOf DEF CountLike
  <2>2. PICK kind \in {"like", "unlike"}, delta \in {1, -1, 0} :
          Award(Author, delta, <<kind, worker[w].content, worker[w].rel>>)
    BY <1>4 DEF CountLike, AwardLike
  <2>3. <<kind, worker[w].content, worker[w].rel>> \in AwardKeys
    BY <2>1 DEF AwardKeys
  <2> QED BY <1>1, <1>2, <1>3, <2>2, <2>3
<1>5. CASE PayCheckIn(w)
  <2>1. worker[w].user \in Users /\ worker[w].user \in Fans /\ days \in Nat
    BY <1>2, <1>5, PlaceOf DEF PayCheckIn, Types
  <2>2. PICK p \in Points : Award(worker[w].user, p, <<"checkin", worker[w].user, days>>)
    BY <1>5 DEF PayCheckIn
  <2>3. <<"checkin", worker[w].user, days>> \in AwardKeys /\ p \in Int
    BY <2>1, PointsAssumption DEF AwardKeys
  <2> QED BY <1>1, <1>3, <2>1, <2>2, <2>3
<1>6. CASE SettleFavorite(w)
  <2>1. worker[w].delta \in {-1, 0, 1}
    BY <1>6, PlaceOf DEF SettleFavorite
  <2>2. Award(Author, worker[w].delta, <<"favorite", worker[w].delta>>)
    BY <1>6 DEF SettleFavorite
  <2>3. worker[w].delta # 0 => <<"favorite", worker[w].delta>> \in AwardKeys
    BY <2>1 DEF AwardKeys
  <2> QED BY <1>1, <1>2, <1>3, <2>1, <2>2, <2>3
<1> QED BY <1>4, <1>5, <1>6

-----------------------------------------------------------------------------
(***************************************************************************)
(* Awards.                                                                 *)
(***************************************************************************)
Sent(pc, user, delta, key) ==
  [pc |-> pc, user |-> user, delta |-> delta, key |-> key, balance |-> 0]
Asked(user, delta, key) == Sent("asking", user, delta, key)
Read(user) == Sent("reading", user, 0, <<"balance">>)

\* A writer takes a slot, one that is free if there is one.
LEMMA SendTakes ==
  ASSUME NEW pc \in {"asking", "reading"}, NEW user \in Users, NEW delta \in Int,
         NEW key \in AwardKeys, Sends(pc, user, delta, key)
  PROVE  /\ Sent(pc, user, delta, key) \in Awards /\ Sent(pc, user, delta, key) # Free
         /\ Sent(pc, user, delta, key).user = user /\ Sent(pc, user, delta, key).pc = pc
         /\ Sent(pc, user, delta, key).key = key /\ Sent(pc, user, delta, key).delta = delta
         /\ disorder' = (disorder \/ \E j \in InFlight : award[j].user = user)
         /\ \E i : /\ award' = [award EXCEPT ![i] = Sent(pc, user, delta, key)]
                   /\ Slots # InFlight => i \in Slots \ InFlight
<1>1. /\ Sent(pc, user, delta, key) \in Awards /\ Sent(pc, user, delta, key) # Free
      /\ Sent(pc, user, delta, key).user = user /\ Sent(pc, user, delta, key).pc = pc
      /\ Sent(pc, user, delta, key).key = key /\ Sent(pc, user, delta, key).delta = delta
  BY DEF Sent, Awards, Free
<1>2. PICK i : i = CHOOSE j \in Slots \ InFlight : TRUE
  OBVIOUS
<1>3. Slots # InFlight => i \in Slots \ InFlight
  BY <1>2 DEF InFlight
<1>4. /\ award' = [award EXCEPT ![i] = Sent(pc, user, delta, key)]
      /\ disorder' = (disorder \/ \E j \in InFlight : award[j].user = user)
  BY <1>2 DEF Sends, Sent
<1> QED BY <1>1, <1>3, <1>4

LEMMA AwardTakes ==
  ASSUME NEW user \in Users, NEW delta \in Int, NEW key \in AwardKeys, Makes(user, delta, key)
  PROVE  /\ Asked(user, delta, key) \in Awards /\ Asked(user, delta, key) # Free
         /\ Asked(user, delta, key).user = user /\ Asked(user, delta, key).pc = "asking"
         /\ Asked(user, delta, key).key = key /\ Asked(user, delta, key).delta = delta
         /\ disorder' = (disorder \/ \E j \in InFlight : award[j].user = user)
         /\ \E i : /\ award' = [award EXCEPT ![i] = Asked(user, delta, key)]
                   /\ Slots # InFlight => i \in Slots \ InFlight
<1>1. Sends("asking", user, delta, key)
  BY DEF Makes, Award
<1> QED BY <1>1, SendTakes DEF Asked

LEMMA ReadTakes ==
  ASSUME NEW user \in Users, SyncBalance(user)
  PROVE  /\ Read(user) \in Awards /\ Read(user) # Free
         /\ Read(user).user = user /\ Read(user).pc = "reading"
         /\ disorder' = (disorder \/ \E j \in InFlight : award[j].user = user)
         /\ \E i : /\ award' = [award EXCEPT ![i] = Read(user)]
                   /\ Slots # InFlight => i \in Slots \ InFlight
<1>1. Sends("reading", user, 0, <<"balance">>)
  BY DEF SyncBalance
<1>2. PICK key : key = <<"balance">>
  OBVIOUS
<1>3. key \in AwardKeys /\ 0 \in Int /\ "reading" \in {"asking", "reading"}
  BY <1>2 DEF AwardKeys
<1>4. Sends("reading", user, 0, key) /\ Read(user) = Sent("reading", user, 0, key)
  BY <1>1, <1>2 DEF Read
<1>5. PICK pc \in {"asking", "reading"} : pc = "reading"
  OBVIOUS
<1>6. PICK a : a = Sent(pc, user, 0, key)
  OBVIOUS
<1>7. /\ a \in Awards /\ a # Free /\ a.user = user /\ a.pc = pc
      /\ disorder' = (disorder \/ \E j \in InFlight : award[j].user = user)
      /\ \E i : award' = [award EXCEPT ![i] = a] /\ (Slots # InFlight => i \in Slots \ InFlight)
  BY <1>3, <1>4, <1>5, <1>6, SendTakes
<1> QED BY <1>4, <1>5, <1>6, <1>7

\* An award that is answered.
Answered(a, b) == [a EXCEPT !.pc = "answered", !.balance = b]

LEMMA AnsweredIs ==
  ASSUME NEW a \in Awards, NEW b \in Int
  PROVE  /\ Answered(a, b) \in Awards /\ Answered(a, b) # Free
         /\ Answered(a, b).pc = "answered" /\ Answered(a, b).balance = b
         /\ Answered(a, b).user = a.user /\ Answered(a, b).key = a.key
         /\ Answered(a, b).delta = a.delta
  BY DEF Awards, Answered, Free

Entered(a) ==
  [key |-> a.key, user |-> a.user, delta |-> a.delta, balance |-> ledger[a.user] + a.delta]

\* The first award under a key is entered.
LEMMA FirstMoves ==
  ASSUME Types, NEW i \in InFlight, AdjustFirst(i)
  PROVE  /\ award[i] \in Awards /\ award[i].key \notin Keys
         /\ ledger[award[i].user] + award[i].delta \in Int
         /\ ledger' = [ledger EXCEPT ![award[i].user] = ledger[award[i].user] + award[i].delta]
         /\ Entered(award[i]) \in Entries /\ entries' = entries \cup {Entered(award[i])}
         /\ disorder' = disorder /\ since' = [since EXCEPT ![award[i].user] = 0]
         /\ \/ /\ award' = [award EXCEPT ![i] =
                             Answered(award[i], ledger[award[i].user] + award[i].delta)]
               /\ faults' = faults
            \/ award' = [award EXCEPT ![i] = Free] /\ faults' = faults + 1
<1>1. award[i] \in Awards
  BY DEF InFlight, Types
<1>2. ledger[award[i].user] + award[i].delta \in Int
  BY <1>1 DEF Types, Awards
<1>3. Entered(award[i]) \in Entries
  BY <1>1, <1>2 DEF Entered, Entries, Awards
<1>4. /\ award[i].key \notin Keys
      /\ ledger' = [ledger EXCEPT ![award[i].user] = ledger[award[i].user] + award[i].delta]
      /\ entries' = entries \cup {Entered(award[i])} /\ disorder' = disorder
      /\ since' = [since EXCEPT ![award[i].user] = 0]
  BY DEF AdjustFirst, Entered
<1>5. CASE /\ award' = [award EXCEPT ![i].pc = "answered",
                                     ![i].balance = ledger[award[i].user] + award[i].delta]
           /\ UNCHANGED faults
  BY <1>1, <1>2, <1>3, <1>4, <1>5 DEF Answered
<1>6. CASE Ends(i) /\ Faulty
  BY <1>1, <1>2, <1>3, <1>4, <1>6 DEF Ends, Faulty
<1> QED BY <1>5, <1>6 DEF AdjustFirst

\* A second one is not: its answer is the balance of then or of now.
LEMMA AgainMoves ==
  ASSUME Types, NEW i \in InFlight, AdjustAgain(i)
  PROVE  /\ award[i] \in Awards /\ disorder' /\ UNCHANGED <<ledger, entries, since, faults>>
         /\ \/ \E b \in Int :
                 /\ award' = [award EXCEPT ![i] = Answered(award[i], b)]
                 /\ \/ b = ledger[award[i].user]
                    \/ \E e \in entries : e.user = award[i].user /\ b = e.balance
            \/ award' = [award EXCEPT ![i] = Free]
<1>1. award[i] \in Awards
  BY DEF InFlight, Types
<1>2. disorder' /\ UNCHANGED <<ledger, entries, since, faults>>
  BY DEF AdjustAgain
<1>3. PICK e \in entries :
        IF e.user = award[i].user /\ e.delta = award[i].delta
          THEN \E b \in {e.balance, ledger[award[i].user]} :
                 award' = [award EXCEPT ![i].pc = "answered", ![i].balance = b]
          ELSE Ends(i)
  BY DEF AdjustAgain
<1>4. e.balance \in Int /\ ledger[award[i].user] \in Int
  BY <1>1 DEF Types, Entries, Awards
<1>5. CASE e.user = award[i].user /\ e.delta = award[i].delta
  <2>1. PICK b \in {e.balance, ledger[award[i].user]} :
          award' = [award EXCEPT ![i].pc = "answered", ![i].balance = b]
    BY <1>3, <1>5
  <2>2. award' = [award EXCEPT ![i] = Answered(award[i], b)]
    BY <2>1 DEF Answered
  <2> QED BY <1>1, <1>2, <1>4, <1>5, <2>1, <2>2
<1>6. CASE ~(e.user = award[i].user /\ e.delta = award[i].delta)
  <2>1. award' = [award EXCEPT ![i] = Free]
    BY <1>3, <1>6 DEF Ends
  <2> QED BY <1>1, <1>2, <2>1
<1> QED BY <1>5, <1>6

\* A balance is read.
LEMMA ReadMoves ==
  ASSUME Types, NEW i \in Slots, Balance(i)
  PROVE  /\ i \in InFlight /\ award[i] \in Awards /\ award[i].pc = "reading"
         /\ award[i].user \in Users /\ ledger[award[i].user] \in Int
         /\ award' = [award EXCEPT ![i] = Answered(award[i], ledger[award[i].user])]
         /\ since' = [since EXCEPT ![award[i].user] = 0]
         /\ UNCHANGED <<ledger, entries, moemoepoint, disorder, faults>>
<1>1. i \in InFlight /\ award[i] \in Awards
  BY DEF Balance, InFlight, Types
<1>2. award[i].user \in Users /\ ledger[award[i].user] \in Int
  BY <1>1 DEF Awards, Types
<1> QED BY <1>1, <1>2 DEF Balance, Answered

\* What happens to a balance apart from the requests.
Gift(u, d) == [key |-> <<"elsewhere", requests>>, user |-> u, delta |-> d,
               balance |-> ledger[u] + d]

LEMMA AccountMoves ==
  ASSUME Types, NEW u \in Users, Accounts(u)
  PROVE  /\ requests < MaxRequests /\ requests' = requests + 1
         /\ UNCHANGED <<likes, followings, checkins, favourites, worker, serial, moemoepoint,
                        faults>>
         /\ \/ /\ UNCHANGED <<ledger, entries, since>>
               /\ \E e \in Approvals :
                    <<"approved", e>> \in AwardKeys /\ Makes(u, 3, <<"approved", e>>)
            \/ SyncBalance(u) /\ UNCHANGED <<ledger, entries, since>>
            \/ \E d \in Int :
                 /\ Gift(u, d) \in Entries /\ Gift(u, d).key[1] = "elsewhere"
                 /\ entries' = entries \cup {Gift(u, d)} /\ UNCHANGED <<award, disorder>>
                 /\ ledger[u] + d \in Int /\ since[u] + d \in Int
                 /\ ledger' = [ledger EXCEPT ![u] = ledger[u] + d]
                 /\ since' = [since EXCEPT ![u] = since[u] + d]
<1>1. /\ requests < MaxRequests /\ requests' = requests + 1
      /\ UNCHANGED <<likes, followings, checkins, favourites, worker, serial, moemoepoint, faults>>
  BY DEF Accounts, PayClaim, SyncBalance, AdjustedElsewhere
<1>2. ASSUME NEW e \in Approvals, PayClaim(u, e)
      PROVE  /\ UNCHANGED <<ledger, entries, since>>
             /\ <<"approved", e>> \in AwardKeys /\ Makes(u, 3, <<"approved", e>>)
  <2>1. <<"approved", e>> \in AwardKeys
    BY DEF AwardKeys
  <2> QED BY <1>2, <2>1 DEF PayClaim, Makes
<1>3. ASSUME SyncBalance(u) PROVE UNCHANGED <<ledger, entries, since>>
  BY <1>3 DEF SyncBalance
<1>4. ASSUME NEW d \in Adjustments, AdjustedElsewhere(u, d, <<"elsewhere", requests>>)
      PROVE  /\ d \in Int /\ Gift(u, d) \in Entries /\ Gift(u, d).key[1] = "elsewhere"
             /\ entries' = entries \cup {Gift(u, d)} /\ UNCHANGED <<award, disorder>>
             /\ ledger[u] + d \in Int /\ since[u] + d \in Int
             /\ ledger' = [ledger EXCEPT ![u] = ledger[u] + d]
             /\ since' = [since EXCEPT ![u] = since[u] + d]
  <2>1. d \in Int /\ ledger[u] + d \in Int /\ since[u] + d \in Int
    BY AdjustmentsAssumption DEF Types
  <2>2. <<"elsewhere", requests>> \in AwardKeys
    BY DEF AwardKeys, Types
  <2>3. Gift(u, d) \in Entries /\ Gift(u, d).key[1] = "elsewhere"
    BY <2>1, <2>2 DEF Gift, Entries
  <2> QED BY <1>4, <2>1, <2>3 DEF AdjustedElsewhere, Gift
<1> QED BY <1>1, <1>2, <1>3, <1>4 DEF Accounts

\* It is one writer more, or none.
LEMMA AccountSends ==
  ASSUME Types, NEW u \in Users, Accounts(u)
  PROVE  \/ UNCHANGED <<award, disorder>>
         \/ \E pc \in {"asking", "reading"}, delta \in Int, key \in AwardKeys :
              /\ Sends(pc, u, delta, key)
              /\ UNCHANGED <<ledger, entries, since, moemoepoint, faults>>
<1>1. ASSUME NEW e \in Approvals, <<"approved", e>> \in AwardKeys, Makes(u, 3, <<"approved", e>>)
      PROVE  \E key \in AwardKeys : Sends("asking", u, 3, key)
  BY <1>1 DEF Makes, Award
<1>2. SyncBalance(u) => \E key \in AwardKeys : Sends("reading", u, 0, key)
  <2>1. PICK key : key = <<"balance">>
    OBVIOUS
  <2>2. key \in AwardKeys
    BY <2>1 DEF AwardKeys
  <2> QED BY <2>1, <2>2 DEF SyncBalance
<1>3. 0 \in Int /\ 3 \in Int
  OBVIOUS
<1> QED BY <1>1, <1>2, <1>3, AccountMoves

-----------------------------------------------------------------------------
(***************************************************************************)
(* Types.                                                                  *)
(***************************************************************************)
\* Each kind of step.
LEMMA StepKinds ==
  ASSUME Types, [Next]_vars
  PROVE  \/ \E w \in Workers, u \in Fans : Request(w, u)
         \/ \E w \in Workers :
              CreateLike(w) \/ DeleteLike(w) \/ PutFolderItem(w) \/ DeleteFolderItem(w)
         \/ \E w \in Workers : CountLike(w) \/ PayCheckIn(w) \/ SettleFavorite(w)
         \/ \E w \in Workers : CreateFollow(w)
         \/ \E w \in Workers : Stops(w)
         \/ \E u \in Fans : ChangeElsewhere(u)
         \/ \E u \in Fans \ {Author} : PurgeUser(u)
         \/ \E u \in Users : Accounts(u)
         \/ DailyReset
         \/ /\ AwardStep
            /\ UNCHANGED <<likes, followings, checkins, favourites, worker, serial, requests>>
         \/ UNCHANGED vars
  BY DEF Next, Step

\* A step of one handler.
LEMMA OneMoves ==
  ASSUME Types, NEW w \in Workers, NEW n \in {Idle} \cup Tasks, Moves(w, n)
  PROVE  /\ worker' \in [Workers -> {Idle} \cup Tasks]
         /\ worker'[w] = n /\ \A v \in Workers : v # w => worker'[v] = worker[v]
  BY DEF Types, Moves

\* A follow is stored, a handler dies, a folder changes on another site, a user goes.
LEMMA OtherMoves ==
  ASSUME Types
  PROVE  /\ \A w \in Workers : CreateFollow(w) =>
              /\ ~At(w, "idle") /\ Moves(w, Idle)
              /\ UNCHANGED <<awardVars, likes, checkins, favourites, requests>>
         /\ \A w \in Workers : Stops(w) =>
              /\ ~At(w, "idle") /\ Moves(w, Idle) /\ faults' = faults + 1
              /\ UNCHANGED <<ledger, entries, moemoepoint, award, since, disorder, likes,
                             followings, checkins, favourites, requests>>
         /\ \A u \in Fans : ChangeElsewhere(u) =>
              /\ requests < MaxRequests /\ requests' = requests + 1
              /\ holding' \in [Fans -> SUBSET Folders]
              /\ UNCHANGED <<awardVars, likes, followings, checkins, worker>>
         /\ \A u \in Fans : PurgeUser(u) =>
              /\ requests < MaxRequests /\ requests' = requests + 1
              /\ like' \in [Contents -> [Fans -> Nat]] /\ purged' # {}
              /\ UNCHANGED <<awardVars, likeIds, checkins, holding, worker, serial>>
         /\ DailyReset =>
              /\ days' = days + 1
              /\ UNCHANGED <<awardVars, likes, followings, favourites, worker, requests>>
<1>1. ASSUME NEW u \in Fans, ChangeElsewhere(u) PROVE holding' \in [Fans -> SUBSET Folders]
  <2>1. PICK f \in Folders :
          holding' = [holding EXCEPT ![u] = IF f \in @ THEN @ \ {f} ELSE @ \cup {f}]
    BY <1>1 DEF ChangeElsewhere
  <2> QED BY <2>1 DEF Types
<1>2. \A w \in Workers : CreateFollow(w) =>
        /\ ~At(w, "idle") /\ Moves(w, Idle)
        /\ UNCHANGED <<awardVars, likes, checkins, favourites, requests>>
  BY DEF CreateFollow, Over, Moves, At
<1>3. \A w \in Workers : Stops(w) =>
        /\ ~At(w, "idle") /\ Moves(w, Idle) /\ faults' = faults + 1
        /\ UNCHANGED <<ledger, entries, moemoepoint, award, since, disorder, likes,
                       followings, checkins, favourites, requests>>
  BY DEF Stops, Over, Moves, Faulty
<1>4. ASSUME NEW u \in Fans, PurgeUser(u)
      PROVE  /\ requests < MaxRequests /\ requests' = requests + 1
             /\ like' \in [Contents -> [Fans -> Nat]] /\ purged' # {}
             /\ UNCHANGED <<awardVars, likeIds, checkins, holding, worker, serial>>
  <2>1. like' = [c \in Contents |-> [like[c] EXCEPT ![u] = 0]]
    BY <1>4 DEF PurgeUser
  <2>2. like' \in [Contents -> [Fans -> Nat]]
    BY <2>1 DEF Types
  <2> QED BY <1>4, <2>2 DEF PurgeUser
<1> QED BY <1>1, <1>2, <1>3, <1>4 DEF ChangeElsewhere, DailyReset

\* The variables that have a type here.
LEMMA SameTypes ==
  ASSUME Types, UNCHANGED <<like, likeIds, award, entries, ledger, moemoepoint, since>>,
         worker' \in [Workers -> {Idle} \cup Tasks], holding' \in [Fans -> SUBSET Folders],
         days' \in Nat, requests' \in Nat, faults' \in Nat
  PROVE  Types'
  BY DEF Types

\* The step of an award.
LEMMA AwardTypes ==
  ASSUME Types, AwardStep
  PROVE  /\ award' \in [Slots -> {Free} \cup Awards] /\ entries' \subseteq Entries
         /\ ledger' \in [Users -> Int] /\ moemoepoint' \in [Users -> Int] /\ faults' \in Nat
         /\ since' \in [Users -> Int]
<1>1. PICK i \in Slots : Adjust(i) \/ Balance(i) \/ WriteMirror(i) \/ AwardFails(i)
  BY DEF AwardStep
<1>2. i \in InFlight /\ award[i] \in Awards
  BY <1>1 DEF Adjust, Balance, WriteMirror, AwardFails, InFlight, Types
<1>3. CASE Adjust(i) /\ AdjustFirst(i)
  <2>1. moemoepoint' = moemoepoint
    BY <1>3 DEF Adjust
  <2>2. /\ Entered(award[i]) \in Entries /\ entries' = entries \cup {Entered(award[i])}
        /\ ledger[award[i].user] + award[i].delta \in Int
        /\ ledger' = [ledger EXCEPT ![award[i].user] = ledger[award[i].user] + award[i].delta]
    BY <1>2, <1>3, FirstMoves
  <2>3. faults' \in Nat /\ since' \in [Users -> Int]
    BY <1>2, <1>3, FirstMoves DEF Types
  <2>4. award' \in [Slots -> {Free} \cup Awards]
    <3>1. Answered(award[i], ledger[award[i].user] + award[i].delta) \in Awards
      BY <1>2, <2>2, AnsweredIs
    <3>2. \/ award' = [award EXCEPT ![i] =
                         Answered(award[i], ledger[award[i].user] + award[i].delta)]
          \/ award' = [award EXCEPT ![i] = Free]
      BY <1>2, <1>3, FirstMoves
    <3> QED BY <3>1, <3>2 DEF Types
  <2> QED BY <2>1, <2>2, <2>3, <2>4 DEF Types
<1>4. CASE Adjust(i) /\ AdjustAgain(i)
  <2>1. moemoepoint' = moemoepoint /\ UNCHANGED <<ledger, entries, since, faults>>
    BY <1>2, <1>4, AgainMoves DEF Adjust
  <2>2. CASE award' = [award EXCEPT ![i] = Free]
    BY <2>1, <2>2 DEF Types
  <2>3. ASSUME NEW b \in Int, award' = [award EXCEPT ![i] = Answered(award[i], b)]
        PROVE  award' \in [Slots -> {Free} \cup Awards]
    <3>1. Answered(award[i], b) \in Awards
      BY <1>2, AnsweredIs
    <3> QED BY <2>3, <3>1 DEF Types
  <2>4. award' \in [Slots -> {Free} \cup Awards]
    BY <1>2, <1>4, <2>2, <2>3, AgainMoves
  <2> QED BY <2>1, <2>4 DEF Types
<1>5. CASE WriteMirror(i) \/ AwardFails(i)
  <2>1. award' = [award EXCEPT ![i] = Free] /\ UNCHANGED <<ledger, entries, since>>
    BY <1>5 DEF WriteMirror, AwardFails, Ends
  <2>2. moemoepoint' \in [Users -> Int]
    BY <1>2, <1>5 DEF WriteMirror, AwardFails, Types, Awards
  <2>3. faults' \in Nat
    BY <1>5 DEF WriteMirror, AwardFails, Faulty, Types
  <2> QED BY <2>1, <2>2, <2>3 DEF Types
<1>6. CASE Balance(i)
  <2>1. /\ ledger[award[i].user] \in Int
        /\ award' = [award EXCEPT ![i] = Answered(award[i], ledger[award[i].user])]
        /\ since' = [since EXCEPT ![award[i].user] = 0]
        /\ UNCHANGED <<ledger, entries, moemoepoint, faults>>
    BY <1>6, ReadMoves
  <2>2. PICK a : a = Answered(award[i], ledger[award[i].user]) /\ a \in Awards
    BY <1>2, <2>1, AnsweredIs
  <2>3. PICK u : u = award[i].user
    OBVIOUS
  <2>4. award' = [award EXCEPT ![i] = a] /\ since' = [since EXCEPT ![u] = 0]
    BY <2>1, <2>2, <2>3
  <2>5. award' \in [Slots -> {Free} \cup Awards]
    <3>1. a \in {Free} \cup Awards /\ award \in [Slots -> {Free} \cup Awards]
      BY <2>2 DEF Types
    <3> QED BY <2>4, <3>1
  <2>6. since' \in [Users -> Int]
    <3>1. PICK none \in Int : none = 0
      OBVIOUS
    <3>2. since' = [since EXCEPT ![u] = none] /\ since \in [Users -> Int]
      BY <2>4, <3>1 DEF Types
    <3> QED BY <3>1, <3>2
  <2> QED BY <2>1, <2>5, <2>6 DEF Types
<1> QED BY <1>1, <1>3, <1>4, <1>5, <1>6 DEF Adjust

LEMMA TypesStep ==
  ASSUME Types, [Next]_vars
  PROVE  Types'
<1>1. ASSUME NEW w \in Workers, NEW u \in Fans, Request(w, u) PROVE Types'
  <2>1. /\ requests' = requests + 1 /\ UNCHANGED <<awardVars, likes, days, favourites>>
        /\ worker' \in [Workers -> {Idle} \cup Tasks]
    BY <1>1, RequestMoves, OneMoves
  <2> QED BY <2>1, SameTypes DEF Types, awardVars, likes, favourites
<1>2. ASSUME NEW w \in Workers,
             CreateLike(w) \/ DeleteLike(w) \/ PutFolderItem(w) \/ DeleteFolderItem(w)
      PROVE  Types'
  <2>1. /\ UNCHANGED <<awardVars, checkins, requests>>
        /\ like' \in [Contents -> [Fans -> Nat]] /\ likeIds' \in Nat
        /\ holding' \in [Fans -> SUBSET Folders]
        /\ worker' \in [Workers -> {Idle} \cup Tasks]
    BY <1>2, WriteMoves, OneMoves
  <2> QED BY <2>1 DEF Types, awardVars, checkins
<1>3. ASSUME NEW w \in Workers, CountLike(w) \/ PayCheckIn(w) \/ SettleFavorite(w) PROVE Types'
  <2>1. /\ UNCHANGED <<ledger, entries, moemoepoint, since, faults, like, likeIds, holding, days,
                       requests>>
        /\ worker' \in [Workers -> {Idle} \cup Tasks]
    BY <1>3, PayMoves, OneMoves
  <2>2. CASE award' = award
    BY <2>1, <2>2 DEF Types
  <2>3. ASSUME NEW user \in Users, NEW delta \in Int, NEW key \in AwardKeys,
               Makes(user, delta, key)
        PROVE  award' \in [Slots -> {Free} \cup Awards]
    BY <2>3, AwardTakes DEF Types
  <2>4. award' \in [Slots -> {Free} \cup Awards]
    BY <1>3, <2>2, <2>3, PayMoves DEF Types
  <2> QED BY <2>1, <2>4 DEF Types
<1>4. ASSUME NEW w \in Workers, CreateFollow(w) \/ Stops(w) PROVE Types'
  <2>1. /\ UNCHANGED <<likes, checkins, favourites, requests, ledger, entries, moemoepoint,
                       since, award>>
        /\ faults' \in {faults, faults + 1}
    BY <1>4, OtherMoves DEF awardVars
  <2>2. worker' \in [Workers -> {Idle} \cup Tasks]
    BY <1>4, OtherMoves, OneMoves
  <2> QED BY <2>1, <2>2 DEF Types, likes, checkins, favourites
<1>5. ASSUME NEW u \in Fans, ChangeElsewhere(u) PROVE Types'
  BY <1>5, OtherMoves DEF Types, awardVars, likes, checkins
<1>6. CASE DailyReset
  BY <1>6, OtherMoves DEF Types, awardVars, likes, favourites
<1>7. CASE /\ AwardStep
           /\ UNCHANGED <<likes, followings, checkins, favourites, worker, serial, requests>>
  BY <1>7, AwardTypes DEF Types, likes, checkins, favourites
<1>8. CASE UNCHANGED vars
  BY <1>8 DEF Types, vars, awardVars, likes, checkins, favourites
<1>9. ASSUME NEW u \in Fans, PurgeUser(u) PROVE Types'
  <2>1. /\ requests' = requests + 1 /\ like' \in [Contents -> [Fans -> Nat]]
        /\ UNCHANGED <<awardVars, likeIds, checkins, holding, worker>>
    BY <1>9, OtherMoves
  <2> QED BY <2>1 DEF Types, awardVars, checkins
<1>10. ASSUME NEW u \in Users, Accounts(u) PROVE Types'
  <2>1. /\ requests' = requests + 1
        /\ UNCHANGED <<likes, checkins, favourites, worker, moemoepoint, faults>>
    BY <1>10, AccountMoves
  <2>2. CASE UNCHANGED <<ledger, entries, since>> /\ award' \in [Slots -> {Free} \cup Awards]
    BY <2>1, <2>2 DEF Types, likes, checkins, favourites
  <2>3. ASSUME NEW e \in Approvals, <<"approved", e>> \in AwardKeys,
               Makes(u, 3, <<"approved", e>>)
        PROVE  award' \in [Slots -> {Free} \cup Awards]
    <3>1. PICK key : key = <<"approved", e>>
      OBVIOUS
    <3>2. key \in AwardKeys /\ Makes(u, 3, key) /\ 3 \in Int
      BY <2>3, <3>1
    <3> QED BY <3>2, AwardTakes DEF Types
  <2>4. SyncBalance(u) => award' \in [Slots -> {Free} \cup Awards]
    BY ReadTakes DEF Types
  <2>5. ASSUME NEW d \in Int, Gift(u, d) \in Entries, entries' = entries \cup {Gift(u, d)},
               award' = award, ledger[u] + d \in Int, since[u] + d \in Int,
               ledger' = [ledger EXCEPT ![u] = ledger[u] + d],
               since' = [since EXCEPT ![u] = since[u] + d]
        PROVE  Types'
    BY <2>1, <2>5 DEF Types, likes, checkins, favourites
  <2> QED BY <1>10, <2>2, <2>3, <2>4, <2>5, AccountMoves
<1> QED BY <1>1, <1>2, <1>3, <1>4, <1>5, <1>6, <1>7, <1>8, <1>9, <1>10, StepKinds

-----------------------------------------------------------------------------
(***************************************************************************)
(* Follows.                                                                *)
(***************************************************************************)
Of(u) == {f \in follows : f[1] = u}
To(u) == {f \in follows : f[2] = u}

FInv ==
  /\ follows \subseteq Users \X Users /\ IsFiniteSet(follows)
  /\ following \in [Users -> Nat] /\ followers \in [Users -> Nat]
  /\ FollowCountsExact

\* The relations of one user are counted.
LEMMA CountOf ==
  ASSUME FInv, NEW u \in Users
  PROVE  /\ IsFiniteSet(Of(u)) /\ IsFiniteSet(To(u))
         /\ following[u] = Cardinality(Of(u)) /\ followers[u] = Cardinality(To(u))
         /\ following[u] \in Nat /\ followers[u] \in Nat
<1>1. Of(u) \in SUBSET follows /\ To(u) \in SUBSET follows
  BY DEF Of, To
<1>2. IsFiniteSet(Of(u)) /\ IsFiniteSet(To(u))
  BY <1>1, FS_Subset DEF FInv
<1> QED BY <1>2 DEF FInv, FollowCountsExact, Of, To

\* A relation more.
LEMMA FollowAdds ==
  ASSUME FInv, NEW u \in Users, NEW v \in Users, <<u, v>> \notin follows,
         follows' = follows \cup {<<u, v>>},
         following' = [following EXCEPT ![u] = @ + 1],
         followers' = [followers EXCEPT ![v] = @ + 1]
  PROVE  FInv'
<1>1. /\ follows' \subseteq Users \X Users
      /\ following' \in [Users -> Nat] /\ followers' \in [Users -> Nat]
  BY DEF FInv, Less
<1>2. IsFiniteSet(follows')
  BY FS_AddElement DEF FInv
<1>3. ASSUME NEW x \in Users PROVE following'[x] = Cardinality(Of(x)')
  <2>1. CASE x = u
    <3>1. Of(x)' = Of(x) \cup {<<u, v>>} /\ <<u, v>> \notin Of(x)
      BY <2>1 DEF Of
    <3>2. Cardinality(Of(x)') = Cardinality(Of(x)) + 1
      BY <3>1, CountOf, FS_AddElement
    <3> QED BY <2>1, <3>2, CountOf DEF FInv, Less
  <2>2. CASE x # u
    <3>1. Of(x)' = Of(x)
      BY <2>2 DEF Of
    <3> QED BY <2>2, <3>1, CountOf DEF FInv
  <2> QED BY <2>1, <2>2
<1>4. ASSUME NEW x \in Users PROVE followers'[x] = Cardinality(To(x)')
  <2>1. CASE x = v
    <3>1. To(x)' = To(x) \cup {<<u, v>>} /\ <<u, v>> \notin To(x)
      BY <2>1 DEF To
    <3>2. Cardinality(To(x)') = Cardinality(To(x)) + 1
      BY <3>1, CountOf, FS_AddElement
    <3> QED BY <2>1, <3>2, CountOf DEF FInv, Less
  <2>2. CASE x # v
    <3>1. To(x)' = To(x)
      BY <2>2 DEF To
    <3> QED BY <2>2, <3>1, CountOf DEF FInv
  <2> QED BY <2>1, <2>2
<1> QED BY <1>1, <1>2, <1>3, <1>4 DEF FInv, FollowCountsExact, Of, To

\* A relation less.
LEMMA FollowDrops ==
  ASSUME FInv, NEW u \in Users, NEW v \in Users, <<u, v>> \in follows,
         follows' = follows \ {<<u, v>>},
         following' = [following EXCEPT ![u] = Less(@)],
         followers' = [followers EXCEPT ![v] = Less(@)]
  PROVE  FInv'
<1>1. /\ follows' \subseteq Users \X Users
      /\ following' \in [Users -> Nat] /\ followers' \in [Users -> Nat]
  BY DEF FInv, Less
<1>2. IsFiniteSet(follows')
  BY FS_RemoveElement DEF FInv
<1>3. ASSUME NEW x \in Users PROVE following'[x] = Cardinality(Of(x)')
  <2>1. CASE x = u
    <3>1. Of(x)' = Of(x) \ {<<u, v>>} /\ <<u, v>> \in Of(x)
      BY <2>1 DEF Of
    <3>2. Cardinality(Of(x)') = Cardinality(Of(x)) - 1
      BY <3>1, CountOf, FS_RemoveElement
    <3>3. Cardinality(Of(x)') \in Nat
      BY <3>1, CountOf, FS_RemoveElement, FS_CardinalityType
    <3> QED BY <2>1, <3>2, <3>3, CountOf DEF FInv, Less
  <2>2. CASE x # u
    <3>1. Of(x)' = Of(x)
      BY <2>2 DEF Of
    <3> QED BY <2>2, <3>1, CountOf DEF FInv
  <2> QED BY <2>1, <2>2
<1>4. ASSUME NEW x \in Users PROVE followers'[x] = Cardinality(To(x)')
  <2>1. CASE x = v
    <3>1. To(x)' = To(x) \ {<<u, v>>} /\ <<u, v>> \in To(x)
      BY <2>1 DEF To
    <3>2. Cardinality(To(x)') = Cardinality(To(x)) - 1
      BY <3>1, CountOf, FS_RemoveElement
    <3>3. Cardinality(To(x)') \in Nat
      BY <3>1, CountOf, FS_RemoveElement, FS_CardinalityType
    <3> QED BY <2>1, <3>2, <3>3, CountOf DEF FInv, Less
  <2>2. CASE x # v
    <3>1. To(x)' = To(x)
      BY <2>2 DEF To
    <3> QED BY <2>2, <3>1, CountOf DEF FInv
  <2> QED BY <2>1, <2>2
<1> QED BY <1>1, <1>2, <1>3, <1>4 DEF FInv, FollowCountsExact, Of, To

\* The relations of a user who goes.
LEMMA FollowsGo ==
  ASSUME FInv, NEW u \in Users, PurgeUser(u)
  PROVE  FInv'
<1> DEFINE peers == {v \in Users : <<u, v>> \in follows \/ <<v, u>> \in follows} \cup {u}
<1>1. /\ follows' = {f \in follows : u \notin {f[1], f[2]}}
      /\ following' = [v \in Users |->
                         IF v \in peers THEN Cardinality({f \in follows' : f[1] = v})
                                        ELSE following[v]]
      /\ followers' = [v \in Users |->
                         IF v \in peers THEN Cardinality({f \in follows' : f[2] = v})
                                        ELSE followers[v]]
  BY DEF PurgeUser
<1>2. /\ follows' \subseteq Users \X Users /\ follows' \subseteq follows
      /\ IsFiniteSet(follows')
  BY <1>1, FS_Subset DEF FInv
<1>3. \A v \in Users : IsFiniteSet(Of(v)') /\ IsFiniteSet(To(v)')
  <2>1. \A v \in Users : Of(v)' \in SUBSET follows' /\ To(v)' \in SUBSET follows'
    BY DEF Of, To
  <2> QED BY <1>2, <2>1, FS_Subset
<1>4. ASSUME NEW v \in Users, v \notin peers
      PROVE  Of(v)' = Of(v) /\ To(v)' = To(v)
  <2>1. \A f \in follows : f = <<f[1], f[2]>> /\ f[1] \in Users /\ f[2] \in Users
    BY DEF FInv
  <2>2. \A f \in follows : f[1] = v \/ f[2] = v => f \in follows'
    BY <1>1, <1>4, <2>1
  <2> QED BY <1>2, <2>2 DEF Of, To
<1>5. ASSUME NEW v \in Users
      PROVE  /\ following'[v] = Cardinality(Of(v)') /\ followers'[v] = Cardinality(To(v)')
             /\ following'[v] \in Nat /\ followers'[v] \in Nat
  <2>1. following'[v] = Cardinality(Of(v)') /\ followers'[v] = Cardinality(To(v)')
    <3>1. CASE v \in peers
      BY <1>1, <3>1 DEF Of, To
    <3>2. CASE v \notin peers
      BY <1>1, <1>4, <3>2, CountOf
    <3> QED BY <3>1, <3>2
  <2> QED BY <1>3, <2>1, FS_CardinalityType
<1>6. following' \in [Users -> Nat] /\ followers' \in [Users -> Nat]
  BY <1>1, <1>5
<1> QED BY <1>2, <1>5, <1>6 DEF FInv, FollowCountsExact, Of, To

LEMMA FollowsStep ==
  ASSUME Types, FInv, [Next]_vars
  PROVE  FInv'
<1>1. CASE UNCHANGED followings
  BY <1>1 DEF FInv, followings, FollowCountsExact
<1>2. ASSUME NEW w \in Workers, CreateFollow(w) PROVE FInv'
  <2>1. worker[w].user \in Users /\ worker[w].other \in Users
    BY <1>2, PlaceOf DEF CreateFollow
  <2>2. CASE UNCHANGED followings
    BY <1>1, <2>2
  <2>3. CASE ~UNCHANGED followings
    BY <1>2, <2>1, <2>3, FollowAdds DEF CreateFollow
  <2> QED BY <2>2, <2>3
<1>3. ASSUME NEW w \in Workers, NEW u \in Fans, NEW v \in Users, Unfollow(w, u, v) PROVE FInv'
  <2>1. u \in Users
    BY UsersAssumption
  <2>2. CASE <<u, v>> \in follows
    BY <1>3, <2>1, <2>2, FollowDrops DEF Unfollow
  <2>3. CASE <<u, v>> \notin follows
    BY <1>1, <1>3, <2>3 DEF Unfollow
  <2> QED BY <2>2, <2>3
<1>4. ASSUME NEW w \in Workers, NEW u \in Fans, Request(w, u),
             \A v \in Users : ~Unfollow(w, u, v)
      PROVE  UNCHANGED followings
  BY <1>4 DEF Request, ToggleLike, Follow, CheckIn, ToggleFavorite, SetPatchFolders
<1>5. ASSUME NEW w \in Workers,
             \/ CreateLike(w) \/ DeleteLike(w) \/ PutFolderItem(w) \/ DeleteFolderItem(w)
             \/ CountLike(w) \/ PayCheckIn(w) \/ SettleFavorite(w) \/ Stops(w)
      PROVE  UNCHANGED followings
  BY <1>5, WriteMoves, PayMoves, OtherMoves
<1>6. CASE (\E u \in Fans : ChangeElsewhere(u)) \/ DailyReset \/ UNCHANGED vars
  BY <1>1, <1>6, OtherMoves DEF vars
<1>7. ASSUME NEW u \in Fans, PurgeUser(u) PROVE FInv'
  BY <1>7, UsersAssumption, FollowsGo
<1>8. ASSUME NEW u \in Users, Accounts(u) PROVE FInv'
  BY <1>1, <1>8, AccountMoves
<1> QED BY <1>1, <1>2, <1>3, <1>4, <1>5, <1>6, <1>7, <1>8, StepKinds

-----------------------------------------------------------------------------
(***************************************************************************)
(* There is a slot for every award: a request under way has not made one.  *)
(***************************************************************************)
\* One slot is written.
LEMMA OneSlot ==
  ASSUME Types, NEW i, NEW a, award' = [award EXCEPT ![i] = a]
  PROVE  /\ \A j \in InFlight' : \/ j = i /\ award'[j] = a /\ a # Free
                                 \/ j # i /\ j \in InFlight /\ award'[j] = award[j]
         /\ \A j \in InFlight : j # i => j \in InFlight' /\ award'[j] = award[j]
         /\ i \in Slots => award'[i] = a /\ (a # Free => i \in InFlight')
  BY DEF Types, InFlight

Busy == {w \in Workers : ~At(w, "idle")}

SInv ==
  /\ IsFiniteSet(Busy) /\ requests \in Nat /\ requests <= MaxRequests
  /\ Cardinality(InFlight) + Cardinality(Busy) <= requests

\* The slots, and their part in flight.
LEMMA SlotsAre ==
  ASSUME NEW S \in SUBSET Slots
  PROVE  /\ IsFiniteSet(S) /\ Cardinality(S) \in Nat
         /\ IsFiniteSet(Slots) /\ Cardinality(Slots) = MaxRequests
<1>1. IsFiniteSet(Slots) /\ Cardinality(Slots) = MaxRequests
  BY FS_Interval, RoomAssumption, BoundsAssumption
<1>2. IsFiniteSet(S)
  BY <1>1, FS_Subset
<1> QED BY <1>1, <1>2, FS_CardinalityType

LEMMA FlightIs ==
  InFlight \in SUBSET Slots
  BY DEF InFlight

\* Who is busy when a handler moves.
LEMMA BusyMoves ==
  ASSUME Types, SInv, NEW w \in Workers, NEW n \in {Idle} \cup Tasks, Moves(w, n)
  PROVE  /\ IsFiniteSet(Busy') /\ Cardinality(Busy) \in Nat /\ Cardinality(Busy') \in Nat
         /\ ~At(w, "idle") => Cardinality(Busy') <= Cardinality(Busy) /\ 1 <= Cardinality(Busy)
         /\ ~At(w, "idle") /\ n = Idle => Cardinality(Busy') + 1 = Cardinality(Busy)
         /\ At(w, "idle") => Cardinality(Busy') <= Cardinality(Busy) + 1
<1>1. worker'[w] = n /\ \A v \in Workers : v # w => worker'[v] = worker[v]
  BY OneMoves
<1>2. /\ n.pc = "idle" => Busy' = Busy \ {w}
      /\ n.pc # "idle" => Busy' = Busy \cup {w}
  BY <1>1 DEF Busy, At
<1>3. IsFiniteSet(Busy)
  BY DEF SInv
<1>4. /\ IsFiniteSet(Busy \ {w}) /\ IsFiniteSet(Busy \cup {w})
      /\ Cardinality(Busy \ {w}) = IF w \in Busy THEN Cardinality(Busy) - 1 ELSE Cardinality(Busy)
      /\ Cardinality(Busy \cup {w}) = IF w \in Busy THEN Cardinality(Busy) ELSE Cardinality(Busy) + 1
  BY <1>3, FS_AddElement, FS_RemoveElement
<1>5. /\ Cardinality(Busy) \in Nat /\ Cardinality(Busy \ {w}) \in Nat
      /\ Cardinality(Busy \cup {w}) \in Nat
  BY <1>3, <1>4, FS_CardinalityType
<1>6. w \in Busy <=> ~At(w, "idle")
  BY DEF Busy
<1>7. n = Idle => n.pc = "idle"
  BY DEF Idle
<1>8. CASE n.pc = "idle"
  <2>1. IsFiniteSet(Busy') /\ Cardinality(Busy') = Cardinality(Busy \ {w})
    BY <1>2, <1>4, <1>8
  <2>2. At(w, "idle") => Cardinality(Busy') = Cardinality(Busy)
    BY <2>1, <1>4, <1>6
  <2>3. ~At(w, "idle") => Cardinality(Busy') = Cardinality(Busy) - 1
    BY <2>1, <1>4, <1>6
  <2>4. Cardinality(Busy') \in Nat
    BY <2>1, <1>5
  <2> QED BY <1>5, <2>1, <2>2, <2>3, <2>4
<1>9. CASE n.pc # "idle"
  BY <1>2, <1>4, <1>5, <1>6, <1>7, <1>9
<1> QED BY <1>8, <1>9

\* No more slots are taken than were, but for an award that is made.
LEMMA FlightMoves ==
  ASSUME Types, NEW i, NEW a, award' = [award EXCEPT ![i] = a]
  PROVE  /\ Cardinality(InFlight') <= Cardinality(InFlight) + 1
         /\ i \in InFlight => Cardinality(InFlight') <= Cardinality(InFlight)
         /\ Cardinality(InFlight') \in Nat /\ Cardinality(InFlight) \in Nat
<1>1. /\ \A j \in InFlight' : j = i \/ j \in InFlight
      /\ InFlight' \in SUBSET Slots
  <2>1. \A j \in InFlight' : \/ j = i /\ award'[j] = a /\ a # Free
                             \/ j # i /\ j \in InFlight /\ award'[j] = award[j]
    BY OneSlot
  <2> QED BY <2>1 DEF InFlight
<1>2. /\ IsFiniteSet(InFlight) /\ Cardinality(InFlight) \in Nat
      /\ Cardinality(InFlight') \in Nat
  BY <1>1, SlotsAre, FlightIs
<1>3. PICK T : T = InFlight \cup {i}
  OBVIOUS
<1>4. IsFiniteSet(T) /\ Cardinality(T) =
        IF i \in InFlight THEN Cardinality(InFlight) ELSE Cardinality(InFlight) + 1
  BY <1>2, <1>3, FS_AddElement
<1>5. InFlight' \in SUBSET T
  BY <1>1, <1>3
<1>6. Cardinality(InFlight') <= Cardinality(T)
  BY <1>4, <1>5, FS_Subset
<1> QED BY <1>2, <1>4, <1>6

\* Who is at work finds a slot that is free.
LEMMA SlotLeft ==
  ASSUME Types, SInv, NEW w \in Workers, ~At(w, "idle")
  PROVE  Slots # InFlight
<1>1. w \in Busy /\ IsFiniteSet(Busy)
  BY DEF Busy, SInv
<1>2. Cardinality(Busy) # 0 /\ Cardinality(Busy) \in Nat
  BY <1>1, FS_EmptySet, FS_CardinalityType
<1>3. Cardinality(InFlight) \in Nat /\ Cardinality(Slots) = MaxRequests
  BY FlightIs, SlotsAre
<1>4. Cardinality(InFlight) < MaxRequests
  BY <1>2, <1>3, BoundsAssumption DEF SInv
<1> QED BY <1>3, <1>4

\* So does who comes while there are requests left.
LEMMA RoomLeft ==
  ASSUME Types, SInv, requests < MaxRequests
  PROVE  Slots # InFlight
<1>1. Cardinality(InFlight) \in Nat /\ Cardinality(Slots) = MaxRequests
  BY FlightIs, SlotsAre
<1>2. Cardinality(Busy) \in Nat
  BY FS_CardinalityType DEF SInv
<1> QED BY <1>1, <1>2, BoundsAssumption DEF SInv

LEMMA SlotsStep ==
  ASSUME Types, SInv, [Next]_vars
  PROVE  SInv'
<1>1. /\ Cardinality(InFlight) \in Nat /\ Cardinality(Busy) \in Nat
      /\ requests \in Nat /\ requests <= MaxRequests /\ MaxRequests \in Nat
      /\ Cardinality(InFlight) + Cardinality(Busy) <= requests
  BY FlightIs, SlotsAre, BoundsAssumption, FS_CardinalityType DEF SInv
<1>2. ASSUME NEW w \in Workers, NEW u \in Fans, Request(w, u) PROVE SInv'
  <2>1. PICK n \in {Idle} \cup Tasks : Moves(w, n)
    BY <1>2, RequestMoves
  <2>2. At(w, "idle") /\ requests < MaxRequests /\ requests' = requests + 1 /\ award' = award
    BY <1>2, RequestMoves DEF awardVars
  <2>3. /\ IsFiniteSet(Busy') /\ Cardinality(Busy') \in Nat
        /\ Cardinality(Busy') <= Cardinality(Busy) + 1
    BY <2>1, <2>2, BusyMoves
  <2>4. InFlight' = InFlight
    BY <2>2 DEF InFlight
  <2> QED BY <1>1, <2>2, <2>3, <2>4 DEF SInv
<1>3. ASSUME NEW w \in Workers,
             \/ CreateLike(w) \/ DeleteLike(w) \/ PutFolderItem(w) \/ DeleteFolderItem(w)
             \/ CreateFollow(w) \/ Stops(w)
      PROVE  SInv'
  <2>1. PICK n \in {Idle} \cup Tasks : Moves(w, n)
    BY <1>3, WriteMoves, OtherMoves
  <2>2. ~At(w, "idle") /\ requests' = requests /\ award' = award
    BY <1>3, WriteMoves, OtherMoves DEF awardVars
  <2>3. /\ IsFiniteSet(Busy') /\ Cardinality(Busy') \in Nat
        /\ Cardinality(Busy') <= Cardinality(Busy)
    BY <2>1, <2>2, BusyMoves
  <2>4. InFlight' = InFlight
    BY <2>2 DEF InFlight
  <2> QED BY <1>1, <2>2, <2>3, <2>4 DEF SInv
<1>4. ASSUME NEW w \in Workers, CountLike(w) \/ PayCheckIn(w) \/ SettleFavorite(w) PROVE SInv'
  <2>1. ~At(w, "idle") /\ Moves(w, Idle) /\ requests' = requests
    BY <1>4, PayMoves
  <2>2. /\ IsFiniteSet(Busy') /\ Cardinality(Busy') \in Nat
        /\ Cardinality(Busy') + 1 = Cardinality(Busy)
    BY <2>1, BusyMoves
  <2>3. Cardinality(InFlight') \in Nat /\ Cardinality(InFlight') <= Cardinality(InFlight) + 1
    <3>1. CASE award' = award
      BY <1>1, <3>1 DEF InFlight
    <3>2. ASSUME NEW user \in Users, NEW delta \in Int, NEW key \in AwardKeys,
                 Makes(user, delta, key)
          PROVE  Cardinality(InFlight') \in Nat /\ Cardinality(InFlight') <= Cardinality(InFlight) + 1
      <4>1. PICK i : award' = [award EXCEPT ![i] = Asked(user, delta, key)]
        BY <3>2, AwardTakes
      <4> QED BY <4>1, FlightMoves
    <3> QED BY <1>4, <3>1, <3>2, PayMoves
  <2> QED BY <1>1, <2>1, <2>2, <2>3 DEF SInv
<1>5. ASSUME NEW i \in Slots, Adjust(i) \/ Balance(i) \/ WriteMirror(i) \/ AwardFails(i),
             UNCHANGED <<worker, requests>>
      PROVE  SInv'
  <2>1. i \in InFlight
    BY <1>5 DEF Adjust, Balance, WriteMirror, AwardFails
  <2>2. \E a : award' = [award EXCEPT ![i] = a]
    <3>1. CASE AdjustFirst(i)
      BY <2>1, <3>1, FirstMoves
    <3>2. CASE AdjustAgain(i)
      BY <2>1, <3>2, AgainMoves
    <3>3. CASE Balance(i)
      BY <3>3, ReadMoves
    <3> QED BY <1>5, <3>1, <3>2, <3>3 DEF Adjust, WriteMirror, AwardFails, Ends
  <2>3. Cardinality(InFlight') \in Nat /\ Cardinality(InFlight') <= Cardinality(InFlight)
    BY <2>1, <2>2, FlightMoves
  <2>4. Busy' = Busy /\ requests' = requests
    BY <1>5 DEF Busy, At
  <2> QED BY <1>1, <2>3, <2>4 DEF SInv
<1>6. CASE UNCHANGED <<award, worker>> /\ requests' \in {requests, requests + 1}
             /\ requests' <= MaxRequests
  <2>1. Busy' = Busy /\ InFlight' = InFlight
    BY <1>6 DEF Busy, At, InFlight
  <2> QED BY <1>1, <1>6, <2>1 DEF SInv
<1>7. CASE \/ \E u \in Fans : ChangeElsewhere(u) \/ PurgeUser(u)
           \/ DailyReset \/ UNCHANGED vars
  <2>1. UNCHANGED <<award, worker>>
    BY <1>7, OtherMoves DEF vars, awardVars
  <2>2. requests' = requests \/ (requests < MaxRequests /\ requests' = requests + 1)
    BY <1>7, OtherMoves DEF vars
  <2> QED BY <1>1, <1>6, <2>1, <2>2
<1>8. ASSUME NEW u \in Users, Accounts(u) PROVE SInv'
  <2>1. requests < MaxRequests /\ requests' = requests + 1 /\ worker' = worker
    BY <1>8, AccountMoves
  <2>2. Cardinality(InFlight') \in Nat /\ Cardinality(InFlight') <= Cardinality(InFlight) + 1
    <3>1. CASE award' = award
      BY <1>1, <3>1 DEF InFlight
    <3>2. ASSUME NEW pc \in {"asking", "reading"}, NEW delta \in Int, NEW key \in AwardKeys,
                 Sends(pc, u, delta, key)
          PROVE  Cardinality(InFlight') \in Nat /\ Cardinality(InFlight') <= Cardinality(InFlight) + 1
      <4>1. PICK i : award' = [award EXCEPT ![i] = Sent(pc, u, delta, key)]
        BY <3>2, SendTakes
      <4> QED BY <4>1, FlightMoves
    <3> QED BY <1>8, <3>1, <3>2, AccountSends
  <2>3. Busy' = Busy
    BY <2>1 DEF Busy, At
  <2> QED BY <1>1, <2>1, <2>2, <2>3 DEF SInv
<1> QED BY <1>2, <1>3, <1>4, <1>5, <1>7, <1>8, StepKinds DEF AwardStep

-----------------------------------------------------------------------------
(***************************************************************************)
(* The mirror.  While nothing went wrong a user has one writer under way,  *)
(* its answer is the balance this site knows last, and who waits for no    *)
(* answer sees it.                                                         *)
(***************************************************************************)
\* The balances the entries E gave the user.
Had(E, u) == {0} \cup {e.balance : e \in {f \in E : f.user = u}}

HInv ==
  /\ \A u \in Users : moemoepoint[u] \in Had(entries, u) /\ ledger[u] \in Had(entries, u)
  /\ \A i \in InFlight :
       award[i].pc = "answered" => award[i].balance \in Had(entries, award[i].user)

\* The balance this site last brought about or read.
Known(u) == ledger[u] - since[u]

Orderly ==
  /\ \A i, j \in InFlight : award[i].user = award[j].user => i = j
  /\ \A i \in InFlight : award[i].pc = "answered" => award[i].balance = Known(award[i].user)
  /\ \A u \in Users :
       (\A i \in InFlight : award[i].user = u => award[i].pc # "answered") =>
         moemoepoint[u] = Known(u)

OInv == faults = 0 /\ ~disorder => Orderly

\* A writer asks, is answered with a balance the user has had, or is over.
LEMMA HadKept ==
  ASSUME Types, HInv, entries \subseteq entries', moemoepoint' = moemoepoint,
         \A u \in Users : ledger'[u] = ledger[u] \/ ledger'[u] \in Had(entries', u),
         NEW i, NEW a, award' = [award EXCEPT ![i] = a],
         a = Free \/ a.pc # "answered" \/ a.balance \in Had(entries', a.user)
  PROVE  HInv'
<1>1. \A u : Had(entries, u) \subseteq Had(entries', u)
  BY DEF Had
<1>2. \A j \in InFlight' : \/ award'[j] = a /\ a # Free
                           \/ j \in InFlight /\ award'[j] = award[j]
  BY OneSlot
<1>3. ASSUME NEW j \in InFlight', award'[j].pc = "answered"
      PROVE  award'[j].balance \in Had(entries', award'[j].user)
  <2>1. CASE award'[j] = a /\ a # Free
    BY <1>3, <2>1
  <2>2. CASE j \in InFlight /\ award'[j] = award[j]
    BY <1>1, <1>3, <2>2 DEF HInv
  <2> QED BY <1>2, <2>1, <2>2
<1>4. \A u \in Users : moemoepoint'[u] \in Had(entries', u) /\ ledger'[u] \in Had(entries', u)
  BY <1>1 DEF HInv
<1> QED BY <1>3, <1>4 DEF HInv

\* One entry more, for the present balance.
LEMMA HadMore ==
  ASSUME Types, NEW u \in Users, NEW b \in Int, NEW e \in Entries, e.user = u, e.balance = b,
         entries' = entries \cup {e}, ledger' = [ledger EXCEPT ![u] = b]
  PROVE  /\ entries \subseteq entries' /\ b \in Had(entries', u)
         /\ \A v \in Users : ledger'[v] = ledger[v] \/ ledger'[v] \in Had(entries', v)
  BY DEF Had, Types

\* A step of an award.
LEMMA AwardHad ==
  ASSUME Types, HInv, AwardStep
  PROVE  HInv'
<1>1. PICK i \in Slots : Adjust(i) \/ Balance(i) \/ WriteMirror(i) \/ AwardFails(i)
  BY DEF AwardStep
<1>2. i \in InFlight /\ award[i] \in Awards /\ award[i].user \in Users
  BY <1>1 DEF Adjust, Balance, WriteMirror, AwardFails, InFlight, Types, Awards
<1>3. CASE Adjust(i) /\ AdjustFirst(i)
  <2> DEFINE b == ledger[award[i].user] + award[i].delta
  <2>1. /\ moemoepoint' = moemoepoint
        /\ ledger' = [ledger EXCEPT ![award[i].user] = b]
        /\ entries' = entries \cup {Entered(award[i])} /\ b \in Int
        /\ Entered(award[i]) \in Entries
        /\ award' = [award EXCEPT ![i] = Answered(award[i], b)]
           \/ award' = [award EXCEPT ![i] = Free]
    BY <1>2, <1>3, FirstMoves DEF Adjust
  <2>2. /\ Answered(award[i], b).balance = b /\ Answered(award[i], b).user = award[i].user
    BY <1>2, <2>1, AnsweredIs
  <2>3. Entered(award[i]).user = award[i].user /\ Entered(award[i]).balance = b
    BY DEF Entered
  <2> HIDE DEF b
  <2>4. /\ entries \subseteq entries' /\ b \in Had(entries', award[i].user)
        /\ \A v \in Users : ledger'[v] = ledger[v] \/ ledger'[v] \in Had(entries', v)
    BY <1>2, <2>1, <2>3, HadMore
  <2>5. Answered(award[i], b).balance \in Had(entries', Answered(award[i], b).user)
    BY <2>2, <2>4
  <2> QED BY <2>1, <2>4, <2>5, HadKept
<1>4. CASE Adjust(i) /\ AdjustAgain(i)
  <2>1. moemoepoint' = moemoepoint /\ entries' = entries /\ ledger' = ledger
    BY <1>2, <1>4, AgainMoves DEF Adjust
  <2>2. CASE award' = [award EXCEPT ![i] = Free]
    BY <2>1, <2>2, HadKept
  <2>3. ASSUME NEW b \in Int, award' = [award EXCEPT ![i] = Answered(award[i], b)],
               \/ b = ledger[award[i].user]
               \/ \E e \in entries : e.user = award[i].user /\ b = e.balance
        PROVE  HInv'
    <3>1. Answered(award[i], b).balance = b /\ Answered(award[i], b).user = award[i].user
      BY <1>2, AnsweredIs
    <3>2. b \in Had(entries', award[i].user)
      BY <1>2, <2>1, <2>3 DEF Had, HInv
    <3> QED BY <2>1, <2>3, <3>1, <3>2, HadKept
  <2> QED BY <1>2, <1>4, <2>2, <2>3, AgainMoves
<1>5. CASE AwardFails(i)
  BY <1>5, HadKept DEF AwardFails, Ends
<1>6. CASE WriteMirror(i)
  <2>1. /\ award' = [award EXCEPT ![i] = Free] /\ entries' = entries /\ ledger' = ledger
        /\ moemoepoint' = [moemoepoint EXCEPT ![award[i].user] = award[i].balance]
        /\ award[i].balance \in Had(entries, award[i].user)
    BY <1>2, <1>6 DEF WriteMirror, Ends, HInv
  <2>2. \A j \in InFlight' : j \in InFlight /\ award'[j] = award[j]
    BY <2>1, OneSlot
  <2>3. \A u \in Users : moemoepoint'[u] \in Had(entries', u)
    BY <2>1 DEF HInv, Types
  <2> QED BY <2>1, <2>2, <2>3 DEF HInv
<1>7. CASE Balance(i)
  <2>1. /\ award' = [award EXCEPT ![i] = Answered(award[i], ledger[award[i].user])]
        /\ ledger[award[i].user] \in Int
        /\ UNCHANGED <<ledger, entries, moemoepoint>>
    BY <1>7, ReadMoves
  <2>2. /\ Answered(award[i], ledger[award[i].user]).balance = ledger[award[i].user]
        /\ Answered(award[i], ledger[award[i].user]).user = award[i].user
    BY <1>2, <2>1, AnsweredIs
  <2>3. ledger[award[i].user] \in Had(entries', award[i].user)
    BY <1>2, <2>1 DEF HInv
  <2> QED BY <2>1, <2>2, <2>3, HadKept
<1> QED BY <1>1, <1>3, <1>4, <1>5, <1>6, <1>7 DEF Adjust

LEMMA HadStep ==
  ASSUME Types, HInv, [Next]_vars
  PROVE  HInv'
<1>1. CASE UNCHANGED <<award, entries, ledger, moemoepoint>>
  BY <1>1 DEF HInv, InFlight
<1>2. ASSUME NEW w \in Workers, CountLike(w) \/ PayCheckIn(w) \/ SettleFavorite(w) PROVE HInv'
  <2>1. moemoepoint' = moemoepoint /\ entries' = entries /\ ledger' = ledger
    BY <1>2, PayMoves
  <2>2. ASSUME NEW user \in Users, NEW delta \in Int, NEW key \in AwardKeys,
               Makes(user, delta, key)
        PROVE  HInv'
    <3>1. PICK i : award' = [award EXCEPT ![i] = Asked(user, delta, key)]
      BY <2>2, AwardTakes
    <3>2. Asked(user, delta, key).pc = "asking"
      BY <2>2, AwardTakes
    <3> QED BY <2>1, <3>1, <3>2, HadKept
  <2> QED BY <1>1, <1>2, <2>1, <2>2, PayMoves
<1>3. ASSUME NEW w \in Workers,
             \/ CreateLike(w) \/ DeleteLike(w) \/ PutFolderItem(w) \/ DeleteFolderItem(w)
             \/ CreateFollow(w) \/ Stops(w) \/ \E u \in Fans : Request(w, u)
      PROVE  UNCHANGED <<award, entries, ledger, moemoepoint>>
  BY <1>3, WriteMoves, OtherMoves, RequestMoves DEF awardVars
<1>4. CASE \/ \E u \in Fans : ChangeElsewhere(u) \/ PurgeUser(u)
           \/ DailyReset \/ UNCHANGED vars
  BY <1>1, <1>4, OtherMoves DEF vars, awardVars
<1>5. ASSUME NEW u \in Users, Accounts(u) PROVE HInv'
  <2>1. ASSUME NEW pc \in {"asking", "reading"}, NEW delta \in Int, NEW key \in AwardKeys,
               Sends(pc, u, delta, key), UNCHANGED <<ledger, entries, moemoepoint>>
        PROVE  HInv'
    <3>1. PICK i : award' = [award EXCEPT ![i] = Sent(pc, u, delta, key)]
      BY <2>1, SendTakes
    <3>2. Sent(pc, u, delta, key).pc # "answered"
      BY <2>1, SendTakes
    <3> QED BY <2>1, <3>1, <3>2, HadKept
  <2>2. ASSUME NEW d \in Int, Gift(u, d) \in Entries, entries' = entries \cup {Gift(u, d)},
               award' = award, ledger[u] + d \in Int, moemoepoint' = moemoepoint,
               ledger' = [ledger EXCEPT ![u] = ledger[u] + d]
        PROVE  HInv'
    <3>1. Gift(u, d).user = u /\ Gift(u, d).balance = ledger[u] + d
      BY DEF Gift
    <3>2. PICK b \in Int : b = ledger[u] + d
      BY <2>2
    <3>3. /\ entries \subseteq entries'
          /\ \A v \in Users : ledger'[v] = ledger[v] \/ ledger'[v] \in Had(entries', v)
      BY <2>2, <3>1, <3>2, HadMore
    <3>4. InFlight' = InFlight /\ \A v : Had(entries, v) \subseteq Had(entries', v)
      BY <2>2 DEF InFlight, Had
    <3> QED BY <2>2, <3>3, <3>4 DEF HInv
  <2>3. UNCHANGED moemoepoint
    BY <1>5, AccountMoves
  <2>4. CASE UNCHANGED <<ledger, entries>>
    <3>1. CASE award' = award
      BY <1>1, <2>3, <2>4, <3>1
    <3> QED BY <1>5, <2>1, <2>3, <2>4, <3>1, AccountSends
  <2> QED BY <1>5, <2>2, <2>3, <2>4, AccountMoves
<1> QED BY <1>1, <1>2, <1>3, <1>4, <1>5, AwardHad, StepKinds

\* Nothing went wrong before either.
LEMMA OrderBefore ==
  ASSUME Types, OInv, faults' = faults \/ faults' = faults + 1,
         disorder => disorder', faults' = 0, ~disorder'
  PROVE  faults' = faults /\ Orderly
  BY DEF Types, OInv

\* A writer more.
LEMMA OrderSent ==
  ASSUME Types, Orderly, NEW pc \in {"asking", "reading"}, NEW user \in Users,
         NEW delta \in Int, NEW key \in AwardKeys, Sends(pc, user, delta, key),
         Slots # InFlight, ~disorder', UNCHANGED <<ledger, moemoepoint, since>>
  PROVE  Orderly'
<1>1. PICK i : /\ award' = [award EXCEPT ![i] = Sent(pc, user, delta, key)]
               /\ i \in Slots \ InFlight
  BY SendTakes
<1>2. \A j \in InFlight : award[j].user # user
  <2>1. disorder' = (disorder \/ \E j \in InFlight : award[j].user = user)
    BY SendTakes
  <2> QED BY <2>1
<1>3. /\ \A j \in InFlight' : j # i => j \in InFlight /\ award'[j] = award[j]
      /\ \A j \in InFlight : j \in InFlight' /\ award'[j] = award[j]
      /\ award'[i].user = user /\ award'[i].pc # "answered"
  <2>1. Sent(pc, user, delta, key).user = user /\ Sent(pc, user, delta, key).pc # "answered"
    BY SendTakes
  <2>2. award'[i] = Sent(pc, user, delta, key)
    BY <1>1, OneSlot
  <2>3. \A j \in InFlight : j # i
    BY <1>1
  <2> QED BY <1>1, <2>1, <2>2, <2>3, OneSlot
<1>4. \A j, k \in InFlight' : award'[j].user = award'[k].user => j = k
  BY <1>2, <1>3 DEF Orderly
<1>5. \A u : Known(u)' = Known(u)
  BY DEF Known
<1>6. \A j \in InFlight' : award'[j].pc = "answered" => (award[j].balance = Known(award[j].user))'
  BY <1>3, <1>5 DEF Orderly
<1>7. ASSUME NEW u \in Users, \A j \in InFlight' : award'[j].user = u => award'[j].pc # "answered"
      PROVE  moemoepoint'[u] = Known(u)'
  BY <1>3, <1>5, <1>7 DEF Orderly
<1> QED BY <1>4, <1>6, <1>7 DEF Orderly

\* A writer is answered with the present balance.
LEMMA OrderAnswered ==
  ASSUME Types, Orderly, NEW i \in InFlight, NEW b \in Int,
         award' = [award EXCEPT ![i] = Answered(award[i], b)],
         \A v \in Users : IF v = award[i].user THEN Known(v)' = b ELSE Known(v)' = Known(v),
         moemoepoint' = moemoepoint
  PROVE  Orderly'
<1> DEFINE u == award[i].user
<1>1. award[i] \in Awards /\ u \in Users /\ \A j \in InFlight : award[j].user \in Users
  BY DEF Types, InFlight, Awards
<1>2. /\ Answered(award[i], b).user = u /\ Answered(award[i], b).pc = "answered"
      /\ Answered(award[i], b).balance = b /\ Answered(award[i], b) # Free
  BY <1>1, AnsweredIs
<1>3. /\ \A j \in InFlight' : j \in InFlight /\ (j # i => award'[j] = award[j])
      /\ \A j \in InFlight : j \in InFlight' /\ (j # i => award'[j] = award[j])
      /\ award'[i] = Answered(award[i], b)
  <2>1. PICK a : a = Answered(award[i], b)
    OBVIOUS
  <2>2. award' = [award EXCEPT ![i] = a] /\ a # Free /\ i \in Slots
    BY <1>2, <2>1 DEF InFlight
  <2>3. /\ \A j \in InFlight' : j = i \/ (j \in InFlight /\ award'[j] = award[j])
        /\ \A j \in InFlight : j # i => j \in InFlight' /\ award'[j] = award[j]
        /\ award'[i] = a /\ i \in InFlight'
    <3>1. \A j \in InFlight' : j = i \/ (j \in InFlight /\ award'[j] = award[j])
      BY <2>2, OneSlot
    <3>2. \A j \in InFlight : j # i => j \in InFlight' /\ award'[j] = award[j]
      BY <2>2, OneSlot
    <3>3. award'[i] = a /\ i \in InFlight'
      BY <2>2, OneSlot
    <3> QED BY <3>1, <3>2, <3>3
  <2> QED BY <2>1, <2>3
<1>4. \A j \in InFlight' : award'[j].user = award[j].user
  BY <1>2, <1>3
<1>5. \A j, k \in InFlight' : award'[j].user = award'[k].user => j = k
  BY <1>3, <1>4 DEF Orderly
<1>6. ASSUME NEW j \in InFlight', award'[j].pc = "answered"
      PROVE  (award[j].balance = Known(award[j].user))'
  <2>1. CASE j = i
    BY <1>1, <1>2, <1>3, <2>1
  <2>2. CASE j # i
    <3>1. award[j].user # u /\ award'[j] = award[j] /\ j \in InFlight
      BY <1>3, <2>2 DEF Orderly
    <3> QED BY <1>1, <1>6, <3>1 DEF Orderly
  <2> QED BY <2>1, <2>2
<1>7. ASSUME NEW v \in Users,
             \A j \in InFlight' : award'[j].user = v => award'[j].pc # "answered"
      PROVE  moemoepoint'[v] = Known(v)'
  <2>1. v # u
    BY <1>2, <1>3, <1>7
  <2>2. \A j \in InFlight : award[j].user = v => award[j].pc # "answered"
    BY <1>3, <1>4, <1>7, <2>1
  <2> QED BY <2>1, <2>2 DEF Orderly
<1> QED BY <1>5, <1>6, <1>7 DEF Orderly

LEMMA OrderAward ==
  ASSUME Types, OInv, AwardStep
  PROVE  OInv'
<1> SUFFICES ASSUME faults' = 0, ~disorder' PROVE Orderly'
  BY DEF OInv
<1>1. PICK i \in Slots : Adjust(i) \/ Balance(i) \/ WriteMirror(i) \/ AwardFails(i)
  BY DEF AwardStep
<1>2. i \in InFlight /\ award[i] \in Awards /\ award[i].user \in Users
  BY <1>1 DEF Adjust, Balance, WriteMirror, AwardFails, InFlight, Types, Awards
<1>3. CASE Adjust(i) /\ AdjustFirst(i)
  <2> DEFINE u == award[i].user  b == ledger[u] + award[i].delta
  <2>1. /\ moemoepoint' = moemoepoint /\ disorder' = disorder /\ b \in Int
        /\ faults' = faults \/ faults' = faults + 1
        /\ ledger' = [ledger EXCEPT ![u] = b] /\ since' = [since EXCEPT ![u] = 0]
        /\ award' = [award EXCEPT ![i] = Answered(award[i], b)] \/ faults' # faults
    BY <1>2, <1>3, FirstMoves DEF Adjust, Types
  <2>2. Orderly /\ award' = [award EXCEPT ![i] = Answered(award[i], b)]
    BY <2>1, OrderBefore
  <2> HIDE DEF b
  <2>3. \A v \in Users : IF v = u THEN Known(v)' = b ELSE Known(v)' = Known(v)
    BY <1>2, <2>1 DEF Known, Types
  <2> QED BY <1>2, <2>1, <2>2, <2>3, OrderAnswered
<1>4. CASE Adjust(i) /\ AdjustAgain(i)
  BY <1>2, <1>4, AgainMoves
<1>5. CASE AwardFails(i)
  BY <1>5 DEF AwardFails, Faulty, Types
<1>6. CASE WriteMirror(i)
  <2>1. /\ award' = [award EXCEPT ![i] = Free] /\ UNCHANGED <<ledger, since, disorder, faults>>
        /\ moemoepoint' = [moemoepoint EXCEPT ![award[i].user] = award[i].balance]
        /\ award[i].pc = "answered"
    BY <1>6 DEF WriteMirror, Ends
  <2>2. Orderly
    BY <2>1, OrderBefore
  <2>3. /\ \A j \in InFlight' : j # i /\ j \in InFlight /\ award'[j] = award[j]
        /\ \A j \in InFlight : j # i => j \in InFlight' /\ award'[j] = award[j]
    BY <2>1, OneSlot
  <2>4. \A u : Known(u)' = Known(u)
    BY <2>1 DEF Known
  <2>5. /\ \A j, k \in InFlight' : award'[j].user = award'[k].user => j = k
        /\ \A j \in InFlight' :
             award'[j].pc = "answered" => (award[j].balance = Known(award[j].user))'
    BY <2>2, <2>3, <2>4 DEF Orderly
  <2>6. ASSUME NEW v \in Users,
               \A j \in InFlight' : award'[j].user = v => award'[j].pc # "answered"
        PROVE  moemoepoint'[v] = Known(v)'
    <3>1. CASE v = award[i].user
      <4>1. moemoepoint'[v] = award[i].balance
        BY <2>1, <3>1 DEF Types
      <4> QED BY <1>2, <2>1, <2>2, <2>4, <3>1, <4>1 DEF Orderly
    <3>2. CASE v # award[i].user
      <4>1. moemoepoint'[v] = moemoepoint[v]
        BY <2>1, <3>2 DEF Types
      <4>2. \A j \in InFlight : award[j].user = v => award[j].pc # "answered"
        BY <2>3, <2>6, <3>2
      <4> QED BY <2>2, <2>4, <4>1, <4>2 DEF Orderly
    <3> QED BY <3>1, <3>2
  <2> QED BY <2>5, <2>6 DEF Orderly
<1>7. CASE Balance(i)
  <2>1. /\ award' = [award EXCEPT ![i] = Answered(award[i], ledger[award[i].user])]
        /\ ledger[award[i].user] \in Int /\ since' = [since EXCEPT ![award[i].user] = 0]
        /\ UNCHANGED <<ledger, entries, moemoepoint, disorder, faults>>
    BY <1>7, ReadMoves
  <2>2. Orderly
    BY <2>1, OrderBefore
  <2>3. PICK b \in Int : b = ledger[award[i].user]
    BY <2>1
  <2>4. \A v \in Users : IF v = award[i].user THEN Known(v)' = b ELSE Known(v)' = Known(v)
    BY <1>2, <2>1, <2>3 DEF Known, Types
  <2> QED BY <1>2, <2>1, <2>2, <2>3, <2>4, OrderAnswered
<1> QED BY <1>1, <1>3, <1>4, <1>5, <1>6, <1>7 DEF Adjust

LEMMA OrderStep ==
  ASSUME Types, SInv, OInv, [Next]_vars
  PROVE  OInv'
<1>1. CASE UNCHANGED awardVars
  BY <1>1 DEF OInv, Orderly, Known, InFlight, awardVars
<1>2. ASSUME NEW w \in Workers, CountLike(w) \/ PayCheckIn(w) \/ SettleFavorite(w) PROVE OInv'
  <2>1. ~At(w, "idle") /\ UNCHANGED <<ledger, entries, moemoepoint, since, faults>>
    BY <1>2, PayMoves
  <2>2. CASE UNCHANGED <<award, disorder>>
    BY <1>1, <2>1, <2>2 DEF awardVars
  <2>3. ASSUME NEW user \in Users, NEW delta \in Int, NEW key \in AwardKeys,
               Makes(user, delta, key), faults' = 0, ~disorder'
        PROVE  Orderly'
    <3>1. disorder => disorder'
      BY <2>3, AwardTakes
    <3>2. Orderly
      BY <2>1, <2>3, <3>1, OrderBefore
    <3>3. Sends("asking", user, delta, key)
      BY <2>3 DEF Makes, Award
    <3> QED BY <2>1, <2>3, <3>2, <3>3, SlotLeft, OrderSent
  <2> QED BY <1>2, <2>2, <2>3, PayMoves DEF OInv
<1>3. ASSUME NEW w \in Workers,
             \/ CreateLike(w) \/ DeleteLike(w) \/ PutFolderItem(w) \/ DeleteFolderItem(w)
             \/ CreateFollow(w) \/ \E u \in Fans : Request(w, u)
      PROVE  UNCHANGED awardVars
  BY <1>3, WriteMoves, OtherMoves, RequestMoves
<1>4. CASE \/ \E u \in Fans : ChangeElsewhere(u) \/ PurgeUser(u)
           \/ DailyReset \/ UNCHANGED vars
  BY <1>1, <1>4, OtherMoves DEF vars
<1>5. ASSUME NEW w \in Workers, Stops(w) PROVE OInv'
  <2>1. faults' = faults + 1
    BY <1>5, OtherMoves
  <2> QED BY <2>1 DEF OInv, Types
<1>6. ASSUME NEW u \in Users, Accounts(u), faults' = 0, ~disorder' PROVE Orderly'
  <2>1. /\ requests < MaxRequests /\ moemoepoint' = moemoepoint /\ faults' = faults
    BY <1>6, AccountMoves
  <2>2. ASSUME NEW pc \in {"asking", "reading"}, NEW delta \in Int, NEW key \in AwardKeys,
               Sends(pc, u, delta, key), UNCHANGED <<ledger, since>>
        PROVE  Orderly'
    <3>1. disorder => disorder'
      BY <2>2, SendTakes
    <3>2. Orderly
      BY <1>6, <2>1, <3>1, OrderBefore
    <3> QED BY <1>6, <2>1, <2>2, <3>2, RoomLeft, OrderSent
  <2>3. CASE UNCHANGED <<award, disorder>>
    <3>1. Orderly /\ InFlight' = InFlight
      BY <1>6, <2>1, <2>3, OrderBefore DEF InFlight
    <3>2. \A v \in Users : Known(v)' = Known(v)
      <4>1. CASE UNCHANGED <<ledger, since>>
        BY <4>1 DEF Known
      <4>2. ASSUME NEW d \in Int, ledger' = [ledger EXCEPT ![u] = ledger[u] + d],
                   since' = [since EXCEPT ![u] = since[u] + d]
            PROVE  \A v \in Users : Known(v)' = Known(v)
        BY <4>2 DEF Known, Types
      <4> QED BY <1>6, <4>1, <4>2, AccountMoves
    <3>3. \A j \in InFlight : award[j].user \in Users
      BY DEF Types, InFlight, Awards
    <3> QED BY <2>1, <2>3, <3>1, <3>2, <3>3 DEF Orderly
  <2> QED BY <1>6, <2>2, <2>3, AccountSends
<1> QED BY <1>1, <1>2, <1>3, <1>4, <1>5, <1>6, OrderAward, StepKinds DEF OInv

LEMMA MirrorIs ==
  ASSUME Types, HInv, OInv
  PROVE  MirrorFollowsLedger
<1>1. ASSUME Settled, faults = 0, ~disorder, NEW u \in Users
      PROVE  ledger[u] = moemoepoint[u] + since[u]
  <2>1. moemoepoint[u] = ledger[u] - since[u]
    BY <1>1 DEF OInv, Orderly, Known, Settled
  <2> QED BY <2>1 DEF Types
<1> QED BY <1>1 DEF MirrorFollowsLedger, HInv, Had

-----------------------------------------------------------------------------
(***************************************************************************)
(* Sums.  Sum is a fold over a function that MapThenSumSet chooses; what   *)
(* is needed of it is that any element may be taken from a sum.            *)
(***************************************************************************)
First(s) == CHOOSE x \in s : TRUE
Sums(f, S) ==
  f = [s \in SUBSET S |-> IF s = {} THEN 0 ELSE First(s).delta + f[s \ {First(s)}]]

LEMMA FirstIn ==
  ASSUME NEW s, s # {}
  PROVE  First(s) \in s /\ s \ {First(s)} \in SUBSET s /\ s \ {First(s)} # s
  BY DEF First

LEMMA Unfold ==
  ASSUME NEW S
  PROVE  Sum(S) = (CHOOSE f : Sums(f, S))[S]
  BY DEF Sum, MapThenSumSet, MapThenFoldSet, First, Sums

\* What holds of a set if it holds of all smaller ones holds of all subsets of a finite set.
LEMMA SubsetsReached ==
  ASSUME NEW S, IsFiniteSet(S), NEW G,
         \A s \in SUBSET S : (\A t \in SUBSET s : t # s => t \in G) => s \in G
  PROVE  \A s \in SUBSET S : s \in G
<1> DEFINE T == (SUBSET S) \ G
<1>1. IsWellFoundedOn(StrictSubsetOrdering(S), SUBSET S)
  BY FS_StrictSubsetOrderingWellFounded, FS_FiniteSubsetsOfFinite
<1>2. SUFFICES ASSUME T # {} PROVE FALSE
  OBVIOUS
<1>3. PICK s \in T : \A t \in T : <<t, s>> \notin StrictSubsetOrdering(S)
  <2>1. T \subseteq SUBSET S
    OBVIOUS
  <2> HIDE DEF T
  <2> QED BY <1>1, <1>2, <2>1, WFMin
<1>4. ASSUME NEW t \in SUBSET s, t # s PROVE t \in G
  <2>1. t \in SUBSET S
    BY <1>3
  <2>2. <<t, s>> \in StrictSubsetOrdering(S)
    BY <1>3, <1>4, <2>1 DEF StrictSubsetOrdering
  <2> QED BY <1>3, <2>1, <2>2
<1> QED BY <1>3, <1>4

LEMMA SumsAt ==
  ASSUME NEW S, NEW f, Sums(f, S)
  PROVE  /\ f[{}] = 0
         /\ \A s \in SUBSET S : s # {} => f[s] = First(s).delta + f[s \ {First(s)}]
  BY DEF Sums

LEMMA SumsAgree ==
  ASSUME NEW S, NEW T, IsFiniteSet(S), NEW f, NEW g, Sums(f, S), Sums(g, T),
         NEW r \in SUBSET S, r \in SUBSET T
  PROVE  f[r] = g[r]
<1> DEFINE G == {s \in SUBSET S : s \in SUBSET T => f[s] = g[s]}
<1>1. ASSUME NEW s \in SUBSET S, \A t \in SUBSET s : t # s => t \in G
      PROVE  s \in G
  <2>1. CASE s = {}
    BY <2>1, SumsAt
  <2>2. CASE s # {} /\ s \in SUBSET T
    <3>1. s \ {First(s)} \in G /\ s \ {First(s)} \in SUBSET T
      BY <1>1, <2>2, FirstIn
    <3>2. f[s \ {First(s)}] = g[s \ {First(s)}]
      BY <3>1
    <3>3. f[s] = First(s).delta + f[s \ {First(s)}] /\ g[s] = First(s).delta + g[s \ {First(s)}]
      BY <2>2, SumsAt
    <3> QED BY <3>2, <3>3
  <2> QED BY <2>1, <2>2
<1>2. \A s \in SUBSET S : s \in G
  <2> HIDE DEF G
  <2> QED BY <1>1, SubsetsReached
<1> QED BY <1>2

\* A sum of some set of sums is the sum.
LEMMA SumsIsSum ==
  ASSUME NEW S, IsFiniteSet(S), NEW f, Sums(f, S)
  PROVE  Sum(S) = f[S]
<1>1. PICK g : g = CHOOSE h : Sums(h, S)
  OBVIOUS
<1>2. Sums(g, S)
  BY <1>1
<1>3. Sum(S) = g[S]
  BY <1>1, Unfold
<1> QED BY <1>2, <1>3, SumsAgree

\* Sums exist.
LEMMA SumsExist ==
  ASSUME NEW S, IsFiniteSet(S)
  PROVE  \A s \in SUBSET S : \E f : Sums(f, s)
<1> DEFINE G == {s \in SUBSET S : \E f : Sums(f, s)}
<1>1. ASSUME NEW s \in SUBSET S, \A t \in SUBSET s : t # s => t \in G
      PROVE  s \in G
  <2> DEFINE Unfolded(t) == IF t = {} THEN 0 ELSE First(t).delta + Sum(t \ {First(t)})
             f == [t \in SUBSET s |-> Unfolded(t)]
  <2>1. ASSUME NEW t \in SUBSET s, t # s PROVE Sum(t) = Unfolded(t)
    <3>1. t \in G /\ IsFiniteSet(t)
      BY <1>1, <2>1, FS_Subset
    <3>2. PICK g : Sums(g, t)
      BY <3>1
    <3>3. Sum(t) = g[t]
      BY <3>1, <3>2, SumsIsSum
    <3>4. CASE t = {}
      BY <3>2, <3>3, <3>4, SumsAt
    <3>5. CASE t # {}
      <4> DEFINE r == t \ {First(t)}
      <4>1. r \in SUBSET t /\ r # t
        BY <3>5, FirstIn
      <4>2. r \in G /\ IsFiniteSet(r)
        BY <1>1, <2>1, <3>1, <4>1, FS_Subset
      <4>3. PICK h : Sums(h, r)
        BY <4>2
      <4>4. Sum(r) = h[r] /\ h[r] = g[r]
        <5>1. r \in SUBSET r
          OBVIOUS
        <5>2. IsFiniteSet(r)
          BY <4>2
        <5> HIDE DEF r
        <5>3. h[r] = g[r]
          BY <3>2, <4>1, <4>3, <5>1, <5>2, SumsAgree
        <5> QED BY <4>3, <5>2, <5>3, SumsIsSum
      <4>5. g[t] = First(t).delta + g[r]
        BY <3>2, <3>5, SumsAt
      <4> QED BY <3>3, <3>5, <4>4, <4>5
    <3> QED BY <3>4, <3>5
  <2>2. ASSUME NEW t \in SUBSET s, t # {}
        PROVE  f[t] = First(t).delta + f[t \ {First(t)}]
    <3> DEFINE r == t \ {First(t)}
    <3>1. r \in SUBSET s /\ r # s
      BY <2>2, FirstIn
    <3>2. f[t] = First(t).delta + Sum(r)
      BY <2>2
    <3>3. f[r] = Sum(r)
      BY <2>1, <3>1
    <3> QED BY <3>2, <3>3
  <2>3. f = [t \in SUBSET s |-> IF t = {} THEN 0 ELSE First(t).delta + f[t \ {First(t)}]]
    <3>1. \A t \in SUBSET s :
             f[t] = IF t = {} THEN 0 ELSE First(t).delta + f[t \ {First(t)}]
      BY <2>2
    <3>2. f = [t \in SUBSET s |-> f[t]]
      OBVIOUS
    <3> HIDE DEF f
    <3> QED BY <3>1, <3>2
  <2>4. Sums(f, s)
    <3> HIDE DEF f
    <3> QED BY <2>3 DEF Sums
  <2> QED BY <2>4
<1>2. \A s \in SUBSET S : s \in G
  <2> HIDE DEF G
  <2> QED BY <1>1, SubsetsReached
<1> QED BY <1>2

LEMMA SumIs ==
  ASSUME NEW S, IsFiniteSet(S)
  PROVE  /\ S = {} => Sum(S) = 0
         /\ S # {} => Sum(S) = First(S).delta + Sum(S \ {First(S)})
<1>1. PICK f : Sums(f, S)
  BY SumsExist
<1>2. Sum(S) = f[S]
  BY <1>1, SumsIsSum
<1>3. CASE S = {}
  BY <1>1, <1>2, <1>3, SumsAt
<1>4. CASE S # {}
  <2> DEFINE r == S \ {First(S)}
  <2>1. r \in SUBSET S /\ IsFiniteSet(r)
    BY <1>4, FirstIn, FS_Subset
  <2>2. PICK h : Sums(h, r)
    BY <2>1, SumsExist
  <2>3. Sum(r) = h[r] /\ h[r] = f[r]
    BY <1>1, <2>1, <2>2, SumsIsSum, SumsAgree
  <2>4. f[S] = First(S).delta + f[r]
    BY <1>1, <1>4, SumsAt
  <2> QED BY <1>2, <1>4, <2>3, <2>4
<1> QED BY <1>3, <1>4

\* A sum does not depend on the order: any element may be taken from it.
LEMMA SumRemove ==
  ASSUME NEW S, IsFiniteSet(S), \A x \in S : x.delta \in Int
  PROVE  Sum(S) \in Int /\ \A x \in S : Sum(S) = x.delta + Sum(S \ {x})
<1> DEFINE Fine(s) == Sum(s) \in Int /\ \A x \in s : Sum(s) = x.delta + Sum(s \ {x})
           G == {s \in SUBSET S : Fine(s)}
<1>1. ASSUME NEW s \in SUBSET S, \A t \in SUBSET s : t # s => t \in G
      PROVE  s \in G
  <2>1. IsFiniteSet(s)
    BY FS_Subset
  <2>2. CASE s = {}
    <3>1. Sum(s) = 0
      BY <2>1, <2>2, SumIs
    <3> QED BY <2>2, <3>1
  <2>3. CASE s # {}
    <3>1. PICK y : y = First(s)
      OBVIOUS
    <3>2. y \in s /\ y.delta \in Int /\ Sum(s) = y.delta + Sum(s \ {y})
      BY <2>1, <2>3, <3>1, FirstIn, SumIs
    <3>3. ASSUME NEW x \in s PROVE Fine(s \ {x})
      <4>1. s \ {x} \in SUBSET s /\ s \ {x} # s
        OBVIOUS
      <4>2. s \ {x} \in G
        BY <1>1, <4>1
      <4> QED BY <4>2
    <3>4. Sum(s) \in Int
      BY <3>2, <3>3
    <3>5. ASSUME NEW x \in s, x # y PROVE Sum(s) = x.delta + Sum(s \ {x})
      <4>1. x \in s \ {y} /\ y \in s \ {x} /\ (s \ {x}) \ {y} = (s \ {y}) \ {x}
        BY <3>2, <3>5
      <4>2. PICK r : r = (s \ {x}) \ {y}
        OBVIOUS
      <4>3. Sum(s \ {y}) = x.delta + Sum(r) /\ Sum(s \ {x}) = y.delta + Sum(r)
        BY <3>2, <3>3, <4>1, <4>2
      <4>4. Sum(r) \in Int /\ x.delta \in Int
        <5>1. r \in SUBSET s /\ r # s
          BY <3>2, <4>2
        <5>2. r \in G
          BY <1>1, <5>1
        <5> QED BY <5>2
      <4> QED BY <3>2, <4>3, <4>4
    <3> QED BY <3>2, <3>4, <3>5
  <2> QED BY <2>2, <2>3
<1>2. \A s \in SUBSET S : s \in G
  <2> HIDE DEF G
  <2> QED BY <1>1, SubsetsReached
<1> QED BY <1>2

LEMMA SumAdd ==
  ASSUME NEW S, IsFiniteSet(S), \A x \in S : x.delta \in Int, NEW y, y.delta \in Int, y \notin S
  PROVE  Sum(S) \in Int /\ Sum(S \cup {y}) = Sum(S) + y.delta
<1>1. IsFiniteSet(S \cup {y}) /\ (S \cup {y}) \ {y} = S
  BY FS_AddElement
<1>2. Sum(S) \in Int
  BY SumRemove
<1>3. Sum(S \cup {y}) = y.delta + Sum((S \cup {y}) \ {y})
  <2>1. \A x \in S \cup {y} : x.delta \in Int
    OBVIOUS
  <2> QED BY <1>1, <2>1, SumRemove
<1>4. PICK n \in Int : n = Sum(S)
  BY <1>2
<1>5. Sum(S \cup {y}) = y.delta + n
  BY <1>1, <1>3, <1>4
<1> QED BY <1>4, <1>5

LEMMA SumNat ==
  ASSUME NEW S, IsFiniteSet(S), \A x \in S : x.delta \in Nat
  PROVE  Sum(S) \in Nat
<1> DEFINE G == {s \in SUBSET S : Sum(s) \in Nat}
<1>1. ASSUME NEW s \in SUBSET S, \A t \in SUBSET s : t # s => t \in G
      PROVE  s \in G
  <2>1. IsFiniteSet(s)
    BY FS_Subset
  <2>2. CASE s = {}
    <3>1. Sum(s) = 0
      BY <2>1, <2>2, SumIs
    <3> QED BY <3>1
  <2>3. CASE s # {}
    <3>1. PICK x \in s : x = First(s)
      BY <2>3, FirstIn
    <3>2. PICK r : r = s \ {x}
      OBVIOUS
    <3>3. Sum(s) = x.delta + Sum(r)
      BY <2>1, <2>3, <3>1, <3>2, SumIs
    <3>4. r \in G
      BY <1>1, <3>2
    <3>5. Sum(r) \in Nat /\ x.delta \in Nat
      BY <3>4
    <3> QED BY <3>3, <3>5
  <2> QED BY <2>2, <2>3
<1>2. \A s \in SUBSET S : s \in G
  <2> HIDE DEF G
  <2> QED BY <1>1, SubsetsReached
<1> QED BY <1>2

-----------------------------------------------------------------------------
(***************************************************************************)
(* What awards under some keys bring: what was entered under them, and     *)
(* what is still asked for.                                                *)
(***************************************************************************)
Asking == {i \in Slots : award[i].pc = "asking"}
UsedKeys == Keys \cup {award[i].key : i \in Asking}

Asks(i, K) == award[i].pc = "asking" /\ award[i].key \in K
Owed(i) == [slot |-> i, delta |-> award[i].delta]
In(K) == {e \in entries : e.key \in K}
Due(K) == {Owed(i) : i \in {j \in Slots : Asks(j, K)}}
Total(K) == Sum(In(K)) + Sum(Due(K))

\* A key of K is used by one award at a time, and by none after it was entered.
Once(K) ==
  \A i \in Asking : award[i].key \in K =>
    award[i].key \notin Keys /\ \A j \in Asking : award[j].key = award[i].key => i = j

LEMMA AsksIs ==
  ASSUME Types, NEW i \in Slots, award[i].pc = "asking"
  PROVE  i \in InFlight /\ i \in Asking /\ award[i] \in Awards /\ award[i].delta \in Int
  BY DEF Types, InFlight, Asking, Free, Awards

\* A sum is one of integers.
LEMMA TotalIs ==
  ASSUME Types, IsFiniteSet(entries), NEW K
  PROVE  /\ IsFiniteSet(In(K)) /\ (\A e \in In(K) : e.delta \in Int) /\ Sum(In(K)) \in Int
         /\ IsFiniteSet(Due(K)) /\ (\A d \in Due(K) : d.delta \in Int) /\ Sum(Due(K)) \in Int
<1>1. IsFiniteSet(In(K)) /\ \A e \in In(K) : e.delta \in Int
  <2>1. In(K) \in SUBSET entries
    BY DEF In
  <2> QED BY <2>1, FS_Subset DEF Types, Entries
<1>2. IsFiniteSet(Due(K))
  <2> DEFINE S == {j \in Slots : Asks(j, K)}
             f == [j \in S |-> Owed(j)]
  <2>1. IsFiniteSet(S)
    <3>1. S \in SUBSET Slots
      OBVIOUS
    <3> QED BY <3>1, SlotsAre
  <2>2. f \in Surjection(S, Due(K))
    BY DEF Due, Surjection
  <2> HIDE DEF S, f
  <2> QED BY <2>1, <2>2, FS_Surjection
<1>3. ASSUME NEW d \in Due(K) PROVE d.delta \in Int
  <2>1. PICK j \in Slots : Asks(j, K) /\ d = Owed(j)
    BY DEF Due
  <2>2. award[j].delta \in Int
    BY <2>1, AsksIs DEF Asks
  <2> QED BY <2>1, <2>2 DEF Owed
<1>4. Sum(In(K)) \in Int /\ Sum(Due(K)) \in Int
  BY <1>1, <1>2, <1>3, SumRemove
<1> QED BY <1>1, <1>2, <1>3, <1>4

\* One slot is written: what it asks for is due, and what it asked for no longer.
LEMMA DueMoves ==
  ASSUME Types, Types', IsFiniteSet(entries), NEW K, NEW i \in Slots, NEW a,
         award' = [award EXCEPT ![i] = a]
  PROVE  /\ ~Asks(i, K) /\ ~Asks(i, K)' => Due(K)' = Due(K)
         /\ ~Asks(i, K) /\ Asks(i, K)' => Sum(Due(K)') = Sum(Due(K)) + a.delta
         /\ Asks(i, K) /\ ~Asks(i, K)' => Sum(Due(K)) = award[i].delta + Sum(Due(K)')
<1>1. /\ award'[i] = a
      /\ \A j \in Slots : j # i => award'[j] = award[j]
  BY DEF Types
<1>2. \A j \in Slots : j # i => (Asks(j, K)' <=> Asks(j, K)) /\ Owed(j)' = Owed(j)
  BY <1>1 DEF Asks, Owed
<1>3. \A j : Owed(j) # Owed(i)' \/ j = i
  BY DEF Owed
<1>4. CASE ~Asks(i, K) /\ ~Asks(i, K)'
  <2>1. Due(K)' = Due(K)
    BY <1>2, <1>4 DEF Due
  <2> QED BY <1>4, <2>1
<1>5. CASE ~Asks(i, K) /\ Asks(i, K)'
  <2>1. PICK d : d = Owed(i)'
    OBVIOUS
  <2>2. Due(K)' = Due(K) \cup {d} /\ d \notin Due(K)
    BY <1>2, <1>3, <1>5, <2>1 DEF Due
  <2>3. d.delta = a.delta /\ d.delta \in Int
    <3>1. d.delta = a.delta
      BY <1>1, <2>1 DEF Owed
    <3>2. award'[i].delta \in Int
      BY <1>5, AsksIs DEF Asks, Types, Awards, Free
    <3> QED BY <1>1, <3>1, <3>2
  <2>4. Sum(Due(K) \cup {d}) = Sum(Due(K)) + d.delta
    BY <2>2, <2>3, TotalIs, SumAdd
  <2> QED BY <1>5, <2>2, <2>3, <2>4
<1>6. CASE Asks(i, K) /\ ~Asks(i, K)'
  <2>1. PICK d : d = Owed(i)
    OBVIOUS
  <2>2. Due(K)' = Due(K) \ {d} /\ d \in Due(K)
    <3>1. \A j \in Slots : Owed(j) = d => j = i
      BY <2>1 DEF Owed
    <3> QED BY <1>2, <1>6, <2>1, <3>1 DEF Due
  <2>3. d.delta = award[i].delta
    BY <2>1 DEF Owed
  <2>4. Sum(Due(K)) = d.delta + Sum(Due(K) \ {d})
    BY <2>2, TotalIs, SumRemove
  <2> QED BY <1>6, <2>2, <2>3, <2>4
<1> QED BY <1>4, <1>5, <1>6

\* Nothing was asked for or entered.
LEMMA TotalSame ==
  ASSUME UNCHANGED <<award, entries>>, NEW K
  PROVE  UNCHANGED <<UsedKeys, Keys, Asking, Total(K), Once(K)>>
  BY DEF UsedKeys, Keys, Asking, Total, In, Due, Asks, Owed, Once

\* An award that is made is asked for.
LEMMA MakeAdds ==
  ASSUME Types, Types', IsFiniteSet(entries), NEW K, Slots # InFlight, entries' = entries,
         NEW user \in Users, NEW delta \in Int, NEW key \in AwardKeys, Makes(user, delta, key)
  PROVE  /\ Total(K)' = Total(K) + (IF key \in K THEN delta ELSE 0)
         /\ Total(K) \in Int
         /\ UsedKeys' = UsedKeys \cup {key}
         /\ Once(K) /\ (key \in K => key \notin UsedKeys) => Once(K)'
<1>1. PICK i : /\ award' = [award EXCEPT ![i] = Asked(user, delta, key)]
               /\ i \in Slots \ InFlight
  BY AwardTakes
<1>2. /\ award'[i] = Asked(user, delta, key)
      /\ \A j \in Slots : j # i => award'[j] = award[j]
  BY <1>1 DEF Types
<1>3. /\ Asked(user, delta, key).pc = "asking" /\ Asked(user, delta, key).key = key
      /\ Asked(user, delta, key).delta = delta
  BY AwardTakes
<1>4. i \notin Asking /\ i \in Slots
  BY <1>1, AsksIs DEF Asking
<1>5. Asking' = Asking \cup {i}
  BY <1>2, <1>3, <1>4 DEF Asking
<1>6. \A j \in Asking : j # i /\ j \in Slots /\ award'[j] = award[j]
  BY <1>2, <1>4 DEF Asking
<1>7. UsedKeys' = UsedKeys \cup {key} /\ Keys' = Keys
  BY <1>2, <1>3, <1>5, <1>6 DEF UsedKeys, Keys
<1>8. Once(K) /\ (key \in K => key \notin UsedKeys) => Once(K)'
  <2> SUFFICES ASSUME Once(K), key \in K => key \notin UsedKeys,
                      NEW j \in Asking', award'[j].key \in K
               PROVE  /\ award'[j].key \notin Keys
                      /\ \A k \in Asking' : award'[k].key = award'[j].key => j = k
    BY <1>7 DEF Once
  <2>1. \A k \in Asking : award[k].key \in UsedKeys
    BY DEF UsedKeys
  <2>2. \A k \in Keys : k \in UsedKeys
    BY DEF UsedKeys
  <2>3. CASE j = i
    BY <1>2, <1>3, <1>5, <1>6, <2>1, <2>2, <2>3
  <2>4. CASE j \in Asking
    BY <1>2, <1>3, <1>5, <1>6, <2>1, <2>2, <2>4 DEF Once
  <2> QED BY <1>5, <2>3, <2>4
<1>9. Total(K)' = Total(K) + (IF key \in K THEN delta ELSE 0) /\ Total(K) \in Int
  <2>1. In(K)' = In(K)
    BY DEF In
  <2>2. ~Asks(i, K) /\ (Asks(i, K)' <=> key \in K)
    BY <1>2, <1>3, <1>4 DEF Asks, Asking
  <2>3. /\ key \in K => Sum(Due(K)') = Sum(Due(K)) + delta
        /\ key \notin K => Due(K)' = Due(K)
    BY <1>1, <1>3, <1>4, <2>2, DueMoves
  <2>4. Sum(In(K)) \in Int /\ Sum(Due(K)) \in Int
    BY TotalIs
  <2>5. Total(K)' = Sum(In(K)') + Sum(Due(K)')
    BY DEF Total
  <2>6. Total(K) = Sum(In(K)) + Sum(Due(K))
    BY DEF Total
  <2>7. CASE key \in K
    BY <2>1, <2>3, <2>4, <2>5, <2>6, <2>7
  <2>8. CASE key \notin K
    BY <2>1, <2>3, <2>4, <2>5, <2>6, <2>8
  <2> QED BY <2>7, <2>8
<1> QED BY <1>7, <1>8, <1>9

\* A balance that is read asks for nothing.
LEMMA ReadAdds ==
  ASSUME Types, Types', IsFiniteSet(entries), NEW K, Slots # InFlight, entries' = entries,
         NEW u \in Users, SyncBalance(u)
  PROVE  UNCHANGED <<UsedKeys, Total(K), Once(K)>>
<1>1. PICK i : award' = [award EXCEPT ![i] = Read(u)] /\ i \in Slots \ InFlight
  BY ReadTakes
<1>2. /\ award'[i].pc = "reading" /\ award[i].pc # "asking"
      /\ \A j \in Slots : j # i => award'[j] = award[j]
  BY <1>1, AsksIs, ReadTakes DEF Types
<1>3. /\ Asking' = Asking /\ \A j \in Asking : award'[j] = award[j]
      /\ Keys' = Keys /\ In(K)' = In(K)
  BY <1>1, <1>2 DEF Asking, Keys, In
<1>4. Due(K)' = Due(K)
  BY <1>1, <1>2, DueMoves DEF Asks
<1>5. UsedKeys' = UsedKeys /\ Once(K)' = Once(K)
  BY <1>3 DEF UsedKeys, Once
<1> QED BY <1>3, <1>4, <1>5 DEF Total

\* What else happens to balances is not entered under the keys of requests.
OtherKinds == {"approved", "elsewhere"}

LEMMA AccountAdds ==
  ASSUME Types, Types', SInv, IsFiniteSet(entries), NEW u \in Users, Accounts(u),
         NEW K, \A k \in K : k[1] \notin OtherKinds
  PROVE  /\ Total(K)' = Total(K) /\ (Once(K) => Once(K)')
         /\ \A k \in UsedKeys' : k \in UsedKeys \/ k[1] \in OtherKinds
         /\ \A e \in entries' : e \in entries \/ e.key[1] \in OtherKinds
         /\ \A i \in Asking' : award'[i].key[1] \notin OtherKinds => i \in Asking /\ award'[i] = award[i]
         /\ IsFiniteSet(entries')
<1>1. Slots # InFlight
  BY AccountMoves, RoomLeft
<1>2. ASSUME NEW e \in Approvals, <<"approved", e>> \in AwardKeys,
             Makes(u, 3, <<"approved", e>>), entries' = entries
      PROVE  /\ Total(K)' = Total(K) /\ (Once(K) => Once(K)')
             /\ \A k \in UsedKeys' : k \in UsedKeys \/ k[1] \in OtherKinds
             /\ \A i \in Asking' : award'[i].key[1] \notin OtherKinds =>
                                     i \in Asking /\ award'[i] = award[i]
  <2>1. PICK key : key = <<"approved", e>>
    OBVIOUS
  <2>2. key \in AwardKeys /\ 3 \in Int /\ Makes(u, 3, key) /\ key[1] \in OtherKinds /\ key \notin K
    BY <1>2, <2>1 DEF OtherKinds
  <2>3. /\ Total(K)' = Total(K) + (IF key \in K THEN 3 ELSE 0) /\ Total(K) \in Int
        /\ UsedKeys' = UsedKeys \cup {key}
        /\ Once(K) /\ (key \in K => key \notin UsedKeys) => Once(K)'
    BY <1>1, <1>2, <2>2, MakeAdds
  <2>4. ASSUME NEW i \in Asking', award'[i].key[1] \notin OtherKinds
        PROVE  i \in Asking /\ award'[i] = award[i]
    <3>1. PICK j : award' = [award EXCEPT ![j] = Asked(u, 3, key)] /\ Asked(u, 3, key).key = key
      BY <2>2, AwardTakes
    <3>2. i # j
      BY <2>2, <2>4, <3>1 DEF Types, Asking
    <3> QED BY <2>4, <3>1, <3>2 DEF Types, Asking
  <2> QED BY <2>2, <2>3, <2>4
<1>3. ASSUME SyncBalance(u), entries' = entries
      PROVE  /\ Total(K)' = Total(K) /\ (Once(K) => Once(K)')
             /\ \A k \in UsedKeys' : k \in UsedKeys
             /\ \A i \in Asking' : i \in Asking /\ award'[i] = award[i]
  <2>1. UsedKeys' = UsedKeys /\ Total(K)' = Total(K) /\ Once(K)' = Once(K)
    BY <1>1, <1>3, ReadAdds
  <2>2. PICK j : award' = [award EXCEPT ![j] = Read(u)] /\ Read(u).pc = "reading"
    BY <1>3, ReadTakes
  <2>3. \A i \in Asking' : i # j /\ i \in Asking /\ award'[i] = award[i]
    BY <2>2 DEF Types, Asking
  <2> QED BY <2>1, <2>3
<1>4. ASSUME NEW d \in Int, Gift(u, d).key[1] = "elsewhere",
             entries' = entries \cup {Gift(u, d)}, award' = award
      PROVE  /\ Total(K)' = Total(K) /\ (Once(K) => Once(K)')
             /\ \A k \in UsedKeys' : k \in UsedKeys \/ k[1] \in OtherKinds
             /\ \A i \in Asking' : i \in Asking /\ award'[i] = award[i]
             /\ \A e \in entries' : e \in entries \/ e.key[1] \in OtherKinds
             /\ IsFiniteSet(entries')
  <2>1. PICK e : e = Gift(u, d)
    OBVIOUS
  <2>2. entries' = entries \cup {e} /\ e.key[1] \in OtherKinds /\ e.key \notin K
    BY <1>4, <2>1 DEF OtherKinds
  <2>3. In(K)' = In(K) /\ Due(K)' = Due(K) /\ Asking' = Asking
    BY <1>4, <2>2 DEF In, Due, Asks, Owed, Asking
  <2>4. Keys' = Keys \cup {e.key}
    BY <2>2 DEF Keys
  <2>5. Once(K) => Once(K)'
    BY <1>4, <2>2, <2>3, <2>4 DEF Once
  <2>6. \A k \in UsedKeys' : k \in UsedKeys \/ k = e.key
    BY <1>4, <2>3, <2>4 DEF UsedKeys
  <2>7. IsFiniteSet(entries')
    BY <2>2, FS_AddElement
  <2> QED BY <1>4, <2>2, <2>3, <2>5, <2>6, <2>7 DEF Total
<1> QED BY <1>2, <1>3, <1>4, AccountMoves

\* The step of one award: it is entered, or it is over without an entry.
LEMMA AwardIs ==
  ASSUME Types, AwardStep
  PROVE  \E i, a :
           /\ i \in InFlight /\ award' = [award EXCEPT ![i] = a] /\ a.pc # "asking"
           /\ award[i] \in Awards
           /\ \/ /\ entries' = entries \cup {Entered(award[i])}
                 /\ award[i].pc = "asking" /\ award[i].key \notin Keys
              \/ /\ entries' = entries
                 /\ award[i].pc = "asking" => award[i].key \in Keys \/ faults' = faults + 1
<1>1. PICK i \in Slots : Adjust(i) \/ Balance(i) \/ WriteMirror(i) \/ AwardFails(i)
  BY DEF AwardStep
<1>2. i \in InFlight /\ award[i] \in Awards
  BY <1>1 DEF Adjust, Balance, WriteMirror, AwardFails, InFlight, Types
<1>3. Free.pc # "asking" /\ \A b \in Int : Answered(award[i], b).pc # "asking"
  BY <1>2, AnsweredIs DEF Free
<1>4. CASE Adjust(i) /\ AdjustFirst(i)
  <2>1. /\ ledger[award[i].user] + award[i].delta \in Int
        /\ entries' = entries \cup {Entered(award[i])} /\ award[i].key \notin Keys
        /\ \/ award' = [award EXCEPT ![i] =
                          Answered(award[i], ledger[award[i].user] + award[i].delta)]
           \/ award' = [award EXCEPT ![i] = Free]
    BY <1>2, <1>4, FirstMoves
  <2>2. award[i].pc = "asking"
    BY <1>4 DEF Adjust
  <2>3. \E a : award' = [award EXCEPT ![i] = a] /\ a.pc # "asking"
    BY <1>3, <2>1
  <2> QED BY <1>2, <2>1, <2>2, <2>3
<1>5. CASE Adjust(i) /\ AdjustAgain(i)
  <2>1. /\ entries' = entries
        /\ \/ \E b \in Int : award' = [award EXCEPT ![i] = Answered(award[i], b)]
           \/ award' = [award EXCEPT ![i] = Free]
    BY <1>2, <1>5, AgainMoves
  <2>2. award[i].key \in Keys
    BY <1>5 DEF AdjustAgain, Keys
  <2>3. \E a : award' = [award EXCEPT ![i] = a] /\ a.pc # "asking"
    BY <1>3, <2>1
  <2> QED BY <1>2, <2>1, <2>2, <2>3
<1>6. CASE WriteMirror(i) \/ AwardFails(i)
  <2>1. /\ award' = [award EXCEPT ![i] = Free] /\ entries' = entries
        /\ award[i].pc = "asking" => faults' = faults + 1
    BY <1>6 DEF WriteMirror, AwardFails, Ends, Faulty
  <2> QED BY <1>2, <1>3, <2>1
<1>7. CASE Balance(i)
  <2>1. /\ award' = [award EXCEPT ![i] = Answered(award[i], ledger[award[i].user])]
        /\ ledger[award[i].user] \in Int /\ entries' = entries /\ award[i].pc = "reading"
    BY <1>7, ReadMoves
  <2>2. \E a : award' = [award EXCEPT ![i] = a] /\ a.pc # "asking"
    BY <1>3, <2>1
  <2> QED BY <1>2, <2>1, <2>2
<1> QED BY <1>1, <1>4, <1>5, <1>6, <1>7 DEF Adjust

\* Awards use no key that was not used, and no key of K twice.
LEMMA AwardOnce ==
  ASSUME Types, Types', AwardStep, NEW K
  PROVE  UsedKeys' \subseteq UsedKeys /\ (Once(K) => Once(K)')
<1>1. PICK i, a :
        /\ i \in InFlight /\ award' = [award EXCEPT ![i] = a] /\ a.pc # "asking"
        /\ \/ entries' = entries \cup {Entered(award[i])} /\ award[i].pc = "asking"
           \/ entries' = entries
  BY AwardIs
<1>2. \A j \in Asking' : j # i /\ j \in Asking /\ award'[j] = award[j]
  BY <1>1 DEF Types, Asking
<1>3. \A k \in Keys' : k \in Keys \/ (i \in Asking /\ k = award[i].key)
  BY <1>1 DEF Keys, Entered, Asking, InFlight
<1>4. UsedKeys' \subseteq UsedKeys
  BY <1>2, <1>3 DEF UsedKeys
<1>5. ASSUME Once(K), NEW j \in Asking', award'[j].key \in K
      PROVE  /\ award'[j].key \notin Keys'
             /\ \A k \in Asking' : award'[k].key = award'[j].key => j = k
  <2>1. /\ award'[j] = award[j] /\ j \in Asking /\ j # i
        /\ \A k \in Asking' : k \in Asking /\ award'[k] = award[k]
    BY <1>2
  <2>2. award[j].key \notin Keys /\ \A k \in Asking : award[k].key = award[j].key => j = k
    BY <1>5, <2>1 DEF Once
  <2> QED BY <1>3, <2>1, <2>2
<1> QED BY <1>4, <1>5 DEF Once

\* What awards bring changes only by those that fail or are asked for in vain.
LEMMA AwardTotal ==
  ASSUME Types, Types', IsFiniteSet(entries), AwardStep, NEW K
  PROVE  /\ Total(K) \in Int /\ Total(K)' \in Int
         /\ Once(K) /\ faults' = faults => Total(K)' = Total(K)
         /\ (\A i \in Asking : award[i].key \in K => award[i].delta \in Nat) =>
              Total(K)' <= Total(K)
<1>1. PICK i, a :
        /\ i \in InFlight /\ award' = [award EXCEPT ![i] = a] /\ a.pc # "asking"
        /\ award[i] \in Awards
        /\ \/ /\ entries' = entries \cup {Entered(award[i])}
              /\ award[i].pc = "asking" /\ award[i].key \notin Keys
           \/ /\ entries' = entries
              /\ award[i].pc = "asking" => award[i].key \in Keys \/ faults' = faults + 1
  BY AwardIs
<1>2. i \in Slots /\ ~Asks(i, K)' /\ award[i].delta \in Int
  BY <1>1 DEF InFlight, Types, Asks, Awards
<1>3. /\ Asks(i, K) => Sum(Due(K)) = award[i].delta + Sum(Due(K)')
      /\ ~Asks(i, K) => Due(K)' = Due(K)
  BY <1>1, <1>2, DueMoves
<1>4. /\ Sum(In(K)) \in Int /\ Sum(Due(K)) \in Int /\ IsFiniteSet(In(K))
      /\ \A e \in In(K) : e.delta \in Int
  BY TotalIs
<1>5. Sum(Due(K)') \in Int
  <2>1. IsFiniteSet(entries')
    BY <1>1, FS_AddElement
  <2>2. IsFiniteSet(Due(K)') /\ \A d \in Due(K)' : d.delta \in Int
    <3>1. CASE Asks(i, K)
      <4>1. Due(K)' \subseteq Due(K)
        <5>1. \A j \in Slots : j # i => award'[j] = award[j]
          BY <1>1, <1>2 DEF Types
        <5> QED BY <1>2, <5>1 DEF Due, Asks, Owed
      <4> QED BY <4>1, TotalIs, FS_Subset
    <3>2. CASE ~Asks(i, K)
      BY <1>3, <3>2, TotalIs
    <3> QED BY <3>1, <3>2
  <2> QED BY <2>2, SumRemove
<1>6. /\ Total(K) = Sum(In(K)) + Sum(Due(K)) /\ Total(K)' = Sum(In(K)') + Sum(Due(K)')
  BY DEF Total
<1>7. CASE /\ entries' = entries \cup {Entered(award[i])}
           /\ award[i].pc = "asking" /\ award[i].key \notin Keys
  <2>1. PICK e : e = Entered(award[i])
    OBVIOUS
  <2>2. e.key = award[i].key /\ e.delta = award[i].delta /\ e \notin entries
    <3>1. e.key = award[i].key /\ e.delta = award[i].delta
      BY <2>1 DEF Entered
    <3> QED BY <1>7, <3>1 DEF Keys
  <2>3. CASE Asks(i, K)
    <3>1. In(K)' = In(K) \cup {e} /\ e \notin In(K)
      BY <1>7, <2>1, <2>2, <2>3 DEF In, Asks
    <3>2. Sum(In(K) \cup {e}) = Sum(In(K)) + e.delta
      BY <1>2, <1>4, <2>2, <3>1, SumAdd
    <3>3. Sum(In(K)') = Sum(In(K)) + award[i].delta
      BY <2>2, <3>1, <3>2
    <3> QED BY <1>2, <1>3, <1>4, <1>5, <1>6, <2>3, <3>3
  <2>4. CASE ~Asks(i, K)
    <3>1. In(K)' = In(K)
      BY <1>7, <2>1, <2>2, <2>4 DEF In, Asks
    <3> QED BY <1>3, <1>4, <1>6, <2>4, <3>1
  <2> QED BY <2>3, <2>4
<1>8. CASE /\ entries' = entries
           /\ award[i].pc = "asking" => award[i].key \in Keys \/ faults' = faults + 1
  <2>1. In(K)' = In(K)
    BY <1>8 DEF In
  <2>2. CASE Asks(i, K)
    <3>1. Total(K) = award[i].delta + Total(K)'
      BY <1>2, <1>3, <1>4, <1>5, <1>6, <2>1, <2>2
    <3>2. i \in Asking /\ award[i].key \in K
      BY <1>2, <2>2 DEF Asks, Asking
    <3>3. ~(Once(K) /\ faults' = faults)
      BY <1>8, <2>2, <3>2 DEF Once, Asks, Types
    <3>4. Total(K) \in Int /\ Total(K)' \in Int
      BY <1>4, <1>5, <1>6, <2>1
    <3> QED BY <1>2, <3>1, <3>2, <3>3, <3>4
  <2>3. CASE ~Asks(i, K)
    BY <1>3, <1>4, <1>6, <2>1, <2>3
  <2> QED BY <2>2, <2>3
<1> QED BY <1>1, <1>7, <1>8

-----------------------------------------------------------------------------
(***************************************************************************)
(* Check-ins.                                                              *)
(***************************************************************************)
\* Check-ins pay who checked in.
RightfulKey(user, delta, key) == key[1] = "checkin" => user = key[2] /\ delta \in Nat
Rightful(a) == RightfulKey(a.user, a.delta, a.key)

RInv ==
  /\ IsFiniteSet(entries) /\ earned \in [Fans -> Nat]
  /\ \A i \in Asking : Rightful(award[i])
  /\ \A e \in entries : Rightful(e)

\* What is paid, by what.
LEMMA PayIs ==
  ASSUME Types, NEW w \in Workers
  PROVE  /\ CountLike(w) =>
              /\ worker[w].content \in Contents /\ worker[w].rel \in Nat
              /\ UNCHANGED <<checkins, favourites>>
              /\ \/ UNCHANGED <<award, disorder>>
                 \/ \E kind \in {"like", "unlike"}, delta \in {1, -1} :
                      /\ <<kind, worker[w].content, worker[w].rel>> \in AwardKeys
                      /\ Makes(Author, delta, <<kind, worker[w].content, worker[w].rel>>)
         /\ PayCheckIn(w) =>
              /\ worker[w].user \in Fans /\ At(w, "dating")
              /\ UNCHANGED <<likes, favourites, checkedIn, late, days>>
              /\ <<"checkin", worker[w].user, days>> \in AwardKeys
              /\ \E p \in Nat :
                   /\ earned' = [earned EXCEPT ![worker[w].user] = @ + p]
                   /\ \/ p = 0 /\ award' = award
                      \/ Makes(worker[w].user, p, <<"checkin", worker[w].user, days>>)
         /\ SettleFavorite(w) =>
              /\ UNCHANGED <<likes, checkins, holding, elsewhere>>
              /\ worker[w].delta \in {-1, 0, 1}
              /\ \/ worker[w].delta = 0 /\ award' = award
                 \/ /\ <<"favorite", worker[w].delta>> \in AwardKeys
                    /\ Makes(Author, worker[w].delta, <<"favorite", worker[w].delta>>)
<1>1. ASSUME CountLike(w)
      PROVE  /\ worker[w].content \in Contents /\ worker[w].rel \in Nat
             /\ UNCHANGED <<checkins, favourites>>
             /\ \/ UNCHANGED <<award, disorder>>
                \/ \E kind \in {"like", "unlike"}, delta \in {1, -1} :
                     /\ <<kind, worker[w].content, worker[w].rel>> \in AwardKeys
                     /\ Makes(Author, delta, <<kind, worker[w].content, worker[w].rel>>)
  <2>1. /\ worker[w].content \in Contents /\ worker[w].rel \in Nat
    BY <1>1, PlaceOf DEF CountLike
  <2>2. \A kind \in {"like", "unlike"} :
          <<kind, worker[w].content, worker[w].rel>> \in AwardKeys
    BY <2>1 DEF AwardKeys
  <2>3. PICK kind \in {"like", "unlike"}, delta \in {1, -1, 0} :
          Award(Author, delta, <<kind, worker[w].content, worker[w].rel>>)
    BY <1>1 DEF CountLike, AwardLike
  <2> QED BY <1>1, <2>1, <2>2, <2>3 DEF CountLike, Makes, Award
<1>2. ASSUME PayCheckIn(w)
      PROVE  /\ worker[w].user \in Fans /\ At(w, "dating")
             /\ UNCHANGED <<likes, favourites, checkedIn, late, days>>
             /\ <<"checkin", worker[w].user, days>> \in AwardKeys
             /\ \E p \in Nat :
                  /\ earned' = [earned EXCEPT ![worker[w].user] = @ + p]
                  /\ \/ p = 0 /\ award' = award
                     \/ Makes(worker[w].user, p, <<"checkin", worker[w].user, days>>)
  <2>1. worker[w].user \in Fans /\ days \in Nat
    BY <1>2, PlaceOf DEF PayCheckIn, Types
  <2>2. <<"checkin", worker[w].user, days>> \in AwardKeys
    BY <2>1 DEF AwardKeys
  <2>3. PICK p \in Points :
          /\ Award(worker[w].user, p, <<"checkin", worker[w].user, days>>)
          /\ earned' = [earned EXCEPT ![worker[w].user] = @ + p]
    BY <1>2 DEF PayCheckIn
  <2>4. p \in Nat
    BY PointsAssumption
  <2>5. \/ p = 0 /\ award' = award
        \/ Makes(worker[w].user, p, <<"checkin", worker[w].user, days>>)
    BY <2>3 DEF Award, Makes
  <2> QED BY <1>2, <2>1, <2>2, <2>3, <2>4, <2>5 DEF PayCheckIn
<1>3. ASSUME SettleFavorite(w)
      PROVE  /\ UNCHANGED <<likes, checkins, holding, elsewhere>>
             /\ worker[w].delta \in {-1, 0, 1}
             /\ \/ worker[w].delta = 0 /\ award' = award
                \/ /\ <<"favorite", worker[w].delta>> \in AwardKeys
                   /\ Makes(Author, worker[w].delta, <<"favorite", worker[w].delta>>)
  <2>1. worker[w].delta \in {-1, 0, 1}
    BY <1>3, PlaceOf DEF SettleFavorite
  <2>2. Award(Author, worker[w].delta, <<"favorite", worker[w].delta>>)
    BY <1>3 DEF SettleFavorite
  <2>3. worker[w].delta # 0 => <<"favorite", worker[w].delta>> \in AwardKeys
    BY <2>1 DEF AwardKeys
  <2>4. \/ worker[w].delta = 0 /\ award' = award
        \/ Makes(Author, worker[w].delta, <<"favorite", worker[w].delta>>)
    BY <2>2 DEF Award, Makes
  <2> QED BY <1>3, <2>1, <2>3, <2>4 DEF SettleFavorite, Makes
<1> QED BY <1>1, <1>2, <1>3

\* An award is asked for as it is made.
LEMMA RightfulMade ==
  ASSUME Types, RInv, Slots # InFlight, entries' = entries, earned' \in [Fans -> Nat],
         NEW user \in Users, NEW delta \in Int, NEW key \in AwardKeys, Makes(user, delta, key),
         RightfulKey(user, delta, key)
  PROVE  RInv'
<1>1. PICK i : /\ award' = [award EXCEPT ![i] = Asked(user, delta, key)]
               /\ i \in Slots \ InFlight
  BY AwardTakes
<1>2. \A j \in Asking' : \/ award'[j] = Asked(user, delta, key)
                         \/ j \in Asking /\ award'[j] = award[j]
  BY <1>1 DEF Types, Asking
<1>3. Rightful(Asked(user, delta, key))
  BY AwardTakes DEF Rightful
<1>4. \A j \in Asking' : Rightful(award'[j])
  BY <1>2, <1>3 DEF RInv
<1> QED BY <1>4 DEF RInv, Rightful

LEMMA RightfulStep ==
  ASSUME Types, Types', SInv, RInv, [Next]_vars
  PROVE  RInv'
<1>1. CASE UNCHANGED <<award, entries, earned>>
  BY <1>1 DEF RInv, Asking
<1>2. ASSUME NEW w \in Workers, CountLike(w) \/ PayCheckIn(w) \/ SettleFavorite(w) PROVE RInv'
  <2>1. entries' = entries /\ Slots # InFlight
    BY <1>2, PayMoves, SlotLeft
  <2>2. Author \in Users /\ Fans \subseteq Users
    BY UsersAssumption
  <2>3. CASE CountLike(w)
    <3>1. earned' = earned
      BY <2>3, PayIs DEF checkins
    <3>2. CASE award' = award
      BY <1>1, <2>1, <3>1, <3>2
    <3>3. ASSUME NEW kind \in {"like", "unlike"}, NEW delta \in {1, -1},
                 <<kind, worker[w].content, worker[w].rel>> \in AwardKeys,
                 Makes(Author, delta, <<kind, worker[w].content, worker[w].rel>>)
          PROVE  RInv'
      <4>1. RightfulKey(Author, delta, <<kind, worker[w].content, worker[w].rel>>)
        BY DEF RightfulKey
      <4>2. earned' \in [Fans -> Nat] /\ delta \in Int
        BY <3>1 DEF RInv
      <4> QED BY <2>1, <2>2, <3>3, <4>1, <4>2, RightfulMade
    <3> QED BY <2>3, <3>2, <3>3, PayIs
  <2>4. CASE PayCheckIn(w)
    <3>1. PICK p \in Nat :
            /\ earned' = [earned EXCEPT ![worker[w].user] = @ + p]
            /\ \/ p = 0 /\ award' = award
               \/ Makes(worker[w].user, p, <<"checkin", worker[w].user, days>>)
      BY <2>4, PayIs
    <3>2. worker[w].user \in Users /\ <<"checkin", worker[w].user, days>> \in AwardKeys
      BY <2>2, <2>4, PayIs
    <3>3. earned' \in [Fans -> Nat]
      <4>1. worker[w].user \in Fans /\ earned \in [Fans -> Nat]
        BY <2>4, PayIs DEF RInv
      <4>2. earned[worker[w].user] + p \in Nat
        BY <4>1
      <4> QED BY <3>1, <4>1, <4>2
    <3>4. RightfulKey(worker[w].user, p, <<"checkin", worker[w].user, days>>)
      BY DEF RightfulKey
    <3>5. CASE award' = award
      <4>1. Asking' = Asking
        BY <3>5 DEF Asking
      <4> QED BY <2>1, <3>3, <3>5, <4>1 DEF RInv, Rightful
    <3>6. p \in Int
      OBVIOUS
    <3>7. CASE Makes(worker[w].user, p, <<"checkin", worker[w].user, days>>)
      BY <2>1, <3>2, <3>3, <3>4, <3>6, <3>7, RightfulMade
    <3> QED BY <3>1, <3>5, <3>7
  <2>5. CASE SettleFavorite(w)
    <3>1. earned' = earned /\ worker[w].delta \in Int
      <4>1. UNCHANGED checkins /\ worker[w].delta \in {-1, 0, 1}
        BY <2>5, PayIs
      <4> QED BY <4>1 DEF checkins
    <3>2. RightfulKey(Author, worker[w].delta, <<"favorite", worker[w].delta>>)
      BY DEF RightfulKey
    <3>3. earned' \in [Fans -> Nat]
      BY <3>1 DEF RInv
    <3>4. CASE award' = award
      BY <1>1, <2>1, <3>1, <3>4
    <3>5. CASE /\ <<"favorite", worker[w].delta>> \in AwardKeys
               /\ Makes(Author, worker[w].delta, <<"favorite", worker[w].delta>>)
      BY <2>1, <2>2, <3>1, <3>2, <3>3, <3>5, RightfulMade
    <3> QED BY <2>5, <3>4, <3>5, PayIs
  <2> QED BY <1>2, <2>3, <2>4, <2>5
<1>3. CASE AwardStep /\ earned' = earned
  <2>1. PICK i, a :
          /\ i \in InFlight /\ award' = [award EXCEPT ![i] = a] /\ a.pc # "asking"
          /\ \/ entries' = entries \cup {Entered(award[i])} /\ award[i].pc = "asking"
             \/ entries' = entries
    BY <1>3, AwardIs
  <2>2. \A j \in Asking' : j \in Asking /\ award'[j] = award[j]
    BY <2>1 DEF Types, Asking
  <2>3. i \in Asking => Rightful(Entered(award[i]))
    BY DEF Entered, RInv, Rightful
  <2>4. \A e \in entries' : Rightful(e)
    BY <2>1, <2>3 DEF RInv, Asking, InFlight
  <2>5. IsFiniteSet(entries')
    BY <2>1, FS_AddElement DEF RInv
  <2> QED BY <1>3, <2>2, <2>4, <2>5 DEF RInv, Rightful
<1>4. ASSUME NEW w \in Workers,
             \/ CreateLike(w) \/ DeleteLike(w) \/ PutFolderItem(w) \/ DeleteFolderItem(w)
             \/ CreateFollow(w) \/ Stops(w) \/ \E u \in Fans : Request(w, u)
      PROVE  UNCHANGED <<award, entries, earned>>
  BY <1>4, WriteMoves, OtherMoves, RequestMoves DEF awardVars, checkins
<1>5. CASE (\E u \in Fans : ChangeElsewhere(u) \/ PurgeUser(u)) \/ UNCHANGED vars
  BY <1>1, <1>5, OtherMoves DEF vars, awardVars, checkins
<1>6. CASE DailyReset
  BY <1>1, <1>6 DEF DailyReset, awardVars
<1>7. ASSUME NEW u \in Users, Accounts(u) PROVE RInv'
  <2>1. earned' = earned
    BY <1>7, AccountMoves DEF checkins
  <2>2. /\ \A e \in entries' : e \in entries \/ e.key[1] \in OtherKinds
        /\ \A i \in Asking' : award'[i].key[1] \notin OtherKinds =>
                                i \in Asking /\ award'[i] = award[i]
        /\ IsFiniteSet(entries')
    <3>1. PICK K : K = {}
      OBVIOUS
    <3>2. \A k \in K : k[1] \notin OtherKinds
      BY <3>1
    <3>3. IsFiniteSet(entries)
      BY DEF RInv
    <3> QED BY <1>7, <3>2, <3>3, AccountAdds
  <2>3. \A user, delta, key : key[1] \in OtherKinds => RightfulKey(user, delta, key)
    BY DEF RightfulKey, OtherKinds
  <2>4. \A e \in entries' : Rightful(e)
    BY <2>2, <2>3 DEF RInv, Rightful
  <2>5. \A i \in Asking' : Rightful(award'[i])
    BY <2>2, <2>3 DEF RInv, Rightful
  <2> QED BY <2>1, <2>2, <2>4, <2>5 DEF RInv, Rightful
<1> QED BY <1>1, <1>2, <1>3, <1>4, <1>5, <1>6, <1>7, StepKinds DEF checkins

DayKeys(u) == {"checkin"} \X {u} \X Nat

\* While no check-in stretched over midnight, a key of today was used by one who checked in
\* today, and whoever is being paid has not used it.
Dated ==
  /\ \A u \in Fans : <<"checkin", u, days>> \in UsedKeys => u \in checkedIn
  /\ \A w \in Workers : At(w, "dating") =>
       worker[w].user \in checkedIn /\ <<"checkin", worker[w].user, days>> \notin UsedKeys
  /\ \A v, w \in Workers :
       At(v, "dating") /\ At(w, "dating") /\ worker[v].user = worker[w].user => v = w
  /\ \A u \in Fans : Once(DayKeys(u))

DInv ==
  /\ \A k \in UsedKeys : k[1] = "checkin" => k[3] <= days
  /\ ~late => Dated
  /\ \A u \in Fans :
       /\ Total(DayKeys(u)) <= earned[u]
       /\ faults = 0 /\ ~late => Total(DayKeys(u)) = earned[u]

LEMMA UsedAre ==
  ASSUME Types
  PROVE  UsedKeys \subseteq AwardKeys
  BY AsksIs DEF Types, UsedKeys, Keys, Asking, Entries, Awards

LEMMA DayKeyIs ==
  ASSUME NEW u \in Fans, NEW v \in Fans, NEW n \in Nat
  PROVE  <<"checkin", u, n>> \in DayKeys(v) <=> u = v
  BY DEF DayKeys

\* A step that pays for no check-in and dates none.
LEMMA DatedSame ==
  ASSUME Types, DInv, UNCHANGED <<earned, checkedIn, late, days>>,
         faults' = faults \/ faults' = faults + 1,
         \A w \in Workers :
           At(w, "dating")' => At(w, "dating") /\ worker'[w] = worker[w],
         \A k \in UsedKeys' : k[1] = "checkin" => k \in UsedKeys,
         \A u \in Fans : /\ Once(DayKeys(u)) => Once(DayKeys(u))'
                         /\ Total(DayKeys(u)) \in Int /\ Total(DayKeys(u))' = Total(DayKeys(u))
  PROVE  DInv'
<1>1. \A k \in UsedKeys' : k[1] = "checkin" => k[3] <= days'
  BY DEF DInv
<1>2. ASSUME ~late' PROVE Dated'
  <2>1. Dated
    BY <1>2 DEF DInv
  <2>2. \A u \in Fans : <<"checkin", u, days>> \in UsedKeys' => <<"checkin", u, days>> \in UsedKeys
    OBVIOUS
  <2>3. \A w \in Workers : At(w, "dating")' =>
          worker'[w].user \in checkedIn' /\ <<"checkin", worker'[w].user, days'>> \notin UsedKeys'
    BY <2>1 DEF Dated
  <2>4. \A v, w \in Workers :
          At(v, "dating")' /\ At(w, "dating")' /\ worker'[v].user = worker'[w].user => v = w
    BY <2>1 DEF Dated
  <2>5. \A u \in Fans : Once(DayKeys(u))'
    BY <2>1 DEF Dated
  <2>6. \A u \in Fans : <<"checkin", u, days'>> \in UsedKeys' => u \in checkedIn'
    BY <2>1, <2>2 DEF Dated
  <2> QED BY <2>3, <2>4, <2>5, <2>6 DEF Dated
<1>3. ASSUME NEW u \in Fans
      PROVE  /\ Total(DayKeys(u))' <= earned'[u]
             /\ faults' = 0 /\ ~late' => Total(DayKeys(u))' = earned'[u]
  <2>1. Total(DayKeys(u))' = Total(DayKeys(u)) /\ earned'[u] = earned[u]
    OBVIOUS
  <2>2. faults' = 0 => faults = 0
    BY DEF Types
  <2> QED BY <2>1, <2>2 DEF DInv
<1> QED BY <1>1, <1>2, <1>3 DEF DInv

LEMMA DatedUnmoved ==
  ASSUME Types, RInv, DInv, UNCHANGED <<award, entries, earned, checkedIn, late, days>>,
         faults' = faults \/ faults' = faults + 1,
         \A w \in Workers :
           At(w, "dating")' => At(w, "dating") /\ worker'[w] = worker[w]
  PROVE  DInv'
<1>1. ASSUME NEW u \in Fans
      PROVE  /\ Once(DayKeys(u)) => Once(DayKeys(u))'
             /\ Total(DayKeys(u)) \in Int /\ Total(DayKeys(u))' = Total(DayKeys(u))
  <2>1. Total(DayKeys(u)) \in Int
    BY TotalIs DEF RInv, Total
  <2> QED BY <2>1, TotalSame
<1>2. UsedKeys' = UsedKeys
  BY TotalSame
<1> QED BY <1>1, <1>2, DatedSame

\* An award for something else.
LEMMA DatedOther ==
  ASSUME Types, Types', RInv, DInv, Slots # InFlight, entries' = entries,
         UNCHANGED <<faults, earned, checkedIn, late, days>>,
         NEW w \in Workers, Moves(w, Idle),
         NEW user \in Users, NEW delta \in Int, NEW key \in AwardKeys, key[1] # "checkin",
         Makes(user, delta, key)
  PROVE  DInv'
<1>1. ASSUME NEW u \in Fans
      PROVE  /\ Once(DayKeys(u)) => Once(DayKeys(u))'
             /\ Total(DayKeys(u)) \in Int /\ Total(DayKeys(u))' = Total(DayKeys(u))
  <2>1. key \notin DayKeys(u)
    BY DEF DayKeys
  <2> QED BY <2>1, MakeAdds DEF RInv
<1>2. \A k \in UsedKeys' : k[1] = "checkin" => k \in UsedKeys
  BY MakeAdds DEF RInv
<1>3. \A v \in Workers : At(v, "dating")' => At(v, "dating") /\ worker'[v] = worker[v]
  BY OneMoves DEF At, Idle
<1> QED BY <1>1, <1>2, <1>3, DatedSame

\* The award for a check-in.
LEMMA DatedPaid ==
  ASSUME Types, Types', RInv, DInv, Slots # InFlight, UNCHANGED <<entries, faults>>,
         NEW w \in Workers, PayCheckIn(w)
  PROVE  DInv'
<1> DEFINE x == worker[w].user  key == <<"checkin", x, days>>
<1>1. /\ x \in Fans /\ x \in Users /\ At(w, "dating") /\ key \in AwardKeys
      /\ UNCHANGED <<checkedIn, late, days>> /\ Moves(w, Idle) /\ days \in Nat
  BY PayIs, PayMoves, UsersAssumption DEF Types
<1>2. PICK p \in Nat :
        /\ earned' = [earned EXCEPT ![x] = @ + p]
        /\ (p = 0 /\ award' = award) \/ Makes(x, p, key)
  BY PayIs
<1>3. \A v \in Workers :
        At(v, "dating")' => v # w /\ At(v, "dating") /\ worker'[v] = worker[v]
  BY <1>1, OneMoves DEF At, Idle
<1>4. CASE p = 0 /\ award' = award
  <2>1. earned' = earned
    BY <1>1, <1>2, <1>4 DEF RInv
  <2> QED BY <1>1, <1>3, <1>4, <2>1, DatedUnmoved
<1>5. CASE Makes(x, p, key)
  <2>1. p \in Int /\ IsFiniteSet(entries)
    BY DEF RInv
  <2>2. \A u \in Fans : key \in DayKeys(u) <=> u = x
    BY <1>1, DayKeyIs
  <2>3. ASSUME NEW u \in Fans
        PROVE  /\ Total(DayKeys(u))' = Total(DayKeys(u)) + (IF u = x THEN p ELSE 0)
               /\ Total(DayKeys(u)) \in Int
               /\ Once(DayKeys(u)) /\ key \notin UsedKeys => Once(DayKeys(u))'
    <3> HIDE DEF x, key
    <3>1. /\ Total(DayKeys(u))' = Total(DayKeys(u)) + (IF key \in DayKeys(u) THEN p ELSE 0)
          /\ Total(DayKeys(u)) \in Int
          /\ Once(DayKeys(u)) /\ (key \in DayKeys(u) => key \notin UsedKeys) =>
               Once(DayKeys(u))'
      BY <1>1, <1>5, <2>1, MakeAdds
    <3> QED BY <2>2, <3>1
  <2>4. UsedKeys' = UsedKeys \cup {key}
    <3> HIDE DEF x, key
    <3> QED BY <1>1, <1>5, <2>1, MakeAdds
  <2>5. \A k \in UsedKeys' : k[1] = "checkin" => k[3] <= days'
    BY <1>1, <2>4 DEF DInv
  <2>6. ASSUME ~late' PROVE Dated'
    <3>1. Dated
      BY <1>1, <2>6 DEF DInv
    <3>2. key \notin UsedKeys /\ x \in checkedIn
      BY <1>1, <3>1 DEF Dated
    <3>3. \A u \in Fans : Once(DayKeys(u))'
      BY <2>3, <3>1, <3>2 DEF Dated
    <3>4. \A u \in Fans : <<"checkin", u, days'>> \in UsedKeys' => u \in checkedIn'
      BY <1>1, <2>4, <3>1, <3>2 DEF Dated
    <3>5. ASSUME NEW v \in Workers, At(v, "dating")'
          PROVE  /\ worker'[v].user \in checkedIn'
                 /\ <<"checkin", worker'[v].user, days'>> \notin UsedKeys'
      <4>1. v # w /\ At(v, "dating") /\ worker'[v] = worker[v]
        BY <1>3, <3>5
      <4>2. worker[v].user # x
        BY <1>1, <3>1, <4>1 DEF Dated
      <4> QED BY <1>1, <2>4, <3>1, <4>1, <4>2 DEF Dated
    <3>6. \A v, y \in Workers :
            At(v, "dating")' /\ At(y, "dating")' /\ worker'[v].user = worker'[y].user => v = y
      BY <1>3, <3>1 DEF Dated
    <3> QED BY <3>3, <3>4, <3>5, <3>6 DEF Dated
  <2>7. ASSUME NEW u \in Fans
        PROVE  /\ Total(DayKeys(u))' <= earned'[u]
               /\ faults' = 0 /\ ~late' => Total(DayKeys(u))' = earned'[u]
    <3>1. earned[u] \in Nat /\ earned'[u] = earned[u] + (IF u = x THEN p ELSE 0)
      <4>1. earned \in [Fans -> Nat]
        BY DEF RInv
      <4> QED BY <1>1, <1>2, <4>1
    <3>2. /\ Total(DayKeys(u)) <= earned[u]
          /\ faults' = 0 /\ ~late' => Total(DayKeys(u)) = earned[u]
      BY <1>1 DEF DInv
    <3> QED BY <2>3, <3>1, <3>2
  <2> QED BY <2>5, <2>6, <2>7 DEF DInv
<1> QED BY <1>2, <1>4, <1>5

\* A check-in begins.
LEMMA DatedBegins ==
  ASSUME Types, RInv, DInv, NEW w \in Workers, NEW u \in Fans, CheckIn(w, u)
  PROVE  DInv'
<1>1. /\ u \notin checkedIn /\ checkedIn' = checkedIn \cup {u}
      /\ UNCHANGED <<award, entries, faults, earned, late, days>>
      /\ worker' = [worker EXCEPT ![w] = [pc |-> "dating", user |-> u]]
  BY DEF CheckIn, Starts, awardVars
<1>2. /\ worker'[w] = [pc |-> "dating", user |-> u]
      /\ \A v \in Workers : v # w => worker'[v] = worker[v]
  BY <1>1 DEF Types
<1>3. UsedKeys' = UsedKeys
  BY <1>1, TotalSame
<1>4. ASSUME NEW v \in Fans
      PROVE  /\ Once(DayKeys(v)) => Once(DayKeys(v))'
             /\ Total(DayKeys(v))' = Total(DayKeys(v))
  BY <1>1, TotalSame
<1>5. ASSUME Dated PROVE Dated'
  <2>1. <<"checkin", u, days>> \notin UsedKeys
    BY <1>1, <1>5 DEF Dated
  <2>2. \A v \in Workers : At(v, "dating")' =>
          \/ v = w
          \/ v # w /\ At(v, "dating") /\ worker'[v] = worker[v]
    BY <1>2 DEF At
  <2>3. \A v \in Fans : <<"checkin", v, days'>> \in UsedKeys' => v \in checkedIn'
    BY <1>1, <1>3, <1>5 DEF Dated
  <2>4. \A v \in Workers : At(v, "dating")' =>
          worker'[v].user \in checkedIn' /\ <<"checkin", worker'[v].user, days'>> \notin UsedKeys'
    BY <1>1, <1>2, <1>3, <1>5, <2>1, <2>2 DEF Dated
  <2>5. ASSUME NEW v \in Workers, NEW y \in Workers, At(v, "dating")', At(y, "dating")',
               worker'[v].user = worker'[y].user
        PROVE  v = y
    <3>1. \A z \in Workers : At(z, "dating") => worker[z].user # u
      BY <1>1, <1>5 DEF Dated
    <3> QED BY <1>2, <1>5, <2>2, <2>5, <3>1 DEF Dated
  <2>6. \A v \in Fans : Once(DayKeys(v))'
    BY <1>4, <1>5 DEF Dated
  <2> QED BY <2>3, <2>4, <2>5, <2>6 DEF Dated
<1>6. /\ \A k \in UsedKeys' : k[1] = "checkin" => k[3] <= days'
      /\ ~late' => Dated'
  BY <1>1, <1>3, <1>5 DEF DInv
<1>7. \A v \in Fans : /\ Total(DayKeys(v))' <= earned'[v]
                      /\ faults' = 0 /\ ~late' => Total(DayKeys(v))' = earned'[v]
  BY <1>1, <1>4 DEF DInv
<1> QED BY <1>6, <1>7 DEF DInv

\* Midnight.
LEMMA DatedReset ==
  ASSUME Types, RInv, DInv, DailyReset
  PROVE  DInv'
<1>1. /\ days' = days + 1 /\ days \in Nat
      /\ late' = (late \/ \E w \in Workers : At(w, "dating"))
      /\ UNCHANGED <<award, entries, faults, earned, worker>>
  BY DEF DailyReset, awardVars, Types
<1>2. UsedKeys' = UsedKeys
  BY <1>1, TotalSame
<1>3. ASSUME NEW u \in Fans
      PROVE  /\ Once(DayKeys(u)) => Once(DayKeys(u))'
             /\ Total(DayKeys(u))' = Total(DayKeys(u))
  BY <1>1, TotalSame
<1>4. \A k \in UsedKeys' : k[1] = "checkin" => k[3] <= days
  BY <1>2 DEF DInv
<1>5. \A u \in Fans : <<"checkin", u, days'>> \notin UsedKeys'
  <2>1. ~(days + 1 <= days)
    BY <1>1
  <2> QED BY <1>1, <1>4, <2>1
<1>6. \A k \in UsedKeys' : k[1] = "checkin" => k[3] <= days'
  <2>1. ASSUME NEW k \in UsedKeys, k[1] = "checkin" PROVE k[3] <= days'
    <3>1. k \in AwardKeys /\ k[3] <= days
      BY <2>1, UsedAre DEF DInv
    <3>2. k[3] \in Nat
      BY <2>1, <3>1 DEF AwardKeys
    <3> QED BY <1>1, <3>1, <3>2
  <2> QED BY <1>2, <2>1
<1>7. ASSUME ~late' PROVE Dated'
  <2>1. ~late /\ \A w \in Workers : ~At(w, "dating")'
    BY <1>1, <1>7 DEF At
  <2>2. \A u \in Fans : Once(DayKeys(u))'
    BY <1>3, <2>1 DEF DInv, Dated
  <2> QED BY <1>5, <2>1, <2>2 DEF Dated
<1>8. \A u \in Fans : /\ Total(DayKeys(u))' <= earned'[u]
                      /\ faults' = 0 /\ ~late' => Total(DayKeys(u))' = earned'[u]
  BY <1>1, <1>3 DEF DInv
<1> QED BY <1>6, <1>7, <1>8 DEF DInv

\* An award moves.
LEMMA DatedAward ==
  ASSUME Types, Types', RInv, DInv, AwardStep,
         UNCHANGED <<worker, earned, checkedIn, late, days>>
  PROVE  DInv'
<1>1. IsFiniteSet(entries) /\ earned \in [Fans -> Nat]
  BY DEF RInv
<1>2. UsedKeys' \subseteq UsedKeys
  BY AwardOnce
<1>3. \A k \in UsedKeys' : k[1] = "checkin" => k[3] <= days'
  BY <1>2 DEF DInv
<1>4. \A u \in Fans : Once(DayKeys(u)) => Once(DayKeys(u))'
  BY AwardOnce
<1>5. ASSUME ~late' PROVE Dated'
  BY <1>2, <1>4, <1>5 DEF Dated, DInv, At
<1>6. ASSUME NEW u \in Fans
      PROVE  /\ Total(DayKeys(u))' <= earned'[u]
             /\ faults' = 0 /\ ~late' => Total(DayKeys(u))' = earned'[u]
  <2>1. PICK K : K = DayKeys(u)
    OBVIOUS
  <2>2. \A i \in Asking : award[i].key \in K => award[i].delta \in Nat
    <3>1. ASSUME NEW i \in Asking, award[i].key \in K PROVE award[i].delta \in Nat
      <4>1. award[i].key[1] = "checkin"
        BY <2>1, <3>1 DEF DayKeys
      <4> QED BY <4>1 DEF RInv, Rightful, RightfulKey
    <3> QED BY <3>1
  <2>3. /\ Total(K) \in Int /\ Total(K)' \in Int /\ Total(K)' <= Total(K)
        /\ Once(K) /\ faults' = faults => Total(K)' = Total(K)
    BY <1>1, <2>2, AwardTotal
  <2>4. Total(K) <= earned[u] /\ earned[u] \in Nat /\ earned' = earned
    BY <1>1, <2>1 DEF DInv
  <2>5. faults' = 0 => faults' = faults
    <3>1. PICK i \in Slots : Adjust(i) \/ Balance(i) \/ WriteMirror(i) \/ AwardFails(i)
      BY DEF AwardStep
    <3>2. faults' = faults \/ faults' = faults + 1
      BY <3>1 DEF Adjust, AdjustFirst, AdjustAgain, Balance, WriteMirror, AwardFails, Faulty
    <3> QED BY <3>2 DEF Types
  <2>6. ASSUME faults' = 0, ~late' PROVE Total(K)' = earned'[u]
    <3>1. Once(K) /\ Total(K) = earned[u]
      BY <2>1, <2>5, <2>6 DEF DInv, Dated
    <3> QED BY <2>3, <2>4, <2>5, <2>6, <3>1
  <2>7. Total(K)' <= earned'[u]
    BY <2>3, <2>4
  <2>8. Total(K)' = Total(DayKeys(u))'
    BY <2>1
  <2> QED BY <2>6, <2>7, <2>8
<1> QED BY <1>3, <1>5, <1>6 DEF DInv

LEMMA DatedStep ==
  ASSUME Types, Types', SInv, RInv, DInv, [Next]_vars
  PROVE  DInv'
<1>1. ASSUME NEW w \in Workers, NEW u \in Fans, Request(w, u) PROVE DInv'
  <2>1. CASE CheckIn(w, u)
    BY <2>1, DatedBegins
  <2>2. CASE ~CheckIn(w, u)
    <3>1. UNCHANGED <<award, entries, earned, checkedIn, late, days, faults>>
      BY <1>1, <2>2 DEF Request, ToggleLike, Follow, Unfollow, ToggleFavorite, SetPatchFolders,
         checkins, awardVars
    <3>2. worker'[w].pc # "dating"
      <4>1. ASSUME NEW n, worker' = [worker EXCEPT ![w] = n], n.pc # "dating"
            PROVE  worker'[w].pc # "dating"
        BY <4>1 DEF Types
      <4>2. Idle.pc # "dating"
        BY DEF Idle
      <4>3. \A put, drop, delta : FolderTask(u, put, drop, delta).pc # "dating"
        BY DEF FolderTask
      <4>4. \A c \in Contents : ToggleLike(w, u, c) => worker'[w].pc # "dating"
        <5>1. ASSUME NEW c \in Contents, ToggleLike(w, u, c) PROVE worker'[w].pc # "dating"
          <6>1. PICK pc \in {"liking", "unliking"} :
                  worker' = [worker EXCEPT ![w] = [pc |-> pc, user |-> u, content |-> c,
                                                   rel |-> like[c][u]]]
            BY <5>1 DEF ToggleLike, Starts
          <6>2. [pc |-> pc, user |-> u, content |-> c, rel |-> like[c][u]].pc # "dating"
            OBVIOUS
          <6> QED BY <4>1, <6>1, <6>2
        <5> QED BY <5>1
      <4>5. \A v \in Users : Follow(w, u, v) \/ Unfollow(w, u, v) => worker'[w].pc # "dating"
        BY <4>1, <4>2 DEF Follow, Unfollow, Starts
      <4>6. ToggleFavorite(w, u) => worker'[w].pc # "dating"
        BY <4>1, <4>3 DEF ToggleFavorite, Starts
      <4>7. \A want \in SUBSET Folders : SetPatchFolders(w, u, want) => worker'[w].pc # "dating"
        BY <4>1, <4>3 DEF SetPatchFolders, Starts
      <4> QED BY <1>1, <2>2, <4>4, <4>5, <4>6, <4>7 DEF Request
    <3>3. \A v \in Workers : v # w => worker'[v] = worker[v]
      BY <1>1, RequestMoves, OneMoves
    <3>4. \A v \in Workers : At(v, "dating")' => At(v, "dating") /\ worker'[v] = worker[v]
      BY <3>2, <3>3 DEF At
    <3> QED BY <3>1, <3>4, DatedUnmoved
  <2> QED BY <2>1, <2>2
<1>2. ASSUME NEW w \in Workers,
             CreateLike(w) \/ DeleteLike(w) \/ PutFolderItem(w) \/ DeleteFolderItem(w)
      PROVE  DInv'
  <2>1. UNCHANGED <<award, entries, earned, checkedIn, late, days, faults>>
    BY <1>2, WriteMoves DEF awardVars, checkins
  <2>2. worker'[w].pc # "dating" /\ \A v \in Workers : v # w => worker'[v] = worker[v]
    <3>1. PICK n \in Tasks : Moves(w, n)
      BY <1>2, WriteMoves
    <3>2. worker'[w] = n /\ \A v \in Workers : v # w => worker'[v] = worker[v]
      BY <3>1, OneMoves
    <3>3. worker[w] \in Tasks
      BY <1>2, WriteMoves, PlaceOf
    <3>4. CASE CreateLike(w) \/ DeleteLike(w)
      <4>1. worker[w] \in Tasks /\ worker[w].pc \in {"liking", "unliking"}
        BY <3>3, <3>4 DEF CreateLike, DeleteLike, At
      <4>2. worker'[w].pc = "liked" \/ worker'[w].pc = "unliked"
        BY <3>4, <4>1 DEF CreateLike, DeleteLike, Goes, Tasks, Types
      <4> QED BY <3>2, <4>2
    <3>5. CASE PutFolderItem(w) \/ DeleteFolderItem(w)
      <4>1. worker[w] \in Tasks /\ worker[w].pc = "filing"
        BY <3>3, <3>5 DEF PutFolderItem, DeleteFolderItem, At
      <4>2. worker'[w].pc = "filing"
        BY <3>5, <4>1 DEF PutFolderItem, DeleteFolderItem, Tasks, Types
      <4> QED BY <3>2, <4>2
    <3> QED BY <1>2, <3>4, <3>5
  <2>3. \A v \in Workers : At(v, "dating")' => At(v, "dating") /\ worker'[v] = worker[v]
    BY <2>2 DEF At
  <2> QED BY <2>1, <2>3, DatedUnmoved
<1>3. ASSUME NEW w \in Workers, CountLike(w) \/ PayCheckIn(w) \/ SettleFavorite(w) PROVE DInv'
  <2>1. Moves(w, Idle) /\ UNCHANGED <<entries, faults>> /\ Slots # InFlight
    BY <1>3, PayMoves, SlotLeft
  <2>2. Author \in Users
    BY UsersAssumption
  <2>3. CASE PayCheckIn(w)
    BY <2>1, <2>3, DatedPaid
  <2>4. CASE CountLike(w)
    <3>1. UNCHANGED <<earned, checkedIn, late, days>>
      BY <2>4, PayIs DEF checkins
    <3>2. CASE award' = award
      <4>1. \A v \in Workers : At(v, "dating")' => At(v, "dating") /\ worker'[v] = worker[v]
        BY <2>1, OneMoves DEF At, Idle
      <4> QED BY <2>1, <3>1, <3>2, <4>1, DatedUnmoved
    <3>3. ASSUME NEW kind \in {"like", "unlike"}, NEW delta \in {1, -1},
                 <<kind, worker[w].content, worker[w].rel>> \in AwardKeys,
                 Makes(Author, delta, <<kind, worker[w].content, worker[w].rel>>)
          PROVE  DInv'
      <4>1. PICK key : key = <<kind, worker[w].content, worker[w].rel>>
        OBVIOUS
      <4>2. key[1] # "checkin" /\ key \in AwardKeys /\ delta \in Int /\ Makes(Author, delta, key)
        BY <3>3, <4>1
      <4> QED BY <2>1, <2>2, <3>1, <4>2, DatedOther
    <3> QED BY <2>4, <3>2, <3>3, PayIs
  <2>5. CASE SettleFavorite(w)
    <3>1. UNCHANGED <<earned, checkedIn, late, days>> /\ worker[w].delta \in Int
      <4>1. UNCHANGED checkins /\ worker[w].delta \in {-1, 0, 1}
        BY <2>5, PayIs
      <4> QED BY <4>1 DEF checkins
    <3>2. CASE award' = award
      <4>1. \A v \in Workers : At(v, "dating")' => At(v, "dating") /\ worker'[v] = worker[v]
        BY <2>1, OneMoves DEF At, Idle
      <4> QED BY <2>1, <3>1, <3>2, <4>1, DatedUnmoved
    <3>3. CASE /\ <<"favorite", worker[w].delta>> \in AwardKeys
               /\ Makes(Author, worker[w].delta, <<"favorite", worker[w].delta>>)
      <4>1. PICK key : key = <<"favorite", worker[w].delta>>
        OBVIOUS
      <4>2. key[1] # "checkin" /\ key \in AwardKeys /\ Makes(Author, worker[w].delta, key)
        BY <3>3, <4>1
      <4> QED BY <2>1, <2>2, <3>1, <4>2, DatedOther
    <3> QED BY <2>5, <3>2, <3>3, PayIs
  <2> QED BY <1>3, <2>3, <2>4, <2>5
<1>4. ASSUME NEW w \in Workers, CreateFollow(w) \/ Stops(w) PROVE DInv'
  <2>1. /\ UNCHANGED <<award, entries, earned, checkedIn, late, days>> /\ Moves(w, Idle)
        /\ faults' = faults \/ faults' = faults + 1
    BY <1>4, OtherMoves DEF awardVars, checkins
  <2>2. \A v \in Workers : At(v, "dating")' => At(v, "dating") /\ worker'[v] = worker[v]
    BY <2>1, OneMoves DEF At, Idle
  <2> QED BY <2>1, <2>2, DatedUnmoved
<1>5. CASE (\E u \in Fans : ChangeElsewhere(u) \/ PurgeUser(u)) \/ UNCHANGED vars
  <2>1. UNCHANGED <<award, entries, earned, checkedIn, late, days, faults, worker>>
    BY <1>5, OtherMoves DEF vars, awardVars, checkins
  <2>2. \A v \in Workers : At(v, "dating")' => At(v, "dating") /\ worker'[v] = worker[v]
    BY <2>1 DEF At
  <2> QED BY <2>1, <2>2, DatedUnmoved
<1>6. ASSUME NEW u \in Users, Accounts(u) PROVE DInv'
  <2>1. UNCHANGED <<faults, earned, checkedIn, late, days, worker>>
    BY <1>6, AccountMoves DEF checkins
  <2>2. ASSUME NEW v \in Fans
        PROVE  /\ Once(DayKeys(v)) => Once(DayKeys(v))'
               /\ Total(DayKeys(v)) \in Int /\ Total(DayKeys(v))' = Total(DayKeys(v))
    <3>1. PICK K : K = DayKeys(v)
      OBVIOUS
    <3>2. \A k \in K : k[1] \notin OtherKinds
      BY <3>1 DEF DayKeys, OtherKinds
    <3>3. /\ Once(K) => Once(K)'
          /\ Total(K)' = Total(K)
      BY <1>6, <3>2, AccountAdds DEF RInv
    <3>4. Total(K) \in Int
      BY TotalIs DEF RInv, Total
    <3> QED BY <3>1, <3>3, <3>4
  <2>3. \A k \in UsedKeys' : k[1] = "checkin" => k \in UsedKeys
    <3>1. PICK K : K = {}
      OBVIOUS
    <3>2. \A k \in K : k[1] \notin OtherKinds
      BY <3>1
    <3>3. IsFiniteSet(entries)
      BY DEF RInv
    <3>4. \A k \in UsedKeys' : k \in UsedKeys \/ k[1] \in OtherKinds
      BY <1>6, <3>2, <3>3, AccountAdds
    <3> QED BY <3>4 DEF OtherKinds
  <2>4. \A w \in Workers : At(w, "dating")' => At(w, "dating") /\ worker'[w] = worker[w]
    BY <2>1 DEF At
  <2> QED BY <2>1, <2>2, <2>3, <2>4, DatedSame
<1> QED BY <1>1, <1>2, <1>3, <1>4, <1>5, <1>6, DatedReset, DatedAward, StepKinds DEF checkins

\* Once nothing is asked for, what was entered is all.
LEMMA NothingDue ==
  ASSUME Types, Settled, NEW K
  PROVE  Sum(Due(K)) = 0
<1>1. \A i \in Slots : ~Asks(i, K)
  BY AsksIs DEF Settled, Asks
<1>2. Due(K) = {}
  BY <1>1 DEF Due
<1> QED BY <1>2, FS_EmptySet, SumIs

LEMMA PaidIs ==
  ASSUME Types, RInv, DInv
  PROVE  CheckInsPaid
<1> SUFFICES ASSUME NEW u \in Fans
             PROVE  LET paid == Sum({e \in Paid("checkin") : e.user = u})
                    IN  /\ paid <= earned[u]
                        /\ Quiet /\ faults = 0 /\ ~late => paid = earned[u]
  BY DEF CheckInsPaid
<1>1. {e \in Paid("checkin") : e.user = u} = In(DayKeys(u))
  <2>1. ASSUME NEW e \in entries, e.key[1] = "checkin", e.user = u PROVE e.key \in DayKeys(u)
    <3>1. e.key \in AwardKeys
      BY DEF Types, Entries
    <3>2. e.key \in {"checkin"} \X Fans \X Nat
      BY <2>1, <3>1 DEF AwardKeys
    <3>3. e.key[2] = u
      BY <2>1 DEF RInv, Rightful, RightfulKey
    <3> QED BY <3>2, <3>3 DEF DayKeys
  <2>2. ASSUME NEW e \in entries, e.key \in DayKeys(u) PROVE e.key[1] = "checkin" /\ e.user = u
    <3>1. e.key[1] = "checkin" /\ e.key[2] = u
      BY <2>2 DEF DayKeys
    <3> QED BY <3>1 DEF RInv, Rightful, RightfulKey
  <2> QED BY <2>1, <2>2 DEF Paid, In
<1>2. Sum(Due(DayKeys(u))) \in Nat
  <2>1. \A d \in Due(DayKeys(u)) : d.delta \in Nat
    <3>1. ASSUME NEW i \in Slots, Asks(i, DayKeys(u)) PROVE award[i].delta \in Nat
      <4>1. i \in Asking /\ award[i].key[1] = "checkin"
        BY <3>1 DEF Asks, Asking, DayKeys
      <4> QED BY <4>1 DEF RInv, Rightful, RightfulKey
    <3> QED BY <3>1 DEF Due, Owed
  <2> QED BY <2>1, TotalIs, SumNat DEF RInv
<1>3. /\ Sum(In(DayKeys(u))) \in Int /\ earned[u] \in Nat
      /\ Total(DayKeys(u)) = Sum(In(DayKeys(u))) + Sum(Due(DayKeys(u)))
  BY TotalIs DEF RInv, Total
<1>4. Sum(In(DayKeys(u))) <= earned[u]
  BY <1>2, <1>3 DEF DInv
<1>5. ASSUME Quiet, faults = 0, ~late PROVE Sum(In(DayKeys(u))) = earned[u]
  <2>1. Sum(Due(DayKeys(u))) = 0
    BY <1>5, NothingDue DEF Quiet
  <2> QED BY <1>3, <1>5, <2>1 DEF DInv
<1> QED BY <1>1, <1>4, <1>5

-----------------------------------------------------------------------------
(***************************************************************************)
(* Who likes, and whose folders hold the work.                             *)
(***************************************************************************)
Likers(c) == {u \in Fans : like[c][u] # 0}
Liked == {cu \in Contents \X (Fans \ {Author}) : like[cu[1]][cu[2]] # 0}
Held == {u \in Fans : holding[u] # {}}

NInv ==
  /\ likeCount \in [Contents -> Nat] /\ favorites \in Nat
  /\ \A c \in Contents : IsFiniteSet(Likers(c))
  /\ IsFiniteSet(Liked) /\ IsFiniteSet(Held)

One(b) == IF b THEN 1 ELSE 0

\* One like is written; the author's own is not to be paid for.
LEMMA LikeWritten ==
  ASSUME Types, NInv, NEW c \in Contents, NEW u \in Fans, NEW n,
         like' = [like EXCEPT ![c][u] = n]
  PROVE  /\ like'[c][u] = n
         /\ \A d \in Contents, v \in Fans : d # c \/ v # u => like'[d][v] = like[d][v]
         /\ \A d \in Contents : d # c => Likers(d)' = Likers(d)
         /\ \A d \in Contents : IsFiniteSet(Likers(d)')
         /\ IsFiniteSet(Liked')
         /\ Cardinality(Likers(c)) \in Nat /\ Cardinality(Liked) \in Nat
         /\ Cardinality(Likers(c)') \in Nat /\ Cardinality(Liked') \in Nat
         /\ n # 0 /\ like[c][u] = 0 =>
              /\ Cardinality(Likers(c)') = Cardinality(Likers(c)) + 1
              /\ Cardinality(Liked') = Cardinality(Liked) + One(u # Author)
         /\ n = 0 /\ like[c][u] # 0 =>
              /\ Cardinality(Likers(c)) = Cardinality(Likers(c)') + 1
              /\ Cardinality(Liked) = Cardinality(Liked') + One(u # Author)
<1>1. /\ like'[c][u] = n
      /\ \A d \in Contents, v \in Fans : d # c \/ v # u => like'[d][v] = like[d][v]
  BY DEF Types
<1>2. \A d \in Contents : d # c => Likers(d)' = Likers(d)
  BY <1>1 DEF Likers
<1>3. PICK x : x = <<c, u>>
  OBVIOUS
<1>4. \A y \in Contents \X Fans : y # x => like'[y[1]][y[2]] = like[y[1]][y[2]]
  BY <1>1, <1>3
<1>5. x \in Contents \X Fans /\ x[1] = c /\ x[2] = u
  BY <1>3
<1>6. /\ n # 0 => Likers(c)' = Likers(c) \cup {u}
      /\ n = 0 => Likers(c)' = Likers(c) \ {u}
      /\ u \in Likers(c) <=> like[c][u] # 0
      /\ u # Author /\ n # 0 => Liked' = Liked \cup {x}
      /\ u # Author /\ n = 0 => Liked' = Liked \ {x}
      /\ u # Author => (x \in Liked <=> like[c][u] # 0)
      /\ u = Author => Liked' = Liked
  <2>1. /\ n # 0 => Likers(c)' = Likers(c) \cup {u}
        /\ n = 0 => Likers(c)' = Likers(c) \ {u}
    BY <1>1 DEF Likers
  <2>2. PICK P : P = Contents \X (Fans \ {Author})
    OBVIOUS
  <2>3. /\ \A y \in P : y # x => like'[y[1]][y[2]] = like[y[1]][y[2]]
        /\ x \in P <=> u # Author
    BY <1>3, <1>4, <2>2
  <2>4. /\ Liked = {y \in P : like[y[1]][y[2]] # 0}
        /\ Liked' = {y \in P : like'[y[1]][y[2]] # 0}
    BY <2>2 DEF Liked
  <2>5. /\ u # Author /\ n # 0 => Liked' = Liked \cup {x}
        /\ u # Author /\ n = 0 => Liked' = Liked \ {x}
    BY <1>1, <1>5, <2>3, <2>4
  <2>6. u \in Likers(c) <=> like[c][u] # 0
    BY DEF Likers
  <2>7. u # Author => (x \in Liked <=> like[c][u] # 0)
    BY <1>5, <2>3, <2>4
  <2>8. u = Author => Liked' = Liked
    BY <2>3, <2>4
  <2> QED BY <2>1, <2>5, <2>6, <2>7, <2>8
<1>7. ASSUME NEW S, IsFiniteSet(S), NEW y, NEW T, T = S \cup {y} \/ T = S \ {y}
      PROVE  /\ IsFiniteSet(T) /\ Cardinality(S) \in Nat /\ Cardinality(T) \in Nat
             /\ T = S \cup {y} /\ y \notin S => Cardinality(T) = Cardinality(S) + 1
             /\ T = S \ {y} /\ y \in S => Cardinality(S) = Cardinality(T) + 1
  <2>1. IsFiniteSet(T) /\ Cardinality(S) \in Nat /\ Cardinality(T) \in Nat
    BY <1>7, FS_AddElement, FS_RemoveElement, FS_CardinalityType
  <2>2. T = S \cup {y} /\ y \notin S => Cardinality(T) = Cardinality(S) + 1
    BY <1>7, FS_AddElement
  <2>3. T = S \ {y} /\ y \in S => Cardinality(T) = Cardinality(S) - 1
    BY <1>7, FS_RemoveElement
  <2> QED BY <2>1, <2>2, <2>3
<1>8. IsFiniteSet(Likers(c)) /\ IsFiniteSet(Liked)
  BY DEF NInv
<1>9. /\ IsFiniteSet(Likers(c)')
      /\ Cardinality(Likers(c)) \in Nat /\ Cardinality(Likers(c)') \in Nat
      /\ n # 0 /\ like[c][u] = 0 => Cardinality(Likers(c)') = Cardinality(Likers(c)) + 1
      /\ n = 0 /\ like[c][u] # 0 => Cardinality(Likers(c)) = Cardinality(Likers(c)') + 1
  <2>1. PICK S, T : S = Likers(c) /\ T = Likers(c)'
    OBVIOUS
  <2>2. CASE n = 0
    <3>1. T = S \ {u} /\ IsFiniteSet(S) /\ (u \in S <=> like[c][u] # 0)
      BY <1>6, <1>8, <2>1, <2>2
    <3> QED BY <1>7, <2>1, <2>2, <3>1
  <2>3. CASE n # 0
    <3>1. T = S \cup {u} /\ IsFiniteSet(S) /\ (u \in S <=> like[c][u] # 0)
      BY <1>6, <1>8, <2>1, <2>3
    <3> QED BY <1>7, <2>1, <2>3, <3>1
  <2> QED BY <2>2, <2>3
<1>10. /\ IsFiniteSet(Liked')
       /\ Cardinality(Liked) \in Nat /\ Cardinality(Liked') \in Nat
       /\ n # 0 /\ like[c][u] = 0 => Cardinality(Liked') = Cardinality(Liked) + One(u # Author)
       /\ n = 0 /\ like[c][u] # 0 => Cardinality(Liked) = Cardinality(Liked') + One(u # Author)
  <2>1. PICK S, T : S = Liked /\ T = Liked'
    OBVIOUS
  <2>2. CASE u # Author /\ n = 0
    <3>1. T = S \ {x} /\ IsFiniteSet(S) /\ (x \in S <=> like[c][u] # 0)
      BY <1>6, <1>8, <2>1, <2>2
    <3> QED BY <1>7, <2>1, <2>2, <3>1 DEF One
  <2>3. CASE u # Author /\ n # 0
    <3>1. T = S \cup {x} /\ IsFiniteSet(S) /\ (x \in S <=> like[c][u] # 0)
      BY <1>6, <1>8, <2>1, <2>3
    <3> QED BY <1>7, <2>1, <2>3, <3>1 DEF One
  <2>4. CASE u = Author
    <3>1. T = S /\ Cardinality(S) \in Nat
      BY <1>6, <1>8, <2>1, <2>4, FS_CardinalityType
    <3> QED BY <1>8, <2>1, <2>4, <3>1 DEF One
  <2> QED BY <2>2, <2>3, <2>4
<1>11. \A d \in Contents : IsFiniteSet(Likers(d)')
  BY <1>2, <1>9 DEF NInv
<1> QED BY <1>1, <1>2, <1>9, <1>10, <1>11

\* The folders of one user are written.
LEMMA HeldWritten ==
  ASSUME Types, NInv, NEW u \in Fans, NEW h, holding' = [holding EXCEPT ![u] = h]
  PROVE  /\ holding'[u] = h /\ Held' \ {u} = Held \ {u} /\ IsFiniteSet(Held')
<1>1. holding'[u] = h /\ \A v \in Fans : v # u => holding'[v] = holding[v]
  BY DEF Types
<1>2. Held' \ {u} = Held \ {u}
  BY <1>1 DEF Held
<1>3. IsFiniteSet(Held \cup {u})
  BY FS_AddElement DEF NInv
<1>4. Held' \in SUBSET (Held \cup {u})
  BY <1>2
<1>5. IsFiniteSet(Held')
  BY <1>3, <1>4, FS_Subset
<1> QED BY <1>1, <1>2, <1>5

LEMMA NumbersSame ==
  ASSUME NInv, UNCHANGED <<like, likeCount, holding, favorites>>
  PROVE  NInv'
  BY DEF NInv, Likers, Liked, Held

LEMMA NumbersStep ==
  ASSUME Types, NInv, [Next]_vars
  PROVE  NInv'
<1>1. ASSUME NEW w \in Workers, CreateLike(w) \/ DeleteLike(w) PROVE NInv'
  <2>1. worker[w].user \in Fans /\ worker[w].content \in Contents
    BY <1>1, PlaceOf DEF CreateLike, DeleteLike
  <2>2. UNCHANGED <<likeCount, holding, favorites>>
    BY <1>1 DEF CreateLike, DeleteLike, favourites
  <2>3. CASE like' = like
    BY <2>2, <2>3, NumbersSame
  <2>4. ASSUME NEW n, like' = [like EXCEPT ![worker[w].content][worker[w].user] = n] PROVE NInv'
    <3>1. Held' = Held
      BY <2>2 DEF Held
    <3>2. IsFiniteSet(Liked') /\ \A d \in Contents : IsFiniteSet(Likers(d)')
      BY <2>1, <2>4, LikeWritten
    <3> QED BY <2>2, <3>1, <3>2 DEF NInv
  <2>5. PICK n : n = IF like[worker[w].content][worker[w].user] = worker[w].rel
                       THEN 0 ELSE like[worker[w].content][worker[w].user]
    OBVIOUS
  <2>6. DeleteLike(w) => like' = [like EXCEPT ![worker[w].content][worker[w].user] = n]
    BY <2>1, <2>5 DEF DeleteLike, Types
  <2> QED BY <1>1, <2>3, <2>4, <2>6 DEF CreateLike
<1>2. ASSUME UNCHANGED <<likes, favorites>>, NEW u \in Fans, NEW h,
             holding' = [holding EXCEPT ![u] = h]
      PROVE  NInv'
  <2>1. Liked' = Liked /\ \A c \in Contents : Likers(c)' = Likers(c)
    BY <1>2 DEF Liked, Likers, likes
  <2>2. IsFiniteSet(Held')
    BY <1>2, HeldWritten
  <2> QED BY <1>2, <2>1, <2>2 DEF NInv, likes
<1>3. ASSUME NEW w \in Workers, PutFolderItem(w) \/ DeleteFolderItem(w) PROVE NInv'
  <2>1. worker[w].user \in Fans
    BY <1>3, PlaceOf DEF PutFolderItem, DeleteFolderItem
  <2>2. UNCHANGED <<likes, favorites>>
    BY <1>3 DEF PutFolderItem, DeleteFolderItem
  <2>3. \E h : holding' = [holding EXCEPT ![worker[w].user] = h]
    BY <1>3 DEF PutFolderItem, DeleteFolderItem
  <2> QED BY <1>2, <2>1, <2>2, <2>3
<1>4. ASSUME NEW u \in Fans, ChangeElsewhere(u) PROVE NInv'
  <2>1. UNCHANGED <<likes, favorites>> /\ \E h : holding' = [holding EXCEPT ![u] = h]
    BY <1>4 DEF ChangeElsewhere
  <2> QED BY <1>2, <2>1
<1>5. ASSUME NEW w \in Workers, CountLike(w) \/ PayCheckIn(w) \/ SettleFavorite(w) PROVE NInv'
  <2>1. UNCHANGED <<like, holding>>
    BY <1>5, PayMoves
  <2>2. likeCount' \in [Contents -> Nat]
    <3>1. CASE CountLike(w)
      <4>1. worker[w].content \in Contents /\ likeCount \in [Contents -> Nat]
        BY <3>1, PlaceOf DEF CountLike, NInv
      <4>2. likeCount[worker[w].content] + 1 \in Nat /\ Less(likeCount[worker[w].content]) \in Nat
        BY <4>1 DEF Less
      <4> QED BY <3>1, <4>1, <4>2 DEF CountLike
    <3>2. CASE PayCheckIn(w) \/ SettleFavorite(w)
      BY <3>2 DEF PayCheckIn, SettleFavorite, likes, NInv
    <3> QED BY <1>5, <3>1, <3>2
  <2>3. favorites' \in Nat
    <3>1. CASE SettleFavorite(w)
      <4>1. worker[w].delta \in {-1, 0, 1}
        BY <3>1, PayIs
      <4>2. favorites \in Nat /\ Less(favorites) \in Nat
        BY DEF NInv, Less
      <4> QED BY <3>1, <4>1, <4>2 DEF SettleFavorite
    <3>2. CASE CountLike(w) \/ PayCheckIn(w)
      BY <3>2 DEF CountLike, PayCheckIn, favourites, NInv
    <3> QED BY <1>5, <3>1, <3>2
  <2>4. Held' = Held /\ Liked' = Liked /\ \A c \in Contents : Likers(c)' = Likers(c)
    BY <2>1 DEF Held, Liked, Likers
  <2> QED BY <2>2, <2>3, <2>4 DEF NInv
<1>6. ASSUME NEW w \in Workers, CreateFollow(w) \/ Stops(w) \/ \E u \in Fans : Request(w, u)
      PROVE  UNCHANGED <<likes, favourites>>
  BY <1>6, OtherMoves, RequestMoves
<1>7. CASE DailyReset \/ UNCHANGED vars
  BY <1>7, NumbersSame, OtherMoves DEF vars, likes, favourites
<1>8. CASE UNCHANGED <<likes, favourites>>
  BY <1>8, NumbersSame DEF likes, favourites
<1>9. ASSUME NEW u \in Users, Accounts(u) PROVE UNCHANGED <<likes, favourites>>
  BY <1>9, AccountMoves
<1>10. ASSUME NEW u \in Fans, PurgeUser(u) PROVE NInv'
  <2>1. /\ like' = [c \in Contents |-> [like[c] EXCEPT ![u] = 0]]
        /\ likeCount' = [c \in Contents |->
                           IF like[c][u] = 0 THEN likeCount[c]
                             ELSE Cardinality({v \in Fans \ {u} : like[c][v] # 0})]
        /\ favorites' \in {favorites, 0} /\ holding' = holding
    BY <1>10 DEF PurgeUser
  <2>2. \A c \in Contents, v \in Fans : like'[c][v] # 0 => like[c][v] # 0
    BY <2>1 DEF Types
  <2>3. /\ \A c \in Contents : Likers(c)' \in SUBSET Likers(c)
        /\ Liked' \in SUBSET Liked
    BY <2>2 DEF Likers, Liked
  <2>4. IsFiniteSet(Liked') /\ \A c \in Contents : IsFiniteSet(Likers(c)')
    BY <2>3, FS_Subset DEF NInv
  <2>5. ASSUME NEW c \in Contents
        PROVE  Cardinality({v \in Fans \ {u} : like[c][v] # 0}) \in Nat
    <3>1. {v \in Fans \ {u} : like[c][v] # 0} \in SUBSET Likers(c)
      BY DEF Likers
    <3>2. IsFiniteSet({v \in Fans \ {u} : like[c][v] # 0})
      BY <3>1, FS_Subset DEF NInv
    <3> QED BY <3>2, FS_CardinalityType
  <2>6. likeCount' \in [Contents -> Nat] /\ favorites' \in Nat
    BY <2>1, <2>5 DEF NInv
  <2>7. Held' = Held
    BY <2>1 DEF Held
  <2> QED BY <2>4, <2>6, <2>7 DEF NInv
<1> QED BY <1>1, <1>3, <1>4, <1>5, <1>6, <1>7, <1>8, <1>9, <1>10, StepKinds

-----------------------------------------------------------------------------
(***************************************************************************)
(* One request at a time, nothing failing, nobody purged: the counts are   *)
(* what the request at work leaves to be counted.                          *)
(***************************************************************************)
LikeKeys == {"like", "unlike"} \X Contents \X Nat

\* The relations have ids of their own, and no relation that is there was taken back.
LikesSound ==
  /\ \A c \in Contents, u \in Fans :
       /\ like[c][u] <= likeIds
       /\ like[c][u] # 0 =>
            /\ <<"unlike", c, like[c][u]>> \notin UsedKeys
            /\ \A d \in Contents, v \in Fans : like[d][v] = like[c][u] => d = c /\ v = u
  /\ \A k \in UsedKeys : k \in LikeKeys => k[3] <= likeIds
  /\ Once(LikeKeys)

LikeKnown(t) ==
  /\ t.pc = "liking" => like[t.content][t.user] = 0
  /\ t.pc = "unliking" => like[t.content][t.user] = t.rel /\ t.rel # 0
  /\ t.pc = "liked" => /\ like[t.content][t.user] = t.rel /\ t.rel # 0
                       /\ <<"like", t.content, t.rel>> \notin UsedKeys
  /\ t.pc = "unliked" => /\ t.rel <= likeIds /\ <<"unlike", t.content, t.rel>> \notin UsedKeys
                         /\ \A d \in Contents, v \in Fans : like[d][v] # t.rel

LikesOnTrack(t) ==
  /\ \A c \in Contents :
       likeCount[c] + One(t.pc = "liked" /\ t.content = c)
         = Cardinality(Likers(c)) + One(t.pc = "unliked" /\ t.content = c)
  /\ Total(LikeKeys) + One(t.pc = "liked" /\ t.user # Author)
       = Cardinality(Liked) + One(t.pc = "unliked" /\ t.user # Author)

\* Where the work will be when the folders are written.
Goal(t) == (holding[t.user] \cup t.put) \ t.drop
Holders(t) == (Held \ {t.user}) \cup (IF Goal(t) = {} THEN {} ELSE {t.user})
FavoritesOnTrack(t) ==
  IF t.pc = "filing" THEN favorites + t.delta = Cardinality(Holders(t))
                     ELSE favorites = Cardinality(Held)

OnTrack(t) == LikeKnown(t) /\ LikesOnTrack(t) /\ (~elsewhere => FavoritesOnTrack(t))

BInv ==
  serial /\ faults = 0 /\ purged = {} =>
    /\ LikesSound
    /\ \A v, w \in Workers : v # w => At(v, "idle") \/ At(w, "idle")
    /\ (\A w \in Workers : At(w, "idle")) => OnTrack(Idle)
    /\ \A w \in Workers, t \in Tasks : worker[w] = t => OnTrack(t)

\* The request at work.
LEMMA TaskIs ==
  ASSUME Types, BInv, serial, faults = 0, purged = {}, NEW w \in Workers, ~At(w, "idle")
  PROVE  /\ LikesSound /\ \A v \in Workers : v # w => At(v, "idle")
         /\ \E t \in Tasks : t = worker[w] /\ OnTrack(t)
  BY PlaceOf DEF BInv

\* It is alone.
LEMMA OneWorks ==
  ASSUME Types, NEW w \in Workers, NEW n \in {Idle} \cup Tasks, Moves(w, n),
         \A v \in Workers : v # w => At(v, "idle"),
         LikesSound', OnTrack(n)'
  PROVE  BInv'
<1>1. worker'[w] = n /\ \A v \in Workers : v # w => worker'[v] = worker[v]
  BY OneMoves
<1>2. \A v \in Workers : v # w => worker'[v].pc = "idle"
  BY <1>1 DEF At
<1>3. \A t \in Tasks : t.pc # "idle"
  BY DEF Tasks
<1>4. \A v \in Workers, t \in Tasks : worker'[v] = t => OnTrack(t)'
  BY <1>1, <1>2, <1>3
<1>5. (\A v \in Workers : At(v, "idle")') => OnTrack(Idle)'
  <2>1. n.pc = "idle" => n = Idle
    BY <1>3
  <2> QED BY <1>1, <2>1 DEF At
<1>6. \A u, v \in Workers : u # v => At(u, "idle")' \/ At(v, "idle")'
  BY <1>2 DEF At
<1> QED BY <1>4, <1>5, <1>6 DEF BInv

\* A step without a request.
LEMMA NoneWorks ==
  ASSUME Types, BInv, UNCHANGED <<worker, serial, purged>>, faults' = 0 => faults = 0,
         LikesSound /\ faults' = 0 => LikesSound',
         \A t \in {Idle} \cup Tasks : LikesSound /\ OnTrack(t) /\ faults' = 0 => OnTrack(t)'
  PROVE  BInv'
<1> SUFFICES ASSUME serial, faults = 0, purged = {}, faults' = 0
             PROVE  /\ LikesSound'
                    /\ \A v, w \in Workers : v # w => At(v, "idle")' \/ At(w, "idle")'
                    /\ (\A w \in Workers : At(w, "idle")') => OnTrack(Idle)'
                    /\ \A w \in Workers, t \in Tasks : worker'[w] = t => OnTrack(t)'
  BY DEF BInv
<1>1. LikesSound /\ LikesSound'
  BY DEF BInv
<1>2. \A w \in Workers : At(w, "idle")' <=> At(w, "idle")
  BY DEF At
<1> QED BY <1>1, <1>2 DEF BInv

\* The likes are sound as long as no award uses a key of theirs.
LEMMA SoundKept ==
  ASSUME LikesSound, UNCHANGED <<like, likeIds>>, Once(LikeKeys)',
         \A k \in UsedKeys' : k \in LikeKeys => k \in UsedKeys,
         Types
  PROVE  LikesSound'
<1>1. ASSUME NEW c \in Contents, NEW u \in Fans
      PROVE  /\ like'[c][u] <= likeIds'
             /\ like'[c][u] # 0 =>
                  /\ <<"unlike", c, like'[c][u]>> \notin UsedKeys'
                  /\ \A d \in Contents, v \in Fans : like'[d][v] = like'[c][u] => d = c /\ v = u
  <2>1. <<"unlike", c, like[c][u]>> \in LikeKeys
    BY DEF LikeKeys, Types
  <2> QED BY <2>1 DEF LikesSound
<1>2. \A k \in UsedKeys' : k \in LikeKeys => k[3] <= likeIds'
  BY DEF LikesSound
<1> QED BY <1>1, <1>2 DEF LikesSound

\* What is on track stays so while awards for other things are made and move.
LEMMA TrackKept ==
  ASSUME Types, NEW t \in {Idle} \cup Tasks, OnTrack(t),
         UNCHANGED likes, Total(LikeKeys)' = Total(LikeKeys),
         \A k \in UsedKeys' : k \in LikeKeys => k \in UsedKeys,
         elsewhere' \/ UNCHANGED favourites
  PROVE  OnTrack(t)'
<1>1. UNCHANGED <<like, likeIds, likeCount>>
  BY DEF likes
<1>2. Liked' = Liked /\ \A c \in Contents : Likers(c)' = Likers(c)
  BY <1>1 DEF Liked, Likers
<1>3. LikeKnown(t)'
  <2>1. t.pc \in {"liked", "unliked"} => t.content \in Contents /\ t.rel \in Nat
    BY DEF Tasks, Idle
  <2>2. /\ t.pc = "liked" => <<"like", t.content, t.rel>> \in LikeKeys
        /\ t.pc = "unliked" => <<"unlike", t.content, t.rel>> \in LikeKeys
    BY <2>1 DEF LikeKeys
  <2> QED BY <1>1, <2>2 DEF OnTrack, LikeKnown
<1>4. LikesOnTrack(t)'
  BY <1>1, <1>2 DEF OnTrack, LikesOnTrack
<1>5. ~elsewhere' => FavoritesOnTrack(t)'
  BY DEF OnTrack, favourites, FavoritesOnTrack, Holders, Goal, Held
<1> QED BY <1>3, <1>4, <1>5 DEF OnTrack

\* A request that neither likes nor files.
Neutral == {"idle", "following", "dating"}

LEMMA TrackNeutral ==
  ASSUME NEW t, NEW n, t.pc \in Neutral, n.pc \in Neutral, OnTrack(t)
  PROVE  OnTrack(n)
<1>1. LikesOnTrack(n)
  BY DEF OnTrack, LikesOnTrack, Neutral, One
<1> QED BY <1>1 DEF OnTrack, LikeKnown, FavoritesOnTrack, Neutral

\* A request begins on track.
LEMMA LikeBegins ==
  ASSUME Types, OnTrack(Idle), NEW u \in Fans, NEW c \in Contents,
         NEW pc, pc = IF like[c][u] = 0 THEN "liking" ELSE "unliking"
  PROVE  LET n == [pc |-> pc, user |-> u, content |-> c, rel |-> like[c][u]]
         IN  n \in Tasks /\ OnTrack(n)
<1> DEFINE n == [pc |-> pc, user |-> u, content |-> c, rel |-> like[c][u]]
<1>1. n \in Tasks
  BY DEF Tasks, Types
<1>2. LikeKnown(n)
  BY DEF LikeKnown
<1>3. LikesOnTrack(n)
  BY DEF OnTrack, LikesOnTrack, One, Idle
<1>4. ~elsewhere => FavoritesOnTrack(n)
  BY DEF OnTrack, FavoritesOnTrack, Idle
<1> QED BY <1>1, <1>2, <1>3, <1>4 DEF OnTrack

LEMMA FilingBegins ==
  ASSUME Types, NInv, OnTrack(Idle), NEW u \in Fans,
         NEW put \in SUBSET Folders, NEW drop \in SUBSET Folders, NEW delta \in {-1, 0, 1},
         delta = CASE holding[u] = {} /\ (holding[u] \cup put) \ drop # {} -> 1
                   [] holding[u] # {} /\ (holding[u] \cup put) \ drop = {} -> -1
                   [] OTHER -> 0
  PROVE  LET n == FolderTask(u, put, drop, delta) IN n \in Tasks /\ OnTrack(n)
<1>1. PICK n : n = FolderTask(u, put, drop, delta)
  OBVIOUS
<1>2. /\ n \in Tasks /\ n.pc = "filing" /\ n.user = u /\ n.put = put /\ n.drop = drop
      /\ n.delta = delta
  BY <1>1 DEF Tasks, FolderTask
<1>3. LikeKnown(n)
  BY <1>2 DEF LikeKnown
<1>4. LikesOnTrack(n)
  BY <1>2 DEF OnTrack, LikesOnTrack, One, Idle
<1>5. ASSUME ~elsewhere PROVE favorites + delta = Cardinality(Holders(n))
  <2>1. favorites = Cardinality(Held) /\ favorites \in Nat /\ IsFiniteSet(Held)
    BY <1>5 DEF OnTrack, FavoritesOnTrack, Idle, NInv
  <2>2. Goal(n) = (holding[u] \cup put) \ drop
    BY <1>2 DEF Goal
  <2>3. u \in Held <=> holding[u] # {}
    BY DEF Held
  <2>4. PICK H : H = Held
    OBVIOUS
  <2>5. Holders(n) = IF Goal(n) = {} THEN H \ {u} ELSE H \cup {u}
    BY <1>2, <2>4 DEF Holders
  <2>6. /\ Cardinality(H \ {u}) = IF u \in H THEN Cardinality(H) - 1 ELSE Cardinality(H)
        /\ Cardinality(H \cup {u}) = IF u \in H THEN Cardinality(H) ELSE Cardinality(H) + 1
    BY <2>1, <2>4, FS_AddElement, FS_RemoveElement
  <2>7. favorites = Cardinality(H)
    BY <2>1, <2>4
  <2>8. CASE holding[u] = {} /\ Goal(n) # {}
    <3>1. delta = 1
      BY <2>2, <2>8
    <3> QED BY <2>1, <2>3, <2>4, <2>5, <2>6, <2>7, <2>8, <3>1
  <2>9. CASE holding[u] # {} /\ Goal(n) = {}
    <3>1. delta = -1
      BY <2>2, <2>9
    <3> QED BY <2>1, <2>3, <2>4, <2>5, <2>6, <2>7, <2>9, <3>1
  <2>10. CASE holding[u] = {} /\ Goal(n) = {}
    <3>1. delta = 0
      BY <2>2, <2>10
    <3> QED BY <2>1, <2>3, <2>4, <2>5, <2>6, <2>7, <2>10, <3>1
  <2>11. CASE holding[u] # {} /\ Goal(n) # {}
    <3>1. delta = 0
      BY <2>2, <2>11
    <3> QED BY <2>1, <2>3, <2>4, <2>5, <2>6, <2>7, <2>11, <3>1
  <2> QED BY <2>8, <2>9, <2>10, <2>11
<1>6. ~elsewhere => FavoritesOnTrack(n)
  BY <1>2, <1>5 DEF FavoritesOnTrack
<1> QED BY <1>1, <1>2, <1>3, <1>4, <1>6 DEF OnTrack

LEMMA RequestBegins ==
  ASSUME Types, NInv, OnTrack(Idle), NEW w \in Workers, NEW u \in Fans, Request(w, u)
  PROVE  \E n \in {Idle} \cup Tasks : Moves(w, n) /\ OnTrack(n)
<1>1. ASSUME NEW c \in Contents, ToggleLike(w, u, c)
      PROVE  \E n \in {Idle} \cup Tasks : Moves(w, n) /\ OnTrack(n)
  <2>1. PICK pc : pc = IF like[c][u] = 0 THEN "liking" ELSE "unliking"
    OBVIOUS
  <2>2. PICK n : n = [pc |-> pc, user |-> u, content |-> c, rel |-> like[c][u]]
    OBVIOUS
  <2>3. n \in Tasks /\ OnTrack(n)
    BY <2>1, <2>2, LikeBegins
  <2>4. Moves(w, n)
    BY <1>1, <2>1, <2>2 DEF ToggleLike, Starts, Moves
  <2> QED BY <2>3, <2>4
<1>2. ASSUME NEW n \in {Idle} \cup Tasks, n.pc \in Neutral, Starts(w, n)
      PROVE  \E m \in {Idle} \cup Tasks : Moves(w, m) /\ OnTrack(m)
  <2>1. Idle.pc \in Neutral
    BY DEF Idle, Neutral
  <2> QED BY <1>2, <2>1, TrackNeutral DEF Starts, Moves
<1>3. ASSUME NEW v \in Users, Follow(w, u, v) \/ Unfollow(w, u, v)
      PROVE  \E n \in {Idle} \cup Tasks : Moves(w, n) /\ OnTrack(n)
  <2>1. PICK n : n = [pc |-> "following", user |-> u, other |-> v]
    OBVIOUS
  <2>2. n \in Tasks /\ n.pc \in Neutral /\ Idle.pc \in Neutral
    BY <2>1 DEF Tasks, Neutral, Idle
  <2>3. Starts(w, n) \/ Starts(w, Idle)
    BY <1>3, <2>1 DEF Follow, Unfollow
  <2> QED BY <1>2, <2>2, <2>3
<1>4. ASSUME CheckIn(w, u)
      PROVE  \E n \in {Idle} \cup Tasks : Moves(w, n) /\ OnTrack(n)
  <2>1. PICK n : n = [pc |-> "dating", user |-> u]
    OBVIOUS
  <2>2. n \in Tasks /\ n.pc \in Neutral
    BY <2>1 DEF Tasks, Neutral
  <2>3. Starts(w, n)
    BY <1>4, <2>1 DEF CheckIn
  <2> QED BY <1>2, <2>2, <2>3
<1>5. ASSUME NEW put \in SUBSET Folders, NEW drop \in SUBSET Folders, NEW delta \in {-1, 0, 1},
             delta = CASE holding[u] = {} /\ (holding[u] \cup put) \ drop # {} -> 1
                       [] holding[u] # {} /\ (holding[u] \cup put) \ drop = {} -> -1
                       [] OTHER -> 0,
             Starts(w, FolderTask(u, put, drop, delta))
      PROVE  \E n \in {Idle} \cup Tasks : Moves(w, n) /\ OnTrack(n)
  <2>1. FolderTask(u, put, drop, delta) \in Tasks /\ OnTrack(FolderTask(u, put, drop, delta))
    BY <1>5, FilingBegins
  <2> QED BY <1>5, <2>1 DEF Starts, Moves
<1>6. ASSUME ToggleFavorite(w, u)
      PROVE  \E n \in {Idle} \cup Tasks : Moves(w, n) /\ OnTrack(n)
  <2>1. holding[u] \in SUBSET Folders /\ {Default} \in SUBSET Folders /\ {} \in SUBSET Folders
    BY FoldersAssumption DEF Types
  <2>2. CASE holding[u] # {}
    <3>1. Starts(w, FolderTask(u, {}, holding[u], -1))
      BY <1>6, <2>2 DEF ToggleFavorite
    <3>2. (holding[u] \cup {}) \ holding[u] = {}
      OBVIOUS
    <3>3. -1 \in {-1, 0, 1}
      OBVIOUS
    <3> QED BY <1>5, <2>1, <2>2, <3>1, <3>2, <3>3
  <2>3. CASE holding[u] = {}
    <3>1. Starts(w, FolderTask(u, {Default}, {}, 1))
      BY <1>6, <2>3 DEF ToggleFavorite
    <3>2. (holding[u] \cup {Default}) \ {} # {}
      OBVIOUS
    <3>3. 1 \in {-1, 0, 1}
      OBVIOUS
    <3> QED BY <1>5, <2>1, <2>3, <3>1, <3>2, <3>3
  <2> QED BY <2>2, <2>3
<1>7. ASSUME NEW want \in SUBSET Folders, SetPatchFolders(w, u, want)
      PROVE  \E n \in {Idle} \cup Tasks : Moves(w, n) /\ OnTrack(n)
  <2>1. PICK current, put, drop, delta :
          /\ current = holding[u] /\ put = want \ current /\ drop = current \ want
          /\ delta = CASE current = {} /\ want # {} -> 1
                       [] current # {} /\ want = {} -> -1
                       [] OTHER -> 0
    OBVIOUS
  <2>2. Starts(w, FolderTask(u, put, drop, delta))
    BY <1>7, <2>1 DEF SetPatchFolders
  <2>3. put \in SUBSET Folders /\ drop \in SUBSET Folders /\ (holding[u] \cup put) \ drop = want
    BY <2>1 DEF Types
  <2>4. delta \in {-1, 0, 1}
    BY <2>1
  <2>5. delta = CASE holding[u] = {} /\ (holding[u] \cup put) \ drop # {} -> 1
                  [] holding[u] # {} /\ (holding[u] \cup put) \ drop = {} -> -1
                  [] OTHER -> 0
    BY <2>1, <2>3
  <2> QED BY <1>5, <2>2, <2>3, <2>4, <2>5
<1> QED BY <1>1, <1>3, <1>4, <1>6, <1>7 DEF Request

LEMMA RequestBooks ==
  ASSUME Types, NInv, BInv, NEW w \in Workers, NEW u \in Fans, Request(w, u)
  PROVE  BInv'
<1>1. UNCHANGED <<awardVars, likes, favourites>>
  BY RequestMoves
<1>2. serial' = (serial /\ \A v \in Workers : At(v, "idle"))
  BY DEF Request, ToggleLike, Follow, Unfollow, CheckIn, ToggleFavorite, SetPatchFolders, Starts
<1> SUFFICES ASSUME serial', faults' = 0, purged' = {} PROVE BInv'
  BY DEF BInv
<1>9. purged' = purged
  BY DEF Request, ToggleLike, Follow, Unfollow, CheckIn, ToggleFavorite, SetPatchFolders,
     followings
<1>3. /\ serial /\ \A v \in Workers : At(v, "idle")
      /\ faults = 0 /\ purged = {}
  BY <1>1, <1>2, <1>9 DEF awardVars
<1>4. LikesSound /\ OnTrack(Idle)
  BY <1>3 DEF BInv
<1>5. PICK n \in {Idle} \cup Tasks : Moves(w, n) /\ OnTrack(n)
  BY <1>4, RequestBegins
<1>6. /\ UsedKeys' = UsedKeys /\ Total(LikeKeys)' = Total(LikeKeys)
      /\ Once(LikeKeys)' <=> Once(LikeKeys)
  BY <1>1, TotalSame DEF awardVars
<1>7. LikesSound'
  BY <1>1, <1>4, <1>6, SoundKept DEF LikesSound, likes
<1>8. OnTrack(n)'
  BY <1>1, <1>5, <1>6, TrackKept
<1> QED BY <1>3, <1>5, <1>7, <1>8, OneWorks

\* The relation is there, its award and its count are not yet.
LEMMA CreateBooks ==
  ASSUME Types, NInv, RInv, LikesSound, purged = {}, NEW w \in Workers, NEW t \in Tasks, t = worker[w],
         OnTrack(t), CreateLike(w)
  PROVE  \E n \in Tasks : Moves(w, n) /\ LikesSound' /\ OnTrack(n)'
<1>1. t.pc = "liking" /\ t.content \in Contents /\ t.user \in Fans /\ t.rel \in Nat
  BY PlaceOf DEF CreateLike, At
<1>2. PICK c, u, id : c = t.content /\ u = t.user /\ id = likeIds + 1
  OBVIOUS
<1>3. c \in Contents /\ u \in Fans /\ id \in Nat /\ id # 0 /\ like[c][u] = 0
  BY <1>1, <1>2 DEF OnTrack, LikeKnown, Types
<1>4. /\ like' = [like EXCEPT ![c][u] = id] /\ likeIds' = id
      /\ worker' = [worker EXCEPT ![w].pc = "liked", ![w].rel = id]
      /\ UNCHANGED <<awardVars, likeCount, favourites>>
  BY <1>2, <1>3 DEF CreateLike
<1>5. PICK n : n = [worker[w] EXCEPT !.pc = "liked", !.rel = id]
  OBVIOUS
<1>6. /\ n \in Tasks /\ Moves(w, n)
      /\ n.pc = "liked" /\ n.content = c /\ n.user = u /\ n.rel = id
  BY <1>1, <1>2, <1>3, <1>4, <1>5 DEF Tasks, Moves
<1>7. /\ UsedKeys' = UsedKeys /\ Total(LikeKeys)' = Total(LikeKeys)
      /\ Once(LikeKeys)' <=> Once(LikeKeys)
  BY <1>4, TotalSame DEF awardVars
<1>8. /\ like'[c][u] = id
      /\ \A d \in Contents, v \in Fans : d # c \/ v # u => like'[d][v] = like[d][v]
  <2>1. like' = [like EXCEPT ![c][u] = id]
    BY <1>4
  <2>2. like \in [Contents -> [Fans -> Nat]]
    BY DEF Types
  <2> QED BY <1>3, <2>1, <2>2
<1>9. /\ <<"like", c, id>> \notin UsedKeys /\ <<"unlike", c, id>> \notin UsedKeys
  <2>1. ASSUME NEW k \in {<<"like", c, id>>, <<"unlike", c, id>>}, k \in UsedKeys PROVE FALSE
    <3>1. k \in LikeKeys /\ k[3] = id
      BY <1>3, <2>1 DEF LikeKeys
    <3>2. id <= likeIds /\ likeIds \in Nat
      BY <2>1, <3>1 DEF LikesSound, Types
    <3> QED BY <1>2, <3>2
  <2> QED BY <2>1
<1>10. \A d \in Contents, v \in Fans :
         like[d][v] <= likeIds /\ like[d][v] \in Nat /\ like[d][v] # id /\ like[d][v] <= id
  <2>1. ASSUME NEW d \in Contents, NEW v \in Fans
        PROVE  like[d][v] <= likeIds /\ like[d][v] \in Nat /\ like[d][v] # id /\ like[d][v] <= id
    <3>1. like[d][v] \in Nat /\ likeIds \in Nat
      BY DEF Types
    <3>2. like[d][v] <= likeIds
      BY DEF LikesSound
    <3> QED BY <1>2, <3>1, <3>2
  <2> QED BY <2>1
<1>11. ASSUME NEW d \in Contents, NEW v \in Fans
       PROVE  /\ like'[d][v] <= likeIds'
              /\ like'[d][v] # 0 =>
                   /\ <<"unlike", d, like'[d][v]>> \notin UsedKeys'
                   /\ \A e \in Contents, x \in Fans : like'[e][x] = like'[d][v] => e = d /\ x = v
  <2>1. CASE d = c /\ v = u
    BY <1>3, <1>4, <1>7, <1>8, <1>9, <1>10, <2>1
  <2>2. CASE d # c \/ v # u
    BY <1>4, <1>7, <1>8, <1>10, <2>2 DEF LikesSound
  <2> QED BY <2>1, <2>2
<1>12. \A k \in UsedKeys' : k \in LikeKeys => k[3] <= likeIds'
  <2>1. ASSUME NEW k \in UsedKeys, k \in LikeKeys PROVE k[3] <= id
    <3>1. k[3] <= likeIds /\ k[3] \in Nat /\ likeIds \in Nat
      BY <2>1 DEF LikesSound, LikeKeys, Types
    <3> QED BY <1>2, <3>1
  <2> QED BY <1>4, <1>7, <2>1
<1>13. LikesSound'
  BY <1>7, <1>11, <1>12 DEF LikesSound
<1>14. LikeKnown(n)'
  BY <1>3, <1>6, <1>7, <1>8, <1>9 DEF LikeKnown
<1>15. LikesOnTrack(n)'
  <2>1. /\ \A d \in Contents : d # c => Likers(d)' = Likers(d)
        /\ Cardinality(Likers(c)') = Cardinality(Likers(c)) + 1
        /\ Cardinality(Liked') = Cardinality(Liked) + One(u # Author)
        /\ Cardinality(Likers(c)) \in Nat /\ Cardinality(Liked) \in Nat
    <3> DEFINE Rise == /\ Cardinality(Likers(c)') = Cardinality(Likers(c)) + 1
                       /\ Cardinality(Liked') = Cardinality(Liked) + One(u # Author)
    <3>1. c \in Contents /\ u \in Fans /\ like' = [like EXCEPT ![c][u] = id]
      BY <1>3, <1>4
    <3>2. /\ \A d \in Contents : d # c => Likers(d)' = Likers(d)
          /\ Cardinality(Likers(c)) \in Nat /\ Cardinality(Liked) \in Nat
      BY <3>1, LikeWritten
    <3>3. id # 0 /\ like[c][u] = 0 => Rise
      BY <3>1, LikeWritten
    <3> QED BY <1>3, <3>2, <3>3
  <2>2. /\ \A d \in Contents : likeCount[d] + 0 = Cardinality(Likers(d)) + 0
        /\ Total(LikeKeys) + 0 = Cardinality(Liked) + 0
    BY <1>1 DEF OnTrack, LikesOnTrack, One
  <2>3. likeCount \in [Contents -> Nat]
    BY DEF NInv
  <2>4. ASSUME NEW d \in Contents
        PROVE  likeCount'[d] + One(n.pc = "liked" /\ n.content = d)
                 = Cardinality(Likers(d)') + One(n.pc = "unliked" /\ n.content = d)
    <3>1. likeCount'[d] = likeCount[d] /\ likeCount[d] \in Nat
      BY <1>4, <2>3
    <3>2. CASE d = c
      BY <1>6, <2>1, <2>2, <3>1, <3>2 DEF One
    <3>3. CASE d # c
      BY <1>6, <2>1, <2>2, <3>1, <3>3 DEF One
    <3> QED BY <3>2, <3>3
  <2>5. Total(LikeKeys)' + One(n.pc = "liked" /\ n.user # Author)
          = Cardinality(Liked') + One(n.pc = "unliked" /\ n.user # Author)
    <3>1. /\ One(n.pc = "liked" /\ n.user # Author) = One(u # Author)
          /\ One(n.pc = "unliked" /\ n.user # Author) = 0
      BY <1>6 DEF One
    <3>2. Total(LikeKeys) \in Int
      BY TotalIs DEF RInv, Total
    <3>3. Total(LikeKeys)' + One(u # Author) = Cardinality(Liked') + 0
      BY <1>7, <2>1, <2>2, <3>2 DEF One
    <3> QED BY <3>1, <3>3
  <2> QED BY <2>4, <2>5 DEF LikesOnTrack
<1>16. ~elsewhere' => FavoritesOnTrack(n)'
  BY <1>1, <1>4, <1>6 DEF OnTrack, FavoritesOnTrack, favourites, Held
<1> QED BY <1>6, <1>13, <1>14, <1>15, <1>16 DEF OnTrack

\* The relation is gone; its count and its point are still there.
LEMMA DeleteBooks ==
  ASSUME Types, NInv, RInv, LikesSound, NEW w \in Workers, NEW t \in Tasks, t = worker[w],
         OnTrack(t), DeleteLike(w)
  PROVE  \E n \in Tasks : Moves(w, n) /\ LikesSound' /\ OnTrack(n)'
<1>1. t.pc = "unliking" /\ t.content \in Contents /\ t.user \in Fans /\ t.rel \in Nat
  BY PlaceOf DEF DeleteLike, At
<1>2. PICK c, u, id : c = t.content /\ u = t.user /\ id = t.rel
  OBVIOUS
<1>3. c \in Contents /\ u \in Fans /\ id \in Nat /\ id # 0 /\ like[c][u] = id
  BY <1>1, <1>2 DEF OnTrack, LikeKnown
<1>4. /\ like' = [like EXCEPT ![c][u] = 0]
      /\ worker' = [worker EXCEPT ![w].pc = "unliked"]
      /\ UNCHANGED <<awardVars, likeIds, likeCount, favourites>>
  BY <1>2, <1>3 DEF DeleteLike, Goes, Types
<1>5. PICK n : n = [worker[w] EXCEPT !.pc = "unliked"]
  OBVIOUS
<1>6. /\ n \in Tasks /\ Moves(w, n)
      /\ n.pc = "unliked" /\ n.content = c /\ n.user = u /\ n.rel = id
  BY <1>1, <1>2, <1>3, <1>4, <1>5 DEF Tasks, Moves
<1>7. /\ UsedKeys' = UsedKeys /\ Total(LikeKeys)' = Total(LikeKeys)
      /\ Once(LikeKeys)' <=> Once(LikeKeys)
  BY <1>4, TotalSame DEF awardVars
<1>8. /\ like'[c][u] = 0
      /\ \A d \in Contents, v \in Fans : d # c \/ v # u => like'[d][v] = like[d][v]
  <2>1. like' = [like EXCEPT ![c][u] = 0]
    BY <1>4
  <2>2. like \in [Contents -> [Fans -> Nat]]
    BY DEF Types
  <2> QED BY <1>3, <2>1, <2>2
<1>9. /\ <<"unlike", c, id>> \notin UsedKeys /\ id <= likeIds /\ likeIds \in Nat /\ 0 <= likeIds
      /\ \A d \in Contents, v \in Fans : like[d][v] = id => d = c /\ v = u
  <2>1. likeIds \in Nat
    BY DEF Types
  <2> QED BY <1>3, <2>1 DEF LikesSound
<1>10. ASSUME NEW d \in Contents, NEW v \in Fans
       PROVE  /\ like'[d][v] <= likeIds'
              /\ like'[d][v] # 0 =>
                   /\ <<"unlike", d, like'[d][v]>> \notin UsedKeys'
                   /\ \A e \in Contents, x \in Fans : like'[e][x] = like'[d][v] => e = d /\ x = v
  <2>1. CASE d = c /\ v = u
    BY <1>3, <1>4, <1>8, <1>9, <2>1
  <2>2. CASE d # c \/ v # u
    BY <1>3, <1>4, <1>7, <1>8, <2>2 DEF LikesSound
  <2> QED BY <2>1, <2>2
<1>11. \A k \in UsedKeys' : k \in LikeKeys => k[3] <= likeIds'
  BY <1>4, <1>7 DEF LikesSound
<1>12. LikesSound'
  BY <1>7, <1>10, <1>11 DEF LikesSound
<1>13. LikeKnown(n)'
  <2>1. \A d \in Contents, v \in Fans : like'[d][v] # id
    BY <1>3, <1>8, <1>9
  <2> QED BY <1>4, <1>6, <1>7, <1>9, <2>1 DEF LikeKnown
<1>14. LikesOnTrack(n)'
  <2>1. /\ \A d \in Contents : d # c => Likers(d)' = Likers(d)
        /\ Cardinality(Likers(c)) = Cardinality(Likers(c)') + 1
        /\ Cardinality(Liked) = Cardinality(Liked') + One(u # Author)
        /\ Cardinality(Likers(c)') \in Nat /\ Cardinality(Liked') \in Nat
    BY <1>3, <1>4, LikeWritten
  <2>2. /\ \A d \in Contents : likeCount[d] + 0 = Cardinality(Likers(d)) + 0
        /\ Total(LikeKeys) + 0 = Cardinality(Liked) + 0
    BY <1>1 DEF OnTrack, LikesOnTrack, One
  <2>3. likeCount \in [Contents -> Nat]
    BY DEF NInv
  <2>4. ASSUME NEW d \in Contents
        PROVE  likeCount'[d] + One(n.pc = "liked" /\ n.content = d)
                 = Cardinality(Likers(d)') + One(n.pc = "unliked" /\ n.content = d)
    <3>1. likeCount'[d] = likeCount[d] /\ likeCount[d] \in Nat
      BY <1>4, <2>3
    <3>2. CASE d = c
      BY <1>6, <2>1, <2>2, <3>1, <3>2 DEF One
    <3>3. CASE d # c
      BY <1>6, <2>1, <2>2, <3>1, <3>3 DEF One
    <3> QED BY <3>2, <3>3
  <2>5. Total(LikeKeys)' + One(n.pc = "liked" /\ n.user # Author)
          = Cardinality(Liked') + One(n.pc = "unliked" /\ n.user # Author)
    <3>1. /\ One(n.pc = "liked" /\ n.user # Author) = 0
          /\ One(n.pc = "unliked" /\ n.user # Author) = One(u # Author)
      BY <1>6 DEF One
    <3>2. Total(LikeKeys) \in Int
      BY TotalIs DEF RInv, Total
    <3>3. Total(LikeKeys)' + 0 = Cardinality(Liked') + One(u # Author)
      BY <1>7, <2>1, <2>2, <3>2 DEF One
    <3> QED BY <3>1, <3>3
  <2> QED BY <2>4, <2>5 DEF LikesOnTrack
<1>15. ~elsewhere' => FavoritesOnTrack(n)'
  BY <1>1, <1>4, <1>6 DEF OnTrack, FavoritesOnTrack, favourites, Held
<1> QED BY <1>6, <1>12, <1>13, <1>14, <1>15 DEF OnTrack

\* The count and the award.
LEMMA CountBooks ==
  ASSUME Types, Types', NInv, RInv, SInv, LikesSound,
         NEW w \in Workers, NEW t \in Tasks, t = worker[w], OnTrack(t), CountLike(w)
  PROVE  LikesSound' /\ OnTrack(Idle)'
<1>1. /\ t.pc \in {"liked", "unliked"} /\ t.content \in Contents /\ t.user \in Fans /\ t.rel \in Nat
      /\ Slots # InFlight /\ Author \in Users
  BY PlaceOf, SlotLeft, UsersAssumption DEF CountLike, At
<1>2. PICK c, id : c = t.content /\ id = t.rel
  OBVIOUS
<1>3. PICK kind, delta :
        /\ kind = IF t.pc = "liked" THEN "like" ELSE "unlike"
        /\ delta = IF t.pc = "liked" THEN 1 ELSE -1
  OBVIOUS
<1>4. PICK key : key = <<kind, c, id>>
  OBVIOUS
<1>5. /\ key \in AwardKeys /\ key \in LikeKeys /\ key[3] = id /\ delta \in Int
      /\ c \in Contents /\ id \in Nat
  BY <1>1, <1>2, <1>3, <1>4 DEF AwardKeys, LikeKeys
<1>6. /\ IF t.user = Author THEN award' = award ELSE Makes(Author, delta, key)
      /\ likeCount' = [likeCount EXCEPT ![c] = IF t.pc = "liked" THEN @ + 1 ELSE Less(@)]
  BY <1>1, <1>2, <1>3, <1>4 DEF CountLike, AwardLike, Award, Makes, At
<1>7. UNCHANGED <<entries, like, likeIds, favourites>>
  BY DEF CountLike
<1>8. /\ key \notin UsedKeys /\ id <= likeIds
      /\ t.pc = "unliked" => \A d \in Contents, v \in Fans : like[d][v] # id
  <2>1. CASE t.pc = "liked"
    <3>1. like[c][t.user] = id /\ key \notin UsedKeys
      BY <1>2, <1>3, <1>4, <2>1 DEF OnTrack, LikeKnown
    <3>2. like[c][t.user] <= likeIds
      BY <1>1, <1>5 DEF LikesSound
    <3>3. t.pc # "unliked"
      BY <2>1
    <3> QED BY <3>1, <3>2, <3>3
  <2>2. CASE t.pc = "unliked"
    BY <1>2, <1>3, <1>4, <2>2 DEF OnTrack, LikeKnown
  <2> QED BY <1>1, <2>1, <2>2
<1>9. /\ Total(LikeKeys)' = Total(LikeKeys) + (IF t.user = Author THEN 0 ELSE delta)
      /\ Total(LikeKeys) \in Int /\ UsedKeys' \subseteq UsedKeys \cup {key}
      /\ Once(LikeKeys) => Once(LikeKeys)'
  <2>1. IsFiniteSet(entries) /\ entries' = entries
    BY <1>7 DEF RInv
  <2>2. PICK K : K = LikeKeys
    OBVIOUS
  <2>3. CASE t.user = Author
    <3>1. /\ UsedKeys' = UsedKeys /\ Total(K)' = Total(K) /\ (Once(K)' <=> Once(K))
      BY <1>6, <2>1, <2>3, TotalSame
    <3>2. Total(K) \in Int
      BY TotalIs DEF RInv, Total
    <3> QED BY <2>2, <2>3, <3>1, <3>2
  <2>4. CASE t.user # Author
    <3>1. Slots # InFlight /\ Author \in Users /\ delta \in Int /\ key \in AwardKeys
      BY <1>1, <1>5
    <3>2. Makes(Author, delta, key)
      BY <1>6, <2>4
    <3>3. /\ Total(K)' = Total(K) + (IF key \in K THEN delta ELSE 0)
          /\ Total(K) \in Int /\ UsedKeys' = UsedKeys \cup {key}
          /\ Once(K) /\ (key \in K => key \notin UsedKeys) => Once(K)'
      BY <2>1, <3>1, <3>2, MakeAdds
    <3> QED BY <1>5, <1>8, <2>2, <2>4, <3>3
  <2> QED BY <2>3, <2>4
<1>10. ASSUME NEW d \in Contents, NEW v \in Fans, like[d][v] # 0
       PROVE  <<"unlike", d, like[d][v]>> \notin UsedKeys'
  <2>1. <<"unlike", d, like[d][v]>> \notin UsedKeys
    BY <1>10 DEF LikesSound
  <2>2. <<"unlike", d, like[d][v]>> # key
    BY <1>1, <1>3, <1>4, <1>8
  <2> QED BY <1>9, <2>1, <2>2
<1>11. LikesSound'
  <2>1. \A k \in UsedKeys' : k \in LikeKeys => k[3] <= likeIds'
    BY <1>5, <1>7, <1>8, <1>9 DEF LikesSound
  <2> QED BY <1>7, <1>9, <1>10, <2>1 DEF LikesSound
<1>12. LikesOnTrack(Idle)'
  <2>1. Liked' = Liked /\ \A d \in Contents : Likers(d)' = Likers(d)
    BY <1>7 DEF Liked, Likers
  <2>2. likeCount \in [Contents -> Nat]
    BY DEF NInv
  <2>3. /\ \A d \in Contents :
             likeCount[d] + One(t.pc = "liked" /\ t.content = d)
               = Cardinality(Likers(d)) + One(t.pc = "unliked" /\ t.content = d)
        /\ Total(LikeKeys) + One(t.pc = "liked" /\ t.user # Author)
             = Cardinality(Liked) + One(t.pc = "unliked" /\ t.user # Author)
    BY DEF OnTrack, LikesOnTrack
  <2>4. IsFiniteSet(Liked) /\ \A d \in Contents : IsFiniteSet(Likers(d))
    BY DEF NInv
  <2>5. Cardinality(Liked) \in Nat /\ \A d \in Contents : Cardinality(Likers(d)) \in Nat
    BY <2>4, FS_CardinalityType
  <2>6. ASSUME NEW d \in Contents PROVE likeCount'[d] = Cardinality(Likers(d))
    <3>1. PICK a, b : a = likeCount[d] /\ b = Cardinality(Likers(d))
      OBVIOUS
    <3>2. a \in Nat /\ b \in Nat
      BY <2>2, <2>5, <3>1
    <3>3. a + One(t.pc = "liked" /\ c = d) = b + One(t.pc = "unliked" /\ c = d)
      BY <1>2, <2>3, <3>1
    <3>4. likeCount'[d] = IF d # c THEN a ELSE IF t.pc = "liked" THEN a + 1 ELSE Less(a)
      BY <1>5, <1>6, <2>2, <3>1
    <3>5. CASE d # c
      BY <3>1, <3>2, <3>3, <3>4, <3>5 DEF One
    <3>6. CASE d = c /\ t.pc = "liked"
      BY <3>1, <3>2, <3>3, <3>4, <3>6 DEF One
    <3>7. CASE d = c /\ t.pc = "unliked"
      <4>1. a = b + 1
        BY <3>2, <3>3, <3>7 DEF One
      <4>2. Less(a) = b
        BY <3>2, <4>1 DEF Less
      <4> QED BY <3>1, <3>4, <3>7, <4>2
    <3> QED BY <1>1, <3>5, <3>6, <3>7
  <2>7. Total(LikeKeys)' = Cardinality(Liked)
    <3>1. CASE t.pc = "liked"
      BY <1>3, <1>9, <2>3, <2>5, <3>1 DEF One
    <3>2. CASE t.pc = "unliked"
      BY <1>3, <1>9, <2>3, <2>5, <3>2 DEF One
    <3> QED BY <1>1, <3>1, <3>2
  <2>8. One(FALSE) = 0 /\ Idle.pc # "liked" /\ Idle.pc # "unliked"
    BY DEF One, Idle
  <2>9. Total(LikeKeys)' \in Int /\ \A d \in Contents : likeCount'[d] \in Int
    BY <2>5, <2>6, <2>7
  <2> QED BY <2>1, <2>5, <2>6, <2>7, <2>9 DEF LikesOnTrack, One, Idle
<1>13. LikeKnown(Idle)'
  BY DEF LikeKnown, Idle
<1>14. ~elsewhere' => FavoritesOnTrack(Idle)'
  BY <1>1, <1>7 DEF OnTrack, FavoritesOnTrack, favourites, Held, Idle
<1> QED BY <1>11, <1>12, <1>13, <1>14 DEF OnTrack

\* The folders are on their way to where they go.
LEMMA FilingBooks ==
  ASSUME Types, Types', NInv, LikesSound, NEW w \in Workers, NEW t \in Tasks, t = worker[w],
         OnTrack(t), PutFolderItem(w) \/ DeleteFolderItem(w)
  PROVE  \E n \in Tasks : Moves(w, n) /\ LikesSound' /\ OnTrack(n)'
<1>1. /\ t.pc = "filing" /\ t.user \in Fans
      /\ t.put \subseteq Folders /\ t.drop \subseteq Folders /\ t.delta \in {-1, 0, 1}
  BY PlaceOf DEF PutFolderItem, DeleteFolderItem, At
<1>2. UNCHANGED <<awardVars, likes, favorites, elsewhere>>
  BY DEF PutFolderItem, DeleteFolderItem
<1>3. PICK f, n, h :
        /\ holding' = [holding EXCEPT ![t.user] = h] /\ Moves(w, n)
        /\ \/ /\ f \in t.put /\ h = holding[t.user] \cup {f}
              /\ n = [t EXCEPT !.put = @ \ {f}]
           \/ /\ t.put = {} /\ f \in t.drop /\ h = holding[t.user] \ {f}
              /\ n = [t EXCEPT !.drop = @ \ {f}]
  <2>1. CASE PutFolderItem(w)
    <3>1. PICK f \in t.put : /\ holding' = [holding EXCEPT ![t.user] = @ \cup {f}]
                             /\ worker' = [worker EXCEPT ![w].put = @ \ {f}]
      BY <2>1 DEF PutFolderItem
    <3>2. holding' = [holding EXCEPT ![t.user] = holding[t.user] \cup {f}]
      BY <3>1
    <3>3. Moves(w, [t EXCEPT !.put = @ \ {f}])
      BY <3>1 DEF Moves
    <3> QED BY <3>2, <3>3
  <2>2. CASE DeleteFolderItem(w)
    <3>1. t.put = {}
      BY <2>2 DEF DeleteFolderItem
    <3>2. PICK f \in t.drop : /\ holding' = [holding EXCEPT ![t.user] = @ \ {f}]
                              /\ worker' = [worker EXCEPT ![w].drop = @ \ {f}]
      BY <2>2 DEF DeleteFolderItem
    <3>3. holding' = [holding EXCEPT ![t.user] = holding[t.user] \ {f}]
      BY <3>2
    <3>4. Moves(w, [t EXCEPT !.drop = @ \ {f}])
      BY <3>2 DEF Moves
    <3> QED BY <3>1, <3>2, <3>3, <3>4
  <2> QED BY <2>1, <2>2
<1>4. /\ n \in Tasks /\ n.pc = "filing" /\ n.user = t.user /\ n.delta = t.delta
      /\ \/ f \in t.put /\ n.put = t.put \ {f} /\ n.drop = t.drop
         \/ t.put = {} /\ f \in t.drop /\ n.put = t.put /\ n.drop = t.drop \ {f}
  <2>1. t \in [pc : {"filing"}, user : Fans, put : SUBSET Folders, drop : SUBSET Folders,
               delta : {-1, 0, 1}]
    BY <1>1 DEF Tasks
  <2>2. n \in [pc : {"filing"}, user : Fans, put : SUBSET Folders, drop : SUBSET Folders,
               delta : {-1, 0, 1}]
    BY <1>3, <2>1
  <2> QED BY <1>3, <2>1, <2>2 DEF Tasks
<1>5. holding'[t.user] = h /\ Held' \ {t.user} = Held \ {t.user}
  BY <1>1, <1>3, HeldWritten
<1>6. (h \cup n.put) \ n.drop = Goal(t)
  <2>1. CASE f \in t.put /\ h = holding[t.user] \cup {f} /\ n = [t EXCEPT !.put = @ \ {f}]
    <3>1. n.put = t.put \ {f} /\ n.drop = t.drop
      BY <1>1, <2>1 DEF Tasks
    <3> QED BY <2>1, <3>1 DEF Goal
  <2>2. CASE /\ t.put = {} /\ f \in t.drop /\ h = holding[t.user] \ {f}
             /\ n = [t EXCEPT !.drop = @ \ {f}]
    <3>1. n.put = t.put /\ n.drop = t.drop \ {f}
      BY <1>1, <2>2 DEF Tasks
    <3> QED BY <2>2, <3>1 DEF Goal
  <2> QED BY <1>3, <2>1, <2>2
<1>7. Goal(n)' = Goal(t) /\ Holders(n)' = Holders(t)
  <2>1. Goal(n)' = Goal(t)
    BY <1>4, <1>5, <1>6 DEF Goal
  <2>2. Holders(n)' = (Held' \ {n.user}) \cup (IF Goal(n)' = {} THEN {} ELSE {n.user})
    BY DEF Holders
  <2> QED BY <1>4, <1>5, <2>1, <2>2 DEF Holders
<1>8. /\ UsedKeys' = UsedKeys /\ Total(LikeKeys)' = Total(LikeKeys)
      /\ Once(LikeKeys)' <=> Once(LikeKeys)
  BY <1>2, TotalSame DEF awardVars
<1>9. LikesSound'
  BY <1>2, <1>8, SoundKept DEF LikesSound, likes
<1>10. LikeKnown(n)'
  BY <1>4 DEF LikeKnown
<1>11. LikesOnTrack(n)'
  <2>1. Liked' = Liked /\ likeCount' = likeCount /\ \A c \in Contents : Likers(c)' = Likers(c)
    BY <1>2 DEF Liked, Likers, likes
  <2> QED BY <1>1, <1>4, <1>8, <2>1 DEF OnTrack, LikesOnTrack, One
<1>12. ~elsewhere' => FavoritesOnTrack(n)'
  <2>1. ~elsewhere => favorites + t.delta = Cardinality(Holders(t))
    BY <1>1 DEF OnTrack, FavoritesOnTrack
  <2>2. ~elsewhere' => favorites' + n.delta = Cardinality(Holders(n)')
    BY <1>2, <1>4, <1>7, <2>1
  <2> QED BY <1>4, <2>2 DEF FavoritesOnTrack
<1> QED BY <1>3, <1>4, <1>9, <1>10, <1>11, <1>12 DEF OnTrack

\* An award for something else than a like.
LEMMA LikesApart ==
  ASSUME Types, Types', RInv, LikesSound, Slots # InFlight, UNCHANGED <<entries, like, likeIds>>,
         NEW user \in Users, NEW delta \in Int, NEW key \in AwardKeys, key \notin LikeKeys,
         Makes(user, delta, key)
  PROVE  /\ LikesSound' /\ Total(LikeKeys)' = Total(LikeKeys)
         /\ \A k \in UsedKeys' : k \in LikeKeys => k \in UsedKeys
<1>1. PICK K : K = LikeKeys
  OBVIOUS
<1>2. IsFiniteSet(entries)
  BY DEF RInv
<1>3. /\ Total(K)' = Total(K) + (IF key \in K THEN delta ELSE 0) /\ Total(K) \in Int
      /\ UsedKeys' = UsedKeys \cup {key}
      /\ Once(K) /\ (key \in K => key \notin UsedKeys) => Once(K)'
  BY <1>2, MakeAdds
<1>4. Total(LikeKeys)' = Total(LikeKeys) /\ (Once(LikeKeys) => Once(LikeKeys)')
  BY <1>1, <1>3
<1>5. \A k \in UsedKeys' : k \in LikeKeys => k \in UsedKeys
  BY <1>3
<1> QED BY <1>4, <1>5, SoundKept DEF LikesSound

\* The favourite is counted, and paid once.
LEMMA SettleBooks ==
  ASSUME Types, Types', NInv, RInv, SInv, LikesSound,
         NEW w \in Workers, NEW t \in Tasks, t = worker[w], OnTrack(t), SettleFavorite(w)
  PROVE  LikesSound' /\ OnTrack(Idle)'
<1>1. /\ t.pc = "filing" /\ t.user \in Fans /\ t.delta \in {-1, 0, 1} /\ t.put = {} /\ t.drop = {}
      /\ Slots # InFlight /\ Author \in Users
  BY PlaceOf, SlotLeft, UsersAssumption DEF SettleFavorite, At
<1>2. UNCHANGED <<entries, likes, holding, elsewhere>>
  BY DEF SettleFavorite
<1>3. /\ LikesSound' /\ Total(LikeKeys)' = Total(LikeKeys)
      /\ \A k \in UsedKeys' : k \in LikeKeys => k \in UsedKeys
  <2>1. CASE award' = award
    <3>1. /\ UsedKeys' = UsedKeys /\ Total(LikeKeys)' = Total(LikeKeys)
          /\ Once(LikeKeys)' <=> Once(LikeKeys)
      BY <1>2, <2>1, TotalSame
    <3> QED BY <1>2, <3>1, SoundKept DEF LikesSound, likes
  <2>2. CASE /\ <<"favorite", t.delta>> \in AwardKeys
             /\ Makes(Author, t.delta, <<"favorite", t.delta>>)
    <3>1. PICK key : key = <<"favorite", t.delta>>
      OBVIOUS
    <3>2. key \in AwardKeys /\ key \notin LikeKeys /\ Makes(Author, t.delta, key) /\ t.delta \in Int
      BY <1>1, <2>2, <3>1 DEF LikeKeys
    <3> QED BY <1>1, <1>2, <3>2, LikesApart DEF likes
  <2> QED BY <2>1, <2>2, PayIs
<1>4. LikeKnown(Idle)'
  BY DEF LikeKnown, Idle
<1>5. LikesOnTrack(Idle)'
  <2>1. Liked' = Liked /\ likeCount' = likeCount /\ \A c \in Contents : Likers(c)' = Likers(c)
    BY <1>2 DEF Liked, Likers, likes
  <2> QED BY <1>1, <1>3, <2>1 DEF OnTrack, LikesOnTrack, One, Idle
<1>6. ASSUME ~elsewhere' PROVE FavoritesOnTrack(Idle)'
  <2>1. favorites + t.delta = Cardinality(Holders(t))
    BY <1>1, <1>2, <1>6 DEF OnTrack, FavoritesOnTrack
  <2>2. Holders(t) = Held
    BY <1>1 DEF Holders, Goal, Held
  <2>3. favorites \in Nat /\ Cardinality(Held) \in Nat
    BY FS_CardinalityType DEF NInv
  <2>4. favorites' = CASE t.delta = 1 -> favorites + 1
                       [] t.delta = -1 -> Less(favorites)
                       [] t.delta = 0 -> favorites
    BY DEF SettleFavorite
  <2>5. PICK a, b : a = favorites /\ b = Cardinality(Held)
    OBVIOUS
  <2>6. favorites' = b
    <3>1. a \in Nat /\ b \in Nat /\ a + t.delta = b
      BY <2>1, <2>2, <2>3, <2>5
    <3>2. CASE t.delta = -1
      <4>1. Less(a) = b
        BY <3>1, <3>2 DEF Less
      <4> QED BY <2>4, <2>5, <3>2, <4>1
    <3>3. CASE t.delta = 0
      BY <2>4, <2>5, <3>1, <3>3
    <3>4. CASE t.delta = 1
      BY <2>4, <2>5, <3>1, <3>4
    <3> QED BY <1>1, <3>2, <3>3, <3>4
  <2>7. Held' = Held /\ Idle.pc # "filing"
    BY <1>2 DEF Held, Idle
  <2> QED BY <2>5, <2>6, <2>7 DEF FavoritesOnTrack
<1> QED BY <1>3, <1>4, <1>5, <1>6 DEF OnTrack

\* Whoever neither likes nor files is done.
LEMMA NeutralBooks ==
  ASSUME Types, Types', NInv, RInv, SInv, LikesSound,
         NEW w \in Workers, NEW t \in Tasks, t = worker[w], OnTrack(t),
         PayCheckIn(w) \/ CreateFollow(w)
  PROVE  LikesSound' /\ OnTrack(Idle)'
<1>1. t.pc \in Neutral /\ Idle.pc \in Neutral /\ Slots # InFlight
  BY SlotLeft DEF PayCheckIn, CreateFollow, At, Neutral, Idle
<1>2. UNCHANGED <<entries, likes, favourites>>
  BY DEF PayCheckIn, CreateFollow, awardVars
<1>3. /\ LikesSound' /\ Total(LikeKeys)' = Total(LikeKeys)
      /\ \A k \in UsedKeys' : k \in LikeKeys => k \in UsedKeys
  <2>1. CASE award' = award
    <3>1. /\ UsedKeys' = UsedKeys /\ Total(LikeKeys)' = Total(LikeKeys)
          /\ Once(LikeKeys)' <=> Once(LikeKeys)
      BY <1>2, <2>1, TotalSame
    <3> QED BY <1>2, <3>1, SoundKept DEF LikesSound, likes
  <2>2. ASSUME PayCheckIn(w), NEW p \in Nat,
               Makes(t.user, p, <<"checkin", t.user, days>>)
        PROVE  /\ LikesSound' /\ Total(LikeKeys)' = Total(LikeKeys)
               /\ \A k \in UsedKeys' : k \in LikeKeys => k \in UsedKeys
    <3>1. PICK key : key = <<"checkin", t.user, days>>
      OBVIOUS
    <3>2. key \in AwardKeys /\ t.user \in Users
      BY <2>2, <3>1, PayIs, UsersAssumption
    <3>3. key \notin LikeKeys /\ Makes(t.user, p, key) /\ p \in Int
      BY <2>2, <3>1 DEF LikeKeys
    <3> QED BY <1>1, <1>2, <3>2, <3>3, LikesApart DEF likes
  <2>3. CreateFollow(w) => award' = award
    BY OtherMoves DEF awardVars
  <2>4. PayCheckIn(w) => award' = award \/ \E p \in Nat :
                           Makes(t.user, p, <<"checkin", t.user, days>>)
    BY PayIs
  <2> QED BY <2>1, <2>2, <2>3, <2>4
<1>4. OnTrack(Idle)
  BY <1>1, TrackNeutral
<1> QED BY <1>2, <1>3, <1>4, TrackKept

LEMMA BooksStep ==
  ASSUME Types, Types', NInv, RInv, SInv, BInv, [Next]_vars
  PROVE  BInv'
<1>1. ASSUME NEW w \in Workers, \/ CreateLike(w) \/ DeleteLike(w) \/ PutFolderItem(w)
                                \/ DeleteFolderItem(w) \/ CountLike(w) \/ PayCheckIn(w)
                                \/ SettleFavorite(w) \/ CreateFollow(w)
      PROVE  BInv'
  <2>1. ~At(w, "idle") /\ faults' = faults /\ serial' = serial /\ purged' = purged
    <3>1. ~At(w, "idle") /\ faults' = faults
      <4>1. CASE CreateLike(w) \/ DeleteLike(w) \/ PutFolderItem(w) \/ DeleteFolderItem(w)
        BY <4>1, WriteMoves DEF awardVars
      <4>2. CASE CountLike(w) \/ PayCheckIn(w) \/ SettleFavorite(w)
        BY <4>2, PayMoves
      <4>3. CASE CreateFollow(w)
        BY <4>3, OtherMoves DEF awardVars
      <4> QED BY <1>1, <4>1, <4>2, <4>3
    <3>2. serial' = serial /\ purged' = purged
      BY <1>1 DEF CreateLike, DeleteLike, PutFolderItem, DeleteFolderItem, CountLike, PayCheckIn,
         SettleFavorite, CreateFollow, followings
    <3> QED BY <3>1, <3>2
  <2> SUFFICES ASSUME serial, faults = 0, purged = {} PROVE BInv'
    BY <2>1 DEF BInv
  <2>2. LikesSound /\ \A v \in Workers : v # w => At(v, "idle")
    BY <2>1, TaskIs
  <2>3. PICK t \in Tasks : t = worker[w] /\ OnTrack(t)
    BY <2>1, TaskIs
  <2>4. \E n \in {Idle} \cup Tasks : Moves(w, n) /\ LikesSound' /\ OnTrack(n)'
    <3>1. CASE CreateLike(w)
      BY <2>2, <2>3, <3>1, CreateBooks
    <3>2. CASE DeleteLike(w)
      BY <2>2, <2>3, <3>2, DeleteBooks
    <3>3. CASE PutFolderItem(w) \/ DeleteFolderItem(w)
      BY <2>2, <2>3, <3>3, FilingBooks
    <3>4. CASE CountLike(w)
      BY <2>2, <2>3, <3>4, CountBooks, PayMoves
    <3>5. CASE SettleFavorite(w)
      BY <2>2, <2>3, <3>5, SettleBooks, PayMoves
    <3>6. CASE PayCheckIn(w) \/ CreateFollow(w)
      BY <2>2, <2>3, <3>6, NeutralBooks, PayMoves, OtherMoves
    <3> QED BY <1>1, <3>1, <3>2, <3>3, <3>4, <3>5, <3>6
  <2> QED BY <2>2, <2>4, OneWorks
<1>2. ASSUME NEW w \in Workers, Stops(w) PROVE BInv'
  <2>1. faults' = faults + 1
    BY <1>2, OtherMoves
  <2> QED BY <2>1 DEF BInv, Types
<1>3. ASSUME UNCHANGED <<award, entries, likes, worker, serial, faults, purged>>,
             elsewhere' \/ UNCHANGED favourites
      PROVE  BInv'
  <2>1. /\ UsedKeys' = UsedKeys /\ Total(LikeKeys)' = Total(LikeKeys)
        /\ Once(LikeKeys)' <=> Once(LikeKeys)
    BY <1>3, TotalSame
  <2>2. LikesSound => LikesSound'
    BY <1>3, <2>1, SoundKept DEF LikesSound, likes
  <2>3. \A t \in {Idle} \cup Tasks : OnTrack(t) => OnTrack(t)'
    BY <1>3, <2>1, TrackKept
  <2> QED BY <1>3, <2>2, <2>3, NoneWorks
<1>4. CASE (\E u \in Fans : ChangeElsewhere(u)) \/ DailyReset \/ UNCHANGED vars
  <2>1. UNCHANGED <<award, entries, likes, worker, serial, faults, purged>>
    BY <1>4 DEF ChangeElsewhere, DailyReset, vars, awardVars, followings
  <2>2. elsewhere' \/ UNCHANGED favourites
    BY <1>4 DEF ChangeElsewhere, DailyReset, vars
  <2> QED BY <1>3, <2>1, <2>2
<1>5. CASE /\ AwardStep
           /\ UNCHANGED <<likes, followings, checkins, favourites, worker, serial, requests>>
  <2>1. faults' = faults \/ faults' = faults + 1
    <3>1. PICK i \in Slots : Adjust(i) \/ Balance(i) \/ WriteMirror(i) \/ AwardFails(i)
      BY <1>5 DEF AwardStep
    <3> QED BY <3>1 DEF Adjust, AdjustFirst, AdjustAgain, Balance, WriteMirror, AwardFails, Faulty
  <2>2. faults' = 0 => faults' = faults
    BY <2>1 DEF Types
  <2>3. PICK K : K = LikeKeys
    OBVIOUS
  <2>4. IsFiniteSet(entries)
    BY DEF RInv
  <2>5. UsedKeys' \subseteq UsedKeys /\ (Once(K) => Once(K)')
    BY <1>5, AwardOnce
  <2>6. Once(K) /\ faults' = faults => Total(K)' = Total(K)
    BY <1>5, <2>4, AwardTotal
  <2>7. /\ Once(LikeKeys) => Once(LikeKeys)'
        /\ Once(LikeKeys) /\ faults' = 0 => Total(LikeKeys)' = Total(LikeKeys)
    BY <2>2, <2>3, <2>5, <2>6
  <2>8. LikesSound => LikesSound'
    BY <1>5, <2>5, <2>7, SoundKept DEF LikesSound, likes
  <2>9. \A t \in {Idle} \cup Tasks : LikesSound /\ OnTrack(t) /\ faults' = 0 => OnTrack(t)'
    BY <1>5, <2>5, <2>7, TrackKept DEF LikesSound
  <2> QED BY <1>5, <2>2, <2>8, <2>9, NoneWorks DEF followings
<1>6. ASSUME NEW u \in Fans, PurgeUser(u) PROVE BInv'
  BY <1>6, OtherMoves DEF BInv
<1>7. ASSUME NEW u \in Users, Accounts(u) PROVE BInv'
  <2>1. UNCHANGED <<likes, worker, serial, purged, favourites, faults>>
    BY <1>7, AccountMoves DEF followings
  <2>2. PICK K : K = LikeKeys
    OBVIOUS
  <2>3. \A k \in K : k[1] \notin OtherKinds
    BY <2>2 DEF LikeKeys, OtherKinds
  <2>4. /\ Total(K)' = Total(K) /\ (Once(K) => Once(K)')
        /\ \A k \in UsedKeys' : k \in UsedKeys \/ k[1] \in OtherKinds
    BY <1>7, <2>3, AccountAdds DEF RInv
  <2>5. /\ Total(LikeKeys)' = Total(LikeKeys) /\ (Once(LikeKeys) => Once(LikeKeys)')
        /\ \A k \in UsedKeys' : k \in LikeKeys => k \in UsedKeys
    BY <2>2, <2>3, <2>4
  <2>6. LikesSound => LikesSound'
    BY <2>1, <2>5, SoundKept DEF LikesSound, likes
  <2>7. \A t \in {Idle} \cup Tasks : OnTrack(t) => OnTrack(t)'
    BY <2>1, <2>5, TrackKept
  <2> QED BY <2>1, <2>6, <2>7, NoneWorks
<1> QED BY <1>1, <1>2, <1>4, <1>5, <1>6, <1>7, RequestBooks, StepKinds

\* Nothing is at work, and nothing is due.
LEMMA CountedIs ==
  ASSUME Types, NInv, RInv, BInv
  PROVE  CountedSerially
<1> SUFFICES ASSUME Quiet, serial, faults = 0, purged = {}
             PROVE  /\ \A c \in Contents :
                         likeCount[c] = Cardinality({u \in Fans : like[c][u] # 0})
                    /\ Sum(Paid("like") \cup Paid("unlike")) =
                         Cardinality({cu \in Contents \X (Fans \ {Author}) : like[cu[1]][cu[2]] # 0})
                    /\ ~elsewhere => favorites = Cardinality({u \in Fans : holding[u] # {}})
  BY DEF CountedSerially
<1>1. OnTrack(Idle) /\ Settled
  BY DEF Quiet, BInv
<1>2. PICK T : T = Total(LikeKeys)
  OBVIOUS
<1>3. T = Sum(In(LikeKeys)) /\ T \in Int
  <2>1. Sum(Due(LikeKeys)) = 0
    BY <1>1, NothingDue
  <2>2. Sum(In(LikeKeys)) \in Int
    BY TotalIs DEF RInv
  <2> QED BY <1>2, <2>1, <2>2 DEF Total
<1>4. Paid("like") \cup Paid("unlike") = In(LikeKeys)
  <2>1. ASSUME NEW e \in entries PROVE e.key[1] \in {"like", "unlike"} <=> e.key \in LikeKeys
    <3>1. e.key \in AwardKeys
      BY DEF Types, Entries
    <3> QED BY <3>1 DEF AwardKeys, LikeKeys
  <2> QED BY <2>1 DEF Paid, In
<1>5. Idle.pc \notin {"liked", "unliked", "filing"}
  BY DEF Idle
<1>6. /\ \A c \in Contents : likeCount[c] + 0 = Cardinality(Likers(c)) + 0
      /\ T + 0 = Cardinality(Liked) + 0
      /\ ~elsewhere => favorites = Cardinality(Held)
  BY <1>1, <1>2, <1>5 DEF OnTrack, LikesOnTrack, FavoritesOnTrack, One
<1>7. /\ Cardinality(Liked) \in Nat
      /\ \A c \in Contents : likeCount[c] \in Nat /\ Cardinality(Likers(c)) \in Nat
  <2>1. IsFiniteSet(Liked) /\ \A c \in Contents : IsFiniteSet(Likers(c))
    BY DEF NInv
  <2>2. \A c \in Contents : likeCount[c] \in Nat
    BY DEF NInv
  <2> QED BY <2>1, <2>2, FS_CardinalityType
<1>8. /\ \A c \in Contents : likeCount[c] = Cardinality(Likers(c))
      /\ T = Cardinality(Liked)
  BY <1>3, <1>6, <1>7
<1> QED BY <1>3, <1>4, <1>6, <1>8 DEF Likers, Liked, Held

-----------------------------------------------------------------------------
(***************************************************************************)
(* The theorems of Engagement.                                             *)
(***************************************************************************)
IInv ==
  /\ Types /\ FInv /\ SInv /\ HInv /\ OInv
  /\ RInv /\ DInv
  /\ NInv /\ BInv

LEMMA InvariantInit ==
  Init => IInv
<1> SUFFICES ASSUME Init PROVE IInv
  OBVIOUS
<1>1. InFlight = {} /\ Busy = {}
  BY DEF Init, AwardInit, InFlight, Busy, At, Idle
<1>2. Types
  BY <1>1 DEF Init, AwardInit, Types
<1>3. IsFiniteSet({}) /\ Cardinality({}) = 0
  BY FS_EmptySet
<1>4. FInv
  <2>1. follows = {} /\ \A u : Of(u) = {} /\ To(u) = {}
    BY DEF Init, Of, To
  <2> QED BY <1>3, <2>1 DEF Init, FInv, FollowCountsExact, Of, To
<1>6. SInv
  BY <1>1, <1>3, BoundsAssumption DEF Init, SInv
<1>7. HInv /\ OInv
  BY <1>1 DEF Init, AwardInit, HInv, Had, OInv, Orderly, Known
<1>8. /\ UsedKeys = {} /\ Asking = {} /\ \A K : Once(K)
      /\ \A K : Sum(In(K)) = 0 /\ Sum(Due(K)) = 0
  <2>1. entries = {} /\ Keys = {} /\ Asking = {}
    BY DEF Init, AwardInit, Keys, Asking, Free
  <2>2. UsedKeys = {}
    BY <2>1 DEF UsedKeys
  <2>3. ASSUME NEW K PROVE Once(K) /\ In(K) = {} /\ Due(K) = {}
    BY <2>1 DEF Once, In, Due, Asks, Asking
  <2>4. Sum({}) = 0
    BY <1>3, SumIs
  <2> QED BY <2>1, <2>2, <2>3, <2>4
<1>9. RInv
  BY <1>3, <1>8 DEF Init, AwardInit, RInv
<1>10. \A K : Total(K) = 0
  BY <1>8 DEF Total
<1>11. DInv
  BY <1>8, <1>10 DEF Init, DInv, Dated, At, Idle
<1>12. Liked = {} /\ Held = {} /\ \A c \in Contents : Likers(c) = {}
  BY DEF Init, Liked, Held, Likers
<1>13. NInv
  BY <1>3, <1>12 DEF Init, NInv
<1>14. LikesSound
  BY <1>8 DEF Init, LikesSound
<1>15. OnTrack(Idle)
  BY <1>3, <1>10, <1>12
     DEF Init, OnTrack, LikeKnown, LikesOnTrack, FavoritesOnTrack, One, Idle
<1>16. \A w \in Workers : worker[w] = Idle
  BY DEF Init
<1>17. BInv
  BY <1>14, <1>15, <1>16 DEF BInv, At, Tasks, Idle
<1> QED BY <1>2, <1>4, <1>6, <1>7, <1>9, <1>11, <1>13, <1>17 DEF IInv

LEMMA Invariant ==
  Spec => []IInv
<1>1. IInv /\ [Next]_vars => IInv'
  BY TypesStep, FollowsStep, SlotsStep, HadStep, OrderStep, RightfulStep, DatedStep,
     NumbersStep, BooksStep DEF IInv
<1> QED BY <1>1, InvariantInit, PTL DEF Spec

\* However follows and unfollows overlap, a user's two counters are the numbers of relations.
THEOREM FollowsAreCounted ==
  Spec => []FollowCountsExact
<1>1. IInv => FollowCountsExact
  BY DEF IInv, FInv
<1> QED BY <1>1, Invariant, PTL

\* Whoever writes it, the mirror shows a balance the account has had; once all is quiet it is
\* behind the ledger by what others have done since the site last asked, and by no more, if no
\* writer failed, overlapped another of its user or used a key again.
THEOREM MirrorIsLedger ==
  Spec => []MirrorFollowsLedger
<1>1. IInv => MirrorFollowsLedger
  BY MirrorIs DEF IInv
<1> QED BY <1>1, Invariant, PTL

\* However users like and unlike, file and check in: while one request is served at a time,
\* nothing fails and nobody is purged, like_count, the author's points for likes and favorite_count are those
\* of the relations once all is quiet.
THEOREM LikesAddUp ==
  Spec => []CountedSerially
<1>1. IInv => CountedSerially
  BY CountedIs DEF IInv
<1> QED BY <1>1, Invariant, PTL

\* A user is never paid more for checking in than was said, and all of it when nothing failed
\* and no check-in was dated after midnight.
THEOREM CheckInsArePaid ==
  Spec => []CheckInsPaid
<1>1. IInv => CheckInsPaid
  BY PaidIs DEF IInv
<1> QED BY <1>1, Invariant, PTL

=============================================================================
