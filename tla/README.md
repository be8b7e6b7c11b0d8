# A verification model of the Kun Galgame Patch API

The program is a Go server (`apps/api`, Fiber, Postgres through gorm, Redis) behind a Nuxt
front end. It keeps the patches, resources, comments and chats of a community site, and it
leans on other services: OAuth (identity, sessions and the *moemoepoint* ledger), the galgame
catalog (works, the claims on them, users' folders), trust (moderation), storage for artifacts
and images, and a shop for short links.

Its hard part is not in its algorithms. It is that almost every operation is a sequence of
separate database statements, Redis commands and remote calls; that requests, cron jobs,
callbacks and goroutines run through these sequences at the same time; and that any of them may
fail in the middle. The models take one statement, one transaction or one remote call as one
step and let everything that runs concurrently in the program interleave.

Paths below are relative to `apps/api/internal` unless they start with `docs`, `pkg` or `apps`.

## 1. Files

| Module | What it is | Proofs |
|---|---|---|
| `ClaimSync` | the cron job that turns the catalog's claim events into local effects | `BackgroundProofs` |
| `ClaimEffects` | what that job promises; `ClaimSync` refines it | in `BackgroundProofs` |
| `PatchRegistry` | the local row of a game, its stub, its owner, its contributors, the award of a registration | `CatalogProofs` |
| `SessionAuth` | the session middleware: token renewal under a lock, logout, purge | `SessionAuthProofs` |
| `PatchComment` | comments, their threads, their review, and the counter kept beside them | `PatchCommentProofs` |
| `TrustEnforce` | moderation callbacks, their dedup table, and what users do to the same rows | `TrustEnforceProofs` |
| `UploadQuota` | uploads, completion and the daily quotas | in `PatchResourceProofs` |
| `PatchResource` | resources on top of those uploads: files, count, aggregates, points | `PatchResourceProofs` |
| `Chat` | a private room, its messages, and the page that polls | `ChatProofs` |
| `Awarder` | the shared ledger of points, and the three writers of its local mirror | in `EngagementProofs` |
| `Engagement` | likes, favourites, follows, check-ins and a purge, on top of `Awarder` | `EngagementProofs` |
| `MirrorSync` | the cron job that mirrors display verdicts of the catalog | in `CatalogProofs` |
| `DisplayReads` | what readers are shown, through SQL, cache and catalog, while the mirror runs | `CatalogProofs` |
| `StoreLink` | the shop's short links: queue, minter, campaign | `BackgroundProofs` |

`MC<module>` holds what TLC needs beyond a module (sets of claims and moves, symmetry),
`<module>_<run>.cfg` is the configuration of a run (section 5), and `PROJECT.json` lists
components, runs, mutants, the map from definitions to source lines, findings, hazards and
theorems. A definition whose comment begins with "Mutant" or "A mutant" is not part of the
model: it is a plausible mistake in the definition beneath it, kept beside it because one of the
properties of section 5 is violated when it is put in that definition's place.

## 2. The components

`PROJECT.json` lists all of them with their files. Those that keep state or decide something,
with what makes them correct:

| Component | State | Operations | Hard | Correct if |
|---|---|---|---|---|
| Claim-event sync (`infrastructure/cron/claim_event_sync.go`) | watermark, marker table, messages, `patch.published` | seed, fetch a page, apply one event in a transaction | overlapping ticks, remote award inside a transaction, crash in a page, resubmission | each event takes effect once, in order, none is skipped, the submitter is paid once |
| Patch registry (`patch/service`, `patch/repository`) | `patch`, contributor relation, `contribute_count` | create, claim, materialise a stub, adopt it, index, delete, credit | check-then-insert, stub against registration, relation and counter apart | a row is registered once, by its owner; the count is the number of contributors |
| Session middleware (`middleware/auth.go`) | Redis session, refresh lock | renew, wait, background renewal, logout, purge | rotation of refresh tokens, lock deleted without looking, dead holders | one renewal at a time, the session keeps the accepted token, everybody gets an answer |
| Patch comments (`patch/service`, `admin/service`) | `patch_comment`, `patch.comment_count` | create, review, edit, delete, hide, purge, cascades | check apart from insert, save of a stale copy, counter by increments | threads stay one level deep, nothing unapproved is shown or paid, the count fits |
| Trust enforcement (`trust/enforce`, `app/app.go`) | `trust_disposition_applied`, status of resources and comments | apply a disposition, redelivery | lookup, action and record apart; overlapping deliveries | nothing recorded without being done; a hide is lifted only by who may; decisions settle |
| Uploads and quotas (`common/upload`) | quotas of the day, completion keys | announce, complete, give up, reset | check-then-add, repeated completion, deduction that fails | each file counts once, the limit is exceeded by overlap only |
| Resources and artifacts (`patch/service`) | `patch_resource`, `resource_count`, aggregates on the patch | create, edit, delete | four statements per creation, double deletion, files owned by copies | files, counter and points are those of the rows |
| Likes, favourite folders, follows, check-ins (`patch/service`, `user`) | relations, counters, flags; folders in the catalog | toggle, replace the set of folders, follow, check in | two toggles at once, partial failure upstream, reused keys, midnight | counters are those of the relations, points are paid once |
| Moemoepoint (`pkg/moemoepoint`, the claim job, `cmd/sync-moemoepoint`) | local mirror of a balance that several sites change | award, pay a claim, synchronise | three writers, answers out of order or lost, keys used again, entries of others | the mirror shows balances the account has had, and is behind by others' entries only |
| Chat (`chat`, and the page in `apps/web`) | rooms, members, messages, history of edits; messages shown | open, send, poll, edit, delete, react | both sides open at once, ids against commit order, edit against delete | one room a pair, a reader misses nothing, a deleted message stays so |
| Catalog mirror (`infrastructure/cron/catalog_mirror_sync.go`) | `patch.content_limit`, cursor | drain the feed, hydrate, write verdicts | overlap past the deadline, failures on any page | the cursor covers what is written; rows that are of a work get its verdict in the end, no other row gets one |
| Content gate (`galgame`, `common`, `pkg/catalogv2`) | cached answers | narrow, ask, filter | mirror, cache and catalog disagree | nothing is shown beyond the reader's limit for longer than an answer lives; settled pages are complete |
| Short links (`infrastructure/storelink`) | bounded queue, marks, minted links, campaign | enqueue, mint, halt, refresh | full queue, marks and sends apart, a starved ticker | no product is lost or queued twice; an ended campaign disappears |
| Administration (`admin`) | settings, users | purge, review, statistics | recounts between the two halves of what others write, writers whose user is gone | a recount is off by what is half done and no more; nobody writes for a user who is gone |
| User briefs (`pkg/userclient`), rate limit (`middleware/ratelimit.go`) | a cache, a counter with an expiry | fetch, invalidate, count | a fill that overlaps an invalidation, expiry set by a second call | see section 8 |

Without state of their own, or out of scope: the face API, documents, Markdown, the CORS and role
middleware, the proxies for reports, catalog editing, claims and creator applications, the HTTP
clients, configuration and answers, the commands an operator runs, and the rest of the web
application.

How the modelled parts meet:

- `PatchResource` extends `UploadQuota`: a file that was answered as complete is published, and an
  edit or deletion of the resource removes it from the store. One state space.
- `Engagement` extends `Awarder`: likes, favourites and check-ins start awards, which run behind
  the requests. One state space.
- `ClaimSync` pays submitters and writes the balance it is answered into the column the awarder's
  goroutines write, too. The payment is an action of `ClaimSync`; its balance, which meets the other
  writers, is `PayClaim` in `Awarder`.
- `DisplayReads` extends `MirrorSync`: lists read the column the mirror's runs are writing. One
  state space.
- A registration or an accepted resource changes the row whose `published` flag the claim sync
  clears (`Unpublish` in `PatchRegistry`, `MarkIndexed` in `ClaimSync` are the two ends of this).
- A comment or a resource credits a contributor (`PatchRegistry`), counts (`PatchComment`,
  `PatchResource`) and may be hidden by a callback (`TrustEnforce`, and `Hide` in `PatchComment`).
- `RevokeUserSessions` of the administration is `Purge` in `SessionAuth`. `PurgeUser`, one
  transaction and so one step, is an action of `PatchComment`, `PatchRegistry` and `Engagement`,
  where its deletions and recounts meet the writers of comments, contributors, likes and follows.
  That a purged user comes back, by logging in or because another statement creates the row again,
  is in `PatchRegistry`; in the other two whoever is purged stays so. In `Engagement` it is never
  the author, whose works would go as well.

The remote parties (OAuth, its ledger, the catalog, trust, the shop) appear in the modules as the
code uses them, and are marked external in the map.

## 3. The modules and the code

### ClaimSync

Every ten minutes a run reads the watermark, fetches pages of at most `Batch` events behind it
and applies each event in one transaction: insert the marker, carry out the local effect, write
the watermark. The ids of the events are their positions in `feed`.

| Model | Code |
|---|---|
| `cursor`, `processed`, `told`, `published` | `cron_state.last_id`, `claim_event_processed`, `user_message`, `patch.published` |
| `feed`, `claim`, `ledger` | the catalog's feed and claims, the ledger (external) |
| `run[r]` | the local variables of one run |
| `ReadCursor`, `ReadHead`, `SeedCursor` | `RunClaimEventSync` up to the first page; with no watermark it takes the head of the feed and is over |
| `FetchPage` | one round of its loop |
| `SkipEvent`, `RecordEvent`, `NotifyEvent` | `applyClaimEvent` for events of no concern, without recipient, with a notification |
| `AwardSubmitter`, `CommitAward` | an approval: the remote award with the transaction open, then the commit; the balance it also writes is in `Awarder` |
| `Fail` | an error, a timeout or a crash: the open transaction rolls back, the award stays |
| `EffectOf`, `SubmitterOf`, `AwardKey` | `effectOf`, the lookup of the submitter in the job's own table, the idempotency key |

Two points deserve attention. The marker is inserted before the award, so a second transaction
on the same event waits for the first at the unique index: that is the guard in `AtEvent`. And a
run that finds no watermark is over before a later one starts from it (its context ends after two
of the ten minutes), which is the guard of `ReadCursor`; runs that seed may overlap one another.

`ClaimEffects` says what all of this is for, without runs, pages, watermarks, transactions or
failures: the events that concern the site take effect one at a time in feed order, each once; an
approval is first paid, once, to the last user who had put the work up for review, and then
announced to that user. `KeepsPromise` is the refinement (`done` is `processed`).

### PatchRegistry

A row appears by `createPatchRow`, by `RegisterClaimedGalgame`, or as a stub by
`ensureLocalPatch` when somebody comments on or uploads for a game that nobody has registered; a
later `createPatchRow` adopts the stub. The row's id is the game's id, so a deleted and
re-registered game has the same one: `era` counts the lives of a row.

| Model | Code |
|---|---|
| `patch`, `contributors`, `pending` | `patch` with its owner, `is_stub`, `published` and `contribute_count`; the relation; comments that wait for approval |
| `worker[w]` | a handler: its operation and what it does next |
| `CreatePatchRequest`, `ClaimGalgameRequest`, `CreateCommentRequest`, `CreateResourceRequest`, `DeletePatchRequest`, `ApproveCommentRequest` | the handlers that reach the service, for any user and game; a comment that is approved is one that waits |
| `purged` | users without a row in `user` |
| `ReadPatch` | the lookup each handler begins with, and the branch it takes |
| `InsertPatch`, `InsertConflicts`, `AdoptStub`, `AdoptNothing` | the transaction of a registration; the conditional `UPDATE ... WHERE is_stub` |
| `CreateUser`, `Materialise` | `ensureLocalPatch`: the user's row, should it be gone, then `INSERT ... ON CONFLICT DO NOTHING` |
| `WriteComment`, `WriteResource`, `WriteFails`, `MarkIndexed`, `ApproveComment` | the statements that follow; foreign keys refuse them when patch or user is gone |
| `AddContributor`, `NothingToAdd`, `CountContributor` | `EnsureContributor`: the relation, then the counter |
| `DeletePatch`, `Unpublish` | the deletion with its cascades; the claim sync |
| `PurgeUser`, `ComesBack` | the administration's transaction, which recounts `contribute_count` of each patch the user left a trace on; his next login |
| `Deliver`, `LoseAward` | the goroutine of the award |
| `Die` | a statement fails or the process dies before the next one |
| `drift` | history: by how much the count is wrong for good, through a death, a later life of the row, or a recount between the two statements of `EnsureContributor` |

### SessionAuth

A session holds a pair of access and refresh token. OAuth rotates: renewing returns the next pair
and kills the last one. Pairs are numbered, so "newer" is an order and `current[s]` is the one
refresh token OAuth accepts.

| Model | Code |
|---|---|
| `stored`, `lock` | `moyu:session:<s>`, `lock:refresh:<s>` in Redis |
| `current`, `newest`, `age` | OAuth and the clock (external) |
| `actor[<<r, "fg">>]`, `actor[<<r, "bg">>]` | a request, and the goroutine it starts when its token is near expiry |
| `Arrive` | `Auth`/`OptionalAuth`: the session and its expiry are read once; the copy is kept |
| `TakeLock`, `LockContended` | `SET NX`; the loser waits if it is a request and gives up if it is a goroutine |
| `RefreshAccepted`, `RefreshRefused`, `RefreshUnanswered` | the exchange: rotated, `invalid_grant`, no usable answer (OAuth may have rotated all the same) |
| `Store`, `Destroy`, `Unlock` | `SET` of the session, its deletion, the deferred `DEL` of the lock |
| `Poll`, `WaitTimesOut`, `Check` | `waitForRefreshedSession` and the final answer |
| `LogoutReads`, `LogoutDeletes`, `LogoutRevokes`, `Purge` | `Logout` with its goroutine; `RevokeUserSessions` |
| `Die`, `LockExpires` | the process dies; the lock's 30 seconds end |

The lock expires in the model only when its holder is dead: a live holder keeps it for the ten
seconds of the exchange at most. `lost` remembers the sessions for which a new pair never
reached Redis, the one case in which nothing can keep the session alive.

### PatchComment

| Model | Code |
|---|---|
| `row`, `used`, `count`, `resource` | `patch_comment` and its id sequence, `patch.comment_count`, the row of the one resource |
| `CreateCommentRequest`, `CreateResourceCommentRequest`, `UpdateCommentRequest`, `DeleteCommentRequest`, `ApproveCommentRequest`, `HideCallback`, `DeleteResourceRequest`, `PurgeUserRequest` | the handlers, and the trust callback, with who may call them and which comments they may name |
| `CheckParent`, `InsertComment`, `InsertFails` | `createComment`: `checkCommentParent`, then the insert, which foreign keys may refuse |
| `CountComment`, `PayOwner` | `applyCommentSideEffects` |
| `ReadForApproval`, `Approve` | `ApproveComment` of the administration, whose update does not look at the rows it touched; `missed` remembers those it found gone |
| `ReadForEdit`, `Save` | `UpdateComment`: gorm's `Save` writes every column of the copy that was read, and inserts the row if it is gone |
| `ReadForDelete`, `CountDoomed`, `DeleteComment`, `DiscountComment` | `DeleteComment`: read, count the visible ones, delete with the cascade, decrement but not below 0 |
| `Hide`, `DropResource` | the callbacks of `app.go`; a resource goes with its comments |
| `PurgeUser` | the administration's transaction: the user's comments go, with all answers to them, and the counts of the patches are taken anew |

### TrustEnforce

| Model | Code |
|---|---|
| `status` | status of a resource (0 enabled, 1 disabled by its owner, 2 hidden by moderation) or of a comment (0 shown, 1 hidden) |
| `disp`, `acked` | the trust service: its decisions, and those it got an answer for (external) |
| `applied` | `trust_disposition_applied` |
| `Exists`, `Dispatch`, `Record` | the three steps of `Apply`: look up, act through the registry, insert |
| `Outcome`, `Refused` | the functions registered in `app.go` for each kind of subject; a comment has no restore, nobody is warned |
| `Deliver`, `Fail`, the second disjunct of `Answers` | redelivery until an answer, crashes, an answer that gets lost |
| `Toggle`, `SaveEdit`, `DeleteRow`, `ApproveComment` | what users do to the same rows, each with the read it starts from |

### UploadQuota and PatchResource

One user uploads and publishes resources on one patch.

| Model | Code |
|---|---|
| `art`, `ready` | the artifact store (external); the form of the browser, which holds the uploads answered as complete |
| `used`, `images`, `mark` | `user.daily_upload_size`, `daily_image_count`; Redis `upload:complete:<uuid>` |
| `InitUpload`, `Abort` | `Init`, where size and quota are checked for the first time; `Abort`, also when the user cancels in the form |
| `CompleteUpload`, `MarkCompleteOnce` | `Complete`: the store is asked first, then the key is set if it is not there |
| `CheckLimit`, `DiscardOverLimit`, `DeductQuota`, `DeductFails`, `UnmarkComplete` | `deductQuotaOnce`: the limit is read again, a file beyond it is deleted, otherwise the size is added; a deduction that fails takes the key back |
| `MarkLapses` | the key's day ends |
| `CheckDailyImageQuota`, `UploadImageService` | check and count of the image quota |
| `DailyReset` | the cron at midnight |
| `row`, `ids`, `count`, `agg` | `patch_resource`, its sequence, `resource_count`, and the rows the patch's type, language and platform were last rebuilt from |
| `CreateRequest`, `Insert`, `UpdateCount`, `ReadResources`, `WriteAggregates` | `CreateResource` with its unique index, the increment, the rebuilding from a copy, the +3 |
| `UpdateRequest`, `SaveResource` | `UpdateResource`, which saves the copy it read and inserts the row again if it is gone |
| `DeleteRequest`, `RemoveResource`, `DropArtifact` | `DeleteResource` with the -3 and the deletion of the file of its copy |
| `Adjust` | the ledger with its idempotency key |

Awards are one step here; their goroutines are in `Awarder`.

### Chat

| Model | Code |
|---|---|
| `room`, `members`, `msg`, `ids`, `edits`, `marks` | the tables of the chat |
| `StartPrivateChat`, `CreatePrivateRoom`, `JoinRoomByLink` | `FindOrCreatePrivateRoom` and its unique link; joining |
| `CreateMessage`, `CommitMessage` | the insert, which takes the id, and the commit, which shows the message |
| `AnswerMessage` | the answer of the request, appended to the sender's page |
| `LoadLatest`, `LoadOlder`, `SendPoll`, `AnswerPoll` | the page: `ListMessages` for the last, for those before an id, for those after one |
| `UpdateMessage`, `SaveMessage`, `UpdateMessageContent` | an edit: reading and permission, the message and its history in one transaction |
| `DeleteMessage`, `ToggleReaction`, `WriteReaction`, `MarkSeen` | the other requests |

Groups of statements inside one transaction are one step; the page is part of the model because
"nothing is missed" is a fact about the page and the server together.

### Awarder and Engagement

One author owns what is liked and favourited, and may be among those who act.

| Model | Code |
|---|---|
| `ledger`, `entries` | the account service, which several sites share, and its idempotency keys (external) |
| `moemoepoint`, `award` | the mirror `user.moemoepoint`; its writers under way |
| `Award`, `PayClaim`, `SyncBalance` | the three writers: the goroutines of `pkg/moemoepoint`, the approvals of the claim job, the command that synchronises all balances |
| `AdjustFirst`, `AdjustAgain`, `Balance` | the service applies a key (the answer may be lost), answers or refuses a key it has applied, or tells a balance |
| `AdjustedElsewhere` | entries of other sites and of the administration, also negative ones |
| `WriteMirror`, `AwardFails` | the write of the answered balance, whatever has been written since; an error that is only logged |
| `since`, `disorder` | history: what others did to a balance since this site changed or read it; whether writers overlapped or a key was repeated |
| `like`, `likeIds`, `likeCount` | the like relation with its ids, which are a part of the award's key; `like_count` |
| `ToggleLike`, `CreateLike`, `DeleteLike`, `CountLike`, `AwardLike` | `ToggleResourceLike`, `ToggleCommentLike`; nobody is paid for liking what is his |
| `follows`, `following`, `followers`, `Follow`, `CreateFollow`, `Unfollow` | the relation and both counters |
| `checkedIn`, `CheckIn`, `PayCheckIn`, `DailyReset` | `CheckIn`: the flag by a conditional update, then the award under the day's key |
| `holding`, `favorites` | the folders in the catalog that hold the work (external); `favorite_count` |
| `ToggleFavorite`, `SetPatchFolders`, `PutFolderItem`, `DeleteFolderItem`, `SettleFavorite` | `folders.go`: the current folders are read, the difference is sent one by one, and the counter and the award follow what the request itself did |
| `ChangeElsewhere` | the same folders, changed by another site or by `DeleteFolder` |
| `PurgeUser` | relations go with the user; both follow counters, `like_count` and `favorite_count` are recounted |
| `Accounts` | the steps of `Awarder` no request begins: approvals, synchronisations, entries of others |
| `Stops` | the process or the catalog fails in the middle |

### MirrorSync and DisplayReads

The ids of works and of patches overlap without meaning the same. `Anchor[w]` is the patch that
work `w` is of, by a claim or by a curated reference, or `NoAnchor`; a work itself stands for its id
in the catalog. Some ids of patches are ids of works too, of others as a rule. Stamps are positions
in the catalog's feed of changes; a cursor is a stamp.

| Model | Code |
|---|---|
| `verdict`, `stamp`, `now` | the catalog (external) |
| `limit`, `cursor`, `run[r]` | `patch.content_limit` (`Unset` for `NULL`), `cron_state.last_cursor`, the variables of a run |
| `MirrorGID` | `mirrorGID`: the anchor, never the work's own id; a work without one is passed over |
| `answers`, `AnswerExpires`, `Aged`, `VerdictsOf` | the read cache under the hydration, a minute long; the catalog's answer to it |
| `outdated` | history: works whose last hydration came out of that cache and was old |
| `Tick`, `DeadlinePasses` | the schedule; ten minutes end, which cancels the calls of the catalog but not the statements |
| `Changes`, `DisplayVerdicts`, `WriteVerdicts`, `MoveCursor`, `NextPage`, `GivesUp`, `RunFails` | `RunCatalogMirrorSync`, one page: feed, hydration, one `UPDATE` per verdict, the cursor |
| `ChangeWork`, `CreateRow` | an edit in the catalog; a patch gets its row |
| `PublicGID`, `AnchoredTo`, `Resolve` | `publicGID` (a claim's id or the work's own), the references looked up, `resolveGIDs` (from an id of a patch to a work) |
| `Claimed`, `Hidden` | works whose anchor is a claim; those whose claim is hidden and which are never shown |
| `Ask`, `OfRows`, `OfOne`, `OfWorks` | what a surface asks for: rows of its own, one patch, or works |
| `Joined`, `Shown` | `enricher.go`: the rows of a list are joined to the answer by `publicGID`, that of one patch takes what is answered. `rows` are those shown with the card of a game; whoever asks for everything also sees rows without one |
| `Scoped` | `ScopePatchContentLimit`: rows with the limit, or without any verdict yet |
| `cache`, `ReadKey`, `Answer`, `CacheSet`, `Minute` | the read cache of `pkg/catalogv2`: an answer is stored when it arrives, for its time to live |
| `Allowed` | `FilterByGalgameContentLimit`, and the gate by which the catalog was asked |
| `GetGalgameList`, `GetHome`, `GetGlobalComments`, `GetPatch`, `GetPatchDetail`, `GalgameOnlyCard`, `GetGalgameCalendar` and the others | the surfaces: which rows or works they begin with (`SomeOf`, `SomeWorks`, `ReadOne`), which limit they ask with, and whether they are filtered afterwards. They differ in that alone |
| `GatePatch`, with `GetComments`, `GetResources`, `GetContributors`, `GetResourceComments`, `GetCommentMarkdown`, `LocateComment`, `GetResourceDownloadInfo` | `gatePatchByContentLimit` and what is behind it; the last four find the patch by a row of its own |
| `CallFails` | the catalog does not answer: the works are left out |
| `since` | history: how long ago the catalog took a verdict back |

### StoreLink

| Model | Code |
|---|---|
| `issued`, `running` | the shop (external) |
| `row`; `links`, `campaign`, `queue`, `queued`, `bad`, `halted` | `dlsite_store_link`; the fields of `Resolver`, lost at a restart |
| `Resolve`, `MarkQueued`, `Send`, `Release` | a page: the lookup, the mark under the mutex, the `select` with a default, the mark taken back |
| `TakeProduct`, `PurchaseLinks`, `MarkBad`, `Halt`, `StoreLink`, `Remember`, `SetCampaign`, `EndMint` | the minter |
| `TickCampaign`, `RefreshCampaign` | the probe every six hours |
| `Restart` | the process; the table is read again |

## 4. Conventions

Parameters are constants with named assumptions. A handler's control state is a record whose `pc`
names the *next* step; every early return ends the record. Variables marked "history" exist only
to state properties and guard nothing. Bounds are constants named `Max...` and appear only in the
guards of the actions that consume them: requests, events, faults, token pairs, ids, changes,
minutes.

Many counters of this code are right only while requests do not overlap; the code makes no
attempt to have it otherwise. Those properties are called `...Serially`: the history variable
`serial` tells whether two requests have overlapped so far. They still range over all sequences of
requests, awards in flight and midnights. What does hold under overlap is stated without `serial`.

## 5. The runs

With two workers each takes three minutes at most.

| Run | Instance | Distinct states | What it shows |
|---|---|---|---|
| `claim_overlap` | 2 fair runs, claims of two tenants on one work, 2 submitters and a reviewer, 3 events, pages of 2, 1 failure | 215,064 | the safety of the job, its refinement of `ClaimEffects`, and that every event behind the seed takes effect in the end |
| `registry_race` | 2 handlers, 2 users and an administrator, 1 game, 4 requests or purges, 1 death | 1,107,235 | registered and paid once, owned by the registrar, counted right |
| `session_page` | 2 requests and their goroutines, 1 session, 4 pairs, 2 faults, fair | 158,810 | one renewal at a time, the accepted token is kept, nobody is served with an expired one, everybody is answered |
| `session_kick` | 2 requests, no fault | - | *violation*, the finding of section 7 |
| `comment_race` | 2 handlers, an owner who moderates and a fan, 3 ids, 4 requests | 780,195 | threads, visibility and points under interleaving; the count when requests do not overlap |
| `trust_race` | 2 handlers, 1 resource, 1 comment, 2 decisions, 1 request, 1 fault, fair | 221,543 | recorded means done, the switch never lifts a hide, decisions to hide or restore settle |
| `resource_race` | 2 handlers, 2 uploads of different size, 2 ids, a quota of the larger file, 4 requests, 1 fault, 1 midnight | 1,914,159 | charged once, the overshoot, points under double deletion; files and counters when requests do not overlap |
| `chat_race` | 2 handlers, 2 peers, 3 messages on pages of 1, 3 other requests | 2,421,095 | both are members, a reader misses nothing, tombstones stay |
| `social_race` | 2 handlers, an author and a fan who act, 1 resource, 1 folder each, 1 approval, deductions of 2, 3 requests or other events, 1 fault, 1 midnight | 851,392 | follow counters, check-ins and the mirror under overlap; likes and favourites without |
| `mirror_live` | fair runs one after the other, 2 works on pages of 1, each of a patch, one patch with the other work's id, one of no work; 2 pages a run, 2 changes, 2 faults, 2 cached answers | 490,682 | the cursor covers what is written, under the right ids; the rows catch up |
| `axis_race` | 1 reader with 2 reads, the mirror with one page, 2 works of which one has a claim and one a reference only, 1 change, 2 minutes, answers live below a minute | 916,138 | no leak beyond an answer's life, settled pages are complete |
| `store_queue` | 2 pages, 3 products of which one is refused and one has no quota, a queue of 1, 1 change of campaign, 2 faults, fair | 241,408 | each marked product is somebody's, an ended campaign disappears |

The properties, and why they are not obvious:

- `NothingSkipped`: the watermark is written unconditionally, and a slow run moves it *backwards*;
  it must still never stand behind an event that was not applied. `PaidToSubmitterOnce`: marker,
  message and remote award are written by different parties in different steps, and the submitter
  is looked up in a table the job itself is filling. `KeepsPromise`: all of it together is one pass
  over the feed. `EveryEventApplied`: and the pass comes to its end.
- `RegisteredOnce`, `RegistrarOwns`: registrations, claims and adoptions of one game race, and a
  game may be deleted and registered again under the same id. `ContributorsCounted`: the counter
  differs from the relation by exactly the handlers between the two statements and by `drift`: one
  too few for a death in between, one too many for a deletion or the recount of a purge in between.
  `OwnerChangesByAdoption`: no row changes hands but by the adoption of a stub.
- `OneRefreshAtATime`: although the lock is deleted by whoever leaves. `StoredIsCurrent`: although
  each renewal starts from a copy read before the lock. `ServedRenewed`: a waiter is served with a
  newer pair only. `EveryRequestAnswered`: also the one that waits for a dead holder.
- `ThreadsAreFlat`: the check is apart from the insert, and an edit that overlaps a deletion brings
  the row back; counting and deleting go one level deep and depend on it. `NeverShownUnapproved`:
  whatever copy is written back. `PaidIsCleared`: a point goes to published comments, and else only
  to those that were deleted between the two statements of an approval (section 8).
  `CountedSerially`: `comment_count` is the comments shown plus exactly what hiding, the deletion
  of a resource and the purge's recount leave behind (`drift`).
- `RecordedIsEnforced`, `HidingSettles`: the lookup, the action and the record are three steps
  under redelivery and crashes. `SwitchNeverLifts`: the switch checks the status it read, but
  toggles in SQL, so a hide that comes in between stays; only an edit that read the row before the
  hide may write it back, and the property says so.
- `ChargedOnce`: completions are repeated, overlap, fail and give their key back. `OvershootBounded`:
  the quota is read, then charged; all that is left to say, and to rely on, is by how much it can
  be exceeded. `PointsFollowResources`: two deletions of one resource both take the points back
  and only the ledger's key keeps them right. `FilesServedSerially`: the file in the store and the
  file of the row are changed by different statements, from copies. `CountedSerially`: the count
  and the aggregates are those of the rows.
- `PeersAreMembers`: both peers create the room. `ReaderMissesNothing`: a poll asks for what comes
  after the last message shown, so a page that overflows, a poll that is overtaken by another
  answer or an older page must leave no gap; it holds for who only reads and while ids commit in
  order, and fails without either (section 8). `TombstoneStays`, `EditsKeptSerially`: a late edit
  gives a deleted message a text and a status again, but never takes the date of its deletion.
- `FollowCountsExact`: under every overlap, because the counters are changed in the transaction and
  by the rows it touched; a purge recounts them for all it has followed and been followed by.
  `CheckInsPaid`: nobody is paid beyond what the answer said, nor less, but for the check-in after
  one that stretched over midnight. `MirrorFollowsLedger`: three writers copy answers into the mirror;
  it never shows a balance the account has not had, and is behind by exactly what others did since
  this site last asked, unless answers crossed, a key came twice or a call failed.
- `CursorCovers`: whatever page fails, the cursor is never past a change whose verdict is not
  written, and a verdict is never filed under the id of another game. `MirrorsEventually`: a run
  drains a bounded number of pages and a page may fail, yet the rows catch up that are of a work.
  Both except works whose last hydration came out of a cache and was old (`outdated`). `NeverLeaks`:
  lists are narrowed by a column that may be old, or `NULL`, and answers come from a cache; the
  catalog's answer to the reader's own limit is what keeps works from him, and their patches unless
  the answer is joined to the wrong row (`Confused`, section 7). `PageComplete`: and it takes nothing
  from him he may see, of the patches whose works are answered under their ids (`Plain`).
- `HeldOnce`: mark, queue and release are three places. `CampaignSettles`: every answer restates the
  campaign and the probe is not starved.

**Bounds.** Two runs of the claim job, two handlers, readers or requests are enough for every race
the code can have on one row, lock, file or watermark: each guard compares an actor with at most one
other. The mirror has one run at a time, because nothing is claimed once its runs overlap (section
8). One game, session, room or author is enough because no statement touches two; a second tenant,
fan, work or product is there where the code must tell them apart. Where an invariant is proved
(section 6), the instance need not be larger than what makes every action happen and the mutants
fail: three events are a submission, its verdict and a resubmission or a ban; claims without an
anchor are left to the proof, as are further events, readers, limits, works, folders and lives of a
cached answer. Details and the calendar ask the catalog without a limit and filter by the reader's, so
`axis_race` has both ways of gating although its reader asks for `sfw`. Pages of one message make
three messages overflow a page in both directions. The quota holds the larger file alone, so that
two checks may pass together. Four token pairs are two more than a page of two requests can rotate
before either of them ends. One fault at any point is what each recovery path is written for; two
where a lost answer meets a dead holder, or a failure a restart.

**Symmetry** is used for handlers and unprivileged users, in runs without liveness.

**Deadlock** is checked in `claim_overlap` and `store_queue`, where a run can always start and a
page always be opened. The other modules have a bounded number of requests; when they are used up
and answered, the server is idle, so their configurations switch the check off. In place of it,
`EveryRequestAnswered`, `HidingSettles` and `MirrorsEventually` say that what was begun ends.

**Fairness.**
- `ClaimSync`: weak fairness of each run. The scheduler starts a run at every tick and a run's
  context bounds each of its calls, so a run goes on or fails; failures are bounded.
- `SessionAuth`: weak fairness of each actor (a handler goes on; the wait ends after three seconds
  and the exchange after ten) and of the lock's expiry. Nothing is assumed about users, logouts or
  OAuth's bans, nor that anybody gets the lock.
- `TrustEnforce`: weak fairness of each handler; strong fairness of the delivery of each unanswered
  disposition, since a delivery needs a free handler and the trust service retries until it gets an
  answer.
- `MirrorSync`: weak fairness of the schedule and of each run's steps. Nothing is assumed of
  deadlines, failures or readers.
- `StoreLink`: weak fairness of the minter and of each page once it has marked a product; strong
  fairness of the ticker, because Go's `select` chooses at random among what is ready, so a queue
  that is always full does not keep the tick away.

## 6. What is proved

Eight modules of proofs are checked by TLAPS, for every value of the constants.

| Module | Theorems | State |
|---|---|---|
| `BackgroundProofs`: `ClaimSync` | `Invariant`, `TypeCorrect`; `WatermarkSafe`, `AwardsCorrect`, `ExactlyOnce`, `NoHistory`; `Implements` | `NothingSkipped`; `PaidToSubmitterOnce`, `MarkedIsPaid`, `AppliedExactlyOnce`, `NoBackfill`; the refinement `KeepsPromise` |
| `BackgroundProofs`: `StoreLink` | `LinkInvariant`, `MarkedIsHeld` | `HeldOnce` |
| `CatalogProofs`: `PatchRegistry` | `Invariant`, `TypeCorrect`; `RegistersOnce`, `RegistrarStays`, `CountIsRight`, `ChangesHandsByAdoption` | `RegisteredOnce`, `RegistrarOwns`, `ContributorsCounted`, `OwnerChangesByAdoption` |
| `CatalogProofs`: `DisplayReads` | `CursorIsCovered`, `NothingLeaks`, `PagesComplete` | `CursorCovers`, `NeverLeaks`, `PageComplete` |
| `SessionAuthProofs` | `Invariant`, `TypeCorrect`; `RefreshesOnce`, `KeepsCurrent`, `ServesRenewed`, `GoesForward` | `OneRefreshAtATime`, `StoredIsCurrent`, `ServedRenewed`, `NeverGoesBack` |
| `PatchCommentProofs` | `Invariant`, `TypeCorrect`; `AnswersStayFlat`, `ShownIsApproved`, `PaidIsPublished`; `CountAddsUp` | `ThreadsAreFlat`, `NeverShownUnapproved`, `PaidIsCleared`; `CountedSerially` |
| `TrustEnforceProofs` | `Invariant`, `TypeCorrect`; `RecordsAreTrue`, `SwitchKeepsHidden` | `RecordedIsEnforced`, `SwitchNeverLifts` |
| `PatchResourceProofs` | `Invariant`; `ChargesOnce`, `QuotaHolds`, `PointsAreRight`; `BooksKept`, `FilesAreServed`, `CountsAddUp` | `ChargedOnce`, `OvershootBounded`, `PointsFollowResources`; `FilesServedSerially`, `CountedSerially` |
| `ChatProofs` | `PeersStayMembers`, `TombstonesStay`, `EditsAreKept`, `ReadersMissNothing` | `PeersAreMembers`, `TombstoneStays`, `EditsKeptSerially`, `ReaderMissesNothing` |
| `EngagementProofs` | `FollowsAreCounted`, `MirrorIsLedger`; `LikesAddUp`, `CheckInsArePaid` | `FollowCountsExact`, `MirrorFollowsLedger`; `CountedSerially`, `CheckInsPaid` |

`BackgroundProofs` and `CatalogProofs` extend two components each; the specifications of `StoreLink`
and `DisplayReads` are therefore named apart, `LinkSpec` and `DisplaySpec`.

Assumed are only the named assumptions on the constants: types, distinct sentinels, bounds that
are naturals, pages, queues and sets of handlers that are not empty, finitely many handlers or works
where the code counts them, and that no two works have the same anchor.

**ClaimSync.** The properties speak of the watermark, but a step of a run moves the watermark to
where *that run* stands, which may be before or behind it. So the invariant must know of each run
that everything up to its own position is applied (`RunsBehind`), that the marked events leave no
gap (`MarkedInOrder`), and that nothing was applied while a run is seeding (`SeedingFirst`).
The central lemma is `LookupIsTruth`: at the event a run is about to mark, the rows of the job's
own table are exactly the history the feed shows, so the submitter found there is the right one.
An award paid but not committed is covered by `PaidNotMarked`: the run that holds the open marker
is the only one, so the key is its own. The refinement maps each committed event to `TakeEffect`,
the award to `Pay` (or to a stutter when it is repeated after a rollback) and the rest to stutters.

**PatchRegistry.** An id has several lives. What makes the four properties inductive is that every
award and every increment on its way belongs to the present or an earlier life (`ErasPast`), and
that a life that has ended leaves nothing behind (`NothingLeft`): no contributor, and nobody who
would count on the next row. The sets that are counted are finite (`Finite`). `CountIsRight` holds
step by step: whoever adds a relation joins `Counting`, whoever counts leaves it, and a purge makes
the count anew from the relations left, so that those who still count are too much from then on.

**SessionAuth.** The safety properties follow from where the newest pair is. Whoever is past the
lock holds it (`HoldersLock`): so the unconditional `DEL` deletes the actor's own lock, and an
expired lock belonged to somebody dead. An actor about to store carries OAuth's newest pair
(`CarriesNewest`), because a second exchange on the session would need the lock. Redis is never
ahead of OAuth (`NewestAccepted`). `RenewsOld` is about the bound only: what is renewed is no longer
fresh, and the last pair of the bound stays fresh, so no renewal leaves it.

**PatchComment.** An edit may write a comment back that was deleted under it, so no invariant about
the rows alone is inductive. The invariant says instead that there is *one* assignment of a
discussion and a parent to every id (`Born`: what it was born as), with which all rows and all
copies held by handlers agree, and in which no parent is an answer; and that parents of rows are
there (`ParentsHere`), which the foreign keys see to. Whoever counts or pays has published the comment
or found it gone (`CountersCleared`). The count (`Tally`) is an equation of
cardinalities that holds between two requests only; in between, what it is off by is exactly what
the one handler at work has still to add or to take away (`InHand`), and a copy it holds is still
the row.

**TrustEnforce.** What a delivery carries was decided, on a subject of its kind (`Decided`,
`RightSubjects`), and between its dispatch and its record it is enforced (`RecordersEnforced`).

**UploadQuota and PatchResource.** Three parts beside the types. `CInv`: at most one handler holds a
completion key it has set, and what it holds is uncharged. `QInv`: what is used, plus what those
about to charge will add, is within the limit plus one largest file for each other handler; the
theorems on finite sets carry the counting. `PInv`: an accounting of who owes the ledger an entry
under which key; when nobody is at work and nothing has failed, a row was paid once, and paid back
once if it was ever deleted. `Books` does as `Tally` for three kinds of books at once, while
requests do not overlap and nothing fails: the files stored are those of the rows but for the one
about to be dropped (`FilesOwed`), the counter is the rows but for the one about to be counted
(`CountOwed`), and what the handler read is still so (`Current`).

**MirrorSync and DisplayReads.** `MirrorInv`: as long as runs do not overlap, the one run stands where
the cursor stands, and every work up to its next cursor is still to be hydrated, or judged with its
present verdict under its anchor, or written, or changed since and so further along in the feed, or
excused (`Excused`), because it is gone or a cached answer about it was old. Cached answers are about
the works they were asked for (`AnswersFit`), and patches of no work have no verdict (`BareUnset`).
`ReadInv`: a read asks for the works its rows stand for (`Asked`), and every answer, cached or in a
reader's hands, is sound (`Sound`): it names only works the catalog let through within its age and a
minute, and all of those it has not changed since. A row that is shown was joined to one of them; that
it stands for that work needs the injectivity of `Anchor` and fails for the rows `Confused` names.
`NeverLeaks` and `PageComplete` are then facts about one step.

**StoreLink.** `Held`: a marked product is with exactly one page about to send it, or at one place of
the queue, or with the minter, and an unmarked one is nowhere; the queue holds none twice. `HeldOnce`
is that fact in terms of cardinalities.

**Chat.** What is being edited or answered with is there (`HereInv`); an id belongs to one request
until its message is committed (`UInv`); who is about to write is a member (`PInv`); while requests
do not overlap, an edit knows the message as it is, and the texts in the history of a message are all
those it had before (`EInv`). The fourth, `RInv`, is about the page of a user who only reads: it is a
sequence of committed messages that begins with its least and ends with its greatest and leaves out
none between them, and a poll under way asks after its last one. That a first page, a poll and a
page of older messages keep this is a matter of what the queries return, so the module first proves
what `ORDER BY id LIMIT n` yields (`SortedIs`, `LatestIs`, `PollIs`, `OlderIs`): each message of a
finite set has its place, the number of those before it, and each place is taken.

**Engagement.** `FInv`: the relations are finitely many and the counters are their cardinalities.
`SInv`: writers of the mirror under way and requests at work are together no more than the requests
made, so there is a place for every award the code starts. `HInv`: the mirror, and every answer on
its way to it, is a balance the user has had. `OInv`: until something fails, overlaps or repeats, a
user has one writer under way at most; its answer is the balance this site last brought about or
read (`Known`), and so is the mirror if there is none. Others' entries change the balance and
`since` alike, so `Known` stays.

`LikesAddUp` and `CheckInsArePaid` compare a count with the sum of the entries of a table. The sum is a
fold, and what one more entry adds to it (`SumAdd`, `SumRemove`) is shown on the function the fold
chooses, whose recursion goes down the strict subsets of a finite set and is well founded. The
quantity that stays put is not the sum of the entries but `Total(K)`: the entries with a key of `K`
and the awards with such a key that still ask to be entered. Starting an award adds its points,
entering it moves them from the one part to the other (`AwardTotal`), and a key that was used already
loses them, which cannot happen where each key is used but once (`Once`). `RInv`: each award, under way
or entered, has the points of its kind. `DInv`: until a check-in is dated after midnight, no two have
one key, and what is entered or asked for is what was promised. `NInv`: the counters are numbers, and
who likes or files is a finite set. `BInv`: while one request is served at a time and nothing fails,
at most one is at work and the books are as far ahead of the relations as its step accounts for
(`OnTrack`).

**Only model-checked**: liveness, as the prover handles neither fairness nor `ENABLED`:
`EveryEventApplied`, `EveryRequestAnswered`, `HidingSettles`, `MirrorsEventually`, `CampaignSettles`.
Every other property of a passing run is stated by a theorem.

## 7. Findings

`session_kick` violates a statement of the repository's documents. A request that read its session
before the winner of a renewal stored the new pair, and takes the lock after, spends the dead
refresh token, is refused with `invalid_grant`, and destroys a live session and its cookie
(`middleware/auth.go:461`). `docs/proj/session-lifetime.md:18` says that the cookie is cleared only if
the session is really dead, `docs/oauth/oauth-integration-guide.md:430` that concurrent refreshes
must not throw the user out.

These other statements of documents, migrations and comments do not hold either. The models contain
the behaviour, unless said otherwise, and the properties of section 5 are worded around it:

1. A resource posted on an unregistered game calls `MarkIndexed`, which clears `is_stub`: the row
   looks registered, has no registrar, and can never be adopted (migration 023). `PatchRegistry`.
2. A comment that moderation hides stays counted (migration 011). `drift` in `PatchComment`.
3. An edit that read a comment before it was hidden writes it back visible (migration 011).
4. Two overlapping deliveries both dispatch; the later one hides a resource again that a newer
   decision restored in between (migration 024). This is why `trust_race` states
   `RecordedIsEnforced` and not that a decision is carried out once.
5. A removal whose record was lost, or whose row its owner deleted first, fails at every redelivery
   (migration 024). This is why `HidingSettles` speaks of hiding and restoring.
6. The face API narrows by `patch.content_limit` and lets rows pass that have no verdict yet, "never
   an nsfw leak" (`face/repository/repository.go:31-33`, `:67`); but unlike the site's lists it does
   not ask the catalog afterwards, so an nsfw work without a mirrored verdict is answered. Not
   modelled: it is one query.
7. Withdrawing a live claim moves it to draft; withdrawing it again finds a draft and deletes it,
   and with it the catalog's work, which is older than this site. The comment at
   `patch/handler/adopt.go:51-59` and `TestWithdrawOnlyUnpublishesALiveClaim` want to exclude just
   that. Not modelled: claims live in the catalog and the server keeps nothing of them.
8. "An ended campaign has to clear the link it opened" (`infrastructure/storelink/storelink.go:157`);
   once the minter has halted for good, neither answers nor probes come any more and the coupon stays
   until the next start. This is why `CampaignSettles` excuses `halted`.
9. Favourites are to be paid under the keys `moyu:favorite:<relId>` and `moyu:unfavorite:<relId>`, a
   removal takes back what its favourite brought, favouriting again pays again, and whoever acts on
   what is his own is never paid (`docs/proj/moemoepoint.md:68`, `:69`, `:77`). The code pays under
   `moyu:favorite:<patch>:<1 or -1>` and does not ask who acts (`patch/service/folders.go:352-353`): of
   each work only the first favourite and the first removal of all users and times reach the ledger,
   the owner's own among them, and a later one is answered with an old balance or refused.
   `SettleFavorite` in `Engagement` does just that; no property says that favourites are paid.
10. The fallback of `publicGID` to the work's own id "is safe on the read path"
   (`galgame/client/catalog_mirror.go:53-58`). A work that a patch is known by only through a curated
   reference is answered under its own id, not under its patch's, and lists join rows to answers by
   that id (`galgame/enricher/enricher.go:97-111`): such a row is counted by every filtered list and then dropped
   from the page, or, if the ids happen to meet, shown with the card of another game, and gated by it.
   This is why `PageComplete` is about `Plain` works and `NeverLeaks` excepts `Confused` rows.

## 8. What else the code does

Behaviour that no document promises otherwise. Where a model contains it, a property is limited by it.

- **Sessions.** A renewal in flight stores the session after a logout or a purge has deleted it: the
  session is back (`middleware/auth.go:481`).
- **Comments.** Two moderators who approve one comment both apply its side effects; `comment_count` is
  one too high. An approval whose comment is deleted before its update still counts it and pays for it
  (`missed`).
- **Contributors.** A purge that recounts between the relation and the count of another handler
  leaves `contribute_count` one too high (`drift`).
- **Mirror.** A run past its deadline still writes; the next one may overlap it, and the older
  verdict wins until the work changes again. `CursorCovers` assumes `~overlapped`. A row created
  after the cursor has passed its work stays `NULL`, that is, visible under either limit as far as
  SQL is concerned, until the work changes; the catalog's gate still keeps it from whom it must. So
  does for ever a row whose work has neither a claim nor a curated reference, as
  `galgame/client/catalog_mirror_test.go:85` wants it. A hydration that is answered by the cache with an
  old verdict on a full page leaves that verdict in the column until the work changes again.
- **Balances.** What other sites and the administration do to a balance is not mirrored until the
  user's next award here or the next synchronisation (`since`); the writers do not look at what the
  mirror has, so of two answers the later write wins (`disorder`).
- **Content limit.** Open by intention, and left out: the title lane of the search, hikari, the list
  of vndb ids. Summaries attached to entries that were gated already are not gated again, and the
  folder pages answer bare ids.
- **Favourites.** A change of the folders by another site, or `DeleteFolder`, leaves `favorite_count`
  where it was. `SetPatchFolders` stops at the first failure with the count and award of none of its
  changes, and does not materialise the patch as the heart button does. Notifications, the resource
  page and the calendar's favourites read `user_patch_favorite_relation`, which nothing writes any
  more, and `PurgeUser` recounts `favorite_count` from it. Why the awards are left out of section 5
  is item 9 of section 7.
- **Likes.** Two likes at once leave `like_count` one too high.
- **Check-ins.** The date of the award's key is taken after the flag; a check-in over midnight takes
  the key of the next day, whose own check-in is refused its points.
- **Uploads.** A cancel while the completion is running still hands the deleted file to the form. A
  second completion answers success before the first has charged. A completion repeated after the
  key has lapsed is charged again, and beyond the limit deletes a file that is in use. The image
  quota is checked and counted the same way as the other.
- **Resources.** An edit that finds the row deleted inserts it again if it changes nothing else.
- **Chat.** Whoever also sends misses messages: the answer to the own message moves the last id past a
  message of the peer that no poll has brought. So does a reader when ids commit out of order.
- **Rate limit** (no model): a counter whose first request dies between `INCR` and `EXPIRE` never
  expires. **User briefs** (no model): a batch fetched before an invalidation may be stored after it.
- **Registry.** `DeletePatch` checks the owner it read and deletes whatever row has the id by then.

## 9. Not modelled

Within the modelled components: texts, names, links, sorting, formatting and notifications;
`UpdatePatch`, view and download counters (one statement each); the artifacts a deleted patch row
leaves to the storage service; the 90-day sliding expiry, roles and login; mentions; groups in the
chat, which an administrator creates in one transaction; `ToggleResourceFavorite`, a relation without
counter or award, and the deduplicated notification of a like; the signature check of callbacks and
the proxied reports; a purged user who comes back, but for `PatchRegistry`. Of the ids of works and
patches: claims and references that come, go or change, the map of them that is kept for an hour, a
work with several references, a patch named by several works, and the ids of vndb.

Whole components, each with its reason in `PROJECT.json`: proxies that keep nothing (claims, catalog
editing, taxonomy, reports, creator applications), single queries (face, documents, statistics),
formatting (Markdown, cards, search lanes), rows only their reader looks at (messages), caches for
display, settings, HTTP clients generated or written by hand, configuration, the commands of an
operator, the web application but for the chat page and the upload form. They make up most of the lines of the
repository: mapping of records, request parsing and answers. A model of them would restate single
statements; what of them can go wrong between two actors is in sections 7 and 8.

What could be added next: an abstract account service that the ledgers of `ClaimSync`,
`PatchRegistry`, `PatchResource` and `Awarder` all refine, each of which has the keys that its own
properties are about (only `Awarder`'s has balances);
and the renewal of `SessionAuth` as an implementation of an abstract one.
