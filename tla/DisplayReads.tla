----------------------------- MODULE DisplayReads -----------------------------
(***************************************************************************)
(* What a reader is shown of works that are not for everyone.  Lists filter*)
(* by patch.content_limit in SQL, then every read asks the catalog, with   *)
(* the reader's content limit, through a cache in Redis                    *)
(* (pkg/catalogv2/cache.go); what the catalog does not answer is not shown.*)
(* Details and the calendar are asked for without a limit and filtered     *)
(* here.  On the way there the id of a patch becomes that of a work, on the*)
(* way back a work is known by the id of its patch, or by its own (internal*)
(* /galgame/client/catalog_resolve.go, catalog_dto.go).  The mirror's runs *)
(* (MirrorSync) go on meanwhile; anchors and claims stay as they are.      *)
(***************************************************************************)
EXTENDS MirrorSync

CONSTANTS
  Claimed,     (* works whose anchor is a claim, and not only a reference   *)
  Hidden,      (* those whose claim is hidden                               *)
  Readers,     (* reads at the same time                                    *)
  Limits,      (* they ask for: "sfw", which is the default, "nsfw", "all"  *)
  TTL,         (* minutes a cached answer lives (readCacheListTTL)          *)
  MaxReads,    (* bound: reads                                              *)
  MaxMinutes   (* bound: minutes that pass                                  *)

ASSUME TTLAssumption == TTL \in Nat
ASSUME LimitsAssumption == Limits \subseteq {"sfw", "nsfw", "all"}
ASSUME ClaimsAssumption ==
  Claimed \subseteq {w \in Works : Anchor[w] # NoAnchor} /\ Hidden \subseteq Claimed

VARIABLES
  cache,      (* answers: by key, the verdicts in it and its age            *)
  since,      (* history: minutes since the catalog took a verdict back      *)
  reader,
  reads, minutes

readVars == <<cache, since, reader, reads, minutes>>
displayVars == <<mirrorVars, readVars>>

Verdicts == Axis \cup {"gone"}
Old == TTL + 2
DisplayAt(q, pc) == reader[q].pc = pc
Away == [pc |-> "idle"]
NoFilter == <<>>

DisplayInit ==
  /\ MirrorInit
  /\ cache = <<>>
  /\ since = [w \in Works |-> [v \in Verdicts |-> IF v = verdict[w] THEN 0 ELSE Old]]
  /\ reader = [q \in Readers |-> Away]
  /\ reads = 0 /\ minutes = 0

-----------------------------------------------------------------------------
Fits(v, l) == v # "gone" /\ (l = "all" \/ v = l)

\* publicGID: the id a work is answered under, which is its own if no claim gives it one.
PublicGID(w) == IF w \in Claimed THEN Anchor[w] ELSE w

AnchoredTo(p) == {w \in Works : Anchor[w] = p}

\* resolveGIDs: the work an id of a patch stands for: the one whose anchor it is or, if there
\* is none, the one of that very id, unless that is answered under another or its claim is
\* hidden.
Resolve(p) ==
  {w \in Works : \/ Anchor[w] = p
                 \/ AnchoredTo(p) = {} /\ PublicGID(w) = p /\ w = p /\ w \notin Hidden}

\* A read asks about works, with a limit, for rows of its own.  Rows of a list are joined to
\* the answer by id; where there is one row, it has what is answered, whatever its id.
Ask(rows, ids, joined, gate, l, filter) ==
  [rows |-> rows, ids |-> ids, joined |-> joined, gate |-> gate, limit |-> l, filter |-> filter]

OfRows(rows, l, filter) == Ask(rows, UNION {Resolve(p) : p \in rows}, TRUE, l, l, filter)
OfOne(p, gate, l) == Ask({p}, Resolve(p), FALSE, gate, l, NoFilter)
OfWorks(ids, gate, l) == Ask(DOMAIN limit, ids, TRUE, gate, l, NoFilter)

\* Mutant: the rows are not narrowed.
AllRows(l) == DOMAIN limit

\* ScopePatchContentLimit
Scoped(l) == {p \in DOMAIN limit : l = "all" \/ limit[p] \in {Unset, l}}

\* Mutant: the limit is not a part of the key.
KeyOfIds(ids, gate) == <<ids, "all">>

\* The query, which spells out the limit.
ReadKey(ids, gate) == <<ids, gate>>

\* Of an answer, what the reader's limit allows; answers to a limited query are trusted.
\* A hidden claim is never shown.
Allowed(body, gate, l) ==
  {w \in DOMAIN body : w \notin Hidden /\ (gate # "all" \/ Fits(body[w], l))}

Joined(ask, works) ==
  IF ask.joined THEN {p \in ask.rows : \E w \in works : PublicGID(w) = p}
  ELSE {p \in ask.rows : works # {}}

\* rows are those shown with the card of a game.  Whoever asks for everything is also shown
\* rows that have none, with what this site knows of them.
\* filter is kept for the history: what a list was narrowed by, if it was answered.
Shown(ask, body) ==
  LET works == Allowed(body, ask.gate, ask.limit)
  IN  [pc |-> "shown", works |-> works, rows |-> Joined(ask, works), limit |-> ask.limit,
       filter |-> ask.filter, counted |-> IF ask.filter = NoFilter THEN {} ELSE ask.rows]

\* The rows are read, and the cache.  Where no id stands for a work, nothing is asked.
Reads(q, ask) ==
  /\ DisplayAt(q, "idle")
  /\ reads < MaxReads /\ reads' = reads + 1
  /\ LET key == ReadKey(ask.ids, ask.gate)
     IN  reader' = [reader EXCEPT ![q] =
           IF ask.ids = {} THEN Shown(ask, <<>>)
           ELSE IF key \in DOMAIN cache THEN Shown(ask, cache[key].body)
           ELSE [pc |-> "calling", ask |-> ask]]
  /\ UNCHANGED <<mirrorVars, cache, since, minutes>>

\* A list of patches is a page of the rows the limit leaves; this is a page of them all.
GetGalgameList(q, l) == Reads(q, OfRows(Scoped(l), l, limit))

\* The newest, which the home page cuts after the filter; the first of a ranking; those a
\* user has made, favourited or added to; the resources a search finds: some of those rows.
SomeOf(q, found, l) == \E rows \in SUBSET found \ {{}} : Reads(q, OfRows(rows, l, NoFilter))
GetHome(q, l) == SomeOf(q, Scoped(l), l)
GetPatchRanking(q, l) == SomeOf(q, Scoped(l), l)
GetUserPatches(q, l) == SomeOf(q, Scoped(l), l)
GetUserFavorites(q, l) == SomeOf(q, Scoped(l), l)
GetUserContributions(q, l) == SomeOf(q, Scoped(l), l)
SearchResources(q, l) == SomeOf(q, Scoped(l), l)

\* A page of resources or comments, of all or of a user, or the sample a random patch is
\* taken from, is of some of the patches, whatever their limit.
GetGlobalComments(q, l) == SomeOf(q, DOMAIN limit, l)
GetGlobalResources(q, l) == SomeOf(q, DOMAIN limit, l)
GetUserResources(q, l) == SomeOf(q, DOMAIN limit, l)
GetUserComments(q, l) == SomeOf(q, DOMAIN limit, l)
GetRandomPatchID(q, l) == SomeOf(q, DOMAIN limit, l)

\* The resources that are recommended on the page of one.
Recommend(q, l) == SomeOf(q, DOMAIN limit, l)

\* What the catalog itself lists, whether it has a patch or not: the library, the works of
\* a character or of staff, which are found without a limit and then read with it, and the
\* members of a tag, a series or a company.  Rows are laid over what is answered.
SomeWorks(q, l) == \E ids \in SUBSET Works \ {{}} : Reads(q, OfWorks(ids, l, l))
CatalogLibrary(q, l) == SomeWorks(q, l)
EntityWorks(q, l) == SomeWorks(q, l)
TaxonomyMembers(q, l) == SomeWorks(q, l)

\* What hangs on one patch is behind this gate, which asks the catalog for its work alone.
GatePatch(q, p, l) == Reads(q, OfOne(p, l, l))

GetComments(q, p, l) == GatePatch(q, p, l)
GetResources(q, p, l) == GatePatch(q, p, l)
GetContributors(q, p, l) == GatePatch(q, p, l)

\* These find the patch by a comment or a resource of its own.
GetResourceComments(q, p, l) == p \in DOMAIN limit /\ GatePatch(q, p, l)
GetCommentMarkdown(q, p, l) == p \in DOMAIN limit /\ GatePatch(q, p, l)
LocateComment(q, p, l) == p \in DOMAIN limit /\ GatePatch(q, p, l)
GetResourceDownloadInfo(q, p, l) == p \in DOMAIN limit /\ GatePatch(q, p, l)

\* The page of a patch, and that of a resource, which starts with its patch.
GetPatch(q, p, l) == p \in DOMAIN limit /\ Reads(q, OfOne(p, l, l))
GetResourceDetail(q, p, l) == p \in DOMAIN limit /\ Reads(q, OfOne(p, l, l))

\* Its detail is asked for without a limit.
GetPatchDetail(q, p, l) == p \in DOMAIN limit /\ Reads(q, OfOne(p, "all", l))

\* The same pages of an id nobody has made a patch of; the first wants an answer of that id.
GalgameOnlyCard(q, p, l) == p \notin DOMAIN limit /\ Reads(q, OfRows({p}, l, NoFilter))
GalgameOnlyDetail(q, p, l) == p \notin DOMAIN limit /\ Reads(q, OfOne(p, "all", l))

\* A month of the calendar is asked for without a limit, too.
GetGalgameCalendar(q, l) == Reads(q, OfWorks(Works, "all", l))

\* The catalog answers with the works that fit the limit it was asked with.
Answer(q) ==
  /\ DisplayAt(q, "calling")
  /\ LET ask == reader[q].ask
         found == {w \in ask.ids : Fits(verdict[w], ask.gate)}
     IN  reader' = [reader EXCEPT ![q] = [pc |-> "holding", ask |-> ask, held |-> FALSE,
                                          body |-> [w \in found |-> verdict[w]]]]
  /\ UNCHANGED <<mirrorVars, cache, since, reads, minutes>>

CacheSet(q) ==
  /\ DisplayAt(q, "holding")
  /\ LET r == reader[q]  key == ReadKey(r.ask.ids, r.ask.gate)
     IN  /\ cache' = [k \in DOMAIN cache \cup {key} |->
                        IF k = key THEN [body |-> r.body, age |-> 0] ELSE cache[k]]
         /\ reader' = [reader EXCEPT ![q] = Shown(r.ask, r.body)]
  /\ UNCHANGED <<mirrorVars, since, reads, minutes>>

\* Without an answer nothing is shown.
CallFails(q) ==
  /\ DisplayAt(q, "calling")
  /\ reader' = [reader EXCEPT ![q] = Shown([reader[q].ask EXCEPT !.filter = NoFilter], <<>>)]
  /\ UNCHANGED <<mirrorVars, cache, since, reads, minutes>>

Leave(q) ==
  /\ DisplayAt(q, "shown")
  /\ reader' = [reader EXCEPT ![q] = Away]
  /\ UNCHANGED <<mirrorVars, cache, since, reads, minutes>>

\* A minute passes.  Calls of the catalog end within one (client.go, Timeout).
Minute ==
  /\ minutes < MaxMinutes /\ minutes' = minutes + 1
  /\ \A q \in Readers : \/ DisplayAt(q, "idle") \/ DisplayAt(q, "calling")
                        \/ DisplayAt(q, "holding") /\ ~reader[q].held
  /\ reader' = [q \in Readers |->
                  IF DisplayAt(q, "holding") THEN [reader[q] EXCEPT !.held = TRUE] ELSE reader[q]]
  /\ cache' = [k \in {j \in DOMAIN cache : cache[j].age < TTL} |->
                 [body |-> cache[k].body, age |-> cache[k].age + 1]]
  /\ since' = [w \in Works |-> [v \in Verdicts |->
                 IF v = verdict[w] THEN 0
                 ELSE IF since[w][v] < Old THEN since[w][v] + 1 ELSE Old]]
  /\ UNCHANGED <<mirrorVars, reads>>

-----------------------------------------------------------------------------
ReadRows(q, l) ==
  \/ GetGalgameList(q, l) \/ GetHome(q, l) \/ GetPatchRanking(q, l) \/ SearchResources(q, l)
  \/ GetUserPatches(q, l) \/ GetUserFavorites(q, l) \/ GetUserContributions(q, l)
  \/ GetGlobalComments(q, l) \/ GetGlobalResources(q, l)
  \/ GetUserResources(q, l) \/ GetUserComments(q, l) \/ GetRandomPatchID(q, l)
  \/ Recommend(q, l) \/ CatalogLibrary(q, l) \/ EntityWorks(q, l) \/ TaxonomyMembers(q, l)

ReadOne(q, p, l) ==
  \/ GetPatch(q, p, l) \/ GetPatchDetail(q, p, l) \/ GetResourceDetail(q, p, l)
  \/ GalgameOnlyCard(q, p, l) \/ GalgameOnlyDetail(q, p, l)
  \/ GetComments(q, p, l) \/ GetResources(q, p, l) \/ GetContributors(q, p, l)
  \/ GetResourceComments(q, p, l) \/ GetCommentMarkdown(q, p, l) \/ LocateComment(q, p, l)
  \/ GetResourceDownloadInfo(q, p, l)

Read(q) ==
  \/ \E l \in Limits :
       \/ ReadRows(q, l) \/ GetGalgameCalendar(q, l)
       \/ \E p \in Patches \cup Works : ReadOne(q, p, l)
  \/ Answer(q) \/ CacheSet(q) \/ CallFails(q) \/ Leave(q)

DisplayNext ==
  \/ \E w \in Works : /\ ChangeWork(w)
                      /\ since' = [since EXCEPT ![w][verdict[w]] = 0]
                      /\ UNCHANGED <<cache, reader, reads, minutes>>
  \/ MirrorNext /\ UNCHANGED readVars
  \/ \E q \in Readers : Read(q)
  \/ Minute

\* Of the mirror: its schedule fires for ever, and a run goes on if it can.
Fairness ==
  /\ WF_displayVars(SomeTick /\ UNCHANGED readVars)
  /\ \A r \in Runs : WF_displayVars(RunStep(r) /\ UNCHANGED readVars)

DisplaySpec == DisplayInit /\ [][DisplayNext]_displayVars /\ Fairness

-----------------------------------------------------------------------------
(***************************************************************************)
(* Properties.                                                             *)
(***************************************************************************)
Lately(w, v) == v = verdict[w] \/ since[w][v] <= TTL + 1
Steady(w) == verdict[w] # "gone" /\ \A v \in Verdicts \ {verdict[w]} : ~Lately(w, v)
Mirrored(w) == Anchor[w] \in DOMAIN limit => limit[Anchor[w]] = verdict[w]
LatelyFits(w, l) == \E v \in Verdicts : Fits(v, l) /\ Lately(w, v)

\* The feed is never lost: once the cursor is past a work's last change, no run can have
\* left an older verdict on its patch; it has the present one, or none if it was made since.
\* Runs that overlap may break this, for the older one writes what it was told before, and
\* so may an answer that a run before left in the cache.  And a verdict is never filed
\* under the id of a work: patches that are no work's stay without one.
CursorCovers ==
  /\ ~overlapped =>
       \A w \in Works : stamp[w] <= cursor /\ w \notin outdated /\ Anchor[w] \in DOMAIN limit =>
         verdict[w] = "gone" \/ limit[Anchor[w]] \in {Unset, verdict[w]}
  /\ \A p \in DOMAIN limit : AnchoredTo(p) = {} => limit[p] = Unset

\* The patches there were when the mirror was first drained, and that are of a work, all
\* get its verdict in the end, whatever fails on the way.
MirrorsEventually ==
  <>[](\/ overlapped \/ DOMAIN limit # Listed
       \/ \A w \in Works : verdict[w] = "gone" \/ w \in outdated \/ Mirrored(w))

\* Lists know a row by the id of its work's answer.  Another work, which no claim names, may
\* be answered under that id.
Confused(p) == p \in Works \ Claimed /\ \E w \in AnchoredTo(p) : w # p

\* However far behind the mirror is, a reader is shown no work that the catalog has kept
\* from his limit for longer than an answer may be cached and on its way; nor a patch of
\* such a work, unless it takes the answer of another work for its own.
NeverLeaks ==
  [][\A q \in Readers :
       reader'[q].pc = "shown" /\ reader[q].pc # "shown" =>
         /\ \A w \in reader'[q].works : LatelyFits(w, reader[q].limit)'
         /\ \A p \in reader'[q].rows :
              Confused(p) \/ \E w \in Resolve(p) : LatelyFits(w, reader[q].limit)']_displayVars

\* Works that are answered under the id of their patch.
Plain(w) == Anchor[w] # NoAnchor /\ PublicGID(w) = Anchor[w] /\ w \notin Hidden

\* The patch of such a work is counted by the list, and shown, if its work fits the limit,
\* and else is not, provided that mirror and catalog agree on it and neither has moved lately.
PageComplete ==
  [][\A q \in Readers :
       LET r == reader'[q]
       IN  r.pc = "shown" /\ reader[q].pc # "shown" /\ r.filter # NoFilter =>
             \A w \in Works :
               /\ Plain(w) /\ Steady(w) /\ Mirrored(w) /\ Anchor[w] \in DOMAIN limit
               /\ Anchor[w] \in DOMAIN r.filter /\ r.filter[Anchor[w]] = limit[Anchor[w]]
               => /\ Anchor[w] \in r.counted <=> Fits(verdict[w], r.limit)
                  /\ Anchor[w] \in r.rows <=> Fits(verdict[w], r.limit)]_displayVars
=============================================================================
