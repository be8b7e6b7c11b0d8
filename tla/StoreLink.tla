------------------------------- MODULE StoreLink -------------------------------
(***************************************************************************)
(* internal/infrastructure/storelink: a game's page shows the short link   *)
(* the shop issued for its product, and the running campaign.  The links   *)
(* are held in memory; who misses one puts its product into a bounded      *)
(* queue and goes on with the plain link, and one goroutine asks the shop, *)
(* stores and remembers the answer.  The campaign is learned from the same *)
(* answers, and from a probe with a known product every six hours.         *)
(***************************************************************************)
EXTENDS Naturals, Sequences, FiniteSets

CONSTANTS
  Readers,     (* pages being rendered at the same time                     *)
  Products,
  Invalid,     (* products the shop will not take                           *)
  QueueSize,   (* queueSize                                                 *)
  Quota,       (* links the shop issues to this site                        *)
  MaxChanges,  (* bound: campaigns that begin or end                        *)
  MaxFaults    (* bound: failures and restarts                              *)

ASSUME InvalidAssumption == Invalid \subseteq Products
ASSUME QueueAssumption == QueueSize \in Nat \ {0}

VARIABLES
  issued,      (* shop: the products it has issued a link for               *)
  running,     (* shop: is there a campaign                                 *)
  row,         (* dlsite_store_link                                         *)
  links,       (* Resolver.links                                            *)
  campaign,    (* Resolver.campaign and coupon: is one shown                *)
  queue,       (* Resolver.queue, a buffered channel                        *)
  queued, bad, halted, (* Resolver, under pendMu                            *)
  reader, minter,
  changes, faults

shopVars == <<issued, running>>
pendVars == <<queued, bad, halted>>
memory == <<links, campaign, queue, pendVars>>
linkVars == <<shopVars, row, memory, reader, minter, changes, faults>>

At(q, pc) == reader[q].pc = pc
Rendered == [pc |-> "idle"]
MinterAt(pc) == minter.pc = pc
Waiting == [pc |-> "waiting"]
Starting == [pc |-> "refreshing"]
Faulty == faults < MaxFaults /\ faults' = faults + 1

Rest == [q \in Readers |-> Rendered]

LinkInit ==
  /\ issued = {} /\ row = {}
  /\ running \in BOOLEAN
  /\ links = {} /\ campaign = FALSE
  /\ queue = <<>> /\ queued = {} /\ bad = {} /\ halted = FALSE
  /\ reader = Rest /\ minter = Starting
  /\ changes = 0 /\ faults = 0

-----------------------------------------------------------------------------
\* The reader of a page: Resolve.

\* The lookup under mu.  A miss goes on to enqueue.
Resolve(q, p) ==
  /\ At(q, "idle")
  /\ p \notin links
  /\ reader' = [reader EXCEPT ![q] = [pc |-> "marking", of |-> p]]
  /\ UNCHANGED <<shopVars, row, memory, minter, changes, faults>>

\* The section of enqueue under pendMu.
MarkQueued(q) ==
  /\ At(q, "marking")
  /\ LET p == reader[q].of
     IN  IF halted \/ p \in bad \/ p \in queued
           THEN reader' = [reader EXCEPT ![q] = Rendered] /\ UNCHANGED queued
           ELSE /\ queued' = queued \cup {p}
                /\ reader' = [reader EXCEPT ![q].pc = "sending"]
  /\ UNCHANGED <<shopVars, row, links, campaign, queue, bad, halted, minter, changes, faults>>

\* Mutant: a full queue drops the product and keeps its mark.
SendOrForget(q) ==
  /\ At(q, "sending")
  /\ queue' = IF Len(queue) < QueueSize THEN Append(queue, reader[q].of) ELSE queue
  /\ reader' = [reader EXCEPT ![q] = Rendered]
  /\ UNCHANGED <<shopVars, row, links, campaign, pendVars, minter, changes, faults>>

\* The select that never blocks.
Send(q) ==
  /\ At(q, "sending")
  /\ IF Len(queue) < QueueSize
       THEN /\ queue' = Append(queue, reader[q].of)
            /\ reader' = [reader EXCEPT ![q] = Rendered]
       ELSE reader' = [reader EXCEPT ![q].pc = "releasing"] /\ UNCHANGED queue
  /\ UNCHANGED <<shopVars, row, links, campaign, pendVars, minter, changes, faults>>

Release(q) ==
  /\ At(q, "releasing")
  /\ queued' = queued \ {reader[q].of}
  /\ reader' = [reader EXCEPT ![q] = Rendered]
  /\ UNCHANGED <<shopVars, row, links, campaign, queue, bad, halted, minter, changes, faults>>

-----------------------------------------------------------------------------
\* The minter's goroutine.

\* refreshCampaign, when the process starts and at every tick of six hours: it probes
\* with a product that has its link, unless there is none or minting has stopped.
TickCampaign ==
  /\ MinterAt("waiting")
  /\ minter' = Starting
  /\ UNCHANGED <<shopVars, row, memory, reader, changes, faults>>

RefreshCampaign ==
  /\ MinterAt("refreshing")
  /\ minter' = IF halted \/ links = {} THEN Waiting ELSE [pc |-> "learning", on |-> running]
  /\ UNCHANGED <<shopVars, row, memory, reader, changes, faults>>

RefreshFails ==
  /\ MinterAt("refreshing") /\ ~halted /\ links # {}
  /\ minter' = Waiting /\ Faulty
  /\ UNCHANGED <<shopVars, row, memory, reader, changes>>

\* Take one product out of the queue; mint stops at once if it has to.
TakeProduct ==
  /\ MinterAt("waiting") /\ queue # <<>>
  /\ queue' = Tail(queue)
  /\ minter' = [pc |-> IF halted THEN "releasing" ELSE "calling", of |-> Head(queue)]
  /\ UNCHANGED <<shopVars, row, links, campaign, pendVars, reader, changes, faults>>

\* The shop answers: it issues one link for a product for ever, up to its quota.
Issuable(p) == p \notin Invalid /\ (p \in issued \/ Cardinality(issued) < Quota)

PurchaseLinks ==
  /\ MinterAt("calling") /\ Issuable(minter.of)
  /\ issued' = issued \cup {minter.of}
  /\ minter' = [pc |-> "storing", of |-> minter.of, on |-> running]
  /\ UNCHANGED <<running, row, memory, reader, changes, faults>>

\* mintFailed: a product that is refused is never tried again, an exhausted quota or a
\* refused key stops minting for good, and anything else is left to the next reader.
MarkBad ==
  /\ MinterAt("calling") /\ minter.of \in Invalid
  /\ bad' = bad \cup {minter.of}
  /\ minter' = [minter EXCEPT !.pc = "releasing"]
  /\ UNCHANGED <<shopVars, row, links, campaign, queue, queued, halted, reader, changes, faults>>

Halt ==
  /\ MinterAt("calling") /\ ~(minter.of \in Invalid \/ Issuable(minter.of))
  /\ halted' = TRUE
  /\ minter' = [minter EXCEPT !.pc = "releasing"]
  /\ UNCHANGED <<shopVars, row, links, campaign, queue, queued, bad, reader, changes, faults>>

\* An answer that is lost may have issued the link.
CallFails ==
  /\ MinterAt("calling") /\ Faulty
  /\ \/ issued' = issued
     \/ Issuable(minter.of) /\ issued' = issued \cup {minter.of}
  /\ minter' = [minter EXCEPT !.pc = "releasing"]
  /\ UNCHANGED <<running, row, memory, reader, changes>>

\* INSERT ... ON CONFLICT DO NOTHING.
StoreLink ==
  /\ MinterAt("storing")
  /\ row' = row \cup {minter.of}
  /\ minter' = [minter EXCEPT !.pc = "remembering"]
  /\ UNCHANGED <<shopVars, memory, reader, changes, faults>>

StoreFails ==
  /\ MinterAt("storing") /\ Faulty
  /\ minter' = [minter EXCEPT !.pc = "releasing"]
  /\ UNCHANGED <<shopVars, row, memory, reader, changes>>

Remember ==
  /\ MinterAt("remembering")
  /\ links' = links \cup {minter.of}
  /\ minter' = [minter EXCEPT !.pc = "learning"]
  /\ UNCHANGED <<shopVars, row, campaign, queue, pendVars, reader, changes, faults>>

\* Mutant: an answer without a campaign leaves the last one standing.
KeepCampaign ==
  /\ MinterAt("learning")
  /\ campaign' = (campaign \/ minter.on)
  /\ minter' = IF "of" \in DOMAIN minter THEN [pc |-> "releasing", of |-> minter.of] ELSE Waiting
  /\ UNCHANGED <<shopVars, row, links, queue, pendVars, reader, changes, faults>>

\* setCampaign, after a mint or a probe.
SetCampaign ==
  /\ MinterAt("learning")
  /\ campaign' = minter.on
  /\ minter' = IF "of" \in DOMAIN minter THEN [pc |-> "releasing", of |-> minter.of] ELSE Waiting
  /\ UNCHANGED <<shopVars, row, links, queue, pendVars, reader, changes, faults>>

\* The deferred release at the end of every mint.
EndMint ==
  /\ MinterAt("releasing")
  /\ queued' = queued \ {minter.of}
  /\ minter' = Waiting
  /\ UNCHANGED <<shopVars, row, links, campaign, queue, bad, halted, reader, changes, faults>>

-----------------------------------------------------------------------------
CampaignTurns ==
  /\ changes < MaxChanges /\ changes' = changes + 1
  /\ running' = ~running
  /\ UNCHANGED <<issued, row, memory, reader, minter, faults>>

\* The process ends and starts again, with refreshCampaign before it: load fills the links from the table, or fails.
Restart ==
  /\ Faulty
  /\ links' \in {row, {}} /\ campaign' = FALSE
  /\ queue' = <<>> /\ queued' = {} /\ bad' = {} /\ halted' = FALSE
  /\ reader' = Rest /\ minter' = Starting
  /\ UNCHANGED <<shopVars, row, changes>>

-----------------------------------------------------------------------------
ReaderStep(q) == MarkQueued(q) \/ Send(q) \/ Release(q)

Mint ==
  \/ RefreshCampaign \/ TakeProduct
  \/ PurchaseLinks \/ MarkBad \/ Halt
  \/ StoreLink \/ Remember \/ SetCampaign \/ EndMint

LinkNext ==
  \/ \E q \in Readers : ReaderStep(q) \/ \E p \in Products : Resolve(q, p)
  \/ Mint \/ TickCampaign
  \/ RefreshFails \/ CallFails \/ StoreFails
  \/ CampaignTurns \/ Restart

\* The goroutines go on, and the ticker is served however full the queue is: select
\* chooses among what is ready at random.
LinkFairness ==
  /\ WF_linkVars(Mint) /\ SF_linkVars(TickCampaign)
  /\ \A q \in Readers : WF_linkVars(ReaderStep(q))

LinkSpec == LinkInit /\ [][LinkNext]_linkVars /\ LinkFairness

-----------------------------------------------------------------------------
(***************************************************************************)
(* Properties.                                                             *)
(***************************************************************************)
Holding(p) ==
  {q \in Readers : (At(q, "sending") \/ At(q, "releasing")) /\ reader[q].of = p}
InQueue(p) == {i \in DOMAIN queue : queue[i] = p}
Minting(p) == IF "of" \in DOMAIN minter /\ minter.of = p THEN {minter} ELSE {}

\* Mark, queue and release are three places: a product is marked exactly while one
\* party answers for it, a page, the queue or the minter.  A mark nobody answers for
\* would keep the product from its link until the next start; a second one would ask
\* the shop twice.
HeldOnce ==
  \A p \in Products :
    Cardinality(Holding(p)) + Cardinality(InQueue(p)) + Cardinality(Minting(p))
      = IF p \in queued THEN 1 ELSE 0

\* When campaigns stop changing, the page shows the one that runs or none; as long as
\* there is a link to probe with and minting has not stopped for good.
CampaignSettles == <>[](links = {} \/ halted \/ campaign = running)
=============================================================================
