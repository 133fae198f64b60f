----------------------------- MODULE CrawlSink -----------------------------
(***************************************************************************)
(* packages/persistence, crawl-sink.ts and map.ts, around CrawlWalk:       *)
(* crawlToDatabase.  A page goes to the database as the walk takes it, its *)
(* bodies to the blob store first, and the crawl's row says how it ended.  *)
(* Any statement may fail, having changed nothing or everything, and the   *)
(* process may die at any step.                                            *)
(***************************************************************************)
EXTENDS CrawlWalk

CONSTANT MaxFaults   \* bound: statements and uploads that fail, and crashes

VARIABLES
  crawlRow,   \* crawls.status
  rows,       \* the pages table: [url, parent]
  edges,      \* page_links: [from, to, resolved]
  renders,    \* the renders table: [url, mode, key]
  ids,        \* the URLs pageIdByUrl has
  blobs,      \* the bodies in the store, by the page and mode they are of
  faults

sinkVars == <<crawlRow, rows, edges, renders, ids, blobs>>
crawlVars == <<walkVars, sinkVars, faults>>

Mode == {"raw", "rendered", "rendered-mobile"}

(* What happens in the crawler; the sink looks on.                         *)
Besides(action) == action /\ UNCHANGED <<sinkVars, faults>>

(* A step of the walk, which has awaited the fetch before it.              *)
Walks(action) == hop = 0 /\ Besides(action)

(* The walk does not move but to its next await.                           *)
Goes(next) ==
  /\ step' = next
  /\ UNCHANGED <<site, aborted, first, unpaced, hop, late, sitemapVars, queueVars, turn,
                 pages, entry, asides>>

Breaks == faults < MaxFaults /\ faults' = faults + 1

-----------------------------------------------------------------------------
(* openCrawl                                                               *)

OpenCrawl ==
  /\ step = "open"
  /\ \/ /\ crawlRow' = "running"
        /\ Goes("robots")
        /\ UNCHANGED faults
     \/ Breaks /\ Goes("threw") /\ crawlRow' \in {crawlRow, "running"}
  /\ UNCHANGED <<rows, edges, renders, ids, blobs>>

(* onPage                                                                  *)

(* toRenderRow and toRenderedRow: a capture there is something to show of. *)
Captures ==
  { m \in Mode : CASE m = "raw"             -> Page.html
                   [] m = "rendered"        -> Page.rendered = "rendered"
                   [] m = "rendered-mobile" -> Page.mobile = "rendered" }

(* The bodies, ahead of the transaction: one upload may fail after others. *)
StoreBodies ==
  LET bodies == { <<entry.url, m>> : m \in Captures }
  IN /\ step = "page"
     /\ \/ /\ blobs' = blobs \cup bodies
           /\ Goes("write")
           /\ UNCHANGED faults
        \/ /\ bodies # {}
           /\ Breaks
           /\ \E some \in SUBSET bodies : some # bodies /\ blobs' = blobs \cup some
           /\ Goes("fail")
     /\ UNCHANGED <<crawlRow, rows, edges, renders, ids>>

(* toPageLinkRows: the redirect, the anchors, nofollow or not, and what    *)
(* the page declares of itself.                                            *)
EdgesOf ==
  LET redirect == IF Page.chain > 0 /\ Page.final # entry.url THEN {Page.final} ELSE {}
      targets == redirect \cup Elements(Page.links) \cup Page.nofollow \cup Page.declares
  IN { [from |-> entry.url, to |-> u, resolved |-> FALSE] : u \in targets }

(* discoveredFromId, by what this process has written.                     *)
ParentOf(url) == IF url \in ids THEN url ELSE "none"

RowOf == [url |-> entry.url, parent |-> ParentOf(entry.from), depth |-> entry.depth]

(* One transaction, then the page's id, then the links are followed.       *)
WritePage ==
  /\ step = "write"
  /\ \/ /\ rows' = rows \cup {RowOf}
        /\ edges' = edges \cup EdgesOf
        /\ renders' = renders \cup { <<entry.url, m>> : m \in Captures }
     \/ UNCHANGED <<rows, edges, renders>>
  /\ \/ /\ RowOf \in rows'
        /\ ids' = ids \cup {entry.url}
        /\ Follow
        /\ UNCHANGED <<site, aborted, first, unpaced, hop, late, sitemapVars, turn,
                       pages, entry, asides, faults>>
     \/ Breaks /\ Goes("fail") /\ UNCHANGED ids
  /\ UNCHANGED <<crawlRow, blobs>>

-----------------------------------------------------------------------------
(* finish and fail                                                         *)

Written == { r.url : r \in rows }

(* Mutant: an edge leads to the page it led to the discovery of.           *)
ResolvedForward ==
  { [e EXCEPT !.resolved = @ \/ \E r \in rows : r.url = e.to /\ r.parent = e.from] : e \in edges }

(* resolveLinkTargets                                                      *)
Resolved == { [e EXCEPT !.resolved = @ \/ e.to \in Written] : e \in edges }

Resolve ==
  /\ step \in {"finish", "fail", "cancel"}
  /\ edges' \in {edges, Resolved}
  /\ \/ /\ edges' = Resolved
        /\ Goes(CASE step = "finish" -> "completing" [] step = "fail" -> "failing"
                  [] step = "cancel" -> "cancelling")
        /\ UNCHANGED faults
     \/ Breaks /\ Goes(IF step = "finish" THEN "fail" ELSE "threw")
  /\ UNCHANGED <<crawlRow, rows, renders, ids, blobs>>

(* The row's last status: a crawl someone stopped is no failed one.        *)
LastStatus ==
  CASE step = "completing" -> "complete" [] step = "failing" -> "failed"
    [] step = "cancelling" -> "cancelled"

CloseCrawl ==
  /\ step \in {"completing", "failing", "cancelling"}
  /\ \/ /\ crawlRow' = LastStatus
        /\ Goes(CASE step = "completing" -> "returned" [] step = "failing" -> "threw"
                  [] step = "cancelling" -> "cancelled")
        /\ UNCHANGED faults
     \/ /\ Breaks
        /\ Goes(IF step = "completing" THEN "fail" ELSE "threw")
        /\ crawlRow' \in {crawlRow, LastStatus}
  /\ UNCHANGED <<rows, edges, renders, ids, blobs>>

Ended == step \in {"returned", "threw", "cancelled", "died"}

Dies ==
  /\ ~Ended
  /\ Breaks
  /\ Goes("died")
  /\ UNCHANGED sinkVars

-----------------------------------------------------------------------------
CrawlInit ==
  /\ site \in Site
  /\ step = "open"
  /\ aborted = FALSE /\ first = TRUE /\ unpaced = 0 /\ hop = 0 /\ late = 0
  /\ lanes = <<>> /\ laneTurn = 0 /\ seen = {} /\ declared = <<>> /\ served = <<>>
  /\ walk = <<>> /\ listed = <<>> /\ queued = {} /\ blocked = <<>> /\ beyond = {}
  /\ turn = "walk"
  /\ pages = <<>> /\ entry = NoEntry /\ asides = <<>>
  /\ crawlRow = "none" /\ rows = {} /\ edges = {} /\ renders = {} /\ ids = {} /\ blobs = {}
  /\ faults = 0

CrawlStep ==
  \/ OpenCrawl
  \/ Besides(Redirected) \/ Besides(Answered)
  \/ Walks(LoadRobots) \/ Walks(ReadSitemap) \/ Walks(SitemapsDone)
  \/ Walks(Aside) \/ Walks(WalkBegins) \/ Walks(Visit)
  \/ \E outcome \in {"rendered", "failed", "threw"} : Walks(Render(outcome))
  \/ Walks(RenderSkipped)
  \/ StoreBodies \/ WritePage
  \/ Walks(WalkEnds) \/ Walks(Returns) \/ Walks(Cancels)
  \/ Resolve \/ CloseCrawl

CrawlNext == CrawlStep \/ Besides(Abort) \/ Dies

(* Every await comes back: a request, a navigation and axe have timeouts,  *)
(* statements answer or fail.  What else a render awaits of the browser (a *)
(* context, the page's own text) has none: it is taken to answer, and were *)
(* it not to, only the signal would end it.                                *)
CrawlSpec == CrawlInit /\ [][CrawlNext]_crawlVars /\ WF_crawlVars(CrawlStep)

-----------------------------------------------------------------------------
(* Properties.                                                             *)

(* The shape of everything.                                                *)
CrawlTypeOK ==
  /\ aborted \in BOOLEAN /\ first \in BOOLEAN /\ {unpaced, late} \subseteq Nat
  /\ hop \in 0..MaxRedirects + 1
  /\ queued \cup beyond \cup Elements(blocked) \cup Elements(declared) \cup ids \subseteq Url
  /\ Elements(walk) \cup Elements(listed) \subseteq Entry
  /\ \A i \in DOMAIN pages :
       /\ pages[i].url \in Url /\ pages[i].final \in Url
       /\ pages[i].depth \in 0..site.maxDepth /\ pages[i].chain \in 0..MaxRedirects + 1
       /\ pages[i].rendered \in {"absent", "rendered", "failed"}
  /\ rows \subseteq [url : Url, parent : Url \cup {"none"}, depth : 0..site.maxDepth]
  /\ edges \subseteq [from : Url, to : Url, resolved : BOOLEAN]
  /\ renders \cup blobs \subseteq Url \X Mode
  /\ crawlRow \in {"none", "running", "complete", "failed", "cancelled"}

Fetched == { pages[i].url : i \in DOMAIN pages }
Finished == step \in {"finish", "completing", "returned"}

Discovered ==
  { u \in Elements(Seeds) \cup Elements(declared)
             \cup (UNION { Elements(pages[i].links) : i \in DOMAIN pages })
             \cup { pages[i].final : i \in { k \in DOMAIN pages : pages[k].chain > 0 } } : OnSite(u) }

(* A finished crawl accounts for every URL of the site it came to know:    *)
(* fetched once, or kept out by robots.txt, or not reached; and what is    *)
(* not reached is so for a budget: a link of a page above the depth budget,*)
(* or a redirect target, waits only for pages to spend.  A disallowed URL seen only below the    *)
(* depth budget is in neither list.                                        *)
Accounted ==
  Finished =>
    /\ Cardinality(Fetched) = Len(pages)
    /\ Fetched \cap (NotReached \cup Elements(blocked)) = {}
    /\ NotReached \cap Elements(blocked) = {}
    /\ Discovered = Fetched \cup NotReached \cup Elements(blocked)
                      \cup ((beyond \ queued) \cap site.disallow)
    /\ Len(pages) < site.maxPages =>
         \A i \in DOMAIN pages :
           \A u \in (IF pages[i].depth < site.maxDepth THEN Elements(pages[i].links) ELSE {})
                      \cup (IF pages[i].chain > 0 THEN {pages[i].final} ELSE {}) :
             OnSite(u) => u \in Fetched \cup Elements(blocked)

(* While the lists have something left, every other page came from them.   *)
SharesBudget ==
  listed # <<>> =>
    Len(pages) <= 1 + 2 * Cardinality({ i \in DOMAIN pages :
                            pages[i].from = "none" /\ pages[i].url \notin Elements(Seeds) })

(* No sitemap's documents are read two turns ahead of another's that wait. *)
SitemapsShare ==
  step = "sitemaps" =>
    \A i, k \in DOMAIN lanes : lanes[k] # <<>> => served[i] <= served[k] + 1

(* "A page's parent is always already written when the child arrives": a   *)
(* page that was come upon names the row of the page it was found on, no   *)
(* deeper than a step away.                                                *)
ParentWritten ==
  \A r \in rows : \A i \in DOMAIN pages :
    (pages[i].url = r.url /\ pages[i].from # "none") =>
      \E parent \in rows : /\ parent.url = r.parent
                            /\ r.depth \in {parent.depth, parent.depth + 1}

(* "A crawl that reads as complete always has a whole link graph behind    *)
(* it": every page and every body is there, and every edge to a page that  *)
(* was fetched leads to it.                                                *)
WholeWhenComplete ==
  crawlRow = "complete" =>
    /\ Written = Fetched
    /\ renders \subseteq blobs
    /\ \A e \in edges : e.resolved <=> e.to \in Written

(* What the site is owed: of the walk's and the asides' fetches at most    *)
(* one begins without a pause, and once the crawl is called off no fetch   *)
(* begins.  The one at work is not stopped: "no further requests" is at    *)
(* most maxRedirects further ones.                                         *)
MindsTheSite == unpaced <= 1 /\ late <= MaxRedirects

(* A crawl ends, whatever the site answers and whenever it is called off.  *)
Ends == <>Ended

=============================================================================
