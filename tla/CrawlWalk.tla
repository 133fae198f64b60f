----------------------------- MODULE CrawlWalk -----------------------------
(***************************************************************************)
(* packages/crawler, crawl.ts and fetch.ts: one crawl of one site.  The    *)
(* site is chosen once and answers the same URL the same way all along.    *)
(*                                                                         *)
(* A fetch begins with a step: the pause before it, in which the signal is *)
(* read, so that an abort that comes in it comes, for the model, just      *)
(* before the step, its first request, and what the code makes of the      *)
(* answer, which nothing else reads until it is there.  The requests that  *)
(* follow a redirect are steps of their own, and the next step of the walk *)
(* waits for the fetch to be over: hop = 0.  URLs are their normalized     *)
(* selves, and those that normalizeUrl refuses are no links at all.        *)
(***************************************************************************)
EXTENDS Integers, FiniteSets, Sequences, FiniteSetsExt

CONSTANTS
  Url,            \* on the site and off it
  HostOf,         \* [Url -> host]
  Seeds,          \* options.seeds, a sequence
  Document,       \* sitemap documents
  Site,           \* bound: the sites there may be
  MaxDocuments,   \* MAX_SITEMAP_DOCUMENTS
  MaxRedirects,   \* DEFAULTS.maxRedirects
  MaxIcons, MaxExternal, MaxPerHost,   \* the caps on requests off the walk
  Before, Extras  \* reasons asked about before the walk, and after it

(* What a URL and a sitemap document answer with, and a site.  `links` are *)
(* the anchors that may be followed, `declares` the canonical and the      *)
(* hreflang URLs; `roots` are robots.sitemaps, or /sitemap.xml; `disallow` *)
(* is what isAllowed says no to; the rest are the options.                 *)
Response ==
  [ kind : {"html", "other", "redirect", "down"}, links : Seq(Url), nofollow : SUBSET Url,
    declares : SUBSET Url, to : Url, icons : Nat ]

Sitemap == [ ok : BOOLEAN, urls : Seq(Url), children : Seq(Document) ]

ASSUME SeedsAssumption == Seeds \in Seq(Url) /\ Seeds # <<>>
ASSUME NoneAssumption == "none" \notin Url
ASSUME CapsAssumption == {MaxDocuments, MaxRedirects, MaxIcons, MaxExternal, MaxPerHost} \subseteq Nat
ASSUME AsidesAssumption == Before \in Seq(STRING) /\ Extras \in Seq(STRING)
ASSUME SiteAssumption ==
  Site \subseteq [ pages : [Url -> Response], docs : [Document -> Sitemap],
                  roots : Seq(Document), disallow : SUBSET Url,
                  maxPages : Nat, maxDepth : Nat, render : BOOLEAN, mobile : BOOLEAN ]

VARIABLES
  site,       \* what is crawled, and how
  step,       \* which await the crawl is at, or how it ended
  aborted,    \* options.signal.aborted
  first,      \* no paced request has been made yet
  unpaced,    \* how many of the paced requests did not wait
  hop,        \* fetchPage's request that is out, counted from 1; 0 for none
  late,       \* how many requests went out once the signal was set
  lanes, laneTurn, seen, declared,   \* loadSitemaps; `served` counts a lane's turns
  served,
  walk, listed, turn,                \* the two lanes of the walk
  queued, blocked, beyond,
  pages,      \* the pages fetched, in order
  entry,      \* the one being worked on
  asides      \* the reasons still to be asked about

sitemapVars == <<lanes, laneTurn, seen, declared, served>>
queueVars == <<walk, listed, queued, blocked, beyond>>
walkVars == <<site, step, aborted, first, unpaced, hop, late, sitemapVars, queueVars, turn,
              pages, entry, asides>>

Entry == [ url : Url, depth : Nat, from : Url \cup {"none"} ]
NoEntry == [ url |-> "none", depth |-> 0, from |-> "none" ]

Elements(s) == { s[i] : i \in DOMAIN s }
Least(a, b) == IF a < b THEN a ELSE b

-----------------------------------------------------------------------------
(* fetchPage: redirects followed one at a time.                            *)

(* Where the n-th request of a fetch goes; a redirect to itself goes no    *)
(* further.                                                                *)
Hop(url) ==
  LET at[n \in 0..MaxRedirects + 1] ==
        IF n = 0 THEN url
        ELSE LET here == site.pages[at[n - 1]]
             IN IF here.kind = "redirect" THEN here.to ELSE at[n - 1]
  IN at

(* The answer, how many hops the chain records, and how many requests it   *)
(* takes beyond the first.                                                 *)
Fetch(url) ==
  LET at == Hop(url)
      stops(n) == site.pages[at[n]].kind # "redirect" \/ at[n + 1] = at[n]
      ended == { n \in 0..MaxRedirects : stops(n) }
      last == IF ended = {} THEN MaxRedirects + 1 ELSE CHOOSE n \in ended : \A m \in ended : n <= m
      answer == site.pages[at[last]]
      failed == ended = {} \/ answer.kind \in {"redirect", "down"}
  IN [ final |-> at[last],
       chain |-> last + (IF ended # {} /\ answer.kind = "redirect" THEN 1 ELSE 0),
       further |-> IF ended = {} THEN MaxRedirects ELSE last,
       failed |-> failed,
       html  |-> ~failed /\ answer.kind = "html",
       links |-> IF ~failed /\ answer.kind = "html" THEN answer.links ELSE <<>>,
       nofollow |-> IF ~failed /\ answer.kind = "html" THEN answer.nofollow ELSE {},
       declares |-> IF ~failed /\ answer.kind = "html" THEN answer.declares ELSE {},
       icons |-> IF ~failed /\ answer.kind = "html" THEN answer.icons ELSE 0 ]

(* A request goes out, the first of a fetch or a further one of it.        *)
Requests == hop' = hop + 1 /\ late' = late + (IF aborted THEN 1 ELSE 0)

(* Mutant: maxRedirects requests beyond the first, and one more.           *)
FurtherByOne == MaxRedirects + 1

(* What fetchPage may still be redirected to: a page as the site has it,   *)
(* robots.txt, a sitemap and an aside as often as it follows at all.       *)
Further == IF step = "render" THEN Fetch(entry.url).further ELSE MaxRedirects

(* A redirect is followed at once: no pause, and no look at the signal.    *)
Redirected ==
  /\ hop \in 1..Further
  /\ Requests
  /\ UNCHANGED <<site, step, aborted, first, unpaced, sitemapVars, queueVars, turn,
                 pages, entry, asides>>

(* The last answer is there, or the last request has failed.               *)
Answered ==
  /\ hop > 0
  /\ step = "render" => hop > Further
  /\ hop' = 0
  /\ UNCHANGED <<site, step, aborted, first, unpaced, late, sitemapVars, queueVars, turn,
                 pages, entry, asides>>

-----------------------------------------------------------------------------
(* enqueue, on the lanes and sets as they stand in q.                      *)

Queue == [ walk |-> walk, listed |-> listed, queued |-> queued,
           blocked |-> blocked, beyond |-> beyond ]

OnSite(url) == HostOf[url] = HostOf[Seeds[1]]

(* Mutants: a URL seen too deep is not looked at again; one link more.     *)
KnownOnce(q, url) == url \in q.queued \cup q.beyond

TooDeepLater(depth) == depth > site.maxDepth + 1

Known(q, url) == url \in q.queued

TooDeep(depth) == depth > site.maxDepth

Enqueue(q, item, lane) ==
  LET url == item.url
  IN CASE ~OnSite(url) \/ Known(q, url) -> q
       [] OnSite(url) /\ ~Known(q, url) ->
            IF TooDeep(item.depth) THEN [q EXCEPT !.beyond = @ \cup {url}]
            ELSE IF url \in site.disallow
            THEN [q EXCEPT !.queued = @ \cup {url}, !.blocked = Append(@, url)]
            ELSE [q EXCEPT !.queued = @ \cup {url}, ![lane] = Append(@, item)]

EnqueueAll(q, items, lane) ==
  LET after[n \in 0..Len(items)] ==
        IF n = 0 THEN q ELSE Enqueue(after[n - 1], items[n], lane)
  IN after[Len(items)]

Queues(q) ==
  /\ walk' = q.walk /\ listed' = q.listed /\ queued' = q.queued
  /\ blocked' = q.blocked /\ beyond' = q.beyond

AtDepth(urls, depth, from) ==
  [ i \in DOMAIN urls |-> [url |-> urls[i], depth |-> depth, from |-> from] ]

-----------------------------------------------------------------------------
(* loadRobots and loadSitemaps                                             *)

(* A robots.txt that answers with a 5xx closes the whole site; the sitemap *)
(* is then the default one.  `site` already holds the outcome, and where   *)
(* nothing is kept out it may be that robots.txt was not to be asked.      *)
LoadRobots ==
  /\ step = "robots"
  /\ ~aborted
  /\ Requests \/ (site.disallow = {} /\ UNCHANGED <<hop, late>>)
  /\ lanes' = [ i \in DOMAIN site.roots |-> <<site.roots[i]>> ]
  /\ served' = [ i \in DOMAIN site.roots |-> 0 ]
  /\ step' = "sitemaps"
  /\ UNCHANGED <<site, aborted, first, unpaced, laneTurn, seen, declared, queueVars, turn,
                 pages, entry, asides>>

SitemapsLeft == Cardinality(seen) < MaxDocuments /\ \E i \in DOMAIN lanes : lanes[i] # <<>>

(* Mutant: the lanes are one queue.                                        *)
NextLaneFirst ==
  CHOOSE i \in DOMAIN lanes : /\ lanes[i] # <<>>
                              /\ \A k \in DOMAIN lanes : lanes[k] # <<>> => i <= k

(* The first lane, from the turn on, that has a document: the empty ones   *)
(* only let their turn go by.                                              *)
NextLane ==
  LET lane(k) == ((laneTurn + k) % Len(lanes)) + 1
      k == CHOOSE n \in 0..Len(lanes) - 1 :
             lanes[lane(n)] # <<>> /\ \A m \in 0..n - 1 : lanes[lane(m)] = <<>>
  IN lane(k)

(* One document, or a duplicate let go.  Children go to the lane of their  *)
(* index; a document that is not a 200 gives nothing.  The code's `urls` is *)
(* a Set, in the order of first sight: a URL declared again is one enqueue *)
(* knows.                                                                  *)
ReadSitemap ==
  LET i == NextLane
      next == Head(lanes[i])
      doc == site.docs[next]
      known == next \in seen
      children == IF known \/ ~doc.ok THEN <<>> ELSE doc.children
  IN /\ step = "sitemaps"
     /\ SitemapsLeft
     /\ ~aborted
     /\ lanes' = [lanes EXCEPT ![i] = Tail(@) \o children]
     /\ laneTurn' = i
     /\ served' = [served EXCEPT ![i] = @ + 1]
     /\ seen' = seen \cup {next}
     /\ declared' = IF known \/ ~doc.ok THEN declared ELSE declared \o doc.urls
     /\ IF known THEN UNCHANGED <<hop, late>> ELSE Requests
     /\ UNCHANGED <<site, step, aborted, first, unpaced, queueVars, turn, pages, entry,
                    asides>>

SitemapsDone ==
  LET seeded == EnqueueAll(Queue, AtDepth(Seeds, 0, "none"), "walk")
  IN /\ step = "sitemaps"
     /\ ~SitemapsLeft
     /\ Queues(EnqueueAll(seeded, AtDepth(declared, 0, "none"), "listed"))
     /\ step' = "before"
     /\ asides' = Before
     /\ UNCHANGED <<site, aborted, first, unpaced, hop, late, sitemapVars, turn, pages,
                    entry>>

-----------------------------------------------------------------------------
(* Requests off the walk                                                   *)

(* Mutant: the first request does not say it was made.                     *)
PacesNever == first' = first /\ unpaced' = unpaced + (IF first THEN 1 ELSE 0)

(* Every paced request but the first waits out the delay.                  *)
Paces == first' = FALSE /\ unpaced' = unpaced + (IF first THEN 1 ELSE 0)

Aside ==
  /\ step \in {"before", "after"}
  /\ asides # <<>>
  /\ ~aborted
  /\ asides' = Tail(asides)
  /\ Paces
  /\ Requests
  /\ UNCHANGED <<site, step, aborted, sitemapVars, queueVars, turn, pages, entry>>

WalkBegins ==
  /\ step = "before"
  /\ asides = <<>>
  /\ step' = "walk"
  /\ UNCHANGED <<site, aborted, first, unpaced, hop, late, sitemapVars, queueVars, turn,
                 pages, entry, asides>>

(* The link targets off every host the crawl has seen: so many per host,   *)
(* drawn a host at a time, so many in all.                                 *)
External ==
  LET ours == { HostOf[Seeds[i]] : i \in DOMAIN Seeds }
                \cup { HostOf[pages[i].final] : i \in DOMAIN pages }
      linked == UNION { Elements(pages[i].links) \cup pages[i].nofollow : i \in DOMAIN pages }
      foreign == { u \in linked : HostOf[u] \notin ours }
      lane(host) == Cardinality({ u \in foreign : HostOf[u] = host })
      kept == MapThenSumSet(LAMBDA host : Least(lane(host), MaxPerHost),
                            { HostOf[u] : u \in foreign })
  IN [ i \in 1..Least(kept, MaxExternal) |-> "external-link" ]

(* The shallowest page, the earliest fetched of them: sort is stable.      *)
Root ==
  pages[CHOOSE i \in DOMAIN pages :
          \A k \in DOMAIN pages : pages[i].depth < pages[k].depth
                                    \/ (pages[i].depth = pages[k].depth /\ i <= k)]

(* Icons of the root, links off the site, what the inputs ask for, and of  *)
(* a root that answered the handshake and the registry.                    *)
AfterWalk ==
  LET icons == IF pages = <<>> THEN 0 ELSE Root.icons
  IN [ i \in 1..Least(icons, MaxIcons) |-> "icon" ]
       \o External \o Extras
       \o (IF pages = <<>> \/ Root.failed THEN <<>> ELSE <<"protocol", "rdap">>)

-----------------------------------------------------------------------------
(* The walk                                                                *)

(* Mutant: the lists are read once the walk has run dry.                   *)
TakesListedLast == IF walk # <<>> THEN "walk" ELSE "listed"

(* nextEntry: which lane the next page comes from.                         *)
Takes ==
  CASE turn = "walk"   -> IF walk # <<>> THEN "walk" ELSE "listed"
    [] turn = "listed" -> IF listed # <<>> THEN "listed" ELSE "walk"

(* pages takes the page at its fetch; the code pushes it once rendered, and *)
(* reads it nowhere between.                                               *)
WalkLeft == Len(pages) < site.maxPages /\ (walk # <<>> \/ listed # <<>>)

Visit ==
  LET item == IF Takes = "walk" THEN Head(walk) ELSE Head(listed)
      got == Fetch(item.url)
  IN /\ step = "walk"
     /\ WalkLeft
     /\ ~aborted
     /\ turn' = IF Takes = "walk" THEN "listed" ELSE "walk"
     /\ walk' = IF Takes = "walk" THEN Tail(walk) ELSE walk
     /\ listed' = IF Takes = "walk" THEN listed ELSE Tail(listed)
     /\ entry' = item
     /\ pages' = Append(pages, [ url |-> item.url, depth |-> item.depth, from |-> item.from,
                                 final |-> got.final, chain |-> got.chain, failed |-> got.failed,
                                 html |-> got.html, links |-> got.links,
                                 nofollow |-> got.nofollow, declares |-> got.declares,
                                 icons |-> got.icons,
                                 rendered |-> "absent", mobile |-> "absent" ])
     /\ Paces
     /\ Requests
     /\ step' = "render"
     /\ UNCHANGED <<site, aborted, sitemapVars, queued, blocked, beyond, asides>>

Page == pages[Len(pages)]

(* renderOnce, desktop then phone: a pause and a visit of its own.  A      *)
(* render that fails is recorded as failing, also for having been aborted; *)
(* a browser that cannot open a context throws, and the crawl with it.     *)
Render(outcome) ==
  /\ step \in {"render", "mobile"}
  /\ Page.html
  /\ ~aborted
  /\ outcome \in {"rendered", "failed", "threw"}
  /\ IF step = "render" THEN site.render ELSE site.mobile
  /\ IF outcome = "threw" THEN step' = "fail" /\ UNCHANGED pages
     ELSE /\ pages' = [pages EXCEPT ![Len(pages)] =
                         IF step = "render" THEN [@ EXCEPT !.rendered = outcome]
                         ELSE [@ EXCEPT !.mobile = outcome]]
          /\ step' = IF step = "render" THEN "mobile" ELSE "page"
  /\ UNCHANGED <<site, aborted, first, unpaced, hop, late, sitemapVars, queueVars, turn,
                 entry, asides>>

RenderSkipped ==
  /\ step \in {"render", "mobile"}
  /\ ~Page.html \/ ~(IF step = "render" THEN site.render ELSE site.mobile)
  /\ step' = IF step = "render" THEN "mobile" ELSE "page"
  /\ UNCHANGED <<site, aborted, first, unpaced, hop, late, sitemapVars, queueVars, turn,
                 pages, entry, asides>>

(* Mutant: a page is where its redirects ended.                            *)
NamedByTarget == Page.final

NamedByEntry == entry.url

(* After onPage: the redirect target, then the links, go on the walk.      *)
Follow ==
  LET target == IF Page.chain = 0 THEN <<>> ELSE AtDepth(<<Page.final>>, entry.depth, NamedByEntry)
      links == AtDepth(Page.links, entry.depth + 1, NamedByEntry)
  IN /\ Queues(EnqueueAll(Queue, target \o links, "walk"))
     /\ step' = "walk"

WalkEnds ==
  /\ step = "walk"
  /\ ~WalkLeft
  /\ aborted => Len(pages) >= site.maxPages
  /\ step' = "after"
  /\ asides' = AfterWalk
  /\ UNCHANGED <<site, aborted, first, unpaced, hop, late, sitemapVars, queueVars, turn,
                 pages, entry>>

(* crawl returns.                                                          *)
Returns ==
  /\ step = "after"
  /\ asides = <<>>
  /\ step' = "finish"
  /\ UNCHANGED <<site, aborted, first, unpaced, hop, late, sitemapVars, queueVars, turn,
                 pages, entry, asides>>

NotReached ==
  { walk[i].url : i \in DOMAIN walk } \cup { listed[i].url : i \in DOMAIN listed }
    \cup ((beyond \ queued) \ site.disallow)

-----------------------------------------------------------------------------
(* The signal                                                              *)

Abort ==
  /\ ~aborted
  /\ step \notin {"returned", "threw", "cancelled"}
  /\ aborted' = TRUE
  /\ UNCHANGED <<site, step, first, unpaced, hop, late, sitemapVars, queueVars, turn,
                 pages, entry, asides>>

(* Mutant: a pause that is aborted neither ends nor throws.                *)
CancelsBetween ==
  /\ aborted
  /\ \/ step = "robots"
     \/ step = "sitemaps" /\ SitemapsLeft
     \/ step \in {"before", "after"} /\ asides # <<>>
     \/ step = "walk" /\ Len(pages) < site.maxPages
  /\ step' = "cancel"
  /\ UNCHANGED <<site, aborted, first, unpaced, hop, late, sitemapVars, queueVars, turn,
                 pages, entry, asides>>

(* stopIfCancelled and sleep: before robots.txt, a document, an aside, a   *)
(* page, and in every pause.                                               *)
Cancels ==
  /\ aborted
  /\ \/ step = "robots"
     \/ step = "sitemaps" /\ SitemapsLeft
     \/ step \in {"before", "after"} /\ asides # <<>>
     \/ step = "walk" /\ Len(pages) < site.maxPages
     \/ step \in {"render", "mobile"} /\ Page.html
          /\ (IF step = "render" THEN site.render ELSE site.mobile)
  /\ step' = "cancel"
  /\ UNCHANGED <<site, aborted, first, unpaced, hop, late, sitemapVars, queueVars, turn,
                 pages, entry, asides>>

=============================================================================
