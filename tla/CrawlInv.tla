------------------------------ MODULE CrawlInv ------------------------------
(***************************************************************************)
(* The invariants behind CrawlSink's properties: where the walk keeps each *)
(* URL, and what the database has of each page.                            *)
(***************************************************************************)
EXTENDS CrawlSink

AtSitemaps == {"open", "robots", "sitemaps"}
AtPage == {"render", "mobile", "page", "write"}
AtEnd == {"after", "finish", "completing", "returned"}
Walking == {"before", "walk"} \cup AtPage \cup AtEnd
Failing == {"fail", "failing", "threw", "cancel", "cancelling", "cancelled", "died"}

Lane == {"walk", "listed"}

Visited ==
  [ url : Url, depth : Nat, from : Url \cup {"none"}, final : Url,
    chain : 0..MaxRedirects + 1, failed : BOOLEAN, html : BOOLEAN, links : Seq(Url),
    nofollow : SUBSET Url, declares : SUBSET Url, icons : Nat,
    rendered : {"absent", "rendered", "failed"}, mobile : {"absent", "rendered", "failed"} ]

Frontier ==
  [ walk : Seq(Entry), listed : Seq(Entry), queued : SUBSET Url, blocked : Seq(Url),
    beyond : SUBSET Url ]

Row == [ url : Url, parent : Url \cup {"none"}, depth : Nat ]
Edge == [ from : Url, to : Url, resolved : BOOLEAN ]

(* The types, and the state before the walk.                               *)
WalkTypeOK ==
  /\ site \in Site
  /\ step \in AtSitemaps \cup Walking \cup Failing
  /\ aborted \in BOOLEAN /\ first \in BOOLEAN /\ unpaced \in Nat
  /\ lanes \in Seq(Seq(Document)) /\ laneTurn \in 0..Len(lanes)
  /\ served \in [DOMAIN lanes -> Nat] /\ seen \subseteq Document /\ declared \in Seq(Url)
  /\ Queue \in Frontier
  /\ turn \in {"walk", "listed"}
  /\ pages \in Seq(Visited)
  /\ entry \in Entry \cup {NoEntry}

SinkTypeOK ==
  /\ crawlRow \in {"none", "running", "complete", "failed", "cancelled"}
  /\ rows \in SUBSET Row /\ edges \in SUBSET Edge
  /\ renders \in SUBSET (Url \X Mode) /\ blobs \in SUBSET (Url \X Mode)
  /\ ids \in SUBSET Url
  /\ faults \in Nat

NotYetWalking ==
  /\ step \in {"open", "robots"} => lanes = <<>>
  /\ step \in AtSitemaps =>
       /\ walk = <<>> /\ listed = <<>> /\ blocked = <<>>
       /\ queued = {} /\ beyond = {}
  /\ step \in AtSitemaps \cup {"before"} => pages = <<>> /\ turn = "walk"

(* The page being worked on is the last one taken.                         *)
OnePage ==
  step \in AtPage =>
    /\ pages # <<>>
    /\ entry = [url |-> Page.url, depth |-> Page.depth, from |-> Page.from]

Typed == WalkTypeOK /\ SinkTypeOK /\ NotYetWalking /\ OnePage

-----------------------------------------------------------------------------
(* The sitemaps take turns: r rounds are over, and in this one the lanes   *)
(* up to laneTurn have been served.                                        *)
TurnsTaken(r) ==
  \A k \in DOMAIN lanes :
    LET due == IF k <= laneTurn THEN r + 1 ELSE r
    IN served[k] <= due /\ (lanes[k] # <<>> => served[k] = due)

TakesTurns == step = "sitemaps" => \E r \in Nat : TurnsTaken(r)

-----------------------------------------------------------------------------
(* A URL the walk knows is in one place: fetched, in one of the two lanes, *)
(* or kept out by robots.txt.                                              *)
Urls(s) == { s[i].url : i \in DOMAIN s }
Once(s) == \A i, k \in DOMAIN s : s[i].url = s[k].url => i = k

Placed(q, fetched) ==
  /\ Once(q.walk) /\ Once(q.listed)
  /\ Urls(q.walk) \cap Urls(q.listed) = {}
  /\ (Urls(q.walk) \cup Urls(q.listed)) \cap (Elements(q.blocked) \cup fetched) = {}
  /\ Elements(q.blocked) \cap fetched = {}
  /\ q.queued = Urls(q.walk) \cup Urls(q.listed) \cup Elements(q.blocked) \cup fetched

InOnePlace == Placed(Queue, Fetched) /\ Once(pages)

Shallow == \A item \in Elements(walk) \cup Elements(listed) : item.depth <= site.maxDepth
PagesShallow == \A i \in DOMAIN pages : pages[i].depth <= site.maxDepth

(* The pages whose links have been followed, and what they led to.         *)
Followed == IF step \in AtPage THEN 1..Len(pages) - 1 ELSE DOMAIN pages

LeadsTo(page) == Elements(page.links) \cup (IF page.chain > 0 THEN {page.final} ELSE {})
LeadsWithin(page) ==
  (IF page.depth < site.maxDepth THEN Elements(page.links) ELSE {})
    \cup (IF page.chain > 0 THEN {page.final} ELSE {})

FollowedAll ==
  step \in Walking =>
    /\ queued \cup beyond =
         { u \in Elements(Seeds) \cup Elements(declared)
                   \cup UNION { LeadsTo(pages[i]) : i \in Followed } : OnSite(u) }
    /\ \A i \in Followed : \A u \in LeadsWithin(pages[i]) : OnSite(u) => u \in queued

(* The walk ends with the budget or with the last URL.                     *)
WalkedOut == step \in AtEnd => ~WalkLeft

(* The lists' lane holds what no seed and no page had led to, and every    *)
(* other page has come from it.                                            *)
FromLists == { i \in DOMAIN pages : pages[i].from = "none" /\ pages[i].url \notin Elements(Seeds) }

ListsShare ==
  /\ \A item \in Elements(listed) : item.from = "none" /\ item.url \notin Elements(Seeds)
  /\ listed # <<>> =>
       Len(pages) <= 2 * Cardinality(FromLists) + (IF turn = "listed" THEN 1 ELSE 0)

-----------------------------------------------------------------------------
(* What the database has.                                                  *)

(* item is the step away from a written page it says it is.                *)
Parented(item) ==
  item.from # "none" =>
    /\ item.from \in ids
    /\ \E parent \in rows : /\ parent.url = item.from
                            /\ item.depth \in {parent.depth, parent.depth + 1}

Lineage ==
  /\ ids \subseteq Written
  /\ \A item \in Elements(walk) \cup Elements(listed) : Parented(item)
  /\ \A i \in DOMAIN pages : Parented(pages[i])
  /\ \A r \in rows :
       \E i \in DOMAIN pages :
         /\ r.url = pages[i].url /\ r.depth = pages[i].depth
         /\ pages[i].from # "none" => r.parent = pages[i].from

(* Every page that was followed is written, and its bodies before it.      *)
WrittenInOrder ==
  /\ Written \subseteq Fetched
  /\ \A i \in 1..Len(pages) - 1 : pages[i].url \in Written
  /\ step \in Walking \ AtPage => Fetched \subseteq Written
  /\ renders \subseteq blobs
  /\ step = "write" => { <<entry.url, m>> : m \in Captures } \subseteq blobs

Resolving ==
  /\ \A e \in edges : e.resolved => e.to \in Written
  /\ (step \in {"completing", "returned"} \/ crawlRow = "complete") =>
       /\ Written = Fetched
       /\ \A e \in edges : e.to \in Written => e.resolved
  /\ crawlRow = "complete" => step \in {"returned", "fail", "failing", "threw", "died"}

-----------------------------------------------------------------------------
(* The requests that did not wait, and those that went out too late: the   *)
(* later ones of the one fetch that the abort came in.                     *)
Paced ==
  /\ hop \in 0..MaxRedirects + 1 /\ late \in Nat
  /\ first => unpaced = 0
  /\ unpaced <= 1
  /\ ~aborted => late = 0
  /\ hop > 0 => late <= hop - 1
  /\ late <= MaxRedirects

=============================================================================
