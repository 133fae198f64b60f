--------------------------- MODULE ProbesIndexing --------------------------
(***************************************************************************)
(* packages/probes/src/probes: facets.ts (the parameter space and its      *)
(* filtered pages) and indexability.ts.                                    *)
(***************************************************************************)
EXTENDS Probing, FiniteSetsExt

----------------------------------------------------------------------------
(* facets.ts.  A URL the crawl knows: where it ended (fetched, left for    *)
(* want of budget, blocked by robots.txt), its route, and the keys of its  *)
(* query in the order written; one element stands for `many` such URLs.    *)

State(url) == [route |-> url.route, keys |-> {url.query[i] : i \in DOMAIN url.query}]
Session(url) == "session" \in State(url).keys
Filters(url) == State(url).keys \ {"session", "page", "search"} # {}

ExhaustionFloor == 10

ParameterCrawlSpace(s) ==
  LET crawlable == {u \in s.urls : u.where # "blocked"}
      queried == {u \in s.urls : u.query # <<>>}
      left == {u \in s.urls : u.where = "left"}
      fetchedRoutes == {u.route : u \in {v \in s.urls : v.where = "fetched"}}
      variants == {u \in left : u.query # <<>> /\ u.route \in fetchedRoutes}
      count(urls) == MapThenSumSet(LAMBDA u : u.many, urls)
      permuted == \E u, v \in queried \cap crawlable : u.query # v.query /\ State(u) = State(v)
      exhausted == count(variants) >= ExhaustionFloor /\ count(variants) * 2 >= count(left)
  IN IF queried = {} /\ ~s.campaignLinks THEN "not-applicable" ELSE
     Weigh((\E u \in crawlable : Session(u)) \/ permuted \/ exhausted,
           (\E u \in left : Filters(u)) \/ s.campaignLinks)

Treatment(p) ==
  IF p.noindex THEN "excluded"
  ELSE CASE p.canonical = "none" -> "uncontrolled"
         [] p.canonical = "self" -> "landing"
         [] OTHER                -> "consolidated"

(* A filtered page, and what its canonical names: itself, another page, or *)
(* one the crawl found cannot be indexed ("dead end").                     *)
FacetedNavControl(s) ==
  LET html == Read(s.pages)
      facet(u) == u.filtered /\ \A p \in html : p.product => p.route # u.route
      facets == {p \in html : ~p.redirected /\ facet(p)}
      shut == {u \in s.unread : facet(u)}
      blocked == {u \in shut : u.where = "blocked"}
      landings == {p \in facets : Treatment(p) = "landing" /\ ~p.paginated}
      pool(route) == {p \in landings : p.route = route} \cup
                     {p \in html : p.route = route /\ ~p.filtered /\ ~p.paginated}
      lookalikes == \E l \in landings : \E o \in pool(l.route) \ {l} :
                       l.title = o.title /\ l.title # "none"
      undecided == \E p \in facets :
        \/ Treatment(p) = "uncontrolled"
        \/ Treatment(p) \in {"excluded", "consolidated"} /\ p.listed
        \/ Treatment(p) = "consolidated" /\ p.canonical = "dead end"
  IN Ladder(<< <<facets = {} /\ shut = {}, "not-applicable">>,
               <<undecided \/ lookalikes \/ \E u \in blocked : u.listed, "fail">>,
               <<facets = {} /\ shut # blocked, "warn">>,
               <<blocked # {}, "warn">> >>, "pass")

----------------------------------------------------------------------------
(* indexability.ts                                                         *)

InternalSearchIndexability(s) ==
  LET searches == {p \in s.pages : p.search}
  IN Ladder(<< <<searches = {} /\ ~s.blockedSearch, "not-applicable">>,
               <<\E p \in searches : ~p.noindex, "fail">> >>, "pass")

NoLocale == <<"none", "none">>

SameLanguage(a, b) == a # b /\ a # NoLocale /\ b # NoLocale /\ a[1] = b[1]

(* A locale is <<language, region>>.  p.locale: the one the cluster gives  *)
(* the page, p.lang: the one the page declares, p.target: the one the      *)
(* cluster gives the page its canonical names.                             *)
LocaleCanonical(p) ==
  LET own == IF p.locale # NoLocale THEN p.locale ELSE p.lang
  IN OnHtml(p, Ladder(<< <<~p.ok \/ ~p.alternates, "not-applicable">>,
       <<p.canonical = "none", "warn">>,
       <<p.canonical = "unusable", "fail">>,
       <<p.canonical = "self", "pass">>,
       <<p.target # NoLocale /\ p.locale = NoLocale /\ p.lang = p.target, "not-applicable">>,
       <<SameLanguage(own, p.target), "warn">> >>, "fail"))

Gap(raw, rendered, min) == 2 * rendered > 3 * raw /\ rendered - raw >= min

RenderingStrategyClassifier(p) ==
  OnHtml(p, Ladder(<< <<p.render = "not asked for", "not-applicable">>,
                      <<p.render \in {"failed", "empty"}, "error">> >>,
    Weigh(\/ p.raw.noindex # p.rendered.noindex
          \/ p.raw.canonical # p.rendered.canonical
          \/ p.raw.words = 0 /\ p.rendered.words > 0,
          \/ Gap(p.raw.words, p.rendered.words, 50)
          \/ Gap(p.raw.links, p.rendered.links, 5)
          \/ p.rendered.jsonLd > p.raw.jsonLd)))

RawRenderedParity(p) ==
  OnHtml(p, Ladder(<< <<p.render = "not asked for", "not-applicable">>,
                      <<p.render \in {"failed", "empty"}, "error">> >>,
    Weigh(\/ p.raw.title # p.rendered.title
          \/ p.raw.h1 # p.rendered.h1
          \/ ~(p.rawTargets \subseteq p.renderedTargets),
          p.renderedTargets # p.rawTargets)))

XRobotsTagNonHtml(p) ==
  Ladder(<< <<~p.ok \/ p.markup \/ ~p.flagged, "not-applicable">>,
            <<p.header, "pass">> >>, "warn")

(* e.variants: what the crawl found at each variant's address.             *)
ExperimentCloakingDivergence(s) ==
  IF s.experiments = {} THEN "not-applicable" ELSE
  Weigh(\E e \in s.experiments : "duplicate" \in e.variants \/ (s.dated /\ e.retired),
        \E e \in s.experiments :
           "unreached" \in e.variants \/ ~s.dated \/ HeldRecord(e, s.dated))

(* s.environments: how each named origin answered a stranger.              *)
StagingProtection(s) ==
  IF s.environments = {} THEN "not-applicable" ELSE
  Weigh("open" \in s.environments,
        \/ s.environments \cap {"login", "not requested"} # {}
        \/ ~s.dated \/ HeldRecord(s.record, s.dated))

(* A canary URL against the most specific matrix row that fits it.         *)
CanaryDisagrees(u) ==
  \/ u.blocked /\ u.indexable
  \/ /\ ~u.blocked /\ u.reached
     /\ \/ ~u.statusAgrees
        \/ u.document /\ (u.indexable = u.noindex \/ ~u.canonicalAgrees)

IndexabilityCanary(s) ==
  Ladder(<< <<~s.supplied \/ ~s.matrix, "not-applicable">>,
            <<\E u \in s.urls : u.matched /\ CanaryDisagrees(u), "fail">>,
            <<\E u \in s.urls : ~u.matched \/ (~u.blocked /\ ~u.reached), "warn">>,
            <<~s.dated \/ HeldRecord(s.record, s.dated), "warn">> >>, "pass")

(* An inspected URL; one unknown to Google is skipped before any other     *)
(* question, and one robots.txt disallowed is not missed by the crawl.     *)
UrlInspection(s) ==
  LET known == {r \in s.inspections : ~r.unknown}
  IN Ladder(<< <<~s.exported, "not-applicable">>,
               <<\E r \in known : r.page = "indexable" /\ r.disagrees, "fail">>,
               <<s.inspections # {} /\ known = {}, "not-applicable">>,
               <<\E r \in known : r.page = "unreached", "warn">>,
               <<HeldRecord(s.record, s.dated), "warn">> >>, "pass")

(* Rows of the report on pages the crawl calls indexable and canonical.    *)
IndexationReview(s) ==
  LET compared == {r \in s.rows : r.page = "indexable"}
  IN Ladder(<< <<~s.exported, "not-applicable">>,
               <<\E r \in compared : r.reason \in {"noindex", "blocked"}, "fail">>,
               <<\E r \in compared : r.reason = "crawled, not indexed", "warn">>,
               <<HeldRecord(s.record, s.dated), "warn">> >>, "pass")

=============================================================================
