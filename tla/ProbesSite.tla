----------------------------- MODULE ProbesSite ----------------------------
(***************************************************************************)
(* packages/probes/src/probes/site.ts, the detectors that read the crawl   *)
(* as a whole: sitemaps, links, locales, series, hosts and the URL matrix. *)
(* A URL is a member of a small set; "none" is no URL.  The supplied       *)
(* records of the same file are in ProbesRecords.                          *)
(***************************************************************************)
EXTENDS Probing

RobotsTxt(s) ==
  Ladder(<< <<s.robots = "no answer", "fail">>,
            <<s.robots \in {"5xx", "429"}, "fail">>,
            <<s.robots = "absent", "warn">>,
            <<s.disallowsAll, "fail">>,
            <<s.pastParseLimit, "warn">> >>, "pass")

----------------------------------------------------------------------------
(* Sitemaps.  d.answers: the document was read with a status below 400;    *)
(* an entry's answer is that of the page the crawl fetched for it.         *)

SITEMAP_URL_LIMIT == 50000

SitemapValidity(s) ==
  Ladder(<< <<s.entries = {} /\ \E d \in s.documents : d.declared /\ ~d.answers, "fail">>,
            <<s.entries = {}, "warn">>,
            <<\E d \in s.documents : d.urls > SITEMAP_URL_LIMIT, "fail">>,
            <<\E e \in s.entries : ~e.onSite \/ e.answer \in {"none", "error"}, "fail">> >>, "pass")

SitemapCanonicalAgreement(s) ==
  Ladder(<< <<~s.sitemap, "not-applicable">>,
            <<\E p \in Read(s.pages) : p.listed /\ p.canonical \notin {"none", "unusable", p.url},
              "fail">> >>, "pass")

(* A feed of recent articles or watch pages lists nothing else by design.  *)
IndexBloat(s) ==
  LET indexable == {p \in Read(s.pages) : ~p.noindex}
      unlisted == {p \in indexable : ~p.listed}
      listing == {d \in s.documents : d.kind # "empty"}
      feedsOnly == listing # {} /\ \A d \in listing : d.kind = "feed"
  IN Ladder(<< <<indexable = {} \/ ~s.sitemap, "not-applicable">>,
               <<\E d \in s.documents : d.truncated, "error">>,
               <<feedsOnly /\ unlisted # {}, "warn">>,
               <<4 * Cardinality(unlisted) > Cardinality(indexable), "fail">>,
               <<unlisted # {}, "warn">> >>, "pass")

----------------------------------------------------------------------------
(* Links.  p.links is a sequence: a page may link to another twice.        *)

(* An orphan is a page no page read links to; a linked page the walk left  *)
(* unread may be the one that does.                                        *)
OrphanPages(s) ==
  LET linked == UNION {{p.links[i] : i \in DOMAIN p.links} : p \in s.pages}
      orphans == {p \in Read(s.pages) : p.url \notin linked \cup s.seeds}
  IN Ladder(<< <<orphans = {}, "pass">>,
               <<s.notReached \cap linked # {}, "warn">> >>, "fail")

ClickDepth(s) ==
  IF Read(s.pages) = {} THEN "not-applicable" ELSE
  Weigh(FALSE, \E p \in Read(s.pages) : p.depth > 3)

InternalLinking(s) ==
  LET pages == Read(s.pages)
      inbound(p) == UNION {{<<q.url, i>> : i \in {j \in DOMAIN q.links : q.links[j] = p.url}} :
                             q \in {r \in pages : r.url # p.url}}
  IN IF Cardinality(pages) < 2 THEN "not-applicable" ELSE
     Weigh(FALSE, \E p \in pages : Cardinality(inbound(p)) < 2)

----------------------------------------------------------------------------
(* hreflang.  p.hreflang: a sequence of entries, each its tag, the language*)
(* and region the tag names, the URL it points at and how it was written.  *)

Annotated(pages) == {p \in Read(pages) : p.hreflang # <<>>}
Entries(p) == {p.hreflang[i] : i \in DOMAIN p.hreflang}
Locales(p) == {e \in Entries(p) : e.tag # "x-default"}

HreflangClusterQa(s) ==
  LET member(p) == p.canonical \in {"none", "unusable", p.url, p.landed}
      annotated == {p \in Annotated(s.pages) : member(p)}
      claims(p) == {e.url : e \in {f \in Entries(p) : f.onSite}}
      named(p) == claims(p) \ {p.url}
      oneWay(p) == \E q \in Read(s.pages) : /\ q.url \in named(p)
                                            /\ q \notin annotated \/ p.url \notin claims(q)
      known == {p.url : p \in Read(s.pages)}
  IN Ladder(<< <<annotated = {}, "not-applicable">>,
               <<\E p \in annotated : oneWay(p), "fail">>,
               <<\E p \in annotated : \A e \in Entries(p) : e.url # p.url, "fail">>,
               <<\E p \in annotated : p.noindex, "fail">>,
               <<\E p \in annotated : \E e \in Locales(p) : ~e.shaped, "fail">>,
               <<\E p \in annotated : ~(named(p) \subseteq known), "warn">>,
               <<\A p \in annotated : Locales(p) = Entries(p), "warn">> >>, "pass")

HreflangImplementation(s) ==
  LET annotated == Annotated(s.pages)
      on(p, url) == {e \in Locales(p) : e.url = url}
      defaults(p) == {i \in DOMAIN p.hreflang : p.hreflang[i].tag = "x-default"}
      urls(p) == {e.url : e \in Locales(p)}
      invalid(p) == \E e \in Locales(p) : e.code = "invalid"
      conflicting(p) == \E e, f \in Locales(p) : e.tag = f.tag /\ e.url # f.url
      shared(p, url) == \E e, f \in on(p, url) : e.language # f.language
      regional(p, url) == \E e, f \in on(p, url) :
                            e.tag # f.tag /\ e.region # "none" /\ f.region # "none"
      tags(p) == {e.tag : e \in Entries(p)}
  IN Ladder(<< <<annotated = {}, IF s.multilingual THEN "fail" ELSE "not-applicable">>,
               <<\E p \in annotated : invalid(p), "fail">>,
               <<\E p \in annotated : \E e \in Entries(p) : e.relative, "fail">>,
               <<\E p \in annotated : conflicting(p), "fail">>,
               <<\E p \in annotated : \E u \in urls(p) : shared(p, u), "fail">>,
               <<\E p \in annotated : Cardinality(defaults(p)) > 1, "fail">>,
               <<\E p \in annotated : \E e \in Locales(p) : e.code = "unsupported", "warn">>,
               <<\E p \in annotated : \E u \in urls(p) : regional(p, u), "warn">>,
               <<\E p \in annotated : Cardinality(defaults(p)) = 1 /\ Cardinality(tags(p)) <= 2,
                 "warn">> >>, "pass")

(* A pair of pages one of which names the other as another language.       *)
LocaleContentParity(s) ==
  LET own(p) == LET self == SelectSeq(p.hreflang, LAMBDA e : e.tag # "x-default" /\ e.url = p.url)
                IN IF self = <<>> THEN p.lang ELSE Head(self).language
      pairs == {<<p, q>> \in Annotated(s.pages) \X Read(s.pages) :
                  /\ p.url # q.url
                  /\ \E e \in Locales(p) : e.url = q.url /\ e.language \notin {"none", own(p)}}
      comparable == {pq \in pairs : Len(pq[1].headings) >= 2 /\ Len(pq[2].headings) >= 2}
  IN Ladder(<< <<Annotated(s.pages) = {}, IF s.multilingual THEN "warn" ELSE "not-applicable">>,
               <<\E pq \in comparable : pq[1].headings = pq[2].headings, "fail">>,
               <<comparable = {}, "warn">> >>, "pass")

----------------------------------------------------------------------------
(* A paginated link, and what the crawl fetched of its target.             *)

PaginationCrawlPath(s) ==
  LET reached == {l \in s.series : l.fetched}
  IN Ladder(<< <<~s.html \/ s.series = {}, "not-applicable">>,
               <<\E l \in s.series : l.fragmentOnly, "fail">>,
               <<\E l \in reached : l.answer = "error", "fail">>,
               <<reached = {}, "warn">>,
               <<\E l \in reached : l.noindex, "fail">>,
               <<\E l \in reached : l.canonical = "unpaged", "fail">> >>, "pass")

(* The spellings of the site's own address.  Two hosts that serve the page *)
(* and name one canonical are a decision, not a defect.                    *)
HostRedirect(s) ==
  LET answered == {v \in s.variants : v.answered}
      canonicals == {v.canonical : v \in answered}
  IN Ladder(<< <<answered = {}, "not-applicable">>,
               <<\E v \in answered : v.status >= 400, "fail">>,
               <<\E v \in answered : ~v.https, "fail">>,
               <<\E v, w \in answered : v.landed # w.landed,
                 IF Cardinality(canonicals) = 1 /\ "none" \notin canonicals THEN "warn" ELSE "fail">>,
               <<\E v \in answered : v.hops > 1, "warn">>,
               <<answered # s.variants, "warn">> >>, "pass")

FaviconSiteName(s) ==
  LET icons == s.icons
      measured == {i \in icons : i.shape # "unmeasured"}
  IN Ladder(<< <<~s.html, "not-applicable">>,
               <<~s.iconDeclared, "fail">>,
               <<Cardinality(s.names) # 1, "fail">>,
               <<icons = {}, "warn">>,
               <<\E i \in icons : ~i.ok, "fail">>,
               <<\E i \in icons : ~i.image, "fail">>,
               <<\E i \in measured : i.shape = "oblong", "fail">>,
               <<measured = {}, "warn">> >>, "pass")

(* An agent of the policy: its stance, what robots.txt says of it, and the *)
(* answer to a request simulated under its name ("none": no request).      *)
AiCrawlerDirectiveVerify(s) ==
  LET tested == {a \in s.agents : a.answer # "none"}
  IN Ladder(<< <<s.agents = {}, "not-applicable">>,
               <<\E a \in s.agents : a.allowed # (a.stance = "allow"), "fail">>,
               <<\E a \in tested : a.stance = "allow" /\ a.answer = "turned away", "fail">>,
               <<\E a \in tested : a.userDirected /\ a.stance = "disallow" /\ a.answer = "served",
                 "warn">>,
               <<tested = {} /\ \E a \in s.agents : ~a.token, "warn">> >>, "pass")

----------------------------------------------------------------------------
(* The shape of the URL space.                                             *)

UrlConvention(s) ==
  IF Read(s.pages) = {} THEN "not-applicable" ELSE
  Weigh(FALSE, \E p \in Read(s.pages) : p.uppercase \/ p.underscore \/ p.segments > 4)

(* The root and a path with a file extension are subject to no slash policy. *)
HostSlashPolicy(s) ==
  LET slashes == {p.slash : p \in Read(s.pages)} \ {"exempt"}
  IN IF Read(s.pages) = {} THEN "not-applicable" ELSE
     Weigh(Cardinality({p.host : p \in Read(s.pages)}) > 1 \/ Cardinality(slashes) > 1, FALSE)

ThirdPartyBudget(s) ==
  LET hosts == UNION {p.scriptHosts : p \in Read(s.pages)}
  IN IF Read(s.pages) = {} THEN "not-applicable" ELSE
     Weigh(Cardinality(hosts) > 10, hosts # {})

(* matrixMatcher, and the most specific of the rows that fit a page: an    *)
(* exact URL beats a glob, a longer glob a shorter one, the first of two.  *)
Fits(row, page) == page.url \in row.covers
Specificity(row) == IF row.exact THEN 99 ELSE row.length
MostSpecific(rows, page) ==
  LET hits == {i \in DOMAIN rows : Fits(rows[i], page)}
      beats(i, j) == \/ Specificity(rows[i]) > Specificity(rows[j])
                     \/ Specificity(rows[i]) = Specificity(rows[j]) /\ i <= j
  IN IF hits = {} THEN 0 ELSE CHOOSE i \in hits : \A j \in hits : beats(i, j)

UrlInventoryBuilder(s) ==
  LET rows == SelectSeq(s.matrix, LAMBDA row : ~row.environment)
      answering == {p \in s.pages : p.answered /\ p.onSite}
      examples(i) == {p \in answering : MostSpecific(rows, p) = i}
      asItself(p) == p.html /\ p.ok /\ ~p.redirected
      expected(row, p) == IF row.canonical = "self" THEN p.url ELSE row.canonical
      disagrees(row, p) == \/ row.priority /\ p.first # row.status
                           \/ asItself(p) /\ row.indexable = p.noindex
                           \/ asItself(p) /\ p.canonical # expected(row, p)
      wrong(i) == \/ examples(i) = {} /\ rows[i].priority
                  \/ \E p \in examples(i) : disagrees(rows[i], p)
  IN Ladder(<< <<Len(rows) = 0, "not-applicable">>,
               <<\E i \in DOMAIN rows : wrong(i), "fail">>,
               <<\E p \in answering : MostSpecific(rows, p) = 0, "warn">>,
               <<\E i \in DOMAIN rows : examples(i) = {} \/ HeldRecord(rows[i], s.dated), "warn">> >>,
            "pass")

=============================================================================
