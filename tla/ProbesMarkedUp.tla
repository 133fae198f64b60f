-------------------------- MODULE ProbesMarkedUp ---------------------------
(***************************************************************************)
(* packages/probes/src/probes: metadata.ts, media.ts, video.ts, news.ts,   *)
(* paywall.ts, language-tags.ts and accessibility.ts.                      *)
(***************************************************************************)
EXTENDS Probing

----------------------------------------------------------------------------
(* metadata.ts                                                             *)

Canonicalization(p) ==
  OnHtml(p, Ladder(<< <<p.canonical = "none", "warn">>,
                      <<p.canonical = "unusable", "fail">>,
                      <<p.canonical = "self", "pass">> >>, "warn"))

MetaDescription(p) ==
  OnHtml(p, Ladder(<< <<p.noindex, "not-applicable">>,
                      <<p.length = 0, "fail">>,
                      <<p.length < 50 \/ p.length > 160, "warn">> >>, "pass"))

(* p.others: the titles of the other crawled pages.                        *)
TitleTag(p) ==
  OnHtml(p, Ladder(<< <<p.title = "none", "fail">>,
                      <<p.title \in p.others, "fail">>,
                      <<p.title = "over 60 characters", "warn">> >>, "pass"))

SocialMetadata(p) ==
  LET missing == {"og:title", "og:description", "og:image", "og:url"} \ p.openGraph
  IN OnHtml(p, Ladder(<< <<Cardinality(missing) = 4, "fail">>,
                         <<missing # {}, "warn">> >>, "pass"))

BreadcrumbListSchema(p) ==
  OnHtml(p, Ladder(<< <<~p.hierarchical \/ p.home, "not-applicable">>,
                      <<p.unparsed, "fail">>,
                      <<"BreadcrumbList" \in p.types, "pass">> >>, "fail"))

(* p.crumbs: what became of the address of each linked crumb.  Only one    *)
(* the crawl fetched is evidence either way.                               *)
BreadcrumbNavigation(p) ==
  OnHtml(p, Ladder(<< <<~p.hierarchical \/ p.home, "not-applicable">>,
                      <<~p.trail \/ p.crumbs = {}, "fail">>,
                      <<"broken" \in p.crumbs, "fail">>,
                      <<"resolves" \notin p.crumbs, "warn">> >>, "pass"))

(* A node of a type TYPE_RULES holds: properties it must carry, one of a   *)
(* set it may need, and a subject the page must show.                      *)
SchemaDefect(node) == node.judged /\ (~node.required \/ ~node.oneOf \/ ~node.subjectShown)

SchemaEligibilityMatrix(s) ==
  LET html == {p \in s.pages : p.html}
      nodes == UNION {p.nodes : p \in html}
  IN Ladder(<< <<~s.flagged \/ html = {}, "not-applicable">>,
               <<\E p \in html : p.unparsed \/ p.contextless \/ \E n \in p.nodes : SchemaDefect(n), "fail">>,
               <<nodes = {}, "fail">>,
               <<\E n \in nodes : n.judged /\ n.retired, "warn">> >>, "pass")

----------------------------------------------------------------------------
(* accessibility.ts                                                        *)

ContentAccessibility(p) ==
  OnHtml(p, IF ~p.ok THEN "not-applicable" ELSE
    Weigh(\/ "nameless" \in p.links
          \/ \E i \in p.images : ~i.alt /\ ~i.exempt
          \/ ~p.language,
          \/ "generic" \in p.links
          \/ \E t \in p.tables : ~t.presentational /\ ~t.headers /\ t.rows >= 2 /\ t.columns >= 2
          \/ \E m \in p.media : m.video /\ ~m.ambient /\ ~m.captions))

(* p.axe: whether axe ran on the rendered page; p.impacts: what it found.  *)
AxeAccessibility(p) ==
  OnHtml(p, Ladder(<< <<p.axe = "not asked for", "not-applicable">>,
                      <<p.axe = "failed", "error">> >>,
                   Weigh(p.impacts \cap {"critical", "serious"} # {}, p.impacts # {})))

ManualA11yEvaluation(s) ==
  LET audited == {p \in s.pages : p.axe = "ran"}
  IN Ladder(<< <<~s.supplied, "not-applicable">>,
               <<"open" \in s.blockers, "fail">>,
               <<s.claims /\ \E p \in audited : p.critical, "fail">>,
               <<HeldRecord(s.record, s.dated), "warn">>,
               <<s.claims /\ audited = {}, "warn">> >>, "pass")

(* Each compared page: the violation ids of one impact, before and now.    *)
A11yRegressionSampling(s) ==
  LET compared == {p \in s.pages : p.axe = "ran" /\ p.axeBefore = "ran"}
      CountOf(field) ==
        Cardinality({<<p, v>> \in compared \X {"v1", "v2"} : v \in p[field]})
  IN Ladder(<< <<~s.previous \/ compared = {}, "not-applicable">>,
               <<\E p \in compared : p.critical \ p.criticalBefore # {}, "fail">>,
               <<CountOf("serious") > CountOf("seriousBefore"), "warn">> >>, "pass")

LostHalf(desktop, mobile) == desktop >= 10 /\ mobile * 2 < desktop

(* p.desktop, p.phone: the two extractions; the desktop one is the render  *)
(* where there is one, else the raw page.                                  *)
MobileJourneyQa(p) ==
  LET drops(signal) == signal \in p.desktop.signals /\ signal \notin p.phone.signals
  IN OnHtml(p, Ladder(<< <<p.mobile = "not asked for", "not-applicable">>,
                         <<p.mobile \in {"failed", "no html"}, "error">> >>,
       Weigh(drops("title") \/ drops("h1") \/ drops("canonical")
               \/ (p.phone.noindex /\ ~p.desktop.noindex),
             ~p.phone.viewport \/ LostHalf(p.desktop.words, p.phone.words)
               \/ LostHalf(p.desktop.links, p.phone.links))))

----------------------------------------------------------------------------
(* media.ts                                                                *)

ImageAltQuality(p) ==
  OnHtml(p, IF p.alts = {} THEN "not-applicable"
            ELSE Weigh("missing" \in p.alts, "filename" \in p.alts))

ImageDimensions(p) ==
  OnHtml(p, Ladder(<< <<p.images = {}, "not-applicable">>,
                      <<\A i \in p.images : i.width /\ i.height, "pass">> >>, "fail"))

ResponsiveMedia(p) ==
  OnHtml(p, Weigh(~p.viewport, "fixed" \in p.images))

(* p.paints: the largest paint a render named, at each viewport.           *)
LcpNotLazy(p) ==
  OnHtml(p, Ladder(<< <<\E paint \in p.paints : paint.img /\ paint.lazy, "fail">>,
                      <<p.paints # {}, "pass">>,
                      <<p.first = "none", "not-applicable">>,
                      <<p.first = "lazy", "warn">> >>, "pass"))

MediaAlternatives(p) ==
  LET media == {m \in p.media : ~m.ambient}
  IN OnHtml(p, IF media = {} THEN "not-applicable" ELSE
       Weigh(\E m \in media : ~m.captions /\ ~m.fallback, \E m \in media : ~m.captions))

ImageDiscoverability(p) ==
  OnHtml(p, Ladder(<< <<p.image \in {"undeclared", "unresolvable"}, "not-applicable">>,
                      <<p.image = "disallowed", "fail">> >>, "pass"))

(* An article without an og:image is left there: its preview is not asked. *)
PublisherDiscoverReadiness(s) ==
  LET articles == {p \in Read(s.pages) : p.article}
  IN IF articles = {} THEN "not-applicable" ELSE
     Weigh(\E a \in articles : a.image /\ (a.width = "under 1200" \/ a.preview = "not large"),
           \E a \in articles : ~a.image)

----------------------------------------------------------------------------
(* video.ts.  A page's video: its players, each with the id its source     *)
(* names ("unstated" when script sets it), and its VideoObject nodes.      *)

Players(p) == {m \in p.media : m.kind = "player" \/ (m.kind = "video" /\ ~m.ambient)}
CarriesVideo(p) == p.html /\ (Players(p) # {} \/ p.nodes # {})

VideoWatchPage(p) ==
  OnHtml(p, Ladder(<< <<~CarriesVideo(p) \/ p.product \/ p.article, "not-applicable">>,
                      <<p.noindex, "fail">>,
                      <<(\E m \in Players(p) : m.blocked) \/ "blocked" \in p.thumbnails, "fail">>,
                      <<p.canonicalElsewhere \/ p.thumbnails = {} \/ ~p.h1 \/ p.words < 50, "warn">> >>,
                   "pass"))

VideoObjectDefect(node) ==
  ~node.required \/ node.plays = "nothing" \/ ~node.isoDates

VideoObjectSchema(p) ==
  LET played == {m.source : m \in Players(p)} \ {"unstated"}
      declared == {n.plays : n \in p.nodes} \ {"nothing"}
  IN OnHtml(p, Ladder(<< <<~CarriesVideo(p), "not-applicable">>,
       <<p.nodes = {} /\ (p.product \/ p.article), "not-applicable">>,
       <<p.nodes = {}, "fail">>,
       <<\E n \in p.nodes : VideoObjectDefect(n), "fail">>,
       <<played # {} /\ declared # {} /\ played \cap declared = {}, "warn">>,
       <<Cardinality(Players(p)) > Cardinality(p.nodes), "warn">> >>, "pass"))

(* An entry names its page: whether the crawl read it and found no video.  *)
VideoSitemap(s) ==
  Ladder(<< <<\E d \in s.documents : d.named /\ ~d.served, "fail">>,
            <<\E d \in s.documents : d.truncated /\ d.entries, "error">>,
            <<s.entries = {}, "not-applicable">> >>,
     Weigh(\E e \in s.entries : ~e.complete \/ e.blocked,
           \E e \in s.entries : e.silentPage \/ e.otherHost))

----------------------------------------------------------------------------
(* language-tags.ts: a tag is a language and the subtags after it.         *)

CheckLanguageTag(tag) ==
  LET rest == IF tag.rest # <<>> /\ Head(tag.rest) = "script" THEN Tail(tag.rest) ELSE tag.rest
      region == IF rest = <<>> THEN "none" ELSE Head(rest)
      over == IF region \in {"country", "no country", "M.49"} THEN Tail(rest) ELSE rest
  IN Ladder(<< <<tag.language # "ISO 639-1", "bad">>,
               <<region = "no country" \/ over # <<>>, "bad">>,
               <<region = "M.49", "warning">> >>, "ok")

----------------------------------------------------------------------------
(* news.ts; times in hours from the moment the sitemap was served.         *)

(* A zoned datetime is an instant; a date is a day somewhere on Earth.     *)
PublicationSpan(date) ==
  IF date.zoned THEN [earliest |-> date.at, latest |-> date.at]
  ELSE [earliest |-> date.at - 14, latest |-> date.at + 36]

CheckNewsLanguage(code) ==
  Ladder(<< <<code.shape \in {"zh-cn or zh-tw", "three letters"}, "ok">>,
            <<CheckLanguageTag(code.tag) = "bad", "fail">>,
            <<code.shape = "two letters", "ok">> >>, "warn")

NewsWindow == 48
WindowGrace == 24
ClockSkew == 1

NewsDate(e) ==
  LET span == PublicationSpan(e.date)
      age == -span.latest
  IN Ladder(<< <<e.date.form = "absent", "ok">>,
               <<e.date.form = "malformed", "fail">>,
               <<span.earliest > ClockSkew, "fail">>,
               <<age > NewsWindow + WindowGrace, "fail">>,
               <<age > NewsWindow, "warn">> >>, "ok")

NewsSitemap(s) ==
  LET says(e) == {IF e.complete THEN "ok" ELSE "fail",
                  IF e.otherHost THEN "warn" ELSE "ok",
                  IF e.language.shape = "none" THEN "ok" ELSE CheckNewsLanguage(e.language),
                  NewsDate(e)}
      said == UNION {says(e) : e \in s.entries}
  IN Ladder(<< <<\E d \in s.documents : d.named /\ ~d.served, "fail">>,
               <<\E d \in s.documents : d.crowded, "fail">>,
               <<\E d \in s.documents : d.truncated /\ d.entries, "error">>,
               <<s.entries = {}, "not-applicable">>,
               <<\E e \in s.entries : e.date.form = "W3C" /\ ~e.fetchTimeKnown, "error">> >>,
            Weigh("fail" \in said, "warn" \in said))

(* A page offered as news: the feed lists it or its type says so.          *)
NewsArticlePolicy(s) ==
  LET news == {p \in Read(s.pages) : p.listed \/ p.newsArticle}
      articles == {p \in news : ~p.truncated}
      identified(by) == \E p \in Read(s.pages) : by \in p.identifies
      publisher == identified("publisher") \/ \E a \in articles : a.namesPublisher
  IN Ladder(<< <<articles = {} /\ (news # {} \/ s.feed), "error">>,
               <<articles = {}, "not-applicable">> >>,
            Weigh(\E a \in articles : (a.listed /\ a.redated) \/ (a.sponsored /\ ~a.discloses),
                  \/ \E a \in articles : ~a.author \/ ~a.dated
                  \/ ~identified("contact") \/ ~publisher))

----------------------------------------------------------------------------
(* paywall.ts                                                              *)

(* isAccessibleForFree: "absent", "true or false", or "unreadable".        *)
PaywallDefect(node) ==
  \/ node.access = "unreadable"
  \/ node.parts # {} /\ node.access = "absent"
  \/ \E part \in node.parts : ~part.selector \/ part.access # "true or false"

(* A node declares the access itself or through sections that do.          *)
PaywallAccessModel(s) ==
  LET nodes == UNION {{n \in p.nodes : n.access # "absent" \/ n.parts # {}} : p \in Read(s.pages)}
  IN Ladder(<< <<~s.flagged \/ nodes = {}, "not-applicable">>,
               <<\E n \in nodes : PaywallDefect(n), "fail">> >>, "pass")

=============================================================================
