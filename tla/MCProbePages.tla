---------------------------- MODULE MCProbePages ---------------------------
(***************************************************************************)
(* What the audits of ProbeAudits may hold for the detectors of            *)
(* ProbesMarkedUp, ProbesContent, ProbesDelivery and ProbesIndexing: a     *)
(* sound page or site, the values its facts may have instead (two of them  *)
(* at a time), and the elements an audit may hold besides.                 *)
(***************************************************************************)
EXTENDS Naturals, Integers, Sequences, TLC

Y == {TRUE}
N == {FALSE}
Owned == [owned |-> TRUE, overdue |-> FALSE]
Unowned == {[owned |-> FALSE, overdue |-> FALSE]}

Near(good, alt) ==
  {good} \cup UNION {{[good EXCEPT ![f] = v] : v \in alt[f]} : f \in DOMAIN alt}
Audits(good, alt) ==
  [bases |-> UNION {Near(x, alt) : x \in Near(good, alt)}, finds |-> {}, misses |-> {},
   cuts |-> {}, ordered |-> {}, keyed |-> {}]
Of(field, elements) == {<<field, e>> : e \in elements}
Html(page) == [html |-> TRUE, ok |-> TRUE] @@ page

----------------------------------------------------------------------------
Crumbed == Html([hierarchical |-> TRUE, home |-> FALSE])
SchemaNode == [judged |-> TRUE, required |-> TRUE, oneOf |-> TRUE, subjectShown |-> TRUE, retired |-> FALSE]
SchemaPage == Html([unparsed |-> FALSE, contextless |-> FALSE, nodes |-> {SchemaNode}])

Metadata ==
     "canonicalization" :> Audits(Html([canonical |-> "self"]),
       [html |-> N, canonical |-> {"none", "unusable", "other"}])
  @@ "meta-description" :> Audits(Html([noindex |-> FALSE, length |-> 100]),
       [html |-> N, noindex |-> Y, length |-> {0, 49, 161}])
  @@ "title-uniqueness" :> [Audits(Html([title |-> "t1", others |-> {}]),
       [html |-> N, title |-> {"none", "over 60 characters"}])
       EXCEPT !.finds = Of("others", {"t1", "t2"})]
  @@ "social-metadata" :> Audits(Html([openGraph |-> {"og:title", "og:description", "og:image", "og:url"}]),
       [html |-> N, openGraph |-> {{}, {"og:title"}}])
  @@ "breadcrumblist-schema" :> Audits(Crumbed @@ [unparsed |-> FALSE, types |-> {"BreadcrumbList"}],
       [html |-> N, hierarchical |-> N, home |-> Y, unparsed |-> Y, types |-> {{}}])
  @@ "breadcrumb-navigation" :> [Audits(Crumbed @@ [trail |-> TRUE, crumbs |-> {"resolves"}],
       [html |-> N, hierarchical |-> N, home |-> Y, trail |-> N, crumbs |-> {{"broken"}, {"unread"}}])
       EXCEPT !.finds = Of("crumbs", {"resolves", "broken"}), !.misses = Of("crumbs", {"unread"})]
  @@ "schema-eligibility-matrix" :> [Audits([flagged |-> TRUE, pages |-> {SchemaPage}],
       [flagged |-> N, pages |-> {{}}])
       EXCEPT !.finds = Of("pages", Near(SchemaPage, [html |-> N, unparsed |-> Y, contextless |-> Y,
                nodes |-> {{n} : n \in Near(SchemaNode, [judged |-> N, required |-> N, oneOf |-> N,
                                                        subjectShown |-> N, retired |-> Y])}]))]

Screen == [signals |-> {"title", "h1", "canonical"}, noindex |-> FALSE, viewport |-> TRUE,
           words |-> 20, links |-> 20]
AxePage == [axe |-> "ran", critical |-> FALSE]
Compared == [axe |-> "ran", axeBefore |-> "ran", critical |-> {}, criticalBefore |-> {},
             serious |-> {}, seriousBefore |-> {}]

Accessibility ==
     "content-accessibility" :> [Audits(
       Html([language |-> TRUE, links |-> {}, images |-> {}, tables |-> {}, media |-> {}]),
       [html |-> N, ok |-> N, language |-> N])
       EXCEPT !.finds = Of("links", {"nameless", "generic", "named"})
         \cup Of("images", Near([alt |-> TRUE, exempt |-> FALSE], [alt |-> N, exempt |-> Y]))
         \cup Of("images", {[alt |-> FALSE, exempt |-> TRUE]})
         \cup Of("tables", Near([presentational |-> FALSE, headers |-> FALSE, rows |-> 2, columns |-> 2],
                            [presentational |-> Y, headers |-> Y, rows |-> {1}, columns |-> {1}]))
         \cup Of("media", Near([video |-> TRUE, ambient |-> FALSE, captions |-> FALSE],
                           [video |-> N, ambient |-> Y, captions |-> Y]))]
  @@ "axe-accessibility" :> [Audits(Html([axe |-> "ran", impacts |-> {}]),
       [html |-> N, axe |-> {"not asked for", "failed"}])
       EXCEPT !.finds = Of("impacts", {"critical", "serious", "minor"}), !.cuts = Of("axe", {"failed"})]
  @@ "manual-a11y-evaluation" :> [Audits(
       [supplied |-> TRUE, claims |-> TRUE, blockers |-> {}, pages |-> {AxePage}, record |-> Owned, dated |-> TRUE],
       [supplied |-> N, claims |-> N, pages |-> {{}}, record |-> Unowned])
       EXCEPT !.finds = Of("blockers", {"open", "closed"}) \cup Of("pages", {[AxePage EXCEPT !.critical = TRUE]}),
              !.misses = Of("pages", {[AxePage EXCEPT !.axe = "failed"]})]
  @@ "a11y-regression-sampling" :> [Audits([previous |-> TRUE, pages |-> {}], [previous |-> N])
       EXCEPT !.finds = Of("pages", Near(Compared, [critical |-> {{"v1"}}, serious |-> {{"v1"}, {"v1", "v2"}},
                                               seriousBefore |-> {{"v1"}}, criticalBefore |-> {{"v1"}}])),
              !.misses = Of("pages", Near([Compared EXCEPT !.axe = "failed"], [axeBefore |-> {"failed"}]))]
  @@ "mobile-journey-qa" :> [Audits(Html([mobile |-> "read", desktop |-> Screen, phone |-> Screen]),
       [html |-> N, mobile |-> {"not asked for", "no html"},
        phone |-> Near(Screen, [signals |-> {{"title"}}, noindex |-> Y, viewport |-> N, words |-> {9, 10}, links |-> {9}])])
       EXCEPT !.cuts = Of("mobile", {"failed"})]

Video == [kind |-> "player", ambient |-> FALSE, blocked |-> FALSE, source |-> "v1"]
VideoNode == [required |-> TRUE, plays |-> "v1", isoDates |-> TRUE]
NewsEntry == [complete |-> TRUE, otherHost |-> FALSE, fetchTimeKnown |-> TRUE,
              language |-> [shape |-> "two letters", tag |-> [language |-> "ISO 639-1", rest |-> <<>>]],
              date |-> [form |-> "W3C", zoned |-> TRUE, at |-> -10]]
Feed == [named |-> TRUE, served |-> TRUE, truncated |-> FALSE, entries |-> TRUE, crowded |-> FALSE]
Article == Html([article |-> TRUE, image |-> TRUE, width |-> "1200 and over", preview |-> "large"])
NewsPage == Html([listed |-> TRUE, newsArticle |-> TRUE, truncated |-> FALSE, redated |-> FALSE,
                  identifies |-> {"contact", "publisher"}, sponsored |-> FALSE, discloses |-> FALSE,
                  author |-> TRUE, dated |-> TRUE, namesPublisher |-> FALSE])
PaidNode == [access |-> "true or false", parts |-> {[selector |-> TRUE, access |-> "true or false"]}]

Media ==
     "image-alt-quality" :> [Audits(Html([alts |-> {}]), [html |-> N])
       EXCEPT !.finds = Of("alts", {"missing", "filename", "words"})]
  @@ "image-dimensions" :> [Audits(Html([images |-> {}]), [html |-> N])
       EXCEPT !.finds = Of("images", Near([width |-> TRUE, height |-> TRUE], [width |-> N, height |-> N]))]
  @@ "responsive-media" :> [Audits(Html([viewport |-> TRUE, images |-> {}]), [html |-> N, viewport |-> N])
       EXCEPT !.finds = Of("images", {"fixed", "fluid"})]
  @@ "lcp-not-lazy" :> [Audits(Html([paints |-> {}, first |-> "eager"]), [html |-> N, first |-> {"none", "lazy"}])
       EXCEPT !.finds = Of("paints", Near([img |-> TRUE, lazy |-> FALSE], [img |-> N, lazy |-> Y]))]
  @@ "media-alternatives" :> [Audits(Html([media |-> {}]), [html |-> N])
       EXCEPT !.finds = Of("media", Near([ambient |-> FALSE, captions |-> FALSE, fallback |-> FALSE],
                                     [ambient |-> Y, captions |-> Y, fallback |-> Y]))]
  @@ "image-discoverability" :> Audits(Html([image |-> "allowed"]),
       [html |-> N, image |-> {"undeclared", "unresolvable", "disallowed"}])
  @@ "publisher-discover-readiness" :> [Audits([pages |-> {}], <<>>)
       EXCEPT !.finds = Of("pages", Near(Article, [html |-> N, ok |-> N, article |-> N, image |-> N,
                                               width |-> {"under 1200"}, preview |-> {"not large"}]))]
  @@ "video-watch-page" :> [Audits(
       Html([product |-> FALSE, article |-> FALSE, noindex |-> FALSE, media |-> {Video}, nodes |-> {},
             thumbnails |-> {"open"}, canonicalElsewhere |-> FALSE, h1 |-> TRUE, words |-> 100]),
       [html |-> N, product |-> Y, article |-> Y, noindex |-> Y, media |-> {{}}, thumbnails |-> {{}},
        canonicalElsewhere |-> Y, h1 |-> N, words |-> {49}])
       EXCEPT !.finds = Of("media", Near(Video, [kind |-> {"video", "image"}, ambient |-> Y, blocked |-> Y]))
                        \cup Of("thumbnails", {"blocked", "open"})]
  @@ "videoobject-schema" :> [Audits(
       Html([product |-> FALSE, article |-> FALSE, media |-> {Video}, nodes |-> {VideoNode}]),
       [html |-> N, product |-> Y, article |-> Y, media |-> {{}}, nodes |-> {{}}])
       EXCEPT !.finds = Of("media", Near(Video, [source |-> {"v2", "unstated"}]))
                        \cup Of("nodes", Near(VideoNode, [required |-> N, plays |-> {"nothing", "v2"}, isoDates |-> N]))]
  @@ "video-sitemap" :> [Audits([documents |-> {}, entries |-> {}], <<>>)
       EXCEPT !.finds = Of("documents", Near(Feed, [named |-> N, served |-> N, entries |-> N]))
                \cup Of("entries", Near([complete |-> TRUE, blocked |-> FALSE, silentPage |-> FALSE, otherHost |-> FALSE],
                                   [complete |-> N, blocked |-> Y, silentPage |-> Y, otherHost |-> Y])),
              !.misses = Of("documents", {[Feed EXCEPT !.truncated = TRUE]})]
  @@ "news-sitemap" :> [Audits([documents |-> {}, entries |-> {}], <<>>)
       EXCEPT !.finds = Of("documents", Near(Feed, [named |-> N, served |-> N, crowded |-> Y]))
                \cup Of("entries", Near(NewsEntry, [complete |-> N, otherHost |-> Y,
                     language |-> {[shape |-> s, tag |-> [language |-> l, rest |-> r]] :
                                     s \in {"two letters", "three letters", "none", "tagged"}, l \in {"ISO 639-1", "other"},
                                     r \in {<<>>, <<"script", "country">>, <<"no country">>, <<"M.49">>, <<"country", "variant">>}},
                     date |-> {[form |-> f, zoned |-> z, at |-> at] :
                                 f \in {"W3C", "absent", "malformed"}, z \in BOOLEAN, at \in {-110, -73, -50, -2, 2, 16}}])),
              !.misses = Of("documents", {[Feed EXCEPT !.truncated = TRUE]})
                \cup Of("entries", {[NewsEntry EXCEPT !.fetchTimeKnown = FALSE]})]
  @@ "news-article-policy" :> [Audits([pages |-> {}, feed |-> FALSE], [feed |-> Y])
       EXCEPT !.finds = Of("pages", Near(NewsPage, [html |-> N, listed |-> N, newsArticle |-> N, redated |-> Y,
                                  identifies |-> {{}, {"contact"}}, sponsored |-> Y, author |-> N, dated |-> N,
                                  namesPublisher |-> Y])
                         \cup {[NewsPage EXCEPT !.sponsored = TRUE, !.discloses = TRUE]}),
              !.misses = Of("pages", {[NewsPage EXCEPT !.truncated = TRUE]})]
  @@ "paywall-access-model" :> [Audits([flagged |-> TRUE, pages |-> {}], [flagged |-> N])
       EXCEPT !.finds = Of("pages", {Html([nodes |-> {n}]) :
                n \in Near(PaidNode, [access |-> {"absent", "unreadable"},
                        parts |-> {{}, {[selector |-> FALSE, access |-> "true or false"]},
                                   {[selector |-> TRUE, access |-> "absent"]}}])})]

----------------------------------------------------------------------------
Essay == Html([article |-> TRUE, typed |-> TRUE, author |-> TRUE, truncated |-> FALSE, dates |-> "whole",
               published |-> "none", modified |-> "none", many |-> 1])
TrustLinks(target) == {[category |-> c, target |-> target] : c \in {"About", "Contact", "Privacy policy", "Terms"}}
Template == Html([truncated |-> FALSE, outline |-> "o1", many |-> 1])
Rival == Html([noindex |-> FALSE, canonical |-> "self", landed |-> "u1", title |-> "t1", h1 |-> "h1"])
MovedEntry == [oldReached |-> TRUE, destination |-> "read", h1 |-> "same", words |-> 60, oldWords |-> 100,
               canonicalElsewhere |-> FALSE, retitled |-> FALSE]
ClicksRow == [query |-> FALSE, period |-> 1, page |-> "u1", clicks |-> 100]
Recorded == [supplied |-> TRUE, record |-> Owned, dated |-> TRUE]
RecordedAlt == [supplied |-> N, record |-> Unowned, dated |-> N]

Content ==
     "answer-first-structure" :> [Audits(
       Html([truncated |-> FALSE, article |-> TRUE, sections |-> <<[level |-> 2, question |-> TRUE, words |-> 300]>>]),
       [html |-> N, ok |-> N, article |-> N,
        sections |-> {<<[level |-> 0, question |-> FALSE, words |-> w]>> : w \in {299, 600}}])
       EXCEPT !.finds = Of("sections", [level : {1, 2, 3}, question : BOOLEAN, words : {0, 300}]),
              !.cuts = Of("truncated", {TRUE}), !.ordered = {"sections"}]
  @@ "author-date-signals" :> [Audits([pages |-> {}], <<>>)
       EXCEPT !.finds = Of("pages", Near(Essay, [html |-> N, article |-> N, typed |-> N, author |-> N,
                            dates |-> {"unreadable", "modified first", "in the future", "absent"}])
                          \cup {[Essay EXCEPT !.many = m, !.published = v, !.modified = w] :
                                  m \in {1, 2, 5}, v \in {"none", "a day", "noon"}, w \in {"none", "noon"}}),
              !.misses = Of("pages", {[Essay EXCEPT !.truncated = TRUE]})]
  @@ "trust-pages-presence" :> [Audits([pages |-> {Html([links |-> TrustLinks("answers")])}],
       [pages |-> {{}, {Html([links |-> TrustLinks("broken")])}, {Html([links |-> {}])}}])
       EXCEPT !.finds = Of("pages", {Html([links |-> {l}]) : l \in TrustLinks("broken") \cup TrustLinks("answers")}),
              !.misses = Of("pages", {Html([links |-> TrustLinks("unread")])})]
  @@ "outbound-link-qualification" :> [Audits([pages |-> {}], <<>>)
       EXCEPT !.finds = Of("pages", Near(Html([sponsored |-> TRUE, links |-> {"unqualified"}]),
                                     [html |-> N, ok |-> N, sponsored |-> N, links |-> {{}, {"qualified"}}]))]
  @@ "batch-page-quality" :> [Audits([flagged |-> TRUE, pages |-> {}], [flagged |-> N])
       EXCEPT !.finds = Of("pages", Near(Template, [html |-> N, outline |-> {"o2", "short"}, many |-> {2, 3}])),
              !.misses = Of("pages", {[Template EXCEPT !.truncated = TRUE]})]
  @@ "cannibalization" :> [Audits([pages |-> {Rival}], <<>>)
       EXCEPT !.finds = Of("pages", Near([Rival EXCEPT !.landed = "u2"], [noindex |-> Y, canonical |-> {"other", "none"},
                                     landed |-> {"u1"}, title |-> {"none", "t2"}, h1 |-> {"none", "h2"}])
                            \cup {[Rival EXCEPT !.landed = "u2", !.title = "t2", !.h1 = "h2"]})]
  @@ "launch-content-completeness" :> [Audits(
       Html([noindex |-> FALSE, truncated |-> FALSE, words |-> 100, placeholder |-> FALSE]),
       [html |-> N, ok |-> N, noindex |-> Y, words |-> {0, 49, 50}, placeholder |-> Y])
       EXCEPT !.cuts = Of("truncated", {TRUE})]
  @@ "content-parity-diff" :> [Audits(
       [mapped |-> TRUE, previous |-> TRUE, entries |-> {}, record |-> Owned, dated |-> TRUE],
       [mapped |-> N, previous |-> N, record |-> Unowned, dated |-> N])
       EXCEPT !.finds = Of("entries", Near(MovedEntry, [oldReached |-> N, h1 |-> {"unrelated"}, words |-> {49, 50},
                                      canonicalElsewhere |-> Y, retitled |-> Y])),
              !.misses = Of("entries", {[MovedEntry EXCEPT !.destination = "unread"]})]
  @@ "content-decay" :> [Audits([exported |-> TRUE, dated |-> TRUE, rows |-> {ClicksRow}, decisions |-> {}],
       [exported |-> N, dated |-> N, decisions |-> {{[page |-> "u1", owned |-> TRUE, overdue |-> o]} : o \in BOOLEAN}])
       EXCEPT !.finds = Of("rows", [query : BOOLEAN, period : {1, 2, 3}, page : {"u1", "u2"}, clicks : {69, 70}]),
              !.misses = Of("rows", {[ClicksRow EXCEPT !.period = 0]})]
  @@ "content-helpfulness" :> [Audits([supplied |-> TRUE, reviews |-> {}, priority |-> {}], [supplied |-> N])
       EXCEPT !.finds = Of("reviews", [verdict : {"helpful", "needs-work", "fails"}, page : {"indexable", "noindex"}]),
              !.misses = Of("priority", {"unreviewed"})
                           \cup Of("reviews", {[verdict |-> "helpful", page |-> "unreachable"]})]
  @@ "keyword-intent-map" :> [Audits([supplied |-> TRUE, uncrawled |-> FALSE, pages |-> {}], [supplied |-> N])
       EXCEPT !.finds = Of("pages", Near(Html([noindex |-> FALSE, mapped |-> TRUE]), [ok |-> N, noindex |-> Y, mapped |-> N])),
              !.misses = Of("pages", {}), !.cuts = Of("uncrawled", {TRUE})]

----------------------------------------------------------------------------
Body == [truncated |-> FALSE, declared |-> -1, bytes |-> 1000]
CutBodies == {[Body EXCEPT !.truncated = TRUE, !.declared = d] : d \in {-1, 999}}
Report == [read |-> TRUE, policyProfile |-> TRUE, over |-> FALSE, missing |-> FALSE, run |-> "after", row |-> "r1"]
AllHeaders == {"strict-transport-security", "nosniff", "framing policy", "referrer-policy"}

Delivery ==
     "http-status" :> [Audits([failed |-> FALSE, status |-> 200], [status |-> {301, 399, 400, 503}])
       EXCEPT !.cuts = Of("failed", {TRUE}) \cup Of("status", {0})]
  @@ "redirect-chain" :> Audits([hops |-> 0], [hops |-> {1, 2}])
  @@ "https-enforcement" :> Audits([https |-> TRUE], [https |-> N])
  @@ "mixed-content" :> [Audits(Html([https |-> TRUE, subresources |-> {}]), [html |-> N, https |-> N])
       EXCEPT !.finds = Of("subresources", {"http", "https"})]
  @@ "security-headers" :> Audits([https |-> TRUE, headers |-> AllHeaders],
       [https |-> N, headers |-> {AllHeaders \ {h} : h \in AllHeaders}])
  @@ "compression-cache" :> Audits([text |-> TRUE, headers |-> {"encoding", "validity"}],
       [text |-> N, headers |-> {{"encoding"}, {"validity"}}])
  @@ "http-version" :> [Audits([rootFetched |-> TRUE, https |-> TRUE, protocol |-> "h2", advertisesH3 |-> FALSE],
       [https |-> N, protocol |-> {"http/1.1"}, advertisesH3 |-> Y])
       EXCEPT !.cuts = Of("rootFetched", {FALSE}) \cup Of("protocol", {"failed", "not recorded"})]
  @@ "domain-expiry-rdap" :> [Audits(
       [rdap |-> "read", registrable |-> TRUE, lapsing |-> FALSE, expiryRead |-> TRUE, daysLeft |-> 31],
       [registrable |-> N, lapsing |-> Y, daysLeft |-> {-1, 0, 30}])
       EXCEPT !.cuts = Of("rdap", {"none", "failed"}) \cup Of("expiryRead", {FALSE})]
  @@ "crawler-fetch-limit" :> [Audits(
       [served |-> TRUE, indexedType |-> TRUE, pdf |-> FALSE, document |-> Body, assets |-> {}],
       [served |-> N, indexedType |-> N, pdf |-> Y,
        document |-> {[Body EXCEPT !.bytes = n] : n \in {1500000, 2097152, 2097153}}])
       EXCEPT !.finds = Of("assets", {[Body EXCEPT !.bytes = n] : n \in {1499999, 1500000, 2097153}})
                          \cup Of("assets", {[truncated |-> TRUE, declared |-> n, bytes |-> 1000] : n \in {1000, 2097153}}),
              !.misses = Of("assets", CutBodies), !.cuts = Of("document", CutBodies)]
  @@ "private-response-caching" :> Audits([public |-> TRUE, setsCookie |-> FALSE, variesByCookie |-> FALSE],
       [public |-> N, setsCookie |-> Y, variesByCookie |-> Y])
  @@ "indexability-matrix-reconciliation" :> [Audits(Html([resources |-> {}]), [html |-> N])
       EXCEPT !.finds = Of("resources", [robots : {"allowed", "disallowed", "other site"}, stylesheet : BOOLEAN])]
  @@ "lab-perf-budget" :> [Audits([policy |-> TRUE, reports |-> {Report}, record |-> Owned, dated |-> TRUE],
       [policy |-> N, reports |-> {{}}, record |-> Unowned, dated |-> N])
       EXCEPT !.finds = Of("reports", Near(Report, [policyProfile |-> N, over |-> Y, missing |-> Y, run |-> {"before the revision"}])),
              !.misses = Of("reports", {[Report EXCEPT !.read = FALSE]})]
  @@ "template-lab-perf" :> [Audits([policy |-> TRUE, rows |-> {"r1"}, reports |-> {Report}, record |-> Owned, dated |-> TRUE],
       [policy |-> N, rows |-> {{}, {"r1", "r2"}}, record |-> Unowned, dated |-> N])
       EXCEPT !.finds = Of("reports", Near(Report, [policyProfile |-> N, over |-> Y, row |-> {"r2", "none"},
                                               run |-> {"before the revision", "undated"}])),
              !.misses = Of("reports", {[Report EXCEPT !.read = FALSE]})]
  @@ "lcp-element-strategy" :> [Audits(
       Html([lcp |-> "media", lazy |-> FALSE, lowPriority |-> FALSE, sourced |-> TRUE, truncated |-> FALSE,
             named |-> TRUE, fontFaces |-> {}]),
       [html |-> N, lcp |-> {"no report", "unnamed", "text"}, lazy |-> Y, lowPriority |-> Y, sourced |-> N, named |-> N])
       EXCEPT !.finds = Of("fontFaces", {"without display", "with display"}), !.cuts = Of("truncated", {TRUE})]
  @@ "field-cwv-monitor" :> [Audits(Recorded @@ [vitals |-> {}], RecordedAlt)
       EXCEPT !.finds = Of("vitals", {[metric |-> m[1], p75 |-> m[2], action |-> a] : a \in BOOLEAN,
                  m \in {<<"lcp", 2500>>, <<"lcp", 4000>>, <<"lcp", 4001>>, <<"inp", 501>>, <<"cls", 26>>}}),
              !.misses = Of("vitals", {[metric |-> "lcp", p75 |-> -1, action |-> TRUE]})]
  @@ "security-dependency-maintenance" :> [Audits(Recorded @@ [vulnerabilities |-> {}, banners |-> {}], RecordedAlt)
       EXCEPT !.finds = Of("vulnerabilities", [fixed : BOOLEAN, critical : BOOLEAN, owned : BOOLEAN])
                          \cup Of("banners", {"names a version", "names no version"})]

----------------------------------------------------------------------------
Address == [where |-> "fetched", query |-> <<>>, route |-> "r1", many |-> 1]
FacetPage == Html([url |-> "u1", filtered |-> TRUE, product |-> FALSE, route |-> "r1", redirected |-> FALSE,
                   paginated |-> FALSE, noindex |-> FALSE, canonical |-> "self", listed |-> FALSE, title |-> "t1"])
UnreadFacet == [filtered |-> TRUE, route |-> "r1", where |-> "blocked", listed |-> FALSE]
Look == [noindex |-> FALSE, canonical |-> "self", words |-> 100, links |-> 10, jsonLd |-> 1, title |-> "t1", h1 |-> "h1"]
Experiment == [variants |-> {"distinct"}, retired |-> FALSE, owned |-> TRUE, overdue |-> FALSE]
Canary == [matched |-> TRUE, blocked |-> FALSE, indexable |-> TRUE, reached |-> TRUE, statusAgrees |-> TRUE,
           document |-> TRUE, noindex |-> FALSE, canonicalAgrees |-> TRUE]

Indexing ==
     "parameter-crawl-space" :> [Audits([urls |-> {Address}, campaignLinks |-> FALSE], [campaignLinks |-> Y])
       EXCEPT !.finds = Of("urls", [where : {"fetched", "left"}, route : {"r1"}, many : {1, 10},
                               query : {<<>>, <<"size", "colour">>, <<"colour", "size">>, <<"session">>, <<"page">>}]),
              !.misses = Of("urls", [where : {"blocked"}, route : {"r1"}, many : {1},
                                 query : {<<"size", "colour">>, <<"session">>}])]
  @@ "faceted-nav-control" :> [Audits([pages |-> {}, unread |-> {}], <<>>)
       EXCEPT !.finds = Of("pages", Near(FacetPage, [filtered |-> N, redirected |-> Y, paginated |-> Y, noindex |-> Y,
                               canonical |-> {"none", "other", "dead end"}, listed |-> Y, product |-> Y])
                            \cup Near([FacetPage EXCEPT !.url = "u2", !.title = "t2"], [title |-> {"t1", "none"}, filtered |-> N])
                            \cup Near([FacetPage EXCEPT !.noindex = TRUE], [listed |-> Y])),
              !.misses = Of("unread", Near(UnreadFacet, [filtered |-> N, where |-> {"left"}, listed |-> Y])),
              !.keyed = {"pages"}]
  @@ "internal-search-indexability" :> [Audits([pages |-> {}, blockedSearch |-> FALSE], [blockedSearch |-> Y])
       EXCEPT !.finds = Of("pages", [search : BOOLEAN, noindex : BOOLEAN])]
  @@ "locale-canonical" :> Audits(Html([alternates |-> TRUE, canonical |-> "other", locale |-> <<"en", "GB">>,
             lang |-> <<"en", "GB">>, target |-> <<"fr", "FR">>]),
       [html |-> N, ok |-> N, alternates |-> N, canonical |-> {"self", "none", "unusable"},
        locale |-> {<<"none", "none">>, <<"fr", "FR">>}, lang |-> {<<"fr", "FR">>, <<"none", "none">>},
        target |-> {<<"en", "US">>, <<"none", "none">>}])
  @@ "rendering-strategy-classifier" :> [Audits(Html([render |-> "read", raw |-> Look, rendered |-> Look]),
       [html |-> N, render |-> {"not asked for"}, raw |-> {[Look EXCEPT !.words = w] : w \in {0, 60}},
        rendered |-> Near(Look, [noindex |-> Y, canonical |-> {"none"}, words |-> {150, 151}, links |-> {15, 16}, jsonLd |-> {2}])])
       EXCEPT !.cuts = Of("render", {"failed", "empty"})]
  @@ "raw-rendered-parity" :> [Audits(
       Html([render |-> "read", raw |-> Look, rendered |-> Look, rawTargets |-> {"u1"}, renderedTargets |-> {"u1"}]),
       [html |-> N, render |-> {"not asked for"}, rendered |-> Near(Look, [title |-> {"t2"}, h1 |-> {"none"}]),
        rawTargets |-> {{}}, renderedTargets |-> {{}, {"u1", "u2"}}])
       EXCEPT !.cuts = Of("render", {"failed", "empty"})]
  @@ "x-robots-tag-non-html" :> Audits([ok |-> TRUE, markup |-> FALSE, flagged |-> TRUE, header |-> TRUE],
       [ok |-> N, markup |-> Y, flagged |-> N, header |-> N])
  @@ "experiment-cloaking-divergence" :> [Audits([experiments |-> {}, dated |-> TRUE], [dated |-> N])
       EXCEPT !.finds = Of("experiments", Near(Experiment, [variants |-> {{"duplicate"}}, retired |-> Y, owned |-> N, overdue |-> Y])),
              !.misses = Of("experiments", {[Experiment EXCEPT !.variants = {"distinct", "unreached"}]})]
  @@ "staging-protection" :> [Audits([environments |-> {"refuses"}, record |-> Owned, dated |-> TRUE],
       [environments |-> {{}}, record |-> Unowned, dated |-> N])
       EXCEPT !.finds = Of("environments", {"open", "login"}),
              !.misses = Of("environments", {"not requested", "no response"})]
  @@ "indexability-canary" :> [Audits(Recorded @@ [matrix |-> TRUE, urls |-> {Canary}], RecordedAlt @@ [matrix |-> N])
       EXCEPT !.finds = Of("urls", Near(Canary, [matched |-> N, blocked |-> Y, indexable |-> N, statusAgrees |-> N,
                               document |-> N, noindex |-> Y, canonicalAgrees |-> N])),
              !.misses = Of("urls", {[Canary EXCEPT !.reached = FALSE]})]
  @@ "url-inspection" :> [Audits([exported |-> TRUE, inspections |-> {}, record |-> Owned, dated |-> TRUE],
       [exported |-> N, record |-> Unowned, dated |-> N])
       EXCEPT !.finds = Of("inspections", [unknown : BOOLEAN, page : {"indexable", "other"}, disagrees : BOOLEAN]),
              !.misses = Of("inspections", {[unknown |-> FALSE, page |-> "unreached", disagrees |-> FALSE]})]
  @@ "indexation-review" :> [Audits([exported |-> TRUE, rows |-> {}, record |-> Owned, dated |-> TRUE],
       [exported |-> N, record |-> Unowned, dated |-> N])
       EXCEPT !.finds = Of("rows", [page : {"indexable", "other"}, reason : {"noindex", "blocked", "crawled, not indexed", "other"}]),
              !.misses = Of("rows", {[page |-> "unreached", reason |-> "noindex"]})]

PageCase == Metadata @@ Accessibility @@ Media @@ Content @@ Delivery @@ Indexing

=============================================================================
