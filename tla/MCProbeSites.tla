---------------------------- MODULE MCProbeSites ---------------------------
(***************************************************************************)
(* What the audits of ProbeAudits may hold for the detectors of            *)
(* ProbesCommerce, ProbesMarkup, ProbesQa, ProbesSite and ProbesRecords,   *)
(* in the form of MCProbePages.                                            *)
(***************************************************************************)
EXTENDS MCProbePages, FiniteSets

With1(good, f, values) == {[good EXCEPT ![f] = v] : v \in values}

----------------------------------------------------------------------------
Variant == Html([url |-> "u1", route |-> "r1", product |-> TRUE, noindex |-> FALSE, canonical |-> "u1", title |-> "t1"])
Second == [Variant EXCEPT !.url = "u2", !.canonical = "u2", !.title = "t2"]
Sold == Html([product |-> TRUE, route |-> "r1", noindex |-> FALSE, canonicalRoute |-> "r1", listed |-> FALSE,
              availability |-> {"retired"}])
Offer == [price |-> TRUE, availability |-> TRUE]
Marked == Html([product |-> TRUE, marked |-> TRUE, name |-> TRUE, image |-> TRUE, identifier |-> TRUE,
                review |-> FALSE, offers |-> {Offer}])
Item == [page |-> "marked up", price |-> {"agrees"}, currency |-> {"agrees"}, availability |-> {"agrees"},
         gtinAsked |-> FALSE, gtin |-> {}]

Commerce ==
     "product-variant-canonical" :> [Audits([ecommerce |-> TRUE, pages |-> {Variant}], [ecommerce |-> N])
       EXCEPT !.finds = Of("pages", Near(Second, [html |-> N, noindex |-> Y, canonical |-> {"u1", "none"}, title |-> {"t1", "none"},
                                             route |-> {"r2"}, product |-> N])),
              !.keyed = {"pages"}]
  @@ "product-lifecycle-state" :> [Audits([ecommerce |-> TRUE, pages |-> {}], [ecommerce |-> N])
       EXCEPT !.finds = Of("pages", Near(Sold, [ok |-> N, noindex |-> Y, canonicalRoute |-> {"none", "r2"}, product |-> N,
                            availability |-> {{}, {"withdrawn"}, {"purchasable", "withdrawn"}}])
                          \cup {[Sold EXCEPT !.noindex = TRUE, !.listed = TRUE],
                                [Sold EXCEPT !.noindex = TRUE, !.availability = {"withdrawn"}]})]
  @@ "product-schema" :> [Audits([ecommerce |-> TRUE, pages |-> {Marked}], [ecommerce |-> N])
       EXCEPT !.finds = Of("pages", Near(Marked, [product |-> N, marked |-> N, name |-> N, image |-> N, identifier |-> N,
                            offers |-> {{}, {[Offer EXCEPT !.price = FALSE]}, {[Offer EXCEPT !.availability = FALSE]}}])
                          \cup {[Marked EXCEPT !.offers = {}, !.review = TRUE]})]
  @@ "merchant-feed-parity" :> [Audits(Recorded @@ [items |-> {Item}], RecordedAlt @@ [items |-> {{}}])
       EXCEPT !.finds = Of("items", Near(Item, [price |-> {{"differs"}, {"agrees", "differs"}}, gtinAsked |-> Y,
                                           availability |-> {{"differs"}, {}}])),
              !.misses = Of("items", With1(Item, "page", {"unreached", "not marked up"}))]
  @@ "product-checkout-qa" :> [Audits(Recorded @@ [cases |-> {}], RecordedAlt)
       EXCEPT !.finds = Of("cases", [failed : BOOLEAN, page : {"200", "not 200"}]),
              !.misses = Of("cases", {[failed |-> FALSE, page |-> "unreached"]})]

----------------------------------------------------------------------------
Heading == [level |-> 1, short |-> FALSE]
Tagged == Html([ids |-> {"g1"}, tagTwice |-> FALSE])
Hit == [event |-> "page_view", times |-> 1]
Live == [fires |-> {"page_view"}, hits |-> {[event |-> "page_view", property |-> "listed"]}, cut |-> FALSE]
Review == [review |-> TRUE, aggregate |-> FALSE, subject |-> "a product", author |-> TRUE, zero |-> FALSE, dated |-> TRUE]
Region == [form |-> TRUE, links |-> {"qualified"}]
Organization == [name |-> "the brand", branch |-> FALSE, sameAs |-> {"p1"}]
Sampled == Html([okBefore |-> TRUE, lostTypes |-> FALSE, unparsed |-> FALSE])

Markup ==
     "semantic-html" :> [Audits(Html([landmarks |-> {"main"}]), [html |-> N, landmarks |-> {{}}])
       EXCEPT !.finds = Of("landmarks", {"header", "nav", "footer"})]
  @@ "heading-outline" :> [Audits(Html([headings |-> <<Heading>>]), [html |-> N, headings |-> {<<>>}])
       EXCEPT !.finds = Of("headings", [level : {1, 2, 3}, short : {FALSE}]), !.ordered = {"headings"}]
  @@ "primary-heading" :> [Audits(Html([headings |-> <<Heading>>]), [html |-> N, headings |-> {<<>>}])
       EXCEPT !.finds = Of("headings", [level : {1, 2}, short : BOOLEAN]), !.ordered = {"headings"}]
  @@ "crawlable-links" :> [Audits(Html([links |-> {"internal"}]), [html |-> N, links |-> {{}}])
       EXCEPT !.finds = Of("links", {"scripted", "external"})]
  @@ "lang-attribute" :> Audits(Html([lang |-> "well formed"]), [html |-> N, lang |-> {"absent", "malformed"}])
  @@ "soft-404" :> Audits(Html([apology |-> FALSE, words |-> 50]), [html |-> N, ok |-> N, apology |-> Y, words |-> {49}])
  @@ "analytics-implementation" :> [Audits([pages |-> {Tagged}], [pages |-> {{}}])
       EXCEPT !.finds = Of("pages", Near(Tagged, [html |-> N, ok |-> N, ids |-> {{}, {"g1", "g2"}}, tagTwice |-> Y]))]
  @@ "consent-mode-config" :> [Audits(Html([scripts |-> <<"consent default", "google tag">>]),
       [html |-> N, scripts |-> {<<>>, <<"banner">>}])
       EXCEPT !.finds = Of("scripts", {"consent default", "google tag", "banner"}), !.ordered = {"scripts"}]
  @@ "analytics-consent-matrix" :> [Audits(
       Html([render |-> "read", denied |-> FALSE, hits |-> {Hit}, expected |-> {"page_view"}, cut |-> FALSE]) @@ Recorded,
       RecordedAlt @@ [html |-> N, render |-> {"not asked for", "no requests"}, denied |-> Y, hits |-> {{}}])
       EXCEPT !.finds = Of("hits", {[event |-> "page_view", times |-> 2], [event |-> "none", times |-> 2]}),
              !.cuts = Of("render", {"failed"}) \cup Of("cut", {TRUE})]
  @@ "live-analytics-smoke" :> [Audits(
       Recorded @@ [productionRow |-> TRUE, elsewhere |-> FALSE, renders |-> {Live},
                 events |-> {[name |-> "page_view", expected |-> TRUE]}],
       RecordedAlt @@ [productionRow |-> N, elsewhere |-> Y, renders |-> {{}},
                    events |-> {{[name |-> "page_view", expected |-> TRUE], [name |-> "purchase", expected |-> FALSE]}}])
       EXCEPT !.finds = Of("renders", Near(Live, [hits |-> {{}, {[event |-> "purchase", property |-> "listed"]},
                                                         {[event |-> "page_view", property |-> "unlisted"]}}])),
              !.misses = Of("renders", {[fires |-> {"page_view"}, hits |-> {}, cut |-> TRUE]})]
  @@ "review-integrity" :> [Audits([pages |-> {}], <<>>)
       EXCEPT !.finds = Of("pages", {Html([nodes |-> {n}, names |-> {"the brand"}]) :
                n \in Near(Review, [review |-> N, subject |-> {"the brand"}, author |-> N, dated |-> N])
                      \cup {[Review EXCEPT !.review = FALSE, !.aggregate = TRUE, !.zero = z] : z \in BOOLEAN}}
                \cup {[html |-> FALSE, nodes |-> {}, names |-> {}]})]
  @@ "ugc-governance" :> [Audits([pages |-> {}], <<>>)
       EXCEPT !.finds = Of("pages", {Html([comments |-> c, regions |-> {r}]) : c \in BOOLEAN,
                                 r \in Near(Region, [form |-> N, links |-> {{"unqualified"}}])})]
  @@ "brand-entity-consistency" :> [Audits(
       Recorded @@ [pages |-> {Html([organizations |-> {Organization}])}, listed |-> {"p1"}], RecordedAlt @@ [pages |-> {{}}, listed |-> {{}}])
       EXCEPT !.finds = Of("pages", {Html([organizations |-> {o}]) : o \in {[Organization EXCEPT !.name = "another", !.branch = TRUE]}
                                  \cup Near(Organization, [name |-> {"another"}, sameAs |-> {{}, {"p1", "p2"}}])})
                        \cup Of("listed", {"p2"})]
  @@ "gbp-setup" :> [Audits(Recorded @@ [eligible |-> TRUE, verified |-> TRUE, locations |-> {[reached |-> TRUE, nodes |-> {"agrees"}]}],
       RecordedAlt @@ [eligible |-> N, verified |-> N, locations |-> {{}}])
       EXCEPT !.finds = Of("locations", [reached : Y, nodes : SUBSET {"agrees", "differs"}]),
              !.misses = Of("locations", {[reached |-> FALSE, nodes |-> {}]})]
  @@ "schema-validation-parity" :> [Audits(
       Html([unparsed |-> FALSE, render |-> "read", unparsedAfter |-> FALSE, raw |-> {<<"Product", "none">>},
             rendered |-> {<<"Product", "none">>}]),
       [html |-> N, unparsed |-> Y, render |-> {"not asked for"}, unparsedAfter |-> Y, raw |-> {{<<"Product", "#1">>}}])
       EXCEPT !.finds = Of("rendered", {"Product", "Offer"} \X {"none", "#1"}) \cup Of("raw", {"Product", "Offer"} \X {"none", "#1"}),
              !.cuts = Of("render", {"failed", "empty"})]
  @@ "schema-hreflang-maintenance" :> [Audits([previous |-> TRUE, pages |-> {Sampled}, pairs |-> {}],
       [previous |-> N, pages |-> {{}}])
       EXCEPT !.finds = Of("pages", Near(Sampled, [html |-> N, okBefore |-> N, lostTypes |-> Y])
                                \cup {[Sampled EXCEPT !.lostTypes = TRUE, !.unparsed = TRUE]})
                        \cup Of("pairs", {"kept", "lapsed"})]

----------------------------------------------------------------------------
Plain == Html([url |-> "u1", landed |-> "u1", answer |-> "ok", redirected |-> FALSE, noindex |-> FALSE, listed |-> FALSE,
               contradictory |-> FALSE, canonical |-> "u1", truncated |-> FALSE, titled |-> TRUE, described |-> TRUE])
Other == [Plain EXCEPT !.url = "u2", !.landed = "u2", !.canonical = "u2"]
Rendered == Html([render |-> "read", endsElsewhere |-> FALSE, answersOtherwise |-> FALSE,
                  rawLinks |-> {"u1"}, renderedLinks |-> {"u1"}])
Served == Html([row |-> "any", noindex |-> FALSE])
Row == [pattern |-> "any", priority |-> FALSE, private |-> FALSE, indexable |-> TRUE]
Then == [now |-> "200", noindex |-> FALSE, html |-> TRUE, otherCanonical |-> FALSE]
Entry == [resolvable |-> TRUE, requested |-> TRUE, expect |-> 301, looped |-> FALSE, status |-> 200, hops |-> 1,
          first |-> 301, endsThere |-> TRUE]
Entries301 == Near(Entry, [looped |-> Y, status |-> {404}, hops |-> {0, 2}, first |-> {302}, endsThere |-> N])
Entries410 == Near([Entry EXCEPT !.expect = 410, !.status = 410, !.hops = 0], [hops |-> {1}, status |-> {404}])
EntriesUnread == {[Entry EXCEPT !.requested = FALSE], [Entry EXCEPT !.status = 0]}
Watched(entry) == entry @@ [before |-> "right", destination |-> "indexable"]
Run == [probe |-> "a", page |-> "none", outcome |-> "pass"]
Word(w) == <<[kind |-> "word", text |-> w]>>
Numbered(n) == <<[kind |-> "word", text |-> "shop"], [kind |-> "number", text |-> n]>>
Paths == {Word("shop"), Numbered("1"), Numbered("2"), Numbered("3")}

Qa ==
     "broken-links" :> [Audits([links |-> {}], <<>>)
       EXCEPT !.finds = Of("links", [answer : {"blocked", "ok", "refused", "error"}, external : {FALSE}])
                \cup Of("links", [answer : {"blocked", "ok", "error"}, external : {TRUE}]),
              !.misses = Of("links", [answer : {"not fetched", "none", "429"}, external : BOOLEAN]
                                \cup {[answer |-> "refused", external |-> TRUE]})]
  @@ "metadata-completeness" :> [Audits([listedBlocked |-> FALSE, pages |-> {Plain}], [listedBlocked |-> Y, pages |-> {{}}])
       EXCEPT !.finds = Of("pages", Near(Other, [html |-> N, noindex |-> Y, contradictory |-> Y, canonical |-> {"none", "unusable", "u1", "u3"},
                               titled |-> N, described |-> N, landed |-> {"u1", "u4"}])
                          \cup {[Other EXCEPT !.noindex = TRUE, !.listed = TRUE],
                                [Other EXCEPT !.noindex = TRUE, !.canonical = "u1"]}
                          \cup {[Plain EXCEPT !.url = "u3", !.landed = "u3", !.canonical = "u2"]}),
              !.misses = Of("pages", {[Other EXCEPT !.truncated = TRUE, !.titled = FALSE]}), !.keyed = {"pages"}]
  @@ "raw-rendered-crawl-diff" :> [Audits([pages |-> {}], <<>>)
       EXCEPT !.finds = Of("pages", Near(Rendered, [render |-> {"not asked for"}, endsElsewhere |-> Y, answersOtherwise |-> Y,
                                               rawLinks |-> {{}}, renderedLinks |-> {{"u1", "u2"}}])),
              !.misses = Of("pages", {[Rendered EXCEPT !.render = "failed"]})]
  @@ "ci-seo-guards" :> [Audits(Recorded @@ [caught |-> {"noindex", "canonical", "crawler access"}, cleanRun |-> TRUE],
       RecordedAlt @@ [cleanRun |-> N])
       EXCEPT !.finds = Of("caught", {"critical link"})]
  @@ "ci-extended-checks" :> [Audits([rules |-> {}, dated |-> TRUE], [dated |-> N])
       EXCEPT !.finds = Of("rules", [severity : BOOLEAN, noisy : BOOLEAN, owned : BOOLEAN, overdue : BOOLEAN])]
  @@ "production-smoke-test" :> [Audits(
       [matrix |-> TRUE, productionRow |-> TRUE, elsewhere |-> FALSE, pages |-> {Served}, rows |-> {Row}],
       [matrix |-> N, productionRow |-> N, elsewhere |-> Y, rows |-> {{}}])
       EXCEPT !.finds = Of("pages", Near(Served, [html |-> N, ok |-> N, noindex |-> Y, row |-> {"none", "priority", "private"}])
                                \cup {[Served EXCEPT !.ok = FALSE, !.row = "priority"]})
                        \cup Of("rows", {[Row EXCEPT !.pattern = "private", !.private = TRUE, !.indexable = FALSE],
                                     [Row EXCEPT !.pattern = "priority", !.priority = TRUE]})]
  @@ "availability-canary" :> [Audits(Recorded @@ [urls |-> {"200"}, alert |-> "in time", recipient |-> TRUE],
       RecordedAlt @@ [alert |-> {"never delivered", "late", "none"}, recipient |-> N])
       EXCEPT !.finds = Of("urls", {"not 200"}), !.misses = Of("urls", {"unreached"}), !.cuts = Of("alert", {"none"})]
  @@ "production-crawl-verify" :> [Audits([previous |-> TRUE, missedPriority |-> FALSE, pages |-> {}],
       [previous |-> N, missedPriority |-> Y])
       EXCEPT !.finds = Of("pages", Near(Then, [now |-> {"blocked", "error", "redirected"}, noindex |-> Y, otherCanonical |-> Y])
                                \cup {[Then EXCEPT !.html = FALSE, !.otherCanonical = TRUE]}),
              !.misses = Of("pages", {[Then EXCEPT !.now = "unreached"]})]
  @@ "migration-redirect-test" :> [Audits([entries |-> {}], <<>>)
       EXCEPT !.finds = Of("entries", Entries301 \cup Entries410 \cup {[Entry EXCEPT !.resolvable = FALSE]}),
              !.misses = Of("entries", EntriesUnread)]
  @@ "migration-redirects-live" :> [Audits(
       [moved |-> TRUE, sameSite |-> FALSE, elsewhere |-> FALSE, pending |-> FALSE, entries |-> {}, root |-> [status |-> 200, hops |-> 1]],
       [moved |-> N, sameSite |-> Y, elsewhere |-> Y, pending |-> Y,
        root |-> {[status |-> 200, hops |-> 0], [status |-> 500, hops |-> 1]}])
       EXCEPT !.finds = Of("entries", Entries301), !.misses = Of("entries", EntriesUnread),
              !.cuts = Of("root", {[status |-> 0, hops |-> 0]})]
  @@ "post-migration-monitor" :> [Audits([previous |-> TRUE, mapWasCorrect |-> TRUE, entries |-> {}],
       [previous |-> N, mapWasCorrect |-> N])
       EXCEPT !.finds = Of("entries", {[Watched(e) EXCEPT !.before = b] : e \in Entries301, b \in {"not held", "right", "wrong"}}
                                 \cup {[Watched(Entry) EXCEPT !.destination = "lost"]}),
              !.misses = Of("entries", {Watched(e) : e \in EntriesUnread} \cup {[Watched(Entry) EXCEPT !.destination = "unreached"]})]
  @@ "prelaunch-baseline-snapshot" :> Audits(
       [release |-> TRUE, previous |-> TRUE, settings |-> "same", crux |-> TRUE, lighthouse |-> TRUE],
       [release |-> N, previous |-> N, settings |-> {"other", "not recorded"}, crux |-> N, lighthouse |-> N])
  @@ "quarterly-regression-crawl" :> [Audits(
       [previous |-> TRUE, runsGiven |-> TRUE, ageDays |-> 100, before |-> {[probe |-> "a", page |-> "none"]}, runs |-> {}],
       [previous |-> N, runsGiven |-> N, ageDays |-> {101}, before |-> {{}}])
       EXCEPT !.finds = Of("runs", Near(Run, [outcome |-> {"fail"}, page |-> {"u1"}, probe |-> {"b"}])
                               \cup {[Run EXCEPT !.probe = "b", !.outcome = "fail"]})]
  @@ "release-regression-review" :> [Audits(
       [release |-> TRUE, previous |-> TRUE, gatesGiven |-> TRUE, passedBefore |-> {"g1"}, failingNow |-> {}, reopened |-> {}],
       [release |-> N, previous |-> N, gatesGiven |-> N, reopened |-> {{"g1"}}])
       EXCEPT !.finds = Of("failingNow", {"g1", "g2"}) \cup Of("passedBefore", {"g2"})]
  @@ "conditional-template-monitor" :> [Audits(
       [previous |-> TRUE, runsGiven |-> TRUE, runs |-> {}, before |-> [probe : {"a"}, page : Paths]],
       [previous |-> N, runsGiven |-> N, before |-> {{}}])
       EXCEPT !.finds = Of("runs", [probe : {"a"}, page : Paths, outcome : {"pass", "fail", "not-applicable"}])]

----------------------------------------------------------------------------
Document == [declared |-> TRUE, answers |-> TRUE, urls |-> 10]
Feeding == [kind |-> "plain", truncated |-> FALSE]
Listed == [onSite |-> TRUE, answer |-> "ok"]
Leaf == Html([url |-> "u1", listed |-> TRUE, canonical |-> "u1", noindex |-> FALSE, links |-> <<"u1">>, depth |-> 1])
Leaf2 == [Leaf EXCEPT !.url = "u2", !.canonical = "u2"]
Leaves == With1(Leaf2, "links", {<<>>, <<"u1", "u1">>, <<"u2", "u3">>, <<"u3">>})
Tag(tag, language, region, url) ==
  [tag |-> tag, language |-> language, region |-> region, url |-> url, onSite |-> TRUE, shaped |-> TRUE, relative |-> FALSE,
   code |-> "valid"]
En == Tag("en", "en", "none", "u1")
Fr == Tag("fr", "fr", "none", "u2")
Us == Tag("en-us", "en", "US", "u1")
Gb == Tag("en-gb", "en", "GB", "u1")
Default == Tag("x-default", "none", "none", "u1")
English == Html([url |-> "u1", landed |-> "u1", canonical |-> "u1", noindex |-> FALSE, lang |-> "en",
                 hreflang |-> <<En, Fr, Default>>, headings |-> <<"h1", "h2">>])
French == [English EXCEPT !.url = "u2", !.landed = "u2", !.canonical = "u2", !.lang = "fr", !.headings = <<"h3", "h4">>]
Tongues == Near(French, [html |-> N, noindex |-> Y, canonical |-> {"none", "u1"}, headings |-> {<<"h1", "h2">>, <<"h1">>},
             hreflang |-> {<<>>, <<Fr>>, <<En, Fr>>, <<En, Fr, Default, Default>>, <<En, Default>>, <<Us, Gb>>, <<En, [Fr EXCEPT !.url = "u1"]>>,
                           <<En, [En EXCEPT !.url = "u2"]>>, <<[Fr EXCEPT !.shaped = FALSE, !.code = "invalid"]>>,
                           <<[Fr EXCEPT !.relative = TRUE], En>>, <<[Fr EXCEPT !.code = "unsupported"], En, Default>>}])
Next2 == [fetched |-> TRUE, fragmentOnly |-> FALSE, answer |-> "ok", noindex |-> FALSE, canonical |-> "paged"]
Spelling == [answered |-> TRUE, status |-> 200, https |-> TRUE, landed |-> "www", hops |-> 1, canonical |-> "www"]
Icon == [ok |-> TRUE, image |-> TRUE, shape |-> "square"]
Agent == [stance |-> "allow", allowed |-> TRUE, answer |-> "served", userDirected |-> FALSE, token |-> FALSE]
Path == Html([uppercase |-> FALSE, underscore |-> FALSE, segments |-> 2, host |-> "www", slash |-> "with", scriptHosts |-> {}])
Glob == [covers |-> {"u1", "u2"}, exact |-> FALSE, length |-> 5, environment |-> FALSE, canonical |-> "self", priority |-> TRUE,
         status |-> 200, indexable |-> TRUE, owned |-> TRUE, overdue |-> FALSE]
Found == Html([url |-> "u1", answered |-> TRUE, onSite |-> TRUE, redirected |-> FALSE, first |-> 200, noindex |-> FALSE,
               canonical |-> "u1"])

Site ==
     "robots-txt" :> [Audits([robots |-> "rules", disallowsAll |-> FALSE, pastParseLimit |-> FALSE],
       [robots |-> {"absent", "5xx", "429"}, disallowsAll |-> Y, pastParseLimit |-> Y])
       EXCEPT !.cuts = Of("robots", {"no answer"})]
  @@ "sitemap-validity" :> [Audits([entries |-> {Listed}, documents |-> {Document}], [entries |-> {{}}])
       EXCEPT !.finds = Of("entries", [onSite : BOOLEAN, answer : {"ok", "error"}])
                \cup Of("documents", Near(Document, [declared |-> N, urls |-> {50000, 50001}])),
              !.misses = Of("entries", {[Listed EXCEPT !.answer = "none"]}) \cup Of("documents", {[Document EXCEPT !.answers = FALSE]})]
  @@ "sitemap-canonical-agreement" :> [Audits([sitemap |-> TRUE, pages |-> {Leaf}], [sitemap |-> N, pages |-> {{}}])
       EXCEPT !.finds = Of("pages", Near(Leaf2, [html |-> N, listed |-> N, canonical |-> {"none", "unusable", "u1"}]))]
  @@ "index-bloat" :> [Audits([sitemap |-> TRUE, pages |-> {Leaf}, documents |-> {Feeding}], [sitemap |-> N, documents |-> {{}}])
       EXCEPT !.finds = Of("pages", {[Leaf2 EXCEPT !.url = u, !.listed = l, !.noindex = n] : u \in {"u2", "u3", "u4"}, l, n \in BOOLEAN})
                \cup Of("documents", [kind : {"feed", "empty"}, truncated : N]),
              !.misses = Of("documents", {[Feeding EXCEPT !.truncated = TRUE]}), !.keyed = {"pages"}]
  @@ "orphan-pages" :> [Audits([seeds |-> {"u1"}, notReached |-> {}, pages |-> {Leaf}], <<>>)
       EXCEPT !.finds = Of("pages", Leaves) \cup Of("seeds", {"u2"}), !.misses = Of("notReached", {"u3"}), !.keyed = {"pages"}]
  @@ "click-depth" :> [Audits([pages |-> {Leaf}], [pages |-> {{}}])
       EXCEPT !.finds = Of("pages", Near(Leaf2, [html |-> N, depth |-> {3, 4}]))]
  @@ "internal-linking" :> [Audits([pages |-> {Leaf}], [pages |-> {{[Leaf EXCEPT !.links = <<"u2", "u2">>]}}]) EXCEPT !.finds = Of("pages", Leaves), !.keyed = {"pages"}]
  @@ "hreflang-cluster-qa" :> [Audits([pages |-> {English}], [pages |-> {{}}])
       EXCEPT !.finds = Of("pages", Tongues), !.keyed = {"pages"}]
  @@ "hreflang-implementation" :> [Audits([multilingual |-> TRUE, pages |-> {English}], [multilingual |-> N, pages |-> {{}}])
       EXCEPT !.finds = Of("pages", Tongues), !.keyed = {"pages"}]
  @@ "locale-content-parity" :> [Audits([multilingual |-> TRUE, pages |-> {English}], [multilingual |-> N, pages |-> {{}}])
       EXCEPT !.finds = Of("pages", Tongues), !.keyed = {"pages"}]
  @@ "pagination-crawl-path" :> [Audits([html |-> TRUE, series |-> {}], [html |-> N])
       EXCEPT !.finds = Of("series", Near(Next2, [fragmentOnly |-> Y, answer |-> {"error"}, noindex |-> Y, canonical |-> {"unpaged"}])),
              !.misses = Of("series", {[Next2 EXCEPT !.fetched = FALSE]})]
  @@ "host-redirect" :> [Audits([variants |-> {}], <<>>)
       EXCEPT !.finds = Of("variants", Near(Spelling, [status |-> {404}, https |-> N, landed |-> {"bare"}, hops |-> {2}, canonical |-> {"none"}])),
              !.misses = Of("variants", {[Spelling EXCEPT !.answered = FALSE]})]
  @@ "favicon-site-name" :> [Audits([html |-> TRUE, iconDeclared |-> TRUE, names |-> {"n1"}, icons |-> {}],
       [html |-> N, iconDeclared |-> N, names |-> {{}}])
       EXCEPT !.finds = Of("icons", Near(Icon, [ok |-> N, image |-> N, shape |-> {"oblong"}])) \cup Of("names", {"n2"}),
              !.misses = Of("icons", {[Icon EXCEPT !.shape = "unmeasured"]})]
  @@ "ai-crawler-directive-verify" :> [Audits([agents |-> {}], <<>>)
       EXCEPT !.finds = Of("agents", [stance : {"allow", "disallow"}, allowed : BOOLEAN, answer : {"served", "turned away"},
                                  userDirected : BOOLEAN, token : {TRUE}]),
              !.misses = Of("agents", [stance : {"allow"}, allowed : {TRUE}, answer : {"none"}, userDirected : N, token : BOOLEAN])]
  @@ "url-convention" :> [Audits([pages |-> {}], <<>>)
       EXCEPT !.finds = Of("pages", Near(Path, [html |-> N, uppercase |-> Y, underscore |-> Y, segments |-> {4, 5}]))]
  @@ "host-slash-policy" :> [Audits([pages |-> {}], <<>>)
       EXCEPT !.finds = Of("pages", Near(Path, [html |-> N, host |-> {"bare"}, slash |-> {"without", "exempt"}]))]
  @@ "third-party-budget" :> [Audits([pages |-> {}], <<>>)
       EXCEPT !.finds = Of("pages", With1(Path, "scriptHosts", {{}, 1 .. 5, 6 .. 10, 6 .. 11}))]
  @@ "url-inventory-builder" :> [Audits([dated |-> TRUE, pages |-> {Found}, matrix |-> <<Glob>>], [dated |-> N, pages |-> {{}}, matrix |-> {<<>>}])
       EXCEPT !.finds = Of("pages", Near([Found EXCEPT !.url = "u2", !.canonical = "u2"], [first |-> {301}, noindex |-> Y, canonical |-> {"u1"},
                                answered |-> N, redirected |-> Y])
                              \cup {[Found EXCEPT !.url = "u3", !.canonical = "u3"]})
                \cup Of("matrix", {[Glob EXCEPT !.covers = {"u2"}, !.exact = TRUE, !.priority = FALSE, !.indexable = FALSE],
                                   [Glob EXCEPT !.environment = TRUE], [Glob EXCEPT !.covers = {"u4"}],
                                   [Glob EXCEPT !.overdue = TRUE, !.length = 6]}),
              !.ordered = {"matrix"}, !.keyed = {"pages"}]

----------------------------------------------------------------------------
Property == [readable |-> TRUE, type |-> "domain", names |-> "parent domain"]
Measure(period, clicks) == [period |-> period, clicks |-> clicks, impressions |-> 0]
Drop == [engine |-> "google", metric |-> "clicks", change |-> -30]
Figures == [a |-> 1000, b |-> 1000, explained |-> FALSE]
Request == [crawler |-> TRUE, serverError |-> FALSE, parameterised |-> FALSE, disallowed |-> FALSE]
Submitted == [url |-> "u1", day |-> 1, foreign |-> FALSE]

Records ==
     "migration-map-builder" :> [Audits(
       Recorded @@ [kind |-> "move", old |-> {"o1"}, oldOrigin |-> TRUE, entries |-> <<[from |-> "o1", to |-> "n1"]>>],
       RecordedAlt @@ [kind |-> {"redesign"}, oldOrigin |-> N])
       EXCEPT !.finds = Of("entries", [from : {"o1", "o2", "none"}, to : {"n1", "o1", "o2"}]) \cup Of("old", {"o2"}), !.ordered = {"entries"}]
  @@ "inherited-domain-history" :> [Audits(Recorded @@ [issues |-> {}, checks |-> {"manual action"}], RecordedAlt)
       EXCEPT !.finds = Of("issues", [resolved : BOOLEAN]) \cup Of("checks", {"archive"})]
  @@ "gsc-property-ownership" :> [Audits(Recorded @@ [named |-> TRUE, owners |-> {"o1"}, property |-> Property],
       RecordedAlt @@ [named |-> N, owners |-> {{}}, property |-> Near(Property, [readable |-> N, type |-> {"url-prefix"},
                                                          names |-> {"host", "origin", "other"}])])
       EXCEPT !.finds = Of("owners", {"o2"})]
  @@ "sitemap-submit" :> [Audits(Recorded @@ [reported |-> TRUE, documents |-> {}], RecordedAlt @@ [reported |-> N])
       EXCEPT !.finds = Of("documents", [row : {"fetched", "errors"}]), !.misses = Of("documents", [row : {"none", "unfetched"}])]
  @@ "security-manual-actions" :> [Audits(Recorded @@ [open |-> {}, reports |-> {"manual actions", "security issues"}, ageDays |-> 30],
       RecordedAlt @@ [ageDays |-> {31}])
       EXCEPT !.finds = Of("open", {"hacked"}), !.cuts = Of("reports", {{"manual actions"}})]
  @@ "bing-onboarding" :> [Audits(Recorded @@ [property |-> "verified", reported |-> TRUE, rows |-> {}, documents |-> {}],
       RecordedAlt @@ [property |-> {"unverified"}, reported |-> N])
       EXCEPT !.finds = Of("rows", [url : {"d1"}, failed : BOOLEAN]) \cup Of("documents", {"d1"}), !.cuts = Of("property", {"none"})]
  @@ "reporting-anomaly-thresholds" :> [Audits(
       Recorded @@ [rhythm |-> TRUE, thresholds |-> {Drop}, anomalies |-> {}, rows |-> <<Measure(1, 10), Measure(2, 8)>>],
       RecordedAlt @@ [rhythm |-> N, rows |-> {<<>>}])
       EXCEPT !.finds = Of("rows", {Measure(2, 2), Measure(3, 5), Measure(1, 2)})
                \cup Of("thresholds", {[Drop EXCEPT !.change = 10]}) \cup Of("anomalies", [metric : {"clicks"}, disposition : BOOLEAN]),
              !.misses = Of("thresholds", {[Drop EXCEPT !.metric = "conversions"], [Drop EXCEPT !.engine = "bing"], [Drop EXCEPT !.metric = "impressions"]}),
              !.ordered = {"rows"}]
  @@ "analytics-reconciliation" :> [Audits(Recorded @@ [rows |-> {}], RecordedAlt)
       EXCEPT !.finds = Of("rows", Near(Figures, [b |-> {0, 949, 950, 899, 900}])
                                   \cup {[Figures EXCEPT !.a = 0, !.b = 0], [Figures EXCEPT !.b = 0, !.explained = TRUE]})]
  @@ "ai-visibility-baseline" :> [Audits(Recorded @@ [reports |-> {}], RecordedAlt)
       EXCEPT !.finds = Of("reports", [starts : {"since the tool", "before the tool"}, combined : BOOLEAN]),
              !.misses = Of("reports", [starts : {"unreadable"}, combined : N])]
  @@ "log-file-analysis" :> [Audits(Recorded @@ [hits |-> <<Request, Request, Request>>], RecordedAlt @@ [hits |-> {<<>>}])
       EXCEPT !.finds = Of("hits", Near(Request, [crawler |-> N, serverError |-> Y, parameterised |-> Y, disallowed |-> Y])),
              !.ordered = {"hits"}]
  @@ "indexnow-integration" :> [Audits(
       Recorded @@ [originRead |-> TRUE, keyFile |-> "right", log |-> <<Submitted, Submitted, Submitted, Submitted, Submitted>>],
       RecordedAlt @@ [originRead |-> N, keyFile |-> {"missing", "wrong content"}, log |-> {<<>>}])
       EXCEPT !.finds = Of("log", Near(Submitted, [url |-> {"u2"}, foreign |-> Y])),
              !.cuts = Of("keyFile", {"not requested"}), !.ordered = {"log"}]
  @@ "backlink-monitor" :> Audits(Recorded @@ [submitted |-> TRUE, reasons |-> TRUE, removalAttempts |-> TRUE],
       RecordedAlt @@ [submitted |-> N, reasons |-> N, removalAttempts |-> N])
  @@ "competitor-serp-baseline" :> [Audits(Recorded @@ [originRead |-> TRUE, blank |-> {}, competitors |-> {"c1"}],
       RecordedAlt @@ [originRead |-> N, competitors |-> {{}}])
       EXCEPT !.finds = Of("blank", {"q1"}) \cup Of("competitors", {"c2", "own host"})]
  @@ "monitoring-incident-sla" :> [Audits(Recorded @@ [entries |-> {}, interval |-> 30, testAge |-> 30], RecordedAlt @@ [testAge |-> {31}])
       EXCEPT !.finds = Of("entries", [owned : BOOLEAN, remediated : BOOLEAN]), !.cuts = Of("testAge", {-1})]
  @@ "offpage-reputation-governance" :> [Audits(Recorded @@ [destinations |-> {}], RecordedAlt)
       EXCEPT !.finds = Of("destinations", [overdue : BOOLEAN, owned : BOOLEAN])]
  @@ "digital-pr-tracking" :> [Audits(Recorded @@ [wins |-> {}], RecordedAlt) EXCEPT !.finds = Of("wins", {"earned", "paid"})]

SiteCase == Commerce @@ Markup @@ Qa @@ Site @@ Records

=============================================================================
