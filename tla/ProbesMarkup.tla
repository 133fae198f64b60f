---------------------------- MODULE ProbesMarkup ---------------------------
(***************************************************************************)
(* packages/probes/src/probes/markup.ts: document structure, analytics,    *)
(* reviews and comments, organisation markup, and structured data after    *)
(* scripts and since the previous audit.                                   *)
(***************************************************************************)
EXTENDS Probing

SemanticHtml(p) ==
  OnHtml(p, Ladder(<< <<"main" \notin p.landmarks, "fail">>,
                      <<{"header", "nav", "footer"} \subseteq p.landmarks, "pass">> >>, "warn"))

(* p.headings: [level, short] in document order.                           *)
Firsts(p) == {i \in DOMAIN p.headings : p.headings[i].level = 1}

HeadingOutline(p) ==
  LET before(i) == IF i = 1 THEN 1 ELSE p.headings[i - 1].level
  IN OnHtml(p, Ladder(<< <<Firsts(p) = {}, "fail">>,
                         <<Cardinality(Firsts(p)) > 1, "warn">>,
                         <<\E i \in DOMAIN p.headings : p.headings[i].level > before(i) + 1, "warn">> >>,
                      "pass"))

PrimaryHeading(p) ==
  OnHtml(p, IF \E i \in Firsts(p) : ~p.headings[i].short /\ \A j \in Firsts(p) : i <= j
            THEN "pass" ELSE "fail")

CrawlableLinks(p) ==
  OnHtml(p, Weigh("internal" \notin p.links, "scripted" \in p.links))

LangAttribute(p) == OnHtml(p, IF p.lang = "well formed" THEN "pass" ELSE "fail")

Soft404(p) ==
  OnHtml(p, IF ~p.ok THEN "not-applicable" ELSE Weigh(p.apology, p.words < 50))

----------------------------------------------------------------------------
(* Analytics.                                                              *)

AnalyticsImplementation(s) ==
  LET tagged == {p \in Read(s.pages) : p.ids # {}}
  IN Ladder(<< <<\E p \in Read(s.pages) : p.tagTwice, "fail">>,
               <<tagged = {}, "warn">>,
               <<\E p, q \in tagged : p.ids # q.ids, "fail">> >>, "pass")

(* p.scripts: the page's scripts in document order.                        *)
ConsentModeConfig(p) ==
  LET at(kind) == {i \in DOMAIN p.scripts : p.scripts[i] = kind}
      inTime == \E d \in at("consent default") : \A t \in at("google tag") : d < t
  IN OnHtml(p, Ladder(<< <<at("google tag") = {}, "not-applicable">>,
                         <<inTime, "pass">>,
                         <<at("consent default") # {}, "fail">>,
                         <<at("banner") # {}, "fail">> >>, "warn"))

(* p.hits: collect hits, the event each carries and how often; p.expected: *)
(* the events planned as sent on loading this page.                        *)
AnalyticsConsentMatrix(p) ==
  LET missing == IF p.denied THEN {} ELSE p.expected \ {h.event : h \in p.hits}
  IN OnHtml(p, Ladder(<< <<~p.supplied \/ p.render = "not asked for", "not-applicable">>,
       <<p.render = "failed", "error">>,
       <<p.render = "no requests", "not-applicable">>,
       <<p.denied /\ p.hits # {}, "fail">>,
       <<\E h \in p.hits : h.event # "none" /\ h.times > 1, "fail">>,
       <<missing # {} /\ ~p.cut, "fail">>,
       <<missing # {} \/ HeldRecord(p.record, p.dated), "warn">> >>, "pass"))

(* A rendered page: the events planned to fire there, its hits, and        *)
(* whether its request list was cut.                                       *)
LiveAnalyticsSmoke(s) ==
  LET sent(renders) == UNION {{h.event : h \in r.hits} : r \in renders}
      triggered(e) == {r \in s.renders : e.name \in r.fires}
      unseen == {e \in s.events : e.expected /\ e.name \notin sent(triggered(e))}
      absent == {e \in unseen : \E r \in triggered(e) : ~r.cut}
      leaked == \E e \in s.events : ~e.expected /\ e.name \in sent(s.renders)
  IN Ladder(<< <<~s.supplied \/ ~OnProduction(s) \/ s.renders = {}, "not-applicable">>,
               <<absent # {} \/ leaked, "fail">>,
               <<\E r \in s.renders : \E h \in r.hits : h.property = "unlisted", "fail">>,
               <<unseen # {} \/ HeldRecord(s.record, s.dated), "warn">> >>, "pass")

----------------------------------------------------------------------------
(* Reviews, comments and the organisation.                                 *)

ReviewIntegrity(s) ==
  LET html == {p \in s.pages : p.html}
      nodes == UNION {p.nodes : p \in html}
      selfNames == UNION {p.names : p \in html}
  IN IF nodes = {} THEN "not-applicable" ELSE
     Weigh(\E n \in nodes : \/ n.review /\ (n.subject \in selfNames \/ ~n.author)
                            \/ n.aggregate /\ n.zero,
           \E n \in nodes : n.review /\ ~n.dated)

UgcGovernance(s) ==
  LET ugc == {p \in Read(s.pages) : p.comments \/ \E r \in p.regions : r.form}
  IN Ladder(<< <<ugc = {}, "not-applicable">>,
               <<\E p \in ugc : \E r \in p.regions : "unqualified" \in r.links, "fail">> >>, "pass")

(* A branch (LocalBusiness) may carry a name of its own.                   *)
BrandEntityConsistency(s) ==
  LET organizations == UNION {p.organizations : p \in {q \in s.pages : q.html}}
      seen == UNION {o.sameAs : o \in organizations}
  IN IF ~s.supplied THEN "not-applicable" ELSE
     Weigh(\/ ~(seen \subseteq s.listed)
           \/ \E o \in organizations : o.name = "another" /\ ~o.branch,
           ~(s.listed \subseteq seen) \/ HeldRecord(s.record, s.dated))

(* A location's page and what its LocalBusiness nodes say; the node that   *)
(* disagrees least stands for the location.                                *)
GbpSetup(s) ==
  LET marked == {l \in s.locations : l.reached /\ l.nodes # {}}
  IN IF ~s.supplied \/ ~s.eligible THEN "not-applicable" ELSE
     Weigh(\E l \in marked : "agrees" \notin l.nodes,
           \/ ~s.verified \/ s.locations = {} \/ marked # s.locations
           \/ HeldRecord(s.record, s.dated))

----------------------------------------------------------------------------
(* Structured data: <<type, id>> pairs ("none": the node has no @id), as   *)
(* the response declares them and as the rendered page does.               *)

SchemaValidationParity(p) ==
  LET types(nodes) == {n[1] : n \in nodes}
      gone == types(p.raw) \ types(p.rendered)
      changed == {n \in p.raw : n[2] # "none" /\ n \notin p.rendered}
  IN OnHtml(p, Ladder(<< <<p.unparsed, "fail">>,
       <<p.render = "not asked for", "pass">>,
       <<p.render \in {"failed", "empty"}, "error">>,
       <<p.unparsedAfter \/ gone # {} \/ changed # {}, "fail">>,
       <<types(p.rendered) # types(p.raw), "warn">> >>, "pass"))

(* Pages both audits read with a 200, and hreflang pairs that answered     *)
(* each other before, with both ends crawled again.                        *)
SchemaHreflangMaintenance(s) ==
  LET compared == {p \in Read(s.pages) : p.okBefore}
  IN Ladder(<< <<~s.previous \/ (compared = {} /\ s.pairs = {}), "not-applicable">>,
               <<\E p \in compared : p.lostTypes /\ p.unparsed, "fail">>,
               <<"lapsed" \in s.pairs, "fail">>,
               <<\E p \in compared : p.lostTypes, "warn">> >>, "pass")

=============================================================================
