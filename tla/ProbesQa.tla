----------------------------- MODULE ProbesQa ------------------------------
(***************************************************************************)
(* packages/probes/src/probes/qa.ts: links and metadata across the crawl,  *)
(* CI guards, the production smoke tests, migrations, and comparisons with *)
(* the previous audit.                                                     *)
(***************************************************************************)
EXTENDS Probing

(* stateOf, and what became of a target nothing was asked of.  Only off    *)
(* the site is a refusal no answer.                                        *)
TargetState(link) ==
  Ladder(<< <<link.answer \in {"blocked", "ok"}, link.answer>>,
            <<link.answer \in {"not fetched", "none", "429"}, "unverified">>,
            <<link.answer = "refused" /\ link.external, "unverified">> >>, "broken")

BrokenLinks(s) ==
  LET said == {TargetState(l) : l \in s.links}
  IN IF said = {} THEN "not-applicable" ELSE Weigh("broken" \in said, "unverified" \in said)

----------------------------------------------------------------------------
(* Metadata and indexing signals.  p.landed: where the page's address      *)
(* ended; a page that answered no status is "unanswered".                  *)

(* unusableCanonical: why a fetched page cannot be indexed as itself.      *)
UnusableCanonical(t) == t.answer # "unanswered" /\ (t.redirected \/ t.answer = "error" \/ t.noindex)

MetadataCompleteness(s) ==
  LET fetched(url) == {q \in s.pages : q.url = url}
      judged == {p \in Read(s.pages) : p.landed = p.url \/ fetched(p.landed) = {}}
      elsewhere(p) == p.canonical \notin {"none", "unusable", p.landed}
      answering(t) == IF fetched(t.landed) = {} THEN {t} ELSE fetched(t.landed)
      returns(p, t) == \/ t.landed = p.landed
                       \/ t.landed # t.url /\ \E q \in answering(t) : q.canonical = t.url
      unusable(p) == {t \in fetched(p.canonical) : elsewhere(p) /\ UnusableCanonical(t)}
      conflict(p) == \/ p.contradictory
                     \/ p.noindex /\ (p.listed \/ elsewhere(p))
                     \/ ~p.noindex /\ \E t \in unusable(p) : ~returns(p, t)
      indexable == {p \in judged : ~p.noindex}
      whole == {p \in indexable : ~p.truncated}
  IN Ladder(<< <<Read(s.pages) = {}, "not-applicable">>,
               <<s.listedBlocked \/ \E p \in judged : conflict(p), "fail">>,
               <<\E p \in whole : ~p.titled, "fail">>,
               <<indexable = {}, "pass">>,
               <<whole = {}, "error">>,
               <<\E p \in indexable : unusable(p) # {}, "warn">>,
               <<\E p \in whole : ~p.described \/ p.canonical = "none", "warn">>,
               <<whole # indexable, "warn">> >>, "pass")

RawRenderedCrawlDiff(s) ==
  LET rendered == {p \in s.pages : p.render # "not asked for"}
      compared == {p \in rendered : p.render = "read"}
      rawLinks == UNION {p.rawLinks : p \in {q \in s.pages : q.html}}
  IN Ladder(<< <<rendered = {}, "not-applicable">>,
               <<compared = {}, "error">> >>,
            Weigh(\E p \in compared : p.endsElsewhere \/ p.answersOtherwise,
                  \E p \in compared : ~(p.renderedLinks \subseteq rawLinks)))

----------------------------------------------------------------------------
(* Supplied records.  These detectors hold a record they cannot date.      *)

CI_GUARD_DEFECTS == {"noindex", "canonical", "crawler access", "critical link"}

CiSeoGuards(s) ==
  IF ~s.supplied THEN "not-applicable" ELSE
  Weigh(~(CI_GUARD_DEFECTS \subseteq s.caught) \/ ~s.cleanRun,
        ~s.dated \/ HeldRecord(s.record, s.dated))

CiExtendedChecks(s) ==
  Ladder(<< <<s.rules = {}, "not-applicable">>,
            <<\E r \in s.rules : ~r.severity \/ r.noisy \/ HeldRecord(r, s.dated), "warn">> >>, "pass")

(* p.row: the most specific row that fits the page ("none": no row does).  *)
ProductionSmokeTest(s) ==
  LET broken(p, r) == \/ r.priority /\ ~p.ok
                      \/ r.private /\ p.ok
                      \/ r.indexable /\ p.html /\ p.ok /\ p.noindex
      reached == {p.row : p \in s.pages}
  IN Ladder(<< <<~s.matrix \/ ~OnProduction(s), "not-applicable">>,
               <<\E p \in s.pages : \E r \in s.rows : p.row = r.pattern /\ broken(p, r), "fail">>,
               <<\E r \in s.rows : r.priority /\ ~r.private /\ r.pattern \notin reached, "warn">> >>,
            "pass")

(* s.urls: what the crawl knows of each canary; s.alert: the test alert.   *)
AvailabilityCanary(s) ==
  IF ~s.supplied THEN "not-applicable" ELSE
  Weigh("not 200" \in s.urls \/ s.alert \in {"never delivered", "late"},
        \/ "unreached" \in s.urls \/ s.alert = "none" \/ ~s.recipient
        \/ ~s.dated \/ HeldRecord(s.record, s.dated))

----------------------------------------------------------------------------
(* Against the previous audit.  An entry of s.pages is a page that audit   *)
(* found indexable, and what the crawl now knows of its address.           *)

ProductionCrawlVerify(s) ==
  LET lost(p) == \/ p.now \in {"blocked", "error"}
                 \/ p.now = "200" /\ (p.noindex \/ (p.html /\ p.otherCanonical))
  IN IF ~s.previous THEN "not-applicable" ELSE
     Weigh(s.missedPriority \/ \E p \in s.pages : lost(p),
           \E p \in s.pages : p.now = "unreached")

(* Mutant: an entry nothing was asked of is passed over.                   *)
TestEntryAnswered(e) ==
  IF ~e.resolvable \/ ~e.requested THEN "skipped"
  ELSE IF e.looped \/ e.status >= 400 \/ e.hops # 1 THEN "wrong" ELSE "right"

(* testRedirectMap: an entry of the map, and what its old URL answered.    *)
(* Status 0: none.                                                         *)
TestEntry(e) ==
  LET gone == e.expect \in {404, 410}
  IN Ladder(<< <<~e.resolvable, "skipped">>,
               <<~e.requested, "unrequested">>,
               <<e.looped, "wrong">>,
               <<e.status = 0, "unanswered">>,
               <<gone /\ (e.hops > 0 \/ e.status # e.expect), "wrong">>,
               <<~gone /\ (e.hops # 1 \/ e.first # e.expect), "wrong">>,
               <<~gone /\ (~e.endsThere \/ e.status >= 400), "wrong">> >>, "right")
Tested(entries) == {TestEntry(e) : e \in entries}

MigrationRedirectTest(s) ==
  IF s.entries = {} THEN "not-applicable" ELSE
  Weigh("wrong" \in Tested(s.entries),
        Tested(s.entries) \cap {"unrequested", "unanswered"} # {})

RootState(root) ==
  Ladder(<< <<root.status = 0, "unverified">>,
            <<root.hops = 0 \/ root.status >= 400, "broken">> >>, "redirects")

MigrationRedirectsLive(s) ==
  IF ~s.moved \/ s.sameSite \/ s.elsewhere THEN "not-applicable" ELSE
  Weigh("wrong" \in Tested(s.entries) \/ RootState(s.root) = "broken",
        \/ Tested(s.entries) \cap {"unrequested", "unanswered"} # {}
        \/ RootState(s.root) = "unverified" \/ s.pending)

(* e.before: how the earlier crawl found the old URL, if it holds it;      *)
(* e.destination: a page a permanent redirect names, indexable then.       *)
PostMigrationMonitor(s) ==
  LET watched == {e \in s.entries : e.resolvable}
      wrong == {e \in watched : TestEntry(e) = "wrong"}
      wasRight(e) == IF e.before = "not held" THEN s.mapWasCorrect ELSE e.before = "right"
      destinations == {e.destination : e \in {d \in watched : d.expect \in {301, 308}}}
  IN IF s.entries = {} \/ ~s.previous THEN "not-applicable" ELSE
     Weigh((\E e \in wrong : wasRight(e)) \/ "lost" \in destinations,
           \/ wrong # {} \/ "unreached" \in destinations
           \/ Tested(s.entries) \cap {"unrequested", "unanswered"} # {})

PrelaunchBaselineSnapshot(s) ==
  Ladder(<< <<~s.release, "not-applicable">>,
            <<~s.previous \/ s.settings = "other", "fail">>,
            <<s.settings = "not recorded" \/ ~s.crux \/ ~s.lighthouse, "warn">> >>, "pass")

QuarterlyMaxAgeDays == 100

(* A run's page is "none" for a site detector; s.before: what passed then. *)
QuarterlyRegressionCrawl(s) ==
  LET regressed(r) == r.outcome = "fail" /\ \E b \in s.before : b.probe = r.probe /\ b.page = r.page
  IN Ladder(<< <<~s.previous, "not-applicable">>,
               <<~s.runsGiven, "error">>,
               <<\E r \in s.runs : regressed(r), "fail">>,
               <<s.ageDays > QuarterlyMaxAgeDays, "warn">> >>, "pass")

ReleaseRegressionReview(s) ==
  Ladder(<< <<~s.release \/ ~s.previous, "not-applicable">>,
            <<~s.gatesGiven, "error">>,
            <<(s.passedBefore \cap s.failingNow) \ s.reopened # {}, "fail">> >>, "pass")

(* urlTemplate: a path's segments, ids and slugs collapsed.                *)
UrlTemplate(path) ==
  [i \in DOMAIN path |->
     CASE path[i].kind \in {"number", "hex", "has a digit"} -> ":id"
       [] path[i].kind = "hyphenated" -> ":slug"
       [] path[i].kind = "word" -> path[i].text]

(* The runs that passed before and observed something now, by template.    *)
ConditionalTemplateMonitor(s) ==
  LET counted == {r \in s.runs : /\ r.outcome \in {"pass", "warn", "fail"}
                                 /\ \E b \in s.before : b.probe = r.probe /\ b.page = r.page}
      group(r) == {q \in counted : q.probe = r.probe /\ UrlTemplate(q.page) = UrlTemplate(r.page)}
      broken(g) == Cardinality(g) >= 2 /\ 2 * Cardinality({r \in g : r.outcome = "fail"}) >= Cardinality(g)
  IN Ladder(<< <<~s.previous, "not-applicable">>,
               <<~s.runsGiven, "error">>,
               <<\E r \in counted : broken(group(r)), "fail">> >>, "pass")

=============================================================================
