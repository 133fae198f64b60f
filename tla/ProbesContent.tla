--------------------------- MODULE ProbesContent ---------------------------
(***************************************************************************)
(* packages/probes/src/probes/content.ts: reading matter, authorship and   *)
(* dates, trust pages, duplicated output, migrated and reviewed content.   *)
(* Where a verdict counts pages, one element stands for `many` alike.      *)
(***************************************************************************)
EXTENDS Probing, FiniteSetsExt

(* A section: its heading's level (0: none), whether that asks, its words. *)
AnswerFirstStructure(p) ==
  LET words == MapThenSumSet(LAMBDA i : p.sections[i].words, DOMAIN p.sections)
      unanswered(i) ==
        /\ p.sections[i].question /\ p.sections[i].level > 0 /\ p.sections[i].words = 0
        /\ \/ i = Len(p.sections)
           \/ p.sections[i + 1].level <= p.sections[i].level
  IN OnHtml(p, Ladder(<< <<~p.ok, "not-applicable">>,
       <<p.truncated, "error">>,
       <<~p.article /\ words < 300, "not-applicable">>,
       <<words >= 600 /\ \A i \in DOMAIN p.sections : p.sections[i].level < 2, "warn">>,
       <<\E i \in DOMAIN p.sections : unanswered(i), "warn">> >>, "pass"))

(* stampOf: one timed value on at least five articles and on four in five  *)
(* of those that declare one.                                              *)
Stamped(articles, field) ==
  LET declaring == {a \in articles : a[field] # "none"}
      count(v) == MapThenSumSet(LAMBDA a : a.many, {a \in declaring : a[field] = v})
      all == MapThenSumSet(LAMBDA a : a.many, declaring)
  IN \E v \in {a[field] : a \in declaring} \ {"a day"} :
       count(v) >= 5 /\ count(v) * 10 >= all * 8

AuthorDateSignals(s) ==
  LET declared == {p \in Read(s.pages) : p.article}
      articles == {p \in declared : ~p.truncated}
  IN Ladder(<< <<articles = {} /\ declared # {}, "error">>,
               <<articles = {}, "not-applicable">> >>,
       Weigh(\E a \in articles : a.dates \in {"unreadable", "modified first", "in the future"},
             \/ \E a \in articles : (a.typed /\ ~a.author) \/ a.dates = "absent"
             \/ Stamped(articles, "published") \/ Stamped(articles, "modified")))

TrustCategory == {"About", "Contact", "Privacy policy", "Terms"}

(* A link to a trust page, by category, and what the crawl knows of its    *)
(* target.  One target that answers answers for its category.              *)
TrustPagesPresence(s) ==
  LET links == UNION {p.links : p \in Read(s.pages)}
      targets(c) == {l.target : l \in {k \in links : k.category = c}}
      unanswered == {c \in TrustCategory : "answers" \notin targets(c)}
  IN Ladder(<< <<Read(s.pages) = {}, "not-applicable">>,
               <<\E c \in unanswered : "broken" \in targets(c), "fail">>,
               <<unanswered # {}, "warn">> >>, "pass")

OutboundLinkQualification(s) ==
  LET sponsored == {p \in Read(s.pages) : p.sponsored}
  IN Ladder(<< <<sponsored = {}, "not-applicable">>,
               <<\E p \in sponsored : "unqualified" \in p.links, "fail">> >>, "pass")

(* The outline of a page, its headings and the words under each; "short"   *)
(* when it has fewer than two headings.                                    *)
BatchPageQuality(s) ==
  LET html == {p \in Read(s.pages) : ~p.truncated}
      batch(o) == MapThenSumSet(LAMBDA p : p.many, {p \in html : p.outline = o})
  IN Ladder(<< <<~s.flagged \/ html = {}, "not-applicable">>,
               <<\E o \in {p.outline : p \in html} \ {"short"} : batch(o) >= 3, "fail">> >>, "pass")

(* Pages are counted by the address they were served from.                 *)
Cannibalization(s) ==
  LET candidates == {p \in Read(s.pages) : ~p.noindex /\ p.canonical \in {"none", "self", "unusable"}}
      shared(field) ==
        \E p, q \in candidates : p.landed # q.landed /\ p[field] = q[field] /\ p[field] # "none"
  IN Ladder(<< <<Cardinality({p.landed : p \in candidates}) < 2, "not-applicable">>,
               <<shared("title") \/ shared("h1"), "fail">> >>, "pass")

LaunchContentCompleteness(p) ==
  OnHtml(p, Ladder(<< <<~p.ok \/ p.noindex, "not-applicable">>,
                      <<p.truncated, "error">>,
                      <<p.words = 0 \/ p.placeholder, "fail">>,
                      <<p.words < 50, "warn">> >>, "pass"))

(* A redirect-map entry whose two addresses can be used.                   *)
ContentParityDiff(s) ==
  LET known == {e \in s.entries : e.oldReached}
      compared == {e \in known : e.destination = "read"}
  IN Ladder(<< <<~s.mapped \/ ~s.previous, "not-applicable">>,
               <<\E e \in compared : e.h1 = "unrelated" \/ 2 * e.words < e.oldWords \/ e.canonicalElsewhere, "fail">>,
               <<known = {}, "not-applicable">>,
               <<\E e \in compared : e.retitled, "warn">>,
               <<compared # known \/ HeldRecord(s.record, s.dated), "warn">> >>, "pass")

(* A Performance row: the start of its period (0: the period has no date), *)
(* its page, its clicks, and whether it is of one query.                   *)
ContentDecay(s) ==
  LET rows == {r \in s.rows : ~r.query}
      periods == {r.period : r \in rows}
      clicks(p, u) == MapThenSumSet(LAMBDA r : r.clicks, {r \in rows : r.period = p /\ r.page = u})
      later == CHOOSE p \in periods : \A q \in periods : q <= p
      earlier == CHOOSE p \in periods \ {later} : \A q \in periods \ {later} : q <= p
      declining == {u \in {r.page : r \in rows} :
                      clicks(earlier, u) >= 100 /\ clicks(later, u) * 10 < clicks(earlier, u) * 7}
      undecided(u) == \A d \in s.decisions : d.page # u
  IN IF ~s.exported \/ Cardinality(periods) < 2 THEN "not-applicable"
     ELSE IF 0 \in periods THEN "warn"
     ELSE Ladder(<< <<\E u \in declining : undecided(u), "fail">>,
                    <<\E d \in s.decisions : d.page \in declining /\ HeldRecord(d, s.dated), "warn">> >>,
                 "pass")

ContentHelpfulness(s) ==
  IF ~s.supplied THEN "not-applicable" ELSE
  Weigh(\E r \in s.reviews : r.verdict = "fails" \/ r.page \in {"unreachable", "noindex"},
        \/ \E r \in s.reviews : r.verdict = "needs-work"
        \/ "unreviewed" \in s.priority)

KeywordIntentMap(s) ==
  LET indexable == {p \in s.pages : p.ok /\ ~p.noindex}
      unmapped == {p \in indexable : ~p.mapped}
  IN Ladder(<< <<~s.supplied, "not-applicable">>,
               <<s.uncrawled \/ \E p \in s.pages : p.mapped /\ p \notin indexable, "fail">>,
               <<Cardinality(unmapped) * 2 > Cardinality(indexable), "warn">> >>, "pass")

=============================================================================
