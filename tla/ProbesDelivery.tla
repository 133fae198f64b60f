--------------------------- MODULE ProbesDelivery --------------------------
(***************************************************************************)
(* packages/probes/src/probes/delivery.ts: status, redirects, transport,   *)
(* size limits, performance budgets and field data.                        *)
(***************************************************************************)
EXTENDS Probing

(* Status 0: none was recorded.                                            *)
HttpStatus(p) == IF p.failed \/ p.status = 0 \/ p.status >= 400 THEN "fail" ELSE "pass"

RedirectChain(p) == IF p.hops = 0 THEN "pass" ELSE "warn"

HttpsEnforcement(p) == IF p.https THEN "pass" ELSE "fail"

MixedContent(p) ==
  OnHtml(p, Ladder(<< <<~p.https, "not-applicable">>,
                      <<"http" \in p.subresources, "fail">> >>, "pass"))

SecurityHeaders(p) ==
  LET missing == (IF p.https THEN {"strict-transport-security"} ELSE {})
                   \cup {"nosniff", "framing policy", "referrer-policy"}
  IN IF missing \subseteq p.headers THEN "pass" ELSE "warn"

CompressionCache(p) ==
  Ladder(<< <<~p.text, "not-applicable">>,
            <<{"encoding", "validity"} \subseteq p.headers, "pass">> >>, "warn")

(* s.protocol: what the TLS handshake of the crawl settled, if one was.    *)
HttpVersion(s) ==
  Ladder(<< <<~s.rootFetched, "error">>,
            <<~s.https, "warn">>,
            <<s.protocol = "h2" \/ s.advertisesH3, "pass">>,
            <<s.protocol \in {"not recorded", "failed"}, "error">> >>, "warn")

ExpiryWarningDays == 30

DomainExpiryRdap(s) ==
  Ladder(<< <<s.rdap = "none" /\ ~s.registrable, "not-applicable">>,
            <<s.rdap \in {"none", "failed"}, "error">>,
            <<s.lapsing, "fail">>,
            <<~s.expiryRead, "error">>,
            <<s.daysLeft < 0, "fail">>,
            <<s.daysLeft <= ExpiryWarningDays, "warn">> >>, "pass")

----------------------------------------------------------------------------
(* Googlebot's limit, on the two readings of a megabyte.                   *)

FetchLimit == [decimal |-> 2000000, binary |-> 2 * 1024 * 1024]
PdfFetchLimit == [decimal |-> 64000000, binary |-> 64 * 1024 * 1024]

(* f.declared: the Content-Length of an unencoded response, else -1.       *)
MeasureBody(f) ==
  IF f.truncated /\ f.declared >= f.bytes THEN [bytes |-> f.declared, exact |-> TRUE]
  ELSE [bytes |-> f.bytes, exact |-> ~f.truncated]

JudgeSize(f, limit) ==
  LET size == MeasureBody(f)
  IN Ladder(<< <<size.bytes > limit.binary, "fail">>,
               <<~size.exact, "error">>,
               <<4 * size.bytes >= 3 * limit.decimal, "warn">> >>, "pass")

(* SEVERITY: the worst of the document and its fetched assets is reported. *)
CrawlerFetchLimit(p) ==
  LET said == {JudgeSize(p.document, IF p.pdf THEN PdfFetchLimit ELSE FetchLimit)}
                \cup {JudgeSize(a, FetchLimit) : a \in p.assets}
  IN Ladder(<< <<~p.served \/ ~p.indexedType, "not-applicable">>,
               <<"fail" \in said, "fail">>,
               <<"error" \in said, "error">>,
               <<"warn" \in said, "warn">> >>, "pass")

PrivateResponseCaching(p) ==
  Ladder(<< <<~p.public, "not-applicable">>,
            <<p.setsCookie \/ p.variesByCookie, "fail">> >>, "pass")

(* A linked stylesheet or script: of another site, allowed or disallowed.  *)
IndexabilityMatrixReconciliation(p) ==
  LET blocked == {r \in p.resources : r.robots = "disallowed"}
  IN OnHtml(p, IF p.resources = {} THEN "not-applicable" ELSE
       Weigh(\E r \in blocked : r.stylesheet, blocked # {}))

----------------------------------------------------------------------------
(* A Lighthouse report against the policy supplied with it.                *)

ReportSays(r) ==
  Ladder(<< <<~r.read, "held">>,
            <<~r.policyProfile \/ r.over, "broken">>,
            <<r.missing, "held">> >>, "inside")

LabPerfBudget(s) ==
  Ladder(<< <<~s.policy, "not-applicable">>,
            <<\E r \in s.reports : ReportSays(r) = "broken", "fail">>,
            <<s.reports = {} \/ HeldRecord(s.record, s.dated), "warn">>,
            <<\E r \in s.reports : ReportSays(r) = "held" \/ r.run = "before the revision", "warn">> >>, "pass")

(* r.row: the priority row of the URL matrix whose pattern the report fits.*)
TemplateLabPerf(s) ==
  LET stale(r) == r.read /\ r.run = "before the revision"
      current(row) == {r \in s.reports : r.row = row /\ ~stale(r)}
      judged == UNION {current(row) : row \in s.rows}
  IN Ladder(<< <<~s.policy \/ s.rows = {}, "not-applicable">>,
               <<\E row \in s.rows : current(row) = {}, "fail">>,
               <<\E r \in judged : ReportSays(r) = "broken", "fail">>,
               <<\E r \in judged : ReportSays(r) = "held" \/ r.run = "undated", "warn">>,
               <<HeldRecord(s.record, s.dated), "warn">> >>, "pass")

(* p.lcp: the element a supplied report names; p.named: whether the raw    *)
(* body, as far as it was read, holds the image's source.                  *)
LcpElementStrategy(p) ==
  LET heldBack == p.lazy \/ p.lowPriority
  IN OnHtml(p, Ladder(<< <<p.lcp = "no report", "not-applicable">>,
       <<p.lcp = "unnamed", "warn">>,
       <<p.lcp = "media" /\ heldBack, "fail">>,
       <<p.lcp = "media" /\ p.sourced /\ p.truncated, "error">>,
       <<p.lcp = "media" /\ p.sourced /\ ~p.named, "fail">>,
       <<p.lcp = "media", "pass">>,
       <<"without display" \in p.fontFaces, "warn">>,
       <<p.fontFaces = {}, "not-applicable">> >>, "pass"))

----------------------------------------------------------------------------
(* gradeFieldVital; lcp and inp in ms, cls in hundredths; -1: no value.    *)

GoodVital == [lcp |-> 2500, inp |-> 200, cls |-> 10]
PoorVital == [lcp |-> 4000, inp |-> 500, cls |-> 25]

GradeFieldVital(metric, p75) ==
  IF p75 <= GoodVital[metric] THEN "good"
  ELSE IF p75 <= PoorVital[metric] THEN "needs-improvement" ELSE "poor"

FieldCwvMonitor(s) ==
  LET values == {v \in s.vitals : v.p75 >= 0}
  IN Ladder(<< <<~s.supplied, "not-applicable">>,
               <<\E v \in values : GradeFieldVital(v.metric, v.p75) = "poor" /\ ~v.action, "fail">>,
               <<s.vitals = {} \/ values # s.vitals, "warn">>,
               <<HeldRecord(s.record, s.dated), "warn">> >>, "pass")

SecurityDependencyMaintenance(s) ==
  LET critical == {v \in s.vulnerabilities : ~v.fixed /\ v.critical}
  IN IF ~s.supplied THEN "not-applicable" ELSE
     Weigh(\E v \in critical : ~v.owned,
           critical # {} \/ "names a version" \in s.banners \/ HeldRecord(s.record, s.dated))

=============================================================================
