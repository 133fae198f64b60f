------------------------------ MODULE ProbeRun -----------------------------
(***************************************************************************)
(* packages/probes: registry.ts (which detector an id names, and how one   *)
(* audit runs them all), matrix.ts (what the corpus asks for against what  *)
(* is implemented) and previous.ts (what one audit leaves the next).       *)
(***************************************************************************)
EXTENDS ProbesMarkedUp, ProbesContent, ProbesDelivery, ProbesIndexing, ProbesCommerce,
        ProbesMarkup, ProbesQa, ProbesSite, ProbesRecords

LOCAL INSTANCE SequencesExt

(* PROBES: the detector registered under an id, on the facts of its page   *)
(* or site.                                                                *)
Observe(probe, f) ==
  CASE probe = "canonicalization" -> Canonicalization(f)
    [] probe = "meta-description" -> MetaDescription(f)
    [] probe = "title-uniqueness" -> TitleTag(f)
    [] probe = "social-metadata" -> SocialMetadata(f)
    [] probe = "breadcrumblist-schema" -> BreadcrumbListSchema(f)
    [] probe = "breadcrumb-navigation" -> BreadcrumbNavigation(f)
    [] probe = "schema-eligibility-matrix" -> SchemaEligibilityMatrix(f)
    [] probe = "content-accessibility" -> ContentAccessibility(f)
    [] probe = "axe-accessibility" -> AxeAccessibility(f)
    [] probe = "manual-a11y-evaluation" -> ManualA11yEvaluation(f)
    [] probe = "a11y-regression-sampling" -> A11yRegressionSampling(f)
    [] probe = "mobile-journey-qa" -> MobileJourneyQa(f)
    [] probe = "image-alt-quality" -> ImageAltQuality(f)
    [] probe = "image-dimensions" -> ImageDimensions(f)
    [] probe = "responsive-media" -> ResponsiveMedia(f)
    [] probe = "lcp-not-lazy" -> LcpNotLazy(f)
    [] probe = "media-alternatives" -> MediaAlternatives(f)
    [] probe = "image-discoverability" -> ImageDiscoverability(f)
    [] probe = "publisher-discover-readiness" -> PublisherDiscoverReadiness(f)
    [] probe = "video-watch-page" -> VideoWatchPage(f)
    [] probe = "videoobject-schema" -> VideoObjectSchema(f)
    [] probe = "video-sitemap" -> VideoSitemap(f)
    [] probe = "news-sitemap" -> NewsSitemap(f)
    [] probe = "news-article-policy" -> NewsArticlePolicy(f)
    [] probe = "paywall-access-model" -> PaywallAccessModel(f)
    [] probe = "answer-first-structure" -> AnswerFirstStructure(f)
    [] probe = "author-date-signals" -> AuthorDateSignals(f)
    [] probe = "trust-pages-presence" -> TrustPagesPresence(f)
    [] probe = "outbound-link-qualification" -> OutboundLinkQualification(f)
    [] probe = "batch-page-quality" -> BatchPageQuality(f)
    [] probe = "cannibalization" -> Cannibalization(f)
    [] probe = "launch-content-completeness" -> LaunchContentCompleteness(f)
    [] probe = "content-parity-diff" -> ContentParityDiff(f)
    [] probe = "content-decay" -> ContentDecay(f)
    [] probe = "content-helpfulness" -> ContentHelpfulness(f)
    [] probe = "keyword-intent-map" -> KeywordIntentMap(f)
    [] probe = "http-status" -> HttpStatus(f)
    [] probe = "redirect-chain" -> RedirectChain(f)
    [] probe = "https-enforcement" -> HttpsEnforcement(f)
    [] probe = "mixed-content" -> MixedContent(f)
    [] probe = "security-headers" -> SecurityHeaders(f)
    [] probe = "compression-cache" -> CompressionCache(f)
    [] probe = "http-version" -> HttpVersion(f)
    [] probe = "domain-expiry-rdap" -> DomainExpiryRdap(f)
    [] probe = "crawler-fetch-limit" -> CrawlerFetchLimit(f)
    [] probe = "private-response-caching" -> PrivateResponseCaching(f)
    [] probe = "indexability-matrix-reconciliation" -> IndexabilityMatrixReconciliation(f)
    [] probe = "lab-perf-budget" -> LabPerfBudget(f)
    [] probe = "template-lab-perf" -> TemplateLabPerf(f)
    [] probe = "lcp-element-strategy" -> LcpElementStrategy(f)
    [] probe = "field-cwv-monitor" -> FieldCwvMonitor(f)
    [] probe = "security-dependency-maintenance" -> SecurityDependencyMaintenance(f)
    [] probe = "parameter-crawl-space" -> ParameterCrawlSpace(f)
    [] probe = "faceted-nav-control" -> FacetedNavControl(f)
    [] probe = "internal-search-indexability" -> InternalSearchIndexability(f)
    [] probe = "locale-canonical" -> LocaleCanonical(f)
    [] probe = "rendering-strategy-classifier" -> RenderingStrategyClassifier(f)
    [] probe = "raw-rendered-parity" -> RawRenderedParity(f)
    [] probe = "x-robots-tag-non-html" -> XRobotsTagNonHtml(f)
    [] probe = "experiment-cloaking-divergence" -> ExperimentCloakingDivergence(f)
    [] probe = "staging-protection" -> StagingProtection(f)
    [] probe = "indexability-canary" -> IndexabilityCanary(f)
    [] probe = "url-inspection" -> UrlInspection(f)
    [] probe = "indexation-review" -> IndexationReview(f)
    [] probe = "product-variant-canonical" -> ProductVariantCanonical(f)
    [] probe = "product-lifecycle-state" -> ProductLifecycleState(f)
    [] probe = "product-schema" -> ProductSchema(f)
    [] probe = "merchant-feed-parity" -> MerchantFeedParity(f)
    [] probe = "product-checkout-qa" -> ProductCheckoutQa(f)
    [] probe = "semantic-html" -> SemanticHtml(f)
    [] probe = "heading-outline" -> HeadingOutline(f)
    [] probe = "primary-heading" -> PrimaryHeading(f)
    [] probe = "crawlable-links" -> CrawlableLinks(f)
    [] probe = "lang-attribute" -> LangAttribute(f)
    [] probe = "soft-404" -> Soft404(f)
    [] probe = "analytics-implementation" -> AnalyticsImplementation(f)
    [] probe = "consent-mode-config" -> ConsentModeConfig(f)
    [] probe = "analytics-consent-matrix" -> AnalyticsConsentMatrix(f)
    [] probe = "live-analytics-smoke" -> LiveAnalyticsSmoke(f)
    [] probe = "review-integrity" -> ReviewIntegrity(f)
    [] probe = "ugc-governance" -> UgcGovernance(f)
    [] probe = "schema-validation-parity" -> SchemaValidationParity(f)
    [] probe = "brand-entity-consistency" -> BrandEntityConsistency(f)
    [] probe = "gbp-setup" -> GbpSetup(f)
    [] probe = "schema-hreflang-maintenance" -> SchemaHreflangMaintenance(f)
    [] probe = "broken-links" -> BrokenLinks(f)
    [] probe = "metadata-completeness" -> MetadataCompleteness(f)
    [] probe = "raw-rendered-crawl-diff" -> RawRenderedCrawlDiff(f)
    [] probe = "ci-seo-guards" -> CiSeoGuards(f)
    [] probe = "ci-extended-checks" -> CiExtendedChecks(f)
    [] probe = "production-smoke-test" -> ProductionSmokeTest(f)
    [] probe = "availability-canary" -> AvailabilityCanary(f)
    [] probe = "production-crawl-verify" -> ProductionCrawlVerify(f)
    [] probe = "migration-redirect-test" -> MigrationRedirectTest(f)
    [] probe = "migration-redirects-live" -> MigrationRedirectsLive(f)
    [] probe = "post-migration-monitor" -> PostMigrationMonitor(f)
    [] probe = "prelaunch-baseline-snapshot" -> PrelaunchBaselineSnapshot(f)
    [] probe = "quarterly-regression-crawl" -> QuarterlyRegressionCrawl(f)
    [] probe = "release-regression-review" -> ReleaseRegressionReview(f)
    [] probe = "conditional-template-monitor" -> ConditionalTemplateMonitor(f)
    [] probe = "robots-txt" -> RobotsTxt(f)
    [] probe = "sitemap-validity" -> SitemapValidity(f)
    [] probe = "sitemap-canonical-agreement" -> SitemapCanonicalAgreement(f)
    [] probe = "index-bloat" -> IndexBloat(f)
    [] probe = "orphan-pages" -> OrphanPages(f)
    [] probe = "click-depth" -> ClickDepth(f)
    [] probe = "internal-linking" -> InternalLinking(f)
    [] probe = "hreflang-cluster-qa" -> HreflangClusterQa(f)
    [] probe = "hreflang-implementation" -> HreflangImplementation(f)
    [] probe = "locale-content-parity" -> LocaleContentParity(f)
    [] probe = "pagination-crawl-path" -> PaginationCrawlPath(f)
    [] probe = "host-redirect" -> HostRedirect(f)
    [] probe = "favicon-site-name" -> FaviconSiteName(f)
    [] probe = "ai-crawler-directive-verify" -> AiCrawlerDirectiveVerify(f)
    [] probe = "url-convention" -> UrlConvention(f)
    [] probe = "host-slash-policy" -> HostSlashPolicy(f)
    [] probe = "third-party-budget" -> ThirdPartyBudget(f)
    [] probe = "url-inventory-builder" -> UrlInventoryBuilder(f)
    [] probe = "migration-map-builder" -> MigrationMapBuilder(f)
    [] probe = "inherited-domain-history" -> InheritedDomainHistory(f)
    [] probe = "gsc-property-ownership" -> GscPropertyOwnership(f)
    [] probe = "sitemap-submit" -> SitemapSubmit(f)
    [] probe = "security-manual-actions" -> SecurityManualActions(f)
    [] probe = "reporting-anomaly-thresholds" -> ReportingAnomalyThresholds(f)
    [] probe = "backlink-monitor" -> BacklinkMonitor(f)
    [] probe = "bing-onboarding" -> BingOnboarding(f)
    [] probe = "ai-visibility-baseline" -> AiVisibilityBaseline(f)
    [] probe = "analytics-reconciliation" -> AnalyticsReconciliation(f)
    [] probe = "log-file-analysis" -> LogFileAnalysis(f)
    [] probe = "competitor-serp-baseline" -> CompetitorSerpBaseline(f)
    [] probe = "indexnow-integration" -> IndexnowIntegration(f)
    [] probe = "monitoring-incident-sla" -> MonitoringIncidentSla(f)
    [] probe = "offpage-reputation-governance" -> OffpageReputationGovernance(f)
    [] probe = "digital-pr-tracking" -> DigitalPrTracking(f)

(* guard: a detector that throws observes `error`, and the run goes on.    *)
Guarded(body) == IF body.throws THEN "error" ELSE body.says

NoPage == [url |-> "none", html |-> FALSE]

(* runProbes: one run for a site detector, one per page for a page one.    *)
(* Those that judge the other runs come last, and are shown only those.    *)
(* `body` holds what each detector's function does with each subject.      *)
RunProbes(probes, pages, body) ==
  LET asked(d) == IF d.scope = "site" THEN <<NoPage>>
                  ELSE SelectSeq(pages, LAMBDA p : d.htmlOnly => p.html)
      runsOf(d, seen) == [i \in DOMAIN asked(d) |->
                            LET page == asked(d)[i]
                            IN [probe |-> d.id, page |-> page, shown |-> seen, outcome |-> Guarded(body[d.id, page])]]
      afterOthers(d) == d.scope = "site" /\ d.afterOthers
      now == SelectSeq(probes, LAMBDA d : ~afterOthers(d))
      last == SelectSeq(probes, afterOthers)
      others == FlattenSeq([i \in DOMAIN now |-> runsOf(now[i], <<>>)])
  IN others \o FlattenSeq([i \in DOMAIN last |-> runsOf(last[i], others)])

----------------------------------------------------------------------------
(* buildProbeMatrix.  A check is coverable when every detector it declares *)
(* is implemented; one a person attests never is.                          *)

Declared(checks) == UNION {c.detectors : c \in checks}
MissingDetectors(check, probes) == check.detectors \ probes
Coverable(check, probes) == check.automation # "attested" /\ MissingDetectors(check, probes) = {}
OrphanProbes(checks, probes) == probes \ Declared(checks)

----------------------------------------------------------------------------
(* previous.ts: the snapshot a later audit compares itself with, as the    *)
(* kinds of value it writes; absent: the field is left out.                *)

SnapshotPage(page) ==
  LET of(field) == IF page.parsed THEN page[field] ELSE "null"
  IN [url |-> "text", status |-> page.status, finalUrl |-> page.finalUrl,
      metaRobots |-> of("metaRobots"), canonical |-> of("canonical"), title |-> of("title"),
      xRobotsTag |-> page.xRobotsTag,
      h1 |-> IF page.parsed THEN page.h1 ELSE "absent",
      words |-> IF page.parsed THEN page.words ELSE "absent",
      axe |-> IF page.axe = "ran" THEN "violations" ELSE "null"]

SnapshotAudit(pages, runs, settings) ==
  [schema |-> 1, takenAt |-> "date", settings |-> settings, blockedByRobots |-> "list of text",
   pages |-> {SnapshotPage(p) : p \in pages}, outcomes |-> {r.outcome : r \in runs}]

PREVIOUS_AUDIT_SCHEMA == 1

(* parsePrevious: a snapshot of any other shape is refused, never read as  *)
(* an empty audit.                                                         *)
ParsesPage(page) ==
  /\ page.url = "text" /\ page.status \in {"number", "null"}
  /\ \A field \in {"finalUrl", "metaRobots", "xRobotsTag", "canonical", "title"} :
       page[field] \in {"text", "null"}
  /\ page.h1 \in {"text", "null", "absent"} /\ page.words \in {"number", "null", "absent"}
  /\ page.axe \in {"violations", "null", "absent"}

ParsePrevious(value) ==
  /\ value.schema = PREVIOUS_AUDIT_SCHEMA /\ value.takenAt = "date"
  /\ value.settings \in {"absent", "whole"} /\ value.blockedByRobots \in {"absent", "list of text"}
  /\ \A p \in value.pages : ParsesPage(p)
  /\ value.outcomes \subseteq Outcome

=============================================================================
