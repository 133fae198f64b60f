--------------------------- MODULE ProbesCommerce --------------------------
(***************************************************************************)
(* packages/probes/src/probes/commerce.ts: product addresses, lifecycle,   *)
(* product markup, the merchant feed and the checkout cases.  A page's     *)
(* canonical is "none", "unusable" or a URL; its route is that of the URL. *)
(***************************************************************************)
EXTENDS Probing

(* judge: one product's addresses follow a rule.  Every address is its own *)
(* page with a title of its own, or all name one page that can be indexed. *)
OneRule(members, pages) ==
  LET indexable == {m \in members : ~m.noindex}
      targets == {m.canonical : m \in indexable}
  IN \/ Cardinality(indexable) < 2
     \/ /\ targets \cap {"none", "unusable"} = {}
        /\ \A m \in indexable : m.canonical = m.url
        /\ \A m, n \in indexable : m # n /\ m.title = n.title => m.title = "none"
     \/ /\ targets \cap {"none", "unusable"} = {}
        /\ Cardinality(targets) = 1
        /\ \A p \in pages : p.url \in targets => p.ok /\ ~p.noindex

ProductVariantCanonical(s) ==
  LET products == {p \in Read(s.pages) : p.product}
      family(route) == {p \in Read(s.pages) : p.route = route}
      families == {f \in {family(p.route) : p \in products} : Cardinality(f) > 1}
  IN Ladder(<< <<~s.ecommerce \/ families = {}, "not-applicable">>,
               <<\E f \in families : ~OneRule(f, s.pages), "fail">> >>, "pass")

(* treatmentOf: what the site did with the page's address.                 *)
Kept(p) == ~p.noindex /\ (p.canonicalRoute = "none" \/ p.canonicalRoute = p.route)
ProductTreatment(p) ==
  IF p.noindex THEN "excluded" ELSE IF Kept(p) THEN "kept" ELSE "consolidated"

(* lifecycleOf: one purchasable variant makes the product available, and a *)
(* withdrawn one keeps it from being retired.                              *)
Lifecycle(p) ==
  Ladder(<< <<"purchasable" \in p.availability, "available">>,
            <<"withdrawn" \in p.availability, "withdrawn">>,
            <<"retired" \in p.availability, "retired">> >>, "none")

ProductLifecycleState(s) ==
  LET products == {p \in Read(s.pages) : p.product}
      withdrawn == {p \in products : Lifecycle(p) = "withdrawn"}
      retired == {p \in products : Lifecycle(p) = "retired"}
  IN Ladder(<< <<~s.ecommerce \/ withdrawn \cup retired = {}, "not-applicable">>,
               <<\E p \in withdrawn : ~Kept(p), "fail">>,
               <<\E p \in retired : ProductTreatment(p) = "excluded" /\ p.listed, "fail">>,
               <<\E p, q \in retired : ProductTreatment(p) # ProductTreatment(q), "fail">> >>, "pass")

ProductSchema(s) ==
  LET products == {p \in Read(s.pages) : p.product}
      defective(p) == \/ ~p.marked \/ ~p.name \/ (p.offers = {} /\ ~p.review)
                      \/ \E o \in p.offers : ~o.price
      wanting(p) == ~p.image \/ ~p.identifier \/ \E o \in p.offers : ~o.availability
  IN IF ~s.ecommerce \/ products = {} THEN "not-applicable" ELSE
     Weigh(\E p \in products : defective(p), \E p \in products : wanting(p))

(* A feed item against its page: what the offers there say of each value.  *)
(* One offer that agrees settles it.                                       *)
Disputed(stated) == stated # {} /\ "agrees" \notin stated
Values(i) == {i.price, i.currency, i.availability} \cup (IF i.gtinAsked THEN {i.gtin} ELSE {})

MerchantFeedParity(s) ==
  LET compared == {i \in s.items : i.page = "marked up"}
  IN Ladder(<< <<~s.supplied \/ s.items = {}, "not-applicable">>,
               <<HeldRecord(s.record, s.dated), "warn">>,
               <<\E i \in compared : \E v \in Values(i) : Disputed(v), "fail">>,
               <<compared # s.items, "warn">>,
               <<\E i \in compared : {} \in Values(i), "warn">> >>, "pass")

ProductCheckoutQa(s) ==
  Ladder(<< <<~s.supplied, "not-applicable">>,
            <<\E c \in s.cases : c.failed \/ c.page = "not 200", "fail">>,
            <<HeldRecord(s.record, s.dated), "warn">>,
            <<\E c \in s.cases : c.page = "unreached", "warn">> >>, "pass")

=============================================================================
