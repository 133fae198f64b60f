------------------------------ MODULE MCCrawl ------------------------------
(* Constants of the crawl run: three pages of a site and one elsewhere,    *)
(* two sitemaps of which the first is an index.                            *)
EXTENDS CrawlSink, TLC

CONSTANTS a, b, c, x, index, second, child

MCHostOf == [u \in Url |-> IF u = x THEN "elsewhere" ELSE "here"]
MCSeeds == <<a>>
MCBefore == <<"host-variant">>
MCExtras == <<"redirect-map">>

Plain(kind, links, to) ==
  [kind |-> kind, links |-> links, nofollow |-> {}, declares |-> {}, to |-> to, icons |-> 0]
Html(links) == [Plain("html", links, a) EXCEPT !.icons = 1]
To(u) == Plain("redirect", <<>>, u)
Other(kind) == Plain(kind, <<>>, a)

(* A page that names another as its canonical, and one it would not vouch  *)
(* for.                                                                    *)
Copy == [Html(<<c, a>>) EXCEPT !.nofollow = {x}, !.declares = {a}]

Doc(urls, children) == [ok |-> TRUE, urls |-> urls, children |-> children]

MCDocs ==
  { [d \in Document |->
       CASE d = index -> Doc(<<>>, <<child, index>>) [] d = second -> Doc(<<c>>, <<>>)
         [] d = child -> Doc(<<c>>, <<>>)],
    [d \in Document |->
       CASE d = index -> Doc(<<>>, <<child, child>>) [] d = second -> Doc(<<>>, <<>>)
         [] d = child -> [ok |-> FALSE, urls |-> <<>>, children |-> <<>>]] }

MCPages ==
  { [u \in Url |-> CASE u = a -> A [] u = b -> B [] u = c -> C [] u = x -> Other("other")] :
      A \in {Html(<<b, x>>), Html(<<c, b>>), To(b), Other("down")},
      B \in {Copy, To(c), To(b), To(a)},
      C \in {Html(<<a, x>>), To(b), Other("other")} }

(* Every site is crawled on several budgets, and one also as a phone.      *)
MCSites ==
  [ pages : MCPages, docs : MCDocs, roots : {<<index, second>>}, disallow : {{}, {c}},
    maxPages : {2, 3}, maxDepth : {0, 1}, render : {TRUE}, mobile : {FALSE} ]
  \cup
  [ pages : { w \in MCPages : w[a].kind = "html" /\ w[b].kind = "html" },
    docs : MCDocs, roots : {<<index, second>>}, disallow : {{}},
    maxPages : {2}, maxDepth : {1}, render : {FALSE, TRUE}, mobile : {TRUE} ]

=============================================================================
