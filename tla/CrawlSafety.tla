---------------------------- MODULE CrawlSafety ----------------------------
(***************************************************************************)
(* Proofs of CrawlSink's properties, for every site, budget and order of   *)
(* failures.                                                               *)
(***************************************************************************)
EXTENDS CrawlInv, WellFoundedInduction, FiniteSetTheorems, TLAPS

(* Induction and recursion over the naturals, of sets and functions.       *)
LEMMA LeastOf ==
  ASSUME NEW T, T \subseteq Nat, T # {}
  PROVE  \E n \in T : \A m \in T : n <= m
<1> DEFINE R == OpToRel(<, Nat)
<1>1. IsWellFoundedOn(R, Nat)
  BY NatLessThanWellFounded
<1>2. \A m, n \in Nat : <<m, n>> \in R <=> m < n
  BY DEF OpToRel
<1> HIDE DEF R
<1>3. PICK n \in T : \A m \in T : ~(<<m, n>> \in R)
  BY <1>1, WFMin, Zenon
<1>4. \A m \in T : n <= m
  <2> SUFFICES ASSUME NEW m \in T PROVE n <= m
    OBVIOUS
  <2>1. m \in Nat /\ n \in Nat /\ ~(m < n)
    BY <1>2, <1>3
  <2> QED BY <2>1
<1> QED BY <1>4

LEMMA Induction ==
  ASSUME NEW S, 0 \in S, \A n \in Nat : n \in S => n + 1 \in S
  PROVE  \A n \in Nat : n \in S
<1> SUFFICES ASSUME NEW k \in Nat, k \notin S PROVE FALSE
  OBVIOUS
<1> DEFINE T == Nat \ S
<1>1. PICK n \in T : \A m \in T : n <= m
  BY LeastOf
<1>2. n \in Nat /\ n # 0
  OBVIOUS
<1>3. n - 1 \in Nat /\ n - 1 \notin T
  BY <1>1, <1>2
<1> QED BY <1>2, <1>3

LEMMA Recursion ==
  ASSUME NEW S, NEW base \in S, NEW L \in Nat, NEW next \in [1..L -> [S -> S]]
  PROVE  \E f \in [0..L -> S] : f[0] = base /\ \A n \in 1..L : f[n] = next[n][f[n - 1]]
<1> DEFINE Good(f, k) == f[0] = base /\ \A n \in 1..k : f[n] = next[n][f[n - 1]]
           D == { k \in Nat : k <= L => \E f \in [0..k -> S] : Good(f, k) }
<1>1. 0 \in D
  <2> DEFINE f == [n \in 0..0 |-> base]
  <2>1. f \in [0..0 -> S] /\ Good(f, 0)
    OBVIOUS
  <2> QED BY <2>1
<1>2. ASSUME NEW k \in Nat, k \in D PROVE k + 1 \in D
  <2> SUFFICES ASSUME k + 1 <= L PROVE \E f \in [0..k + 1 -> S] : Good(f, k + 1)
    OBVIOUS
  <2>1. PICK f \in [0..k -> S] : Good(f, k)
    BY <1>2
  <2>2. next[k + 1][f[k]] \in S
    <3>1. k + 1 \in 1..L /\ f[k] \in S
      OBVIOUS
    <3>2. next[k + 1] \in [S -> S]
      BY <3>1
    <3> QED BY <3>1, <3>2
  <2> DEFINE g == [n \in 0..k + 1 |-> IF n = k + 1 THEN next[k + 1][f[k]] ELSE f[n]]
  <2>3. g \in [0..k + 1 -> S]
    BY <2>2
  <2>4. g[0] = base
    BY <2>1
  <2>5. ASSUME NEW n \in 1..k + 1 PROVE g[n] = next[n][g[n - 1]]
    <3>1. g[n - 1] = f[n - 1]
      OBVIOUS
    <3>2. CASE n = k + 1
      BY <3>1, <3>2
    <3>3. CASE n # k + 1
      BY <2>1, <3>1, <3>3
    <3> QED BY <3>2, <3>3
  <2> HIDE DEF g
  <2> QED BY <2>3, <2>4, <2>5
<1> HIDE DEF D
<1>3. L \in D
  BY <1>1, <1>2, Induction
<1> QED BY <1>3 DEF D

-----------------------------------------------------------------------------
(* fetchPage                                                               *)

LEMMA SiteType ==
  ASSUME site \in Site
  PROVE  /\ site.pages \in [Url -> Response] /\ site.docs \in [Document -> Sitemap]
         /\ site.roots \in Seq(Document) /\ site.disallow \in SUBSET Url
         /\ site.maxPages \in Nat /\ site.maxDepth \in Nat
         /\ site.render \in BOOLEAN /\ site.mobile \in BOOLEAN
BY SiteAssumption

LEMMA CapsType ==
  /\ MaxDocuments \in Nat /\ MaxRedirects \in Nat /\ MaxIcons \in Nat
  /\ MaxExternal \in Nat /\ MaxPerHost \in Nat
BY CapsAssumption

LEMMA HopType ==
  ASSUME site \in Site, NEW url \in Url
  PROVE  \A n \in 0..MaxRedirects + 1 : Hop(url)[n] \in Url
<1> DEFINE L == MaxRedirects + 1
           turnOf == [u \in Url |-> IF site.pages[u].kind = "redirect" THEN site.pages[u].to ELSE u]
           next == [n \in 1..L |-> turnOf]
           F(f) == f = [n \in 0..L |->
                          IF n = 0 THEN url
                          ELSE LET here == site.pages[f[n - 1]]
                               IN IF here.kind = "redirect" THEN here.to ELSE f[n - 1]]
<1>1. L \in Nat
  BY CapsType
<1>2. turnOf \in [Url -> Url]
  BY SiteType DEF Response
<1>3. next \in [1..L -> [Url -> Url]]
  BY <1>2
<1>4. PICK f \in [0..L -> Url] : f[0] = url /\ \A n \in 1..L : f[n] = next[n][f[n - 1]]
  <2> HIDE DEF next, L
  <2> QED BY <1>1, <1>3, Recursion
<1>5. F(f)
  <2> HIDE DEF L
  <2>1. ASSUME NEW n \in 0..L, n # 0
        PROVE  f[n] = IF site.pages[f[n - 1]].kind = "redirect" THEN site.pages[f[n - 1]].to
                      ELSE f[n - 1]
    <3>1. n \in 1..L /\ n - 1 \in 0..L
      BY <1>1, <2>1
    <3>2. f[n - 1] \in Url /\ next[n] = turnOf
      BY <3>1
    <3> QED BY <1>4, <3>1, <3>2
  <2> QED BY <1>4, <2>1
<1> DEFINE g == CHOOSE x : F(x)
<1>6. F(g) /\ Hop(url) = g
  BY <1>5 DEF Hop
<1> HIDE DEF g
<1>7. g[0] = url /\ \A n \in 1..L : g[n - 1] \in Url => g[n] \in Url
  <2>1. g[0] = url
    BY <1>1, <1>6
  <2>2. ASSUME NEW n \in 1..L, g[n - 1] \in Url PROVE g[n] \in Url
    BY <1>1, <1>6, <2>2, SiteType DEF Response
  <2> QED BY <2>1, <2>2
<1> DEFINE D == { n \in Nat : n <= L => g[n] \in Url }
<1>8. 0 \in D
  BY <1>7
<1>9. \A n \in Nat : n \in D => n + 1 \in D
  <2> SUFFICES ASSUME NEW n \in Nat, n \in D, n + 1 <= L PROVE g[n + 1] \in Url
    OBVIOUS
  <2> HIDE DEF L
  <2>1. n + 1 \in 1..L /\ (n + 1) - 1 = n /\ n <= L
    BY <1>1
  <2> QED BY <1>7, <2>1
<1> HIDE DEF D
<1>10. \A n \in Nat : n \in D
  BY <1>8, <1>9, Induction
<1> QED BY <1>1, <1>6, <1>10 DEF D

LEMMA FetchType ==
  ASSUME site \in Site, NEW url \in Url
  PROVE  LET got == Fetch(url)
         IN /\ got.final \in Url /\ got.chain \in 0..MaxRedirects + 1
            /\ got.failed \in BOOLEAN /\ got.html \in BOOLEAN
            /\ got.links \in Seq(Url) /\ got.icons \in Nat
            /\ got.nofollow \in SUBSET Url /\ got.declares \in SUBSET Url
            /\ got.further \in 0..MaxRedirects
<1> DEFINE at == Hop(url)
           stops(n) == site.pages[at[n]].kind # "redirect" \/ at[n + 1] = at[n]
           ended == { n \in 0..MaxRedirects : stops(n) }
           soonest == CHOOSE n \in ended : \A m \in ended : n <= m
           last == IF ended = {} THEN MaxRedirects + 1 ELSE soonest
           answer == site.pages[at[last]]
           failed == ended = {} \/ answer.kind \in {"redirect", "down"}
           html == ~failed /\ answer.kind = "html"
           got == [ final |-> at[last],
                    chain |-> last + (IF ended # {} /\ answer.kind = "redirect" THEN 1 ELSE 0),
                    further |-> IF ended = {} THEN MaxRedirects ELSE last,
                    failed |-> failed,
                    html  |-> ~failed /\ answer.kind = "html",
                    links |-> IF ~failed /\ answer.kind = "html" THEN answer.links ELSE <<>>,
                    nofollow |-> IF ~failed /\ answer.kind = "html" THEN answer.nofollow ELSE {},
                    declares |-> IF ~failed /\ answer.kind = "html" THEN answer.declares ELSE {},
                    icons |-> IF ~failed /\ answer.kind = "html" THEN answer.icons ELSE 0 ]
<1>1. got = Fetch(url)
  BY DEF Fetch
<1>2. ended \subseteq 0..MaxRedirects /\ MaxRedirects \in Nat
  BY CapsType
<1>3. last \in 0..MaxRedirects + 1 /\ (ended # {} => last \in 0..MaxRedirects)
  <2> HIDE DEF ended
  <2>1. CASE ended = {}
    BY <1>2, <2>1
  <2>2. CASE ended # {}
    <3>1. \E n \in ended : \A m \in ended : n <= m
      <4>1. ended \subseteq Nat
        BY <1>2
      <4> QED BY <2>2, <4>1, LeastOf, Zenon
    <3>2. soonest \in ended
      BY <3>1
    <3> HIDE DEF soonest
    <3> QED BY <1>2, <2>2, <3>2
  <2> QED BY <2>1, <2>2
<1>4. at[last] \in Url
  BY <1>3, HopType
<1>5. answer \in Response
  BY <1>4, SiteType
<1> HIDE DEF at, ended, last, answer
<1>6. /\ got.final \in Url /\ got.chain \in 0..MaxRedirects + 1
      /\ got.failed \in BOOLEAN /\ got.html \in BOOLEAN
      /\ got.links \in Seq(Url) /\ got.icons \in Nat
      /\ got.nofollow \in SUBSET Url /\ got.declares \in SUBSET Url
      /\ got.further \in 0..MaxRedirects
  BY <1>2, <1>3, <1>4, <1>5 DEF Response
<1> HIDE DEF got
<1> QED BY <1>1, <1>6

-----------------------------------------------------------------------------
(* enqueue                                                                 *)

(* What becomes of one item: nothing, too deep, kept out, or on its lane.  *)
Puts(q, r, item, lane) ==
  \/ (~OnSite(item.url) \/ item.url \in q.queued) /\ r = q
  \/ /\ OnSite(item.url) /\ item.url \notin q.queued /\ TooDeep(item.depth)
     /\ r.walk = q.walk /\ r.listed = q.listed /\ r.queued = q.queued /\ r.blocked = q.blocked
     /\ r.beyond = q.beyond \cup {item.url}
  \/ /\ OnSite(item.url) /\ item.url \notin q.queued /\ ~TooDeep(item.depth)
     /\ r.queued = q.queued \cup {item.url} /\ r.beyond = q.beyond
     /\ \/ r.blocked = Append(q.blocked, item.url) /\ r.walk = q.walk /\ r.listed = q.listed
        \/ /\ r.blocked = q.blocked
           /\ \/ lane = "walk" /\ r.walk = Append(q.walk, item) /\ r.listed = q.listed
              \/ lane = "listed" /\ r.walk = q.walk /\ r.listed = Append(q.listed, item)

LEMMA EnqueuePuts ==
  ASSUME site \in Site, NEW q \in Frontier, NEW item \in Entry,
         NEW lane \in Lane
  PROVE  LET r == Enqueue(q, item, lane)
         IN r \in Frontier /\ Puts(q, r, item, lane)
<1> DEFINE url == item.url
           r == Enqueue(q, item, lane)
<1> SUFFICES r \in Frontier /\ Puts(q, r, item, lane)
  OBVIOUS
<1>1. url \in Url /\ item \in Entry
  BY DEF Entry
<1>2. /\ q.walk \in Seq(Entry) /\ q.listed \in Seq(Entry) /\ q.queued \in SUBSET Url
      /\ q.blocked \in Seq(Url) /\ q.beyond \in SUBSET Url
  BY DEF Frontier
<1>3. CASE ~OnSite(url) \/ url \in q.queued
  <2>1. r = q
    BY <1>3 DEF Enqueue, Known
  <2> QED BY <1>3, <2>1 DEF Puts
<1>4. CASE OnSite(url) /\ url \notin q.queued /\ TooDeep(item.depth)
  <2>1. r = [q EXCEPT !.beyond = q.beyond \cup {url}]
    BY <1>4 DEF Enqueue, Known
  <2> HIDE DEF r, url
  <2>2. /\ r \in Frontier
        /\ r.walk = q.walk /\ r.listed = q.listed /\ r.queued = q.queued
        /\ r.blocked = q.blocked /\ r.beyond = q.beyond \cup {url}
    BY <1>1, <1>2, <2>1 DEF Frontier
  <2> QED BY <1>4, <2>2 DEF Puts, url
<1>5. CASE OnSite(url) /\ url \notin q.queued /\ ~TooDeep(item.depth) /\ url \in site.disallow
  <2>1. r = [q EXCEPT !.queued = q.queued \cup {url}, !.blocked = Append(q.blocked, url)]
    BY <1>5 DEF Enqueue, Known
  <2> HIDE DEF r, url
  <2>2. /\ r \in Frontier
        /\ r.walk = q.walk /\ r.listed = q.listed /\ r.queued = q.queued \cup {url}
        /\ r.blocked = Append(q.blocked, url) /\ r.beyond = q.beyond
    <3>1. Append(q.blocked, url) \in Seq(Url) /\ q.queued \cup {url} \in SUBSET Url
      BY <1>1, <1>2
    <3> QED BY <1>2, <2>1, <3>1 DEF Frontier
  <2> QED BY <1>5, <2>2 DEF Puts, url
<1>6. CASE OnSite(url) /\ url \notin q.queued /\ ~TooDeep(item.depth) /\ url \notin site.disallow
  <2>1. r = [q EXCEPT !.queued = q.queued \cup {url}, ![lane] = Append(q[lane], item)]
    BY <1>6 DEF Enqueue, Known
  <2> HIDE DEF r, url
  <2>2. CASE lane = "walk"
    <3>1. r = [q EXCEPT !.queued = q.queued \cup {url}, !.walk = Append(q.walk, item)]
      BY <2>1, <2>2
    <3>2. Append(q.walk, item) \in Seq(Entry) /\ q.queued \cup {url} \in SUBSET Url
      BY <1>1, <1>2
    <3>3. /\ r \in Frontier
          /\ r.walk = Append(q.walk, item) /\ r.listed = q.listed
          /\ r.queued = q.queued \cup {url} /\ r.beyond = q.beyond
          /\ r.blocked = q.blocked
      BY <1>2, <3>1, <3>2 DEF Frontier
    <3> QED BY <1>6, <2>2, <3>3 DEF Puts, url
  <2>3. CASE lane = "listed"
    <3>1. r = [q EXCEPT !.queued = q.queued \cup {url}, !.listed = Append(q.listed, item)]
      BY <2>1, <2>3
    <3>2. Append(q.listed, item) \in Seq(Entry) /\ q.queued \cup {url} \in SUBSET Url
      BY <1>1, <1>2
    <3>3. /\ r \in Frontier
          /\ r.walk = q.walk /\ r.listed = Append(q.listed, item)
          /\ r.queued = q.queued \cup {url} /\ r.beyond = q.beyond
          /\ r.blocked = q.blocked
      BY <1>2, <3>1, <3>2 DEF Frontier
    <3> QED BY <1>6, <2>3, <3>3 DEF Puts, url
  <2> QED BY <2>2, <2>3 DEF Lane
<1> QED BY <1>3, <1>4, <1>5, <1>6

(* EnqueueAll is Enqueue, item after item.                                 *)
Absorbs(q, L, items, lane) ==
  /\ q \in Frontier /\ L \in Nat /\ Len(items) = L
  /\ \A n \in 1..L : \A s \in Frontier : Enqueue(s, items[n], lane) \in Frontier

LEMMA EnqueueAllUnfolds ==
  ASSUME NEW q, NEW L, NEW items, NEW lane, Absorbs(q, L, items, lane)
  PROVE  \E f \in [0..L -> Frontier] :
           /\ f[0] = q
           /\ \A n \in 1..L : f[n] = Enqueue(f[n - 1], items[n], lane)
           /\ EnqueueAll(q, items, lane) = f[L]
<1> USE DEF Absorbs
<1>3. PICK next \in [1..L -> [Frontier -> Frontier]] :
         \A n \in 1..L : \A s \in Frontier : next[n][s] = Enqueue(s, items[n], lane)
  <2> DEFINE next == [n \in 1..L |-> [s \in Frontier |-> Enqueue(s, items[n], lane)]]
  <2>1. next \in [1..L -> [Frontier -> Frontier]]
    OBVIOUS
  <2>2. \A n \in 1..L : \A s \in Frontier : next[n][s] = Enqueue(s, items[n], lane)
    OBVIOUS
  <2> HIDE DEF next
  <2> QED BY <2>1, <2>2
<1>4. PICK f \in [0..L -> Frontier] :
         f[0] = q /\ \A n \in 1..L : f[n] = Enqueue(f[n - 1], items[n], lane)
  <2>1. PICK f \in [0..L -> Frontier] : f[0] = q /\ \A n \in 1..L : f[n] = next[n][f[n - 1]]
    BY Recursion
  <2>2. ASSUME NEW n \in 1..L PROVE f[n] = Enqueue(f[n - 1], items[n], lane)
    <3>1. n - 1 \in 0..L
      OBVIOUS
    <3>2. f[n - 1] \in Frontier
      BY <3>1
    <3> QED BY <1>3, <2>1, <3>2
  <2> QED BY <2>1, <2>2
<1> DEFINE F(h) == h = [n \in 0..L |-> IF n = 0 THEN q ELSE Enqueue(h[n - 1], items[n], lane)]
<1>5. F(f)
  <2>1. ASSUME NEW n \in 0..L, n # 0 PROVE f[n] = Enqueue(f[n - 1], items[n], lane)
    BY <1>4, <2>1
  <2> QED BY <1>4, <2>1
<1> DEFINE g == CHOOSE x : F(x)
<1>6. F(g) /\ EnqueueAll(q, items, lane) = g[L]
  BY <1>5 DEF EnqueueAll
<1> HIDE DEF g
<1>7. g[0] = q /\ \A n \in 1..L : g[n] = Enqueue(g[n - 1], items[n], lane)
  BY <1>6
<1> DEFINE D == { n \in Nat : n <= L => g[n] \in Frontier }
<1>8. 0 \in D
  BY <1>7
<1>9. \A n \in Nat : n \in D => n + 1 \in D
  <2> SUFFICES ASSUME NEW n \in Nat, n \in D, n + 1 <= L PROVE g[n + 1] \in Frontier
    OBVIOUS
  <2>1. n + 1 \in 1..L /\ (n + 1) - 1 = n /\ g[n] \in Frontier
    OBVIOUS
  <2> QED BY <1>7, <2>1
<1> HIDE DEF D
<1>10. \A n \in Nat : n \in D
  BY <1>8, <1>9, Induction
<1>11. g \in [0..L -> Frontier]
  BY <1>6, <1>10 DEF D
<1> HIDE DEF F
<1> QED BY <1>6, <1>7, <1>11

(* A property kept by enqueue, item after item, EnqueueAll has in the end. *)
LEMMA EnqueueAllHolds ==
  ASSUME NEW q, NEW L, NEW items, NEW lane, Absorbs(q, L, items, lane),
         NEW Good, Good \in [0..L -> SUBSET Frontier], q \in Good[0],
         \A n \in 1..L : \A s \in Good[n - 1] : Enqueue(s, items[n], lane) \in Good[n]
  PROVE  EnqueueAll(q, items, lane) \in Good[L]
<1>1. PICK f \in [0..L -> Frontier] :
         /\ f[0] = q
         /\ \A n \in 1..L : f[n] = Enqueue(f[n - 1], items[n], lane)
         /\ EnqueueAll(q, items, lane) = f[L]
  BY EnqueueAllUnfolds
<1> USE DEF Absorbs
<1> DEFINE D == { n \in Nat : n <= L => f[n] \in Good[n] }
<1>2. 0 \in D
  BY <1>1
<1>3. \A n \in Nat : n \in D => n + 1 \in D
  <2> SUFFICES ASSUME NEW n \in Nat, n \in D, n + 1 <= L PROVE f[n + 1] \in Good[n + 1]
    OBVIOUS
  <2>1. n + 1 \in 1..L /\ (n + 1) - 1 = n /\ f[n] \in Good[n]
    OBVIOUS
  <2>2. f[n + 1] = Enqueue(f[n], items[n + 1], lane)
    BY <1>1, <2>1
  <2>3. \A s \in Good[n] : Enqueue(s, items[n + 1], lane) \in Good[n + 1]
    BY <2>1
  <2> QED BY <2>1, <2>2, <2>3
<1> HIDE DEF D
<1>4. \A n \in Nat : n \in D
  BY <1>2, <1>3, Induction
<1>5. f[L] \in Good[L]
  BY <1>4 DEF D
<1> QED BY <1>1, <1>5

-----------------------------------------------------------------------------
(* Sequences, by their ends.                                               *)

LEMMA AppendElements ==
  ASSUME NEW T, NEW s \in Seq(T), NEW e
  PROVE  Elements(Append(s, e)) = Elements(s) \cup {e}
<1>1. /\ DOMAIN Append(s, e) = 1..Len(s) + 1
      /\ \A i \in 1..Len(s) : Append(s, e)[i] = s[i]
      /\ Append(s, e)[Len(s) + 1] = e
  OBVIOUS
<1>2. DOMAIN s = 1..Len(s) /\ Len(s) \in Nat
  OBVIOUS
<1>3. ASSUME NEW x \in Elements(Append(s, e)) PROVE x \in Elements(s) \cup {e}
  <2>1. PICK i \in 1..Len(s) + 1 : x = Append(s, e)[i]
    BY <1>1 DEF Elements
  <2>2. CASE i = Len(s) + 1
    BY <1>1, <2>1, <2>2
  <2>3. CASE i \in 1..Len(s)
    BY <1>1, <1>2, <2>1, <2>3 DEF Elements
  <2> QED BY <1>2, <2>2, <2>3
<1>4. Elements(s) \cup {e} \subseteq Elements(Append(s, e))
  <2>1. ASSUME NEW i \in 1..Len(s) PROVE s[i] \in Elements(Append(s, e))
    <3>1. i \in 1..Len(s) + 1 /\ Append(s, e)[i] = s[i]
      BY <1>1, <1>2
    <3> QED BY <1>1, <3>1 DEF Elements
  <2>2. e \in Elements(Append(s, e))
    <3>1. Len(s) + 1 \in 1..Len(s) + 1
      BY <1>2
    <3> QED BY <1>1, <3>1 DEF Elements
  <2> QED BY <1>2, <2>1, <2>2 DEF Elements
<1> QED BY <1>3, <1>4

LEMMA TailElements ==
  ASSUME NEW T, NEW s \in Seq(T), s # <<>>
  PROVE  /\ Head(s) \in T /\ Tail(s) \in Seq(T)
         /\ Elements(s) = {Head(s)} \cup Elements(Tail(s))
<1>1. /\ Len(s) \in Nat /\ Len(s) >= 1 /\ DOMAIN s = 1..Len(s) /\ Head(s) = s[1]
      /\ Tail(s) \in Seq(T) /\ DOMAIN Tail(s) = 1..Len(s) - 1
      /\ \A i \in 1..Len(s) - 1 : Tail(s)[i] = s[i + 1]
  OBVIOUS
<1>2. Elements(s) \subseteq {Head(s)} \cup Elements(Tail(s))
  <2> SUFFICES ASSUME NEW i \in 1..Len(s), i # 1 PROVE s[i] \in Elements(Tail(s))
    BY <1>1 DEF Elements
  <2>1. i - 1 \in 1..Len(s) - 1 /\ (i - 1) + 1 = i
    BY <1>1
  <2> QED BY <1>1, <2>1 DEF Elements
<1>3. {Head(s)} \cup Elements(Tail(s)) \subseteq Elements(s)
  <2>1. ASSUME NEW i \in 1..Len(s) - 1 PROVE Tail(s)[i] \in Elements(s)
    <3>1. i + 1 \in 1..Len(s) /\ Tail(s)[i] = s[i + 1]
      BY <1>1
    <3> QED BY <1>1, <3>1 DEF Elements
  <2>2. Head(s) \in Elements(s)
    <3>1. 1 \in 1..Len(s)
      BY <1>1
    <3> QED BY <1>1, <3>1 DEF Elements
  <2> QED BY <1>1, <2>1, <2>2 DEF Elements
<1>4. Head(s) \in T
  BY <1>1
<1> QED BY <1>1, <1>2, <1>3, <1>4


LEMMA UrlsOfElements ==
  ASSUME NEW s
  PROVE  Urls(s) = { x.url : x \in Elements(s) }
BY DEF Urls, Elements

LEMMA AppendUrls ==
  ASSUME NEW T, NEW s \in Seq(T), NEW e
  PROVE  /\ Urls(Append(s, e)) = Urls(s) \cup {e.url}
         /\ Once(s) /\ e.url \notin Urls(s) => Once(Append(s, e))
<1>1. Urls(Append(s, e)) = Urls(s) \cup {e.url}
  <2>1. Elements(Append(s, e)) = Elements(s) \cup {e}
    BY AppendElements
  <2> QED BY <2>1, UrlsOfElements
<1>2. ASSUME Once(s), e.url \notin Urls(s) PROVE Once(Append(s, e))
  <2>1. /\ DOMAIN Append(s, e) = 1..Len(s) + 1 /\ DOMAIN s = 1..Len(s) /\ Len(s) \in Nat
        /\ \A i \in 1..Len(s) : Append(s, e)[i] = s[i]
        /\ Append(s, e)[Len(s) + 1] = e
    OBVIOUS
  <2>2. \A i \in 1..Len(s) : s[i].url # e.url
    BY <1>2, <2>1 DEF Urls
  <2> DEFINE t == Append(s, e)
  <2> SUFFICES ASSUME NEW i \in 1..Len(s) + 1, NEW k \in 1..Len(s) + 1, t[i].url = t[k].url
               PROVE  i = k
    BY <2>1 DEF Once
  <2> HIDE DEF t
  <2>3. (\A n \in 1..Len(s) : t[n] = s[n]) /\ t[Len(s) + 1] = e
    BY <2>1 DEF t
  <2>4. CASE i \in 1..Len(s) /\ k \in 1..Len(s)
    BY <1>2, <2>1, <2>3, <2>4 DEF Once
  <2>5. CASE i = Len(s) + 1 /\ k \in 1..Len(s)
    BY <2>2, <2>3, <2>5
  <2>6. CASE i \in 1..Len(s) /\ k = Len(s) + 1
    BY <2>2, <2>3, <2>6
  <2>7. CASE i = Len(s) + 1 /\ k = Len(s) + 1
    BY <2>7
  <2> QED BY <2>1, <2>4, <2>5, <2>6, <2>7
<1> QED BY <1>1, <1>2

LEMMA TailUrls ==
  ASSUME NEW T, NEW s \in Seq(T), s # <<>>
  PROVE  /\ Urls(s) = {Head(s).url} \cup Urls(Tail(s))
         /\ Once(s) => Once(Tail(s)) /\ Head(s).url \notin Urls(Tail(s))
<1>1. Urls(s) = {Head(s).url} \cup Urls(Tail(s))
  <2>1. Elements(s) = {Head(s)} \cup Elements(Tail(s))
    BY TailElements
  <2> QED BY <2>1, UrlsOfElements
<1>2. ASSUME Once(s) PROVE Once(Tail(s)) /\ Head(s).url \notin Urls(Tail(s))
  <2>1. /\ Len(s) \in Nat /\ Len(s) >= 1 /\ DOMAIN s = 1..Len(s) /\ Head(s) = s[1]
        /\ DOMAIN Tail(s) = 1..Len(s) - 1
        /\ \A i \in 1..Len(s) - 1 : Tail(s)[i] = s[i + 1]
    OBVIOUS
  <2>2. \A i, k \in 1..Len(s) : s[i].url = s[k].url => i = k
    BY <1>2, <2>1 DEF Once
  <2>3. ASSUME NEW i \in 1..Len(s) - 1, NEW k \in 1..Len(s) - 1, s[i + 1].url = s[k + 1].url
        PROVE  i = k
    <3>1. i + 1 \in 1..Len(s) /\ k + 1 \in 1..Len(s)
      BY <2>1
    <3>2. i + 1 = k + 1
      BY <2>2, <2>3, <3>1
    <3> QED BY <3>2
  <2>4. ASSUME NEW i \in 1..Len(s) - 1 PROVE s[i + 1].url # s[1].url
    <3>1. i + 1 \in 1..Len(s) /\ 1 \in 1..Len(s) /\ i + 1 # 1
      BY <2>1
    <3> QED BY <2>2, <3>1
  <2> QED BY <2>1, <2>3, <2>4 DEF Once, Urls
<1> QED BY <1>1, <1>2


-----------------------------------------------------------------------------
(* What enqueueing adds.                                                   *)

(* A URL keeps to one place.                                               *)
LEMMA EnqueuePlaces ==
  ASSUME site \in Site, NEW q \in Frontier, NEW r, NEW item \in Entry, NEW lane,
         Puts(q, r, item, lane), NEW fetched, Placed(q, fetched)
  PROVE  Placed(r, fetched)
<1>1. /\ q.walk \in Seq(Entry) /\ q.listed \in Seq(Entry) /\ q.blocked \in Seq(Url)
  BY DEF Frontier
<1>2. CASE r.walk = q.walk /\ r.listed = q.listed /\ r.queued = q.queued /\ r.blocked = q.blocked
  BY <1>2 DEF Placed
<1> DEFINE url == item.url
<1>3. CASE /\ url \notin q.queued /\ r.queued = q.queued \cup {url}
           /\ r.blocked = Append(q.blocked, url) /\ r.walk = q.walk /\ r.listed = q.listed
  <2>1. Elements(r.blocked) = Elements(q.blocked) \cup {url}
    BY <1>1, <1>3, AppendElements
  <2> HIDE DEF url
  <2> QED BY <1>3, <2>1 DEF Placed
<1>4. CASE /\ url \notin q.queued /\ r.queued = q.queued \cup {url} /\ r.blocked = q.blocked
           /\ r.walk = Append(q.walk, item) /\ r.listed = q.listed
  <2>1. /\ Urls(r.walk) = Urls(q.walk) \cup {url}
        /\ Once(q.walk) /\ url \notin Urls(q.walk) => Once(r.walk)
    BY <1>1, <1>4, AppendUrls
  <2> HIDE DEF url
  <2> QED BY <1>4, <2>1 DEF Placed
<1>5. CASE /\ url \notin q.queued /\ r.queued = q.queued \cup {url} /\ r.blocked = q.blocked
           /\ r.walk = q.walk /\ r.listed = Append(q.listed, item)
  <2>1. /\ Urls(r.listed) = Urls(q.listed) \cup {url}
        /\ Once(q.listed) /\ url \notin Urls(q.listed) => Once(r.listed)
    BY <1>1, <1>5, AppendUrls
  <2> HIDE DEF url
  <2> QED BY <1>5, <2>1 DEF Placed
<1> QED BY <1>2, <1>3, <1>4, <1>5 DEF Puts

(* The first n items, put on a lane of q, have made s of it.               *)
FreshOf(q, items, n) ==
  { items[i] : i \in { k \in 1..n : /\ OnSite(items[k].url) /\ items[k].url \notin q.queued
                                    /\ ~TooDeep(items[k].depth) } }

Grown(q, s, items, n, lane) ==
  /\ s.queued \cup s.beyond =
       q.queued \cup q.beyond \cup { u \in { items[i].url : i \in 1..n } : OnSite(u) }
  /\ q.queued \subseteq s.queued
  /\ \A i \in 1..n :
       OnSite(items[i].url) /\ ~TooDeep(items[i].depth) => items[i].url \in s.queued
  /\ lane = "walk" => /\ s.listed = q.listed
                      /\ Elements(s.walk) \subseteq Elements(q.walk) \cup FreshOf(q, items, n)
  /\ lane = "listed" => /\ s.walk = q.walk
                        /\ Elements(s.listed) \subseteq
                             Elements(q.listed) \cup FreshOf(q, items, n)

LEMMA EnqueueGrows ==
  ASSUME site \in Site, NEW q, NEW s \in Frontier, NEW r, NEW items, NEW lane \in Lane,
         NEW n \in Nat, n # 0, NEW item \in Entry, item = items[n],
         Puts(s, r, item, lane), Grown(q, s, items, n - 1, lane)
  PROVE  Grown(q, r, items, n, lane)
<1>1. s.walk \in Seq(Entry) /\ s.listed \in Seq(Entry)
  BY DEF Frontier
<1> DEFINE url == item.url
           New(m) == { u \in { items[i].url : i \in 1..m } : OnSite(u) }
<1>2. 1..n = (1..n - 1) \cup {n}
  OBVIOUS
<1>3. New(n) = New(n - 1) \cup (IF OnSite(url) THEN {url} ELSE {})
  BY <1>2
<1>4. FreshOf(q, items, n) =
        FreshOf(q, items, n - 1)
          \cup (IF OnSite(url) /\ url \notin q.queued /\ ~TooDeep(item.depth) THEN {item} ELSE {})
  BY <1>2 DEF FreshOf
<1>5. /\ s.queued \cup s.beyond = q.queued \cup q.beyond \cup New(n - 1)
      /\ q.queued \subseteq s.queued
  BY DEF Grown
<1> HIDE DEF url, New
<1>6. r.queued \cup r.beyond = q.queued \cup q.beyond \cup New(n)
  <2>1. r.queued \cup r.beyond =
          s.queued \cup s.beyond \cup (IF OnSite(url) THEN {url} ELSE {})
    BY DEF Puts, url
  <2> QED BY <1>3, <1>5, <2>1
<1>7. s.queued \subseteq r.queued
  BY DEF Puts
<1>8. ASSUME NEW i \in 1..n, OnSite(items[i].url), ~TooDeep(items[i].depth)
      PROVE  items[i].url \in r.queued
  <2>1. CASE i = n
    BY <1>8, <2>1 DEF Puts
  <2>2. CASE i \in 1..n - 1
    <3>1. items[i].url \in s.queued
      BY <1>8, <2>2 DEF Grown
    <3> QED BY <1>7, <3>1
  <2> QED BY <1>2, <2>1, <2>2
<1>9. ASSUME lane = "walk"
      PROVE  /\ r.listed = q.listed
             /\ Elements(r.walk) \subseteq Elements(q.walk) \cup FreshOf(q, items, n)
  <2>1. /\ s.listed = q.listed
        /\ Elements(s.walk) \subseteq Elements(q.walk) \cup FreshOf(q, items, n - 1)
    BY <1>9 DEF Grown
  <2>2. r.listed = s.listed /\ (r.walk = s.walk \/ r.walk = Append(s.walk, item))
    BY <1>9 DEF Puts
  <2>3. r.walk # s.walk => OnSite(url) /\ url \notin s.queued /\ ~TooDeep(item.depth)
    BY DEF Puts, url
  <2>4. Elements(Append(s.walk, item)) = Elements(s.walk) \cup {item}
    BY <1>1, AppendElements
  <2>5. CASE r.walk = s.walk
    BY <1>4, <2>1, <2>2, <2>5
  <2>6. CASE r.walk # s.walk
    <3>1. Elements(r.walk) = Elements(s.walk) \cup {item}
      BY <2>2, <2>4, <2>6
    <3>2. item \in FreshOf(q, items, n)
      BY <1>4, <1>5, <2>3, <2>6
    <3> QED BY <1>4, <2>1, <2>2, <3>1, <3>2
  <2> QED BY <2>5, <2>6
<1>10. ASSUME lane = "listed"
       PROVE  /\ r.walk = q.walk
              /\ Elements(r.listed) \subseteq Elements(q.listed) \cup FreshOf(q, items, n)
  <2>1. /\ s.walk = q.walk
        /\ Elements(s.listed) \subseteq Elements(q.listed) \cup FreshOf(q, items, n - 1)
    BY <1>10 DEF Grown
  <2>2. r.walk = s.walk /\ (r.listed = s.listed \/ r.listed = Append(s.listed, item))
    BY <1>10 DEF Puts
  <2>3. r.listed # s.listed => OnSite(url) /\ url \notin s.queued /\ ~TooDeep(item.depth)
    BY DEF Puts, url
  <2>4. Elements(Append(s.listed, item)) = Elements(s.listed) \cup {item}
    BY <1>1, AppendElements
  <2>5. CASE r.listed = s.listed
    BY <1>4, <2>1, <2>2, <2>5
  <2>6. CASE r.listed # s.listed
    <3>1. Elements(r.listed) = Elements(s.listed) \cup {item}
      BY <2>2, <2>4, <2>6
    <3>2. item \in FreshOf(q, items, n)
      BY <1>4, <1>5, <2>3, <2>6
    <3> QED BY <1>4, <2>1, <2>2, <3>1, <3>2
  <2> QED BY <2>5, <2>6
<1> QED BY <1>5, <1>6, <1>7, <1>8, <1>9, <1>10 DEF Grown, New


(* EnqueueAll puts every item on its lane, none of them twice.             *)
LEMMA EnqueueAllGrows ==
  ASSUME site \in Site, NEW q \in Frontier, NEW items \in Seq(Entry), NEW lane \in Lane,
         NEW fetched
  PROVE  LET r == EnqueueAll(q, items, lane)
         IN /\ r \in Frontier /\ Grown(q, r, items, Len(items), lane)
            /\ Placed(q, fetched) => Placed(r, fetched)
<1>1. PICK L \in Nat : L = Len(items) /\ \A n \in 1..L : items[n] \in Entry
  OBVIOUS
<1>2. \A n \in 1..L : \A s \in Frontier :
        /\ Enqueue(s, items[n], lane) \in Frontier
        /\ Puts(s, Enqueue(s, items[n], lane), items[n], lane)
  BY <1>1, EnqueuePuts
<1>3. Absorbs(q, L, items, lane)
  BY <1>1, <1>2 DEF Absorbs
<1> DEFINE Good == [n \in 0..L |-> { s \in Frontier : /\ Placed(q, fetched) => Placed(s, fetched)
                                                      /\ Grown(q, s, items, n, lane) }]
<1>4. Good \in [0..L -> SUBSET Frontier]
  OBVIOUS
<1>5. q \in Good[0]
  <2>1. Grown(q, q, items, 0, lane)
    BY DEF Grown, FreshOf
  <2>2. 0 \in 0..L
    OBVIOUS
  <2> QED BY <2>1, <2>2
<1>6. ASSUME NEW n \in 1..L, NEW s \in Good[n - 1] PROVE Enqueue(s, items[n], lane) \in Good[n]
  <2>1. n - 1 \in 0..L /\ n \in 0..L /\ n \in Nat /\ n # 0 /\ items[n] \in Entry
    BY <1>1
  <2>2. /\ s \in Frontier /\ Grown(q, s, items, n - 1, lane)
        /\ Placed(q, fetched) => Placed(s, fetched)
    BY <2>1
  <2>3. PICK r : r = Enqueue(s, items[n], lane)
    OBVIOUS
  <2>4. r \in Frontier /\ Puts(s, r, items[n], lane)
    BY <1>2, <2>2, <2>3
  <2>5. Placed(q, fetched) => Placed(r, fetched)
    BY <2>1, <2>2, <2>4, EnqueuePlaces
  <2>6. Grown(q, r, items, n, lane)
    BY <2>1, <2>2, <2>4, EnqueueGrows
  <2> QED BY <2>1, <2>3, <2>4, <2>5, <2>6
<1>7. EnqueueAll(q, items, lane) \in Good[L]
  <2> HIDE DEF Good
  <2> QED BY <1>3, <1>4, <1>5, <1>6, EnqueueAllHolds
<1>8. L \in 0..L
  OBVIOUS
<1> QED BY <1>1, <1>7, <1>8


-----------------------------------------------------------------------------
(* The sitemaps                                                            *)

LEMMA ModOnce ==
  ASSUME NEW N \in Nat, N # 0, NEW x \in Nat, x < 2 * N
  PROVE  x % N = IF x < N THEN x ELSE x - N
<1>1. CASE x < N
  BY <1>1
<1>2. CASE x >= N
  <2>1. PICK d \in Int, m \in 0..N - 1 : x = N * d + m /\ x % N = m
    <3>1. x = N * (x \div N) + (x % N) /\ x % N \in 0..N - 1 /\ x \div N \in Int
      OBVIOUS
    <3> QED BY <3>1
  <2>2. d = 1
    <3>1. CASE d <= 0
      <4>1. N * d <= 0
        BY <3>1
      <4> QED BY <1>2, <2>1, <3>1, <4>1
    <3>2. CASE d >= 2
      <4>1. N * d >= 2 * N
        BY <3>2
      <4> QED BY <2>1, <3>2, <4>1
    <3> QED BY <3>1, <3>2
  <2> QED BY <1>2, <2>1, <2>2
<1> QED BY <1>1, <1>2

(* The lanes in the order of their turns.                                  *)
LaneAt(k) == ((laneTurn + k) % Len(lanes)) + 1

LEMMA LaneAtIs ==
  ASSUME lanes \in Seq(Seq(Document)), laneTurn \in 0..Len(lanes), lanes # <<>>,
         NEW k \in 0..Len(lanes) - 1
  PROVE  /\ LaneAt(k) \in DOMAIN lanes
         /\ laneTurn + k < Len(lanes) => LaneAt(k) = laneTurn + k + 1
         /\ laneTurn + k >= Len(lanes) => LaneAt(k) = laneTurn + k + 1 - Len(lanes)
<1>1. PICK N \in Nat : N = Len(lanes) /\ N # 0 /\ DOMAIN lanes = 1..N
  OBVIOUS
<1>2. (laneTurn + k) % N = IF laneTurn + k < N THEN laneTurn + k ELSE laneTurn + k - N
  <2>1. PICK x \in Nat : x = laneTurn + k /\ x < 2 * N
    BY <1>1
  <2>2. x % N = IF x < N THEN x ELSE x - N
    BY <1>1, <2>1, ModOnce
  <2> QED BY <2>1, <2>2
<1>3. LaneAt(k) = IF laneTurn + k < N THEN laneTurn + k + 1 ELSE laneTurn + k + 1 - N
  <2> DEFINE turned == (laneTurn + k) % N
  <2>1. LaneAt(k) = turned + 1
    BY <1>1 DEF LaneAt
  <2>2. laneTurn \in 0..N /\ k \in 0..N - 1
    BY <1>1
  <2>3. turned = IF laneTurn + k < N THEN laneTurn + k ELSE laneTurn + k - N
    BY <1>2
  <2> HIDE DEF turned
  <2> QED BY <2>1, <2>2, <2>3
<1>4. laneTurn \in 0..N /\ k \in 0..N - 1 /\ N \in Nat
  BY <1>1
<1>5. LaneAt(k) \in 1..N
  BY <1>3, <1>4
<1> HIDE DEF LaneAt
<1> QED BY <1>1, <1>3, <1>5

(* Whose turn it is: the first lane after laneTurn that has a document, or *)
(* else the first lane that has one.                                       *)
InTurn(j) ==
  /\ j \in DOMAIN lanes /\ lanes[j] # <<>>
  /\ \/ j > laneTurn /\ \A k \in laneTurn + 1..j - 1 : lanes[k] = <<>>
     \/ j <= laneTurn /\ \A k \in (laneTurn + 1..Len(lanes)) \cup (1..j - 1) : lanes[k] = <<>>

(* Of lanes 1 to N that wait in turn after the t-th, the first to be found *)
(* among `some` is the first of them after t, or the first.                *)
LEMMA FirstInTurn ==
  ASSUME NEW N \in Nat, N # 0, NEW t \in 0..N, NEW at \in [0..N - 1 -> 1..N],
         \A k \in 0..N - 1 : at[k] = IF t + k < N THEN t + k + 1 ELSE t + k + 1 - N,
         NEW some, NEW k \in 0..N - 1, at[k] \in some, \A m \in 0..k - 1 : at[m] \notin some,
         NEW j, j = at[k]
  PROVE  \/ j > t /\ \A i \in t + 1..j - 1 : i \notin some
         \/ j <= t /\ \A i \in (t + 1..N) \cup (1..j - 1) : i \notin some
<1>1. CASE t + k < N
  <2>1. j = t + k + 1
    BY <1>1
  <2>2. ASSUME NEW i \in t + 1..j - 1 PROVE i \notin some
    <3>1. PICK m \in 0..N - 1 : m = i - 1 - t /\ m \in 0..k - 1
      BY <2>1
    <3>2. at[m] = i
      BY <1>1, <2>1, <3>1
    <3> QED BY <3>1, <3>2
  <2> QED BY <2>1, <2>2
<1>2. CASE t + k >= N
  <2>1. j = t + k + 1 - N
    BY <1>2
  <2>2. ASSUME NEW i \in t + 1..N PROVE i \notin some
    <3>1. PICK m \in 0..N - 1 : m = i - 1 - t /\ m \in 0..k - 1
      BY <1>2
    <3>2. at[m] = i
      BY <3>1
    <3> QED BY <3>1, <3>2
  <2>3. ASSUME NEW i \in 1..j - 1 PROVE i \notin some
    <3>1. PICK m \in 0..N - 1 : m = i - 1 - t + N /\ m \in 0..k - 1
      BY <1>2, <2>1
    <3>2. at[m] = i
      BY <2>1, <3>1
    <3> QED BY <3>1, <3>2
  <2> QED BY <2>1, <2>2, <2>3
<1> QED BY <1>1, <1>2

LEMMA EachHasItsTurn ==
  ASSUME NEW N \in Nat, N # 0, NEW t \in 0..N, NEW at \in [0..N - 1 -> 1..N],
         \A k \in 0..N - 1 : at[k] = IF t + k < N THEN t + k + 1 ELSE t + k + 1 - N,
         NEW i \in 1..N
  PROVE  \E m \in 0..N - 1 : at[m] = i
<1>1. CASE i > t
  <2>1. PICK m \in 0..N - 1 : m = i - 1 - t
    BY <1>1
  <2>2. at[m] = i
    BY <2>1
  <2> QED BY <2>2
<1>2. CASE i <= t
  <2>1. PICK m \in 0..N - 1 : m = i - 1 - t + N
    BY <1>2
  <2>2. at[m] = i
    BY <1>2, <2>1
  <2> QED BY <2>2
<1> QED BY <1>1, <1>2

LEMMA NextLaneInTurn ==
  ASSUME lanes \in Seq(Seq(Document)), laneTurn \in 0..Len(lanes),
         \E i \in DOMAIN lanes : lanes[i] # <<>>
  PROVE  InTurn(NextLane)
<1>1. PICK N \in Nat : N = Len(lanes) /\ N # 0 /\ DOMAIN lanes = 1..N
  OBVIOUS
<1>2. PICK t \in 0..N : t = laneTurn
  BY <1>1
<1>3. PICK at \in [0..N - 1 -> 1..N] :
        \A k \in 0..N - 1 : /\ at[k] = LaneAt(k)
                            /\ at[k] = IF t + k < N THEN t + k + 1 ELSE t + k + 1 - N
  <2> DEFINE at == [k \in 0..N - 1 |-> LaneAt(k)]
  <2>1. lanes # <<>>
    BY <1>1
  <2>2. ASSUME NEW k \in 0..N - 1
        PROVE  /\ LaneAt(k) \in 1..N
               /\ LaneAt(k) = IF t + k < N THEN t + k + 1 ELSE t + k + 1 - N
    <3>1. k \in 0..Len(lanes) - 1
      BY <1>1
    <3>2. /\ LaneAt(k) \in 1..N
          /\ t + k < N => LaneAt(k) = t + k + 1
          /\ t + k >= N => LaneAt(k) = t + k + 1 - N
      BY <1>1, <1>2, <2>1, <3>1, LaneAtIs
    <3> QED BY <3>2
  <2>3. at \in [0..N - 1 -> 1..N]
    BY <2>2
  <2>4. \A k \in 0..N - 1 : at[k] = LaneAt(k)
    OBVIOUS
  <2> HIDE DEF at
  <2> QED BY <2>2, <2>3, <2>4
<1> DEFINE some == { i \in 1..N : lanes[i] # <<>> }
           W == { n \in 0..N - 1 : at[n] \in some }
<1>4. W # {}
  <2>1. PICK i \in 1..N : lanes[i] # <<>>
    BY <1>1
  <2>2. \A k \in 0..N - 1 : at[k] = IF t + k < N THEN t + k + 1 ELSE t + k + 1 - N
    BY <1>3
  <2>3. \E m \in 0..N - 1 : at[m] = i
    BY <1>1, <2>2, EachHasItsTurn
  <2> QED BY <2>1, <2>3
<1>5. PICK w \in W : \A m \in W : w <= m
  <2>1. W \subseteq Nat
    OBVIOUS
  <2> HIDE DEF W
  <2> QED BY <1>4, <2>1, LeastOf
<1> DEFINE P(n) == lanes[LaneAt(n)] # <<>> /\ \A m \in 0..n - 1 : lanes[LaneAt(m)] = <<>>
           k == CHOOSE n \in 0..N - 1 : P(n)
<1>6. w \in 0..N - 1 /\ P(w)
  <2>1. ASSUME NEW m \in 0..w - 1 PROVE lanes[LaneAt(m)] = <<>>
    <3>1. m \in 0..N - 1 /\ ~(w <= m)
      OBVIOUS
    <3>2. at[m] \notin some
      BY <1>5, <3>1
    <3> QED BY <1>3, <3>1, <3>2
  <2>2. lanes[LaneAt(w)] # <<>>
    BY <1>3
  <2> QED BY <2>1, <2>2
<1>7. k \in 0..N - 1 /\ P(k)
  BY <1>6
<1>8. NextLane = LaneAt(k)
  BY <1>1 DEF NextLane, LaneAt
<1> HIDE DEF k, W
<1>9. NextLane = at[k] /\ at[k] \in some
  BY <1>3, <1>7, <1>8
<1>10. \A m \in 0..k - 1 : at[m] \notin some
  BY <1>3, <1>7
<1>11. \A n \in 0..N - 1 : at[n] = IF t + n < N THEN t + n + 1 ELSE t + n + 1 - N
  BY <1>3
<1>12. PICK j \in 1..N : j = NextLane
  BY <1>7, <1>9
<1> HIDE DEF some
<1>13. \/ j > t /\ \A i \in t + 1..j - 1 : i \notin some
       \/ j <= t /\ \A i \in (t + 1..N) \cup (1..j - 1) : i \notin some
  BY <1>1, <1>7, <1>9, <1>10, <1>11, <1>12, FirstInTurn
<1>14. /\ \A i \in t + 1..j - 1 : i \in 1..N
       /\ \A i \in (t + 1..N) \cup (1..j - 1) : i \in 1..N
  <2>1. N \in Nat /\ t \in 0..N /\ j \in 1..N
    BY <1>12
  <2>2. ASSUME NEW i \in t + 1..j - 1 PROVE i \in 1..N
    BY <2>1
  <2>3. ASSUME NEW i \in t + 1..N PROVE i \in 1..N
    BY <2>1
  <2>4. ASSUME NEW i \in 1..j - 1 PROVE i \in 1..N
    BY <2>1
  <2> QED BY <2>2, <2>3, <2>4, Zenon
<1>15. j \in DOMAIN lanes /\ lanes[j] # <<>>
  BY <1>1, <1>9, <1>12 DEF some
<1>16. \/ j > laneTurn /\ \A i \in laneTurn + 1..j - 1 : lanes[i] = <<>>
       \/ j <= laneTurn /\ \A i \in (laneTurn + 1..Len(lanes)) \cup (1..j - 1) : lanes[i] = <<>>
  BY <1>1, <1>2, <1>13, <1>14 DEF some
<1> QED BY <1>12, <1>15, <1>16 DEF InTurn


-----------------------------------------------------------------------------
(* The types                                                               *)

LEMMA AtDepthIs ==
  ASSUME NEW urls \in Seq(Url), NEW depth \in Nat, NEW from \in Url \cup {"none"}
  PROVE  LET items == AtDepth(urls, depth, from)
         IN /\ items \in Seq(Entry) /\ Len(items) = Len(urls)
            /\ \A i \in 1..Len(urls) :
                 /\ items[i].url = urls[i] /\ items[i].depth = depth /\ items[i].from = from
            /\ { items[i].url : i \in 1..Len(items) } = Elements(urls)
<1> DEFINE items == AtDepth(urls, depth, from)
<1>1. items = [ i \in 1..Len(urls) |-> [url |-> urls[i], depth |-> depth, from |-> from] ]
  BY DEF AtDepth
<1>2. \A i \in 1..Len(urls) : [url |-> urls[i], depth |-> depth, from |-> from] \in Entry
  BY DEF Entry
<1> HIDE DEF items
<1>3. items \in Seq(Entry) /\ Len(items) = Len(urls)
  BY <1>1, <1>2
<1>4. \A i \in 1..Len(urls) :
        /\ items[i].url = urls[i] /\ items[i].depth = depth /\ items[i].from = from
  BY <1>1
<1>5. { items[i].url : i \in 1..Len(items) } = Elements(urls)
  BY <1>3, <1>4 DEF Elements
<1> QED BY <1>3, <1>4, <1>5 DEF items

LEMMA QueuesAre ==
  ASSUME NEW q \in Frontier, Queues(q)
  PROVE  /\ Queue' \in Frontier
         /\ walk' = q.walk /\ listed' = q.listed /\ queued' = q.queued
         /\ blocked' = q.blocked /\ beyond' = q.beyond /\ Queue' = q
BY DEF Frontier, Queues, Queue

LEMMA QueueParts ==
  ASSUME Queue \in Frontier
  PROVE  /\ walk \in Seq(Entry) /\ listed \in Seq(Entry) /\ queued \in SUBSET Url
         /\ blocked \in Seq(Url) /\ beyond \in SUBSET Url
BY DEF Queue, Frontier

(* The step that goes nowhere else than to its next await.                 *)
LEMMA TypedOnward ==
  ASSUME Typed,
         UNCHANGED <<site, sitemapVars, queueVars, turn, pages, entry>>,
         aborted' \in BOOLEAN, first' \in BOOLEAN, unpaced' \in Nat, SinkTypeOK',
         \/ step' = step
         \/ step' \in {"robots"} /\ step = "open"
         \/ step' \in AtPage /\ step \in AtPage
         \/ step' = "walk" /\ step = "before"
         \/ step' \in AtEnd \cup Failing
  PROVE  Typed'
<1> USE DEF Typed, sitemapVars, queueVars
<1>1. Queue' = Queue
  BY DEF Queue
<1>2. step' \in AtSitemaps \cup Walking \cup Failing
  BY DEF AtSitemaps, Walking, Failing, AtEnd, AtPage, WalkTypeOK
<1>3. WalkTypeOK'
  BY <1>1, <1>2 DEF WalkTypeOK
<1>4. NotYetWalking'
  BY DEF NotYetWalking, AtSitemaps, AtPage, AtEnd, Failing
<1>5. OnePage'
  BY DEF OnePage, Page, AtPage, AtEnd, Failing
<1> QED BY <1>3, <1>4, <1>5


LEMMA TypedLoads ==
  ASSUME Typed, Walks(LoadRobots)
  PROVE  Typed'
<1> USE DEF Typed, Walks, Besides, LoadRobots, queueVars, sinkVars
<1>1. step = "robots" /\ step' = "sitemaps" /\ lanes = <<>> /\ laneTurn = 0
  BY DEF NotYetWalking, WalkTypeOK
<1>2. site \in Site /\ site.roots \in Seq(Document)
  BY SiteType DEF WalkTypeOK
<1>3. lanes' \in Seq(Seq(Document)) /\ Len(lanes') \in Nat
  <2>1. \A i \in DOMAIN site.roots : <<site.roots[i]>> \in Seq(Document)
    BY <1>2
  <2>2. DOMAIN site.roots = 1..Len(site.roots) /\ Len(site.roots) \in Nat
    BY <1>2
  <2> QED BY <2>1, <2>2
<1>4. served' \in [DOMAIN lanes' -> Nat]
  OBVIOUS
<1>5. Queue' = Queue
  BY DEF Queue
<1>6. WalkTypeOK'
  BY <1>1, <1>3, <1>4, <1>5 DEF WalkTypeOK, AtSitemaps
<1>7. SinkTypeOK'
  BY DEF SinkTypeOK
<1>8. NotYetWalking' /\ OnePage'
  BY <1>1 DEF NotYetWalking, OnePage, AtSitemaps, AtPage
<1> QED BY <1>6, <1>7, <1>8

LEMMA TypedReads ==
  ASSUME Typed, Walks(ReadSitemap)
  PROVE  Typed'
<1> DEFINE i == NextLane
           next == Head(lanes[i])
           doc == site.docs[next]
           known == next \in seen
           children == IF known \/ ~doc.ok THEN <<>> ELSE doc.children
<1>1. /\ lanes \in Seq(Seq(Document)) /\ laneTurn \in 0..Len(lanes)
      /\ served \in [DOMAIN lanes -> Nat] /\ declared \in Seq(Url) /\ seen \subseteq Document
  BY DEF Typed, WalkTypeOK
<1>2. \E k \in DOMAIN lanes : lanes[k] # <<>>
  BY DEF Walks, Besides, ReadSitemap, SitemapsLeft
<1>3. i \in DOMAIN lanes /\ lanes[i] # <<>> /\ lanes[i] \in Seq(Document)
  BY <1>1, <1>2, NextLaneInTurn DEF InTurn
<1> HIDE DEF i
<1>4. next \in Document /\ Tail(lanes[i]) \in Seq(Document)
  BY <1>3
<1>5. doc \in Sitemap
  BY <1>4, SiteType DEF Typed, WalkTypeOK
<1>6. children \in Seq(Document) /\ doc.urls \in Seq(Url)
  BY <1>5 DEF Sitemap
<1>7. /\ lanes' = [lanes EXCEPT ![i] = Tail(lanes[i]) \o children]
      /\ laneTurn' = i /\ served' = [served EXCEPT ![i] = served[i] + 1]
      /\ seen' = seen \cup {next}
      /\ declared' = IF known \/ ~doc.ok THEN declared ELSE declared \o doc.urls
  BY DEF i, Walks, Besides, ReadSitemap
<1> HIDE DEF next, doc, known, children
<1>8. lanes' \in Seq(Seq(Document)) /\ Len(lanes') = Len(lanes) /\ DOMAIN lanes' = DOMAIN lanes
  <2>1. Tail(lanes[i]) \o children \in Seq(Document)
    BY <1>4, <1>6
  <2>2. PICK N \in Nat : N = Len(lanes) /\ DOMAIN lanes = 1..N /\ lanes \in [1..N -> Seq(Document)]
    BY <1>1
  <2>3. lanes' \in [1..N -> Seq(Document)]
    BY <1>3, <1>7, <2>1, <2>2
  <2>4. lanes' \in Seq(Seq(Document)) /\ Len(lanes') = N /\ DOMAIN lanes' = 1..N
    BY <2>3
  <2> QED BY <2>2, <2>4
<1>9. served' \in [DOMAIN lanes' -> Nat]
  <2>1. served[i] + 1 \in Nat
    BY <1>1, <1>3
  <2> QED BY <1>1, <1>3, <1>7, <1>8, <2>1
<1>10. declared' \in Seq(Url)
  BY <1>1, <1>6, <1>7
<1>11. laneTurn' \in 0..Len(lanes')
  BY <1>1, <1>3, <1>7, <1>8
<1>12. Queue' = Queue
  BY DEF Queue, Walks, Besides, ReadSitemap, queueVars
<1>13. step = "sitemaps" /\ step' = step
  BY DEF Walks, Besides, ReadSitemap
<1>14. seen' \subseteq Document
  BY <1>1, <1>4, <1>7
<1>15. WalkTypeOK'
  BY <1>8, <1>9, <1>10, <1>11, <1>12, <1>13, <1>14 DEF Typed, WalkTypeOK, Walks, Besides, ReadSitemap
<1>16. SinkTypeOK'
  BY DEF Typed, SinkTypeOK, Walks, Besides, sinkVars
<1>17. NotYetWalking' /\ OnePage'
  BY <1>13 DEF Typed, NotYetWalking, OnePage, AtSitemaps, AtPage, Walks, Besides, ReadSitemap, queueVars
<1> QED BY <1>15, <1>16, <1>17 DEF Typed

(* The seeds first, then what the sitemaps declare.                        *)
Seeded == EnqueueAll(Queue, AtDepth(Seeds, 0, "none"), "walk")
Started == EnqueueAll(Seeded, AtDepth(declared, 0, "none"), "listed")

LEMMA StartedIs ==
  ASSUME Typed, NEW fetched
  PROVE  /\ Seeded \in Frontier /\ Started \in Frontier
         /\ Grown(Queue, Seeded, AtDepth(Seeds, 0, "none"), Len(Seeds), "walk")
         /\ Grown(Seeded, Started, AtDepth(declared, 0, "none"), Len(declared), "listed")
         /\ Placed(Queue, fetched) => Placed(Started, fetched)
<1>1. site \in Site /\ Queue \in Frontier /\ declared \in Seq(Url) /\ Seeds \in Seq(Url)
  BY SeedsAssumption DEF Typed, WalkTypeOK
<1>2. "walk" \in Lane /\ "listed" \in Lane
  BY DEF Lane
<1>3. /\ AtDepth(Seeds, 0, "none") \in Seq(Entry)
      /\ Len(AtDepth(Seeds, 0, "none")) = Len(Seeds)
  BY <1>1, AtDepthIs
<1>4. /\ AtDepth(declared, 0, "none") \in Seq(Entry)
      /\ Len(AtDepth(declared, 0, "none")) = Len(declared)
  BY <1>1, AtDepthIs
<1>5. /\ Seeded \in Frontier
      /\ Grown(Queue, Seeded, AtDepth(Seeds, 0, "none"), Len(Seeds), "walk")
      /\ Placed(Queue, fetched) => Placed(Seeded, fetched)
  BY <1>1, <1>2, <1>3, EnqueueAllGrows DEF Seeded
<1>6. /\ Started \in Frontier
      /\ Grown(Seeded, Started, AtDepth(declared, 0, "none"), Len(declared), "listed")
      /\ Placed(Seeded, fetched) => Placed(Started, fetched)
  BY <1>1, <1>2, <1>4, <1>5, EnqueueAllGrows DEF Started
<1> QED BY <1>5, <1>6

LEMMA TypedStarts ==
  ASSUME Typed, Walks(SitemapsDone)
  PROVE  Typed'
<1> USE DEF Typed, Walks, Besides, SitemapsDone, sitemapVars, sinkVars
<1>1. step = "sitemaps" /\ step' = "before"
  OBVIOUS
<1>2. Started \in Frontier /\ Queues(Started)
  BY StartedIs DEF Started, Seeded
<1>3. Queue' \in Frontier
  BY <1>2, QueuesAre
<1>4. WalkTypeOK'
  BY <1>1, <1>3 DEF WalkTypeOK, Walking
<1>5. SinkTypeOK'
  BY DEF SinkTypeOK
<1>6. NotYetWalking' /\ OnePage'
  BY <1>1 DEF NotYetWalking, OnePage, AtSitemaps, AtPage
<1> QED BY <1>4, <1>5, <1>6


(* A page taken from one lane or the other.                                *)
TakesFrom(item) ==
  \/ /\ turn = "walk" \/ listed = <<>>
     /\ walk # <<>> /\ item = Head(walk) /\ walk' = Tail(walk) /\ listed' = listed
     /\ turn' = "listed"
  \/ /\ turn = "listed" \/ walk = <<>>
     /\ listed # <<>> /\ item = Head(listed) /\ listed' = Tail(listed) /\ walk' = walk
     /\ turn' = "walk"

LEMMA VisitTakes ==
  ASSUME Typed, Visit
  PROVE  \E item \in Entry : \E page \in Visited :
           /\ page.url = item.url /\ page.depth = item.depth /\ page.from = item.from
           /\ page.rendered = "absent" /\ page.mobile = "absent"
           /\ pages' = Append(pages, page) /\ entry' = item
           /\ TakesFrom(item)
<1> DEFINE item == IF Takes = "walk" THEN Head(walk) ELSE Head(listed)
           got == Fetch(item.url)
           page == [ url |-> item.url, depth |-> item.depth, from |-> item.from,
                     final |-> got.final, chain |-> got.chain, failed |-> got.failed,
                     html |-> got.html, links |-> got.links,
                     nofollow |-> got.nofollow, declares |-> got.declares,
                     icons |-> got.icons,
                     rendered |-> "absent", mobile |-> "absent" ]
<1>1. /\ site \in Site /\ turn \in {"walk", "listed"} /\ pages \in Seq(Visited)
      /\ walk \in Seq(Entry) /\ listed \in Seq(Entry)
  BY QueueParts DEF Typed, WalkTypeOK
<1>2. walk # <<>> \/ listed # <<>>
  BY DEF Visit, WalkLeft
<1>3. /\ turn' = IF Takes = "walk" THEN "listed" ELSE "walk"
      /\ walk' = IF Takes = "walk" THEN Tail(walk) ELSE walk
      /\ listed' = IF Takes = "walk" THEN listed ELSE Tail(listed)
      /\ entry' = item /\ pages' = Append(pages, page)
  BY DEF Visit
<1>4. /\ Takes \in {"walk", "listed"}
      /\ Takes = "walk" => walk # <<>> /\ (turn = "walk" \/ listed = <<>>)
      /\ Takes = "listed" => listed # <<>> /\ (turn = "listed" \/ walk = <<>>)
  <2>1. CASE turn = "walk"
    BY <1>2, <2>1 DEF Takes
  <2>2. CASE turn = "listed"
    BY <1>2, <2>2 DEF Takes
  <2> QED BY <1>1, <2>1, <2>2
<1>5. item \in Entry
  <2>1. walk # <<>> => Head(walk) \in Entry
    BY <1>1
  <2>2. listed # <<>> => Head(listed) \in Entry
    BY <1>1
  <2> QED BY <1>4, <2>1, <2>2
<1>6. TakesFrom(item)
  BY <1>3, <1>4 DEF TakesFrom
<1> HIDE DEF item
<1>7. item.url \in Url /\ item.depth \in Nat /\ item.from \in Url \cup {"none"}
  BY <1>5 DEF Entry
<1>8. /\ got.final \in Url /\ got.chain \in 0..MaxRedirects + 1
      /\ got.failed \in BOOLEAN /\ got.html \in BOOLEAN
      /\ got.links \in Seq(Url) /\ got.icons \in Nat
      /\ got.nofollow \in SUBSET Url /\ got.declares \in SUBSET Url
  BY <1>1, <1>7, FetchType
<1> HIDE DEF got
<1>9. page \in Visited
  BY <1>7, <1>8 DEF Visited
<1>10. /\ page.url = item.url /\ page.depth = item.depth /\ page.from = item.from
       /\ page.rendered = "absent" /\ page.mobile = "absent"
  OBVIOUS
<1> HIDE DEF page
<1> QED BY <1>3, <1>5, <1>6, <1>9, <1>10

LEMMA AppendIs ==
  ASSUME NEW T, NEW s \in Seq(T), NEW e \in T
  PROVE  LET t == Append(s, e)
         IN /\ t \in Seq(T) /\ t # <<>> /\ Len(t) = Len(s) + 1 /\ DOMAIN t = 1..Len(s) + 1
            /\ t[Len(t)] = e /\ \A i \in 1..Len(s) : t[i] = s[i]
OBVIOUS

LEMMA TypedVisits ==
  ASSUME Typed, Walks(Visit)
  PROVE  Typed'
<1>1. PICK item \in Entry, page \in Visited :
        /\ page.url = item.url /\ page.depth = item.depth /\ page.from = item.from
        /\ pages' = Append(pages, page) /\ entry' = item
        /\ TakesFrom(item)
  BY VisitTakes DEF Walks, Besides
<1>2. /\ pages \in Seq(Visited) /\ walk \in Seq(Entry) /\ listed \in Seq(Entry)
      /\ queued \in SUBSET Url /\ blocked \in Seq(Url) /\ beyond \in SUBSET Url
  BY QueueParts DEF Typed, WalkTypeOK
<1>3. /\ pages' \in Seq(Visited) /\ pages' # <<>> /\ Page' = page
  <2>1. pages' = Append(pages, page) /\ pages \in Seq(Visited)
    BY <1>1, <1>2
  <2>2. pages' \in Seq(Visited) /\ pages' # <<>> /\ pages'[Len(pages')] = page
    BY <2>1, AppendIs
  <2> QED BY <2>2 DEF Page
<1>4. /\ walk' \in Seq(Entry) /\ listed' \in Seq(Entry) /\ turn' \in {"walk", "listed"}
  <2>1. walk # <<>> => Tail(walk) \in Seq(Entry)
    BY <1>2
  <2>2. listed # <<>> => Tail(listed) \in Seq(Entry)
    BY <1>2
  <2>3. TakesFrom(item)
    BY <1>1
  <2> QED BY <1>2, <2>1, <2>2, <2>3 DEF TakesFrom
<1>5. UNCHANGED <<queued, blocked, beyond>>
  BY DEF Walks, Besides, Visit
<1>6. Queue' \in Frontier
  BY <1>2, <1>4, <1>5 DEF Queue, Frontier
<1>7. step = "walk" /\ step' = "render"
  BY DEF Walks, Besides, Visit
<1>8. /\ UNCHANGED <<site, aborted, sitemapVars, sinkVars, faults>>
      /\ first' = FALSE /\ unpaced' = unpaced + (IF first THEN 1 ELSE 0)
  BY DEF Walks, Besides, Visit, Paces
<1>9. WalkTypeOK'
  <2>1. step' \in Walking /\ unpaced' \in Nat /\ first' \in BOOLEAN /\ entry' \in Entry
    <3>1. unpaced \in Nat
      BY DEF Typed, WalkTypeOK
    <3>2. unpaced' \in Nat /\ first' \in BOOLEAN
      <4>1. unpaced' = unpaced + (IF first THEN 1 ELSE 0)
        BY <1>8
      <4>2. unpaced' \in Nat
        BY <3>1, <4>1
      <4>3. first' \in BOOLEAN
        BY <1>8
      <4> QED BY <4>2, <4>3
    <3>3. step' \in Walking
      BY <1>7 DEF Walking, AtPage
    <3> QED BY <1>1, <3>2, <3>3
  <2> QED BY <1>3, <1>4, <1>6, <1>8, <2>1 DEF Typed, WalkTypeOK, sitemapVars
<1>10. SinkTypeOK'
  BY <1>8 DEF Typed, SinkTypeOK, sinkVars
<1>11. OnePage'
  BY <1>1, <1>3 DEF OnePage, Entry
<1>12. NotYetWalking'
  BY <1>7 DEF NotYetWalking, AtSitemaps
<1> QED BY <1>9, <1>10, <1>11, <1>12 DEF Typed

(* What a render leaves of the page it is of.                              *)
LEMMA RenderMarks ==
  ASSUME Typed, NEW outcome \in {"rendered", "failed", "threw"}, Render(outcome)
  PROVE  /\ pages' \in Seq(Visited) /\ Len(pages') = Len(pages) /\ pages # <<>>
         /\ \A i \in 1..Len(pages) : \A f \in {"url", "depth", "from", "final", "chain", "links"} :
              pages'[i][f] = pages[i][f]
         /\ \A i \in 1..Len(pages) - 1 : pages'[i] = pages[i]
<1>1. step \in AtPage /\ pages \in Seq(Visited) /\ pages # <<>>
  BY DEF Typed, WalkTypeOK, Render, AtPage, OnePage
<1>2. PICK n \in Nat : n = Len(pages) /\ n \in 1..n /\ DOMAIN pages = 1..n /\ pages \in [1..n -> Visited]
  BY <1>1
<1>3. CASE outcome = "threw"
  BY <1>1, <1>3 DEF Render
<1>4. CASE outcome # "threw"
  <2> DEFINE marked == IF step = "render" THEN [pages[n] EXCEPT !.rendered = outcome]
                       ELSE [pages[n] EXCEPT !.mobile = outcome]
  <2>1. pages' = [pages EXCEPT ![n] = marked]
    BY <1>2, <1>4 DEF Render
  <2>2. pages[n] \in Visited /\ outcome \in {"rendered", "failed"}
    BY <1>2, <1>4
  <2>3. /\ marked \in Visited
        /\ \A f \in {"url", "depth", "from", "final", "chain", "links"} : marked[f] = pages[n][f]
    <3>1. CASE step = "render"
      BY <2>2, <3>1 DEF Visited
    <3>2. CASE step # "render"
      BY <2>2, <3>2 DEF Visited
    <3> QED BY <3>1, <3>2
  <2> HIDE DEF marked
  <2>4. pages' \in [1..n -> Visited]
    BY <1>2, <2>1, <2>3
  <2>5. pages' \in Seq(Visited) /\ Len(pages') = n
    BY <2>4
  <2>6. pages'[n] = marked /\ \A i \in 1..n : i # n => pages'[i] = pages[i]
    BY <1>2, <2>1
  <2>7. ASSUME NEW i \in 1..n, NEW f \in {"url", "depth", "from", "final", "chain", "links"}
        PROVE  pages'[i][f] = pages[i][f]
    <3>1. CASE i = n
      BY <2>3, <2>6, <3>1
    <3>2. CASE i # n
      BY <2>6, <3>2
    <3> QED BY <3>1, <3>2
  <2>8. \A i \in 1..n - 1 : pages'[i] = pages[i]
    BY <2>6
  <2> QED BY <1>1, <1>2, <2>5, <2>7, <2>8
<1> QED BY <1>3, <1>4


LEMMA TypedRenders ==
  ASSUME Typed, NEW outcome \in {"rendered", "failed", "threw"}, Walks(Render(outcome))
  PROVE  Typed'
<1>1. /\ pages' \in Seq(Visited) /\ Len(pages') = Len(pages) /\ pages # <<>>
      /\ \A i \in 1..Len(pages) : \A f \in {"url", "depth", "from", "final", "chain", "links"} :
           pages'[i][f] = pages[i][f]
  BY RenderMarks DEF Walks, Besides
<1>2. /\ UNCHANGED <<site, aborted, first, unpaced, sitemapVars, queueVars, turn, entry>>
      /\ UNCHANGED <<sinkVars, faults>>
  BY DEF Walks, Besides, Render
<1>3. step \in {"render", "mobile"} /\ step' \in {"mobile", "page", "fail"}
  BY DEF Walks, Besides, Render
<1>4. Queue' = Queue
  BY <1>2 DEF Queue, queueVars
<1>5. step' \in Walking \cup Failing
  BY <1>3 DEF Walking, AtPage, Failing
<1>6. WalkTypeOK'
  BY <1>1, <1>2, <1>4, <1>5 DEF Typed, WalkTypeOK, sitemapVars
<1>7. SinkTypeOK'
  BY <1>2 DEF Typed, SinkTypeOK, sinkVars
<1>8. NotYetWalking'
  BY <1>3 DEF NotYetWalking, AtSitemaps
<1>9. OnePage'
  <2>1. step \in AtPage
    BY <1>3 DEF AtPage
  <2>2. entry' = [url |-> Page.url, depth |-> Page.depth, from |-> Page.from]
    BY <1>2, <2>1 DEF Typed, OnePage
  <2>3. Len(pages) \in 1..Len(pages)
    BY <1>1 DEF Typed, WalkTypeOK
  <2>4. Page'.url = Page.url /\ Page'.depth = Page.depth /\ Page'.from = Page.from
    BY <1>1, <2>3 DEF Page
  <2>5. pages' # <<>>
    BY <1>1, <2>3
  <2> QED BY <2>2, <2>4, <2>5 DEF OnePage
<1> QED BY <1>6, <1>7, <1>8, <1>9 DEF Typed

LEMMA ConcatIs ==
  ASSUME NEW T, NEW s \in Seq(T), NEW r \in Seq(T)
  PROVE  /\ Len(s) \in Nat /\ Len(r) \in Nat /\ Len(s \o r) = Len(s) + Len(r) /\ s \o r \in Seq(T)
         /\ \A i \in 1..Len(s) : (s \o r)[i] = s[i]
         /\ \A i \in 1..Len(r) : (s \o r)[Len(s) + i] = r[i]
OBVIOUS

(* What a page leads to.                                                   *)
Leads ==
  (IF Page.chain = 0 THEN <<>> ELSE AtDepth(<<Page.final>>, entry.depth, NamedByEntry))
    \o AtDepth(Page.links, entry.depth + 1, NamedByEntry)

LEMMA LeadsAre ==
  ASSUME Typed, step = "write"
  PROVE  /\ entry \in Entry /\ Page \in Visited
         /\ Leads \in Seq(Entry)
         /\ \A n \in 1..Len(Leads) : /\ Leads[n].from = entry.url
                                     /\ Leads[n].depth \in {entry.depth, entry.depth + 1}
         /\ { Leads[n].url : n \in 1..Len(Leads) } = LeadsTo(Page)
         /\ \A u \in LeadsWithin(Page) :
              entry.depth <= site.maxDepth =>
                \E n \in 1..Len(Leads) : Leads[n].url = u /\ ~TooDeep(Leads[n].depth)
<1>1. /\ pages # <<>> /\ entry = [url |-> Page.url, depth |-> Page.depth, from |-> Page.from]
      /\ pages \in Seq(Visited) /\ site.maxDepth \in Nat
  BY SiteType DEF Typed, WalkTypeOK, OnePage, AtPage
<1>2. Page \in Visited
  BY <1>1 DEF Page
<1>3. /\ entry \in Entry /\ entry.url \in Url /\ entry.depth \in Nat /\ entry.depth = Page.depth
      /\ Page.links \in Seq(Url) /\ Page.final \in Url /\ Page.chain \in 0..MaxRedirects + 1
  BY <1>1, <1>2 DEF Visited, Entry
<1> DEFINE target == IF Page.chain = 0 THEN <<>> ELSE AtDepth(<<Page.final>>, entry.depth, entry.url)
           links == AtDepth(Page.links, entry.depth + 1, entry.url)
<1>4. /\ links \in Seq(Entry) /\ Len(links) = Len(Page.links)
      /\ \A i \in 1..Len(links) :
           /\ links[i].url = Page.links[i] /\ links[i].depth = entry.depth + 1
           /\ links[i].from = entry.url
  <2>1. entry.depth + 1 \in Nat /\ entry.url \in Url \cup {"none"}
    BY <1>3
  <2> QED BY <1>3, <2>1, AtDepthIs
<1>5. /\ target \in Seq(Entry) /\ Len(target) = IF Page.chain = 0 THEN 0 ELSE 1
      /\ \A i \in 1..Len(target) :
           /\ target[i].url = Page.final /\ target[i].depth = entry.depth
           /\ target[i].from = entry.url
  <2>1. CASE Page.chain = 0
    <3>1. target = <<>>
      BY <2>1
    <3> QED BY <2>1, <3>1
  <2>2. CASE Page.chain # 0
    <3>1. PICK final \in Seq(Url) : /\ final = <<Page.final>> /\ Len(final) = 1
                                    /\ final[1] = Page.final
      <4>1. <<Page.final>> \in Seq(Url) /\ Len(<<Page.final>>) = 1
        BY <1>3
      <4>2. <<Page.final>>[1] = Page.final
        OBVIOUS
      <4> QED BY <4>1, <4>2, Zenon
    <3>2. target = AtDepth(final, entry.depth, entry.url)
      BY <2>2, <3>1
    <3>3. entry.url \in Url \cup {"none"}
      BY <1>3
    <3>4. /\ target \in Seq(Entry) /\ Len(target) = Len(final)
          /\ \A i \in 1..Len(final) :
               /\ target[i].url = final[i] /\ target[i].depth = entry.depth
               /\ target[i].from = entry.url
      <4>1. PICK depth \in Nat, from \in Url \cup {"none"} : depth = entry.depth /\ from = entry.url
        BY <1>3, <3>3
      <4> HIDE DEF target
      <4> QED BY <3>2, <4>1, AtDepthIs
    <3> QED BY <2>2, <3>1, <3>4
  <2> QED BY <2>1, <2>2
<1>6. Leads = target \o links
  BY DEF Leads, NamedByEntry
<1> HIDE DEF target, links
<1>7. PICK t \in Nat, l \in Nat :
        /\ t = Len(target) /\ l = Len(links) /\ Len(Leads) = t + l /\ Leads \in Seq(Entry)
        /\ \A n \in 1..t : Leads[n] = target[n]
        /\ \A n \in 1..l : Leads[t + n] = links[n]
  <2>0. target \in Seq(Entry) /\ links \in Seq(Entry)
    BY <1>4, <1>5
  <2>1. /\ Len(target) \in Nat /\ Len(links) \in Nat
        /\ Len(Leads) = Len(target) + Len(links) /\ Leads \in Seq(Entry)
        /\ \A n \in 1..Len(target) : Leads[n] = target[n]
        /\ \A n \in 1..Len(links) : Leads[Len(target) + n] = links[n]
    BY <2>0, <1>6, ConcatIs
  <2> QED BY <2>1
<1>8. ASSUME NEW n \in 1..t + l
      PROVE  \/ n \in 1..t /\ Leads[n] = target[n]
             \/ n - t \in 1..l /\ Leads[n] = links[n - t]
  <2>1. CASE n <= t
    BY <1>7, <2>1
  <2>2. CASE n > t
    <3>1. PICK m \in 1..l : n = t + m
      <4>1. n - t \in 1..l /\ n = t + (n - t)
        BY <2>2
      <4> QED BY <4>1
    <3> QED BY <1>7, <3>1
  <2> QED BY <2>1, <2>2
<1>9. \A n \in 1..Len(Leads) : /\ Leads[n].from = entry.url
                               /\ Leads[n].depth \in {entry.depth, entry.depth + 1}
  <2> SUFFICES ASSUME NEW n \in 1..t + l
               PROVE  /\ Leads[n].from = entry.url
                      /\ Leads[n].depth \in {entry.depth, entry.depth + 1}
    BY <1>7
  <2>1. CASE n \in 1..t /\ Leads[n] = target[n]
    BY <1>5, <1>7, <2>1
  <2>2. CASE n - t \in 1..l /\ Leads[n] = links[n - t]
    BY <1>4, <1>7, <2>2
  <2> QED BY <1>8, <2>1, <2>2
<1>10. \A i \in 1..l : t + i \in 1..Len(Leads) /\ Leads[t + i].url = Page.links[i]
                       /\ Leads[t + i].depth = entry.depth + 1
  <2> SUFFICES ASSUME NEW i \in 1..l
               PROVE  /\ t + i \in 1..Len(Leads) /\ Leads[t + i].url = Page.links[i]
                      /\ Leads[t + i].depth = entry.depth + 1
    OBVIOUS
  <2>1. t + i \in 1..t + l /\ Len(Leads) = t + l
    BY <1>7
  <2>2. Leads[t + i] = links[i]
    BY <1>7
  <2> QED BY <1>4, <1>7, <2>1, <2>2
<1>11. Page.chain > 0 => /\ 1 \in 1..Len(Leads) /\ Leads[1].url = Page.final
                         /\ Leads[1].depth = entry.depth
  BY <1>3, <1>5, <1>7
<1>12. DOMAIN Page.links = 1..l
  BY <1>3, <1>4, <1>7
<1>13. { Leads[n].url : n \in 1..Len(Leads) } = LeadsTo(Page)
  <2>1. ASSUME NEW n \in 1..Len(Leads) PROVE Leads[n].url \in LeadsTo(Page)
    <3>1. CASE n \in 1..t /\ Leads[n] = target[n]
      BY <1>3, <1>5, <1>7, <3>1 DEF LeadsTo
    <3>2. CASE n - t \in 1..l /\ Leads[n] = links[n - t]
      BY <1>4, <1>7, <1>12, <3>2 DEF LeadsTo, Elements
    <3> QED BY <1>7, <1>8, <3>1, <3>2
  <2>2. ASSUME NEW u \in LeadsTo(Page) PROVE \E n \in 1..Len(Leads) : Leads[n].url = u
    <3>1. CASE u \in Elements(Page.links)
      BY <1>10, <1>12, <3>1 DEF Elements
    <3>2. CASE Page.chain > 0 /\ u = Page.final
      BY <1>11, <3>2
    <3> QED BY <3>1, <3>2 DEF LeadsTo
  <2> QED BY <2>1, <2>2
<1>14. ASSUME NEW u \in LeadsWithin(Page), entry.depth <= site.maxDepth
       PROVE  \E n \in 1..Len(Leads) : Leads[n].url = u /\ ~TooDeep(Leads[n].depth)
  <2>1. CASE Page.depth < site.maxDepth /\ u \in Elements(Page.links)
    <3>1. PICK i \in 1..l : u = Page.links[i]
      BY <1>12, <2>1 DEF Elements
    <3>2. t + i \in 1..Len(Leads) /\ Leads[t + i].url = u /\ Leads[t + i].depth = entry.depth + 1
      BY <1>10, <3>1
    <3>3. ~TooDeep(entry.depth + 1)
      BY <1>1, <1>3, <2>1 DEF TooDeep
    <3> QED BY <3>2, <3>3
  <2>2. CASE Page.chain > 0 /\ u = Page.final
    BY <1>1, <1>3, <1>11, <1>14, <2>2 DEF TooDeep
  <2> QED BY <2>1, <2>2 DEF LeadsWithin
<1> QED BY <1>2, <1>3, <1>7, <1>9, <1>13, <1>14


LEMMA FollowIs ==
  ASSUME Typed, step = "write", Follow, NEW fetched
  PROVE  /\ Queue' \in Frontier /\ step' = "walk"
         /\ Grown(Queue, Queue', Leads, Len(Leads), "walk")
         /\ Placed(Queue, fetched) => Placed(Queue', fetched)
<1>1. site \in Site /\ Queue \in Frontier /\ Leads \in Seq(Entry) /\ "walk" \in Lane
  BY LeadsAre DEF Typed, WalkTypeOK, Lane
<1>2. PICK r : r = EnqueueAll(Queue, Leads, "walk")
  OBVIOUS
<1>3. /\ r \in Frontier /\ Grown(Queue, r, Leads, Len(Leads), "walk")
      /\ Placed(Queue, fetched) => Placed(r, fetched)
  BY <1>1, <1>2, EnqueueAllGrows
<1>4. Queues(r) /\ step' = "walk"
  BY <1>2 DEF Follow, Leads
<1>5. Queue' = r
  BY <1>3, <1>4, QueuesAre
<1> QED BY <1>3, <1>4, <1>5

LEMMA EntryOfPage ==
  ASSUME Typed, step \in AtPage
  PROVE  /\ pages # <<>> /\ Len(pages) \in 1..Len(pages) /\ Len(pages) \in Nat
         /\ DOMAIN pages = 1..Len(pages) /\ Page \in Visited /\ Page = pages[Len(pages)]
         /\ entry \in Entry /\ entry.url \in Url /\ entry.depth \in Nat
         /\ entry.from \in Url \cup {"none"}
         /\ entry.url = Page.url /\ entry.depth = Page.depth /\ entry.from = Page.from
<1>1. /\ pages # <<>> /\ entry = [url |-> Page.url, depth |-> Page.depth, from |-> Page.from]
      /\ pages \in Seq(Visited)
  BY DEF Typed, OnePage, WalkTypeOK
<1>2. /\ Len(pages) \in 1..Len(pages) /\ Len(pages) \in Nat /\ DOMAIN pages = 1..Len(pages)
      /\ Page \in Visited
  BY <1>1 DEF Page
<1> QED BY <1>1, <1>2 DEF Visited, Entry, Page

LEMMA CapturesOf ==
  ASSUME NEW url \in Url
  PROVE  { <<url, m>> : m \in Captures } \in SUBSET (Url \X Mode)
<1>1. Captures \subseteq Mode
  BY DEF Captures
<1> QED BY <1>1

LEMMA TypedStores ==
  ASSUME Typed, StoreBodies
  PROVE  Typed'
<1>1. step = "page" /\ step \in AtPage
  BY DEF StoreBodies, AtPage
<1>2. entry.url \in Url
  BY <1>1, EntryOfPage
<1> DEFINE bodies == { <<entry.url, m>> : m \in Captures }
<1>3. bodies \in SUBSET (Url \X Mode)
  BY <1>2, CapturesOf
<1>4. /\ blobs' \in SUBSET (Url \X Mode) /\ step' \in {"write", "fail"} /\ faults' \in Nat
      /\ UNCHANGED <<site, aborted, first, unpaced, sitemapVars, queueVars, turn, pages, entry>>
      /\ UNCHANGED <<crawlRow, rows, edges, renders, ids>>
  <2>1. blobs \in SUBSET (Url \X Mode) /\ faults \in Nat
    BY DEF Typed, SinkTypeOK
  <2>2. CASE blobs' = blobs \cup bodies /\ Goes("write") /\ UNCHANGED faults
    BY <1>3, <2>1, <2>2 DEF Goes, StoreBodies
  <2>3. CASE /\ Breaks /\ Goes("fail")
             /\ \E some \in SUBSET bodies : some # bodies /\ blobs' = blobs \cup some
    BY <1>3, <2>1, <2>3 DEF Goes, Breaks, StoreBodies
  <2> QED BY <2>2, <2>3 DEF StoreBodies
<1>5. SinkTypeOK'
  BY <1>4 DEF Typed, SinkTypeOK
<1>6. step' \in AtPage \cup Failing
  BY <1>4 DEF AtPage, Failing
<1>7. aborted' \in BOOLEAN /\ first' \in BOOLEAN /\ unpaced' \in Nat
  BY <1>4 DEF Typed, WalkTypeOK
<1> QED BY <1>1, <1>4, <1>5, <1>6, <1>7, TypedOnward

LEMMA RowIs ==
  ASSUME Typed, step \in AtPage
  PROVE  /\ RowOf \in Row /\ RowOf.url = entry.url /\ RowOf.depth = entry.depth
         /\ RowOf.parent = ParentOf(entry.from)
         /\ EdgesOf \in SUBSET Edge /\ \A e \in EdgesOf : e.resolved = FALSE
<1>1. /\ entry.url \in Url /\ entry.depth \in Nat /\ ids \in SUBSET Url /\ Page \in Visited
  BY EntryOfPage DEF Typed, SinkTypeOK
<1>2. ParentOf(entry.from) \in Url \cup {"none"}
  BY <1>1 DEF ParentOf
<1>3. /\ Page.final \in Url /\ Elements(Page.links) \subseteq Url
      /\ Page.nofollow \subseteq Url /\ Page.declares \subseteq Url
  BY <1>1 DEF Visited, Elements
<1>4. EdgesOf \in SUBSET Edge /\ \A e \in EdgesOf : e.resolved = FALSE
  <2> DEFINE redirect == IF Page.chain > 0 /\ Page.final # entry.url THEN {Page.final} ELSE {}
             targets == redirect \cup Elements(Page.links) \cup Page.nofollow \cup Page.declares
  <2>1. targets \subseteq Url
    BY <1>3
  <2>2. EdgesOf = { [from |-> entry.url, to |-> u, resolved |-> FALSE] : u \in targets }
    BY DEF EdgesOf
  <2> HIDE DEF targets
  <2> SUFFICES ASSUME NEW e \in EdgesOf PROVE e \in Edge /\ e.resolved = FALSE
    OBVIOUS
  <2>3. PICK u \in targets : e = [from |-> entry.url, to |-> u, resolved |-> FALSE]
    BY <2>2
  <2> QED BY <1>1, <2>1, <2>3 DEF Edge
<1> QED BY <1>1, <1>2, <1>4 DEF RowOf, Row

LEMMA TypedWrites ==
  ASSUME Typed, WritePage
  PROVE  Typed'
<1>1. step = "write" /\ step \in AtPage
  BY DEF WritePage, AtPage
<1>2. /\ RowOf \in Row /\ EdgesOf \in SUBSET Edge /\ entry.url \in Url
  BY <1>1, RowIs, EntryOfPage
<1>3. { <<entry.url, m>> : m \in Captures } \in SUBSET (Url \X Mode)
  BY <1>2, CapturesOf
<1>4. /\ rows' \in SUBSET Row /\ edges' \in SUBSET Edge /\ renders' \in SUBSET (Url \X Mode)
  <2>1. rows \in SUBSET Row /\ edges \in SUBSET Edge /\ renders \in SUBSET (Url \X Mode)
    BY DEF Typed, SinkTypeOK
  <2>2. CASE UNCHANGED <<rows, edges, renders>>
    BY <2>1, <2>2
  <2>3. CASE /\ rows' = rows \cup {RowOf} /\ edges' = edges \cup EdgesOf
             /\ renders' = renders \cup { <<entry.url, m>> : m \in Captures }
    BY <1>2, <1>3, <2>1, <2>3
  <2> QED BY <2>2, <2>3 DEF WritePage
<1>5. UNCHANGED <<crawlRow, blobs>>
  BY DEF WritePage
<1>6. CASE /\ ids' = ids \cup {entry.url} /\ Follow
           /\ UNCHANGED <<site, aborted, first, unpaced, sitemapVars, turn, pages, entry, asides, faults>>
  <2>1. Queue' \in Frontier /\ step' = "walk"
    BY <1>1, <1>6, FollowIs
  <2>2. SinkTypeOK'
    BY <1>2, <1>4, <1>5, <1>6 DEF Typed, SinkTypeOK
  <2>3. WalkTypeOK'
    BY <1>6, <2>1 DEF Typed, WalkTypeOK, Walking, sitemapVars
  <2>4. NotYetWalking' /\ OnePage'
    BY <2>1 DEF NotYetWalking, OnePage, AtSitemaps, AtPage
  <2> QED BY <2>2, <2>3, <2>4 DEF Typed
<1>7. CASE Breaks /\ Goes("fail") /\ UNCHANGED ids
  <2>1. SinkTypeOK'
    BY <1>4, <1>5, <1>7 DEF Typed, SinkTypeOK, Breaks
  <2>2. /\ UNCHANGED <<site, sitemapVars, queueVars, turn, pages, entry>>
        /\ step' \in Failing
        /\ UNCHANGED <<aborted, first, unpaced>>
    BY <1>7 DEF Goes, Failing
  <2>3. aborted' \in BOOLEAN /\ first' \in BOOLEAN /\ unpaced' \in Nat
    BY <2>2 DEF Typed, WalkTypeOK
  <2> QED BY <2>1, <2>2, <2>3, TypedOnward
<1> QED BY <1>6, <1>7 DEF WritePage

LEMMA EdgeResolves ==
  ASSUME NEW e \in Edge, NEW b \in BOOLEAN
  PROVE  LET x == [e EXCEPT !.resolved = b]
         IN x \in Edge /\ x.from = e.from /\ x.to = e.to /\ x.resolved = b
BY DEF Edge

LEMMA ResolvedIs ==
  ASSUME Typed
  PROVE  /\ Resolved \in SUBSET Edge
         /\ \A x \in Resolved : \E e \in edges :
              x.from = e.from /\ x.to = e.to /\ x.resolved = (e.resolved \/ e.to \in Written)
<1> SUFFICES ASSUME NEW x \in Resolved
             PROVE  /\ x \in Edge
                    /\ \E e \in edges : /\ x.from = e.from /\ x.to = e.to
                                        /\ x.resolved = (e.resolved \/ e.to \in Written)
  OBVIOUS
<1>1. PICK e \in edges : x = [e EXCEPT !.resolved = e.resolved \/ e.to \in Written]
  BY DEF Resolved
<1>2. e \in Edge
  BY DEF Typed, SinkTypeOK
<1>3. PICK b \in BOOLEAN : b = (e.resolved \/ e.to \in Written)
  OBVIOUS
<1>4. x = [e EXCEPT !.resolved = b]
  BY <1>1, <1>3
<1>5. x \in Edge /\ x.from = e.from /\ x.to = e.to /\ x.resolved = b
  BY <1>2, <1>4, EdgeResolves
<1> QED BY <1>3, <1>5

LEMMA TypedResolves ==
  ASSUME Typed, Resolve
  PROVE  Typed'
<1>1. /\ edges' \in SUBSET Edge /\ UNCHANGED <<crawlRow, rows, renders, ids, blobs>>
  BY ResolvedIs DEF Resolve, Typed, SinkTypeOK
<1>2. /\ UNCHANGED <<site, aborted, first, unpaced, sitemapVars, queueVars, turn, pages, entry>>
      /\ step' \in AtEnd \cup Failing /\ faults' \in Nat
  <2>1. step \in {"finish", "fail", "cancel"} /\ faults \in Nat
    BY DEF Resolve, Typed, SinkTypeOK
  <2>2. CASE /\ UNCHANGED faults
             /\ Goes(CASE step = "finish" -> "completing" [] step = "fail" -> "failing"
                       [] step = "cancel" -> "cancelling")
    <3>1. step = "finish" => step' = "completing"
      BY <2>2 DEF Goes
    <3>2. step = "fail" => step' = "failing"
      BY <2>2 DEF Goes
    <3>3. step = "cancel" => step' = "cancelling"
      BY <2>2 DEF Goes
    <3> QED BY <2>1, <2>2, <3>1, <3>2, <3>3 DEF Goes, AtEnd, Failing
  <2>3. CASE Breaks /\ Goes(IF step = "finish" THEN "fail" ELSE "threw")
    BY <2>1, <2>3 DEF Goes, Breaks, Failing
  <2> QED BY <2>2, <2>3 DEF Resolve
<1>3. SinkTypeOK'
  BY <1>1, <1>2 DEF Typed, SinkTypeOK
<1>4. aborted' \in BOOLEAN /\ first' \in BOOLEAN /\ unpaced' \in Nat
  BY <1>2 DEF Typed, WalkTypeOK
<1> QED BY <1>2, <1>3, <1>4, TypedOnward

LEMMA TypedCloses ==
  ASSUME Typed, CloseCrawl
  PROVE  Typed'
<1>1. step \in {"completing", "failing", "cancelling"} /\ faults \in Nat
  BY DEF CloseCrawl, Typed, SinkTypeOK
<1>2. LastStatus \in {"complete", "failed", "cancelled"}
  <2>1. step = "completing" => LastStatus = "complete"
    BY DEF LastStatus
  <2>2. step = "failing" => LastStatus = "failed"
    BY DEF LastStatus
  <2>3. step = "cancelling" => LastStatus = "cancelled"
    BY DEF LastStatus
  <2> QED BY <1>1, <2>1, <2>2, <2>3
<1>3. /\ UNCHANGED <<site, aborted, first, unpaced, sitemapVars, queueVars, turn, pages, entry>>
      /\ UNCHANGED <<rows, edges, renders, ids, blobs>>
      /\ step' \in AtEnd \cup Failing /\ faults' \in Nat
      /\ crawlRow' \in {"none", "running", "complete", "failed", "cancelled"}
  <2>1. CASE /\ crawlRow' = LastStatus /\ UNCHANGED faults
             /\ Goes(CASE step = "completing" -> "returned" [] step = "failing" -> "threw"
                       [] step = "cancelling" -> "cancelled")
    <3>1. step = "completing" => step' = "returned"
      BY <2>1 DEF Goes
    <3>2. step = "failing" => step' = "threw"
      BY <2>1 DEF Goes
    <3>3. step = "cancelling" => step' = "cancelled"
      BY <2>1 DEF Goes
    <3>4. step' \in AtEnd \cup Failing
      BY <1>1, <3>1, <3>2, <3>3 DEF AtEnd, Failing
    <3> QED BY <1>1, <1>2, <2>1, <3>4 DEF Goes, CloseCrawl
  <2>2. CASE /\ Breaks /\ Goes(IF step = "completing" THEN "fail" ELSE "threw")
             /\ crawlRow' \in {crawlRow, LastStatus}
    BY <1>1, <1>2, <2>2 DEF Goes, Breaks, Failing, CloseCrawl, Typed, SinkTypeOK
  <2> QED BY <2>1, <2>2 DEF CloseCrawl
<1>4. SinkTypeOK'
  BY <1>3 DEF Typed, SinkTypeOK
<1>5. aborted' \in BOOLEAN /\ first' \in BOOLEAN /\ unpaced' \in Nat
  BY <1>3 DEF Typed, WalkTypeOK
<1> QED BY <1>3, <1>4, <1>5, TypedOnward

(* A fetch that goes on, and the signal.                                   *)
Waits == Besides(Redirected) \/ Besides(Answered) \/ Besides(Abort)

(* The steps that only go to their next await.                             *)
Onward ==
  \/ OpenCrawl \/ Walks(WalkBegins) \/ Walks(RenderSkipped) \/ Walks(WalkEnds)
  \/ Walks(Returns) \/ Walks(Cancels) \/ Waits \/ Dies

LEMMA OnwardIs ==
  ASSUME Typed, Onward \/ Walks(Aside)
  PROVE  /\ UNCHANGED <<site, sitemapVars, queueVars, turn, pages, entry>>
         /\ UNCHANGED <<rows, edges, renders, ids, blobs>>
         /\ crawlRow' = crawlRow \/ (step = "open" /\ crawlRow' = "running")
         /\ aborted' \in BOOLEAN /\ first' \in BOOLEAN /\ unpaced' \in Nat /\ faults' \in Nat
         /\ \/ step' = step
            \/ step' \in {"robots"} /\ step = "open"
            \/ step' \in AtPage /\ step \in AtPage
            \/ step' = "walk" /\ step = "before"
            \/ step' = "after" /\ step = "walk"
            \/ step' = "finish" /\ step = "after"
            \/ /\ step' = "cancel"
               /\ step \in {"robots", "sitemaps", "before", "after", "walk", "render", "mobile"}
            \/ step' \in {"died", "threw"}
         /\ step = "returned" => step' = step
<1> USE DEF Walks, Besides
<1>0. aborted \in BOOLEAN /\ first \in BOOLEAN /\ unpaced \in Nat /\ faults \in Nat
  BY DEF Typed, WalkTypeOK, SinkTypeOK
<1>1. CASE OpenCrawl
  BY <1>0, <1>1 DEF OpenCrawl, Goes, Breaks
<1>2. CASE Walks(WalkBegins)
  BY <1>0, <1>2 DEF WalkBegins, sinkVars
<1>3. CASE Walks(RenderSkipped)
  BY <1>0, <1>3 DEF RenderSkipped, sinkVars, AtPage
<1>4. CASE Walks(WalkEnds)
  BY <1>0, <1>4 DEF WalkEnds, sinkVars
<1>5. CASE Walks(Returns)
  BY <1>0, <1>5 DEF Returns, sinkVars
<1>6. CASE Walks(Cancels)
  BY <1>0, <1>6 DEF Cancels, sinkVars
<1>7. CASE Waits
  BY <1>0, <1>7 DEF Waits, Redirected, Answered, Abort, sinkVars
<1>8. CASE Dies
  BY <1>0, <1>8 DEF Dies, Goes, Breaks, sinkVars, Ended
<1>9. CASE Walks(Aside)
  <2>1. /\ UNCHANGED <<site, step, aborted, sitemapVars, queueVars, turn, pages, entry, sinkVars, faults>>
        /\ first' = FALSE /\ unpaced' = unpaced + (IF first THEN 1 ELSE 0)
    BY <1>9 DEF Aside, Paces
  <2>2. unpaced' \in Nat
    <3>1. unpaced' = unpaced + (IF first THEN 1 ELSE 0)
      BY <2>1
    <3> QED BY <1>0, <3>1
  <2>3. first' \in BOOLEAN
    BY <2>1
  <2> QED BY <1>0, <2>1, <2>2, <2>3 DEF sinkVars
<1> QED BY <1>1, <1>2, <1>3, <1>4, <1>5, <1>6, <1>7, <1>8, <1>9 DEF Onward

LEMMA TypedStep ==
  ASSUME Typed, [CrawlNext]_crawlVars
  PROVE  Typed'
<1>1. CASE Onward \/ Walks(Aside)
  <2>1. SinkTypeOK'
    BY <1>1, OnwardIs DEF Typed, SinkTypeOK
  <2>2. /\ UNCHANGED <<site, sitemapVars, queueVars, turn, pages, entry>>
        /\ aborted' \in BOOLEAN /\ first' \in BOOLEAN /\ unpaced' \in Nat
        /\ \/ step' = step
           \/ step' \in {"robots"} /\ step = "open"
           \/ step' \in AtPage /\ step \in AtPage
           \/ step' = "walk" /\ step = "before"
           \/ step' \in AtEnd \cup Failing
    BY <1>1, OnwardIs DEF AtEnd, Failing
  <2> QED BY <2>1, <2>2, TypedOnward
<1>2. CASE UNCHANGED crawlVars
  BY <1>2 DEF crawlVars, walkVars, sinkVars, sitemapVars, queueVars, Typed, WalkTypeOK, SinkTypeOK,
              NotYetWalking, OnePage, Queue, Page
<1>3. CASE \E outcome \in {"rendered", "failed", "threw"} : Walks(Render(outcome))
  BY <1>3, TypedRenders
<1> QED BY <1>1, <1>2, <1>3, TypedLoads, TypedReads, TypedStarts, TypedVisits, TypedStores,
           TypedWrites, TypedResolves, TypedCloses DEF CrawlNext, CrawlStep, Onward, Waits

LEMMA TypedAlways == CrawlSpec => []Typed
<1>1. CrawlInit => Typed
  <2> SUFFICES ASSUME CrawlInit PROVE Typed
    OBVIOUS
  <2>1. Queue \in Frontier
    BY DEF CrawlInit, Queue, Frontier
  <2>2. WalkTypeOK
    <3>1. /\ lanes \in Seq(Seq(Document)) /\ laneTurn \in 0..Len(lanes)
          /\ served \in [DOMAIN lanes -> Nat] /\ declared \in Seq(Url) /\ pages \in Seq(Visited)
      BY DEF CrawlInit
    <3>2. /\ site \in Site /\ step \in AtSitemaps /\ aborted \in BOOLEAN /\ first \in BOOLEAN
          /\ unpaced \in Nat /\ seen \subseteq Document /\ turn \in {"walk", "listed"}
          /\ entry \in Entry \cup {NoEntry}
      BY DEF CrawlInit, AtSitemaps
    <3> QED BY <2>1, <3>1, <3>2 DEF WalkTypeOK
  <2>3. SinkTypeOK /\ NotYetWalking /\ OnePage
    BY DEF CrawlInit, SinkTypeOK, NotYetWalking, OnePage, AtPage, AtSitemaps
  <2> QED BY <2>2, <2>3 DEF Typed
<1> QED BY <1>1, TypedStep, PTL DEF CrawlSpec

-----------------------------------------------------------------------------
(* No fetch begins once the signal is set, and only the first of all       *)
(* without a pause.                                                        *)

(* A step that makes no request, and does not take the signal back.        *)
Quiet == UNCHANGED <<first, unpaced, hop, late>> /\ (aborted => aborted')

Asks ==
  \/ Walks(LoadRobots) \/ Walks(ReadSitemap) \/ Walks(Aside) \/ Walks(Visit)

LEMMA PaceMoves ==
  ASSUME Typed, [CrawlNext]_crawlVars
  PROVE  Quiet \/ Asks \/ Besides(Redirected) \/ Besides(Answered)
<1> USE DEF Quiet
<1>1. CASE OpenCrawl
  BY <1>1 DEF OpenCrawl, Goes
<1>2. CASE Walks(SitemapsDone)
  BY <1>2 DEF Walks, Besides, SitemapsDone
<1>3. CASE Walks(WalkBegins)
  BY <1>3 DEF Walks, Besides, WalkBegins
<1>4. CASE \E outcome \in {"rendered", "failed", "threw"} : Walks(Render(outcome))
  BY <1>4 DEF Walks, Besides, Render
<1>5. CASE Walks(RenderSkipped)
  BY <1>5 DEF Walks, Besides, RenderSkipped
<1>6. CASE StoreBodies
  BY <1>6 DEF StoreBodies, Goes
<1>7. CASE WritePage
  BY <1>7 DEF WritePage, Goes
<1>8. CASE Walks(WalkEnds) \/ Walks(Returns)
  BY <1>8 DEF Walks, Besides, WalkEnds, Returns
<1>9. CASE Walks(Cancels)
  BY <1>9 DEF Walks, Besides, Cancels
<1>10. CASE Resolve
  BY <1>10 DEF Resolve, Goes
<1>11. CASE CloseCrawl
  BY <1>11 DEF CloseCrawl, Goes
<1>12. CASE Besides(Abort)
  BY <1>12 DEF Besides, Abort
<1>13. CASE Dies
  BY <1>13 DEF Dies, Goes
<1>14. CASE UNCHANGED crawlVars
  BY <1>14 DEF crawlVars, walkVars
<1> QED BY <1>1, <1>2, <1>3, <1>4, <1>5, <1>6, <1>7, <1>8, <1>9, <1>10, <1>11, <1>12, <1>13, <1>14
        DEF CrawlNext, CrawlStep, Asks

LEMMA PacesOnce ==
  ASSUME Typed, Paced, Paces
  PROVE  (first' => unpaced' = 0) /\ unpaced' <= 1
<1>1. unpaced \in Nat /\ first \in BOOLEAN
  BY DEF Typed, WalkTypeOK
<1>2. CASE first
  <2>1. unpaced = 0 /\ first' = FALSE /\ unpaced' = unpaced + 1
    BY <1>2 DEF Paced, Paces
  <2> QED BY <2>1
<1>3. CASE ~first
  <2>1. unpaced <= 1 /\ first' = FALSE /\ unpaced' = unpaced + 0
    BY <1>3 DEF Paced, Paces
  <2> QED BY <1>1, <2>1
<1> QED BY <1>2, <1>3

(* A fetch begins with no other at work, the signal not set.               *)
LEMMA BeginsInTime ==
  ASSUME Paced, hop = 0, ~aborted, ~aborted', Requests
  PROVE  hop' = 1 /\ late' = 0 /\ MaxRedirects \in Nat
<1>1. late = 0
  BY DEF Paced
<1>2. hop' = hop + 1 /\ late' = late + 0
  BY DEF Requests
<1> QED BY <1>1, <1>2, CapsType

LEMMA AsksInTime ==
  ASSUME Typed, Paced, Asks
  PROVE  Paced'
<1>1. ~aborted /\ ~aborted' /\ hop = 0
  <2>1. CASE Walks(LoadRobots) \/ Walks(Aside)
    BY <2>1 DEF Walks, Besides, LoadRobots, Aside
  <2>2. CASE Walks(ReadSitemap)
    BY <2>2 DEF Walks, Besides, ReadSitemap
  <2>3. CASE Walks(Visit)
    BY <2>3 DEF Walks, Besides, Visit
  <2> QED BY <2>1, <2>2, <2>3 DEF Asks
<1>2. (first' => unpaced' = 0) /\ unpaced' <= 1
  <2>1. CASE Walks(LoadRobots) \/ Walks(ReadSitemap)
    <3>1. UNCHANGED <<first, unpaced>>
      BY <2>1 DEF Walks, Besides, LoadRobots, ReadSitemap
    <3> QED BY <3>1 DEF Paced
  <2>2. CASE Walks(Aside) \/ Walks(Visit)
    <3>1. Paces
      BY <2>2 DEF Walks, Besides, Aside, Visit
    <3> QED BY <3>1, PacesOnce
  <2> QED BY <2>1, <2>2 DEF Asks
<1>3. Requests \/ UNCHANGED <<hop, late>>
  BY DEF Asks, Walks, Besides, LoadRobots, ReadSitemap, Aside, Visit
<1>4. CASE Requests
  <2>1. hop' = 1 /\ late' = 0 /\ MaxRedirects \in Nat
    BY <1>1, <1>4, BeginsInTime
  <2> QED BY <1>1, <1>2, <2>1 DEF Paced
<1>5. CASE UNCHANGED <<hop, late>>
  BY <1>1, <1>2, <1>5 DEF Paced
<1> QED BY <1>3, <1>4, <1>5

LEMMA FurtherType ==
  ASSUME Typed
  PROVE  Further \in 0..MaxRedirects
<1>1. CASE step = "render"
  <2>1. site \in Site /\ entry.url \in Url
    BY <1>1, EntryOfPage DEF Typed, WalkTypeOK, AtPage
  <2> QED BY <1>1, <2>1, FetchType DEF Further
<1>2. CASE step # "render"
  BY <1>2, CapsType DEF Further
<1> QED BY <1>1, <1>2

LEMMA PacedStep ==
  ASSUME Typed, Paced, [CrawlNext]_crawlVars
  PROVE  Paced'
<1>1. CASE Quiet
  BY <1>1 DEF Quiet, Paced
<1>2. CASE Besides(Redirected)
  <2>1. /\ hop \in 1..Further /\ UNCHANGED <<aborted, first, unpaced>>
        /\ hop' = hop + 1 /\ late' = late + (IF aborted THEN 1 ELSE 0)
    BY <1>2 DEF Besides, Redirected, Requests
  <2>2. /\ MaxRedirects \in Nat /\ Further \in 0..MaxRedirects
        /\ hop \in 1..MaxRedirects /\ late \in Nat /\ late <= hop - 1
    <3>1. MaxRedirects \in Nat /\ Further \in 0..MaxRedirects
      BY FurtherType, CapsType
    <3>2. hop \in 1..MaxRedirects /\ late \in Nat /\ late <= hop - 1
      BY <2>1, <3>1 DEF Paced
    <3> QED BY <3>1, <3>2
  <2>3. CASE aborted
    <3>1. late' = late + 1
      BY <2>1, <2>3
    <3> QED BY <2>1, <2>2, <2>3, <3>1 DEF Paced
  <2>4. CASE ~aborted
    <3>1. late' = 0 /\ late = 0
      BY <2>1, <2>4 DEF Paced
    <3> QED BY <2>1, <2>2, <2>4, <3>1 DEF Paced
  <2> QED BY <2>3, <2>4
<1>3. CASE Besides(Answered)
  <2>1. hop' = 0 /\ UNCHANGED <<aborted, first, unpaced, late>>
    BY <1>3 DEF Besides, Answered
  <2> QED BY <2>1, CapsType DEF Paced
<1> QED BY <1>1, <1>2, <1>3, AsksInTime, PaceMoves

LEMMA PacedAlways == CrawlSpec => []Paced
<1>1. CrawlInit => Paced
  BY CapsType DEF CrawlInit, Paced
<1> QED BY <1>1, TypedAlways, PacedStep, PTL DEF CrawlSpec

(* crawl.ts's pauses and its looks at the signal, and fetch.ts's redirects *)
(* between which there is neither: of the walk's and the asides' fetches   *)
(* only the very first begins without a pause, and once the signal is set  *)
(* the site gets the rest of one chain of redirects, and no more.          *)
THEOREM SiteIsMinded == CrawlSpec => []MindsTheSite
<1>1. Paced => MindsTheSite
  BY DEF Paced, MindsTheSite
<1> QED BY <1>1, PacedAlways, PTL

-----------------------------------------------------------------------------
(* No sitemap is read two turns ahead of another.                          *)

(* Only the sitemaps' own steps are taken among them.                      *)
LEMMA SitemapsAreLeft ==
  ASSUME Typed,
         \/ Walks(SitemapsDone) \/ Walks(Visit) \/ StoreBodies \/ WritePage \/ Resolve \/ CloseCrawl
         \/ \E outcome \in {"rendered", "failed", "threw"} : Walks(Render(outcome))
  PROVE  step' \notin AtSitemaps
<1> USE DEF AtSitemaps
<1>1. CASE Walks(SitemapsDone)
  BY <1>1 DEF Walks, Besides, SitemapsDone
<1>2. CASE Walks(Visit)
  BY <1>2 DEF Walks, Besides, Visit
<1>3. CASE \E outcome \in {"rendered", "failed", "threw"} : Walks(Render(outcome))
  BY <1>3 DEF Walks, Besides, Render
<1>4. CASE StoreBodies
  BY <1>4 DEF StoreBodies, Goes
<1>5. CASE WritePage
  BY <1>5 DEF WritePage, Goes, Follow
<1>6. CASE Resolve
  <2>1. step' \in {"completing", "failing", "cancelling", "fail", "threw"}
    <3>1. CASE Goes(CASE step = "finish" -> "completing" [] step = "fail" -> "failing"
                      [] step = "cancel" -> "cancelling")
      BY <1>6, <3>1 DEF Resolve, Goes
    <3>2. CASE Goes(IF step = "finish" THEN "fail" ELSE "threw")
      BY <3>2 DEF Goes
    <3> QED BY <1>6, <3>1, <3>2 DEF Resolve
  <2> QED BY <2>1
<1>7. CASE CloseCrawl
  <2>1. step' \in {"returned", "threw", "cancelled", "fail", "threw"}
    <3>1. CASE Goes(CASE step = "completing" -> "returned" [] step = "failing" -> "threw"
                      [] step = "cancelling" -> "cancelled")
      BY <1>7, <3>1 DEF CloseCrawl, Goes
    <3>2. CASE Goes(IF step = "completing" THEN "fail" ELSE "threw")
      BY <3>2 DEF Goes
    <3> QED BY <1>7, <3>1, <3>2 DEF CloseCrawl
  <2> QED BY <2>1
<1> QED BY <1>1, <1>2, <1>3, <1>4, <1>5, <1>6, <1>7

LEMMA ReadsInTurn ==
  ASSUME Typed, ReadSitemap
  PROVE  \E j \in DOMAIN lanes : \E rest :
           /\ InTurn(j) /\ lanes' = [lanes EXCEPT ![j] = rest]
           /\ served' = [served EXCEPT ![j] = served[j] + 1] /\ laneTurn' = j
<1>1. lanes \in Seq(Seq(Document)) /\ laneTurn \in 0..Len(lanes)
  BY DEF Typed, WalkTypeOK
<1>2. \E k \in DOMAIN lanes : lanes[k] # <<>>
  BY DEF ReadSitemap, SitemapsLeft
<1> DEFINE i == NextLane
           next == Head(lanes[i])
           doc == site.docs[next]
           known == next \in seen
           children == IF known \/ ~doc.ok THEN <<>> ELSE doc.children
           rest == Tail(lanes[i]) \o children
<1>3. InTurn(i)
  BY <1>1, <1>2, NextLaneInTurn
<1>4. /\ lanes' = [lanes EXCEPT ![i] = rest] /\ laneTurn' = i
      /\ served' = [served EXCEPT ![i] = served[i] + 1]
  BY DEF ReadSitemap
<1> HIDE DEF i, rest
<1> QED BY <1>3, <1>4 DEF InTurn

LEMMA TurnsGoOn ==
  ASSUME Typed, ReadSitemap, NEW r \in Nat, TurnsTaken(r)
  PROVE  TurnsTaken(r)' \/ TurnsTaken(r + 1)'
<1>0. PICK j \in DOMAIN lanes : \E rest :
        /\ InTurn(j) /\ lanes' = [lanes EXCEPT ![j] = rest]
        /\ served' = [served EXCEPT ![j] = served[j] + 1] /\ laneTurn' = j
  BY ReadsInTurn
<1>1. PICK rest :
        /\ j \in DOMAIN lanes
        /\ InTurn(j) /\ lanes' = [lanes EXCEPT ![j] = rest]
        /\ served' = [served EXCEPT ![j] = served[j] + 1] /\ laneTurn' = j
  BY <1>0
<1>2. PICK N \in Nat : N = Len(lanes) /\ DOMAIN lanes = 1..N
  BY DEF Typed, WalkTypeOK
<1>3. PICK t \in 0..N : t = laneTurn
  BY <1>2 DEF Typed, WalkTypeOK
<1>4. /\ served \in [1..N -> Nat] /\ DOMAIN lanes' = 1..N /\ j \in 1..N
      /\ \A k \in 1..N : k # j => lanes'[k] = lanes[k] /\ served'[k] = served[k]
      /\ served'[j] = served[j] + 1
  BY <1>1, <1>2 DEF Typed, WalkTypeOK
<1>5. /\ \A k \in 1..N : k <= t => served[k] <= r + 1 /\ (lanes[k] # <<>> => served[k] = r + 1)
      /\ \A k \in 1..N : ~(k <= t) => served[k] <= r /\ (lanes[k] # <<>> => served[k] = r)
  BY <1>2, <1>3 DEF TurnsTaken
<1>6. CASE j > t /\ \A k \in t + 1..j - 1 : lanes[k] = <<>>
  <2>1. ASSUME NEW k \in 1..N
        PROVE  /\ k <= j => served'[k] <= r + 1 /\ (lanes'[k] # <<>> => served'[k] = r + 1)
               /\ ~(k <= j) => served'[k] <= r /\ (lanes'[k] # <<>> => served'[k] = r)
    <3>1. CASE k = j
      BY <1>1, <1>4, <1>5, <1>6, <3>1 DEF InTurn
    <3>2. CASE k < j
      <4>1. served[k] \in Nat /\ lanes'[k] = lanes[k] /\ served'[k] = served[k]
        BY <1>4, <3>2
      <4>2. CASE k <= t
        <5>1. served[k] <= r + 1 /\ (lanes[k] # <<>> => served[k] = r + 1)
          BY <1>5, <4>2
        <5>2. k <= t /\ k \in Nat /\ j \in Nat
          BY <1>4, <4>2
        <5> QED BY <1>4, <3>2, <4>1, <5>1, <5>2
      <4>3. CASE k > t
        <5>1. lanes[k] = <<>>
          BY <1>6, <3>2, <4>3
        <5> QED BY <1>5, <3>2, <4>1, <4>3, <5>1
      <4> QED BY <4>2, <4>3
    <3>3. CASE k > j
      BY <1>4, <1>5, <1>6, <3>3
    <3> QED BY <1>4, <3>1, <3>2, <3>3
  <2> QED BY <1>1, <1>4, <2>1 DEF TurnsTaken
<1>7. CASE j <= t /\ \A k \in (t + 1..N) \cup (1..j - 1) : lanes[k] = <<>>
  <2>1. ASSUME NEW k \in 1..N
        PROVE  /\ k <= j => served'[k] <= r + 2 /\ (lanes'[k] # <<>> => served'[k] = r + 2)
               /\ ~(k <= j) => served'[k] <= r + 1 /\ (lanes'[k] # <<>> => served'[k] = r + 1)
    <3>1. CASE k = j
      BY <1>1, <1>4, <1>5, <1>7, <3>1 DEF InTurn
    <3>2. CASE k < j
      <4>1. served[k] \in Nat /\ lanes'[k] = lanes[k] /\ served'[k] = served[k] /\ lanes[k] = <<>>
        BY <1>4, <1>7, <3>2
      <4> QED BY <1>5, <1>7, <3>2, <4>1
    <3>3. CASE k > j
      <4>1. served[k] \in Nat /\ lanes'[k] = lanes[k] /\ served'[k] = served[k]
        BY <1>4, <3>3
      <4>2. CASE k <= t
        <5>1. served[k] <= r + 1 /\ (lanes[k] # <<>> => served[k] = r + 1)
          BY <1>5, <4>2
        <5>2. k <= t /\ k \in Nat /\ j \in Nat
          BY <1>4, <4>2
        <5> QED BY <1>4, <3>3, <4>1, <5>1, <5>2
      <4>3. CASE k > t
        <5>1. lanes[k] = <<>>
          BY <1>7, <4>3
        <5> QED BY <1>5, <3>3, <4>1, <4>3, <5>1
      <4> QED BY <4>2, <4>3
    <3> QED BY <1>4, <3>1, <3>2, <3>3
  <2> QED BY <1>1, <1>4, <2>1 DEF TurnsTaken
<1> QED BY <1>1, <1>2, <1>3, <1>6, <1>7 DEF InTurn

LEMMA TurnsStep ==
  ASSUME Typed, TakesTurns, [CrawlNext]_crawlVars
  PROVE  TakesTurns'
<1>1. CASE Walks(LoadRobots)
  <2>1. /\ DOMAIN lanes' = DOMAIN site.roots /\ served' = [i \in DOMAIN site.roots |-> 0]
        /\ laneTurn' = laneTurn /\ step = "robots"
    BY <1>1 DEF Walks, Besides, LoadRobots
  <2>2. laneTurn' = 0
    BY <2>1 DEF Typed, WalkTypeOK, NotYetWalking
  <2>3. site.roots \in Seq(Document)
    BY SiteType DEF Typed, WalkTypeOK
  <2>4. DOMAIN site.roots = 1..Len(site.roots)
    BY <2>3
  <2>5. TurnsTaken(0)'
    BY <2>1, <2>2, <2>4 DEF TurnsTaken
  <2> QED BY <2>5 DEF TakesTurns
<1>2. CASE Walks(ReadSitemap)
  <2>1. step = "sitemaps"
    BY <1>2 DEF Walks, Besides, ReadSitemap
  <2>2. PICK r \in Nat : TurnsTaken(r)
    BY <2>1 DEF TakesTurns
  <2>3. TurnsTaken(r)' \/ TurnsTaken(r + 1)'
    BY <1>2, <2>2, TurnsGoOn DEF Walks, Besides
  <2>4. r \in Nat /\ r + 1 \in Nat
    OBVIOUS
  <2> QED BY <2>3, <2>4 DEF TakesTurns
<1>3. ASSUME UNCHANGED sitemapVars, step' = step \/ step' # "sitemaps"
      PROVE  TakesTurns'
  BY <1>3 DEF TakesTurns, TurnsTaken, sitemapVars
<1>4. CASE Onward \/ Walks(Aside)
  <2>1. UNCHANGED sitemapVars /\ (step' = step \/ step' # "sitemaps")
    BY <1>4, OnwardIs DEF AtPage
  <2> QED BY <1>3, <2>1
<1>5. CASE UNCHANGED crawlVars
  BY <1>3, <1>5 DEF crawlVars, walkVars
<1>6. CASE \/ Walks(SitemapsDone) \/ Walks(Visit) \/ StoreBodies \/ WritePage \/ Resolve \/ CloseCrawl
           \/ \E outcome \in {"rendered", "failed", "threw"} : Walks(Render(outcome))
  BY <1>6, SitemapsAreLeft DEF AtSitemaps, TakesTurns
<1> QED BY <1>1, <1>2, <1>4, <1>5, <1>6 DEF CrawlNext, CrawlStep, Onward, Waits

(* No sitemap's documents are read two turns ahead of another's that wait: *)
(* loadSitemaps' lanes, whatever documents there are and name each other.  *)
THEOREM SitemapsTakeTurns == CrawlSpec => []SitemapsShare
<1>1. CrawlInit => TakesTurns
  BY DEF CrawlInit, TakesTurns
<1>2. Typed /\ TakesTurns => SitemapsShare
  <2> SUFFICES ASSUME Typed, TakesTurns, step = "sitemaps",
                      NEW i \in DOMAIN lanes, NEW k \in DOMAIN lanes, lanes[k] # <<>>
               PROVE  served[i] <= served[k] + 1
    BY DEF SitemapsShare
  <2>1. PICK r \in Nat : TurnsTaken(r)
    BY DEF TakesTurns
  <2>2. served[i] \in Nat /\ served[k] \in Nat /\ i \in Nat /\ k \in Nat /\ laneTurn \in Nat
    BY DEF Typed, WalkTypeOK
  <2>3. served[i] <= r + 1
    BY <2>1, <2>2 DEF TurnsTaken
  <2>4. r <= served[k]
    BY <2>1, <2>2 DEF TurnsTaken
  <2> QED BY <2>2, <2>3, <2>4
<1> QED BY <1>1, <1>2, TypedAlways, TurnsStep, PTL DEF CrawlSpec


-----------------------------------------------------------------------------
(* The steps, by what they do to the walk's queues and to the pages.       *)

Stays ==
  /\ UNCHANGED <<site, queueVars, turn, pages, entry>>
  /\ step' \in Walking => /\ step \in Walking /\ UNCHANGED declared
                          /\ step' \in AtPage <=> step \in AtPage
  /\ step' \in AtPage => step \in AtPage

LEMMA WalkMoves ==
  ASSUME Typed, [CrawlNext]_crawlVars
  PROVE  \/ Stays
         \/ Walks(SitemapsDone)
         \/ Walks(Visit)
         \/ \E outcome \in {"rendered", "failed", "threw"} : Walks(Render(outcome))
         \/ WritePage /\ Follow
<1>1. CASE Onward \/ Walks(Aside)
  <2>1. /\ UNCHANGED <<site, sitemapVars, queueVars, turn, pages, entry>>
        /\ \/ step' = step
           \/ step' \in {"robots"} /\ step = "open"
           \/ step' \in AtPage /\ step \in AtPage
           \/ step' = "walk" /\ step = "before"
           \/ step' = "after" /\ step = "walk"
           \/ step' = "finish" /\ step = "after"
           \/ step' \in {"cancel", "died", "threw"}
    BY <1>1, OnwardIs
  <2> QED BY <2>1 DEF Stays, Walking, AtPage, AtEnd, sitemapVars
<1>2. CASE Walks(LoadRobots) \/ Walks(ReadSitemap)
  BY <1>2 DEF Walks, Besides, LoadRobots, ReadSitemap, Stays, Walking, AtPage, AtEnd
<1>3. CASE UNCHANGED crawlVars
  BY <1>3 DEF crawlVars, walkVars, Stays, sitemapVars
<1>4. CASE StoreBodies
  BY <1>4 DEF StoreBodies, Goes, Stays, Walking, AtPage, AtEnd, sitemapVars
<1>5. CASE WritePage /\ ~Follow
  BY <1>5 DEF WritePage, Goes, Stays, Walking, AtPage, AtEnd
<1>6. CASE Resolve
  <2>1. /\ UNCHANGED <<site, sitemapVars, queueVars, turn, pages, entry>>
        /\ \/ step' = "completing" /\ step = "finish"
           \/ step' \in {"failing", "cancelling", "fail", "threw"}
    <3>1. CASE Goes(CASE step = "finish" -> "completing" [] step = "fail" -> "failing"
                      [] step = "cancel" -> "cancelling")
      BY <1>6, <3>1 DEF Resolve, Goes
    <3>2. CASE Goes(IF step = "finish" THEN "fail" ELSE "threw")
      BY <3>2 DEF Goes
    <3> QED BY <1>6, <3>1, <3>2 DEF Resolve
  <2> QED BY <2>1 DEF Stays, Walking, AtPage, AtEnd, sitemapVars
<1>7. CASE CloseCrawl
  <2>1. /\ UNCHANGED <<site, sitemapVars, queueVars, turn, pages, entry>>
        /\ \/ step' = "returned" /\ step = "completing"
           \/ step' \in {"threw", "cancelled", "fail"}
    <3>1. CASE Goes(CASE step = "completing" -> "returned" [] step = "failing" -> "threw"
                      [] step = "cancelling" -> "cancelled")
      BY <1>7, <3>1 DEF CloseCrawl, Goes
    <3>2. CASE Goes(IF step = "completing" THEN "fail" ELSE "threw")
      BY <3>2 DEF Goes
    <3> QED BY <1>7, <3>1, <3>2 DEF CloseCrawl
  <2> QED BY <2>1 DEF Stays, Walking, AtPage, AtEnd, sitemapVars
<1> QED BY <1>1, <1>2, <1>3, <1>4, <1>5, <1>6, <1>7 DEF CrawlNext, CrawlStep, Onward, Waits

-----------------------------------------------------------------------------
(* Every URL is in one place, and no deeper than the depth budget.         *)

LEMMA FreshIsShallow ==
  ASSUME site \in Site, NEW q, NEW items, NEW n \in Nat, \A i \in 1..n : items[i] \in Entry
  PROVE  \A item \in FreshOf(q, items, n) :
           /\ item \in Entry /\ item.depth <= site.maxDepth /\ OnSite(item.url)
           /\ item.url \notin q.queued /\ \E i \in 1..n : item = items[i]
<1> SUFFICES ASSUME NEW item \in FreshOf(q, items, n)
             PROVE  /\ item \in Entry /\ item.depth <= site.maxDepth /\ OnSite(item.url)
                    /\ item.url \notin q.queued /\ \E i \in 1..n : item = items[i]
  OBVIOUS
<1>1. PICK i \in 1..n : /\ item = items[i] /\ OnSite(items[i].url) /\ items[i].url \notin q.queued
                        /\ ~TooDeep(items[i].depth)
  BY DEF FreshOf
<1>2. item.depth \in Nat /\ site.maxDepth \in Nat
  BY <1>1, SiteType DEF Entry
<1> QED BY <1>1, <1>2 DEF TooDeep

Shallows == Shallow /\ PagesShallow

LEMMA ShallowStep ==
  ASSUME Typed, Shallows, [CrawlNext]_crawlVars
  PROVE  Shallows'
<1>1. CASE Stays
  BY <1>1 DEF Stays, queueVars, Shallows, Shallow, PagesShallow, Elements
<1>2. CASE Walks(SitemapsDone)
  <2>1. /\ Started \in Frontier /\ Queues(Started)
        /\ Grown(Queue, Seeded, AtDepth(Seeds, 0, "none"), Len(Seeds), "walk")
        /\ Grown(Seeded, Started, AtDepth(declared, 0, "none"), Len(declared), "listed")
    BY <1>2, StartedIs DEF Walks, Besides, SitemapsDone, Started, Seeded
  <2>2. walk' = Started.walk /\ listed' = Started.listed /\ UNCHANGED <<site, pages>>
    BY <1>2, <2>1, QueuesAre DEF Walks, Besides, SitemapsDone
  <2>3. walk = <<>> /\ listed = <<>>
    BY <1>2 DEF Walks, Besides, SitemapsDone, Typed, NotYetWalking, AtSitemaps
  <2>4. /\ Elements(walk') \subseteq FreshOf(Queue, AtDepth(Seeds, 0, "none"), Len(Seeds))
        /\ Elements(listed') \subseteq FreshOf(Seeded, AtDepth(declared, 0, "none"), Len(declared))
    BY <2>1, <2>2, <2>3 DEF Grown, Queue, Elements
  <2>5. /\ Len(Seeds) \in Nat /\ \A i \in 1..Len(Seeds) : AtDepth(Seeds, 0, "none")[i] \in Entry
    <3>1. Seeds \in Seq(Url)
      BY SeedsAssumption
    <3>2. /\ AtDepth(Seeds, 0, "none") \in Seq(Entry)
          /\ Len(AtDepth(Seeds, 0, "none")) = Len(Seeds)
      BY <3>1, AtDepthIs
    <3> QED BY <3>1, <3>2
  <2>6. /\ Len(declared) \in Nat
        /\ \A i \in 1..Len(declared) : AtDepth(declared, 0, "none")[i] \in Entry
    <3>1. declared \in Seq(Url)
      BY DEF Typed, WalkTypeOK
    <3>2. /\ AtDepth(declared, 0, "none") \in Seq(Entry)
          /\ Len(AtDepth(declared, 0, "none")) = Len(declared)
      BY <3>1, AtDepthIs
    <3> QED BY <3>1, <3>2
  <2>7. site \in Site
    BY DEF Typed, WalkTypeOK
  <2>8. \A item \in FreshOf(Queue, AtDepth(Seeds, 0, "none"), Len(Seeds)) : item.depth <= site.maxDepth
    BY <2>5, <2>7, FreshIsShallow
  <2>9. \A item \in FreshOf(Seeded, AtDepth(declared, 0, "none"), Len(declared)) :
          item.depth <= site.maxDepth
    BY <2>6, <2>7, FreshIsShallow
  <2> QED BY <2>2, <2>4, <2>8, <2>9 DEF Shallows, Shallow, PagesShallow
<1>3. CASE Walks(Visit)
  <2>1. PICK item \in Entry, page \in Visited :
          /\ page.url = item.url /\ page.depth = item.depth
          /\ pages' = Append(pages, page) /\ TakesFrom(item)
    BY <1>3, VisitTakes DEF Walks, Besides
  <2>2. /\ pages \in Seq(Visited) /\ walk \in Seq(Entry) /\ listed \in Seq(Entry) /\ site' = site
    BY <1>3, QueueParts DEF Typed, WalkTypeOK, Walks, Besides, Visit
  <2>3. /\ walk # <<>> => Elements(walk) = {Head(walk)} \cup Elements(Tail(walk))
        /\ listed # <<>> => Elements(listed) = {Head(listed)} \cup Elements(Tail(listed))
    BY <2>2, TailElements
  <2>4. /\ item.depth <= site.maxDepth
        /\ Elements(walk') \cup Elements(listed') \subseteq Elements(walk) \cup Elements(listed)
    BY <2>1, <2>3 DEF TakesFrom, Shallows, Shallow
  <2>5. Shallow'
    BY <2>2, <2>4 DEF Shallows, Shallow
  <2>6. PagesShallow'
    <3>1. /\ DOMAIN pages' = 1..Len(pages) + 1 /\ DOMAIN pages = 1..Len(pages) /\ Len(pages) \in Nat
          /\ \A i \in 1..Len(pages) : pages'[i] = pages[i]
          /\ pages'[Len(pages) + 1] = page
      BY <2>1, <2>2
    <3>2. ASSUME NEW i \in 1..Len(pages) + 1 PROVE pages'[i].depth <= site'.maxDepth
      <4>1. CASE i = Len(pages) + 1
        BY <2>1, <2>2, <2>4, <3>1, <4>1
      <4>2. CASE i \in 1..Len(pages)
        BY <2>2, <3>1, <4>2 DEF Shallows, PagesShallow
      <4> QED BY <3>1, <4>1, <4>2
    <3> QED BY <3>1, <3>2 DEF PagesShallow
  <2> QED BY <2>5, <2>6 DEF Shallows
<1>4. CASE \E outcome \in {"rendered", "failed", "threw"} : Walks(Render(outcome))
  <2>1. PICK outcome \in {"rendered", "failed", "threw"} : Walks(Render(outcome))
    BY <1>4
  <2>2. /\ pages' \in Seq(Visited) /\ Len(pages') = Len(pages)
        /\ \A i \in 1..Len(pages) : pages'[i].depth = pages[i].depth
    <3>1. /\ pages' \in Seq(Visited) /\ Len(pages') = Len(pages)
          /\ \A i \in 1..Len(pages) : \A f \in {"url", "depth", "from", "final", "chain", "links"} :
               pages'[i][f] = pages[i][f]
      BY <2>1, RenderMarks DEF Walks, Besides
    <3> QED BY <3>1
  <2>3. UNCHANGED <<site, walk, listed>>
    BY <2>1 DEF Walks, Besides, Render, queueVars
  <2>4. DOMAIN pages' = 1..Len(pages) /\ DOMAIN pages = 1..Len(pages)
    BY <2>2 DEF Typed, WalkTypeOK
  <2> QED BY <2>2, <2>3, <2>4 DEF Shallows, Shallow, PagesShallow, Elements
<1>5. CASE WritePage /\ Follow
  <2>1. step = "write" /\ UNCHANGED <<site, pages>>
    BY <1>5 DEF WritePage, Goes
  <2>2. Grown(Queue, Queue', Leads, Len(Leads), "walk")
    BY <1>5, <2>1, FollowIs
  <2>3. listed' = listed /\ Elements(walk') \subseteq Elements(walk) \cup FreshOf(Queue, Leads, Len(Leads))
    BY <2>2 DEF Grown, Queue
  <2>4. Len(Leads) \in Nat /\ \A i \in 1..Len(Leads) : Leads[i] \in Entry
    <3>1. Leads \in Seq(Entry)
      BY <2>1, LeadsAre
    <3> QED BY <3>1
  <2>5. \A item \in FreshOf(Queue, Leads, Len(Leads)) : item.depth <= site.maxDepth
    BY <2>4, FreshIsShallow DEF Typed, WalkTypeOK
  <2> QED BY <2>1, <2>3, <2>5 DEF Shallows, Shallow, PagesShallow
<1> QED BY <1>1, <1>2, <1>3, <1>4, <1>5, WalkMoves

(* A page taken leaves its lane for the pages.                             *)
LEMMA VisitPlaces ==
  ASSUME Typed, Visit
  PROVE  \E item \in Entry, page \in Visited :
           /\ page.url = item.url /\ page.depth = item.depth /\ page.from = item.from
           /\ pages' = Append(pages, page) /\ entry' = item
           /\ TakesFrom(item)
           /\ Urls(walk) \cup Urls(listed) = {item.url} \cup Urls(walk') \cup Urls(listed')
           /\ Urls(walk') \subseteq Urls(walk) /\ Urls(listed') \subseteq Urls(listed)
           /\ Once(walk) /\ Once(listed) /\ Urls(walk) \cap Urls(listed) = {}
                => /\ Once(walk') /\ Once(listed')
                   /\ item.url \notin Urls(walk') \cup Urls(listed')
<1>1. PICK item \in Entry, page \in Visited :
        /\ page.url = item.url /\ page.depth = item.depth /\ page.from = item.from
        /\ pages' = Append(pages, page) /\ entry' = item /\ TakesFrom(item)
  BY VisitTakes
<1>2. walk \in Seq(Entry) /\ listed \in Seq(Entry)
  BY QueueParts DEF Typed, WalkTypeOK
<1>3. CASE walk # <<>> /\ item = Head(walk) /\ walk' = Tail(walk) /\ listed' = listed
  <2>1. /\ Urls(walk) = {item.url} \cup Urls(walk')
        /\ Once(walk) => Once(walk') /\ item.url \notin Urls(walk')
    BY <1>2, <1>3, TailUrls
  <2> QED BY <1>1, <1>3, <2>1
<1>4. CASE listed # <<>> /\ item = Head(listed) /\ listed' = Tail(listed) /\ walk' = walk
  <2>1. /\ Urls(listed) = {item.url} \cup Urls(listed')
        /\ Once(listed) => Once(listed') /\ item.url \notin Urls(listed')
    BY <1>2, <1>4, TailUrls
  <2> QED BY <1>1, <1>4, <2>1
<1> QED BY <1>1, <1>3, <1>4 DEF TakesFrom

LEMMA PlacesStep ==
  ASSUME Typed, InOnePlace, [CrawlNext]_crawlVars
  PROVE  InOnePlace'
<1>1. CASE Stays
  <2>1. Queue' = Queue /\ pages' = pages /\ Fetched' = Fetched
    BY <1>1 DEF Stays, queueVars, Queue, Fetched
  <2> QED BY <2>1 DEF InOnePlace, Once
<1>2. CASE Walks(SitemapsDone)
  <2>1. Started \in Frontier /\ Queues(Started) /\ Placed(Started, Fetched)
    BY <1>2, StartedIs DEF Walks, Besides, SitemapsDone, Started, Seeded, InOnePlace
  <2>2. Queue' = Started /\ pages' = pages
    BY <1>2, <2>1, QueuesAre DEF Walks, Besides, SitemapsDone
  <2> QED BY <2>1, <2>2 DEF InOnePlace, Fetched, Once
<1>3. CASE Walks(Visit)
  <2>1. PICK item \in Entry, page \in Visited :
          /\ page.url = item.url /\ pages' = Append(pages, page)
          /\ Urls(walk) \cup Urls(listed) = {item.url} \cup Urls(walk') \cup Urls(listed')
          /\ Urls(walk') \subseteq Urls(walk) /\ Urls(listed') \subseteq Urls(listed)
          /\ Once(walk) /\ Once(listed) /\ Urls(walk) \cap Urls(listed) = {}
               => /\ Once(walk') /\ Once(listed')
                  /\ item.url \notin Urls(walk') \cup Urls(listed')
    BY <1>3, VisitPlaces DEF Walks, Besides
  <2>2. pages \in Seq(Visited) /\ UNCHANGED <<queued, blocked, beyond>>
    BY <1>3 DEF Typed, WalkTypeOK, Walks, Besides, Visit
  <2>3. /\ Once(walk) /\ Once(listed) /\ Urls(walk) \cap Urls(listed) = {} /\ Once(pages)
        /\ (Urls(walk) \cup Urls(listed)) \cap (Elements(blocked) \cup Fetched) = {}
        /\ Elements(blocked) \cap Fetched = {}
        /\ queued = Urls(walk) \cup Urls(listed) \cup Elements(blocked) \cup Fetched
    BY DEF InOnePlace, Placed, Queue
  <2>4. Fetched = Urls(pages) /\ Fetched' = Urls(pages')
    BY DEF Fetched, Urls
  <2>5. /\ Urls(pages') = Urls(pages) \cup {item.url}
        /\ Once(pages) /\ item.url \notin Urls(pages) => Once(pages')
    BY <2>1, <2>2, AppendUrls
  <2>6. item.url \notin Fetched /\ item.url \notin Elements(blocked)
    BY <2>1, <2>3
  <2>7. Once(pages') /\ Fetched' = Fetched \cup {item.url}
    BY <2>3, <2>4, <2>5, <2>6
  <2>8. /\ Once(walk') /\ Once(listed') /\ item.url \notin Urls(walk') \cup Urls(listed')
        /\ Urls(walk') \cap Urls(listed') = {}
    BY <2>1, <2>3
  <2>9. Elements(blocked') = Elements(blocked) /\ queued' = queued
    BY <2>2
  <2>10. Placed(Queue', Fetched')
    BY <2>1, <2>3, <2>6, <2>7, <2>8, <2>9 DEF Placed, Queue
  <2> QED BY <2>7, <2>10 DEF InOnePlace
<1>4. CASE \E outcome \in {"rendered", "failed", "threw"} : Walks(Render(outcome))
  <2>1. PICK outcome \in {"rendered", "failed", "threw"} : Walks(Render(outcome))
    BY <1>4
  <2>2. /\ pages' \in Seq(Visited) /\ Len(pages') = Len(pages)
        /\ \A i \in 1..Len(pages) : pages'[i].url = pages[i].url
    <3>1. /\ pages' \in Seq(Visited) /\ Len(pages') = Len(pages)
          /\ \A i \in 1..Len(pages) : \A f \in {"url", "depth", "from", "final", "chain", "links"} :
               pages'[i][f] = pages[i][f]
      BY <2>1, RenderMarks DEF Walks, Besides
    <3> QED BY <3>1
  <2>3. DOMAIN pages' = DOMAIN pages /\ \A i \in DOMAIN pages : pages'[i].url = pages[i].url
    BY <2>2 DEF Typed, WalkTypeOK
  <2>4. UNCHANGED queueVars
    BY <2>1 DEF Walks, Besides, Render
  <2>5. Queue' = Queue /\ Fetched' = Fetched
    BY <2>3, <2>4 DEF Queue, queueVars, Fetched
  <2> QED BY <2>3, <2>5 DEF InOnePlace, Once
<1>5. CASE WritePage /\ Follow
  <2>1. step = "write" /\ UNCHANGED pages
    BY <1>5 DEF WritePage, Goes
  <2>2. Placed(Queue', Fetched)
    BY <1>5, <2>1, FollowIs DEF InOnePlace
  <2> QED BY <2>1, <2>2 DEF InOnePlace, Fetched, Once
<1> QED BY <1>1, <1>2, <1>3, <1>4, <1>5, WalkMoves

LEMMA PlacesAlways == CrawlSpec => [](InOnePlace /\ Shallows)
<1>1. CrawlInit => InOnePlace /\ Shallows
  BY DEF CrawlInit, InOnePlace, Placed, Once, Fetched, Queue, Urls, Elements, Shallows, Shallow,
         PagesShallow
<1> QED BY <1>1, TypedAlways, PlacesStep, ShallowStep, PTL DEF CrawlSpec

-----------------------------------------------------------------------------
(* The steps, by what they do to the database.                             *)

Stores ==
  /\ step = "page" /\ step' \in {"write", "fail"}
  /\ UNCHANGED <<crawlRow, rows, edges, renders, ids>>
  /\ blobs \subseteq blobs'
  /\ step' = "write" => { <<entry.url, m>> : m \in Captures } \subseteq blobs'

Resolves ==
  /\ UNCHANGED <<crawlRow, rows, renders, ids, blobs>>
  /\ edges' \in {edges, Resolved}
  /\ \/ step = "finish" /\ step' = "completing" /\ edges' = Resolved
     \/ step = "finish" /\ step' = "fail"
     \/ step \in {"fail", "cancel"} /\ step' \in {"failing", "cancelling", "threw"}
  /\ step' = "cancelling" => step = "cancel"

Closes ==
  /\ UNCHANGED <<rows, edges, renders, ids, blobs>>
  /\ \/ step = "completing" /\ step' \in {"returned", "fail"} /\ crawlRow' \in {crawlRow, "complete"}
     \/ step = "failing" /\ step' = "threw" /\ crawlRow' \in {crawlRow, "failed"}
     \/ /\ step = "cancelling" /\ step' \in {"cancelled", "threw"}
        /\ crawlRow' \in {crawlRow, "cancelled"}

Idle ==
  /\ UNCHANGED <<rows, edges, renders, ids, blobs>>
  /\ crawlRow' = crawlRow \/ (step = "open" /\ crawlRow' = "running")
  /\ step' \in {"write", "completing", "returned"} => step' = step
  /\ step \in {"returned", "fail", "failing", "threw", "died"} => step' \in {step, "died"}

LEMMA SinkMoves ==
  ASSUME Typed, [CrawlNext]_crawlVars
  PROVE  \/ Stays /\ Idle
         \/ Walks(SitemapsDone) /\ Idle
         \/ Walks(Visit) /\ Idle
         \/ (\E outcome \in {"rendered", "failed", "threw"} : Walks(Render(outcome))) /\ Idle
         \/ Stays /\ Stores
         \/ WritePage
         \/ Stays /\ Resolves
         \/ Stays /\ Closes
<1>1. Idle \/ Stores \/ WritePage \/ Resolves \/ Closes
  <2>1. CASE Onward \/ Walks(Aside)
    <3>1. /\ UNCHANGED <<rows, edges, renders, ids, blobs>>
          /\ crawlRow' = crawlRow \/ (step = "open" /\ crawlRow' = "running")
      BY <2>1, OnwardIs
    <3>2. \/ step' = step
          \/ step' \in {"robots"} /\ step = "open"
          \/ step' \in {"render", "mobile", "page"} /\ step \in AtPage
          \/ step' = "walk" /\ step = "before"
          \/ step' = "after" /\ step = "walk"
          \/ step' = "finish" /\ step = "after"
          \/ /\ step' = "cancel"
             /\ step \in {"robots", "sitemaps", "before", "after", "walk", "render", "mobile"}
          \/ step' = "died" /\ step # "returned"
          \/ step' = "threw" /\ step = "open"
      <4> USE DEF Walks, Besides
      <4>1. CASE OpenCrawl
        BY <4>1 DEF OpenCrawl, Goes
      <4>2. CASE Walks(WalkBegins) \/ Walks(WalkEnds) \/ Walks(Returns) \/ Waits
        BY <4>2 DEF WalkBegins, WalkEnds, Returns, Waits, Redirected, Answered, Abort
      <4>3. CASE Walks(RenderSkipped)
        BY <4>3 DEF RenderSkipped, AtPage
      <4>4. CASE Walks(Cancels)
        BY <4>4 DEF Cancels
      <4>5. CASE Dies
        BY <4>5 DEF Dies, Goes, Ended
      <4>6. CASE Walks(Aside)
        BY <4>6 DEF Aside
      <4> QED BY <2>1, <4>1, <4>2, <4>3, <4>4, <4>5, <4>6 DEF Onward
    <3>3. /\ step' \in {"write", "completing", "returned"} => step' = step
          /\ step \in {"returned", "fail", "failing", "threw", "died"} => step' \in {step, "died"}
      BY <3>2 DEF AtPage
    <3> QED BY <3>1, <3>3 DEF Idle
  <2>2. CASE Walks(LoadRobots) \/ Walks(ReadSitemap) \/ Walks(SitemapsDone) \/ Walks(Visit)
    <3>1. UNCHANGED sinkVars /\ step \in {"robots", "sitemaps", "walk"}
      BY <2>2 DEF Walks, Besides, LoadRobots, ReadSitemap, SitemapsDone, Visit
    <3>2. step' \in {"sitemaps", "before", "render"}
      BY <2>2 DEF Walks, Besides, LoadRobots, ReadSitemap, SitemapsDone, Visit
    <3> QED BY <3>1, <3>2 DEF Idle, sinkVars
  <2>3. CASE \E outcome \in {"rendered", "failed", "threw"} : Walks(Render(outcome))
    <3>1. UNCHANGED sinkVars /\ step \in {"render", "mobile"} /\ step' \in {"mobile", "page", "fail"}
      BY <2>3 DEF Walks, Besides, Render
    <3> QED BY <3>1 DEF Idle, sinkVars
  <2>4. CASE UNCHANGED crawlVars
    BY <2>4 DEF crawlVars, walkVars, sinkVars, Idle
  <2>5. CASE StoreBodies
    <3>1. CASE blobs' = blobs \cup { <<entry.url, m>> : m \in Captures } /\ Goes("write")
      BY <2>5, <3>1 DEF StoreBodies, Goes, Stores
    <3>2. CASE /\ Goes("fail")
               /\ \E some \in SUBSET { <<entry.url, m>> : m \in Captures } : blobs' = blobs \cup some
      BY <2>5, <3>2 DEF StoreBodies, Goes, Stores
    <3> QED BY <2>5, <3>1, <3>2 DEF StoreBodies
  <2>6. CASE Resolve
    <3>1. CASE /\ edges' = Resolved
               /\ Goes(CASE step = "finish" -> "completing" [] step = "fail" -> "failing"
                         [] step = "cancel" -> "cancelling")
      <4>1. /\ step = "finish" => step' = "completing"
            /\ step = "fail" => step' = "failing"
            /\ step = "cancel" => step' = "cancelling"
        BY <3>1 DEF Goes
      <4> QED BY <2>6, <3>1, <4>1 DEF Resolve, Resolves
    <3>2. CASE Goes(IF step = "finish" THEN "fail" ELSE "threw")
      BY <2>6, <3>2 DEF Resolve, Goes, Resolves
    <3> QED BY <2>6, <3>1, <3>2 DEF Resolve
  <2>7. CASE CloseCrawl
    <3>1. /\ step = "completing" => LastStatus = "complete"
          /\ step = "failing" => LastStatus = "failed"
          /\ step = "cancelling" => LastStatus = "cancelled"
      BY DEF LastStatus
    <3>2. UNCHANGED <<rows, edges, renders, ids, blobs>> /\ step \in {"completing", "failing", "cancelling"}
      BY <2>7 DEF CloseCrawl
    <3>3. CASE /\ crawlRow' = LastStatus
               /\ Goes(CASE step = "completing" -> "returned" [] step = "failing" -> "threw"
                         [] step = "cancelling" -> "cancelled")
      <4>1. /\ step = "completing" => step' = "returned"
            /\ step = "failing" => step' = "threw"
            /\ step = "cancelling" => step' = "cancelled"
        BY <3>3 DEF Goes
      <4> QED BY <3>1, <3>2, <3>3, <4>1 DEF Closes
    <3>4. CASE /\ Goes(IF step = "completing" THEN "fail" ELSE "threw")
               /\ crawlRow' \in {crawlRow, LastStatus}
      BY <3>1, <3>2, <3>4 DEF Goes, Closes
    <3> QED BY <2>7, <3>3, <3>4 DEF CloseCrawl
  <2> QED BY <2>1, <2>2, <2>3, <2>4, <2>5, <2>6, <2>7 DEF CrawlNext, CrawlStep, Onward, Waits
<1>2. /\ Walks(SitemapsDone) => step = "sitemaps"
      /\ Walks(Visit) => step = "walk"
      /\ (\E outcome \in {"rendered", "failed", "threw"} : Walks(Render(outcome)))
           => step \in {"render", "mobile"}
      /\ WritePage => step = "write"
  BY DEF Walks, Besides, SitemapsDone, Visit, Render, WritePage
<1>3. Stores \/ Resolves \/ Closes
        => step \in {"page", "finish", "fail", "cancel", "completing", "failing", "cancelling"}
  BY DEF Stores, Resolves, Closes
<1> QED BY <1>1, <1>2, <1>3, WalkMoves, Zenon


LEMMA WriteIs ==
  ASSUME Typed, WritePage
  PROVE  /\ step = "write" /\ step \in AtPage
         /\ UNCHANGED <<site, pages, entry, crawlRow, blobs, declared, turn>>
         /\ \/ UNCHANGED <<rows, edges, renders>>
            \/ /\ rows' = rows \cup {RowOf} /\ edges' = edges \cup EdgesOf
               /\ renders' = renders \cup { <<entry.url, m>> : m \in Captures }
         /\ \/ RowOf \in rows' /\ ids' = ids \cup {entry.url} /\ Follow /\ step' = "walk"
            \/ ids' = ids /\ step' = "fail" /\ UNCHANGED queueVars
BY DEF WritePage, Goes, Follow, AtPage, sitemapVars

-----------------------------------------------------------------------------
(* The rows follow the pages, and the bodies come first.                   *)

LEMMA VisitedOnce ==
  ASSUME Typed, Walks(Visit)
  PROVE  \E page \in Visited :
           /\ pages' \in Seq(Visited) /\ Len(pages') = Len(pages) + 1 /\ Len(pages) \in Nat
           /\ DOMAIN pages = 1..Len(pages) /\ DOMAIN pages' = 1..Len(pages) + 1
           /\ pages'[Len(pages) + 1] = page /\ \A i \in 1..Len(pages) : pages'[i] = pages[i]
           /\ Fetched' = Fetched \cup {page.url}
<1>1. PICK page \in Visited : pages' = Append(pages, page)
  BY VisitTakes DEF Walks, Besides
<1>2. pages \in Seq(Visited)
  BY DEF Typed, WalkTypeOK
<1>3. /\ pages' \in Seq(Visited) /\ Len(pages') = Len(pages) + 1 /\ Len(pages) \in Nat
      /\ DOMAIN pages = 1..Len(pages) /\ DOMAIN pages' = 1..Len(pages) + 1
      /\ pages'[Len(pages) + 1] = page /\ \A i \in 1..Len(pages) : pages'[i] = pages[i]
  BY <1>1, <1>2
<1>4. Fetched' = Fetched \cup {page.url}
  <2>1. Urls(Append(pages, page)) = Urls(pages) \cup {page.url}
    BY <1>2, AppendUrls
  <2> QED BY <1>1, <2>1 DEF Fetched, Urls
<1> QED BY <1>3, <1>4

LEMMA RenderKeeps ==
  ASSUME Typed, \E outcome \in {"rendered", "failed", "threw"} : Walks(Render(outcome))
  PROVE  /\ pages' \in Seq(Visited) /\ Len(pages') = Len(pages) /\ DOMAIN pages' = DOMAIN pages
         /\ DOMAIN pages = 1..Len(pages) /\ Len(pages) \in Nat
         /\ \A i \in DOMAIN pages :
              /\ pages'[i].url = pages[i].url /\ pages'[i].depth = pages[i].depth
              /\ pages'[i].from = pages[i].from /\ pages'[i].final = pages[i].final
              /\ pages'[i].chain = pages[i].chain /\ pages'[i].links = pages[i].links
         /\ Fetched' = Fetched
         /\ step \in {"render", "mobile"} /\ step' \in {"mobile", "page", "fail"}
         /\ UNCHANGED <<site, queueVars, turn, entry, declared, sinkVars>>
<1>1. PICK outcome \in {"rendered", "failed", "threw"} : Walks(Render(outcome))
  OBVIOUS
<1>2. /\ pages' \in Seq(Visited) /\ Len(pages') = Len(pages)
      /\ \A i \in 1..Len(pages) : \A f \in {"url", "depth", "from", "final", "chain", "links"} :
           pages'[i][f] = pages[i][f]
  BY <1>1, RenderMarks DEF Walks, Besides
<1>3. DOMAIN pages' = DOMAIN pages /\ DOMAIN pages = 1..Len(pages) /\ Len(pages) \in Nat
  BY <1>2 DEF Typed, WalkTypeOK
<1>4. \A i \in DOMAIN pages :
        /\ pages'[i].url = pages[i].url /\ pages'[i].depth = pages[i].depth
        /\ pages'[i].from = pages[i].from /\ pages'[i].final = pages[i].final
        /\ pages'[i].chain = pages[i].chain /\ pages'[i].links = pages[i].links
  BY <1>2, <1>3
<1>5. Fetched' = Fetched
  BY <1>3, <1>4 DEF Fetched
<1>6. /\ step \in {"render", "mobile"} /\ step' \in {"mobile", "page", "fail"}
      /\ UNCHANGED <<site, queueVars, turn, entry, declared, sinkVars>>
  BY <1>1 DEF Walks, Besides, Render, sitemapVars
<1> QED BY <1>2, <1>3, <1>4, <1>5, <1>6

LEMMA WrittenStep ==
  ASSUME Typed, WrittenInOrder, [CrawlNext]_crawlVars
  PROVE  WrittenInOrder'
<1> USE DEF WrittenInOrder
<1>1. CASE Stays /\ (Idle \/ Stores \/ Resolves \/ Closes)
  <2>1. /\ UNCHANGED <<pages, entry, rows, renders>> /\ blobs \subseteq blobs'
        /\ step' \in Walking \ AtPage => step \in Walking \ AtPage
    BY <1>1 DEF Stays, Idle, Stores, Resolves, Closes, AtPage, Walking
  <2>2. Written' = Written /\ Fetched' = Fetched /\ Captures' = Captures
    BY <2>1 DEF Written, Fetched, Captures, Page
  <2>3. step' = "write" => { <<entry.url, m>> : m \in Captures } \subseteq blobs'
    BY <1>1, <2>1 DEF Idle, Stores, Resolves, Closes
  <2> QED BY <2>1, <2>2, <2>3
<1>2. CASE Walks(SitemapsDone)
  <2>1. pages = <<>> /\ pages' = pages /\ step' = "before" /\ UNCHANGED sinkVars
    BY <1>2 DEF Walks, Besides, SitemapsDone, Typed, NotYetWalking, AtSitemaps
  <2>2. Fetched = {} /\ Fetched' = {} /\ Written' = Written
    BY <2>1 DEF Fetched, Written, sinkVars
  <2> QED BY <2>1, <2>2 DEF sinkVars
<1>3. CASE Walks(Visit)
  <2>1. PICK page \in Visited :
           /\ Len(pages') = Len(pages) + 1 /\ Len(pages) \in Nat
           /\ DOMAIN pages = 1..Len(pages)
           /\ pages'[Len(pages) + 1] = page /\ \A i \in 1..Len(pages) : pages'[i] = pages[i]
           /\ Fetched' = Fetched \cup {page.url}
    BY <1>3, VisitedOnce
  <2>2. step = "walk" /\ step' = "render" /\ UNCHANGED sinkVars
    BY <1>3 DEF Walks, Besides, Visit
  <2>3. Fetched \subseteq Written /\ Written' = Written
    BY <2>2 DEF Walking, AtPage, Written, sinkVars
  <2>4. \A i \in 1..Len(pages) : pages'[i].url \in Written
    BY <2>1, <2>3 DEF Fetched
  <2> QED BY <2>1, <2>2, <2>3, <2>4 DEF AtPage, sinkVars
<1>4. CASE \E outcome \in {"rendered", "failed", "threw"} : Walks(Render(outcome))
  <2>1. /\ Len(pages') = Len(pages) /\ DOMAIN pages = 1..Len(pages) /\ Len(pages) \in Nat
        /\ \A i \in DOMAIN pages : pages'[i].url = pages[i].url
        /\ Fetched' = Fetched /\ step' \in {"mobile", "page", "fail"} /\ UNCHANGED sinkVars
    BY <1>4, RenderKeeps
  <2>2. Written' = Written /\ step' \notin Walking \ AtPage
    BY <2>1 DEF Written, sinkVars, Walking, AtPage, AtEnd
  <2>3. \A i \in 1..Len(pages') - 1 : pages'[i].url \in Written'
    BY <2>1, <2>2
  <2> QED BY <2>1, <2>2, <2>3 DEF sinkVars
<1>5. CASE WritePage
  <2>1. /\ step = "write" /\ step \in AtPage /\ UNCHANGED <<pages, entry, blobs>>
        /\ \/ rows' = rows /\ renders' = renders
           \/ rows' = rows \cup {RowOf} /\ renders' = renders \cup { <<entry.url, m>> : m \in Captures }
        /\ \/ RowOf \in rows' /\ step' = "walk"
           \/ step' = "fail"
    BY <1>5, WriteIs
  <2>2. RowOf.url = entry.url
    BY DEF RowOf
  <2>3. /\ entry.url = pages[Len(pages)].url /\ Len(pages) \in 1..Len(pages)
        /\ DOMAIN pages = 1..Len(pages) /\ Len(pages) \in Nat
    BY <2>1, EntryOfPage
  <2>4. Fetched' = Fetched /\ entry.url \in Fetched
    BY <2>1, <2>3 DEF Fetched
  <2>5. Written' \subseteq Fetched' /\ Written \subseteq Written'
    BY <2>1, <2>2, <2>4 DEF Written
  <2>6. step' \in Walking \ AtPage => Fetched' \subseteq Written'
    <3>1. CASE RowOf \in rows'
      <4>1. entry.url \in Written'
        BY <2>2, <3>1 DEF Written
      <4>2. \A i \in 1..Len(pages) : pages[i].url \in Written'
        <5>1. ASSUME NEW i \in 1..Len(pages) PROVE pages[i].url \in Written'
          <6>1. CASE i = Len(pages)
            BY <2>3, <4>1, <6>1
          <6>2. CASE i \in 1..Len(pages) - 1
            BY <2>5, <6>2
          <6> QED BY <2>3, <6>1, <6>2
        <5> QED BY <5>1
      <4> QED BY <2>3, <2>4, <4>2 DEF Fetched
    <3>2. CASE step' = "fail"
      BY <3>2 DEF Walking, AtPage, AtEnd
    <3> QED BY <2>1, <3>1, <3>2
  <2>7. renders' \subseteq blobs'
    BY <2>1
  <2>8. step' # "write" /\ \A i \in 1..Len(pages') - 1 : pages'[i].url \in Written'
    BY <2>1, <2>5
  <2> QED BY <2>5, <2>6, <2>7, <2>8
<1> QED BY <1>1, <1>2, <1>3, <1>4, <1>5, SinkMoves

LEMMA ResolvingStep ==
  ASSUME Typed, WrittenInOrder, Resolving, [CrawlNext]_crawlVars
  PROVE  Resolving'
<1> USE DEF Resolving
<1>1. CASE Idle /\ pages' = pages
  <2>1. Written' = Written /\ Fetched' = Fetched /\ edges' = edges
    BY <1>1 DEF Idle, Written, Fetched
  <2>2. step' \in {"completing", "returned"} => step' = step
    BY <1>1 DEF Idle
  <2>3. crawlRow' = "complete" =>
          crawlRow = "complete" /\ step' \in {"returned", "fail", "failing", "threw", "died"}
    BY <1>1 DEF Idle
  <2> QED BY <2>1, <2>2, <2>3
<1>2. CASE (Walks(Visit) \/ \E outcome \in {"rendered", "failed", "threw"} : Walks(Render(outcome)))
           /\ Idle
  <2>1. step \in {"walk", "render", "mobile"} /\ step' \in {"render", "mobile", "page", "fail"}
    BY <1>2 DEF Walks, Besides, Visit, Render
  <2>2. crawlRow' # "complete" /\ Written' = Written /\ edges' = edges
    BY <1>2, <2>1 DEF Idle, Written
  <2> QED BY <2>1, <2>2
<1>3. CASE Stays /\ Stores
  <2>1. crawlRow' # "complete" /\ Written' = Written /\ edges' = edges /\ step' \in {"write", "fail"}
    BY <1>3 DEF Stores, Written
  <2> QED BY <2>1
<1>4. CASE WritePage
  <2>1. /\ step = "write" /\ step \in AtPage /\ crawlRow' = crawlRow /\ rows \subseteq rows'
        /\ edges' = edges \/ edges' = edges \cup EdgesOf
        /\ step' \in {"walk", "fail"}
    BY <1>4, WriteIs
  <2>2. \A e \in EdgesOf : e.resolved = FALSE
    BY <2>1, RowIs
  <2>3. Written \subseteq Written' /\ crawlRow' # "complete"
    BY <2>1 DEF Written
  <2>4. \A e \in edges' : e.resolved => e.to \in Written'
    BY <2>1, <2>2, <2>3
  <2> QED BY <2>1, <2>3, <2>4
<1>5. CASE Stays /\ Resolves
  <2>1. Written' = Written /\ Fetched' = Fetched /\ crawlRow' = crawlRow
    BY <1>5 DEF Stays, Resolves, Written, Fetched
  <2>2. \A x \in Resolved : x.resolved <=> x.to \in Written
    <3> SUFFICES ASSUME NEW x \in Resolved PROVE x.resolved <=> x.to \in Written
      OBVIOUS
    <3>1. PICK e \in edges : x.to = e.to /\ x.resolved = (e.resolved \/ e.to \in Written)
      BY ResolvedIs
    <3>2. e.resolved => e.to \in Written
      OBVIOUS
    <3> QED BY <3>1, <3>2
  <2>3. \A e \in edges' : e.resolved => e.to \in Written'
    BY <1>5, <2>1, <2>2 DEF Resolves
  <2>4. ASSUME step' \in {"completing", "returned"}
        PROVE  Written' = Fetched' /\ \A e \in edges' : e.to \in Written' => e.resolved
    <3>1. step = "finish" /\ edges' = Resolved
      BY <1>5, <2>4 DEF Resolves
    <3>2. Written = Fetched
      BY <3>1 DEF WrittenInOrder, Walking, AtPage, AtEnd
    <3> QED BY <2>1, <2>2, <3>1, <3>2
  <2>5. ASSUME crawlRow' = "complete"
        PROVE  /\ Written' = Fetched' /\ \A e \in edges' : e.to \in Written' => e.resolved
               /\ step' \in {"failing", "threw"}
    <3>1. step = "fail" /\ step' \in {"failing", "threw"}
      BY <1>5, <2>1, <2>5 DEF Resolves
    <3>2. Written = Fetched /\ \A e \in edges : e.to \in Written => e.resolved
      BY <2>1, <2>5
    <3> QED BY <1>5, <2>1, <2>2, <3>1, <3>2 DEF Resolves
  <2> QED BY <2>3, <2>4, <2>5
<1>6. CASE Stays /\ Closes
  <2>1. Written' = Written /\ Fetched' = Fetched /\ edges' = edges
    BY <1>6 DEF Stays, Closes, Written, Fetched
  <2>2. step' \in {"completing", "returned"} => step = "completing"
    BY <1>6 DEF Closes
  <2>3. crawlRow' = "complete" => /\ step = "completing" \/ crawlRow = "complete"
                                  /\ step' \in {"returned", "fail", "threw"}
    BY <1>6 DEF Closes
  <2> QED BY <2>1, <2>2, <2>3
<1>7. CASE Walks(SitemapsDone) /\ Idle
  BY <1>1, <1>7 DEF Walks, Besides, SitemapsDone
<1>8. CASE Stays /\ Idle
  BY <1>1, <1>8 DEF Stays
<1> QED BY <1>2, <1>3, <1>4, <1>5, <1>6, <1>7, <1>8, SinkMoves

(* A crawl whose row says complete, crawl-sink.ts's finish, has every page *)
(* and every body behind it, and every edge to a page it fetched leads     *)
(* there: whichever statement failed before, and was tried again or not.   *)
THEOREM CompleteIsWhole == CrawlSpec => []WholeWhenComplete
<1>1. CrawlInit => WrittenInOrder /\ Resolving
  BY DEF CrawlInit, WrittenInOrder, Resolving, Written, Fetched, Walking, AtPage, AtEnd
<1>2. WrittenInOrder /\ Resolving => WholeWhenComplete
  BY DEF WrittenInOrder, Resolving, WholeWhenComplete
<1> QED BY <1>1, <1>2, TypedAlways, WrittenStep, ResolvingStep, PTL DEF CrawlSpec

-----------------------------------------------------------------------------
(* Every page come upon is a step away from a page that is written.        *)

LEMMA ParentedStays ==
  ASSUME NEW x, NEW y, x.from = y.from, x.depth = y.depth,
         ids \subseteq ids', rows \subseteq rows', Parented(x)
  PROVE  Parented(y)'
BY DEF Parented

(* What a written page leads to has that page for its parent.              *)
LEMMA LeadsParented ==
  ASSUME Typed, WritePage, Follow, RowOf \in rows', ids' = ids \cup {entry.url},
         NEW n \in 1..Len(Leads), NEW item, item = Leads[n]
  PROVE  Parented(item)'
<1>1. step = "write" /\ step \in AtPage
  BY WriteIs
<1>2. Leads[n].from = entry.url /\ Leads[n].depth \in {entry.depth, entry.depth + 1}
  BY <1>1, LeadsAre
<1>3. RowOf.url = entry.url /\ RowOf.depth = entry.depth
  BY DEF RowOf
<1> QED BY <1>2, <1>3 DEF Parented

LEMMA LineageStep ==
  ASSUME Typed, Lineage, [CrawlNext]_crawlVars
  PROVE  Lineage'
<1>1. CASE Stays /\ (Idle \/ Stores \/ Resolves \/ Closes)
  <2>1. UNCHANGED <<walk, listed, pages, rows, ids>>
    BY <1>1 DEF Stays, queueVars, Idle, Stores, Resolves, Closes
  <2> QED BY <2>1 DEF Lineage, Parented, Written, Elements
<1>2. CASE Walks(SitemapsDone)
  <2>1. /\ Started \in Frontier /\ Queues(Started)
        /\ Grown(Queue, Seeded, AtDepth(Seeds, 0, "none"), Len(Seeds), "walk")
        /\ Grown(Seeded, Started, AtDepth(declared, 0, "none"), Len(declared), "listed")
    BY <1>2, StartedIs DEF Walks, Besides, SitemapsDone, Started, Seeded
  <2>2. walk' = Started.walk /\ listed' = Started.listed /\ UNCHANGED <<pages, rows, ids>>
    BY <1>2, <2>1, QueuesAre DEF Walks, Besides, SitemapsDone, sinkVars
  <2>3. walk = <<>> /\ listed = <<>>
    BY <1>2 DEF Walks, Besides, SitemapsDone, Typed, NotYetWalking, AtSitemaps
  <2>4. /\ Elements(walk') \subseteq FreshOf(Queue, AtDepth(Seeds, 0, "none"), Len(Seeds))
        /\ Elements(listed') \subseteq FreshOf(Seeded, AtDepth(declared, 0, "none"), Len(declared))
    BY <2>1, <2>2, <2>3 DEF Grown, Queue, Elements
  <2>5. \A item \in FreshOf(Queue, AtDepth(Seeds, 0, "none"), Len(Seeds)) : item.from = "none"
    <3>1. Seeds \in Seq(Url)
      BY SeedsAssumption
    <3>2. \A i \in 1..Len(Seeds) : AtDepth(Seeds, 0, "none")[i].from = "none"
      BY <3>1 DEF AtDepth
    <3> QED BY <3>2 DEF FreshOf
  <2>6. \A item \in FreshOf(Seeded, AtDepth(declared, 0, "none"), Len(declared)) : item.from = "none"
    BY AtDepthIs DEF FreshOf, Typed, WalkTypeOK
  <2>7. \A item \in Elements(walk') \cup Elements(listed') : Parented(item)'
    BY <2>4, <2>5, <2>6 DEF Parented
  <2>8. \A i \in DOMAIN pages' : Parented(pages[i])'
    BY <2>2 DEF Lineage, Parented
  <2> QED BY <2>2, <2>7, <2>8 DEF Lineage, Written
<1>3. CASE Walks(Visit)
  <2>1. PICK item \in Entry, page \in Visited :
          /\ page.url = item.url /\ page.depth = item.depth /\ page.from = item.from
          /\ pages' = Append(pages, page) /\ TakesFrom(item)
    BY <1>3, VisitTakes DEF Walks, Besides
  <2>2. /\ pages \in Seq(Visited) /\ walk \in Seq(Entry) /\ listed \in Seq(Entry)
        /\ ids' = ids /\ rows' = rows
    BY <1>3, QueueParts DEF Typed, WalkTypeOK, Walks, Besides, Visit, sinkVars
  <2>3. /\ walk # <<>> => Elements(walk) = {Head(walk)} \cup Elements(Tail(walk))
        /\ listed # <<>> => Elements(listed) = {Head(listed)} \cup Elements(Tail(listed))
    BY <2>2, TailElements
  <2>4. /\ item \in Elements(walk) \cup Elements(listed)
        /\ Elements(walk') \cup Elements(listed') \subseteq Elements(walk) \cup Elements(listed)
    BY <2>1, <2>3 DEF TakesFrom
  <2>5. \A x \in Elements(walk') \cup Elements(listed') : Parented(x)'
    BY <2>2, <2>4 DEF Lineage, Parented
  <2>6. Parented(page)'
    BY <2>1, <2>2, <2>4, ParentedStays DEF Lineage
  <2>7. /\ DOMAIN pages' = 1..Len(pages) + 1 /\ DOMAIN pages = 1..Len(pages) /\ Len(pages) \in Nat
        /\ \A i \in 1..Len(pages) : pages'[i] = pages[i]
        /\ pages'[Len(pages) + 1] = page
    BY <2>1, <2>2
  <2>8. \A i \in DOMAIN pages' : Parented(pages[i])'
    <3> SUFFICES ASSUME NEW i \in 1..Len(pages) + 1 PROVE Parented(pages[i])'
      BY <2>7
    <3>1. CASE i = Len(pages) + 1
      <4>1. pages'[i] = page
        BY <2>7, <3>1
      <4> QED BY <2>6, <4>1 DEF Parented
    <3>2. CASE i \in 1..Len(pages)
      <4>1. pages'[i] = pages[i] /\ Parented(pages[i])
        BY <2>7, <3>2 DEF Lineage
      <4> QED BY <2>2, <4>1 DEF Parented
    <3> QED BY <2>7, <3>1, <3>2
  <2>9. \A r \in rows' : \E i \in DOMAIN pages' :
          /\ r.url = pages'[i].url /\ r.depth = pages'[i].depth
          /\ pages'[i].from # "none" => r.parent = pages'[i].from
    <3> SUFFICES ASSUME NEW r \in rows
                 PROVE  \E i \in DOMAIN pages' :
                          /\ r.url = pages'[i].url /\ r.depth = pages'[i].depth
                          /\ pages'[i].from # "none" => r.parent = pages'[i].from
      BY <2>2
    <3>1. PICK i \in DOMAIN pages : /\ r.url = pages[i].url /\ r.depth = pages[i].depth
                                    /\ pages[i].from # "none" => r.parent = pages[i].from
      BY DEF Lineage
    <3>2. i \in DOMAIN pages' /\ pages'[i] = pages[i]
      BY <2>7
    <3> QED BY <3>1, <3>2
  <2>10. (ids \subseteq Written)'
    BY <2>2 DEF Lineage, Written
  <2> QED BY <2>5, <2>8, <2>9, <2>10 DEF Lineage
<1>4. CASE \E outcome \in {"rendered", "failed", "threw"} : Walks(Render(outcome))
  <2>1. /\ DOMAIN pages' = DOMAIN pages
        /\ \A i \in DOMAIN pages : pages'[i].url = pages[i].url /\ pages'[i].depth = pages[i].depth
                                     /\ pages'[i].from = pages[i].from
        /\ UNCHANGED <<walk, listed, ids, rows>>
    BY <1>4, RenderKeeps DEF queueVars, sinkVars
  <2>2. \A i \in DOMAIN pages' : Parented(pages[i])'
    BY <2>1 DEF Lineage, Parented
  <2>3. \A x \in Elements(walk') \cup Elements(listed') : Parented(x)'
    BY <2>1 DEF Lineage, Parented
  <2>4. (ids \subseteq Written)'
    BY <2>1 DEF Lineage, Written
  <2> QED BY <2>1, <2>2, <2>3, <2>4 DEF Lineage
<1>5. CASE WritePage
  <2>1. /\ step = "write" /\ step \in AtPage /\ pages' = pages
        /\ rows' = rows \/ rows' = rows \cup {RowOf}
        /\ \/ RowOf \in rows' /\ ids' = ids \cup {entry.url} /\ Follow
           \/ ids' = ids /\ UNCHANGED queueVars
    BY <1>5, WriteIs
  <2>2. /\ RowOf.url = entry.url /\ RowOf.depth = entry.depth /\ RowOf.parent = ParentOf(entry.from)
        /\ Len(pages) \in DOMAIN pages /\ Page = pages[Len(pages)]
        /\ entry.url = Page.url /\ entry.depth = Page.depth /\ entry.from = Page.from
    BY <2>1, EntryOfPage DEF RowOf
  <2>3. (ids \subseteq Written)'
    BY <2>1, <2>2 DEF Lineage, Written
  <2>4. \A i \in DOMAIN pages' : Parented(pages[i])'
    BY <2>1 DEF Lineage, Parented
  <2>5. \A x \in Elements(walk) \cup Elements(listed) : Parented(x)'
    BY <2>1 DEF Lineage, Parented
  <2>6. \A x \in Elements(walk') \cup Elements(listed') : Parented(x)'
    <3>1. CASE UNCHANGED queueVars
      BY <2>5, <3>1 DEF queueVars
    <3>2. CASE RowOf \in rows' /\ ids' = ids \cup {entry.url} /\ Follow
      <4>1. Grown(Queue, Queue', Leads, Len(Leads), "walk")
        BY <2>1, <3>2, FollowIs
      <4>2. /\ listed' = listed
            /\ Elements(walk') \subseteq Elements(walk) \cup FreshOf(Queue, Leads, Len(Leads))
        BY <4>1 DEF Grown, Queue
      <4>3. \A x \in FreshOf(Queue, Leads, Len(Leads)) : Parented(x)'
        <5> SUFFICES ASSUME NEW x \in FreshOf(Queue, Leads, Len(Leads)) PROVE Parented(x)'
          OBVIOUS
        <5>1. PICK n \in 1..Len(Leads) : x = Leads[n]
          BY DEF FreshOf
        <5> QED BY <1>5, <3>2, <5>1, LeadsParented
      <4> QED BY <2>5, <4>2, <4>3
    <3> QED BY <2>1, <3>1, <3>2
  <2>7. \A r \in rows' : \E i \in DOMAIN pages' :
          /\ r.url = pages'[i].url /\ r.depth = pages'[i].depth
          /\ pages'[i].from # "none" => r.parent = pages'[i].from
    <3>1. entry.from # "none" => entry.from \in ids
      BY <2>2 DEF Lineage, Parented
    <3>2. entry.from # "none" => RowOf.parent = entry.from
      BY <2>2, <3>1 DEF ParentOf
    <3> QED BY <2>1, <2>2, <3>2 DEF Lineage
  <2> QED BY <2>3, <2>4, <2>6, <2>7 DEF Lineage
<1> QED BY <1>1, <1>2, <1>3, <1>4, <1>5, SinkMoves

LEMMA LineageAlways == CrawlSpec => []Lineage
<1>1. CrawlInit => Lineage
  BY DEF CrawlInit, Lineage, Parented, Written, Elements
<1> QED BY <1>1, TypedAlways, LineageStep, PTL DEF CrawlSpec

(* "A page's parent is always already written when the child arrives",     *)
(* crawl-sink.ts: a page that was come upon names the row of the page it   *)
(* was found on, one step of depth away at most.                           *)
THEOREM ParentsAreWritten == CrawlSpec => []ParentWritten
<1>1. Lineage /\ InOnePlace => ParentWritten
  <2> SUFFICES ASSUME Lineage, InOnePlace, NEW r \in rows, NEW i \in DOMAIN pages,
                      pages[i].url = r.url, pages[i].from # "none"
               PROVE  \E parent \in rows : /\ parent.url = r.parent
                                           /\ r.depth \in {parent.depth, parent.depth + 1}
    BY DEF ParentWritten
  <2>1. PICK k \in DOMAIN pages : /\ r.url = pages[k].url /\ r.depth = pages[k].depth
                                  /\ pages[k].from # "none" => r.parent = pages[k].from
    BY DEF Lineage
  <2>2. k = i
    BY <2>1 DEF InOnePlace, Once
  <2>3. PICK parent \in rows : /\ parent.url = pages[i].from
                               /\ pages[i].depth \in {parent.depth, parent.depth + 1}
    BY DEF Lineage, Parented
  <2> QED BY <2>1, <2>2, <2>3
<1> QED BY <1>1, LineageAlways, PlacesAlways, PTL

(* Everything the crawl and its sink keep has its type, whatever the site  *)
(* answers; a page, and its row, are within the depth budget.              *)
THEOREM CrawlTypeCorrect == CrawlSpec => []CrawlTypeOK
<1>1. Typed /\ Paced /\ Shallows /\ Lineage => CrawlTypeOK
  <2> SUFFICES ASSUME Typed, Paced, Shallows, Lineage PROVE CrawlTypeOK
    OBVIOUS
  <2>1. /\ walk \in Seq(Entry) /\ listed \in Seq(Entry) /\ queued \subseteq Url
        /\ blocked \in Seq(Url) /\ beyond \subseteq Url /\ declared \in Seq(Url)
        /\ pages \in Seq(Visited) /\ site \in Site
    BY QueueParts DEF Typed, WalkTypeOK
  <2>2. \A T : \A s \in Seq(T) : Elements(s) \subseteq T
    BY DEF Elements
  <2>3. queued \cup beyond \cup Elements(blocked) \cup Elements(declared) \cup ids \subseteq Url
    <3>1. Elements(blocked) \subseteq Url /\ Elements(declared) \subseteq Url
      BY <2>1, <2>2
    <3>2. ids \subseteq Url
      BY DEF Typed, SinkTypeOK
    <3> QED BY <2>1, <3>1, <3>2
  <2>4. Elements(walk) \cup Elements(listed) \subseteq Entry
    BY <2>1, <2>2
  <2>5. site.maxDepth \in Nat
    BY <2>1, SiteType
  <2>6. ASSUME NEW i \in DOMAIN pages
        PROVE  /\ pages[i].url \in Url /\ pages[i].final \in Url
               /\ pages[i].depth \in 0..site.maxDepth /\ pages[i].chain \in 0..MaxRedirects + 1
               /\ pages[i].rendered \in {"absent", "rendered", "failed"}
    <3>1. pages[i] \in Visited
      BY <2>1
    <3>2. pages[i].depth \in Nat /\ pages[i].depth <= site.maxDepth
      BY <3>1 DEF Visited, Shallows, PagesShallow
    <3>3. pages[i].depth \in 0..site.maxDepth
      BY <2>5, <3>2
    <3> QED BY <3>1, <3>3 DEF Visited
  <2>7. rows \subseteq [url : Url, parent : Url \cup {"none"}, depth : 0..site.maxDepth]
    <3> SUFFICES ASSUME NEW r \in rows
                 PROVE  r \in [url : Url, parent : Url \cup {"none"}, depth : 0..site.maxDepth]
      OBVIOUS
    <3>1. r \in Row
      BY DEF Typed, SinkTypeOK
    <3>2. \E i \in DOMAIN pages : r.depth = pages[i].depth
      BY DEF Lineage
    <3>3. r.depth \in 0..site.maxDepth
      BY <2>6, <3>2
    <3> QED BY <3>1, <3>3 DEF Row
  <2>8. /\ aborted \in BOOLEAN /\ first \in BOOLEAN
        /\ crawlRow \in {"none", "running", "complete", "failed", "cancelled"}
    BY DEF Typed, WalkTypeOK, SinkTypeOK
  <2>9. {unpaced, late} \subseteq Nat /\ hop \in 0..MaxRedirects + 1
    BY DEF Typed, WalkTypeOK, Paced
  <2>10. edges \subseteq [from : Url, to : Url, resolved : BOOLEAN] /\ renders \cup blobs \subseteq Url \X Mode
    BY DEF Typed, SinkTypeOK, Edge
  <2> QED BY <2>3, <2>4, <2>6, <2>7, <2>8, <2>9, <2>10 DEF CrawlTypeOK
<1> QED BY <1>1, TypedAlways, PacedAlways, PlacesAlways, LineageAlways, PTL

-----------------------------------------------------------------------------
(* What the crawl came to know is accounted for.                           *)

LEMMA LeadsOfSame ==
  ASSUME NEW p, NEW q, p.links = q.links, p.chain = q.chain, p.final = q.final, p.depth = q.depth,
         site' = site
  PROVE  /\ LeadsTo(p) = LeadsTo(q) /\ LeadsWithin(p) = LeadsWithin(q)
         /\ LeadsWithin(p)' = LeadsWithin(p)
BY DEF LeadsTo, LeadsWithin

(* FollowedAll's parts, for a set of pages.                                *)
Led(fetched, known) ==
  known = { u \in Elements(Seeds) \cup Elements(declared)
                    \cup UNION { LeadsTo(pages[i]) : i \in fetched } : OnSite(u) }

Within(fetched, kept) ==
  \A i \in fetched : \A u \in LeadsWithin(pages[i]) : OnSite(u) => u \in kept

LEMMA FollowedStep ==
  ASSUME Typed, Shallows, FollowedAll, [CrawlNext]_crawlVars
  PROVE  FollowedAll'
<1>1. CASE Stays
  <2> SUFFICES ASSUME step' \in Walking
               PROVE  /\ (Led(Followed, queued \cup beyond))' /\ (Within(Followed, queued))'
    BY DEF FollowedAll, Led, Within
  <2>1. /\ UNCHANGED <<site, queued, beyond, pages, declared>>
        /\ step \in Walking /\ (step' \in AtPage <=> step \in AtPage)
    BY <1>1 DEF Stays, queueVars
  <2>2. Followed' = Followed
    BY <2>1 DEF Followed
  <2> QED BY <2>1, <2>2 DEF FollowedAll, Led, Within, LeadsTo, LeadsWithin
<1>2. CASE Walks(SitemapsDone)
  <2>1. /\ Started \in Frontier /\ Queues(Started)
        /\ Grown(Queue, Seeded, AtDepth(Seeds, 0, "none"), Len(Seeds), "walk")
        /\ Grown(Seeded, Started, AtDepth(declared, 0, "none"), Len(declared), "listed")
    BY <1>2, StartedIs DEF Walks, Besides, SitemapsDone, Started, Seeded
  <2>2. queued' = Started.queued /\ beyond' = Started.beyond
    BY <2>1, QueuesAre
  <2>3. /\ queued = {} /\ beyond = {} /\ pages = <<>> /\ step' = "before"
        /\ UNCHANGED <<pages, declared>>
    BY <1>2 DEF Walks, Besides, SitemapsDone, Typed, NotYetWalking, AtSitemaps, sitemapVars
  <2>4. /\ { AtDepth(Seeds, 0, "none")[i].url : i \in 1..Len(Seeds) } = Elements(Seeds)
        /\ { AtDepth(declared, 0, "none")[i].url : i \in 1..Len(declared) } = Elements(declared)
    <3>1. Seeds \in Seq(Url) /\ declared \in Seq(Url)
      BY SeedsAssumption DEF Typed, WalkTypeOK
    <3>2. ASSUME NEW urls \in Seq(Url)
          PROVE  { AtDepth(urls, 0, "none")[i].url : i \in 1..Len(urls) } = Elements(urls)
      <4>1. \A i \in 1..Len(urls) : AtDepth(urls, 0, "none")[i].url = urls[i]
        BY DEF AtDepth
      <4>2. DOMAIN urls = 1..Len(urls)
        OBVIOUS
      <4> QED BY <4>1, <4>2 DEF Elements
    <3> QED BY <3>1, <3>2
  <2>5. Seeded.queued \cup Seeded.beyond = { u \in Elements(Seeds) : OnSite(u) }
    BY <2>1, <2>3, <2>4 DEF Grown, Queue
  <2>6. queued' \cup beyond' = { u \in Elements(Seeds) \cup Elements(declared) : OnSite(u) }
    <3>1. Started.queued \cup Started.beyond =
            Seeded.queued \cup Seeded.beyond \cup { u \in Elements(declared) : OnSite(u) }
      BY <2>1, <2>4 DEF Grown
    <3> QED BY <2>2, <2>5, <3>1
  <2>7. Followed' = {}
    BY <2>3 DEF Followed, AtPage
  <2> QED BY <2>3, <2>6, <2>7 DEF FollowedAll
<1>3. CASE Walks(Visit)
  <2>1. /\ DOMAIN pages' = 1..Len(pages) + 1 /\ Len(pages') = Len(pages) + 1 /\ Len(pages) \in Nat
        /\ DOMAIN pages = 1..Len(pages) /\ \A i \in 1..Len(pages) : pages'[i] = pages[i]
    BY <1>3, VisitedOnce
  <2>2. /\ step = "walk" /\ step' = "render"
        /\ UNCHANGED <<site, queued, beyond, declared>>
    BY <1>3 DEF Walks, Besides, Visit, sitemapVars
  <2>3. Followed' = 1..Len(pages) /\ Followed = 1..Len(pages)
    BY <2>1, <2>2 DEF Followed, AtPage
  <2>4. Led(1..Len(pages), queued \cup beyond) /\ Within(1..Len(pages), queued)
    BY <2>2, <2>3 DEF FollowedAll, Led, Within, Walking
  <2>5. UNION { LeadsTo(pages'[i]) : i \in 1..Len(pages) } = UNION { LeadsTo(pages[i]) : i \in 1..Len(pages) }
    BY <2>1
  <2>6. \A i \in 1..Len(pages) : LeadsWithin(pages[i])' = LeadsWithin(pages[i])
    BY <2>1, <2>2 DEF LeadsWithin
  <2> QED BY <2>2, <2>3, <2>4, <2>5, <2>6 DEF FollowedAll, Led, Within
<1>4. CASE \E outcome \in {"rendered", "failed", "threw"} : Walks(Render(outcome))
  <2>1. /\ Len(pages') = Len(pages) /\ DOMAIN pages' = DOMAIN pages
        /\ DOMAIN pages = 1..Len(pages) /\ Len(pages) \in Nat
        /\ \A i \in DOMAIN pages :
             /\ pages'[i].depth = pages[i].depth /\ pages'[i].final = pages[i].final
             /\ pages'[i].chain = pages[i].chain /\ pages'[i].links = pages[i].links
        /\ step \in {"render", "mobile"} /\ step' \in {"mobile", "page", "fail"}
        /\ UNCHANGED <<site, queued, beyond, declared>>
    BY <1>4, RenderKeeps DEF queueVars
  <2> SUFFICES ASSUME step' \in Walking
               PROVE  /\ (Led(Followed, queued \cup beyond))' /\ (Within(Followed, queued))'
    BY DEF FollowedAll, Led, Within
  <2>2. Followed' = 1..Len(pages) - 1 /\ Followed = 1..Len(pages) - 1
    BY <2>1 DEF Followed, AtPage, Walking, AtEnd
  <2>3. \A i \in 1..Len(pages) - 1 :
          /\ LeadsTo(pages'[i]) = LeadsTo(pages[i])
          /\ LeadsWithin(pages[i])' = LeadsWithin(pages[i])
    BY <2>1 DEF LeadsTo, LeadsWithin
  <2>4. Led(1..Len(pages) - 1, queued \cup beyond) /\ Within(1..Len(pages) - 1, queued)
    BY <2>1, <2>2 DEF FollowedAll, Led, Within, Walking, AtPage
  <2>5. UNION { LeadsTo(pages'[i]) : i \in 1..Len(pages) - 1 }
          = UNION { LeadsTo(pages[i]) : i \in 1..Len(pages) - 1 }
    BY <2>3
  <2> QED BY <2>1, <2>2, <2>3, <2>4, <2>5 DEF Led, Within
<1>5. CASE WritePage /\ Follow
  <2>1. /\ step = "write" /\ step \in AtPage /\ UNCHANGED <<site, pages, declared>> /\ step' = "walk"
    BY <1>5, WriteIs DEF Follow
  <2>2. Grown(Queue, Queue', Leads, Len(Leads), "walk")
    BY <1>5, <2>1, FollowIs
  <2>3. /\ { Leads[n].url : n \in 1..Len(Leads) } = LeadsTo(Page)
        /\ entry.depth <= site.maxDepth =>
             \A u \in LeadsWithin(Page) :
               \E n \in 1..Len(Leads) : Leads[n].url = u /\ ~TooDeep(Leads[n].depth)
    BY <2>1, LeadsAre
  <2>4. /\ queued' \cup beyond' =
             queued \cup beyond \cup { u \in { Leads[n].url : n \in 1..Len(Leads) } : OnSite(u) }
        /\ queued \subseteq queued'
        /\ \A n \in 1..Len(Leads) :
             OnSite(Leads[n].url) /\ ~TooDeep(Leads[n].depth) => Leads[n].url \in queued'
    BY <2>2 DEF Grown, Queue
  <2>5. PICK N \in Nat : /\ N # 0 /\ N = Len(pages) /\ DOMAIN pages = 1..N /\ Page = pages[N]
                         /\ entry.depth = Page.depth
    <3>1. Len(pages) \in Nat /\ Len(pages) # 0 /\ DOMAIN pages = 1..Len(pages)
      <4>1. pages # <<>> /\ pages \in Seq(Visited)
        BY <2>1 DEF Typed, WalkTypeOK, OnePage
      <4> QED BY <4>1
    <3>2. Page = pages[Len(pages)] /\ entry.depth = Page.depth
      BY <2>1, EntryOfPage
    <3> QED BY <3>1, <3>2, ZenonT(20)
  <2>6. entry.depth <= site.maxDepth
    BY <2>5 DEF Shallows, PagesShallow
  <2>7. Followed = 1..N - 1 /\ Followed' = 1..N
    BY <2>1, <2>5 DEF Followed, AtPage
  <2>8. Led(1..N - 1, queued \cup beyond) /\ Within(1..N - 1, queued)
    BY <2>1, <2>7 DEF FollowedAll, Led, Within, Walking
  <2>9. UNION { LeadsTo(pages[i]) : i \in 1..N }
          = (UNION { LeadsTo(pages[i]) : i \in 1..N - 1 }) \cup LeadsTo(Page)
    <3>1. 1..N = (1..N - 1) \cup {N}
      BY <2>5
    <3> QED BY <2>5, <3>1
  <2>10. Led(1..N, queued' \cup beyond')
    <3>1. queued' \cup beyond' = queued \cup beyond \cup { u \in LeadsTo(Page) : OnSite(u) }
      BY <2>3, <2>4
    <3>2. PICK old : old = UNION { LeadsTo(pages[i]) : i \in 1..N - 1 }
      OBVIOUS
    <3>3. PICK new : new = UNION { LeadsTo(pages[i]) : i \in 1..N }
      OBVIOUS
    <3>4. new = old \cup LeadsTo(Page)
      BY <2>9, <3>2, <3>3
    <3>5. queued \cup beyond = { u \in Elements(Seeds) \cup Elements(declared) \cup old : OnSite(u) }
      BY <2>8, <3>2 DEF Led
    <3>6. queued' \cup beyond' = { u \in Elements(Seeds) \cup Elements(declared) \cup new : OnSite(u) }
      BY <3>1, <3>4, <3>5
    <3> QED BY <3>3, <3>6 DEF Led
  <2>11. \A u \in LeadsWithin(Page) : OnSite(u) => u \in queued'
    <3> SUFFICES ASSUME NEW u \in LeadsWithin(Page), OnSite(u) PROVE u \in queued'
      OBVIOUS
    <3>1. PICK n \in 1..Len(Leads) : Leads[n].url = u /\ ~TooDeep(Leads[n].depth)
      BY <2>3, <2>6
    <3> QED BY <2>4, <3>1
  <2>12. Within(1..N, queued')
    <3> SUFFICES ASSUME NEW i \in 1..N, NEW u \in LeadsWithin(pages[i]), OnSite(u)
                 PROVE  u \in queued'
      BY DEF Within
    <3>1. CASE i = N
      BY <2>5, <2>11, <3>1
    <3>2. CASE i \in 1..N - 1
      BY <2>4, <2>8, <3>2 DEF Within
    <3> QED BY <2>5, <3>1, <3>2
  <2> QED BY <2>1, <2>7, <2>10, <2>12 DEF FollowedAll, Led, Within, LeadsWithin
<1> QED BY <1>1, <1>2, <1>3, <1>4, <1>5, WalkMoves

LEMMA WalkedOutStep ==
  ASSUME Typed, WalkedOut, [CrawlNext]_crawlVars
  PROVE  WalkedOut'
<1> SUFFICES ASSUME step' \in AtEnd PROVE (~WalkLeft)'
  BY DEF WalkedOut
<1>1. CASE UNCHANGED <<site, step, walk, listed, pages>>
  BY <1>1 DEF WalkedOut, WalkLeft
<1>2. CASE Onward \/ Walks(Aside)
  <2>1. UNCHANGED <<site, walk, listed, pages>>
    BY <1>2, OnwardIs DEF queueVars
  <2>2. ~WalkLeft
    <3>1. CASE OpenCrawl
      BY <3>1 DEF OpenCrawl, Goes, AtEnd
    <3>2. CASE Walks(WalkBegins) \/ Walks(RenderSkipped) \/ Walks(Cancels)
      BY <3>2 DEF Walks, Besides, WalkBegins, RenderSkipped, Cancels, AtEnd
    <3>3. CASE Walks(WalkEnds)
      BY <3>3 DEF Walks, Besides, WalkEnds
    <3>4. CASE Walks(Returns)
      BY <3>4 DEF Walks, Besides, Returns, WalkedOut, AtEnd
    <3>5. CASE Waits \/ Walks(Aside)
      BY <3>5 DEF Walks, Besides, Waits, Redirected, Answered, Abort, Aside, WalkedOut
    <3>6. CASE Dies
      BY <3>6 DEF Dies, Goes, AtEnd
    <3> QED BY <1>2, <3>1, <3>2, <3>3, <3>4, <3>5, <3>6 DEF Onward
  <2> QED BY <2>1, <2>2 DEF WalkLeft
<1>3. CASE \/ Walks(LoadRobots) \/ Walks(ReadSitemap) \/ Walks(SitemapsDone) \/ Walks(Visit)
           \/ StoreBodies \/ WritePage
  <2>1. step' \notin AtEnd
    <3>1. CASE Walks(LoadRobots) \/ Walks(ReadSitemap)
      <4>1. step' = "sitemaps"
        <5>1. Walks(LoadRobots) => step' = "sitemaps"
          BY DEF Walks, Besides, LoadRobots
        <5>2. Walks(ReadSitemap) => step' = "sitemaps"
          BY DEF Walks, Besides, ReadSitemap
        <5> QED BY <3>1, <5>1, <5>2
      <4> QED BY <4>1 DEF AtEnd
    <3>2. CASE Walks(SitemapsDone) \/ Walks(Visit)
      BY <3>2 DEF Walks, Besides, SitemapsDone, Visit, AtEnd
    <3>3. CASE StoreBodies
      BY <3>3 DEF StoreBodies, Goes, AtEnd
    <3>4. CASE WritePage
      BY <3>4, WriteIs DEF AtEnd
    <3> QED BY <1>3, <3>1, <3>2, <3>3, <3>4
  <2> QED BY <2>1
<1>4. CASE \E outcome \in {"rendered", "failed", "threw"} : Walks(Render(outcome))
  BY <1>4, RenderKeeps DEF AtEnd
<1>5. CASE Resolve
  <2>1. step = "finish" /\ UNCHANGED <<site, walk, listed, pages>>
    <3>1. CASE Goes(CASE step = "finish" -> "completing" [] step = "fail" -> "failing"
                      [] step = "cancel" -> "cancelling")
      BY <1>5, <3>1 DEF Resolve, Goes, queueVars, AtEnd
    <3>2. CASE Goes(IF step = "finish" THEN "fail" ELSE "threw")
      BY <3>2 DEF Goes, AtEnd
    <3> QED BY <1>5, <3>1, <3>2 DEF Resolve
  <2> QED BY <2>1 DEF WalkedOut, WalkLeft, AtEnd
<1>6. CASE CloseCrawl
  <2>1. step = "completing" /\ UNCHANGED <<site, walk, listed, pages>>
    <3>1. CASE Goes(CASE step = "completing" -> "returned" [] step = "failing" -> "threw"
                      [] step = "cancelling" -> "cancelled")
      BY <1>6, <3>1 DEF CloseCrawl, Goes, queueVars, AtEnd
    <3>2. CASE Goes(IF step = "completing" THEN "fail" ELSE "threw")
      BY <3>2 DEF Goes, AtEnd
    <3> QED BY <1>6, <3>1, <3>2 DEF CloseCrawl
  <2> QED BY <2>1 DEF WalkedOut, WalkLeft, AtEnd
<1>7. CASE UNCHANGED crawlVars
  BY <1>1, <1>7 DEF crawlVars, walkVars, queueVars
<1> QED BY <1>2, <1>3, <1>4, <1>5, <1>6, <1>7 DEF CrawlNext, CrawlStep, Onward, Waits

LEMMA FollowedAlways == CrawlSpec => [](FollowedAll /\ WalkedOut)
<1>1. CrawlInit => FollowedAll /\ WalkedOut
  BY DEF CrawlInit, FollowedAll, WalkedOut, Walking, AtPage, AtEnd
<1> QED BY <1>1, TypedAlways, PlacesAlways, FollowedStep, WalkedOutStep, PTL DEF CrawlSpec

LEMMA CountedOnce ==
  ASSUME NEW s, NEW n \in Nat, DOMAIN s = 1..n, Once(s)
  PROVE  Cardinality(Urls(s)) = n
<1> DEFINE f == [ i \in 1..n |-> s[i].url ]
<1>1. f \in Surjection(1..n, Urls(s))
  BY DEF Surjection, Urls
<1>2. f \in Injection(1..n, Urls(s))
  BY DEF Injection, IsInjective, Urls, Once
<1>3. IsFiniteSet(1..n) /\ Cardinality(1..n) = n
  BY FS_Interval
<1> HIDE DEF f
<1> QED BY <1>1, <1>2, <1>3, FS_Surjection

(* A crawl that returns accounts for every URL of the site it came to      *)
(* know, crawl.ts's enqueue and notReached: each is fetched, once, or kept *)
(* out by robots.txt, or not reached; and while pages are left to spend, a *)
(* link of a page above the depth budget, and a redirect target, is not    *)
(* among those not reached.                                                *)
THEOREM CrawlAccounts == CrawlSpec => []Accounted
<1>1. Typed /\ InOnePlace /\ FollowedAll /\ WalkedOut => Accounted
  <2> SUFFICES ASSUME Typed, InOnePlace, FollowedAll, WalkedOut, Finished
               PROVE  /\ Cardinality(Fetched) = Len(pages)
                      /\ Fetched \cap (NotReached \cup Elements(blocked)) = {}
                      /\ NotReached \cap Elements(blocked) = {}
                      /\ Discovered = Fetched \cup NotReached \cup Elements(blocked)
                                        \cup ((beyond \ queued) \cap site.disallow)
                      /\ Len(pages) < site.maxPages =>
                           \A i \in DOMAIN pages :
                             \A u \in LeadsWithin(pages[i]) :
                               OnSite(u) => u \in Fetched \cup Elements(blocked)
    BY DEF Accounted, LeadsWithin
  <2>1. step \in AtEnd /\ step \in Walking /\ step \notin AtPage
    BY DEF Finished, AtEnd, Walking, AtPage
  <2>2. /\ (Urls(walk) \cup Urls(listed)) \cap (Elements(blocked) \cup Fetched) = {}
        /\ Elements(blocked) \cap Fetched = {}
        /\ queued = Urls(walk) \cup Urls(listed) \cup Elements(blocked) \cup Fetched
    BY DEF InOnePlace, Placed, Queue
  <2>3. NotReached = Urls(walk) \cup Urls(listed) \cup ((beyond \ queued) \ site.disallow)
    BY DEF NotReached, Urls
  <2>4. Cardinality(Fetched) = Len(pages)
    <3>1. pages \in Seq(Visited) /\ Once(pages)
      BY DEF Typed, WalkTypeOK, InOnePlace
    <3>2. DOMAIN pages = 1..Len(pages) /\ Len(pages) \in Nat
      BY <3>1
    <3> QED BY <3>1, <3>2, CountedOnce DEF Fetched, Urls
  <2>5. Followed = DOMAIN pages
    BY <2>1 DEF Followed
  <2>6. Discovered = queued \cup beyond
    <3>1. UNION { LeadsTo(pages[i]) : i \in DOMAIN pages } =
            (UNION { Elements(pages[i].links) : i \in DOMAIN pages })
              \cup { pages[i].final : i \in { k \in DOMAIN pages : pages[k].chain > 0 } }
      BY DEF LeadsTo
    <3>2. queued \cup beyond =
            { u \in Elements(Seeds) \cup Elements(declared)
                      \cup UNION { LeadsTo(pages[i]) : i \in DOMAIN pages } : OnSite(u) }
      BY <2>1, <2>5 DEF FollowedAll
    <3>3. PICK led : led = UNION { LeadsTo(pages[i]) : i \in DOMAIN pages }
      OBVIOUS
    <3>4. PICK linked : linked = UNION { Elements(pages[i].links) : i \in DOMAIN pages }
      OBVIOUS
    <3>5. PICK went : went = { pages[i].final : i \in { k \in DOMAIN pages : pages[k].chain > 0 } }
      OBVIOUS
    <3>6. led = linked \cup went
      BY <3>1, <3>3, <3>4, <3>5
    <3>7. Discovered = { u \in Elements(Seeds) \cup Elements(declared) \cup linked \cup went : OnSite(u) }
      BY <3>4, <3>5 DEF Discovered
    <3>8. queued \cup beyond = { u \in Elements(Seeds) \cup Elements(declared) \cup led : OnSite(u) }
      BY <3>2, <3>3
    <3> QED BY <3>6, <3>7, <3>8
  <2>7. ASSUME Len(pages) < site.maxPages, NEW i \in DOMAIN pages,
               NEW u \in LeadsWithin(pages[i]), OnSite(u)
        PROVE  u \in Fetched \cup Elements(blocked)
    <3>1. walk = <<>> /\ listed = <<>>
      BY <2>1, <2>7 DEF WalkedOut, WalkLeft
    <3>2. Urls(walk) = {} /\ Urls(listed) = {}
      BY <3>1 DEF Urls
    <3>3. u \in queued
      BY <2>1, <2>5, <2>7 DEF FollowedAll
    <3> QED BY <2>2, <3>2, <3>3
  <2>8. Fetched \cap (NotReached \cup Elements(blocked)) = {} /\ NotReached \cap Elements(blocked) = {}
    BY <2>2, <2>3
  <2>9. Discovered = Fetched \cup NotReached \cup Elements(blocked)
                       \cup ((beyond \ queued) \cap site.disallow)
    BY <2>2, <2>3, <2>6
  <2> QED BY <2>4, <2>7, <2>8, <2>9
<1> QED BY <1>1, TypedAlways, PlacesAlways, FollowedAlways, PTL

-----------------------------------------------------------------------------
(* The lists' lane has every other page, while it has any.                 *)

LEMMA FromListsIs ==
  ASSUME Typed
  PROVE  /\ FromLists \subseteq 1..Len(pages) /\ IsFiniteSet(FromLists)
         /\ Cardinality(FromLists) \in Nat
<1>1. DOMAIN pages = 1..Len(pages) /\ Len(pages) \in Nat
  <2>1. pages \in Seq(Visited)
    BY DEF Typed, WalkTypeOK
  <2> QED BY <2>1
<1>2. IsFiniteSet(1..Len(pages)) /\ FromLists \subseteq 1..Len(pages)
  BY <1>1, FS_Interval DEF FromLists
<1>3. IsFiniteSet(FromLists)
  BY <1>2, FS_Subset
<1> QED BY <1>2, <1>3, FS_CardinalityType

(* What the sitemaps declare is listed when no seed has it.                *)
LEMMA ListedAtFirst ==
  ASSUME Typed, Walks(SitemapsDone)
  PROVE  \A item \in Elements(listed') : item.from = "none" /\ item.url \notin Elements(Seeds)
<1>1. /\ Started \in Frontier /\ Queues(Started)
      /\ Grown(Queue, Seeded, AtDepth(Seeds, 0, "none"), Len(Seeds), "walk")
      /\ Grown(Seeded, Started, AtDepth(declared, 0, "none"), Len(declared), "listed")
  BY StartedIs DEF Walks, Besides, SitemapsDone, Started, Seeded
<1>2. listed' = Started.listed
  BY <1>1, QueuesAre
<1>3. listed = <<>> /\ site \in Site
  BY DEF Walks, Besides, SitemapsDone, Typed, WalkTypeOK, NotYetWalking, AtSitemaps
<1>4. Seeded.listed = <<>>
  BY <1>1, <1>3 DEF Grown, Queue
<1>5. Elements(listed') \subseteq FreshOf(Seeded, AtDepth(declared, 0, "none"), Len(declared))
  BY <1>1, <1>2, <1>4 DEF Grown, Elements
<1>6. \A item \in FreshOf(Seeded, AtDepth(declared, 0, "none"), Len(declared)) :
        item.from = "none" /\ OnSite(item.url) /\ item.url \notin Seeded.queued
  <2>1. \A i \in 1..Len(declared) : AtDepth(declared, 0, "none")[i].from = "none"
    <3>1. declared \in Seq(Url)
      BY DEF Typed, WalkTypeOK
    <3> QED BY <3>1 DEF AtDepth
  <2> QED BY <2>1 DEF FreshOf
<1>7. \A url \in Elements(Seeds) : OnSite(url) => url \in Seeded.queued
  <2> SUFFICES ASSUME NEW i \in DOMAIN Seeds, OnSite(Seeds[i]) PROVE Seeds[i] \in Seeded.queued
    BY DEF Elements
  <2>1. Seeds \in Seq(Url) /\ i \in 1..Len(Seeds)
    BY SeedsAssumption
  <2>2. AtDepth(Seeds, 0, "none")[i].url = Seeds[i] /\ AtDepth(Seeds, 0, "none")[i].depth = 0
    BY <2>1 DEF AtDepth
  <2>3. ~TooDeep(0)
    BY <1>3, SiteType DEF TooDeep
  <2> QED BY <1>1, <2>1, <2>2, <2>3 DEF Grown
<1> QED BY <1>5, <1>6, <1>7

LEMMA ListsStep ==
  ASSUME Typed, ListsShare, [CrawlNext]_crawlVars
  PROVE  ListsShare'
<1>1. CASE Stays
  BY <1>1 DEF Stays, queueVars, ListsShare, FromLists, Elements
<1>2. CASE Walks(SitemapsDone)
  <2>1. pages' = <<>> /\ turn' = "walk"
    BY <1>2 DEF Walks, Besides, SitemapsDone, Typed, NotYetWalking, AtSitemaps
  <2>2. FromLists' = {}
    BY <2>1 DEF FromLists
  <2>3. Cardinality(FromLists') = 0 /\ Len(pages') = 0
    BY <2>1, <2>2, FS_EmptySet
  <2> QED BY <1>2, <2>1, <2>3, ListedAtFirst DEF ListsShare
<1>3. CASE Walks(Visit)
  <2>1. PICK item \in Entry, page \in Visited :
          /\ page.url = item.url /\ page.depth = item.depth /\ page.from = item.from
          /\ pages' = Append(pages, page) /\ TakesFrom(item)
    BY <1>3, VisitTakes DEF Walks, Besides
  <2>2. pages \in Seq(Visited) /\ walk \in Seq(Entry) /\ listed \in Seq(Entry)
        /\ turn \in {"walk", "listed"}
    BY QueueParts DEF Typed, WalkTypeOK
  <2>3. PICK N \in Nat : N = Len(pages)
    BY <2>2
  <2>4. /\ DOMAIN pages = 1..N /\ DOMAIN pages' = 1..N + 1 /\ Len(pages') = N + 1
        /\ \A i \in 1..N : pages'[i] = pages[i]
        /\ pages'[N + 1] = page
    BY <2>1, <2>2, <2>3
  <2>5. FromLists' = FromLists \cup (IF page.from = "none" /\ page.url \notin Elements(Seeds)
                                     THEN {N + 1} ELSE {})
    <3>1. 1..N + 1 = 1..N \cup {N + 1}
      BY <2>3
    <3> QED BY <2>4, <3>1 DEF FromLists
  <2>6. /\ FromLists \subseteq 1..N /\ IsFiniteSet(FromLists) /\ Cardinality(FromLists) \in Nat
    BY <2>3, FromListsIs
  <2>7. PICK C \in Nat : C = Cardinality(FromLists)
    BY <2>6
  <2>8. N + 1 \notin FromLists
    BY <2>3, <2>6
  <2>9. /\ page.from = "none" /\ page.url \notin Elements(Seeds) => Cardinality(FromLists') = C + 1
        /\ Cardinality(FromLists') \in {C, C + 1}
    <3>1. Cardinality(FromLists \cup {N + 1}) = C + 1
      BY <2>6, <2>7, <2>8, FS_AddElement
    <3>2. FromLists \cup {} = FromLists
      OBVIOUS
    <3> QED BY <2>5, <2>7, <3>1, <3>2
  <2>10. listed # <<>> => N <= 2 * C + (IF turn = "listed" THEN 1 ELSE 0)
    BY <2>3, <2>7 DEF ListsShare
  <2>11. /\ listed # <<>> => Elements(listed) = {Head(listed)} \cup Elements(Tail(listed))
    BY <2>2, TailElements
  <2>12. CASE /\ turn = "walk" \/ listed = <<>>
              /\ listed' = listed /\ turn' = "listed"
    <3>1. \A x \in Elements(listed') : x.from = "none" /\ x.url \notin Elements(Seeds)
      BY <2>12 DEF ListsShare
    <3>2. listed' # <<>> => N + 1 <= 2 * Cardinality(FromLists') + 1
      BY <2>3, <2>7, <2>9, <2>10, <2>12
    <3> QED BY <2>4, <2>12, <3>1, <3>2 DEF ListsShare
  <2>13. CASE /\ turn = "listed" \/ walk = <<>>
              /\ listed # <<>> /\ item = Head(listed) /\ listed' = Tail(listed) /\ turn' = "walk"
    <3>1. \A x \in Elements(listed') : x.from = "none" /\ x.url \notin Elements(Seeds)
      BY <2>11, <2>13 DEF ListsShare
    <3>2. item.from = "none" /\ item.url \notin Elements(Seeds)
      BY <2>11, <2>13 DEF ListsShare
    <3>3. N <= 2 * C + 1
      BY <2>3, <2>7, <2>10, <2>13
    <3>4. Cardinality(FromLists') = C + 1
      BY <2>1, <2>9, <3>2
    <3>5. N + 1 <= 2 * Cardinality(FromLists')
      BY <2>3, <2>7, <3>3, <3>4
    <3>6. Len(pages') <= 2 * Cardinality(FromLists') + (IF turn' = "listed" THEN 1 ELSE 0)
      <4>1. (IF turn' = "listed" THEN 1 ELSE 0) = 0
        BY <2>13
      <4> QED BY <2>3, <2>4, <2>7, <3>4, <3>5, <4>1
    <3> QED BY <3>1, <3>6 DEF ListsShare
  <2> QED BY <2>1, <2>12, <2>13 DEF TakesFrom
<1>4. CASE \E outcome \in {"rendered", "failed", "threw"} : Walks(Render(outcome))
  <2>1. /\ Len(pages') = Len(pages) /\ DOMAIN pages' = DOMAIN pages
        /\ \A i \in DOMAIN pages : pages'[i].url = pages[i].url /\ pages'[i].from = pages[i].from
        /\ UNCHANGED <<listed, turn>>
    BY <1>4, RenderKeeps DEF queueVars
  <2>2. FromLists' = FromLists
    BY <2>1 DEF FromLists
  <2> QED BY <2>1, <2>2 DEF ListsShare
<1>5. CASE WritePage /\ Follow
  <2>1. step = "write" /\ UNCHANGED <<pages, turn>>
    BY <1>5, WriteIs
  <2>2. Grown(Queue, Queue', Leads, Len(Leads), "walk")
    BY <1>5, <2>1, FollowIs
  <2>3. listed' = listed /\ FromLists' = FromLists
    BY <2>1, <2>2 DEF Grown, Queue, FromLists
  <2> QED BY <2>1, <2>3 DEF ListsShare
<1> QED BY <1>1, <1>2, <1>3, <1>4, <1>5, WalkMoves

(* While the lists have something left, every other page came from them:   *)
(* crawl.ts's nextEntry, whatever the links of the site add to the walk.   *)
THEOREM ListsHaveTheirShare == CrawlSpec => []SharesBudget
<1>1. CrawlInit => ListsShare
  BY DEF CrawlInit, ListsShare, Elements
<1>2. Typed /\ ListsShare => SharesBudget
  <2> SUFFICES ASSUME Typed, ListsShare, listed # <<>>
               PROVE  Len(pages) <= 1 + 2 * Cardinality(FromLists)
    BY DEF SharesBudget, FromLists
  <2>1. Len(pages) <= 2 * Cardinality(FromLists) + (IF turn = "listed" THEN 1 ELSE 0)
    BY DEF ListsShare
  <2>2. Cardinality(FromLists) \in Nat /\ Len(pages) \in Nat
    <3>1. pages \in Seq(Visited)
      BY DEF Typed, WalkTypeOK
    <3> QED BY <3>1, FromListsIs
  <2> QED BY <2>1, <2>2
<1> QED BY <1>1, <1>2, TypedAlways, ListsStep, PTL DEF CrawlSpec

=============================================================================
