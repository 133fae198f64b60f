-------------------------- MODULE JobQueueOutcomes --------------------------
(***************************************************************************)
(* Every action of JobQueue keeps JobQueueTidy's invariant of each memory, *)
(* in every mode and for workers that have lost their claims too, and no   *)
(* action takes back what has been decided about a job.  First the lines   *)
(* and the counting of slots, then the helpers, then the actions.          *)
(***************************************************************************)
EXTENDS JobQueueTidy, JobQueueTypes, FiniteSetTheorems

-----------------------------------------------------------------------------
(* Lines.                                                                  *)

LEMMA LineGrows ==
  ASSUME NEW R, NEW Q, NEW j, R \subseteq Q \X Q, Lines(R, Q), j \notin Q
  PROVE  LET Rj == R \cup (Q \X {j})
             Qj == Q \cup {j}
         IN Rj \subseteq Qj \X Qj /\ Lines(Rj, Qj)
<1> DEFINE Rj == R \cup (Q \X {j})  Qj == Q \cup {j}
<1>1. \A i, k \in Qj : <<i, k>> \in Rj <=> <<i, k>> \in R \/ (i \in Q /\ k = j)
  OBVIOUS
<1>2. \A i, k : <<i, k>> \in R => i \in Q /\ k \in Q /\ i # j /\ k # j
  OBVIOUS
<1>3. Rj \subseteq Qj \X Qj
  OBVIOUS
<1>4. Lines(Rj, Qj)
  <2>1. \A i \in Qj : <<i, i>> \notin Rj
    BY <1>1, <1>2 DEF Lines
  <2>2. \A i, k \in Qj : i # k => <<i, k>> \in Rj \/ <<k, i>> \in Rj
    BY <1>1 DEF Lines
  <2>3. ASSUME NEW h \in Qj, NEW i \in Qj, NEW k \in Qj, <<h, i>> \in Rj, <<i, k>> \in Rj
        PROVE  <<h, k>> \in Rj
    BY <1>1, <1>2, <2>3 DEF Lines
  <2> HIDE DEF Rj, Qj
  <2> QED BY <2>1, <2>2, <2>3 DEF Lines
<1> QED BY <1>3, <1>4

LEMMA LineShrinks ==
  ASSUME NEW R, NEW Q, NEW S, R \subseteq Q \X Q, Lines(R, Q)
  PROVE  LET Rs == { p \in R : p[1] \notin S /\ p[2] \notin S }
         IN Rs \subseteq (Q \ S) \X (Q \ S) /\ Lines(Rs, Q \ S)
<1> DEFINE Rs == { p \in R : p[1] \notin S /\ p[2] \notin S }
<1>1. \A i, k \in Q \ S : <<i, k>> \in Rs <=> <<i, k>> \in R
  OBVIOUS
<1>2. Rs \subseteq (Q \ S) \X (Q \ S)
  OBVIOUS
<1> HIDE DEF Rs
<1>3. Lines(Rs, Q \ S)
  BY <1>1 DEF Lines
<1> QED BY <1>2, <1>3 DEF Rs

LEMMA LinePart ==
  ASSUME NEW R, NEW Q, NEW S \in SUBSET Q, Lines(R, Q)
  PROVE  Lines(R, S)
BY DEF Lines

-----------------------------------------------------------------------------
(* Counting: of a finite line, the elements with fewer than c before them  *)
(* are c, or all there are.                                                *)

LEMMA FirstOfLine ==
  ASSUME NEW F, IsFiniteSet(F), NEW R, Lines(R, F), NEW c \in Nat
  PROVE  LET T == { j \in F : Cardinality({ k \in F : <<k, j>> \in R }) < c }
         IN /\ IsFiniteSet(T) /\ Cardinality(T) \in Nat
            /\ Cardinality(T) <= c
            /\ T = F \/ Cardinality(T) = c
<1> DEFINE before(j) == { k \in F : <<k, j>> \in R }
           rank(j) == Cardinality(before(j))
           T == { j \in F : rank(j) < c }
<1>1. PICK n \in Nat : n = Cardinality(F)
  BY FS_CardinalityType
<1>2. ASSUME NEW j \in F
      PROVE  IsFiniteSet(before(j)) /\ rank(j) \in 0..n - 1
  <2>1. before(j) \in SUBSET F /\ j \notin before(j)
    BY DEF Lines
  <2> DEFINE B == before(j)
  <2> HIDE DEF B
  <2>2. IsFiniteSet(B) /\ Cardinality(B) \in Nat /\ Cardinality(B) <= n /\ Cardinality(B) # n
    BY <1>1, <2>1, FS_Subset, FS_CardinalityType DEF B
  <2>3. Cardinality(B) \in 0..n - 1
    BY <1>1, <2>2
  <2> QED BY <2>2, <2>3 DEF B
<1>3. ASSUME NEW j \in F, NEW k \in F, <<j, k>> \in R
      PROVE  rank(j) < rank(k)
  <2> DEFINE A == before(j)  B == before(k)
  <2>1. A \in SUBSET B /\ j \in B /\ j \notin A
    BY <1>3 DEF Lines
  <2>2. IsFiniteSet(B)
    BY <1>2
  <2> HIDE DEF A, B
  <2>3. Cardinality(A) <= Cardinality(B) /\ Cardinality(A) # Cardinality(B)
    BY <2>1, <2>2, FS_Subset
  <2>4. Cardinality(A) \in Nat /\ Cardinality(B) \in Nat
    BY <2>1, <2>2, FS_Subset, FS_CardinalityType
  <2>5. Cardinality(A) < Cardinality(B)
    BY <2>3, <2>4
  <2> QED BY <2>5 DEF A, B
<1>4. T = { j \in F : Cardinality({ k \in F : <<k, j>> \in R }) < c }
  OBVIOUS
<1> HIDE DEF rank
<1>ranked. \A j \in F : rank(j) \in 0..n - 1
  <2> HIDE DEF before
  <2> QED BY <1>2
<1>counted. \A j \in F : rank(j) \in Nat
  BY <1>1, <1>ranked
<1>5. ASSUME NEW j \in F, NEW k \in F, rank(j) = rank(k) PROVE j = k
  <2>1. j # k => rank(j) < rank(k) \/ rank(k) < rank(j)
    BY <1>3 DEF Lines
  <2>2. rank(j) \in Nat /\ rank(k) \in Nat
    BY <1>counted
  <2> QED BY <1>5, <2>1, <2>2
<1> DEFINE g == [j \in F |-> rank(j)]
<1>6. g \in [F -> 0..n - 1] /\ (\A j \in F : g[j] = rank(j))
      /\ \A j, k \in F : g[j] = g[k] => j = k
  BY <1>ranked, <1>5
<1>7. IsFiniteSet(0..n - 1) /\ Cardinality(0..n - 1) = n
  <2>1. 0 \in Int /\ n - 1 \in Int /\ (IF 0 > n - 1 THEN 0 ELSE n - 1 - 0 + 1) = n
    BY <1>1
  <2> QED BY <2>1, FS_Interval
<1>8. \A r \in 0..n - 1 : \E j \in F : rank(j) = r
  <2> HIDE DEF g
  <2>1. g \in Injection(F, 0..n - 1)
    BY <1>6 DEF Injection, IsInjective
  <2>2. g \in Surjection(F, 0..n - 1)
    BY <1>1, <1>7, <2>1, FS_Injection
  <2> QED BY <1>6, <2>2 DEF Surjection
<1>9. T \in SUBSET F /\ IsFiniteSet(T) /\ Cardinality(T) \in Nat
  <2>1. T \in SUBSET F
    OBVIOUS
  <2> HIDE DEF T
  <2> QED BY <2>1, FS_Subset, FS_CardinalityType
<1>10. \A j \in T : j \in F /\ rank(j) \in 0..c - 1
  <2> TAKE j \in T
  <2>1. j \in F /\ rank(j) < c
    OBVIOUS
  <2>2. rank(j) \in Nat
    BY <1>counted, <2>1
  <2> QED BY <2>1, <2>2
<1> DEFINE f == [j \in T |-> rank(j)]
<1>11. f \in [T -> 0..c - 1] /\ (\A j \in T : f[j] = rank(j))
       /\ \A j, k \in T : f[j] = f[k] => j = k
  <2> HIDE DEF T
  <2> QED BY <1>5, <1>10
<1>12. IsFiniteSet(0..c - 1) /\ Cardinality(0..c - 1) = c
  BY FS_Interval
<1>13. Cardinality(T) <= c
  <2> HIDE DEF T, f
  <2>1. f \in Injection(T, 0..c - 1)
    BY <1>11 DEF Injection, IsInjective
  <2> QED BY <1>12, <2>1, FS_Injection
<1>14. ASSUME T # F PROVE Cardinality(T) = c
  <2>1. PICK j \in F : ~(rank(j) < c)
    BY <1>14
  <2>2. c <= n - 1
    <3>1. rank(j) \in 0..n - 1
      BY <1>ranked
    <3> QED BY <1>1, <2>1, <3>1
  <2>3. \A r \in 0..c - 1 : \E k \in T : f[k] = r
    <3> TAKE r \in 0..c - 1
    <3>1. r \in 0..n - 1 /\ r < c
      BY <1>1, <2>2
    <3>2. PICK k \in F : rank(k) = r
      BY <1>8, <3>1
    <3>3. k \in T
      BY <3>1, <3>2
    <3> QED BY <1>11, <3>2, <3>3
  <2> HIDE DEF T, f
  <2>4. f \in Surjection(T, 0..c - 1)
    BY <1>11, <2>3 DEF Surjection
  <2>5. c <= Cardinality(T)
    BY <1>9, <1>12, <2>4, FS_Surjection
  <2> QED BY <1>9, <1>13, <2>5
<1> HIDE DEF T
<1> QED BY <1>4, <1>9, <1>13, <1>14

-----------------------------------------------------------------------------
(* Chains.                                                                 *)

LEMMA OrderedAppend ==
  ASSUME NEW c \in Seq(Write), NEW e, NEW f, NEW asking \in BOOLEAN, NEW asking2 \in BOOLEAN,
         Ordered(c, e, asking), f.durability = e.durability, asking => asking2,
         NEW x \in Write, x.op # "create", x.op = "acquire" => asking2 /\ ~asking
  PROVE  Ordered(Append(c, x), f, asking2)
<1> DEFINE d == Append(c, x)
<1>1. /\ Len(c) \in Nat /\ Len(d) = Len(c) + 1 /\ d[Len(c) + 1] = x
      /\ \A i \in 1..Len(c) : d[i] = c[i]
  OBVIOUS
<1> HIDE DEF d
<1>2. x.op = "acquire" => \A i \in 1..Len(c) : c[i].op # "acquire"
  BY DEF Ordered
<1>3. ASSUME NEW i \in 1..Len(d)
      PROVE  /\ d[i].op = "create" => i = 1 /\ f.durability = "pending"
             /\ d[i].op = "acquire" => asking2 /\ \A k \in 1..Len(d) : d[k].op = "acquire" => k = i
  <2>1. CASE i = Len(c) + 1
    <3>1. d[i] = x
      BY <1>1, <2>1
    <3>2. ASSUME NEW k \in 1..Len(d), d[k].op = "acquire", x.op = "acquire" PROVE k = i
      BY <1>1, <1>2, <2>1, <3>2
    <3> QED BY <3>1, <3>2
  <2>2. CASE i \in 1..Len(c)
    <3>1. /\ c[i].op = "create" => i = 1 /\ e.durability = "pending"
          /\ c[i].op = "acquire" => asking
      BY <2>2 DEF Ordered
    <3>2. ASSUME NEW k \in 1..Len(d), d[k].op = "acquire", d[i].op = "acquire" PROVE k = i
      <4>1. x.op # "acquire"
        BY <1>1, <1>2, <2>2, <3>2
      <4>2. k \in 1..Len(c)
        BY <1>1, <3>2, <4>1
      <4> QED BY <1>1, <2>2, <3>2, <4>2 DEF Ordered
    <3>3. d[i] = c[i]
      BY <1>1, <2>2
    <3> QED BY <3>1, <3>2, <3>3
  <2> QED BY <1>1, <2>1, <2>2
<1> QED BY <1>3 DEF Ordered, d

LEMMA OrderedTail ==
  ASSUME NEW c \in Seq(Write), c # <<>>, NEW e, NEW f, NEW asking \in BOOLEAN,
         Ordered(c, e, asking)
  PROVE  /\ Ordered(Tail(c), f, asking)
         /\ c[1].op = "acquire" => Ordered(Tail(c), f, FALSE)
         /\ \A i \in 1..Len(Tail(c)) : Tail(c)[i].op # "create"
         /\ c[1].op = "create" => e.durability = "pending"
         /\ c[1].op = "acquire" => asking
<1> DEFINE d == Tail(c)
<1>1. /\ Len(c) \in Nat \ {0} /\ Len(d) = Len(c) - 1
      /\ \A i \in 1..Len(d) : d[i] = c[i + 1] /\ i + 1 \in 1..Len(c) /\ i + 1 # 1
  <2>1. Len(c) \in Nat /\ Len(c) # 0
    BY EmptySeq
  <2>2. Len(d) = Len(c) - 1 /\ \A i \in 1..Len(d) : d[i] = c[i + 1]
    BY HeadTailProperties
  <2> HIDE DEF d
  <2> QED BY <2>1, <2>2
<1> HIDE DEF d
<1>2. \A i \in 1..Len(d) : d[i].op # "create" /\ (d[i].op = "acquire" => asking)
  BY <1>1 DEF Ordered
<1>3. ASSUME NEW i \in 1..Len(d), NEW k \in 1..Len(d), d[i].op = "acquire", d[k].op = "acquire"
      PROVE  k = i
  <2>1. /\ i + 1 \in 1..Len(c) /\ k + 1 \in 1..Len(c)
        /\ c[i + 1].op = "acquire" /\ c[k + 1].op = "acquire"
    BY <1>1, <1>3
  <2>2. k + 1 = i + 1
    BY <2>1 DEF Ordered
  <2> QED BY <1>1, <2>2
<1>4. Ordered(d, f, asking)
  BY <1>2, <1>3 DEF Ordered
<1>5. c[1].op = "acquire" => \A i \in 1..Len(d) : d[i].op # "acquire"
  BY <1>1 DEF Ordered
<1>6. c[1].op = "acquire" => Ordered(d, f, FALSE)
  BY <1>4, <1>5 DEF Ordered
<1>7. /\ c[1].op = "create" => e.durability = "pending"
      /\ c[1].op = "acquire" => asking
  BY <1>1 DEF Ordered
<1> QED BY <1>2, <1>4, <1>6, <1>7 DEF d

-----------------------------------------------------------------------------
(* What a step of a handler may not take back, and what holds between two  *)
(* of them: all of Tidy but what the pump restores, save that the jobs of  *)
(* `loose` have been taken out of one collection and are in no other yet.  *)

Kept(m, n) ==
  \A j \in Job :
    /\ m.ent[j].state \in Terminal => n.ent[j].state = m.ent[j].state
    /\ m.ent[j].cancelRequested => n.ent[j].cancelRequested
    /\ LeaseLost(m.ent[j]) => LeaseLost(n.ent[j]) /\ Len(n.chain[j]) <= Len(m.chain[j])

Fit(m, loose) ==
  /\ m \in Memory
  /\ \A j \in Job : Sound(m, j)
  /\ \A j \in Job \ loose : Housed(m, j)
  /\ Slotted(m)

LEMMA KeptTransitive ==
  ASSUME NEW m \in Memory, NEW n \in Memory, NEW p \in Memory, Kept(m, n), Kept(n, p)
  PROVE  Kept(m, p)
<1> SUFFICES ASSUME NEW j \in Job
             PROVE  /\ m.ent[j].state \in Terminal => p.ent[j].state = m.ent[j].state
                    /\ m.ent[j].cancelRequested => p.ent[j].cancelRequested
                    /\ LeaseLost(m.ent[j]) =>
                         LeaseLost(p.ent[j]) /\ Len(p.chain[j]) <= Len(m.chain[j])
  BY DEF Kept
<1>1. \A x \in {m, n, p} : Len(x.chain[j]) \in Nat
  <2>1. \A x \in {m, n, p} : x.chain[j] \in Seq(Write)
    BY DEF Memory
  <2> QED BY <2>1
<1>2. /\ m.ent[j].state \in Terminal => n.ent[j].state = m.ent[j].state
      /\ m.ent[j].cancelRequested => n.ent[j].cancelRequested
      /\ LeaseLost(m.ent[j]) => LeaseLost(n.ent[j]) /\ Len(n.chain[j]) <= Len(m.chain[j])
  BY DEF Kept
<1>3. /\ n.ent[j].state \in Terminal => p.ent[j].state = n.ent[j].state
      /\ n.ent[j].cancelRequested => p.ent[j].cancelRequested
      /\ LeaseLost(n.ent[j]) => LeaseLost(p.ent[j]) /\ Len(p.chain[j]) <= Len(n.chain[j])
  BY DEF Kept
<1>4. LeaseLost(m.ent[j]) => LeaseLost(p.ent[j])
  BY <1>2, <1>3, Zenon
<1>5. LeaseLost(m.ent[j]) => Len(p.chain[j]) <= Len(m.chain[j])
  <2> DEFINE lm == Len(m.chain[j])
             ln == Len(n.chain[j])
             lp == Len(p.chain[j])
  <2>1. lm \in Nat /\ ln \in Nat /\ lp \in Nat
    BY <1>1
  <2>2. ASSUME LeaseLost(m.ent[j])
        PROVE  ln <= lm /\ lp <= ln
    BY <1>2, <1>3, <2>2, Zenon
  <2> HIDE DEF lm, ln, lp
  <2>3. ln <= lm /\ lp <= ln => lp <= lm
    BY <2>1
  <2> QED BY <2>2, <2>3 DEF lm, ln, lp
<1>6. /\ m.ent[j].state \in Terminal => p.ent[j].state = m.ent[j].state
      /\ m.ent[j].cancelRequested => p.ent[j].cancelRequested
  BY <1>2, <1>3, Zenon
<1> QED BY <1>4, <1>5, <1>6, Zenon

(* Of job k, n says what m says, or has it leave a place.                  *)
Alike(m, n, k) ==
  /\ n.ent[k].state = m.ent[k].state
  /\ n.ent[k].durability = m.ent[k].durability
  /\ n.ent[k].cancelRequested = m.ent[k].cancelRequested
  /\ n.chain[k] = m.chain[k]
  /\ k \in n.queue => k \in m.queue
  /\ k \in n.starting <=> k \in m.starting
  /\ k \in n.active => k \in m.active
  /\ k \in n.deciding => k \in m.deciding
  /\ \A b \in Beats : k \in n.beats[b].ids => k \in m.beats[b].ids

LEMMA SoundAlike ==
  ASSUME NEW m, NEW n, NEW k \in Job, Sound(m, k), Alike(m, n, k)
  PROVE  Sound(n, k)
<1>1. Ordered(n.chain[k], n.ent[k], k \in n.starting)
  BY DEF Sound, Alike, Ordered
<1> QED BY <1>1 DEF Sound, Alike

LEMMA KeptAlike ==
  ASSUME NEW m \in Memory, NEW n, \A k \in Job :
           /\ n.ent[k].state = m.ent[k].state
           /\ n.ent[k].durability = m.ent[k].durability
           /\ m.ent[k].cancelRequested => n.ent[k].cancelRequested
           /\ n.chain[k] = m.chain[k]
  PROVE  Kept(m, n)
<1>1. \A k \in Job : Len(m.chain[k]) \in Nat
  <2>1. \A k \in Job : m.chain[k] \in Seq(Write)
    BY DEF Memory
  <2> QED BY <2>1
<1> QED BY <1>1 DEF Kept, LeaseLost

(* Slots, lanes and the line are untouched.                                *)
SameSlots(m, n) ==
  /\ n.queue = m.queue /\ n.ahead = m.ahead /\ n.busy = m.busy
  /\ n.starting = m.starting /\ n.active = m.active

LEMMA SlottedSame ==
  ASSUME NEW m, NEW n, Slotted(m), SameSlots(m, n)
  PROVE  Slotted(n)
BY DEF Slotted, SameSlots, InUse

(* The fields the lemmas of JobQueueTypes do not name.                     *)
SameFlags(m, n) ==
  n.timer = m.timer /\ n.closed = m.closed /\ n.drain = m.drain /\ n.close = m.close

LEMMA PullRest ==
  ASSUME NEW m \in Memory, NEW S \in SUBSET Job
  PROVE  LET n == Pull(m, S)
         IN /\ SameFlags(m, n) /\ n.busy = m.busy
            /\ n.ahead = { p \in m.ahead : p[1] \notin S /\ p[2] \notin S }
BY DEF Pull, SameFlags, Memory

LEMMA PushRest ==
  ASSUME NEW m \in Memory, NEW j \in Job
  PROVE  LET n == Push(m, j)
         IN /\ SameFlags(m, n) /\ n.busy = m.busy
            /\ n.ahead = m.ahead \cup (m.queue \X {j})
BY DEF Push, SameFlags, Memory

LEMMA PersistRest ==
  ASSUME NEW m \in Memory, NEW S \in SUBSET Job, NEW op
  PROVE  LET n == Persist(m, S, op)
         IN SameFlags(m, n) /\ n.busy = m.busy /\ n.ahead = m.ahead
<1> DEFINE chain == Persist(m, S, op).chain
<1>1. Persist(m, S, op) = [m EXCEPT !.chain = chain]
  BY DEF Persist, Memory
<1> HIDE DEF chain
<1> QED BY <1>1 DEF SameFlags, Memory

LEMMA SettleRest ==
  ASSUME NEW m \in Memory, NEW S \in SUBSET Job, NEW state \in Terminal
  PROVE  LET n == Settle(m, S, state)
         IN SameFlags(m, n) /\ n.busy = m.busy /\ n.ahead = m.ahead
<1> DEFINE ent == [j \in Job |-> IF j \in S THEN [m.ent[j] EXCEPT !.state = state] ELSE m.ent[j]]
           n == [m EXCEPT !.ent = ent]
<1>1. Settle(m, S, state) = Persist(n, S, "remove")
  BY DEF Settle
<1>2. ent \in [Job -> Entry]
  <2>1. \A j \in Job : m.ent[j] \in Entry
    BY DEF Memory
  <2> QED BY <2>1 DEF Entry, Terminal
<1> HIDE DEF ent
<1>3. n \in Memory /\ SameFlags(m, n) /\ n.busy = m.busy /\ n.ahead = m.ahead
  BY <1>2 DEF Memory, SameFlags
<1> HIDE DEF n
<1>4. LET p == Persist(n, S, "remove")
      IN SameFlags(n, p) /\ p.busy = n.busy /\ p.ahead = n.ahead
  BY <1>3, PersistRest
<1> QED BY <1>1, <1>3, <1>4 DEF SameFlags

-----------------------------------------------------------------------------
(* The helpers.                                                            *)

LEMMA PullFits ==
  ASSUME NEW m, NEW loose, Fit(m, loose), NEW S \in SUBSET Job
  PROVE  Fit(Pull(m, S), loose \cup S) /\ Kept(m, Pull(m, S))
<1> DEFINE n == Pull(m, S)
<1>1. m \in Memory /\ n \in Memory
  BY PullType DEF Fit
<1>2. /\ AgreeAround(m, n) /\ n.ent = m.ent /\ n.chain = m.chain
      /\ n.starting = m.starting /\ n.active = m.active /\ n.deciding = m.deciding
      /\ n.queue = m.queue \ S
      /\ n.busy = m.busy /\ n.ahead = { p \in m.ahead : p[1] \notin S /\ p[2] \notin S }
  BY <1>1, PullFields, PullRest
<1> HIDE DEF n
<1>3. \A k \in Job : Sound(n, k)
  <2>1. \A k \in Job : Sound(m, k) /\ Alike(m, n, k)
    BY <1>2 DEF Fit, Alike, AgreeAround
  <2> QED BY <2>1, SoundAlike
<1>4. \A k \in Job \ (loose \cup S) : Housed(n, k)
  BY <1>2 DEF Fit, Housed
<1>5. n.ahead \subseteq n.queue \X n.queue /\ Lines(n.ahead, n.queue)
  BY <1>2, LineShrinks DEF Fit, Slotted
<1>6. Slotted(n)
  BY <1>2, <1>5 DEF Fit, Slotted, InUse
<1>7. Kept(m, n)
  BY <1>1, <1>2, KeptAlike
<1> QED BY <1>1, <1>3, <1>4, <1>6, <1>7 DEF Fit, n

LEMMA PushFits ==
  ASSUME NEW m, NEW loose, Fit(m, loose), NEW j \in Job,
         m.ent[j].state = "queued", j \notin m.queue, j \notin m.starting
  PROVE  Fit(Push(m, j), loose \ {j}) /\ Kept(m, Push(m, j))
<1> DEFINE n == Push(m, j)
<1>1. m \in Memory /\ n \in Memory
  BY PushType DEF Fit
<1>2. /\ AgreeAround(m, n) /\ n.ent = m.ent /\ n.chain = m.chain
      /\ n.starting = m.starting /\ n.active = m.active /\ n.deciding = m.deciding
      /\ n.queue = m.queue \cup {j}
      /\ n.busy = m.busy /\ n.ahead = m.ahead \cup (m.queue \X {j})
  BY <1>1, PushFields, PushRest
<1> HIDE DEF n
<1>3. \A k \in Job : Sound(n, k)
  <2>1. \A k \in Job \ {j} : Sound(m, k) /\ Alike(m, n, k)
    BY <1>2 DEF Fit, Alike, AgreeAround
  <2>2. Sound(n, j)
    <3>1. Sound(m, j)
      BY DEF Fit
    <3> QED BY <1>2, <3>1 DEF Sound, AgreeAround
  <2> QED BY <2>1, <2>2, SoundAlike
<1>4. \A k \in Job \ (loose \ {j}) : Housed(n, k)
  BY <1>2 DEF Fit, Housed
<1>5. n.ahead \subseteq n.queue \X n.queue /\ Lines(n.ahead, n.queue)
  BY <1>2, LineGrows DEF Fit, Slotted
<1>6. Slotted(n)
  BY <1>2, <1>5 DEF Fit, Slotted, InUse
<1>7. Kept(m, n)
  BY <1>1, <1>2, KeptAlike
<1> QED BY <1>1, <1>3, <1>4, <1>6, <1>7 DEF Fit, n

(* A job that settles must have been taken out of wherever it was, save    *)
(* that its lane may still be being asked for.                             *)
LEMMA SettleFits ==
  ASSUME NEW m, NEW loose, Fit(m, loose), NEW S \in SUBSET Job, NEW state \in Terminal,
         \A j \in S : /\ m.ent[j].state \in {"queued", "running"}
                      /\ j \notin m.queue \cup m.active \cup m.deciding
                      /\ state = "complete" => ~m.ent[j].cancelRequested
  PROVE  LET n == Settle(m, S, state)
         IN Fit(n, loose \ S) /\ Kept(m, n) /\ SameSlots(m, n)
<1> DEFINE n == Settle(m, S, state)
<1>1. m \in Memory /\ n \in Memory
  BY SettleType DEF Fit
<1>2. SettlesTo(m, n, S, state) /\ n.busy = m.busy /\ n.ahead = m.ahead
  BY <1>1, SettleFields, SettleRest
<1> HIDE DEF n
<1>3. ASSUME NEW k \in Job \ S PROVE Sound(n, k) /\ (Housed(m, k) => Housed(n, k))
  <2>1. Sound(m, k) /\ Alike(m, n, k)
    BY <1>2 DEF Fit, Alike, SettlesTo, AgreeAround
  <2>2. Housed(m, k) => Housed(n, k)
    BY <1>2 DEF Housed, SettlesTo
  <2> QED BY <2>1, <2>2, SoundAlike
<1>4. ASSUME NEW k \in S PROVE Sound(n, k) /\ Housed(n, k)
  <2>1. k \in Job /\ Sound(m, k) /\ m.ent[k] \in Entry /\ m.chain[k] \in Seq(Write)
    BY <1>1 DEF Fit, Memory
  <2>2. /\ n.ent[k].state = state /\ n.ent[k].durability = m.ent[k].durability
        /\ n.ent[k].cancelRequested = m.ent[k].cancelRequested
        /\ n.chain[k] \in {m.chain[k], Append(m.chain[k], Removal)}
        /\ k \notin n.queue /\ k \notin n.active /\ k \notin n.deciding
        /\ k \in n.starting <=> k \in m.starting
        /\ n.beats = m.beats
    BY <1>2, <2>1 DEF SettlesTo, Entry, AgreeAround
  <2>3. Ordered(n.chain[k], n.ent[k], k \in n.starting)
    <3>1. Ordered(m.chain[k], n.ent[k], k \in n.starting)
      BY <2>1, <2>2 DEF Sound, Ordered
    <3>2. Ordered(Append(m.chain[k], Removal), n.ent[k], k \in n.starting)
      <4> DEFINE asking == k \in n.starting  c == m.chain[k]  f == n.ent[k]
      <4>1. asking \in BOOLEAN /\ c \in Seq(Write) /\ Ordered(c, f, asking)
        BY <2>1, <3>1
      <4>2. Removal \in Write /\ Removal.op # "create" /\ Removal.op # "acquire"
        BY RemovalFields
      <4> HIDE DEF asking, c, f
      <4>3. Ordered(Append(c, Removal), f, asking)
        BY <4>1, <4>2, OrderedAppend
      <4> QED BY <4>3 DEF asking, c, f
    <3> QED BY <2>2, <3>1, <3>2
  <2>4. state # "absent" /\ state # "queued" /\ state # "running"
    BY DEF Terminal
  <2>5. Sound(n, k)
    BY <2>1, <2>2, <2>3, <2>4 DEF Sound
  <2> QED BY <2>2, <2>4, <2>5 DEF Housed
<1>5. SameSlots(m, n) /\ Slotted(n)
  BY <1>2, SlottedSame DEF Fit, SameSlots, SettlesTo
<1>6. Kept(m, n)
  <2>1. ASSUME NEW k \in Job
        PROVE  /\ m.ent[k].state \in Terminal => n.ent[k].state = m.ent[k].state
               /\ m.ent[k].cancelRequested => n.ent[k].cancelRequested
               /\ LeaseLost(m.ent[k]) =>
                    LeaseLost(n.ent[k]) /\ Len(n.chain[k]) <= Len(m.chain[k])
    <3>1. m.ent[k] \in Entry /\ Len(m.chain[k]) \in Nat
      <4>1. m.chain[k] \in Seq(Write)
        BY <1>1 DEF Memory
      <4> QED BY <1>1, <4>1 DEF Memory
    <3>2. k \in S => m.ent[k].state \notin Terminal
      BY DEF Terminal
    <3>3. /\ n.ent[k].state = IF k \in S THEN state ELSE m.ent[k].state
          /\ n.ent[k].durability = m.ent[k].durability
          /\ n.ent[k].cancelRequested = m.ent[k].cancelRequested
      BY <1>2, <3>1 DEF SettlesTo, Entry
    <3>4. LeaseLost(m.ent[k]) => n.chain[k] = m.chain[k]
      BY <1>2 DEF SettlesTo, LeaseLost
    <3> QED BY <3>1, <3>2, <3>3, <3>4 DEF LeaseLost
  <2> QED BY <2>1 DEF Kept
<1>7. \A k \in Job \ (loose \ S) : Housed(n, k)
  BY <1>3, <1>4 DEF Fit
<1> QED BY <1>1, <1>3, <1>4, <1>5, <1>6, <1>7 DEF Fit, n

(* #lose appends nothing: a lost job is not written.                       *)
Lost(m, S) == { j \in S : m.ent[j].state \in {"queued", "running"} /\ ~LeaseLost(m.ent[j]) }

LostQueued(m, S) == { j \in Lost(m, S) : m.ent[j].state = "queued" }

LEMMA LoseFields ==
  ASSUME NEW m \in Memory, NEW S \in SUBSET Job
  PROVE  LET n == Lose(m, S)
             queued == LostQueued(m, S)
         IN /\ AgreeAround(m, n) /\ SameFlags(m, n)
            /\ n.starting = m.starting /\ n.active = m.active /\ n.deciding = m.deciding
            /\ n.busy = m.busy
            /\ n.queue = m.queue \ queued
            /\ n.ahead = { p \in m.ahead : p[1] \notin queued /\ p[2] \notin queued }
            /\ \A j \in Job :
                 /\ n.chain[j] = m.chain[j]
                 /\ n.ent[j].state = IF j \in queued THEN "failed" ELSE m.ent[j].state
                 /\ n.ent[j].durability = IF j \in Lost(m, S) THEN "lost" ELSE m.ent[j].durability
                 /\ n.ent[j].cancelRequested = m.ent[j].cancelRequested
                 /\ n.ent[j].waiting = m.ent[j].waiting
<1> DEFINE lost == Lost(m, S)
           queued == LostQueued(m, S)
           ent == [j \in Job |-> IF j \in lost THEN [m.ent[j] EXCEPT !.durability = "lost"]
                                               ELSE m.ent[j]]
           marked == [m EXCEPT !.ent = ent]
           pulled == Pull(marked, queued)
           settled == Settle(pulled, queued, "failed")
<1>1. Lose(m, S) = settled
  BY DEF Lose, Lost, LostQueued
<1>2. lost \in SUBSET Job /\ queued \in SUBSET lost
  BY DEF Lost, LostQueued
<1>3. \A j \in Job : m.ent[j] \in Entry
  BY DEF Memory
<1>4. /\ ent \in [Job -> Entry]
      /\ \A j \in Job : /\ ent[j].state = m.ent[j].state
                        /\ ent[j].durability = IF j \in lost THEN "lost" ELSE m.ent[j].durability
                        /\ ent[j].cancelRequested = m.ent[j].cancelRequested
                        /\ ent[j].waiting = m.ent[j].waiting
  <2> HIDE DEF lost
  <2> QED BY <1>3 DEF Entry
<1> HIDE DEF ent, lost, queued
<1>5. /\ marked \in Memory /\ AgreeAround(m, marked) /\ SameFlags(m, marked)
      /\ marked.ent = ent /\ marked.chain = m.chain /\ marked.queue = m.queue
      /\ marked.starting = m.starting /\ marked.active = m.active
      /\ marked.deciding = m.deciding /\ marked.busy = m.busy /\ marked.ahead = m.ahead
  <2>1. marked \in Memory
    BY <1>4 DEF Memory
  <2>2. AgreeAround(m, marked) /\ SameFlags(m, marked)
    BY DEF AgreeAround, SameFlags, Memory
  <2> QED BY <2>1, <2>2 DEF Memory
<1> HIDE DEF marked
<1>6. /\ pulled \in Memory /\ AgreeAround(marked, pulled) /\ SameFlags(marked, pulled)
      /\ pulled.ent = ent /\ pulled.chain = m.chain /\ pulled.queue = m.queue \ queued
      /\ pulled.starting = m.starting /\ pulled.active = m.active
      /\ pulled.deciding = m.deciding /\ pulled.busy = m.busy
      /\ pulled.ahead = { p \in m.ahead : p[1] \notin queued /\ p[2] \notin queued }
  BY <1>2, <1>5, PullType, PullFields, PullRest
<1> HIDE DEF pulled
<1>7. /\ SettlesTo(pulled, settled, queued, "failed") /\ SameFlags(pulled, settled)
      /\ settled.busy = m.busy /\ settled.ahead = pulled.ahead
  BY <1>2, <1>6, SettleFields, SettleRest DEF Terminal
<1> HIDE DEF settled
<1>8. AgreeAround(m, settled) /\ SameFlags(m, settled)
  BY <1>5, <1>6, <1>7 DEF AgreeAround, SameFlags, SettlesTo
<1>9. ASSUME NEW j \in Job
      PROVE  /\ settled.chain[j] = m.chain[j]
             /\ settled.ent[j].state = IF j \in queued THEN "failed" ELSE m.ent[j].state
             /\ settled.ent[j].durability = IF j \in lost THEN "lost" ELSE m.ent[j].durability
             /\ settled.ent[j].cancelRequested = m.ent[j].cancelRequested
             /\ settled.ent[j].waiting = m.ent[j].waiting
  <2>1. ent[j] \in Entry
    BY <1>4
  <2>2. settled.ent[j] = IF j \in queued THEN [ent[j] EXCEPT !.state = "failed"] ELSE ent[j]
    BY <1>6, <1>7 DEF SettlesTo
  <2>3. settled.chain[j] = m.chain[j]
    BY <1>2, <1>4, <1>6, <1>7 DEF SettlesTo
  <2> QED BY <1>4, <2>1, <2>2, <2>3 DEF Entry
<1> QED BY <1>1, <1>6, <1>7, <1>8, <1>9 DEF SettlesTo, lost, queued

LEMMA LoseFits ==
  ASSUME NEW m, NEW loose, Fit(m, loose), NEW S \in SUBSET Job,
         \A j \in S : \/ m.ent[j].durability # "pending"
                      \/ \A i \in 1..Len(m.chain[j]) : m.chain[j][i].op # "create"
  PROVE  Fit(Lose(m, S), loose) /\ Kept(m, Lose(m, S))
<1> DEFINE n == Lose(m, S)
           lost == Lost(m, S)
           queued == LostQueued(m, S)
<1>1. m \in Memory /\ n \in Memory
  BY LoseType DEF Fit
<1>2. /\ AgreeAround(m, n)
      /\ n.starting = m.starting /\ n.active = m.active /\ n.deciding = m.deciding
      /\ n.busy = m.busy
      /\ n.queue = m.queue \ queued
      /\ n.ahead = { p \in m.ahead : p[1] \notin queued /\ p[2] \notin queued }
      /\ \A j \in Job :
           /\ n.chain[j] = m.chain[j]
           /\ n.ent[j].state = IF j \in queued THEN "failed" ELSE m.ent[j].state
           /\ n.ent[j].durability = IF j \in lost THEN "lost" ELSE m.ent[j].durability
           /\ n.ent[j].cancelRequested = m.ent[j].cancelRequested
  BY <1>1, LoseFields
<1> HIDE DEF n
<1>3. \A j \in queued : j \in lost /\ m.ent[j].state = "queued"
  BY DEF LostQueued
<1>4. \A j \in lost : /\ j \in S /\ m.ent[j].state \in {"queued", "running"}
                      /\ ~LeaseLost(m.ent[j])
  BY DEF Lost
<1> HIDE DEF lost, queued
<1>5. ASSUME NEW k \in Job PROVE Sound(n, k) /\ (k \notin loose => Housed(n, k))
  <2>1. Sound(m, k) /\ m.chain[k] \in Seq(Write)
    BY <1>1 DEF Fit, Memory
  <2>2. Ordered(n.chain[k], n.ent[k], k \in n.starting)
    BY <1>2, <1>4, <2>1 DEF Sound, Ordered
  <2>3. Sound(n, k)
    <3>1. k \in queued => k \notin m.active \cup m.deciding
      BY <1>3, <2>1 DEF Sound
    <3>2. \A b \in Beats : n.beats[b] = m.beats[b]
      BY <1>2 DEF AgreeAround
    <3>3. k \in lost => n.ent[k].state # "absent"
      BY <1>2, <1>4
    <3>4. k \in n.starting => n.ent[k].state \in {"queued"} \cup Terminal
                              /\ n.ent[k].durability # "pending"
      BY <1>2, <2>1 DEF Sound, Terminal
    <3> QED BY <1>2, <1>3, <1>4, <2>1, <2>2, <3>1, <3>2, <3>3, <3>4 DEF Sound
  <2>4. k \notin loose => Housed(n, k)
    BY <1>2, <1>3 DEF Fit, Housed
  <2> QED BY <2>3, <2>4
<1>6. n.ahead \subseteq n.queue \X n.queue /\ Lines(n.ahead, n.queue)
  BY <1>2, LineShrinks DEF Fit, Slotted
<1>7. Slotted(n)
  BY <1>2, <1>6 DEF Fit, Slotted, InUse
<1>8. Kept(m, n)
  <2>1. \A k \in Job : Len(m.chain[k]) \in Nat
    <3>1. \A k \in Job : m.chain[k] \in Seq(Write)
      BY <1>1 DEF Memory
    <3> QED BY <3>1
  <2> QED BY <1>2, <1>3, <1>4, <2>1 DEF Kept, LeaseLost, Terminal
<1> QED BY <1>1, <1>5, <1>7, <1>8 DEF Fit, n

-----------------------------------------------------------------------------
(* #pump.                                                                  *)

LEMMA PartsAreFinite ==
  ASSUME NEW S \in SUBSET Job
  PROVE  IsFiniteSet(S) /\ Cardinality(S) \in Nat
BY JobsAreFinite, FS_Subset, FS_CardinalityType

LEMMA UnionCount ==
  ASSUME NEW S \in SUBSET Job, NEW T \in SUBSET Job, S \cap T = {}
  PROVE  Cardinality(S \cup T) = Cardinality(S) + Cardinality(T)
<1>1. /\ IsFiniteSet(S) /\ IsFiniteSet(T) /\ Cardinality(S) \in Nat /\ Cardinality(T) \in Nat
      /\ Cardinality(S \cap T) = 0
  BY PartsAreFinite, FS_EmptySet
<1>2. Cardinality(S \cup T) = Cardinality(S) + Cardinality(T) - Cardinality(S \cap T)
  BY <1>1, FS_Union
<1> QED BY <1>1, <1>2

(* What #take finds: free slots are filled, each lane with its first job,  *)
(* and when slots are left every other candidate has its lane taken.       *)
Slots(m) == Cardinality(m.starting) + Cardinality(m.active)

LEMMA TakenFills ==
  ASSUME NEW m \in Memory, Slotted(m), NEW order, Lines(order, m.queue)
  PROVE  LET T == Taken(m, order)
         IN /\ T \in SUBSET Eligible(m)
            /\ \A i, j \in T : (i # j /\ LaneOf[i] = LaneOf[j]) => LaneOf[i] = NoLane
            /\ Slots(m) + Cardinality(T) <= Concurrency
            /\ \/ m.paused
               \/ Slots(m) + Cardinality(T) = Concurrency
               \/ \A j \in Eligible(m) \ T :
                    LaneOf[j] # NoLane /\ \E k \in T : LaneOf[k] = LaneOf[j]
<1> DEFINE E == Eligible(m)
           Behind(j, k) == <<k, j>> \in order /\ LaneOf[j] # NoLane /\ LaneOf[k] = LaneOf[j]
           first == { j \in E : \A k \in E : <<k, j>> \in order =>
                                  LaneOf[j] = NoLane \/ LaneOf[k] # LaneOf[j] }
           T == Taken(m, order)
           inUse == Slots(m)
<1>1. E \in SUBSET m.queue /\ E \in SUBSET Job
  BY DEF Eligible, Memory
<1> HIDE DEF E
<1>2. first \in SUBSET E /\ first \in SUBSET Job
  BY <1>1
<1>3. inUse \in Nat /\ inUse <= Concurrency /\ Concurrency \in Nat
  <2>1. m.starting \in SUBSET Job /\ m.active \in SUBSET Job
    BY DEF Memory
  <2>2. Cardinality(m.starting) \in Nat /\ Cardinality(m.active) \in Nat
    BY <2>1, PartsAreFinite
  <2> QED BY <2>2, ConcurrencyAssumption DEF Slotted, Slots
<1>4. Lines(order, E) /\ Lines(order, first)
  BY <1>1, <1>2, LinePart
<1>5. \A i, j \in first : (i # j /\ LaneOf[i] = LaneOf[j]) => LaneOf[i] = NoLane
  BY <1>4 DEF Lines
<1>6. ASSUME NEW j \in E, j \notin first
      PROVE  LaneOf[j] # NoLane /\ \E k \in first : LaneOf[k] = LaneOf[j]
  <2> DEFINE G == { k \in E : LaneOf[k] = LaneOf[j] }
             H == { k \in G : Cardinality({ i \in G : <<i, k>> \in order }) < 1 }
  <2>1. LaneOf[j] # NoLane /\ j \in G /\ G \in SUBSET E
    BY <1>6
  <2>2. IsFiniteSet(G) /\ Lines(order, G)
    BY <1>1, <1>4, <2>1, LinePart, PartsAreFinite
  <2> HIDE DEF G
  <2>3. H = G \/ Cardinality(H) = 1
    BY <2>2, FirstOfLine
  <2>4. PICK k \in G : Cardinality({ i \in G : <<i, k>> \in order }) < 1
    <3>1. H # {}
      <4> HIDE DEF H
      <4> QED BY <2>1, <2>3, FS_EmptySet
    <3> QED BY <3>1
  <2> DEFINE B == { i \in G : <<i, k>> \in order }
  <2>5. B \in SUBSET Job
    BY <1>1 DEF G
  <2>6. B = {}
    <3> HIDE DEF B
    <3>1. IsFiniteSet(B) /\ Cardinality(B) \in Nat
      BY <2>5, PartsAreFinite
    <3>2. Cardinality(B) = 0
      BY <2>4, <3>1 DEF B
    <3> QED BY <3>1, <3>2, FS_EmptySet
  <2>7. k \in E /\ LaneOf[k] = LaneOf[j]
    BY DEF G
  <2>8. k \in first
    BY <2>6, <2>7 DEF G
  <2> QED BY <2>1, <2>7, <2>8
<1>7. T = { j \in first : /\ ~m.paused
                          /\ Cardinality({ k \in first : <<k, j>> \in order })
                               + Cardinality(m.active) + Cardinality(m.starting) < Concurrency }
  BY DEF Taken, E
<1> HIDE DEF T, first
<1>8. CASE m.paused
  <2>1. T = {} /\ Cardinality(T) = 0
    BY <1>7, <1>8, FS_EmptySet
  <2> QED BY <1>3, <1>8, <2>1 DEF T
<1>9. CASE ~m.paused
  <2> DEFINE c == Concurrency - inUse
             U == { j \in first : Cardinality({ k \in first : <<k, j>> \in order }) < c }
  <2>1. c \in Nat /\ inUse + c = Concurrency
    BY <1>3
  <2>2. T = U
    <3>1. ASSUME NEW j \in first
          PROVE  j \in T <=> j \in U
      <4> DEFINE B == { k \in first : <<k, j>> \in order }
                 s == Cardinality(m.starting)
                 a == Cardinality(m.active)
      <4>1. Cardinality(B) \in Nat
        BY <1>2, PartsAreFinite
      <4>2. s \in Nat /\ a \in Nat
        <5>1. m.starting \in SUBSET Job /\ m.active \in SUBSET Job
          BY DEF Memory
        <5> QED BY <5>1, PartsAreFinite
      <4>3. inUse = s + a
        BY DEF Slots
      <4>4. j \in T <=> Cardinality(B) + a + s < Concurrency
        BY <1>7, <1>9
      <4>5. j \in U <=> Cardinality(B) < c
        OBVIOUS
      <4> DEFINE b == Cardinality(B)
      <4> HIDE DEF B, b, s, a, inUse, U
      <4>6. b + a + s < Concurrency <=> b < c
        BY <1>3, <4>1, <4>2, <4>3 DEF b
      <4> QED BY <4>4, <4>5, <4>6 DEF b
    <3>2. T \in SUBSET first /\ U \in SUBSET first
      BY <1>7
    <3> QED BY <3>1, <3>2
  <2>3. IsFiniteSet(first)
    BY <1>2, PartsAreFinite
  <2> HIDE DEF c
  <2>4. Cardinality(U) \in Nat /\ Cardinality(U) <= c /\ (U = first \/ Cardinality(U) = c)
    BY <1>4, <2>1, <2>3, FirstOfLine
  <2> HIDE DEF U
  <2>5. T \in SUBSET first
    BY <1>7
  <2>6. T \in SUBSET E /\ \A i, j \in T : (i # j /\ LaneOf[i] = LaneOf[j]) => LaneOf[i] = NoLane
    BY <1>2, <1>5, <2>5
  <2>7. inUse + Cardinality(T) <= Concurrency /\ (T = first \/ inUse + Cardinality(T) = Concurrency)
    BY <1>3, <2>1, <2>2, <2>4
  <2>8. T = first => \A j \in E \ T : LaneOf[j] # NoLane /\ \E k \in T : LaneOf[k] = LaneOf[j]
    BY <1>6
  <2> QED BY <2>6, <2>7, <2>8 DEF T, E
<1> QED BY <1>8, <1>9

LEMMA StartRest ==
  ASSUME NEW m \in Memory, NEW S \in SUBSET Job
  PROVE  LET n == Start(m, S)
         IN /\ SameFlags(m, n)
            /\ n.busy = m.busy \cup LanesOf(S)
            /\ n.ahead = { p \in m.ahead : p[1] \notin S /\ p[2] \notin S }
<1> DEFINE asks == { j \in S : SharesLanes(m, j) }
           goes == S \ asks
           ent == [j \in Job |-> IF j \in goes THEN Running(m.ent[j]) ELSE m.ent[j]]
           begun == [m EXCEPT !.ent = ent]
           saved == Persist(begun, goes, "save")
           chain == [j \in Job |->
                  IF j \in asks
                  THEN Append(saved.chain[j], Snapshot(Running(m.ent[j]), "acquire"))
                  ELSE saved.chain[j]]
           claim == [saved EXCEPT !.chain = chain]
           pulled == Pull(claim, S)
           started == [pulled EXCEPT !.starting = @ \cup asks,
                                     !.active = @ \cup goes,
                                     !.busy = @ \cup LanesOf(S)]
<1>1. asks \in SUBSET Job /\ goes \in SUBSET Job
  OBVIOUS
<1>2. \A j \in Job : m.ent[j] \in Entry /\ Running(m.ent[j]) \in Entry
  BY RunningFields DEF Memory
<1>3. Start(m, S) = started
  BY DEF Start
<1>4. ent \in [Job -> Entry]
  BY <1>2
<1> HIDE DEF ent, goes, asks
<1>5. begun \in Memory /\ SameFlags(m, begun) /\ begun.busy = m.busy /\ begun.ahead = m.ahead
  BY <1>4 DEF Memory, SameFlags
<1> HIDE DEF begun
<1>6. /\ saved \in Memory /\ SameFlags(begun, saved)
      /\ saved.busy = begun.busy /\ saved.ahead = begun.ahead
  BY <1>1, <1>5, PersistType, PersistRest
<1>7. chain \in [Job -> Seq(Write)]
  <2> HIDE DEF saved
  <2>1. ASSUME NEW j \in Job PROVE chain[j] \in Seq(Write)
    <3>1. Snapshot(Running(m.ent[j]), "acquire") \in Write
      BY <1>2, SnapshotType
    <3>2. saved.chain[j] \in Seq(Write)
      BY <1>6 DEF Memory
    <3> QED BY <3>1, <3>2
  <2> QED BY <2>1
<1> HIDE DEF saved, chain
<1>8. claim \in Memory /\ SameFlags(saved, claim) /\ claim.busy = saved.busy /\ claim.ahead = saved.ahead
  BY <1>6, <1>7 DEF Memory, SameFlags
<1> HIDE DEF claim
<1>9. /\ pulled \in Memory /\ SameFlags(claim, pulled) /\ pulled.busy = claim.busy
      /\ pulled.ahead = { p \in claim.ahead : p[1] \notin S /\ p[2] \notin S }
  BY <1>8, PullType, PullRest
<1> HIDE DEF pulled
<1>10. /\ SameFlags(pulled, started) /\ started.busy = pulled.busy \cup LanesOf(S)
       /\ started.ahead = pulled.ahead
  BY <1>9 DEF Memory, SameFlags
<1> HIDE DEF started
<1>11. SameFlags(m, started)
  BY <1>5, <1>6, <1>8, <1>9, <1>10 DEF SameFlags
<1> QED BY <1>3, <1>5, <1>6, <1>8, <1>9, <1>10, <1>11

LEMMA StartFits ==
  ASSUME NEW m, Fit(m, {}), NEW order, Lines(order, m.queue)
  PROVE  LET n == Start(m, Taken(m, order))
         IN Fit(n, {}) /\ Kept(m, n) /\ Conserving(n)
<1> DEFINE T == Taken(m, order)
           n == Start(m, T)
           asks == Asks(m, T)
           goes == T \ asks
<1>1. m \in Memory /\ Slotted(m) /\ \A k \in Job : Sound(m, k) /\ Housed(m, k)
  BY DEF Fit
<1>2. /\ T \in SUBSET Eligible(m)
      /\ \A i, j \in T : (i # j /\ LaneOf[i] = LaneOf[j]) => LaneOf[i] = NoLane
      /\ Slots(m) + Cardinality(T) <= Concurrency
      /\ \/ m.paused
         \/ Slots(m) + Cardinality(T) = Concurrency
         \/ \A j \in Eligible(m) \ T :
              LaneOf[j] # NoLane /\ \E k \in T : LaneOf[k] = LaneOf[j]
  BY <1>1, TakenFills
<1> HIDE DEF T
<1>3. m.queue \in SUBSET Job /\ m.starting \in SUBSET Job /\ m.active \in SUBSET Job
  BY <1>1 DEF Memory
<1>4. /\ T \in SUBSET Job /\ asks \in SUBSET T /\ asks \in SUBSET Job
      /\ goes \in SUBSET T /\ goes \in SUBSET Job
  BY <1>2, <1>3 DEF Eligible, Asks
<1>5. \A j \in T : /\ j \in m.queue /\ m.ent[j].durability # "pending"
                   /\ LaneOf[j] \notin m.busy /\ ~m.ent[j].waiting
                   /\ m.ent[j].state = "queued"
                   /\ j \notin m.starting /\ j \notin m.active /\ j \notin m.deciding
  BY <1>1, <1>2, <1>3 DEF Eligible, Sound
<1>6. n \in Memory
  BY <1>1, <1>4, StartType
<1>7. /\ AgreeAround(m, n)
      /\ n.queue = m.queue \ T
      /\ n.starting = m.starting \cup asks
      /\ n.active = m.active \cup goes
      /\ n.deciding = m.deciding
      /\ \A j \in Job :
           /\ n.ent[j] = IF j \in goes THEN Running(m.ent[j]) ELSE m.ent[j]
           /\ n.chain[j] =
                IF j \in asks
                THEN Append(m.chain[j], Snapshot(Running(m.ent[j]), "acquire"))
                ELSE IF j \in goes /\ m.ent[j].durability \notin {"none", "lost"}
                THEN Append(m.chain[j], Snapshot(Running(m.ent[j]), "save"))
                ELSE m.chain[j]
      /\ n.busy = m.busy \cup LanesOf(T)
      /\ n.ahead = { p \in m.ahead : p[1] \notin T /\ p[2] \notin T }
  BY <1>1, <1>4, StartFields, StartRest
<1> HIDE DEF n
<1>8. ASSUME NEW k \in Job
      PROVE  /\ m.ent[k] \in Entry /\ m.chain[k] \in Seq(Write)
             /\ n.ent[k].durability = m.ent[k].durability
             /\ n.ent[k].cancelRequested = m.ent[k].cancelRequested
             /\ n.ent[k].state = IF k \in goes THEN "running" ELSE m.ent[k].state
             /\ k \notin goes => n.ent[k].waiting = m.ent[k].waiting
             /\ \A op \in {"save", "acquire"} :
                  LET x == Snapshot(Running(m.ent[k]), op)
                  IN x \in Write /\ x.op = op
  <2>1. m.ent[k] \in Entry /\ m.chain[k] \in Seq(Write)
    BY <1>1 DEF Memory
  <2>2. /\ Running(m.ent[k]) \in Entry /\ Running(m.ent[k]).state = "running"
        /\ Running(m.ent[k]).durability = m.ent[k].durability
    BY <2>1, RunningFields
  <2>3. Running(m.ent[k]).cancelRequested = m.ent[k].cancelRequested
    BY <2>1 DEF Running, Entry
  <2>4. \A op \in {"save", "acquire"} :
          LET x == Snapshot(Running(m.ent[k]), op) IN x \in Write /\ x.op = op
    BY <2>2, SnapshotFields
  <2> HIDE DEF asks, goes
  <2> QED BY <1>7, <2>1, <2>2, <2>3, <2>4
<1>9. ASSUME NEW k \in Job \ T PROVE Sound(n, k) /\ Housed(n, k)
  <2>1. k \notin asks /\ k \notin goes
    BY <1>4
  <2>2. Alike(m, n, k)
    BY <1>7, <1>8, <2>1 DEF Alike, AgreeAround
  <2>3. Housed(n, k)
    BY <1>1, <1>7, <1>8, <2>1 DEF Housed
  <2> QED BY <1>1, <2>2, <2>3, SoundAlike
<1>10. ASSUME NEW k \in T PROVE Sound(n, k) /\ Housed(n, k)
  <2> DEFINE asking == k \in asks
             c == m.chain[k]
             f == n.ent[k]
             d == n.chain[k]
  <2>1. k \in Job /\ Sound(m, k) /\ (k \in goes <=> ~asking)
    BY <1>1, <1>4
  <2>2. asking => m.ent[k].durability = "stored"
    BY DEF Asks, SharesLanes
  <2>3. /\ k \notin n.queue /\ k \notin n.deciding
        /\ k \in n.starting <=> asking
        /\ k \in n.active <=> ~asking
        /\ f.state = IF asking THEN "queued" ELSE "running"
        /\ f.durability = m.ent[k].durability
        /\ f.cancelRequested = m.ent[k].cancelRequested
        /\ n.beats = m.beats
    BY <1>5, <1>7, <1>8, <2>1 DEF AgreeAround
  <2>4. Ordered(d, f, asking)
    <3>1. Ordered(c, f, FALSE)
      BY <1>5, <2>1, <2>3 DEF Sound, Ordered
    <3>2. PICK x \in Write : /\ x.op = IF asking THEN "acquire" ELSE "save"
                             /\ d = Append(c, x) \/ (~asking /\ d = c)
      <4> DEFINE x == Snapshot(Running(m.ent[k]), IF asking THEN "acquire" ELSE "save")
      <4>1. x \in Write /\ x.op = IF asking THEN "acquire" ELSE "save"
        BY <1>8, <2>1
      <4>2. d = Append(c, x) \/ (~asking /\ d = c)
        BY <1>7, <2>1
      <4> HIDE DEF x
      <4> QED BY <4>1, <4>2
    <3>3. asking \in BOOLEAN /\ c \in Seq(Write)
      BY <1>8, <2>1
    <3> HIDE DEF asking, c, d, f
    <3>4. Ordered(Append(c, x), f, asking)
      BY <3>1, <3>2, <3>3, OrderedAppend
    <3>5. ~asking => Ordered(c, f, asking)
      BY <3>1 DEF Ordered
    <3> QED BY <3>2, <3>4, <3>5
  <2>5. ~m.ent[k].cancelRequested
    BY <1>5, <2>1 DEF Sound
  <2>6. Sound(n, k)
    BY <1>5, <2>1, <2>2, <2>3, <2>4, <2>5 DEF Sound
  <2>7. Housed(n, k)
    BY <2>3 DEF Housed
  <2> QED BY <2>6, <2>7
<1>11. InUse(n) = InUse(m) \cup T /\ InUse(m) \cap T = {}
  BY <1>4, <1>5, <1>7 DEF InUse
<1>12. n.busy = LanesOf(InUse(n))
  <2>1. m.busy = LanesOf(InUse(m))
    BY <1>1 DEF Slotted
  <2> QED BY <1>7, <1>11, <2>1 DEF LanesOf
<1>13. Slots(n) = Slots(m) + Cardinality(T)
  <2>1. /\ m.starting \cap asks = {} /\ m.active \cap goes = {}
        /\ asks \cap goes = {} /\ T = asks \cup goes
    BY <1>4, <1>5
  <2>2. /\ Cardinality(m.starting \cup asks) = Cardinality(m.starting) + Cardinality(asks)
        /\ Cardinality(m.active \cup goes) = Cardinality(m.active) + Cardinality(goes)
        /\ Cardinality(T) = Cardinality(asks) + Cardinality(goes)
    <3> HIDE DEF asks, goes
    <3> QED BY <1>3, <1>4, <2>1, UnionCount
  <2>3. /\ Cardinality(m.starting) \in Nat /\ Cardinality(asks) \in Nat
        /\ Cardinality(m.active) \in Nat /\ Cardinality(goes) \in Nat
    <3> HIDE DEF asks, goes
    <3> QED BY <1>3, <1>4, PartsAreFinite
  <2> HIDE DEF asks, goes
  <2> QED BY <1>7, <2>2, <2>3 DEF Slots
<1>14. Slotted(n)
  <2>1. n.ahead \subseteq n.queue \X n.queue /\ Lines(n.ahead, n.queue)
    BY <1>1, <1>7, LineShrinks DEF Slotted
  <2>2. ASSUME NEW i \in InUse(n), NEW j \in InUse(n), i # j, LaneOf[i] = LaneOf[j]
        PROVE  LaneOf[i] = NoLane
    <3>1. \A h \in InUse(m) : LaneOf[h] = NoLane \/ LaneOf[h] \in m.busy
      BY <1>1 DEF Slotted, LanesOf
    <3>2. CASE i \in T /\ j \in T
      BY <1>2, <2>2, <3>2
    <3>3. CASE i \in InUse(m) /\ j \in InUse(m)
      BY <1>1, <2>2, <3>3 DEF Slotted
    <3>4. CASE (i \in T) # (j \in T)
      BY <1>5, <1>11, <2>2, <3>1, <3>4
    <3> QED BY <1>11, <3>2, <3>3, <3>4
  <2>3. Slots(n) <= Concurrency
    BY <1>2, <1>13
  <2> QED BY <1>12, <2>1, <2>2, <2>3 DEF Slotted, Slots
<1>15. Conserving(n)
  <2>1. ASSUME ~n.paused, Slots(n) # Concurrency, NEW j \in Eligible(n)
        PROVE  FALSE
    <3>1. j \in n.queue /\ n.ent[j].durability # "pending"
          /\ LaneOf[j] \notin n.busy /\ ~n.ent[j].waiting
      BY DEF Eligible
    <3>2. j \in Job /\ j \in m.queue /\ j \notin T
      BY <1>3, <1>7, <3>1
    <3>3. j \in Eligible(m)
      BY <1>4, <1>7, <1>8, <3>1, <3>2 DEF Eligible
    <3>4. LaneOf[j] # NoLane /\ \E k \in T : LaneOf[k] = LaneOf[j]
      BY <1>2, <1>7, <1>13, <2>1, <3>2, <3>3 DEF AgreeAround
    <3>5. LaneOf[j] \in n.busy
      BY <1>7, <3>4 DEF LanesOf
    <3> QED BY <3>1, <3>5
  <2>2. Slots(n) \in Nat /\ Concurrency \in Nat
    <3>1. n.starting \in SUBSET Job /\ n.active \in SUBSET Job
      BY <1>6 DEF Memory
    <3>2. Cardinality(n.starting) \in Nat /\ Cardinality(n.active) \in Nat
      BY <3>1, PartsAreFinite
    <3> QED BY <3>2, ConcurrencyAssumption DEF Slots
  <2> QED BY <2>1, <2>2 DEF Conserving, Slots
<1>16. Kept(m, n)
  <2>1. ASSUME NEW k \in Job
        PROVE  /\ m.ent[k].state \in Terminal => n.ent[k].state = m.ent[k].state
               /\ m.ent[k].cancelRequested => n.ent[k].cancelRequested
               /\ LeaseLost(m.ent[k]) =>
                    LeaseLost(n.ent[k]) /\ Len(n.chain[k]) <= Len(m.chain[k])
    <3>1. k \in goes => m.ent[k].state \notin Terminal
      BY <1>4, <1>5 DEF Terminal
    <3>2. LeaseLost(m.ent[k]) => n.chain[k] = m.chain[k]
      BY <1>4, <1>7 DEF LeaseLost, Asks, SharesLanes
    <3>3. Len(m.chain[k]) \in Nat
      BY <1>8
    <3> HIDE DEF goes, asks
    <3> QED BY <1>8, <3>1, <3>2, <3>3 DEF LeaseLost
  <2> QED BY <2>1 DEF Kept
<1> QED BY <1>6, <1>9, <1>10, <1>14, <1>15, <1>16 DEF Fit, n, T

(* A change of what concerns no single job.                                *)
LEMMA FlagsFit ==
  ASSUME NEW m, NEW loose, Fit(m, loose), NEW n \in Memory, SameSlots(m, n),
         n.deciding = m.deciding, \A k \in Job : Alike(m, n, k)
  PROVE  Fit(n, loose) /\ Kept(m, n)
<1>1. m \in Memory
  BY DEF Fit
<1>2. \A k \in Job : Sound(n, k)
  BY SoundAlike DEF Fit
<1>3. \A k \in Job \ loose : Housed(n, k)
  BY DEF Fit, Housed, SameSlots, Alike
<1>4. Slotted(n)
  BY SlottedSame DEF Fit
<1>5. Kept(m, n)
  BY <1>1, KeptAlike DEF Alike
<1> QED BY <1>2, <1>3, <1>4, <1>5 DEF Fit

LEMMA ConservingSame ==
  ASSUME NEW m, NEW n, Conserving(m), n.deciding = m.deciding, m.paused => n.paused,
         n.queue \subseteq m.queue, n.busy = m.busy, n.starting = m.starting, n.active = m.active,
         \A k \in n.queue : n.ent[k].durability # "pending" /\ ~n.ent[k].waiting
                              => m.ent[k].durability # "pending" /\ ~m.ent[k].waiting
  PROVE  Conserving(n)
<1>1. Eligible(n) \subseteq Eligible(m)
  BY DEF Eligible
<1> QED BY <1>1 DEF Conserving

LEMMA AgreeFits ==
  ASSUME NEW m, NEW loose, Fit(m, loose), NEW n \in Memory, Agree(m, n),
         n.ahead = m.ahead, n.busy = m.busy
  PROVE  Fit(n, loose) /\ Kept(m, n) /\ (Conserving(m) => Conserving(n))
<1>1. SameSlots(m, n) /\ n.deciding = m.deciding /\ \A k \in Job : Alike(m, n, k)
  BY DEF Agree, SameSlots, Alike
<1>2. Fit(n, loose) /\ Kept(m, n)
  BY <1>1, FlagsFit
<1>3. Conserving(m) => Conserving(n)
  BY <1>1, ConservingSame DEF Agree, SameSlots
<1> QED BY <1>2, <1>3

LEMMA CheckIdleRest ==
  ASSUME NEW m \in Memory
  PROVE  LET n == CheckIdle(m)
         IN /\ n.ahead = m.ahead /\ n.busy = m.busy
            /\ n.timer = m.timer /\ n.closed = m.closed
            /\ Idle(n) => n.drain # "waiting" /\ n.close # "waiting"
<1> DEFINE drain == IF m.drain = "waiting" THEN "resolved" ELSE m.drain
           close == IF m.close = "waiting" THEN "resolved" ELSE m.close
           n == CheckIdle(m)
<1>1. n = IF Idle(m) THEN [m EXCEPT !.drain = drain, !.close = close] ELSE m
  BY DEF CheckIdle, Memory
<1>2. drain # "waiting" /\ close # "waiting"
  OBVIOUS
<1> HIDE DEF drain, close
<1>3. Agree(m, n)
  BY CheckIdleAgrees
<1>4. Idle(n) <=> Idle(m)
  BY <1>3 DEF Idle, Agree, Writing
<1>5. /\ n.ahead = m.ahead /\ n.busy = m.busy /\ n.timer = m.timer /\ n.closed = m.closed
      /\ Idle(m) => n.drain = drain /\ n.close = close
  BY <1>1 DEF Memory
<1> QED BY <1>2, <1>4, <1>5

LEMMA ScheduleHeartbeatRest ==
  ASSUME NEW m \in Memory
  PROVE  LET n == ScheduleHeartbeat(m)
         IN /\ n.ahead = m.ahead /\ n.busy = m.busy
            /\ n.closed = m.closed /\ n.drain = m.drain /\ n.close = m.close
            /\ Renewing(n)
            /\ m.timer => n.timer
<1> DEFINE n == ScheduleHeartbeat(m)
           due == Mode = "leased" /\ ~m.closed /\ (Held(m) # {} \/ ~m.paused)
<1>1. n = IF due THEN [m EXCEPT !.timer = TRUE] ELSE m
  BY DEF ScheduleHeartbeat
<1> HIDE DEF due
<1>2. /\ n.ahead = m.ahead /\ n.busy = m.busy
      /\ n.closed = m.closed /\ n.drain = m.drain /\ n.close = m.close
      /\ due => n.timer
      /\ m.timer => n.timer
  BY <1>1 DEF Memory
<1>3. Held(n) = Held(m)
  <2>1. n.ent = m.ent
    BY ScheduleHeartbeatAgrees DEF Agree
  <2> QED BY <2>1 DEF Held
<1> HIDE DEF n
<1>4. Renewing(n)
  BY <1>2, <1>3 DEF Renewing, due
<1> QED BY <1>2, <1>4 DEF n

LEMMA HeldAlike ==
  ASSUME NEW m, NEW n, \A k \in Job : n.ent[k].state = m.ent[k].state
                                      /\ n.ent[k].durability = m.ent[k].durability
  PROVE  Held(n) = Held(m)
BY DEF Held

(* The two ends of a pump.                                                 *)
LEMMA EndTidies ==
  ASSUME NEW m, Fit(m, {}), Conserving(m)
  PROVE  LET n == CheckIdle(ScheduleHeartbeat(m))
         IN Tidy(n) /\ n \in Memory /\ Kept(m, n)
<1> DEFINE beating == ScheduleHeartbeat(m)
           n == CheckIdle(beating)
<1>1. m \in Memory /\ beating \in Memory /\ n \in Memory
  BY ScheduleHeartbeatType, CheckIdleType DEF Fit
<1>2. Fit(beating, {}) /\ Kept(m, beating) /\ Conserving(beating) /\ Renewing(beating)
  BY <1>1, AgreeFits, ScheduleHeartbeatAgrees, ScheduleHeartbeatRest
<1> HIDE DEF beating
<1>3. /\ Agree(beating, n) /\ n.ahead = beating.ahead /\ n.busy = beating.busy
      /\ n.timer = beating.timer /\ n.closed = beating.closed
      /\ Idle(n) => n.drain # "waiting" /\ n.close # "waiting"
  BY <1>1, CheckIdleAgrees, CheckIdleRest
<1>4. Fit(n, {}) /\ Kept(beating, n) /\ Conserving(n)
  BY <1>1, <1>2, <1>3, AgreeFits
<1> HIDE DEF n
<1>5. Renewing(n)
  BY <1>2, <1>3 DEF Renewing, Agree, Held
<1>6. Reported(n)
  BY <1>3 DEF Reported
<1>7. Tidy(n)
  BY <1>4, <1>5, <1>6 DEF Tidy, Fit
<1>8. Kept(m, n)
  BY <1>1, <1>2, <1>4, KeptTransitive
<1> QED BY <1>1, <1>7, <1>8 DEF n, beating

LEMMA ChoiceTidies ==
  ASSUME NEW m, Fit(m, {}), NEW order, Lines(order, m.queue)
  PROVE  LET n == CheckIdle(ScheduleHeartbeat(Start(m, Taken(m, order))))
         IN Tidy(n) /\ n \in Memory /\ Kept(m, n)
<1> DEFINE s == Start(m, Taken(m, order))
           n == CheckIdle(ScheduleHeartbeat(s))
<1>1. Fit(s, {}) /\ Kept(m, s) /\ Conserving(s)
  BY StartFits
<1> HIDE DEF s
<1>2. Tidy(n) /\ n \in Memory /\ Kept(s, n)
  BY <1>1, EndTidies
<1> HIDE DEF n
<1>3. m \in Memory /\ s \in Memory
  BY <1>1 DEF Fit
<1>4. Kept(m, n)
  BY <1>1, <1>2, <1>3, KeptTransitive
<1> QED BY <1>2, <1>4 DEF n, s

LEMMA PriorityLine ==
  ASSUME NEW m \in Memory, Lines(m.ahead, m.queue)
  PROVE  Lines(ByPriority(m), m.queue)
<1>1. m.queue \in SUBSET Job
  BY DEF Memory
<1>2. \A j \in m.queue : Priority[j] \in Nat
  BY <1>1, PriorityAssumption
<1> DEFINE R == ByPriority(m)
<1>3. \A i, j \in m.queue :
        <<i, j>> \in R <=> \/ Priority[i] > Priority[j]
                           \/ Priority[i] = Priority[j] /\ <<i, j>> \in m.ahead
  BY DEF ByPriority
<1> HIDE DEF R
<1>4. ASSUME NEW i \in m.queue PROVE <<i, i>> \notin R
  <2>1. <<i, i>> \notin m.ahead /\ Priority[i] \in Nat
    BY <1>2 DEF Lines
  <2>2. ~(Priority[i] > Priority[i])
    BY <2>1
  <2> QED BY <1>3, <2>1, <2>2
<1>5. ASSUME NEW i \in m.queue, NEW j \in m.queue, i # j
      PROVE  <<i, j>> \in R \/ <<j, i>> \in R
  <2>1. <<i, j>> \in m.ahead \/ <<j, i>> \in m.ahead
    BY <1>5 DEF Lines
  <2> QED BY <1>2, <1>3, <2>1
<1>6. ASSUME NEW i \in m.queue, NEW j \in m.queue, NEW k \in m.queue,
             <<i, j>> \in R, <<j, k>> \in R
      PROVE  <<i, k>> \in R
  <2>1. (<<i, j>> \in m.ahead /\ <<j, k>> \in m.ahead) => <<i, k>> \in m.ahead
    BY DEF Lines
  <2> QED BY <1>2, <1>3, <1>6, <2>1
<1> QED BY <1>4, <1>5, <1>6 DEF Lines, R

LEMMA PumpTidies ==
  ASSUME NEW m, Fit(m, {})
  PROVE  Tidy(Pump(m)) /\ Pump(m) \in Memory /\ Kept(m, Pump(m))
<1>1. Lines(ByPriority(m), m.queue)
  BY PriorityLine DEF Fit, Slotted
<1> QED BY <1>1, ChoiceTidies DEF Pump

(* #restore: the batch joins the line behind what is queued, and the order *)
(* of its pumps is a line too.                                             *)
LEMMA BatchLine ==
  ASSUME NEW R, NEW Q, NEW S, NEW age, R \subseteq Q \X Q, Lines(R, Q), Q \cap S = {},
         age \in AgeOrders(S)
  PROVE  LET Rs == R \cup (Q \X S) \cup age
         IN Rs \subseteq (Q \cup S) \X (Q \cup S) /\ Lines(Rs, Q \cup S)
<1> DEFINE Rs == R \cup (Q \X S) \cup age
           Qs == Q \cup S
<1>1. /\ age \subseteq S \X S
      /\ \A i, j \in S : (i # j) <=> (<<i, j>> \in age \/ <<j, i>> \in age)
      /\ \A i, j \in S : ~(<<i, j>> \in age /\ <<j, i>> \in age)
      /\ \A i, j, k \in S : <<i, j>> \in age /\ <<j, k>> \in age => <<i, k>> \in age
  BY DEF AgeOrders
<1>2. \A i, j : <<i, j>> \in Rs <=> \/ <<i, j>> \in R
                                    \/ i \in Q /\ j \in S
                                    \/ <<i, j>> \in age
  OBVIOUS
<1>3. /\ \A i, j : <<i, j>> \in R => i \in Q /\ j \in Q /\ i \notin S /\ j \notin S
      /\ \A i, j : <<i, j>> \in age => i \in S /\ j \in S /\ i \notin Q /\ j \notin Q
      /\ \A i \in Q : i \notin S
  BY <1>1
<1>4. Rs \subseteq Qs \X Qs
  BY <1>1
<1> HIDE DEF Rs
<1>5. \A i \in Qs : <<i, i>> \notin Rs
  BY <1>1, <1>2, <1>3 DEF Lines
<1>6. ASSUME NEW i \in Qs, NEW j \in Qs, i # j PROVE <<i, j>> \in Rs \/ <<j, i>> \in Rs
  <2>1. CASE i \in Q /\ j \in Q
    BY <1>2, <1>6, <2>1 DEF Lines
  <2>2. CASE i \in S /\ j \in S
    BY <1>1, <1>2, <1>6, <2>2
  <2>3. CASE (i \in Q /\ j \in S) \/ (i \in S /\ j \in Q)
    BY <1>2, <2>3
  <2> QED BY <2>1, <2>2, <2>3
<1>7. ASSUME NEW i \in Qs, NEW j \in Qs, NEW k \in Qs, <<i, j>> \in Rs, <<j, k>> \in Rs
      PROVE  <<i, k>> \in Rs
  <2>1. CASE k \in Q
    <3>1. <<j, k>> \in R /\ j \in Q
      BY <1>2, <1>3, <1>7, <2>1
    <3>2. <<i, j>> \in R /\ i \in Q
      BY <1>2, <1>3, <1>7, <3>1
    <3> QED BY <1>2, <2>1, <3>1, <3>2 DEF Lines
  <2>2. CASE k \in S /\ i \in Q
    BY <1>2, <2>2
  <2>3. CASE k \in S /\ i \in S
    <3>1. j \in S /\ <<i, j>> \in age
      BY <1>2, <1>3, <1>7, <2>3
    <3>2. <<j, k>> \in age
      BY <1>2, <1>3, <1>7, <3>1
    <3> QED BY <1>1, <1>2, <2>3, <3>1, <3>2
  <2> QED BY <2>1, <2>2, <2>3
<1> HIDE DEF Qs
<1>8. Lines(Rs, Qs)
  BY <1>5, <1>6, <1>7 DEF Lines
<1> QED BY <1>4, <1>8 DEF Rs, Qs

(* P is the order of the first pump; of the later rows, each is considered *)
(* alone, behind everything before it in A.                                *)
LEMMA LaterLine ==
  ASSUME NEW A, NEW P, NEW Q, NEW later, Lines(A, Q), Lines(P, Q),
         \A i \in Q \ later, j \in Q \cap later : <<i, j>> \in A
  PROVE  LET order == { p \in P : p[1] \notin later /\ p[2] \notin later }
                        \cup { p \in A : p[2] \in later }
         IN Lines(order, Q)
<1> DEFINE order == { p \in P : p[1] \notin later /\ p[2] \notin later }
                      \cup { p \in A : p[2] \in later }
<1>1. \A i, j \in Q : <<i, j>> \in order <=>
                        \/ <<i, j>> \in P /\ i \notin later /\ j \notin later
                        \/ <<i, j>> \in A /\ j \in later
  OBVIOUS
<1> HIDE DEF order
<1>2. \A i \in Q : <<i, i>> \notin order
  BY <1>1 DEF Lines
<1>3. ASSUME NEW i \in Q, NEW j \in Q, i # j PROVE <<i, j>> \in order \/ <<j, i>> \in order
  <2>1. /\ <<i, j>> \in A \/ <<j, i>> \in A
        /\ <<i, j>> \in P \/ <<j, i>> \in P
    BY <1>3 DEF Lines
  <2> QED BY <1>1, <2>1
<1>4. ASSUME NEW i \in Q, NEW j \in Q, NEW k \in Q, <<i, j>> \in order, <<j, k>> \in order
      PROVE  <<i, k>> \in order
  <2>1. CASE k \notin later
    BY <1>1, <1>4, <2>1 DEF Lines
  <2>2. CASE k \in later /\ i \notin later
    BY <1>1, <2>2
  <2>3. CASE k \in later /\ i \in later
    BY <1>1, <1>4, <2>3 DEF Lines
  <2> QED BY <2>1, <2>2, <2>3
<1> QED BY <1>2, <1>3, <1>4 DEF Lines, order

LEMMA RestoreFits ==
  ASSUME NEW m, Fit(m, {}), NEW claims \in Claims, NEW age \in AgeOrders(NewClaims(m, claims))
  PROVE  LET n == RestoreAll(m, claims, age)
         IN /\ Fit(n, {}) /\ Kept(m, n)
            /\ n = m \/ Tidy(n)
<1> DEFINE S == NewClaims(m, claims)
           fresh(j) == [state |-> "queued", attempt |-> claims.attempt[j],
                        waiting |-> claims.backoff[j], backoff |-> claims.backoff[j],
                        durability |-> "stored", cancelRequested |-> FALSE]
           ent == [j \in Job |-> IF j \in S THEN fresh(j) ELSE m.ent[j]]
           later == { j \in S : \E i \in S : <<i, j>> \in age }
           queue == m.queue \cup S
           ahead == m.ahead \cup (m.queue \X S) \cup age
           admitted == [m EXCEPT !.ent = ent, !.queue = queue, !.ahead = ahead]
           order == { p \in ByPriority(admitted) : p[1] \notin later /\ p[2] \notin later }
                      \cup { p \in admitted.ahead : p[2] \in later }
           n == CheckIdle(ScheduleHeartbeat(Start(admitted, Taken(admitted, order))))
<1>1. m \in Memory /\ Slotted(m) /\ \A k \in Job : Sound(m, k) /\ Housed(m, k)
  BY DEF Fit
<1>2. RestoreAll(m, claims, age) = IF S = {} THEN m ELSE n
  BY DEF RestoreAll
<1>3. S \in SUBSET Job /\ \A j \in S : m.ent[j].state = "absent"
  BY DEF NewClaims, Claims, Known
<1>4. \A j \in S : /\ j \notin m.queue /\ j \notin m.starting
                   /\ j \notin m.active /\ j \notin m.deciding
                   /\ m.chain[j] = <<>>
                   /\ m.ent[j].durability = "none" /\ ~m.ent[j].cancelRequested
  BY <1>1, <1>3 DEF Sound, Terminal
<1>5. age \subseteq S \X S
  BY DEF AgeOrders
<1>6. ent \in [Job -> Entry]
  <2>1. ASSUME NEW j \in Job PROVE fresh(j) \in Entry /\ m.ent[j] \in Entry
    BY <1>1 DEF Entry, Claims, Memory
  <2> QED BY <2>1
<1>7. \A j \in Job : ent[j] = IF j \in S THEN fresh(j) ELSE m.ent[j]
  OBVIOUS
<1>8. \A j \in S : /\ ent[j].state = "queued" /\ ent[j].durability = "stored"
                   /\ ent[j].cancelRequested = FALSE
  BY <1>3, <1>7
<1>9. /\ ahead \subseteq queue \X queue /\ Lines(ahead, queue)
      /\ m.queue \cap S = {}
  <2>1. m.queue \cap S = {}
    BY <1>4
  <2> HIDE DEF S
  <2>2. m.ahead \subseteq m.queue \X m.queue /\ Lines(m.ahead, m.queue)
    BY <1>1 DEF Slotted
  <2>3. ahead \subseteq queue \X queue /\ Lines(ahead, queue)
    BY <2>1, <2>2, BatchLine DEF S
  <2> QED BY <2>1, <2>3
<1>10. admitted \in Memory
  <2>1. m.queue \in SUBSET Job
    BY <1>1 DEF Memory
  <2>2. queue \in SUBSET Job
    BY <1>3, <2>1
  <2>3. ahead \in SUBSET (Job \X Job)
    <3> HIDE DEF ahead, queue
    <3> QED BY <1>9, <2>2
  <2> HIDE DEF ent, queue, ahead
  <2> QED BY <1>1, <1>6, <2>2, <2>3, QueueFields
<1> HIDE DEF ent, queue, ahead
<1>11. /\ admitted.ent = ent /\ admitted.queue = queue /\ admitted.ahead = ahead
       /\ admitted.starting = m.starting /\ admitted.active = m.active
       /\ admitted.deciding = m.deciding /\ admitted.chain = m.chain
       /\ admitted.busy = m.busy /\ admitted.beats = m.beats
  BY <1>1 DEF Memory
<1> HIDE DEF admitted
<1>12. ASSUME NEW k \in Job PROVE Sound(admitted, k) /\ Housed(admitted, k)
  <2>1. CASE k \in S
    <3>1. /\ admitted.ent[k].state = "queued" /\ admitted.ent[k].durability = "stored"
          /\ ~admitted.ent[k].cancelRequested
      BY <1>8, <1>11, <2>1
    <3>2. Ordered(admitted.chain[k], admitted.ent[k], k \in admitted.starting)
      BY <1>4, <1>11, <2>1 DEF Ordered
    <3>3. k \in admitted.queue
      BY <2>1, <1>11 DEF queue
    <3> QED BY <1>4, <1>11, <2>1, <3>1, <3>2, <3>3 DEF Sound, Housed
  <2>2. CASE k \notin S
    <3>1. /\ admitted.ent[k] = m.ent[k]
          /\ k \in admitted.queue <=> k \in m.queue
      BY <1>7, <1>11, <2>2 DEF queue
    <3>2. Alike(m, admitted, k)
      BY <1>11, <3>1 DEF Alike
    <3>3. Housed(admitted, k)
      BY <1>1, <1>11, <3>1 DEF Housed
    <3> QED BY <1>1, <3>2, <3>3, SoundAlike
  <2> QED BY <2>1, <2>2
<1>13. Slotted(admitted)
  BY <1>1, <1>9, <1>11 DEF Slotted, InUse
<1>14. Fit(admitted, {})
  BY <1>10, <1>12, <1>13 DEF Fit
<1>15. Kept(m, admitted)
  <2>1. ASSUME NEW k \in Job
        PROVE  /\ m.ent[k].state \in Terminal => admitted.ent[k].state = m.ent[k].state
               /\ m.ent[k].cancelRequested => admitted.ent[k].cancelRequested
               /\ LeaseLost(m.ent[k]) =>
                    LeaseLost(admitted.ent[k]) /\ Len(admitted.chain[k]) <= Len(m.chain[k])
    <3>1. k \in S => m.ent[k].state \notin Terminal /\ ~LeaseLost(m.ent[k])
      BY <1>3, <1>4 DEF Terminal, LeaseLost
    <3>2. Len(m.chain[k]) \in Nat
      <4>1. m.chain[k] \in Seq(Write)
        BY <1>1 DEF Memory
      <4> QED BY <4>1
    <3>3. k \notin S => admitted.ent[k] = m.ent[k]
      BY <1>7, <1>11
    <3> QED BY <1>4, <1>11, <3>1, <3>2, <3>3
  <2> QED BY <2>1 DEF Kept
<1>16. Lines(order, admitted.queue)
  <2>1. Lines(ByPriority(admitted), admitted.queue) /\ Lines(admitted.ahead, admitted.queue)
    BY <1>9, <1>10, <1>11, PriorityLine
  <2>2. ASSUME NEW i \in admitted.queue \ later, NEW j \in admitted.queue \cap later
        PROVE  <<i, j>> \in admitted.ahead
    <3>1. j \in S /\ (i \in m.queue \/ i \in S)
      BY <1>11 DEF queue
    <3>2. i \in S => <<i, j>> \in age
      <4>1. ASSUME i \in S PROVE i # j /\ <<j, i>> \notin age
        BY <3>1, <4>1
      <4>2. \A h, k \in S : (h # k) <=> (<<h, k>> \in age \/ <<k, h>> \in age)
        BY DEF AgeOrders
      <4> QED BY <3>1, <4>1, <4>2
    <3> QED BY <1>11, <3>1, <3>2 DEF ahead
  <2> HIDE DEF later
  <2> QED BY <2>1, <2>2, LaterLine
<1> HIDE DEF order
<1>17. Tidy(n) /\ n \in Memory /\ Kept(admitted, n)
  BY <1>14, <1>16, ChoiceTidies
<1> HIDE DEF n
<1>18. Fit(n, {}) /\ Kept(m, n)
  BY <1>1, <1>10, <1>15, <1>17, KeptTransitive DEF Fit, Tidy
<1>19. Kept(m, m)
  BY <1>1, KeptAlike
<1> QED BY <1>2, <1>17, <1>18, <1>19

-----------------------------------------------------------------------------
(* The heartbeat.                                                          *)

LEMMA BeatFits ==
  ASSUME NEW m, NEW loose, Fit(m, loose), NEW b \in Beats, NEW x \in Beat,
         \A j \in x.ids : m.ent[j].state # "absent" /\ m.ent[j].durability # "pending"
  PROVE  LET n == [m EXCEPT !.beats = [m.beats EXCEPT ![b] = x]]
         IN /\ Fit(n, loose) /\ Kept(m, n)
            /\ Conserving(m) => Conserving(n)
            /\ n.beats[b] = x /\ \A a \in Beats : a # b => n.beats[a] = m.beats[a]
            /\ SameFlags(m, n) /\ n.ent = m.ent /\ n.chain = m.chain /\ n.queue = m.queue
            /\ n.starting = m.starting /\ n.active = m.active /\ n.deciding = m.deciding
<1> DEFINE f == [m.beats EXCEPT ![b] = x]
           n == [m EXCEPT !.beats = f]
<1>1. m \in Memory /\ n \in Memory
  BY BeatField DEF Fit
<1>2. \A a \in Beats : f[a] = IF a = b THEN x ELSE m.beats[a]
  BY <1>1 DEF Memory
<1> HIDE DEF f
<1>3. /\ n.beats = f /\ n.ent = m.ent /\ n.chain = m.chain
      /\ SameSlots(m, n) /\ n.deciding = m.deciding /\ n.paused = m.paused
      /\ SameFlags(m, n)
  BY <1>1 DEF Memory, SameSlots, SameFlags
<1> HIDE DEF n
<1>4. ASSUME NEW k \in Job PROVE Sound(n, k) /\ (Housed(m, k) => Housed(n, k))
  <2>1. Sound(m, k)
    BY DEF Fit
  <2>2. \A a \in Beats : k \in n.beats[a].ids => n.ent[k].state # "absent"
                                                 /\ n.ent[k].durability # "pending"
    BY <1>2, <1>3, <2>1 DEF Sound
  <2> QED BY <1>3, <2>1, <2>2 DEF Sound, Housed, SameSlots
<1>5. Slotted(n)
  BY <1>3, SlottedSame DEF Fit
<1>6. Fit(n, loose)
  BY <1>1, <1>4, <1>5 DEF Fit
<1>7. Kept(m, n)
  BY <1>1, <1>3, KeptAlike
<1>8. Conserving(m) => Conserving(n)
  BY <1>3, ConservingSame DEF SameSlots
<1> QED BY <1>2, <1>3, <1>6, <1>7, <1>8 DEF n, f, SameSlots

LEMMA EndBeatTidies ==
  ASSUME NEW m, Fit(m, {}), NEW b \in Beats
  PROVE  Tidy(EndBeat(m, b)) /\ EndBeat(m, b) \in Memory /\ Kept(m, EndBeat(m, b))
<1> DEFINE n == [m EXCEPT !.beats = [m.beats EXCEPT ![b] = NoBeat]]
           armed == ScheduleHeartbeat(n)
<1>1. m \in Memory /\ NoBeat \in Beat /\ NoBeat.ids = {}
  BY EmptyTypes DEF NoBeat, Fit
<1>2. EndBeat(m, b) = Pump(armed)
  BY <1>1 DEF EndBeat, Memory
<1>3. Fit(n, {}) /\ Kept(m, n)
  BY <1>1, BeatFits
<1> HIDE DEF n
<1>4. n \in Memory /\ armed \in Memory
  BY <1>3, ScheduleHeartbeatType DEF Fit
<1>5. Fit(armed, {}) /\ Kept(n, armed)
  BY <1>3, <1>4, AgreeFits, ScheduleHeartbeatAgrees, ScheduleHeartbeatRest
<1> HIDE DEF armed
<1>6. Tidy(Pump(armed)) /\ Pump(armed) \in Memory /\ Kept(armed, Pump(armed))
  BY <1>5, PumpTidies
<1>7. Kept(m, armed)
  BY <1>1, <1>3, <1>4, <1>5, KeptTransitive
<1>8. Kept(m, Pump(armed))
  BY <1>1, <1>4, <1>6, <1>7, KeptTransitive
<1> QED BY <1>2, <1>6, <1>8

LEMMA AskToAdoptTidies ==
  ASSUME NEW m, Fit(m, {}), Conserving(m), NEW b \in Beats
  PROVE  Tidy(AskToAdopt(m, b)) /\ AskToAdopt(m, b) \in Memory /\ Kept(m, AskToAdopt(m, b))
<1> DEFINE x == [NoBeat EXCEPT !.phase = "adopting"]
           n == [m EXCEPT !.beats = [m.beats EXCEPT ![b] = x]]
<1>1. m \in Memory
  BY DEF Fit
<1>2. x \in Beat /\ x.phase = "adopting" /\ x.ids = {} /\ x # NoBeat
  BY DEF NoBeat, NoClaims, Beat, Claims
<1>3. AskToAdopt(m, b) = IF m.paused \/ m.closed THEN EndBeat(m, b) ELSE n
  BY <1>1 DEF AskToAdopt, Memory
<1> HIDE DEF x
<1>4. Fit(n, {}) /\ Kept(m, n) /\ Conserving(n) /\ n.beats[b] = x
  BY <1>2, BeatFits
<1> HIDE DEF n
<1>5. Tidy(n) /\ n \in Memory
  BY <1>2, <1>4 DEF Tidy, Fit, Renewing, Reported
<1> QED BY <1>3, <1>4, <1>5, EndBeatTidies

LEMMA LoseConserves ==
  ASSUME NEW m, NEW loose, Fit(m, loose), Conserving(m), NEW S \in SUBSET Job
  PROVE  Conserving(Lose(m, S)) /\ (Renewing(m) => Renewing(Lose(m, S)))
<1> DEFINE n == Lose(m, S)
<1>1. /\ AgreeAround(m, n) /\ SameFlags(m, n)
      /\ n.starting = m.starting /\ n.active = m.active /\ n.deciding = m.deciding
      /\ n.busy = m.busy
      /\ n.queue = m.queue \ LostQueued(m, S)
      /\ \A j \in Job : /\ n.ent[j].durability = IF j \in Lost(m, S) THEN "lost"
                                                 ELSE m.ent[j].durability
                        /\ n.ent[j].state = IF j \in LostQueued(m, S) THEN "failed"
                                            ELSE m.ent[j].state
                        /\ n.ent[j].waiting = m.ent[j].waiting
  BY LoseFields DEF Fit
<1> HIDE DEF n
<1>2. /\ m.queue \in SUBSET Job
      /\ \A k \in m.queue : k \in Lost(m, S) => k \in LostQueued(m, S)
  BY DEF Fit, Memory, Sound, LostQueued
<1>3. \A k \in n.queue : n.ent[k].durability # "pending" /\ ~n.ent[k].waiting
                              => m.ent[k].durability # "pending" /\ ~m.ent[k].waiting
  BY <1>1, <1>2
<1>4. Conserving(n)
  BY <1>1, <1>3, ConservingSame DEF AgreeAround
<1>5. Held(n) \subseteq Held(m)
  BY <1>1 DEF Held
<1>6. Renewing(m) => Renewing(n)
  BY <1>1, <1>5 DEF Renewing, SameFlags, AgreeAround
<1> QED BY <1>4, <1>6 DEF n

-----------------------------------------------------------------------------
(* The continuations of a store call, of the handler and of the policy.    *)

LEMMA DropFits ==
  ASSUME NEW m, NEW loose, Fit(m, loose), NEW j \in Job, m.chain[j] # <<>>
  PROVE  LET n == DropHead(m, j)
             c == m.chain[j]
         IN /\ Fit(n, loose) /\ Kept(m, n) /\ SameSlots(m, n) /\ SameFlags(m, n)
            /\ AgreeAround(m, n) /\ n.ent = m.ent /\ n.deciding = m.deciding
            /\ \A k \in Job : k # j => n.chain[k] = m.chain[k]
            /\ \A i \in 1..Len(n.chain[j]) : n.chain[j][i].op # "create"
            /\ c[1].op = "create" => m.ent[j].durability = "pending"
            /\ c[1].op = "acquire" => /\ j \in m.starting
                                      /\ Ordered(n.chain[j], n.ent[j], FALSE)
<1> DEFINE n == DropHead(m, j)
           c == m.chain[j]
<1>1. m \in Memory /\ c \in Seq(Write) /\ Sound(m, j)
  BY DEF Fit, Memory
<1>2. /\ n \in Memory /\ AgreeAround(m, n) /\ Dropped(m, n, j)
      /\ n.ent = m.ent /\ n.queue = m.queue /\ n.starting = m.starting
      /\ n.active = m.active /\ n.deciding = m.deciding
  BY <1>1, DropFields
<1>3. n.ahead = m.ahead /\ n.busy = m.busy /\ SameFlags(m, n)
  <2> DEFINE f == [m.chain EXCEPT ![j] = Tail(@)]
  <2>1. n = [m EXCEPT !.chain = f]
    BY <1>1 DEF DropHead, Memory
  <2> HIDE DEF f
  <2> QED BY <1>1, <2>1 DEF Memory, SameFlags
<1> HIDE DEF n
<1>4. /\ Ordered(n.chain[j], n.ent[j], j \in n.starting)
      /\ c[1].op = "acquire" => Ordered(n.chain[j], n.ent[j], FALSE)
      /\ \A i \in 1..Len(n.chain[j]) : n.chain[j][i].op # "create"
      /\ c[1].op = "create" => m.ent[j].durability = "pending"
      /\ c[1].op = "acquire" => j \in m.starting
      /\ Len(n.chain[j]) <= Len(c)
  <2> DEFINE asking == j \in m.starting
             e == m.ent[j]
  <2>1. Ordered(c, e, asking) /\ asking \in BOOLEAN
    BY <1>1 DEF Sound
  <2>2. n.chain[j] = Tail(c) /\ n.ent[j] = e /\ (j \in n.starting) = asking
    BY <1>2 DEF Dropped
  <2>3. Len(Tail(c)) <= Len(c)
    <3> HIDE DEF c
    <3>1. Len(c) \in Nat /\ Len(Tail(c)) = Len(c) - 1
      BY <1>1, HeadTailProperties DEF c
    <3> QED BY <3>1
  <2> HIDE DEF asking, c, e
  <2>4. /\ Ordered(Tail(c), e, asking)
        /\ c[1].op = "acquire" => Ordered(Tail(c), e, FALSE)
        /\ \A i \in 1..Len(Tail(c)) : Tail(c)[i].op # "create"
        /\ c[1].op = "create" => e.durability = "pending"
        /\ c[1].op = "acquire" => asking
    BY <1>1, <2>1, OrderedTail DEF c
  <2> QED BY <2>2, <2>3, <2>4 DEF asking, c, e
<1>5. ASSUME NEW k \in Job PROVE Sound(n, k) /\ (Housed(m, k) => Housed(n, k))
  <2>1. Sound(m, k)
    BY DEF Fit
  <2>2. Housed(m, k) => Housed(n, k)
    BY <1>2 DEF Housed
  <2>3. CASE k # j
    <3>1. Alike(m, n, k)
      BY <1>2, <2>3 DEF Alike, AgreeAround, Dropped
    <3> QED BY <2>1, <2>2, <3>1, SoundAlike
  <2>4. CASE k = j
    <3>1. m.ent[j].state # "absent"
      BY <1>1 DEF Sound
    <3> QED BY <1>2, <1>4, <2>1, <2>2, <2>4, <3>1 DEF Sound, AgreeAround
  <2> QED BY <2>3, <2>4
<1>6. SameSlots(m, n) /\ Slotted(n)
  BY <1>2, <1>3, SlottedSame DEF SameSlots, Fit
<1>7. Fit(n, loose)
  BY <1>2, <1>5, <1>6 DEF Fit
<1>8. Kept(m, n)
  <2>1. \A k \in Job : k # j => Len(n.chain[k]) <= Len(m.chain[k])
    <3>1. \A k \in Job : m.chain[k] \in Seq(Write)
      BY <1>1 DEF Memory
    <3>2. \A k \in Job : Len(m.chain[k]) \in Nat
      BY <3>1
    <3> QED BY <1>2, <3>2 DEF Dropped
  <2> QED BY <1>2, <1>4, <2>1 DEF Kept
<1> QED BY <1>2, <1>3, <1>4, <1>6, <1>7, <1>8 DEF n, Dropped

(* One job moves, and is sound where it goes.                              *)
LEMMA OneFits ==
  ASSUME NEW m, NEW loose, Fit(m, loose), NEW n \in Memory, NEW j \in Job,
         \A k \in Job : k # j => Alike(m, n, k) /\ (Housed(m, k) => Housed(n, k)),
         Sound(n, j), Slotted(n)
  PROVE  Fit(n, loose \cup {j}) /\ (Housed(n, j) => Fit(n, loose \ {j}))
<1>1. \A k \in Job : Sound(n, k)
  BY SoundAlike DEF Fit
<1> QED BY <1>1 DEF Fit

(* What a step asks of the entry it rewrites for the work to be kept.      *)
LEMMA KeptOne ==
  ASSUME NEW m \in Memory, NEW n \in Memory, NEW j \in Job,
         \A k \in Job : k # j => n.ent[k] = m.ent[k] /\ n.chain[k] = m.chain[k],
         m.ent[j].state \in Terminal => n.ent[j].state = m.ent[j].state,
         m.ent[j].cancelRequested => n.ent[j].cancelRequested,
         LeaseLost(m.ent[j]) => LeaseLost(n.ent[j]) /\ n.chain[j] = m.chain[j]
  PROVE  Kept(m, n)
<1>1. \A k \in Job : Len(m.chain[k]) \in Nat
  <2>1. \A k \in Job : m.chain[k] \in Seq(Write)
    BY DEF Memory
  <2> QED BY <2>1
<1>2. ASSUME NEW k \in Job
      PROVE  /\ m.ent[k].state \in Terminal => n.ent[k].state = m.ent[k].state
             /\ m.ent[k].cancelRequested => n.ent[k].cancelRequested
             /\ LeaseLost(m.ent[k]) =>
                  LeaseLost(n.ent[k]) /\ Len(n.chain[k]) <= Len(m.chain[k])
  BY <1>1
<1> QED BY <1>2 DEF Kept

LEMMA EntryFields ==
  ASSUME NEW m \in Memory, NEW j \in Job, NEW e \in Entry
  PROVE  LET n == [m EXCEPT !.ent = [m.ent EXCEPT ![j] = e]]
         IN /\ n \in Memory /\ AgreeAround(m, n) /\ SameFlags(m, n) /\ SameSlots(m, n)
            /\ n.chain = m.chain /\ n.deciding = m.deciding
            /\ n.ent[j] = e /\ \A k \in Job : k # j => n.ent[k] = m.ent[k]
<1> DEFINE f == [m.ent EXCEPT ![j] = e]
           n == [m EXCEPT !.ent = f]
<1>1. n \in Memory
  BY EntryField
<1>2. f[j] = e /\ \A k \in Job : k # j => f[k] = m.ent[k]
  BY DEF Memory
<1> HIDE DEF f
<1>3. /\ AgreeAround(m, n) /\ SameFlags(m, n) /\ SameSlots(m, n)
      /\ n.chain = m.chain /\ n.deciding = m.deciding /\ n.ent = f
  BY DEF Memory, AgreeAround, SameFlags, SameSlots
<1> QED BY <1>1, <1>2, <1>3 DEF f

(* A flag of one entry changes, or its creation is confirmed.              *)
LEMMA EntryFits ==
  ASSUME NEW m, NEW loose, Fit(m, loose), NEW j \in Job, NEW e \in Entry,
         e.state = m.ent[j].state,
         m.ent[j].cancelRequested => e.cancelRequested,
         e.cancelRequested => e.state \notin {"absent", "queued", "complete"},
         \/ e.durability = m.ent[j].durability
         \/ /\ m.ent[j].durability = "pending" /\ e.durability = "stored"
            /\ \A i \in 1..Len(m.chain[j]) : m.chain[j][i].op # "create"
  PROVE  LET n == [m EXCEPT !.ent = [m.ent EXCEPT ![j] = e]]
         IN Fit(n, loose) /\ Kept(m, n)
<1> DEFINE n == [m EXCEPT !.ent = [m.ent EXCEPT ![j] = e]]
<1>1. m \in Memory /\ Sound(m, j)
  BY DEF Fit
<1>2. /\ n \in Memory /\ AgreeAround(m, n) /\ SameSlots(m, n)
      /\ n.chain = m.chain /\ n.deciding = m.deciding
      /\ n.ent[j] = e /\ \A k \in Job : k # j => n.ent[k] = m.ent[k]
  BY <1>1, EntryFields
<1> HIDE DEF n
<1>3. \A k \in Job : k # j => Alike(m, n, k)
  BY <1>2 DEF Alike, AgreeAround, SameSlots
<1>4. \A k \in Job : Housed(m, k) => Housed(n, k)
  BY <1>2 DEF Housed, SameSlots
<1>5. Sound(n, j)
  <2>1. Ordered(n.chain[j], n.ent[j], j \in n.starting)
    BY <1>1, <1>2 DEF Sound, Ordered, SameSlots
  <2>2. n.beats = m.beats
    BY <1>2 DEF AgreeAround
  <2> QED BY <1>1, <1>2, <2>1, <2>2 DEF Sound, SameSlots
<1>6. Slotted(n)
  BY <1>2, SlottedSame DEF Fit
<1>7. Fit(n, loose)
  BY <1>2, <1>3, <1>4, <1>5, <1>6, SoundAlike DEF Fit
<1>8. Kept(m, n)
  BY <1>1, <1>2, KeptOne DEF LeaseLost
<1> QED BY <1>7, <1>8 DEF n

(* The slot and the lane of a job are given back.                          *)
LEMMA SlotFreed ==
  ASSUME NEW m, NEW loose, Fit(m, loose), NEW n \in Memory, NEW j \in InUse(m),
         AgreeAround(m, n), n.ent = m.ent, n.chain = m.chain,
         n.queue = m.queue, n.ahead = m.ahead, n.deciding = m.deciding,
         n.starting = m.starting \ {j}, n.active = m.active \ {j},
         n.busy = m.busy \ {LaneOf[j]},
         Ordered(m.chain[j], m.ent[j], FALSE)
  PROVE  Fit(n, loose \cup {j}) /\ Kept(m, n) /\ Slots(m) = Slots(n) + 1
<1>1. /\ m \in Memory /\ Slotted(m) /\ j \in Job /\ Sound(m, j)
      /\ m.starting \in SUBSET Job /\ m.active \in SUBSET Job
  BY DEF Fit, InUse, Memory
<1>2. \A k \in Job : k # j => Alike(m, n, k) /\ (Housed(m, k) => Housed(n, k))
  BY DEF Alike, AgreeAround, Housed
<1>3. Sound(n, j)
  <2>1. Ordered(n.chain[j], n.ent[j], j \in n.starting)
    BY DEF Ordered
  <2> QED BY <1>1, <2>1 DEF Sound, AgreeAround
<1>4. InUse(n) = InUse(m) \ {j}
  BY DEF InUse
<1>5. n.busy = LanesOf(InUse(n))
  BY <1>1, <1>4 DEF Slotted, LanesOf
<1>6. Slots(m) = Slots(n) + 1
  <2>1. ~(j \in m.starting /\ j \in m.active)
    BY <1>1 DEF Sound, Terminal
  <2>2. \A P \in {m.starting, m.active} :
          /\ Cardinality(P) \in Nat /\ Cardinality(P \ {j}) \in Nat
          /\ Cardinality(P) = IF j \in P THEN Cardinality(P \ {j}) + 1 ELSE Cardinality(P \ {j})
    <3> SUFFICES ASSUME NEW P \in SUBSET Job
                 PROVE  /\ Cardinality(P) \in Nat /\ Cardinality(P \ {j}) \in Nat
                        /\ Cardinality(P) = IF j \in P THEN Cardinality(P \ {j}) + 1
                                                       ELSE Cardinality(P \ {j})
      BY <1>1
    <3>1. /\ IsFiniteSet(P) /\ Cardinality(P) \in Nat
          /\ P \ {j} \in SUBSET Job /\ Cardinality(P \ {j}) \in Nat
      BY PartsAreFinite
    <3>2. CASE j \in P
      <4>1. Cardinality(P \ {j}) = Cardinality(P) - 1
        BY <3>1, <3>2, FS_RemoveElement
      <4> QED BY <3>1, <3>2, <4>1
    <3>3. CASE j \notin P
      <4>1. P \ {j} = P
        BY <3>3
      <4> QED BY <3>1, <3>3, <4>1
    <3> QED BY <3>2, <3>3
  <2> DEFINE s == Cardinality(m.starting)  s1 == Cardinality(m.starting \ {j})
             a == Cardinality(m.active)    a1 == Cardinality(m.active \ {j})
  <2>3. /\ s \in Nat /\ s1 \in Nat /\ a \in Nat /\ a1 \in Nat
        /\ s = IF j \in m.starting THEN s1 + 1 ELSE s1
        /\ a = IF j \in m.active THEN a1 + 1 ELSE a1
    BY <2>2
  <2>4. Slots(m) = s + a /\ Slots(n) = s1 + a1
    BY DEF Slots
  <2> HIDE DEF s, s1, a, a1
  <2> QED BY <2>1, <2>3, <2>4 DEF InUse
<1>7. Slotted(n)
  <2>1. Slots(n) <= Concurrency
    <3>1. Slots(n) \in Nat
      <4>1. n.starting \in SUBSET Job /\ n.active \in SUBSET Job
        BY DEF Memory
      <4>2. Cardinality(n.starting) \in Nat /\ Cardinality(n.active) \in Nat
        BY <4>1, PartsAreFinite
      <4> QED BY <4>2 DEF Slots
    <3>2. Slots(m) <= Concurrency
      BY <1>1 DEF Slotted, Slots
    <3> QED BY <1>6, <3>1, <3>2, ConcurrencyAssumption
  <2> QED BY <1>1, <1>4, <1>5, <2>1 DEF Slotted, Slots
<1>8. Kept(m, n)
  BY <1>1, KeptAlike
<1> QED BY <1>1, <1>2, <1>3, <1>6, <1>7, <1>8, OneFits

LEMMA ReleasedFits ==
  ASSUME NEW m, NEW loose, Fit(m, loose), NEW j \in m.active
  PROVE  LET n == Released(m, j)
         IN /\ Fit(n, loose \cup {j}) /\ Kept(m, n)
            /\ AgreeAround(m, n) /\ SameFlags(m, n) /\ n.ent = m.ent /\ n.chain = m.chain
            /\ n.queue = m.queue /\ n.starting = m.starting /\ n.deciding = m.deciding
            /\ n.active = m.active \ {j}
<1> DEFINE n == Released(m, j)
<1>1. m \in Memory /\ j \in Job /\ Sound(m, j)
  BY DEF Fit, Memory
<1>2. n \in Memory
  BY <1>1, ReleasedType
<1>3. /\ AgreeAround(m, n) /\ SameFlags(m, n) /\ n.ent = m.ent /\ n.chain = m.chain
      /\ n.queue = m.queue /\ n.ahead = m.ahead
      /\ n.starting = m.starting /\ n.deciding = m.deciding
      /\ n.active = m.active \ {j} /\ n.busy = m.busy \ {LaneOf[j]}
  BY <1>1 DEF Released, AgreeAround, SameFlags, Memory
<1> HIDE DEF n
<1>4. j \notin m.starting /\ j \in InUse(m)
  BY <1>1 DEF Sound, Terminal, InUse
<1>5. Ordered(m.chain[j], m.ent[j], FALSE)
  BY <1>1, <1>4 DEF Sound, Ordered
<1>6. n.starting = m.starting \ {j}
  BY <1>3, <1>4
<1>7. Fit(n, loose \cup {j}) /\ Kept(m, n)
  BY <1>2, <1>3, <1>4, <1>5, <1>6, SlotFreed
<1> QED BY <1>3, <1>7 DEF n

(* A chain with nothing but saves and removals in it.                      *)
OnlyWrites(c) == \A i \in 1..Len(c) : c[i].op \notin {"create", "acquire"}

Freed(m, j) == [m EXCEPT !.starting = @ \ {j}, !.busy = @ \ {LaneOf[j]}]

LEMMA FreedFits ==
  ASSUME NEW m, NEW loose, Fit(m, loose), NEW j \in m.starting,
         OnlyWrites(m.chain[j])
  PROVE  LET n == Freed(m, j)
         IN /\ Fit(n, loose \cup {j}) /\ Kept(m, n) /\ Slots(m) = Slots(n) + 1
            /\ AgreeAround(m, n) /\ SameFlags(m, n) /\ n.ent = m.ent /\ n.chain = m.chain
            /\ n.queue = m.queue /\ n.starting = m.starting \ {j}
            /\ n.active = m.active /\ n.deciding = m.deciding
            /\ n.busy = m.busy \ {LaneOf[j]}
<1> DEFINE n == Freed(m, j)
<1>1. m \in Memory /\ j \in Job /\ Sound(m, j)
  BY DEF Fit, Memory
<1>2. n \in Memory
  BY <1>1 DEF Freed, Memory
<1>3. /\ AgreeAround(m, n) /\ SameFlags(m, n) /\ n.ent = m.ent /\ n.chain = m.chain
      /\ n.queue = m.queue /\ n.ahead = m.ahead
      /\ n.starting = m.starting \ {j} /\ n.deciding = m.deciding
      /\ n.active = m.active /\ n.busy = m.busy \ {LaneOf[j]}
  BY <1>1 DEF Freed, AgreeAround, SameFlags, Memory
<1> HIDE DEF n
<1>4. n.active = m.active \ {j} /\ j \in InUse(m)
  BY <1>1, <1>3 DEF Sound, Terminal, InUse
<1>5. Ordered(m.chain[j], m.ent[j], FALSE)
  BY DEF OnlyWrites, Ordered
<1>6. Fit(n, loose \cup {j}) /\ Kept(m, n) /\ Slots(m) = Slots(n) + 1
  BY <1>2, <1>3, <1>4, <1>5, SlotFreed
<1> QED BY <1>3, <1>6 DEF n

LEMMA DecidedFits ==
  ASSUME NEW m, Fit(m, {}), NEW j \in m.deciding
  PROVE  LET n == [m EXCEPT !.deciding = @ \ {j}]
         IN /\ Fit(n, {j}) /\ Kept(m, n)
            /\ AgreeAround(m, n) /\ n.ent = m.ent /\ n.chain = m.chain /\ n.queue = m.queue
            /\ n.starting = m.starting /\ n.active = m.active
            /\ n.deciding = m.deciding \ {j}
<1> DEFINE n == [m EXCEPT !.deciding = @ \ {j}]
<1>1. m \in Memory /\ j \in Job /\ Sound(m, j)
  BY DEF Fit, Memory
<1>2. n \in Memory
  BY <1>1 DEF Memory
<1>3. /\ AgreeAround(m, n) /\ SameSlots(m, n) /\ n.ent = m.ent /\ n.chain = m.chain
      /\ n.deciding = m.deciding \ {j}
  BY <1>1 DEF AgreeAround, SameSlots, Memory
<1> HIDE DEF n
<1>4. \A k \in Job : Alike(m, n, k) /\ (k # j /\ Housed(m, k) => Housed(n, k))
  BY <1>3 DEF Alike, AgreeAround, Housed, SameSlots
<1>5. Sound(n, j) /\ Slotted(n)
  BY <1>1, <1>3, <1>4, SoundAlike, SlottedSame DEF Fit
<1>6. Fit(n, {} \cup {j})
  BY <1>1, <1>2, <1>4, <1>5, OneFits
<1>7. Kept(m, n)
  BY <1>1, <1>3, KeptAlike
<1> QED BY <1>3, <1>6, <1>7 DEF n, SameSlots

LEMMA DecidingFits ==
  ASSUME NEW m, NEW j \in Job, Fit(m, {j}), m.ent[j].state = "running", j \notin m.active
  PROVE  LET n == [m EXCEPT !.deciding = @ \cup {j}]
         IN /\ Fit(n, {}) /\ Kept(m, n) /\ AgreeAround(m, n) /\ SameFlags(m, n)
            /\ n.ent = m.ent /\ n.chain = m.chain /\ n.deciding = m.deciding \cup {j}
<1> DEFINE n == [m EXCEPT !.deciding = @ \cup {j}]
<1>1. m \in Memory /\ Sound(m, j)
  BY DEF Fit
<1>2. n \in Memory
  BY <1>1 DEF Memory
<1>3. /\ AgreeAround(m, n) /\ SameFlags(m, n) /\ SameSlots(m, n)
      /\ n.ent = m.ent /\ n.chain = m.chain /\ n.deciding = m.deciding \cup {j}
  BY <1>1 DEF AgreeAround, SameFlags, SameSlots, Memory
<1> HIDE DEF n
<1>4. \A k \in Job : k # j => Alike(m, n, k) /\ (Housed(m, k) => Housed(n, k))
  BY <1>3 DEF Alike, AgreeAround, Housed, SameSlots
<1>5. Sound(n, j) /\ Housed(n, j) /\ Slotted(n)
  BY <1>1, <1>3, SlottedSame DEF Sound, Housed, AgreeAround, SameSlots, Fit
<1>6. Fit(n, {j} \ {j})
  BY <1>2, <1>4, <1>5, OneFits
<1>7. Kept(m, n)
  BY <1>1, <1>3, KeptAlike
<1> QED BY <1>3, <1>6, <1>7 DEF n

LEMMA SavedFits ==
  ASSUME NEW m, NEW loose, Fit(m, loose), NEW j \in Job, m.ent[j].state # "absent"
  PROVE  Fit(Persist(m, {j}, "save"), loose) /\ Kept(m, Persist(m, {j}, "save"))
<1> DEFINE S == {j}
           n == Persist(m, S, "save")
<1>1. m \in Memory /\ Sound(m, j) /\ S \in SUBSET Job /\ \A k \in Job : k \in S <=> k = j
  BY DEF Fit
<1> HIDE DEF S
<1>2. n \in Memory /\ Persisted(m, n, S, "save") /\ n.busy = m.busy /\ n.ahead = m.ahead
  BY <1>1, PersistType, PersistFields, PersistRest
<1> HIDE DEF n
<1>3. SameSlots(m, n) /\ n.deciding = m.deciding /\ n.ent = m.ent /\ n.beats = m.beats
  BY <1>2 DEF Persisted, SameSlots, AgreeAround
<1>4. \A k \in Job : k # j => n.chain[k] = m.chain[k]
  BY <1>1, <1>2 DEF Persisted
<1>5. \A k \in Job : k # j => Alike(m, n, k)
  BY <1>3, <1>4 DEF Alike, SameSlots
<1>6. \A k \in Job : Housed(m, k) => Housed(n, k)
  BY <1>3 DEF Housed, SameSlots
<1>7. Sound(n, j)
  <2> DEFINE asking == j \in m.starting
             c == m.chain[j]
             x == Snapshot(m.ent[j], "save")
             f == n.ent[j]
             d == n.chain[j]
  <2>1. c \in Seq(Write) /\ m.ent[j] \in Entry
    BY <1>1 DEF Memory
  <2>2. x \in Write /\ x.op = "save"
    BY <2>1, SnapshotFields
  <2>3. Ordered(c, f, asking) /\ asking \in BOOLEAN
    BY <1>1, <1>3 DEF Sound
  <2>4. d = c \/ d = Append(c, x)
    BY <1>1, <1>2 DEF Persisted
  <2>5. Ordered(d, f, asking)
    <3> HIDE DEF asking, c, x, f, d
    <3>1. Ordered(Append(c, x), f, asking)
      BY <2>1, <2>2, <2>3, OrderedAppend
    <3> QED BY <2>3, <2>4, <3>1
  <2>6. Ordered(n.chain[j], n.ent[j], j \in n.starting)
    BY <1>3, <2>5 DEF SameSlots
  <2> QED BY <1>1, <1>3, <2>6 DEF Sound, SameSlots
<1>8. Slotted(n)
  BY <1>3, SlottedSame DEF Fit
<1>9. Fit(n, loose)
  BY <1>2, <1>5, <1>6, <1>7, <1>8, SoundAlike DEF Fit
<1>10. LeaseLost(m.ent[j]) => n.chain[j] = m.chain[j]
  BY <1>2 DEF Persisted, LeaseLost
<1>11. Kept(m, n)
  BY <1>1, <1>2, <1>3, <1>4, <1>10, KeptOne
<1> QED BY <1>9, <1>11 DEF n, S

LEMMA RequeueFits ==
  ASSUME NEW m, NEW j \in Job, Fit(m, {j}), m.ent[j].state = "running",
         ~m.ent[j].cancelRequested, j \notin m.active \cup m.deciding
  PROVE  Fit(Requeue(m, j), {}) /\ Kept(m, Requeue(m, j))
<1> DEFINE e == [m.ent[j] EXCEPT !.state = "queued", !.backoff = TRUE, !.waiting = TRUE]
           f == [m EXCEPT !.ent = [m.ent EXCEPT ![j] = e]]
           p == Push(f, j)
           n == Persist(p, {j}, "save")
<1>1. m \in Memory /\ Sound(m, j) /\ m.ent[j] \in Entry
  BY DEF Fit, Memory
<1>2. /\ e \in Entry /\ e.state = "queued" /\ e.durability = m.ent[j].durability
      /\ ~e.cancelRequested
  BY <1>1 DEF Entry
<1>3. Requeue(m, j) = n
  <2>1. f = [m EXCEPT !.ent[j].state = "queued", !.ent[j].backoff = TRUE,
                      !.ent[j].waiting = TRUE]
    BY <1>1 DEF Memory
  <2> HIDE DEF f
  <2> QED BY <2>1 DEF Requeue
<1> HIDE DEF e
<1>4. /\ f \in Memory /\ AgreeAround(m, f) /\ SameSlots(m, f)
      /\ f.chain = m.chain /\ f.deciding = m.deciding
      /\ f.ent[j] = e /\ \A k \in Job : k # j => f.ent[k] = m.ent[k]
  BY <1>1, <1>2, EntryFields
<1> HIDE DEF f
<1>5. j \notin m.queue /\ j \notin m.starting /\ m.ent[j].durability # "pending"
  BY <1>1 DEF Sound, Terminal
<1>6. Fit(f, {j}) /\ Kept(m, f)
  <2>1. \A k \in Job : k # j => Alike(m, f, k) /\ (Housed(m, k) => Housed(f, k))
    BY <1>4 DEF Alike, AgreeAround, Housed, SameSlots
  <2>2. Sound(f, j)
    <3>1. Ordered(f.chain[j], f.ent[j], j \in f.starting)
      BY <1>1, <1>2, <1>4 DEF Sound, Ordered, SameSlots
    <3>2. f.beats = m.beats
      BY <1>4 DEF AgreeAround
    <3> QED BY <1>1, <1>2, <1>4, <1>5, <3>1, <3>2 DEF Sound, SameSlots
  <2>3. Slotted(f)
    BY <1>4, SlottedSame DEF Fit
  <2>4. Fit(f, {j} \cup {j})
    BY <1>4, <2>1, <2>2, <2>3, OneFits
  <2>5. Kept(m, f)
    BY <1>1, <1>2, <1>4, KeptOne DEF LeaseLost, Terminal
  <2> QED BY <2>4, <2>5
<1>7. Fit(p, {j} \ {j}) /\ Kept(f, p) /\ p.ent = f.ent
  BY <1>2, <1>4, <1>5, <1>6, PushFits, PushFields DEF SameSlots
<1> HIDE DEF p
<1>8. Fit(n, {}) /\ Kept(p, n)
  BY <1>2, <1>4, <1>7, SavedFits
<1>9. p \in Memory /\ n \in Memory
  BY <1>7, <1>8 DEF Fit
<1>10. Kept(m, p)
  BY <1>1, <1>4, <1>6, <1>7, <1>9, KeptTransitive
<1>11. Kept(m, n)
  BY <1>1, <1>8, <1>9, <1>10, KeptTransitive
<1> QED BY <1>3, <1>8, <1>11

LEMMA RunClaimedFits ==
  ASSUME NEW m, NEW j \in Job, Fit(m, {j}), m.ent[j].state = "queued",
         m.ent[j].durability # "pending", j \notin m.queue \cup m.starting,
         LaneOf[j] \notin m.busy, Slots(m) + 1 <= Concurrency
  PROVE  LET n == RunClaimed(m, j)
         IN /\ Fit(n, {}) /\ Kept(m, n) /\ Slots(n) = Slots(m) + 1
            /\ AgreeAround(m, n) /\ SameFlags(m, n) /\ n.chain = m.chain /\ n.queue = m.queue
            /\ n.starting = m.starting /\ n.active = m.active \cup {j}
            /\ n.deciding = m.deciding /\ n.busy = m.busy \cup LanesOf({j})
            /\ n.ent[j].state = "running" /\ n.ent[j].durability = m.ent[j].durability
            /\ \A k \in Job : k # j => n.ent[k] = m.ent[k]
<1> DEFINE n == RunClaimed(m, j)
           e == Running(m.ent[j])
<1>1. m \in Memory /\ m.ent[j] \in Entry /\ Sound(m, j) /\ Slotted(m)
  BY DEF Fit, Memory
<1>2. n \in Memory
  BY <1>1, RunClaimedType
<1>3. /\ e.state = "running" /\ e.durability = m.ent[j].durability
      /\ e.cancelRequested = m.ent[j].cancelRequested
  BY <1>1, RunningFields DEF Running, Entry
<1>4. /\ AgreeAround(m, n) /\ SameFlags(m, n) /\ n.chain = m.chain /\ n.queue = m.queue
      /\ n.ahead = m.ahead /\ n.starting = m.starting /\ n.active = m.active \cup {j}
      /\ n.deciding = m.deciding /\ n.busy = m.busy \cup LanesOf({j})
      /\ n.ent[j] = e /\ \A k \in Job : k # j => n.ent[k] = m.ent[k]
  <2>1. n = [m EXCEPT !.ent = [m.ent EXCEPT ![j] = e], !.active = m.active \cup {j},
                      !.busy = m.busy \cup LanesOf({j})]
    BY <1>1 DEF RunClaimed, Memory
  <2> HIDE DEF n, e
  <2> QED BY <1>1, <2>1 DEF AgreeAround, SameFlags, Memory
<1> HIDE DEF n, e
<1>5. /\ j \notin m.active /\ j \notin m.deciding /\ ~m.ent[j].cancelRequested
      /\ j \notin InUse(m)
  BY <1>1 DEF Sound, InUse
<1>6. \A k \in Job : k # j => Alike(m, n, k) /\ (Housed(m, k) => Housed(n, k))
  BY <1>4 DEF Alike, AgreeAround, Housed
<1>7. Sound(n, j) /\ Housed(n, j)
  <2>1. Ordered(n.chain[j], n.ent[j], j \in n.starting)
    BY <1>1, <1>3, <1>4 DEF Sound, Ordered
  <2> QED BY <1>1, <1>3, <1>4, <1>5, <2>1 DEF Sound, Housed, AgreeAround
<1>8. Slots(n) = Slots(m) + 1
  <2>1. m.starting \in SUBSET Job /\ m.active \in SUBSET Job
    BY <1>1 DEF Memory
  <2>2. Cardinality(m.active \cup {j}) = Cardinality(m.active) + 1
    BY <1>5, <2>1, PartsAreFinite, FS_AddElement
  <2>3. Cardinality(m.starting) \in Nat /\ Cardinality(m.active) \in Nat
    BY <2>1, PartsAreFinite
  <2> QED BY <1>4, <2>2, <2>3 DEF Slots
<1>9. Slotted(n)
  <2>1. InUse(n) = InUse(m) \cup {j}
    BY <1>4 DEF InUse
  <2>2. n.busy = LanesOf(InUse(n))
    BY <1>1, <1>4, <2>1 DEF Slotted, LanesOf
  <2>3. \A h \in InUse(m) : LaneOf[h] = LaneOf[j] => LaneOf[h] = NoLane
    BY <1>1 DEF Slotted, LanesOf
  <2>4. \A h, k \in InUse(n) : (h # k /\ LaneOf[h] = LaneOf[k]) => LaneOf[h] = NoLane
    BY <1>1, <2>1, <2>3 DEF Slotted
  <2> QED BY <1>1, <1>4, <1>8, <2>2, <2>4 DEF Slotted, Slots
<1>10. Fit(n, {j} \ {j})
  BY <1>2, <1>6, <1>7, <1>9, OneFits
<1>11. Kept(m, n)
  BY <1>1, <1>2, <1>3, <1>4, KeptOne DEF Terminal, LeaseLost
<1> QED BY <1>3, <1>4, <1>8, <1>10, <1>11 DEF n

(* A job taken out of its place settles, and the queue is pumped.          *)
LEMMA SettlePumpTidies ==
  ASSUME NEW m, NEW j \in Job, Fit(m, {j}), NEW state \in Terminal,
         m.ent[j].state \in {"queued", "running"},
         j \notin m.queue \cup m.active \cup m.deciding,
         state = "complete" => ~m.ent[j].cancelRequested
  PROVE  LET n == Pump(Settle(m, {j}, state)) IN Tidy(n) /\ n \in Memory /\ Kept(m, n)
<1> DEFINE S == {j}
           s == Settle(m, S, state)
           n == Pump(s)
<1>1. Fit(s, {}) /\ Kept(m, s)
  <2>1. /\ S \in SUBSET Job
        /\ \A k \in S : /\ m.ent[k].state \in {"queued", "running"}
                        /\ k \notin m.queue \cup m.active \cup m.deciding
                        /\ state = "complete" => ~m.ent[k].cancelRequested
    OBVIOUS
  <2>2. Fit(s, {j} \ S) /\ Kept(m, s)
    <3> HIDE DEF S
    <3> QED BY <2>1, SettleFits
  <2> QED BY <2>2
<1> HIDE DEF s
<1>2. Tidy(n) /\ n \in Memory /\ Kept(s, n)
  BY <1>1, PumpTidies
<1> HIDE DEF n
<1>3. Kept(m, n)
  BY <1>1, <1>2, KeptTransitive DEF Fit
<1> QED BY <1>2, <1>3 DEF n, s

-----------------------------------------------------------------------------
(* The actions.  Each leaves the memory of its worker tidy, and takes back *)
(* nothing while the process lives.                                        *)

Advances(w) ==
  \E n : /\ Becomes(w, n) /\ n \in Memory /\ Tidy(n)
         /\ Kept(mem[w], n) \/ ~mem[w].up \/ ~n.up

LEMMA TidyFits ==
  ASSUME TypeOK, AllTidy, NEW w \in Worker
  PROVE  mem[w] \in Memory /\ Tidy(mem[w]) /\ Fit(mem[w], {})
BY DEF TypeOK, AllTidy, Tidy, Fit

(* What a step that does not pump leaves as it was, or brings nearer.      *)
LEMMA QuietTidies ==
  ASSUME NEW m, Tidy(m), NEW n, Fit(n, {}), Conserving(n),
         m.closed => n.closed, Held(n) \subseteq Held(m),
         m.timer => n.timer,
         \A b \in Beats : /\ m.beats[b] # NoBeat => n.beats[b] # NoBeat
                          /\ m.beats[b].phase \in {"adopting", "adopted"}
                               => n.beats[b].phase \in {"adopting", "adopted"},
         Idle(n) => Idle(m),
         n.drain = "waiting" => m.drain = "waiting",
         n.close = "waiting" => m.close = "waiting"
  PROVE  Tidy(n)
<1>1. Renewing(n)
  BY DEF Tidy, Renewing
<1>2. Reported(n)
  BY DEF Tidy, Reported
<1> QED BY <1>1, <1>2 DEF Tidy, Fit

LEMMA EnqueueTidy ==
  ASSUME TypeOK, AllTidy, NEW w \in Worker, NEW j \in Job, Enqueue(w, j)
  PROVE  Advances(w)
<1> DEFINE m == mem[w]
           e == [Unknown EXCEPT !.state = "queued",
                                !.durability = IF Mode = "memory" THEN "none" ELSE "pending"]
           f == [m EXCEPT !.ent = [m.ent EXCEPT ![j] = e]]
           S == {j}
           c == Persist(f, S, "create")
           p == Push(c, j)
           n == Pump(p)
<1>1. m \in Memory /\ Fit(m, {}) /\ Sound(m, j) /\ m.ent[j].state = "absent"
  BY TidyFits DEF Enqueue, Known, Fit
<1>2. e \in Entry /\ e.state = "queued" /\ ~e.cancelRequested
      /\ e.durability = IF Mode = "memory" THEN "none" ELSE "pending"
  BY DEF Unknown, Entry
<1>3. /\ m.chain[j] = <<>> /\ m.ent[j].durability = "none" /\ ~m.ent[j].cancelRequested
      /\ j \notin m.queue /\ j \notin m.starting /\ j \notin m.active /\ j \notin m.deciding
      /\ \A b \in Beats : j \notin m.beats[b].ids
  BY <1>1 DEF Sound, Terminal
<1>4. Becomes(w, n)
  <2>1. f = [m EXCEPT !.ent[j] = e]
    BY <1>1 DEF Memory
  <2> HIDE DEF f, e
  <2> QED BY <2>1 DEF Enqueue, e
<1> HIDE DEF e
<1>5. /\ f \in Memory /\ AgreeAround(m, f) /\ SameSlots(m, f)
      /\ f.chain = m.chain /\ f.deciding = m.deciding
      /\ f.ent[j] = e /\ \A k \in Job : k # j => f.ent[k] = m.ent[k]
  BY <1>1, <1>2, EntryFields
<1> HIDE DEF f
<1>6. S \in SUBSET Job /\ \A k \in Job : k \in S <=> k = j
  OBVIOUS
<1> HIDE DEF S
<1>7. c \in Memory /\ Persisted(f, c, S, "create") /\ c.busy = f.busy /\ c.ahead = f.ahead
  BY <1>5, <1>6, PersistType, PersistFields, PersistRest
<1> HIDE DEF c
<1>8. /\ SameSlots(m, c) /\ c.deciding = m.deciding /\ c.beats = m.beats
      /\ c.ent[j] = e /\ \A k \in Job : k # j => c.ent[k] = m.ent[k] /\ c.chain[k] = m.chain[k]
  BY <1>5, <1>6, <1>7 DEF Persisted, SameSlots, AgreeAround
<1>9. Sound(c, j)
  <2> DEFINE x == Snapshot(e, "create")
  <2>1. x \in Write /\ x.op = "create"
    BY <1>2, SnapshotFields
  <2>2. c.chain[j] = IF e.durability \notin {"none", "lost"} THEN Append(<<>>, x) ELSE <<>>
    BY <1>3, <1>5, <1>6, <1>7 DEF Persisted
  <2>3. Ordered(c.chain[j], c.ent[j], j \in c.starting)
    <3>1. CASE e.durability = "none"
      <4>1. c.chain[j] = <<>>
        BY <2>2, <3>1
      <4> QED BY <4>1 DEF Ordered
    <3>2. CASE e.durability = "pending"
      <4> HIDE DEF x
      <4>1. c.chain[j] = <<x>>
        BY <2>2, <3>2
      <4>2. Len(c.chain[j]) = 1 /\ c.chain[j][1] = x
        BY <4>1
      <4> QED BY <1>8, <2>1, <3>2, <4>2 DEF Ordered
    <3> QED BY <1>2, <3>1, <3>2
  <2> QED BY <1>2, <1>3, <1>8, <2>3 DEF Sound, SameSlots
<1>10. Fit(c, {j}) /\ Kept(m, c)
  <2>1. \A k \in Job : k # j => Alike(m, c, k) /\ (Housed(m, k) => Housed(c, k))
    BY <1>8 DEF Alike, Housed, SameSlots
  <2>2. Slotted(c)
    BY <1>1, <1>8, SlottedSame DEF Fit
  <2>3. Fit(c, {} \cup {j})
    BY <1>1, <1>7, <1>9, <2>1, <2>2, OneFits
  <2>4. Kept(m, c)
    BY <1>1, <1>3, <1>7, <1>8, KeptOne DEF LeaseLost, Terminal
  <2> QED BY <2>3, <2>4
<1>11. Fit(p, {j} \ {j}) /\ Kept(c, p)
  BY <1>2, <1>3, <1>8, <1>10, PushFits DEF SameSlots
<1> HIDE DEF p
<1>12. Tidy(n) /\ n \in Memory /\ Kept(p, n)
  BY <1>11, PumpTidies
<1> HIDE DEF n
<1>13. Kept(m, p) /\ p \in Memory
  BY <1>1, <1>7, <1>10, <1>11, KeptTransitive DEF Fit
<1>14. Kept(m, n)
  BY <1>1, <1>12, <1>13, KeptTransitive
<1> QED BY <1>4, <1>12, <1>14 DEF Advances

(* A step that ends by telling those who wait for an idle queue.           *)
LEMMA TellTidies ==
  ASSUME NEW m, Fit(m, {}), Conserving(m), Renewing(m)
  PROVE  LET n == CheckIdle(m) IN Tidy(n) /\ n \in Memory /\ Kept(m, n)
<1> DEFINE n == CheckIdle(m)
<1>1. m \in Memory
  BY DEF Fit
<1>2. /\ n \in Memory /\ Agree(m, n) /\ n.ahead = m.ahead /\ n.busy = m.busy
      /\ n.timer = m.timer /\ n.closed = m.closed
      /\ Idle(n) => n.drain # "waiting" /\ n.close # "waiting"
  BY <1>1, CheckIdleType, CheckIdleAgrees, CheckIdleRest
<1> HIDE DEF n
<1>3. Fit(n, {}) /\ Kept(m, n) /\ Conserving(n)
  BY <1>2, AgreeFits
<1>4. Renewing(n)
  BY <1>2 DEF Agree, Renewing, Held
<1> QED BY <1>2, <1>3, <1>4 DEF n, Tidy, Fit, Reported

(* A running job is told that it is not wanted.                            *)
LEMMA SignalledFits ==
  ASSUME NEW m, NEW loose, Fit(m, loose), NEW j \in Job, m.ent[j].state = "running"
  PROVE  LET e == [m.ent[j] EXCEPT !.cancelRequested = TRUE]
             n == [m EXCEPT !.ent = [m.ent EXCEPT ![j] = e]]
         IN Fit(n, loose) /\ Kept(m, n)
<1> DEFINE e == [m.ent[j] EXCEPT !.cancelRequested = TRUE]
<1>1. m.ent[j] \in Entry
  BY DEF Fit, Memory
<1>2. /\ e \in Entry /\ e.state = m.ent[j].state /\ e.cancelRequested
      /\ e.durability = m.ent[j].durability
  BY <1>1 DEF Entry
<1> HIDE DEF e
<1> QED BY <1>2, EntryFits DEF e

LEMMA CancelRunningTidy ==
  ASSUME TypeOK, AllTidy, NEW w \in Worker, NEW j \in Job, CancelRunning(w, j)
  PROVE  Advances(w)
<1> DEFINE m == mem[w]
           e == [m.ent[j] EXCEPT !.cancelRequested = TRUE]
           n == [m EXCEPT !.ent = [m.ent EXCEPT ![j] = e]]
<1>1. m \in Memory /\ Tidy(m) /\ Fit(m, {}) /\ m.ent[j].state = "running"
  BY TidyFits DEF CancelRunning
<1>2. /\ e \in Entry /\ e.state = m.ent[j].state /\ e.durability = m.ent[j].durability
      /\ e.waiting = m.ent[j].waiting
  <2>1. m.ent[j] \in Entry
    BY <1>1 DEF Memory
  <2> QED BY <2>1 DEF Entry
<1>3. Becomes(w, n)
  <2>1. n = [m EXCEPT !.ent[j].cancelRequested = TRUE]
    BY <1>1 DEF Memory
  <2> HIDE DEF n
  <2> QED BY <2>1 DEF CancelRunning
<1>4. Fit(n, {}) /\ Kept(m, n)
  BY <1>1, SignalledFits
<1> HIDE DEF e
<1>5. /\ n \in Memory /\ AgreeAround(m, n) /\ SameFlags(m, n) /\ SameSlots(m, n)
      /\ n.chain = m.chain /\ n.deciding = m.deciding
      /\ n.ent[j] = e /\ \A k \in Job : k # j => n.ent[k] = m.ent[k]
  BY <1>1, <1>2, EntryFields
<1> HIDE DEF n
<1>6. \A k \in Job : /\ n.ent[k].state = m.ent[k].state
                     /\ n.ent[k].durability = m.ent[k].durability
                     /\ n.ent[k].waiting = m.ent[k].waiting
  BY <1>2, <1>5
<1> HIDE DEF m
<1>7. m.queue \in SUBSET Job
  BY <1>1 DEF Memory
<1>8. Conserving(n)
  BY <1>1, <1>5, <1>6, <1>7, ConservingSame DEF Tidy, SameSlots, AgreeAround
<1>9. Held(n) = Held(m)
  BY <1>6, HeldAlike
<1>10. Idle(n) = Idle(m)
  BY <1>5 DEF Idle, Writing, SameSlots
<1>11. Tidy(n)
  BY <1>1, <1>4, <1>5, <1>8, <1>9, <1>10, QuietTidies DEF AgreeAround, SameFlags
<1> QED BY <1>3, <1>4, <1>5, <1>11 DEF Advances, m

LEMMA CancelQueuedTidy ==
  ASSUME TypeOK, AllTidy, NEW w \in Worker, NEW j \in Job, CancelQueued(w, j)
  PROVE  Advances(w)
<1> DEFINE m == mem[w]
           S == {j}
           p == Pull(m, S)
           n == Pump(Settle(p, S, "cancelled"))
<1>1. m \in Memory /\ Fit(m, {}) /\ Sound(m, j) /\ m.ent[j].state = "queued"
  BY TidyFits DEF CancelQueued, Fit
<1>2. Becomes(w, n)
  BY DEF CancelQueued
<1>3. S \in SUBSET Job /\ j \in S
  OBVIOUS
<1>4. Fit(p, {} \cup S) /\ Kept(m, p)
  <2> HIDE DEF S
  <2> QED BY <1>1, <1>3, PullFits
<1>5. /\ p.ent = m.ent /\ p.active = m.active /\ p.deciding = m.deciding
      /\ p.queue = m.queue \ S
  <2> HIDE DEF S
  <2> QED BY <1>1, <1>3, PullFields
<1> HIDE DEF p, m
<1>6. j \notin p.queue \cup p.active \cup p.deciding /\ p.ent[j].state \in {"queued", "running"}
  BY <1>1, <1>3, <1>5 DEF Sound
<1>7. Tidy(n) /\ n \in Memory /\ Kept(p, n)
  <2>1. Fit(p, {j})
    BY <1>4
  <2>2. "cancelled" \in Terminal
    BY DEF Terminal
  <2> QED BY <1>6, <2>1, <2>2, SettlePumpTidies
<1> HIDE DEF n
<1>8. Kept(m, n)
  BY <1>1, <1>4, <1>7, KeptTransitive DEF Fit
<1> QED BY <1>2, <1>7, <1>8 DEF Advances, m

LEMMA PauseTidy ==
  ASSUME TypeOK, AllTidy, NEW w \in Worker, Pause(w)
  PROVE  Advances(w)
<1> DEFINE m == mem[w]
           n == [m EXCEPT !.paused = TRUE]
<1>1. m \in Memory /\ Tidy(m) /\ Fit(m, {})
  BY TidyFits
<1>2. Becomes(w, n)
  BY DEF Pause
<1> HIDE DEF m
<1>3. /\ n \in Memory /\ SameSlots(m, n) /\ n.deciding = m.deciding /\ n.paused
      /\ n.ent = m.ent /\ n.chain = m.chain /\ n.beats = m.beats /\ SameFlags(m, n)
  BY <1>1 DEF Memory, SameSlots, SameFlags
<1> HIDE DEF n
<1>4. Fit(n, {}) /\ Kept(m, n)
  BY <1>1, <1>3, FlagsFit DEF Alike, SameSlots
<1>5. Conserving(n)
  BY <1>3 DEF Conserving
<1>6. Idle(n) = Idle(m) /\ Held(n) = Held(m)
  BY <1>3 DEF Idle, Writing, SameSlots, Held
<1>7. Tidy(n)
  BY <1>1, <1>3, <1>4, <1>5, <1>6, QuietTidies DEF SameFlags
<1> QED BY <1>2, <1>3, <1>4, <1>7 DEF Advances, m

LEMMA ResumeTidy ==
  ASSUME TypeOK, AllTidy, NEW w \in Worker, Resume(w)
  PROVE  Advances(w)
<1> DEFINE m == mem[w]
           p == [m EXCEPT !.paused = FALSE]
           n == Pump(p)
<1>1. m \in Memory /\ Fit(m, {})
  BY TidyFits
<1>2. Becomes(w, n)
  BY DEF Resume
<1> HIDE DEF m
<1>3. /\ p \in Memory /\ SameSlots(m, p) /\ p.deciding = m.deciding
      /\ p.ent = m.ent /\ p.chain = m.chain /\ p.beats = m.beats
  BY <1>1 DEF Memory, SameSlots
<1> HIDE DEF p
<1>4. Fit(p, {}) /\ Kept(m, p)
  BY <1>1, <1>3, FlagsFit DEF Alike, SameSlots
<1>5. Tidy(n) /\ n \in Memory /\ Kept(p, n)
  BY <1>4, PumpTidies
<1> HIDE DEF n
<1>6. Kept(m, n)
  BY <1>1, <1>3, <1>4, <1>5, KeptTransitive
<1> QED BY <1>2, <1>5, <1>6 DEF Advances, m

LEMMA DrainTidy ==
  ASSUME TypeOK, AllTidy, NEW w \in Worker, Drain(w)
  PROVE  Advances(w)
<1> DEFINE m == mem[w]
           n == [m EXCEPT !.drain = Awaited(m)]
<1>1. m \in Memory /\ Tidy(m) /\ Fit(m, {})
  BY TidyFits
<1>2. Becomes(w, n)
  BY DEF Drain
<1> HIDE DEF m
<1>3. /\ n \in Memory /\ Agree(m, n)
      /\ n.ahead = m.ahead /\ n.busy = m.busy /\ n.timer = m.timer
      /\ n.closed = m.closed /\ n.close = m.close
      /\ Idle(n) => Idle(m) /\ n.drain # "waiting"
  BY <1>1, DrainAgrees
<1> HIDE DEF n
<1>4. Fit(n, {}) /\ Kept(m, n) /\ Conserving(n)
  BY <1>1, <1>3, AgreeFits DEF Tidy
<1>5. Renewing(n)
  BY <1>1, <1>3 DEF Tidy, Renewing, Held, Agree
<1>6. Reported(n)
  BY <1>1, <1>3 DEF Tidy, Reported, Agree
<1>7. Tidy(n)
  BY <1>4, <1>5, <1>6 DEF Tidy, Fit
<1> QED BY <1>2, <1>3, <1>4, <1>7 DEF Advances, m

LEMMA CloseTidy ==
  ASSUME TypeOK, AllTidy, NEW w \in Worker, Close(w)
  PROVE  Advances(w)
<1> DEFINE m == mem[w]
           waiting == m.queue \cup { j \in m.starting : m.ent[j].state = "queued" }
           ent == [j \in Job |-> IF j \in m.active
                                THEN [m.ent[j] EXCEPT !.cancelRequested = TRUE]
                                ELSE m.ent[j]]
           shut == [m EXCEPT !.closed = TRUE, !.paused = TRUE, !.timer = FALSE,
                             !.ent = ent]
           p == Pull(shut, waiting)
           s == Settle(p, waiting, "cancelled")
           told == IF waiting = {} THEN s ELSE CheckIdle(s)
           n == [told EXCEPT !.close = Awaited(told)]
<1>1. m \in Memory /\ Tidy(m) /\ Fit(m, {})
  BY TidyFits
<1>2. Becomes(w, n)
  BY DEF Close
<1> HIDE DEF m
<1>3. waiting \in SUBSET Job /\ m.queue \subseteq waiting
  BY <1>1 DEF Memory
<1>4. ent \in [Job -> Entry] /\ \A k \in Job :
        /\ ent[k].state = m.ent[k].state /\ ent[k].durability = m.ent[k].durability
        /\ ent[k].cancelRequested => m.ent[k].cancelRequested \/ k \in m.active
        /\ m.ent[k].cancelRequested => ent[k].cancelRequested
  <2>1. \A k \in Job : m.ent[k] \in Entry
    BY <1>1 DEF Memory
  <2>2. \A k \in Job : ent[k] = IF k \in m.active THEN [m.ent[k] EXCEPT !.cancelRequested = TRUE]
                                ELSE m.ent[k]
    OBVIOUS
  <2>3. ent \in [Job -> Entry]
    BY <2>1 DEF Entry
  <2> HIDE DEF ent
  <2> QED BY <2>1, <2>2, <2>3 DEF Entry
<1> HIDE DEF ent
<1>5. /\ shut \in Memory /\ SameSlots(m, shut) /\ shut.deciding = m.deciding
      /\ shut.beats = m.beats /\ shut.chain = m.chain /\ shut.ent = ent
      /\ shut.closed /\ shut.paused /\ shut.drain = m.drain
  BY <1>1, <1>4 DEF Memory, SameSlots
<1>6. \A k \in waiting : m.ent[k].state = "queued"
  BY <1>1, <1>3 DEF Fit, Sound
<1> HIDE DEF shut, waiting
<1>7. Fit(shut, {}) /\ Kept(m, shut)
  <2>1. ASSUME NEW k \in Job PROVE Sound(shut, k)
    <3>1. Sound(m, k)
      BY <1>1 DEF Fit
    <3>2. Ordered(shut.chain[k], shut.ent[k], k \in shut.starting)
      BY <1>4, <1>5, <3>1 DEF Sound, Ordered, SameSlots
    <3> QED BY <1>4, <1>5, <3>1, <3>2 DEF Sound, SameSlots
  <2>2. \A k \in Job : Housed(shut, k)
    BY <1>1, <1>4, <1>5 DEF Fit, Housed, SameSlots
  <2>3. Slotted(shut)
    BY <1>1, <1>5, SlottedSame DEF Fit
  <2>4. Kept(m, shut)
    BY <1>1, <1>4, <1>5, KeptAlike
  <2> QED BY <1>5, <2>1, <2>2, <2>3, <2>4 DEF Fit
<1>8. Fit(p, {} \cup waiting) /\ Kept(shut, p)
  BY <1>3, <1>7, PullFits
<1>9. /\ p \in Memory /\ AgreeAround(shut, p) /\ p.ent = shut.ent /\ p.chain = shut.chain
      /\ p.starting = shut.starting /\ p.active = shut.active /\ p.deciding = shut.deciding
      /\ p.queue = shut.queue \ waiting /\ SameFlags(shut, p)
  BY <1>3, <1>5, PullType, PullFields, PullRest
<1> HIDE DEF p
<1>10. "cancelled" \in Terminal
  BY DEF Terminal
<1>11. \A k \in waiting : /\ p.ent[k].state \in {"queued", "running"}
                          /\ k \notin p.queue \cup p.active \cup p.deciding
  <2>1. \A k \in waiting : p.ent[k].state = "queued"
    BY <1>3, <1>4, <1>5, <1>6, <1>9
  <2>2. \A k \in waiting : k \notin p.queue
    BY <1>9
  <2>3. \A k \in waiting : k \notin p.active \cup p.deciding
    BY <1>3, <1>8, <2>1 DEF Fit, Sound
  <2> QED BY <2>1, <2>2, <2>3
<1>12. Fit(s, ({} \cup waiting) \ waiting) /\ Kept(p, s)
  BY <1>3, <1>8, <1>10, <1>11, SettleFits
<1>13. SettlesTo(p, s, waiting, "cancelled") /\ SameFlags(p, s)
  BY <1>3, <1>9, <1>10, SettleFields, SettleRest
<1> HIDE DEF s
<1>14. s.closed /\ s.paused
  BY <1>5, <1>9, <1>13 DEF SettlesTo, SameFlags, AgreeAround
<1>15. Fit(s, {}) /\ Conserving(s) /\ Renewing(s)
  <2>1. Fit(s, {})
    BY <1>12
  <2> QED BY <1>14, <2>1 DEF Conserving, Renewing
<1>16. /\ n \in Memory /\ Agree(s, n)
       /\ n.ahead = s.ahead /\ n.busy = s.busy /\ n.closed = s.closed
       /\ Idle(n) => /\ Idle(s) /\ n.close # "waiting"
                     /\ IF waiting = {} THEN n.drain = s.drain ELSE n.drain # "waiting"
  <2>1. s \in Memory
    BY <1>15 DEF Fit
  <2> QED BY <2>1, CloseAgrees
<1> HIDE DEF n
<1>17. Kept(m, p)
  BY <1>1, <1>5, <1>7, <1>8, <1>9, KeptTransitive
<1>18. Kept(m, s) /\ s \in Memory
  BY <1>1, <1>9, <1>12, <1>15, <1>17, KeptTransitive DEF Fit
<1>19. Fit(n, {}) /\ Kept(s, n) /\ Conserving(n)
  BY <1>15, <1>16, AgreeFits
<1>20. Kept(m, n)
  BY <1>1, <1>16, <1>18, <1>19, KeptTransitive
<1>21. Reported(n)
  <2>1. CASE waiting # {}
    BY <1>16, <2>1 DEF Reported
  <2>2. CASE waiting = {}
    <3>1. s.queue = m.queue /\ s.starting = m.starting /\ s.active = m.active
      BY <1>5, <1>9, <1>13, <2>2 DEF SettlesTo, SameSlots
    <3>2. s.deciding = m.deciding /\ s.beats = m.beats /\ s.drain = m.drain
      BY <1>5, <1>9, <1>13 DEF SettlesTo, SameFlags, AgreeAround
    <3>3. \A k \in Job : s.chain[k] = m.chain[k]
      BY <1>5, <1>9, <1>13, <2>2 DEF SettlesTo
    <3>4. Idle(s) => Idle(m)
      BY <3>1, <3>2, <3>3 DEF Idle, Writing
    <3>5. Idle(n) => Idle(m) /\ n.drain = m.drain /\ n.close # "waiting"
      BY <1>16, <2>2, <3>2, <3>4
    <3>6. n.beats = m.beats
      BY <1>16, <3>2 DEF Agree
    <3> QED BY <1>1, <3>5, <3>6 DEF Tidy, Reported
  <2> QED BY <2>1, <2>2
<1>22. Renewing(n)
  BY <1>14, <1>16 DEF Renewing
<1>23. Tidy(n)
  BY <1>19, <1>21, <1>22 DEF Tidy, Fit
<1> QED BY <1>2, <1>16, <1>20, <1>23 DEF Advances, m

(* The database's answer changes no more than the head of a chain says.    *)
LEMMA AnswerHeadTidies ==
  ASSUME NEW m, Tidy(m), Fit(m, {}), NEW j \in Job, m.chain[j] # <<>>,
         NEW answer \in {"none", "ok", "held", "lost", "error"}
  PROVE  LET n == AnswerHead(m, j, answer) IN Tidy(n) /\ n \in Memory /\ Kept(m, n)
<1> DEFINE n == AnswerHead(m, j, answer)
           c == m.chain[j]
           x == [c[1] EXCEPT !.answer = answer]
           d == [c EXCEPT ![1] = x]
           f == [m.chain EXCEPT ![j] = d]
<1>1. m \in Memory /\ Sound(m, j) /\ c \in Seq(Write) /\ m.chain \in [Job -> Seq(Write)]
  BY DEF Fit, Memory
<1>2. Len(c) \in Nat \ {0} /\ c[1] \in Write
  <2>1. c # <<>>
    OBVIOUS
  <2> HIDE DEF c
  <2> QED BY <1>1, <2>1, EmptySeq
<1>3. x \in Write /\ x.op = c[1].op
  BY <1>2 DEF Write
<1>4. n = [m EXCEPT !.chain = f]
  BY <1>1 DEF AnswerHead, Memory
<1>5. n \in Memory
  BY <1>1, AnswerHeadType
<1> HIDE DEF c, x
<1>6. Len(d) = Len(c) /\ \A i \in 1..Len(c) : d[i] = IF i = 1 THEN x ELSE c[i]
  BY <1>1, <1>2, <1>3, ExceptSeq
<1> HIDE DEF d
<1>7. f[j] = d /\ \A k \in Job : k # j => f[k] = m.chain[k]
  BY <1>1
<1> HIDE DEF f
<1>8. /\ AgreeAround(m, n) /\ SameFlags(m, n) /\ SameSlots(m, n)
      /\ n.ent = m.ent /\ n.deciding = m.deciding /\ n.chain = f
  BY <1>1, <1>4 DEF Memory, AgreeAround, SameFlags, SameSlots
<1> HIDE DEF n
<1>9. \A i \in 1..Len(c) : d[i].op = c[i].op
  BY <1>3, <1>6
<1>10. Sound(n, j)
  <2>1. Ordered(d, n.ent[j], j \in n.starting)
    BY <1>1, <1>6, <1>8, <1>9 DEF Sound, Ordered, SameSlots, c
  <2>2. m.ent[j].state # "absent"
    BY <1>1 DEF Sound
  <2> QED BY <1>1, <1>7, <1>8, <2>1, <2>2 DEF Sound, SameSlots, AgreeAround
<1>11. Fit(n, {})
  <2>1. \A k \in Job : k # j => Alike(m, n, k)
    BY <1>7, <1>8 DEF Alike, SameSlots, AgreeAround
  <2>2. \A k \in Job : Housed(m, k) /\ Housed(n, k)
    BY <1>8 DEF Fit, Housed, SameSlots
  <2>3. Slotted(n)
    BY <1>8, SlottedSame DEF Fit
  <2>4. Fit(n, {} \ {j})
    BY <1>5, <1>10, <2>1, <2>2, <2>3, OneFits
  <2> QED BY <2>4
<1>12. \A k \in Job : Len(n.chain[k]) = Len(m.chain[k])
  BY <1>6, <1>7, <1>8 DEF c
<1>13. Kept(m, n)
  <2>1. \A k \in Job : Len(m.chain[k]) \in Nat
    BY <1>1
  <2> QED BY <1>8, <1>12, <2>1 DEF Kept
<1>14. Conserving(n)
  BY <1>8, ConservingSame DEF Tidy, SameSlots, AgreeAround
<1>15. Held(n) = Held(m)
  BY <1>8 DEF Held
<1>16. Idle(n) => Idle(m)
  <2>1. \A k \in Job : \A i \in 1..Len(m.chain[k]) :
          i \in 1..Len(n.chain[k]) /\ n.chain[k][i].op = m.chain[k][i].op
    BY <1>7, <1>8, <1>9, <1>12 DEF c
  <2> QED BY <1>8, <2>1 DEF Idle, Writing, SameSlots
<1>17. Tidy(n)
  BY <1>8, <1>11, <1>14, <1>15, <1>16, QuietTidies DEF SameFlags, AgreeAround
<1> QED BY <1>5, <1>13, <1>17 DEF n

LEMMA StoreTidy ==
  ASSUME TypeOK, AllTidy, NEW w \in Worker, NEW j \in Job,
         StoreExecutes(w, j) \/ StoreFails(w, j)
  PROVE  Advances(w)
<1> DEFINE m == mem[w]
           said == Answer(w, j, Head(m.chain[j]))
<1>1. Tidy(m) /\ Fit(m, {}) /\ m.chain[j] # <<>>
  BY TidyFits DEF StoreExecutes, StoreFails, Asked
<1>2. said \in {"none", "ok", "held", "lost", "error"}
  BY DEF Answer
<1>3. Becomes(w, AnswerHead(m, j, said)) \/ Becomes(w, AnswerHead(m, j, "error"))
  BY DEF StoreExecutes, StoreFails
<1> HIDE DEF m, said
<1>4. \A a \in {"none", "ok", "held", "lost", "error"} :
        LET n == AnswerHead(m, j, a) IN Tidy(n) /\ n \in Memory /\ Kept(m, n)
  BY <1>1, AnswerHeadTidies
<1> QED BY <1>2, <1>3, <1>4 DEF Advances, m

LEMMA CreateSettlesTidy ==
  ASSUME TypeOK, AllTidy, NEW w \in Worker, NEW j \in Job, CreateSettles(w, j)
  PROVE  Advances(w)
<1> DEFINE m == mem[w]
           d == DropHead(m, j)
           e == [d.ent[j] EXCEPT !.durability = "stored"]
           stored == [d EXCEPT !.ent = [d.ent EXCEPT ![j] = e]]
           S == {j}
           p == Pull(d, S)
           settled == Settle(p, S, "failed")
           refused == IF d.ent[j].state \in Terminal THEN d ELSE settled
           said == m.chain[j][1].answer = "ok"
<1>1. /\ m \in Memory /\ Fit(m, {}) /\ Sound(m, j) /\ m.chain[j] # <<>>
      /\ m.chain[j][1].op = "create"
  BY TidyFits DEF CreateSettles, Answered, Fit
<1>2. /\ d \in Memory /\ Fit(d, {}) /\ Kept(m, d) /\ d.ent = m.ent
      /\ m.ent[j].durability = "pending"
      /\ \A i \in 1..Len(d.chain[j]) : d.chain[j][i].op # "create"
  <2> HIDE DEF m
  <2>1. Fit(d, {}) => d \in Memory
    BY DEF Fit
  <2> HIDE DEF d
  <2> QED BY <1>1, <2>1, DropFits DEF d
<1>3. Becomes(w, Pump(IF said THEN stored ELSE refused))
  <2>1. stored = [d EXCEPT !.ent[j].durability = "stored"]
    BY <1>2 DEF Memory
  <2> HIDE DEF stored
  <2> QED BY <2>1 DEF CreateSettles
<1> HIDE DEF m, d, said
<1>4. Fit(stored, {}) /\ Kept(d, stored)
  <2>1. d.ent[j] \in Entry
    BY <1>2 DEF Memory
  <2>2. /\ e \in Entry /\ e.state = d.ent[j].state /\ e.durability = "stored"
        /\ e.cancelRequested = d.ent[j].cancelRequested
    BY <2>1 DEF Entry
  <2> HIDE DEF e
  <2>3. e.cancelRequested => e.state \notin {"absent", "queued", "complete"}
    BY <1>1, <1>2, <2>2 DEF Sound
  <2> QED BY <1>2, <2>2, <2>3, EntryFits
<1>5. CASE said
  <2> HIDE DEF stored
  <2>1. LET n == Pump(stored) IN Tidy(n) /\ n \in Memory /\ Kept(stored, n)
    BY <1>4, PumpTidies
  <2>2. Kept(m, stored) /\ stored \in Memory
    BY <1>1, <1>2, <1>4, KeptTransitive DEF Fit
  <2>3. Kept(m, Pump(stored))
    BY <1>1, <2>1, <2>2, KeptTransitive
  <2> QED BY <1>3, <1>5, <2>1, <2>3 DEF Advances, m
<1>6. CASE ~said /\ d.ent[j].state \in Terminal
  <2>1. LET n == Pump(d) IN Tidy(n) /\ n \in Memory /\ Kept(d, n)
    BY <1>2, PumpTidies
  <2>2. Kept(m, Pump(d))
    BY <1>1, <1>2, <2>1, KeptTransitive
  <2> QED BY <1>3, <1>6, <2>1, <2>2 DEF Advances, m
<1>7. CASE ~said /\ d.ent[j].state \notin Terminal
  <2>1. Becomes(w, Pump(settled))
    BY <1>3, <1>7
  <2>2. d.ent[j].state = "queued"
    <3>1. m.ent[j] \in Entry
      BY <1>1 DEF Memory
    <3> QED BY <1>1, <1>2, <1>7, <3>1 DEF Sound, Entry
  <2>3. S \in SUBSET Job /\ j \in S
    OBVIOUS
  <2>4. Fit(p, {} \cup S) /\ Kept(d, p)
    <3> HIDE DEF S
    <3> QED BY <1>2, <2>3, PullFits
  <2>5. /\ p.ent = d.ent /\ p.active = d.active /\ p.deciding = d.deciding
        /\ p.queue = d.queue \ S
    <3> HIDE DEF S
    <3> QED BY <1>2, <2>3, PullFields
  <2> HIDE DEF p
  <2>6. j \notin p.queue \cup p.active \cup p.deciding /\ p.ent[j].state \in {"queued", "running"}
    BY <1>2, <2>2, <2>3, <2>5 DEF Sound, Fit
  <2>7. LET n == Pump(settled) IN Tidy(n) /\ n \in Memory /\ Kept(p, n)
    <3>1. Fit(p, {j})
      BY <2>4
    <3>2. "failed" \in Terminal
      BY DEF Terminal
    <3> QED BY <2>6, <3>1, <3>2, SettlePumpTidies
  <2> HIDE DEF settled
  <2>8. Kept(m, p) /\ p \in Memory
    BY <1>1, <1>2, <2>4, KeptTransitive DEF Fit
  <2>9. Kept(m, Pump(settled))
    BY <1>1, <2>7, <2>8, KeptTransitive
  <2> QED BY <2>1, <2>7, <2>9 DEF Advances, m
<1> QED BY <1>5, <1>6, <1>7

LEMMA WriteSettlesTidy ==
  ASSUME TypeOK, AllTidy, NEW w \in Worker, NEW j \in Job, WriteSettles(w, j)
  PROVE  Advances(w)
<1> DEFINE m == mem[w]
           d == DropHead(m, j)
           S == {j}
           lost == Lose(d, S)
           said == m.chain[j][1].answer = "lost"
           told == IF said THEN lost ELSE d
           n == CheckIdle(told)
<1>1. /\ m \in Memory /\ Tidy(m) /\ Fit(m, {}) /\ m.chain[j] # <<>>
  BY TidyFits DEF WriteSettles, Answered
<1>2. Becomes(w, n)
  BY DEF WriteSettles
<1>3. /\ d \in Memory /\ Fit(d, {}) /\ Kept(m, d) /\ d.ent = m.ent
      /\ SameSlots(m, d) /\ SameFlags(m, d) /\ AgreeAround(m, d) /\ d.deciding = m.deciding
      /\ \A i \in 1..Len(d.chain[j]) : d.chain[j][i].op # "create"
  <2> HIDE DEF m
  <2>1. Fit(d, {}) => d \in Memory
    BY DEF Fit
  <2> HIDE DEF d
  <2> QED BY <1>1, <2>1, DropFits DEF d
<1> HIDE DEF m, d, said
<1>4. Conserving(d) /\ Renewing(d)
  <2>1. Conserving(d)
    BY <1>1, <1>3, ConservingSame DEF Tidy, SameSlots, AgreeAround
  <2>2. Renewing(d)
    BY <1>1, <1>3 DEF Tidy, Renewing, Held, SameFlags, AgreeAround
  <2> QED BY <2>1, <2>2
<1>5. Fit(lost, {}) /\ Kept(d, lost) /\ Conserving(lost) /\ Renewing(lost)
  <2>1. S \in SUBSET Job /\ \A k \in S : \A i \in 1..Len(d.chain[k]) : d.chain[k][i].op # "create"
    BY <1>3
  <2> HIDE DEF S
  <2> QED BY <1>3, <1>4, <2>1, LoseFits, LoseConserves
<1> HIDE DEF lost
<1>6. /\ Fit(told, {}) /\ Conserving(told) /\ Renewing(told) /\ told \in Memory
      /\ Kept(m, told)
  <2>1. Kept(m, lost)
    BY <1>1, <1>3, <1>5, KeptTransitive DEF Fit
  <2> QED BY <1>3, <1>4, <1>5, <2>1 DEF Fit
<1> HIDE DEF told
<1>7. Tidy(n) /\ n \in Memory /\ Kept(told, n)
  BY <1>6, TellTidies
<1> HIDE DEF n
<1>8. Kept(m, n)
  BY <1>1, <1>6, <1>7, KeptTransitive
<1> QED BY <1>2, <1>7, <1>8 DEF Advances, m

LEMMA AcquireSettlesTidy ==
  ASSUME TypeOK, AllTidy, NEW w \in Worker, NEW j \in Job, AcquireSettles(w, j)
  PROVE  Advances(w)
<1> DEFINE m == mem[w]
           d == DropHead(m, j)
           S == {j}
           lost == Lose(d, S)
           answer == Head(m.chain[j]).answer
           told == IF answer = "lost" THEN lost ELSE d
           freed == Freed(told, j)
           e == [freed.ent[j] EXCEPT !.waiting = TRUE]
           held == [freed EXCEPT !.ent = [freed.ent EXCEPT ![j] = e]]
           back == Push(held, j)
           waits == [freed EXCEPT !.ent[j].waiting = TRUE]
           runs == RunClaimed(freed, j)
<1>1. /\ m \in Memory /\ Tidy(m) /\ Fit(m, {}) /\ m.chain[j] # <<>>
      /\ m.chain[j][1].op = "acquire"
  <2>1. m \in Memory /\ Tidy(m) /\ Fit(m, {})
    BY TidyFits
  <2>2. m.chain[j] # <<>> /\ Head(m.chain[j]).op = "acquire"
    BY ZenonT(30) DEF AcquireSettles, Answered
  <2> HIDE DEF m
  <2> QED BY <2>1, <2>2
<1>2. /\ d \in Memory /\ Fit(d, {}) /\ Kept(m, d) /\ d.ent = m.ent
      /\ SameSlots(m, d) /\ SameFlags(m, d) /\ AgreeAround(m, d) /\ d.deciding = m.deciding
      /\ \A i \in 1..Len(d.chain[j]) : d.chain[j][i].op # "create"
      /\ j \in d.starting /\ Ordered(d.chain[j], d.ent[j], FALSE)
  <2> HIDE DEF m
  <2>1. Fit(d, {}) => d \in Memory
    BY DEF Fit
  <2>2. SameSlots(m, d) => d.starting = m.starting
    BY DEF SameSlots
  <2> HIDE DEF d
  <2> QED BY <1>1, <2>1, <2>2, DropFits DEF d
<1>3. /\ freed.ent[j].state \in Terminal => Becomes(w, Pump(freed))
      /\ (freed.ent[j].state \notin Terminal /\ answer = "ok") => Becomes(w, runs)
      /\ (freed.ent[j].state \notin Terminal /\ answer # "ok") =>
           Becomes(w, Pump(Push(waits, j)))
  <2> DEFINE n == CASE freed.ent[j].state \in Terminal -> Pump(freed)
                    [] freed.ent[j].state \notin Terminal /\ answer = "ok" -> RunClaimed(freed, j)
                    [] OTHER -> Pump(Push(waits, j))
  <2>1. Becomes(w, n)
    BY ZenonT(30) DEF AcquireSettles, Freed
  <2> HIDE DEF m, answer, d, told, freed, waits
  <2> QED BY <2>1
<1> HIDE DEF m, d, answer
<1>4. S \in SUBSET Job /\ \A k \in Job : k \in S <=> k = j
  OBVIOUS
<1>5. /\ Fit(lost, {}) /\ Kept(d, lost)
      /\ lost.chain[j] = d.chain[j] /\ lost.starting = d.starting
  <2> HIDE DEF S
  <2>1. \A k \in S : \A i \in 1..Len(d.chain[k]) : d.chain[k][i].op # "create"
    BY <1>2, <1>4
  <2>2. Fit(lost, {}) /\ Kept(d, lost)
    BY <1>2, <1>4, <2>1, LoseFits
  <2> QED BY <1>2, <1>4, <2>2, LoseFields
<1> HIDE DEF lost
<1>6. /\ Fit(told, {}) /\ Kept(m, told) /\ told \in Memory
      /\ told.chain[j] = d.chain[j] /\ j \in told.starting
      /\ answer = "ok" => told = d
  <2>1. Kept(m, lost)
    BY <1>1, <1>2, <1>5, KeptTransitive DEF Fit
  <2> QED BY <1>2, <1>5, <2>1 DEF Fit
<1> HIDE DEF told
<1>7. OnlyWrites(told.chain[j])
  BY <1>2, <1>6 DEF Ordered, OnlyWrites
<1>8. /\ Fit(freed, {} \cup {j}) /\ Kept(told, freed) /\ Slots(told) = Slots(freed) + 1
      /\ AgreeAround(told, freed) /\ SameFlags(told, freed)
      /\ freed.ent = told.ent /\ freed.chain = told.chain
      /\ freed.queue = told.queue /\ freed.starting = told.starting \ {j}
      /\ freed.active = told.active /\ freed.deciding = told.deciding
      /\ freed.busy = told.busy \ {LaneOf[j]}
  <2>1. Fit(told, {}) /\ j \in told.starting
    BY <1>6
  <2>2. Slots(told) = Slots(freed) + 1
    BY <1>7, <2>1, FreedFits, ZenonT(30)
  <2>3. /\ Fit(freed, {} \cup {j}) /\ Kept(told, freed)
        /\ AgreeAround(told, freed) /\ SameFlags(told, freed)
        /\ freed.ent = told.ent /\ freed.chain = told.chain
        /\ freed.queue = told.queue /\ freed.starting = told.starting \ {j}
        /\ freed.active = told.active /\ freed.deciding = told.deciding
        /\ freed.busy = told.busy \ {LaneOf[j]}
    BY <1>7, <2>1, FreedFits
  <2> QED BY <2>2, <2>3
<1> HIDE DEF freed
<1>9. freed \in Memory /\ Fit(freed, {j}) /\ Kept(m, freed)
  BY <1>1, <1>6, <1>8, KeptTransitive DEF Fit
<1>10. /\ freed.ent[j].state \in {"queued"} \cup Terminal
       /\ freed.ent[j].durability # "pending"
       /\ j \notin freed.queue /\ j \notin freed.starting
  <2>1. Sound(told, j)
    BY <1>6 DEF Fit
  <2> QED BY <1>6, <1>8, <2>1 DEF Sound
<1>11. CASE freed.ent[j].state \in Terminal
  <2>1. Fit(freed, {})
    <3>1. Housed(freed, j)
      BY <1>11 DEF Housed, Terminal
    <3> QED BY <1>9, <3>1 DEF Fit
  <2>2. LET n == Pump(freed) IN Tidy(n) /\ n \in Memory /\ Kept(freed, n)
    BY <2>1, PumpTidies
  <2>3. Kept(m, Pump(freed))
    BY <1>1, <1>9, <2>2, KeptTransitive
  <2> QED BY <1>3, <1>11, <2>2, <2>3 DEF Advances, m
<1>12. CASE freed.ent[j].state \notin Terminal /\ answer = "ok"
  <2>1. /\ Fit(runs, {}) /\ Kept(freed, runs) /\ Slots(runs) = Slots(freed) + 1
        /\ AgreeAround(freed, runs) /\ SameFlags(freed, runs) /\ runs.queue = freed.queue
        /\ runs.starting = freed.starting /\ runs.active = freed.active \cup {j}
        /\ runs.deciding = freed.deciding /\ runs.busy = freed.busy \cup LanesOf({j})
        /\ runs.ent[j].state = "running" /\ runs.ent[j].durability = freed.ent[j].durability
        /\ \A k \in Job : k # j => runs.ent[k] = freed.ent[k]
    <3>1. freed.ent[j].state = "queued"
      BY <1>10, <1>12
    <3>2. LaneOf[j] \notin freed.busy
      BY <1>8
    <3>3. j \notin freed.queue \cup freed.starting
      BY <1>10
    <3>4. Slots(freed) + 1 <= Concurrency
      <4>1. Slots(told) <= Concurrency
        BY <1>6 DEF Fit, Slotted, Slots
      <4> QED BY <1>8, <4>1
    <3> QED BY <1>9, <1>10, <3>1, <3>2, <3>3, <3>4, RunClaimedFits
  <2> HIDE DEF runs
  <2>2. told = d
    BY <1>6, <1>12
  <2>3. runs.busy = d.busy
    <3>1. d.busy = LanesOf(InUse(d)) /\ j \in InUse(d)
      BY <1>2 DEF Fit, Slotted, InUse
    <3>2. runs.busy = (d.busy \ {LaneOf[j]}) \cup LanesOf({j})
      BY <1>8, <2>1, <2>2
    <3> QED BY <3>1, <3>2 DEF LanesOf
  <2>4. Conserving(runs)
    <3>1. Conserving(d)
      BY <1>1, <1>2, ConservingSame DEF Tidy, SameSlots, AgreeAround
    <3>2. Slots(runs) = Slots(d)
      BY <1>8, <2>1, <2>2
    <3>3. d.queue \in SUBSET Job /\ runs.queue = d.queue /\ j \notin d.queue
      BY <1>2, <1>8, <1>10, <2>1, <2>2 DEF Memory
    <3>4. \A k \in d.queue : runs.ent[k] = d.ent[k]
      BY <1>8, <2>1, <2>2, <3>3
    <3>5. Eligible(runs) = Eligible(d)
      BY <2>3, <3>3, <3>4 DEF Eligible
    <3>6. runs.deciding = d.deciding /\ runs.paused = d.paused
      BY <1>8, <2>1, <2>2 DEF AgreeAround
    <3> QED BY <3>1, <3>2, <3>5, <3>6 DEF Conserving, Slots
  <2>5. Held(runs) \subseteq Held(m)
    <3>1. \A k \in Job : k # j => runs.ent[k] = m.ent[k]
      BY <1>2, <1>8, <2>1, <2>2
    <3>2. runs.ent[j].durability = m.ent[j].durability /\ m.ent[j].state = "queued"
      BY <1>2, <1>8, <1>10, <1>12, <2>1, <2>2
    <3> QED BY <3>1, <3>2 DEF Held
  <2>6. ~Idle(runs)
    BY <2>1 DEF Idle
  <2>7. SameFlags(m, runs) /\ AgreeAround(m, runs)
    BY <1>2, <1>8, <2>1, <2>2 DEF SameFlags, AgreeAround
  <2>8. Tidy(runs)
    BY <1>1, <2>1, <2>4, <2>5, <2>6, <2>7, QuietTidies DEF SameFlags, AgreeAround
  <2>9. Kept(m, runs) /\ runs \in Memory
    BY <1>1, <1>9, <2>1, KeptTransitive DEF Fit
  <2> QED BY <1>3, <1>12, <2>8, <2>9 DEF Advances, m
<1>13. CASE freed.ent[j].state \notin Terminal /\ answer # "ok"
  <2>1. /\ e \in Entry /\ e.state = freed.ent[j].state
        /\ e.durability = freed.ent[j].durability
        /\ e.cancelRequested = freed.ent[j].cancelRequested
    <3>1. freed.ent[j] \in Entry
      BY <1>9 DEF Memory
    <3> QED BY <3>1 DEF Entry
  <2>2. held = waits
    BY <1>9 DEF Memory
  <2>3. Becomes(w, Pump(back))
    <3> HIDE DEF held, waits
    <3> QED BY <1>3, <1>13, <2>2
  <2> HIDE DEF e
  <2>4. Fit(held, {j}) /\ Kept(freed, held)
    <3>1. Sound(freed, j)
      BY <1>9 DEF Fit
    <3>2. e.cancelRequested => e.state \notin {"absent", "queued", "complete"}
      BY <2>1, <3>1 DEF Sound
    <3> QED BY <1>9, <2>1, <3>2, EntryFits
  <2>5. /\ held \in Memory /\ SameSlots(freed, held) /\ held.ent[j] = e
    BY <1>9, <2>1, EntryFields
  <2> HIDE DEF held
  <2>6. Fit(back, {j} \ {j}) /\ Kept(held, back)
    <3>1. held.ent[j].state = "queued" /\ j \notin held.queue /\ j \notin held.starting
      BY <1>10, <1>13, <2>1, <2>5 DEF SameSlots
    <3> QED BY <2>4, <3>1, PushFits
  <2> HIDE DEF back
  <2>7. Fit(back, {}) /\ back \in Memory
    BY <2>6 DEF Fit
  <2>8. LET n == Pump(back) IN Tidy(n) /\ n \in Memory /\ Kept(back, n)
    BY <2>7, PumpTidies
  <2>9. Kept(m, held)
    BY <1>1, <1>9, <2>4, <2>5, KeptTransitive
  <2>10. Kept(m, back)
    BY <1>1, <2>5, <2>6, <2>7, <2>9, KeptTransitive
  <2>11. Kept(m, Pump(back))
    BY <1>1, <2>7, <2>8, <2>10, KeptTransitive
  <2> QED BY <2>3, <2>8, <2>11 DEF Advances, m
<1> QED BY <1>11, <1>12, <1>13

(* What a handler that has ended leaves of its job.                        *)
LEMMA HandlerEnds ==
  ASSUME NEW m, Fit(m, {}), NEW j \in m.active
  PROVE  LET r == Released(m, j)
         IN /\ r \in Memory /\ Fit(r, {j}) /\ Kept(m, r) /\ AgreeAround(m, r) /\ SameFlags(m, r)
            /\ r.ent = m.ent /\ r.deciding = m.deciding
            /\ r.ent[j].state = "running" /\ j \notin r.queue \cup r.active \cup r.deciding
<1> DEFINE r == Released(m, j)
<1>1. /\ Fit(r, {} \cup {j}) /\ Kept(m, r)
      /\ AgreeAround(m, r) /\ SameFlags(m, r) /\ r.ent = m.ent
      /\ r.queue = m.queue /\ r.deciding = m.deciding /\ r.active = m.active \ {j}
  BY ReleasedFits
<1> HIDE DEF r
<1>2. m \in Memory /\ j \in Job
  BY DEF Fit, Memory
<1>3. Sound(m, j)
  BY <1>2 DEF Fit
<1>4. r.ent[j].state = "running" /\ j \notin r.queue \cup r.active \cup r.deciding
  BY <1>1, <1>3 DEF Sound
<1>5. r \in Memory /\ Fit(r, {j})
  BY <1>1 DEF Fit
<1> QED BY <1>1, <1>4, <1>5 DEF r

LEMMA EndedSettles ==
  ASSUME NEW m, Fit(m, {}), NEW j \in m.active, NEW state \in Terminal,
         state = "complete" => ~Released(m, j).ent[j].cancelRequested
  PROVE  LET n == Pump(Settle(Released(m, j), {j}, state))
         IN Tidy(n) /\ n \in Memory /\ Kept(m, n)
<1> DEFINE r == Released(m, j)
           n == Pump(Settle(r, {j}, state))
<1>1. m \in Memory /\ j \in Job
  BY DEF Fit, Memory
<1>2. /\ r \in Memory /\ Fit(r, {j}) /\ Kept(m, r)
      /\ r.ent[j].state = "running" /\ j \notin r.queue \cup r.active \cup r.deciding
  BY HandlerEnds
<1>3. state = "complete" => ~r.ent[j].cancelRequested
  OBVIOUS
<1> HIDE DEF r
<1>4. Tidy(n) /\ n \in Memory /\ Kept(r, n)
  BY <1>1, <1>2, <1>3, SettlePumpTidies
<1> HIDE DEF n
<1>5. Kept(m, n)
  BY <1>1, <1>2, <1>4, KeptTransitive
<1> QED BY <1>4, <1>5 DEF n, r

LEMMA HandlerReturnsTidy ==
  ASSUME TypeOK, AllTidy, NEW w \in Worker, NEW j \in Job, HandlerReturns(w, j)
  PROVE  Advances(w)
<1> DEFINE m == mem[w]
           r == Released(m, j)
           e == r.ent[j]
           state == IF LeaseLost(e) THEN "failed"
                    ELSE IF e.cancelRequested THEN "cancelled" ELSE "complete"
           n == Pump(Settle(r, {j}, state))
<1>1. Fit(m, {}) /\ j \in m.active
  BY TidyFits DEF HandlerReturns
<1>2. Becomes(w, n)
  BY DEF HandlerReturns
<1>3. state \in Terminal /\ (state = "complete" => ~e.cancelRequested)
  BY DEF Terminal
<1> HIDE DEF m, state
<1>4. Tidy(n) /\ n \in Memory /\ Kept(m, n)
  BY <1>1, <1>3, EndedSettles
<1> HIDE DEF n
<1> QED BY <1>2, <1>4 DEF Advances, m

LEMMA HandlerThrowsTidy ==
  ASSUME TypeOK, AllTidy, NEW w \in Worker, NEW j \in Job, HandlerThrows(w, j)
  PROVE  Advances(w)
<1> DEFINE m == mem[w]
           r == Released(m, j)
           failed == Pump(Settle(r, {j}, "failed"))
           cancelled == Pump(Settle(r, {j}, "cancelled"))
           n == [r EXCEPT !.deciding = @ \cup {j}]
<1>1. m \in Memory /\ Tidy(m) /\ Fit(m, {}) /\ j \in m.active
  BY TidyFits DEF HandlerThrows
<1>2. Becomes(w, failed) \/ Becomes(w, cancelled) \/ Becomes(w, n)
  <2>1. Becomes(w, CASE LeaseLost(r.ent[j]) -> failed
                     [] ~LeaseLost(r.ent[j]) /\ r.ent[j].cancelRequested -> cancelled
                     [] OTHER -> IF r.closed THEN failed ELSE n)
    BY DEF HandlerThrows
  <2> HIDE DEF failed, cancelled, n, r
  <2> QED BY <2>1
<1> HIDE DEF m
<1>3. /\ Tidy(failed) /\ failed \in Memory /\ Kept(m, failed)
      /\ Tidy(cancelled) /\ cancelled \in Memory /\ Kept(m, cancelled)
  <2>1. "failed" \in Terminal /\ "cancelled" \in Terminal
    BY DEF Terminal
  <2> QED BY <1>1, <2>1, EndedSettles
<1>4. /\ r \in Memory /\ Fit(r, {j}) /\ Kept(m, r) /\ AgreeAround(m, r) /\ SameFlags(m, r)
      /\ r.ent = m.ent /\ r.ent[j].state = "running"
      /\ j \notin r.queue \cup r.active \cup r.deciding
  BY <1>1, HandlerEnds
<1> HIDE DEF r
<1>5. /\ Fit(n, {}) /\ Kept(r, n) /\ AgreeAround(r, n) /\ SameFlags(r, n)
      /\ n.ent = r.ent /\ n.deciding = r.deciding \cup {j}
  BY <1>4, DecidingFits
<1> HIDE DEF n
<1>6. Kept(m, n) /\ n \in Memory
  BY <1>1, <1>4, <1>5, KeptTransitive DEF Fit
<1>7. Conserving(n) /\ ~Idle(n)
  BY <1>5 DEF Conserving, Idle
<1>8. Held(n) = Held(m)
  BY <1>4, <1>5 DEF Held
<1>9. SameFlags(m, n) /\ AgreeAround(m, n)
  BY <1>4, <1>5 DEF SameFlags, AgreeAround
<1>10. Tidy(n)
  BY <1>1, <1>5, <1>7, <1>8, <1>9, QuietTidies DEF SameFlags, AgreeAround
<1> HIDE DEF failed, cancelled
<1> QED BY <1>2, <1>3, <1>6, <1>10 DEF Advances, m

LEMMA PolicyAnswersTidy ==
  ASSUME TypeOK, AllTidy, NEW w \in Worker, NEW j \in Job, PolicyAnswers(w, j)
  PROVE  Advances(w)
<1> DEFINE m == mem[w]
           d == [m EXCEPT !.deciding = @ \ {j}]
           failed == Pump(Settle(d, {j}, "failed"))
           cancelled == Pump(Settle(d, {j}, "cancelled"))
           again == Requeue(d, j)
<1>1. m \in Memory /\ Fit(m, {}) /\ Sound(m, j) /\ j \in m.deciding
  BY TidyFits DEF PolicyAnswers, Fit
<1>2. \/ Becomes(w, failed)
      \/ Becomes(w, cancelled)
      \/ ~m.ent[j].cancelRequested /\ Becomes(w, Pump(again))
  <2>1. PICK retried \in BOOLEAN :
          Becomes(w, Pump(CASE m.ent[j].cancelRequested -> Settle(d, {j}, "cancelled")
                            [] ~m.ent[j].cancelRequested /\ retried -> again
                            [] OTHER -> Settle(d, {j}, "failed")))
    BY DEF PolicyAnswers
  <2> HIDE DEF d, again
  <2> QED BY <2>1
<1> HIDE DEF m
<1>3. /\ Fit(d, {j}) /\ Kept(m, d) /\ d.ent = m.ent /\ d.queue = m.queue
      /\ d.active = m.active /\ d.deciding = m.deciding \ {j}
  BY <1>1, DecidedFits
<1> HIDE DEF d
<1>4. d \in Memory /\ d.ent[j].state = "running" /\ j \notin d.queue \cup d.active \cup d.deciding
  BY <1>1, <1>3 DEF Sound, Fit
<1>5. \A state \in {"failed", "cancelled"} :
        LET n == Pump(Settle(d, {j}, state)) IN Tidy(n) /\ n \in Memory /\ Kept(m, n)
  <2> SUFFICES ASSUME NEW state \in {"failed", "cancelled"}
               PROVE  LET n == Pump(Settle(d, {j}, state))
                      IN Tidy(n) /\ n \in Memory /\ Kept(m, n)
    OBVIOUS
  <2> DEFINE n == Pump(Settle(d, {j}, state))
  <2>1. state \in Terminal /\ state # "complete"
    BY DEF Terminal
  <2>2. Tidy(n) /\ n \in Memory /\ Kept(d, n)
    BY <1>3, <1>4, <2>1, SettlePumpTidies
  <2> HIDE DEF n
  <2>3. Kept(m, n)
    BY <1>1, <1>3, <1>4, <2>2, KeptTransitive
  <2> QED BY <2>2, <2>3 DEF n
<1>6. ASSUME ~m.ent[j].cancelRequested
      PROVE  LET n == Pump(again) IN Tidy(n) /\ n \in Memory /\ Kept(m, n)
  <2>1. Fit(again, {}) /\ Kept(d, again)
    <3>1. ~d.ent[j].cancelRequested /\ j \notin d.active \cup d.deciding
      BY <1>3, <1>4, <1>6
    <3> QED BY <1>3, <1>4, <3>1, RequeueFits
  <2> HIDE DEF again
  <2>2. again \in Memory /\ Kept(m, again)
    BY <1>1, <1>3, <1>4, <2>1, KeptTransitive DEF Fit
  <2>3. LET n == Pump(again) IN Tidy(n) /\ n \in Memory /\ Kept(again, n)
    BY <2>1, PumpTidies
  <2>4. Kept(m, Pump(again))
    BY <1>1, <2>2, <2>3, KeptTransitive
  <2> QED BY <2>3, <2>4
<1>7. /\ Tidy(failed) /\ failed \in Memory /\ Kept(m, failed)
      /\ Tidy(cancelled) /\ cancelled \in Memory /\ Kept(m, cancelled)
  BY <1>5
<1> HIDE DEF failed, cancelled, again
<1> QED BY <1>2, <1>6, <1>7 DEF Advances, m

LEMMA WakeTidy ==
  ASSUME TypeOK, AllTidy, NEW w \in Worker, NEW j \in Job, Wake(w, j)
  PROVE  Advances(w)
<1> DEFINE m == mem[w]
           e == [m.ent[j] EXCEPT !.waiting = FALSE]
           due == [m EXCEPT !.ent = [m.ent EXCEPT ![j] = e]]
<1>1. m \in Memory /\ Tidy(m) /\ Fit(m, {}) /\ Sound(m, j)
  BY TidyFits DEF Fit
<1>2. Becomes(w, IF due.paused THEN due ELSE Pump(due))
  <2>1. due = [m EXCEPT !.ent[j].waiting = FALSE]
    BY <1>1 DEF Memory
  <2> HIDE DEF due
  <2> QED BY <2>1 DEF Wake
<1> HIDE DEF m
<1>3. /\ e \in Entry /\ e.state = m.ent[j].state
      /\ e.durability = m.ent[j].durability
      /\ e.cancelRequested = m.ent[j].cancelRequested
  <2>1. m.ent[j] \in Entry
    BY <1>1 DEF Memory
  <2> QED BY <2>1 DEF Entry
<1> HIDE DEF e
<1>4. Fit(due, {}) /\ Kept(m, due)
  <2>1. e.cancelRequested => e.state \notin {"absent", "queued", "complete"}
    BY <1>1, <1>3 DEF Sound
  <2> QED BY <1>1, <1>3, <2>1, EntryFits
<1>5. /\ due \in Memory /\ AgreeAround(m, due) /\ SameFlags(m, due) /\ SameSlots(m, due)
      /\ due.chain = m.chain /\ due.deciding = m.deciding
      /\ due.ent[j] = e /\ \A k \in Job : k # j => due.ent[k] = m.ent[k]
  BY <1>1, <1>3, EntryFields
<1> HIDE DEF due
<1>6. CASE due.paused
  <2>1. Conserving(due)
    BY <1>6 DEF Conserving
  <2>2. Held(due) = Held(m)
    BY <1>3, <1>5, HeldAlike
  <2>3. Idle(due) = Idle(m)
    BY <1>5 DEF Idle, Writing, SameSlots
  <2>4. Tidy(due)
    BY <1>1, <1>4, <1>5, <2>1, <2>2, <2>3, QuietTidies DEF AgreeAround, SameFlags
  <2> QED BY <1>2, <1>4, <1>5, <1>6, <2>4 DEF Advances, m
<1>7. CASE ~due.paused
  <2>1. LET n == Pump(due) IN Tidy(n) /\ n \in Memory /\ Kept(due, n)
    BY <1>4, PumpTidies
  <2>2. Kept(m, Pump(due))
    BY <1>1, <1>4, <1>5, <2>1, KeptTransitive
  <2> QED BY <1>2, <1>7, <2>1, <2>2 DEF Advances, m
<1> QED BY <1>6, <1>7

-----------------------------------------------------------------------------
(* The heartbeat.                                                          *)

(* What is in flight in a beat moves on.                                   *)
LEMMA BeatMoves ==
  ASSUME NEW m, Tidy(m), Fit(m, {}), NEW b \in Beats, NEW x \in Beat, x # NoBeat,
         x.ids \subseteq m.beats[b].ids,
         m.beats[b].phase \in {"adopting", "adopted"} => x.phase \in {"adopting", "adopted"}
  PROVE  LET n == [m EXCEPT !.beats = [m.beats EXCEPT ![b] = x]]
         IN Tidy(n) /\ n \in Memory /\ Kept(m, n)
<1> DEFINE n == [m EXCEPT !.beats = [m.beats EXCEPT ![b] = x]]
<1>1. \A k \in x.ids : m.ent[k].state # "absent" /\ m.ent[k].durability # "pending"
  <2>1. x.ids \subseteq Job
    BY DEF Beat
  <2> QED BY <2>1 DEF Fit, Sound
<1>2. /\ Fit(n, {}) /\ Kept(m, n)
      /\ Conserving(m) => Conserving(n)
      /\ n.beats[b] = x /\ \A a \in Beats : a # b => n.beats[a] = m.beats[a]
      /\ SameFlags(m, n) /\ n.ent = m.ent /\ n.chain = m.chain /\ n.queue = m.queue
      /\ n.starting = m.starting /\ n.active = m.active /\ n.deciding = m.deciding
  BY <1>1, BeatFits
<1> HIDE DEF n
<1>3. Held(n) = Held(m) /\ Idle(n) = Idle(m)
  BY <1>2 DEF Held, Idle, Writing
<1>4. \A a \in Beats : /\ m.beats[a] # NoBeat => n.beats[a] # NoBeat
                       /\ m.beats[a].phase \in {"adopting", "adopted"}
                            => n.beats[a].phase \in {"adopting", "adopted"}
  BY <1>2
<1>5. Conserving(n)
  BY <1>2 DEF Tidy
<1>6. Tidy(n)
  BY <1>2, <1>3, <1>4, <1>5, QuietTidies DEF SameFlags
<1> QED BY <1>2, <1>6 DEF n, Fit

LEMMA BeatStartsTidy ==
  ASSUME TypeOK, AllTidy, NEW w \in Worker, NEW b \in Beats, BeatStarts(w, b)
  PROVE  Advances(w)
<1> DEFINE p == mem[w]
           m == [p EXCEPT !.timer = FALSE]
           x == [NoBeat EXCEPT !.phase = "renewing", !.ids = Held(m)]
           n == [m EXCEPT !.beats = [m.beats EXCEPT ![b] = x]]
<1>1. p \in Memory /\ Tidy(p) /\ Fit(p, {})
  BY TidyFits
<1>2. m \in Memory
  <2> HIDE DEF p
  <2> QED BY <1>1 DEF Memory
<1>3. Becomes(w, IF Held(m) = {} THEN AskToAdopt(m, b) ELSE n) /\ m.beats[b] = NoBeat
  <2>1. n = [m EXCEPT !.beats[b] = x]
    <3> HIDE DEF x, m
    <3> QED BY <1>2 DEF Memory
  <2> HIDE DEF n
  <2> QED BY <2>1 DEF BeatStarts
<1> HIDE DEF p
<1>4. /\ SameSlots(p, m) /\ m.deciding = p.deciding /\ m.paused = p.paused
      /\ m.ent = p.ent /\ m.chain = p.chain /\ m.beats = p.beats
      /\ m.drain = p.drain /\ m.close = p.close
  BY <1>1 DEF Memory, SameSlots
<1> HIDE DEF m
<1>5. Fit(m, {}) /\ Kept(p, m)
  BY <1>1, <1>2, <1>4, FlagsFit DEF Alike, SameSlots
<1>6. Conserving(m)
  BY <1>1, <1>4, ConservingSame DEF Tidy, SameSlots
<1>7. CASE Held(m) = {}
  <2>1. LET a == AskToAdopt(m, b) IN Tidy(a) /\ a \in Memory /\ Kept(m, a)
    BY <1>5, <1>6, AskToAdoptTidies
  <2>2. Kept(p, AskToAdopt(m, b))
    BY <1>1, <1>2, <1>5, <2>1, KeptTransitive
  <2> QED BY <1>3, <1>7, <2>1, <2>2 DEF Advances, p
<1>8. CASE Held(m) # {}
  <2>1. x \in Beat /\ x.phase = "renewing" /\ x.ids = Held(m) /\ x # NoBeat
    <3>1. Held(m) \in SUBSET Job
      BY DEF Held
    <3> QED BY <3>1 DEF NoBeat, NoClaims, Beat, Claims
  <2>2. \A k \in x.ids : m.ent[k].state # "absent" /\ m.ent[k].durability # "pending"
    BY <2>1 DEF Held
  <2> HIDE DEF x
  <2>3. /\ Fit(n, {}) /\ Kept(m, n)
        /\ Conserving(n)
        /\ n.beats[b] = x /\ \A a \in Beats : a # b => n.beats[a] = m.beats[a]
        /\ SameFlags(m, n) /\ n.chain = m.chain /\ n.queue = m.queue
        /\ n.starting = m.starting /\ n.active = m.active /\ n.deciding = m.deciding
    BY <1>5, <1>6, <2>1, <2>2, BeatFits
  <2> HIDE DEF n
  <2>4. Renewing(n)
    BY <2>1, <2>3 DEF Renewing
  <2>5. Reported(n)
    <3>1. Idle(n) => Idle(p)
      BY <1>4, <2>3 DEF Idle, Writing, SameSlots
    <3>2. m.beats[b].phase \notin {"adopting", "adopted"}
      BY <1>3 DEF NoBeat
    <3>3. \A a \in Beats : m.beats[a].phase \in {"adopting", "adopted"}
                             => n.beats[a].phase \in {"adopting", "adopted"}
      BY <2>3, <3>2
    <3> QED BY <1>1, <1>4, <2>3, <3>1, <3>3 DEF Tidy, Reported, SameFlags
  <2>6. Tidy(n) /\ n \in Memory
    BY <2>3, <2>4, <2>5 DEF Tidy, Fit
  <2>7. Kept(p, n)
    BY <1>1, <1>2, <1>5, <2>3, <2>6, KeptTransitive
  <2> QED BY <1>3, <1>8, <2>6, <2>7 DEF Advances, p
<1> QED BY <1>7, <1>8

LEMMA RenewExecutesTidy ==
  ASSUME TypeOK, AllTidy, NEW w \in Worker, NEW b \in Beats, RenewExecutes(w, b)
  PROVE  Advances(w)
<1> DEFINE m == mem[w]
           ids == m.beats[b].ids
           lost == RenewLost(row, w, ids)
           x == [m.beats[b] EXCEPT !.phase = "renewed", !.ids = lost]
           n == [m EXCEPT !.beats = [m.beats EXCEPT ![b] = x]]
<1>1. m \in Memory /\ Tidy(m) /\ Fit(m, {}) /\ m.beats[b].phase = "renewing"
  BY TidyFits DEF RenewExecutes
<1>2. Becomes(w, n)
  <2>1. n = [m EXCEPT !.beats[b] = x]
    <3> HIDE DEF x, m
    <3> QED BY <1>1 DEF Memory
  <2> HIDE DEF n
  <2> QED BY <2>1 DEF RenewExecutes
<1> HIDE DEF m
<1>3. x \in Beat /\ x.phase = "renewed" /\ x.ids \subseteq m.beats[b].ids /\ x # NoBeat
  <2>1. m.beats[b] \in Beat
    BY <1>1 DEF Memory
  <2>2. lost \subseteq ids /\ ids \in SUBSET Job
    BY <2>1 DEF RenewLost, Beat
  <2> HIDE DEF lost
  <2>3. x \in Beat /\ x.phase = "renewed" /\ x.ids = lost
    BY <2>1, <2>2 DEF Beat
  <2> QED BY <2>2, <2>3 DEF NoBeat
<1> HIDE DEF x
<1>4. Tidy(n) /\ n \in Memory /\ Kept(m, n)
  BY <1>1, <1>3, BeatMoves
<1> HIDE DEF n
<1> QED BY <1>2, <1>4 DEF Advances, m

LEMMA RenewedTidy ==
  ASSUME TypeOK, AllTidy, NEW w \in Worker, NEW b \in Beats, Renewed(w, b)
  PROVE  Advances(w)
<1> DEFINE m == mem[w]
           ids == m.beats[b].ids
           lost == Lose(m, ids)
           n == AskToAdopt(lost, b)
<1>1. m \in Memory /\ Tidy(m) /\ Fit(m, {})
  BY TidyFits
<1>2. Becomes(w, n)
  BY DEF Renewed
<1> HIDE DEF m
<1>3. ids \in SUBSET Job
  <2>1. m.beats[b] \in Beat
    BY <1>1 DEF Memory
  <2> QED BY <2>1 DEF Beat
<1>4. \A k \in ids : m.ent[k].durability # "pending"
  BY <1>1, <1>3 DEF Fit, Sound
<1> HIDE DEF ids
<1>5. Fit(lost, {}) /\ Kept(m, lost) /\ Conserving(lost)
  BY <1>1, <1>3, <1>4, LoseFits, LoseConserves DEF Tidy
<1> HIDE DEF lost
<1>6. Tidy(n) /\ n \in Memory /\ Kept(lost, n)
  BY <1>5, AskToAdoptTidies
<1> HIDE DEF n
<1>7. Kept(m, n)
  BY <1>1, <1>5, <1>6, KeptTransitive DEF Fit
<1> QED BY <1>2, <1>6, <1>7 DEF Advances, m

LEMMA AdoptExecutesTidy ==
  ASSUME TypeOK, AllTidy, NEW w \in Worker, NEW b \in Beats, AdoptExecutes(w, b)
  PROVE  Advances(w)
<1>1. PICK S \in AdoptionBatches(row, w) :
        Becomes(w, [mem[w] EXCEPT !.beats[b] =
                     [@ EXCEPT !.phase = "adopted", !.got = ClaimsOf(S)]])
  BY DEF AdoptExecutes
<1> DEFINE m == mem[w]
           got == ClaimsOf(S)
           x == [m.beats[b] EXCEPT !.phase = "adopted", !.got = got]
           n == [m EXCEPT !.beats = [m.beats EXCEPT ![b] = x]]
<1>2. m \in Memory /\ Tidy(m) /\ Fit(m, {}) /\ row \in Table
  BY TidyFits DEF TypeOK
<1>3. Becomes(w, n)
  <2>1. n = [m EXCEPT !.beats[b] = x]
    <3> HIDE DEF x, m
    <3> QED BY <1>2 DEF Memory
  <2> HIDE DEF n
  <2> QED BY <1>1, <2>1
<1> HIDE DEF m
<1>4. got \in Claims
  <2>1. S \in SUBSET Job
    BY DEF AdoptionBatches, Abandoned, Outstanding
  <2> QED BY <1>2, <2>1, ClaimsOfType
<1> HIDE DEF got
<1>5. x \in Beat /\ x.phase = "adopted" /\ x.ids \subseteq m.beats[b].ids /\ x # NoBeat
  <2>1. m.beats[b] \in Beat
    BY <1>2 DEF Memory
  <2>2. x \in Beat /\ x.phase = "adopted" /\ x.ids = m.beats[b].ids
    BY <1>4, <2>1 DEF Beat
  <2> QED BY <2>2 DEF NoBeat
<1> HIDE DEF x
<1>6. Tidy(n) /\ n \in Memory /\ Kept(m, n)
  BY <1>2, <1>5, BeatMoves
<1> HIDE DEF n
<1> QED BY <1>3, <1>6 DEF Advances, m

LEMMA AdoptedTidy ==
  ASSUME TypeOK, AllTidy, NEW w \in Worker, NEW b \in Beats, Adopted(w, b)
  PROVE  Advances(w)
<1> DEFINE m == mem[w]
           got == m.beats[b].got
<1>1. m \in Memory /\ Fit(m, {}) /\ got \in Claims
  <2>1. mem[w] \in Memory /\ Fit(mem[w], {})
    BY TidyFits
  <2>2. mem[w].beats[b] \in Beat
    BY <2>1 DEF Memory
  <2> QED BY <2>1, <2>2 DEF Beat
<1>2. PICK age \in AgeOrders(NewClaims(m, got)) :
        Becomes(w, EndBeat(RestoreAll(m, got, age), b))
  BY DEF Adopted
<1> DEFINE r == RestoreAll(m, got, age)
           n == EndBeat(r, b)
<1> HIDE DEF m, got
<1>3. Fit(r, {}) /\ Kept(m, r)
  BY <1>1, <1>2, RestoreFits
<1> HIDE DEF r
<1>4. Tidy(n) /\ n \in Memory /\ Kept(r, n)
  BY <1>3, EndBeatTidies
<1>5. Becomes(w, n)
  BY <1>2 DEF r
<1> HIDE DEF n
<1>6. Kept(m, n)
  BY <1>1, <1>3, <1>4, KeptTransitive DEF Fit
<1> QED BY <1>4, <1>5, <1>6 DEF Advances, m

LEMMA BeatFailsTidy ==
  ASSUME TypeOK, AllTidy, NEW w \in Worker, NEW b \in Beats, BeatFails(w, b)
  PROVE  Advances(w)
<1>1. Tidy(mem[w]) /\ Fit(mem[w], {}) /\ Conserving(mem[w])
  BY TidyFits DEF Tidy
<1>2. Becomes(w, AskToAdopt(mem[w], b)) \/ Becomes(w, EndBeat(mem[w], b))
  BY DEF BeatFails
<1> DEFINE m == mem[w]
<1>3. m = mem[w]
  OBVIOUS
<1> HIDE DEF m
<1>4. LET n == AskToAdopt(m, b) IN Tidy(n) /\ n \in Memory /\ Kept(m, n)
  BY <1>1, <1>3, AskToAdoptTidies
<1>5. LET n == EndBeat(m, b) IN Tidy(n) /\ n \in Memory /\ Kept(m, n)
  BY <1>1, <1>3, EndBeatTidies
<1> QED BY <1>2, <1>3, <1>4, <1>5 DEF Advances

-----------------------------------------------------------------------------
(* Processes.                                                              *)

(* A process that knows of no job.                                         *)
LEMMA BlankFits ==
  ASSUME NEW m \in Memory, m.ent = Fresh.ent, m.chain = Fresh.chain, m.beats = Fresh.beats,
         m.queue = {}, m.ahead = {}, m.starting = {}, m.active = {}, m.deciding = {}, m.busy = {},
         m.drain = "none", m.close = "none"
  PROVE  Fit(m, {}) /\ Tidy(m)
<1>1. \A k \in Job : m.ent[k] = Unknown /\ m.chain[k] = <<>>
  BY DEF Fresh
<1>2. \A a \in Beats : m.beats[a].ids = {}
  BY DEF Fresh, NoBeat
<1>3. \A k \in Job : Sound(m, k) /\ Housed(m, k)
  BY <1>1, <1>2 DEF Unknown, Sound, Housed, Terminal, Ordered
<1>4. Slotted(m)
  <2>1. Lines(m.ahead, m.queue) /\ m.ahead \subseteq m.queue \X m.queue
    BY DEF Lines
  <2>2. InUse(m) = {} /\ LanesOf(InUse(m)) = {}
    BY DEF InUse, LanesOf
  <2>3. Cardinality(m.starting) = 0 /\ Cardinality(m.active) = 0
    BY FS_EmptySet
  <2>4. 0 + 0 <= Concurrency
    BY ConcurrencyAssumption
  <2>5. Cardinality(m.starting) + Cardinality(m.active) <= Concurrency
    BY <2>3, <2>4
  <2> QED BY <2>1, <2>2, <2>5 DEF Slotted
<1>5. Conserving(m)
  BY DEF Conserving, Eligible
<1>6. Held(m) = {}
  BY <1>1 DEF Held, Unknown
<1>7. Renewing(m) /\ Reported(m)
  BY <1>6 DEF Renewing, Reported
<1> QED BY <1>3, <1>4, <1>5, <1>7 DEF Fit, Tidy

LEMMA BootTidy ==
  ASSUME TypeOK, AllTidy, NEW w \in Worker, Boot(w)
  PROVE  Advances(w)
<1> DEFINE asks == IF Mode = "memory" THEN "no" ELSE "asked"
           n == [Fresh EXCEPT !.paused = TRUE, !.loading = asks]
<1>1. Becomes(w, n) /\ ~mem[w].up
  BY DEF Boot
<1>2. asks \in {"no", "asked", "answered"} /\ Fresh \in Memory
  BY EmptyTypes
<1> HIDE DEF asks
<1>3. /\ n \in Memory /\ n.ent = Fresh.ent /\ n.chain = Fresh.chain /\ n.beats = Fresh.beats
      /\ n.queue = {} /\ n.ahead = {} /\ n.starting = {} /\ n.active = {} /\ n.deciding = {}
      /\ n.busy = {} /\ n.drain = "none" /\ n.close = "none"
  <2>1. n \in Memory
    BY <1>2 DEF Memory
  <2> QED BY <2>1 DEF Fresh
<1> HIDE DEF n
<1>4. Tidy(n)
  BY <1>3, BlankFits
<1> QED BY <1>1, <1>3, <1>4 DEF Advances

LEMMA CrashTidy ==
  ASSUME TypeOK, AllTidy, NEW w \in Worker, Crash(w)
  PROVE  Advances(w)
<1>1. Becomes(w, Down)
  BY DEF Crash
<1>2. /\ Down \in Memory /\ ~Down.up
      /\ Down.ent = Fresh.ent /\ Down.chain = Fresh.chain /\ Down.beats = Fresh.beats
      /\ Down.queue = {} /\ Down.ahead = {} /\ Down.starting = {} /\ Down.active = {}
      /\ Down.deciding = {} /\ Down.busy = {} /\ Down.drain = "none" /\ Down.close = "none"
  <2>1. Down \in Memory
    BY EmptyTypes
  <2> QED BY <2>1 DEF Down, Fresh
<1>3. Tidy(Down)
  BY <1>2, BlankFits
<1> QED BY <1>1, <1>2, <1>3 DEF Advances

(* The load's flags are nobody's business but Recovered's.                 *)
LEMMA LoadingTidies ==
  ASSUME NEW m, Tidy(m), Fit(m, {}), NEW said \in {"no", "asked", "answered"},
         NEW got \in Claims
  PROVE  LET n == [m EXCEPT !.loading = said, !.loaded = got]
         IN Tidy(n) /\ Fit(n, {}) /\ n \in Memory /\ Kept(m, n)
<1> DEFINE n == [m EXCEPT !.loading = said, !.loaded = got]
<1>1. m \in Memory
  BY DEF Fit
<1>2. /\ n \in Memory /\ SameSlots(m, n) /\ n.deciding = m.deciding /\ n.paused = m.paused
      /\ n.ent = m.ent /\ n.chain = m.chain /\ n.beats = m.beats /\ SameFlags(m, n)
  BY <1>1 DEF Memory, SameSlots, SameFlags
<1> HIDE DEF n
<1>3. Fit(n, {}) /\ Kept(m, n)
  BY <1>2, FlagsFit DEF Alike, SameSlots
<1>4. Conserving(n)
  BY <1>2, ConservingSame DEF Tidy, SameSlots
<1>5. Idle(n) = Idle(m) /\ Held(n) = Held(m)
  BY <1>2 DEF Idle, Writing, SameSlots, Held
<1>6. Tidy(n)
  BY <1>2, <1>3, <1>4, <1>5, QuietTidies DEF SameFlags
<1> QED BY <1>2, <1>3, <1>6 DEF n

LEMMA LoadExecutesTidy ==
  ASSUME TypeOK, AllTidy, NEW w \in Worker, LoadExecutes(w)
  PROVE  Advances(w)
<1>0. PICK S \in LoadBatches(row, w) :
        Becomes(w, [mem[w] EXCEPT !.loading = "answered", !.loaded = ClaimsOf(S)])
  BY DEF LoadExecutes
<1> DEFINE m == mem[w]
           got == ClaimsOf(S)
           n == [m EXCEPT !.loading = "answered", !.loaded = got]
<1>1. Tidy(m) /\ Fit(m, {}) /\ row \in Table
  BY TidyFits DEF TypeOK
<1>2. Becomes(w, n)
  BY <1>0
<1>3. got \in Claims
  <2>1. S \in SUBSET Job
    BY DEF LoadBatches, Loadable, Outstanding
  <2> QED BY <1>1, <2>1, ClaimsOfType
<1> HIDE DEF m, got
<1>4. Tidy(n) /\ n \in Memory /\ Kept(m, n)
  BY <1>1, <1>3, LoadingTidies
<1> HIDE DEF n
<1> QED BY <1>2, <1>4 DEF Advances, m

LEMMA LoadFailsTidy ==
  ASSUME TypeOK, AllTidy, NEW w \in Worker, LoadFails(w)
  PROVE  Advances(w)
<1> DEFINE m == mem[w]
           got == m.loaded
           n == [m EXCEPT !.loading = "no", !.loaded = got]
<1>1. m \in Memory /\ Tidy(m) /\ Fit(m, {})
  BY TidyFits
<1>2. Becomes(w, n) /\ got \in Claims
  <2>1. Becomes(w, [m EXCEPT !.loading = "no"])
    BY DEF LoadFails
  <2> HIDE DEF m
  <2>2. n = [m EXCEPT !.loading = "no"] /\ got \in Claims
    BY <1>1 DEF Memory
  <2> HIDE DEF n
  <2> QED BY <2>1, <2>2
<1> HIDE DEF m, got
<1>3. Tidy(n) /\ n \in Memory /\ Kept(m, n)
  BY <1>1, <1>2, LoadingTidies
<1> HIDE DEF n
<1> QED BY <1>2, <1>3 DEF Advances, m

(* A step that ends by arming the heartbeat.                               *)
LEMMA ScheduledTidies ==
  ASSUME NEW m, Tidy(m), Fit(m, {})
  PROVE  LET n == ScheduleHeartbeat(m) IN Tidy(n) /\ n \in Memory /\ Kept(m, n)
<1> DEFINE n == ScheduleHeartbeat(m)
<1>1. m \in Memory
  BY DEF Fit
<1>2. /\ n \in Memory /\ Agree(m, n) /\ n.ahead = m.ahead /\ n.busy = m.busy
      /\ n.drain = m.drain /\ n.close = m.close /\ Renewing(n)
  BY <1>1, ScheduleHeartbeatType, ScheduleHeartbeatAgrees, ScheduleHeartbeatRest
<1> HIDE DEF n
<1>3. Fit(n, {}) /\ Kept(m, n) /\ Conserving(n)
  BY <1>2, AgreeFits DEF Tidy
<1>4. Idle(n) => Idle(m)
  BY <1>2 DEF Agree, Idle, Writing
<1>5. Reported(n)
  BY <1>2, <1>4 DEF Tidy, Reported, Agree
<1> QED BY <1>2, <1>3, <1>5 DEF n, Tidy, Fit

LEMMA RecoveredTidy ==
  ASSUME TypeOK, AllTidy, NEW w \in Worker, Recovered(w)
  PROVE  Advances(w)
<1> DEFINE p == mem[w]
           none == NoClaims
           m == [p EXCEPT !.loading = "no", !.loaded = none]
           got == p.loaded
<1>1. p \in Memory /\ Tidy(p) /\ Fit(p, {}) /\ got \in Claims /\ none \in Claims
  <2>1. p \in Memory /\ Tidy(p) /\ Fit(p, {})
    BY TidyFits
  <2> HIDE DEF p
  <2> QED BY <2>1, EmptyTypes DEF Memory
<1>2. PICK age \in AgeOrders(NewClaims(m, got)) :
        Becomes(w, ScheduleHeartbeat(RestoreAll(m, got, age)))
  BY DEF Recovered
<1> DEFINE r == RestoreAll(m, got, age)
           n == ScheduleHeartbeat(r)
<1> HIDE DEF p, got, none
<1>3. Tidy(m) /\ Fit(m, {}) /\ m \in Memory /\ Kept(p, m)
  BY <1>1, LoadingTidies
<1> HIDE DEF m
<1>4. Fit(r, {}) /\ Kept(m, r) /\ Tidy(r)
  <2>1. Fit(r, {}) /\ Kept(m, r) /\ (r = m \/ Tidy(r))
    BY <1>1, <1>2, <1>3, RestoreFits
  <2> QED BY <1>3, <2>1
<1>5. Becomes(w, n)
  BY <1>2
<1> HIDE DEF r
<1>6. Tidy(n) /\ n \in Memory /\ Kept(r, n)
  BY <1>4, ScheduledTidies
<1> HIDE DEF n
<1>7. r \in Memory /\ Kept(p, r)
  BY <1>1, <1>3, <1>4, KeptTransitive DEF Fit
<1>8. Kept(p, n)
  BY <1>1, <1>6, <1>7, KeptTransitive
<1> QED BY <1>5, <1>6, <1>8 DEF Advances, p

LEMMA InitTidy == Init => AllTidy
<1> SUFFICES ASSUME Init, NEW w \in Worker PROVE Tidy(mem[w])
  BY DEF AllTidy
<1>1. mem[w] = ScheduleHeartbeat(Fresh)
  BY DEF Init
<1>2. Fresh \in Memory
  BY EmptyTypes
<1>3. /\ Fresh.queue = {} /\ Fresh.ahead = {} /\ Fresh.starting = {} /\ Fresh.active = {}
      /\ Fresh.deciding = {} /\ Fresh.busy = {} /\ Fresh.drain = "none" /\ Fresh.close = "none"
  BY DEF Fresh
<1>4. Fit(Fresh, {}) /\ Tidy(Fresh)
  BY <1>2, <1>3, BlankFits
<1> QED BY <1>1, <1>4, ScheduledTidies

-----------------------------------------------------------------------------
(* Together.                                                               *)

(* No memory takes anything back, except by its process going.             *)
AllKept ==
  \A w \in Worker : Kept(mem[w], mem[w]') \/ ~mem[w].up \/ ~mem[w]'.up

LEMMA AdvanceTidy ==
  ASSUME TypeOK, AllTidy, NEW w \in Worker, Advances(w)
  PROVE  AllTidy' /\ AllKept
<1>1. PICK n : /\ mem' = [mem EXCEPT ![w] = n] /\ n \in Memory /\ Tidy(n)
               /\ Kept(mem[w], n) \/ ~mem[w].up \/ ~n.up
  BY DEF Advances, Becomes
<1>2. mem \in [Worker -> Memory]
  BY DEF TypeOK
<1>3. mem'[w] = n /\ \A v \in Worker : v # w => mem'[v] = mem[v]
  BY <1>1, <1>2
<1>4. ASSUME NEW v \in Worker PROVE Tidy(mem'[v])
  BY <1>1, <1>3 DEF AllTidy
<1>5. AllTidy'
  BY <1>4 DEF AllTidy
<1>6. \A v \in Worker : Kept(mem[v], mem[v])
  BY <1>2, KeptAlike
<1>7. AllKept
  BY <1>1, <1>3, <1>6 DEF AllKept
<1> QED BY <1>5, <1>7

LEMMA StillTidy ==
  ASSUME TypeOK, AllTidy, UNCHANGED mem
  PROVE  AllTidy' /\ AllKept
<1>1. mem \in [Worker -> Memory]
  BY DEF TypeOK
<1>2. \A v \in Worker : Kept(mem[v], mem[v])
  BY <1>1, KeptAlike
<1> QED BY <1>2 DEF AllTidy, AllKept

LEMMA StepTidy ==
  ASSUME TypeOK, AllTidy, [Next]_vars
  PROVE  AllTidy' /\ AllKept
<1>1. ASSUME NEW w \in Worker,
             \/ Pause(w) \/ Resume(w) \/ Drain(w) \/ Close(w) \/ Crash(w)
             \/ Boot(w) \/ LoadExecutes(w) \/ LoadFails(w) \/ Recovered(w)
      PROVE  Advances(w)
  BY <1>1, PauseTidy, ResumeTidy, DrainTidy, CloseTidy, CrashTidy, BootTidy,
     LoadExecutesTidy, LoadFailsTidy, RecoveredTidy
<1>2. ASSUME NEW w \in Worker, NEW j \in Job,
             \/ Enqueue(w, j) \/ CancelQueued(w, j) \/ CancelRunning(w, j)
             \/ StoreExecutes(w, j) \/ StoreFails(w, j)
             \/ CreateSettles(w, j) \/ WriteSettles(w, j) \/ AcquireSettles(w, j)
             \/ HandlerReturns(w, j) \/ HandlerThrows(w, j) \/ PolicyAnswers(w, j)
             \/ Wake(w, j)
      PROVE  Advances(w)
  BY <1>2, EnqueueTidy, CancelQueuedTidy, CancelRunningTidy, StoreTidy, CreateSettlesTidy,
     WriteSettlesTidy, AcquireSettlesTidy, HandlerReturnsTidy, HandlerThrowsTidy,
     PolicyAnswersTidy, WakeTidy
<1>3. ASSUME NEW w \in Worker, NEW b \in Beats,
             \/ BeatStarts(w, b) \/ RenewExecutes(w, b) \/ Renewed(w, b)
             \/ AdoptExecutes(w, b) \/ Adopted(w, b) \/ BeatFails(w, b)
      PROVE  Advances(w)
  BY <1>3, BeatStartsTidy, RenewExecutesTidy, RenewedTidy, AdoptExecutesTidy, AdoptedTidy,
     BeatFailsTidy
<1>4. ASSUME NEW j \in Job, LeaseAges(j) \/ LeaseLapses(j)
      PROVE  UNCHANGED mem
  BY <1>4 DEF LeaseAges, LeaseLapses
<1>5. ASSUME UNCHANGED vars PROVE UNCHANGED mem
  BY <1>5 DEF vars
<1> QED BY <1>1, <1>2, <1>3, <1>4, <1>5, AdvanceTidy, StillTidy DEF Next

(* What every memory says of itself, in every mode and under every         *)
(* disturbance: the invariant of JobQueueTidy.                             *)
THEOREM TidyAlways == Spec => []AllTidy
<1>1. Init => AllTidy
  BY InitTidy
<1>2. TypeOK /\ AllTidy /\ [Next]_vars => AllTidy'
  BY StepTidy
<1> QED BY <1>1, <1>2, TypeCorrect, PTL DEF Spec

-----------------------------------------------------------------------------
(* The properties.                                                         *)

LEMMA Quadruple ==
  ASSUME NEW a, NEW b, NEW c, NEW d
  PROVE  LET q == <<a, b, c, d>> IN q[1] = a /\ q[2] = b /\ q[3] = c /\ q[4] = d
OBVIOUS

LEMMA TidyAccounted == AllTidy => Accounted
<1> SUFFICES ASSUME AllTidy, NEW w \in Worker, NEW j \in Job
             PROVE  LET m == mem[w]
                        places == <<j \in m.queue, j \in m.starting, j \in m.active,
                                    j \in m.deciding>>
                        here == { i \in 1..4 : places[i] }
                    IN CASE m.ent[j].state = "queued"  ->
                              Cardinality(here) = 1 /\ here \subseteq {1, 2}
                         [] m.ent[j].state = "running" ->
                              Cardinality(here) = 1 /\ here \subseteq {3, 4}
                         [] OTHER -> here \subseteq {2}
  BY DEF Accounted
<1> DEFINE m == mem[w]
           places == <<j \in m.queue, j \in m.starting, j \in m.active, j \in m.deciding>>
           here == { i \in 1..4 : places[i] }
<1>1. Sound(m, j) /\ Housed(m, j)
  BY DEF AllTidy, Tidy
<1> HIDE DEF m
<1>2. /\ here \subseteq {1, 2, 3, 4}
      /\ 1 \in here <=> j \in m.queue
      /\ 2 \in here <=> j \in m.starting
      /\ 3 \in here <=> j \in m.active
      /\ 4 \in here <=> j \in m.deciding
  <2>1. /\ places[1] = (j \in m.queue) /\ places[2] = (j \in m.starting)
        /\ places[3] = (j \in m.active) /\ places[4] = (j \in m.deciding)
    BY Quadruple, Zenon
  <2> HIDE DEF places
  <2>2. \A i : i \in here <=> i \in 1..4 /\ places[i]
    BY Zenon
  <2>3. 1..4 = {1, 2, 3, 4}
    OBVIOUS
  <2> HIDE DEF here
  <2>4. \A i : i \in here <=> i \in {1, 2, 3, 4} /\ places[i]
    BY <2>2, <2>3, Zenon
  <2>5. here \subseteq {1, 2, 3, 4}
    BY <2>4, Zenon
  <2>6. /\ 1 \in here <=> places[1]
        /\ 2 \in here <=> places[2]
        /\ 3 \in here <=> places[3]
        /\ 4 \in here <=> places[4]
    BY <2>4, Zenon
  <2> QED BY <2>1, <2>5, <2>6, Zenon
<1> HIDE DEF here
<1>3. \A i : Cardinality({i}) = 1
  BY FS_Singleton
<1>4. CASE m.ent[j].state = "queued"
  <2>1. here = {1} \/ here = {2}
    BY <1>1, <1>2, <1>4 DEF Sound, Housed, Terminal
  <2>2. Cardinality(here) = 1 /\ here \subseteq {1, 2}
    BY <1>3, <2>1
  <2> QED BY <1>4, <2>2 DEF here, m
<1>5. CASE m.ent[j].state = "running"
  <2>1. here = {3} \/ here = {4}
    BY <1>1, <1>2, <1>5 DEF Sound, Housed, Terminal
  <2>2. Cardinality(here) = 1 /\ here \subseteq {3, 4}
    BY <1>3, <2>1
  <2> QED BY <1>5, <2>2 DEF here, m
<1>6. CASE m.ent[j].state # "queued" /\ m.ent[j].state # "running"
  <2>1. here \subseteq {2}
    BY <1>1, <1>2, <1>6 DEF Sound
  <2> QED BY <1>6, <2>1 DEF here, m
<1> QED BY <1>4, <1>5, <1>6

LEMMA TidyWorks == TypeOK /\ AllTidy => WorkConserving
<1> SUFFICES ASSUME TypeOK, AllTidy, NEW w \in Worker, mem[w].deciding = {}
             PROVE  Taken(mem[w], ByPriority(mem[w])) = {}
  BY DEF WorkConserving
<1> DEFINE m == mem[w]
           order == ByPriority(m)
           first == { j \in Eligible(m) :
                        \A k \in Eligible(m) :
                          <<k, j>> \in order => LaneOf[j] = NoLane \/ LaneOf[k] # LaneOf[j] }
           ahead(j) == Cardinality({ k \in first : <<k, j>> \in order })
<1>1. m \in Memory /\ Conserving(m)
  BY DEF TypeOK, AllTidy, Tidy
<1>2. Taken(m, order) =
        { j \in first : /\ ~m.paused
                        /\ ahead(j) + Cardinality(m.active) + Cardinality(m.starting)
                             < Concurrency }
  BY DEF Taken
<1>3. m.deciding = {}
  OBVIOUS
<1> HIDE DEF m, order
<1>4. \A j \in first : ahead(j) \in Nat
  <2>1. first \in SUBSET Job
    BY <1>1 DEF Eligible, Memory
  <2> HIDE DEF first
  <2>2. \A j \in first : { k \in first : <<k, j>> \in order } \in SUBSET Job
    BY <2>1
  <2> QED BY <2>2, PartsAreFinite
<1>5. Cardinality(m.active) \in Nat /\ Cardinality(m.starting) \in Nat
  BY <1>1, PartsAreFinite DEF Memory
<1>6. \/ m.paused
      \/ first = {}
      \/ Cardinality(m.starting) + Cardinality(m.active) >= Concurrency
  BY <1>1, <1>3 DEF Conserving
<1> HIDE DEF first, ahead
<1> DEFINE a == Cardinality(m.active)
           s == Cardinality(m.starting)
<1>7. ASSUME s + a >= Concurrency, NEW j \in first PROVE ~(ahead(j) + a + s < Concurrency)
  <2>1. ahead(j) \in Nat /\ a \in Nat /\ s \in Nat /\ Concurrency \in Nat
    BY <1>4, <1>5, ConcurrencyAssumption
  <2> HIDE DEF a, s
  <2> QED BY <1>7, <2>1
<1>8. Taken(m, order) = {}
  BY <1>2, <1>6, <1>7
<1> QED BY <1>8 DEF m, order

(* Every unfinished job is in exactly one of #queued, #starting, #active   *)
(* and those being decided, in every mode, for any number of jobs and      *)
(* workers and whatever the store answers, loses or lets lapse: no handler *)
(* forgets a job, and none puts one in two places.                         *)
THEOREM NoneForgotten == Spec => []Accounted
<1>1. AllTidy => Accounted
  BY TidyAccounted
<1> QED BY <1>1, TidyAlways, PTL

(* The slots and lanes in use are exactly those of the jobs starting or    *)
(* running, and no more than Concurrency: #pump never overfills, and no    *)
(* way out of a slot leaks it or frees a lane twice.                       *)
THEOREM SlotsBalance == Spec => []SlotsAccounted
<1>1. AllTidy => SlotsAccounted
  BY DEF AllTidy, Tidy, Slotted, InUse, SlotsAccounted
<1> QED BY <1>1, TidyAlways, PTL

(* No job that could start is left waiting: every handler that frees a     *)
(* slot or a lane, or makes a job eligible, pumps.                         *)
THEOREM NothingWaitsForNothing == Spec => []WorkConserving
<1>1. TypeOK /\ AllTidy => WorkConserving
  BY TidyWorks
<1> QED BY <1>1, TypeCorrect, TidyAlways, PTL

(* A claim that is held is being renewed or will be: no path forgets the   *)
(* heartbeat's timer.                                                      *)
THEOREM ClaimsAreRenewed == Spec => []HeldIsRenewed
<1>1. AllTidy => HeldIsRenewed
  BY DEF AllTidy, Tidy, Renewing, HeldIsRenewed
<1> QED BY <1>1, TidyAlways, PTL

(* Whoever waits for an idle queue is told, at the latest by the end of    *)
(* the adoption under way.                                                 *)
THEOREM IdleIsTold == Spec => []IdleIsReported
<1>1. AllTidy => IdleIsReported
  BY DEF AllTidy, Tidy, Reported, IdleIsReported
<1> QED BY <1>1, TidyAlways, PTL

(* A settled job stays settled and never runs, whatever answers about it   *)
(* are still on their way.                                                 *)
THEOREM SettledForGood == Spec => TerminalIsFinal
<1>1. AllTidy' /\ AllKept =>
        \A w \in Worker, j \in Job :
          (mem[w].up /\ mem'[w].up /\ mem[w].ent[j].state \in Terminal)
            => /\ mem'[w].ent[j].state = mem[w].ent[j].state
               /\ j \notin mem'[w].active
  <2> SUFFICES ASSUME AllTidy', AllKept, NEW w \in Worker, NEW j \in Job,
                      mem[w].up, mem'[w].up, mem[w].ent[j].state \in Terminal
               PROVE  /\ mem'[w].ent[j].state = mem[w].ent[j].state
                      /\ j \notin mem'[w].active
    OBVIOUS
  <2>1. Sound(mem'[w], j)
    BY DEF AllTidy, Tidy
  <2>2. mem'[w].ent[j].state = mem[w].ent[j].state
    BY DEF AllKept, Kept
  <2> QED BY <2>1, <2>2 DEF Sound, Terminal
<1>2. TypeOK /\ AllTidy /\ [Next]_vars =>
        [\A w \in Worker, j \in Job :
          (mem[w].up /\ mem'[w].up /\ mem[w].ent[j].state \in Terminal)
            => /\ mem'[w].ent[j].state = mem[w].ent[j].state
               /\ j \notin mem'[w].active]_vars
  BY <1>1, StepTidy
<1> QED BY <1>2, TypeCorrect, TidyAlways, PTL DEF Spec, TerminalIsFinal

(* A running job that was cancelled never completes and never comes back.  *)
THEOREM CancelledForGood == Spec => CancelWins
<1>1. AllTidy' /\ AllKept =>
        \A w \in Worker, j \in Job :
          (mem[w].up /\ mem'[w].up /\ mem[w].ent[j].cancelRequested)
            => mem'[w].ent[j].state \notin {"queued", "complete"}
  <2> SUFFICES ASSUME AllTidy', AllKept, NEW w \in Worker, NEW j \in Job,
                      mem[w].up, mem'[w].up, mem[w].ent[j].cancelRequested
               PROVE  mem'[w].ent[j].state \notin {"queued", "complete"}
    OBVIOUS
  <2>1. Sound(mem'[w], j)
    BY DEF AllTidy, Tidy
  <2>2. mem'[w].ent[j].cancelRequested
    BY DEF AllKept, Kept
  <2> QED BY <2>1, <2>2 DEF Sound
<1>2. TypeOK /\ AllTidy /\ [Next]_vars =>
        [\A w \in Worker, j \in Job :
          (mem[w].up /\ mem'[w].up /\ mem[w].ent[j].cancelRequested)
            => mem'[w].ent[j].state \notin {"queued", "complete"}]_vars
  BY <1>1, StepTidy
<1> QED BY <1>2, TypeCorrect, TidyAlways, PTL DEF Spec, CancelWins

(* A job whose lease is gone gets no further store write.                  *)
THEOREM LostIsLeftAlone == Spec => LostWritesNothing
<1>1. AllKept =>
        \A w \in Worker, j \in Job :
          (mem[w].up /\ mem'[w].up /\ LeaseLost(mem[w].ent[j]))
            => Len(mem'[w].chain[j]) <= Len(mem[w].chain[j])
  BY DEF AllKept, Kept
<1>2. TypeOK /\ AllTidy /\ [Next]_vars =>
        [\A w \in Worker, j \in Job :
          (mem[w].up /\ mem'[w].up /\ LeaseLost(mem[w].ent[j]))
            => Len(mem'[w].chain[j]) <= Len(mem[w].chain[j])]_vars
  BY <1>1, StepTidy
<1> QED BY <1>2, TypeCorrect, TidyAlways, PTL DEF Spec, LostWritesNothing

=============================================================================
