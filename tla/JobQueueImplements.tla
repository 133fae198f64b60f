------------------------- MODULE JobQueueImplements -------------------------
(***************************************************************************)
(* The queues implement JobLifecycle, step by step, as long as no lease    *)
(* lapses under a worker that is up: whatever crashes, restarts, adoptions *)
(* and store errors happen, and for any number of workers and jobs.        *)
(***************************************************************************)
EXTENDS JobQueueRefinement, JobQueueSafety, JobQueueOutcomes

-----------------------------------------------------------------------------
(* The invariant: what keeps a job from coming back after it is over.      *)

(* j's create is on its way to the table.                                  *)
Creating(m, j) ==
  m.chain[j] # <<>> /\ m.chain[j][1].op = "create" /\ m.chain[j][1].answer = "none"

(* In chain c a removal is the last call, and while a save or an acquire   *)
(* is on its way the row it will write is `mine`.                          *)
Grounded(c, mine) ==
  \A i \in 1..Len(c) :
    /\ c[i].op = "remove" => i = Len(c)
    /\ c[i].op \in {"save", "acquire"} => mine

(* A row in the table was submitted; one that is being created is not      *)
(* there yet, and one process at most is creating it.                      *)
Founded ==
  /\ \A w \in Worker, j \in Job : Grounded(mem[w].chain[j], Mine(row, w, j))
  /\ \A w \in Worker, j \in Job :
       Creating(mem[w], j) => row[j].state = "absent" /\ j \in submitted
  /\ \A v, w \in Worker, j \in Job : Creating(mem[v], j) /\ Creating(mem[w], j) => v = w
  /\ \A j \in Job : row[j].state # "absent" => j \in submitted
  /\ lapsed = {}

-----------------------------------------------------------------------------
(* What a step inside one process may do to a chain.                       *)

(* Chain d is c with calls appended: no create, a removal only at the end  *)
(* and of a job that has `ended`, a save or an acquire only if it `may`.   *)
Longer(c, d, ended, may) ==
  /\ Len(c) <= Len(d)
  /\ \A i \in 1..Len(c) : d[i] = c[i]
  /\ \A i \in 1..Len(d) : i > Len(c) =>
       /\ d[i].op # "create"
       /\ d[i].op = "remove" => ended /\ i = Len(d)
       /\ d[i].op \in {"save", "acquire"} => may

(* The last call of chain c is a removal the store has not answered.       *)
Closing(c) == c # <<>> /\ c[Len(c)].op = "remove" /\ c[Len(c)].answer = "none"

(* A row is on its way to j's process: load or adopt has handed it over.   *)
Coming(m, j) ==
  \/ m.loading = "answered" /\ j \in m.loaded.jobs
  \/ \E b \in Beats : m.beats[b].phase = "adopted" /\ j \in m.beats[b].got.jobs

(* From m to n no row on its way is dropped, and no load comes to an end.  *)
Expects(m, n) ==
  /\ n.up = m.up
  /\ m.loading = "asked" => n.loading = "asked"
  /\ \A j \in Job : Coming(m, j) => Coming(n, j) \/ Known(n, j)

(* From m to n the entry of j is kept, and a job whose row may stand ends  *)
(* with the removal of that row.                                           *)
Keeps(m, n, j) ==
  /\ (Ended(n, j) /\ ~Ended(m, j) /\ m.ent[j].durability \in {"pending", "stored"})
       => Closing(n.chain[j])
  /\ n.ent[j].durability \in {m.ent[j].durability, "stored"}
  /\ Known(m, j) => Known(n, j)
  /\ Known(n, j) => Known(m, j) \/ j \in Held(n)

(* From m to n a settled job calls nothing, and another job's writes are   *)
(* those of a claim that was or is held.                                   *)
Calls(m, n) ==
  /\ Expects(m, n)
  /\ \A j \in Job :
       /\ Ended(m, j) => Ended(n, j) /\ n.chain[j] = m.chain[j]
       /\ Longer(m.chain[j], n.chain[j], Ended(n, j), j \in Held(m) \/ j \in Held(n))
       /\ Keeps(m, n, j)

(* What a process waits for is the same in n as in m.                      *)
Waits(m, n) ==
  n.up = m.up /\ n.loading = m.loading /\ n.loaded = m.loaded /\ n.beats = m.beats

(* No entry has come or ended, and no claim changed.                       *)
Resembles(m, n, j) ==
  /\ Known(m, j) <=> Known(n, j)
  /\ Ended(m, j) <=> Ended(n, j)
  /\ n.ent[j].durability = m.ent[j].durability

LEMMA WaitsExpects ==
  ASSUME NEW m, NEW n, Waits(m, n)
  PROVE  Expects(m, n)
BY DEF Waits, Expects, Coming

LEMMA ClosingByOne ==
  ASSUME NEW c \in Seq(Write)
  PROVE  Closing(Append(c, Removal))
<1> DEFINE x == Removal
           d == Append(c, x)
<1>1. x \in Write /\ x.op = "remove" /\ x.answer = "none"
  BY RemovalFields DEF Removal
<1> HIDE DEF x
<1>2. Len(d) = Len(c) + 1 /\ d[Len(c) + 1] = x /\ Len(c) \in Nat /\ d # <<>>
  BY <1>1
<1> HIDE DEF d
<1>3. Closing(d)
  BY <1>1, <1>2 DEF Closing
<1> QED BY <1>3 DEF d, x

LEMMA LongerSame ==
  ASSUME NEW c \in Seq(Write), NEW ended \in BOOLEAN, NEW may \in BOOLEAN
  PROVE  Longer(c, c, ended, may)
BY DEF Longer

LEMMA LongerByOne ==
  ASSUME NEW c \in Seq(Write), NEW x \in Write, NEW ended \in BOOLEAN, NEW may \in BOOLEAN,
         x.op # "create", x.op = "remove" => ended, x.op \in {"save", "acquire"} => may
  PROVE  Longer(c, Append(c, x), ended, may)
<1> DEFINE d == Append(c, x)
<1>1. /\ Len(c) \in Nat /\ Len(d) = Len(c) + 1 /\ d[Len(c) + 1] = x
      /\ \A i \in 1..Len(c) : d[i] = c[i]
  OBVIOUS
<1> HIDE DEF d
<1>2. \A i \in 1..Len(d) : i > Len(c) => i = Len(d) /\ d[i] = x
  BY <1>1
<1>3. Longer(c, d, ended, may)
  BY <1>1, <1>2 DEF Longer
<1> QED BY <1>3 DEF d

LEMMA ChainTypes ==
  ASSUME NEW m \in Memory, NEW j \in Job
  PROVE  m.chain[j] \in Seq(Write) /\ Len(m.chain[j]) \in Nat /\ m.ent[j] \in Entry
<1>1. m.chain[j] \in Seq(Write) /\ m.ent[j] \in Entry
  BY DEF Memory
<1> QED BY <1>1

(* One such step after another, if the first leaves no claim behind that   *)
(* the second gives up.                                                    *)
LEMMA CallsTransitive ==
  ASSUME NEW m \in Memory, NEW n \in Memory, NEW p \in Memory, Calls(m, n), Calls(n, p),
         Held(n) \subseteq Held(m) \cup Held(p)
  PROVE  Calls(m, p)
<1>0. Expects(m, p)
  <2>1. Expects(m, n) /\ Expects(n, p) /\ \A j \in Job : Known(n, j) => Known(p, j)
    BY DEF Calls, Keeps
  <2> QED BY <2>1 DEF Expects
<1> SUFFICES ASSUME NEW j \in Job
             PROVE  /\ Ended(m, j) => Ended(p, j) /\ p.chain[j] = m.chain[j]
                    /\ Longer(m.chain[j], p.chain[j], Ended(p, j), j \in Held(m) \/ j \in Held(p))
                    /\ Keeps(m, p, j)
  BY <1>0 DEF Calls
<1>6. Keeps(m, p, j)
  <2>1. Keeps(m, n, j) /\ Keeps(n, p, j) /\ (Ended(n, j) => Ended(p, j) /\ p.chain[j] = n.chain[j])
    BY DEF Calls
  <2>2. j \in Held(m) => Known(m, j)
    BY DEF Held, Known
  <2> QED BY <2>1, <2>2 DEF Keeps
<1> DEFINE c == m.chain[j]  d == n.chain[j]  f == p.chain[j]
<1>1. Len(c) \in Nat /\ Len(d) \in Nat /\ Len(f) \in Nat
  BY ChainTypes
<1>2. /\ Ended(m, j) => Ended(n, j) /\ d = c
      /\ Ended(n, j) => Ended(p, j) /\ f = d
      /\ Longer(c, d, Ended(n, j), j \in Held(m) \/ j \in Held(n))
      /\ Longer(d, f, Ended(p, j), j \in Held(n) \/ j \in Held(p))
      /\ j \in Held(n) => j \in Held(m) \/ j \in Held(p)
  BY DEF Calls
<1> HIDE DEF c, d, f
<1>3. ASSUME NEW i \in 1..Len(f), i > Len(c)
      PROVE  /\ f[i].op # "create"
             /\ f[i].op = "remove" => Ended(p, j) /\ i = Len(f)
             /\ f[i].op \in {"save", "acquire"} => j \in Held(m) \/ j \in Held(p)
  <2>1. CASE i > Len(d)
    BY <1>2, <2>1 DEF Longer
  <2>2. CASE i <= Len(d)
    <3>1. i \in 1..Len(d) /\ f[i] = d[i]
      BY <1>1, <1>2, <2>2 DEF Longer
    <3>2. /\ d[i].op # "create"
          /\ d[i].op = "remove" => Ended(n, j) /\ i = Len(d)
          /\ d[i].op \in {"save", "acquire"} => j \in Held(m) \/ j \in Held(n)
      BY <1>2, <1>3, <3>1 DEF Longer
    <3> QED BY <1>2, <3>1, <3>2
  <2> QED BY <1>1, <2>1, <2>2
<1>4. Len(c) <= Len(f) /\ \A i \in 1..Len(c) : f[i] = c[i]
  BY <1>1, <1>2 DEF Longer
<1>5. Longer(c, f, Ended(p, j), j \in Held(m) \/ j \in Held(p))
  BY <1>3, <1>4 DEF Longer
<1> QED BY <1>2, <1>5, <1>6 DEF c, d, f

(* Nothing is called and nothing settled is taken up.                      *)
LEMMA CallsNothing ==
  ASSUME NEW m \in Memory, NEW n, n.chain = m.chain, Expects(m, n),
         \A j \in Job : Ended(m, j) => Ended(n, j),
         \A j \in Job : Keeps(m, n, j)
  PROVE  Calls(m, n)
<1> SUFFICES ASSUME NEW j \in Job
             PROVE  Longer(m.chain[j], m.chain[j], Ended(n, j), j \in Held(m) \/ j \in Held(n))
  BY DEF Calls
<1>1. m.chain[j] \in Seq(Write)
  BY ChainTypes
<1>2. Ended(n, j) \in BOOLEAN /\ (j \in Held(m) \/ j \in Held(n)) \in BOOLEAN
  BY DEF Ended
<1> QED BY <1>1, <1>2, LongerSame

(* Nothing is called, nothing comes and nothing ends.                      *)
LEMMA CallsQuietly ==
  ASSUME NEW m \in Memory, NEW n, n.chain = m.chain, Waits(m, n),
         \A j \in Job : Resembles(m, n, j)
  PROVE  Calls(m, n)
<1>1. \A j \in Job : Keeps(m, n, j) /\ (Ended(m, j) => Ended(n, j))
  BY DEF Resembles, Keeps
<1> QED BY <1>1, WaitsExpects, CallsNothing

(* ... as when the entries are not touched at all.                         *)
LEMMA CallsIdly ==
  ASSUME NEW m \in Memory, NEW n, n.chain = m.chain, Waits(m, n), n.ent = m.ent
  PROVE  Calls(m, n)
<1>1. \A j \in Job : Resembles(m, n, j)
  BY DEF Resembles, Known, Ended
<1> QED BY <1>1, CallsQuietly

LEMMA AgreeCalls ==
  ASSUME NEW m \in Memory, NEW n, Agree(m, n)
  PROVE  Calls(m, n) /\ Held(n) = Held(m) /\ n.ent = m.ent /\ n.queue = m.queue
<1>1. n.ent = m.ent /\ n.chain = m.chain /\ n.queue = m.queue
  BY DEF Agree
<1>2. Held(n) = Held(m) /\ Waits(m, n)
  BY <1>1 DEF Held, Waits, Agree
<1> QED BY <1>1, <1>2, CallsIdly

(* Every queued job is in the state `queued`.                              *)
Calm(m) == m \in Memory /\ \A j \in m.queue : m.ent[j].state = "queued"

LEMMA SettleCalls ==
  ASSUME NEW m \in Memory, NEW S \in SUBSET Job, NEW state \in Terminal,
         \A j \in S : Known(m, j) /\ ~Ended(m, j)
  PROVE  LET n == Settle(m, S, state)
         IN /\ n \in Memory /\ Calls(m, n) /\ Held(n) \subseteq Held(m)
            /\ n.queue = m.queue
            /\ \A j \in Job \ S : n.ent[j] = m.ent[j]
<1> DEFINE n == Settle(m, S, state)
<1>1. n \in Memory /\ SettlesTo(m, n, S, state)
  BY SettleType, SettleFields
<1> HIDE DEF n
<1>2. ASSUME NEW j \in Job
      PROVE  /\ Ended(m, j) => Ended(n, j) /\ n.chain[j] = m.chain[j]
             /\ Longer(m.chain[j], n.chain[j], Ended(n, j), j \in Held(m) \/ j \in Held(n))
             /\ j \in Held(n) => j \in Held(m)
             /\ j \notin S => n.ent[j] = m.ent[j]
             /\ Keeps(m, n, j)
  <2>1. m.chain[j] \in Seq(Write) /\ m.ent[j] \in Entry
    BY ChainTypes
  <2>2. Ended(n, j) \in BOOLEAN /\ (j \in Held(m) \/ j \in Held(n)) \in BOOLEAN
    BY DEF Ended
  <2>3. CASE j \notin S
    <3>1. n.ent[j] = m.ent[j] /\ n.chain[j] = m.chain[j]
      BY <1>1, <2>3 DEF SettlesTo
    <3>2. Longer(m.chain[j], n.chain[j], Ended(n, j), j \in Held(m) \/ j \in Held(n))
      BY <2>1, <2>2, <3>1, LongerSame
    <3> QED BY <2>3, <3>1, <3>2 DEF Ended, Held, Keeps, Known
  <2>4. CASE j \in S
    <3>1. n.ent[j] = [m.ent[j] EXCEPT !.state = state]
      BY <1>1, <2>4 DEF SettlesTo
    <3>2. n.ent[j].state = state /\ n.ent[j].durability = m.ent[j].durability
      BY <2>1, <3>1 DEF Entry
    <3>3. Ended(n, j) /\ ~Ended(m, j) /\ j \notin Held(n)
      BY <2>4, <3>2 DEF Ended, Held, Terminal
    <3>4. \/ n.chain[j] = m.chain[j]
          \/ n.chain[j] = Append(m.chain[j], Removal)
      BY <1>1 DEF SettlesTo
    <3>5. Removal \in Write /\ Removal.op = "remove"
      BY RemovalFields
    <3>8. m.ent[j].durability \notin {"none", "lost"} => n.chain[j] = Append(m.chain[j], Removal)
      BY <1>1, <2>4 DEF SettlesTo
    <3>9. Closing(Append(m.chain[j], Removal))
      BY <2>1, ClosingByOne
    <3>11. Keeps(m, n, j)
      <4>1. m.ent[j].durability \in {"pending", "stored"} => Closing(n.chain[j])
        BY <3>8, <3>9
      <4>2. Known(m, j) /\ Known(n, j)
        BY <2>4, <3>2 DEF Known, Terminal
      <4> QED BY <3>2, <4>1, <4>2 DEF Keeps
    <3>6. CASE n.chain[j] = m.chain[j]
      BY <2>1, <2>2, <2>4, <3>3, <3>6, <3>11, LongerSame
    <3>7. CASE n.chain[j] = Append(m.chain[j], Removal)
      <4>1. Longer(m.chain[j], Append(m.chain[j], Removal), Ended(n, j),
                   j \in Held(m) \/ j \in Held(n))
        BY <2>1, <2>2, <3>3, <3>5, LongerByOne
      <4> QED BY <2>4, <3>3, <3>7, <3>11, <4>1
    <3> QED BY <3>4, <3>6, <3>7
  <2> QED BY <2>3, <2>4
<1>3. Held(n) \subseteq Held(m)
  BY <1>2 DEF Held
<1>4. n.queue = m.queue /\ Expects(m, n)
  BY <1>1, WaitsExpects DEF SettlesTo, AgreeAround, Waits
<1> QED BY <1>1, <1>2, <1>3, <1>4 DEF Calls, n

LEMMA StartCalls ==
  ASSUME NEW m, Calm(m), NEW S \in SUBSET Eligible(m)
  PROVE  LET n == Start(m, S)
         IN n \in Memory /\ Calls(m, n) /\ Held(n) = Held(m)
<1> DEFINE n == Start(m, S)
           goes == S \ Asks(m, S)
<1>1. m \in Memory /\ S \in SUBSET Job
  BY DEF Calm, Eligible, Memory
<1>2. n \in Memory
  BY <1>1, StartType
<1>3. \A j \in Job :
        /\ n.ent[j] = IF j \in goes THEN Running(m.ent[j]) ELSE m.ent[j]
        /\ n.chain[j] =
             IF j \in Asks(m, S)
             THEN Append(m.chain[j], Snapshot(Running(m.ent[j]), "acquire"))
             ELSE IF j \in goes /\ m.ent[j].durability \notin {"none", "lost"}
             THEN Append(m.chain[j], Snapshot(Running(m.ent[j]), "save"))
             ELSE m.chain[j]
  BY <1>1, StartFields
<1> HIDE DEF n
<1>4. ASSUME NEW j \in Job
      PROVE  /\ Ended(m, j) => Ended(n, j) /\ n.chain[j] = m.chain[j]
             /\ Longer(m.chain[j], n.chain[j], Ended(n, j), j \in Held(m) \/ j \in Held(n))
             /\ j \in Held(n) <=> j \in Held(m)
             /\ Keeps(m, n, j)
  <2>1. m.chain[j] \in Seq(Write) /\ m.ent[j] \in Entry
    BY <1>1, ChainTypes
  <2>2. Ended(n, j) \in BOOLEAN /\ (j \in Held(m) \/ j \in Held(n)) \in BOOLEAN
    BY DEF Ended
  <2>3. CASE j \notin S
    <3>1. n.ent[j] = m.ent[j] /\ n.chain[j] = m.chain[j]
      BY <1>3, <2>3 DEF Asks
    <3>2. Keeps(m, n, j)
      BY <3>1 DEF Keeps, Known, Ended
    <3> QED BY <2>1, <2>2, <3>1, <3>2, LongerSame DEF Ended, Held
  <2>4. CASE j \in S
    <3>1. m.ent[j].state = "queued" /\ m.ent[j].durability # "pending"
      BY <2>4 DEF Calm, Eligible
    <3>2. ~Ended(m, j)
      BY <3>1 DEF Ended, Terminal
    <3> DEFINE e == Running(m.ent[j])
    <3>3. e \in Entry /\ e.state = "running" /\ e.durability = m.ent[j].durability
      BY <2>1, RunningFields
    <3> HIDE DEF e
    <3>4. n.ent[j] \in {m.ent[j], e}
      BY <1>3 DEF e
    <3>5. j \in Held(n) <=> j \in Held(m)
      BY <3>1, <3>3, <3>4 DEF Held
    <3>10. Keeps(m, n, j)
      BY <3>1, <3>3, <3>4 DEF Keeps, Known, Ended, Terminal
    <3>6. /\ Snapshot(e, "acquire") \in Write /\ Snapshot(e, "acquire").op = "acquire"
          /\ Snapshot(e, "save") \in Write /\ Snapshot(e, "save").op = "save"
      BY <3>3, SnapshotFields
    <3>7. CASE j \in Asks(m, S)
      <4>1. j \in Held(m)
        BY <3>1, <3>7 DEF Asks, SharesLanes, Held
      <4>2. Longer(m.chain[j], Append(m.chain[j], Snapshot(e, "acquire")), Ended(n, j),
                   j \in Held(m) \/ j \in Held(n))
        BY <2>1, <2>2, <3>6, <4>1, LongerByOne
      <4>3. n.chain[j] = Append(m.chain[j], Snapshot(e, "acquire"))
        BY <1>3, <3>7 DEF e
      <4> QED BY <3>2, <3>5, <3>10, <4>2, <4>3
    <3>8. CASE j \notin Asks(m, S) /\ m.ent[j].durability \notin {"none", "lost"}
      <4>1. j \in Held(m)
        BY <2>1, <3>1, <3>8 DEF Held, Entry
      <4>2. Longer(m.chain[j], Append(m.chain[j], Snapshot(e, "save")), Ended(n, j),
                   j \in Held(m) \/ j \in Held(n))
        BY <2>1, <2>2, <3>6, <4>1, LongerByOne
      <4>3. n.chain[j] = Append(m.chain[j], Snapshot(e, "save"))
        BY <1>3, <2>4, <3>8 DEF e
      <4> QED BY <3>2, <3>5, <3>10, <4>2, <4>3
    <3>9. CASE j \notin Asks(m, S) /\ m.ent[j].durability \in {"none", "lost"}
      <4>1. n.chain[j] = m.chain[j]
        BY <1>3, <3>9
      <4> QED BY <2>1, <2>2, <3>2, <3>5, <3>10, <4>1, LongerSame
    <3> QED BY <3>7, <3>8, <3>9
  <2> QED BY <2>3, <2>4
<1>5. Held(n) = Held(m)
  BY <1>4 DEF Held
<1>6. Expects(m, n)
  <2>1. AgreeAround(m, Start(m, S))
    BY <1>1, StartFields
  <2> QED BY <2>1, WaitsExpects DEF AgreeAround, Waits, n
<1> QED BY <1>2, <1>4, <1>5, <1>6 DEF Calls, n

(* After the first half of a handler, whatever ends it without giving up a *)
(* claim.                                                                  *)
LEMMA StartedCalls ==
  ASSUME NEW m, Calm(m), NEW S \in SUBSET Eligible(m)
  PROVE  LET n == CheckIdle(ScheduleHeartbeat(Start(m, S)))
         IN n \in Memory /\ Calls(m, n) /\ Held(n) = Held(m)
<1> DEFINE s == Start(m, S)
           b == ScheduleHeartbeat(s)
           n == CheckIdle(b)
<1>1. m \in Memory
  BY DEF Calm
<1>2. s \in Memory /\ Calls(m, s) /\ Held(s) = Held(m)
  BY StartCalls
<1> HIDE DEF s
<1>3. b \in Memory /\ Calls(s, b) /\ Held(b) = Held(s)
  BY <1>2, AgreeCalls, ScheduleHeartbeatType, ScheduleHeartbeatAgrees
<1> HIDE DEF b
<1>4. n \in Memory /\ Calls(b, n) /\ Held(n) = Held(b)
  BY <1>3, AgreeCalls, CheckIdleType, CheckIdleAgrees
<1> HIDE DEF n
<1>5. Calls(m, b)
  BY <1>1, <1>2, <1>3, CallsTransitive
<1>6. Calls(m, n)
  BY <1>1, <1>2, <1>3, <1>4, <1>5, CallsTransitive
<1> QED BY <1>2, <1>3, <1>4, <1>6 DEF n, b, s

LEMMA PumpCalls ==
  ASSUME NEW m, Calm(m)
  PROVE  Pump(m) \in Memory /\ Calls(m, Pump(m)) /\ Held(Pump(m)) = Held(m)
<1> DEFINE T == Taken(m, ByPriority(m))
<1>1. T \in SUBSET Eligible(m)
  BY DEF Taken
<1>2. Pump(m) = CheckIdle(ScheduleHeartbeat(Start(m, T)))
  BY DEF Pump
<1> HIDE DEF T
<1> QED BY <1>1, <1>2, StartedCalls

(* A half of a handler and the #pump after it.                             *)
LEMMA ThenPump ==
  ASSUME NEW d \in Memory, NEW n, Calm(n), Calls(d, n)
  PROVE  Pump(n) \in Memory /\ Calls(d, Pump(n))
<1>1. n \in Memory /\ Pump(n) \in Memory /\ Calls(n, Pump(n)) /\ Held(Pump(n)) = Held(n)
  BY PumpCalls DEF Calm
<1> HIDE DEF Calm
<1>2. Calls(d, Pump(n))
  BY <1>1, CallsTransitive
<1> QED BY <1>1, <1>2

-----------------------------------------------------------------------------
(* What keeps a queue from leaving a row behind, as long as the store      *)
(* answers.                                                                *)

(* What w's memory m says of job j and of its row in r, when s has been    *)
(* submitted: a job that is known has its row here and nowhere else, the   *)
(* row of one that has ended is being removed, one not yet stored is being *)
(* created, and no row stands in w's name that w does not know of.         *)
Possesses(w, m, r, s, j) ==
  /\ Known(m, j) => j \in s
  /\ (Known(m, j) /\ r[j].state # "absent") => Mine(r, w, j)
  /\ (Ended(m, j) /\ (r[j].state # "absent" \/ Creating(m, j))) => Closing(m.chain[j])
  /\ (m.ent[j].durability = "pending" /\ ~Ended(m, j))
       => m.chain[j] # <<>> /\ m.chain[j][1].op = "create"
  /\ (m.up /\ m.loading # "asked" /\ r[j].state # "absent" /\ r[j].owner = w)
       => Known(m, j) \/ Coming(m, j)

(* ... and a job being created is known to its creator alone.              *)
Possessed ==
  /\ \A w \in Worker, j \in Job : Possesses(w, mem[w], row, submitted, j)
  /\ \A v, w \in Worker, j \in Job : Creating(mem[v], j) /\ Known(mem[w], j) => v = w

-----------------------------------------------------------------------------
(* What a step means to the job's phase.                                   *)

(* Every job's phase moves as JobLifecycle says, or stays.                 *)
PhasesAdvance == \A j \in Job : Lifecycle!Reaches(PhaseOf(j), PhaseOf(j)')

LEMMA CreatingIs ==
  ASSUME TypeOK, NEW w \in Worker, NEW j \in Job
  PROVE  BeingCreated(w, j) <=> Creating(mem[w], j)
<1>1. mem[w].chain[j] \in Seq(Write)
  BY ChainTypes DEF TypeOK
<1>2. mem[w].chain[j] # <<>> => Head(mem[w].chain[j]) = mem[w].chain[j][1]
  BY <1>1
<1> QED BY <1>2 DEF BeingCreated, Creating

(* The phase of a job, from the three facts it depends on.                 *)
Phase(present, known, creating) ==
  IF present THEN "recorded"
  ELSE IF ~known THEN "new"
  ELSE IF creating THEN "submitted"
  ELSE "over"

LEMMA PhaseIs ==
  ASSUME TypeOK, NEW j \in Job
  PROVE  PhaseOf(j) = Phase(row[j].state # "absent", j \in submitted,
                            \E w \in Worker : Creating(mem[w], j))
<1>1. (\E w \in Worker : BeingCreated(w, j)) <=> \E w \in Worker : Creating(mem[w], j)
  BY CreatingIs
<1> QED BY <1>1 DEF PhaseOf, Phase

LEMMA PhaseReaches ==
  ASSUME NEW p \in BOOLEAN, NEW k \in BOOLEAN, NEW c \in BOOLEAN,
         NEW p2 \in BOOLEAN, NEW k2 \in BOOLEAN, NEW c2 \in BOOLEAN,
         k => k2,
         p => k,
         p2 => p \/ c \/ ~k,
         c2 => c \/ ~k,
         c2 /\ p => p2
  PROVE  Lifecycle!Reaches(Phase(p, k, c), Phase(p2, k2, c2))
BY DEF Lifecycle!Reaches, Lifecycle!Phases, Phase

(* A step of worker w.                                                     *)
LEMMA StepFounds ==
  ASSUME TypeOK, TypeOK', Founded, NEW w \in Worker, NEW n, Becomes(w, n),
         submitted \subseteq submitted', lapsed' = {},
         \A k \in Job : row'[k].state # "absent" =>
           row[k].state # "absent" \/ Creating(mem[w], k),
         \A v \in Worker : v # w => \A k \in Job : Mine(row, v, k) => Mine(row', v, k),
         \A k \in Job : Grounded(n.chain[k], Mine(row', w, k)),
         \A k \in Job : Creating(n, k) =>
           /\ Creating(mem[w], k) \/ k \notin submitted
           /\ row'[k].state = "absent" /\ k \in submitted'
  PROVE  Founded' /\ PhasesAdvance
<1>1. \A v \in Worker : mem'[v] = IF v = w THEN n ELSE mem[v]
  BY DEF Becomes, TypeOK
<1>2. \A v \in Worker, k \in Job :
        Creating(mem'[v], k) => Creating(mem[v], k) \/ (v = w /\ k \notin submitted)
  BY <1>1
<1>3. ASSUME NEW v \in Worker, NEW k \in Job, Creating(mem'[v], k)
      PROVE  row'[k].state = "absent" /\ k \in submitted'
  <2>1. CASE v = w
    BY <1>1, <1>3, <2>1
  <2>2. CASE v # w
    <3>1. Creating(mem[v], k)
      BY <1>2, <1>3, <2>2
    <3>2. ~Creating(mem[w], k) /\ row[k].state = "absent" /\ k \in submitted
      BY <2>2, <3>1 DEF Founded
    <3> QED BY <3>2
  <2> QED BY <2>1, <2>2
<1>4. ASSUME NEW k \in Job, row'[k].state # "absent" PROVE k \in submitted'
  BY <1>4 DEF Founded
<1>5. ASSUME NEW v \in Worker, NEW k \in Job
      PROVE  Grounded(mem'[v].chain[k], Mine(row', v, k))
  <2>1. CASE v = w
    BY <1>1, <2>1
  <2>2. CASE v # w
    <3>1. Grounded(mem[v].chain[k], Mine(row, v, k)) /\ (Mine(row, v, k) => Mine(row', v, k))
      BY <2>2 DEF Founded
    <3>2. mem'[v] = mem[v]
      BY <1>1, <2>2
    <3> QED BY <3>1, <3>2 DEF Grounded
  <2> QED BY <2>1, <2>2
<1>6. ASSUME NEW u \in Worker, NEW v \in Worker, NEW k \in Job,
             Creating(mem'[u], k), Creating(mem'[v], k)
      PROVE  u = v
  BY <1>2, <1>6 DEF Founded
<1>7. Founded'
  <2>1. \A v \in Worker, k \in Job : Grounded(mem'[v].chain[k], Mine(row', v, k))
    BY <1>5
  <2>2. \A v \in Worker, k \in Job :
          Creating(mem'[v], k) => row'[k].state = "absent" /\ k \in submitted'
    BY <1>3
  <2>3. \A u, v \in Worker, k \in Job : Creating(mem'[u], k) /\ Creating(mem'[v], k) => u = v
    BY <1>6
  <2>4. \A k \in Job : row'[k].state # "absent" => k \in submitted'
    BY <1>4
  <2>5. lapsed' = {}
    OBVIOUS
  <2> QED BY <2>1, <2>2, <2>3, <2>4, <2>5 DEF Founded, Creating, Mine
<1>8. ASSUME NEW j \in Job PROVE Lifecycle!Reaches(PhaseOf(j), PhaseOf(j)')
  <2> DEFINE p == row[j].state # "absent"
             k == j \in submitted
             c == \E v \in Worker : Creating(mem[v], j)
             p2 == row'[j].state # "absent"
             k2 == j \in submitted'
             c2 == \E v \in Worker : Creating(mem'[v], j)
  <2>1. PhaseOf(j) = Phase(p, k, c)
    BY PhaseIs
  <2>2. PhaseOf(j)' = Phase(p2, k2, c2)
    <3>1. (\A v \in Worker : BeingCreated(v, j)' <=> Creating(mem'[v], j))
      <4> TAKE v \in Worker
      <4>1. mem'[v].chain[j] \in Seq(Write)
        <5>1. mem'[v] \in Memory
          BY DEF TypeOK
        <5> QED BY <5>1, ChainTypes
      <4>2. mem'[v].chain[j] # <<>> => Head(mem'[v].chain[j]) = mem'[v].chain[j][1]
        BY <4>1
      <4> QED BY <4>2 DEF BeingCreated, Creating
    <3>2. (\E v \in Worker : BeingCreated(v, j)') <=> c2
      BY <3>1
    <3> QED BY <3>2 DEF PhaseOf, Phase
  <2>3. /\ p \in BOOLEAN /\ k \in BOOLEAN /\ c \in BOOLEAN
        /\ p2 \in BOOLEAN /\ k2 \in BOOLEAN /\ c2 \in BOOLEAN
    OBVIOUS
  <2>4. (p => k) /\ (k => k2)
    BY DEF Founded
  <2>5. c2 => c \/ ~k
    BY <1>2
  <2>6. p2 => p \/ c
    OBVIOUS
  <2>7. c2 => ~p
    BY <1>2 DEF Founded
  <2> HIDE DEF p, k, c, p2, k2, c2
  <2>8. Lifecycle!Reaches(Phase(p, k, c), Phase(p2, k2, c2))
    BY <2>3, <2>4, <2>5, <2>6, <2>7, PhaseReaches
  <2> QED BY <2>1, <2>2, <2>8
<1> QED BY <1>7, <1>8 DEF PhasesAdvance

LEMMA GroundedTail ==
  ASSUME NEW c \in Seq(Write), c # <<>>, NEW mine \in BOOLEAN, Grounded(c, mine)
  PROVE  Grounded(Tail(c), mine)
<1> DEFINE d == Tail(c)
<1>1. /\ Len(c) \in Nat /\ Len(d) = Len(c) - 1
      /\ \A i \in 1..Len(d) : d[i] = c[i + 1] /\ i + 1 \in 1..Len(c)
  <2>1. Len(c) \in Nat /\ Len(c) # 0
    BY EmptySeq
  <2>2. Len(d) = Len(c) - 1 /\ \A i \in 1..Len(d) : d[i] = c[i + 1]
    BY HeadTailProperties
  <2> HIDE DEF d
  <2> QED BY <2>1, <2>2
<1> HIDE DEF d
<1>2. Grounded(d, mine)
  BY <1>1 DEF Grounded
<1> QED BY <1>2 DEF d

(* A chain with a removal grows no more, so a grounded one that is made    *)
(* longer stays grounded.                                                  *)
LEMMA GroundedLonger ==
  ASSUME NEW c \in Seq(Write), NEW d \in Seq(Write), NEW mine \in BOOLEAN, Grounded(c, mine),
         NEW ended, NEW may, Longer(c, d, ended, may), may => mine,
         (\E i \in 1..Len(c) : c[i].op = "remove") => d = c
  PROVE  Grounded(d, mine)
<1>1. Len(c) \in Nat /\ Len(d) \in Nat
  OBVIOUS
<1>2. ASSUME NEW i \in 1..Len(d)
      PROVE  /\ d[i].op = "remove" => i = Len(d)
             /\ d[i].op \in {"save", "acquire"} => mine
  <2>1. CASE i > Len(c)
    BY <2>1 DEF Longer
  <2>2. CASE i <= Len(c)
    <3>1. i \in 1..Len(c) /\ d[i] = c[i]
      BY <1>1, <2>2 DEF Longer
    <3> QED BY <3>1 DEF Grounded
  <2> QED BY <1>1, <2>1, <2>2
<1> QED BY <1>2 DEF Grounded

(* What may be added to a grounded chain leaves it grounded.               *)
LEMMA CallsGrounded ==
  ASSUME NEW d \in Memory, NEW n \in Memory, Calls(d, n), NEW k \in Job, NEW mine \in BOOLEAN,
         Grounded(d.chain[k], mine), k \in Held(d) \/ k \in Held(n) => mine,
         (\E i \in 1..Len(d.chain[k]) : d.chain[k][i].op = "remove") => Ended(d, k)
  PROVE  Grounded(n.chain[k], mine) /\ (Creating(n, k) => Creating(d, k))
<1> DEFINE e == d.chain[k]  f == n.chain[k]
           may == k \in Held(d) \/ k \in Held(n)
<1>1. e \in Seq(Write) /\ f \in Seq(Write) /\ Len(e) \in Nat /\ Len(f) \in Nat
  BY ChainTypes
<1>2. /\ Ended(d, k) => f = e
      /\ Longer(e, f, Ended(n, k), may)
  BY DEF Calls
<1>3. Grounded(e, mine) /\ ((\E i \in 1..Len(e) : e[i].op = "remove") => f = e) /\ (may => mine)
  BY <1>2
<1> HIDE DEF e, f, may
<1>4. Grounded(f, mine)
  BY <1>1, <1>2, <1>3, GroundedLonger
<1>5. ASSUME f # <<>>, f[1].op = "create", f[1].answer = "none"
      PROVE  e # <<>> /\ e[1].op = "create" /\ e[1].answer = "none"
  <2>1. 1 \in 1..Len(f)
    BY <1>1, <1>5
  <2>2. 1 <= Len(e)
    BY <1>1, <1>2, <1>5, <2>1 DEF Longer
  <2>3. 1 \in 1..Len(e) /\ f[1] = e[1]
    BY <1>1, <1>2, <2>2 DEF Longer
  <2>4. e # <<>>
    BY <2>2
  <2> QED BY <1>5, <2>3, <2>4
<1> QED BY <1>4, <1>5 DEF Creating, e, f

(* d is m, or m without the answered head of a chain.                      *)
Sheds(m, d) ==
  /\ d.ent = m.ent
  /\ \A k \in Job : \/ d.chain[k] = m.chain[k]
                    \/ /\ m.chain[k] # <<>> /\ m.chain[k][1].answer # "none"
                       /\ d.chain[k] = Tail(m.chain[k])

(* The answer to a create has been heard: in n its job is stored or ended. *)
Answers(m, d, n) ==
  \A k \in Job :
    (d.chain[k] # m.chain[k] /\ m.chain[k][1].op = "create")
      => n.ent[k].durability # "pending" \/ Ended(n, k)

(* Every row under w's name is one that n knows, or is waiting for.        *)
Tracks(w, n) ==
  \A k \in Job :
    (n.up /\ n.loading # "asked" /\ row'[k].state # "absent" /\ row'[k].owner = w)
      => Known(n, k) \/ Coming(n, k)

(* A row that changes hands becomes w's.                                   *)
Takes(w) == \A k \in Job : row'[k].owner \in {row[k].owner, w}

(* No row comes or goes, and no standing claim is touched.                 *)
RowsStand ==
  \A k \in Job :
    /\ row'[k].state = "absent" <=> row[k].state = "absent"
    /\ \A v \in Worker : Mine(row, v, k) => Mine(row', v, k)

(* A step that writes no job's row, or only renews or takes over claims.   *)
LEMMA MemoryFounds ==
  ASSUME IInv, IInv', Founded, NEW w \in Worker, NEW n, Becomes(w, n),
         RowsStand, UNCHANGED <<submitted, lapsed>>,
         NEW d \in Memory, Sheds(mem[w], d), Calls(d, n)
  PROVE  Founded' /\ PhasesAdvance
<1> DEFINE m == mem[w]
<1>1. m \in Memory /\ n \in Memory /\ mem'[w] = n /\ w \in Worker \ lapsed
  BY DEF IInv, TypeOK, Becomes, Founded
<1>2. ASSUME NEW k \in Job PROVE JobInv(w, m, row, k) /\ JobInv(w, n, row', k)
  <2>1. WorkerInv(w, m, row)
    BY <1>1 DEF IInv, ClaimsHold
  <2>2. WorkerInv(w, n, row')
    <3>1. ClaimsHold' /\ w \in Worker \ lapsed'
      BY <1>1 DEF IInv
    <3> QED BY <1>1, <3>1 DEF ClaimsHold
  <2> QED BY <2>1, <2>2 DEF WorkerInv
<1>3. ASSUME NEW k \in Job
      PROVE  /\ Grounded(n.chain[k], Mine(row', w, k))
             /\ Creating(n, k) => Creating(m, k)
  <2> DEFINE c == m.chain[k]  e == d.chain[k]
             mine == Mine(row', w, k)
             entry == m.ent[k]
             asking == k \in m.starting
  <2>1. c \in Seq(Write) /\ e \in Seq(Write) /\ Len(e) \in Nat
    BY <1>1, ChainTypes
  <2>2. Grounded(c, mine) /\ mine \in BOOLEAN
    <3>1. Mine(row, w, k) => mine
      BY DEF RowsStand
    <3>2. Grounded(c, Mine(row, w, k))
      BY DEF Founded
    <3>3. mine \in BOOLEAN
      BY DEF Mine
    <3> QED BY <3>1, <3>2, <3>3 DEF Grounded
  <2>3. e = c \/ (c # <<>> /\ e = Tail(c))
    BY DEF Sheds
  <2>4. ChainShape(c, entry, asking) /\ asking \in BOOLEAN
    BY <1>2 DEF JobInv, Chained
  <2>5. k \in Held(d) \/ k \in Held(n) => mine
    <3>1. Held(d) = Held(m)
      BY DEF Held, Sheds
    <3> QED BY <1>2, <3>1 DEF JobInv, Backed, RowsStand
  <2>6. Ended(d, k) <=> entry.state \in Terminal
    BY DEF Sheds, Ended
  <2> HIDE DEF c, e, mine, entry, asking
  <2>7. Grounded(e, mine)
    BY <2>1, <2>2, <2>3, GroundedTail
  <2>8. /\ (\E i \in 1..Len(e) : e[i].op = "remove") => Ended(d, k)
        /\ e = c \/ \A i \in 1..Len(e) : e[i].op # "create"
    <3>1. CASE e = c
      BY <2>4, <2>6, <3>1 DEF ChainShape
    <3>2. CASE c # <<>> /\ e = Tail(c)
      <4>1. /\ ChainShape(Tail(c), entry, asking)
            /\ \A i \in 1..Len(Tail(c)) : Tail(c)[i].op # "create"
        BY <2>1, <2>4, <3>2, ShapeTail
      <4> QED BY <2>6, <3>2, <4>1 DEF ChainShape
    <3> QED BY <2>3, <3>1, <3>2
  <2>9. Grounded(n.chain[k], mine) /\ (Creating(n, k) => Creating(d, k))
    BY <1>1, <2>2, <2>5, <2>7, <2>8, CallsGrounded DEF e
  <2>10. ASSUME Creating(d, k) PROVE Creating(m, k)
    <3>1. e # <<>> /\ e[1].op = "create" /\ e[1].answer = "none"
      BY <2>10 DEF Creating, e
    <3>2. 1 \in 1..Len(e)
      BY <2>1, <3>1
    <3>3. e = c
      BY <2>8, <3>1, <3>2
    <3> QED BY <3>1, <3>3 DEF Creating, c
  <2> QED BY <2>9, <2>10 DEF mine
<1>4. \A k \in Job : Creating(n, k) =>
        Creating(m, k) /\ row'[k].state = "absent" /\ k \in submitted'
  BY <1>3 DEF Founded, RowsStand
<1>5. \A k \in Job : Grounded(n.chain[k], Mine(row', w, k))
  BY <1>3
<1>6. TypeOK /\ TypeOK'
  BY DEF IInv
<1>7. \A k \in Job : row'[k].state # "absent" => row[k].state # "absent" \/ Creating(mem[w], k)
  BY DEF RowsStand
<1>8. \A v \in Worker : v # w => \A k \in Job : Mine(row, v, k) => Mine(row', v, k)
  BY DEF RowsStand
<1>9. submitted \subseteq submitted' /\ lapsed' = {}
  BY DEF Founded
<1> QED BY <1>4, <1>5, <1>6, <1>7, <1>8, <1>9, StepFounds

(* A step of worker w, and what its process is left with.                  *)
LEMMA StepPossesses ==
  ASSUME TypeOK, Possessed, NEW w \in Worker, NEW n, Becomes(w, n),
         submitted \subseteq submitted',
         \A v \in Worker, k \in Job : (v # w /\ row'[k].state # "absent") =>
           /\ Mine(row, v, k) => Mine(row', v, k)
           /\ row'[k].owner = v => row[k].owner = v /\ row[k].state # "absent"
           /\ Known(mem[v], k) => row[k].state # "absent",
         \A k \in Job : Possesses(w, n, row', submitted', k),
         \A v \in Worker, k \in Job : v # w =>
           /\ ~(Creating(n, k) /\ Known(mem[v], k))
           /\ ~(Creating(mem[v], k) /\ Known(n, k))
  PROVE  Possessed'
<1>1. \A v \in Worker : mem'[v] = IF v = w THEN n ELSE mem[v]
  BY DEF Becomes, TypeOK
<1>2. ASSUME NEW v \in Worker, NEW k \in Job
      PROVE  Possesses(v, mem'[v], row', submitted', k)
  <2>1. CASE v = w
    BY <1>1, <2>1
  <2>2. CASE v # w
    <3>1. Possesses(v, mem[v], row, submitted, k) /\ mem'[v] = mem[v]
      BY <1>1, <2>2 DEF Possessed
    <3>2. Ended(mem[v], k) => Known(mem[v], k)
      BY DEF Ended, Known, Terminal
    <3>3. Possesses(v, mem[v], row', submitted', k)
      BY <2>2, <3>1, <3>2 DEF Possesses
    <3> QED BY <3>1, <3>3
  <2> QED BY <2>1, <2>2
<1>3. ASSUME NEW u \in Worker, NEW v \in Worker, NEW k \in Job,
             Creating(mem'[u], k), Known(mem'[v], k)
      PROVE  u = v
  BY <1>1, <1>3 DEF Possessed
<1> QED BY <1>2, <1>3 DEF Possessed, Possesses, Known, Ended, Creating, Coming, Mine

LEMMA ClosingTail ==
  ASSUME NEW c \in Seq(Write), Closing(c), c[1].answer # "none"
  PROVE  Tail(c) # <<>> /\ Closing(Tail(c))
<1> DEFINE d == Tail(c)
<1>1. Len(c) \in Nat /\ Len(c) # 0 /\ Len(c) # 1 /\ c # <<>>
  BY EmptySeq DEF Closing
<1>2. Len(d) = Len(c) - 1 /\ \A i \in 1..Len(d) : d[i] = c[i + 1]
  BY <1>1, HeadTailProperties
<1> HIDE DEF d
<1>3. Len(d) \in 1..Len(d) /\ Len(d) + 1 = Len(c)
  BY <1>1, <1>2
<1>4. d[Len(d)] = c[Len(c)] /\ d # <<>>
  BY <1>2, <1>3
<1>5. Closing(d)
  BY <1>4 DEF Closing
<1> QED BY <1>4, <1>5 DEF d

(* What a process is left with, after it may have heard an answer, by what *)
(* its handler keeps.                                                      *)
LEMMA MemoryPossesses ==
  ASSUME IInv, IInv', Founded, Founded', Possessed, NEW w \in Worker, NEW n, Becomes(w, n),
         RowsStand, UNCHANGED <<submitted, lapsed>>,
         NEW d \in Memory, Sheds(mem[w], d), Calls(d, n),
         Answers(mem[w], d, n), Tracks(w, n), Takes(w)
  PROVE  Possessed'
<1> DEFINE m == mem[w]
<1>1. m \in Memory /\ n \in Memory /\ mem'[w] = n /\ w \in Worker \ lapsed
  BY DEF IInv, TypeOK, Becomes, Founded
<1>2. ASSUME NEW k \in Job PROVE JobInv(w, m, row, k) /\ JobInv(w, n, row', k)
  <2>1. WorkerInv(w, m, row)
    BY <1>1 DEF IInv, ClaimsHold
  <2>2. WorkerInv(w, n, row')
    <3>1. ClaimsHold' /\ w \in Worker \ lapsed'
      BY <1>1 DEF IInv
    <3> QED BY <1>1, <3>1 DEF ClaimsHold
  <2> QED BY <2>1, <2>2 DEF WorkerInv
<1>3. ASSUME NEW k \in Job
      PROVE  /\ Possesses(w, n, row', submitted', k)
             /\ Creating(n, k) => Creating(m, k)
             /\ Known(n, k) => Known(m, k) \/ row'[k].state # "absent"
  <2> DEFINE c == m.chain[k]  e == d.chain[k]  f == n.chain[k]
  <2>1. /\ c \in Seq(Write) /\ e \in Seq(Write) /\ f \in Seq(Write)
        /\ Len(e) \in Nat /\ Len(f) \in Nat /\ m.ent[k] \in Entry
    BY <1>1, ChainTypes
  <2>2. /\ Possesses(w, m, row, submitted, k) /\ d.ent[k] = m.ent[k]
        /\ e = c \/ (c # <<>> /\ c[1].answer # "none" /\ e = Tail(c))
        /\ Keeps(d, n, k) /\ (Ended(d, k) => Ended(n, k) /\ f = e)
        /\ Longer(e, f, Ended(n, k), k \in Held(d) \/ k \in Held(n))
    BY DEF Possessed, Sheds, Calls
  <2>3. /\ ChainShape(c, m.ent[k], k \in m.starting) /\ Placed(m, k)
        /\ k \in Held(n) => Mine(row', w, k)
    BY <1>2 DEF JobInv, Chained, Backed
  <2>4. /\ Known(d, k) <=> Known(m, k)
        /\ Ended(d, k) <=> Ended(m, k)
        /\ Ended(n, k) => k \notin Held(n) /\ Known(n, k)
        /\ row'[k].state # "absent" <=> row[k].state # "absent"
        /\ Mine(row, w, k) => Mine(row', w, k)
        /\ submitted' = submitted
    BY <2>2 DEF Known, Ended, Held, Terminal, RowsStand
  <2>5. Known(n, k) => Known(m, k) \/ Mine(row', w, k)
    BY <2>2, <2>3, <2>4 DEF Keeps
  <2>6. Mine(row', w, k) => row'[k].state # "absent" /\ k \in submitted'
    BY DEF Mine, Founded
  <2>7. e = c \/ \A i \in 1..Len(e) : e[i].op # "create"
    <3>1. CASE c # <<>> /\ e = Tail(c)
      <4> DEFINE entry == m.ent[k]  asking == k \in m.starting
      <4>1. ChainShape(c, entry, asking) /\ asking \in BOOLEAN
        BY <2>3
      <4> HIDE DEF c, e, entry, asking
      <4>2. \A i \in 1..Len(Tail(c)) : Tail(c)[i].op # "create"
        BY <2>1, <3>1, <4>1, ShapeTail
      <4> QED BY <3>1, <4>2
    <3> QED BY <2>2, <3>1
  <2> HIDE DEF c, e, f
  <2>8. ASSUME f # <<>>, f[1].op = "create"
        PROVE  e # <<>> /\ f[1] = e[1] /\ e = c
    <3>1. 1 \in 1..Len(f)
      BY <2>1, <2>8
    <3>2. 1 <= Len(e)
      BY <2>1, <2>2, <2>8, <3>1 DEF Longer
    <3>3. 1 \in 1..Len(e) /\ f[1] = e[1]
      BY <2>1, <2>2, <3>2 DEF Longer
    <3>4. e # <<>>
      BY <3>2
    <3> QED BY <2>7, <2>8, <3>3, <3>4
  <2>9. Creating(n, k) => Creating(m, k)
    BY <2>8 DEF Creating, c, f
  <2>10. ASSUME Ended(n, k), row'[k].state # "absent" \/ Creating(n, k)
         PROVE  Closing(f)
    <3>1. row[k].state # "absent" \/ Creating(m, k)
      BY <2>4, <2>9, <2>10
    <3>2. CASE Ended(m, k)
      <4>1. Closing(c) /\ f = e
        BY <2>2, <2>4, <3>1, <3>2 DEF Possesses, c
      <4>2. CASE e = c
        BY <4>1, <4>2
      <4>3. CASE c[1].answer # "none" /\ e = Tail(c)
        BY <2>1, <4>1, <4>3, ClosingTail
      <4> QED BY <2>2, <4>1, <4>2, <4>3
    <3>3. CASE ~Ended(m, k)
      <4>1. Known(m, k)
        BY <2>2, <2>4, <2>10 DEF Keeps
      <4>2. m.ent[k].state \in {"queued", "running"}
        BY <2>1, <3>3, <4>1 DEF Ended, Known, Entry
      <4>3. m.ent[k].durability \in {"pending", "stored"}
        BY <2>3, <4>2 DEF Placed
      <4> QED BY <2>2, <2>4, <2>10, <3>3, <4>3 DEF Keeps, f
    <3> QED BY <3>2, <3>3
  <2>11. ASSUME n.ent[k].durability = "pending", ~Ended(n, k)
         PROVE  f # <<>> /\ f[1].op = "create"
    <3>1. m.ent[k].durability = "pending" /\ ~Ended(m, k)
      BY <2>2, <2>4, <2>11 DEF Keeps
    <3>2. c # <<>> /\ c[1].op = "create"
      BY <2>2, <3>1 DEF Possesses, c
    <3>3. e = c
      BY <2>11, <3>2 DEF Answers, c, e
    <3>4. 1 \in 1..Len(e)
      BY <2>1, <3>2, <3>3, EmptySeq
    <3>5. 1 <= Len(f) /\ f[1] = e[1]
      BY <2>1, <2>2, <3>4 DEF Longer
    <3> QED BY <2>1, <3>2, <3>3, <3>5
  <2>12. (Known(n, k) /\ row'[k].state # "absent") => Mine(row', w, k)
    BY <2>2, <2>4, <2>5 DEF Possesses
  <2>13. Known(n, k) => k \in submitted'
    BY <2>2, <2>4, <2>5, <2>6 DEF Possesses
  <2>14. Possesses(w, n, row', submitted', k)
    BY <2>10, <2>11, <2>12, <2>13 DEF Possesses, Tracks, f
  <2> QED BY <2>5, <2>6, <2>9, <2>14
<1>4. ASSUME NEW v \in Worker, NEW k \in Job, v # w
      PROVE  /\ ~(Creating(n, k) /\ Known(mem[v], k))
             /\ ~(Creating(mem[v], k) /\ Known(n, k))
  <2>1. mem'[v] = mem[v]
    BY <1>4 DEF Becomes, IInv, TypeOK
  <2>2. Creating(mem[v], k) => row'[k].state = "absent"
    BY <2>1 DEF Founded, Creating
  <2> QED BY <1>3, <1>4, <2>2 DEF Possessed
<1>5. \A v \in Worker, k \in Job : (v # w /\ row'[k].state # "absent") =>
        /\ Mine(row, v, k) => Mine(row', v, k)
        /\ row'[k].owner = v => row[k].owner = v /\ row[k].state # "absent"
        /\ Known(mem[v], k) => row[k].state # "absent"
  BY DEF RowsStand, Takes
<1>6. TypeOK /\ submitted \subseteq submitted'
  BY DEF IInv
<1> QED BY <1>3, <1>4, <1>5, <1>6, StepPossesses

LEMMA SameRowsStand ==
  ASSUME UNCHANGED row
  PROVE  RowsStand
BY DEF RowsStand

LEMMA ShedsNothing ==
  ASSUME NEW m
  PROVE  Sheds(m, m) /\ Waits(m, m) /\ \A n : Answers(m, m, n)
BY DEF Sheds, Waits, Answers

LEMMA CalmMemory ==
  ASSUME IInv, Founded, NEW w \in Worker
  PROVE  Calm(mem[w]) /\ WorkerInv(w, mem[w], row)
<1>1. mem[w] \in Memory
  BY DEF IInv, TypeOK
<1>2. WorkerInv(w, mem[w], row)
  BY DEF IInv, ClaimsHold, Founded
<1>3. \A j \in mem[w].queue : j \in Job
  BY <1>1 DEF Memory
<1>4. \A j \in Job : j \in mem[w].queue => mem[w].ent[j].state = "queued"
  BY <1>2 DEF WorkerInv, JobInv, Placed
<1> QED BY <1>1, <1>2, <1>3, <1>4 DEF Calm

(* The states an action leads from and to, and what is to be shown of it.  *)
Stands == IInv /\ IInv' /\ Founded

Implements ==
  /\ Founded'
  /\ PhasesAdvance
  /\ Possessed /\ used'["error"] = 0 => Possessed'

(* A step of a process's memory, that may also take or renew rows.         *)
LEMMA MemoryImplements ==
  ASSUME Stands, NEW w \in Worker, NEW n, Becomes(w, n), RowsStand,
         UNCHANGED <<submitted, lapsed>>,
         NEW d \in Memory, Sheds(mem[w], d), Calls(d, n),
         Possessed /\ used'["error"] = 0 =>
           Answers(mem[w], d, n) /\ Tracks(w, n) /\ Takes(w)
  PROVE  Implements
<1>1. Founded' /\ PhasesAdvance
  BY MemoryFounds DEF Stands
<1>2. ASSUME Possessed, used'["error"] = 0 PROVE Possessed'
  BY <1>1, <1>2, MemoryPossesses DEF Stands
<1> QED BY <1>1, <1>2 DEF Implements

LEMMA SpentError ==
  ASSUME TypeOK, Spend("error")
  PROVE  used'["error"] # 0
<1>1. used \in [Kinds -> Nat] /\ "error" \in Kinds
  BY KindsNamed DEF TypeOK
<1>2. used' = [used EXCEPT !["error"] = @ + 1]
  BY DEF Spend
<1> QED BY <1>1, <1>2

(* The rows stay whose they are, and so does what is known of them.        *)
LEMMA TracksStill ==
  ASSUME Possessed, NEW w \in Worker, RowsStand,
         \A k \in Job : row'[k].owner = row[k].owner, NEW n, Expects(mem[w], n),
         \A k \in Job : Known(mem[w], k) => Known(n, k)
  PROVE  Tracks(w, n) /\ Takes(w)
<1> DEFINE m == mem[w]
<1>1. \A k \in Job : Possesses(w, m, row, submitted, k)
  BY DEF Possessed
<1> HIDE DEF m
<1>2. Expects(m, n) /\ \A k \in Job : Known(m, k) => Known(n, k)
  BY DEF m
<1>3. ASSUME NEW k \in Job, n.up, n.loading # "asked", row'[k].state # "absent",
             row'[k].owner = w
      PROVE  Known(n, k) \/ Coming(n, k)
  <2>1. row[k].state # "absent" /\ row[k].owner = w
    BY <1>3 DEF RowsStand
  <2> QED BY <1>1, <1>2, <1>3, <2>1 DEF Possesses, Expects
<1> QED BY <1>3 DEF Tracks, Takes

(* From mem[w], perhaps without an answered call, to what the handler      *)
(* makes of it.                                                            *)
LEMMA HandlerFounds ==
  ASSUME Stands, NEW w \in Worker, UNCHANGED <<row, submitted, lapsed>>,
         NEW d, Calm(d), Sheds(mem[w], d), Waits(mem[w], d), NEW n \in Memory, Becomes(w, n),
         Calls(d, n), Possessed => Answers(mem[w], d, n)
  PROVE  Implements
<1> DEFINE m == mem[w]
<1>1. \A k \in Job : Known(m, k) => Known(n, k)
  BY DEF Calls, Keeps, Sheds, Known
<1>2. Expects(m, n)
  BY DEF Calls, Waits, Expects, Coming
<1>3. RowsStand
  BY SameRowsStand
<1>4. ASSUME Possessed PROVE Tracks(w, n) /\ Takes(w)
  BY <1>1, <1>2, <1>3, <1>4, TracksStill
<1> QED BY <1>3, <1>4, MemoryImplements DEF Calm

(* No chain is touched, and no job comes or ends.                          *)
LEMMA QuietFounds ==
  ASSUME Stands, NEW w \in Worker, NEW n, Becomes(w, n), UNCHANGED <<row, submitted, lapsed>>,
         n \in Memory, n.chain = mem[w].chain, Waits(mem[w], n),
         \A k \in Job : Resembles(mem[w], n, k)
  PROVE  Implements
<1>1. Calm(mem[w]) /\ mem[w] \in Memory
  BY CalmMemory DEF Stands, Calm
<1>2. Calls(mem[w], n)
  BY <1>1, CallsQuietly
<1> QED BY <1>1, <1>2, ShedsNothing, HandlerFounds

(* The handler ends in #pump.                                              *)
LEMMA PumpFounds ==
  ASSUME Stands, NEW w \in Worker, NEW n, Becomes(w, Pump(n)), UNCHANGED <<row, submitted, lapsed>>,
         NEW d \in Memory, Calm(d), Sheds(mem[w], d), Waits(mem[w], d), Calm(n), Calls(d, n),
         Possessed => Answers(mem[w], d, n)
  PROVE  Implements
<1> DEFINE p == Pump(n)
<1>1. p \in Memory /\ Calls(d, p)
  BY ThenPump
<1>2. Calls(n, p)
  BY PumpCalls
<1>3. Becomes(w, p)
  OBVIOUS
<1> HIDE DEF p
<1>4. Answers(mem[w], d, n) => Answers(mem[w], d, p)
  BY <1>2 DEF Answers, Calls, Keeps
<1> QED BY <1>1, <1>3, <1>4, HandlerFounds

LEMMA PullCalls ==
  ASSUME NEW m, Calm(m), NEW S \in SUBSET Job
  PROVE  LET n == Pull(m, S)
         IN Calm(n) /\ Calls(m, n) /\ Held(n) = Held(m) /\ n.ent = m.ent /\ n.queue = m.queue \ S
<1> DEFINE n == Pull(m, S)
<1>1. m \in Memory
  BY DEF Calm
<1>2. n \in Memory
  BY <1>1, PullType
<1>3. n.ent = m.ent /\ n.chain = m.chain /\ n.queue = m.queue \ S /\ AgreeAround(m, n)
  BY <1>1, PullFields
<1> HIDE DEF n
<1>4. Calls(m, n)
  BY <1>1, <1>3, CallsIdly DEF AgreeAround, Waits
<1>5. Calm(n) /\ Held(n) = Held(m)
  BY <1>2, <1>3 DEF Calm, Held
<1> QED BY <1>3, <1>4, <1>5 DEF n

(* #settle of jobs that are not in the queue.                              *)
LEMMA SettledCalm ==
  ASSUME NEW m, Calm(m), NEW S \in SUBSET Job, NEW state \in Terminal,
         \A j \in S : Known(m, j) /\ ~Ended(m, j) /\ j \notin m.queue
  PROVE  LET n == Settle(m, S, state)
         IN Calm(n) /\ Calls(m, n) /\ Held(n) \subseteq Held(m)
<1> DEFINE n == Settle(m, S, state)
<1>1. m \in Memory
  BY DEF Calm
<1>2. /\ n \in Memory /\ Calls(m, n) /\ Held(n) \subseteq Held(m) /\ n.queue = m.queue
      /\ \A j \in Job \ S : n.ent[j] = m.ent[j]
  BY <1>1, SettleCalls
<1> HIDE DEF n
<1>3. n.queue \subseteq Job
  BY <1>2 DEF Memory
<1>4. Calm(n)
  BY <1>2, <1>3 DEF Calm
<1> QED BY <1>2, <1>4 DEF n

(* ... and of jobs that are first taken out of it.                         *)
LEMMA PullSettle ==
  ASSUME NEW m, Calm(m), NEW S \in SUBSET Job, NEW state \in Terminal,
         \A j \in S : Known(m, j) /\ ~Ended(m, j)
  PROVE  LET n == Settle(Pull(m, S), S, state)
         IN Calm(n) /\ Calls(m, n) /\ Held(n) \subseteq Held(m)
<1> DEFINE p == Pull(m, S)
           n == Settle(p, S, state)
<1>1. Calm(p) /\ Calls(m, p) /\ Held(p) = Held(m) /\ p.ent = m.ent /\ p.queue = m.queue \ S
  BY PullCalls
<1> HIDE DEF p
<1>2. \A j \in S : Known(p, j) /\ ~Ended(p, j) /\ j \notin p.queue
  BY <1>1 DEF Ended, Known
<1>3. Calm(n) /\ Calls(p, n) /\ Held(n) \subseteq Held(p)
  BY <1>1, <1>2, SettledCalm
<1> HIDE DEF n
<1>4. m \in Memory /\ p \in Memory /\ n \in Memory /\ Held(p) \subseteq Held(m) \cup Held(n)
  BY <1>1, <1>3 DEF Calm
<1>5. Calls(m, n)
  BY <1>1, <1>3, <1>4, CallsTransitive
<1> QED BY <1>1, <1>3, <1>5 DEF n, p

-----------------------------------------------------------------------------
(* The public methods.                                                     *)

LEMMA CancelQueuedImplements ==
  ASSUME Stands, NEW w \in Worker, NEW j \in Job, CancelQueued(w, j)
  PROVE  Implements
<1> DEFINE m == mem[w]
           S == {j}
           state == "cancelled"
           n == Settle(Pull(m, S), S, state)
<1>1. Becomes(w, Pump(n)) /\ UNCHANGED <<row, submitted, lapsed>> /\ m.ent[j].state = "queued"
  BY DEF CancelQueued
<1>2. Calm(m) /\ m \in Memory
  BY CalmMemory DEF Stands, Calm
<1>3. state \in Terminal /\ S \in SUBSET Job /\ \A k \in S : Known(m, k) /\ ~Ended(m, k)
  BY <1>1 DEF Terminal, Ended, Known
<1> HIDE DEF state, S, m
<1>4. Calm(n) /\ Calls(m, n)
  BY <1>2, <1>3, PullSettle
<1> HIDE DEF n
<1>5. Sheds(mem[w], m) /\ Waits(mem[w], m) /\ Answers(mem[w], m, n)
  BY ShedsNothing DEF m
<1> QED BY <1>1, <1>2, <1>4, <1>5, PumpFounds

LEMMA CancelRunningImplements ==
  ASSUME Stands, NEW w \in Worker, NEW j \in Job, CancelRunning(w, j)
  PROVE  Implements
<1> DEFINE m == mem[w]
           e == [m.ent[j] EXCEPT !.cancelRequested = TRUE]
           f == [m.ent EXCEPT ![j] = e]
           n == [m EXCEPT !.ent = f]
<1>1. m \in Memory
  BY DEF Stands, IInv, TypeOK
<1>2. Becomes(w, n) /\ UNCHANGED <<row, submitted, lapsed>>
  <2>1. n = [m EXCEPT !.ent[j].cancelRequested = TRUE]
    BY <1>1 DEF Memory
  <2> HIDE DEF n
  <2> QED BY <2>1 DEF CancelRunning
<1>3. /\ f \in [Job -> Entry]
      /\ \A k \in Job : f[k].state = m.ent[k].state /\ f[k].durability = m.ent[k].durability
  <2>1. m.ent[j] \in Entry /\ m.ent \in [Job -> Entry]
    BY <1>1 DEF Memory
  <2>2. e \in Entry /\ e.state = m.ent[j].state /\ e.durability = m.ent[j].durability
    BY <2>1 DEF Entry
  <2> HIDE DEF e
  <2> QED BY <2>1, <2>2
<1> HIDE DEF f
<1>4. n \in Memory /\ n.chain = m.chain /\ n.ent = f /\ Waits(m, n)
  <2> HIDE DEF m
  <2> QED BY <1>1, <1>3 DEF Memory, Waits
<1>5. \A k \in Job : Resembles(m, n, k)
  BY <1>3, <1>4 DEF Resembles, Known, Ended
<1> HIDE DEF n
<1> QED BY <1>2, <1>4, <1>5, QuietFounds

LEMMA PauseImplements ==
  ASSUME Stands, NEW w \in Worker, Pause(w) \/ Resume(w) \/ Drain(w)
  PROVE  Implements
<1> DEFINE m == mem[w]
           paused == [m EXCEPT !.paused = TRUE]
           resumed == [m EXCEPT !.paused = FALSE]
           drain == [m EXCEPT !.drain = Awaited(m)]
<1>1. Calm(m) /\ m \in Memory /\ UNCHANGED <<row, submitted, lapsed>>
  BY CalmMemory DEF Stands, Calm, Pause, Resume, Drain
<1>2. /\ Pause(w) => Becomes(w, paused)
      /\ Resume(w) => Becomes(w, Pump(resumed))
      /\ Drain(w) => Becomes(w, drain)
  BY DEF Pause, Resume, Drain
<1> HIDE DEF m
<1>3. /\ paused \in Memory /\ paused.ent = m.ent /\ paused.chain = m.chain /\ Waits(m, paused)
      /\ resumed \in Memory /\ resumed.ent = m.ent /\ resumed.chain = m.chain
      /\ resumed.queue = m.queue /\ Waits(m, resumed)
  BY <1>1 DEF Memory, Waits
<1>4. drain \in Memory /\ drain.ent = m.ent /\ drain.chain = m.chain /\ Waits(m, drain)
  <2>1. drain \in Memory /\ Agree(m, drain)
    BY <1>1, DrainAgrees
  <2> HIDE DEF drain
  <2> QED BY <2>1 DEF Agree, Waits
<1>5. Calm(resumed) /\ Calls(m, resumed)
  <2> HIDE DEF resumed
  <2>1. Calls(m, resumed)
    BY <1>1, <1>3, CallsIdly
  <2> QED BY <1>1, <1>3, <2>1 DEF Calm
<1> HIDE DEF paused, resumed, drain
<1>6. CASE Pause(w)
  <2>1. \A k \in Job : Resembles(m, paused, k)
    BY <1>3 DEF Resembles, Known, Ended
  <2> QED BY <1>1, <1>2, <1>3, <1>6, <2>1, QuietFounds DEF m
<1>7. CASE Resume(w)
  BY <1>1, <1>2, <1>5, <1>7, ShedsNothing, PumpFounds DEF m
<1>8. CASE Drain(w)
  <2>1. \A k \in Job : Resembles(m, drain, k)
    BY <1>4 DEF Resembles, Known, Ended
  <2> QED BY <1>1, <1>2, <1>4, <1>8, <2>1, QuietFounds DEF m
<1> QED BY <1>6, <1>7, <1>8

LEMMA CloseImplements ==
  ASSUME Stands, NEW w \in Worker, Close(w)
  PROVE  Implements
<1> DEFINE m == mem[w]
           waiting == m.queue \cup { j \in m.starting : m.ent[j].state = "queued" }
           ent == [j \in Job |-> IF j \in m.active
                                 THEN [m.ent[j] EXCEPT !.cancelRequested = TRUE]
                                 ELSE m.ent[j]]
           shut == [m EXCEPT !.closed = TRUE, !.paused = TRUE, !.timer = FALSE,
                             !.ent = ent]
           state == "cancelled"
           settled == Settle(Pull(shut, waiting), waiting, state)
           told == IF waiting = {} THEN settled ELSE CheckIdle(settled)
           n == [told EXCEPT !.close = Awaited(told)]
<1>1. Becomes(w, n) /\ UNCHANGED <<row, submitted, lapsed>>
  BY DEF Close
<1>2. Calm(m) /\ m \in Memory
  BY CalmMemory DEF Stands, Calm
<1>3. waiting \in SUBSET Job /\ \A j \in waiting : m.ent[j].state = "queued"
  BY <1>2 DEF Calm, Memory
<1>4. \A j \in Job : ent[j] \in Entry /\ ent[j].state = m.ent[j].state
                     /\ ent[j].durability = m.ent[j].durability
  <2> TAKE j \in Job
  <2>1. m.ent[j] \in Entry
    BY <1>2 DEF Memory
  <2> QED BY <2>1 DEF Entry
<1>5. ent \in [Job -> Entry]
  BY <1>4
<1> HIDE DEF ent, waiting, m
<1>6. /\ shut \in Memory /\ shut.ent = ent /\ shut.chain = m.chain /\ shut.queue = m.queue
      /\ Waits(m, shut)
  BY <1>2, <1>5 DEF Memory, Waits
<1> HIDE DEF shut
<1>7. Calm(shut) /\ Calls(m, shut) /\ Held(shut) = Held(m)
  <2>1. \A j \in Job : Resembles(m, shut, j)
    BY <1>4, <1>6 DEF Resembles, Ended, Known
  <2>2. Calls(m, shut)
    BY <1>2, <1>6, <2>1, CallsQuietly
  <2>3. m.queue \subseteq Job
    BY <1>2 DEF Memory
  <2> QED BY <1>2, <1>4, <1>6, <2>2, <2>3 DEF Calm, Held
<1>8. state \in Terminal /\ \A j \in waiting : Known(shut, j) /\ ~Ended(shut, j)
  BY <1>3, <1>4, <1>6 DEF Terminal, Ended, Known
<1> HIDE DEF state
<1>9. Calm(settled) /\ Calls(shut, settled) /\ Held(settled) \subseteq Held(shut)
  BY <1>3, <1>7, <1>8, PullSettle
<1> HIDE DEF settled
<1>10. settled \in Memory
  BY <1>9 DEF Calm
<1>11. n \in Memory /\ Calls(settled, n) /\ Held(n) = Held(settled)
  <2>1. n \in Memory /\ Agree(settled, n)
    BY <1>10, CloseAgrees
  <2> HIDE DEF n
  <2> QED BY <1>10, <2>1, AgreeCalls
<1> HIDE DEF n
<1>12. Calls(m, settled)
  BY <1>2, <1>6, <1>7, <1>9, <1>10, CallsTransitive
<1>13. Calls(m, n)
  BY <1>2, <1>9, <1>10, <1>11, <1>12, CallsTransitive
<1>14. Sheds(mem[w], m) /\ Waits(mem[w], m) /\ Answers(mem[w], m, n)
  BY ShedsNothing DEF m
<1> QED BY <1>1, <1>2, <1>11, <1>13, <1>14, HandlerFounds

LEMMA SettlePumpFounds ==
  ASSUME Stands, NEW w \in Worker, UNCHANGED <<row, submitted, lapsed>>,
         NEW n, Calm(n), Calls(mem[w], n), Held(n) = Held(mem[w]),
         NEW j \in Job, Known(n, j), ~Ended(n, j), j \notin n.queue, NEW state \in Terminal,
         Becomes(w, Pump(Settle(n, {j}, state)))
  PROVE  Implements
<1> DEFINE S == {j}
           p == Settle(n, S, state)
           d == mem[w]
<1>0. Calm(d)
  BY CalmMemory DEF Stands
<1>1. S \in SUBSET Job /\ \A k \in S : Known(n, k) /\ ~Ended(n, k) /\ k \notin n.queue
  OBVIOUS
<1>2. Becomes(w, Pump(p))
  OBVIOUS
<1> HIDE DEF S
<1>3. Calm(p) /\ Calls(n, p) /\ Held(p) \subseteq Held(n)
  BY <1>1, SettledCalm
<1> HIDE DEF p
<1>4. d \in Memory /\ n \in Memory /\ p \in Memory
  BY <1>0, <1>3 DEF Calm
<1>5. Calls(d, p)
  BY <1>3, <1>4, CallsTransitive
<1>6. Sheds(d, d) /\ Waits(d, d) /\ Answers(d, d, p)
  BY ShedsNothing
<1> QED BY <1>0, <1>2, <1>3, <1>4, <1>5, <1>6, PumpFounds

LEMMA RequeueCalls ==
  ASSUME NEW m, Calm(m), NEW j \in Job, m.ent[j].state = "running",
         m.ent[j].durability = "stored"
  PROVE  Calm(Requeue(m, j)) /\ Calls(m, Requeue(m, j))
<1> DEFINE e == [m.ent[j] EXCEPT !.state = "queued", !.backoff = TRUE, !.waiting = TRUE]
           f == [m EXCEPT !.ent = [m.ent EXCEPT ![j] = e]]
           p == Push(f, j)
           S == {j}
           n == Persist(p, S, "save")
           c == m.chain[j]
           x == Snapshot(e, "save")
<1>1. m \in Memory
  BY DEF Calm
<1>2. m.ent[j] \in Entry /\ c \in Seq(Write)
  BY <1>1 DEF Memory
<1>3. e \in Entry /\ e.state = "queued" /\ e.durability = "stored"
  BY <1>2 DEF Entry
<1>0. AgreeAround(m, f)
  BY <1>1 DEF AgreeAround, Memory
<1>4. Requeue(m, j) = n
  <2>1. f = [m EXCEPT !.ent[j].state = "queued", !.ent[j].backoff = TRUE,
                      !.ent[j].waiting = TRUE]
    BY <1>1 DEF Memory
  <2> HIDE DEF f
  <2> QED BY <2>1 DEF Requeue
<1>5. x \in Write /\ x.op = "save"
  BY <1>3, SnapshotFields
<1> HIDE DEF e
<1>6. f \in Memory
  BY <1>1, <1>3, EntryField
<1>7. /\ f.queue = m.queue /\ f.chain = m.chain
      /\ \A k \in Job : f.ent[k] = IF k = j THEN e ELSE m.ent[k]
  BY <1>1 DEF Memory
<1> HIDE DEF f
<1>8. p \in Memory
  BY <1>6, PushType
<1>9. p.ent = f.ent /\ p.chain = f.chain /\ p.queue = f.queue \cup {j} /\ AgreeAround(f, p)
  BY <1>6, PushFields
<1> HIDE DEF p
<1>10. S \in SUBSET Job /\ \A k \in Job : k \in S <=> k = j
  OBVIOUS
<1> HIDE DEF S
<1>11. n \in Memory
  BY <1>8, <1>10, PersistType
<1>12. Persisted(p, n, S, "save")
  BY <1>8, <1>10, PersistFields
<1> HIDE DEF n
<1>13. /\ n.queue = m.queue \cup {j} /\ n.ent[j] = e /\ n.chain[j] = Append(c, x)
       /\ \A k \in Job : k # j => n.ent[k] = m.ent[k] /\ n.chain[k] = m.chain[k]
  <2>1. n.queue = m.queue \cup {j} /\ n.ent = f.ent
    BY <1>7, <1>9, <1>12 DEF AgreeAround, Persisted
  <2>2. \A k \in Job : k # j => n.chain[k] = m.chain[k]
    BY <1>7, <1>9, <1>10, <1>12 DEF Persisted
  <2>3. p.ent[j] = e /\ p.chain[j] = c
    BY <1>7, <1>9
  <2>4. n.chain[j] = Append(c, x)
    BY <1>3, <1>10, <1>12, <2>3 DEF Persisted
  <2> HIDE DEF x, c
  <2> QED BY <1>7, <2>1, <2>2, <2>4
<1>14. ASSUME NEW k \in Job
       PROVE  /\ Ended(m, k) => Ended(n, k) /\ n.chain[k] = m.chain[k]
              /\ Longer(m.chain[k], n.chain[k], Ended(n, k), k \in Held(m) \/ k \in Held(n))
              /\ Keeps(m, n, k)
  <2>1. m.chain[k] \in Seq(Write)
    BY <1>1, ChainTypes
  <2>2. Ended(n, k) \in BOOLEAN /\ (k \in Held(m) \/ k \in Held(n)) \in BOOLEAN
    BY DEF Ended
  <2>3. CASE k # j
    <3>1. Longer(m.chain[k], m.chain[k], Ended(n, k), k \in Held(m) \/ k \in Held(n))
      BY <2>1, <2>2, LongerSame
    <3> QED BY <1>13, <2>3, <3>1 DEF Ended, Keeps, Known
  <2>4. CASE k = j
    <3>1. k \in Held(m) /\ ~Ended(m, k)
      BY <2>4 DEF Held, Ended, Terminal
    <3>3. Keeps(m, n, k)
      BY <1>3, <1>13, <2>4 DEF Keeps, Known, Ended, Terminal
    <3>2. Longer(m.chain[k], Append(m.chain[k], x), Ended(n, k), k \in Held(m) \/ k \in Held(n))
      BY <1>5, <2>1, <2>2, <3>1, LongerByOne
    <3> QED BY <1>13, <2>4, <3>1, <3>2, <3>3
  <2> QED BY <2>3, <2>4
<1>16. Expects(m, n)
  BY <1>0, <1>9, <1>12, WaitsExpects DEF AgreeAround, Persisted, Waits
<1>15. \A k \in n.queue : n.ent[k].state = "queued"
  <2>1. n.queue \subseteq Job
    BY <1>11 DEF Memory
  <2> QED BY <1>3, <1>13, <2>1 DEF Calm
<1> QED BY <1>4, <1>11, <1>14, <1>15, <1>16 DEF Calls, Calm

-----------------------------------------------------------------------------
(* The handler, the policy and the wake timer.                             *)

LEMMA HandlerImplements ==
  ASSUME Stands, NEW w \in Worker, NEW j \in Job, HandlerReturns(w, j) \/ HandlerThrows(w, j)
  PROVE  Implements
<1> DEFINE m == mem[w]
           freed == Released(m, j)
           asked == [freed EXCEPT !.deciding = @ \cup {j}]
<1>1. Calm(m) /\ m \in Memory /\ WorkerInv(w, m, row) /\ j \in m.active
      /\ UNCHANGED <<row, submitted, lapsed>>
  BY CalmMemory DEF Stands, Calm, HandlerReturns, HandlerThrows
<1>2. \/ \E state \in Terminal : Becomes(w, Pump(Settle(freed, {j}, state)))
      \/ Becomes(w, asked)
  <2>1. "failed" \in Terminal /\ "cancelled" \in Terminal /\ "complete" \in Terminal
    BY DEF Terminal
  <2>2. CASE HandlerReturns(w, j)
    BY <2>1, <2>2 DEF HandlerReturns
  <2>3. CASE HandlerThrows(w, j)
    BY <2>1, <2>3 DEF HandlerThrows
  <2> QED BY <2>2, <2>3
<1> HIDE DEF m
<1>3. Known(m, j) /\ ~Ended(m, j) /\ j \notin m.queue
  <2>1. Placed(m, j)
    BY <1>1 DEF WorkerInv, JobInv
  <2> QED BY <1>1, <2>1 DEF Placed, Ended, Terminal, Known
<1>4. /\ freed \in Memory /\ freed.ent = m.ent /\ freed.chain = m.chain
      /\ freed.queue = m.queue /\ Waits(m, freed)
      /\ asked \in Memory /\ asked.ent = m.ent /\ asked.chain = m.chain /\ Waits(m, asked)
  BY <1>1 DEF Released, Memory, Waits
<1> HIDE DEF freed
<1>5. Calm(freed) /\ Calls(m, freed) /\ Held(freed) = Held(m) /\ ~Ended(freed, j)
      /\ j \notin freed.queue /\ Known(freed, j)
  <2>1. Calls(m, freed)
    BY <1>1, <1>4, CallsIdly
  <2> QED BY <1>1, <1>3, <1>4, <2>1 DEF Calm, Held, Ended, Known
<1> HIDE DEF asked
<1>7. ASSUME NEW state \in Terminal, Becomes(w, Pump(Settle(freed, {j}, state)))
      PROVE  Implements
  BY <1>1, <1>5, <1>7, SettlePumpFounds DEF m
<1>8. ASSUME Becomes(w, asked)
      PROVE  Implements
  <2>1. \A k \in Job : Resembles(m, asked, k)
    BY <1>4 DEF Resembles, Known, Ended
  <2> QED BY <1>1, <1>4, <1>8, <2>1, QuietFounds DEF m
<1> QED BY <1>2, <1>7, <1>8

LEMMA PolicyAnswersImplements ==
  ASSUME Stands, NEW w \in Worker, NEW j \in Job, PolicyAnswers(w, j)
  PROVE  Implements
<1> DEFINE m == mem[w]
           decided == [m EXCEPT !.deciding = @ \ {j}]
<1>1. Calm(m) /\ m \in Memory /\ WorkerInv(w, m, row) /\ j \in m.deciding
      /\ UNCHANGED <<row, submitted, lapsed>>
  BY CalmMemory DEF Stands, Calm, PolicyAnswers
<1>2. \/ \E state \in Terminal : Becomes(w, Pump(Settle(decided, {j}, state)))
      \/ Becomes(w, Pump(Requeue(decided, j)))
  <2>1. "failed" \in Terminal /\ "cancelled" \in Terminal
    BY DEF Terminal
  <2> QED BY <2>1 DEF PolicyAnswers
<1> HIDE DEF m
<1>3. /\ Known(m, j) /\ ~Ended(m, j) /\ j \notin m.queue
      /\ m.ent[j].state = "running" /\ m.ent[j].durability = "stored"
  <2>1. Placed(m, j)
    BY <1>1 DEF WorkerInv, JobInv
  <2> QED BY <1>1, <2>1 DEF Placed, Ended, Terminal, Known
<1>4. /\ decided \in Memory /\ decided.ent = m.ent /\ decided.chain = m.chain
      /\ decided.queue = m.queue /\ Waits(m, decided)
  BY <1>1 DEF Memory, Waits
<1> HIDE DEF decided
<1>5. Calm(decided) /\ Calls(m, decided) /\ Held(decided) = Held(m) /\ ~Ended(decided, j)
      /\ j \notin decided.queue /\ Known(decided, j)
  <2>1. Calls(m, decided)
    BY <1>1, <1>4, CallsIdly
  <2> QED BY <1>1, <1>3, <1>4, <2>1 DEF Calm, Held, Ended, Known
<1>7. ASSUME NEW state \in Terminal, Becomes(w, Pump(Settle(decided, {j}, state)))
      PROVE  Implements
  BY <1>1, <1>5, <1>7, SettlePumpFounds DEF m
<1>8. ASSUME Becomes(w, Pump(Requeue(decided, j)))
      PROVE  Implements
  <2> DEFINE again == Requeue(decided, j)
  <2>1. Calm(again) /\ Calls(decided, again)
    BY <1>3, <1>4, <1>5, RequeueCalls
  <2>2. Becomes(w, Pump(again))
    BY <1>8
  <2> HIDE DEF again
  <2>3. Calls(m, again)
    BY <1>1, <1>4, <1>5, <2>1, CallsTransitive DEF Calm
  <2>4. Sheds(mem[w], m) /\ Waits(mem[w], m) /\ Answers(mem[w], m, again)
    BY ShedsNothing DEF m
  <2> QED BY <1>1, <2>1, <2>2, <2>3, <2>4, PumpFounds
<1> QED BY <1>2, <1>7, <1>8

LEMMA WakeImplements ==
  ASSUME Stands, NEW w \in Worker, NEW j \in Job, Wake(w, j)
  PROVE  Implements
<1> DEFINE m == mem[w]
           e == [m.ent[j] EXCEPT !.waiting = FALSE]
           due == [m EXCEPT !.ent = [m.ent EXCEPT ![j] = e]]
<1>1. Calm(m) /\ m \in Memory /\ UNCHANGED <<row, submitted, lapsed>>
  BY CalmMemory DEF Stands, Calm, Wake
<1>2. e \in Entry /\ e.state = m.ent[j].state /\ e.durability = m.ent[j].durability
  <2>1. m.ent[j] \in Entry
    BY <1>1 DEF Memory
  <2> QED BY <2>1 DEF Entry
<1>3. Becomes(w, due) \/ Becomes(w, Pump(due))
  <2>1. due = [m EXCEPT !.ent[j].waiting = FALSE]
    BY <1>1 DEF Memory
  <2> HIDE DEF due
  <2> QED BY <2>1 DEF Wake
<1> HIDE DEF m, e
<1>4. due \in Memory
  BY <1>1, <1>2, EntryField
<1>5. /\ due.chain = m.chain /\ due.queue = m.queue /\ Waits(m, due)
      /\ \A k \in Job : /\ due.ent[k].state = m.ent[k].state
                        /\ due.ent[k].durability = m.ent[k].durability
  BY <1>1, <1>2 DEF Memory, Waits
<1> HIDE DEF due
<1>6. Calm(due) /\ Calls(m, due)
  <2>1. \A k \in Job : Resembles(m, due, k)
    BY <1>5 DEF Resembles, Known, Ended
  <2>2. m.queue \subseteq Job
    BY <1>1 DEF Memory
  <2>3. Calls(m, due)
    BY <1>1, <1>5, <2>1, CallsQuietly
  <2> QED BY <1>1, <1>4, <1>5, <2>2, <2>3 DEF Calm
<1>7. Sheds(mem[w], m) /\ Waits(mem[w], m) /\ Answers(mem[w], m, due)
  BY ShedsNothing DEF m
<1>8. CASE Becomes(w, due)
  BY <1>1, <1>4, <1>6, <1>7, <1>8, HandlerFounds
<1>9. CASE Becomes(w, Pump(due))
  BY <1>1, <1>6, <1>7, <1>9, PumpFounds
<1> QED BY <1>3, <1>8, <1>9

-----------------------------------------------------------------------------
(* The answers to a chain's calls.                                         *)

LEMMA DropSheds ==
  ASSUME NEW m, Calm(m), NEW j \in Job, m.chain[j] # <<>>, m.chain[j][1].answer # "none"
  PROVE  /\ Calm(DropHead(m, j)) /\ Sheds(m, DropHead(m, j)) /\ Waits(m, DropHead(m, j))
         /\ DropHead(m, j).ent = m.ent /\ DropHead(m, j).queue = m.queue
         /\ Held(DropHead(m, j)) = Held(m)
         /\ \A n : (m.chain[j][1].op = "create" => n.ent[j].durability # "pending" \/ Ended(n, j))
                  => Answers(m, DropHead(m, j), n)
<1> DEFINE d == DropHead(m, j)
<1>1. /\ d \in Memory /\ Dropped(m, d, j) /\ d.ent = m.ent /\ d.queue = m.queue
      /\ AgreeAround(m, d)
  BY DropFields DEF Calm
<1> HIDE DEF d
<1>2. Sheds(m, d) /\ Calm(d) /\ Held(d) = Held(m) /\ Waits(m, d)
  BY <1>1 DEF Dropped, Sheds, Calm, Held, AgreeAround, Waits
<1>3. ASSUME NEW n, m.chain[j][1].op = "create" => n.ent[j].durability # "pending" \/ Ended(n, j)
      PROVE  Answers(m, d, n)
  BY <1>1, <1>3 DEF Dropped, Answers
<1> QED BY <1>1, <1>2, <1>3 DEF d

LEMMA CreateSettlesImplements ==
  ASSUME Stands, NEW w \in Worker, NEW j \in Job, CreateSettles(w, j)
  PROVE  Implements
<1> DEFINE m == mem[w]
           d == DropHead(m, j)
           stored == [d EXCEPT !.ent[j].durability = "stored"]
           state == "failed"
           settled == Settle(Pull(d, {j}), {j}, state)
           refused == IF d.ent[j].state \in Terminal THEN d ELSE settled
           said == m.chain[j][1].answer = "ok"
           n == IF said THEN stored ELSE refused
<1>1. Calm(m) /\ m \in Memory /\ m.chain[j] # <<>> /\ m.chain[j][1].answer # "none"
      /\ WorkerInv(w, m, row)
  <2>1. Calm(m) /\ m \in Memory /\ WorkerInv(w, m, row)
    BY CalmMemory DEF Stands, Calm
  <2>2. m.chain[j] # <<>> /\ Head(m.chain[j]).answer # "none"
    BY DEF CreateSettles, Answered
  <2>3. m.chain[j] \in Seq(Write)
    BY <2>1 DEF Memory
  <2> HIDE DEF m
  <2> QED BY <2>1, <2>2, <2>3
<1>2. Becomes(w, Pump(n)) /\ UNCHANGED <<row, submitted, lapsed>>
  BY DEF CreateSettles
<1> HIDE DEF m, said
<1>3. /\ Calm(d) /\ Sheds(m, d) /\ d \in Memory /\ Waits(m, d)
      /\ \A p : p.ent[j].durability # "pending" \/ Ended(p, j) => Answers(m, d, p)
      /\ d.ent = m.ent
  BY <1>1, DropSheds DEF Calm
<1>0. Known(d, j)
  BY <1>1, <1>3 DEF WorkerInv, JobInv, Chained, Known
<1> HIDE DEF d
<1>4. Calm(stored) /\ Calls(d, stored) /\ Answers(m, d, stored)
  <2> DEFINE e == [d.ent[j] EXCEPT !.durability = "stored"]
             f == [d.ent EXCEPT ![j] = e]
  <2>1. d.ent[j] \in Entry /\ d.ent \in [Job -> Entry]
    BY <1>3 DEF Memory
  <2>2. e \in Entry /\ e.state = d.ent[j].state /\ e.durability = "stored"
    BY <2>1 DEF Entry
  <2>3. stored = [d EXCEPT !.ent = f]
    BY <1>3 DEF Memory
  <2> HIDE DEF e
  <2>4. /\ f \in [Job -> Entry] /\ f[j].durability = "stored"
        /\ \A k \in Job : /\ f[k].state = d.ent[k].state
                          /\ f[k].durability \in {d.ent[k].durability, "stored"}
    BY <2>1, <2>2
  <2> HIDE DEF f, stored
  <2>5. /\ stored \in Memory /\ stored.chain = d.chain /\ stored.queue = d.queue
        /\ stored.ent = f /\ Waits(d, stored)
    BY <1>3, <2>3, <2>4 DEF Memory, Waits
  <2>6. \A k \in Job : (Ended(d, k) => Ended(stored, k)) /\ Keeps(d, stored, k)
    BY <2>4, <2>5 DEF Ended, Keeps, Known
  <2>7. d.queue \subseteq Job
    BY <1>3 DEF Memory
  <2>8. Calls(d, stored)
    BY <1>3, <2>5, <2>6, WaitsExpects, CallsNothing
  <2> QED BY <1>3, <2>4, <2>5, <2>7, <2>8 DEF Calm
<1>5. Calm(refused) /\ Calls(d, refused) /\ Answers(m, d, refused)
  <2>1. CASE Ended(d, j)
    <3>1. refused = d
      BY <2>1 DEF Ended
    <3>2. Waits(d, d)
      BY DEF Waits
    <3> HIDE DEF refused
    <3> QED BY <1>3, <2>1, <3>1, <3>2, CallsIdly
  <2>2. CASE ~Ended(d, j)
    <3> DEFINE S == {j}
    <3>1. S \in SUBSET Job /\ state \in Terminal /\ \A k \in S : Known(d, k) /\ ~Ended(d, k)
      BY <1>0, <2>2 DEF Terminal
    <3>2. settled = Settle(Pull(d, S), S, state) /\ j \in S
      OBVIOUS
    <3>3. refused = settled
      BY <2>2 DEF Ended
    <3>4. Ended(Settle(Pull(d, S), S, state), j)
      <4>1. Pull(d, S) \in Memory
        BY <1>3, <3>1, PullType
      <4>2. SettlesTo(Pull(d, S), Settle(Pull(d, S), S, state), S, state)
        BY <3>1, <4>1, SettleFields
      <4> DEFINE p == Pull(d, S)
                 q == Settle(p, S, state)
      <4> HIDE DEF p, q, S, state
      <4>3. q.ent[j] = [p.ent[j] EXCEPT !.state = state] /\ p.ent[j] \in Entry
        BY <3>2, <4>1, <4>2 DEF SettlesTo, Memory, p, q
      <4>4. q.ent[j].state = state
        BY <4>3 DEF Entry
      <4>5. Ended(q, j)
        BY <3>1, <4>4 DEF Ended
      <4> QED BY <4>5 DEF p, q
    <3> HIDE DEF S, state, settled, refused
    <3>5. Calm(refused) /\ Calls(d, refused) /\ Ended(refused, j)
      BY <1>3, <3>1, <3>2, <3>3, <3>4, PullSettle
    <3> QED BY <1>3, <3>5
  <2> QED BY <2>1, <2>2
<1>6. Calm(n) /\ Calls(d, n) /\ Answers(m, d, n)
  <2> HIDE DEF stored, refused
  <2> QED BY <1>4, <1>5
<1> HIDE DEF n
<1> QED BY <1>2, <1>3, <1>6, PumpFounds DEF m

(* An answer of `lost` finds its job settled, and loses nothing.           *)
LEMMA LostAnswer ==
  ASSUME NEW m \in Memory, NEW j \in Job, Chained(m, j), m.chain[j] # <<>>,
         m.chain[j][1].op # "create", m.chain[j][1].answer = "lost",
         NEW d \in Memory, d.ent = m.ent
  PROVE  Lose(d, {j}) \in Memory /\ Agree(d, Lose(d, {j}))
<1> DEFINE S == {j}
<1>1. m.chain[j] \in Seq(Write)
  BY DEF Memory
<1>2. 1 \in 1..Len(m.chain[j])
  BY <1>1
<1>3. m.ent[j].state \in Terminal
  BY <1>2 DEF Chained, ChainShape
<1>4. S \in SUBSET Job /\ \A k \in S : d.ent[k].state \notin {"queued", "running"}
  BY <1>3 DEF Terminal
<1> HIDE DEF S
<1>5. Lose(d, S) \in Memory /\ Agree(d, Lose(d, S))
  BY <1>4, LoseNothing
<1> QED BY <1>5 DEF S

LEMMA WriteSettlesImplements ==
  ASSUME Stands, NEW w \in Worker, NEW j \in Job, WriteSettles(w, j)
  PROVE  Implements
<1> DEFINE m == mem[w]
           d == DropHead(m, j)
           lost == m.chain[j][1].answer = "lost"
           told == IF lost THEN Lose(d, {j}) ELSE d
           n == CheckIdle(told)
<1>1. Calm(m) /\ m \in Memory /\ m.chain[j] # <<>> /\ m.chain[j][1].answer # "none"
      /\ m.chain[j][1].op \in {"save", "remove"} /\ Chained(m, j)
  <2>1. Calm(m) /\ m \in Memory /\ Chained(m, j)
    BY CalmMemory DEF Stands, Calm, WorkerInv, JobInv
  <2>2. /\ m.chain[j] # <<>> /\ Head(m.chain[j]).answer # "none"
        /\ Head(m.chain[j]).op \in {"save", "remove"}
    BY DEF WriteSettles, Answered
  <2>3. m.chain[j] \in Seq(Write)
    BY <2>1 DEF Memory
  <2> HIDE DEF m
  <2> QED BY <2>1, <2>2, <2>3
<1>2. Becomes(w, n) /\ UNCHANGED <<row, submitted, lapsed>>
  BY DEF WriteSettles
<1> HIDE DEF m
<1>3. /\ Calm(d) /\ Sheds(m, d) /\ Waits(m, d) /\ d \in Memory /\ d.ent = m.ent
      /\ \A p : Answers(m, d, p)
  BY <1>1, DropSheds DEF Calm
<1> HIDE DEF d
<1>4. told \in Memory /\ Calls(d, told) /\ Held(told) = Held(d)
  <2>1. CASE lost
    BY <1>1, <1>3, <2>1, LostAnswer, AgreeCalls
  <2>2. CASE ~lost
    BY <1>3, <2>2, AgreeCalls DEF Agree
  <2> QED BY <2>1, <2>2
<1> HIDE DEF told
<1>5. n \in Memory /\ Calls(told, n)
  BY <1>4, AgreeCalls, CheckIdleAgrees, CheckIdleType
<1> HIDE DEF n
<1>6. Calls(d, n)
  BY <1>3, <1>4, <1>5, CallsTransitive
<1> QED BY <1>2, <1>3, <1>5, <1>6, HandlerFounds DEF m

LEMMA AcquireSettlesImplements ==
  ASSUME Stands, NEW w \in Worker, NEW j \in Job, AcquireSettles(w, j)
  PROVE  Implements
<1> DEFINE m == mem[w]
           answer == Head(m.chain[j]).answer
           d == DropHead(m, j)
           told == IF answer = "lost" THEN Lose(d, {j}) ELSE d
           freed == [told EXCEPT !.starting = @ \ {j}, !.busy = @ \ {LaneOf[j]}]
           waits == [freed EXCEPT !.ent[j].waiting = TRUE]
           claimed == RunClaimed(freed, j)
           back == Push(waits, j)
<1>1. Calm(m) /\ m \in Memory /\ m.chain[j] # <<>> /\ m.chain[j][1].op = "acquire"
      /\ m.chain[j][1].answer # "none" /\ answer = m.chain[j][1].answer /\ JobInv(w, m, row, j)
  <2>1. Calm(m) /\ m \in Memory /\ JobInv(w, m, row, j)
    BY CalmMemory DEF Stands, Calm, WorkerInv
  <2>2. m.chain[j] # <<>> /\ Head(m.chain[j]).op = "acquire" /\ Head(m.chain[j]).answer # "none"
    BY ZenonT(30) DEF AcquireSettles, Answered
  <2>3. m.chain[j] \in Seq(Write)
    BY <2>1 DEF Memory
  <2> HIDE DEF m
  <2> QED BY <2>1, <2>2, <2>3
<1>2. /\ UNCHANGED <<row, submitted, lapsed>>
      /\ \/ Becomes(w, Pump(freed))
         \/ ~Ended(freed, j) /\ Becomes(w, claimed)
         \/ ~Ended(freed, j) /\ Becomes(w, Pump(back))
  BY ZenonT(30) DEF AcquireSettles, Ended
<1> HIDE DEF m, answer
<1>3. /\ Calm(d) /\ Sheds(m, d) /\ Waits(m, d) /\ d \in Memory /\ d.ent = m.ent
      /\ d.queue = m.queue /\ \A p : Answers(m, d, p)
  BY <1>1, DropSheds DEF Calm
<1> HIDE DEF d
<1>4. told \in Memory /\ Agree(d, told)
  <2>1. CASE answer = "lost"
    BY <1>1, <1>3, <2>1, LostAnswer DEF JobInv
  <2>2. CASE answer # "lost"
    BY <1>3, <2>2 DEF Agree
  <2> QED BY <2>1, <2>2
<1> HIDE DEF told
<1>5. /\ freed \in Memory /\ freed.ent = d.ent /\ freed.chain = d.chain
      /\ freed.queue = d.queue /\ Waits(d, freed)
  <2>1. freed \in Memory /\ freed.ent = told.ent /\ freed.chain = told.chain
        /\ freed.queue = told.queue /\ Waits(told, freed)
    BY <1>4 DEF Memory, Waits
  <2> HIDE DEF freed
  <2> QED BY <1>4, <2>1 DEF Agree, Waits
<1> HIDE DEF freed
<1>6. Calm(freed) /\ Calls(d, freed) /\ Held(freed) = Held(d)
  <2>1. Calls(d, freed)
    BY <1>3, <1>5, CallsIdly
  <2> QED BY <1>3, <1>5, <2>1 DEF Calm, Held
<1>7. ASSUME ~Ended(freed, j)
      PROVE  freed.ent[j] \in Entry /\ freed.ent[j].state = "queued"
             /\ freed.ent[j].durability = "stored"
  <2>1. j \in m.starting
    <3>1. m.chain[j] \in Seq(Write)
      BY <1>1 DEF Memory
    <3>2. 1 \in 1..Len(m.chain[j])
      BY <1>1, <3>1
    <3> QED BY <1>1, <3>2 DEF JobInv, Chained, ChainShape
  <2> QED BY <1>1, <1>3, <1>5, <1>7, <2>1 DEF JobInv, Placed, Ended, Memory
<1>8. CASE Becomes(w, Pump(freed))
  BY <1>2, <1>3, <1>6, <1>8, PumpFounds DEF m
<1>9. CASE ~Ended(freed, j) /\ Becomes(w, claimed)
  <2> DEFINE e == Running(freed.ent[j])
  <2>1. e.state = "running" /\ e.durability = "stored"
    BY <1>7, <1>9, RunningFields
  <2>2. claimed \in Memory
    BY <1>5, RunClaimedType
  <2>3. /\ claimed.chain = freed.chain /\ Waits(freed, claimed)
        /\ \A k \in Job : claimed.ent[k] = IF k = j THEN e ELSE freed.ent[k]
    <3>1. claimed = [freed EXCEPT !.ent = [freed.ent EXCEPT ![j] = e],
                                  !.active = freed.active \cup {j},
                                  !.busy = freed.busy \cup LanesOf({j})]
      BY <1>5 DEF RunClaimed, Memory
    <3> HIDE DEF claimed, e
    <3> QED BY <1>5, <3>1 DEF Memory, Waits
  <2> HIDE DEF claimed, e
  <2>4. \A k \in Job : Resembles(freed, claimed, k)
    BY <1>7, <1>9, <2>1, <2>3 DEF Resembles, Known, Ended, Terminal
  <2>5. Calls(freed, claimed)
    BY <1>5, <2>3, <2>4, CallsQuietly
  <2>6. Calls(d, claimed)
    BY <1>3, <1>5, <1>6, <2>2, <2>5, CallsTransitive
  <2> QED BY <1>2, <1>3, <1>9, <2>2, <2>6, HandlerFounds DEF m
<1>10. CASE ~Ended(freed, j) /\ Becomes(w, Pump(back))
  <2> DEFINE e == [freed.ent[j] EXCEPT !.waiting = TRUE]
             x == [freed EXCEPT !.ent = [freed.ent EXCEPT ![j] = e]]
  <2>1. e \in Entry /\ e.state = "queued" /\ e.durability = "stored"
    BY <1>7, <1>10 DEF Entry
  <2>2. waits = x
    BY <1>5 DEF Memory
  <2> HIDE DEF e, waits
  <2>3. x \in Memory
    BY <1>5, <2>1, EntryField
  <2>4. /\ x.chain = freed.chain /\ x.queue = freed.queue /\ Waits(freed, x)
        /\ \A k \in Job : x.ent[k] = IF k = j THEN e ELSE freed.ent[k]
    BY <1>5 DEF Memory, Waits
  <2> HIDE DEF x
  <2>5. back = Push(x, j)
    BY <2>2
  <2>6. back \in Memory /\ back.ent = x.ent /\ back.chain = x.chain /\ back.queue = x.queue \cup {j}
        /\ AgreeAround(x, back)
    BY <2>3, <2>5, PushType, PushFields
  <2> HIDE DEF back
  <2>7. Calls(d, back)
    <3>1. \A k \in Job : Resembles(d, back, k)
      BY <1>5, <1>7, <1>10, <2>1, <2>4, <2>6 DEF Resembles, Known, Ended, Terminal
    <3>2. back.chain = d.chain /\ Waits(d, back)
      BY <1>5, <2>4, <2>6 DEF AgreeAround, Waits
    <3> QED BY <1>3, <3>1, <3>2, CallsQuietly
  <2>8. Calm(back)
    <3>1. freed.queue \subseteq Job
      BY <1>5 DEF Memory
    <3> QED BY <1>6, <2>1, <2>4, <2>6, <3>1 DEF Calm
  <2> QED BY <1>2, <1>3, <1>10, <2>7, <2>8, PumpFounds DEF m
<1> QED BY <1>2, <1>8, <1>9, <1>10

-----------------------------------------------------------------------------
(* The heartbeat and the recovery, in memory.                              *)

(* A whole handler that gives up no claim, from a calm memory.             *)
Eases(m, n) == Calm(n) /\ Calls(m, n) /\ Held(n) = Held(m)

LEMMA EasesTransitive ==
  ASSUME NEW m \in Memory, NEW n, NEW p, Eases(m, n), Eases(n, p)
  PROVE  Eases(m, p)
<1>1. n \in Memory /\ p \in Memory
  BY DEF Eases, Calm
<1>2. Calls(m, p)
  BY <1>1, CallsTransitive DEF Eases
<1> QED BY <1>2 DEF Eases

LEMMA AgreeEases ==
  ASSUME NEW m, Calm(m), NEW n \in Memory, Agree(m, n)
  PROVE  Eases(m, n)
<1>1. Calls(m, n) /\ Held(n) = Held(m) /\ n.ent = m.ent /\ n.queue = m.queue
  BY AgreeCalls DEF Calm
<1> QED BY <1>1 DEF Calm, Eases

LEMMA StartedCalm ==
  ASSUME NEW m, Calm(m), NEW S \in SUBSET Eligible(m)
  PROVE  Calm(CheckIdle(ScheduleHeartbeat(Start(m, S))))
<1> DEFINE s == Start(m, S)
           b == ScheduleHeartbeat(s)
           n == CheckIdle(b)
<1>1. m \in Memory /\ S \in SUBSET Job
  BY DEF Calm, Eligible, Memory
<1>2. s \in Memory /\ s.queue = m.queue \ S /\ \A j \in Job \ S : s.ent[j] = m.ent[j]
  <2>1. s \in Memory
    BY <1>1, StartType
  <2>2. /\ s.queue = m.queue \ S
        /\ \A j \in Job : s.ent[j] = IF j \in S \ Asks(m, S) THEN Running(m.ent[j])
                                     ELSE m.ent[j]
    BY <1>1, StartFields
  <2> HIDE DEF s
  <2> QED BY <2>1, <2>2
<1> HIDE DEF s
<1>3. Calm(s)
  <2>1. m.queue \subseteq Job
    BY <1>1 DEF Memory
  <2> QED BY <1>2, <2>1 DEF Calm
<1>4. b \in Memory /\ Agree(s, b)
  BY <1>2, ScheduleHeartbeatType, ScheduleHeartbeatAgrees
<1> HIDE DEF b
<1>5. n \in Memory /\ Agree(b, n)
  BY <1>4, CheckIdleType, CheckIdleAgrees
<1>6. Calm(b)
  BY <1>3, <1>4, AgreeEases DEF Eases
<1> HIDE DEF n
<1>7. Calm(n)
  BY <1>5, <1>6, AgreeEases DEF Eases
<1> QED BY <1>7 DEF n, b, s

LEMMA PumpEases ==
  ASSUME NEW m, Calm(m)
  PROVE  Eases(m, Pump(m))
<1>1. Pump(m) \in Memory /\ Calls(m, Pump(m)) /\ Held(Pump(m)) = Held(m)
  BY PumpCalls
<1> DEFINE T == Taken(m, ByPriority(m))
           s == Start(m, T)
           b == ScheduleHeartbeat(s)
<1>2. T \in SUBSET Eligible(m) /\ Pump(m) = CheckIdle(b)
  BY DEF Taken, Pump
<1> HIDE DEF T
<1>3. Calm(CheckIdle(b))
  BY <1>2, StartedCalm
<1> QED BY <1>1, <1>2, <1>3 DEF Eases

(* What beat b has brought is known.                                       *)
Heard(m, b) ==
  \A k \in Job : (m.beats[b].phase = "adopted" /\ k \in m.beats[b].got.jobs) => Known(m, k)

LEMMA BeatEases ==
  ASSUME NEW m, Calm(m), NEW b \in Beats, Heard(m, b), NEW x \in Beat
  PROVE  Eases(m, [m EXCEPT !.beats = [m.beats EXCEPT ![b] = x]])
<1> DEFINE n == [m EXCEPT !.beats = [m.beats EXCEPT ![b] = x]]
<1>1. m \in Memory /\ n \in Memory
  BY BeatField DEF Calm
<1>2. /\ n.ent = m.ent /\ n.chain = m.chain /\ n.queue = m.queue /\ n.up = m.up
      /\ n.loading = m.loading /\ n.loaded = m.loaded
      /\ \A a \in Beats : a # b => n.beats[a] = m.beats[a]
  BY <1>1 DEF Memory
<1> HIDE DEF n
<1>3. Calls(m, n)
  <2>1. Expects(m, n)
    BY <1>2 DEF Expects, Coming, Heard, Known
  <2>2. \A k \in Job : Keeps(m, n, k) /\ (Ended(m, k) => Ended(n, k))
    BY <1>2 DEF Keeps, Known, Ended
  <2> QED BY <1>1, <1>2, <2>1, <2>2, CallsNothing
<1>4. Eases(m, n)
  BY <1>1, <1>2, <1>3 DEF Calm, Held, Eases
<1> QED BY <1>4 DEF n

LEMMA EndBeatEases ==
  ASSUME NEW m, Calm(m), NEW b \in Beats, Heard(m, b)
  PROVE  Eases(m, EndBeat(m, b))
<1> DEFINE n == [m EXCEPT !.beats = [m.beats EXCEPT ![b] = NoBeat]]
           armed == ScheduleHeartbeat(n)
<1>1. m \in Memory /\ NoBeat \in Beat
  BY EmptyTypes DEF NoBeat, Calm
<1>2. EndBeat(m, b) = Pump(armed)
  BY <1>1 DEF EndBeat, Memory
<1>3. Eases(m, n)
  BY <1>1, BeatEases
<1> HIDE DEF n
<1>4. Calm(n) /\ n \in Memory
  BY <1>3 DEF Eases, Calm
<1>5. Eases(n, armed)
  BY <1>4, ScheduleHeartbeatType, ScheduleHeartbeatAgrees, AgreeEases
<1> HIDE DEF armed
<1>6. Eases(armed, Pump(armed))
  BY <1>5, PumpEases DEF Eases
<1>7. Eases(m, armed)
  BY <1>1, <1>3, <1>5, EasesTransitive
<1> QED BY <1>1, <1>2, <1>6, <1>7, EasesTransitive

LEMMA AskToAdoptEases ==
  ASSUME NEW m, Calm(m), NEW b \in Beats, Heard(m, b)
  PROVE  Eases(m, AskToAdopt(m, b))
<1> DEFINE x == [NoBeat EXCEPT !.phase = "adopting"]
           n == [m EXCEPT !.beats = [m.beats EXCEPT ![b] = x]]
<1>1. m \in Memory
  BY DEF Calm
<1>2. x \in Beat
  BY DEF NoBeat, NoClaims, Beat, Claims
<1>3. AskToAdopt(m, b) = IF m.paused \/ m.closed THEN EndBeat(m, b) ELSE n
  BY <1>1 DEF AskToAdopt, Memory
<1> HIDE DEF x
<1>4. Eases(m, n)
  BY <1>2, BeatEases
<1> HIDE DEF n
<1> QED BY <1>3, <1>4, EndBeatEases

LEMMA StartedWaits ==
  ASSUME NEW m \in Memory, NEW S \in SUBSET Eligible(m)
  PROVE  Waits(m, CheckIdle(ScheduleHeartbeat(Start(m, S))))
<1> DEFINE s == Start(m, S)
           b == ScheduleHeartbeat(s)
           n == CheckIdle(b)
<1>1. S \in SUBSET Job
  BY DEF Eligible, Memory
<1>2. s \in Memory /\ AgreeAround(m, s)
  BY <1>1, StartType, StartFields
<1> HIDE DEF s
<1>3. b \in Memory /\ Agree(s, b)
  BY <1>2, ScheduleHeartbeatType, ScheduleHeartbeatAgrees
<1> HIDE DEF b
<1>4. Agree(b, n)
  BY <1>3, CheckIdleAgrees
<1> HIDE DEF n
<1>5. Waits(m, n)
  BY <1>2, <1>3, <1>4 DEF AgreeAround, Agree, Waits
<1> QED BY <1>5 DEF n, b, s

(* What is restored was not known, and has called nothing.                 *)
LEMMA RestoreCalls ==
  ASSUME NEW m, Calm(m), NEW claims \in Claims, NEW age,
         age \subseteq NewClaims(m, claims) \X NewClaims(m, claims)
  PROVE  Calm(RestoreAll(m, claims, age)) /\ Calls(m, RestoreAll(m, claims, age))
         /\ Held(m) \subseteq Held(RestoreAll(m, claims, age))
         /\ Waits(m, RestoreAll(m, claims, age))
         /\ \A k \in claims.jobs : Known(RestoreAll(m, claims, age), k)
<1> DEFINE S == NewClaims(m, claims)
           fresh(j) == [state |-> "queued", attempt |-> claims.attempt[j],
                        waiting |-> claims.backoff[j], backoff |-> claims.backoff[j],
                        durability |-> "stored", cancelRequested |-> FALSE]
           ent == [j \in Job |-> IF j \in S THEN fresh(j) ELSE m.ent[j]]
           later == { j \in S : \E i \in S : <<i, j>> \in age }
           admitted == [m EXCEPT !.ent = ent, !.queue = @ \cup S,
                                 !.ahead = @ \cup (m.queue \X S) \cup age]
           order == { p \in ByPriority(admitted) : p[1] \notin later /\ p[2] \notin later }
                      \cup { p \in admitted.ahead : p[2] \in later }
           T == Taken(admitted, order)
           n == CheckIdle(ScheduleHeartbeat(Start(admitted, T)))
<1>1. m \in Memory
  BY DEF Calm
<1>2. S \in SUBSET Job /\ \A j \in S : m.ent[j].state = "absent"
  BY DEF NewClaims, Claims, Known
<1>3. ent \in [Job -> Entry]
  <2>1. ASSUME NEW j \in Job PROVE fresh(j) \in Entry /\ m.ent[j] \in Entry
    BY <1>1 DEF Entry, Claims, Memory
  <2> QED BY <2>1
<1>4. \A j \in Job : IF j \in S THEN ent[j].state = "queued" /\ ent[j].durability = "stored"
                     ELSE ent[j] = m.ent[j]
  OBVIOUS
<1>5. RestoreAll(m, claims, age) = IF S = {} THEN m ELSE n
  BY DEF RestoreAll
<1>6. admitted \in Memory
  <2> HIDE DEF ent, S
  <2>1. age \subseteq S \X S
    BY DEF S
  <2>2. m.queue \in SUBSET Job /\ m.ahead \in SUBSET (Job \X Job)
    BY <1>1 DEF Memory
  <2> DEFINE q == m.queue \cup S
             a == m.ahead \cup (m.queue \X S) \cup age
  <2>3. q \in SUBSET Job /\ a \in SUBSET (Job \X Job)
    BY <1>2, <2>1, <2>2
  <2>4. admitted = [m EXCEPT !.ent = ent, !.queue = q, !.ahead = a]
    OBVIOUS
  <2> HIDE DEF q, a, admitted
  <2> QED BY <1>1, <1>3, <2>3, <2>4, QueueFields
<1>7. admitted.ent = ent /\ admitted.chain = m.chain /\ admitted.queue = m.queue \cup S
      /\ Waits(m, admitted)
  <2> HIDE DEF ent, S
  <2> QED BY <1>1 DEF Memory, Waits
<1>13. claims.jobs \in SUBSET Job /\ \A k \in claims.jobs : Known(m, k) \/ k \in S
  BY DEF NewClaims, Claims
<1>8. T \in SUBSET Eligible(admitted)
  BY DEF Taken
<1> HIDE DEF ent, S, admitted, T
<1>9. Calm(admitted) /\ Calls(m, admitted) /\ Held(m) \subseteq Held(admitted)
  <2>1. m.queue \subseteq Job
    BY <1>1 DEF Memory
  <2>2. \A j \in admitted.queue : admitted.ent[j].state = "queued"
    BY <1>2, <1>4, <1>7, <2>1 DEF Calm
  <2>3. \A j \in Job : (Ended(m, j) => Ended(admitted, j)) /\ Keeps(m, admitted, j)
    <3> TAKE j \in Job
    <3>1. CASE j \in S
      BY <1>2, <1>4, <1>7, <3>1 DEF Ended, Terminal, Keeps, Known, Held
    <3>2. CASE j \notin S
      BY <1>4, <1>7, <3>2 DEF Ended, Keeps, Known
    <3> QED BY <3>1, <3>2
  <2>4. Calls(m, admitted)
    BY <1>1, <1>7, <2>3, WaitsExpects, CallsNothing
  <2>5. Held(m) \subseteq Held(admitted)
    BY <1>2, <1>4, <1>7 DEF Held
  <2> QED BY <1>6, <2>2, <2>4, <2>5 DEF Calm
<1>10. n \in Memory /\ Calm(n) /\ Calls(admitted, n) /\ Held(n) = Held(admitted)
  BY <1>8, <1>9, StartedCalls, StartedCalm
<1> HIDE DEF n
<1>11. Calls(m, n)
  BY <1>1, <1>6, <1>9, <1>10, CallsTransitive
<1>12. Calls(m, m) /\ Waits(m, m)
  BY <1>1, AgreeCalls DEF Agree, Waits
<1>16. Waits(m, n)
  <2>1. Waits(admitted, n)
    BY <1>6, <1>8, StartedWaits DEF n
  <2> QED BY <1>7, <2>1 DEF Waits
<1>14. \A k \in claims.jobs : Known(m, k) \/ S # {}
  BY <1>13
<1>15. ASSUME NEW k \in claims.jobs PROVE Known(n, k)
  <2>1. Known(admitted, k)
    BY <1>4, <1>7, <1>13 DEF Known
  <2> QED BY <1>10, <1>13, <2>1 DEF Calls, Keeps
<1> QED BY <1>5, <1>9, <1>10, <1>11, <1>12, <1>14, <1>15, <1>16

LEMMA EasesFounds ==
  ASSUME Stands, NEW w \in Worker, UNCHANGED <<row, submitted, lapsed>>, NEW n, Becomes(w, n),
         Eases(mem[w], n)
  PROVE  Implements
<1> DEFINE m == mem[w]
<1>1. Calm(m) /\ n \in Memory /\ Calls(m, n)
  BY CalmMemory DEF Stands, Eases, Calm
<1>2. Sheds(m, m) /\ Waits(m, m) /\ Answers(m, m, n)
  BY ShedsNothing
<1> QED BY <1>1, <1>2, HandlerFounds

LEMMA BeatStartsImplements ==
  ASSUME Stands, NEW w \in Worker, NEW b \in Beats, BeatStarts(w, b)
  PROVE  Implements
<1> DEFINE m == mem[w]
           fired == [m EXCEPT !.timer = FALSE]
           x == [NoBeat EXCEPT !.phase = "renewing", !.ids = Held(fired)]
           renews == [fired EXCEPT !.beats = [fired.beats EXCEPT ![b] = x]]
           n == IF Held(fired) = {} THEN AskToAdopt(fired, b) ELSE renews
<1>1. Calm(m) /\ m \in Memory /\ UNCHANGED <<row, submitted, lapsed>>
  BY CalmMemory DEF Stands, Calm, BeatStarts
<1>2. fired \in Memory /\ Agree(m, fired) /\ Heard(fired, b)
  <2>1. m.beats[b] = NoBeat
    BY <1>1 DEF BeatStarts, Memory
  <2>2. m.beats[b].phase # "adopted"
    BY <2>1 DEF NoBeat
  <2> HIDE DEF m
  <2> QED BY <1>1, <2>2 DEF Memory, Agree, Heard
<1>3. Becomes(w, n)
  <2>1. renews = [fired EXCEPT !.beats[b] = x]
    BY <1>2 DEF Memory
  <2> HIDE DEF renews
  <2> QED BY <2>1 DEF BeatStarts
<1>4. x \in Beat
  <2>1. NoBeat \in Beat
    BY EmptyTypes DEF NoBeat
  <2>2. Held(fired) \in SUBSET Job
    BY DEF Held
  <2> QED BY <2>1, <2>2 DEF Beat
<1> HIDE DEF m, fired, x
<1>5. Eases(m, fired)
  BY <1>1, <1>2, AgreeEases
<1>6. Eases(fired, n)
  <2>1. Eases(fired, AskToAdopt(fired, b))
    BY <1>2, <1>5, AskToAdoptEases DEF Eases
  <2>2. Eases(fired, renews)
    BY <1>2, <1>4, <1>5, BeatEases DEF Eases
  <2> HIDE DEF renews
  <2> QED BY <2>1, <2>2
<1> HIDE DEF n
<1>7. Eases(m, n)
  BY <1>1, <1>5, <1>6, EasesTransitive
<1> QED BY <1>1, <1>3, <1>7, EasesFounds DEF m

LEMMA RenewedImplements ==
  ASSUME Stands, NEW w \in Worker, NEW b \in Beats, Renewed(w, b)
  PROVE  Implements
<1> DEFINE m == mem[w]
           S == m.beats[b].ids
           told == Lose(m, S)
           n == AskToAdopt(told, b)
<1>1. Calm(m) /\ m \in Memory /\ WorkerInv(w, m, row) /\ m.beats[b].phase = "renewed"
  BY CalmMemory DEF Stands, Calm, Renewed
<1>2. Becomes(w, n) /\ UNCHANGED <<row, submitted, lapsed>>
  BY DEF Renewed
<1>3. S \in SUBSET Job
  BY <1>1 DEF Memory, Beat
<1> HIDE DEF m
<1>4. \A k \in S : m.ent[k].state \notin {"queued", "running"}
  <2> TAKE k \in S
  <2>1. k \in Job
    BY <1>3
  <2>2. Ended(m, k)
    BY <1>1, <2>1 DEF WorkerInv, JobInv, Pending
  <2> QED BY <2>2 DEF Ended, Terminal
<1> HIDE DEF S
<1>5. told \in Memory /\ Agree(m, told)
  BY <1>1, <1>3, <1>4, LoseNothing
<1> HIDE DEF told
<1>0. Heard(told, b)
  BY <1>1, <1>5 DEF Agree, Heard
<1>6. Eases(m, told)
  BY <1>1, <1>5, AgreeEases
<1>7. Eases(told, n)
  BY <1>0, <1>6, AskToAdoptEases DEF Eases
<1> HIDE DEF n
<1>8. Eases(m, n)
  BY <1>1, <1>6, <1>7, EasesTransitive
<1> QED BY <1>1, <1>2, <1>8, EasesFounds DEF m

LEMMA AdoptedImplements ==
  ASSUME Stands, NEW w \in Worker, NEW b \in Beats, Adopted(w, b)
  PROVE  Implements
<1> DEFINE m == mem[w]
           got == m.beats[b].got
<1>1. Calm(m) /\ m \in Memory /\ UNCHANGED <<row, submitted, lapsed>>
  BY CalmMemory DEF Stands, Calm, Adopted
<1>2. PICK age \in AgeOrders(NewClaims(m, got)) : Becomes(w, EndBeat(RestoreAll(m, got, age), b))
  BY DEF Adopted
<1>3. got \in Claims /\ age \subseteq NewClaims(m, got) \X NewClaims(m, got)
  BY <1>1 DEF Memory, Beat, AgeOrders
<1> DEFINE restored == RestoreAll(m, got, age)
           n == EndBeat(restored, b)
<1>4. Becomes(w, n)
  BY <1>2
<1> HIDE DEF m
<1>5. Calm(restored) /\ Calls(m, restored) /\ Held(m) \subseteq Held(restored) /\ Heard(restored, b)
  <2>1. m.beats[b].got = got
    OBVIOUS
  <2> HIDE DEF got
  <2>2. /\ Calm(restored) /\ Calls(m, restored) /\ Held(m) \subseteq Held(restored)
        /\ Waits(m, restored) /\ \A k \in got.jobs : Known(restored, k)
    BY <1>1, <1>3, RestoreCalls
  <2> HIDE DEF restored
  <2> QED BY <2>1, <2>2 DEF Heard, Waits
<1> HIDE DEF restored, got
<1>6. Eases(restored, n)
  BY <1>5, EndBeatEases
<1> HIDE DEF n
<1>7. restored \in Memory /\ n \in Memory /\ Calls(restored, n) /\ Held(n) = Held(restored)
  BY <1>5, <1>6 DEF Eases, Calm
<1>8. Calls(m, n)
  BY <1>1, <1>5, <1>7, CallsTransitive
<1>9. Sheds(mem[w], m) /\ Waits(mem[w], m) /\ Answers(mem[w], m, n)
  BY ShedsNothing DEF m
<1> QED BY <1>1, <1>4, <1>7, <1>8, <1>9, HandlerFounds

LEMMA RecoveredImplements ==
  ASSUME Stands, NEW w \in Worker, Recovered(w)
  PROVE  Implements
<1> DEFINE m == mem[w]
           c == [m EXCEPT !.loading = "no", !.loaded = NoClaims]
           got == m.loaded
<1>1. Calm(m) /\ m \in Memory /\ UNCHANGED <<row, submitted, lapsed>>
  BY CalmMemory DEF Stands, Calm, Recovered
<1>2. PICK age \in AgeOrders(NewClaims(c, got)) :
        Becomes(w, ScheduleHeartbeat(RestoreAll(c, got, age)))
  BY DEF Recovered
<1>3. got \in Claims /\ age \subseteq NewClaims(c, got) \X NewClaims(c, got)
  BY <1>1 DEF Memory, AgeOrders
<1> DEFINE restored == RestoreAll(c, got, age)
           n == ScheduleHeartbeat(restored)
<1>4. Becomes(w, n)
  BY <1>2
<1> HIDE DEF m
<1>5. /\ c \in Memory /\ c.chain = m.chain /\ c.queue = m.queue /\ c.ent = m.ent
      /\ c.up = m.up /\ c.loading = "no" /\ c.beats = m.beats
      /\ m.loading = "answered"
  <2>1. NoClaims \in Claims
    BY EmptyTypes DEF NoClaims
  <2>2. m.loading = "answered"
    BY DEF Recovered, m
  <2> QED BY <1>1, <2>1, <2>2 DEF Memory
<1>12. got = m.loaded
  OBVIOUS
<1> HIDE DEF c, got
<1>6. Calm(c)
  BY <1>1, <1>5 DEF Calm
<1>7. /\ Calm(restored) /\ Calls(c, restored) /\ Waits(c, restored)
      /\ \A k \in got.jobs : Known(restored, k)
  BY <1>3, <1>6, RestoreCalls
<1> HIDE DEF restored
<1>8. restored \in Memory
  BY <1>7 DEF Calm
<1>9. n \in Memory /\ Calls(restored, n) /\ Held(n) = Held(restored) /\ Agree(restored, n)
  BY <1>8, ScheduleHeartbeatType, ScheduleHeartbeatAgrees, AgreeCalls
<1> HIDE DEF n
<1>10. Calls(c, n)
  BY <1>5, <1>7, <1>8, <1>9, CallsTransitive
<1>11. Sheds(m, c) /\ Answers(m, c, n) /\ \A k \in Job : Known(m, k) => Known(n, k)
  BY <1>5, <1>10 DEF Sheds, Answers, Calls, Keeps, Known
<1>13. Expects(m, n)
  <2>1. n.up = m.up /\ n.beats = m.beats
    BY <1>5, <1>7, <1>9 DEF Waits, Agree
  <2>2. \A k \in got.jobs : Known(n, k)
    BY <1>7, <1>9 DEF Agree, Known
  <2> QED BY <1>5, <1>12, <2>1, <2>2 DEF Expects, Coming
<1>14. ASSUME Possessed PROVE Tracks(w, n) /\ Takes(w)
  BY <1>1, <1>11, <1>13, <1>14, TracksStill, SameRowsStand DEF m
<1>15. RowsStand
  BY <1>1, SameRowsStand
<1> QED BY <1>1, <1>4, <1>5, <1>10, <1>11, <1>14, <1>15, MemoryImplements DEF m

-----------------------------------------------------------------------------
(* A job comes in, and processes come and go.                              *)

(* Nobody else is creating a job whose id is fresh.                        *)
LEMMA EnqueueImplements ==
  ASSUME Mode = "leased", Stands, NEW w \in Worker, NEW j \in Job, Enqueue(w, j)
  PROVE  Implements
<1> DEFINE m == mem[w]
           e == [Unknown EXCEPT !.state = "queued", !.durability = "pending"]
           f == [m EXCEPT !.ent = [m.ent EXCEPT ![j] = e]]
           created == Persist(f, {j}, "create")
           d == Push(created, j)
           x == Snapshot(e, "create")
           n == Pump(d)
<1>1. /\ Calm(m) /\ m \in Memory /\ WorkerInv(w, m, row)
      /\ ~Known(m, j) /\ j \notin submitted /\ row' = row /\ lapsed' = lapsed
      /\ submitted' = submitted \cup {j}
  BY CalmMemory DEF Stands, Calm, Enqueue
<1>2. e \in Entry /\ e.state = "queued" /\ e.durability = "pending"
  BY DEF Unknown, Entry
<1>3. Becomes(w, n)
  <2>1. f = [m EXCEPT !.ent[j] = e]
    BY <1>1 DEF Memory
  <2>2. e = [Unknown EXCEPT !.state = "queued",
                            !.durability = IF Mode = "memory" THEN "none" ELSE "pending"]
    OBVIOUS
  <2> HIDE DEF e, f
  <2> QED BY <2>1, <2>2 DEF Enqueue
<1> HIDE DEF m, e
<1>4. m.chain[j] = <<>> /\ x \in Write /\ x.op = "create"
  <2>1. JobInv(w, m, row, j)
    BY <1>1 DEF WorkerInv
  <2> QED BY <1>1, <1>2, <2>1, SnapshotFields DEF JobInv, Chained, Known
<1>5. created \in Memory /\ Wrote(m, created, j, e, x)
  BY <1>1, <1>2, WroteFields
<1> HIDE DEF created, x
<1>6. /\ d \in Memory /\ d.queue = m.queue \cup {j} /\ d.ent[j] = e /\ d.chain[j] = <<x>>
      /\ \A k \in Job : k # j => d.ent[k] = m.ent[k] /\ d.chain[k] = m.chain[k]
      /\ Waits(m, d)
  <2>1. d \in Memory /\ d.ent = created.ent /\ d.chain = created.chain
        /\ d.queue = created.queue \cup {j} /\ AgreeAround(created, d)
    BY <1>5, PushType, PushFields
  <2> HIDE DEF d
  <2> QED BY <1>4, <1>5, <2>1 DEF Wrote, AgreeAround, Waits
<1> HIDE DEF d
<1>7. Calm(d)
  <2>1. m.queue \subseteq Job
    BY <1>1 DEF Memory
  <2> QED BY <1>1, <1>2, <1>6, <2>1 DEF Calm
<1>8. n \in Memory /\ Calls(d, n) /\ Held(n) = Held(d)
  BY <1>7, PumpCalls
<1> HIDE DEF n
<1>9. ASSUME NEW k \in Job
      PROVE  /\ Grounded(n.chain[k], Mine(row', w, k))
             /\ Creating(n, k) => Creating(d, k)
             /\ Creating(d, k) => (Creating(m, k) \/ k = j)
  <2> DEFINE mine == Mine(row', w, k)
  <2>1. mine \in BOOLEAN
    BY DEF Mine
  <2>2. (k \in Held(d) \/ k \in Held(n)) => k # j /\ mine
    <3>1. ASSUME k \in Held(d) PROVE k # j /\ k \in Held(m)
      BY <1>2, <1>6, <3>1 DEF Held
    <3>2. ASSUME k \in Held(m) PROVE Mine(row, w, k)
      BY <1>1, <3>2 DEF WorkerInv, JobInv, Backed
    <3> QED BY <1>1, <1>8, <3>1, <3>2
  <2>3. /\ Grounded(d.chain[k], mine)
        /\ (\E i \in 1..Len(d.chain[k]) : d.chain[k][i].op = "remove") => Ended(d, k)
        /\ Creating(d, k) => (Creating(m, k) \/ k = j)
    <3>1. CASE k = j
      BY <1>4, <1>6, <3>1 DEF Grounded
    <3>2. CASE k # j
      <4>1. Grounded(m.chain[k], mine)
        BY <1>1 DEF Stands, Founded, m
      <4>2. ChainShape(m.chain[k], m.ent[k], k \in m.starting)
        BY <1>1 DEF WorkerInv, JobInv, Chained
      <4> QED BY <1>6, <3>2, <4>1, <4>2 DEF ChainShape, Ended, Creating
    <3> QED BY <3>1, <3>2
  <2> HIDE DEF mine
  <2>4. Grounded(n.chain[k], mine) /\ (Creating(n, k) => Creating(d, k))
    BY <1>6, <1>8, <2>1, <2>2, <2>3, CallsGrounded
  <2> QED BY <2>3, <2>4 DEF mine
<1>10. row[j].state = "absent" /\ \A k \in Job : Creating(m, k) => row[k].state = "absent"
                                                                 /\ k \in submitted
  BY <1>1 DEF Stands, Founded, m
<1>11. \A k \in Job : Creating(n, k) => /\ Creating(m, k) \/ k \notin submitted
                                        /\ row'[k].state = "absent" /\ k \in submitted'
  BY <1>1, <1>9, <1>10
<1>12. TypeOK /\ TypeOK' /\ Founded /\ lapsed' = {} /\ submitted \subseteq submitted'
  BY <1>1 DEF Stands, IInv, Founded
<1>13. Founded' /\ PhasesAdvance
  BY <1>1, <1>3, <1>9, <1>11, <1>12, StepFounds DEF m
<1>14. ASSUME Possessed PROVE Possessed'
  <2>1. ASSUME NEW k \in Job
        PROVE  /\ Possesses(w, n, row', submitted', k)
               /\ Known(n, k) => Known(m, k) \/ k = j
    <3>1. Possesses(w, m, row, submitted, k) /\ Placed(m, k)
      BY <1>1, <1>14 DEF Possessed, m, WorkerInv, JobInv
    <3>2. /\ Possesses(w, d, row', submitted', k)
          /\ Known(d, k) => Known(m, k) \/ k = j
          /\ d.ent[k].state \in {"queued", "running"}
               => d.ent[k].durability \in {"pending", "stored"}
      <4>1. CASE k = j
        <5>1. ~Ended(d, k) /\ <<x>> # <<>> /\ <<x>>[1] = x
          BY <1>2, <1>6, <4>1 DEF Ended, Terminal
        <5> QED BY <1>1, <1>2, <1>4, <1>6, <1>10, <4>1, <5>1 DEF Possesses
      <4>2. CASE k # j
        <5>1. d.ent[k] = m.ent[k] /\ d.chain[k] = m.chain[k] /\ Waits(m, d)
          BY <1>6, <4>2
        <5>2. Coming(m, k) => Coming(d, k)
          BY <5>1 DEF Waits, Coming
        <5>3. /\ Known(d, k) <=> Known(m, k)
              /\ Ended(d, k) <=> Ended(m, k)
              /\ Creating(d, k) <=> Creating(m, k)
          BY <5>1 DEF Known, Ended, Creating
        <5> QED BY <1>1, <3>1, <5>1, <5>2, <5>3 DEF Possesses, Waits, Placed
      <4> QED BY <4>1, <4>2
    <3>3. Possesses(w, n, row', submitted', k) /\ (Known(n, k) => Known(d, k))
      <4> DEFINE e1 == d.chain[k]  f1 == n.chain[k]
      <4>1. /\ Keeps(d, n, k) /\ Expects(d, n) /\ (Ended(d, k) => Ended(n, k) /\ f1 = e1)
            /\ Longer(e1, f1, Ended(n, k), k \in Held(d) \/ k \in Held(n))
        BY <1>8 DEF Calls
      <4>2. e1 \in Seq(Write) /\ f1 \in Seq(Write) /\ Len(e1) \in Nat /\ Len(f1) \in Nat
            /\ d.ent[k] \in Entry
        BY <1>6, <1>8, ChainTypes
      <4>3. /\ Known(n, k) => Known(d, k)
            /\ Creating(n, k) => Creating(d, k)
            /\ Ended(n, k) => Known(n, k)
        <5>1. k \in Held(d) => Known(d, k)
          BY DEF Held, Known
        <5>2. Creating(n, k) => Creating(d, k)
          BY <1>9
        <5> QED BY <1>8, <4>1, <5>1, <5>2 DEF Keeps, Ended, Known, Terminal
      <4>4. ASSUME Ended(n, k), row'[k].state # "absent" \/ Creating(n, k)
            PROVE  Closing(f1)
        <5>1. CASE Ended(d, k)
          BY <3>2, <4>1, <4>3, <4>4, <5>1 DEF Possesses
        <5>2. CASE ~Ended(d, k)
          <6>1. d.ent[k].state \in {"queued", "running"}
            BY <4>2, <4>3, <4>4, <5>2 DEF Ended, Known, Entry
          <6> QED BY <3>2, <4>1, <4>4, <5>2, <6>1 DEF Keeps
        <5> QED BY <5>1, <5>2
      <4>5. ASSUME n.ent[k].durability = "pending", ~Ended(n, k)
            PROVE  f1 # <<>> /\ f1[1].op = "create"
        <5>1. d.ent[k].durability = "pending" /\ ~Ended(d, k)
          BY <4>1, <4>5 DEF Keeps
        <5>2. e1 # <<>> /\ e1[1].op = "create"
          BY <3>2, <5>1 DEF Possesses
        <5> HIDE DEF e1, f1
        <5>3. 1 \in 1..Len(e1)
          BY <4>2, <5>2, EmptySeq
        <5>4. 1 <= Len(f1) /\ f1[1] = e1[1]
          BY <4>1, <4>2, <5>3 DEF Longer
        <5> QED BY <4>2, <5>2, <5>4
      <4>6. (n.up /\ n.loading # "asked") => d.up /\ d.loading # "asked"
        BY <4>1 DEF Expects
      <4>7. Known(d, k) => Known(n, k)
        BY <4>1 DEF Keeps
      <4>8. Coming(d, k) => Coming(n, k) \/ Known(n, k)
        BY <4>1 DEF Expects
      <4> QED BY <3>2, <4>3, <4>4, <4>5, <4>6, <4>7, <4>8 DEF Possesses
    <3> QED BY <3>2, <3>3
  <2>2. ASSUME NEW v \in Worker, NEW k \in Job, v # w
        PROVE  /\ ~(Creating(n, k) /\ Known(mem[v], k))
               /\ ~(Creating(mem[v], k) /\ Known(n, k))
    <3>1. Known(mem[v], k) => k \in submitted
      BY <1>14 DEF Possessed, Possesses
    <3>2. Creating(mem[v], k) => k \in submitted
      BY <1>12 DEF Founded
    <3>3. /\ Creating(m, k) /\ Known(mem[v], k) => v = w
          /\ Creating(mem[v], k) /\ Known(m, k) => v = w
      BY <1>14 DEF Possessed, m
    <3> QED BY <1>1, <1>9, <2>1, <2>2, <3>1, <3>2, <3>3
  <2>3. \A v \in Worker, k \in Job : (v # w /\ row'[k].state # "absent") =>
          /\ Mine(row, v, k) => Mine(row', v, k)
          /\ row'[k].owner = v => row[k].owner = v /\ row[k].state # "absent"
          /\ Known(mem[v], k) => row[k].state # "absent"
    BY <1>1
  <2> QED BY <1>1, <1>3, <1>12, <1>14, <2>1, <2>2, <2>3, StepPossesses
<1> QED BY <1>13, <1>14 DEF Implements

(* A process that starts or dies has no call on its way.                   *)
LEMMA ProcessImplements ==
  ASSUME Mode = "leased", Stands, NEW w \in Worker, Boot(w) \/ Crash(w)
  PROVE  Implements
<1> DEFINE n == mem'[w]
           booted == [Fresh EXCEPT !.paused = TRUE,
                                   !.loading = IF Mode = "memory" THEN "no" ELSE "asked"]
<1>1. UNCHANGED <<row, submitted>> /\ lapsed' \subseteq lapsed
      /\ (Becomes(w, booted) \/ Becomes(w, Down))
  BY DEF Boot, Crash
<1>2. /\ \A k \in Job : booted.chain[k] = <<>> /\ Down.chain[k] = <<>>
      /\ \A k \in Job : booted.ent[k] = Unknown /\ Down.ent[k] = Unknown
      /\ booted.loading = "asked" /\ ~Down.up
  BY DEF Fresh, Down
<1> HIDE DEF booted
<1>3. TypeOK /\ TypeOK' /\ Founded /\ lapsed' = {}
  BY <1>1 DEF Stands, IInv, Founded
<1>4. /\ Becomes(w, n) /\ \A k \in Job : n.chain[k] = <<>> /\ n.ent[k] = Unknown
      /\ n.up => n.loading = "asked"
  BY <1>1, <1>2, <1>3 DEF Becomes, TypeOK
<1> HIDE DEF n
<1>5. \A k \in Job : Grounded(n.chain[k], Mine(row', w, k)) /\ ~Creating(n, k)
  BY <1>4 DEF Grounded, Creating
<1>6. Founded' /\ PhasesAdvance
  BY <1>1, <1>3, <1>4, <1>5, StepFounds
<1>7. \A k \in Job : ~Known(n, k) /\ ~Ended(n, k) /\ n.ent[k].durability # "pending"
  BY <1>4 DEF Known, Ended, Terminal, Unknown
<1>8. \A k \in Job : Possesses(w, n, row', submitted', k)
  BY <1>4, <1>7 DEF Possesses
<1>9. ASSUME Possessed PROVE Possessed'
  <2>1. \A v \in Worker, k \in Job : (v # w /\ row'[k].state # "absent") =>
          /\ Mine(row, v, k) => Mine(row', v, k)
          /\ row'[k].owner = v => row[k].owner = v /\ row[k].state # "absent"
          /\ Known(mem[v], k) => row[k].state # "absent"
    BY <1>1
  <2>2. submitted \subseteq submitted'
    BY <1>1
  <2> QED BY <1>3, <1>4, <1>5, <1>7, <1>8, <1>9, <2>1, <2>2, StepPossesses
<1> QED BY <1>6, <1>9 DEF Implements

(* A claim that ages is one its worker knows nothing of: it has no call    *)
(* about the job on its way.                                               *)
LEMMA LeaseAgesImplements ==
  ASSUME Stands, NEW j \in Job, LeaseAges(j)
  PROVE  Implements /\ \A k \in Job : PhaseOf(k)' = PhaseOf(k)
<1> DEFINE r2 == [row EXCEPT ![j].live = FALSE]
<1>1. /\ row' = r2 /\ UNCHANGED <<mem, submitted, lapsed>>
      /\ \A v \in Worker : row[j].owner = v => ~mem[v].up \/ Unaware(mem[v], j)
  BY DEF LeaseAges
<1>2. /\ \A k \in Job : k # j => r2[k] = row[k]
      /\ r2[j].state = row[j].state /\ r2[j].owner = row[j].owner
  <2>1. row \in [Job -> Row]
    BY DEF Stands, IInv, TypeOK, Table
  <2>2. row[j] \in Row
    BY <2>1
  <2>3. r2 = [row EXCEPT ![j] = [row[j] EXCEPT !.live = FALSE]]
    OBVIOUS
  <2> HIDE DEF r2
  <2> QED BY <2>1, <2>2, <2>3 DEF Row
<1> HIDE DEF r2
<1>3. ASSUME NEW v \in Worker, NEW k \in Job
      PROVE  Grounded(mem[v].chain[k], Mine(r2, v, k))
  <2>1. Grounded(mem[v].chain[k], Mine(row, v, k))
    BY DEF Stands, Founded
  <2>2. CASE Mine(row, v, k) => Mine(r2, v, k)
    BY <2>1, <2>2 DEF Grounded
  <2>3. CASE Mine(row, v, k) /\ ~Mine(r2, v, k)
    <3>1. k = j /\ row[j].owner = v
      BY <1>2, <2>3 DEF Mine
    <3>2. mem[v].chain[j] = <<>>
      <4>1. CASE Unaware(mem[v], j)
        BY <4>1 DEF Unaware
      <4>2. CASE ~mem[v].up
        <5>1. WorkerInv(v, mem[v], row)
          BY CalmMemory DEF Stands
        <5>2. mem[v] = Down
          BY <4>2, <5>1 DEF WorkerInv
        <5> QED BY <5>2 DEF Down, Fresh
      <4> QED BY <1>1, <3>1, <4>1, <4>2
    <3> QED BY <3>1, <3>2 DEF Grounded
  <2> QED BY <2>2, <2>3
<1>4. \A k \in Job : r2[k].state = row[k].state
  BY <1>2
<1>5. Founded'
  BY <1>1, <1>3, <1>4 DEF Stands, Founded, Creating, Mine
<1>6. \A k \in Job : PhaseOf(k)' = PhaseOf(k)
  BY <1>1, <1>4 DEF PhaseOf, BeingCreated
<1>7. PhasesAdvance
  <2> SUFFICES ASSUME NEW k \in Job PROVE Lifecycle!Reaches(PhaseOf(k), PhaseOf(k))
    BY <1>6 DEF PhasesAdvance
  <2> QED BY DEF Lifecycle!Reaches, Lifecycle!Phases, PhaseOf
<1>8. ASSUME Possessed PROVE Possessed'
  <2>1. ASSUME NEW v \in Worker, NEW k \in Job
        PROVE  Possesses(v, mem[v], r2, submitted, k)
    <3> DEFINE u == mem[v]
    <3>1. /\ Possesses(v, u, row, submitted, k) /\ WorkerInv(v, u, row)
      BY <1>8, CalmMemory DEF Possessed, Stands
    <3>2. /\ JobInv(v, u, row, k) /\ (~u.up => u = Down) /\ u.ent[k] \in Entry
      BY <3>1, ChainTypes DEF WorkerInv, Stands, IInv, TypeOK
    <3> HIDE DEF u
    <3>3. r2[k].state = row[k].state /\ r2[k].owner = row[k].owner
          /\ (r2[k] = row[k] \/ k = j)
      BY <1>2, <1>4
    <3>4. ASSUME Known(u, k), row[k].state # "absent"
          PROVE  u.up /\ ~Unaware(u, k)
      <4>1. u.up
        BY <3>2, <3>4 DEF Known, Down, Fresh, Unknown
      <4>2. CASE Ended(u, k)
        BY <4>1, <3>1, <3>4, <4>2 DEF Possesses, Closing, Unaware
      <4>3. CASE ~Ended(u, k)
        <5>1. u.ent[k].state \in {"queued", "running"}
              /\ u.ent[k].durability \in {"pending", "stored"}
          BY <3>2, <3>4, <4>3 DEF Ended, Known, Entry, JobInv, Placed
        <5>2. CASE u.ent[k].durability = "pending"
          BY <4>1, <3>1, <4>3, <5>2 DEF Possesses, Unaware
        <5>3. CASE u.ent[k].durability = "stored"
          BY <4>1, <5>1, <5>3 DEF Held, Unaware
        <5> QED BY <5>1, <5>2, <5>3
      <4> QED BY <4>1, <4>2, <4>3
    <3>5. (Known(u, k) /\ r2[k].state # "absent") => Mine(r2, v, k)
      <4>1. SUFFICES ASSUME Known(u, k), r2[k].state # "absent" PROVE Mine(r2, v, k)
        OBVIOUS
      <4>2. Mine(row, v, k) /\ u.up /\ ~Unaware(u, k)
        BY <3>1, <3>3, <3>4, <4>1 DEF Possesses
      <4>3. k # j
        BY <1>1, <4>2 DEF Mine, u
      <4> QED BY <3>3, <4>2, <4>3 DEF Mine
    <3>6. Possesses(v, u, r2, submitted, k)
      BY <3>1, <3>3, <3>5 DEF Possesses
    <3> QED BY <3>6 DEF u
  <2>2. \A v, u \in Worker, k \in Job : Creating(mem[v], k) /\ Known(mem[u], k) => v = u
    BY <1>8 DEF Possessed
  <2>3. mem' = mem /\ row' = r2 /\ submitted' = submitted
    BY <1>1
  <2> QED BY <2>1, <2>2, <2>3 DEF Possessed, Possesses, Known, Ended, Creating, Coming, Mine
<1> QED BY <1>5, <1>6, <1>7, <1>8 DEF Implements

-----------------------------------------------------------------------------
(* The statements that take or renew rows.                                 *)

LEMMA ClaimedStand ==
  ASSUME Mode = "leased", TypeOK, NEW w \in Worker, NEW S \in SUBSET Job,
         \A k \in S : row[k].state # "absent" /\ Claimable(row, w, k),
         row' = ClaimedAsQueued(row, w, S)
  PROVE  RowsStand /\ Takes(w) /\ \A k \in Job : k \notin S => row'[k] = row[k]
<1>1. \A k \in Job : row[k] \in Row
  BY DEF TypeOK, Table
<1>2. \A k \in Job : row'[k] = IF k \in S
                               THEN [row[k] EXCEPT !.state = "queued", !.owner = w, !.live = TRUE]
                               ELSE row[k]
  BY DEF ClaimedAsQueued
<1>3. ASSUME NEW k \in Job
      PROVE  /\ row'[k].state = "absent" <=> row[k].state = "absent"
             /\ \A v \in Worker : Mine(row, v, k) => Mine(row', v, k)
             /\ row'[k].owner \in {row[k].owner, w}
  <2>1. CASE k \notin S
    BY <1>2, <2>1 DEF Mine
  <2>2. CASE k \in S
    <3>1. row'[k] = [row[k] EXCEPT !.state = "queued", !.owner = w, !.live = TRUE]
          /\ row[k] \in Row
      BY <1>1, <1>2, <2>2
    <3>2. row'[k].state = "queued" /\ row'[k].owner = w /\ row'[k].live
      BY <3>1 DEF Row
    <3>3. \A v \in Worker : Mine(row, v, k) => v = w
      BY <2>2, NoWorkerAssumption DEF Claimable, Mine
    <3> QED BY <2>2, <3>2, <3>3 DEF Mine
  <2> QED BY <2>1, <2>2
<1>4. RowsStand
  BY <1>3 DEF RowsStand
<1>5. Takes(w)
  BY <1>3, Zenon DEF Takes
<1> QED BY <1>2, <1>4, <1>5

LEMMA RenewedStand ==
  ASSUME TypeOK, NEW w \in Worker, NEW ids \in SUBSET Job, row' = RenewedRows(row, w, ids)
  PROVE  RowsStand /\ \A k \in Job : row'[k].owner = row[k].owner
<1>1. \A k \in Job : row[k] \in Row
  BY DEF TypeOK, Table
<1>2. \A k \in Job : row'[k] = row[k] \/ row'[k] = [row[k] EXCEPT !.live = TRUE]
  BY DEF RenewedRows
<1>3. \A k \in Job : /\ row'[k].state = row[k].state /\ row'[k].owner = row[k].owner
                     /\ row[k].live => row'[k].live
  BY <1>1, <1>2 DEF Row
<1> QED BY <1>3 DEF RowsStand, Mine

LEMMA AdoptedStand ==
  ASSUME Mode = "leased", TypeOK, NEW w \in Worker, NEW S \in AdoptionBatches(row, w),
         row' = ClaimedAsQueued(row, w, S)
  PROVE  RowsStand /\ Takes(w) /\ \A k \in Job : k \notin S => row'[k] = row[k]
<1>1. S \in SUBSET Abandoned(row, w)
  BY DEF AdoptionBatches
<1>2. S \in SUBSET Job /\ \A k \in S : row[k].state # "absent" /\ Claimable(row, w, k)
  BY <1>1 DEF Abandoned, Outstanding, Claimable
<1> QED BY <1>2, ClaimedStand

LEMMA LoadedStand ==
  ASSUME Mode = "leased", TypeOK, NEW w \in Worker, NEW S \in LoadBatches(row, w),
         row' = ClaimedAsQueued(row, w, S)
  PROVE  RowsStand /\ Takes(w) /\ \A k \in Job : k \notin S => row'[k] = row[k]
<1>1. S \in SUBSET Job /\ \A k \in S : row[k].state # "absent" /\ Claimable(row, w, k)
  BY DEF LoadBatches, Loadable, Outstanding
<1> QED BY <1>1, ClaimedStand

LEMMA RenewExecutesImplements ==
  ASSUME Stands, NEW w \in Worker, NEW b \in Beats, RenewExecutes(w, b)
  PROVE  Implements
<1> DEFINE m == mem[w]
           ids == m.beats[b].ids
           x == [m.beats[b] EXCEPT !.phase = "renewed", !.ids = RenewLost(row, w, ids)]
           n == [m EXCEPT !.beats = [m.beats EXCEPT ![b] = x]]
<1>1. /\ Calm(m) /\ m \in Memory /\ TypeOK /\ row' = RenewedRows(row, w, ids)
      /\ m.beats[b].phase = "renewing" /\ UNCHANGED <<submitted, lapsed>>
  BY CalmMemory DEF Stands, IInv, Calm, RenewExecutes
<1>2. Becomes(w, n)
  <2>1. n = [m EXCEPT !.beats[b] = x]
    <3> HIDE DEF x, m
    <3> QED BY <1>1 DEF Memory
  <2> HIDE DEF n
  <2> QED BY <2>1 DEF RenewExecutes
<1> HIDE DEF m
<1>3. m.beats[b] \in Beat /\ ids \in SUBSET Job
  BY <1>1 DEF Memory, Beat
<1>4. x \in Beat
  <2>1. RenewLost(row, w, ids) \in SUBSET Job
    BY <1>3 DEF RenewLost
  <2> QED BY <1>3, <2>1 DEF Beat
<1>5. RowsStand /\ \A k \in Job : row'[k].owner = row[k].owner
  BY <1>1, <1>3, RenewedStand
<1> HIDE DEF x, ids
<1>6. Heard(m, b)
  BY <1>1 DEF Heard
<1>7. Calls(m, n)
  BY <1>1, <1>4, <1>6, BeatEases DEF Eases
<1> HIDE DEF n
<1>8. ASSUME Possessed PROVE Tracks(w, n) /\ Takes(w)
  <2>1. Expects(m, n) /\ \A k \in Job : Known(m, k) => Known(n, k)
    BY <1>7 DEF Calls, Keeps
  <2> QED BY <1>5, <1>8, <2>1, TracksStill DEF m
<1> QED BY <1>1, <1>2, <1>5, <1>7, <1>8, ShedsNothing, MemoryImplements DEF m

LEMMA AdoptExecutesImplements ==
  ASSUME Mode = "leased", Stands, NEW w \in Worker, NEW b \in Beats, AdoptExecutes(w, b)
  PROVE  Implements
<1> DEFINE m == mem[w]
<1>1. /\ Calm(m) /\ m \in Memory /\ TypeOK /\ m.beats[b].phase = "adopting"
      /\ UNCHANGED <<submitted, lapsed>>
  BY CalmMemory DEF Stands, IInv, Calm, AdoptExecutes
<1>2. PICK S \in AdoptionBatches(row, w) :
        /\ row' = ClaimedAsQueued(row, w, S)
        /\ Becomes(w, [m EXCEPT !.beats[b] = [@ EXCEPT !.phase = "adopted", !.got = ClaimsOf(S)]])
  BY DEF AdoptExecutes
<1> DEFINE x == [m.beats[b] EXCEPT !.phase = "adopted", !.got = ClaimsOf(S)]
           n == [m EXCEPT !.beats = [m.beats EXCEPT ![b] = x]]
<1>3. Becomes(w, n)
  <2>1. n = [m EXCEPT !.beats[b] = x]
    <3> HIDE DEF x, m
    <3> QED BY <1>1 DEF Memory
  <2> HIDE DEF n
  <2> QED BY <1>2, <2>1
<1>4. RowsStand /\ Takes(w) /\ \A k \in Job : k \notin S => row'[k] = row[k]
  BY <1>1, <1>2, AdoptedStand
<1> HIDE DEF m
<1>5. x \in Beat /\ x.phase = "adopted" /\ x.got.jobs = S
  <2>1. S \in SUBSET Job
    BY DEF AdoptionBatches, Abandoned, Outstanding
  <2>2. ClaimsOf(S) \in Claims /\ ClaimsOf(S).jobs = S
    <3>1. ClaimsOf(S) \in Claims
      BY <1>1, <2>1, ClaimsOfType DEF TypeOK
    <3> QED BY <3>1 DEF ClaimsOf
  <2>3. m.beats[b] \in Beat
    BY <1>1 DEF Memory
  <2> QED BY <2>2, <2>3 DEF Beat
<1> HIDE DEF x
<1>6. Heard(m, b)
  BY <1>1 DEF Heard
<1>7. Calls(m, n)
  BY <1>1, <1>5, <1>6, BeatEases DEF Eases
<1>8. n.beats[b] = x
  BY <1>1 DEF Memory
<1> HIDE DEF n
<1>9. ASSUME Possessed PROVE Tracks(w, n) /\ Takes(w)
  <2>1. Expects(m, n) /\ \A k \in Job : Known(m, k) => Known(n, k)
    BY <1>7 DEF Calls, Keeps
  <2>2. ASSUME NEW k \in Job, n.up, n.loading # "asked", row'[k].state # "absent",
               row'[k].owner = w
        PROVE  Known(n, k) \/ Coming(n, k)
    <3>1. CASE k \in S
      BY <1>5, <1>8, <3>1 DEF Coming
    <3>2. CASE k \notin S
      <4>1. Possesses(w, m, row, submitted, k)
        BY <1>9 DEF Possessed, m
      <4> QED BY <1>4, <2>1, <2>2, <3>2, <4>1 DEF Possesses, Expects
    <3> QED BY <3>1, <3>2
  <2>3. Tracks(w, n)
    BY <2>2 DEF Tracks
  <2> QED BY <1>4, <2>3
<1> QED BY <1>1, <1>3, <1>4, <1>7, <1>9, ShedsNothing, MemoryImplements DEF m

(* A load that finds no row locked gets all it looks for.                  *)
LEMMA LoadsSomething ==
  ASSUME NEW r, NEW w \in Worker
  PROVE  Loadable(r, w) \in LoadBatches(r, w)
BY DEF LoadBatches

(* Every row in w's name is among those a load hands over.                 *)
LEMMA LoadImplements ==
  ASSUME Mode = "leased", Stands, NEW w \in Worker, LoadExecutes(w) \/ LoadFails(w)
  PROVE  Implements
<1>0. PICK S \in LoadBatches(row, w) :
        LET r2 == ClaimedAsQueued(row, w, S)
        IN \/ /\ Becomes(w, [mem[w] EXCEPT !.loading = "answered", !.loaded = ClaimsOf(S)])
              /\ row' = r2
           \/ /\ Becomes(w, [mem[w] EXCEPT !.loading = "no"])
              /\ row' \in {row, r2} /\ Spend("error")
  BY LoadsSomething DEF LoadExecutes, LoadFails
<1> DEFINE m == mem[w]
           loaded == [m EXCEPT !.loading = "answered", !.loaded = ClaimsOf(S)]
           failed == [m EXCEPT !.loading = "no"]
           r2 == ClaimedAsQueued(row, w, S)
<1>1. m \in Memory /\ TypeOK /\ UNCHANGED <<submitted, lapsed>>
  BY DEF Stands, IInv, TypeOK, LoadExecutes, LoadFails
<1>2. \/ Becomes(w, loaded) /\ row' = r2
      \/ Becomes(w, failed) /\ row' \in {row, r2} /\ Spend("error")
  BY <1>0
<1>3. /\ loaded.chain = m.chain /\ loaded.ent = m.ent
      /\ loaded.loading = "answered" /\ loaded.loaded.jobs = S
      /\ failed.chain = m.chain /\ failed.ent = m.ent
  <2> HIDE DEF m
  <2> QED BY <1>1 DEF Memory, ClaimsOf
<1>4. row' = r2 => /\ RowsStand /\ Takes(w)
                   /\ \A k \in Job : k \notin S => row'[k] = row[k]
  BY <1>1, LoadedStand
<1> HIDE DEF loaded, failed, r2
<1>5. ASSUME NEW n, Becomes(w, n), n.chain = m.chain, n.ent = m.ent
      PROVE  n \in Memory /\ Sheds(m, n) /\ Calls(n, n) /\ Answers(m, n, n)
  <2>1. n \in Memory
    BY <1>5 DEF Stands, IInv, TypeOK, Becomes
  <2>2. Agree(n, n)
    BY DEF Agree
  <2> QED BY <1>5, <2>1, <2>2, AgreeCalls DEF Sheds, Answers
<1>6. CASE Becomes(w, loaded) /\ row' = r2
  <2>1. ASSUME NEW k \in Job, row'[k].state # "absent", row'[k].owner = w
        PROVE  k \in S
    BY <1>4, <1>6, <2>1 DEF LoadBatches, Loadable, Outstanding, Claimable
  <2>2. \A k \in Job : k \in S => Coming(loaded, k)
    BY <1>3 DEF Coming
  <2>3. Tracks(w, loaded)
    BY <2>1, <2>2 DEF Tracks
  <2> QED BY <1>1, <1>3, <1>4, <1>4, <1>5, <1>6, <2>3, MemoryImplements
<1>7. CASE Becomes(w, failed) /\ row' \in {row, r2} /\ Spend("error")
  <2>1. used'["error"] # 0
    BY <1>1, <1>7, SpentError
  <2>2. RowsStand
    BY <1>4, <1>7, SameRowsStand
  <2> QED BY <1>1, <1>3, <1>5, <1>7, <2>1, <2>2, MemoryImplements
<1> QED BY <1>2, <1>6, <1>7

LEMMA BeatFailsImplements ==
  ASSUME Mode = "leased", Stands, NEW w \in Worker, NEW b \in Beats, BeatFails(w, b)
  PROVE  Implements
<1> DEFINE m == mem[w]
           asks == AskToAdopt(m, b)
           ends == EndBeat(m, b)
           r2 == RenewedRows(row, w, m.beats[b].ids)
<1>1. /\ Calm(m) /\ m \in Memory /\ TypeOK /\ UNCHANGED <<submitted, lapsed>>
      /\ m.beats[b].phase \in {"renewing", "adopting"} /\ used'["error"] # 0
  BY CalmMemory, SpentError DEF Stands, IInv, Calm, BeatFails
<1>2. \/ Becomes(w, asks) /\ row' \in {row, r2}
      \/ /\ Becomes(w, ends)
         /\ row' \in {row} \cup { ClaimedAsQueued(row, w, S) : S \in AdoptionBatches(row, w) }
  BY DEF BeatFails
<1>3. RowsStand
  <2>1. CASE row' = row
    BY <2>1, SameRowsStand
  <2>2. CASE row' = r2
    <3>1. m.beats[b].ids \in SUBSET Job
      <4> HIDE DEF m
      <4> QED BY <1>1 DEF Memory, Beat
    <3> QED BY <1>1, <2>2, <3>1, RenewedStand
  <2>3. ASSUME NEW S \in AdoptionBatches(row, w), row' = ClaimedAsQueued(row, w, S)
        PROVE  RowsStand
    BY <1>1, <2>3, AdoptedStand
  <2> HIDE DEF m, r2, asks, ends
  <2> QED BY <1>2, <2>1, <2>2, <2>3
<1>4. Becomes(w, asks) \/ Becomes(w, ends)
  BY <1>2
<1>5. Eases(m, asks) /\ Eases(m, ends)
  <2>1. Heard(m, b)
    BY <1>1 DEF Heard
  <2> QED BY <1>1, <2>1, AskToAdoptEases, EndBeatEases
<1> HIDE DEF asks, ends
<1>6. ASSUME NEW n, Becomes(w, n), Eases(m, n) PROVE Implements
  <2>1. Sheds(mem[w], m) /\ Calls(m, n)
    BY <1>6, ShedsNothing DEF m, Eases
  <2> QED BY <1>1, <1>3, <1>6, <2>1, MemoryImplements
<1> QED BY <1>4, <1>5, <1>6

-----------------------------------------------------------------------------
(* A store call is executed, or fails.                                     *)

LEMMA StoreImplements ==
  ASSUME Mode = "leased", Stands, NEW w \in Worker, NEW j \in Job,
         StoreExecutes(w, j) \/ StoreFails(w, j)
  PROVE  Implements
<1> DEFINE m == mem[w]
           c == m.chain[j]
           x == Head(c)
           done == Executed(w, j, x)
           said == Answer(w, j, x)
<1>1. /\ TypeOK /\ TypeOK' /\ Founded /\ m \in Memory /\ c # <<>> /\ x.answer = "none"
      /\ UNCHANGED <<submitted, lapsed>>
  BY DEF Stands, IInv, TypeOK, StoreExecutes, StoreFails, Asked
<1>2. \E a \in {"ok", "held", "lost", "error"} :
        /\ Becomes(w, AnswerHead(m, j, a))
        /\ row' = done \/ row' = row
  <2>1. said \in {"ok", "held", "lost"}
    BY DEF Answer
  <2>2. CASE StoreExecutes(w, j)
    <3>1. Becomes(w, AnswerHead(m, j, said)) /\ row' = done
      BY <2>2 DEF StoreExecutes
    <3> QED BY <2>1, <3>1
  <2>3. CASE StoreFails(w, j)
    <3>1. Becomes(w, AnswerHead(m, j, "error")) /\ row' \in {row, done}
      BY <2>3 DEF StoreFails
    <3> HIDE DEF done
    <3> QED BY <3>1
  <2> QED BY <2>2, <2>3
<1>3. PICK a \in {"ok", "held", "lost", "error"} :
        Becomes(w, AnswerHead(m, j, a)) /\ (row' = done \/ row' = row)
  BY <1>2
<1>4. c \in Seq(Write) /\ Len(c) \in Nat /\ 1 \in 1..Len(c) /\ x = c[1] /\ x \in Write
  <2>1. c \in Seq(Write)
    BY <1>1 DEF Memory
  <2> HIDE DEF c
  <2> QED BY <1>1, <2>1, EmptySeq
<1> DEFINE n == AnswerHead(m, j, a)
           d == n.chain[j]
<1>5. /\ d = [c EXCEPT ![1].answer = a]
      /\ \A k \in Job : k # j => n.chain[k] = m.chain[k]
      /\ n.ent = m.ent /\ Waits(m, n)
  <2> HIDE DEF m
  <2> QED BY <1>1 DEF AnswerHead, Memory, Waits
<1>6. Becomes(w, n)
  BY <1>3
<1> HIDE DEF n, x
<1>7. /\ Len(d) = Len(c) /\ d[1].answer = a
      /\ \A i \in 1..Len(c) : d[i].op = c[i].op
      /\ \A i \in 1..Len(c) : i # 1 => d[i] = c[i]
  <2> HIDE DEF c, d
  <2> QED BY <1>4, <1>5 DEF Write
<1>8. /\ \A k \in Job : k # j => done[k] = row[k]
      /\ (x.op # "remove" /\ said = "ok") => Mine(done, w, j)
      /\ (x.op # "remove" /\ said # "ok") => done = row
  BY <1>1, <1>4, ExecutedHere
<1>9. x.op = "remove" => (done[j].state # "absent" => row[j].state # "absent")
  <2>1. row \in [Job -> Row]
    BY <1>1 DEF TypeOK, Table
  <2> QED BY <2>1 DEF Executed, Removed, NoRow
<1>21. /\ (x.op = "create" /\ row[j].state = "absent") => said = "ok"
       /\ x.op = "remove" => done[j].state = "absent" \/ done[j] = row[j]
       /\ (x.op = "remove" /\ Mine(row, w, j)) => done[j].state = "absent"
  <2>1. x.op = "create" /\ row[j].state = "absent" => said = "ok"
    BY DEF Answer, Writable
  <2>2. x.op = "remove" =>
          done = IF Claimable(row, w, j) THEN [row EXCEPT ![j] = NoRow] ELSE row
    BY DEF Executed, Removed
  <2>3. row \in [Job -> Row] /\ NoRow.state = "absent"
    BY <1>1 DEF TypeOK, Table, NoRow
  <2>4. Mine(row, w, j) => Claimable(row, w, j)
    BY DEF Mine, Claimable
  <2> HIDE DEF done, said, x
  <2> QED BY <2>1, <2>2, <2>3, <2>4
<1>10. ASSUME NEW v \in Worker, v # w, NEW k \in Job, Mine(row, v, k)
       PROVE  Mine(row', v, k)
  <2>1. done[k] = row[k]
    BY <1>1, <1>4, <1>10, ExecutedElsewhere
  <2> HIDE DEF done
  <2> QED BY <1>3, <1>10, <2>1 DEF Mine
<1>11. \A k \in Job : Grounded(m.chain[k], Mine(row, w, k))
  BY <1>1 DEF Founded
<1>12. Grounded(c, Mine(row, w, j))
  BY <1>11
<1>13. x.op \in {"save", "acquire"} => Mine(row, w, j)
  BY <1>4, <1>12 DEF Grounded
<1> HIDE DEF done, said
<1>14. \A k \in Job : k # j => row'[k] = row[k]
  BY <1>3, <1>8
<1>15. Creating(m, j) <=> x.op = "create"
  BY <1>1, <1>4 DEF Creating
<1>16. ASSUME NEW k \in Job, row'[k].state # "absent"
       PROVE  row[k].state # "absent" \/ Creating(m, k)
  <2>1. CASE k # j
    BY <1>14, <1>16, <2>1
  <2>2. CASE k = j
    <3>1. x.op \in {"create", "save", "remove", "acquire"}
      BY <1>4 DEF Write
    <3> QED BY <1>3, <1>9, <1>13, <1>15, <1>16, <2>2, <3>1 DEF Mine
  <2> QED BY <2>1, <2>2
<1>17. ASSUME NEW k \in Job PROVE Grounded(n.chain[k], Mine(row', w, k))
  <2>1. CASE k # j
    <3>1. Mine(row', w, k) <=> Mine(row, w, k)
      BY <1>14, <2>1 DEF Mine
    <3>2. Grounded(m.chain[k], Mine(row, w, k)) /\ n.chain[k] = m.chain[k]
      BY <1>5, <1>11, <2>1
    <3> QED BY <3>1, <3>2 DEF Grounded
  <2>2. CASE k = j
    <3>1. ASSUME NEW i \in 1..Len(c), c[i].op \in {"save", "acquire"} PROVE Mine(row', w, j)
      <4>1. x.op # "remove"
        <5>1. x.op = "remove" => Len(c) = 1
          BY <1>4, <1>12 DEF Grounded
        <5>2. Len(c) = 1 => c[i] = x
          BY <1>4, <3>1
        <5> QED BY <3>1, <5>1, <5>2
      <4>2. Mine(row, w, j)
        BY <1>12, <3>1 DEF Grounded
      <4> QED BY <1>3, <1>8, <4>1, <4>2
    <3>2. Grounded(d, Mine(row', w, j))
      BY <1>7, <1>12, <3>1 DEF Grounded
    <3> QED BY <2>2, <3>2
  <2> QED BY <2>1, <2>2
<1>18. ASSUME NEW k \in Job, Creating(n, k)
       PROVE  Creating(m, k) /\ row'[k].state = "absent" /\ k \in submitted'
  <2>1. k # j
    BY <1>7, <1>18 DEF Creating
  <2>2. Creating(m, k)
    BY <1>5, <1>18, <2>1 DEF Creating
  <2> QED BY <1>1, <1>14, <2>1, <2>2 DEF Founded
<1>19. submitted \subseteq submitted' /\ lapsed' = {}
  BY <1>1 DEF Founded
<1>20. Founded' /\ PhasesAdvance
  BY <1>1, <1>6, <1>10, <1>16, <1>17, <1>18, <1>19, StepFounds DEF m
<1>22. ASSUME Possessed, used'["error"] = 0 PROVE Possessed'
  <2>1. row' = done
    <3>1. ~StoreFails(w, j)
      BY <1>1, <1>22, SpentError DEF StoreFails
    <3> QED BY <3>1 DEF StoreExecutes, done, x, c, m
  <2>2. \A k \in Job : /\ Possesses(w, m, row, submitted, k)
                       /\ Known(n, k) <=> Known(m, k)
                       /\ Ended(n, k) <=> Ended(m, k)
                       /\ Coming(n, k) <=> Coming(m, k)
    BY <1>5, <1>22 DEF Possessed, m, Known, Ended, Coming, Waits
  <2>3. Known(m, j)
    <3>1. WorkerInv(w, m, row)
      BY CalmMemory DEF Stands, m
    <3> QED BY <1>1, <3>1 DEF WorkerInv, JobInv, Chained, Known
  <2>4. x.op \in {"create", "save", "remove", "acquire"} /\ said \in {"ok", "held", "lost"}
    BY <1>4 DEF Write, said, Answer
  <2>5. row'[j].state # "absent" => Mine(row', w, j) /\ x.op # "remove"
    <3>1. SUFFICES ASSUME row'[j].state # "absent" PROVE Mine(row', w, j) /\ x.op # "remove"
      OBVIOUS
    <3>2. CASE x.op = "create"
      <4>1. row[j].state = "absent"
        BY <1>1, <1>15, <3>2 DEF Founded, m
      <4> QED BY <1>8, <1>21, <2>1, <3>2, <4>1
    <3>3. CASE x.op \in {"save", "acquire"}
      BY <1>8, <1>13, <2>1, <3>3
    <3>4. CASE x.op = "remove"
      <4>1. row[j].state # "absent" => Mine(row, w, j)
        BY <2>2, <2>3 DEF Possesses
      <4> QED BY <1>21, <2>1, <3>1, <3>4, <4>1
    <3> QED BY <2>4, <3>2, <3>3, <3>4
  <2>6. ASSUME NEW k \in Job PROVE Possesses(w, n, row', submitted', k)
    <3>1. CASE k # j
      <4>1. n.ent[k] = m.ent[k] /\ n.chain[k] = m.chain[k] /\ row'[k] = row[k]
            /\ n.up = m.up /\ n.loading = m.loading
        BY <1>5, <1>14, <3>1 DEF Waits
      <4> QED BY <1>1, <2>2, <4>1 DEF Possesses, Mine, Creating
    <3>2. CASE k = j
      <4>1. ~Creating(n, j)
        BY <1>7 DEF Creating
      <4>2. ASSUME Ended(m, j), row'[j].state # "absent" PROVE Closing(d)
        <5>1. Closing(c) /\ x.op # "remove"
          BY <1>16, <2>2, <2>5, <4>2 DEF Possesses, c
        <5>2. Len(c) # 1 /\ Len(c) \in 1..Len(c)
          BY <1>4, <5>1 DEF Closing
        <5>3. d[Len(c)] = c[Len(c)] /\ Len(d) = Len(c)
          BY <1>7, <5>2
        <5>4. d # <<>>
          BY <1>4, <1>7
        <5> QED BY <5>1, <5>3, <5>4 DEF Closing
      <4>3. ASSUME m.ent[j].durability = "pending", ~Ended(m, j)
            PROVE  d # <<>> /\ d[1].op = "create"
        <5>1. c[1].op = "create"
          BY <2>2, <4>3 DEF Possesses, c
        <5> HIDE DEF c, d
        <5>2. d[1].op = "create" /\ Len(d) # 0
          BY <1>4, <1>7, <5>1
        <5> QED BY <5>2
      <4> QED BY <1>1, <1>5, <2>2, <2>3, <2>5, <3>2, <4>1, <4>2, <4>3 DEF Possesses, d
    <3> QED BY <3>1, <3>2
  <2>7. ASSUME NEW v \in Worker, NEW k \in Job, v # w, row'[k].state # "absent"
        PROVE  /\ row'[k].owner = v => row[k].owner = v /\ row[k].state # "absent"
               /\ Known(mem[v], k) => row[k].state # "absent"
    <3>1. CASE k # j
      BY <1>14, <2>7, <3>1
    <3>2. CASE k = j
      <4>1. row'[k].owner = w
        BY <2>5, <2>7, <3>2 DEF Mine
      <4>2. row[k].state # "absent" \/ Creating(m, k)
        BY <1>16, <2>7
      <4>3. Creating(m, k) /\ Known(mem[v], k) => v = w
        BY <1>22 DEF Possessed, m
      <4> QED BY <2>7, <4>1, <4>2, <4>3
    <3> QED BY <3>1, <3>2
  <2>8. ASSUME NEW v \in Worker, NEW k \in Job, v # w
        PROVE  /\ ~(Creating(n, k) /\ Known(mem[v], k))
               /\ ~(Creating(mem[v], k) /\ Known(n, k))
    <3>1. /\ Creating(m, k) /\ Known(mem[v], k) => v = w
          /\ Creating(mem[v], k) /\ Known(m, k) => v = w
      BY <1>22 DEF Possessed, m
    <3> QED BY <1>18, <2>2, <2>8, <3>1
  <2>9. \A v \in Worker, k \in Job : (v # w /\ row'[k].state # "absent") =>
          /\ Mine(row, v, k) => Mine(row', v, k)
          /\ row'[k].owner = v => row[k].owner = v /\ row[k].state # "absent"
          /\ Known(mem[v], k) => row[k].state # "absent"
    BY <1>10, <2>7
  <2> QED BY <1>1, <1>6, <1>19, <1>22, <2>6, <2>8, <2>9, StepPossesses
<1> QED BY <1>20, <1>22 DEF Implements

-----------------------------------------------------------------------------
(* The steps together.                                                     *)

LEMMA InitFounded == Init => Founded
<1> SUFFICES ASSUME Init PROVE Founded
  OBVIOUS
<1> DEFINE f == Fresh
<1>1. f \in Memory /\ \A k \in Job : f.chain[k] = <<>>
  BY EmptyTypes DEF Fresh
<1> HIDE DEF f
<1>2. ScheduleHeartbeat(f).chain = f.chain
  BY <1>1, ScheduleHeartbeatAgrees DEF Agree
<1>3. \A w \in Worker : mem[w] = ScheduleHeartbeat(f)
  BY DEF Init, f
<1>4. \A w \in Worker, k \in Job : mem[w].chain[k] = <<>>
  BY <1>1, <1>2, <1>3
<1>5. \A k \in Job : row[k].state = "absent"
  BY DEF Init, NoRow
<1>6. lapsed = {}
  BY DEF Init
<1> QED BY <1>4, <1>5, <1>6 DEF Founded, Grounded, Creating

(* A step is one of a worker, or an unheld claim's ageing.                 *)
LEMMA StepImplements ==
  ASSUME Mode = "leased", lapsed' = {}, Stands, AllTidy, Next
  PROVE  Implements /\ \/ \E w \in Worker : Advances(w)
                       \/ UNCHANGED mem /\ \A k \in Job : PhaseOf(k)' = PhaseOf(k)
<1>1. TypeOK
  BY DEF Stands, IInv
<1>2. ASSUME NEW w \in Worker,
             \/ Pause(w) \/ Resume(w) \/ Drain(w) \/ Close(w) \/ Crash(w)
             \/ Boot(w) \/ LoadExecutes(w) \/ LoadFails(w) \/ Recovered(w)
      PROVE  Implements /\ Advances(w)
  <2>1. Implements
    BY <1>2, PauseImplements, CloseImplements, ProcessImplements, LoadImplements,
       RecoveredImplements
  <2>2. Advances(w)
    BY <1>1, <1>2, PauseTidy, ResumeTidy, DrainTidy, CloseTidy, CrashTidy, BootTidy,
       LoadExecutesTidy, LoadFailsTidy, RecoveredTidy
  <2> QED BY <2>1, <2>2
<1>3. ASSUME NEW w \in Worker, NEW j \in Job,
             \/ Enqueue(w, j) \/ CancelQueued(w, j) \/ CancelRunning(w, j)
             \/ StoreExecutes(w, j) \/ StoreFails(w, j)
             \/ CreateSettles(w, j) \/ WriteSettles(w, j) \/ AcquireSettles(w, j)
             \/ HandlerReturns(w, j) \/ HandlerThrows(w, j) \/ PolicyAnswers(w, j)
             \/ Wake(w, j)
      PROVE  Implements /\ Advances(w)
  <2>1. Implements
    BY <1>3, EnqueueImplements, CancelQueuedImplements, CancelRunningImplements,
       StoreImplements, CreateSettlesImplements, WriteSettlesImplements,
       AcquireSettlesImplements, HandlerImplements, PolicyAnswersImplements, WakeImplements
  <2>2. Advances(w)
    BY <1>1, <1>3, EnqueueTidy, CancelQueuedTidy, CancelRunningTidy, StoreTidy,
       CreateSettlesTidy, WriteSettlesTidy, AcquireSettlesTidy, HandlerReturnsTidy,
       HandlerThrowsTidy, PolicyAnswersTidy, WakeTidy
  <2> QED BY <2>1, <2>2
<1>4. ASSUME NEW w \in Worker, NEW b \in Beats,
             \/ BeatStarts(w, b) \/ RenewExecutes(w, b) \/ Renewed(w, b)
             \/ AdoptExecutes(w, b) \/ Adopted(w, b) \/ BeatFails(w, b)
      PROVE  Implements /\ Advances(w)
  <2>1. Implements
    BY <1>4, BeatStartsImplements, RenewExecutesImplements, RenewedImplements,
       AdoptExecutesImplements, AdoptedImplements, BeatFailsImplements
  <2>2. Advances(w)
    BY <1>1, <1>4, BeatStartsTidy, RenewExecutesTidy, RenewedTidy, AdoptExecutesTidy,
       AdoptedTidy, BeatFailsTidy
  <2> QED BY <2>1, <2>2
<1>5. ASSUME NEW j \in Job, LeaseAges(j) \/ LeaseLapses(j)
      PROVE  Implements /\ UNCHANGED mem /\ \A k \in Job : PhaseOf(k)' = PhaseOf(k)
  <2>1. LeaseAges(j)
    BY <1>5 DEF LeaseLapses
  <2>2. UNCHANGED mem
    BY <2>1 DEF LeaseAges
  <2> QED BY <2>1, <2>2, LeaseAgesImplements
<1> QED BY <1>2, <1>3, <1>4, <1>5 DEF Next

(* The handlers of one worker change, and they exclude those of the others.*)
LEMMA WorkerTurns ==
  ASSUME TypeOK, TypeOK', ClaimsHold', AllTidy', SingleRunner', LanesExcluded',
         AcknowledgedIsStored', lapsed' = {}, Mode = "leased", PhasesAdvance,
         NEW w \in Worker, Advances(w)
  PROVE  Lifecycle!Next
<1> DEFINE others == UNION { mem[v].active : v \in Worker \ {w} }
           live == UNION { mem'[v].active : v \in Worker }
<1>1. \A v \in Worker : v # w => mem'[v] = mem[v]
  BY DEF Advances, Becomes, TypeOK
<1>2. \A v \in Worker : mem'[v] \in Memory
  BY DEF TypeOK
<1>3. \A v \in Worker : mem'[v].active \in SUBSET Job
  BY <1>2 DEF Memory
<1>. PICK S \in SUBSET Job : S = mem'[w].active
  BY <1>3
<1>4. S \cap others = {}
  BY <1>1 DEF SingleRunner
<1>5. S \cup others \subseteq live
  BY <1>1
<1>6. ASSUME NEW u \in Worker, NEW v \in Worker,
             NEW i \in mem'[u].active, NEW k \in mem'[v].active, i # k
      PROVE  LaneOf[i] # LaneOf[k] \/ LaneOf[i] = NoLane
  <2>1. CASE u = v
    <3>1. \A a, b \in InUse(mem'[u]) : (a # b /\ LaneOf[a] = LaneOf[b]) => LaneOf[a] = NoLane
      BY DEF AllTidy, Tidy, Slotted
    <3> QED BY <1>6, <2>1, <3>1 DEF InUse
  <2>2. CASE u # v
    <3>1. LanesOf(mem'[u].active) \cap LanesOf(mem'[v].active) = {}
      BY <2>2 DEF LanesExcluded
    <3>2. LaneOf[i] # NoLane => LaneOf[i] \in LanesOf(mem'[u].active)
      BY DEF LanesOf
    <3>3. LaneOf[k] # NoLane => LaneOf[k] \in LanesOf(mem'[v].active)
      BY DEF LanesOf
    <3> QED BY <3>1, <3>2, <3>3
  <2> QED BY <2>1, <2>2
<1>7. \A i, k \in live : i # k => LaneOf[i] # LaneOf[k] \/ LaneOf[i] = NoLane
  BY <1>6
<1>8. ASSUME NEW v \in Worker, NEW i \in mem'[v].active
      PROVE  i \in Job /\ PhaseOf(i)' = "recorded"
  <2>1. i \in Job
    BY <1>3
  <2>2. mem'[v].up
    <3>1. ~mem'[v].up => mem'[v] = Down
      BY DEF ClaimsHold, WorkerInv
    <3>2. Down.active = {}
      BY DEF Down, Fresh
    <3> QED BY <3>1, <3>2
  <2>3. row'[i].state # "absent"
    BY <2>1, <2>2 DEF AcknowledgedIsStored
  <2> QED BY <2>1, <2>3 DEF PhaseOf
<1>9. Lifecycle!Turn(w, S)
  <2> DEFINE runs == [v \in Worker |-> mem[v].active]
  <2>1. [v \in Worker |-> mem'[v].active] = [runs EXCEPT ![w] = S]
    BY <1>1
  <2>2. others = UNION { runs[v] : v \in Worker \ {w} }
    OBVIOUS
  <2>3. Lifecycle!Exclusive(S \cup others)
    BY <1>5, <1>7 DEF Lifecycle!Exclusive
  <2>4. \A j \in S \cup others : [k \in Job |-> PhaseOf(k)'][j] = "recorded"
    BY <1>5, <1>8
  <2>5. \A j \in Job : Lifecycle!Reaches([k \in Job |-> PhaseOf(k)][j],
                                          [k \in Job |-> PhaseOf(k)'][j])
    BY DEF PhasesAdvance
  <2> HIDE DEF others
  <2> QED BY <1>4, <2>1, <2>2, <2>3, <2>4, <2>5 DEF Lifecycle!Turn
<1> QED BY <1>9 DEF Lifecycle!Next

LEMMA InitImplements == Init => Lifecycle!Init
<1> SUFFICES ASSUME Init PROVE Lifecycle!Init
  OBVIOUS
<1>1. Fresh \in Memory /\ Fresh.active = {}
  BY EmptyTypes DEF Fresh
<1>2. ScheduleHeartbeat(Fresh).active = {}
  <2> DEFINE f == Fresh
  <2> HIDE DEF f
  <2>1. f \in Memory /\ f.active = {}
    BY <1>1 DEF f
  <2>2. ScheduleHeartbeat(f).active = {}
    BY <2>1, ScheduleHeartbeatAgrees DEF Agree
  <2> QED BY <2>2 DEF f
<1>3. [w \in Worker |-> mem[w].active] = [w \in Worker |-> {}]
  BY <1>2 DEF Init
<1>4. \A j \in Job : PhaseOf(j) = "new"
  BY DEF Init, NoRow, PhaseOf
<1> QED BY <1>3, <1>4 DEF Lifecycle!Init

(* A worker's step turns over its handlers, or stutters; an unheld claim's *)
(* ageing is not seen.                                                     *)
LEMMA StepTurns ==
  ASSUME Mode = "leased", lapsed' = {}, Stands, AllTidy, AllTidy', SingleRunner',
         LanesExcluded', AcknowledgedIsStored', [Next]_vars
  PROVE  Founded' /\ [Lifecycle!Next]_(Lifecycle!vars)
<1>1. CASE UNCHANGED vars
  <2>1. Founded'
    BY <1>1 DEF vars, Stands, Founded, Grounded, Creating, Mine
  <2>2. UNCHANGED Lifecycle!vars
    <3>1. \A j \in Job : PhaseOf(j)' = PhaseOf(j)
      BY <1>1 DEF vars, PhaseOf, BeingCreated
    <3>2. mem' = mem
      BY <1>1 DEF vars
    <3> QED BY <3>1, <3>2 DEF Lifecycle!vars
  <2> QED BY <2>1, <2>2
<1>2. CASE Next
  <2>1. Implements
    BY <1>2, StepImplements
  <2>2. /\ TypeOK /\ TypeOK' /\ ClaimsHold' /\ lapsed' = {} /\ Founded' /\ PhasesAdvance
    BY <2>1 DEF Stands, IInv, Implements, Founded
  <2>3. ASSUME NEW w \in Worker, Advances(w) PROVE Lifecycle!Next
    BY <2>2, <2>3, WorkerTurns
  <2>4. ASSUME UNCHANGED mem, \A k \in Job : PhaseOf(k)' = PhaseOf(k)
        PROVE  UNCHANGED Lifecycle!vars
    BY <2>4 DEF Lifecycle!vars
  <2>5. \/ \E w \in Worker : Advances(w)
        \/ UNCHANGED mem /\ \A k \in Job : PhaseOf(k)' = PhaseOf(k)
    BY <1>2, StepImplements
  <2> QED BY <2>2, <2>3, <2>4, <2>5
<1> QED BY <1>1, <1>2

(* A job that is over is never created, saved or claimed again: what is    *)
(* on its way to the table can only be what its removal follows.           *)
THEOREM NothingComesBack ==
  ASSUME Mode = "leased"
  PROVE  Spec /\ [](lapsed = {}) => []Founded
<1>1. Init => Founded
  BY InitFounded
<1>2. IInv /\ IInv' /\ AllTidy /\ (lapsed = {})' /\ Founded /\ [Next]_vars => Founded'
  <2> SUFFICES ASSUME IInv, IInv', AllTidy, lapsed' = {}, Founded, [Next]_vars PROVE Founded'
    OBVIOUS
  <2>1. CASE UNCHANGED vars
    BY <2>1 DEF vars, Founded, Grounded, Creating, Mine
  <2>2. CASE Next
    BY <2>2, StepImplements DEF Stands, Implements
  <2> QED BY <2>1, <2>2
<1>3. TypeOK /\ ClaimsHold => IInv
  BY DEF IInv
<1> QED BY <1>1, <1>2, <1>3, TypeCorrect, ClaimsAlwaysHold, TidyAlways, PTL DEF Spec

(* As long as no lease lapses under a worker that is up, the queues and    *)
(* their table are together the one queue of JobLifecycle: a job is        *)
(* recorded before it runs, runs in one place and alone in its lane, only  *)
(* while it is recorded, and never comes back once it is over, through     *)
(* every crash, restart, adoption, failed store call, cancellation and     *)
(* close, and for any number of workers and jobs.                          *)
THEOREM QueuesImplementLifecycle ==
  ASSUME Mode = "leased"
  PROVE  Spec /\ [](lapsed = {}) => Lifecycle!Spec
<1>1. Init => Lifecycle!Init
  BY InitImplements
<1>2. /\ IInv /\ IInv' /\ Founded /\ AllTidy /\ AllTidy' /\ (lapsed = {})'
      /\ SingleRunner' /\ LanesExcluded' /\ AcknowledgedIsStored' /\ [Next]_vars
      => [Lifecycle!Next]_(Lifecycle!vars)
  BY StepTurns DEF Stands
<1>3. TypeOK /\ ClaimsHold => IInv
  BY DEF IInv
<1> QED BY <1>1, <1>2, <1>3, TypeCorrect, ClaimsAlwaysHold, TidyAlways, NothingComesBack,
        JobRunsOnce, OneCrawlerPerSite, NothingAcknowledgedIsLost, PTL DEF Spec, Lifecycle!Spec

-----------------------------------------------------------------------------
(* What an idle queue leaves in the table.                                 *)

LEMMA SpendsMore ==
  ASSUME TypeOK, NEW kind \in Kinds, Spend(kind)
  PROVE  \A k \in Kinds : used'[k] = 0 => used[k] = 0
<1>1. used \in [Kinds -> Nat] /\ used' = [used EXCEPT ![kind] = @ + 1]
  BY DEF TypeOK, Spend
<1>2. used[kind] \in Nat
  BY <1>1
<1> QED BY <1>1, <1>2

(* What was spent stays spent, and no claim of a worker that is up lapses  *)
(* for nothing.                                                            *)
Spends ==
  /\ \A k \in Kinds : used'[k] = 0 => used[k] = 0
  /\ used'["lapse"] = 0 => lapsed' \subseteq lapsed

LEMMA StepSpends ==
  ASSUME TypeOK, Next
  PROVE  Spends
<1>0. Kinds = {"crash", "lapse", "error", "cancel", "pause", "drain", "close"}
  BY DEF Kinds
<1>1. ASSUME lapsed' \subseteq lapsed,
             used' = used \/ \E kind \in Kinds : Spend(kind)
      PROVE  Spends
  BY <1>1, SpendsMore DEF Spends
<1>2. ASSUME NEW w \in Worker,
             \/ Pause(w) \/ Resume(w) \/ Drain(w) \/ Close(w) \/ Crash(w)
             \/ Boot(w) \/ LoadExecutes(w) \/ LoadFails(w) \/ Recovered(w)
      PROVE  Spends
  <2>1. CASE Pause(w) \/ Drain(w) \/ Close(w) \/ Crash(w) \/ LoadFails(w)
    <3>1. lapsed' \subseteq lapsed /\ \E kind \in Kinds : Spend(kind)
      BY <1>0, <2>1 DEF Pause, Drain, Close, Crash, LoadFails
    <3> QED BY <1>1, <3>1
  <2>2. CASE Resume(w) \/ Boot(w) \/ LoadExecutes(w) \/ Recovered(w)
    BY <1>1, <2>2 DEF Resume, Boot, LoadExecutes, Recovered
  <2> QED BY <1>2, <2>1, <2>2
<1>3. ASSUME NEW w \in Worker, NEW j \in Job,
             \/ Enqueue(w, j) \/ CancelQueued(w, j) \/ CancelRunning(w, j)
             \/ StoreExecutes(w, j) \/ StoreFails(w, j)
             \/ CreateSettles(w, j) \/ WriteSettles(w, j) \/ AcquireSettles(w, j)
             \/ HandlerReturns(w, j) \/ HandlerThrows(w, j) \/ PolicyAnswers(w, j)
             \/ Wake(w, j)
      PROVE  Spends
  <2>1. CASE CancelQueued(w, j) \/ CancelRunning(w, j) \/ StoreFails(w, j)
    <3>1. lapsed' \subseteq lapsed /\ \E kind \in Kinds : Spend(kind)
      BY <1>0, <2>1 DEF CancelQueued, CancelRunning, StoreFails
    <3> QED BY <1>1, <3>1
  <2>2. CASE Enqueue(w, j) \/ StoreExecutes(w, j) \/ CreateSettles(w, j)
             \/ WriteSettles(w, j) \/ AcquireSettles(w, j)
    BY <1>1, <2>2 DEF Enqueue, StoreExecutes, CreateSettles, WriteSettles, AcquireSettles
  <2>3. CASE HandlerReturns(w, j) \/ HandlerThrows(w, j) \/ PolicyAnswers(w, j) \/ Wake(w, j)
    BY <1>1, <2>3 DEF HandlerReturns, HandlerThrows, PolicyAnswers, Wake
  <2> QED BY <1>3, <2>1, <2>2, <2>3
<1>4. ASSUME NEW w \in Worker, NEW b \in Beats,
             \/ BeatStarts(w, b) \/ RenewExecutes(w, b) \/ Renewed(w, b)
             \/ AdoptExecutes(w, b) \/ Adopted(w, b) \/ BeatFails(w, b)
      PROVE  Spends
  <2>1. CASE BeatFails(w, b)
    <3>1. lapsed' \subseteq lapsed /\ \E kind \in Kinds : Spend(kind)
      BY <1>0, <2>1 DEF BeatFails
    <3> QED BY <1>1, <3>1
  <2>2. CASE ~BeatFails(w, b)
    BY <1>1, <1>4, <2>2 DEF BeatStarts, RenewExecutes, Renewed, AdoptExecutes, Adopted
  <2> QED BY <2>1, <2>2
<1>5. ASSUME NEW j \in Job, LeaseAges(j) PROVE Spends
  BY <1>1, <1>5 DEF LeaseAges
<1>6. ASSUME NEW j \in Job, LeaseLapses(j) PROVE Spends
  <2>1. Spend("lapse") /\ "lapse" \in Kinds
    BY <1>0, <1>6 DEF LeaseLapses
  <2>2. used \in [Kinds -> Nat] /\ used' = [used EXCEPT !["lapse"] = @ + 1]
    BY <2>1 DEF TypeOK, Spend
  <2>3. used'["lapse"] # 0
    BY <2>1, <2>2
  <2> QED BY <2>1, <2>3, SpendsMore DEF Spends
<1> QED BY <1>2, <1>3, <1>4, <1>5, <1>6 DEF Next

LEMMA InitPossessed == Init => Possessed
<1> SUFFICES ASSUME Init PROVE Possessed
  OBVIOUS
<1> DEFINE f == Fresh
<1>1. f \in Memory /\ \A k \in Job : f.chain[k] = <<>> /\ f.ent[k] = Unknown
  BY EmptyTypes DEF Fresh
<1> HIDE DEF f
<1>2. ScheduleHeartbeat(f).chain = f.chain /\ ScheduleHeartbeat(f).ent = f.ent
  BY <1>1, ScheduleHeartbeatAgrees DEF Agree
<1>3. \A w \in Worker : mem[w] = ScheduleHeartbeat(f)
  BY DEF Init, f
<1>4. \A w \in Worker, k \in Job : mem[w].chain[k] = <<>> /\ mem[w].ent[k] = Unknown
  BY <1>1, <1>2, <1>3
<1>5. \A k \in Job : row[k].state = "absent"
  BY DEF Init, NoRow
<1>6. \A w \in Worker, k \in Job :
        /\ ~Known(mem[w], k) /\ ~Ended(mem[w], k) /\ ~Creating(mem[w], k)
        /\ mem[w].ent[k].durability # "pending"
  BY <1>4 DEF Known, Ended, Terminal, Creating, Unknown
<1> QED BY <1>5, <1>6 DEF Possessed, Possesses

(* The rows are in good hands as long as no lease lapses under a worker    *)
(* that is up, and every call is answered.                                 *)
RowsInHand ==
  /\ used["lapse"] = 0 => Founded
  /\ (used["lapse"] = 0 /\ used["error"] = 0) => Possessed

LEMMA StepInHand ==
  ASSUME Mode = "leased", IInv, IInv', AllTidy, RowsInHand, Next
  PROVE  RowsInHand'
<1>1. Spends /\ "lapse" \in Kinds /\ "error" \in Kinds
  BY StepSpends, KindsNamed DEF IInv
<1>2. ASSUME used'["lapse"] = 0 PROVE Implements
  <2>1. Founded /\ lapsed' = {}
    BY <1>1, <1>2 DEF Spends, RowsInHand, Founded
  <2> QED BY <2>1, StepImplements DEF Stands
<1>3. used'["lapse"] = 0 => Founded'
  BY <1>2 DEF Implements
<1>4. (used'["lapse"] = 0 /\ used'["error"] = 0) => Possessed'
  BY <1>1, <1>2 DEF Implements, Spends, RowsInHand
<1> QED BY <1>3, <1>4 DEF RowsInHand

LEMMA InHandIsClean ==
  ASSUME Mode = "leased", IInv, AllTidy, RowsInHand
  PROVE  DrainedIsClean
<1> SUFFICES ASSUME NEW w \in Worker, mem[w].up, Idle(mem[w]), mem[w].loading = "no",
                    \A b \in Beats : mem[w].beats[b] = NoBeat,
                    used["error"] = 0, used["lapse"] = 0,
                    NEW j \in Job, row[j].state # "absent", row[j].owner = w
             PROVE  FALSE
  BY DEF DrainedIsClean
<1> DEFINE m == mem[w]
<1>1. /\ Possesses(w, m, row, submitted, j) /\ Housed(m, j) /\ m \in Memory
  BY DEF RowsInHand, Possessed, AllTidy, Tidy, IInv, TypeOK
<1>2. m.up /\ Idle(m) /\ m.loading = "no" /\ \A b \in Beats : m.beats[b] = NoBeat
  OBVIOUS
<1> HIDE DEF m
<1>3. m.ent[j] \in Entry /\ Len(m.chain[j]) \in Nat /\ m.chain[j] \in Seq(Write)
  BY <1>1, ChainTypes
<1>4. ~Coming(m, j)
  BY <1>2 DEF Coming, NoBeat
<1>5. Known(m, j)
  BY <1>1, <1>2, <1>4 DEF Possesses
<1>6. m.ent[j].state \notin {"queued", "running"}
  BY <1>1, <1>2 DEF Housed, Idle
<1>7. Ended(m, j)
  BY <1>3, <1>5, <1>6 DEF Known, Ended, Entry
<1>8. Closing(m.chain[j])
  BY <1>1, <1>7 DEF Possesses
<1>9. Len(m.chain[j]) \in 1..Len(m.chain[j]) /\ m.chain[j][Len(m.chain[j])].op = "remove"
  BY <1>3, <1>8, EmptySeq DEF Closing
<1>10. Writing(m)
  BY <1>9 DEF Writing
<1> QED BY <1>2, <1>10 DEF Idle

(* An idle queue has nothing in the table for a restart to run again:      *)
(* every path by which a job ends removes its row, whoever crashed and     *)
(* whatever was adopted before, as long as no store call failed and no     *)
(* lease lapsed under a worker that was up.                                *)
THEOREM DrainLeavesNothing ==
  ASSUME Mode = "leased"
  PROVE  Spec => []DrainedIsClean
<1>1. Init => RowsInHand
  BY InitFounded, InitPossessed DEF RowsInHand
<1>2. IInv /\ IInv' /\ AllTidy /\ RowsInHand /\ [Next]_vars => RowsInHand'
  <2> SUFFICES ASSUME IInv, IInv', AllTidy, RowsInHand, [Next]_vars PROVE RowsInHand'
    OBVIOUS
  <2>1. CASE UNCHANGED vars
    BY <2>1 DEF vars, RowsInHand, Founded, Grounded, Creating, Mine, Possessed, Possesses,
       Known, Ended, Coming
  <2>2. CASE Next
    BY <2>2, StepInHand
  <2> QED BY <2>1, <2>2
<1>3. TypeOK /\ ClaimsHold => IInv
  BY DEF IInv
<1>4. IInv /\ AllTidy /\ RowsInHand => DrainedIsClean
  BY InHandIsClean
<1> QED BY <1>1, <1>2, <1>3, <1>4, TypeCorrect, ClaimsAlwaysHold, TidyAlways, PTL DEF Spec

=============================================================================
