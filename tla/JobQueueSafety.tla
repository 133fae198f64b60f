--------------------------- MODULE JobQueueSafety ---------------------------
(***************************************************************************)
(* Every action of JobQueue keeps the invariant of JobQueueInv, so that    *)
(* workers that share a namespace on leases never run one job twice, nor   *)
(* two jobs of one lane, and lose nothing they have acknowledged.          *)
(***************************************************************************)
EXTENDS JobQueueTypes

-----------------------------------------------------------------------------
(* The public methods.                                                     *)

LEMMA EnqueueSafe ==
  ASSUME Mode = "leased", IInv, NEW w \in Worker, NEW j \in Job, Enqueue(w, j)
  PROVE  ClaimsHold'
<1> DEFINE m == mem[w]
           e == [Unknown EXCEPT !.state = "queued", !.durability = "pending"]
           f == [m EXCEPT !.ent = [m.ent EXCEPT ![j] = e]]
           created == Persist(f, {j}, "create")
           pushed == Push(created, j)
<1>1. m \in Memory /\ m.up /\ ~Known(m, j)
  BY DEF IInv, TypeOK, Enqueue
<1>2. e \in Entry /\ e.state = "queued" /\ e.durability = "pending"
  BY DEF Unknown, Entry
<1>3. Becomes(w, Pump(pushed)) /\ UNCHANGED <<row, lapsed>>
  <2>1. f = [m EXCEPT !.ent[j] = e]
    BY <1>1 DEF Memory
  <2>2. e = [Unknown EXCEPT !.state = "queued",
                            !.durability = IF Mode = "memory" THEN "none" ELSE "pending"]
    OBVIOUS
  <2> HIDE DEF e, f
  <2> QED BY <2>1, <2>2 DEF Enqueue
<1> HIDE DEF m, e
<1>4. ASSUME Good(w, m, row) PROVE Good(w, Pump(pushed), row) /\ NoNewLanes(m, Pump(pushed))
  <2>1. /\ Good(w, created, row) /\ NoNewLanes(m, created)
        /\ created.ent[j].state = "queued" /\ j \notin created.starting
    BY <1>1, <1>2, <1>4, CreatedKeeps
  <2> HIDE DEF created
  <2>2. Good(w, pushed, row) /\ NoNewLanes(created, pushed)
    BY <2>1, PushKeeps
  <2> HIDE DEF pushed
  <2>3. Good(w, Pump(pushed), row) /\ NoNewLanes(pushed, Pump(pushed))
    BY <2>2, PumpKeeps
  <2> QED BY <2>1, <2>2, <2>3 DEF NoNewLanes
<1> HIDE DEF pushed
<1> QED BY <1>1, <1>3, <1>4, MemoryKeeps DEF m

(* #settle of one job that is in none of the collections, and a #pump.     *)
LEMMA SettlePump ==
  ASSUME Mode = "leased", NEW w \in Worker, NEW r, NEW m, Good(w, m, r), NEW j \in Job,
         NEW state \in Terminal, j \notin m.queue, j \notin m.active, j \notin m.deciding
  PROVE  LET n == Pump(Settle(m, {j}, state))
         IN Good(w, n, r) /\ NoNewLanes(m, n)
<1> DEFINE S == {j}
           settled == Settle(m, S, state)
<1>1. S \in SUBSET Job /\ S \cap (m.queue \cup m.active \cup m.deciding) = {}
  OBVIOUS
<1> HIDE DEF S
<1>2. Good(w, settled, r) /\ NoNewLanes(m, settled)
  BY <1>1, SettleKeeps
<1> HIDE DEF settled
<1>3. Good(w, Pump(settled), r) /\ NoNewLanes(settled, Pump(settled))
  BY <1>2, PumpKeeps
<1>4. Good(w, Pump(settled), r) /\ NoNewLanes(m, Pump(settled))
  BY <1>2, <1>3 DEF NoNewLanes
<1> QED BY <1>4 DEF settled, S

LEMMA CancelQueuedSafe ==
  ASSUME Mode = "leased", IInv, NEW w \in Worker, NEW j \in Job, CancelQueued(w, j)
  PROVE  ClaimsHold'
<1> DEFINE m == mem[w]
           pulled == Pull(m, {j})
           state == "cancelled"
           n == Pump(Settle(pulled, {j}, state))
<1>1. m \in Memory /\ m.up /\ m.ent[j].state = "queued"
  BY DEF IInv, TypeOK, CancelQueued
<1>2. Becomes(w, n) /\ UNCHANGED <<row, lapsed>>
  BY DEF CancelQueued
<1>3. state \in Terminal
  BY DEF Terminal
<1> HIDE DEF m, state
<1>4. ASSUME Good(w, m, row) PROVE Good(w, n, row) /\ NoNewLanes(m, n)
  <2> DEFINE S == {j}
  <2>1. S \in SUBSET Job
    OBVIOUS
  <2>2. Good(w, pulled, row) /\ NoNewLanes(m, pulled)
    <3> HIDE DEF S
    <3>1. Good(w, Pull(m, S), row) /\ NoNewLanes(m, Pull(m, S))
      BY <1>4, <2>1, PullKeeps
    <3> QED BY <3>1 DEF S
  <2>3. pulled.queue = m.queue \ S /\ pulled.active = m.active /\ pulled.deciding = m.deciding
    <3> HIDE DEF S
    <3>1. Pull(m, S).queue = m.queue \ S /\ Pull(m, S).active = m.active
          /\ Pull(m, S).deciding = m.deciding
      BY <1>1, <2>1, PullFields
    <3> QED BY <3>1 DEF S
  <2>4. j \notin m.active /\ j \notin m.deciding
    BY <1>1, <1>4 DEF Good, WorkerInv, JobInv, Placed
  <2> HIDE DEF pulled
  <2>5. Good(w, n, row) /\ NoNewLanes(pulled, n)
    BY <1>3, <2>2, <2>3, <2>4, SettlePump
  <2> QED BY <2>2, <2>5 DEF NoNewLanes
<1> HIDE DEF n
<1> QED BY <1>1, <1>2, <1>4, MemoryKeeps DEF m

LEMMA CancelRunningSafe ==
  ASSUME IInv, NEW w \in Worker, NEW j \in Job, CancelRunning(w, j)
  PROVE  ClaimsHold'
<1> DEFINE m == mem[w]
           e == [m.ent[j] EXCEPT !.cancelRequested = TRUE]
           n == [m EXCEPT !.ent = [m.ent EXCEPT ![j] = e]]
<1>1. m \in Memory /\ m.up
  BY DEF IInv, TypeOK, CancelRunning
<1>2. /\ e \in Entry /\ e.state = m.ent[j].state /\ e.attempt = m.ent[j].attempt
      /\ e.durability = m.ent[j].durability
  <2>1. m.ent[j] \in Entry
    BY <1>1 DEF Memory
  <2> QED BY <2>1 DEF Entry
<1>3. Becomes(w, n) /\ UNCHANGED <<row, lapsed>>
  <2>1. n = [m EXCEPT !.ent[j].cancelRequested = TRUE]
    BY <1>1 DEF Memory
  <2> HIDE DEF n
  <2> QED BY <2>1 DEF CancelRunning
<1> HIDE DEF m, e
<1>4. ASSUME Good(w, m, row) PROVE Good(w, n, row) /\ NoNewLanes(m, n)
  BY <1>2, <1>4, EntryKeeps
<1> HIDE DEF n
<1> QED BY <1>1, <1>3, <1>4, MemoryKeeps DEF m

LEMMA PauseSafe ==
  ASSUME Mode = "leased", IInv, NEW w \in Worker, Pause(w) \/ Resume(w) \/ Drain(w)
  PROVE  ClaimsHold'
<1> DEFINE m == mem[w]
           paused == [m EXCEPT !.paused = TRUE]
           resumed == [m EXCEPT !.paused = FALSE]
           drain == [m EXCEPT !.drain = Awaited(m)]
<1>1. m \in Memory /\ m.up /\ UNCHANGED <<row, lapsed>>
  BY DEF IInv, TypeOK, Pause, Resume, Drain
<1>2. paused \in Memory /\ resumed \in Memory /\ drain \in Memory /\ Agree(m, drain)
  <2>1. paused \in Memory
    BY <1>1 DEF Memory
  <2>2. resumed \in Memory
    BY <1>1 DEF Memory
  <2>3. drain \in Memory /\ Agree(m, drain)
    BY <1>1, DrainAgrees
  <2> QED BY <2>1, <2>2, <2>3
<1>3. /\ Pause(w) => Becomes(w, paused)
      /\ Resume(w) => Becomes(w, Pump(resumed)) /\ m.loading = "no"
      /\ Drain(w) => Becomes(w, drain)
  BY DEF Pause, Resume, Drain
<1> HIDE DEF m, drain
<1>4. CASE Pause(w)
  <2>1. ASSUME Good(w, m, row) PROVE Good(w, paused, row) /\ NoNewLanes(m, paused)
    <3>1. /\ paused.up = m.up /\ paused.ent = m.ent /\ paused.chain = m.chain
          /\ paused.queue = m.queue /\ paused.starting = m.starting
          /\ paused.active = m.active /\ paused.deciding = m.deciding
          /\ paused.beats = m.beats /\ paused.loaded = m.loaded
          /\ paused.loading = m.loading /\ paused.paused
      BY <1>1 DEF Memory
    <3> HIDE DEF paused
    <3> QED BY <1>1, <1>2, <2>1, <3>1, FlagsKeep
  <2> HIDE DEF paused
  <2> QED BY <1>1, <1>3, <1>4, <2>1, MemoryKeeps DEF m
<1>5. CASE Resume(w)
  <2>1. ASSUME Good(w, m, row) PROVE Good(w, Pump(resumed), row) /\ NoNewLanes(m, Pump(resumed))
    <3>1. /\ resumed.up = m.up /\ resumed.ent = m.ent /\ resumed.chain = m.chain
          /\ resumed.queue = m.queue /\ resumed.starting = m.starting
          /\ resumed.active = m.active /\ resumed.deciding = m.deciding
          /\ resumed.beats = m.beats /\ resumed.loaded = m.loaded
          /\ resumed.loading = "no"
      BY <1>1, <1>3, <1>5 DEF Memory
    <3> HIDE DEF resumed
    <3>2. Good(w, resumed, row) /\ NoNewLanes(m, resumed)
      BY <1>1, <1>2, <2>1, <3>1, FlagsKeep
    <3>3. Good(w, Pump(resumed), row) /\ NoNewLanes(resumed, Pump(resumed))
      BY <3>2, PumpKeeps
    <3> QED BY <3>2, <3>3 DEF NoNewLanes
  <2> HIDE DEF resumed
  <2> QED BY <1>1, <1>3, <1>5, <2>1, MemoryKeeps DEF m
<1>6. CASE Drain(w)
  <2>1. ASSUME Good(w, m, row) PROVE Good(w, drain, row) /\ NoNewLanes(m, drain)
    <3>1. m.loading # "no" => m.paused
      BY <2>1 DEF Good, WorkerInv
    <3> QED BY <1>1, <1>2, <2>1, <3>1, FlagsKeep DEF Agree
  <2> QED BY <1>1, <1>3, <1>6, <2>1, MemoryKeeps DEF m
<1> QED BY <1>4, <1>5, <1>6

LEMMA CloseSafe ==
  ASSUME Mode = "leased", IInv, NEW w \in Worker, Close(w)
  PROVE  ClaimsHold'
<1> DEFINE m == mem[w]
           waiting == m.queue \cup { j \in m.starting : m.ent[j].state = "queued" }
           shut == [m EXCEPT !.closed = TRUE, !.paused = TRUE, !.timer = FALSE,
                             !.ent = [j \in Job |-> IF j \in m.active
                                                    THEN [@[j] EXCEPT !.cancelRequested = TRUE]
                                                    ELSE @[j]]]
           pulled == Pull(shut, waiting)
           state == "cancelled"
           settled == Settle(pulled, waiting, state)
           told == IF waiting = {} THEN settled ELSE CheckIdle(settled)
           n == [told EXCEPT !.close = Awaited(told)]
<1>1. m \in Memory /\ m.up /\ m.loading = "no"
  BY DEF IInv, TypeOK, Close
<1>2. Becomes(w, n) /\ UNCHANGED <<row, lapsed>>
  BY DEF Close
<1>3. state \in Terminal
  BY DEF Terminal
<1>4. waiting \in SUBSET Job
  BY <1>1 DEF Memory
<1>5. /\ shut \in Memory /\ shut.up /\ shut.chain = m.chain /\ shut.queue = m.queue
      /\ shut.starting = m.starting /\ shut.active = m.active
      /\ shut.deciding = m.deciding /\ shut.beats = m.beats /\ shut.loaded = m.loaded
      /\ shut.loading = m.loading /\ shut.paused
      /\ \A j \in Job : /\ shut.ent[j].state = m.ent[j].state
                        /\ shut.ent[j].attempt = m.ent[j].attempt
                        /\ shut.ent[j].durability = m.ent[j].durability
  <2> DEFINE f == [j \in Job |-> IF j \in m.active
                                 THEN [m.ent[j] EXCEPT !.cancelRequested = TRUE]
                                 ELSE m.ent[j]]
  <2>1. \A j \in Job : /\ f[j] \in Entry /\ f[j].state = m.ent[j].state
                       /\ f[j].attempt = m.ent[j].attempt
                       /\ f[j].durability = m.ent[j].durability
    <3> TAKE j \in Job
    <3>1. m.ent[j] \in Entry
      BY <1>1 DEF Memory
    <3> QED BY <3>1 DEF Entry
  <2>2. f \in [Job -> Entry]
    BY <2>1
  <2>3. shut = [m EXCEPT !.closed = TRUE, !.paused = TRUE, !.timer = FALSE,
                         !.ent = f]
    OBVIOUS
  <2> HIDE DEF f, shut, m
  <2> QED BY <1>1, <2>1, <2>2, <2>3 DEF Memory
<1> HIDE DEF state, shut
<1>6. ASSUME Good(w, m, row) PROVE Good(w, n, row) /\ NoNewLanes(m, n)
  <2> DEFINE W == waiting
  <2>1. \A j \in W : j \notin m.active /\ j \notin m.deciding
    BY <1>1, <1>4, <1>6 DEF Good, WorkerInv, JobInv, Placed
  <2> HIDE DEF m, W
  <2>2. Good(w, shut, row) /\ NoNewLanes(m, shut)
    BY <1>1, <1>5, <1>6, FlagsKeep
  <2>3. W \in SUBSET Job
    BY <1>4 DEF W, m
  <2>4. Good(w, Pull(shut, W), row) /\ NoNewLanes(shut, Pull(shut, W))
    BY <2>2, <2>3, PullKeeps
  <2>5. /\ Pull(shut, W).queue = m.queue \ W /\ Pull(shut, W).active = m.active
        /\ Pull(shut, W).deciding = m.deciding
    BY <1>5, <2>3, PullFields
  <2> DEFINE p == Pull(shut, W)
             s == Settle(p, W, state)
  <2>6. W \cap (p.queue \cup p.active \cup p.deciding) = {}
    BY <2>1, <2>5
  <2>7. Good(w, p, row) /\ NoNewLanes(shut, p)
    BY <2>4
  <2> HIDE DEF p
  <2>8. Good(w, s, row) /\ NoNewLanes(p, s)
    BY <1>3, <2>3, <2>6, <2>7, SettleKeeps
  <2> HIDE DEF s
  <2> DEFINE t == IF W = {} THEN s ELSE CheckIdle(s)
             last == [t EXCEPT !.close = Awaited(t)]
  <2>9. s \in Memory /\ last \in Memory /\ Agree(s, last)
    <3>1. s \in Memory
      BY <2>8 DEF Good, WorkerInv
    <3> QED BY <3>1, CloseAgrees
  <2> HIDE DEF last
  <2>10. Good(w, last, row) /\ NoNewLanes(s, last)
    <3>1. Good(w, s, row) /\ s.up
      BY <2>8 DEF Good
    <3>2. s.loading # "no" => s.paused
      BY <2>8 DEF Good, WorkerInv
    <3> HIDE DEF t
    <3>3. /\ last \in Memory /\ last.up = s.up /\ last.chain = s.chain /\ last.queue = s.queue
          /\ last.starting = s.starting /\ last.active = s.active
          /\ last.deciding = s.deciding /\ last.beats = s.beats
          /\ last.ent = s.ent /\ last.loaded = s.loaded /\ last.loading = s.loading
          /\ last.paused = s.paused
      BY <2>9 DEF Agree
    <3> HIDE DEF last
    <3> QED BY <3>1, <3>2, <3>3, FlagsKeep
  <2>11. Good(w, last, row) /\ NoNewLanes(m, last)
    BY <2>2, <2>7, <2>8, <2>10 DEF NoNewLanes
  <2> QED BY <2>11 DEF last, t, s, p, W, m
<1> HIDE DEF n
<1> QED BY <1>1, <1>2, <1>6, MemoryKeeps

-----------------------------------------------------------------------------
(* The answers to a chain's calls.                                         *)

LEMMA CreateSettlesSafe ==
  ASSUME Mode = "leased", IInv, NEW w \in Worker, NEW j \in Job, CreateSettles(w, j)
  PROVE  ClaimsHold'
<1> DEFINE m == mem[w]
           d == DropHead(m, j)
           stored == [d EXCEPT !.ent[j].durability = "stored"]
           state == "failed"
           settled == Settle(Pull(d, {j}), {j}, state)
           refused == IF d.ent[j].state \in Terminal THEN d ELSE settled
           said == m.chain[j][1].answer = "ok"
           n == Pump(IF said THEN stored ELSE refused)
<1>1. /\ m \in Memory /\ m.up /\ m.chain[j] # <<>> /\ m.chain[j][1].op = "create"
  BY DEF IInv, TypeOK, CreateSettles, Answered
<1>2. Becomes(w, n) /\ UNCHANGED <<row, lapsed>>
  BY DEF CreateSettles
<1>3. /\ d \in Memory /\ AgreeAround(m, d) /\ Dropped(m, d, j)
      /\ d.ent = m.ent /\ d.queue = m.queue /\ d.starting = m.starting
      /\ d.active = m.active /\ d.deciding = m.deciding
  BY <1>1, DropFields
<1>4. state \in Terminal
  BY DEF Terminal
<1>5. /\ stored \in Memory /\ AgreeAround(m, stored) /\ Dropped(m, stored, j)
      /\ stored.queue = m.queue /\ stored.starting = m.starting
      /\ stored.active = m.active /\ stored.deciding = m.deciding
      /\ stored.ent[j].durability = "stored" /\ stored.ent[j].state = m.ent[j].state
      /\ stored.ent[j].attempt = m.ent[j].attempt
      /\ \A k \in Job : k # j => stored.ent[k] = m.ent[k]
  <2> DEFINE e == [d.ent[j] EXCEPT !.durability = "stored"]
             f == [d.ent EXCEPT ![j] = e]
  <2>1. d.ent[j] \in Entry
    BY <1>3 DEF Memory
  <2>2. e \in Entry /\ e.durability = "stored" /\ e.state = d.ent[j].state
        /\ e.attempt = d.ent[j].attempt
    BY <2>1 DEF Entry
  <2>3. stored = [d EXCEPT !.ent = f]
    BY <1>3 DEF Memory
  <2>4. d.ent \in [Job -> Entry]
    BY <1>3 DEF Memory
  <2> HIDE DEF d, e
  <2>5. f \in [Job -> Entry] /\ f[j] = e /\ \A k \in Job : k # j => f[k] = d.ent[k]
    BY <2>2, <2>4
  <2> HIDE DEF f, stored, m
  <2>6. stored \in Memory
    BY <1>3, <2>3, <2>5 DEF Memory
  <2>7. /\ stored.ent = f /\ stored.queue = d.queue /\ stored.starting = d.starting
        /\ stored.active = d.active /\ stored.deciding = d.deciding
        /\ stored.chain = d.chain /\ stored.up = d.up /\ stored.paused = d.paused
        /\ stored.loading = d.loading /\ stored.loaded = d.loaded /\ stored.beats = d.beats
    BY <1>3, <2>3 DEF Memory
  <2> QED BY <1>3, <2>2, <2>5, <2>6, <2>7 DEF AgreeAround, Dropped
<1> HIDE DEF state, stored, d
<1>6. ASSUME Good(w, m, row) PROVE Good(w, n, row) /\ NoNewLanes(m, n)
  <2>1. CASE said
    <3>1. SaidYes(m.chain[j], "create")
      BY <1>1, <2>1 DEF SaidYes
    <3> HIDE DEF m
    <3>2. Good(w, stored, row) /\ NoNewLanes(m, stored)
      BY <1>5, <1>6, <3>1, StoredKeeps
    <3>3. Good(w, Pump(stored), row) /\ NoNewLanes(stored, Pump(stored))
      BY <3>2, PumpKeeps
    <3> QED BY <2>1, <3>2, <3>3 DEF NoNewLanes
  <2>2. CASE ~said
    <3> HIDE DEF m
    <3>1. Good(w, d, row) /\ NoNewLanes(m, d)
      <4>1. m.chain[j][1].op # "acquire"
        BY <1>1
      <4> QED BY <1>1, <1>6, <4>1, DropKeeps DEF d
    <3>2. CASE d.ent[j].state \in Terminal
      <4>1. Good(w, Pump(d), row) /\ NoNewLanes(d, Pump(d))
        BY <3>1, PumpKeeps
      <4> QED BY <2>2, <3>1, <3>2, <4>1 DEF NoNewLanes
    <3>3. CASE d.ent[j].state \notin Terminal
      <4> DEFINE S == {j}
                 p == Pull(d, S)
      <4>1. j \notin m.active /\ j \notin m.deciding
        <5>1. Placed(m, j) /\ Chained(m, j)
          BY <1>6 DEF Good, WorkerInv, JobInv
        <5>2. m.chain[j] \in Seq(Write)
          BY <1>1 DEF Memory
        <5>3. 1 \in 1..Len(m.chain[j])
          BY <1>1, <5>2
        <5>4. m.ent[j].durability = "pending"
          BY <1>1, <5>1, <5>3 DEF Chained, ChainShape
        <5> QED BY <5>1, <5>4 DEF Placed
      <4>2. S \in SUBSET Job
        OBVIOUS
      <4>3. p.queue = d.queue \ S /\ p.active = d.active /\ p.deciding = d.deciding
        <5> HIDE DEF S
        <5> QED BY <1>3, <4>2, PullFields
      <4>4. Good(w, p, row) /\ NoNewLanes(d, p)
        <5> HIDE DEF S
        <5> QED BY <3>1, <4>2, PullKeeps
      <4>5. j \notin p.queue /\ j \notin p.active /\ j \notin p.deciding
        BY <1>3, <4>1, <4>3
      <4>6. settled = Settle(p, {j}, state)
        OBVIOUS
      <4> HIDE DEF p, settled
      <4>7. Good(w, Pump(settled), row) /\ NoNewLanes(p, Pump(settled))
        BY <1>4, <4>4, <4>5, <4>6, SettlePump
      <4> QED BY <2>2, <3>1, <3>3, <4>4, <4>7 DEF NoNewLanes
    <3> QED BY <3>2, <3>3
  <2> QED BY <2>1, <2>2
<1> HIDE DEF n
<1> QED BY <1>1, <1>2, <1>6, MemoryKeeps

LEMMA WriteSettlesSafe ==
  ASSUME Mode = "leased", IInv, NEW w \in Worker, NEW j \in Job, WriteSettles(w, j)
  PROVE  ClaimsHold'
<1> DEFINE m == mem[w]
           d == DropHead(m, j)
           S == {j}
           lost == m.chain[j][1].answer = "lost"
           told == IF lost THEN Lose(d, S) ELSE d
           n == CheckIdle(told)
<1>1. /\ m \in Memory /\ m.up /\ m.chain[j] # <<>>
      /\ m.chain[j][1].op \in {"save", "remove"}
  BY DEF IInv, TypeOK, WriteSettles, Answered
<1>2. Becomes(w, n) /\ UNCHANGED <<row, lapsed>>
  BY DEF WriteSettles
<1> HIDE DEF m
<1>3. d \in Memory /\ d.ent = m.ent
  BY <1>1, DropFields
<1> HIDE DEF d
<1>4. ASSUME Good(w, m, row) PROVE Good(w, n, row) /\ NoNewLanes(m, n)
  <2>1. Good(w, d, row) /\ NoNewLanes(m, d)
    BY <1>1, <1>4, DropKeeps DEF d
  <2>2. Good(w, told, row) /\ NoNewLanes(d, told)
    <3>1. CASE ~lost
      BY <2>1, <3>1 DEF NoNewLanes
    <3>2. CASE lost
      <4>1. m.chain[j] \in Seq(Write) /\ ChainShape(m.chain[j], m.ent[j], j \in m.starting)
        BY <1>1, <1>4 DEF Memory, Good, WorkerInv, JobInv, Chained
      <4>2. 1 \in 1..Len(m.chain[j])
        BY <1>1, <4>1
      <4>3. m.ent[j].state \in Terminal
        BY <1>1, <3>2, <4>1, <4>2 DEF ChainShape
      <4>4. \A k \in S : d.ent[k].state \notin {"queued", "running"}
        BY <1>3, <4>3 DEF Terminal
      <4>5. S \in SUBSET Job
        OBVIOUS
      <4> HIDE DEF S
      <4>6. Lose(d, S) \in Memory /\ Agree(d, Lose(d, S))
        BY <1>3, <4>4, <4>5, LoseNothing
      <4>7. Good(w, Lose(d, S), row) /\ NoNewLanes(d, Lose(d, S))
        BY <2>1, <4>6, AgreeKeeps
      <4> QED BY <3>2, <4>7
    <3> QED BY <3>1, <3>2
  <2> HIDE DEF told
  <2>3. Good(w, n, row) /\ NoNewLanes(told, n)
    BY <2>2, CheckIdleKeeps
  <2> QED BY <2>1, <2>2, <2>3 DEF NoNewLanes
<1> HIDE DEF n
<1> QED BY <1>1, <1>2, <1>4, MemoryKeeps DEF m

LEMMA AcquireSettlesSafe ==
  ASSUME Mode = "leased", IInv, NEW w \in Worker, NEW j \in Job, AcquireSettles(w, j)
  PROVE  ClaimsHold'
<1> DEFINE m == mem[w]
           S == {j}
           answer == Head(m.chain[j]).answer
           d == DropHead(m, j)
           told == IF answer = "lost" THEN Lose(d, S) ELSE d
           freed == [told EXCEPT !.starting = @ \ {j}, !.busy = @ \ {LaneOf[j]}]
           waits == [freed EXCEPT !.ent[j].waiting = TRUE]
           back == Push(waits, j)
           n == CASE freed.ent[j].state \in Terminal -> Pump(freed)
                  [] freed.ent[j].state \notin Terminal /\ answer = "ok" -> RunClaimed(freed, j)
                  [] OTHER -> Pump(back)
<1>1. m \in Memory /\ m.up /\ m.chain[j] # <<>> /\ m.chain[j][1].op = "acquire"
      /\ answer = m.chain[j][1].answer
  <2>1. mem[w].up /\ Answered(mem[w], j) /\ Head(mem[w].chain[j]).op = "acquire"
    BY Zenon DEF AcquireSettles
  <2>2. m \in Memory
    BY DEF IInv, TypeOK
  <2>3. m.chain[j] \in Seq(Write) /\ m.chain[j] # <<>>
    BY <2>1, <2>2 DEF Memory, Answered
  <2> HIDE DEF n, back, waits, freed, told, d, S
  <2> QED BY <2>1, <2>2, <2>3
<1>2. Becomes(w, n) /\ UNCHANGED <<row, lapsed>>
  BY ZenonT(30) DEF AcquireSettles
<1> HIDE DEF m, answer
<1>3. /\ d \in Memory /\ AgreeAround(m, d) /\ Dropped(m, d, j)
      /\ d.ent = m.ent /\ d.queue = m.queue /\ d.starting = m.starting
      /\ d.active = m.active /\ d.deciding = m.deciding
  BY <1>1, DropFields
<1> HIDE DEF d
<1>4. ASSUME Good(w, m, row) PROVE Good(w, n, row) /\ NoNewLanes(m, n)
  <2>1. m.chain[j] \in Seq(Write) /\ JobInv(w, m, row, j)
    BY <1>1, <1>4 DEF Memory, Good, WorkerInv
  <2>2. 1 \in 1..Len(m.chain[j])
    BY <1>1, <2>1
  <2>3. told \in Memory /\ Agree(d, told)
    <3>1. CASE answer # "lost"
      BY <1>3, <3>1 DEF Agree
    <3>2. CASE answer = "lost"
      <4>1. m.ent[j].state \in Terminal
        BY <1>1, <2>1, <2>2, <3>2 DEF JobInv, Chained, ChainShape
      <4>2. \A k \in S : d.ent[k].state \notin {"queued", "running"}
        BY <1>3, <4>1 DEF Terminal
      <4>3. S \in SUBSET Job
        OBVIOUS
      <4> HIDE DEF S
      <4>4. Lose(d, S) \in Memory /\ Agree(d, Lose(d, S))
        BY <1>3, <4>2, <4>3, LoseNothing
      <4> QED BY <3>2, <4>4
    <3> QED BY <3>1, <3>2
  <2> HIDE DEF told
  <2>4. /\ freed \in Memory /\ AgreeAround(m, freed) /\ Dropped(m, freed, j)
        /\ freed.ent = m.ent /\ freed.queue = m.queue /\ freed.starting = m.starting \ {j}
        /\ freed.active = m.active /\ freed.deciding = m.deciding
    <3>1. freed \in Memory
      BY <2>3 DEF Memory
    <3>2. /\ freed.up = told.up /\ freed.ent = told.ent /\ freed.queue = told.queue
          /\ freed.starting = told.starting \ {j}
          /\ freed.active = told.active /\ freed.deciding = told.deciding
          /\ freed.chain = told.chain /\ freed.paused = told.paused
          /\ freed.loading = told.loading /\ freed.loaded = told.loaded
          /\ freed.beats = told.beats
      BY <2>3 DEF Memory
    <3> HIDE DEF freed
    <3> QED BY <1>3, <2>3, <3>1, <3>2 DEF Agree, AgreeAround, Dropped
  <2> HIDE DEF freed
  <2>5. /\ Good(w, freed, row) /\ NoNewLanes(m, freed)
        /\ ~Ended(m, j) => /\ freed.chain[j] = <<>> /\ freed.ent[j].state = "queued"
                           /\ freed.ent[j].durability = "stored" /\ j \notin freed.queue
        /\ j \in m.starting /\ j \notin freed.starting
    BY <1>1, <1>4, <2>4, FreedKeeps
  <2>6. CASE freed.ent[j].state \in Terminal
    <3>1. Good(w, Pump(freed), row) /\ NoNewLanes(freed, Pump(freed))
      BY <2>5, PumpKeeps
    <3>2. n = Pump(freed)
      BY <2>6
    <3> QED BY <2>5, <3>1, <3>2 DEF NoNewLanes
  <2>7. CASE freed.ent[j].state \notin Terminal /\ answer = "ok"
    <3>1. ~Ended(m, j) /\ SaidYes(m.chain[j], "acquire")
      BY <1>1, <2>4, <2>7 DEF Ended, SaidYes
    <3>2. row[j].state = "running" /\ row[j].attempt = m.ent[j].attempt + 1
      BY <2>1, <3>1 DEF JobInv, Backed
    <3>3. freed.loading = "no"
      <4>1. m.loading = "no"
        BY <1>4, <2>5 DEF Good, WorkerInv
      <4> QED BY <2>4, <4>1 DEF AgreeAround
    <3>4. /\ Good(w, RunClaimed(freed, j), row)
          /\ \A k \in Job : k # j => (Granted(RunClaimed(freed, j), k) => Granted(freed, k))
      BY <2>4, <2>5, <3>1, <3>2, <3>3, RunClaimedKeeps
    <3>5. n = RunClaimed(freed, j)
      BY <2>7
    <3>6. \A k \in Job : k # j => (Granted(n, k) => Granted(m, k))
      BY <2>5, <3>4, <3>5 DEF NoNewLanes
    <3>7. Granted(n, j) => Granted(m, j)
      BY <2>5, <3>1 DEF Granted
    <3> QED BY <3>4, <3>5, <3>6, <3>7 DEF NoNewLanes
  <2>8. CASE freed.ent[j].state \notin Terminal /\ answer # "ok"
    <3>1. ~Ended(m, j)
      BY <2>4, <2>8 DEF Ended
    <3> DEFINE e == [freed.ent[j] EXCEPT !.waiting = TRUE]
               x == [freed EXCEPT !.ent = [freed.ent EXCEPT ![j] = e]]
    <3>2. freed.ent[j] \in Entry
      BY <2>4 DEF Memory
    <3>3. /\ e \in Entry /\ e.state = freed.ent[j].state
          /\ e.attempt = freed.ent[j].attempt /\ e.durability = freed.ent[j].durability
      BY <3>2 DEF Entry
    <3>4. waits = x
      BY <2>4 DEF Memory
    <3>5. x.ent[j].state = "queued" /\ j \notin x.starting
      BY <2>4, <2>5, <3>1, <3>3 DEF Memory
    <3> HIDE DEF e, waits
    <3>6. Good(w, x, row) /\ NoNewLanes(freed, x)
      BY <2>5, <3>3, EntryKeeps
    <3> HIDE DEF x
    <3>7. Good(w, back, row) /\ NoNewLanes(x, back)
      BY <3>4, <3>5, <3>6, PushKeeps
    <3> HIDE DEF back
    <3>8. Good(w, Pump(back), row) /\ NoNewLanes(back, Pump(back))
      BY <3>7, PumpKeeps
    <3>9. n = Pump(back)
      BY <2>8
    <3> QED BY <2>5, <3>6, <3>7, <3>8, <3>9 DEF NoNewLanes
  <2> QED BY <2>6, <2>7, <2>8
<1> HIDE DEF n
<1> QED BY <1>1, <1>2, <1>4, MemoryKeeps DEF m

-----------------------------------------------------------------------------
(* The handler, the policy and the wake timer.                             *)

LEMMA HandlerSafe ==
  ASSUME Mode = "leased", IInv, NEW w \in Worker, NEW j \in Job,
         HandlerReturns(w, j) \/ HandlerThrows(w, j)
  PROVE  ClaimsHold'
<1> DEFINE m == mem[w]
           freed == Released(m, j)
           asked == [freed EXCEPT !.deciding = @ \cup {j}]
<1>1. m \in Memory /\ m.up /\ j \in m.active /\ UNCHANGED <<row, lapsed>>
  BY DEF IInv, TypeOK, HandlerReturns, HandlerThrows
<1>2. \/ \E state \in Terminal : Becomes(w, Pump(Settle(freed, {j}, state)))
      \/ Becomes(w, asked)
  <2>1. "failed" \in Terminal /\ "cancelled" \in Terminal /\ "complete" \in Terminal
    BY DEF Terminal
  <2>2. CASE HandlerReturns(w, j)
    BY <2>1, <2>2 DEF HandlerReturns
  <2>3. CASE HandlerThrows(w, j)
    BY <2>1, <2>3 DEF HandlerThrows
  <2> QED BY <2>2, <2>3
<1> HIDE DEF m
<1>3. ASSUME Good(w, m, row)
      PROVE  /\ Good(w, freed, row) /\ NoNewLanes(m, freed)
             /\ j \notin freed.queue /\ j \notin freed.active /\ j \notin freed.deciding
             /\ freed.ent[j].state = "running"
  <2>1. Placed(m, j)
    BY <1>3 DEF Good, WorkerInv, JobInv
  <2>2. j \notin m.queue /\ j \notin m.deciding /\ m.ent[j].state = "running"
    BY <1>1, <2>1 DEF Placed
  <2>3. /\ freed.queue = m.queue /\ freed.deciding = m.deciding /\ freed.ent = m.ent
        /\ freed.active = m.active \ {j}
    BY <1>1 DEF Released, Memory
  <2>4. Good(w, freed, row) /\ NoNewLanes(m, freed)
    BY <1>3, ReleasedKeeps
  <2> QED BY <2>2, <2>3, <2>4
<1> HIDE DEF freed
<1>4. ASSUME NEW state \in Terminal, Becomes(w, Pump(Settle(freed, {j}, state)))
      PROVE  ClaimsHold'
  <2> DEFINE n == Pump(Settle(freed, {j}, state))
  <2>1. ASSUME Good(w, m, row) PROVE Good(w, n, row) /\ NoNewLanes(m, n)
    <3>1. Good(w, n, row) /\ NoNewLanes(freed, n)
      BY <1>3, <2>1, SettlePump
    <3> HIDE DEF n
    <3> QED BY <1>3, <2>1, <3>1 DEF NoNewLanes
  <2>2. Becomes(w, n)
    BY <1>4
  <2> HIDE DEF n
  <2> QED BY <1>1, <2>1, <2>2, MemoryKeeps DEF m
<1>5. ASSUME Becomes(w, asked)
      PROVE  ClaimsHold'
  <2>1. ASSUME Good(w, m, row) PROVE Good(w, asked, row) /\ NoNewLanes(m, asked)
    <3>1. Good(w, asked, row) /\ NoNewLanes(freed, asked)
      BY <1>3, <2>1, DecidingKeeps
    <3> HIDE DEF asked
    <3> QED BY <1>3, <2>1, <3>1 DEF NoNewLanes
  <2> HIDE DEF asked
  <2> QED BY <1>1, <1>5, <2>1, MemoryKeeps DEF m
<1> QED BY <1>2, <1>4, <1>5

LEMMA PolicyAnswersSafe ==
  ASSUME Mode = "leased", IInv, NEW w \in Worker, NEW j \in Job, PolicyAnswers(w, j)
  PROVE  ClaimsHold'
<1> DEFINE m == mem[w]
           decided == [m EXCEPT !.deciding = @ \ {j}]
<1>1. m \in Memory /\ m.up /\ j \in m.deciding /\ UNCHANGED <<row, lapsed>>
  BY DEF IInv, TypeOK, PolicyAnswers
<1>2. \/ \E state \in Terminal : Becomes(w, Pump(Settle(decided, {j}, state)))
      \/ Becomes(w, Pump(Requeue(decided, j)))
  <2>1. "failed" \in Terminal /\ "cancelled" \in Terminal
    BY DEF Terminal
  <2> QED BY <2>1 DEF PolicyAnswers
<1> HIDE DEF m
<1>3. ASSUME Good(w, m, row)
      PROVE  /\ Good(w, decided, row) /\ NoNewLanes(m, decided)
             /\ j \notin decided.queue /\ j \notin decided.active /\ j \notin decided.deciding
             /\ decided.ent[j].state = "running"
  <2>1. Placed(m, j)
    BY <1>3 DEF Good, WorkerInv, JobInv
  <2>2. j \notin m.queue /\ j \notin m.active /\ m.ent[j].state = "running"
    BY <1>1, <2>1 DEF Placed
  <2>3. /\ decided.queue = m.queue /\ decided.active = m.active /\ decided.ent = m.ent
        /\ decided.deciding = m.deciding \ {j}
    BY <1>1 DEF Memory
  <2>4. Good(w, decided, row) /\ NoNewLanes(m, decided)
    BY <1>3, DecidedKeeps
  <2> QED BY <2>2, <2>3, <2>4
<1> HIDE DEF decided
<1>4. ASSUME NEW state \in Terminal, Becomes(w, Pump(Settle(decided, {j}, state)))
      PROVE  ClaimsHold'
  <2> DEFINE n == Pump(Settle(decided, {j}, state))
  <2>1. ASSUME Good(w, m, row) PROVE Good(w, n, row) /\ NoNewLanes(m, n)
    <3>1. Good(w, n, row) /\ NoNewLanes(decided, n)
      BY <1>3, <2>1, SettlePump
    <3> HIDE DEF n
    <3> QED BY <1>3, <2>1, <3>1 DEF NoNewLanes
  <2>2. Becomes(w, n)
    BY <1>4
  <2> HIDE DEF n
  <2> QED BY <1>1, <2>1, <2>2, MemoryKeeps DEF m
<1>5. ASSUME Becomes(w, Pump(Requeue(decided, j)))
      PROVE  ClaimsHold'
  <2> DEFINE again == Requeue(decided, j)
             n == Pump(again)
  <2>1. ASSUME Good(w, m, row) PROVE Good(w, n, row) /\ NoNewLanes(m, n)
    <3>1. Good(w, again, row) /\ NoNewLanes(decided, again)
      BY <1>3, <2>1, RequeueKeeps
    <3> HIDE DEF again
    <3>2. Good(w, n, row) /\ NoNewLanes(again, n)
      BY <3>1, PumpKeeps
    <3> HIDE DEF n
    <3> QED BY <1>3, <2>1, <3>1, <3>2 DEF NoNewLanes
  <2>2. Becomes(w, n)
    BY <1>5
  <2> HIDE DEF n
  <2> QED BY <1>1, <2>1, <2>2, MemoryKeeps DEF m
<1> QED BY <1>2, <1>4, <1>5

LEMMA WakeSafe ==
  ASSUME Mode = "leased", IInv, NEW w \in Worker, NEW j \in Job, Wake(w, j)
  PROVE  ClaimsHold'
<1> DEFINE m == mem[w]
           e == [m.ent[j] EXCEPT !.waiting = FALSE]
           due == [m EXCEPT !.ent = [m.ent EXCEPT ![j] = e]]
           n == IF due.paused THEN due ELSE Pump(due)
<1>1. m \in Memory /\ m.up
  BY DEF IInv, TypeOK, Wake
<1>2. /\ e \in Entry /\ e.state = m.ent[j].state /\ e.attempt = m.ent[j].attempt
      /\ e.durability = m.ent[j].durability
  <2>1. m.ent[j] \in Entry
    BY <1>1 DEF Memory
  <2> QED BY <2>1 DEF Entry
<1>3. Becomes(w, n) /\ UNCHANGED <<row, lapsed>>
  <2>1. due = [m EXCEPT !.ent[j].waiting = FALSE]
    BY <1>1 DEF Memory
  <2> HIDE DEF due
  <2> QED BY <2>1 DEF Wake
<1> HIDE DEF m, e
<1>4. ASSUME Good(w, m, row) PROVE Good(w, n, row) /\ NoNewLanes(m, n)
  <2>1. Good(w, due, row) /\ NoNewLanes(m, due)
    BY <1>2, <1>4, EntryKeeps
  <2> HIDE DEF due
  <2>2. Good(w, Pump(due), row) /\ NoNewLanes(due, Pump(due))
    BY <2>1, PumpKeeps
  <2> QED BY <2>1, <2>2 DEF NoNewLanes
<1> HIDE DEF n
<1> QED BY <1>1, <1>3, <1>4, MemoryKeeps DEF m

-----------------------------------------------------------------------------
(* The heartbeat and the recovery, in memory.                              *)

LEMMA BeatStartsSafe ==
  ASSUME Mode = "leased", IInv, NEW w \in Worker, NEW b \in Beats, BeatStarts(w, b)
  PROVE  ClaimsHold'
<1> DEFINE m == mem[w]
           fired == [m EXCEPT !.timer = FALSE]
           x == [NoBeat EXCEPT !.phase = "renewing", !.ids = Held(fired)]
           renews == [fired EXCEPT !.beats = [fired.beats EXCEPT ![b] = x]]
           n == IF Held(fired) = {} THEN AskToAdopt(fired, b) ELSE renews
<1>1. m \in Memory /\ m.up /\ UNCHANGED <<row, lapsed>>
  BY DEF IInv, TypeOK, BeatStarts
<1>2. fired \in Memory /\ Agree(m, fired)
  <2> HIDE DEF m
  <2> QED BY <1>1 DEF Memory, Agree
<1>3. Becomes(w, n)
  <2>1. renews = [fired EXCEPT !.beats[b] = x]
    BY <1>2 DEF Memory
  <2> HIDE DEF renews
  <2> QED BY <2>1 DEF BeatStarts
<1>4. x \in Beat /\ x.phase = "renewing" /\ x.ids = Held(fired) /\ x.got.jobs = {}
  <2>1. NoBeat \in Beat /\ NoBeat.got.jobs = {}
    BY EmptyTypes DEF NoBeat, NoClaims
  <2>2. Held(fired) \in SUBSET Job
    BY DEF Held
  <2> QED BY <2>1, <2>2 DEF Beat
<1> HIDE DEF m, fired, x
<1>5. ASSUME Good(w, m, row) PROVE Good(w, n, row) /\ NoNewLanes(m, n)
  <2>1. Good(w, fired, row) /\ NoNewLanes(m, fired)
    BY <1>2, <1>5, AgreeKeeps
  <2>2. Good(w, AskToAdopt(fired, b), row) /\ NoNewLanes(fired, AskToAdopt(fired, b))
    BY <2>1, AskToAdoptKeeps
  <2>3. Good(w, renews, row) /\ NoNewLanes(fired, renews)
    BY <1>4, <2>1, BeatKeeps
  <2> HIDE DEF renews
  <2> QED BY <2>1, <2>2, <2>3 DEF NoNewLanes
<1> HIDE DEF n
<1> QED BY <1>1, <1>3, <1>5, MemoryKeeps DEF m

LEMMA RenewedSafe ==
  ASSUME Mode = "leased", IInv, NEW w \in Worker, NEW b \in Beats, Renewed(w, b)
  PROVE  ClaimsHold'
<1> DEFINE m == mem[w]
           S == m.beats[b].ids
           told == Lose(m, S)
           n == AskToAdopt(told, b)
<1>1. m \in Memory /\ m.up /\ m.beats[b].phase = "renewed"
  BY DEF IInv, TypeOK, Renewed
<1>2. Becomes(w, n) /\ UNCHANGED <<row, lapsed>>
  BY DEF Renewed
<1>3. S \in SUBSET Job
  BY <1>1 DEF Memory, Beat
<1> HIDE DEF m
<1>4. ASSUME Good(w, m, row) PROVE Good(w, n, row) /\ NoNewLanes(m, n)
  <2>1. \A k \in S : m.ent[k].state \notin {"queued", "running"}
    <3> TAKE k \in S
    <3>1. k \in Job
      BY <1>3
    <3>2. Ended(m, k)
      BY <1>1, <1>4, <3>1 DEF Good, WorkerInv, JobInv, Pending
    <3> QED BY <3>2 DEF Ended, Terminal
  <2> HIDE DEF S
  <2>2. told \in Memory /\ Agree(m, told)
    BY <1>1, <1>3, <2>1, LoseNothing
  <2> HIDE DEF told
  <2>3. Good(w, told, row) /\ NoNewLanes(m, told)
    BY <1>4, <2>2, AgreeKeeps
  <2>4. Good(w, n, row) /\ NoNewLanes(told, n)
    BY <2>3, AskToAdoptKeeps
  <2> QED BY <2>3, <2>4 DEF NoNewLanes
<1> HIDE DEF n
<1> QED BY <1>1, <1>2, <1>4, MemoryKeeps DEF m

LEMMA AdoptedSafe ==
  ASSUME Mode = "leased", IInv, NEW w \in Worker, NEW b \in Beats, Adopted(w, b)
  PROVE  ClaimsHold'
<1> DEFINE m == mem[w]
           got == m.beats[b].got
<1>1. m \in Memory /\ m.up /\ UNCHANGED <<row, lapsed>>
  BY DEF IInv, TypeOK, Adopted
<1>2. PICK age \in AgeOrders(NewClaims(m, got)) : Becomes(w, EndBeat(RestoreAll(m, got, age), b))
  BY DEF Adopted
<1>3. got \in Claims /\ age \subseteq NewClaims(m, got) \X NewClaims(m, got)
  BY <1>1 DEF Memory, Beat, AgeOrders
<1> DEFINE restored == RestoreAll(m, got, age)
           n == EndBeat(restored, b)
<1>4. Becomes(w, n)
  BY <1>2
<1> HIDE DEF m
<1>5. ASSUME Good(w, m, row) PROVE Good(w, n, row) /\ NoNewLanes(m, n)
  <2>1. \A j \in Job : j \in got.jobs /\ ~Known(m, j) => Mine(row, w, j)
    BY <1>5 DEF Good, WorkerInv, JobInv, Pending
  <2> HIDE DEF got
  <2>2. Good(w, restored, row) /\ NoNewLanes(m, restored)
    BY <1>3, <1>5, <2>1, RestoreAllKeeps
  <2> HIDE DEF restored
  <2>3. Good(w, n, row) /\ NoNewLanes(restored, n)
    BY <2>2, EndBeatKeeps
  <2> QED BY <2>2, <2>3 DEF NoNewLanes
<1> HIDE DEF n
<1> QED BY <1>1, <1>4, <1>5, MemoryKeeps DEF m

LEMMA RecoveredSafe ==
  ASSUME Mode = "leased", IInv, NEW w \in Worker, Recovered(w)
  PROVE  ClaimsHold'
<1> DEFINE m == mem[w]
           c == [m EXCEPT !.loading = "no", !.loaded = NoClaims]
           got == m.loaded
<1>1. m \in Memory /\ m.up /\ UNCHANGED <<row, lapsed>>
  BY DEF IInv, TypeOK, Recovered
<1>2. PICK age \in AgeOrders(NewClaims(c, got)) :
        Becomes(w, ScheduleHeartbeat(RestoreAll(c, got, age)))
  BY DEF Recovered
<1>3. got \in Claims /\ age \subseteq NewClaims(c, got) \X NewClaims(c, got)
  BY <1>1 DEF Memory, AgeOrders
<1> DEFINE restored == RestoreAll(c, got, age)
           n == ScheduleHeartbeat(restored)
<1>4. Becomes(w, n)
  BY <1>2
<1> HIDE DEF m
<1>5. /\ c \in Memory /\ c.up /\ c.chain = m.chain /\ c.queue = m.queue
      /\ c.starting = m.starting /\ c.active = m.active /\ c.deciding = m.deciding
      /\ c.beats = m.beats /\ c.ent = m.ent /\ c.loaded.jobs = {} /\ c.loading = "no"
  <2>1. NoClaims \in Claims /\ NoClaims.jobs = {}
    BY EmptyTypes DEF NoClaims
  <2>2. c \in Memory
    BY <1>1, <2>1 DEF Memory
  <2>3. /\ c.up = m.up /\ c.chain = m.chain /\ c.queue = m.queue
        /\ c.starting = m.starting /\ c.active = m.active /\ c.deciding = m.deciding
        /\ c.beats = m.beats /\ c.ent = m.ent /\ c.loaded = NoClaims /\ c.loading = "no"
    BY <1>1 DEF Memory
  <2> QED BY <1>1, <2>1, <2>2, <2>3
<1> HIDE DEF c
<1>6. ASSUME Good(w, m, row) PROVE Good(w, n, row) /\ NoNewLanes(m, n)
  <2>1. \A j \in Job : j \in got.jobs /\ ~Known(c, j) => Mine(row, w, j)
    BY <1>5, <1>6 DEF Good, WorkerInv, JobInv, Pending, Known
  <2>2. Good(w, c, row) /\ NoNewLanes(m, c)
    BY <1>5, <1>6, FlagsKeep
  <2> HIDE DEF got
  <2>3. Good(w, restored, row) /\ NoNewLanes(c, restored)
    BY <1>3, <2>1, <2>2, RestoreAllKeeps
  <2> HIDE DEF restored
  <2>4. Good(w, n, row) /\ NoNewLanes(restored, n)
    BY <2>3, ScheduleHeartbeatKeeps
  <2> QED BY <2>2, <2>3, <2>4 DEF NoNewLanes
<1> HIDE DEF n
<1> QED BY <1>1, <1>4, <1>6, MemoryKeeps DEF m

-----------------------------------------------------------------------------
(* The database executes a call of a chain.                                *)

(* A row that is somebody's, on a lease that stands, is not written.       *)
LEMMA ExecutedElsewhere ==
  ASSUME Mode = "leased", TypeOK, NEW w \in Worker, NEW v \in Worker, v # w,
         NEW j \in Job, NEW write \in Write, NEW k \in Job, Mine(row, v, k)
  PROVE  Executed(w, j, write)[k] = row[k]
<1>1. row \in [Job -> Row]
  BY DEF TypeOK, Table
<1>2. row[k].owner = v /\ row[k].live /\ row[k].state # "absent" /\ v # NoWorker
  BY NoWorkerAssumption DEF Mine
<1>3. ~Claimable(row, w, k) /\ ~Writable(row, w, k)
  BY <1>2 DEF Claimable, Writable
<1>4. Removed(row, w, j)[k] = row[k]
  BY <1>1, <1>3 DEF Removed
<1>5. Answer(w, j, write) = "ok" /\ write.op # "remove" => Written(row, w, j, write)[k] = row[k]
  <2>1. SUFFICES ASSUME Answer(w, j, write) = "ok", write.op # "remove"
                 PROVE  Written(row, w, j, write)[k] = row[k]
    OBVIOUS
  <2>2. Writable(row, w, j)
    BY <2>1 DEF Answer
  <2>3. k # j
    BY <1>3, <2>2
  <2> QED BY <1>1, <2>3 DEF Written
<1> QED BY <1>4, <1>5 DEF Executed

(* What the call j's chain is headed by does to j's own row.               *)
LEMMA ExecutedHere ==
  ASSUME Mode = "leased", TypeOK, NEW w \in Worker, NEW j \in Job, NEW write \in Write
  PROVE  LET r == Executed(w, j, write)
             a == Answer(w, j, write)
         IN /\ \A k \in Job : k # j => r[k] = row[k]
            /\ (write.op # "remove" /\ a = "ok") =>
                 /\ Mine(r, w, j)
                 /\ r[j].state = write.state /\ r[j].attempt = write.attempt
            /\ (write.op # "remove" /\ a # "ok") => r = row
            /\ (a = "lost" => write.op # "remove" /\ ~Mine(row, w, j))
            /\ a \in {"ok", "held", "lost"}
<1> DEFINE r == Executed(w, j, write)
           a == Answer(w, j, write)
<1>1. row \in [Job -> Row]
  BY DEF TypeOK, Table
<1>2. a \in {"ok", "held", "lost"}
  BY DEF Answer
<1>3. a = "lost" => write.op # "remove" /\ ~Mine(row, w, j)
  BY DEF Answer, Writable, Claimable, Mine
<1> HIDE DEF a
<1>4. CASE write.op = "remove"
  <2>1. r = Removed(row, w, j)
    BY <1>4 DEF Executed
  <2>2. \A k \in Job : k # j => r[k] = row[k]
    BY <1>1, <2>1 DEF Removed
  <2> HIDE DEF r
  <2> QED BY <1>2, <1>3, <1>4, <2>2 DEF r, a
<1>5. CASE write.op # "remove" /\ a = "ok"
  <2>1. r = Written(row, w, j, write)
    BY <1>5 DEF Executed, a
  <2>2. /\ \A k \in Job : k # j => r[k] = row[k]
        /\ r[j] = [state |-> write.state, attempt |-> write.attempt,
                   backoff |-> write.backoff, owner |-> w, live |-> TRUE]
    BY <1>1, <2>1 DEF Written
  <2>3. write.state # "absent"
    BY DEF Write
  <2>4. Mine(r, w, j)
    BY <2>2, <2>3 DEF Mine
  <2> HIDE DEF r
  <2> QED BY <1>2, <1>3, <1>5, <2>2, <2>4 DEF r, a
<1>6. CASE write.op # "remove" /\ a # "ok"
  <2>1. r = row
    BY <1>6 DEF Executed, a
  <2> HIDE DEF r
  <2> QED BY <1>2, <1>3, <1>6, <2>1 DEF r, a
<1> QED BY <1>4, <1>5, <1>6

(* The answer is put at the head of the chain, with the row the call left. *)
LEMMA AnswerKeeps ==
  ASSUME NEW w \in Worker, NEW r, NEW r2, NEW m, Good(w, m, r), NEW j \in Job,
         m.chain[j] # <<>>, m.chain[j][1].answer = "none",
         NEW a \in {"ok", "held", "lost", "error"},
         \A k \in Job : k # j => r2[k] = r[k],
         Mine(r, w, j) /\ ~Ended(m, j) => Mine(r2, w, j),
         (a = "ok" /\ m.chain[j][1].op = "create") => Mine(r2, w, j),
         (a = "ok" /\ m.chain[j][1].op = "acquire" /\ ~Ended(m, j)) =>
           r2[j].state = "running" /\ r2[j].attempt = m.ent[j].attempt + 1,
         (a = "lost" /\ m.chain[j][1].op # "create") => Ended(m, j)
  PROVE  LET n == AnswerHead(m, j, a)
         IN /\ Good(w, n, r2)
            /\ \A k \in Job : Granted(n, k) =>
                 \/ Granted(m, k)
                 \/ k = j /\ a = "ok" /\ m.chain[j][1].op = "acquire" /\ ~Ended(m, j)
<1> DEFINE n == AnswerHead(m, j, a)
           c == m.chain[j]
           d == n.chain[j]
           e == m.ent[j]
           asking == j \in m.starting
<1>1. m \in Memory /\ m.up /\ n \in Memory /\ JobInv(w, m, r, j)
  BY AnswerHeadType DEF Good, WorkerInv
<1>2. /\ n.up = m.up /\ n.ent = m.ent /\ n.queue = m.queue /\ n.starting = m.starting
      /\ n.active = m.active /\ n.deciding = m.deciding /\ n.paused = m.paused
      /\ n.loading = m.loading /\ n.loaded = m.loaded /\ n.beats = m.beats
      /\ d = [c EXCEPT ![1].answer = a]
      /\ \A k \in Job : k # j => n.chain[k] = m.chain[k]
  BY <1>1 DEF AnswerHead, Memory
<1> HIDE DEF n
<1>3. /\ ChainShape(d, e, asking) /\ d # <<>> /\ Len(d) = Len(c) /\ d[1].answer = a
      /\ \A i \in 1..Len(c) : d[i].op = c[i].op /\ d[i].attempt = c[i].attempt
  <2>1. c \in Seq(Write) /\ asking \in BOOLEAN /\ ChainShape(c, e, asking)
    BY <1>1 DEF Memory, JobInv, Chained
  <2>2. c # <<>> /\ (a = "lost" /\ c[1].op # "create" => e.state \in Terminal)
    BY DEF Ended
  <2>3. a \in {"none", "ok", "held", "lost", "error"} /\ ToldHead(c, d, a)
    BY <1>2 DEF ToldHead
  <2> HIDE DEF c, d, e, asking
  <2> QED BY <2>1, <2>2, <2>3, ShapeAnswer
<1>4. Len(c) \in Nat \ {0} /\ d[1].op = c[1].op /\ d[Len(d)].op = c[Len(c)].op
  <2>1. c \in Seq(Write) /\ c # <<>>
    BY <1>1 DEF Memory
  <2> HIDE DEF c, d
  <2>2. Len(c) \in Nat \ {0}
    BY <2>1, EmptySeq
  <2> QED BY <1>3, <2>2
<1>5. m.ent[j].state # "absent" /\ ~(j \in m.active /\ LaneOf[j] # NoLane)
  BY <1>1 DEF JobInv, Chained
<1>6. JobInv(w, n, r2, j)
  <2>1. Placed(n, j)
    BY <1>1, <1>2 DEF JobInv, Placed, Ended
  <2>2. Chained(n, j)
    <3>1. (j \in m.starting /\ ~Ended(m, j)) => c[Len(c)].op = "acquire"
      BY <1>1 DEF JobInv, Chained
    <3>2. ChainShape(n.chain[j], n.ent[j], j \in n.starting)
      BY <1>2, <1>3
    <3> QED BY <1>2, <1>3, <1>4, <1>5, <3>1, <3>2 DEF Chained, Ended
  <2>3. Backed(w, n, r2, j)
    <3>1. j \in Held(n) => Mine(r2, w, j)
      <4>1. j \in Held(m) => Mine(r, w, j) /\ ~Ended(m, j)
        BY <1>1 DEF JobInv, Backed, Held, Ended, Terminal
      <4> QED BY <1>2, <4>1 DEF Held
    <3>2. SaidYes(n.chain[j], "create") => Mine(r2, w, j)
      BY <1>3, <1>4 DEF SaidYes
    <3>3. (SaidYes(n.chain[j], "acquire") /\ ~Ended(n, j)) =>
             r2[j].state = "running" /\ r2[j].attempt = n.ent[j].attempt + 1
      BY <1>2, <1>3, <1>4 DEF SaidYes, Ended
    <3> QED BY <1>2, <1>5, <3>1, <3>2, <3>3 DEF Backed
  <2>4. Attempted(n, j)
    BY <1>1, <1>2, <1>3 DEF JobInv, Attempted, Ended
  <2>5. Pending(w, n, r2, j)
    BY <1>1, <1>2, <1>5 DEF JobInv, Pending, Ended, Known, Held
  <2> QED BY <2>1, <2>2, <2>3, <2>4, <2>5 DEF JobInv
<1>7. ASSUME NEW k \in Job, k # j
      PROVE  JobInv(w, n, r2, k) /\ (Granted(n, k) => Granted(m, k))
  <2>1. JobInv(w, m, r, k) /\ SameAt(m, n, k) /\ SameAnswers(m, n)
    BY <1>2, <1>7 DEF Good, WorkerInv, SameAt, SameAnswers
  <2>2. JobInv(w, n, r, k) /\ (Granted(n, k) => Granted(m, k))
    BY <1>1, <2>1, SameJob
  <2>3. r2[k] = r[k]
    BY <1>7
  <2>4. Mine(r, w, k) => Mine(r2, w, k)
    BY <2>3 DEF Mine
  <2> QED BY <1>1, <2>2, <2>3, <2>4, RowKeeps
<1>8. WorkerInv(w, n, r2)
  BY <1>1, <1>2, <1>6, <1>7 DEF WorkerInv, Good
<1>9. Granted(n, j) => (\/ Granted(m, j)
                        \/ a = "ok" /\ c[1].op = "acquire" /\ ~Ended(m, j))
  BY <1>2, <1>3, <1>4 DEF Granted, SaidYes, Ended
<1> QED BY <1>1, <1>2, <1>7, <1>8, <1>9 DEF Good, n

(* A granted lane is a running row that is the worker's own.               *)
LEMMA GrantedRow ==
  ASSUME NEW v \in Worker, NEW m, NEW r, WorkerInv(v, m, r), NEW k \in Job, Granted(m, k)
  PROVE  Mine(r, v, k) /\ r[k].state = "running" /\ LaneOf[k] # NoLane
<1>1. JobInv(v, m, r, k)
  BY DEF WorkerInv
<1>2. CASE k \in m.active
  <2>1. k \in Held(m)
    BY <1>1, <1>2 DEF JobInv, Placed, Held
  <2> QED BY <1>1, <1>2, <2>1 DEF JobInv, Backed, Granted
<1>3. CASE k \notin m.active
  <2>1. k \in m.starting /\ ~Ended(m, k) /\ SaidYes(m.chain[k], "acquire") /\ LaneOf[k] # NoLane
    BY <1>3 DEF Granted
  <2>2. k \in Held(m)
    BY <1>1, <2>1 DEF JobInv, Placed, Held
  <2> QED BY <1>1, <2>1, <2>2 DEF JobInv, Backed
<1> QED BY <1>2, <1>3

LEMMA StoreSafe ==
  ASSUME Mode = "leased", IInv, NEW w \in Worker, NEW j \in Job,
         StoreExecutes(w, j) \/ StoreFails(w, j)
  PROVE  ClaimsHold'
<1> DEFINE m == mem[w]
           x == Head(m.chain[j])
           done == Executed(w, j, x)
           said == Answer(w, j, x)
<1>1. /\ TypeOK /\ m \in Memory /\ m.up /\ m.chain[j] # <<>> /\ x.answer = "none"
      /\ lapsed' = lapsed /\ x = m.chain[j][1]
  BY DEF IInv, TypeOK, StoreExecutes, StoreFails, Asked
<1>2. \E a \in {"ok", "held", "lost", "error"} :
        /\ Becomes(w, AnswerHead(m, j, a))
        /\ row' = done \/ row' = row
        /\ a = "error" \/ (a = said /\ row' = done)
  <2>1. said \in {"ok", "held", "lost"}
    BY DEF Answer
  <2>2. CASE StoreExecutes(w, j)
    <3>1. Becomes(w, AnswerHead(m, j, said)) /\ row' = done
      BY <2>2 DEF StoreExecutes
    <3> QED BY <2>1, <3>1
  <2>3. CASE StoreFails(w, j)
    <3>1. Becomes(w, AnswerHead(m, j, "error")) /\ row' \in {row, done}
      BY <2>3 DEF StoreFails
    <3> HIDE DEF done
    <3> QED BY <3>1
  <2> QED BY <2>2, <2>3
<1>3. PICK a \in {"ok", "held", "lost", "error"} :
        /\ Becomes(w, AnswerHead(m, j, a))
        /\ row' = done \/ row' = row
        /\ a = "error" \/ (a = said /\ row' = done)
  BY <1>2
<1>4. m.chain[j] \in Seq(Write) /\ 1 \in 1..Len(m.chain[j]) /\ x \in Write
  <2>1. m.chain[j] \in Seq(Write)
    BY <1>1 DEF Memory
  <2> QED BY <1>1, <2>1, EmptySeq
<1> HIDE DEF x
<1>5. /\ \A k \in Job : k # j => done[k] = row[k]
      /\ (x.op # "remove" /\ said = "ok") =>
           /\ Mine(done, w, j)
           /\ done[j].state = x.state /\ done[j].attempt = x.attempt
      /\ (x.op # "remove" /\ said # "ok") => done = row
      /\ said = "lost" => x.op # "remove" /\ ~Mine(row, w, j)
  BY <1>1, <1>4, ExecutedHere
<1>6. \A v \in Worker : v # w => \A k \in Job : Mine(row, v, k) => done[k] = row[k]
  BY <1>1, <1>4, ExecutedElsewhere
<1> DEFINE n == AnswerHead(m, j, a)
<1>7. said = "ok" /\ x.op = "acquire" =>
        ~LaneHeldElsewhere(row, w, j) /\ Writable(row, w, j)
  BY DEF Answer
<1> HIDE DEF m, done, said
<1>8. ASSUME w \notin lapsed
      PROVE  /\ WorkerInv(w, n, row')
             /\ \A k \in Job : Granted(n, k) =>
                  \/ Granted(m, k)
                  \/ k = j /\ a = "ok" /\ x.op = "acquire"
  <2>1. Good(w, m, row) /\ JobInv(w, m, row, j)
    BY <1>1, <1>8 DEF IInv, ClaimsHold, Good, WorkerInv, m
  <2>2. ~Ended(m, j) => x.op # "remove"
    BY <1>1, <1>4, <2>1 DEF JobInv, Chained, ChainShape, Ended
  <2>3. (~Ended(m, j) /\ x.op \in {"save", "acquire"}) => Mine(row, w, j)
    <3>1. m.ent[j] \in Entry /\ m.ent[j].state # "absent"
      BY <1>1, <2>1 DEF JobInv, Chained, Memory
    <3>2. (~Ended(m, j) /\ x.op = "save") => m.ent[j].durability = "stored"
      BY <1>1, <1>4, <2>1 DEF JobInv, Chained, ChainShape, Ended
    <3>3. (~Ended(m, j) /\ x.op = "acquire") => m.ent[j].durability = "stored"
      BY <1>1, <1>4, <2>1 DEF JobInv, Chained, ChainShape, Placed
    <3>4. (~Ended(m, j) /\ x.op \in {"save", "acquire"}) => j \in Held(m)
      BY <3>1, <3>2, <3>3 DEF Held, Ended, Entry
    <3> QED BY <2>1, <3>4 DEF JobInv, Backed
  <2>4. (~Ended(m, j) /\ x.op = "acquire") =>
          x.state = "running" /\ x.attempt = m.ent[j].attempt + 1
    BY <1>1, <1>4, <2>1 DEF JobInv, Chained, ChainShape, Attempted
  <2>5. \A k \in Job : k # j => row'[k] = row[k]
    BY <1>3, <1>5
  <2>6. Mine(row, w, j) /\ ~Ended(m, j) => Mine(row', w, j)
    BY <1>3, <1>5, <2>2
  <2>7. (a = "ok" /\ x.op = "create") => Mine(row', w, j)
    BY <1>3, <1>5
  <2>8. (a = "ok" /\ x.op = "acquire" /\ ~Ended(m, j)) =>
          row'[j].state = "running" /\ row'[j].attempt = m.ent[j].attempt + 1
    BY <1>3, <1>5, <2>4
  <2>9. (a = "lost" /\ x.op # "create") => Ended(m, j)
    <3>1. x.op \in {"create", "save", "remove", "acquire"}
      BY <1>4 DEF Write
    <3> QED BY <1>3, <1>5, <2>3, <3>1
  <2>10. /\ Good(w, n, row')
         /\ \A k \in Job : Granted(n, k) =>
              \/ Granted(m, k)
              \/ k = j /\ a = "ok" /\ x.op = "acquire" /\ ~Ended(m, j)
    BY <1>1, <2>1, <2>5, <2>6, <2>7, <2>8, <2>9, AnswerKeeps
  <2> QED BY <2>10 DEF Good
<1>9. ASSUME a = "ok", x.op = "acquire",
             NEW v \in Worker \ lapsed, v # w, NEW i \in Job, Granted(mem[v], i)
      PROVE  LaneOf[i] # LaneOf[j]
  <2>1. ~LaneHeldElsewhere(row, w, j) /\ Writable(row, w, j)
    BY <1>3, <1>7, <1>9
  <2>2. Mine(row, v, i) /\ row[i].state = "running" /\ LaneOf[i] # NoLane
    BY <1>9, GrantedRow DEF IInv, ClaimsHold
  <2>3. i # j
    BY <1>9, <2>1, <2>2, NoWorkerAssumption DEF Writable, Claimable, Mine
  <2> QED BY <1>9, <2>1, <2>2, <2>3 DEF LaneHeldElsewhere, Mine
<1>10. \A v \in Worker \ lapsed : v # w => \A k \in Job : Mine(row, v, k) => row'[k] = row[k]
  BY <1>3, <1>6
<1>11. Becomes(w, n)
  BY <1>3
<1> HIDE DEF n
<1>12. w \notin lapsed =>
         \A k \in Job : Granted(n, k) =>
           \/ Granted(mem[w], k)
           \/ \A v \in Worker \ lapsed : v # w =>
                \A i \in Job : Granted(mem[v], i) => LaneOf[i] # LaneOf[k]
  BY <1>8, <1>9 DEF m
<1>13. w \notin lapsed => WorkerInv(w, n, row')
  BY <1>8
<1> QED BY <1>1, <1>10, <1>11, <1>12, <1>13, StepKeeps

-----------------------------------------------------------------------------
(* The statements that take or renew rows.                                 *)

LEMMA RowStepKeeps ==
  ASSUME IInv, NEW w \in Worker, NEW n, NEW r2, row' = r2, Becomes(w, n), lapsed' = lapsed,
         mem[w].up,
         \A v \in Worker : v # w => \A k \in Job : Mine(row, v, k) => r2[k] = row[k],
         Good(w, mem[w], row) => Good(w, mem[w], r2),
         Good(w, mem[w], row) /\ Good(w, mem[w], r2) =>
           Good(w, n, r2) /\ NoNewLanes(mem[w], n)
  PROVE  ClaimsHold'
<1>1. ASSUME w \notin lapsed PROVE Good(w, n, r2) /\ NoNewLanes(mem[w], n)
  <2>1. Good(w, mem[w], row)
    BY <1>1 DEF IInv, ClaimsHold, TypeOK, Good
  <2> QED BY <2>1
<1>2. w \notin lapsed => WorkerInv(w, n, row')
  BY <1>1 DEF Good
<1>3. w \notin lapsed => \A k \in Job : Granted(n, k) => Granted(mem[w], k)
  BY <1>1 DEF NoNewLanes
<1>4. \A v \in Worker \ lapsed : v # w => \A k \in Job : Mine(row, v, k) => row'[k] = row[k]
  OBVIOUS
<1> QED BY <1>2, <1>3, <1>4, StepKeeps

LEMMA ClaimedElsewhere ==
  ASSUME Mode = "leased", NEW w \in Worker, NEW v \in Worker, v # w, NEW r, NEW S,
         \A k \in S : Claimable(r, w, k), NEW k \in Job, Mine(r, v, k)
  PROVE  ClaimedAsQueued(r, w, S)[k] = r[k]
<1>1. k \notin S
  BY NoWorkerAssumption DEF Claimable, Mine
<1> QED BY <1>1 DEF ClaimedAsQueued

LEMMA ClaimedHere ==
  ASSUME NEW w \in Worker, NEW r \in Table, NEW m, NEW S \in SUBSET Job,
         \A k \in S : r[k].state # "absent",
         \A k \in S : Mine(r, w, k) => k \notin m.active \cup m.starting
  PROVE  /\ Good(w, m, r) => Good(w, m, ClaimedAsQueued(r, w, S))
         /\ \A k \in S : Mine(ClaimedAsQueued(r, w, S), w, k)
<1> DEFINE r2 == ClaimedAsQueued(r, w, S)
<1>1. \A k \in Job : r[k] \in Row
  BY DEF Table
<1>2. \A k \in Job : r2[k] = IF k \in S
                             THEN [r[k] EXCEPT !.state = "queued", !.owner = w, !.live = TRUE]
                             ELSE r[k]
  BY DEF ClaimedAsQueued
<1> HIDE DEF r2
<1>3. \A k \in S : Mine(r2, w, k)
  <2> TAKE k \in S
  <2>1. k \in Job
    OBVIOUS
  <2>2. r2[k] = [r[k] EXCEPT !.state = "queued", !.owner = w, !.live = TRUE] /\ r[k] \in Row
    BY <1>1, <1>2, <2>1
  <2> QED BY <2>2 DEF Mine, Row
<1>4. ASSUME Good(w, m, r) PROVE Good(w, m, r2)
  <2>1. ASSUME NEW k \in Job PROVE JobInv(w, m, r2, k)
    <3>1. m \in Memory /\ JobInv(w, m, r, k)
      BY <1>4 DEF Good, WorkerInv
    <3>2. CASE k \in S
      BY <1>3, <3>1, <3>2, RowKeeps
    <3>3. CASE k \notin S
      <4>1. r2[k] = r[k]
        BY <1>2, <3>3
      <4>2. Mine(r, w, k) => Mine(r2, w, k)
        BY <4>1 DEF Mine
      <4> QED BY <3>1, <4>1, <4>2, RowKeeps
    <3> QED BY <3>2, <3>3
  <2> QED BY <1>4, <2>1 DEF Good, WorkerInv
<1> QED BY <1>3, <1>4 DEF r2

LEMMA RenewedHere ==
  ASSUME NEW w \in Worker, NEW r \in Table, NEW m, NEW ids \in SUBSET Job
  PROVE  /\ Good(w, m, r) => Good(w, m, RenewedRows(r, w, ids))
         /\ \A v \in Worker : v # w => \A k \in Job :
              Mine(r, v, k) => RenewedRows(r, w, ids)[k] = r[k]
<1> DEFINE r2 == RenewedRows(r, w, ids)
<1>1. \A k \in Job : r[k] \in Row
  BY DEF Table
<1>2. \A k \in Job :
        r2[k] = r[k] \/ (r[k].owner = w /\ r2[k] = [r[k] EXCEPT !.live = TRUE])
  BY DEF RenewedRows, RenewLost
<1> HIDE DEF r2
<1>3. ASSUME NEW v \in Worker, v # w, NEW k \in Job, Mine(r, v, k)
      PROVE  r2[k] = r[k]
  BY <1>2, <1>3 DEF Mine
<1>4. ASSUME Good(w, m, r) PROVE Good(w, m, r2)
  <2>1. ASSUME NEW k \in Job PROVE JobInv(w, m, r2, k)
    <3>1. m \in Memory /\ JobInv(w, m, r, k) /\ r[k] \in Row
      BY <1>1, <1>4 DEF Good, WorkerInv
    <3>2. /\ Mine(r, w, k) => Mine(r2, w, k)
          /\ r2[k].state = r[k].state /\ r2[k].attempt = r[k].attempt
      BY <1>2, <3>1 DEF Mine, Row
    <3> QED BY <3>1, <3>2, RowKeeps
  <2> QED BY <1>4, <2>1 DEF Good, WorkerInv
<1> QED BY <1>3, <1>4 DEF r2

LEMMA RenewExecutesSafe ==
  ASSUME Mode = "leased", IInv, NEW w \in Worker, NEW b \in Beats, RenewExecutes(w, b)
  PROVE  ClaimsHold'
<1> DEFINE m == mem[w]
           ids == m.beats[b].ids
           lost == RenewLost(row, w, ids)
           r2 == RenewedRows(row, w, ids)
           x == [m.beats[b] EXCEPT !.phase = "renewed", !.ids = lost]
           n == [m EXCEPT !.beats = [m.beats EXCEPT ![b] = x]]
<1>1. /\ m \in Memory /\ m.up /\ m.beats[b].phase = "renewing" /\ row \in Table
      /\ row' = r2 /\ lapsed' = lapsed
  BY DEF IInv, TypeOK, RenewExecutes
<1>2. m.beats[b] \in Beat /\ ids \in SUBSET Job
  BY <1>1 DEF Memory, Beat
<1>3. Becomes(w, n)
  <2>1. n = [m EXCEPT !.beats[b] = [@ EXCEPT !.phase = "renewed", !.ids = lost]]
    BY <1>1 DEF Memory
  <2> HIDE DEF n
  <2> QED BY <2>1 DEF RenewExecutes
<1>4. x \in Beat /\ x.phase = "renewed" /\ x.ids = lost /\ x.got = m.beats[b].got
  <2>1. lost \in SUBSET Job
    BY <1>2 DEF RenewLost
  <2> HIDE DEF lost
  <2> QED BY <1>2, <2>1 DEF Beat
<1>5. Good(w, m, row) => Good(w, m, r2)
  BY <1>1, <1>2, RenewedHere
<1>6. \A v \in Worker : v # w => \A k \in Job : Mine(row, v, k) => r2[k] = row[k]
  BY <1>1, <1>2, RenewedHere
<1> HIDE DEF m, x, r2
<1>7. ASSUME Good(w, m, row), Good(w, m, r2) PROVE Good(w, n, r2) /\ NoNewLanes(m, n)
  <2>1. \A j \in Job :
          /\ (x.phase = "renewing" /\ j \in x.ids) => j \in Held(m) \/ Ended(m, j)
          /\ (x.phase = "renewed" /\ j \in x.ids) => Ended(m, j)
          /\ (j \in x.got.jobs /\ ~Known(m, j)) => Mine(r2, w, j)
    <3> TAKE j \in Job
    <3>1. JobInv(w, m, row, j) /\ JobInv(w, m, r2, j)
      BY <1>7 DEF Good, WorkerInv
    <3>2. j \in lost => j \in ids /\ ~Mine(row, w, j)
      BY DEF RenewLost, Mine
    <3>3. j \in lost => Ended(m, j)
      BY <1>1, <3>1, <3>2 DEF JobInv, Pending, Backed
    <3> QED BY <1>4, <3>1, <3>3 DEF JobInv, Pending
  <2> QED BY <1>4, <1>7, <2>1, BeatKeeps
<1> HIDE DEF n
<1> QED BY <1>1, <1>3, <1>5, <1>6, <1>7, RowStepKeeps DEF m

LEMMA AdoptedRows ==
  ASSUME Mode = "leased", TypeOK, NEW w \in Worker, NEW S \in AdoptionBatches(row, w), NEW m
  PROVE  /\ S \in SUBSET Job
         /\ Good(w, m, row) => Good(w, m, ClaimedAsQueued(row, w, S))
         /\ \A k \in S : Mine(ClaimedAsQueued(row, w, S), w, k)
         /\ \A v \in Worker : v # w => \A k \in Job :
              Mine(row, v, k) => ClaimedAsQueued(row, w, S)[k] = row[k]
<1>1. S \in SUBSET Abandoned(row, w)
  BY DEF AdoptionBatches
<1>2. /\ S \in SUBSET Job
      /\ \A k \in S : row[k].state # "absent" /\ row[k].owner # w /\ ~row[k].live
  BY <1>1 DEF Abandoned, Outstanding
<1>3. \A k \in S : Claimable(row, w, k) /\ ~Mine(row, w, k)
  BY <1>2 DEF Claimable, Mine
<1>4. row \in Table
  BY DEF TypeOK
<1> QED BY <1>2, <1>3, <1>4, ClaimedHere, ClaimedElsewhere

LEMMA AdoptExecutesSafe ==
  ASSUME Mode = "leased", IInv, NEW w \in Worker, NEW b \in Beats, AdoptExecutes(w, b)
  PROVE  ClaimsHold'
<1> DEFINE m == mem[w]
<1>1. /\ m \in Memory /\ m.up /\ TypeOK /\ lapsed' = lapsed
      /\ m.beats[b].phase = "adopting"
  BY DEF IInv, TypeOK, AdoptExecutes
<1>2. PICK S \in AdoptionBatches(row, w) :
        /\ row' = ClaimedAsQueued(row, w, S)
        /\ Becomes(w, [m EXCEPT !.beats[b] = [@ EXCEPT !.phase = "adopted", !.got = ClaimsOf(S)]])
  BY DEF AdoptExecutes
<1> DEFINE r2 == ClaimedAsQueued(row, w, S)
           x == [m.beats[b] EXCEPT !.phase = "adopted", !.got = ClaimsOf(S)]
           n == [m EXCEPT !.beats = [m.beats EXCEPT ![b] = x]]
<1>3. /\ S \in SUBSET Job
      /\ Good(w, m, row) => Good(w, m, r2)
      /\ \A k \in S : Mine(r2, w, k)
      /\ \A v \in Worker : v # w => \A k \in Job : Mine(row, v, k) => r2[k] = row[k]
  BY <1>1, AdoptedRows
<1>4. row' = r2
  BY <1>2
<1> HIDE DEF r2
<1>5. Becomes(w, n)
  <2>1. n = [m EXCEPT !.beats[b] = [@ EXCEPT !.phase = "adopted", !.got = ClaimsOf(S)]]
    BY <1>1 DEF Memory
  <2> HIDE DEF n
  <2> QED BY <1>2, <2>1
<1>6. x \in Beat /\ x.phase = "adopted" /\ x.got.jobs = S
  <2>1. m.beats[b] \in Beat
    BY <1>1 DEF Memory
  <2>2. ClaimsOf(S) \in Claims /\ ClaimsOf(S).jobs = S
    <3>1. ClaimsOf(S).jobs = S
      BY DEF ClaimsOf
    <3> QED BY <1>1, <1>3, <3>1, ClaimsOfType DEF TypeOK
  <2> DEFINE got == ClaimsOf(S)
  <2> HIDE DEF got
  <2> QED BY <2>1, <2>2 DEF Beat, got
<1> HIDE DEF m, x
<1>7. ASSUME Good(w, m, r2) PROVE Good(w, n, r2) /\ NoNewLanes(m, n)
  <2>1. \A j \in Job :
          /\ (x.phase = "renewing" /\ j \in x.ids) => j \in Held(m) \/ Ended(m, j)
          /\ (x.phase = "renewed" /\ j \in x.ids) => Ended(m, j)
          /\ (j \in x.got.jobs /\ ~Known(m, j)) => Mine(r2, w, j)
    BY <1>3, <1>6
  <2> QED BY <1>6, <1>7, <2>1, BeatKeeps
<1> HIDE DEF n
<1> QED BY <1>1, <1>3, <1>4, <1>5, <1>7, RowStepKeeps DEF m

LEMMA BeatFailsSafe ==
  ASSUME Mode = "leased", IInv, NEW w \in Worker, NEW b \in Beats, BeatFails(w, b)
  PROVE  ClaimsHold'
<1> DEFINE m == mem[w]
           asks == AskToAdopt(m, b)
           ends == EndBeat(m, b)
           kept == /\ Good(w, m, row) => Good(w, m, row')
                   /\ \A v \in Worker : v # w =>
                        \A k \in Job : Mine(row, v, k) => row'[k] = row[k]
<1>1. m \in Memory /\ m.up /\ TypeOK /\ lapsed' = lapsed
  BY DEF IInv, TypeOK, BeatFails
<1>2. \/ Becomes(w, asks) /\ row' \in {row, RenewedRows(row, w, m.beats[b].ids)}
      \/ /\ Becomes(w, ends)
         /\ row' \in {row} \cup { ClaimedAsQueued(row, w, S) : S \in AdoptionBatches(row, w) }
  BY DEF BeatFails
<1>3. kept
  <2>1. CASE row' = row
    BY <2>1
  <2>2. CASE row' = RenewedRows(row, w, m.beats[b].ids)
    <3>1. m.beats[b].ids \in SUBSET Job /\ row \in Table
      BY <1>1 DEF Memory, Beat, TypeOK
    <3> DEFINE r2 == RenewedRows(row, w, m.beats[b].ids)
    <3>2. /\ Good(w, m, row) => Good(w, m, r2)
          /\ \A v \in Worker : v # w => \A k \in Job : Mine(row, v, k) => r2[k] = row[k]
      BY <3>1, RenewedHere
    <3>3. row' = r2
      BY <2>2
    <3> HIDE DEF r2, m
    <3> QED BY <3>2, <3>3
  <2>3. ASSUME NEW S \in AdoptionBatches(row, w), row' = ClaimedAsQueued(row, w, S)
        PROVE  kept
    <3> DEFINE r2 == ClaimedAsQueued(row, w, S)
    <3>1. /\ Good(w, m, row) => Good(w, m, r2)
          /\ \A v \in Worker : v # w => \A k \in Job : Mine(row, v, k) => r2[k] = row[k]
      BY <1>1, AdoptedRows
    <3>2. row' = r2
      BY <2>3
    <3> HIDE DEF r2, m
    <3> QED BY <3>1, <3>2
  <2> HIDE DEF kept, m
  <2> QED BY <1>2, <2>1, <2>2, <2>3
<1> HIDE DEF m
<1>4. ASSUME Good(w, m, row')
      PROVE  /\ Good(w, asks, row') /\ NoNewLanes(m, asks)
             /\ Good(w, ends, row') /\ NoNewLanes(m, ends)
  BY <1>4, AskToAdoptKeeps, EndBeatKeeps
<1> HIDE DEF asks, ends
<1>5. CASE Becomes(w, asks)
  BY <1>1, <1>3, <1>4, <1>5, RowStepKeeps DEF m
<1>6. CASE Becomes(w, ends)
  BY <1>1, <1>3, <1>4, <1>6, RowStepKeeps DEF m
<1> QED BY <1>2, <1>5, <1>6

-----------------------------------------------------------------------------
(* A process comes up, loads what it may take, and goes.                   *)

LEMMA LoadedRows ==
  ASSUME Mode = "leased", TypeOK, NEW w \in Worker, NEW m, m.loading # "no",
         NEW S \in LoadBatches(row, w)
  PROVE  /\ S \in SUBSET Job
         /\ Good(w, m, row) => Good(w, m, ClaimedAsQueued(row, w, S))
         /\ Good(w, m, row) => \A k \in S : Mine(ClaimedAsQueued(row, w, S), w, k)
         /\ \A v \in Worker : v # w => \A k \in Job :
              Mine(row, v, k) => ClaimedAsQueued(row, w, S)[k] = row[k]
<1> DEFINE r2 == ClaimedAsQueued(row, w, S)
<1>1. S \in SUBSET Job /\ \A k \in S : row[k].state # "absent" /\ Claimable(row, w, k)
  BY DEF LoadBatches, Loadable, Outstanding
<1>2. row \in Table
  BY DEF TypeOK
<1>3. \A v \in Worker : v # w => \A k \in Job : Mine(row, v, k) => r2[k] = row[k]
  BY <1>1, ClaimedElsewhere
<1>4. ASSUME Good(w, m, row) PROVE Good(w, m, r2) /\ \A k \in S : Mine(r2, w, k)
  <2>1. \A k \in S : Mine(row, w, k) => k \notin m.active \cup m.starting
    BY <1>1, <1>4 DEF Good, WorkerInv
  <2> QED BY <1>1, <1>2, <1>4, <2>1, ClaimedHere
<1> QED BY <1>1, <1>3, <1>4

LEMMA LoadedKeeps ==
  ASSUME NEW w \in Worker, NEW r, NEW m, Good(w, m, r), m.loading # "no",
         NEW c \in Claims, \A k \in c.jobs : Mine(r, w, k)
  PROVE  LET n == [m EXCEPT !.loading = "answered", !.loaded = c]
         IN Good(w, n, r) /\ NoNewLanes(m, n)
<1> DEFINE n == [m EXCEPT !.loading = "answered", !.loaded = c]
<1>1. m \in Memory /\ m.up /\ m.paused /\ m.active = {} /\ m.starting = {}
  BY DEF Good, WorkerInv
<1>2. /\ n.up = m.up /\ n.ent = m.ent /\ n.queue = m.queue /\ n.starting = m.starting
      /\ n.active = m.active /\ n.deciding = m.deciding /\ n.chain = m.chain
      /\ n.paused = m.paused /\ n.beats = m.beats /\ n.loaded = c /\ n \in Memory
  BY <1>1 DEF Memory
<1> HIDE DEF n
<1>3. ASSUME NEW k \in Job PROVE JobInv(w, n, r, k) /\ ~Granted(n, k)
  <2>1. JobInv(w, m, r, k)
    BY DEF Good, WorkerInv
  <2>2. Placed(n, k) /\ Chained(n, k) /\ Attempted(n, k)
    BY <1>2, <2>1 DEF JobInv, Placed, Chained, Attempted, Ended
  <2>3. Backed(w, n, r, k)
    BY <1>2, <2>1 DEF JobInv, Backed, Held, Ended
  <2>4. Pending(w, n, r, k)
    BY <1>2, <2>1 DEF JobInv, Pending, Held, Ended, Known
  <2>5. ~Granted(n, k)
    BY <1>1, <1>2 DEF Granted
  <2> QED BY <2>2, <2>3, <2>4, <2>5 DEF JobInv
<1> QED BY <1>1, <1>2, <1>3 DEF Good, WorkerInv, NoNewLanes, n

LEMMA LoadSafe ==
  ASSUME Mode = "leased", IInv, NEW w \in Worker, LoadExecutes(w) \/ LoadFails(w)
  PROVE  ClaimsHold'
<1> DEFINE m == mem[w]
           loaded(S) == [m EXCEPT !.loading = "answered", !.loaded = ClaimsOf(S)]
           failed == [m EXCEPT !.loading = "no"]
<1>1. m \in Memory /\ m.up /\ TypeOK /\ m.loading # "no" /\ lapsed' = lapsed
  BY DEF IInv, TypeOK, LoadExecutes, LoadFails
<1>2. \/ \E S \in LoadBatches(row, w) :
           Becomes(w, loaded(S)) /\ row' = ClaimedAsQueued(row, w, S)
      \/ /\ Becomes(w, failed)
         /\ row' \in {row} \cup { ClaimedAsQueued(row, w, S) : S \in LoadBatches(row, w) }
  BY DEF LoadExecutes, LoadFails
<1>3. ASSUME NEW S \in LoadBatches(row, w)
      PROVE  /\ S \in SUBSET Job
             /\ Good(w, m, row) => Good(w, m, ClaimedAsQueued(row, w, S))
             /\ Good(w, m, row) => \A k \in S : Mine(ClaimedAsQueued(row, w, S), w, k)
             /\ \A v \in Worker : v # w => \A k \in Job :
                  Mine(row, v, k) => ClaimedAsQueued(row, w, S)[k] = row[k]
  BY <1>1, LoadedRows
<1>4. failed.up = m.up /\ failed \in Memory /\ failed.chain = m.chain
      /\ failed.queue = m.queue /\ failed.starting = m.starting
      /\ failed.active = m.active /\ failed.deciding = m.deciding
      /\ failed.beats = m.beats /\ failed.ent = m.ent /\ failed.loaded = m.loaded
      /\ failed.loading = "no"
  BY <1>1 DEF Memory
<1> HIDE DEF m, failed
<1>5. ASSUME NEW S \in LoadBatches(row, w),
             Becomes(w, loaded(S)), row' = ClaimedAsQueued(row, w, S)
      PROVE  ClaimsHold'
  <2> DEFINE r2 == ClaimedAsQueued(row, w, S)
             c == ClaimsOf(S)
             n == [m EXCEPT !.loading = "answered", !.loaded = c]
  <2>1. /\ S \in SUBSET Job /\ row' = r2 /\ Becomes(w, n)
        /\ Good(w, m, row) => Good(w, m, r2)
        /\ Good(w, m, row) => \A k \in S : Mine(r2, w, k)
        /\ \A v \in Worker : v # w => \A k \in Job : Mine(row, v, k) => r2[k] = row[k]
    BY <1>3, <1>5
  <2>2. c \in Claims /\ c.jobs = S
    <3>1. row \in Table
      BY <1>1 DEF TypeOK
    <3>2. c.jobs = S
      BY DEF ClaimsOf
    <3> QED BY <2>1, <3>1, <3>2, ClaimsOfType
  <2> HIDE DEF r2, c
  <2>3. ASSUME Good(w, m, row), Good(w, m, r2)
        PROVE  Good(w, n, r2) /\ NoNewLanes(m, n)
    <3>1. \A k \in c.jobs : Mine(r2, w, k)
      BY <2>1, <2>2, <2>3
    <3> QED BY <1>1, <2>2, <2>3, <3>1, LoadedKeeps
  <2> HIDE DEF n
  <2> QED BY <1>1, <2>1, <2>3, RowStepKeeps DEF m
<1>6. CASE /\ Becomes(w, failed)
           /\ row' \in {row} \cup { ClaimedAsQueued(row, w, S) : S \in LoadBatches(row, w) }
  <2>1. ASSUME Good(w, m, row')
        PROVE  Good(w, failed, row') /\ NoNewLanes(m, failed)
    BY <1>1, <1>4, <2>1, FlagsKeep
  <2>2. /\ Good(w, m, row) => Good(w, m, row')
        /\ \A v \in Worker : v # w => \A k \in Job : Mine(row, v, k) => row'[k] = row[k]
    BY <1>3, <1>6
  <2> QED BY <1>1, <1>6, <2>1, <2>2, RowStepKeeps DEF m
<1> QED BY <1>2, <1>5, <1>6

LEMMA BootSafe ==
  ASSUME Mode = "leased", IInv, NEW w \in Worker, Boot(w)
  PROVE  ClaimsHold'
<1> DEFINE n == [Fresh EXCEPT !.paused = TRUE, !.loading = "asked"]
<1>1. Becomes(w, n) /\ row' = row /\ lapsed' = lapsed
  BY DEF Boot
<1>2. /\ n.up /\ n.paused /\ n.loading = "asked" /\ n.active = {} /\ n.starting = {}
      /\ n.queue = {} /\ n.deciding = {} /\ n.loaded.jobs = {}
      /\ \A k \in Job : n.ent[k] = Unknown /\ n.chain[k] = <<>>
      /\ \A b \in Beats : n.beats[b] = NoBeat
  BY DEF Fresh, NoClaims
<1> HIDE DEF n
<1>3. \A k \in Job : JobInv(w, n, row, k) /\ ~Granted(n, k)
  <2> TAKE k \in Job
  <2>1. Unknown.state = "absent" /\ Unknown.durability = "none"
    BY DEF Unknown
  <2>2. NoBeat.phase = "none" /\ NoBeat.got.jobs = {}
    BY DEF NoBeat, NoClaims
  <2>3. Placed(n, k)
    BY <1>2, <2>1 DEF Placed
  <2>4. Chained(n, k)
    BY <1>2, <2>1 DEF Chained, ChainShape
  <2>5. Backed(w, n, row, k)
    BY <1>2, <2>1 DEF Backed, Held, SaidYes
  <2>6. Attempted(n, k)
    BY <1>2, <2>1 DEF Attempted
  <2>7. Pending(w, n, row, k)
    BY <1>2, <2>2 DEF Pending
  <2>8. ~Granted(n, k)
    BY <1>2 DEF Granted
  <2> QED BY <2>3, <2>4, <2>5, <2>6, <2>7, <2>8 DEF JobInv
<1>4. WorkerInv(w, n, row)
  BY <1>2, <1>3 DEF WorkerInv
<1> QED BY <1>1, <1>3, <1>4, StepKeeps

LEMMA CrashSafe ==
  ASSUME IInv, NEW w \in Worker, Crash(w)
  PROVE  ClaimsHold'
<1>1. mem' = [mem EXCEPT ![w] = Down] /\ row' = row /\ lapsed' = lapsed \ {w}
  BY DEF Crash, Becomes
<1>2. mem'[w] = Down /\ \A v \in Worker : v # w => mem'[v] = mem[v]
  BY <1>1 DEF IInv, TypeOK
<1>3. ASSUME NEW v \in Worker, v \notin lapsed' PROVE WorkerInv(v, mem'[v], row')
  <2>1. CASE v = w
    BY <1>1, <1>2, <2>1, DownKeeps
  <2>2. CASE v # w
    <3>1. v \in Worker \ lapsed
      BY <1>1, <1>3, <2>2
    <3> QED BY <1>1, <1>2, <2>2, <3>1 DEF IInv, ClaimsHold
  <2> QED BY <2>1, <2>2
<1>4. ASSUME NEW v \in Worker \ lapsed', NEW u \in Worker \ lapsed', NEW i \in Job, NEW k \in Job,
             v # u, Granted(mem'[v], i), Granted(mem'[u], k)
      PROVE  LaneOf[i] # LaneOf[k]
  <2>1. v # w /\ u # w
    BY <1>2, <1>4, DownKeeps
  <2>2. v \in Worker \ lapsed /\ u \in Worker \ lapsed /\ mem'[v] = mem[v] /\ mem'[u] = mem[u]
    BY <1>1, <1>2, <2>1
  <2> QED BY <1>4, <2>2 DEF IInv, ClaimsHold, LaneInv
<1> QED BY <1>3, <1>4 DEF ClaimsHold, LaneInv

LEMMA LeaseSafe ==
  ASSUME IInv, NEW j \in Job, LeaseAges(j) \/ LeaseLapses(j)
  PROVE  ClaimsHold'
<1> DEFINE r2 == [row EXCEPT ![j].live = FALSE]
<1>1. /\ row' = r2 /\ mem' = mem /\ lapsed \subseteq lapsed'
      /\ \A v \in Worker \ lapsed' : row[j].owner = v => ~mem[v].up \/ Unaware(mem[v], j)
  <2>1. CASE LeaseAges(j)
    BY <2>1 DEF LeaseAges
  <2>2. CASE LeaseLapses(j)
    BY <2>2 DEF LeaseLapses
  <2> QED BY <2>1, <2>2
<1>2. /\ \A k \in Job : k # j => r2[k] = row[k]
      /\ r2[j].state = row[j].state /\ r2[j].attempt = row[j].attempt
  <2>1. row \in [Job -> Row]
    BY DEF IInv, TypeOK, Table
  <2>2. row[j] \in Row
    BY <2>1
  <2>3. r2 = [row EXCEPT ![j] = [row[j] EXCEPT !.live = FALSE]]
    OBVIOUS
  <2> HIDE DEF r2
  <2> QED BY <2>1, <2>2, <2>3 DEF Row
<1> HIDE DEF r2
<1>3. ASSUME NEW v \in Worker, v \notin lapsed' PROVE WorkerInv(v, mem'[v], row')
  <2> DEFINE m == mem[v]
  <2>1. v \in Worker \ lapsed /\ m \in Memory
    BY <1>1, <1>3 DEF IInv, TypeOK
  <2>2. WorkerInv(v, m, row)
    BY <2>1 DEF IInv, ClaimsHold
  <2> HIDE DEF m
  <2>3. CASE row[j].owner # v
    <3>1. \A k \in Job : Mine(row, v, k) => r2[k] = row[k]
      BY <1>2, <2>3 DEF Mine
    <3>2. WorkerInv(v, m, r2)
      BY <2>1, <2>2, <3>1, OthersKeep
    <3> QED BY <1>1, <3>2 DEF m
  <2>4. CASE row[j].owner = v /\ ~m.up
    <3>1. m = Down
      BY <2>2, <2>4 DEF WorkerInv
    <3> QED BY <1>1, <3>1, DownKeeps DEF m
  <2>5. CASE row[j].owner = v /\ Unaware(m, j)
    <3>1. ASSUME NEW k \in Job PROVE JobInv(v, m, r2, k)
      <4>1. JobInv(v, m, row, k)
        BY <2>2 DEF WorkerInv
      <4>2. CASE k # j
        <5>1. r2[k] = row[k]
          BY <1>2, <4>2
        <5>2. Mine(row, v, k) => Mine(r2, v, k)
          BY <5>1 DEF Mine
        <5> QED BY <2>1, <4>1, <5>1, <5>2, RowKeeps
      <4>3. CASE k = j
        <5>1. Backed(v, m, r2, k)
          BY <1>2, <2>5, <4>1, <4>3 DEF JobInv, Backed, Unaware, SaidYes
        <5>2. Pending(v, m, r2, k)
          BY <2>5, <4>1, <4>3 DEF JobInv, Pending, Unaware
        <5> QED BY <4>1, <5>1, <5>2 DEF JobInv
      <4> QED BY <4>2, <4>3
    <3>2. WorkerInv(v, m, r2)
      BY <2>2, <3>1 DEF WorkerInv
    <3> QED BY <1>1, <3>2 DEF m
  <2> QED BY <1>1, <1>3, <2>1, <2>3, <2>4, <2>5 DEF m
<1>4. LaneInv'
  BY <1>1 DEF IInv, ClaimsHold, LaneInv
<1> QED BY <1>3, <1>4 DEF ClaimsHold

-----------------------------------------------------------------------------
(* The invariant.                                                          *)

LEMMA InitSafe == Init => ClaimsHold
<1> SUFFICES ASSUME Init PROVE ClaimsHold
  OBVIOUS
<1>1. Fresh \in Memory
  BY EmptyTypes
<1>2. /\ Fresh.up /\ Fresh.active = {} /\ Fresh.starting = {} /\ Fresh.queue = {}
      /\ Fresh.deciding = {} /\ Fresh.loading = "no" /\ Fresh.loaded.jobs = {}
      /\ \A k \in Job : Fresh.ent[k] = Unknown /\ Fresh.chain[k] = <<>>
      /\ \A b \in Beats : Fresh.beats[b] = NoBeat
  BY DEF Fresh, NoClaims
<1>3. ASSUME NEW w \in Worker
      PROVE  WorkerInv(w, mem[w], row) /\ \A k \in Job : ~Granted(mem[w], k)
  <2> DEFINE f == Fresh
             m == ScheduleHeartbeat(f)
  <2>1. mem[w] = m
    BY DEF Init
  <2> HIDE DEF f
  <2>2. \A k \in Job : JobInv(w, f, row, k) /\ ~Granted(f, k)
    <3> TAKE k \in Job
    <3>1. Unknown.state = "absent" /\ Unknown.durability = "none"
      BY DEF Unknown
    <3>2. NoBeat.phase = "none" /\ NoBeat.got.jobs = {}
      BY DEF NoBeat, NoClaims
    <3>3. Placed(f, k)
      BY <1>2, <3>1 DEF Placed, f
    <3>4. Chained(f, k)
      BY <1>2, <3>1 DEF Chained, ChainShape, f
    <3>5. Backed(w, f, row, k)
      BY <1>2, <3>1 DEF Backed, Held, SaidYes, f
    <3>6. Attempted(f, k)
      BY <1>2, <3>1 DEF Attempted, f
    <3>7. Pending(w, f, row, k)
      BY <1>2, <3>2 DEF Pending, f
    <3>8. ~Granted(f, k)
      BY <1>2 DEF Granted, f
    <3> QED BY <3>3, <3>4, <3>5, <3>6, <3>7, <3>8 DEF JobInv
  <2>3. Good(w, f, row)
    BY <1>1, <1>2, <2>2 DEF Good, WorkerInv, f
  <2>4. Good(w, m, row) /\ NoNewLanes(f, m)
    BY <2>3, ScheduleHeartbeatKeeps
  <2> HIDE DEF m
  <2> QED BY <2>1, <2>2, <2>4 DEF Good, NoNewLanes
<1> QED BY <1>3 DEF ClaimsHold, LaneInv

LEMMA StepSafe ==
  ASSUME Mode = "leased"
  PROVE  IInv /\ [Next]_vars => IInv'
<1> SUFFICES ASSUME IInv, [Next]_vars PROVE IInv'
  OBVIOUS
<1>1. TypeOK'
  BY StepType DEF IInv
<1>2. ClaimsHold'
  <2>1. CASE UNCHANGED vars
    BY <2>1 DEF vars, IInv, ClaimsHold, LaneInv
  <2>2. ASSUME NEW w \in Worker,
               \/ Pause(w) \/ Resume(w) \/ Drain(w) \/ Close(w) \/ Crash(w)
               \/ Boot(w) \/ LoadExecutes(w) \/ LoadFails(w) \/ Recovered(w)
        PROVE  ClaimsHold'
    BY <2>2, PauseSafe, CloseSafe, CrashSafe, BootSafe, LoadSafe, RecoveredSafe
  <2>3. ASSUME NEW w \in Worker, NEW j \in Job,
               \/ Enqueue(w, j) \/ CancelQueued(w, j) \/ CancelRunning(w, j)
               \/ StoreExecutes(w, j) \/ StoreFails(w, j)
               \/ CreateSettles(w, j) \/ WriteSettles(w, j) \/ AcquireSettles(w, j)
               \/ HandlerReturns(w, j) \/ HandlerThrows(w, j) \/ PolicyAnswers(w, j)
               \/ Wake(w, j)
        PROVE  ClaimsHold'
    BY <2>3, EnqueueSafe, CancelQueuedSafe, CancelRunningSafe, StoreSafe, CreateSettlesSafe,
       WriteSettlesSafe, AcquireSettlesSafe, HandlerSafe, PolicyAnswersSafe, WakeSafe
  <2>4. ASSUME NEW w \in Worker, NEW b \in Beats,
               \/ BeatStarts(w, b) \/ RenewExecutes(w, b) \/ Renewed(w, b)
               \/ AdoptExecutes(w, b) \/ Adopted(w, b) \/ BeatFails(w, b)
        PROVE  ClaimsHold'
    BY <2>4, BeatStartsSafe, RenewExecutesSafe, RenewedSafe, AdoptExecutesSafe,
       AdoptedSafe, BeatFailsSafe
  <2>5. ASSUME NEW j \in Job, LeaseAges(j) \/ LeaseLapses(j)
        PROVE  ClaimsHold'
    BY <2>5, LeaseSafe
  <2> QED BY <2>1, <2>2, <2>3, <2>4, <2>5 DEF Next
<1> QED BY <1>1, <1>2 DEF IInv

(* What every worker that has kept its claims believes of them, call by    *)
(* call and answer by answer, is what the jobs table says, and acquire has *)
(* given no lane twice: through every interleaving of handlers, store      *)
(* answers, failed calls, crashes, restarts, adoptions and lapsing leases, *)
(* for any number of workers and jobs.                                     *)
THEOREM ClaimsAlwaysHold ==
  ASSUME Mode = "leased"
  PROVE  Spec => []ClaimsHold
<1>1. Init => IInv
  BY InitType, InitSafe DEF IInv
<1>2. IInv /\ [Next]_vars => IInv'
  BY StepSafe
<1>3. IInv => ClaimsHold
  BY DEF IInv
<1> QED BY <1>1, <1>2, <1>3, PTL DEF Spec

(* "The site sees one crawler however many processes share the work": two  *)
(* workers that have kept their claims never run jobs of one lane at the   *)
(* same time (acquire, #busyLanes, adopt, load).                           *)
THEOREM OneCrawlerPerSite ==
  ASSUME Mode = "leased"
  PROVE  Spec => []LanesExcluded
<1>1. TypeOK /\ ClaimsHold => LanesExcluded
  <2> SUFFICES ASSUME TypeOK, ClaimsHold,
                      NEW v \in Worker \ lapsed, NEW w \in Worker \ lapsed, v # w,
                      NEW i \in mem[v].active, NEW k \in mem[w].active,
                      LaneOf[i] = LaneOf[k], LaneOf[i] # NoLane
               PROVE  FALSE
    BY DEF LanesExcluded, LanesOf
  <2>1. i \in Job /\ k \in Job
    BY DEF TypeOK, Memory
  <2>2. Granted(mem[v], i) /\ Granted(mem[w], k)
    BY DEF Granted
  <2> QED BY <2>1, <2>2 DEF ClaimsHold, LaneInv
<1> QED BY <1>1, TypeCorrect, ClaimsAlwaysHold, PTL

(* A job running on a worker that has kept its claims holds its row.       *)
LEMMA RunningIsHeld ==
  ASSUME TypeOK, ClaimsHold, NEW w \in Worker \ lapsed, NEW j \in mem[w].active
  PROVE  j \in Job /\ JobInv(w, mem[w], row, j) /\ Mine(row, w, j)
<1>1. j \in Job
  BY DEF TypeOK, Memory
<1>2. JobInv(w, mem[w], row, j)
  BY <1>1 DEF ClaimsHold, WorkerInv
<1>3. j \in Held(mem[w])
  BY <1>1, <1>2 DEF JobInv, Placed, Held
<1> QED BY <1>1, <1>2, <1>3 DEF JobInv, Backed

(* No job runs on two workers that have kept their claims, through any     *)
(* crash, adoption or recovery of others.                                  *)
THEOREM JobRunsOnce ==
  ASSUME Mode = "leased"
  PROVE  Spec => []SingleRunner
<1>1. TypeOK /\ ClaimsHold => SingleRunner
  <2> SUFFICES ASSUME TypeOK, ClaimsHold,
                      NEW v \in Worker \ lapsed, NEW w \in Worker \ lapsed, v # w,
                      NEW j \in mem[v].active, j \in mem[w].active
               PROVE  FALSE
    BY DEF SingleRunner
  <2>1. Mine(row, v, j) /\ Mine(row, w, j)
    BY RunningIsHeld
  <2> QED BY <2>1 DEF Mine
<1> QED BY <1>1, TypeCorrect, ClaimsAlwaysHold, PTL

(* A job whose `stored` has resolved and that has not settled, and any job *)
(* that runs, is in the table under its worker's name, so a crash at any   *)
(* moment loses nothing that was acknowledged.                             *)
THEOREM NothingAcknowledgedIsLost ==
  ASSUME Mode = "leased"
  PROVE  Spec => []AcknowledgedIsStored
<1>1. TypeOK /\ ClaimsHold => AcknowledgedIsStored
  <2> SUFFICES ASSUME TypeOK, ClaimsHold, NEW w \in Worker \ lapsed, NEW j \in Job,
                      j \in Held(mem[w]) \/ j \in mem[w].active
               PROVE  Mine(row, w, j)
    BY DEF AcknowledgedIsStored, Mine
  <2>1. CASE j \in mem[w].active
    BY <2>1, RunningIsHeld
  <2>2. CASE j \in Held(mem[w])
    BY <2>2 DEF ClaimsHold, WorkerInv, JobInv, Backed
  <2> QED BY <2>1, <2>2
<1> QED BY <1>1, TypeCorrect, ClaimsAlwaysHold, PTL

(* A laned job's attempt is in the table before its handler starts and     *)
(* stays there while it runs, so a job that takes the process down comes   *)
(* back having used the attempt.                                           *)
THEOREM CrashUsesAnAttempt ==
  ASSUME Mode = "leased"
  PROVE  Spec => []AttemptRecorded
<1>1. TypeOK /\ ClaimsHold => AttemptRecorded
  <2> SUFFICES ASSUME TypeOK, ClaimsHold, NEW w \in Worker \ lapsed,
                      NEW j \in mem[w].active, LaneOf[j] # NoLane
               PROVE  row[j].state = "running" /\ row[j].attempt = mem[w].ent[j].attempt
    BY DEF AttemptRecorded
  <2>1. JobInv(w, mem[w], row, j)
    BY RunningIsHeld
  <2> QED BY <2>1 DEF JobInv, Backed
<1> QED BY <1>1, TypeCorrect, ClaimsAlwaysHold, PTL

=============================================================================
