------------------------------ MODULE JobQueue ------------------------------
(***************************************************************************)
(* packages/queue/src/queue.ts: the bounded-concurrency job queue, one per *)
(* worker process, over the shared table of LeaseStore.                    *)
(*                                                                         *)
(* Each worker is one JavaScript process.  Everything a handler does up to *)
(* its next await is one step here, so the helpers below (Persist, Settle, *)
(* Lose, Pump, ...) are functions from the process's memory to its next    *)
(* memory, composed the way the methods call each other.  A store call is  *)
(* three steps: it is issued (appended to the job's storeChain), the       *)
(* database executes it, and its answer is handled.                        *)
(***************************************************************************)
EXTENDS LeaseStore, Sequences

CONSTANTS
  Priority,      \* [Job -> Nat]
  Concurrency,   \* handlers running at once
  MaxAttempts,   \* the retry policy's limit, exponentialBackoff.maxAttempts
  Beats,         \* bound: the #beat calls that can be in flight together
  Limit,         \* bound: how often the environment does each thing ...
  Budget         \* ... and how many such things it does in one behaviour

ASSUME ConcurrencyAssumption == Concurrency \in Nat \ {0}
ASSUME MaxAttemptsAssumption == MaxAttempts \in Nat \ {0}
ASSUME PriorityAssumption == Priority \in [Job -> Nat]
ASSUME JobsAreFinite == IsFiniteSet(Job)

VARIABLES
  row,        \* the jobs table
  mem,        \* each worker's process memory
  submitted,  \* ids handed to enqueue: audit ids are fresh uuids
  lapsed,     \* workers one of whose claims has aged out while they were up
  used        \* how much of Limit the environment has spent

vars == <<row, mem, submitted, lapsed, used>>

Kinds == {"crash", "lapse", "error", "cancel", "pause", "drain", "close"}

ASSUME LimitAssumption == Limit \in [Kinds -> Nat] /\ Budget \in Nat

-----------------------------------------------------------------------------
(* The state of one process.                                               *)

Terminal == {"complete", "failed", "cancelled"}

(* An Entry: `waiting` is dueAt > now, `backoff` is notBefore # null.      *)
(* leaseLost is set together with durability = "lost" and never without.   *)
Entry == [ state           : {"absent", "queued", "running"} \cup Terminal,
           attempt         : Nat,
           waiting         : BOOLEAN,
           backoff         : BOOLEAN,
           durability      : {"none", "pending", "stored", "lost"},
           cancelRequested : BOOLEAN ]

(* An id #byId does not hold.                                              *)
Unknown == [ state |-> "absent", attempt |-> 0, waiting |-> FALSE,
             backoff |-> FALSE, durability |-> "none", cancelRequested |-> FALSE ]

(* One store call in a job's storeChain.                                   *)
Write == [ op      : {"create", "save", "remove", "acquire"},
           state   : {"queued", "running"},
           attempt : Nat,
           backoff : BOOLEAN,
           answer  : {"none", "ok", "held", "lost", "error"} ]

(* Rows handed over by load or adopt.                                      *)
Claims == [ jobs : SUBSET Job, attempt : [Job -> Nat], backoff : [Job -> BOOLEAN] ]

NoClaims == [ jobs |-> {}, attempt |-> [j \in Job |-> 0], backoff |-> [j \in Job |-> FALSE] ]

(* A #beat: waiting for renew, holding its answer, waiting for adopt, ...  *)
Beat == [ phase : {"none", "renewing", "renewed", "adopting", "adopted"},
          ids : SUBSET Job, got : Claims ]

NoBeat == [phase |-> "none", ids |-> {}, got |-> NoClaims]

Memory ==
  [ up       : BOOLEAN,
    ent      : [Job -> Entry],                  \* #byId
    queue    : SUBSET Job,                      \* #queued, as a set ...
    ahead    : SUBSET (Job \X Job),             \* ... and who stands before whom
    starting : SUBSET Job,                      \* #starting
    active   : SUBSET Job,                      \* #active
    deciding : SUBSET Job,                      \* the jobs #deciding counts
    busy     : SUBSET Lane,                     \* #busyLanes
    chain    : [Job -> Seq(Write)],             \* each entry's storeChain
    paused   : BOOLEAN,
    closed   : BOOLEAN,
    loading  : {"no", "asked", "answered"},     \* recover, awaiting load
    loaded   : Claims,
    timer    : BOOLEAN,                         \* #heartbeatTimer is armed
    beats    : [Beats -> Beat],
    drain    : {"none", "waiting", "resolved"}, \* a caller of drain
    close    : {"none", "waiting", "resolved"} ]\* the caller of close

(* A queue that has just been constructed, and one that is not there.      *)
Fresh ==
  [ up |-> TRUE, ent |-> [j \in Job |-> Unknown], queue |-> {}, ahead |-> {},
    starting |-> {}, active |-> {}, deciding |-> {}, busy |-> {},
    chain |-> [j \in Job |-> <<>>], paused |-> FALSE, closed |-> FALSE,
    loading |-> "no", loaded |-> NoClaims, timer |-> FALSE,
    beats |-> [b \in Beats |-> NoBeat], drain |-> "none", close |-> "none" ]

Down == [Fresh EXCEPT !.up = FALSE]

Known(m, j) == m.ent[j].state # "absent"
LeaseLost(e) == e.durability = "lost"

(* Mutant: a removal on its way is not counted.                            *)
Saving(m) ==
  \E j \in Job : \E i \in 1..Len(m.chain[j]) : m.chain[j][i].op = "save"

(* #writes counts the saves and removes of every chain, not the acquires.  *)
Writing(m) ==
  \E j \in Job : \E i \in 1..Len(m.chain[j]) : m.chain[j][i].op # "acquire"

Idle(m) ==
  /\ m.queue = {}
  /\ m.starting = {}
  /\ m.active = {}
  /\ m.deciding = {}
  /\ ~Writing(m)

(* #held: what a heartbeat renews.                                         *)
Held(m) == { j \in Job : /\ m.ent[j].state \in {"queued", "running"}
                         /\ m.ent[j].durability = "stored" }

-----------------------------------------------------------------------------
(* The #queued array: push, and splice out.                                *)

Push(m, j) ==
  [m EXCEPT !.ahead = @ \cup (m.queue \X {j}), !.queue = @ \cup {j}]

Pull(m, S) ==
  [m EXCEPT !.queue = @ \ S,
            !.ahead = { p \in @ : p[1] \notin S /\ p[2] \notin S }]

(* #checkIdle                                                              *)
CheckIdle(m) ==
  IF Idle(m)
  THEN [m EXCEPT !.drain = IF @ = "waiting" THEN "resolved" ELSE @,
                 !.close = IF @ = "waiting" THEN "resolved" ELSE @]
  ELSE m

(* Mutant: only the watch for abandoned work arms the timer.               *)
ScheduleWatch(m) ==
  IF Mode = "leased" /\ ~m.closed /\ ~m.paused THEN [m EXCEPT !.timer = TRUE] ELSE m

(* drain, for its own caller: an idle queue is not waited for.             *)
Awaited(m) == IF Idle(m) THEN "resolved" ELSE "waiting"

(* #scheduleHeartbeat                                                      *)
ScheduleHeartbeat(m) ==
  IF Mode = "leased" /\ ~m.closed /\ (Held(m) # {} \/ ~m.paused)
  THEN [m EXCEPT !.timer = TRUE]
  ELSE m

(* #persist for the jobs S: what #stored makes of each entry, appended to  *)
(* the job's own chain.                                                    *)
Snapshot(e, op) ==
  [ op      |-> op,
    state   |-> IF e.state = "running" THEN "running" ELSE "queued",
    attempt |-> e.attempt,
    backoff |-> e.backoff,
    answer  |-> "none" ]

Removal == [op |-> "remove", state |-> "queued", attempt |-> 0,
            backoff |-> FALSE, answer |-> "none"]

(* Mutant: a job whose lease is lost is still written.                     *)
PersistLost(m, S, op) ==
  [m EXCEPT !.chain = [j \in Job |->
     IF j \in S /\ m.ent[j].durability # "none"
     THEN Append(@[j], IF op = "remove" THEN Removal ELSE Snapshot(m.ent[j], op))
     ELSE @[j]]]

Persist(m, S, op) ==
  [m EXCEPT !.chain = [j \in Job |->
     IF j \in S /\ m.ent[j].durability \notin {"none", "lost"}
     THEN Append(@[j], IF op = "remove" THEN Removal ELSE Snapshot(m.ent[j], op))
     ELSE @[j]]]

(* #settle                                                                 *)
Settle(m, S, state) ==
  Persist([m EXCEPT !.ent = [j \in Job |->
             IF j \in S THEN [@[j] EXCEPT !.state = state] ELSE @[j]]], S, "remove")

(* #requeue                                                                *)
Requeue(m, j) ==
  Persist(Push([m EXCEPT !.ent[j].state = "queued",
                         !.ent[j].backoff = TRUE,
                         !.ent[j].waiting = TRUE], j), {j}, "save")

(* #lose: a queued job settles as failed, a running one is only signalled. *)
Lose(m, S) ==
  LET lost   == { j \in S : /\ m.ent[j].state \in {"queued", "running"}
                            /\ ~LeaseLost(m.ent[j]) }
      queued == { j \in lost : m.ent[j].state = "queued" }
      marked == [m EXCEPT !.ent = [j \in Job |->
                   IF j \in lost THEN [@[j] EXCEPT !.durability = "lost"] ELSE @[j]]]
  IN Settle(Pull(marked, queued), queued, "failed")

-----------------------------------------------------------------------------
(* #pump: which jobs the loop over #take starts, and what starting does.   *)

(* #take's tests on a candidate.                                           *)
Eligible(m) ==
  { j \in m.queue : /\ m.ent[j].durability # "pending"
                    /\ LaneOf[j] \notin m.busy
                    /\ ~m.ent[j].waiting }

(* Highest priority first, in queue order among equals.                    *)
ByPriority(m) ==
  { p \in m.queue \X m.queue :
      \/ Priority[p[1]] > Priority[p[2]]
      \/ Priority[p[1]] = Priority[p[2]] /\ p \in m.ahead }

(* The loop takes jobs in `order` while there are slots; the first of each *)
(* lane makes its lane busy for the rest.                                  *)
Taken(m, order) ==
  LET first == { j \in Eligible(m) :
                   \A k \in Eligible(m) :
                     <<k, j>> \in order =>
                       LaneOf[j] = NoLane \/ LaneOf[k] # LaneOf[j] }
  IN { j \in first :
         /\ ~m.paused
         /\ Cardinality({ k \in first : <<k, j>> \in order })
              + Cardinality(m.active) + Cardinality(m.starting) < Concurrency }

(* #sharesLanes                                                            *)
SharesLanes(m, j) ==
  /\ LaneOf[j] # NoLane
  /\ m.ent[j].durability = "stored"
  /\ Mode = "leased"

LanesOf(S) == { LaneOf[j] : j \in S } \ {NoLane}

(* #start for the jobs that share their lane, #run for the others.  #run   *)
(* saves the job as running; #start asks for the lane with the same claim. *)
(* Mutant: the attempts left are counted, not those made.                  *)
RunningDown(e) ==
  [e EXCEPT !.state = "running", !.attempt = @ - 1, !.backoff = FALSE, !.waiting = FALSE]

Running(e) ==
  [e EXCEPT !.state = "running", !.attempt = @ + 1, !.backoff = FALSE, !.waiting = FALSE]

Start(m, S) ==
  LET asks == { j \in S : SharesLanes(m, j) }
      runs == S \ asks
      begun == [m EXCEPT !.ent = [j \in Job |->
                  IF j \in runs THEN Running(@[j]) ELSE @[j]]]
      claim == [Persist(begun, runs, "save") EXCEPT !.chain = [j \in Job |->
                  IF j \in asks THEN Append(@[j], Snapshot(Running(m.ent[j]), "acquire"))
                  ELSE @[j]]]
  IN [Pull(claim, S) EXCEPT !.starting = @ \cup asks,
                            !.active = @ \cup runs,
                            !.busy = @ \cup LanesOf(S)]

Pump(m) == CheckIdle(ScheduleHeartbeat(Start(m, Taken(m, ByPriority(m)))))

(* #run with a lane already claimed: nothing is saved and nothing pumped.  *)
RunClaimed(m, j) ==
  [m EXCEPT !.ent[j] = Running(@), !.active = @ \cup {j}, !.busy = @ \cup LanesOf({j})]

(* The orders in which a batch of rows can be oldest first.                *)
AgeOrders(S) ==
  { age \in SUBSET (S \X S) :
      /\ \A i, j \in S : (i # j) <=> (<<i, j>> \in age \/ <<j, i>> \in age)
      /\ \A i, j \in S : ~(<<i, j>> \in age /\ <<j, i>> \in age)
      /\ \A i, j, k \in S : <<i, j>> \in age /\ <<j, k>> \in age => <<i, k>> \in age }

(* #restore for the rows handed over, oldest first, each admitted with a   *)
(* #pump of its own.  The first of those pumps chooses among everything    *)
(* queued; it leaves nothing that can start, so each later one has only    *)
(* its own new job to consider.                                            *)
NewClaims(m, claims) == { j \in claims.jobs : ~Known(m, j) }

RestoreAll(m, claims, age) ==
  LET S == NewClaims(m, claims)
      later == { j \in S : \E i \in S : <<i, j>> \in age }
      admitted ==
        [m EXCEPT !.ent = [j \in Job |->
                     IF j \in S
                     THEN [state |-> "queued", attempt |-> claims.attempt[j],
                           waiting |-> claims.backoff[j], backoff |-> claims.backoff[j],
                           durability |-> "stored", cancelRequested |-> FALSE]
                     ELSE @[j]],
                  !.queue = @ \cup S,
                  !.ahead = @ \cup (m.queue \X S) \cup age]
      order == { p \in ByPriority(admitted) : p[1] \notin later /\ p[2] \notin later }
                 \cup { p \in admitted.ahead : p[2] \in later }
  IN IF S = {} THEN m
     ELSE CheckIdle(ScheduleHeartbeat(Start(admitted, Taken(admitted, order))))

-----------------------------------------------------------------------------
(* Steps.  Becomes(w, m) is the effect of a handler of worker w that leaves *)
(* the process's memory as m and touches nothing else.                      *)

Spend(kind) ==
  /\ used[kind] < Limit[kind]
  /\ used["crash"] + used["lapse"] + used["error"] + used["cancel"]
       + used["pause"] + used["drain"] + used["close"] < Budget
  /\ used' = [used EXCEPT ![kind] = @ + 1]

Becomes(w, m) == mem' = [mem EXCEPT ![w] = m]

(* What the environment calls: the public methods.                         *)

Enqueue(w, j) ==
  LET m == mem[w]
      e == [Unknown EXCEPT !.state = "queued",
                           !.durability = IF Mode = "memory" THEN "none" ELSE "pending"]
      created == Persist([m EXCEPT !.ent[j] = e], {j}, "create")
  IN /\ m.up
     /\ ~m.closed
     /\ j \notin submitted
     /\ ~Known(m, j)
     /\ Becomes(w, Pump(Push(created, j)))
     /\ submitted' = submitted \cup {j}
     /\ UNCHANGED <<row, lapsed, used>>

CancelQueued(w, j) ==
  /\ mem[w].up
  /\ mem[w].ent[j].state = "queued"
  /\ Spend("cancel")
  /\ Becomes(w, Pump(Settle(Pull(mem[w], {j}), {j}, "cancelled")))
  /\ UNCHANGED <<row, submitted, lapsed>>

CancelRunning(w, j) ==
  /\ mem[w].up
  /\ mem[w].ent[j].state = "running"
  /\ ~mem[w].ent[j].cancelRequested
  /\ Spend("cancel")
  /\ Becomes(w, [mem[w] EXCEPT !.ent[j].cancelRequested = TRUE])
  /\ UNCHANGED <<row, submitted, lapsed>>

Pause(w) ==
  /\ mem[w].up
  /\ ~mem[w].paused
  /\ Spend("pause")
  /\ Becomes(w, [mem[w] EXCEPT !.paused = TRUE])
  /\ UNCHANGED <<row, submitted, lapsed>>

(* resume, by whoever paused.  AuditScheduler.recover holds the queue      *)
(* paused until the load has been handled and then resumes it.             *)
Resume(w) ==
  /\ mem[w].up
  /\ mem[w].paused
  /\ ~mem[w].closed
  /\ mem[w].loading = "no"
  /\ Becomes(w, Pump([mem[w] EXCEPT !.paused = FALSE]))
  /\ UNCHANGED <<row, submitted, lapsed, used>>

Drain(w) ==
  /\ mem[w].up
  /\ mem[w].drain = "none"
  /\ Spend("drain")
  /\ Becomes(w, [mem[w] EXCEPT !.drain = Awaited(mem[w])])
  /\ UNCHANGED <<row, submitted, lapsed>>

(* close cancels what is queued or starting, each with a pump that tells   *)
(* the other waiters, signals what is active, and then waits like drain.   *)
(* startApi's close calls it only once recovery has been handled.          *)
Close(w) ==
  LET m == mem[w]
      waiting == m.queue \cup { j \in m.starting : m.ent[j].state = "queued" }
      shut == [m EXCEPT !.closed = TRUE, !.paused = TRUE, !.timer = FALSE,
                        !.ent = [j \in Job |-> IF j \in m.active
                                               THEN [@[j] EXCEPT !.cancelRequested = TRUE]
                                               ELSE @[j]]]
      settled == Settle(Pull(shut, waiting), waiting, "cancelled")
      told == IF waiting = {} THEN settled ELSE CheckIdle(settled)
  IN /\ m.up
     /\ ~m.closed
     /\ m.loading = "no"
     /\ Spend("close")
     /\ Becomes(w, [told EXCEPT !.close = Awaited(told)])
     /\ UNCHANGED <<row, submitted, lapsed>>

(* The store chain: the database executes the call at the head of a job's  *)
(* chain, or the call fails with or without having been executed.          *)

AnswerHead(m, j, answer) ==
  [m EXCEPT !.chain[j][1].answer = answer]

DropHead(m, j) == [m EXCEPT !.chain[j] = Tail(@)]

Asked(m, j) == m.chain[j] # <<>> /\ Head(m.chain[j]).answer = "none"
Answered(m, j) == m.chain[j] # <<>> /\ Head(m.chain[j]).answer # "none"

(* The answer a call gets, and the table it leaves.                        *)
Answer(w, j, write) ==
  CASE write.op = "remove" -> "ok"
    [] write.op = "acquire" /\ LaneHeldElsewhere(row, w, j) -> "held"
    [] OTHER -> IF Writable(row, w, j) THEN "ok" ELSE "lost"

Executed(w, j, write) ==
  IF write.op = "remove" THEN Removed(row, w, j)
  ELSE IF Answer(w, j, write) = "ok" THEN Written(row, w, j, write) ELSE row

StoreExecutes(w, j) ==
  /\ mem[w].up
  /\ Asked(mem[w], j)
  /\ row' = Executed(w, j, Head(mem[w].chain[j]))
  /\ Becomes(w, AnswerHead(mem[w], j, Answer(w, j, Head(mem[w].chain[j]))))
  /\ UNCHANGED <<submitted, lapsed, used>>

StoreFails(w, j) ==
  /\ mem[w].up
  /\ Asked(mem[w], j)
  /\ Spend("error")
  /\ row' \in {row, Executed(w, j, Head(mem[w].chain[j]))}
  /\ Becomes(w, AnswerHead(mem[w], j, "error"))
  /\ UNCHANGED <<submitted, lapsed>>

(* Mutants: a refused create settles a job that has settled already; the   *)
(* stored job waits for some later pump.                                   *)
CreateSettlesAgain(w, j) ==
  LET m == DropHead(mem[w], j)
  IN /\ mem[w].up
     /\ Answered(mem[w], j)
     /\ Head(mem[w].chain[j]).op = "create"
     /\ Becomes(w, Pump(IF Head(mem[w].chain[j]).answer = "ok"
                        THEN [m EXCEPT !.ent[j].durability = "stored"]
                        ELSE Settle(Pull(m, {j}), {j}, "failed")))
     /\ UNCHANGED <<row, submitted, lapsed, used>>

CreateSettlesQuietly(w, j) ==
  LET m == DropHead(mem[w], j)
  IN /\ mem[w].up
     /\ Answered(mem[w], j)
     /\ Head(mem[w].chain[j]).op = "create"
     /\ Becomes(w, IF Head(mem[w].chain[j]).answer = "ok"
                   THEN [m EXCEPT !.ent[j].durability = "stored"]
                   ELSE CheckIdle(Settle(Pull(m, {j}), {j}, "failed")))
     /\ UNCHANGED <<row, submitted, lapsed, used>>

(* #create's continuation: the job becomes eligible, or settles unrun.     *)
CreateSettles(w, j) ==
  LET m == DropHead(mem[w], j)
      stored == [m EXCEPT !.ent[j].durability = "stored"]
      refused == IF m.ent[j].state \in Terminal THEN m
                 ELSE Settle(Pull(m, {j}), {j}, "failed")
  IN /\ mem[w].up
     /\ Answered(mem[w], j)
     /\ Head(mem[w].chain[j]).op = "create"
     /\ Becomes(w, Pump(IF Head(mem[w].chain[j]).answer = "ok" THEN stored ELSE refused))
     /\ UNCHANGED <<row, submitted, lapsed, used>>

(* Mutant: the last write to land tells nobody.                            *)
WriteSettlesQuietly(w, j) ==
  LET m == DropHead(mem[w], j)
  IN /\ mem[w].up
     /\ Answered(mem[w], j)
     /\ Head(mem[w].chain[j]).op \in {"save", "remove"}
     /\ Becomes(w, IF Head(mem[w].chain[j]).answer = "lost" THEN Lose(m, {j}) ELSE m)
     /\ UNCHANGED <<row, submitted, lapsed, used>>

(* #persist's continuation.                                                *)
WriteSettles(w, j) ==
  LET m == DropHead(mem[w], j)
  IN /\ mem[w].up
     /\ Answered(mem[w], j)
     /\ Head(mem[w].chain[j]).op \in {"save", "remove"}
     /\ Becomes(w, CheckIdle(IF Head(mem[w].chain[j]).answer = "lost"
                             THEN Lose(m, {j}) ELSE m))
     /\ UNCHANGED <<row, submitted, lapsed, used>>

(* Mutant: a job refused its lane is put back though it was cancelled.     *)
AcquireSettlesBlindly(w, j) ==
  LET answer == Head(mem[w].chain[j]).answer
      m == DropHead(mem[w], j)
      told == IF answer = "lost" THEN Lose(m, {j}) ELSE m
      freed == [told EXCEPT !.starting = @ \ {j}, !.busy = @ \ {LaneOf[j]}]
  IN /\ mem[w].up
     /\ Answered(mem[w], j)
     /\ Head(mem[w].chain[j]).op = "acquire"
     /\ Becomes(w, IF answer = "ok" THEN RunClaimed(freed, j)
                   ELSE Pump(Push([freed EXCEPT !.ent[j].waiting = TRUE], j)))
     /\ UNCHANGED <<row, submitted, lapsed, used>>

(* #start's continuation.  The slot and the lane are given back first; a   *)
(* job settled meanwhile stays settled; anything but a grant puts the job  *)
(* back in line until a heartbeat from now.                                *)
AcquireSettles(w, j) ==
  LET answer == Head(mem[w].chain[j]).answer
      m == DropHead(mem[w], j)
      told == IF answer = "lost" THEN Lose(m, {j}) ELSE m
      freed == [told EXCEPT !.starting = @ \ {j}, !.busy = @ \ {LaneOf[j]}]
  IN /\ mem[w].up
     /\ Answered(mem[w], j)
     /\ Head(mem[w].chain[j]).op = "acquire"
     /\ Becomes(w, CASE freed.ent[j].state \in Terminal -> Pump(freed)
                     [] freed.ent[j].state \notin Terminal /\ answer = "ok" ->
                          RunClaimed(freed, j)
                     [] OTHER -> Pump(Push([freed EXCEPT !.ent[j].waiting = TRUE], j)))
     /\ UNCHANGED <<row, submitted, lapsed, used>>

(* The handler and the retry policy.                                       *)

(* Mutant: the slot goes back and the lane does not.                       *)
ReleasedSlot(m, j) == [m EXCEPT !.active = @ \ {j}]

(* #run after the handler: the slot and the lane go back, and a lost lease *)
(* outranks a cancellation, which outranks the handler's own outcome.      *)
Released(m, j) ==
  [m EXCEPT !.active = @ \ {j}, !.busy = @ \ {LaneOf[j]}]

HandlerReturns(w, j) ==
  LET m == Released(mem[w], j)
      e == m.ent[j]
  IN /\ mem[w].up
     /\ j \in mem[w].active
     /\ Becomes(w, Pump(Settle(m, {j},
                   IF LeaseLost(e) THEN "failed"
                   ELSE IF e.cancelRequested THEN "cancelled" ELSE "complete")))
     /\ UNCHANGED <<row, submitted, lapsed, used>>

(* #retryDelay asks nobody on a closed queue.                              *)
HandlerThrows(w, j) ==
  LET m == Released(mem[w], j)
      e == m.ent[j]
  IN /\ mem[w].up
     /\ j \in mem[w].active
     /\ Becomes(w, CASE LeaseLost(e) -> Pump(Settle(m, {j}, "failed"))
                     [] ~LeaseLost(e) /\ e.cancelRequested ->
                          Pump(Settle(m, {j}, "cancelled"))
                     [] OTHER -> IF m.closed THEN Pump(Settle(m, {j}, "failed"))
                                 ELSE [m EXCEPT !.deciding = @ \cup {j}])
     /\ UNCHANGED <<row, submitted, lapsed, used>>

(* Mutant: a cancellation made while the policy decides is not seen.       *)
PolicyOverrules(w, j) ==
  LET m == mem[w]
      decided == [m EXCEPT !.deciding = @ \ {j}]
  IN /\ m.up
     /\ j \in m.deciding
     /\ \E again \in BOOLEAN :
          /\ again => m.ent[j].attempt < MaxAttempts
          /\ Becomes(w, Pump(IF again THEN Requeue(decided, j)
                             ELSE Settle(decided, {j}, "failed")))
     /\ UNCHANGED <<row, submitted, lapsed, used>>

(* #run after the policy: exponentialBackoff answers null once the limit   *)
(* is reached, and may answer null before it (not retryable, a throw).     *)
PolicyAnswers(w, j) ==
  LET m == mem[w]
      decided == [m EXCEPT !.deciding = @ \ {j}]
  IN /\ m.up
     /\ j \in m.deciding
     /\ \E again \in BOOLEAN :
          /\ again => m.ent[j].attempt < MaxAttempts
          /\ Becomes(w, Pump(CASE m.ent[j].cancelRequested -> Settle(decided, {j}, "cancelled")
                               [] ~m.ent[j].cancelRequested /\ again -> Requeue(decided, j)
                               [] OTHER -> Settle(decided, {j}, "failed")))
     /\ UNCHANGED <<row, submitted, lapsed, used>>

(* The instant dueAt is reached.  #scheduleWake keeps a timer for it that  *)
(* pumps, except on a paused queue, where resume does.                     *)
Wake(w, j) ==
  LET due == [mem[w] EXCEPT !.ent[j].waiting = FALSE]
  IN /\ mem[w].up
     /\ j \in mem[w].queue
     /\ mem[w].ent[j].waiting
     /\ Becomes(w, IF due.paused THEN due ELSE Pump(due))
     /\ UNCHANGED <<row, submitted, lapsed, used>>

-----------------------------------------------------------------------------
(* The heartbeat.                                                          *)

ClaimsOf(S) ==
  [ jobs    |-> S,
    attempt |-> [j \in Job |-> IF j \in S THEN row[j].attempt ELSE 0],
    backoff |-> [j \in Job |-> j \in S /\ row[j].backoff] ]

EndBeat(m, b) == Pump(ScheduleHeartbeat([m EXCEPT !.beats[b] = NoBeat]))

(* #adopt returns at once on a paused or closed queue.                     *)
AskToAdopt(m, b) ==
  IF m.paused \/ m.closed THEN EndBeat(m, b)
  ELSE [m EXCEPT !.beats[b] = [NoBeat EXCEPT !.phase = "adopting"]]

(* The timer fires and #beat runs up to its first await.                   *)
BeatStarts(w, b) ==
  LET m == [mem[w] EXCEPT !.timer = FALSE]
  IN /\ mem[w].up
     /\ mem[w].timer
     /\ m.beats[b] = NoBeat
     /\ Becomes(w, IF Held(m) = {} THEN AskToAdopt(m, b)
                   ELSE [m EXCEPT !.beats[b] = [NoBeat EXCEPT !.phase = "renewing",
                                                              !.ids = Held(m)]])
     /\ UNCHANGED <<row, submitted, lapsed, used>>

RenewExecutes(w, b) ==
  LET ids == mem[w].beats[b].ids
  IN /\ mem[w].up
     /\ mem[w].beats[b].phase = "renewing"
     /\ row' = RenewedRows(row, w, ids)
     /\ Becomes(w, [mem[w] EXCEPT !.beats[b] =
                     [@ EXCEPT !.phase = "renewed", !.ids = RenewLost(row, w, ids)]])
     /\ UNCHANGED <<submitted, lapsed, used>>

Renewed(w, b) ==
  /\ mem[w].up
  /\ mem[w].beats[b].phase = "renewed"
  /\ Becomes(w, AskToAdopt(Lose(mem[w], mem[w].beats[b].ids), b))
  /\ UNCHANGED <<row, submitted, lapsed, used>>

AdoptExecutes(w, b) ==
  /\ mem[w].up
  /\ mem[w].beats[b].phase = "adopting"
  /\ \E S \in AdoptionBatches(row, w) :
       /\ row' = ClaimedAsQueued(row, w, S)
       /\ Becomes(w, [mem[w] EXCEPT !.beats[b] =
                       [@ EXCEPT !.phase = "adopted", !.got = ClaimsOf(S)]])
  /\ UNCHANGED <<submitted, lapsed, used>>

Adopted(w, b) ==
  LET got == mem[w].beats[b].got
  IN /\ mem[w].up
     /\ mem[w].beats[b].phase = "adopted"
     /\ \E age \in AgeOrders(NewClaims(mem[w], got)) :
          Becomes(w, EndBeat(RestoreAll(mem[w], got, age), b))
     /\ UNCHANGED <<row, submitted, lapsed, used>>

(* A renew or an adopt that throws, executed or not, is left for the next  *)
(* beat.                                                                   *)
BeatFails(w, b) ==
  /\ mem[w].up
  /\ Spend("error")
  /\ \/ /\ mem[w].beats[b].phase = "renewing"
        /\ row' \in {row, RenewedRows(row, w, mem[w].beats[b].ids)}
        /\ Becomes(w, AskToAdopt(mem[w], b))
     \/ /\ mem[w].beats[b].phase = "adopting"
        /\ row' \in {row} \cup { ClaimedAsQueued(row, w, S) : S \in AdoptionBatches(row, w) }
        /\ Becomes(w, EndBeat(mem[w], b))
  /\ UNCHANGED <<submitted, lapsed>>

-----------------------------------------------------------------------------
(* Processes and leases.                                                   *)

(* A process comes up: AuditScheduler.recover pauses the queue and the     *)
(* queue asks the store for its backlog.                                   *)
Boot(w) ==
  /\ ~mem[w].up
  /\ Becomes(w, [Fresh EXCEPT !.paused = TRUE,
                              !.loading = IF Mode = "memory" THEN "no" ELSE "asked"])
  /\ UNCHANGED <<row, submitted, lapsed, used>>

LoadExecutes(w) ==
  /\ mem[w].up
  /\ mem[w].loading = "asked"
  /\ \E S \in LoadBatches(row, w) :
       /\ row' = ClaimedAsQueued(row, w, S)
       /\ Becomes(w, [mem[w] EXCEPT !.loading = "answered", !.loaded = ClaimsOf(S)])
  /\ UNCHANGED <<submitted, lapsed, used>>

Recovered(w) ==
  LET m == [mem[w] EXCEPT !.loading = "no", !.loaded = NoClaims]
      got == mem[w].loaded
  IN /\ mem[w].up
     /\ mem[w].loading = "answered"
     /\ \E age \in AgeOrders(NewClaims(m, got)) :
          Becomes(w, ScheduleHeartbeat(RestoreAll(m, got, age)))
     /\ UNCHANGED <<row, submitted, lapsed, used>>

LoadFails(w) ==
  /\ mem[w].up
  /\ mem[w].loading = "asked"
  /\ Spend("error")
  /\ row' \in {row} \cup { ClaimedAsQueued(row, w, S) : S \in LoadBatches(row, w) }
  /\ Becomes(w, [mem[w] EXCEPT !.loading = "no"])
  /\ UNCHANGED <<submitted, lapsed>>

(* Everything in memory goes, and every call not yet executed with it.     *)
Crash(w) ==
  /\ mem[w].up
  /\ Spend("crash")
  /\ Becomes(w, Down)
  /\ lapsed' = lapsed \ {w}
  /\ UNCHANGED <<row, submitted>>

(* Nothing in m's process knows of a claim on j, or is about to.           *)
Unaware(m, j) ==
  /\ m.chain[j] = <<>>
  /\ j \notin Held(m) \cup m.loaded.jobs
  /\ \A b \in Beats : j \notin m.beats[b].got.jobs

(* A claim outlives its lease: nobody is there to renew it ...             *)
LeaseAges(j) ==
  /\ Mode = "leased"
  /\ row[j].state # "absent" /\ row[j].live
  /\ \A w \in Worker : row[j].owner = w => ~mem[w].up \/ Unaware(mem[w], j)
  /\ row' = [row EXCEPT ![j].live = FALSE]
  /\ UNCHANGED <<mem, submitted, lapsed, used>>

(* ... or its owner was too slow.                                          *)
LeaseLapses(j) ==
  /\ Mode = "leased"
  /\ row[j].state # "absent" /\ row[j].live
  /\ Spend("lapse")
  /\ \E w \in Worker :
       /\ row[j].owner = w
       /\ mem[w].up /\ ~Unaware(mem[w], j)
       /\ lapsed' = lapsed \cup {w}
  /\ row' = [row EXCEPT ![j].live = FALSE]
  /\ UNCHANGED <<mem, submitted>>

-----------------------------------------------------------------------------
Init ==
  /\ row = [j \in Job |-> NoRow]
  /\ mem = [w \in Worker |-> ScheduleHeartbeat(Fresh)]
  /\ submitted = {}
  /\ lapsed = {}
  /\ used = [k \in Kinds |-> 0]

Next ==
  \/ \E w \in Worker :
       \/ Pause(w) \/ Resume(w) \/ Drain(w) \/ Close(w) \/ Crash(w)
       \/ Boot(w) \/ LoadExecutes(w) \/ LoadFails(w) \/ Recovered(w)
  \/ \E w \in Worker, j \in Job :
       \/ Enqueue(w, j) \/ CancelQueued(w, j) \/ CancelRunning(w, j)
       \/ StoreExecutes(w, j) \/ StoreFails(w, j)
       \/ CreateSettles(w, j) \/ WriteSettles(w, j) \/ AcquireSettles(w, j)
       \/ HandlerReturns(w, j) \/ HandlerThrows(w, j) \/ PolicyAnswers(w, j)
       \/ Wake(w, j)
  \/ \E w \in Worker, b \in Beats :
       \/ BeatStarts(w, b) \/ RenewExecutes(w, b) \/ Renewed(w, b)
       \/ AdoptExecutes(w, b) \/ Adopted(w, b) \/ BeatFails(w, b)
  \/ \E j \in Job : LeaseAges(j) \/ LeaseLapses(j)

Spec == Init /\ [][Next]_vars

(* What the runtime keeps doing: the database answers, promises continue,  *)
(* handlers and policies return, timers fire, a paused recovery resumes,   *)
(* and a claim nobody renews ages out.  Clients, crashes and restarts owe  *)
(* nothing.                                                                *)
Recovers(w) == LoadExecutes(w) \/ Recovered(w) \/ Resume(w)

Proceeds(w, j) ==
  \/ StoreExecutes(w, j)
  \/ CreateSettles(w, j) \/ WriteSettles(w, j) \/ AcquireSettles(w, j)
  \/ HandlerReturns(w, j) \/ HandlerThrows(w, j) \/ PolicyAnswers(w, j)
  \/ Wake(w, j)

Beating(w, b) ==
  \/ BeatStarts(w, b) \/ RenewExecutes(w, b) \/ Renewed(w, b)
  \/ AdoptExecutes(w, b) \/ Adopted(w, b)

(* Some action of Recovers, Proceeds or Beating is enabled.  They are      *)
(* spelled out, and the fairness below is written with them, because TLC   *)
(* evaluates ENABLED of these composed steps a hundred times slower.       *)
CanRecover(m) == m.up /\ (m.loading # "no" \/ (m.paused /\ ~m.closed))

CanProceed(m, j) ==
  /\ m.up
  /\ \/ m.chain[j] # <<>>
     \/ j \in m.active \cup m.deciding
     \/ j \in m.queue /\ m.ent[j].waiting

CanBeat(m, b) == m.up /\ (m.timer \/ m.beats[b] # NoBeat)

(* Weak fairness: in the long run an enabled step is taken.                *)
Fairness ==
  /\ \A w \in Worker : []<>~CanRecover(mem[w]) \/ []<><<Recovers(w)>>_vars
  /\ \A w \in Worker, j \in Job :
       []<>~CanProceed(mem[w], j) \/ []<><<Proceeds(w, j)>>_vars
  /\ \A w \in Worker, b \in Beats :
       []<>~CanBeat(mem[w], b) \/ []<><<Beating(w, b)>>_vars
  /\ \A j \in Job : WF_vars(LeaseAges(j))

FairSpec == Spec /\ Fairness

-----------------------------------------------------------------------------
(* Properties.                                                             *)

(* The variables hold the kinds of value the code keeps in them.           *)
TypeOK ==
  /\ row \in Table
  /\ mem \in [Worker -> Memory]
  /\ submitted \in SUBSET Job
  /\ lapsed \in SUBSET Worker
  /\ used \in [Kinds -> Nat]

(* "The site sees one crawler however many processes share the work": as   *)
(* long as two workers keep their claims, they never run two jobs of one   *)
(* lane at the same time (acquire, #busyLanes, adopt, load).               *)
LanesExcluded ==
  \A v, w \in Worker \ lapsed :
    v # w => LanesOf(mem[v].active) \cap LanesOf(mem[w].active) = {}

(* Nor do they ever run the same job, laned or not, through any crash,     *)
(* adoption or recovery of other workers.                                  *)
SingleRunner ==
  \A v, w \in Worker \ lapsed :
    v # w => mem[v].active \cap mem[w].active = {}

(* A job whose `stored` has resolved and that has not settled is in the    *)
(* table under this worker's name: a crash at any moment loses nothing     *)
(* that was acknowledged, and what runs is always something a restart      *)
(* would find.                                                             *)
AcknowledgedIsStored ==
  \A w \in Worker \ lapsed : \A j \in Job :
    (mem[w].up /\ (j \in Held(mem[w]) \/ j \in mem[w].active) /\ Mode # "memory")
      => row[j].state # "absent" /\ row[j].owner = w

(* A laned job's attempt is in the table before its handler starts and     *)
(* stays there while it runs, so a job that takes the process down comes   *)
(* back having used the attempt.                                           *)
AttemptRecorded ==
  \A w \in Worker \ lapsed : \A j \in mem[w].active :
    (Mode = "leased" /\ LaneOf[j] # NoLane)
      => row[j].state = "running" /\ row[j].attempt = mem[w].ent[j].attempt

(* While a queue holds a claim, a beat is armed or under way to renew it:  *)
(* no path through the handlers forgets the timer.                         *)
HeldIsRenewed ==
  \A w \in Worker :
    (mem[w].up /\ ~mem[w].closed /\ Mode = "leased" /\ Held(mem[w]) # {})
      => mem[w].timer \/ \E b \in Beats : mem[w].beats[b] # NoBeat

(* A job whose lease is gone gets no further store write: the row is the   *)
(* new owner's.                                                            *)
LostWritesNothing ==
  [][\A w \in Worker, j \in Job :
       (mem[w].up /\ mem'[w].up /\ LeaseLost(mem[w].ent[j]))
         => Len(mem'[w].chain[j]) <= Len(mem[w].chain[j])]_vars

(* Every unfinished job is in exactly one of #queued, #starting, #active   *)
(* and the count of jobs being decided, and a finished one in none of      *)
(* them, save that its lane may still be being asked for.                  *)
Accounted ==
  \A w \in Worker, j \in Job :
    LET m == mem[w]
        places == <<j \in m.queue, j \in m.starting, j \in m.active, j \in m.deciding>>
        here == { i \in 1..4 : places[i] }
    IN CASE m.ent[j].state = "queued"  -> Cardinality(here) = 1 /\ here \subseteq {1, 2}
         [] m.ent[j].state = "running" -> Cardinality(here) = 1 /\ here \subseteq {3, 4}
         [] OTHER -> here \subseteq {2}

(* The slots and lanes in use are those of the jobs that are starting or   *)
(* running: none is leaked by a job that was cancelled, lost or refused    *)
(* on the way, and no lane is given back while a second job still uses it. *)
SlotsAccounted ==
  \A w \in Worker :
    /\ mem[w].busy = LanesOf(mem[w].starting \cup mem[w].active)
    /\ Cardinality(mem[w].starting) + Cardinality(mem[w].active) <= Concurrency
    /\ \A i, j \in mem[w].starting \cup mem[w].active :
         (i # j /\ LaneOf[i] = LaneOf[j]) => LaneOf[i] = NoLane

(* No job that could start is left waiting for some later event to pump    *)
(* the queue.  While a retry policy is deciding this does fail: #run gives *)
(* the slot and the lane back (queue.ts:976-977) and pumps only after it.  *)
WorkConserving ==
  \A w \in Worker :
    mem[w].deciding = {} => Taken(mem[w], ByPriority(mem[w])) = {}

(* Nobody waits on drain or close while the queue is idle: every path that *)
(* makes it idle tells them.  The one that tells them late is #beat: #lose *)
(* may settle the last queued job, and the pump that calls #checkIdle      *)
(* comes only once the adoption it goes on to ask for has been answered    *)
(* (queue.ts:742-749, 1087).                                               *)
IdleIsReported ==
  \A w \in Worker :
    Idle(mem[w]) =>
      \/ mem[w].drain # "waiting" /\ mem[w].close # "waiting"
      \/ \E b \in Beats : mem[w].beats[b].phase \in {"adopting", "adopted"}

(* What drain promises to a caller that then takes the process with it:    *)
(* an idle queue has left nothing in the table for a restart to run again, *)
(* unless a store call failed, a lease lapsed under a worker that was up,  *)
(* or, where rows carry no lease, a restart took over the others' rows.    *)
DrainedIsClean ==
  \A w \in Worker :
    ( /\ mem[w].up /\ Idle(mem[w])
      /\ mem[w].loading = "no" /\ \A b \in Beats : mem[w].beats[b] = NoBeat
      /\ used["error"] = 0 /\ used["lapse"] = 0
      /\ Mode = "leased" \/ used["crash"] = 0 )
      => \A j \in Job : row[j].state = "absent" \/ row[j].owner # w

(* Within one process a settled job stays settled, whatever answers about  *)
(* it are still on their way, and never runs.                              *)
TerminalIsFinal ==
  [][\A w \in Worker, j \in Job :
       (mem[w].up /\ mem'[w].up /\ mem[w].ent[j].state \in Terminal)
         => /\ mem'[w].ent[j].state = mem[w].ent[j].state
            /\ j \notin mem'[w].active]_vars

(* A running job someone cancelled never completes and never comes back,   *)
(* even when the cancellation lands while the policy is deciding.          *)
CancelWins ==
  [][\A w \in Worker, j \in Job :
       (mem[w].up /\ mem'[w].up /\ mem[w].ent[j].cancelRequested)
         => mem'[w].ent[j].state \notin {"queued", "complete"}]_vars

(* JobLeaseLostError: "The job is not retried here".                       *)
LostIsNotRetried ==
  \A w \in Worker, j \in Job : ~(LeaseLost(mem[w].ent[j]) /\ mem[w].ent[j].state = "queued")

(* store.ts: "the retry policy's limit still counts a crash as an attempt" *)
(* so that a job that crashes the process is not restarted forever.        *)
AttemptsBounded ==
  \A w \in Worker, j \in Job : mem[w].ent[j].attempt <= MaxAttempts

(* JobStore.adopt: what comes back "is the new owner's to schedule".  A    *)
(* row under the name of a worker that is up is one that worker holds, or  *)
(* has a store call or a claim about on its way.                           *)
ClaimedIsTracked ==
  \A w \in Worker, j \in Job :
    (mem[w].up /\ mem[w].loading = "no" /\ row[j].state # "absent" /\ row[j].owner = w)
      => ~Unaware(mem[w], j)

(* close: "resolve once every handler has returned".                       *)
CloseResolves ==
  \A w \in Worker : mem[w].close = "waiting" ~> mem[w].close # "waiting"

=============================================================================
