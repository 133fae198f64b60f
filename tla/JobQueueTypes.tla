--------------------------- MODULE JobQueueTypes ---------------------------
(***************************************************************************)
(* Every step of JobQueue keeps the type invariant, for any number of      *)
(* workers and jobs and in every mode.  First the helpers, each from a     *)
(* memory to a memory; then one lemma per action; then the theorem.  Last, *)
(* the helpers a handler is composed of (Push, Pull, Persist, Settle,      *)
(* Requeue, Start, Pump, RestoreAll and the others) keep the invariant of  *)
(* JobQueueInv, from any memory that fits the table.  The actions follow   *)
(* in JobQueueSafety.                                                      *)
(***************************************************************************)
EXTENDS JobQueueInv, SequenceTheorems, TLAPS

LEMMA PushType ==
  ASSUME NEW m \in Memory, NEW j \in Job
  PROVE  Push(m, j) \in Memory
BY DEF Push, Memory

LEMMA PullType ==
  ASSUME NEW m \in Memory, NEW S \in SUBSET Job
  PROVE  Pull(m, S) \in Memory
BY DEF Pull, Memory

LEMMA CheckIdleType ==
  ASSUME NEW m \in Memory
  PROVE  CheckIdle(m) \in Memory
<1> DEFINE drain == IF m.drain = "waiting" THEN "resolved" ELSE m.drain
           close == IF m.close = "waiting" THEN "resolved" ELSE m.close
<1>1. drain \in {"none", "waiting", "resolved"} /\ close \in {"none", "waiting", "resolved"}
  BY DEF Memory
<1>2. CheckIdle(m) = IF Idle(m) THEN [m EXCEPT !.drain = drain, !.close = close] ELSE m
  BY DEF CheckIdle
<1>3. \A d, c \in {"none", "waiting", "resolved"} : [m EXCEPT !.drain = d, !.close = c] \in Memory
  BY DEF Memory
<1> HIDE DEF drain, close
<1> QED BY <1>1, <1>2, <1>3

LEMMA ScheduleHeartbeatType ==
  ASSUME NEW m \in Memory
  PROVE  ScheduleHeartbeat(m) \in Memory
<1>1. [m EXCEPT !.timer = TRUE] \in Memory
  BY DEF Memory
<1> QED BY <1>1 DEF ScheduleHeartbeat

LEMMA SnapshotType ==
  ASSUME NEW e \in Entry, NEW op \in {"create", "save", "acquire"}
  PROVE  Snapshot(e, op) \in Write
BY DEF Snapshot, Write, Entry

LEMMA PersistType ==
  ASSUME NEW m \in Memory, NEW S \in SUBSET Job, NEW op \in {"create", "save", "remove"}
  PROVE  Persist(m, S, op) \in Memory
<1> DEFINE appended(j) == Append(m.chain[j], IF op = "remove" THEN Removal ELSE Snapshot(m.ent[j], op))
           chain == [j \in Job |->
     IF j \in S /\ m.ent[j].durability \notin {"none", "lost"}
     THEN appended(j)
     ELSE m.chain[j]]
<1>1. ASSUME NEW j \in Job PROVE appended(j) \in Seq(Write) /\ m.chain[j] \in Seq(Write)
  <2>1. m.ent[j] \in Entry /\ m.chain[j] \in Seq(Write)
    BY DEF Memory
  <2>2. Removal \in Write
    BY DEF Removal, Write
  <2>3. op # "remove" => Snapshot(m.ent[j], op) \in Write
    BY <2>1, SnapshotType
  <2> QED BY <2>1, <2>2, <2>3
<1>2. chain \in [Job -> Seq(Write)]
  BY <1>1
<1>3. Persist(m, S, op) = [m EXCEPT !.chain = chain]
  BY DEF Persist
<1> HIDE DEF chain
<1> QED BY <1>2, <1>3 DEF Memory

LEMMA SettleType ==
  ASSUME NEW m \in Memory, NEW S \in SUBSET Job, NEW state \in Terminal
  PROVE  Settle(m, S, state) \in Memory
<1> DEFINE ent == [j \in Job |-> IF j \in S THEN [m.ent[j] EXCEPT !.state = state] ELSE m.ent[j]]
           n == [m EXCEPT !.ent = ent]
<1>1. ent \in [Job -> Entry]
  <2>1. ASSUME NEW j \in Job PROVE m.ent[j] \in Entry
    BY DEF Memory
  <2> QED BY <2>1 DEF Entry
<1>2. n \in Memory
  <2> HIDE DEF ent
  <2> QED BY <1>1 DEF Memory
<1>3. Settle(m, S, state) = Persist(n, S, "remove")
  BY DEF Settle
<1> QED BY <1>2, <1>3, PersistType
LEMMA RequeueType ==
  ASSUME NEW m \in Memory, NEW j \in Job
  PROVE  Requeue(m, j) \in Memory
<1> DEFINE n == [m EXCEPT !.ent[j].state = "queued", !.ent[j].backoff = TRUE,
                          !.ent[j].waiting = TRUE]
           e == [m.ent[j] EXCEPT !.state = "queued", !.backoff = TRUE, !.waiting = TRUE]
<1>1. e \in Entry
  <2>1. m.ent[j] \in Entry
    BY DEF Memory
  <2> QED BY <2>1 DEF Entry
<1>2. n = [m EXCEPT !.ent = [m.ent EXCEPT ![j] = e]]
  BY ZenonT(60) DEF Memory
<1>3. n \in Memory
  <2> HIDE DEF e, n
  <2> QED BY <1>1, <1>2 DEF Memory
<1>4. Requeue(m, j) = Persist(Push(n, j), {j}, "save")
  BY DEF Requeue
<1> HIDE DEF n
<1> QED BY <1>3, <1>4, PushType, PersistType

LEMMA LoseType ==
  ASSUME NEW m \in Memory, NEW S
  PROVE  S \subseteq Job => Lose(m, S) \in Memory
<1> SUFFICES ASSUME S \subseteq Job PROVE Lose(m, S) \in Memory
  OBVIOUS
<1> DEFINE lost == { j \in S : /\ m.ent[j].state \in {"queued", "running"}
                              /\ ~LeaseLost(m.ent[j]) }
           queued == { j \in lost : m.ent[j].state = "queued" }
           ent == [j \in Job |->
                     IF j \in lost THEN [m.ent[j] EXCEPT !.durability = "lost"] ELSE m.ent[j]]
           marked == [m EXCEPT !.ent = ent]
<1>1. ent \in [Job -> Entry]
  <2>1. ASSUME NEW j \in Job PROVE m.ent[j] \in Entry
    BY DEF Memory
  <2> HIDE DEF lost
  <2> QED BY <2>1 DEF Entry
<1>2. marked \in Memory
  <2> HIDE DEF ent
  <2> QED BY <1>1 DEF Memory
<1>3. queued \in SUBSET Job
  OBVIOUS
<1>4. Lose(m, S) = Settle(Pull(marked, queued), queued, "failed")
  BY DEF Lose
<1> HIDE DEF marked, queued
<1> QED BY <1>2, <1>3, <1>4, PullType, SettleType DEF Terminal

LEMMA TakenType ==
  ASSUME NEW m \in Memory, NEW order
  PROVE  Taken(m, order) \in SUBSET Job /\ Taken(m, order) \subseteq m.queue
BY DEF Taken, Eligible, Memory

LEMMA RunningType ==
  ASSUME NEW e \in Entry
  PROVE  Running(e) \in Entry
<1> DEFINE n == e.attempt + 1
<1>1. n \in Nat
  BY DEF Entry
<1>2. Running(e) = [e EXCEPT !.state = "running", !.attempt = n, !.backoff = FALSE,
                             !.waiting = FALSE]
  BY DEF Running
<1> HIDE DEF n
<1> QED BY <1>1, <1>2 DEF Entry

LEMMA LanesType ==
  ASSUME NEW S \in SUBSET Job
  PROVE  LanesOf(S) \in SUBSET Lane
BY DEF LanesOf, Lane

(* Three of a memory's fields at once.                                     *)
LEMMA SlotFields ==
  ASSUME NEW m \in Memory, NEW A \in SUBSET Job, NEW B \in SUBSET Job, NEW L \in SUBSET Lane
  PROVE  [m EXCEPT !.starting = A, !.active = B, !.busy = L] \in Memory
BY DEF Memory

LEMMA StartType ==
  ASSUME NEW m \in Memory, NEW S \in SUBSET Job
  PROVE  Start(m, S) \in Memory
<1> DEFINE asks == { j \in S : SharesLanes(m, j) }
           goes == S \ asks
           ent == [j \in Job |-> IF j \in goes THEN Running(m.ent[j]) ELSE m.ent[j]]
           begun == [m EXCEPT !.ent = ent]
           saved == Persist(begun, goes, "save")
           chain == [j \in Job |->
                  IF j \in asks
                  THEN Append(saved.chain[j], Snapshot(Running(m.ent[j]), "acquire"))
                  ELSE saved.chain[j]]
           claim == [saved EXCEPT !.chain = chain]
<1>1. asks \in SUBSET Job /\ goes \in SUBSET Job
  OBVIOUS
<1>2. \A j \in Job : m.ent[j] \in Entry /\ Running(m.ent[j]) \in Entry
  BY RunningType DEF Memory
<1>3. begun \in Memory
  <2>1. ent \in [Job -> Entry]
    BY <1>2
  <2> HIDE DEF ent
  <2> QED BY <2>1 DEF Memory
<1>4. saved \in Memory
  <2> HIDE DEF begun, goes
  <2> QED BY <1>1, <1>3, PersistType
<1>5. claim \in Memory
  <2> HIDE DEF saved, asks
  <2>1. ASSUME NEW j \in Job
        PROVE  chain[j] \in Seq(Write)
    <3>1. Snapshot(Running(m.ent[j]), "acquire") \in Write
      BY <1>2, SnapshotType
    <3>2. saved.chain[j] \in Seq(Write)
      BY <1>4 DEF Memory
    <3> QED BY <3>1, <3>2
  <2>2. chain \in [Job -> Seq(Write)]
    BY <2>1
  <2> HIDE DEF chain
  <2> QED BY <1>4, <2>2 DEF Memory
<1>6. Start(m, S) = [Pull(claim, S) EXCEPT !.starting = @ \cup asks,
                                           !.active = @ \cup goes,
                                           !.busy = @ \cup LanesOf(S)]
  BY DEF Start
<1> HIDE DEF asks, goes, claim
<1>7. Pull(claim, S) \in Memory
  BY <1>5, PullType
<1>8. LanesOf(S) \in SUBSET Lane
  BY LanesType
<1> DEFINE n == Pull(claim, S)
<1>9. /\ n.starting \cup asks \in SUBSET Job
      /\ n.active \cup goes \in SUBSET Job
      /\ n.busy \cup LanesOf(S) \in SUBSET Lane
  <2> HIDE DEF n
  <2> QED BY <1>1, <1>7, <1>8 DEF n, Memory
<1>10. Start(m, S) = [n EXCEPT !.starting = n.starting \cup asks,
                               !.active = n.active \cup goes,
                               !.busy = n.busy \cup LanesOf(S)]
  BY <1>6
<1>11. n \in Memory
  BY <1>7
<1> HIDE DEF n
<1>12. [n EXCEPT !.starting = n.starting \cup asks,
                 !.active = n.active \cup goes,
                 !.busy = n.busy \cup LanesOf(S)] \in Memory
  BY <1>9, <1>11, SlotFields
<1> QED BY <1>10, <1>12

LEMMA PumpType ==
  ASSUME NEW m \in Memory
  PROVE  Pump(m) \in Memory
BY TakenType, StartType, ScheduleHeartbeatType, CheckIdleType DEF Pump

LEMMA RunClaimedType ==
  ASSUME NEW m \in Memory, NEW j \in Job
  PROVE  RunClaimed(m, j) \in Memory
<1>1. Running(m.ent[j]) \in Entry
  BY RunningType DEF Memory
<1>2. LanesOf({j}) \in SUBSET Lane
  BY LanesType
<1>3. RunClaimed(m, j) = [m EXCEPT !.ent = [m.ent EXCEPT ![j] = Running(m.ent[j])],
                                   !.active = m.active \cup {j},
                                   !.busy = m.busy \cup LanesOf({j})]
  BY DEF RunClaimed, Memory
<1> DEFINE ent == [m.ent EXCEPT ![j] = Running(m.ent[j])]
           active == m.active \cup {j}
           busy == m.busy \cup LanesOf({j})
<1>4. ent \in [Job -> Entry] /\ active \in SUBSET Job /\ busy \in SUBSET Lane
  BY <1>1, <1>2 DEF Memory
<1>5. [m EXCEPT !.ent = ent] \in Memory
  BY <1>4 DEF Memory
<1>6. RunClaimed(m, j) = [[m EXCEPT !.ent = ent] EXCEPT !.starting = m.starting,
                                                         !.active = active, !.busy = busy]
  BY <1>3 DEF Memory
<1>7. m.starting \in SUBSET Job
  BY DEF Memory
<1> HIDE DEF ent, active, busy
<1> DEFINE n == [m EXCEPT !.ent = ent]
<1>8. n \in Memory /\ RunClaimed(m, j) = [n EXCEPT !.starting = m.starting,
                                                   !.active = active, !.busy = busy]
  BY <1>5, <1>6
<1> HIDE DEF n
<1>9. [n EXCEPT !.starting = m.starting, !.active = active, !.busy = busy] \in Memory
  BY <1>4, <1>7, <1>8, SlotFields
<1> QED BY <1>8, <1>9

LEMMA QueueFields ==
  ASSUME NEW m \in Memory, NEW f \in [Job -> Entry], NEW q \in SUBSET Job,
         NEW a \in SUBSET (Job \X Job)
  PROVE  [m EXCEPT !.ent = f, !.queue = q, !.ahead = a] \in Memory
BY DEF Memory

LEMMA RestoreAllType ==
  ASSUME NEW m \in Memory, NEW claims \in Claims, NEW age,
         age \subseteq NewClaims(m, claims) \X NewClaims(m, claims)
  PROVE  RestoreAll(m, claims, age) \in Memory
<1> DEFINE S == NewClaims(m, claims)
           fresh(j) == [state |-> "queued", attempt |-> claims.attempt[j],
                        waiting |-> claims.backoff[j], backoff |-> claims.backoff[j],
                        durability |-> "stored", cancelRequested |-> FALSE]
           ent == [j \in Job |-> IF j \in S THEN fresh(j) ELSE m.ent[j]]
           later == { j \in S : \E i \in S : <<i, j>> \in age }
           admitted == [m EXCEPT !.ent = ent, !.queue = @ \cup S,
                                 !.ahead = @ \cup (m.queue \X S) \cup age]
           order == { p \in ByPriority(admitted) : p[1] \notin later /\ p[2] \notin later }
                      \cup { p \in admitted.ahead : p[2] \in later }
<1>1. S \in SUBSET Job
  BY DEF NewClaims, Claims
<1>2. ent \in [Job -> Entry]
  <2>1. ASSUME NEW j \in Job PROVE fresh(j) \in Entry /\ m.ent[j] \in Entry
    BY DEF Entry, Claims, Memory
  <2> QED BY <2>1
<1>3. admitted \in Memory
  <2> HIDE DEF ent, S
  <2>1. age \subseteq S \X S
    BY DEF S
  <2>2. m.queue \in SUBSET Job /\ m.ahead \in SUBSET (Job \X Job)
    BY DEF Memory
  <2> DEFINE q == m.queue \cup S
             a == m.ahead \cup (m.queue \X S) \cup age
  <2>3. q \in SUBSET Job /\ a \in SUBSET (Job \X Job)
    BY <1>1, <2>1, <2>2
  <2>4. admitted = [m EXCEPT !.ent = ent, !.queue = q, !.ahead = a]
    OBVIOUS
  <2> HIDE DEF q, a, admitted
  <2> QED BY <1>2, <2>3, <2>4, QueueFields
<1>4. RestoreAll(m, claims, age)
        = IF S = {} THEN m
          ELSE CheckIdle(ScheduleHeartbeat(Start(admitted, Taken(admitted, order))))
  BY DEF RestoreAll
<1> HIDE DEF admitted, order, S
<1> QED BY <1>3, <1>4, TakenType, StartType, ScheduleHeartbeatType, CheckIdleType

LEMMA EndBeatType ==
  ASSUME NEW m \in Memory, NEW b \in Beats
  PROVE  EndBeat(m, b) \in Memory
<1>1. NoBeat \in Beat
  BY DEF NoBeat, Beat, NoClaims, Claims
<1>2. [m EXCEPT !.beats[b] = NoBeat] \in Memory
  BY <1>1 DEF Memory
<1> QED BY <1>2, ScheduleHeartbeatType, PumpType DEF EndBeat

LEMMA AskToAdoptType ==
  ASSUME NEW m \in Memory, NEW b \in Beats
  PROVE  AskToAdopt(m, b) \in Memory
<1> DEFINE asking == [NoBeat EXCEPT !.phase = "adopting"]
<1>1. asking \in Beat
  BY DEF NoBeat, Beat, NoClaims, Claims
<1>2. [m EXCEPT !.beats[b] = asking] \in Memory
  <2> HIDE DEF asking
  <2> QED BY <1>1 DEF Memory
<1> QED BY <1>2, EndBeatType DEF AskToAdopt

-----------------------------------------------------------------------------
(* The statements keep the table a table.                                  *)

LEMMA WrittenType ==
  ASSUME NEW r \in Table, NEW w \in Worker, NEW j \in Job, NEW write \in Write
  PROVE  Written(r, w, j, write) \in Table
BY DEF Written, Table, Row, Write

LEMMA RemovedType ==
  ASSUME NEW r \in Table, NEW w \in Worker, NEW j \in Job
  PROVE  Removed(r, w, j) \in Table
<1>1. NoRow \in Row
  BY DEF NoRow, Row
<1> QED BY <1>1 DEF Removed, Table

LEMMA ClaimedType ==
  ASSUME NEW r \in Table, NEW w \in Worker, NEW S
  PROVE  ClaimedAsQueued(r, w, S) \in Table
<1>1. \A j \in Job : /\ r[j] \in Row
                     /\ [r[j] EXCEPT !.state = "queued", !.owner = w, !.live = TRUE] \in Row
  BY DEF Table, Row
<1> QED BY <1>1 DEF ClaimedAsQueued, Table

LEMMA RenewedType ==
  ASSUME NEW r \in Table, NEW w \in Worker, NEW ids
  PROVE  RenewedRows(r, w, ids) \in Table
<1>1. \A j \in Job : r[j] \in Row /\ [r[j] EXCEPT !.live = TRUE] \in Row
  BY DEF Table, Row
<1> QED BY <1>1 DEF RenewedRows, Table

LEMMA ExecutedType ==
  ASSUME row \in Table, NEW w \in Worker, NEW j \in Job, NEW write \in Write
  PROVE  Executed(w, j, write) \in Table
BY WrittenType, RemovedType DEF Executed

LEMMA ClaimsOfType ==
  ASSUME row \in Table, NEW S \in SUBSET Job
  PROVE  ClaimsOf(S) \in Claims
<1>1. \A j \in Job : row[j].attempt \in Nat
  BY DEF Table, Row
<1> QED BY <1>1 DEF ClaimsOf, Claims

LEMMA EmptyTypes ==
  /\ NoRow \in Row
  /\ Unknown \in Entry
  /\ NoClaims \in Claims
  /\ NoBeat \in Beat
  /\ Fresh \in Memory
  /\ Down \in Memory
<1>1. NoRow \in Row
  BY DEF NoRow, Row
<1>2. Unknown \in Entry
  BY DEF Unknown, Entry
<1>3. NoClaims \in Claims
  BY DEF NoClaims, Claims
<1>4. NoBeat \in Beat
  BY <1>3 DEF NoBeat, Beat
<1>5. Fresh \in Memory
  BY <1>2, <1>3, <1>4 DEF Fresh, Memory
<1>6. Down \in Memory
  BY <1>5 DEF Down, Memory
<1> QED BY <1>1, <1>2, <1>3, <1>4, <1>5, <1>6

LEMMA InitType == Init => TypeOK
<1> SUFFICES ASSUME Init PROVE TypeOK
  OBVIOUS
<1>1. row \in Table
  BY EmptyTypes DEF Init, Table
<1>2. mem \in [Worker -> Memory]
  BY EmptyTypes, ScheduleHeartbeatType DEF Init
<1>3. used \in [Kinds -> Nat]
  BY DEF Init
<1> QED BY <1>1, <1>2, <1>3 DEF Init, TypeOK

-----------------------------------------------------------------------------
(* The head of a chain.                                                    *)

LEMMA ChainField ==
  ASSUME NEW m \in Memory, NEW j \in Job, NEW c \in Seq(Write)
  PROVE  [m EXCEPT !.chain = [m.chain EXCEPT ![j] = c]] \in Memory
<1> DEFINE f == [m.chain EXCEPT ![j] = c]
<1>1. f \in [Job -> Seq(Write)]
  BY DEF Memory
<1> HIDE DEF f
<1> QED BY <1>1 DEF Memory

LEMMA AnswerHeadType ==
  ASSUME NEW m \in Memory, NEW j \in Job, m.chain[j] # <<>>,
         NEW answer \in {"none", "ok", "held", "lost", "error"}
  PROVE  AnswerHead(m, j, answer) \in Memory
<1> DEFINE c == m.chain[j]
           d == [c EXCEPT ![1] = [c[1] EXCEPT !.answer = answer]]
<1>1. c \in Seq(Write) /\ c # <<>>
  BY DEF Memory
<1>2. Len(c) \in Nat /\ 1 \in 1..Len(c) /\ c[1] \in Write
  <2> HIDE DEF c
  <2> QED BY <1>1
<1>3. [c[1] EXCEPT !.answer = answer] \in Write
  BY <1>2 DEF Write
<1>4. d \in Seq(Write)
  <2> DEFINE e == [c[1] EXCEPT !.answer = answer]
  <2>1. e \in Write /\ d = [c EXCEPT ![1] = e]
    BY <1>3
  <2> HIDE DEF c, d, e
  <2> QED BY <1>1, <1>2, <2>1, ExceptSeq
<1>5. AnswerHead(m, j, answer) = [m EXCEPT !.chain = [m.chain EXCEPT ![j] = d]]
  BY DEF AnswerHead, Memory
<1> HIDE DEF d
<1> QED BY <1>4, <1>5, ChainField

LEMMA DropHeadType ==
  ASSUME NEW m \in Memory, NEW j \in Job, m.chain[j] # <<>>
  PROVE  DropHead(m, j) \in Memory
<1>1. m.chain[j] \in Seq(Write)
  BY DEF Memory
<1>2. Tail(m.chain[j]) \in Seq(Write)
  <2> DEFINE c == m.chain[j]
  <2> HIDE DEF c
  <2> QED BY <1>1, HeadTailProperties DEF c
<1>3. DropHead(m, j) = [m EXCEPT !.chain = [m.chain EXCEPT ![j] = Tail(m.chain[j])]]
  BY DEF DropHead, Memory
<1> QED BY <1>2, <1>3, ChainField

LEMMA HeadType ==
  ASSUME NEW m \in Memory, NEW j \in Job, m.chain[j] # <<>>
  PROVE  Head(m.chain[j]) \in Write
<1>1. m.chain[j] \in Seq(Write)
  BY DEF Memory
<1> QED BY <1>1

LEMMA EntryField ==
  ASSUME NEW m \in Memory, NEW j \in Job, NEW e \in Entry
  PROVE  [m EXCEPT !.ent = [m.ent EXCEPT ![j] = e]] \in Memory
<1> DEFINE f == [m.ent EXCEPT ![j] = e]
<1>1. f \in [Job -> Entry]
  BY DEF Memory
<1> HIDE DEF f
<1> QED BY <1>1 DEF Memory

LEMMA BeatField ==
  ASSUME NEW m \in Memory, NEW b \in Beats, NEW x \in Beat
  PROVE  [m EXCEPT !.beats = [m.beats EXCEPT ![b] = x]] \in Memory
<1> DEFINE f == [m.beats EXCEPT ![b] = x]
<1>1. f \in [Beats -> Beat]
  BY DEF Memory
<1> HIDE DEF f
<1> QED BY <1>1 DEF Memory

LEMMA BecomesType ==
  ASSUME TypeOK, NEW w \in Worker, NEW m \in Memory, Becomes(w, m)
  PROVE  mem' \in [Worker -> Memory]
BY DEF Becomes, TypeOK

LEMMA SpendType ==
  ASSUME TypeOK, NEW kind \in Kinds, Spend(kind)
  PROVE  used' \in [Kinds -> Nat]
<1>1. used \in [Kinds -> Nat]
  BY DEF TypeOK
<1> QED BY <1>1 DEF Spend

LEMMA KindsNamed == "crash" \in Kinds /\ "lapse" \in Kinds /\ "error" \in Kinds
                    /\ "cancel" \in Kinds /\ "pause" \in Kinds /\ "drain" \in Kinds
                    /\ "close" \in Kinds
BY DEF Kinds

-----------------------------------------------------------------------------
(* The public methods.                                                     *)

LEMMA EnqueueType ==
  ASSUME TypeOK, NEW w \in Worker, NEW j \in Job, Enqueue(w, j)
  PROVE  TypeOK'
<1> DEFINE m == mem[w]
           e == [Unknown EXCEPT !.state = "queued",
                           !.durability = IF Mode = "memory" THEN "none" ELSE "pending"]
           n == [m EXCEPT !.ent[j] = e]
           created == Persist(n, {j}, "create")
<1>1. m \in Memory
  BY DEF TypeOK
<1>2. e \in Entry
  BY DEF Unknown, Entry
<1>3. n \in Memory
  <2> HIDE DEF m, e
  <2>1. n = [m EXCEPT !.ent = [m.ent EXCEPT ![j] = e]]
    BY <1>1 DEF Memory
  <2> HIDE DEF n
  <2> QED BY <1>1, <1>2, <2>1, EntryField
<1>4. Pump(Push(created, j)) \in Memory
  <2> HIDE DEF n
  <2> QED BY <1>3, PersistType, PushType, PumpType
<1>5. Becomes(w, Pump(Push(created, j)))
  BY DEF Enqueue
<1>6. submitted' = submitted \cup {j} /\ UNCHANGED <<row, lapsed, used>>
  BY DEF Enqueue
<1> HIDE DEF created
<1>7. mem' \in [Worker -> Memory]
  BY <1>4, <1>5, BecomesType
<1> QED BY <1>6, <1>7 DEF TypeOK

LEMMA CancelQueuedType ==
  ASSUME TypeOK, NEW w \in Worker, NEW j \in Job, CancelQueued(w, j)
  PROVE  TypeOK'
<1>1. Pump(Settle(Pull(mem[w], {j}), {j}, "cancelled")) \in Memory
  <2>1. mem[w] \in Memory
    BY DEF TypeOK
  <2> QED BY <2>1, PullType, SettleType, PumpType DEF Terminal
<1>2. mem' \in [Worker -> Memory]
  BY <1>1, BecomesType DEF CancelQueued
<1>3. used' \in [Kinds -> Nat]
  BY SpendType, KindsNamed DEF CancelQueued
<1> QED BY <1>2, <1>3 DEF CancelQueued, TypeOK

LEMMA CancelRunningType ==
  ASSUME TypeOK, NEW w \in Worker, NEW j \in Job, CancelRunning(w, j)
  PROVE  TypeOK'
<1> DEFINE m == mem[w]
           e == [m.ent[j] EXCEPT !.cancelRequested = TRUE]
           n == [m EXCEPT !.ent[j].cancelRequested = TRUE]
<1>1. m \in Memory
  BY DEF TypeOK
<1>2. e \in Entry
  <2>1. m.ent[j] \in Entry
    BY <1>1 DEF Memory
  <2> QED BY <2>1 DEF Entry
<1>3. n \in Memory
  <2> HIDE DEF m
  <2>1. n = [m EXCEPT !.ent = [m.ent EXCEPT ![j] = e]]
    BY <1>1 DEF Memory
  <2> HIDE DEF n, e
  <2> QED BY <1>1, <1>2, <2>1, EntryField
<1>4. Becomes(w, n)
  BY DEF CancelRunning
<1> HIDE DEF n
<1>5. mem' \in [Worker -> Memory]
  BY <1>3, <1>4, BecomesType
<1>6. used' \in [Kinds -> Nat]
  BY SpendType, KindsNamed DEF CancelRunning
<1> QED BY <1>5, <1>6 DEF CancelRunning, TypeOK

LEMMA AwaitedType ==
  ASSUME NEW m
  PROVE  Awaited(m) \in {"waiting", "resolved"}
BY DEF Awaited

LEMMA PauseType ==
  ASSUME TypeOK, NEW w \in Worker, Pause(w) \/ Resume(w) \/ Drain(w)
  PROVE  TypeOK'
<1>1. mem[w] \in Memory
  BY DEF TypeOK
<1>2. CASE Pause(w)
  <2>1. [mem[w] EXCEPT !.paused = TRUE] \in Memory
    BY <1>1 DEF Memory
  <2>2. mem' \in [Worker -> Memory] /\ used' \in [Kinds -> Nat]
    BY <1>2, <2>1, BecomesType, SpendType, KindsNamed DEF Pause
  <2> QED BY <1>2, <2>2 DEF Pause, TypeOK
<1>3. CASE Resume(w)
  <2>1. Pump([mem[w] EXCEPT !.paused = FALSE]) \in Memory
    <3>1. [mem[w] EXCEPT !.paused = FALSE] \in Memory
      BY <1>1 DEF Memory
    <3> QED BY <3>1, PumpType
  <2>2. mem' \in [Worker -> Memory]
    BY <1>3, <2>1, BecomesType DEF Resume
  <2> QED BY <1>3, <2>2 DEF Resume, TypeOK
<1>4. CASE Drain(w)
  <2>1. [mem[w] EXCEPT !.drain = Awaited(mem[w])] \in Memory
    BY <1>1, AwaitedType DEF Memory
  <2>2. mem' \in [Worker -> Memory] /\ used' \in [Kinds -> Nat]
    BY <1>4, <2>1, BecomesType, SpendType, KindsNamed DEF Drain
  <2> QED BY <1>4, <2>2 DEF Drain, TypeOK
<1> QED BY <1>2, <1>3, <1>4

LEMMA CloseType ==
  ASSUME TypeOK, NEW w \in Worker, Close(w)
  PROVE  TypeOK'
<1> DEFINE m == mem[w]
           waiting == m.queue \cup { j \in m.starting : m.ent[j].state = "queued" }
           ent == [j \in Job |-> IF j \in m.active
                                THEN [m.ent[j] EXCEPT !.cancelRequested = TRUE]
                                ELSE m.ent[j]]
           shut == [m EXCEPT !.closed = TRUE, !.paused = TRUE, !.timer = FALSE, !.ent = ent]
           settled == Settle(Pull(shut, waiting), waiting, "cancelled")
           told == IF waiting = {} THEN settled ELSE CheckIdle(settled)
           n == [told EXCEPT !.close = Awaited(told)]
<1>1. m \in Memory
  BY DEF TypeOK
<1>2. waiting \in SUBSET Job
  <2> HIDE DEF m
  <2> QED BY <1>1 DEF Memory
<1>3. shut \in Memory
  <2> HIDE DEF m
  <2>1. ASSUME NEW j \in Job PROVE m.ent[j] \in Entry
    BY <1>1 DEF Memory
  <2>2. ent \in [Job -> Entry]
    BY <2>1 DEF Entry
  <2> HIDE DEF ent
  <2> QED BY <1>1, <2>2 DEF Memory
<1>4. n \in Memory
  <2> HIDE DEF shut, waiting
  <2>1. settled \in Memory
    BY <1>2, <1>3, PullType, SettleType DEF Terminal
  <2> HIDE DEF settled
  <2>2. told \in Memory
    BY <2>1, CheckIdleType
  <2> HIDE DEF told
  <2> QED BY <2>2, AwaitedType DEF Memory
<1>5. Becomes(w, n)
  BY DEF Close
<1> HIDE DEF n
<1>6. mem' \in [Worker -> Memory]
  BY <1>4, <1>5, BecomesType
<1>7. used' \in [Kinds -> Nat]
  BY SpendType, KindsNamed DEF Close
<1> QED BY <1>6, <1>7 DEF Close, TypeOK

-----------------------------------------------------------------------------
(* The store chain, the handler and the policy.                            *)

LEMMA StoreType ==
  ASSUME TypeOK, NEW w \in Worker, NEW j \in Job, StoreExecutes(w, j) \/ StoreFails(w, j)
  PROVE  TypeOK'
<1> DEFINE m == mem[w]
           write == Head(m.chain[j])
           answer == Answer(w, j, write)
<1>1. m \in Memory /\ row \in Table
  BY DEF TypeOK
<1>2. m.chain[j] # <<>>
  BY DEF StoreExecutes, StoreFails, Asked
<1>3. write \in Write
  <2> HIDE DEF m
  <2> QED BY <1>1, <1>2, HeadType
<1>4. Executed(w, j, write) \in Table
  <2> HIDE DEF write
  <2> QED BY <1>1, <1>3, ExecutedType
<1>5. answer \in {"none", "ok", "held", "lost", "error"}
  BY DEF Answer
<1>6. AnswerHead(m, j, answer) \in Memory /\ AnswerHead(m, j, "error") \in Memory
  <2> HIDE DEF m, answer
  <2> QED BY <1>1, <1>2, <1>5, AnswerHeadType
<1>7. CASE StoreExecutes(w, j)
  <2>1. Becomes(w, AnswerHead(m, j, answer)) /\ row' = Executed(w, j, write)
    BY <1>7 DEF StoreExecutes
  <2> HIDE DEF m, write, answer
  <2>2. mem' \in [Worker -> Memory]
    BY <1>6, <2>1, BecomesType
  <2> QED BY <1>4, <1>7, <2>1, <2>2 DEF StoreExecutes, TypeOK
<1>8. CASE StoreFails(w, j)
  <2>1. Becomes(w, AnswerHead(m, j, "error")) /\ row' \in {row, Executed(w, j, write)}
    BY <1>8 DEF StoreFails
  <2> HIDE DEF m, write, answer
  <2>2. mem' \in [Worker -> Memory] /\ row' \in Table
    BY <1>1, <1>4, <1>6, <2>1, BecomesType
  <2>3. used' \in [Kinds -> Nat]
    BY <1>8, SpendType, KindsNamed DEF StoreFails
  <2> QED BY <1>8, <2>2, <2>3 DEF StoreFails, TypeOK
<1> QED BY <1>7, <1>8

LEMMA CreateSettlesType ==
  ASSUME TypeOK, NEW w \in Worker, NEW j \in Job, CreateSettles(w, j)
  PROVE  TypeOK'
<1> DEFINE m == DropHead(mem[w], j)
           e == [m.ent[j] EXCEPT !.durability = "stored"]
           stored == [m EXCEPT !.ent[j].durability = "stored"]
           refused == IF m.ent[j].state \in Terminal THEN m
                      ELSE Settle(Pull(m, {j}), {j}, "failed")
           n == IF Head(mem[w].chain[j]).answer = "ok" THEN stored ELSE refused
<1>1. m \in Memory
  <2>1. mem[w] \in Memory
    BY DEF TypeOK
  <2>2. mem[w].chain[j] # <<>>
    BY DEF CreateSettles, Answered
  <2> QED BY <2>1, <2>2, DropHeadType
<1>2. stored \in Memory
  <2> HIDE DEF m
  <2>1. m.ent[j] \in Entry
    BY <1>1 DEF Memory
  <2>2. e \in Entry
    BY <2>1 DEF Entry
  <2>3. stored = [m EXCEPT !.ent = [m.ent EXCEPT ![j] = e]]
    BY <1>1 DEF Memory
  <2> HIDE DEF stored, e
  <2> QED BY <1>1, <2>2, <2>3, EntryField
<1>3. refused \in Memory
  <2> HIDE DEF m
  <2> QED BY <1>1, PullType, SettleType DEF Terminal
<1>4. Becomes(w, Pump(n))
  BY DEF CreateSettles
<1>5. Pump(n) \in Memory
  <2> HIDE DEF stored, refused
  <2> QED BY <1>2, <1>3, PumpType
<1> HIDE DEF n
<1>6. mem' \in [Worker -> Memory]
  BY <1>4, <1>5, BecomesType
<1> QED BY <1>6 DEF CreateSettles, TypeOK

LEMMA WriteSettlesType ==
  ASSUME TypeOK, NEW w \in Worker, NEW j \in Job, WriteSettles(w, j)
  PROVE  TypeOK'
<1> DEFINE m == DropHead(mem[w], j)
           n == IF Head(mem[w].chain[j]).answer = "lost" THEN Lose(m, {j}) ELSE m
<1>1. m \in Memory
  <2>1. mem[w] \in Memory
    BY DEF TypeOK
  <2>2. mem[w].chain[j] # <<>>
    BY DEF WriteSettles, Answered
  <2> QED BY <2>1, <2>2, DropHeadType
<1>2. Becomes(w, CheckIdle(n))
  BY DEF WriteSettles
<1>3. CheckIdle(n) \in Memory
  <2> HIDE DEF m
  <2> QED BY <1>1, LoseType, CheckIdleType
<1> HIDE DEF n
<1>4. mem' \in [Worker -> Memory]
  BY <1>2, <1>3, BecomesType
<1> QED BY <1>4 DEF WriteSettles, TypeOK

LEMMA AcquireSettlesType ==
  ASSUME TypeOK, NEW w \in Worker, NEW j \in Job, AcquireSettles(w, j)
  PROVE  TypeOK'
<1> DEFINE answer == Head(mem[w].chain[j]).answer
           m == DropHead(mem[w], j)
           told == IF answer = "lost" THEN Lose(m, {j}) ELSE m
           freed == [told EXCEPT !.starting = @ \ {j}, !.busy = @ \ {LaneOf[j]}]
           e == [freed.ent[j] EXCEPT !.waiting = TRUE]
           held == [freed EXCEPT !.ent[j].waiting = TRUE]
<1>1. m \in Memory
  <2>1. mem[w] \in Memory
    BY DEF TypeOK
  <2>2. mem[w].chain[j] # <<>>
    BY DEF AcquireSettles, Answered
  <2> QED BY <2>1, <2>2, DropHeadType
<1>2. told \in Memory
  <2> HIDE DEF m
  <2> QED BY <1>1, LoseType
<1>3. freed \in Memory
  <2> HIDE DEF told
  <2> QED BY <1>2 DEF Memory
<1>4. held \in Memory
  <2> HIDE DEF freed
  <2>1. freed.ent[j] \in Entry
    BY <1>3 DEF Memory
  <2>2. e \in Entry
    BY <2>1 DEF Entry
  <2>3. held = [freed EXCEPT !.ent = [freed.ent EXCEPT ![j] = e]]
    BY <1>3 DEF Memory
  <2> HIDE DEF held, e
  <2> QED BY <1>3, <2>2, <2>3, EntryField
<1>5. /\ Pump(freed) \in Memory
      /\ RunClaimed(freed, j) \in Memory
      /\ Pump(Push(held, j)) \in Memory
  <2> HIDE DEF freed, held
  <2> QED BY <1>3, <1>4, PumpType, PushType, RunClaimedType
<1>6. \/ Becomes(w, Pump(freed))
      \/ Becomes(w, RunClaimed(freed, j))
      \/ Becomes(w, Pump(Push(held, j)))
  <2>1. Becomes(w, CASE freed.ent[j].state \in Terminal -> Pump(freed)
                     [] freed.ent[j].state \notin Terminal /\ answer = "ok" ->
                          RunClaimed(freed, j)
                     [] OTHER -> Pump(Push(held, j)))
    BY DEF AcquireSettles
  <2> HIDE DEF freed, held, answer
  <2> QED BY <2>1
<1> HIDE DEF freed, held
<1>7. mem' \in [Worker -> Memory]
  BY <1>5, <1>6, BecomesType
<1> QED BY <1>7 DEF AcquireSettles, TypeOK

LEMMA ReleasedType ==
  ASSUME NEW m \in Memory, NEW j \in Job
  PROVE  Released(m, j) \in Memory
BY DEF Released, Memory

LEMMA HandlerType ==
  ASSUME TypeOK, NEW w \in Worker, NEW j \in Job, HandlerReturns(w, j) \/ HandlerThrows(w, j)
  PROVE  TypeOK'
<1> DEFINE m == Released(mem[w], j)
<1>1. m \in Memory
  BY ReleasedType DEF TypeOK
<1>2. ASSUME NEW state \in Terminal PROVE Pump(Settle(m, {j}, state)) \in Memory
  <2> HIDE DEF m
  <2> QED BY <1>1, SettleType, PumpType
<1>3. [m EXCEPT !.deciding = @ \cup {j}] \in Memory
  <2> HIDE DEF m
  <2> QED BY <1>1 DEF Memory
<1>4. \/ \E state \in Terminal : Becomes(w, Pump(Settle(m, {j}, state)))
      \/ Becomes(w, [m EXCEPT !.deciding = @ \cup {j}])
  <2>1. CASE HandlerReturns(w, j)
    <3>1. Becomes(w, Pump(Settle(m, {j}, IF LeaseLost(m.ent[j]) THEN "failed"
                             ELSE IF m.ent[j].cancelRequested THEN "cancelled"
                             ELSE "complete")))
      BY <2>1 DEF HandlerReturns
    <3> HIDE DEF m
    <3> QED BY <3>1 DEF Terminal
  <2>2. CASE HandlerThrows(w, j)
    <3>1. Becomes(w, CASE LeaseLost(m.ent[j]) -> Pump(Settle(m, {j}, "failed"))
                     [] ~LeaseLost(m.ent[j]) /\ m.ent[j].cancelRequested ->
                          Pump(Settle(m, {j}, "cancelled"))
                     [] OTHER -> IF m.closed THEN Pump(Settle(m, {j}, "failed"))
                                 ELSE [m EXCEPT !.deciding = @ \cup {j}])
      BY <2>2 DEF HandlerThrows
    <3> HIDE DEF m
    <3> QED BY <3>1 DEF Terminal
  <2> QED BY <2>1, <2>2
<1> HIDE DEF m
<1>5. mem' \in [Worker -> Memory]
  BY <1>2, <1>3, <1>4, BecomesType
<1> QED BY <1>5 DEF HandlerReturns, HandlerThrows, TypeOK

LEMMA PolicyAnswersType ==
  ASSUME TypeOK, NEW w \in Worker, NEW j \in Job, PolicyAnswers(w, j)
  PROVE  TypeOK'
<1> DEFINE decided == [mem[w] EXCEPT !.deciding = @ \ {j}]
<1>1. decided \in Memory
  <2>1. mem[w] \in Memory
    BY DEF TypeOK
  <2> QED BY <2>1 DEF Memory
<1>2. \/ Becomes(w, Pump(Settle(decided, {j}, "cancelled")))
      \/ Becomes(w, Pump(Requeue(decided, j)))
      \/ Becomes(w, Pump(Settle(decided, {j}, "failed")))
  BY DEF PolicyAnswers
<1> HIDE DEF decided
<1>3. mem' \in [Worker -> Memory]
  BY <1>1, <1>2, SettleType, RequeueType, PumpType, BecomesType DEF Terminal
<1> QED BY <1>3 DEF PolicyAnswers, TypeOK

LEMMA WakeType ==
  ASSUME TypeOK, NEW w \in Worker, NEW j \in Job, Wake(w, j)
  PROVE  TypeOK'
<1> DEFINE m == mem[w]
           e == [m.ent[j] EXCEPT !.waiting = FALSE]
           due == [m EXCEPT !.ent[j].waiting = FALSE]
<1>1. m \in Memory
  BY DEF TypeOK
<1>2. due \in Memory
  <2> HIDE DEF m
  <2>1. m.ent[j] \in Entry
    BY <1>1 DEF Memory
  <2>2. e \in Entry
    BY <2>1 DEF Entry
  <2>3. due = [m EXCEPT !.ent = [m.ent EXCEPT ![j] = e]]
    BY <1>1 DEF Memory
  <2> HIDE DEF due, e
  <2> QED BY <1>1, <2>2, <2>3, EntryField
<1>3. Becomes(w, IF due.paused THEN due ELSE Pump(due))
  BY DEF Wake
<1> HIDE DEF due
<1>4. mem' \in [Worker -> Memory]
  BY <1>2, <1>3, PumpType, BecomesType
<1> QED BY <1>4 DEF Wake, TypeOK

-----------------------------------------------------------------------------
(* The heartbeat.                                                          *)

LEMMA BeatStartsType ==
  ASSUME TypeOK, NEW w \in Worker, NEW b \in Beats, BeatStarts(w, b)
  PROVE  TypeOK'
<1> DEFINE m == [mem[w] EXCEPT !.timer = FALSE]
           x == [NoBeat EXCEPT !.phase = "renewing", !.ids = Held(m)]
           n == [m EXCEPT !.beats[b] = x]
<1>1. m \in Memory
  <2>1. mem[w] \in Memory
    BY DEF TypeOK
  <2> QED BY <2>1 DEF Memory
<1>2. x \in Beat
  <2>1. Held(m) \in SUBSET Job
    BY DEF Held
  <2> HIDE DEF m
  <2>2. NoBeat \in Beat
    BY EmptyTypes
  <2> QED BY <2>1, <2>2 DEF Beat
<1>3. n \in Memory
  <2> HIDE DEF m, x
  <2>1. n = [m EXCEPT !.beats = [m.beats EXCEPT ![b] = x]]
    BY <1>1 DEF Memory
  <2> HIDE DEF n
  <2> QED BY <1>1, <1>2, <2>1, BeatField
<1>4. Becomes(w, IF Held(m) = {} THEN AskToAdopt(m, b) ELSE n)
  BY DEF BeatStarts
<1> HIDE DEF m, n
<1>5. mem' \in [Worker -> Memory]
  BY <1>1, <1>3, <1>4, AskToAdoptType, BecomesType
<1> QED BY <1>5 DEF BeatStarts, TypeOK

LEMMA RenewExecutesType ==
  ASSUME TypeOK, NEW w \in Worker, NEW b \in Beats, RenewExecutes(w, b)
  PROVE  TypeOK'
<1> DEFINE m == mem[w]
           ids == m.beats[b].ids
           lost == RenewLost(row, w, ids)
           x == [m.beats[b] EXCEPT !.phase = "renewed", !.ids = lost]
           n == [m EXCEPT !.beats[b] = x]
<1>1. m \in Memory /\ row \in Table
  BY DEF TypeOK
<1>2. x \in Beat
  <2> HIDE DEF m
  <2>1. m.beats[b] \in Beat
    BY <1>1 DEF Memory
  <2>2. lost \in SUBSET Job
    BY <2>1 DEF RenewLost, Beat
  <2> HIDE DEF lost
  <2> QED BY <2>1, <2>2 DEF Beat
<1>3. n \in Memory
  <2> HIDE DEF m, x
  <2>1. n = [m EXCEPT !.beats = [m.beats EXCEPT ![b] = x]]
    BY <1>1 DEF Memory
  <2> HIDE DEF n
  <2> QED BY <1>1, <1>2, <2>1, BeatField
<1>4. Becomes(w, n) /\ row' = RenewedRows(row, w, ids)
  BY DEF RenewExecutes
<1> HIDE DEF n
<1>5. mem' \in [Worker -> Memory] /\ row' \in Table
  BY <1>1, <1>3, <1>4, RenewedType, BecomesType
<1> QED BY <1>5 DEF RenewExecutes, TypeOK

LEMMA RenewedHandledType ==
  ASSUME TypeOK, NEW w \in Worker, NEW b \in Beats, Renewed(w, b)
  PROVE  TypeOK'
<1>1. AskToAdopt(Lose(mem[w], mem[w].beats[b].ids), b) \in Memory
  <2>1. mem[w] \in Memory
    BY DEF TypeOK
  <2>2. mem[w].beats[b].ids \subseteq Job
    <3>1. mem[w].beats[b] \in Beat
      BY <2>1 DEF Memory
    <3> QED BY <3>1 DEF Beat
  <2> QED BY <2>1, <2>2, LoseType, AskToAdoptType
<1>2. mem' \in [Worker -> Memory]
  BY <1>1, BecomesType DEF Renewed
<1> QED BY <1>2 DEF Renewed, TypeOK

LEMMA AdoptExecutesType ==
  ASSUME TypeOK, NEW w \in Worker, NEW b \in Beats, AdoptExecutes(w, b)
  PROVE  TypeOK'
<1>1. PICK S \in AdoptionBatches(row, w) :
        /\ row' = ClaimedAsQueued(row, w, S)
        /\ Becomes(w, [mem[w] EXCEPT !.beats[b] =
                        [@ EXCEPT !.phase = "adopted", !.got = ClaimsOf(S)]])
  BY DEF AdoptExecutes
<1> DEFINE m == mem[w]
           x == [m.beats[b] EXCEPT !.phase = "adopted", !.got = ClaimsOf(S)]
           n == [m EXCEPT !.beats[b] = x]
<1>2. m \in Memory /\ row \in Table
  BY DEF TypeOK
<1>3. x \in Beat
  <2> HIDE DEF m
  <2>1. m.beats[b] \in Beat
    BY <1>2 DEF Memory
  <2>2. S \in SUBSET Job
    BY DEF AdoptionBatches, Abandoned, Outstanding
  <2>3. ClaimsOf(S) \in Claims
    BY <1>2, <2>2, ClaimsOfType
  <2> QED BY <2>1, <2>3 DEF Beat
<1>4. n \in Memory
  <2> HIDE DEF m, x
  <2>1. n = [m EXCEPT !.beats = [m.beats EXCEPT ![b] = x]]
    BY <1>2 DEF Memory
  <2> HIDE DEF n
  <2> QED BY <1>2, <1>3, <2>1, BeatField
<1>5. Becomes(w, n)
  BY <1>1
<1> HIDE DEF n
<1>6. mem' \in [Worker -> Memory] /\ row' \in Table
  BY <1>1, <1>2, <1>4, <1>5, ClaimedType, BecomesType
<1> QED BY <1>6 DEF AdoptExecutes, TypeOK

LEMMA AdoptedType ==
  ASSUME TypeOK, NEW w \in Worker, NEW b \in Beats, Adopted(w, b)
  PROVE  TypeOK'
<1> DEFINE m == mem[w]
           got == m.beats[b].got
<1>1. m \in Memory /\ got \in Claims
  <2>1. mem[w] \in Memory
    BY DEF TypeOK
  <2>2. mem[w].beats[b] \in Beat
    BY <2>1 DEF Memory
  <2> QED BY <2>1, <2>2 DEF Beat
<1>2. PICK age \in AgeOrders(NewClaims(m, got)) :
        Becomes(w, EndBeat(RestoreAll(m, got, age), b))
  BY DEF Adopted
<1> HIDE DEF m, got
<1>3. age \subseteq NewClaims(m, got) \X NewClaims(m, got)
  BY <1>2 DEF AgeOrders
<1>4. EndBeat(RestoreAll(m, got, age), b) \in Memory
  BY <1>1, <1>3, RestoreAllType, EndBeatType
<1>5. mem' \in [Worker -> Memory]
  BY <1>2, <1>4, BecomesType
<1> QED BY <1>5 DEF Adopted, TypeOK

LEMMA BeatFailsType ==
  ASSUME TypeOK, NEW w \in Worker, NEW b \in Beats, BeatFails(w, b)
  PROVE  TypeOK'
<1>1. mem[w] \in Memory /\ row \in Table
  BY DEF TypeOK
<1>2. Becomes(w, AskToAdopt(mem[w], b)) \/ Becomes(w, EndBeat(mem[w], b))
  BY DEF BeatFails
<1>3. mem' \in [Worker -> Memory]
  BY <1>1, <1>2, AskToAdoptType, EndBeatType, BecomesType
<1>4. row' \in Table
  BY <1>1, RenewedType, ClaimedType DEF BeatFails
<1>5. used' \in [Kinds -> Nat]
  BY SpendType, KindsNamed DEF BeatFails
<1> QED BY <1>3, <1>4, <1>5 DEF BeatFails, TypeOK

-----------------------------------------------------------------------------
(* Processes and leases.                                                   *)

LEMMA BootType ==
  ASSUME TypeOK, NEW w \in Worker, Boot(w)
  PROVE  TypeOK'
<1> DEFINE n == [Fresh EXCEPT !.paused = TRUE,
                              !.loading = IF Mode = "memory" THEN "no" ELSE "asked"]
<1>1. n \in Memory
  <2>1. (IF Mode = "memory" THEN "no" ELSE "asked") \in {"no", "asked", "answered"}
    OBVIOUS
  <2>2. Fresh \in Memory
    BY EmptyTypes
  <2> QED BY <2>1, <2>2 DEF Memory
<1>2. Becomes(w, n)
  BY DEF Boot
<1> HIDE DEF n
<1>3. mem' \in [Worker -> Memory]
  BY <1>1, <1>2, BecomesType
<1> QED BY <1>3 DEF Boot, TypeOK

LEMMA LoadExecutesType ==
  ASSUME TypeOK, NEW w \in Worker, LoadExecutes(w)
  PROVE  TypeOK'
<1>0. PICK S \in LoadBatches(row, w) :
        /\ row' = ClaimedAsQueued(row, w, S)
        /\ Becomes(w, [mem[w] EXCEPT !.loading = "answered", !.loaded = ClaimsOf(S)])
  BY DEF LoadExecutes
<1> DEFINE c == ClaimsOf(S)
           n == [mem[w] EXCEPT !.loading = "answered", !.loaded = c]
<1>1. mem[w] \in Memory /\ row \in Table
  BY DEF TypeOK
<1>2. c \in Claims
  <2>1. S \in SUBSET Job
    BY DEF LoadBatches, Loadable, Outstanding
  <2> QED BY <1>1, <2>1, ClaimsOfType
<1>3. n \in Memory
  <2> HIDE DEF c
  <2> QED BY <1>1, <1>2 DEF Memory
<1>4. Becomes(w, n) /\ row' = ClaimedAsQueued(row, w, S)
  BY <1>0
<1> HIDE DEF n
<1>5. mem' \in [Worker -> Memory] /\ row' \in Table
  BY <1>1, <1>3, <1>4, ClaimedType, BecomesType
<1> QED BY <1>5 DEF LoadExecutes, TypeOK

LEMMA RecoveredType ==
  ASSUME TypeOK, NEW w \in Worker, Recovered(w)
  PROVE  TypeOK'
<1> DEFINE m == [mem[w] EXCEPT !.loading = "no", !.loaded = NoClaims]
           got == mem[w].loaded
<1>1. m \in Memory /\ got \in Claims
  <2>1. mem[w] \in Memory
    BY DEF TypeOK
  <2>2. NoClaims \in Claims
    BY EmptyTypes
  <2> QED BY <2>1, <2>2 DEF Memory
<1>2. PICK age \in AgeOrders(NewClaims(m, got)) :
        Becomes(w, ScheduleHeartbeat(RestoreAll(m, got, age)))
  BY DEF Recovered
<1> HIDE DEF m, got
<1>3. age \subseteq NewClaims(m, got) \X NewClaims(m, got)
  BY <1>2 DEF AgeOrders
<1>4. ScheduleHeartbeat(RestoreAll(m, got, age)) \in Memory
  BY <1>1, <1>3, RestoreAllType, ScheduleHeartbeatType
<1>5. mem' \in [Worker -> Memory]
  BY <1>2, <1>4, BecomesType
<1> QED BY <1>5 DEF Recovered, TypeOK

LEMMA LoadFailsType ==
  ASSUME TypeOK, NEW w \in Worker, LoadFails(w)
  PROVE  TypeOK'
<1>1. mem[w] \in Memory /\ row \in Table
  BY DEF TypeOK
<1>2. [mem[w] EXCEPT !.loading = "no"] \in Memory
  BY <1>1 DEF Memory
<1>3. mem' \in [Worker -> Memory] /\ used' \in [Kinds -> Nat]
  BY <1>2, BecomesType, SpendType, KindsNamed DEF LoadFails
<1>4. row' \in Table
  BY <1>1, ClaimedType DEF LoadFails
<1> QED BY <1>3, <1>4 DEF LoadFails, TypeOK

LEMMA CrashType ==
  ASSUME TypeOK, NEW w \in Worker, Crash(w)
  PROVE  TypeOK'
<1>1. mem' \in [Worker -> Memory] /\ used' \in [Kinds -> Nat]
  BY EmptyTypes, BecomesType, SpendType, KindsNamed DEF Crash
<1> QED BY <1>1 DEF Crash, TypeOK

LEMMA LeaseType ==
  ASSUME TypeOK, NEW j \in Job, LeaseAges(j) \/ LeaseLapses(j)
  PROVE  TypeOK'
<1>1. row' \in Table
  <2>1. row \in Table /\ row[j] \in Row
    BY DEF TypeOK, Table
  <2>2. [row[j] EXCEPT !.live = FALSE] \in Row
    BY <2>1 DEF Row
  <2>3. row' = [row EXCEPT ![j] = [row[j] EXCEPT !.live = FALSE]]
    BY <2>1 DEF LeaseAges, LeaseLapses, Table
  <2> QED BY <2>1, <2>2, <2>3 DEF Table
<1>2. CASE LeaseAges(j)
  BY <1>1, <1>2 DEF LeaseAges, TypeOK
<1>3. CASE LeaseLapses(j)
  <2>1. used' \in [Kinds -> Nat]
    BY <1>3, SpendType, KindsNamed DEF LeaseLapses
  <2>2. lapsed' \in SUBSET Worker
    BY <1>3 DEF LeaseLapses, TypeOK
  <2> QED BY <1>1, <1>3, <2>1, <2>2 DEF LeaseLapses, TypeOK
<1> QED BY <1>2, <1>3

-----------------------------------------------------------------------------
(* One step of anybody.                                                    *)
LEMMA StepType == TypeOK /\ [Next]_vars => TypeOK'
<1> SUFFICES ASSUME TypeOK, [Next]_vars PROVE TypeOK'
  OBVIOUS
<1>1. CASE UNCHANGED vars
  BY <1>1 DEF vars, TypeOK
<1>2. ASSUME NEW w \in Worker,
             \/ Pause(w) \/ Resume(w) \/ Drain(w) \/ Close(w) \/ Crash(w)
             \/ Boot(w) \/ LoadExecutes(w) \/ LoadFails(w) \/ Recovered(w)
      PROVE  TypeOK'
  BY <1>2, PauseType, CloseType, CrashType, BootType, LoadExecutesType, LoadFailsType,
     RecoveredType
<1>3. ASSUME NEW w \in Worker, NEW j \in Job,
             \/ Enqueue(w, j) \/ CancelQueued(w, j) \/ CancelRunning(w, j)
             \/ StoreExecutes(w, j) \/ StoreFails(w, j)
             \/ CreateSettles(w, j) \/ WriteSettles(w, j) \/ AcquireSettles(w, j)
             \/ HandlerReturns(w, j) \/ HandlerThrows(w, j) \/ PolicyAnswers(w, j)
             \/ Wake(w, j)
      PROVE  TypeOK'
  BY <1>3, EnqueueType, CancelQueuedType, CancelRunningType, StoreType, CreateSettlesType,
     WriteSettlesType, AcquireSettlesType, HandlerType, PolicyAnswersType, WakeType
<1>4. ASSUME NEW w \in Worker, NEW b \in Beats,
             \/ BeatStarts(w, b) \/ RenewExecutes(w, b) \/ Renewed(w, b)
             \/ AdoptExecutes(w, b) \/ Adopted(w, b) \/ BeatFails(w, b)
      PROVE  TypeOK'
  BY <1>4, BeatStartsType, RenewExecutesType, RenewedHandledType, AdoptExecutesType,
     AdoptedType, BeatFailsType
<1>5. ASSUME NEW j \in Job, LeaseAges(j) \/ LeaseLapses(j)
      PROVE  TypeOK'
  BY <1>5, LeaseType
<1> QED BY <1>1, <1>2, <1>3, <1>4, <1>5 DEF Next

(* The variables always hold the kinds of value the code keeps in them,    *)
(* for any number of workers and jobs and any limits: in particular no     *)
(* sequence of calls, answers and crashes takes a count of attempts below  *)
(* zero or leaves a lane no job has in #busyLanes.                         *)
THEOREM TypeCorrect == Spec => []TypeOK
<1>1. Init => TypeOK
  BY InitType
<1>2. TypeOK /\ [Next]_vars => TypeOK'
  BY StepType
<1> QED BY <1>1, <1>2, PTL DEF Spec

-----------------------------------------------------------------------------
(* Chains.                                                                 *)

(* What an entry may become without disturbing a chain that holds a create *)
(* only if it stays pending.                                               *)
EntryMoves(e, f) ==
  /\ e.state \in Terminal => f.state \in Terminal
  /\ e.durability = "stored" => f.durability = "stored" \/ f.state \in Terminal
  /\ e.durability = "pending" => f.durability = "pending"

LEMMA ShapeMoves ==
  ASSUME NEW c \in Seq(Write), NEW e, NEW f, NEW asking \in BOOLEAN, NEW asking2 \in BOOLEAN,
         ChainShape(c, e, asking), EntryMoves(e, f), asking => asking2
  PROVE  ChainShape(c, f, asking2)
BY DEF ChainShape, EntryMoves

LEMMA ShapeAppend ==
  ASSUME NEW c \in Seq(Write), NEW e, NEW f, NEW asking \in BOOLEAN, NEW asking2 \in BOOLEAN,
         ChainShape(c, e, asking), EntryMoves(e, f), asking => asking2,
         NEW x \in Write, x.answer = "none", x.op # "create",
         x.op = "remove" => f.state \in Terminal,
         x.op = "save" => f.state \in Terminal \/ f.durability = "stored",
         x.op = "acquire" => asking2 /\ ~asking /\ x.state = "running"
  PROVE  ChainShape(Append(c, x), f, asking2)
<1> DEFINE d == Append(c, x)
<1>1. /\ Len(c) \in Nat /\ Len(d) = Len(c) + 1 /\ d[Len(c) + 1] = x
      /\ \A i \in 1..Len(c) : d[i] = c[i]
  OBVIOUS
<1> HIDE DEF d
<1>2. ChainShape(c, f, asking2)
  BY ShapeMoves
<1>3. x.op = "acquire" => \A i \in 1..Len(c) : c[i].op # "acquire"
  BY DEF ChainShape
<1>4. ASSUME NEW i \in 1..Len(d)
      PROVE  /\ d[i].op = "remove" => f.state \in Terminal
             /\ d[i].op = "save" => f.state \in Terminal \/ f.durability = "stored"
             /\ d[i].op = "create" => i = 1 /\ f.durability = "pending"
             /\ d[i].op = "acquire" => /\ asking2 /\ d[i].state = "running"
                                       /\ \A k \in 1..Len(d) : d[k].op = "acquire" => k = i
             /\ (d[i].answer = "lost" /\ d[i].op # "create") => f.state \in Terminal
             /\ d[i].answer # "none" => i = 1
  <2>1. CASE i = Len(c) + 1
    BY <1>1, <1>3, <2>1
  <2>2. CASE i \in 1..Len(c)
    <3>1. /\ c[i].op = "remove" => f.state \in Terminal
          /\ c[i].op = "save" => f.state \in Terminal \/ f.durability = "stored"
          /\ c[i].op = "create" => i = 1 /\ f.durability = "pending"
          /\ c[i].op = "acquire" => asking2 /\ c[i].state = "running"
          /\ (c[i].answer = "lost" /\ c[i].op # "create") => f.state \in Terminal
          /\ c[i].answer # "none" => i = 1
      BY <1>2, <2>2 DEF ChainShape
    <3>2. ASSUME NEW k \in 1..Len(d), d[k].op = "acquire", d[i].op = "acquire"
          PROVE  k = i
      <4>1. x.op # "acquire"
        BY <1>1, <1>3, <2>2, <3>2
      <4>2. k \in 1..Len(c)
        BY <1>1, <3>2, <4>1
      <4> QED BY <1>1, <1>2, <2>2, <3>2, <4>2 DEF ChainShape
    <3>3. d[i] = c[i]
      BY <1>1, <2>2
    <3> QED BY <3>1, <3>2, <3>3
  <2> QED BY <1>1, <2>1, <2>2
<1> QED BY <1>4 DEF ChainShape, d

LEMMA ShapeTail ==
  ASSUME NEW c \in Seq(Write), c # <<>>, NEW e, NEW asking \in BOOLEAN,
         ChainShape(c, e, asking)
  PROVE  /\ ChainShape(Tail(c), e, asking)
         /\ c[1].op = "acquire" => ChainShape(Tail(c), e, FALSE)
         /\ \A i \in 1..Len(Tail(c)) :
              Tail(c)[i].op # "create" /\ Tail(c)[i].answer = "none" /\ Tail(c)[i] = c[i + 1]
         /\ Len(Tail(c)) = Len(c) - 1
<1> DEFINE d == Tail(c)
<1>1. /\ Len(c) \in Nat \ {0} /\ Len(d) = Len(c) - 1
      /\ \A i \in 1..Len(d) : d[i] = c[i + 1] /\ i + 1 \in 1..Len(c) /\ i + 1 # 1
  <2>1. Len(c) \in Nat /\ Len(c) # 0
    BY EmptySeq
  <2>2. Len(d) = Len(c) - 1 /\ \A i \in 1..Len(d) : d[i] = c[i + 1]
    BY HeadTailProperties
  <2> HIDE DEF d
  <2> QED BY <2>1, <2>2
<1> HIDE DEF d
<1>2. \A i \in 1..Len(d) : d[i].op # "create" /\ d[i].answer = "none"
  BY <1>1 DEF ChainShape
<1>3. ChainShape(d, e, asking)
  <2>1. ASSUME NEW i \in 1..Len(d), NEW k \in 1..Len(d),
               d[i].op = "acquire", d[k].op = "acquire"
        PROVE  k = i
    <3>1. /\ i + 1 \in 1..Len(c) /\ k + 1 \in 1..Len(c)
          /\ c[i + 1].op = "acquire" /\ c[k + 1].op = "acquire"
      BY <1>1, <2>1
    <3>2. k + 1 = i + 1
      BY <3>1 DEF ChainShape
    <3> QED BY <1>1, <3>2
  <2>2. \A i \in 1..Len(d) :
          /\ d[i].op = "remove" => e.state \in Terminal
          /\ d[i].op = "save" => e.state \in Terminal \/ e.durability = "stored"
          /\ d[i].op = "acquire" => asking /\ d[i].state = "running"
    <3> TAKE i \in 1..Len(d)
    <3>1. d[i] = c[i + 1] /\ i + 1 \in 1..Len(c)
      BY <1>1
    <3> QED BY <3>1 DEF ChainShape
  <2> QED BY <1>2, <2>1, <2>2 DEF ChainShape
<1>4. c[1].op = "acquire" => \A i \in 1..Len(d) : d[i].op # "acquire"
  BY <1>1 DEF ChainShape
<1>5. c[1].op = "acquire" => ChainShape(d, e, FALSE)
  BY <1>3, <1>4 DEF ChainShape
<1> QED BY <1>1, <1>2, <1>3, <1>5 DEF d

(* d is c with an answer for its first call.                               *)
ToldHead(c, d, answer) == d = [c EXCEPT ![1].answer = answer]

LEMMA ShapeAnswer ==
  ASSUME NEW c \in Seq(Write), c # <<>>, NEW e, NEW asking \in BOOLEAN,
         ChainShape(c, e, asking),
         NEW answer \in {"none", "ok", "held", "lost", "error"},
         answer = "lost" /\ c[1].op # "create" => e.state \in Terminal,
         NEW d, ToldHead(c, d, answer)
  PROVE  /\ ChainShape(d, e, asking)
         /\ d \in Seq(Write) /\ d # <<>> /\ Len(d) = Len(c)
         /\ d[1].answer = answer
         /\ \A i \in 1..Len(c) : d[i].op = c[i].op /\ d[i].attempt = c[i].attempt
<1> DEFINE x == [c[1] EXCEPT !.answer = answer]
<1>1. Len(c) \in Nat \ {0}
  BY EmptySeq
<1>2. c[1] \in Write
  BY <1>1
<1>3. x \in Write /\ x.answer = answer /\ x.op = c[1].op /\ x.attempt = c[1].attempt
      /\ x.state = c[1].state
  BY <1>2 DEF Write
<1>4. d = [c EXCEPT ![1] = x]
  BY DEF ToldHead
<1> HIDE DEF x
<1>5. /\ d \in Seq(Write) /\ Len(d) = Len(c)
      /\ \A i \in 1..Len(c) : d[i] = IF i = 1 THEN x ELSE c[i]
  BY <1>1, <1>3, <1>4, ExceptSeq
<1>6. \A i \in 1..Len(c) : d[i].op = c[i].op /\ d[i].attempt = c[i].attempt
                           /\ d[i].state = c[i].state
                           /\ d[i].answer = IF i = 1 THEN answer ELSE c[i].answer
  BY <1>3, <1>5
<1>7. d # <<>> /\ 1 \in 1..Len(c)
  BY <1>1, <1>5
<1>8. ChainShape(d, e, asking)
  BY <1>5, <1>6, <1>7 DEF ChainShape
<1> QED BY <1>5, <1>6, <1>7, <1>8

-----------------------------------------------------------------------------
(* Which fields the helpers change.                                        *)

(* m and n agree on everything the invariant reads.                        *)
Agree(m, n) ==
  /\ n.up = m.up /\ n.ent = m.ent /\ n.queue = m.queue /\ n.starting = m.starting
  /\ n.active = m.active /\ n.deciding = m.deciding /\ n.chain = m.chain
  /\ n.paused = m.paused /\ n.loading = m.loading /\ n.loaded = m.loaded
  /\ n.beats = m.beats

(* ... and on what concerns no single job.                                 *)
AgreeAround(m, n) ==
  /\ n.up = m.up /\ n.paused = m.paused /\ n.loading = m.loading
  /\ n.loaded = m.loaded /\ n.beats = m.beats

LEMMA CheckIdleAgrees ==
  ASSUME NEW m \in Memory
  PROVE  Agree(m, CheckIdle(m))
BY DEF Agree, CheckIdle, Memory

LEMMA ScheduleHeartbeatAgrees ==
  ASSUME NEW m \in Memory
  PROVE  Agree(m, ScheduleHeartbeat(m))
BY DEF Agree, ScheduleHeartbeat, Memory

(* A memory whose jobs are where they were, seen by drain and by close.    *)
LEMMA DrainAgrees ==
  ASSUME NEW m \in Memory
  PROVE  LET n == [m EXCEPT !.drain = Awaited(m)]
         IN /\ n \in Memory /\ Agree(m, n)
            /\ n.ahead = m.ahead /\ n.busy = m.busy /\ n.timer = m.timer
            /\ n.closed = m.closed /\ n.close = m.close
            /\ Idle(n) => Idle(m) /\ n.drain # "waiting"
<1> DEFINE said == Awaited(m)
           n == [m EXCEPT !.drain = said]
<1>1. said \in {"waiting", "resolved"} /\ (Idle(m) => said # "waiting")
  BY DEF Awaited
<1> HIDE DEF said
<1>2. /\ n \in Memory /\ Agree(m, n)
      /\ n.ahead = m.ahead /\ n.busy = m.busy /\ n.timer = m.timer
      /\ n.closed = m.closed /\ n.close = m.close /\ n.drain = said
  BY <1>1 DEF Memory, Agree
<1> HIDE DEF n
<1>3. Idle(n) => Idle(m)
  BY <1>2 DEF Agree, Idle, Writing
<1> QED BY <1>1, <1>2, <1>3 DEF n, said

LEMMA CloseAgrees ==
  ASSUME NEW m \in Memory, NEW W
  PROVE  LET told == IF W = {} THEN m ELSE CheckIdle(m)
             n == [told EXCEPT !.close = Awaited(told)]
         IN /\ n \in Memory /\ Agree(m, n)
            /\ n.ahead = m.ahead /\ n.busy = m.busy /\ n.timer = m.timer
            /\ n.closed = m.closed
            /\ Idle(n) => /\ Idle(m) /\ n.close # "waiting"
                          /\ IF W = {} THEN n.drain = m.drain ELSE n.drain # "waiting"
<1> DEFINE told == IF W = {} THEN m ELSE CheckIdle(m)
           said == Awaited(told)
           n == [told EXCEPT !.close = said]
<1>1. /\ told \in Memory /\ Agree(m, told)
      /\ told.ahead = m.ahead /\ told.busy = m.busy /\ told.timer = m.timer
      /\ told.closed = m.closed
      /\ Idle(m) => IF W = {} THEN told.drain = m.drain ELSE told.drain # "waiting"
  <2>1. CASE W = {}
    BY <2>1 DEF Agree
  <2>2. CASE W # {}
    <3>1. CheckIdle(m) \in Memory /\ Agree(m, CheckIdle(m))
      BY CheckIdleType, CheckIdleAgrees
    <3>2. LET c == CheckIdle(m)
          IN /\ c.ahead = m.ahead /\ c.busy = m.busy /\ c.timer = m.timer
             /\ c.closed = m.closed /\ (Idle(m) => c.drain # "waiting")
      BY DEF CheckIdle, Memory
    <3> QED BY <2>2, <3>1, <3>2
  <2> QED BY <2>1, <2>2
<1>2. said \in {"waiting", "resolved"} /\ (Idle(told) => said # "waiting")
  BY DEF Awaited
<1> HIDE DEF said, told
<1>3. /\ n \in Memory /\ Agree(m, n) /\ Agree(told, n)
      /\ n.ahead = m.ahead /\ n.busy = m.busy /\ n.timer = m.timer
      /\ n.closed = m.closed /\ n.close = said /\ n.drain = told.drain
  BY <1>1, <1>2 DEF Memory, Agree
<1> HIDE DEF n
<1>4. (Idle(n) => Idle(m)) /\ (Idle(n) => Idle(told))
  BY <1>3 DEF Agree, Idle, Writing
<1> QED BY <1>1, <1>2, <1>3, <1>4 DEF n, said, told

LEMMA PushFields ==
  ASSUME NEW m \in Memory, NEW j \in Job
  PROVE  LET n == Push(m, j)
         IN /\ AgreeAround(m, n) /\ n.ent = m.ent /\ n.chain = m.chain
            /\ n.starting = m.starting /\ n.active = m.active /\ n.deciding = m.deciding
            /\ n.queue = m.queue \cup {j}
BY DEF AgreeAround, Push, Memory

LEMMA PullFields ==
  ASSUME NEW m \in Memory, NEW S \in SUBSET Job
  PROVE  LET n == Pull(m, S)
         IN /\ AgreeAround(m, n) /\ n.ent = m.ent /\ n.chain = m.chain
            /\ n.starting = m.starting /\ n.active = m.active /\ n.deciding = m.deciding
            /\ n.queue = m.queue \ S
BY DEF AgreeAround, Pull, Memory

(* n is m with a call appended to the chains of S.                         *)
Persisted(m, n, S, op) ==
  /\ AgreeAround(m, n) /\ n.ent = m.ent /\ n.queue = m.queue
  /\ n.starting = m.starting /\ n.active = m.active /\ n.deciding = m.deciding
  /\ \A j \in Job :
       n.chain[j] = IF j \in S /\ m.ent[j].durability \notin {"none", "lost"}
                    THEN Append(m.chain[j], IF op = "remove" THEN Removal
                                            ELSE Snapshot(m.ent[j], op))
                    ELSE m.chain[j]

LEMMA PersistFields ==
  ASSUME NEW m \in Memory, NEW S \in SUBSET Job, NEW op
  PROVE  Persisted(m, Persist(m, S, op), S, op)
<1> DEFINE chain == [j \in Job |->
                       IF j \in S /\ m.ent[j].durability \notin {"none", "lost"}
                       THEN Append(m.chain[j], IF op = "remove" THEN Removal
                                               ELSE Snapshot(m.ent[j], op))
                       ELSE m.chain[j]]
<1>1. Persist(m, S, op) = [m EXCEPT !.chain = chain]
  BY DEF Persist
<1> HIDE DEF chain
<1>2. LET n == Persist(m, S, op)
      IN /\ AgreeAround(m, n) /\ n.ent = m.ent /\ n.queue = m.queue
         /\ n.starting = m.starting /\ n.active = m.active /\ n.deciding = m.deciding
         /\ n.chain = chain
  BY <1>1 DEF AgreeAround, Memory
<1> QED BY <1>2 DEF chain, Persisted

(* n is m with S settled as `state`.                                       *)
SettlesTo(m, n, S, state) ==
  /\ AgreeAround(m, n) /\ n.queue = m.queue
  /\ n.starting = m.starting /\ n.active = m.active /\ n.deciding = m.deciding
  /\ \A j \in Job :
       /\ n.ent[j] = IF j \in S THEN [m.ent[j] EXCEPT !.state = state] ELSE m.ent[j]
       /\ n.chain[j] = IF j \in S /\ m.ent[j].durability \notin {"none", "lost"}
                       THEN Append(m.chain[j], Removal)
                       ELSE m.chain[j]

LEMMA SettleFields ==
  ASSUME NEW m \in Memory, NEW S \in SUBSET Job, NEW state \in Terminal
  PROVE  SettlesTo(m, Settle(m, S, state), S, state)
<1> DEFINE ent == [j \in Job |-> IF j \in S THEN [m.ent[j] EXCEPT !.state = state] ELSE m.ent[j]]
           n == [m EXCEPT !.ent = ent]
<1>1. \A j \in Job : m.ent[j] \in Entry
  BY DEF Memory
<1>2. ent \in [Job -> Entry] /\ \A j \in Job : ent[j].durability = m.ent[j].durability
  BY <1>1 DEF Entry, Terminal
<1>3. Settle(m, S, state) = Persist(n, S, "remove")
  BY DEF Settle
<1> HIDE DEF ent
<1>4. n \in Memory
  BY <1>2 DEF Memory
<1>5. /\ AgreeAround(m, n) /\ n.queue = m.queue /\ n.chain = m.chain
      /\ n.starting = m.starting /\ n.active = m.active /\ n.deciding = m.deciding
      /\ n.ent = ent
  BY DEF AgreeAround, Memory
<1> HIDE DEF n
<1> DEFINE p == Persist(n, S, "remove")
<1>6. Persisted(n, p, S, "remove")
  BY <1>4, PersistFields
<1> HIDE DEF p
<1>7. /\ AgreeAround(m, p) /\ p.ent = ent /\ p.queue = m.queue
      /\ p.starting = m.starting /\ p.active = m.active /\ p.deciding = m.deciding
      /\ \A j \in Job :
           p.chain[j] = IF j \in S /\ m.ent[j].durability \notin {"none", "lost"}
                        THEN Append(m.chain[j], Removal)
                        ELSE m.chain[j]
  BY <1>2, <1>5, <1>6 DEF AgreeAround, Persisted
<1>8. \A j \in Job : ent[j] = IF j \in S THEN [m.ent[j] EXCEPT !.state = state] ELSE m.ent[j]
  BY DEF ent
<1> QED BY <1>3, <1>7, <1>8 DEF p, SettlesTo

LEMMA RunningFields ==
  ASSUME NEW e \in Entry
  PROVE  /\ Running(e) \in Entry
         /\ Running(e).state = "running"
         /\ Running(e).attempt = e.attempt + 1
         /\ Running(e).durability = e.durability
BY RunningType DEF Running, Entry

LEMMA SnapshotFields ==
  ASSUME NEW e \in Entry, NEW op \in {"create", "save", "acquire"}
  PROVE  /\ Snapshot(e, op) \in Write
         /\ Snapshot(e, op).op = op
         /\ Snapshot(e, op).answer = "none"
         /\ Snapshot(e, op).attempt = e.attempt
         /\ e.state = "running" => Snapshot(e, op).state = "running"
BY SnapshotType DEF Snapshot, Entry

LEMMA RemovalFields ==
  Removal \in Write /\ Removal.op = "remove" /\ Removal.answer = "none"
BY DEF Removal, Write

(* The jobs of S that ask the store for their lane.                        *)
Asks(m, S) == { j \in S : SharesLanes(m, j) }

LEMMA StartFields ==
  ASSUME NEW m \in Memory, NEW S \in SUBSET Job
  PROVE  LET n == Start(m, S)
             goes == S \ Asks(m, S)
         IN /\ AgreeAround(m, n)
            /\ n.queue = m.queue \ S
            /\ n.starting = m.starting \cup Asks(m, S)
            /\ n.active = m.active \cup goes
            /\ n.deciding = m.deciding
            /\ \A j \in Job :
                 /\ n.ent[j] = IF j \in goes THEN Running(m.ent[j]) ELSE m.ent[j]
                 /\ n.chain[j] =
                      IF j \in Asks(m, S)
                      THEN Append(m.chain[j], Snapshot(Running(m.ent[j]), "acquire"))
                      ELSE IF j \in goes /\ m.ent[j].durability \notin {"none", "lost"}
                      THEN Append(m.chain[j], Snapshot(Running(m.ent[j]), "save"))
                      ELSE m.chain[j]
<1> DEFINE asks == { j \in S : SharesLanes(m, j) }
           goes == S \ asks
           ent == [j \in Job |-> IF j \in goes THEN Running(m.ent[j]) ELSE m.ent[j]]
           begun == [m EXCEPT !.ent = ent]
           saved == Persist(begun, goes, "save")
           chain == [j \in Job |->
                  IF j \in asks
                  THEN Append(saved.chain[j], Snapshot(Running(m.ent[j]), "acquire"))
                  ELSE saved.chain[j]]
           claim == [saved EXCEPT !.chain = chain]
           pulled == Pull(claim, S)
           started == [pulled EXCEPT !.starting = @ \cup asks,
                                     !.active = @ \cup goes,
                                     !.busy = @ \cup LanesOf(S)]
<1>1. asks \in SUBSET Job /\ goes \in SUBSET Job
  OBVIOUS
<1>2. \A j \in Job : /\ m.ent[j] \in Entry /\ Running(m.ent[j]) \in Entry
                     /\ Running(m.ent[j]).durability = m.ent[j].durability
  BY RunningFields DEF Memory
<1>3. ent \in [Job -> Entry] /\ \A j \in Job : ent[j].durability = m.ent[j].durability
  BY <1>2
<1>4. Start(m, S) = started
  BY DEF Start
<1>5. begun \in Memory
  <2> HIDE DEF ent
  <2> QED BY <1>3 DEF Memory
<1>6. /\ AgreeAround(m, begun) /\ begun.ent = ent /\ begun.queue = m.queue
      /\ begun.starting = m.starting /\ begun.active = m.active
      /\ begun.deciding = m.deciding /\ begun.chain = m.chain
  <2> HIDE DEF ent
  <2> QED BY DEF AgreeAround, Memory
<1>7. saved \in Memory
  <2> HIDE DEF begun, goes
  <2> QED BY <1>1, <1>5, PersistType
<1>8. Persisted(begun, saved, goes, "save")
  <2> HIDE DEF begun, goes
  <2> QED BY <1>1, <1>5, PersistFields
<1>9. chain \in [Job -> Seq(Write)]
  <2> HIDE DEF saved, asks
  <2>1. ASSUME NEW j \in Job
        PROVE  chain[j] \in Seq(Write)
    <3>1. Snapshot(Running(m.ent[j]), "acquire") \in Write
      BY <1>2, SnapshotType
    <3>2. saved.chain[j] \in Seq(Write)
      BY <1>7 DEF Memory
    <3> QED BY <3>1, <3>2
  <2> QED BY <2>1
<1>10. /\ claim \in Memory
       /\ AgreeAround(saved, claim) /\ claim.ent = saved.ent /\ claim.queue = saved.queue
       /\ claim.starting = saved.starting /\ claim.active = saved.active
       /\ claim.deciding = saved.deciding /\ claim.chain = chain
  <2> HIDE DEF saved, chain
  <2>1. claim = [saved EXCEPT !.chain = chain]
    OBVIOUS
  <2>2. claim \in Memory
    BY <1>7, <1>9, <2>1 DEF Memory
  <2>3. /\ claim.ent = saved.ent /\ claim.queue = saved.queue
        /\ claim.starting = saved.starting /\ claim.active = saved.active
        /\ claim.deciding = saved.deciding /\ claim.chain = chain
    BY <1>7, <2>1 DEF Memory
  <2>4. AgreeAround(saved, claim)
    BY <1>7, <2>1 DEF AgreeAround, Memory
  <2> QED BY <2>2, <2>3, <2>4
<1>11. /\ AgreeAround(claim, pulled) /\ pulled.ent = claim.ent /\ pulled.chain = claim.chain
       /\ pulled.starting = claim.starting /\ pulled.active = claim.active
       /\ pulled.deciding = claim.deciding /\ pulled.queue = claim.queue \ S
       /\ pulled \in Memory
  <2> HIDE DEF claim
  <2> QED BY <1>10, PullFields, PullType, ZenonT(60)
<1>12. /\ AgreeAround(pulled, started) /\ started.ent = pulled.ent
       /\ started.chain = pulled.chain /\ started.deciding = pulled.deciding
       /\ started.queue = pulled.queue
       /\ started.starting = pulled.starting \cup asks
       /\ started.active = pulled.active \cup goes
  <2> HIDE DEF pulled, asks, goes
  <2> QED BY <1>11 DEF AgreeAround, Memory
<1> HIDE DEF started, pulled, claim, saved, begun
<1>13. /\ AgreeAround(m, started)
       /\ started.queue = m.queue \ S
       /\ started.starting = m.starting \cup asks
       /\ started.active = m.active \cup goes
       /\ started.deciding = m.deciding
       /\ started.ent = ent
       /\ started.chain = chain
  <2> HIDE DEF ent, chain, asks, goes
  <2> QED BY <1>6, <1>8, <1>10, <1>11, <1>12 DEF AgreeAround, Persisted
<1>14. ASSUME NEW j \in Job
       PROVE  /\ ent[j] = IF j \in goes THEN Running(m.ent[j]) ELSE m.ent[j]
              /\ chain[j] =
                      IF j \in asks
                      THEN Append(m.chain[j], Snapshot(Running(m.ent[j]), "acquire"))
                      ELSE IF j \in goes /\ m.ent[j].durability \notin {"none", "lost"}
                      THEN Append(m.chain[j], Snapshot(Running(m.ent[j]), "save"))
                      ELSE m.chain[j]
  <2>1. chain[j] = IF j \in asks
                   THEN Append(saved.chain[j], Snapshot(Running(m.ent[j]), "acquire"))
                   ELSE saved.chain[j]
    OBVIOUS
  <2>2. ent[j] = IF j \in goes THEN Running(m.ent[j]) ELSE m.ent[j]
    OBVIOUS
  <2>3. ~(j \in asks /\ j \in goes)
    OBVIOUS
  <2> HIDE DEF chain, asks, goes, ent
  <2> QED BY <1>3, <1>6, <1>8, <2>1, <2>2, <2>3 DEF Persisted
<1>15. asks = Asks(m, S)
  BY DEF Asks
<1> HIDE DEF asks, ent, chain
<1> QED BY <1>4, <1>13, <1>14, <1>15

-----------------------------------------------------------------------------
(* What one worker knows, carried through the helpers.                     *)

(* The memory m of w, up, stands to the table r as the invariant says.     *)
Good(w, m, r) == m \in Memory /\ m.up /\ WorkerInv(w, m, r)

(* n is given no lane that m was not.                                      *)
NoNewLanes(m, n) == \A j \in Job : Granted(n, j) => Granted(m, j)

(* What JobInv reads of k is as it was, or k has left a place.             *)
SameAt(m, n, k) ==
  /\ n.ent[k].state = m.ent[k].state /\ n.ent[k].attempt = m.ent[k].attempt
  /\ n.ent[k].durability = m.ent[k].durability
  /\ n.chain[k] = m.chain[k]
  /\ k \in n.queue => k \in m.queue
  /\ k \in n.starting <=> k \in m.starting
  /\ k \in n.active => k \in m.active
  /\ k \in n.deciding => k \in m.deciding

(* ... and so is what it reads of the answers under way.                   *)
SameAnswers(m, n) == n.beats = m.beats /\ n.loaded = m.loaded

LEMMA SameJob ==
  ASSUME NEW w \in Worker, NEW r, NEW m \in Memory, NEW n \in Memory, NEW k \in Job,
         JobInv(w, m, r, k), SameAt(m, n, k), SameAnswers(m, n)
  PROVE  JobInv(w, n, r, k) /\ (Granted(n, k) => Granted(m, k))
<1>1. /\ Ended(n, k) <=> Ended(m, k)
      /\ Known(n, k) <=> Known(m, k)
      /\ k \in Held(n) <=> k \in Held(m)
  BY DEF SameAt, Ended, Known, Held
<1>2. Placed(n, k)
  BY <1>1 DEF JobInv, Placed, SameAt
<1>3. Chained(n, k)
  <2>1. ChainShape(n.chain[k], n.ent[k], k \in n.starting)
    BY DEF JobInv, Chained, SameAt, ChainShape
  <2> QED BY <1>1, <2>1 DEF JobInv, Chained, SameAt
<1>4. Backed(w, n, r, k)
  BY <1>1 DEF JobInv, Backed, SameAt
<1>5. Attempted(n, k)
  BY <1>1 DEF JobInv, Attempted, SameAt
<1>6. Pending(w, n, r, k)
  BY <1>1 DEF JobInv, Pending, SameAnswers
<1>7. Granted(n, k) => Granted(m, k)
  BY <1>1 DEF Granted, SameAt
<1> QED BY <1>2, <1>3, <1>4, <1>5, <1>6, <1>7 DEF JobInv

(* Nothing the invariant reads has changed, or only by leaving a place.    *)
LEMMA SameKeeps ==
  ASSUME NEW w \in Worker, NEW r, NEW m, NEW n \in Memory, Good(w, m, r),
         \A k \in Job : SameAt(m, n, k), SameAnswers(m, n), n.up,
         n.loading # "no" => m.loading # "no" /\ n.paused
  PROVE  Good(w, n, r) /\ NoNewLanes(m, n)
<1>1. m \in Memory
  BY DEF Good
<1>2. \A k \in Job : JobInv(w, n, r, k) /\ (Granted(n, k) => Granted(m, k))
  BY <1>1, SameJob DEF Good, WorkerInv
<1>3. n.loading # "no" => n.active = {} /\ n.starting = {}
  <2>1. SUFFICES ASSUME n.loading # "no" PROVE n.active = {} /\ n.starting = {}
    OBVIOUS
  <2>2. m.active = {} /\ m.starting = {}
    BY <2>1 DEF Good, WorkerInv
  <2>3. n.active \subseteq Job /\ n.starting \subseteq Job
    BY DEF Memory
  <2> QED BY <2>2, <2>3 DEF SameAt
<1> QED BY <1>2, <1>3 DEF Good, WorkerInv, NoNewLanes

LEMMA AgreeKeeps ==
  ASSUME NEW w \in Worker, NEW r, NEW m, NEW n \in Memory, Good(w, m, r), Agree(m, n)
  PROVE  Good(w, n, r) /\ NoNewLanes(m, n)
<1>1. (\A k \in Job : SameAt(m, n, k)) /\ SameAnswers(m, n)
  BY DEF Agree, SameAt, SameAnswers
<1>2. n.up /\ (n.loading # "no" => m.loading # "no" /\ n.paused)
  BY DEF Agree, Good, WorkerInv
<1> QED BY <1>1, <1>2, SameKeeps

LEMMA CheckIdleKeeps ==
  ASSUME NEW w \in Worker, NEW r, NEW m, Good(w, m, r)
  PROVE  Good(w, CheckIdle(m), r) /\ NoNewLanes(m, CheckIdle(m))
BY AgreeKeeps, CheckIdleAgrees, CheckIdleType DEF Good

LEMMA ScheduleHeartbeatKeeps ==
  ASSUME NEW w \in Worker, NEW r, NEW m, Good(w, m, r)
  PROVE  Good(w, ScheduleHeartbeat(m), r) /\ NoNewLanes(m, ScheduleHeartbeat(m))
BY AgreeKeeps, ScheduleHeartbeatAgrees, ScheduleHeartbeatType DEF Good

LEMMA PullKeeps ==
  ASSUME NEW w \in Worker, NEW r, NEW m, Good(w, m, r), NEW S \in SUBSET Job
  PROVE  Good(w, Pull(m, S), r) /\ NoNewLanes(m, Pull(m, S))
<1> DEFINE n == Pull(m, S)
<1>1. m \in Memory /\ n \in Memory
  BY PullType DEF Good
<1>2. /\ AgreeAround(m, n) /\ n.ent = m.ent /\ n.chain = m.chain
      /\ n.starting = m.starting /\ n.active = m.active /\ n.deciding = m.deciding
      /\ n.queue = m.queue \ S
  BY <1>1, PullFields
<1> HIDE DEF n
<1>3. (\A k \in Job : SameAt(m, n, k)) /\ SameAnswers(m, n)
  BY <1>2 DEF AgreeAround, SameAt, SameAnswers
<1>4. n.up /\ (n.loading # "no" => m.loading # "no" /\ n.paused)
  BY <1>2 DEF AgreeAround, Good, WorkerInv
<1>5. Good(w, n, r) /\ NoNewLanes(m, n)
  BY <1>1, <1>3, <1>4, SameKeeps
<1> QED BY <1>5 DEF n

(* Several jobs move: each is as it was, or the invariant holds of it.     *)
LEMMA MoveKeeps ==
  ASSUME NEW w \in Worker, NEW r, NEW m, NEW n \in Memory, Good(w, m, r),
         AgreeAround(m, n), NEW S \in SUBSET Job,
         n.loading # "no" => n.active \subseteq m.active /\ n.starting \subseteq m.starting,
         \A k \in Job \ S : SameAt(m, n, k),
         \A k \in S : JobInv(w, n, r, k) /\ (Granted(n, k) => Granted(m, k))
  PROVE  Good(w, n, r) /\ NoNewLanes(m, n)
<1>1. m \in Memory /\ SameAnswers(m, n) /\ n.up
  BY DEF Good, AgreeAround, SameAnswers
<1>2. \A k \in Job : JobInv(w, n, r, k) /\ (Granted(n, k) => Granted(m, k))
  BY <1>1, SameJob DEF Good, WorkerInv
<1>3. n.loading # "no" => n.paused /\ n.active = {} /\ n.starting = {}
  BY DEF Good, WorkerInv, AgreeAround
<1> QED BY <1>1, <1>2, <1>3 DEF Good, WorkerInv, NoNewLanes

LEMMA PushKeeps ==
  ASSUME NEW w \in Worker, NEW r, NEW m, Good(w, m, r), NEW j \in Job,
         m.ent[j].state = "queued", j \notin m.starting
  PROVE  Good(w, Push(m, j), r) /\ NoNewLanes(m, Push(m, j))
<1> DEFINE n == Push(m, j)
<1>1. m \in Memory /\ n \in Memory
  BY PushType DEF Good
<1>2. /\ AgreeAround(m, n) /\ n.ent = m.ent /\ n.chain = m.chain
      /\ n.starting = m.starting /\ n.active = m.active /\ n.deciding = m.deciding
      /\ n.queue = m.queue \cup {j}
  BY <1>1, PushFields
<1> HIDE DEF n
<1>3. \A k \in Job \ {j} : SameAt(m, n, k)
  BY <1>2 DEF SameAt
<1>4. JobInv(w, n, r, j) /\ (Granted(n, j) => Granted(m, j))
  <2>1. JobInv(w, m, r, j)
    BY DEF Good, WorkerInv
  <2>2. Placed(n, j)
    BY <1>2, <2>1 DEF JobInv, Placed, Ended
  <2>3. Chained(n, j) /\ Attempted(n, j)
    BY <1>2, <2>1 DEF JobInv, Chained, Attempted, Ended
  <2>4. Backed(w, n, r, j) /\ Pending(w, n, r, j)
    BY <1>2, <2>1 DEF JobInv, Backed, Pending, Ended, Held, Known, AgreeAround
  <2>5. Granted(n, j) => Granted(m, j)
    BY <1>2 DEF Granted, Ended
  <2> QED BY <2>2, <2>3, <2>4, <2>5 DEF JobInv
<1> DEFINE S == {j}
<1>5. /\ \A k \in S : JobInv(w, n, r, k) /\ (Granted(n, k) => Granted(m, k))
      /\ \A k \in Job \ S : SameAt(m, n, k)
      /\ S \in SUBSET Job
  BY <1>3, <1>4
<1> HIDE DEF S
<1>6. n.active \subseteq m.active /\ n.starting \subseteq m.starting
  BY <1>2
<1>7. Good(w, n, r) /\ NoNewLanes(m, n)
  BY <1>1, <1>2, <1>5, <1>6, MoveKeeps
<1> QED BY <1>7 DEF n

LEMMA SettleKeeps ==
  ASSUME NEW w \in Worker, NEW r, NEW m, Good(w, m, r), NEW S \in SUBSET Job,
         NEW state \in Terminal,
         S \cap (m.queue \cup m.active \cup m.deciding) = {}
  PROVE  /\ Good(w, Settle(m, S, state), r)
         /\ NoNewLanes(m, Settle(m, S, state))
<1> DEFINE n == Settle(m, S, state)
<1>1. m \in Memory /\ n \in Memory
  BY SettleType DEF Good
<1>2. SettlesTo(m, n, S, state)
  BY <1>1, SettleFields
<1> HIDE DEF n
<1>3. \A k \in Job \ S : SameAt(m, n, k)
  BY <1>2 DEF SettlesTo, SameAt
<1>4. ASSUME NEW k \in S
      PROVE  JobInv(w, n, r, k) /\ (Granted(n, k) => Granted(m, k))
  <2>1. k \in Job /\ JobInv(w, m, r, k)
    BY DEF Good, WorkerInv
  <2> DEFINE c == m.chain[k]  d == n.chain[k]  e == m.ent[k]  f == n.ent[k]
  <2>2. c \in Seq(Write) /\ e \in Entry
    BY <1>1, <2>1 DEF Memory
  <2>3. f.state \in Terminal /\ f.durability = e.durability
    BY <1>2, <2>1, <2>2 DEF SettlesTo, Entry
  <2>4. d = c \/ d = Append(c, Removal)
    BY <1>2, <2>1 DEF SettlesTo
  <2>5. Removal \in Write /\ Removal.op = "remove" /\ Removal.answer = "none"
    BY RemovalFields
  <2>6. ChainShape(d, f, k \in m.starting)
    <3> DEFINE asking == k \in m.starting
    <3>1. ChainShape(c, e, asking) /\ asking \in BOOLEAN
      BY <2>1 DEF JobInv, Chained
    <3>2. EntryMoves(e, f)
      BY <2>3 DEF EntryMoves
    <3> HIDE DEF asking, c, d, e, f
    <3>3. ChainShape(c, f, asking)
      BY <2>2, <3>1, <3>2, ShapeMoves
    <3>4. ChainShape(Append(c, Removal), f, asking)
      BY <2>2, <2>3, <2>5, <3>1, <3>2, ShapeAppend
    <3>5. ChainShape(d, f, asking)
      BY <2>4, <3>3, <3>4
    <3> QED BY <3>5 DEF asking
  <2>7. Ended(n, k) /\ Known(n, k) /\ k \notin Held(n)
    BY <2>3 DEF Ended, Known, Held, Terminal
  <2>8. k \notin n.queue /\ k \notin n.active /\ k \notin n.deciding
    BY <1>2 DEF SettlesTo
  <2>9. Placed(n, k)
    BY <2>3, <2>7, <2>8 DEF Placed, Terminal
  <2>10. Chained(n, k)
    BY <1>2, <2>6, <2>7, <2>8 DEF Chained, Known, SettlesTo
  <2>11. SaidYes(d, "create") => SaidYes(c, "create")
    <3> HIDE DEF c, d
    <3> QED BY <2>2, <2>4, <2>5 DEF SaidYes
  <2>12. Backed(w, n, r, k)
    BY <2>1, <2>7, <2>8, <2>11 DEF Backed, JobInv
  <2>13. Attempted(n, k)
    BY <2>7 DEF Attempted
  <2>14. Pending(w, n, r, k)
    BY <2>7 DEF Pending
  <2>15. ~Granted(n, k)
    BY <2>7, <2>8 DEF Granted
  <2> QED BY <2>9, <2>10, <2>12, <2>13, <2>14, <2>15 DEF JobInv
<1>5. Good(w, n, r) /\ NoNewLanes(m, n)
  BY <1>1, <1>2, <1>3, <1>4, MoveKeeps DEF SettlesTo
<1> QED BY <1>5 DEF n

(* #pump starts S, drawn from what is queued and stored; a paused queue    *)
(* starts nothing.                                                         *)
LEMMA StartKeeps ==
  ASSUME Mode = "leased", NEW w \in Worker, NEW r, NEW m, Good(w, m, r),
         NEW S \in SUBSET Eligible(m), m.paused => S = {}
  PROVE  Good(w, Start(m, S), r) /\ NoNewLanes(m, Start(m, S))
<1> DEFINE n == Start(m, S)
           asks == Asks(m, S)
           goes == S \ asks
<1>1. S \in SUBSET Job /\ asks \subseteq S /\ goes \subseteq S
  BY DEF Eligible, Asks, Good, Memory
<1>2. m \in Memory /\ n \in Memory
  BY <1>1, StartType DEF Good
<1>3. /\ AgreeAround(m, n)
      /\ n.queue = m.queue \ S
      /\ n.starting = m.starting \cup asks
      /\ n.active = m.active \cup goes
      /\ n.deciding = m.deciding
      /\ \A j \in Job :
           /\ n.ent[j] = IF j \in goes THEN Running(m.ent[j]) ELSE m.ent[j]
           /\ n.chain[j] =
                IF j \in asks
                THEN Append(m.chain[j], Snapshot(Running(m.ent[j]), "acquire"))
                ELSE IF j \in goes /\ m.ent[j].durability \notin {"none", "lost"}
                THEN Append(m.chain[j], Snapshot(Running(m.ent[j]), "save"))
                ELSE m.chain[j]
  BY <1>1, <1>2, StartFields
<1> HIDE DEF n
<1>4. \A k \in Job \ S : SameAt(m, n, k)
  BY <1>1, <1>3 DEF SameAt
<1>5. n.loading # "no" => n.active \subseteq m.active /\ n.starting \subseteq m.starting
  BY <1>1, <1>3 DEF AgreeAround, Good, WorkerInv
<1>6. ASSUME NEW k \in S
      PROVE  JobInv(w, n, r, k) /\ (Granted(n, k) => Granted(m, k))
  <2> DEFINE c == m.chain[k]  d == n.chain[k]  e == m.ent[k]  f == n.ent[k]
             x == Snapshot(Running(m.ent[k]), IF k \in asks THEN "acquire" ELSE "save")
             asking == k \in asks
  <2>1. k \in Job /\ JobInv(w, m, r, k) /\ k \in m.queue
    BY <1>1 DEF Good, WorkerInv, Eligible
  <2>2. c \in Seq(Write) /\ e \in Entry
    BY <1>2, <2>1 DEF Memory
  <2>3. /\ e.state = "queued" /\ e.durability = "stored" /\ k \notin m.starting
        /\ k \notin m.active /\ k \notin m.deciding
    BY <2>1 DEF JobInv, Placed, Eligible
  <2>4. k \in goes => LaneOf[k] = NoLane
    BY <2>3 DEF Asks, SharesLanes
  <2>5. k \in asks => LaneOf[k] # NoLane
    BY DEF Asks, SharesLanes
  <2>6. /\ Running(e) \in Entry /\ Running(e).state = "running"
        /\ Running(e).attempt = e.attempt + 1 /\ Running(e).durability = "stored"
    BY <2>2, <2>3, RunningFields
  <2>7. /\ x \in Write /\ x.op = (IF asking THEN "acquire" ELSE "save")
        /\ x.answer = "none" /\ x.attempt = e.attempt + 1 /\ x.state = "running"
    BY <2>6, SnapshotFields
  <2>8. d = Append(c, x)
    BY <1>3, <2>1, <2>3
  <2>9. IF asking THEN f = e ELSE f = Running(e)
    BY <1>3, <2>1
  <2>10. /\ k \in n.starting <=> asking
         /\ k \in n.active <=> ~asking
         /\ k \notin n.queue /\ k \notin n.deciding
    BY <1>3, <2>3
  <2>11. f.durability = "stored" /\ f.state = IF asking THEN "queued" ELSE "running"
    BY <2>3, <2>6, <2>9
  <2>12. ChainShape(c, e, FALSE)
    BY <2>1, <2>3 DEF JobInv, Chained, ChainShape
  <2>13. /\ ChainShape(d, f, asking)
         /\ d # <<>> /\ d[Len(d)] = x
         /\ d[1] = IF c = <<>> THEN x ELSE c[1]
         /\ Len(d) = Len(c) + 1 /\ \A i \in 1..Len(c) : d[i] = c[i]
    <3>1. EntryMoves(e, f) /\ asking \in BOOLEAN
      BY <2>3, <2>11 DEF EntryMoves, Terminal
    <3> HIDE DEF c, d, e, f, x, asking
    <3>2. ChainShape(d, f, asking)
      BY <2>2, <2>7, <2>8, <2>11, <2>12, <3>1, ShapeAppend
    <3>3. Len(d) = Len(c) + 1 /\ (\A i \in 1..Len(c) : d[i] = c[i]) /\ d[Len(d)] = x
      BY <2>2, <2>7, <2>8
    <3>4. d[1] = IF c = <<>> THEN x ELSE c[1]
      BY <2>2, <3>3, EmptySeq
    <3>5. d # <<>>
      BY <2>2, <3>3, EmptySeq
    <3> QED BY <3>2, <3>3, <3>4, <3>5
  <2>14. ~SaidYes(d, "acquire") /\ (SaidYes(d, "create") => SaidYes(c, "create"))
    <3>1. ASSUME c # <<>> PROVE c[1].op # "acquire"
      BY <2>2, <2>12, <3>1, EmptySeq DEF ChainShape
    <3> HIDE DEF c, d, x
    <3> QED BY <2>7, <2>13, <3>1 DEF SaidYes
  <2>15. Placed(n, k)
    BY <2>5, <2>10, <2>11, <1>3, <2>1 DEF Placed
  <2>16. Chained(n, k)
    BY <2>4, <2>7, <2>10, <2>11, <2>13, <1>3, <2>1 DEF Chained
  <2>17. Backed(w, n, r, k)
    <3>1. Mine(r, w, k)
      BY <2>1, <2>3 DEF JobInv, Backed, Held
    <3> QED BY <2>4, <2>10, <2>14, <3>1 DEF Backed
  <2>18. Attempted(n, k)
    <3>1. \A i \in 1..Len(c) : c[i].op # "acquire"
      BY <2>12 DEF ChainShape
    <3>2. ASSUME asking PROVE f.attempt = e.attempt
      BY <3>2, <2>9
    <3>3. \A i \in 1..Len(d) : d[i].op = "acquire" => d[i].attempt = f.attempt + 1
      <4> HIDE DEF c, d, e, f, x, asking
      <4>1. Len(c) \in Nat
        BY <2>2
      <4>2. \A i \in 1..Len(d) : i \in 1..Len(c) \/ i = Len(d)
        BY <2>13, <4>1
      <4> QED BY <2>7, <2>13, <3>1, <3>2, <4>2
    <3> QED BY <3>3 DEF Attempted
  <2>19. Pending(w, n, r, k)
    <3>1. Known(n, k) /\ k \in Held(n)
      BY <2>1, <2>11 DEF Known, Held
    <3>2. \A b \in Beats : n.beats[b].phase = "renewed" => k \notin n.beats[b].ids
      BY <1>3, <2>1, <2>3 DEF JobInv, Pending, AgreeAround, Ended, Terminal
    <3> QED BY <3>1, <3>2 DEF Pending
  <2>20. ~Granted(n, k)
    BY <2>4, <2>10, <2>14, <2>5 DEF Granted
  <2> QED BY <2>15, <2>16, <2>17, <2>18, <2>19, <2>20 DEF JobInv
<1>7. Good(w, n, r) /\ NoNewLanes(m, n)
  <2> HIDE DEF asks, goes
  <2> QED BY <1>1, <1>2, <1>3, <1>4, <1>5, <1>6, MoveKeeps
<1> QED BY <1>7 DEF n

LEMMA PumpKeeps ==
  ASSUME Mode = "leased", NEW w \in Worker, NEW r, NEW m, Good(w, m, r)
  PROVE  Good(w, Pump(m), r) /\ NoNewLanes(m, Pump(m))
<1> DEFINE S == Taken(m, ByPriority(m))
           started == Start(m, S)
           beating == ScheduleHeartbeat(started)
<1>1. S \in SUBSET Eligible(m) /\ (m.paused => S = {})
  BY DEF Taken
<1>2. Pump(m) = CheckIdle(beating)
  BY DEF Pump
<1> HIDE DEF S
<1>3. Good(w, started, r) /\ NoNewLanes(m, started)
  BY <1>1, StartKeeps
<1> HIDE DEF started
<1>4. Good(w, beating, r) /\ NoNewLanes(started, beating)
  BY <1>3, ScheduleHeartbeatKeeps
<1> HIDE DEF beating
<1>5. Good(w, Pump(m), r) /\ NoNewLanes(beating, Pump(m))
  BY <1>2, <1>4, CheckIdleKeeps
<1> QED BY <1>3, <1>4, <1>5 DEF NoNewLanes

(* One job moves.                                                          *)
LEMMA OneKeeps ==
  ASSUME NEW w \in Worker, NEW r, NEW m, NEW n \in Memory, Good(w, m, r),
         AgreeAround(m, n), NEW j \in Job,
         n.loading # "no" => n.active \subseteq m.active /\ n.starting \subseteq m.starting,
         \A k \in Job : k # j => SameAt(m, n, k),
         JobInv(w, n, r, j), Granted(n, j) => Granted(m, j)
  PROVE  Good(w, n, r) /\ NoNewLanes(m, n)
<1> DEFINE S == {j}
<1>1. /\ \A k \in S : JobInv(w, n, r, k) /\ (Granted(n, k) => Granted(m, k))
      /\ \A k \in Job \ S : SameAt(m, n, k)
      /\ S \in SUBSET Job
  OBVIOUS
<1> HIDE DEF S
<1> QED BY <1>1, MoveKeeps

(* The slot of a handler that has returned is given back.                  *)
LEMMA ReleasedKeeps ==
  ASSUME NEW w \in Worker, NEW r, NEW m, Good(w, m, r), NEW j \in Job
  PROVE  Good(w, Released(m, j), r) /\ NoNewLanes(m, Released(m, j))
<1> DEFINE n == Released(m, j)
<1>1. m \in Memory /\ n \in Memory
  BY ReleasedType DEF Good
<1>2. /\ AgreeAround(m, n) /\ n.ent = m.ent /\ n.chain = m.chain /\ n.queue = m.queue
      /\ n.starting = m.starting /\ n.deciding = m.deciding /\ n.active = m.active \ {j}
  BY <1>1 DEF Released, AgreeAround, Memory
<1> HIDE DEF n
<1>3. (\A k \in Job : SameAt(m, n, k)) /\ SameAnswers(m, n)
  BY <1>2 DEF AgreeAround, SameAt, SameAnswers
<1>4. n.up /\ (n.loading # "no" => m.loading # "no" /\ n.paused)
  BY <1>2 DEF AgreeAround, Good, WorkerInv
<1>5. Good(w, n, r) /\ NoNewLanes(m, n)
  BY <1>1, <1>3, <1>4, SameKeeps
<1> QED BY <1>5 DEF n

(* The policy has answered, or is asked about a job that runs no more.     *)
LEMMA DecidedKeeps ==
  ASSUME NEW w \in Worker, NEW r, NEW m, Good(w, m, r), NEW j \in Job
  PROVE  LET n == [m EXCEPT !.deciding = @ \ {j}]
         IN Good(w, n, r) /\ NoNewLanes(m, n)
<1> DEFINE n == [m EXCEPT !.deciding = @ \ {j}]
<1>1. m \in Memory
  BY DEF Good
<1>2. n \in Memory
  BY <1>1 DEF Memory
<1>3. /\ AgreeAround(m, n) /\ n.ent = m.ent /\ n.chain = m.chain /\ n.queue = m.queue
      /\ n.starting = m.starting /\ n.deciding = m.deciding \ {j} /\ n.active = m.active
  BY <1>1 DEF AgreeAround, Memory
<1> HIDE DEF n
<1>4. (\A k \in Job : SameAt(m, n, k)) /\ SameAnswers(m, n)
  BY <1>3 DEF AgreeAround, SameAt, SameAnswers
<1>5. n.up /\ (n.loading # "no" => m.loading # "no" /\ n.paused)
  BY <1>3 DEF AgreeAround, Good, WorkerInv
<1>6. Good(w, n, r) /\ NoNewLanes(m, n)
  BY <1>2, <1>4, <1>5, SameKeeps
<1> QED BY <1>6 DEF n

LEMMA DecidingKeeps ==
  ASSUME NEW w \in Worker, NEW r, NEW m, Good(w, m, r), NEW j \in Job,
         m.ent[j].state = "running", j \notin m.active
  PROVE  LET n == [m EXCEPT !.deciding = @ \cup {j}]
         IN Good(w, n, r) /\ NoNewLanes(m, n)
<1> DEFINE n == [m EXCEPT !.deciding = @ \cup {j}]
<1>1. m \in Memory
  BY DEF Good
<1>2. n \in Memory
  BY <1>1 DEF Memory
<1>3. /\ AgreeAround(m, n) /\ n.ent = m.ent /\ n.chain = m.chain /\ n.queue = m.queue
      /\ n.starting = m.starting /\ n.deciding = m.deciding \cup {j} /\ n.active = m.active
  BY <1>1 DEF AgreeAround, Memory
<1> HIDE DEF n
<1>4. \A k \in Job : k # j => SameAt(m, n, k)
  BY <1>3 DEF SameAt
<1>5. JobInv(w, m, r, j)
  BY DEF Good, WorkerInv
<1>6. Placed(n, j) /\ Chained(n, j) /\ Attempted(n, j)
  BY <1>3, <1>5 DEF JobInv, Placed, Chained, Attempted, Ended
<1>7. Backed(w, n, r, j) /\ Pending(w, n, r, j) /\ (Granted(n, j) => Granted(m, j))
  BY <1>3, <1>5 DEF JobInv, Backed, Pending, Granted, Ended, Held, Known, AgreeAround
<1>8. n.active \subseteq m.active /\ n.starting \subseteq m.starting
  BY <1>3
<1>9. JobInv(w, n, r, j)
  BY <1>6, <1>7 DEF JobInv
<1>10. Good(w, n, r) /\ NoNewLanes(m, n)
  BY <1>2, <1>3, <1>4, <1>7, <1>8, <1>9, OneKeeps
<1> QED BY <1>10 DEF n

(* A change of `waiting` or `cancelRequested` disturbs nothing.            *)
LEMMA EntryKeeps ==
  ASSUME NEW w \in Worker, NEW r, NEW m, Good(w, m, r), NEW j \in Job, NEW e \in Entry,
         e.state = m.ent[j].state, e.attempt = m.ent[j].attempt,
         e.durability = m.ent[j].durability
  PROVE  LET n == [m EXCEPT !.ent = [m.ent EXCEPT ![j] = e]]
         IN Good(w, n, r) /\ NoNewLanes(m, n)
<1> DEFINE n == [m EXCEPT !.ent = [m.ent EXCEPT ![j] = e]]
<1>1. m \in Memory /\ n \in Memory
  BY EntryField DEF Good
<1>2. /\ AgreeAround(m, n) /\ n.chain = m.chain /\ n.queue = m.queue
      /\ n.starting = m.starting /\ n.deciding = m.deciding /\ n.active = m.active
      /\ \A k \in Job : n.ent[k] = IF k = j THEN e ELSE m.ent[k]
  BY <1>1 DEF AgreeAround, Memory
<1> HIDE DEF n
<1>3. (\A k \in Job : SameAt(m, n, k)) /\ SameAnswers(m, n)
  BY <1>2 DEF AgreeAround, SameAt, SameAnswers
<1>4. n.up /\ (n.loading # "no" => m.loading # "no" /\ n.paused)
  BY <1>2 DEF AgreeAround, Good, WorkerInv
<1>5. Good(w, n, r) /\ NoNewLanes(m, n)
  BY <1>1, <1>3, <1>4, SameKeeps
<1> QED BY <1>5 DEF n

LEMMA SettleNobody ==
  ASSUME NEW m \in Memory, NEW S \in SUBSET Job, NEW state \in Terminal
  PROVE  S = {} => Settle(m, S, state) \in Memory /\ Agree(m, Settle(m, S, state))
<1> DEFINE n == Settle(m, S, state)
<1>1. m \in Memory /\ n \in Memory
  BY SettleType
<1>2. SettlesTo(m, n, S, state)
  BY <1>1, SettleFields
<1> HIDE DEF n
<1>3. S = {} => \A j \in Job : n.ent[j] = m.ent[j] /\ n.chain[j] = m.chain[j]
  BY <1>2 DEF SettlesTo
<1>4. S = {} => n.ent = m.ent /\ n.chain = m.chain
  BY <1>1, <1>3 DEF Memory
<1>5. S = {} => Agree(m, n)
  BY <1>2, <1>4 DEF Agree, AgreeAround, SettlesTo
<1> QED BY <1>1, <1>5 DEF n

(* #lose does nothing to jobs that have settled or are not known.          *)
LEMMA LoseNothing ==
  ASSUME NEW m \in Memory, NEW S \in SUBSET Job,
         \A j \in S : m.ent[j].state \notin {"queued", "running"}
  PROVE  Lose(m, S) \in Memory /\ Agree(m, Lose(m, S))
<1> DEFINE lost == { j \in S : /\ m.ent[j].state \in {"queued", "running"}
                              /\ ~LeaseLost(m.ent[j]) }
           queued == { j \in lost : m.ent[j].state = "queued" }
           ent == [j \in Job |->
                     IF j \in lost THEN [m.ent[j] EXCEPT !.durability = "lost"] ELSE m.ent[j]]
           marked == [m EXCEPT !.ent = ent]
           pulled == Pull(marked, queued)
           failed == "failed"
           n == Settle(pulled, queued, failed)
<1>1. lost = {} /\ queued = {}
  OBVIOUS
<1>2. Lose(m, S) = n
  BY DEF Lose
<1>3. ent = m.ent
  <2> HIDE DEF lost
  <2> QED BY <1>1 DEF Memory
<1>4. marked = m
  <2> HIDE DEF ent
  <2> QED BY <1>3 DEF Memory
<1>5. queued \in SUBSET Job /\ failed \in Terminal
  BY DEF Terminal
<1> HIDE DEF marked, queued, lost, ent, failed
<1>6. pulled \in Memory /\ Agree(m, pulled)
  <2>1. pulled \in Memory
    BY <1>4, <1>5, PullType
  <2>2. /\ AgreeAround(marked, pulled)
        /\ pulled.ent = marked.ent /\ pulled.chain = marked.chain
        /\ pulled.starting = marked.starting /\ pulled.active = marked.active
        /\ pulled.deciding = marked.deciding /\ pulled.queue = marked.queue \ queued
    BY <1>4, <1>5, PullFields
  <2> HIDE DEF pulled
  <2> QED BY <1>1, <1>4, <2>1, <2>2 DEF Agree, AgreeAround
<1> HIDE DEF pulled
<1>7. n \in Memory /\ Agree(pulled, n)
  BY <1>1, <1>5, <1>6, SettleNobody
<1> HIDE DEF n
<1>8. Agree(m, n)
  BY <1>6, <1>7 DEF Agree
<1> QED BY <1>2, <1>7, <1>8

-----------------------------------------------------------------------------
(* Jobs come in, go back in line, and their calls are answered.            *)

(* n is m with the entry of j changed and a call about it appended.        *)
Wrote(m, n, j, e, x) ==
  /\ AgreeAround(m, n) /\ n.queue = m.queue
  /\ n.starting = m.starting /\ n.active = m.active /\ n.deciding = m.deciding
  /\ n.ent[j] = e /\ n.chain[j] = Append(m.chain[j], x)
  /\ \A k \in Job : k # j => n.ent[k] = m.ent[k] /\ n.chain[k] = m.chain[k]

LEMMA WroteFields ==
  ASSUME NEW m \in Memory, NEW j \in Job, NEW e \in Entry,
         e.durability \notin {"none", "lost"}, NEW op \in {"create", "save"}
  PROVE  LET n == Persist([m EXCEPT !.ent = [m.ent EXCEPT ![j] = e]], {j}, op)
         IN n \in Memory /\ Wrote(m, n, j, e, Snapshot(e, op))
<1> DEFINE f == [m EXCEPT !.ent = [m.ent EXCEPT ![j] = e]]
           S == {j}
           n == Persist(f, S, op)
<1>1. f \in Memory
  BY EntryField
<1>2. /\ AgreeAround(m, f) /\ f.queue = m.queue /\ f.chain = m.chain
      /\ f.starting = m.starting /\ f.active = m.active /\ f.deciding = m.deciding
      /\ \A k \in Job : f.ent[k] = IF k = j THEN e ELSE m.ent[k]
  BY DEF AgreeAround, Memory
<1> HIDE DEF f
<1>3. S \in SUBSET Job /\ \A k \in Job : k \in S <=> k = j
  OBVIOUS
<1> HIDE DEF S
<1>4. n \in Memory
  BY <1>1, <1>3, PersistType
<1>5. Persisted(f, n, S, op)
  BY <1>1, <1>3, PersistFields
<1> HIDE DEF n
<1>6. op # "remove"
  OBVIOUS
<1>7. /\ n.chain[j] = Append(m.chain[j], Snapshot(e, op))
      /\ \A k \in Job : k # j => n.chain[k] = m.chain[k]
  BY <1>2, <1>3, <1>5, <1>6 DEF Persisted
<1>8. Wrote(m, n, j, e, Snapshot(e, op))
  BY <1>2, <1>5, <1>7 DEF AgreeAround, Persisted, Wrote
<1> QED BY <1>4, <1>8 DEF n, S, f

(* enqueue makes a job known, with its create on its way.                  *)
LEMMA CreatedKeeps ==
  ASSUME NEW w \in Worker, NEW r, NEW m, Good(w, m, r), NEW j \in Job, ~Known(m, j),
         NEW e \in Entry, e.state = "queued", e.durability = "pending"
  PROVE  LET n == Persist([m EXCEPT !.ent = [m.ent EXCEPT ![j] = e]], {j}, "create")
         IN /\ Good(w, n, r) /\ NoNewLanes(m, n)
            /\ n.ent[j].state = "queued" /\ j \notin n.starting
<1> DEFINE f == [m EXCEPT !.ent = [m.ent EXCEPT ![j] = e]]
           n == Persist(f, {j}, "create")
           x == Snapshot(e, "create")
<1>1. m \in Memory /\ e.durability \notin {"none", "lost"}
  BY DEF Good
<1>2. /\ n \in Memory /\ AgreeAround(m, n) /\ n.queue = m.queue
      /\ n.starting = m.starting /\ n.active = m.active /\ n.deciding = m.deciding
      /\ n.ent[j] = e /\ n.chain[j] = Append(m.chain[j], x)
      /\ \A k \in Job : k # j => n.ent[k] = m.ent[k] /\ n.chain[k] = m.chain[k]
  <2>1. n \in Memory /\ Wrote(m, n, j, e, x)
    BY <1>1, WroteFields
  <2> HIDE DEF n, x
  <2> QED BY <2>1 DEF Wrote
<1> HIDE DEF n
<1>3. JobInv(w, m, r, j) /\ m.chain[j] = <<>>
  BY DEF Good, WorkerInv, JobInv, Chained, Known
<1>4. /\ j \notin m.queue /\ j \notin m.starting /\ j \notin m.active /\ j \notin m.deciding
  BY <1>3 DEF JobInv, Placed, Known
<1>5. x.op = "create" /\ x.answer = "none"
  BY SnapshotFields
<1> HIDE DEF x
<1>6. n.chain[j] = <<x>>
  BY <1>2, <1>3
<1>7. n.chain[j] # <<>> /\ Len(n.chain[j]) = 1 /\ n.chain[j][1] = x
  BY <1>6
<1>8. Placed(n, j) /\ Attempted(n, j)
  BY <1>2, <1>4, <1>5, <1>7 DEF Placed, Attempted
<1>9. Chained(n, j)
  BY <1>2, <1>4, <1>5, <1>7 DEF Chained, ChainShape
<1>10. Backed(w, n, r, j)
  BY <1>2, <1>4, <1>5, <1>7 DEF Backed, SaidYes, Held
<1>11. Pending(w, n, r, j)
  <2>1. Known(n, j) /\ ~Ended(m, j) /\ j \notin Held(m)
    BY <1>2 DEF Known, Ended, Held, Terminal
  <2> QED BY <1>2, <1>3, <2>1 DEF JobInv, Pending, AgreeAround
<1>12. ~Granted(n, j)
  BY <1>2, <1>4 DEF Granted
<1>13. \A k \in Job : k # j => SameAt(m, n, k)
  BY <1>2 DEF SameAt
<1>14. JobInv(w, n, r, j)
  BY <1>8, <1>9, <1>10, <1>11 DEF JobInv
<1>15. Good(w, n, r) /\ NoNewLanes(m, n)
  BY <1>2, <1>12, <1>13, <1>14, OneKeeps
<1> QED BY <1>2, <1>4, <1>15 DEF n

(* #requeue                                                                *)
LEMMA RequeueKeeps ==
  ASSUME NEW w \in Worker, NEW r, NEW m, Good(w, m, r), NEW j \in Job,
         m.ent[j].state = "running", j \notin m.active, j \notin m.deciding
  PROVE  Good(w, Requeue(m, j), r) /\ NoNewLanes(m, Requeue(m, j))
<1> DEFINE e == [m.ent[j] EXCEPT !.state = "queued", !.backoff = TRUE, !.waiting = TRUE]
           f == [m EXCEPT !.ent = [m.ent EXCEPT ![j] = e]]
           p == Push(f, j)
           S == {j}
           n == Persist(p, S, "save")
           c == m.chain[j]
           x == Snapshot(e, "save")
<1>1. m \in Memory
  BY DEF Good
<1>2. m.ent[j] \in Entry /\ c \in Seq(Write)
  BY <1>1 DEF Memory
<1>3. JobInv(w, m, r, j)
  BY DEF Good, WorkerInv
<1>4. m.ent[j].durability = "stored" /\ j \notin m.starting /\ j \notin m.queue
  BY <1>3 DEF JobInv, Placed, Ended, Terminal
<1>5. /\ e \in Entry /\ e.state = "queued" /\ e.durability = "stored"
      /\ e.attempt = m.ent[j].attempt
  BY <1>2, <1>4 DEF Entry
<1>6. Requeue(m, j) = n
  <2>1. f = [m EXCEPT !.ent[j].state = "queued", !.ent[j].backoff = TRUE,
                      !.ent[j].waiting = TRUE]
    BY <1>1 DEF Memory
  <2> HIDE DEF f
  <2> QED BY <2>1 DEF Requeue
<1>7. x \in Write /\ x.op = "save" /\ x.answer = "none"
  BY <1>5, SnapshotFields
<1> HIDE DEF e
<1>8. f \in Memory
  BY <1>1, <1>5, EntryField
<1>9. /\ AgreeAround(m, f) /\ f.queue = m.queue /\ f.chain = m.chain
      /\ f.starting = m.starting /\ f.active = m.active /\ f.deciding = m.deciding
      /\ \A k \in Job : f.ent[k] = IF k = j THEN e ELSE m.ent[k]
  BY <1>1 DEF AgreeAround, Memory
<1> HIDE DEF f
<1>10. p \in Memory
  BY <1>8, PushType
<1>11. /\ AgreeAround(f, p) /\ p.ent = f.ent /\ p.chain = f.chain
       /\ p.starting = f.starting /\ p.active = f.active /\ p.deciding = f.deciding
       /\ p.queue = f.queue \cup {j}
  BY <1>8, PushFields
<1> HIDE DEF p
<1>12. S \in SUBSET Job /\ \A k \in Job : k \in S <=> k = j
  OBVIOUS
<1> HIDE DEF S
<1>13. n \in Memory
  BY <1>10, <1>12, PersistType
<1>14. Persisted(p, n, S, "save")
  BY <1>10, <1>12, PersistFields
<1> HIDE DEF n
<1>15. /\ AgreeAround(m, n) /\ n.queue = m.queue \cup {j}
       /\ n.starting = m.starting /\ n.active = m.active /\ n.deciding = m.deciding
       /\ n.ent[j] = e /\ n.chain[j] = Append(c, x)
       /\ \A k \in Job : k # j => n.ent[k] = m.ent[k] /\ n.chain[k] = m.chain[k]
  <2>1. /\ AgreeAround(m, n) /\ n.queue = m.queue \cup {j} /\ n.ent = f.ent
        /\ n.starting = m.starting /\ n.active = m.active /\ n.deciding = m.deciding
    BY <1>9, <1>11, <1>14 DEF AgreeAround, Persisted
  <2>2. \A k \in Job : k # j => n.chain[k] = m.chain[k]
    BY <1>9, <1>11, <1>12, <1>14 DEF Persisted
  <2>3. p.ent[j] = e /\ p.chain[j] = c
    BY <1>9, <1>11
  <2>4. n.chain[j] = Append(c, x)
    BY <1>5, <1>12, <1>14, <2>3 DEF Persisted
  <2> HIDE DEF x, c
  <2> QED BY <1>9, <2>1, <2>2, <2>4
<1> DEFINE d == n.chain[j]
<1>16. /\ ChainShape(d, e, FALSE) /\ d # <<>>
       /\ \A i \in 1..Len(d) : d[i].op # "acquire"
       /\ SaidYes(d, "create") => SaidYes(c, "create")
  <2>1. ChainShape(c, m.ent[j], FALSE)
    BY <1>3, <1>4 DEF JobInv, Chained, ChainShape
  <2>2. EntryMoves(m.ent[j], e)
    BY <1>4, <1>5 DEF EntryMoves, Terminal
  <2>4. d = Append(c, x)
    BY <1>15
  <2> DEFINE f0 == m.ent[j]
  <2> HIDE DEF c, d, x, f0
  <2>3. ChainShape(d, e, FALSE)
    <3>1. ChainShape(c, f0, FALSE) /\ EntryMoves(f0, e)
      BY <2>1, <2>2 DEF f0
    <3>2. x.op # "create" /\ x.op # "remove" /\ x.op # "acquire"
      BY <1>7
    <3>3. ChainShape(Append(c, x), e, FALSE)
      BY <1>2, <1>5, <1>7, <3>1, <3>2, ShapeAppend
    <3> QED BY <2>4, <3>3
  <2>5. d # <<>> /\ d[1] = IF c = <<>> THEN x ELSE c[1]
    BY <1>2, <1>7, <2>4, EmptySeq
  <2>6. SaidYes(d, "create") => SaidYes(c, "create")
    BY <1>7, <2>5 DEF SaidYes
  <2>7. \A i \in 1..Len(d) : d[i].op # "acquire"
    BY <2>3 DEF ChainShape
  <2> QED BY <2>3, <2>5, <2>6, <2>7
<1>17. ~SaidYes(d, "acquire")
  <2>1. d \in Seq(Write)
    BY <1>13 DEF Memory
  <2> HIDE DEF d
  <2>2. Len(d) \in Nat \ {0}
    BY <1>16, <2>1, EmptySeq
  <2> QED BY <1>16, <2>2 DEF SaidYes
<1>18. Placed(n, j)
  BY <1>4, <1>5, <1>15 DEF Placed, Ended
<1>19. Chained(n, j)
  <2>1. ChainShape(n.chain[j], n.ent[j], j \in n.starting)
    BY <1>4, <1>15, <1>16 DEF ChainShape
  <2> QED BY <1>4, <1>5, <1>15, <2>1 DEF Chained
<1>20. Backed(w, n, r, j)
  <2>1. Mine(r, w, j)
    BY <1>3, <1>4 DEF JobInv, Backed, Held
  <2> QED BY <1>15, <1>17, <2>1 DEF Backed
<1>21. Attempted(n, j)
  BY <1>16 DEF Attempted
<1>22. Pending(w, n, r, j)
  <2>1. Known(n, j) /\ j \in Held(n) /\ ~Ended(m, j)
    BY <1>5, <1>15 DEF Known, Held, Ended, Terminal
  <2> QED BY <1>3, <1>15, <2>1 DEF JobInv, Pending, AgreeAround
<1>23. ~Granted(n, j)
  BY <1>4, <1>15 DEF Granted
<1>24. JobInv(w, n, r, j) /\ \A k \in Job : k # j => SameAt(m, n, k)
  BY <1>15, <1>18, <1>19, <1>20, <1>21, <1>22 DEF JobInv, SameAt
<1>25. Good(w, n, r) /\ NoNewLanes(m, n)
  BY <1>13, <1>15, <1>23, <1>24, OneKeeps
<1> QED BY <1>6, <1>25

(* n is m without the answered call at the head of j's chain.              *)
Dropped(m, n, j) ==
  /\ n.chain[j] = Tail(m.chain[j])
  /\ \A k \in Job : k # j => n.chain[k] = m.chain[k]

LEMMA DropFields ==
  ASSUME NEW m \in Memory, NEW j \in Job, m.chain[j] # <<>>
  PROVE  /\ DropHead(m, j) \in Memory /\ AgreeAround(m, DropHead(m, j))
         /\ Dropped(m, DropHead(m, j), j)
         /\ DropHead(m, j).ent = m.ent /\ DropHead(m, j).queue = m.queue
         /\ DropHead(m, j).starting = m.starting /\ DropHead(m, j).active = m.active
         /\ DropHead(m, j).deciding = m.deciding
<1>1. DropHead(m, j) \in Memory
  BY DropHeadType
<1> DEFINE t == Tail(m.chain[j])
<1>2. DropHead(m, j) = [m EXCEPT !.chain = [m.chain EXCEPT ![j] = t]]
  BY DEF DropHead, Memory
<1>3. m.chain \in [Job -> Seq(Write)]
  BY DEF Memory
<1> HIDE DEF t
<1> DEFINE f == [m.chain EXCEPT ![j] = t]
<1>4. f[j] = t /\ \A k \in Job : k # j => f[k] = m.chain[k]
  BY <1>3
<1> HIDE DEF f
<1>5. /\ AgreeAround(m, DropHead(m, j)) /\ DropHead(m, j).chain = f
      /\ DropHead(m, j).ent = m.ent /\ DropHead(m, j).queue = m.queue
      /\ DropHead(m, j).starting = m.starting /\ DropHead(m, j).active = m.active
      /\ DropHead(m, j).deciding = m.deciding
  BY <1>2 DEF AgreeAround, Memory, f
<1>6. Dropped(m, DropHead(m, j), j)
  BY <1>4, <1>5 DEF Dropped, t
<1> QED BY <1>1, <1>5, <1>6

(* What is left of a chain holds no answer, and the same calls.            *)
LEMMA TailFacts ==
  ASSUME NEW c \in Seq(Write), c # <<>>, NEW e, NEW asking \in BOOLEAN,
         ChainShape(c, e, asking)
  PROVE  /\ ChainShape(Tail(c), e, asking)
         /\ c[1].op = "acquire" => ChainShape(Tail(c), e, FALSE)
         /\ \A i \in 1..Len(Tail(c)) : Tail(c)[i].op # "create"
         /\ \A op : ~SaidYes(Tail(c), op)
         /\ \A a : (\A i \in 1..Len(c) : c[i].op = "acquire" => c[i].attempt = a)
                     => \A i \in 1..Len(Tail(c)) :
                          Tail(c)[i].op = "acquire" => Tail(c)[i].attempt = a
         /\ (c[1].op # "acquire" /\ c[Len(c)].op = "acquire")
              => Tail(c) # <<>> /\ Tail(c)[Len(Tail(c))].op = "acquire"
         /\ (c[1].op = "acquire" /\ c[Len(c)].op = "acquire") => Tail(c) = <<>>
<1> DEFINE d == Tail(c)
<1>1. /\ ChainShape(d, e, asking)
      /\ c[1].op = "acquire" => ChainShape(d, e, FALSE)
      /\ \A i \in 1..Len(d) : d[i].op # "create" /\ d[i].answer = "none" /\ d[i] = c[i + 1]
      /\ Len(d) = Len(c) - 1
  BY ShapeTail
<1>2. Len(c) \in Nat \ {0} /\ d \in Seq(Write)
  <2>1. Len(c) \in Nat /\ Len(c) # 0
    BY EmptySeq
  <2>2. d \in Seq(Write)
    BY HeadTailProperties
  <2> HIDE DEF d
  <2> QED BY <2>1, <2>2
<1> HIDE DEF d
<1>3. ASSUME NEW op PROVE ~SaidYes(d, op)
  <2>1. ASSUME d # <<>> PROVE 1 \in 1..Len(d)
    BY <1>1, <1>2, <2>1, EmptySeq
  <2> QED BY <1>1, <2>1 DEF SaidYes
<1>4. \A i \in 1..Len(d) : i + 1 \in 1..Len(c)
  BY <1>1, <1>2
<1>5. ASSUME NEW a, \A i \in 1..Len(c) : c[i].op = "acquire" => c[i].attempt = a
      PROVE  \A i \in 1..Len(d) : d[i].op = "acquire" => d[i].attempt = a
  BY <1>1, <1>4, <1>5
<1>6. ASSUME c[1].op # "acquire", c[Len(c)].op = "acquire"
      PROVE  d # <<>> /\ d[Len(d)].op = "acquire"
  <2>1. Len(c) # 1
    BY <1>6
  <2>2. Len(d) \in 1..Len(d) /\ Len(d) + 1 = Len(c)
    BY <1>1, <1>2, <2>1
  <2>3. d # <<>>
    BY <2>2, <1>2, EmptySeq
  <2> QED BY <1>1, <1>6, <2>2, <2>3
<1>7. ASSUME c[1].op = "acquire", c[Len(c)].op = "acquire"
      PROVE  d = <<>>
  <2>1. 1 \in 1..Len(c) /\ Len(c) \in 1..Len(c)
    BY <1>2
  <2>2. Len(c) = 1
    BY <1>7, <2>1 DEF ChainShape
  <2> QED BY <1>1, <1>2, <2>2, EmptySeq
<1> QED BY <1>1, <1>3, <1>5, <1>6, <1>7 DEF d

(* A save, a removal or a create that was refused has been answered.       *)
LEMMA DropKeeps ==
  ASSUME NEW w \in Worker, NEW r, NEW m, Good(w, m, r), NEW j \in Job,
         m.chain[j] # <<>>, m.chain[j][1].op # "acquire"
  PROVE  Good(w, DropHead(m, j), r) /\ NoNewLanes(m, DropHead(m, j))
<1> DEFINE n == DropHead(m, j)
           c == m.chain[j]
           d == n.chain[j]
           e == m.ent[j]
           asking == j \in m.starting
<1>1. m \in Memory
  BY DEF Good
<1>2. /\ n \in Memory /\ AgreeAround(m, n) /\ Dropped(m, n, j) /\ n.ent = m.ent
      /\ n.queue = m.queue /\ n.starting = m.starting /\ n.active = m.active
      /\ n.deciding = m.deciding
  BY <1>1, DropFields
<1> HIDE DEF n
<1>3. JobInv(w, m, r, j)
  BY DEF Good, WorkerInv
<1>4. c \in Seq(Write) /\ c # <<>> /\ ChainShape(c, e, asking) /\ asking \in BOOLEAN
  BY <1>1, <1>3 DEF Memory, JobInv, Chained
<1>5. d = Tail(c)
  BY <1>2 DEF Dropped
<1>6. /\ ChainShape(d, e, asking)
      /\ \A op : ~SaidYes(d, op)
      /\ \A a : (\A i \in 1..Len(c) : c[i].op = "acquire" => c[i].attempt = a)
                  => \A i \in 1..Len(d) : d[i].op = "acquire" => d[i].attempt = a
      /\ c[Len(c)].op = "acquire" => d # <<>> /\ d[Len(d)].op = "acquire"
  <2> HIDE DEF c, d, e, asking
  <2>1. c[1].op # "acquire"
    BY DEF c
  <2> QED BY <1>4, <1>5, <2>1, TailFacts
<1>7. Placed(n, j)
  BY <1>2, <1>3 DEF JobInv, Placed, Ended
<1>8. Chained(n, j)
  BY <1>2, <1>3, <1>4, <1>6, ZenonT(60) DEF JobInv, Chained, Ended
<1>9. Backed(w, n, r, j)
  BY <1>2, <1>3, <1>6 DEF JobInv, Backed, Held
<1>10. Attempted(n, j)
  BY <1>2, <1>3, <1>6, ZenonT(60) DEF JobInv, Attempted, Ended
<1>11. Pending(w, n, r, j)
  BY <1>2, <1>3 DEF JobInv, Pending, AgreeAround, Held, Ended, Known
<1>12. Granted(n, j) => Granted(m, j)
  BY <1>2, <1>6 DEF Granted
<1>13. JobInv(w, n, r, j) /\ \A k \in Job : k # j => SameAt(m, n, k)
  BY <1>2, <1>7, <1>8, <1>9, <1>10, <1>11 DEF JobInv, SameAt, Dropped
<1>14. Good(w, n, r) /\ NoNewLanes(m, n)
  BY <1>2, <1>12, <1>13, OneKeeps
<1> QED BY <1>14 DEF n

(* The create has been executed: the job is acknowledged, and in the table.*)
LEMMA StoredKeeps ==
  ASSUME NEW w \in Worker, NEW r, NEW m, Good(w, m, r), NEW j \in Job,
         SaidYes(m.chain[j], "create"), NEW n \in Memory,
         AgreeAround(m, n), Dropped(m, n, j), n.queue = m.queue,
         n.starting = m.starting, n.active = m.active, n.deciding = m.deciding,
         n.ent[j].durability = "stored", n.ent[j].state = m.ent[j].state,
         n.ent[j].attempt = m.ent[j].attempt,
         \A k \in Job : k # j => n.ent[k] = m.ent[k]
  PROVE  Good(w, n, r) /\ NoNewLanes(m, n)
<1> DEFINE c == m.chain[j]
           d == n.chain[j]
           e == m.ent[j]
           f == n.ent[j]
           asking == j \in m.starting
<1>1. m \in Memory /\ JobInv(w, m, r, j)
  BY DEF Good, WorkerInv
<1>2. c \in Seq(Write) /\ c # <<>> /\ ChainShape(c, e, asking) /\ asking \in BOOLEAN
  BY <1>1 DEF Memory, JobInv, Chained, SaidYes
<1>3. d = Tail(c) /\ c[1].op = "create"
  BY DEF Dropped, SaidYes
<1>4. /\ ChainShape(d, e, asking)
      /\ \A i \in 1..Len(d) : d[i].op # "create"
      /\ \A op : ~SaidYes(d, op)
      /\ \A a : (\A i \in 1..Len(c) : c[i].op = "acquire" => c[i].attempt = a)
                  => \A i \in 1..Len(d) : d[i].op = "acquire" => d[i].attempt = a
      /\ c[Len(c)].op = "acquire" => d # <<>> /\ d[Len(d)].op = "acquire"
  <2> HIDE DEF c, d, e, asking
  <2> QED BY <1>2, <1>3, TailFacts, ZenonT(60)
<1>5. e.durability = "pending"
  <2> HIDE DEF c, e, asking
  <2>1. 1 \in 1..Len(c)
    BY <1>2, EmptySeq
  <2> QED BY <1>2, <1>3, <2>1 DEF ChainShape
<1>6. j \notin m.active /\ j \notin m.deciding /\ e.state # "running" /\ e.state # "absent"
  BY <1>1, <1>2, <1>5 DEF JobInv, Placed, Chained
<1>7. ChainShape(d, f, asking)
  BY <1>4 DEF ChainShape
<1>8. Placed(n, j)
  BY <1>1, <1>6 DEF JobInv, Placed, Ended
<1>9. Chained(n, j)
  BY <1>1, <1>4, <1>6, <1>7 DEF JobInv, Chained, Ended
<1>10. Backed(w, n, r, j)
  BY <1>1, <1>4, <1>6 DEF JobInv, Backed
<1>11. Attempted(n, j)
  <2> DEFINE a == e.attempt + 1
  <2>1. ~Ended(m, j) => \A i \in 1..Len(c) : c[i].op = "acquire" => c[i].attempt = a
    BY <1>1 DEF JobInv, Attempted
  <2> HIDE DEF a
  <2>2. ~Ended(m, j) => \A i \in 1..Len(d) : d[i].op = "acquire" => d[i].attempt = a
    BY <1>4, <2>1
  <2> QED BY <2>2 DEF Attempted, Ended, a
<1>12. Pending(w, n, r, j)
  <2>1. j \in Held(m) \/ Ended(m, j) => j \in Held(n) \/ Ended(n, j)
    BY DEF Held, Ended
  <2> QED BY <1>1, <2>1 DEF JobInv, Pending, AgreeAround, Ended, Known
<1>13. ~Granted(n, j)
  BY <1>4, <1>6 DEF Granted
<1>14. JobInv(w, n, r, j) /\ \A k \in Job : k # j => SameAt(m, n, k)
  BY <1>8, <1>9, <1>10, <1>11, <1>12 DEF JobInv, SameAt, Dropped
<1> QED BY <1>13, <1>14, OneKeeps

(* An acquire has been answered: the job asks no more.                     *)
LEMMA FreedKeeps ==
  ASSUME NEW w \in Worker, NEW r, NEW m, Good(w, m, r), NEW j \in Job,
         m.chain[j] # <<>>, m.chain[j][1].op = "acquire", NEW n \in Memory,
         AgreeAround(m, n), Dropped(m, n, j), n.ent = m.ent, n.queue = m.queue,
         n.starting = m.starting \ {j}, n.active = m.active, n.deciding = m.deciding
  PROVE  /\ Good(w, n, r) /\ NoNewLanes(m, n)
         /\ ~Ended(m, j) => /\ n.chain[j] = <<>> /\ n.ent[j].state = "queued"
                            /\ n.ent[j].durability = "stored" /\ j \notin n.queue
         /\ j \in m.starting /\ j \notin n.starting
<1> DEFINE c == m.chain[j]
           d == n.chain[j]
           e == m.ent[j]
           asking == j \in m.starting
<1>1. m \in Memory /\ JobInv(w, m, r, j)
  BY DEF Good, WorkerInv
<1>2. c \in Seq(Write) /\ c # <<>> /\ ChainShape(c, e, asking) /\ asking \in BOOLEAN
  BY <1>1 DEF Memory, JobInv, Chained
<1>3. d = Tail(c) /\ c[1].op = "acquire"
  BY DEF Dropped
<1>4. asking
  <2> HIDE DEF c, e, asking
  <2>1. 1 \in 1..Len(c)
    BY <1>2, EmptySeq
  <2> QED BY <1>2, <1>3, <2>1 DEF ChainShape
<1>5. /\ ChainShape(d, e, FALSE)
      /\ \A op : ~SaidYes(d, op)
      /\ \A a : (\A i \in 1..Len(c) : c[i].op = "acquire" => c[i].attempt = a)
                  => \A i \in 1..Len(d) : d[i].op = "acquire" => d[i].attempt = a
      /\ c[Len(c)].op = "acquire" => d = <<>>
  <2> HIDE DEF c, d, e, asking
  <2> QED BY <1>2, <1>3, TailFacts
<1>6. ~Ended(m, j) => d = <<>>
  BY <1>1, <1>4, <1>5 DEF JobInv, Chained
<1>7. j \notin n.starting /\ j \notin n.queue /\ e.state # "absent"
  BY <1>1, <1>4 DEF JobInv, Placed
<1>8. ~Ended(m, j) => e.state = "queued" /\ e.durability = "stored"
  BY <1>1, <1>4 DEF JobInv, Placed
<1>9. j \notin n.active /\ j \notin n.deciding
  BY <1>1, <1>8 DEF JobInv, Placed, Ended, Terminal
<1>10. Placed(n, j)
  BY <1>1, <1>7, <1>9 DEF JobInv, Placed
<1>11. Chained(n, j)
  <2>1. ChainShape(n.chain[j], n.ent[j], j \in n.starting)
    BY <1>5, <1>7 DEF ChainShape
  <2> QED BY <1>7, <1>9, <2>1 DEF Chained
<1>12. Backed(w, n, r, j)
  BY <1>1, <1>5, <1>9 DEF JobInv, Backed, Held
<1>13. Attempted(n, j)
  BY <1>1, <1>5 DEF JobInv, Attempted, Ended
<1>14. Pending(w, n, r, j)
  BY <1>1 DEF JobInv, Pending, AgreeAround, Held, Ended, Known
<1>15. ~Granted(n, j)
  BY <1>7, <1>9 DEF Granted
<1>16. JobInv(w, n, r, j) /\ \A k \in Job : k # j => SameAt(m, n, k)
  BY <1>10, <1>11, <1>12, <1>13, <1>14 DEF JobInv, SameAt, Dropped
<1>17. Good(w, n, r) /\ NoNewLanes(m, n)
  <2>1. n.active \subseteq m.active /\ n.starting \subseteq m.starting
    OBVIOUS
  <2> QED BY <1>15, <1>16, <2>1, OneKeeps
<1> QED BY <1>4, <1>6, <1>7, <1>8, <1>17

(* #run with the lane the store has granted.                               *)
LEMMA RunClaimedKeeps ==
  ASSUME NEW w \in Worker, NEW r, NEW m, Good(w, m, r), NEW j \in Job,
         m.loading = "no", m.chain[j] = <<>>, m.ent[j].state = "queued",
         m.ent[j].durability = "stored", j \notin m.queue, j \notin m.starting,
         r[j].state = "running", r[j].attempt = m.ent[j].attempt + 1
  PROVE  /\ Good(w, RunClaimed(m, j), r)
         /\ \A k \in Job : k # j => (Granted(RunClaimed(m, j), k) => Granted(m, k))
<1> DEFINE n == RunClaimed(m, j)
           e == Running(m.ent[j])
<1>1. m \in Memory /\ m.ent[j] \in Entry
  BY DEF Good, Memory
<1>2. n \in Memory
  BY <1>1, RunClaimedType
<1>3. /\ e.state = "running" /\ e.attempt = m.ent[j].attempt + 1 /\ e.durability = "stored"
  BY <1>1, RunningFields
<1>4. /\ AgreeAround(m, n) /\ n.chain = m.chain /\ n.queue = m.queue
      /\ n.starting = m.starting /\ n.active = m.active \cup {j}
      /\ n.deciding = m.deciding
      /\ \A k \in Job : n.ent[k] = IF k = j THEN e ELSE m.ent[k]
  <2>1. n = [m EXCEPT !.ent = [m.ent EXCEPT ![j] = e], !.active = m.active \cup {j},
                      !.busy = m.busy \cup LanesOf({j})]
    BY <1>1 DEF RunClaimed, Memory
  <2> HIDE DEF n, e
  <2> QED BY <1>1, <2>1 DEF AgreeAround, Memory
<1> HIDE DEF n, e
<1>5. JobInv(w, m, r, j)
  BY DEF Good, WorkerInv
<1>6. j \notin m.deciding /\ ~Ended(m, j) /\ Mine(r, w, j)
  BY <1>5 DEF JobInv, Placed, Ended, Terminal, Backed, Held
<1>7. Placed(n, j)
  BY <1>3, <1>4, <1>6 DEF Placed
<1>8. Chained(n, j) /\ Attempted(n, j)
  <2>1. n.chain[j] = <<>>
    BY <1>4
  <2> QED BY <1>3, <1>4, <2>1 DEF Chained, Attempted, ChainShape
<1>9. Backed(w, n, r, j)
  BY <1>3, <1>4, <1>6 DEF Backed, SaidYes
<1>10. Pending(w, n, r, j)
  <2>1. Known(n, j) /\ j \in Held(n)
    BY <1>3, <1>4 DEF Known, Held
  <2> QED BY <1>4, <1>5, <1>6, <2>1 DEF JobInv, Pending, AgreeAround
<1>11. SameAnswers(m, n) /\ \A k \in Job : k # j => SameAt(m, n, k)
  BY <1>4 DEF SameAt, SameAnswers, AgreeAround
<1>12. \A k \in Job : k # j => JobInv(w, n, r, k) /\ (Granted(n, k) => Granted(m, k))
  BY <1>1, <1>2, <1>11, SameJob DEF Good, WorkerInv
<1>13. JobInv(w, n, r, j)
  BY <1>7, <1>8, <1>9, <1>10 DEF JobInv
<1>14. n.up /\ n.loading = "no"
  BY <1>4 DEF AgreeAround, Good
<1>15. \A k \in Job : JobInv(w, n, r, k)
  BY <1>12, <1>13
<1>16. Good(w, n, r)
  BY <1>2, <1>14, <1>15 DEF Good, WorkerInv
<1> QED BY <1>12, <1>16 DEF n

-----------------------------------------------------------------------------
(* Beats, and the rows they bring.                                         *)

(* A beat is in a new phase, and what it holds is right.                   *)
LEMMA BeatKeeps ==
  ASSUME NEW w \in Worker, NEW r, NEW m, Good(w, m, r), NEW b \in Beats, NEW x \in Beat,
         \A j \in Job :
           /\ (x.phase = "renewing" /\ j \in x.ids) => j \in Held(m) \/ Ended(m, j)
           /\ (x.phase = "renewed" /\ j \in x.ids) => Ended(m, j)
           /\ (j \in x.got.jobs /\ ~Known(m, j)) => Mine(r, w, j)
  PROVE  LET n == [m EXCEPT !.beats = [m.beats EXCEPT ![b] = x]]
         IN Good(w, n, r) /\ NoNewLanes(m, n)
<1> DEFINE f == [m.beats EXCEPT ![b] = x]
           n == [m EXCEPT !.beats = f]
<1>1. m \in Memory
  BY DEF Good
<1>2. n \in Memory
  BY <1>1, BeatField
<1>3. \A a \in Beats : f[a] = IF a = b THEN x ELSE m.beats[a]
  BY <1>1 DEF Memory
<1> HIDE DEF f
<1>4. /\ n.up = m.up /\ n.paused = m.paused /\ n.loading = m.loading
      /\ n.loaded = m.loaded /\ n.beats = f /\ n.ent = m.ent /\ n.chain = m.chain
      /\ n.queue = m.queue /\ n.starting = m.starting /\ n.active = m.active
      /\ n.deciding = m.deciding
  BY <1>1 DEF Memory
<1> HIDE DEF n
<1>5. ASSUME NEW j \in Job PROVE JobInv(w, n, r, j) /\ (Granted(n, j) => Granted(m, j))
  <2>1. JobInv(w, m, r, j)
    BY DEF Good, WorkerInv
  <2>2. Placed(n, j)
    BY <1>4, <2>1 DEF JobInv, Placed, Ended
  <2>3. Chained(n, j) /\ Attempted(n, j)
    BY <1>4, <2>1 DEF JobInv, Chained, Attempted, Ended
  <2>4. Backed(w, n, r, j) /\ (Granted(n, j) => Granted(m, j))
    BY <1>4, <2>1 DEF JobInv, Backed, Granted, Ended, Held
  <2>5. Pending(w, n, r, j)
    <3>1. /\ Ended(n, j) <=> Ended(m, j)
          /\ Known(n, j) <=> Known(m, j)
          /\ j \in Held(n) <=> j \in Held(m)
      BY <1>4 DEF Ended, Known, Held
    <3> QED BY <1>3, <1>4, <2>1, <3>1 DEF JobInv, Pending
  <2> QED BY <2>2, <2>3, <2>4, <2>5 DEF JobInv
<1>6. n.up /\ (n.loading # "no" => n.paused /\ n.active = {} /\ n.starting = {})
  BY <1>4 DEF Good, WorkerInv
<1>7. Good(w, n, r) /\ NoNewLanes(m, n)
  BY <1>2, <1>5, <1>6 DEF Good, WorkerInv, NoNewLanes
<1> QED BY <1>7 DEF n, f

LEMMA EndBeatKeeps ==
  ASSUME Mode = "leased", NEW w \in Worker, NEW r, NEW m, Good(w, m, r), NEW b \in Beats
  PROVE  Good(w, EndBeat(m, b), r) /\ NoNewLanes(m, EndBeat(m, b))
<1> DEFINE n == [m EXCEPT !.beats = [m.beats EXCEPT ![b] = NoBeat]]
           armed == ScheduleHeartbeat(n)
<1>1. m \in Memory
  BY DEF Good
<1>2. /\ NoBeat \in Beat /\ NoBeat.phase = "none" /\ NoBeat.got.jobs = {}
  BY EmptyTypes DEF NoBeat, NoClaims
<1>3. EndBeat(m, b) = Pump(armed)
  BY <1>1 DEF EndBeat, Memory
<1>4. Good(w, n, r) /\ NoNewLanes(m, n)
  BY <1>2, BeatKeeps
<1> HIDE DEF n
<1>5. Good(w, armed, r) /\ NoNewLanes(n, armed)
  BY <1>4, ScheduleHeartbeatKeeps
<1> HIDE DEF armed
<1>6. Good(w, Pump(armed), r) /\ NoNewLanes(armed, Pump(armed))
  BY <1>5, PumpKeeps
<1> QED BY <1>3, <1>4, <1>5, <1>6 DEF NoNewLanes

LEMMA AskToAdoptKeeps ==
  ASSUME Mode = "leased", NEW w \in Worker, NEW r, NEW m, Good(w, m, r), NEW b \in Beats
  PROVE  Good(w, AskToAdopt(m, b), r) /\ NoNewLanes(m, AskToAdopt(m, b))
<1> DEFINE x == [NoBeat EXCEPT !.phase = "adopting"]
           n == [m EXCEPT !.beats = [m.beats EXCEPT ![b] = x]]
<1>1. m \in Memory
  BY DEF Good
<1>2. x \in Beat /\ x.phase = "adopting" /\ x.got.jobs = {}
  BY DEF NoBeat, NoClaims, Beat, Claims
<1>3. AskToAdopt(m, b) = IF m.paused \/ m.closed THEN EndBeat(m, b) ELSE n
  BY <1>1 DEF AskToAdopt, Memory
<1> HIDE DEF x
<1>4. Good(w, n, r) /\ NoNewLanes(m, n)
  BY <1>2, BeatKeeps
<1> HIDE DEF n
<1> QED BY <1>3, <1>4, EndBeatKeeps

(* The rows a load or an adoption has claimed are restored: #byId had      *)
(* forgotten, or never known, what is admitted.                            *)
LEMMA RestoreAllKeeps ==
  ASSUME Mode = "leased", NEW w \in Worker, NEW r, NEW m, Good(w, m, r),
         NEW claims \in Claims, NEW age,
         age \subseteq NewClaims(m, claims) \X NewClaims(m, claims),
         \A j \in Job : j \in claims.jobs /\ ~Known(m, j) => Mine(r, w, j)
  PROVE  /\ Good(w, RestoreAll(m, claims, age), r)
         /\ NoNewLanes(m, RestoreAll(m, claims, age))
<1> DEFINE S == NewClaims(m, claims)
           fresh(j) == [state |-> "queued", attempt |-> claims.attempt[j],
                        waiting |-> claims.backoff[j], backoff |-> claims.backoff[j],
                        durability |-> "stored", cancelRequested |-> FALSE]
           ent == [j \in Job |-> IF j \in S THEN fresh(j) ELSE m.ent[j]]
           later == { j \in S : \E i \in S : <<i, j>> \in age }
           admitted == [m EXCEPT !.ent = ent, !.queue = @ \cup S,
                                 !.ahead = @ \cup (m.queue \X S) \cup age]
           order == { p \in ByPriority(admitted) : p[1] \notin later /\ p[2] \notin later }
                      \cup { p \in admitted.ahead : p[2] \in later }
           T == Taken(admitted, order)
           started == Start(admitted, T)
           beating == ScheduleHeartbeat(started)
<1>1. m \in Memory
  BY DEF Good
<1>2. S \in SUBSET Job /\ \A j \in S : m.ent[j].state = "absent" /\ Mine(r, w, j)
  BY DEF NewClaims, Claims, Known
<1>3. ent \in [Job -> Entry]
  <2>1. ASSUME NEW j \in Job PROVE fresh(j) \in Entry /\ m.ent[j] \in Entry
    BY <1>1 DEF Entry, Claims, Memory
  <2> QED BY <2>1
<1>4. \A j \in Job : IF j \in S THEN ent[j].state = "queued" /\ ent[j].durability = "stored"
                     ELSE ent[j] = m.ent[j]
  OBVIOUS
<1>5. RestoreAll(m, claims, age) = IF S = {} THEN m ELSE CheckIdle(beating)
  BY DEF RestoreAll
<1>6. admitted \in Memory
  <2> HIDE DEF ent, S
  <2>1. age \subseteq S \X S
    BY DEF S
  <2>2. m.queue \in SUBSET Job /\ m.ahead \in SUBSET (Job \X Job)
    BY <1>1 DEF Memory
  <2> DEFINE q == m.queue \cup S
             a == m.ahead \cup (m.queue \X S) \cup age
  <2>3. q \in SUBSET Job /\ a \in SUBSET (Job \X Job)
    BY <1>2, <2>1, <2>2
  <2>4. admitted = [m EXCEPT !.ent = ent, !.queue = q, !.ahead = a]
    OBVIOUS
  <2> HIDE DEF q, a, admitted
  <2> QED BY <1>1, <1>3, <2>3, <2>4, QueueFields
<1>7. /\ AgreeAround(m, admitted) /\ admitted.ent = ent /\ admitted.chain = m.chain
      /\ admitted.starting = m.starting /\ admitted.active = m.active
      /\ admitted.deciding = m.deciding /\ admitted.queue = m.queue \cup S
  <2> HIDE DEF ent, S
  <2> QED BY <1>1 DEF AgreeAround, Memory
<1>8. T \in SUBSET Eligible(admitted) /\ (admitted.paused => T = {})
  BY DEF Taken
<1> HIDE DEF ent, S, admitted, T
<1>9. ASSUME NEW k \in S
      PROVE  JobInv(w, admitted, r, k) /\ ~Granted(admitted, k)
  <2> DEFINE n == admitted
  <2>1. k \in Job /\ JobInv(w, m, r, k)
    BY <1>2 DEF Good, WorkerInv
  <2>2. /\ n.chain[k] = <<>> /\ k \notin n.starting /\ k \notin n.active
        /\ k \notin n.deciding
    BY <1>2, <1>7, <2>1 DEF JobInv, Chained, Placed
  <2>3. n.ent[k].state = "queued" /\ n.ent[k].durability = "stored"
    BY <1>4, <1>7, <2>1
  <2>4. Placed(n, k)
    BY <2>2, <2>3 DEF Placed
  <2>5. Chained(n, k) /\ Attempted(n, k)
    BY <2>2, <2>3 DEF Chained, Attempted, ChainShape
  <2>6. Backed(w, n, r, k)
    BY <1>2, <2>2 DEF Backed, SaidYes
  <2>7. Pending(w, n, r, k)
    <3>1. Known(n, k) /\ k \in Held(n) /\ ~Ended(m, k)
      BY <1>2, <2>1, <2>3 DEF Known, Held, Ended, Terminal
    <3> QED BY <1>7, <2>1, <3>1 DEF JobInv, Pending, AgreeAround
  <2>8. ~Granted(n, k)
    BY <2>2 DEF Granted
  <2> QED BY <2>4, <2>5, <2>6, <2>7, <2>8 DEF JobInv
<1>10. Good(w, admitted, r) /\ NoNewLanes(m, admitted)
  <2>1. \A k \in Job \ S : SameAt(m, admitted, k)
    BY <1>4, <1>7 DEF SameAt
  <2>2. admitted.active \subseteq m.active /\ admitted.starting \subseteq m.starting
    BY <1>7
  <2>3. AgreeAround(m, admitted)
    BY <1>7
  <2>4. \A k \in S : JobInv(w, admitted, r, k) /\ (Granted(admitted, k) => Granted(m, k))
    BY <1>9
  <2> QED BY <1>2, <1>6, <2>1, <2>2, <2>3, <2>4, MoveKeeps
<1>11. Good(w, started, r) /\ NoNewLanes(admitted, started)
  BY <1>8, <1>10, StartKeeps
<1> HIDE DEF started
<1>12. Good(w, beating, r) /\ NoNewLanes(started, beating)
  BY <1>11, ScheduleHeartbeatKeeps
<1> HIDE DEF beating
<1>13. Good(w, CheckIdle(beating), r) /\ NoNewLanes(beating, CheckIdle(beating))
  BY <1>12, CheckIdleKeeps
<1>14. NoNewLanes(m, CheckIdle(beating)) /\ NoNewLanes(m, m)
  BY <1>10, <1>11, <1>12, <1>13 DEF NoNewLanes
<1> QED BY <1>5, <1>13, <1>14

(* A change that concerns no job: flags, timers, a recovery that is over.  *)
LEMMA FlagsKeep ==
  ASSUME NEW w \in Worker, NEW r, NEW m, NEW n \in Memory, Good(w, m, r),
         n.up, n.chain = m.chain, n.queue = m.queue, n.starting = m.starting,
         n.active = m.active, n.deciding = m.deciding, n.beats = m.beats,
         \A j \in Job : /\ n.ent[j].state = m.ent[j].state
                        /\ n.ent[j].attempt = m.ent[j].attempt
                        /\ n.ent[j].durability = m.ent[j].durability,
         n.loaded = m.loaded \/ n.loaded.jobs = {},
         n.loading # "no" => m.loading # "no" /\ n.paused
  PROVE  Good(w, n, r) /\ NoNewLanes(m, n)
<1>1. m \in Memory
  BY DEF Good
<1>2. ASSUME NEW j \in Job PROVE JobInv(w, n, r, j) /\ (Granted(n, j) => Granted(m, j))
  <2>1. JobInv(w, m, r, j)
    BY DEF Good, WorkerInv
  <2>2. /\ Ended(n, j) <=> Ended(m, j)
        /\ Known(n, j) <=> Known(m, j)
        /\ j \in Held(n) <=> j \in Held(m)
    BY DEF Ended, Known, Held
  <2>3. Placed(n, j)
    BY <2>1, <2>2 DEF JobInv, Placed
  <2>4. Chained(n, j) /\ Attempted(n, j)
    <3>1. ChainShape(n.chain[j], n.ent[j], j \in n.starting)
      BY <2>1 DEF JobInv, Chained, ChainShape
    <3> QED BY <2>1, <2>2, <3>1 DEF JobInv, Chained, Attempted
  <2>5. Backed(w, n, r, j) /\ (Granted(n, j) => Granted(m, j))
    BY <2>1, <2>2 DEF JobInv, Backed, Granted
  <2>6. Pending(w, n, r, j)
    BY <2>1, <2>2 DEF JobInv, Pending
  <2> QED BY <2>3, <2>4, <2>5, <2>6 DEF JobInv
<1>3. n.loading # "no" => n.paused /\ n.active = {} /\ n.starting = {}
  BY DEF Good, WorkerInv
<1> QED BY <1>2, <1>3 DEF Good, WorkerInv, NoNewLanes

-----------------------------------------------------------------------------
(* The table changes.                                                      *)

LEMMA RowKeeps ==
  ASSUME NEW w \in Worker, NEW r, NEW r2, NEW m \in Memory, NEW k \in Job,
         JobInv(w, m, r, k),
         Mine(r, w, k) => Mine(r2, w, k),
         (k \in m.active \cup m.starting /\ Mine(r, w, k))
           => r2[k].state = r[k].state /\ r2[k].attempt = r[k].attempt
  PROVE  JobInv(w, m, r2, k)
<1>1. k \in m.active => k \in Held(m)
  BY DEF JobInv, Placed, Held
<1>2. (SaidYes(m.chain[k], "acquire") /\ ~Ended(m, k)) => k \in m.starting /\ k \in Held(m)
  <2> DEFINE c == m.chain[k]
  <2>1. c \in Seq(Write) /\ ChainShape(c, m.ent[k], k \in m.starting)
    BY DEF Memory, JobInv, Chained
  <2>2. SaidYes(c, "acquire") => k \in m.starting
    <3> HIDE DEF c
    <3>1. c # <<>> => 1 \in 1..Len(c)
      BY <2>1, EmptySeq
    <3> QED BY <2>1, <3>1 DEF SaidYes, ChainShape
  <2>3. (k \in m.starting /\ ~Ended(m, k)) => k \in Held(m)
    BY DEF JobInv, Placed, Held
  <2> QED BY <2>2, <2>3
<1>3. Backed(w, m, r2, k)
  BY <1>1, <1>2 DEF JobInv, Backed
<1>4. Pending(w, m, r2, k)
  BY DEF JobInv, Pending
<1> QED BY <1>3, <1>4 DEF JobInv

(* A process that is not there knows nothing.                              *)
LEMMA DownKeeps ==
  ASSUME NEW w \in Worker, NEW r
  PROVE  WorkerInv(w, Down, r) /\ \A k \in Job : ~Granted(Down, k)
<1>1. /\ Down.up = FALSE /\ Down.ent = [j \in Job |-> Unknown] /\ Down.queue = {}
      /\ Down.starting = {} /\ Down.active = {} /\ Down.deciding = {}
      /\ Down.chain = [j \in Job |-> <<>>] /\ Down.loading = "no"
      /\ Down.loaded = NoClaims /\ Down.beats = [b \in Beats |-> NoBeat]
  BY DEF Down, Fresh
<1>2. ASSUME NEW k \in Job PROVE JobInv(w, Down, r, k) /\ ~Granted(Down, k)
  <2>1. Down.ent[k].state = "absent" /\ Down.chain[k] = <<>>
    BY <1>1 DEF Unknown
  <2>2. Placed(Down, k) /\ ~Granted(Down, k)
    BY <1>1, <2>1 DEF Placed, Granted
  <2>3. Chained(Down, k) /\ Attempted(Down, k)
    BY <1>1, <2>1 DEF Chained, Attempted, ChainShape
  <2>4. Backed(w, Down, r, k)
    BY <1>1, <2>1 DEF Backed, SaidYes, Held
  <2>5. Pending(w, Down, r, k)
    BY <1>1 DEF Pending, NoBeat, NoClaims
  <2> QED BY <2>2, <2>3, <2>4, <2>5 DEF JobInv
<1> QED BY <1>1, <1>2 DEF WorkerInv

(* Rows that are not v's to claim change: v sees nothing of it.            *)
LEMMA OthersKeep ==
  ASSUME NEW v \in Worker, NEW r, NEW r2, NEW m \in Memory, WorkerInv(v, m, r),
         \A k \in Job : Mine(r, v, k) => r2[k] = r[k]
  PROVE  WorkerInv(v, m, r2)
<1>1. ASSUME NEW k \in Job PROVE JobInv(v, m, r2, k)
  <2>1. JobInv(v, m, r, k)
    BY DEF WorkerInv
  <2>2. Mine(r, v, k) => Mine(r2, v, k)
    BY DEF Mine
  <2> QED BY <2>1, <2>2, RowKeeps
<1> QED BY <1>1 DEF WorkerInv

(* What a step of w has to show: the others' rows stay, w's memory fits    *)
(* the table, and a lane w is given is one nobody else has.                *)
LEMMA StepKeeps ==
  ASSUME IInv, NEW w \in Worker, NEW n, Becomes(w, n), lapsed' = lapsed,
         \A v \in Worker \ lapsed : v # w =>
           \A k \in Job : Mine(row, v, k) => row'[k] = row[k],
         w \notin lapsed => WorkerInv(w, n, row'),
         w \notin lapsed =>
           \A k \in Job : Granted(n, k) =>
             \/ Granted(mem[w], k)
             \/ \A v \in Worker \ lapsed : v # w =>
                  \A i \in Job : Granted(mem[v], i) => LaneOf[i] # LaneOf[k]
  PROVE  ClaimsHold'
<1>1. mem \in [Worker -> Memory] /\ ClaimsHold
  BY DEF IInv, TypeOK
<1>2. mem' = [mem EXCEPT ![w] = n]
  BY DEF Becomes
<1>3. mem'[w] = n /\ \A v \in Worker : v # w => mem'[v] = mem[v]
  BY <1>1, <1>2
<1>4. ASSUME NEW v \in Worker \ lapsed PROVE WorkerInv(v, mem'[v], row')
  <2>1. CASE v = w
    BY <1>3, <2>1
  <2>2. CASE v # w
    <3>1. WorkerInv(v, mem[v], row) /\ mem[v] \in Memory
      BY <1>1 DEF ClaimsHold
    <3>2. \A k \in Job : Mine(row, v, k) => row'[k] = row[k]
      BY <2>2
    <3>3. WorkerInv(v, mem[v], row')
      BY <3>1, <3>2, OthersKeep
    <3> QED BY <1>3, <2>2, <3>3
  <2> QED BY <2>1, <2>2
<1>5. ASSUME NEW u \in Worker \ lapsed, NEW v \in Worker \ lapsed, NEW j \in Job, NEW k \in Job,
             u # v, Granted(mem'[u], j), Granted(mem'[v], k)
      PROVE  LaneOf[j] # LaneOf[k]
  <2>1. \A x, y \in Worker \ lapsed : \A i, l \in Job :
          (x # y /\ Granted(mem[x], i) /\ Granted(mem[y], l)) => LaneOf[i] # LaneOf[l]
    BY <1>1 DEF ClaimsHold, LaneInv
  <2>2. CASE u = w
    BY <1>3, <1>5, <2>1, <2>2
  <2>3. CASE v = w
    BY <1>3, <1>5, <2>1, <2>3
  <2>4. CASE u # w /\ v # w
    BY <1>3, <1>5, <2>1, <2>4
  <2> QED BY <2>2, <2>3, <2>4
<1> QED BY <1>4, <1>5 DEF ClaimsHold, LaneInv

(* A step of w that leaves the table alone.                                *)
LEMMA MemoryKeeps ==
  ASSUME IInv, NEW w \in Worker, NEW n, Becomes(w, n), UNCHANGED <<row, lapsed>>,
         mem[w].up,
         Good(w, mem[w], row) => Good(w, n, row) /\ NoNewLanes(mem[w], n)
  PROVE  ClaimsHold'
<1>1. w \notin lapsed => Good(w, mem[w], row)
  BY DEF IInv, TypeOK, ClaimsHold, Good
<1>2. w \notin lapsed => WorkerInv(w, n, row')
  BY <1>1 DEF Good
<1>3. w \notin lapsed => \A k \in Job : Granted(n, k) => Granted(mem[w], k)
  BY <1>1 DEF NoNewLanes
<1> QED BY <1>2, <1>3, StepKeeps

=============================================================================
