----------------------------- MODULE AuditRows ------------------------------
(***************************************************************************)
(* As long as no write has failed and every claim has been kept, the rows  *)
(* of the audits table are true to the queues beneath them: RowsTrue of    *)
(* AuditInv is an invariant of AuditScheduler, for any number of workers   *)
(* and audits.  First what the queues' own invariants say of one process   *)
(* and one job; then the steps that are not about a job, and those that    *)
(* are; then one lemma per action, and the theorems.                       *)
(***************************************************************************)
EXTENDS AuditSafety

-----------------------------------------------------------------------------
(* What the queue beneath answers for while nothing has gone wrong.        *)

Sane == IInv /\ AllTidy /\ Founded /\ Possessed /\ AuditTypeOK /\ Attended

(* Of the memory m of one process and its job k.                           *)
EntrySure(m, k) ==
  /\ m.ent[k].state \in {"absent", "queued", "running", "complete", "failed", "cancelled"}
  /\ m.ent[k].cancelRequested \in BOOLEAN
  /\ m.ent[k].state = "running" => m.ent[k].durability = "stored"
  /\ m.ent[k].state = "queued" => m.ent[k].durability \in {"pending", "stored"}
  /\ m.ent[k].state = "absent" => /\ m.ent[k].durability = "none"
                                  /\ ~m.ent[k].cancelRequested /\ m.chain[k] = <<>>
  /\ m.ent[k].cancelRequested => m.ent[k].state \notin {"queued", "complete"}
  /\ (k \in m.active \/ k \in m.deciding) <=> m.ent[k].state = "running"
  /\ ~(k \in m.active /\ k \in m.deciding)
  /\ k \in m.starting => m.ent[k].state = "queued" \/ Ended(m, k)

ProcessSure(m) ==
  /\ m.up \in BOOLEAN /\ m.closed \in BOOLEAN /\ m.paused \in BOOLEAN
  /\ ~m.up => m.loading = "no" /\ ~m.closed /\ \A k \in Job : ~Known(m, k) /\ ~Coming(m, k)
  /\ m.loading # "no" => m.paused /\ m.active = {} /\ m.starting = {}

(* Of its row.                                                             *)
RowSure(w, k) ==
  LET m == mem[w]
  IN /\ Known(m, k) => k \in submitted
     /\ InTable(k) => k \in submitted
     /\ (Known(m, k) /\ InTable(k)) => row[k].owner = w /\ Mine(row, w, k)
     /\ (m.ent[k].state \in {"queued", "running"} /\ m.ent[k].durability = "stored")
          => InTable(k)
     /\ (m.up /\ m.loading # "asked" /\ InTable(k) /\ row[k].owner = w)
          => Known(m, k) \/ Coming(m, k)
     /\ (Coming(m, k) /\ ~Known(m, k)) => InTable(k) /\ row[k].owner = w
     /\ SaidYes(m.chain[k], "create") => InTable(k)
     /\ (m.ent[k].durability = "pending" /\ ~Ended(m, k))
          => m.chain[k] # <<>> /\ m.chain[k][1].op = "create"
     /\ Creating(m, k) => ~InTable(k)
     /\ (m.chain[k] # <<>> /\ m.chain[k][1].op = "remove") => Ended(m, k)

(* Of its scheduler.                                                       *)
DutySure(d, m, k) ==
  /\ d.submit[k] \in {"no", "inserted", "storing", "refusing"}
  /\ d.stage[k] \in Stage
  /\ d.reason[k] \in {"none", "cancel", "lost"}
  /\ d.known \in BOOLEAN
  /\ d.stage[k] \in Handling <=> k \in m.active
  /\ d.stage[k] \in Deciding <=> k \in m.deciding
  /\ d.reason[k] # "none" => k \in m.active
  /\ d.reason[k] = "cancel" => m.ent[k].cancelRequested

Sure(w, k) ==
  EntrySure(mem[w], k) /\ ProcessSure(mem[w]) /\ RowSure(w, k) /\ DutySure(duty[w], mem[w], k)

AllSure == \A w \in Worker, k \in Job : Sure(w, k)

LEMMA SaneIsSure == Sane => AllSure
<1> SUFFICES ASSUME Sane, NEW w \in Worker, NEW k \in Job
             PROVE  Sure(w, k)
  BY DEF AllSure
<1> DEFINE m == mem[w]
           d == duty[w]
<1>1. /\ Calm(m) /\ WorkerInv(w, m, row) /\ m \in Memory /\ m.ent[k] \in Entry
      /\ m.chain[k] \in Seq(Write)
  BY CalmMemory DEF Sane, Calm, Memory
<1>2. Sound(m, k) /\ Housed(m, k)
  BY DEF Sane, AllTidy, Tidy
<1>3. JobInv(w, m, row, k)
  BY <1>1 DEF WorkerInv
<1>4. Possesses(w, m, row, submitted, k)
  BY DEF Sane, Possessed
<1>5. d \in Duty /\ AttendedTo(d, m)
  BY DEF Sane, AuditTypeOK, Attended
<1>6. /\ Creating(m, k) => row[k].state = "absent"
      /\ row[k].state # "absent" => k \in submitted
  BY DEF Sane, Founded
<1>7. ~m.up => m = Down
  BY <1>1 DEF WorkerInv
<1> HIDE DEF m, d
<1>8. EntrySure(m, k)
  BY <1>1, <1>2, <1>3 DEF EntrySure, Sound, Housed, JobInv, Placed, Entry, Terminal, Ended
<1>9. ProcessSure(m)
  <2>1. m.loading # "no" => m.paused /\ m.active = {} /\ m.starting = {}
    BY <1>1 DEF WorkerInv
  <2>2. m.up \in BOOLEAN /\ m.closed \in BOOLEAN /\ m.paused \in BOOLEAN
    BY <1>1 DEF Memory
  <2>3. ASSUME ~m.up
        PROVE  m.loading = "no" /\ ~m.closed /\ \A i \in Job : ~Known(m, i) /\ ~Coming(m, i)
    <3>1. m = Down
      BY <1>7, <2>3
    <3>2. m.loading = "no" /\ ~m.closed
      BY <3>1 DEF Down, Fresh
    <3>3. \A i \in Job : m.ent[i].state = "absent"
      BY <3>1 DEF Down, Fresh, Unknown
    <3>4. \A b \in Beats : m.beats[b].phase = "none"
      BY <3>1 DEF Down, Fresh, NoBeat
    <3> QED BY <3>2, <3>3, <3>4 DEF Known, Coming
  <2> QED BY <2>1, <2>2, <2>3 DEF ProcessSure
<1>10. RowSure(w, k)
  <2> DEFINE c == m.chain[k]
  <2>1. /\ Known(m, k) => k \in submitted
        /\ InTable(k) => k \in submitted
        /\ (m.ent[k].durability = "pending" /\ ~Ended(m, k))
             => m.chain[k] # <<>> /\ m.chain[k][1].op = "create"
        /\ (m.up /\ m.loading # "asked" /\ InTable(k) /\ row[k].owner = w)
             => Known(m, k) \/ Coming(m, k)
        /\ Creating(m, k) => ~InTable(k)
    BY <1>4, <1>6 DEF Possesses, InTable
  <2>2. (Known(m, k) /\ InTable(k)) => Mine(row, w, k) /\ row[k].owner = w
    BY <1>4 DEF Possesses, InTable, Mine
  <2>3. (m.ent[k].state \in {"queued", "running"} /\ m.ent[k].durability = "stored")
          => InTable(k)
    BY <1>3 DEF JobInv, Backed, Held, Mine, InTable
  <2>4. (Coming(m, k) /\ ~Known(m, k)) => InTable(k) /\ row[k].owner = w
    <3>1. (Coming(m, k) /\ ~Known(m, k)) => Mine(row, w, k)
      BY <1>3 DEF JobInv, Pending, Coming
    <3> QED BY <3>1 DEF Mine, InTable
  <2>5. SaidYes(m.chain[k], "create") => InTable(k)
    BY <1>3 DEF JobInv, Backed, Mine, InTable
  <2>6. (c # <<>> /\ c[1].op = "remove") => Ended(m, k)
    <3> SUFFICES ASSUME c # <<>>, c[1].op = "remove"
                 PROVE  Ended(m, k)
      OBVIOUS
    <3>1. Len(c) \in Nat /\ Len(c) # 0
      BY <1>1, EmptySeq
    <3>2. 1 \in 1..Len(c)
      BY <3>1
    <3> QED BY <1>3, <3>2 DEF JobInv, Chained, ChainShape, Ended
  <2> QED BY <2>1, <2>2, <2>3, <2>4, <2>5, <2>6 DEF RowSure, m
<1>11. DutySure(d, m, k)
  BY <1>5 DEF DutySure, AttendedTo, Duty, Submitting
<1> QED BY <1>8, <1>9, <1>10, <1>11 DEF Sure, m, d

LEMMA SaneIsSureThen == Sane' => AllSure'
BY SaneIsSure, PTL

-----------------------------------------------------------------------------
(* A step that is not about job k.                                         *)

(* What the scheduler of one process is in the middle of about k.          *)
SameDuty(c, d, k) ==
  /\ d.submit[k] = c.submit[k]
  /\ k \in d.closing <=> k \in c.closing
  /\ k \in d.resets <=> k \in c.resets
  /\ k \in d.reopen <=> k \in c.reopen

SameSweep(c, d, k) ==
  /\ d.known = c.known /\ d.sweep = c.sweep
  /\ k \in d.cutoff <=> k \in c.cutoff
  /\ k \in d.live <=> k \in c.live
  /\ k \in d.orphans <=> k \in c.orphans

(* Process v goes on, and k with it, from memory m and duty c to n and d.  *)
Still(m, n, c, d, k) ==
  /\ n.up = m.up /\ (m.closed => n.closed)
  /\ Steps(m, n, k) /\ Heads(m, n, k)
  /\ SameDuty(c, d, k)
  /\ \/ d.stage[k] = c.stage[k]
     \/ c.stage[k] = "idle" /\ d.stage[k] = "starting"
  /\ d.reason[k] # "lost"
  /\ k \in c.reopen => n.paused /\ Rests(m, n, k)

StillAt(v, k) == Still(mem[v], mem'[v], duty[v], duty'[v], k)

(* The row of job k stays, or goes to a process that does not know it yet. *)
RowStill(k) ==
  /\ InTable(k) <=> row'[k].state # "absent"
  /\ k \in submitted <=> k \in submitted'
  /\ \/ ~InTable(k) \/ row'[k].owner = row[k].owner
     \/ row'[k].owner \in Worker /\ \A u \in Worker : row'[k].owner = u => ~Known(mem[u], k)

LEMMA StillKnown ==
  ASSUME NEW m, NEW n, NEW c, NEW d, NEW k, Still(m, n, c, d, k)
  PROVE  /\ Known(n, k) <=> Known(m, k)
         /\ Ended(n, k) <=> Ended(m, k)
         /\ m.ent[k].state # "queued" => n.ent[k].state = m.ent[k].state
BY DEF Still, Steps, Known, Ended, Terminal

LEMMA QuietFollowed ==
  ASSUME NEW k \in Job, AllSure, AllSure', Followed(k),
         \A v \in Worker : StillAt(v, k),
         audit'[k] = audit[k], RowStill(k), raced \subseteq raced'
  PROVE  Followed(k)'
<1>1. /\ InTable(k)' <=> InTable(k)
      /\ \A v \in Worker : Known(mem'[v], k) <=> Known(mem[v], k)
  BY StillKnown DEF RowStill, InTable, StillAt
<1>2. KnownOnce(k)'
  <2>1. InTable(k)' => row'[k].owner \in Worker
    BY <1>1 DEF RowStill, Followed, KnownOnce
  <2>2. \A v, w \in Worker : Known(mem'[v], k) /\ Known(mem'[w], k) => v = w
    BY <1>1 DEF Followed, KnownOnce
  <2> QED BY <2>1, <2>2 DEF KnownOnce
<1>3. SubmittedOnce(k)'
  <2>1. \A v \in Worker : duty'[v].submit[k] = duty[v].submit[k]
    BY DEF StillAt, Still, SameDuty
  <2>2. \A v, w \in Worker :
          duty'[v].submit[k] # "no" /\ duty'[w].submit[k] # "no" => v = w
    BY <2>1 DEF Followed, SubmittedOnce
  <2>3. k \in submitted' => audit'[k].status # "none"
    BY DEF Followed, SubmittedOnce, RowStill
  <2> QED BY <2>2, <2>3 DEF SubmittedOnce
<1>4. ASSUME NEW v \in Worker
      PROVE  (Submits(v, k) /\ Owes(v, k))'
  <2>1. Submits(v, k) /\ Owes(v, k) /\ StillAt(v, k)
    BY DEF Followed
  <2>2. Submits(v, k)'
    BY <2>1 DEF Submits, StillAt, Still, SameDuty, Steps, Heads, RowStill
  <2>3. Owes(v, k)'
    <3>1. k \in duty'[v].closing => mem'[v].ent[k].state = "cancelled"
      BY <2>1 DEF Owes, StillAt, Still, SameDuty, Steps
    <3>2. k \in duty'[v].resets => Known(mem'[v], k)
      BY <1>1, <2>1 DEF Owes, StillAt, Still, SameDuty
    <3>3. k \in duty'[v].reopen => /\ mem'[v].paused /\ k \notin mem'[v].starting
                                   /\ \/ mem'[v].ent[k].state = "queued"
                                      \/ mem'[v].ent[k].state = "cancelled"
      BY <2>1 DEF Owes, StillAt, Still, SameDuty, Rests
    <3> QED BY <2>1, <3>1, <3>2, <3>3 DEF Owes, StillAt, Still
  <2> QED BY <2>2, <2>3
<1>5. ASSUME k \notin raced'
      PROVE  (\A v \in Worker : Reports(v, k)' /\ Tells(v, k)') /\ Minded(k)'
  <2>1. (\A v \in Worker : Reports(v, k) /\ Tells(v, k)) /\ Minded(k)
    BY <1>5 DEF Followed
  <2>2. ASSUME NEW v \in Worker PROVE Reports(v, k)' /\ Tells(v, k)'
    <3>1. StillAt(v, k) /\ Reports(v, k) /\ Tells(v, k)
      BY <2>1
    <3>2. Reports(v, k)'
      BY <3>1 DEF Reports, StillAt, Still, Steps, Complete, Failed
    <3>3. Tells(v, k)'
      <4>1. Ended(mem'[v], k) => mem'[v].ent[k].state = mem[v].ent[k].state /\ Ended(mem[v], k)
        BY <3>1, StillKnown DEF StillAt, Ended, Terminal
      <4> QED BY <3>1, <4>1 DEF Tells, StillAt, Still, SameDuty, Complete, Failed
    <3> QED BY <3>2, <3>3
  <2>3. Minded(k)'
    <3> SUFFICES ASSUME audit'[k].status = "running", InTable(k)'
                 PROVE  \E v \in Worker : WillRun(v, k)'
      BY DEF Minded
    <3>1. PICK v \in Worker : WillRun(v, k)
      BY <1>1, <2>1 DEF Minded
    <3>2. StillAt(v, k) /\ Sure(v, k) /\ Sure(v, k)'
      BY DEF AllSure
    <3>3. CASE k \in mem[v].active
      <4>1. mem[v].ent[k].state = "running" /\ k \notin mem[v].deciding
        BY <3>2, <3>3 DEF Sure, EntrySure
      <4>2. mem'[v].ent[k].state = "running" /\ k \notin mem'[v].deciding
        BY <3>2, <4>1 DEF StillAt, Still, Steps
      <4>3. k \in mem'[v].active
        BY <3>2, <4>2 DEF Sure, EntrySure
      <4> QED BY <4>3 DEF WillRun
    <3>4. CASE k \in duty[v].reopen \cup duty[v].resets
      BY <3>2, <3>4 DEF StillAt, Still, SameDuty, WillRun
    <3>5. CASE row[k].owner = v /\ ~Known(mem[v], k)
      <4>1. CASE row'[k].owner = row[k].owner
        BY <1>1, <3>5, <4>1 DEF WillRun
      <4>2. CASE row'[k].owner # row[k].owner
        <5> InTable(k)
          BY <1>1
        <5>1. PICK u \in Worker : row'[k].owner = u /\ ~Known(mem[u], k)
          BY <4>2 DEF RowStill
        <5> QED BY <1>1, <5>1 DEF WillRun
      <4> QED BY <4>1, <4>2
    <3> QED BY <3>1, <3>3, <3>4, <3>5 DEF WillRun
  <2> QED BY <2>2, <2>3
<1> QED BY <1>2, <1>3, <1>4, <1>5 DEF Followed

LEMMA QuietCleared ==
  ASSUME NEW k \in Job, Cleared(k),
         \A v \in Worker : StillAt(v, k) /\ SameSweep(duty[v], duty'[v], k),
         audit'[k] = audit[k], RowStill(k), raced \subseteq raced'
  PROVE  Cleared(k)'
<1>1. \A v \in Worker : duty'[v].submit[k] = duty[v].submit[k]
  BY DEF StillAt, Still, SameDuty
<1>2. Forsaken(k)' <=> Forsaken(k)
  BY <1>1 DEF Forsaken, RowStill, InTable
<1>3. ASSUME NEW v \in Worker
      PROVE  SweepOwes(v, k)'
  <2>1. SweepOwes(v, k) /\ StillAt(v, k) /\ SameSweep(duty[v], duty'[v], k)
    BY DEF Cleared
  <2> QED BY <2>1 DEF SweepOwes, SameSweep, StillAt, Still, SameDuty
<1>4. ASSUME k \notin raced'
      PROVE  (\A v \in Worker : SweepsForsaken(v, k)') /\ Closable(k)'
  <2>1. (\A v \in Worker : SweepsForsaken(v, k)) /\ Closable(k)
    BY <1>4 DEF Cleared
  <2>2. ASSUME NEW v \in Worker PROVE SweepsForsaken(v, k)'
    <3>1. SweepsForsaken(v, k) /\ SameSweep(duty[v], duty'[v], k)
      BY <2>1
    <3> QED BY <1>2, <3>1 DEF SweepsForsaken, SameSweep
  <2>3. ASSUME NEW v \in Worker, WillClose(v, k) PROVE WillClose(v, k)'
    <3>1. StillAt(v, k) /\ SameSweep(duty[v], duty'[v], k)
      OBVIOUS
    <3> QED BY <2>3, <3>1 DEF WillClose, SameSweep, StillAt, Still, SameDuty
  <2>4. Closable(k)'
    BY <1>2, <2>1, <2>3 DEF Closable
  <2> QED BY <2>2, <2>4
<1> QED BY <1>3, <1>4 DEF Cleared

(* The premises of every step: nothing has gone wrong, before or after.    *)
RowsHold ==
  /\ \A w \in Worker : Swept(w)
  /\ \A k \in Job : Followed(k) /\ Cleared(k)

Truly ==
  /\ Mode = "leased" /\ Sane /\ Sane' /\ AllSure /\ AllSure'
  /\ used'["error"] = 0 /\ used'["lapse"] = 0
  /\ RowsHold

LEMMA StaysStill ==
  ASSUME NEW k \in Job, Followed(k), NEW v \in Worker, mem'[v] = mem[v], duty'[v] = duty[v]
  PROVE  StillAt(v, k) /\ SameSweep(duty[v], duty'[v], k)
<1>1. Owes(v, k)
  BY DEF Followed
<1>2. \A m : Steps(m, m, k) /\ Heads(m, m, k) /\ Rests(m, m, k)
  BY DEF Steps, Heads, Rests
<1>3. Still(mem[v], mem[v], duty[v], duty[v], k)
  BY <1>1, <1>2 DEF Still, SameDuty, Owes
<1> QED BY <1>3 DEF StillAt, SameSweep

(* Above the queue only the duty of w moves, and not at k.                 *)
LEMMA MovesStill ==
  ASSUME Truly, NEW w \in Worker, NEW d, Moves(w, d), NEW k \in Job,
         SameDuty(duty[w], d, k), d.stage[k] = duty[w].stage[k], d.reason[k] = duty[w].reason[k]
  PROVE  RowStill(k) /\ \A v \in Worker : StillAt(v, k)
<1>1. /\ duty'[w] = d /\ mem' = mem /\ row' = row /\ submitted' = submitted
      /\ \A v \in Worker \ {w} : duty'[v] = duty[v]
  BY DEF Truly, Sane, AuditTypeOK, Moves
<1>2. Followed(k)
  BY DEF Truly, RowsHold
<1>3. RowStill(k)
  BY <1>1 DEF RowStill, InTable
<1>4. StillAt(w, k)
  <2>1. Owes(w, k)
    BY <1>2 DEF Followed
  <2>2. \A m : Steps(m, m, k) /\ Heads(m, m, k) /\ Rests(m, m, k)
    BY DEF Steps, Heads, Rests
  <2>3. Still(mem[w], mem[w], duty[w], d, k)
    BY <2>1, <2>2 DEF Still, Owes
  <2> QED BY <1>1, <2>3 DEF StillAt
<1> QED BY <1>1, <1>2, <1>3, <1>4, StaysStill

(* What the queue has just done was not about k.                           *)
LEMMA CarriesStill ==
  ASSUME Truly, NEW w \in Worker, NEW d \in Duty, Carries(w, d), NEW k \in Job,
         SameDuty(duty[w], d, k), d.stage[k] = duty[w].stage[k], d.reason[k] = duty[w].reason[k],
         \A v \in Worker \ {w} : mem'[v] = mem[v],
         mem'[w].up = mem[w].up, mem[w].closed => mem'[w].closed,
         Heads(mem[w], mem'[w], k), Steps(mem[w], mem'[w], k),
         k \in duty[w].reopen => mem'[w].paused /\ Rests(mem[w], mem'[w], k)
  PROVE  \A v \in Worker : StillAt(v, k)
<1> DEFINE m == mem[w]
           n == mem'[w]
           c == duty[w]
           a == Attend(d, n)
<1>1. duty'[w] = a /\ \A v \in Worker \ {w} : duty'[v] = duty[v]
  BY DEF Truly, Sane, AuditTypeOK, Carries
<1>2. Followed(k) /\ Sure(w, k) /\ Sure(w, k)'
  BY DEF Truly, RowsHold, AllSure
<1>3. n \in Memory
  BY DEF Truly, Sane, IInv, TypeOK
<1>4. /\ a.stage[k] =
           (CASE k \in n.active /\ c.stage[k] \in {"idle", "reopened"} -> Begins(n.ent[k])
              [] k \in n.active /\ c.stage[k] \notin {"idle", "reopened"} -> c.stage[k]
              [] k \in n.deciding -> IF c.stage[k] = "threw" THEN "asked" ELSE c.stage[k]
              [] OTHER -> "idle")
      /\ a.reason[k] =
           (CASE k \notin n.active -> "none"
              [] k \in n.active /\ c.reason[k] # "none" -> c.reason[k]
              [] OTHER -> IF LeaseLost(n.ent[k]) THEN "lost"
                          ELSE IF n.ent[k].cancelRequested THEN "cancel" ELSE "none")
      /\ SameDuty(d, a, k)
  BY <1>3, AttendFields DEF SameDuty
<1> HIDE DEF a
<1>5. EntrySure(m, k) /\ EntrySure(n, k) /\ DutySure(c, m, k) /\ Owes(w, k)
  BY <1>2 DEF Sure, Followed
<1>6. \/ a.stage[k] = c.stage[k]
      \/ c.stage[k] = "idle" /\ a.stage[k] = "starting"
  <2>1. CASE k \in n.active
    <3>1. k \notin n.deciding /\ k \notin m.deciding
      BY <1>5, <2>1 DEF EntrySure, Steps
    <3>2. c.stage[k] # "reopened"
      BY <1>5, <3>1 DEF DutySure, Deciding
    <3>3. CASE c.stage[k] = "idle"
      <4>1. a.stage[k] = Begins(n.ent[k])
        BY <1>4, <2>1, <3>1, <3>3
      <4>2. n.ent[k].state = "running" /\ m.ent[k].state # "running"
        BY <1>5, <2>1, <3>1, <3>3 DEF EntrySure, DutySure, Handling
      <4>3. ~n.ent[k].cancelRequested /\ ~LeaseLost(n.ent[k])
        BY <1>5, <4>2 DEF EntrySure, Steps, LeaseLost
      <4> QED BY <3>3, <4>1, <4>3 DEF Begins
    <3>4. CASE c.stage[k] # "idle"
      <4>1. c.stage[k] \notin {"idle", "reopened"}
        BY <3>2, <3>4
      <4>2. a.stage[k] = c.stage[k]
        BY <1>4, <2>1, <3>1, <4>1
      <4> QED BY <4>2
    <3> QED BY <3>3, <3>4
  <2>2. CASE k \notin n.active /\ k \in n.deciding
    <3>1. k \in m.deciding /\ k \notin m.active
      BY <1>5, <2>2 DEF EntrySure, Steps
    <3>2. c.stage[k] # "threw"
      BY <1>5, <3>1 DEF DutySure, Handling
    <3>3. a.stage[k] = IF c.stage[k] = "threw" THEN "asked" ELSE c.stage[k]
      BY <1>4, <2>2
    <3> QED BY <3>2, <3>3
  <2>3. CASE k \notin n.active /\ k \notin n.deciding
    <3>1. k \notin m.active /\ k \notin m.deciding
      BY <1>5, <2>3 DEF EntrySure, Steps
    <3>2. c.stage[k] = "idle"
      BY <1>5, <3>1 DEF DutySure, Handling, Deciding, Stage
    <3>3. a.stage[k] = "idle"
      BY <1>4, <2>3
    <3> QED BY <3>2, <3>3
  <2> QED BY <2>1, <2>2, <2>3
<1>7. a.reason[k] # "lost"
  <2>1. c.reason[k] # "lost"
    BY <1>5 DEF Owes
  <2>2. k \in n.active => ~LeaseLost(n.ent[k])
    BY <1>5 DEF EntrySure, LeaseLost
  <2> QED BY <1>4, <2>1, <2>2
<1>8. StillAt(w, k)
  <2>1. SameDuty(c, a, k)
    BY <1>4 DEF SameDuty
  <2> QED BY <1>1, <1>6, <1>7, <2>1 DEF StillAt, Still
<1> QED BY <1>1, <1>2, <1>8, StaysStill

-----------------------------------------------------------------------------
(* A step about job k, which w knows, or comes to know.                    *)

LEMMA ComesFollowed ==
  ASSUME NEW k \in Job, AllSure, AllSure', Followed(k), NEW w \in Worker,
         k \in submitted, Known(mem'[w], k),
         \A v \in Worker \ {w} : StillAt(v, k) /\ ~Known(mem[v], k),
         audit'[k].status # "none",
         (Submits(w, k) /\ Owes(w, k))',
         k \notin raced' => (Reports(w, k) /\ Tells(w, k) /\ Minded(k))'
  PROVE  Followed(k)'
<1>1. k \in submitted
  OBVIOUS
<1>2. ASSUME NEW v \in Worker \ {w}
      PROVE  /\ ~Known(mem[v], k) /\ ~Known(mem'[v], k)
             /\ duty[v].submit[k] = "no" /\ duty'[v].submit[k] = "no"
             /\ (Submits(v, k) /\ Owes(v, k) /\ Reports(v, k) /\ Tells(v, k))'
  <2>1. StillAt(v, k) /\ Sure(v, k) /\ Sure(v, k)' /\ Submits(v, k) /\ Owes(v, k)
    BY DEF AllSure, Followed
  <2>2. ~Known(mem[v], k)
    OBVIOUS
  <2>3. ~Known(mem'[v], k)
    BY <2>1, <2>2, StillKnown DEF StillAt
  <2>4. duty[v].submit[k] = "no"
    <3>1. duty[v].submit[k] # "inserted" /\ duty[v].submit[k] # "refusing"
      BY <1>1, <2>1 DEF Submits
    <3>2. mem[v].ent[k].durability = "none"
      BY <2>1, <2>2 DEF Sure, EntrySure, Known
    <3>3. duty[v].submit[k] # "storing"
      BY <2>1, <3>2 DEF Submits
    <3> QED BY <2>1, <3>1, <3>3 DEF Sure, DutySure
  <2>5. duty'[v].submit[k] = "no"
    BY <2>1, <2>4 DEF StillAt, Still, SameDuty
  <2>6. /\ mem'[v].ent[k].durability = "none" /\ mem'[v].chain[k] = <<>>
        /\ mem'[v].ent[k].state = "absent"
        /\ k \notin mem'[v].active /\ k \notin mem'[v].deciding
    BY <2>1, <2>3 DEF Sure, EntrySure, Known
  <2>7. Submits(v, k)'
    BY <2>5, <2>6 DEF Submits
  <2>8. Owes(v, k)'
    <3>1. k \notin duty[v].closing /\ k \notin duty[v].resets /\ k \notin duty[v].reopen
      BY <2>1, <2>2 DEF Owes, Known
    <3> QED BY <2>1, <3>1 DEF Owes, StillAt, Still, SameDuty
  <2>9. duty'[v].stage[k] = "idle"
    BY <2>1, <2>6 DEF Sure, DutySure, Handling, Deciding, Stage
  <2>10. Reports(v, k)'
    BY <2>9 DEF Reports
  <2>11. Tells(v, k)'
    BY <2>6 DEF Tells, Ended, Terminal
  <2> QED BY <2>2, <2>3, <2>4, <2>5, <2>7, <2>8, <2>10, <2>11
<1>3. KnownOnce(k)'
  <2>1. InTable(k)' => row'[k].owner = w
    BY DEF AllSure, Sure, RowSure
  <2> QED BY <1>2, <2>1 DEF KnownOnce
<1>4. SubmittedOnce(k)'
  BY <1>2 DEF SubmittedOnce
<1>5. \A v \in Worker : (Submits(v, k) /\ Owes(v, k))'
  BY <1>2
<1>6. ASSUME k \notin raced'
      PROVE  (\A v \in Worker : Reports(v, k)' /\ Tells(v, k)') /\ Minded(k)'
  BY <1>2, <1>6
<1> QED BY <1>3, <1>4, <1>5, <1>6 DEF Followed

LEMMA TurnFollowed ==
  ASSUME NEW k \in Job, AllSure, AllSure', Followed(k), NEW w \in Worker,
         Known(mem[w], k), Known(mem'[w], k),
         \A v \in Worker \ {w} : StillAt(v, k),
         audit'[k].status # "none",
         (Submits(w, k) /\ Owes(w, k))',
         k \notin raced' => (Reports(w, k) /\ Tells(w, k) /\ Minded(k))'
  PROVE  Followed(k)'
<1>1. k \in submitted
  BY DEF AllSure, Sure, RowSure
<1>2. \A v \in Worker \ {w} : ~Known(mem[v], k)
  BY DEF Followed, KnownOnce
<1> QED BY <1>1, <1>2, ComesFollowed

(* Neither before nor after is there anything to sweep.                    *)
LEMMA HeldCleared ==
  ASSUME NEW k \in Job, Cleared(k),
         k \notin raced' => ~Forsaken(k) /\ ~Forsaken(k)',
         \A v \in Worker : /\ SameSweep(duty[v], duty'[v], k)
                           /\ k \in duty'[v].reopen => k \in duty[v].reopen,
         audit'[k].status # "none", raced \subseteq raced'
  PROVE  Cleared(k)'
<1>1. ASSUME NEW v \in Worker
      PROVE  /\ SweepOwes(v, k)'
             /\ k \notin raced' => SweepsForsaken(v, k)'
  <2>1. SweepOwes(v, k) /\ SameSweep(duty[v], duty'[v], k)
    BY DEF Cleared
  <2>2. SweepOwes(v, k)'
    BY <2>1 DEF SweepOwes, SameSweep
  <2>3. ASSUME k \notin raced' PROVE SweepsForsaken(v, k)'
    <3>1. SweepsForsaken(v, k)
      BY <2>3 DEF Cleared
    <3> QED BY <2>1, <2>3, <3>1 DEF SweepsForsaken, SameSweep
  <2> QED BY <2>2, <2>3
<1>2. k \notin raced' => Closable(k)'
  BY DEF Closable
<1> QED BY <1>1, <1>2 DEF Cleared

(* The row is closed as its job has nobody.                                *)
LEMMA ClosedCleared ==
  ASSUME NEW k \in Job, Cleared(k),
         \A v \in Worker : /\ SameSweep(duty[v], duty'[v], k)
                           /\ duty'[v].submit[k] = duty[v].submit[k]
                           /\ k \in duty'[v].reopen => k \in duty[v].reopen,
         InTable(k)' <=> InTable(k),
         audit'[k].status \in {"failed", "cancelled"}, raced \subseteq raced'
  PROVE  Cleared(k)'
<1>1. Forsaken(k) => Forsaken(k)'
  BY DEF Forsaken
<1>2. ASSUME NEW v \in Worker
      PROVE  /\ SweepOwes(v, k)'
             /\ k \notin raced' => SweepsForsaken(v, k)'
  <2>1. SweepOwes(v, k) /\ SameSweep(duty[v], duty'[v], k)
    BY DEF Cleared
  <2>2. SweepOwes(v, k)'
    BY <2>1 DEF SweepOwes, SameSweep
  <2>3. ASSUME k \notin raced' PROVE SweepsForsaken(v, k)'
    <3>1. SweepsForsaken(v, k)
      BY <2>3 DEF Cleared
    <3> QED BY <1>1, <2>1, <3>1 DEF SweepsForsaken, SameSweep
  <2> QED BY <2>2, <2>3
<1>3. Closable(k)'
  BY DEF Closable, Open
<1> QED BY <1>2, <1>3 DEF Cleared

-----------------------------------------------------------------------------
(* Steps above the queue.                                                  *)

LEMMA MovesSwept ==
  ASSUME Truly, NEW w \in Worker, NEW d, Moves(w, d),
         d.known = duty[w].known, d.sweep = duty[w].sweep, d.reopen = duty[w].reopen,
         NEW v \in Worker
  PROVE  Swept(v)'
<1>1. /\ duty'[w] = d /\ mem' = mem /\ \A u \in Worker \ {w} : duty'[u] = duty[u]
  BY DEF Truly, Sane, AuditTypeOK, Moves
<1>2. Swept(v)
  BY DEF Truly, RowsHold
<1> QED BY <1>1, <1>2 DEF Swept

LEMMA MovesOnly ==
  ASSUME Truly, NEW w \in Worker, NEW j \in Job, NEW d, Moves(w, d),
         d.known = duty[w].known, d.sweep = duty[w].sweep, d.reopen = duty[w].reopen,
         \A k \in Job : k # j =>
           /\ SameDuty(duty[w], d, k) /\ SameSweep(duty[w], d, k)
           /\ d.stage[k] = duty[w].stage[k] /\ d.reason[k] = duty[w].reason[k]
           /\ audit'[k] = audit[k],
         raced \subseteq raced',
         Followed(j)', Cleared(j)'
  PROVE  RowsHold'
<1>1. ASSUME NEW v \in Worker PROVE Swept(v)'
  BY <1>1, MovesSwept
<1>2. ASSUME NEW k \in Job PROVE (Followed(k) /\ Cleared(k))'
  <2>1. CASE k = j
    BY <2>1
  <2>2. CASE k # j
    <3>1. RowStill(k) /\ \A v \in Worker : StillAt(v, k)
      BY <2>2, MovesStill
    <3>2. \A v \in Worker : SameSweep(duty[v], duty'[v], k)
      <4>1. duty'[w] = d /\ \A u \in Worker \ {w} : duty'[u] = duty[u]
        BY DEF Truly, Sane, AuditTypeOK, Moves
      <4>2. \A u \in Worker \ {w} : SameSweep(duty[u], duty[u], k)
        BY DEF SameSweep
      <4> QED BY <2>2, <4>1, <4>2
    <3>3. Followed(k) /\ Cleared(k) /\ AllSure /\ AllSure'
      BY DEF Truly, RowsHold
    <3> QED BY <2>2, <3>1, <3>2, <3>3, QuietFollowed, QuietCleared
  <2> QED BY <2>1, <2>2
<1> QED BY <1>1, <1>2 DEF RowsHold

(* What the row says to a run or a retry that is at a stage.               *)
Says(a, cancelled, stage) ==
  /\ stage = "returned" => a = Complete
  /\ stage \in {"threw", "asked", "reopening"} =>
       a = Failed \/ (cancelled /\ a.status \notin Open)
  /\ stage \in {"reopening", "reopened"} => ~cancelled
  /\ stage = "cancelling" => cancelled
  /\ stage = "reopened" => a.status = "pending"
  /\ stage # "unopened"

LEMMA ReportsSays ==
  ASSUME NEW w, NEW k
  PROVE  Reports(w, k) <=> Says(audit[k], mem[w].ent[k].cancelRequested, duty[w].stage[k])
BY DEF Reports, Says

LEMMA AtStageFields ==
  ASSUME Truly, NEW w \in Worker, NEW j \in Job, NEW stage
  PROVE  LET d == AtStage(w, j, stage)
             c == duty[w]
         IN /\ d.stage[j] = stage /\ \A k \in Job : k # j => d.stage[k] = c.stage[k]
            /\ d.submit = c.submit /\ d.reason = c.reason /\ d.closing = c.closing
            /\ d.resets = c.resets /\ d.reopen = c.reopen /\ d.known = c.known
            /\ d.cutoff = c.cutoff /\ d.sweep = c.sweep /\ d.live = c.live
            /\ d.orphans = c.orphans
<1>1. duty[w] \in Duty
  BY DEF Truly, Sane, AuditTypeOK
<1> QED BY <1>1 DEF AtStage, Duty

(* A run or a retry takes a step.                                          *)
LEMMA StageHolds ==
  ASSUME Truly, NEW w \in Worker, NEW j \in Job, NEW stage, Moves(w, AtStage(w, j, stage)),
         duty[w].stage[j] \in Handling \/ duty[w].stage[j] \in Deciding,
         \A k \in Job : k # j => audit'[k] = audit[k],
         audit'[j].status # "none", raced \subseteq raced',
         j \notin raced' =>
           /\ Says(audit'[j], mem[w].ent[j].cancelRequested, stage)
           /\ audit'[j].status = "running" => j \in mem[w].active
  PROVE  RowsHold'
<1> DEFINE d == AtStage(w, j, stage)
           c == duty[w]
<1>1. /\ d.stage[j] = stage /\ \A k \in Job : k # j => d.stage[k] = c.stage[k]
      /\ d.submit = c.submit /\ d.reason = c.reason /\ d.closing = c.closing
      /\ d.resets = c.resets /\ d.reopen = c.reopen /\ d.known = c.known
      /\ d.cutoff = c.cutoff /\ d.sweep = c.sweep /\ d.live = c.live
      /\ d.orphans = c.orphans
  BY AtStageFields
<1>2. /\ duty'[w] = d /\ mem' = mem /\ row' = row
      /\ \A u \in Worker \ {w} : duty'[u] = duty[u]
  BY DEF Truly, Sane, AuditTypeOK, Moves
<1> HIDE DEF d
<1>3. Moves(w, d)
  BY DEF d
<1>4. /\ Followed(j) /\ Cleared(j) /\ AllSure /\ AllSure' /\ Sure(w, j)
      /\ Submits(w, j) /\ Owes(w, j)
  BY DEF Truly, RowsHold, AllSure, Followed
<1>5. mem[w].ent[j].state = "running" /\ mem[w].ent[j].durability = "stored"
  BY <1>4 DEF Sure, DutySure, EntrySure
<1>6. Known(mem[w], j) /\ ~Ended(mem[w], j) /\ InTable(j) /\ j \in submitted
  BY <1>4, <1>5 DEF Sure, RowSure, Known, Ended, Terminal
<1>7. c.submit[j] = "no"
  BY <1>4, <1>5, <1>6 DEF Submits, Sure, DutySure
<1>8. (Submits(w, j) /\ Owes(w, j))'
  BY <1>1, <1>2, <1>4, <1>5, <1>7 DEF Submits, Owes
<1>9. ASSUME j \notin raced'
      PROVE  (Reports(w, j) /\ Tells(w, j) /\ Minded(j))'
  <2>1. Reports(w, j)'
    BY <1>1, <1>2, <1>9 DEF Reports, Says
  <2>2. Tells(w, j)'
    BY <1>2, <1>6 DEF Tells
  <2>3. Minded(j)'
    BY <1>2, <1>9 DEF Minded, WillRun
  <2> QED BY <2>1, <2>2, <2>3
<1>10. Followed(j)'
  <2>1. \A v \in Worker \ {w} : StillAt(v, j)
    BY <1>2, <1>4, StaysStill
  <2> QED BY <1>2, <1>4, <1>6, <1>8, <1>9, <2>1, TurnFollowed
<1>11. Cleared(j)'
  <2>1. ~Forsaken(j) /\ ~Forsaken(j)'
    BY <1>2, <1>6 DEF Forsaken, InTable
  <2>2. \A v \in Worker : /\ SameSweep(duty[v], duty'[v], j)
                          /\ j \in duty'[v].reopen => j \in duty[v].reopen
    BY <1>1, <1>2 DEF SameSweep
  <2> QED BY <1>4, <2>1, <2>2, HeldCleared
<1>12. \A k \in Job : k # j =>
           /\ SameDuty(duty[w], d, k) /\ SameSweep(duty[w], d, k)
           /\ d.stage[k] = duty[w].stage[k] /\ d.reason[k] = duty[w].reason[k]
           /\ audit'[k] = audit[k]
  BY <1>1 DEF SameDuty, SameSweep
<1> QED BY <1>1, <1>3, <1>10, <1>11, <1>12, MovesOnly

LEMMA MarkedFields ==
  ASSUME AuditTypeOK, NEW S, NEW status, NEW error
  PROVE  /\ \A k \in Job : k \notin S =>
              /\ Marked(S, status, error)[k] = audit[k]
              /\ MarkedKeepingError(S, status)[k] = audit[k]
         /\ \A k \in Job : k \in S =>
              /\ Marked(S, status, error)[k] = [status |-> status, error |-> error]
              /\ MarkedKeepingError(S, status)[k].status = status
<1>1. \A k \in Job : audit[k] \in AuditRow
  BY DEF AuditTypeOK
<1> QED BY <1>1 DEF Marked, MarkedKeepingError, AuditRow

LEMMA MarkedOne ==
  ASSUME AuditTypeOK, NEW j \in Job, NEW status, NEW error \in BOOLEAN,
         audit' = Marked({j}, status, error)
  PROVE  /\ \A k \in Job : k # j => audit'[k] = audit[k]
         /\ audit'[j] = [status |-> status, error |-> error]
         /\ audit'[j].status = status
<1> DEFINE S == {j}
<1>1. j \in S /\ \A k \in Job : k # j => k \notin S
  OBVIOUS
<1>2. audit' = Marked(S, status, error)
  OBVIOUS
<1> HIDE DEF S
<1>3. /\ \A k \in Job : k # j => audit'[k] = audit[k]
      /\ audit'[j] = [status |-> status, error |-> error]
  BY <1>1, <1>2, MarkedFields
<1> QED BY <1>3

LEMMA ReopenedOne ==
  ASSUME AuditTypeOK, NEW j \in Job, NEW status, audit' = MarkedKeepingError({j}, status)
  PROVE  audit'[j].status = status /\ \A k \in Job : k # j => audit'[k] = audit[k]
<1> DEFINE S == {j}
<1>1. j \in S /\ \A k \in Job : k # j => k \notin S
  OBVIOUS
<1>2. audit' = MarkedKeepingError(S, status)
  OBVIOUS
<1> HIDE DEF S
<1>3. \A k \in Job : audit[k] \in AuditRow
  BY DEF AuditTypeOK
<1> QED BY <1>1, <1>2, <1>3 DEF MarkedKeepingError, AuditRow

(* No write fails while no error has been spent.                           *)
LEMMA NothingBreaks ==
  ASSUME Truly
  PROVE  ~Spend("error") /\ \A written : ~Breaks(written)
BY SpentError DEF Truly, Sane, IInv, Breaks

(* What is known of a job whose run or retry is under way.                 *)
LEMMA UnderWay ==
  ASSUME Truly, NEW w \in Worker, NEW j \in Job,
         duty[w].stage[j] \in Handling \/ duty[w].stage[j] \in Deciding
  PROVE  /\ mem[w].ent[j].state = "running" /\ mem[w].ent[j].durability = "stored"
         /\ duty[w].reason[j] # "lost"
         /\ duty[w].reason[j] = "cancel" => mem[w].ent[j].cancelRequested
         /\ audit[j].status # "none"
         /\ duty[w].stage[j] \in Handling => j \in mem[w].active
         /\ duty[w].stage[j] \in Deciding => j \in mem[w].deciding
         /\ j \notin raced => /\ Says(audit[j], mem[w].ent[j].cancelRequested, duty[w].stage[j])
<1>1. Sure(w, j) /\ Followed(j) /\ Owes(w, j)
  BY DEF Truly, AllSure, RowsHold, Followed
<1>2. mem[w].ent[j].state = "running" /\ mem[w].ent[j].durability = "stored"
  BY <1>1 DEF Sure, DutySure, EntrySure
<1>3. audit[j].status # "none"
  BY <1>1, <1>2 DEF Sure, RowSure, Known, Followed, SubmittedOnce
<1>4. j \notin raced => Says(audit[j], mem[w].ent[j].cancelRequested, duty[w].stage[j])
  BY <1>1, ReportsSays DEF Followed
<1> QED BY <1>1, <1>2, <1>3, <1>4 DEF Owes, Sure, DutySure

LEMMA RunStartsHolds ==
  ASSUME Truly, NEW w \in Worker, NEW j \in Job, RunStarts(w, j)
  PROVE  RowsHold'
<1>1. /\ duty[w].stage[j] \in Handling
      /\ audit' = Marked({j}, "running", FALSE) /\ Does(w, AtStage(w, j, "working"))
  BY NothingBreaks DEF RunStarts, Handling
<1>2. j \in mem[w].active
  BY <1>1, UnderWay
<1>3. audit'[j].status = "running" /\ \A k \in Job : k # j => audit'[k] = audit[k]
  BY <1>1, MarkedOne DEF Truly, Sane
<1>4. Says(audit'[j], mem[w].ent[j].cancelRequested, "working")
  BY DEF Says
<1> QED BY <1>1, <1>2, <1>3, <1>4, StageHolds DEF Does

LEMMA RunWorksHolds ==
  ASSUME Truly, NEW w \in Worker, NEW j \in Job,
         RunStops(w, j) \/ RunFails(w, j) \/ RunGraded(w, j)
  PROVE  RowsHold'
<1>1. duty[w].stage[j] \in Handling /\ audit' = audit /\ raced' = raced
  BY DEF RunStops, RunFails, RunGraded, Handling, Does
<1>2. /\ j \in mem[w].active /\ duty[w].reason[j] # "lost" /\ audit[j].status # "none"
      /\ duty[w].reason[j] = "cancel" => mem[w].ent[j].cancelRequested
      /\ duty[w].reason[j] \in {"none", "cancel", "lost"}
  BY <1>1, UnderWay DEF Truly, AllSure, Sure, DutySure
<1>3. PICK stage \in {"cancelling", "failing", "completing"} :
        /\ Moves(w, AtStage(w, j, stage))
        /\ stage = "cancelling" => mem[w].ent[j].cancelRequested
  <2>1. Catch(w, j) = AtStage(w, j, "failing")
    BY <1>2 DEF Catch
  <2>2. CASE RunStops(w, j)
    BY <1>2, <2>1, <2>2 DEF RunStops, Does
  <2>3. CASE RunFails(w, j)
    BY <2>1, <2>3 DEF RunFails, Does
  <2>4. CASE RunGraded(w, j)
    BY <2>4 DEF RunGraded, Does
  <2> QED BY <2>2, <2>3, <2>4
<1>4. Says(audit'[j], mem[w].ent[j].cancelRequested, stage)
  BY <1>3 DEF Says
<1> QED BY <1>1, <1>2, <1>3, <1>4, StageHolds

LEMMA RunEndsHolds ==
  ASSUME Truly, NEW w \in Worker, NEW j \in Job, RunEnds(w, j)
  PROVE  RowsHold'
<1> DEFINE was == duty[w].stage[j]
           stage == IF was = "completing" THEN "returned" ELSE "threw"
<1>1. /\ was \in {"completing", "failing", "cancelling"} /\ was \in Handling
      /\ audit' = Verdict(j, was) /\ Does(w, AtStage(w, j, stage))
  BY NothingBreaks DEF RunEnds, Handling
<1>2. j \in mem[w].active
      /\ (j \notin raced => Says(audit[j], mem[w].ent[j].cancelRequested, was))
  BY <1>1, UnderWay
<1>3. /\ \A k \in Job : k # j => audit'[k] = audit[k]
      /\ was = "completing" => audit'[j] = Complete
      /\ was = "failing" => audit'[j] = Failed
      /\ was = "cancelling" => audit'[j].status = "cancelled"
  <2>1. /\ was = "completing" => audit' = Marked({j}, "complete", FALSE)
        /\ was = "failing" => audit' = Marked({j}, "failed", TRUE)
        /\ was = "cancelling" => audit' = Marked({j}, "cancelled", FALSE)
    BY <1>1 DEF Verdict
  <2>2. AuditTypeOK
    BY DEF Truly, Sane
  <2>3. CASE was = "completing"
    BY <2>1, <2>2, <2>3, MarkedOne DEF Complete
  <2>4. CASE was = "failing"
    BY <2>1, <2>2, <2>4, MarkedOne DEF Failed
  <2>5. CASE was = "cancelling"
    BY <2>1, <2>2, <2>5, MarkedOne
  <2> QED BY <1>1, <2>3, <2>4, <2>5
<1>4. audit'[j].status # "none"
  BY <1>1, <1>3 DEF Complete, Failed
<1>5. j \notin raced' => Says(audit'[j], mem[w].ent[j].cancelRequested, stage)
  BY <1>1, <1>2, <1>3 DEF Says, Does, Open
<1> HIDE DEF stage, was
<1> QED BY <1>1, <1>2, <1>3, <1>4, <1>5, StageHolds DEF Does, was

LEMMA DecideRetryHolds ==
  ASSUME Truly, NEW w \in Worker, NEW j \in Job, DecideRetry(w, j)
  PROVE  RowsHold'
<1>1. /\ duty[w].stage[j] = "asked" /\ duty[w].stage[j] \in Deciding
      /\ audit' = audit /\ raced \subseteq raced'
      /\ Moves(w, AtStage(w, j, "reopening"))
      /\ j \notin raced' => j \notin raced /\ ~mem[w].ent[j].cancelRequested
  BY DEF DecideRetry, Deciding, Races
<1>2. /\ audit[j].status # "none"
      /\ j \notin raced => Says(audit[j], mem[w].ent[j].cancelRequested, "asked")
  BY <1>1, UnderWay
<1>3. j \notin raced' => audit[j] = Failed /\ ~mem[w].ent[j].cancelRequested
  BY <1>1, <1>2 DEF Says
<1>4. j \notin raced' => /\ Says(audit'[j], mem[w].ent[j].cancelRequested, "reopening")
                         /\ audit'[j].status # "running"
  BY <1>1, <1>3 DEF Says, Failed
<1> QED BY <1>1, <1>2, <1>4, StageHolds

LEMMA RetryReopensHolds ==
  ASSUME Truly, NEW w \in Worker, NEW j \in Job, RetryReopens(w, j)
  PROVE  RowsHold'
<1>1. /\ duty[w].stage[j] = "reopening" /\ duty[w].stage[j] \in Deciding
      /\ audit' = MarkedKeepingError({j}, "pending") /\ raced' = raced
      /\ Moves(w, AtStage(w, j, "reopened"))
  BY NothingBreaks DEF RetryReopens, Deciding, Does
<1>2. j \notin raced => Says(audit[j], mem[w].ent[j].cancelRequested, "reopening")
  BY <1>1, UnderWay
<1>3. audit'[j].status = "pending" /\ \A k \in Job : k # j => audit'[k] = audit[k]
  BY <1>1, ReopenedOne DEF Truly, Sane
<1>4. j \notin raced' => Says(audit'[j], mem[w].ent[j].cancelRequested, "reopened")
  BY <1>1, <1>2, <1>3 DEF Says
<1> QED BY <1>1, <1>3, <1>4, StageHolds

-----------------------------------------------------------------------------
(* A client's submission and cancellation, and the row of a job adopted.   *)

(* A job that waits is behind its row, or will be.                         *)
LEMMA WaitingIsHeld ==
  ASSUME AllSure, NEW w \in Worker, NEW k \in Job, Submits(w, k),
         mem[w].ent[k].state = "queued" \/ mem[w].ent[k].state = "running"
  PROVE  ~Forsaken(k)
<1>1. Sure(w, k)
  BY DEF AllSure
<1>2. CASE mem[w].ent[k].durability = "stored"
  BY <1>1, <1>2 DEF Sure, RowSure, Forsaken
<1>3. CASE mem[w].ent[k].durability = "pending"
  BY <1>3 DEF Submits, Forsaken
<1>4. mem[w].ent[k].durability = "stored" \/ mem[w].ent[k].durability = "pending"
  BY <1>1 DEF Sure, EntrySure
<1> QED BY <1>2, <1>3, <1>4

(* A job that neither runs nor is decided about is at no stage.            *)
LEMMA IdleStage ==
  ASSUME AllSure, NEW w \in Worker, NEW k \in Job, mem[w].ent[k].state # "running"
  PROVE  duty[w].stage[k] = "idle"
BY DEF AllSure, Sure, DutySure, EntrySure, Handling, Deciding, Stage

LEMMA SubmitInsertsHolds ==
  ASSUME Truly, NEW w \in Worker, NEW j \in Job, SubmitInserts(w, j)
  PROVE  RowsHold'
<1> DEFINE c == duty[w]
           d == [c EXCEPT !.submit[j] = "inserted"]
<1>1. /\ audit[j].status = "none" /\ audit' = Marked({j}, "pending", FALSE)
      /\ Moves(w, d) /\ raced' = raced /\ mem[w].up
  BY DEF SubmitInserts, Does, Moves
<1>2. /\ d.submit[j] = "inserted" /\ \A k \in Job : k # j => d.submit[k] = c.submit[k]
      /\ d.stage = c.stage /\ d.reason = c.reason /\ d.closing = c.closing
      /\ d.resets = c.resets /\ d.reopen = c.reopen /\ d.known = c.known
      /\ d.cutoff = c.cutoff /\ d.sweep = c.sweep /\ d.live = c.live
      /\ d.orphans = c.orphans
  <2>1. c \in Duty
    BY DEF Truly, Sane, AuditTypeOK
  <2> QED BY <2>1 DEF Duty
<1>3. /\ duty'[w] = d /\ mem' = mem /\ row' = row /\ submitted' = submitted
      /\ \A u \in Worker \ {w} : duty'[u] = duty[u]
  BY <1>1 DEF Truly, Sane, AuditTypeOK, Moves
<1> HIDE DEF d
<1>4. audit'[j].status = "pending" /\ \A k \in Job : k # j => audit'[k] = audit[k]
  BY <1>1, MarkedOne DEF Truly, Sane
<1>5. Followed(j) /\ Cleared(j) /\ AllSure /\ AllSure'
  BY DEF Truly, RowsHold
<1>6. j \notin submitted
  BY <1>1, <1>5 DEF Followed, SubmittedOnce
<1>7. /\ ~InTable(j)
      /\ \A v \in Worker : /\ ~Known(mem[v], j) /\ duty[v].submit[j] = "no"
                           /\ mem[v].ent[j].state = "absent"
                           /\ mem[v].ent[j].durability = "none"
  <2>1. \A v \in Worker : Sure(v, j) /\ Submits(v, j)
    BY <1>5 DEF AllSure, Followed
  <2>2. \A v \in Worker : ~Known(mem[v], j)
    BY <1>6, <2>1 DEF Sure, RowSure
  <2>3. ~InTable(j)
    BY <1>6, <2>1 DEF Sure, RowSure
  <2>4. \A v \in Worker : duty[v].submit[j] = "no"
    BY <1>1, <2>1 DEF Submits
  <2> QED BY <2>1, <2>2, <2>3, <2>4 DEF Sure, EntrySure, Known
<1>8. KnownOnce(j)' /\ SubmittedOnce(j)'
  <2>1. KnownOnce(j)'
    BY <1>3, <1>7 DEF KnownOnce, InTable
  <2>2. SubmittedOnce(j)'
    BY <1>3, <1>6, <1>7 DEF SubmittedOnce
  <2> QED BY <2>1, <2>2
<1>9. ASSUME NEW v \in Worker
      PROVE  (Submits(v, j) /\ Owes(v, j) /\ Reports(v, j) /\ Tells(v, j))'
  <2>1. Submits(v, j) /\ Owes(v, j)
    BY <1>5 DEF Followed
  <2>2. Submits(v, j)'
    <3>1. CASE v = w
      BY <1>1, <1>2, <1>3, <1>4, <1>6, <1>7, <2>1, <3>1 DEF Submits
    <3>2. CASE v # w
      BY <1>3, <1>7, <2>1, <3>2 DEF Submits
    <3> QED BY <3>1, <3>2
  <2>3. Owes(v, j)'
    <3>1. CASE v = w
      BY <1>2, <1>3, <2>1, <3>1 DEF Owes
    <3>2. CASE v # w
      BY <1>3, <2>1, <3>2 DEF Owes
    <3> QED BY <3>1, <3>2
  <2>4. duty'[v].stage[j] = "idle"
    <3>1. duty[v].stage[j] = "idle"
      BY <1>5, <1>7, IdleStage
    <3> QED BY <1>2, <1>3, <3>1
  <2>5. Reports(v, j)'
    BY <2>4 DEF Reports
  <2>6. Tells(v, j)'
    BY <1>3, <1>7 DEF Tells, Ended, Terminal
  <2> QED BY <2>2, <2>3, <2>5, <2>6
<1>10. Followed(j)'
  <2>1. Minded(j)'
    BY <1>4 DEF Minded
  <2> QED BY <1>8, <1>9, <2>1 DEF Followed
<1>11. Cleared(j)'
  <2>1. ~Forsaken(j) /\ ~Forsaken(j)'
    BY <1>1, <1>2, <1>3 DEF Forsaken
  <2>2. \A v \in Worker : /\ SameSweep(duty[v], duty'[v], j)
                          /\ j \in duty'[v].reopen => j \in duty[v].reopen
    BY <1>2, <1>3 DEF SameSweep
  <2> QED BY <1>1, <1>4, <1>5, <2>1, <2>2, HeldCleared
<1>12. \A k \in Job : k # j =>
           /\ SameDuty(duty[w], d, k) /\ SameSweep(duty[w], d, k)
           /\ d.stage[k] = duty[w].stage[k] /\ d.reason[k] = duty[w].reason[k]
           /\ audit'[k] = audit[k]
  BY <1>2, <1>4 DEF SameDuty, SameSweep
<1> QED BY <1>1, <1>2, <1>10, <1>11, <1>12, MovesOnly

LEMMA CancelWritesHolds ==
  ASSUME Truly, NEW w \in Worker, NEW j \in Job, CancelWrites(w, j)
  PROVE  RowsHold'
<1> DEFINE c == duty[w]
           d == [c EXCEPT !.closing = @ \ {j}]
<1>1. /\ j \in c.closing /\ audit' = MarkedKeepingError({j}, "cancelled")
      /\ Moves(w, d) /\ raced' = raced
  BY NothingBreaks DEF CancelWrites, Does
<1>2. /\ d.closing = c.closing \ {j}
      /\ d.submit = c.submit /\ d.stage = c.stage /\ d.reason = c.reason
      /\ d.resets = c.resets /\ d.reopen = c.reopen /\ d.known = c.known
      /\ d.cutoff = c.cutoff /\ d.sweep = c.sweep /\ d.live = c.live
      /\ d.orphans = c.orphans
  <2>1. c \in Duty
    BY DEF Truly, Sane, AuditTypeOK
  <2> QED BY <2>1 DEF Duty
<1>3. /\ duty'[w] = d /\ mem' = mem /\ row' = row /\ submitted' = submitted
      /\ \A u \in Worker \ {w} : duty'[u] = duty[u]
  BY <1>1 DEF Truly, Sane, AuditTypeOK, Moves
<1> HIDE DEF d
<1>4. audit'[j].status = "cancelled" /\ \A k \in Job : k # j => audit'[k] = audit[k]
  BY <1>1, ReopenedOne DEF Truly, Sane
<1>5. Followed(j) /\ Cleared(j) /\ AllSure /\ AllSure' /\ Submits(w, j) /\ Owes(w, j)
  BY DEF Truly, RowsHold, Followed
<1>6. mem[w].ent[j].state = "cancelled" /\ Known(mem[w], j) /\ c.stage[j] = "idle"
  <2>1. mem[w].ent[j].state = "cancelled"
    BY <1>1, <1>5 DEF Owes
  <2> QED BY <1>5, <2>1, IdleStage DEF Known
<1>7. (Submits(w, j) /\ Owes(w, j) /\ Reports(w, j) /\ Tells(w, j) /\ Minded(j))'
  <2>1. Submits(w, j)'
    BY <1>2, <1>3, <1>4, <1>5 DEF Submits
  <2>2. Owes(w, j)'
    BY <1>2, <1>3, <1>5 DEF Owes
  <2>3. Reports(w, j)'
    BY <1>2, <1>3, <1>6 DEF Reports
  <2>4. Tells(w, j)'
    BY <1>3, <1>4, <1>6 DEF Tells, Open
  <2>5. Minded(j)'
    BY <1>4 DEF Minded
  <2> QED BY <2>1, <2>2, <2>3, <2>4, <2>5
<1>8. Followed(j)'
  <2>1. \A v \in Worker \ {w} : StillAt(v, j)
    BY <1>3, <1>5, StaysStill
  <2> QED BY <1>3, <1>4, <1>5, <1>6, <1>7, <2>1, TurnFollowed
<1>9. Cleared(j)'
  <2>1. \A v \in Worker : /\ SameSweep(duty[v], duty'[v], j)
                          /\ duty'[v].submit[j] = duty[v].submit[j]
                          /\ j \in duty'[v].reopen => j \in duty[v].reopen
    BY <1>2, <1>3 DEF SameSweep
  <2>2. InTable(j)' <=> InTable(j)
    BY <1>3 DEF InTable
  <2> QED BY <1>1, <1>4, <1>5, <2>1, <2>2, ClosedCleared
<1>10. \A k \in Job : k # j =>
           /\ SameDuty(duty[w], d, k) /\ SameSweep(duty[w], d, k)
           /\ d.stage[k] = duty[w].stage[k] /\ d.reason[k] = duty[w].reason[k]
           /\ audit'[k] = audit[k]
  BY <1>2, <1>4 DEF SameDuty, SameSweep
<1> QED BY <1>1, <1>2, <1>8, <1>9, <1>10, MovesOnly

LEMMA AdoptionResetsHolds ==
  ASSUME Truly, NEW w \in Worker, NEW j \in Job, AdoptionResets(w, j)
  PROVE  RowsHold'
<1> DEFINE c == duty[w]
           d == [c EXCEPT !.resets = @ \ {j}]
<1>1. /\ j \in c.resets /\ audit' = MarkedKeepingError({j}, "pending")
      /\ Moves(w, d) /\ raced \subseteq raced'
      /\ j \notin raced' => /\ j \notin raced
                            /\ mem[w].ent[j].state = "queued" \/ c.stage[j] = "starting"
  BY NothingBreaks DEF AdoptionResets, Races
<1>2. /\ d.resets = c.resets \ {j}
      /\ d.submit = c.submit /\ d.stage = c.stage /\ d.reason = c.reason
      /\ d.closing = c.closing /\ d.reopen = c.reopen /\ d.known = c.known
      /\ d.cutoff = c.cutoff /\ d.sweep = c.sweep /\ d.live = c.live
      /\ d.orphans = c.orphans
  <2>1. c \in Duty
    BY DEF Truly, Sane, AuditTypeOK
  <2> QED BY <2>1 DEF Duty
<1>3. /\ duty'[w] = d /\ mem' = mem /\ row' = row /\ submitted' = submitted
      /\ \A u \in Worker \ {w} : duty'[u] = duty[u]
  BY <1>1 DEF Truly, Sane, AuditTypeOK, Moves
<1> HIDE DEF d
<1>4. audit'[j].status = "pending" /\ \A k \in Job : k # j => audit'[k] = audit[k]
  BY <1>1, ReopenedOne DEF Truly, Sane
<1>5. Followed(j) /\ Cleared(j) /\ AllSure /\ AllSure' /\ Submits(w, j) /\ Owes(w, j)
  BY DEF Truly, RowsHold, Followed
<1>6. Known(mem[w], j)
  BY <1>1, <1>5 DEF Owes
<1>7. (Submits(w, j) /\ Owes(w, j))'
  BY <1>2, <1>3, <1>4, <1>5 DEF Submits, Owes
<1>8. ASSUME j \notin raced'
      PROVE  /\ c.stage[j] \in {"idle", "starting"}
             /\ mem[w].ent[j].state = "queued" \/ mem[w].ent[j].state = "running"
  <2>1. CASE mem[w].ent[j].state = "queued"
    BY <1>5, <2>1, IdleStage
  <2>2. CASE c.stage[j] = "starting"
    <3>1. c.stage[j] \in Handling
      BY <2>2 DEF Handling
    <3> QED BY <2>2, <3>1, UnderWay
  <2> QED BY <1>1, <1>8, <2>1, <2>2
<1>9. ASSUME j \notin raced'
      PROVE  (Reports(w, j) /\ Tells(w, j) /\ Minded(j))'
  <2>1. Reports(w, j)'
    BY <1>2, <1>3, <1>8, <1>9 DEF Reports
  <2>2. Tells(w, j)'
    BY <1>3, <1>8, <1>9 DEF Tells, Ended, Terminal
  <2>3. Minded(j)'
    BY <1>4 DEF Minded
  <2> QED BY <2>1, <2>2, <2>3
<1>10. Followed(j)'
  <2>1. \A v \in Worker \ {w} : StillAt(v, j)
    BY <1>3, <1>5, StaysStill
  <2> QED BY <1>3, <1>4, <1>5, <1>6, <1>7, <1>9, <2>1, TurnFollowed
<1>11. Cleared(j)'
  <2>1. \A v \in Worker : /\ SameSweep(duty[v], duty'[v], j)
                          /\ j \in duty'[v].reopen => j \in duty[v].reopen
    BY <1>2, <1>3 DEF SameSweep
  <2>2. ASSUME j \notin raced' PROVE ~Forsaken(j) /\ ~Forsaken(j)'
    <3>1. ~Forsaken(j)
      BY <1>5, <1>8, <2>2, WaitingIsHeld
    <3>2. audit[j].status # "none"
      BY <1>5, <1>6 DEF AllSure, Sure, RowSure, Followed, SubmittedOnce
    <3>3. \A v \in Worker : duty'[v].submit[j] = duty[v].submit[j]
      BY <1>2, <1>3
    <3> QED BY <1>3, <3>1, <3>2, <3>3 DEF Forsaken, InTable
  <2> QED BY <1>1, <1>4, <1>5, <2>1, <2>2, HeldCleared
<1>12. \A k \in Job : k # j =>
           /\ SameDuty(duty[w], d, k) /\ SameSweep(duty[w], d, k)
           /\ d.stage[k] = duty[w].stage[k] /\ d.reason[k] = duty[w].reason[k]
           /\ audit'[k] = audit[k]
  BY <1>2, <1>4 DEF SameDuty, SameSweep
<1> QED BY <1>1, <1>2, <1>10, <1>11, <1>12, MovesOnly

-----------------------------------------------------------------------------
(* The sweep, and the rows recover puts back.                              *)

(* The duty of w moves, but nothing about any job it is following.         *)
LEMMA MovesFollowed ==
  ASSUME Truly, NEW w \in Worker, NEW d, Moves(w, d), NEW k \in Job,
         SameDuty(duty[w], d, k), d.stage[k] = duty[w].stage[k], d.reason[k] = duty[w].reason[k],
         audit'[k] = audit[k], raced \subseteq raced'
  PROVE  Followed(k)' /\ (Forsaken(k)' <=> Forsaken(k))
<1>1. RowStill(k) /\ \A v \in Worker : StillAt(v, k)
  BY MovesStill
<1>2. Followed(k) /\ AllSure /\ AllSure'
  BY DEF Truly, RowsHold
<1>3. Forsaken(k)' <=> Forsaken(k)
  <2>1. \A v \in Worker : duty'[v].submit[k] = duty[v].submit[k]
    BY <1>1 DEF StillAt, Still, SameDuty
  <2> QED BY <1>1, <2>1 DEF Forsaken, RowStill, InTable
<1> QED BY <1>1, <1>2, <1>3, QuietFollowed

LEMMA MovesDuty ==
  ASSUME Truly, NEW w \in Worker, NEW d, Moves(w, d)
  PROVE  /\ duty'[w] = d /\ mem' = mem /\ row' = row /\ submitted' = submitted
         /\ \A u \in Worker \ {w} : duty'[u] = duty[u]
BY DEF Truly, Sane, AuditTypeOK, Moves

LEMMA CutoffReadHolds ==
  ASSUME Truly, NEW w \in Worker, CutoffRead(w)
  PROVE  RowsHold'
<1> DEFINE c == duty[w]
           old == { j \in Job : audit[j].status # "none" }
           d == [c EXCEPT !.known = TRUE, !.cutoff = old]
<1>1. /\ mem[w].loading = "asked" /\ ~c.known /\ Moves(w, d) /\ raced' = raced /\ audit' = audit
  BY DEF CutoffRead, Does
<1>2. /\ d.known = TRUE /\ d.cutoff = old
      /\ d.submit = c.submit /\ d.stage = c.stage /\ d.reason = c.reason
      /\ d.closing = c.closing /\ d.resets = c.resets /\ d.reopen = c.reopen
      /\ d.sweep = c.sweep /\ d.live = c.live /\ d.orphans = c.orphans
  <2>1. c \in Duty
    BY DEF Truly, Sane, AuditTypeOK
  <2> QED BY <2>1 DEF Duty
<1>3. \A k \in Job : k \in old <=> audit[k].status # "none"
  OBVIOUS
<1> HIDE DEF old, d
<1>4. /\ duty'[w] = d /\ mem' = mem /\ row' = row /\ submitted' = submitted
      /\ \A u \in Worker \ {w} : duty'[u] = duty[u]
  BY <1>1, MovesDuty
<1>5. \A k \in Job : Followed(k)' /\ (Forsaken(k)' <=> Forsaken(k))
  <2> TAKE k \in Job
  <2>1. SameDuty(c, d, k)
    BY <1>2 DEF SameDuty
  <2> QED BY <1>1, <1>2, <2>1, MovesFollowed
<1>6. c.sweep = "due" /\ \A v \in Worker : Swept(v)
  BY <1>1 DEF Truly, RowsHold, Swept
<1>7. ASSUME NEW v \in Worker PROVE Swept(v)'
  <2>1. CASE v = w
    BY <1>1, <1>2, <1>4, <1>6, <2>1 DEF Swept
  <2>2. CASE v # w
    BY <1>4, <1>6, <2>2 DEF Swept
  <2> QED BY <2>1, <2>2
<1>8. ASSUME NEW k \in Job PROVE Cleared(k)'
  <2>1. Cleared(k)
    BY DEF Truly, RowsHold
  <2>2. ASSUME NEW v \in Worker
        PROVE  /\ SweepOwes(v, k)'
               /\ k \notin raced' => SweepsForsaken(v, k)'
               /\ (WillClose(v, k) /\ Forsaken(k)) => WillClose(v, k)'
    <3>1. SweepOwes(v, k) /\ (k \notin raced => SweepsForsaken(v, k))
      BY <2>1 DEF Cleared
    <3>2. CASE v # w
      BY <1>1, <1>4, <1>5, <3>1, <3>2 DEF SweepOwes, SweepsForsaken, WillClose
    <3>3. CASE v = w
      <4>1. k \notin c.orphans
        BY <1>6, <3>1, <3>3 DEF SweepOwes
      <4>2. SweepOwes(w, k)' /\ SweepsForsaken(w, k)'
        BY <1>1, <1>2, <1>3, <1>4, <1>6, <3>1, <3>3, <4>1 DEF SweepOwes, SweepsForsaken
      <4>3. (WillClose(w, k) /\ Forsaken(k)) => WillClose(w, k)'
        BY <1>2, <1>3, <1>4, <1>6 DEF WillClose, Forsaken
      <4> QED BY <3>3, <4>2, <4>3
    <3> QED BY <3>2, <3>3
  <2>3. k \notin raced' => Closable(k)'
    BY <1>1, <1>5, <2>1, <2>2 DEF Cleared, Closable
  <2> QED BY <2>2, <2>3 DEF Cleared
<1> QED BY <1>5, <1>7, <1>8 DEF RowsHold

LEMMA SweepAsksHolds ==
  ASSUME Truly, NEW w \in Worker, SweepAsks(w)
  PROVE  RowsHold'
<1> DEFINE c == duty[w]
           alive == c.live \cup Outstanding(row)
           d == [c EXCEPT !.sweep = "reading", !.live = alive]
           hit == { j \in c.cutoff \ alive :
                      \E v \in Worker : duty[v].submit[j] \in {"inserted", "storing"} }
<1>1. /\ c.sweep = "asking" /\ Moves(w, d) /\ raced' = raced \cup hit /\ audit' = audit
  BY DEF SweepAsks, Races
<1>2. /\ d.sweep = "reading" /\ d.live = alive
      /\ d.submit = c.submit /\ d.stage = c.stage /\ d.reason = c.reason
      /\ d.closing = c.closing /\ d.resets = c.resets /\ d.reopen = c.reopen
      /\ d.known = c.known /\ d.cutoff = c.cutoff /\ d.orphans = c.orphans
  <2>1. c \in Duty
    BY DEF Truly, Sane, AuditTypeOK
  <2> HIDE DEF alive
  <2> QED BY <2>1 DEF Duty
<1>3. \A k \in Job : k \in alive <=> k \in c.live \/ InTable(k)
  BY DEF Outstanding, InTable
<1>4. \A k \in Job : (k \in c.cutoff /\ k \notin alive /\ k \notin raced')
                       => \A v \in Worker : duty[v].submit[k] \notin {"inserted", "storing"}
  <2> HIDE DEF alive
  <2> QED BY <1>1
<1>5. raced \subseteq raced'
  BY <1>1
<1> HIDE DEF d, alive, hit
<1>6. /\ duty'[w] = d /\ mem' = mem /\ row' = row /\ submitted' = submitted
      /\ \A u \in Worker \ {w} : duty'[u] = duty[u]
  BY <1>1, MovesDuty
<1>7. \A k \in Job : Followed(k)' /\ (Forsaken(k)' <=> Forsaken(k))
  <2> TAKE k \in Job
  <2>1. SameDuty(c, d, k)
    BY <1>2 DEF SameDuty
  <2> QED BY <1>1, <1>2, <1>5, <2>1, MovesFollowed
<1>8. \A v \in Worker : Swept(v)
  BY DEF Truly, RowsHold
<1>9. ASSUME NEW v \in Worker PROVE Swept(v)'
  <2>1. CASE v = w
    BY <1>1, <1>2, <1>6, <1>8, <2>1 DEF Swept
  <2>2. CASE v # w
    BY <1>6, <1>8, <2>2 DEF Swept
  <2> QED BY <2>1, <2>2
<1>10. ASSUME NEW k \in Job PROVE Cleared(k)'
  <2>1. Cleared(k) /\ Followed(k)
    BY DEF Truly, RowsHold
  <2>2. ASSUME NEW v \in Worker
        PROVE  /\ SweepOwes(v, k)'
               /\ k \notin raced' => SweepsForsaken(v, k)'
               /\ (WillClose(v, k) /\ Forsaken(k)) => WillClose(v, k)'
    <3>1. SweepOwes(v, k) /\ (k \notin raced => SweepsForsaken(v, k))
      BY <2>1 DEF Cleared
    <3>2. CASE v # w
      BY <1>1, <1>5, <1>6, <1>7, <3>1, <3>2 DEF SweepOwes, SweepsForsaken, WillClose
    <3>3. CASE v = w
      <4>1. k \notin c.orphans /\ k \notin c.reopen /\ (k \in c.cutoff => audit[k].status # "none")
        BY <1>1, <3>1, <3>3 DEF SweepOwes
      <4>2. SweepOwes(w, k)'
        BY <1>1, <1>2, <1>6, <4>1 DEF SweepOwes
      <4>3. ASSUME k \notin raced' PROVE SweepsForsaken(w, k)'
        <5>1. ASSUME k \in c.cutoff, k \notin alive PROVE Forsaken(k)
          <6>1. ~InTable(k) /\ audit[k].status # "none"
            BY <1>3, <4>1, <5>1
          <6>2. ASSUME NEW u \in Worker PROVE duty[u].submit[k] = "no"
            <7>1. duty[u].submit[k] \notin {"inserted", "storing"}
              BY <1>4, <4>3, <5>1
            <7>2. duty[u].submit[k] # "refusing"
              BY <2>1 DEF Followed, Submits
            <7>3. Sure(u, k)
              BY DEF Truly, AllSure
            <7> QED BY <7>1, <7>2, <7>3 DEF Sure, DutySure
          <6> QED BY <6>1, <6>2 DEF Forsaken
        <5> QED BY <1>2, <1>6, <1>7, <4>1, <5>1 DEF SweepsForsaken
      <4>4. (WillClose(w, k) /\ Forsaken(k)) => WillClose(w, k)'
        BY <1>1, <1>2, <1>3, <1>6 DEF WillClose, Forsaken
      <4> QED BY <3>3, <4>2, <4>3, <4>4
    <3> QED BY <3>2, <3>3
  <2>3. k \notin raced' => Closable(k)'
    BY <1>1, <1>5, <1>7, <2>1, <2>2 DEF Cleared, Closable
  <2> QED BY <2>2, <2>3 DEF Cleared
<1> QED BY <1>7, <1>9, <1>10 DEF RowsHold

LEMMA SweepReadsHolds ==
  ASSUME Truly, NEW w \in Worker, SweepReads(w)
  PROVE  RowsHold'
<1> DEFINE c == duty[w]
           found == Orphans(w)
           next == IF found = {} THEN "done" ELSE "writing"
           d == [c EXCEPT !.sweep = next, !.orphans = found, !.live = {}]
<1>1. /\ c.sweep = "reading" /\ Moves(w, d) /\ raced' = raced /\ audit' = audit
  BY DEF SweepReads, Does
<1>2. /\ d.sweep = next /\ d.orphans = found /\ d.live = {}
      /\ d.submit = c.submit /\ d.stage = c.stage /\ d.reason = c.reason
      /\ d.closing = c.closing /\ d.resets = c.resets /\ d.reopen = c.reopen
      /\ d.known = c.known /\ d.cutoff = c.cutoff
  <2>1. c \in Duty
    BY DEF Truly, Sane, AuditTypeOK
  <2> HIDE DEF next, found
  <2> QED BY <2>1 DEF Duty
<1>3. /\ \A k \in Job : k \in found <=> k \in c.cutoff /\ k \notin c.live /\ audit[k].status \in Open
      /\ next = "done" \/ next = "writing"
      /\ \A k \in Job : k \in found => next = "writing"
  <2>1. \A k \in Job : k \in found <=> k \in c.cutoff /\ k \notin c.live /\ audit[k].status \in Open
    BY DEF Orphans
  <2> HIDE DEF found
  <2> QED BY <2>1
<1> HIDE DEF d, found, next
<1>4. /\ duty'[w] = d /\ mem' = mem /\ row' = row /\ submitted' = submitted
      /\ \A u \in Worker \ {w} : duty'[u] = duty[u]
  BY <1>1, MovesDuty
<1>5. \A k \in Job : Followed(k)' /\ (Forsaken(k)' <=> Forsaken(k))
  <2> TAKE k \in Job
  <2>1. SameDuty(c, d, k)
    BY <1>2 DEF SameDuty
  <2> QED BY <1>1, <1>2, <2>1, MovesFollowed
<1>6. c.known /\ mem[w].loading = "no" /\ \A v \in Worker : Swept(v)
  BY <1>1 DEF Truly, RowsHold, Swept
<1>7. ASSUME NEW v \in Worker PROVE Swept(v)'
  <2>1. CASE v = w
    BY <1>2, <1>3, <1>4, <1>6, <2>1 DEF Swept
  <2>2. CASE v # w
    BY <1>4, <1>6, <2>2 DEF Swept
  <2> QED BY <2>1, <2>2
<1>8. ASSUME NEW k \in Job PROVE Cleared(k)'
  <2>1. Cleared(k)
    BY DEF Truly, RowsHold
  <2>2. ASSUME NEW v \in Worker
        PROVE  /\ SweepOwes(v, k)'
               /\ k \notin raced' => SweepsForsaken(v, k)'
               /\ (WillClose(v, k) /\ audit[k].status \in Open) => WillClose(v, k)'
    <3>1. SweepOwes(v, k) /\ (k \notin raced => SweepsForsaken(v, k))
      BY <2>1 DEF Cleared
    <3>2. CASE v # w
      BY <1>1, <1>4, <1>5, <3>1, <3>2 DEF SweepOwes, SweepsForsaken, WillClose
    <3>3. CASE v = w
      <4>1. SweepOwes(w, k)'
        BY <1>1, <1>2, <1>3, <1>4, <3>1, <3>3 DEF SweepOwes
      <4>2. k \notin raced' => SweepsForsaken(w, k)'
        BY <1>1, <1>2, <1>3, <1>4, <1>5, <3>1, <3>3 DEF SweepsForsaken, Open
      <4>3. (WillClose(w, k) /\ audit[k].status \in Open) => WillClose(w, k)'
        BY <1>1, <1>2, <1>3, <1>4, <1>6 DEF WillClose
      <4> QED BY <3>3, <4>1, <4>2, <4>3
    <3> QED BY <3>2, <3>3
  <2>3. k \notin raced' => Closable(k)'
    BY <1>1, <1>5, <2>1, <2>2 DEF Cleared, Closable
  <2> QED BY <2>2, <2>3 DEF Cleared
<1> QED BY <1>5, <1>7, <1>8 DEF RowsHold

LEMMA SweepWritesHolds ==
  ASSUME Truly, NEW w \in Worker, SweepWrites(w)
  PROVE  RowsHold'
<1> DEFINE c == duty[w]
           d == [c EXCEPT !.sweep = "done", !.orphans = {}]
<1>1. /\ c.sweep = "writing" /\ Moves(w, d) /\ raced' = raced
      /\ audit' = Marked(c.orphans, "failed", TRUE)
  BY NothingBreaks DEF SweepWrites, Does
<1>2. /\ d.sweep = "done" /\ d.orphans = {}
      /\ d.submit = c.submit /\ d.stage = c.stage /\ d.reason = c.reason
      /\ d.closing = c.closing /\ d.resets = c.resets /\ d.reopen = c.reopen
      /\ d.known = c.known /\ d.cutoff = c.cutoff /\ d.live = c.live
  <2>1. c \in Duty
    BY DEF Truly, Sane, AuditTypeOK
  <2> QED BY <2>1 DEF Duty
<1> HIDE DEF d
<1>3. /\ duty'[w] = d /\ mem' = mem /\ row' = row /\ submitted' = submitted
      /\ \A u \in Worker \ {w} : duty'[u] = duty[u]
  BY <1>1, MovesDuty
<1>4. /\ \A k \in Job : k \notin c.orphans => audit'[k] = audit[k]
      /\ \A k \in Job : k \in c.orphans => audit'[k] = Failed
  <2> DEFINE S == c.orphans
             status == "failed"
             error == TRUE
  <2>1. audit' = Marked(S, status, error)
    BY <1>1
  <2> HIDE DEF S, status, error
  <2>2. /\ \A k \in Job : k \notin S => audit'[k] = audit[k]
        /\ \A k \in Job : k \in S => audit'[k] = [status |-> status, error |-> error]
    BY <2>1, MarkedFields DEF Truly, Sane
  <2> QED BY <2>2 DEF S, status, error, Failed
<1>5. c.known /\ mem[w].loading = "no" /\ \A v \in Worker : Swept(v)
  BY <1>1 DEF Truly, RowsHold, Swept
<1>6. ASSUME NEW v \in Worker PROVE Swept(v)'
  <2>1. CASE v = w
    BY <1>2, <1>3, <1>5, <2>1 DEF Swept
  <2>2. CASE v # w
    BY <1>3, <1>5, <2>2 DEF Swept
  <2> QED BY <2>1, <2>2
<1>7. ASSUME NEW k \in Job, k \notin c.orphans PROVE Followed(k)' /\ Cleared(k)'
  <2>1. Followed(k)' /\ (Forsaken(k)' <=> Forsaken(k)) /\ audit'[k] = audit[k]
    <3>1. SameDuty(c, d, k)
      BY <1>2 DEF SameDuty
    <3> QED BY <1>1, <1>2, <1>4, <1>7, <3>1, MovesFollowed
  <2>2. Cleared(k)
    BY DEF Truly, RowsHold
  <2>3. ASSUME NEW v \in Worker
        PROVE  /\ SweepOwes(v, k)'
               /\ k \notin raced' => SweepsForsaken(v, k)'
               /\ WillClose(v, k) => WillClose(v, k)'
    <3>1. SweepOwes(v, k) /\ (k \notin raced => SweepsForsaken(v, k))
      BY <2>2 DEF Cleared
    <3>2. CASE v # w
      BY <1>1, <1>3, <2>1, <3>1, <3>2 DEF SweepOwes, SweepsForsaken, WillClose
    <3>3. CASE v = w
      BY <1>1, <1>2, <1>3, <1>5, <1>7, <2>1, <3>1, <3>3 DEF SweepOwes, SweepsForsaken, WillClose
    <3> QED BY <3>2, <3>3
  <2>4. k \notin raced' => Closable(k)'
    BY <1>1, <2>1, <2>2, <2>3 DEF Cleared, Closable
  <2> QED BY <2>1, <2>3, <2>4 DEF Cleared
<1>8. ASSUME NEW k \in Job, k \in c.orphans PROVE Followed(k)' /\ Cleared(k)'
  <2>1. Followed(k) /\ Cleared(k) /\ AllSure
    BY DEF Truly, RowsHold
  <2>2. audit'[k] = Failed /\ audit'[k].status = "failed" /\ audit'[k].status \notin Open
    BY <1>4, <1>8 DEF Failed, Open
  <2>3. \A v \in Worker : /\ duty'[v].submit[k] = duty[v].submit[k]
                          /\ duty'[v].stage[k] = duty[v].stage[k]
                          /\ duty'[v].reason[k] = duty[v].reason[k]
                          /\ duty'[v].closing = duty[v].closing
                          /\ duty'[v].resets = duty[v].resets
                          /\ duty'[v].reopen = duty[v].reopen
                          /\ duty'[v].cutoff = duty[v].cutoff
                          /\ duty'[v].live = duty[v].live
    BY <1>2, <1>3
  <2>4. KnownOnce(k)' /\ SubmittedOnce(k)'
    <3>1. KnownOnce(k)'
      BY <1>3, <2>1 DEF Followed, KnownOnce, InTable
    <3>2. SubmittedOnce(k)'
      BY <1>3, <2>1, <2>2, <2>3 DEF Followed, SubmittedOnce
    <3> QED BY <3>1, <3>2
  <2>5. ASSUME NEW v \in Worker PROVE Submits(v, k)' /\ Owes(v, k)'
    <3>1. Submits(v, k) /\ Owes(v, k)
      BY <2>1 DEF Followed
    <3> QED BY <1>3, <2>2, <2>3, <3>1 DEF Submits, Owes
  <2>6. k \notin raced' => Forsaken(k) /\ audit[k].status # "complete"
    BY <1>1, <1>8, <2>1 DEF Cleared, SweepsForsaken
  <2>7. ASSUME k \notin raced', NEW v \in Worker PROVE Reports(v, k)' /\ Tells(v, k)'
    <3>1. mem[v].ent[k].state # "queued" /\ mem[v].ent[k].state # "running"
      BY <2>1, <2>6, <2>7, WaitingIsHeld DEF Followed
    <3>2. duty'[v].stage[k] = "idle"
      BY <2>1, <2>3, <3>1, IdleStage
    <3>3. Reports(v, k)'
      BY <3>2 DEF Reports
    <3>4. Tells(v, k)
      BY <1>1, <2>1, <2>7 DEF Followed
    <3>5. Tells(v, k)'
      BY <1>3, <2>2, <2>3, <2>6, <2>7, <3>4 DEF Tells, Complete
    <3> QED BY <3>3, <3>5
  <2>8. Minded(k)'
    BY <2>2 DEF Minded
  <2>9. Forsaken(k) => Forsaken(k)'
    BY <1>3, <2>2, <2>3 DEF Forsaken, InTable
  <2>10. ASSUME NEW v \in Worker
         PROVE  SweepOwes(v, k)' /\ (k \notin raced' => SweepsForsaken(v, k)')
    <3>1. SweepOwes(v, k)'
      <4>1. SweepOwes(v, k)
        BY <2>1 DEF Cleared
      <4>2. v # w => duty'[v] = duty[v]
        BY <1>3
      <4> QED BY <1>1, <1>2, <1>3, <2>2, <2>3, <4>1, <4>2 DEF SweepOwes
    <3>2. k \notin raced' => SweepsForsaken(v, k)'
      BY <2>2, <2>6, <2>9 DEF SweepsForsaken
    <3> QED BY <3>1, <3>2
  <2>11. Closable(k)'
    BY <2>2 DEF Closable
  <2> QED BY <2>4, <2>5, <2>7, <2>8, <2>10, <2>11 DEF Followed, Cleared
<1> QED BY <1>6, <1>7, <1>8 DEF RowsHold

LEMMA RecoverReopensHolds ==
  ASSUME Truly, NEW w \in Worker, RecoverReopens(w)
  PROVE  RowsHold'
<1> DEFINE c == duty[w]
           S == c.reopen
           d == [c EXCEPT !.reopen = {}]
           over == { k \in S : mem[w].ent[k].state \in {"cancelled", "failed"} }
<1>1. /\ Moves(w, d) /\ raced' = raced \cup over
      /\ audit' = MarkedKeepingError(S, "pending")
  BY NothingBreaks DEF RecoverReopens, Races
<1>2. /\ d.reopen = {}
      /\ d.submit = c.submit /\ d.stage = c.stage /\ d.reason = c.reason
      /\ d.closing = c.closing /\ d.resets = c.resets /\ d.sweep = c.sweep
      /\ d.known = c.known /\ d.cutoff = c.cutoff /\ d.live = c.live /\ d.orphans = c.orphans
      /\ c \in Duty
  <2>1. c \in Duty
    BY DEF Truly, Sane, AuditTypeOK
  <2> QED BY <2>1 DEF Duty
<1>3. /\ raced \subseteq raced'
      /\ \A k \in S : k \notin raced' => mem[w].ent[k].state # "cancelled"
  BY <1>1
<1> HIDE DEF d, over, S
<1>4. /\ duty'[w] = d /\ mem' = mem /\ row' = row /\ submitted' = submitted
      /\ \A u \in Worker \ {w} : duty'[u] = duty[u]
  BY <1>1, MovesDuty
<1>5. /\ \A k \in Job : k \notin S => audit'[k] = audit[k]
      /\ \A k \in Job : k \in S => audit'[k].status = "pending"
  <2> DEFINE status == "pending"
  <2>1. audit' = MarkedKeepingError(S, status)
    BY <1>1
  <2>2. \A k \in Job : audit[k] \in AuditRow
    BY DEF Truly, Sane, AuditTypeOK
  <2> HIDE DEF status
  <2>3. /\ \A k \in Job : k \notin S => audit'[k] = audit[k]
        /\ \A k \in Job : k \in S => audit'[k].status = status
    BY <2>1, <2>2 DEF MarkedKeepingError, AuditRow
  <2> QED BY <2>3 DEF status
<1>6. \A v \in Worker : Swept(v)
  BY DEF Truly, RowsHold
<1>7. ASSUME NEW v \in Worker PROVE Swept(v)'
  <2>1. CASE v = w
    BY <1>2, <1>4, <1>6, <2>1 DEF Swept
  <2>2. CASE v # w
    BY <1>4, <1>6, <2>2 DEF Swept
  <2> QED BY <2>1, <2>2
<1>8. ASSUME NEW k \in Job, k \notin S PROVE Followed(k)' /\ Cleared(k)'
  <2>1. SameDuty(c, d, k) /\ SameSweep(c, d, k) /\ audit'[k] = audit[k]
    BY <1>2, <1>5, <1>8 DEF SameDuty, SameSweep, S
  <2>2. RowStill(k) /\ \A v \in Worker : StillAt(v, k)
    BY <1>1, <1>2, <2>1, MovesStill
  <2>3. \A v \in Worker : SameSweep(duty[v], duty'[v], k)
    <3>1. \A v \in Worker : v # w => SameSweep(duty[v], duty'[v], k)
      BY <1>4 DEF SameSweep
    <3> QED BY <1>4, <2>1, <3>1
  <2>4. Followed(k) /\ Cleared(k) /\ AllSure /\ AllSure'
    BY DEF Truly, RowsHold
  <2> QED BY <1>3, <2>1, <2>2, <2>3, <2>4, QuietFollowed, QuietCleared
<1>9. ASSUME NEW k \in Job, k \in S PROVE Followed(k)' /\ Cleared(k)'
  <2>1. Followed(k) /\ Cleared(k) /\ AllSure /\ AllSure' /\ Submits(w, k) /\ Owes(w, k)
    BY DEF Truly, RowsHold, Followed
  <2>2. audit'[k].status = "pending"
    BY <1>5, <1>9
  <2>3. /\ mem[w].ent[k].state = "queued" \/ mem[w].ent[k].state = "cancelled"
        /\ k \notin raced' => mem[w].ent[k].state = "queued"
        /\ Known(mem[w], k)
    BY <1>3, <1>9, <2>1 DEF Owes, S, Known
  <2>4. (Submits(w, k) /\ Owes(w, k))'
    <3>1. Submits(w, k)'
      BY <1>2, <1>4, <2>1, <2>2 DEF Submits
    <3>2. Owes(w, k)'
      BY <1>2, <1>4, <2>1 DEF Owes
    <3> QED BY <3>1, <3>2
  <2>5. ASSUME k \notin raced'
        PROVE  (Reports(w, k) /\ Tells(w, k) /\ Minded(k))'
    <3>1. duty'[w].stage[k] = "idle"
      BY <1>2, <1>4, <2>1, <2>3, <2>5, IdleStage
    <3>2. Reports(w, k)'
      BY <3>1 DEF Reports
    <3>3. Tells(w, k)'
      BY <1>4, <2>3, <2>5 DEF Tells, Ended, Terminal
    <3>4. Minded(k)'
      BY <2>2 DEF Minded
    <3> QED BY <3>2, <3>3, <3>4
  <2>6. Followed(k)'
    <3>1. \A v \in Worker \ {w} : StillAt(v, k)
      BY <1>4, <2>1, StaysStill
    <3> QED BY <1>4, <2>1, <2>2, <2>3, <2>4, <2>5, <3>1, TurnFollowed
  <2>7. Cleared(k)'
    <3>1. \A v \in Worker : /\ SameSweep(duty[v], duty'[v], k)
                            /\ k \in duty'[v].reopen => k \in duty[v].reopen
                            /\ duty'[v].submit[k] = duty[v].submit[k]
      BY <1>2, <1>4 DEF SameSweep
    <3>2. ASSUME k \notin raced' PROVE ~Forsaken(k) /\ ~Forsaken(k)'
      <4>1. ~Forsaken(k)
        BY <2>1, <2>3, <3>2, WaitingIsHeld
      <4>2. audit[k].status # "none"
        BY <2>1, <2>3 DEF AllSure, Sure, RowSure, Followed, SubmittedOnce
      <4> QED BY <1>4, <3>1, <4>1, <4>2 DEF Forsaken, InTable
    <3> QED BY <1>3, <2>1, <2>2, <3>1, <3>2, HeldCleared
  <2> QED BY <2>6, <2>7
<1> QED BY <1>7, <1>8, <1>9 DEF RowsHold

-----------------------------------------------------------------------------
(* Steps of the queue.                                                     *)

LEMMA CarriesDuty ==
  ASSUME Truly, NEW w \in Worker, NEW d \in Duty, Carries(w, d)
  PROVE  LET a == duty'[w]
         IN /\ a.submit = d.submit /\ a.closing = d.closing /\ a.resets = d.resets
            /\ a.reopen = d.reopen /\ a.known = d.known /\ a.cutoff = d.cutoff
            /\ a.sweep = d.sweep /\ a.live = d.live /\ a.orphans = d.orphans
            /\ \A v \in Worker \ {w} : duty'[v] = duty[v]
<1> DEFINE n == mem'[w]
           a == Attend(d, n)
<1>1. duty'[w] = a /\ \A v \in Worker \ {w} : duty'[v] = duty[v]
  BY DEF Truly, Sane, AuditTypeOK, Carries
<1>2. n \in Memory
  BY DEF Truly, Sane, IInv, TypeOK
<1> HIDE DEF n
<1>3. /\ a.submit = d.submit /\ a.closing = d.closing /\ a.resets = d.resets
      /\ a.reopen = d.reopen /\ a.known = d.known /\ a.cutoff = d.cutoff
      /\ a.sweep = d.sweep /\ a.live = d.live /\ a.orphans = d.orphans
  BY <1>2 DEF Attend, Duty
<1> QED BY <1>1, <1>3

(* All but the jobs X are left as they were.                               *)
LEMMA CarriesAround ==
  ASSUME Truly, NEW w \in Worker, NEW d \in Duty, Carries(w, d), NEW X,
         GoesOn(mem[w], mem'[w], X),
         \A v \in Worker \ {w} : mem'[v] = mem[v],
         d.stage = duty[w].stage, d.reason = duty[w].reason, d.reopen = duty[w].reopen,
         d.known = duty[w].known, d.cutoff = duty[w].cutoff, d.sweep = duty[w].sweep,
         d.live = duty[w].live, d.orphans = duty[w].orphans,
         raced \subseteq raced',
         \A k \in Job : k \notin X =>
           /\ d.submit[k] = duty[w].submit[k]
           /\ k \in d.closing <=> k \in duty[w].closing
           /\ k \in d.resets <=> k \in duty[w].resets
           /\ RowStill(k) /\ audit'[k] = audit[k],
         \A k \in Job : k \in X => Followed(k)' /\ Cleared(k)'
  PROVE  RowsHold'
<1>1. /\ duty'[w].reopen = d.reopen /\ duty'[w].known = d.known /\ duty'[w].cutoff = d.cutoff
      /\ duty'[w].sweep = d.sweep /\ duty'[w].live = d.live /\ duty'[w].orphans = d.orphans
      /\ \A v \in Worker \ {w} : duty'[v] = duty[v]
  BY CarriesDuty
<1>2. ASSUME NEW v \in Worker PROVE Swept(v)'
  <2>1. Swept(v)
    BY DEF Truly, RowsHold
  <2>2. CASE v = w
    <3>1. mem'[w].loading = mem[w].loading
      BY DEF GoesOn, Flags
    <3> QED BY <1>1, <2>1, <2>2, <3>1 DEF Swept
  <2>3. CASE v # w
    BY <1>1, <2>1, <2>3 DEF Swept
  <2> QED BY <2>2, <2>3
<1>3. ASSUME NEW k \in Job, k \notin X PROVE Followed(k)' /\ Cleared(k)'
  <2>1. Followed(k) /\ Cleared(k) /\ AllSure /\ AllSure' /\ Owes(w, k)
    BY DEF Truly, RowsHold, Followed
  <2>2. Steps(mem[w], mem'[w], k) /\ Heads(mem[w], mem'[w], k)
        /\ (mem[w].paused => Rests(mem[w], mem'[w], k)) /\ Flags(mem[w], mem'[w])
    BY <1>3 DEF GoesOn
  <2>3. \A v \in Worker : StillAt(v, k)
    <3>1. SameDuty(duty[w], d, k)
      BY <1>3 DEF SameDuty
    <3>2. k \in duty[w].reopen => mem'[w].paused /\ Rests(mem[w], mem'[w], k)
      BY <2>1, <2>2 DEF Owes, Flags
    <3>3. mem'[w].up = mem[w].up /\ (mem[w].closed => mem'[w].closed)
      BY <2>2 DEF Flags
    <3> QED BY <2>2, <3>1, <3>2, <3>3, CarriesStill
  <2>4. \A v \in Worker : SameSweep(duty[v], duty'[v], k)
    <3>1. \A v \in Worker : v # w => SameSweep(duty[v], duty'[v], k)
      BY <1>1 DEF SameSweep
    <3>2. SameSweep(duty[w], duty'[w], k)
      BY <1>1 DEF SameSweep
    <3> QED BY <3>1, <3>2
  <2>5. RowStill(k) /\ audit'[k] = audit[k]
    BY <1>3
  <2> QED BY <2>1, <2>3, <2>4, <2>5, QuietFollowed, QuietCleared
<1> QED BY <1>2, <1>3 DEF RowsHold

(* A queue that moves is w's.                                              *)
LEMMA QueueMoves ==
  ASSUME Truly, NEW w \in Worker, NEW n, Becomes(w, n)
  PROVE  mem'[w] = n /\ \A v \in Worker \ {w} : mem'[v] = mem[v]
BY BecomesIt DEF Truly, Sane, IInv

(* The stage and the reason a job is left with.                            *)
LEMMA CarriesStage ==
  ASSUME Truly, NEW w \in Worker, NEW d \in Duty, Carries(w, d), NEW k \in Job
  PROVE  /\ mem'[w].ent[k].state # "running" => duty'[w].stage[k] = "idle"
         /\ k \in mem'[w].active =>
              IF d.stage[k] \in {"idle", "reopened"}
              THEN ~mem'[w].ent[k].cancelRequested => duty'[w].stage[k] = "starting"
              ELSE duty'[w].stage[k] = d.stage[k]
         /\ (k \notin mem'[w].active /\ k \in mem'[w].deciding) =>
              duty'[w].stage[k] = IF d.stage[k] = "threw" THEN "asked" ELSE d.stage[k]
         /\ d.reason[k] # "lost" => duty'[w].reason[k] # "lost"
<1> DEFINE n == mem'[w]
           a == Attend(d, n)
<1>1. duty'[w] = a
  BY DEF Truly, Sane, AuditTypeOK, Carries
<1>2. n \in Memory
  BY DEF Truly, Sane, IInv, TypeOK
<1>3. EntrySure(n, k)
  BY DEF Truly, AllSure, Sure
<1>4. /\ a.stage[k] =
           (CASE k \in n.active /\ d.stage[k] \in {"idle", "reopened"} -> Begins(n.ent[k])
              [] k \in n.active /\ d.stage[k] \notin {"idle", "reopened"} -> d.stage[k]
              [] k \in n.deciding -> IF d.stage[k] = "threw" THEN "asked" ELSE d.stage[k]
              [] OTHER -> "idle")
      /\ a.reason[k] =
           (CASE k \notin n.active -> "none"
              [] k \in n.active /\ d.reason[k] # "none" -> d.reason[k]
              [] OTHER -> IF LeaseLost(n.ent[k]) THEN "lost"
                          ELSE IF n.ent[k].cancelRequested THEN "cancel" ELSE "none")
  BY <1>2, AttendFields
<1> HIDE DEF a, n
<1>5. n.ent[k].state # "running" => a.stage[k] = "idle"
  BY <1>3, <1>4 DEF EntrySure
<1>6. k \in n.active =>
        IF d.stage[k] \in {"idle", "reopened"}
        THEN ~n.ent[k].cancelRequested => a.stage[k] = "starting"
        ELSE a.stage[k] = d.stage[k]
  <2>1. k \in n.active => k \notin n.deciding /\ ~LeaseLost(n.ent[k])
    BY <1>3 DEF EntrySure, LeaseLost
  <2>2. (k \in n.active /\ d.stage[k] \in {"idle", "reopened"}) => a.stage[k] = Begins(n.ent[k])
    BY <1>4, <2>1
  <2>3. (k \in n.active /\ d.stage[k] \notin {"idle", "reopened"}) => a.stage[k] = d.stage[k]
    BY <1>4, <2>1
  <2> QED BY <2>1, <2>2, <2>3 DEF Begins
<1>7. (k \notin n.active /\ k \in n.deciding) =>
        a.stage[k] = IF d.stage[k] = "threw" THEN "asked" ELSE d.stage[k]
  BY <1>4
<1>8. d.reason[k] # "lost" => a.reason[k] # "lost"
  <2>1. k \in n.active => ~LeaseLost(n.ent[k])
    BY <1>3 DEF EntrySure, LeaseLost
  <2> QED BY <1>4, <2>1
<1> QED BY <1>1, <1>5, <1>6, <1>7, <1>8 DEF n

(* A step about a job that w knows, and that waits or runs before it.      *)
LEMMA CarriesTurn ==
  ASSUME Truly, NEW w \in Worker, NEW j \in Job, NEW d \in Duty, Carries(w, d),
         GoesOn(mem[w], mem'[w], {j}), \A v \in Worker \ {w} : mem'[v] = mem[v],
         row' = row, submitted' = submitted, audit' = audit, raced \subseteq raced',
         d.submit = duty[w].submit, d.stage = duty[w].stage, d.reason = duty[w].reason,
         d.resets = duty[w].resets, d.reopen = duty[w].reopen, d.known = duty[w].known,
         d.cutoff = duty[w].cutoff, d.sweep = duty[w].sweep, d.live = duty[w].live,
         d.orphans = duty[w].orphans,
         \A k \in Job : k # j => (k \in d.closing <=> k \in duty[w].closing),
         mem[w].ent[j].state = "queued" \/ mem[w].ent[j].state = "running",
         Known(mem'[w], j), mem'[w].ent[j].durability = mem[w].ent[j].durability,
         j \in d.closing => mem'[w].ent[j].state = "cancelled",
         j \in d.reopen => /\ j \notin mem'[w].starting
                           /\ \/ mem'[w].ent[j].state = "queued"
                              \/ mem'[w].ent[j].state = "cancelled",
         j \notin raced' => (Reports(w, j) /\ Tells(w, j) /\ Minded(j))'
  PROVE  RowsHold'
<1>1. /\ duty'[w].submit = d.submit /\ duty'[w].closing = d.closing
      /\ duty'[w].resets = d.resets /\ duty'[w].reopen = d.reopen /\ duty'[w].known = d.known
      /\ duty'[w].cutoff = d.cutoff /\ duty'[w].sweep = d.sweep /\ duty'[w].live = d.live
      /\ duty'[w].orphans = d.orphans
      /\ \A v \in Worker \ {w} : duty'[v] = duty[v]
  BY CarriesDuty
<1>2. /\ Followed(j) /\ Cleared(j) /\ AllSure /\ AllSure' /\ Submits(w, j) /\ Owes(w, j)
      /\ Sure(w, j)
  BY DEF Truly, RowsHold, Followed, AllSure
<1>3. Flags(mem[w], mem'[w]) /\ Heads(mem[w], mem'[w], j)
  BY DEF GoesOn
<1>4. Known(mem[w], j) /\ audit[j].status # "none" /\ j \in submitted
  <2>1. Known(mem[w], j)
    BY DEF Known
  <2>2. j \in submitted
    BY <1>2, <2>1 DEF Sure, RowSure
  <2> QED BY <1>2, <2>1, <2>2 DEF Followed, SubmittedOnce
<1>5. Submits(w, j)'
  <2>1. duty'[w].submit[j] = duty[w].submit[j]
    BY <1>1
  <2> QED BY <1>2, <1>3, <2>1 DEF Submits, Flags, Heads
<1>6. Owes(w, j)'
  <2>1. duty'[w].reason[j] # "lost"
    BY <1>2, CarriesStage DEF Owes
  <2>2. j \in duty[w].reopen => mem'[w].paused
    BY <1>2, <1>3 DEF Owes, Flags
  <2> QED BY <1>1, <2>1, <2>2 DEF Owes
<1>7. Followed(j)'
  <2>1. \A v \in Worker \ {w} : StillAt(v, j)
    BY <1>1, <1>2, StaysStill
  <2> QED BY <1>2, <1>4, <1>5, <1>6, <2>1, TurnFollowed
<1>8. Cleared(j)'
  <2>1. \A v \in Worker : /\ SameSweep(duty[v], duty'[v], j)
                          /\ j \in duty'[v].reopen => j \in duty[v].reopen
                          /\ duty'[v].submit[j] = duty[v].submit[j]
    BY <1>1 DEF SameSweep
  <2>2. ~Forsaken(j)
    BY <1>2, WaitingIsHeld
  <2>3. ~Forsaken(j)'
    BY <1>4, <2>1, <2>2 DEF Forsaken, InTable
  <2> QED BY <1>2, <1>4, <2>1, <2>2, <2>3, HeldCleared
<1> DEFINE X == {j}
<1>9. /\ \A k \in Job : k \notin X => k # j
      /\ \A k \in Job : k \in X => k = j
      /\ GoesOn(mem[w], mem'[w], X)
  OBVIOUS
<1> HIDE DEF X
<1>10. \A k \in Job : k \notin X =>
           /\ d.submit[k] = duty[w].submit[k]
           /\ k \in d.closing <=> k \in duty[w].closing
           /\ k \in d.resets <=> k \in duty[w].resets
           /\ RowStill(k) /\ audit'[k] = audit[k]
  <2>1. \A k \in Job : RowStill(k)
    BY DEF RowStill, InTable
  <2> QED BY <1>9, <2>1
<1>11. \A k \in Job : k \in X => Followed(k)' /\ Cleared(k)'
  BY <1>7, <1>8, <1>9
<1> QED BY <1>9, <1>10, <1>11, CarriesAround

(* What says that an audit runs is here, when the job is.                  *)
LEMMA MindedHere ==
  ASSUME Truly, NEW w \in Worker, NEW j \in Job, Known(mem[w], j), InTable(j),
         audit[j].status = "running", j \notin raced
  PROVE  j \in mem[w].active \cup duty[w].reopen \cup duty[w].resets
<1>1. Followed(j)
  BY DEF Truly, RowsHold
<1>2. PICK v \in Worker : WillRun(v, j)
  BY <1>1 DEF Followed, Minded
<1>3. AllSure /\ Sure(v, j) /\ Sure(w, j)
  BY DEF Truly, AllSure
<1>4. row[j].owner = w
  BY <1>3 DEF Sure, RowSure
<1>5. j \in mem[v].active \cup duty[v].reopen \cup duty[v].resets
  BY <1>2, <1>4 DEF WillRun
<1>6. Known(mem[v], j)
  BY <1>1, <1>3, <1>5 DEF Sure, EntrySure, Known, Followed, Owes
<1>7. v = w
  BY <1>1, <1>6 DEF Followed, KnownOnce
<1> QED BY <1>5, <1>7

LEMMA RunReturnedHolds ==
  ASSUME Truly, NEW w \in Worker, NEW j \in Job, RunReturned(w, j)
  PROVE  RowsHold'
<1> DEFINE d == duty[w]
           m == mem[w]
           n == mem'[w]
<1>1. /\ d.stage[j] = "returned" /\ HandlerReturns(w, j) /\ Carries(w, d)
      /\ raced' = raced /\ audit' = audit /\ d \in Duty /\ IInv /\ Founded
  BY DEF RunReturned, Follows, Truly, Sane, AuditTypeOK
<1>2. GoesOn(m, n, {j}) /\ SettledAs(m, n, j, IF m.ent[j].cancelRequested THEN "cancelled" ELSE "complete")
  BY <1>1, HandlerReturnsGoesOn
<1>3. row' = row /\ submitted' = submitted /\ \A v \in Worker \ {w} : mem'[v] = mem[v]
  BY <1>1, QueueMoves DEF HandlerReturns
<1>4. m.ent[j].state = "running" /\ (j \notin raced => audit[j] = Complete)
  BY <1>1, UnderWay DEF Handling, Says
<1>5. Owes(w, j)
  BY DEF Truly, RowsHold, Followed
<1>6. n.ent[j].state = (IF m.ent[j].cancelRequested THEN "cancelled" ELSE "complete")
      /\ n.ent[j].durability = m.ent[j].durability
  BY <1>2 DEF SettledAs
<1>7. d.stage[j] = "returned" /\ duty'[w].stage[j] = "idle"
  BY <1>1, <1>6, CarriesStage
<1>8. ASSUME j \notin raced' PROVE (Reports(w, j) /\ Tells(w, j) /\ Minded(j))'
  <2>1. audit'[j] = Complete /\ audit'[j].status = "complete"
    BY <1>1, <1>4, <1>8 DEF Complete
  <2>2. Reports(w, j)'
    BY <1>7 DEF Reports
  <2>3. Tells(w, j)'
    BY <1>6, <2>1 DEF Tells, Open
  <2>4. Minded(j)'
    BY <2>1 DEF Minded
  <2> QED BY <2>2, <2>3, <2>4
<1>9. j \notin d.closing /\ j \notin d.reopen
  BY <1>4, <1>5 DEF Owes
<1>10. Known(n, j)
  BY <1>6 DEF Known
<1> QED BY <1>1, <1>2, <1>3, <1>4, <1>6, <1>8, <1>9, <1>10, CarriesTurn

LEMMA RunThrewHolds ==
  ASSUME Truly, NEW w \in Worker, NEW j \in Job, RunThrew(w, j)
  PROVE  RowsHold'
<1> DEFINE d == duty[w]
           m == mem[w]
           n == mem'[w]
<1>1. /\ d.stage[j] = "threw" /\ HandlerThrows(w, j) /\ Carries(w, d)
      /\ raced' = raced /\ audit' = audit /\ d \in Duty /\ IInv /\ Founded
  BY DEF RunThrew, Follows, Truly, Sane, AuditTypeOK
<1>2. /\ GoesOn(m, n, {j})
      /\ \/ m.ent[j].cancelRequested /\ SettledAs(m, n, j, "cancelled")
         \/ m.closed /\ SettledAs(m, n, j, "failed")
         \/ ~m.closed /\ SettledAs(m, n, j, "running")
  BY <1>1, HandlerThrowsGoesOn
<1>3. row' = row /\ submitted' = submitted /\ \A v \in Worker \ {w} : mem'[v] = mem[v]
  BY <1>1, QueueMoves DEF HandlerThrows
<1>4. /\ m.ent[j].state = "running"
      /\ j \notin raced => \/ audit[j] = Failed
                           \/ m.ent[j].cancelRequested /\ audit[j].status \notin Open
  BY <1>1, UnderWay DEF Handling, Says
<1>5. Owes(w, j)
  BY DEF Truly, RowsHold, Followed
<1>6. /\ \/ n.ent[j].state = "cancelled"
         \/ m.closed /\ n.ent[j].state = "failed"
         \/ n.ent[j].state = "running"
      /\ n.ent[j].durability = m.ent[j].durability
      /\ n.ent[j].cancelRequested = m.ent[j].cancelRequested
      /\ n.closed = m.closed
  BY <1>2 DEF SettledAs, GoesOn, Flags
<1>7. \/ duty'[w].stage[j] = "idle" \/ duty'[w].stage[j] = "threw" \/ duty'[w].stage[j] = "asked"
  <2>1. EntrySure(n, j)
    BY DEF Truly, AllSure, Sure
  <2> QED BY <1>1, <2>1, CarriesStage DEF EntrySure
<1>8. ASSUME j \notin raced' PROVE (Reports(w, j) /\ Tells(w, j) /\ Minded(j))'
  <2>1. /\ audit'[j].status # "running" /\ audit'[j].status \notin Open
        /\ \/ audit'[j] = Failed
           \/ n.ent[j].cancelRequested /\ audit'[j].status \notin Open
    BY <1>1, <1>4, <1>6, <1>8 DEF Failed, Open
  <2>2. Reports(w, j)'
    BY <1>7, <2>1 DEF Reports
  <2>3. Tells(w, j)'
    BY <1>6, <2>1 DEF Tells, Ended, Terminal
  <2>4. Minded(j)'
    BY <2>1 DEF Minded
  <2> QED BY <2>2, <2>3, <2>4
<1>9. j \notin d.closing /\ j \notin d.reopen
  BY <1>4, <1>5 DEF Owes
<1>10. Known(n, j)
  BY <1>6 DEF Known
<1> QED BY <1>1, <1>2, <1>3, <1>4, <1>6, <1>8, <1>9, <1>10, CarriesTurn

LEMMA RetryDecidedHolds ==
  ASSUME Truly, NEW w \in Worker, NEW j \in Job, RetryDecided(w, j)
  PROVE  RowsHold'
<1> DEFINE d == duty[w]
           m == mem[w]
           n == mem'[w]
<1>1. /\ d.stage[j] \in {"asked", "reopened", "unopened"} /\ PolicyAnswers(w, j) /\ Carries(w, d)
      /\ IF d.stage[j] = "reopened" THEN n.ent[j].state # "failed" ELSE n.ent[j].state # "queued"
      /\ raced' = raced /\ audit' = audit /\ d \in Duty /\ IInv /\ Founded
  BY DEF RetryDecided, Follows, Truly, Sane, AuditTypeOK
<1>2. /\ GoesOn(m, n, {j})
      /\ \/ m.ent[j].cancelRequested /\ SettledAs(m, n, j, "cancelled")
         \/ /\ ~m.ent[j].cancelRequested
            /\ \E state \in {"queued", "failed"} : SettledAs(m, n, j, state)
  BY <1>1, PolicyAnswersGoesOn
<1>3. row' = row /\ submitted' = submitted /\ \A v \in Worker \ {w} : mem'[v] = mem[v]
  BY <1>1, QueueMoves DEF PolicyAnswers
<1>4. /\ m.ent[j].state = "running"
      /\ j \notin raced => Says(audit[j], m.ent[j].cancelRequested, d.stage[j])
  BY <1>1, UnderWay DEF Deciding
<1>5. Owes(w, j)
  BY DEF Truly, RowsHold, Followed
<1>6. /\ \/ m.ent[j].cancelRequested /\ n.ent[j].state = "cancelled"
         \/ ~m.ent[j].cancelRequested /\ n.ent[j].state = "failed"
         \/ ~m.ent[j].cancelRequested /\ n.ent[j].state = "queued"
      /\ n.ent[j].durability = m.ent[j].durability
  BY <1>2 DEF SettledAs
<1>7. duty'[w].stage[j] = "idle"
  BY <1>1, <1>6, CarriesStage
<1>8. ASSUME j \notin raced' PROVE (Reports(w, j) /\ Tells(w, j) /\ Minded(j))'
  <2>1. Says(audit'[j], m.ent[j].cancelRequested, d.stage[j])
    BY <1>1, <1>4, <1>8
  <2>2. Reports(w, j)'
    BY <1>7 DEF Reports
  <2>3. Tells(w, j)' /\ audit'[j].status # "running"
    <3>1. CASE d.stage[j] = "asked"
      <4>1. audit'[j] = Failed \/ (m.ent[j].cancelRequested /\ audit'[j].status \notin Open)
        BY <2>1, <3>1 DEF Says
      <4> QED BY <1>6, <4>1 DEF Tells, Failed, Open
    <3>2. CASE d.stage[j] = "reopened"
      <4>1. ~m.ent[j].cancelRequested /\ audit'[j].status = "pending"
        BY <2>1, <3>2 DEF Says
      <4>2. n.ent[j].state = "queued"
        BY <1>1, <1>6, <3>2, <4>1
      <4> QED BY <4>1, <4>2 DEF Tells, Ended, Terminal
    <3>3. d.stage[j] # "unopened"
      BY <2>1 DEF Says
    <3> QED BY <1>1, <3>1, <3>2, <3>3
  <2>4. Minded(j)'
    BY <2>3 DEF Minded
  <2> QED BY <2>2, <2>3, <2>4
<1>9. j \notin d.closing /\ j \notin d.reopen
  BY <1>4, <1>5 DEF Owes
<1>10. Known(n, j)
  BY <1>6 DEF Known
<1> QED BY <1>1, <1>2, <1>3, <1>4, <1>6, <1>8, <1>9, <1>10, CarriesTurn

LEMMA CancelWaitingHolds ==
  ASSUME Truly, NEW w \in Worker, NEW j \in Job, CancelWaiting(w, j)
  PROVE  RowsHold'
<1> DEFINE c == duty[w]
           d == [c EXCEPT !.closing = @ \cup {j}]
           m == mem[w]
           n == mem'[w]
<1>1. /\ CancelQueued(w, j) /\ Carries(w, d) /\ raced' = raced /\ audit' = audit
      /\ c \in Duty /\ IInv /\ Founded
  BY DEF CancelWaiting, Follows, Truly, Sane, AuditTypeOK
<1>2. /\ d \in Duty /\ d.closing = c.closing \cup {j}
      /\ d.submit = c.submit /\ d.stage = c.stage /\ d.reason = c.reason
      /\ d.resets = c.resets /\ d.reopen = c.reopen /\ d.known = c.known
      /\ d.cutoff = c.cutoff /\ d.sweep = c.sweep /\ d.live = c.live
      /\ d.orphans = c.orphans
  BY <1>1 DEF Duty
<1> HIDE DEF d
<1>3. GoesOn(m, n, {j}) /\ SettledAs(m, n, j, "cancelled")
  BY <1>1, CancelQueuedGoesOn
<1>4. row' = row /\ submitted' = submitted /\ \A v \in Worker \ {w} : mem'[v] = mem[v]
  BY <1>1, QueueMoves DEF CancelQueued
<1>5. m.ent[j].state = "queued" /\ Known(m, j)
  BY <1>1 DEF CancelQueued, Known
<1>6. /\ n.ent[j].state = "cancelled" /\ n.ent[j].durability = m.ent[j].durability
      /\ m.paused => (j \in n.starting => j \in m.starting)
  BY <1>3 DEF SettledAs
<1>7. Owes(w, j) /\ EntrySure(m, j)
  BY DEF Truly, RowsHold, Followed, AllSure, Sure
<1>8. /\ duty'[w].stage[j] = "idle" /\ j \in duty'[w].closing
      /\ duty'[w].resets = c.resets /\ duty'[w].reopen = c.reopen
  BY <1>1, <1>2, <1>6, CarriesStage, CarriesDuty
<1>9. ASSUME j \notin raced' PROVE (Reports(w, j) /\ Tells(w, j) /\ Minded(j))'
  <2>1. Reports(w, j)'
    BY <1>8 DEF Reports
  <2>2. Tells(w, j)'
    BY <1>8 DEF Tells
  <2>3. Minded(j)'
    <3> SUFFICES ASSUME audit'[j].status = "running", InTable(j)' PROVE WillRun(w, j)'
      BY DEF Minded
    <3>1. audit[j].status = "running" /\ InTable(j) /\ j \notin raced
      BY <1>1, <1>4, <1>9 DEF InTable
    <3>2. j \in m.active \cup c.reopen \cup c.resets
      BY <1>5, <3>1, MindedHere
    <3>3. j \notin m.active
      BY <1>5, <1>7 DEF EntrySure
    <3> QED BY <1>8, <3>2, <3>3 DEF WillRun
  <2> QED BY <2>1, <2>2, <2>3
<1>10. j \in d.reopen => j \notin n.starting
  BY <1>2, <1>6, <1>7 DEF Owes
<1>11. Known(n, j)
  BY <1>6 DEF Known
<1>12. \A k \in Job : k # j => (k \in d.closing <=> k \in c.closing)
  BY <1>2
<1> QED BY <1>1, <1>2, <1>3, <1>4, <1>5, <1>6, <1>9, <1>10, <1>11, <1>12, CarriesTurn

LEMMA CancelStartedHolds ==
  ASSUME Truly, NEW w \in Worker, NEW j \in Job, CancelStarted(w, j)
  PROVE  RowsHold'
<1> DEFINE d == duty[w]
           m == mem[w]
           n == mem'[w]
           hit == IF d.stage[j] \in {"reopening", "reopened"} THEN {j} ELSE {}
<1>1. /\ CancelRunning(w, j) /\ Carries(w, d) /\ raced' = raced \cup hit /\ audit' = audit
      /\ d \in Duty /\ IInv /\ Founded
  BY DEF CancelStarted, Races, Truly, Sane, AuditTypeOK
<1>2. /\ raced \subseteq raced'
      /\ j \notin raced' => /\ j \notin raced
                            /\ d.stage[j] # "reopening" /\ d.stage[j] # "reopened"
  BY <1>1
<1> HIDE DEF hit
<1>3. /\ GoesOn(m, n, {j})
      /\ n.ent[j].state = "running" /\ m.ent[j].state = "running"
      /\ n.ent[j].durability = m.ent[j].durability /\ n.ent[j].cancelRequested
  BY <1>1, CancelRunningGoesOn
<1>4. row' = row /\ submitted' = submitted /\ \A v \in Worker \ {w} : mem'[v] = mem[v]
  BY <1>1, QueueMoves DEF CancelRunning
<1>5. n.active = m.active /\ n.deciding = m.deciding
  <2>1. n = [m EXCEPT !.ent[j].cancelRequested = TRUE] /\ m \in Memory
    BY <1>1, QueueMoves DEF CancelRunning, IInv, TypeOK
  <2> HIDE DEF n, m
  <2> QED BY <2>1 DEF Memory
<1>6. Owes(w, j) /\ EntrySure(m, j) /\ DutySure(d, m, j) /\ EntrySure(n, j)
  BY DEF Truly, RowsHold, Followed, AllSure, Sure
<1>7. duty'[w].stage[j] = d.stage[j]
  <2>1. CASE j \in m.active
    <3>1. d.stage[j] \notin {"idle", "reopened"}
      BY <1>6, <2>1 DEF DutySure, Handling
    <3> QED BY <1>1, <1>5, <2>1, <3>1, CarriesStage
  <2>2. CASE j \notin m.active
    <3>1. j \in m.deciding
      BY <1>3, <1>6, <2>2 DEF EntrySure
    <3>2. d.stage[j] # "threw"
      BY <1>6, <3>1 DEF DutySure, Deciding
    <3> QED BY <1>1, <1>5, <2>2, <3>1, <3>2, CarriesStage
  <2> QED BY <2>1, <2>2
<1>8. ASSUME j \notin raced' PROVE (Reports(w, j) /\ Tells(w, j) /\ Minded(j))'
  <2>1. Reports(w, j)
    BY <1>2, <1>8 DEF Truly, RowsHold, Followed
  <2>2. Reports(w, j)'
    BY <1>1, <1>2, <1>3, <1>7, <1>8, <2>1 DEF Reports
  <2>3. Tells(w, j)'
    BY <1>3 DEF Tells, Ended, Terminal
  <2>4. Minded(j)'
    <3> SUFFICES ASSUME audit'[j].status = "running", InTable(j)' PROVE WillRun(w, j)'
      BY DEF Minded
    <3>1. audit[j].status = "running" /\ InTable(j) /\ j \notin raced
      BY <1>1, <1>2, <1>4, <1>8 DEF InTable
    <3>2. Known(m, j)
      BY <1>3 DEF Known
    <3>3. j \in m.active \cup d.reopen \cup d.resets
      BY <3>1, <3>2, MindedHere
    <3>4. duty'[w].resets = d.resets /\ duty'[w].reopen = d.reopen
      BY <1>1, CarriesDuty
    <3> QED BY <1>5, <3>3, <3>4 DEF WillRun
  <2> QED BY <2>2, <2>3, <2>4
<1>9. j \notin d.closing /\ j \notin d.reopen
  BY <1>3, <1>6 DEF Owes
<1>10. Known(n, j)
  BY <1>3 DEF Known
<1> QED BY <1>1, <1>2, <1>3, <1>4, <1>8, <1>9, <1>10, CarriesTurn

(* A step of a queue about a single job.                                   *)
LEMMA CarriesOnly ==
  ASSUME Truly, NEW w \in Worker, NEW j \in Job, NEW d \in Duty, Carries(w, d),
         GoesOn(mem[w], mem'[w], {j}), \A v \in Worker \ {w} : mem'[v] = mem[v],
         row' = row, \A k \in Job : k # j => (k \in submitted <=> k \in submitted'),
         audit' = audit, raced' = raced,
         d.stage = duty[w].stage, d.reason = duty[w].reason, d.closing = duty[w].closing,
         d.resets = duty[w].resets, d.reopen = duty[w].reopen, d.known = duty[w].known,
         d.cutoff = duty[w].cutoff, d.sweep = duty[w].sweep, d.live = duty[w].live,
         d.orphans = duty[w].orphans,
         \A k \in Job : k # j => d.submit[k] = duty[w].submit[k],
         Followed(j)', Cleared(j)'
  PROVE  RowsHold'
<1> DEFINE X == {j}
<1>1. /\ \A k \in Job : k \notin X => k # j
      /\ \A k \in Job : k \in X => k = j
      /\ GoesOn(mem[w], mem'[w], X) /\ raced \subseteq raced'
  OBVIOUS
<1> HIDE DEF X
<1>2. \A k \in Job : k \notin X =>
           /\ d.submit[k] = duty[w].submit[k]
           /\ k \in d.closing <=> k \in duty[w].closing
           /\ k \in d.resets <=> k \in duty[w].resets
           /\ RowStill(k) /\ audit'[k] = audit[k]
  <2>1. \A k \in Job : k # j => RowStill(k)
    BY DEF RowStill, InTable
  <2> QED BY <1>1, <2>1
<1>3. \A k \in Job : k \in X => Followed(k)' /\ Cleared(k)'
  BY <1>1
<1> QED BY <1>1, <1>2, <1>3, CarriesAround

LEMMA SubmitStoredHolds ==
  ASSUME Truly, NEW w \in Worker, NEW j \in Job, SubmitStored(w, j)
  PROVE  RowsHold'
<1> DEFINE c == duty[w]
           next == IF Head(mem[w].chain[j]).answer = "ok" THEN "no" ELSE "refusing"
           d == [c EXCEPT !.submit = [c.submit EXCEPT ![j] = next]]
           m == mem[w]
           n == mem'[w]
<1>1. /\ CreateSettles(w, j) /\ raced' = raced /\ audit' = audit
      /\ c \in Duty /\ IInv /\ Founded
  BY DEF SubmitStored, Follows, Truly, Sane, AuditTypeOK
<1>2. /\ Followed(j) /\ Cleared(j) /\ AllSure /\ AllSure' /\ Submits(w, j) /\ Owes(w, j)
      /\ Sure(w, j) /\ Sure(w, j)'
  BY DEF Truly, RowsHold, Followed, AllSure
<1>3. m.chain[j] # <<>> /\ m.chain[j][1].answer = "ok" /\ m.chain[j][1].op = "create"
      /\ Head(m.chain[j]).answer = "ok"
  <2>1. m.chain[j] # <<>> /\ Head(m.chain[j]).answer # "none" /\ Head(m.chain[j]).op = "create"
    BY <1>1 DEF CreateSettles, Answered
  <2>2. Head(m.chain[j]) = m.chain[j][1]
    BY <2>1
  <2> QED BY <1>2, <2>1, <2>2 DEF Submits
<1>4. /\ GoesOn(m, n, {j})
      /\ n.ent[j].durability = "stored" /\ m.ent[j].durability = "pending"
      /\ n.ent[j].cancelRequested = m.ent[j].cancelRequested
      /\ \/ n.ent[j].state = m.ent[j].state
         \/ m.ent[j].state = "queued" /\ n.ent[j].state = "running"
      /\ m.paused => Rests(m, n, j)
      /\ j \in n.deciding <=> j \in m.deciding
  BY <1>1, <1>3, CreateSettlesGoesOn
<1>5. row' = row /\ submitted' = submitted /\ \A v \in Worker \ {w} : mem'[v] = mem[v]
  BY <1>1, QueueMoves DEF CreateSettles
<1>6. Carries(w, d)
  <2>1. d = [c EXCEPT !.submit[j] = next]
    BY <1>1 DEF Duty
  <2> HIDE DEF next, d
  <2>2. Carries(w, [c EXCEPT !.submit[j] = IF Head(m.chain[j]).answer = "ok" THEN "no" ELSE "refusing"])
    BY DEF SubmitStored, Follows
  <2> QED BY <2>1, <2>2 DEF next
<1>7. /\ d \in Duty /\ d.submit[j] = "no" /\ \A k \in Job : k # j => d.submit[k] = c.submit[k]
      /\ d.closing = c.closing /\ d.stage = c.stage /\ d.reason = c.reason
      /\ d.resets = c.resets /\ d.reopen = c.reopen /\ d.known = c.known
      /\ d.cutoff = c.cutoff /\ d.sweep = c.sweep /\ d.live = c.live
      /\ d.orphans = c.orphans
  <2>1. next = "no"
    BY <1>3
  <2>2. next \in Submitting
    BY <2>1 DEF Submitting
  <2> HIDE DEF next
  <2> QED BY <1>1, <2>1, <2>2 DEF Duty
<1> HIDE DEF d, next
<1>8. /\ duty'[w].submit = d.submit /\ duty'[w].closing = c.closing
      /\ duty'[w].resets = c.resets /\ duty'[w].reopen = c.reopen /\ duty'[w].known = c.known
      /\ duty'[w].cutoff = c.cutoff /\ duty'[w].sweep = c.sweep /\ duty'[w].live = c.live
      /\ duty'[w].orphans = c.orphans
      /\ \A v \in Worker \ {w} : duty'[v] = duty[v]
  BY <1>6, <1>7, CarriesDuty
<1>9. /\ m.ent[j].state # "running" /\ Known(m, j) /\ Known(n, j)
      /\ j \notin m.active /\ j \notin m.deciding /\ j \notin n.deciding
      /\ c.stage[j] = "idle"
  <2>1. m.ent[j].state # "running" /\ m.ent[j].state # "absent"
    BY <1>2, <1>4 DEF Sure, EntrySure
  <2>2. c.stage[j] = "idle"
    BY <1>2, <2>1, IdleStage
  <2> QED BY <1>2, <1>4, <2>1, <2>2 DEF Sure, EntrySure, Known
<1>10. duty'[w].stage[j] = "idle" \/ duty'[w].stage[j] = "starting"
  <2>1. CASE n.ent[j].state # "running"
    BY <1>6, <1>7, <2>1, CarriesStage
  <2>2. CASE n.ent[j].state = "running"
    <3>1. j \in n.active
      BY <1>2, <1>9, <2>2 DEF Sure, EntrySure
    <3>2. ~n.ent[j].cancelRequested
      BY <1>2, <1>4, <1>9, <2>2 DEF Sure, EntrySure
    <3> QED BY <1>6, <1>7, <1>9, <3>1, <3>2, CarriesStage
  <2> QED BY <2>1, <2>2
<1>11. InTable(j) /\ InTable(j)' /\ audit[j].status # "none"
  <2>1. InTable(j)
    BY <1>2, <1>3 DEF Sure, RowSure, SaidYes
  <2> QED BY <1>2, <1>5, <2>1 DEF InTable, Sure, RowSure, Followed, SubmittedOnce
<1>12. (Submits(w, j) /\ Owes(w, j))'
  <2>1. Heads(m, n, j) /\ Flags(m, n)
    BY <1>4 DEF GoesOn
  <2>2. Submits(w, j)'
    BY <1>2, <1>4, <1>7, <1>8, <2>1 DEF Submits, Heads
  <2>3. duty'[w].reason[j] # "lost"
    BY <1>2, <1>6, <1>7, CarriesStage DEF Owes
  <2>4. j \in c.reopen => n.paused /\ Rests(m, n, j)
    BY <1>2, <1>4, <2>1 DEF Owes, Flags
  <2>5. Owes(w, j)'
    BY <1>2, <1>4, <1>8, <1>9, <2>3, <2>4 DEF Owes, Rests
  <2> QED BY <2>2, <2>5
<1>13. ASSUME j \notin raced' PROVE (Reports(w, j) /\ Tells(w, j) /\ Minded(j))'
  <2>1. Reports(w, j)'
    BY <1>10 DEF Reports
  <2>2. Tells(w, j)'
    <3>1. Tells(w, j) /\ n.closed = m.closed
      BY <1>1, <1>2, <1>4, <1>13 DEF Followed, GoesOn, Flags
    <3>2. Ended(n, j) => Ended(m, j) /\ n.ent[j].state = m.ent[j].state
      BY <1>4 DEF Ended, Terminal
    <3> QED BY <1>1, <1>8, <3>1, <3>2 DEF Tells, Complete, Failed
  <2>3. Minded(j)'
    <3> SUFFICES ASSUME audit'[j].status = "running" PROVE WillRun(w, j)'
      BY DEF Minded
    <3>1. j \in m.active \cup c.reopen \cup c.resets
      BY <1>1, <1>9, <1>11, <1>13, MindedHere
    <3> QED BY <1>8, <1>9, <3>1 DEF WillRun
  <2> QED BY <2>1, <2>2, <2>3
<1>14. Followed(j)'
  <2>1. \A v \in Worker \ {w} : StillAt(v, j)
    BY <1>2, <1>5, <1>8, StaysStill
  <2> QED BY <1>1, <1>2, <1>9, <1>11, <1>12, <1>13, <2>1, TurnFollowed
<1>15. Cleared(j)'
  <2>1. \A v \in Worker : /\ SameSweep(duty[v], duty'[v], j)
                          /\ j \in duty'[v].reopen => j \in duty[v].reopen
    BY <1>8 DEF SameSweep
  <2>2. ~Forsaken(j) /\ ~Forsaken(j)'
    BY <1>11 DEF Forsaken
  <2> QED BY <1>1, <1>2, <1>11, <2>1, <2>2, HeldCleared
<1> QED BY <1>1, <1>4, <1>5, <1>6, <1>7, <1>14, <1>15, CarriesOnly

LEMMA SubmitEnqueuesHolds ==
  ASSUME Truly, NEW w \in Worker, NEW j \in Job, SubmitEnqueues(w, j)
  PROVE  RowsHold'
<1> DEFINE c == duty[w]
           d == [c EXCEPT !.submit = [c.submit EXCEPT ![j] = "storing"]]
           m == mem[w]
           n == mem'[w]
<1>1. /\ Enqueue(w, j) /\ raced' = raced /\ audit' = audit /\ c.submit[j] = "inserted"
      /\ c \in Duty /\ IInv /\ Founded /\ Mode = "leased"
  BY DEF SubmitEnqueues, Follows, Truly, Sane, AuditTypeOK
<1>2. /\ Followed(j) /\ Cleared(j) /\ AllSure /\ AllSure' /\ Submits(w, j) /\ Owes(w, j)
      /\ Sure(w, j) /\ Sure(w, j)'
  BY DEF Truly, RowsHold, Followed, AllSure
<1>3. /\ GoesOn(m, n, {j}) /\ ~Known(m, j)
      /\ n.ent[j].state = "queued" /\ n.ent[j].durability = "pending"
  BY <1>1, EnqueueGoesOn
<1>4. /\ row' = row /\ submitted' = submitted \cup {j} /\ j \notin submitted
      /\ \A v \in Worker \ {w} : mem'[v] = mem[v]
  BY <1>1, QueueMoves DEF Enqueue
<1>5. Carries(w, d)
  <2>1. d = [c EXCEPT !.submit[j] = "storing"]
    BY <1>1 DEF Duty
  <2> HIDE DEF d
  <2>2. Carries(w, [c EXCEPT !.submit[j] = "storing"])
    BY DEF SubmitEnqueues, Follows
  <2> QED BY <2>1, <2>2
<1>6. /\ d \in Duty /\ d.submit[j] = "storing"
      /\ \A k \in Job : k # j => d.submit[k] = c.submit[k]
      /\ d.closing = c.closing /\ d.stage = c.stage /\ d.reason = c.reason
      /\ d.resets = c.resets /\ d.reopen = c.reopen /\ d.known = c.known
      /\ d.cutoff = c.cutoff /\ d.sweep = c.sweep /\ d.live = c.live
      /\ d.orphans = c.orphans
  <2>1. "storing" \in Submitting
    BY DEF Submitting
  <2> QED BY <1>1, <2>1 DEF Duty
<1> HIDE DEF d
<1>7. /\ duty'[w].submit = d.submit /\ duty'[w].closing = c.closing
      /\ duty'[w].resets = c.resets /\ duty'[w].reopen = c.reopen /\ duty'[w].known = c.known
      /\ duty'[w].cutoff = c.cutoff /\ duty'[w].sweep = c.sweep /\ duty'[w].live = c.live
      /\ duty'[w].orphans = c.orphans
      /\ \A v \in Worker \ {w} : duty'[v] = duty[v]
  BY <1>5, <1>6, CarriesDuty
<1>8. ASSUME NEW v \in Worker
      PROVE  ~Known(mem[v], j) /\ ~InTable(j) /\ mem[v].ent[j].state = "absent"
  <2>1. Sure(v, j)
    BY <1>2 DEF AllSure
  <2> QED BY <1>4, <2>1 DEF Sure, RowSure, Known
<1>9. audit[j].status # "none" /\ audit[j].status # "running" /\ m.up
      /\ \A v \in Worker \ {w} : duty[v].submit[j] = "no"
  BY <1>1, <1>2 DEF Submits, Followed, SubmittedOnce
<1>10. ~InTable(j)'
  BY <1>4, <1>8 DEF InTable
<1>11. KnownOnce(j)'
  <2>1. \A v \in Worker : Known(mem'[v], j) => v = w
    BY <1>4, <1>8
  <2> QED BY <1>10, <2>1 DEF KnownOnce
<1>12. SubmittedOnce(j)'
  <2>1. \A v \in Worker : duty'[v].submit[j] # "no" => v = w
    BY <1>7, <1>9
  <2> QED BY <1>1, <1>9, <2>1 DEF SubmittedOnce
<1>13. (Submits(w, j) /\ Owes(w, j) /\ Reports(w, j) /\ Tells(w, j))'
  <2>1. Heads(m, n, j) /\ Flags(m, n)
    BY <1>3 DEF GoesOn
  <2>2. m.chain[j] = <<>>
    BY <1>2, <1>8 DEF Sure, EntrySure
  <2>3. Submits(w, j)'
    BY <1>1, <1>3, <1>6, <1>7, <1>9, <2>1, <2>2 DEF Submits, Heads, Flags
  <2>4. duty'[w].reason[j] # "lost" /\ duty'[w].stage[j] = "idle"
    BY <1>2, <1>3, <1>5, <1>6, CarriesStage DEF Owes
  <2>5. j \notin c.closing /\ j \notin c.resets /\ j \notin c.reopen
    BY <1>2, <1>8 DEF Owes
  <2>6. Owes(w, j)'
    BY <1>7, <2>4, <2>5 DEF Owes
  <2>7. Reports(w, j)'
    BY <2>4 DEF Reports
  <2>8. Tells(w, j)'
    BY <1>3 DEF Tells, Ended, Terminal
  <2> QED BY <2>3, <2>6, <2>7, <2>8
<1>14. ASSUME NEW v \in Worker, v # w
       PROVE  (Submits(v, j) /\ Owes(v, j) /\ Reports(v, j) /\ Tells(v, j))'
  <2>1. mem'[v] = mem[v] /\ duty'[v] = duty[v] /\ duty[v].submit[j] = "no" /\ Sure(v, j)
    BY <1>2, <1>4, <1>7, <1>9, <1>14 DEF AllSure
  <2>2. Submits(v, j) /\ Owes(v, j) /\ mem[v].ent[j].state = "absent"
    BY <1>2, <1>8 DEF Followed
  <2>3. duty[v].stage[j] = "idle"
    BY <1>2, <2>2, IdleStage
  <2>4. Submits(v, j)'
    BY <2>1, <2>2 DEF Submits
  <2>5. Owes(v, j)'
    BY <2>1, <2>2 DEF Owes
  <2>6. Reports(v, j)'
    BY <2>1, <2>3 DEF Reports
  <2>7. Tells(v, j)'
    BY <2>1, <2>2 DEF Tells, Ended, Terminal
  <2> QED BY <2>4, <2>5, <2>6, <2>7
<1>15. Minded(j)'
  BY <1>10 DEF Minded
<1>16. Followed(j)'
  BY <1>11, <1>12, <1>13, <1>14, <1>15 DEF Followed
<1>17. Cleared(j)'
  <2>1. \A v \in Worker : /\ SameSweep(duty[v], duty'[v], j)
                          /\ j \in duty'[v].reopen => j \in duty[v].reopen
    BY <1>7 DEF SameSweep
  <2>2. ~Forsaken(j) /\ ~Forsaken(j)'
    BY <1>1, <1>6, <1>7 DEF Forsaken
  <2> QED BY <1>1, <1>2, <1>9, <2>1, <2>2, HeldCleared
<1>18. \A k \in Job : k # j => (k \in submitted <=> k \in submitted')
  BY <1>4
<1> QED BY <1>1, <1>3, <1>4, <1>5, <1>6, <1>16, <1>17, <1>18, CarriesOnly

(* A claim that the store has answered with is taken up.                   *)
LEMMA ComesIn ==
  ASSUME Truly, NEW w \in Worker, NEW d \in Duty, Carries(w, d), NEW k \in Job,
         ~Known(mem[w], k), Coming(mem[w], k), TakenUp(mem[w], mem'[w], k),
         Heads(mem[w], mem'[w], k), mem'[w].up = mem[w].up,
         \A v \in Worker \ {w} : mem'[v] = mem[v],
         row' = row, submitted' = submitted, audit' = audit, raced' = raced,
         d.submit = duty[w].submit, d.stage = duty[w].stage, d.reason = duty[w].reason,
         d.closing = duty[w].closing, d.known = duty[w].known, d.cutoff = duty[w].cutoff,
         d.sweep = duty[w].sweep, d.live = duty[w].live, d.orphans = duty[w].orphans,
         k \in d.resets \cup d.reopen,
         k \in d.reopen => mem[w].paused /\ mem'[w].paused /\ d.sweep = "due"
  PROVE  Followed(k)' /\ Cleared(k)'
<1> DEFINE c == duty[w]
           m == mem[w]
           n == mem'[w]
<1>1. /\ duty'[w].submit = d.submit /\ duty'[w].closing = c.closing
      /\ duty'[w].resets = d.resets /\ duty'[w].reopen = d.reopen /\ duty'[w].known = c.known
      /\ duty'[w].cutoff = c.cutoff /\ duty'[w].sweep = c.sweep /\ duty'[w].live = c.live
      /\ duty'[w].orphans = c.orphans
      /\ \A v \in Worker \ {w} : duty'[v] = duty[v]
  BY CarriesDuty
<1>2. /\ Followed(k) /\ Cleared(k) /\ AllSure /\ AllSure' /\ Submits(w, k) /\ Owes(w, k)
      /\ Sure(w, k) /\ Sure(w, k)'
  BY DEF Truly, RowsHold, Followed, AllSure
<1>3. /\ InTable(k) /\ row[k].owner = w /\ k \in submitted /\ m.ent[k].state = "absent"
      /\ m.chain[k] = <<>> /\ m.ent[k].durability = "none" /\ audit[k].status # "none"
  <2>1. InTable(k) /\ row[k].owner = w /\ k \in submitted /\ m.ent[k].state = "absent"
    BY <1>2 DEF Sure, RowSure, Known
  <2> QED BY <1>2, <2>1 DEF Sure, EntrySure, Followed, SubmittedOnce
<1>4. \A v \in Worker \ {w} : StillAt(v, k) /\ ~Known(mem[v], k)
  <2> TAKE v \in Worker \ {w}
  <2>1. Sure(v, k)
    BY <1>2 DEF AllSure
  <2>2. ~Known(mem[v], k)
    BY <1>3, <2>1 DEF Sure, RowSure
  <2> QED BY <1>1, <1>2, <2>2, StaysStill
<1>5. /\ n.ent[k].durability = "stored" /\ Known(n, k) /\ ~Ended(n, k)
      /\ n.ent[k].state = "queued" \/ n.ent[k].state = "running"
      /\ m.paused => n.ent[k].state = "queued" /\ k \notin n.starting
  BY DEF TakenUp, Known, Ended, Terminal
<1>6. c.submit[k] = "no" /\ c.stage[k] = "idle" /\ k \notin c.closing
  <2>1. c.submit[k] = "no"
    BY <1>2, <1>3 DEF Submits, Sure, DutySure
  <2>2. c.stage[k] = "idle"
    BY <1>2, <1>3, IdleStage
  <2>3. k \notin c.closing
    BY <1>2, <1>3 DEF Owes
  <2> QED BY <2>1, <2>2, <2>3
<1>7. (Submits(w, k) /\ Owes(w, k))'
  <2>1. Submits(w, k)'
    BY <1>1, <1>3, <1>5, <1>6 DEF Submits, Heads
  <2>2. duty'[w].reason[k] # "lost"
    BY <1>2, CarriesStage DEF Owes
  <2>3. Owes(w, k)'
    BY <1>1, <1>5, <1>6, <2>2 DEF Owes
  <2> QED BY <2>1, <2>3
<1>8. duty'[w].stage[k] = "idle" \/ duty'[w].stage[k] = "starting"
  <2>1. EntrySure(n, k) /\ ~n.ent[k].cancelRequested
    BY <1>2 DEF Sure, TakenUp
  <2>2. CASE n.ent[k].state # "running"
    BY <2>2, CarriesStage
  <2>3. CASE n.ent[k].state = "running"
    <3>1. (k \in n.active \/ k \in n.deciding) /\ ~(k \in n.active /\ k \in n.deciding)
      BY <2>1, <2>3 DEF EntrySure
    <3>2. k \notin n.deciding \/ duty'[w].stage[k] = "idle"
      BY <1>6, <3>1, CarriesStage
    <3> QED BY <1>6, <2>1, <3>1, <3>2, CarriesStage
  <2> QED BY <2>2, <2>3
<1>9. (Reports(w, k) /\ Tells(w, k) /\ Minded(k))'
  <2>1. Reports(w, k)'
    BY <1>8 DEF Reports
  <2>2. Tells(w, k)'
    BY <1>5 DEF Tells
  <2>3. Minded(k)'
    BY <1>1 DEF Minded, WillRun
  <2> QED BY <2>1, <2>2, <2>3
<1>10. Followed(k)'
  BY <1>2, <1>3, <1>4, <1>5, <1>7, <1>9, ComesFollowed
<1>11. ~Forsaken(k) /\ ~Forsaken(k)'
  BY <1>3 DEF Forsaken, InTable
<1>12. ASSUME NEW v \in Worker PROVE SweepOwes(v, k)' /\ (k \notin raced' => SweepsForsaken(v, k)')
  <2>1. SweepOwes(v, k) /\ (k \notin raced => SweepsForsaken(v, k))
    BY <1>2 DEF Cleared
  <2>2. CASE v = w
    BY <1>1, <1>11, <2>1, <2>2 DEF SweepOwes, SweepsForsaken
  <2>3. CASE v # w
    BY <1>1, <1>11, <2>1, <2>3 DEF SweepOwes, SweepsForsaken
  <2> QED BY <2>2, <2>3
<1>13. Cleared(k)'
  BY <1>11, <1>12 DEF Cleared, Closable
<1> QED BY <1>10, <1>13

LEMMA AdoptedHereHolds ==
  ASSUME Truly, NEW w \in Worker, NEW b \in Beats, AdoptedHere(w, b)
  PROVE  RowsHold'
<1> DEFINE c == duty[w]
           m == mem[w]
           n == mem'[w]
           got == m.beats[b].got
           S == NewClaims(m, got)
           d == [c EXCEPT !.resets = @ \cup S]
<1>1. /\ Adopted(w, b) /\ Carries(w, d) /\ raced' = raced /\ audit' = audit
      /\ c \in Duty /\ IInv /\ Founded
  BY DEF AdoptedHere, Follows, Truly, Sane, AuditTypeOK
<1>2. S \subseteq Job /\ GoesOn(m, n, S) /\ \A k \in S : TakenUp(m, n, k)
  BY <1>1, AdoptedGoesOn
<1>3. /\ row' = row /\ submitted' = submitted /\ \A v \in Worker \ {w} : mem'[v] = mem[v]
      /\ m.beats[b].phase = "adopted"
  BY <1>1, QueueMoves DEF Adopted
<1>4. \A k \in S : k \in Job /\ ~Known(m, k) /\ Coming(m, k)
  <2>1. \A k \in S : k \in got.jobs /\ ~Known(m, k)
    BY DEF NewClaims
  <2> QED BY <1>2, <1>3, <2>1 DEF Coming
<1> HIDE DEF S
<1>5. /\ d \in Duty /\ d.resets = c.resets \cup S
      /\ d.submit = c.submit /\ d.stage = c.stage /\ d.reason = c.reason
      /\ d.closing = c.closing /\ d.reopen = c.reopen /\ d.known = c.known
      /\ d.cutoff = c.cutoff /\ d.sweep = c.sweep /\ d.live = c.live
      /\ d.orphans = c.orphans
  BY <1>1, <1>2 DEF Duty
<1> HIDE DEF d
<1>6. ASSUME NEW k \in Job, k \in S PROVE Followed(k)' /\ Cleared(k)'
  <2>1. TakenUp(m, n, k) /\ ~Known(m, k) /\ Coming(m, k)
    BY <1>2, <1>4, <1>6
  <2>2. Heads(m, n, k) /\ n.up = m.up
    BY <1>2 DEF GoesOn, Flags
  <2>3. k \in d.resets /\ k \notin d.reopen
    <3>1. Owes(w, k)
      BY DEF Truly, RowsHold, Followed
    <3> QED BY <1>5, <1>6, <2>1, <3>1 DEF Owes, Known
  <2> QED BY <1>1, <1>3, <1>5, <2>1, <2>2, <2>3, ComesIn
<1>7. \A k \in Job : k \notin S =>
           /\ d.submit[k] = duty[w].submit[k]
           /\ k \in d.closing <=> k \in duty[w].closing
           /\ k \in d.resets <=> k \in duty[w].resets
           /\ RowStill(k) /\ audit'[k] = audit[k]
  <2>1. \A k \in Job : RowStill(k)
    BY <1>3 DEF RowStill, InTable
  <2> QED BY <1>1, <1>5, <2>1
<1> QED BY <1>1, <1>2, <1>3, <1>5, <1>6, <1>7, CarriesAround

-----------------------------------------------------------------------------
(* Recovery.                                                               *)

(* A job that a step of w's queue has nothing to do with.                  *)
LEMMA CarriesRest ==
  ASSUME Truly, NEW w \in Worker, NEW d \in Duty, Carries(w, d), NEW X,
         Passes(mem[w], mem'[w], X), \A v \in Worker \ {w} : mem'[v] = mem[v],
         NEW k \in Job, k \notin X, d.stage = duty[w].stage, d.reason = duty[w].reason,
         SameDuty(duty[w], d, k), SameSweep(duty[w], d, k),
         RowStill(k), audit'[k] = audit[k], raced \subseteq raced'
  PROVE  Followed(k)' /\ Cleared(k)'
<1>1. /\ duty'[w].known = d.known /\ duty'[w].cutoff = d.cutoff
      /\ duty'[w].sweep = d.sweep /\ duty'[w].live = d.live /\ duty'[w].orphans = d.orphans
      /\ \A v \in Worker \ {w} : duty'[v] = duty[v]
  BY CarriesDuty
<1>2. Followed(k) /\ Cleared(k) /\ AllSure /\ AllSure' /\ Owes(w, k)
  BY DEF Truly, RowsHold, Followed
<1>3. /\ Steps(mem[w], mem'[w], k) /\ Heads(mem[w], mem'[w], k)
      /\ mem[w].paused => Rests(mem[w], mem'[w], k) /\ mem'[w].paused
      /\ mem'[w].up = mem[w].up /\ (mem[w].closed => mem'[w].closed)
  BY DEF Passes
<1>4. \A v \in Worker : StillAt(v, k)
  <2>1. k \in duty[w].reopen => mem'[w].paused /\ Rests(mem[w], mem'[w], k)
    BY <1>2, <1>3 DEF Owes
  <2> QED BY <1>3, <2>1, CarriesStill
<1>5. \A v \in Worker : SameSweep(duty[v], duty'[v], k)
  <2>1. \A v \in Worker : v # w => SameSweep(duty[v], duty'[v], k)
    BY <1>1 DEF SameSweep
  <2>2. SameSweep(duty[w], duty'[w], k)
    BY <1>1 DEF SameSweep
  <2> QED BY <2>1, <2>2
<1> QED BY <1>2, <1>4, <1>5, QuietFollowed, QuietCleared

(* The rows that a load or an adoption takes stay for those who look.      *)
LEMMA TakenStill ==
  ASSUME Truly, RowsStand, NEW w \in Worker, Takes(w), submitted' = submitted, NEW k \in Job,
         row'[k] # row[k] => InTable(k)
  PROVE  RowStill(k)
<1>1. InTable(k) <=> row'[k].state # "absent"
  BY DEF RowsStand, InTable
<1>2. CASE row'[k].owner = row[k].owner
  BY <1>1, <1>2 DEF RowStill
<1>3. CASE row'[k].owner # row[k].owner
  <2>1. row'[k].owner = w
    BY <1>3 DEF Takes
  <2>2. InTable(k) /\ Sure(w, k)
    BY <1>3 DEF Truly, AllSure
  <2>3. ~Known(mem[w], k)
    BY <1>3, <2>1, <2>2 DEF Sure, RowSure
  <2> QED BY <1>1, <2>1, <2>3 DEF RowStill
<1> QED BY <1>2, <1>3

LEMMA LoadsHolds ==
  ASSUME Truly, NEW w \in Worker, Loads(w)
  PROVE  RowsHold'
<1> DEFINE d == duty[w]
<1>1. /\ LoadExecutes(w) /\ Carries(w, d) /\ raced' = raced /\ audit' = audit
      /\ d \in Duty /\ d.known /\ IInv /\ Founded /\ TypeOK /\ Mode = "leased"
  BY DEF Loads, Follows, Truly, Sane, AuditTypeOK, IInv
<1>2. /\ Passes(mem[w], mem'[w], {})
      /\ mem[w].loading = "asked" /\ mem'[w].loading = "answered"
  BY <1>1, LoadPasses
<1>3. PICK S \in LoadBatches(row, w) :
        /\ row' = ClaimedAsQueued(row, w, S) /\ submitted' = submitted
        /\ \A v \in Worker \ {w} : mem'[v] = mem[v]
  BY <1>1, QueueMoves DEF LoadExecutes
<1>4. /\ RowsStand /\ Takes(w)
      /\ \A k \in Job : row'[k] # row[k] => InTable(k)
  <2>1. /\ RowsStand /\ Takes(w)
        /\ \A k \in Job : k \notin S => row'[k] = row[k]
    BY <1>1, <1>3, LoadedStand
  <2>2. \A k \in S : InTable(k)
    BY DEF LoadBatches, Loadable, Outstanding, InTable
  <2> QED BY <2>1, <2>2
<1>5. ASSUME NEW k \in Job PROVE Followed(k)' /\ Cleared(k)'
  <2>1. RowStill(k)
    BY <1>3, <1>4, TakenStill
  <2>2. SameDuty(duty[w], d, k) /\ SameSweep(duty[w], d, k)
    BY DEF SameDuty, SameSweep
  <2> DEFINE X == {}
  <2>3. k \notin X /\ Passes(mem[w], mem'[w], X)
    BY <1>2
  <2> HIDE DEF X, d
  <2>4. raced \subseteq raced' /\ audit'[k] = audit[k]
    BY <1>1
  <2> QED BY <1>1, <1>3, <2>1, <2>2, <2>3, <2>4, CarriesRest DEF d
<1>6. ASSUME NEW v \in Worker PROVE Swept(v)'
  <2>1. Swept(v) /\ Swept(w)
    BY DEF Truly, RowsHold
  <2>2. /\ duty'[w].reopen = d.reopen /\ duty'[w].known = d.known /\ duty'[w].sweep = d.sweep
        /\ \A u \in Worker \ {w} : duty'[u] = duty[u]
    BY <1>1, CarriesDuty
  <2>3. CASE v = w
    BY <1>1, <1>2, <2>1, <2>2, <2>3 DEF Swept
  <2>4. CASE v # w
    BY <1>3, <2>1, <2>2, <2>4 DEF Swept
  <2> QED BY <2>3, <2>4
<1> QED BY <1>5, <1>6 DEF RowsHold

LEMMA RestoresHolds ==
  ASSUME Truly, NEW w \in Worker, Restores(w)
  PROVE  RowsHold'
<1> DEFINE c == duty[w]
           m == mem[w]
           n == mem'[w]
           S == NewClaims(m, m.loaded)
           d == [c EXCEPT !.reopen = S]
<1>1. /\ Recovered(w) /\ Carries(w, d) /\ raced' = raced /\ audit' = audit
      /\ c \in Duty /\ IInv /\ Founded
  BY DEF Restores, Follows, Truly, Sane, AuditTypeOK
<1>2. /\ S \subseteq Job /\ Passes(m, n, S) /\ \A k \in S : TakenUp(m, n, k)
      /\ m.loading = "answered" /\ m.paused /\ n.loading = "no" /\ n.paused
  BY <1>1, RecoveredPasses
<1>3. row' = row /\ submitted' = submitted /\ \A v \in Worker \ {w} : mem'[v] = mem[v]
  BY <1>1, QueueMoves DEF Recovered
<1>4. \A k \in S : k \in Job /\ ~Known(m, k) /\ Coming(m, k)
  <2>1. \A k \in S : k \in m.loaded.jobs /\ ~Known(m, k)
    BY DEF NewClaims
  <2> QED BY <1>2, <2>1 DEF Coming
<1> HIDE DEF S
<1>5. /\ d \in Duty /\ d.reopen = S
      /\ d.submit = c.submit /\ d.stage = c.stage /\ d.reason = c.reason
      /\ d.closing = c.closing /\ d.resets = c.resets /\ d.known = c.known
      /\ d.cutoff = c.cutoff /\ d.sweep = c.sweep /\ d.live = c.live
      /\ d.orphans = c.orphans
  BY <1>1, <1>2 DEF Duty
<1> HIDE DEF d
<1>6. c.known /\ c.sweep = "due" /\ c.reopen = {} /\ c.sweep # "skipped"
  <2>1. Swept(w)
    BY DEF Truly, RowsHold
  <2> QED BY <1>2, <2>1 DEF Swept
<1>7. ASSUME NEW k \in Job, k \in S PROVE Followed(k)' /\ Cleared(k)'
  <2>1. TakenUp(m, n, k) /\ ~Known(m, k) /\ Coming(m, k)
    BY <1>2, <1>4, <1>7
  <2>2. Heads(m, n, k) /\ n.up = m.up
    BY <1>2 DEF Passes
  <2>3. k \in d.resets \cup d.reopen
    BY <1>5, <1>7
  <2> QED BY <1>1, <1>2, <1>3, <1>5, <1>6, <2>1, <2>2, <2>3, ComesIn
<1>8. ASSUME NEW k \in Job, k \notin S PROVE Followed(k)' /\ Cleared(k)'
  <2>1. RowStill(k) /\ SameDuty(c, d, k) /\ SameSweep(c, d, k)
    BY <1>3, <1>5, <1>6, <1>8 DEF RowStill, InTable, SameDuty, SameSweep
  <2>2. raced \subseteq raced' /\ audit'[k] = audit[k]
    BY <1>1
  <2> QED BY <1>1, <1>2, <1>3, <1>5, <1>8, <2>1, <2>2, CarriesRest
<1>9. ASSUME NEW v \in Worker PROVE Swept(v)'
  <2>1. Swept(v)
    BY DEF Truly, RowsHold
  <2>2. /\ duty'[w].reopen = d.reopen /\ duty'[w].known = d.known /\ duty'[w].sweep = d.sweep
        /\ \A u \in Worker \ {w} : duty'[u] = duty[u]
    BY <1>1, <1>5, CarriesDuty
  <2>3. CASE v = w
    BY <1>2, <1>5, <1>6, <2>2, <2>3 DEF Swept
  <2>4. CASE v # w
    BY <1>3, <2>1, <2>2, <2>4 DEF Swept
  <2> QED BY <2>3, <2>4
<1> QED BY <1>7, <1>8, <1>9 DEF RowsHold

LEMMA ResumesHolds ==
  ASSUME Truly, NEW w \in Worker, Resumes(w)
  PROVE  RowsHold'
<1> DEFINE c == duty[w]
           m == mem[w]
           n == mem'[w]
           working == { j \in Job : n.ent[j].state \in {"queued", "running"} }
           asks == [c EXCEPT !.sweep = "asking", !.live = working]
           d == IF c.sweep # "due" THEN c ELSE asks
<1>1. /\ Resume(w) /\ Carries(w, d) /\ raced' = raced /\ audit' = audit /\ c.reopen = {}
      /\ c \in Duty /\ IInv /\ Founded
  BY DEF Resumes, Follows, Truly, Sane, AuditTypeOK
<1>2. /\ n.up = m.up /\ n.closed = m.closed
      /\ n.loading = "no" /\ m.loading = "no"
      /\ \A k \in Job : Heads(m, n, k) /\ Steps(m, n, k)
  BY <1>1, ResumeSteps
<1>3. row' = row /\ submitted' = submitted /\ \A v \in Worker \ {w} : mem'[v] = mem[v]
  BY <1>1, QueueMoves DEF Resume
<1>4. \A k \in Job : k \in working <=> n.ent[k].state = "queued" \/ n.ent[k].state = "running"
  OBVIOUS
<1>5. working \subseteq Job
  OBVIOUS
<1> HIDE DEF working, n
<1>6. /\ d \in Duty /\ d.reopen = {}
      /\ d.submit = c.submit /\ d.stage = c.stage /\ d.reason = c.reason
      /\ d.closing = c.closing /\ d.resets = c.resets /\ d.known = c.known
      /\ d.cutoff = c.cutoff /\ d.orphans = c.orphans
      /\ \/ c.sweep # "due" /\ d.sweep = c.sweep /\ d.live = c.live
         \/ c.sweep = "due" /\ d.sweep = "asking" /\ d.live = working
  <2>1. "asking" \in Sweep
    BY DEF Sweep
  <2> QED BY <1>1, <1>5, <2>1 DEF Duty
<1> HIDE DEF d, asks
<1>7. /\ duty'[w].reopen = {} /\ duty'[w].known = c.known /\ duty'[w].sweep = d.sweep
      /\ duty'[w].cutoff = c.cutoff /\ duty'[w].live = d.live /\ duty'[w].orphans = c.orphans
      /\ duty'[w].submit = c.submit /\ duty'[w].closing = c.closing
      /\ \A u \in Worker \ {w} : duty'[u] = duty[u]
  BY <1>1, <1>6, CarriesDuty
<1>8. Swept(w) /\ c.known
  BY <1>2 DEF Truly, RowsHold, Swept
<1>9. ASSUME NEW v \in Worker PROVE Swept(v)'
  <2>1. Swept(v)
    BY DEF Truly, RowsHold
  <2>2. CASE v = w
    BY <1>2, <1>6, <1>7, <1>8, <2>2 DEF Swept, n
  <2>3. CASE v # w
    BY <1>3, <1>7, <2>1, <2>3 DEF Swept
  <2> QED BY <2>2, <2>3
<1>10. ASSUME NEW k \in Job PROVE Followed(k)' /\ (Forsaken(k)' <=> Forsaken(k))
  <2>1. Followed(k) /\ AllSure /\ AllSure'
    BY DEF Truly, RowsHold
  <2>2. RowStill(k) /\ SameDuty(c, d, k)
    BY <1>1, <1>3, <1>6 DEF RowStill, InTable, SameDuty
  <2>3. \A v \in Worker : StillAt(v, k)
    BY <1>1, <1>2, <1>3, <1>6, <2>2, CarriesStill DEF n
  <2>4. Followed(k)'
    <3>1. raced \subseteq raced' /\ audit'[k] = audit[k]
      BY <1>1
    <3> QED BY <2>1, <2>2, <2>3, <3>1, QuietFollowed
  <2>5. \A v \in Worker : duty'[v].submit[k] = duty[v].submit[k]
    BY <1>7
  <2> QED BY <1>1, <1>3, <2>4, <2>5 DEF Forsaken, InTable
<1>11. ASSUME NEW k \in Job PROVE Cleared(k)'
  <2>1. Cleared(k)
    BY DEF Truly, RowsHold
  <2>2. Forsaken(k) => k \notin working
    <3>1. AllSure /\ Submits(w, k)
      BY DEF Truly, RowsHold, Followed
    <3>2. Steps(m, n, k)
      BY <1>2
    <3>3. (n.ent[k].state = "queued" \/ n.ent[k].state = "running")
            => mem[w].ent[k].state = "queued" \/ mem[w].ent[k].state = "running"
      BY <3>2 DEF Steps
    <3> QED BY <1>4, <3>1, <3>3, WaitingIsHeld
  <2>3. ASSUME NEW v \in Worker
        PROVE  /\ SweepOwes(v, k)'
               /\ k \notin raced' => SweepsForsaken(v, k)'
               /\ (WillClose(v, k) /\ Forsaken(k)) => WillClose(v, k)'
    <3>1. SweepOwes(v, k) /\ (k \notin raced => SweepsForsaken(v, k))
      BY <2>1 DEF Cleared
    <3>2. CASE v # w
      BY <1>1, <1>3, <1>7, <1>10, <3>1, <3>2 DEF SweepOwes, SweepsForsaken, WillClose
    <3>3. CASE v = w
      <4>1. SweepOwes(w, k)'
        BY <1>1, <1>6, <1>7, <3>1, <3>3 DEF SweepOwes
      <4>2. k \notin raced' => SweepsForsaken(w, k)'
        BY <1>1, <1>6, <1>7, <1>10, <3>1, <3>3 DEF SweepsForsaken
      <4>3. (WillClose(w, k) /\ Forsaken(k)) => WillClose(w, k)'
        BY <1>2, <1>6, <1>7, <2>2 DEF WillClose, n
      <4> QED BY <3>3, <4>1, <4>2, <4>3
    <3> QED BY <3>2, <3>3
  <2>4. k \notin raced' => Closable(k)'
    BY <1>1, <1>10, <2>1, <2>3 DEF Cleared, Closable
  <2> QED BY <2>3, <2>4 DEF Cleared
<1> QED BY <1>9, <1>10, <1>11 DEF RowsHold

-----------------------------------------------------------------------------
(* A process begins, and ends, with nothing under way.                     *)

LEMMA EmptyHolds ==
  ASSUME Truly, NEW w \in Worker,
         \A v \in Worker \ {w} : mem'[v] = mem[v] /\ duty'[v] = duty[v],
         row' = row, submitted' = submitted, audit' = audit, raced' = raced,
         \A k \in Job : /\ duty'[w].submit[k] = "no" /\ duty'[w].stage[k] = "idle"
                        /\ duty'[w].reason[k] = "none" /\ ~Known(mem'[w], k),
         duty'[w].closing = {}, duty'[w].resets = {}, duty'[w].reopen = {},
         duty'[w].cutoff = {}, duty'[w].orphans = {},
         Swept(w)',
         ~mem'[w].up \/ (~duty'[w].known /\ duty'[w].sweep = "due")
  PROVE  RowsHold'
<1>1. ASSUME NEW v \in Worker PROVE Swept(v)'
  BY DEF Truly, RowsHold, Swept
<1>2. ASSUME NEW k \in Job PROVE Followed(k)'
  <2>1. Followed(k) /\ AllSure /\ AllSure'
    BY DEF Truly, RowsHold
  <2>2. /\ mem'[w].ent[k].state = "absent" /\ mem'[w].ent[k].durability = "none"
        /\ mem'[w].chain[k] = <<>>
    BY <2>1 DEF AllSure, Sure, EntrySure, Known
  <2>3. KnownOnce(k)'
    BY <2>1 DEF Followed, KnownOnce, InTable
  <2>4. SubmittedOnce(k)'
    BY <2>1 DEF Followed, SubmittedOnce
  <2>5. ASSUME NEW v \in Worker
        PROVE  /\ (Submits(v, k) /\ Owes(v, k))'
               /\ k \notin raced' => (Reports(v, k) /\ Tells(v, k))'
    <3>1. CASE v = w
      BY <2>2, <3>1 DEF Submits, Owes, Reports, Tells, Ended, Terminal
    <3>2. CASE v # w
      <4>1. /\ Submits(v, k) /\ Owes(v, k)
            /\ k \notin raced => Reports(v, k) /\ Tells(v, k)
        BY <2>1 DEF Followed
      <4>2. mem'[v] = mem[v] /\ duty'[v] = duty[v]
        BY <3>2
      <4> QED BY <4>1, <4>2 DEF Submits, Owes, Reports, Tells
    <3> QED BY <3>1, <3>2
  <2>6. k \notin raced' => Minded(k)'
    <3> SUFFICES ASSUME k \notin raced, audit[k].status = "running", InTable(k)
                 PROVE  \E v \in Worker : WillRun(v, k)'
      BY DEF Minded, InTable
    <3>1. PICK v \in Worker : WillRun(v, k)
      BY <2>1 DEF Followed, Minded
    <3>2. CASE v # w
      BY <3>1, <3>2 DEF WillRun
    <3>3. CASE v = w
      <4>1. CASE k \in mem[w].active \cup duty[w].reopen \cup duty[w].resets
        <5>1. Sure(w, k) /\ Owes(w, k)
          BY <2>1 DEF AllSure, Followed
        <5>2. Known(mem[w], k)
          BY <4>1, <5>1 DEF Sure, EntrySure, Owes, Known
        <5>3. row[k].owner = w
          BY <5>1, <5>2 DEF Sure, RowSure
        <5> QED BY <5>3 DEF WillRun
      <4>2. CASE row[k].owner = w /\ ~Known(mem[w], k)
        BY <4>2 DEF WillRun
      <4> QED BY <3>1, <3>3, <4>1, <4>2 DEF WillRun
    <3> QED BY <3>2, <3>3
  <2> QED BY <2>3, <2>4, <2>5, <2>6 DEF Followed
<1>3. ASSUME NEW k \in Job PROVE Cleared(k)'
  <2>1. Cleared(k) /\ (Forsaken(k) => Forsaken(k)')
    BY DEF Truly, RowsHold, Forsaken, InTable
  <2>2. ASSUME NEW v \in Worker
        PROVE  SweepOwes(v, k)' /\ (k \notin raced' => SweepsForsaken(v, k)')
    <3>1. CASE v = w
      BY <3>1 DEF SweepOwes, SweepsForsaken
    <3>2. CASE v # w
      <4>1. SweepOwes(v, k) /\ (k \notin raced => SweepsForsaken(v, k)) /\ duty'[v] = duty[v]
        BY <2>1, <3>2 DEF Cleared
      <4> QED BY <2>1, <4>1 DEF SweepOwes, SweepsForsaken
    <3> QED BY <3>1, <3>2
  <2>3. Closable(k)'
    BY DEF Closable, WillClose
  <2> QED BY <2>2, <2>3 DEF Cleared
<1> QED BY <1>1, <1>2, <1>3 DEF RowsHold

LEMMA BootsHolds ==
  ASSUME Truly, NEW w \in Worker, Boots(w)
  PROVE  RowsHold'
<1> DEFINE n == [Fresh EXCEPT !.paused = TRUE,
                              !.loading = IF Mode = "memory" THEN "no" ELSE "asked"]
<1>1. mem'[w] = n /\ \A v \in Worker \ {w} : mem'[v] = mem[v]
  BY QueueMoves DEF Boots, Boot
<1>2. n.loading = "asked" /\ \A k \in Job : n.ent[k].state = "absent"
  BY DEF Truly, Fresh, Unknown
<1> HIDE DEF n
<1>3. duty'[w] = JustBooted /\ \A v \in Worker \ {w} : duty'[v] = duty[v]
  BY DEF Truly, Sane, AuditTypeOK, Boots
<1>4. row' = row /\ submitted' = submitted /\ audit' = audit /\ raced' = raced
  BY DEF Boots, Boot
<1>5. \A k \in Job : JustBooted.stage[k] = "idle" /\ JustBooted.reason[k] = "none"
  BY IdleDuties
<1>6. /\ \A k \in Job : JustBooted.submit[k] = "no"
      /\ JustBooted.closing = {} /\ JustBooted.resets = {} /\ JustBooted.reopen = {}
      /\ JustBooted.cutoff = {} /\ JustBooted.orphans = {}
      /\ ~JustBooted.known /\ JustBooted.sweep = "due"
  BY DEF JustBooted, NoDuty
<1>7. Swept(w)'
  BY <1>1, <1>2, <1>3, <1>6 DEF Swept
<1>8. \A k \in Job : ~Known(mem'[w], k)
  BY <1>1, <1>2 DEF Known
<1> QED BY <1>1, <1>3, <1>4, <1>5, <1>6, <1>7, <1>8, EmptyHolds

LEMMA CrashesHolds ==
  ASSUME Truly, NEW w \in Worker, Crashes(w)
  PROVE  RowsHold'
<1>1. mem'[w] = Down /\ \A v \in Worker \ {w} : mem'[v] = mem[v]
  BY QueueMoves DEF Crashes, Crash
<1>2. ~Down.up /\ Down.loading = "no" /\ \A k \in Job : Down.ent[k].state = "absent"
  BY DEF Down, Fresh, Unknown
<1>3. duty'[w] = NoDuty /\ \A v \in Worker \ {w} : duty'[v] = duty[v]
  BY DEF Truly, Sane, AuditTypeOK, Crashes
<1>4. row' = row /\ submitted' = submitted /\ audit' = audit /\ raced' = raced
  BY DEF Crashes, Crash
<1>5. \A k \in Job : NoDuty.stage[k] = "idle" /\ NoDuty.reason[k] = "none"
  BY IdleDuties
<1>6. /\ \A k \in Job : NoDuty.submit[k] = "no"
      /\ NoDuty.closing = {} /\ NoDuty.resets = {} /\ NoDuty.reopen = {}
      /\ NoDuty.cutoff = {} /\ NoDuty.orphans = {}
      /\ NoDuty.known /\ NoDuty.sweep = "done"
  BY DEF NoDuty
<1>7. Swept(w)'
  BY <1>1, <1>2, <1>3, <1>6 DEF Swept
<1>8. \A k \in Job : ~Known(mem'[w], k)
  BY <1>1, <1>2 DEF Known
<1> QED BY <1>1, <1>2, <1>3, <1>4, <1>5, <1>6, <1>7, <1>8, EmptyHolds

LEMMA ClosesHolds ==
  ASSUME Truly, NEW w \in Worker, Closes(w)
  PROVE  RowsHold'
<1> DEFINE d == duty[w]
           m == mem[w]
           n == mem'[w]
<1>1. /\ Close(w) /\ Carries(w, d) /\ raced' = raced /\ audit' = audit
      /\ d \in Duty /\ IInv /\ Founded
      /\ \A k \in Job : d.submit[k] = "no"
      /\ d.closing = {} /\ d.sweep \in {"done", "skipped"}
  BY DEF Closes, Follows, Truly, Sane, AuditTypeOK
<1>2. /\ n.up = m.up /\ n.closed
      /\ n.loading = "no" /\ m.loading = "no"
      /\ \A k \in Job :
           /\ Heads(m, n, k)
           /\ n.ent[k].durability = m.ent[k].durability
           /\ k \in n.deciding <=> k \in m.deciding
           /\ \/ n.ent[k].state = m.ent[k].state
              \/ m.ent[k].state = "queued" /\ n.ent[k].state = "cancelled"
           /\ n.ent[k].cancelRequested = (k \in m.active \/ m.ent[k].cancelRequested)
  <2>1. Close(w) /\ IInv /\ Founded /\ m.up \in BOOLEAN /\ n.up \in BOOLEAN
    BY <1>1 DEF Truly, IInv, Sane, TypeOK, Memory
  <2>2. /\ m.up /\ n.up /\ n.closed /\ n.loading = "no" /\ m.loading = "no"
        /\ \A k \in Job :
             /\ Heads(m, n, k)
             /\ n.ent[k].durability = m.ent[k].durability
             /\ k \in n.deciding <=> k \in m.deciding
             /\ \/ n.ent[k].state = m.ent[k].state
                \/ m.ent[k].state = "queued" /\ n.ent[k].state = "cancelled"
             /\ n.ent[k].cancelRequested = (k \in m.active \/ m.ent[k].cancelRequested)
    BY <2>1, CloseSettles
  <2> HIDE DEF m, n
  <2> QED BY <2>1, <2>2
<1>3. row' = row /\ submitted' = submitted /\ \A v \in Worker \ {w} : mem'[v] = mem[v]
  BY <1>1, QueueMoves DEF Close
<1>4. /\ duty'[w].reopen = d.reopen /\ duty'[w].known = d.known /\ duty'[w].sweep = d.sweep
      /\ duty'[w].cutoff = d.cutoff /\ duty'[w].live = d.live /\ duty'[w].orphans = d.orphans
      /\ duty'[w].submit = d.submit /\ duty'[w].closing = d.closing
      /\ duty'[w].resets = d.resets
      /\ \A u \in Worker \ {w} : duty'[u] = duty[u]
  BY <1>1, CarriesDuty
<1>5. AllSure /\ AllSure' /\ \A k \in Job : Followed(k) /\ Cleared(k)
  BY DEF Truly, RowsHold
<1>6. \A v \in Worker : Swept(v)
  BY DEF Truly, RowsHold
<1>7. \A k \in Job : k \notin d.reopen
  <2>1. d.sweep = "done"
    BY <1>1, <1>6 DEF Swept
  <2> QED BY <1>5, <2>1 DEF Cleared, SweepOwes
<1> HIDE DEF n
<1>8. ASSUME NEW v \in Worker PROVE Swept(v)'
  <2>1. Swept(v)
    BY <1>6
  <2>2. CASE v = w
    BY <1>2, <1>4, <2>1, <2>2 DEF Swept, n
  <2>3. CASE v # w
    BY <1>3, <1>4, <2>1, <2>3 DEF Swept
  <2> QED BY <2>2, <2>3
<1>9. ASSUME NEW k \in Job PROVE Followed(k)'
  <2>1. Followed(k) /\ Sure(w, k) /\ Sure(w, k)' /\ Submits(w, k) /\ Owes(w, k)
    BY <1>5 DEF AllSure, Followed
  <2>2. CASE ~Known(m, k)
    <3>1. m.ent[k].state = "absent" /\ k \notin m.active
      BY <2>1, <2>2 DEF Known, Sure, EntrySure
    <3>2. Steps(m, n, k)
      <4>1. m.ent[k].cancelRequested \in BOOLEAN
        BY <2>1 DEF Sure, EntrySure
      <4> QED BY <1>2, <3>1, <4>1 DEF Steps
    <3>3. RowStill(k) /\ SameDuty(d, d, k)
      BY <1>3 DEF RowStill, InTable, SameDuty
    <3>4. m.closed => n.closed
      BY <1>2
    <3>5. \A v \in Worker : StillAt(v, k)
      BY <1>1, <1>2, <1>3, <1>7, <3>2, <3>3, <3>4, CarriesStill DEF n
    <3> QED BY <1>1, <1>5, <3>3, <3>5, QuietFollowed
  <2>3. CASE Known(m, k)
    <3>1. Known(n, k)
      BY <1>2, <2>3 DEF Known
    <3>2. \A v \in Worker \ {w} : StillAt(v, k)
      BY <1>3, <1>4, <2>1, StaysStill
    <3>3. audit'[k].status # "none"
      BY <1>1, <2>1, <2>3 DEF Sure, RowSure, Followed, SubmittedOnce
    <3>4. Submits(w, k)'
      <4>1. n.ent[k].durability # "pending"
        BY <1>1, <1>2, <2>1 DEF Submits
      <4>2. (n.chain[k] # <<>> /\ n.chain[k][1].op = "create")
              => n.chain[k][1].answer = "none" \/ n.chain[k][1].answer = "ok"
        BY <1>2, <2>1 DEF Submits, Heads
      <4> QED BY <1>1, <1>4, <4>1, <4>2 DEF Submits, n
    <3>5. Owes(w, k)'
      BY <1>1, <1>4, <1>7, <2>1, <3>1, CarriesStage DEF Owes, n
    <3>6. /\ k \in n.active <=> k \in m.active
          /\ k \in n.active => k \notin n.deciding /\ k \notin m.deciding
      BY <1>2, <2>1 DEF Sure, EntrySure, n
    <3>7. ASSUME k \notin raced'
          PROVE  (Reports(w, k) /\ Tells(w, k) /\ Minded(k))'
      <4>1. Reports(w, k) /\ Minded(k)
        BY <1>1, <2>1, <3>7 DEF Followed
      <4>2. Reports(w, k)'
        <5>1. CASE k \in m.active
          <6>1. d.stage[k] \in Handling
            BY <2>1, <5>1 DEF Sure, DutySure
          <6>2. duty'[w].stage[k] = d.stage[k]
            BY <1>1, <3>6, <5>1, <6>1, CarriesStage DEF Handling, n
          <6>3. n.ent[k].cancelRequested
            BY <1>2, <5>1
          <6> QED BY <1>1, <4>1, <6>1, <6>2, <6>3 DEF Reports, Handling, n
        <5>2. CASE k \in m.deciding /\ k \notin m.active
          <6>1. d.stage[k] \in Deciding
            BY <2>1, <5>2 DEF Sure, DutySure
          <6>2. duty'[w].stage[k] = d.stage[k]
            BY <1>1, <1>2, <3>6, <5>2, <6>1, CarriesStage DEF Deciding, n
          <6>3. n.ent[k].cancelRequested = m.ent[k].cancelRequested
            BY <1>2, <2>1, <5>2 DEF Sure, EntrySure
          <6> QED BY <1>1, <4>1, <6>2, <6>3 DEF Reports, n
        <5>3. CASE k \notin m.deciding /\ k \notin m.active
          <6>1. duty'[w].stage[k] = "idle"
            <7>1. n.ent[k].state # "running"
              BY <1>2, <2>1, <5>3 DEF Sure, EntrySure
            <7> QED BY <1>1, <7>1, CarriesStage DEF n
          <6> QED BY <6>1 DEF Reports
        <5> QED BY <5>1, <5>2, <5>3
      <4>3. Tells(w, k)'
        BY <1>2 DEF Tells, n
      <4>4. Minded(k)'
        <5> SUFFICES ASSUME audit[k].status = "running", InTable(k)
                     PROVE  \E v \in Worker : WillRun(v, k)'
          BY <1>1, <1>3 DEF Minded, InTable
        <5>1. PICK v \in Worker : WillRun(v, k)
          BY <4>1 DEF Minded
        <5>2. CASE v # w
          BY <1>3, <1>4, <5>1, <5>2 DEF WillRun
        <5>3. CASE v = w
          BY <1>4, <1>7, <2>3, <3>6, <5>1, <5>3 DEF WillRun, n
        <5> QED BY <5>2, <5>3
      <4> QED BY <4>2, <4>3, <4>4
    <3> QED BY <1>5, <2>1, <2>3, <3>1, <3>2, <3>3, <3>4, <3>5, <3>7, TurnFollowed DEF n
  <2> QED BY <2>2, <2>3
<1>10. ASSUME NEW k \in Job PROVE Cleared(k)'
  <2>1. Cleared(k)
    BY <1>5
  <2>2. Forsaken(k)' <=> Forsaken(k)
    <3>1. \A v \in Worker : duty'[v].submit[k] = duty[v].submit[k]
      BY <1>4
    <3> QED BY <1>1, <1>3, <3>1 DEF Forsaken, InTable
  <2>3. ASSUME NEW v \in Worker
        PROVE  /\ SweepOwes(v, k)'
               /\ k \notin raced' => SweepsForsaken(v, k)'
               /\ WillClose(v, k) => WillClose(v, k)'
    <3>1. SweepOwes(v, k) /\ (k \notin raced => SweepsForsaken(v, k))
      BY <2>1 DEF Cleared
    <3>2. CASE v # w
      BY <1>1, <1>3, <1>4, <2>2, <3>1, <3>2 DEF SweepOwes, SweepsForsaken, WillClose
    <3>3. CASE v = w
      <4>1. SweepOwes(w, k)'
        BY <1>1, <1>4, <3>1, <3>3 DEF SweepOwes
      <4>2. k \notin raced' => SweepsForsaken(w, k)'
        BY <1>1, <1>4, <2>2, <3>1, <3>3 DEF SweepsForsaken
      <4>3. WillClose(w, k)'
        BY <1>2 DEF WillClose, n
      <4> QED BY <3>3, <4>1, <4>2, <4>3
    <3> QED BY <3>2, <3>3
  <2>4. k \notin raced' => Closable(k)'
    BY <1>1, <2>1, <2>2, <2>3 DEF Cleared, Closable
  <2> QED BY <2>3, <2>4 DEF Cleared
<1> QED BY <1>8, <1>9, <1>10 DEF RowsHold

-----------------------------------------------------------------------------
(* What the queue does by itself.                                          *)

LEMMA StillSays ==
  ASSUME NEW k \in Job, AllSure, AllSure', Followed(k), NEW v \in Worker, StillAt(v, k),
         audit'[k] = audit[k], k \in submitted <=> k \in submitted', raced \subseteq raced'
  PROVE  /\ (Submits(v, k) /\ Owes(v, k))'
         /\ k \notin raced' => (Reports(v, k) /\ Tells(v, k))'
<1>1. Submits(v, k) /\ Owes(v, k)
  BY DEF Followed
<1>2. Submits(v, k)'
  BY <1>1 DEF Submits, StillAt, Still, SameDuty, Steps, Heads
<1>3. Owes(v, k)'
  <2>1. k \in duty'[v].closing => mem'[v].ent[k].state = "cancelled"
    BY <1>1 DEF Owes, StillAt, Still, SameDuty, Steps
  <2>2. k \in duty'[v].resets => Known(mem'[v], k)
    BY <1>1, StillKnown DEF Owes, StillAt, Still, SameDuty
  <2>3. k \in duty'[v].reopen => /\ mem'[v].paused /\ k \notin mem'[v].starting
                                 /\ \/ mem'[v].ent[k].state = "queued"
                                    \/ mem'[v].ent[k].state = "cancelled"
    BY <1>1 DEF Owes, StillAt, Still, SameDuty, Rests
  <2> QED BY <2>1, <2>2, <2>3 DEF Owes, StillAt, Still
<1>4. ASSUME k \notin raced'
      PROVE  (Reports(v, k) /\ Tells(v, k))'
  <2>1. Reports(v, k) /\ Tells(v, k)
    BY <1>4 DEF Followed
  <2>2. Reports(v, k)'
    BY <2>1 DEF Reports, StillAt, Still, Steps, Complete, Failed
  <2>3. Ended(mem'[v], k) => mem'[v].ent[k].state = mem[v].ent[k].state /\ Ended(mem[v], k)
    BY StillKnown DEF StillAt, Ended, Terminal
  <2>4. Tells(v, k)'
    BY <2>1, <2>3 DEF Tells, StillAt, Still, SameDuty, Complete, Failed
  <2> QED BY <2>2, <2>4
<1> QED BY <1>2, <1>3, <1>4

(* A store call that is answered makes a row of a job being submitted,     *)
(* takes away the row of one that has ended, or leaves the row with w.     *)
LEMMA StoreFacts ==
  ASSUME Truly, NEW w \in Worker, NEW j \in Job, StoreExecutes(w, j)
  PROVE  /\ \A k \in Job : k # j => row'[k] = row[k]
         /\ \/ RowStill(j)
            \/ Known(mem[w], j) /\ mem[w].ent[j].durability = "pending" /\ InTable(j)'
            \/ Known(mem[w], j) /\ Ended(mem[w], j) /\ ~InTable(j)'
<1> DEFINE m == mem[w]
           c == m.chain[j]
           x == Head(c)
           done == Executed(w, j, x)
           said == Answer(w, j, x)
<1>1. /\ TypeOK /\ m \in Memory /\ c # <<>> /\ row' = done /\ submitted' = submitted
      /\ x.answer = "none" /\ Mode = "leased" /\ Founded /\ Sure(w, j) /\ Sound(m, j)
  BY DEF Truly, Sane, IInv, TypeOK, StoreExecutes, Asked, AllSure, AllTidy, Tidy
<1>2. c \in Seq(Write) /\ 1 \in 1..Len(c) /\ x = c[1] /\ x \in Write
  <2>1. c \in Seq(Write)
    BY <1>1 DEF Memory
  <2> HIDE DEF c
  <2> QED BY <1>1, <2>1, EmptySeq
<1> HIDE DEF x
<1>3. /\ \A k \in Job : k # j => done[k] = row[k]
      /\ (x.op # "remove" /\ said = "ok") => Mine(done, w, j)
      /\ (x.op # "remove" /\ said # "ok") => done = row
  BY <1>1, <1>2, ExecutedHere
<1>4. x.op = "remove" => done[j].state = "absent" \/ done[j] = row[j]
  <2>1. x.op = "remove" =>
          done = IF Claimable(row, w, j) THEN [row EXCEPT ![j] = NoRow] ELSE row
    BY DEF Executed, Removed
  <2>2. row \in [Job -> Row] /\ NoRow.state = "absent"
    BY <1>1 DEF TypeOK, Table, NoRow
  <2> HIDE DEF done
  <2> QED BY <2>1, <2>2
<1>5. Known(m, j)
  BY <1>1 DEF Sure, EntrySure, Known
<1>6. x.op \in {"save", "acquire"} => Mine(row, w, j)
  <2>1. Grounded(c, Mine(row, w, j))
    BY <1>1 DEF Founded
  <2> QED BY <1>2, <2>1 DEF Grounded
<1> HIDE DEF done, said
<1>7. \/ RowStill(j)
      \/ m.ent[j].durability = "pending" /\ InTable(j)'
      \/ Ended(m, j) /\ ~InTable(j)'
  <2>1. row'[j] = row[j] => RowStill(j)
    BY <1>1 DEF RowStill, InTable
  <2>2. CASE x.op = "create"
    <3>1. m.ent[j].durability = "pending"
      BY <1>1, <1>2, <2>2 DEF Sound, Ordered
    <3> QED BY <1>1, <1>3, <2>1, <2>2, <3>1 DEF Mine, InTable
  <2>3. CASE x.op = "remove"
    <3>1. Ended(m, j)
      BY <1>1, <1>2, <2>3 DEF Sure, RowSure
    <3> QED BY <1>1, <1>4, <2>1, <2>3, <3>1 DEF InTable
  <2>4. CASE x.op \in {"save", "acquire"}
    <3>1. (said = "ok") => RowStill(j)
      BY <1>1, <1>3, <1>6, <2>4 DEF Mine, RowStill, InTable
    <3> QED BY <1>1, <1>3, <2>1, <2>4, <3>1
  <2>5. x.op \in {"create", "save", "remove", "acquire"}
    BY <1>2 DEF Write
  <2> QED BY <2>2, <2>3, <2>4, <2>5
<1> QED BY <1>1, <1>3, <1>5, <1>7

LEMMA StoreExecutesHolds ==
  ASSUME Truly, NEW w \in Worker, NEW j \in Job, StoreExecutes(w, j),
         Carries(w, duty[w]), raced' = raced, audit' = audit
  PROVE  RowsHold'
<1> DEFINE m == mem[w]
           n == mem'[w]
           d == duty[w]
           X == {j}
<1>1. /\ d \in Duty /\ IInv /\ Founded /\ AllSure /\ AllSure' /\ Followed(j) /\ Cleared(j)
      /\ Sure(w, j) /\ Sure(w, j)' /\ Submits(w, j) /\ Owes(w, j)
  BY DEF Truly, Sane, AuditTypeOK, RowsHold, AllSure, Followed
<1>2. GoesOn(m, n, {})
  BY <1>1, StoreExecutesGoesOn
<1>3. submitted' = submitted /\ \A v \in Worker \ {w} : mem'[v] = mem[v]
  BY QueueMoves DEF StoreExecutes
<1>4. /\ \A k \in Job : k # j => row'[k] = row[k]
      /\ \/ RowStill(j)
         \/ Known(mem[w], j) /\ mem[w].ent[j].durability = "pending" /\ InTable(j)'
         \/ Known(mem[w], j) /\ Ended(mem[w], j) /\ ~InTable(j)'
  BY StoreFacts
<1>5. \A k \in Job : k # j => RowStill(k)
  BY <1>3, <1>4 DEF RowStill, InTable
<1>6. \A v \in Worker : duty'[v].submit = duty[v].submit
  BY <1>1, CarriesDuty
<1>7. /\ \A v \in Worker : StillAt(v, j) /\ SameSweep(duty[v], duty'[v], j)
  <2>1. SameDuty(d, d, j)
    BY DEF SameDuty
  <2>2. /\ Steps(m, n, j) /\ Heads(m, n, j) /\ (m.paused => Rests(m, n, j)) /\ Flags(m, n)
    BY <1>2 DEF GoesOn
  <2>3. d.stage[j] = d.stage[j] /\ d.reason[j] = d.reason[j]
    OBVIOUS
  <2>4. j \in d.reopen => n.paused /\ Rests(m, n, j)
    BY <1>1, <2>2 DEF Owes, Flags
  <2>5. n.up = m.up /\ (m.closed => n.closed)
    BY <2>2 DEF Flags
  <2>6. \A v \in Worker : StillAt(v, j)
    BY <1>1, <1>3, <2>1, <2>2, <2>4, <2>5, CarriesStill
  <2>7. SameSweep(d, duty'[w], j) /\ \A v \in Worker \ {w} : SameSweep(duty[v], duty'[v], j)
    BY <1>1, CarriesDuty DEF SameSweep
  <2> QED BY <2>6, <2>7
<1>8. CASE RowStill(j)
  <2>1. \A k \in Job : RowStill(k)
    BY <1>5, <1>8
  <2> DEFINE E == {}
  <2>2. \A k \in Job : k \notin E
    OBVIOUS
  <2>3. GoesOn(m, n, E)
    BY <1>2
  <2> HIDE DEF E, n, m, d
  <2> QED BY <1>1, <1>3, <2>1, <2>2, <2>3, CarriesAround DEF n, m, d
<1>9. CASE ~RowStill(j)
  <2>1. /\ Known(m, j)
        /\ \/ m.ent[j].durability = "pending" /\ InTable(j)'
           \/ Ended(m, j) /\ ~InTable(j)'
    BY <1>4, <1>9
  <2>2. /\ Known(n, j)
        /\ Ended(n, j) <=> Ended(m, j)
        /\ n.ent[j].durability = m.ent[j].durability
    BY <1>7, <2>1, StillKnown DEF StillAt, Still, Steps
  <2>3. /\ (Submits(w, j) /\ Owes(w, j))'
        /\ j \notin raced' => (Reports(w, j) /\ Tells(w, j))'
    BY <1>1, <1>3, <1>7, StillSays
  <2>4. audit'[j].status # "none"
    BY <1>1, <2>1 DEF Sure, RowSure, Followed, SubmittedOnce
  <2>5. Minded(j)'
    <3>1. m.ent[j].durability = "pending" => audit[j].status # "running"
      BY <1>1 DEF Submits
    <3> QED BY <2>1, <3>1 DEF Minded
  <2>6. Followed(j)'
    BY <1>1, <1>7, <2>1, <2>2, <2>3, <2>4, <2>5, TurnFollowed
  <2>7. Cleared(j)'
    <3>1. CASE m.ent[j].durability = "pending" /\ InTable(j)'
      <4>1. d.submit[j] # "no" /\ duty'[w].submit[j] # "no"
        BY <1>1, <1>6, <3>1 DEF Submits
      <4>2. ~Forsaken(j) /\ ~Forsaken(j)'
        BY <4>1 DEF Forsaken
      <4>3. \A v \in Worker : j \in duty'[v].reopen => j \in duty[v].reopen
        BY <1>7 DEF StillAt, Still, SameDuty
      <4> QED BY <1>1, <1>7, <2>4, <4>2, <4>3, HeldCleared
    <3>2. CASE Ended(m, j) /\ ~InTable(j)'
      <4>1. InTable(j)
        BY <1>3, <1>9, <3>2 DEF RowStill, InTable
      <4>2. ~Forsaken(j)
        BY <4>1 DEF Forsaken
      <4>3. ASSUME NEW v \in Worker
            PROVE  /\ SweepOwes(v, j)'
                   /\ j \notin raced' => SweepsForsaken(v, j)'
        <5>1. /\ SweepOwes(v, j) /\ (j \notin raced => SweepsForsaken(v, j))
              /\ SameSweep(duty[v], duty'[v], j) /\ StillAt(v, j)
          BY <1>1, <1>7 DEF Cleared
        <5>2. SweepOwes(v, j)'
          BY <5>1 DEF SweepOwes, SameSweep, StillAt, Still, SameDuty
        <5>3. j \notin raced' => SweepsForsaken(v, j)'
          BY <4>2, <5>1 DEF SweepsForsaken, SameSweep
        <5> QED BY <5>2, <5>3
      <4>4. j \notin raced' => Closable(j)'
        <5> SUFFICES ASSUME j \notin raced', audit'[j].status \in Open
                     PROVE  WillClose(w, j)'
          BY DEF Closable
        <5>1. Ended(n, j)
          BY <2>2, <3>2
        <5>2. mem'[w].closed \/ j \in duty'[w].closing
          BY <2>3, <5>1 DEF Tells
        <5> QED BY <5>2 DEF WillClose
      <4> QED BY <4>3, <4>4 DEF Cleared
    <3> QED BY <2>1, <3>1, <3>2
  <2>8. GoesOn(m, n, X)
    BY <1>2, GoesOnMore
  <2>9. \A k \in Job : k \in X <=> k = j
    OBVIOUS
  <2> HIDE DEF X, n, m, d
  <2> QED BY <1>1, <1>3, <1>5, <2>6, <2>7, <2>8, <2>9, CarriesAround DEF n, m, d
<1> QED BY <1>8, <1>9

LEMMA OwnHolds ==
  ASSUME Truly, NEW w \in Worker, Carries(w, duty[w]), raced' = raced, audit' = audit,
         GoesOn(mem[w], mem'[w], {}), \A v \in Worker \ {w} : mem'[v] = mem[v],
         \A k \in Job : RowStill(k)
  PROVE  RowsHold'
<1> DEFINE d == duty[w]
           X == {}
<1>1. d \in Duty
  BY DEF Truly, Sane, AuditTypeOK
<1>2. \A k \in Job : k \notin X
  OBVIOUS
<1>3. GoesOn(mem[w], mem'[w], X)
  OBVIOUS
<1> HIDE DEF X, d
<1> QED BY <1>1, <1>2, <1>3, CarriesAround DEF d

LEMMA QueueOwnHolds ==
  ASSUME Truly, NEW w \in Worker, QueueOwnSteps(w)
  PROVE  RowsHold'
<1>1. /\ Carries(w, duty[w]) /\ raced' = raced /\ audit' = audit
      /\ IInv /\ Founded /\ TypeOK /\ Mode = "leased" /\ mem[w] \in Memory
      /\ used'["error"] = 0
  BY DEF QueueOwnSteps, Follows, Truly, Sane, IInv, TypeOK
<1>2. GoesOn(mem[w], mem'[w], {})
  BY <1>1, QueueOwnGoesOn DEF QueueOwnSteps
<1>3. ASSUME row' = row, submitted' = submitted, NEW n, Becomes(w, n)
      PROVE  RowsHold'
  <2>1. \A k \in Job : RowStill(k)
    BY <1>3 DEF RowStill, InTable
  <2> QED BY <1>1, <1>2, <1>3, <2>1, QueueMoves, OwnHolds
<1>4. ASSUME NEW j \in Job, StoreExecutes(w, j) PROVE RowsHold'
  BY <1>1, <1>4, StoreExecutesHolds
<1>5. ASSUME NEW j \in Job, WriteSettles(w, j) \/ AcquireSettles(w, j) \/ Wake(w, j)
      PROVE  RowsHold'
  <2>1. row' = row /\ submitted' = submitted /\ \E n : Becomes(w, n)
    BY <1>5, Zenon DEF WriteSettles, AcquireSettles, Wake
  <2> QED BY <1>3, <2>1
<1>6. ASSUME NEW b \in Beats, BeatStarts(w, b) \/ Renewed(w, b) PROVE RowsHold'
  <2>1. row' = row /\ submitted' = submitted /\ \E n : Becomes(w, n)
    BY <1>6, Zenon DEF BeatStarts, Renewed
  <2> QED BY <1>3, <2>1
<1>7. ASSUME NEW b \in Beats, RenewExecutes(w, b) PROVE RowsHold'
  <2> DEFINE ids == mem[w].beats[b].ids
  <2>1. row' = RenewedRows(row, w, ids) /\ submitted' = submitted /\ \E n : Becomes(w, n)
    BY <1>7, Zenon DEF RenewExecutes
  <2>2. ids \in SUBSET Job
    BY <1>1 DEF Memory, Beat
  <2> HIDE DEF ids
  <2>3. RowsStand /\ \A k \in Job : row'[k].owner = row[k].owner
    BY <1>1, <2>1, <2>2, RenewedStand
  <2>4. \A k \in Job : RowStill(k)
    BY <2>1, <2>3 DEF RowStill, InTable, RowsStand
  <2> QED BY <1>1, <1>2, <2>1, <2>4, QueueMoves, OwnHolds
<1>8. ASSUME NEW b \in Beats, AdoptExecutes(w, b) PROVE RowsHold'
  <2>1. PICK S \in AdoptionBatches(row, w) :
          row' = ClaimedAsQueued(row, w, S) /\ \E n : Becomes(w, n)
    BY <1>8, Zenon DEF AdoptExecutes
  <2>2. RowsStand /\ Takes(w) /\ \A k \in Job : k \notin S => row'[k] = row[k]
    BY <1>1, <2>1, AdoptedStand
  <2>3. \A k \in S : InTable(k)
    BY DEF AdoptionBatches, Abandoned, Outstanding, InTable
  <2>4. submitted' = submitted
    BY <1>8 DEF AdoptExecutes
  <2>5. \A k \in Job : RowStill(k)
    BY <2>2, <2>3, <2>4, TakenStill
  <2> QED BY <1>1, <1>2, <2>1, <2>5, QueueMoves, OwnHolds
<1>9. \A j \in Job : ~StoreFails(w, j)
  BY <1>1, SpentError DEF StoreFails
<1>10. \A b \in Beats : ~BeatFails(w, b)
  BY <1>1, SpentError DEF BeatFails
<1> QED BY <1>4, <1>5, <1>6, <1>7, <1>8, <1>9, <1>10 DEF QueueOwnSteps

(* A lease that runs out in time leaves everything else.                   *)
LEMMA TimeHolds ==
  ASSUME Truly, TimePasses
  PROVE  RowsHold'
<1>1. TypeOK /\ used \in [Kinds -> Nat] /\ "lapse" \in Kinds /\ used'["lapse"] = 0
  BY KindsNamed DEF Truly, Sane, IInv, TypeOK
<1>2. PICK j \in Job : LeaseAges(j) \/ LeaseLapses(j)
  BY DEF TimePasses
<1>3. ~LeaseLapses(j)
  BY <1>1 DEF LeaseLapses, Spend
<1>4. /\ row' = [row EXCEPT ![j].live = FALSE]
      /\ mem' = mem /\ submitted' = submitted /\ audit' = audit /\ duty' = duty /\ raced' = raced
  BY <1>2, <1>3 DEF LeaseAges, TimePasses
<1>5. \A k \in Job : row'[k].state = row[k].state /\ row'[k].owner = row[k].owner
  BY <1>1, <1>4 DEF TypeOK, Table, Row
<1>6. ASSUME NEW k \in Job PROVE Followed(k)' /\ Cleared(k)'
  <2>1. Followed(k) /\ Cleared(k) /\ AllSure /\ AllSure'
    BY DEF Truly, RowsHold
  <2>2. RowStill(k)
    BY <1>4, <1>5 DEF RowStill, InTable
  <2>3. \A v \in Worker : StillAt(v, k) /\ SameSweep(duty[v], duty'[v], k)
    BY <1>4, <2>1, StaysStill
  <2> QED BY <1>4, <2>1, <2>2, <2>3, QuietFollowed, QuietCleared
<1>7. ASSUME NEW v \in Worker PROVE Swept(v)'
  BY <1>4 DEF Truly, RowsHold, Swept
<1> QED BY <1>6, <1>7 DEF RowsHold

-----------------------------------------------------------------------------
(* The inductive step.                                                     *)

(* The steps that need a write, or a refusal, that has not happened.       *)
LEMMA NothingFails ==
  ASSUME Truly, NEW w \in Worker
  PROVE  /\ \A j \in Job : ~SubmitRefused(w, j)
         /\ ~RecoverFails(w) /\ ~SweepFails(w)
<1>1. TypeOK /\ used'["error"] = 0
  BY DEF Truly, Sane, IInv
<1>2. ~Spend("error")
  BY <1>1, SpentError
<1>3. \A j \in Job : ~SubmitRefused(w, j)
  BY DEF Truly, RowsHold, Followed, Submits, SubmitRefused
<1> QED BY <1>2, <1>3 DEF RecoverFails, LoadFails, SweepFails

LEMMA RowsHoldOn ==
  ASSUME Truly, AuditNext
  PROVE  RowsHold'
<1>1. ASSUME NEW w \in Worker, NEW j \in Job,
             \/ SubmitInserts(w, j) \/ SubmitEnqueues(w, j) \/ SubmitStored(w, j)
             \/ CancelWaiting(w, j) \/ CancelStarted(w, j) \/ CancelWrites(w, j)
             \/ AdoptionResets(w, j)
      PROVE  RowsHold'
  BY <1>1, SubmitInsertsHolds, SubmitEnqueuesHolds, SubmitStoredHolds, CancelWaitingHolds,
     CancelStartedHolds, CancelWritesHolds, AdoptionResetsHolds
<1>2. ASSUME NEW w \in Worker, NEW j \in Job, RunSteps(w, j)
      PROVE  RowsHold'
  BY <1>2, RunStartsHolds, RunWorksHolds, RunEndsHolds, RunReturnedHolds, RunThrewHolds,
     DecideRetryHolds, RetryReopensHolds, RetryDecidedHolds DEF RunSteps
<1>3. ASSUME NEW w \in Worker, NEW b \in Beats, AdoptedHere(w, b)
      PROVE  RowsHold'
  BY <1>3, AdoptedHereHolds
<1>4. ASSUME NEW w \in Worker,
             \/ Boots(w) \/ CutoffRead(w) \/ Loads(w)
             \/ Restores(w) \/ RecoverReopens(w) \/ Resumes(w)
             \/ SweepAsks(w) \/ SweepReads(w) \/ SweepWrites(w)
             \/ Closes(w) \/ Crashes(w) \/ QueueOwnSteps(w)
      PROVE  RowsHold'
  BY <1>4, BootsHolds, CutoffReadHolds, LoadsHolds, RestoresHolds, RecoverReopensHolds,
     ResumesHolds, SweepAsksHolds, SweepReadsHolds, SweepWritesHolds, ClosesHolds,
     CrashesHolds, QueueOwnHolds
<1> QED BY <1>1, <1>2, <1>3, <1>4, TimeHolds, NothingFails DEF AuditNext

-----------------------------------------------------------------------------
(* The rows of the table beneath the scheduler.                            *)

LEMMA BeneathInHand ==
  ASSUME Mode = "leased", IInv, IInv', AllTidy, RowsInHand, Beneath
  PROVE  RowsInHand' /\ \A kind \in Kinds : used'[kind] = 0 => used[kind] = 0
<1>1. CASE Next
  BY <1>1, StepInHand, StepSpends DEF Spends, IInv
<1>2. CASE UNCHANGED vars
  BY <1>2 DEF vars, RowsInHand, Founded, Grounded, Creating, Mine, Possessed, Possesses,
     Known, Ended, Coming
<1>3. CASE UNCHANGED <<row, mem, submitted, lapsed>> /\ Spend("error")
  <2>1. \A kind \in Kinds : used'[kind] = 0 => used[kind] = 0
    BY <1>3, SpendsMore, KindsNamed DEF IInv
  <2>2. (Founded => Founded') /\ (Possessed => Possessed')
    BY <1>3 DEF Founded, Grounded, Creating, Mine, Possessed, Possesses, Known, Ended, Coming
  <2> QED BY <2>1, <2>2, KindsNamed DEF RowsInHand
<1> QED BY <1>1, <1>2, <1>3 DEF Beneath

LEMMA HandsBeneath ==
  ASSUME Mode = "leased"
  PROVE  AuditSpec => [](IInv /\ RowsInHand)
<1>1. AuditInit => IInv /\ RowsInHand
  BY InitType, InitSafe, InitFounded, InitPossessed DEF IInv, AuditInit, RowsInHand
<1>2. IInv /\ RowsInHand /\ AllTidy /\ [AuditNext]_auditVars => (IInv /\ RowsInHand)'
  BY StepBeneath, StillBeneath, ClaimsCarry, BeneathInHand
<1> QED BY <1>1, <1>2, QueueBeneath, PTL DEF AuditSpec

LEMMA InitRowsTrue == AuditInit => RowsTrue
<1> SUFFICES ASSUME AuditInit PROVE RowsTrue
  OBVIOUS
<1> DEFINE f == Fresh
<1>1. f \in Memory /\ f.loading = "no" /\ \A k \in Job : f.chain[k] = <<>> /\ f.ent[k] = Unknown
  BY EmptyTypes DEF Fresh
<1> HIDE DEF f
<1>2. \A w \in Worker : mem[w] = ScheduleHeartbeat(f)
  BY DEF AuditInit, Init, f
<1>3. /\ ScheduleHeartbeat(f).chain = f.chain /\ ScheduleHeartbeat(f).ent = f.ent
      /\ ScheduleHeartbeat(f).loading = f.loading
  BY <1>1, ScheduleHeartbeatAgrees DEF Agree
<1>4. \A w \in Worker, k \in Job :
        /\ mem[w].loading = "no" /\ mem[w].chain[k] = <<>>
        /\ mem[w].ent[k].state = "absent" /\ mem[w].ent[k].durability = "none"
  BY <1>1, <1>2, <1>3 DEF Unknown
<1>5. /\ \A k \in Job : ~InTable(k) /\ audit[k].status = "none"
      /\ submitted = {}
  BY DEF AuditInit, Init, InTable, NoRow
<1>6. \A w \in Worker, k \in Job :
        /\ duty[w].submit[k] = "no" /\ duty[w].stage[k] = "idle" /\ duty[w].reason[k] = "none"
        /\ duty[w].closing = {} /\ duty[w].resets = {} /\ duty[w].reopen = {}
        /\ duty[w].cutoff = {} /\ duty[w].orphans = {}
  BY DEF AuditInit, NoDuty
<1>7. ASSUME NEW w \in Worker PROVE Swept(w)
  <2>1. duty[w].known /\ duty[w].sweep = "done"
    BY DEF AuditInit, NoDuty
  <2>2. mem[w].loading = "no"
    BY <1>1, <1>2, <1>3
  <2> QED BY <2>1, <2>2 DEF Swept
<1>8. ASSUME NEW k \in Job PROVE Followed(k) /\ Cleared(k)
  <2>1. KnownOnce(k) /\ SubmittedOnce(k) /\ Minded(k)
    BY <1>4, <1>5, <1>6 DEF KnownOnce, SubmittedOnce, Minded, Known
  <2>2. ASSUME NEW w \in Worker
        PROVE  Submits(w, k) /\ Owes(w, k) /\ Reports(w, k) /\ Tells(w, k)
    <3>1. Submits(w, k)
      BY <1>4, <1>6 DEF Submits
    <3>2. Owes(w, k)
      BY <1>6 DEF Owes
    <3>3. Reports(w, k)
      BY <1>6 DEF Reports
    <3>4. Tells(w, k)
      BY <1>4 DEF Tells, Ended, Terminal
    <3> QED BY <3>1, <3>2, <3>3, <3>4
  <2>3. Cleared(k)
    BY <1>5, <1>6 DEF Cleared, SweepOwes, SweepsForsaken, Closable, Open
  <2> QED BY <2>1, <2>2, <2>3 DEF Followed
<1> QED BY <1>7, <1>8 DEF RowsTrue

(* What a state is in which nothing has gone wrong.                        *)
InGoodOrder == IInv /\ AllTidy /\ RowsInHand /\ AuditTypeOK /\ Attended

LEMMA OrderBeneath ==
  ASSUME Mode = "leased"
  PROVE  AuditSpec => []InGoodOrder
BY QueueBeneath, HandsBeneath, AuditTypeCorrect, RunsAreAttended, PTL DEF InGoodOrder

LEMMA OrderIsSane == InGoodOrder /\ Undisturbed => Sane /\ AllSure
BY SaneIsSure DEF InGoodOrder, Undisturbed, RowsInHand, Sane

LEMMA OrderIsSaneThen == (InGoodOrder /\ Undisturbed)' => (Sane /\ AllSure)'
BY OrderIsSane, PTL

LEMMA RowsTrueOn ==
  ASSUME Mode = "leased", InGoodOrder, InGoodOrder', RowsTrue, [AuditNext]_auditVars
  PROVE  RowsTrue'
<1> SUFFICES ASSUME Undisturbed' PROVE RowsHold'
  BY DEF RowsTrue, RowsHold
<1>1. Undisturbed
  <2>1. \A kind \in Kinds : used'[kind] = 0 => used[kind] = 0
    BY StepBeneath, StillBeneath, BeneathInHand DEF InGoodOrder
  <2> QED BY <2>1, KindsNamed DEF Undisturbed
<1>2. RowsHold /\ Sane /\ AllSure /\ Sane' /\ AllSure'
  BY <1>1, OrderIsSane, OrderIsSaneThen DEF RowsTrue, RowsHold
<1>3. Truly
  BY <1>2 DEF Truly, Undisturbed
<1>4. CASE AuditNext
  BY <1>3, <1>4, RowsHoldOn
<1>5. CASE UNCHANGED auditVars
  <2>1. \A w \in Worker : Swept(w)'
    BY <1>2, <1>5 DEF auditVars, vars, RowsHold, Swept
  <2>2. ASSUME NEW k \in Job PROVE Followed(k)' /\ Cleared(k)'
    <3>1. Followed(k) /\ Cleared(k) /\ RowStill(k) /\ audit' = audit /\ raced' = raced
      BY <1>2, <1>5 DEF auditVars, vars, RowsHold, RowStill, InTable
    <3>2. \A v \in Worker : StillAt(v, k) /\ SameSweep(duty[v], duty'[v], k)
      BY <1>5, <3>1, StaysStill DEF auditVars, vars
    <3> QED BY <1>2, <3>1, <3>2, QuietFollowed, QuietCleared
  <2> QED BY <2>1, <2>2 DEF RowsHold
<1> QED BY <1>4, <1>5

(* RowsTrue: as long as no write has failed and every claim has been kept, *)
(* what every process is about to say of an audit agrees with what its     *)
(* queue knows of the job, an open row has its job in the store or a       *)
(* process that will close it, and what a sweep is about to close has      *)
(* nobody else to close it.                                                *)
THEOREM RowsStayTrue ==
  ASSUME Mode = "leased"
  PROVE  AuditSpec => []RowsTrue
<1>1. AuditInit => RowsTrue
  BY InitRowsTrue
<1>2. InGoodOrder /\ InGoodOrder' /\ RowsTrue /\ [AuditNext]_auditVars => RowsTrue'
  BY RowsTrueOn
<1> QED BY <1>1, <1>2, OrderBeneath, PTL DEF AuditSpec

(* VerdictTold: a job its queue has settled has the row that says so.      *)
THEOREM VerdictsAreTold ==
  ASSUME Mode = "leased"
  PROVE  AuditSpec => []VerdictTold
<1>1. RowsTrue => VerdictTold
  <2> SUFFICES ASSUME RowsTrue, NEW w \in Worker, NEW j \in Job \ raced,
                      Settled(w, j), Undisturbed
               PROVE  CASE mem[w].ent[j].state = "complete" -> audit[j] = Complete
                        [] mem[w].ent[j].state = "failed"   -> audit[j] = Failed
                        [] OTHER -> audit[j].status \notin Open
    BY DEF VerdictTold, Complete, Failed
  <2>1. Tells(w, j)
    BY DEF RowsTrue, Followed
  <2>2. Ended(mem[w], j) /\ ~mem[w].closed /\ j \notin duty[w].closing
    BY DEF Settled, Ended
  <2>3. /\ mem[w].ent[j].state = "complete" => audit[j] = Complete
        /\ mem[w].ent[j].state = "failed" => audit[j] = Failed
        /\ audit[j].status \notin Open
    BY <2>1, <2>2 DEF Tells
  <2> QED BY <2>3
<1> QED BY <1>1, RowsStayTrue, PTL

(* An open row, when every process has nothing more to write, has its job  *)
(* in the store, owned by a worker that knows it or has just adopted it.   *)
LEMMA OpenIsOwned ==
  ASSUME InGoodOrder, RowsTrue, Undisturbed, NEW j \in Job \ raced,
         audit[j].status \in Open, \A w \in Worker : Quiet(w, j)
  PROVE  /\ InTable(j)
         /\ \E w \in Worker :
              /\ Sure(w, j) /\ Tells(w, j) /\ row[j].owner = w /\ mem[w].loading = "no"
              /\ \/ Known(mem[w], j)
                 \/ \E b \in Beats : mem[w].beats[b].phase = "adopted"
                                     /\ j \in mem[w].beats[b].got.jobs
<1>1. AllSure /\ Followed(j) /\ Cleared(j) /\ \A w \in Worker : Swept(w)
  BY OrderIsSane DEF RowsTrue
<1>2. InTable(j)
  <2>1. \A w \in Worker : ~WillClose(w, j)
    BY DEF Quiet, WillClose
  <2>2. ~Forsaken(j)
    BY <1>1, <2>1 DEF Cleared, Closable
  <2>3. audit[j].status # "none"
    BY DEF Open
  <2> QED BY <2>2, <2>3 DEF Forsaken, Quiet
<1>3. PICK w \in Worker : row[j].owner = w
  BY <1>1, <1>2 DEF Followed, KnownOnce
<1>4. mem[w].loading = "no" /\ mem[w].up
  <2>1. duty[w].sweep = "done" /\ mem[w].up
    BY DEF Quiet
  <2> QED BY <1>1, <2>1 DEF Swept
<1>5. Sure(w, j) /\ Tells(w, j)
  BY <1>1 DEF AllSure, Followed
<1>6. Known(mem[w], j) \/ Coming(mem[w], j)
  BY <1>2, <1>3, <1>4, <1>5 DEF Sure, RowSure
<1> QED BY <1>2, <1>3, <1>4, <1>5, <1>6 DEF Coming

(* OpenIsQueued: no audit waits for an answer that is not coming.          *)
THEOREM OpenRowsAreQueued ==
  ASSUME Mode = "leased"
  PROVE  AuditSpec => []OpenIsQueued
<1>1. InGoodOrder /\ RowsTrue => OpenIsQueued
  <2> SUFFICES ASSUME InGoodOrder, RowsTrue, NEW j \in Job \ raced, audit[j].status \in Open,
                      Undisturbed, \A w \in Worker : Quiet(w, j)
               PROVE  \E w \in Worker : ~Unaware(mem[w], j) \/ j \in mem[w].active \cup mem[w].deciding
    BY DEF OpenIsQueued
  <2>1. PICK w \in Worker :
          /\ Sure(w, j) /\ Tells(w, j)
          /\ \/ Known(mem[w], j)
             \/ \E b \in Beats : j \in mem[w].beats[b].got.jobs
    BY OpenIsOwned
  <2>2. CASE \E b \in Beats : j \in mem[w].beats[b].got.jobs
    BY <2>2 DEF Unaware
  <2>3. CASE Known(mem[w], j)
    <3>1. ~Ended(mem[w], j)
      BY <2>1 DEF Tells, Quiet
    <3>2. mem[w].ent[j].state = "queued" \/ mem[w].ent[j].state = "running"
      BY <2>1, <2>3, <3>1 DEF Known, Ended, Terminal, Sure, EntrySure
    <3>3. CASE mem[w].ent[j].state = "running"
      BY <2>1, <3>3 DEF Sure, EntrySure
    <3>4. CASE mem[w].ent[j].durability = "stored"
      BY <3>2, <3>4 DEF Unaware, Held
    <3>5. CASE mem[w].ent[j].durability = "pending"
      BY <2>1, <3>1, <3>5 DEF Sure, RowSure, Unaware
    <3> QED BY <2>1, <3>2, <3>3, <3>4, <3>5 DEF Sure, EntrySure
  <2> QED BY <2>1, <2>2, <2>3
<1> QED BY <1>1, OrderBeneath, RowsStayTrue, PTL

(* RunningIsRun: a row that says `running` is being run, or the process    *)
(* that has adopted its job is about to take it up.                        *)
THEOREM RunningRowsAreRun ==
  ASSUME Mode = "leased"
  PROVE  AuditSpec => []RunningIsRun
<1>1. InGoodOrder /\ RowsTrue => RunningIsRun
  <2> SUFFICES ASSUME InGoodOrder, RowsTrue, NEW j \in Job \ raced, audit[j].status = "running",
                      Undisturbed, \A w \in Worker : Quiet(w, j)
               PROVE  \E w \in Worker :
                        j \in mem[w].active \/ \E b \in Beats : mem[w].beats[b].phase = "adopted"
    BY DEF RunningIsRun
  <2>1. PICK v \in Worker :
          /\ InTable(j) /\ row[j].owner = v
          /\ \/ Known(mem[v], j)
             \/ \E b \in Beats : mem[v].beats[b].phase = "adopted"
    BY OpenIsOwned DEF Open
  <2>2. PICK w \in Worker : WillRun(w, j)
    BY <2>1 DEF RowsTrue, Followed, Minded
  <2>3. j \notin duty[w].reopen \cup duty[w].resets
    BY DEF Quiet
  <2>4. CASE j \in mem[w].active
    BY <2>4
  <2>5. CASE row[j].owner = w /\ ~Known(mem[w], j)
    BY <2>1, <2>5
  <2> QED BY <2>2, <2>3, <2>4, <2>5 DEF WillRun
<1> QED BY <1>1, OrderBeneath, RowsStayTrue, PTL

(* Who writes `failed`: a submission that is refused, a run that failed,   *)
(* or a sweep.                                                             *)
LEMMA FailedByWhom ==
  ASSUME AuditTypeOK, AuditNext, NEW j \in Job, audit[j].status # "failed",
         audit'[j].status = "failed"
  PROVE  \E w \in Worker :
           \/ duty[w].submit[j] = "refusing"
           \/ duty[w].stage[j] = "failing"
           \/ raced' = raced /\ j \in duty[w].orphans
<1>1. audit \in [Job -> AuditRow]
  BY DEF AuditTypeOK
<1>2. ASSUME NEW S \in SUBSET Job, NEW status \in {"pending", "cancelled"},
             audit' = MarkedKeepingError(S, status)
      PROVE  FALSE
  <2>1. audit[j] \in AuditRow
    BY <1>1
  <2>2. audit'[j] = IF j \in S THEN [audit[j] EXCEPT !.status = status] ELSE audit[j]
    BY <1>2 DEF MarkedKeepingError
  <2>3. [audit[j] EXCEPT !.status = status].status = status
    BY <2>1 DEF AuditRow
  <2> QED BY <1>2, <2>2, <2>3
<1>3. audit' # audit
  OBVIOUS
<1>4. ASSUME NEW w \in Worker, NEW k \in Job,
             \/ SubmitInserts(w, k) \/ SubmitEnqueues(w, k) \/ SubmitStored(w, k)
             \/ CancelWaiting(w, k) \/ CancelStarted(w, k) \/ CancelWrites(w, k)
             \/ AdoptionResets(w, k)
      PROVE  FALSE
  <2>1. \/ audit' = Marked({k}, "pending", FALSE)
        \/ \E status \in {"pending", "cancelled"} : audit' = MarkedKeepingError({k}, status)
    BY <1>3, <1>4 DEF SubmitInserts, SubmitEnqueues, SubmitStored, CancelWaiting, CancelStarted,
       CancelWrites, AdoptionResets, Breaks
  <2>2. audit' # Marked({k}, "pending", FALSE)
    BY DEF Marked
  <2> QED BY <1>2, <2>1, <2>2
<1>5. ASSUME NEW w \in Worker, NEW k \in Job, SubmitRefused(w, k)
      PROVE  k = j /\ duty[w].submit[k] = "refusing"
  <2>1. audit' = Marked({k}, "failed", TRUE)
    BY <1>3, <1>5 DEF SubmitRefused, Breaks
  <2>2. k = j
    BY <2>1 DEF Marked
  <2> QED BY <1>5, <2>2 DEF SubmitRefused
<1>6. ASSUME NEW w \in Worker, NEW k \in Job, RunSteps(w, k)
      PROVE  k = j /\ duty[w].stage[k] = "failing"
  <2>1. \/ audit' = Marked({k}, "running", FALSE)
        \/ audit' = MarkedKeepingError({k}, "pending")
        \/ RunEnds(w, k)
    BY <1>3, <1>6 DEF RunSteps, RunStarts, RunStops, RunFails, RunGraded, RunReturned, RunThrew,
       DecideRetry, RetryReopens, RetryDecided, Breaks
  <2>2. CASE RunEnds(w, k)
    <3>1. \/ audit' = Marked({k}, "complete", FALSE)
          \/ audit' = Marked({k}, "cancelled", FALSE)
          \/ audit' = Marked({k}, "failed", TRUE) /\ duty[w].stage[k] = "failing"
      BY <1>3, <2>2 DEF RunEnds, Verdict, Breaks
    <3>2. /\ audit' # Marked({k}, "complete", FALSE)
          /\ audit' # Marked({k}, "cancelled", FALSE)
          /\ audit' = Marked({k}, "failed", TRUE) => k = j
      BY DEF Marked
    <3> QED BY <3>1, <3>2
  <2>3. audit' # Marked({k}, "running", FALSE)
    BY DEF Marked
  <2> QED BY <1>2, <2>1, <2>2, <2>3
<1>7. ASSUME NEW w \in Worker,
             \/ \E b \in Beats : AdoptedHere(w, b)
             \/ Boots(w) \/ CutoffRead(w) \/ Loads(w) \/ RecoverFails(w)
             \/ Restores(w) \/ RecoverReopens(w) \/ Resumes(w)
             \/ SweepAsks(w) \/ SweepReads(w) \/ SweepFails(w)
             \/ Closes(w) \/ Crashes(w) \/ QueueOwnSteps(w)
      PROVE  FALSE
  <2>1. audit' = MarkedKeepingError(duty[w].reopen, "pending")
    BY <1>3, <1>7 DEF AdoptedHere, Boots, CutoffRead, Loads, RecoverFails, Restores,
       RecoverReopens, Resumes, SweepAsks, SweepReads, SweepFails, Closes, Crashes,
       QueueOwnSteps, Breaks
  <2>2. duty[w].reopen \in SUBSET Job
    BY DEF AuditTypeOK, Duty
  <2> QED BY <1>2, <2>1, <2>2
<1>8. ASSUME NEW w \in Worker, SweepWrites(w)
      PROVE  raced' = raced /\ j \in duty[w].orphans
  <2>1. audit' = Marked(duty[w].orphans, "failed", TRUE) /\ raced' = raced
    BY <1>3, <1>8 DEF SweepWrites, Does, Breaks
  <2>2. j \in duty[w].orphans
    BY <2>1 DEF Marked
  <2> QED BY <2>1, <2>2
<1> QED BY <1>3, <1>4, <1>5, <1>6, <1>7, <1>8 DEF AuditNext, TimePasses

(* SweepSparesVerdicts: no sweep closes as failed an audit whose run had   *)
(* already said that it is complete.                                       *)
THEOREM SweepsSpareVerdicts ==
  ASSUME Mode = "leased"
  PROVE  AuditSpec => SweepSparesVerdicts
<1>1. AuditTypeOK /\ RowsTrue /\ [AuditNext]_auditVars
      => [\A j \in Job \ raced' :
            (Undisturbed /\ audit[j].status = "complete" /\ audit'[j].status = "failed")
              => \E w \in Worker : duty[w].stage[j] = "failing"]_auditVars
  <2> SUFFICES ASSUME AuditTypeOK, RowsTrue, AuditNext, NEW j \in Job \ raced', Undisturbed,
                      audit[j].status = "complete", audit'[j].status = "failed"
               PROVE  \E w \in Worker : duty[w].stage[j] = "failing"
    BY DEF auditVars
  <2>1. Followed(j) /\ Cleared(j)
    BY DEF RowsTrue
  <2>2. \A w \in Worker : duty[w].submit[j] # "refusing"
    BY <2>1 DEF Followed, Submits
  <2>3. \A w \in Worker : raced' = raced => j \notin duty[w].orphans
    BY <2>1 DEF Cleared, SweepsForsaken
  <2> QED BY <2>2, <2>3, FailedByWhom
<1> QED BY <1>1, AuditTypeCorrect, RowsStayTrue, PTL DEF AuditSpec, SweepSparesVerdicts

=============================================================================
