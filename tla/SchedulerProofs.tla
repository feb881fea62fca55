--------------------------- MODULE SchedulerProofs ---------------------------
(***************************************************************************)
(* The steps of the scheduler worker, for any schedules, any clock and any *)
(* events.  The worker writes the claim of an occurrence before the        *)
(* schedule that has moved past it, so whatever is cut off between the two *)
(* is behind a claim.  The invariant is kept here step by step; that it    *)
(* holds of the system is a theorem of ScheduledDeliveryProofs, where the  *)
(* worker is driven.                                                       *)
(***************************************************************************)
EXTENDS Scheduler, TLAPS

-----------------------------------------------------------------------------
(***************************************************************************)
(* The worker                                                              *)
(***************************************************************************)
Files == [file : {"absent", "present", "swapped"}, next : 0..(MaxTime + 1), completed : BOOLEAN]
Numbers == 0..(MaxTime + MaxEvents + 1)
Requesters == {"poller", "observer"}
Workers ==
    [pc : {"dead", "ready", "scan", "claim", "fill", "saving"},
     op : {"none", "upsert", "due", "fire"}, for : Requesters \cup {Nobody},
     todo : SUBSET Schedules, cur : {<<>>} \cup {<<s>> : s \in Schedules},
     next : Numbers, completed : BOOLEAN, got : SUBSET Occurrences]

WorkerTyped ==
    /\ now \in 0..MaxTime
    /\ sched \in [Schedules -> Files]
    /\ upserts \in [Schedules -> 0..MaxUpserts]
    /\ claim \in [Occurrences -> {"absent", "torn", "claimed"}]
    /\ marker \in [Occurrences -> SUBSET {"succeeded", "failed"}]
    /\ w \in Workers

\* A due time belongs to its trigger, and what lies before it is claimed.
Covered(s, next, completed) ==
    /\ s \in OneShots => next \in {0, 1}
    /\ s \in Intervals => next <= MaxTime + 1
    /\ s \in Observers => next = 0
    /\ s \notin Observers =>
          \A x \in Occurrences : x[1] = s /\ (next > x[2] \/ completed) => claim[x] # "absent"

FilesCovered == \A s \in Schedules : sched[s].file # "absent" => Covered(s, sched[s].next, sched[s].completed)

\* The request at hand: what it works on is on the disk.
Serves(v) ==
    /\ v.pc \in {"dead", "ready"} => v.op = "none" /\ v.for = Nobody /\ v.todo = {} /\ v.got = {}
    /\ v.op = "upsert" => v.for = Nobody /\ v.todo = {} /\ v.got = {}
    /\ v.op = "fire" => v.next \in 1..MaxEvents /\ v.todo \subseteq Observers
    /\ \A s \in v.todo : sched[s].file # "absent"
    /\ \A x \in v.got : claim[x] = "claimed"
    /\ v.pc \in {"claim", "fill", "saving"} => v.cur \in {<<s>> : s \in Schedules}
    /\ v.pc \in {"claim", "saving"} => Covered(v.cur[1], v.next, v.completed)
    /\ v.pc = "claim" => v.op = "due"
    /\ v.pc = "saving" => v.op # "fire"
    /\ v.pc = "fill" =>
          /\ v.op \in {"due", "fire"}
          /\ <<v.cur[1], v.next>> \in Occurrences /\ claim[<<v.cur[1], v.next>>] = "torn"
          /\ v.op = "due" => Covered(v.cur[1], v.next, v.completed)
Serving == \E v \in Workers : v = w /\ Serves(v)

WorkerOK == WorkerTyped /\ FilesCovered /\ Serving

-----------------------------------------------------------------------------
(***************************************************************************)
(* Occurrences                                                             *)
(***************************************************************************)
LEMMA Numbering ==
    /\ MaxTime \in Nat \ {0} /\ MaxEvents \in Nat /\ MaxUpserts \in Nat /\ PollLimit \in Nat \ {0}
    /\ \A x \in Occurrences :
          /\ x[1] \in Schedules /\ x[2] \in Nat \ {0} /\ x = <<x[1], x[2]>>
          /\ x[1] \in OneShots => x[2] = 1
          /\ x[1] \in Intervals => x[2] <= MaxTime
          /\ x[2] \in Numbers
<1>1. MaxTime \in Nat \ {0} /\ MaxEvents \in Nat /\ MaxUpserts \in Nat /\ PollLimit \in Nat \ {0}
  BY SchedulerAssumption
<1>2. ASSUME NEW x \in Occurrences
      PROVE  /\ x[1] \in Schedules /\ x[2] \in Nat \ {0} /\ x = <<x[1], x[2]>>
             /\ x[1] \in OneShots => x[2] = 1
             /\ x[1] \in Intervals => x[2] <= MaxTime
             /\ x[2] \in Numbers
  <2>1. /\ x \in Schedules \X (1..(MaxTime + MaxEvents))
        /\ x[2] <= IF x[1] \in OneShots THEN 1 ELSE IF x[1] \in Intervals THEN MaxTime ELSE MaxEvents
    BY DEF Occurrences
  <2>2. x[1] \in Schedules /\ x[2] \in 1..(MaxTime + MaxEvents) /\ x = <<x[1], x[2]>>
    BY <2>1
  <2>3. x[1] \in Intervals => x[1] \notin OneShots
    BY SchedulerAssumption
  <2> QED
    BY <1>1, <2>1, <2>2, <2>3 DEF Numbers
<1> QED
  BY <1>1, <1>2

LEMMA IsOccurrence ==
    ASSUME NEW s \in Schedules, NEW n \in Nat \ {0},
           s \in OneShots => n = 1, s \in Intervals => n <= MaxTime, s \in Observers => n <= MaxEvents
    PROVE  <<s, n>> \in Occurrences /\ <<s, n>>[1] = s /\ <<s, n>>[2] = n
<1>1. MaxTime \in Nat \ {0} /\ MaxEvents \in Nat
  BY SchedulerAssumption
<1>2. n \in 1..(MaxTime + MaxEvents)
  BY <1>1 DEF Observers
<1>3. n <= IF s \in OneShots THEN 1 ELSE IF s \in Intervals THEN MaxTime ELSE MaxEvents
  BY DEF Observers
<1> QED
  BY <1>2, <1>3 DEF Occurrences

-----------------------------------------------------------------------------
(***************************************************************************)
(* The worker's files                                                      *)
(***************************************************************************)
\* Claims are never taken back.
LEMMA CoveredStays ==
    ASSUME NEW s, NEW n, NEW c, Covered(s, n, c),
           \A x \in Occurrences : claim[x] # "absent" => claim'[x] # "absent"
    PROVE  Covered(s, n, c)'
BY DEF Covered

\* A schedule that starts from its first due time skips nothing.
LEMMA FirstDueCovered ==
    ASSUME NEW s \in Schedules
    PROVE  Covered(s, FirstDue(s), FALSE) /\ FirstDue(s) \in 0..(MaxTime + 1)
<1>1. MaxTime \in Nat \ {0} /\ \A x \in Occurrences : x[2] \in Nat \ {0}
  BY Numbering
<1>2. FirstDue(s) \in {0, 1} /\ (s \in Observers => FirstDue(s) = 0)
  BY DEF FirstDue
<1> QED
  BY <1>1, <1>2 DEF Covered

\* Past a claim the schedule covers one occurrence more.
LEMMA AdvancedCovered ==
    ASSUME NEW s \in Schedules \ Observers, NEW n \in Nat, NEW c \in BOOLEAN, Covered(s, n, c),
           <<s, n>> \in Occurrences, claim'[<<s, n>>] # "absent",
           \A x \in Occurrences : claim[x] # "absent" => claim'[x] # "absent"
    PROVE  IF s \in OneShots THEN Covered(s, 0, TRUE)' ELSE Covered(s, n + 1, c)'
<1>1. /\ MaxTime \in Nat
      /\ \A x \in Occurrences : x[2] \in Nat /\ x = <<x[1], x[2]>> /\ (x[1] \in OneShots => x[2] = 1)
  BY Numbering
<1>2. n \in Nat \ {0} /\ (s \in OneShots => n = 1) /\ (s \in Intervals => n <= MaxTime)
  <2>1. <<s, n>>[1] = s /\ <<s, n>>[2] = n
    OBVIOUS
  <2> QED
    BY <2>1, Numbering
<1>3. CASE s \in OneShots
  <2>1. ASSUME NEW x \in Occurrences, x[1] = s PROVE claim'[x] # "absent"
    <3>1. x = <<s, n>>
      BY <1>1, <1>2, <1>3, <2>1
    <3> QED
      BY <3>1
  <2>2. s \notin Intervals
    BY <1>3, SchedulerAssumption
  <2> QED
    BY <1>3, <2>1, <2>2 DEF Covered
<1>4. CASE s \notin OneShots
  <2>1. ASSUME NEW x \in Occurrences, x[1] = s, n + 1 > x[2] \/ c PROVE claim'[x] # "absent"
    <3>1. CASE x[2] = n
      <4>1. x = <<s, n>>
        BY <1>1, <2>1, <3>1
      <4> QED
        BY <4>1
    <3>2. CASE x[2] # n
      <4>1. n > x[2] \/ c
        BY <1>1, <1>2, <2>1, <3>2
      <4> QED
        BY <2>1, <4>1 DEF Covered
    <3> QED
      BY <3>1, <3>2
  <2>2. s \in Intervals => n + 1 <= MaxTime + 1
    BY <1>1, <1>2
  <2> QED
    BY <1>4, <2>1, <2>2 DEF Covered
<1> QED
  BY <1>3, <1>4

-----------------------------------------------------------------------------
(***************************************************************************)
(* What a step of a request does to the worker's record                    *)
(***************************************************************************)
LEMMA WorkerRests ==
    /\ Ready \in Workers /\ Ready.pc = "ready" /\ Ready.op = "none" /\ Ready.for = Nobody
    /\ Ready.todo = {} /\ Ready.got = {}
    /\ Dead \in Workers /\ Dead.pc = "dead" /\ Dead.op = "none" /\ Dead.for = Nobody
    /\ Dead.todo = {} /\ Dead.got = {}
<1>1. 0 \in Numbers
  BY SchedulerAssumption DEF Numbers
<1> QED
  BY <1>1 DEF Ready, Dead, Workers

\* The schedule behind a claim that exists or was just made.
LEMMA AdvancedMoves ==
    ASSUME NEW s \in Schedules \ Observers, NEW v \in Workers, Covered(s, v.next, v.completed),
           <<s, v.next>> \in Occurrences, claim'[<<s, v.next>>] # "absent",
           \A x \in Occurrences : claim[x] # "absent" => claim'[x] # "absent",
           NEW u, u = Advanced(s, v)
    PROVE  /\ u \in Workers /\ u.pc = "claim" /\ u.cur = <<s>> /\ Covered(s, u.next, u.completed)'
           /\ u.op = v.op /\ u.for = v.for /\ u.todo = v.todo /\ u.got = v.got
<1>1. v.next \in Numbers /\ v.completed \in BOOLEAN
  BY DEF Workers
<1>2. v.next \in Nat
  BY <1>1, SchedulerAssumption DEF Numbers
<1>3. IF s \in OneShots THEN Covered(s, 0, TRUE)' ELSE Covered(s, v.next + 1, v.completed)'
  BY <1>1, <1>2, AdvancedCovered
<1>4. v.next + 1 \in Numbers /\ 0 \in Numbers
  <2>1. <<s, v.next>>[1] = s /\ <<s, v.next>>[2] = v.next
    OBVIOUS
  <2>2. (s \in Intervals => v.next <= MaxTime) /\ (s \in OneShots => v.next = 1)
    BY <2>1, Numbering
  <2>3. s \in OneShots \/ s \in Intervals
    BY DEF Observers
  <2> QED
    BY <1>2, <2>2, <2>3, SchedulerAssumption DEF Numbers
<1>5. CASE s \in OneShots
  <2>1. u = [v EXCEPT !.pc = "claim", !.cur = <<s>>, !.next = 0, !.completed = TRUE]
    BY <1>5 DEF Advanced
  <2>2. /\ u \in Workers /\ u.pc = "claim" /\ u.cur = <<s>> /\ u.next = 0 /\ u.completed = TRUE
        /\ u.op = v.op /\ u.for = v.for /\ u.todo = v.todo /\ u.got = v.got
    BY ONLY v \in Workers, s \in Schedules, <1>4, <2>1 DEF Workers
  <2> QED
    BY <1>3, <1>5, <2>2
<1>6. CASE s \notin OneShots
  <2>1. u = [v EXCEPT !.pc = "claim", !.cur = <<s>>, !.next = @ + 1]
    BY <1>6 DEF Advanced
  <2>2. /\ u \in Workers /\ u.pc = "claim" /\ u.cur = <<s>> /\ u.next = v.next + 1
        /\ u.completed = v.completed
        /\ u.op = v.op /\ u.for = v.for /\ u.todo = v.todo /\ u.got = v.got
    BY ONLY v \in Workers, s \in Schedules, <1>4, <2>1 DEF Workers
  <2> QED
    BY <1>3, <1>6, <2>2
<1> QED
  BY <1>5, <1>6

-----------------------------------------------------------------------------
(***************************************************************************)
(* Every step of the worker keeps its part of the invariant                *)
(***************************************************************************)
\* What a step of a request means for everybody else: claims are kept, and what
\* it adds to its answer was a claim in the making.
Onward ==
    /\ \A x \in Occurrences : claim[x] = "claimed" => claim'[x] = "claimed"
    /\ \A x \in w'.got : x \in w.got \/ (x \in Occurrences /\ claim[x] = "torn")
    /\ w'.for = w.for
    /\ w.pc \notin {"dead", "ready"}

\* The rest of the invariant, when the files and the request are fine.
LEMMA WorkerStands ==
    ASSUME WorkerOK, UNCHANGED <<upserts, marker>>, now' \in 0..MaxTime, sched' \in [Schedules -> Files],
           claim' \in [Occurrences -> {"absent", "torn", "claimed"}],
           NEW u \in Workers, w' = u, Serves(u)', FilesCovered'
    PROVE  WorkerOK'
<1>1. WorkerTyped'
  BY DEF WorkerOK, WorkerTyped
<1>2. Serving'
  BY DEF Serving
<1> QED
  BY <1>1, <1>2 DEF WorkerOK

LEMMA Request ==
    ASSUME WorkerOK
    PROVE  \E v \in Workers : v = w /\ Serves(v)
BY DEF WorkerOK, Serving

LEMMA SameFiles ==
    ASSUME FilesCovered, UNCHANGED sched,
           \A x \in Occurrences : claim[x] # "absent" => claim'[x] # "absent"
    PROVE  FilesCovered'
BY CoveredStays DEF FilesCovered

LEMMA OpenSchedulePasses ==
    ASSUME WorkerOK, NEW s \in Schedules, OpenSchedule(s), w.op = "due"
    PROVE  WorkerOK' /\ Onward
<1> PICK v \in Workers : v = w /\ Serves(v)
  BY Request
<1>1. v.pc = "scan" /\ v.op = "due" /\ s \in v.todo /\ sched[s] \in Files /\ sched[s].file # "absent"
  BY DEF WorkerOK, WorkerTyped, Serves, OpenSchedule
<1>2. UNCHANGED <<now, sched, upserts, marker, claim>>
  BY DEF OpenSchedule
<1>3. Covered(s, sched[s].next, sched[s].completed)
  BY <1>1 DEF WorkerOK, FilesCovered
<1>4. /\ FilesCovered' /\ now' \in 0..MaxTime /\ sched' \in [Schedules -> Files]
      /\ claim' \in [Occurrences -> {"absent", "torn", "claimed"}]
  BY <1>2, SameFiles DEF WorkerOK, WorkerTyped
<1> PICK u : u = w'
  OBVIOUS
<1>5. CASE sched[s].completed
  <2>1. u = [v EXCEPT !.todo = @ \ {s}]
    BY <1>1, <1>5 DEF OpenSchedule
  <2>2. /\ u \in Workers /\ u.todo = v.todo \ {s} /\ u.pc = "scan" /\ u.op = v.op /\ u.for = v.for
        /\ u.next = v.next /\ u.got = v.got
    BY ONLY <1>1, <2>1, v \in Workers, s \in Schedules DEF Workers
  <2>3. Serves(u)'
    BY <1>1, <1>2, <2>2 DEF Serves
  <2>4. Onward
    BY <1>1, <1>2, <2>2 DEF Onward
  <2> QED
    BY <1>2, <1>4, <2>2, <2>3, <2>4, WorkerStands
<1>6. CASE ~sched[s].completed
  <2>1. u = [v EXCEPT !.pc = "claim", !.cur = <<s>>, !.next = sched[s].next, !.completed = FALSE]
    BY <1>1, <1>6 DEF OpenSchedule
  <2>2. sched[s].next \in Numbers
    <3>1. sched[s].next \in 0..(MaxTime + 1)
      BY <1>1 DEF Files
    <3> QED
      BY <3>1, SchedulerAssumption DEF Numbers
  <2>3. /\ u \in Workers /\ u.todo = v.todo /\ u.pc = "claim" /\ u.cur = <<s>> /\ u.op = v.op
        /\ u.for = v.for /\ u.next = sched[s].next /\ u.completed = FALSE /\ u.got = v.got
    BY ONLY <1>1, <2>1, <2>2, v \in Workers, s \in Schedules DEF Workers
  <2>4. Covered(u.cur[1], u.next, u.completed)'
    BY <1>2, <1>3, <1>6, <2>3 DEF Covered
  <2>5. Serves(u)'
    BY <1>1, <1>2, <2>3, <2>4 DEF Serves
  <2>6. Onward
    BY <1>1, <1>2, <2>3 DEF Onward
  <2> QED
    BY <1>2, <1>4, <2>3, <2>5, <2>6, WorkerStands
<1> QED
  BY <1>5, <1>6

\* A claim that is made leaves a torn file first.
LEMMA CreateClaimTears ==
    ASSUME WorkerOK, NEW s \in Schedules, UNCHANGED <<now, sched, upserts, marker>>,
           <<s, w.next>> \in Occurrences, claim[<<s, w.next>>] = "absent",
           claim' = [claim EXCEPT ![<<s, w.next>>] = "torn"],
           w' = [w EXCEPT !.pc = "fill", !.cur = <<s>>],
           w.pc \in {"scan", "claim"}, w.op \in {"due", "fire"},
           w.op = "due" => Covered(s, w.next, w.completed)
    PROVE  WorkerOK' /\ Onward
<1> PICK v \in Workers : v = w /\ Serves(v)
  BY Request
<1> PICK u : u = w'
  OBVIOUS
<1>1. u = [v EXCEPT !.pc = "fill", !.cur = <<s>>]
  OBVIOUS
<1>2. /\ u \in Workers /\ u.todo = v.todo /\ u.pc = "fill" /\ u.cur = <<s>> /\ u.op = v.op
      /\ u.for = v.for /\ u.next = v.next /\ u.completed = v.completed /\ u.got = v.got
  BY ONLY <1>1, v \in Workers, s \in Schedules DEF Workers
<1> PICK x : x = <<s, v.next>>
  OBVIOUS
<1>3. claim \in [Occurrences -> {"absent", "torn", "claimed"}] /\ x \in Occurrences /\ claim[x] = "absent"
  BY DEF WorkerOK, WorkerTyped
<1>4. /\ claim' \in [Occurrences -> {"absent", "torn", "claimed"}] /\ claim'[x] = "torn"
      /\ \A y \in Occurrences : y # x => claim'[y] = claim[y]
  BY <1>3
<1>5. \A y \in Occurrences : claim[y] # "absent" => claim'[y] = claim[y]
  BY <1>3, <1>4
<1>6. FilesCovered' /\ now' \in 0..MaxTime /\ sched' \in [Schedules -> Files]
  BY <1>5, SameFiles DEF WorkerOK, WorkerTyped
<1>7. u.cur[1] = s /\ <<u.cur[1], u.next>> = x
  BY <1>2
<1>8. u.op = "due" => Covered(u.cur[1], u.next, u.completed)'
  BY <1>2, <1>5, <1>7, CoveredStays
<1>9. \A y \in v.got : claim'[y] = "claimed"
  BY <1>5 DEF Serves, Workers
<1>10. Serves(u)'
  BY <1>2, <1>3, <1>4, <1>7, <1>8, <1>9 DEF Serves
<1>11. Onward
  BY <1>2, <1>5 DEF Onward
<1> QED
  BY ONLY WorkerOK, UNCHANGED <<now, sched, upserts, marker>>, u = w', <1>2, <1>4, <1>6, <1>10, <1>11, WorkerStands

LEMMA OpenScheduleFires ==
    ASSUME WorkerOK, NEW s \in Schedules, OpenSchedule(s), w.op = "fire"
    PROVE  WorkerOK' /\ Onward
<1> PICK v \in Workers : v = w /\ Serves(v)
  BY Request
<1>1. /\ v.pc = "scan" /\ v.op = "fire" /\ s \in v.todo /\ s \in Observers /\ v.next \in 1..MaxEvents
      /\ MaxEvents \in Nat
  BY SchedulerAssumption DEF Serves, OpenSchedule
<1>2. UNCHANGED <<now, sched, upserts, marker>> /\ CreateClaim(s, AfterClaim(s, w))
  BY <1>1 DEF OpenSchedule
<1>3. <<s, v.next>> \in Occurrences
  <2>1. s \notin OneShots /\ s \notin Intervals
    BY <1>1 DEF Observers
  <2> QED
    BY <1>1, <2>1, IsOccurrence
<1>4. CASE claim[<<s, v.next>>] = "absent"
  <2>1. claim' = [claim EXCEPT ![<<s, w.next>>] = "torn"] /\ w' = [w EXCEPT !.pc = "fill", !.cur = <<s>>]
    BY <1>2, <1>4 DEF CreateClaim
  <2> QED
    BY <1>1, <1>2, <1>3, <1>4, <2>1, CreateClaimTears
<1>5. CASE claim[<<s, v.next>>] # "absent"
  <2> PICK u : u = w'
    OBVIOUS
  <2>1. u = [v EXCEPT !.pc = "scan", !.todo = @ \ {s}, !.cur = <<>>] /\ claim' = claim
    BY <1>1, <1>2, <1>5 DEF CreateClaim, AfterClaim
  <2>2. /\ u \in Workers /\ u.todo = v.todo \ {s} /\ u.pc = "scan" /\ u.op = v.op /\ u.for = v.for
        /\ u.next = v.next /\ u.got = v.got
    BY ONLY <2>1, v \in Workers, s \in Schedules DEF Workers
  <2>3. Serves(u)'
    BY <1>1, <1>2, <2>1, <2>2 DEF Serves
  <2>4. Onward
    BY <1>1, <2>1, <2>2 DEF Onward
  <2>5. /\ FilesCovered' /\ now' \in 0..MaxTime /\ sched' \in [Schedules -> Files]
        /\ claim' \in [Occurrences -> {"absent", "torn", "claimed"}]
    BY <1>2, <2>1, SameFiles DEF WorkerOK, WorkerTyped
  <2> QED
    BY <1>2, <2>2, <2>3, <2>4, <2>5, WorkerStands
<1> QED
  BY <1>4, <1>5

LEMMA ClaimOccurrenceKeeps ==
    ASSUME WorkerOK, ClaimOccurrence
    PROVE  WorkerOK' /\ Onward
<1> PICK v \in Workers : v = w /\ Serves(v)
  BY Request
<1>1. /\ v.pc = "claim" /\ v.op = "due" /\ Covered(v.cur[1], v.next, v.completed)
      /\ v.next # 0 /\ v.next <= now /\ v.next \in Numbers
  BY DEF Serves, ClaimOccurrence, Due, Workers
<1>2. PICK s \in Schedules : v.cur = <<s>> /\ v.cur[1] = s
  BY <1>1 DEF Serves
<1>3. UNCHANGED <<now, sched, upserts, marker>> /\ CreateClaim(s, Advanced(s, w))
  BY <1>2 DEF ClaimOccurrence
<1>4. now \in 0..MaxTime /\ MaxTime \in Nat /\ MaxEvents \in Nat
  BY SchedulerAssumption DEF WorkerOK, WorkerTyped
<1>5. v.next \in Nat \ {0} /\ v.next <= MaxTime
  BY <1>1, <1>4 DEF Numbers
<1>6. s \notin Observers /\ <<s, v.next>> \in Occurrences
  <2>1. s \notin Observers /\ (s \in OneShots => v.next = 1)
    BY <1>1, <1>2 DEF Covered
  <2> QED
    BY <1>5, <2>1, IsOccurrence
<1>7. Covered(s, v.next, v.completed)
  BY <1>1, <1>2
<1>8. CASE claim[<<s, v.next>>] = "absent"
  <2>1. claim' = [claim EXCEPT ![<<s, w.next>>] = "torn"] /\ w' = [w EXCEPT !.pc = "fill", !.cur = <<s>>]
    BY <1>3, <1>8 DEF CreateClaim
  <2> QED
    BY <1>1, <1>3, <1>6, <1>7, <1>8, <2>1, CreateClaimTears
<1>9. CASE claim[<<s, v.next>>] # "absent"
  <2> PICK u : u = w'
    OBVIOUS
  <2>1. u = Advanced(s, v) /\ claim' = claim
    BY <1>3, <1>9 DEF CreateClaim
  <2>2. /\ u \in Workers /\ u.pc = "claim" /\ u.cur = <<s>> /\ Covered(s, u.next, u.completed)'
        /\ u.op = v.op /\ u.for = v.for /\ u.todo = v.todo /\ u.got = v.got
    BY <1>6, <1>7, <1>9, <2>1, AdvancedMoves
  <2>3. u.cur[1] = s
    BY <2>2
  <2>4. Serves(u)'
    BY <1>1, <1>3, <2>1, <2>2, <2>3 DEF Serves
  <2>5. Onward
    BY <1>1, <2>1, <2>2 DEF Onward
  <2>6. /\ FilesCovered' /\ now' \in 0..MaxTime /\ sched' \in [Schedules -> Files]
        /\ claim' \in [Occurrences -> {"absent", "torn", "claimed"}]
    BY <1>3, <2>1, SameFiles DEF WorkerOK, WorkerTyped
  <2> QED
    BY <1>3, <2>2, <2>4, <2>5, <2>6, WorkerStands
<1> QED
  BY <1>8, <1>9

LEMMA FillClaimKeeps ==
    ASSUME WorkerOK, FillClaim
    PROVE  WorkerOK' /\ Onward
<1> PICK v \in Workers : v = w /\ Serves(v)
  BY Request
<1>1. v.pc = "fill" /\ UNCHANGED <<now, sched, upserts, marker>>
  BY DEF FillClaim
<1>2. PICK s \in Schedules : v.cur = <<s>> /\ v.cur[1] = s
  BY <1>1 DEF Serves
<1> PICK x : x = <<s, v.next>>
  OBVIOUS
<1>3. x \in Occurrences /\ claim[x] = "torn" /\ v.op \in {"due", "fire"}
  BY <1>1, <1>2 DEF Serves
<1> PICK u : u = w'
  OBVIOUS
<1> PICK g : g = [v EXCEPT !.got = @ \cup {x}]
  OBVIOUS
<1>4. claim' = [claim EXCEPT ![x] = "claimed"] /\ u = AfterClaim(s, g)
  BY <1>2 DEF FillClaim
<1>5. /\ g \in Workers /\ g.got = v.got \cup {x}
      /\ g.pc = v.pc /\ g.op = v.op /\ g.for = v.for /\ g.cur = v.cur /\ g.next = v.next
      /\ g.completed = v.completed /\ g.todo = v.todo
  BY ONLY v \in Workers, <1>3, g = [v EXCEPT !.got = @ \cup {x}] DEF Workers
<1>6. /\ claim' \in [Occurrences -> {"absent", "torn", "claimed"}] /\ claim'[x] = "claimed"
      /\ \A y \in Occurrences : y # x => claim'[y] = claim[y]
  BY <1>3, <1>4 DEF WorkerOK, WorkerTyped
<1>7. /\ \A y \in Occurrences : claim[y] # "absent" => claim'[y] # "absent"
      /\ \A y \in Occurrences : claim[y] = "claimed" => claim'[y] = "claimed"
  BY <1>3, <1>6
<1>8. FilesCovered' /\ now' \in 0..MaxTime /\ sched' \in [Schedules -> Files]
  BY <1>1, <1>7, SameFiles DEF WorkerOK, WorkerTyped
<1>9. \A y \in g.got : claim'[y] = "claimed"
  BY <1>5, <1>6, <1>7 DEF Serves, Workers
<1>10. CASE v.op = "due"
  <2>1. u = Advanced(s, g)
    BY <1>4, <1>10 DEF AfterClaim
  <2>2. Covered(s, g.next, g.completed) /\ <<s, g.next>> = x
    BY <1>1, <1>2, <1>5, <1>10 DEF Serves
  <2>3. s \notin Observers
    <3>1. x[2] # 0 /\ x[2] = g.next
      BY <1>3, <2>2, Numbering
    <3> QED
      BY <2>2, <3>1 DEF Covered
  <2>4. <<s, g.next>> \in Occurrences /\ claim'[<<s, g.next>>] # "absent"
    BY <1>3, <1>6, <2>2
  <2>5. /\ u \in Workers /\ u.pc = "claim" /\ u.cur = <<s>> /\ Covered(s, u.next, u.completed)'
        /\ u.op = g.op /\ u.for = g.for /\ u.todo = g.todo /\ u.got = g.got
    BY ONLY s \in Schedules, <1>5, <1>7, <2>1, <2>2, <2>3, <2>4, AdvancedMoves
  <2>6. u.cur[1] = s
    BY <2>5
  <2>7. Serves(u)'
    BY <1>1, <1>5, <1>9, <1>10, <2>5, <2>6 DEF Serves
  <2>8. Onward
    BY <1>1, <1>3, <1>5, <1>7, <2>5 DEF Onward
  <2> QED
    BY ONLY WorkerOK, u = w', <1>1, <1>6, <1>8, <2>5, <2>7, <2>8, WorkerStands
<1>11. CASE v.op = "fire"
  <2>1. u = [g EXCEPT !.pc = "scan", !.todo = @ \ {s}, !.cur = <<>>]
    BY <1>4, <1>11 DEF AfterClaim
  <2>2. /\ u \in Workers /\ u.todo = g.todo \ {s} /\ u.pc = "scan" /\ u.op = g.op /\ u.for = g.for
        /\ u.next = g.next /\ u.got = g.got
    BY ONLY <1>5, <2>1, s \in Schedules DEF Workers
  <2>3. Serves(u)'
    BY <1>1, <1>5, <1>9, <1>11, <2>2 DEF Serves
  <2>4. Onward
    BY <1>1, <1>3, <1>5, <1>7, <2>2 DEF Onward
  <2> QED
    BY ONLY WorkerOK, u = w', <1>1, <1>6, <1>8, <2>2, <2>3, <2>4, WorkerStands
<1> QED
  BY <1>3, <1>10, <1>11

\* The old file becomes a backup that still counts.
LEMMA BacksUp ==
    ASSUME sched \in [Schedules -> Files], FilesCovered, claim' = claim, NEW s \in Schedules,
           sched' = [sched EXCEPT ![s].file = IF @ = "present" THEN "swapped" ELSE @]
    PROVE  /\ sched' \in [Schedules -> Files] /\ FilesCovered'
           /\ \A q \in Schedules : sched[q].file # "absent" => sched'[q].file # "absent"
<1>1. \A q \in Schedules : sched[q] \in Files
  OBVIOUS
<1>2. /\ sched' \in [Schedules -> Files]
      /\ \A q \in Schedules : /\ sched'[q].next = sched[q].next /\ sched'[q].completed = sched[q].completed
                              /\ sched[q].file # "absent" <=> sched'[q].file # "absent"
  BY <1>1 DEF Files
<1>3. FilesCovered'
  BY <1>2 DEF FilesCovered, Covered
<1> QED
  BY <1>2, <1>3

LEMMA SaveScheduleKeeps ==
    ASSUME WorkerOK, SaveSchedule
    PROVE  WorkerOK' /\ Onward
<1> PICK v \in Workers : v = w /\ Serves(v)
  BY Request
<1>1. /\ v.pc = "claim" /\ v.op = "due" /\ Covered(v.cur[1], v.next, v.completed)
      /\ v.next \in Numbers /\ v.completed \in BOOLEAN /\ UNCHANGED <<now, upserts, claim, marker>>
  BY DEF Serves, SaveSchedule, Workers
<1>2. PICK s \in Schedules : v.cur = <<s>> /\ v.cur[1] = s
  BY <1>1 DEF Serves
<1> PICK u : u = w'
  OBVIOUS
<1>3. /\ sched' = [sched EXCEPT ![s].file = IF @ = "present" THEN "swapped" ELSE @]
      /\ u = [v EXCEPT !.pc = "saving", !.cur = <<s>>, !.next = v.next, !.completed = v.completed]
  BY <1>2 DEF SaveSchedule, BeginSave
<1>4. /\ sched' \in [Schedules -> Files] /\ FilesCovered'
      /\ \A q \in Schedules : sched[q].file # "absent" => sched'[q].file # "absent"
  BY <1>1, <1>3, BacksUp DEF WorkerOK, WorkerTyped
<1>5. /\ u \in Workers /\ u.pc = "saving" /\ u.cur = <<s>> /\ u.next = v.next /\ u.completed = v.completed
      /\ u.op = v.op /\ u.for = v.for /\ u.todo = v.todo /\ u.got = v.got
  BY ONLY v \in Workers, s \in Schedules, <1>3 DEF Workers
<1>6. Covered(u.cur[1], u.next, u.completed)'
  BY <1>1, <1>2, <1>5 DEF Covered
<1>7. Serves(u)'
  BY <1>1, <1>4, <1>5, <1>6 DEF Serves, Workers
<1>8. Onward
  BY <1>1, <1>5 DEF Onward
<1>9. now' \in 0..MaxTime /\ claim' \in [Occurrences -> {"absent", "torn", "claimed"}]
  BY <1>1 DEF WorkerOK, WorkerTyped
<1> QED
  BY ONLY WorkerOK, u = w', <1>1, <1>4, <1>5, <1>7, <1>8, <1>9, WorkerStands

LEMMA FinishSaveKeeps ==
    ASSUME WorkerOK, FinishSave
    PROVE  WorkerOK' /\ Onward
<1> PICK v \in Workers : v = w /\ Serves(v)
  BY Request
<1>1. /\ v.pc = "saving" /\ v.op # "fire" /\ Covered(v.cur[1], v.next, v.completed)
      /\ v.next \in Numbers /\ v.completed \in BOOLEAN /\ UNCHANGED <<now, upserts, claim, marker>>
  BY DEF Serves, FinishSave, Workers
<1>2. PICK s \in Schedules : v.cur = <<s>> /\ v.cur[1] = s
  BY <1>1 DEF Serves
<1> PICK u : u = w'
  OBVIOUS
<1>3. u = [v EXCEPT !.pc = "scan", !.todo = @ \ {s}, !.cur = <<>>, !.next = 0, !.completed = FALSE]
  BY <1>2 DEF FinishSave
<1>4. 0 \in Numbers
  BY SchedulerAssumption DEF Numbers
<1>5. /\ u \in Workers /\ u.pc = "scan" /\ u.todo = v.todo \ {s} /\ u.op = v.op /\ u.for = v.for /\ u.got = v.got
  BY ONLY v \in Workers, s \in Schedules, <1>3, <1>4 DEF Workers
<1> PICK f : f = [file |-> "present", next |-> v.next, completed |-> v.completed]
  OBVIOUS
<1>6. sched' = [sched EXCEPT ![s] = f]
  BY <1>2 DEF FinishSave
<1>7. f \in Files /\ f.file = "present" /\ f.next = v.next /\ f.completed = v.completed
  <2>1. v.next \in 0..(MaxTime + 1)
    <3>1. v.next \in Nat /\ MaxTime \in Nat /\ MaxEvents \in Nat
      BY <1>1, SchedulerAssumption DEF Numbers
    <3>2. v.next <= MaxTime + 1
      BY <1>1, <1>2, <3>1, SchedulerAssumption DEF Covered, Observers
    <3> QED
      BY <3>1, <3>2
  <2> QED
    BY ONLY <1>1, <2>1, f = [file |-> "present", next |-> v.next, completed |-> v.completed] DEF Files
<1>8. /\ sched' \in [Schedules -> Files] /\ sched'[s] = f
      /\ \A q \in Schedules : q # s => sched'[q] = sched[q]
  BY <1>6, <1>7 DEF WorkerOK, WorkerTyped
<1>9. FilesCovered'
  <2> SUFFICES ASSUME NEW q \in Schedules, sched'[q].file # "absent"
               PROVE  Covered(q, sched[q].next, sched[q].completed)'
    BY DEF FilesCovered
  <2>1. CASE q = s
    BY <1>1, <1>2, <1>7, <1>8, <2>1 DEF Covered
  <2>2. CASE q # s
    BY <1>1, <1>8, <2>2 DEF WorkerOK, FilesCovered, Covered
  <2> QED
    BY <2>1, <2>2
<1>10. Serves(u)'
  BY <1>1, <1>5, <1>7, <1>8 DEF Serves, Workers
<1>11. Onward
  BY <1>1, <1>5 DEF Onward
<1>12. now' \in 0..MaxTime /\ claim' \in [Occurrences -> {"absent", "torn", "claimed"}]
  BY <1>1 DEF WorkerOK, WorkerTyped
<1> QED
  BY ONLY WorkerOK, u = w', <1>1, <1>5, <1>8, <1>9, <1>10, <1>11, <1>12, WorkerStands

LEMMA WorkerStepKeeps ==
    ASSUME WorkerOK, WorkerStep
    PROVE  WorkerOK' /\ Onward
<1>1. ASSUME NEW s \in Schedules, OpenSchedule(s) PROVE WorkerOK' /\ Onward
  <2>1. w.op = "due" \/ w.op = "fire"
    BY <1>1 DEF OpenSchedule
  <2> QED
    BY <1>1, <2>1, OpenSchedulePasses, OpenScheduleFires
<1> QED
  BY <1>1, ClaimOccurrenceKeeps, FillClaimKeeps, SaveScheduleKeeps, FinishSaveKeeps DEF WorkerStep

-----------------------------------------------------------------------------
(***************************************************************************)
(* Requests, the clock and the worker's life                               *)
(***************************************************************************)
LEMMA TickKeeps ==
    ASSUME WorkerOK, Tick, UNCHANGED <<store, w>>
    PROVE  WorkerOK'
<1>1. now' \in 0..MaxTime
  BY SchedulerAssumption DEF WorkerOK, WorkerTyped, Tick
<1>2. WorkerTyped'
  BY <1>1 DEF WorkerOK, WorkerTyped, store
<1>3. UNCHANGED <<sched, claim, w>>
  BY DEF store
<1>4. FilesCovered' /\ Serving'
  BY <1>3 DEF WorkerOK, FilesCovered, Covered, Serving, Serves
<1> QED
  BY <1>2, <1>4 DEF WorkerOK

LEMMA UpsertKeeps ==
    ASSUME WorkerOK, NEW s \in Schedules, Upsert(Nobody, s)
    PROVE  WorkerOK'
<1> PICK v \in Workers : v = w /\ Serves(v)
  BY Request
<1>1. /\ v.pc = "ready" /\ v.todo = {} /\ v.got = {} /\ UNCHANGED <<now, claim, marker>>
      /\ upserts[s] < MaxUpserts /\ upserts' = [upserts EXCEPT ![s] = @ + 1]
  BY DEF Serves, Upsert
<1> PICK u : u = w'
  OBVIOUS
<1> PICK g : g = [v EXCEPT !.op = "upsert", !.for = Nobody]
  OBVIOUS
<1>2. /\ sched' = [sched EXCEPT ![s].file = IF @ = "present" THEN "swapped" ELSE @]
      /\ u = [g EXCEPT !.pc = "saving", !.cur = <<s>>, !.next = FirstDue(s), !.completed = FALSE]
  BY DEF Upsert, BeginSave
<1>3. g \in Workers /\ g.op = "upsert" /\ g.for = Nobody /\ g.todo = v.todo /\ g.got = v.got
  BY ONLY v \in Workers, g = [v EXCEPT !.op = "upsert", !.for = Nobody] DEF Workers
<1>4. FirstDue(s) \in Numbers
  BY SchedulerAssumption DEF FirstDue, Numbers
<1>5. /\ u \in Workers /\ u.pc = "saving" /\ u.cur = <<s>> /\ u.next = FirstDue(s) /\ u.completed = FALSE
      /\ u.op = g.op /\ u.for = g.for /\ u.todo = g.todo /\ u.got = g.got
  BY ONLY <1>2, <1>3, <1>4, s \in Schedules DEF Workers
<1>6. /\ sched' \in [Schedules -> Files] /\ FilesCovered'
  BY <1>1, <1>2, BacksUp DEF WorkerOK, WorkerTyped
<1>7. Covered(u.cur[1], u.next, u.completed)'
  BY <1>1, <1>5, FirstDueCovered DEF Covered
<1>8. Serves(u)'
  BY <1>1, <1>3, <1>5, <1>7 DEF Serves
<1>9. upserts' \in [Schedules -> 0..MaxUpserts]
  BY <1>1, SchedulerAssumption DEF WorkerOK, WorkerTyped
<1>10. WorkerTyped'
  BY ONLY WorkerOK, u = w', <1>1, <1>5, <1>6, <1>9 DEF WorkerOK, WorkerTyped
<1>11. Serving'
  BY ONLY u = w', <1>5, <1>8 DEF Serving
<1> QED
  BY <1>6, <1>10, <1>11 DEF WorkerOK

LEMMA RemoveKeeps ==
    ASSUME WorkerOK, NEW s \in Schedules, Remove(s)
    PROVE  WorkerOK'
<1> PICK v \in Workers : v = w /\ Serves(v)
  BY Request
<1>1. /\ v.pc = "ready" /\ v.todo = {} /\ v.got = {} /\ v.op = "none"
      /\ UNCHANGED <<now, upserts, claim, marker, w>> /\ sched' = [sched EXCEPT ![s] = NoSchedule]
  BY DEF Serves, Remove
<1>2. NoSchedule \in Files /\ NoSchedule.file = "absent"
  BY SchedulerAssumption DEF NoSchedule, Files
<1>3. /\ sched' \in [Schedules -> Files] /\ sched'[s] = NoSchedule
      /\ \A q \in Schedules : q # s => sched'[q] = sched[q]
  BY <1>1, <1>2 DEF WorkerOK, WorkerTyped
<1>4. FilesCovered'
  BY <1>1, <1>2, <1>3 DEF WorkerOK, FilesCovered, Covered
<1>5. Serves(v)'
  BY <1>1 DEF Serves
<1>6. now' \in 0..MaxTime /\ claim' \in [Occurrences -> {"absent", "torn", "claimed"}] /\ w' = v
  BY <1>1 DEF WorkerOK, WorkerTyped
<1> QED
  BY <1>1, <1>3, <1>4, <1>5, <1>6, WorkerStands

LEMMA ClaimDueKeeps ==
    ASSUME WorkerOK, NEW t \in Requesters, BeginClaimDue(t)
    PROVE  WorkerOK' /\ w'.got = {} /\ w'.for = t /\ w'.pc = "scan"
<1> PICK v \in Workers : v = w /\ Serves(v)
  BY Request
<1>1. v.pc = "ready" /\ v.got = {} /\ UNCHANGED <<now, sched, upserts, claim, marker>>
  BY DEF Serves, BeginClaimDue, store
<1> PICK u : u = w'
  OBVIOUS
<1> PICK d : d = Stored
  OBVIOUS
<1>2. u = [v EXCEPT !.pc = "scan", !.op = "due", !.for = t, !.todo = d]
  BY DEF BeginClaimDue
<1>3. d \subseteq Schedules /\ \A s \in d : sched[s].file # "absent"
  BY DEF Stored
<1>4. u \in Workers /\ u.pc = "scan" /\ u.op = "due" /\ u.for = t /\ u.todo = d /\ u.got = v.got
  BY ONLY v \in Workers, t \in Requesters, <1>2, <1>3 DEF Workers
<1>5. Serves(u)'
  BY <1>1, <1>3, <1>4 DEF Serves
<1>6. /\ FilesCovered' /\ now' \in 0..MaxTime /\ sched' \in [Schedules -> Files]
      /\ claim' \in [Occurrences -> {"absent", "torn", "claimed"}]
  BY <1>1, SameFiles DEF WorkerOK, WorkerTyped
<1>7. WorkerOK'
  BY ONLY WorkerOK, u = w', <1>1, <1>4, <1>5, <1>6, WorkerStands
<1> QED
  BY <1>1, <1>4, <1>7

LEMMA FireKeeps ==
    ASSUME WorkerOK, NEW t \in Requesters, NEW e \in 1..MaxEvents, BeginFire(t, e)
    PROVE  WorkerOK' /\ w'.got = {} /\ w'.for = t /\ w'.pc = "scan"
<1> PICK v \in Workers : v = w /\ Serves(v)
  BY Request
<1>1. v.pc = "ready" /\ v.got = {} /\ UNCHANGED <<now, sched, upserts, claim, marker>>
  BY DEF Serves, BeginFire, store
<1> PICK u : u = w'
  OBVIOUS
<1> PICK d : d = Stored \cap Observers
  OBVIOUS
<1>2. u = [v EXCEPT !.pc = "scan", !.op = "fire", !.for = t, !.todo = d, !.next = e]
  BY DEF BeginFire
<1>3. d \subseteq Schedules /\ d \subseteq Observers /\ \A s \in d : sched[s].file # "absent"
  BY DEF Stored
<1>4. e \in Numbers
  BY SchedulerAssumption DEF Numbers
<1>5. /\ u \in Workers /\ u.pc = "scan" /\ u.op = "fire" /\ u.for = t /\ u.todo = d /\ u.got = v.got
      /\ u.next = e
  BY ONLY v \in Workers, t \in Requesters, <1>2, <1>3, <1>4 DEF Workers
<1>6. Serves(u)'
  BY <1>1, <1>3, <1>5 DEF Serves
<1>7. /\ FilesCovered' /\ now' \in 0..MaxTime /\ sched' \in [Schedules -> Files]
      /\ claim' \in [Occurrences -> {"absent", "torn", "claimed"}]
  BY <1>1, SameFiles DEF WorkerOK, WorkerTyped
<1>8. WorkerOK'
  BY ONLY WorkerOK, u = w', <1>1, <1>5, <1>6, <1>7, WorkerStands
<1> QED
  BY <1>1, <1>5, <1>8

\* A backup that is restored is the file it was.
LEMMA RestoreKeeps ==
    ASSUME sched \in [Schedules -> Files], FilesCovered, claim' = claim,
           sched' = [s \in Schedules |-> Restored(sched[s])]
    PROVE  sched' \in [Schedules -> Files] /\ FilesCovered'
<1>1. ASSUME NEW s \in Schedules
      PROVE  /\ sched'[s] \in Files /\ sched'[s].next = sched[s].next /\ sched'[s].completed = sched[s].completed
             /\ sched[s].file # "absent" <=> sched'[s].file # "absent"
  <2>1. sched[s] \in Files /\ sched'[s] = Restored(sched[s])
    OBVIOUS
  <2>2. CASE sched[s].file = "swapped"
    BY <2>1, <2>2 DEF Restored, Files
  <2>3. CASE sched[s].file # "swapped"
    BY <2>1, <2>3 DEF Restored, Files
  <2> QED
    BY <2>2, <2>3
<1>2. FilesCovered'
  BY <1>1 DEF FilesCovered, Covered
<1> QED
  BY <1>1, <1>2

\* A worker that rests, after an answer, an error, a start or its death.
LEMMA RestKeeps ==
    ASSUME WorkerOK, w' = Ready \/ w' = Dead, UNCHANGED <<now, upserts, claim, marker>>,
           sched' = sched \/ sched' = [s \in Schedules |-> Restored(sched[s])]
    PROVE  WorkerOK' /\ w'.got = {} /\ w'.for = Nobody /\ w'.pc \in {"ready", "dead"}
<1> PICK u : u = w'
  OBVIOUS
<1>1. /\ u \in Workers /\ u.pc \in {"ready", "dead"} /\ u.op = "none" /\ u.for = Nobody
      /\ u.todo = {} /\ u.got = {}
  BY WorkerRests
<1>2. sched' \in [Schedules -> Files] /\ FilesCovered'
  BY RestoreKeeps, SameFiles DEF WorkerOK, WorkerTyped
<1>3. Serves(u)'
  BY <1>1 DEF Serves
<1>4. now' \in 0..MaxTime /\ claim' \in [Occurrences -> {"absent", "torn", "claimed"}]
  BY DEF WorkerOK, WorkerTyped
<1>5. WorkerOK'
  BY ONLY WorkerOK, UNCHANGED <<now, upserts, claim, marker>>, u = w', <1>1, <1>2, <1>3, <1>4, WorkerStands
<1> QED
  BY <1>1, <1>5

\* A terminal marker is written once and says how the execution ended.
LEMMA MarkerKeeps ==
    ASSUME WorkerOK, UNCHANGED <<now, sched, upserts, claim, w>>, NEW x, NEW succeeded,
           CompleteExecution(x, succeeded) \/ UNCHANGED marker
    PROVE  WorkerOK'
<1>1. marker' \in [Occurrences -> SUBSET {"succeeded", "failed"}]
  BY DEF WorkerOK, WorkerTyped, CompleteExecution
<1>2. WorkerTyped'
  BY <1>1 DEF WorkerOK, WorkerTyped
<1>3. FilesCovered' /\ Serving'
  BY DEF WorkerOK, FilesCovered, Covered, Serving, Serves
<1> QED
  BY <1>2, <1>3 DEF WorkerOK

LEMMA WorkerIdles ==
    ASSUME WorkerOK, UNCHANGED workerVars
    PROVE  WorkerOK'
<1>1. UNCHANGED <<now, sched, upserts, claim, marker, w>>
  BY DEF workerVars, store
<1> QED
  BY <1>1, MarkerKeeps

LEMMA WorkerStarts ==
    ASSUME WorkerInit
    PROVE  WorkerOK
<1>1. NoSchedule \in Files /\ NoSchedule.file = "absent"
  BY SchedulerAssumption DEF NoSchedule, Files
<1>2. WorkerTyped
  BY <1>1, WorkerRests, SchedulerAssumption DEF WorkerInit, WorkerTyped
<1>3. FilesCovered
  BY <1>1 DEF WorkerInit, FilesCovered
<1>4. Serves(Dead)
  BY WorkerRests DEF Serves
<1>5. Serving
  BY <1>4, WorkerRests DEF Serving, WorkerInit
<1> QED
  BY <1>2, <1>3, <1>5 DEF WorkerOK

LEMMA WorkerPromises ==
    ASSUME WorkerOK
    PROVE  WorkerTypeOK /\ NoOccurrenceSkipped
<1>1. WorkerTypeOK
  BY DEF WorkerOK, WorkerTyped, WorkerTypeOK, Files, Workers
<1>2. NoOccurrenceSkipped
  BY DEF WorkerOK, FilesCovered, Covered, NoOccurrenceSkipped
<1> QED
  BY <1>1, <1>2
=============================================================================
