----------------------- MODULE MaterializationProofs -----------------------
(***************************************************************************)
(* For every time range, every number of jobs and calls: the cutoff times   *)
(* lie in the range and end with its end, what a remote launcher answers    *)
(* about a job is so, and the local one leaves no process behind.           *)
(***************************************************************************)
EXTENDS Materialization, TLAPS

LEMMA MultipleInRange ==
  ASSUME NEW d \in Nat, NEW by \in Nat \ {0}, NEW m \in 0..(d \div by)
  PROVE  m * by \in 0..d
<1> DEFINE q == d \div by
<1>1. q \in Nat /\ q * by <= d
  OBVIOUS
<1>2. m * by <= q * by
  <2>1. q - m \in Nat /\ by \in Nat
    BY <1>1
  <2>2. (q - m) * by >= 0
    BY <2>1
  <2>3. (q - m) * by = q * by - m * by
    BY <1>1
  <2> QED
    BY <1>1, <2>2, <2>3
<1>3. m * by \in Nat
  OBVIOUS
<1> QED
  BY <1>1, <1>2, <1>3

LEMMA CutoffsInRange ==
  ASSUME NEW from \in Int, NEW to \in Int, from <= to, NEW by \in Nat \ {0}
  PROVE  /\ Cutoffs(from, to, by) \in Seq(from..to)
         /\ Len(Cutoffs(from, to, by)) = (to - from) \div by + 1
<1> DEFINE deltas == (to - from) \div by + 1
<1>1. to - from \in Nat /\ deltas \in Nat \ {0}
  OBVIOUS
<1>2. ASSUME NEW n \in 1..deltas
      PROVE  to - (deltas - n) * by \in from..to
  <2>1. deltas - n \in 0..((to - from) \div by)
    BY <1>1
  <2>2. (deltas - n) * by \in 0..(to - from)
    BY <1>1, <2>1, MultipleInRange
  <2> QED
    BY <2>2
<1>3. Cutoffs(from, to, by) = [n \in 1..deltas |-> to - (deltas - n) * by]
  BY DEF Cutoffs
<1>4. Cutoffs(from, to, by) \in [1..deltas -> from..to]
  BY <1>2, <1>3
<1>5. Cutoffs(from, to, by) \in Seq(from..to) /\ Len(Cutoffs(from, to, by)) = deltas
  <2> HIDE DEF deltas
  <2> QED
    BY <1>1, <1>3, <1>4
<1> QED
  BY <1>5

\* The times of the range that are whole steps from its end, oldest first.
CutoffsCountBack ==
  LET cutoffs == Cutoffs(start, end, step)
  IN  /\ {cutoffs[n] : n \in 1..Len(cutoffs)} = {t \in start..end : (end - t) % step = 0}
      /\ \A m, n \in 1..Len(cutoffs) : m < n => cutoffs[m] < cutoffs[n]

\* get_backfill_cutoff_time, for every time range and step.
LEMMA CutoffsGrid ==
  ASSUME start \in Int, end \in Int, start <= end, step \in Nat \ {0}
  PROVE  CutoffsCountBack
<1> DEFINE d == end - start
           deltas == d \div step + 1
           cutoffs == Cutoffs(start, end, step)
<1>1. d \in Nat /\ deltas \in Nat \ {0}
  OBVIOUS
<1>2. cutoffs \in Seq(start..end) /\ Len(cutoffs) = deltas
  BY CutoffsInRange
<1>3. \A n \in 1..deltas : cutoffs[n] = end - (deltas - n) * step
  BY DEF Cutoffs
<1>4. ASSUME NEW n \in 1..deltas
      PROVE  (end - cutoffs[n]) % step = 0
  <2>1. end - cutoffs[n] = (deltas - n) * step
    BY <1>1, <1>3
  <2>2. deltas - n \in Nat
    BY <1>1
  <2> HIDE DEF deltas, cutoffs
  <2>3. ((deltas - n) * step) % step = 0
    BY <2>2
  <2> QED
    BY <2>1, <2>3
<1>5. ASSUME NEW t \in start..end, (end - t) % step = 0
      PROVE  \E n \in 1..deltas : cutoffs[n] = t
  <2> DEFINE k == (end - t) \div step
  <2>1. k \in Nat /\ end - t = k * step
    BY <1>5
  <2>2. k <= d \div step
    BY <1>1, <2>1
  <2>3. deltas - k \in 1..deltas
    BY <1>1, <2>1, <2>2
  <2>4. cutoffs[deltas - k] = end - (deltas - (deltas - k)) * step
    BY <1>3, <2>3
  <2>5. deltas - (deltas - k) = k
    BY <1>1, <2>1
  <2>6. cutoffs[deltas - k] = end - k * step
    BY <2>4, <2>5
  <2>7. cutoffs[deltas - k] = t
    BY <2>1, <2>6
  <2> HIDE DEF k
  <2> QED
    BY <2>3, <2>7
<1>6. ASSUME NEW m \in 1..deltas, NEW n \in 1..deltas, m < n
      PROVE  cutoffs[m] < cutoffs[n]
  <2>1. cutoffs[m] = end - (deltas - m) * step /\ cutoffs[n] = end - (deltas - n) * step
    BY <1>3
  <2>2. deltas \in Nat
    BY <1>1
  <2> HIDE DEF deltas, cutoffs
  <2>3. (deltas - m) * step = (deltas - n) * step + (n - m) * step
    BY <2>2
  <2>4. (n - m) * step > 0
    BY <1>6
  <2> QED
    BY <2>1, <2>2, <2>3, <2>4
<1>7. {cutoffs[n] : n \in 1..Len(cutoffs)} = {t \in start..end : (end - t) % step = 0}
  <2>1. ASSUME NEW n \in 1..deltas PROVE cutoffs[n] \in start..end
    BY <1>2, <2>1
  <2>2. \A n \in 1..deltas : cutoffs[n] \in start..end /\ (end - cutoffs[n]) % step = 0
    BY <1>4, <2>1
  <2>3. \A t \in start..end :
          (end - t) % step = 0 => \E n \in 1..deltas : cutoffs[n] = t
    BY <1>5
  <2>4. Len(cutoffs) = deltas
    BY <1>2
  <2> HIDE DEF cutoffs, deltas, d
  <2>5. \A t : t \in {cutoffs[n] : n \in 1..deltas}
              <=> t \in {u \in start..end : (end - u) % step = 0}
    <3> SUFFICES ASSUME NEW t
                 PROVE  (\E n \in 1..deltas : cutoffs[n] = t)
                        <=> t \in start..end /\ (end - t) % step = 0
      OBVIOUS
    <3> QED
      BY <2>2, <2>3
  <2> QED
    BY <2>4, <2>5
<1> QED
  BY <1>2, <1>6, <1>7 DEF CutoffsCountBack

\* In a range of whole steps it does not matter from which end they are counted.
LEMMA SameGrid ==
  ASSUME NEW from \in Int, NEW to \in Int, NEW by \in Nat \ {0},
         (to - from) % by = 0, NEW t \in from..to
  PROVE  (to - t) % by = 0 <=> (t - from) % by = 0
<1> DEFINE all == (to - from) \div by
<1>1. all \in Int /\ to - from = all * by
  OBVIOUS
<1>2. ASSUME (to - t) % by = 0 PROVE (t - from) % by = 0
  <2> DEFINE k == (to - t) \div by
  <2>1. k \in Int /\ to - t = k * by
    BY <1>2
  <2> HIDE DEF all, k
  <2>2. t - from = (all - k) * by
    BY <1>1, <2>1
  <2>3. ((all - k) * by) % by = 0
    BY <1>1, <2>1
  <2> QED
    BY <2>2, <2>3
<1>3. ASSUME (t - from) % by = 0 PROVE (to - t) % by = 0
  <2> DEFINE k == (t - from) \div by
  <2>1. k \in Int /\ t - from = k * by
    BY <1>3
  <2> HIDE DEF all, k
  <2>2. to - t = (all - k) * by
    BY <1>1, <2>1
  <2>3. ((all - k) * by) % by = 0
    BY <1>1, <2>1
  <2> QED
    BY <2>2, <2>3
<1> QED
  BY <1>2, <1>3

-----------------------------------------------------------------------------

\* A wait is for a job that was submitted; only a local one polls in two steps.
Monitored ==
  /\ waiting # "no" => waited # 0 /\ answer = "none"
  /\ answer # "none" => waited # 0
  /\ waiting = "alive" => launcher = "local"

\* What an answer says of the job waited for.
Truthful ==
  /\ answer = "false" => Waited = "failed"
  /\ launcher # "local" /\ answer = "true" => Waited = "succeeded"
  /\ launcher = "local" /\ CleanUp /\ answer \notin {"none", "nolog"} => Waited \in Ended

JobStep(j) == JobWrites(j) \/ JobSucceeds(j) \/ JobFails(j) \/ JobKilled(j) \/ JobSkipped(j)

IInv == TypeOK /\ start <= end /\ Monitored /\ Truthful

LEMMA InitIInv == Init => IInv
<1> SUFFICES ASSUME Init PROVE IInv
  OBVIOUS
<1> USE BoundsAssumption DEF Init
<1>1. TypeOK /\ start <= end
  <2>1. launcher \in Launchers /\ timeout \in BOOLEAN
    BY Zenon
  <2>2. /\ start \in 0..MaxTime /\ end \in 0..MaxTime /\ step \in 1..MaxStep
        /\ asked \in end..MaxTime /\ start <= end
    OBVIOUS
  <2>3. /\ todo = <<>> /\ outcome = "none" /\ jobs = <<>>
        /\ waiting = "no" /\ waited = 0 /\ answer = "none" /\ calls = 0
    BY Zenon
  <2> HIDE DEF Init
  <2> QED
    BY <2>1, <2>2, <2>3 DEF TypeOK
<1>2. Monitored /\ Truthful
  BY DEF Monitored, Truthful
<1> QED
  BY <1>1, <1>2 DEF IInv

LEMMA HeadAndTail ==
  ASSUME NEW S, NEW q \in Seq(S), q # <<>>
  PROVE  Head(q) \in S /\ Tail(q) \in Seq(S)
OBVIOUS

\* The jobs only grow in number, keep their cutoffs, and a job that has ended stays
\* as it ended.
LEMMA EndedStays ==
  ASSUME TypeOK, Monitored, [Next]_vars
  PROVE  /\ jobs' \in Seq(Jobs)
         /\ Len(jobs) <= Len(jobs')
         /\ \A j \in 1..Len(jobs) : StatusOf(j) \in Ended => StatusOf(j)' = StatusOf(j)
         /\ \A j \in 1..Len(jobs) : jobs'[j].cutoff = jobs[j].cutoff
<1> DEFINE Goal == /\ jobs' \in Seq(Jobs)
                   /\ Len(jobs) <= Len(jobs')
                   /\ \A j \in 1..Len(jobs) :
                        StatusOf(j) \in Ended => StatusOf(j)' = StatusOf(j)
                   /\ \A j \in 1..Len(jobs) : jobs'[j].cutoff = jobs[j].cutoff
<1>1. jobs \in Seq(Jobs) /\ Len(jobs) \in Nat /\ waited \in 0..Len(jobs)
  <2>1. jobs \in Seq(Jobs) /\ waited \in 0..Len(jobs)
    BY Zenon DEF TypeOK
  <2> QED
    BY <2>1
<1>2. CASE jobs' = jobs
  BY <1>1, <1>2 DEF StatusOf
<1>3. ASSUME NEW c \in Int, jobs' = Append(jobs, [cutoff |-> c, status |-> "running"])
      PROVE  Goal
  <2>1. [cutoff |-> c, status |-> "running"] \in Jobs
    BY DEF Jobs, Statuses
  <2>2. jobs' \in Seq(Jobs) /\ Len(jobs') = Len(jobs) + 1
    BY <1>1, <1>3, <2>1
  <2>3. \A j \in 1..Len(jobs) : jobs'[j] = jobs[j]
    BY <1>1, <1>3
  <2> QED
    BY <1>1, <2>2, <2>3 DEF StatusOf
<1>4. ASSUME NEW j \in 1..Len(jobs), NEW st \in Statuses,
             jobs[j].status \notin Ended \/ st = jobs[j].status,
             jobs' = [jobs EXCEPT ![j].status = st]
      PROVE  Goal
  <2>1. jobs[j] \in Jobs
    BY <1>1
  <2>2. [jobs[j] EXCEPT !.status = st] \in Jobs
    BY <2>1 DEF Jobs
  <2>3. jobs' = [jobs EXCEPT ![j] = [jobs[j] EXCEPT !.status = st]]
    BY <1>4
  <2>4. jobs' \in Seq(Jobs) /\ Len(jobs') = Len(jobs)
    BY <1>1, <2>2, <2>3
  <2>5. ASSUME NEW k \in 1..Len(jobs), StatusOf(k) \in Ended
        PROVE  StatusOf(k)' = StatusOf(k)
    <3>1. CASE k = j
      <4>1. st = jobs[j].status
        BY <1>4, <2>5, <3>1 DEF StatusOf
      <4>2. jobs'[j].status = st
        BY <1>1, <2>1, <2>3 DEF Jobs
      <4> QED
        BY <3>1, <4>1, <4>2 DEF StatusOf
    <3>2. CASE k # j
      BY <1>1, <2>3, <3>2 DEF StatusOf
    <3> QED
      BY <3>1, <3>2
  <2>6. ASSUME NEW k \in 1..Len(jobs) PROVE jobs'[k].cutoff = jobs[k].cutoff
    <3>1. CASE k = j
      BY <1>1, <2>1, <2>3, <3>1 DEF Jobs
    <3>2. CASE k # j
      BY <1>1, <2>3, <3>2
    <3> QED
      BY <3>1, <3>2
  <2> QED
    BY <1>1, <2>4, <2>5, <2>6
<1>5. ASSUME Terminate, waited # 0 PROVE Goal
  <2>1. waited \in 1..Len(jobs) /\ jobs[waited] \in Jobs
    BY <1>1, <1>5
  <2>2. PICK st : /\ jobs' = [jobs EXCEPT ![waited].status = st]
                  /\ \/ st = jobs[waited].status
                     \/ jobs[waited].status \in {"running", "written"}
                        /\ st \in {"terminated", "succeeded"}
    <3> DEFINE old == jobs[waited].status
    <3>1. CASE old = "running"
      <4>1. jobs' = [jobs EXCEPT ![waited].status = "terminated"]
        BY <1>5, <3>1 DEF Terminate
      <4> QED
        BY <3>1, <4>1
    <3>2. CASE old = "written"
      <4>1. jobs' = [jobs EXCEPT ![waited].status = "succeeded"]
        BY <1>5, <3>2 DEF Terminate
      <4> QED
        BY <3>2, <4>1
    <3>3. CASE old \notin {"running", "written"}
      <4>1. jobs' = [jobs EXCEPT ![waited].status = old]
        BY <1>5, <3>3 DEF Terminate
      <4> QED
        BY <4>1
    <3> QED
      BY <3>1, <3>2, <3>3
  <2>3. st \in Statuses /\ (jobs[waited].status \notin Ended \/ st = jobs[waited].status)
    BY <2>1, <2>2 DEF Jobs, Statuses, Ended
  <2> QED
    BY <1>4, <2>1, <2>2, <2>3
<1>6. ASSUME NEW j \in 1..Len(jobs), NEW st \in Statuses,
             jobs[j].status \notin Ended, Becomes(j, st)
      PROVE  Goal
  BY <1>4, <1>6 DEF Becomes
<1> QED
  <2> SUFFICES Goal
    OBVIOUS
  <2>1. CASE Submit
    <3>1. end' \in Int
      <4>1. todo \in Seq(start..asked) /\ todo # <<>> /\ end' = Head(todo)
        BY <2>1 DEF TypeOK, Submit
      <4>2. Head(todo) \in start..asked
        BY <4>1, HeadAndTail
      <4>3. start \in Int /\ asked \in Int
        BY BoundsAssumption DEF TypeOK
      <4> QED
        BY <4>1, <4>2, <4>3
    <3>2. \/ jobs' = jobs
          \/ jobs' = Append(jobs, [cutoff |-> end', status |-> "running"])
      BY <2>1 DEF Submit
    <3> QED
      BY <1>2, <1>3, <3>1, <3>2
  <2>2. ASSUME NEW j \in 1..Len(jobs),
               JobStep(j)
        PROVE  Goal
    BY <1>6, <2>2
    DEF JobStep, JobWrites, JobSucceeds, JobFails, JobKilled, JobSkipped, Statuses, Ended
  <2>3. CASE LocalLoops \/ LocalStalls \/ LocalTimesOut
    <3>1. waited # 0
      BY <2>3 DEF Monitored, LocalLoops, LocalStalls, LocalTimesOut
    <3>2. Terminate \/ jobs' = jobs
      BY <2>3 DEF LocalLoops, LocalStalls, LocalTimesOut
    <3> QED
      BY <1>2, <1>5, <3>1, <3>2
  <2>4. CASE Call \/ Return \/ Wait \/ LogIsMissing \/ LocalPoll \/ RemoteEnds \/ RemoteTimesOut
             \/ UNCHANGED vars
    BY <1>2, <2>4 DEF Call, Return, Wait, LogIsMissing, Answer, LocalPoll, RemoteEnds, RemoteTimesOut, vars
  <2> QED
    BY <2>1, <2>2, <2>3, <2>4 DEF Next, JobStep, WaitStep

\* The times and the counts; the jobs are EndedStays'.
LEMMA TypeStep ==
  ASSUME IInv, [Next]_vars
  PROVE  TypeOK' /\ start' <= end'
<1> USE BoundsAssumption
<1>1. /\ jobs' \in Seq(Jobs) /\ Len(jobs) <= Len(jobs')
      /\ TypeOK /\ Monitored
  BY EndedStays DEF IInv
<1>2. /\ start \in 0..MaxTime /\ end \in start..MaxTime /\ step \in 1..MaxStep
      /\ asked \in end..MaxTime /\ todo \in Seq(start..asked)
      /\ calls \in 0..MaxCalls /\ waited \in 0..Len(jobs)
      /\ jobs \in Seq(Jobs) /\ launcher \in Launchers /\ timeout \in BOOLEAN
      /\ outcome \in {"none", "running", "returned", "raised"}
      /\ waiting \in {"no", "poll", "alive"}
      /\ answer \in {"none", "true", "false", "nothing", "timeout", "nolog"}
  BY DEF IInv, TypeOK
<1>3. Len(jobs) \in Nat /\ Len(jobs') \in Nat
  BY <1>1, <1>2
<1>4. CASE Call
  <2>1. Cutoffs(start, end, step) \in Seq(start..end)
    BY <1>2, CutoffsInRange
  <2>2. Cutoffs(start, end, step) \in Seq(start..asked)
    BY <1>2, <2>1
  <2> QED
    BY <1>1, <1>2, <1>3, <1>4, <2>2 DEF Call, TypeOK
<1>5. CASE Submit
  <2>1. Head(todo) \in start..asked /\ Tail(todo) \in Seq(start..asked)
    <3>1. todo # <<>>
      BY <1>5 DEF Submit
    <3> QED
      BY <1>2, <3>1, HeadAndTail
  <2>2. end' \in start..asked /\ start' = start /\ asked' = asked
    BY <1>5, <2>1 DEF Submit
  <2>3. end' \in 0..MaxTime /\ asked' \in end'..MaxTime /\ start' <= end'
    <3>1. /\ start \in Int /\ asked \in Int /\ MaxTime \in Int
          /\ 0 <= start /\ asked <= MaxTime
      BY <1>2
    <3>2. end' \in Int /\ start <= end' /\ end' <= asked
      BY <2>2, <3>1
    <3> QED
      BY <2>2, <3>1, <3>2
  <2>4. todo' \in Seq(start..asked) /\ outcome' \in {"none", "running", "returned", "raised"}
    <3>1. <<>> \in Seq(start..asked)
      OBVIOUS
    <3>2. \/ todo' = Tail(todo) /\ outcome' = outcome
          \/ todo' = <<>> /\ outcome' = "raised"
      BY <1>5 DEF Submit
    <3> QED
      BY <1>2, <2>1, <3>1, <3>2
  <2>5. UNCHANGED <<launcher, start, step, asked, calls, waiting, waited, timeout, answer>>
    BY <1>5 DEF Submit
  <2> QED
    BY <1>1, <1>2, <1>3, <2>3, <2>4, <2>5 DEF TypeOK
<1>6. ASSUME NEW j \in 1..Len(jobs),
             JobStep(j)
      PROVE  TypeOK' /\ start' <= end'
  <2>1. OnlyJobs
    BY <1>6 DEF JobStep, JobWrites, JobSucceeds, JobFails, JobKilled, JobSkipped
  <2> QED
    BY <1>1, <1>2, <1>3, <2>1 DEF OnlyJobs, TypeOK
<1>7. CASE Return
  BY <1>1, <1>2, <1>3, <1>7 DEF Return, TypeOK
<1>8. CASE Wait \/ LogIsMissing
  BY <1>1, <1>2, <1>3, <1>8 DEF Wait, LogIsMissing, Answer, TypeOK
<1>9. CASE LocalPoll \/ LocalLoops
  BY <1>1, <1>2, <1>3, <1>9
  DEF LocalPoll, LocalLoops, ByReturnCode, Answer, OnlyWait, TypeOK
<1>10. CASE LocalStalls \/ LocalTimesOut \/ RemoteEnds \/ RemoteTimesOut
  BY <1>1, <1>2, <1>3, <1>10
  DEF LocalStalls, LocalTimesOut, RemoteEnds, RemoteTimesOut, ByReturnCode,
      Answer, OnlyWait, TypeOK
<1>11. CASE UNCHANGED vars
  BY <1>2, <1>11 DEF vars, TypeOK
<1> QED
  BY <1>4, <1>5, <1>6, <1>7, <1>8, <1>9, <1>10, <1>11 DEF Next, JobStep, WaitStep

\* A step that leaves the wait alone leaves its answer true.
LEMMA OtherStepsTruthful ==
  ASSUME IInv, [Next]_vars, UNCHANGED <<launcher, waiting, waited, answer>>
  PROVE  Monitored' /\ Truthful'
<1>1. /\ \A j \in 1..Len(jobs) : StatusOf(j) \in Ended => StatusOf(j)' = StatusOf(j)
      /\ waited \in 0..Len(jobs) /\ Monitored /\ Truthful
  BY EndedStays DEF IInv, TypeOK
<1>2. waited # 0 => waited \in 1..Len(jobs)
  BY <1>1
<1>3. waited # 0 /\ Waited \in Ended => Waited' = Waited
  BY <1>1, <1>2 DEF Waited, StatusOf
<1>4. Monitored'
  BY <1>1 DEF Monitored
<1>5. Truthful'
  BY <1>1, <1>3 DEF Truthful, Monitored, Ended, Statuses
<1> QED
  BY <1>4, <1>5

\* After Terminate the job waited for has ended, and one that had failed, has.
LEMMA TerminateEnds ==
  ASSUME TypeOK, waited # 0, waited' = waited, Terminate
  PROVE  Waited' \in Ended /\ (Waited = "failed" => Waited' = "failed")
<1>1. jobs \in Seq(Jobs) /\ waited \in 1..Len(jobs)
  BY DEF TypeOK
<1>2. jobs[waited] \in Jobs
  BY <1>1
<1> DEFINE old == jobs[waited].status
           new == CASE old = "running" -> "terminated"
                    [] old = "written" -> "succeeded"
                    [] OTHER -> old
<1>3. old \in Statuses
  BY <1>2 DEF Jobs
<1>4. new \in Ended /\ (old = "failed" => new = "failed")
  BY <1>3 DEF Statuses, Ended
<1>5. jobs'[waited].status = new
  BY <1>1, <1>2 DEF Terminate, Jobs
<1> QED
  BY <1>4, <1>5 DEF Waited, StatusOf

LEMMA WaitStepTruthful ==
  ASSUME IInv, [Next]_vars, WaitStep
  PROVE  Monitored' /\ Truthful'
<1>1. TypeOK /\ Monitored /\ Truthful
  BY DEF IInv
<1>2. /\ waited # 0 /\ waited' = waited /\ waiting # "no" /\ answer = "none"
      /\ launcher' = launcher
  BY <1>1 DEF WaitStep, LocalPoll, LocalLoops, LocalStalls, LocalTimesOut,
              RemoteEnds, RemoteTimesOut, OnlyWait, Monitored
<1>3. waiting = "alive" => launcher = "local"
  BY <1>1 DEF Monitored
<1>4. CASE LocalPoll
  <2>1. Waited' = Waited /\ launcher = "local"
    BY <1>2, <1>4 DEF LocalPoll, Waited, StatusOf
  <2>2. CASE Waited \in Ended
    BY <1>2, <1>4, <2>1, <2>2
    DEF LocalPoll, Answer, ByReturnCode, Monitored, Truthful
  <2>3. CASE Waited \notin Ended
    BY <1>2, <1>4, <2>1, <2>3 DEF LocalPoll, Monitored, Truthful
  <2> QED
    BY <2>2, <2>3
<1>5. CASE LocalLoops
  BY <1>2, <1>5 DEF LocalLoops, Monitored, Truthful
<1>6. CASE LocalStalls
  <2>1. CASE CleanUp
    <3>1. Waited' \in Ended /\ (Waited = "failed" => Waited' = "failed")
      BY <1>1, <1>2, <1>6, <2>1, TerminateEnds DEF LocalStalls
    <3> QED
      BY <1>2, <1>3, <1>6, <2>1, <3>1
      DEF LocalStalls, Answer, ByReturnCode, Monitored, Truthful
  <2>2. CASE ~CleanUp
    BY <1>2, <1>3, <1>6, <2>2 DEF LocalStalls, Answer, Monitored, Truthful
  <2> QED
    BY <2>1, <2>2
<1>7. CASE LocalTimesOut
  <2>1. CASE CleanUp
    <3>1. Waited' \in Ended
      BY <1>1, <1>2, <1>7, <2>1, TerminateEnds DEF LocalTimesOut
    <3> QED
      BY <1>2, <1>3, <1>7, <2>1, <3>1 DEF LocalTimesOut, Answer, Monitored, Truthful
  <2>2. CASE ~CleanUp
    BY <1>2, <1>3, <1>7, <2>2 DEF LocalTimesOut, Answer, Monitored, Truthful
  <2> QED
    BY <2>1, <2>2
<1>8. CASE RemoteEnds
  <2>1. Waited' = Waited /\ launcher # "local"
    BY <1>2, <1>8 DEF RemoteEnds, Waited, StatusOf
  <2> QED
    BY <1>2, <1>8, <2>1 DEF RemoteEnds, Answer, Monitored, Truthful
<1>9. CASE RemoteTimesOut
  BY <1>2, <1>9 DEF RemoteTimesOut, Answer, Monitored, Truthful
<1> QED
  BY <1>4, <1>5, <1>6, <1>7, <1>8, <1>9 DEF WaitStep

LEMMA NextIInv == IInv /\ [Next]_vars => IInv'
<1> SUFFICES ASSUME IInv, [Next]_vars PROVE IInv'
  OBVIOUS
<1>1. TypeOK' /\ start' <= end'
  BY TypeStep
<1>2. CASE Wait \/ LogIsMissing
  <2>1. waited' # 0
    BY <1>2 DEF Wait, LogIsMissing, IInv, TypeOK
  <2> QED
    BY <1>1, <1>2, <2>1 DEF Wait, LogIsMissing, Answer, IInv, Monitored, Truthful
<1>3. CASE WaitStep
  BY <1>1, <1>3, WaitStepTruthful DEF IInv
<1>4. CASE UNCHANGED <<launcher, waiting, waited, answer>>
  BY <1>1, <1>4, OtherStepsTruthful DEF IInv
<1>5. \/ Wait \/ LogIsMissing \/ WaitStep
      \/ UNCHANGED <<launcher, waiting, waited, answer>>
  BY DEF Next, Call, Submit, Return, JobWrites, JobSucceeds, JobFails, JobKilled,
         JobSkipped, OnlyJobs, vars
<1> QED
  BY <1>2, <1>3, <1>4, <1>5

LEMMA Invariance == Spec => []IInv
<1>1. Init => IInv
  BY InitIInv
<1>2. IInv /\ [Next]_vars => IInv'
  BY NextIInv
<1> QED
  BY <1>1, <1>2, PTL DEF Spec

\* Type correctness, for every bound.
THEOREM TypeCorrect == Spec => []TypeOK
<1>1. IInv => TypeOK
  BY DEF IInv
<1> QED
  BY <1>1, Invariance, PTL

\* Both ends of a range of whole steps have a job, and every step between them, also
\* when a call of materialize_features has changed the settings.
THEOREM CutoffsAlways == Spec => []CutoffsAreTheGrid
<1>1. IInv => CutoffsAreTheGrid
  <2> SUFFICES ASSUME IInv PROVE CutoffsAreTheGrid
    OBVIOUS
  <2>1. start \in Int /\ end \in Int /\ start <= end /\ step \in Nat \ {0}
    BY BoundsAssumption DEF IInv, TypeOK
  <2>2. SUFFICES ASSUME (end - start) % step = 0
                 PROVE  {t \in start..end : (end - t) % step = 0}
                          = {t \in start..end : (t - start) % step = 0}
    BY <2>1, CutoffsGrid DEF CutoffsAreTheGrid, CutoffsCountBack
  <2>3. ASSUME NEW t \in start..end
        PROVE  (end - t) % step = 0 <=> (t - start) % step = 0
    BY <2>1, <2>2, SameGrid
  <2> QED
    BY <2>3
<1> QED
  BY <1>1, Invariance, PTL

\* Databricks and Synapse: a wait answers true of a job that has succeeded only,
\* whatever was submitted before and whatever failed.
THEOREM RemoteAnswersTrue == Spec => []RemoteTrueMeansSucceeded
<1>1. IInv => RemoteTrueMeansSucceeded
  BY DEF IInv, Truthful, RemoteTrueMeansSucceeded, TrueMeansSucceeded
<1> QED
  BY <1>1, Invariance, PTL

\* A wait answers false of no job that has written its data, with any launcher.
THEOREM FalseIsNeverWrong == Spec => []FalseMeansFailed
<1>1. IInv => FalseMeansFailed
  BY DEF IInv, Truthful, FalseMeansFailed
<1> QED
  BY <1>1, Invariance, PTL

\* With clean_up, as the client leaves it, no local job outlives a wait for it.
THEOREM LocalLeavesNothing == Spec => []NothingLeftRunning
<1>1. IInv => NothingLeftRunning
  BY DEF IInv, Truthful, NothingLeftRunning
<1> QED
  BY <1>1, Invariance, PTL

-----------------------------------------------------------------------------
\* CallSubmitsItsSteps: while a call runs, its steps are submitted or to do.

\* The cutoff that the settings will end with.
LastCutoff == IF todo = <<>> THEN end ELSE todo[Len(todo)]
Pending == {todo[n] : n \in 1..Len(todo)}
Grid(last) == {t \in start..last : (last - t) % step = 0}

Covered ==
  /\ outcome \in {"running", "returned"} => Grid(LastCutoff) \subseteq Submitted \cup Pending
  /\ outcome # "running" => todo = <<>>

LEMMA SubmittedStays ==
  ASSUME IInv, [Next]_vars
  PROVE  Submitted \subseteq Submitted'
<1>1. /\ Len(jobs) \in Nat /\ Len(jobs') \in Nat /\ Len(jobs) <= Len(jobs')
      /\ \A j \in 1..Len(jobs) : jobs'[j].cutoff = jobs[j].cutoff
  <2>1. TypeOK /\ Monitored
    BY DEF IInv
  <2>2. jobs \in Seq(Jobs)
    BY <2>1 DEF TypeOK
  <2> QED
    BY <2>1, <2>2, EndedStays
<1>2. \A j \in 1..Len(jobs) : j \in 1..Len(jobs') /\ jobs[j].cutoff = jobs'[j].cutoff
  BY <1>1
<1> QED
  BY <1>2 DEF Submitted

LEMMA CallCovers ==
  ASSUME IInv, Call
  PROVE  Covered'
<1>1. /\ todo' = Cutoffs(start, end, step) /\ outcome' = "running"
      /\ start' = start /\ end' = end /\ step' = step
  BY DEF Call
<1>2. start \in Int /\ end \in Int /\ start <= end /\ step \in Nat \ {0}
  BY BoundsAssumption DEF IInv, TypeOK
<1>3. {todo'[n] : n \in 1..Len(todo')} = {t \in start..end : (end - t) % step = 0}
  BY <1>1, <1>2, CutoffsGrid DEF CutoffsCountBack
<1>4. todo' # <<>> /\ todo'[Len(todo')] = end
  <2> DEFINE deltas == (end - start) \div step + 1
  <2>1. deltas \in Nat \ {0}
    <3>1. (end - start) \div step \in Nat
      BY <1>2
    <3> QED
      BY <3>1
  <2>2. todo' = [n \in 1..deltas |-> end - (deltas - n) * step]
    BY <1>1 DEF Cutoffs
  <2> HIDE DEF deltas
  <2>3. Len(todo') = deltas
    BY <2>1, <2>2
  <2>4. todo'[deltas] = end - (deltas - deltas) * step
    BY <2>1, <2>2
  <2> QED
    BY <1>2, <2>1, <2>3, <2>4
<1>5. LastCutoff' = end
  BY <1>4 DEF LastCutoff
<1>6. Grid(LastCutoff)' = Pending'
  BY <1>1, <1>3, <1>5 DEF Grid, Pending
<1> QED
  BY <1>1, <1>6 DEF Covered

LEMMA SubmitCovers ==
  ASSUME IInv, Covered, Submit
  PROVE  Covered'
<1>1. /\ outcome = "running" /\ todo # <<>> /\ end' = Head(todo)
      /\ start' = start /\ step' = step
  BY DEF Submit
<1>2. todo \in Seq(start..asked) /\ jobs \in Seq(Jobs)
  BY DEF IInv, TypeOK
<1>3. CASE outcome' = "raised" /\ todo' = <<>>
  BY <1>3 DEF Covered
<1>4. CASE /\ jobs' = Append(jobs, [cutoff |-> end', status |-> "running"])
           /\ todo' = Tail(todo) /\ outcome' = outcome
  <2>1. Submitted' = Submitted \cup {Head(todo)}
    <3> DEFINE job == [cutoff |-> end', status |-> "running"]
    <3>1. /\ Len(jobs) \in Nat /\ Len(jobs') = Len(jobs) + 1
          /\ jobs'[Len(jobs) + 1] = job
          /\ \A j \in 1..Len(jobs) : jobs'[j] = jobs[j]
      BY <1>2, <1>4
    <3>2. job.cutoff = Head(todo)
      BY <1>1
    <3> QED
      BY <3>1, <3>2 DEF Submitted
  <2>2. /\ Len(todo) \in Nat \ {0} /\ Len(todo') = Len(todo) - 1
        /\ \A n \in 1..Len(todo) : n # 1 => todo[n] = todo'[n - 1] /\ n - 1 \in 1..Len(todo')
        /\ todo[1] = Head(todo)
    BY <1>1, <1>2, <1>4
  <2>3. Pending \subseteq {Head(todo)} \cup Pending'
    BY <2>2 DEF Pending
  <2>4. LastCutoff' = LastCutoff
    <3>1. CASE Len(todo) = 1
      <4>1. todo' = <<>>
        BY <1>1, <1>2, <1>4, <3>1
      <4> QED
        BY <1>1, <2>2, <3>1, <4>1 DEF LastCutoff
    <3>2. CASE Len(todo) # 1
      <4>1. todo' # <<>> /\ Len(todo') = Len(todo) - 1
        <5>1. Len(todo') # 0
          BY <2>2, <3>2
        <5> QED
          BY <2>2, <5>1
      <4>2. todo'[Len(todo) - 1] = todo[Len(todo)]
        BY <2>2, <3>2
      <4> QED
        BY <1>1, <4>1, <4>2 DEF LastCutoff
    <3> QED
      BY <3>1, <3>2
  <2>5. Grid(LastCutoff)' = Grid(LastCutoff)
    BY <1>1, <2>4 DEF Grid
  <2> QED
    BY <1>1, <1>4, <2>1, <2>3, <2>5 DEF Covered
<1> QED
  BY <1>3, <1>4 DEF Submit

LEMMA NextCovers == IInv /\ Covered /\ [Next]_vars => Covered'
<1> SUFFICES ASSUME IInv, Covered, [Next]_vars PROVE Covered'
  OBVIOUS
<1>1. CASE Call
  BY <1>1, CallCovers
<1>2. CASE Submit
  BY <1>2, SubmitCovers
<1>3. CASE /\ UNCHANGED <<start, end, step, todo>>
           /\ outcome' = outcome \/ (outcome = "running" /\ todo = <<>>)
  <2>1. LastCutoff' = LastCutoff /\ Pending' = Pending /\ Grid(LastCutoff)' = Grid(LastCutoff)
    BY <1>3 DEF LastCutoff, Pending, Grid
  <2>2. Submitted \subseteq Submitted'
    BY SubmittedStays
  <2> QED
    BY <1>3, <2>1, <2>2 DEF Covered
<1>4. \/ Call \/ Submit
      \/ /\ UNCHANGED <<start, end, step, todo>>
         /\ outcome' = outcome \/ (outcome = "running" /\ todo = <<>>)
  BY DEF Next, Return, Wait, LogIsMissing, WaitStep, LocalPoll, LocalLoops, LocalStalls, LocalTimesOut,
         RemoteEnds, RemoteTimesOut, JobWrites, JobSucceeds, JobFails, JobKilled,
         JobSkipped, OnlyJobs, OnlyWait, vars
<1> QED
  BY <1>1, <1>2, <1>3, <1>4

\* A call that returns has submitted a job for every step of its settings, for
\* every range, step and number of calls, and whatever submissions failed before.
THEOREM EveryCallSubmitsItsSteps == Spec => []CallSubmitsItsSteps
<1>1. Init => IInv /\ Covered
  <2>1. Init => Covered
    BY DEF Init, Covered
  <2> QED
    BY <2>1, InitIInv
<1>2. IInv /\ Covered /\ [Next]_vars => IInv' /\ Covered'
  BY NextIInv, NextCovers
<1>3. IInv /\ Covered => CallSubmitsItsSteps
  <2> SUFFICES ASSUME IInv, Covered, outcome = "returned"
               PROVE  Grid(end) \subseteq Submitted
    BY DEF CallSubmitsItsSteps, Grid
  <2>1. todo = <<>>
    BY DEF Covered
  <2>2. LastCutoff = end /\ Pending = {}
    BY <2>1 DEF LastCutoff, Pending
  <2> QED
    BY <2>2 DEF Covered
<1> QED
  BY <1>1, <1>2, <1>3, PTL DEF Spec

=============================================================================
