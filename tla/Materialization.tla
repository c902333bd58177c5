-------------------------- MODULE Materialization --------------------------
(***************************************************************************)
(* FeathrClient.materialize_features with a backfill time range: one Spark  *)
(* job for each cutoff time, run in parallel; the three Spark launchers     *)
(* (local processes, Databricks, Synapse) and their wait_for_completion.    *)
(*                                                                         *)
(* Times are integers.  A timeout may strike at any moment of a wait.       *)
(***************************************************************************)
EXTENDS Integers, Sequences, FiniteSets

CONSTANTS
  Launchers,      \* of "local", "databricks" and "synapse" those a client may use
  CleanUp,        \* clean_up of the local launcher; the client leaves it TRUE
  Signals,        \* whether a local process may die of a signal
  Faults,         \* whether a submission may fail
  MaxTime,        \* bound: start and end of the time range
  MaxStep,        \* bound: step of the time range
  MaxCalls        \* bound: calls of materialize_features with the settings

ASSUME LaunchersAssumption == Launchers \subseteq {"local", "databricks", "synapse"}
ASSUME BoundsAssumption ==
  MaxTime \in Nat /\ MaxStep \in Nat \ {0} /\ MaxCalls \in Nat

VARIABLES
  launcher,       \* feathr_spark_launcher of the client
  start, end, step,  \* settings.backfill_time
  asked,          \* backfill_time.end as the user made it; history
  calls,          \* calls of materialize_features so far
  todo,           \* the cutoff times the call has not submitted yet
  outcome,        \* "none", "running", "returned" or "raised": the last call
  jobs,           \* the jobs submitted, oldest first: [cutoff, status]
  waiting,        \* wait_for_completion: "no", "poll" before a poll, "alive" after
                  \* a poll of a local process that had not ended
  waited,         \* the job waited for, or 0
  timeout,        \* whether the wait has a timeout; FALSE is timeout_seconds=None
  answer          \* the result of the last wait; "none" before any

vars == <<launcher, start, end, step, asked, calls, todo, outcome, jobs,
          waiting, waited, timeout, answer>>

\* written: the data is in the sinks and the log says so; terminated: by clean_up;
\* skipped: a run that is over with a status no launcher asks for.
Statuses ==
  {"running", "written", "succeeded", "failed", "killed", "terminated", "skipped"}
Ended == Statuses \ {"running", "written"}
Jobs == [cutoff : Int, status : Statuses]

TypeOK ==
  /\ launcher \in Launchers /\ timeout \in BOOLEAN
  /\ start \in 0..MaxTime /\ end \in 0..MaxTime /\ step \in 1..MaxStep
  /\ asked \in end..MaxTime
  /\ calls \in 0..MaxCalls
  /\ todo \in Seq(start..asked)
  /\ outcome \in {"none", "running", "returned", "raised"}
  /\ jobs \in Seq(Jobs)
  /\ waiting \in {"no", "poll", "alive"} /\ waited \in 0..Len(jobs)
  /\ answer \in {"none", "true", "false", "nothing", "timeout", "nolog"}

Init ==
  /\ launcher \in Launchers
  /\ start \in 0..MaxTime /\ end \in start..MaxTime /\ step \in 1..MaxStep
  /\ asked = end
  /\ calls = 0
  /\ todo = <<>> /\ outcome = "none"
  /\ jobs = <<>>
  /\ waiting = "no" /\ waited = 0 /\ timeout = FALSE /\ answer = "none"

-----------------------------------------------------------------------------
(* materialize_features *)

NewestFirst(from, to, by) ==
  [n \in 1..((to - from) \div by + 1) |-> to - (n - 1) * by]
OneCutoffLess(from, to, by) ==
  LET deltas == (to - from) \div by
  IN  [n \in 1..deltas |-> to - (deltas - n) * by]

OneCutoffMore(from, to, by) ==
  LET deltas == (to - from) \div by + 2
  IN  [n \in 1..deltas |-> to - (deltas - n) * by]

\* get_backfill_cutoff_time: counted back from the end.
Cutoffs(from, to, by) ==
  LET deltas == (to - from) \div by + 1
  IN  [n \in 1..deltas |-> to - (deltas - n) * by]

Idle == outcome # "running" /\ waiting = "no"

Call ==
  /\ Idle /\ calls < MaxCalls
  /\ calls' = calls + 1
  /\ todo' = Cutoffs(start, end, step)
  /\ outcome' = "running"
  /\ UNCHANGED <<launcher, start, end, step, asked, jobs, waiting, waited,
                 timeout, answer>>

\* One round of the loop.  The settings of the caller are changed before the job
\* is submitted.
Submit ==
  /\ outcome = "running" /\ todo # <<>>
  /\ end' = Head(todo)
  /\ \/ /\ jobs' = Append(jobs, [cutoff |-> end', status |-> "running"])
        /\ todo' = Tail(todo)
        /\ outcome' = outcome
     \/ /\ Faults
        /\ todo' = <<>> /\ outcome' = "raised"
        /\ jobs' = jobs
  /\ UNCHANGED <<launcher, start, step, asked, calls, waiting, waited,
                 timeout, answer>>

Return ==
  /\ outcome = "running" /\ todo = <<>>
  /\ outcome' = "returned"
  /\ UNCHANGED <<launcher, start, end, step, asked, calls, todo, jobs,
                 waiting, waited, timeout, answer>>

-----------------------------------------------------------------------------
(* The Spark jobs *)

Becomes(j, status) == jobs' = [jobs EXCEPT ![j].status = status]
OnlyJobs ==
  UNCHANGED <<launcher, start, end, step, asked, calls, todo, outcome, waiting,
              waited, timeout, answer>>

JobWrites(j) ==
  /\ jobs[j].status = "running"
  /\ Becomes(j, "written")
  /\ OnlyJobs

JobSucceeds(j) ==
  /\ jobs[j].status = "written"
  /\ Becomes(j, "succeeded")
  /\ OnlyJobs

\* Ends with return code 1, or with a failed status.
JobFails(j) ==
  /\ jobs[j].status = "running"
  /\ Becomes(j, "failed")
  /\ OnlyJobs

\* Ends with another return code, such as that of a kill for want of memory.
JobKilled(j) ==
  /\ Signals /\ launcher = "local"
  /\ jobs[j].status = "running"
  /\ Becomes(j, "killed")
  /\ OnlyJobs

\* Databricks: the life cycle ends as SKIPPED, without a result state.
JobSkipped(j) ==
  /\ launcher = "databricks"
  /\ jobs[j].status = "running"
  /\ Becomes(j, "skipped")
  /\ OnlyJobs

-----------------------------------------------------------------------------
(* wait_for_completion of the latest job: latest_spark_proc, res_job_id,       *)
(* current_job_info                                                           *)

StatusOf(j) == jobs[j].status
Waited == StatusOf(waited)
Answer(a) == waiting' = "no" /\ answer' = a
OnlyWait ==
  UNCHANGED <<launcher, start, end, step, asked, calls, todo, outcome,
              waited, timeout>>

\* latest_spark_proc, res_job_id, current_job_info: the job submitted last.
Wait ==
  /\ Idle /\ jobs # <<>>
  /\ waiting' = "poll" /\ waited' = Len(jobs) /\ answer' = "none"
  /\ timeout' \in BOOLEAN
  /\ UNCHANGED <<launcher, start, end, step, asked, calls, todo, outcome, jobs>>

\* log_path is that of the submission that failed last, unless it failed before
\* submit_feathr_job was reached: its log of an earlier number is not there.
LogIsMissing ==
  /\ Idle /\ jobs # <<>>
  /\ launcher = "local" /\ outcome = "raised"
  /\ Answer("nolog") /\ waited' = Len(jobs)
  /\ UNCHANGED <<launcher, start, end, step, asked, calls, todo, outcome, jobs,
                 timeout>>

\* Return code 1 is a failure, every other one a success.
ByReturnCode == IF Waited = "failed" THEN "false" ELSE "true"

LocalPoll ==
  /\ waiting = "poll" /\ launcher = "local"
  /\ IF Waited \in Ended
     THEN Answer(ByReturnCode)
     ELSE waiting' = "alive" /\ UNCHANGED answer
  /\ OnlyWait /\ UNCHANGED jobs

\* _clean_up and proc.wait, or terminate once the log says that the job completed.
Terminate ==
  jobs' = [jobs EXCEPT ![waited].status =
             CASE @ = "running" -> "terminated"
               [] @ = "written" -> "succeeded"
               [] OTHER -> @]

\* The next round of the loop, which may find the line in the log.
LocalLoops ==
  /\ waiting = "alive"
  /\ waiting' = "poll"
  /\ (Waited = "written" /\ Terminate) \/ UNCHANGED jobs
  /\ OnlyWait /\ UNCHANGED answer

StallIsFailure ==
  /\ waiting = "alive"
  /\ IF CleanUp THEN Terminate /\ Answer("false")
                ELSE Answer("nothing") /\ UNCHANGED jobs
  /\ OnlyWait

\* The log has stood still for retry * retry_sec.
LocalStalls ==
  /\ waiting = "alive"
  /\ IF CleanUp THEN Terminate /\ Answer(ByReturnCode)
                ELSE Answer("nothing") /\ UNCHANGED jobs
  /\ OnlyWait

TimesOutOnly ==
  /\ waiting = "alive" /\ timeout
  /\ Answer(IF CleanUp THEN "true" ELSE "nothing")
  /\ OnlyWait /\ UNCHANGED jobs

\* The process may have ended since the poll; returncode still is None then.
LocalTimesOut ==
  /\ waiting = "alive" /\ timeout
  /\ IF CleanUp THEN Terminate /\ Answer("true")
                ELSE Answer("nothing") /\ UNCHANGED jobs
  /\ OnlyWait

SuccessOnly ==
  /\ waiting = "poll" /\ launcher # "local"
  /\ Waited = "succeeded" /\ Answer("true")
  /\ OnlyWait /\ UNCHANGED jobs

TrueWhenEnded ==
  /\ waiting = "poll" /\ launcher # "local" /\ Waited \in Ended
  /\ Answer("true")
  /\ OnlyWait /\ UNCHANGED jobs

\* Databricks and Synapse: the status is one of those that end the wait.  They sleep
\* on for every other one.
RemoteEnds ==
  /\ waiting = "poll" /\ launcher # "local"
  /\ \/ Waited = "succeeded" /\ Answer("true")
     \/ Waited = "failed" /\ Answer("false")
  /\ OnlyWait /\ UNCHANGED jobs

RemoteTimesOut ==
  /\ waiting = "poll" /\ launcher # "local" /\ timeout
  /\ Answer("timeout")
  /\ OnlyWait /\ UNCHANGED jobs

WaitStep ==
  LocalPoll \/ LocalLoops \/ LocalStalls \/ LocalTimesOut \/ RemoteEnds \/ RemoteTimesOut

Next ==
  \/ Call \/ Submit \/ Return \/ Wait \/ LogIsMissing \/ WaitStep
  \/ \E j \in 1..Len(jobs) :
       JobWrites(j) \/ JobSucceeds(j) \/ JobFails(j) \/ JobKilled(j) \/ JobSkipped(j)

Spec == Init /\ [][Next]_vars

\* A client that waits keeps polling, and its clock runs: a local wait that keeps
\* coming to the test of its timeout finds it over in the end.  Nothing is assumed
\* of the jobs.
FairSpec == Spec /\ WF_vars(WaitStep) /\ SF_vars(LocalTimesOut)

-----------------------------------------------------------------------------
(* Properties *)

\* "start time of the backfill, inclusive. end: end time of the backfill, inclusive"
\* (materialization_settings.py:11): the cutoff times of a range of whole steps are
\* its start, its end and every step between them, once each, oldest first.  Any
\* other range is counted back from its end, and its start has no cutoff, against
\* these words: nothing is claimed of it.
CutoffsAreTheGrid ==
  (end - start) % step = 0 =>
    LET cutoffs == Cutoffs(start, end, step)
    IN  /\ {cutoffs[n] : n \in 1..Len(cutoffs)} = {t \in start..end : (t - start) % step = 0}
        /\ \A m, n \in 1..Len(cutoffs) : m < n => cutoffs[m] < cutoffs[n]

\* The cutoffs that the settings stand for, as the user made them.
Wanted == {t \in start..asked : (asked - t) % step = 0}
Submitted == {jobs[j].cutoff : j \in 1..Len(jobs)}

\* A call that returns has submitted a job for every step of the settings it was
\* given, whatever earlier calls with them did (a call that returns leaves the end
\* of the settings as it was).
CallSubmitsItsSteps ==
  outcome = "returned" => {t \in start..end : (end - t) % step = 0} \subseteq Submitted

\* The same of the settings as the user made them: "Feathr will submit a
\* materialization job for each step" (docs/concepts/materializing-features.md:61).
EveryStepSubmitted == outcome = "returned" => Wanted \subseteq Submitted

\* "Returns true if the job completed successfully, otherwise False"
\* (_abc.py:51): the job that a wait answered true for has its data in the sinks.
TrueMeansSucceeded == answer = "true" => Waited = "succeeded"

\* What is left of it: Databricks and Synapse keep the promise.
RemoteTrueMeansSucceeded == launcher # "local" => TrueMeansSucceeded

\* A wait answers false of no job that has written its data.
FalseMeansFailed == answer = "false" => Waited \notin {"written", "succeeded"}

\* With clean_up, a local job does not run on after a wait for it that answered.
NothingLeftRunning ==
  launcher = "local" /\ CleanUp /\ answer \notin {"none", "nolog"} => Waited \in Ended

\* The statuses that _databricks_submission.py:279 and :281 and
\* _synapse_submission.py:230 and :232 name, and the end of any local process.
Named == {"succeeded", "failed", "killed", "terminated"}

\* A wait with a timeout ends, whatever its job does; one without ends if its job
\* ends with a status the launcher names.  Of a run that was skipped it never hears
\* (_databricks_submission.py:292), so nothing is claimed of that.
EndedJobIsReported ==
  waiting # "no" /\ (timeout \/ Waited \in Named) ~> waiting = "no"

=============================================================================
