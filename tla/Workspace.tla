------------------------------ MODULE Workspace ------------------------------
(***************************************************************************)
(* The local workspace of a FeathrClient.  build_features turns a list of   *)
(* anchors into files: the preprocessing functions of the users, metadata   *)
(* that says there are some, and the feature configuration.  Each job takes *)
(* what it runs from files: get_offline_features and materialize_features  *)
(* write them anew, upload them (on Databricks and Synapse) over those of  *)
(* the jobs before, and submit.  An upload empties the copy that is there  *)
(* before it fills it.  A job reads its driver when Python starts and the  *)
(* configurations when the driver calls Spark; a local job reads the files *)
(* of the workspace itself.                                                *)
(*                                                                         *)
(* A list of anchors is an anchor_list: a function that gives each of its   *)
(* anchors the preprocessing function of its source.  An anchor stands for  *)
(* the key under which it is looked up, its feature names joined by commas. *)
(* The three files of feature_conf are rendered from one list, one after    *)
(* the other; they are one file here.                                       *)
(***************************************************************************)
EXTENDS Integers, Sequences, FiniteSets, SequencesExt

CONSTANTS
  Anchors,        \* numbered in the order of anchor_list
  Funcs, NoFunc,  \* preprocessing functions, and none
  NameOf,         \* the name a function is defined by
  Broken,         \* functions whose source text is not to be had
  Lists,          \* the anchor_lists of the users
  Mistyped,       \* those that hold something that is no Feature
  NoList,         \* no list of anchors
  Absent, Torn,   \* contents of a file: there is none; it is being written
  Launchers,      \* of "local" and "cloud", those the client may have
  Cutoffs,        \* the cutoff times of materializations in order, as the names
                  \* of their configurations
  MaxBuilds, MaxJobs  \* bounds: calls of build_features, jobs

ASSUME AnchorsAssumption == Anchors \subseteq Nat /\ IsFiniteSet(Anchors)
ASSUME FuncsAssumption == NoFunc \notin Funcs /\ Broken \subseteq Funcs
ASSUME ListsAssumption ==
  /\ \A l \in Lists : DOMAIN l \subseteq Anchors /\ \A a \in DOMAIN l : l[a] \in Funcs \cup {NoFunc}
  /\ Mistyped \subseteq Lists
ASSUME ContentsAssumption ==
  /\ NoList \notin Lists /\ Absent # Torn
  /\ \A nothing \in {Absent, Torn} : nothing \notin Lists /\ nothing \notin Nat
ASSUME CutoffsAssumption == Cutoffs \in Seq(STRING \ {"driver", "conf", "join"})
ASSUME LaunchersAssumption == Launchers \subseteq {"local", "cloud"}
ASSUME BoundsAssumption == MaxBuilds \in Nat /\ MaxJobs \in Nat

VARIABLES
  launcher,       \* feathr_spark_launcher
  patient,        \* does the user let all jobs end before the next call?
  disk,           \* the files of the workspace jobs are run from
  cloud,          \* their copies in the working directory of the launcher
  udf,            \* the list whose functions are in the UDF file, with metadata
  built,          \* anchor_list and derived_feature_list of the client
  last,           \* how the last build_features ended
  plan,           \* what the call under way still does
  jobs,           \* the jobs of all calls, oldest first
  builds, calls   \* numbers of calls of build_features, and of the others

vars == <<launcher, patient, disk, cloud, udf, built, last, plan, jobs, builds, calls>>

\* feature_join.conf has one name for all joins; the configuration of a
\* materialization is named after its cutoff time.
Requests == {"join"} \cup Range(Cutoffs)
Files == {"driver", "conf"} \cup Requests
Ended == {"ran", "failed", "void", "refused"}

TypeOK ==
  /\ launcher \in Launchers /\ patient \in BOOLEAN
  /\ \A place \in {disk, cloud} :
       /\ DOMAIN place = Files
       /\ place["driver"] \in Lists \cup {Absent, Torn}
       /\ place["conf"] \in Lists \cup {Absent, Torn}
       /\ \A f \in Requests : place[f] \in {Absent, Torn} \cup 1..(Len(jobs) + 1)
  /\ udf \in Lists \cup {NoList} /\ built \in Lists \cup {NoList}
  /\ last \in {"none", "done", "functions", "types"}
  /\ \A i \in DOMAIN jobs :
       /\ jobs[i].status \in {"preparing", "submitted", "loaded"} \cup Ended
       /\ jobs[i].status = "ran" =>
            /\ jobs[i].conf \in Lists /\ jobs[i].request \in DOMAIN jobs
            /\ jobs[i].python => jobs[i].program \in Lists
  /\ builds \in 0..MaxBuilds /\ Len(jobs) <= MaxJobs /\ calls \in 0..MaxJobs

Init ==
  /\ launcher \in Launchers /\ patient \in BOOLEAN
  /\ disk = [f \in Files |-> Absent] /\ cloud = disk
  /\ udf = NoList /\ built = NoList /\ last = "none"
  /\ plan = <<>> /\ jobs = <<>>
  /\ builds = 0 /\ calls = 0

-----------------------------------------------------------------------------
(* What a call does, step by step *)

Step(op, file, content) == [op |-> op, file |-> file, content |-> content]

\* open(..., "w") empties the file that is there.
Write(file, content) ==
  <<Step("write", file, Torn), Step("write", file, content)>>

\* A local job needs no copy: upload_or_get_cloud_path returns the path.
Upload(file) == IF launcher = "local" THEN <<>> ELSE <<Step("upload", file, Absent)>>
Submission(i) == <<Step("submit", "conf", i)>>

\* prepare_pyspark_udf_files: without metadata there is no driver; with it every
\* job gets one, whether it asks for features that are preprocessed or not.
Python == udf # NoList
Driver == IF Python THEN Write("driver", udf) ELSE <<>>
DriverUploadOnce ==
  IF Python /\ cloud["driver"] = Absent THEN Upload("driver") ELSE <<>>

DriverUpload == IF Python THEN Upload("driver") ELSE <<>>

\* get_offline_features.
JoinPlan(i) ==
  Driver \o Write("conf", built) \o Write("join", i)
    \o DriverUpload \o Upload("join") \o Upload("conf") \o Submission(i)

UploadFirst(i, cutoff) ==
  Write(cutoff, i) \o Write("conf", built) \o DriverUpload \o Driver
    \o Upload(cutoff) \o Upload("conf") \o Submission(i)

\* One turn of the loop of materialize_features; what was uploaded of the cutoff
\* time is removed here.
GenPlan(i, cutoff) ==
  Write(cutoff, i) \o Write("conf", built) \o Driver
    \o DriverUpload \o Upload(cutoff) \o Upload("conf") \o Submission(i)
    \o (IF launcher = "local" THEN <<>> ELSE <<Step("write", cutoff, Absent)>>)

-----------------------------------------------------------------------------
(* The client *)

Free == plan = <<>> /\ (patient => \A i \in DOMAIN jobs : jobs[i].status \in Ended)

KeepsMetadata(l) ==
  IF \E a \in DOMAIN l : l[a] \in Broken \/ l[a] = NoFunc THEN udf ELSE l

\* The list whose functions the UDF file and the metadata are left with: both are
\* deleted, and the metadata written again when all functions are in the file.
\* Without metadata nobody looks at the file.
Preprocessed(l) ==
  IF (\E a \in DOMAIN l : l[a] \in Broken) \/ (\A a \in DOMAIN l : l[a] = NoFunc)
  THEN NoList ELSE l

\* build_features: the functions first, then the configuration, then anchor_list.
\* A function whose source cannot be had, and a feature of another type, raise.
Build(l) ==
  /\ Free
  /\ builds < MaxBuilds /\ builds' = builds + 1
  /\ disk' = [disk EXCEPT !["driver"] = Absent]
  /\ udf' = Preprocessed(l)
  /\ \/ /\ \E a \in DOMAIN l : l[a] \in Broken
        /\ last' = "functions" /\ UNCHANGED plan
     \/ /\ \A a \in DOMAIN l : l[a] \notin Broken
        /\ l \in Mistyped
        /\ last' = "types" /\ UNCHANGED plan
     \/ /\ \A a \in DOMAIN l : l[a] \notin Broken
        /\ l \notin Mistyped
        /\ plan' = Write("conf", l) \o <<Step("assign", "conf", l)>>
        /\ UNCHANGED last
  /\ UNCHANGED <<launcher, patient, cloud, built, jobs, calls>>

\* The jobs of one call, by the names of their requests; what is known of them
\* when it starts.
Prepare(requests) ==
  jobs' = jobs \o [i \in DOMAIN requests |->
    [call |-> calls', file |-> requests[i], list |-> built, last |-> last, python |-> Python,
     status |-> "preparing", program |-> Absent, conf |-> Absent, request |-> Absent]]

StartCall ==
  /\ Free
  /\ calls < MaxJobs /\ calls' = calls + 1
  /\ UNCHANGED <<launcher, patient, disk, cloud, udf, built, last, builds>>

\* A query whose names clash with columns of the observations is refused before
\* any of this.  Without a build that ended well the call raises once the driver
\* is written.
GetOfflineFeatures ==
  /\ StartCall /\ Len(jobs) < MaxJobs
  /\ IF built = NoList
     THEN plan' = Driver /\ UNCHANGED jobs
     ELSE plan' = JoinPlan(Len(jobs) + 1) /\ Prepare(<<"join">>)

\* A backfill does not wait for one job to start the next; without a build the
\* keys of the features are not found, and the call raises before it does a thing.
MaterializeFeatures(cutoffs) ==
  /\ StartCall /\ Len(jobs) + Len(cutoffs) <= MaxJobs
  /\ IF built = NoList
     THEN plan' = <<>> /\ UNCHANGED jobs
     ELSE /\ plan' = FlattenSeq([i \in DOMAIN cutoffs |-> GenPlan(Len(jobs) + i, cutoffs[i])])
          /\ Prepare(cutoffs)

\* register_features writes the configuration again before it talks to the registry;
\* without a build it raises.
RegisterFeatures ==
  /\ Free
  /\ built # NoList
  /\ plan' = Write("conf", built)
  /\ UNCHANGED <<launcher, patient, disk, cloud, udf, built, last, jobs, builds, calls>>

Does(op) == plan # <<>> /\ Head(plan).op = op /\ plan' = Tail(plan)

WriteFile ==
  /\ Does("write")
  /\ disk' = [disk EXCEPT ![Head(plan).file] = Head(plan).content]
  /\ UNCHANGED <<launcher, patient, cloud, udf, built, last, jobs, builds, calls>>

\* upload_file creates the copy, under the name of the file, before it reads the
\* file: the copy of the same name that is there is emptied.
EmptyCopy ==
  /\ plan # <<>> /\ Head(plan).op = "upload"
  /\ cloud' = [cloud EXCEPT ![Head(plan).file] = Torn]
  /\ UNCHANGED <<launcher, patient, disk, udf, built, last, plan, jobs, builds, calls>>

UploadFile ==
  /\ Does("upload")
  /\ cloud[Head(plan).file] = Torn
  /\ cloud' = [cloud EXCEPT ![Head(plan).file] = disk[Head(plan).file]]
  /\ UNCHANGED <<launcher, patient, disk, udf, built, last, jobs, builds, calls>>

\* The upload, before or after it emptied the copy, or the submission raises; the
\* rest of the call is not done, and an empty copy stays.
SubmissionFails ==
  /\ plan # <<>> /\ Head(plan).op \in {"upload", "submit"}
  /\ plan' = <<>>
  /\ jobs' = [i \in DOMAIN jobs |->
                IF jobs[i].status = "preparing" THEN [jobs[i] EXCEPT !.status = "refused"]
                ELSE jobs[i]]
  /\ UNCHANGED <<launcher, patient, disk, cloud, udf, built, last, builds, calls>>

\* submit_feathr_job of Databricks and Synapse has no parameter output, which
\* get_offline_features passes: a TypeError.
Accepts(job) == launcher = "local" \/ job.file # "join"

SubmittedAsJar(job) == "loaded"

\* A job without a driver is a JAR, which has no Python to read first.
Submitted(job) == IF job.python THEN "submitted" ELSE "loaded"

Submit ==
  /\ Does("submit")
  /\ Accepts(jobs[Head(plan).content])
  /\ jobs' = [jobs EXCEPT ![Head(plan).content].status = Submitted(jobs[Head(plan).content])]
  /\ UNCHANGED <<launcher, patient, disk, cloud, udf, built, last, builds, calls>>

Assign ==
  /\ Does("assign")
  /\ built' = Head(plan).content
  /\ last' = "done"
  /\ UNCHANGED <<launcher, patient, disk, cloud, udf, jobs, builds, calls>>

-----------------------------------------------------------------------------
(* The jobs *)

Place == IF launcher = "local" THEN disk ELSE cloud
Unreadable == {Absent, Torn}

\* Python reads the driver.  One cut short ends without submit_spark_job, which
\* is its last line, and without an error.
Load(i) ==
  /\ jobs[i].status = "submitted"
  /\ jobs' = [jobs EXCEPT ![i].program = Place["driver"],
                          ![i].status = CASE Place["driver"] = Absent -> "failed"
                                          [] Place["driver"] = Torn -> "void"
                                          [] OTHER -> "loaded"]

\* loadSourceDataframe and the job proper read the configurations.
Run(i) ==
  LET asks == Place[jobs[i].file] IN
  /\ jobs[i].status = "loaded"
  /\ jobs' = [jobs EXCEPT ![i].conf = Place["conf"], ![i].request = asks,
                          ![i].status = IF Place["conf"] \in Unreadable \/ asks \in Unreadable
                                        THEN "failed" ELSE "ran"]

Job ==
  /\ \E i \in DOMAIN jobs : Load(i) \/ Run(i)
  /\ UNCHANGED <<launcher, patient, disk, cloud, udf, built, last, plan, builds, calls>>

\* The function a name stands for: the UDF file holds the functions in the order
\* of the anchors, and a later definition of a name replaces an earlier one.
Defined(l, a) ==
  l[CHOOSE b \in DOMAIN l : l[b] # NoFunc /\ NameOf[l[b]] = NameOf[l[a]]
      /\ \A c \in DOMAIN l : l[c] # NoFunc /\ NameOf[l[c]] = NameOf[l[a]] => c <= b]

\* submit_spark_job: what a job preprocesses the source of an anchor with.
Applied(job, a) ==
  IF job.python /\ a \in DOMAIN job.program /\ job.program[a] # NoFunc
  THEN Defined(job.program, a) ELSE NoFunc

Next ==
  \/ \E l \in Lists : Build(l)
  \/ RegisterFeatures
  \/ GetOfflineFeatures
  \/ \E first, end \in DOMAIN Cutoffs :
       first <= end /\ MaterializeFeatures(SubSeq(Cutoffs, first, end))
  \/ WriteFile \/ EmptyCopy \/ UploadFile \/ SubmissionFails \/ Submit \/ Assign
  \/ Job

Spec == Init /\ [][Next]_vars

-----------------------------------------------------------------------------
(* Properties *)

\* Of the functions of a list no two have one name.
DistinctNames(l) ==
  \A a, b \in DOMAIN l :
    l[a] # NoFunc /\ l[b] # NoFunc /\ NameOf[l[a]] = NameOf[l[b]] => l[a] = l[b]

\* The only job of a call of a user who waits.
Alone(i) == patient /\ \A k \in DOMAIN jobs \ {i} : jobs[k].call # jobs[i].call

\* On a cluster, followed only by jobs from the same features, which ask for
\* something of their own under a name of their own.
AmongEquals(i) ==
  /\ launcher = "cloud"
  /\ \A k \in (i + 1)..Len(jobs) :
       /\ jobs[k].list = jobs[i].list /\ jobs[k].last = "done"
       /\ jobs[k].file # jobs[i].file

\* "All actions that triggers a spark job will be based on the result of this
\* action" (client.py:278): a job computes the features of the last build, from
\* its own request and with their own preprocessing functions.  It needs that the
\* build ended well and that nobody is in its way.  A job that is alone then runs.
\* One that is on a cluster together with others of the same features, as those of
\* a backfill are, may lose the driver or the configuration to the uploads of the
\* next; but if it runs, it runs as built.
JobsRunAsBuilt ==
  \A i \in DOMAIN jobs : LET job == jobs[i] IN
    job.last = "done" /\ DistinctNames(job.list) =>
      /\ Alone(i) /\ job.status \in Ended \ {"refused"} => job.status = "ran"
      /\ (Alone(i) \/ AmongEquals(i)) /\ job.status = "ran" =>
           /\ job.conf = job.list /\ job.request = i
           /\ \A a \in DOMAIN job.list : Applied(job, a) = job.list[a]

\* After a build that could not save a function, a job leaves preprocessing out,
\* all of it and whatever its neighbours do; it never mixes the functions of two
\* builds.
AllOrNoFunctions ==
  \A i \in DOMAIN jobs : LET job == jobs[i] IN
    job.status = "ran" /\ job.last = "functions"
    => \A a \in DOMAIN job.conf : Applied(job, a) = NoFunc

\* The jobs that can have their uploads done while job i has yet to read its files:
\* those after it, and if the user waits, those of its call.
Followers(i) == {k \in (i + 1)..Len(jobs) : patient => jobs[k].call = jobs[i].call}

\* Only the uploads for a later job take the files of a job on a cluster away: the
\* last job, and the only one of a call of a user who waits, never fails for want
\* of a file, even if an upload before it broke off and left an empty copy; and no
\* job ends without having done a thing unless a job with a driver follows.
CloudJobsLoseToFollowers ==
  launcher = "cloud" => \A i \in DOMAIN jobs :
    /\ jobs[i].status = "failed" => Followers(i) # {}
    /\ jobs[i].status = "void" => \E k \in Followers(i) : jobs[k].python

=============================================================================
