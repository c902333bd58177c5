--------------------------- MODULE WorkspaceProofs ---------------------------
(***************************************************************************)
(* For any users, anchor lists and numbers of jobs: a job on a cluster loses *)
(* its files to the uploads of later jobs only, and a job that nobody        *)
(* disturbs computes what the last build said, with its functions.           *)
(***************************************************************************)
EXTENDS Workspace, WellFoundedInduction, TLAPS

(* What a plan does to the files *)

IsWrite(step, f) == step.op = "write" /\ step.file = f
IsUpload(step, f) == step.op = "upload" /\ step.file = f

\* Before step k of plan p, file f was last written with v.
LastWrite(p, k, f, v) ==
  \E j \in 1..(k - 1) :
    /\ IsWrite(p[j], f) /\ p[j].content = v
    /\ \A m \in (j + 1)..(k - 1) : ~IsWrite(p[m], f)

\* Step k of plan p finds v in file f when the disk is d now.
Finds(p, d, k, f, v) ==
  \/ d[f] = v /\ \A j \in 1..(k - 1) : ~IsWrite(p[j], f)
  \/ LastWrite(p, k, f, v)

\* Step k of plan p works for job i: i is the next to be submitted.
Serves(p, k, i) ==
  \E s \in k..Len(p) :
    /\ p[s].op = "submit" /\ p[s].content = i
    /\ \A m \in k..(s - 1) : p[m].op # "submit"

\* The files a job reads, and what they should hold for it.
Needs(js, i) == {"conf", js[i].file} \cup (IF js[i].python THEN {"driver"} ELSE {})
Value(js, u, i, f) ==
  IF f = "driver" THEN u ELSE IF f = "conf" THEN js[i].list ELSE i

-----------------------------------------------------------------------------
(* The invariant *)

Values == Lists \cup {Absent, Torn} \cup Nat
Content(n, f) == IF f \in {"driver", "conf"} THEN Lists ELSE 1..n

Steps == [op : {"write", "upload", "submit", "assign"}, file : Files, content : Values]

Statuses == {"preparing", "submitted", "loaded"} \cup Ended
Outcomes == {"none", "done", "functions", "types"}
JobRecords ==
  [call : Nat, file : Requests, list : Lists, last : Outcomes, python : BOOLEAN,
   status : Statuses, program : Values, conf : Values, request : Values]

FilesTyped ==
  /\ disk \in [Files -> Values] /\ cloud \in [Files -> Values]
  /\ \A f \in Files :
       /\ disk[f] \in {Absent, Torn} \cup Content(Len(jobs), f)
       /\ cloud[f] \in {Absent, Torn} \cup Content(Len(jobs), f)

\* Steps of plan p that n jobs can have.
StepsTyped(p, n) ==
  /\ p \in Seq(Steps)
  /\ \A k \in 1..Len(p) :
       /\ p[k].op = "write" => p[k].content \in {Absent, Torn} \cup Content(n, p[k].file)
       /\ p[k].op = "assign" =>
            /\ p[k].content \in Lists /\ k = Len(p)
            /\ \A m \in 1..(k - 1) : p[m].op = "write"

Typed ==
  /\ launcher \in {"local", "cloud"} /\ patient \in BOOLEAN
  /\ launcher \in Launchers
  /\ FilesTyped
  /\ udf \in Lists \cup {NoList} /\ built \in Lists \cup {NoList}
  /\ last \in Outcomes
  /\ StepsTyped(plan, Len(jobs))
  /\ jobs \in Seq(JobRecords)
  /\ builds \in 0..MaxBuilds /\ Len(jobs) <= MaxJobs /\ calls \in 0..MaxJobs

\* Each upload works for a job to come and finds what that job should read.
UploadsOK(p, d, js, u) ==
  \A k \in 1..Len(p) : p[k].op = "upload" =>
    \E i \in 1..Len(js) :
      /\ Serves(p, k, i) /\ p[k].file \in Needs(js, i)
      /\ Finds(p, d, k, p[k].file, Value(js, u, i, p[k].file))

\* When a job is submitted, its files are in place.
SubmitsOK(p, d, c, js, u) ==
  \A s \in 1..Len(p) : p[s].op = "submit" =>
    LET i == p[s].content IN
    /\ i \in 1..Len(js)
    /\ \A f \in Needs(js, i) :
         /\ launcher = "local" => Finds(p, d, s, f, Value(js, u, i, f))
         /\ launcher = "cloud" =>
              \/ \E k \in 1..(s - 1) : IsUpload(p[k], f) /\ Serves(p, k, i)
              \/ Serves(p, 1, i) /\ c[f] = Value(js, u, i, f)

\* Jobs are submitted in the order of their numbers.
InTurn(p) ==
  \A s, t \in 1..Len(p) :
    s < t /\ p[s].op = "submit" /\ p[t].op = "submit" => p[s].content < p[t].content

LocalPlan(p) ==
  launcher = "local" =>
    /\ \A k \in 1..Len(p) : p[k].op # "upload"
    /\ \A k \in 1..Len(p) : p[k].op = "submit" => p[Len(p)].op = "submit"

\* The functions of list l can all be had.
Sound(l) == \A a \in DOMAIN l : l[a] \notin Broken

\* The jobs a plan submits are those of the call under way.
ToSubmit ==
  \A s \in 1..Len(plan) : plan[s].op = "submit" =>
    LET i == plan[s].content IN
    /\ \A k \in i..Len(jobs) : jobs[k].status = "preparing"
    /\ jobs[i].call = calls
    /\ jobs[i].python => udf # NoList
    /\ jobs[i].last = "done" => udf = Preprocessed(jobs[i].list)

PlanOK ==
  /\ UploadsOK(plan, disk, jobs, udf)
  /\ SubmitsOK(plan, disk, cloud, jobs, udf)
  /\ InTurn(plan) /\ LocalPlan(plan)
  /\ ToSubmit

\* How the functions in the UDF file relate to the last build.
FuncsOK ==
  /\ (\A k \in 1..Len(plan) : plan[k].op # "assign") =>
       /\ last = "done" => built \in Lists /\ Sound(built) /\ udf = Preprocessed(built)
       /\ last = "functions" => udf = NoList
  /\ \A k \in 1..Len(plan) : plan[k].op = "assign" =>
       Sound(plan[k].content) /\ udf = Preprocessed(plan[k].content)

\* What a job took over from the client when its call started.
JobsOK ==
  \A i \in 1..Len(jobs) :
    /\ jobs[i].call <= calls
    /\ patient /\ jobs[i].status \notin Ended => jobs[i].call = calls
    /\ jobs[i].last = "done" =>
         Sound(jobs[i].list) /\ jobs[i].python = (Preprocessed(jobs[i].list) # NoList)
    /\ jobs[i].last = "functions" => ~jobs[i].python
    /\ jobs[i].status = "submitted" => jobs[i].python

\* Whether a job, or one with a driver, may take the files of job i away.
Followed(i) == Followers(i) # {}
FollowedByPython(i) == \E k \in Followers(i) : jobs[k].python

\* What job j of n has read, and what it still has to read on a cluster that holds
\* c, is there, or was taken away by a job that follows (some), if it is the
\* driver by one with a driver (python).
ReadOK(j, n, c, some, python) ==
  /\ j.status \in {"loaded", "ran"} /\ j.python => j.program \in Lists
  /\ j.status = "ran" => j.conf \in Lists /\ j.request \in 1..n
  /\ launcher = "cloud" =>
       /\ j.status = "submitted" => c["driver"] # Absent /\ (c["driver"] = Torn => python)
       /\ j.status \in {"submitted", "loaded"} => \A f \in {"conf", j.file} :
            c[f] # Absent /\ (c[f] = Torn => some)
       /\ j.status = "void" => python
       /\ j.status = "failed" => some

ReadsOK ==
  \A i \in 1..Len(jobs) :
    ReadOK(jobs[i], Len(jobs), cloud, Followed(i), FollowedByPython(i))

Undisturbed(i) == jobs[i].last = "done" /\ (Alone(i) \/ AmongEquals(i))

\* While a job runs alone, the call has nothing left to do for another one.
AloneOK ==
  \A i \in 1..Len(jobs) :
    Alone(i) /\ jobs[i].status \in {"submitted", "loaded"} =>
      /\ launcher = "local" => plan = <<>>
      /\ \A k \in 1..Len(plan) : plan[k].op = "write"

\* Job j, number i, finds, and read, what was written for it; if it is not alone, the
\* files it shares may be empty for a while.
FreshJob(j, i, place, alone) ==
  /\ j.status \in {"submitted", "loaded"} =>
       /\ place[j.file] = i
       /\ place["conf"] = j.list \/ (~alone /\ place["conf"] = Torn)
  /\ j.status = "submitted" =>
       place["driver"] = j.list \/ (~alone /\ place["driver"] = Torn)
  /\ j.status \in {"loaded", "ran"} /\ j.python => j.program = j.list
  /\ j.status = "ran" => j.conf = j.list /\ j.request = i
  /\ alone => j.status \notin {"failed", "void"}

FreshOK ==
  \A i \in 1..Len(jobs) : Undisturbed(i) => FreshJob(jobs[i], i, Place, Alone(i))

IInv == Typed /\ PlanOK /\ FuncsOK /\ JobsOK /\ ReadsOK /\ AloneOK /\ FreshOK

-----------------------------------------------------------------------------
(* One step of a plan *)

LEMMA FilesDiffer ==
  /\ Files = {"driver", "conf"} \cup Requests /\ "join" \in Requests
  /\ \A f \in Requests : f # "driver" /\ f # "conf"
  /\ \A f \in Files : f \in Requests \/ f \in {"driver", "conf"}
  /\ \A i \in DOMAIN Cutoffs : Cutoffs[i] \in Requests
<1>1. Cutoffs \in Seq(STRING \ {"driver", "conf", "join"})
  BY CutoffsAssumption
<1>2. \A f \in Range(Cutoffs) : f # "driver" /\ f # "conf"
  BY <1>1 DEF Range
<1>3. \A i \in DOMAIN Cutoffs : Cutoffs[i] \in Range(Cutoffs)
  BY DEF Range
<1>4. \A f \in Requests : f # "driver" /\ f # "conf"
  BY <1>2 DEF Requests
<1>5. Files = {"driver", "conf"} \cup Requests /\ "join" \in Requests
  BY DEF Files, Requests
<1>6. \A i \in DOMAIN Cutoffs : Cutoffs[i] \in Requests
  BY <1>3 DEF Requests
<1>7. \A f \in Files : f \in Requests \/ f \in {"driver", "conf"}
  BY <1>5
<1> QED
  BY <1>4, <1>5, <1>6, <1>7

LEMMA TailIs ==
  ASSUME NEW S, NEW p \in Seq(S), p # <<>>
  PROVE  /\ Tail(p) \in Seq(S) /\ Head(p) = p[1] /\ Head(p) \in S
         /\ Len(p) \in Nat /\ Len(p) >= 1 /\ Len(Tail(p)) = Len(p) - 1
         /\ \A k \in 1..Len(Tail(p)) : k + 1 \in 1..Len(p) /\ Tail(p)[k] = p[k + 1]
OBVIOUS

LEMMA ServesTail ==
  ASSUME NEW p \in Seq(Steps), p # <<>>, NEW i,
         NEW k \in 1..Len(Tail(p)), Serves(p, k + 1, i)
  PROVE  Serves(Tail(p), k, i)
<1>1. PICK s \in (k + 1)..Len(p) :
        /\ p[s].op = "submit" /\ p[s].content = i
        /\ \A m \in (k + 1)..(s - 1) : p[m].op # "submit"
  BY DEF Serves
<1>2. s - 1 \in k..Len(Tail(p)) /\ Tail(p)[s - 1] = p[s]
  BY TailIs
<1>3. \A m \in k..((s - 1) - 1) : Tail(p)[m] = p[m + 1] /\ m + 1 \in (k + 1)..(s - 1)
  BY TailIs
<1> QED
  BY <1>1, <1>2, <1>3 DEF Serves

LEMMA ServesPastHead ==
  ASSUME NEW p \in Seq(Steps), p # <<>>, NEW i, Serves(p, 1, i), p[1].op # "submit"
  PROVE  Serves(Tail(p), 1, i)
<1>1. PICK s \in 1..Len(p) :
        /\ p[s].op = "submit" /\ p[s].content = i
        /\ \A m \in 1..(s - 1) : p[m].op # "submit"
  BY DEF Serves
<1>2. s # 1
  BY <1>1
<1>3. Serves(p, 2, i)
  BY <1>1, <1>2 DEF Serves
<1>4. 1 \in 1..Len(Tail(p)) /\ 2 = 1 + 1
  BY <1>2, TailIs
<1> QED
  BY <1>3, <1>4, ServesTail

LEMMA ServesOne ==
  ASSUME NEW p \in Seq(Steps), NEW k \in 1..Len(p), NEW i, NEW j,
         Serves(p, k, i), Serves(p, k, j)
  PROVE  i = j
<1>1. PICK s \in k..Len(p) :
        /\ p[s].op = "submit" /\ p[s].content = i
        /\ \A m \in k..(s - 1) : p[m].op # "submit"
  BY DEF Serves
<1>2. PICK t \in k..Len(p) :
        /\ p[t].op = "submit" /\ p[t].content = j
        /\ \A m \in k..(t - 1) : p[m].op # "submit"
  BY DEF Serves
<1> QED
  BY <1>1, <1>2

\* What a later step finds, it still finds when the first step is done.
LEMMA FindsTail ==
  ASSUME NEW p \in Seq(Steps), p # <<>>, NEW d, NEW e, NEW f, NEW v,
         NEW k \in 1..(Len(Tail(p)) + 1),
         e[f] = IF IsWrite(p[1], f) THEN p[1].content ELSE d[f],
         Finds(p, d, k + 1, f, v)
  PROVE  Finds(Tail(p), e, k, f, v)
<1>1. /\ Len(Tail(p)) = Len(p) - 1 /\ Len(p) \in Nat
      /\ \A j \in 1..(k - 1) : Tail(p)[j] = p[j + 1] /\ j + 1 \in 1..((k + 1) - 1)
  BY TailIs
<1>2. CASE d[f] = v /\ \A j \in 1..((k + 1) - 1) : ~IsWrite(p[j], f)
  <2>1. e[f] = v
    BY <1>2
  <2>2. \A j \in 1..(k - 1) : ~IsWrite(Tail(p)[j], f)
    BY <1>1, <1>2
  <2> QED
    BY <2>1, <2>2 DEF Finds
<1>3. CASE LastWrite(p, k + 1, f, v)
  <2>1. PICK j \in 1..((k + 1) - 1) :
          /\ IsWrite(p[j], f) /\ p[j].content = v
          /\ \A m \in (j + 1)..((k + 1) - 1) : ~IsWrite(p[m], f)
    BY <1>3 DEF LastWrite
  <2>2. CASE j = 1
    <3>1. e[f] = v
      BY <2>1, <2>2
    <3>2. \A m \in 1..(k - 1) : ~IsWrite(Tail(p)[m], f)
      BY <1>1, <2>1, <2>2
    <3> QED
      BY <3>1, <3>2 DEF Finds
  <2>3. CASE j # 1
    <3>1. j - 1 \in 1..(k - 1) /\ Tail(p)[j - 1] = p[j]
      BY <1>1, <2>3
    <3>2. \A m \in ((j - 1) + 1)..(k - 1) : ~IsWrite(Tail(p)[m], f)
      BY <1>1, <2>1
    <3> QED
      BY <2>1, <3>1, <3>2 DEF Finds, LastWrite
  <2> QED
    BY <2>2, <2>3
<1> QED
  BY <1>2, <1>3 DEF Finds

LEMMA StepsTypedTail ==
  ASSUME NEW p, NEW n, StepsTyped(p, n), p # <<>>
  PROVE  /\ StepsTyped(Tail(p), n)
         /\ InTurn(p) => InTurn(Tail(p))
         /\ LocalPlan(p) => LocalPlan(Tail(p))
<1>1. p \in Seq(Steps)
  BY DEF StepsTyped
<1>2. /\ Tail(p) \in Seq(Steps) /\ Len(p) \in Nat /\ Len(p) >= 1 /\ Len(Tail(p)) = Len(p) - 1
      /\ \A k \in 1..Len(Tail(p)) : k + 1 \in 1..Len(p) /\ Tail(p)[k] = p[k + 1]
  BY <1>1, TailIs
<1>3. StepsTyped(Tail(p), n)
  <2> SUFFICES ASSUME NEW k \in 1..Len(Tail(p))
               PROVE  /\ Tail(p)[k].op = "write" =>
                           Tail(p)[k].content \in {Absent, Torn} \cup Content(n, Tail(p)[k].file)
                      /\ Tail(p)[k].op = "assign" =>
                           /\ Tail(p)[k].content \in Lists /\ k = Len(Tail(p))
                           /\ \A m \in 1..(k - 1) : Tail(p)[m].op = "write"
    BY <1>2 DEF StepsTyped
  <2>1. k + 1 \in 1..Len(p) /\ Tail(p)[k] = p[k + 1]
    BY <1>2
  <2>2. p[k + 1].op = "write" => p[k + 1].content \in {Absent, Torn} \cup Content(n, p[k + 1].file)
    BY <2>1 DEF StepsTyped
  <2>3. ASSUME p[k + 1].op = "assign"
        PROVE  /\ p[k + 1].content \in Lists /\ k + 1 = Len(p)
               /\ \A m \in 1..((k + 1) - 1) : p[m].op = "write"
    BY <2>1, <2>3 DEF StepsTyped
  <2>4. \A m \in 1..(k - 1) : m + 1 \in 1..((k + 1) - 1) /\ Tail(p)[m] = p[m + 1]
    BY <1>2
  <2>5. ASSUME Tail(p)[k].op = "assign"
        PROVE  /\ Tail(p)[k].content \in Lists /\ k = Len(Tail(p))
               /\ \A m \in 1..(k - 1) : Tail(p)[m].op = "write"
    <3>1. /\ p[k + 1].content \in Lists /\ k + 1 = Len(p)
          /\ \A m \in 1..((k + 1) - 1) : p[m].op = "write"
      BY <2>1, <2>3, <2>5
    <3>2. Tail(p)[k].content \in Lists
      BY <2>1, <3>1
    <3>4. k \in Int /\ Len(Tail(p)) = Len(p) - 1 /\ Len(p) \in Nat
      BY <1>2
    <3>5. k = Len(Tail(p))
      BY <3>1, <3>4
    <3>3. \A m \in 1..(k - 1) : Tail(p)[m].op = "write"
      BY <2>4, <3>1
    <3> QED
      BY <3>2, <3>3, <3>5
  <2> QED
    BY <2>1, <2>2, <2>5
<1>4. InTurn(p) => InTurn(Tail(p))
  BY <1>2 DEF InTurn
<1>5. LocalPlan(p) => LocalPlan(Tail(p))
  BY <1>2 DEF LocalPlan
<1> QED
  BY <1>3, <1>4, <1>5

\* What the plan knows of the jobs stays the same.
SameJobs(js, ks) ==
  /\ Len(ks) = Len(js)
  /\ \A i \in 1..Len(js) : /\ ks[i].call = js[i].call /\ ks[i].file = js[i].file
                           /\ ks[i].list = js[i].list /\ ks[i].last = js[i].last
                           /\ ks[i].python = js[i].python

LEMMA SameNeeds ==
  ASSUME NEW js, NEW ks, SameJobs(js, ks), NEW i \in 1..Len(js), NEW u
  PROVE  /\ i \in 1..Len(ks) /\ Needs(ks, i) = Needs(js, i)
         /\ \A f : Value(ks, u, i, f) = Value(js, u, i, f)
BY DEF SameJobs, Needs, Value

LEMMA UploadsTail ==
  ASSUME NEW p \in Seq(Steps), p # <<>>, NEW d, NEW e, NEW js, NEW ks, NEW u,
         UploadsOK(p, d, js, u), SameJobs(js, ks),
         \A f \in Files : e[f] = IF IsWrite(p[1], f) THEN p[1].content ELSE d[f]
  PROVE  UploadsOK(Tail(p), e, ks, u)
<1> SUFFICES ASSUME NEW k \in 1..Len(Tail(p)), Tail(p)[k].op = "upload"
             PROVE  \E i \in 1..Len(ks) :
                      /\ Serves(Tail(p), k, i) /\ Tail(p)[k].file \in Needs(ks, i)
                      /\ Finds(Tail(p), e, k, Tail(p)[k].file, Value(ks, u, i, Tail(p)[k].file))
  BY DEF UploadsOK
<1> DEFINE f == Tail(p)[k].file
<1>1. k + 1 \in 1..Len(p) /\ Tail(p)[k] = p[k + 1] /\ k \in 1..(Len(Tail(p)) + 1)
  BY TailIs
<1>2. PICK i \in 1..Len(js) :
        /\ Serves(p, k + 1, i) /\ f \in Needs(js, i)
        /\ Finds(p, d, k + 1, f, Value(js, u, i, f))
  BY <1>1 DEF UploadsOK
<1>3. i \in 1..Len(ks) /\ f \in Needs(ks, i) /\ Value(ks, u, i, f) = Value(js, u, i, f)
  BY <1>2, SameNeeds
<1>4. Serves(Tail(p), k, i)
  BY <1>2, ServesTail
<1>5. f \in Files
  <2>1. p[k + 1] \in Steps
    BY <1>1
  <2> QED
    BY <1>1, <2>1 DEF Steps
<1>6. Finds(Tail(p), e, k, f, Value(js, u, i, f))
  BY <1>1, <1>2, <1>5, FindsTail
<1> QED
  BY <1>3, <1>4, <1>6

\* The first step is no submission; what it uploads is what it should be.
LEMMA SubmitsTail ==
  ASSUME NEW p \in Seq(Steps), p # <<>>, p[1].op # "submit",
         NEW d, NEW e, NEW c, NEW b, NEW js, NEW ks, NEW u,
         SubmitsOK(p, d, c, js, u), SameJobs(js, ks),
         \A i \in 1..Len(js) : js[i].file \in Files,
         \A f \in Files : e[f] = IF IsWrite(p[1], f) THEN p[1].content ELSE d[f],
         \A f \in Files : ~IsUpload(p[1], f) => b[f] = c[f],
         \A f \in Files, i \in 1..Len(js) : IsUpload(p[1], f) /\ Serves(p, 1, i) => b[f] = Value(js, u, i, f)
  PROVE  SubmitsOK(Tail(p), e, b, ks, u)
<1> SUFFICES ASSUME NEW s \in 1..Len(Tail(p)), Tail(p)[s].op = "submit"
             PROVE  LET i == Tail(p)[s].content IN
                    /\ i \in 1..Len(ks)
                    /\ \A f \in Needs(ks, i) :
                         /\ launcher = "local" => Finds(Tail(p), e, s, f, Value(ks, u, i, f))
                         /\ launcher = "cloud" =>
                              \/ \E k \in 1..(s - 1) :
                                   IsUpload(Tail(p)[k], f) /\ Serves(Tail(p), k, i)
                              \/ Serves(Tail(p), 1, i) /\ b[f] = Value(ks, u, i, f)
  BY DEF SubmitsOK
<1> DEFINE i == Tail(p)[s].content
<1>1. s + 1 \in 1..Len(p) /\ Tail(p)[s] = p[s + 1] /\ s \in 1..(Len(Tail(p)) + 1)
  BY TailIs
<1>2. i \in 1..Len(js) /\ p[s + 1].op = "submit" /\ p[s + 1].content = i
  BY <1>1 DEF SubmitsOK
<1> HIDE DEF i
<1>3. /\ i \in 1..Len(ks) /\ Needs(ks, i) = Needs(js, i)
      /\ \A f : Value(ks, u, i, f) = Value(js, u, i, f)
  BY <1>2, SameNeeds
<1>6. Needs(js, i) \subseteq Files
  BY <1>2, FilesDiffer DEF Needs
<1>4. ASSUME NEW f \in Needs(js, i), launcher = "local"
      PROVE  Finds(Tail(p), e, s, f, Value(js, u, i, f))
  <2>1. Finds(p, d, s + 1, f, Value(js, u, i, f))
    BY <1>1, <1>2, <1>4 DEF SubmitsOK
  <2> QED
    BY <1>1, <1>6, <2>1, FindsTail
<1>5. ASSUME NEW f \in Needs(js, i), launcher = "cloud"
      PROVE  \/ \E k \in 1..(s - 1) : IsUpload(Tail(p)[k], f) /\ Serves(Tail(p), k, i)
             \/ Serves(Tail(p), 1, i) /\ b[f] = Value(js, u, i, f)
  <2>0. f \in Files
    BY <1>6
  <2>1. \/ \E k \in 1..((s + 1) - 1) : IsUpload(p[k], f) /\ Serves(p, k, i)
        \/ Serves(p, 1, i) /\ c[f] = Value(js, u, i, f)
    BY <1>1, <1>2, <1>5 DEF SubmitsOK
  <2>2. CASE Serves(p, 1, i) /\ c[f] = Value(js, u, i, f)
    <3>1. Serves(Tail(p), 1, i)
      BY <2>2, ServesPastHead
    <3>2. b[f] = Value(js, u, i, f)
      BY <1>2, <2>0, <2>2
    <3> QED
      BY <3>1, <3>2
  <2>3. ASSUME NEW k \in 1..((s + 1) - 1), IsUpload(p[k], f), Serves(p, k, i)
        PROVE  \/ \E m \in 1..(s - 1) : IsUpload(Tail(p)[m], f) /\ Serves(Tail(p), m, i)
               \/ Serves(Tail(p), 1, i) /\ b[f] = Value(js, u, i, f)
    <3>1. CASE k = 1
      <4>1. Serves(Tail(p), 1, i)
        BY <2>3, <3>1, ServesPastHead
      <4>2. b[f] = Value(js, u, i, f)
        BY <1>2, <2>0, <2>3, <3>1
      <4> QED
        BY <4>1, <4>2
    <3>2. CASE k # 1
      <4>1. /\ k - 1 \in 1..(s - 1) /\ k - 1 \in 1..Len(Tail(p)) /\ (k - 1) + 1 = k
        BY <3>2
      <4>2. Tail(p)[k - 1] = p[k]
        BY <4>1, TailIs
      <4>3. Serves(Tail(p), k - 1, i)
        BY <2>3, <4>1, ServesTail
      <4> QED
        BY <2>3, <4>1, <4>2, <4>3
    <3> QED
      BY <3>1, <3>2
  <2> QED
    BY <2>1, <2>2, <2>3
<1> QED
  BY <1>3, <1>4, <1>5 DEF i

\* The first step submits a job: the files of the others are still to be uploaded.
LEMMA SubmitsPastSubmit ==
  ASSUME NEW p \in Seq(Steps), p # <<>>, p[1].op = "submit", InTurn(p),
         NEW d, NEW c, NEW js, NEW ks, NEW u,
         SubmitsOK(p, d, c, js, u), SameJobs(js, ks),
         \A j \in 1..Len(p) : p[j].op = "submit" => p[j].content \in Nat
  PROVE  SubmitsOK(Tail(p), d, c, ks, u)
<1> SUFFICES ASSUME NEW s \in 1..Len(Tail(p)), Tail(p)[s].op = "submit"
             PROVE  LET i == Tail(p)[s].content IN
                    /\ i \in 1..Len(ks)
                    /\ \A f \in Needs(ks, i) :
                         /\ launcher = "local" => Finds(Tail(p), d, s, f, Value(ks, u, i, f))
                         /\ launcher = "cloud" =>
                              \/ \E k \in 1..(s - 1) :
                                   IsUpload(Tail(p)[k], f) /\ Serves(Tail(p), k, i)
                              \/ Serves(Tail(p), 1, i) /\ c[f] = Value(ks, u, i, f)
  BY DEF SubmitsOK
<1> DEFINE i == Tail(p)[s].content
<1>1. s + 1 \in 1..Len(p) /\ Tail(p)[s] = p[s + 1] /\ s \in 1..(Len(Tail(p)) + 1)
      /\ 1 \in 1..Len(p) /\ 1 < s + 1
  BY TailIs
<1>2. i \in 1..Len(js) /\ p[s + 1].op = "submit" /\ p[s + 1].content = i
  BY <1>1 DEF SubmitsOK
<1> HIDE DEF i
<1>3. /\ i \in 1..Len(ks) /\ Needs(ks, i) = Needs(js, i)
      /\ \A f : Value(ks, u, i, f) = Value(js, u, i, f)
  BY <1>2, SameNeeds
<1>4. ASSUME NEW f \in Needs(js, i), launcher = "local"
      PROVE  Finds(Tail(p), d, s, f, Value(js, u, i, f))
  <2>1. Finds(p, d, s + 1, f, Value(js, u, i, f))
    BY <1>1, <1>2, <1>4 DEF SubmitsOK
  <2>2. ~IsWrite(p[1], f)
    BY DEF IsWrite
  <2> QED
    BY <1>1, <2>1, <2>2, FindsTail
<1>5. ~Serves(p, 1, i)
  <2>1. p[1].content < i
    BY <1>1, <1>2 DEF InTurn
  <2>2. Serves(p, 1, p[1].content)
    BY <1>1 DEF Serves
  <2>3. p[1].content \in Nat /\ i \in Nat
    BY <1>1, <1>2
  <2> QED
    BY <1>1, <2>1, <2>2, <2>3, ServesOne
<1>6. ASSUME NEW f \in Needs(js, i), launcher = "cloud"
      PROVE  \E k \in 1..(s - 1) : IsUpload(Tail(p)[k], f) /\ Serves(Tail(p), k, i)
  <2>1. PICK k \in 1..((s + 1) - 1) : IsUpload(p[k], f) /\ Serves(p, k, i)
    BY <1>1, <1>2, <1>5, <1>6 DEF SubmitsOK
  <2>2. k # 1
    BY <2>1 DEF IsUpload
  <2>3. /\ k - 1 \in 1..(s - 1) /\ k - 1 \in 1..Len(Tail(p)) /\ (k - 1) + 1 = k
    BY <2>2
  <2>4. Tail(p)[k - 1] = p[k]
    BY <2>3, TailIs
  <2>5. Serves(Tail(p), k - 1, i)
    BY <2>1, <2>3, ServesTail
  <2> QED
    BY <2>1, <2>3, <2>4, <2>5
<1> QED
  BY <1>3, <1>4, <1>6 DEF i


-----------------------------------------------------------------------------
(* The plans calls start with *)

\* Plan q prepares and submits the jobs after lo up to hi, and relies on no file
\* that it has not written or uploaded itself.
Chain(q, js, u, lo, hi) ==
  /\ q \in Seq(Steps)
  /\ \A k \in 1..Len(q) :
       /\ q[k].op # "assign"
       /\ q[k].op = "write" => q[k].content \in {Absent, Torn} \cup Content(Len(js), q[k].file)
       /\ q[k].op = "upload" =>
            \E i \in (lo + 1)..hi :
              /\ Serves(q, k, i) /\ q[k].file \in Needs(js, i)
              /\ LastWrite(q, k, q[k].file, Value(js, u, i, q[k].file))
       /\ q[k].op = "submit" =>
            /\ q[k].content \in (lo + 1)..hi
            /\ \A f \in Needs(js, q[k].content) :
                 /\ launcher = "local" => LastWrite(q, k, f, Value(js, u, q[k].content, f))
                 /\ launcher = "cloud" =>
                      \E j \in 1..(k - 1) : IsUpload(q[j], f) /\ Serves(q, j, q[k].content)
  /\ InTurn(q) /\ LocalPlan(q)
  /\ lo < hi => \E k \in 1..Len(q) : q[k].op = "submit"

\* Step q[k] is one that plan q may have for job i, which is submitted at s.
GoodStep(q, js, u, i, s, k) ==
  \/ /\ q[k].op = "write"
     /\ q[k].content \in {Absent, Torn} \cup Content(Len(js), q[k].file)
  \/ /\ q[k].op = "upload" /\ k < s
     /\ q[k].file \in Needs(js, i)
     /\ LastWrite(q, k, q[k].file, Value(js, u, i, q[k].file))

LEMMA Block ==
  ASSUME NEW q \in Seq(Steps), NEW js, NEW u, NEW i \in 1..Len(js), Len(js) \in Nat,
         launcher \in {"local", "cloud"},
         NEW s \in 1..Len(q), q[s].op = "submit", q[s].content = i,
         \A k \in 1..Len(q) : k # s => GoodStep(q, js, u, i, s, k),
         launcher = "local" =>
           /\ s = Len(q) /\ \A k \in 1..Len(q) : q[k].op # "upload"
           /\ \A f \in Needs(js, i) : LastWrite(q, s, f, Value(js, u, i, f)),
         launcher = "cloud" => \A f \in Needs(js, i) : \E j \in 1..(s - 1) : IsUpload(q[j], f)
  PROVE  Chain(q, js, u, i - 1, i)
<1>1. \A k \in 1..Len(q) : k # s => q[k].op \in {"write", "upload"}
  BY DEF GoodStep
<1>2. ASSUME NEW k \in 1..s PROVE Serves(q, k, i)
  BY <1>1 DEF Serves
<1>3. i \in ((i - 1) + 1)..i
  OBVIOUS
<1>4. InTurn(q)
  BY <1>1 DEF InTurn
<1>5. LocalPlan(q)
  BY DEF LocalPlan
<1>6. ASSUME NEW k \in 1..Len(q), q[k].op = "upload"
      PROVE  \E n \in ((i - 1) + 1)..i :
               /\ Serves(q, k, n) /\ q[k].file \in Needs(js, n)
               /\ LastWrite(q, k, q[k].file, Value(js, u, n, q[k].file))
  <2>1. k # s
    BY <1>6
  <2>2. /\ k < s /\ q[k].file \in Needs(js, i)
        /\ LastWrite(q, k, q[k].file, Value(js, u, i, q[k].file))
    BY <1>6, <2>1 DEF GoodStep
  <2>3. Serves(q, k, i)
    BY <1>2, <2>2
  <2> QED
    BY <1>3, <2>2, <2>3
<1>7. ASSUME NEW k \in 1..Len(q), q[k].op = "submit"
      PROVE  /\ q[k].content \in ((i - 1) + 1)..i
             /\ \A f \in Needs(js, q[k].content) :
                 /\ launcher = "local" => LastWrite(q, k, f, Value(js, u, q[k].content, f))
                 /\ launcher = "cloud" =>
                      \E j \in 1..(k - 1) : IsUpload(q[j], f) /\ Serves(q, j, q[k].content)
  <2>1. k = s /\ q[k].content = i
    BY <1>1, <1>7
  <2>2. ASSUME NEW f \in Needs(js, i), launcher = "cloud"
        PROVE  \E j \in 1..(s - 1) : IsUpload(q[j], f) /\ Serves(q, j, i)
    <3>1. PICK j \in 1..(s - 1) : IsUpload(q[j], f)
      BY <2>2
    <3>2. Serves(q, j, i)
      BY <1>2, <3>1
    <3> QED
      BY <3>1, <3>2
  <2> QED
    BY <1>3, <2>1, <2>2
<1>8. ASSUME NEW k \in 1..Len(q)
      PROVE  /\ q[k].op # "assign"
             /\ q[k].op = "write" =>
                  q[k].content \in {Absent, Torn} \cup Content(Len(js), q[k].file)
  <2>1. CASE k = s
    BY <2>1
  <2>2. CASE k # s
    BY <2>2 DEF GoodStep
  <2> QED
    BY <2>1, <2>2
<1> QED
  BY <1>4, <1>5, <1>6, <1>7, <1>8 DEF Chain

GenBlock(i, c, js) ==
  /\ i \in 1..Len(js) /\ Len(js) \in Nat
  /\ js[i].file = c /\ c \in Requests
  /\ js[i].list = built /\ built \in Lists
  /\ js[i].python = Python /\ udf \in Lists \cup {NoList}
  /\ launcher \in {"local", "cloud"}

LEMMA StepIs ==
  \A op, file, content :
    /\ Step(op, file, content).op = op /\ Step(op, file, content).file = file
    /\ Step(op, file, content).content = content
    /\ op \in {"write", "upload", "submit", "assign"} /\ file \in Files /\ content \in Values
       => Step(op, file, content) \in Steps
BY DEF Step, Steps

LEMMA GenPlanCloudPython ==
  ASSUME NEW i, NEW c, NEW js, GenBlock(i, c, js), launcher = "cloud", Python
  PROVE  Chain(GenPlan(i, c), js, udf, i - 1, i)
<1>1. PICK q : q = GenPlan(i, c)
  OBVIOUS
<1>2. /\ Len(q) = 11 /\ q \in Seq(Steps)
      /\ q[1] = Step("write", c, Torn) /\ q[2] = Step("write", c, i)
      /\ q[3] = Step("write", "conf", Torn) /\ q[4] = Step("write", "conf", built)
      /\ q[5] = Step("write", "driver", Torn) /\ q[6] = Step("write", "driver", udf)
      /\ q[7] = Step("upload", "driver", Absent) /\ q[8] = Step("upload", c, Absent)
      /\ q[9] = Step("upload", "conf", Absent) /\ q[10] = Step("submit", "conf", i)
      /\ q[11] = Step("write", c, Absent)
  BY <1>1, FilesDiffer, StepIs DEF GenPlan, Write, Driver, DriverUpload, Upload, Submission,
                                   GenBlock, Python, Values
<1>3. /\ c # "conf" /\ c # "driver" /\ udf \in Lists
      /\ Needs(js, i) = {"conf", c, "driver"}
      /\ Value(js, udf, i, "driver") = udf /\ Value(js, udf, i, "conf") = built
      /\ Value(js, udf, i, c) = i
  BY FilesDiffer DEF GenBlock, Python, Value, Needs
<1>4. /\ LastWrite(q, 7, "driver", udf)
      /\ LastWrite(q, 8, c, i)
      /\ LastWrite(q, 9, "conf", built)
  BY <1>2, <1>3, StepIs DEF LastWrite, IsWrite
<1>5. \A k \in {1, 2, 3, 4, 5, 6, 11} : GoodStep(q, js, udf, i, 10, k)
  BY <1>2, <1>3, StepIs DEF GenBlock, GoodStep, Content
<1>6. \A k \in {7, 8, 9} : GoodStep(q, js, udf, i, 10, k)
  BY <1>2, <1>3, <1>4, StepIs DEF GoodStep
<1>7. \A k \in 1..Len(q) : k # 10 => GoodStep(q, js, udf, i, 10, k)
  BY <1>2, <1>5, <1>6
<1>8. \A f \in Needs(js, i) : \E j \in 1..(10 - 1) : IsUpload(q[j], f)
  BY <1>2, <1>3, StepIs DEF IsUpload
<1>9. /\ 10 \in 1..Len(q) /\ q[10].op = "submit" /\ q[10].content = i
      /\ i \in 1..Len(js) /\ Len(js) \in Nat /\ launcher \in {"local", "cloud"}
  BY <1>2, StepIs DEF GenBlock
<1>10. Chain(q, js, udf, i - 1, i)
  BY <1>2, <1>7, <1>8, <1>9, Block
<1> QED
  BY <1>1, <1>10

LEMMA GenPlanCloudJar ==
  ASSUME NEW i, NEW c, NEW js, GenBlock(i, c, js), launcher = "cloud", ~Python
  PROVE  Chain(GenPlan(i, c), js, udf, i - 1, i)
<1>1. PICK q : q = GenPlan(i, c)
  OBVIOUS
<1>2. /\ Len(q) = 8 /\ q \in Seq(Steps)
      /\ q[1] = Step("write", c, Torn) /\ q[2] = Step("write", c, i)
      /\ q[3] = Step("write", "conf", Torn) /\ q[4] = Step("write", "conf", built)
      /\ q[5] = Step("upload", c, Absent) /\ q[6] = Step("upload", "conf", Absent)
      /\ q[7] = Step("submit", "conf", i) /\ q[8] = Step("write", c, Absent)
  BY <1>1, FilesDiffer, StepIs DEF GenPlan, Write, Driver, DriverUpload, Upload, Submission,
                                   GenBlock, Python, Values
<1>3. /\ c # "conf" /\ c # "driver"
      /\ Needs(js, i) = {"conf", c}
      /\ Value(js, udf, i, "driver") = udf /\ Value(js, udf, i, "conf") = built
      /\ Value(js, udf, i, c) = i
  BY FilesDiffer DEF GenBlock, Python, Value, Needs
<1>4. /\ LastWrite(q, 5, c, i)
      /\ LastWrite(q, 6, "conf", built)
  BY <1>2, <1>3, StepIs DEF LastWrite, IsWrite
<1>5. \A k \in {1, 2, 3, 4, 8} : GoodStep(q, js, udf, i, 7, k)
  BY <1>2, <1>3, StepIs DEF GenBlock, GoodStep, Content
<1>6. \A k \in {5, 6} : GoodStep(q, js, udf, i, 7, k)
  BY <1>2, <1>3, <1>4, StepIs DEF GoodStep
<1>7. \A k \in 1..Len(q) : k # 7 => GoodStep(q, js, udf, i, 7, k)
  BY <1>2, <1>5, <1>6
<1>8. \A f \in Needs(js, i) : \E j \in 1..(7 - 1) : IsUpload(q[j], f)
  BY <1>2, <1>3, StepIs DEF IsUpload
<1>9. /\ 7 \in 1..Len(q) /\ q[7].op = "submit" /\ q[7].content = i
      /\ i \in 1..Len(js) /\ Len(js) \in Nat /\ launcher \in {"local", "cloud"}
  BY <1>2, StepIs DEF GenBlock
<1>10. Chain(q, js, udf, i - 1, i)
  BY <1>2, <1>7, <1>8, <1>9, Block
<1> QED
  BY <1>1, <1>10

LEMMA GenPlanLocalPython ==
  ASSUME NEW i, NEW c, NEW js, GenBlock(i, c, js), launcher = "local", Python
  PROVE  Chain(GenPlan(i, c), js, udf, i - 1, i)
<1>1. PICK q : q = GenPlan(i, c)
  OBVIOUS
<1>2. /\ Len(q) = 7 /\ q \in Seq(Steps)
      /\ q[1] = Step("write", c, Torn) /\ q[2] = Step("write", c, i)
      /\ q[3] = Step("write", "conf", Torn) /\ q[4] = Step("write", "conf", built)
      /\ q[5] = Step("write", "driver", Torn) /\ q[6] = Step("write", "driver", udf)
      /\ q[7] = Step("submit", "conf", i)
  BY <1>1, FilesDiffer, StepIs DEF GenPlan, Write, Driver, DriverUpload, Upload, Submission,
                                   GenBlock, Python, Values
<1>3. /\ c # "conf" /\ c # "driver" /\ udf \in Lists
      /\ Needs(js, i) = {"conf", c, "driver"}
      /\ Value(js, udf, i, "driver") = udf /\ Value(js, udf, i, "conf") = built
      /\ Value(js, udf, i, c) = i
  BY FilesDiffer DEF GenBlock, Python, Value, Needs
<1>4. /\ LastWrite(q, 7, "conf", built)
      /\ LastWrite(q, 7, c, i)
      /\ LastWrite(q, 7, "driver", udf)
  BY <1>2, <1>3, StepIs DEF LastWrite, IsWrite
<1>5. \A k \in {1, 2, 3, 4, 5, 6} : GoodStep(q, js, udf, i, 7, k)
  BY <1>2, <1>3, StepIs DEF GenBlock, GoodStep, Content
<1>6. 7 = Len(q) /\ \A k \in 1..Len(q) : q[k].op # "upload"
  BY <1>2, StepIs
<1>7. \A k \in 1..Len(q) : k # 7 => GoodStep(q, js, udf, i, 7, k)
  BY <1>2, <1>5
<1>8. \A f \in Needs(js, i) : LastWrite(q, 7, f, Value(js, udf, i, f))
  BY <1>3, <1>4
<1>9. /\ 7 \in 1..Len(q) /\ q[7].op = "submit" /\ q[7].content = i
      /\ i \in 1..Len(js) /\ Len(js) \in Nat /\ launcher \in {"local", "cloud"}
  BY <1>2, StepIs DEF GenBlock
<1>10. Chain(q, js, udf, i - 1, i)
  BY <1>2, <1>6, <1>7, <1>8, <1>9, Block
<1> QED
  BY <1>1, <1>10

LEMMA GenPlanLocalJar ==
  ASSUME NEW i, NEW c, NEW js, GenBlock(i, c, js), launcher = "local", ~Python
  PROVE  Chain(GenPlan(i, c), js, udf, i - 1, i)
<1>1. PICK q : q = GenPlan(i, c)
  OBVIOUS
<1>2. /\ Len(q) = 5 /\ q \in Seq(Steps)
      /\ q[1] = Step("write", c, Torn) /\ q[2] = Step("write", c, i)
      /\ q[3] = Step("write", "conf", Torn) /\ q[4] = Step("write", "conf", built)
      /\ q[5] = Step("submit", "conf", i)
  BY <1>1, FilesDiffer, StepIs DEF GenPlan, Write, Driver, DriverUpload, Upload, Submission,
                                   GenBlock, Python, Values
<1>3. /\ c # "conf" /\ c # "driver"
      /\ Needs(js, i) = {"conf", c}
      /\ Value(js, udf, i, "driver") = udf /\ Value(js, udf, i, "conf") = built
      /\ Value(js, udf, i, c) = i
  BY FilesDiffer DEF GenBlock, Python, Value, Needs
<1>4. /\ LastWrite(q, 5, "conf", built)
      /\ LastWrite(q, 5, c, i)
  BY <1>2, <1>3, StepIs DEF LastWrite, IsWrite
<1>5. \A k \in {1, 2, 3, 4} : GoodStep(q, js, udf, i, 5, k)
  BY <1>2, <1>3, StepIs DEF GenBlock, GoodStep, Content
<1>6. 5 = Len(q) /\ \A k \in 1..Len(q) : q[k].op # "upload"
  BY <1>2, StepIs
<1>7. \A k \in 1..Len(q) : k # 5 => GoodStep(q, js, udf, i, 5, k)
  BY <1>2, <1>5
<1>8. \A f \in Needs(js, i) : LastWrite(q, 5, f, Value(js, udf, i, f))
  BY <1>3, <1>4
<1>9. /\ 5 \in 1..Len(q) /\ q[5].op = "submit" /\ q[5].content = i
      /\ i \in 1..Len(js) /\ Len(js) \in Nat /\ launcher \in {"local", "cloud"}
  BY <1>2, StepIs DEF GenBlock
<1>10. Chain(q, js, udf, i - 1, i)
  BY <1>2, <1>6, <1>7, <1>8, <1>9, Block
<1> QED
  BY <1>1, <1>10

LEMMA JoinPlanCloudPython ==
  ASSUME NEW i, NEW js, GenBlock(i, "join", js), launcher = "cloud", Python
  PROVE  Chain(JoinPlan(i), js, udf, i - 1, i)
<1>1. PICK q : q = JoinPlan(i)
  OBVIOUS
<1>2. /\ Len(q) = 10 /\ q \in Seq(Steps)
      /\ q[1] = Step("write", "driver", Torn) /\ q[2] = Step("write", "driver", udf)
      /\ q[3] = Step("write", "conf", Torn) /\ q[4] = Step("write", "conf", built)
      /\ q[5] = Step("write", "join", Torn) /\ q[6] = Step("write", "join", i)
      /\ q[7] = Step("upload", "driver", Absent) /\ q[8] = Step("upload", "join", Absent)
      /\ q[9] = Step("upload", "conf", Absent) /\ q[10] = Step("submit", "conf", i)
  BY <1>1, FilesDiffer, StepIs DEF JoinPlan, Write, Driver, DriverUpload, Upload, Submission,
                                   GenBlock, Python, Values
<1>3. /\ "join" # "conf" /\ "join" # "driver" /\ udf \in Lists
      /\ Needs(js, i) = {"conf", "join", "driver"}
      /\ Value(js, udf, i, "driver") = udf /\ Value(js, udf, i, "conf") = built
      /\ Value(js, udf, i, "join") = i
  BY FilesDiffer DEF GenBlock, Python, Value, Needs
<1>4. /\ LastWrite(q, 7, "driver", udf)
      /\ LastWrite(q, 8, "join", i)
      /\ LastWrite(q, 9, "conf", built)
  BY <1>2, <1>3, StepIs DEF LastWrite, IsWrite
<1>5. \A k \in {1, 2, 3, 4, 5, 6} : GoodStep(q, js, udf, i, 10, k)
  BY <1>2, <1>3, StepIs DEF GenBlock, GoodStep, Content
<1>6. \A k \in {7, 8, 9} : GoodStep(q, js, udf, i, 10, k)
  BY <1>2, <1>3, <1>4, StepIs DEF GoodStep
<1>7. \A k \in 1..Len(q) : k # 10 => GoodStep(q, js, udf, i, 10, k)
  BY <1>2, <1>5, <1>6
<1>8. \A f \in Needs(js, i) : \E j \in 1..(10 - 1) : IsUpload(q[j], f)
  BY <1>2, <1>3, StepIs DEF IsUpload
<1>9. /\ 10 \in 1..Len(q) /\ q[10].op = "submit" /\ q[10].content = i
      /\ i \in 1..Len(js) /\ Len(js) \in Nat /\ launcher \in {"local", "cloud"}
  BY <1>2, StepIs DEF GenBlock
<1>10. Chain(q, js, udf, i - 1, i)
  BY <1>2, <1>7, <1>8, <1>9, Block
<1> QED
  BY <1>1, <1>10

LEMMA JoinPlanCloudJar ==
  ASSUME NEW i, NEW js, GenBlock(i, "join", js), launcher = "cloud", ~Python
  PROVE  Chain(JoinPlan(i), js, udf, i - 1, i)
<1>1. PICK q : q = JoinPlan(i)
  OBVIOUS
<1>2. /\ Len(q) = 7 /\ q \in Seq(Steps)
      /\ q[1] = Step("write", "conf", Torn) /\ q[2] = Step("write", "conf", built)
      /\ q[3] = Step("write", "join", Torn) /\ q[4] = Step("write", "join", i)
      /\ q[5] = Step("upload", "join", Absent) /\ q[6] = Step("upload", "conf", Absent)
      /\ q[7] = Step("submit", "conf", i)
  BY <1>1, FilesDiffer, StepIs DEF JoinPlan, Write, Driver, DriverUpload, Upload, Submission,
                                   GenBlock, Python, Values
<1>3. /\ "join" # "conf" /\ "join" # "driver"
      /\ Needs(js, i) = {"conf", "join"}
      /\ Value(js, udf, i, "driver") = udf /\ Value(js, udf, i, "conf") = built
      /\ Value(js, udf, i, "join") = i
  BY FilesDiffer DEF GenBlock, Python, Value, Needs
<1>4. /\ LastWrite(q, 5, "join", i)
      /\ LastWrite(q, 6, "conf", built)
  BY <1>2, <1>3, StepIs DEF LastWrite, IsWrite
<1>5. \A k \in {1, 2, 3, 4} : GoodStep(q, js, udf, i, 7, k)
  BY <1>2, <1>3, StepIs DEF GenBlock, GoodStep, Content
<1>6. \A k \in {5, 6} : GoodStep(q, js, udf, i, 7, k)
  BY <1>2, <1>3, <1>4, StepIs DEF GoodStep
<1>7. \A k \in 1..Len(q) : k # 7 => GoodStep(q, js, udf, i, 7, k)
  BY <1>2, <1>5, <1>6
<1>8. \A f \in Needs(js, i) : \E j \in 1..(7 - 1) : IsUpload(q[j], f)
  BY <1>2, <1>3, StepIs DEF IsUpload
<1>9. /\ 7 \in 1..Len(q) /\ q[7].op = "submit" /\ q[7].content = i
      /\ i \in 1..Len(js) /\ Len(js) \in Nat /\ launcher \in {"local", "cloud"}
  BY <1>2, StepIs DEF GenBlock
<1>10. Chain(q, js, udf, i - 1, i)
  BY <1>2, <1>7, <1>8, <1>9, Block
<1> QED
  BY <1>1, <1>10

LEMMA JoinPlanLocalPython ==
  ASSUME NEW i, NEW js, GenBlock(i, "join", js), launcher = "local", Python
  PROVE  Chain(JoinPlan(i), js, udf, i - 1, i)
<1>1. PICK q : q = JoinPlan(i)
  OBVIOUS
<1>2. /\ Len(q) = 7 /\ q \in Seq(Steps)
      /\ q[1] = Step("write", "driver", Torn) /\ q[2] = Step("write", "driver", udf)
      /\ q[3] = Step("write", "conf", Torn) /\ q[4] = Step("write", "conf", built)
      /\ q[5] = Step("write", "join", Torn) /\ q[6] = Step("write", "join", i)
      /\ q[7] = Step("submit", "conf", i)
  BY <1>1, FilesDiffer, StepIs DEF JoinPlan, Write, Driver, DriverUpload, Upload, Submission,
                                   GenBlock, Python, Values
<1>3. /\ "join" # "conf" /\ "join" # "driver" /\ udf \in Lists
      /\ Needs(js, i) = {"conf", "join", "driver"}
      /\ Value(js, udf, i, "driver") = udf /\ Value(js, udf, i, "conf") = built
      /\ Value(js, udf, i, "join") = i
  BY FilesDiffer DEF GenBlock, Python, Value, Needs
<1>4. /\ LastWrite(q, 7, "conf", built)
      /\ LastWrite(q, 7, "join", i)
      /\ LastWrite(q, 7, "driver", udf)
  BY <1>2, <1>3, StepIs DEF LastWrite, IsWrite
<1>5. \A k \in {1, 2, 3, 4, 5, 6} : GoodStep(q, js, udf, i, 7, k)
  BY <1>2, <1>3, StepIs DEF GenBlock, GoodStep, Content
<1>6. 7 = Len(q) /\ \A k \in 1..Len(q) : q[k].op # "upload"
  BY <1>2, StepIs
<1>7. \A k \in 1..Len(q) : k # 7 => GoodStep(q, js, udf, i, 7, k)
  BY <1>2, <1>5
<1>8. \A f \in Needs(js, i) : LastWrite(q, 7, f, Value(js, udf, i, f))
  BY <1>3, <1>4
<1>9. /\ 7 \in 1..Len(q) /\ q[7].op = "submit" /\ q[7].content = i
      /\ i \in 1..Len(js) /\ Len(js) \in Nat /\ launcher \in {"local", "cloud"}
  BY <1>2, StepIs DEF GenBlock
<1>10. Chain(q, js, udf, i - 1, i)
  BY <1>2, <1>6, <1>7, <1>8, <1>9, Block
<1> QED
  BY <1>1, <1>10

LEMMA JoinPlanLocalJar ==
  ASSUME NEW i, NEW js, GenBlock(i, "join", js), launcher = "local", ~Python
  PROVE  Chain(JoinPlan(i), js, udf, i - 1, i)
<1>1. PICK q : q = JoinPlan(i)
  OBVIOUS
<1>2. /\ Len(q) = 5 /\ q \in Seq(Steps)
      /\ q[1] = Step("write", "conf", Torn) /\ q[2] = Step("write", "conf", built)
      /\ q[3] = Step("write", "join", Torn) /\ q[4] = Step("write", "join", i)
      /\ q[5] = Step("submit", "conf", i)
  BY <1>1, FilesDiffer, StepIs DEF JoinPlan, Write, Driver, DriverUpload, Upload, Submission,
                                   GenBlock, Python, Values
<1>3. /\ "join" # "conf" /\ "join" # "driver"
      /\ Needs(js, i) = {"conf", "join"}
      /\ Value(js, udf, i, "driver") = udf /\ Value(js, udf, i, "conf") = built
      /\ Value(js, udf, i, "join") = i
  BY FilesDiffer DEF GenBlock, Python, Value, Needs
<1>4. /\ LastWrite(q, 5, "conf", built)
      /\ LastWrite(q, 5, "join", i)
  BY <1>2, <1>3, StepIs DEF LastWrite, IsWrite
<1>5. \A k \in {1, 2, 3, 4} : GoodStep(q, js, udf, i, 5, k)
  BY <1>2, <1>3, StepIs DEF GenBlock, GoodStep, Content
<1>6. 5 = Len(q) /\ \A k \in 1..Len(q) : q[k].op # "upload"
  BY <1>2, StepIs
<1>7. \A k \in 1..Len(q) : k # 5 => GoodStep(q, js, udf, i, 5, k)
  BY <1>2, <1>5
<1>8. \A f \in Needs(js, i) : LastWrite(q, 5, f, Value(js, udf, i, f))
  BY <1>3, <1>4
<1>9. /\ 5 \in 1..Len(q) /\ q[5].op = "submit" /\ q[5].content = i
      /\ i \in 1..Len(js) /\ Len(js) \in Nat /\ launcher \in {"local", "cloud"}
  BY <1>2, StepIs DEF GenBlock
<1>10. Chain(q, js, udf, i - 1, i)
  BY <1>2, <1>6, <1>7, <1>8, <1>9, Block
<1> QED
  BY <1>1, <1>10

LEMMA GenChain ==
  ASSUME NEW i, NEW c, NEW js, GenBlock(i, c, js)
  PROVE  Chain(GenPlan(i, c), js, udf, i - 1, i)
BY GenPlanCloudPython, GenPlanCloudJar, GenPlanLocalPython, GenPlanLocalJar DEF GenBlock

LEMMA JoinChain ==
  ASSUME NEW i, NEW js, GenBlock(i, "join", js)
  PROVE  Chain(JoinPlan(i), js, udf, i - 1, i)
BY JoinPlanCloudPython, JoinPlanCloudJar, JoinPlanLocalPython, JoinPlanLocalJar DEF GenBlock


LEMMA ConcatIs ==
  ASSUME NEW p \in Seq(Steps), NEW q \in Seq(Steps)
  PROVE  /\ p \o q \in Seq(Steps) /\ Len(p) \in Nat /\ Len(q) \in Nat
         /\ Len(p \o q) = Len(p) + Len(q)
         /\ \A k \in 1..Len(p) : (p \o q)[k] = p[k]
         /\ \A k \in 1..Len(q) : (p \o q)[Len(p) + k] = q[k]
         /\ \A k \in 1..Len(p \o q) :
              k \in 1..Len(p) \/ \E m \in 1..Len(q) : k = Len(p) + m
<1>1. Len(p) \in Nat /\ Len(q) \in Nat /\ Len(p \o q) = Len(p) + Len(q)
  OBVIOUS
<1>2. ASSUME NEW k \in 1..Len(p \o q), k \notin 1..Len(p)
      PROVE  \E m \in 1..Len(q) : k = Len(p) + m
  <2>1. k - Len(p) \in 1..Len(q) /\ k = Len(p) + (k - Len(p))
    BY <1>1, <1>2
  <2> QED
    BY <2>1
<1> QED
  BY <1>1, <1>2

\* A longer plan keeps what its parts say of their steps.
LEMMA LongerPlan ==
  ASSUME NEW p \in Seq(Steps), NEW q \in Seq(Steps), NEW r, r = p \o q
  PROVE  /\ \A k \in 1..Len(p) : \A i : Serves(p, k, i) => Serves(r, k, i)
         /\ \A k \in 1..Len(q) : \A i : Serves(q, k, i) => Serves(r, Len(p) + k, i)
         /\ \A k \in 1..Len(p) : \A f, v : LastWrite(p, k, f, v) => LastWrite(r, k, f, v)
         /\ \A k \in 1..Len(q) : \A f, v : LastWrite(q, k, f, v) => LastWrite(r, Len(p) + k, f, v)
<1>1. /\ Len(p) \in Nat /\ Len(q) \in Nat /\ Len(r) = Len(p) + Len(q)
      /\ \A k \in 1..Len(p) : r[k] = p[k]
      /\ \A k \in 1..Len(q) : r[Len(p) + k] = q[k]
  BY ConcatIs
<1>2. ASSUME NEW k \in 1..Len(p), NEW i, Serves(p, k, i) PROVE Serves(r, k, i)
  BY <1>1, <1>2 DEF Serves
<1>3. ASSUME NEW k \in 1..Len(q), NEW i, Serves(q, k, i) PROVE Serves(r, Len(p) + k, i)
  <2>1. PICK s \in k..Len(q) :
          /\ q[s].op = "submit" /\ q[s].content = i
          /\ \A m \in k..(s - 1) : q[m].op # "submit"
    BY <1>3 DEF Serves
  <2>2. Len(p) + s \in (Len(p) + k)..Len(r) /\ r[Len(p) + s] = q[s]
    BY <1>1
  <2>3. ASSUME NEW m \in (Len(p) + k)..((Len(p) + s) - 1) PROVE r[m].op # "submit"
    <3>1. m - Len(p) \in k..(s - 1) /\ m - Len(p) \in 1..Len(q) /\ Len(p) + (m - Len(p)) = m
      BY <1>1
    <3>2. r[m] = q[m - Len(p)]
      BY <1>1, <3>1
    <3> QED
      BY <2>1, <3>1, <3>2
  <2> QED
    BY <2>1, <2>2, <2>3 DEF Serves
<1>4. ASSUME NEW k \in 1..Len(p), NEW f, NEW v, LastWrite(p, k, f, v)
      PROVE  LastWrite(r, k, f, v)
  <2>1. PICK j \in 1..(k - 1) :
          /\ IsWrite(p[j], f) /\ p[j].content = v
          /\ \A m \in (j + 1)..(k - 1) : ~IsWrite(p[m], f)
    BY <1>4 DEF LastWrite
  <2>2. \A m \in 1..(k - 1) : m \in 1..Len(p) /\ r[m] = p[m]
    BY <1>1
  <2>3. \A m \in (j + 1)..(k - 1) : m \in 1..(k - 1)
    OBVIOUS
  <2> QED
    BY <2>1, <2>2, <2>3 DEF LastWrite
<1>5. ASSUME NEW k \in 1..Len(q), NEW f, NEW v, LastWrite(q, k, f, v)
      PROVE  LastWrite(r, Len(p) + k, f, v)
  <2>1. PICK j \in 1..(k - 1) :
          /\ IsWrite(q[j], f) /\ q[j].content = v
          /\ \A m \in (j + 1)..(k - 1) : ~IsWrite(q[m], f)
    BY <1>5 DEF LastWrite
  <2>2. Len(p) + j \in 1..((Len(p) + k) - 1) /\ r[Len(p) + j] = q[j]
    BY <1>1
  <2>3. ASSUME NEW m \in ((Len(p) + j) + 1)..((Len(p) + k) - 1) PROVE ~IsWrite(r[m], f)
    <3>1. /\ m - Len(p) \in (j + 1)..(k - 1) /\ m - Len(p) \in 1..Len(q)
          /\ Len(p) + (m - Len(p)) = m
      BY <1>1
    <3>2. r[m] = q[m - Len(p)]
      BY <1>1, <3>1
    <3> QED
      BY <2>1, <3>1, <3>2
  <2> QED
    BY <2>1, <2>2, <2>3 DEF LastWrite
<1> QED
  BY <1>2, <1>3, <1>4, <1>5

\* What Chain says of one step.
LinkOK(q, js, u, lo, hi, k) ==
  /\ q[k].op # "assign"
  /\ q[k].op = "write" => q[k].content \in {Absent, Torn} \cup Content(Len(js), q[k].file)
  /\ q[k].op = "upload" =>
       \E i \in (lo + 1)..hi :
         /\ Serves(q, k, i) /\ q[k].file \in Needs(js, i)
         /\ LastWrite(q, k, q[k].file, Value(js, u, i, q[k].file))
  /\ q[k].op = "submit" =>
       /\ q[k].content \in (lo + 1)..hi
       /\ \A f \in Needs(js, q[k].content) :
            /\ launcher = "local" => LastWrite(q, k, f, Value(js, u, q[k].content, f))
            /\ launcher = "cloud" =>
                 \E j \in 1..(k - 1) : IsUpload(q[j], f) /\ Serves(q, j, q[k].content)

LEMMA ChainIs ==
  ASSUME NEW q, NEW js, NEW u, NEW lo, NEW hi
  PROVE  Chain(q, js, u, lo, hi) <=>
           /\ q \in Seq(Steps) /\ InTurn(q) /\ LocalPlan(q)
           /\ lo < hi => \E k \in 1..Len(q) : q[k].op = "submit"
           /\ \A k \in 1..Len(q) : LinkOK(q, js, u, lo, hi, k)
BY DEF Chain, LinkOK

LEMMA ChainConcat ==
  ASSUME NEW p, NEW q, NEW js, NEW u, NEW lo \in Nat, NEW mid \in Nat, NEW hi \in Nat,
         lo <= mid, mid < hi,
         Chain(p, js, u, lo, mid), Chain(q, js, u, mid, hi)
  PROVE  Chain(p \o q, js, u, lo, hi)
<1>1. PICK r : r = p \o q
  OBVIOUS
<1>2. p \in Seq(Steps) /\ q \in Seq(Steps)
  BY ChainIs
<1>3. /\ r \in Seq(Steps) /\ Len(p) \in Nat /\ Len(q) \in Nat /\ Len(r) = Len(p) + Len(q)
      /\ \A k \in 1..Len(p) : r[k] = p[k]
      /\ \A k \in 1..Len(q) : r[Len(p) + k] = q[k]
      /\ \A k \in 1..Len(r) : k \in 1..Len(p) \/ \E m \in 1..Len(q) : k = Len(p) + m
  BY <1>1, <1>2, ConcatIs
<1>4. ASSUME NEW k \in 1..Len(p) PROVE LinkOK(r, js, u, lo, hi, k)
  <2>1. LinkOK(p, js, u, lo, mid, k) /\ r[k] = p[k]
    BY <1>3, ChainIs
  <2>2. \A i \in (lo + 1)..mid : i \in (lo + 1)..hi
    OBVIOUS
  <2>3. ASSUME r[k].op = "upload"
        PROVE  \E i \in (lo + 1)..hi :
                 /\ Serves(r, k, i) /\ r[k].file \in Needs(js, i)
                 /\ LastWrite(r, k, r[k].file, Value(js, u, i, r[k].file))
    BY <1>1, <1>2, <2>1, <2>2, <2>3, LongerPlan DEF LinkOK
  <2>4. ASSUME r[k].op = "submit", NEW f \in Needs(js, r[k].content)
        PROVE  /\ launcher = "local" => LastWrite(r, k, f, Value(js, u, r[k].content, f))
               /\ launcher = "cloud" =>
                    \E j \in 1..(k - 1) : IsUpload(r[j], f) /\ Serves(r, j, r[k].content)
    <3>1. ASSUME launcher = "local"
          PROVE  LastWrite(r, k, f, Value(js, u, r[k].content, f))
      BY <1>1, <1>2, <2>1, <2>4, <3>1, LongerPlan DEF LinkOK
    <3>2. ASSUME launcher = "cloud"
          PROVE  \E j \in 1..(k - 1) : IsUpload(r[j], f) /\ Serves(r, j, r[k].content)
      <4>1. PICK j \in 1..(k - 1) : IsUpload(p[j], f) /\ Serves(p, j, p[k].content)
        BY <2>1, <2>4, <3>2 DEF LinkOK
      <4>2. j \in 1..Len(p)
        BY <1>3
      <4>3. r[j] = p[j] /\ Serves(r, j, p[k].content)
        BY <1>1, <1>2, <1>3, <4>1, <4>2, LongerPlan
      <4> QED
        BY <2>1, <4>1, <4>3
    <3> QED
      BY <3>1, <3>2
  <2> QED
    BY <2>1, <2>2, <2>3, <2>4 DEF LinkOK
<1>5. ASSUME NEW m \in 1..Len(q) PROVE LinkOK(r, js, u, lo, hi, Len(p) + m)
  <2>0. PICK k : k = Len(p) + m
    OBVIOUS
  <2>1. LinkOK(q, js, u, mid, hi, m) /\ r[k] = q[m]
    BY <1>3, <2>0, ChainIs
  <2>6. /\ \A i : Serves(q, m, i) => Serves(r, k, i)
        /\ \A f, v : LastWrite(q, m, f, v) => LastWrite(r, k, f, v)
    BY <1>1, <1>2, <2>0, LongerPlan
  <2>2. \A i \in (mid + 1)..hi : i \in (lo + 1)..hi
    OBVIOUS
  <2>3. ASSUME r[k].op = "upload"
        PROVE  \E i \in (lo + 1)..hi :
                 /\ Serves(r, k, i) /\ r[k].file \in Needs(js, i)
                 /\ LastWrite(r, k, r[k].file, Value(js, u, i, r[k].file))
    BY <2>1, <2>2, <2>3, <2>6 DEF LinkOK
  <2>4. ASSUME r[k].op = "submit", NEW f \in Needs(js, r[k].content)
        PROVE  /\ launcher = "local" => LastWrite(r, k, f, Value(js, u, r[k].content, f))
               /\ launcher = "cloud" =>
                    \E j \in 1..(k - 1) : IsUpload(r[j], f) /\ Serves(r, j, r[k].content)
    <3>1. ASSUME launcher = "local"
          PROVE  LastWrite(r, k, f, Value(js, u, r[k].content, f))
      <4>1. LastWrite(q, m, f, Value(js, u, q[m].content, f))
        BY <2>1, <2>4, <3>1 DEF LinkOK
      <4> QED
        BY <2>1, <2>6, <4>1
    <3>2. ASSUME launcher = "cloud"
          PROVE  \E j \in 1..(k - 1) : IsUpload(r[j], f) /\ Serves(r, j, r[k].content)
      <4>1. PICK j \in 1..(m - 1) : IsUpload(q[j], f) /\ Serves(q, j, q[m].content)
        BY <2>1, <2>4, <3>2 DEF LinkOK
      <4>2. j \in 1..Len(q) /\ Len(p) + j \in 1..(k - 1)
        BY <1>3, <2>0
      <4>3. r[Len(p) + j] = q[j] /\ Serves(r, Len(p) + j, q[m].content)
        BY <1>1, <1>2, <1>3, <4>1, <4>2, LongerPlan
      <4> QED
        BY <2>1, <4>1, <4>2, <4>3
    <3> QED
      BY <3>1, <3>2
  <2>5. LinkOK(r, js, u, lo, hi, k)
    BY <2>1, <2>2, <2>3, <2>4 DEF LinkOK
  <2> QED
    BY <2>0, <2>5
<1>6. ASSUME NEW k \in 1..Len(r) PROVE LinkOK(r, js, u, lo, hi, k)
  BY <1>3, <1>4, <1>5
<1>7. InTurn(r)
  <2> SUFFICES ASSUME NEW s \in 1..Len(r), NEW t \in 1..Len(r), s < t,
                      r[s].op = "submit", r[t].op = "submit"
               PROVE  r[s].content < r[t].content
    BY DEF InTurn
  <2>1. CASE s \in 1..Len(p) /\ t \in 1..Len(p)
    BY <1>3, <2>1, ChainIs DEF InTurn
  <2>2. CASE s \in 1..Len(p) /\ t \notin 1..Len(p)
    <3>1. PICK m \in 1..Len(q) : t = Len(p) + m
      BY <1>3, <2>2
    <3>2. p[s].content \in (lo + 1)..mid
      BY <1>3, <2>2, ChainIs DEF LinkOK
    <3>3. q[m].content \in (mid + 1)..hi
      BY <1>3, <3>1, ChainIs DEF LinkOK
    <3>4. r[s].content = p[s].content
      BY <1>3, <2>2
    <3>5. r[t].content = q[m].content
      BY <1>3, <3>1
    <3>6. \A x \in (lo + 1)..mid, y \in (mid + 1)..hi : x < y
      OBVIOUS
    <3> QED
      BY <3>2, <3>3, <3>4, <3>5, <3>6
  <2>3. CASE s \notin 1..Len(p)
    <3>1. PICK m \in 1..Len(q) : s = Len(p) + m
      BY <1>3, <2>3
    <3>2. t \notin 1..Len(p)
      BY <1>3, <2>3
    <3>3. PICK n \in 1..Len(q) : t = Len(p) + n
      BY <1>3, <3>2
    <3>4. m < n
      BY <1>3, <3>1, <3>3
    <3>5. /\ r[s] = q[m] /\ r[t] = q[n]
          /\ q[m].op = "submit" /\ q[n].op = "submit"
      BY <1>3, <3>1, <3>3
    <3>6. InTurn(q)
      BY ChainIs
    <3>7. q[m].content < q[n].content
      BY <3>4, <3>5, <3>6 DEF InTurn
    <3> QED
      BY <3>5, <3>7
  <2> QED
    BY <2>1, <2>2, <2>3
<1>8. LocalPlan(r)
  <2> SUFFICES ASSUME launcher = "local"
               PROVE  /\ \A k \in 1..Len(r) : r[k].op # "upload"
                      /\ r[Len(r)].op = "submit"
    BY DEF LocalPlan
  <2>0. q[Len(q)].op = "submit"
    BY ChainIs DEF LocalPlan
  <2>1. /\ \A k \in 1..Len(p) : p[k].op # "upload"
        /\ \A k \in 1..Len(q) : q[k].op # "upload"
    BY ChainIs DEF LocalPlan
  <2>2. Len(q) \in 1..Len(q)
    BY <1>3, ChainIs
  <2>3. r[Len(r)] = q[Len(q)]
    BY <1>3, <2>2
  <2> QED
    BY <1>3, <2>0, <2>1, <2>3
<1>9. \E k \in 1..Len(r) : r[k].op = "submit"
  <2>1. PICK k \in 1..Len(q) : q[k].op = "submit"
    BY ChainIs
  <2>2. Len(p) + k \in 1..Len(r) /\ r[Len(p) + k] = q[k]
    BY <1>3
  <2> QED
    BY <2>1, <2>2
<1>10. Chain(r, js, u, lo, hi)
  BY <1>3, <1>6, <1>7, <1>8, <1>9, ChainIs
<1> QED
  BY <1>1, <1>10

-----------------------------------------------------------------------------
(* FlattenSeq *)

LEMMA LeastNat ==
  ASSUME NEW T, T \subseteq Nat, T # {}
  PROVE  \E x \in T : \A y \in T : ~(y < x)
<1>1. \E x \in T : \A y \in T : ~ (<<y, x>> \in OpToRel(<, Nat))
  BY WFMin, NatLessThanWellFounded
<1> QED
  BY <1>1 DEF OpToRel


\* FlattenSeq puts the parts one behind the other.
LEMMA FlattenSteps ==
  ASSUME NEW seqs, NEW n \in Nat, Len(seqs) = n, n # 0
  PROVE  \E f : /\ f[1] = seqs[1] /\ \A i \in 2..n : f[i] = f[i - 1] \o seqs[i]
                /\ FlattenSeq(seqs) = f[n]
<1> DEFINE Flat(m, f) == f = [i \in 1..m |-> IF i = 1 THEN seqs[i] ELSE f[i - 1] \o seqs[i]]
           T == {m \in Nat : ~\E f : Flat(m, f)}
<1>1. T = {}
  <2> SUFFICES ASSUME T # {} PROVE FALSE
    OBVIOUS
  <2>1. PICK m \in T : \A k \in T : ~(k < m)
    <3>1. T \subseteq Nat
      OBVIOUS
    <3> QED
      BY <3>1, LeastNat
  <2>2. m # 0
    <3>1. \A f : f = [i \in 1..0 |-> seqs[1]] => Flat(0, f)
      OBVIOUS
    <3> QED
      BY <2>1, <3>1
  <2>3. m - 1 \in Nat /\ m \in Nat /\ m - 1 < m
    BY <2>1, <2>2
  <2>4. PICK f : Flat(m - 1, f)
    BY <2>1, <2>3
  <2>5. PICK g : g = [i \in 1..m |-> IF i = m THEN IF m = 1 THEN seqs[1] ELSE f[m - 1] \o seqs[m]
                                     ELSE f[i]]
    OBVIOUS
  <2>6. g = [i \in 1..m |-> g[i]]
    BY <2>5
  <2>7. ASSUME NEW i \in 1..m
        PROVE  g[i] = IF i = 1 THEN seqs[i] ELSE g[i - 1] \o seqs[i]
    <3>1. CASE i = m
      BY <2>3, <2>5, <3>1
    <3>2. CASE i # m
      <4>1. i \in 1..(m - 1) /\ g[i] = f[i] /\ (i # 1 => i - 1 \in 1..m /\ g[i - 1] = f[i - 1])
        BY <2>3, <2>5, <3>2
      <4>2. f[i] = IF i = 1 THEN seqs[i] ELSE f[i - 1] \o seqs[i]
        BY <2>4, <4>1
      <4> QED
        BY <4>1, <4>2
    <3> QED
      BY <3>1, <3>2
  <2>8. Flat(m, g)
    BY <2>6, <2>7
  <2> QED
    BY <2>1, <2>8
<1>2. \E f : Flat(n, f)
  <2>1. n \notin T
    BY <1>1
  <2> QED
    BY <2>1
<1>3. PICK f : f = CHOOSE g : Flat(n, g)
  OBVIOUS
<1>4. Flat(n, f)
  BY <1>2, <1>3
<1>5. FlattenSeq(seqs) = f[n]
  BY <1>3 DEF FlattenSeq
<1>6. ASSUME NEW i \in 1..n PROVE f[i] = IF i = 1 THEN seqs[i] ELSE f[i - 1] \o seqs[i]
  BY <1>4
<1>7. f[1] = seqs[1] /\ \A i \in 2..n : f[i] = f[i - 1] \o seqs[i]
  <2>1. 1 \in 1..n /\ \A i \in 2..n : i \in 1..n /\ i # 1
    OBVIOUS
  <2> QED
    BY <1>6, <2>1
<1> QED
  BY <1>5, <1>7

\* The plan of a call of materialize_features.
LEMMA GenPlansChain ==
  ASSUME NEW cutoffs, NEW m \in Nat, m # 0, DOMAIN cutoffs = 1..m,
         NEW lo \in Nat, NEW js,
         \A i \in 1..m : GenBlock(lo + i, cutoffs[i], js)
  PROVE  Chain(FlattenSeq([i \in DOMAIN cutoffs |-> GenPlan(lo + i, cutoffs[i])]),
               js, udf, lo, lo + m)
<1>1. PICK seqs : seqs = [i \in 1..m |-> GenPlan(lo + i, cutoffs[i])]
  OBVIOUS
<1>2. Len(seqs) = m /\ \A i \in 1..m : seqs[i] = GenPlan(lo + i, cutoffs[i])
  BY <1>1
<1>3. PICK f : /\ f[1] = seqs[1] /\ \A i \in 2..m : f[i] = f[i - 1] \o seqs[i]
               /\ FlattenSeq(seqs) = f[m]
  BY <1>2, FlattenSteps
<1>4. ASSUME NEW i \in 1..m
      PROVE  Chain(seqs[i], js, udf, (lo + i) - 1, lo + i)
  BY <1>2, GenChain
<1> DEFINE T == {i \in 1..m : ~Chain(f[i], js, udf, lo, lo + i)}
<1>5. T = {}
  <2> SUFFICES ASSUME T # {} PROVE FALSE
    OBVIOUS
  <2>1. PICK i \in T : \A k \in T : ~(k < i)
    <3>1. T \subseteq Nat
      OBVIOUS
    <3> QED
      BY <3>1, LeastNat
  <2>2. CASE i = 1
    <3>1. Chain(seqs[1], js, udf, lo, lo + 1)
      <4>1. 1 \in 1..m /\ (lo + 1) - 1 = lo
        OBVIOUS
      <4>2. Chain(seqs[1], js, udf, (lo + 1) - 1, lo + 1)
        BY <1>4, <4>1
      <4> QED
        BY <4>1, <4>2
    <3> QED
      BY <1>3, <2>1, <2>2, <3>1
  <2>3. CASE i # 1
    <3>1. i \in 2..m /\ i - 1 \in 1..m /\ i - 1 < i /\ lo + (i - 1) = (lo + i) - 1
          /\ (lo + i) - 1 \in Nat /\ lo + i \in Nat /\ lo <= (lo + i) - 1 /\ (lo + i) - 1 < lo + i
      BY <2>1, <2>3
    <3>2. Chain(f[i - 1], js, udf, lo, (lo + i) - 1)
      BY <2>1, <3>1
    <3>3. Chain(f[i - 1] \o seqs[i], js, udf, lo, lo + i)
      BY <1>4, <3>1, <3>2, ChainConcat
    <3> QED
      BY <1>3, <2>1, <3>1, <3>3
  <2> QED
    BY <2>2, <2>3
<1>6. Chain(f[m], js, udf, lo, lo + m)
  BY <1>5
<1> QED
  BY <1>1, <1>3, <1>6


LEMMA ChainPlan ==
  ASSUME NEW p, NEW js, NEW u, NEW lo \in Nat, Len(js) \in Nat, Chain(p, js, u, lo, Len(js)),
         NEW d, NEW c
  PROVE  /\ UploadsOK(p, d, js, u) /\ SubmitsOK(p, d, c, js, u)
         /\ InTurn(p) /\ LocalPlan(p) /\ StepsTyped(p, Len(js))
         /\ \A k \in 1..Len(p) : p[k].op # "assign"
         /\ \A k \in 1..Len(p) : p[k].op = "submit" => p[k].content \in (lo + 1)..Len(js)
<1>1. /\ p \in Seq(Steps) /\ InTurn(p) /\ LocalPlan(p)
      /\ \A k \in 1..Len(p) : LinkOK(p, js, u, lo, Len(js), k)
  BY ChainIs
<1>2. \A i \in (lo + 1)..Len(js) : i \in 1..Len(js)
  OBVIOUS
<1>3. UploadsOK(p, d, js, u)
  <2> SUFFICES ASSUME NEW k \in 1..Len(p), p[k].op = "upload"
               PROVE  \E i \in 1..Len(js) :
                        /\ Serves(p, k, i) /\ p[k].file \in Needs(js, i)
                        /\ Finds(p, d, k, p[k].file, Value(js, u, i, p[k].file))
    BY DEF UploadsOK
  <2>1. PICK i \in (lo + 1)..Len(js) :
          /\ Serves(p, k, i) /\ p[k].file \in Needs(js, i)
          /\ LastWrite(p, k, p[k].file, Value(js, u, i, p[k].file))
    BY <1>1 DEF LinkOK
  <2> QED
    BY <1>2, <2>1 DEF Finds
<1>4. SubmitsOK(p, d, c, js, u)
  <2> SUFFICES ASSUME NEW s \in 1..Len(p), p[s].op = "submit"
               PROVE  LET i == p[s].content IN
                      /\ i \in 1..Len(js)
                      /\ \A f \in Needs(js, i) :
                           /\ launcher = "local" => Finds(p, d, s, f, Value(js, u, i, f))
                           /\ launcher = "cloud" =>
                                \/ \E k \in 1..(s - 1) : IsUpload(p[k], f) /\ Serves(p, k, i)
                                \/ Serves(p, 1, i) /\ c[f] = Value(js, u, i, f)
    BY DEF SubmitsOK
  <2>1. p[s].content \in 1..Len(js)
    BY <1>1, <1>2 DEF LinkOK
  <2>2. ASSUME NEW f \in Needs(js, p[s].content), launcher = "local"
        PROVE  Finds(p, d, s, f, Value(js, u, p[s].content, f))
    BY <1>1, <2>2 DEF LinkOK, Finds
  <2>3. ASSUME NEW f \in Needs(js, p[s].content), launcher = "cloud"
        PROVE  \E k \in 1..(s - 1) : IsUpload(p[k], f) /\ Serves(p, k, p[s].content)
    BY <1>1, <2>3 DEF LinkOK
  <2> QED
    BY <2>1, <2>2, <2>3
<1>5. /\ StepsTyped(p, Len(js))
      /\ \A k \in 1..Len(p) : p[k].op # "assign"
      /\ \A k \in 1..Len(p) : p[k].op = "submit" => p[k].content \in (lo + 1)..Len(js)
  BY <1>1 DEF LinkOK, StepsTyped
<1> QED
  BY <1>1, <1>3, <1>4, <1>5

-----------------------------------------------------------------------------
(* Facts about states *)

LEMMA JobsAre ==
  ASSUME jobs \in Seq(JobRecords)
  PROVE  /\ Len(jobs) \in Nat /\ DOMAIN jobs = 1..Len(jobs)
         /\ \A i \in 1..Len(jobs) :
              /\ jobs[i] \in JobRecords
              /\ jobs[i].call \in Nat /\ jobs[i].file \in Requests /\ jobs[i].list \in Lists
              /\ jobs[i].last \in Outcomes /\ jobs[i].python \in BOOLEAN
              /\ jobs[i].status \in Statuses
<1>1. /\ Len(jobs) \in Nat /\ DOMAIN jobs = 1..Len(jobs)
      /\ \A i \in 1..Len(jobs) : jobs[i] \in JobRecords
  OBVIOUS
<1>2. \A j \in JobRecords :
        /\ j.call \in Nat /\ j.file \in Requests /\ j.list \in Lists
        /\ j.last \in Outcomes /\ j.python \in BOOLEAN
        /\ j.status \in Statuses
  BY DEF JobRecords
<1> QED
  BY <1>1, <1>2

LEMMA ContentsDiffer ==
  /\ \A l \in Lists : l # Absent /\ l # Torn /\ l # NoList
  /\ \A n \in Nat : n # Absent /\ n # Torn
  /\ \A f : \A n \in Nat, m \in Nat : n <= m => \A v \in Content(n, f) : v \in Content(m, f)
  /\ \A f : \A n \in Nat : \A v \in Content(n, f) : v \in Values /\ v # Absent /\ v # Torn
<1>1. /\ \A l \in Lists : l # Absent /\ l # Torn /\ l # NoList
      /\ \A n \in Nat : n # Absent /\ n # Torn
  BY ContentsAssumption
<1> QED
  BY <1>1 DEF Content, Values

\* An upload finds the right file, for a job to come.
LEMMA HeadUpload ==
  ASSUME Typed, PlanOK, plan # <<>>, Head(plan).op = "upload"
  PROVE  \E i \in 1..Len(jobs) : LET f == Head(plan).file IN
           /\ Serves(plan, 1, i) /\ f \in Needs(jobs, i)
           /\ disk[f] = Value(jobs, udf, i, f) /\ disk[f] \in Content(Len(jobs), f)
           /\ \A k \in i..Len(jobs) : jobs[k].status = "preparing"
           /\ jobs[i].call = calls
           /\ jobs[i].python => udf # NoList
           /\ jobs[i].last = "done" => udf = Preprocessed(jobs[i].list)
           /\ f \in Files
<1>1. plan \in Seq(Steps) /\ plan # <<>> /\ Head(plan).op = "upload"
  BY DEF Typed, StepsTyped
<1>2. /\ Len(plan) \in Nat /\ 1 \in 1..Len(plan) /\ plan[1] = Head(plan)
      /\ Head(plan).file \in Files
  <2>1. Head(plan) \in Steps
    BY <1>1, TailIs
  <2>2. Len(plan) \in Nat /\ 1 \in 1..Len(plan) /\ plan[1] = Head(plan)
    BY <1>1, TailIs
  <2> QED
    BY <2>1, <2>2 DEF Steps
<1>3. PICK f : f = Head(plan).file
  OBVIOUS
<1>4. PICK i \in 1..Len(jobs) :
        Serves(plan, 1, i) /\ f \in Needs(jobs, i) /\ Finds(plan, disk, 1, f, Value(jobs, udf, i, f))
  BY <1>1, <1>2, <1>3 DEF PlanOK, UploadsOK
<1>5. disk[f] = Value(jobs, udf, i, f)
  BY <1>4 DEF Finds, LastWrite
<1>6. PICK s \in 1..Len(plan) : plan[s].op = "submit" /\ plan[s].content = i
  BY <1>4 DEF Serves
<1>7. /\ \A k \in i..Len(jobs) : jobs[k].status = "preparing"
      /\ jobs[i].call = calls
      /\ jobs[i].python => udf # NoList
      /\ jobs[i].last = "done" => udf = Preprocessed(jobs[i].list)
  BY <1>6 DEF PlanOK, ToSubmit
<1>8. disk[f] \in Content(Len(jobs), f)
  <2>1. udf \in Lists \cup {NoList} /\ jobs[i].list \in Lists /\ jobs[i].file \in Requests
    BY JobsAre DEF Typed
  <2>2. f = "driver" => udf \in Lists
    BY <1>4, <1>7, <2>1, FilesDiffer DEF Needs
  <2> QED
    BY <1>5, <2>1, <2>2 DEF Value, Content
<1> QED
  BY <1>2, <1>3, <1>4, <1>5, <1>7, <1>8

\* A job that is submitted has its files in place.
LEMMA HeadSubmit ==
  ASSUME Typed, PlanOK, Does("submit")
  PROVE  LET i == Head(plan).content IN
         /\ i \in 1..Len(jobs)
         /\ \A f \in Needs(jobs, i) :
              Place[f] = Value(jobs, udf, i, f) /\ Place[f] \in Content(Len(jobs), f)
         /\ \A k \in i..Len(jobs) : jobs[k].status = "preparing"
         /\ jobs[i].call = calls
         /\ jobs[i].python => udf # NoList
         /\ jobs[i].last = "done" => udf = Preprocessed(jobs[i].list)
<1>1. plan \in Seq(Steps) /\ plan # <<>> /\ Head(plan).op = "submit"
  BY DEF Does, Typed, StepsTyped
<1>2. Len(plan) \in Nat /\ 1 \in 1..Len(plan) /\ plan[1] = Head(plan)
  BY <1>1, TailIs
<1>3. PICK i : i = Head(plan).content
  OBVIOUS
<1>4. i \in 1..Len(jobs)
  BY <1>1, <1>2, <1>3 DEF PlanOK, SubmitsOK
<1>5. ASSUME NEW f \in Needs(jobs, i) PROVE Place[f] = Value(jobs, udf, i, f)
  <2>1. CASE launcher = "local"
    <3>1. Finds(plan, disk, 1, f, Value(jobs, udf, i, f))
      BY <1>1, <1>2, <1>3, <2>1 DEF PlanOK, SubmitsOK
    <3> QED
      BY <2>1, <3>1 DEF Finds, LastWrite, Place
  <2>2. CASE launcher = "cloud"
    <3>1. \/ \E k \in 1..(1 - 1) : IsUpload(plan[k], f) /\ Serves(plan, k, i)
          \/ Serves(plan, 1, i) /\ cloud[f] = Value(jobs, udf, i, f)
      BY <1>1, <1>2, <1>3, <2>2 DEF PlanOK, SubmitsOK
    <3> QED
      BY <2>2, <3>1 DEF Place
  <2> QED
    BY <2>1, <2>2 DEF Typed
<1>6. /\ \A k \in i..Len(jobs) : jobs[k].status = "preparing"
      /\ jobs[i].call = calls
      /\ jobs[i].python => udf # NoList
      /\ jobs[i].last = "done" => udf = Preprocessed(jobs[i].list)
  BY <1>1, <1>2, <1>3 DEF PlanOK, ToSubmit
<1>7. ASSUME NEW f \in Needs(jobs, i) PROVE Value(jobs, udf, i, f) \in Content(Len(jobs), f)
  <2>1. udf \in Lists \cup {NoList} /\ jobs[i].list \in Lists /\ jobs[i].file \in Requests
    BY <1>4, JobsAre DEF Typed
  <2>2. f = "driver" => udf \in Lists
    BY <1>6, <1>7, <2>1, FilesDiffer DEF Needs
  <2> QED
    BY <1>4, <2>1, <2>2 DEF Value, Content
<1> QED
  BY <1>3, <1>4, <1>5, <1>6, <1>7


\* Jobs that are added, or get on, disturb no more than what there was.
LEMMA UndisturbedBefore ==
  ASSUME Len(jobs) \in Nat, Len(jobs') \in Nat, Len(jobs) <= Len(jobs'),
         DOMAIN jobs = 1..Len(jobs), DOMAIN jobs' = 1..Len(jobs'),
         UNCHANGED <<launcher, patient>>,
         \A k \in 1..Len(jobs) :
           /\ jobs'[k].call = jobs[k].call /\ jobs'[k].file = jobs[k].file
           /\ jobs'[k].list = jobs[k].list /\ jobs'[k].last = jobs[k].last,
         NEW i \in 1..Len(jobs)
  PROVE  /\ Alone(i)' => Alone(i)
         /\ AmongEquals(i)' => AmongEquals(i)
         /\ Undisturbed(i)' => Undisturbed(i)
<1>1. ASSUME Alone(i)' PROVE Alone(i)
  <2>1. patient /\ \A k \in DOMAIN jobs' \ {i} : jobs'[k].call # jobs'[i].call
    BY <1>1 DEF Alone
  <2>2. \A k \in DOMAIN jobs \ {i} : k \in DOMAIN jobs' \ {i}
    OBVIOUS
  <2> QED
    BY <2>1, <2>2 DEF Alone
<1>2. ASSUME AmongEquals(i)' PROVE AmongEquals(i)
  <2>1. /\ launcher = "cloud"
        /\ \A k \in (i + 1)..Len(jobs') :
             /\ jobs'[k].list = jobs'[i].list /\ jobs'[k].last = "done"
             /\ jobs'[k].file # jobs'[i].file
    BY <1>2 DEF AmongEquals
  <2>2. \A k \in (i + 1)..Len(jobs) : k \in (i + 1)..Len(jobs') /\ k \in 1..Len(jobs)
    OBVIOUS
  <2> QED
    BY <2>1, <2>2 DEF AmongEquals
<1>3. jobs'[i].last = jobs[i].last
  OBVIOUS
<1> QED
  BY <1>1, <1>2, <1>3 DEF Undisturbed

\* Jobs that are added, or get on, leave the followers of a job its followers.
LEMMA FollowersStay ==
  ASSUME \/ Len(jobs') = Len(jobs)
         \/ Len(jobs) \in Nat /\ Len(jobs') \in Nat /\ Len(jobs) <= Len(jobs'),
         UNCHANGED patient,
         \A k \in 1..Len(jobs) : jobs'[k].call = jobs[k].call /\ jobs'[k].python = jobs[k].python,
         NEW i \in 1..Len(jobs)
  PROVE  /\ Followed(i) => Followed(i)'
         /\ FollowedByPython(i) => FollowedByPython(i)'
<1>1. ASSUME NEW k \in Followers(i)
      PROVE  k \in Followers(i)' /\ jobs'[k].python = jobs[k].python
  <2>1. k \in (i + 1)..Len(jobs) /\ k \in 1..Len(jobs) /\ (patient => jobs[k].call = jobs[i].call)
    BY <1>1 DEF Followers
  <2>2. k \in (i + 1)..Len(jobs')
    BY <2>1
  <2>3. patient' => jobs'[k].call = jobs'[i].call
    BY <2>1
  <2> QED
    BY <2>1, <2>2, <2>3 DEF Followers
<1> QED
  BY <1>1 DEF Followed, FollowedByPython

\* When no job is added, it is enough to look at what each job has read and finds.
LEMMA ReadsKept ==
  ASSUME Len(jobs') = Len(jobs), UNCHANGED <<launcher, patient>>,
         \A k \in 1..Len(jobs) : jobs'[k].call = jobs[k].call /\ jobs'[k].python = jobs[k].python,
         \A k \in 1..Len(jobs) :
           ReadOK(jobs'[k], Len(jobs), cloud', Followed(k), FollowedByPython(k))
  PROVE  ReadsOK'
<1> SUFFICES ASSUME NEW k \in 1..Len(jobs')
             PROVE  ReadOK(jobs[k], Len(jobs), cloud, Followed(k), FollowedByPython(k))'
  BY DEF ReadsOK
<1>1. ReadOK(jobs'[k], Len(jobs), cloud', Followed(k), FollowedByPython(k))
  OBVIOUS
<1>2. (Followed(k) => Followed(k)') /\ (FollowedByPython(k) => FollowedByPython(k)')
  BY FollowersStay
<1> QED
  BY <1>1, <1>2 DEF ReadOK

\* What jobs have read and will find does not depend on the plan.
LEMMA ReadsStay ==
  ASSUME ReadsOK, UNCHANGED <<launcher, patient, cloud, jobs>>
  PROVE  ReadsOK'
<1>1. ASSUME NEW k \in 1..Len(jobs)
      PROVE  ReadOK(jobs'[k], Len(jobs), cloud', Followed(k), FollowedByPython(k))
  <2>1. ReadOK(jobs[k], Len(jobs), cloud, Followed(k), FollowedByPython(k))
    BY DEF ReadsOK
  <2> QED
    BY <2>1
<1> QED
  BY <1>1, ReadsKept

LEMMA FreshStay ==
  ASSUME FreshOK, UNCHANGED <<launcher, patient, disk, cloud, jobs>>
  PROVE  FreshOK'
<1>1. /\ Place' = Place
      /\ \A i \in 1..Len(jobs) : (Alone(i)' => Alone(i)) /\ (Undisturbed(i)' => Undisturbed(i))
  BY DEF Place, Undisturbed, Alone, AmongEquals
<1> QED
  BY <1>1 DEF FreshOK, FreshJob

\* The plan moves on by one step that neither starts nor submits a job.
LEMMA MoveOn ==
  ASSUME IInv, plan # <<>>, plan' = Tail(plan),
         UNCHANGED <<launcher, patient, udf, jobs, calls>>
  PROVE  /\ StepsTyped(plan, Len(jobs))' /\ InTurn(plan)' /\ LocalPlan(plan)'
         /\ ToSubmit' /\ JobsOK'
<1>1. /\ StepsTyped(plan, Len(jobs)) /\ InTurn(plan) /\ LocalPlan(plan) /\ ToSubmit /\ JobsOK
  BY DEF IInv, Typed, PlanOK
<1>2. /\ StepsTyped(plan', Len(jobs)) /\ InTurn(plan') /\ LocalPlan(plan')
  BY <1>1, StepsTypedTail
<1>3. /\ StepsTyped(plan, Len(jobs))' /\ InTurn(plan)' /\ LocalPlan(plan)'
  BY <1>2 DEF StepsTyped, InTurn, LocalPlan
<1>4. /\ Len(plan) \in Nat
      /\ \A k \in 1..Len(plan') : k + 1 \in 1..Len(plan) /\ plan'[k] = plan[k + 1]
  BY <1>1, TailIs DEF StepsTyped
<1>5. ToSubmit'
  BY <1>1, <1>4 DEF ToSubmit
<1>6. JobsOK'
  BY <1>1 DEF JobsOK
<1> QED
  BY <1>3, <1>5, <1>6

LEMMA TailAlone ==
  ASSUME IInv, plan # <<>>, plan' = Tail(plan), UNCHANGED <<launcher, patient, jobs>>
  PROVE  AloneOK'
<1>1. AloneOK /\ plan \in Seq(Steps)
  BY DEF IInv, Typed, StepsTyped
<1>2. \A k \in 1..Len(plan') : k + 1 \in 1..Len(plan) /\ plan'[k] = plan[k + 1]
  BY <1>1, TailIs
<1>3. \A i \in 1..Len(jobs) : Alone(i)' => Alone(i)
  BY DEF Alone
<1> QED
  BY <1>1, <1>2, <1>3 DEF AloneOK

LEMMA TailFuncs ==
  ASSUME IInv, plan # <<>>, plan' = Tail(plan), Head(plan).op # "assign",
         UNCHANGED <<udf, built, last>>
  PROVE  FuncsOK'
<1>1. FuncsOK /\ plan \in Seq(Steps)
  BY DEF IInv, Typed, StepsTyped
<1>2. /\ \A k \in 1..Len(plan') : k + 1 \in 1..Len(plan) /\ plan'[k] = plan[k + 1]
      /\ Len(plan') = Len(plan) - 1 /\ Len(plan) \in Nat /\ plan[1] = Head(plan)
  BY <1>1, TailIs
<1>3. \A k \in 1..Len(plan) : k = 1 \/ (k - 1 \in 1..Len(plan') /\ plan'[k - 1] = plan[k])
  <2> SUFFICES ASSUME NEW k \in 1..Len(plan), k # 1
               PROVE  k - 1 \in 1..Len(plan') /\ plan'[k - 1] = plan[k]
    OBVIOUS
  <2>1. k - 1 \in 1..Len(plan') /\ (k - 1) + 1 = k
    BY <1>2
  <2> QED
    BY <1>2, <2>1
<1>4. (\A k \in 1..Len(plan') : plan'[k].op # "assign")
        => \A k \in 1..Len(plan) : plan[k].op # "assign"
  BY <1>2, <1>3
<1> QED
  BY <1>1, <1>2, <1>4 DEF FuncsOK

\* A local job that runs undisturbed runs alone, and the client is idle.
LEMMA LocalIdle ==
  ASSUME IInv, plan # <<>>, launcher = "local", NEW i \in 1..Len(jobs), Undisturbed(i)
  PROVE  jobs[i].status \notin {"submitted", "loaded"}
<1>1. Alone(i)
  BY DEF Undisturbed, AmongEquals
<1> QED
  BY <1>1 DEF IInv, AloneOK

LEMMA WriteFileIInv ==
  ASSUME IInv, WriteFile
  PROVE  IInv'
<1>1. /\ Typed /\ PlanOK /\ FuncsOK /\ JobsOK /\ ReadsOK /\ AloneOK /\ FreshOK
  BY DEF IInv
<1>2. /\ plan # <<>> /\ Head(plan).op = "write" /\ plan' = Tail(plan)
      /\ disk' = [disk EXCEPT ![Head(plan).file] = Head(plan).content]
      /\ UNCHANGED <<launcher, patient, cloud, udf, built, last, jobs, builds, calls>>
  BY DEF WriteFile, Does
<1>3. plan \in Seq(Steps) /\ Len(plan) \in Nat /\ 1 \in 1..Len(plan) /\ Head(plan) = plan[1]
  BY <1>1, <1>2, TailIs DEF Typed, StepsTyped
<1>4. /\ Head(plan).file \in Files
      /\ Head(plan).content \in {Absent, Torn} \cup Content(Len(jobs), Head(plan).file)
      /\ Head(plan).content \in Values
  <2>1. plan[1] \in Steps
    BY <1>3
  <2> QED
    BY <1>1, <1>2, <1>3, <2>1 DEF Steps, Typed, StepsTyped
<1>5. \A f \in Files : disk'[f] = IF IsWrite(plan[1], f) THEN plan[1].content ELSE disk[f]
  BY <1>1, <1>2, <1>3 DEF Typed, FilesTyped, IsWrite
<1>6. FilesTyped'
  BY <1>1, <1>2, <1>3, <1>4 DEF Typed, FilesTyped
<1>7. Typed'
  BY <1>1, <1>2, <1>6, MoveOn DEF Typed
<1>8. UploadsOK(plan, disk, jobs, udf)' /\ SubmitsOK(plan, disk, cloud, jobs, udf)'
  <2>1. SameJobs(jobs, jobs)
    BY DEF SameJobs
  <2>2. /\ UploadsOK(plan, disk, jobs, udf) /\ SubmitsOK(plan, disk, cloud, jobs, udf)
        /\ \A i \in 1..Len(jobs) : jobs[i].file \in Files
    BY <1>1, JobsAre, FilesDiffer DEF PlanOK, Typed
  <2>3. plan[1].op # "submit" /\ \A f : ~IsUpload(plan[1], f)
    BY <1>2, <1>3 DEF IsUpload
  <2>4. UploadsOK(Tail(plan), disk', jobs, udf)
    BY <1>2, <1>3, <1>5, <2>1, <2>2, UploadsTail
  <2>5. SubmitsOK(Tail(plan), disk', cloud, jobs, udf)
    BY <1>2, <1>3, <1>5, <2>1, <2>2, <2>3, SubmitsTail
  <2> QED
    BY <1>2, <2>4, <2>5 DEF UploadsOK, SubmitsOK
<1>9. PlanOK'
  BY <1>2, <1>8, MoveOn DEF PlanOK
<1>10. FuncsOK' /\ JobsOK' /\ AloneOK'
  BY <1>2, MoveOn, TailAlone, TailFuncs
<1>11. ReadsOK'
  BY <1>1, <1>2, ReadsStay
<1>12. FreshOK'
  <2> SUFFICES ASSUME NEW i \in 1..Len(jobs), Undisturbed(i)'
               PROVE  /\ Undisturbed(i) /\ (Alone(i)' => Alone(i))
                      /\ Place' = Place \/ jobs[i].status \notin {"submitted", "loaded"}
    BY <1>1, <1>2 DEF FreshOK, FreshJob
  <2>1. Undisturbed(i) /\ (Alone(i)' => Alone(i))
    BY <1>2 DEF Undisturbed, Alone, AmongEquals
  <2>2. CASE launcher = "local"
    BY <1>2, <2>1, <2>2, LocalIdle
  <2>3. CASE launcher = "cloud"
    BY <1>2, <2>1, <2>3 DEF Place
  <2> QED
    BY <1>1, <2>1, <2>2, <2>3 DEF Typed
<1> QED
  BY <1>7, <1>9, <1>10, <1>11, <1>12 DEF IInv

LEMMA UploadFileIInv ==
  ASSUME IInv, UploadFile
  PROVE  IInv'
<1>1. /\ Typed /\ PlanOK /\ FuncsOK /\ JobsOK /\ ReadsOK /\ AloneOK /\ FreshOK
  BY DEF IInv
<1>2. /\ plan # <<>> /\ Head(plan).op = "upload" /\ plan' = Tail(plan) /\ Does("upload")
      /\ cloud' = [cloud EXCEPT ![Head(plan).file] = disk[Head(plan).file]]
      /\ UNCHANGED <<launcher, patient, disk, udf, built, last, jobs, builds, calls>>
  BY DEF UploadFile, Does
<1>3. plan \in Seq(Steps) /\ Len(plan) \in Nat /\ 1 \in 1..Len(plan) /\ Head(plan) = plan[1]
  BY <1>1, <1>2, TailIs DEF Typed, StepsTyped
<1>4. PICK o \in 1..Len(jobs) : LET f == Head(plan).file IN
        /\ Serves(plan, 1, o) /\ f \in Needs(jobs, o)
        /\ disk[f] = Value(jobs, udf, o, f) /\ disk[f] \in Content(Len(jobs), f)
        /\ \A k \in o..Len(jobs) : jobs[k].status = "preparing"
        /\ jobs[o].call = calls
        /\ jobs[o].python => udf # NoList
        /\ jobs[o].last = "done" => udf = Preprocessed(jobs[o].list)
        /\ f \in Files
  BY <1>1, <1>2, HeadUpload
<1>5. PICK f : f = Head(plan).file
  OBVIOUS
<1>6. /\ cloud \in [Files -> Values] /\ cloud' = [cloud EXCEPT ![f] = disk[f]]
      /\ f \in Files /\ disk[f] = Value(jobs, udf, o, f) /\ disk[f] \in Content(Len(jobs), f)
      /\ Len(jobs) \in Nat /\ DOMAIN jobs = 1..Len(jobs)
  BY <1>1, <1>2, <1>4, <1>5, JobsAre DEF Typed, FilesTyped
<1>7. /\ cloud'[f] = disk[f] /\ \A g \in Files : g # f => cloud'[g] = cloud[g]
      /\ disk[f] # Absent /\ disk[f] # Torn /\ disk[f] \in Values
  BY <1>6, ContentsDiffer
<1>8. launcher = "cloud"
  BY <1>1, <1>2, <1>3 DEF PlanOK, LocalPlan, Typed
<1>9. FilesTyped'
  <2>1. cloud' \in [Files -> Values]
    BY <1>6, <1>7
  <2>2. \A g \in Files : cloud'[g] \in {Absent, Torn} \cup Content(Len(jobs), g)
    BY <1>1, <1>6, <1>7 DEF Typed, FilesTyped
  <2> QED
    BY <1>1, <1>2, <2>1, <2>2 DEF Typed, FilesTyped
<1>10. Typed'
  BY <1>1, <1>2, <1>9, MoveOn DEF Typed
<1>11. UploadsOK(plan, disk, jobs, udf)' /\ SubmitsOK(plan, disk, cloud, jobs, udf)'
  <2>1. SameJobs(jobs, jobs)
    BY DEF SameJobs
  <2>2. /\ UploadsOK(plan, disk, jobs, udf) /\ SubmitsOK(plan, disk, cloud, jobs, udf)
        /\ \A i \in 1..Len(jobs) : jobs[i].file \in Files
    BY <1>1, JobsAre, FilesDiffer DEF PlanOK, Typed
  <2>3. /\ plan[1].op # "submit" /\ \A g : ~IsWrite(plan[1], g)
        /\ \A g : IsUpload(plan[1], g) <=> g = f
    BY <1>2, <1>3, <1>5 DEF IsUpload, IsWrite
  <2>4. UploadsOK(Tail(plan), disk, jobs, udf)
    BY <1>2, <1>3, <2>1, <2>2, <2>3, UploadsTail
  <2>5. \A i \in 1..Len(jobs) : Serves(plan, 1, i) => i = o
    BY <1>3, <1>4, ServesOne
  <2>6. \A g \in Files, i \in 1..Len(jobs) :
          IsUpload(plan[1], g) /\ Serves(plan, 1, i) => cloud'[g] = Value(jobs, udf, i, g)
    BY <1>6, <1>7, <2>3, <2>5
  <2>8. \A g \in Files : ~IsUpload(plan[1], g) => cloud'[g] = cloud[g]
    BY <1>7, <2>3
  <2>9. \A g \in Files : disk[g] = IF IsWrite(plan[1], g) THEN plan[1].content ELSE disk[g]
    BY <2>3
  <2>7. SubmitsOK(Tail(plan), disk, cloud', jobs, udf)
    <3>1. plan # <<>> /\ plan[1].op # "submit"
      BY <1>2, <2>3
    <3>2. PICK b : b = cloud'
      OBVIOUS
    <3>3. /\ \A g \in Files : ~IsUpload(plan[1], g) => b[g] = cloud[g]
          /\ \A g \in Files, i \in 1..Len(jobs) :
               IsUpload(plan[1], g) /\ Serves(plan, 1, i) => b[g] = Value(jobs, udf, i, g)
      BY <2>6, <2>8, <3>2
    <3>4. SubmitsOK(Tail(plan), disk, b, jobs, udf)
      BY <1>3, <2>1, <2>2, <2>9, <3>1, <3>3, SubmitsTail
    <3> QED
      BY <3>2, <3>4
  <2>10. UploadsOK(plan, disk, jobs, udf)'
    BY <1>2, <2>4 DEF UploadsOK
  <2>11. SubmitsOK(plan, disk, cloud, jobs, udf)'
    BY <1>2, <2>7 DEF SubmitsOK
  <2> QED
    BY <2>10, <2>11
<1>12. PlanOK'
  BY <1>2, <1>11, MoveOn DEF PlanOK
<1>13. FuncsOK' /\ JobsOK' /\ AloneOK'
  BY <1>2, MoveOn, TailAlone, TailFuncs
<1>14. "driver" \in Files /\ "conf" \in Files /\ \A i \in 1..Len(jobs) : jobs[i].file \in Files
  BY <1>1, JobsAre, FilesDiffer DEF Typed
<1>15. ReadsOK'
  <2>1. \A g \in Files : (cloud[g] # Absent => cloud'[g] # Absent)
                        /\ (cloud'[g] = Torn => cloud[g] = Torn)
    BY <1>7
  <2>2. ASSUME NEW k \in 1..Len(jobs)
        PROVE  ReadOK(jobs[k], Len(jobs), cloud', Followed(k), FollowedByPython(k))
    <3>1. ReadOK(jobs[k], Len(jobs), cloud, Followed(k), FollowedByPython(k))
      BY <1>1 DEF ReadsOK
    <3> QED
      BY <1>14, <2>1, <3>1 DEF ReadOK
  <2> QED
    BY <1>2, <2>2, ReadsKept
<1>16. FreshOK'
  <2> SUFFICES ASSUME NEW i \in 1..Len(jobs), Undisturbed(i), jobs[i].status \in {"submitted", "loaded"}
               PROVE  /\ cloud'["conf"] = jobs[i].list \/ cloud'["conf"] = cloud["conf"]
                      /\ cloud'[jobs[i].file] = cloud[jobs[i].file]
                      /\ cloud'["driver"] = jobs[i].list \/ cloud'["driver"] = cloud["driver"]
    <3>1. \A i \in 1..Len(jobs) : (Undisturbed(i)' => Undisturbed(i)) /\ (Alone(i)' => Alone(i))
      BY <1>2 DEF Undisturbed, Alone, AmongEquals
    <3>2. Place = cloud /\ Place' = cloud'
      BY <1>2, <1>8 DEF Place
    <3> QED
      BY <1>1, <1>2, <3>1, <3>2 DEF FreshOK, FreshJob
  <2>2. ~Alone(i)
    BY <1>1, <1>2, <1>3 DEF AloneOK
  <2>3. o \in (i + 1)..Len(jobs)
    BY <1>4, <1>6
  <2>4. jobs[o].list = jobs[i].list /\ jobs[o].last = "done" /\ jobs[o].file # jobs[i].file
    BY <2>2, <2>3 DEF Undisturbed, AmongEquals
  <2>5. f \in Needs(jobs, o)
    BY <1>4, <1>5
  <2>6. jobs[i].file \in Requests /\ jobs[o].file \in Requests
    BY <1>1, JobsAre DEF Typed
  <2>7. f # jobs[i].file
    BY <2>4, <2>5, <2>6, FilesDiffer DEF Needs
  <2>8. f = "conf" => disk[f] = jobs[i].list
    BY <1>6, <2>4 DEF Value
  <2>9. f = "driver" => disk[f] = jobs[i].list
    <3> SUFFICES ASSUME f = "driver" PROVE disk[f] = jobs[i].list
      OBVIOUS
    <3>1. jobs[o].python
      BY <2>5, <2>6, FilesDiffer DEF Needs
    <3>2. udf # NoList /\ udf = Preprocessed(jobs[o].list)
      BY <1>4, <2>4, <3>1
    <3>3. udf = jobs[o].list
      BY <3>2 DEF Preprocessed
    <3> QED
      BY <1>6, <2>4, <3>3 DEF Value
  <2> QED
    BY <1>7, <1>14, <2>7, <2>8, <2>9
<1> QED
  BY <1>10, <1>12, <1>13, <1>15, <1>16 DEF IInv

\* The copies of the file at the head of the plan are of use to a later job only.
LEMMA EmptyCopyIInv ==
  ASSUME IInv, EmptyCopy
  PROVE  IInv'
<1>1. /\ Typed /\ PlanOK /\ FuncsOK /\ JobsOK /\ ReadsOK /\ AloneOK /\ FreshOK
  BY DEF IInv
<1>2. /\ plan # <<>> /\ Head(plan).op = "upload"
      /\ cloud' = [cloud EXCEPT ![Head(plan).file] = Torn]
      /\ UNCHANGED <<launcher, patient, disk, udf, built, last, plan, jobs, builds, calls>>
  BY DEF EmptyCopy
<1>3. plan \in Seq(Steps) /\ Len(plan) \in Nat /\ 1 \in 1..Len(plan) /\ Head(plan) = plan[1]
  BY <1>1, <1>2, TailIs DEF Typed, StepsTyped
<1>4. PICK f : f = Head(plan).file
  OBVIOUS
<1>5. PICK o \in 1..Len(jobs) :
        /\ Serves(plan, 1, o) /\ f \in Needs(jobs, o)
        /\ \A k \in o..Len(jobs) : jobs[k].status = "preparing"
        /\ jobs[o].call = calls /\ f \in Files
  BY <1>1, <1>2, <1>4, HeadUpload
<1>6. /\ cloud \in [Files -> Values] /\ cloud' = [cloud EXCEPT ![f] = Torn]
      /\ Len(jobs) \in Nat /\ DOMAIN jobs = 1..Len(jobs)
  BY <1>1, <1>2, <1>4, JobsAre DEF Typed, FilesTyped
<1>7. /\ cloud'[f] = Torn /\ \A g \in Files : g # f => cloud'[g] = cloud[g]
      /\ Torn # Absent
  BY <1>5, <1>6, ContentsAssumption
<1>8. launcher = "cloud"
  BY <1>1, <1>2, <1>3 DEF PlanOK, LocalPlan, Typed
<1>9. Typed'
  <2>1. cloud' \in [Files -> Values]
    BY <1>6 DEF Values
  <2>2. \A g \in Files : cloud'[g] \in {Absent, Torn} \cup Content(Len(jobs), g)
    BY <1>1, <1>7 DEF Typed, FilesTyped
  <2>3. FilesTyped'
    BY <1>1, <1>2, <2>1, <2>2 DEF Typed, FilesTyped
  <2>4. StepsTyped(plan, Len(jobs))'
    BY <1>1, <1>2 DEF Typed, StepsTyped
  <2> QED
    BY <1>1, <1>2, <2>3, <2>4 DEF Typed
<1>10. SubmitsOK(plan, disk, cloud, jobs, udf)'
  <2> SUFFICES ASSUME NEW s \in 1..Len(plan), plan[s].op = "submit"
               PROVE  LET i == plan[s].content IN
                      /\ i \in 1..Len(jobs)
                      /\ \A g \in Needs(jobs, i) :
                           /\ launcher = "local" => Finds(plan, disk, s, g, Value(jobs, udf, i, g))
                           /\ launcher = "cloud" =>
                                \/ \E k \in 1..(s - 1) : IsUpload(plan[k], g) /\ Serves(plan, k, i)
                                \/ Serves(plan, 1, i) /\ cloud'[g] = Value(jobs, udf, i, g)
    BY <1>2 DEF SubmitsOK
  <2>1. PICK i : i = plan[s].content
    OBVIOUS
  <2>2. i \in 1..Len(jobs)
    BY <1>1, <2>1 DEF PlanOK, SubmitsOK
  <2>3. ASSUME NEW g \in Needs(jobs, i)
        PROVE  \/ \E k \in 1..(s - 1) : IsUpload(plan[k], g) /\ Serves(plan, k, i)
               \/ Serves(plan, 1, i) /\ cloud'[g] = Value(jobs, udf, i, g)
    <3>1. \/ \E k \in 1..(s - 1) : IsUpload(plan[k], g) /\ Serves(plan, k, i)
          \/ Serves(plan, 1, i) /\ cloud[g] = Value(jobs, udf, i, g)
      BY <1>1, <1>8, <2>1 DEF PlanOK, SubmitsOK
    <3>2. g \in Files
      BY <1>1, <2>2, <2>3, JobsAre, FilesDiffer DEF Needs, Typed
    <3>3. CASE g = f /\ Serves(plan, 1, i)
      <4>1. 1 \in 1..(s - 1)
        BY <1>2, <1>3
      <4>2. IsUpload(plan[1], g)
        BY <1>2, <1>3, <1>4, <3>3 DEF IsUpload
      <4> QED
        BY <3>3, <4>1, <4>2
    <3>4. CASE g # f
      BY <1>7, <3>1, <3>2, <3>4
    <3> QED
      BY <3>1, <3>3, <3>4
  <2> QED
    BY <1>8, <2>1, <2>2, <2>3
<1>11. PlanOK'
  <2>1. UploadsOK(plan, disk, jobs, udf)'
    BY <1>1, <1>2 DEF PlanOK, UploadsOK
  <2>2. InTurn(plan)' /\ LocalPlan(plan)' /\ ToSubmit'
    BY <1>1, <1>2 DEF PlanOK, InTurn, LocalPlan, ToSubmit, Preprocessed
  <2> QED
    BY <1>10, <2>1, <2>2 DEF PlanOK
<1>12. FuncsOK' /\ JobsOK'
  BY <1>1, <1>2 DEF FuncsOK, JobsOK, Sound, Preprocessed
<1>13. ASSUME NEW i \in 1..Len(jobs)
       PROVE  /\ Alone(i)' => Alone(i)
              /\ Undisturbed(i)' => Undisturbed(i)
  BY <1>2 DEF Undisturbed, Alone, AmongEquals
<1>14. AloneOK'
  BY <1>1, <1>2 DEF AloneOK, Alone
<1>15. ASSUME NEW i \in 1..Len(jobs), jobs[i].status \in {"submitted", "loaded"}
       PROVE  o \in (i + 1)..Len(jobs) /\ o \in Followers(i)
  <2>1. o \in (i + 1)..Len(jobs)
    BY <1>5, <1>6, <1>15
  <2>2. patient => jobs[i].call = calls
    BY <1>1, <1>15 DEF JobsOK, Ended
  <2> QED
    BY <1>5, <2>1, <2>2 DEF Followers
<1>16. /\ "driver" \in Files /\ "conf" \in Files
       /\ \A i \in 1..Len(jobs) : jobs[i].file \in Files /\ jobs[i].file \in Requests
  BY <1>1, JobsAre, FilesDiffer DEF Typed
<1>17. ReadsOK'
  <2> SUFFICES ASSUME NEW i \in 1..Len(jobs)
               PROVE  ReadOK(jobs[i], Len(jobs), cloud', Followed(i), FollowedByPython(i))
    BY <1>2, ReadsKept
  <2>1. ReadOK(jobs[i], Len(jobs), cloud, Followed(i), FollowedByPython(i))
    BY <1>1 DEF ReadsOK
  <2>2. jobs[i].status \in {"submitted", "loaded"} => Followed(i)
    BY <1>15 DEF Followed
  <2>3. jobs[i].status = "submitted" /\ f = "driver" => FollowedByPython(i)
    <3>1. f = "driver" => jobs[o].python
      BY <1>5, <1>16, FilesDiffer DEF Needs
    <3> QED
      BY <1>15, <3>1 DEF FollowedByPython
  <2> QED
    BY <1>7, <1>16, <2>1, <2>2, <2>3 DEF ReadOK
<1>18. FreshOK'
  <2> SUFFICES ASSUME NEW i \in 1..Len(jobs), Undisturbed(i), jobs[i].status \in {"submitted", "loaded"}
               PROVE  ~Alone(i) /\ f # jobs[i].file
    <3>1. Place = cloud /\ Place' = cloud'
      BY <1>2, <1>8 DEF Place
    <3>2. ASSUME NEW i \in 1..Len(jobs), Undisturbed(i)
          PROVE  FreshJob(jobs[i], i, cloud', Alone(i))
      <4>1. FreshJob(jobs[i], i, cloud, Alone(i))
        BY <1>1, <3>1, <3>2 DEF FreshOK
      <4>2. jobs[i].status \in {"submitted", "loaded"} => ~Alone(i) /\ f # jobs[i].file
        BY <3>2
      <4> QED
        BY <1>7, <1>16, <4>1, <4>2 DEF FreshJob
    <3>3. ASSUME NEW i \in 1..Len(jobs), Undisturbed(i)'
          PROVE  FreshJob(jobs[i], i, Place, Alone(i))'
      <4>2. Undisturbed(i) /\ (Alone(i)' => Alone(i))
        BY <1>13, <3>3
      <4>1. FreshJob(jobs[i], i, cloud', Alone(i)) /\ (Alone(i)' => Alone(i))
        BY <3>2, <4>2
      <4> QED
        BY <1>2, <3>1, <4>1 DEF FreshJob
    <3> QED
      BY <1>2, <3>3 DEF FreshOK
  <2>1. ~Alone(i)
    BY <1>1, <1>2, <1>3 DEF AloneOK
  <2>2. o \in (i + 1)..Len(jobs)
    BY <1>15
  <2>3. jobs[o].file # jobs[i].file
    BY <2>1, <2>2 DEF Undisturbed, AmongEquals
  <2>4. f # jobs[i].file
    BY <1>5, <1>16, <2>3, FilesDiffer DEF Needs
  <2> QED
    BY <2>1, <2>4
<1> QED
  BY <1>9, <1>11, <1>12, <1>14, <1>17, <1>18 DEF IInv

\* One job gets on.
LEMMA JobChange ==
  ASSUME Typed, NEW i \in 1..Len(jobs), NEW j \in JobRecords,
         j.call = jobs[i].call, j.file = jobs[i].file, j.list = jobs[i].list,
         j.last = jobs[i].last, j.python = jobs[i].python,
         jobs' = [jobs EXCEPT ![i] = j]
  PROVE  /\ jobs' \in Seq(JobRecords) /\ Len(jobs') = Len(jobs) /\ Len(jobs) \in Nat
         /\ DOMAIN jobs = 1..Len(jobs) /\ DOMAIN jobs' = 1..Len(jobs')
         /\ SameJobs(jobs, jobs')
         /\ \A k \in 1..Len(jobs) : k # i => jobs'[k] = jobs[k]
         /\ jobs'[i] = j
<1>1. /\ jobs \in Seq(JobRecords) /\ Len(jobs) \in Nat /\ DOMAIN jobs = 1..Len(jobs)
  BY JobsAre DEF Typed
<1>2. /\ Len(jobs') = Len(jobs) /\ DOMAIN jobs' = 1..Len(jobs')
      /\ \A k \in 1..Len(jobs) : k # i => jobs'[k] = jobs[k]
      /\ jobs'[i] = j
  BY <1>1
<1>3. jobs' \in Seq(JobRecords)
  BY <1>1, <1>2
<1>4. SameJobs(jobs, jobs')
  BY <1>2 DEF SameJobs
<1> QED
  BY <1>1, <1>2, <1>3, <1>4

LEMMA SubmitIInv ==
  ASSUME IInv, Submit
  PROVE  IInv'
<1>1. /\ Typed /\ PlanOK /\ FuncsOK /\ JobsOK /\ ReadsOK /\ AloneOK /\ FreshOK
  BY DEF IInv
<1>2. PICK i : i = Head(plan).content
  OBVIOUS
<1>3. PICK st : st = Submitted(jobs[i]) /\ st = IF jobs[i].python THEN "submitted" ELSE "loaded"
  BY DEF Submitted
<1>4. /\ plan # <<>> /\ Head(plan).op = "submit" /\ plan' = Tail(plan) /\ Does("submit")
      /\ jobs' = [jobs EXCEPT ![i].status = st]
      /\ UNCHANGED <<launcher, patient, disk, cloud, udf, built, last, builds, calls>>
  BY <1>2, <1>3 DEF Submit, Does
<1>5. plan \in Seq(Steps) /\ Len(plan) \in Nat /\ 1 \in 1..Len(plan) /\ Head(plan) = plan[1]
  BY <1>1, <1>4, TailIs DEF Typed, StepsTyped
<1>6. /\ i \in 1..Len(jobs)
      /\ \A f \in Needs(jobs, i) :
           Place[f] = Value(jobs, udf, i, f) /\ Place[f] \in Content(Len(jobs), f)
      /\ \A k \in i..Len(jobs) : jobs[k].status = "preparing"
      /\ jobs[i].call = calls
      /\ jobs[i].python => udf # NoList
      /\ jobs[i].last = "done" => udf = Preprocessed(jobs[i].list)
  BY <1>1, <1>2, <1>4, HeadSubmit
<1>7. st \in Statuses /\ st \in {"submitted", "loaded"}
  BY <1>3 DEF Statuses
<1>8. /\ jobs' \in Seq(JobRecords) /\ Len(jobs') = Len(jobs) /\ Len(jobs) \in Nat
      /\ DOMAIN jobs = 1..Len(jobs) /\ DOMAIN jobs' = 1..Len(jobs')
      /\ SameJobs(jobs, jobs')
      /\ \A k \in 1..Len(jobs) : k # i => jobs'[k] = jobs[k]
      /\ jobs'[i].status = st
  <2>1. jobs[i] \in JobRecords /\ DOMAIN jobs = 1..Len(jobs)
    BY <1>1, <1>6, JobsAre DEF Typed
  <2>2. PICK j : j = [jobs[i] EXCEPT !.status = st]
    OBVIOUS
  <2>3. /\ j \in JobRecords /\ j.status = st
        /\ j.call = jobs[i].call /\ j.file = jobs[i].file /\ j.list = jobs[i].list
        /\ j.last = jobs[i].last /\ j.python = jobs[i].python
    BY <1>7, <2>1, <2>2 DEF JobRecords
  <2>4. jobs' = [jobs EXCEPT ![i] = j]
    BY <1>4, <2>2
  <2> QED
    BY <1>1, <1>6, <2>3, <2>4, JobChange
<1>9. /\ \A k \in 1..Len(jobs) :
           /\ jobs'[k].call = jobs[k].call /\ jobs'[k].file = jobs[k].file
           /\ jobs'[k].list = jobs[k].list /\ jobs'[k].last = jobs[k].last
           /\ jobs'[k].python = jobs[k].python
  BY <1>8 DEF SameJobs
<1>10. /\ Len(plan') = Len(plan) - 1
       /\ \A k \in 1..Len(plan') : k + 1 \in 1..Len(plan) /\ plan'[k] = plan[k + 1]
  BY <1>4, <1>5, TailIs
<1>11. Typed'
  <2>1. StepsTyped(Tail(plan), Len(jobs))
    BY <1>1, <1>4, StepsTypedTail DEF Typed
  <2>2. StepsTyped(plan, Len(jobs))'
    BY <1>4, <1>8, <2>1 DEF StepsTyped
  <2>3. FilesTyped'
    BY <1>1, <1>4, <1>8 DEF Typed, FilesTyped
  <2> QED
    BY <1>1, <1>4, <1>8, <2>2, <2>3 DEF Typed
<1>12. InTurn(plan)' /\ LocalPlan(plan)'
  <2>1. InTurn(Tail(plan)) /\ LocalPlan(Tail(plan))
    BY <1>1, <1>4, StepsTypedTail DEF Typed, PlanOK
  <2> QED
    BY <1>4, <2>1 DEF InTurn, LocalPlan
<1>13. UploadsOK(plan, disk, jobs, udf)' /\ SubmitsOK(plan, disk, cloud, jobs, udf)'
  <2>1. UploadsOK(plan, disk, jobs, udf) /\ SubmitsOK(plan, disk, cloud, jobs, udf) /\ InTurn(plan)
    BY <1>1 DEF PlanOK
  <2>2. plan[1].op = "submit" /\ \A g : ~IsWrite(plan[1], g)
    BY <1>4, <1>5 DEF IsWrite
  <2>3. \A g \in Files : disk[g] = IF IsWrite(plan[1], g) THEN plan[1].content ELSE disk[g]
    BY <2>2
  <2>4. UploadsOK(Tail(plan), disk, jobs', udf)
    BY <1>4, <1>5, <1>8, <2>1, <2>3, UploadsTail
  <2>5. \A k \in 1..Len(plan) : plan[k].op = "submit" => plan[k].content \in Nat
    BY <1>8, <2>1 DEF SubmitsOK
  <2>6. SubmitsOK(Tail(plan), disk, cloud, jobs', udf)
    BY <1>4, <1>5, <1>8, <2>1, <2>2, <2>5, SubmitsPastSubmit
  <2> QED
    BY <1>4, <2>4, <2>6 DEF UploadsOK, SubmitsOK
<1>14. ToSubmit'
  <2> SUFFICES ASSUME NEW s \in 1..Len(plan'), plan'[s].op = "submit"
               PROVE  LET j == plan'[s].content IN
                      /\ \A k \in j..Len(jobs) : jobs'[k].status = "preparing"
                      /\ jobs'[j].call = calls
                      /\ jobs'[j].python => udf # NoList
                      /\ jobs'[j].last = "done" => udf = Preprocessed(jobs'[j].list)
    BY <1>4, <1>8 DEF ToSubmit, Preprocessed
  <2>1. PICK j : j = plan'[s].content
    OBVIOUS
  <2>2. s + 1 \in 1..Len(plan) /\ plan[s + 1].op = "submit" /\ plan[s + 1].content = j /\ 1 < s + 1
    BY <1>10, <2>1
  <2>3. i < j
    BY <1>1, <1>2, <1>4, <1>5, <2>2 DEF PlanOK, InTurn
  <2>4. j \in 1..Len(jobs)
    BY <1>1, <2>2 DEF PlanOK, SubmitsOK
  <2>5. /\ \A k \in j..Len(jobs) : jobs[k].status = "preparing"
        /\ jobs[j].call = calls
        /\ jobs[j].python => udf # NoList
        /\ jobs[j].last = "done" => udf = Preprocessed(jobs[j].list)
    BY <1>1, <2>2 DEF PlanOK, ToSubmit
  <2>6. \A k \in j..Len(jobs) : k \in 1..Len(jobs) /\ k # i
    BY <1>6, <2>3, <2>4
  <2> QED
    BY <1>8, <1>9, <2>1, <2>4, <2>5, <2>6
<1>15. PlanOK'
  BY <1>12, <1>13, <1>14 DEF PlanOK
<1>16. FuncsOK'
  BY <1>4, TailFuncs
<1>17. JobsOK'
  <2> SUFFICES ASSUME NEW k \in 1..Len(jobs)
               PROVE  /\ jobs'[k].call <= calls
                      /\ patient /\ jobs'[k].status \notin Ended => jobs'[k].call = calls
                      /\ jobs'[k].last = "done" =>
                           /\ Sound(jobs'[k].list)
                           /\ jobs'[k].python = (Preprocessed(jobs'[k].list) # NoList)
                      /\ jobs'[k].last = "functions" => ~jobs'[k].python
                      /\ jobs'[k].status = "submitted" => jobs'[k].python
    BY <1>4, <1>8 DEF JobsOK, Sound, Preprocessed
  <2>1. CASE k = i
    BY <1>1, <1>3, <1>6, <1>8, <1>9, <2>1 DEF JobsOK
  <2>2. CASE k # i
    BY <1>1, <1>8, <2>2 DEF JobsOK
  <2> QED
    BY <2>1, <2>2
<1>18. "conf" \in Needs(jobs, i) /\ jobs[i].file \in Needs(jobs, i)
       /\ (jobs[i].python => "driver" \in Needs(jobs, i))
  BY DEF Needs
<1>19. ReadsOK'
  <2> SUFFICES ASSUME NEW k \in 1..Len(jobs)
               PROVE  ReadOK(jobs'[k], Len(jobs), cloud, Followed(k), FollowedByPython(k))
    BY <1>4, <1>8, <1>9, ReadsKept
  <2>1. CASE k = i
    <3>1. \A f \in Needs(jobs, i) : Place[f] # Absent /\ Place[f] # Torn
      BY <1>6, <1>8, ContentsDiffer
    <3>2. launcher = "cloud" => Place = cloud
      BY DEF Place
    <3> QED
      BY <1>3, <1>8, <1>9, <1>18, <2>1, <3>1, <3>2 DEF ReadOK
  <2>2. CASE k # i
    BY <1>1, <1>8, <2>2 DEF ReadsOK
  <2> QED
    BY <2>1, <2>2
<1>20. ASSUME NEW k \in 1..Len(jobs)
       PROVE  /\ Alone(k)' => Alone(k)
              /\ Undisturbed(k)' => Undisturbed(k)
  BY <1>4, <1>8, <1>9, UndisturbedBefore
<1>21. AloneOK'
  <2> SUFFICES ASSUME NEW k \in 1..Len(jobs), Alone(k), jobs'[k].status \in {"submitted", "loaded"}
               PROVE  /\ launcher = "local" => plan' = <<>>
                      /\ \A m \in 1..Len(plan') : plan'[m].op = "write"
    BY <1>4, <1>8, <1>20 DEF AloneOK
  <2>1. k = i
    <3> SUFFICES ASSUME k # i PROVE FALSE
      OBVIOUS
    <3>1. \A m \in 1..Len(plan) : plan[m].op = "write"
      BY <1>1, <1>8 DEF AloneOK
    <3> QED
      BY <1>4, <1>5, <3>1
  <2>2. \A o \in 1..Len(jobs) : jobs'[o].call = calls => o = i
    BY <1>6, <1>8, <1>9, <2>1 DEF Alone
  <2>6. jobs'[i].status # "preparing"
    BY <1>7, <1>8
  <2>3. ASSUME NEW m \in 1..Len(plan') PROVE plan'[m].op # "submit"
    <3> SUFFICES ASSUME plan'[m].op = "submit" PROVE FALSE
      OBVIOUS
    <3>1. PICK o : o = plan'[m].content
      OBVIOUS
    <3>2. o \in 1..Len(jobs)
      BY <1>8, <1>13, <3>1 DEF SubmitsOK
    <3>3. jobs'[o].call = calls /\ \A n \in o..Len(jobs) : jobs'[n].status = "preparing"
      BY <1>4, <1>8, <1>14, <3>1 DEF ToSubmit
    <3> QED
      BY <1>8, <2>2, <2>6, <3>2, <3>3
  <2>4. ASSUME NEW m \in 1..Len(plan') PROVE plan'[m].op # "upload"
    <3> SUFFICES ASSUME plan'[m].op = "upload" PROVE FALSE
      OBVIOUS
    <3>1. PICK o : Serves(plan', m, o)
      BY <1>13 DEF UploadsOK
    <3>2. PICK s \in m..Len(plan') : plan'[s].op = "submit"
      BY <3>1 DEF Serves
    <3> QED
      BY <1>5, <1>10, <2>3, <3>2
  <2>5. ASSUME NEW m \in 1..Len(plan') PROVE plan'[m].op \in {"write", "upload", "submit"}
    <3>1. m + 1 \in 1..Len(plan) /\ plan'[m] = plan[m + 1] /\ plan[m + 1] \in Steps
      BY <1>5, <1>10
    <3>2. 1 \in 1..((m + 1) - 1) /\ plan[1].op # "write"
      BY <1>4, <1>5
    <3>3. plan[m + 1].op # "assign"
      BY <1>1, <3>1, <3>2 DEF Typed, StepsTyped
    <3> QED
      BY <3>1, <3>3 DEF Steps
  <2>7. \A m \in 1..Len(plan') : plan'[m].op = "write"
    BY <2>3, <2>4, <2>5
  <2>8. ASSUME launcher = "local" PROVE plan' = <<>>
    <3> SUFFICES ASSUME plan' # <<>> PROVE FALSE
      OBVIOUS
    <3>1. plan' \in Seq(Steps)
      BY <1>4, <1>5, TailIs
    <3>2. Len(plan') \in 1..Len(plan')
      BY <3>1
    <3>3. plan[Len(plan)].op = "submit"
      BY <1>1, <1>4, <1>5, <2>8 DEF PlanOK, LocalPlan
    <3>4. plan'[Len(plan')] = plan[Len(plan)]
      BY <1>5, <1>10, <3>2
    <3> QED
      BY <2>3, <3>2, <3>3, <3>4
  <2> QED
    BY <2>7, <2>8
<1>22. FreshOK'
  <2>1. Place' = Place
    BY <1>4 DEF Place
  <2> SUFFICES ASSUME NEW k \in 1..Len(jobs), Undisturbed(k)
               PROVE  FreshJob(jobs'[k], k, Place, Alone(k))
    BY <1>8, <1>20, <2>1 DEF FreshOK, FreshJob
  <2>2. CASE k # i
    BY <1>1, <1>8, <2>2 DEF FreshOK
  <2>3. CASE k = i
    <3>1. jobs[i].last = "done"
      BY <2>3 DEF Undisturbed
    <3>2. jobs[i].file \in Requests
      BY <1>1, <1>6, JobsAre DEF Typed
    <3>3. Place["conf"] = jobs[i].list /\ Place[jobs[i].file] = i
      BY <1>6, <1>18, <3>2, FilesDiffer DEF Value
    <3>4. jobs[i].python => Place["driver"] = jobs[i].list
      BY <1>6, <1>18, <3>1 DEF Value, Preprocessed
    <3> QED
      BY <1>3, <1>8, <1>9, <2>3, <3>3, <3>4 DEF FreshJob
  <2> QED
    BY <2>2, <2>3
<1> QED
  BY <1>11, <1>15, <1>16, <1>17, <1>19, <1>21, <1>22 DEF IInv

LEMMA NoPlan ==
  ASSUME plan' = <<>>
  PROVE  PlanOK' /\ StepsTyped(plan, Len(jobs))' /\ AloneOK'
<1>1. Len(plan') = 0 /\ plan' \in Seq(Steps) /\ 1..Len(plan') = {}
  OBVIOUS
<1>2. StepsTyped(plan, Len(jobs))'
  BY <1>1 DEF StepsTyped
<1>3. PlanOK'
  BY <1>1 DEF PlanOK, UploadsOK, SubmitsOK, InTurn, LocalPlan, ToSubmit
<1>4. AloneOK'
  BY <1>1 DEF AloneOK
<1> QED
  BY <1>2, <1>3, <1>4

LEMMA AssignIInv ==
  ASSUME IInv, Assign
  PROVE  IInv'
<1>1. /\ Typed /\ PlanOK /\ FuncsOK /\ JobsOK /\ ReadsOK /\ AloneOK /\ FreshOK
  BY DEF IInv
<1>2. /\ plan # <<>> /\ Head(plan).op = "assign" /\ plan' = Tail(plan)
      /\ built' = Head(plan).content /\ last' = "done"
      /\ UNCHANGED <<launcher, patient, disk, cloud, udf, jobs, builds, calls>>
  BY DEF Assign, Does
<1>3. plan \in Seq(Steps) /\ Len(plan) \in Nat /\ 1 \in 1..Len(plan) /\ Head(plan) = plan[1]
  BY <1>1, <1>2, TailIs DEF Typed, StepsTyped
<1>4. Head(plan).content \in Lists /\ 1 = Len(plan)
  BY <1>1, <1>2, <1>3 DEF Typed, StepsTyped
<1>5. plan' = <<>>
  <2>1. plan' \in Seq(Steps) /\ Len(plan') = 0
    BY <1>2, <1>3, <1>4, TailIs
  <2> QED
    BY <2>1
<1>6. Typed'
  <2>1. FilesTyped'
    BY <1>1, <1>2 DEF Typed, FilesTyped
  <2>2. last' \in Outcomes
    BY <1>2 DEF Outcomes
  <2> QED
    BY <1>1, <1>2, <1>4, <1>5, <2>1, <2>2, NoPlan DEF Typed
<1>7. FuncsOK'
  <2>1. Sound(Head(plan).content) /\ udf = Preprocessed(Head(plan).content)
    BY <1>1, <1>2, <1>3 DEF FuncsOK
  <2>2. Sound(built') /\ udf' = Preprocessed(built') /\ built' \in Lists
    BY <1>2, <1>4, <2>1
  <2> QED
    BY <1>2, <1>5, <2>2 DEF FuncsOK, Sound, Preprocessed
<1>8. JobsOK'
  BY <1>1, <1>2 DEF JobsOK, Sound, Preprocessed
<1>9. ReadsOK' /\ FreshOK'
  BY <1>1, <1>2, ReadsStay, FreshStay
<1> QED
  BY <1>5, <1>6, <1>7, <1>8, <1>9, NoPlan DEF IInv

LEMMA SubmissionFailsIInv ==
  ASSUME IInv, SubmissionFails
  PROVE  IInv'
<1>1. /\ Typed /\ PlanOK /\ FuncsOK /\ JobsOK /\ ReadsOK /\ AloneOK /\ FreshOK
  BY DEF IInv
<1>2. /\ plan # <<>> /\ Head(plan).op \in {"upload", "submit"} /\ plan' = <<>>
      /\ jobs' = [i \in DOMAIN jobs |->
                    IF jobs[i].status = "preparing" THEN [jobs[i] EXCEPT !.status = "refused"]
                    ELSE jobs[i]]
      /\ UNCHANGED <<launcher, patient, disk, cloud, udf, built, last, builds, calls>>
  BY DEF SubmissionFails
<1>3. plan \in Seq(Steps) /\ Len(plan) \in Nat /\ 1 \in 1..Len(plan) /\ Head(plan) = plan[1]
  BY <1>1, <1>2, TailIs DEF Typed, StepsTyped
<1>4. Len(jobs) \in Nat /\ DOMAIN jobs = 1..Len(jobs) /\ \A i \in 1..Len(jobs) : jobs[i] \in JobRecords
  BY <1>1, JobsAre DEF Typed
<1>5. ASSUME NEW i \in 1..Len(jobs)
      PROVE  /\ jobs'[i] \in JobRecords
             /\ jobs'[i].call = jobs[i].call /\ jobs'[i].file = jobs[i].file
             /\ jobs'[i].list = jobs[i].list /\ jobs'[i].last = jobs[i].last
             /\ jobs'[i].python = jobs[i].python
             /\ \/ jobs'[i] = jobs[i] /\ jobs[i].status # "preparing"
                \/ jobs'[i].status = "refused"
  <2>1. CASE jobs[i].status = "preparing"
    <3>1. jobs'[i] = [jobs[i] EXCEPT !.status = "refused"] /\ "refused" \in Statuses
      BY <1>2, <1>4, <2>1 DEF Statuses, Ended
    <3> QED
      BY <1>4, <3>1 DEF JobRecords
  <2>2. CASE jobs[i].status # "preparing"
    <3>1. jobs'[i] = jobs[i]
      BY <1>2, <1>4, <2>2
    <3> QED
      BY <1>4, <2>2, <3>1
  <2> QED
    BY <2>1, <2>2
<1>6. jobs' \in Seq(JobRecords) /\ Len(jobs') = Len(jobs) /\ DOMAIN jobs' = 1..Len(jobs')
  <2>1. DOMAIN jobs' = 1..Len(jobs) /\ jobs' = [i \in 1..Len(jobs) |-> jobs'[i]]
    BY <1>2, <1>4
  <2> QED
    BY <1>4, <1>5, <2>1
<1>7. Typed'
  <2>1. FilesTyped'
    BY <1>1, <1>2, <1>6 DEF Typed, FilesTyped
  <2> QED
    BY <1>1, <1>2, <1>6, <2>1, NoPlan DEF Typed
<1>8. FuncsOK'
  <2>1. ASSUME NEW k \in 1..Len(plan) PROVE plan[k].op # "assign"
    <3> SUFFICES ASSUME plan[k].op = "assign" PROVE FALSE
      OBVIOUS
    <3>1. \A m \in 1..(k - 1) : plan[m].op = "write"
      BY <1>1 DEF Typed, StepsTyped
    <3>2. k # 1
      BY <1>2, <1>3
    <3>3. 1 \in 1..(k - 1)
      BY <3>2
    <3> QED
      BY <1>2, <1>3, <3>1, <3>3
  <2>2. Len(plan') = 0
    BY <1>2
  <2>3. /\ last' = "done" => built' \in Lists /\ Sound(built') /\ udf' = Preprocessed(built')
        /\ last' = "functions" => udf' = NoList
    BY <1>1, <1>2, <2>1 DEF FuncsOK
  <2> QED
    BY <2>2, <2>3 DEF FuncsOK, Sound, Preprocessed
<1>9. JobsOK'
  <2> SUFFICES ASSUME NEW k \in 1..Len(jobs)
               PROVE  /\ jobs'[k].call <= calls
                      /\ patient /\ jobs'[k].status \notin Ended => jobs'[k].call = calls
                      /\ jobs'[k].last = "done" =>
                           /\ Sound(jobs'[k].list)
                           /\ jobs'[k].python = (Preprocessed(jobs'[k].list) # NoList)
                      /\ jobs'[k].last = "functions" => ~jobs'[k].python
                      /\ jobs'[k].status = "submitted" => jobs'[k].python
    BY <1>2, <1>6 DEF JobsOK, Sound, Preprocessed
  <2> QED
    BY <1>1, <1>5 DEF JobsOK, Ended
<1>10. ReadsOK'
  <2> SUFFICES ASSUME NEW k \in 1..Len(jobs)
               PROVE  ReadOK(jobs'[k], Len(jobs), cloud, Followed(k), FollowedByPython(k))
    BY <1>2, <1>4, <1>5, <1>6, ReadsKept
  <2> QED
    BY <1>1, <1>5 DEF ReadsOK, ReadOK
<1>11. FreshOK'
  <2>1. Place' = Place
    BY <1>2 DEF Place
  <2>2. \A k \in 1..Len(jobs) : (Undisturbed(k)' => Undisturbed(k)) /\ (Alone(k)' => Alone(k))
    BY <1>2, <1>4, <1>5, <1>6, UndisturbedBefore
  <2> SUFFICES ASSUME NEW k \in 1..Len(jobs), Undisturbed(k)
               PROVE  FreshJob(jobs'[k], k, Place, Alone(k))
    BY <1>6, <2>1, <2>2 DEF FreshOK, FreshJob
  <2> QED
    BY <1>1, <1>5 DEF FreshOK, FreshJob
<1> QED
  BY <1>2, <1>7, <1>8, <1>9, <1>10, <1>11, NoPlan DEF IInv

\* What the plan needs is not changed by a job that gets on.
LEMMA PlanKept ==
  ASSUME NEW p, NEW d, NEW c, NEW u, NEW js, NEW ks, SameJobs(js, ks)
  PROVE  /\ UploadsOK(p, d, js, u) => UploadsOK(p, d, ks, u)
         /\ SubmitsOK(p, d, c, js, u) => SubmitsOK(p, d, c, ks, u)
<1>1. ASSUME UploadsOK(p, d, js, u) PROVE UploadsOK(p, d, ks, u)
  <2> SUFFICES ASSUME NEW k \in 1..Len(p), p[k].op = "upload"
               PROVE  \E i \in 1..Len(ks) :
                        /\ Serves(p, k, i) /\ p[k].file \in Needs(ks, i)
                        /\ Finds(p, d, k, p[k].file, Value(ks, u, i, p[k].file))
    BY DEF UploadsOK
  <2>1. PICK i \in 1..Len(js) :
          /\ Serves(p, k, i) /\ p[k].file \in Needs(js, i)
          /\ Finds(p, d, k, p[k].file, Value(js, u, i, p[k].file))
    BY <1>1 DEF UploadsOK
  <2>2. /\ i \in 1..Len(ks) /\ p[k].file \in Needs(ks, i)
        /\ Value(ks, u, i, p[k].file) = Value(js, u, i, p[k].file)
    BY <2>1, SameNeeds
  <2> QED
    BY <2>1, <2>2
<1>2. ASSUME SubmitsOK(p, d, c, js, u) PROVE SubmitsOK(p, d, c, ks, u)
  <2> SUFFICES ASSUME NEW s \in 1..Len(p), p[s].op = "submit"
               PROVE  LET i == p[s].content IN
                      /\ i \in 1..Len(ks)
                      /\ \A f \in Needs(ks, i) :
                           /\ launcher = "local" => Finds(p, d, s, f, Value(ks, u, i, f))
                           /\ launcher = "cloud" =>
                                \/ \E k \in 1..(s - 1) : IsUpload(p[k], f) /\ Serves(p, k, i)
                                \/ Serves(p, 1, i) /\ c[f] = Value(ks, u, i, f)
    BY DEF SubmitsOK
  <2>1. PICK i : i = p[s].content
    OBVIOUS
  <2>2. /\ i \in 1..Len(js)
        /\ \A f \in Needs(js, i) :
             /\ launcher = "local" => Finds(p, d, s, f, Value(js, u, i, f))
             /\ launcher = "cloud" =>
                  \/ \E k \in 1..(s - 1) : IsUpload(p[k], f) /\ Serves(p, k, i)
                  \/ Serves(p, 1, i) /\ c[f] = Value(js, u, i, f)
    BY <1>2, <2>1 DEF SubmitsOK
  <2>3. /\ i \in 1..Len(ks) /\ Needs(ks, i) = Needs(js, i)
        /\ \A f : Value(ks, u, i, f) = Value(js, u, i, f)
    BY <2>2, SameNeeds
  <2> QED
    BY <2>1, <2>2, <2>3
<1> QED
  BY <1>1, <1>2

\* What a step of job i has to respect.
Keeps(i, j) ==
  /\ j \in JobRecords
  /\ j.call = jobs[i].call /\ j.file = jobs[i].file /\ j.list = jobs[i].list
  /\ j.last = jobs[i].last /\ j.python = jobs[i].python
  /\ j.status \in {"loaded", "ran", "failed", "void"}
  /\ j.status \in {"loaded", "ran"} /\ j.python => j.program \in Lists
  /\ j.status = "ran" => j.conf \in Lists /\ j.request \in 1..Len(jobs)
  /\ launcher = "cloud" =>
       /\ j.status = "void" => FollowedByPython(i)
       /\ j.status = "failed" => Followed(i)
  /\ Undisturbed(i) =>
       /\ j.status \in {"loaded", "ran"} /\ j.python => j.program = j.list
       /\ j.status = "ran" => j.conf = j.list /\ j.request = i
       /\ Alone(i) => j.status \notin {"failed", "void"}

LEMMA JobGetsOn ==
  ASSUME IInv, NEW i \in 1..Len(jobs), jobs[i].status \in {"submitted", "loaded"},
         NEW j, Keeps(i, j), jobs' = [jobs EXCEPT ![i] = j],
         UNCHANGED <<launcher, patient, disk, cloud, udf, built, last, plan, builds, calls>>
  PROVE  IInv'
<1>1. /\ Typed /\ PlanOK /\ FuncsOK /\ JobsOK /\ ReadsOK /\ AloneOK /\ FreshOK
  BY DEF IInv
<1>2. /\ jobs' \in Seq(JobRecords) /\ Len(jobs') = Len(jobs) /\ Len(jobs) \in Nat
      /\ DOMAIN jobs = 1..Len(jobs) /\ DOMAIN jobs' = 1..Len(jobs')
      /\ SameJobs(jobs, jobs')
      /\ \A k \in 1..Len(jobs) : k # i => jobs'[k] = jobs[k]
      /\ jobs'[i] = j
  BY <1>1, JobChange DEF Keeps
<1>3. /\ \A k \in 1..Len(jobs) :
           /\ jobs'[k].call = jobs[k].call /\ jobs'[k].file = jobs[k].file
           /\ jobs'[k].list = jobs[k].list /\ jobs'[k].last = jobs[k].last
           /\ jobs'[k].python = jobs[k].python
  BY <1>2 DEF SameJobs
<1>4. Typed'
  <2>1. FilesTyped' /\ StepsTyped(plan, Len(jobs))'
    BY <1>1, <1>2 DEF Typed, FilesTyped, StepsTyped
  <2> QED
    BY <1>1, <1>2, <2>1 DEF Typed
<1>5. ToSubmit'
  <2> SUFFICES ASSUME NEW s \in 1..Len(plan), plan[s].op = "submit"
               PROVE  LET o == plan[s].content IN
                      /\ \A k \in o..Len(jobs) : jobs'[k].status = "preparing"
                      /\ jobs'[o].call = calls
                      /\ jobs'[o].python => udf # NoList
                      /\ jobs'[o].last = "done" => udf = Preprocessed(jobs'[o].list)
    BY <1>2 DEF ToSubmit, Preprocessed
  <2>1. PICK o : o = plan[s].content
    OBVIOUS
  <2>2. o \in 1..Len(jobs)
    BY <1>1, <2>1 DEF PlanOK, SubmitsOK
  <2>3. /\ \A k \in o..Len(jobs) : jobs[k].status = "preparing"
        /\ jobs[o].call = calls
        /\ jobs[o].python => udf # NoList
        /\ jobs[o].last = "done" => udf = Preprocessed(jobs[o].list)
    BY <1>1, <2>1 DEF PlanOK, ToSubmit
  <2>4. \A k \in o..Len(jobs) : k \in 1..Len(jobs) /\ k # i
    BY <1>2, <2>2, <2>3
  <2> QED
    BY <1>2, <1>3, <2>1, <2>2, <2>3, <2>4
<1>6. PlanOK'
  <2>1. UploadsOK(plan, disk, jobs', udf) /\ SubmitsOK(plan, disk, cloud, jobs', udf)
    BY <1>1, <1>2, PlanKept DEF PlanOK
  <2>2. UploadsOK(plan, disk, jobs, udf)' /\ SubmitsOK(plan, disk, cloud, jobs, udf)'
    BY <2>1 DEF UploadsOK, SubmitsOK
  <2>3. InTurn(plan)' /\ LocalPlan(plan)'
    BY <1>1 DEF PlanOK, InTurn, LocalPlan
  <2> QED
    BY <1>5, <2>2, <2>3 DEF PlanOK
<1>7. FuncsOK'
  BY <1>1 DEF FuncsOK, Sound, Preprocessed
<1>8. JobsOK'
  <2> SUFFICES ASSUME NEW k \in 1..Len(jobs)
               PROVE  /\ jobs'[k].call <= calls
                      /\ patient /\ jobs'[k].status \notin Ended => jobs'[k].call = calls
                      /\ jobs'[k].last = "done" =>
                           /\ Sound(jobs'[k].list)
                           /\ jobs'[k].python = (Preprocessed(jobs'[k].list) # NoList)
                      /\ jobs'[k].last = "functions" => ~jobs'[k].python
                      /\ jobs'[k].status = "submitted" => jobs'[k].python
    BY <1>2 DEF JobsOK, Sound, Preprocessed
  <2>1. jobs'[k].status = "submitted" => jobs[k].status = "submitted"
    BY <1>2 DEF Keeps
  <2>2. jobs'[k].status \notin Ended => jobs[k].status \notin Ended
    BY <1>2 DEF Ended
  <2> QED
    BY <1>1, <1>3, <2>1, <2>2 DEF JobsOK
<1>9. ReadsOK'
  <2> SUFFICES ASSUME NEW k \in 1..Len(jobs)
               PROVE  ReadOK(jobs'[k], Len(jobs), cloud, Followed(k), FollowedByPython(k))
    BY <1>2, <1>3, ReadsKept
  <2>1. CASE k # i
    BY <1>1, <1>2, <2>1 DEF ReadsOK
  <2>2. CASE k = i
    <3>1. ReadOK(jobs[i], Len(jobs), cloud, Followed(i), FollowedByPython(i))
      BY <1>1 DEF ReadsOK
    <3> QED
      BY <1>2, <1>3, <2>2, <3>1 DEF Keeps, ReadOK
  <2> QED
    BY <2>1, <2>2
<1>10. ASSUME NEW k \in 1..Len(jobs)
       PROVE  /\ Alone(k)' => Alone(k)
              /\ Undisturbed(k)' => Undisturbed(k)
  BY <1>2, <1>3, UndisturbedBefore
<1>11. AloneOK'
  <2>1. \A k \in 1..Len(jobs) :
          jobs'[k].status \in {"submitted", "loaded"} => jobs[k].status \in {"submitted", "loaded"}
    BY <1>2
  <2> QED
    BY <1>1, <1>2, <1>10, <2>1 DEF AloneOK
<1>12. FreshOK'
  <2>1. Place' = Place
    BY DEF Place
  <2> SUFFICES ASSUME NEW k \in 1..Len(jobs), Undisturbed(k)
               PROVE  FreshJob(jobs'[k], k, Place, Alone(k))
    BY <1>2, <1>10, <2>1 DEF FreshOK, FreshJob
  <2>2. CASE k # i
    BY <1>1, <1>2, <2>2 DEF FreshOK
  <2>3. CASE k = i
    <3>1. FreshJob(jobs[i], i, Place, Alone(i))
      BY <1>1, <2>3 DEF FreshOK
    <3> QED
      BY <1>2, <1>3, <2>3, <3>1 DEF Keeps, FreshJob
  <2> QED
    BY <2>2, <2>3
<1> QED
  BY <1>4, <1>6, <1>7, <1>8, <1>9, <1>11, <1>12 DEF IInv

\* What a job reads when its turn comes.
LEMMA PlaceIs ==
  ASSUME Typed, NEW f \in Files
  PROVE  /\ Place[f] \in {Absent, Torn} \cup Content(Len(jobs), f)
         /\ Place[f] \in Values
BY DEF Typed, FilesTyped, Place

LEMMA LoadIInv ==
  ASSUME IInv, NEW i \in 1..Len(jobs), Load(i),
         UNCHANGED <<launcher, patient, disk, cloud, udf, built, last, plan, builds, calls>>
  PROVE  IInv'
<1>1. /\ Typed /\ PlanOK /\ FuncsOK /\ JobsOK /\ ReadsOK /\ AloneOK /\ FreshOK
  BY DEF IInv
<1>2. PICK prog : prog = Place["driver"]
  OBVIOUS
<1>3. PICK st : st = CASE prog = Absent -> "failed" [] prog = Torn -> "void" [] OTHER -> "loaded"
  OBVIOUS
<1>4. /\ jobs[i].status = "submitted" /\ jobs \in Seq(JobRecords)
      /\ jobs' = [jobs EXCEPT ![i].program = prog, ![i].status = st]
  BY <1>1, <1>2, <1>3 DEF Load, Typed
<1>5. PICK j : j = [jobs[i] EXCEPT !.program = prog, !.status = st]
  OBVIOUS
<1>6. jobs[i] \in JobRecords /\ DOMAIN jobs = 1..Len(jobs) /\ jobs[i].file \in Requests
  BY <1>4, JobsAre
<1>7. jobs' = [jobs EXCEPT ![i] = j]
  BY <1>4, <1>5, <1>6
<1>8. /\ prog \in {Absent, Torn} \cup Lists /\ prog \in Values
  BY <1>1, <1>2, PlaceIs, FilesDiffer DEF Content
<1>9. \A l \in Lists : l # Absent /\ l # Torn
  BY ContentsDiffer
<1>10. /\ st \in {"loaded", "failed", "void"}
       /\ st = "loaded" <=> prog \in Lists
       /\ prog = Absent <=> st = "failed"
       /\ prog = Torn <=> st = "void"
       /\ Absent # Torn
  BY <1>3, <1>8, <1>9, ContentsAssumption
<1>11. /\ j \in JobRecords /\ j.status = st /\ j.program = prog
       /\ j.call = jobs[i].call /\ j.file = jobs[i].file /\ j.list = jobs[i].list
       /\ j.last = jobs[i].last /\ j.python = jobs[i].python
  <2>1. st \in Statuses
    BY <1>10 DEF Statuses, Ended
  <2> QED
    BY <1>5, <1>6, <1>8, <2>1 DEF JobRecords
<1>12. launcher = "cloud" => st # "failed" /\ (st = "void" => FollowedByPython(i))
  <2>1. ReadOK(jobs[i], Len(jobs), cloud, Followed(i), FollowedByPython(i))
    BY <1>1 DEF ReadsOK
  <2> QED
    BY <1>2, <1>4, <1>10, <2>1 DEF ReadOK, Place
<1>13. Undisturbed(i) => prog = jobs[i].list \/ (~Alone(i) /\ prog = Torn)
  BY <1>1, <1>2, <1>4 DEF FreshOK, FreshJob
<1>15. jobs[i].list \in Lists
  BY <1>4, JobsAre
<1>14. Keeps(i, j)
  BY <1>9, <1>10, <1>11, <1>12, <1>13, <1>15 DEF Keeps
<1> QED
  BY <1>4, <1>7, <1>14, JobGetsOn

LEMMA RunIInv ==
  ASSUME IInv, NEW i \in 1..Len(jobs), Run(i),
         UNCHANGED <<launcher, patient, disk, cloud, udf, built, last, plan, builds, calls>>
  PROVE  IInv'
<1>1. /\ Typed /\ PlanOK /\ FuncsOK /\ JobsOK /\ ReadsOK /\ AloneOK /\ FreshOK
  BY DEF IInv
<1>2. PICK asks : asks = Place[jobs[i].file]
  OBVIOUS
<1>3. PICK con : con = Place["conf"]
  OBVIOUS
<1>4. PICK st : st = IF con \in Unreadable \/ asks \in Unreadable THEN "failed" ELSE "ran"
  OBVIOUS
<1>5. /\ jobs[i].status = "loaded" /\ jobs \in Seq(JobRecords)
      /\ jobs' = [jobs EXCEPT ![i].conf = con, ![i].request = asks, ![i].status = st]
  BY <1>1, <1>2, <1>3, <1>4 DEF Run, Typed
<1>6. PICK j : j = [jobs[i] EXCEPT !.conf = con, !.request = asks, !.status = st]
  OBVIOUS
<1>7. /\ jobs[i] \in JobRecords /\ DOMAIN jobs = 1..Len(jobs) /\ jobs[i].file \in Requests
      /\ jobs[i].list \in Lists /\ Len(jobs) \in Nat
  BY <1>5, JobsAre
<1>8. jobs' = [jobs EXCEPT ![i] = j]
  BY <1>5, <1>6, <1>7
<1>9. /\ con \in {Absent, Torn} \cup Lists /\ con \in Values
  BY <1>1, <1>3, PlaceIs, FilesDiffer DEF Content
<1>10. /\ asks \in {Absent, Torn} \cup 1..Len(jobs) /\ asks \in Values
  BY <1>1, <1>2, <1>7, PlaceIs, FilesDiffer DEF Content
<1>11. /\ \A l \in Lists : l # Absent /\ l # Torn
       /\ \A n \in 1..Len(jobs) : n # Absent /\ n # Torn
  BY <1>7, ContentsDiffer
<1>12. /\ st \in {"ran", "failed"}
       /\ st = "ran" <=> con \in Lists /\ asks \in 1..Len(jobs)
  BY <1>4, <1>9, <1>10, <1>11 DEF Unreadable
<1>13. /\ j \in JobRecords /\ j.status = st /\ j.program = jobs[i].program
       /\ j.conf = con /\ j.request = asks
       /\ j.call = jobs[i].call /\ j.file = jobs[i].file /\ j.list = jobs[i].list
       /\ j.last = jobs[i].last /\ j.python = jobs[i].python
  <2>1. st \in Statuses
    BY <1>12 DEF Statuses, Ended
  <2> QED
    BY <1>6, <1>7, <1>9, <1>10, <2>1 DEF JobRecords
<1>18. ReadOK(jobs[i], Len(jobs), cloud, Followed(i), FollowedByPython(i))
  BY <1>1 DEF ReadsOK
<1>14. launcher = "cloud" /\ st = "failed" => Followed(i)
  <2>1. launcher = "cloud" => \A g \in {con, asks} : g # Absent /\ (g = Torn => Followed(i))
    BY <1>2, <1>3, <1>5, <1>18 DEF ReadOK, Place
  <2> QED
    BY <1>9, <1>10, <1>12, <2>1
<1>15. jobs[i].python => jobs[i].program \in Lists
  BY <1>5, <1>18 DEF ReadOK
<1>16. Undisturbed(i) =>
         /\ con = jobs[i].list \/ (~Alone(i) /\ con = Torn)
         /\ asks = i /\ (jobs[i].python => jobs[i].program = jobs[i].list)
  BY <1>1, <1>2, <1>3, <1>5 DEF FreshOK, FreshJob
<1>17. Keeps(i, j)
  BY <1>7, <1>11, <1>12, <1>13, <1>14, <1>15, <1>16 DEF Keeps
<1> QED
  BY <1>5, <1>8, <1>17, JobGetsOn

LEMMA JobIInv ==
  ASSUME IInv, Job
  PROVE  IInv'
<1>1. DOMAIN jobs = 1..Len(jobs)
  BY JobsAre DEF IInv, Typed
<1> QED
  BY <1>1, LoadIInv, RunIInv DEF Job

\* When the user is free to call, no job runs alone.
LEMMA FreeIdle ==
  ASSUME IInv, Free, NEW i \in 1..Len(jobs), Alone(i)
  PROVE  jobs[i].status \in Ended
BY JobsAre DEF IInv, Typed, Free, Alone

\* A call that starts no job, or has not got that far.
LEMMA QuietCall ==
  ASSUME IInv, Free, UNCHANGED <<launcher, patient, cloud, jobs>>,
         \A k \in 1..Len(plan') : plan'[k].op \notin {"upload", "submit"},
         Typed', FuncsOK', calls <= calls'
  PROVE  IInv'
<1>1. /\ Typed /\ PlanOK /\ FuncsOK /\ JobsOK /\ ReadsOK /\ AloneOK /\ FreshOK
  BY DEF IInv
<1>2. /\ Len(jobs) \in Nat /\ DOMAIN jobs = 1..Len(jobs)
      /\ \A i \in 1..Len(jobs) : jobs[i].call \in Nat
  BY <1>1, JobsAre DEF Typed
<1>3. \A i \in 1..Len(jobs) : (Alone(i)' => Alone(i)) /\ (Undisturbed(i)' => Undisturbed(i))
  BY DEF Undisturbed, Alone, AmongEquals
<1>4. PlanOK'
  BY DEF PlanOK, UploadsOK, SubmitsOK, InTurn, LocalPlan, ToSubmit
<1>5. JobsOK'
  <2>1. calls \in Int /\ calls' \in Int
    BY <1>1 DEF Typed
  <2>2. \A i \in 1..Len(jobs) : patient => jobs[i].status \in Ended
    BY <1>2 DEF Free
  <2>3. \A i \in 1..Len(jobs) : jobs[i].call <= calls'
    BY <1>1, <1>2, <2>1 DEF JobsOK
  <2> QED
    BY <1>1, <2>2, <2>3 DEF JobsOK, Sound, Preprocessed
<1>6. ReadsOK'
  BY <1>1, ReadsStay
<1>7. \A i \in 1..Len(jobs) : Alone(i) => jobs[i].status \notin {"submitted", "loaded"}
  BY FreeIdle DEF Ended
<1>8. AloneOK'
  BY <1>3, <1>7 DEF AloneOK
<1>9. FreshOK'
  <2> SUFFICES ASSUME NEW i \in 1..Len(jobs), Undisturbed(i)
               PROVE  Place' = Place \/ jobs[i].status \notin {"submitted", "loaded"}
    BY <1>1, <1>3 DEF FreshOK, FreshJob
  <2>1. CASE Alone(i)
    BY <1>7, <2>1
  <2>2. CASE AmongEquals(i)
    BY <2>2 DEF AmongEquals, Place
  <2> QED
    BY <2>1, <2>2 DEF Undisturbed
<1> QED
  BY <1>4, <1>5, <1>6, <1>8, <1>9 DEF IInv

\* A file of the configurations or of the functions is written from a list.
LEMMA WriteIs ==
  ASSUME NEW f \in {"driver", "conf"}, NEW l \in Lists, NEW n \in Nat
  PROVE  /\ Write(f, l) = <<Step("write", f, Torn), Step("write", f, l)>>
         /\ StepsTyped(Write(f, l), n)
         /\ \A k \in 1..Len(Write(f, l)) : Write(f, l)[k].op = "write"
<1>1. Write(f, l) = <<Step("write", f, Torn), Step("write", f, l)>>
  BY DEF Write
<1>2. f \in Files /\ Torn \in Values /\ l \in Values
  BY FilesDiffer DEF Values
<1>3. Step("write", f, Torn) \in Steps /\ Step("write", f, l) \in Steps
  BY <1>2 DEF Step, Steps
<1>4. /\ Step("write", f, Torn).op = "write" /\ Step("write", f, l).op = "write"
      /\ Step("write", f, Torn).content = Torn /\ Step("write", f, l).content = l
      /\ Step("write", f, l).file = f
  BY DEF Step
<1>5. l \in Content(n, f)
  BY DEF Content
<1>6. /\ Len(Write(f, l)) = 2 /\ Write(f, l)[1] = Step("write", f, Torn)
      /\ Write(f, l)[2] = Step("write", f, l) /\ Write(f, l) \in Seq(Steps)
  BY <1>1, <1>3
<1> QED
  BY <1>1, <1>4, <1>5, <1>6 DEF StepsTyped

LEMMA RegisterFeaturesIInv ==
  ASSUME IInv, RegisterFeatures
  PROVE  IInv'
<1>1. Typed /\ FuncsOK /\ Len(jobs) \in Nat
  BY JobsAre DEF IInv, Typed
<1>2. /\ Free /\ plan = <<>> /\ built \in Lists /\ plan' = Write("conf", built)
      /\ UNCHANGED <<launcher, patient, disk, cloud, udf, built, last, jobs, builds, calls>>
  BY <1>1 DEF RegisterFeatures, Free, Typed
<1>3. StepsTyped(plan', Len(jobs)) /\ \A k \in 1..Len(plan') : plan'[k].op = "write"
  BY <1>1, <1>2, WriteIs
<1>4. Typed'
  <2>1. StepsTyped(plan, Len(jobs))' /\ FilesTyped'
    BY <1>1, <1>2, <1>3 DEF StepsTyped, Typed, FilesTyped
  <2> QED
    BY <1>1, <1>2, <2>1 DEF Typed
<1>5. FuncsOK'
  <2>1. Len(plan) = 0
    BY <1>2
  <2> QED
    BY <1>1, <1>2, <1>3, <2>1 DEF FuncsOK, Sound, Preprocessed
<1>6. calls <= calls'
  BY <1>1, <1>2 DEF Typed
<1> QED
  BY <1>2, <1>3, <1>4, <1>5, <1>6, QuietCall

LEMMA BuildIInv ==
  ASSUME IInv, NEW l \in Lists, Build(l)
  PROVE  IInv'
<1>1. Typed /\ FuncsOK /\ Len(jobs) \in Nat
  BY JobsAre DEF IInv, Typed
<1>2. /\ Free /\ plan = <<>> /\ builds < MaxBuilds /\ builds' = builds + 1
      /\ disk' = [disk EXCEPT !["driver"] = Absent]
      /\ udf' = Preprocessed(l)
      /\ UNCHANGED <<launcher, patient, cloud, built, jobs, calls>>
  BY DEF Build, Free
<1>3. \/ ~Sound(l) /\ last' = "functions" /\ plan' = <<>>
      \/ Sound(l) /\ last' = "types" /\ plan' = <<>>
      \/ /\ Sound(l) /\ last' = last
         /\ plan' = Write("conf", l) \o <<Step("assign", "conf", l)>>
  BY <1>2 DEF Build, Sound
<1>4. udf' \in Lists \cup {NoList} /\ (~Sound(l) => udf' = NoList)
  BY <1>2 DEF Preprocessed, Sound
<1>5. FilesTyped'
  <2>1. "driver" \in Files /\ Absent \in Values
    BY FilesDiffer DEF Values
  <2> QED
    BY <1>1, <1>2, <2>1 DEF Typed, FilesTyped
<1>6. builds' \in 0..MaxBuilds
  BY <1>1, <1>2, BoundsAssumption DEF Typed
<1>7. calls <= calls'
  BY <1>1, <1>2 DEF Typed
<1>8. CASE plan' = <<>>
  <2>1. /\ last' \in {"functions", "types"} /\ (last' = "functions" => udf' = NoList)
    <3>1. plan' # Write("conf", l) \o <<Step("assign", "conf", l)>>
      BY <1>8 DEF Write
    <3> QED
      BY <1>3, <1>4, <3>1
  <2>2. Len(plan') = 0
    BY <1>8
  <2>3. FuncsOK'
    BY <2>1, <2>2 DEF FuncsOK
  <2>4. Typed'
    BY <1>1, <1>2, <1>4, <1>5, <1>6, <1>8, <2>1, NoPlan DEF Typed, Outcomes
  <2> QED
    BY <1>2, <1>7, <2>2, <2>3, <2>4, QuietCall
<1>9. CASE plan' # <<>>
  <2>1. /\ Sound(l) /\ last' = last
        /\ plan' = <<Step("write", "conf", Torn), Step("write", "conf", l), Step("assign", "conf", l)>>
    BY <1>3, <1>9 DEF Write
  <2>2. /\ Len(plan') = 3 /\ plan'[1] = Step("write", "conf", Torn)
        /\ plan'[2] = Step("write", "conf", l) /\ plan'[3] = Step("assign", "conf", l)
    BY <2>1
  <2>3. /\ Step("write", "conf", Torn) \in Steps /\ Step("write", "conf", l) \in Steps
        /\ Step("assign", "conf", l) \in Steps
    <3>1. "conf" \in Files /\ Torn \in Values /\ l \in Values
      BY FilesDiffer DEF Values
    <3> QED
      BY <3>1 DEF Step, Steps
  <2>4. plan' \in Seq(Steps)
    BY <2>1, <2>3
  <2>5. \A k \in 1..Len(plan') : k = 1 \/ k = 2 \/ k = 3
    BY <2>2
  <2>6. /\ plan'[1].op = "write" /\ plan'[2].op = "write" /\ plan'[3].op = "assign"
        /\ plan'[1].content = Torn /\ plan'[2].content = l /\ plan'[3].content = l
        /\ plan'[2].file = "conf"
    BY <2>2 DEF Step
  <2>7. StepsTyped(plan, Len(jobs))'
    <3>1. l \in Content(Len(jobs'), "conf")
      BY DEF Content
    <3>2. \A m \in 1..(3 - 1) : m = 1 \/ m = 2
      OBVIOUS
    <3> QED
      BY <2>2, <2>4, <2>5, <2>6, <3>1, <3>2 DEF StepsTyped
  <2>8. \A k \in 1..Len(plan') : plan'[k].op \notin {"upload", "submit"}
    BY <2>5, <2>6
  <2>9. FuncsOK'
    <3>1. 3 \in 1..Len(plan')
      BY <2>2
    <3>2. \A k \in 1..Len(plan') : plan'[k].op = "assign" => plan'[k].content = l
      BY <2>5, <2>6
    <3>3. \A k \in 1..Len(plan') : plan'[k].op = "assign" =>
            Sound(plan'[k].content) /\ udf' = Preprocessed(plan'[k].content)
      BY <1>2, <2>1, <3>2
    <3> QED
      BY <2>6, <3>1, <3>3 DEF FuncsOK, Sound, Preprocessed
  <2>10. Typed'
    BY <1>1, <1>2, <1>4, <1>5, <1>6, <2>1, <2>7 DEF Typed
  <2> QED
    BY <1>2, <1>7, <2>8, <2>9, <2>10, QuietCall
<1> QED
  BY <1>8, <1>9

\* The records of the jobs of a new call.
NewJob(file) ==
  [call |-> calls', file |-> file, list |-> built, last |-> last, python |-> Python,
   status |-> "preparing", program |-> Absent, conf |-> Absent, request |-> Absent]

LEMMA JobsAdded ==
  ASSUME Typed, NEW reqs, NEW m \in Nat, DOMAIN reqs = 1..m,
         \A i \in 1..m : reqs[i] \in Requests,
         built \in Lists, calls' \in Nat, Prepare(reqs)
  PROVE  /\ jobs' \in Seq(JobRecords) /\ Len(jobs) \in Nat /\ Len(jobs') = Len(jobs) + m
         /\ DOMAIN jobs = 1..Len(jobs) /\ DOMAIN jobs' = 1..Len(jobs')
         /\ \A k \in 1..Len(jobs) : jobs'[k] = jobs[k]
         /\ \A k \in (Len(jobs) + 1)..Len(jobs') :
              /\ k - Len(jobs) \in 1..m /\ jobs'[k] = NewJob(reqs[k - Len(jobs)])
<1>1. jobs \in Seq(JobRecords) /\ Len(jobs) \in Nat /\ DOMAIN jobs = 1..Len(jobs)
  BY JobsAre DEF Typed
<1>2. PICK new : new = [i \in 1..m |-> NewJob(reqs[i])]
  OBVIOUS
<1>3. jobs' = jobs \o new
  BY <1>2 DEF Prepare, NewJob
<1>4. ASSUME NEW i \in 1..m PROVE new[i] \in JobRecords
  <2>1. reqs[i] \in Requests /\ last \in Outcomes /\ Python \in BOOLEAN /\ Absent \in Values
        /\ "preparing" \in Statuses
    BY DEF Typed, Python, Values, Statuses
  <2>2. NewJob(reqs[i]) \in JobRecords
    BY <2>1 DEF NewJob, JobRecords
  <2> QED
    BY <1>2, <2>2
<1>5. new \in Seq(JobRecords) /\ Len(new) = m /\ \A i \in 1..m : new[i] = NewJob(reqs[i])
  BY <1>2, <1>4
<1>6. /\ jobs' \in Seq(JobRecords) /\ Len(jobs') = Len(jobs) + m
      /\ DOMAIN jobs' = 1..Len(jobs')
      /\ \A k \in 1..Len(jobs) : jobs'[k] = jobs[k]
  <2>1. PICK js : js = jobs
    OBVIOUS
  <2>2. js \in Seq(JobRecords) /\ new \in Seq(JobRecords)
    BY <1>1, <1>5, <2>1
  <2>3. /\ js \o new \in Seq(JobRecords) /\ Len(js \o new) = Len(js) + Len(new)
        /\ \A k \in 1..Len(js) : (js \o new)[k] = js[k]
    BY <2>2
  <2>4. DOMAIN (js \o new) = 1..Len(js \o new)
    BY <2>3
  <2> QED
    BY <1>3, <1>5, <2>1, <2>3, <2>4
<1>7. ASSUME NEW k \in (Len(jobs) + 1)..Len(jobs')
      PROVE  k - Len(jobs) \in 1..m /\ jobs'[k] = NewJob(reqs[k - Len(jobs)])
  <2>1. k - Len(jobs) \in 1..m
    BY <1>1, <1>6
  <2>2. jobs'[k] = new[k - Len(jobs)]
    BY <1>1, <1>3, <1>5, <1>6
  <2> QED
    BY <1>5, <2>1, <2>2
<1> QED
  BY <1>1, <1>6, <1>7

\* A call that starts jobs.
LEMMA CallIInv ==
  ASSUME IInv, StartCall, built \in Lists,
         NEW reqs, NEW m \in Nat, m # 0, DOMAIN reqs = 1..m,
         \A i \in 1..m : reqs[i] \in Requests,
         Len(jobs) + m <= MaxJobs, Prepare(reqs),
         Chain(plan', jobs', udf, Len(jobs), Len(jobs'))
  PROVE  IInv'
<1>1. /\ Typed /\ PlanOK /\ FuncsOK /\ JobsOK /\ ReadsOK /\ AloneOK /\ FreshOK
  BY DEF IInv
<1>2. /\ Free /\ plan = <<>> /\ calls < MaxJobs /\ calls' = calls + 1
      /\ UNCHANGED <<launcher, patient, disk, cloud, udf, built, last, builds>>
  BY DEF StartCall, Free
<1>3. calls \in Nat /\ calls' \in Nat /\ calls <= calls' /\ calls' \in 0..MaxJobs
  BY <1>1, <1>2, BoundsAssumption DEF Typed
<1>4. /\ jobs' \in Seq(JobRecords) /\ Len(jobs) \in Nat /\ Len(jobs') = Len(jobs) + m
      /\ DOMAIN jobs = 1..Len(jobs) /\ DOMAIN jobs' = 1..Len(jobs')
      /\ \A k \in 1..Len(jobs) : jobs'[k] = jobs[k]
      /\ \A k \in (Len(jobs) + 1)..Len(jobs') :
           /\ k - Len(jobs) \in 1..m /\ jobs'[k] = NewJob(reqs[k - Len(jobs)])
  BY <1>1, <1>3, JobsAdded
<1>5. /\ Len(jobs') \in Nat /\ Len(jobs) <= Len(jobs') /\ Len(jobs') <= MaxJobs
      /\ \A k \in 1..Len(jobs') : k \in 1..Len(jobs) \/ k \in (Len(jobs) + 1)..Len(jobs')
  BY <1>4
<1>6. ASSUME NEW k \in (Len(jobs) + 1)..Len(jobs')
      PROVE  /\ jobs'[k].call = calls' /\ jobs'[k].list = built /\ jobs'[k].last = last
             /\ jobs'[k].python = (udf # NoList) /\ jobs'[k].status = "preparing"
  <2>1. PICK f : jobs'[k] = NewJob(f)
    BY <1>4
  <2>2. PICK c : c = calls'
    OBVIOUS
  <2>3. jobs'[k] = [call |-> c, file |-> f, list |-> built, last |-> last, python |-> Python,
                    status |-> "preparing", program |-> Absent, conf |-> Absent, request |-> Absent]
    BY <2>1, <2>2 DEF NewJob
  <2> QED
    BY <2>2, <2>3 DEF Python
<1>7. /\ last = "done" => Sound(built) /\ udf = Preprocessed(built)
      /\ last = "functions" => udf = NoList
  <2>1. Len(plan) = 0
    BY <1>2
  <2> QED
    BY <1>1, <2>1 DEF FuncsOK
<1>8. /\ UploadsOK(plan', disk, jobs', udf) /\ SubmitsOK(plan', disk, cloud, jobs', udf)
      /\ InTurn(plan') /\ LocalPlan(plan') /\ StepsTyped(plan', Len(jobs'))
      /\ \A k \in 1..Len(plan') : plan'[k].op # "assign"
      /\ \A k \in 1..Len(plan') :
           plan'[k].op = "submit" => plan'[k].content \in (Len(jobs) + 1)..Len(jobs')
  BY <1>4, <1>5, ChainPlan
<1>9. FilesTyped'
  <2>1. \A f \in Files :
          /\ disk[f] \in {Absent, Torn} \cup Content(Len(jobs'), f)
          /\ cloud[f] \in {Absent, Torn} \cup Content(Len(jobs'), f)
    BY <1>1, <1>4, <1>5, ContentsDiffer DEF Typed, FilesTyped
  <2> QED
    BY <1>1, <1>2, <2>1 DEF Typed, FilesTyped
<1>10. Typed'
  <2>1. StepsTyped(plan, Len(jobs))'
    BY <1>8 DEF StepsTyped
  <2> QED
    BY <1>1, <1>2, <1>3, <1>4, <1>5, <1>9, <2>1 DEF Typed
<1>11. ToSubmit'
  <2> SUFFICES ASSUME NEW s \in 1..Len(plan'), plan'[s].op = "submit"
               PROVE  LET o == plan'[s].content IN
                      /\ \A k \in o..Len(jobs') : jobs'[k].status = "preparing"
                      /\ jobs'[o].call = calls'
                      /\ jobs'[o].python => udf # NoList
                      /\ jobs'[o].last = "done" => udf = Preprocessed(jobs'[o].list)
    BY <1>2 DEF ToSubmit, Preprocessed
  <2>1. PICK o : o = plan'[s].content
    OBVIOUS
  <2>2. o \in (Len(jobs) + 1)..Len(jobs')
    BY <1>8, <2>1
  <2>3. \A k \in o..Len(jobs') : k \in (Len(jobs) + 1)..Len(jobs')
    BY <1>4, <2>2
  <2> QED
    BY <1>6, <1>7, <2>1, <2>2, <2>3
<1>12. PlanOK'
  <2>1. UploadsOK(plan, disk, jobs, udf)' /\ SubmitsOK(plan, disk, cloud, jobs, udf)'
    BY <1>2, <1>8 DEF UploadsOK, SubmitsOK
  <2>2. InTurn(plan)' /\ LocalPlan(plan)'
    BY <1>2, <1>8 DEF InTurn, LocalPlan
  <2> QED
    BY <1>11, <2>1, <2>2 DEF PlanOK
<1>13. FuncsOK'
  <2>1. /\ last' = "done" => built' \in Lists /\ Sound(built') /\ udf' = Preprocessed(built')
        /\ last' = "functions" => udf' = NoList
    BY <1>2, <1>7
  <2> QED
    BY <1>8, <2>1 DEF FuncsOK, Sound, Preprocessed
<1>14. JobsOK'
  <2> SUFFICES ASSUME NEW k \in 1..Len(jobs')
               PROVE  /\ jobs'[k].call <= calls'
                      /\ patient /\ jobs'[k].status \notin Ended => jobs'[k].call = calls'
                      /\ jobs'[k].last = "done" =>
                           /\ Sound(jobs'[k].list)
                           /\ jobs'[k].python = (Preprocessed(jobs'[k].list) # NoList)
                      /\ jobs'[k].last = "functions" => ~jobs'[k].python
                      /\ jobs'[k].status = "submitted" => jobs'[k].python
    BY <1>2 DEF JobsOK, Sound, Preprocessed
  <2>1. CASE k \in 1..Len(jobs)
    <3>1. jobs'[k] = jobs[k] /\ jobs[k].call \in Nat
      BY <1>1, <1>4, <2>1, JobsAre DEF Typed
    <3>2. patient => jobs[k].status \in Ended
      BY <1>2, <1>4, <2>1 DEF Free
    <3>3. jobs[k].call <= calls'
      BY <1>1, <1>3, <2>1, <3>1 DEF JobsOK
    <3> QED
      BY <1>1, <2>1, <3>1, <3>2, <3>3 DEF JobsOK
  <2>2. CASE k \in (Len(jobs) + 1)..Len(jobs')
    <3>1. /\ jobs'[k].call = calls' /\ jobs'[k].list = built /\ jobs'[k].last = last
          /\ jobs'[k].python = (udf # NoList) /\ jobs'[k].status = "preparing"
      BY <1>6, <2>2
    <3>2. jobs'[k].call <= calls' /\ jobs'[k].status # "submitted"
      BY <1>3, <3>1
    <3>3. jobs'[k].last = "done" =>
            /\ Sound(jobs'[k].list)
            /\ jobs'[k].python = (Preprocessed(jobs'[k].list) # NoList)
      BY <1>7, <3>1
    <3>4. jobs'[k].last = "functions" => ~jobs'[k].python
      BY <1>7, <3>1
    <3> QED
      BY <3>1, <3>2, <3>3, <3>4
  <2> QED
    BY <1>5, <2>1, <2>2
<1>15. ReadsOK'
  <2> SUFFICES ASSUME NEW k \in 1..Len(jobs')
               PROVE  ReadOK(jobs'[k], Len(jobs'), cloud, Followed(k)', FollowedByPython(k)')
    BY <1>2 DEF ReadsOK, ReadOK
  <2>1. CASE k \in 1..Len(jobs)
    <3>1. \A n \in 1..Len(jobs) : n \in 1..Len(jobs')
      BY <1>4, <1>5
    <3>2. /\ Followed(k) => Followed(k)'
          /\ FollowedByPython(k) => FollowedByPython(k)'
      BY <1>2, <1>4, <1>5, <2>1, FollowersStay
    <3> QED
      BY <1>1, <1>4, <2>1, <3>1, <3>2 DEF ReadsOK, ReadOK
  <2>2. CASE k \in (Len(jobs) + 1)..Len(jobs')
    BY <1>6, <2>2 DEF ReadOK
  <2> QED
    BY <1>5, <2>1, <2>2
<1>16. ASSUME NEW k \in 1..Len(jobs)
       PROVE  /\ Alone(k)' => Alone(k)
              /\ Undisturbed(k)' => Undisturbed(k)
  BY <1>2, <1>4, <1>5, UndisturbedBefore
<1>17. AloneOK'
  <2> SUFFICES ASSUME NEW k \in 1..Len(jobs'), Alone(k)', jobs'[k].status \in {"submitted", "loaded"}
               PROVE  FALSE
    BY DEF AloneOK
  <2>1. k \in 1..Len(jobs)
    BY <1>5, <1>6
  <2>2. jobs[k].status \in Ended
    BY <1>2, <1>16, <2>1, FreeIdle
  <2> QED
    BY <1>4, <2>1, <2>2 DEF Ended
<1>18. FreshOK'
  <2>1. Place' = Place
    BY <1>2 DEF Place
  <2> SUFFICES ASSUME NEW k \in 1..Len(jobs'), Undisturbed(k)'
               PROVE  FreshJob(jobs'[k], k, Place, Alone(k)')
    BY <2>1 DEF FreshOK, FreshJob
  <2>2. CASE k \in 1..Len(jobs)
    <3>1. Undisturbed(k) /\ jobs'[k] = jobs[k] /\ (Alone(k)' => Alone(k))
      BY <1>4, <1>16, <2>2
    <3> QED
      BY <1>1, <2>2, <3>1 DEF FreshOK, FreshJob
  <2>3. CASE k \in (Len(jobs) + 1)..Len(jobs')
    <3>1. jobs'[k].status = "preparing"
      BY <1>6, <2>3
    <3> QED
      BY <3>1 DEF FreshJob
  <2> QED
    BY <1>5, <2>2, <2>3
<1> QED
  BY <1>10, <1>12, <1>13, <1>14, <1>15, <1>17, <1>18 DEF IInv

\* A call that finds no build.
LEMMA CallFails ==
  ASSUME IInv, StartCall, UNCHANGED jobs,
         StepsTyped(plan', Len(jobs)), \A k \in 1..Len(plan') : plan'[k].op = "write"
  PROVE  IInv'
<1>1. Typed /\ FuncsOK
  BY DEF IInv
<1>2. /\ Free /\ plan = <<>> /\ calls < MaxJobs /\ calls' = calls + 1
      /\ UNCHANGED <<launcher, patient, disk, cloud, udf, built, last, builds>>
  BY DEF StartCall, Free
<1>3. calls <= calls' /\ calls' \in 0..MaxJobs
  BY <1>1, <1>2, BoundsAssumption DEF Typed
<1>4. Typed'
  <2>1. StepsTyped(plan, Len(jobs))' /\ FilesTyped'
    BY <1>1, <1>2 DEF StepsTyped, Typed, FilesTyped
  <2> QED
    BY <1>1, <1>2, <1>3, <2>1 DEF Typed
<1>5. FuncsOK'
  <2>1. Len(plan) = 0
    BY <1>2
  <2> QED
    BY <1>1, <1>2, <2>1 DEF FuncsOK, Sound, Preprocessed
<1> QED
  BY <1>2, <1>3, <1>4, <1>5, QuietCall

LEMMA GetOfflineFeaturesIInv ==
  ASSUME IInv, GetOfflineFeatures
  PROVE  IInv'
<1>1. Typed /\ Len(jobs) \in Nat
  BY JobsAre DEF IInv, Typed
<1>2. StartCall /\ Len(jobs) < MaxJobs
  BY DEF GetOfflineFeatures
<1>3. CASE built = NoList
  <2>1. plan' = Driver /\ UNCHANGED jobs
    BY <1>3 DEF GetOfflineFeatures
  <2>2. StepsTyped(Driver, Len(jobs)) /\ \A k \in 1..Len(Driver) : Driver[k].op = "write"
    <3>1. CASE Python
      <4>1. udf \in Lists
        BY <1>1, <3>1 DEF Typed, Python
      <4>2. Driver = Write("driver", udf)
        BY <3>1 DEF Driver
      <4> QED
        BY <1>1, <4>1, <4>2, WriteIs
    <3>2. CASE ~Python
      <4>1. Driver = <<>>
        BY <3>2 DEF Driver
      <4>2. Len(Driver) = 0 /\ Driver \in Seq(Steps)
        BY <4>1
      <4> QED
        BY <4>2 DEF StepsTyped
    <3> QED
      BY <3>1, <3>2
  <2> QED
    BY <1>2, <2>1, <2>2, CallFails
<1>4. CASE built # NoList
  <2>1. plan' = JoinPlan(Len(jobs) + 1) /\ Prepare(<<"join">>)
    BY <1>4 DEF GetOfflineFeatures
  <2>2. PICK reqs : reqs = <<"join">>
    OBVIOUS
  <2>3. /\ DOMAIN reqs = 1..1 /\ \A i \in 1..1 : reqs[i] \in Requests /\ reqs[i] = "join"
        /\ Prepare(reqs)
    BY <2>1, <2>2, FilesDiffer
  <2>4. built \in Lists /\ calls' \in Nat
    BY <1>1, <1>2, <1>4 DEF Typed, StartCall
  <2>5. /\ Len(jobs') = Len(jobs) + 1
        /\ \A k \in (Len(jobs) + 1)..Len(jobs') :
             k - Len(jobs) \in 1..1 /\ jobs'[k] = NewJob(reqs[k - Len(jobs)])
    BY <1>1, <2>3, <2>4, JobsAdded
  <2>6. PICK i : i = Len(jobs) + 1
    OBVIOUS
  <2>7. /\ i \in (Len(jobs) + 1)..Len(jobs') /\ i \in 1..Len(jobs') /\ Len(jobs') \in Nat
        /\ i - Len(jobs) = 1 /\ i - 1 = Len(jobs) /\ i = Len(jobs')
    BY <1>1, <2>5, <2>6
  <2>8. jobs'[i] = NewJob("join")
    BY <2>3, <2>5, <2>7
  <2>9. GenBlock(i, "join", jobs')
    BY <1>1, <2>4, <2>7, <2>8, FilesDiffer DEF GenBlock, NewJob, Typed
  <2>10. Chain(JoinPlan(i), jobs', udf, i - 1, i)
    BY <2>9, JoinChain
  <2>11. Chain(plan', jobs', udf, Len(jobs), Len(jobs'))
    BY <2>1, <2>6, <2>7, <2>10
  <2>12. Len(jobs) + 1 <= MaxJobs
    BY <1>1, <1>2, BoundsAssumption
  <2> QED
    <3>1. PICK m : m = 1
      OBVIOUS
    <3>2. m \in Nat /\ m # 0 /\ DOMAIN reqs = 1..m /\ Len(jobs) + m <= MaxJobs
          /\ \A n \in 1..m : reqs[n] \in Requests
      BY <2>3, <2>12, <3>1
    <3> QED
      BY <1>2, <2>3, <2>4, <2>11, <3>2, CallIInv
<1> QED
  BY <1>3, <1>4

LEMMA MaterializeFeaturesIInv ==
  ASSUME IInv, NEW first \in DOMAIN Cutoffs, NEW end \in DOMAIN Cutoffs, first <= end,
         MaterializeFeatures(SubSeq(Cutoffs, first, end))
  PROVE  IInv'
<1>1. Typed /\ Len(jobs) \in Nat
  BY JobsAre DEF IInv, Typed
<1>2. PICK cutoffs : cutoffs = SubSeq(Cutoffs, first, end)
  OBVIOUS
<1>3. PICK m : m = (end - first) + 1
  OBVIOUS
<1>4. /\ first \in Nat /\ end \in Nat /\ first >= 1 /\ DOMAIN Cutoffs = 1..Len(Cutoffs)
      /\ Len(Cutoffs) \in Nat
  BY CutoffsAssumption
<1>5. /\ m \in Nat /\ m # 0 /\ Len(cutoffs) = m /\ DOMAIN cutoffs = 1..m
      /\ \A i \in 1..m : cutoffs[i] = Cutoffs[(first + i) - 1] /\ (first + i) - 1 \in DOMAIN Cutoffs
  BY <1>2, <1>3, <1>4, CutoffsAssumption
<1>6. \A i \in 1..m : cutoffs[i] \in Requests
  BY <1>5, FilesDiffer
<1>7. StartCall /\ Len(jobs) + m <= MaxJobs
  BY <1>2, <1>5 DEF MaterializeFeatures
<1>8. CASE built = NoList
  <2>1. plan' = <<>> /\ UNCHANGED jobs
    BY <1>8 DEF MaterializeFeatures
  <2>2. Len(plan') = 0 /\ plan' \in Seq(Steps)
    BY <2>1
  <2>3. StepsTyped(plan', Len(jobs)) /\ \A k \in 1..Len(plan') : plan'[k].op = "write"
    BY <2>2 DEF StepsTyped
  <2> QED
    BY <1>7, <2>1, <2>3, CallFails
<1>9. CASE built # NoList
  <2>1. PICK lo : lo = Len(jobs)
    OBVIOUS
  <2>2. /\ plan' = FlattenSeq([i \in DOMAIN cutoffs |-> GenPlan(lo + i, cutoffs[i])])
        /\ Prepare(cutoffs)
    BY <1>2, <1>9, <2>1 DEF MaterializeFeatures
  <2>3. built \in Lists /\ calls' \in Nat
    BY <1>1, <1>7, <1>9 DEF Typed, StartCall
  <2>4. /\ Len(jobs') = lo + m
        /\ \A k \in (lo + 1)..Len(jobs') :
             k - lo \in 1..m /\ jobs'[k] = NewJob(cutoffs[k - lo])
    BY <1>1, <1>5, <1>6, <2>1, <2>2, <2>3, JobsAdded
  <2>5. ASSUME NEW i \in 1..m PROVE GenBlock(lo + i, cutoffs[i], jobs')
    <3>1. /\ lo + i \in (lo + 1)..Len(jobs') /\ lo + i \in 1..Len(jobs') /\ Len(jobs') \in Nat
          /\ (lo + i) - lo = i
      BY <1>1, <1>5, <2>1, <2>4
    <3>2. jobs'[lo + i] = NewJob(cutoffs[i])
      BY <2>4, <3>1
    <3> QED
      BY <1>1, <1>6, <2>3, <3>1, <3>2 DEF GenBlock, NewJob, Typed
  <2>6. Chain(plan', jobs', udf, lo, lo + m)
    BY <1>1, <1>5, <2>1, <2>2, <2>5, GenPlansChain
  <2>7. Chain(plan', jobs', udf, Len(jobs), Len(jobs'))
    BY <2>1, <2>4, <2>6
  <2> QED
    BY <1>5, <1>6, <1>7, <2>2, <2>3, <2>7, CallIInv
<1> QED
  BY <1>8, <1>9

LEMMA StutterIInv ==
  ASSUME IInv, UNCHANGED vars
  PROVE  IInv'
<1>1. /\ Typed /\ PlanOK /\ FuncsOK /\ JobsOK /\ ReadsOK /\ AloneOK /\ FreshOK
  BY DEF IInv
<1>2. UNCHANGED <<launcher, patient, disk, cloud, udf, built, last, plan, jobs, builds, calls>>
  BY DEF vars
<1>3. Typed'
  BY <1>1, <1>2 DEF Typed, FilesTyped, StepsTyped
<1>4. UploadsOK(plan, disk, jobs, udf)' /\ SubmitsOK(plan, disk, cloud, jobs, udf)'
  BY <1>1, <1>2 DEF PlanOK, UploadsOK, SubmitsOK
<1>5. InTurn(plan)' /\ LocalPlan(plan)' /\ ToSubmit'
  BY <1>1, <1>2 DEF PlanOK, InTurn, LocalPlan, ToSubmit, Preprocessed
<1>6. FuncsOK' /\ JobsOK'
  BY <1>1, <1>2 DEF FuncsOK, JobsOK, Sound, Preprocessed
<1>7. ReadsOK' /\ FreshOK'
  BY <1>1, <1>2, ReadsStay, FreshStay
<1>8. AloneOK'
  BY <1>1, <1>2 DEF AloneOK, Alone
<1> QED
  BY <1>3, <1>4, <1>5, <1>6, <1>7, <1>8 DEF IInv, PlanOK

LEMMA InitIInv ==
  ASSUME Init
  PROVE  IInv
<1>1. /\ launcher \in {"local", "cloud"} /\ launcher \in Launchers /\ patient \in BOOLEAN
      /\ disk = [f \in Files |-> Absent] /\ cloud = disk
      /\ udf = NoList /\ built = NoList /\ last = "none"
      /\ plan = <<>> /\ jobs = <<>> /\ builds = 0 /\ calls = 0
  BY LaunchersAssumption DEF Init
<1>2. Len(plan) = 0 /\ Len(jobs) = 0 /\ plan \in Seq(Steps) /\ jobs \in Seq(JobRecords)
  BY <1>1
<1>3. Typed
  <2>1. FilesTyped
    BY <1>1 DEF FilesTyped, Values
  <2>2. StepsTyped(plan, Len(jobs))
    BY <1>2 DEF StepsTyped
  <2> QED
    BY <1>1, <1>2, <2>1, <2>2, BoundsAssumption DEF Typed, Outcomes
<1>4. PlanOK
  BY <1>2 DEF PlanOK, UploadsOK, SubmitsOK, InTurn, LocalPlan, ToSubmit
<1>5. FuncsOK /\ JobsOK /\ ReadsOK /\ AloneOK /\ FreshOK
  BY <1>1, <1>2 DEF FuncsOK, JobsOK, ReadsOK, AloneOK, FreshOK
<1> QED
  BY <1>3, <1>4, <1>5 DEF IInv

LEMMA NextIInv ==
  ASSUME IInv, [Next]_vars
  PROVE  IInv'
BY BuildIInv, RegisterFeaturesIInv, GetOfflineFeaturesIInv, MaterializeFeaturesIInv,
   WriteFileIInv, EmptyCopyIInv, UploadFileIInv, SubmissionFailsIInv, SubmitIInv, AssignIInv, JobIInv,
   StutterIInv DEF Next

LEMMA Invariance == Spec => []IInv
<1>1. Init => IInv
  BY InitIInv
<1>2. IInv /\ [Next]_vars => IInv'
  BY NextIInv
<1> QED
  BY <1>1, <1>2, PTL DEF Spec

-----------------------------------------------------------------------------
(* The functions of a list *)

\* The first k members of seq have an upper bound.
Bounded(seq, k) == \E b \in Nat : \A n \in 1..k : seq[n] <= b

\* A finite set of numbers has a largest one.
LEMMA Largest ==
  ASSUME NEW S, S \subseteq Anchors, S # {}
  PROVE  \E b \in S : \A c \in S : c <= b
<1>1. Anchors \subseteq Nat /\ IsFiniteSet(Anchors)
  BY AnchorsAssumption
<1>2. PICK seq \in Seq(Anchors) : \A s \in Anchors : \E n \in 1..Len(seq) : seq[n] = s
  BY <1>1 DEF IsFiniteSet
<1>3. Len(seq) \in Nat /\ \A n \in 1..Len(seq) : seq[n] \in Nat
  <2>1. Len(seq) \in Nat /\ \A n \in 1..Len(seq) : seq[n] \in Anchors
    BY <1>2
  <2> QED
    BY <1>1, <2>1
<1> DEFINE T == {k \in 0..Len(seq) : ~Bounded(seq, k)}
<1>4. T = {}
  <2> SUFFICES ASSUME T # {} PROVE FALSE
    OBVIOUS
  <2>1. PICK k \in T : \A m \in T : ~(m < k)
    <3>1. T \subseteq Nat
      BY <1>3
    <3> QED
      BY <3>1, LeastNat
  <2>2. CASE k = 0
    <3>1. Bounded(seq, 0)
      <4>1. 0 \in Nat /\ \A n \in 1..0 : seq[n] <= 0
        OBVIOUS
      <4> QED
        BY <4>1 DEF Bounded
    <3> QED
      BY <2>1, <2>2, <3>1
  <2>3. CASE k # 0
    <3>1. k - 1 \in 0..Len(seq) /\ k - 1 < k /\ k \in 1..Len(seq)
      BY <1>3, <2>1, <2>3
    <3>2. Bounded(seq, k - 1)
      BY <2>1, <3>1
    <3>3. PICK b \in Nat : \A n \in 1..(k - 1) : seq[n] <= b
      BY <3>2 DEF Bounded
    <3>4. PICK c \in Nat : b <= c /\ seq[k] <= c
      <4>1. seq[k] \in Nat
        BY <1>3, <3>1
      <4>2. CASE b <= seq[k]
        BY <4>1, <4>2
      <4>3. CASE ~(b <= seq[k])
        BY <4>1, <4>3
      <4> QED
        BY <4>2, <4>3
    <3>5. ASSUME NEW n \in 1..k PROVE seq[n] <= c
      <4>1. CASE n = k
        BY <3>4, <4>1
      <4>2. CASE n # k
        <5>1. n \in 1..(k - 1) /\ n \in 1..Len(seq)
          BY <1>3, <3>1, <4>2
        <5>2. seq[n] <= b /\ seq[n] \in Nat
          BY <1>3, <3>3, <5>1
        <5> QED
          BY <3>4, <5>2
      <4> QED
        BY <4>1, <4>2
    <3>6. Bounded(seq, k)
      BY <3>4, <3>5 DEF Bounded
    <3> QED
      BY <2>1, <3>6
  <2> QED
    BY <2>2, <2>3
<1>5. PICK top \in Nat : \A n \in 1..Len(seq) : seq[n] <= top
  <2>1. Bounded(seq, Len(seq))
    <3>1. Len(seq) \in 0..Len(seq)
      BY <1>3
    <3> QED
      BY <1>4, <3>1
  <2> QED
    BY <2>1 DEF Bounded
<1>6. \A s \in S : s \in Nat /\ s <= top
  BY <1>1, <1>2, <1>5
<1> DEFINE U == {b \in Nat : \A c \in S : c <= b}
<1>7. PICK b \in U : \A m \in U : ~(m < b)
  <2>1. U \subseteq Nat /\ top \in U
    BY <1>6
  <2> QED
    BY <2>1, LeastNat
<1>8. b \in S
  <2> SUFFICES ASSUME b \notin S PROVE FALSE
    OBVIOUS
  <2>1. PICK s : s \in S
    OBVIOUS
  <2>2. b \in Nat /\ b # 0 /\ b - 1 \in Nat /\ b - 1 < b
    BY <1>6, <1>7, <2>1
  <2>3. ASSUME NEW c \in S PROVE c <= b - 1
    <3>1. c <= b /\ c # b /\ c \in Nat
      BY <1>6, <1>7
    <3> QED
      BY <2>2, <3>1
  <2>4. b - 1 \in U
    BY <2>2, <2>3
  <2> QED
    BY <1>7, <2>2, <2>4
<1> QED
  BY <1>7, <1>8

\* With distinct names each anchor is given its own function.
LEMMA DefinedIs ==
  ASSUME NEW l \in Lists, DistinctNames(l), NEW a \in DOMAIN l, l[a] # NoFunc
  PROVE  Defined(l, a) = l[a]
<1>1. DOMAIN l \subseteq Anchors /\ Anchors \subseteq Nat
  BY ListsAssumption, AnchorsAssumption
<1>2. PICK S : S = {b \in DOMAIN l : l[b] # NoFunc /\ NameOf[l[b]] = NameOf[l[a]]}
  OBVIOUS
<1>3. PICK b \in S : \A c \in S : c <= b
  <2>1. S \subseteq Anchors /\ a \in S
    BY <1>1, <1>2
  <2> QED
    BY <2>1, Largest
<1>4. /\ b \in DOMAIN l /\ l[b] # NoFunc /\ NameOf[l[b]] = NameOf[l[a]]
      /\ \A c \in DOMAIN l : l[c] # NoFunc /\ NameOf[l[c]] = NameOf[l[a]] => c <= b
  BY <1>2, <1>3
<1>5. PICK d : d = CHOOSE e \in DOMAIN l : l[e] # NoFunc /\ NameOf[l[e]] = NameOf[l[a]]
             /\ \A c \in DOMAIN l : l[c] # NoFunc /\ NameOf[l[c]] = NameOf[l[a]] => c <= e
  OBVIOUS
<1>6. d \in DOMAIN l /\ l[d] # NoFunc /\ NameOf[l[d]] = NameOf[l[a]]
  BY <1>4, <1>5
<1>7. l[d] = l[a]
  BY <1>6 DEF DistinctNames
<1> QED
  BY <1>5, <1>7 DEF Defined

-----------------------------------------------------------------------------
(* The properties *)

LEMMA TypeFollows ==
  ASSUME IInv
  PROVE  TypeOK
<1>1. Typed /\ ReadsOK
  BY DEF IInv
<1>2. /\ Len(jobs) \in Nat /\ DOMAIN jobs = 1..Len(jobs)
      /\ \A i \in 1..Len(jobs) : jobs[i].status \in Statuses
  BY <1>1, JobsAre DEF Typed
<1>3. ASSUME NEW place, place \in {disk, cloud}
      PROVE  /\ DOMAIN place = Files
             /\ place["driver"] \in Lists \cup {Absent, Torn}
             /\ place["conf"] \in Lists \cup {Absent, Torn}
             /\ \A f \in Requests : place[f] \in {Absent, Torn} \cup 1..(Len(jobs) + 1)
  <2>1. DOMAIN place = Files /\ \A f \in Files : place[f] \in {Absent, Torn} \cup Content(Len(jobs), f)
    BY <1>1, <1>3 DEF Typed, FilesTyped
  <2>2. "driver" \in Files /\ "conf" \in Files
    BY FilesDiffer
  <2>3. /\ Content(Len(jobs), "driver") = Lists /\ Content(Len(jobs), "conf") = Lists
        /\ \A f \in Requests : f \in Files /\ Content(Len(jobs), f) = 1..Len(jobs)
    BY FilesDiffer DEF Content
  <2>4. \A n \in 1..Len(jobs) : n \in 1..(Len(jobs) + 1)
    BY <1>2
  <2> QED
    BY <2>1, <2>2, <2>3, <2>4
<1>5. \A i \in DOMAIN jobs :
        /\ jobs[i].status \in {"preparing", "submitted", "loaded"} \cup Ended
        /\ jobs[i].status = "ran" =>
             /\ jobs[i].conf \in Lists /\ jobs[i].request \in DOMAIN jobs
             /\ jobs[i].python => jobs[i].program \in Lists
  BY <1>1, <1>2 DEF ReadsOK, ReadOK, Statuses
<1> QED
  BY <1>1, <1>3, <1>5 DEF TypeOK, Typed, Outcomes

\* The files hold lists and the numbers of jobs, and a job that ran has read
\* proper ones, however uploads and jobs overlap: what is half written or half
\* uploaded ends a job.
THEOREM WorkspaceTypeCorrectness == Spec => []TypeOK
<1>1. IInv => TypeOK
  BY TypeFollows
<1> QED
  BY <1>1, Invariance, PTL

\* A job on a cluster that fails, or ends without having done a thing, lost its
\* files to the uploads of a later job; what an upload before it that broke off has
\* left is replaced.
THEOREM CloudJobsLoseToFollowersAlways == Spec => []CloudJobsLoseToFollowers
<1>1. IInv => CloudJobsLoseToFollowers
  <2> SUFFICES ASSUME IInv, launcher = "cloud", NEW i \in DOMAIN jobs
               PROVE  /\ jobs[i].status = "failed" => Followers(i) # {}
                      /\ jobs[i].status = "void" => \E k \in Followers(i) : jobs[k].python
    BY DEF CloudJobsLoseToFollowers
  <2>1. ReadsOK /\ i \in 1..Len(jobs)
    BY JobsAre DEF IInv, Typed
  <2> QED
    BY <2>1 DEF ReadsOK, ReadOK, Followed, FollowedByPython
<1> QED
  BY <1>1, Invariance, PTL

\* After a build that raised over a function, a job applies no function at all.
THEOREM AllOrNoFunctionsAlways == Spec => []AllOrNoFunctions
<1>1. IInv => AllOrNoFunctions
  <2> SUFFICES ASSUME IInv, NEW i \in DOMAIN jobs, jobs[i].last = "functions", NEW a
               PROVE  Applied(jobs[i], a) = NoFunc
    BY DEF AllOrNoFunctions
  <2>1. ~jobs[i].python
    BY JobsAre DEF IInv, Typed, JobsOK
  <2> QED
    BY <2>1 DEF Applied
<1> QED
  BY <1>1, Invariance, PTL

\* build_features is what a job runs on: one that nobody disturbs, if it runs,
\* computes the features of the last build, for its own request, with their own
\* functions; and it does run if it is alone.
THEOREM JobsRunAsBuiltAlways == Spec => []JobsRunAsBuilt
<1>1. IInv => JobsRunAsBuilt
  <2> SUFFICES ASSUME IInv, NEW i \in DOMAIN jobs,
                      jobs[i].last = "done", DistinctNames(jobs[i].list),
                      Alone(i) \/ AmongEquals(i)
               PROVE  /\ Alone(i) /\ jobs[i].status \in Ended \ {"refused"} => jobs[i].status = "ran"
                      /\ jobs[i].status = "ran" =>
                           /\ jobs[i].conf = jobs[i].list /\ jobs[i].request = i
                           /\ \A a \in DOMAIN jobs[i].list :
                                Applied(jobs[i], a) = jobs[i].list[a]
    BY DEF JobsRunAsBuilt
  <2>1. Typed /\ JobsOK /\ FreshOK /\ i \in 1..Len(jobs)
    BY JobsAre DEF IInv, Typed
  <2>2. jobs[i].list \in Lists
    BY <2>1, JobsAre DEF Typed
  <2>6. FreshJob(jobs[i], i, Place, Alone(i))
    BY <2>1 DEF FreshOK, Undisturbed
  <2>7. Alone(i) /\ jobs[i].status \in Ended \ {"refused"} => jobs[i].status = "ran"
    BY <2>6 DEF FreshJob, Ended
  <2> SUFFICES ASSUME jobs[i].status = "ran"
               PROVE  /\ jobs[i].conf = jobs[i].list /\ jobs[i].request = i
                      /\ \A a \in DOMAIN jobs[i].list :
                           Applied(jobs[i], a) = jobs[i].list[a]
    BY <2>7
  <2>3. /\ jobs[i].conf = jobs[i].list /\ jobs[i].request = i
        /\ jobs[i].python => jobs[i].program = jobs[i].list
    BY <2>6 DEF FreshJob
  <2>4. /\ Sound(jobs[i].list) /\ jobs[i].python = (Preprocessed(jobs[i].list) # NoList)
    BY <2>1 DEF JobsOK
  <2>5. ASSUME NEW a \in DOMAIN jobs[i].list
        PROVE  Applied(jobs[i], a) = jobs[i].list[a]
    <3>1. CASE jobs[i].python /\ jobs[i].list[a] # NoFunc
      <4>1. Applied(jobs[i], a) = Defined(jobs[i].list, a)
        BY <2>3, <3>1 DEF Applied
      <4> QED
        BY <2>2, <3>1, <4>1, DefinedIs
    <3>2. CASE jobs[i].python /\ jobs[i].list[a] = NoFunc
      BY <2>3, <3>2 DEF Applied
    <3>3. CASE ~jobs[i].python
      <4>1. Preprocessed(jobs[i].list) = NoList
        BY <2>4, <3>3
      <4>2. jobs[i].list[a] = NoFunc
        BY <2>2, <2>4, <4>1, ContentsDiffer DEF Preprocessed, Sound
      <4> QED
        BY <3>3, <4>2 DEF Applied
    <3> QED
      BY <3>1, <3>2, <3>3
  <2> QED
    BY <2>3, <2>5
<1> QED
  BY <1>1, Invariance, PTL

=============================================================================
