# Feathr in TLA+

A verification project for the Feathr feature store in this repository: TLA+
modules of the parts whose behaviour depends on order, concurrency or failure,
TLC runs that check them on small instances, and theorems that TLAPS proves for
every value of the constants.

`PROJECT.json` holds the index: components, runs, the mutants that show each
property can fail, the source lines each definition stands for, the
disagreements between code and docs, and the hazards the properties are for.

Paths below are relative to `src/`. `client.py` is
`feathr_project/feathr/client.py`, `db_registry.py` is
`registry/sql-registry/registry/db_registry.py`.

    tlc -config sql_lineage.cfg MCSqlRegistry      a run: its module is in PROJECT.json
    tlapm SqlRegistryProofs.tla                    the proofs of a component


## 1. The system

A data scientist writes features in Python against the **client library**
(`feathr_project/feathr`). The client registers them with a **registry** over
HTTP, submits **Spark jobs** that compute them, waits for the jobs, and reads the
results from an **online store** (Redis or MongoDB).

    client ---- POST/GET/DELETE ----> gateway (role records) ----> SQL or Purview registry
       |
       +------- submit, poll --------> Spark launcher (local, Databricks, Synapse)
       |                                     |
       |                                     v writes
       +------- read, transfer, delete ----> online store (Redis, MongoDB)

| Component | State | Operations | What is hard |
|---|---|---|---|
| SQL registry (`registry/sql-registry`) | tables `entities`, `edges`; the locals of each handler | POST project, source, anchor, anchor feature, derived feature; DELETE entity; reads | handlers run on a thread pool over one `DbRegistry`, each a sequence of statements at READ COMMITTED; a delete commits several times; names are checked in one statement and used in a later one |
| SQL sessions (`db_registry.py`, `database.py`) | an open session per handler | commit, rollback, flush | a rollback goes back to the last commit, not to the start of the handler |
| Registration client (`registry/_feathr_registry_client.py`) | `_registry_id` marked on feature objects | `register_project`, `register_features`, reads | a POST whose answer is lost; a rerun after a failure in the middle |
| `topological_sort` (`registry/registry_utils.py`) | lists of derived features | one function | cycles, features listed twice, an input named twice |
| Registry gateway (`registry/access_control`) | table of role records, a cache of them | forward to the registry, record or update a role | the role record is written before the registry has answered; check, then insert |
| Purview registry (`registry/purview-registry`) | entities and relations in Azure Purview | as the SQL registry | a remote search that lags behind its writes; several remote calls per operation |
| Materialization (`client.py`, `definition/materialization_settings.py`) | the caller's settings object, the jobs | `materialize_features` with a backfill range | the settings are changed on the way; one job of several fails to start |
| Spark launchers (`spark_provider`) | the latest process, run id or job | `submit_feathr_job`, `wait_for_completion` | timeouts racing the end of a job; the meaning of a return code; jobs that stall |
| Online store (`utils/crud.py`, `client.py`) | the rows of a feature table in two stores | create, read, multi_read, truncate, transfer between sinks, delete of a feature | errors are logged and answered with nulls; keys, names and rows are read at different times while jobs write |
| Definitions and request bodies (`definition`, `registry_utils.py`) | none | render a definition, convert it to and from a request | round trip of every field |
| Client workspace (`client.py`, `udf`, `definition/config_helper.py`) | the preprocessing functions, driver and configurations on disk; their copies on a cluster; `anchor_list` | `build_features`, `get_offline_features`, `materialize_features` | one set of files for all jobs, written anew while earlier jobs have yet to read them; a build that stops in the middle |
| Configuration, result download, chat, command line, UI, deployment | none that other parts rely on | | pure input and output |

### What makes each part correct

* **SQL registry.** Every entity can be read; lineage refers only to entities
  that exist; the two directions of an edge agree; a name stands for one
  definition; a delete takes nothing that is used; a refusal has a reason; every
  request is answered (searches end).
* **topological_sort.** Whatever a feature uses is registered before it; nothing
  is lost or doubled; a cycle is reported.
* **Materialization.** One job for each step of the range, for the first call and
  for a repeated one.
* **Launchers.** The answer of a wait says what happened to the job; a local job
  is not left running; a wait ends if it has a timeout, or once its job has ended with
  a status that the launcher names.
* **Online store.** A value arrives under its own key and feature whatever fails;
  a transfer leaves no old cell behind and brings the full rows; one that has found
  no key leaves its target alone.
* **Registration client.** The id an object keeps is that of an entity with its
  name, definition and inputs, whatever other processes register; what an
  interrupted call leaves can be read; a call fails only for a reason, so that it
  can be repeated.
* **Client workspace.** A job that runs computes what was last built, from its own
  request and with all of its preprocessing functions or none; on a cluster it is only
  the uploads for a later job that can keep it from running.
* **Purview registry.** An entity is never updated or doubled; an answered POST has
  linked its entity, also when it repeats one that was cut short; nothing leads to
  what was deleted; searches end.
* **Gateway.** A project that the registry created has the record of its creator,
  and records agree with the projects that exist.


## 2. Modules

| Module | Models | Abstraction it implements |
|---|---|---|
| `LineageStore` | what a registry promises about lineage | - |
| `SqlRegistry` | all POST and DELETE handlers, statement by statement | `LineageStore` |
| `TopologicalSort` | `topological_sort`, one action per round of each loop | - |
| `Registration` | `register_features` of several processes over `SqlRegistry` | - |
| `PurviewRegistry` | all POST and DELETE handlers of the Purview registry, in steps of one change of Purview each | - |
| `OnlineStore` | both stores, concurrent transfers, jobs that write, deletes | - |
| `Materialization` | backfill, the jobs, the three `wait_for_completion` | - |
| `Workspace` | the files that builds and jobs share | - |
| `MCSqlRegistry`, `MCRegistration`, `MCPurviewRegistry`, `MCOnlineStore`, `MCWorkspace` | definitions for TLC (sets of names, catalogues, symmetry) | |
| `SqlRegistryProofs`, `SqlLineageProofs` | theorems about `SqlRegistry`: with any interleaving, and with one request after the other | |
| `RegistrationProofs` | theorems about `Registration` | `SqlRegistry` |
| `TopologicalSortProofs`, `OnlineStoreProofs`, `MaterializationProofs`, `WorkspaceProofs`, `PurviewRegistryProofs` | theorems about the module named | |

`Registration` composes: it INSTANCEs `SqlRegistry`, whose threads are its
processes, and takes the order of derived features from what `TopologicalSort`
shows. `Materialization` and `Workspace` look at the same calls from two sides:
which jobs a call starts and how they are waited for, and what those jobs find.

An operator that stands just before a definition and that no definition uses
(`DependentsBy` is preceded by `DependentsByContains`, `Cutoffs` by `OneCutoffLess`) is a
mutated form of it: the same code with a likely mistake. `PROJECT.json` lists
which property each mistake breaks.

### SqlRegistry

FastAPI runs the handlers of `main.py`, which are plain `def`s, on a thread pool.
A handler is a sequence of statements; each action of the module is one of them,
or a group of reads that could as well have been taken at once. `entities` and
`edges` are the committed rows. What a handler holds between statements is in
`creating[t]` (the row a POST is about to insert) or `deleting[t]` (the locals of
`delete_entity`, `delete_empty_entities` and `_bfs`), and `reply[t]` is the status
code of the answer.

| Code | Actions |
|---|---|
| `create_project` and the other four creators: read the parent | `NewProject`, `NewSource`, `NewAnchor`, `NewAnchorFeature`, `NewDerivedFeature` |
| the query by qualified name and `__check_queue_version1` | `Check` |
| the source of an anchor, the inputs of a derived feature | `CheckRefs` |
| `flush`, `_create_edge` in pairs, `commit` | `Commit` |
| `delete_entity` of `main.py` and `get_dependent_entities` | `NewDeletion`, `BfsStep`, `BfsDone` |
| `delete_empty_entities` | `Purge`, then the search again with goal `"probe"` |
| `_delete_all_entity_edges`, then `_delete_entity` | `DeleteEdges`, `DeleteEntityRow`: two commits |
| a database error, a restart | `Fail`: back to the last commit, locals lost |

Entity ids are random UUIDs in the code and numbers here, in the order in which
rows are committed; 0 is a UUID that no entity ever had. A random UUID is never
given out twice, and the code compares ids for equality only. A
qualified name is the sequence of the parts that the code joins with `"__"`, so
that a name with `"__"` in it is a sequence of two parts and can collide with
another one, as in the code.

What search and lineage compute is not in the module: they change nothing. Of
`get_project`, `ProjectReadable` says whether it finds every child it looks up. What a delete reads (`get_entities`, `_fill_entity`) is, since it decides
whether the delete fails.

### TopologicalSort

Lists are bags, since the result is a list of levels whose inner order follows the
caller. `Visit` is the body of the `for`, in any order; `Take` ends a round of the
`while`; `Leave` is the check after it. The caller may list a feature twice and
name an input twice: `list.remove` takes one copy each time and the code relies on
the counts.

### Registration

`Call` starts `register_features` in a new process or once more in the same one.
`work` and `derived` are the loops of the method, `marks` the `_registry_id`s,
`sent` the object whose POST is unanswered. `Send` and `SendDerived` start a
handler of `SqlRegistry` on the thread of the process, `Serve` lets it run, and
`answer` is the guid it returns. An answer is received, is an error
(`ReceiveError`, which `check` raises), or is lost (`LoseAnswer`); a handler may
fail (`Break`). Every end of a call goes through `Leave`: nothing is undone. The
ids of inputs in the body of a derived feature (`derived_feature_to_def`) are the
marks; one that is missing raises (`InputHasNoId`). `INPUT_CONTEXT` is posted
always.

The processes run scripts that differ in their definitions, so that an entity of
another process under the same name shows.

### PurviewRegistry

The registry keeps nothing itself: `entities` and `edges` are what Purview holds,
and an action changes Purview by one request at most. Requests that only read and that
follow each other are grouped into one action where the handler asks for something as a
whole: whether an entity can be read (`Readable`), a level of a search (`Search`), what it
found (`Judge`), and the parents that a POST reads when it starts; a change by another
handler between two reads of such a group is not modelled. `Seek`, `Put` are
`_upload_single_entity`; `Reread` the reads marked "change from AtlasEntity to
Entity"; `SeekEdge`, `PutEdge` the same upload for each of the Processes of
`_generate_relation_pairs`. A lookup that fails is passed over and the upload tried
(`purview_registry.py:647`): `LookupFails`. What is found is compared by the attributes
that the request has (`:638`), so that a POST which leaves some out agrees with an entity
that has more: `Agrees` says which definitions, tags included, do. A DELETE is `Search`,
`Judge`, `Gather`, `Unlink` and `DeleteEntity`; edges are deleted by the guids that were
gathered (`:225`), so that one which another DELETE removed and a POST has put again in
between survives: `gone` keeps count of those. `Fail` may end any handler between two
requests; there is no transaction. Purview is external: its requests are atomic and
refuse an upload of what exists, as the code's use of `lastModifiedTS` expects.
The catalogues of a run are what Purview holds when the server starts.

### OnlineStore

A cell holds `<<key, feature, version>>`, so that a value that arrives at the wrong
place shows. `Redis` has no nulls and merges (`hset`); MongoDB has nulls and
replaces (`$set` of the whole value). A transfer is the steps of
`_transfer_data_between_sinks`, each of which can fail: the code logs the error
and goes on, or stops. A pipeline of Redis is taken as one step, as it is on one
server (redis-py wraps it in MULTI/EXEC); a cursor of MongoDB is not. The
configuration with a Redis cluster is not modelled. Jobs write rows and
`delete_feature_from_redis` deletes keys meanwhile. `setup` is what one behaviour
transfers where: `Setups` lists the directions, the names given, who writes, and
whether calls fail. `get_online_features` and `multi_get_online_features` change nothing
and what they answer is not modelled: they differ where a row cannot be decoded or the
sink is of no known type, for which `multi_get_online_features` answers nothing
(`client.py:467`) and `get_online_features` raises.

### Materialization

`Call`, `Submit` and `Return` are `materialize_features`; `Submit` assigns the
cutoff to the end of the caller's settings and then submits, as `client.py:982`
does. Jobs are modelled from outside: a job runs, writes its data, and ends; a
local one may die of a signal instead. `Wait` chooses a timeout or none. The local
launcher polls the process and its log (`LocalPoll`, `LocalLoops`, `LocalStalls`,
`LocalTimesOut`); the others poll a status, end on two values of it and sleep on for
every other (`RemoteEnds`, `RemoteTimesOut`). A Databricks run may be over with a life
cycle state that is neither (`JobSkipped`). The local wait raises when the log of the
latest submission is not there, which is so after one that failed: its path is set first
(`_localspark_submission.py:81`) and opened by the wait (`:179`). That is `LogIsMissing`.
`written` is the state between the data being in the sinks and the process
ending: what separates a job killed after its work from one killed before.


### Workspace

A call is a `plan`: the list of files it writes and uploads, and the submission.
A file that is written is empty or half there first (`Torn`). `Build` replaces the
preprocessing functions at once, deletes the driver, and plans the configuration
and the assignment of `anchor_list`; a function without source text (`Broken`) or
a feature of another type (`Mistyped`) ends it on the way. An upload is not one step: Synapse
creates the file, which empties the copy that is there, and fills it with a second
request (`_synapse_submission.py:498`, `:503`), and Databricks overwrites in place
(`_databricks_submission.py:147`). `EmptyCopy` leaves the copy `Torn`, `UploadFile` fills
it, and a job may read in between; if the second request fails (`SubmissionFails`) the
copy stays empty.
`GetOfflineFeatures`, `MaterializeFeatures` and `RegisterFeatures` write the
configuration again. A job reads its driver when Python starts (`Load`) and the
configurations when the driver calls Spark (`Run`), from `disk` when it is local and from
`cloud` otherwise. `patient` is a user who waits for every job before the next call.


## 3. Runs

Properties that hold:

| Run | Instance | What it shows |
|---|---|---|
| `sql_lineage` | one thread, names with and without the separator, two definitions, five entities | without concurrency and faults the registry implements `LineageStore`; entities stay readable, rows of one name agree, refusals are justified, and every request is answered |
| `sql_concurrent` | two threads, requests with arbitrary ids, faults | under every interleaving and fault the two directions of each edge agree, and downstream edges lead to younger entities, which is why `_bfs` ends without a visited set |
| `registration` | two processes with different definitions of a project, two calls, one fault | the ids that objects keep lead to what their process defined; `GET` of a project can always be answered; a call that returns has registered what it has ids for; a call raises only for a fault, for a name whose rows have multiplied, for another definition or for an input that was not listed |
| `purview` | two threads, four requests on four catalogues, servers that stop, lookups that fail | nothing is updated or doubled, answered POSTs are fully linked, nothing dangles as long as no POST meets a DELETE, no feature is made of itself |
| `sort_order` | every dependency graph of three features, each listed up to twice | upstream first, no copy lost, the final check never raises, the function returns when there is no cycle |
| `online` | two transfers in each of three setups, jobs and deletes, faults where no names are given | no value under another key or feature; a transfer that has got no key, for want of rows or because the query failed, has not touched its target; where nothing fails, nothing old is left and full rows arrive |
| `jobs` | local, Databricks and Synapse, range of up to two units, two calls, faults and signals | the cutoffs of a range of whole steps are its start, its end and the steps between; each call submits its steps; `true` from a remote launcher is true; `false` is never wrong; no local job is left running; a wait ends if it has a timeout or its job ends with a status that the launcher names |
| `workspace` | local and cluster, users who wait and who do not, two builds of five lists, three jobs | a job nobody interferes with runs, and runs what was built and asked; a job of a backfill on a cluster may fail, but if it runs, it runs that too; after a build that failed on a function, no preprocessing rather than half of it; a job on a cluster lacks a file only if a later job was prepared, by the same call if the user waits |

Statements of the repository's docs or comments that the code does not keep. Each
run stops at a counterexample:

| Run | Statement | What the code does |
|---|---|---|
| `sql_delete_race` | "Deletes entity if it has no dependent entities" (`client.py:348`) | the dependents are read in one statement and the entity is deleted in a later one; a POST commits in between |
| `sort_cycle` | "Cyclic dependency detected" (`registry_utils.py:259`) | a cycle keeps the `while` loop running for good; the `raise` after it is not reached |
| `backfill_retry` | one job for each step (`docs/concepts/materializing-features.md:61`) | a failed submission leaves the caller's end at its cutoff, and a second call skips the later steps |
| `spark_answer` | "Returns true if the job completed successfully" (`_abc.py:51`) | the local launcher answers true for a job it terminated itself |

### Bounds, and why they are enough

* `sql_lineage`: `MaxId = 5` gives ids 1 to 5. Project, source, anchor and a
  feature are the longest chain of relations, one entity more gives a second
  project, source, feature or anchor, and a derived feature with two inputs. One
  part with names of one and two parts is enough for two ways to spell one
  qualified name.
* `sql_concurrent`: two threads give every pair of racing statements. `AnyIds`
  lets requests pass ids of the wrong type or of nothing, which the handlers check
  only in part.
* `sort_order`: cycles of one, two and three features, chains, forks and joins are
  among the 512 graphs of three; two copies exercise `list.remove`. `MaxUses` is 1, since
  the graphs in which an input is named twice are too many for a run; the theorems
  hold for every bound, and `UpstreamFirst` is one of them.
* `registration`: two processes give every race of two scripts; two calls are one each
  or a repetition; one fault is one lost answer or one handler that failed, at any
  point. `MaxId` is above what two calls can create. The notebooks are the three that
  differ in what they list: all that a feature needs, an input left out, and a
  derived feature alone.
* `purview`: two threads and four requests give a POST cut short, its repetition,
  and a DELETE against either; starting from catalogues that already hold the
  longest chains, four requests reach what would take seven from an empty one.
* `online`: two keys and two features are needed for a value to be misplaced;
  two transfers for cells of two reads to meet; one version beyond the first for
  a write between the reads of one transfer.
* `workspace`: two builds so that one can be replaced by another; three jobs for a
  backfill of two with a job before or after it. The lists: two functions, two
  functions of one name, none, a broken one, and one that fails late.
* `jobs`: a range of two with steps of one and two has ranges that are no whole
  number of steps and those that are; two calls are a retry.

No constraint of a cfg cuts states off: every bound is in a guard of the module.
`CHECK_DEADLOCK FALSE` stands where the modelled program ends: a transfer is done, the
function has returned, no call or request is left. The SQL registry can always take a request
and is checked for deadlock.

### Fairness

* `SqlRegistry`: weak fairness of `Step(t)` for each worker thread, since a handler
  that runs is run on by the pool. Nothing is assumed of clients.
* `TopologicalSort`: weak fairness of `Next`: a sequential function.
* `Materialization`: weak fairness of `WaitStep`: a client that waits polls on. Strong
  fairness of `LocalTimesOut`: the loop of the local wait tests its timeout in every
  round (`_localspark_submission.py:180`), so that the test is enabled again and again
  rather than all the time, and the clock runs. Nothing is assumed of the jobs, so
  `EndedJobIsReported` is about waits with a timeout and about jobs that end, and never
  claims that one does. A run that was skipped is in neither case, and a wait
  for it without a timeout goes on for good.
* `Registration`, `OnlineStore`, `Workspace`, `PurviewRegistry`: none, and no liveness
  property. That every call of `register_features` ends is not claimed: one with cyclic
  derived features does not, as `sort_cycle` shows.


## 4. Theorems

Every safety invariant and every action property that a passing run checks is also a
theorem; what TLC shows on a small instance, the theorem says of all values of the
constants. `tlapm` checks the proofs, nothing is left out of them, and the proofs
rest on the assumptions that follow.

What the assumptions say, by module:

| Module | Assumptions | What they say |
|---|---|---|
| `SqlRegistry` | `Names`, `Defs`, `Bounds`, `Switches` | names are sequences of parts, there is a definition, bounds are numbers, switches Booleans |
| `Registration` | `Objects`, `Kinds`, `Defs`, `Notebooks`, `Limits` | the objects of a project have distinct names, a feature is in one anchor, and there are finitely many |
| `TopologicalSort` | `Counts` | bounds are numbers |
| `OnlineStore` | `Setups`, `Transfers`, `Bound` | a transfer goes from one store to the other, there is one, versions start at 1 |
| `Materialization` | `Launchers`, `Bounds` | the launchers are the three of the code, bounds are numbers |
| `Workspace` | `Anchors`, `Funcs`, `Lists`, `Contents`, `Cutoffs`, `Launchers`, `Bounds` | a list gives anchors functions; a list is not a number, a torn file or an absent one; the file of a backfill step is none of the other three |
| `PurviewRegistry` | `Defs`, `Agrees`, `Bounds`, `Catalogues` | definitions agree with definitions; what Purview holds at first is numbered from 1, refers to what is older, and links features as a handler that stopped half-way may have left them |

Two of them restrict what is looked at. In `Registration` an object stands for its name,
so that two objects of one name are excluded: `build_features` raises for two anchors or
two sources of a name (`client.py:284-299`), and nothing does for features or across
kinds. In `PurviewRegistry` the first catalogue has no entity that refers to a younger one
and no feature produced by a younger one; the handlers make neither, as `FeatureInv`
shows.

Hypotheses of single theorems, where what is stated is false without them:

* `Undisturbed` (all of `SqlLineageProofs` but `DuplicatesAgreeAlways`): one worker
  thread, clients that pass ids of the right type, no database error. `sql_delete_race`
  shows what two threads do to `DeletesOnlyUnused`, and §5 what an error between the
  two commits of a delete does.
* `DuplicatesAgreeAlways` assumes one thread and nothing else: it holds with faults and
  with arbitrary ids.
* `PurviewNothingDangles` assumes that the first catalogues are `Complete`.
  `CompleteAssumption` of `MCPurviewRegistry` lets TLC check that those of the run are.

**SqlRegistryProofs**: `TypeCorrect`, `MirroredAlways`, `EdgesByAgeAlways`, for any
number of threads, with faults and arbitrary ids. `TypeOK` is inductive and does
most of the work: it says that ids held in a handler's locals were given out
before, so an edge that a commit adds leads from an older id to the new one.
`Mirrored` follows since `Commit` adds pairs and `DeleteEdges` removes whatever
touches an id in either position. `EdgesByAge` is why a search in tables that stand
still ends, with any number of threads and requests behind them: each round leads to
younger ids, and there is a youngest.

**SqlLineageProofs**: `ReadableAlways`, `DuplicatesAgreeAlways`,
`DeletesOnlyUnusedAlways`, `RefusalIsJustifiedAlways` and `LineageImplemented`, the
refinement of `LineageStore`. The inductive invariant `LineageInv` has two halves. Of the
tables: edges join rows that exist (`EndsExist`), of types that go together
(`EdgesByType`); a feature of an anchor consumes what the anchor consumes
(`FeaturesFollowAnchor`); an anchor has its source until its own edges are cut
(`AnchorsHaveSource`). Of the locals: a row to be inserted has its owners and, once
they were checked, its inputs (`CreationOK`); a search has seen what one edge leads to
from whatever it left behind (`SearchOK`); what was looked at and is still there was not
empty, and is not now (`ProbedOK`); and nothing is downstream of what is about to be cut
(`Unused`). `FeaturesFollowAnchor` is what a reader might not expect. The search of a
DELETE follows one relation only, `Produces` from a source, and so never looks at what an
anchor on the source contains; an anchor that was found not empty is a reason to refuse
only because its features consume the source as well, and the search has met them.
The refinement maps a commit to one step of `LineageStore`, the cutting of edges to a
removal, and everything else to a stutter; that the removal is allowed there is `Unused`.

**RegistrationProofs**: `RegistrationTypeCorrectness`, `LineageAsWrittenAlways`,
`EveryProjectReadableAlways`, `ReturnedIsInProjectAlways`, `RaisesForAReasonAlways`, for
any number of processes, calls and faults; and `RegistryUsedAsSpecified`, that composed
with its clients the registry behaves as `SqlRegistry` says. `TablesOK` says of the
rows that each is what one object becomes (`RowsOK`), is in one project at most
(`OneProject`), and that a project contains what its anchors and derived features use
(`ProjectsOK`). Of each process: an id that an object keeps, or that an answer
carries, is `Registered`: a row of that name and definition, whose inputs are those of
this process, in the project of this process; what the next object needs has an id, is
being posted, or comes before it (`WorkOK`); the row a handler is about to insert is
the one this object asks for (`JobOK`); and an error has its reason (`ReplyOK`).
No process deletes, so the tables only grow (`Grows`), and what is
`Registered` stays so whatever the others insert (`RegisteredStays`): that is the
argument against interference, and it needs no lock. `QNameInjective` keeps rows of
different objects apart. That a project is inserted only by a process that has none is
what makes the id of a repeated call the same; the name check cannot give that, since
two threads can pass it at once.

**TopologicalSortProofs**: `TypeCorrectness`, `SortedUpstreamFirst`, `EveryCopyPlacedAlways`
and `CycleNeverReported` (this one says that the `raise` after the loop is dead code).
The inductive invariant names what the function's comments leave to the reader: the
lists only lose copies (`Shrinking`); while a feature is in `input`, so are its listed
inputs (`Waiting`); once the `for` has passed a feature, a copy of each of its inputs is
missing from `current`, so that the input stays behind when the level is taken
(`HeldBack`); what a placed feature needs is in a later level or still in `input`
(`Backed`); and what is listed is placed or in `input` (`Accounted`). `HeldBack` is
the step that makes it inductive, and it holds for visits in any order, including
visits to features that were themselves removed from `current` in this round.
`EveryCopyPlaced` sums over all levels. The sum is a fold, of which the prover knows
nothing but its definition by running totals; a `Take` puts one level in front, and the
proof exhibits the totals of the longer sequence.

**OnlineStoreProofs**: `OnlineTypeCorrectness`, `NothingMixedUpAlways`, `TargetKeptAlways`,
`NoStaleCellsAlways`, `FullRowsTransferredAlways`, for any number of transfers at once. Each
property has an invariant about what transfers carry. `OwnInv`: cells stay under their
key and feature, in the stores and in `rows`. `KeptInv`: a transfer without keys has
not begun, or has ended; so one that truncates has keys. `FreshInv`: when nothing fails, an
old cell is in the target only, never in a row that was fetched; once a transfer has
listed what it will delete, old cells are at those keys only, and once a transfer has
cleared the target there are none, whatever the others write. `FullInv`: every transfer
has the keys of all full rows and carries their cells (`Carries`), and a row that has
not arrived is `Pending` in some transfer; the last one to truncate is always such a
one.

**MaterializationProofs**. The cutoffs: `CutoffsInRange` and `CutoffsGrid` are pure
arithmetic on `\div` and `%`: the cutoffs are what lies whole steps before the end.
`SameGrid` turns that into whole steps after the start when the range is one, and gives
`CutoffsAlways`. The waits: the
invariant `IInv` is `TypeOK` with `start <= end`, `Monitored` (a wait is for a job that was
submitted, and has no answer yet) and `Truthful` (what each answer says of the
status now, which cannot change once the job has ended: `EndedStays`); it gives
`TypeCorrect`, `RemoteAnswersTrue`, `FalseIsNeverWrong` and `LocalLeavesNothing`.
The calls: `Covered` says that while a call runs, the steps of its range are
submitted or in `todo`. `end` moves with each submission, so the range is the one up to
`LastCutoff`, the end the settings will be left with; with it,
`EveryCallSubmitsItsSteps`.

**WorkspaceProofs**: `WorkspaceTypeCorrectness`, `CloudJobsLoseToFollowersAlways`,
`AllOrNoFunctionsAlways`, `JobsRunAsBuiltAlways`, for lists, cutoffs and numbers of jobs of any
size. The state that matters is the rest of the plan, a sequence of writes, uploads
and submissions, so the invariant says what each step of it will find (`Finds`: the last
write before it, or the disk as it is). An upload finds what the job it is for should
read (`UploadsOK`), a submission finds its files in place (`SubmitsOK`), jobs are submitted
in their order (`InTurn`), and whatever a job finds torn or missing on a cluster was
taken away for a job that follows it (`ReadsOK`). `AloneOK` says that while a job runs alone
the plan submits no other, and `FreshOK` that an undisturbed job finds, and has read, what
was written for it, or, if it is one of several, an empty copy that keeps it from
running. The plans of a call are concatenations of
one part per cutoff; `Chain` states what every part has and what concatenation keeps,
so that it holds of the whole. The whole is a fold again: that the flattened sequence
has what its parts have is shown by taking the shortest one that has not.

**PurviewRegistryProofs**. `StepOnEntities` sorts the steps of all handlers by what they do
to the entities: nothing, one more of a type and name that no entity has (`PutsOne`:
the precondition of the upload is judged by Purview when it comes, not when the
handler looked), or one less. With `GuidsAreNew`, which says that the next guid is of no
entity, the one that is put cannot stand in the place of another; that is all
`PurviewNeverUpdates` needs. `PurviewTypeCorrectness` comes from `Typed`, what the locals
of a handler are at each of its steps. `FeatureInv` on top of it says that the Processes between
features lead from older to younger guids, those not yet put included;
`PurviewSearchEnds` takes the youngest of a set. `LinkInv` says that an edge of the
entity is put, is still to be put, or has been taken away by a DELETE since, and gives
`PurviewAnsweredIsLinked`. `RefInv` says of which types references are, always. `QuietInv` is
about behaviours in which no request to Purview has failed, no server stopped and no POST
overlapped a DELETE so far: the ends of edges are there, what a POST is going to link is
there, nothing is downstream of what a DELETE is about to unlink, and what an entity refers
to leads to it or will by an edge some POST still has to put. `GoneInv` says that meanwhile
no edge that a DELETE has deleted comes back before the others that gathered it are
done, so that deleting by guid removes all that was gathered. They give
`PurviewNothingDangles`.

Only model-checked:

* liveness (`EveryRequestAnswered`, `ReturnsWithoutCycle`, `EndedJobIsReported`): fairness and `ENABLED` are out of the prover's reach;
* the runs that expect a violation, which are counterexamples.


## 5. Not modelled

* **Reads of the registries** (search, lineage, listings, the text of their answers):
  they change nothing. Whether `get_entity` and `get_project` can answer is modelled
  in committed states, not while a delete runs between their statements.
* **Registry gateway**: a permission layer in front of the registries with a table of
  its own. It forwards what it allows unchanged, so that nothing stated here depends
  on it. It has races of its own (hazards at `api.py:88`, `database.py:101`; also
  `rbac/db_rbac.py:27`, where threads share one list of records, and `:145`, where
  two POSTs of one project both insert an admin), which are in the plan.
* **Request bodies**: which ids a body holds is in `Registration`; the other fields
  are not.
* **The Spark engine**: Scala, not in the repository. Jobs are modelled from
  outside; which of several parallel jobs writes a row last is decided there, and so
  is what a failed job leaves.
* **Purview and its discovery search**: external; names that are looked up by the
  search (`purview_registry.py:692`) lag behind writes, and the model uses guids only.
* **Configuration, downloads, chat, command line, UI, deployment, data models**:
  input and output, or value classes; no state another part relies on.
* **Sample notebooks** under `docs/samples`, which make up most of the repository's
  lines, are uses of the client with recorded output.

Seen while modelling, and stated by no run:

* `db_registry.py:454` and its siblings drop what `__check_queue_version1` returns
  ("Just return the existing id", `:442`), so a repeated POST of a source, anchor or
  feature inserts a second row and the third fails on the assertion at `:426`. In
  particular a script that is run three times against one project fails, and
  `INPUT_CONTEXT`, which every call posts again for each anchor on it, gets there
  sooner. `RaisesForAReason` counts it among the reasons.
* `db_registry.py:351`: two projects of one name can be created by two threads at
  once, as in `registration`; from then on a POST of the project fails.
* `db_registry.py:907`: `_delete_all_entity_edges` commits before `_delete_entity`
  runs, so an error between the two is not rolled back, although the session maker says
  "If an exception is encountered, the session is rolled back"
  (`registry/sql-registry/registry/db/utils.py:80`): an anchor stays without its
  edges and cannot be read. `EveryEntityReadable` is checked without faults, and fails
  with them.
* `db_registry.py:229`: `get_project` of a project with an anchor on another
  project's source fails, since it looks the source up among the children.
* `client.py:1347`: the features of the first key are transferred, not all, as
  `:1322` says.
* `client.py:1343`: a `MongoDBCRUD` has no `client` attribute, so a transfer from MongoDB
  without names stops after the target was truncated (`NameFeaturesFails`).
* `client.py:1356`: rows with nulls are refused by `hset`, and the key is
  skipped with a log line (`Created`).
* `client.py:467`: `multi_get_online_features` answers nothing at all when one value cannot
  be decoded, and for a sink it does not know, where `get_online_features` raises.
* `client.py:554`: deleting one feature deletes the whole key (`DeleteFeature`).
* `client.py:810`: `get_offline_features` passes `output` to `submit_feathr_job`, a
  parameter only the local launcher has: on Databricks and Synapse the call ends in a
  `TypeError` after all uploads (`Accepts`).
* `_preprocessing_pyudf_manager.py:194`: the driver is written in place, so a local
  job that starts at that moment ends without an error and without having done
  anything (status `"void"`). `JobsRunAsBuilt` promises that a job runs only for the
  single job of a call of a user who waits.
* `_synapse_submission.py:498`: each job of a backfill uploads the driver and the
  feature configuration again under the names that the jobs before it read them by, and
  empties the copies first. A job that was submitted and has yet to read them may find them
  empty and fail, or do nothing; if the second request fails (`:503`) they stay
  empty. Against "All actions that triggers a spark job will be based on the result of
  this action" (`client.py:278`); `JobsRunAsBuilt` and `CloudJobsLoseToFollowers` say what
  is left of it.
* `_databricks_submission.py:279`: the wait asks for one status of success and a list of
  failures and sleeps on for any other, so that a run that was skipped never ends a
  wait without a timeout. `EndedJobIsReported` claims nothing of such a run.
* `_localspark_submission.py:179`: a wait after a submission that failed opens a log that was
  never written and raises, whatever became of the jobs submitted before (`LogIsMissing`).
* `_preprocessing_pyudf_manager.py:129`: two functions of one name are one, the later.
* `client.py:302`: a build that fails late leaves the new functions with the old
  `anchor_list`; jobs then combine the two.
* `purview_registry.py:641`: attributes Purview stores under another name than they
  are compared by (`schemaStr`) make a repeated POST of the source end with 412. A source
  whose first POST was cut short is therefore refused for good and never
  linked; `AnsweredIsLinked` speaks of answered POSTs only.
* `purview_registry.py:647`: a lookup that fails is taken for one that found nothing. The
  upload that follows is refused by Purview if the entity is there (`LookupFails`), and
  the POST ends with an error although it need not have.
* `purview_registry.py:226`: a POST that links to an entity while a DELETE removes it
  leaves a Process that leads nowhere; `NothingDangles` excludes the overlap.
* `materialization_settings.py:77`: the cutoffs count back from the end, so the start of a
  range that is no whole number of steps has no job, although `:11` calls the start
  inclusive and `docs/concepts/materializing-features.md:63` says that "both the start
  and end date will be included". The examples of the function are ranges of whole steps,
  and `CutoffsAreTheGrid` is about those only.
* `client.py:1013`: the jobs of a backfill run in parallel and overwrite each other's rows
  in any order.


## 6. Plan

1. **Theorems**. A termination measure of `topological_sort` as an action property (each
   round removes a feature from `input` when there is no cycle), and the edges of
   `Mirrored` and `EdgesByAge` for `Registration` by way of `RegistryUsedAsSpecified`.
2. **`RoleRecords`**: the gateway's table, the record written before the registry has
   answered, requests of two users, faults. Properties: a project in the registry
   has a record; records are not doubled.
3. **Read handlers** in a module over the tables of `SqlRegistry`: `get_project`
   in several statements while a delete runs, `get_lineage` and search.
4. **Request bodies** as operators: `to_dict`/`from_dict` of each definition, checked
   as a round trip over bounded inputs.
5. **The Purview registry against `LineageStore`**: what it promises without overlap
   of POST and DELETE.

A run answers one question and several properties share a run where
the instance suits them all, so that new modules add few runs. The runs that
end in a counterexample are kept as long as the code behaves so.
