---------------------------- MODULE OnlineStore ----------------------------
(***************************************************************************)
(* The online store: one feature table in Redis and in MongoDB, read and    *)
(* written through RedisCRUD and MongoDBCRUD (utils/crud.py), transferred   *)
(* from one to the other by FeathrClient._transfer_data_between_sinks, and  *)
(* a Redis key deleted by FeathrClient.delete_feature_from_redis.           *)
(*                                                                         *)
(* A cell of a row is the value written to it, <<key, feature, version>>,   *)
(* so that a value that ends up under another key or feature is visible.    *)
(* A Redis hash has no nulls; a MongoDB document may hold them.             *)
(***************************************************************************)
EXTENDS Integers, Sequences, FiniteSets

CONSTANTS
  Keys, Features,
  Transfers,      \* calls of _transfer_data_between_sinks, one each
  Setups,         \* what is transferred where, and what happens meanwhile
  MaxVersion      \* bound: versions written after the initial 0 and 1

Stores == {"redis", "mongo"}

ASSUME SetupsAssumption ==
  /\ Setups \subseteq [from : Stores, to : Stores, named : SUBSET Features,
                       written : SUBSET Stores, faults : BOOLEAN]
  /\ \A s \in Setups : s.from # s.to
ASSUME TransfersAssumption == Transfers # {}
ASSUME BoundAssumption == MaxVersion \in Nat \ {0}

VARIABLES
  setup,          \* the one of Setups this behaviour has
  store,          \* store[s][k]: the row of k in store s
  version,        \* the youngest version written so far
  pc,             \* pc[t]: the last step of transfer t
  keys,           \* all_keys
  doomed,         \* keys_to_delete of RedisCRUD.truncate
  names,          \* feature_names
  rows,           \* raw_data
  unread, todo,   \* keys multi_read has to read, create has to write
  deleting        \* delete_feature_from_redis past its hexists: <<key, feature>>

vars == <<setup, store, version, pc, keys, doomed, names, rows, unread, todo, deleting>>

\* The arguments of the transfers ({} is None), the stores that materialization
\* jobs write to meanwhile, and whether calls of a store may fail.
From == setup.from
To == setup.to
Named == setup.named
Written == setup.written
Faults == setup.faults

Absent == <<>>
Null == <<"null">>
Value(k, f, v) == <<k, f, v>>
Cells == {Absent, Null}
         \union {Value(k, f, v) : k \in Keys, f \in Features, v \in 0..MaxVersion}
Row == [Features -> Cells]
NoRow == [f \in Features |-> Absent]

\* A key is in a store when its row has a cell.
Present(s) == {k \in Keys : store[s][k] # NoRow}
Fields(row) == {f \in Features : row[f] # Absent}

Steps == {"start", "listed", "found", "truncated", "named", "fetched", "done"}

TypeOK ==
  /\ setup \in Setups
  /\ store \in [Stores -> [Keys -> Row]]
  /\ \A k \in Keys, f \in Features : store["redis"][k][f] # Null
  /\ version \in 1..MaxVersion
  /\ pc \in [Transfers -> Steps]
  /\ keys \in [Transfers -> SUBSET Keys] /\ doomed \in [Transfers -> SUBSET Keys]
  /\ names \in [Transfers -> SUBSET Features]
  /\ rows \in [Transfers -> [Keys -> Row]]
  /\ unread \in [Transfers -> SUBSET Keys] /\ todo \in [Transfers -> SUBSET Keys]
  /\ deleting \in {<<>>} \union (Keys \X Features)

\* The rows that hold version v in the cells of a set.
Filled(cells, v) ==
  [k \in Keys |-> [f \in Features |->
     IF <<k, f>> \in cells THEN Value(k, f, v) ELSE Absent]]

\* Any rows of version 1 in the source, full rows of version 0 in the target.
Init ==
  /\ setup \in Setups
  /\ \E cells \in SUBSET (Keys \X Features) :
       store = [s \in Stores |-> IF s = From THEN Filled(cells, 1)
                                             ELSE Filled(Keys \X Features, 0)]
  /\ version = 1
  /\ pc = [t \in Transfers |-> "start"]
  /\ keys = [t \in Transfers |-> {}] /\ doomed = [t \in Transfers |-> {}]
  /\ names = [t \in Transfers |-> Named]
  /\ rows = [t \in Transfers |-> [k \in Keys |-> NoRow]]
  /\ unread = [t \in Transfers |-> {}] /\ todo = [t \in Transfers |-> {}]
  /\ deleting = <<>>

-----------------------------------------------------------------------------
(* SinkCRUD *)

NullsToo(s, row, data) ==
  IF s = "mongo" THEN data
  ELSE [f \in Features |-> IF data[f] # Absent THEN data[f] ELSE row[f]]

\* create: hset merges into the hash and refuses nulls (the error is logged
\* only); $set replaces the whole value of the document.
Created(s, row, data) ==
  IF s = "mongo" THEN data
  ELSE IF \E f \in Features : data[f] = Null THEN row
  ELSE [f \in Features |-> IF data[f] # Absent THEN data[f] ELSE row[f]]

Set(s, k, row) == store' = [store EXCEPT ![s][k] = row]
Clear(s, K) ==
  store' = [store EXCEPT ![s] = [k \in Keys |-> IF k \in K THEN NoRow ELSE @[k]]]

\* What multi_read answers of a cell.
Seen(cell) == IF cell = Absent THEN Null ELSE cell

-----------------------------------------------------------------------------
(* _transfer_data_between_sinks *)

At(t, step) == pc[t] = step
Goto(t, step) == pc' = [pc EXCEPT ![t] = step]

ListKeysOnly(t) ==
  /\ At(t, "start")
  /\ \/ keys' = [keys EXCEPT ![t] = Present(From)]
     \/ Faults /\ keys' = keys
  /\ Goto(t, "listed")
  /\ UNCHANGED <<store, version, doomed, names, rows, unread, todo, deleting>>

\* get_all_keys answers [] on an error; without keys the target is left alone.
ListKeys(t) ==
  /\ At(t, "start")
  /\ \/ keys' = [keys EXCEPT ![t] = Present(From)]
     \/ Faults /\ keys' = keys
  /\ Goto(t, IF keys'[t] = {} THEN "done" ELSE "listed")
  /\ UNCHANGED <<store, version, doomed, names, rows, unread, todo, deleting>>

\* truncate of MongoDB deletes all documents, truncate of Redis finds the keys
\* of the table first.
DeleteMany(t) ==
  /\ To = "mongo" /\ At(t, "listed")
  /\ Clear(To, Keys)
  /\ Goto(t, "truncated")
  /\ UNCHANGED <<version, keys, doomed, names, rows, unread, todo, deleting>>

FindListedKeys(t) ==
  /\ To = "redis" /\ At(t, "listed")
  /\ doomed' = [doomed EXCEPT ![t] = keys[t]]
  /\ Goto(t, "found")
  /\ UNCHANGED <<store, version, keys, names, rows, unread, todo, deleting>>

FindKeys(t) ==
  /\ To = "redis" /\ At(t, "listed")
  /\ doomed' = [doomed EXCEPT ![t] = Present(To)]
  /\ Goto(t, "found")
  /\ UNCHANGED <<store, version, keys, names, rows, unread, todo, deleting>>

DeleteKeys(t) ==
  /\ At(t, "found")
  /\ Clear(To, doomed[t])
  /\ Goto(t, "truncated")
  /\ UNCHANGED <<version, keys, doomed, names, rows, unread, todo, deleting>>

\* An error in truncate is logged, and the transfer goes on.
TruncateFails(t) ==
  /\ Faults
  /\ At(t, "listed") \/ At(t, "found")
  /\ Goto(t, "truncated")
  /\ UNCHANGED <<store, version, keys, doomed, names, rows, unread, todo, deleting>>

NamesOfFirstKey(t) ==
  /\ At(t, "truncated")
  /\ \E first \in keys[t] :
       names' = [names EXCEPT ![t] = Fields(store[From][first])]
  /\ Goto(t, "named")
  /\ unread' = [unread EXCEPT ![t] = keys[t]]
  /\ UNCHANGED <<store, version, keys, doomed, rows, todo, deleting>>

\* Without an argument the names are the fields of the first key.
NameFeatures(t) ==
  /\ At(t, "truncated")
  /\ \/ Named # {} /\ names' = names /\ Goto(t, "named")
     \/ /\ Named = {} /\ From = "redis"
        /\ \E first \in keys[t] :
             /\ names' = [names EXCEPT ![t] = Fields(store[From][first])]
             /\ Goto(t, IF names'[t] = {} THEN "done" ELSE "named")
  /\ unread' = [unread EXCEPT ![t] = keys[t]]
  /\ UNCHANGED <<store, version, keys, doomed, rows, todo, deleting>>

\* hgetall fails, or the source is a MongoDBCRUD, which has no client.
NameFeaturesFails(t) ==
  /\ At(t, "truncated")
  /\ Named = {} /\ (Faults \/ From = "mongo")
  /\ Goto(t, "done")
  /\ UNCHANGED <<store, version, keys, doomed, names, rows, unread, todo, deleting>>

\* multi_read: a pipeline of Redis is one transaction, a cursor of MongoDB is not.
Fetch(t) ==
  /\ At(t, "named")
  /\ \E K \in (SUBSET unread[t]) \ {{}} :
       /\ From = "redis" => K = unread[t]
       /\ rows' = [rows EXCEPT ![t] = [k \in Keys |-> IF k \in K THEN store[From][k] ELSE @[k]]]
       /\ unread' = [unread EXCEPT ![t] = @ \ K]
  /\ todo' = [todo EXCEPT ![t] = keys[t]]
  /\ Goto(t, IF unread'[t] = {} THEN "fetched" ELSE "named")
  /\ UNCHANGED <<store, version, keys, doomed, names, deleting>>

\* On an error multi_read answers nulls for every key.
FetchFails(t) ==
  /\ Faults
  /\ At(t, "named")
  /\ rows' = [rows EXCEPT ![t] = [k \in Keys |-> NoRow]]
  /\ todo' = [todo EXCEPT ![t] = keys[t]]
  /\ unread' = [unread EXCEPT ![t] = {}]
  /\ Goto(t, "fetched")
  /\ UNCHANGED <<store, version, keys, doomed, names, deleting>>

DataByPosition(t, k) ==
  LET other == IF todo[t] = {k} THEN CHOOSE i \in keys[t] : TRUE ELSE k
  IN  [f \in Features |-> IF f \in names[t] THEN Seen(rows[t][other][f]) ELSE Absent]

\* target_data: nulls stand for what multi_read did not find.
Data(t, k) ==
  [f \in Features |-> IF f \in names[t] THEN Seen(rows[t][k][f]) ELSE Absent]

\* create of one key; an error is logged, and the loop goes on.
CopyKey(t, k) ==
  /\ At(t, "fetched") /\ k \in todo[t]
  /\ \/ Set(To, k, Created(To, store[To][k], Data(t, k)))
     \/ Faults /\ UNCHANGED store
  /\ todo' = [todo EXCEPT ![t] = @ \ {k}]
  /\ Goto(t, IF todo'[t] = {} THEN "done" ELSE "fetched")
  /\ UNCHANGED <<version, keys, doomed, names, rows, unread, deleting>>

Transfer(t) ==
  \/ ListKeys(t) \/ DeleteMany(t) \/ FindKeys(t) \/ DeleteKeys(t)
  \/ TruncateFails(t) \/ NameFeatures(t) \/ NameFeaturesFails(t)
  \/ Fetch(t) \/ FetchFails(t)
  \/ \E k \in Keys : CopyKey(t, k)

-----------------------------------------------------------------------------
(* Other users of the stores *)

\* A materialization job writes some features of a key.
Write(s, k) ==
  /\ s \in Written /\ version < MaxVersion
  /\ version' = version + 1
  /\ \E F \in (SUBSET Features) \ {{}} :
       LET data == [f \in Features |-> IF f \in F THEN Value(k, f, version')
                                                  ELSE Absent]
       IN  Set(s, k, Created(s, store[s][k], data))
  /\ UNCHANGED <<pc, keys, doomed, names, rows, unread, todo, deleting>>

\* delete_feature_from_redis asks for the field, then deletes the key.
FindFeature(k, f) ==
  /\ "redis" \in Written /\ deleting = <<>>
  /\ store["redis"][k][f] # Absent
  /\ deleting' = <<k, f>>
  /\ UNCHANGED <<store, version, pc, keys, doomed, names, rows, unread, todo>>

DeleteFeature ==
  /\ deleting # <<>>
  /\ Clear("redis", {deleting[1]})
  /\ deleting' = <<>>
  /\ UNCHANGED <<version, pc, keys, doomed, names, rows, unread, todo>>

Next ==
  /\ \/ \E t \in Transfers : Transfer(t)
     \/ \E s \in Stores, k \in Keys : Write(s, k)
     \/ \E k \in Keys, f \in Features : FindFeature(k, f)
     \/ DeleteFeature
  /\ UNCHANGED setup

Spec == Init /\ [][Next]_vars

-----------------------------------------------------------------------------
(* Properties *)

AllDone == \A t \in Transfers : At(t, "done")

\* With names given, a row that has all of them arrives when nothing fails, nobody
\* has written meanwhile and only transfers touch the target, however many of them
\* run at once.
FullRowsTransferred ==
  AllDone /\ version = 1 /\ To \notin Written /\ ~Faults =>
    \A k \in Keys : Named \subseteq Fields(store[From][k]) =>
      \A f \in Named : store[To][k][f] = store[From][k][f]

\* Whatever fails and whoever writes, no value gets under another key or feature.
NothingMixedUp ==
  \A s \in Stores, k \in Keys, f \in Features :
    store[s][k][f] \in {Absent, Null} \union {Value(k, f, v) : v \in 0..version}

\* When nothing fails, no cell from before a transfer is left after it.
NoStaleCells ==
  ~Faults => \A t \in Transfers : At(t, "done") /\ keys[t] # {} =>
    \A k \in Keys, f \in Features : store[To][k][f] # Value(k, f, 0)

\* While no transfer has got a key, because the source is empty or because
\* get_all_keys failed and answered [], the target keeps every row: an error at the
\* source empties no table until its keys are known.
TargetKeptWithoutKeys ==
  (\A t \in Transfers : keys[t] = {}) /\ To \notin Written =>
    store[To] = Filled(Keys \X Features, 0)

=============================================================================
