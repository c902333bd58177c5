------------------------- MODULE OnlineStoreProofs -------------------------
(***************************************************************************)
(* For any number of keys, features, transfers and versions, whatever is    *)
(* transferred and whoever writes meanwhile: no value gets under another     *)
(* key or feature, the target is kept until keys are known, and when nothing *)
(* fails a transfer leaves no old cell behind and brings the rows that are   *)
(* full.                                                                     *)
(***************************************************************************)
EXTENDS OnlineStore, TLAPS

-----------------------------------------------------------------------------
(* Cells and rows *)

\* What a store holds of a cell is told apart.
LEMMA CellsDiffer ==
  /\ Absent # Null
  /\ \A k, f, v : Value(k, f, v) # Absent /\ Value(k, f, v) # Null
  /\ \A k, f, v, j, g, w : Value(k, f, v) = Value(j, g, w) => k = j /\ f = g /\ v = w
BY DEF Absent, Null, Value

LEMMA CellsAre ==
  /\ Absent \in Cells /\ Null \in Cells /\ NoRow \in Row
  /\ \A k \in Keys, f \in Features, v \in 0..MaxVersion : Value(k, f, v) \in Cells
BY DEF Cells, Row, NoRow

LEMMA CreatedIs ==
  ASSUME NEW s \in Stores, NEW row \in Row, NEW data \in Row
  PROVE /\ Created(s, row, data) \in Row
        /\ \A f \in Features : Created(s, row, data)[f] \in {row[f], data[f]}
        /\ s = "redis" /\ (\A f \in Features : row[f] # Null)
             => \A f \in Features : Created(s, row, data)[f] # Null
        /\ (\A f \in Features : data[f] # Null)
             => \A f \in Features : data[f] # Absent => Created(s, row, data)[f] = data[f]
<1>1. CASE s = "mongo"
  BY <1>1 DEF Created
<1>2. CASE s = "redis" /\ \E f \in Features : data[f] = Null
  BY <1>2 DEF Created
<1>3. CASE s = "redis" /\ \A f \in Features : data[f] # Null
  <2>1. Created(s, row, data) = [f \in Features |-> IF data[f] # Absent THEN data[f] ELSE row[f]]
    BY <1>3 DEF Created
  <2> QED
    BY <1>3, <2>1 DEF Row
<1> QED
  BY <1>1, <1>2, <1>3 DEF Stores

LEMMA DataIs ==
  ASSUME TypeOK, NEW t \in Transfers, NEW k \in Keys
  PROVE /\ Data(t, k) \in Row
        /\ \A f \in Features : Data(t, k)[f] = IF f \in names[t] THEN Seen(rows[t][k][f]) ELSE Absent
<1>1. \A f \in Features : rows[t][k][f] \in Cells
  BY DEF TypeOK, Row
<1> QED
  BY <1>1, CellsAre DEF Data, Seen, Row

\* A write changes one row, and a delete empties some of one store.
StoreType == [Stores -> [Keys -> Row]]

LEMMA SetIs ==
  ASSUME store \in StoreType, NEW s \in Stores, NEW k \in Keys, NEW row \in Row, Set(s, k, row)
  PROVE /\ store' \in StoreType
        /\ \A x \in Stores, y \in Keys :
             store'[x][y] = IF x = s /\ y = k THEN row ELSE store[x][y]
BY DEF Set, StoreType

LEMMA ClearIs ==
  ASSUME store \in StoreType, NEW s \in Stores, NEW K, Clear(s, K)
  PROVE /\ store' \in StoreType
        /\ \A x \in Stores, y \in Keys :
             store'[x][y] = IF x = s /\ y \in K THEN NoRow ELSE store[x][y]
BY CellsAre DEF Clear, StoreType

LEMMA SetupIs ==
  ASSUME TypeOK
  PROVE /\ From \in Stores /\ To \in Stores /\ From # To
        /\ Named \subseteq Features /\ Written \subseteq Stores /\ Faults \in BOOLEAN
<1>1. setup \in [from : Stores, to : Stores, named : SUBSET Features,
                 written : SUBSET Stores, faults : BOOLEAN] /\ setup.from # setup.to
  BY SetupsAssumption DEF TypeOK
<1> QED
  BY <1>1 DEF From, To, Named, Written, Faults

-----------------------------------------------------------------------------
(* Type correctness *)

StoresTyped ==
  /\ setup \in Setups /\ version \in 1..MaxVersion
  /\ store \in StoreType
  /\ \A k \in Keys, f \in Features : store["redis"][k][f] # Null

LocalsTyped ==
  /\ pc \in [Transfers -> Steps]
  /\ keys \in [Transfers -> SUBSET Keys] /\ doomed \in [Transfers -> SUBSET Keys]
  /\ names \in [Transfers -> SUBSET Features]
  /\ rows \in [Transfers -> [Keys -> Row]]
  /\ unread \in [Transfers -> SUBSET Keys] /\ todo \in [Transfers -> SUBSET Keys]
  /\ deleting \in {<<>>} \union (Keys \X Features)

LEMMA TypeParts ==
  /\ TypeOK <=> StoresTyped /\ LocalsTyped
  /\ TypeOK' <=> StoresTyped' /\ LocalsTyped'
BY DEF TypeOK, StoresTyped, LocalsTyped, StoreType

\* The steps that touch no store.
LEMMA OtherSteps ==
  ASSUME TypeOK, NEW t \in Transfers, UNCHANGED <<setup, store, version, deleting>>,
         \/ ListKeys(t) \/ FindKeys(t) \/ TruncateFails(t) \/ NameFeatures(t)
         \/ NameFeaturesFails(t) \/ Fetch(t) \/ FetchFails(t)
  PROVE TypeOK'
<1>1. StoresTyped'
  BY TypeParts DEF StoresTyped
<1>2. From \in Stores /\ To \in Stores /\ LocalsTyped /\ store \in StoreType
  BY SetupIs, TypeParts DEF StoresTyped
<1>3. Present(From) \subseteq Keys /\ Present(To) \subseteq Keys
  BY DEF Present
<1>4. LocalsTyped'
  <2>1. CASE ListKeys(t)
    BY <1>2, <1>3, <2>1 DEF ListKeys, LocalsTyped, Goto, Steps
  <2>2. CASE FindKeys(t) \/ TruncateFails(t)
    <3>1. doomed' = doomed \/ doomed' = [doomed EXCEPT ![t] = Present(To)]
      BY <2>2 DEF FindKeys, TruncateFails
    <3>2. \E step \in Steps : pc' = [pc EXCEPT ![t] = step]
      BY <2>2 DEF FindKeys, TruncateFails, Goto, Steps
    <3>3. UNCHANGED <<keys, names, rows, unread, todo>>
      BY <2>2 DEF FindKeys, TruncateFails
    <3> QED
      BY <1>2, <1>3, <3>1, <3>2, <3>3 DEF LocalsTyped
  <2>3. CASE NameFeatures(t) \/ NameFeaturesFails(t)
    <3>1. \E S \in SUBSET Features : names' = names \/ names' = [names EXCEPT ![t] = S]
      BY <2>3 DEF NameFeatures, NameFeaturesFails, Fields
    <3>2. \E step \in Steps : pc' = [pc EXCEPT ![t] = step]
      BY <2>3 DEF NameFeatures, NameFeaturesFails, Goto, Steps
    <3>3. unread' = unread \/ unread' = [unread EXCEPT ![t] = keys[t]]
      BY <2>3 DEF NameFeatures, NameFeaturesFails
    <3>4. UNCHANGED <<keys, doomed, rows, todo>>
      BY <2>3 DEF NameFeatures, NameFeaturesFails
    <3>5. names' \in [Transfers -> SUBSET Features]
      BY <1>2, <3>1 DEF LocalsTyped
    <3>6. pc' \in [Transfers -> Steps] /\ unread' \in [Transfers -> SUBSET Keys]
      BY <1>2, <3>2, <3>3 DEF LocalsTyped
    <3> QED
      BY <1>2, <3>4, <3>5, <3>6 DEF LocalsTyped
  <2>4. CASE Fetch(t)
    <3>1. PICK K \in (SUBSET unread[t]) \ {{}} :
            /\ rows' = [rows EXCEPT ![t] = [k \in Keys |-> IF k \in K THEN store[From][k] ELSE @[k]]]
            /\ unread' = [unread EXCEPT ![t] = @ \ K]
      BY <2>4 DEF Fetch
    <3>2. rows' \in [Transfers -> [Keys -> Row]]
      BY <1>2, <3>1 DEF LocalsTyped, StoreType
    <3> QED
      BY <1>2, <2>4, <3>1, <3>2 DEF Fetch, LocalsTyped, Goto, Steps
  <2>5. CASE FetchFails(t)
    <3>1. rows' \in [Transfers -> [Keys -> Row]]
      BY <1>2, <2>5, CellsAre DEF FetchFails, LocalsTyped
    <3> QED
      BY <1>2, <2>5, <3>1 DEF FetchFails, LocalsTyped, Goto, Steps
  <2> QED
    BY <2>1, <2>2, <2>3, <2>4, <2>5
<1> QED
  BY <1>1, <1>4, TypeParts

\* The steps that clear or write.
LEMMA ClearingSteps ==
  ASSUME TypeOK, UNCHANGED <<setup, version>>,
         DeleteFeature \/ \E t \in Transfers : DeleteMany(t) \/ DeleteKeys(t)
  PROVE TypeOK'
<1>0. PICK s \in Stores : \E K : Clear(s, K)
  BY SetupIs DEF DeleteFeature, DeleteMany, DeleteKeys, Stores
<1>1. PICK K : Clear(s, K)
  BY <1>0
<1>2. StoresTyped'
  <2>1. StoresTyped
    BY TypeParts
  <2>2. /\ store' \in StoreType
        /\ \A x \in Stores, y \in Keys :
             store'[x][y] = IF x = s /\ y \in K THEN NoRow ELSE store[x][y]
    BY <1>1, <2>1, ClearIs DEF StoresTyped
  <2>3. \A f \in Features : NoRow[f] # Null
    BY CellsDiffer DEF NoRow
  <2> QED
    BY <2>1, <2>2, <2>3 DEF StoresTyped, Stores
<1>3. LocalsTyped'
  <2>1. LocalsTyped
    BY TypeParts
  <2> QED
    BY <2>1 DEF LocalsTyped, DeleteFeature, DeleteMany, DeleteKeys, Goto, Steps
<1> QED
  BY <1>2, <1>3, TypeParts

LEMMA RowWritten ==
  ASSUME StoresTyped, setup' = setup, version' \in 1..MaxVersion,
         NEW s \in Stores, NEW k \in Keys, NEW data \in Row, Set(s, k, Created(s, store[s][k], data))
  PROVE StoresTyped'
<1>1. store[s][k] \in Row
  BY DEF StoresTyped, StoreType
<1>2. PICK row \in Row : row = Created(s, store[s][k], data)
  BY <1>1, CreatedIs
<1>3. /\ store' \in StoreType
      /\ \A x \in Stores, y \in Keys :
           store'[x][y] = IF x = s /\ y = k THEN row ELSE store[x][y]
  BY <1>2, SetIs DEF StoresTyped
<1>4. s = "redis" => \A f \in Features : row[f] # Null
  BY <1>1, <1>2, CreatedIs DEF StoresTyped
<1> QED
  BY <1>3, <1>4 DEF StoresTyped, Stores

LEMMA WritingSteps ==
  ASSUME TypeOK, setup' = setup,
         \/ \E t \in Transfers, k \in Keys : CopyKey(t, k)
         \/ \E s \in Stores, k \in Keys : Write(s, k)
  PROVE TypeOK'
<1>1. StoresTyped /\ LocalsTyped
  BY TypeParts
<1>2. ASSUME NEW t \in Transfers, NEW k \in Keys, CopyKey(t, k) PROVE TypeOK'
  <2>1. LocalsTyped'
    BY <1>1, <1>2 DEF LocalsTyped, CopyKey, Goto, Steps
  <2>2. CASE Set(To, k, Created(To, store[To][k], Data(t, k)))
    <3>1. version' \in 1..MaxVersion /\ Data(t, k) \in Row /\ To \in Stores
      BY <1>1, <1>2, DataIs, SetupIs DEF CopyKey, StoresTyped
    <3> QED
      BY <1>1, <2>1, <2>2, <3>1, RowWritten, TypeParts
  <2>3. CASE UNCHANGED store
    BY <1>1, <1>2, <2>1, <2>3, TypeParts DEF CopyKey, StoresTyped
  <2> QED
    BY <1>2, <2>2, <2>3 DEF CopyKey
<1>3. ASSUME NEW s \in Stores, NEW k \in Keys, Write(s, k) PROVE TypeOK'
  <2>1. LocalsTyped'
    BY <1>1, <1>3 DEF LocalsTyped, Write
  <2>2. version' \in 1..MaxVersion
    BY <1>1, <1>3, BoundAssumption DEF Write, StoresTyped
  <2>3. PICK F \in (SUBSET Features) \ {{}} :
          Set(s, k, Created(s, store[s][k], [f \in Features |-> IF f \in F THEN Value(k, f, version')
                                                                ELSE Absent]))
    BY <1>3 DEF Write
  <2>4. PICK data : data = [f \in Features |-> IF f \in F THEN Value(k, f, version') ELSE Absent]
    OBVIOUS
  <2>5. data \in Row
    BY <2>2, <2>4, CellsAre DEF Row
  <2> QED
    BY <1>1, <2>1, <2>2, <2>3, <2>4, <2>5, RowWritten, TypeParts
<1> QED
  BY <1>2, <1>3

LEMMA InitTyped == Init => TypeOK
<1> SUFFICES ASSUME Init PROVE TypeOK
  OBVIOUS
<1>1. \A cells, v : v \in 0..MaxVersion => Filled(cells, v) \in [Keys -> Row]
  BY CellsAre DEF Filled, Row
<1>2. PICK cells :
        store = [s \in Stores |-> IF s = From THEN Filled(cells, 1) ELSE Filled(Keys \X Features, 0)]
  BY DEF Init
<1>3. 0 \in 0..MaxVersion /\ 1 \in 0..MaxVersion /\ 1 \in 1..MaxVersion
  BY BoundAssumption
<1>4. store \in StoreType
  BY <1>1, <1>2, <1>3 DEF StoreType
<1>5. \A k \in Keys, f \in Features : store["redis"][k][f] # Null
  <2>1. \A c, v : \A k \in Keys, f \in Features : Filled(c, v)[k][f] # Null
    BY CellsDiffer DEF Filled
  <2> QED
    BY <1>2, <2>1 DEF Stores
<1>6. Named \subseteq Features
  <2>1. setup \in [from : Stores, to : Stores, named : SUBSET Features,
                   written : SUBSET Stores, faults : BOOLEAN]
    BY SetupsAssumption DEF Init
  <2> QED
    BY <2>1 DEF Named
<1>7. LocalsTyped
  BY <1>6, CellsAre DEF Init, LocalsTyped, Steps
<1> QED
  BY <1>3, <1>4, <1>5, <1>7, TypeParts DEF Init, StoresTyped

LEMMA NextTyped == TypeOK /\ [Next]_vars => TypeOK'
<1> SUFFICES ASSUME TypeOK, [Next]_vars PROVE TypeOK'
  OBVIOUS
<1>1. CASE UNCHANGED vars
  BY <1>1 DEF vars, TypeOK
<1>2. CASE Next
  <2>1. setup' = setup
    BY <1>2 DEF Next
  <2>2. ASSUME NEW t \in Transfers, Transfer(t) PROVE TypeOK'
    <3>1. CASE DeleteMany(t) \/ DeleteKeys(t)
      BY <2>1, <3>1, ClearingSteps DEF DeleteMany, DeleteKeys
    <3>2. CASE \E k \in Keys : CopyKey(t, k)
      BY <2>1, <3>2, WritingSteps
    <3>3. CASE \/ ListKeys(t) \/ FindKeys(t) \/ TruncateFails(t) \/ NameFeatures(t)
               \/ NameFeaturesFails(t) \/ Fetch(t) \/ FetchFails(t)
      <4>1. UNCHANGED <<setup, store, version, deleting>>
        BY <2>1, <3>3 DEF ListKeys, FindKeys, TruncateFails, NameFeatures, NameFeaturesFails,
           Fetch, FetchFails
      <4> QED
        BY <3>3, <4>1, OtherSteps
    <3> QED
      BY <2>2, <3>1, <3>2, <3>3 DEF Transfer
  <2>3. ASSUME NEW s \in Stores, NEW k \in Keys, Write(s, k) PROVE TypeOK'
    BY <2>1, <2>3, WritingSteps
  <2>4. ASSUME NEW k \in Keys, NEW f \in Features, FindFeature(k, f) PROVE TypeOK'
    BY <2>1, <2>4 DEF FindFeature, TypeOK
  <2>5. CASE DeleteFeature
    BY <2>1, <2>5, ClearingSteps DEF DeleteFeature
  <2> QED
    BY <1>2, <2>2, <2>3, <2>4, <2>5 DEF Next
<1> QED
  BY <1>1, <1>2

\* The stores hold rows of cells, Redis no nulls, and the locals of the transfers
\* are sets of keys and rows.
THEOREM OnlineTypeCorrectness == Spec => []TypeOK
BY InitTyped, NextTyped, PTL DEF Spec

-----------------------------------------------------------------------------
(* What a step does to cells *)

\* A cell is left or emptied, gets what a transfer carries, or is written anew.
LEMMA CellSteps ==
  ASSUME TypeOK, [Next]_vars, NEW s \in Stores, NEW k \in Keys, NEW f \in Features
  PROVE \/ store'[s][k][f] \in {store[s][k][f], Absent}
        \/ s = To /\ \E t \in Transfers :
             pc[t] = "fetched" /\ store'[s][k][f] \in {rows[t][k][f], Null}
        \/ s \in Written /\ version' = version + 1 /\ store'[s][k][f] = Value(k, f, version')
<1> DEFINE Goal == \/ store'[s][k][f] \in {store[s][k][f], Absent}
                   \/ s = To /\ \E t \in Transfers :
                        pc[t] = "fetched" /\ store'[s][k][f] \in {rows[t][k][f], Null}
                   \/ s \in Written /\ version' = version + 1 /\ store'[s][k][f] = Value(k, f, version')
<1>1. store \in StoreType
  BY DEF TypeOK, StoreType
<1>2. ASSUME UNCHANGED store PROVE Goal
  BY <1>2
<1>3. ASSUME NEW x \in Stores, NEW K, Clear(x, K) PROVE Goal
  BY <1>1, <1>3, ClearIs DEF NoRow
<1>4. ASSUME NEW t \in Transfers, NEW j \in Keys, CopyKey(t, j) PROVE Goal
  <2>1. CASE Set(To, j, Created(To, store[To][j], Data(t, j)))
    <3>1. To \in Stores /\ store[To][j] \in Row /\ Data(t, j) \in Row
      BY <1>1, DataIs, SetupIs DEF StoreType
    <3>2. PICK row \in Row : row = Created(To, store[To][j], Data(t, j))
      BY <3>1, CreatedIs
    <3>3. row[f] \in {store[To][j][f], Data(t, j)[f]}
      BY <3>1, <3>2, CreatedIs
    <3>4. Data(t, j)[f] \in {Absent, rows[t][j][f], Null}
      BY DataIs DEF Seen
    <3>5. store'[s][k] = IF s = To /\ k = j THEN row ELSE store[s][k]
      BY <1>1, <2>1, <3>1, <3>2, SetIs
    <3> QED
      BY <1>4, <3>3, <3>4, <3>5 DEF CopyKey, At
  <2> QED
    BY <1>2, <1>4, <2>1 DEF CopyKey
<1>5. ASSUME NEW x \in Stores, NEW j \in Keys, Write(x, j) PROVE Goal
  <2>1. PICK F \in (SUBSET Features) \ {{}} :
          Set(x, j, Created(x, store[x][j], [g \in Features |-> IF g \in F THEN Value(j, g, version')
                                                                ELSE Absent]))
    BY <1>5 DEF Write
  <2>2. PICK data : data = [g \in Features |-> IF g \in F THEN Value(j, g, version') ELSE Absent]
    OBVIOUS
  <2>3. version' \in 1..MaxVersion
    BY <1>5, BoundAssumption DEF Write, TypeOK
  <2>4. data \in Row /\ store[x][j] \in Row
    BY <1>1, <2>2, <2>3, CellsAre DEF Row, StoreType
  <2>5. PICK row \in Row : row = Created(x, store[x][j], data)
    BY <2>4, CreatedIs
  <2>6. row[f] \in {store[x][j][f], data[f]}
    BY <2>4, <2>5, CreatedIs
  <2>7. store'[s][k] = IF s = x /\ k = j THEN row ELSE store[s][k]
    BY <1>1, <2>1, <2>2, <2>5, SetIs
  <2> QED
    BY <1>5, <2>2, <2>6, <2>7 DEF Write
<1>6. CASE Next
  <2>1. ASSUME NEW t \in Transfers, Transfer(t) PROVE Goal
    <3>1. CASE DeleteMany(t) \/ DeleteKeys(t)
      BY <1>3, <3>1, SetupIs DEF DeleteMany, DeleteKeys
    <3>2. CASE \E j \in Keys : CopyKey(t, j)
      BY <1>4, <3>2
    <3>3. CASE \/ ListKeys(t) \/ FindKeys(t) \/ TruncateFails(t) \/ NameFeatures(t)
               \/ NameFeaturesFails(t) \/ Fetch(t) \/ FetchFails(t)
      <4>1. UNCHANGED store
        BY <3>3 DEF ListKeys, FindKeys, TruncateFails, NameFeatures, NameFeaturesFails,
           Fetch, FetchFails
      <4> QED
        BY <1>2, <4>1
    <3> QED
      BY <2>1, <3>1, <3>2, <3>3 DEF Transfer
  <2>2. ASSUME NEW j \in Keys, NEW g \in Features, FindFeature(j, g) PROVE Goal
    BY <1>2, <2>2 DEF FindFeature
  <2>3. CASE DeleteFeature
    BY <1>3, <2>3 DEF DeleteFeature, Stores
  <2> QED
    BY <1>5, <1>6, <2>1, <2>2, <2>3 DEF Next
<1> QED
  BY <1>2, <1>6 DEF vars

\* A transfer keeps the rows it has, reads them, or gives them up.
LEMMA RowSteps ==
  ASSUME TypeOK, [Next]_vars, NEW t \in Transfers, NEW k \in Keys
  PROVE rows'[t][k] \in {rows[t][k], store[From][k], NoRow}
<1>1. rows \in [Transfers -> [Keys -> Row]]
  BY DEF TypeOK
<1>2. CASE rows' = rows
  BY <1>2
<1>3. ASSUME NEW u \in Transfers, Fetch(u) PROVE rows'[t][k] \in {rows[t][k], store[From][k], NoRow}
  BY <1>1, <1>3 DEF Fetch
<1>4. ASSUME NEW u \in Transfers, FetchFails(u)
      PROVE rows'[t][k] \in {rows[t][k], store[From][k], NoRow}
  BY <1>1, <1>4 DEF FetchFails
<1>5. rows' = rows \/ \E u \in Transfers : Fetch(u) \/ FetchFails(u)
  BY DEF Next, vars, Transfer, ListKeys, DeleteMany, FindKeys, DeleteKeys, TruncateFails, NameFeatures,
     NameFeaturesFails, CopyKey, Write, FindFeature, DeleteFeature
<1> QED
  BY <1>2, <1>3, <1>4, <1>5

LEMMA VersionSteps ==
  ASSUME TypeOK, [Next]_vars
  PROVE setup' = setup /\ version' \in {version, version + 1} /\ version \in Nat \ {0}
BY BoundAssumption DEF TypeOK, Next, vars, Transfer, ListKeys, DeleteMany, FindKeys, DeleteKeys, TruncateFails,
   NameFeatures, NameFeaturesFails, Fetch, FetchFails, CopyKey, Write, FindFeature, DeleteFeature

-----------------------------------------------------------------------------
(* Nothing is mixed up *)

\* A cell holds nothing, or a value that was written under its own key and feature.
Own(cell, k, f) == cell \in {Absent, Null} \union {Value(k, f, v) : v \in 0..version}

\* So do the rows that a transfer has read.
OwnInv ==
  /\ NothingMixedUp
  /\ \A t \in Transfers, k \in Keys, f \in Features : Own(rows[t][k][f], k, f)

LEMMA OwnNext == TypeOK /\ OwnInv /\ [Next]_vars => OwnInv'
<1> SUFFICES ASSUME TypeOK, OwnInv, [Next]_vars PROVE OwnInv'
  OBVIOUS
<1>1. setup' = setup /\ version' \in {version, version + 1} /\ version \in Nat \ {0}
  BY VersionSteps
<1>2. 0..version \subseteq 0..version' /\ version' \in 0..version'
  BY <1>1
<1>3. \A cell, k, f : Own(cell, k, f) => Own(cell, k, f)'
  BY <1>2 DEF Own
<1>4. \A k, f, w : Own(Absent, k, f)' /\ Own(Null, k, f)' /\ (w = version' => Own(Value(k, f, w), k, f)')
  BY <1>2 DEF Own
<1>5. \A s \in Stores, k \in Keys, f \in Features : Own(store[s][k][f], k, f)
  BY DEF OwnInv, NothingMixedUp, Own
<1>6. ASSUME NEW s \in Stores, NEW k \in Keys, NEW f \in Features PROVE Own(store[s][k][f], k, f)'
  <2>1. \/ store'[s][k][f] \in {store[s][k][f], Absent, Null, Value(k, f, version')}
        \/ \E t \in Transfers : store'[s][k][f] = rows[t][k][f]
    BY CellSteps
  <2>2. PICK cell, w : cell = store'[s][k][f] /\ w = version'
    OBVIOUS
  <2>3. Own(cell, k, f)'
    <3>1. CASE cell = store[s][k][f]
      BY <1>3, <1>5, <3>1
    <3>2. CASE cell \in {Absent, Null, Value(k, f, w)}
      BY <1>4, <2>2, <3>2
    <3>3. CASE \E t \in Transfers : cell = rows[t][k][f]
      BY <1>3, <3>3 DEF OwnInv
    <3> QED
      BY <2>1, <2>2, <3>1, <3>2, <3>3
  <2> QED
    BY <2>2, <2>3 DEF Own
<1>7. ASSUME NEW t \in Transfers, NEW k \in Keys, NEW f \in Features PROVE Own(rows[t][k][f], k, f)'
  <2>1. rows'[t][k][f] \in {rows[t][k][f], store[From][k][f], Absent}
    BY RowSteps DEF NoRow
  <2>2. \E cell : cell = rows'[t][k][f] /\ Own(cell, k, f)'
    BY <1>3, <1>4, <1>5, <2>1, SetupIs DEF OwnInv
  <2> QED
    BY <2>2 DEF Own
<1> QED
  BY <1>6, <1>7 DEF OwnInv, NothingMixedUp, Own

\* Whatever fails and whoever writes, a value stays under its key and its feature, in
\* the stores (crud.py) and in what a transfer carries from one to the other.
THEOREM NothingMixedUpAlways == Spec => []NothingMixedUp
<1>1. Init => OwnInv
  <2> SUFFICES ASSUME Init PROVE OwnInv
    OBVIOUS
  <2>1. \A c, v : v \in 0..1 => \A k \in Keys, f \in Features :
          Filled(c, v)[k][f] \in {Absent} \union {Value(k, f, w) : w \in 0..1}
    BY DEF Filled
  <2>2. \A s \in Stores : \E c, v : v \in 0..1 /\ store[s] = Filled(c, v)
    BY DEF Init
  <2>3. version = 1 /\ rows = [t \in Transfers |-> [k \in Keys |-> NoRow]]
    BY DEF Init
  <2> QED
    BY <2>1, <2>2, <2>3 DEF OwnInv, NothingMixedUp, Own, NoRow
<1>2. OwnInv => NothingMixedUp
  BY DEF OwnInv
<1> QED
  BY <1>1, <1>2, OwnNext, OnlineTypeCorrectness, PTL DEF Spec

-----------------------------------------------------------------------------
(* No old cell is left *)

\* A step is of one transfer, or of none.
LEMMA OwnSteps ==
  ASSUME TypeOK, [Next]_vars, NEW u \in Transfers
  PROVE \/ Transfer(u)
        \/ /\ pc'[u] = pc[u] /\ keys'[u] = keys[u] /\ doomed'[u] = doomed[u] /\ names'[u] = names[u]
           /\ rows'[u] = rows[u] /\ unread'[u] = unread[u] /\ todo'[u] = todo[u]
<1> DEFINE Same == /\ pc'[u] = pc[u] /\ keys'[u] = keys[u] /\ doomed'[u] = doomed[u]
                   /\ names'[u] = names[u] /\ rows'[u] = rows[u]
                   /\ unread'[u] = unread[u] /\ todo'[u] = todo[u]
<1>1. ASSUME NEW t \in Transfers, t # u, Transfer(t) PROVE Same
  <2>1. CASE ListKeys(t) \/ DeleteMany(t) \/ FindKeys(t)
    BY <1>1, <2>1 DEF TypeOK, ListKeys, DeleteMany, FindKeys, Goto
  <2>2. CASE DeleteKeys(t) \/ TruncateFails(t) \/ NameFeatures(t) \/ NameFeaturesFails(t)
    BY <1>1, <2>2 DEF TypeOK, DeleteKeys, TruncateFails, NameFeatures, NameFeaturesFails, Goto
  <2>3. CASE Fetch(t) \/ FetchFails(t)
    BY <1>1, <2>3 DEF TypeOK, Fetch, FetchFails, Goto
  <2>4. CASE \E k \in Keys : CopyKey(t, k)
    BY <1>1, <2>4 DEF TypeOK, CopyKey, Goto
  <2> QED
    BY <1>1, <2>1, <2>2, <2>3, <2>4 DEF Transfer
<1>2. CASE UNCHANGED vars
  BY <1>2 DEF vars
<1>3. CASE /\ ~\E t \in Transfers : Transfer(t)
           /\ Next
  BY <1>3 DEF Next, Write, FindFeature, DeleteFeature
<1> QED
  BY <1>1, <1>2, <1>3 DEF Next

\* Old cells are in the target only, and not where a transfer has cleared it.
FreshRow(row, k) == \A f \in Features : row[f] # Value(k, f, 0)

Cleared(t) ==
  pc[t] \in {"truncated", "named", "fetched"} \/ (pc[t] = "done" /\ keys[t] # {})

FreshInv ==
  ~Faults =>
    /\ \A k \in Keys : FreshRow(store[From][k], k)
    /\ \A t \in Transfers :
         /\ \A k \in Keys : FreshRow(rows[t][k], k)
         /\ pc[t] = "found" => \A k \in Keys \ doomed[t] : FreshRow(store[To][k], k)
         /\ Cleared(t) => \A k \in Keys : FreshRow(store[To][k], k)

LEMMA FreshNext == TypeOK /\ FreshInv /\ [Next]_vars => FreshInv'
<1> SUFFICES ASSUME TypeOK, FreshInv, [Next]_vars, ~Faults' PROVE FreshInv'
  BY DEF FreshInv
<1>1. /\ setup' = setup /\ From' = From /\ To' = To /\ ~Faults
      /\ version' \in {version, version + 1} /\ version \in Nat \ {0}
  BY VersionSteps DEF From, To, Faults
<1>2. \A k, f, w : w \in {version, version + 1} => Value(k, f, w) # Value(k, f, 0)
  BY <1>1, CellsDiffer
<1>3. /\ \A k \in Keys : FreshRow(store[From][k], k)
      /\ \A t \in Transfers, k \in Keys : FreshRow(rows[t][k], k)
  BY <1>1 DEF FreshInv
<1>4. From \in Stores /\ To \in Stores /\ From # To
  BY SetupIs
<1>5. ASSUME NEW k \in Keys PROVE FreshRow(store[From][k], k)'
  <2>1. ASSUME NEW f \in Features PROVE store'[From][k][f] # Value(k, f, 0)
    BY <1>1, <1>2, <1>3, <1>4, CellSteps, CellsDiffer DEF FreshRow
  <2> QED
    BY <1>1, <2>1 DEF FreshRow
<1>6. ASSUME NEW k \in Keys, FreshRow(store[To][k], k) PROVE FreshRow(store[To][k], k)'
  <2>1. ASSUME NEW f \in Features PROVE store'[To][k][f] # Value(k, f, 0)
    BY <1>1, <1>2, <1>3, <1>4, <1>6, CellSteps, CellsDiffer DEF FreshRow
  <2> QED
    BY <1>1, <2>1 DEF FreshRow
<1>7. ASSUME NEW t \in Transfers, NEW k \in Keys PROVE FreshRow(rows[t][k], k)'
  <2>1. FreshRow(NoRow, k)
    BY CellsDiffer DEF FreshRow, NoRow
  <2> QED
    BY <1>3, <2>1, RowSteps DEF FreshRow
<1>8. ASSUME NEW t \in Transfers
      PROVE /\ pc'[t] = "found" => \A k \in Keys \ doomed'[t] : FreshRow(store[To][k], k)'
            /\ Cleared(t)' => \A k \in Keys : FreshRow(store[To][k], k)'
  <2>1. /\ pc[t] = "found" => \A k \in Keys \ doomed[t] : FreshRow(store[To][k], k)
        /\ Cleared(t) => \A k \in Keys : FreshRow(store[To][k], k)
    BY <1>1 DEF FreshInv
  <2>2. CASE pc'[t] = pc[t] /\ keys'[t] = keys[t] /\ doomed'[t] = doomed[t]
    BY <1>6, <2>1, <2>2 DEF Cleared
  <2>3. CASE ListKeys(t)
    <3>1. pc'[t] \in {"listed", "done"} /\ (pc'[t] = "done" => keys'[t] = {})
      BY <2>3 DEF ListKeys, Goto, TypeOK
    <3> QED
      BY <3>1 DEF Cleared
  <2>4. CASE DeleteMany(t)
    <3>1. pc'[t] = "truncated" /\ \A k \in Keys : store'[To][k] = NoRow
      BY <1>4, <2>4, ClearIs DEF DeleteMany, Goto, TypeOK, StoreType
    <3>2. \A k \in Keys : FreshRow(store[To][k], k)'
      BY <1>1, <3>1, CellsDiffer DEF FreshRow, NoRow
    <3> QED
      BY <3>1, <3>2
  <2>5. CASE FindKeys(t)
    <3>1. pc'[t] = "found" /\ doomed'[t] = Present(To) /\ store' = store
      BY <2>5 DEF FindKeys, Goto, TypeOK
    <3>2. \A k \in Keys \ Present(To) : FreshRow(store[To][k], k)'
      BY <1>1, <3>1, CellsDiffer DEF FreshRow, NoRow, Present
    <3> QED
      BY <3>1, <3>2 DEF Cleared
  <2>6. CASE DeleteKeys(t)
    <3>1. /\ pc[t] = "found" /\ pc'[t] = "truncated"
          /\ \A k \in Keys : k \in doomed[t] => store'[To][k] = NoRow
      BY <1>4, <2>6, ClearIs DEF DeleteKeys, At, Goto, TypeOK, StoreType
    <3>2. ASSUME NEW k \in Keys PROVE FreshRow(store[To][k], k)'
      <4>1. CASE k \in doomed[t]
        BY <1>1, <3>1, <4>1, CellsDiffer DEF FreshRow, NoRow
      <4>2. CASE k \notin doomed[t]
        BY <1>6, <2>1, <3>1, <4>2
      <4> QED
        BY <4>1, <4>2
    <3> QED
      BY <3>1, <3>2
  <2>7. CASE TruncateFails(t) \/ FetchFails(t)
    BY <1>1, <2>7 DEF TruncateFails, FetchFails
  <2>8. CASE NameFeatures(t) \/ NameFeaturesFails(t) \/ Fetch(t) \/ \E k \in Keys : CopyKey(t, k)
    <3>1. pc[t] \in {"truncated", "named", "fetched"} /\ pc'[t] # "found"
      <4>1. pc'[t] \in {"named", "fetched", "done"}
        BY <2>8 DEF NameFeatures, NameFeaturesFails, Fetch, CopyKey, Goto, TypeOK
      <4> QED
        BY <2>8, <4>1 DEF NameFeatures, NameFeaturesFails, Fetch, CopyKey, At
    <3> QED
      BY <1>6, <2>1, <3>1 DEF Cleared
  <2> QED
    BY <2>2, <2>3, <2>4, <2>5, <2>6, <2>7, <2>8, OwnSteps DEF Transfer
<1> QED
  BY <1>5, <1>7, <1>8 DEF FreshInv

\* "Truncating target sink" (client.py:1336): when nothing fails, no cell from before a
\* transfer is left after it, however many transfers and jobs write at once.
THEOREM NoStaleCellsAlways == Spec => []NoStaleCells
<1>1. Init => FreshInv
  <2> SUFFICES ASSUME Init PROVE FreshInv
    OBVIOUS
  <2>1. PICK cells : store[From] = Filled(cells, 1)
    <3>1. From \in Stores
      BY SetupsAssumption DEF Init, From
    <3> QED
      BY <3>1 DEF Init
  <2>2. \A k \in Keys : FreshRow(store[From][k], k)
    BY <2>1, CellsDiffer DEF Filled, FreshRow
  <2>3. \A t \in Transfers, k \in Keys : FreshRow(rows[t][k], k)
    BY CellsDiffer DEF Init, FreshRow, NoRow
  <2> QED
    BY <2>2, <2>3 DEF Init, FreshInv, Cleared
<1>2. FreshInv => NoStaleCells
  BY DEF FreshInv, NoStaleCells, Cleared, FreshRow, At
<1> QED
  BY <1>1, <1>2, FreshNext, OnlineTypeCorrectness, PTL DEF Spec

-----------------------------------------------------------------------------
(* The target is kept until keys are known *)

\* A transfer that has got no key has not started, or has stopped.
KeptInv ==
  /\ To \notin Written /\ To = "redis" => deleting = <<>>
  /\ \A t \in Transfers :
       /\ At(t, "start") => keys[t] = {}
       /\ keys[t] = {} => At(t, "start") \/ At(t, "done")
  /\ TargetKeptWithoutKeys

LEMMA KeptInit == Init => KeptInv
<1> SUFFICES ASSUME Init PROVE KeptInv
  OBVIOUS
<1>1. To # From /\ To \in Stores
  BY SetupsAssumption DEF Init, To, From
<1>2. store[To] = Filled(Keys \X Features, 0)
  BY <1>1 DEF Init
<1> QED
  BY <1>2 DEF Init, KeptInv, TargetKeptWithoutKeys, At

\* Where a transfer with no keys is, whoever takes the step.
LEMMA KeptLocals ==
  ASSUME TypeOK, KeptInv, [Next]_vars, NEW u \in Transfers
  PROVE /\ At(u, "start")' => keys'[u] = {}
        /\ keys'[u] = {} => At(u, "start")' \/ At(u, "done")'
        /\ keys'[u] = {} => keys[u] = {}
<1>1. /\ At(u, "start") => keys[u] = {}
      /\ keys[u] = {} => At(u, "start") \/ At(u, "done")
  BY DEF KeptInv, At
<1>2. CASE ListKeys(u)
  BY <1>1, <1>2 DEF TypeOK, ListKeys, At, Goto
<1>3. CASE DeleteMany(u) \/ FindKeys(u) \/ DeleteKeys(u) \/ TruncateFails(u)
  BY <1>1, <1>3 DEF TypeOK, DeleteMany, FindKeys, DeleteKeys, TruncateFails, At, Goto
<1>4. CASE NameFeatures(u) \/ NameFeaturesFails(u)
  BY <1>1, <1>4 DEF TypeOK, NameFeatures, NameFeaturesFails, At, Goto
<1>5. CASE Fetch(u) \/ FetchFails(u) \/ \E k \in Keys : CopyKey(u, k)
  BY <1>1, <1>5 DEF TypeOK, Fetch, FetchFails, CopyKey, At, Goto
<1>6. CASE pc'[u] = pc[u] /\ keys'[u] = keys[u]
  BY <1>1, <1>6 DEF At
<1> QED
  BY <1>2, <1>3, <1>4, <1>5, <1>6, OwnSteps DEF Transfer

LEMMA KeptNext == TypeOK /\ KeptInv /\ [Next]_vars => KeptInv'
<1> SUFFICES ASSUME TypeOK, KeptInv, [Next]_vars PROVE KeptInv'
  OBVIOUS
<1>1. setup' = setup /\ To' = To /\ Written' = Written
  BY VersionSteps DEF To, Written
<1>2. To \notin Written /\ To = "redis" => deleting' = <<>>
  BY DEF KeptInv, Next, vars, Transfer, ListKeys, DeleteMany, FindKeys, DeleteKeys,
     TruncateFails, NameFeatures, NameFeaturesFails, Fetch, FetchFails, CopyKey, Write,
     FindFeature, DeleteFeature
<1>3. ASSUME To \notin Written, \A t \in Transfers : keys'[t] = {}
      PROVE  store'[To] = store[To] /\ store[To] = Filled(Keys \X Features, 0)
  <2>1. \A t \in Transfers : keys[t] = {} /\ (At(t, "start") \/ At(t, "done"))
    BY <1>3, KeptLocals DEF KeptInv, At
  <2>2. store[To] = Filled(Keys \X Features, 0)
    BY <1>3, <2>1 DEF KeptInv, TargetKeptWithoutKeys
  <2>3. store \in StoreType /\ To \in Stores
    BY TypeParts, SetupIs DEF StoresTyped
  <2>4. ASSUME NEW t \in Transfers, Transfer(t) PROVE store'[To] = store[To]
    <3>1. ListKeys(t)
      BY <2>1, <2>4 DEF Transfer, At, ListKeys, DeleteMany, FindKeys, DeleteKeys,
         TruncateFails, NameFeatures, NameFeaturesFails, Fetch, FetchFails, CopyKey
    <3> QED
      BY <3>1 DEF ListKeys
  <2>5. ASSUME NEW s \in Stores, NEW k \in Keys, Write(s, k) PROVE store'[To] = store[To]
    <3>1. s # To /\ \E row : store' = [store EXCEPT ![s][k] = row]
      BY <1>3, <2>5 DEF Write, Set
    <3> QED
      BY <2>3, <3>1 DEF StoreType
  <2>6. ASSUME DeleteFeature PROVE store'[To] = store[To]
    <3>1. To # "redis" /\ Clear("redis", {deleting[1]})
      BY <1>3, <2>6 DEF KeptInv, DeleteFeature
    <3> QED
      BY <2>3, <3>1 DEF Clear, StoreType
  <2>7. ASSUME NEW k \in Keys, NEW f \in Features, FindFeature(k, f) PROVE store'[To] = store[To]
    BY <2>7 DEF FindFeature
  <2>8. ASSUME UNCHANGED vars PROVE store'[To] = store[To]
    BY <2>8 DEF vars
  <2>9. store'[To] = store[To]
    BY <2>4, <2>5, <2>6, <2>7, <2>8 DEF Next
  <2> QED
    BY <2>2, <2>9
<1>4. TargetKeptWithoutKeys'
  BY <1>1, <1>3 DEF TargetKeptWithoutKeys, Filled
<1> QED
  BY <1>1, <1>2, <1>4, KeptLocals DEF KeptInv

\* A transfer that gets no keys from get_all_keys, for want of rows or for an error
\* that it swallows, has not truncated anything.
THEOREM TargetKeptAlways == Spec => []TargetKeptWithoutKeys
<1>1. KeptInv => TargetKeptWithoutKeys
  BY DEF KeptInv
<1> QED
  BY <1>1, KeptInit, KeptNext, OnlineTypeCorrectness, PTL DEF Spec

-----------------------------------------------------------------------------
(* Full rows arrive *)

\* Nothing fails, and nobody but the transfers has written.
Alone == version = 1 /\ To \notin Written /\ ~Faults /\ Named # {}

Full(k) == Named \subseteq Fields(store[From][k])
Arrived(k) == \A f \in Named : store[To][k][f] = store[From][k][f]

\* The transfer will write the row, and what it will write is the row of the source.
Pending(t, k) == pc[t] # "done" /\ (pc[t] = "fetched" => k \in todo[t])

Carries(t, k) ==
  /\ pc[t] # "start" => k \in keys[t]
  /\ (pc[t] = "named" /\ k \notin unread[t]) \/ pc[t] = "fetched" =>
       \A f \in Named : rows[t][k][f] = store[From][k][f]

FullInv ==
  /\ deleting # <<>> => "redis" \in Written
  /\ Alone =>
       /\ \A k \in Keys, f \in Features : store[From][k][f] # Null
       /\ \A t \in Transfers : names[t] = Named
       /\ \A k \in Keys : Full(k) =>
            /\ \A t \in Transfers : Carries(t, k)
            /\ Arrived(k) \/ \E t \in Transfers : Pending(t, k)

LEMMA AloneStays ==
  ASSUME TypeOK, FullInv, [Next]_vars, Alone'
  PROVE /\ Alone /\ From' = From /\ To' = To /\ Named' = Named /\ Written' = Written
        /\ ~\E s \in Stores, k \in Keys : Write(s, k)
        /\ \A k \in Keys, f \in Features : store'[From][k][f] \in {store[From][k][f], Absent}
<1>1. /\ setup' = setup /\ version' \in {version, version + 1} /\ version \in Nat \ {0}
  BY VersionSteps
<1>2. /\ From' = From /\ To' = To /\ Named' = Named /\ Written' = Written /\ Faults' = Faults
  BY <1>1 DEF From, To, Named, Written, Faults
<1>3. version = 1 /\ version' # version + 1
  BY <1>1 DEF Alone
<1>4. ~\E s \in Stores, k \in Keys : Write(s, k)
  BY <1>3 DEF Write
<1>5. \A k \in Keys, f \in Features : store'[From][k][f] \in {store[From][k][f], Absent}
  BY <1>3, SetupIs, CellSteps
<1> QED
  BY <1>2, <1>3, <1>4, <1>5 DEF Alone

\* A row of the source that is full was so before.
LEMMA FullBefore ==
  ASSUME TypeOK, FullInv, [Next]_vars, Alone', NEW k \in Keys, Full(k)'
  PROVE Full(k) /\ \A f \in Named : f \in Features /\ store'[From][k][f] = store[From][k][f]
                                    /\ store[From][k][f] # Absent
<1>1. Named' = Named /\ From' = From
  BY AloneStays
<1>2. \A f \in Named : f \in Features /\ store'[From][k][f] # Absent
  BY <1>1 DEF Full, Fields
<1>3. \A f \in Named : store'[From][k][f] = store[From][k][f]
  BY <1>2, AloneStays
<1> QED
  BY <1>2, <1>3 DEF Full, Fields

LEMMA CarriesNext ==
  ASSUME TypeOK, FullInv, [Next]_vars, Alone', NEW k \in Keys, Full(k)', NEW t \in Transfers
  PROVE Carries(t, k)'
<1>1. /\ Alone /\ Named' = Named /\ From' = From /\ Full(k) /\ Carries(t, k)
      /\ \A f \in Named : f \in Features /\ store'[From][k][f] = store[From][k][f]
      /\ k \in Present(From)
  <2>1. /\ Alone /\ Named' = Named /\ From' = From /\ Full(k)
        /\ \A f \in Named : f \in Features /\ store'[From][k][f] = store[From][k][f]
                            /\ store[From][k][f] # Absent
    BY AloneStays, FullBefore
  <2>2. k \in Present(From)
    BY <2>1 DEF Present, NoRow, Alone
  <2> QED
    BY <2>1, <2>2 DEF FullInv
<1>2. CASE /\ pc'[t] = pc[t] /\ keys'[t] = keys[t] /\ rows'[t] = rows[t] /\ unread'[t] = unread[t]
  BY <1>1, <1>2 DEF Carries
<1>3. CASE ListKeys(t)
  <2>1. keys'[t] = Present(From) /\ pc'[t] = "listed"
    BY <1>1, <1>3 DEF ListKeys, Goto, Alone, TypeOK
  <2> QED
    BY <1>1, <2>1 DEF Carries
<1>4. CASE DeleteMany(t) \/ FindKeys(t) \/ DeleteKeys(t)
  <2>1. keys' = keys /\ pc[t] # "start" /\ pc'[t] \in {"found", "truncated"}
    BY <1>4 DEF DeleteMany, FindKeys, DeleteKeys, At, Goto, TypeOK
  <2> QED
    BY <1>1, <2>1 DEF Carries
<1>5. CASE NameFeatures(t)
  <2>1. keys' = keys /\ pc[t] # "start" /\ pc'[t] = "named" /\ unread'[t] = keys[t]
    BY <1>1, <1>5 DEF NameFeatures, At, Goto, Alone, TypeOK
  <2> QED
    BY <1>1, <2>1 DEF Carries
<1>6. CASE TruncateFails(t) \/ NameFeaturesFails(t) \/ FetchFails(t)
  BY <1>1, <1>6 DEF TruncateFails, NameFeaturesFails, FetchFails, Alone
<1>7. CASE Fetch(t)
  <2>1. PICK K \in (SUBSET unread[t]) \ {{}} :
          /\ rows' = [rows EXCEPT ![t] = [j \in Keys |-> IF j \in K THEN store[From][j] ELSE @[j]]]
          /\ unread' = [unread EXCEPT ![t] = @ \ K]
    BY <1>7 DEF Fetch
  <2>2. /\ rows'[t][k] = IF k \in K THEN store[From][k] ELSE rows[t][k]
        /\ unread'[t] = unread[t] \ K
    BY <2>1 DEF TypeOK
  <2>3. /\ keys' = keys /\ pc[t] = "named"
        /\ pc'[t] = IF unread'[t] = {} THEN "fetched" ELSE "named"
    BY <1>7 DEF Fetch, At, Goto, TypeOK
  <2> QED
    BY <1>1, <2>2, <2>3 DEF Carries
<1>8. CASE \E j \in Keys : CopyKey(t, j)
  <2>1. /\ keys' = keys /\ rows' = rows /\ pc[t] = "fetched" /\ pc'[t] \in {"fetched", "done"}
    BY <1>8 DEF CopyKey, At, Goto, TypeOK
  <2> QED
    BY <1>1, <2>1 DEF Carries
<1> QED
  BY <1>2, <1>3, <1>4, <1>5, <1>6, <1>7, <1>8, OwnSteps DEF Transfer

\* The create of a full row puts it in the target.
LEMMA CopyArrives ==
  ASSUME TypeOK, FullInv, [Next]_vars, Alone', NEW k \in Keys, Full(k)',
         NEW t \in Transfers, CopyKey(t, k)
  PROVE Arrived(k)'
<1>1. /\ Alone /\ Named' = Named /\ From' = From /\ To' = To /\ Full(k)
      /\ \A f \in Named : f \in Features /\ store'[From][k][f] = store[From][k][f]
                          /\ store[From][k][f] # Absent
  BY AloneStays, FullBefore
<1>2. /\ names[t] = Named /\ \A f \in Features : store[From][k][f] # Null
      /\ \A f \in Named : rows[t][k][f] = store[From][k][f]
  BY <1>1 DEF FullInv, Carries, CopyKey, At
<1>3. PICK data : data = Data(t, k)
  OBVIOUS
<1>4. /\ data \in Row /\ \A f \in Named : data[f] = store[From][k][f] /\ data[f] # Absent
      /\ \A f \in Features : data[f] # Null
  BY <1>1, <1>2, <1>3, CellsDiffer, DataIs DEF Seen
<1>5. To \in Stores /\ store \in StoreType /\ store[To][k] \in Row
  BY SetupIs DEF TypeOK, StoreType
<1>6. PICK row \in Row : row = Created(To, store[To][k], data)
  BY <1>4, <1>5, CreatedIs
<1>7. \A f \in Named : row[f] = data[f]
  BY <1>1, <1>4, <1>5, <1>6, CreatedIs
<1>8. Set(To, k, row)
  BY <1>1, <1>3, <1>6 DEF CopyKey, Alone
<1>9. store'[To][k] = row
  BY <1>5, <1>8, SetIs
<1> QED
  BY <1>1, <1>4, <1>7, <1>9 DEF Arrived

LEMMA ArrivesNext ==
  ASSUME TypeOK, FullInv, [Next]_vars, Alone', NEW k \in Keys, Full(k)'
  PROVE Arrived(k)' \/ \E t \in Transfers : Pending(t, k)'
<1>1. /\ Alone /\ Named' = Named /\ From' = From /\ To' = To /\ Full(k)
      /\ \A f \in Named : f \in Features /\ store'[From][k][f] = store[From][k][f]
                          /\ store[From][k][f] # Absent
  BY AloneStays, FullBefore
<1>2. Arrived(k) \/ \E t \in Transfers : Pending(t, k)
  BY <1>1 DEF FullInv
<1>3. k \in Present(From) /\ To \in Stores /\ store \in StoreType
  BY <1>1, SetupIs DEF Present, NoRow, Alone, TypeOK, StoreType
<1>4. CASE \E t \in Transfers : CopyKey(t, k)
  BY <1>4, CopyArrives
<1>5. CASE \E t \in Transfers : DeleteMany(t) \/ DeleteKeys(t)
  <2>1. PICK t \in Transfers : DeleteMany(t) \/ DeleteKeys(t)
    BY <1>5
  <2>2. pc'[t] = "truncated"
    BY <2>1 DEF DeleteMany, DeleteKeys, Goto, TypeOK
  <2> QED
    BY <2>2 DEF Pending
<1>6. CASE /\ ~\E t \in Transfers : CopyKey(t, k)
           /\ ~\E t \in Transfers : DeleteMany(t) \/ DeleteKeys(t)
  <2>1. store'[To][k] = store[To][k]
    <3>1. CASE DeleteFeature
      <4>1. "redis" \in Written /\ "redis" \in Stores /\ Clear("redis", {deleting[1]})
        BY <3>1 DEF DeleteFeature, FullInv, Stores
      <4>2. To # "redis"
        BY <1>1, <4>1 DEF Alone
      <4> QED
        BY <1>3, <4>1, <4>2, ClearIs
    <3>2. CASE \E t \in Transfers, j \in Keys : CopyKey(t, j)
      <4>1. PICK t \in Transfers, j \in Keys : CopyKey(t, j)
        BY <3>2
      <4>2. j # k
        BY <1>6, <4>1
      <4>3. CASE Set(To, j, Created(To, store[To][j], Data(t, j)))
        <5>1. store[To][j] \in Row /\ Data(t, j) \in Row
          BY <1>3, DataIs DEF StoreType
        <5>2. PICK row \in Row : row = Created(To, store[To][j], Data(t, j))
          BY <1>3, <5>1, CreatedIs
        <5> QED
          BY <1>3, <4>2, <4>3, <5>2, SetIs
      <4> QED
        BY <4>1, <4>3 DEF CopyKey
    <3>3. CASE store' = store
      BY <3>3
    <3>4. \/ DeleteFeature \/ (\E t \in Transfers, j \in Keys : CopyKey(t, j)) \/ store' = store
      <4>1. ~\E s \in Stores, j \in Keys : Write(s, j)
        BY AloneStays
      <4> QED
        BY <1>6, <4>1 DEF Next, vars, Transfer, ListKeys, FindKeys, TruncateFails, NameFeatures,
           NameFeaturesFails, Fetch, FetchFails, FindFeature
    <3> QED
      BY <3>1, <3>2, <3>3, <3>4
  <2>2. Arrived(k) => Arrived(k)'
    BY <1>1, <2>1 DEF Arrived
  <2>3. ASSUME NEW t \in Transfers, Pending(t, k) PROVE Pending(t, k)'
    <3>1. Carries(t, k)
      BY <1>1 DEF FullInv
    <3>2. CASE pc'[t] = pc[t] /\ todo'[t] = todo[t]
      BY <2>3, <3>2 DEF Pending
    <3>3. CASE ListKeys(t)
      <4>1. keys'[t] # {} /\ pc'[t] = "listed"
        BY <1>1, <1>3, <3>3 DEF ListKeys, Goto, Alone, TypeOK
      <4> QED
        BY <4>1 DEF Pending
    <3>4. CASE FindKeys(t) \/ NameFeatures(t)
      <4>1. pc'[t] \in {"found", "named"}
        BY <1>1, <3>4 DEF FindKeys, NameFeatures, Goto, Alone, TypeOK
      <4> QED
        BY <4>1 DEF Pending
    <3>5. CASE TruncateFails(t) \/ NameFeaturesFails(t) \/ FetchFails(t)
      BY <1>1, <3>5 DEF TruncateFails, NameFeaturesFails, FetchFails, Alone
    <3>6. CASE Fetch(t)
      <4>1. todo'[t] = keys[t] /\ pc[t] = "named" /\ pc'[t] \in {"named", "fetched"}
        BY <3>6 DEF Fetch, At, Goto, TypeOK
      <4> QED
        BY <3>1, <4>1 DEF Pending, Carries
    <3>7. CASE \E j \in Keys : CopyKey(t, j)
      <4>1. PICK j \in Keys : CopyKey(t, j)
        BY <3>7
      <4>2. /\ j # k /\ pc[t] = "fetched" /\ todo'[t] = todo[t] \ {j}
            /\ pc'[t] = IF todo'[t] = {} THEN "done" ELSE "fetched"
        BY <1>6, <4>1 DEF CopyKey, At, Goto, TypeOK
      <4> QED
        BY <2>3, <4>2 DEF Pending
    <3> QED
      BY <1>6, <3>2, <3>3, <3>4, <3>5, <3>6, <3>7, OwnSteps DEF Transfer
  <2> QED
    BY <1>2, <2>2, <2>3
<1> QED
  BY <1>4, <1>5, <1>6

LEMMA FullNext == TypeOK /\ FullInv /\ [Next]_vars => FullInv'
<1> SUFFICES ASSUME TypeOK, FullInv, [Next]_vars PROVE FullInv'
  OBVIOUS
<1>1. deleting' # <<>> => "redis" \in Written'
  <2>1. Written' = Written
    BY VersionSteps DEF Written
  <2>2. deleting' = deleting \/ deleting' = <<>> \/ "redis" \in Written
    BY DEF Next, vars, Transfer, ListKeys, DeleteMany, FindKeys, DeleteKeys, TruncateFails, NameFeatures,
       NameFeaturesFails, Fetch, FetchFails, CopyKey, Write, FindFeature, DeleteFeature
  <2> QED
    BY <2>1, <2>2 DEF FullInv
<1>2. ASSUME Alone' PROVE \A k \in Keys, f \in Features : store'[From'][k][f] # Null
  BY <1>2, AloneStays, CellsDiffer DEF FullInv
<1>3. ASSUME Alone', NEW t \in Transfers PROVE names'[t] = Named'
  <2>1. Alone /\ Named' = Named /\ names[t] = Named
    BY <1>3, AloneStays DEF FullInv
  <2>2. names'[t] = names[t]
    <3>1. CASE Transfer(t)
      BY <2>1, <3>1 DEF Transfer, ListKeys, DeleteMany, FindKeys, DeleteKeys, TruncateFails, NameFeatures,
         NameFeaturesFails, Fetch, FetchFails, CopyKey, Alone
    <3> QED
      BY <3>1, OwnSteps
  <2> QED
    BY <2>1, <2>2
<1> QED
  BY <1>1, <1>2, <1>3, CarriesNext, ArrivesNext DEF FullInv

\* With names given, a row that has all of them arrives when nothing fails and nobody
\* else writes, however many transfers run at once: one that truncates the target
\* again has the row still to write.
THEOREM FullRowsTransferredAlways == Spec => []FullRowsTransferred
<1>1. Init => FullInv
  <2> SUFFICES ASSUME Init PROVE FullInv
    OBVIOUS
  <2>1. \A k \in Keys, f \in Features : store[From][k][f] # Null
    <3>1. PICK cells : store[From] = Filled(cells, 1)
      <4>1. From \in Stores
        BY SetupsAssumption DEF Init, From
      <4> QED
        BY <4>1 DEF Init
    <3> QED
      BY <3>1, CellsDiffer DEF Filled
  <2>2. \A t \in Transfers : pc[t] = "start" /\ names[t] = Named /\ deleting = <<>>
    BY DEF Init
  <2>3. \E t \in Transfers : pc[t] = "start" /\ deleting = <<>>
    BY <2>2, TransfersAssumption
  <2> QED
    BY <2>1, <2>2, <2>3 DEF FullInv, Carries, Pending
<1>2. TypeOK /\ FullInv => FullRowsTransferred
  <2> SUFFICES ASSUME TypeOK, FullInv, AllDone, version = 1, To \notin Written, ~Faults,
                      NEW k \in Keys, Named \subseteq Fields(store[From][k]), NEW f \in Named
               PROVE store[To][k][f] = store[From][k][f]
    BY DEF FullRowsTransferred
  <2>1. Alone /\ Full(k)
    BY DEF Alone, Full
  <2>2. \A t \in Transfers : ~Pending(t, k)
    BY DEF Pending, AllDone, At
  <2> QED
    BY <2>1, <2>2 DEF FullInv, Arrived
<1> QED
  BY <1>1, <1>2, FullNext, OnlineTypeCorrectness, PTL DEF Spec
=============================================================================
