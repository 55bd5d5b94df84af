-------------------------- MODULE ObjectStoreProofs --------------------------
(***************************************************************************)
(* TLAPS proofs about ObjectStore, for every set of objects and readers    *)
(* and every number of saves, failed openings and damaged rows.            *)
(***************************************************************************)
EXTENDS ObjectStore, TLAPS

\* An object that lists show.
Shown(id) == Present(db.body[id]) /\ id \notin db.corrupt

SameRow(x, y) == x.v = y.v /\ x.queued = y.queued

\* The index row and the summary of an object agree with it.
Agree(id) ==
  IF Shown(id)
  THEN /\ SameRow(db.index[id], db.body[id])
       /\ id \notin RawIds => SameRow(db.summary[id], db.body[id])
  ELSE db.index[id] = NoRow /\ db.summary[id] = NoRow

\* Rows that do not open were damaged, and a row that is not there is empty.
RowOK(id) ==
  /\ Present(db.body[id]) /\ ~db.body[id].ok => id \in hurt
  /\ Present(db.summary[id]) /\ ~db.summary[id].ok => id \in hurt
  /\ Present(db.body[id]) \/ db.body[id] = NoRow

RowsOK ==
  /\ db.corrupt \subseteq hurt
  /\ \A id \in Ids : RowOK(id)
  /\ db.schema = "v3" => \A id \in Ids : Agree(id)

\* What a read that found an object bad knows of it, whenever it acts on it.
ReadersOK ==
  \A r \in Readers :
    /\ reader[r].pc = "bad" => reader[r].id \in hurt
    /\ reader[r].pc # "idle" /\ reader[r].op = "summary" => reader[r].id \notin RawIds

\* A whole backup has the rows the database had before its first opening.
HasBackup ==
  \E b \in extra \cup {primary["v1"], primary["v2"]} : Whole(b) /\ b.body = origin.body

\* Where the opening is, what schema it found and what it has backed up.
OpeningOK ==
  /\ db.schema # "v3" => db.body = origin.body
  /\ pc \in {"up", "tables"} => db.schema = "v3"
  /\ pc = "bump" => db.schema = "v1"
  /\ pc = "migrate" => db.schema = "v2"
  /\ pc \in {"backup", "copying"} => db.schema \in {"v1", "v2"}
  /\ pc = "copying" =>
       /\ copy.schema = db.schema
       /\ copy.file = "primary" => primary[copy.schema] = DamagedFile
  /\ /\ db.schema = "v3" \/ pc \in {"bump", "migrate"}
     /\ \E id \in Ids : Present(origin.body[id])
     => HasBackup

Inv == TypeOK /\ RowsOK /\ ReadersOK /\ OpeningOK

-----------------------------------------------------------------------------
(* Transactions on the rows of one object. *)

Database ==
  [schema : Schemas \cup {"none"}, body : [Ids -> Row], index : [Ids -> Row],
   summary : [Ids -> Row], corrupt : SUBSET Ids]

\* The row of an absent object is one.
LEMMA NoRowIsRow == NoRow \in Row /\ ~Present(NoRow) /\ NoRows \in [Ids -> Row]
BY ObjectStoreAssumption DEF NoRow, Row, Present, NoRows

\* Writing an object that opens keeps rows, index and summaries in agreement.
LEMMA WrittenRows ==
  ASSUME TypeOK, RowsOK, NEW id \in Ids, NEW x \in Row, Good(x),
         db' = Written(db, id, x), hurt' = hurt
  PROVE  db' \in Database /\ RowsOK' /\ db'.schema = db.schema
<1>0. db \in Database
  BY DEF TypeOK, Database
<1>x. [x EXCEPT !.ok = TRUE] \in Row /\ SameRow([x EXCEPT !.ok = TRUE], x)
      /\ [x EXCEPT !.ok = TRUE].ok /\ Present(x) /\ x.ok
  BY DEF Row, SameRow, Good
<1>1. /\ db'.schema = db.schema
      /\ db'.body = [db.body EXCEPT ![id] = x]
      /\ db'.index = [db.index EXCEPT ![id] = [x EXCEPT !.ok = TRUE]]
      /\ db'.summary = [db.summary EXCEPT ![id] =
                          IF id \in RawIds THEN NoRow ELSE [x EXCEPT !.ok = TRUE]]
      /\ db'.corrupt = db.corrupt \ {id}
  BY <1>0 DEF Written, Database
<1>2. db' \in Database
  <2>1. db' = [schema |-> db'.schema, body |-> db'.body, index |-> db'.index,
               summary |-> db'.summary, corrupt |-> db'.corrupt]
    BY <1>0 DEF Written, Database
  <2>2. /\ db'.schema \in Schemas \cup {"none"}
        /\ db'.body \in [Ids -> Row] /\ db'.index \in [Ids -> Row]
        /\ db'.summary \in [Ids -> Row] /\ db'.corrupt \in SUBSET Ids
    BY <1>0, <1>1, <1>x, NoRowIsRow DEF Database
  <2> QED
    BY <2>1, <2>2 DEF Database
<1>3. (db.corrupt \subseteq hurt)'
  BY <1>1 DEF RowsOK
<1>4. ASSUME NEW k \in Ids PROVE RowOK(k)'
  <2>1. RowOK(k)
    BY DEF RowsOK
  <2>2. CASE k = id
    BY <2>2, <1>0, <1>1, <1>x, NoRowIsRow DEF RowOK, Database
  <2>3. CASE k # id
    BY <2>1, <2>3, <1>0, <1>1 DEF RowOK, Database
  <2> QED
    BY <2>2, <2>3
<1>5. ASSUME NEW k \in Ids, db'.schema = "v3" PROVE Agree(k)'
  <2>1. Agree(k)
    BY <1>1, <1>5 DEF RowsOK
  <2>2. CASE k = id
    BY <2>2, <1>0, <1>1, <1>x DEF Agree, Shown, Database
  <2>3. CASE k # id
    BY <2>1, <2>3, <1>0, <1>1 DEF Agree, Shown, Database
  <2> QED
    BY <2>2, <2>3
<1> QED
  BY <1>1, <1>2, <1>3, <1>4, <1>5 DEF RowsOK

\* Quarantining an object that was damaged keeps them in agreement.
LEMMA QuarantinedRows ==
  ASSUME TypeOK, RowsOK, NEW id \in Ids, id \in hurt,
         db' = Quarantined(db, id), hurt' = hurt
  PROVE  db' \in Database /\ RowsOK' /\ db'.schema = db.schema
<1>0. db \in Database
  BY DEF TypeOK, Database
<1>1. /\ db'.schema = db.schema
      /\ db'.body = db.body
      /\ db'.index = [db.index EXCEPT ![id] = NoRow]
      /\ db'.summary = [db.summary EXCEPT ![id] = NoRow]
      /\ db'.corrupt = db.corrupt \cup {id}
  BY <1>0 DEF Quarantined, Database
<1>2. db' \in Database
  <2>1. db' = [schema |-> db'.schema, body |-> db'.body, index |-> db'.index,
               summary |-> db'.summary, corrupt |-> db'.corrupt]
    BY <1>0 DEF Quarantined, Database
  <2>2. /\ db'.schema \in Schemas \cup {"none"}
        /\ db'.body \in [Ids -> Row] /\ db'.index \in [Ids -> Row]
        /\ db'.summary \in [Ids -> Row] /\ db'.corrupt \in SUBSET Ids
    BY <1>0, <1>1, NoRowIsRow DEF Database
  <2> QED
    BY <2>1, <2>2 DEF Database
<1>3. (db.corrupt \subseteq hurt)'
  BY <1>1 DEF RowsOK
<1>4. ASSUME NEW k \in Ids PROVE RowOK(k)'
  <2>1. RowOK(k)
    BY DEF RowsOK
  <2> QED
    BY <2>1, <1>0, <1>1, NoRowIsRow DEF RowOK, Database
<1>5. ASSUME NEW k \in Ids, db'.schema = "v3" PROVE Agree(k)'
  <2>1. Agree(k)
    BY <1>1, <1>5 DEF RowsOK
  <2> QED
    BY <2>1, <1>0, <1>1 DEF Agree, Shown, Database
<1> QED
  BY <1>1, <1>2, <1>3, <1>4, <1>5 DEF RowsOK

\* So does removing one.
LEMMA RemovedRows ==
  ASSUME TypeOK, RowsOK, NEW id \in Ids, db' = Removed(db, id), hurt' = hurt
  PROVE  db' \in Database /\ RowsOK' /\ db'.schema = db.schema
<1>0. db \in Database
  BY DEF TypeOK, Database
<1>1. /\ db'.schema = db.schema
      /\ db'.body = [db.body EXCEPT ![id] = NoRow]
      /\ db'.index = [db.index EXCEPT ![id] = NoRow]
      /\ db'.summary = [db.summary EXCEPT ![id] = NoRow]
      /\ db'.corrupt = db.corrupt \ {id}
  BY <1>0 DEF Removed, Database
<1>2. db' \in Database
  <2>1. db' = [schema |-> db'.schema, body |-> db'.body, index |-> db'.index,
               summary |-> db'.summary, corrupt |-> db'.corrupt]
    BY <1>0 DEF Removed, Database
  <2>2. /\ db'.schema \in Schemas \cup {"none"}
        /\ db'.body \in [Ids -> Row] /\ db'.index \in [Ids -> Row]
        /\ db'.summary \in [Ids -> Row] /\ db'.corrupt \in SUBSET Ids
    BY <1>0, <1>1, NoRowIsRow DEF Database
  <2> QED
    BY <2>1, <2>2 DEF Database
<1>3. (db.corrupt \subseteq hurt)'
  BY <1>1 DEF RowsOK
<1>4. ASSUME NEW k \in Ids PROVE RowOK(k)'
  <2>1. RowOK(k)
    BY DEF RowsOK
  <2> QED
    BY <2>1, <1>0, <1>1, NoRowIsRow DEF RowOK, Database
<1>5. ASSUME NEW k \in Ids, db'.schema = "v3" PROVE Agree(k)'
  <2>1. Agree(k)
    BY <1>1, <1>5 DEF RowsOK
  <2> QED
    BY <2>1, <1>0, <1>1, NoRowIsRow DEF Agree, Shown, Database
<1> QED
  BY <1>1, <1>2, <1>3, <1>4, <1>5 DEF RowsOK

\* Bytes that go bad are those of an object that is then known as damaged.
LEMMA DamagedRows ==
  ASSUME TypeOK, RowsOK, NEW id \in Ids, Damage(id)
  PROVE  db' \in Database /\ RowsOK' /\ db'.schema = db.schema
<1>0. db \in Database
  BY DEF TypeOK, Database
<1>1. hurt' = hurt \cup {id}
  BY DEF Damage
<1>2. PICK b \in [Ids -> Row], s \in [Ids -> Row] :
        /\ db' = [db EXCEPT !.body = b, !.summary = s]
        /\ \A k \in Ids : /\ SameRow(b[k], db.body[k]) /\ SameRow(s[k], db.summary[k])
                          /\ k # id => b[k] = db.body[k] /\ s[k] = db.summary[k]
        /\ \A k \in Ids : Present(db.body[k]) \/ b[k] = db.body[k]
        /\ \A k \in Ids : Present(db.summary[k]) \/ s[k] = db.summary[k]
  <2>1. CASE Good(db.body[id]) /\ db' = [db EXCEPT !.body[id].ok = FALSE]
    <3> DEFINE b == [db.body EXCEPT ![id].ok = FALSE]
    <3>1. b \in [Ids -> Row] /\ \A k \in Ids : k # id => b[k] = db.body[k]
      BY <1>0 DEF Database, Row
    <3>2. SameRow(b[id], db.body[id])
      BY <1>0 DEF Database, Row, SameRow
    <3>3. db' = [db EXCEPT !.body = b, !.summary = db.summary]
      BY <2>1, <1>0 DEF Database
    <3>4. db.summary \in [Ids -> Row] /\ Present(db.body[id])
      BY <2>1, <1>0 DEF Database, Good
    <3>5. \A x : SameRow(x, x)
      BY DEF SameRow
    <3>6. \A k \in Ids : /\ SameRow(b[k], db.body[k])
                         /\ Present(db.body[k]) \/ b[k] = db.body[k]
      BY <3>1, <3>2, <3>4, <3>5
    <3> HIDE DEF b
    <3> QED
      BY <3>1, <3>3, <3>4, <3>5, <3>6
  <2>2. CASE Good(db.summary[id]) /\ db' = [db EXCEPT !.summary[id].ok = FALSE]
    <3> DEFINE s == [db.summary EXCEPT ![id].ok = FALSE]
    <3>1. s \in [Ids -> Row] /\ \A k \in Ids : k # id => s[k] = db.summary[k]
      BY <1>0 DEF Database, Row
    <3>2. SameRow(s[id], db.summary[id])
      BY <1>0 DEF Database, Row, SameRow
    <3>3. db' = [db EXCEPT !.body = db.body, !.summary = s]
      BY <2>2, <1>0 DEF Database
    <3>4. db.body \in [Ids -> Row] /\ Present(db.summary[id])
      BY <2>2, <1>0 DEF Database, Good
    <3>5. \A x : SameRow(x, x)
      BY DEF SameRow
    <3>6. \A k \in Ids : /\ SameRow(s[k], db.summary[k])
                         /\ Present(db.summary[k]) \/ s[k] = db.summary[k]
      BY <3>1, <3>2, <3>4, <3>5
    <3> HIDE DEF s
    <3> QED
      BY <3>1, <3>3, <3>4, <3>5, <3>6
  <2> QED
    BY <2>1, <2>2 DEF Damage
<1>3. /\ db'.schema = db.schema /\ db'.body = b /\ db'.summary = s
      /\ db'.index = db.index /\ db'.corrupt = db.corrupt
  BY <1>0, <1>2 DEF Database
<1>4. db' \in Database
  BY <1>0, <1>2 DEF Database
<1>5. (db.corrupt \subseteq hurt)'
  BY <1>1, <1>3 DEF RowsOK
<1>6. ASSUME NEW k \in Ids PROVE RowOK(k)'
  <2>1. RowOK(k)
    BY DEF RowsOK
  <2> QED
    BY <2>1, <1>0, <1>1, <1>2, <1>3 DEF RowOK, Present, SameRow, Database
<1>7. ASSUME NEW k \in Ids, db'.schema = "v3" PROVE Agree(k)'
  <2>1. Agree(k)
    BY <1>3, <1>7 DEF RowsOK
  <2>2. Shown(k)' <=> Shown(k)
    BY <1>2, <1>3 DEF Shown, SameRow, Present
  <2>3. CASE Shown(k)
    BY <2>1, <2>2, <2>3, <1>2, <1>3 DEF Agree, SameRow
  <2>4. CASE ~Shown(k)
    <3>1. ~Present(db.summary[k]) /\ db.index[k] = NoRow /\ db.summary[k] = NoRow
      BY <2>1, <2>4, NoRowIsRow DEF Agree
    <3> QED
      BY <3>1, <2>2, <2>4, <1>2, <1>3 DEF Agree
  <2> QED
    BY <2>3, <2>4
<1> QED
  BY <1>3, <1>4, <1>5, <1>6, <1>7 DEF RowsOK

-----------------------------------------------------------------------------
(* The invariant. *)

\* The part of TypeOK that is about the opening.
OpeningType ==
  /\ pc \in {"down", "backup", "copying", "bump", "migrate", "tables", "up"}
  /\ copy \in [schema : {"v1", "v2"}, file : {"primary", "extra"}]
  /\ primary \in [{"v1", "v2"} -> Snapshot] /\ extra \subseteq Snapshot
  /\ faults \in 0..MaxFaults

\* The part of it that is about the open store.
StoreType ==
  /\ reader \in [Readers -> Reader]
  /\ pick \in Ids \cup {"none"}
  /\ hurt \subseteq Ids /\ damage \in 0..MaxDamage

\* A first opening finds rows and backups of the right types that nothing contradicts.
LEMMA InitInv == Init => Inv
<1> SUFFICES ASSUME Init PROVE Inv
  OBVIOUS
<1>1. PICK s \in {"none", "v1", "v2"}, rows \in [Ids -> FirstRows] :
        db = [schema |-> s, body |-> rows, index |-> NoRows, summary |-> NoRows,
              corrupt |-> {}]
  BY DEF Init
<1>2. /\ db.schema = s /\ db.body = rows /\ db.index = NoRows /\ db.summary = NoRows
      /\ db.corrupt = {}
  BY <1>1
<1>3. rows \in [Ids -> Row] /\ \A id \in Ids : rows[id].v = 1 \/ rows[id] = NoRow
  BY DEF FirstRows
<1>4. db \in Database
  BY <1>1, <1>3, NoRowIsRow DEF Database, Schemas
<1>5. SnapshotOf(db) \in Snapshot
  BY <1>2, <1>3 DEF SnapshotOf, Snapshot, Schemas
<1>6. AnyId \in Ids
  BY ObjectStoreAssumption DEF AnyId
<1>7. {NoFile, DamagedFile, [schema |-> "v1", body |-> NoRows]} \subseteq Snapshot
  BY NoRowIsRow DEF NoFile, DamagedFile, Snapshot, Schemas
<1>8. primary \in [{"v1", "v2"} -> Snapshot]
  BY <1>7 DEF Init
<1>9. TypeOK
  <2>1. pc \in {"down", "backup", "copying", "bump", "migrate", "tables", "up"}
        /\ copy \in [schema : {"v1", "v2"}, file : {"primary", "extra"}]
    BY DEF Init
  <2>2. extra \subseteq Snapshot /\ origin \in Snapshot
    BY <1>5 DEF Init
  <2>3. reader \in [Readers -> Reader]
    BY <1>6 DEF Init, Reader
  <2>4. pick \in Ids \cup {"none"} /\ hurt \subseteq Ids
    BY DEF Init
  <2>5. faults \in 0..MaxFaults /\ damage \in 0..MaxDamage
    BY ObjectStoreAssumption DEF Init
  <2> QED
    BY <1>4, <1>8, <2>1, <2>2, <2>3, <2>4, <2>5 DEF TypeOK, Database
<1>10. RowsOK
  <2>1. hurt = {id \in Ids : Present(db.body[id]) /\ ~db.body[id].ok}
    BY DEF Init
  <2>2. ASSUME NEW id \in Ids PROVE RowOK(id)
    <3>1. db.summary[id] = NoRow
      BY <1>2 DEF NoRows
    <3>2. Present(db.body[id]) \/ db.body[id] = NoRow
      BY <1>2, <1>3 DEF Present
    <3> QED
      BY <2>1, <3>1, <3>2, NoRowIsRow DEF RowOK
  <2> QED
    BY <1>2, <2>2 DEF RowsOK
<1>11. ReadersOK
  BY DEF Init, ReadersOK
<1>12. OpeningOK
  <2>1. db.body = origin.body /\ pc = "down" /\ db.schema # "v3"
    BY <1>2 DEF Init, SnapshotOf
  <2> QED
    BY <2>1 DEF OpeningOK
<1> QED
  BY <1>9, <1>10, <1>11, <1>12 DEF Inv

\* Steps of the opening that leave the rows as they are keep the rows' invariant.
LEMMA SameRows ==
  ASSUME Inv, db'.body = db.body, db'.index = db.index, db'.summary = db.summary,
         db'.corrupt = db.corrupt, db'.schema = "v3" => db.schema = "v3", hurt' = hurt
  PROVE  RowsOK'
<1>1. (db.corrupt \subseteq hurt)'
  BY DEF Inv, RowsOK
<1>2. ASSUME NEW id \in Ids PROVE RowOK(id)'
  BY DEF Inv, RowsOK, RowOK
<1>3. ASSUME NEW id \in Ids, db'.schema = "v3" PROVE Agree(id)'
  BY <1>3 DEF Inv, RowsOK, Agree, Shown
<1> QED
  BY <1>1, <1>2, <1>3 DEF RowsOK

\* What the open store does not touch stays right while it moves only a reader, the
\* picked material or an object that was read or damaged.
LEMMA OpenStep ==
  ASSUME Inv, pc = "up", UNCHANGED Files, db'.schema = db.schema
  PROVE  OpeningOK'
<1>1. db.schema = "v3" /\ db'.schema = "v3" /\ pc' = "up"
  BY DEF Inv, OpeningOK, Files
<1>2. HasBackup' <=> HasBackup
  BY DEF HasBackup, Files
<1>3. origin' = origin
  BY DEF Files
<1> QED
  BY <1>1, <1>2, <1>3 DEF Inv, OpeningOK

\* Types are kept when each variable keeps its own.
LEMMA TypeParts ==
  ASSUME OpeningType', StoreType', db' \in Database, TypeOK, origin' = origin
  PROVE  TypeOK'
BY DEF OpeningType, StoreType, Database, TypeOK

\* A step of the open store keeps the types of the opening.
LEMMA FilesType ==
  ASSUME TypeOK, UNCHANGED Files PROVE OpeningType' /\ origin' = origin
BY DEF TypeOK, OpeningType, Files

\* Readers keep what they know while the damaged objects only get more.
LEMMA SameReaders ==
  ASSUME ReadersOK, UNCHANGED reader, hurt \subseteq hurt' PROVE ReadersOK'
BY DEF ReadersOK
-----------------------------------------------------------------------------
(* Steps of the opening. *)

\* No step overwrites a whole backup.
KeepsFiles ==
  /\ extra \subseteq extra' /\ origin' = origin
  /\ \A s \in {"v1", "v2"} : Whole(primary[s]) => primary'[s] = primary[s]

\* A whole backup of the first rows stays one.
LEMMA KeepsBackup == ASSUME KeepsFiles, HasBackup PROVE HasBackup'
<1>1. PICK b \in extra \cup {primary["v1"], primary["v2"]} :
        Whole(b) /\ b.body = origin.body
  BY DEF HasBackup
<1>2. b \in (extra \cup {primary["v1"], primary["v2"]})'
  BY <1>1 DEF KeepsFiles
<1>3. Whole(b)' /\ b.body = origin'.body
  BY <1>1 DEF Whole, KeepsFiles
<1> QED
  BY <1>2, <1>3 DEF HasBackup

\* What the steps of an opening leave alone.
LEMMA OpenedType ==
  ASSUME TypeOK, UNCHANGED Opened PROVE StoreType' /\ origin' = origin
BY DEF TypeOK, StoreType, Opened

\* Choosing what to do from the schema found.
LEMMA OpenDatabaseStep == ASSUME Inv, OpenDatabase PROVE Inv' /\ KeepsFiles
<1>0. TypeOK /\ RowsOK /\ ReadersOK /\ OpeningOK /\ db \in Database
  BY DEF Inv, TypeOK, Database
<1>1. /\ pc = "down" /\ UNCHANGED <<copy, primary, extra, faults>> /\ UNCHANGED Opened
      /\ UNCHANGED <<origin, reader, hurt>>
  BY DEF OpenDatabase, Opened
<1>2. PICK s \in {"v1", "v2", "v3"} :
        /\ s = IF db.schema = "none" THEN "v1" ELSE db.schema
        /\ db' = [db EXCEPT !.schema = s]
        /\ \/ s = "v3" /\ pc' = "tables"
           \/ s # "v3" /\ HasRows /\ pc' = "backup"
           \/ s # "v3" /\ ~HasRows /\ pc' = IF s = "v1" THEN "bump" ELSE "migrate"
  BY <1>0 DEF OpenDatabase, Database, Schemas
<1>3. /\ db'.schema = s /\ db'.body = db.body /\ db'.index = db.index
      /\ db'.summary = db.summary /\ db'.corrupt = db.corrupt
  BY <1>0, <1>2 DEF Database
<1>4. db' \in Database
  BY <1>0, <1>2 DEF Database, Schemas
<1>5. OpeningType'
  BY <1>0, <1>1, <1>2 DEF TypeOK, OpeningType
<1>6. TypeOK'
  BY <1>0, <1>1, <1>4, <1>5, OpenedType, TypeParts
<1>7. RowsOK'
  BY <1>1, <1>2, <1>3, SameRows
<1>8. ReadersOK'
  BY <1>0, <1>1, SameReaders
<1>9. KeepsFiles
  BY <1>1 DEF KeepsFiles
<1>10. OpeningOK'
  <2>1. (db.schema # "v3" => db.body = origin.body)'
    BY <1>0, <1>1, <1>2, <1>3 DEF OpeningOK
  <2>2. /\ (pc \in {"up", "tables"} => db.schema = "v3")'
        /\ (pc = "bump" => db.schema = "v1")'
        /\ (pc = "migrate" => db.schema = "v2")'
        /\ (pc \in {"backup", "copying"} => db.schema \in {"v1", "v2"})'
        /\ pc' # "copying"
    BY <1>2, <1>3
  <2>3. ASSUME db'.schema = "v3" \/ pc' \in {"bump", "migrate"},
               \E id \in Ids : Present(origin'.body[id])
        PROVE  HasBackup'
    <3>1. CASE s = "v3"
      BY <2>3, <3>1, <1>0, <1>1, <1>2, <1>9, KeepsBackup DEF OpeningOK
    <3>2. CASE s # "v3"
      <4>1. ~HasRows /\ db.body = origin.body
        BY <2>3, <3>2, <1>0, <1>2, <1>3 DEF OpeningOK
      <4> QED
        BY <2>3, <4>1, <1>1 DEF HasRows
    <3> QED
      BY <3>1, <3>2
  <2>4. (\E id \in Ids : Present(origin.body[id]))' <=>
          \E id \in Ids : Present(origin'.body[id])
    BY DEF Present
  <2> QED
    BY <2>1, <2>2, <2>3, <2>4 DEF OpeningOK
<1> QED
  BY <1>6, <1>7, <1>8, <1>9, <1>10 DEF Inv

\* Steps that leave the database alone, or only its schema.
LEMMA SameDatabase ==
  ASSUME Inv, OpeningType', UNCHANGED <<db, Opened>>
  PROVE  TypeOK' /\ RowsOK' /\ ReadersOK'
<1>1. TypeOK /\ ReadersOK /\ db' \in Database /\ UNCHANGED Opened
  BY DEF Inv, TypeOK, Database
<1>2. TypeOK'
  BY <1>1, OpenedType, TypeParts
<1>3. UNCHANGED <<reader, hurt>>
  BY DEF Opened
<1>4. RowsOK'
  BY <1>3, SameRows
<1>5. ReadersOK'
  BY <1>1, <1>3, SameReaders
<1> QED
  BY <1>2, <1>4, <1>5

\* A backup of the database is whole and of the right type.
LEMMA SnapshotType ==
  ASSUME TypeOK, db.schema \in {"v1", "v2"}
  PROVE  SnapshotOf(db) \in Snapshot /\ Whole(SnapshotOf(db))
         /\ SnapshotOf(db).body = db.body
BY DEF TypeOK, SnapshotOf, Snapshot, Whole, Schemas

\* Before the last schema, a file that is a whole copy of the database is the backup.
LEMMA CopyIsBackup ==
  ASSUME TypeOK', db.schema \in {"v1", "v2"}, TypeOK, db.body = origin.body, origin' = origin,
         SnapshotOf(db) \in (extra \cup {primary["v1"], primary["v2"]})'
  PROVE  HasBackup'
<1>1. Whole(SnapshotOf(db)) /\ SnapshotOf(db).body = origin'.body
  BY SnapshotType
<1> DEFINE b == SnapshotOf(db)
<1>2. PICK c : c = b
  OBVIOUS
<1>3. c \in (extra \cup {primary["v1"], primary["v2"]})' /\ c.schema \in Schemas
      /\ c.body = origin'.body
  BY <1>1, <1>2 DEF Whole
<1> HIDE DEF b
<1>4. c.schema \in Schemas' /\ c.body = (origin.body)'
  BY <1>3 DEF Schemas
<1> QED
  BY <1>3, <1>4 DEF HasBackup, Whole

\* Looking for a backup: one that matches is taken, any other file is kept.
LEMMA BackupStep == ASSUME Inv, Backup PROVE Inv' /\ KeepsFiles
<1>0. TypeOK /\ OpeningOK /\ db.schema \in {"v1", "v2"} /\ db.body = origin.body
  BY DEF Inv, OpeningOK, Backup
<1>1. UNCHANGED <<db, extra, faults>> /\ UNCHANGED Opened /\ UNCHANGED origin
      /\ pc = "backup"
  BY DEF Backup, Opened
<1>2. DamagedFile \in Snapshot
  BY NoRowIsRow DEF DamagedFile, Snapshot
<1>3. KeepsFiles
  <2>1. ~Whole(NoFile)
    BY DEF Whole, NoFile, Schemas
  <2> QED
    BY <1>0, <1>1, <2>1 DEF KeepsFiles, Backup, TypeOK
<1>4. OpeningType'
  <2>1. primary' \in [{"v1", "v2"} -> Snapshot]
    BY <1>0, <1>2 DEF Backup, TypeOK
  <2>2. copy' \in [schema : {"v1", "v2"}, file : {"primary", "extra"}]
    BY <1>0 DEF Backup, TypeOK
  <2>3. pc' \in {"copying", "bump", "migrate"}
    BY DEF Backup, AfterBackup
  <2> QED
    BY <1>0, <1>1, <2>1, <2>2, <2>3 DEF OpeningType, TypeOK
<1>5. TypeOK' /\ RowsOK' /\ ReadersOK'
  BY <1>1, <1>4, SameDatabase
<1>6. OpeningOK'
  <2>1. CASE primary[db.schema] = SnapshotOf(db)
    <3>1. pc' = AfterBackup /\ UNCHANGED <<copy, primary>>
      BY <2>1 DEF Backup
    <3>2. HasBackup'
      <4>1. SnapshotOf(db) \in (extra \cup {primary["v1"], primary["v2"]})'
        BY <2>1, <3>1, <1>0, <1>1
      <4> QED
        BY <4>1, <1>0, <1>1, <1>5, CopyIsBackup
    <3> QED
      BY <3>1, <3>2, <1>0, <1>1 DEF OpeningOK, AfterBackup
  <2>2. CASE primary[db.schema] # SnapshotOf(db)
    <3>1. /\ pc' = "copying" /\ copy'.schema = db.schema
          /\ copy'.file = "primary" => primary'[copy'.schema] = DamagedFile
      BY <2>2, <1>0 DEF Backup, TypeOK
    <3> QED
      BY <3>1, <1>0, <1>1 DEF OpeningOK
  <2> QED
    BY <2>1, <2>2
<1> QED
  BY <1>3, <1>5, <1>6 DEF Inv

\* Completing one: it replaces only the file that was being written.
LEMMA BackupDoneStep == ASSUME Inv, BackupDone PROVE Inv' /\ KeepsFiles
<1>0. /\ TypeOK /\ OpeningOK /\ db.schema \in {"v1", "v2"} /\ db.body = origin.body
      /\ copy.schema = db.schema
      /\ copy.file = "primary" => primary[db.schema] = DamagedFile
  BY DEF Inv, OpeningOK, BackupDone
<1>1. UNCHANGED <<copy, db, faults>> /\ UNCHANGED Opened /\ UNCHANGED origin
      /\ pc' = AfterBackup
  BY DEF BackupDone, Opened
<1>2. SnapshotOf(db) \in Snapshot
  BY <1>0, SnapshotType
<1>3. KeepsFiles
  <2>1. ~Whole(DamagedFile)
    BY DEF Whole, DamagedFile, Schemas
  <2> QED
    BY <1>0, <1>1, <2>1 DEF KeepsFiles, BackupDone, TypeOK
<1>4. OpeningType'
  <2>1. primary' \in [{"v1", "v2"} -> Snapshot] /\ extra' \subseteq Snapshot
    BY <1>0, <1>2 DEF BackupDone, TypeOK
  <2>2. pc' \in {"bump", "migrate"}
    BY <1>1 DEF AfterBackup
  <2> QED
    BY <1>0, <1>1, <2>1, <2>2 DEF OpeningType, TypeOK
<1>5. TypeOK' /\ RowsOK' /\ ReadersOK'
  BY <1>1, <1>4, SameDatabase
<1>6. HasBackup'
  <2>1. SnapshotOf(db) \in (extra \cup {primary["v1"], primary["v2"]})'
    BY <1>0 DEF BackupDone, TypeOK
  <2> QED
    BY <2>1, <1>0, <1>1, <1>5, CopyIsBackup
<1>7. OpeningOK'
  BY <1>0, <1>1, <1>6 DEF OpeningOK, AfterBackup
<1> QED
  BY <1>3, <1>5, <1>7 DEF Inv

\* The first migration step changes only the schema.
LEMMA BumpStep == ASSUME Inv, Bump PROVE Inv' /\ KeepsFiles
<1>0. /\ TypeOK /\ ReadersOK /\ OpeningOK /\ db \in Database /\ db.schema = "v1"
      /\ pc = "bump"
  BY DEF Inv, OpeningOK, Bump, TypeOK, Database
<1>1. /\ UNCHANGED <<copy, primary, extra, faults>> /\ UNCHANGED Opened
      /\ UNCHANGED <<origin, reader, hurt>> /\ pc' = "migrate"
      /\ db' = [db EXCEPT !.schema = "v2"]
  BY DEF Bump, Opened
<1>2. /\ db'.schema = "v2" /\ db'.body = db.body /\ db'.index = db.index
      /\ db'.summary = db.summary /\ db'.corrupt = db.corrupt
  BY <1>0, <1>1 DEF Database
<1>3. db' \in Database
  BY <1>0, <1>1 DEF Database, Schemas
<1>4. OpeningType'
  BY <1>0, <1>1 DEF TypeOK, OpeningType
<1>5. TypeOK'
  BY <1>0, <1>1, <1>3, <1>4, OpenedType, TypeParts
<1>6. RowsOK' /\ ReadersOK'
  BY <1>0, <1>1, <1>2, SameRows, SameReaders
<1>7. KeepsFiles
  BY <1>1 DEF KeepsFiles
<1>8. OpeningOK'
  BY <1>0, <1>1, <1>2, <1>7, KeepsBackup DEF OpeningOK
<1> QED
  BY <1>5, <1>6, <1>7, <1>8 DEF Inv

\* The second gives every object that opens its rows and quarantines every other.
LEMMA MigrateStep == ASSUME Inv, Migrate PROVE Inv' /\ KeepsFiles /\ db'.body = db.body
<1>0. /\ TypeOK /\ RowsOK /\ ReadersOK /\ OpeningOK /\ db \in Database /\ db.schema = "v2"
      /\ pc = "migrate"
  BY DEF Inv, OpeningOK, Migrate, TypeOK, Database
<1>1. /\ UNCHANGED <<copy, primary, extra, faults>> /\ UNCHANGED Opened
      /\ UNCHANGED <<origin, reader, hurt>> /\ pc' = "up"
  BY DEF Migrate, Opened
<1> DEFINE bad == {id \in Ids : Present(db.body[id]) /\ ~db.body[id].ok}
           rows == [id \in Ids |-> IF id \in bad THEN NoRow ELSE db.body[id]]
           sums == [id \in Ids |-> IF id \in RawIds THEN NoRow ELSE rows[id]]
<1>2. db' = [db EXCEPT !.schema = "v3", !.index = rows, !.summary = sums, !.corrupt = bad]
  BY DEF Migrate
<1>3. rows \in [Ids -> Row] /\ sums \in [Ids -> Row] /\ bad \in SUBSET Ids
  BY <1>0, NoRowIsRow DEF Database
<1>4. \A id \in Ids : rows[id] = IF id \in bad THEN NoRow ELSE db.body[id]
  OBVIOUS
<1>5. \A id \in Ids : sums[id] = IF id \in RawIds THEN NoRow ELSE rows[id]
  OBVIOUS
<1>6. \A id \in Ids : id \in bad <=> Present(db.body[id]) /\ ~db.body[id].ok
  OBVIOUS
<1> HIDE DEF bad, rows, sums
<1>7. /\ db'.schema = "v3" /\ db'.body = db.body /\ db'.index = rows
      /\ db'.summary = sums /\ db'.corrupt = bad
  BY <1>0, <1>2 DEF Database
<1>8. db' \in Database
  BY <1>0, <1>2, <1>3 DEF Database, Schemas
<1>9. OpeningType'
  BY <1>0, <1>1 DEF TypeOK, OpeningType
<1>10. TypeOK'
  BY <1>0, <1>1, <1>8, <1>9, OpenedType, TypeParts
<1>11. RowsOK'
  <2>1. (db.corrupt \subseteq hurt)'
    BY <1>0, <1>1, <1>3, <1>6, <1>7 DEF RowsOK, RowOK
  <2>2. ASSUME NEW id \in Ids PROVE RowOK(id)'
    <3>1. RowOK(id)
      BY <1>0 DEF RowsOK
    <3>2. Present(sums[id]) => sums[id] = db.body[id]
      BY <1>4, <1>5, NoRowIsRow
    <3>3. Present(sums[id]) /\ ~sums[id].ok => id \in hurt'
      BY <3>1, <3>2, <1>1 DEF RowOK
    <3> QED
      BY <3>1, <3>3, <1>1, <1>7 DEF RowOK
  <2>3. ASSUME NEW id \in Ids PROVE Agree(id)'
    <3>1. RowOK(id)
      BY <1>0 DEF RowsOK
    <3>2. CASE Present(db.body[id]) /\ id \notin bad
      <4>1. rows[id] = db.body[id] /\ (id \notin RawIds => sums[id] = db.body[id])
        BY <3>2, <1>4, <1>5
      <4> QED
        BY <3>2, <4>1, <1>7 DEF Agree, Shown, SameRow
    <3>3. CASE ~(Present(db.body[id]) /\ id \notin bad)
      <4>1. rows[id] = NoRow /\ sums[id] = NoRow
        BY <3>1, <3>3, <1>4, <1>5 DEF RowOK
      <4>2. ~Shown(id)'
        BY <3>3, <1>7 DEF Shown
      <4> QED
        BY <4>1, <4>2, <1>7 DEF Agree
    <3> QED
      BY <3>2, <3>3
  <2> QED
    BY <2>1, <2>2, <2>3 DEF RowsOK
<1>12. ReadersOK'
  BY <1>0, <1>1, SameReaders
<1>13. KeepsFiles
  BY <1>1 DEF KeepsFiles
<1>14. OpeningOK'
  BY <1>0, <1>1, <1>7, <1>13, KeepsBackup DEF OpeningOK
<1> QED
  BY <1>7, <1>10, <1>11, <1>12, <1>13, <1>14 DEF Inv

\* A store of the last schema needs no migration.
LEMMA TablesStep == ASSUME Inv, Tables PROVE Inv' /\ KeepsFiles
<1>1. /\ UNCHANGED <<copy, db, primary, extra, faults>> /\ UNCHANGED Opened
      /\ UNCHANGED origin /\ pc = "tables" /\ pc' = "up"
  BY DEF Tables, Opened
<1>2. OpeningType'
  BY <1>1 DEF Inv, TypeOK, OpeningType
<1>3. TypeOK' /\ RowsOK' /\ ReadersOK'
  BY <1>1, <1>2, SameDatabase
<1>4. KeepsFiles
  BY <1>1 DEF KeepsFiles
<1>5. OpeningOK'
  BY <1>1, <1>4, KeepsBackup DEF Inv, OpeningOK
<1> QED
  BY <1>3, <1>4, <1>5 DEF Inv

\* A failure or a crash loses only threads.
LEMMA StopStep == ASSUME Inv, Stop PROVE Inv' /\ KeepsFiles
<1>1. /\ UNCHANGED <<copy, db, primary, extra, origin, hurt, damage>>
      /\ pc' = "down" /\ pick' = "none"
      /\ reader' = [r \in Readers |-> [reader[r] EXCEPT !.pc = "idle"]]
  BY DEF Stop
<1>2. faults' \in 0..MaxFaults
  BY ObjectStoreAssumption DEF Stop, Inv, TypeOK
<1>3. reader' \in [Readers -> Reader] /\ \A r \in Readers : reader'[r].pc = "idle"
  BY <1>1 DEF Inv, TypeOK, Reader
<1>4. TypeOK'
  BY <1>1, <1>2, <1>3 DEF Inv, TypeOK
<1>5. RowsOK'
  BY <1>1, SameRows
<1>6. ReadersOK'
  BY <1>3 DEF ReadersOK
<1>7. KeepsFiles
  BY <1>1 DEF KeepsFiles
<1>8. OpeningOK'
  BY <1>1, <1>7, KeepsBackup DEF Inv, OpeningOK
<1> QED
  BY <1>4, <1>5, <1>6, <1>7, <1>8 DEF Inv

-----------------------------------------------------------------------------
(* Steps of the open store. *)

\* What a transaction keeps when it leaves readers and the pick right.
LEMMA Transaction ==
  ASSUME Inv, pc = "up", UNCHANGED Files, StoreType',
         db' \in Database, RowsOK', db'.schema = db.schema, ReadersOK'
  PROVE  Inv'
<1>1. TypeOK'
  BY FilesType, TypeParts DEF Inv
<1>2. OpeningOK'
  BY OpenStep
<1> QED
  BY <1>1, <1>2 DEF Inv

\* What a step keeps that leaves the database alone.
LEMMA SameStore ==
  ASSUME Inv, pc = "up", UNCHANGED Files, UNCHANGED <<db, hurt>>, StoreType', ReadersOK'
  PROVE  Inv'
<1>1. RowsOK'
  BY SameRows
<1>2. db' \in Database
  BY DEF Inv, TypeOK, Database
<1> QED
  BY <1>1, <1>2, Transaction

\* A reader that moves on knows what it needs to.
LEMMA ReaderMoves ==
  ASSUME TypeOK, ReadersOK, NEW r \in Readers, NEW p \in {"idle", "checked", "bad"},
         NEW id \in Ids, NEW op \in {"raw", "summary"}, Becomes(r, p, id, op),
         UNCHANGED <<pick, hurt, damage>>,
         p = "bad" => id \in hurt, p # "idle" /\ op = "summary" => id \notin RawIds
  PROVE  StoreType' /\ ReadersOK'
<1>1. [pc |-> p, id |-> id, op |-> op] \in Reader
  BY DEF Reader
<1>2. reader' = [reader EXCEPT ![r] = [pc |-> p, id |-> id, op |-> op]]
  BY DEF Becomes
<1>3. reader' \in [Readers -> Reader]
  BY <1>1, <1>2 DEF TypeOK
<1>4. StoreType'
  BY <1>3 DEF TypeOK, StoreType
<1>5. ReadersOK'
  BY <1>2 DEF TypeOK, ReadersOK
<1> QED
  BY <1>4, <1>5

\* The types of the open store while its readers and the pick rest.
LEMMA SameStoreType ==
  ASSUME TypeOK, UNCHANGED <<reader, hurt, damage>>, pick' \in Ids \cup {"none"}
  PROVE  StoreType'
BY DEF TypeOK, StoreType

\* Of an open store, an object whose bytes or summary do not open was damaged.
LEMMA BadIsHurt ==
  ASSUME Inv, pc = "up", NEW id \in Ids, NEW op \in {"raw", "summary"},
         op = "summary" => id \notin RawIds, Present(db.body[id]), ~Good(Bytes(id, op))
  PROVE  id \in hurt
<1>1. RowOK(id) /\ Agree(id) /\ db.corrupt \subseteq hurt
  BY DEF Inv, RowsOK, OpeningOK
<1>2. CASE op = "raw"
  BY <1>1, <1>2 DEF Bytes, Good, RowOK
<1>3. CASE op = "summary" /\ Present(db.summary[id])
  BY <1>1, <1>3 DEF Bytes, Good, RowOK
<1>4. CASE op = "summary" /\ ~Present(db.summary[id])
  <2>1. ~Shown(id)
    BY <1>1, <1>4 DEF Agree, SameRow, Shown, Present
  <2> QED
    BY <1>1, <2>1 DEF Shown
<1> QED
  BY <1>2, <1>3, <1>4

\* An index row belongs to an object that is there.
LEMMA IndexedIsThere ==
  ASSUME Inv, pc = "up", NEW id \in Ids, Present(db.index[id])
  PROVE  Shown(id) /\ SameRow(db.index[id], db.body[id])
<1>1. Agree(id)
  BY DEF Inv, RowsOK, OpeningOK
<1> QED
  BY <1>1, NoRowIsRow DEF Agree

\* A save writes the object, its index row and its summary.
LEMMA SaveStep == ASSUME Inv, NEW id \in Ids, Save(id) PROVE Inv'
<1>1. pc = "up" /\ UNCHANGED Files /\ UNCHANGED <<reader, pick, hurt, damage>>
  BY DEF Save
<1>2. db.body[id].v \in 0..MaxVersion /\ db.body[id].v < MaxVersion
  BY DEF Save, Inv, TypeOK, Row
<1>3. db.body[id].v + 1 \in 0..MaxVersion /\ db.body[id].v + 1 > 0
  BY <1>2, ObjectStoreAssumption
<1>4. PICK q \in BOOLEAN :
        db' = Written(db, id, [v |-> db.body[id].v + 1, queued |-> q, ok |-> TRUE])
  BY DEF Save
<1>5. PICK x : x = [v |-> db.body[id].v + 1, queued |-> q, ok |-> TRUE]
  OBVIOUS
<1>6. x \in Row /\ Good(x) /\ db' = Written(db, id, x)
  BY <1>3, <1>4, <1>5 DEF Row, Good, Present
<1>7. db' \in Database /\ RowsOK' /\ db'.schema = db.schema
  BY <1>1, <1>6, WrittenRows DEF Inv
<1>8. StoreType'
  BY <1>1, SameStoreType DEF Inv, TypeOK
<1>9. ReadersOK'
  BY <1>1, SameReaders DEF Inv
<1> QED
  BY <1>1, <1>7, <1>8, <1>9, Transaction

\* A deletion removes all three.
LEMMA DeleteStep == ASSUME Inv, NEW id \in Ids, Delete(id) PROVE Inv'
<1>1. /\ pc = "up" /\ UNCHANGED Files /\ UNCHANGED <<reader, pick, hurt, damage>>
      /\ db' = Removed(db, id)
  BY DEF Delete
<1>2. db' \in Database /\ RowsOK' /\ db'.schema = db.schema
  BY <1>1, RemovedRows DEF Inv
<1>3. StoreType'
  BY <1>1, SameStoreType DEF Inv, TypeOK
<1>4. ReadersOK'
  BY <1>1, SameReaders DEF Inv
<1> QED
  BY <1>1, <1>2, <1>3, <1>4, Transaction

\* Damage is remembered.
LEMMA DamageStep == ASSUME Inv, NEW id \in Ids, Damage(id) PROVE Inv'
<1>1. /\ pc = "up" /\ damage < MaxDamage /\ UNCHANGED Files /\ UNCHANGED <<reader, pick>>
      /\ hurt' = hurt \cup {id} /\ damage' = damage + 1
  BY DEF Damage
<1>2. db' \in Database /\ RowsOK' /\ db'.schema = db.schema
  BY DamagedRows DEF Inv
<1>3. damage' \in 0..MaxDamage
  BY <1>1, ObjectStoreAssumption DEF Inv, TypeOK
<1>4. StoreType'
  BY <1>1, <1>3 DEF Inv, TypeOK, StoreType
<1>5. ReadersOK'
  BY <1>1, SameReaders DEF Inv
<1> QED
  BY <1>1, <1>2, <1>4, <1>5, Transaction

\* A read begins with an object that is not quarantined.
LEMMA ReadOneStep ==
  ASSUME Inv, NEW r \in Readers, NEW id \in Ids, NEW op \in {"raw", "summary"},
         ReadOne(r, id, op)
  PROVE  Inv'
<1>1. /\ pc = "up" /\ UNCHANGED Files /\ UNCHANGED <<db, pick, hurt, damage>>
      /\ Becomes(r, "checked", id, op)
      /\ op = "summary" => id \notin RawIds
  BY DEF ReadOne
<1>2. StoreType' /\ ReadersOK'
  BY <1>1, ReaderMoves DEF Inv
<1> QED
  BY <1>1, <1>2, SameStore

\* What it fetched opens, is not there, or was damaged.
LEMMA FetchStep == ASSUME Inv, NEW r \in Readers, Fetch(r) PROVE Inv'
<1>1. pc = "up" /\ UNCHANGED Files /\ UNCHANGED <<db, pick, hurt, damage>>
  BY DEF Fetch
<1>2. PICK id \in Ids, op \in {"raw", "summary"} : id = reader[r].id /\ op = reader[r].op
  BY DEF Inv, TypeOK, Reader
<1>3. op = "summary" => id \notin RawIds
  BY <1>2 DEF Inv, ReadersOK, Fetch
<1>4. CASE Present(db.body[id]) /\ ~Good(Bytes(id, op))
  <2>1. Becomes(r, "bad", id, op)
    BY <1>2, <1>4 DEF Fetch
  <2>2. id \in hurt
    BY <1>1, <1>3, <1>4, BadIsHurt
  <2>3. StoreType' /\ ReadersOK'
    BY <1>1, <1>3, <2>1, <2>2, ReaderMoves DEF Inv
  <2> QED
    BY <1>1, <2>3, SameStore
<1>5. CASE ~(Present(db.body[id]) /\ ~Good(Bytes(id, op)))
  <2>1. Becomes(r, "idle", id, op)
    BY <1>2, <1>5 DEF Fetch
  <2>2. StoreType' /\ ReadersOK'
    BY <1>1, <2>1, ReaderMoves DEF Inv
  <2> QED
    BY <1>1, <2>2, SameStore
<1> QED
  BY <1>4, <1>5

\* So does a list or a page find only damaged objects bad.
LEMMA ReadManyStep ==
  ASSUME Inv, NEW r \in Readers, NEW id \in Ids, NEW op \in {"raw", "summary"},
         ReadMany(r, id, op)
  PROVE  Inv'
<1>1. /\ pc = "up" /\ UNCHANGED Files /\ UNCHANGED <<db, pick, hurt, damage>>
      /\ Becomes(r, "bad", id, op) /\ ~Good(Bytes(id, op))
      /\ op = "summary" => id \notin RawIds
  BY DEF ReadMany
<1>2. Present(db.body[id])
  BY IndexedIsThere DEF ReadMany, Shown
<1>3. id \in hurt
  BY <1>1, <1>2, BadIsHurt
<1>4. StoreType' /\ ReadersOK'
  BY <1>1, <1>3, ReaderMoves DEF Inv
<1> QED
  BY <1>1, <1>4, SameStore

\* Acting on what a read found quarantines a damaged object, whatever happened since.
LEMMA QuarantineReadStep == ASSUME Inv, NEW r \in Readers, QuarantineRead(r) PROVE Inv'
<1>1. pc = "up" /\ UNCHANGED Files /\ UNCHANGED <<pick, hurt, damage>>
  BY DEF QuarantineRead
<1>2. PICK id \in Ids, op \in {"raw", "summary"} : id = reader[r].id /\ op = reader[r].op
  BY DEF Inv, TypeOK, Reader
<1>3. db' = Quarantined(db, id) /\ Becomes(r, "idle", id, op) /\ id \in hurt
  BY <1>2 DEF Inv, ReadersOK, QuarantineRead
<1>4. db' \in Database /\ RowsOK' /\ db'.schema = db.schema
  BY <1>1, <1>3, QuarantinedRows DEF Inv
<1>5. StoreType' /\ ReadersOK'
  BY <1>1, <1>3, ReaderMoves DEF Inv
<1> QED
  BY <1>1, <1>4, <1>5, Transaction

\* A material without an index row is quarantined already.
LEMMA NextQueuedStep == ASSUME Inv, NextQueued PROVE Inv'
<1>1. pc = "up" /\ UNCHANGED Files /\ UNCHANGED <<reader, hurt, damage>>
  BY DEF NextQueued
<1>2. ReadersOK'
  BY <1>1, SameReaders DEF Inv
<1>3. pick' \in Ids \cup {"none"}
  BY DEF Inv, TypeOK, NextQueued
<1>4. StoreType'
  BY <1>1, <1>3, SameStoreType DEF Inv
<1>5. CASE Unindexed # {}
  <2>1. PICK id \in Unindexed : db' = Quarantined(db, id)
    BY <1>5 DEF NextQueued
  <2>2. id \in Ids /\ Present(db.body[id]) /\ ~Present(db.index[id])
    BY DEF Unindexed
  <2>3. Agree(id) /\ db.corrupt \subseteq hurt
    BY <1>1, <2>2 DEF Inv, RowsOK, OpeningOK
  <2>4. id \in hurt
    BY <2>2, <2>3 DEF Agree, Shown, SameRow, Present
  <2>5. db' \in Database /\ RowsOK' /\ db'.schema = db.schema
    BY <1>1, <2>1, <2>2, <2>4, QuarantinedRows DEF Inv
  <2> QED
    BY <1>1, <1>2, <1>4, <2>5, Transaction
<1>6. CASE Unindexed = {}
  BY <1>1, <1>2, <1>4, <1>6, SameStore DEF NextQueued
<1> QED
  BY <1>5, <1>6

\* A claim rewrites a queued material, or quarantines one that was damaged.
LEMMA ClaimStep == ASSUME Inv, Claim PROVE Inv'
<1>1. /\ pc = "up" /\ UNCHANGED Files /\ UNCHANGED <<reader, hurt, damage>>
      /\ pick' = "none"
  BY DEF Claim
<1>2. ReadersOK'
  BY <1>1, SameReaders DEF Inv
<1>3. StoreType'
  BY <1>1, SameStoreType DEF Inv
<1>4. PICK id \in Ids : id = pick
  BY DEF Claim, Inv, TypeOK
<1>5. PICK x \in Row : x = db.body[id]
  BY DEF Inv, TypeOK
<1>6. CASE Present(x) /\ db.index[id].queued /\ x.ok /\ x.queued
  <2>1. PICK y : y = [x EXCEPT !.queued = FALSE]
    OBVIOUS
  <2>2. y \in Row /\ Good(y)
    BY <1>6, <2>1 DEF Row, Good, Present
  <2>3. db' = Written(db, id, y)
    BY <1>4, <1>5, <1>6, <2>1 DEF Claim
  <2>4. db' \in Database /\ RowsOK' /\ db'.schema = db.schema
    BY <1>1, <2>2, <2>3, WrittenRows DEF Inv
  <2> QED
    BY <1>1, <1>2, <1>3, <2>4, Transaction
<1>7. CASE Present(x) /\ db.index[id].queued /\ ~(x.ok /\ x.queued)
  <2>1. Agree(id) /\ RowOK(id)
    BY <1>1 DEF Inv, RowsOK, OpeningOK
  <2>2. db.index[id] # NoRow
    BY <1>7 DEF NoRow
  <2>3. id \in hurt
    BY <1>5, <1>7, <2>1, <2>2 DEF Agree, SameRow, RowOK
  <2>4. db' = Quarantined(db, id)
    BY <1>4, <1>5, <1>7 DEF Claim
  <2>5. db' \in Database /\ RowsOK' /\ db'.schema = db.schema
    BY <1>1, <2>3, <2>4, QuarantinedRows DEF Inv
  <2> QED
    BY <1>1, <1>2, <1>3, <2>5, Transaction
<1>8. CASE ~(Present(x) /\ db.index[id].queued)
  <2>1. UNCHANGED db
    BY <1>4, <1>5, <1>8 DEF Claim
  <2> QED
    BY <1>1, <1>2, <1>3, <2>1, SameStore
<1> QED
  BY <1>6, <1>7, <1>8

-----------------------------------------------------------------------------
(* Theorems. *)

\* A step of the open store writes no backup.
LEMMA OpenKeepsFiles == ASSUME UNCHANGED Files PROVE KeepsFiles
BY DEF Files, KeepsFiles

\* Before the store is open no step changes an object.
LEMMA OpeningKeepsBodies == ASSUME Inv, OpenNext PROVE Inv' /\ KeepsFiles /\ db'.body = db.body
<1>0. db \in Database
  BY DEF Inv, TypeOK, Database
<1>1. CASE OpenDatabase
  <2>1. \E s : db' = [db EXCEPT !.schema = s]
    BY <1>1 DEF OpenDatabase
  <2> QED
    BY <1>0, <1>1, <2>1, OpenDatabaseStep DEF Database
<1>2. CASE Backup
  BY <1>2, BackupStep DEF Backup
<1>3. CASE BackupDone
  BY <1>3, BackupDoneStep DEF BackupDone
<1>4. CASE Bump
  <2>1. db'.body = db.body
    BY <1>0, <1>4 DEF Bump, Database
  <2> QED
    BY <1>4, <2>1, BumpStep
<1>5. CASE Migrate
  BY <1>5, MigrateStep
<1>6. CASE Tables
  BY <1>6, TablesStep DEF Tables
<1> QED
  BY <1>1, <1>2, <1>3, <1>4, <1>5, <1>6 DEF OpenNext

\* The guards of the open store's steps, and what they leave alone.
StoreStep == pc = "up" /\ UNCHANGED Files

\* Every step keeps the invariant and every whole backup, and changes an object only
\* when the store is open.
LEMMA NextInv ==
  ASSUME Inv, [Next]_vars
  PROVE  Inv' /\ KeepsFiles /\ (pc # "up" => db'.body = db.body)
<1>1. CASE OpenNext
  BY <1>1, OpeningKeepsBodies
<1>2. CASE Stop
  BY <1>2, StopStep DEF Stop
<1>3. CASE NextQueued
  <2>1. StoreStep
    BY <1>3 DEF NextQueued, StoreStep
  <2> QED
    BY <1>3, <2>1, NextQueuedStep, OpenKeepsFiles DEF StoreStep
<1>4. CASE Claim
  <2>1. StoreStep
    BY <1>4 DEF Claim, StoreStep
  <2> QED
    BY <1>4, <2>1, ClaimStep, OpenKeepsFiles DEF StoreStep
<1>5. ASSUME NEW id \in Ids, Save(id) \/ Delete(id) \/ Damage(id)
      PROVE  Inv' /\ StoreStep
  <2>1. StoreStep
    BY <1>5 DEF Save, Delete, Damage, StoreStep
  <2> QED
    BY <1>5, <2>1, SaveStep, DeleteStep, DamageStep
<1>6. ASSUME NEW r \in Readers, Fetch(r) \/ QuarantineRead(r)
      PROVE  Inv' /\ StoreStep
  <2>1. StoreStep
    BY <1>6 DEF Fetch, QuarantineRead, StoreStep
  <2> QED
    BY <1>6, <2>1, FetchStep, QuarantineReadStep
<1>7. ASSUME NEW r \in Readers, NEW id \in Ids, NEW op \in {"raw", "summary"},
             ReadOne(r, id, op) \/ ReadMany(r, id, op)
      PROVE  Inv' /\ StoreStep
  <2>1. StoreStep
    BY <1>7 DEF ReadOne, ReadMany, StoreStep
  <2> QED
    BY <1>7, <2>1, ReadOneStep, ReadManyStep
<1>8. CASE UNCHANGED vars
  <2>1. UNCHANGED <<pc, copy, db, primary, extra, origin, reader, pick, hurt, faults, damage>>
    BY <1>8 DEF vars
  <2>2. OpeningType' /\ UNCHANGED Opened
    BY <2>1 DEF Inv, TypeOK, OpeningType, Opened
  <2>3. TypeOK' /\ RowsOK' /\ ReadersOK'
    BY <2>1, <2>2, SameDatabase
  <2>4. KeepsFiles
    BY <2>1 DEF KeepsFiles
  <2>5. OpeningOK'
    BY <2>1, <2>4, KeepsBackup DEF Inv, OpeningOK
  <2> QED
    BY <2>1, <2>3, <2>4, <2>5 DEF Inv
<1>9. StoreStep => KeepsFiles /\ pc = "up"
  BY OpenKeepsFiles DEF StoreStep
<1> QED
  BY <1>1, <1>2, <1>3, <1>4, <1>5, <1>6, <1>7, <1>8, <1>9 DEF Next

\* The inductive invariant of the object store.
THEOREM Invariant == Spec => []Inv
<1>1. Inv /\ [Next]_vars => Inv'
  BY NextInv
<1> QED
  BY InitInv, <1>1, PTL DEF Spec

\* Rows, index and summaries of an open store agree, and only damaged objects are
\* quarantined, whatever failed, crashed or interleaved (lib.rs).
THEOREM AgreementHolds == Spec => []RowsAgree
<1>1. Inv => RowsAgree
  <2> SUFFICES ASSUME Inv PROVE RowsAgree
    OBVIOUS
  <2>1. TypeOK /\ db.corrupt \subseteq hurt
    BY DEF Inv, RowsOK
  <2>2. pc = "up" => \A id \in Ids : Agree(id)
    BY DEF Inv, RowsOK, OpeningOK
  <2> QED
    BY <2>1, <2>2 DEF RowsAgree, Agree, Shown, SameRow
<1> QED
  BY Invariant, <1>1, PTL

\* A database that held objects is migrated only with a whole backup of them.
THEOREM MigratedWithBackup == Spec => []BackedUp
<1>1. Inv => BackedUp
  BY DEF Inv, OpeningOK, BackedUp, HasBackup
<1> QED
  BY Invariant, <1>1, PTL

\* No opening overwrites a whole backup or changes an object.
THEOREM OpeningPreserves == Spec => Preserved
<1>1. Inv /\ [Next]_vars =>
        [/\ \A s \in {"v1", "v2"} : Whole(primary[s]) => primary'[s] = primary[s]
         /\ pc # "up" => db'.body = db.body]_vars
  BY NextInv DEF KeepsFiles
<1> QED
  BY Invariant, <1>1, PTL DEF Spec, Preserved
=============================================================================
