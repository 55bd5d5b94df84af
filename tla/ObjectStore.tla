---------------------------- MODULE ObjectStore ----------------------------
(***************************************************************************)
(* The encrypted object store of a workspace.  Opening it backs up and     *)
(* migrates an older schema step by step and may fail or crash at every    *)
(* step.  Once open, an object, its protected summary and its clear index  *)
(* row change in one transaction; a read decrypts outside the connection   *)
(* lock and quarantines what it could not open afterwards.  The disk may   *)
(* damage the bytes of a row.  Every object here is of one kind, except    *)
(* the raw ones, which have no summary.                                    *)
(***************************************************************************)
EXTENDS Naturals, FiniteSets

CONSTANTS Ids,       \* object ids
          RawIds,    \* objects of a raw kind
          Readers,   \* threads that read
          MaxVersion,\* bound on the saves of an object
          MaxFaults, \* bound on crashes and failed openings
          MaxDamage  \* bound on damaged rows after opening

ASSUME ObjectStoreAssumption ==
  /\ Ids # {} /\ RawIds \subseteq Ids
  /\ {MaxVersion, MaxFaults, MaxDamage} \subseteq Nat
  /\ MaxVersion > 0

VARIABLES
  pc,     \* where the opening process is, "up" when it is done
  copy,   \* the backup being written: for which schema and into which file
  db,     \* the database: schema, objects, index, summaries, quarantine
  primary,\* the first backup file of each schema
  extra,  \* complete backups under other names
  origin, \* the rows of the database before its first opening
  reader, \* [Readers -> Reader]
  pick,   \* the material the worker is about to claim
  hurt,   \* objects with a damaged row at some time
  faults, damage

vars == <<pc, copy, db, primary, extra, origin, reader, pick, hurt, faults, damage>>

\* A row written at version v; ok says whether its bytes still decrypt, queued what
\* they or the index say about the status.
Row == [v : 0..MaxVersion, queued : BOOLEAN, ok : BOOLEAN]

NoRow == [v |-> 0, queued |-> FALSE, ok |-> FALSE]

Present(x) == x.v > 0

Good(x) == Present(x) /\ x.ok

Schemas == {"v1", "v2", "v3"}

\* What a backup has to preserve.
Snapshot == [schema : Schemas \cup {"none", "damaged"}, body : [Ids -> Row]]

SnapshotOf(d) == [schema |-> d.schema, body |-> d.body]

NoRows == [id \in Ids |-> NoRow]

NoFile == [schema |-> "none", body |-> NoRows]

DamagedFile == [schema |-> "damaged", body |-> NoRows]

Whole(file) == file.schema \in Schemas

Reader == [pc : {"idle", "checked", "bad"}, id : Ids, op : {"raw", "summary"}]

TypeOK ==
  /\ pc \in {"down", "backup", "copying", "bump", "migrate", "tables", "up"}
  /\ copy \in [schema : {"v1", "v2"}, file : {"primary", "extra"}]
  /\ db \in [schema : Schemas \cup {"none"}, body : [Ids -> Row], index : [Ids -> Row],
             summary : [Ids -> Row], corrupt : SUBSET Ids]
  /\ primary \in [{"v1", "v2"} -> Snapshot]
  /\ extra \subseteq Snapshot
  /\ origin \in Snapshot
  /\ reader \in [Readers -> Reader]
  /\ pick \in Ids \cup {"none"}
  /\ hurt \subseteq Ids
  /\ faults \in 0..MaxFaults /\ damage \in 0..MaxDamage

AnyId == CHOOSE id \in Ids : TRUE

FirstRows == {x \in Row : x = NoRow \/ x.v = 1}

\* A new directory, or a workspace of an older version with any of its rows damaged
\* and perhaps a backup left by an earlier attempt.
Init ==
  /\ pc = "down" /\ copy = [schema |-> "v1", file |-> "primary"]
  /\ \E s \in {"none", "v1", "v2"}, rows \in [Ids -> FirstRows] :
       /\ s = "none" => rows = NoRows
       /\ \A id \in RawIds : ~rows[id].queued
       /\ db = [schema |-> s, body |-> rows, index |-> NoRows, summary |-> NoRows,
                corrupt |-> {}]
  /\ primary \in [{"v1", "v2"} -> {NoFile, DamagedFile, [schema |-> "v1", body |-> NoRows]}]
  /\ extra = {} /\ origin = SnapshotOf(db)
  /\ reader = [r \in Readers |-> [pc |-> "idle", id |-> AnyId, op |-> "raw"]]
  /\ pick = "none"
  /\ hurt = {id \in Ids : Present(db.body[id]) /\ ~db.body[id].ok}
  /\ faults = 0 /\ damage = 0

-----------------------------------------------------------------------------
(* Transactions on the rows of one object. *)

\* Faulty variant: the quarantine entry of an overwritten object stays.
Written_StaysCorrupt(d, id, x) ==
  [d EXCEPT !.body[id] = x, !.index[id] = [x EXCEPT !.ok = TRUE],
            !.summary[id] = IF id \in RawIds THEN NoRow ELSE [x EXCEPT !.ok = TRUE]]

Written(d, id, x) ==
  [d EXCEPT !.body[id] = x, !.index[id] = [x EXCEPT !.ok = TRUE],
            !.summary[id] = IF id \in RawIds THEN NoRow ELSE [x EXCEPT !.ok = TRUE],
            !.corrupt = @ \ {id}]

\* The object stays for recovery but leaves every list.
Quarantined(d, id) ==
  [d EXCEPT !.index[id] = NoRow, !.summary[id] = NoRow, !.corrupt = @ \cup {id}]

Removed(d, id) ==
  [d EXCEPT !.body[id] = NoRow, !.index[id] = NoRow, !.summary[id] = NoRow,
            !.corrupt = @ \ {id}]

-----------------------------------------------------------------------------
(* Opening. *)

Opened == <<origin, reader, pick, hurt, damage>>

HasRows == \E id \in Ids : Present(db.body[id])

\* A new database starts at the first schema; what follows depends on the schema.
OpenDatabase ==
  /\ pc = "down"
  /\ LET s == IF db.schema = "none" THEN "v1" ELSE db.schema IN
     /\ db' = [db EXCEPT !.schema = s]
     /\ \/ s = "v3" /\ pc' = "tables"
        \/ s # "v3" /\ HasRows /\ pc' = "backup"
        \/ s # "v3" /\ ~HasRows /\ pc' = IF s = "v1" THEN "bump" ELSE "migrate"
  /\ UNCHANGED <<copy, primary, extra, faults, Opened>>

AfterBackup == IF db.schema = "v1" THEN "bump" ELSE "migrate"

\* Faulty variant: any file in the place of the backup is taken for one.
Backup_Unverified ==
  /\ pc = "backup"
  /\ copy' = [schema |-> db.schema, file |-> "primary"]
  /\ pc' = IF primary[db.schema] = NoFile THEN "copying" ELSE AfterBackup
  /\ UNCHANGED <<db, primary, extra, faults, Opened>>

\* Faulty variant: a file in the place of the backup that does not match is an error.
Backup_Refused ==
  /\ pc = "backup"
  /\ copy' = [schema |-> db.schema, file |-> "primary"]
  /\ pc' = CASE primary[db.schema] = SnapshotOf(db) -> AfterBackup
             [] primary[db.schema] = NoFile -> "copying"
             [] OTHER -> "down"
  /\ UNCHANGED <<db, primary, extra, faults, Opened>>

\* Faulty variant: a backup that does not match is written over.
Backup_Overwrites ==
  /\ pc = "backup"
  /\ pc' = "copying"
  /\ copy' = [schema |-> db.schema, file |-> "primary"]
  /\ primary' = [primary EXCEPT ![db.schema] = DamagedFile]
  /\ UNCHANGED <<db, extra, faults, Opened>>

\* An existing backup counts if it is whole and has exactly these rows; otherwise
\* it is kept and the new one gets another name.
Backup ==
  /\ pc = "backup"
  /\ IF primary[db.schema] = SnapshotOf(db)
     THEN pc' = AfterBackup /\ UNCHANGED <<copy, primary>>
     ELSE /\ pc' = "copying"
          /\ copy' = [schema |-> db.schema,
                      file |-> IF primary[db.schema] = NoFile THEN "primary" ELSE "extra"]
          /\ primary' = IF primary[db.schema] = NoFile
                        THEN [primary EXCEPT ![db.schema] = DamagedFile] ELSE primary
  /\ UNCHANGED <<db, extra, faults, Opened>>

BackupDone ==
  /\ pc = "copying"
  /\ IF copy.file = "primary"
     THEN primary' = [primary EXCEPT ![copy.schema] = SnapshotOf(db)] /\ UNCHANGED extra
     ELSE extra' = extra \cup {SnapshotOf(db)} /\ UNCHANGED primary
  /\ pc' = AfterBackup
  /\ UNCHANGED <<copy, db, faults, Opened>>

Bump ==
  /\ pc = "bump"
  /\ db' = [db EXCEPT !.schema = "v2"]
  /\ pc' = "migrate"
  /\ UNCHANGED <<copy, primary, extra, faults, Opened>>

\* One transaction: tables, an index row and a summary for every object that opens,
\* a quarantine entry for every other, and the schema.
Migrate ==
  /\ pc = "migrate"
  /\ LET bad == {id \in Ids : Present(db.body[id]) /\ ~db.body[id].ok}
         rows == [id \in Ids |-> IF id \in bad THEN NoRow ELSE db.body[id]]
     IN db' = [db EXCEPT !.schema = "v3", !.index = rows,
                         !.summary = [id \in Ids |-> IF id \in RawIds THEN NoRow ELSE rows[id]],
                         !.corrupt = bad]
  /\ pc' = "up"
  /\ UNCHANGED <<copy, primary, extra, faults, Opened>>

Tables ==
  /\ pc = "tables"
  /\ pc' = "up"
  /\ UNCHANGED <<copy, db, primary, extra, faults, Opened>>

\* Opening fails and rolls back, or the process stops: either way it starts over.
\* Threads are gone; the rows are what the last transaction left.
Stop ==
  /\ pc # "down" /\ faults < MaxFaults
  /\ pc' = "down" /\ faults' = faults + 1
  /\ reader' = [r \in Readers |-> [reader[r] EXCEPT !.pc = "idle"]]
  /\ pick' = "none"
  /\ UNCHANGED <<copy, db, primary, extra, origin, hurt, damage>>

-----------------------------------------------------------------------------
(* The open store. *)

Files == <<pc, copy, primary, extra, origin, faults>>

Save(id) ==
  /\ pc = "up"
  /\ db.body[id].v < MaxVersion
  /\ \E q \in IF id \in RawIds THEN {FALSE} ELSE BOOLEAN :
       db' = Written(db, id, [v |-> db.body[id].v + 1, queued |-> q, ok |-> TRUE])
  /\ UNCHANGED <<Files, reader, pick, hurt, damage>>

Delete(id) ==
  /\ pc = "up"
  /\ db' = Removed(db, id)
  /\ UNCHANGED <<Files, reader, pick, hurt, damage>>

\* Disk damage to the bytes of an object or of its summary.
Damage(id) ==
  /\ pc = "up" /\ damage < MaxDamage
  /\ \/ Good(db.body[id]) /\ db' = [db EXCEPT !.body[id].ok = FALSE]
     \/ Good(db.summary[id]) /\ db' = [db EXCEPT !.summary[id].ok = FALSE]
  /\ hurt' = hurt \cup {id} /\ damage' = damage + 1
  /\ UNCHANGED <<Files, reader, pick>>

\* The bytes a read of this kind opens.
Bytes(id, op) == IF op = "raw" THEN db.body[id] ELSE db.summary[id]

Becomes(r, p, id, op) == reader' = [reader EXCEPT ![r] = [pc |-> p, id |-> id, op |-> op]]

\* Raw and summary first look for a quarantine entry.
ReadOne(r, id, op) ==
  /\ pc = "up" /\ reader[r].pc = "idle"
  /\ op = "summary" => id \notin RawIds
  /\ id \notin db.corrupt
  /\ Becomes(r, "checked", id, op)
  /\ UNCHANGED <<Files, db, pick, hurt, damage>>

\* The row is read, and decrypted without the connection.  A missing object is not
\* found; a missing summary of an object is corruption.
Fetch(r) ==
  /\ pc = "up" /\ reader[r].pc = "checked"
  /\ LET id == reader[r].id
         op == reader[r].op
     IN IF Present(db.body[id]) /\ ~Good(Bytes(id, op))
        THEN Becomes(r, "bad", id, op) ELSE Becomes(r, "idle", id, op)
  /\ UNCHANGED <<Files, db, pick, hurt, damage>>

\* A list opens the objects that are not quarantined, a page the summaries of
\* indexed objects; both fetch all rows first.
ReadMany(r, id, op) ==
  /\ pc = "up" /\ reader[r].pc = "idle"
  /\ op = "summary" => id \notin RawIds /\ Present(db.index[id])
  /\ op = "raw" => id \notin db.corrupt /\ Present(db.body[id])
  /\ ~Good(Bytes(id, op))
  /\ Becomes(r, "bad", id, op)
  /\ UNCHANGED <<Files, db, pick, hurt, damage>>

QuarantineRead(r) ==
  /\ pc = "up" /\ reader[r].pc = "bad"
  /\ db' = Quarantined(db, reader[r].id)
  /\ Becomes(r, "idle", reader[r].id, reader[r].op)
  /\ UNCHANGED <<Files, pick, hurt, damage>>

Unindexed == {id \in Ids \ RawIds : Present(db.body[id]) /\ ~Present(db.index[id])}

\* The head of the queue.  A material without an index row is quarantined again, and
\* a quarantined one is an error: a damaged queue never looks empty.
NextQueued ==
  /\ pc = "up" /\ pick = "none"
  /\ IF Unindexed # {}
     THEN /\ \E id \in Unindexed : db' = Quarantined(db, id)
          /\ UNCHANGED pick
     ELSE /\ db.corrupt \subseteq RawIds
          /\ \E id \in Ids : /\ Present(db.index[id]) /\ db.index[id].queued
                            /\ pick' = id
          /\ UNCHANGED db
  /\ UNCHANGED <<Files, reader, hurt, damage>>

\* The picked material becomes running if its index row is still queued; a body that
\* does not open or is not queued is quarantined.
Claim ==
  /\ pc = "up" /\ pick # "none" /\ pick' = "none"
  /\ LET x == db.body[pick] IN
     IF Present(x) /\ db.index[pick].queued
     THEN db' = IF x.ok /\ x.queued
                THEN Written(db, pick, [x EXCEPT !.queued = FALSE])
                ELSE Quarantined(db, pick)
     ELSE UNCHANGED db
  /\ UNCHANGED <<Files, reader, hurt, damage>>

-----------------------------------------------------------------------------
OpenNext ==
  OpenDatabase \/ Backup \/ BackupDone \/ Bump \/ Migrate \/ Tables

Next ==
  \/ OpenNext \/ Stop \/ NextQueued \/ Claim
  \/ \E id \in Ids : Save(id) \/ Delete(id) \/ Damage(id)
  \/ \E r \in Readers : Fetch(r) \/ QuarantineRead(r)
  \/ \E r \in Readers, id \in Ids, op \in {"raw", "summary"} :
       ReadOne(r, id, op) \/ ReadMany(r, id, op)

Spec == Init /\ [][Next]_vars

\* The user opens the workspace again after a failure.
FairSpec == Spec /\ WF_vars(OpenNext)

-----------------------------------------------------------------------------
(* Properties. *)

\* Besides types: only an object whose rows were damaged at some time is ever
\* quarantined, and of an open store one that is not has an index row and, unless it
\* is raw, a summary of the same version; one that is, or is not there, has neither.
RowsAgree ==
  /\ TypeOK
  /\ db.corrupt \subseteq hurt
  /\ pc = "up" => \A id \in Ids :
       LET shown == Present(db.body[id]) /\ id \notin db.corrupt
           same(x) == x.v = db.body[id].v /\ x.queued = db.body[id].queued
       IN IF shown
          THEN same(db.index[id]) /\ (id \notin RawIds => same(db.summary[id]))
          ELSE db.index[id] = NoRow /\ db.summary[id] = NoRow

\* A database that held objects reaches the last schema only with a whole backup of
\* exactly the rows it had.
BackedUp ==
  db.schema = "v3" /\ (\E id \in Ids : Present(origin.body[id])) =>
    \E b \in extra \cup {primary["v1"], primary["v2"]} :
      Whole(b) /\ b.body = origin.body

\* No backup that is whole is overwritten, and no migration changes an object.
Preserved ==
  [][/\ \A s \in {"v1", "v2"} : Whole(primary[s]) => primary'[s] = primary[s]
     /\ pc # "up" => db'.body = db.body]_vars

\* Opening is resumed after every failure until the store is open.
Opens == <>[](pc = "up")
=============================================================================
