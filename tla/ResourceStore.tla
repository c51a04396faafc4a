---------------------------- MODULE ResourceStore ----------------------------
(***************************************************************************)
(* The statements of the resource store of the webhook, an SQLite table in *)
(* memory (src/app/storage/repo/resource_store_impl.go, storage/core).     *)
(* Its pool has one connection: a statement, or a transaction, is one      *)
(* step.  An operator takes the table and returns the table or rows of it. *)
(*                                                                         *)
(* A row is a ResourceTags with its id, whether sent_at is set, and        *)
(* whether its newest time stamp (record_updated; sent_at and              *)
(* record_created are not newer) is within the retention time.             *)
(***************************************************************************)
EXTENDS Admission

Tags(row) ==
  [type |-> row.type, name |-> row.name, namespace |-> row.namespace,
   labels |-> row.labels, annotations |-> row.annotations]

Row(id, tags, sent) ==
  [id |-> id, type |-> tags.type, name |-> tags.name, namespace |-> tags.namespace,
   labels |-> tags.labels, annotations |-> tags.annotations, sent |-> sent, fresh |-> TRUE]

SameKey(a, b) == a.type = b.type /\ a.name = b.name /\ a.namespace = b.namespace

(* The primary key (type, name, namespace): NULL conflicts with nothing. *)
Conflicts(rows, tags) ==
  {r \in rows : SameKey(r, tags) /\ tags.namespace # NoNamespace}

(* Mutant of Create: without ON CONFLICT DO NOTHING on the key. *)
MutCreate(rows, id, tags) == rows \cup {Row(id, tags, FALSE)}

Create(rows, id, tags) ==
  IF Conflicts(rows, tags) = {} THEN rows \cup {Row(id, tags, FALSE)} ELSE rows

(* No row has the id: nothing changes, and that is no error. *)
Update(rows, id, tags, sent) ==
  {IF r.id = id THEN Row(id, [Tags(r) EXCEPT !.labels = tags.labels,
                                             !.annotations = tags.annotations], sent)
   ELSE r : r \in rows}

Delete(rows, ids) == {r \in rows : r.id \notin ids}

(* The condition of genericWriteDataToStorage. *)
FindBy(rows, tags) ==
  {r \in rows : r.type = tags.type /\ r.name = tags.name
                /\ (tags.namespace = NoNamespace \/ r.namespace = tags.namespace)}

(* sent_at IS NULL *)
Unsent(rows) == {r \in rows : ~r.sent}

(* sent_at, record_created and record_updated before the retention time *)
Expired(rows) == {r \in rows : r.sent /\ ~r.fresh}
=============================================================================
