------------------------------ MODULE IdMapping ------------------------------
(***************************************************************************)
(* The identity mapping driver the LDAP image installs (class Mapping of    *)
(* docker/sql_ldap.py): table id_mapping, which gives every user and group  *)
(* of a directory a public id, and its lookup of groups, which asks         *)
(* Keystone's own table of groups first.  Keystone asks for a public id     *)
(* with get_public_id and, when there is none, create_id_mapping; its       *)
(* workers do so at the same time.                                          *)
(***************************************************************************)
CONSTANTS
  Domains, Names,  \* values of domain_id and local_id
  Generators,      \* ways an id is generated: workers need not have the same
  GroupIds,        \* ids of the groups in Keystone's own table
  Requests, None

EntityTypes == {"user", "group"}

Entity == [domain_id : Domains, local_id : Names, entity_type : EntityTypes]

UserEntities == {e \in Entity : e.entity_type = "user"}
GroupEntities == {e \in Entity : e.entity_type = "group"}

(* A hash of the entity, or a UUID the directory gave it: no two entities   *)
(* have the same, and each generator has its own.                           *)
PublicIds == [of : Entity, by : Generators]

ASSUME IdAssumption ==
  /\ None \notin PublicIds \cup GroupIds \cup Entity

VARIABLES
  mappings,  \* the rows of table id_mapping
  groups,    \* the id of every group of Keystone's own table, or None
  req        \* for every request, the state of its call

vars == <<mappings, groups, req>>

Mapping == [public_id : PublicIds, entity : Entity]
Ids == PublicIds \cup GroupIds

PCs == {"idle", "group", "mapping", "create", "done", "error"}

Local == [pc : PCs,
          entity : Entity \cup {None},
          again : BOOLEAN,            \* second get_public_id of the call
          answer : Ids \cup {None},
          disturbed : BOOLEAN]        \* history: see Disturb

Init ==
  /\ mappings = {}
  /\ groups = [e \in GroupEntities |-> None]
  /\ req = [r \in Requests |-> [pc |-> "idle", entity |-> None, again |-> FALSE,
                                answer |-> None, disturbed |-> FALSE]]

-----------------------------------------------------------------------------
Goto(r, l, pc) == req' = [req EXCEPT ![r] = [l EXCEPT !.pc = pc]]

(* Variant for AnswersAreMapped: the filter on entity_type is missing.      *)
SameName(e) ==
  {m \in mappings : m.entity.domain_id = e.domain_id /\ m.entity.local_id = e.local_id}

MappingsOf(e) == {m \in mappings : m.entity = e}

(* Where get_public_id starts. *)
FirstQuery(e) == IF e.entity_type = "group" THEN "group" ELSE "mapping"

(* Keystone needs the public id of e. *)
Resolve(r, e) ==
  /\ req[r].pc \in {"idle", "done", "error"}
  /\ Goto(r, [entity |-> e, again |-> FALSE, answer |-> None,
              disturbed |-> FALSE, pc |-> "idle"], FirstQuery(e))
  /\ UNCHANGED <<mappings, groups>>

(* get_public_id returns id: Keystone goes on to create a mapping when      *)
(* there is none, create_id_mapping hands it on as it is.                   *)
Return(r, l, id) ==
  IF id # None \/ l.again
  THEN Goto(r, [l EXCEPT !.answer = id], "done")
  ELSE Goto(r, l, "create")

(* A group of Keystone's own table goes before the mapping. *)
QueryGroup(r) ==
  /\ req[r].pc = "group"
  /\ LET id == groups[req[r].entity] IN
       IF id # None THEN Return(r, req[r], id) ELSE Goto(r, req[r], "mapping")
  /\ UNCHANGED <<mappings, groups>>

(* Variant for TypeOK: the row instead of its public id.                    *)
QueryMappingRow(r) ==
  /\ req[r].pc = "mapping"
  /\ \/ /\ MappingsOf(req[r].entity) = {}
        /\ Return(r, req[r], None)
     \/ \E m \in MappingsOf(req[r].entity) : Return(r, req[r], m)
  /\ UNCHANGED <<mappings, groups>>

QueryMapping(r) ==
  /\ req[r].pc = "mapping"
  /\ \/ /\ MappingsOf(req[r].entity) = {}
        /\ Return(r, req[r], None)
     \/ \E m \in MappingsOf(req[r].entity) : Return(r, req[r], m.public_id)
  /\ UNCHANGED <<mappings, groups>>

(* The database fails: a lookup of a group takes any exception for "no such *)
(* group".                                                                  *)
QueryFails(r) ==
  /\ req[r].pc \in {"group", "mapping"}
  /\ IF req[r].entity.entity_type = "group"
     THEN Return(r, [req[r] EXCEPT !.disturbed = TRUE], None)
     ELSE Goto(r, req[r], "error")
  /\ UNCHANGED <<mappings, groups>>

(* Variants for OneId: without the unique constraint; and for Resolved and  *)
(* ImplementsDirectory: no second lookup.                                   *)
SameId(m, new) == m.public_id = new.public_id
GiveUp(r, id) == Goto(r, req[r], "done")
KeepOwn(r, id) == Goto(r, [req[r] EXCEPT !.answer = id], "done")

(* Primary key and unique constraint of the table. *)
Clash(m, new) == m.public_id = new.public_id \/ m.entity = new.entity

(* DBDuplicateEntry: somebody else created the mapping, "we can use it".    *)
UseOther(r, id) ==
  Goto(r, [req[r] EXCEPT !.again = TRUE], FirstQuery(req[r].entity))

CreateIdMapping(r) ==
  /\ req[r].pc = "create"
  /\ \E by \in Generators :
       LET id == [of |-> req[r].entity, by |-> by]
           new == [public_id |-> id, entity |-> req[r].entity] IN
         IF \E m \in mappings : Clash(m, new)
         THEN UseOther(r, id) /\ UNCHANGED mappings
         ELSE /\ mappings' = mappings \cup {new}
              /\ Goto(r, [req[r] EXCEPT !.answer = id], "done")
  /\ UNCHANGED groups

CreateFails(r) ==
  /\ req[r].pc = "create"
  /\ Goto(r, req[r], "error")
  /\ UNCHANGED <<mappings, groups>>

-----------------------------------------------------------------------------
(* What was looked up for the entities in "changed" may no longer be so.    *)
Disturb(changed) ==
  req' = [r \in Requests |->
            IF req[r].entity \in changed THEN [req[r] EXCEPT !.disturbed = TRUE]
            ELSE req[r]]

Remove(gone) ==
  /\ mappings' = mappings \ gone
  /\ Disturb({m.entity : m \in gone})
  /\ UNCHANGED groups

DeleteIdMapping(id) == Remove({m \in mappings : m.public_id = id})

Columns == {"domain_id", "public_id", "local_id", "entity_type"}

Column(m, c) == IF c = "public_id" THEN m.public_id ELSE m.entity[c]

(* A filter on some columns; one that matches no row changes nothing.       *)
PurgeMappings(filter, like) ==
  Remove({m \in mappings : \A c \in filter : Column(m, c) = Column(like, c)})

(* Keystone creates or deletes a group in its own table. *)
ChangeGroup(e, id) ==
  /\ groups' = [groups EXCEPT ![e] = id]
  /\ Disturb({e})
  /\ UNCHANGED mappings

Next ==
  \/ \E r \in Requests :
       \/ \E e \in Entity : Resolve(r, e)
       \/ QueryGroup(r) \/ QueryMapping(r) \/ QueryFails(r)
       \/ CreateIdMapping(r) \/ CreateFails(r)
  \/ \E id \in PublicIds : DeleteIdMapping(id)
  \/ \E filter \in SUBSET Columns : \E like \in mappings : PurgeMappings(filter, like)
  \/ \E e \in GroupEntities, id \in GroupIds \cup {None} : ChangeGroup(e, id)

Spec == Init /\ [][Next]_vars

-----------------------------------------------------------------------------
TypeOK ==
  /\ mappings \subseteq Mapping
  /\ groups \in [GroupEntities -> GroupIds \cup {None}]
  /\ req \in [Requests -> Local]

(* A call that nothing disturbed: no mapping of its entity was removed, its *)
(* group was not created or deleted, no failed query was taken for an       *)
(* answer.                                                                  *)
Settled(r, e) == req[r].entity = e /\ req[r].pc = "done" /\ ~req[r].disturbed

(* However many workers resolve an entity at the same time, and whatever    *)
(* ids they generate for it, all get the same one (create_id_mapping,       *)
(* 120-130).                                                                *)
OneId ==
  \A r, s \in Requests, e \in Entity :
    Settled(r, e) /\ Settled(s, e) => req[r].answer = req[s].answer

(* Such a call does not come back without an id (create_id_mapping,         *)
(* 127-130).                                                                *)
Resolved == \A r \in Requests, e \in Entity : Settled(r, e) => req[r].answer # None

(* get_id_mapping: the entity of a public id. *)
GetIdMapping(id) == {m.entity : m \in {n \in mappings : n.public_id = id}}

(* The id it got leads back to the entity, and to no other: with            *)
(* get_id_mapping, or in Keystone's own table of groups.                    *)
AnswersAreMapped ==
  \A r \in Requests, e \in Entity :
    Settled(r, e) =>
      \/ GetIdMapping(req[r].answer) = {e}
      \/ e \in GroupEntities /\ groups[e] = req[r].answer

-----------------------------------------------------------------------------
(* The table read as a Directory of the users. *)

DirIds ==
  [e \in UserEntities |->
     IF MappingsOf(e) = {} THEN None
     ELSE (CHOOSE m \in mappings : m.entity = e).public_id]

Status(l) ==
  IF l.pc = "error" THEN "failed"
  ELSE IF l.pc # "done" THEN "asked"
  ELSE IF l.answer # None THEN "found" ELSE "missing"

DirCall ==
  [r \in Requests |->
     [entity |-> IF req[r].entity \in UserEntities THEN req[r].entity ELSE None,
      status |-> IF req[r].entity \in UserEntities THEN Status(req[r]) ELSE "idle",
      id |-> IF req[r].entity \in UserEntities THEN req[r].answer ELSE None]]

D == INSTANCE Directory WITH
       Entities <- UserEntities, Ids <- PublicIds, ids <- DirIds, call <- DirCall

(* For users, looking an id up and creating it when there is none is one    *)
(* step, wherever other workers come in between (get_public_id, 89-106,     *)
(* create_id_mapping, 118-130).                                             *)
ImplementsDirectory == D!DirectorySpec
=============================================================================
