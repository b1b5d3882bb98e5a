------------------------------ MODULE Directory ------------------------------
(***************************************************************************)
(* What the mapping of local entities to public ids promises Keystone: an   *)
(* entity has one public id, found or bound in a single step between the    *)
(* call and its answer, however many workers ask at the same time, and      *)
(* keeps it until somebody removes the mapping.                             *)
(***************************************************************************)
CONSTANTS Entities, Ids, Requests, None

VARIABLES
  ids,  \* the public id of every entity, or None
  call  \* for every request, its entity, how far it is, and the id answered

dvars == <<ids, call>>

NoCall == [entity |-> None, status |-> "idle", id |-> None]

Asked(r, e) == call[r] = [entity |-> e, status |-> "asked", id |-> None]

Answers(r, e, status, id) ==
  call' = [call EXCEPT ![r] = [entity |-> e, status |-> status, id |-> id]]

DirectoryInit ==
  /\ ids = [e \in Entities |-> None]
  /\ call = [r \in Requests |-> NoCall]

Ask(r, e) == Answers(r, e, "asked", None) /\ UNCHANGED ids

Found(r, e) ==
  Asked(r, e) /\ ids[e] # None /\ Answers(r, e, "found", ids[e]) /\ UNCHANGED ids

Bound(r, e, id) ==
  /\ Asked(r, e) /\ ids[e] = None
  /\ \A other \in Entities : ids[other] # id
  /\ ids' = [ids EXCEPT ![e] = id]
  /\ Answers(r, e, "found", id)

(* An entity whose mapping was removed while a call ran. *)
Missing(r, e) ==
  Asked(r, e) /\ ids[e] = None /\ Answers(r, e, "missing", None) /\ UNCHANGED ids

Failed(r, e) == Asked(r, e) /\ Answers(r, e, "failed", None) /\ UNCHANGED ids

(* The worker turns to a call that is not about these entities. *)
Leave(r) == call' = [call EXCEPT ![r] = NoCall] /\ UNCHANGED ids

Forget(gone) ==
  /\ ids' = [e \in Entities |-> IF e \in gone THEN None ELSE ids[e]]
  /\ UNCHANGED call

DirectoryNext ==
  \/ \E r \in Requests :
       \/ Leave(r)
       \/ \E e \in Entities :
            \/ Ask(r, e) \/ Found(r, e) \/ Missing(r, e) \/ Failed(r, e)
            \/ \E id \in Ids : Bound(r, e, id)
  \/ \E gone \in SUBSET Entities : Forget(gone)

DirectorySpec == DirectoryInit /\ [][DirectoryNext]_dvars
=============================================================================
