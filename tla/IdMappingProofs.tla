--------------------------- MODULE IdMappingProofs ---------------------------
(***************************************************************************)
(* Theorems about the identity mapping: whatever the workers do at the same *)
(* time, an entity has one id, and looking it up or creating it is one step *)
(* of a Directory.                                                          *)
(***************************************************************************)
EXTENDS IdMapping, TLAPS

-----------------------------------------------------------------------------
(* The inductive invariant.  A mapping is the only one of its entity and of *)
(* its id.  A call that nothing disturbed still has what it found: no group *)
(* of Keystone's own before it went on to the mappings, a mapping once it   *)
(* looks for one a second time, and in the end the id of its entity.        *)

OneMapping ==
  /\ \A m \in mappings : m.public_id.of = m.entity
  /\ \A m, n \in mappings : Clash(m, n) => m = n

NoGroup(e) == e \in GroupEntities => groups[e] = None

IsIdOf(id, e) ==
  IF NoGroup(e) THEN \E m \in mappings : m.entity = e /\ m.public_id = id
  ELSE id = groups[e]

Holds(l) ==
  /\ l.pc = "done" => IsIdOf(l.answer, l.entity)
  /\ l.pc \in {"mapping", "create"} => NoGroup(l.entity)
  /\ l.pc = "mapping" /\ l.again => \E m \in mappings : m.entity = l.entity
  /\ l.pc = "group" /\ l.again => \E m \in mappings : m.entity = l.entity

Sane(l) ==
  /\ l.pc # "idle" => l.entity \in Entity
  /\ l.pc = "idle" => l.entity = None
  /\ l.pc # "done" => l.answer = None
  /\ l.pc = "group" => l.entity \in GroupEntities

IInv ==
  /\ TypeOK
  /\ OneMapping
  /\ \A r \in Requests : Sane(req[r])
  /\ \A r \in Requests : ~req[r].disturbed => Holds(req[r])

-----------------------------------------------------------------------------
LEMMA InitIInv == Init => IInv
<1> SUFFICES ASSUME Init PROVE IInv
  OBVIOUS
<1>1. ASSUME NEW r \in Requests
      PROVE  req[r] \in Local /\ Sane(req[r]) /\ Holds(req[r])
  BY DEF Init, Local, PCs, Sane, Holds
<1>2. TypeOK
  BY <1>1 DEF Init, TypeOK
<1> QED
  BY <1>1, <1>2 DEF Init, IInv, OneMapping

(* What a step of one request must show to keep the invariant.              *)
LEMMA OneRequestStep ==
  ASSUME IInv, NEW r \in Requests, NEW l \in Local,
         req' = [req EXCEPT ![r] = l], mappings \subseteq mappings',
         mappings' \subseteq Mapping, OneMapping', groups' = groups,
         Sane(l), ~l.disturbed => Holds(l)'
  PROVE  IInv'
<1>1. \A e : NoGroup(e)' = NoGroup(e)
  BY DEF NoGroup
<1>2. \A id, e : IsIdOf(id, e) => IsIdOf(id, e)'
  BY <1>1 DEF IsIdOf
<1>4. /\ req'[r] = l
      /\ \A q \in Requests \ {r} : req'[q] = req[q]
  BY DEF IInv, TypeOK
<1>5. TypeOK'
  BY DEF IInv, TypeOK
<1>6. ASSUME NEW q \in Requests
      PROVE  Sane(req[q])' /\ (~req'[q].disturbed => Holds(req[q])')
  <2>1. CASE q = r
    <3>1. Holds(l)' => Holds(req[r])'
      BY <1>4 DEF Holds, IsIdOf, NoGroup
    <3> QED
      BY <1>4, <2>1, <3>1
  <2>2. CASE q # r
    <3>1. Holds(req[q]) => Holds(req[q])'
      BY <1>1, <1>2, <1>4, <2>2 DEF Holds
    <3> QED
      BY <1>4, <2>2, <3>1 DEF IInv
  <2> QED
    BY <2>1, <2>2
<1> QED
  BY <1>5, <1>6 DEF IInv

LEMMA UnchangedTables ==
  ASSUME IInv, NEW r \in Requests, NEW l \in Local,
         req' = [req EXCEPT ![r] = l], UNCHANGED <<mappings, groups>>,
         Sane(l), ~l.disturbed => Holds(l)
  PROVE  IInv'
<1>1. OneMapping' /\ mappings' \subseteq Mapping
  BY DEF IInv, TypeOK, OneMapping, Clash
<1>2. ~l.disturbed => Holds(l)'
  BY DEF Holds, IsIdOf, NoGroup
<1> QED
  BY <1>1, <1>2, OneRequestStep

LEMMA ReturnKeeps ==
  ASSUME IInv, NEW r \in Requests, NEW l \in Local, l.entity \in Entity,
         l.answer = None, NEW id \in Ids \cup {None}, Return(r, l, id),
         UNCHANGED <<mappings, groups>>,
         ~l.disturbed => IF id = None THEN NoGroup(l.entity) /\ ~l.again
                         ELSE IsIdOf(id, l.entity)
  PROVE  IInv'
<1>1. CASE id # None \/ l.again
  <2> DEFINE k == [[l EXCEPT !.answer = id] EXCEPT !.pc = "done"]
  <2>1. /\ k \in Local /\ k.pc = "done" /\ k.answer = id /\ k.again = l.again
        /\ k.entity = l.entity /\ k.disturbed = l.disturbed
    BY DEF Local, PCs
  <2>2. req' = [req EXCEPT ![r] = k]
    BY <1>1 DEF Return, Goto
  <2> HIDE DEF k
  <2>3. Sane(k) /\ (~k.disturbed => Holds(k))
    BY <1>1, <2>1 DEF Sane, Holds
  <2> QED
    BY <2>1, <2>2, <2>3, UnchangedTables
<1>2. CASE id = None /\ ~l.again
  <2> DEFINE k == [l EXCEPT !.pc = "create"]
  <2>1. /\ k \in Local /\ k.pc = "create" /\ k.answer = None /\ k.again = l.again
        /\ k.entity = l.entity /\ k.disturbed = l.disturbed
    BY DEF Local, PCs
  <2>2. req' = [req EXCEPT ![r] = k]
    BY <1>2 DEF Return, Goto
  <2> HIDE DEF k
  <2>3. Sane(k) /\ (~k.disturbed => Holds(k))
    BY <1>2, <2>1 DEF Sane, Holds
  <2> QED
    BY <2>1, <2>2, <2>3, UnchangedTables
<1> QED
  BY <1>1, <1>2

LEMMA ResolveKeeps ==
  ASSUME IInv, NEW r \in Requests, NEW e \in Entity, Resolve(r, e)
  PROVE  IInv'
<1> DEFINE k == [[entity |-> e, again |-> FALSE, answer |-> None,
                  disturbed |-> FALSE, pc |-> "idle"]
                   EXCEPT !.pc = FirstQuery(e)]
<1>1. req' = [req EXCEPT ![r] = k] /\ UNCHANGED <<mappings, groups>>
  BY DEF Resolve, Goto
<1>2. /\ k \in Local /\ k.entity = e /\ k.pc = FirstQuery(e) /\ ~k.again
      /\ k.answer = None
  BY DEF FirstQuery, Local, PCs
<1> HIDE DEF k
<1>3. /\ FirstQuery(e) = "group" => e \in GroupEntities
      /\ FirstQuery(e) = "mapping" => e \notin GroupEntities
      /\ FirstQuery(e) \in {"group", "mapping"}
  BY DEF FirstQuery, GroupEntities
<1>4. Sane(k) /\ Holds(k)
  BY <1>2, <1>3 DEF Sane, Holds, NoGroup
<1> QED
  BY <1>1, <1>2, <1>4, UnchangedTables

LEMMA QueryGroupKeeps ==
  ASSUME IInv, NEW r \in Requests, QueryGroup(r)
  PROVE  IInv'
<1> DEFINE l == req[r]
           id == groups[l.entity]
<1>1. /\ l \in Local /\ l.pc = "group" /\ Sane(l) /\ (~l.disturbed => Holds(l))
  BY DEF QueryGroup, IInv, TypeOK
<1>2. l.entity \in GroupEntities /\ l.entity \in Entity /\ l.answer = None
  BY <1>1 DEF Sane
<1>3. id \in GroupIds \cup {None}
  BY <1>2 DEF IInv, TypeOK
<1>4. CASE id # None
  <2>1. Return(r, l, id) /\ UNCHANGED <<mappings, groups>>
    BY <1>4 DEF QueryGroup
  <2>2. IsIdOf(id, l.entity) /\ id \in Ids \cup {None}
    BY <1>2, <1>3, <1>4 DEF IsIdOf, NoGroup, Ids
  <2> HIDE DEF l, id
  <2> QED
    BY <1>1, <1>2, <1>4, <2>1, <2>2, ReturnKeeps
<1>5. CASE id = None
  <2> DEFINE k == [l EXCEPT !.pc = "mapping"]
  <2>1. req' = [req EXCEPT ![r] = k] /\ UNCHANGED <<mappings, groups>>
    BY <1>5 DEF QueryGroup, Goto
  <2>2. /\ k \in Local /\ k.pc = "mapping" /\ k.entity = l.entity
        /\ k.again = l.again /\ k.answer = l.answer /\ k.disturbed = l.disturbed
    BY <1>1 DEF Local, PCs
  <2>3. NoGroup(l.entity)
    BY <1>5 DEF NoGroup
  <2> HIDE DEF k, l, id
  <2>4. Sane(k) /\ (~k.disturbed => Holds(k))
    BY <1>1, <1>2, <2>2, <2>3 DEF Sane, Holds
  <2> QED
    BY <2>1, <2>2, <2>4, UnchangedTables
<1> QED
  BY <1>4, <1>5

LEMMA QueryMappingKeeps ==
  ASSUME IInv, NEW r \in Requests, QueryMapping(r)
  PROVE  IInv'
<1> DEFINE l == req[r]
<1>1. /\ l \in Local /\ l.pc = "mapping" /\ Sane(l)
      /\ ~l.disturbed => Holds(l)
      /\ UNCHANGED <<mappings, groups>>
  BY DEF QueryMapping, IInv, TypeOK
<1>2. l.entity \in Entity /\ l.answer = None
  BY <1>1 DEF Sane
<1>3. CASE MappingsOf(l.entity) = {} /\ Return(r, l, None)
  <2>1. ~l.disturbed => NoGroup(l.entity) /\ ~l.again
    BY <1>1, <1>3 DEF Holds, MappingsOf
  <2> HIDE DEF l
  <2> QED
    BY <1>1, <1>2, <1>3, <2>1, ReturnKeeps
<1>4. ASSUME NEW m \in MappingsOf(l.entity), Return(r, l, m.public_id)
      PROVE  IInv'
  <2>1. /\ m \in mappings /\ m.entity = l.entity
        /\ m.public_id \in PublicIds
    BY <1>4 DEF MappingsOf, IInv, TypeOK, Mapping
  <2>2. m.public_id \in Ids /\ m.public_id # None
    BY <2>1, IdAssumption DEF Ids
  <2>3. ~l.disturbed => IsIdOf(m.public_id, l.entity)
    BY <1>1, <2>1 DEF Holds, IsIdOf
  <2> HIDE DEF l
  <2> QED
    BY <1>1, <1>2, <1>4, <2>2, <2>3, ReturnKeeps
<1> QED
  BY <1>3, <1>4 DEF QueryMapping

LEMMA FailureKeeps ==
  ASSUME IInv, NEW r \in Requests, QueryFails(r) \/ CreateFails(r)
  PROVE  IInv'
<1> DEFINE l == req[r]
           k == [l EXCEPT !.disturbed = TRUE]
           f == [l EXCEPT !.pc = "error"]
<1>1. /\ l \in Local /\ l.pc \in {"group", "mapping", "create"} /\ Sane(l)
      /\ UNCHANGED <<mappings, groups>>
  BY DEF QueryFails, CreateFails, IInv, TypeOK
<1>2. l.entity \in Entity /\ l.answer = None
  BY <1>1 DEF Sane
<1>3. Return(r, k, None) \/ req' = [req EXCEPT ![r] = f]
  BY DEF QueryFails, CreateFails, Goto
<1>4. /\ k \in Local /\ k.entity = l.entity /\ k.answer = None /\ k.disturbed
      /\ f \in Local /\ f.entity = l.entity /\ f.answer = None /\ f.pc = "error"
  BY <1>1, <1>2 DEF Local, PCs
<1> HIDE DEF l, k, f
<1>5. Sane(f) /\ Holds(f)
  BY <1>2, <1>4 DEF Sane, Holds
<1>6. ASSUME Return(r, k, None) PROVE IInv'
  BY <1>1, <1>2, <1>4, <1>6, ReturnKeeps
<1>7. ASSUME req' = [req EXCEPT ![r] = f] PROVE IInv'
  BY <1>1, <1>4, <1>5, <1>7, UnchangedTables
<1> QED
  BY <1>3, <1>6, <1>7

(* A mapping that cannot be stored means that the entity has one.           *)
LEMMA ClashIsOwn ==
  ASSUME IInv, NEW e \in Entity, NEW by, NEW m \in mappings,
         Clash(m, [public_id |-> [of |-> e, by |-> by], entity |-> e])
  PROVE  m.entity = e
BY DEF IInv, OneMapping, Clash

LEMMA CreateKeeps ==
  ASSUME IInv, NEW r \in Requests, CreateIdMapping(r)
  PROVE  IInv'
<1> DEFINE l == req[r]
<1>1. /\ l \in Local /\ l.pc = "create" /\ Sane(l) /\ (~l.disturbed => Holds(l))
      /\ groups' = groups
  BY DEF CreateIdMapping, IInv, TypeOK
<1>2. /\ l.entity \in Entity /\ l.answer = None
      /\ ~l.disturbed => NoGroup(l.entity)
  BY <1>1 DEF Sane, Holds
<1>3. PICK by \in Generators :
        LET id == [of |-> l.entity, by |-> by]
            new == [public_id |-> id, entity |-> l.entity] IN
          IF \E m \in mappings : Clash(m, new)
          THEN UseOther(r, id) /\ UNCHANGED mappings
          ELSE /\ mappings' = mappings \cup {new}
               /\ Goto(r, [l EXCEPT !.answer = id], "done")
  BY DEF CreateIdMapping
<1> DEFINE id == [of |-> l.entity, by |-> by]
           new == [public_id |-> id, entity |-> l.entity]
<1>4. CASE \E m \in mappings : Clash(m, new)
  <2> DEFINE k == [[l EXCEPT !.again = TRUE] EXCEPT !.pc = FirstQuery(l.entity)]
  <2>1. req' = [req EXCEPT ![r] = k] /\ UNCHANGED <<mappings, groups>>
    BY <1>1, <1>3, <1>4 DEF UseOther, Goto
  <2>2. \E m \in mappings : m.entity = l.entity
    BY <1>2, <1>4, ClashIsOwn
  <2>3. /\ k \in Local /\ k.pc = FirstQuery(l.entity) /\ k.entity = l.entity
        /\ k.answer = None /\ k.disturbed = l.disturbed
    BY <1>1, <1>2 DEF Local, PCs, FirstQuery
  <2>4. /\ FirstQuery(l.entity) \in {"group", "mapping"}
        /\ FirstQuery(l.entity) = "group" => l.entity \in GroupEntities
    BY <1>2 DEF FirstQuery, GroupEntities
  <2> HIDE DEF k, l
  <2>5. Sane(k) /\ (~k.disturbed => Holds(k))
    BY <1>2, <2>2, <2>3, <2>4 DEF Sane, Holds
  <2> QED
    BY <2>1, <2>3, <2>5, UnchangedTables
<1>5. CASE ~\E m \in mappings : Clash(m, new)
  <2> DEFINE k == [[l EXCEPT !.answer = id] EXCEPT !.pc = "done"]
  <2>1. /\ mappings' = mappings \cup {new}
        /\ req' = [req EXCEPT ![r] = k]
    BY <1>3, <1>5 DEF Goto
  <2>2. id \in PublicIds /\ id \in Ids
    BY <1>2 DEF PublicIds, Ids
  <2>3. new \in Mapping /\ new.public_id = id /\ new.entity = l.entity
        /\ id.of = l.entity
    BY <1>2, <2>2 DEF Mapping
  <2>4. /\ k \in Local /\ k.pc = "done" /\ k.entity = l.entity
        /\ k.answer = id /\ k.disturbed = l.disturbed
    BY <1>1, <2>2 DEF Local, PCs
  <2> HIDE DEF k, l, id, new
  <2>5. OneMapping'
    <3>1. \A m, n : Clash(m, n) => Clash(n, m)
      BY DEF Clash
    <3>2. /\ \A m \in mappings : m.public_id.of = m.entity
          /\ \A m, n \in mappings : Clash(m, n) => m = n
      BY DEF IInv, OneMapping
    <3>3. \A m \in mappings' : m.public_id.of = m.entity
      BY <2>1, <2>3, <3>2
    <3>4. ASSUME NEW m \in mappings', NEW n \in mappings', Clash(m, n)
          PROVE  m = n
      BY <1>5, <2>1, <3>1, <3>2, <3>4
    <3>5. \A m, n : Clash(m, n)' = Clash(m, n)
      BY DEF Clash
    <3> QED
      BY <3>3, <3>4, <3>5 DEF OneMapping
  <2>6. PICK c \in Local : c = k
    BY <2>4
  <2>7. new \in mappings' /\ groups' = groups
    BY <1>1, <2>1
  <2>8. Sane(c) /\ (~c.disturbed => Holds(c)')
    BY <1>1, <1>2, <2>3, <2>4, <2>6, <2>7 DEF Sane, Holds, IsIdOf, NoGroup
  <2>9. mappings \subseteq mappings' /\ mappings' \subseteq Mapping
    BY <2>1, <2>3 DEF IInv, TypeOK
  <2> QED
    BY <1>1, <2>1, <2>5, <2>8, <2>9, <2>6, OneRequestStep
<1> QED
  BY <1>4, <1>5

(* A table changes under the calls: those it may concern are disturbed.     *)
LEMMA DisturbMarks ==
  ASSUME IInv, NEW changed, Disturb(changed)
  PROVE  /\ req' \in [Requests -> Local]
         /\ \A q \in Requests :
              /\ req'[q].pc = req[q].pc /\ req'[q].entity = req[q].entity
              /\ req'[q].again = req[q].again /\ req'[q].answer = req[q].answer
              /\ ~req'[q].disturbed =>
                   ~req[q].disturbed /\ req[q].entity \notin changed
<1>1. ASSUME NEW q \in Requests
      PROVE  /\ req'[q] \in Local
             /\ req'[q].pc = req[q].pc /\ req'[q].entity = req[q].entity
             /\ req'[q].again = req[q].again /\ req'[q].answer = req[q].answer
             /\ ~req'[q].disturbed =>
                  ~req[q].disturbed /\ req[q].entity \notin changed
  <2>1. req[q] \in Local
    BY DEF IInv, TypeOK
  <2>2. req'[q] = IF req[q].entity \in changed
                  THEN [req[q] EXCEPT !.disturbed = TRUE] ELSE req[q]
    BY DEF Disturb
  <2> QED
    BY <2>1, <2>2 DEF Local
<1> QED
  BY <1>1 DEF Disturb

LEMMA DisturbKeeps ==
  ASSUME IInv, NEW changed, Disturb(changed),
         mappings' \subseteq mappings,
         groups' \in [GroupEntities -> GroupIds \cup {None}],
         \A m \in mappings \ mappings' : m.entity \in changed,
         \A e \in GroupEntities \ changed : groups'[e] = groups[e]
  PROVE  IInv'
<1>1. TypeOK' /\ OneMapping'
  BY DisturbMarks DEF IInv, TypeOK, OneMapping, Clash
<1>2. ASSUME NEW q \in Requests PROVE Sane(req[q])'
  BY DisturbMarks DEF IInv, Sane
<1>3. ASSUME NEW q \in Requests, ~req'[q].disturbed PROVE Holds(req[q])'
  <2>1. /\ Holds(req[q]) /\ req[q].entity \notin changed
        /\ req'[q].pc = req[q].pc /\ req'[q].entity = req[q].entity
        /\ req'[q].again = req[q].again /\ req'[q].answer = req[q].answer
    BY <1>3, DisturbMarks DEF IInv
  <2>2. NoGroup(req[q].entity)' = NoGroup(req[q].entity)
    BY <2>1 DEF NoGroup
  <2>3. \A m \in mappings : m.entity = req[q].entity => m \in mappings'
    BY <2>1
  <2>4. ASSUME IsIdOf(req[q].answer, req[q].entity)
        PROVE  IsIdOf(req[q].answer, req[q].entity)'
    BY <2>1, <2>2, <2>3, <2>4 DEF IsIdOf, NoGroup
  <2> QED
    BY <2>1, <2>2, <2>3, <2>4 DEF Holds
<1> QED
  BY <1>1, <1>2, <1>3 DEF IInv

LEMMA RemoveKeeps ==
  ASSUME IInv, NEW gone, Remove(gone)
  PROVE  IInv'
<1>1. /\ Disturb({m.entity : m \in gone})
      /\ mappings' \subseteq mappings /\ groups' = groups
      /\ \A m \in mappings \ mappings' : m.entity \in {n.entity : n \in gone}
  BY DEF Remove
<1> QED
  BY <1>1, DisturbKeeps DEF IInv, TypeOK

LEMMA ChangeGroupKeeps ==
  ASSUME IInv, NEW e \in GroupEntities, NEW id \in GroupIds \cup {None},
         ChangeGroup(e, id)
  PROVE  IInv'
<1>1. /\ Disturb({e}) /\ mappings' = mappings
      /\ groups' \in [GroupEntities -> GroupIds \cup {None}]
      /\ \A f \in GroupEntities \ {e} : groups'[f] = groups[f]
  BY DEF ChangeGroup, IInv, TypeOK
<1> QED
  BY <1>1, DisturbKeeps

LEMMA NextIInv == IInv /\ [Next]_vars => IInv'
<1> SUFFICES ASSUME IInv, [Next]_vars PROVE IInv'
  OBVIOUS
<1>1. CASE UNCHANGED vars
  BY <1>1 DEF vars, IInv, TypeOK, OneMapping, Clash, Sane, Holds, IsIdOf, NoGroup,
              MappingsOf
<1>2. ASSUME NEW r \in Requests, NEW e \in Entity, Resolve(r, e) PROVE IInv'
  BY <1>2, ResolveKeeps
<1>3. ASSUME NEW r \in Requests,
             \/ QueryGroup(r) \/ QueryMapping(r) \/ QueryFails(r)
             \/ CreateIdMapping(r) \/ CreateFails(r)
      PROVE  IInv'
  BY <1>3, QueryGroupKeeps, QueryMappingKeeps, FailureKeeps, CreateKeeps
<1>4. ASSUME NEW id \in PublicIds, DeleteIdMapping(id) PROVE IInv'
  BY <1>4, RemoveKeeps DEF DeleteIdMapping
<1>5. ASSUME NEW filter \in SUBSET Columns, NEW like \in mappings,
             PurgeMappings(filter, like)
      PROVE  IInv'
  BY <1>5, RemoveKeeps DEF PurgeMappings
<1>6. ASSUME NEW e \in GroupEntities, NEW id \in GroupIds \cup {None},
             ChangeGroup(e, id)
      PROVE  IInv'
  BY <1>6, ChangeGroupKeeps
<1> QED
  BY <1>1, <1>2, <1>3, <1>4, <1>5, <1>6 DEF Next

LEMMA IdInvariant == Spec => []IInv
BY InitIInv, NextIInv, PTL DEF Spec

-----------------------------------------------------------------------------
(* The variables of the mapping keep their types. *)
THEOREM IdTypeCorrect == Spec => []TypeOK
<1>1. IInv => TypeOK
  BY DEF IInv
<1> QED
  BY <1>1, IdInvariant, PTL

(* Workers that resolve an entity at the same time get the same id, though  *)
(* they may generate different ones (create_id_mapping, 120-130).           *)
THEOREM EveryoneGetsOneId == Spec => []OneId
<1>1. IInv => OneId
  <2> SUFFICES ASSUME IInv, NEW r \in Requests, NEW s \in Requests,
                      NEW e \in Entity, Settled(r, e), Settled(s, e)
               PROVE  req[r].answer = req[s].answer
    BY DEF OneId
  <2>1. IsIdOf(req[r].answer, e) /\ IsIdOf(req[s].answer, e)
    BY DEF IInv, Holds, Settled
  <2> QED
    BY <2>1 DEF IsIdOf, IInv, OneMapping, Clash
<1> QED
  BY <1>1, IdInvariant, PTL

(* A call that nothing disturbed ends with an id: the second lookup finds   *)
(* the mapping the constraint ran into (create_id_mapping, 127-130).        *)
THEOREM EveryCallResolves == Spec => []Resolved
<1>1. IInv => Resolved
  <2> SUFFICES ASSUME IInv, NEW r \in Requests, NEW e \in Entity, Settled(r, e)
               PROVE  req[r].answer # None
    BY DEF Resolved
  <2>1. IsIdOf(req[r].answer, e)
    BY DEF IInv, Holds, Settled
  <2>2. \A m \in mappings : m.public_id # None
    BY IdAssumption DEF IInv, TypeOK, Mapping
  <2> QED
    BY <2>1, <2>2 DEF IsIdOf, NoGroup
<1> QED
  BY <1>1, IdInvariant, PTL

(* The id of a call leads back to its entity alone (get_public_id,          *)
(* get_id_mapping).                                                         *)
THEOREM IdsLeadBack == Spec => []AnswersAreMapped
<1>1. IInv => AnswersAreMapped
  <2> SUFFICES ASSUME IInv, NEW r \in Requests, NEW e \in Entity, Settled(r, e)
               PROVE  \/ GetIdMapping(req[r].answer) = {e}
                      \/ e \in GroupEntities /\ groups[e] = req[r].answer
    BY DEF AnswersAreMapped
  <2>1. IsIdOf(req[r].answer, e)
    BY DEF IInv, Holds, Settled
  <2>2. ASSUME NEW m \in mappings, m.entity = e, m.public_id = req[r].answer
        PROVE  GetIdMapping(req[r].answer) = {e}
    BY <2>2 DEF GetIdMapping, IInv, OneMapping, Clash
  <2> QED
    BY <2>1, <2>2 DEF IsIdOf, NoGroup
<1> QED
  BY <1>1, IdInvariant, PTL

-----------------------------------------------------------------------------
(* The table implements a Directory.                                        *)

CallOf(l) ==
  [entity |-> IF l.entity \in UserEntities THEN l.entity ELSE None,
   status |-> IF l.entity \in UserEntities THEN Status(l) ELSE "idle",
   id |-> IF l.entity \in UserEntities THEN l.answer ELSE None]

LEMMA CallsAre == DirCall = [r \in Requests |-> CallOf(req[r])]
BY DEF DirCall, CallOf

LEMMA UserTypes ==
  /\ UserEntities \subseteq Entity /\ UserEntities \cap GroupEntities = {}
  /\ Entity = UserEntities \cup GroupEntities
  /\ None \notin UserEntities
BY IdAssumption DEF UserEntities, GroupEntities, Entity, EntityTypes

IdsAreMapped ==
  \A e \in UserEntities :
    /\ (~\E m \in mappings : m.entity = e) => DirIds[e] = None
    /\ \A m \in mappings : m.entity = e => DirIds[e] = m.public_id
    /\ DirIds[e] # None => \E m \in mappings : m.entity = e

LEMMA IdsMapped == IInv => IdsAreMapped
<1> SUFFICES ASSUME IInv, NEW e \in UserEntities
             PROVE  /\ (~\E m \in mappings : m.entity = e) => DirIds[e] = None
                    /\ \A m \in mappings : m.entity = e => DirIds[e] = m.public_id
                    /\ DirIds[e] # None => \E m \in mappings : m.entity = e
  BY DEF IdsAreMapped
<1>1. DirIds[e] = IF MappingsOf(e) = {} THEN None
                  ELSE (CHOOSE m \in mappings : m.entity = e).public_id
  BY DEF DirIds
<1>2. ASSUME NEW m \in mappings, m.entity = e
      PROVE  (CHOOSE n \in mappings : n.entity = e) = m
  <2>1. /\ (CHOOSE n \in mappings : n.entity = e) \in mappings
        /\ (CHOOSE n \in mappings : n.entity = e).entity = e
    BY <1>2
  <2> QED
    BY <1>2, <2>1 DEF IInv, OneMapping, Clash
<1> QED
  BY <1>1, <1>2 DEF MappingsOf

LEMMA IdsMappedNext == IInv' => IdsAreMapped'
BY IdsMapped, PTL

(* Two states with the same mappings of users have the same ids.            *)
LEMMA SameIds ==
  ASSUME IInv, IInv',
         \A e \in UserEntities : \A m : m.entity = e =>
           (m \in mappings' <=> m \in mappings)
  PROVE  DirIds' = DirIds
<1>1. IdsAreMapped /\ IdsAreMapped'
  BY IdsMapped, IdsMappedNext
<1>2. ASSUME NEW e \in UserEntities PROVE DirIds'[e] = DirIds[e]
  BY <1>1 DEF IdsAreMapped
<1>3. /\ DirIds = [e \in UserEntities |-> DirIds[e]]
      /\ DirIds' = [e \in UserEntities |-> DirIds'[e]]
  BY DEF DirIds
<1> QED
  BY <1>2, <1>3

(* A step of one request answers it, or leaves the call as it was.          *)
LEMMA CallStep ==
  ASSUME IInv, NEW r \in Requests, NEW l, req' = [req EXCEPT ![r] = l]
  PROVE  DirCall' = [DirCall EXCEPT ![r] = CallOf(l)]
<1>1. DirCall' = [q \in Requests |-> CallOf(req'[q])]
  BY DEF DirCall, CallOf, Status
<1> QED
  BY <1>1, CallsAre DEF IInv, TypeOK

LEMMA UserIsAsked ==
  ASSUME IInv, NEW r \in Requests, req[r].entity \in UserEntities,
         req[r].pc \in {"mapping", "create"}
  PROVE  /\ D!Asked(r, req[r].entity)
         /\ DirCall[r] = CallOf(req[r]) /\ req[r].answer = None
<1>1. Sane(req[r]) /\ DirCall[r] = CallOf(req[r])
  BY CallsAre DEF IInv
<1>2. req[r].answer = None
  BY <1>1 DEF Sane
<1> QED
  BY <1>1, <1>2 DEF D!Asked, CallOf, Status

Stutter == UNCHANGED <<DirIds, DirCall>>

LEMMA SilentStep ==
  ASSUME IInv, IInv', NEW r \in Requests, NEW l, req' = [req EXCEPT ![r] = l],
         CallOf(l) = CallOf(req[r]), UNCHANGED mappings
  PROVE  Stutter
<1>1. DirIds' = DirIds
  BY SameIds
<1>2. DirCall' = [DirCall EXCEPT ![r] = CallOf(req[r])]
  BY CallStep
<1> QED
  BY <1>1, <1>2, CallsAre DEF Stutter

(* What a request on a user answers is what the Directory answers.          *)
LEMMA AnswerStep ==
  ASSUME IInv, NEW r \in Requests, NEW l,
         NEW status \in {"found", "missing", "failed"}, NEW id,
         req[r].entity \in UserEntities, req' = [req EXCEPT ![r] = l],
         l.entity = req[r].entity, Status(l) = status, l.answer = id
  PROVE  D!Answers(r, req[r].entity, status, id)
<1>1. DirCall' = [DirCall EXCEPT ![r] = CallOf(l)]
  BY CallStep
<1>2. CallOf(l) = [entity |-> req[r].entity, status |-> status, id |-> id]
  BY DEF CallOf
<1> QED
  BY <1>1, <1>2 DEF D!Answers

LEMMA ResolveRefines ==
  ASSUME IInv, IInv', NEW r \in Requests, NEW e \in Entity, Resolve(r, e)
  PROVE  D!DirectoryNext
<1> DEFINE k == [[entity |-> e, again |-> FALSE, answer |-> None,
                  disturbed |-> FALSE, pc |-> "idle"]
                   EXCEPT !.pc = FirstQuery(e)]
<1>1. req' = [req EXCEPT ![r] = k] /\ UNCHANGED mappings
  BY DEF Resolve, Goto
<1>2. k.entity = e /\ k.answer = None /\ k.pc \in {"group", "mapping"}
  BY DEF FirstQuery
<1> HIDE DEF k
<1>3. DirIds' = DirIds
  BY <1>1, SameIds
<1>4. DirCall' = [DirCall EXCEPT ![r] = CallOf(k)]
  BY <1>1, CallStep
<1>5. CASE e \in UserEntities
  <2>1. CallOf(k) = [entity |-> e, status |-> "asked", id |-> None]
    BY <1>2, <1>5 DEF CallOf, Status
  <2>2. D!Ask(r, e)
    BY <1>3, <1>4, <2>1 DEF D!Ask, D!Answers
  <2> QED
    BY <1>5, <2>2 DEF D!DirectoryNext
<1>6. CASE e \notin UserEntities
  <2>1. CallOf(k) = D!NoCall
    BY <1>2, <1>6 DEF CallOf, D!NoCall
  <2>2. D!Leave(r)
    BY <1>3, <1>4, <2>1 DEF D!Leave
  <2> QED
    BY <2>2 DEF D!DirectoryNext
<1> QED
  BY <1>5, <1>6

(* Calls about groups are not the Directory's.                              *)
LEMMA GroupsAreSilent ==
  ASSUME IInv, IInv', NEW r \in Requests, req[r].entity \notin UserEntities,
         \/ QueryGroup(r) \/ QueryMapping(r) \/ QueryFails(r)
         \/ CreateIdMapping(r) \/ CreateFails(r)
  PROVE  Stutter
<1>0. req[r] \in Local /\ req[r].pc \in {"group", "mapping", "create"}
  BY DEF IInv, TypeOK, QueryGroup, QueryMapping, QueryFails, CreateIdMapping,
         CreateFails
<1>1. req[r].entity \in Entity
  BY <1>0 DEF IInv, Sane
<1>2. \E l : req' = [req EXCEPT ![r] = l] /\ l.entity = req[r].entity
  <2> DEFINE Like(l) == /\ DOMAIN l = DOMAIN req[r]
                        /\ l.entity = req[r].entity
  <2>0. {"pc", "entity", "again", "answer", "disturbed"} \subseteq DOMAIN req[r]
    BY <1>0 DEF Local
  <2>1. ASSUME NEW l, Like(l), NEW pc, Goto(r, l, pc)
        PROVE  \E k : req' = [req EXCEPT ![r] = k] /\ k.entity = req[r].entity
    <3>1. [l EXCEPT !.pc = pc].entity = req[r].entity
      BY <2>0, <2>1
    <3> QED
      BY <2>1, <3>1 DEF Goto
  <2>2. ASSUME NEW l, Like(l)
        PROVE  /\ \A a : Like([l EXCEPT !.answer = a])
               /\ \A g : Like([l EXCEPT !.again = g])
               /\ \A d : Like([l EXCEPT !.disturbed = d])
    BY <2>0, <2>2
  <2>3. Like(req[r])
    OBVIOUS
  <2> HIDE DEF Like
  <2>4. ASSUME NEW l, Like(l), NEW id, Return(r, l, id)
        PROVE  \E k : req' = [req EXCEPT ![r] = k] /\ k.entity = req[r].entity
    <3>1. \/ Goto(r, [l EXCEPT !.answer = id], "done")
          \/ Goto(r, l, "create")
      BY <2>4 DEF Return
    <3> QED
      BY <2>1, <2>2, <2>4, <3>1
  <2>5. CASE QueryGroup(r) \/ QueryMapping(r)
    <3>1. (\E id : Return(r, req[r], id)) \/ Goto(r, req[r], "mapping")
      BY <2>5 DEF QueryGroup, QueryMapping
    <3> QED
      BY <2>1, <2>3, <2>4, <3>1
  <2>6. CASE QueryFails(r) \/ CreateFails(r)
    <3>1. \/ Return(r, [req[r] EXCEPT !.disturbed = TRUE], None)
          \/ Goto(r, req[r], "error")
      BY <2>6 DEF QueryFails, CreateFails
    <3> QED
      BY <2>1, <2>2, <2>3, <2>4, <3>1
  <2>7. CASE CreateIdMapping(r)
    <3>1. PICK id : UseOther(r, id) \/ Goto(r, [req[r] EXCEPT !.answer = id], "done")
      BY <2>7 DEF CreateIdMapping
    <3> QED
      BY <2>1, <2>2, <2>3, <3>1 DEF UseOther
  <2> QED
    BY <2>5, <2>6, <2>7
<1>3. DirCall' = DirCall
  <2>1. PICK l : req' = [req EXCEPT ![r] = l] /\ l.entity = req[r].entity
    BY <1>2
  <2>2. CallOf(l) = CallOf(req[r])
    BY <2>1 DEF CallOf
  <2>3. DirCall' = [DirCall EXCEPT ![r] = CallOf(req[r])]
    BY <2>1, <2>2, CallStep
  <2> QED
    BY <2>3, CallsAre
<1>4. \A e \in UserEntities : \A m : m.entity = e =>
        (m \in mappings' <=> m \in mappings)
  <2>1. \/ mappings' = mappings
        \/ \E id : mappings' = mappings \cup
                     {[public_id |-> id, entity |-> req[r].entity]}
    BY DEF QueryGroup, QueryMapping, QueryFails, CreateIdMapping, CreateFails
  <2> QED
    BY <2>1
<1> QED
  BY <1>3, <1>4, SameIds DEF Stutter

LEMMA QueryRefines ==
  ASSUME IInv, IInv', NEW r \in Requests, req[r].entity \in UserEntities,
         QueryMapping(r)
  PROVE  D!DirectoryNext \/ Stutter
<1> DEFINE e == req[r].entity
<1>0. req[r] \in Local /\ req[r].pc = "mapping" /\ UNCHANGED mappings
  BY DEF IInv, TypeOK, QueryMapping
<1>1. /\ D!Asked(r, e) /\ DirCall[r] = CallOf(req[r]) /\ req[r].answer = None
      /\ IdsAreMapped /\ DirIds' = DirIds
  BY <1>0, UserIsAsked, IdsMapped, SameIds
<1>2. ASSUME NEW m \in MappingsOf(e), Return(r, req[r], m.public_id)
      PROVE  D!DirectoryNext
  <2> DEFINE k == [[req[r] EXCEPT !.answer = m.public_id] EXCEPT !.pc = "done"]
  <2>1. /\ m \in mappings /\ m.entity = e /\ m.public_id # None
    BY <1>2, IdAssumption DEF MappingsOf, IInv, TypeOK, Mapping
  <2>2. req' = [req EXCEPT ![r] = k]
    BY <1>2, <2>1 DEF Return, Goto
  <2>3. k.entity = e /\ k.answer = m.public_id /\ k.pc = "done"
    BY <1>0 DEF Local
  <2> HIDE DEF k
  <2>4. D!Answers(r, e, "found", m.public_id)
    BY <2>1, <2>2, <2>3, AnswerStep DEF Status
  <2>5. DirIds[e] = m.public_id
    BY <1>1, <2>1 DEF IdsAreMapped
  <2>6. D!Found(r, e)
    BY <1>1, <2>1, <2>4, <2>5 DEF D!Found
  <2> QED
    BY <2>6 DEF D!DirectoryNext
<1>3. CASE MappingsOf(e) = {} /\ Return(r, req[r], None) /\ req[r].again
  <2> DEFINE k == [[req[r] EXCEPT !.answer = None] EXCEPT !.pc = "done"]
  <2>1. req' = [req EXCEPT ![r] = k]
    BY <1>3 DEF Return, Goto
  <2>2. k.entity = e /\ k.answer = None /\ k.pc = "done"
    BY <1>0 DEF Local
  <2> HIDE DEF k
  <2>3. D!Answers(r, e, "missing", None)
    BY <2>1, <2>2, AnswerStep DEF Status
  <2>4. DirIds[e] = None
    BY <1>1, <1>3 DEF IdsAreMapped, MappingsOf
  <2>5. D!Missing(r, e)
    BY <1>1, <2>3, <2>4 DEF D!Missing
  <2> QED
    BY <2>5 DEF D!DirectoryNext
<1>4. CASE MappingsOf(e) = {} /\ Return(r, req[r], None) /\ ~req[r].again
  <2> DEFINE k == [req[r] EXCEPT !.pc = "create"]
  <2>1. req' = [req EXCEPT ![r] = k]
    BY <1>4 DEF Return, Goto
  <2>2. k.entity = e /\ k.answer = req[r].answer /\ k.pc = "create"
    BY <1>0 DEF Local
  <2> HIDE DEF k
  <2>3. CallOf(k) = CallOf(req[r])
    BY <1>0, <2>2 DEF CallOf, Status
  <2> QED
    BY <1>0, <2>1, <2>3, SilentStep
<1> QED
  BY <1>2, <1>3, <1>4 DEF QueryMapping

LEMMA FailureRefines ==
  ASSUME IInv, IInv', NEW r \in Requests, req[r].entity \in UserEntities,
         QueryFails(r) \/ CreateFails(r)
  PROVE  D!DirectoryNext
<1> DEFINE e == req[r].entity
           k == [req[r] EXCEPT !.pc = "error"]
<1>0. req[r] \in Local /\ UNCHANGED mappings
  BY DEF IInv, TypeOK, QueryFails, CreateFails
<1>1. req[r].pc \in {"mapping", "create"}
  BY UserTypes DEF QueryFails, CreateFails, IInv, Sane
<1>2. req' = [req EXCEPT ![r] = k]
  BY UserTypes DEF QueryFails, CreateFails, Goto, UserEntities
<1>3. D!Asked(r, e) /\ req[r].answer = None /\ DirIds' = DirIds
  BY <1>0, <1>1, UserIsAsked, SameIds
<1>4. k.entity = e /\ k.answer = None /\ k.pc = "error"
  BY <1>0, <1>3 DEF Local
<1> HIDE DEF k
<1>5. D!Answers(r, e, "failed", None)
  BY <1>2, <1>4, AnswerStep DEF Status
<1>6. D!Failed(r, e)
  BY <1>3, <1>5 DEF D!Failed
<1> QED
  BY <1>6 DEF D!DirectoryNext

LEMMA CreateRefines ==
  ASSUME IInv, IInv', NEW r \in Requests, req[r].entity \in UserEntities,
         CreateIdMapping(r)
  PROVE  D!DirectoryNext \/ Stutter
<1> DEFINE e == req[r].entity
<1>0. req[r] \in Local /\ req[r].pc = "create"
  BY DEF IInv, TypeOK, CreateIdMapping
<1>1. /\ D!Asked(r, e) /\ req[r].answer = None /\ IdsAreMapped /\ IdsAreMapped'
  BY <1>0, UserIsAsked, IdsMapped, IdsMappedNext
<1>2. PICK by \in Generators :
        LET id == [of |-> e, by |-> by]
            new == [public_id |-> id, entity |-> e] IN
          IF \E m \in mappings : Clash(m, new)
          THEN UseOther(r, id) /\ UNCHANGED mappings
          ELSE /\ mappings' = mappings \cup {new}
               /\ Goto(r, [req[r] EXCEPT !.answer = id], "done")
  BY DEF CreateIdMapping
<1> DEFINE id == [of |-> e, by |-> by]
           new == [public_id |-> id, entity |-> e]
<1>3. CASE \E m \in mappings : Clash(m, new)
  <2> DEFINE k == [[req[r] EXCEPT !.again = TRUE] EXCEPT !.pc = FirstQuery(e)]
  <2>1. req' = [req EXCEPT ![r] = k] /\ UNCHANGED mappings
    BY <1>2, <1>3 DEF UseOther, Goto
  <2>2. k.entity = e /\ k.answer = req[r].answer /\ k.pc = FirstQuery(e)
    BY <1>0 DEF Local
  <2>3. FirstQuery(e) \in {"group", "mapping"}
    BY DEF FirstQuery
  <2> HIDE DEF k
  <2>4. CallOf(k) = CallOf(req[r])
    BY <1>0, <2>2, <2>3 DEF CallOf, Status
  <2> QED
    BY <2>1, <2>4, SilentStep
<1>4. CASE ~\E m \in mappings : Clash(m, new)
  <2> DEFINE k == [[req[r] EXCEPT !.answer = id] EXCEPT !.pc = "done"]
  <2>1. req' = [req EXCEPT ![r] = k] /\ mappings' = mappings \cup {new}
    BY <1>2, <1>4 DEF Goto
  <2>2. k.entity = e /\ k.answer = id /\ k.pc = "done"
    BY <1>0 DEF Local
  <2>3. id \in PublicIds /\ id # None /\ new.public_id = id /\ new.entity = e
    BY IdAssumption, UserTypes DEF PublicIds
  <2> HIDE DEF k, id, new
  <2>4. \A m \in mappings : m.entity # e /\ m.public_id # id
    BY <1>4, <2>3 DEF Clash
  <2>5. D!Answers(r, e, "found", id)
    BY <2>1, <2>2, <2>3, AnswerStep DEF Status
  <2>6. DirIds[e] = None
    BY <1>1, <2>4 DEF IdsAreMapped
  <2>7. ASSUME NEW other \in UserEntities PROVE DirIds[other] # id
    BY <1>1, <2>3, <2>4 DEF IdsAreMapped
  <2>8. DirIds' = [DirIds EXCEPT ![e] = id]
    <3>1. DirIds'[e] = id
      BY <1>1, <2>1, <2>3 DEF IdsAreMapped
    <3>2. ASSUME NEW other \in UserEntities, other # e
          PROVE  DirIds'[other] = DirIds[other]
      BY <1>1, <2>1, <2>3, <3>2 DEF IdsAreMapped
    <3>3. /\ DirIds = [u \in UserEntities |-> DirIds[u]]
          /\ DirIds' = [u \in UserEntities |-> DirIds'[u]]
      BY DEF DirIds
    <3> QED
      BY <3>1, <3>2, <3>3
  <2>9. D!Bound(r, e, id)
    BY <1>1, <2>5, <2>6, <2>7, <2>8 DEF D!Bound
  <2> QED
    BY <2>3, <2>9 DEF D!DirectoryNext
<1> QED
  BY <1>3, <1>4

LEMMA DisturbIsSilent ==
  ASSUME IInv, NEW changed, Disturb(changed)
  PROVE  DirCall' = DirCall
<1>1. DirCall' = [q \in Requests |-> CallOf(req'[q])]
  BY DEF DirCall, CallOf, Status
<1>2. ASSUME NEW q \in Requests PROVE CallOf(req'[q]) = CallOf(req[q])
  BY DisturbMarks DEF CallOf, Status
<1> QED
  BY <1>1, <1>2, CallsAre

LEMMA RemoveRefines ==
  ASSUME IInv, IInv', NEW gone \in SUBSET mappings, Remove(gone)
  PROVE  D!DirectoryNext
<1> DEFINE users == {e \in UserEntities : \E m \in gone : m.entity = e}
<1>0. IdsAreMapped /\ IdsAreMapped' /\ mappings' = mappings \ gone
  BY IdsMapped, IdsMappedNext DEF Remove
<1>1. DirCall' = DirCall
  BY DisturbIsSilent DEF Remove
<1>2. ASSUME NEW e \in UserEntities
      PROVE  DirIds'[e] = IF e \in users THEN None ELSE DirIds[e]
  <2>1. CASE \E m \in gone : m.entity = e
    <3>1. ~\E m \in mappings' : m.entity = e
      BY <1>0, <2>1 DEF IInv, OneMapping, Clash
    <3> QED
      BY <1>0, <2>1, <3>1 DEF IdsAreMapped
  <2>2. CASE ~\E m \in gone : m.entity = e
    BY <1>0, <2>2 DEF IdsAreMapped
  <2> QED
    BY <2>1, <2>2
<1>3. DirIds' = [e \in UserEntities |-> DirIds'[e]]
  BY DEF DirIds
<1>4. DirIds' = [e \in UserEntities |-> IF e \in users THEN None ELSE DirIds[e]]
  BY <1>2, <1>3
<1>5. users \in SUBSET UserEntities
  OBVIOUS
<1> HIDE DEF users
<1>6. D!Forget(users)
  BY <1>1, <1>4 DEF D!Forget
<1> QED
  BY <1>5, <1>6 DEF D!DirectoryNext

LEMMA StepRefines ==
  IInv /\ IInv' /\ [Next]_vars => [D!DirectoryNext]_(D!dvars)
<1> SUFFICES ASSUME IInv, IInv', [Next]_vars
             PROVE  D!DirectoryNext \/ Stutter
  BY DEF D!dvars, Stutter
<1>1. CASE UNCHANGED vars
  <2>1. DirIds' = DirIds
    BY <1>1, SameIds DEF vars
  <2>2. DirCall' = DirCall
    BY <1>1 DEF vars, DirCall, Status
  <2> QED
    BY <2>1, <2>2 DEF Stutter
<1>2. ASSUME NEW r \in Requests, NEW e \in Entity, Resolve(r, e)
      PROVE  D!DirectoryNext
  BY <1>2, ResolveRefines
<1>3. ASSUME NEW r \in Requests,
             \/ QueryGroup(r) \/ QueryMapping(r) \/ QueryFails(r)
             \/ CreateIdMapping(r) \/ CreateFails(r)
      PROVE  D!DirectoryNext \/ Stutter
  <2>1. CASE req[r].entity \in UserEntities
    <3>1. ~QueryGroup(r)
      BY <2>1, UserTypes DEF QueryGroup, IInv, Sane
    <3> QED
      BY <1>3, <2>1, <3>1, QueryRefines, FailureRefines, CreateRefines
  <2>2. CASE req[r].entity \notin UserEntities
    BY <1>3, <2>2, GroupsAreSilent
  <2> QED
    BY <2>1, <2>2
<1>4. ASSUME NEW id \in PublicIds, DeleteIdMapping(id) PROVE D!DirectoryNext
  BY <1>4, RemoveRefines DEF DeleteIdMapping
<1>5. ASSUME NEW filter \in SUBSET Columns, NEW like \in mappings,
             PurgeMappings(filter, like)
      PROVE  D!DirectoryNext
  BY <1>5, RemoveRefines DEF PurgeMappings
<1>6. ASSUME NEW e \in GroupEntities, NEW id, ChangeGroup(e, id)
      PROVE  Stutter
  <2>1. DirIds' = DirIds
    BY <1>6, SameIds DEF ChangeGroup
  <2>2. DirCall' = DirCall
    BY <1>6, DisturbIsSilent DEF ChangeGroup
  <2> QED
    BY <2>1, <2>2 DEF Stutter
<1> QED
  BY <1>1, <1>2, <1>3, <1>4, <1>5, <1>6 DEF Next

(* For users the table is a Directory: finding an id, or binding one when   *)
(* there is none, is a single step between a call and its answer, whatever  *)
(* other workers do between the two lookups and the insert (get_public_id,  *)
(* create_id_mapping).                                                      *)
THEOREM DirectoryImplemented == Spec => ImplementsDirectory
<1>1. Init => D!DirectoryInit
  <2> SUFFICES ASSUME Init PROVE D!DirectoryInit
    OBVIOUS
  <2>1. DirIds = [e \in UserEntities |-> None]
    BY DEF Init, DirIds, MappingsOf
  <2>2. DirCall = [r \in Requests |-> D!NoCall]
    BY UserTypes DEF Init, DirCall, D!NoCall
  <2> QED
    BY <2>1, <2>2 DEF D!DirectoryInit
<1> QED
  BY <1>1, StepRefines, IdInvariant, PTL
  DEF Spec, ImplementsDirectory, D!DirectorySpec
=============================================================================
