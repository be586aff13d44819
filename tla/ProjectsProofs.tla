--------------------------- MODULE ProjectsProofs ---------------------------
(***************************************************************************)
(* What Projects guarantees for any number of users, projects and          *)
(* overlapping requests.                                                   *)
(*                                                                         *)
(* The inductive invariant carries the owner's check from findOne, where   *)
(* it is made, to the statement that writes: all requests in flight on a   *)
(* project belong to one user, its entity copies name that user as owner,  *)
(* and so does the row while there is one.                                 *)
(***************************************************************************)
EXTENDS Projects, TLAPS

Writing == {"patch", "update", "insert"}

\* A uuid nobody has been given has no row, no request and no past.
FreshInv ==
    \A p \in fresh :
        /\ row[p] = None /\ p \notin deleted
        /\ \A r \in Requests : InFlight(r) => req[r].id # p

\* The owner's check of findOne still holds when the request writes.
OwnerInv ==
    /\ \A r \in Requests : InFlight(r) =>
         /\ req[r].id \in Ids
         /\ row[req[r].id] # None => row[req[r].id].owner = req[r].user
         /\ req[r].pc \in Writing =>
              req[r].entity \in Rows /\ req[r].entity.owner = req[r].user
    /\ \A q, r \in Requests :
         InFlight(q) /\ InFlight(r) /\ req[q].id = req[r].id => req[q].user = req[r].user

\* Requests that overlap on a project know it.
CleanInv ==
    \A q, r \in Requests :
        InFlight(q) /\ InFlight(r) /\ req[q].id = req[r].id /\ q # r => ~req[r].clean

\* A project deleted without overlap has no row, and nothing is left in flight
\* that could bring it back.
DeletedInv ==
    \A p \in deleted :
        row[p] = None /\ \A r \in Requests : InFlight(r) => req[r].id # p

IInv == TypeOK /\ FreshInv /\ OwnerInv /\ CleanInv /\ DeletedInv

-----------------------------------------------------------------------------
LEMMA SameFresh == creator' = creator => fresh' = fresh
BY DEF fresh

LEMMA FreeType == Free \in ReqType /\ Free.pc = "free"
BY DEF Free, ReqType, Bodies

LEMMA NoneIsNoRow == None \notin Rows
BY ProjectsAssumption DEF Rows

LEMMA InitEstablishes == Init => IInv
BY FreeType DEF Init, IInv, TypeOK, FreshInv, OwnerInv, CleanInv, DeletedInv, InFlight, fresh

\* What findOne returns is the caller's row, or nothing.
LEMMA FindOneReturns ==
    ASSUME NEW p, NEW u, NEW e \in FindOne(p, u)
    PROVE  row[p] # None /\ row[p].owner = u /\ e = row[p]
BY DEF FindOne

\* Object.assign keeps the owner and yields a row.
LEMMA MergeKeepsOwner ==
    ASSUME NEW e \in Rows, NEW body \in Bodies
    PROVE  Merge(e, body) \in Rows /\ Merge(e, body).owner = e.owner
BY ProjectsAssumption DEF Merge, Rows, Bodies, Fields

\* The UPDATE's columns come from the entity.
LEMMA AssignKeepsOwner ==
    ASSUME NEW old \in Rows, NEW e \in Rows, NEW cols, e.owner = old.owner
    PROVE  Assign(old, e, cols) \in Rows /\ Assign(old, e, cols).owner = old.owner
BY DEF Assign, Rows

\* A request that starts, with the owner's check behind it.
LEMMA BeginStep ==
    ASSUME IInv, NEW r \in Requests, NEW p \in Ids, NEW u \in Users, NEW c \in ReqType,
           Begin(r, p, c), row[p] # None, row[p].owner = u,
           c.pc # "free", c.user = u, c.pc \in Writing => c.entity \in Rows /\ c.entity.owner = u,
           UNCHANGED <<row, creator, deleted>>
    PROVE  IInv'
<1> DEFINE Others == {q \in Requests : InFlight(q) /\ req[q].id = p}
<1>1. /\ ~InFlight(r)
      /\ req' = [q \in Requests |->
                  IF q = r THEN [c EXCEPT !.id = p, !.clean = Others = {}]
                  ELSE IF q \in Others THEN [req[q] EXCEPT !.clean = FALSE] ELSE req[q]]
  BY DEF Begin
<1>2. \A x \in ReqType, i \in Ids, b \in BOOLEAN :
        /\ [x EXCEPT !.id = i, !.clean = b] \in ReqType
        /\ [x EXCEPT !.clean = b] \in ReqType
  BY DEF ReqType
<1>3. req' \in [Requests -> ReqType]
  BY <1>1, <1>2 DEF IInv, TypeOK
<1>4. /\ req'[r].pc = c.pc /\ req'[r].user = u /\ req'[r].id = p /\ req'[r].entity = c.entity
      /\ Others # {} => ~req'[r].clean
  BY <1>1 DEF ReqType
<1>5. \A q \in Requests \ {r} :
        /\ req'[q].pc = req[q].pc /\ req'[q].user = req[q].user
        /\ req'[q].id = req[q].id /\ req'[q].entity = req[q].entity
        /\ q \in Others \/ ~req[q].clean => ~req'[q].clean
  <2> SUFFICES ASSUME NEW q \in Requests \ {r}
               PROVE /\ req'[q].pc = req[q].pc /\ req'[q].user = req[q].user
                     /\ req'[q].id = req[q].id /\ req'[q].entity = req[q].entity
                     /\ q \in Others \/ ~req[q].clean => ~req'[q].clean
    OBVIOUS
  <2>1. req[q] \in ReqType BY DEF IInv, TypeOK
  <2>2. req'[q] = IF q \in Others THEN [req[q] EXCEPT !.clean = FALSE] ELSE req[q]
    BY <1>1
  <2>3. CASE q \in Others BY <2>1, <2>2, <2>3 DEF ReqType
  <2>4. CASE q \notin Others
    <3>1. req'[q] = req[q] BY <2>2, <2>4
    <3> QED BY <2>4, <3>1
  <2> QED BY <2>3, <2>4
<1>6. p \notin fresh /\ p \notin deleted BY DEF IInv, FreshInv, DeletedInv
<1>7. TypeOK' BY <1>3 DEF IInv, TypeOK
<1>8. FreshInv' BY <1>4, <1>5, <1>6, SameFresh DEF IInv, FreshInv, InFlight
<1>9. OwnerInv'
  <2>1. \A q \in Others : req[q].user = u BY DEF IInv, OwnerInv
  <2> QED BY <1>4, <1>5, <2>1 DEF IInv, OwnerInv, InFlight
<1>10. CleanInv' BY <1>4, <1>5 DEF IInv, CleanInv, InFlight
<1>11. DeletedInv' BY <1>4, <1>5, <1>6 DEF IInv, DeletedInv, InFlight
<1> QED BY <1>7, <1>8, <1>9, <1>10, <1>11 DEF IInv

\* A request that ends, leaving `new` as the project's row.
LEMMA EndStep ==
    ASSUME IInv, NEW r \in Requests, InFlight(r), End(r), NEW new \in Rows \cup {None},
           new # None => new.owner = req[r].user,
           row' = [row EXCEPT ![req[r].id] = new], UNCHANGED <<creator, deleted>>
    PROVE  IInv'
<1>1. /\ req' \in [Requests -> ReqType]
      /\ ~InFlight(r)' /\ \A q \in Requests \ {r} : req'[q] = req[q]
  BY FreeType DEF IInv, TypeOK, End, InFlight
<1>2. /\ req[r].id \in Ids /\ req[r].id \notin fresh /\ req[r].id \notin deleted
  BY DEF IInv, OwnerInv, FreshInv, DeletedInv
<1>3. /\ row' \in [Ids -> Rows \cup {None}] /\ row'[req[r].id] = new
      /\ \A p \in Ids : p # req[r].id => row'[p] = row[p]
  BY <1>2 DEF IInv, TypeOK
<1>4. TypeOK' BY <1>1, <1>3 DEF IInv, TypeOK
<1>5. FreshInv' BY <1>1, <1>2, <1>3, <1>4, SameFresh DEF IInv, FreshInv, InFlight, TypeOK
<1>6. OwnerInv'
  <2>1. \A q \in Requests : InFlight(q) /\ req[q].id = req[r].id => req[q].user = req[r].user
    BY DEF IInv, OwnerInv
  <2> QED BY <1>1, <1>3, <2>1 DEF IInv, OwnerInv, InFlight
<1>7. CleanInv' BY <1>1 DEF IInv, CleanInv, InFlight
<1>8. DeletedInv' BY <1>1, <1>2, <1>3, <1>4 DEF IInv, DeletedInv, InFlight, TypeOK
<1> QED BY <1>4, <1>5, <1>6, <1>7, <1>8 DEF IInv

\* A request that ends without writing.
LEMMA EndIdle ==
    ASSUME IInv, NEW r \in Requests, InFlight(r), End(r), UNCHANGED <<row, creator, deleted>>
    PROVE  IInv'
<1>1. req[r].id \in Ids BY DEF IInv, OwnerInv
<1>2. /\ row[req[r].id] \in Rows \cup {None}
      /\ row[req[r].id] # None => row[req[r].id].owner = req[r].user
      /\ row' = [row EXCEPT ![req[r].id] = row[req[r].id]]
  BY <1>1 DEF IInv, TypeOK, OwnerInv
<1> QED BY <1>2, EndStep

LEMMA CreateStep ==
    ASSUME IInv, NEW r \in Requests, NEW u \in Users, NEW p \in Ids, NEW n \in Values,
           NEW d \in Values, Create(r, u, p, n, d)
    PROVE  IInv'
<1> DEFINE new == [name |-> n, description |-> d, owner |-> u]
<1>1. new \in Rows BY DEF Rows
<1> HIDE DEF new
<1>2. /\ p \in fresh /\ creator' = [creator EXCEPT ![p] = u] /\ row' = [row EXCEPT ![p] = new]
      /\ req' = req /\ deleted' = deleted
  BY DEF Create, new
<1>f. fresh' = fresh \ {p}
  BY <1>2, ProjectsAssumption DEF IInv, TypeOK, fresh
<1>3. /\ p \notin deleted /\ \A q \in Requests : InFlight(q) => req[q].id # p
  BY <1>2 DEF IInv, FreshInv
<1>4. /\ row' \in [Ids -> Rows \cup {None}]
      /\ \A i \in Ids : i # p => row'[i] = row[i]
  BY <1>1, <1>2 DEF IInv, TypeOK
<1>5. TypeOK' BY <1>2, <1>4 DEF IInv, TypeOK
<1>6. FreshInv' BY <1>2, <1>f, <1>4 DEF IInv, TypeOK, FreshInv, InFlight
<1>7. OwnerInv' BY <1>2, <1>3, <1>4 DEF IInv, OwnerInv, InFlight
<1>8. CleanInv' BY <1>2 DEF IInv, CleanInv, InFlight
<1>9. DeletedInv' BY <1>2, <1>3, <1>4 DEF IInv, TypeOK, DeletedInv, InFlight
<1> QED BY <1>5, <1>6, <1>7, <1>8, <1>9 DEF IInv

LEMMA PatchReadStep ==
    ASSUME IInv, NEW r \in Requests, NEW u \in Users, NEW p \in Ids, NEW body \in Bodies,
           PatchRead(r, u, p, body)
    PROVE  IInv'
<1>1. PICK e \in FindOne(p, u) :
        Begin(r, p, [Free EXCEPT !.pc = "patch", !.user = u, !.body = body,
                                 !.entity = Merge(e, body)])
  BY DEF PatchRead
<1> DEFINE m == Merge(e, body)
           c == [Free EXCEPT !.pc = "patch", !.user = u, !.body = body, !.entity = m]
<1>2. e \in Rows /\ row[p] # None /\ row[p].owner = u /\ e = row[p]
  BY FindOneReturns DEF IInv, TypeOK
<1>3. m \in Rows /\ m.owner = u BY <1>2, MergeKeepsOwner
<1>4. Begin(r, p, c) BY <1>1
<1> HIDE DEF m
<1>5. c \in ReqType /\ c.pc = "patch" /\ c.user = u /\ c.entity = m
  BY <1>3 DEF Free, ReqType
<1> HIDE DEF c
<1>6. UNCHANGED <<row, creator, deleted>> BY DEF PatchRead
<1> QED BY <1>2, <1>3, <1>4, <1>5, <1>6, BeginStep

LEMMA RemoveReadStep ==
    ASSUME IInv, NEW r \in Requests, NEW u \in Users, NEW p \in Ids, RemoveRead(r, u, p)
    PROVE  IInv'
<1> DEFINE c == [Free EXCEPT !.pc = "remove", !.user = u]
<1>1. Begin(r, p, c) /\ UNCHANGED <<row, creator, deleted>> BY DEF RemoveRead
<1>2. row[p] # None /\ row[p].owner = u BY FindOneReturns DEF RemoveRead
<1>3. c \in ReqType /\ c.pc = "remove" /\ c.user = u BY DEF Free, ReqType, Bodies
<1> HIDE DEF c
<1>4. c.pc # "free" /\ c.pc \notin Writing BY <1>3 DEF Writing
<1> QED BY <1>1, <1>2, <1>3, <1>4, BeginStep

LEMMA PatchSelectStep == ASSUME IInv, NEW r \in Requests, PatchSelect(r) PROVE IInv'
<1>1. req[r].pc = "patch" /\ InFlight(r) /\ UNCHANGED <<row, creator, deleted>>
  BY DEF PatchSelect, InFlight
<1>2. CASE End(r) BY <1>1, <1>2, EndIdle
<1>3. CASE \E pc \in {"insert", "update"}, cols \in SUBSET (Fields \cup {"owner"}) :
             req' = [req EXCEPT ![r].pc = pc, ![r].cols = cols]
  <2>1. PICK pc \in {"insert", "update"}, cols \in SUBSET (Fields \cup {"owner"}) :
          req' = [req EXCEPT ![r].pc = pc, ![r].cols = cols]
    BY <1>3
  <2>2. \A x \in ReqType :
          /\ [x EXCEPT !.pc = pc, !.cols = cols] \in ReqType
          /\ [x EXCEPT !.pc = pc, !.cols = cols].pc = pc
          /\ [x EXCEPT !.pc = pc, !.cols = cols].id = x.id
          /\ [x EXCEPT !.pc = pc, !.cols = cols].user = x.user
          /\ [x EXCEPT !.pc = pc, !.cols = cols].entity = x.entity
          /\ [x EXCEPT !.pc = pc, !.cols = cols].clean = x.clean
    BY DEF ReqType
  <2>3. req' = [req EXCEPT ![r] = [req[r] EXCEPT !.pc = pc, !.cols = cols]]
    BY <2>1 DEF IInv, TypeOK
  <2>4. /\ req' \in [Requests -> ReqType]
        /\ req'[r].pc = pc /\ req'[r].id = req[r].id /\ req'[r].user = req[r].user
        /\ req'[r].entity = req[r].entity /\ req'[r].clean = req[r].clean
        /\ \A q \in Requests \ {r} : req'[q] = req[q]
    BY <2>2, <2>3 DEF IInv, TypeOK
  <2>5. TypeOK' BY <1>1, <2>4 DEF IInv, TypeOK
  <2>6. FreshInv' BY <1>1, <2>4, SameFresh DEF IInv, FreshInv, InFlight
  <2>7. OwnerInv' BY <1>1, <2>4 DEF IInv, OwnerInv, InFlight, Writing
  <2>8. CleanInv' BY <1>1, <2>4 DEF IInv, CleanInv, InFlight
  <2>9. DeletedInv' BY <1>1, <2>4 DEF IInv, DeletedInv, InFlight
  <2> QED BY <2>5, <2>6, <2>7, <2>8, <2>9 DEF IInv
<1>4. End(r) \/ \E pc \in {"insert", "update"}, cols \in SUBSET (Fields \cup {"owner"}) :
                  req' = [req EXCEPT ![r].pc = pc, ![r].cols = cols]
  <2>1. CASE row[req[r].id] = None
    <3>1. req' = [req EXCEPT ![r].pc = "insert"] BY <2>1 DEF PatchSelect
    <3>2. \A x \in ReqType : x.cols \in SUBSET (Fields \cup {"owner"})
            /\ [x EXCEPT !.pc = "insert"] = [x EXCEPT !.pc = "insert", !.cols = x.cols]
      BY DEF ReqType
    <3>3. req' = [req EXCEPT ![r].pc = "insert", ![r].cols = req[r].cols]
      BY <3>1, <3>2 DEF IInv, TypeOK
    <3> QED BY <3>2, <3>3 DEF IInv, TypeOK
  <2>2. CASE row[req[r].id] # None
    <3> DEFINE cols == DiffColumns(req[r].entity, row[req[r].id])
    <3>1. req[r].id \in Ids BY <1>1 DEF IInv, OwnerInv
    <3>2. row[req[r].id] \in Rows BY <2>2, <3>1 DEF IInv, TypeOK
    <3>3. cols \in SUBSET (Fields \cup {"owner"})
      BY <3>2 DEF DiffColumns, Rows, Fields
    <3>4. End(r) \/ req' = [req EXCEPT ![r].pc = "update", ![r].cols = cols]
      BY <2>2 DEF PatchSelect
    <3> QED BY <3>3, <3>4
  <2> QED BY <2>1, <2>2
<1> QED BY <1>2, <1>3, <1>4

LEMMA PatchUpdateStep == ASSUME IInv, NEW r \in Requests, PatchUpdate(r) PROVE IInv'
<1>1. /\ req[r].pc = "update" /\ InFlight(r) /\ req[r].pc \in Writing
      /\ End(r) /\ UNCHANGED <<creator, deleted>>
  BY DEF PatchUpdate, InFlight, Writing
<1>2. CASE row[req[r].id] = None
  <2>1. row' = row BY <1>2 DEF PatchUpdate
  <2> QED BY <1>1, <2>1, EndIdle
<1>3. CASE row[req[r].id] # None
  <2> DEFINE new == Assign(row[req[r].id], req[r].entity, req[r].cols)
  <2>1. /\ req[r].id \in Ids /\ row[req[r].id].owner = req[r].user
        /\ req[r].entity \in Rows /\ req[r].entity.owner = req[r].user
    BY <1>1, <1>3 DEF IInv, OwnerInv
  <2>2. row[req[r].id] \in Rows BY <1>3, <2>1 DEF IInv, TypeOK
  <2>3. new \in Rows /\ new.owner = req[r].user BY <2>1, <2>2, AssignKeepsOwner
  <2>4. row' = [row EXCEPT ![req[r].id] = new] BY <1>3 DEF PatchUpdate
  <2> HIDE DEF new
  <2> QED BY <1>1, <2>3, <2>4, EndStep
<1> QED BY <1>2, <1>3

LEMMA PatchInsertStep == ASSUME IInv, NEW r \in Requests, PatchInsert(r) PROVE IInv'
<1>1. /\ req[r].pc = "insert" /\ InFlight(r) /\ req[r].pc \in Writing
      /\ End(r) /\ UNCHANGED <<creator, deleted>>
      /\ row' = row \/ row' = [row EXCEPT ![req[r].id] = req[r].entity]
  BY DEF PatchInsert, InFlight, Writing
<1>2. req[r].entity \in Rows /\ req[r].entity.owner = req[r].user
  BY <1>1 DEF IInv, OwnerInv
<1> QED BY <1>1, <1>2, EndIdle, EndStep

LEMMA RemoveDeleteStep == ASSUME IInv, NEW r \in Requests, RemoveDelete(r) PROVE IInv'
<1>1. /\ InFlight(r) /\ End(r) /\ creator' = creator
      /\ row' = [row EXCEPT ![req[r].id] = None]
      /\ deleted' = IF req[r].clean THEN deleted \cup {req[r].id} ELSE deleted
  BY DEF RemoveDelete, InFlight
<1>2. CASE ~req[r].clean
  <2>1. deleted' = deleted BY <1>1, <1>2
  <2> QED BY <1>1, <2>1, EndStep
<1>3. CASE req[r].clean
  <2>1. /\ req' \in [Requests -> ReqType]
        /\ ~InFlight(r)' /\ \A q \in Requests \ {r} : req'[q] = req[q]
    BY <1>1, FreeType DEF IInv, TypeOK, End, InFlight
  <2>2. req[r].id \in Ids /\ req[r].id \notin fresh
    BY <1>1 DEF IInv, OwnerInv, FreshInv
  <2>3. /\ row' \in [Ids -> Rows \cup {None}] /\ row'[req[r].id] = None
        /\ \A p \in Ids : p # req[r].id => row'[p] = row[p]
    BY <1>1, <2>2 DEF IInv, TypeOK
  <2>4. \A q \in Requests \ {r} : InFlight(q) => req[q].id # req[r].id
    BY <1>1, <1>3 DEF IInv, CleanInv
  <2>5. TypeOK' BY <1>1, <1>3, <2>1, <2>2, <2>3 DEF IInv, TypeOK
  <2>6. FreshInv' BY <1>1, <1>3, <2>1, <2>2, <2>3, SameFresh DEF IInv, TypeOK, FreshInv, InFlight
  <2>7. OwnerInv' BY <2>1, <2>3 DEF IInv, OwnerInv, InFlight
  <2>8. CleanInv' BY <2>1 DEF IInv, CleanInv, InFlight
  <2>9. DeletedInv'
    BY <1>1, <1>3, <2>1, <2>2, <2>3, <2>4 DEF IInv, TypeOK, DeletedInv, InFlight
  <2> QED BY <2>5, <2>6, <2>7, <2>8, <2>9 DEF IInv
<1> QED BY <1>2, <1>3

LEMMA FailStep == ASSUME IInv, NEW r \in Requests, Fail(r) PROVE IInv'
BY EndIdle DEF Fail

LEMMA NextPreserves == IInv /\ [Next]_vars => IInv'
<1> SUFFICES ASSUME IInv, [Next]_vars PROVE IInv'
  OBVIOUS
<1>1. CASE Next
  BY <1>1, CreateStep, PatchReadStep, RemoveReadStep, PatchSelectStep, PatchUpdateStep,
     PatchInsertStep, RemoveDeleteStep, FailStep DEF Next
<1>2. CASE UNCHANGED vars
  <2>1. fresh' = fresh BY <1>2, SameFresh DEF vars
  <2> QED
    BY <1>2, <2>1 DEF vars, IInv, TypeOK, FreshInv, OwnerInv, CleanInv, DeletedInv, InFlight
<1> QED BY <1>1, <1>2

\* Projects never leaves the inductive invariant.
THEOREM ProjectsInvariant == Spec => []IInv
BY InitEstablishes, NextPreserves, PTL DEF Spec

-----------------------------------------------------------------------------
\* Type correctness of Projects.
THEOREM ProjectsTypeCorrect == Spec => []TypeOK
<1>1. IInv => TypeOK BY DEF IInv
<1> QED BY ProjectsInvariant, <1>1, PTL

\* A DELETE that nothing overlapped is permanent.
THEOREM CleanDeletesHold == Spec => []DeleteHolds
<1>1. IInv => DeleteHolds BY DEF IInv, DeletedInv, DeleteHolds
<1> QED BY ProjectsInvariant, <1>1, PTL

\* What a request leaves in the row of its project, if it changes it at all, is
\* owned by the user who makes the request.
LEMMA OwnedAfter ==
    ASSUME IInv, NEW r \in Requests,
           PatchUpdate(r) \/ PatchInsert(r) \/ RemoveDelete(r) \/ Fail(r),
           NEW p \in Ids, row'[p] # row[p], row'[p] # None
    PROVE  req[r].id = p /\ row'[p].owner = req[r].user
<1> DEFINE i == req[r].id
           new == Assign(row[i], req[r].entity, req[r].cols)
<1>1. InFlight(r) /\ i \in Ids
  BY DEF PatchUpdate, PatchInsert, RemoveDelete, Fail, InFlight, IInv, OwnerInv
<1>2. CASE PatchUpdate(r)
  <2>1. row[i] # None /\ row' = [row EXCEPT ![i] = new] /\ req[r].pc \in Writing
    BY <1>2 DEF PatchUpdate, Writing
  <2>2. i = p /\ row'[p] = new BY <1>1, <2>1 DEF IInv, TypeOK
  <2>3. /\ row[i] \in Rows /\ row[i].owner = req[r].user
        /\ req[r].entity \in Rows /\ req[r].entity.owner = req[r].user
    BY <1>1, <2>1 DEF IInv, TypeOK, OwnerInv
  <2>4. new.owner = row[i].owner BY <2>3, AssignKeepsOwner
  <2> HIDE DEF new
  <2> QED BY <2>2, <2>3, <2>4
<1>3. CASE PatchInsert(r)
  <2>1. row' = [row EXCEPT ![i] = req[r].entity] /\ req[r].pc \in Writing
    BY <1>3 DEF PatchInsert, Writing
  <2> QED BY <1>1, <2>1 DEF IInv, TypeOK, OwnerInv
<1>4. CASE RemoveDelete(r) \/ Fail(r)
  BY <1>1, <1>4 DEF RemoveDelete, Fail, IInv, TypeOK
<1> QED BY <1>2, <1>3, <1>4

\* Of a project that was created, the row names the creator as owner while there
\* is one, and the requests in flight on it are the creator's.
CreatorInv ==
    /\ \A p \in Ids : row[p] # None => creator[p] \in Users /\ row[p].owner = creator[p]
    /\ \A r \in Requests : InFlight(r) => req[r].user = creator[req[r].id]

\* A step that starts no request and changes no creator.
LEMMA CreatorKept ==
    ASSUME CreatorInv, IInv, creator' = creator,
           \A r \in Requests : InFlight(r)' =>
              InFlight(r) /\ req'[r].user = req[r].user /\ req'[r].id = req[r].id,
           \A p \in Ids : row'[p] # None =>
              \/ row'[p] = row[p]
              \/ \E r \in Requests :
                    /\ InFlight(r) /\ req[r].id = p /\ req[r].user \in Users
                    /\ row'[p].owner = req[r].user
    PROVE  CreatorInv'
BY DEF CreatorInv

LEMMA NextCreator == IInv /\ CreatorInv /\ [Next]_vars => CreatorInv'
<1> SUFFICES ASSUME IInv, CreatorInv, [Next]_vars PROVE CreatorInv'
  OBVIOUS
<1>1. ASSUME NEW r \in Requests, NEW u \in Users, NEW p \in Ids, NEW n \in Values,
             NEW d \in Values, Create(r, u, p, n, d)
      PROVE  CreatorInv'
  <2>1. /\ req' = req /\ p \in fresh /\ creator' = [creator EXCEPT ![p] = u]
        /\ row' = [row EXCEPT ![p] = [name |-> n, description |-> d, owner |-> u]]
    BY <1>1 DEF Create
  <2>2. \A q \in Requests : InFlight(q) => req[q].id # p /\ req[q].id \in Ids
    BY <2>1 DEF IInv, FreshInv, OwnerInv
  <2> QED BY <2>1, <2>2 DEF CreatorInv, IInv, TypeOK, InFlight
<1>2. ASSUME NEW r \in Requests, NEW u \in Users, NEW p \in Ids, NEW c,
             Begin(r, p, c), c \in ReqType, c.user = u, row[p] # None, row[p].owner = u,
             UNCHANGED <<row, creator>>
      PROVE  CreatorInv'
  <2> DEFINE Others == {q \in Requests : InFlight(q) /\ req[q].id = p}
  <2>1. req' = [q \in Requests |->
                  IF q = r THEN [c EXCEPT !.id = p, !.clean = Others = {}]
                  ELSE IF q \in Others THEN [req[q] EXCEPT !.clean = FALSE] ELSE req[q]]
    BY <1>2 DEF Begin
  <2> HIDE DEF Others
  <2>2. req'[r].user = u /\ req'[r].id = p
    BY <1>2, <2>1 DEF ReqType
  <2>3. \A q \in Requests \ {r} : /\ req'[q].pc = req[q].pc /\ req'[q].user = req[q].user
                                  /\ req'[q].id = req[q].id
    <3> SUFFICES ASSUME NEW q \in Requests \ {r}
                 PROVE  /\ req'[q].pc = req[q].pc /\ req'[q].user = req[q].user
                        /\ req'[q].id = req[q].id
      OBVIOUS
    <3>1. req[q] \in ReqType BY DEF IInv, TypeOK
    <3>2. req'[q] = req[q] \/ req'[q] = [req[q] EXCEPT !.clean = FALSE] BY <2>1
    <3> QED BY <3>1, <3>2 DEF ReqType
  <2> QED BY <1>2, <2>2, <2>3 DEF CreatorInv, InFlight
<1>3. ASSUME NEW r \in Requests, NEW u \in Users, NEW p \in Ids, NEW body \in Bodies,
             PatchRead(r, u, p, body)
      PROVE  CreatorInv'
  <2>1. PICK e \in FindOne(p, u) :
          Begin(r, p, [Free EXCEPT !.pc = "patch", !.user = u, !.body = body,
                                   !.entity = Merge(e, body)])
    BY <1>3 DEF PatchRead
  <2> DEFINE m == Merge(e, body)
             c == [Free EXCEPT !.pc = "patch", !.user = u, !.body = body, !.entity = m]
  <2>2. e \in Rows /\ row[p] # None /\ row[p].owner = u
    BY FindOneReturns DEF IInv, TypeOK
  <2>3. m \in Rows BY <2>2, MergeKeepsOwner
  <2>4. Begin(r, p, c) /\ UNCHANGED <<row, creator>> BY <1>3, <2>1 DEF PatchRead
  <2> HIDE DEF m
  <2>5. c \in ReqType /\ c.user = u BY <2>3 DEF Free, ReqType
  <2> HIDE DEF c
  <2> QED BY <1>2, <2>2, <2>4, <2>5
<1>4. ASSUME NEW r \in Requests, NEW u \in Users, NEW p \in Ids, RemoveRead(r, u, p)
      PROVE  CreatorInv'
  <2> DEFINE c == [Free EXCEPT !.pc = "remove", !.user = u]
  <2>1. Begin(r, p, c) /\ UNCHANGED <<row, creator>> BY <1>4 DEF RemoveRead
  <2>2. row[p] # None /\ row[p].owner = u BY <1>4, FindOneReturns DEF RemoveRead
  <2>3. c \in ReqType /\ c.user = u BY DEF Free, ReqType, Bodies
  <2> HIDE DEF c
  <2> QED BY <1>2, <2>1, <2>2, <2>3
<1>5. ASSUME NEW r \in Requests, PatchSelect(r) PROVE CreatorInv'
  <2>1. /\ InFlight(r) /\ UNCHANGED <<row, creator>>
        /\ \A q \in Requests \ {r} : req'[q] = req[q]
        /\ InFlight(r)' => req'[r].user = req[r].user /\ req'[r].id = req[r].id
    BY <1>5, FreeType DEF PatchSelect, InFlight, End, IInv, TypeOK, ReqType
  <2> QED BY <2>1, CreatorKept DEF InFlight
<1>6. ASSUME NEW r \in Requests,
             PatchUpdate(r) \/ PatchInsert(r) \/ RemoveDelete(r) \/ Fail(r)
      PROVE  CreatorInv'
  <2>1. InFlight(r) /\ End(r) /\ creator' = creator
    BY <1>6 DEF PatchUpdate, PatchInsert, RemoveDelete, Fail, InFlight
  <2>2. ~InFlight(r)' /\ \A q \in Requests \ {r} : req'[q] = req[q]
    BY <2>1, FreeType DEF End, InFlight, IInv, TypeOK
  <2>3. \A p \in Ids : row'[p] # row[p] /\ row'[p] # None =>
                         req[r].id = p /\ row'[p].owner = req[r].user
    BY <1>6, OwnedAfter
  <2>4. req[r].id \in Ids
    BY <2>1 DEF IInv, OwnerInv
  <2>5. req[r].pc \in Writing => req[r].user \in Users
    BY <2>1 DEF IInv, OwnerInv, Rows
  <2>6. \A p \in Ids : row'[p] # row[p] /\ row'[p] # None => req[r].pc \in Writing
    BY <1>6 DEF PatchUpdate, PatchInsert, RemoveDelete, Fail, Writing, IInv, TypeOK
  <2> QED BY <2>1, <2>2, <2>3, <2>5, <2>6, CreatorKept DEF InFlight
<1>7. CASE UNCHANGED vars
  BY <1>7 DEF vars, CreatorInv, InFlight
<1> QED BY <1>1, <1>3, <1>4, <1>5, <1>6, <1>7 DEF Next

\* One step of OwnerWrites, for one project.
OwnerStep(p) ==
    creator[p] # None /\ row'[p] # row[p] =>
        /\ \E r \in Requests : /\ req[r].id = p /\ req[r].user = creator[p]
                               /\ InFlight(r) /\ ~InFlight(r)'
        /\ row'[p] # None => row'[p].owner = creator[p]

\* The row of a project that was created is changed by its creator's requests
\* only: by an UPDATE, a DELETE or the INSERT that brings it back.
LEMMA RowChangedByOwner ==
    ASSUME IInv, CreatorInv, Next, NEW p \in Ids
    PROVE  OwnerStep(p)
<1> SUFFICES ASSUME creator[p] # None, row'[p] # row[p]
             PROVE  /\ \E r \in Requests : /\ req[r].id = p /\ req[r].user = creator[p]
                                           /\ InFlight(r) /\ ~InFlight(r)'
                    /\ row'[p] # None => row'[p].owner = creator[p]
  BY DEF OwnerStep
<1>1. \A r \in Requests : End(r) => ~InFlight(r)'
  BY FreeType DEF End, InFlight, IInv, TypeOK
<1>2. ASSUME NEW r \in Requests, NEW u \in Users, NEW i \in Ids, NEW n \in Values,
             NEW d \in Values, Create(r, u, i, n, d)
      PROVE  FALSE
  <2>1. p # i BY <1>2 DEF Create, fresh
  <2> QED BY <1>2, <2>1 DEF Create, IInv, TypeOK
<1>3. ASSUME NEW r \in Requests, PatchUpdate(r) \/ PatchInsert(r) \/ RemoveDelete(r)
      PROVE  /\ req[r].id = p /\ req[r].user = creator[p] /\ InFlight(r) /\ ~InFlight(r)'
             /\ row'[p] # None => row'[p].owner = creator[p]
  <2>1. InFlight(r) /\ End(r)
    BY <1>3 DEF PatchUpdate, PatchInsert, RemoveDelete, InFlight
  <2>2. req[r].id \in Ids
    BY <2>1 DEF IInv, OwnerInv
  <2>3. req[r].id = p
    BY <1>3, <2>2 DEF PatchUpdate, PatchInsert, RemoveDelete, IInv, TypeOK
  <2>4. req[r].user = creator[p]
    BY <2>1, <2>3 DEF CreatorInv
  <2>5. row'[p] # None => row'[p].owner = req[r].user
    BY <1>3, OwnedAfter
  <2> QED BY <1>1, <2>1, <2>3, <2>4, <2>5
<1>4. ASSUME NEW r \in Requests, NEW u, NEW i, NEW body,
             PatchRead(r, u, i, body) \/ RemoveRead(r, u, i) \/ PatchSelect(r) \/ Fail(r)
      PROVE  FALSE
  BY <1>4 DEF PatchRead, RemoveRead, PatchSelect, Fail
<1> QED BY <1>2, <1>3, <1>4 DEF Next

\* Only its creator's requests write a project, however long ago they checked
\* its owner and whether or not it still has a row: a PATCH that brings a deleted
\* project back brings it back to its owner (projects.service.ts).
THEOREM OnlyOwnersWrite == Spec => OwnerWrites
<1>1. Init => CreatorInv
  BY DEF Init, CreatorInv, InFlight, Free
<1>2. Spec => []CreatorInv
  BY <1>1, NextCreator, ProjectsInvariant, PTL DEF Spec
<1>3. IInv /\ CreatorInv /\ [Next]_vars => [\A p \in Ids : OwnerStep(p)]_vars
  BY RowChangedByOwner
<1>4. Spec => [][\A p \in Ids : OwnerStep(p)]_vars
  BY <1>2, <1>3, ProjectsInvariant, PTL DEF Spec
<1>5. [\A p \in Ids : OwnerStep(p)]_vars =>
        [\A p \in Ids : creator[p] # None /\ row'[p] # row[p] =>
           /\ \E r \in Requests : /\ req[r].id = p /\ req[r].user = creator[p]
                                /\ InFlight(r) /\ ~InFlight(r)'
           /\ row'[p] # None => row'[p].owner = creator[p]]_vars
  BY DEF OwnerStep
<1> QED BY <1>4, <1>5, PTL DEF OwnerWrites

-----------------------------------------------------------------------------
\* A PATCH that nothing on its project overlapped still has the row it read: its
\* entity is that row with the body merged in, and save finds the row there.
Untouched(r) ==
    /\ row[req[r].id] # None
    /\ req[r].entity = Merge(row[req[r].id], req[r].body)
    /\ req[r].pc # "insert"
    /\ req[r].pc = "update" => req[r].cols = DiffColumns(req[r].entity, row[req[r].id])

PatchInv == \A r \in Requests : req[r].clean /\ req[r].pc \in Writing => Untouched(r)

\* A step that leaves the slot q and the row of its project alone.
LEMMA OtherSlot ==
    ASSUME IInv, PatchInv, NEW q \in Requests,
           req'[q].clean, req'[q].pc \in Writing,
           req'[q].clean => req[q].clean,
           req'[q].pc = req[q].pc, req'[q].id = req[q].id, req'[q].body = req[q].body,
           req'[q].entity = req[q].entity, req'[q].cols = req[q].cols,
           row'[req[q].id] = row[req[q].id]
    PROVE  Untouched(q)'
<1>1. Untouched(q)
  BY DEF PatchInv
<1>2. row'[req'[q].id] = row[req[q].id] /\ row'[req'[q].id] # None
  BY <1>1 DEF Untouched
<1>3. req'[q].entity = Merge(row'[req'[q].id], req'[q].body)
  BY <1>1, <1>2 DEF Untouched
<1>4. req'[q].pc # "insert"
  BY <1>1 DEF Untouched
<1>5. req'[q].pc = "update" =>
        req'[q].cols = DiffColumns(req'[q].entity, row'[req'[q].id])
  BY <1>1, <1>2 DEF Untouched
<1> QED
  BY <1>2, <1>3, <1>4, <1>5 DEF Untouched, Merge, DiffColumns

\* A request that starts: PATCH has the row it was given by findOne.
LEMMA BeginPatch ==
    ASSUME IInv, PatchInv, NEW r \in Requests, NEW p \in Ids, NEW c \in ReqType,
           Begin(r, p, c), row' = row,
           c.pc \in Writing =>
             c.pc = "patch" /\ row[p] # None /\ c.entity = Merge(row[p], c.body)
    PROVE  PatchInv'
<1> DEFINE Others == {q \in Requests : InFlight(q) /\ req[q].id = p}
<1>1. req' = [q \in Requests |->
                IF q = r THEN [c EXCEPT !.id = p, !.clean = Others = {}]
                ELSE IF q \in Others THEN [req[q] EXCEPT !.clean = FALSE] ELSE req[q]]
  BY DEF Begin
<1> HIDE DEF Others
<1>2. /\ req'[r].pc = c.pc /\ req'[r].id = p /\ req'[r].body = c.body
      /\ req'[r].entity = c.entity
  BY <1>1 DEF ReqType
<1>3. ASSUME NEW q \in Requests \ {r}
      PROVE  /\ req'[q].pc = req[q].pc /\ req'[q].id = req[q].id /\ req'[q].body = req[q].body
             /\ req'[q].entity = req[q].entity /\ req'[q].cols = req[q].cols
             /\ req'[q].clean => req[q].clean
  <2>1. req[q] \in ReqType BY DEF IInv, TypeOK
  <2>2. CASE req'[q] = req[q] BY <2>2
  <2>3. CASE req'[q] = [req[q] EXCEPT !.clean = FALSE] BY <2>1, <2>3 DEF ReqType
  <2> QED BY <1>1, <2>2, <2>3
<1>4. ASSUME NEW q \in Requests, req'[q].clean, req'[q].pc \in Writing
      PROVE  Untouched(q)'
  <2>1. CASE q = r
    BY <1>2, <1>4, <2>1 DEF Untouched, Merge
  <2>2. CASE q # r
    BY <1>3, <1>4, <2>2, OtherSlot
  <2> QED BY <2>1, <2>2
<1> QED BY <1>4 DEF PatchInv

\* A request that ends, whatever it leaves in the row of its project.
LEMMA EndPatch ==
    ASSUME IInv, PatchInv, NEW r \in Requests, InFlight(r), End(r),
           \A p \in Ids : p # req[r].id => row'[p] = row[p]
    PROVE  PatchInv'
<1>1. req'[r].pc \notin Writing /\ \A q \in Requests \ {r} : req'[q] = req[q]
  BY FreeType DEF IInv, TypeOK, End, Writing
<1>2. ASSUME NEW q \in Requests, req'[q].clean, req'[q].pc \in Writing
      PROVE  Untouched(q)'
  <2>1. q # r /\ req'[q] = req[q]
    BY <1>1, <1>2
  <2>2. InFlight(q) /\ req[q].clean
    BY <1>2, <2>1 DEF InFlight, Writing
  <2>3. req[q].id # req[r].id /\ req[q].id \in Ids
    BY <2>1, <2>2 DEF IInv, CleanInv, OwnerInv
  <2> QED BY <1>2, <2>1, <2>3, OtherSlot
<1> QED BY <1>2 DEF PatchInv

LEMMA SelectPatch == ASSUME IInv, PatchInv, NEW r \in Requests, PatchSelect(r) PROVE PatchInv'
<1>1. req[r].pc = "patch" /\ InFlight(r) /\ row' = row
  BY DEF PatchSelect, InFlight
<1>2. CASE End(r) BY <1>1, <1>2, EndPatch
<1>3. CASE ~End(r)
  <2> DEFINE cols == DiffColumns(req[r].entity, row[req[r].id])
  <2>1. \A q \in Requests \ {r} : req'[q] = req[q]
    BY <1>3 DEF PatchSelect, IInv, TypeOK
  <2>2. ASSUME NEW q \in Requests, req'[q].clean, req'[q].pc \in Writing
        PROVE  Untouched(q)'
    <3>1. CASE q # r
      BY <1>1, <2>1, <2>2, <3>1, OtherSlot
    <3>2. CASE q = r
      <4>1. req[r].clean
        BY <1>3, <2>2, <3>2 DEF PatchSelect, IInv, TypeOK, ReqType
      <4>2. row[req[r].id] # None /\ req[r].entity = Merge(row[req[r].id], req[r].body)
        BY <1>1, <4>1 DEF PatchInv, Untouched, Writing
      <4>3. req' = [req EXCEPT ![r].pc = "update", ![r].cols = cols]
        BY <1>3, <4>2 DEF PatchSelect
      <4> HIDE DEF cols
      <4>4. /\ req'[r].pc = "update" /\ req'[r].cols = cols /\ req'[r].id = req[r].id
            /\ req'[r].entity = req[r].entity /\ req'[r].body = req[r].body
        BY <4>3 DEF IInv, TypeOK, ReqType
      <4> QED
        BY <1>1, <3>2, <4>2, <4>4 DEF Untouched, cols, Merge, DiffColumns
    <3> QED BY <3>1, <3>2
  <2> QED BY <2>2 DEF PatchInv
<1> QED BY <1>2, <1>3

LEMMA NextPatch == IInv /\ PatchInv /\ [Next]_vars => PatchInv'
<1> SUFFICES ASSUME IInv, PatchInv, [Next]_vars PROVE PatchInv'
  OBVIOUS
<1>1. ASSUME NEW r \in Requests, NEW u \in Users, NEW p \in Ids, NEW n \in Values,
             NEW d \in Values, Create(r, u, p, n, d)
      PROVE  PatchInv'
  <2>1. req' = req /\ p \in fresh /\ \A i \in Ids : i # p => row'[i] = row[i]
    BY <1>1 DEF Create, IInv, TypeOK
  <2>2. ASSUME NEW q \in Requests, req'[q].clean, req'[q].pc \in Writing
        PROVE  Untouched(q)'
    <3>1. InFlight(q) BY <2>1, <2>2 DEF InFlight, Writing
    <3>2. req[q].id \in Ids /\ req[q].id # p
      BY <2>1, <3>1 DEF IInv, OwnerInv, FreshInv
    <3> QED BY <2>1, <2>2, <3>2, OtherSlot
  <2> QED BY <2>2 DEF PatchInv
<1>2. ASSUME NEW r \in Requests, NEW u \in Users, NEW p \in Ids, NEW body \in Bodies,
             PatchRead(r, u, p, body)
      PROVE  PatchInv'
  <2>1. PICK e \in FindOne(p, u) :
          Begin(r, p, [Free EXCEPT !.pc = "patch", !.user = u, !.body = body,
                                   !.entity = Merge(e, body)])
    BY <1>2 DEF PatchRead
  <2> DEFINE m == Merge(e, body)
             c == [Free EXCEPT !.pc = "patch", !.user = u, !.body = body, !.entity = m]
  <2>2. e \in Rows /\ row[p] # None /\ e = row[p]
    BY FindOneReturns DEF IInv, TypeOK
  <2>3. m \in Rows BY <2>2, MergeKeepsOwner
  <2>4. Begin(r, p, c) /\ row' = row BY <1>2, <2>1 DEF PatchRead
  <2>5. m = Merge(row[p], body) BY <2>2
  <2> HIDE DEF m
  <2>6. c \in ReqType /\ c.pc = "patch" /\ c.body = body /\ c.entity = m
    BY <2>3 DEF Free, ReqType
  <2> HIDE DEF c
  <2> QED BY <2>2, <2>4, <2>5, <2>6, BeginPatch
<1>3. ASSUME NEW r \in Requests, NEW u \in Users, NEW p \in Ids, RemoveRead(r, u, p)
      PROVE  PatchInv'
  <2> DEFINE c == [Free EXCEPT !.pc = "remove", !.user = u]
  <2>1. Begin(r, p, c) /\ row' = row BY <1>3 DEF RemoveRead
  <2>2. c \in ReqType /\ c.pc = "remove" BY DEF Free, ReqType, Bodies
  <2> HIDE DEF c
  <2>3. c.pc \notin Writing BY <2>2 DEF Writing
  <2> QED BY <2>1, <2>2, <2>3, BeginPatch
<1>4. ASSUME NEW r \in Requests,
             PatchUpdate(r) \/ PatchInsert(r) \/ RemoveDelete(r) \/ Fail(r)
      PROVE  PatchInv'
  <2>1. InFlight(r) /\ End(r)
    BY <1>4 DEF PatchUpdate, PatchInsert, RemoveDelete, Fail, InFlight
  <2>2. req[r].id \in Ids BY <2>1 DEF IInv, OwnerInv
  <2>3. \A p \in Ids : p # req[r].id => row'[p] = row[p]
    BY <1>4, <2>2 DEF PatchUpdate, PatchInsert, RemoveDelete, Fail, IInv, TypeOK
  <2> QED BY <2>1, <2>3, EndPatch
<1>5. CASE UNCHANGED vars
  BY <1>5 DEF vars, PatchInv, Untouched, Merge, DiffColumns
<1> QED BY <1>1, <1>2, <1>3, <1>4, <1>5, SelectPatch DEF Next

\* One step of CleanPatchIsPartial, for one request.
PartialStep(r) ==
    req[r].clean /\ (PatchUpdate(r) \/ PatchInsert(r)) =>
        \A f \in Fields :
            row'[req[r].id][f] = IF req[r].body[f] # None THEN req[r].body[f]
                                 ELSE row[req[r].id][f]

\* The columns save leaves out are those in which the entity and the row agree:
\* the row it leaves behind is the entity in every field.
LEMMA CleanPatchWrites ==
    ASSUME IInv, PatchInv, NEW r \in Requests
    PROVE  PartialStep(r)
<1> SUFFICES ASSUME req[r].clean, PatchUpdate(r) \/ PatchInsert(r), NEW f \in Fields
             PROVE  row'[req[r].id][f] = IF req[r].body[f] # None THEN req[r].body[f]
                                         ELSE row[req[r].id][f]
  BY DEF PartialStep
<1> DEFINE old == row[req[r].id]
           new == Assign(old, req[r].entity, req[r].cols)
<1>1. req[r].pc \in Writing /\ InFlight(r)
  BY DEF PatchUpdate, PatchInsert, Writing, InFlight
<1>2. /\ old # None /\ req[r].entity = Merge(old, req[r].body) /\ req[r].pc = "update"
      /\ req[r].cols = DiffColumns(req[r].entity, old)
  BY <1>1 DEF PatchInv, Untouched, PatchUpdate, PatchInsert
<1>3. req[r].id \in Ids /\ old \in Rows
  BY <1>1, <1>2 DEF IInv, OwnerInv, TypeOK
<1>4. row'[req[r].id] = new
  BY <1>2, <1>3 DEF PatchUpdate, PatchInsert, IInv, TypeOK
<1>5. f \in DOMAIN old
  BY <1>3 DEF Rows, Fields
<1> HIDE DEF old
<1>6. new[f] = req[r].entity[f]
  BY <1>2, <1>5 DEF Assign, DiffColumns
<1>7. req[r].entity[f] = IF req[r].body[f] # None THEN req[r].body[f] ELSE old[f]
  BY <1>2, <1>5 DEF Merge
<1> QED
  BY <1>4, <1>6, <1>7 DEF old

\* A PATCH that nothing on its project overlapped writes the fields of its body
\* and no other (projects.service.ts update).
THEOREM CleanPatchesArePartial == Spec => CleanPatchIsPartial
<1>1. Init => PatchInv
  BY FreeType DEF Init, PatchInv, Writing
<1>2. Spec => []PatchInv
  BY <1>1, NextPatch, ProjectsInvariant, PTL DEF Spec
<1>3. IInv /\ PatchInv /\ [Next]_vars => [\A r \in Requests : PartialStep(r)]_vars
  BY CleanPatchWrites
<1>4. Spec => [][\A r \in Requests : PartialStep(r)]_vars
  BY <1>2, <1>3, ProjectsInvariant, PTL DEF Spec
<1> QED BY <1>4 DEF CleanPatchIsPartial, PartialStep
=============================================================================
