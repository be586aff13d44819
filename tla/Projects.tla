------------------------------ MODULE Projects ------------------------------
(***************************************************************************)
(* ProjectsService: POST, PATCH and DELETE of /projects, the operations    *)
(* that write the projects table.                                          *)
(*                                                                         *)
(* PATCH and DELETE read the row, check that it is there and whose it is   *)
(* (findOne), and hand the entity to TypeORM, which runs statements of its *)
(* own; any other request runs between them.  The two GETs change nothing. *)
(* A users row is never deleted by this program, so ON DELETE CASCADE and  *)
(* the foreign key never act.                                              *)
(***************************************************************************)
EXTENDS TypeOrm

CONSTANTS
    Requests,  \* request slots: how many requests may be in flight
    Users,     \* authenticated users
    Ids,       \* uuids that projects may get (bound on creations)
    Values,    \* values of a column
    None       \* no row; a field the request does not set

ASSUME ProjectsAssumption ==
    /\ None \notin Users \cup Ids \cup Values
    /\ None \notin [name : Values, description : Values, owner : Users]

VARIABLES
    row,      \* row[p]: the committed row of project p, or None
    creator,  \* creator[p]: who created project p, None while p is not generated;
              \* nothing writes it again
    req,      \* req[r]: the request in slot r
    deleted   \* history: projects deleted by a DELETE that no PATCH overlapped

vars == <<row, creator, req, deleted>>
-----------------------------------------------------------------------------
Fields == {"name", "description"}  \* status is written like description
Rows == [name : Values, description : Values, owner : Users]
Bodies == [Fields -> Values \cup {None}]

Free == [pc |-> "free", user |-> None, id |-> None, body |-> [f \in Fields |-> None],
         entity |-> None, cols |-> {}, clean |-> TRUE]

\* The uuids not yet generated.
fresh == {p \in Ids : creator[p] = None}

InFlight(r) == req[r].pc # "free"
End(r) == req' = [req EXCEPT ![r] = Free]

\* Slot r starts a request on project p.  Both it and the requests on p it
\* overlaps are marked as not clean.
Begin(r, p, c) ==
    LET Others == {q \in Requests : InFlight(q) /\ req[q].id = p} IN
    /\ ~InFlight(r)
    /\ req' = [q \in Requests |->
                 IF q = r THEN [c EXCEPT !.id = p, !.clean = Others = {}]
                 ELSE IF q \in Others THEN [req[q] EXCEPT !.clean = FALSE] ELSE req[q]]

Init ==
    /\ row = [p \in Ids |-> None]
    /\ creator = [p \in Ids |-> None]
    /\ req = [r \in Requests |-> Free]
    /\ deleted = {}

\* findOne(id, ownerId): what it returns, when it does not throw 404 or 403.
\* The mutants: a read without the owner's check, and one that takes a missing
\* row for a new project.
FindOne_AnyOwner(p, u) == IF row[p] = None THEN {} ELSE {row[p]}
FindOne_Upsert(p, u) ==
    IF row[p] = None
    THEN [name : Values, description : Values, owner : {u}]
    ELSE {row[p]} \cap [name : Values, description : Values, owner : {u}]
FindOne(p, u) == IF row[p] # None /\ row[p].owner = u THEN {row[p]} ELSE {}

\* Object.assign(project, dto): the fields the body sets.  The mutant
\* fills the fields it does not set with a default.
Merge_Defaults(entity, body) ==
    [c \in DOMAIN entity |->
       IF c \in Fields
       THEN IF body[c] # None THEN body[c] ELSE CHOOSE v \in Values : TRUE
       ELSE entity[c]]
Merge(entity, body) ==
    [c \in DOMAIN entity |->
       IF c \in Fields /\ body[c] # None THEN body[c] ELSE entity[c]]

\* POST /projects: an INSERT under a new uuid, the caller as owner.
Create(r, u, p, n, d) ==
    /\ ~InFlight(r)
    /\ p \in fresh
    /\ creator' = [creator EXCEPT ![p] = u]
    /\ row' = [row EXCEPT ![p] = [name |-> n, description |-> d, owner |-> u]]
    /\ UNCHANGED <<req, deleted>>

\* PATCH /projects/:id: findOne, then Object.assign.
PatchRead(r, u, p, body) ==
    /\ \E entity \in FindOne(p, u) :
         Begin(r, p, [Free EXCEPT !.pc = "patch", !.user = u, !.body = body,
                                  !.entity = Merge(entity, body)])
    /\ UNCHANGED <<row, creator, deleted>>

\* save: the SELECT that chooses between UPDATE, INSERT and nothing to do.
PatchSelect(r) ==
    LET q == req[r] IN
    /\ q.pc = "patch"
    /\ IF row[q.id] = None
       THEN req' = [req EXCEPT ![r].pc = "insert"]
       ELSE LET cols == DiffColumns(q.entity, row[q.id]) IN
            IF cols = {} THEN End(r)
            ELSE req' = [req EXCEPT ![r].pc = "update", ![r].cols = cols]
    /\ UNCHANGED <<row, creator, deleted>>

\* save: the UPDATE; it touches no row when the project is gone by now.
PatchUpdate(r) ==
    LET q == req[r] IN
    /\ q.pc = "update"
    /\ row' = IF row[q.id] = None THEN row
              ELSE [row EXCEPT ![q.id] = Assign(@, q.entity, q.cols)]
    /\ End(r)
    /\ UNCHANGED <<creator, deleted>>

\* save: the INSERT, under the entity's own id; another INSERT of that id may
\* have come first (23505, a 409).
PatchInsert(r) ==
    LET q == req[r] IN
    /\ q.pc = "insert"
    /\ row' = IF row[q.id] = None THEN [row EXCEPT ![q.id] = q.entity] ELSE row
    /\ End(r)
    /\ UNCHANGED <<creator, deleted>>

\* DELETE /projects/:id: findOne.
RemoveRead(r, u, p) ==
    /\ FindOne(p, u) # {}
    /\ Begin(r, p, [Free EXCEPT !.pc = "remove", !.user = u])
    /\ UNCHANGED <<row, creator, deleted>>

\* remove: the DELETE, which is content with a row that is already gone.
RemoveDelete(r) ==
    LET q == req[r] IN
    /\ q.pc = "remove"
    /\ row' = [row EXCEPT ![q.id] = None]
    /\ deleted' = IF q.clean THEN deleted \cup {q.id} ELSE deleted
    /\ End(r)
    /\ UNCHANGED creator

\* A statement fails, or the process stops: the request ends where it is.
Fail(r) ==
    /\ InFlight(r)
    /\ End(r)
    /\ UNCHANGED <<row, creator, deleted>>

Next ==
    \E r \in Requests :
      \/ \E u \in Users, p \in Ids :
           \/ \E n, d \in Values : Create(r, u, p, n, d)
           \/ \E body \in Bodies : PatchRead(r, u, p, body)
           \/ RemoveRead(r, u, p)
      \/ PatchSelect(r) \/ PatchUpdate(r) \/ PatchInsert(r)
      \/ RemoveDelete(r)
      \/ Fail(r)

Spec == Init /\ [][Next]_vars
-----------------------------------------------------------------------------
ReqType ==
    [pc : {"free", "patch", "update", "insert", "remove"}, user : Users \cup {None},
     id : Ids \cup {None}, body : Bodies, entity : Rows \cup {None},
     cols : SUBSET (Fields \cup {"owner"}), clean : BOOLEAN]

TypeOK ==
    /\ row \in [Ids -> Rows \cup {None}]
    /\ creator \in [Ids -> Users \cup {None}]
    /\ req \in [Requests -> ReqType]
    /\ deleted \subseteq Ids

\* The owner is checked once, in findOne, some statements before the write and
\* on a row that may be gone by then: still, once a project is created, each
\* change of its row, an update, a deletion or the INSERT of a PATCH that finds
\* it deleted, is made by a request of the user who created it, and leaves it
\* his (projects.service.ts findOne, update, remove).
OwnerWrites ==
    [][\A p \in Ids : creator[p] # None /\ row'[p] # row[p] =>
         /\ \E r \in Requests : /\ req[r].id = p /\ req[r].user = creator[p]
                              /\ InFlight(r) /\ ~InFlight(r)'
         /\ row'[p] # None => row'[p].owner = creator[p]]_vars

\* A DELETE that no other request on the project overlapped is permanent: no
\* later PATCH, whatever it overlaps, brings the project back.
DeleteHolds == \A p \in deleted : row[p] = None

\* A PATCH that no other request on the project overlapped applies the fields
\* of its body and no other field.
CleanPatchIsPartial ==
    [][\A r \in Requests : req[r].clean /\ (PatchUpdate(r) \/ PatchInsert(r)) =>
         \A f \in Fields :
             row'[req[r].id][f] = IF req[r].body[f] # None THEN req[r].body[f]
                                  ELSE row[req[r].id][f]]_vars
=============================================================================
