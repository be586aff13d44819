--------------------------- MODULE SessionsProofs ---------------------------
(***************************************************************************)
(* Theorems about Sessions, for every number of users, request slots and   *)
(* names, every bound on the clock and both kinds of bcrypt digest.        *)
(***************************************************************************)
EXTENDS Sessions, TLAPS

-----------------------------------------------------------------------------
\* What Begin does to the slots keeps their type.
LEMMA BeginType ==
    ASSUME TypeOK, NEW r \in Requests, NEW u \in Users, NEW c \in ReqType,
           Begin(r, u, c)
    PROVE  req' \in [Requests -> ReqType]
  BY DEF TypeOK, Begin, ReqType

\* Begin fills its slot and changes the other slots in their flag only.
LEMMA BeginEffect ==
    ASSUME TypeOK, NEW r \in Requests, NEW u \in Users, NEW c \in ReqType,
           Begin(r, u, c)
    PROVE  /\ req[r].pc = "free"
           /\ req'[r].pc = c.pc /\ req'[r].user = c.user /\ req'[r].token = c.token
           /\ req'[r].entity = c.entity
           /\ \A q \in Requests : q # r =>
                /\ req'[q].pc = req[q].pc /\ req'[q].user = req[q].user
                /\ req'[q].token = req[q].token /\ req'[q].entity = req[q].entity
  BY DEF TypeOK, Begin, InFlight, ReqType

\* A request that starts while another of its user is in flight is not clean,
\* and neither is that other one any more.
LEMMA BeginClean ==
    ASSUME TypeOK, NEW r \in Requests, NEW u \in Users, NEW c \in ReqType,
           Begin(r, u, c), NEW q \in Requests, q # r
    PROVE  /\ req[q].pc # "free" /\ req[q].user = u => ~req'[q].clean /\ ~req'[r].clean
           /\ req'[q].clean => req[q].clean
  BY DEF TypeOK, Begin, InFlight, ReqType, Busy

LEMMA FreeType == Free \in ReqType
  BY DEF Free, ReqType, Status

LEMMA EndType ==
    ASSUME TypeOK, NEW r \in Requests, End(r)
    PROVE  req' \in [Requests -> ReqType]
  BY FreeType DEF TypeOK, End

LEMMA BcryptType ==
    ASSUME NEW t \in Tokens
    PROVE  Bcrypt(t) \in Tokens /\ Bcrypt(t) \in Hashes
  BY ConstantsAssumption DEF Bcrypt, Tokens, Hashes

-----------------------------------------------------------------------------
\* The four ways in which a request changes the row keep its type.
LEMMA UpdateType ==
    ASSUME TypeOK, NEW u \in Users, NEW h \in Hashes, UpdateRefreshToken(u, h)
    PROVE  row' \in [Users -> Rows]
  BY DEF TypeOK, UpdateRefreshToken, Rows

LEMMA AssignType ==
    ASSUME NEW x \in Rows, NEW e \in Rows, NEW cols
    PROVE  Assign(x, e, cols) \in Rows
  BY DEF Assign, Rows

\* A request in flight belongs to a user, and its fields are what the step
\* that is due reads from them.
ReqWellFormed ==
    \A r \in Requests :
        /\ req[r].pc # "free" => req[r].user \in Users
        /\ req[r].pc \in {"refresh", "loginStore", "refreshStore", "reply"} =>
              req[r].token \in signed /\ req[r].token.sub = req[r].user
        /\ req[r].pc \in {"refresh", "patch", "patchStore"} =>
              req[r].entity \in Rows

TInv == TypeOK /\ ReqWellFormed

LEMMA TInvInit == Init => TInv
  <1> SUFFICES ASSUME Init PROVE TInv
    OBVIOUS
  <1>1. PICK name \in Names, registered \in SUBSET Users :
          /\ held = [sub : registered, iat : {0}]
          /\ signed = held
          /\ row = [u \in Users |->
                      [name |-> name,
                       hash |-> IF u \in registered
                                THEN Bcrypt([sub |-> u, iat |-> 0]) ELSE None]]
    BY DEF Init
  <1>2. now \in 0..MaxTime /\ ended \subseteq Users /\ superseded \subseteq Tokens
    BY ConstantsAssumption DEF Init
  <1>3. held \subseteq signed /\ signed \subseteq Tokens
    BY <1>1, ConstantsAssumption DEF Tokens
  <1>4. row \in [Users -> Rows]
    <2> SUFFICES ASSUME NEW u \in Users PROVE row[u] \in Rows
      BY <1>1
    <2>1. [sub |-> u, iat |-> 0] \in Tokens
      BY ConstantsAssumption DEF Tokens
    <2>2. Bcrypt([sub |-> u, iat |-> 0]) \in Hashes
      BY <2>1, BcryptType
    <2> QED
      BY <1>1, <2>2 DEF Rows, Hashes
  <1>5. req \in [Requests -> ReqType]
    BY FreeType DEF Init
  <1>6. ReqWellFormed
    BY DEF Init, Free, ReqWellFormed
  <1> QED
    BY <1>2, <1>3, <1>4, <1>5, <1>6 DEF TInv, TypeOK

LEMMA TInvNext == TInv /\ [Next]_vars => TInv'
  <1> SUFFICES ASSUME TInv, [Next]_vars PROVE TInv'
    OBVIOUS
  <1> USE DEF TInv
  <1>1. CASE UNCHANGED vars
    BY <1>1 DEF vars, TypeOK, ReqWellFormed
  <1>2. CASE Tick
    BY <1>2, ConstantsAssumption DEF Tick, TypeOK, ReqWellFormed
  <1>3. ASSUME NEW r \in Requests, NEW u \in Users, LoginRead(r, u) PROVE TInv'
    <2> DEFINE c == [Free EXCEPT !.pc = "login", !.user = u]
    <2>1. c \in ReqType
      BY FreeType DEF ReqType, Status, Free
    <2>2. Begin(r, u, c)
      BY <1>3 DEF LoginRead
    <2>3. TypeOK'
      BY <1>3, <2>1, <2>2, BeginType DEF LoginRead, TypeOK
    <2>4. ReqWellFormed'
      BY <1>3, <2>2 DEF LoginRead, TypeOK, ReqWellFormed, ReqType, Begin, Free, InFlight
    <2> QED
      BY <2>3, <2>4
  <1>4. ASSUME NEW r \in Requests, NEW u \in Users, LogoutStart(r, u) PROVE TInv'
    <2> DEFINE c == [Free EXCEPT !.pc = "logout", !.user = u]
    <2>1. c \in ReqType
      BY FreeType DEF ReqType, Status, Free
    <2>2. Begin(r, u, c)
      BY <1>4 DEF LogoutStart
    <2>3. TypeOK'
      BY <1>4, <2>1, <2>2, BeginType DEF LogoutStart, TypeOK
    <2>4. ReqWellFormed'
      BY <1>4, <2>2 DEF LogoutStart, TypeOK, ReqWellFormed, ReqType, Begin, Free, InFlight
    <2> QED
      BY <2>3, <2>4
  <1>5. ASSUME NEW r \in Requests, NEW u \in Users, NEW name \in Names,
               PatchRead(r, u, name)
        PROVE  TInv'
    <2> DEFINE e == [row[u] EXCEPT !.name = name]
               c == [Free EXCEPT !.pc = "patch", !.user = u, !.entity = e]
    <2>1. e \in Rows
      BY DEF TypeOK, Rows
    <2>2. c \in ReqType
      BY <2>1, FreeType DEF ReqType, Status, Free
    <2>3. Begin(r, u, c)
      BY <1>5 DEF PatchRead
    <2>4. TypeOK'
      BY <1>5, <2>2, <2>3, BeginType DEF PatchRead, TypeOK
    <2>5. signed' = signed
      BY <1>5 DEF PatchRead
    <2>6. c.pc = "patch" /\ c.user = u /\ c.entity = e
      BY DEF Free
    <2>7. ReqWellFormed'
      <3> HIDE DEF c, e
      <3> QED
        <4>1. /\ req'[r].pc = "patch" /\ req'[r].user = u /\ req'[r].entity \in Rows
              /\ \A q \in Requests : q # r =>
                   /\ req'[q].pc = req[q].pc /\ req'[q].user = req[q].user
                   /\ req'[q].token = req[q].token /\ req'[q].entity = req[q].entity
          BY <2>1, <2>2, <2>3, <2>6, BeginEffect
        <4> QED
          BY <4>1, <2>5 DEF ReqWellFormed
    <2> QED
      BY <2>4, <2>7
  <1>6. ASSUME NEW r \in Requests, NEW t \in Tokens, RefreshRead(r, t) PROVE TInv'
    <2> DEFINE c == [Free EXCEPT !.pc = "refresh", !.user = t.sub,
                                 !.token = t, !.entity = row[t.sub]]
    <2>1. t.sub \in Users /\ t \in signed
      BY <1>6 DEF RefreshRead, Tokens, TypeOK
    <2>2. row[t.sub] \in Rows
      BY <2>1 DEF TypeOK
    <2>3. c \in ReqType
      BY <2>1, <2>2, FreeType DEF ReqType, Status, Free
    <2>4. Begin(r, t.sub, c)
      BY <1>6 DEF RefreshRead
    <2>5. TypeOK'
      BY <1>6, <2>1, <2>3, <2>4, BeginType DEF RefreshRead, TypeOK
    <2>6. ReqWellFormed'
      BY <1>6, <2>1, <2>2, <2>4
      DEF RefreshRead, TypeOK, ReqWellFormed, ReqType, Begin, Free, InFlight
    <2> QED
      BY <2>5, <2>6
  <1>7. ASSUME NEW r \in Requests, LoginSign(r) \/ RefreshSign(r) PROVE TInv'
    <2> DEFINE t == [sub |-> req[r].user, iat |-> now]
    <2>1. t \in Tokens
      BY <1>7 DEF TypeOK, ReqWellFormed, Tokens, LoginSign, RefreshSign
    <2>2. signed' = signed \cup {t} /\ UNCHANGED <<now, row, held, superseded>>
      BY <1>7 DEF LoginSign, RefreshSign
    <2>3. ended' \subseteq Users
      BY <1>7 DEF TypeOK, LoginSign, RefreshSign
    <2>4. req' \in [Requests -> ReqType]
      BY <1>7, <2>1 DEF TypeOK, ReqType, Status, LoginSign, RefreshSign
    <2>5. TypeOK'
      BY <2>1, <2>2, <2>3, <2>4 DEF TypeOK
    <2>6. ReqWellFormed'
      BY <1>7, <2>2 DEF TypeOK, ReqType, ReqWellFormed, LoginSign, RefreshSign
    <2> QED
      BY <2>5, <2>6
  <1>8. ASSUME NEW r \in Requests, RefreshMismatch(r) PROVE TInv'
    <2>1. req' = [req EXCEPT ![r].pc = "clear", ![r].token = None, ![r].entity = None]
      BY <1>8 DEF RefreshMismatch
    <2>2. req' \in [Requests -> ReqType]
      <3>1. \A x \in ReqType :
              [x EXCEPT !.pc = "clear", !.token = None, !.entity = None] \in ReqType
        BY DEF ReqType, Status
      <3> QED
        BY <2>1, <3>1 DEF TypeOK
    <2>3. TypeOK'
      BY <1>8, <2>2 DEF RefreshMismatch, TypeOK
    <2>4. req[r].pc = "refresh" /\ signed' = signed
      BY <1>8 DEF RefreshMismatch
    <2>5. ReqWellFormed'
      BY <2>1, <2>4 DEF TypeOK, ReqWellFormed, ReqType
    <2> QED
      BY <2>3, <2>5
  <1>9. ASSUME NEW r \in Requests, RefreshClear(r) \/ LogoutStore(r) PROVE TInv'
    <2>1. req[r].user \in Users /\ None \in Hashes
      BY <1>9 DEF RefreshClear, LogoutStore, ReqWellFormed, Hashes
    <2>2. row' \in [Users -> Rows]
      BY <1>9, <2>1, UpdateType DEF RefreshClear, LogoutStore
    <2>3. req' \in [Requests -> ReqType]
      BY <1>9, EndType DEF RefreshClear, LogoutStore
    <2>4. TypeOK'
      BY <1>9, <2>1, <2>2, <2>3 DEF RefreshClear, LogoutStore, TypeOK
    <2>5. ReqWellFormed'
      BY <1>9 DEF RefreshClear, LogoutStore, TypeOK, ReqWellFormed, End, Free
    <2> QED
      BY <2>4, <2>5
  <1>10. ASSUME NEW r \in Requests, StoreHash(r) PROVE TInv'
    <2>1. req[r].user \in Users /\ req[r].token \in Tokens
      BY <1>10 DEF StoreHash, ReqWellFormed, TypeOK
    <2>2. row' \in [Users -> Rows]
      BY <1>10, <2>1, UpdateType, BcryptType DEF StoreHash
    <2>3. req' \in [Requests -> ReqType]
      BY <1>10 DEF StoreHash, TypeOK, ReqType, Status
    <2>4. TypeOK'
      BY <1>10, <2>2, <2>3 DEF StoreHash, TypeOK
    <2>5. ReqWellFormed'
      BY <1>10 DEF StoreHash, TypeOK, ReqWellFormed, ReqType
    <2> QED
      BY <2>4, <2>5
  <1>11. ASSUME NEW r \in Requests, Reply(r) \/ Fail(r) PROVE TInv'
    <2>1. req' \in [Requests -> ReqType]
      BY <1>11, EndType DEF Reply, Fail
    <2>2. TypeOK'
      BY <1>11, <2>1 DEF Reply, Fail, TypeOK, ReqWellFormed
    <2>3. ReqWellFormed'
      BY <1>11 DEF Reply, Fail, TypeOK, ReqWellFormed, End, Free
    <2> QED
      BY <2>2, <2>3
  <1>12. ASSUME NEW r \in Requests, PatchDiff(r) PROVE TInv'
    <2> DEFINE cols == DiffColumns(req[r].entity, row[req[r].user])
    <2>1. req[r].user \in Users /\ cols \subseteq {"name", "hash"}
      BY <1>12 DEF PatchDiff, ReqWellFormed, TypeOK, DiffColumns, Rows
    <2>2. CASE cols = {}
      <3>1. req' \in [Requests -> ReqType]
        BY <1>12, <2>2, EndType DEF PatchDiff
      <3> QED
        BY <1>12, <2>2, <3>1 DEF PatchDiff, TypeOK, ReqWellFormed, End, Free
    <2>3. CASE cols # {}
      <3> HIDE DEF cols
      <3>1. req' = [req EXCEPT ![r].pc = "patchStore", ![r].cols = cols]
        BY <1>12, <2>3 DEF PatchDiff, cols
      <3> QED
        BY <1>12, <2>1, <3>1 DEF PatchDiff, TypeOK, ReqWellFormed, ReqType, Status
    <2> QED
      BY <2>2, <2>3
  <1>13. ASSUME NEW r \in Requests, PatchStore(r) PROVE TInv'
    <2>1. req[r].user \in Users /\ req[r].entity \in Rows
      BY <1>13 DEF PatchStore, ReqWellFormed
    <2>2. Assign(row[req[r].user], req[r].entity, req[r].cols) \in Rows
      BY <2>1, AssignType DEF TypeOK
    <2>3. row' \in [Users -> Rows]
      BY <1>13, <2>2 DEF PatchStore, TypeOK
    <2>4. req' \in [Requests -> ReqType]
      BY <1>13, EndType DEF PatchStore
    <2>5. TypeOK'
      BY <1>13, <2>3, <2>4 DEF PatchStore, TypeOK
    <2>6. ReqWellFormed'
      BY <1>13 DEF PatchStore, TypeOK, ReqWellFormed, End, Free
    <2> QED
      BY <2>5, <2>6
  <1> QED
    BY <1>1, <1>2, <1>3, <1>4, <1>5, <1>6, <1>7, <1>8, <1>9, <1>10, <1>11, <1>12, <1>13
    DEF Next

\* Every variable keeps its type, and every request in flight holds what the
\* step that is due reads.
THEOREM TypeCorrect == Spec => []TypeOK
  <1>1. Spec => []TInv
    BY TInvInit, TInvNext, PTL DEF Spec
  <1> QED
    BY <1>1, PTL DEF TInv

-----------------------------------------------------------------------------
(***************************************************************************)
(* The inductive invariant.  Its parts: where every hash comes from, that  *)
(* no two overlapping requests of a user are both clean, and what an ended *)
(* session excludes.                                                       *)
(***************************************************************************)
Prov(S, u, h) == h # None => \E t \in S : t.sub = u /\ h = Bcrypt(t)

ProvInv ==
    /\ \A u \in Users : Prov(signed, u, row[u].hash)
    /\ \A r \in Requests :
         /\ req[r].pc \in {"refresh", "patch", "patchStore"} =>
              Prov(signed, req[r].user, req[r].entity.hash)
         /\ req[r].pc = "refresh" => req[r].entity.hash # None

CleanInv ==
    \A r, q \in Requests :
        r # q /\ InFlight(r) /\ InFlight(q) /\ req[r].user = req[q].user =>
            ~req[r].clean

EndedInv ==
    \A u \in ended :
        /\ row[u].hash = None
        /\ \A r \in Requests : req[r].user = u =>
             /\ req[r].pc \notin {"refresh", "loginStore", "refreshStore"}
             /\ req[r].pc \in {"patch", "patchStore"} => req[r].entity.hash = None

LEMMA ProvInit == Init => ProvInv
  <1> SUFFICES ASSUME Init PROVE ProvInv
    OBVIOUS
  <1>1. PICK name \in Names, registered \in SUBSET Users :
          /\ held = [sub : registered, iat : {0}]
          /\ signed = held
          /\ row = [u \in Users |->
                      [name |-> name,
                       hash |-> IF u \in registered
                                THEN Bcrypt([sub |-> u, iat |-> 0]) ELSE None]]
    BY DEF Init
  <1>2. \A u \in Users : Prov(signed, u, row[u].hash)
    <2> SUFFICES ASSUME NEW u \in Users, row[u].hash # None
                 PROVE  \E t \in signed : t.sub = u /\ row[u].hash = Bcrypt(t)
      BY DEF Prov
    <2>1. u \in registered /\ row[u].hash = Bcrypt([sub |-> u, iat |-> 0])
      BY <1>1
    <2>2. [sub |-> u, iat |-> 0] \in signed
      BY <1>1, <2>1
    <2> QED
      BY <2>1, <2>2
  <1> QED
    BY <1>2 DEF Init, Free, ProvInv

LEMMA SignedGrows == TInv /\ [Next]_vars => signed \subseteq signed'
  BY DEF Next, vars, Tick, LoginRead, LogoutStart, PatchRead, RefreshRead,
         LoginSign, RefreshSign, RefreshMismatch, RefreshClear, StoreHash, Reply,
         LogoutStore, PatchDiff, PatchStore, Fail

LEMMA ProvNext == TInv /\ ProvInv /\ [Next]_vars => ProvInv'
  <1> SUFFICES ASSUME TInv, ProvInv, [Next]_vars PROVE ProvInv'
    OBVIOUS
  <1> USE DEF TInv
  <1>0. \A u, h : Prov(signed, u, h) => Prov(signed', u, h)
    BY SignedGrows DEF Prov
  \* a step that starts nothing and leaves the rows and the other slots alone
  <1>a. ASSUME NEW r \in Requests, row' = row,
               \A q \in Requests : q # r => req'[q] = req[q],
               req'[r].pc \in {"refresh", "patch", "patchStore"} =>
                 /\ req[r].pc \in {"refresh", "patch", "patchStore"}
                 /\ req'[r].user = req[r].user /\ req'[r].entity = req[r].entity
                 /\ req'[r].pc = "refresh" => req[r].pc = "refresh"
        PROVE  ProvInv'
    BY <1>0, <1>a DEF ProvInv
  \* a step that starts a request
  <1>b. ASSUME NEW r \in Requests, NEW u \in Users, NEW c \in ReqType,
               Begin(r, u, c), row' = row,
               c.pc \in {"refresh", "patch", "patchStore"} =>
                 /\ Prov(signed, c.user, c.entity.hash)
                 /\ c.pc = "refresh" => c.entity.hash # None
        PROVE  ProvInv'
    <2>1. \A q \in Requests :
            /\ q # r => /\ req'[q].pc = req[q].pc /\ req'[q].user = req[q].user
                        /\ req'[q].entity = req[q].entity
            /\ q = r => /\ req'[q].pc = c.pc /\ req'[q].user = c.user
                        /\ req'[q].entity = c.entity
      BY <1>b, BeginEffect
    <2>2. \A v \in Users : Prov(signed', v, row'[v].hash)
      BY <1>0, <1>b DEF ProvInv
    <2>3. \A q \in Requests :
            /\ req'[q].pc \in {"refresh", "patch", "patchStore"} =>
                 Prov(signed', req'[q].user, req'[q].entity.hash)
            /\ req'[q].pc = "refresh" => req'[q].entity.hash # None
      BY <1>0, <1>b, <2>1 DEF ProvInv
    <2> QED
      BY <2>2, <2>3 DEF ProvInv
  \* a step that changes the row of the request's user and ends or answers it
  <1>c. ASSUME NEW r \in Requests, NEW h,
               \A u \in Users : row'[u].hash = IF u = req[r].user THEN h ELSE row[u].hash,
               Prov(signed, req[r].user, h),
               \A q \in Requests : q # r => req'[q] = req[q],
               req'[r].pc \notin {"refresh", "patch", "patchStore"}
        PROVE  ProvInv'
    BY <1>0, <1>c DEF ProvInv
  <1>1. CASE UNCHANGED vars
    BY <1>1 DEF vars, ProvInv, Prov
  <1>2. CASE Tick
    BY <1>2 DEF Tick, ProvInv, Prov
  <1>3. ASSUME NEW r \in Requests, NEW u \in Users, LoginRead(r, u) PROVE ProvInv'
    <2> DEFINE c == [Free EXCEPT !.pc = "login", !.user = u]
    <2>1. c \in ReqType /\ c.pc = "login"
      BY FreeType DEF ReqType, Status, Free
    <2>2. Begin(r, u, c) /\ row' = row
      BY <1>3 DEF LoginRead
    <2> HIDE DEF c
    <2> QED
      BY <1>b, <2>1, <2>2
  <1>4. ASSUME NEW r \in Requests, NEW u \in Users, LogoutStart(r, u) PROVE ProvInv'
    <2> DEFINE c == [Free EXCEPT !.pc = "logout", !.user = u]
    <2>1. c \in ReqType /\ c.pc = "logout"
      BY FreeType DEF ReqType, Status, Free
    <2>2. Begin(r, u, c) /\ row' = row
      BY <1>4 DEF LogoutStart
    <2> HIDE DEF c
    <2> QED
      BY <1>b, <2>1, <2>2
  <1>5. ASSUME NEW r \in Requests, NEW u \in Users, NEW name \in Names,
               PatchRead(r, u, name)
        PROVE  ProvInv'
    <2> DEFINE e == [row[u] EXCEPT !.name = name]
               c == [Free EXCEPT !.pc = "patch", !.user = u, !.entity = e]
    <2>1. e \in Rows /\ e.hash = row[u].hash
      BY DEF TypeOK, Rows
    <2>2. c \in ReqType /\ c.pc = "patch" /\ c.user = u /\ c.entity = e
      BY <2>1, FreeType DEF ReqType, Status, Free
    <2>3. Begin(r, u, c) /\ row' = row
      BY <1>5 DEF PatchRead
    <2>4. Prov(signed, u, e.hash)
      BY <2>1 DEF ProvInv
    <2> HIDE DEF c, e
    <2> QED
      BY <1>b, <2>2, <2>3, <2>4
  <1>6. ASSUME NEW r \in Requests, NEW t \in Tokens, RefreshRead(r, t) PROVE ProvInv'
    <2> DEFINE c == [Free EXCEPT !.pc = "refresh", !.user = t.sub,
                                 !.token = t, !.entity = row[t.sub]]
    <2>1. t.sub \in Users /\ row[t.sub] \in Rows /\ row[t.sub].hash # None
      BY <1>6 DEF RefreshRead, Tokens, TypeOK
    <2>2. c \in ReqType /\ c.pc = "refresh" /\ c.user = t.sub /\ c.entity = row[t.sub]
      BY <2>1, FreeType DEF ReqType, Status, Free
    <2>3. Begin(r, t.sub, c) /\ row' = row
      BY <1>6 DEF RefreshRead
    <2>4. Prov(signed, t.sub, row[t.sub].hash)
      BY <2>1 DEF ProvInv
    <2> HIDE DEF c
    <2> QED
      BY <1>b, <2>1, <2>2, <2>3, <2>4
  <1>7. ASSUME NEW r \in Requests, LoginSign(r) \/ RefreshSign(r) PROVE ProvInv'
    BY <1>7, <1>a DEF LoginSign, RefreshSign, TypeOK, ReqType
  <1>8. ASSUME NEW r \in Requests, RefreshMismatch(r) PROVE ProvInv'
    BY <1>8, <1>a DEF RefreshMismatch, TypeOK, ReqType
  <1>9. ASSUME NEW r \in Requests, RefreshClear(r) \/ LogoutStore(r) PROVE ProvInv'
    <2>1. \A u \in Users :
            row'[u].hash = IF u = req[r].user THEN None ELSE row[u].hash
      BY <1>9 DEF RefreshClear, LogoutStore, UpdateRefreshToken, TypeOK, Rows
    <2>2. /\ \A q \in Requests : q # r => req'[q] = req[q]
          /\ req'[r].pc = "free"
      BY <1>9 DEF RefreshClear, LogoutStore, End, Free, TypeOK
    <2>3. Prov(signed, req[r].user, None)
      BY DEF Prov
    <2> QED
      BY <1>c, <2>1, <2>2, <2>3
  <1>10. ASSUME NEW r \in Requests, StoreHash(r) PROVE ProvInv'
    <2>1. req[r].token \in signed /\ req[r].token.sub = req[r].user
      BY <1>10 DEF StoreHash, ReqWellFormed
    <2>2. \A u \in Users :
            row'[u].hash = IF u = req[r].user THEN Bcrypt(req[r].token) ELSE row[u].hash
      BY <1>10 DEF StoreHash, UpdateRefreshToken, TypeOK, Rows
    <2>3. /\ \A q \in Requests : q # r => req'[q] = req[q]
          /\ req'[r].pc = "reply"
      BY <1>10 DEF StoreHash, TypeOK, ReqType
    <2>4. Prov(signed, req[r].user, Bcrypt(req[r].token))
      BY <2>1 DEF Prov
    <2> QED
      BY <1>c, <2>2, <2>3, <2>4
  <1>11. ASSUME NEW r \in Requests, Reply(r) \/ Fail(r) PROVE ProvInv'
    BY <1>11, <1>a DEF Reply, Fail, End, Free, TypeOK
  <1>12. ASSUME NEW r \in Requests, PatchDiff(r) PROVE ProvInv'
    BY <1>12, <1>a DEF PatchDiff, End, Free, TypeOK, ReqType
  <1>13. ASSUME NEW r \in Requests, PatchStore(r) PROVE ProvInv'
    <2> DEFINE u == req[r].user
               h == IF "hash" \in req[r].cols THEN req[r].entity.hash ELSE row[u].hash
    <2>1. u \in Users /\ Prov(signed, u, req[r].entity.hash) /\ Prov(signed, u, row[u].hash)
      BY <1>13 DEF PatchStore, ReqWellFormed, ProvInv
    <2>2. Prov(signed, u, h)
      BY <2>1
    <2>3. \A v \in Users : row'[v].hash = IF v = u THEN h ELSE row[v].hash
      BY <1>13, <2>1 DEF PatchStore, Assign, TypeOK, Rows
    <2>4. /\ \A q \in Requests : q # r => req'[q] = req[q]
          /\ req'[r].pc = "free"
      BY <1>13 DEF PatchStore, End, Free, TypeOK
    <2> HIDE DEF h
    <2> QED
      BY <1>c, <2>2, <2>3, <2>4
  <1> QED
    BY <1>1, <1>2, <1>3, <1>4, <1>5, <1>6, <1>7, <1>8, <1>9, <1>10, <1>11, <1>12, <1>13
    DEF Next

-----------------------------------------------------------------------------
\* The four actions that start a request, seen from the slots: what the new
\* request holds, with the row, the tokens and the histories unchanged.
Starts(r, u, c) ==
    /\ Begin(r, u, c)
    /\ UNCHANGED <<now, row, signed, held, ended, superseded>>
    /\ c.user = u
    /\ c.pc \in {"login", "logout", "refresh", "patch"}
    /\ c.pc = "refresh" => row[u].hash # None /\ c.entity = row[u]
    /\ c.pc = "patch" => c.entity.hash = row[u].hash

Starting == \E r \in Requests, u \in Users, c \in ReqType : Starts(r, u, c)

\* The slot r advances or ends; the other slots keep what they hold.
Continuing ==
    \E r \in Requests :
        \/ LoginSign(r) \/ RefreshSign(r) \/ RefreshMismatch(r) \/ RefreshClear(r)
        \/ StoreHash(r) \/ Reply(r) \/ LogoutStore(r) \/ PatchDiff(r)
        \/ PatchStore(r) \/ Fail(r)

LEMMA NextSplit ==
    ASSUME TInv, [Next]_vars
    PROVE  Starting \/ Continuing \/ Tick \/ UNCHANGED vars
  <1> USE DEF TInv
  <1>1. ASSUME NEW r \in Requests, NEW u \in Users, LoginRead(r, u) PROVE Starting
    <2> DEFINE c == [Free EXCEPT !.pc = "login", !.user = u]
    <2>1. c \in ReqType /\ c.pc = "login" /\ c.user = u
      BY FreeType DEF ReqType, Status, Free
    <2>2. Begin(r, u, c) /\ UNCHANGED <<now, row, signed, held, ended, superseded>>
      BY <1>1 DEF LoginRead
    <2> HIDE DEF c
    <2> QED
      BY <2>1, <2>2 DEF Starting, Starts
  <1>2. ASSUME NEW r \in Requests, NEW u \in Users, LogoutStart(r, u) PROVE Starting
    <2> DEFINE c == [Free EXCEPT !.pc = "logout", !.user = u]
    <2>1. c \in ReqType /\ c.pc = "logout" /\ c.user = u
      BY FreeType DEF ReqType, Status, Free
    <2>2. Begin(r, u, c) /\ UNCHANGED <<now, row, signed, held, ended, superseded>>
      BY <1>2 DEF LogoutStart
    <2> HIDE DEF c
    <2> QED
      BY <2>1, <2>2 DEF Starting, Starts
  <1>3. ASSUME NEW r \in Requests, NEW u \in Users, NEW name \in Names,
               PatchRead(r, u, name)
        PROVE  Starting
    <2> DEFINE e == [row[u] EXCEPT !.name = name]
               c == [Free EXCEPT !.pc = "patch", !.user = u, !.entity = e]
    <2>1. e \in Rows /\ e.hash = row[u].hash
      BY DEF TypeOK, Rows
    <2>2. c \in ReqType /\ c.pc = "patch" /\ c.user = u /\ c.entity.hash = row[u].hash
      BY <2>1, FreeType DEF ReqType, Status, Free
    <2>3. Begin(r, u, c) /\ UNCHANGED <<now, row, signed, held, ended, superseded>>
      BY <1>3 DEF PatchRead
    <2> HIDE DEF c, e
    <2> QED
      BY <2>2, <2>3 DEF Starting, Starts
  <1>4. ASSUME NEW r \in Requests, NEW t \in Tokens, RefreshRead(r, t) PROVE Starting
    <2> DEFINE c == [Free EXCEPT !.pc = "refresh", !.user = t.sub,
                                 !.token = t, !.entity = row[t.sub]]
    <2>1. t.sub \in Users /\ row[t.sub] \in Rows /\ row[t.sub].hash # None
      BY <1>4 DEF RefreshRead, Tokens, TypeOK
    <2>2. c \in ReqType /\ c.pc = "refresh" /\ c.user = t.sub /\ c.entity = row[t.sub]
      BY <2>1, FreeType DEF ReqType, Status, Free
    <2>3. Begin(r, t.sub, c) /\ UNCHANGED <<now, row, signed, held, ended, superseded>>
      BY <1>4 DEF RefreshRead
    <2> HIDE DEF c
    <2> QED
      BY <2>1, <2>2, <2>3 DEF Starting, Starts
  <1> QED
    BY <1>1, <1>2, <1>3, <1>4 DEF Next, Continuing

LEMMA ContinuingFrame ==
    ASSUME TInv, NEW r \in Requests,
           \/ LoginSign(r) \/ RefreshSign(r) \/ RefreshMismatch(r) \/ RefreshClear(r)
           \/ StoreHash(r) \/ Reply(r) \/ LogoutStore(r) \/ PatchDiff(r)
           \/ PatchStore(r) \/ Fail(r)
    PROVE  /\ now' = now
           /\ req[r].pc # "free" /\ req[r].user \in Users
           /\ \A q \in Requests : q # r => req'[q] = req[q]
           /\ req'[r].pc # "free" =>
                req'[r].user = req[r].user /\ req'[r].clean = req[r].clean
  <1>1. now' = now
    BY DEF LoginSign, RefreshSign, RefreshMismatch, RefreshClear, StoreHash, Reply,
           LogoutStore, PatchDiff, PatchStore, Fail
  <1>2. req[r].pc # "free"
    BY DEF LoginSign, RefreshSign, RefreshMismatch, RefreshClear, StoreHash, Reply,
           LogoutStore, PatchDiff, PatchStore, Fail, InFlight
  <1>3. CASE End(r)
    BY <1>1, <1>2, <1>3 DEF End, Free, TInv, TypeOK, ReqWellFormed
  <1>4. CASE LoginSign(r)
    BY <1>1, <1>2, <1>4 DEF LoginSign, TInv, TypeOK, ReqType, ReqWellFormed
  <1>5. CASE RefreshSign(r)
    BY <1>1, <1>2, <1>5 DEF RefreshSign, TInv, TypeOK, ReqType, ReqWellFormed
  <1>6. CASE RefreshMismatch(r)
    BY <1>1, <1>2, <1>6 DEF RefreshMismatch, TInv, TypeOK, ReqType, ReqWellFormed
  <1>7. CASE StoreHash(r)
    BY <1>1, <1>2, <1>7 DEF StoreHash, TInv, TypeOK, ReqType, ReqWellFormed
  <1>8. CASE PatchDiff(r) /\ ~End(r)
    BY <1>1, <1>2, <1>8 DEF PatchDiff, TInv, TypeOK, ReqType, ReqWellFormed
  <1> QED
    BY <1>3, <1>4, <1>5, <1>6, <1>7, <1>8
    DEF RefreshClear, Reply, LogoutStore, PatchStore, Fail

LEMMA CleanNext == TInv /\ CleanInv /\ [Next]_vars => CleanInv'
  <1> SUFFICES ASSUME TInv, CleanInv, [Next]_vars PROVE CleanInv'
    OBVIOUS
  <1>1. CASE Starting
    <2>1. PICK r \in Requests, u \in Users, c \in ReqType : Starts(r, u, c)
      BY <1>1 DEF Starting
    <2>2. /\ req'[r].user = u
          /\ \A q \in Requests : q # r =>
               req'[q].pc = req[q].pc /\ req'[q].user = req[q].user
      BY <2>1, BeginEffect DEF Starts, TInv
    <2>3. \A q \in Requests : q # r =>
            /\ req[q].pc # "free" /\ req[q].user = u => ~req'[q].clean /\ ~req'[r].clean
            /\ req'[q].clean => req[q].clean
      BY <2>1, BeginClean DEF Starts, TInv
    <2> QED
      BY <2>2, <2>3 DEF CleanInv, InFlight
  <1>2. CASE Continuing
    <2>1. PICK r \in Requests :
            \/ LoginSign(r) \/ RefreshSign(r) \/ RefreshMismatch(r) \/ RefreshClear(r)
            \/ StoreHash(r) \/ Reply(r) \/ LogoutStore(r) \/ PatchDiff(r)
            \/ PatchStore(r) \/ Fail(r)
      BY <1>2 DEF Continuing
    <2>2. /\ req[r].pc # "free"
          /\ \A q \in Requests : q # r => req'[q] = req[q]
          /\ req'[r].pc # "free" =>
               req'[r].user = req[r].user /\ req'[r].clean = req[r].clean
      BY <2>1, ContinuingFrame
    <2> QED
      BY <2>2 DEF CleanInv, InFlight
  <1>3. CASE Tick
    BY <1>3 DEF Tick, CleanInv, InFlight
  <1>4. CASE UNCHANGED vars
    BY <1>4 DEF vars, CleanInv, InFlight
  <1> QED
    BY <1>1, <1>2, <1>3, <1>4, NextSplit

LEMMA EndedNext == TInv /\ CleanInv /\ EndedInv /\ [Next]_vars => EndedInv'
  <1> SUFFICES ASSUME TInv, CleanInv, EndedInv, [Next]_vars PROVE EndedInv'
    OBVIOUS
  <1>1. CASE Starting
    <2>1. PICK r \in Requests, u \in Users, c \in ReqType : Starts(r, u, c)
      BY <1>1 DEF Starting
    <2>2. /\ req'[r].pc = c.pc /\ req'[r].user = u /\ req'[r].entity = c.entity
          /\ \A q \in Requests : q # r =>
               /\ req'[q].pc = req[q].pc /\ req'[q].user = req[q].user
               /\ req'[q].entity = req[q].entity
      BY <2>1, BeginEffect DEF Starts, TInv
    <2>3. row' = row /\ ended' = ended
      BY <2>1 DEF Starts
    <2>4. /\ c.pc \in {"login", "logout", "refresh", "patch"}
          /\ c.pc = "refresh" => row[u].hash # None
          /\ c.pc = "patch" => c.entity.hash = row[u].hash
      BY <2>1 DEF Starts
    <2> QED
      BY <2>2, <2>3, <2>4 DEF EndedInv
  <1>2. ASSUME NEW r \in Requests, LoginSign(r) \/ RefreshSign(r) PROVE EndedInv'
    <2>1. /\ row' = row /\ ended' \subseteq ended
          /\ req[r].user \notin ended'
          /\ req'[r].user = req[r].user
      BY <1>2 DEF LoginSign, RefreshSign, EndedInv, TInv, TypeOK, ReqType
    <2>2. \A q \in Requests : q # r => req'[q] = req[q]
      BY <1>2, ContinuingFrame
    <2> QED
      BY <2>1, <2>2 DEF EndedInv
  <1>3. ASSUME NEW r \in Requests, StoreHash(r) PROVE EndedInv'
    <2>1. req[r].user \notin ended /\ ended' = ended
      BY <1>3 DEF StoreHash, EndedInv
    <2>2. \A u \in Users : u # req[r].user => row'[u] = row[u]
      BY <1>3 DEF StoreHash, UpdateRefreshToken, TInv, TypeOK
    <2>3. /\ \A q \in Requests : q # r => req'[q] = req[q]
          /\ req'[r].pc = "reply"
      BY <1>3 DEF StoreHash, TInv, TypeOK, ReqType
    <2> QED
      BY <2>1, <2>2, <2>3 DEF EndedInv, TInv, TypeOK
  <1>4. ASSUME NEW r \in Requests, RefreshClear(r) \/ LogoutStore(r) PROVE EndedInv'
    <2>1. \A u \in Users :
            row'[u].hash = IF u = req[r].user THEN None ELSE row[u].hash
      BY <1>4 DEF RefreshClear, LogoutStore, UpdateRefreshToken, TInv, TypeOK, Rows
    <2>2. /\ \A q \in Requests : q # r => req'[q] = req[q]
          /\ req'[r].pc = "free"
      BY <1>4 DEF RefreshClear, LogoutStore, End, Free, TInv, TypeOK
    <2>3. CASE ended' = ended
      BY <2>1, <2>2, <2>3 DEF EndedInv, TInv, TypeOK
    <2>4. CASE ended' = ended \cup {req[r].user} /\ req[r].clean
      <3>1. req[r].pc # "free" /\ req[r].user \in Users
        BY <1>4, ContinuingFrame
      <3>2. \A q \in Requests : q # r /\ req[q].user = req[r].user => req[q].pc = "free"
        BY <2>4, <3>1 DEF CleanInv, InFlight
      <3> QED
        BY <2>1, <2>2, <2>4, <3>1, <3>2 DEF EndedInv, TInv, TypeOK
    <2> QED
      BY <1>4, <2>3, <2>4 DEF RefreshClear, LogoutStore
  <1>5. ASSUME NEW r \in Requests,
               RefreshMismatch(r) \/ Reply(r) \/ PatchDiff(r) \/ Fail(r)
        PROVE  EndedInv'
    <2>1. row' = row /\ ended' = ended
      BY <1>5 DEF RefreshMismatch, Reply, PatchDiff, Fail
    <2>2. \A q \in Requests : q # r => req'[q] = req[q]
      BY <1>5, ContinuingFrame
    <2>3. \/ req'[r].pc \in {"free", "clear"}
          \/ /\ req[r].pc = "patch" /\ req'[r].pc = "patchStore"
             /\ req'[r].user = req[r].user /\ req'[r].entity = req[r].entity
      BY <1>5 DEF RefreshMismatch, Reply, PatchDiff, Fail, End, Free, TInv, TypeOK, ReqType
    <2> QED
      BY <2>1, <2>2, <2>3 DEF EndedInv
  <1>6. ASSUME NEW r \in Requests, PatchStore(r) PROVE EndedInv'
    <2>1. \A u \in Users :
            \/ row'[u].hash = row[u].hash
            \/ u = req[r].user /\ row'[u].hash = req[r].entity.hash
      BY <1>6 DEF PatchStore, Assign, TInv, TypeOK, Rows
    <2>2. /\ \A q \in Requests : q # r => req'[q] = req[q]
          /\ req'[r].pc = "free" /\ req[r].pc = "patchStore" /\ ended' = ended
      BY <1>6 DEF PatchStore, End, Free, TInv, TypeOK
    <2> QED
      BY <2>1, <2>2 DEF EndedInv, TInv, TypeOK
  <1>7. CASE Tick \/ UNCHANGED vars
    BY <1>7 DEF Tick, vars, EndedInv
  <1> QED
    BY <1>1, <1>2, <1>3, <1>4, <1>5, <1>6, <1>7, NextSplit DEF Continuing

-----------------------------------------------------------------------------
IInv == TInv /\ ProvInv /\ CleanInv /\ EndedInv

LEMMA IInvInit == Init => IInv
  <1>1. Init => CleanInv /\ EndedInv
    BY DEF Init, CleanInv, EndedInv, InFlight, Free
  <1> QED
    BY <1>1, TInvInit, ProvInit DEF IInv

LEMMA Inductive == Spec => []IInv
  <1>1. IInv /\ [Next]_vars => IInv'
    BY TInvNext, ProvNext, CleanNext, EndedNext DEF IInv
  <1> QED
    BY IInvInit, <1>1, PTL DEF Spec

\* The hash in a user's row is always the digest of a refresh token signed for
\* that very user (users.service.ts, auth.service.ts).
THEOREM Provenance == Spec => []HashProvenance
  <1>1. IInv => HashProvenance
    BY DEF IInv, ProvInv, Prov, HashProvenance
  <1> QED
    BY <1>1, Inductive, PTL

\* A logout that nothing of the same user overlapped ends the session until the
\* next login, whatever is called and however it interleaves (auth.service.ts
\* logout).
THEOREM LogoutEnds == Spec => []LogoutHolds
  <1>1. IInv => LogoutHolds
    BY DEF IInv, EndedInv, LogoutHolds
  <1> QED
    BY <1>1, Inductive, PTL

\* When the digest does not reach the claim iat, which is what bcryptjs does to
\* these tokens, the mismatch branch of refreshTokens is dead code.
THEOREM ReuseUndetected ==
    ASSUME ~BcryptSeesIat
    PROVE  Spec => []NeverMismatch
  <1>1. Init => NeverMismatch
    BY DEF Init, Free, NeverMismatch
  <1>2. IInv /\ NeverMismatch /\ [Next]_vars => NeverMismatch'
    <2> SUFFICES ASSUME IInv, NeverMismatch, [Next]_vars PROVE NeverMismatch'
      OBVIOUS
    <2> USE DEF IInv
    <2>1. CASE Starting
      <3>1. PICK r \in Requests, u \in Users, c \in ReqType : Starts(r, u, c)
        BY <2>1 DEF Starting
      <3>2. req'[r].pc = c.pc /\ \A q \in Requests : q # r => req'[q].pc = req[q].pc
        BY <3>1, BeginEffect DEF Starts, TInv
      <3> QED
        BY <3>1, <3>2 DEF Starts, NeverMismatch
    <2>2. ASSUME NEW r \in Requests, RefreshMismatch(r) PROVE FALSE
      <3>1. /\ req[r].token \in signed /\ req[r].token.sub = req[r].user
            /\ req[r].pc = "refresh" /\ ~Compare(req[r].token, req[r].entity.hash)
        BY <2>2 DEF RefreshMismatch, TInv, ReqWellFormed
      <3>2. PICK t \in signed : t.sub = req[r].user /\ req[r].entity.hash = Bcrypt(t)
        BY <3>1 DEF ProvInv, Prov
      <3> QED
        BY <3>1, <3>2 DEF Compare, Bcrypt
    <2>3. CASE Continuing
      <3>1. PICK r \in Requests :
              \/ LoginSign(r) \/ RefreshSign(r) \/ RefreshMismatch(r) \/ RefreshClear(r)
              \/ StoreHash(r) \/ Reply(r) \/ LogoutStore(r) \/ PatchDiff(r)
              \/ PatchStore(r) \/ Fail(r)
        BY <2>3 DEF Continuing
      <3>2. \A q \in Requests : q # r => req'[q] = req[q]
        BY <3>1, ContinuingFrame
      <3>3. req'[r].pc # "clear"
        BY <2>2, <3>1 DEF LoginSign, RefreshSign, RefreshClear, StoreHash, Reply,
             LogoutStore, PatchDiff, PatchStore, Fail, End, Free, TInv, TypeOK, ReqType
      <3> QED
        BY <3>2, <3>3 DEF NeverMismatch
    <2>4. CASE Tick \/ UNCHANGED vars
      BY <2>4 DEF Tick, vars, NeverMismatch
    <2> QED
      BY <2>1, <2>3, <2>4, NextSplit
  <1> QED
    BY <1>1, <1>2, Inductive, PTL DEF Spec

\* Rotation retires nothing: when the digest does not reach the claim iat, every
\* refresh token ever signed for a user is accepted for as long as there is a
\* hash in the row, whatever logins and refreshes came since (auth.service.ts
\* refreshTokens; SupersededNeverAccepted is violated by any of them).
THEOREM OldTokensStayGood ==
    ASSUME ~BcryptSeesIat
    PROVE  Spec => [](\A t \in signed :
                         row[t.sub].hash # None => Compare(t, row[t.sub].hash))
  <1>1. IInv => \A t \in signed :
                   row[t.sub].hash # None => Compare(t, row[t.sub].hash)
    <2> SUFFICES ASSUME IInv, NEW t \in signed, row[t.sub].hash # None
                 PROVE  Compare(t, row[t.sub].hash)
      OBVIOUS
    <2>1. t.sub \in Users
      BY DEF IInv, TInv, TypeOK, Tokens
    <2>2. PICK s \in signed : s.sub = t.sub /\ row[t.sub].hash = Bcrypt(s)
      BY <2>1 DEF IInv, ProvInv, Prov
    <2> QED
      BY <2>2 DEF Compare, Bcrypt
  <1> QED
    BY <1>1, Inductive, PTL

-----------------------------------------------------------------------------
\* A request that nothing of its user overlapped finds the row as it left it:
\* with the hash of the pair it hands out, or with the hash its entity was read
\* with.
AloneInv ==
    \A r \in Requests : req[r].clean =>
        /\ req[r].pc = "reply" => Compare(req[r].token, row[req[r].user].hash)
        /\ req[r].pc \in {"patch", "patchStore"} =>
             req[r].entity.hash = row[req[r].user].hash

\* A step of one request leaves the rows of the other users alone.
LEMMA OtherRows ==
    ASSUME TInv, NEW r \in Requests,
           \/ LoginSign(r) \/ RefreshSign(r) \/ RefreshMismatch(r) \/ RefreshClear(r)
           \/ StoreHash(r) \/ Reply(r) \/ LogoutStore(r) \/ PatchDiff(r)
           \/ PatchStore(r) \/ Fail(r),
           NEW u \in Users, u # req[r].user
    PROVE  row'[u] = row[u]
  <1>1. CASE row' = row
    BY <1>1
  <1>2. CASE RefreshClear(r) \/ LogoutStore(r) \/ StoreHash(r)
    BY <1>2 DEF RefreshClear, LogoutStore, StoreHash, UpdateRefreshToken, TInv, TypeOK
  <1>3. CASE PatchStore(r)
    BY <1>3 DEF PatchStore, TInv, TypeOK
  <1> QED
    BY <1>1, <1>2, <1>3
    DEF LoginSign, RefreshSign, RefreshMismatch, Reply, PatchDiff, Fail

LEMMA AloneNext == TInv /\ CleanInv /\ AloneInv /\ [Next]_vars => AloneInv'
  <1> SUFFICES ASSUME TInv, CleanInv, AloneInv, [Next]_vars PROVE AloneInv'
    OBVIOUS
  <1>1. CASE Starting
    <2>1. PICK r \in Requests, u \in Users, c \in ReqType : Starts(r, u, c)
      BY <1>1 DEF Starting
    <2>2. /\ req'[r].pc = c.pc /\ req'[r].user = u /\ req'[r].entity = c.entity
          /\ \A q \in Requests : q # r =>
               /\ req'[q].pc = req[q].pc /\ req'[q].user = req[q].user
               /\ req'[q].token = req[q].token /\ req'[q].entity = req[q].entity
      BY <2>1, BeginEffect DEF Starts, TInv
    <2>3. \A q \in Requests : q # r => (req'[q].clean => req[q].clean)
      BY <2>1, BeginClean DEF Starts, TInv
    <2>4. /\ row' = row
          /\ c.pc # "reply" /\ c.pc # "patchStore"
          /\ c.pc = "patch" => c.entity.hash = row[u].hash
      BY <2>1 DEF Starts
    <2> QED
      BY <2>2, <2>3, <2>4 DEF AloneInv, Compare
  <1>2. CASE Continuing
    <2>1. PICK r \in Requests :
            \/ LoginSign(r) \/ RefreshSign(r) \/ RefreshMismatch(r) \/ RefreshClear(r)
            \/ StoreHash(r) \/ Reply(r) \/ LogoutStore(r) \/ PatchDiff(r)
            \/ PatchStore(r) \/ Fail(r)
      BY <1>2 DEF Continuing
    <2>2. /\ req[r].pc # "free" /\ req[r].user \in Users
          /\ \A q \in Requests : q # r => req'[q] = req[q]
      BY <2>1, ContinuingFrame
    <2>3. ASSUME NEW q \in Requests, q # r, req[q].clean, req[q].pc # "free"
          PROVE  row'[req[q].user] = row[req[q].user]
      <3>1. req[q].user # req[r].user
        BY <2>2, <2>3 DEF CleanInv, InFlight
      <3>2. req[q].user \in Users
        BY <2>3 DEF TInv, ReqWellFormed
      <3> QED
        BY <2>1, <3>1, <3>2, OtherRows
    <2>4. ASSUME req'[r].clean, req'[r].pc = "reply"
          PROVE  Compare(req'[r].token, row'[req'[r].user].hash)
      <3>1. StoreHash(r)
        BY <2>1, <2>4 DEF LoginSign, RefreshSign, RefreshMismatch, RefreshClear, Reply,
           LogoutStore, PatchDiff, PatchStore, Fail, End, Free, TInv, TypeOK, ReqType
      <3>2. req'[r].user = req[r].user /\ req'[r].token = req[r].token
        BY <3>1 DEF StoreHash, TInv, TypeOK, ReqType
      <3>3. row'[req[r].user].hash = Bcrypt(req[r].token)
        BY <2>2, <3>1 DEF StoreHash, UpdateRefreshToken, TInv, TypeOK, Rows
      <3> QED
        BY <3>2, <3>3 DEF Compare
    <2>5. ASSUME req'[r].clean, req'[r].pc \in {"patch", "patchStore"}
          PROVE  req'[r].entity.hash = row'[req'[r].user].hash
      <3>1. PatchDiff(r)
        BY <2>1, <2>5 DEF LoginSign, RefreshSign, RefreshMismatch, RefreshClear, StoreHash,
           Reply, LogoutStore, PatchStore, Fail, End, Free, TInv, TypeOK, ReqType
      <3>2. req[r].pc = "patch" /\ row' = row
        BY <3>1 DEF PatchDiff
      <3>3. req'[r].entity = req[r].entity /\ req'[r].user = req[r].user
            /\ req'[r].clean = req[r].clean
        <4> DEFINE cols == DiffColumns(req[r].entity, row[req[r].user])
        <4>1. ~End(r)
          BY <2>5 DEF End, Free, TInv, TypeOK
        <4>2. req' = [req EXCEPT ![r].pc = "patchStore", ![r].cols = cols]
          BY <3>1, <4>1 DEF PatchDiff
        <4> HIDE DEF cols
        <4> QED
          BY <4>2 DEF TInv, TypeOK, ReqType
      <3> QED
        BY <2>5, <3>2, <3>3 DEF AloneInv
    <2>6. ASSUME NEW q \in Requests, q # r, req'[q].clean
          PROVE  /\ req'[q].pc = "reply" => Compare(req'[q].token, row'[req'[q].user].hash)
                 /\ req'[q].pc \in {"patch", "patchStore"} =>
                      req'[q].entity.hash = row'[req'[q].user].hash
      <3>1. req'[q] = req[q]
        BY <2>2, <2>6
      <3>2. req[q].pc # "free" => row'[req[q].user] = row[req[q].user]
        BY <2>3, <2>6, <3>1
      <3>3. /\ req[q].pc = "reply" => Compare(req[q].token, row[req[q].user].hash)
            /\ req[q].pc \in {"patch", "patchStore"} =>
                 req[q].entity.hash = row[req[q].user].hash
        BY <2>6, <3>1 DEF AloneInv
      <3>4. CASE req[q].pc = "free"
        BY <3>1, <3>4
      <3>5. CASE req[q].pc # "free"
        BY <3>1, <3>2, <3>3, <3>5
      <3> QED
        BY <3>4, <3>5
    <2> QED
      BY <2>4, <2>5, <2>6 DEF AloneInv, Compare
  <1>3. CASE Tick \/ UNCHANGED vars
    BY <1>3 DEF Tick, vars, AloneInv, Compare
  <1> QED
    BY <1>1, <1>2, <1>3, NextSplit

LEMMA Alone == Spec => []AloneInv
  <1>1. Init => AloneInv
    BY DEF Init, Free, AloneInv
  <1>2. IInv /\ AloneInv /\ [Next]_vars => AloneInv'
    BY AloneNext DEF IInv
  <1> QED
    BY <1>1, <1>2, Inductive, PTL DEF Spec

\* The pair a client is about to receive opens the session in the row, unless a
\* request of the user that overlapped the login or the refresh left the row
\* without one: what overlapping logins and refreshes store matches each
\* other's tokens (auth.service.ts issueTokenPair).
THEOREM PairsAreUsable ==
    ASSUME ~BcryptSeesIat
    PROVE  Spec => []PairUsable
  <1>1. IInv /\ AloneInv => PairUsable
    <2> SUFFICES ASSUME IInv, AloneInv, NEW r \in Requests, req[r].pc = "reply"
                 PROVE  \/ Compare(req[r].token, row[req[r].user].hash)
                        \/ ~req[r].clean /\ row[req[r].user].hash = None
      BY DEF PairUsable
    <2>1. CASE req[r].clean
      BY <2>1 DEF AloneInv
    <2>2. CASE row[req[r].user].hash # None
      <3>1. /\ req[r].user \in Users /\ req[r].token \in signed
            /\ req[r].token.sub = req[r].user
        BY DEF IInv, TInv, ReqWellFormed
      <3>2. PICK s \in signed : s.sub = req[r].user /\ row[req[r].user].hash = Bcrypt(s)
        BY <2>2, <3>1 DEF IInv, ProvInv, Prov
      <3> QED
        BY <3>1, <3>2 DEF Compare, Bcrypt
    <2>3. req[r].clean \in BOOLEAN
      BY DEF IInv, TInv, TypeOK, ReqType
    <2> QED
      BY <2>1, <2>2, <2>3
  <1> QED
    BY <1>1, Alone, Inductive, PTL

\* A PATCH /users/me that nothing of the user overlapped leaves the session
\* alone, although it saves the whole entity (users.service.ts update).
THEOREM CleanPatchesKeepSessions == Spec => CleanPatchKeepsSession
  <1> DEFINE Keeps ==
        \A r \in Requests : PatchStore(r) /\ req[r].clean =>
          row'[req[r].user].hash = row[req[r].user].hash
  <1>1. IInv /\ AloneInv => Keeps
    <2> SUFFICES ASSUME IInv, AloneInv, NEW r \in Requests, PatchStore(r), req[r].clean
                 PROVE  row'[req[r].user].hash = row[req[r].user].hash
      OBVIOUS
    <2>1. req[r].user \in Users /\ req[r].entity.hash = row[req[r].user].hash
      BY DEF PatchStore, IInv, TInv, ReqWellFormed, AloneInv
    <2>2. row[req[r].user] \in Rows
      BY <2>1 DEF IInv, TInv, TypeOK
    <2>3. row'[req[r].user] = Assign(row[req[r].user], req[r].entity, req[r].cols)
      BY <2>1 DEF PatchStore, IInv, TInv, TypeOK
    <2> QED
      BY <2>1, <2>2, <2>3 DEF Assign, Rows
  <1>2. IInv /\ AloneInv /\ [Next]_vars => [Keeps]_vars
    BY <1>1
  <1>3. Spec => [][Keeps]_vars
    BY <1>2, Inductive, Alone, PTL DEF Spec
  <1> QED
    BY <1>3 DEF CleanPatchKeepsSession
=============================================================================
