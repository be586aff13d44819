------------------------------ MODULE Sessions ------------------------------
(***************************************************************************)
(* Refresh-token sessions: POST /auth/login, /auth/refresh, /auth/logout   *)
(* and PATCH /users/me, all of which write the one users row of a user.    *)
(*                                                                         *)
(* The API is a Node.js process (or several behind a balancer): a request  *)
(* runs without interruption between two awaits and any other request may  *)
(* run at an await.  Each action below is the code between two awaits of a *)
(* database call, or of a bcrypt call during which a database call of      *)
(* another request may take effect.  A request's local variables live in   *)
(* req[r].                                                                 *)
(***************************************************************************)
EXTENDS Naturals, TypeOrm

CONSTANTS
    Requests,       \* request slots: how many requests may be in flight
    Users,          \* ids of the registered users
    ActiveUsers,    \* those whose is_active is TRUE (nothing in src writes it)
    Names,          \* values of the name column
    MaxTime,        \* the clock, in seconds, stops here (bound)
    AccessTtl,      \* JWT_ACCESS_EXPIRES_IN
    RefreshTtl,     \* JWT_REFRESH_EXPIRES_IN
    BcryptBytes,    \* bytes of its input bcrypt digests (72 for bcryptjs)
    TokenDiffersAt, \* bytes of a refresh token before two of one user differ
    None            \* SQL NULL, and "not set" in a request

ASSUME ConstantsAssumption ==
    /\ MaxTime \in Nat /\ AccessTtl \in Nat /\ RefreshTtl \in Nat
    /\ BcryptBytes \in Nat /\ TokenDiffersAt \in Nat
    /\ ActiveUsers \subseteq Users
    /\ None \notin Users /\ None \notin [sub : Users, iat : Nat]

VARIABLES
    now,        \* clock, in seconds: the resolution of the iat claim
    row,        \* row[u]: the columns of users that these requests write
    signed,     \* refresh tokens ever signed
    held,       \* refresh tokens some client has received (with the access
                \* token signed in the same second)
    req,        \* req[r]: the request in slot r
    ended,      \* history: users whose session a logout ended, with no other
                \* request of theirs in flight, and who did not log in since
    superseded  \* history: refresh tokens older than a login or a refresh that
                \* ran with no other request of that user in flight

vars == <<now, row, signed, held, req, ended, superseded>>

-----------------------------------------------------------------------------
\* A refresh token is a JWT with the claims sub and iat (and exp, a function
\* of iat); there is no jti, so it is determined by the two.
Tokens == [sub : Users, iat : 0..MaxTime]

\* bcrypt.hash(token): the digest of the first BcryptBytes bytes.  When they
\* end before the claim iat begins, only sub is in the digest.  (The mutant: a
\* digest of the whole token.)
BcryptSeesIat == TokenDiffersAt < BcryptBytes
Bcrypt_Whole(t) == [sub |-> t.sub, iat |-> t.iat]
Bcrypt(t) == [sub |-> t.sub, iat |-> IF BcryptSeesIat THEN t.iat ELSE 0]

\* bcrypt.compare(token, hash)
Compare(t, hash) == Bcrypt(t) = hash

Hashes == [sub : Users, iat : 0..MaxTime] \cup {None}
Rows == [name : Names, hash : Hashes]

Free == [pc |-> "free", user |-> None, token |-> None, entity |-> None,
         cols |-> {}, clean |-> TRUE]

InFlight(q) == req[q].pc # "free"

\* Another request of user u is in flight.
Busy(u) == \E q \in Requests : InFlight(q) /\ req[q].user = u

\* Slot r starts a request of user u with the local state c.  Both it and the
\* requests of u it overlaps are marked as not clean.
Begin(r, u, c) ==
    /\ ~InFlight(r)
    /\ req' = [q \in Requests |->
                 IF q = r THEN [c EXCEPT !.clean = ~Busy(u)]
                 ELSE IF InFlight(q) /\ req[q].user = u
                      THEN [req[q] EXCEPT !.clean = FALSE]
                      ELSE req[q]]

End(r) == req' = [req EXCEPT ![r] = Free]

\* JwtAuthGuard: the request carries an access token that has not expired.
HasAccessToken(u) == \E t \in held : t.sub = u /\ now < t.iat + AccessTtl

\* usersService.updateRefreshToken(u, hash).  The mutants: an update without
\* its WHERE clause, one that skips null as TypeORM skips undefined, and one
\* that only replaces the hash of an open session.
UpdateRefreshToken_AllRows(u, hash) ==
    row' = [v \in Users |-> [row[v] EXCEPT !.hash = hash]]
UpdateRefreshToken_SkipNull(u, hash) ==
    row' = IF hash = None THEN row ELSE [row EXCEPT ![u].hash = hash]
UpdateRefreshToken_OpenOnly(u, hash) ==
    row' = [row EXCEPT ![u].hash = IF @ = None THEN None ELSE hash]
UpdateRefreshToken(u, hash) == row' = [row EXCEPT ![u].hash = hash]

Init ==
    /\ now = 0
    /\ req = [r \in Requests |-> Free]
    /\ \E name \in Names, registered \in SUBSET Users :
         /\ held = [sub : registered, iat : {0}]
         /\ signed = held
         /\ row = [u \in Users |->
                     [name |-> name,
                      hash |-> IF u \in registered
                               THEN Bcrypt([sub |-> u, iat |-> 0]) ELSE None]]
    /\ ended = {}
    /\ superseded = {}
-----------------------------------------------------------------------------
\* LocalStrategy -> validateUser: the row is read and the password compared.
\* A wrong password or an inactive user is a 401 that changes nothing.
LoginRead(r, u) ==
    /\ u \in ActiveUsers
    /\ Begin(r, u, [Free EXCEPT !.pc = "login", !.user = u])
    /\ UNCHANGED <<now, row, signed, held, ended, superseded>>

\* login -> issueTokenPair: sign the pair, start hashing the refresh token.
LoginSign(r) ==
    LET t == [sub |-> req[r].user, iat |-> now] IN
    /\ req[r].pc = "login"
    /\ signed' = signed \cup {t}
    /\ ended' = ended \ {req[r].user}
    /\ req' = [req EXCEPT ![r].pc = "loginStore", ![r].token = t]
    /\ UNCHANGED <<now, row, held, superseded>>

\* JwtRefreshGuard checks signature and expiry; refreshTokens then reads the
\* row.  No hash in it: 401, nothing changes.
RefreshRead(r, t) ==
    /\ t \in held /\ now < t.iat + RefreshTtl
    /\ row[t.sub].hash # None
    /\ Begin(r, t.sub, [Free EXCEPT !.pc = "refresh", !.user = t.sub,
                                    !.token = t, !.entity = row[t.sub]])
    /\ UNCHANGED <<now, row, signed, held, ended, superseded>>

\* bcrypt.compare has answered TRUE: issueTokenPair signs at once.
RefreshSign(r) ==
    LET t == [sub |-> req[r].user, iat |-> now] IN
    /\ req[r].pc = "refresh"
    /\ Compare(req[r].token, req[r].entity.hash)
    /\ signed' = signed \cup {t}
    /\ req' = [req EXCEPT ![r].pc = "refreshStore", ![r].token = t,
                          ![r].entity = None]
    /\ UNCHANGED <<now, row, held, ended, superseded>>

\* bcrypt.compare has answered FALSE: the session is ended, then a 401.
RefreshMismatch(r) ==
    /\ req[r].pc = "refresh"
    /\ ~Compare(req[r].token, req[r].entity.hash)
    /\ req' = [req EXCEPT ![r].pc = "clear", ![r].token = None, ![r].entity = None]
    /\ UNCHANGED <<now, row, signed, held, ended, superseded>>

RefreshClear(r) ==
    /\ req[r].pc = "clear"
    /\ UpdateRefreshToken(req[r].user, None)
    /\ End(r)
    /\ UNCHANGED <<now, signed, held, ended, superseded>>

\* issueTokenPair -> updateRefreshToken, for a login and for a refresh.
StoreHash(r) ==
    LET q == req[r] IN
    /\ q.pc \in {"loginStore", "refreshStore"}
    /\ UpdateRefreshToken(q.user, Bcrypt(q.token))
    /\ superseded' = IF q.clean
                     THEN superseded \cup {t \in signed : t.sub = q.user /\ t # q.token}
                     ELSE superseded
    /\ req' = [req EXCEPT ![r].pc = "reply"]
    /\ UNCHANGED <<now, signed, held, ended>>

\* The client of a login or a refresh receives its pair.
Reply(r) ==
    /\ req[r].pc = "reply"
    /\ held' = held \cup {req[r].token}
    /\ End(r)
    /\ UNCHANGED <<now, row, signed, ended, superseded>>

LogoutStart(r, u) ==
    /\ HasAccessToken(u)
    /\ Begin(r, u, [Free EXCEPT !.pc = "logout", !.user = u])
    /\ UNCHANGED <<now, row, signed, held, ended, superseded>>

LogoutStore(r) ==
    /\ req[r].pc = "logout"
    /\ UpdateRefreshToken(req[r].user, None)
    /\ ended' = IF req[r].clean THEN ended \cup {req[r].user} ELSE ended
    /\ End(r)
    /\ UNCHANGED <<now, signed, held, superseded>>

\* UsersService.update: findById, then Object.assign(user, { name }).  The
\* mutant saves an entity built from the DTO.
PatchRead_FromDto(r, u, name) ==
    /\ HasAccessToken(u)
    /\ Begin(r, u, [Free EXCEPT !.pc = "patch", !.user = u,
                                !.entity = [name |-> name, hash |-> None]])
    /\ UNCHANGED <<now, row, signed, held, ended, superseded>>
PatchRead(r, u, name) ==
    /\ HasAccessToken(u)
    /\ Begin(r, u, [Free EXCEPT !.pc = "patch", !.user = u,
                                !.entity = [row[u] EXCEPT !.name = name]])
    /\ UNCHANGED <<now, row, signed, held, ended, superseded>>

\* repository.save: the SELECT, and the comparison that chooses the columns.
PatchDiff(r) ==
    LET cols == DiffColumns(req[r].entity, row[req[r].user]) IN
    /\ req[r].pc = "patch"
    /\ IF cols = {} THEN End(r)
       ELSE req' = [req EXCEPT ![r].pc = "patchStore", ![r].cols = cols]
    /\ UNCHANGED <<now, row, signed, held, ended, superseded>>

\* repository.save: the UPDATE.
PatchStore(r) ==
    LET q == req[r] IN
    /\ q.pc = "patchStore"
    /\ row' = [row EXCEPT ![q.user] = Assign(@, q.entity, q.cols)]
    /\ End(r)
    /\ UNCHANGED <<now, signed, held, ended, superseded>>

\* The database call fails, the process stops, or the answer is lost: what was
\* stored stays stored, the client learns nothing.
Fail(r) ==
    /\ InFlight(r)
    /\ End(r)
    /\ UNCHANGED <<now, row, signed, held, ended, superseded>>

Tick ==
    /\ now < MaxTime
    /\ now' = now + 1
    /\ UNCHANGED <<row, signed, held, req, ended, superseded>>

Next ==
    \/ Tick
    \/ \E r \in Requests :
         \/ \E u \in Users : LoginRead(r, u) \/ LogoutStart(r, u)
         \/ \E u \in Users, name \in Names : PatchRead(r, u, name)
         \/ \E t \in Tokens : RefreshRead(r, t)
         \/ LoginSign(r)
         \/ RefreshSign(r) \/ RefreshMismatch(r) \/ RefreshClear(r)
         \/ StoreHash(r) \/ Reply(r)
         \/ LogoutStore(r)
         \/ PatchDiff(r) \/ PatchStore(r)
         \/ Fail(r)

Spec == Init /\ [][Next]_vars
-----------------------------------------------------------------------------
Status == {"free", "login", "loginStore", "refresh", "refreshStore", "clear",
           "reply", "logout", "patch", "patchStore"}
ReqType == [pc : Status, user : Users \cup {None}, token : Tokens \cup {None},
            entity : Rows \cup {None}, cols : SUBSET {"name", "hash"},
            clean : BOOLEAN]

TypeOK ==
    /\ now \in 0..MaxTime
    /\ row \in [Users -> Rows]
    /\ held \subseteq signed /\ signed \subseteq Tokens
    /\ req \in [Requests -> ReqType]
    /\ ended \subseteq Users
    /\ superseded \subseteq Tokens

\* The stored hash of a user is the digest of a refresh token that was signed
\* for that same user: no interleaving of the four endpoints, the entity save
\* of PATCH /users/me included, puts a session of another user, or a session
\* nobody opened, into the row.
HashProvenance ==
    \A u \in Users : row[u].hash # None =>
        \E t \in signed : t.sub = u /\ row[u].hash = Bcrypt(t)

\* A logout that no other request of the user overlapped ends the session for
\* good: whatever requests come next, no hash is in the row until the user
\* logs in again (auth.service.ts logout).
LogoutHolds == \A u \in ended : row[u].hash = None

\* A token that a login or a refresh superseded, while nothing else of that
\* user was in flight, is never accepted again, whatever overlaps later: "Old
\* refresh token becomes invalid after this" (auth.service.ts refreshTokens).
\* It is what Compare answers that counts, so it depends on what bcrypt sees.
SupersededNeverAccepted ==
    \A t \in superseded : ~Compare(t, row[t.sub].hash)

\* The pair a login or a refresh is about to hand out opens the session in the
\* row: the hash is stored before the tokens are returned (auth.service.ts
\* issueTokenPair).  Logins and refreshes that overlap do not cost each other
\* their pairs; only a request of the user that overlaps and leaves the row
\* without a hash, a logout or a PATCH that read it so, can make one useless.
PairUsable ==
    \A r \in Requests : req[r].pc = "reply" =>
        \/ Compare(req[r].token, row[req[r].user].hash)
        \/ ~req[r].clean /\ row[req[r].user].hash = None

\* Saving the whole entity in PATCH /users/me leaves the session alone when no
\* other request of the user overlaps it (users.service.ts update).
CleanPatchKeepsSession ==
    [][\A r \in Requests : PatchStore(r) /\ req[r].clean =>
         row'[req[r].user].hash = row[req[r].user].hash]_vars

\* With the digest bcryptjs computes, no signed token of a user mismatches the
\* hash in the row: the reuse branch of refreshTokens is never entered.
NeverMismatch == \A r \in Requests : req[r].pc # "clear"

\* What auth.service.ts:84 says of logout, overlapping requests included: with
\* the hash cleared no outstanding refresh token is worth anything, so no
\* refresh stores a hash in a row that holds none.
RefreshNeverReopens ==
    [][\A r \in Requests : req[r].pc = "refreshStore" /\ StoreHash(r) =>
         row[req[r].user].hash # None]_vars
=============================================================================
