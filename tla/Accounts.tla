------------------------------ MODULE Accounts ------------------------------
(***************************************************************************)
(* The rows of users and of places_of_interest: AuthService, UsersService,  *)
(* PlacesOfInterestService and the seed.                                   *)
(*                                                                         *)
(* Every statement commits alone (database.service.ts:28-42).  One that      *)
(* names a user waits for a DELETE of that user, which takes his places with  *)
(* it: so each is one step.  A password is right or wrong, a provider's token  *)
(* names an e-mail address; the calls that only read are left out, and so is  *)
(* POST /auth/refresh: it has no guard, looks up the user undefined and       *)
(* answers 404 to every token.                                             *)
(***************************************************************************)
EXTENDS Integers, SequencesExt, FiniteSetsExt

CONSTANTS
  Account,      \* the ids a row of users may get
  NoAccount,    \* no id: the caller of a register or a login
  Place,        \* the UUIDs a place may get
  NoPlace,      \* no UUID yet
  Email,        \* e-mail addresses
  AdminEmail,   \* ADMIN_EMAIL, which the seed inserts
  Request,      \* one slot for each request served at the same time
  MaxEditions,  \* how often places may be created and updated
  MaxFailures   \* how many statements may fail

ASSUME AccountsAssumption == NoAccount \notin Account /\ NoPlace \notin Place
ASSUME EmailAssumption    == AdminEmail \in Email
ASSUME LimitsAssumption   == MaxEditions \in Nat /\ MaxFailures \in Nat

VARIABLES
  users,      \* the rows of users, by id
  places,     \* the rows of places_of_interest, by id
  spent,      \* the ids drawn so far: none is drawn twice
  holders,    \* the accounts whose tokens a client has been answered
  editions,   \* what each create and update wrote to a place, in their order
  entangled,  \* the places an update has left half done, or two have overlapped in
  req,        \* what each request slot is doing
  failures    \* how many statements have failed

vars == <<users, places, spent, holders, editions, entangled, req, failures>>

Role == {"USER", "ADMIN"}
Edition == Nat \ {0}

\* The columns that one statement of an update writes: name, description and icon,
\* or the location.
Part == {"scalars", "location"}

UserRow  == [email : Email, role : Role, password : BOOLEAN, token : BOOLEAN]
PlaceRow == [owner : Account, scalars : Edition, location : Edition]

\* An edition: its caller, and the parts that its dto has.
EditionRow == [author : Account, parts : SUBSET Part]

EmailPc == {"register:insert", "login:find", "oauth:find", "oauth:insert"}
TokenPc == {"token:store"}
PlacePc == {"place:insert", "place:created", "place:update", "place:scalars",
            "place:location", "place:second", "place:updated",
            "place:remove", "place:delete"}
CallPc  == {"guard:create", "guard:update", "guard:remove", "guard:user"}
Pc      == EmailPc \cup TokenPc \cup PlacePc \cup CallPc \cup {"user:delete"}

Slot == [pc : Pc \cup {"idle", "done"},
         user : Account \cup {NoAccount},    \* the caller, or who logs in
         email : Email,
         place : Place \cup {NoPlace},
         target : Account \cup {NoAccount},  \* whom an admin removes
         parts : SUBSET Part,                \* what the dto of an update has
         edition : Nat,
         status : {0, 200, 401, 403, 404, 409, 500}]

Idle == [pc |-> "idle", user |-> NoAccount, email |-> AdminEmail,
         place |-> NoPlace, target |-> NoAccount, parts |-> {},
         edition |-> 0, status |-> 0]

At(r, pc)         == req[r].pc = pc
Become(r, slot)   == req' = [req EXCEPT ![r] = slot]
Goto(r, pc)       == req' = [req EXCEPT ![r].pc = pc]
Answer(r, status) == Become(r, [Idle EXCEPT !.pc = "done", !.status = status])

\* r is between the two statements of an update of p.
Halfway(r, p) == At(r, "place:second") /\ req[r].place = p

\* Bounds: a call begins only if the ids and editions it may need will be left.
InFlight(pcs) == Cardinality({r \in Request : req[r].pc \in pcs})

SpareAccount ==
  Cardinality(Account \ spent)
    > InFlight({"register:insert", "oauth:find", "oauth:insert"})

SparePlace ==
  Cardinality(Place \ spent) > InFlight({"guard:create", "place:insert"})

SpareEdition ==
  MaxEditions - Len(editions)
    > InFlight({"guard:create", "place:insert", "guard:update", "place:update",
                "place:scalars", "place:location"})

\* UNIQUE (email)
Taken(email) == \E a \in DOMAIN users : users[a].email = email

\* INSERT INTO users: a is the id that the row gets.
InsertUser(a, row) ==
  /\ a \in Account \ spent
  /\ spent' = spent \cup {a}
  /\ users' = [x \in DOMAIN users \cup {a} |-> IF x = a THEN row ELSE users[x]]

\* DELETE FROM users WHERE id = a, ON DELETE CASCADE
DeleteUser(a) ==
  /\ users' = [x \in DOMAIN users \ {a} |-> users[x]]
  /\ places' = [p \in {q \in DOMAIN places : places[q].owner # a} |-> places[p]]

-----------------------------------------------------------------------------
(* register, login, and the logins through Google, Apple and Facebook        *)

BeginEmail(r) ==
  /\ At(r, "idle")
  /\ \E pc \in {"register:insert", "login:find", "oauth:find"}, email \in Email :
       /\ pc \in {"register:insert", "oauth:find"} => SpareAccount
       /\ Become(r, [Idle EXCEPT !.pc = pc, !.email = email])
  /\ UNCHANGED <<users, places, spent, holders, editions, entangled, failures>>

\* UsersService.create: 23505 becomes a conflict.
RegisterInsert(r) ==
  /\ At(r, "register:insert")
  /\ \/ /\ Taken(req[r].email)
        /\ Answer(r, 409)
        /\ UNCHANGED <<users, spent>>
     \/ /\ ~Taken(req[r].email)
        /\ \E a \in Account :
             /\ InsertUser(a, [email |-> req[r].email, role |-> "USER",
                               password |-> TRUE, token |-> FALSE])
             /\ Become(r, [req[r] EXCEPT !.pc = "token:store", !.user = a])
  /\ UNCHANGED <<places, holders, editions, entangled, failures>>

\* validateUser: nobody, no password of his own, or a wrong one.
LoginFind(r) ==
  /\ At(r, "login:find")
  /\ \/ Answer(r, 401)
     \/ \E a \in DOMAIN users :
          /\ users[a].email = req[r].email
          /\ users[a].password
          /\ Become(r, [req[r] EXCEPT !.pc = "token:store", !.user = a])
  /\ UNCHANGED <<users, places, spent, holders, editions, entangled, failures>>

\* findOrCreateOAuth takes the user with the address, whatever he signed up with.
OAuthFind(r) ==
  /\ At(r, "oauth:find")
  /\ \/ ~Taken(req[r].email) /\ Goto(r, "oauth:insert")
     \/ \E a \in DOMAIN users :
          /\ users[a].email = req[r].email
          /\ Become(r, [req[r] EXCEPT !.pc = "token:store", !.user = a])
  /\ UNCHANGED <<users, places, spent, holders, editions, entangled, failures>>

\* A mutant: UNIQUE (email) is not in the schema.
OAuthInsertUnconstrained(r) ==
  /\ At(r, "oauth:insert")
  /\ \E a \in Account :
       /\ InsertUser(a, [email |-> req[r].email, role |-> "USER",
                         password |-> FALSE, token |-> FALSE])
       /\ Become(r, [req[r] EXCEPT !.pc = "token:store", !.user = a])
  /\ UNCHANGED <<places, holders, editions, entangled, failures>>

\* ... and here 23505 is not translated.
OAuthInsert(r) ==
  /\ At(r, "oauth:insert")
  /\ \/ /\ Taken(req[r].email)
        /\ Answer(r, 500)
        /\ UNCHANGED <<users, spent>>
     \/ /\ ~Taken(req[r].email)
        /\ \E a \in Account :
             /\ InsertUser(a, [email |-> req[r].email, role |-> "USER",
                               password |-> FALSE, token |-> FALSE])
             /\ Become(r, [req[r] EXCEPT !.pc = "token:store", !.user = a])
  /\ UNCHANGED <<places, holders, editions, entangled, failures>>

\* A mutant: updateRefreshToken is not awaited, and its failure is not heard.
TokenStoreUnawaited(r) ==
  LET a == req[r].user
  IN  /\ At(r, "token:store")
      /\ users' \in {users, [x \in DOMAIN users |->
           [users[x] EXCEPT !.token = @ \/ x = a]]}
      /\ holders' = holders \cup {a}
      /\ Answer(r, 200)
      /\ UNCHANGED <<places, spent, editions, entangled, failures>>

\* generateTokens, whose UPDATE may find the user removed: the tokens are
\* answered all the same.
TokenStore(r) ==
  LET a == req[r].user
  IN  /\ At(r, "token:store")
      /\ users' = [x \in DOMAIN users |->
           [users[x] EXCEPT !.token = @ \/ x = a]]
      /\ holders' = holders \cup {a}
      /\ Answer(r, 200)
      /\ UNCHANGED <<places, spent, editions, entangled, failures>>

-----------------------------------------------------------------------------
(* places of interest *)

\* A caller with a token that has not expired; the ids are ones clients have.
BeginCall(r) ==
  /\ At(r, "idle")
  /\ \E pc \in CallPc, u \in holders :
       \E p \in IF pc \in {"guard:update", "guard:remove"} THEN spent \cap Place
                ELSE {NoPlace},
          a \in IF pc = "guard:user" THEN spent \cap Account ELSE {NoAccount} :
         /\ pc = "guard:create" => SparePlace
         /\ pc \in {"guard:create", "guard:update"} => SpareEdition
         /\ Become(r, [Idle EXCEPT !.pc = pc, !.user = u, !.place = p,
                                   !.target = a])
  /\ UNCHANGED <<users, places, spent, holders, editions, entangled, failures>>

\* JwtStrategy.validate reads the user again, so that a removed one is refused;
\* RolesGuard compares the role it has read.
Guard(r) ==
  LET u == req[r].user
  IN  /\ \/ req[r].pc \in CallPc /\ u \notin DOMAIN users /\ Answer(r, 404)
         \/ /\ u \in DOMAIN users
            /\ \/ At(r, "guard:create") /\ Goto(r, "place:insert")
               \/ At(r, "guard:update") /\ Goto(r, "place:update")
               \/ At(r, "guard:remove") /\ Goto(r, "place:remove")
               \/ /\ At(r, "guard:user")
                  /\ \/ users[u].role = "ADMIN" /\ Goto(r, "user:delete")
                     \/ users[u].role # "ADMIN" /\ Answer(r, 403)
      /\ UNCHANGED <<users, places, spent, holders, editions, entangled, failures>>

\* create: REFERENCES users refuses the row of a user removed since the guard.
PlaceInsert(r) ==
  LET u == req[r].user
      n == Len(editions) + 1
  IN  /\ At(r, "place:insert")
      /\ \/ /\ u \notin DOMAIN users
            /\ Answer(r, 500)
            /\ UNCHANGED <<places, spent, editions>>
         \/ /\ u \in DOMAIN users
            /\ editions' = Append(editions, [author |-> u, parts |-> Part])
            /\ \E p \in Place \ spent :
                 /\ spent' = spent \cup {p}
                 /\ places' = [x \in DOMAIN places \cup {p} |->
                      IF x = p THEN [owner |-> u, scalars |-> n, location |-> n]
                      ELSE places[x]]
                 /\ Become(r, [req[r] EXCEPT !.pc = "place:created", !.place = p])
      /\ UNCHANGED <<users, holders, entangled, failures>>

\* findByIdRaw, at the end of create and of update
PlaceReread(r) ==
  /\ req[r].pc \in {"place:created", "place:updated"}
  /\ Answer(r, IF req[r].place \in DOMAIN places THEN 200 ELSE 404)
  /\ UNCHANGED <<users, places, spent, holders, editions, entangled, failures>>

\* The first statement of applyUpdate, if the dto has anything for it.
FirstStatement(parts) ==
  IF "scalars" \in parts THEN "place:scalars"
  ELSE IF "location" \in parts THEN "place:location"
  ELSE "place:updated"

\* A mutant: findByIdRaw in the place of findById.
PlaceFindAnybodys(r) ==
  /\ \/ /\ req[r].pc \in {"place:update", "place:remove"}
        /\ req[r].place \notin DOMAIN places
        /\ Answer(r, 404)
     \/ /\ At(r, "place:update")
        /\ req[r].place \in DOMAIN places
        /\ \E parts \in SUBSET Part :
             Become(r, [req[r] EXCEPT !.pc = FirstStatement(parts),
                                      !.parts = parts])
     \/ /\ At(r, "place:remove")
        /\ req[r].place \in DOMAIN places
        /\ Goto(r, "place:delete")
  /\ UNCHANGED <<users, places, spent, holders, editions, entangled, failures>>

\* findById, and what the dto of an update has: any of its fields may be left out,
\* and of lat and lng one without the other is ignored.
PlaceFind(r) ==
  LET p == req[r].place
      own == p \in DOMAIN places /\ places[p].owner = req[r].user
  IN  /\ \/ /\ req[r].pc \in {"place:update", "place:remove"}
            /\ ~own
            /\ Answer(r, IF p \in DOMAIN places THEN 403 ELSE 404)
         \/ /\ At(r, "place:update")
            /\ own
            /\ \E parts \in SUBSET Part :
                 Become(r, [req[r] EXCEPT !.pc = FirstStatement(parts),
                                          !.parts = parts])
         \/ At(r, "place:remove") /\ own /\ Goto(r, "place:delete")
      /\ UNCHANGED <<users, places, spent, holders, editions, entangled, failures>>

\* UPDATE places_of_interest SET part = the values of edition n WHERE id = p
WritePart(p, part, n) ==
  places' = [x \in DOMAIN places |-> IF x # p THEN places[x]
               ELSE IF part = "scalars" THEN [places[x] EXCEPT !.scalars = n]
               ELSE [places[x] EXCEPT !.location = n]]

\* A mutant: "else if" before the second statement.
PlaceScalarsOnly(r) ==
  /\ At(r, "place:scalars")
  /\ editions' = Append(editions, [author |-> req[r].user, parts |-> req[r].parts])
  /\ WritePart(req[r].place, "scalars", Len(editions) + 1)
  /\ Goto(r, "place:updated")
  /\ UNCHANGED <<users, spent, holders, entangled, failures>>

\* applyScalarUpdate.  If the location follows, and another update is half
\* through the same place, the place may end with a part of each.
PlaceScalars(r) ==
  LET p == req[r].place
      n == Len(editions) + 1
  IN  /\ At(r, "place:scalars")
      /\ editions' = Append(editions, [author |-> req[r].user,
                                       parts |-> req[r].parts])
      /\ WritePart(p, "scalars", n)
      /\ \/ /\ "location" \in req[r].parts
            /\ Become(r, [req[r] EXCEPT !.pc = "place:second", !.edition = n])
            /\ entangled' = IF \E s \in Request : Halfway(s, p)
                            THEN entangled \cup {p} ELSE entangled
         \/ /\ "location" \notin req[r].parts
            /\ Goto(r, "place:updated")
            /\ UNCHANGED entangled
      /\ UNCHANGED <<users, spent, holders, failures>>

\* The UPDATE of the location, the only statement of its dto or the second.
PlaceLocation(r) ==
  LET p == req[r].place
      n == Len(editions) + 1
  IN  /\ \/ /\ At(r, "place:location")
            /\ editions' = Append(editions, [author |-> req[r].user,
                                             parts |-> req[r].parts])
            /\ WritePart(p, "location", n)
         \/ /\ Halfway(r, p)
            /\ WritePart(p, "location", req[r].edition)
            /\ UNCHANGED editions
      /\ Goto(r, "place:updated")
      /\ UNCHANGED <<users, spent, holders, entangled, failures>>

PlaceDelete(r) ==
  /\ At(r, "place:delete")
  /\ places' = [p \in DOMAIN places \ {req[r].place} |-> places[p]]
  /\ Answer(r, 200)
  /\ UNCHANGED <<users, spent, holders, editions, entangled, failures>>

-----------------------------------------------------------------------------
(* DELETE /users/:id, the seed, and what may go wrong *)

\* remove answers 404 when no row was deleted.
UserDelete(r) ==
  LET a == req[r].target
  IN  /\ At(r, "user:delete")
      /\ DeleteUser(a)
      /\ Answer(r, IF a \in DOMAIN users THEN 200 ELSE 404)
      /\ UNCHANGED <<spent, holders, editions, entangled, failures>>

\* seed.ts, run by hand: ON CONFLICT (email) DO NOTHING.
Seed ==
  /\ ~Taken(AdminEmail)
  /\ SpareAccount
  /\ \E a \in Account :
       InsertUser(a, [email |-> AdminEmail, role |-> "ADMIN",
                      password |-> TRUE, token |-> FALSE])
  /\ UNCHANGED <<places, holders, editions, entangled, req, failures>>

\* A statement is refused or its connection is lost: the call answers 500, and
\* the statements before it stay.
StatementFails(r) ==
  /\ failures < MaxFailures
  /\ req[r].pc \in Pc
  /\ failures' = failures + 1
  /\ Answer(r, 500)
  /\ entangled' = IF At(r, "place:second")
                  THEN entangled \cup {req[r].place} ELSE entangled
  /\ UNCHANGED <<users, places, spent, holders, editions>>

\* The response has left.
Release(r) ==
  /\ At(r, "done")
  /\ Become(r, Idle)
  /\ UNCHANGED <<users, places, spent, holders, editions, entangled, failures>>

-----------------------------------------------------------------------------
Init ==
  /\ users = [a \in {} |-> {}]
  /\ places = [p \in {} |-> {}]
  /\ spent = {}
  /\ holders = {}
  /\ editions = <<>>
  /\ entangled = {}
  /\ req = [r \in Request |-> Idle]
  /\ failures = 0

LogIn(r) == \/ BeginEmail(r) \/ RegisterInsert(r) \/ LoginFind(r)
            \/ OAuthFind(r) \/ OAuthInsert(r) \/ TokenStore(r)

Call(r) == \/ BeginCall(r) \/ Guard(r) \/ UserDelete(r)
           \/ PlaceInsert(r) \/ PlaceFind(r) \/ PlaceScalars(r)
           \/ PlaceLocation(r) \/ PlaceDelete(r) \/ PlaceReread(r)

Next == \/ Seed
        \/ \E r \in Request : \/ LogIn(r) \/ Call(r)
                              \/ StatementFails(r) \/ Release(r)

Spec == Init /\ [][Next]_vars

-----------------------------------------------------------------------------
(* Properties *)

\* Every variable has its type, whatever logins and registrations overlap an
\* address has one account (UNIQUE), and no place outlives its owner, whatever
\* was being inserted when he was removed (REFERENCES, ON DELETE CASCADE).
TypeOK ==
  /\ DOMAIN users \subseteq Account /\ DOMAIN places \subseteq Place
  /\ \A a \in DOMAIN users : users[a] \in UserRow
  /\ \A p \in DOMAIN places : places[p] \in PlaceRow
  /\ \A a, b \in DOMAIN users : users[a].email = users[b].email => a = b
  /\ \A p \in DOMAIN places : places[p].owner \in DOMAIN users
  /\ spent \subseteq Account \cup Place
  /\ holders \subseteq Account
  /\ editions \in Seq(EditionRow)
  /\ entangled \subseteq Place
  /\ req \in [Request -> Slot]
  /\ failures \in 0..MaxFailures

\* Who has been answered tokens has his refresh token in his row, for as long as
\* he has one.
HoldersAreStored == \A a \in holders \cap DOMAIN users : users[a].token

\* The owner is checked in one statement and the place written in another: what
\* the place holds comes from its owner all the same.
WrittenByOwner ==
  \A p \in DOMAIN places :
    /\ editions[places[p].scalars].author = places[p].owner
    /\ editions[places[p].location].author = places[p].owner

\* ... and it goes only at its owner's request, or with his account.
OwnersRemove ==
  [][\A p \in DOMAIN places \ DOMAIN places' :
       \/ places[p].owner \notin DOMAIN users'
       \/ \E r \in Request :
            /\ At(r, "place:delete") /\ req'[r].pc = "done"
            /\ req[r].place = p /\ req[r].user = places[p].owner]_vars

\* One column of the place comes from an edition that has the other column too,
\* and that the other column does not show.
Torn(p) ==
  LET s == places[p].scalars
      l == places[p].location
  IN  \/ s < l /\ "scalars" \in editions[l].parts
      \/ l < s /\ "location" \in editions[s].parts

\* A dto may have the scalar columns, the location or both, and the columns of a
\* place may well come from two dtos.  But what came in one dto is there together,
\* until a later one replaces part of it; only updates with both that overlap, or
\* one that fails half way, undo this.
PlacesAreWhole ==
  \A p \in DOMAIN places \ entangled :
    (\A r \in Request : ~Halfway(r, p)) => ~Torn(p)

\* The comment of findOrCreateOAuth: it finds the user of an OAuth account or
\* creates him.  Of two first logins at once the second INSERT is refused.
FirstLoginServed ==
  [][\A r \in Request :
       At(r, "oauth:insert") /\ failures' = failures => req'[r].status # 500]_vars
=============================================================================
