--------------------------- MODULE AccountsProofs ---------------------------
(***************************************************************************)
(* What holds of Accounts for any number of ids, addresses and requests.    *)
(***************************************************************************)
EXTENDS Accounts, SequenceTheorems, TLAPS

\* Past findById a request is its place's owner's, if the place is still there.
IsOwner(q) ==
  /\ q.place \in spent \cap Place /\ q.user \in Account
  /\ q.place \in DOMAIN places => places[q.place].owner = q.user

\* A request that is about to store a token has an account to store it for; one
\* past findById is the owner's, begins with the location when its dto has no
\* scalar columns, and half through an update it writes its own edition.
SlotOK(q) ==
  /\ q \in Slot
  /\ q.pc = "token:store" => q.user \in spent \cap Account
  /\ q.pc \in {"place:scalars", "place:location", "place:second", "place:delete"}
       => IsOwner(q)
  /\ q.pc = "place:location" => "scalars" \notin q.parts
  /\ q.pc = "place:second" => /\ q.edition \in DOMAIN editions
                              /\ editions[q.edition].author = q.user

\* Rows and tokens only have ids that have been drawn.
IdsDrawn == DOMAIN users \cup DOMAIN places \cup holders \subseteq spent

\* What a place holds comes from editions there have been.
EditionsKnown ==
  \A p \in DOMAIN places : /\ places[p].scalars \in DOMAIN editions
                           /\ places[p].location \in DOMAIN editions

\* The scalar columns of p come from edition e, or from a later one that leaves the
\* location alone.
Leads(p, e) ==
  \/ places[p].scalars = e
  \/ /\ e < places[p].scalars
     /\ "location" \notin editions[places[p].scalars].parts

\* One update at most is half through a place that is not entangled, and when it
\* writes the location the place will be whole.
OneHalfway ==
  \A p \in DOMAIN places \ entangled :
    /\ \A r, s \in Request : Halfway(r, p) /\ Halfway(s, p) => r = s
    /\ \A r \in Request : Halfway(r, p) => Leads(p, req[r].edition)

\* The inductive invariant.
AccountInv ==
  /\ TypeOK
  /\ IdsDrawn
  /\ HoldersAreStored
  /\ WrittenByOwner /\ EditionsKnown
  /\ PlacesAreWhole /\ OneHalfway
  /\ \A r \in Request : SlotOK(req[r])

-----------------------------------------------------------------------------
(* Steps *)

\* No edition is lost or changed when another follows.
EditionsGrow ==
  /\ editions' \in Seq(EditionRow)
  /\ \A i \in DOMAIN editions : i \in DOMAIN editions' /\ editions'[i] = editions[i]

\* What the columns of a place are to each other depends on these editions alone.
LEMMA TornStays ==
  ASSUME NEW p, places'[p] = places[p], EditionsGrow,
         places[p].scalars \in DOMAIN editions,
         places[p].location \in DOMAIN editions
  PROVE  Torn(p)' <=> Torn(p)
  BY DEF Torn, EditionsGrow

LEMMA LeadsStays ==
  ASSUME NEW p, NEW e, places'[p] = places[p], EditionsGrow,
         places[p].scalars \in DOMAIN editions
  PROVE  Leads(p, e)' <=> Leads(p, e)
  BY DEF Leads, EditionsGrow

\* A request that leaves users and places as they are, and is not half through
\* an update afterwards; if it was before, the place counts as entangled.
LEMMA RequestStep ==
  ASSUME AccountInv, NEW r \in Request, NEW q, Become(r, q),
         q.pc # "place:second", SlotOK(q)',
         At(r, "place:second") => req[r].place \in entangled',
         entangled \subseteq entangled', entangled' \subseteq Place,
         EditionsGrow, failures' \in 0..MaxFailures,
         UNCHANGED <<users, places, spent, holders>>
  PROVE  AccountInv'
<1>1. /\ \A s \in Request : req'[s] = IF s = r THEN q ELSE req[s]
      /\ req' \in [Request -> Slot]
  BY DEF AccountInv, TypeOK, Become, SlotOK
<1>2. TypeOK'
  BY <1>1 DEF AccountInv, TypeOK, EditionsGrow
<1>3. \A s \in Request : SlotOK(req[s])'
  <2> TAKE s \in Request
  <2>1. CASE s = r
    BY <1>1, <2>1 DEF SlotOK
  <2>2. CASE s # r
    <3>1. req'[s] = req[s] /\ SlotOK(req[s])
      BY <1>1, <2>2 DEF AccountInv
    <3> QED BY <3>1 DEF SlotOK, IsOwner, EditionsGrow
  <2> QED BY <2>1, <2>2
<1>4. \A s \in Request : \A p : Halfway(s, p)' => Halfway(s, p) /\ req'[s] = req[s]
  BY <1>1 DEF Halfway, At
<1>5. \A s \in Request : \A p : p \notin entangled' => (Halfway(s, p)' <=> Halfway(s, p))
  BY <1>1 DEF Halfway, At
<1>6. PlacesAreWhole'
  BY <1>5, TornStays DEF PlacesAreWhole, AccountInv, EditionsKnown
<1>7. OneHalfway'
  BY <1>4, LeadsStays DEF OneHalfway, AccountInv, EditionsKnown
<1>8. WrittenByOwner' /\ EditionsKnown'
  BY DEF WrittenByOwner, EditionsKnown, EditionsGrow, AccountInv
<1>9. IdsDrawn' /\ HoldersAreStored'
  BY DEF IdsDrawn, HoldersAreStored, AccountInv
<1> QED BY <1>2, <1>3, <1>6, <1>7, <1>8, <1>9 DEF AccountInv

-----------------------------------------------------------------------------
(* Slots *)

\* What a free slot holds.
LEMMA IdleSlot == Idle \in Slot /\ Idle.pc = "idle"
  BY EmailAssumption DEF Idle, Slot

\* A slot at a place where nothing is known.
LEMMA PlainSlot ==
  ASSUME NEW q \in Slot,
         q.pc \notin {"token:store", "place:scalars", "place:location",
                       "place:second", "place:delete"}
  PROVE  SlotOK(q)'
  BY DEF SlotOK

-----------------------------------------------------------------------------
(* Steps of a request that change no table *)

\* The tables, and what is remembered of the calls, stay.
Still == UNCHANGED <<users, places, spent, holders, editions, entangled, failures>>

\* ... so that a request may become whatever it is entitled to be.
LEMMA StillStep ==
  ASSUME AccountInv, NEW r \in Request, ~At(r, "place:second"), NEW q,
         Become(r, q), q.pc # "place:second", SlotOK(q)', Still
  PROVE  AccountInv'
<1>1. entangled \subseteq Place /\ EditionsGrow /\ failures \in 0..MaxFailures
  BY DEF AccountInv, TypeOK, EditionsGrow, Still
<1> QED BY <1>1, RequestStep DEF Still

\* A request that is answered.
LEMMA AnswerStep ==
  ASSUME AccountInv, NEW r \in Request, ~At(r, "place:second"),
         NEW status \in {200, 401, 403, 404, 409, 500}, Answer(r, status), Still
  PROVE  AccountInv'
<1>1. PICK q : /\ q = [Idle EXCEPT !.pc = "done", !.status = status]
               /\ Become(r, q)
  BY DEF Answer
<1>2. q \in Slot
  <2>1. PICK p : p = [Idle EXCEPT !.pc = "done"]
    OBVIOUS
  <2>2. p \in Slot
    BY <2>1, IdleSlot DEF Slot
  <2>3. q = [p EXCEPT !.status = status]
    BY <1>1, <2>1
  <2> QED BY <2>2, <2>3 DEF Slot
<1>3. q.pc = "done"
  BY <1>1, IdleSlot DEF Slot
<1> QED BY <1>1, <1>2, <1>3, PlainSlot, StillStep

\* A request that goes on to a place where it knows nothing new.
LEMMA GotoStep ==
  ASSUME AccountInv, NEW r \in Request, ~At(r, "place:second"),
         NEW pc \in Pc \ {"token:store", "place:scalars", "place:location",
                         "place:second", "place:delete"},
         Goto(r, pc), Still
  PROVE  AccountInv'
<1>1. PICK q : q = [req[r] EXCEPT !.pc = pc] /\ Become(r, q)
  BY DEF Goto, Become
<1>2. req[r] \in Slot
  BY DEF AccountInv, TypeOK
<1>3. q \in Slot
  BY <1>1, <1>2 DEF Slot
<1>4. q.pc = pc
  BY <1>1, <1>2 DEF Slot
<1> QED BY <1>1, <1>3, <1>4, PlainSlot, StillStep

\* A request that has come to know whose token it stores.
LEMMA KnownStep ==
  ASSUME AccountInv, NEW r \in Request, ~At(r, "place:second"),
         NEW a \in spent \cap Account,
         Become(r, [req[r] EXCEPT !.pc = "token:store", !.user = a]), Still
  PROVE  AccountInv'
<1>1. PICK q : /\ q = [req[r] EXCEPT !.pc = "token:store", !.user = a]
               /\ Become(r, q)
  OBVIOUS
<1>2. req[r] \in Slot /\ "token:store" \in Pc
  BY DEF AccountInv, TypeOK, Pc, TokenPc
<1>3. q \in Slot
  <2>1. PICK p : p = [req[r] EXCEPT !.pc = "token:store"]
    OBVIOUS
  <2>2. p \in Slot
    BY <1>2, <2>1 DEF Slot
  <2>3. q = [p EXCEPT !.user = a]
    BY <1>1, <2>1
  <2> QED BY <2>2, <2>3 DEF Slot
<1>4. q.pc = "token:store" /\ q.user = a
  BY <1>1, <1>2 DEF Slot
<1>5. SlotOK(q)'
  BY <1>3, <1>4 DEF SlotOK, Still
<1> QED BY <1>1, <1>4, <1>5, StillStep

-----------------------------------------------------------------------------
(* Actions that only read *)

\* A login or registration begins with an address.
LEMMA BeginEmailKeeps ==
  ASSUME AccountInv, NEW r \in Request, BeginEmail(r)
  PROVE  AccountInv'
<1>1. PICK pc \in {"register:insert", "login:find", "oauth:find"}, email \in Email :
        Become(r, [Idle EXCEPT !.pc = pc, !.email = email])
  BY DEF BeginEmail
<1>2. PICK p : p = [Idle EXCEPT !.pc = pc]
  OBVIOUS
<1>3. p \in Slot /\ p.pc = pc
  BY <1>2, IdleSlot DEF Slot, Pc, EmailPc
<1>4. PICK q : q = [p EXCEPT !.email = email] /\ Become(r, q)
  BY <1>1, <1>2
<1>5. q \in Slot /\ q.pc = pc
  BY <1>3, <1>4 DEF Slot
<1> QED BY <1>4, <1>5, PlainSlot, StillStep DEF BeginEmail, At, Still

\* A call begins with the ids that it names.
LEMMA BeginCallKeeps ==
  ASSUME AccountInv, NEW r \in Request, BeginCall(r)
  PROVE  AccountInv'
<1>1. PICK pc \in CallPc, u \in Account, p \in Place \cup {NoPlace},
           a \in Account \cup {NoAccount} :
        Become(r, [Idle EXCEPT !.pc = pc, !.user = u, !.place = p, !.target = a])
  BY DEF BeginCall, AccountInv, TypeOK
<1>2. PICK q1 : q1 = [Idle EXCEPT !.pc = pc]
  OBVIOUS
<1>3. q1 \in Slot /\ q1.pc = pc
  BY <1>2, IdleSlot DEF Slot, Pc
<1>4. PICK q2 : q2 = [q1 EXCEPT !.user = u]
  OBVIOUS
<1>5. q2 \in Slot /\ q2.pc = pc
  BY <1>3, <1>4 DEF Slot
<1>6. PICK q3 : q3 = [q2 EXCEPT !.place = p]
  OBVIOUS
<1>7. q3 \in Slot /\ q3.pc = pc
  BY <1>5, <1>6 DEF Slot
<1>8. PICK q : q = [q3 EXCEPT !.target = a] /\ Become(r, q)
  BY <1>1, <1>2, <1>4, <1>6
<1>9. q \in Slot /\ q.pc \in CallPc
  BY <1>7, <1>8 DEF Slot
<1> QED BY <1>8, <1>9, PlainSlot, StillStep DEF BeginCall, At, Still, CallPc

\* Who is found by an address has a row.
LEMMA FindKeeps ==
  ASSUME AccountInv, NEW r \in Request, LoginFind(r) \/ OAuthFind(r)
  PROVE  AccountInv'
<1>1. ~At(r, "place:second") /\ Still
  BY DEF LoginFind, OAuthFind, At, Still
<1>2. CASE Answer(r, 401)
  BY <1>1, <1>2, AnswerStep
<1>3. CASE Goto(r, "oauth:insert")
  BY <1>1, <1>3, GotoStep DEF Pc, EmailPc
<1>4. CASE \E a \in DOMAIN users :
             Become(r, [req[r] EXCEPT !.pc = "token:store", !.user = a])
  <2>1. DOMAIN users \subseteq spent \cap Account
    BY DEF AccountInv, TypeOK, IdsDrawn
  <2> QED BY <1>1, <1>4, <2>1, KnownStep
<1> QED BY <1>2, <1>3, <1>4 DEF LoginFind, OAuthFind

\* The guards read a row and decide.
LEMMA GuardKeeps ==
  ASSUME AccountInv, NEW r \in Request, Guard(r)
  PROVE  AccountInv'
<1>1. ~At(r, "place:second") /\ Still
  BY DEF Guard, At, Still, CallPc
<1>2. \/ \E status \in {403, 404} : Answer(r, status)
      \/ \E pc \in {"place:insert", "place:update", "place:remove", "user:delete"} :
           Goto(r, pc)
  BY DEF Guard
<1> QED BY <1>1, <1>2, AnswerStep, GotoStep DEF Pc, PlacePc

\* The last read of a call, and the end of its answer.
LEMMA RereadKeeps ==
  ASSUME AccountInv, NEW r \in Request, PlaceReread(r) \/ Release(r)
  PROVE  AccountInv'
<1>1. ~At(r, "place:second") /\ Still
  BY DEF PlaceReread, Release, At, Still
<1>2. CASE PlaceReread(r)
  <2>1. PICK status \in {200, 404} : Answer(r, status)
    BY <1>2 DEF PlaceReread
  <2> QED BY <1>1, <2>1, AnswerStep
<1>3. CASE Release(r)
  <2>1. PICK q : q = Idle /\ Become(r, q)
    BY <1>3 DEF Release
  <2> QED BY <1>1, <2>1, IdleSlot, PlainSlot, StillStep
<1> QED BY <1>2, <1>3

\* The owner is read, and the dto of his update begins where it has something.
LEMMA PlaceFindKeeps ==
  ASSUME AccountInv, NEW r \in Request, PlaceFind(r)
  PROVE  AccountInv'
<1>1. ~At(r, "place:second") /\ Still /\ req[r] \in Slot
  BY DEF PlaceFind, At, Still, AccountInv, TypeOK
<1>2. CASE \E status \in {403, 404} : Answer(r, status)
  BY <1>1, <1>2, AnswerStep
<1>3. ASSUME req[r].place \in DOMAIN places,
             places[req[r].place].owner = req[r].user
      PROVE  IsOwner(req[r])
  <2>1. places[req[r].place] \in PlaceRow
    BY <1>3 DEF AccountInv, TypeOK
  <2> QED BY <1>3, <2>1 DEF AccountInv, TypeOK, IdsDrawn, IsOwner, PlaceRow
<1>4. CASE Goto(r, "place:delete") /\ IsOwner(req[r])
  <2>1. PICK q : q = [req[r] EXCEPT !.pc = "place:delete"] /\ Become(r, q)
    BY <1>4 DEF Goto, Become
  <2>2. /\ q \in Slot /\ q.pc = "place:delete"
        /\ q.place = req[r].place /\ q.user = req[r].user
    BY <1>1, <2>1 DEF Slot, Pc, PlacePc
  <2>3. SlotOK(q)'
    BY <1>1, <1>4, <2>2 DEF SlotOK, IsOwner, Still
  <2> QED BY <1>1, <2>1, <2>2, <2>3, StillStep
<1>5. CASE /\ IsOwner(req[r])
           /\ \E parts \in SUBSET Part :
                Become(r, [req[r] EXCEPT !.pc = FirstStatement(parts),
                                         !.parts = parts])
  <2>1. PICK parts \in SUBSET Part :
          Become(r, [req[r] EXCEPT !.pc = FirstStatement(parts), !.parts = parts])
    BY <1>5
  <2>2. PICK pc : pc = FirstStatement(parts)
    OBVIOUS
  <2>3. /\ pc \in {"place:scalars", "place:location", "place:updated"}
        /\ pc = "place:location" => "scalars" \notin parts
    BY <2>2 DEF FirstStatement
  <2>4. PICK q1 : q1 = [req[r] EXCEPT !.pc = pc]
    OBVIOUS
  <2>5. /\ q1 \in Slot /\ q1.pc = pc
        /\ q1.place = req[r].place /\ q1.user = req[r].user
    BY <1>1, <2>3, <2>4 DEF Slot, Pc, PlacePc
  <2>6. PICK q : q = [q1 EXCEPT !.parts = parts] /\ Become(r, q)
    BY <2>1, <2>2, <2>4
  <2>7. /\ q \in Slot /\ q.pc = pc /\ q.parts = parts
        /\ q.place = req[r].place /\ q.user = req[r].user
    BY <2>5, <2>6 DEF Slot
  <2>8. SlotOK(q)'
    BY <1>1, <1>5, <2>3, <2>7 DEF SlotOK, IsOwner, Still
  <2>9. q.pc # "place:second"
    BY <2>3, <2>7
  <2> QED BY <1>1, <2>6, <2>8, <2>9, StillStep
<1> QED BY <1>2, <1>3, <1>4, <1>5 DEF PlaceFind

\* A failure answers, and leaves the place it was half through entangled.
LEMMA FailureKeeps ==
  ASSUME AccountInv, NEW r \in Request, StatementFails(r)
  PROVE  AccountInv'
<1>1. PICK q : q = [Idle EXCEPT !.pc = "done", !.status = 500] /\ Become(r, q)
  BY DEF StatementFails, Answer
<1>2. PICK p : p = [Idle EXCEPT !.pc = "done"]
  OBVIOUS
<1>3. p \in Slot /\ p.pc = "done"
  BY <1>2, IdleSlot DEF Slot
<1>4. q = [p EXCEPT !.status = 500]
  BY <1>1, <1>2
<1>5. q \in Slot /\ q.pc = "done"
  BY <1>3, <1>4 DEF Slot
<1>6. /\ UNCHANGED <<users, places, spent, holders, editions>>
      /\ failures' \in 0..MaxFailures
      /\ entangled' = IF At(r, "place:second")
                      THEN entangled \cup {req[r].place} ELSE entangled
  BY LimitsAssumption DEF StatementFails, AccountInv, TypeOK
<1>7. /\ At(r, "place:second") => req[r].place \in Place
      /\ entangled \subseteq Place /\ editions \in Seq(EditionRow)
  BY DEF AccountInv, SlotOK, IsOwner, At, TypeOK
<1>8. EditionsGrow
  BY <1>6, <1>7 DEF EditionsGrow
<1>9. SlotOK(q)'
  BY <1>5, PlainSlot
<1>10. /\ entangled \subseteq entangled' /\ entangled' \subseteq Place
       /\ At(r, "place:second") => req[r].place \in entangled'
  BY <1>6, <1>7
<1>11. UNCHANGED <<users, places, spent, holders>>
  BY <1>6
<1>12. q.pc # "place:second"
  BY <1>5
<1> QED BY ONLY AccountInv, <1>1, <1>6, <1>8, <1>9, <1>10, <1>11, <1>12, RequestStep

-----------------------------------------------------------------------------
(* Steps that change a table *)

\* Ids stay drawn, editions stay, and a place that was drawn keeps its owner.
TablesGrow ==
  /\ spent \subseteq spent'
  /\ EditionsGrow
  /\ \A p \in DOMAIN places' \cap spent :
       p \in DOMAIN places /\ places'[p].owner = places[p].owner

\* What a request knows stays true.
LEMMA SlotKept ==
  ASSUME NEW q, SlotOK(q), TablesGrow
  PROVE  SlotOK(q)'
  BY DEF SlotOK, IsOwner, TablesGrow, EditionsGrow

\* One request steps: all still know what is true.
LEMMA SlotsKept ==
  ASSUME AccountInv, NEW r \in Request, NEW q, Become(r, q), SlotOK(q)', TablesGrow
  PROVE  /\ req' \in [Request -> Slot]
         /\ \A s \in Request : req'[s] = IF s = r THEN q ELSE req[s]
         /\ \A s \in Request : SlotOK(req[s])'
<1>1. \A s \in Request : req'[s] = IF s = r THEN q ELSE req[s]
  BY DEF AccountInv, TypeOK, Become
<1>2. req' \in [Request -> Slot]
  BY <1>1 DEF AccountInv, TypeOK, Become, SlotOK
<1>3. \A s \in Request : SlotOK(req[s])'
  <2> TAKE s \in Request
  <2>1. CASE s = r
    BY <1>1, <2>1 DEF SlotOK
  <2>2. CASE s # r
    <3>1. req'[s] = req[s] /\ SlotOK(req[s])
      BY <1>1, <2>2 DEF AccountInv
    <3>2. PICK p : p = req[s] /\ SlotOK(p)
      BY <3>1
    <3>3. SlotOK(p)'
      BY <3>2, SlotKept
    <3> QED BY <3>1, <3>2, <3>3 DEF SlotOK
  <2> QED BY <2>1, <2>2
<1> QED BY <1>1, <1>2, <1>3

\* One that is not half through an update leaves alone who is.
LEMMA HalfwaysStay ==
  ASSUME NEW r \in Request, NEW q, ~At(r, "place:second"),
         q.pc # "place:second",
         \A s \in Request : req'[s] = IF s = r THEN q ELSE req[s]
  PROVE  \A s \in Request : \A p : /\ Halfway(s, p)' <=> Halfway(s, p)
                                   /\ Halfway(s, p) => req'[s] = req[s]
  BY DEF Halfway, At

\* A row of users is inserted.
LEMMA InsertUserKeeps ==
  ASSUME AccountInv, NEW a, NEW row \in UserRow, InsertUser(a, row),
         ~Taken(row.email), req' \in [Request -> Slot],
         \A s \in Request : SlotOK(req[s])',
         \A s \in Request : \A p : /\ Halfway(s, p)' <=> Halfway(s, p)
                                   /\ Halfway(s, p) => req'[s] = req[s],
         UNCHANGED <<places, holders, editions, entangled, failures>>
  PROVE  AccountInv'
<1>1. /\ a \in Account \ spent /\ spent' = spent \cup {a}
      /\ DOMAIN users' = DOMAIN users \cup {a}
      /\ \A x \in DOMAIN users' : users'[x] = IF x = a THEN row ELSE users[x]
  BY DEF InsertUser
<1>2. DOMAIN users \subseteq spent /\ a \notin DOMAIN users /\ a \notin holders
  BY <1>1 DEF AccountInv, IdsDrawn
<1>3. TypeOK'
  <2>1. /\ DOMAIN users' \subseteq Account /\ spent' \subseteq Account \cup Place
        /\ \A x \in DOMAIN users' : users'[x] \in UserRow
        /\ \A p \in DOMAIN places : places[p].owner \in DOMAIN users'
    BY <1>1 DEF AccountInv, TypeOK
  <2>2. \A x, y \in DOMAIN users' : users'[x].email = users'[y].email => x = y
    BY <1>1, <1>2 DEF AccountInv, TypeOK, Taken
  <2> QED BY <2>1, <2>2 DEF AccountInv, TypeOK
<1>4. IdsDrawn' /\ HoldersAreStored'
  BY <1>1, <1>2 DEF AccountInv, IdsDrawn, HoldersAreStored
<1>5. WrittenByOwner' /\ EditionsKnown'
  BY DEF AccountInv, WrittenByOwner, EditionsKnown
<1>6. PlacesAreWhole'
  BY DEF AccountInv, PlacesAreWhole, Torn
<1>7. OneHalfway'
  BY DEF AccountInv, OneHalfway, Leads
<1> QED BY <1>3, <1>4, <1>5, <1>6, <1>7 DEF AccountInv

\* The seed inserts the administrator.
LEMMA SeedKeeps ==
  ASSUME AccountInv, Seed
  PROVE  AccountInv'
<1>1. PICK row : /\ row = [email |-> AdminEmail, role |-> "ADMIN",
                           password |-> TRUE, token |-> FALSE]
                 /\ \E a \in Account : InsertUser(a, row)
  BY DEF Seed
<1>2. row \in UserRow /\ row.email = AdminEmail
  BY <1>1, EmailAssumption DEF UserRow, Role
<1>3. TablesGrow
  BY <1>1 DEF Seed, InsertUser, TablesGrow, EditionsGrow, AccountInv, TypeOK
<1>4. \A s \in Request : SlotOK(req[s])'
  <2> TAKE s \in Request
  <2>1. PICK p : p = req[s] /\ SlotOK(p)
    BY DEF AccountInv
  <2>2. SlotOK(p)' /\ req'[s] = p
    BY <1>3, <2>1, SlotKept DEF Seed
  <2> QED BY <2>2 DEF SlotOK
<1>5. \A s \in Request : \A p : /\ Halfway(s, p)' <=> Halfway(s, p)
                                /\ Halfway(s, p) => req'[s] = req[s]
  BY DEF Seed, Halfway, At
<1>6. /\ req' \in [Request -> Slot] /\ ~Taken(row.email)
      /\ UNCHANGED <<places, holders, editions, entangled, failures>>
  BY <1>2 DEF Seed, AccountInv, TypeOK
<1> QED BY <1>1, <1>2, <1>4, <1>5, <1>6, InsertUserKeeps

\* A registration or a first login inserts its user, or is refused.
LEMMA NewUserKeeps ==
  ASSUME AccountInv, NEW r \in Request, RegisterInsert(r) \/ OAuthInsert(r)
  PROVE  AccountInv'
<1>1. /\ ~At(r, "place:second") /\ req[r] \in Slot /\ req[r].email \in Email
      /\ editions \in Seq(EditionRow)
      /\ UNCHANGED <<places, holders, editions, entangled, failures>>
  <2>1. req[r] \in Slot /\ editions \in Seq(EditionRow)
    BY DEF AccountInv, TypeOK
  <2>2. req[r].email \in Email
    BY <2>1 DEF Slot
  <2>3. /\ ~At(r, "place:second")
        /\ UNCHANGED <<places, holders, editions, entangled, failures>>
    BY DEF RegisterInsert, OAuthInsert, At
  <2> QED BY <2>1, <2>2, <2>3
<1>2. CASE \E status \in {409, 500} : Answer(r, status) /\ UNCHANGED <<users, spent>>
  BY <1>1, <1>2, AnswerStep DEF Still
<1>3. CASE \E a \in Account, password \in BOOLEAN :
        /\ ~Taken(req[r].email)
        /\ InsertUser(a, [email |-> req[r].email, role |-> "USER",
                          password |-> password, token |-> FALSE])
        /\ Become(r, [req[r] EXCEPT !.pc = "token:store", !.user = a])
  <2>1. PICK a \in Account, password \in BOOLEAN :
          /\ ~Taken(req[r].email)
          /\ InsertUser(a, [email |-> req[r].email, role |-> "USER",
                            password |-> password, token |-> FALSE])
          /\ Become(r, [req[r] EXCEPT !.pc = "token:store", !.user = a])
    BY <1>3
  <2> DEFINE row == [email |-> req[r].email, role |-> "USER",
                     password |-> password, token |-> FALSE]
  <2>2. row \in UserRow /\ ~Taken(row.email) /\ InsertUser(a, row)
    BY <1>1, <2>1 DEF UserRow, Role
  <2> HIDE DEF row
  <2>3. TablesGrow /\ a \in spent'
    BY <1>1, <2>2 DEF InsertUser, TablesGrow, EditionsGrow
  <2>4. PICK p : p = [req[r] EXCEPT !.pc = "token:store"]
    OBVIOUS
  <2>5. p \in Slot /\ p.pc = "token:store"
    BY <1>1, <2>4 DEF Slot, Pc, TokenPc
  <2>6. PICK q : q = [p EXCEPT !.user = a] /\ Become(r, q)
    BY <2>1, <2>4
  <2>7. q \in Slot /\ q.pc = "token:store" /\ q.user = a
    BY <2>5, <2>6 DEF Slot
  <2>8. SlotOK(q)'
    BY <2>3, <2>7 DEF SlotOK
  <2>9. /\ req' \in [Request -> Slot] /\ \A s \in Request : SlotOK(req[s])'
        /\ \A s \in Request : req'[s] = IF s = r THEN q ELSE req[s]
    BY <2>3, <2>6, <2>8, SlotsKept
  <2>10. \A s \in Request : \A x : /\ Halfway(s, x)' <=> Halfway(s, x)
                                   /\ Halfway(s, x) => req'[s] = req[s]
    BY <1>1, <2>7, <2>9, HalfwaysStay
  <2> QED BY <1>1, <2>1, <2>2, <2>9, <2>10, InsertUserKeeps
<1> QED BY <1>2, <1>3 DEF RegisterInsert, OAuthInsert

\* Tokens are stored for the user found or inserted, if he is still there.
LEMMA TokenStoreKeeps ==
  ASSUME AccountInv, NEW r \in Request, TokenStore(r)
  PROVE  AccountInv'
<1> DEFINE a == req[r].user
<1>1. PICK q : /\ q = [Idle EXCEPT !.pc = "done", !.status = 200]
               /\ Become(r, q)
  BY DEF TokenStore, Answer
<1>2. q \in Slot /\ q.pc = "done"
  <2>1. PICK p : p = [Idle EXCEPT !.pc = "done"]
    OBVIOUS
  <2>2. p \in Slot /\ p.pc = "done"
    BY <2>1, IdleSlot DEF Slot
  <2>3. q = [p EXCEPT !.status = 200]
    BY <1>1, <2>1
  <2> QED BY <2>2, <2>3 DEF Slot
<1>3. /\ ~At(r, "place:second") /\ a \in spent \cap Account
      /\ DOMAIN users' = DOMAIN users
      /\ \A x \in DOMAIN users :
           users'[x] = [users[x] EXCEPT !.token = @ \/ x = a]
      /\ holders' = holders \cup {a}
      /\ UNCHANGED <<places, spent, editions, entangled, failures>>
  BY DEF TokenStore, At, AccountInv, SlotOK
<1>4. \A x \in DOMAIN users : /\ users[x] \in UserRow /\ users'[x] \in UserRow
                              /\ users'[x].email = users[x].email
                              /\ users'[x].token = (users[x].token \/ x = a)
  <2> TAKE x \in DOMAIN users
  <2>1. users[x] \in UserRow
    BY DEF AccountInv, TypeOK
  <2>2. users'[x] = [users[x] EXCEPT !.token = @ \/ x = a]
    BY <1>3
  <2>3. (users[x].token \/ x = a) \in BOOLEAN
    BY <2>1 DEF UserRow
  <2>4. PICK token \in BOOLEAN : token = (users[x].token \/ x = a)
    BY <2>3
  <2>5. users'[x] = [users[x] EXCEPT !.token = token]
    BY <2>2, <2>4
  <2>6. users'[x] \in UserRow /\ users'[x].email = users[x].email
        /\ users'[x].token = token
    BY <2>1, <2>5 DEF UserRow
  <2> QED BY <2>1, <2>4, <2>6
<1>5. TablesGrow /\ SlotOK(q)'
  BY <1>2, <1>3 DEF TablesGrow, EditionsGrow, AccountInv, TypeOK, SlotOK
<1>6. /\ req' \in [Request -> Slot] /\ \A s \in Request : SlotOK(req[s])'
      /\ \A s \in Request : req'[s] = IF s = r THEN q ELSE req[s]
  BY <1>1, <1>5, SlotsKept
<1>7. \A s \in Request : \A p : /\ Halfway(s, p)' <=> Halfway(s, p)
                                /\ Halfway(s, p) => req'[s] = req[s]
  BY <1>2, <1>3, <1>6, HalfwaysStay
<1>8. TypeOK'
  <2>1. /\ \A x \in DOMAIN users' : users'[x] \in UserRow
        /\ \A x, y \in DOMAIN users' : users'[x].email = users'[y].email => x = y
        /\ holders' \subseteq Account
    BY <1>3, <1>4 DEF AccountInv, TypeOK
  <2> QED BY <1>3, <1>6, <2>1 DEF AccountInv, TypeOK
<1>9. HoldersAreStored'
  BY <1>3, <1>4 DEF AccountInv, HoldersAreStored
<1>10. IdsDrawn' /\ WrittenByOwner' /\ EditionsKnown'
  BY <1>3 DEF AccountInv, IdsDrawn, WrittenByOwner, EditionsKnown
<1>11. PlacesAreWhole'
  BY <1>3, <1>7 DEF AccountInv, PlacesAreWhole, Torn
<1>12. OneHalfway'
  BY <1>3, <1>7 DEF AccountInv, OneHalfway, Leads
<1> QED BY <1>6, <1>8, <1>9, <1>10, <1>11, <1>12 DEF AccountInv

\* Rows go, of places and perhaps of users: a request is answered.
LEMMA ShrinkStep ==
  ASSUME AccountInv, NEW r \in Request, ~At(r, "place:second"),
         NEW status \in {200, 404}, Answer(r, status),
         DOMAIN users' \subseteq DOMAIN users,
         \A a \in DOMAIN users' : users'[a] = users[a],
         DOMAIN places' \subseteq DOMAIN places,
         \A p \in DOMAIN places' : /\ places'[p] = places[p]
                                   /\ places[p].owner \in DOMAIN users',
         UNCHANGED <<spent, holders, editions, entangled, failures>>
  PROVE  AccountInv'
<1>1. PICK q : /\ q = [Idle EXCEPT !.pc = "done", !.status = status]
               /\ Become(r, q)
  BY DEF Answer
<1>2. q \in Slot /\ q.pc = "done"
  <2>1. PICK p : p = [Idle EXCEPT !.pc = "done"]
    OBVIOUS
  <2>2. p \in Slot /\ p.pc = "done"
    BY <2>1, IdleSlot DEF Slot
  <2>3. q = [p EXCEPT !.status = status]
    BY <1>1, <2>1
  <2> QED BY <2>2, <2>3 DEF Slot
<1>3. TablesGrow /\ SlotOK(q)'
  BY <1>2 DEF TablesGrow, EditionsGrow, AccountInv, TypeOK, SlotOK
<1>4. /\ req' \in [Request -> Slot] /\ \A s \in Request : SlotOK(req[s])'
      /\ \A s \in Request : req'[s] = IF s = r THEN q ELSE req[s]
  BY <1>1, <1>3, SlotsKept
<1>5. \A s \in Request : \A p : /\ Halfway(s, p)' <=> Halfway(s, p)
                                /\ Halfway(s, p) => req'[s] = req[s]
  BY <1>2, <1>4, HalfwaysStay
<1>6. TypeOK'
  BY <1>4 DEF AccountInv, TypeOK
<1>7. IdsDrawn' /\ HoldersAreStored'
  BY DEF AccountInv, IdsDrawn, HoldersAreStored
<1>8. WrittenByOwner' /\ EditionsKnown'
  BY DEF AccountInv, WrittenByOwner, EditionsKnown
<1>9. PlacesAreWhole'
  BY <1>5 DEF AccountInv, PlacesAreWhole, Torn
<1>10. OneHalfway'
  BY <1>5 DEF AccountInv, OneHalfway, Leads
<1> QED BY <1>4, <1>6, <1>7, <1>8, <1>9, <1>10 DEF AccountInv

\* A place is deleted, or a user with his places.
LEMMA DeleteKeeps ==
  ASSUME AccountInv, NEW r \in Request, PlaceDelete(r) \/ UserDelete(r)
  PROVE  AccountInv'
<1>1. CASE PlaceDelete(r)
  <2>1. /\ ~At(r, "place:second") /\ Answer(r, 200)
        /\ DOMAIN places' \subseteq DOMAIN places
        /\ \A p \in DOMAIN places' : places'[p] = places[p]
        /\ \A p \in DOMAIN places' : places[p].owner \in DOMAIN users
        /\ UNCHANGED <<users, spent, holders, editions, entangled, failures>>
    BY <1>1 DEF PlaceDelete, At, AccountInv, TypeOK
  <2> QED BY <2>1, ShrinkStep
<1>2. CASE UserDelete(r)
  <2> DEFINE a == req[r].target
  <2>1. /\ ~At(r, "place:second") /\ \E status \in {200, 404} : Answer(r, status)
        /\ UNCHANGED <<spent, holders, editions, entangled, failures>>
        /\ DeleteUser(a)
    BY <1>2 DEF UserDelete, At
  <2>2. /\ DOMAIN users' = DOMAIN users \ {a}
        /\ \A x \in DOMAIN users' : users'[x] = users[x]
        /\ DOMAIN places' = {p \in DOMAIN places : places[p].owner # a}
        /\ \A p \in DOMAIN places' : places'[p] = places[p]
    BY <2>1 DEF DeleteUser
  <2>3. \A p \in DOMAIN places' : places[p].owner \in DOMAIN users'
    BY <2>2 DEF AccountInv, TypeOK
  <2> QED BY <2>1, <2>2, <2>3, ShrinkStep
<1> QED BY <1>1, <1>2

-----------------------------------------------------------------------------
(* Steps that add an edition or write one *)

\* The next edition follows those there are.
LEMMA EditionAdded ==
  ASSUME AccountInv, NEW row \in EditionRow, editions' = Append(editions, row),
         NEW n, n = Len(editions) + 1
  PROVE  /\ EditionsGrow /\ n \in DOMAIN editions' /\ n \in Edition
         /\ editions'[n] = row
         /\ \A i \in DOMAIN editions : i \in Nat /\ i < n
<1>1. editions \in Seq(EditionRow) /\ Len(editions) \in Nat
  BY LenProperties DEF AccountInv, TypeOK
<1>2. /\ DOMAIN editions = 1..Len(editions)
      /\ editions' \in Seq(EditionRow) /\ Len(editions') = n
      /\ \A i \in 1..Len(editions) : editions'[i] = editions[i]
      /\ editions'[n] = row
  BY <1>1, LenProperties, AppendProperties
<1>3. DOMAIN editions' = 1..n
  BY <1>2, LenProperties
<1> QED BY <1>1, <1>2, <1>3 DEF EditionsGrow, Edition

\* An edition that there has been has a number.
LEMMA EditionNumber ==
  ASSUME AccountInv PROVE DOMAIN editions \subseteq Edition
  BY LenProperties DEF AccountInv, TypeOK, Edition

\* A place is inserted whole, in its caller's name.
LEMMA PlaceInsertKeeps ==
  ASSUME AccountInv, NEW r \in Request, PlaceInsert(r)
  PROVE  AccountInv'
<1> DEFINE u == req[r].user
<1>1. /\ ~At(r, "place:second")
      /\ UNCHANGED <<users, holders, entangled, failures>>
  BY DEF PlaceInsert, At
<1>2. CASE u \notin DOMAIN users
  <2>1. Answer(r, 500) /\ Still
    BY <1>1, <1>2 DEF PlaceInsert, Still
  <2> QED BY <1>1, <2>1, AnswerStep
<1>3. CASE u \in DOMAIN users
  <2>1. /\ req[r] \in Slot /\ u \in Account
        /\ [author |-> u, parts |-> Part] \in EditionRow
    BY <1>3 DEF AccountInv, TypeOK, EditionRow
  <2>2. PICK n : n = Len(editions) + 1
    OBVIOUS
  <2> DEFINE row == [owner |-> u, scalars |-> n, location |-> n]
  <2>3. PICK p \in Place \ spent :
          /\ editions' = Append(editions, [author |-> u, parts |-> Part])
          /\ spent' = spent \cup {p}
          /\ DOMAIN places' = DOMAIN places \cup {p}
          /\ \A x \in DOMAIN places' :
               places'[x] = IF x = p THEN row ELSE places[x]
          /\ Become(r, [req[r] EXCEPT !.pc = "place:created", !.place = p])
    BY <1>3, <2>2 DEF PlaceInsert
  <2>4. /\ EditionsGrow /\ n \in DOMAIN editions' /\ n \in Edition
        /\ editions'[n].author = u
    BY <2>1, <2>2, <2>3, EditionAdded
  <2>5. /\ row \in PlaceRow /\ row.owner = u
        /\ row.scalars = n /\ row.location = n
    BY <2>1, <2>4 DEF PlaceRow
  <2> HIDE DEF row
  <2>6. p \notin DOMAIN places /\ DOMAIN places \subseteq spent
    BY <2>3 DEF AccountInv, IdsDrawn
  <2>7. TablesGrow
    BY <2>3, <2>4, <2>6 DEF TablesGrow
  <2>8. PICK q1 : q1 = [req[r] EXCEPT !.pc = "place:created"]
    OBVIOUS
  <2>9. q1 \in Slot /\ q1.pc = "place:created"
    BY <2>1, <2>8 DEF Slot, Pc, PlacePc
  <2>10. PICK q : q = [q1 EXCEPT !.place = p] /\ Become(r, q)
    BY <2>3, <2>8
  <2>11. q \in Slot /\ q.pc = "place:created"
    BY <2>9, <2>10 DEF Slot
  <2>12. SlotOK(q)'
    BY <2>11, PlainSlot
  <2>13. /\ req' \in [Request -> Slot] /\ \A s \in Request : SlotOK(req[s])'
         /\ \A s \in Request : req'[s] = IF s = r THEN q ELSE req[s]
    BY <2>7, <2>10, <2>12, SlotsKept
  <2>14. \A s \in Request : \A x : /\ Halfway(s, x)' <=> Halfway(s, x)
                                   /\ Halfway(s, x) => req'[s] = req[s]
    BY <1>1, <2>11, <2>13, HalfwaysStay
  <2>15. \A s \in Request : ~Halfway(s, p)
    BY <2>3 DEF AccountInv, SlotOK, IsOwner, Halfway, At
  <2>16. TypeOK'
    <3>1. /\ DOMAIN places' \subseteq Place /\ spent' \subseteq Account \cup Place
          /\ \A x \in DOMAIN places' : places'[x] \in PlaceRow
          /\ \A x \in DOMAIN places' : places'[x].owner \in DOMAIN users
          /\ editions' \in Seq(EditionRow)
      BY <1>3, <2>3, <2>4, <2>5 DEF AccountInv, TypeOK, EditionsGrow
    <3> QED BY <1>1, <2>13, <3>1 DEF AccountInv, TypeOK
  <2>17. IdsDrawn' /\ HoldersAreStored'
    BY <1>1, <2>3 DEF AccountInv, IdsDrawn, HoldersAreStored
  <2>18. WrittenByOwner' /\ EditionsKnown'
    BY <2>3, <2>4, <2>5, <2>6
    DEF AccountInv, WrittenByOwner, EditionsKnown, EditionsGrow
  <2>19. \A x \in DOMAIN places' : x # p =>
           /\ x \in DOMAIN places /\ places'[x] = places[x]
           /\ Torn(x)' <=> Torn(x)
           /\ \A e : Leads(x, e)' <=> Leads(x, e)
    BY <2>3, <2>4, TornStays, LeadsStays DEF AccountInv, EditionsKnown
  <2>20. PlacesAreWhole'
    <3> SUFFICES ASSUME NEW x \in DOMAIN places' \ entangled',
                        \A s \in Request : ~Halfway(s, x)'
                 PROVE  ~Torn(x)'
      BY DEF PlacesAreWhole
    <3>1. CASE x = p
      <4>1. places'[x].scalars = n /\ places'[x].location = n /\ ~(n < n)
        BY <2>3, <2>4, <2>5, <3>1 DEF Edition
      <4> QED BY <4>1 DEF Torn
    <3>2. CASE x # p
      BY <1>1, <2>14, <2>19, <3>2 DEF AccountInv, PlacesAreWhole
    <3> QED BY <3>1, <3>2
  <2>21. OneHalfway'
    BY <1>1, <2>14, <2>15, <2>19 DEF AccountInv, OneHalfway
  <2> QED BY <2>13, <2>16, <2>17, <2>18, <2>20, <2>21 DEF AccountInv
<1> QED BY <1>2, <1>3

\* What an UPDATE of one part does to the rows.
LEMMA PartWritten ==
  ASSUME AccountInv, NEW p, NEW part \in Part, NEW n \in Edition,
         WritePart(p, part, n)
  PROVE  /\ DOMAIN places' = DOMAIN places
         /\ \A x \in DOMAIN places :
              /\ places'[x] \in PlaceRow /\ places'[x].owner = places[x].owner
              /\ x # p => places'[x] = places[x]
              /\ places'[x].scalars = IF x = p /\ part = "scalars" THEN n
                                      ELSE places[x].scalars
              /\ places'[x].location = IF x = p /\ part = "location" THEN n
                                       ELSE places[x].location
<1>1. DOMAIN places' = DOMAIN places
  BY DEF WritePart
<1>2. ASSUME NEW x \in DOMAIN places
      PROVE  /\ places'[x] \in PlaceRow /\ places'[x].owner = places[x].owner
             /\ x # p => places'[x] = places[x]
             /\ places'[x].scalars = IF x = p /\ part = "scalars" THEN n
                                     ELSE places[x].scalars
             /\ places'[x].location = IF x = p /\ part = "location" THEN n
                                      ELSE places[x].location
  <2>1. places[x] \in PlaceRow
    BY DEF AccountInv, TypeOK
  <2>2. CASE x # p
    <3>1. places'[x] = places[x]
      BY <2>2 DEF WritePart
    <3> QED BY <2>1, <2>2, <3>1
  <2>3. CASE x = p /\ part = "scalars"
    <3>1. places'[x] = [places[x] EXCEPT !.scalars = n]
      BY <2>3 DEF WritePart
    <3> QED BY <2>1, <2>3, <3>1 DEF PlaceRow
  <2>4. CASE x = p /\ part = "location"
    <3>1. places'[x] = [places[x] EXCEPT !.location = n]
      BY <2>4 DEF WritePart
    <3> QED BY <2>1, <2>4, <3>1 DEF PlaceRow
  <2> QED BY <2>2, <2>3, <2>4 DEF Part
<1> QED BY <1>1, <1>2

\* An owner's UPDATE of one part keeps all but what PlacesAreWhole is about.
LEMMA WriteStep ==
  ASSUME AccountInv, NEW r \in Request, NEW q, Become(r, q), SlotOK(q)',
         NEW p, p = req[r].place, IsOwner(req[r]), NEW part \in Part,
         NEW n \in Edition, n \in DOMAIN editions', WritePart(p, part, n),
         editions'[n].author = req[r].user, EditionsGrow,
         entangled \subseteq entangled', entangled' \subseteq Place,
         UNCHANGED <<users, spent, holders, failures>>
  PROVE  /\ TypeOK' /\ IdsDrawn' /\ HoldersAreStored'
         /\ WrittenByOwner' /\ EditionsKnown'
         /\ \A s \in Request : SlotOK(req[s])'
         /\ \A s \in Request : req'[s] = IF s = r THEN q ELSE req[s]
<1>1. /\ DOMAIN places' = DOMAIN places
      /\ \A x \in DOMAIN places :
           /\ places'[x] \in PlaceRow /\ places'[x].owner = places[x].owner
           /\ x # p => places'[x] = places[x]
           /\ places'[x].scalars \in {n, places[x].scalars}
           /\ places'[x].location \in {n, places[x].location}
  BY PartWritten
<1>2. TablesGrow
  BY <1>1 DEF TablesGrow
<1>4. /\ req' \in [Request -> Slot] /\ \A s \in Request : SlotOK(req[s])'
      /\ \A s \in Request : req'[s] = IF s = r THEN q ELSE req[s]
  BY <1>2, SlotsKept
<1>5. TypeOK'
  BY <1>1, <1>4 DEF AccountInv, TypeOK, EditionsGrow
<1>6. IdsDrawn' /\ HoldersAreStored'
  BY <1>1 DEF AccountInv, IdsDrawn, HoldersAreStored
<1>7. EditionsKnown'
  BY <1>1 DEF AccountInv, EditionsKnown, EditionsGrow
<1>8. WrittenByOwner'
  <2> SUFFICES ASSUME NEW x \in DOMAIN places
               PROVE  /\ editions'[places'[x].scalars].author = places'[x].owner
                      /\ editions'[places'[x].location].author = places'[x].owner
    BY <1>1 DEF WrittenByOwner
  <2>1. /\ editions'[places[x].scalars].author = places[x].owner
        /\ editions'[places[x].location].author = places[x].owner
    BY DEF AccountInv, WrittenByOwner, EditionsKnown, EditionsGrow
  <2>2. CASE x = p
    BY <1>1, <2>1, <2>2 DEF IsOwner
  <2>3. CASE x # p
    BY <1>1, <2>1, <2>3
  <2> QED BY <2>2, <2>3
<1> QED BY <1>4, <1>5, <1>6, <1>7, <1>8

\* Another place than the one written stays as it is.
LEMMA OthersStay ==
  ASSUME AccountInv, NEW p, NEW part \in Part, NEW n \in Edition,
         WritePart(p, part, n), EditionsGrow
  PROVE  \A x \in DOMAIN places' : x # p =>
           /\ x \in DOMAIN places
           /\ Torn(x)' <=> Torn(x)
           /\ \A e : Leads(x, e)' <=> Leads(x, e)
<1> SUFFICES ASSUME NEW x \in DOMAIN places', x # p
             PROVE  /\ x \in DOMAIN places
                    /\ Torn(x)' <=> Torn(x)
                    /\ \A e : Leads(x, e)' <=> Leads(x, e)
  OBVIOUS
<1>1. x \in DOMAIN places /\ places'[x] = places[x]
  BY PartWritten
<1>2. /\ places[x].scalars \in DOMAIN editions
      /\ places[x].location \in DOMAIN editions
  BY <1>1 DEF AccountInv, EditionsKnown
<1> QED BY <1>1, <1>2, TornStays, LeadsStays

\* The scalar columns are written.  If the location follows, the request is half
\* through, alone or not; if it does not, whoever is half through goes on.
LEMMA PlaceScalarsKeeps ==
  ASSUME AccountInv, NEW r \in Request, PlaceScalars(r)
  PROVE  AccountInv'
<1>1. PICK p, n : p = req[r].place /\ n = Len(editions) + 1
  OBVIOUS
<1>2. /\ At(r, "place:scalars") /\ req[r] \in Slot /\ IsOwner(req[r])
      /\ editions' = Append(editions, [author |-> req[r].user,
                                       parts |-> req[r].parts])
      /\ WritePart(p, "scalars", n) /\ "scalars" \in Part
      /\ UNCHANGED <<users, spent, holders, failures>>
  BY <1>1 DEF PlaceScalars, AccountInv, SlotOK, At, TypeOK, Part
<1>3. [author |-> req[r].user, parts |-> req[r].parts] \in EditionRow
  BY <1>2 DEF IsOwner, Slot, EditionRow
<1>4. /\ EditionsGrow /\ n \in DOMAIN editions' /\ n \in Edition
      /\ editions'[n].author = req[r].user
      /\ editions'[n].parts = req[r].parts
      /\ \A i \in DOMAIN editions : i \in Nat /\ i < n
  BY <1>1, <1>2, <1>3, EditionAdded
<1>5. /\ DOMAIN places' = DOMAIN places
      /\ \A x \in DOMAIN places :
           x = p => places'[x].scalars = n /\ places'[x].location = places[x].location
  BY <1>2, <1>4, PartWritten
<1>6. \A x \in DOMAIN places' : x # p =>
        /\ x \in DOMAIN places
        /\ Torn(x)' <=> Torn(x)
        /\ \A e : Leads(x, e)' <=> Leads(x, e)
  BY <1>2, <1>4, OthersStay
<1>7. p \in Place /\ entangled \subseteq Place
  BY <1>1, <1>2 DEF AccountInv, TypeOK, IsOwner
<1>8. CASE "location" \in req[r].parts
  <2>1. /\ Become(r, [req[r] EXCEPT !.pc = "place:second", !.edition = n])
        /\ entangled' = IF \E s \in Request : Halfway(s, p)
                        THEN entangled \cup {p} ELSE entangled
    BY <1>1, <1>8 DEF PlaceScalars
  <2>2. PICK q1 : q1 = [req[r] EXCEPT !.pc = "place:second"]
    OBVIOUS
  <2>3. /\ q1 \in Slot /\ q1.pc = "place:second"
        /\ q1.place = p /\ q1.user = req[r].user
    <3>1. req[r] \in Slot /\ req[r].place = p
      BY <1>1, <1>2
    <3> QED BY <2>2, <3>1 DEF Slot, Pc, PlacePc
  <2>4. PICK q : q = [q1 EXCEPT !.edition = n] /\ Become(r, q)
    BY <2>1, <2>2
  <2>5. /\ q \in Slot /\ q.pc = "place:second" /\ q.edition = n
        /\ q.place = p /\ q.user = req[r].user
    BY <1>4, <2>3, <2>4 DEF Slot, Edition
  <2>6. entangled \subseteq entangled' /\ entangled' \subseteq Place
    BY <1>7, <2>1
  <2>7. /\ TypeOK' /\ IdsDrawn' /\ HoldersAreStored'
        /\ WrittenByOwner' /\ EditionsKnown'
        /\ \A s \in Request : SlotOK(req[s])'
        /\ \A s \in Request : req'[s] = IF s = r THEN q ELSE req[s]
    <3>1. DOMAIN places' = DOMAIN places
          /\ \A x \in DOMAIN places : places'[x].owner = places[x].owner
      BY <1>2, <1>4, PartWritten
    <3>2. IsOwner(q)'
      BY <1>1, <1>2, <2>5, <3>1 DEF IsOwner
    <3>3. SlotOK(q)'
      BY <1>4, <2>5, <3>2 DEF SlotOK
    <3> QED BY <1>1, <1>2, <1>4, <2>4, <2>6, <3>3, WriteStep
  <2>8. /\ \A s \in Request : \A x : s # r => (Halfway(s, x)' <=> Halfway(s, x))
        /\ \A s \in Request : s # r => req'[s] = req[s]
        /\ \A x : Halfway(r, x)' <=> x = p
        /\ req'[r].edition = n
    BY <2>5, <2>7 DEF Halfway, At
  <2>9. \A x : ~Halfway(r, x)
    BY <1>2 DEF Halfway, At
  <2>10. PlacesAreWhole'
    <3> SUFFICES ASSUME NEW x \in DOMAIN places' \ entangled',
                        \A s \in Request : ~Halfway(s, x)'
                 PROVE  ~Torn(x)'
      BY DEF PlacesAreWhole
    <3>1. x # p /\ \A s \in Request : ~Halfway(s, x)
      BY <2>8, <2>9
    <3>2. x \in DOMAIN places \ entangled
      BY <1>5, <2>6
    <3> QED BY <1>6, <3>1, <3>2 DEF AccountInv, PlacesAreWhole
  <2>11. OneHalfway'
    <3> SUFFICES ASSUME NEW x \in DOMAIN places' \ entangled'
                 PROVE  /\ \A s, t \in Request :
                             Halfway(s, x)' /\ Halfway(t, x)' => s = t
                        /\ \A s \in Request :
                             Halfway(s, x)' => Leads(x, req[s].edition)'
      BY DEF OneHalfway
    <3>1. x \in DOMAIN places \ entangled
      BY <1>5, <2>6
    <3>2. CASE x = p
      <4>1. \A s \in Request : ~Halfway(s, p)
        BY <2>1, <3>2
      <4>2. \A s \in Request : Halfway(s, x)' <=> s = r
        BY <2>8, <3>2, <4>1
      <4>3. Leads(x, req[r].edition)'
        BY <1>5, <2>8, <3>1, <3>2 DEF Leads
      <4> QED BY <4>2, <4>3
    <3>3. CASE x # p
      <4>1. \A s \in Request : Halfway(s, x)' => Halfway(s, x) /\ req'[s] = req[s]
        BY <2>8, <3>3
      <4> QED BY <1>6, <3>1, <3>3, <4>1 DEF AccountInv, OneHalfway
    <3> QED BY <3>2, <3>3
  <2> QED BY <2>7, <2>10, <2>11 DEF AccountInv
<1>9. CASE "location" \notin req[r].parts
  <2>1. Goto(r, "place:updated") /\ entangled' = entangled
    BY <1>9 DEF PlaceScalars
  <2>2. PICK q : q = [req[r] EXCEPT !.pc = "place:updated"] /\ Become(r, q)
    BY <2>1 DEF Goto, Become
  <2>3. q \in Slot /\ q.pc = "place:updated"
    BY <1>2, <2>2 DEF Slot, Pc, PlacePc
  <2>4. /\ TypeOK' /\ IdsDrawn' /\ HoldersAreStored'
        /\ WrittenByOwner' /\ EditionsKnown'
        /\ \A s \in Request : SlotOK(req[s])'
        /\ \A s \in Request : req'[s] = IF s = r THEN q ELSE req[s]
    <3>1. SlotOK(q)' /\ entangled' \subseteq Place
      BY <1>7, <2>1, <2>3, PlainSlot
    <3> QED BY <1>1, <1>2, <1>4, <2>1, <2>2, <3>1, WriteStep
  <2>5. \A s \in Request : \A x : /\ Halfway(s, x)' <=> Halfway(s, x)
                                  /\ Halfway(s, x) => req'[s] = req[s]
    <3>1. ~At(r, "place:second") /\ q.pc # "place:second"
      BY <1>2, <2>3 DEF At
    <3> QED BY <2>4, <3>1, HalfwaysStay
  <2>6. \A x \in DOMAIN places : x = p =>
          /\ places[x].location \in DOMAIN editions
          /\ places[x].location \in Nat /\ places[x].location < n
    BY <1>4 DEF AccountInv, EditionsKnown
  <2>7. PlacesAreWhole'
    <3> SUFFICES ASSUME NEW x \in DOMAIN places' \ entangled',
                        \A s \in Request : ~Halfway(s, x)'
                 PROVE  ~Torn(x)'
      BY DEF PlacesAreWhole
    <3>1. CASE x = p
      <4>1. /\ places'[x].scalars = n /\ n \in Nat
            /\ places'[x].location = places[x].location
            /\ places[x].location \in Nat /\ places[x].location < n
            /\ "location" \notin editions'[n].parts
        BY <1>4, <1>5, <1>9, <2>6, <3>1 DEF Edition
      <4> QED BY <4>1 DEF Torn
    <3>2. CASE x # p
      BY <1>6, <2>1, <2>5, <3>2 DEF AccountInv, PlacesAreWhole
    <3> QED BY <3>1, <3>2
  <2>8. OneHalfway'
    <3> SUFFICES ASSUME NEW x \in DOMAIN places' \ entangled'
                 PROVE  /\ \A s, t \in Request :
                             Halfway(s, x)' /\ Halfway(t, x)' => s = t
                        /\ \A s \in Request :
                             Halfway(s, x)' => Leads(x, req[s].edition)'
      BY DEF OneHalfway
    <3>1. /\ x \in DOMAIN places \ entangled
          /\ \A s, t \in Request : Halfway(s, x) /\ Halfway(t, x) => s = t
          /\ \A s \in Request : Halfway(s, x) => Leads(x, req[s].edition)
      BY <1>5, <2>1 DEF AccountInv, OneHalfway
    <3>2. ASSUME NEW s \in Request, Halfway(s, x)'
          PROVE  Leads(x, req[s].edition)'
      <4>1. Halfway(s, x) /\ req'[s] = req[s]
        BY <2>5, <3>2
      <4>2. CASE x = p
        <5>1. req[s].edition \in DOMAIN editions
          BY <4>1 DEF AccountInv, SlotOK, Halfway, At
        <5>2. /\ places'[x].scalars = n /\ req'[s].edition < n
              /\ "location" \notin editions'[n].parts
          BY <1>4, <1>5, <1>9, <4>1, <4>2, <5>1
        <5> QED BY <5>2 DEF Leads
      <4>3. CASE x # p
        BY <1>6, <3>1, <4>1, <4>3
      <4> QED BY <4>2, <4>3
    <3> QED BY <2>5, <3>1, <3>2
  <2> QED BY <2>4, <2>7, <2>8 DEF AccountInv
<1> QED BY <1>8, <1>9

\* The location is written: by a dto that has nothing else, or by the second
\* statement of an update, which leaves the place whole.
LEMMA PlaceLocationKeeps ==
  ASSUME AccountInv, NEW r \in Request, PlaceLocation(r)
  PROVE  AccountInv'
<1>1. PICK p : p = req[r].place
  OBVIOUS
<1>2. /\ req[r].pc \in {"place:location", "place:second"}
      /\ req[r] \in Slot /\ SlotOK(req[r]) /\ IsOwner(req[r])
      /\ Goto(r, "place:updated") /\ "location" \in Part
      /\ entangled' = entangled /\ entangled \subseteq Place
      /\ UNCHANGED <<users, spent, holders, failures>>
  BY DEF PlaceLocation, AccountInv, SlotOK, At, Halfway, TypeOK, Part
<1>3. PICK q : q = [req[r] EXCEPT !.pc = "place:updated"] /\ Become(r, q)
  BY <1>2 DEF Goto, Become
<1>4. q \in Slot /\ q.pc = "place:updated" /\ SlotOK(q)'
  <2>1. q \in Slot /\ q.pc = "place:updated"
    BY <1>2, <1>3 DEF Slot, Pc, PlacePc
  <2> QED BY <2>1, PlainSlot
<1>5. CASE At(r, "place:location")
  <2>1. PICK n : n = Len(editions) + 1
    OBVIOUS
  <2>2. /\ editions' = Append(editions, [author |-> req[r].user,
                                         parts |-> req[r].parts])
        /\ WritePart(p, "location", n)
    BY <1>1, <1>5, <2>1 DEF PlaceLocation, Halfway, At
  <2>3. [author |-> req[r].user, parts |-> req[r].parts] \in EditionRow
    BY <1>2 DEF IsOwner, Slot, EditionRow
  <2>4. /\ EditionsGrow /\ n \in DOMAIN editions' /\ n \in Edition
        /\ editions'[n].author = req[r].user
        /\ editions'[n].parts = req[r].parts
        /\ \A i \in DOMAIN editions : i \in Nat /\ i < n
    BY <2>1, <2>2, <2>3, EditionAdded
  <2>5. /\ DOMAIN places' = DOMAIN places
        /\ \A x \in DOMAIN places :
             x = p => /\ places'[x].location = n
                      /\ places'[x].scalars = places[x].scalars
    <3>1. "location" \in Part /\ n \in Edition /\ WritePart(p, "location", n)
      BY <1>2, <2>2, <2>4
    <3> QED BY <3>1, PartWritten
  <2>6. \A x \in DOMAIN places' : x # p =>
          /\ x \in DOMAIN places
          /\ Torn(x)' <=> Torn(x)
          /\ \A e : Leads(x, e)' <=> Leads(x, e)
    BY <1>2, <2>2, <2>4, OthersStay
  <2>7. /\ TypeOK' /\ IdsDrawn' /\ HoldersAreStored'
        /\ WrittenByOwner' /\ EditionsKnown'
        /\ \A s \in Request : SlotOK(req[s])'
        /\ \A s \in Request : req'[s] = IF s = r THEN q ELSE req[s]
    BY <1>1, <1>2, <1>3, <1>4, <2>2, <2>4, WriteStep
  <2>8. \A s \in Request : \A x : /\ Halfway(s, x)' <=> Halfway(s, x)
                                  /\ Halfway(s, x) => req'[s] = req[s]
    <3>1. ~At(r, "place:second") /\ q.pc # "place:second"
      BY <1>4, <1>5 DEF At
    <3> QED BY <2>7, <3>1, HalfwaysStay
  <2>9. \A x \in DOMAIN places :
          /\ places[x].scalars \in DOMAIN editions
          /\ places[x].scalars \in Nat /\ places[x].scalars < n
    BY <2>4 DEF AccountInv, EditionsKnown
  <2>10. "scalars" \notin editions'[n].parts
    BY <1>2, <1>5, <2>4 DEF SlotOK, At
  <2>11. PlacesAreWhole'
    <3> SUFFICES ASSUME NEW x \in DOMAIN places' \ entangled',
                        \A s \in Request : ~Halfway(s, x)'
                 PROVE  ~Torn(x)'
      BY DEF PlacesAreWhole
    <3>1. CASE x = p
      <4>1. /\ places'[x].location = n /\ n \in Nat
            /\ places'[x].scalars = places[x].scalars
            /\ places[x].scalars \in Nat /\ places[x].scalars < n
        BY <2>4, <2>5, <2>9, <3>1 DEF Edition
      <4> QED BY <2>10, <4>1 DEF Torn
    <3>2. CASE x # p
      BY <1>2, <2>6, <2>8, <3>2 DEF AccountInv, PlacesAreWhole
    <3> QED BY <3>1, <3>2
  <2>12. OneHalfway'
    <3>1. \A x \in DOMAIN places' : \A e : Leads(x, e) => Leads(x, e)'
      <4> TAKE x \in DOMAIN places'
      <4> TAKE e
      <4>1. CASE x = p
        <5>1. editions'[places[x].scalars] = editions[places[x].scalars]
          BY <2>4, <2>5, <2>9 DEF EditionsGrow
        <5> QED BY <2>5, <4>1, <5>1 DEF Leads
      <4>2. CASE x # p
        BY <2>6, <4>2
      <4> QED BY <4>1, <4>2
    <3> QED BY <1>2, <2>5, <2>8, <3>1 DEF AccountInv, OneHalfway
  <2> QED BY <2>7, <2>11, <2>12 DEF AccountInv
<1>6. CASE At(r, "place:second")
  <2>1. PICK e : e = req[r].edition
    OBVIOUS
  <2>2. /\ WritePart(p, "location", e) /\ editions' = editions
        /\ \A x : Halfway(r, x) <=> x = p
    BY <1>1, <1>6, <2>1 DEF PlaceLocation, Halfway, At
  <2>3. /\ e \in DOMAIN editions /\ editions[e].author = req[r].user
        /\ editions \in Seq(EditionRow)
    BY <1>2, <1>6, <2>1 DEF SlotOK, At, AccountInv, TypeOK
  <2>4. EditionsGrow /\ e \in Edition
    BY <2>2, <2>3, EditionNumber DEF EditionsGrow
  <2>5. /\ DOMAIN places' = DOMAIN places
        /\ \A x \in DOMAIN places :
             x = p => /\ places'[x].location = e
                      /\ places'[x].scalars = places[x].scalars
    BY <1>2, <2>2, <2>4, PartWritten
  <2>6. \A x \in DOMAIN places' : x # p =>
          /\ x \in DOMAIN places
          /\ Torn(x)' <=> Torn(x)
          /\ \A f : Leads(x, f)' <=> Leads(x, f)
    BY <1>2, <2>2, <2>4, OthersStay
  <2>7. /\ TypeOK' /\ IdsDrawn' /\ HoldersAreStored'
        /\ WrittenByOwner' /\ EditionsKnown'
        /\ \A s \in Request : SlotOK(req[s])'
        /\ \A s \in Request : req'[s] = IF s = r THEN q ELSE req[s]
    BY <1>1, <1>2, <1>3, <1>4, <2>2, <2>3, <2>4, WriteStep
  <2>8. /\ \A s \in Request : \A x : s # r => (Halfway(s, x)' <=> Halfway(s, x))
        /\ \A s \in Request : s # r => req'[s] = req[s]
        /\ \A x : ~Halfway(r, x)'
    BY <1>4, <2>7 DEF Halfway, At
  <2>9. PlacesAreWhole'
    <3> SUFFICES ASSUME NEW x \in DOMAIN places' \ entangled',
                        \A s \in Request : ~Halfway(s, x)'
                 PROVE  ~Torn(x)'
      BY DEF PlacesAreWhole
    <3>1. x \in DOMAIN places \ entangled
      BY <1>2, <2>5
    <3>2. CASE x = p
      <4>1. Leads(x, e)
        BY <2>1, <2>2, <3>1, <3>2 DEF AccountInv, OneHalfway
      <4>2. /\ places'[x].location = e /\ places'[x].scalars = places[x].scalars
            /\ e \in Nat /\ places[x].scalars \in Nat
        BY <2>4, <2>5, <3>1, <3>2, EditionNumber
        DEF Edition, AccountInv, EditionsKnown
      <4> QED BY <2>2, <4>1, <4>2 DEF Leads, Torn
    <3>3. CASE x # p
      <4>1. \A s \in Request : ~Halfway(s, x)
        BY <2>2, <2>8, <3>3
      <4> QED BY <2>6, <3>1, <3>3, <4>1 DEF AccountInv, PlacesAreWhole
    <3> QED BY <3>2, <3>3
  <2>10. OneHalfway'
    <3> SUFFICES ASSUME NEW x \in DOMAIN places' \ entangled'
                 PROVE  /\ \A s, t \in Request :
                             Halfway(s, x)' /\ Halfway(t, x)' => s = t
                        /\ \A s \in Request :
                             Halfway(s, x)' => Leads(x, req[s].edition)'
      BY DEF OneHalfway
    <3>1. x \in DOMAIN places \ entangled
      BY <1>2, <2>5
    <3>2. \A s \in Request : Halfway(s, x)' =>
            s # r /\ Halfway(s, x) /\ req'[s] = req[s]
      BY <2>8
    <3>3. CASE x = p
      BY <2>2, <3>1, <3>2, <3>3 DEF AccountInv, OneHalfway
    <3>4. CASE x # p
      BY <2>6, <3>1, <3>2, <3>4 DEF AccountInv, OneHalfway
    <3> QED BY <3>3, <3>4
  <2> QED BY <2>7, <2>9, <2>10 DEF AccountInv
<1> QED BY <1>2, <1>5, <1>6 DEF At

-----------------------------------------------------------------------------
(* The invariant *)

\* No row, no id drawn, every request free.
LEMMA InitHolds == Init => AccountInv
<1> SUFFICES ASSUME Init PROVE AccountInv
  OBVIOUS
<1>1. \A r \in Request : req[r] = Idle
  BY DEF Init
<1>2. TypeOK
  BY IdleSlot, LimitsAssumption DEF Init, TypeOK
<1>3. \A r \in Request : SlotOK(req[r])
  BY <1>1, IdleSlot DEF SlotOK
<1>4. /\ IdsDrawn /\ HoldersAreStored /\ WrittenByOwner /\ EditionsKnown
      /\ PlacesAreWhole /\ OneHalfway
  BY DEF Init, IdsDrawn, HoldersAreStored, WrittenByOwner, EditionsKnown,
         PlacesAreWhole, OneHalfway
<1> QED BY <1>2, <1>3, <1>4 DEF AccountInv

\* Each action keeps the invariant.
LEMMA NextKeeps == AccountInv /\ [Next]_vars => AccountInv'
<1> SUFFICES ASSUME AccountInv, [Next]_vars PROVE AccountInv'
  OBVIOUS
<1>1. CASE Seed
  BY <1>1, SeedKeeps
<1>2. ASSUME NEW r \in Request, LogIn(r) PROVE AccountInv'
  BY <1>2, BeginEmailKeeps, NewUserKeeps, FindKeeps, TokenStoreKeeps DEF LogIn
<1>3. ASSUME NEW r \in Request, Call(r) PROVE AccountInv'
  BY <1>3, BeginCallKeeps, GuardKeeps, DeleteKeeps, PlaceInsertKeeps,
     PlaceFindKeeps, PlaceScalarsKeeps, PlaceLocationKeeps, RereadKeeps DEF Call
<1>4. ASSUME NEW r \in Request, StatementFails(r) \/ Release(r) PROVE AccountInv'
  BY <1>4, FailureKeeps, RereadKeeps
<1>5. CASE UNCHANGED vars
  BY <1>5 DEF vars, AccountInv, TypeOK, IdsDrawn, HoldersAreStored,
     WrittenByOwner, EditionsKnown, PlacesAreWhole, OneHalfway, Halfway, At,
     SlotOK, IsOwner, Torn, Leads
<1> QED BY <1>1, <1>2, <1>3, <1>4, <1>5 DEF Next

\* The invariant holds of every behaviour.
LEMMA AccountInvHolds == Spec => []AccountInv
  BY InitHolds, NextKeeps, PTL DEF Spec

\* Every variable keeps its type; no address gets a second account and no place
\* outlives its owner, whatever logins, inserts and removals overlap.
THEOREM AccountsTypeCorrect == Spec => []TypeOK
<1>1. AccountInv => TypeOK
  BY DEF AccountInv
<1> QED BY <1>1, AccountInvHolds, PTL

\* Whoever was answered tokens has them in his row while he has one.
THEOREM TokensAreStored == Spec => []HoldersAreStored
<1>1. AccountInv => HoldersAreStored
  BY DEF AccountInv
<1> QED BY <1>1, AccountInvHolds, PTL

\* What a place holds comes from its owner, although the owner is checked in one
\* statement and the columns are written in two others.
THEOREM OwnersWrite == Spec => []WrittenByOwner
<1>1. AccountInv => WrittenByOwner
  BY DEF AccountInv
<1> QED BY <1>1, AccountInvHolds, PTL

\* A place goes only when its owner removes it or with his account, although he is
\* read in one statement and the place deleted in another.
THEOREM PlacesGoWithOwners == Spec => OwnersRemove
<1> DEFINE Removal ==
      \A p \in DOMAIN places \ DOMAIN places' :
        \/ places[p].owner \notin DOMAIN users'
        \/ \E r \in Request :
             /\ At(r, "place:delete") /\ req'[r].pc = "done"
             /\ req[r].place = p /\ req[r].user = places[p].owner
<1>1. AccountInv /\ [Next]_vars => [Removal]_vars
  <2> SUFFICES ASSUME AccountInv, Next PROVE Removal
    OBVIOUS
  <2>1. CASE Seed
    BY <2>1 DEF Seed
  <2>2. ASSUME NEW r \in Request, PlaceDelete(r) PROVE Removal
    <3>1. /\ At(r, "place:delete") /\ SlotOK(req[r])
          /\ DOMAIN places' = DOMAIN places \ {req[r].place}
          /\ Answer(r, 200)
      BY <2>2 DEF PlaceDelete, AccountInv
    <3>2. req'[r].pc = "done"
      BY <3>1, IdleSlot DEF Answer, Become, AccountInv, TypeOK, Slot
    <3> QED BY <3>1, <3>2 DEF SlotOK, IsOwner, At
  <2>3. ASSUME NEW r \in Request, UserDelete(r) PROVE Removal
    BY <2>3 DEF UserDelete, DeleteUser
  <2>4. ASSUME NEW r \in Request, \/ LogIn(r) \/ StatementFails(r) \/ Release(r)
        PROVE  Removal
    BY <2>4 DEF LogIn, BeginEmail, RegisterInsert, LoginFind, OAuthFind,
       OAuthInsert, TokenStore, StatementFails, Release
  <2>5. ASSUME NEW r \in Request,
               \/ BeginCall(r) \/ Guard(r) \/ PlaceInsert(r) \/ PlaceFind(r)
               \/ PlaceScalars(r) \/ PlaceLocation(r) \/ PlaceReread(r)
        PROVE  Removal
    <3>1. DOMAIN places \subseteq DOMAIN places'
      BY <2>5 DEF BeginCall, Guard, PlaceInsert, PlaceFind, PlaceScalars,
         PlaceLocation, PlaceReread, WritePart
    <3> QED BY <3>1
  <2> QED BY <2>1, <2>2, <2>3, <2>4, <2>5 DEF Next, Call
<1> QED BY <1>1, AccountInvHolds, PTL DEF Spec, OwnersRemove

\* What an update wrote in both parts of a place is there in both, until a later
\* one replaces a part; only overlapping updates, or one that fails half way, undo
\* this.
THEOREM WholePlaces == Spec => []PlacesAreWhole
<1>1. AccountInv => PlacesAreWhole
  BY DEF AccountInv
<1> QED BY <1>1, AccountInvHolds, PTL
=============================================================================
